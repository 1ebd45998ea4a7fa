------------------------------- MODULE SubMcp -------------------------------
(***************************************************************************)
(* Sub-MCP applications on one worker: the router of app/sub_mcp_app.py, a *)
(* cache of the durable registrations of sub_mcp/store.py, the service     *)
(* that writes store first, the lazy build of a slug's application by its  *)
(* first request, and the reload that resets and rehydrates the router.    *)
(* Every section under the state lock is one step; what is awaited between *)
(* two of them interleaves, the reload thread included.  No lock spans the *)
(* store write and the router swap of a management operation, and the gate *)
(* is only looked at on entry, so operations overlap each other and a      *)
(* reload.  A registration is its config; a config in SmStdio has no ASGI  *)
(* surface.                                                                *)
(***************************************************************************)
EXTENDS Integers, FiniteSets

CONSTANTS
    SmSlugs,     \* slugs
    SmConfigs,   \* registrations a slug may get
    SmStdio,     \* the configs of transport stdio
    SmRequests,  \* requests in progress at once
    SmWriters,   \* management operations, and imports, in progress at once
    MaxSmWrites, \* bound: registrations, unregistrations, reloads, unheard writes, restarts
    MaxSmBuilds  \* bound: applications built

VARIABLES
    smStore,     \* slug -> config in the durable store, NoConfig
    smRoute,     \* slug -> config: _routes
    smGen,       \* slug -> generation token, 0 without one: _route_generations
    smCount,     \* _generation
    smCache,     \* slug -> application: _server_cache
    smStack,     \* slug -> application whose lifespan the router owns: _app_exit_stacks
    smApps,      \* application -> [cfg, state]
    smReq,       \* request -> what it is doing
    smBuilding,  \* the request that holds the build lock
    smOp,        \* management operation -> what it has written and not bound yet
    smReload,    \* the reload in progress: its listing and its rehydration
    smStale,     \* slugs a write the router was not told of, or an overlap, left behind (history)
    smLeft       \* bound: writes left

smVars == <<smStore, smRoute, smGen, smCount, smCache, smStack, smApps, smReq, smBuilding, smOp, smReload, smStale, smLeft>>
Management == <<smOp, smReload>>

NoConfig == "no config"
NotBuilt == 0
NoAsgi == -1        \* a cached slug without an ASGI surface
SmIdle == [step |-> "idle"]
Nobody == "nobody"

\* The build lock's owner is told from none.
ASSUME SmConstants == Nobody \notin SmRequests

Opened == {a \in DOMAIN smApps : smApps[a].state = "open"}

SmInit ==
    /\ smStore = [s \in SmSlugs |-> NoConfig] /\ smRoute = smStore
    /\ smGen = [s \in SmSlugs |-> 0] /\ smCount = 0
    /\ smCache = [s \in SmSlugs |-> NotBuilt] /\ smStack = smCache
    /\ smApps = [a \in {} |-> 0]
    /\ smReq = [q \in SmRequests |-> SmIdle] /\ smBuilding = Nobody
    /\ smOp = [w \in SmWriters |-> SmIdle] /\ smReload = SmIdle /\ smStale = {} /\ smLeft = MaxSmWrites

Closing(apps) == [a \in DOMAIN smApps |-> IF a \in apps THEN [smApps[a] EXCEPT !.state = "closing"] ELSE smApps[a]]
Owned(s) == {smStack[s]} \cap DOMAIN smApps

(* register_sub_mcp_app: what the slug had goes, the config comes in with a *)
(* token nobody had before.                                                *)
PutRoute(s, cfg) ==
    /\ smRoute' = [smRoute EXCEPT ![s] = cfg]
    /\ smCount' = smCount + 1 /\ smGen' = [smGen EXCEPT ![s] = smCount + 1]
    /\ smCache' = [smCache EXCEPT ![s] = NotBuilt] /\ smStack' = [smStack EXCEPT ![s] = NotBuilt]
    /\ smApps' = Closing(Owned(s))

PopRoute(s) ==
    /\ smRoute' = [smRoute EXCEPT ![s] = NoConfig] /\ smGen' = [smGen EXCEPT ![s] = 0]
    /\ smCache' = [smCache EXCEPT ![s] = NotBuilt] /\ smStack' = [smStack EXCEPT ![s] = NotBuilt]
    /\ smApps' = Closing(Owned(s))
    /\ UNCHANGED smCount

Router == <<smRoute, smGen, smCount, smCache, smStack, smApps>>

(* A closed lifespan: aclose on the loop that owns it.                      *)
CloseApp(a) ==
    /\ a \in DOMAIN smApps /\ smApps[a].state = "closing"
    /\ smApps' = [smApps EXCEPT ![a].state = "closed"]
    /\ UNCHANGED <<smStore, smRoute, smGen, smCount, smCache, smStack, smReq, smBuilding, Management, smStale, smLeft>>

----------------------------------------------------------------------------
SmStep(q, step) == smReq' = [smReq EXCEPT ![q].step = step]
ReqEnd(q) == smReq' = [smReq EXCEPT ![q] = SmIdle]

(* A request: the cached application, a known slug to build, or the store.  *)
Dispatch(q, s) ==
    /\ smReq[q] = SmIdle
    /\ smReq' = [smReq EXCEPT ![q] = [slug |-> s, cfg |-> NoConfig, gen |-> 0, app |-> smCache[s],
          step |-> IF smCache[s] # NotBuilt THEN "serve" ELSE IF smRoute[s] # NoConfig THEN "lock" ELSE "store"]]
    /\ UNCHANGED <<smStore, Router, smBuilding, Management, smStale, smLeft>>

(* The cross-worker read path.                                              *)
ReadStore(q) ==
    /\ smReq[q].step = "store"
    /\ IF smStore[smReq[q].slug] = NoConfig THEN ReqEnd(q)
       ELSE smReq' = [smReq EXCEPT ![q].step = "bind", ![q].cfg = smStore[smReq[q].slug]]
    /\ UNCHANGED <<smStore, Router, smBuilding, Management, smStale, smLeft>>

BindRead(q) ==
    /\ smReq[q].step = "bind"
    /\ PutRoute(smReq[q].slug, smReq[q].cfg)
    /\ SmStep(q, "lock")
    /\ UNCHANGED <<smStore, smBuilding, Management, smStale, smLeft>>

(* Under the build lock, the config and its token are captured together,    *)
Capture(q) ==
    LET s == smReq[q].slug IN
    /\ smReq[q].step = "lock" /\ smBuilding \in {Nobody, q}
    /\ IF smCache[s] # NotBuilt
       THEN smReq' = [smReq EXCEPT ![q].step = "serve", ![q].app = smCache[s]] /\ smBuilding' = Nobody
       ELSE IF smRoute[s] = NoConfig THEN ReqEnd(q) /\ smBuilding' = Nobody
       ELSE smReq' = [smReq EXCEPT ![q].step = "build", ![q].cfg = smRoute[s], ![q].gen = smGen[s]] /\ smBuilding' = q
    /\ UNCHANGED <<smStore, Router, Management, smStale, smLeft>>

\* A plausible mistake: the slug is still registered, whatever with.
MutantStillCurrent(s, gen) == smRoute[s] # NoConfig

StillCurrent(s, gen) == smGen[s] = gen

NewApp == Cardinality(DOMAIN smApps) + 1

(* and the application is kept only if the token still stands; else its     *)
(* lifespan is closed and the build is tried again, or given up.            *)
Built(q) ==
    LET s == smReq[q].slug
        cfg == smReq[q].cfg
        current == StillCurrent(s, smReq[q].gen)
        asgi == cfg \notin SmStdio
        app == IF asgi THEN NewApp ELSE NoAsgi IN
    /\ smReq[q].step = "build" /\ NewApp <= MaxSmBuilds
    /\ smApps' = IF ~asgi THEN smApps
                 ELSE [a \in 1..NewApp |-> IF a = NewApp THEN [cfg |-> cfg, state |-> IF current THEN "open" ELSE "closing"] ELSE smApps[a]]
    /\ smCache' = IF current THEN [smCache EXCEPT ![s] = app] ELSE smCache
    /\ smStack' = IF current /\ asgi THEN [smStack EXCEPT ![s] = app] ELSE smStack
    /\ IF current THEN smReq' = [smReq EXCEPT ![q].step = "serve", ![q].app = app] /\ smBuilding' = Nobody
       ELSE IF smGen[s] = 0 THEN ReqEnd(q) /\ smBuilding' = Nobody
       ELSE SmStep(q, "lock") /\ UNCHANGED smBuilding
    /\ UNCHANGED <<smStore, smRoute, smGen, smCount, Management, smStale, smLeft>>

(* A build that fails, or is cancelled: its lifespan's task is cancelled    *)
(* and awaited before the error goes on.                                   *)
BuildFails(q) ==
    /\ smReq[q].step = "build"
    /\ ReqEnd(q) /\ smBuilding' = Nobody
    /\ UNCHANGED <<smStore, Router, Management, smStale, smLeft>>

(* The request reaches the application, unless the route has gone.          *)
Serve(q) ==
    /\ smReq[q].step = "serve"
    /\ ReqEnd(q)
    /\ UNCHANGED <<smStore, Router, smBuilding, Management, smStale, smLeft>>

----------------------------------------------------------------------------
Write == smLeft > 0 /\ smLeft' = smLeft - 1

\* Slugs of which a request, an operation or the reload holds what it has not bound yet.
Held == {s \in SmSlugs : \/ \E q \in SmRequests : smReq[q].step = "bind" /\ smReq[q].slug = s
                         \/ \E w \in SmWriters : smOp[w] # SmIdle /\ smOp[w].slug = s
                         \/ smReload.step = "rehydrate" /\ s \in DOMAIN smReload.todo}

\* What is held when a slug's row changes may be bound after it: the later writer does not win.
RouteOvertaken(s) == smStale' = IF s \in Held THEN smStale \cup {s} ELSE smStale \ {s}

(* The service writes the store, then the router.                           *)
SaveRoute(w, s, cfg) ==
    /\ Write /\ smOp[w] = SmIdle
    /\ smStore' = [smStore EXCEPT ![s] = cfg]
    /\ smOp' = [smOp EXCEPT ![w] = [step |-> "put", slug |-> s, cfg |-> cfg]]
    /\ RouteOvertaken(s)
    /\ UNCHANGED <<Router, smReq, smBuilding, smReload>>

OpEnd(w) == smOp' = [smOp EXCEPT ![w] = SmIdle]

SwapRoute(w) ==
    /\ smOp[w].step = "put"
    /\ PutRoute(smOp[w].slug, smOp[w].cfg)
    /\ OpEnd(w)
    /\ UNCHANGED <<smStore, smReq, smBuilding, smReload, smStale, smLeft>>

DeleteRoute(w, s) ==
    /\ Write /\ smOp[w] = SmIdle
    /\ smStore' = [smStore EXCEPT ![s] = NoConfig]
    /\ smOp' = [smOp EXCEPT ![w] = [step |-> "drop", slug |-> s]]
    /\ RouteOvertaken(s)
    /\ UNCHANGED <<Router, smReq, smBuilding, smReload>>

DropRoute(s) == IF smRoute[s] = NoConfig THEN UNCHANGED Router ELSE PopRoute(s)

UnbindRoute(w) ==
    /\ smOp[w].step = "drop"
    /\ DropRoute(smOp[w].slug)
    /\ OpEnd(w)
    /\ UNCHANGED <<smStore, smReq, smBuilding, smReload, smStale, smLeft>>

(* The store changes and this router is not told: another worker's save or  *)
(* delete, or one of this worker's whose command took effect and whose      *)
(* answer was lost, so that it raised before the swap.                      *)
UnheardWrite(s, cfg) ==
    /\ Write /\ smStore[s] # cfg
    /\ smStore' = [smStore EXCEPT ![s] = cfg]
    /\ smStale' = smStale \cup {s}
    /\ UNCHANGED <<Router, smReq, smBuilding, Management>>

Registered == {s \in SmSlugs : smStore[s] # NoConfig}

(* reset, from the reload's own thread: every slug goes, tokens stay        *)
(* unrepeatable, and the registrations of the store are snapshotted.        *)
Reset ==
    /\ Write /\ smReload = SmIdle
    /\ smRoute' = [s \in SmSlugs |-> NoConfig] /\ smGen' = [s \in SmSlugs |-> 0] /\ smCount' = smCount + 1
    /\ smCache' = [s \in SmSlugs |-> NotBuilt] /\ smStack' = [s \in SmSlugs |-> NotBuilt]
    /\ smApps' = Closing(UNION {Owned(s) : s \in SmSlugs})
    /\ smReload' = [step |-> "list"]
    /\ UNCHANGED <<smStore, smReq, smBuilding, smOp, smStale>>

\* Whatever a slug missed, the listing makes up for, unless something older of it is still on its way.
ListRoutes ==
    /\ smReload.step = "list"
    /\ smReload' = [step |-> "rehydrate", todo |-> [s \in Registered |-> smStore[s]]]
    /\ smStale' = smStale \cap (Held \cup {s \in SmSlugs : smRoute[s] # NoConfig})
    /\ UNCHANGED <<smStore, Router, smReq, smBuilding, smOp, smLeft>>

Rehydrate(s) ==
    /\ smReload.step = "rehydrate" /\ s \in DOMAIN smReload.todo
    /\ PutRoute(s, smReload.todo[s])
    /\ smReload' = [smReload EXCEPT !.todo = [x \in DOMAIN @ \ {s} |-> @[x]]]
    /\ UNCHANGED <<smStore, smReq, smBuilding, smOp, smStale, smLeft>>

RehydrateEnd ==
    /\ smReload.step = "rehydrate" /\ DOMAIN smReload.todo = {}
    /\ smReload' = SmIdle
    /\ UNCHANGED <<smStore, Router, smReq, smBuilding, smOp, smStale, smLeft>>

(* The worker crashes and starts again: only the store is left.             *)
Restart ==
    /\ Write
    /\ smRoute' = [s \in SmSlugs |-> NoConfig] /\ smGen' = [s \in SmSlugs |-> 0] /\ smCount' = 0
    /\ smCache' = [s \in SmSlugs |-> NotBuilt] /\ smStack' = [s \in SmSlugs |-> NotBuilt]
    /\ smApps' = [a \in DOMAIN smApps |-> [smApps[a] EXCEPT !.state = "closed"]]
    /\ smReq' = [q \in SmRequests |-> SmIdle] /\ smBuilding' = Nobody
    /\ smOp' = [w \in SmWriters |-> SmIdle] /\ smReload' = [step |-> "list"] /\ smStale' = {}
    /\ UNCHANGED smStore

SmNext ==
    \/ \E q \in SmRequests :
          \/ \E s \in SmSlugs : Dispatch(q, s)
          \/ ReadStore(q) \/ BindRead(q) \/ Capture(q) \/ Built(q) \/ BuildFails(q) \/ Serve(q)
    \/ \E a \in DOMAIN smApps : CloseApp(a)
    \/ \E w \in SmWriters :
          \/ \E s \in SmSlugs : DeleteRoute(w, s) \/ \E cfg \in SmConfigs : SaveRoute(w, s, cfg)
          \/ SwapRoute(w) \/ UnbindRoute(w)
    \/ \E s \in SmSlugs :
          \/ \E cfg \in SmConfigs \cup {NoConfig} : UnheardWrite(s, cfg)
          \/ Rehydrate(s)
    \/ Reset \/ ListRoutes \/ RehydrateEnd \/ Restart

SmSpec == SmInit /\ [][SmNext]_smVars

----------------------------------------------------------------------------
(* Whatever is replaced, unregistered, reset or rehydrated while a first     *)
(* request builds: a cached application was built from the registration the *)
(* router has now and its lifespan is running, and every lifespan that runs *)
(* is one the router will close.                                           *)
AppsCurrent ==
    /\ \A s \in SmSlugs :
          /\ smCache[s] \in DOMAIN smApps => /\ smApps[smCache[s]] = [cfg |-> smRoute[s], state |-> "open"]
                                             /\ smStack[s] = smCache[s]
          /\ smCache[s] = NoAsgi => smRoute[s] \in SmStdio
    /\ Opened = {smStack[s] : s \in SmSlugs} \cap DOMAIN smApps

\* An operation has written the slug's row and not bound it yet.
Under(s) == \E w \in SmWriters : smOp[w] # SmIdle /\ smOp[w].slug = s

(* But for a slug an operation is at, the worker serves what the store says *)
(* or nothing, in the middle of a reload too.  Excepted are slugs whose row *)
(* changed while something older of them was on its way (two registrations  *)
(* that overlap may bind in the other order), or without this router being  *)
(* told of it; they are made up for by the next write that overlaps nothing *)
(* and by the next reload that finds nothing of them on its way.            *)
RoutesCurrent == \A s \in SmSlugs \ smStale : Under(s) \/ smRoute[s] \in {smStore[s], NoConfig}

\* What a slug answers with is what it is registered as, in the process and in its own router.
SlugsCurrent == AppsCurrent /\ RoutesCurrent
=============================================================================

------------------------------ MODULE Presets ------------------------------
(***************************************************************************)
(* Presets across a fleet: the operations of operations/presets.py, the    *)
(* per-worker PresetManager and the bus handler that rebinds or removes a  *)
(* preset on a sibling.  The stored documents are those of DocumentHistory *)
(* (VersionedStore shows the store implements it), each store call one     *)
(* step; the awaits between store calls, registration and fan-out are step *)
(* boundaries.  Within a worker the manager's per-name lock is held from   *)
(* the teardown of a reload to its re-registration.                        *)
(* A body is its base tool, one setting and the tools it names; the        *)
(* validation chain is abstracted to what decides it: the tools live on    *)
(* the worker and the settings that bind there.                            *)
(***************************************************************************)
EXTENDS Integers, FiniteSets, Sequences

CONSTANTS
    PsWorkers,  \* worker processes
    PsReqs,     \* requests in progress at once
    PsNames,    \* preset names
    PsBase,     \* the base tool of every preset
    PsSeed,     \* presets every worker serves at the start, name -> body
    PsBodies,   \* bodies a preset is created with: [base, val, refs]
    PsVals,     \* settings a save may bring
    PsBad,      \* <<worker, setting>> pairs that do not bind there
    PsToggles,  \* tools an MCP server may bring or take on a worker
    MaxPsOps,   \* bound: requests begun
    MaxPsVersions, \* bound: versions of a preset
    MaxPsFaults \* bound: lost messages, failed calls, tool changes and restarts

VARIABLES
    psStore,    \* name -> document (DocumentHistory)
    psSpec,     \* worker -> name -> registered body: PresetManager._specs
    psQuar,     \* worker -> PresetManager._quarantine
    psTools,    \* worker -> tools that are no presets
    psLock,     \* worker -> name -> holder of the manager's lock
    psMeta,     \* name -> the birth of the document its overlay row is about, 0 none
    psBorn,     \* name -> the birth of its live document
    psBus,      \* worker -> messages published and not yet handled
    psOp,       \* request or worker's handler -> what it is doing
    psLeft,     \* bounds: requests and faults left
    psMixed,    \* names whose structural operations overlapped (history)
    psMissed    \* worker -> names it was not told of, or could not bind (history)

psVars == <<psStore, psSpec, psQuar, psTools, psLock, psMeta, psBorn, psBus, psOp, psLeft, psMixed, psMissed>>

Docs == INSTANCE DocumentHistory WITH
    Names <- PsNames, Callers <- PsReqs, DhBodies <- PsBodies, DhPatches <- {},
    history <- psStore, saved <- psStore, reading <- [on |-> FALSE], answers <- [r \in PsReqs |-> "none"]

PsIdle == [kind |-> "idle"]
Unlocked == "free"
NoSpec == [base |-> "", val |-> 0, refs |-> {}]
PsActors == PsReqs \cup PsWorkers

ToolNames(w) == psTools[w] \cup {n \in PsNames : psSpec[w][n] # NoSpec}
Registered(w) == {n \in PsNames : psSpec[w][n] # NoSpec}
NameConflicts(w, n) == n \notin Registered(w) /\ n \in ToolNames(w)

(* Whether a body binds on a worker, the chain that tries it before a write, *)
(* and the references an agent body may  *)
(* carry: every tool it names exists there.                                *)
BindPreset(w, body) == body.base \in ToolNames(w) /\ <<w, body.val>> \notin PsBad
Binds(w, body) == BindPreset(w, body)
AuthoringError(w, body) == ~(body.refs \subseteq ToolNames(w))
ReferencingPresets(n) == {m \in PsNames \ {n} : Docs!Live(m) /\ n \in Docs!ActiveBody(m).refs}

(* _remove_registration takes whatever tool has the name.                   *)
TornDown(w, n) ==
    /\ psSpec' = [psSpec EXCEPT ![w][n] = NoSpec]
    /\ psTools' = [psTools EXCEPT ![w] = @ \ {n}]

(* _register: refused on a taken name or a body that does not bind.         *)
Registers(w, n, body) == n \notin ToolNames(w) /\ BindPreset(w, body)

(* Requests on one name whose outcomes the code does not order: two that    *)
(* create, delete or rename it, and any with a create, whose failed         *)
(* registration deletes what the other wrote.                              *)
Structural(o) == o.kind \in {"create", "delete", "rename"}
Unordered(o, q) == (Structural(o) /\ Structural(q)) \/ "create" \in {o.kind, q.kind}
Touches(o) == CASE o.kind \in {"idle", "reload", "remove"} -> {}
                [] o.kind = "rename" -> {o.name, o.to}
                [] OTHER -> {o.name}

(* Removals a worker has been told of and not yet carried out: a preset it  *)
(* creates meanwhile falls to them.                                        *)
RemovalsDue(w) ==
    {psBus[w][i].name : i \in {j \in DOMAIN psBus[w] : psBus[w][j].act = "remove"}}
    \cup (IF psOp[w].kind = "remove" THEN {psOp[w].name} ELSE {})

(* History: a request learns that another touched its names while it ran,   *)
(* and which workers read them from the store before it was undone.        *)
Met(ops, o) ==
    [a \in PsActors |-> IF Touches(ops[a]) \cap Touches(o) = {} THEN ops[a] ELSE [ops[a] EXCEPT !.met = TRUE]]
Noted(reader, w, names) ==
    [a \in PsActors |-> IF a = reader \/ Touches(psOp[a]) \cap names = {} THEN psOp[a]
                        ELSE [psOp[a] EXCEPT !.seen = @ \cup {w}]]

Finish(r) == psOp' = [psOp EXCEPT ![r] = PsIdle]
Step(r, s) == psOp' = [psOp EXCEPT ![r].step = s]
PsAt(r, kinds, s) == psOp[r].kind \in kinds /\ psOp[r].step = s

Fault == psLeft.faults > 0 /\ psLeft' = [psLeft EXCEPT !.faults = @ - 1]

PsInit ==
    /\ psStore = [n \in PsNames |-> IF n \in DOMAIN PsSeed THEN [active |-> 1, bodies |-> <<PsSeed[n]>>] ELSE Docs!NoDoc]
    /\ psSpec = [w \in PsWorkers |-> [n \in PsNames |-> IF n \in DOMAIN PsSeed THEN PsSeed[n] ELSE NoSpec]]
    /\ psQuar = [w \in PsWorkers |-> {}]
    /\ psTools = [w \in PsWorkers |-> {PsBase}]
    /\ psLock = [w \in PsWorkers |-> [n \in PsNames |-> Unlocked]]
    /\ psMeta = [n \in PsNames |-> 0] /\ psBorn = [n \in PsNames |-> IF n \in DOMAIN PsSeed THEN 1 ELSE 0]
    /\ psBus = [w \in PsWorkers |-> <<>>]
    /\ psOp = [a \in PsActors |-> PsIdle]
    /\ psLeft = [ops |-> MaxPsOps, faults |-> MaxPsFaults]
    /\ psMixed = {} /\ psMissed = [w \in PsWorkers |-> {}]

(* The checks of each request, made before its first write.                 *)
CreateRefused(w, n, body) ==
    \/ n \in psQuar[w] \/ NameConflicts(w, n) \/ n \in Registered(w)
    \/ body.base \in Registered(w) \/ body.base \notin ToolNames(w)
    \/ AuthoringError(w, body) \/ ~Binds(w, body)
SaveRefused(w, n, val) ==
    \/ n \in psQuar[w] \/ ~Docs!Live(n)
    \/ ~Binds(w, [Docs!ActiveBody(n) EXCEPT !.val = val])
RollbackRefused(w, n, v) ==
    \/ n \in psQuar[w] \/ ~Docs!Live(n) \/ v \notin DOMAIN psStore[n].bodies
    \/ ~Binds(w, psStore[n].bodies[v])
RenameRefused(w, n, m) ==
    \/ n \in psQuar[w] \/ ~Docs!Live(n) \/ m \in psQuar[w]
    \/ NameConflicts(w, m) \/ m \in Registered(w) \/ ReferencingPresets(n) # {}
DeleteRefused(w, n) == n \notin psQuar[w] /\ ~Docs!Live(n)

Accepted(o) ==
    CASE o.kind = "create" -> ~CreateRefused(o.w, o.name, o.body)
      [] o.kind = "save" -> ~SaveRefused(o.w, o.name, o.val)
      [] o.kind = "rollback" -> ~RollbackRefused(o.w, o.name, o.ver)
      [] o.kind = "rename" -> ~RenameRefused(o.w, o.name, o.to)
      [] OTHER -> ~DeleteRefused(o.w, o.name)

PsRequests ==
    [kind : {"create"}, w : PsWorkers, name : PsNames, body : PsBodies]
    \cup [kind : {"save"}, w : PsWorkers, name : PsNames, val : PsVals]
    \cup [kind : {"rollback"}, w : PsWorkers, name : PsNames, ver : 1..MaxPsVersions]
    \cup [kind : {"delete"}, w : PsWorkers, name : PsNames]
    \cup {o \in [kind : {"rename"}, w : PsWorkers, name : PsNames, to : PsNames] : o.to # o.name}

(* An accepted request: a refused one ends with nothing changed.  The      *)
(* version a failed save or rollback returns to is read with the checks.   *)
PsBegin(r, o) ==
    /\ psOp[r] = PsIdle /\ psLeft.ops > 0 /\ Accepted(o)
    /\ psLeft' = [psLeft EXCEPT !.ops = @ - 1]
    /\ psOp' = [Met(psOp, o) EXCEPT ![r] = [kind |-> o.kind, w |-> o.w, name |-> o.name,
          to |-> IF o.kind = "rename" THEN o.to ELSE o.name,
          body |-> IF o.kind = "create" THEN o.body ELSE NoSpec,
          val |-> IF o.kind = "save" THEN o.val ELSE 0,
          ver |-> IF o.kind = "rollback" THEN o.ver ELSE 0,
          prior |-> psStore[o.name].active, cap |-> NoSpec,
          hard |-> o.name \in psQuar[o.w], seen |-> {},
          met |-> \E q \in PsReqs : Touches(psOp[q]) \cap Touches(o) # {},
          step |-> IF o.kind = "create" THEN "unmeta" ELSE "store"]]
    /\ psMixed' = psMixed \cup UNION {Touches(psOp[q]) \cup Touches(o) :
          q \in {x \in PsReqs : Touches(psOp[x]) \cap Touches(o) # {} /\ Unordered(o, psOp[x])}}
          \cup (IF Structural(o) THEN Touches(o) \cap RemovalsDue(o.w) ELSE {})
    /\ UNCHANGED <<psStore, psSpec, psQuar, psTools, psLock, psMeta, psBorn, psBus, psMissed>>

(* delete_meta before a create, so that a new preset starts with no overlay *)
(* a former one left, and after a delete.                                  *)
PsDeleteMeta(r) ==
    /\ PsAt(r, {"create", "delete"}, "unmeta")
    /\ psMeta' = [psMeta EXCEPT ![psOp[r].name] = 0]
    /\ IF psOp[r].kind = "create" THEN Step(r, "store") /\ UNCHANGED psQuar
       ELSE /\ Step(r, "publish")
            /\ psQuar' = IF psOp[r].hard THEN [psQuar EXCEPT ![psOp[r].w] = @ \ {psOp[r].name}] ELSE psQuar
    /\ UNCHANGED <<psStore, psSpec, psTools, psLock, psBorn, psBus, psLeft, psMixed, psMissed>>

NewBirth == 1 + MaxPsOps - psLeft.ops

PsStoreCreate(r) ==
    LET o == psOp[r] IN
    /\ PsAt(r, {"create"}, "store")
    /\ IF NameConflicts(o.w, o.name) \/ Docs!Live(o.name)
       THEN Finish(r) /\ UNCHANGED <<psStore, psBorn>>
       ELSE /\ psStore' = Docs!Created(psStore, o.name, o.body)
            /\ psBorn' = [psBorn EXCEPT ![o.name] = NewBirth]
            /\ Step(r, "register")
    /\ UNCHANGED <<psSpec, psQuar, psTools, psLock, psMeta, psBus, psLeft, psMixed, psMissed>>

(* register under the name's lock; on failure the document just created is  *)
(* deleted with its history.                                               *)
PsRegister(r) ==
    LET o == psOp[r] IN
    /\ PsAt(r, {"create"}, "register")
    /\ psLock[o.w][o.name] = Unlocked
    /\ IF Registers(o.w, o.name, o.body)
       THEN psSpec' = [psSpec EXCEPT ![o.w][o.name] = o.body] /\ Step(r, "publish")
       ELSE UNCHANGED psSpec /\ Step(r, "undo")
    /\ UNCHANGED <<psStore, psQuar, psTools, psLock, psMeta, psBorn, psBus, psLeft, psMixed, psMissed>>

(* save_version, rollback, rename and delete reach the store.               *)
PsStoreWrite(r) ==
    LET o == psOp[r]
        refused == \/ ~Docs!Live(o.name)
                   \/ o.kind = "rename" /\ (Docs!Live(o.to) \/ NameConflicts(o.w, o.to))
                   \/ o.kind = "rollback" /\ o.ver \notin DOMAIN psStore[o.name].bodies IN
    /\ PsAt(r, {"save", "rollback", "rename", "delete"}, "store")
    /\ o.kind = "save" => Len(psStore[o.name].bodies) < MaxPsVersions
    /\ IF refused THEN Finish(r) /\ UNCHANGED <<psStore, psBorn>>
       ELSE /\ psStore' = CASE o.kind = "save" -> Docs!Saved(psStore, o.name, [Docs!ActiveBody(o.name) EXCEPT !.val = o.val])
                            [] o.kind = "rollback" -> Docs!RolledBack(psStore, o.name, o.ver)
                            [] o.kind = "rename" -> Docs!Renamed(psStore, o.name, o.to)
                            [] OTHER -> Docs!Removed(psStore, o.name)
            /\ psBorn' = IF o.kind = "rename" THEN [psBorn EXCEPT ![o.to] = psBorn[o.name], ![o.name] = 0]
                         ELSE IF o.kind = "delete" THEN [psBorn EXCEPT ![o.name] = 0] ELSE psBorn
            /\ Step(r, IF o.kind # "delete" THEN "tear" ELSE IF o.hard THEN "unmeta" ELSE "remove")
    /\ UNCHANGED <<psSpec, psQuar, psTools, psLock, psMeta, psBus, psLeft, psMixed, psMissed>>

(* PresetManager.reload, in the lock: the live spec is captured and torn    *)
(* down,                                                                   *)
Teardown(a) ==
    LET o == psOp[a] IN
    /\ PsAt(a, {"save", "rollback", "rename", "reload"}, "tear")
    /\ psLock[o.w][o.to] = Unlocked
    /\ psLock' = [psLock EXCEPT ![o.w][o.to] = a]
    /\ psOp' = [psOp EXCEPT ![a].cap = psSpec[o.w][o.to], ![a].step = "read"]
    /\ TornDown(o.w, o.to)
    /\ UNCHANGED <<psStore, psQuar, psMeta, psBorn, psBus, psLeft, psMixed, psMissed>>

(* where a reload goes when it raises: the caller compensates, a handler    *)
(* reports the failure,                                                    *)
Failed(ops, a) == [ops EXCEPT ![a] = IF @.kind = "reload" THEN PsIdle ELSE [@ EXCEPT !.step = "undo"]]

(* then the active body is read,                                            *)
ReadActive(a) ==
    LET o == psOp[a] IN
    /\ PsAt(a, {"save", "rollback", "rename", "reload"}, "read")
    /\ IF Docs!Live(o.to)
       THEN psOp' = [Noted(a, o.w, {o.to}) EXCEPT ![a].body = Docs!ActiveBody(o.to), ![a].step = "bind"] /\ UNCHANGED psLock
       ELSE psOp' = Failed(Noted(a, o.w, {o.to}), a) /\ psLock' = [psLock EXCEPT ![o.w][o.to] = Unlocked]
    /\ UNCHANGED <<psStore, psSpec, psQuar, psTools, psMeta, psBorn, psBus, psLeft, psMixed, psMissed>>

(* unless the store does not answer: the read stands outside the try, so    *)
(* what was torn down stays down,                                           *)
ReadFails(a) ==
    LET o == psOp[a] IN
    /\ Fault /\ PsAt(a, {"save", "rollback", "rename", "reload"}, "read")
    /\ psOp' = Failed(psOp, a)
    /\ psLock' = [psLock EXCEPT ![o.w][o.to] = Unlocked]
    /\ psMissed' = [psMissed EXCEPT ![o.w] = @ \cup {o.to}]
    /\ UNCHANGED <<psStore, psSpec, psQuar, psTools, psMeta, psBorn, psBus, psMixed>>

(* and registered; when that fails the captured spec is put back.           *)
Rebind(a) ==
    LET o == psOp[a]
        served == IF Registers(o.w, o.to, o.body) THEN o.body
                  ELSE IF o.cap # NoSpec /\ Registers(o.w, o.to, o.cap) THEN o.cap ELSE NoSpec IN
    /\ PsAt(a, {"save", "rollback", "rename", "reload"}, "bind")
    /\ psSpec' = [psSpec EXCEPT ![o.w][o.to] = served]
    /\ psLock' = [psLock EXCEPT ![o.w][o.to] = Unlocked]
    /\ IF Registers(o.w, o.to, o.body)
       THEN /\ psMissed' = [psMissed EXCEPT ![o.w] = @ \cup (psQuar[o.w] \cap {o.to})]
            /\ IF o.kind = "reload" THEN Finish(a)
               ELSE Step(a, IF o.kind = "rename" THEN "remove" ELSE "publish")
       ELSE psMissed' = [psMissed EXCEPT ![o.w] = @ \cup {o.to}] /\ psOp' = Failed(psOp, a)
    /\ UNCHANGED <<psStore, psQuar, psTools, psMeta, psBorn, psBus, psLeft, psMixed>>

(* Compensation: a failed create is deleted, a failed save or rollback goes *)
(* back to the version read at the start, a failed rename is renamed back.  *)
PsUndo(r) ==
    LET o == psOp[r] IN
    /\ PsAt(r, {"create", "save", "rollback", "rename"}, "undo")
    /\ psStore' = CASE o.kind = "create" -> Docs!Removed(psStore, o.name)
                    [] o.kind = "rename" ->
                         IF Docs!Live(o.to) /\ ~Docs!Live(o.name) /\ ~NameConflicts(o.w, o.name)
                         THEN Docs!Renamed(psStore, o.to, o.name) ELSE psStore
                    [] OTHER -> IF o.prior \in DOMAIN psStore[o.name].bodies
                                THEN Docs!RolledBack(psStore, o.name, o.prior) ELSE psStore
    /\ psBorn' = CASE o.kind = "create" -> [psBorn EXCEPT ![o.name] = 0]
                   [] o.kind = "rename" /\ psStore' # psStore -> [psBorn EXCEPT ![o.name] = psBorn[o.to], ![o.to] = 0]
                   [] OTHER -> psBorn
    /\ psMixed' = psMixed \cup (IF o.met \/ psStore' = psStore THEN Touches(o) ELSE {})
    /\ psMissed' = [w \in PsWorkers |-> IF w \in o.seen THEN psMissed[w] \cup Touches(o) ELSE psMissed[w]]
    /\ Finish(r)
    /\ UNCHANGED <<psSpec, psQuar, psTools, psLock, psMeta, psBus, psLeft>>

(* remove: the old name of a rename, or the deleted name.                   *)
PsRemove(r) ==
    LET o == psOp[r] IN
    /\ PsAt(r, {"rename", "delete"}, "remove")
    /\ psLock[o.w][o.name] = Unlocked
    /\ TornDown(o.w, o.name)
    /\ Step(r, IF o.kind = "rename" THEN "meta" ELSE "unmeta")
    /\ UNCHANGED <<psStore, psQuar, psLock, psMeta, psBorn, psBus, psLeft, psMixed, psMissed>>

PsRenameMeta(r) ==
    LET o == psOp[r] IN
    /\ PsAt(r, {"rename"}, "meta")
    /\ psMeta' = [psMeta EXCEPT ![o.to] = psMeta[o.name], ![o.name] = 0]
    /\ Step(r, "publish")
    /\ UNCHANGED <<psStore, psSpec, psQuar, psTools, psLock, psBorn, psBus, psLeft, psMixed, psMissed>>

(* An overlay row written for a preset that is there.                       *)
PsUpsertMeta(n) ==
    /\ Docs!Live(n) /\ psMeta[n] = 0 /\ psLeft.ops > 0
    /\ psLeft' = [psLeft EXCEPT !.ops = @ - 1]
    /\ psMeta' = [psMeta EXCEPT ![n] = psBorn[n]]
    /\ UNCHANGED <<psStore, psSpec, psQuar, psTools, psLock, psBorn, psBus, psOp, psMixed, psMissed>>

\* A plausible mistake: a delete is not fanned out.
MutantMessages(o) ==
    CASE o.kind = "rename" -> <<[act |-> "reload", name |-> o.to], [act |-> "remove", name |-> o.name]>>
      [] o.kind = "delete" -> <<>>
      [] OTHER -> <<[act |-> "reload", name |-> o.name]>>

Messages(o) ==
    CASE o.kind = "rename" -> <<[act |-> "reload", name |-> o.to], [act |-> "remove", name |-> o.name]>>
      [] o.kind = "delete" -> <<[act |-> "remove", name |-> o.name]>>
      [] OTHER -> <<[act |-> "reload", name |-> o.name]>>

(* The last thing a request does is tell the siblings; a save or rollback   *)
(* that no longer finds its document raises before it does.                *)
PsPublish(r) ==
    LET o == psOp[r] IN
    /\ PsAt(r, {"create", "save", "rollback", "rename", "delete"}, "publish")
    /\ psBus' = IF o.kind \in {"save", "rollback"} /\ ~Docs!Live(o.name) THEN psBus
                ELSE [w \in PsWorkers |-> IF w = o.w THEN psBus[w] ELSE psBus[w] \o Messages(o)]
    /\ Finish(r)
    /\ UNCHANGED <<psStore, psSpec, psQuar, psTools, psLock, psMeta, psBorn, psLeft, psMixed, psMissed>>

(* Who is behind once a request stops: nobody before its first store write, *)
(* the siblings once its own worker has followed the store.                *)
Behind(o) ==
    IF o.step = "store" \/ (o.kind = "create" /\ o.step = "unmeta") THEN {}
    ELSE IF o.step \in {"meta", "unmeta", "publish"} THEN PsWorkers \ {o.w} ELSE PsWorkers

(* A request that stops where it stands: a store or overlay call raised,    *)
(* before its effect or after (a commit whose answer was lost), the bus was *)
(* down, a compensation failed, or the request was cancelled.  The lock of *)
(* a reload is given back; what it wrote and what it tore down stay so.    *)
PsStop(r) ==
    LET o == psOp[r] IN
    /\ Fault /\ o # PsIdle
    /\ psLock' = [w \in PsWorkers |-> [n \in PsNames |-> IF psLock[w][n] = r THEN Unlocked ELSE psLock[w][n]]]
    /\ psMissed' = [w \in PsWorkers |-> IF w \in Behind(o) THEN psMissed[w] \cup Touches(o) ELSE psMissed[w]]
    /\ Finish(r)
    /\ UNCHANGED <<psStore, psSpec, psQuar, psTools, psMeta, psBorn, psBus, psMixed>>

(* _apply_preset_tool_reload: a reload runs the manager's, a removal splits *)
(* on quarantine.                                                          *)
PsReceive(w) ==
    LET m == Head(psBus[w]) IN
    /\ psBus[w] # <<>> /\ psOp[w] = PsIdle
    /\ psBus' = [psBus EXCEPT ![w] = Tail(@)]
    /\ IF m.act = "remove" /\ m.name \in psQuar[w]
       THEN psQuar' = [psQuar EXCEPT ![w] = @ \ {m.name}] /\ UNCHANGED psOp
       ELSE /\ psOp' = [psOp EXCEPT ![w] = [kind |-> m.act, w |-> w, name |-> m.name, to |-> m.name,
                            body |-> NoSpec, cap |-> NoSpec, step |-> IF m.act = "reload" THEN "tear" ELSE "remove"]]
            /\ UNCHANGED psQuar
    /\ UNCHANGED <<psStore, psSpec, psTools, psLock, psMeta, psBorn, psLeft, psMixed, psMissed>>

PsHandleRemove(w) ==
    LET n == psOp[w].name IN
    /\ PsAt(w, {"remove"}, "remove")
    /\ psLock[w][n] = Unlocked
    /\ TornDown(w, n)
    /\ psQuar' = [psQuar EXCEPT ![w] = @ \ {n}]
    /\ Finish(w)
    /\ UNCHANGED <<psStore, psLock, psMeta, psBorn, psBus, psLeft, psMixed, psMissed>>

PsLose(w) ==
    /\ Fault /\ psBus[w] # <<>>
    /\ psBus' = [psBus EXCEPT ![w] = Tail(@)]
    /\ psMissed' = [psMissed EXCEPT ![w] = @ \cup {Head(psBus[w]).name}]
    /\ UNCHANGED <<psStore, psSpec, psQuar, psTools, psLock, psMeta, psBorn, psOp, psMixed>>

(* A targeted MCP change brings or takes a tool, and reconcile_bases        *)
(* re-registers the presets built on it or sets them aside.                *)
PsMcpChange(w, t) ==
    LET tools == IF t \in psTools[w] THEN psTools[w] \ {t} ELSE psTools[w] \cup {t}
        affected == {n \in PsNames : psSpec[w][n] # NoSpec /\ psSpec[w][n].base = t}
        kept == {n \in affected : t \in tools /\ <<w, psSpec[w][n].val>> \notin PsBad} IN
    /\ Fault /\ t \notin Registered(w)
    /\ \A n \in PsNames : psLock[w][n] = Unlocked
    /\ psTools' = [psTools EXCEPT ![w] = tools]
    /\ psSpec' = [psSpec EXCEPT ![w] = [n \in PsNames |-> IF n \in affected \ kept THEN NoSpec ELSE @[n]]]
    /\ psQuar' = [psQuar EXCEPT ![w] = @ \cup (affected \ kept)]
    /\ psMissed' = [psMissed EXCEPT ![w] = IF t = PsBase THEN PsNames ELSE @ \cup {t}]
    /\ UNCHANGED <<psStore, psLock, psMeta, psBorn, psBus, psOp, psMixed>>

(* rehydrate against the store: a name a foreign tool holds, or a base that *)
(* is a preset, missing or does not bind, is quarantined.                  *)
Quarantined(w, n) ==
    LET body == Docs!ActiveBody(n) IN
    n \in psTools[w] \/ body.base \in {m \in PsNames : Docs!Live(m)} \/ body.base \notin psTools[w] \/ <<w, body.val>> \in PsBad

(* A worker that restarts, or reloads in place with its requests drained:   *)
(* what was published to it before is gone.                                *)
PsRehydrate(w) ==
    LET live == {n \in PsNames : Docs!Live(n)}
        out == {n \in live : Quarantined(w, n)} IN
    /\ Fault /\ psOp[w] = PsIdle
    /\ \A r \in PsReqs : psOp[r] # PsIdle => psOp[r].w # w
    /\ psSpec' = [psSpec EXCEPT ![w] = [n \in PsNames |-> IF n \in live \ out THEN Docs!ActiveBody(n) ELSE NoSpec]]
    /\ psQuar' = [psQuar EXCEPT ![w] = out]
    /\ psBus' = [psBus EXCEPT ![w] = <<>>]
    /\ psMissed' = [psMissed EXCEPT ![w] = {}]
    /\ psOp' = Noted(w, w, PsNames)
    /\ UNCHANGED <<psStore, psTools, psLock, psMeta, psBorn, psMixed>>

PsNext ==
    \/ \E r \in PsReqs :
          \/ \E o \in PsRequests : PsBegin(r, o)
          \/ PsDeleteMeta(r) \/ PsStoreCreate(r) \/ PsRegister(r) \/ PsStoreWrite(r) \/ PsUndo(r)
          \/ PsRemove(r) \/ PsRenameMeta(r) \/ PsPublish(r) \/ PsStop(r)
    \/ \E a \in PsActors : Teardown(a) \/ ReadActive(a) \/ ReadFails(a) \/ Rebind(a)
    \/ \E n \in PsNames : PsUpsertMeta(n)
    \/ \E w \in PsWorkers :
          \/ PsReceive(w) \/ PsHandleRemove(w) \/ PsLose(w) \/ PsRehydrate(w)
          \/ \E t \in PsToggles : PsMcpChange(w, t)

PsSpec == PsInit /\ [][PsNext]_psVars

----------------------------------------------------------------------------
PsQuiet == (\A a \in PsActors : psOp[a] = PsIdle) /\ \A w \in PsWorkers : psBus[w] = <<>>

(* Once the requests are over and their fan-out has arrived, every worker   *)
(* serves for a preset exactly its active version, holds no tool for a name *)
(* without a document, and a preset's overlay row was written for it and no *)
(* former preset of its name, however saves, rollbacks and deletes of a     *)
(* name ran side by side on any workers.  The code does not promise this of *)
(* psMixed: structural operations of a name that overlapped, and a name     *)
(* whose failed save or rollback was compensated while another request held *)
(* it (save_version re-points to the version it read at its start, over a   *)
(* save another request has had acknowledged, and tells nobody).  A worker  *)
(* in psMissed is excused until it rehydrates: it lost a message, could not *)
(* read or bind, ran or should have heard of a request that stopped half    *)
(* way, or rebound a name it still lists as quarantined.                    *)
PresetsConverge ==
    PsQuiet => \A n \in PsNames \ psMixed :
        /\ Docs!Live(n) => psMeta[n] \in {0, psBorn[n]}
        /\ \A w \in PsWorkers : n \notin psMissed[w] =>
              IF ~Docs!Live(n) THEN psSpec[w][n] = NoSpec
              ELSE psSpec[w][n] = (IF n \in psQuar[w] THEN NoSpec ELSE Docs!ActiveBody(n))
=============================================================================

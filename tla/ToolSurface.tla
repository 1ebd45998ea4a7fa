---------------------------- MODULE ToolSurface ----------------------------
(***************************************************************************)
(* The tool surface of one worker: app/lifecycle.py builds it from the     *)
(* manifest at boot and on every config reload, restores the old one when  *)
(* a reload fails, and rebinds or drops one MCP server's tools at a time;  *)
(* tools/binding.py binds a tool with its extension branches and runs      *)
(* in-process calls against the surface; tools/registry.py remembers what  *)
(* is expected and which base a branch has.  Every structural operation    *)
(* holds the reload gate, and works on a thread of its own: calls on the   *)
(* serving loop interleave with each of its steps.  A bound name is the    *)
(* sequence of its tool and the extensions stacked on it.  Presets are in  *)
(* Presets: here they are the dynamic tools that a reload handler brings.  *)
(***************************************************************************)
EXTENDS Integers, FiniteSets, Sequences, SequencesExt

CONSTANTS
    TsManifests, \* manifests: [tools, exts, core, auth, mcps, include, combos, api]
    TsDefines,   \* tool module -> the tools it defines, in order
    TsTitles,    \* MCP server titles
    TsListings,  \* title -> the sets of tools its server may offer
    TsOneOf,     \* extensions of a kind that may be used once in a combo
    TsRelocates, \* extensions that run the tool's body elsewhere
    TsLocal,     \* extensions that must run where the body does
    TsUnfaithful,\* extensions that break the schema contract of their kind
    TsOps,       \* operations: [name, tier1, tier2, destructive]
    TsDynamic,   \* tools the reload handlers register again
    TsCalls,     \* in-process calls at once
    TsCalled,    \* the tools they ask for
    MaxTsOps,    \* bound: structural operations
    MaxTsEnv     \* bound: changes of servers, plugins and the stored manifest

VARIABLES
    tsStored,    \* the manifest in the config store
    tsLive,      \* _manifest
    tsServer,    \* title -> the tools its server offers, Down
    tsBroken,    \* modules that do not import
    tsSurface,   \* bound name -> who bound it
    tsExpected,  \* _tools and _requested_tools: tool -> extension combos
    tsBaseOf,    \* _extend_tools: bound name -> tool
    tsExts,      \* extensions registered
    tsBound,     \* title -> bound names: _mcp_bound_tools
    tsFailed,    \* _failed_mcps
    tsQuar,      \* quarantined modules
    tsOp,        \* the structural operation that holds the gate
    tsCall,      \* call -> what it is doing
    tsDegraded,  \* the last reload failed, or a server's rebinding did (history)
    tsOpsLeft, tsEnvLeft

tsWorld == <<tsStored, tsServer, tsBroken, tsEnvLeft>>
tsTables == <<tsSurface, tsExpected, tsBaseOf, tsExts, tsBound, tsFailed, tsQuar>>
tsVars == <<tsWorld, tsTables, tsLive, tsOp, tsCall, tsDegraded, tsOpsLeft>>

NotStarted == [mcps |-> {}]
Down == {"down"}
GateFree == [kind |-> "free"]
TsIdle == [step |-> "idle"]
NoNames == [n \in {} |-> 0]
Drops(f, S) == [x \in DOMAIN f \ S |-> f[x]]
With(f, S, v) == [x \in DOMAIN f \cup S |-> IF x \in S THEN v ELSE f[x]]

TsInit ==
    /\ tsStored \in TsManifests /\ tsLive = NotStarted
    /\ tsServer \in [TsTitles -> {Down} \cup UNION {TsListings[t] : t \in TsTitles}]
    /\ \A t \in TsTitles : tsServer[t] \in TsListings[t] \cup {Down}
    /\ tsBroken = {}
    /\ tsSurface = NoNames /\ tsExpected = NoNames /\ tsBaseOf = NoNames /\ tsExts = {}
    /\ tsBound = NoNames /\ tsFailed = {} /\ tsQuar = {}
    /\ tsOp = GateFree /\ tsCall = [c \in TsCalls |-> TsIdle] /\ tsDegraded = FALSE
    /\ tsOpsLeft = MaxTsOps /\ tsEnvLeft = MaxTsEnv

Started == tsLive # NotStarted

(* The world: an operator edits the manifest, a server goes or changes,     *)
(* a plugin breaks or is repaired.                                         *)
Edit(m) == tsStored' = m /\ UNCHANGED <<tsServer, tsBroken>>
ServerTurns(t, s) == tsServer' = [tsServer EXCEPT ![t] = s] /\ UNCHANGED <<tsStored, tsBroken>>
PluginTurns(m) == /\ tsBroken' = (tsBroken \ {m}) \cup ({m} \ tsBroken)
                  /\ UNCHANGED <<tsStored, tsServer>>
World ==
    /\ tsEnvLeft > 0 /\ tsEnvLeft' = tsEnvLeft - 1
    /\ \/ \E m \in TsManifests \ {tsStored} : Edit(m)
       \/ \E t \in TsTitles : \E s \in (TsListings[t] \cup {Down}) \ {tsServer[t]} : ServerTurns(t, s)
       \/ \E m \in UNION {x.tools \cup x.exts \cup x.core \cup x.auth : x \in TsManifests} : PluginTurns(m)
    /\ UNCHANGED <<tsTables, tsLive, tsOp, tsCall, tsDegraded, tsOpsLeft>>

----------------------------------------------------------------------------
(* Binding a tool: every prefix of every combo is a branch, the combos are  *)
(* checked first, and a name that is taken refuses the whole tool.          *)
ComboValid(combo) ==
    /\ Range(combo) \subseteq tsExts
    /\ Cardinality({i \in DOMAIN combo : combo[i] \in TsOneOf}) <= 1
    /\ \A i, j \in DOMAIN combo : i < j /\ combo[i] \in TsRelocates => combo[j] \notin TsLocal
    /\ Range(combo) \cap TsUnfaithful = {}

Combos(n) == IF n \in DOMAIN tsExpected THEN tsExpected[n] ELSE {}

Branches(n) == {<<n>>} \cup UNION {{<<n>> \o SubSeq(c, 1, k) : k \in 1..Len(c)} : c \in Combos(n)}

Bindable(n, surface) == (\A c \in Combos(n) : ComboValid(c)) /\ Branches(n) \cap DOMAIN surface = {}

(* The tools, in order, up to the first that cannot be bound.               *)
BindAll(ns, who, surface) ==
    LET bound == {i \in DOMAIN ns : \A j \in 1..i : Bindable(ns[j], surface)}
    IN [surface |-> With(surface, UNION {Branches(ns[i]) : i \in bound}, who), ok |-> bound = DOMAIN ns]

Includes(m, provider, n) == m.include[provider] = {} \/ n \in m.include[provider]

(* The names bound by `who` resolve to their tool.                          *)
NewBases(before, after) == [b \in DOMAIN after \ DOMAIN before |-> Head(b)]
MergeBases(new) == [b \in DOMAIN tsBaseOf \cup DOMAIN new |-> IF b \in DOMAIN new THEN new[b] ELSE tsBaseOf[b]]

----------------------------------------------------------------------------
(* A config reload, and the boot.                                           *)
Steady(surface) == [c \in TsCalls |-> IF tsCall[c] = TsIdle THEN TsIdle
    ELSE [tsCall[c] EXCEPT !.steady = @ /\ <<tsCall[c].tool>> \in DOMAIN surface]]
Overtaken == [c \in TsCalls |-> IF tsCall[c] = TsIdle THEN TsIdle ELSE [tsCall[c] EXCEPT !.steady = @ /\ tsCall[c].tries = 0]]
GateTaken(op) == tsOp = GateFree /\ tsOp' = op /\ tsCall' = Overtaken
GateGiven == tsOp' = GateFree /\ tsCall' = Steady(tsSurface')

(* What a reload that fails puts back.                                      *)
Captured == tsSurface

ReloadConfig ==
    /\ tsOpsLeft > 0 /\ tsOpsLeft' = tsOpsLeft - 1
    /\ GateTaken([kind |-> "reload", step |-> "reset", man |-> tsStored, before |-> Captured, boot |-> ~Started])
    /\ UNCHANGED <<tsWorld, tsTables, tsLive, tsDegraded>>

At(step) == tsOp.kind = "reload" /\ tsOp.step = step
Goto(step) == tsOp' = [tsOp EXCEPT !.step = step] /\ UNCHANGED tsCall

(* _initialize_registries: what is asked for, with its extension combos.     *)
Expected(m) ==
    [n \in UNION {m.include[p] : p \in DOMAIN m.include} \cup DOMAIN m.combos |-> IF n \in DOMAIN m.combos THEN m.combos[n] ELSE {}]

(* start: everything the old manifest brought goes.                         *)
NothingBound == tsSurface' = NoNames /\ tsBaseOf' = NoNames /\ tsExts' = {} /\ tsBound' = NoNames /\ tsFailed' = {} /\ tsQuar' = {}

StartReset ==
    /\ At("reset") /\ Goto("plugins")
    /\ tsLive' = tsOp.man /\ tsExpected' = Expected(tsOp.man)
    /\ NothingBound
    /\ UNCHANGED <<tsWorld, tsDegraded, tsOpsLeft>>

UsedExtensions == UNION {UNION {Range(c) : c \in Combos(n)} : n \in DOMAIN tsExpected}

(* A core plugin, or the one behind a configured auth provider, that does   *)
(* not import ends the boot; an extension is quarantined, and one that is   *)
(* used and missing is tolerated only then.                                *)
CoreOk == tsLive.core \cap tsBroken = {}
AuthOk == tsLive.auth \cap tsBroken = {}
ExtensionsOk == UsedExtensions \subseteq tsLive.exts \/ tsLive.exts \cap tsBroken # {}
PluginsOk == CoreOk /\ AuthOk /\ ExtensionsOk

ImportPlugins ==
    /\ At("plugins") /\ PluginsOk
    /\ tsExts' = tsLive.exts \ tsBroken /\ tsQuar' = tsLive.exts \cap tsBroken
    /\ tsOp' = [kind |-> "reload", step |-> "tools", man |-> tsOp.man, before |-> tsOp.before, boot |-> tsOp.boot, todo |-> tsLive.tools]
    /\ UNCHANGED <<tsWorld, tsSurface, tsExpected, tsBaseOf, tsBound, tsFailed, tsLive, tsCall, tsDegraded, tsOpsLeft>>

(* A tool module: its tools bind as it is imported, up to where it fails;   *)
(* the failure quarantines the module and leaves what was bound.            *)
ImportTools(m, k) ==
    LET asked == SelectSeq(SubSeq(TsDefines[m], 1, k), LAMBDA n : Includes(tsLive, m, n))
        out == BindAll(asked, m, tsSurface) IN
    /\ At("tools") /\ m \in tsOp.todo
    /\ m \notin tsBroken => k = Len(TsDefines[m])
    /\ tsSurface' = out.surface /\ tsBaseOf' = MergeBases(NewBases(tsSurface, out.surface))
    /\ tsQuar' = IF m \in tsBroken \/ ~out.ok THEN tsQuar \cup {m} ELSE tsQuar
    /\ tsOp' = [tsOp EXCEPT !.todo = @ \ {m}]
    /\ UNCHANGED <<tsWorld, tsExpected, tsExts, tsBound, tsFailed, tsLive, tsCall, tsDegraded, tsOpsLeft>>

(* mcp_tools: what a server offers and the manifest includes, without the    *)
(* names a preset has taken.                                               *)
Offered(m, t) == {n \in tsServer[t] : Includes(m, t, n)} \ TsDynamic
NamesOf(t) == UNION {Branches(n) : n \in Offered(tsLive, t)}

(* _load_mcps: every server is probed; the ones that fail are remembered.   *)
ServersUp == {t \in tsLive.mcps : tsServer[t] # Down}

ServersOk ==
    /\ \A t \in ServersUp : \A n \in Offered(tsLive, t) : Bindable(n, tsSurface)
    /\ \A t, u \in ServersUp : t # u => NamesOf(t) \cap NamesOf(u) = {}

LoadMcps ==
    LET names == UNION {NamesOf(t) : t \in ServersUp}
        server(b) == CHOOSE t \in ServersUp : b \in NamesOf(t) IN
    /\ At("tools") /\ tsOp.todo = {} /\ ServersOk
    /\ tsSurface' = [b \in DOMAIN tsSurface \cup names |-> IF b \in names THEN server(b) ELSE tsSurface[b]]
    /\ tsBaseOf' = MergeBases([b \in names |-> Head(b)])
    /\ tsBound' = [t \in ServersUp |-> NamesOf(t)]
    /\ tsFailed' = tsLive.mcps \ ServersUp
    /\ Goto("project")
    /\ UNCHANGED <<tsWorld, tsExpected, tsExts, tsQuar, tsLive, tsDegraded, tsOpsLeft>>

(* The operations that become tools: tier 1 never, tier 2 and, unless they  *)
(* are exposed, destructive ones only by name.                              *)
Selected(api) ==
    {o.name : o \in {x \in TsOps : /\ ~x.tier1 /\ x.name \notin api.exclude
                                   /\ x.name \in api.include \/ (~x.tier2 /\ (api.destructive \/ ~x.destructive))}}

Ignored == UNION {tsLive.include[p] : p \in tsFailed \cup (tsQuar \cap tsLive.tools)}
Missing(bases) == DOMAIN tsExpected \ {bases[b] : b \in DOMAIN bases}

ProjectOperations ==
    LET out == BindAll(SetToSeq(Selected(tsLive.api)), "operations", tsSurface)
        bases == MergeBases(NewBases(tsSurface, out.surface)) IN
    /\ At("project") /\ out.ok /\ tsLive.api.include \subseteq {o.name : o \in TsOps}
    /\ Missing(bases) \subseteq Ignored
    /\ tsSurface' = out.surface /\ tsBaseOf' = bases
    /\ Goto("handlers")
    /\ UNCHANGED <<tsWorld, tsExpected, tsExts, tsBound, tsFailed, tsQuar, tsLive, tsDegraded, tsOpsLeft>>

(* The reload handlers bring the dynamic tools back, and the reload is over.*)
ReloadEnd ==
    /\ At("handlers")
    /\ tsSurface' = With(tsSurface, {<<n>> : n \in TsDynamic}, "handlers")
    /\ tsBaseOf' = MergeBases(NewBases(tsSurface, tsSurface'))
    /\ tsDegraded' = FALSE /\ GateGiven
    /\ UNCHANGED <<tsWorld, tsExpected, tsExts, tsBound, tsFailed, tsQuar, tsLive, tsOpsLeft>>

(* What raises: a core plugin, an extension nobody provides, a server's     *)
(* tool that cannot be bound, an unknown operation, a missing tool, a       *)
(* handler.                                                                *)
ReloadRaises ==
    \/ At("plugins") /\ ~PluginsOk
    \/ At("tools") /\ tsOp.todo = {} /\ ~ServersOk
    \/ At("project") /\ LET out == BindAll(SetToSeq(Selected(tsLive.api)), "operations", tsSurface)
                        IN IF out.ok /\ tsLive.api.include \subseteq {o.name : o \in TsOps}
                           THEN ~(Missing(MergeBases(NewBases(tsSurface, out.surface))) \subseteq Ignored)
                           ELSE TRUE
    \/ At("handlers")

(* _restore_components: the surface of before, and nothing of the tables; a *)
(* boot that fails ends the process.                                       *)
ReloadFails ==
    /\ ReloadRaises
    /\ tsSurface' = tsOp.before
    /\ tsLive' = IF tsOp.boot THEN NotStarted ELSE tsLive
    /\ tsDegraded' = TRUE /\ GateGiven
    /\ UNCHANGED <<tsWorld, tsExpected, tsBaseOf, tsExts, tsBound, tsFailed, tsQuar, tsOpsLeft>>

----------------------------------------------------------------------------
(* One MCP server at a time.  The operator's reload of a title and the      *)
(* retry of every failed one take the server list from the stored manifest, *)
(* and nothing else of it.                                                 *)
RefreshMcps == tsLive' = [tsLive EXCEPT !.mcps = tsStored.mcps,
    !.include = [p \in DOMAIN @ |-> IF p \in TsTitles THEN tsStored.include[p] ELSE @[p]]]

(* The probe of every title in hand: the ones that fail are remembered.     *)
Probes(kind, titles) ==
    LET known == titles \cap tsStored.mcps
        up == {t \in known : tsServer[t] # Down} IN
    /\ Started /\ RefreshMcps
    /\ GateTaken([kind |-> kind, step |-> "remove", todo |-> [t \in up |-> tsServer[t]], at |-> "none", got |-> {}])
    /\ tsFailed' = tsFailed \cup (known \ up)
    /\ UNCHANGED <<tsWorld, tsSurface, tsExpected, tsBaseOf, tsExts, tsBound, tsQuar, tsDegraded>>

ReloadMcp(t) ==
    /\ tsOpsLeft > 0 /\ tsOpsLeft' = tsOpsLeft - 1
    /\ Probes("one", {t})

(* The background loop that retries what failed, and the operator's.        *)
Reprobe == tsFailed # {} /\ Probes("failed", tsFailed) /\ UNCHANGED tsOpsLeft

OfServer(t) == IF t \in DOMAIN tsBound THEN tsBound[t] ELSE {}

(* _apply_reloaded_mcp: the old tools go,                                   *)
RemoveOld(t) ==
    /\ tsOp.kind \in {"one", "failed"} /\ tsOp.step = "remove" /\ t \in DOMAIN tsOp.todo
    /\ tsSurface' = Drops(tsSurface, OfServer(t))
    /\ tsOp' = [tsOp EXCEPT !.step = "bind", !.at = t, !.got = tsOp.todo[t], !.todo = Drops(@, {t})]
    /\ UNCHANGED <<tsWorld, tsExpected, tsBaseOf, tsExts, tsBound, tsFailed, tsQuar, tsLive, tsCall, tsDegraded, tsOpsLeft>>

\* A plausible mistake: the table of the server's tools is filled only once all are bound.
MutantTracked(t, out, old) == IF out.ok THEN {b \in DOMAIN out.surface : out.surface[b] = t} ELSE {}

Tracked(t, out, old) == {b \in DOMAIN out.surface : out.surface[b] = t}

(* unregister_tool_base, for every name that is gone.                       *)
Unregistered(gone) == {b \in DOMAIN tsBaseOf : b \in gone \/ <<tsBaseOf[b]>> \in gone}

\* A plausible mistake: one title that cannot be bound ends the retry of the others.
MutantGoesOn(kind) == FALSE

GoesOn(kind) == kind = "failed"

(* the new ones come, the names that did not come back are forgotten, and   *)
(* the title is no longer failed.  A tool that cannot be bound ends this    *)
(* title, and the operator's reload with it.                                *)
BindNew ==
    LET t == tsOp.at
        out == BindAll(SetToSeq({n \in tsOp.got : Includes(tsLive, t, n)} \ TsDynamic), t, tsSurface)
        new == Tracked(t, out, OfServer(t))
        gone == OfServer(t) \ new IN
    /\ tsOp.kind \in {"one", "failed"} /\ tsOp.step = "bind"
    /\ tsSurface' = out.surface /\ tsBound' = With(tsBound, {t}, new)
    /\ LET bases == MergeBases(NewBases(tsSurface, out.surface)) IN
       IF out.ok THEN /\ tsBaseOf' = Drops(bases, Unregistered(gone))
                      /\ tsExpected' = Drops(tsExpected, {Head(b) : b \in {x \in gone : Len(x) = 1}})
                      /\ tsFailed' = tsFailed \ {t}
       ELSE /\ tsBaseOf' = bases /\ UNCHANGED <<tsExpected, tsFailed>>
    /\ IF DOMAIN tsOp.todo # {} /\ (out.ok \/ GoesOn(tsOp.kind)) THEN tsOp' = [tsOp EXCEPT !.step = "remove"] /\ UNCHANGED tsCall ELSE GateGiven
    /\ UNCHANGED <<tsWorld, tsExts, tsQuar, tsLive, tsDegraded, tsOpsLeft>>

(* Every title in hand was unknown or unavailable.                          *)
ProbesEnd ==
    /\ tsOp.kind \in {"one", "failed"} /\ tsOp.step = "remove" /\ DOMAIN tsOp.todo = {}
    /\ UNCHANGED tsSurface /\ GateGiven
    /\ UNCHANGED <<tsWorld, tsExpected, tsBaseOf, tsExts, tsBound, tsFailed, tsQuar, tsLive, tsDegraded, tsOpsLeft>>

(* A removed server: its tools, their branches and their bases go.          *)
DeregisterMcp(t) ==
    /\ Started /\ tsOpsLeft > 0 /\ tsOpsLeft' = tsOpsLeft - 1
    /\ tsOp = GateFree /\ RefreshMcps
    /\ tsSurface' = Drops(tsSurface, OfServer(t))
    /\ tsBound' = Drops(tsBound, {t}) /\ tsFailed' = tsFailed \ {t}
    /\ tsBaseOf' = Drops(tsBaseOf, Unregistered(OfServer(t)))
    /\ tsExpected' = Drops(tsExpected, {Head(b) : b \in {x \in OfServer(t) : Len(x) = 1}})
    /\ UNCHANGED tsOp /\ tsCall' = Steady(tsSurface')
    /\ UNCHANGED <<tsWorld, tsExts, tsQuar, tsDegraded>>

----------------------------------------------------------------------------
(* A call: authorized against the operation surface, then resolved to its   *)
(* tool; each is tried again, once, after whoever holds the gate is done.    *)
CallBegin(c, n) ==
    /\ tsCall[c] = TsIdle /\ Started /\ tsOp.kind = "reload" => ~tsOp.boot
    /\ tsCall' = [tsCall EXCEPT ![c] = [step |-> "authorize", tool |-> n, tries |-> 0, waits |-> FALSE, said |-> "none",
                                        steady |-> tsOp # GateFree \/ <<n>> \in DOMAIN tsSurface]]
    /\ UNCHANGED <<tsWorld, tsTables, tsLive, tsOp, tsDegraded, tsOpsLeft>>

Rebuilding == tsOp.kind = "reload" /\ tsOp.step \in {"plugins", "tools", "project"}
Works(c) == IF tsCall[c].step = "authorize" THEN ~Rebuilding ELSE <<tsCall[c].tool>> \in DOMAIN tsSurface

TriesAgain(c) == tsCall[c].tries = 0

Going(c) == tsCall[c] # TsIdle /\ tsCall[c].said = "none"

Try(c) ==
    /\ Going(c) /\ ~tsCall[c].waits
    /\ tsCall' = [tsCall EXCEPT ![c] =
          IF Works(c) THEN (IF @.step = "authorize" THEN [@ EXCEPT !.step = "resolve", !.tries = 0] ELSE [@ EXCEPT !.said = "ran"])
          ELSE IF TriesAgain(c) THEN [@ EXCEPT !.waits = TRUE]
          ELSE [@ EXCEPT !.said = "refused"]]
    /\ UNCHANGED <<tsWorld, tsTables, tsLive, tsOp, tsDegraded, tsOpsLeft>>

PassGate(c) ==
    /\ Going(c) /\ tsCall[c].waits /\ tsOp = GateFree
    /\ tsCall' = [tsCall EXCEPT ![c].waits = FALSE, ![c].tries = 1]
    /\ UNCHANGED <<tsWorld, tsTables, tsLive, tsOp, tsDegraded, tsOpsLeft>>

CallEnds(c) ==
    /\ tsCall[c] # TsIdle /\ tsCall[c].said # "none"
    /\ tsCall' = [tsCall EXCEPT ![c] = TsIdle]
    /\ UNCHANGED <<tsWorld, tsTables, tsLive, tsOp, tsDegraded, tsOpsLeft>>

TsOpStep ==
    \/ StartReset \/ ImportPlugins \/ LoadMcps \/ ProjectOperations \/ ReloadEnd \/ ReloadFails \/ ProbesEnd
    \/ \E m \in DOMAIN TsDefines : \E k \in 0..Len(TsDefines[m]) : ImportTools(m, k)
    \/ \E t \in TsTitles : RemoveOld(t)
    \/ BindNew

TsNext ==
    \/ World \/ ReloadConfig \/ Reprobe \/ TsOpStep
    \/ \E t \in TsTitles : ReloadMcp(t) \/ DeregisterMcp(t)
    \/ \E c \in TsCalls : Try(c) \/ PassGate(c) \/ CallEnds(c) \/ \E n \in TsCalled : CallBegin(c, n)

TsSpec == TsInit /\ [][TsNext]_tsVars

(* An operation that holds the gate is a thread of finitely many steps: it   *)
(* ends; and the retry loop takes the gate when it is free.                 *)
TsFairness == []<>(tsOp = GateFree) /\ WF_tsVars(Reprobe)

----------------------------------------------------------------------------
(* With the gate free after a reload that worked, whatever servers were     *)
(* rebound, dropped or failed half way since: every MCP tool that is served *)
(* is on its server's list, so that the next reload or removal finds it,    *)
(* every listed one is served, and every branch resolves to its own base,   *)
(* which is the tool that authorization decides about.                     *)
SurfaceTracked ==
    tsOp = GateFree /\ ~tsDegraded =>
        /\ \A b \in DOMAIN tsSurface : tsSurface[b] \in TsTitles => b \in OfServer(tsSurface[b])
        /\ \A t \in DOMAIN tsBound : \A b \in tsBound[t] : b \in DOMAIN tsSurface /\ tsSurface[b] = t
        /\ \A b \in DOMAIN tsSurface : b \in DOMAIN tsBaseOf /\ tsBaseOf[b] = Head(b)

(* An in-process call of a tool that every settled surface had, before and  *)
(* after the reloads it met, is not refused: the retry behind the gate      *)
(* finds it, unless another operation takes the gate in between.            *)
CallsSurviveReload == \A c \in TsCalls : tsCall[c] # TsIdle /\ tsCall[c].said = "refused" => ~tsCall[c].steady

Recoverable(t) ==
    /\ t \in tsFailed \cap tsStored.mcps /\ tsServer[t] # Down /\ ~tsDegraded
    /\ \A n \in Offered(tsLive, t) : \A c \in Combos(n) : ComboValid(c)
    /\ \A n \in Offered(tsLive, t) : \A b \in Branches(n) \cap DOMAIN tsSurface : tsSurface[b] = t

(* A failed server that is back, and whose tools can be bound, does not stay*)
(* failed, though another one next to it never comes back or cannot be      *)
(* bound.                                                                  *)
FailedMcpRecovers == <>[](\A t \in TsTitles : ~Recoverable(t))

\* What is registered is what is served, and a call that found its tool is not lost to a reload.
SurfaceSound == SurfaceTracked /\ CallsSurviveReload
=============================================================================

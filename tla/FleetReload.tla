---------------------------- MODULE FleetReload ----------------------------
(***************************************************************************)
(* A configuration change crossing the fleet: config/service.py persists   *)
(* it, reloads locally through the reload gate and broadcasts the reload   *)
(* over the worker bus (app/bus.py); every subscribed worker re-reads the  *)
(* persisted state (app/lifecycle.py).                                     *)
(*                                                                         *)
(* A process runs two tasks: its bus subscription ("sub") and one request  *)
(* ("req").  A step is the code between two points where another task,     *)
(* another process or the network can intervene.  A forked child runs      *)
(* requests and no subscription.  Redis (external) is a set of presence    *)
(* keys and, per subscribed connection, a queue of control messages; a     *)
(* message published while a process is not connected is lost to it.       *)
(* Replies reach a collecting publisher at once: one still in flight at    *)
(* the cut is one sent after it.                                           *)
(***************************************************************************)
EXTENDS Integers, Sequences, FiniteSets

CONSTANTS
    Workers,        \* processes that subscribe
    Children,       \* forked children: they publish, and stay non-members
    Parent,         \* the worker each child was forked from
    None,           \* no op, no holder; as targets: the whole fleet
    MaxRequests,    \* bound: requests in all
    Scenarios       \* the fleets, requests and disturbances a behaviour may meet

Procs == Workers \cup Children

\* Workers that boot while the others already run, processes that are asked for changes and
\* soft restarts, the target sets a restart may name (None: the whole fleet), whether the
\* apply deadline may pass, and bounds on requests, lost pub/sub connections, failed redis
\* commands, reloads that raise and processes that stop.
Scenario == [late : SUBSET Workers, requesters : SUBSET Procs,
             targets : SUBSET ((SUBSET Workers) \cup {None}), deadlines : BOOLEAN,
             requests : 0..MaxRequests, drops : Nat, faults : Nat, failures : Nat, deaths : Nat]

ASSUME FleetConstants ==
    /\ Workers \cap Children = {} /\ None \notin Procs \cup {"sub", "req"}
    /\ Parent \in [Children -> Workers]
    /\ MaxRequests \in Nat /\ Scenarios \in SUBSET Scenario

VARIABLES
    stored,     \* the persisted env and manifest, as version numbers
    loaded,     \* the versions each process runs with
    failed,     \* whether a process's last reload raised
    gate,       \* the task holding each process's reload gate
    got,        \* the manifest version each task's reload has read
    sub,        \* where each subscription is
    cur,        \* the op a subscription applies; None during the resync
    conn,       \* processes whose pub/sub connection is up
    chan,       \* each connection's undelivered messages
    presence,   \* live presence keys
    hb,         \* processes whose heartbeat task runs
    req,        \* where each request is
    ask,        \* its base version, targets and local outcome
    coll,       \* its collection: expected, acked, terminal
    report,     \* the fleet report it ended with
    published,  \* the newest base version a whole-fleet op carried onto the channel
    budget      \* what is left of the scenario

storeVars == <<stored, published>>
subVars   == <<sub, cur, conn, chan, presence, hb>>
reqVars   == <<req, ask, coll, report>>
vars == <<storeVars, loaded, failed, gate, got, subVars, reqVars, budget>>

Docs     == {"env", "man"}
Versions == [Docs -> 0..MaxRequests]
Covers(v, u) == \A d \in Docs : v[d] >= u[d]

Reloading == {"want", "env", "man"}
SubStates == {"off", "down", "synced", "live", "dead"} \cup Reloading
ReqStates == {"off", "idle", "scan", "publish", "collect", "done", "dead"} \cup Reloading
Wire      == {"applied", "failed"}
Verdicts  == Wire \cup {"missing", "departed", "timed_out"}
Ops == [pub : Procs, n : 1..MaxRequests, targets : (SUBSET Workers) \cup {None}, base : Versions]

NoAsk  == [n |-> 0, base |-> [d \in Docs |-> 0], targets |-> None, local |-> "none"]
NoColl == [expected |-> {}, acked |-> {}, terminal |-> [p \in Workers |-> "none"]]

TypeOK ==
    /\ stored \in Versions /\ published \in Versions
    /\ loaded \in [Procs -> Versions] /\ failed \in [Procs -> BOOLEAN]
    /\ gate \in [Procs -> {"sub", "req", None}] /\ got \in [Procs -> [{"sub", "req"} -> 0..MaxRequests]]
    /\ sub \in [Workers -> SubStates] /\ cur \in [Workers -> Ops \cup {None}]
    /\ conn \subseteq Workers /\ chan \in [Workers -> Seq(Ops)]
    /\ presence \subseteq Workers /\ hb \subseteq Workers
    /\ req \in [Procs -> ReqStates]
    /\ ask \in [Procs -> [n : 0..MaxRequests, base : Versions, targets : (SUBSET Workers) \cup {None}, local : Wire \cup {"none"}]]
    /\ coll \in [Procs -> [expected : SUBSET Workers, acked : SUBSET Workers,
                           terminal : [Workers -> Wire \cup {"none"}]]]
    /\ \A p \in Procs : /\ report[p].reachable \in BOOLEAN
                        /\ DOMAIN report[p].results \subseteq Procs
                        /\ \A o \in DOMAIN report[p].results : report[p].results[o] \in Verdicts
    /\ budget \in Scenario

Unreachable == [reachable |-> FALSE, results |-> [o \in {} |-> "missing"]]

(* The fleet is running, apart from the late workers. *)
Init ==
    \E scenario \in Scenarios : LET up == Workers \ scenario.late IN
    /\ budget = scenario
    /\ stored = [d \in Docs |-> 0] /\ published = stored
    /\ loaded = [p \in Procs |-> stored] /\ failed = [p \in Procs |-> FALSE]
    /\ gate = [p \in Procs |-> None] /\ got = [p \in Procs |-> [t \in {"sub", "req"} |-> 0]]
    /\ sub = [w \in Workers |-> IF w \in up THEN "live" ELSE "off"]
    /\ cur = [w \in Workers |-> None] /\ conn = up /\ presence = up /\ hb = up
    /\ chan = [w \in Workers |-> <<>>]
    /\ req = [p \in Procs |-> IF p \in up THEN "idle" ELSE "off"]
    /\ ask = [p \in Procs |-> NoAsk] /\ coll = [p \in Procs |-> NoColl]
    /\ report = [p \in Procs |-> Unreachable]

Spend(b) == budget[b] > 0 /\ budget' = [budget EXCEPT ![b] = @ - 1]

----------------------------------------------------------------------------
(* The reload: reload_gate.run(_reload_config), by the subscription or the *)
(* request of p.                                                           *)

\* ReloadGate.run: the lock is held until the body ends.
HoldGate(p, t) == gate[p] = None /\ gate' = [gate EXCEPT ![p] = t]

\* A plausible mistake: a request leaves the gate locked.
MutantReleaseGate(p, t) ==
    /\ gate' = [gate EXCEPT ![p] = IF @ = t /\ t = "sub" THEN None ELSE @]
    /\ got' = [got EXCEPT ![p][t] = 0]

ReleaseGate(p, t) ==
    /\ gate' = [gate EXCEPT ![p] = IF @ = t THEN None ELSE @]
    /\ got' = [got EXCEPT ![p][t] = 0]

\* The gate acquired, read_env applied to os.environ.
ReadEnv(p, t) ==
    /\ HoldGate(p, t)
    /\ loaded' = [loaded EXCEPT ![p]["env"] = stored["env"]]
    /\ UNCHANGED <<failed, got>>

\* read_manifest; the version is installed later, by _update.
ReadManifest(p, t) ==
    /\ got' = [got EXCEPT ![p][t] = stored["man"]]
    /\ UNCHANGED <<loaded, failed, gate>>

\* _update has rebuilt the surface from the manifest that was read.
Installed(p, t) ==
    /\ loaded' = [loaded EXCEPT ![p]["man"] = got[p][t]]
    /\ failed' = [failed EXCEPT ![p] = FALSE]
    /\ ReleaseGate(p, t)

\* A read or the rebuild raised: the previous tool surface is restored.
Raised(p, t) ==
    /\ failed' = [failed EXCEPT ![p] = TRUE]
    /\ ReleaseGate(p, t) /\ UNCHANGED loaded

----------------------------------------------------------------------------
(* The subscription. *)

Boot(w) ==
    /\ sub[w] = "off"
    /\ sub' = [sub EXCEPT ![w] = "down"] /\ req' = [req EXCEPT ![w] = "idle"]
    /\ loaded' = [loaded EXCEPT ![w] = stored]
    /\ UNCHANGED <<storeVars, failed, gate, got, cur, conn, chan, presence, hb, ask, coll, report, budget>>

\* A worker forks a child to run a job: the child starts with what its parent has loaded.
Fork(c) ==
    /\ c \in budget.requesters /\ req[c] = "off" /\ sub[Parent[c]] \notin {"off", "dead"}
    /\ req' = [req EXCEPT ![c] = "idle"]
    /\ loaded' = [loaded EXCEPT ![c] = loaded[Parent[c]]]
    /\ UNCHANGED <<storeVars, failed, gate, got, subVars, ask, coll, report, budget>>

(* The channel is subscribed before on_ready starts the resync. *)
Subscribe(w) ==
    /\ sub[w] = "down"
    /\ conn' = conn \cup {w} /\ chan' = [chan EXCEPT ![w] = <<>>]
    /\ sub' = [sub EXCEPT ![w] = "want"] /\ cur' = [cur EXCEPT ![w] = None]
    /\ UNCHANGED <<storeVars, loaded, failed, gate, got, presence, hb, reqVars, budget>>

Register(w) ==
    /\ sub[w] = "synced"
    /\ presence' = presence \cup {w} /\ hb' = hb \cup {w}
    /\ sub' = [sub EXCEPT ![w] = "live"]
    /\ UNCHANGED <<storeVars, loaded, failed, gate, got, cur, conn, chan, reqVars, budget>>

\* The identity an op carries; _remint_origin_after_fork gives a child its own.
Origin(p) == p

\* _handle_op's early returns: the publisher's echo, and an op aimed at others.
Skips(w, op) == Origin(op.pub) = w \/ (op.targets # None /\ w \notin op.targets)

\* A frame to w's publisher is heard while that op is still being collected.
Hears(op) == req[op.pub] = "collect" /\ ask[op.pub].n = op.n

Ack(w, op) ==
    coll' = IF Hears(op) /\ w \in coll[op.pub].expected
            THEN [coll EXCEPT ![op.pub].acked = @ \cup {w}] ELSE coll

(* The terminal frame, folded in by _merge_terminal: a failure stands. *)
Reply(w, op, outcome) ==
    coll' = IF Hears(op) /\ w \in coll[op.pub].expected /\ coll[op.pub].terminal[w] # "failed"
            THEN [coll EXCEPT ![op.pub].terminal[w] = outcome] ELSE coll

(* One message off the channel: skipped, or acked and its reload begun. *)
Deliver(w) ==
    /\ sub[w] = "live" /\ w \in conn /\ chan[w] # <<>>
    /\ LET op == Head(chan[w]) IN
       /\ chan' = [chan EXCEPT ![w] = Tail(@)]
       /\ IF Skips(w, op) THEN UNCHANGED <<sub, cur, coll>>
          ELSE /\ Ack(w, op)
               /\ cur' = [cur EXCEPT ![w] = op] /\ sub' = [sub EXCEPT ![w] = "want"]
    /\ UNCHANGED <<storeVars, loaded, failed, gate, got, conn, presence, hb, req, ask, report, budget>>

SubReadEnv(w) ==
    /\ sub[w] = "want" /\ ReadEnv(w, "sub")
    /\ sub' = [sub EXCEPT ![w] = "env"]
    /\ UNCHANGED <<storeVars, cur, conn, chan, presence, hb, reqVars, budget>>

SubReadManifest(w) ==
    /\ sub[w] = "env" /\ ReadManifest(w, "sub")
    /\ sub' = [sub EXCEPT ![w] = "man"]
    /\ UNCHANGED <<storeVars, cur, conn, chan, presence, hb, reqVars, budget>>

\* After a resync the worker goes on to register; after an op it replies and listens.
AfterReload(w, outcome) ==
    IF cur[w] = None
    THEN sub' = [sub EXCEPT ![w] = "synced"] /\ UNCHANGED <<cur, coll>>
    ELSE /\ Reply(w, cur[w], outcome)
         /\ sub' = [sub EXCEPT ![w] = "live"] /\ cur' = [cur EXCEPT ![w] = None]

SubInstall(w) ==
    /\ sub[w] = "man" /\ Installed(w, "sub") /\ AfterReload(w, "applied")
    /\ UNCHANGED <<storeVars, conn, chan, presence, hb, req, ask, report, budget>>

\* A failing resync is swallowed; a failing op is answered "failed".
SubRaise(w) ==
    /\ sub[w] \in {"env", "man"} /\ Raised(w, "sub") /\ AfterReload(w, "failed")
    /\ Spend("failures")
    /\ UNCHANGED <<storeVars, conn, chan, presence, hb, req, ask, report>>

\* _stop_heartbeat and _teardown, then the backoff; the delete is best effort.
Reconnect(w) ==
    /\ presence' \in {presence, presence \ {w}}
    /\ hb' = hb \ {w} /\ conn' = conn \ {w}
    /\ chan' = [chan EXCEPT ![w] = <<>>]
    /\ sub' = [sub EXCEPT ![w] = "down"] /\ cur' = [cur EXCEPT ![w] = None]

\* The connection is lost: what it had not delivered is gone.
Drop(w) ==
    /\ w \in conn /\ Spend("drops")
    /\ conn' = conn \ {w} /\ chan' = [chan EXCEPT ![w] = <<>>]
    /\ UNCHANGED <<storeVars, loaded, failed, gate, got, sub, cur, presence, hb, reqVars>>

\* A plausible mistake: the loop takes a lost connection for silence.
MutantNotice(w) == sub[w] = "live" /\ w \notin hb

\* get_message raises on a lost connection, and the loop raises for a dead heartbeat.
Notice(w) == sub[w] = "live" /\ (w \notin conn \/ w \notin hb)

SubFailed(w) ==
    /\ Notice(w) /\ Reconnect(w)
    /\ UNCHANGED <<storeVars, loaded, failed, gate, got, reqVars, budget>>

\* A presence refresh raised: the heartbeat task ends.
HeartbeatDies(w) ==
    /\ w \in hb /\ sub[w] # "dead" /\ Spend("faults")
    /\ hb' = hb \ {w}
    /\ UNCHANGED <<storeVars, loaded, failed, gate, got, sub, cur, conn, chan, presence, reqVars>>

\* Registering presence raised.
JoinFault(w) ==
    /\ sub[w] = "synced" /\ Spend("faults") /\ Reconnect(w)
    /\ UNCHANGED <<storeVars, loaded, failed, gate, got, reqVars>>

\* The received reply raised: the op is not applied.
AckFault(w) ==
    /\ sub[w] = "live" /\ w \in conn /\ chan[w] # <<>> /\ ~Skips(w, Head(chan[w]))
    /\ Spend("faults") /\ Reconnect(w)
    /\ UNCHANGED <<storeVars, loaded, failed, gate, got, reqVars>>

\* The op was applied, or failed, and its terminal reply raised.
ReplyFault(w) ==
    /\ sub[w] = "man" /\ cur[w] # None /\ (Installed(w, "sub") \/ Raised(w, "sub"))
    /\ Spend("faults") /\ Reconnect(w)
    /\ UNCHANGED <<storeVars, reqVars>>

\* The key of a worker that no longer refreshes it.
Expire(w) ==
    /\ w \in presence \ hb
    /\ presence' = presence \ {w}
    /\ UNCHANGED <<storeVars, loaded, failed, gate, got, sub, cur, conn, chan, hb, reqVars, budget>>

(* The process stops, at shutdown (the key deleted) or killed (it expires). *)
Stop(w) ==
    /\ sub[w] \notin {"off", "dead"} /\ Spend("deaths")
    /\ sub' = [sub EXCEPT ![w] = "dead"] /\ req' = [req EXCEPT ![w] = "dead"]
    /\ presence' \in {presence, presence \ {w}}
    /\ hb' = hb \ {w} /\ conn' = conn \ {w}
    /\ chan' = [chan EXCEPT ![w] = <<>>] /\ cur' = [cur EXCEPT ![w] = None]
    /\ gate' = [gate EXCEPT ![w] = None] /\ got' = [got EXCEPT ![w] = [t \in {"sub", "req"} |-> 0]]
    /\ ask' = [ask EXCEPT ![w] = NoAsk] /\ coll' = [coll EXCEPT ![w] = NoColl]
    /\ report' = [report EXCEPT ![w] = Unreachable]
    /\ UNCHANGED <<storeVars, loaded, failed>>

----------------------------------------------------------------------------
(* The request: ConfigService, or the fleet soft restart through broadcast. *)

Asks(p, base, targets, at) ==
    /\ p \in budget.requesters /\ req[p] = "idle"
    /\ Spend("requests")
    /\ req' = [req EXCEPT ![p] = at]
    /\ ask' = [ask EXCEPT ![p] = [n |-> MaxRequests - budget'.requests, base |-> base, targets |-> targets,
                                 local |-> "none"]]
    /\ UNCHANGED <<loaded, failed, gate, got, subVars, coll, report, published>>

\* apply_change and apply_replace persist the manifest, apply_env_change the env.
\* A reload-gated route answers 503 when it finds the gate locked at its entry; the gate may be taken
\* between that and the persist.
Change(p, d) ==
    /\ stored' = [stored EXCEPT ![d] = @ + 1]
    /\ Asks(p, stored', None, "want")

(* The soft-restart doors, the ungated one included: the whole fleet, or   *)
(* workers the census knows.  A publisher that is not a target applies     *)
(* nothing itself.                                                         *)
SoftRestart(p, targets) ==
    /\ targets # None => targets \subseteq presence \cup {p}
    /\ Asks(p, stored, targets, IF targets = None \/ p \in targets THEN "want" ELSE "scan")
    /\ UNCHANGED stored

ReqReadEnv(p) ==
    /\ req[p] = "want" /\ ReadEnv(p, "req")
    /\ req' = [req EXCEPT ![p] = "env"]
    /\ UNCHANGED <<storeVars, subVars, ask, coll, report, budget>>

ReqReadManifest(p) ==
    /\ req[p] = "env" /\ ReadManifest(p, "req")
    /\ req' = [req EXCEPT ![p] = "man"]
    /\ UNCHANGED <<storeVars, subVars, ask, coll, report, budget>>

ReqInstall(p) ==
    /\ req[p] = "man" /\ Installed(p, "req")
    /\ req' = [req EXCEPT ![p] = "scan"] /\ ask' = [ask EXCEPT ![p].local = "applied"]
    /\ UNCHANGED <<storeVars, subVars, coll, report, budget>>

\* The failed local reload is published all the same.
ReqRaise(p) ==
    /\ req[p] \in {"env", "man"} /\ Raised(p, "req") /\ Spend("failures")
    /\ req' = [req EXCEPT ![p] = "scan"] /\ ask' = [ask EXCEPT ![p].local = "failed"]
    /\ UNCHANGED <<storeVars, subVars, coll, report>>

\* _expected_origins.
Scan(p) ==
    LET aimed == IF ask[p].targets = None THEN presence ELSE ask[p].targets IN
    /\ req[p] = "scan"
    /\ coll' = [coll EXCEPT ![p] = [NoColl EXCEPT !.expected = aimed \ {p}]]
    /\ req' = [req EXCEPT ![p] = "publish"]
    /\ UNCHANGED <<storeVars, loaded, failed, gate, got, subVars, ask, report, budget>>

\* Every connected process receives the message, the publisher's own included.
Broadcast(p) ==
    LET op == [pub |-> p, n |-> ask[p].n, targets |-> ask[p].targets, base |-> ask[p].base] IN
    /\ req[p] = "publish"
    /\ chan' = [w \in Workers |-> IF w \in conn THEN Append(chan[w], op) ELSE chan[w]]
    /\ published' = IF op.targets # None THEN published
                    ELSE [d \in Docs |-> IF op.base[d] > published[d] THEN op.base[d] ELSE published[d]]
    /\ req' = [req EXCEPT ![p] = "collect"]
    /\ UNCHANGED <<stored, loaded, failed, gate, got, sub, cur, conn, presence, hb, ask, coll, report, budget>>

\* A transport error before the op is out, or as its answer or the close of the reply channel is
\* awaited: the bus-unreachable report, whether or not the fleet has the op.
PublishFault(p) ==
    /\ req[p] \in {"scan", "publish", "collect"} /\ Spend("faults")
    /\ req' = [req EXCEPT ![p] = "done"] /\ report' = [report EXCEPT ![p] = Unreachable]
    /\ UNCHANGED <<storeVars, loaded, failed, gate, got, subVars, ask, coll>>

\* A plausible mistake: an origin whose key is gone counts as having applied on its way out.
MutantComputedVerdict(p, o, alive) ==
    IF alive = "no" THEN "applied" ELSE IF o \in coll[p].acked THEN "timed_out" ELSE "missing"

\* _computed_verdict; alive is "unknown" when the presence check itself failed.
ComputedVerdict(p, o, alive) ==
    IF alive = "no" THEN "departed" ELSE IF o \in coll[p].acked THEN "timed_out" ELSE "missing"

\* The report: terminal replies, computed verdicts, and the publisher's own entry.
Results(p, blind) ==
    LET self == IF ask[p].local = "none" THEN {} ELSE {p}
        Alive(o) == IF blind THEN "unknown" ELSE IF o \in presence THEN "yes" ELSE "no"
    IN [o \in coll[p].expected \cup self |->
            IF o = p THEN ask[p].local
            ELSE IF coll[p].terminal[o] # "none" THEN coll[p].terminal[o]
            ELSE ComputedVerdict(p, o, Alive(o))]

Answer(p, blind) ==
    /\ req' = [req EXCEPT ![p] = "done"]
    /\ report' = [report EXCEPT ![p] = [reachable |-> TRUE, results |-> Results(p, blind)]]
    /\ UNCHANGED <<storeVars, loaded, failed, gate, got, subVars, ask, coll>>

Unanswered(p) == {o \in coll[p].expected : coll[p].terminal[o] = "none"}

(* Every origin has answered, or the apply deadline has passed. *)
Collect(p) ==
    /\ req[p] = "collect" /\ (Unanswered(p) = {} \/ budget.deadlines)
    /\ Answer(p, FALSE) /\ UNCHANGED budget

\* The collection or the presence check hit a transport error.
CollectFault(p) ==
    /\ req[p] = "collect" /\ Unanswered(p) # {} /\ Spend("faults")
    /\ \E blind \in BOOLEAN : Answer(p, blind)

\* The response has gone out; the next request may come.
Return(p) ==
    /\ req[p] = "done"
    /\ req' = [req EXCEPT ![p] = "idle"] /\ ask' = [ask EXCEPT ![p] = NoAsk]
    /\ coll' = [coll EXCEPT ![p] = NoColl] /\ report' = [report EXCEPT ![p] = Unreachable]
    /\ UNCHANGED <<storeVars, loaded, failed, gate, got, subVars, budget>>

SubStep(w) ==
    \/ Subscribe(w) \/ Register(w) \/ Deliver(w)
    \/ SubReadEnv(w) \/ SubReadManifest(w) \/ SubInstall(w) \/ SubFailed(w)

ReqStep(p) ==
    \/ ReqReadEnv(p) \/ ReqReadManifest(p) \/ ReqInstall(p)
    \/ Scan(p) \/ Broadcast(p) \/ Collect(p) \/ Return(p)

Fault(w) ==
    \/ Drop(w) \/ HeartbeatDies(w) \/ JoinFault(w) \/ AckFault(w) \/ ReplyFault(w)
    \/ SubRaise(w) \/ Stop(w)

Next ==
    \/ \E w \in Workers : Boot(w) \/ SubStep(w) \/ Expire(w) \/ Fault(w)
    \/ \E c \in Children : Fork(c)
    \/ \E p \in Procs :
         \/ ReqStep(p) \/ ReqRaise(p) \/ PublishFault(p) \/ CollectFault(p)
         \/ \E d \in Docs : Change(p, d)
         \/ \E t \in budget.targets : SoftRestart(p, t)

Spec == Init /\ [][Next]_vars

(* Every task of a running process goes on: the loops never return, a      *)
(* backoff is finite, an abandoned key's TTL runs out.                     *)
FairSpec ==
    /\ Spec
    /\ \A w \in Workers : WF_vars(SubStep(w)) /\ WF_vars(Expire(w))
    /\ \A p \in Procs : WF_vars(ReqStep(p))

----------------------------------------------------------------------------
(* What the pieces guarantee together. *)

\* A worker with nothing left to hear and no failed reload behind it runs with everything the
\* fleet was told of: subscribing before the resync leaves no window for a lost broadcast.
NoSilentStaleness ==
    \A w \in Workers :
        sub[w] = "live" /\ w \in conn /\ chan[w] = <<>> /\ ~failed[w]
            => Covers(loaded[w], published)

\* An origin reported applied runs with at least the change the report is about.
AppliedIsFresh ==
    \A p \in Procs : req[p] = "done" =>
        \A o \in DOMAIN report[p].results :
            report[p].results[o] = "applied" => Covers(loaded[o], ask[p].base)

\* A reachable report answers for every origin it expected, and for the publisher when it applied.
NobodyUnreported ==
    \A p \in Procs : req[p] = "done" /\ report[p].reachable =>
        /\ coll[p].expected \subseteq DOMAIN report[p].results
        /\ p \in DOMAIN report[p].results <=> (ask[p].targets = None \/ p \in ask[p].targets)

\* Reloads of one process never overlap, so none puts back an older version.
NeverRegresses == [][\A p \in Procs : Covers(loaded'[p], loaded[p])]_vars

\* Without a fault every broadcast is answered, deadline or not: publishers that wait for each
\* other's reload do not wait forever.
EveryRequestAnswered ==
    \A p \in Procs : []<>(req[p] \notin Reloading \cup {"scan", "publish", "collect"})

\* Whatever was lost on the way, a worker that keeps running ends up with every change the fleet
\* was told of, unless its last reload failed.
FleetConverges ==
    \A w \in Workers :
        <>[](sub[w] \in {"off", "dead"} \/ failed[w] \/ Covers(loaded[w], published))

\* A finished report tells the truth about the fleet, and the whole of it.
ReportTruthful == TypeOK /\ AppliedIsFresh /\ NobodyUnreported

\* What a fleet operation tells and leaves behind: no worker is stale unless something said so, the
\* report is true when it is given, and no reload puts an older version back.
FleetHonest == [](ReportTruthful /\ NoSilentStaleness) /\ NeverRegresses
=============================================================================

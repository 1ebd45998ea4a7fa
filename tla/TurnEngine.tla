----------------------------- MODULE TurnEngine -----------------------------
(***************************************************************************)
(* The conversation turn engine (conversations/turn.py) over the record    *)
(* store: the two doors' accepts, the background turns, the in-process     *)
(* resolution of a record left at intake, and the periodic intake re-drive *)
(* of every worker.  One step is one round trip to Redis together with the *)
(* synchronous code around it; a round trip may fail with its script       *)
(* applied or not, and a worker may die between any two steps.             *)
(*                                                                         *)
(* Each member of Messages is one accept (a provider's redelivery is       *)
(* another member with the same pair) or one API submit (pair NoPair).     *)
(* An accept's uuid4 intake token is its own id; a re-drive pass takes a   *)
(* fresh token of PassTokens.                                              *)
(***************************************************************************)
EXTENDS RecordStore, FiniteSets

CONSTANTS
    Workers,
    Threads,
    PassTokens,         \* the tokens the re-drive passes draw from
    PairOf,             \* the inbound pair of each message, NoPair at the API door
    NoPair,
    ThreadOf,           \* the conversation thread of each message
    ThreadQueueDepth,   \* settings.thread_queue_depth
    Scenarios           \* the disturbances a behaviour may meet

\* Bounds on failed round trips, worker deaths and dedupe-marker expiries, and whether a
\* live worker may outlast its own intake lease.
Scenario == [faults : Nat, crashes : Nat, expiries : Nat, stalls : BOOLEAN]

ASSUME TurnConstants ==
    /\ PassTokens \cap Messages = {} /\ Tokens = Messages \cup PassTokens
    /\ PairOf \in [Messages -> Pairs \cup {NoPair}] /\ NoPair \notin Pairs
    /\ ThreadOf \in [Messages -> Threads]
    /\ ThreadQueueDepth \in Nat \ {0} /\ Scenarios \in SUBSET Scenario
    /\ Workers \cap Messages = {}

Door(m) == IF PairOf[m] = NoPair THEN "api" ELSE "channel"

VARIABLES
    pc,         \* where each accept or submit and its turn task are
    host,       \* the worker running it
    outcome,    \* the answer a running turn has produced
    attached,   \* whether delivery is attached to the turn task's completion
    refreshing, \* the turns whose lease heartbeat is running
    res,        \* the intake resolutions, one per accept and one per re-drive pass
    pass,       \* each worker's re-drive pass: token and the records still to visit
    slots,      \* TurnCaps._thread_waiters of each worker
    spawned,    \* history: records whose delivery was spawned
    ran,        \* history: messages whose agent turn was run
    retired,    \* history: messages whose dedupe marker expired
    budget      \* what is left of the scenario

engineVars == <<pc, host, outcome, attached, refreshing, res, pass, slots, spawned, ran, retired, budget>>
vars == <<storeVars, engineVars>>

NoPass == [tok |-> NoToken, todo |-> {}]
Idle   == [stage |-> "idle", rec |-> NoMessage]
Resolvers == Messages \cup Workers
Stages == {"idle", "read", "arbitrate", "fail", "discard"}
HoldsSlot == {"creating", "claiming", "scheduled", "answering"}
Ended  == {"new", "done", "refused", "dead"}
PCs    == Ended \cup HoldsSlot \cup
          {"unclaimed", "replyCreating", "replyClaiming", "replying", "silentCreating",
           "silentClaiming", "losing", "answered", "raised"}

TypeOK ==
    /\ StoreTypeOK
    /\ pc \in [Messages -> PCs]
    /\ host \in [Messages -> Workers]
    /\ outcome \in [Messages -> Outcomes \cup {NoAnswer}]
    /\ attached \in SUBSET Messages /\ refreshing \in SUBSET Messages
    /\ res \in [Resolvers -> [stage : Stages, rec : Messages \cup {NoMessage}]]
    /\ pass \in [Workers -> [tok : PassTokens \cup {NoToken}, todo : SUBSET Messages]]
    /\ slots \in [Workers -> [Threads -> Nat]]
    /\ spawned \in SUBSET Messages /\ ran \in SUBSET Messages /\ retired \in SUBSET Messages
    /\ budget \in Scenario

Init ==
    /\ StoreInit
    /\ pc = [m \in Messages |-> "new"]
    /\ host \in [Messages -> Workers]
    /\ outcome = [m \in Messages |-> NoAnswer]
    /\ attached = {} /\ refreshing = {}
    /\ res = [r \in Resolvers |-> Idle]
    /\ pass = [w \in Workers |-> NoPass]
    /\ slots = [w \in Workers |-> [h \in Threads |-> 0]]
    /\ spawned = {} /\ ran = {} /\ retired = {}
    /\ budget \in Scenarios

----------------------------------------------------------------------------
(* Step vocabulary. *)

Goto(m, l) == pc' = [pc EXCEPT ![m] = l]

\* A round trip that raises: its script was applied, or never reached the server.
Fault(script) ==
    /\ budget.faults > 0
    /\ budget' = [budget EXCEPT !.faults = @ - 1]
    /\ script \/ UNCHANGED storeVars

Ok(script) == script /\ UNCHANGED budget

ReserveThreadSlot(m) ==
    /\ slots[host[m]][ThreadOf[m]] < ThreadQueueDepth
    /\ slots' = [slots EXCEPT ![host[m]][ThreadOf[m]] = @ + 1]

ReleaseThreadSlot(m) ==
    slots' = [slots EXCEPT ![host[m]][ThreadOf[m]] = IF @ = 0 THEN 0 ELSE @ - 1]

SpawnIntakeResolution(m) == res' = [res EXCEPT ![m] = [stage |-> "read", rec |-> m]]

----------------------------------------------------------------------------
(* The doors up to the first write: accept, submit_api_message. *)

\* accept: the redelivery fast path claims nothing.
GetInboundOwner(m) ==
    /\ pc[m] = "new" /\ Door(m) = "channel"
    /\ Goto(m, IF marker[PairOf[m]] = NoMessage THEN "unclaimed" ELSE "done")
    /\ UNCHANGED <<storeVars, host, outcome, attached, refreshing, res, pass, slots, spawned, ran, retired, budget>>

ReadyToAdmit(m) == pc[m] = IF Door(m) = "channel" THEN "unclaimed" ELSE "new"

\* admit_address and the slot reservation run without an await between them.
AdmitForTurn(m) ==
    /\ ReadyToAdmit(m)
    /\ ReserveThreadSlot(m)
    /\ Goto(m, "creating")
    /\ UNCHANGED <<storeVars, host, outcome, attached, refreshing, res, pass, spawned, ran, retired, budget>>

\* ThreadQueueOverflowError, or at the API door AddressRateLimitedError.
Refuse(m) ==
    /\ ReadyToAdmit(m)
    /\ Door(m) = "api" \/ slots[host[m]][ThreadOf[m]] >= ThreadQueueDepth
    /\ Goto(m, "refused")
    /\ UNCHANGED <<storeVars, host, outcome, attached, refreshing, res, pass, slots, spawned, ran, retired, budget>>

Shed(m) ==
    /\ pc[m] = "unclaimed"
    /\ Goto(m, "replyCreating") \/ Goto(m, "silentCreating")
    /\ UNCHANGED <<storeVars, host, outcome, attached, refreshing, res, pass, slots, spawned, ran, retired, budget>>

----------------------------------------------------------------------------
(* _accept_for_turn: reserve, persist, claim, schedule. *)

CreateIntake(m) ==
    /\ pc[m] = "creating"
    /\ Ok(CreateRecord(m, "accepted", m))
    /\ Goto(m, IF Door(m) = "channel" THEN "claiming" ELSE "scheduled")
    /\ refreshing' = IF Door(m) = "api" THEN refreshing \cup {m} ELSE refreshing
    /\ UNCHANGED <<host, outcome, attached, res, pass, slots, spawned, ran, retired>>

\* A failed or cancelled create: the channel door resolves the record, the API door does not.
CreateIntakeFails(m) ==
    /\ pc[m] = "creating"
    /\ Fault(CreateRecord(m, "accepted", m))
    /\ ReleaseThreadSlot(m)
    /\ IF Door(m) = "channel" THEN SpawnIntakeResolution(m) ELSE UNCHANGED res
    /\ Goto(m, "done")
    /\ UNCHANGED <<host, outcome, attached, refreshing, pass, spawned, ran, retired>>

ClaimPair(m) ==
    LET owner == ClaimInboundReply(PairOf[m], m) IN
    /\ pc[m] = "claiming"
    /\ Ok(ClaimInbound(PairOf[m], m))
    /\ IF owner = m
       THEN /\ Goto(m, "scheduled")
            /\ attached' = attached \cup {m} /\ refreshing' = refreshing \cup {m}
            /\ UNCHANGED slots
       ELSE /\ Goto(m, "losing") /\ ReleaseThreadSlot(m)
            /\ UNCHANGED <<attached, refreshing>>
    /\ UNCHANGED <<host, outcome, res, pass, spawned, ran, retired>>

ClaimPairFails(m) ==
    /\ pc[m] = "claiming"
    /\ Fault(ClaimInbound(PairOf[m], m))
    /\ ReleaseThreadSlot(m)
    /\ SpawnIntakeResolution(m)
    /\ Goto(m, "done")
    /\ UNCHANGED <<host, outcome, attached, refreshing, pass, spawned, ran, retired>>

\* The losing attempt of any kind discards its own record.
DiscardLoser(m) ==
    /\ pc[m] = "losing"
    /\ Ok(DeleteRecord(m)) \/ Fault(DeleteRecord(m))
    /\ Goto(m, "done")
    /\ UNCHANGED <<host, outcome, attached, refreshing, res, pass, slots, spawned, ran, retired>>

----------------------------------------------------------------------------
(* _shed_with_reply and _shed_silently. *)

CreateShed(m) ==
    /\ \/ pc[m] = "replyCreating" /\ Ok(CreateRecord(m, "accepted", m)) /\ Goto(m, "replyClaiming")
       \/ pc[m] = "silentCreating" /\ Ok(CreateRecord(m, "shed", m)) /\ Goto(m, "silentClaiming")
    /\ UNCHANGED <<host, outcome, attached, refreshing, res, pass, slots, spawned, ran, retired>>

ClaimShed(m) ==
    LET owner == ClaimInboundReply(PairOf[m], m) IN
    /\ pc[m] \in {"replyClaiming", "silentClaiming"}
    /\ Ok(ClaimInbound(PairOf[m], m))
    /\ Goto(m, IF owner # m THEN "losing" ELSE IF pc[m] = "replyClaiming" THEN "replying" ELSE "done")
    /\ UNCHANGED <<host, outcome, attached, refreshing, res, pass, slots, spawned, ran, retired>>

\* The replying shed resolves its record, the silent one only raises.
ShedFails(m) ==
    /\ \/ pc[m] = "replyCreating" /\ Fault(CreateRecord(m, "accepted", m)) /\ SpawnIntakeResolution(m)
       \/ pc[m] = "replyClaiming" /\ Fault(ClaimInbound(PairOf[m], m)) /\ SpawnIntakeResolution(m)
       \/ pc[m] = "silentCreating" /\ Fault(CreateRecord(m, "shed", m)) /\ UNCHANGED res
       \/ pc[m] = "silentClaiming" /\ Fault(ClaimInbound(PairOf[m], m)) /\ UNCHANGED res
    /\ Goto(m, "done")
    /\ UNCHANGED <<host, outcome, attached, refreshing, pass, slots, spawned, ran, retired>>

\* The slow-down reply; a failed round trip here leaves the record to the sweeps.
SlowDownReply(m) ==
    /\ pc[m] = "replying"
    /\ \/ /\ Ok(CompleteTurn(m, "answered"))
          /\ spawned' = IF CompleteTurnReply(m) = 1 THEN spawned \cup {m} ELSE spawned
       \/ Fault(CompleteTurn(m, "answered")) /\ UNCHANGED spawned
    /\ Goto(m, "done")
    /\ UNCHANGED <<host, outcome, attached, refreshing, res, pass, slots, ran, retired>>

----------------------------------------------------------------------------
(* _schedule_turn: the background turn, its heartbeat and its completion. *)

\* run_reserved: one turn at a time holds the thread's lock on its worker.
RunAgentTurn(m) ==
    /\ pc[m] = "scheduled"
    /\ \A k \in Messages : pc[k] = "answering" => host[k] # host[m] \/ ThreadOf[k] # ThreadOf[m]
    /\ Goto(m, "answering")
    /\ ran' = ran \cup {m}
    /\ \E a \in Outcomes : outcome' = [outcome EXCEPT ![m] = a]
    /\ UNCHANGED <<storeVars, host, attached, refreshing, res, pass, slots, spawned, retired, budget>>

\* _refresh_intake_lease: a reply other than 1 ends the heartbeat.
RefreshIntakeLease(m) ==
    /\ m \in refreshing /\ intake[m] # m
    /\ Ok(ClaimIntake(m, m))
    /\ refreshing' = IF ClaimIntakeReply(m, m) = 1 THEN refreshing ELSE refreshing \ {m}
    /\ UNCHANGED <<pc, host, outcome, attached, res, pass, slots, spawned, ran, retired>>

\* _complete_turn, then the done callback when delivery is attached.
CompleteAgentTurn(m) ==
    /\ pc[m] = "answering"
    /\ ReleaseThreadSlot(m)
    /\ refreshing' = refreshing \ {m}
    /\ \E ok \in BOOLEAN :
        /\ IF ok THEN CompleteTurnReply(m) = 1 /\ Ok(CompleteTurn(m, outcome[m]))
                 ELSE \/ CompleteTurnReply(m) # 1 /\ Ok(CompleteTurn(m, outcome[m]))
                      \/ Fault(CompleteTurn(m, outcome[m]))
        /\ IF m \in attached
           THEN /\ Goto(m, "done")
                /\ spawned' = IF ok THEN spawned \cup {m} ELSE spawned
                /\ IF ok THEN UNCHANGED res ELSE SpawnIntakeResolution(m)
           ELSE /\ Goto(m, IF ok THEN "answered" ELSE "raised")
                /\ UNCHANGED <<spawned, res>>
    /\ UNCHANGED <<host, outcome, attached, pass, ran, retired>>

\* The sync wait elapses before the turn ends: _deliver_when_done adds the callback.
WaitElapses(m) ==
    /\ pc[m] \in {"scheduled", "answering"} /\ m \notin attached
    /\ attached' = attached \cup {m}
    /\ UNCHANGED <<storeVars, pc, host, outcome, refreshing, res, pass, slots, spawned, ran, retired, budget>>

\* The turn ended inside the wait: answered in the 200, or the callback is attached at once.
WaitReturns(m) ==
    /\ pc[m] \in {"answered", "raised"}
    /\ Goto(m, "done")
    /\ \/ pc[m] = "answered" /\ UNCHANGED <<spawned, res>>
       \/ pc[m] = "answered" /\ spawned' = spawned \cup {m} /\ UNCHANGED res
       \/ pc[m] = "raised" /\ SpawnIntakeResolution(m) /\ UNCHANGED spawned
    /\ UNCHANGED <<storeVars, host, outcome, attached, refreshing, pass, slots, ran, retired, budget>>

\* The waiting client disconnects: nothing is ever attached to the turn.
WaitCancelled(m) ==
    /\ pc[m] \in {"answered", "raised"}
    /\ Goto(m, "done")
    /\ UNCHANGED <<storeVars, host, outcome, attached, refreshing, res, pass, slots, spawned, ran, retired, budget>>

----------------------------------------------------------------------------
(* Resolving a record left at intake: the worker's own, or the re-drive's. *)

Settled(r) == res' = [res EXCEPT ![r] = Idle]

\* _resolve_stranded_intake.
ReadStranded(m) ==
    /\ res[m].stage = "read"
    /\ \/ /\ UNCHANGED budget
          /\ res' = [res EXCEPT ![m] = IF status[m] = "accepted" THEN [@ EXCEPT !.stage = "arbitrate"] ELSE Idle]
       \/ Fault(UNCHANGED storeVars) /\ Settled(m)
    /\ UNCHANGED <<storeVars, pc, host, outcome, attached, refreshing, pass, slots, spawned, ran, retired>>

\* redrive_accepted: list the intake records, then visit each under one token.
StartPass(w) ==
    /\ pass[w] = NoPass /\ index["accepted"] # {}
    /\ \E t \in PassTokens :
          /\ \A m \in Messages : intake[m] # t
          /\ \A v \in Workers : pass[v].tok # t
          /\ pass' = [pass EXCEPT ![w] = [tok |-> t, todo |-> index["accepted"]]]
    /\ UNCHANGED <<storeVars, pc, host, outcome, attached, refreshing, res, slots, spawned, ran, retired, budget>>

\* A record is adopted only when the lease was free; a failed claim skips it this pass.
Adopt(w, m) ==
    /\ m \in pass[w].todo /\ res[w] = Idle
    /\ pass' = [pass EXCEPT ![w].todo = @ \ {m}]
    /\ \/ /\ Ok(ClaimIntake(m, pass[w].tok))
          /\ res' = [res EXCEPT ![w] = IF ClaimIntakeReply(m, pass[w].tok) = 1
                                       THEN [stage |-> "arbitrate", rec |-> m] ELSE Idle]
       \/ Fault(ClaimIntake(m, pass[w].tok)) /\ UNCHANGED res
    /\ UNCHANGED <<pc, host, outcome, attached, refreshing, slots, spawned, ran, retired>>

EndPass(w) ==
    /\ pass[w] # NoPass /\ pass[w].todo = {} /\ res[w] = Idle
    /\ pass' = [pass EXCEPT ![w] = NoPass]
    /\ UNCHANGED <<storeVars, pc, host, outcome, attached, refreshing, res, slots, spawned, ran, retired, budget>>

\* A plausible mistake: only a fresh claim counts as owning the pair, as with a bare SET NX.
MutantOwnsInboundClaim(r) ==
    LET m == res[r].rec IN
    /\ res[r].stage = "arbitrate"
    /\ Ok(IF Door(m) = "api" THEN UNCHANGED storeVars ELSE ClaimInbound(PairOf[m], m))
    /\ res' = [res EXCEPT ![r].stage = IF Door(m) = "api" THEN "fail"
                                       ELSE IF marker[PairOf[m]] = NoMessage THEN "fail" ELSE "discard"]
    /\ UNCHANGED <<pc, host, outcome, attached, refreshing, pass, slots, spawned, ran, retired>>

\* _arbitrate_stranded_intake: the pair decides, claimed here when nobody has.
OwnsInboundClaim(r) ==
    LET m == res[r].rec IN
    /\ res[r].stage = "arbitrate"
    /\ \/ /\ Door(m) = "api"
          /\ res' = [res EXCEPT ![r].stage = "fail"]
          /\ UNCHANGED <<storeVars, budget>>
       \/ /\ Door(m) = "channel" /\ Ok(ClaimInbound(PairOf[m], m))
          /\ res' = [res EXCEPT ![r].stage = IF ClaimInboundReply(PairOf[m], m) = m THEN "fail" ELSE "discard"]
       \/ Door(m) = "channel" /\ Fault(ClaimInbound(PairOf[m], m)) /\ Settled(r)
    /\ UNCHANGED <<pc, host, outcome, attached, refreshing, pass, slots, spawned, ran, retired>>

\* A plausible mistake: only a channel record is given the error outcome; an API record is skipped.
MutantFailStrandedTurn(r) ==
    LET m == res[r].rec IN
    /\ res[r].stage = "fail" /\ Settled(r)
    /\ Ok(IF Door(m) = "channel" THEN CompleteTurn(m, "error") ELSE UNCHANGED storeVars)
    /\ spawned' = IF CompleteTurnReply(m) = 1 THEN spawned \cup {m} ELSE spawned
    /\ UNCHANGED <<pc, host, outcome, attached, refreshing, pass, slots, ran, retired>>

FailStrandedTurn(r) ==
    LET m == res[r].rec IN
    /\ res[r].stage = "fail" /\ Settled(r)
    /\ \/ /\ Ok(CompleteTurn(m, "error"))
          /\ spawned' = IF CompleteTurnReply(m) = 1 THEN spawned \cup {m} ELSE spawned
       \/ Fault(CompleteTurn(m, "error")) /\ UNCHANGED spawned
    /\ UNCHANGED <<pc, host, outcome, attached, refreshing, pass, slots, ran, retired>>

DiscardStranded(r) ==
    /\ res[r].stage = "discard" /\ Settled(r)
    /\ Ok(DeleteRecord(res[r].rec)) \/ Fault(DeleteRecord(res[r].rec))
    /\ UNCHANGED <<pc, host, outcome, attached, refreshing, pass, slots, spawned, ran, retired>>

----------------------------------------------------------------------------
(* The environment: lapsing leases, expiring markers, dying workers. *)

\* The steps a live worker takes within its lease: heartbeat or short round trips.
Prompt == {"claiming", "scheduled", "answering", "replyClaiming", "replying"}

LeaseLapses(m) ==
    /\ budget.stalls \/ ~(pc[m] \in Prompt /\ intake[m] = m)
    /\ LapseIntake(m)
    /\ UNCHANGED engineVars

\* Whether some attempt or resolution on the pair is still in flight.
InFlight(p) ==
    \E m \in Messages : PairOf[m] = p /\ (pc[m] \notin Ended \/ \E r \in Resolvers : res[r].rec = m)

\* inbound_dedupe_ttl_seconds (48 h) outlasts every attempt in flight (leases of 120 s).
MarkerExpires(p) ==
    /\ budget.expiries > 0
    /\ marker[p] # NoMessage /\ ~InFlight(p)
    /\ retired' = retired \cup {marker[p]}
    /\ budget' = [budget EXCEPT !.expiries = @ - 1]
    /\ ExpireMarker(p)
    /\ UNCHANGED <<pc, host, outcome, attached, refreshing, res, pass, slots, spawned, ran>>

\* The worker dies and is restarted: tasks, caps and its pass are gone, the store stays.
Crash(w) ==
    LET lost == {m \in Messages : host[m] = w /\ pc[m] \notin Ended} IN
    /\ budget.crashes > 0
    /\ budget' = [budget EXCEPT !.crashes = @ - 1]
    /\ pc' = [m \in Messages |-> IF m \in lost THEN "dead" ELSE pc[m]]
    /\ refreshing' = refreshing \ lost
    /\ res' = [r \in Resolvers |-> IF r = w \/ (r \in Messages /\ host[r] = w) THEN Idle ELSE res[r]]
    /\ pass' = [pass EXCEPT ![w] = NoPass]
    /\ slots' = [slots EXCEPT ![w] = [h \in Threads |-> 0]]
    /\ UNCHANGED <<storeVars, host, outcome, attached, spawned, ran, retired>>

----------------------------------------------------------------------------
Accept(m) ==
    \/ GetInboundOwner(m) \/ AdmitForTurn(m) \/ Refuse(m) \/ Shed(m)
    \/ CreateIntake(m) \/ CreateIntakeFails(m) \/ ClaimPair(m) \/ ClaimPairFails(m) \/ DiscardLoser(m)
    \/ CreateShed(m) \/ ClaimShed(m) \/ ShedFails(m) \/ SlowDownReply(m)

Turn(m) ==
    \/ RunAgentTurn(m) \/ RefreshIntakeLease(m) \/ CompleteAgentTurn(m)
    \/ WaitElapses(m) \/ WaitReturns(m) \/ WaitCancelled(m)

Resolve(r) == OwnsInboundClaim(r) \/ FailStrandedTurn(r) \/ DiscardStranded(r)

Next ==
    \/ \E m \in Messages : Accept(m) \/ Turn(m) \/ ReadStranded(m) \/ LeaseLapses(m)
    \/ \E r \in Resolvers : Resolve(r)
    \/ \E w \in Workers : StartPass(w) \/ EndPass(w) \/ Crash(w) \/ \E m \in Messages : Adopt(w, m)
    \/ \E p \in Pairs : MarkerExpires(p)

Spec == Init /\ [][Next]_vars

(* Tasks that can run do run, agents terminate (the run is bounded by its own timeout), the
   sweep loop keeps starting passes, and a lease nobody renews lapses.  Faults, crashes and
   disconnects are never owed. *)
Fairness ==
    /\ \A m \in Messages :
          /\ WF_vars(Accept(m)) /\ WF_vars(RunAgentTurn(m) \/ CompleteAgentTurn(m))
          /\ WF_vars(WaitReturns(m)) /\ WF_vars(ReadStranded(m)) /\ WF_vars(LeaseLapses(m))
    /\ \A r \in Resolvers : WF_vars(Resolve(r))
    /\ \A w \in Workers : WF_vars(StartPass(w) \/ EndPass(w) \/ \E m \in Messages : Adopt(w, m))

FairSpec == Spec /\ Fairness

----------------------------------------------------------------------------
(* Properties. *)

(* turn.py "A record the delivery machine drives must never stand behind an unclaimed pair":
   a channel record that carries an outcome, and every message whose agent turn ran, is the
   one its inbound pair is committed to (or was, until the marker's TTL ran out), through
   lost replies, crashes, re-drives and redeliveries.  So between two expiries of its marker
   a pair runs one turn and is given one answer: accept's "a redelivery returns the existing
   message_id and starts no second turn". *)
ClaimBacksOutcome ==
    \A m \in Messages :
        Door(m) = "channel" /\ (answer[m] # NoAnswer \/ m \in ran)
            => marker[PairOf[m]] = m \/ m \in retired

(* "so a live turn is never reaped": while no worker outlasts its lease, the record of a
   scheduled or running turn is still at intake under that turn's own lease, so its answer
   will be accepted. *)
LiveTurnNotReaped ==
    ~budget.stalls => \A m \in Messages :
        pc[m] \in {"scheduled", "answering"} => status[m] = "accepted" /\ intake[m] = m

(* reserve_thread_slot "Every reservation must be released by exactly one run_reserved or
   release_thread_slot": a worker's count is exactly its accepts and turns in flight, so no
   failure path leaks a place in the FIFO or gives one back twice. *)
SlotsExact ==
    \A w \in Workers, h \in Threads :
        slots[w][h] = Cardinality({m \in Messages : /\ host[m] = w /\ ThreadOf[m] = h
                                                     /\ pc[m] \in HoldsSlot})

(* A durable accept is never stranded: every record left at intake by a turn, a fault, a
   disconnect or a dead worker eventually leaves it, by an outcome or by being discarded. *)
IntakeResolved ==
    \A m \in Messages : []<>(status[m] # "accepted")

(* The engine's own books: its types and its exact thread reservations. *)
EngineConsistent == TypeOK /\ SlotsExact

\* What the doors account for: the slots and leases of turn.py stay with the turns that hold them,
\* every claimed pair has its record, and no turn that still runs is reaped.
TurnsAccounted == EngineConsistent /\ ClaimBacksOutcome /\ LiveTurnNotReaped
=============================================================================

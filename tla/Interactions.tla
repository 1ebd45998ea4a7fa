---------------------------- MODULE Interactions ----------------------------
(***************************************************************************)
(* ask_user (interactions/helper.py), its Redis store                      *)
(* (interactions/store.py), the two answer doors and the inbox stream      *)
(* (routers/interactions.py, operations/interactions.py).                  *)
(*                                                                         *)
(* A pipeline or script is one step.  A WATCH ... EXEC transaction is      *)
(* three: the status it read, the count it read, and the EXEC that fails   *)
(* if a watched key was written in between.  Time is a clock the deadlines *)
(* are compared with; a question's deadline is the end of its budget as    *)
(* taken when it was asked.                                                *)
(***************************************************************************)
EXTENDS Integers, Sequences, FiniteSets

CONSTANTS
    Questions, Groups, GroupOf, Deadline,   \* timeout_at of each question
    Answerers,      \* humans at the answer doors
    None,
    MaxNow,         \* bound: the clock
    Scenarios       \* the deployments and disturbances to explore

(* A scenario: the questions asked in it, those of them delivered over a   *)
(* channel and those of the external format (answered by callback only),   *)
(* those bound to a verifier, the humans at the doors, max_concurrent or   *)
(* None, and the bounds on                                                 *)
(* waiters killed without cleanup, groups whose keys reach their idle TTL, *)
(* and inbox streams opened one after the other.                           *)
Scenario ==
    [asked : SUBSET Questions, channelled : SUBSET Questions, external : SUBSET Questions, bound : SUBSET Questions,
     humans : SUBSET Answerers, limit : (Nat \ {0}) \cup {None},
     kills : Nat, expiries : Nat, connects : Nat]

\* An actor's transaction: what it is for, what it read, and whether a watched key was written.
Transactions ==
    [kind : {"record", "prune"}, q : Questions, dirty : BOOLEAN, last : BOOLEAN,
     at : {"ticket", "door", "status", "count", "skip", "torn"}]

ASSUME InteractionConstants ==
    /\ GroupOf \in [Questions -> Groups] /\ Deadline \in [Questions -> 1..MaxNow] /\ MaxNow \in Nat
    /\ None \notin Questions \cup Answerers \cup Groups \cup Nat \cup Transactions
    /\ "inbox" \notin Questions \cup Answerers
    /\ \A s \in Scenarios : s \in Scenario

VARIABLES
    now,
    waiter,     \* where each ask_user call is
    state,      \* the state hash: none, pending, answered
    ticket,     \* questions whose callback ticket still resolves
    reply,      \* questions whose reply list holds an answer
    count,      \* each group's pending count; None: the key is absent
    pending,    \* the groups in pending_key
    deadline,   \* pending_deadline_key: each group's furthest deadline, 0 when absent
    open,       \* open_key
    stream,     \* the questions in each group's stream
    events,     \* the global event stream
    tx,         \* each actor's transaction between its reads and its EXEC
    view,       \* the inbox stream of one client
    claimed,    \* the actor that recorded each answer
    budget      \* the scenario, its bounds counting down

storeVars == <<state, ticket, reply, count, pending, deadline, open, stream, events>>
vars == <<now, waiter, storeVars, tx, view, claimed, budget>>

Actors == Questions \cup Answerers \cup {"inbox"}
Past(q) == Deadline[q] <= now
Ticketed == budget.channelled \cup budget.external   \* a callback ticket is minted
PendingIn(g) == {q \in Questions : GroupOf[q] = g /\ state[q] = "pending"}

Ended == {"answer", "raised", "killed"}
Pruning == {"prune", "prune:failed"}   \* abandoned, or its delivery failed
Waiting == {"wait", "recorded"}   \* in the second its prune found the answer recorded
Blocked == {"deliver"} \cup Waiting \cup Pruning
NoView == [at |-> "off", cursor |-> 0, groups |-> {}, group |-> None, entries |-> {}, late |-> {},
           shown |-> {}, since |-> 0]

TypeOK ==
    /\ now \in 0..MaxNow
    /\ waiter \in [Questions -> {"new", "reserved", "purged"} \cup Blocked \cup Ended]
    /\ state \in [Questions -> {"none", "pending", "answered"}]
    /\ ticket \subseteq Questions /\ reply \subseteq Questions /\ open \subseteq Questions
    /\ count \in [Groups -> Nat \cup {None}] /\ pending \subseteq Groups
    /\ deadline \in [Groups -> 0..MaxNow] /\ stream \in [Groups -> SUBSET Questions]
    /\ events \in Seq([type : {"add", "answered", "removed"}, q : Questions])
    /\ tx \in [Actors -> Transactions \cup {None}]
    /\ view.at \in {"off", "cursor", "groups", "phantom", "states", "prune", "tail"}
    /\ view.cursor \in 0..Len(events) /\ view.shown \subseteq Questions
    /\ claimed \in [Questions -> Answerers \cup {None}]

Init ==
    /\ now = 0 /\ waiter = [q \in Questions |-> "new"]
    /\ state = [q \in Questions |-> "none"] /\ ticket = {} /\ reply = {}
    /\ count = [g \in Groups |-> None] /\ pending = {} /\ deadline = [g \in Groups |-> 0]
    /\ open = {} /\ stream = [g \in Groups |-> {}] /\ events = <<>>
    /\ tx = [a \in Actors |-> None] /\ view = NoView
    /\ claimed = [q \in Questions |-> None]
    /\ budget \in Scenarios

Spend(b) == budget[b] > 0 /\ budget' = [budget EXCEPT ![b] = @ - 1]
Goto(q, at) == waiter' = [waiter EXCEPT ![q] = at]
Emit(type, q) == events' = Append(events, [type |-> type, q |-> q])

Watched == {"status", "count"}

\* A plausible mistake: only the state key is watched.
MutantTouched(t, q, g) == t # None /\ t.at \in Watched /\ t.q = q

\* A transaction t that watches the state of q or the count of g is spoilt by a write to them.
Touched(t, q, g) == t # None /\ t.at \in Watched /\ (t.q = q \/ GroupOf[t.q] = g)

Spoil(q) == [a \in Actors |-> IF Touched(tx[a], q, GroupOf[q]) THEN [tx[a] EXCEPT !.dirty = TRUE] ELSE tx[a]]

----------------------------------------------------------------------------
(* Asking. *)

\* _OPEN_RESERVE_LUA: overdue members go, then the question is admitted below the cap.
OpenSlot(q) ==
    LET live == {o \in open : ~Past(o)} IN
    IF budget.limit # None /\ Cardinality(live) >= budget.limit
    THEN Goto(q, "raised") /\ open' = live
    ELSE Goto(q, "reserved") /\ open' = IF budget.limit = None THEN open ELSE live \cup {q}

Ask(q) ==
    /\ q \in budget.asked /\ waiter[q] = "new" /\ ~Past(q)
    /\ OpenSlot(q)
    /\ UNCHANGED <<now, state, ticket, reply, count, pending, deadline, stream, events, tx, view, claimed, budget>>

\* _PENDING_PURGE_LUA: groups past their furthest deadline, the asking one aside.
Phantoms(q) == {g \in Groups \ {GroupOf[q]} : deadline[g] > 0 /\ deadline[g] <= now}

AddPurge(q) ==
    /\ waiter[q] = "reserved"
    /\ pending' = pending \ Phantoms(q)
    /\ deadline' = [g \in Groups |-> IF g \in Phantoms(q) THEN 0 ELSE deadline[g]]
    /\ Goto(q, "purged")
    /\ UNCHANGED <<now, state, ticket, reply, count, open, stream, events, tx, view, claimed, budget>>

\* ZADD ... GT.
Extended(g, t) == IF deadline[g] > t THEN deadline[g] ELSE t

\* The pipeline of add: everything about the question, at once.
AddWrite(q) ==
    LET g == GroupOf[q]
        kept == {o \in open : ~Past(o)}
    IN
    /\ waiter[q] = "purged"
    /\ state' = [state EXCEPT ![q] = "pending"]
    /\ stream' = [stream EXCEPT ![g] = @ \cup {q}]
    /\ count' = [count EXCEPT ![g] = IF @ = None THEN 1 ELSE @ + 1]
    /\ pending' = pending \cup {g}
    /\ deadline' = [deadline EXCEPT ![g] = Extended(g, Deadline[q])]
    /\ open' = IF budget.limit = None THEN kept \cup {q} ELSE kept
    /\ ticket' = IF q \in Ticketed THEN ticket \cup {q} ELSE ticket
    /\ Emit("add", q) /\ tx' = Spoil(q)
    /\ Goto(q, IF q \in budget.channelled THEN "deliver" ELSE "wait")
    /\ UNCHANGED <<now, reply, view, claimed, budget>>

\* The channel took the question, refused it or hung until the budget ended.
Deliver(q) ==
    /\ waiter[q] = "deliver"
    /\ Goto(q, "wait") \/ Goto(q, "prune:failed")
    /\ UNCHANGED <<now, storeVars, tx, view, claimed, budget>>

\* BLPOP returned the answer.
TakeReply(q) ==
    /\ waiter[q] \in Waiting /\ q \in reply
    /\ reply' = reply \ {q} /\ Goto(q, "answer")
    /\ UNCHANGED <<now, state, ticket, count, pending, deadline, open, stream, events, tx, view, claimed, budget>>

\* A plausible mistake: a budget below a second is truncated to 0, which BLPOP takes for no deadline.
MutantWaitTimesOut(q) ==
    /\ waiter[q] \in Waiting /\ q \notin reply /\ Past(q) /\ Deadline[q] > 1
    /\ Goto(q, "prune")
    /\ UNCHANGED <<now, storeVars, tx, view, claimed, budget>>

\* BLPOP returned nothing within the budget, which began no earlier than the question's.
WaitTimesOut(q) ==
    /\ waiter[q] \in Waiting /\ q \notin reply /\ Past(q)
    /\ Goto(q, "prune")
    /\ UNCHANGED <<now, storeVars, tx, view, claimed, budget>>

Cancel(q) ==
    /\ waiter[q] \in {"deliver"} \cup Waiting
    /\ Goto(q, "prune")
    /\ UNCHANGED <<now, storeVars, tx, view, claimed, budget>>

\* The process dies, or its blocking connection is presumed stalled: no cleanup runs.
Kill(q) ==
    /\ waiter[q] \in {"reserved", "purged"} \cup Blocked
    /\ Spend("kills")
    /\ Goto(q, "killed") /\ tx' = [tx EXCEPT ![q] = None]
    /\ UNCHANGED <<now, storeVars, view, claimed>>

----------------------------------------------------------------------------
(* The two status-gated transactions. *)

\* WATCH and the status read: nothing to do unless the question is pending.
Watch(a, kind, q) ==
    tx' = [tx EXCEPT ![a] = [kind |-> kind, q |-> q, dirty |-> FALSE, last |-> FALSE,
                             at |-> IF state[q] = "pending" THEN "status" ELSE "skip"]]

\* The count read: an absent count under a status that was pending is reported as a torn index.
ReadCount(a) ==
    LET c == count[GroupOf[tx[a].q]] IN
    /\ tx[a] # None /\ tx[a].at = "status"
    /\ tx' = [tx EXCEPT ![a].at = IF c = None THEN "torn" ELSE "count", ![a].last = c # None /\ c <= 1]
    /\ UNCHANGED <<now, waiter, storeVars, view, claimed, budget>>

Torn(a) == tx[a].at = "torn" /\ tx' = [tx EXCEPT ![a] = None]

\* Missing or answered: reset, False.
Skipped(a) == tx[a].at = "skip" /\ tx' = [tx EXCEPT ![a] = None]

\* What both transactions do to the group's count and, at zero, to its index entries.
Decrement(g, last) ==
    /\ count' = [count EXCEPT ![g] = IF last THEN None ELSE @ - 1]
    /\ pending' = IF last THEN pending \ {g} ELSE pending
    /\ deadline' = IF last THEN [deadline EXCEPT ![g] = 0] ELSE deadline

Commits(t) == t.at = "count" /\ ~t.dirty

\* record_answer's MULTI.
RecordExec(a, q, last) ==
    /\ state' = [state EXCEPT ![q] = "answered"] /\ claimed' = [claimed EXCEPT ![q] = a]
    /\ Decrement(GroupOf[q], last)
    /\ open' = open \ {q} /\ reply' = reply \cup {q}
    /\ Emit("answered", q) /\ UNCHANGED <<ticket, stream>>

\* prune_pending's MULTI.
PruneExec(q, last) ==
    /\ state' = [state EXCEPT ![q] = "none"]
    /\ Decrement(GroupOf[q], last)
    /\ open' = open \ {q} /\ Emit("removed", q)
    /\ UNCHANGED <<ticket, reply, stream, claimed>>

\* The EXEC of actor a: done, or WatchError and the reads again.
Exec(a) ==
    LET t == tx[a] IN
    /\ Commits(t)
    /\ IF t.kind = "record" THEN RecordExec(a, t.q, t.last) ELSE PruneExec(t.q, t.last)
    /\ tx' = [Spoil(t.q) EXCEPT ![a] = None]

Retry(a) ==
    /\ tx[a] # None /\ tx[a].at = "count" /\ tx[a].dirty /\ Watch(a, tx[a].kind, tx[a].q)
    /\ UNCHANGED <<now, waiter, storeVars, view, claimed, budget>>

(* The waiter's own cleanup, and what it makes of it: a failed delivery    *)
(* whose question turns out answered goes on to wait for the answer.       *)
PruneBegin(q) ==
    /\ waiter[q] \in Pruning /\ tx[q] = None /\ Watch(q, "prune", q)
    /\ UNCHANGED <<now, waiter, storeVars, view, claimed, budget>>

AfterPrune(q, pruned) == IF waiter[q] = "prune:failed" /\ ~pruned THEN "recorded" ELSE "raised"

PruneEnd(q) ==
    /\ waiter[q] \in Pruning /\ tx[q] # None
    /\ \/ Exec(q) /\ Goto(q, AfterPrune(q, TRUE))
       \/ Skipped(q) /\ Goto(q, AfterPrune(q, FALSE)) /\ UNCHANGED <<storeVars, claimed>>
       \/ Torn(q) /\ Goto(q, "raised") /\ UNCHANGED <<storeVars, claimed>>
    /\ UNCHANGED <<now, view, budget>>

(* A human at a door: what it read of the question, and the claim later.   *)
AtDoor(a, q, at) == tx' = [tx EXCEPT ![a] = [kind |-> "record", q |-> q, dirty |-> FALSE, last |-> FALSE, at |-> at]]

(* answer_interaction: closed to the external format, loud about a missing *)
(* or answered question.                                                   *)
HumanDoor(a, q) ==
    /\ a \in budget.humans /\ tx[a] = None
    /\ q \notin budget.external /\ state[q] = "pending"
    /\ AtDoor(a, q, "door")
    /\ UNCHANGED <<now, waiter, storeVars, view, claimed, budget>>

(* _callback_post: the ticket resolves,                                     *)
CallbackDoor(a, q) ==
    /\ a \in budget.humans /\ tx[a] = None /\ q \in ticket
    /\ AtDoor(a, q, "ticket")
    /\ UNCHANGED <<now, waiter, storeVars, view, claimed, budget>>

\* _verify_callback: the verifier of a bound question may deny, whatever became of the question.
Verdicts(q) == IF q \in budget.bound THEN BOOLEAN ELSE {TRUE}

(* the state is read and the caller verified: denied, missing and answered *)
(* end here.                                                               *)
CallbackState(a) ==
    /\ tx[a] # None /\ tx[a].at = "ticket"
    /\ \E verified \in Verdicts(tx[a].q) :
          tx' = [tx EXCEPT ![a] = IF verified /\ state[tx[a].q] = "pending" THEN [tx[a] EXCEPT !.at = "door"] ELSE None]
    /\ UNCHANGED <<now, waiter, storeVars, view, claimed, budget>>

(* Both doors claim with the same transaction, whatever happened since.    *)
ClaimBegin(a) ==
    /\ tx[a] # None /\ tx[a].at = "door" /\ Watch(a, "record", tx[a].q)
    /\ UNCHANGED <<now, waiter, storeVars, view, claimed, budget>>

\* A plausible mistake: an answer that finds the question answered is written over the first one.
MutantAnswerEnd(a) ==
    /\ tx[a] # None
    /\ \/ Exec(a)
       \/ Skipped(a) /\ claimed' = [claimed EXCEPT ![tx[a].q] = a] /\ UNCHANGED storeVars
       \/ Torn(a) /\ UNCHANGED <<storeVars, claimed>>
    /\ UNCHANGED <<now, waiter, view, budget>>

AnswerEnd(a) ==
    /\ tx[a] # None
    /\ \/ Exec(a)
       \/ (Skipped(a) \/ Torn(a)) /\ UNCHANGED <<storeVars, claimed>>
    /\ UNCHANGED <<now, waiter, view, budget>>

----------------------------------------------------------------------------
(* The inbox stream: the backlog, then the live tail. *)

\* The events cursor is taken before the backlog is read.
Connect ==
    /\ view.at = "off" /\ Spend("connects")
    /\ view' = [NoView EXCEPT !.at = "cursor", !.cursor = Len(events)]
    /\ UNCHANGED <<now, waiter, storeVars, tx, claimed>>

BacklogBegin ==
    /\ view.at = "cursor"
    /\ view' = [view EXCEPT !.at = "groups", !.groups = pending, !.since = now]
    /\ UNCHANGED <<now, waiter, storeVars, tx, claimed, budget>>

\* The stream of the next group: gone, or its questions' states are read next.
BacklogGroup(g) ==
    /\ view.at = "groups" /\ g \in view.groups
    /\ view' = [view EXCEPT !.groups = @ \ {g}, !.group = g, !.entries = stream[g],
                            !.at = IF stream[g] = {} THEN "phantom" ELSE "states"]
    /\ UNCHANGED <<now, waiter, storeVars, tx, claimed, budget>>

\* A group whose stream was gone when it was read leaves both indexes.
BacklogPhantom ==
    /\ view.at = "phantom"
    /\ pending' = pending \ {view.group} /\ deadline' = [deadline EXCEPT ![view.group] = 0]
    /\ view' = [view EXCEPT !.at = "groups", !.group = None, !.entries = {}]
    /\ UNCHANGED <<now, waiter, state, ticket, reply, count, open, stream, events, tx, claimed, budget>>

\* One pipeline reads the group's states; overdue pending questions are pruned one by one.
BacklogStates ==
    LET seen == PendingIn(view.group) \cap view.entries
        late == {q \in seen : Deadline[q] <= view.since}
    IN
    /\ view.at = "states"
    /\ view' = [view EXCEPT !.shown = @ \cup (seen \ late), !.late = late, !.at = "prune"]
    /\ UNCHANGED <<now, waiter, storeVars, tx, claimed, budget>>

BacklogPrune(q) ==
    /\ view.at = "prune" /\ q \in view.late /\ tx["inbox"] = None
    /\ Watch("inbox", "prune", q)
    /\ view' = [view EXCEPT !.late = @ \ {q}]
    /\ UNCHANGED <<now, waiter, storeVars, claimed, budget>>

BacklogPruned ==
    /\ tx["inbox"] # None
    /\ \/ Exec("inbox") /\ UNCHANGED view
       \/ Skipped("inbox") /\ UNCHANGED <<storeVars, claimed, view>>
       \/ Torn("inbox") /\ view' = NoView /\ UNCHANGED <<storeVars, claimed>>
    /\ UNCHANGED <<now, waiter, budget>>

BacklogNext ==
    /\ view.at = "prune" /\ view.late = {} /\ tx["inbox"] = None
    /\ view' = [view EXCEPT !.at = "groups", !.group = None, !.entries = {}]
    /\ UNCHANGED <<now, waiter, storeVars, tx, claimed, budget>>

BacklogDone ==
    /\ view.at = "groups" /\ view.groups = {}
    /\ view' = [view EXCEPT !.at = "tail"]
    /\ UNCHANGED <<now, waiter, storeVars, tx, claimed, budget>>

\* An add is shown while its state still exists; a terminal event takes the question off.
Shows(e) == e.type = "add" /\ state[e.q] # "none"

TailEvent ==
    LET e == events[view.cursor + 1] IN
    /\ view.at = "tail" /\ view.cursor < Len(events)
    /\ view' = [view EXCEPT !.cursor = @ + 1,
                            !.shown = IF Shows(e) THEN @ \cup {e.q}
                                      ELSE IF e.type = "add" THEN @ ELSE @ \ {e.q}]
    /\ UNCHANGED <<now, waiter, storeVars, tx, claimed, budget>>

Disconnect ==
    /\ view.at = "tail" /\ budget.connects > 0
    /\ view' = NoView
    /\ UNCHANGED <<now, waiter, storeVars, tx, claimed, budget>>

----------------------------------------------------------------------------
(* Time and expiring keys (Redis, external). *)

Tick ==
    /\ now < MaxNow /\ now' = now + 1
    /\ UNCHANGED <<waiter, storeVars, tx, view, claimed, budget>>

\* The ticket lives at least as long as the budget.
TicketExpires(q) ==
    /\ q \in ticket /\ Past(q)
    /\ ticket' = ticket \ {q}
    /\ UNCHANGED <<now, waiter, state, reply, count, pending, deadline, open, stream, events, tx, view, claimed, budget>>

\* The reply list lives for what was left of the budget.
ReplyExpires(q) ==
    /\ q \in reply /\ Past(q)
    /\ reply' = reply \ {q}
    /\ UNCHANGED <<now, waiter, state, ticket, count, pending, deadline, open, stream, events, tx, view, claimed, budget>>

\* A group nobody asked in for the idle TTL: its stream, states and count go together.
GroupExpires(g) ==
    /\ stream[g] # {} /\ \A q \in stream[g] : Past(q) /\ waiter[q] \in Ended
    /\ Spend("expiries")
    /\ stream' = [stream EXCEPT ![g] = {}] /\ count' = [count EXCEPT ![g] = None]
    /\ state' = [q \in Questions |-> IF GroupOf[q] = g THEN "none" ELSE state[q]]
    /\ tx' = [a \in Actors |-> IF tx[a] # None /\ tx[a].at \in Watched /\ GroupOf[tx[a].q] = g
                               THEN [tx[a] EXCEPT !.dirty = TRUE] ELSE tx[a]]
    /\ UNCHANGED <<now, waiter, ticket, reply, pending, deadline, open, events, view, claimed>>

AskStep(q) ==
    \/ Ask(q) \/ AddPurge(q) \/ AddWrite(q) \/ Deliver(q) \/ TakeReply(q) \/ WaitTimesOut(q)
    \/ PruneBegin(q) \/ ReadCount(q) \/ PruneEnd(q) \/ Retry(q)

InboxStep ==
    \/ Connect \/ BacklogBegin \/ (\E g \in Groups : BacklogGroup(g)) \/ BacklogPhantom \/ BacklogStates
    \/ (\E q \in Questions : BacklogPrune(q)) \/ BacklogPruned \/ BacklogNext \/ BacklogDone
    \/ TailEvent \/ Disconnect \/ ReadCount("inbox") \/ Retry("inbox")

Next ==
    \/ \E q \in Questions : AskStep(q) \/ Cancel(q) \/ Kill(q) \/ TicketExpires(q) \/ ReplyExpires(q)
    \/ \E a \in Answerers : (\E q \in Questions : HumanDoor(a, q) \/ CallbackDoor(a, q)) \/ CallbackState(a) \/ ClaimBegin(a) \/ ReadCount(a) \/ AnswerEnd(a) \/ Retry(a)
    \/ InboxStep \/ Tick
    \/ \E g \in Groups : GroupExpires(g)

Spec == Init /\ [][Next]_vars

(* A waiter's task runs, its blocking call returns once the budget is      *)
(* over, and the clock moves.                                              *)
FairSpec ==
    /\ Spec /\ WF_vars(Tick)
    /\ \A q \in Questions : WF_vars(AskStep(q))

----------------------------------------------------------------------------
(* What the store and its users guarantee. *)

\* A group's count is the number of its pending questions: no transaction meets a torn index.
CountExact ==
    \A g \in Groups :
        count[g] = IF PendingIn(g) = {} THEN None ELSE Cardinality(PendingIn(g))

\* A group with a question that can still be answered in time is in the pending index, and the
\* purge of another ask cannot take it out before that question's deadline.
LiveGroupIndexed ==
    \A q \in Questions : state[q] = "pending" /\ ~Past(q) =>
        GroupOf[q] \in pending /\ deadline[GroupOf[q]] >= Deadline[q]

\* No more questions are open before their deadline than max_concurrent allows, counted in the
\* states and not in the index that the cap is enforced on.
CapHolds ==
    budget.limit # None => Cardinality({q \in Questions : state[q] = "pending" /\ ~Past(q)}) <= budget.limit

\* Once the tail has caught up the client sees every question that can still be answered in time
\* and none that was answered or taken back; one whose keys expired stays until the client reconnects.
InboxExact ==
    view.at = "tail" /\ view.cursor = Len(events) =>
        /\ \A q \in Questions : state[q] = "pending" /\ ~Past(q) => q \in view.shown
        /\ \A q \in view.shown : state[q] = "pending" \/ (Past(q) /\ q \notin stream[GroupOf[q]])

\* An answer is recorded once and stands until its keys expire, whatever comes in late.
AnsweredOnce ==
    [][\A q \in Questions : claimed[q] # None => claimed'[q] = claimed[q] /\ state'[q] # "pending"]_vars

\* Every ask that is not killed ends, with an answer or loudly without one.
EveryAskEnds == \A q \in Questions : []<>(waiter[q] \notin Blocked)

\* The keys agree with the questions they stand for: counts, indexes and the cap.
KeysConsistent == TypeOK /\ CountExact /\ LiveGroupIndexed /\ CapHolds

\* The questions' keys agree with each other, and an open inbox with them.
AsksAccounted == KeysConsistent /\ InboxExact
=============================================================================

------------------------- MODULE InteractionsProofs -------------------------
(***************************************************************************)
(* What the store of questions keeps for any number of questions, groups,  *)
(* humans and scenarios.  The counts are exact because a transaction that  *)
(* commits read the status and the count as they still are (TxCurrent).    *)
(* The inbox is exact because of the order of events: a question's add     *)
(* comes once, its terminal event after it (Told), and whatever the        *)
(* backlog did not read is announced after the cursor (NoneMissed).        *)
(*                                                                         *)
(* And what the access-control stores keep for any users, roles, routes    *)
(* and workers: a mint is in one place at most and nowhere once retired    *)
(* (Mints); a claim token in hand is burned and in one hand (ClaimsHeld);  *)
(* a cache slot of the version of now is not older than what has settled   *)
(* (CacheFresh), nor one that a request may still read older than what had *)
(* settled when it began (RequestFresh).                                   *)
(***************************************************************************)
EXTENDS Interactions, AccessControl, FiniteSetTheorems, SequenceTheorems, TLAPS

Unasked == {"new", "reserved", "purged"}
Pendings == {q \in Questions : state[q] = "pending"}
EventSet == [type : {"add", "answered", "removed"}, q : Questions]
Views == [at : {"off", "cursor", "groups", "phantom", "states", "prune", "tail"}, cursor : Nat,
          groups : SUBSET Groups, group : Groups \cup {None}, entries : SUBSET Questions,
          late : SUBSET Questions, shown : SUBSET Questions, since : Nat]

Types ==
    /\ now \in Nat /\ now <= MaxNow
    /\ waiter \in [Questions -> Unasked \cup Blocked \cup Ended]
    /\ state \in [Questions -> {"none", "pending", "answered"}]
    /\ ticket \in SUBSET Questions /\ reply \in SUBSET Questions /\ open \in SUBSET Questions
    /\ count \in [Groups -> Nat \cup {None}] /\ pending \in SUBSET Groups
    /\ deadline \in [Groups -> 0..MaxNow] /\ stream \in [Groups -> SUBSET Questions]
    /\ events \in Seq(EventSet)
    /\ tx \in [Actors -> Transactions \cup {None}]
    /\ view \in Views /\ view.cursor <= Len(events) /\ view.since <= now
    /\ claimed \in [Questions -> Answerers \cup {None}]
    /\ budget \in Scenario

\* A question nobody asked yet has left no trace; an answered one is not asked again.
Asked ==
    /\ \A q \in Questions : waiter[q] \in Unasked =>
          /\ state[q] = "none" /\ claimed[q] = None
          /\ \A i \in 1..Len(events) : events[i].q # q
          /\ q \notin view.shown
    /\ \A q \in Questions : claimed[q] # None => state[q] # "pending"

Counted == IsFiniteSet(Pendings) /\ CountExact

\* A transaction that would commit read what is still so; only the doors record.
TxCurrent ==
    \A a \in Actors : tx[a] # None =>
        /\ tx[a].kind = "record" => a \in Answerers
        /\ (tx[a].at \in Watched /\ ~tx[a].dirty) => state[tx[a].q] = "pending"
        /\ (tx[a].at = "count" /\ ~tx[a].dirty) => (tx[a].last <=> count[GroupOf[tx[a].q]] <= 1)

\* The index the cap is enforced on holds what the cap is about.
LiveOpen == {o \in open : ~Past(o)}
Opened ==
    budget.limit # None =>
        /\ IsFiniteSet(open) /\ Cardinality(LiveOpen) <= budget.limit
        /\ \A q \in Questions : ~Past(q) /\ (state[q] = "pending" \/ waiter[q] \in {"reserved", "purged"}) => q \in open

Streamed == \A q \in Questions : state[q] # "none" => q \in stream[GroupOf[q]]

\* The order of a question's events.
IsAdd(i, q) == events[i].type = "add" /\ events[i].q = q
IsEnd(i, q) == events[i].type # "add" /\ events[i].q = q
Told ==
    /\ \A q \in Questions : \A i, j \in 1..Len(events) : IsAdd(i, q) /\ IsAdd(j, q) => i = j
    /\ \A q \in Questions : \A i \in 1..Len(events) : IsEnd(i, q) =>
          state[q] # "pending" /\ \E j \in 1..Len(events) : j < i /\ IsAdd(j, q)
    /\ \A q \in Questions : state[q] = "pending" => \E i \in 1..Len(events) : IsAdd(i, q)
    /\ \A q \in Questions : state[q] = "answered" => \E i \in 1..Len(events) : IsEnd(i, q)

\* What a client is shown is pending, about to be taken off, or its keys expired.
EndAhead(q) == \E i \in 1..Len(events) : i > view.cursor /\ IsEnd(i, q)
Gone(q) == Past(q) /\ q \notin stream[GroupOf[q]]
ShownRight == \A q \in view.shown : state[q] = "pending" \/ EndAhead(q) \/ Gone(q)

\* The inductive invariant of the store.
AskInv == Types /\ Asked /\ Counted /\ TxCurrent /\ Opened /\ Streamed /\ Told /\ ShownRight

\* No group both loses its keys and is looked at by an inbox: the backlog meets no phantom.
NoPhantom ==
    \/ view.at = "off" /\ budget.connects = 0
    \/ /\ budget.expiries = 0 /\ view.at # "phantom"
       /\ \A g \in pending \cup view.groups : stream[g] # {}

\* What can still be answered in time is shown, announced after the cursor or still to be read.
AddAhead(q) == \E i \in 1..Len(events) : i > view.cursor /\ IsAdd(i, q)
ToRead(q) == GroupOf[q] \in view.groups \/ (view.at = "states" /\ view.group = GroupOf[q] /\ q \in view.entries)
NoneMissed ==
    \A q \in Questions :
        (state[q] = "pending" /\ ~Past(q) /\ view.at \notin {"off", "cursor"})
            => (q \in view.shown \/ AddAhead(q) \/ ToRead(q))

\* A tail has no group left to read.
TailRead == view.at = "tail" => view.groups = {}

InboxInv == NoPhantom /\ LiveGroupIndexed /\ NoneMissed /\ TailRead

----------------------------------------------------------------------------
(* The frame: what an action that leaves a part of the state alone keeps. *)

LEMMA AskTypes ==
    ASSUME AskInv
    PROVE  /\ now \in Nat /\ now <= MaxNow /\ MaxNow \in Nat
           /\ waiter \in [Questions -> Unasked \cup Blocked \cup Ended]
           /\ state \in [Questions -> {"none", "pending", "answered"}]
           /\ ticket \in SUBSET Questions /\ reply \in SUBSET Questions /\ open \in SUBSET Questions
           /\ count \in [Groups -> Nat \cup {None}] /\ pending \in SUBSET Groups
           /\ deadline \in [Groups -> 0..MaxNow] /\ stream \in [Groups -> SUBSET Questions]
           /\ events \in Seq(EventSet)
           /\ tx \in [Actors -> Transactions \cup {None}]
           /\ view \in Views /\ view.cursor <= Len(events) /\ view.since <= now
           /\ claimed \in [Questions -> Answerers \cup {None}]
           /\ budget \in Scenario
           /\ GroupOf \in [Questions -> Groups] /\ Deadline \in [Questions -> 1..MaxNow]
           /\ None \notin Questions /\ None \notin Answerers /\ None \notin Groups
           /\ None \notin Nat /\ None \notin Transactions
BY InteractionConstants DEF AskInv, Types

LEMMA ViewTypes ==
    ASSUME AskInv
    PROVE  /\ view.at \in {"off", "cursor", "groups", "phantom", "states", "prune", "tail"}
           /\ view.cursor \in Nat /\ view.groups \in SUBSET Groups /\ view.group \in Groups \cup {None}
           /\ view.entries \in SUBSET Questions /\ view.late \in SUBSET Questions
           /\ view.shown \in SUBSET Questions /\ view.since \in Nat
BY AskTypes DEF Views

LEMMA BudgetTypes ==
    ASSUME AskInv
    PROVE  /\ budget.limit \in (Nat \ {0}) \cup {None}
           /\ budget.kills \in Nat /\ budget.expiries \in Nat /\ budget.connects \in Nat
BY AskTypes DEF Scenario

LEMMA TxTypes ==
    ASSUME AskInv, NEW a \in Actors, tx[a] # None
    PROVE  /\ tx[a] \in Transactions /\ tx[a].kind \in {"record", "prune"} /\ tx[a].q \in Questions
           /\ tx[a].dirty \in BOOLEAN /\ tx[a].last \in BOOLEAN
           /\ tx[a].at \in {"ticket", "door", "status", "count", "skip", "torn"}
           /\ GroupOf[tx[a].q] \in Groups
<1>1. tx[a] \in Transactions
  BY AskTypes
<1> QED BY <1>1, AskTypes DEF Transactions

LEMMA ActorSet == \A q \in Questions : q \in Actors
BY DEF Actors

\* A transaction that was read is current as long as what it watches stays.
LEMMA TxSame ==
    ASSUME AskInv, UNCHANGED <<state, count>>,
           tx' \in [Actors -> Transactions \cup {None}],
           \A a \in Actors : tx'[a] \in {tx[a], None}
    PROVE  TxCurrent'
<1> SUFFICES ASSUME NEW a \in Actors, tx'[a] # None
             PROVE  /\ tx'[a].kind = "record" => a \in Answerers
                    /\ (tx'[a].at \in Watched /\ ~tx'[a].dirty) => state'[tx'[a].q] = "pending"
                    /\ (tx'[a].at = "count" /\ ~tx'[a].dirty) => (tx'[a].last <=> count'[GroupOf[tx'[a].q]] <= 1)
  BY DEF TxCurrent, Watched
<1>1. tx'[a] = tx[a]
  OBVIOUS
<1> QED BY <1>1 DEF AskInv, TxCurrent

LEMMA TxDropped ==
    ASSUME AskInv, NEW a \in Actors, tx' = [tx EXCEPT ![a] = None], UNCHANGED <<state, count>>
    PROVE  tx' \in [Actors -> Transactions \cup {None}] /\ TxCurrent'
<1>1. tx' \in [Actors -> Transactions \cup {None}] /\ \A b \in Actors : tx'[b] \in {tx[b], None}
  BY AskTypes
<1> QED BY <1>1, TxSame

\* One actor's transaction moves on.
LEMMA TxMoved ==
    ASSUME AskInv, NEW a \in Actors, NEW t \in Transactions, tx' = [tx EXCEPT ![a] = t], UNCHANGED <<state, count>>,
           t.kind = "record" => a \in Answerers,
           (t.at \in Watched /\ ~t.dirty) => state[t.q] = "pending",
           (t.at = "count" /\ ~t.dirty) => (t.last <=> count[GroupOf[t.q]] <= 1)
    PROVE  tx' \in [Actors -> Transactions \cup {None}] /\ TxCurrent'
<1>1. tx' \in [Actors -> Transactions \cup {None}] /\ tx'[a] = t /\ \A b \in Actors : b # a => tx'[b] = tx[b]
  BY AskTypes
<1> SUFFICES ASSUME NEW b \in Actors, tx'[b] # None
             PROVE  /\ tx'[b].kind = "record" => b \in Answerers
                    /\ (tx'[b].at \in Watched /\ ~tx'[b].dirty) => state'[tx'[b].q] = "pending"
                    /\ (tx'[b].at = "count" /\ ~tx'[b].dirty) => (tx'[b].last <=> count'[GroupOf[tx'[b].q]] <= 1)
  BY <1>1 DEF TxCurrent, Watched
<1>2. CASE b = a
  BY <1>1, <1>2
<1>3. CASE b # a
  BY <1>1, <1>3 DEF AskInv, TxCurrent
<1> QED BY <1>2, <1>3

LEMMA WatchTx ==
    ASSUME AskInv, NEW a \in Actors, NEW kind \in {"record", "prune"}, NEW q \in Questions,
           Watch(a, kind, q), kind = "record" => a \in Answerers, UNCHANGED <<state, count>>
    PROVE  tx' \in [Actors -> Transactions \cup {None}] /\ TxCurrent'
<1> DEFINE t == [kind |-> kind, q |-> q, dirty |-> FALSE, last |-> FALSE,
                 at |-> IF state[q] = "pending" THEN "status" ELSE "skip"]
<1>1. /\ t \in Transactions /\ t.kind = kind /\ t.q = q /\ t.at \in {"status", "skip"}
      /\ t.at = "status" => state[q] = "pending"
  BY DEF Transactions
<1>2. tx' = [tx EXCEPT ![a] = t]
  BY DEF Watch
<1> HIDE DEF t
<1> QED BY <1>1, <1>2, TxMoved DEF Watched

LEMMA DoorTx ==
    ASSUME AskInv, NEW a \in Answerers, NEW q \in Questions, NEW at \in {"door", "ticket"},
           AtDoor(a, q, at), UNCHANGED <<state, count>>
    PROVE  tx' \in [Actors -> Transactions \cup {None}] /\ TxCurrent'
<1> DEFINE t == [kind |-> "record", q |-> q, dirty |-> FALSE, last |-> FALSE, at |-> at]
<1>1. t \in Transactions /\ t.kind = "record" /\ t.q = q /\ t.at \notin Watched /\ t.at # "count" /\ a \in Actors
  BY DEF Transactions, Watched, Actors
<1>2. tx' = [tx EXCEPT ![a] = t]
  BY DEF AtDoor
<1> HIDE DEF t
<1> QED BY <1>1, <1>2, TxMoved

LEMMA ReadCountTx ==
    ASSUME AskInv, NEW a \in Actors, ReadCount(a)
    PROVE  tx' \in [Actors -> Transactions \cup {None}] /\ TxCurrent'
<1> DEFINE c == count[GroupOf[tx[a].q]]
           x == IF c = None THEN "torn" ELSE "count"
           l == c # None /\ c <= 1
           t == [tx[a] EXCEPT !.at = x, !.last = l]
<1>1. /\ tx[a] \in Transactions /\ tx[a].q \in Questions /\ tx[a].at = "status" /\ tx[a].dirty \in BOOLEAN
      /\ tx[a].kind \in {"record", "prune"} /\ UNCHANGED <<state, count>>
  BY TxTypes DEF ReadCount, storeVars
<1>2. tx' = [tx EXCEPT ![a] = t]
  BY <1>1, AskTypes DEF ReadCount
<1>3. l \in BOOLEAN /\ x \in {"torn", "count"} /\ (x = "count" => (l <=> c <= 1))
  <2>1. (c # None /\ c <= 1) \in BOOLEAN
    OBVIOUS
  <2> QED BY <2>1
<1> HIDE DEF l, x, c
<1>4. t \in Transactions /\ t.q = tx[a].q /\ t.kind = tx[a].kind /\ t.dirty = tx[a].dirty /\ t.at = x /\ t.last = l
  BY <1>1, <1>3 DEF Transactions
<1>5. tx[a] # None
  BY DEF ReadCount
<1>6. /\ t.kind = "record" => a \in Answerers
      /\ (t.at \in Watched /\ ~t.dirty) => state[t.q] = "pending"
  BY <1>1, <1>4, <1>5 DEF AskInv, TxCurrent, Watched
<1>7. (t.at = "count" /\ ~t.dirty) => (t.last <=> count[GroupOf[t.q]] <= 1)
  BY <1>3, <1>4 DEF c
<1> HIDE DEF t
<1> QED BY <1>1, <1>2, <1>4, <1>6, <1>7, TxMoved

\* Time passes and keys go: what was overdue stays overdue.
LEMMA PastKept ==
    ASSUME AskInv, now' \in Nat, now <= now'
    PROVE  /\ \A q \in Questions : Past(q) => Past(q)'
           /\ \A q \in Questions : ~(Past(q)') => ~Past(q)
BY AskTypes DEF Past

LEMMA CountedKept == ASSUME AskInv, UNCHANGED <<state, count>> PROVE Counted'
BY DEF AskInv, Counted, CountExact, PendingIn, Pendings

LEMMA ToldKept == ASSUME AskInv, UNCHANGED <<state, events>> PROVE Told'
BY DEF AskInv, Told, IsAdd, IsEnd

LEMMA StreamedKept == ASSUME AskInv, UNCHANGED <<state, stream>> PROVE Streamed'
BY DEF AskInv, Streamed

LEMMA OpenedKept ==
    ASSUME AskInv, open' \in SUBSET open, budget'.limit = budget.limit, now' \in Nat, now <= now',
           \A q \in Questions : q \in open \ open' => Past(q) \/ (state'[q] # "pending" /\ waiter'[q] \notin {"reserved", "purged"}),
           \A q \in Questions : state'[q] = "pending" => state[q] = "pending",
           \A q \in Questions : waiter'[q] \in {"reserved", "purged"} => waiter[q] \in {"reserved", "purged"}
    PROVE  Opened'
<1> SUFFICES ASSUME budget.limit # None PROVE Opened'
  BY DEF Opened
<1>1. IsFiniteSet(open) /\ Cardinality(LiveOpen) <= budget.limit /\ budget.limit \in Nat
  BY BudgetTypes DEF AskInv, Opened
<1>2. LiveOpen' \subseteq LiveOpen /\ LiveOpen \subseteq open
  BY PastKept, AskTypes DEF LiveOpen
<1>3. IsFiniteSet(LiveOpen) /\ Cardinality(LiveOpen') <= Cardinality(LiveOpen) /\ IsFiniteSet(LiveOpen') /\ IsFiniteSet(open')
  BY <1>1, <1>2, FS_Subset
<1>4. Cardinality(LiveOpen') \in Nat /\ Cardinality(LiveOpen) \in Nat
  BY <1>3, FS_CardinalityType
<1>5. Cardinality(LiveOpen') <= budget'.limit
  BY <1>1, <1>3, <1>4
<1>6. ASSUME NEW q \in Questions, ~(Past(q)'), state'[q] = "pending" \/ waiter'[q] \in {"reserved", "purged"}
      PROVE  q \in open'
  <2>1. ~Past(q) /\ q \in open
    BY <1>6, PastKept DEF AskInv, Opened
  <2> QED BY <1>6, <2>1
<1> QED BY <1>3, <1>5, <1>6 DEF Opened

LEMMA AskedKept ==
    ASSUME AskInv, UNCHANGED <<state, events, claimed>>,
           \A q \in Questions : waiter'[q] \in Unasked => waiter[q] \in Unasked,
           \A q \in view'.shown : q \in view.shown \/ waiter[q] \notin Unasked
    PROVE  Asked'
<1> SUFFICES ASSUME NEW q \in Questions, waiter'[q] \in Unasked
             PROVE  /\ state[q] = "none" /\ claimed[q] = None
                    /\ \A i \in 1..Len(events) : events[i].q # q
                    /\ q \notin view'.shown
  BY DEF AskInv, Asked
<1>1. waiter[q] \in Unasked
  OBVIOUS
<1> QED BY <1>1 DEF AskInv, Asked

LEMMA ShownKept ==
    ASSUME AskInv, UNCHANGED <<state, events, stream>>, now' \in Nat, now <= now',
           view'.cursor = view.cursor, view'.shown \subseteq view.shown
    PROVE  ShownRight'
<1> SUFFICES ASSUME NEW q \in view'.shown PROVE state[q] = "pending" \/ EndAhead(q)' \/ Gone(q)'
  BY DEF ShownRight
<1>1. q \in Questions /\ (state[q] = "pending" \/ EndAhead(q) \/ Gone(q))
  BY ViewTypes DEF AskInv, ShownRight
<1>2. EndAhead(q) => EndAhead(q)'
  BY DEF EndAhead, IsEnd
<1>3. Gone(q) => Gone(q)'
  BY <1>1, PastKept DEF Gone
<1> QED BY <1>1, <1>2, <1>3

\* The common case: the store is read or its readers move, and no question is asked.
LEMMA StoreKept ==
    ASSUME AskInv, Types', TxCurrent', UNCHANGED <<state, count, open, stream, events, claimed>>,
           budget'.limit = budget.limit, now <= now',
           \A q \in Questions : waiter'[q] \in Unasked => waiter[q] \in Unasked,
           \A q \in Questions : waiter'[q] \in {"reserved", "purged"} => waiter[q] \in {"reserved", "purged"},
           \/ view'.cursor = view.cursor /\ view'.shown \subseteq view.shown
           \/ ShownRight' /\ \A q \in view'.shown : q \in view.shown \/ waiter[q] \notin Unasked
    PROVE  AskInv'
<1>1. now' \in Nat
  BY DEF Types
<1>2. Counted' /\ Told' /\ Streamed' /\ Opened'
  <2>1. open' \in SUBSET open
    OBVIOUS
  <2> QED BY <1>1, <2>1, CountedKept, ToldKept, StreamedKept, OpenedKept
<1>3. Asked' /\ ShownRight'
  BY <1>1, AskedKept, ShownKept
<1> QED BY <1>2, <1>3 DEF AskInv

----------------------------------------------------------------------------
(* The waiters, the doors and the inbox, as far as they only read.  *)

LEMMA WaiterStepInv ==
    ASSUME AskInv, NEW q \in Questions, Deliver(q) \/ TakeReply(q) \/ WaitTimesOut(q) \/ Cancel(q)
    PROVE  AskInv'
<1>1. /\ waiter' \in [Questions -> Unasked \cup Blocked \cup Ended]
      /\ waiter'[q] \notin Unasked /\ \A x \in Questions : x # q => waiter'[x] = waiter[x]
  <2>1. PICK at \in {"wait", "prune:failed", "answer", "prune"} : waiter' = [waiter EXCEPT ![q] = at]
    BY DEF Deliver, TakeReply, WaitTimesOut, Cancel, Goto
  <2>2. at \in (Blocked \cup Ended) /\ at \notin Unasked
    BY DEF Blocked, Waiting, Pruning, Ended, Unasked
  <2> QED BY <2>1, <2>2, AskTypes
<1>2. reply' \in SUBSET Questions
  BY AskTypes DEF Deliver, TakeReply, WaitTimesOut, Cancel, storeVars
<1>3. UNCHANGED <<now, state, ticket, count, pending, deadline, open, stream, events, tx, view, claimed, budget>>
  BY DEF Deliver, TakeReply, WaitTimesOut, Cancel, storeVars
<1>4. Types'
  BY <1>1, <1>2, <1>3, AskTypes DEF Types
<1>5. TxCurrent'
  BY <1>3, AskTypes, TxSame
<1>6. \A x \in Questions : waiter'[x] \in Unasked => waiter[x] = waiter'[x]
  BY <1>1
<1> QED BY <1>3, <1>4, <1>5, <1>6, AskTypes, StoreKept DEF Unasked

LEMMA KillInv ==
    ASSUME AskInv, NEW q \in Questions, Kill(q)
    PROVE  AskInv'
<1>1. /\ waiter' = [waiter EXCEPT ![q] = "killed"] /\ tx' = [tx EXCEPT ![q] = None]
      /\ UNCHANGED <<now, storeVars, view, claimed>> /\ budget.kills > 0
      /\ budget' = [budget EXCEPT !.kills = budget.kills - 1]
  BY DEF Kill, Goto, Spend
<1>2. budget' \in Scenario /\ budget'.limit = budget.limit
  <2>1. budget \in Scenario /\ budget.kills > 0 /\ budget' = [budget EXCEPT !.kills = budget.kills - 1]
    BY <1>1, AskTypes
  <2> QED BY <2>1 DEF Scenario
<1>3. /\ waiter' \in [Questions -> Unasked \cup Blocked \cup Ended]
      /\ \A x \in Questions : waiter'[x] \in Unasked => waiter[x] = waiter'[x]
  BY <1>1, AskTypes DEF Ended, Unasked
<1>4. tx' \in [Actors -> Transactions \cup {None}] /\ TxCurrent'
  BY <1>1, ActorSet, TxDropped DEF storeVars
<1>5. Types'
  BY <1>1, <1>2, <1>3, <1>4, AskTypes DEF Types, storeVars
<1> QED BY <1>1, <1>2, <1>3, <1>4, <1>5, AskTypes, StoreKept DEF Unasked, storeVars

\* A transaction reads, is begun again, or finds nothing to do.
LEMMA TxStepInv ==
    ASSUME AskInv, tx' \in [Actors -> Transactions \cup {None}], TxCurrent',
           waiter' \in [Questions -> Unasked \cup Blocked \cup Ended],
           \A q \in Questions : waiter'[q] \in Unasked => waiter'[q] = waiter[q],
           UNCHANGED <<now, storeVars, claimed, budget>>,
           view' \in Views, view'.cursor = view.cursor, view'.shown \subseteq view.shown, view'.since = view.since
    PROVE  AskInv'
<1>1. Types'
  BY AskTypes DEF Types, storeVars
<1> QED BY <1>1, AskTypes, StoreKept DEF Unasked, storeVars

LEMMA ReadInv ==
    ASSUME AskInv, NEW a \in Actors, ReadCount(a) \/ Retry(a)
    PROVE  AskInv'
<1>1. UNCHANGED <<now, waiter, storeVars, view, claimed, budget>>
  BY DEF ReadCount, Retry
<1>2. tx' \in [Actors -> Transactions \cup {None}] /\ TxCurrent'
  <2>1. CASE ReadCount(a)
    BY <2>1, ReadCountTx
  <2>2. CASE Retry(a)
    <3>1. /\ tx[a] # None /\ tx[a].kind \in {"record", "prune"} /\ tx[a].q \in Questions
          /\ Watch(a, tx[a].kind, tx[a].q)
      BY <2>2, TxTypes DEF Retry
    <3>2. tx[a].kind = "record" => a \in Answerers
      BY <3>1 DEF AskInv, TxCurrent
    <3> QED BY <1>1, <3>1, <3>2, WatchTx DEF storeVars
  <2> QED BY <2>1, <2>2
<1> QED BY <1>1, <1>2, AskTypes, TxStepInv

LEMMA PruneBeginInv ==
    ASSUME AskInv, NEW q \in Questions, PruneBegin(q)
    PROVE  AskInv'
<1>1. Watch(q, "prune", q) /\ UNCHANGED <<now, waiter, storeVars, view, claimed, budget>>
  BY DEF PruneBegin
<1>2. tx' \in [Actors -> Transactions \cup {None}] /\ TxCurrent'
  BY <1>1, ActorSet, WatchTx DEF storeVars
<1> QED BY <1>1, <1>2, AskTypes, TxStepInv

LEMMA DoorInv ==
    ASSUME AskInv, NEW a \in Answerers, NEW q \in Questions, HumanDoor(a, q) \/ CallbackDoor(a, q)
    PROVE  AskInv'
<1>1. \E at \in {"door", "ticket"} : AtDoor(a, q, at)
  BY DEF HumanDoor, CallbackDoor
<1>2. UNCHANGED <<now, waiter, storeVars, view, claimed, budget>>
  BY DEF HumanDoor, CallbackDoor
<1>3. tx' \in [Actors -> Transactions \cup {None}] /\ TxCurrent'
  BY <1>1, <1>2, DoorTx DEF storeVars
<1> QED BY <1>2, <1>3, AskTypes, TxStepInv

LEMMA CallbackStateInv ==
    ASSUME AskInv, NEW a \in Answerers, CallbackState(a)
    PROVE  AskInv'
<1>1. UNCHANGED <<now, waiter, storeVars, view, claimed, budget>> /\ a \in Actors /\ tx[a] # None
  BY DEF CallbackState, Actors
<1>2. tx' = [tx EXCEPT ![a] = [tx[a] EXCEPT !.at = "door"]] \/ tx' = [tx EXCEPT ![a] = None]
  BY DEF CallbackState
<1>3. CASE tx' = [tx EXCEPT ![a] = None]
  BY <1>1, <1>3, TxDropped, AskTypes, TxStepInv DEF storeVars
<1>4. CASE tx' = [tx EXCEPT ![a] = [tx[a] EXCEPT !.at = "door"]]
  <2>1. PICK t \in Transactions : t.at = "door" /\ t.kind = tx[a].kind /\ tx' = [tx EXCEPT ![a] = t]
    BY <1>1, <1>4, TxTypes DEF Transactions
  <2>2. t.kind = "record" => a \in Answerers
    BY <2>1
  <2>3. tx' \in [Actors -> Transactions \cup {None}] /\ TxCurrent'
    BY <1>1, <2>1, <2>2, TxMoved DEF storeVars, Watched
  <2> QED BY <1>1, <2>3, AskTypes, TxStepInv
<1> QED BY <1>2, <1>3, <1>4

LEMMA ClaimBeginInv ==
    ASSUME AskInv, NEW a \in Answerers, ClaimBegin(a)
    PROVE  AskInv'
<1>1. /\ a \in Actors /\ tx[a] # None /\ Watch(a, "record", tx[a].q)
      /\ UNCHANGED <<now, waiter, storeVars, view, claimed, budget>>
  BY DEF ClaimBegin, Actors
<1>2. tx' \in [Actors -> Transactions \cup {None}] /\ TxCurrent'
  BY <1>1, TxTypes, WatchTx DEF storeVars
<1> QED BY <1>1, <1>2, AskTypes, TxStepInv

\* The transaction ends without an EXEC.
LEMMA NothingDoneInv ==
    ASSUME AskInv, NEW a \in Actors, Skipped(a) \/ Torn(a), UNCHANGED <<now, storeVars, claimed, budget>>,
           waiter' \in [Questions -> Unasked \cup Blocked \cup Ended],
           \A q \in Questions : waiter'[q] \in Unasked => waiter'[q] = waiter[q],
           view' = view
    PROVE  AskInv'
<1>1. tx' = [tx EXCEPT ![a] = None]
  BY DEF Skipped, Torn
<1>2. tx' \in [Actors -> Transactions \cup {None}] /\ TxCurrent'
  BY <1>1, TxDropped DEF storeVars
<1> QED BY <1>2, AskTypes, TxStepInv

LEMMA TickInv == ASSUME AskInv, Tick PROVE AskInv'
<1>1. now' = now + 1 /\ now' <= MaxNow /\ UNCHANGED <<waiter, storeVars, tx, view, claimed, budget>>
  BY AskTypes DEF Tick
<1>2. now' \in Nat /\ view.since <= now'
  BY <1>1, AskTypes, ViewTypes
<1>3. Types'
  BY <1>1, <1>2, AskTypes DEF Types, storeVars
<1>4. TxCurrent'
  BY <1>1, AskTypes, TxSame DEF storeVars
<1> QED BY <1>1, <1>2, <1>3, <1>4, AskTypes, StoreKept DEF storeVars

LEMMA KeyExpiresInv ==
    ASSUME AskInv, NEW q \in Questions, TicketExpires(q) \/ ReplyExpires(q)
    PROVE  AskInv'
<1>1. UNCHANGED <<now, waiter, state, count, pending, deadline, open, stream, events, tx, view, claimed, budget>>
  BY DEF TicketExpires, ReplyExpires
<1>2. ticket' \in SUBSET Questions /\ reply' \in SUBSET Questions
  BY AskTypes DEF TicketExpires, ReplyExpires
<1>3. Types'
  BY <1>1, <1>2, AskTypes DEF Types
<1>4. TxCurrent'
  BY <1>1, AskTypes, TxSame
<1> QED BY <1>1, <1>3, <1>4, AskTypes, StoreKept

\* The inbox looks, and shows nothing yet.
LEMMA LookInv ==
    ASSUME AskInv, UNCHANGED <<now, waiter, storeVars, tx, claimed>>,
           budget' \in Scenario, budget'.limit = budget.limit,
           view' \in Views, view'.cursor <= Len(events), view'.since <= now,
           \/ view'.cursor = view.cursor /\ view'.shown \subseteq view.shown
           \/ ShownRight' /\ \A q \in view'.shown : q \in view.shown \/ waiter[q] \notin Unasked
    PROVE  AskInv'
<1>1. Types'
  BY AskTypes DEF Types, storeVars
<1>2. TxCurrent'
  BY AskTypes, TxSame DEF storeVars
<1> QED BY <1>1, <1>2, AskTypes, StoreKept DEF storeVars

LEMMA NoViewTypes == NoView \in Views /\ NoView.shown = {} /\ NoView.cursor = 0 /\ NoView.since = 0
                     /\ NoView.groups = {} /\ NoView.at = "off"
BY DEF NoView, Views

LEMMA ConnectInv ==
    ASSUME AskInv, Connect
    PROVE  /\ AskInv'
           /\ view' = [NoView EXCEPT !.at = "cursor", !.cursor = Len(events)] /\ view'.at = "cursor"
           /\ UNCHANGED <<now, waiter, storeVars, tx, claimed>>
           /\ budget.connects > 0 /\ budget'.expiries = budget.expiries
<1>1. /\ view' = [NoView EXCEPT !.at = "cursor", !.cursor = Len(events)]
      /\ UNCHANGED <<now, waiter, storeVars, tx, claimed>>
      /\ budget.connects > 0 /\ budget' = [budget EXCEPT !.connects = budget.connects - 1]
  BY DEF Connect, Spend
<1>2. budget' \in Scenario /\ budget'.limit = budget.limit /\ budget'.expiries = budget.expiries
  <2>1. budget \in Scenario /\ budget.connects > 0 /\ budget' = [budget EXCEPT !.connects = budget.connects - 1]
    BY <1>1, AskTypes
  <2> QED BY <2>1 DEF Scenario
<1>3. /\ view' \in Views /\ view'.shown = {} /\ view'.cursor = Len(events) /\ view'.since = 0 /\ view'.at = "cursor"
      /\ Len(events) \in Nat
  <2>1. Len(events) \in Nat
    BY AskTypes
  <2>2. NoView \in Views /\ NoView.shown = {} /\ NoView.since = 0
    BY NoViewTypes
  <2> QED BY <1>1, <2>1, <2>2 DEF Views
<1>4. ShownRight'
  BY <1>3 DEF ShownRight
<1> QED BY <1>1, <1>2, <1>3, <1>4, AskTypes, LookInv

\* The steps of the backlog that only move on.
LEMMA BacklogMoves ==
    ASSUME AskInv, BacklogBegin \/ (\E g \in Groups : BacklogGroup(g)) \/ BacklogNext \/ BacklogDone \/ Disconnect
    PROVE  /\ view' \in Views /\ view'.cursor <= Len(events) /\ view'.since <= now
           /\ view'.cursor = view.cursor \/ view'.shown = {}
           /\ view'.shown \in {view.shown, {}} /\ (view'.at # "off" => view'.shown = view.shown)
           /\ UNCHANGED <<now, waiter, storeVars, tx, claimed, budget>>
<1>1. CASE BacklogBegin
  <2>1. view \in Views /\ pending \in SUBSET Groups /\ now \in Nat
        /\ view' = [view EXCEPT !.at = "groups", !.groups = pending, !.since = now]
    BY <1>1, AskTypes DEF BacklogBegin
  <2>2. view' \in Views /\ view'.cursor = view.cursor /\ view'.since = now /\ view'.shown = view.shown
    BY <2>1 DEF Views
  <2> QED BY <1>1, <2>2, AskTypes DEF BacklogBegin
<1>2. ASSUME NEW g \in Groups, BacklogGroup(g)
      PROVE  view' \in Views /\ view'.cursor = view.cursor /\ view'.since = view.since /\ view'.shown = view.shown
             /\ UNCHANGED <<now, waiter, storeVars, tx, claimed, budget>>
  <2>1. PICK at \in {"phantom", "states"} :
          view' = [view EXCEPT !.groups = view.groups \ {g}, !.group = g, !.entries = stream[g], !.at = at]
    BY <1>2 DEF BacklogGroup
  <2>2. view \in Views /\ stream[g] \in SUBSET Questions
    BY AskTypes
  <2>3. view' \in Views /\ view'.cursor = view.cursor /\ view'.since = view.since /\ view'.shown = view.shown
    BY <2>1, <2>2 DEF Views
  <2> QED BY <1>2, <2>3 DEF BacklogGroup
<1>3. CASE BacklogNext
  <2>1. view \in Views /\ view' = [view EXCEPT !.at = "groups", !.group = None, !.entries = {}]
    BY <1>3, AskTypes DEF BacklogNext
  <2>2. view' \in Views /\ view'.cursor = view.cursor /\ view'.since = view.since /\ view'.shown = view.shown
    BY <2>1 DEF Views
  <2> QED BY <1>3, <2>2, AskTypes DEF BacklogNext
<1>4. CASE BacklogDone
  <2>1. view \in Views /\ view' = [view EXCEPT !.at = "tail"]
    BY <1>4, AskTypes DEF BacklogDone
  <2>2. view' \in Views /\ view'.cursor = view.cursor /\ view'.since = view.since /\ view'.shown = view.shown
    BY <2>1 DEF Views
  <2> QED BY <1>4, <2>2, AskTypes DEF BacklogDone
<1>5. CASE Disconnect
  BY <1>5, AskTypes, NoViewTypes DEF Disconnect
<1> QED BY <1>1, <1>2, <1>3, <1>4, <1>5, AskTypes

LEMMA BacklogMovesInv ==
    ASSUME AskInv, BacklogBegin \/ (\E g \in Groups : BacklogGroup(g)) \/ BacklogNext \/ BacklogDone \/ Disconnect
    PROVE  AskInv'
<1>1. /\ view' \in Views /\ view'.cursor <= Len(events) /\ view'.since <= now
      /\ view'.cursor = view.cursor \/ view'.shown = {}
      /\ view'.shown \in {view.shown, {}}
      /\ UNCHANGED <<now, waiter, storeVars, tx, claimed, budget>>
  BY BacklogMoves
<1>2. view'.shown = {} => ShownRight'
  BY DEF ShownRight
<1> QED BY <1>1, <1>2, AskTypes, LookInv

LEMMA BacklogPhantomInv ==
    ASSUME AskInv, BacklogPhantom
    PROVE  AskInv'
<1>1. /\ pending' = pending \ {view.group} /\ deadline' = [deadline EXCEPT ![view.group] = 0]
      /\ view' = [view EXCEPT !.at = "groups", !.group = None, !.entries = {}]
      /\ UNCHANGED <<now, waiter, state, ticket, reply, count, open, stream, events, tx, claimed, budget>>
  BY DEF BacklogPhantom
<1>2. view' \in Views /\ view'.cursor = view.cursor /\ view'.since = view.since /\ view'.shown = view.shown
  <2>1. view \in Views /\ view' = [view EXCEPT !.at = "groups", !.group = None, !.entries = {}]
    BY <1>1, AskTypes
  <2> QED BY <2>1 DEF Views
<1>3. pending' \in SUBSET Groups /\ deadline' \in [Groups -> 0..MaxNow]
  <2>1. 0 \in 0..MaxNow
    BY AskTypes
  <2> QED BY <1>1, <2>1, AskTypes
<1>4. Types'
  BY <1>1, <1>2, <1>3, AskTypes DEF Types
<1>5. TxCurrent'
  BY <1>1, AskTypes, TxSame
<1> QED BY <1>1, <1>2, <1>4, <1>5, AskTypes, StoreKept

LEMMA BacklogStatesInv ==
    ASSUME AskInv, BacklogStates
    PROVE  AskInv'
<1> DEFINE seen == PendingIn(view.group) \cap view.entries
           late == {q \in seen : Deadline[q] <= view.since}
<1>1. /\ view' = [view EXCEPT !.shown = view.shown \cup (seen \ late), !.late = late, !.at = "prune"]
      /\ UNCHANGED <<now, waiter, storeVars, tx, claimed, budget>>
  BY DEF BacklogStates
<1>2. /\ seen \in SUBSET Questions /\ late \in SUBSET Questions
      /\ \A q \in seen : state[q] = "pending" /\ waiter[q] \notin Unasked
  BY DEF PendingIn, AskInv, Asked
<1> HIDE DEF seen, late
<1>3. /\ view' \in Views /\ view'.cursor = view.cursor /\ view'.since = view.since
      /\ view'.shown = view.shown \cup (seen \ late)
  <2>1. /\ view \in Views /\ view.shown \in SUBSET Questions
        /\ view' = [view EXCEPT !.shown = view.shown \cup (seen \ late), !.late = late, !.at = "prune"]
    BY <1>1, AskTypes, ViewTypes
  <2> QED BY <1>2, <2>1 DEF Views
<1>4. ShownRight'
  <2> SUFFICES ASSUME NEW q \in view'.shown PROVE state'[q] = "pending" \/ EndAhead(q)' \/ Gone(q)'
    BY DEF ShownRight
  <2>1. CASE q \in seen
    BY <1>1, <1>2, <2>1 DEF storeVars
  <2>2. CASE q \in view.shown
    <3>1. state[q] = "pending" \/ EndAhead(q) \/ Gone(q)
      BY <2>2 DEF AskInv, ShownRight
    <3>2. EndAhead(q) => EndAhead(q)'
      BY <1>1, <1>3 DEF EndAhead, IsEnd, storeVars
    <3>3. Gone(q) => Gone(q)'
      BY <1>1 DEF Gone, Past, storeVars
    <3> QED BY <1>1, <3>1, <3>2, <3>3 DEF storeVars
  <2> QED BY <1>3, <2>1, <2>2
<1> QED BY <1>1, <1>2, <1>3, <1>4, AskTypes, LookInv

LEMMA BacklogPruneInv ==
    ASSUME AskInv, NEW q \in Questions, BacklogPrune(q)
    PROVE  AskInv'
<1>1. /\ Watch("inbox", "prune", q) /\ view' = [view EXCEPT !.late = view.late \ {q}]
      /\ UNCHANGED <<now, waiter, storeVars, claimed, budget>> /\ "inbox" \in Actors
  BY DEF BacklogPrune, Actors
<1>2. tx' \in [Actors -> Transactions \cup {None}] /\ TxCurrent'
  BY <1>1, WatchTx DEF storeVars
<1>3. view' \in Views /\ view'.cursor = view.cursor /\ view'.since = view.since /\ view'.shown = view.shown
  <2>1. view \in Views /\ view.late \in SUBSET Questions /\ view' = [view EXCEPT !.late = view.late \ {q}]
    BY <1>1, AskTypes, ViewTypes
  <2> QED BY <2>1 DEF Views
<1> QED BY <1>1, <1>2, <1>3, AskTypes, TxStepInv

LEMMA TailEventInv ==
    ASSUME AskInv, TailEvent
    PROVE  AskInv'
<1> DEFINE n == view.cursor + 1
           e == events[n]
           s == IF Shows(e) THEN view.shown \cup {e.q} ELSE IF e.type = "add" THEN view.shown ELSE view.shown \ {e.q}
<1>1. /\ view' = [view EXCEPT !.cursor = n, !.shown = s] /\ view.cursor < Len(events)
      /\ UNCHANGED <<now, waiter, storeVars, tx, claimed, budget>>
  BY DEF TailEvent
<1>2. /\ n \in 1..Len(events) /\ e \in EventSet /\ e.q \in Questions /\ e.type \in {"add", "answered", "removed"}
      /\ n \in Nat /\ Len(events) \in Nat
  <2>1. Len(events) \in Nat /\ view.cursor \in Nat
    BY AskTypes, ViewTypes
  <2>2. n \in 1..Len(events)
    BY <1>1, <2>1
  <2>3. e \in EventSet
    BY <2>2, AskTypes
  <2> QED BY <2>1, <2>2, <2>3 DEF EventSet
<1>3. s \in SUBSET Questions /\ s \subseteq view.shown \cup {e.q}
  BY <1>2, ViewTypes
<1>4. view' \in Views /\ view'.cursor = n /\ view'.since = view.since /\ view'.shown = s
  <2>1. view \in Views /\ view' = [view EXCEPT !.cursor = n, !.shown = s]
    BY <1>1, AskTypes
  <2> HIDE DEF n, s
  <2> QED BY <1>2, <1>3, <2>1 DEF Views
<1>5. waiter[e.q] \notin Unasked
  BY <1>2 DEF AskInv, Asked
<1>6. ASSUME NEW x \in s PROVE state[x] = "pending" \/ EndAhead(x)' \/ Gone(x)'
  <2>1. x \in Questions
    BY <1>3
  <2>2. EndAhead(x)' <=> \E i \in 1..Len(events) : i > n /\ IsEnd(i, x)
    BY <1>1, <1>4 DEF EndAhead, IsEnd, storeVars
  <2>3. CASE x \in view.shown
    <3>1. state[x] = "pending" \/ EndAhead(x) \/ Gone(x)
      BY <2>3 DEF AskInv, ShownRight
    <3>2. ASSUME NEW i \in 1..Len(events), i > view.cursor, IsEnd(i, x), ~(i > n)
          PROVE  Shows(e) /\ FALSE
      <4>1. i = n
        BY <1>2, <3>2, ViewTypes
      <4>2. e.type # "add" /\ e.q = x
        BY <3>2, <4>1 DEF IsEnd
      <4>3. s = view.shown \ {x}
        BY <4>2 DEF Shows
      <4> QED BY <4>3
    <3>3. EndAhead(x) => EndAhead(x)'
      BY <2>2, <3>2 DEF EndAhead
    <3>4. Gone(x) => Gone(x)'
      BY <1>1 DEF Gone, Past, storeVars
    <3> QED BY <3>1, <3>3, <3>4
  <2>4. CASE x \notin view.shown
    <3>1. Shows(e) /\ x = e.q
      BY <2>4
    <3>2. IsAdd(n, x) /\ state[x] \in {"pending", "answered"}
      BY <2>1, <3>1, AskTypes DEF Shows, IsAdd
    <3>3. CASE state[x] = "answered"
      <4>1. PICK i \in 1..Len(events) : IsEnd(i, x)
        BY <2>1, <3>3 DEF AskInv, Told
      <4>2. PICK j \in 1..Len(events) : j < i /\ IsAdd(j, x)
        BY <2>1, <4>1 DEF AskInv, Told
      <4>3. j = n
        BY <1>2, <2>1, <3>2, <4>2 DEF AskInv, Told
      <4> QED BY <2>2, <4>1, <4>2, <4>3
    <3> QED BY <3>2, <3>3
  <2> QED BY <2>3, <2>4
<1>7. ShownRight'
  BY <1>1, <1>4, <1>6 DEF ShownRight, storeVars
<1>8. \A x \in view'.shown : x \in view.shown \/ waiter[x] \notin Unasked
  BY <1>3, <1>4, <1>5
<1> HIDE DEF n, e, s
<1> QED BY <1>1, <1>2, <1>4, <1>7, <1>8, AskTypes, LookInv

----------------------------------------------------------------------------
(* The steps that write the store. *)

\* OpenSlot admits below the cap.
LEMMA OpenSlotKept ==
    ASSUME AskInv, NEW q \in Questions, Ask(q)
    PROVE  Opened'
<1>1. /\ waiter[q] = "new" /\ ~Past(q) /\ OpenSlot(q) /\ UNCHANGED <<now, state, budget>>
  BY DEF Ask
<1> SUFFICES ASSUME budget.limit # None PROVE Opened'
  BY <1>1 DEF Opened
<1>2. /\ IsFiniteSet(open) /\ budget.limit \in Nat /\ Cardinality(LiveOpen) <= budget.limit
      /\ \A x \in Questions : ~Past(x) /\ (state[x] = "pending" \/ waiter[x] \in {"reserved", "purged"}) => x \in LiveOpen
  BY BudgetTypes DEF AskInv, Opened, LiveOpen
<1>3. IsFiniteSet(LiveOpen) /\ Cardinality(LiveOpen) \in Nat
  <2>1. LiveOpen \subseteq open
    BY DEF LiveOpen
  <2> QED BY <1>2, <2>1, FS_Subset, FS_CardinalityType
<1>4. \A x : Past(x)' <=> Past(x)
  BY <1>1 DEF Past
<1>5. CASE waiter' = [waiter EXCEPT ![q] = "raised"] /\ open' = LiveOpen
  <2>1. LiveOpen' = LiveOpen
    BY <1>4, <1>5 DEF LiveOpen
  <2>2. \A x \in Questions : waiter'[x] \in {"reserved", "purged"} => waiter[x] \in {"reserved", "purged"}
    BY <1>5, AskTypes
  <2> QED BY <1>1, <1>2, <1>3, <1>4, <1>5, <2>1, <2>2 DEF Opened
<1>6. CASE waiter' = [waiter EXCEPT ![q] = "reserved"] /\ open' = LiveOpen \cup {q} /\ Cardinality(LiveOpen) < budget.limit
  <2>1. LiveOpen' = LiveOpen \cup {q}
    BY <1>1, <1>4, <1>6 DEF LiveOpen
  <2>2. \A x \in Questions : x # q /\ waiter'[x] \in {"reserved", "purged"} => waiter[x] \in {"reserved", "purged"}
    BY <1>6, AskTypes
  <2>3. IsFiniteSet(LiveOpen \cup {q})
        /\ Cardinality(LiveOpen \cup {q}) = IF q \in LiveOpen THEN Cardinality(LiveOpen) ELSE Cardinality(LiveOpen) + 1
    BY <1>3, FS_AddElement
  <2>4. Cardinality(LiveOpen \cup {q}) <= budget.limit
    BY <1>2, <1>3, <1>6, <2>3
  <2> QED BY <1>1, <1>2, <1>4, <1>6, <2>1, <2>2, <2>3, <2>4 DEF Opened
<1>7. IF Cardinality(LiveOpen) >= budget.limit
      THEN waiter' = [waiter EXCEPT ![q] = "raised"] /\ open' = LiveOpen
      ELSE waiter' = [waiter EXCEPT ![q] = "reserved"] /\ open' = LiveOpen \cup {q}
  BY <1>1 DEF Goto, OpenSlot, LiveOpen
<1>8. Cardinality(LiveOpen) >= budget.limit \/ Cardinality(LiveOpen) < budget.limit
  BY <1>2, <1>3
<1> QED BY <1>2, <1>3, <1>5, <1>6, <1>7, <1>8

LEMMA AskInvKept ==
    ASSUME AskInv, NEW q \in Questions, Ask(q)
    PROVE  AskInv'
<1>1. UNCHANGED <<now, state, ticket, reply, count, pending, deadline, stream, events, tx, view, claimed, budget>>
  BY DEF Ask
<1>2. PICK at \in {"raised", "reserved"} : waiter' = [waiter EXCEPT ![q] = at]
  BY DEF Ask, OpenSlot, Goto
<1>3. waiter[q] = "new"
  BY DEF Ask
<1>4. /\ waiter' \in [Questions -> Unasked \cup Blocked \cup Ended]
      /\ \A x \in Questions : waiter'[x] \in Unasked => waiter[x] \in Unasked
  <2>1. at \in (Unasked \cup Ended) /\ waiter[q] \in Unasked
    BY <1>3 DEF Unasked, Ended
  <2> QED BY <1>2, <2>1, AskTypes
<1>5. open' \in SUBSET Questions
  BY AskTypes DEF Ask, OpenSlot
<1>6. Types'
  BY <1>1, <1>4, <1>5, AskTypes DEF Types
<1>7. TxCurrent' /\ Counted' /\ Told' /\ Streamed'
  BY <1>1, AskTypes, TxSame, CountedKept, ToldKept, StreamedKept
<1>8. Asked' /\ ShownRight'
  BY <1>1, <1>4, AskedKept, ShownKept, AskTypes
<1> QED BY <1>6, <1>7, <1>8, OpenSlotKept DEF AskInv

LEMMA AddPurgeInv ==
    ASSUME AskInv, NEW q \in Questions, AddPurge(q)
    PROVE  AskInv'
<1>1. /\ waiter[q] = "reserved" /\ waiter' = [waiter EXCEPT ![q] = "purged"]
      /\ pending' = pending \ Phantoms(q)
      /\ deadline' = [g \in Groups |-> IF g \in Phantoms(q) THEN 0 ELSE deadline[g]]
      /\ UNCHANGED <<now, state, ticket, reply, count, open, stream, events, tx, view, claimed, budget>>
  BY DEF AddPurge, Goto
<1>2. /\ waiter' \in [Questions -> Unasked \cup Blocked \cup Ended]
      /\ \A x \in Questions : waiter'[x] \in Unasked => waiter[x] \in Unasked
      /\ \A x \in Questions : waiter'[x] \in {"reserved", "purged"} => waiter[x] \in {"reserved", "purged"}
  BY <1>1, AskTypes DEF Unasked
<1>3. pending' \in SUBSET Groups /\ deadline' \in [Groups -> 0..MaxNow]
  <2>1. 0 \in 0..MaxNow
    BY AskTypes
  <2> QED BY <1>1, <2>1, AskTypes
<1>4. Types'
  BY <1>1, <1>2, <1>3, AskTypes DEF Types
<1>5. TxCurrent'
  BY <1>1, AskTypes, TxSame
<1> QED BY <1>1, <1>2, <1>4, <1>5, AskTypes, StoreKept

\* A write spoils the transactions that watch what it writes; the others are still current.
LEMMA TxSpoilt ==
    ASSUME AskInv, tx' \in [Actors -> Transactions \cup {None}],
           \A a \in Actors : \/ tx'[a] = None
                             \/ tx'[a] = tx[a] /\ (tx[a].at \in Watched =>
                                    state'[tx[a].q] = state[tx[a].q] /\ count'[GroupOf[tx[a].q]] = count[GroupOf[tx[a].q]])
                             \/ tx[a] # None /\ tx'[a] = [tx[a] EXCEPT !.dirty = TRUE]
    PROVE  TxCurrent'
<1> SUFFICES ASSUME NEW a \in Actors, tx'[a] # None
             PROVE  /\ tx'[a].kind = "record" => a \in Answerers
                    /\ (tx'[a].at \in Watched /\ ~tx'[a].dirty) => state'[tx'[a].q] = "pending"
                    /\ (tx'[a].at = "count" /\ ~tx'[a].dirty) => (tx'[a].last <=> count'[GroupOf[tx'[a].q]] <= 1)
  BY DEF TxCurrent, Watched
<1>1. CASE tx'[a] = tx[a] /\ (tx[a].at \in Watched =>
               state'[tx[a].q] = state[tx[a].q] /\ count'[GroupOf[tx[a].q]] = count[GroupOf[tx[a].q]])
  BY <1>1 DEF AskInv, TxCurrent, Watched
<1>2. CASE tx[a] # None /\ tx'[a] = [tx[a] EXCEPT !.dirty = TRUE]
  <2>1. tx[a] \in Transactions
    BY <1>2, TxTypes
  <2>2. tx'[a].dirty = TRUE /\ tx'[a].kind = tx[a].kind
    BY <1>2, <2>1 DEF Transactions
  <2> QED BY <1>2, <2>2 DEF AskInv, TxCurrent
<1> QED BY <1>1, <1>2

LEMMA Dirtied ==
    ASSUME AskInv, NEW a \in Actors, tx[a] # None
    PROVE  [tx[a] EXCEPT !.dirty = TRUE] \in Transactions
<1>1. tx[a] \in Transactions
  BY TxTypes
<1> QED BY <1>1 DEF Transactions

LEMMA SpoilTx ==
    ASSUME AskInv, NEW q \in Questions,
           \A p \in Questions : p # q => state'[p] = state[p],
           \A g \in Groups : g # GroupOf[q] => count'[g] = count[g],
           tx' = Spoil(q) \/ \E a \in Actors : tx' = [Spoil(q) EXCEPT ![a] = None]
    PROVE  tx' \in [Actors -> Transactions \cup {None}] /\ TxCurrent'
<1>1. Spoil(q) \in [Actors -> Transactions \cup {None}]
  <2>1. ASSUME NEW a \in Actors
        PROVE  (IF Touched(tx[a], q, GroupOf[q]) THEN [tx[a] EXCEPT !.dirty = TRUE] ELSE tx[a]) \in Transactions \cup {None}
    BY Dirtied, AskTypes DEF Touched
  <2> QED BY <2>1 DEF Spoil
<1>2. tx' \in [Actors -> Transactions \cup {None}] /\ \A a \in Actors : tx'[a] \in {None, Spoil(q)[a]}
  BY <1>1
<1>3. ASSUME NEW a \in Actors, tx'[a] # None
      PROVE  \/ tx'[a] = tx[a] /\ (tx[a].at \in Watched =>
                     state'[tx[a].q] = state[tx[a].q] /\ count'[GroupOf[tx[a].q]] = count[GroupOf[tx[a].q]])
             \/ tx[a] # None /\ tx'[a] = [tx[a] EXCEPT !.dirty = TRUE]
  <2>1. tx'[a] = Spoil(q)[a]
    BY <1>2, <1>3
  <2>2. CASE Touched(tx[a], q, GroupOf[q])
    BY <2>1, <2>2 DEF Spoil, Touched
  <2>3. CASE ~Touched(tx[a], q, GroupOf[q])
    <3>1. tx'[a] = tx[a] /\ tx[a] # None
      BY <1>3, <2>1, <2>3 DEF Spoil
    <3>2. tx[a].q \in Questions /\ GroupOf[tx[a].q] \in Groups
      BY <3>1, TxTypes
    <3> QED BY <2>3, <3>1, <3>2 DEF Touched
  <2> QED BY <2>2, <2>3
<1> QED BY <1>2, <1>3, TxSpoilt

\* The questions of a group that are pending, and their number.
LEMMA PendingFacts ==
    ASSUME AskInv, NEW g \in Groups
    PROVE  /\ IsFiniteSet(PendingIn(g)) /\ Cardinality(PendingIn(g)) \in Nat
           /\ (PendingIn(g) = {}) <=> (Cardinality(PendingIn(g)) = 0)
           /\ count[g] = IF PendingIn(g) = {} THEN None ELSE Cardinality(PendingIn(g))
<1>1. PendingIn(g) \subseteq Pendings /\ IsFiniteSet(Pendings)
  BY DEF AskInv, Counted, PendingIn, Pendings
<1>2. IsFiniteSet(PendingIn(g))
  BY <1>1, FS_Subset
<1> QED BY <1>2, FS_CardinalityType, FS_EmptySet DEF AskInv, Counted, CountExact

LEMMA CountedSettled ==
    ASSUME AskInv, NEW q \in Questions, state[q] = "pending", NEW x \in {"none", "answered"},
           state' = [state EXCEPT ![q] = x], NEW last, last <=> count[GroupOf[q]] <= 1,
           count' = [count EXCEPT ![GroupOf[q]] = IF last THEN None ELSE count[GroupOf[q]] - 1]
    PROVE  /\ Counted' /\ count' \in [Groups -> Nat \cup {None}]
           /\ last => PendingIn(GroupOf[q])' = {}
<1> DEFINE g == GroupOf[q]
           P == PendingIn(g)
<1>1. g \in Groups /\ q \in P /\ g = GroupOf[q]
  BY AskTypes DEF PendingIn
<1>2. /\ IsFiniteSet(P) /\ Cardinality(P) \in Nat /\ Cardinality(P) # 0 /\ count[g] = Cardinality(P)
  BY <1>1, PendingFacts
<1>3. PendingIn(g)' = P \ {q}
  BY AskTypes DEF PendingIn
<1>4. \A h \in Groups : h # g => PendingIn(h)' = PendingIn(h)
  BY AskTypes DEF PendingIn
<1>5. IsFiniteSet(P \ {q}) /\ Cardinality(P \ {q}) = Cardinality(P) - 1
  <2> HIDE DEF P
  <2> QED BY <1>1, <1>2, FS_RemoveElement
<1>6. (P \ {q} = {}) <=> (Cardinality(P \ {q}) = 0)
  <2> HIDE DEF P
  <2> QED BY <1>5, FS_EmptySet
<1>7. Pendings' \subseteq Pendings /\ IsFiniteSet(Pendings)
  BY AskTypes DEF Pendings, AskInv, Counted
<1>8. IsFiniteSet(Pendings')
  BY <1>7, FS_Subset
<1>9. last <=> P \ {q} = {}
  BY <1>1, <1>2, <1>5, <1>6
<1>10. count'[g] = (IF last THEN None ELSE Cardinality(P) - 1) /\ \A h \in Groups : h # g => count'[h] = count[h]
  BY <1>1, <1>2, AskTypes
<1>11. Cardinality(P) - 1 \in Nat
  BY <1>2
<1>12. count' \in [Groups -> Nat \cup {None}]
  <2> HIDE DEF P
  <2>1. \A h \in Groups : count'[h] \in Nat \cup {None}
    BY <1>10, <1>11, AskTypes
  <2>2. DOMAIN count' = Groups /\ count' = [h \in DOMAIN count' |-> count'[h]]
    BY AskTypes
  <2> QED BY <2>1, <2>2
<1>13. ASSUME NEW h \in Groups PROVE count'[h] = IF PendingIn(h)' = {} THEN None ELSE Cardinality(PendingIn(h)')
  <2>1. CASE h = g
    BY <1>3, <1>5, <1>9, <1>10, <2>1
  <2>2. CASE h # g
    BY <1>4, <1>10, <2>2, PendingFacts
  <2> QED BY <2>1, <2>2
<1>14. CountExact'
  BY <1>13 DEF CountExact
<1> QED BY <1>3, <1>8, <1>9, <1>12, <1>14 DEF Counted

LEMMA CountedAdded ==
    ASSUME AskInv, NEW q \in Questions, state[q] = "none", state' = [state EXCEPT ![q] = "pending"],
           count' = [count EXCEPT ![GroupOf[q]] = IF count[GroupOf[q]] = None THEN 1 ELSE count[GroupOf[q]] + 1]
    PROVE  Counted' /\ count' \in [Groups -> Nat \cup {None}]
<1> DEFINE g == GroupOf[q]
           P == PendingIn(g)
<1>1. g \in Groups /\ q \notin P /\ g = GroupOf[q]
  BY AskTypes DEF PendingIn
<1>2. /\ IsFiniteSet(P) /\ Cardinality(P) \in Nat /\ ((P = {}) <=> (Cardinality(P) = 0))
      /\ count[g] = IF P = {} THEN None ELSE Cardinality(P)
  BY <1>1, PendingFacts
<1>3. PendingIn(g)' = P \cup {q}
  BY AskTypes DEF PendingIn
<1>4. \A h \in Groups : h # g => PendingIn(h)' = PendingIn(h)
  BY AskTypes DEF PendingIn
<1>5. IsFiniteSet(P \cup {q}) /\ Cardinality(P \cup {q}) = Cardinality(P) + 1
  <2> HIDE DEF P
  <2> QED BY <1>1, <1>2, FS_AddElement
<1>6. IsFiniteSet(Pendings')
  <2>1. Pendings' = Pendings \cup {q} /\ IsFiniteSet(Pendings)
    BY AskTypes DEF Pendings, AskInv, Counted
  <2> QED BY <2>1, FS_AddElement
<1>7. count'[g] = Cardinality(P) + 1 /\ \A h \in Groups : h # g => count'[h] = count[h]
  <2>1. count'[g] = (IF count[g] = None THEN 1 ELSE count[g] + 1) /\ \A h \in Groups : h # g => count'[h] = count[h]
    BY <1>1, AskTypes
  <2> HIDE DEF P, g
  <2>2. Cardinality(P) # None
    BY <1>2, AskTypes
  <2> QED BY <1>2, <2>1, <2>2
<1>8. count' \in [Groups -> Nat \cup {None}]
  <2> HIDE DEF P
  <2>1. \A h \in Groups : count'[h] \in Nat \cup {None}
    BY <1>2, <1>7, AskTypes
  <2>2. DOMAIN count' = Groups /\ count' = [h \in DOMAIN count' |-> count'[h]]
    BY AskTypes
  <2> QED BY <2>1, <2>2
<1>9. ASSUME NEW h \in Groups PROVE count'[h] = IF PendingIn(h)' = {} THEN None ELSE Cardinality(PendingIn(h)')
  <2>1. CASE h = g
    BY <1>3, <1>5, <1>7, <2>1
  <2>2. CASE h # g
    BY <1>4, <1>7, <2>2, PendingFacts
  <2> QED BY <2>1, <2>2
<1>10. CountExact'
  BY <1>9 DEF CountExact
<1> QED BY <1>6, <1>8, <1>10 DEF Counted

\* The next event.
LEMMA Appended ==
    ASSUME AskInv, NEW e \in EventSet, events' = Append(events, e)
    PROVE  /\ Len(events) \in Nat /\ Len(events)' = Len(events) + 1 /\ events' \in Seq(EventSet)
           /\ \A i \in 1..Len(events) : events'[i] = events[i] /\ i \in 1..Len(events')
           /\ events'[Len(events) + 1] = e /\ Len(events) + 1 \in 1..Len(events')
           /\ \A i \in 1..Len(events') : i \in 1..Len(events) \/ i = Len(events) + 1
<1>1. events \in Seq(EventSet) /\ Len(events) \in Nat
  BY AskTypes
<1>2. Len(events') = Len(events) + 1 /\ events' \in Seq(EventSet)
  BY <1>1
<1> QED BY <1>1, <1>2

\* A question is asked: its first event.
LEMMA ToldAdd ==
    ASSUME AskInv, NEW q \in Questions, waiter[q] \in Unasked, state' = [state EXCEPT ![q] = "pending"],
           events' = Append(events, [type |-> "add", q |-> q])
    PROVE  Told'
<1> DEFINE e == [type |-> "add", q |-> q]
<1> PICK n \in Nat : n = Len(events) + 1
  BY AskTypes
<1>1. e \in EventSet /\ e.type = "add" /\ e.q = q
  BY DEF EventSet
<1>2. /\ Len(events) \in Nat /\ \A i \in 1..Len(events) : events'[i] = events[i] /\ i \in 1..Len(events')
      /\ events'[n] = e /\ n \in 1..Len(events')
      /\ \A i \in 1..Len(events') : i \in 1..Len(events) \/ i = n
  BY <1>1, Appended
<1>3. \A i \in 1..Len(events) : events[i].q # q
  BY DEF AskInv, Asked
<1> HIDE DEF e
<1>4. ASSUME NEW x \in Questions
      PROVE  /\ \A i \in 1..Len(events) : (IsAdd(i, x)' <=> IsAdd(i, x)) /\ (IsEnd(i, x)' <=> IsEnd(i, x))
             /\ \A i \in 1..Len(events) : (IsAdd(i, x) \/ IsEnd(i, x)) => x # q
             /\ (IsAdd(n, x)' <=> x = q) /\ ~(IsEnd(n, x)')
  <2>1. \A i \in 1..Len(events) : (IsAdd(i, x)' <=> IsAdd(i, x)) /\ (IsEnd(i, x)' <=> IsEnd(i, x))
    BY <1>2 DEF IsAdd, IsEnd
  <2>2. (IsAdd(n, x)' <=> x = q) /\ ~(IsEnd(n, x)')
    BY <1>1, <1>2 DEF IsAdd, IsEnd
  <2> QED BY <1>3, <2>1, <2>2 DEF IsAdd, IsEnd
<1>5. ASSUME NEW x \in Questions, NEW i \in 1..Len(events'), NEW j \in 1..Len(events'), IsAdd(i, x)', IsAdd(j, x)'
      PROVE  i = j
  <2>1. CASE x = q
    BY <1>2, <1>4, <1>5, <2>1
  <2>2. CASE x # q
    <3>1. i \in 1..Len(events) /\ j \in 1..Len(events)
      BY <1>2, <1>4, <1>5, <2>2
    <3> QED BY <1>4, <1>5, <3>1 DEF AskInv, Told
  <2> QED BY <2>1, <2>2
<1>6. ASSUME NEW x \in Questions, NEW i \in 1..Len(events'), IsEnd(i, x)'
      PROVE  state'[x] # "pending" /\ \E j \in 1..Len(events') : j < i /\ IsAdd(j, x)'
  <2>1. i \in 1..Len(events) /\ IsEnd(i, x) /\ x # q
    BY <1>2, <1>4, <1>6
  <2>2. state[x] # "pending" /\ \E j \in 1..Len(events) : j < i /\ IsAdd(j, x)
    BY <2>1 DEF AskInv, Told
  <2>3. state'[x] = state[x]
    BY <2>1, AskTypes
  <2> QED BY <1>2, <1>4, <2>2, <2>3
<1>7. ASSUME NEW x \in Questions, state'[x] = "pending"
      PROVE  \E i \in 1..Len(events') : IsAdd(i, x)'
  <2>1. CASE x = q
    BY <1>2, <1>4, <2>1
  <2>2. CASE x # q
    <3>1. PICK i \in 1..Len(events) : IsAdd(i, x)
      BY <1>7, <2>2, AskTypes DEF AskInv, Told
    <3> QED BY <1>2, <1>4, <3>1
  <2> QED BY <2>1, <2>2
<1>8. ASSUME NEW x \in Questions, state'[x] = "answered"
      PROVE  \E i \in 1..Len(events') : IsEnd(i, x)'
  <2>1. state[x] = "answered"
    BY <1>8, AskTypes
  <2>2. PICK i \in 1..Len(events) : IsEnd(i, x)
    BY <2>1 DEF AskInv, Told
  <2> QED BY <1>2, <1>4, <2>2
<1> QED BY <1>5, <1>6, <1>7, <1>8 DEF Told

\* A question is answered or taken back: its terminal event, after its add.
LEMMA ToldEnd ==
    ASSUME AskInv, NEW q \in Questions, state[q] = "pending", NEW s \in {"none", "answered"},
           state' = [state EXCEPT ![q] = s], NEW type \in {"answered", "removed"},
           events' = Append(events, [type |-> type, q |-> q]), NEW n \in Nat, n = Len(events) + 1
    PROVE  Told' /\ IsEnd(n, q)'
<1> DEFINE e == [type |-> type, q |-> q]
<1>1. e \in EventSet /\ e.type # "add" /\ e.q = q
  BY DEF EventSet
<1>2. /\ Len(events) \in Nat /\ \A i \in 1..Len(events) : events'[i] = events[i] /\ i \in 1..Len(events')
      /\ events'[n] = e /\ n \in 1..Len(events')
      /\ \A i \in 1..Len(events') : i \in 1..Len(events) \/ i = n
  BY <1>1, Appended
<1> HIDE DEF e
<1>3. ASSUME NEW x \in Questions
      PROVE  /\ \A i \in 1..Len(events) : (IsAdd(i, x)' <=> IsAdd(i, x)) /\ (IsEnd(i, x)' <=> IsEnd(i, x))
             /\ (IsEnd(n, x)' <=> x = q) /\ ~(IsAdd(n, x)')
  <2>1. \A i \in 1..Len(events) : (IsAdd(i, x)' <=> IsAdd(i, x)) /\ (IsEnd(i, x)' <=> IsEnd(i, x))
    BY <1>2 DEF IsAdd, IsEnd
  <2>2. (IsEnd(n, x)' <=> x = q) /\ ~(IsAdd(n, x)')
    BY <1>1, <1>2 DEF IsAdd, IsEnd
  <2> QED BY <2>1, <2>2
<1>4. PICK k \in 1..Len(events) : IsAdd(k, q)
  BY DEF AskInv, Told
<1>5. ASSUME NEW x \in Questions, NEW i \in 1..Len(events'), NEW j \in 1..Len(events'), IsAdd(i, x)', IsAdd(j, x)'
      PROVE  i = j
  <2>1. i \in 1..Len(events) /\ j \in 1..Len(events)
    BY <1>2, <1>3, <1>5
  <2> QED BY <1>3, <1>5, <2>1 DEF AskInv, Told
<1>6. ASSUME NEW x \in Questions, NEW i \in 1..Len(events'), IsEnd(i, x)'
      PROVE  state'[x] # "pending" /\ \E j \in 1..Len(events') : j < i /\ IsAdd(j, x)'
  <2>1. CASE i \in 1..Len(events) /\ IsEnd(i, x)
    <3>1. state[x] # "pending" /\ \E j \in 1..Len(events) : j < i /\ IsAdd(j, x)
      BY <2>1 DEF AskInv, Told
    <3>2. state'[x] \in {state[x], s}
      BY AskTypes
    <3> QED BY <1>2, <1>3, <3>1, <3>2
  <2>2. CASE i = n /\ x = q
    <3>1. k < i /\ k \in 1..Len(events') /\ IsAdd(k, q)'
      BY <1>2, <1>3, <1>4, <2>2
    <3>2. state'[x] = s
      BY <2>2, AskTypes
    <3> QED BY <2>2, <3>1, <3>2
  <2> QED BY <1>2, <1>3, <1>6, <2>1, <2>2
<1>7. ASSUME NEW x \in Questions, state'[x] = "pending"
      PROVE  \E i \in 1..Len(events') : IsAdd(i, x)'
  <2>1. state[x] = "pending"
    BY <1>7, AskTypes
  <2>2. PICK i \in 1..Len(events) : IsAdd(i, x)
    BY <2>1 DEF AskInv, Told
  <2> QED BY <1>2, <1>3, <2>2
<1>8. ASSUME NEW x \in Questions, state'[x] = "answered"
      PROVE  \E i \in 1..Len(events') : IsEnd(i, x)'
  <2>1. CASE x = q
    BY <1>2, <1>3, <2>1
  <2>2. CASE x # q
    <3>1. state[x] = "answered"
      BY <1>8, <2>2, AskTypes
    <3>2. PICK i \in 1..Len(events) : IsEnd(i, x)
      BY <3>1 DEF AskInv, Told
    <3> QED BY <1>2, <1>3, <3>2
  <2> QED BY <2>1, <2>2
<1> QED BY <1>3, <1>5, <1>6, <1>7, <1>8 DEF Told

\* add's pipeline.
LEMMA AddWriteInv ==
    ASSUME AskInv, NEW q \in Questions, AddWrite(q)
    PROVE  AskInv'
<1> DEFINE g == GroupOf[q]
           kept == {o \in open : ~Past(o)}
<1>1. /\ waiter[q] = "purged" /\ waiter[q] \in Unasked
      /\ state' = [state EXCEPT ![q] = "pending"]
      /\ stream' = [stream EXCEPT ![g] = stream[g] \cup {q}]
      /\ count' = [count EXCEPT ![g] = IF count[g] = None THEN 1 ELSE count[g] + 1]
      /\ pending' = pending \cup {g}
      /\ deadline' = [deadline EXCEPT ![g] = Extended(g, Deadline[q])]
      /\ open' = IF budget.limit = None THEN kept \cup {q} ELSE kept
      /\ ticket' = IF q \in Ticketed THEN ticket \cup {q} ELSE ticket
      /\ events' = Append(events, [type |-> "add", q |-> q])
      /\ tx' = Spoil(q)
      /\ waiter' = [waiter EXCEPT ![q] = IF q \in budget.channelled THEN "deliver" ELSE "wait"]
      /\ UNCHANGED <<now, reply, view, claimed, budget>>
  BY AskTypes DEF AddWrite, Emit, Goto, Unasked
<1>2. /\ state[q] = "none" /\ claimed[q] = None /\ q \notin view.shown /\ g \in Groups
      /\ \A i \in 1..Len(events) : events[i].q # q
  BY <1>1, AskTypes DEF AskInv, Asked
<1>3. \A x \in Questions : x # q => state'[x] = state[x] /\ waiter'[x] = waiter[x]
  BY <1>1, AskTypes
<1>4. Counted' /\ count' \in [Groups -> Nat \cup {None}]
  BY <1>1, <1>2, CountedAdded
<1>5. \A h \in Groups : h # g => count'[h] = count[h]
  BY <1>1, AskTypes
<1>6. tx' \in [Actors -> Transactions \cup {None}] /\ TxCurrent'
  BY <1>1, <1>3, <1>5, SpoilTx
<1>7. Told'
  BY <1>1, ToldAdd
<1> PICK n \in Nat : n = Len(events) + 1
  BY AskTypes
<1>8. /\ events' \in Seq(EventSet) /\ Len(events') = n /\ events'[n].q = q
      /\ \A i \in 1..Len(events) : events'[i] = events[i]
      /\ \A i \in 1..Len(events') : i \in 1..Len(events) \/ i = n
      /\ \A i \in 1..Len(events) : i \in 1..Len(events')
  <2>1. PICK e \in EventSet : e = [type |-> "add", q |-> q]
    BY DEF EventSet
  <2> QED BY <1>1, <2>1, Appended
<1>9. /\ stream' \in [Groups -> SUBSET Questions] /\ q \in stream'[g]
      /\ \A h \in Groups : stream[h] \subseteq stream'[h] /\ stream'[h] \subseteq stream[h] \cup {q}
  BY <1>1, <1>2, AskTypes
<1>10. waiter' \in [Questions -> Unasked \cup Blocked \cup Ended] /\ waiter'[q] \notin Unasked
       /\ waiter'[q] \notin {"reserved", "purged"}
  <2>1. PICK at \in {"deliver", "wait"} : waiter' = [waiter EXCEPT ![q] = at]
    BY <1>1
  <2>2. at \in Blocked /\ at \notin Unasked
    BY DEF Blocked, Waiting, Unasked
  <2> QED BY <2>1, <2>2, AskTypes
<1>11. Types'
  <2>1. state' \in [Questions -> {"none", "pending", "answered"}]
    BY <1>1, AskTypes
  <2>2. Extended(g, Deadline[q]) \in 0..MaxNow
    BY <1>2, AskTypes DEF Extended
  <2>3. deadline' \in [Groups -> 0..MaxNow] /\ pending' \in SUBSET Groups
    BY <1>1, <1>2, <2>2, AskTypes
  <2>4. open' \in SUBSET Questions /\ ticket' \in SUBSET Questions
    BY <1>1, AskTypes
  <2>5. view.cursor <= Len(events')
    BY <1>8, ViewTypes, AskTypes
  <2> HIDE DEF kept, g
  <2> QED BY <1>1, <1>4, <1>6, <1>8, <1>9, <1>10, <2>1, <2>3, <2>4, <2>5, AskTypes DEF Types
<1>12. Asked'
  <2>1. ASSUME NEW x \in Questions, waiter'[x] \in Unasked
        PROVE  /\ state'[x] = "none" /\ claimed'[x] = None
               /\ \A i \in 1..Len(events') : events'[i].q # x
               /\ x \notin view'.shown
    <3>1. x # q /\ waiter[x] \in Unasked
      BY <1>3, <1>10, <2>1
    <3>2. /\ state[x] = "none" /\ claimed[x] = None /\ x \notin view.shown
          /\ \A i \in 1..Len(events) : events[i].q # x
      BY <3>1 DEF AskInv, Asked
    <3> QED BY <1>1, <1>3, <1>8, <3>1, <3>2
  <2>2. ASSUME NEW x \in Questions, claimed'[x] # None PROVE state'[x] # "pending"
    BY <1>1, <1>2, <1>3, <2>2 DEF AskInv, Asked
  <2> QED BY <2>1, <2>2 DEF Asked
<1>13. Streamed'
  <2>1. \A x \in Questions : GroupOf[x] \in Groups
    BY AskTypes
  <2>2. ASSUME NEW x \in Questions, state'[x] # "none" PROVE x \in stream'[GroupOf[x]]
    BY <1>3, <1>9, <2>1, <2>2 DEF AskInv, Streamed
  <2> QED BY <2>2 DEF Streamed
<1>14. Opened'
  <2> SUFFICES ASSUME budget.limit # None PROVE Opened'
    BY <1>1 DEF Opened
  <2>1. open' = LiveOpen /\ LiveOpen' = LiveOpen
    BY <1>1 DEF LiveOpen, Past
  <2>2. IsFiniteSet(open) /\ Cardinality(LiveOpen) <= budget.limit /\ LiveOpen \subseteq open
    BY DEF AskInv, Opened, LiveOpen
  <2>3. IsFiniteSet(LiveOpen)
    BY <2>2, FS_Subset
  <2>4. ASSUME NEW x \in Questions, ~(Past(x)'), state'[x] = "pending" \/ waiter'[x] \in {"reserved", "purged"}
        PROVE  x \in LiveOpen
    <3>1. ~Past(x)
      BY <1>1, <2>4 DEF Past
    <3>2. state[x] = "pending" \/ waiter[x] \in {"reserved", "purged"}
      BY <1>1, <1>3, <2>4
    <3> QED BY <3>1, <3>2 DEF AskInv, Opened, LiveOpen
  <2> QED BY <1>1, <2>1, <2>2, <2>3, <2>4 DEF Opened
<1>15. ShownRight'
  <2> SUFFICES ASSUME NEW x \in view.shown PROVE state'[x] = "pending" \/ EndAhead(x)' \/ Gone(x)'
    BY <1>1 DEF ShownRight
  <2>1. x \in Questions /\ x # q /\ (state[x] = "pending" \/ EndAhead(x) \/ Gone(x)) /\ GroupOf[x] \in Groups
    BY <1>2, ViewTypes, AskTypes DEF AskInv, ShownRight
  <2>2. EndAhead(x) => EndAhead(x)'
    BY <1>1, <1>8 DEF EndAhead, IsEnd
  <2>3. Gone(x) => Gone(x)'
    BY <1>1, <1>9, <2>1 DEF Gone, Past
  <2> QED BY <1>3, <2>1, <2>2, <2>3
<1> QED BY <1>4, <1>6, <1>7, <1>11, <1>12, <1>13, <1>14, <1>15 DEF AskInv

\* What an EXEC does: it finds the question as the transaction read it.
LEMMA ExecFacts ==
    ASSUME AskInv, NEW a \in Actors, tx[a] # None, Exec(a)
    PROVE  \E q \in Questions, s \in {"none", "answered"}, type \in {"answered", "removed"}, last \in BOOLEAN :
              /\ state[q] = "pending" /\ (last <=> count[GroupOf[q]] <= 1)
              /\ state' = [state EXCEPT ![q] = s] /\ Decrement(GroupOf[q], last)
              /\ open' = open \ {q} /\ events' = Append(events, [type |-> type, q |-> q])
              /\ tx' = [Spoil(q) EXCEPT ![a] = None]
              /\ reply' \in SUBSET Questions /\ UNCHANGED <<ticket, stream>>
              /\ claimed' = claimed \/ (s = "answered" /\ a \in Answerers /\ claimed' = [claimed EXCEPT ![q] = a])
<1> DEFINE t == tx[a]
<1>1. /\ t.q \in Questions /\ t.last \in BOOLEAN /\ t.kind \in {"record", "prune"} /\ t.dirty \in BOOLEAN
      /\ t.at = "count" /\ ~t.dirty /\ tx' = [Spoil(t.q) EXCEPT ![a] = None]
      /\ IF t.kind = "record" THEN RecordExec(a, t.q, t.last) ELSE PruneExec(t.q, t.last)
  BY TxTypes DEF Exec, Commits
<1>2. state[t.q] = "pending" /\ (t.last <=> count[GroupOf[t.q]] <= 1) /\ (t.kind = "record" => a \in Answerers)
  BY <1>1 DEF AskInv, TxCurrent, Watched
<1> HIDE DEF t
<1>3. CASE t.kind = "record"
  <2>1. PICK q \in Questions, last \in BOOLEAN : q = t.q /\ last = t.last
    BY <1>1
  <2>2. /\ RecordExec(a, q, last) /\ state[q] = "pending" /\ (last <=> count[GroupOf[q]] <= 1) /\ a \in Answerers
        /\ tx' = [Spoil(q) EXCEPT ![a] = None]
    BY <1>1, <1>2, <1>3, <2>1
  <2>3. reply' \in SUBSET Questions
    BY <2>2, AskTypes DEF RecordExec
  <2> QED BY <2>2, <2>3 DEF RecordExec, Emit
<1>4. CASE t.kind # "record"
  BY <1>1, <1>2, <1>4, AskTypes DEF PruneExec, Emit
<1> QED BY <1>3, <1>4

LEMMA ExecInv ==
    ASSUME AskInv, NEW a \in Actors, tx[a] # None, Exec(a), UNCHANGED <<now, view, budget>>,
           waiter' \in [Questions -> Unasked \cup Blocked \cup Ended],
           \A x \in Questions : waiter'[x] \in Unasked => waiter'[x] = waiter[x]
    PROVE  AskInv'
<1>1. PICK q \in Questions, s \in {"none", "answered"}, type \in {"answered", "removed"}, last \in BOOLEAN :
              /\ state[q] = "pending" /\ (last <=> count[GroupOf[q]] <= 1)
              /\ state' = [state EXCEPT ![q] = s] /\ Decrement(GroupOf[q], last)
              /\ open' = open \ {q} /\ events' = Append(events, [type |-> type, q |-> q])
              /\ tx' = [Spoil(q) EXCEPT ![a] = None]
              /\ reply' \in SUBSET Questions /\ UNCHANGED <<ticket, stream>>
              /\ claimed' = claimed \/ (s = "answered" /\ a \in Answerers /\ claimed' = [claimed EXCEPT ![q] = a])
  BY ExecFacts
<1>2. /\ count' = [count EXCEPT ![GroupOf[q]] = IF last THEN None ELSE count[GroupOf[q]] - 1]
      /\ pending' \in SUBSET Groups /\ deadline' \in [Groups -> 0..MaxNow] /\ GroupOf[q] \in Groups
  <2>1. 0 \in 0..MaxNow
    BY AskTypes
  <2> QED BY <1>1, <2>1, AskTypes DEF Decrement
<1>3. Counted' /\ count' \in [Groups -> Nat \cup {None}]
  BY <1>1, <1>2, CountedSettled
<1>4. /\ \A x \in Questions : x # q => state'[x] = state[x]
      /\ state'[q] = s /\ state' \in [Questions -> {"none", "pending", "answered"}]
      /\ \A h \in Groups : h # GroupOf[q] => count'[h] = count[h]
  BY <1>1, <1>2, AskTypes
<1>5. tx' \in [Actors -> Transactions \cup {None}] /\ TxCurrent'
  BY <1>1, <1>4, SpoilTx
<1> PICK n \in Nat : n = Len(events) + 1
  BY AskTypes
<1>6. Told' /\ IsEnd(n, q)'
  BY <1>1, ToldEnd
<1>7. /\ events' \in Seq(EventSet) /\ Len(events') = n /\ events'[n].q = q /\ n \in 1..Len(events')
      /\ \A i \in 1..Len(events) : events'[i] = events[i]
      /\ \A i \in 1..Len(events') : i \in 1..Len(events) \/ i = n
      /\ \A i \in 1..Len(events) : i \in 1..Len(events')
  <2>1. PICK e \in EventSet : e = [type |-> type, q |-> q]
    BY DEF EventSet
  <2> QED BY <1>1, <2>1, Appended
<1>8. waiter[q] \notin Unasked
  BY <1>1 DEF AskInv, Asked
<1>9. claimed' \in [Questions -> Answerers \cup {None}] /\ \A x \in Questions : x # q => claimed'[x] = claimed[x]
  <2>1. CASE claimed' = claimed
    BY <2>1, AskTypes
  <2>2. CASE a \in Answerers /\ claimed' = [claimed EXCEPT ![q] = a]
    BY <2>2, AskTypes
  <2> QED BY <1>1, <2>1, <2>2
<1>10. Types'
  <2>1. open' \in SUBSET Questions
    BY <1>1, AskTypes
  <2>2. view.cursor <= Len(events')
    BY <1>7, ViewTypes, AskTypes
  <2> QED BY <1>1, <1>2, <1>3, <1>4, <1>5, <1>7, <1>9, <2>1, <2>2, AskTypes DEF Types
<1>11. Asked'
  <2>1. ASSUME NEW x \in Questions, waiter'[x] \in Unasked
        PROVE  /\ state'[x] = "none" /\ claimed'[x] = None
               /\ \A i \in 1..Len(events') : events'[i].q # x
               /\ x \notin view'.shown
    <3>1. x # q /\ waiter[x] \in Unasked
      BY <1>8, <2>1
    <3>2. /\ state[x] = "none" /\ claimed[x] = None /\ x \notin view.shown
          /\ \A i \in 1..Len(events) : events[i].q # x
      BY <3>1 DEF AskInv, Asked
    <3> QED BY <1>4, <1>7, <1>9, <3>1, <3>2
  <2>2. ASSUME NEW x \in Questions, claimed'[x] # None PROVE state'[x] # "pending"
    <3>1. CASE x = q
      BY <1>4, <3>1
    <3>2. CASE x # q
      BY <1>4, <1>9, <2>2, <3>2 DEF AskInv, Asked
    <3> QED BY <3>1, <3>2
  <2> QED BY <2>1, <2>2 DEF Asked
<1>12. Streamed'
  BY <1>1, <1>4 DEF AskInv, Streamed
<1>13. Opened'
  <2>1. /\ open' \in SUBSET open
        /\ \A x \in Questions : x \in open \ open' => Past(x) \/ (state'[x] # "pending" /\ waiter'[x] \notin {"reserved", "purged"})
    BY <1>1, <1>4, <1>8 DEF Unasked
  <2>2. \A x \in Questions : state'[x] = "pending" => state[x] = "pending"
    BY <1>4
  <2>3. \A x \in Questions : waiter'[x] \in {"reserved", "purged"} => waiter[x] \in {"reserved", "purged"}
    BY DEF Unasked
  <2> QED BY <2>1, <2>2, <2>3, AskTypes, OpenedKept
<1>14. ShownRight'
  <2> SUFFICES ASSUME NEW x \in view.shown PROVE state'[x] = "pending" \/ EndAhead(x)' \/ Gone(x)'
    BY DEF ShownRight
  <2>1. x \in Questions /\ (state[x] = "pending" \/ EndAhead(x) \/ Gone(x)) /\ view.cursor < n /\ view.cursor \in Nat
    BY ViewTypes, AskTypes DEF AskInv, ShownRight
  <2>2. EndAhead(x) => EndAhead(x)'
    BY <1>7 DEF EndAhead, IsEnd
  <2>3. Gone(x) => Gone(x)'
    BY <1>1 DEF Gone, Past
  <2>4. x = q => EndAhead(x)'
    BY <1>6, <1>7, <2>1 DEF EndAhead
  <2> QED BY <1>4, <2>1, <2>2, <2>3, <2>4
<1> QED BY <1>3, <1>5, <1>6, <1>10, <1>11, <1>12, <1>13, <1>14 DEF AskInv

\* A group's stream, states and count go together.
LEMMA GroupExpiresInv ==
    ASSUME AskInv, NEW g \in Groups, GroupExpires(g)
    PROVE  /\ AskInv' /\ UNCHANGED <<now, waiter, pending, deadline, events, view, claimed>>
           /\ budget.expiries > 0
           /\ \A q \in Questions : state'[q] = "pending" => state[q] = "pending"
<1>1. /\ \A q \in stream[g] : Past(q) /\ waiter[q] \in Ended
      /\ stream' = [stream EXCEPT ![g] = {}] /\ count' = [count EXCEPT ![g] = None]
      /\ state' = [q \in Questions |-> IF GroupOf[q] = g THEN "none" ELSE state[q]]
      /\ tx' = [a \in Actors |-> IF tx[a] # None /\ tx[a].at \in Watched /\ GroupOf[tx[a].q] = g
                                 THEN [tx[a] EXCEPT !.dirty = TRUE] ELSE tx[a]]
      /\ budget.expiries > 0 /\ budget' = [budget EXCEPT !.expiries = budget.expiries - 1]
      /\ UNCHANGED <<now, waiter, ticket, reply, pending, deadline, open, events, view, claimed>>
  BY DEF GroupExpires, Spend
<1>2. budget' \in Scenario /\ budget'.limit = budget.limit
  <2>1. budget \in Scenario /\ budget.expiries > 0 /\ budget' = [budget EXCEPT !.expiries = budget.expiries - 1]
    BY <1>1, AskTypes
  <2> QED BY <2>1 DEF Scenario
<1>3. tx' \in [Actors -> Transactions \cup {None}]
  <2>1. ASSUME NEW a \in Actors
        PROVE  (IF tx[a] # None /\ tx[a].at \in Watched /\ GroupOf[tx[a].q] = g
                THEN [tx[a] EXCEPT !.dirty = TRUE] ELSE tx[a]) \in Transactions \cup {None}
    BY Dirtied, AskTypes
  <2> QED BY <1>1, <2>1
<1>4. /\ state' \in [Questions -> {"none", "pending", "answered"}]
      /\ count' \in [Groups -> Nat \cup {None}] /\ stream' \in [Groups -> SUBSET Questions]
      /\ \A q \in Questions : GroupOf[q] = g => state'[q] = "none"
      /\ \A q \in Questions : GroupOf[q] # g => state'[q] = state[q]
      /\ stream'[g] = {} /\ \A h \in Groups : h # g => stream'[h] = stream[h] /\ count'[h] = count[h]
      /\ count'[g] = None
  BY <1>1, AskTypes
<1>5. TxCurrent'
  <2>1. ASSUME NEW a \in Actors, tx'[a] # None
        PROVE  \/ tx'[a] = tx[a] /\ (tx[a].at \in Watched =>
                       state'[tx[a].q] = state[tx[a].q] /\ count'[GroupOf[tx[a].q]] = count[GroupOf[tx[a].q]])
               \/ tx[a] # None /\ tx'[a] = [tx[a] EXCEPT !.dirty = TRUE]
    <3>1. CASE tx[a] # None /\ tx[a].at \in Watched /\ GroupOf[tx[a].q] = g
      BY <1>1, <3>1
    <3>2. CASE ~(tx[a] # None /\ tx[a].at \in Watched /\ GroupOf[tx[a].q] = g)
      <4>1. tx'[a] = tx[a] /\ tx[a] # None
        BY <1>1, <2>1, <3>2
      <4>2. tx[a].q \in Questions /\ GroupOf[tx[a].q] \in Groups
        BY <4>1, TxTypes
      <4> QED BY <1>4, <3>2, <4>1, <4>2
    <3> QED BY <3>1, <3>2
  <2> QED BY <1>3, <2>1, TxSpoilt
<1>6. Types'
  BY <1>1, <1>2, <1>3, <1>4, AskTypes DEF Types
<1>7. \A q \in Questions : state'[q] \in {"none", state[q]}
  BY <1>4
<1>8. Asked' /\ Streamed'
  <2>1. Asked'
    BY <1>1, <1>7 DEF AskInv, Asked
  <2>2. ASSUME NEW q \in Questions, state'[q] # "none" PROVE q \in stream'[GroupOf[q]]
    BY <1>4, <2>2, AskTypes DEF AskInv, Streamed
  <2> QED BY <2>1, <2>2 DEF Streamed
<1>9. Counted'
  <2>1. Pendings' \subseteq Pendings /\ IsFiniteSet(Pendings)
    BY <1>7 DEF Pendings, AskInv, Counted
  <2>2. IsFiniteSet(Pendings')
    BY <2>1, FS_Subset
  <2>3. ASSUME NEW h \in Groups PROVE count'[h] = IF PendingIn(h)' = {} THEN None ELSE Cardinality(PendingIn(h)')
    <3>1. CASE h = g
      BY <1>4, <3>1 DEF PendingIn
    <3>2. CASE h # g
      <4>1. PendingIn(h)' = PendingIn(h)
        BY <1>4, <3>2 DEF PendingIn
      <4> QED BY <1>4, <3>2, <4>1, PendingFacts
    <3> QED BY <3>1, <3>2
  <2>4. CountExact'
    BY <2>3 DEF CountExact
  <2> QED BY <2>2, <2>4 DEF Counted
<1>10. Told'
  BY <1>1, <1>7 DEF AskInv, Told, IsAdd, IsEnd
<1>11. Opened'
  <2>1. open' \in SUBSET open
    BY <1>1
  <2> QED BY <1>1, <1>2, <1>7, <2>1, AskTypes, OpenedKept
<1>12. ShownRight'
  <2> SUFFICES ASSUME NEW x \in view.shown PROVE state'[x] = "pending" \/ EndAhead(x)' \/ Gone(x)'
    BY <1>1 DEF ShownRight
  <2>1. x \in Questions /\ (state[x] = "pending" \/ EndAhead(x) \/ Gone(x)) /\ GroupOf[x] \in Groups
    BY ViewTypes, AskTypes DEF AskInv, ShownRight
  <2>2. EndAhead(x) => EndAhead(x)'
    BY <1>1 DEF EndAhead, IsEnd
  <2>3. Gone(x) => Gone(x)'
    BY <1>1, <1>4, <2>1 DEF Gone, Past
  <2>4. state[x] = "pending" /\ GroupOf[x] = g => Gone(x)'
    BY <1>1, <1>4, <2>1 DEF Gone, Past, AskInv, Streamed
  <2> QED BY <1>4, <2>1, <2>2, <2>3, <2>4
<1> QED BY <1>1, <1>5, <1>6, <1>7, <1>8, <1>9, <1>10, <1>11, <1>12 DEF AskInv

----------------------------------------------------------------------------
(* Every step. *)

LEMMA AskInit == Init => AskInv
<1> SUFFICES ASSUME Init PROVE AskInv
  OBVIOUS
<1>1. budget \in Scenario
  BY InteractionConstants DEF Init
<1>2. /\ Pendings = {} /\ \A g \in Groups : PendingIn(g) = {} /\ count[g] = None
  BY DEF Init, Pendings, PendingIn
<1>3. Types
  BY <1>1, NoViewTypes, InteractionConstants DEF Init, Types, Unasked
<1>4. Asked /\ Streamed /\ Told /\ ShownRight /\ TxCurrent
  BY NoViewTypes, InteractionConstants DEF Init, Asked, Streamed, Told, ShownRight, TxCurrent
<1>5. Counted
  BY <1>2, FS_EmptySet DEF Counted, CountExact
<1>6. Opened
  <2>1. LiveOpen = {} /\ open = {}
    BY DEF Init, LiveOpen
  <2>2. budget.limit # None => budget.limit \in Nat
    BY <1>1 DEF Scenario
  <2>3. IsFiniteSet({}) /\ Cardinality({}) = 0
    BY FS_EmptySet
  <2>4. \A q \in Questions : state[q] = "none" /\ waiter[q] = "new"
    BY DEF Init
  <2> QED BY <2>1, <2>2, <2>3, <2>4 DEF Opened
<1> QED BY <1>3, <1>4, <1>5, <1>6 DEF AskInv

LEMMA PruneEndInv ==
    ASSUME AskInv, NEW q \in Questions, PruneEnd(q)
    PROVE  AskInv'
<1>1. /\ tx[q] # None /\ UNCHANGED <<now, view, budget>>
      /\ \/ Exec(q) \/ (Skipped(q) /\ UNCHANGED <<storeVars, claimed>>) \/ (Torn(q) /\ UNCHANGED <<storeVars, claimed>>)
  BY DEF PruneEnd
<1>2. /\ waiter' \in [Questions -> Unasked \cup Blocked \cup Ended]
      /\ \A x \in Questions : waiter'[x] \in Unasked => waiter'[x] = waiter[x]
  <2>1. PICK at \in {"raised", "recorded"} : waiter' = [waiter EXCEPT ![q] = at]
    BY DEF PruneEnd, AfterPrune, Goto
  <2>2. at \in (Blocked \cup Ended) /\ at \notin Unasked
    BY DEF Blocked, Waiting, Ended, Unasked
  <2> QED BY <2>1, <2>2, AskTypes
<1> QED BY <1>1, <1>2, ActorSet, ExecInv, NothingDoneInv

LEMMA AnswerEndInv ==
    ASSUME AskInv, NEW a \in Answerers, AnswerEnd(a)
    PROVE  AskInv'
<1>1. /\ tx[a] # None /\ UNCHANGED <<now, waiter, view, budget>> /\ a \in Actors
      /\ \/ Exec(a) \/ ((Skipped(a) \/ Torn(a)) /\ UNCHANGED <<storeVars, claimed>>)
  BY DEF AnswerEnd, Actors
<1> QED BY <1>1, AskTypes, ExecInv, NothingDoneInv

LEMMA BacklogPrunedInv ==
    ASSUME AskInv, BacklogPruned
    PROVE  AskInv'
<1>1. /\ tx["inbox"] # None /\ UNCHANGED <<now, waiter, budget>> /\ "inbox" \in Actors
      /\ \/ Exec("inbox") /\ UNCHANGED view
         \/ Skipped("inbox") /\ UNCHANGED <<storeVars, claimed, view>>
         \/ Torn("inbox") /\ view' = NoView /\ UNCHANGED <<storeVars, claimed>>
  BY DEF BacklogPruned, Actors
<1>2. CASE Exec("inbox") /\ UNCHANGED view
  BY <1>1, <1>2, AskTypes, ExecInv
<1>3. CASE Skipped("inbox") /\ UNCHANGED <<storeVars, claimed, view>>
  BY <1>1, <1>3, AskTypes, NothingDoneInv
<1>4. CASE Torn("inbox") /\ view' = NoView /\ UNCHANGED <<storeVars, claimed>>
  <2>1. tx' = [tx EXCEPT !["inbox"] = None]
    BY <1>4 DEF Torn
  <2>2. tx' \in [Actors -> Transactions \cup {None}] /\ TxCurrent'
    BY <1>1, <1>4, <2>1, TxDropped DEF storeVars
  <2>3. Types'
    BY <1>1, <1>4, <2>2, AskTypes, NoViewTypes DEF Types, storeVars
  <2>4. ShownRight' /\ view'.shown = {}
    BY <1>4, NoViewTypes DEF ShownRight
  <2> QED BY <1>1, <1>4, <2>2, <2>3, <2>4, AskTypes, StoreKept DEF storeVars
<1> QED BY <1>1, <1>2, <1>3, <1>4

LEMMA InboxStepInv ==
    ASSUME AskInv, InboxStep
    PROVE  AskInv'
<1>1. "inbox" \in Actors
  BY DEF Actors
<1> QED BY <1>1, ConnectInv, BacklogMovesInv, BacklogPhantomInv, BacklogStatesInv, BacklogPruneInv, BacklogPrunedInv,
           TailEventInv, ReadInv DEF InboxStep

LEMMA AskStepInv ==
    ASSUME AskInv, NEW q \in Questions, AskStep(q) \/ Cancel(q) \/ Kill(q) \/ TicketExpires(q) \/ ReplyExpires(q)
    PROVE  AskInv'
BY ActorSet, AskInvKept, AddPurgeInv, AddWriteInv, WaiterStepInv, PruneBeginInv, ReadInv, PruneEndInv, KillInv, KeyExpiresInv
   DEF AskStep

LEMMA AnswererInv ==
    ASSUME AskInv, NEW a \in Answerers,
           \/ \E q \in Questions : HumanDoor(a, q) \/ CallbackDoor(a, q)
           \/ CallbackState(a) \/ ClaimBegin(a) \/ ReadCount(a) \/ AnswerEnd(a) \/ Retry(a)
    PROVE  AskInv'
<1>1. a \in Actors
  BY DEF Actors
<1> QED BY <1>1, DoorInv, CallbackStateInv, ClaimBeginInv, ReadInv, AnswerEndInv

LEMMA AskNext == AskInv /\ [Next]_vars => AskInv'
<1> SUFFICES ASSUME AskInv, [Next]_vars PROVE AskInv'
  OBVIOUS
<1>1. CASE UNCHANGED vars
  <2>1. Types'
    BY <1>1, AskTypes DEF Types, vars, storeVars
  <2>2. TxCurrent'
    BY <1>1, AskTypes, TxSame DEF vars, storeVars
  <2> QED BY <1>1, <2>1, <2>2, AskTypes, StoreKept DEF vars, storeVars
<1>2. CASE Next
  BY <1>2, AskStepInv, AnswererInv, InboxStepInv, TickInv, GroupExpiresInv DEF Next
<1> QED BY <1>1, <1>2

(* Asks, answers, prunes, expiring keys and an inbox, in any order, keep the store's invariant. *)
THEOREM StoreOfQuestions == Spec => []AskInv
BY AskInit, AskNext, PTL DEF Spec

(* The keys agree with the questions they stand for: each group's count is the number of its pending
   questions, and no more are open in time than max_concurrent allows. *)
THEOREM CountsAndCap == Spec => [](TypeOK /\ CountExact /\ CapHolds)
<1>1. AskInv => TypeOK /\ CountExact /\ CapHolds
  <2> SUFFICES ASSUME AskInv PROVE TypeOK /\ CountExact /\ CapHolds
    OBVIOUS
  <2>1. TypeOK
    <3>1. now \in 0..MaxNow /\ view.cursor \in 0..Len(events)
      BY AskTypes, ViewTypes
    <3> QED BY <3>1, AskTypes, ViewTypes DEF TypeOK, Unasked, EventSet
  <2>2. CapHolds
    <3> DEFINE S == {q \in Questions : state[q] = "pending" /\ ~Past(q)}
    <3> SUFFICES ASSUME budget.limit # None PROVE Cardinality(S) <= budget.limit
      BY DEF CapHolds
    <3>1. IsFiniteSet(open) /\ Cardinality(LiveOpen) <= budget.limit /\ budget.limit \in Nat /\ LiveOpen \subseteq open
      BY BudgetTypes DEF AskInv, Opened, LiveOpen
    <3>2. S \subseteq LiveOpen
      BY DEF AskInv, Opened, LiveOpen
    <3> HIDE DEF S
    <3>3. IsFiniteSet(LiveOpen)
      BY <3>1, FS_Subset
    <3>4. IsFiniteSet(S) /\ Cardinality(S) <= Cardinality(LiveOpen)
      BY <3>2, <3>3, FS_Subset
    <3>5. Cardinality(S) \in Nat /\ Cardinality(LiveOpen) \in Nat
      BY <3>3, <3>4, FS_CardinalityType
    <3> QED BY <3>1, <3>4, <3>5
  <2> QED BY <2>1, <2>2 DEF AskInv, Counted
<1> QED BY <1>1, StoreOfQuestions, PTL

(* An answer is recorded once and stands until its keys expire, whatever comes in late. *)
THEOREM AnswersStand == Spec => AnsweredOnce
<1>1. ASSUME AskInv, [Next]_vars, AskInv', NEW q \in Questions, claimed[q] # None
      PROVE  claimed'[q] = claimed[q] /\ state'[q] # "pending"
  <2>1. ASSUME NEW a \in Actors, tx[a] # None, Exec(a) PROVE claimed'[q] = claimed[q]
    <3>1. state[q] # "pending"
      BY <1>1 DEF AskInv, Asked
    <3>2. claimed' = claimed \/ \E x \in Questions : state[x] = "pending" /\ claimed' = [claimed EXCEPT ![x] = a]
      BY <1>1, <2>1, ExecFacts
    <3> QED BY <1>1, <3>1, <3>2, AskTypes
  <2>2. ASSUME NEW x \in Questions, AskStep(x) \/ Cancel(x) \/ Kill(x) \/ TicketExpires(x) \/ ReplyExpires(x)
        PROVE  claimed'[q] = claimed[q]
    BY <2>1, <2>2, ActorSet
       DEF AskStep, Ask, AddPurge, AddWrite, Deliver, TakeReply, WaitTimesOut, PruneBegin, ReadCount, PruneEnd, Retry,
           Cancel, Kill, TicketExpires, ReplyExpires
  <2>3. ASSUME NEW a \in Answerers,
               \/ \E x \in Questions : HumanDoor(a, x) \/ CallbackDoor(a, x)
               \/ CallbackState(a) \/ ClaimBegin(a) \/ ReadCount(a) \/ AnswerEnd(a) \/ Retry(a)
        PROVE  claimed'[q] = claimed[q]
    BY <2>1, <2>3 DEF Actors, HumanDoor, CallbackDoor, CallbackState, ClaimBegin, ReadCount, AnswerEnd, Retry
  <2>4. ASSUME InboxStep PROVE claimed'[q] = claimed[q]
    BY <2>1, <2>4
       DEF Actors, InboxStep, Connect, BacklogBegin, BacklogGroup, BacklogPhantom, BacklogStates, BacklogPrune,
           BacklogPruned, BacklogNext, BacklogDone, TailEvent, Disconnect, ReadCount, Retry
  <2>5. Tick \/ (\E g \in Groups : GroupExpires(g)) \/ UNCHANGED vars => claimed'[q] = claimed[q]
    BY DEF Tick, GroupExpires, vars
  <2>6. claimed'[q] = claimed[q]
    BY <1>1, <2>2, <2>3, <2>4, <2>5 DEF Next
  <2>7. Asked'
    BY <1>1 DEF AskInv
  <2>8. claimed'[q] # None => state'[q] # "pending"
    BY <2>7 DEF Asked
  <2> QED BY <1>1, <2>6, <2>8
<1>2. AskInv /\ [Next]_vars /\ AskInv'
      => [\A q \in Questions : claimed[q] # None => claimed'[q] = claimed[q] /\ state'[q] # "pending"]_vars
  BY <1>1
<1> QED BY <1>2, StoreOfQuestions, PTL DEF Spec, AnsweredOnce

----------------------------------------------------------------------------
(* The inbox, where no group's keys expire under it. *)

LEMMA IndexKept ==
    ASSUME AskInv, LiveGroupIndexed, UNCHANGED <<pending, deadline>>, now' \in Nat, now <= now',
           \A q \in Questions : state'[q] = "pending" => state[q] = "pending"
    PROVE  LiveGroupIndexed'
BY PastKept DEF LiveGroupIndexed

LEMMA MissedKept ==
    ASSUME AskInv, NoneMissed, UNCHANGED <<events, view>>, now' \in Nat, now <= now',
           \A q \in Questions : state'[q] = "pending" => state[q] = "pending"
    PROVE  NoneMissed'
<1> SUFFICES ASSUME NEW q \in Questions, state'[q] = "pending", ~(Past(q)'), view'.at \notin {"off", "cursor"}
             PROVE  q \in view.shown \/ AddAhead(q)' \/ ToRead(q)'
  BY DEF NoneMissed
<1>1. q \in view.shown \/ AddAhead(q) \/ ToRead(q)
  BY PastKept DEF NoneMissed
<1> QED BY <1>1 DEF AddAhead, IsAdd, ToRead

\* The inbox is not touched, nor what it depends on.
LEMMA InboxKept ==
    ASSUME AskInv, InboxInv, AskInv', UNCHANGED <<pending, deadline, stream, events, view>>, now <= now',
           budget'.expiries = budget.expiries, budget'.connects = budget.connects,
           \A q \in Questions : state'[q] = "pending" => state[q] = "pending"
    PROVE  InboxInv'
<1>1. now' \in Nat
  BY DEF AskInv, Types
<1>2. LiveGroupIndexed' /\ NoneMissed'
  BY <1>1, IndexKept, MissedKept DEF InboxInv
<1> QED BY <1>2 DEF InboxInv, NoPhantom, TailRead

\* An open inbox never meets a phantom, so only the rest of its claims is left to show.
LEMMA InboxLooks ==
    ASSUME AskInv, InboxInv, UNCHANGED <<now, state, pending, deadline, stream, events>>,
           budget'.expiries = budget.expiries, view.at # "off" \/ budget.connects # 0,
           view'.at # "phantom", view'.groups \subseteq pending \cup view.groups
    PROVE  NoPhantom' /\ LiveGroupIndexed'
<1>1. budget.expiries = 0 /\ \A g \in pending \cup view.groups : stream[g] # {}
  BY DEF InboxInv, NoPhantom
<1>2. NoPhantom'
  BY <1>1 DEF NoPhantom
<1> QED BY <1>2, AskTypes, IndexKept DEF InboxInv

LEMMA KillInbox == ASSUME AskInv, InboxInv, AskInv', NEW q \in Questions, Kill(q) PROVE InboxInv'
<1>1. budget \in Scenario /\ budget.kills > 0 /\ budget' = [budget EXCEPT !.kills = budget.kills - 1]
  BY AskTypes DEF Kill, Spend
<1>2. budget'.expiries = budget.expiries /\ budget'.connects = budget.connects
  BY <1>1 DEF Scenario
<1> QED BY <1>2, AskTypes, InboxKept DEF Kill, storeVars

LEMMA AddPurgeInbox == ASSUME AskInv, InboxInv, AskInv', NEW q \in Questions, AddPurge(q) PROVE InboxInv'
<1>1. /\ pending' = pending \ Phantoms(q)
      /\ deadline' = [g \in Groups |-> IF g \in Phantoms(q) THEN 0 ELSE deadline[g]]
      /\ UNCHANGED <<now, state, stream, events, view, budget>>
  BY DEF AddPurge
<1>2. LiveGroupIndexed'
  <2> SUFFICES ASSUME NEW x \in Questions, state[x] = "pending", ~Past(x)
               PROVE  GroupOf[x] \in pending' /\ deadline'[GroupOf[x]] >= Deadline[x]
    BY <1>1 DEF LiveGroupIndexed, Past
  <2>1. GroupOf[x] \in Groups /\ GroupOf[x] \in pending /\ deadline[GroupOf[x]] >= Deadline[x]
    BY AskTypes DEF InboxInv, LiveGroupIndexed
  <2>2. deadline[GroupOf[x]] \in Nat /\ Deadline[x] \in Nat /\ now \in Nat
    BY <2>1, AskTypes
  <2>3. GroupOf[x] \notin Phantoms(q)
    BY <2>1, <2>2 DEF Phantoms, Past
  <2> QED BY <1>1, <2>1, <2>3
<1>3. NoneMissed'
  BY <1>1, AskTypes, MissedKept DEF InboxInv
<1> QED BY <1>1, <1>2, <1>3 DEF InboxInv, NoPhantom, TailRead

LEMMA AddWriteInbox == ASSUME AskInv, InboxInv, AskInv', NEW q \in Questions, AddWrite(q) PROVE InboxInv'
<1> DEFINE g == GroupOf[q]
<1>1. /\ waiter[q] = "purged" /\ state' = [state EXCEPT ![q] = "pending"]
      /\ stream' = [stream EXCEPT ![g] = stream[g] \cup {q}] /\ pending' = pending \cup {g}
      /\ deadline' = [deadline EXCEPT ![g] = Extended(g, Deadline[q])]
      /\ events' = Append(events, [type |-> "add", q |-> q]) /\ UNCHANGED <<now, view, budget>>
  BY AskTypes DEF AddWrite, Emit
<1>2. /\ g \in Groups /\ deadline[g] \in Nat /\ Deadline[q] \in Nat
      /\ \A x \in Questions : x # q => state'[x] = state[x]
      /\ \A h \in Groups : h # g => deadline'[h] = deadline[h]
      /\ deadline'[g] = Extended(g, Deadline[q])
      /\ \A h \in Groups : stream[h] \subseteq stream'[h] /\ (h = g => stream'[h] # {})
  <2>1. g \in Groups /\ deadline[g] \in 0..MaxNow /\ Deadline[q] \in 1..MaxNow /\ MaxNow \in Nat
    BY AskTypes
  <2>2. \A x \in Questions : x # q => state'[x] = state[x]
    BY <1>1, AskTypes
  <2>3. deadline'[g] = Extended(g, Deadline[q]) /\ \A h \in Groups : h # g => deadline'[h] = deadline[h]
    BY <1>1, <2>1, AskTypes
  <2>4. stream'[g] = stream[g] \cup {q} /\ \A h \in Groups : h # g => stream'[h] = stream[h]
    BY <1>1, <2>1, AskTypes
  <2> HIDE DEF g
  <2> QED BY <2>1, <2>2, <2>3, <2>4
<1>3. deadline'[g] >= Deadline[q] /\ deadline'[g] >= deadline[g] /\ deadline'[g] \in Nat
  BY <1>2 DEF Extended
<1>4. LiveGroupIndexed'
  <2> SUFFICES ASSUME NEW x \in Questions, state'[x] = "pending", ~Past(x)
               PROVE  GroupOf[x] \in pending' /\ deadline'[GroupOf[x]] >= Deadline[x]
    BY <1>1 DEF LiveGroupIndexed, Past
  <2>1. CASE x = q
    BY <1>1, <1>3, <2>1
  <2>2. CASE x # q
    <3>1. /\ GroupOf[x] \in pending /\ deadline[GroupOf[x]] >= Deadline[x] /\ GroupOf[x] \in Groups
          /\ deadline[GroupOf[x]] \in Nat /\ Deadline[x] \in Nat
      BY <1>2, <2>2, AskTypes DEF InboxInv, LiveGroupIndexed
    <3>2. deadline'[GroupOf[x]] >= deadline[GroupOf[x]] /\ deadline'[GroupOf[x]] \in Nat
      BY <1>2, <1>3, <3>1
    <3> HIDE DEF g
    <3> QED BY <1>1, <3>1, <3>2
  <2> QED BY <2>1, <2>2
<1>5. NoPhantom'
  <2>1. CASE view.at = "off" /\ budget.connects = 0
    BY <1>1, <2>1 DEF NoPhantom
  <2>2. CASE budget.expiries = 0 /\ view.at # "phantom" /\ \A h \in pending \cup view.groups : stream[h] # {}
    <3>1. \A h \in pending' \cup view.groups : h \in Groups /\ (h = g \/ h \in pending \cup view.groups)
      BY <1>1, <1>2, AskTypes, ViewTypes
    <3>2. \A h \in pending' \cup view'.groups : stream'[h] # {}
      BY <1>1, <1>2, <2>2, <3>1
    <3> QED BY <1>1, <2>2, <3>2 DEF NoPhantom
  <2> QED BY <2>1, <2>2 DEF InboxInv, NoPhantom
<1> PICK n \in Nat : n = Len(events) + 1
  BY AskTypes
<1>6. /\ n \in 1..Len(events') /\ IsAdd(n, q)' /\ n > view.cursor
      /\ \A i \in 1..Len(events) : i \in 1..Len(events') /\ events'[i] = events[i]
  <2>1. PICK e \in EventSet : e = [type |-> "add", q |-> q]
    BY DEF EventSet
  <2>2. /\ events'[n] = e /\ n \in 1..Len(events')
        /\ \A i \in 1..Len(events) : i \in 1..Len(events') /\ events'[i] = events[i]
    BY <1>1, <2>1, Appended
  <2> QED BY <2>1, <2>2, ViewTypes, AskTypes DEF IsAdd
<1>7. NoneMissed'
  <2> SUFFICES ASSUME NEW x \in Questions, state'[x] = "pending", ~Past(x), view.at \notin {"off", "cursor"}
               PROVE  x \in view.shown \/ AddAhead(x)' \/ ToRead(x)'
    BY <1>1 DEF NoneMissed, Past
  <2>1. CASE x = q
    BY <1>1, <1>6, <2>1 DEF AddAhead
  <2>2. CASE x # q
    <3>1. x \in view.shown \/ AddAhead(x) \/ ToRead(x)
      BY <1>2, <2>2 DEF InboxInv, NoneMissed
    <3>2. AddAhead(x) => AddAhead(x)'
      BY <1>1, <1>6 DEF AddAhead, IsAdd
    <3> QED BY <1>1, <3>1, <3>2 DEF ToRead
  <2> QED BY <2>1, <2>2
<1> QED BY <1>1, <1>4, <1>5, <1>7 DEF InboxInv, TailRead

LEMMA ExecInbox ==
    ASSUME AskInv, InboxInv, AskInv', NEW a \in Actors, tx[a] # None, Exec(a), UNCHANGED <<now, view, budget>>
    PROVE  InboxInv'
<1>1. PICK q \in Questions, s \in {"none", "answered"}, type \in {"answered", "removed"}, last \in BOOLEAN :
              /\ state[q] = "pending" /\ (last <=> count[GroupOf[q]] <= 1)
              /\ state' = [state EXCEPT ![q] = s] /\ Decrement(GroupOf[q], last)
              /\ open' = open \ {q} /\ events' = Append(events, [type |-> type, q |-> q])
              /\ tx' = [Spoil(q) EXCEPT ![a] = None]
              /\ reply' \in SUBSET Questions /\ UNCHANGED <<ticket, stream>>
              /\ claimed' = claimed \/ (s = "answered" /\ a \in Answerers /\ claimed' = [claimed EXCEPT ![q] = a])
  BY ExecFacts
<1> DEFINE g == GroupOf[q]
<1>2. /\ count' = [count EXCEPT ![g] = IF last THEN None ELSE count[g] - 1]
      /\ pending' = IF last THEN pending \ {g} ELSE pending
      /\ deadline' = IF last THEN [deadline EXCEPT ![g] = 0] ELSE deadline
      /\ g \in Groups
  BY <1>1, AskTypes DEF Decrement
<1>3. last => PendingIn(g)' = {}
  BY <1>1, <1>2, CountedSettled
<1>4. \A x \in Questions : state'[x] = "pending" => state[x] = "pending"
  BY <1>1, AskTypes
<1>5. LiveGroupIndexed'
  <2> SUFFICES ASSUME NEW x \in Questions, state'[x] = "pending", ~Past(x)
               PROVE  GroupOf[x] \in pending' /\ deadline'[GroupOf[x]] >= Deadline[x]
    BY DEF LiveGroupIndexed, Past
  <2>1. GroupOf[x] \in Groups /\ GroupOf[x] \in pending /\ deadline[GroupOf[x]] >= Deadline[x]
    BY <1>4, AskTypes DEF InboxInv, LiveGroupIndexed
  <2>2. last => GroupOf[x] # g
    BY <1>3 DEF PendingIn
  <2>3. deadline'[GroupOf[x]] = deadline[GroupOf[x]]
    BY <1>2, <2>1, <2>2, AskTypes
  <2> QED BY <1>2, <2>1, <2>2, <2>3
<1>6. NoPhantom'
  <2>1. pending' \subseteq pending
    BY <1>2
  <2> QED BY <1>1, <2>1 DEF InboxInv, NoPhantom
<1>7. \A i \in 1..Len(events) : i \in 1..Len(events') /\ events'[i] = events[i]
  <2>1. PICK e \in EventSet : e = [type |-> type, q |-> q]
    BY DEF EventSet
  <2> QED BY <1>1, <2>1, Appended
<1>8. NoneMissed'
  <2> SUFFICES ASSUME NEW x \in Questions, state'[x] = "pending", ~Past(x), view.at \notin {"off", "cursor"}
               PROVE  x \in view.shown \/ AddAhead(x)' \/ ToRead(x)'
    BY DEF NoneMissed, Past
  <2>1. x \in view.shown \/ AddAhead(x) \/ ToRead(x)
    BY <1>4 DEF InboxInv, NoneMissed
  <2>2. AddAhead(x) => AddAhead(x)'
    BY <1>7 DEF AddAhead, IsAdd
  <2> QED BY <2>1, <2>2 DEF ToRead
<1> QED BY <1>5, <1>6, <1>8 DEF InboxInv, TailRead

\* Nothing expires under an open inbox; otherwise what was pending goes.
LEMMA GroupExpiresInbox ==
    ASSUME AskInv, InboxInv, AskInv', NEW g \in Groups, GroupExpires(g)
    PROVE  InboxInv'
<1>1. /\ UNCHANGED <<now, waiter, pending, deadline, events, view, claimed>> /\ budget.expiries > 0
      /\ \A q \in Questions : state'[q] = "pending" => state[q] = "pending"
  BY GroupExpiresInv
<1>2. view.at = "off" /\ budget.connects = 0
  BY <1>1, BudgetTypes DEF InboxInv, NoPhantom
<1>3. budget'.connects = budget.connects
  <2>1. budget \in Scenario /\ budget.expiries > 0 /\ budget' = [budget EXCEPT !.expiries = budget.expiries - 1]
    BY AskTypes DEF GroupExpires, Spend
  <2> QED BY <2>1 DEF Scenario
<1>4. LiveGroupIndexed' /\ NoneMissed'
  BY <1>1, AskTypes, IndexKept, MissedKept DEF InboxInv
<1>5. NoPhantom'
  BY <1>1, <1>2, <1>3 DEF NoPhantom
<1> QED BY <1>1, <1>4, <1>5 DEF InboxInv, TailRead

LEMMA ConnectInbox == ASSUME AskInv, InboxInv, Connect PROVE InboxInv'
<1>1. /\ view' = [NoView EXCEPT !.at = "cursor", !.cursor = Len(events)] /\ view'.at = "cursor"
      /\ UNCHANGED <<now, waiter, storeVars, tx, claimed>>
      /\ budget.connects > 0 /\ budget'.expiries = budget.expiries
  BY ConnectInv
<1>2. view'.groups = {}
  BY <1>1 DEF NoView
<1>3. budget.connects # 0
  BY <1>1, BudgetTypes
<1>4. NoPhantom' /\ LiveGroupIndexed'
  BY <1>1, <1>2, <1>3, InboxLooks DEF storeVars
<1> QED BY <1>1, <1>2, <1>4 DEF InboxInv, NoneMissed, TailRead

LEMMA BacklogBeginInbox == ASSUME AskInv, InboxInv, BacklogBegin PROVE InboxInv'
<1>1. /\ view.at = "cursor" /\ view \in Views /\ view' = [view EXCEPT !.at = "groups", !.groups = pending, !.since = now]
      /\ UNCHANGED <<now, waiter, storeVars, tx, claimed, budget>>
  BY AskTypes DEF BacklogBegin
<1>2. view'.at = "groups" /\ view'.groups = pending
  BY <1>1 DEF Views
<1>3. NoPhantom' /\ LiveGroupIndexed'
  BY <1>1, <1>2, InboxLooks DEF storeVars
<1>4. NoneMissed'
  <2> SUFFICES ASSUME NEW q \in Questions, state[q] = "pending", ~Past(q) PROVE ToRead(q)'
    BY <1>1 DEF NoneMissed, Past, storeVars
  <2>1. GroupOf[q] \in pending
    BY DEF InboxInv, LiveGroupIndexed
  <2> QED BY <1>2, <2>1 DEF ToRead
<1> QED BY <1>2, <1>3, <1>4 DEF InboxInv, TailRead

LEMMA BacklogGroupInbox == ASSUME AskInv, InboxInv, NEW g \in Groups, BacklogGroup(g) PROVE InboxInv'
<1>1. /\ view.at = "groups" /\ g \in view.groups /\ UNCHANGED <<now, waiter, storeVars, tx, claimed, budget>>
  BY DEF BacklogGroup
<1>2. stream[g] # {}
  BY <1>1 DEF InboxInv, NoPhantom
<1>3. /\ view \in Views /\ stream[g] \in SUBSET Questions
      /\ view' = [view EXCEPT !.groups = view.groups \ {g}, !.group = g, !.entries = stream[g], !.at = "states"]
  BY <1>2, AskTypes DEF BacklogGroup
<1>4. /\ view'.at = "states" /\ view'.groups = view.groups \ {g} /\ view'.group = g /\ view'.entries = stream[g]
      /\ view'.cursor = view.cursor /\ view'.shown = view.shown
  BY <1>3 DEF Views
<1>5. NoPhantom' /\ LiveGroupIndexed'
  BY <1>1, <1>4, InboxLooks DEF storeVars
<1>6. NoneMissed'
  <2> SUFFICES ASSUME NEW q \in Questions, state[q] = "pending", ~Past(q)
               PROVE  q \in view'.shown \/ AddAhead(q)' \/ ToRead(q)'
    BY <1>1 DEF NoneMissed, Past, storeVars
  <2>1. (q \in view.shown \/ AddAhead(q) \/ GroupOf[q] \in view.groups) /\ q \in stream[GroupOf[q]]
    BY <1>1 DEF InboxInv, NoneMissed, ToRead, AskInv, Streamed
  <2>2. AddAhead(q) => AddAhead(q)'
    BY <1>1, <1>4 DEF AddAhead, IsAdd, storeVars
  <2>3. GroupOf[q] \in view.groups => ToRead(q)'
    BY <1>4, <2>1 DEF ToRead
  <2> QED BY <1>4, <2>1, <2>2, <2>3
<1> QED BY <1>4, <1>5, <1>6 DEF InboxInv, TailRead

LEMMA BacklogStatesInbox == ASSUME AskInv, InboxInv, BacklogStates PROVE InboxInv'
<1> DEFINE seen == PendingIn(view.group) \cap view.entries
           late == {q \in seen : Deadline[q] <= view.since}
<1>1. /\ view.at = "states" /\ UNCHANGED <<now, waiter, storeVars, tx, claimed, budget>>
      /\ view \in Views /\ view.shown \in SUBSET Questions
      /\ view' = [view EXCEPT !.shown = view.shown \cup (seen \ late), !.late = late, !.at = "prune"]
  BY AskTypes, ViewTypes DEF BacklogStates
<1>2. /\ view'.at = "prune" /\ view'.groups = view.groups /\ view'.cursor = view.cursor
      /\ view'.shown = view.shown \cup (seen \ late)
  <2> HIDE DEF seen, late
  <2> QED BY <1>1 DEF Views
<1>3. NoPhantom' /\ LiveGroupIndexed'
  BY <1>1, <1>2, InboxLooks DEF storeVars
<1>4. NoneMissed'
  <2> SUFFICES ASSUME NEW q \in Questions, state[q] = "pending", ~Past(q)
               PROVE  q \in view'.shown \/ AddAhead(q)' \/ ToRead(q)'
    BY <1>1 DEF NoneMissed, Past, storeVars
  <2>1. q \in view.shown \/ AddAhead(q) \/ ToRead(q)
    BY <1>1 DEF InboxInv, NoneMissed
  <2>2. AddAhead(q) => AddAhead(q)'
    BY <1>1, <1>2 DEF AddAhead, IsAdd, storeVars
  <2>3. GroupOf[q] \in view.groups => ToRead(q)'
    BY <1>2 DEF ToRead
  <2>4. ASSUME view.group = GroupOf[q], q \in view.entries PROVE q \in view'.shown
    <3>1. q \in seen
      BY <2>4 DEF PendingIn
    <3>2. ~(Deadline[q] <= view.since)
      <4>1. Deadline[q] \in Nat /\ now \in Nat /\ view.since \in Nat /\ view.since <= now
        BY AskTypes, ViewTypes
      <4> QED BY <4>1 DEF Past
    <3> QED BY <1>2, <3>1, <3>2
  <2> QED BY <1>2, <2>1, <2>2, <2>3, <2>4 DEF ToRead
<1> QED BY <1>2, <1>3, <1>4 DEF InboxInv, TailRead

\* The inbox goes on with the groups it has, and shows what it showed.
LEMMA InboxMoves ==
    ASSUME AskInv, InboxInv, UNCHANGED <<now, state, pending, deadline, stream, events, budget>>,
           view.at \notin {"off", "cursor", "states"}, view'.at \notin {"phantom", "states"},
           view'.groups = view.groups, view'.cursor = view.cursor, view'.shown = view.shown,
           view'.at = "tail" => view.groups = {}
    PROVE  InboxInv'
<1>1. NoPhantom' /\ LiveGroupIndexed'
  BY InboxLooks
<1>2. NoneMissed'
  <2> SUFFICES ASSUME NEW q \in Questions, state[q] = "pending", ~Past(q)
               PROVE  q \in view'.shown \/ AddAhead(q)' \/ ToRead(q)'
    BY DEF NoneMissed, Past
  <2>1. q \in view.shown \/ AddAhead(q) \/ GroupOf[q] \in view.groups
    BY DEF InboxInv, NoneMissed, ToRead
  <2>2. AddAhead(q) => AddAhead(q)'
    BY DEF AddAhead, IsAdd
  <2> QED BY <2>1, <2>2 DEF ToRead
<1> QED BY <1>1, <1>2 DEF InboxInv, TailRead

LEMMA BacklogMovesInbox == ASSUME AskInv, InboxInv, BacklogNext \/ BacklogDone PROVE InboxInv'
<1>1. /\ view \in Views /\ UNCHANGED <<now, state, pending, deadline, stream, events, budget>>
      /\ view.at \in {"prune", "groups"} /\ (BacklogDone => view.groups = {})
      /\ \/ BacklogNext /\ view' = [view EXCEPT !.at = "groups", !.group = None, !.entries = {}]
         \/ BacklogDone /\ view' = [view EXCEPT !.at = "tail"]
  BY AskTypes DEF BacklogNext, BacklogDone, storeVars
<1>2. CASE BacklogNext /\ view' = [view EXCEPT !.at = "groups", !.group = None, !.entries = {}]
  <2>1. view'.at = "groups" /\ view'.groups = view.groups /\ view'.cursor = view.cursor /\ view'.shown = view.shown
    BY <1>1, <1>2 DEF Views
  <2> QED BY <1>1, <2>1, InboxMoves
<1>3. CASE BacklogDone /\ view' = [view EXCEPT !.at = "tail"]
  <2>1. view'.at = "tail" /\ view'.groups = view.groups /\ view'.cursor = view.cursor /\ view'.shown = view.shown
    BY <1>1, <1>3 DEF Views
  <2> QED BY <1>1, <1>3, <2>1, InboxMoves
<1> QED BY <1>1, <1>2, <1>3

LEMMA BacklogPruneInbox == ASSUME AskInv, InboxInv, NEW q \in Questions, BacklogPrune(q) PROVE InboxInv'
<1>1. /\ view \in Views /\ view.at = "prune" /\ view' = [view EXCEPT !.late = view.late \ {q}]
      /\ UNCHANGED <<now, state, pending, deadline, stream, events, budget>>
  BY AskTypes DEF BacklogPrune, storeVars
<1>2. /\ view'.at = "prune" /\ view'.groups = view.groups /\ view'.cursor = view.cursor /\ view'.shown = view.shown
  BY <1>1 DEF Views
<1> QED BY <1>1, <1>2, InboxMoves

\* A stream that breaks off, or that the client closes, promises nothing until it is opened again.
LEMMA ClosedInbox ==
    ASSUME AskInv, InboxInv, UNCHANGED <<now, state, pending, deadline, stream, events, budget>>, view' = NoView
    PROVE  InboxInv'
<1>1. view'.at = "off" /\ view'.groups = {}
  BY NoViewTypes
<1>2. NoPhantom'
  BY <1>1 DEF InboxInv, NoPhantom
<1>3. LiveGroupIndexed'
  BY AskTypes, IndexKept DEF InboxInv
<1> QED BY <1>1, <1>2, <1>3 DEF InboxInv, NoneMissed, TailRead

LEMMA BacklogPrunedInbox == ASSUME AskInv, InboxInv, AskInv', BacklogPruned PROVE InboxInv'
<1>1. /\ tx["inbox"] # None /\ UNCHANGED <<now, waiter, budget>> /\ "inbox" \in Actors
      /\ \/ Exec("inbox") /\ UNCHANGED view
         \/ Skipped("inbox") /\ UNCHANGED <<storeVars, claimed, view>>
         \/ Torn("inbox") /\ view' = NoView /\ UNCHANGED <<storeVars, claimed>>
  BY DEF BacklogPruned, Actors
<1>2. CASE Exec("inbox") /\ UNCHANGED view
  BY <1>1, <1>2, ExecInbox
<1>3. CASE UNCHANGED <<storeVars, claimed, view>>
  BY <1>1, <1>3, AskTypes, InboxKept DEF storeVars
<1>4. CASE view' = NoView /\ UNCHANGED <<storeVars, claimed>>
  BY <1>1, <1>4, ClosedInbox DEF storeVars
<1> QED BY <1>1, <1>2, <1>3, <1>4

LEMMA TailEventInbox == ASSUME AskInv, InboxInv, TailEvent PROVE InboxInv'
<1> DEFINE e == events[view.cursor + 1]
           s == IF Shows(e) THEN view.shown \cup {e.q} ELSE IF e.type = "add" THEN view.shown ELSE view.shown \ {e.q}
<1>1. /\ view \in Views /\ view.at = "tail" /\ view.cursor < Len(events)
      /\ view' = [view EXCEPT !.cursor = view.cursor + 1, !.shown = s]
      /\ UNCHANGED <<now, waiter, storeVars, tx, claimed, budget>>
  BY AskTypes DEF TailEvent
<1> PICK n \in Nat : n = view.cursor + 1
  BY ViewTypes
<1>2. /\ view'.at = "tail" /\ view'.groups = view.groups /\ view'.cursor = n /\ view'.shown = s
  <2> HIDE DEF s
  <2> QED BY <1>1 DEF Views
<1>3. NoPhantom' /\ LiveGroupIndexed'
  BY <1>1, <1>2, InboxLooks DEF storeVars
<1>4. NoneMissed'
  <2> SUFFICES ASSUME NEW q \in Questions, state[q] = "pending", ~Past(q)
               PROVE  q \in view'.shown \/ AddAhead(q)' \/ ToRead(q)'
    BY <1>1 DEF NoneMissed, Past, storeVars
  <2>1. q \in view.shown \/ AddAhead(q)
    BY <1>1 DEF InboxInv, NoneMissed, ToRead, TailRead
  <2>2. n \in 1..Len(events) /\ view.cursor \in Nat /\ Len(events) \in Nat
    BY <1>1, ViewTypes, AskTypes
  <2>3. ASSUME q \in view.shown PROVE q \in s
    <3>1. e.type # "add" => e.q # q
      BY <2>2 DEF AskInv, Told, IsEnd
    <3> QED BY <2>3, <3>1
  <2>4. ASSUME NEW i \in 1..Len(events), i > view.cursor, IsAdd(i, q) PROVE q \in s \/ AddAhead(q)'
    <3>1. CASE i = n
      BY <2>4, <3>1 DEF IsAdd, Shows
    <3>2. CASE i # n
      <4>1. i > n
        BY <2>2, <2>4, <3>2
      <4> QED BY <1>1, <1>2, <2>4, <4>1 DEF AddAhead, IsAdd, storeVars
    <3> QED BY <3>1, <3>2
  <2> QED BY <1>2, <2>1, <2>3, <2>4 DEF AddAhead
<1> QED BY <1>1, <1>2, <1>3, <1>4 DEF InboxInv, TailRead

LEMMA InboxStepInbox == ASSUME AskInv, InboxInv, AskInv', InboxStep PROVE InboxInv'
<1>1. CASE Disconnect
  BY <1>1, ClosedInbox DEF Disconnect, storeVars
<1>2. CASE ReadCount("inbox") \/ Retry("inbox")
  BY <1>2, AskTypes, InboxKept DEF ReadCount, Retry, storeVars
<1>3. CASE BacklogPhantom
  BY <1>3 DEF BacklogPhantom, InboxInv, NoPhantom
<1> QED BY <1>1, <1>2, <1>3, ConnectInbox, BacklogBeginInbox, BacklogGroupInbox, BacklogStatesInbox, BacklogPruneInbox,
           BacklogPrunedInbox, BacklogMovesInbox, TailEventInbox DEF InboxStep

\* An asking task between its writes, and the doors.
LEMMA OthersInbox ==
    ASSUME AskInv, InboxInv, AskInv', UNCHANGED <<now, state, pending, deadline, stream, events, view, budget>>
    PROVE  InboxInv'
BY AskTypes, InboxKept

LEMMA AskStepInbox ==
    ASSUME AskInv, InboxInv, AskInv', NEW q \in Questions,
           AskStep(q) \/ Cancel(q) \/ Kill(q) \/ TicketExpires(q) \/ ReplyExpires(q)
    PROVE  InboxInv'
<1>1. CASE Ask(q) \/ Deliver(q) \/ TakeReply(q) \/ WaitTimesOut(q) \/ Cancel(q) \/ TicketExpires(q) \/ ReplyExpires(q)
  BY <1>1, OthersInbox DEF Ask, Deliver, TakeReply, WaitTimesOut, Cancel, TicketExpires, ReplyExpires, storeVars
<1>2. CASE PruneBegin(q) \/ ReadCount(q) \/ Retry(q)
  BY <1>2, OthersInbox DEF PruneBegin, ReadCount, Retry, storeVars
<1>3. CASE PruneEnd(q)
  <2>1. /\ tx[q] # None /\ UNCHANGED <<now, view, budget>> /\ q \in Actors
        /\ Exec(q) \/ UNCHANGED <<storeVars, claimed>>
    BY <1>3, ActorSet DEF PruneEnd
  <2>2. CASE Exec(q)
    BY <2>1, <2>2, ExecInbox
  <2>3. CASE UNCHANGED <<storeVars, claimed>>
    BY <2>1, <2>3, OthersInbox DEF storeVars
  <2> QED BY <2>1, <2>2, <2>3
<1> QED BY <1>1, <1>2, <1>3, AddPurgeInbox, AddWriteInbox, KillInbox DEF AskStep

LEMMA AnswererInbox ==
    ASSUME AskInv, InboxInv, AskInv', NEW a \in Answerers,
           \/ \E q \in Questions : HumanDoor(a, q) \/ CallbackDoor(a, q)
           \/ CallbackState(a) \/ ClaimBegin(a) \/ ReadCount(a) \/ AnswerEnd(a) \/ Retry(a)
    PROVE  InboxInv'
<1>1. CASE AnswerEnd(a)
  <2>1. /\ tx[a] # None /\ UNCHANGED <<now, view, budget>> /\ a \in Actors
        /\ Exec(a) \/ UNCHANGED <<storeVars, claimed>>
    BY <1>1 DEF AnswerEnd, Actors
  <2>2. CASE Exec(a)
    BY <2>1, <2>2, ExecInbox
  <2>3. CASE UNCHANGED <<storeVars, claimed>>
    BY <2>1, <2>3, OthersInbox DEF storeVars
  <2> QED BY <2>1, <2>2, <2>3
<1>2. CASE \/ \E q \in Questions : HumanDoor(a, q) \/ CallbackDoor(a, q)
           \/ CallbackState(a) \/ ClaimBegin(a) \/ ReadCount(a) \/ Retry(a)
  BY <1>2, OthersInbox DEF HumanDoor, CallbackDoor, CallbackState, ClaimBegin, ReadCount, Retry, storeVars
<1> QED BY <1>1, <1>2

LEMMA InboxNext == AskInv /\ InboxInv /\ AskInv' /\ [Next]_vars => InboxInv'
<1> SUFFICES ASSUME AskInv, InboxInv, AskInv', [Next]_vars PROVE InboxInv'
  OBVIOUS
<1>1. CASE UNCHANGED vars
  BY <1>1, OthersInbox DEF vars, storeVars
<1>2. CASE Tick
  BY <1>2, AskTypes, InboxKept DEF Tick, storeVars
<1>3. CASE Next
  BY <1>2, <1>3, AskStepInbox, AnswererInbox, InboxStepInbox, GroupExpiresInbox DEF Next
<1> QED BY <1>1, <1>3

LEMMA InboxInit ==
    ASSUME \A s \in Scenarios : s.expiries = 0 \/ s.connects = 0
    PROVE  Init => InboxInv
<1> SUFFICES ASSUME Init PROVE InboxInv
  OBVIOUS
<1>1. (budget.expiries = 0 \/ budget.connects = 0) /\ view = NoView /\ pending = {}
      /\ \A q \in Questions : state[q] = "none"
  BY DEF Init
<1> QED BY <1>1, NoViewTypes DEF InboxInv, NoPhantom, LiveGroupIndexed, NoneMissed, TailRead

(* The questions' keys agree with each other, and an open inbox shows exactly what can still be
   answered, in every deployment where no group reaches its idle TTL under an open inbox: with both, the
   backlog of store.py:565 can take out a group that just gained a question. *)
THEOREM AsksAreAccounted ==
    ASSUME \A s \in Scenarios : s.expiries = 0 \/ s.connects = 0
    PROVE  Spec => []AsksAccounted
<1>1. AskInv /\ InboxInv => InboxExact
  <2> SUFFICES ASSUME AskInv, InboxInv, view.at = "tail", view.cursor = Len(events)
               PROVE  /\ \A q \in Questions : state[q] = "pending" /\ ~Past(q) => q \in view.shown
                      /\ \A q \in view.shown : state[q] = "pending" \/ (Past(q) /\ q \notin stream[GroupOf[q]])
    BY DEF InboxExact
  <2>1. \A q \in Questions : ~AddAhead(q) /\ ~EndAhead(q)
    BY AskTypes DEF AddAhead, EndAhead
  <2>2. ASSUME NEW q \in Questions, state[q] = "pending", ~Past(q) PROVE q \in view.shown
    BY <2>1, <2>2 DEF InboxInv, NoneMissed, ToRead, TailRead
  <2>3. ASSUME NEW q \in view.shown PROVE state[q] = "pending" \/ (Past(q) /\ q \notin stream[GroupOf[q]])
    BY <2>1, <2>3, ViewTypes DEF AskInv, ShownRight, Gone
  <2> QED BY <2>2, <2>3
<1>2. TypeOK /\ CountExact /\ CapHolds /\ InboxInv /\ InboxExact => AsksAccounted
  BY DEF AsksAccounted, KeysConsistent, InboxInv
<1> QED BY <1>1, <1>2, InboxInit, InboxNext, CountsAndCap, StoreOfQuestions, PTL DEF Spec

-----------------------------------------------------------------------------
(* The access-control stores. *)

Nexts == {"done", "record", "pointer", "provider"}
Eff(o) == IF o.stage = "bump" THEN o.next ELSE o.stage

\* The operations a worker may be in the middle of: what each still has in hand.
Shape(o) ==
    /\ o = [kind |-> o.kind, user |-> o.user, stage |-> o.stage, body |-> o.body, touched |-> o.touched, next |-> o.next]
    /\ o.next \in Nexts
    /\ o.kind = "mint" /\ Eff(o) \in {"provision", "commit"} => o.user \in AcUsers \ Accounts /\ o.body \in Policies
    /\ o.kind = "edit" /\ Eff(o) = "commit" => o.user \in AcUsers /\ o.body \in PolicyInputs
    /\ o.kind = "rollback" /\ Eff(o) \in {"commit", "pointer"} =>
         o.user \in AcUsers /\ o.body = [to |-> o.body.to, body |-> o.body.body] /\ o.body.body \in Policies /\ o.body.to \in Nat
    /\ o.kind = "revoke" => o.user \in AcUsers /\ o.body \in SUBSET AcUsers
    /\ o.kind = "apply" /\ Eff(o) = "commit" => o.user \in Accounts /\ o.body \in Policies /\ o.body.mint = NoOne
    /\ o.kind = "disable" /\ Eff(o) = "commit" => o.user \in Accounts /\ o.body \in Policies
    /\ o.kind = "unrole" /\ Eff(o) = "commit" => o.user \in DOMAIN RoleBodies
    /\ o.kind = "claim" => o.stage = "verify" /\ o.user \in AcUsers /\ o.body.mint \in Nat
    /\ Eff(o) = "record" => DOMAIN o.body \subseteq AcUsers /\ \A u \in DOMAIN o.body : o.body[u] \in Policies

OpsShaped ==
    /\ op = [w \in Workers |-> op[w]]
    /\ \A w \in Workers : op[w] # NoOne => Shape(op[w])

Histories == [versions : Seq(Policies), active : Nat]
Identities == [mint : Nat \cup {NoOne}, owner : AcUsers \cup {NoOne}]

StoresTyped ==
    /\ rows \in [AcUsers -> Policies \cup {NoOne}]
    /\ identities \in [AcUsers -> Identities \cup {NoOne}]
    /\ history \in [AcUsers -> Histories]
    /\ DOMAIN routes \subseteq Urls /\ deleting \subseteq DOMAIN routes
    /\ DOMAIN roles \subseteq DOMAIN RoleBodies /\ \A r \in DOMAIN roles : roles[r].cond \in Conds
    /\ bound # NoOne => bound.key \in AcUsers
    /\ version \in Nat /\ nextMint \in Nat

\* A mint is in one place at most, and a retired one in none.
HoldsMint(o) == o # NoOne /\ o.kind = "mint" /\ o.stage = "commit"
RowMint(u) == IF rows[u] = NoOne THEN NoOne ELSE rows[u].mint
Mints ==
    /\ \A m \in retired : m \in Nat /\ m < nextMint
    /\ \A u \in AcUsers : RowMint(u) # NoOne => RowMint(u) \in Nat /\ RowMint(u) < nextMint /\ RowMint(u) \notin retired /\ u \notin Accounts
    /\ \A u, v \in AcUsers : RowMint(u) # NoOne /\ RowMint(u) = RowMint(v) => u = v
    /\ \A w \in Workers : HoldsMint(op[w]) =>
         /\ op[w].body.mint \in Nat /\ op[w].body.mint < nextMint /\ op[w].body.mint \notin retired
         /\ \A u \in AcUsers : RowMint(u) # op[w].body.mint
    /\ \A w, x \in Workers : HoldsMint(op[w]) /\ HoldsMint(op[x]) /\ op[w].body.mint = op[x].body.mint => w = x

\* A token in hand is burned, in one hand, and the key it was dead for stays so.
Claiming(o) == o # NoOne /\ o.kind = "claim"
Burned(t) == t \in DOMAIN links /\ links[t] = NoOne
ClaimsHeld ==
    /\ \A u \in AcUsers : identities[u] # NoOne /\ identities[u].mint # NoOne => identities[u].mint < nextMint
    /\ \A t \in DOMAIN links : links[t] # NoOne => links[t].user \in AcUsers /\ links[t].mint \in Nat /\ links[t].mint < nextMint
    /\ \A w \in Workers : Claiming(op[w]) =>
         /\ Burned(op[w].body.token) /\ op[w].body.mint < nextMint
         /\ op[w].body.dead => ~KeyVerifies(op[w].user, op[w].body.mint)
         /\ \A h \in handed : h.token # op[w].body.token
    /\ \A w, x \in Workers : Claiming(op[w]) /\ Claiming(op[x]) /\ op[w].body.token = op[x].body.token => w = x
    /\ \A h \in handed : Burned(h.token) /\ ~h.dead
    /\ \A a, b \in handed : a.token = b.token => a = b

Stamps ==
    /\ stamp \in [Objects -> Nat] /\ settled \in [Objects -> Nat]
    /\ \A o \in Objects : settled[o] <= stamp[o]
    /\ \A w \in Workers : op[w] # NoOne =>
         \A o \in DOMAIN op[w].touched : o \in Objects /\ op[w].touched[o] \in Nat /\ op[w].touched[o] <= stamp[o]

\* A slot of the version of now is not older than what has settled.
CacheFresh ==
    /\ cache = [o \in Objects |-> cache[o]]
    /\ \A o \in Objects : \A v \in DOMAIN cache[o] :
         /\ v \in Nat /\ v <= version
         /\ cache[o][v].stamp \in Nat /\ (v = version => settled[o] <= cache[o][v].stamp)
         /\ o \in AcUsers => cache[o][v].val \in Policies

\* Nor is a slot the request may still read older than what had settled when it began.
RequestFresh == req # NoRequest =>
    /\ DOMAIN req = {"cred", "path", "method", "stage", "version", "floor", "got", "seen"}
    /\ req.stage \in {"policy", "owner", "level", "guard", "decided"}
    /\ req.stage \in {"policy", "owner", "level"} => req.cred.user \in AcUsers /\ req.cred.owner \in AcUsers \cup {NoOne}
    /\ req.stage = "owner" => req.cred.owner # NoOne
    /\ req.stage = "level" => (IF req.cred.owner = NoOne THEN req.cred.user ELSE req.cred.owner) \in DOMAIN req.got
    /\ \A o \in DOMAIN req.got : o \in AcUsers => req.got[o] \in Policies
    /\ req.floor \in [Objects -> Nat] /\ \A o \in Objects : req.floor[o] <= settled[o]
    /\ req.version # NoOne => req.stage # "decided" /\ req.version \in Nat /\ req.version <= version
    /\ req.version # NoOne => \A o \in Objects : req.version \in DOMAIN cache[o] => req.floor[o] <= cache[o][req.version].stamp
    /\ \A s \in req.seen : s.object \in Objects /\ s.stamp \in Nat /\ req.floor[s.object] <= s.stamp

AcInv == StoresTyped /\ OpsShaped /\ Mints /\ ClaimsHeld /\ Stamps /\ CacheFresh /\ RequestFresh

\* What every part of the invariant keeps through, whatever the step.
LEMMA AcMintsKept ==
    ASSUME Mints, nextMint \in Nat, nextMint' \in Nat, nextMint <= nextMint', retired' = retired,
           \A w \in Workers : op'[w] = op[w] \/ ~HoldsMint(op'[w]),
           \A u \in AcUsers : RowMint(u)' = RowMint(u) \/ RowMint(u)' = NoOne
    PROVE  Mints'
<1>1. ASSUME NEW m \in retired' PROVE m \in Nat /\ m < nextMint'
  BY <1>1 DEF Mints
<1>2. ASSUME NEW u \in AcUsers, RowMint(u)' # NoOne
      PROVE  RowMint(u)' \in Nat /\ RowMint(u)' < nextMint' /\ RowMint(u)' \notin retired' /\ u \notin Accounts /\ RowMint(u)' = RowMint(u)
  <2>1. RowMint(u)' = RowMint(u)
    BY <1>2
  <2>2. RowMint(u) \in Nat /\ RowMint(u) < nextMint
    BY <1>2, <2>1 DEF Mints
  <2>3. RowMint(u) \notin retired /\ u \notin Accounts
    BY <1>2, <2>1 DEF Mints
  <2> QED BY <2>1, <2>2, <2>3 DEF Mints
<1>3. ASSUME NEW u \in AcUsers, NEW v \in AcUsers, RowMint(u)' # NoOne, RowMint(u)' = RowMint(v)'
      PROVE  u = v
  BY <1>2, <1>3 DEF Mints
<1>4. ASSUME NEW w \in Workers, HoldsMint(op'[w]) PROVE op'[w] = op[w] /\ HoldsMint(op[w])
  BY <1>4
<1>5. ASSUME NEW w \in Workers, HoldsMint(op'[w])
      PROVE  /\ op'[w].body.mint \in Nat /\ op'[w].body.mint < nextMint' /\ op'[w].body.mint \notin retired'
             /\ \A u \in AcUsers : RowMint(u)' # op'[w].body.mint
  <2>1. /\ op'[w].body.mint \in Nat /\ op'[w].body.mint < nextMint /\ op'[w].body.mint \notin retired
        /\ \A u \in AcUsers : RowMint(u) # op'[w].body.mint
    BY <1>4, <1>5 DEF Mints
  <2>2. ASSUME NEW u \in AcUsers, RowMint(u)' = op'[w].body.mint PROVE FALSE
    BY <1>2, <2>1, <2>2, AccessConstants
  <2> QED BY <2>1, <2>2
<1>6. ASSUME NEW w \in Workers, NEW x \in Workers, HoldsMint(op'[w]), HoldsMint(op'[x]), op'[w].body.mint = op'[x].body.mint
      PROVE  w = x
  <2>1. op'[w] = op[w] /\ HoldsMint(op[w]) /\ op'[x] = op[x] /\ HoldsMint(op[x])
    BY <1>4, <1>6
  <2> QED BY <1>6, <2>1 DEF Mints
<1> QED BY <1>1, <1>2, <1>3, <1>5, <1>6 DEF Mints

LEMMA AcClaimsKept ==
    ASSUME ClaimsHeld, nextMint \in Nat, nextMint' \in Nat, nextMint <= nextMint', UNCHANGED <<links, handed>>,
           identities \in [AcUsers -> Identities \cup {NoOne}],
           \A w \in Workers : op[w] # NoOne => Shape(op[w]),
           \A w \in Workers : op'[w] = op[w] \/ ~Claiming(op'[w]),
           \A u \in AcUsers : identities'[u] = identities[u] \/ identities'[u] = NoOne
    PROVE  ClaimsHeld'
<1>1. ASSUME NEW u \in AcUsers, identities'[u] # NoOne, identities'[u].mint # NoOne PROVE identities'[u].mint < nextMint'
  <2>1. identities'[u] = identities[u] /\ identities[u] \in Identities
    BY <1>1
  <2>2. identities[u].mint \in Nat /\ identities[u].mint < nextMint
    BY <1>1, <2>1 DEF ClaimsHeld, Identities
  <2> QED BY <2>1, <2>2
<1>2. ASSUME NEW t \in DOMAIN links', links'[t] # NoOne PROVE links'[t].user \in AcUsers /\ links'[t].mint \in Nat /\ links'[t].mint < nextMint'
  BY <1>2 DEF ClaimsHeld
<1>3. ASSUME NEW w \in Workers, Claiming(op'[w]) PROVE op'[w] = op[w] /\ Claiming(op[w])
  BY <1>3
<1>4. ASSUME NEW t PROVE Burned(t)' <=> Burned(t)
  BY DEF Burned
<1>5. ASSUME NEW w \in Workers, NEW o, o = op[w], Claiming(o)
      PROVE  /\ Burned(o.body.token) /\ o.body.mint < nextMint'
             /\ o.body.dead => ~(KeyVerifies(o.user, o.body.mint)')
             /\ \A h \in handed : h.token # o.body.token
  <2>1. o.user \in AcUsers /\ o.body.mint \in Nat
    BY <1>5 DEF Claiming, Shape
  <2>2. o.body.mint < nextMint
    BY <1>5 DEF ClaimsHeld
  <2>3. ASSUME o.body.dead PROVE ~(KeyVerifies(o.user, o.body.mint)')
    <3>1. ~KeyVerifies(o.user, o.body.mint)
      BY <1>5, <2>3 DEF ClaimsHeld
    <3>2. identities'[o.user] = identities[o.user] \/ identities'[o.user] = NoOne
      BY <2>1
    <3> QED BY <3>1, <3>2 DEF KeyVerifies
  <2> QED BY <1>5, <2>1, <2>2, <2>3 DEF ClaimsHeld
<1> QED BY <1>1, <1>2, <1>3, <1>4, <1>5 DEF ClaimsHeld

LEMMA AcCachesKept ==
    ASSUME CacheFresh, RequestFresh, UNCHANGED <<cache, req, version, settled>>
    PROVE  CacheFresh' /\ RequestFresh'
BY DEF CacheFresh, RequestFresh

LEMMA AcOpsKept ==
    ASSUME OpsShaped, NEW w \in Workers, NEW o, op' = [op EXCEPT ![w] = o], o = NoOne \/ Shape(o)
    PROVE  OpsShaped' /\ op'[w] = o /\ \A x \in Workers \ {w} : op'[x] = op[x]
<1>1. op'[w] = o /\ \A x \in Workers \ {w} : op'[x] = op[x]
  BY DEF OpsShaped
<1>2. op' = [x \in Workers |-> op'[x]]
  BY DEF OpsShaped
<1>3. ASSUME NEW x \in Workers, op'[x] # NoOne PROVE Shape(op'[x])
  BY <1>1, <1>3 DEF OpsShaped
<1> QED BY <1>1, <1>2, <1>3 DEF OpsShaped

LEMMA AcStampsKept ==
    ASSUME Stamps, UNCHANGED <<stamp, settled>>,
           \A w \in Workers : op'[w] # NoOne => op'[w].touched = <<>> \/ (op[w] # NoOne /\ op'[w].touched = op[w].touched)
    PROVE  Stamps'
<1>1. ASSUME NEW w \in Workers, op'[w] # NoOne, NEW o \in DOMAIN op'[w].touched
      PROVE  o \in Objects /\ op'[w].touched[o] \in Nat /\ op'[w].touched[o] <= stamp[o]
  <2>1. CASE op'[w].touched = <<>>
    BY <1>1, <2>1
  <2>2. CASE op[w] # NoOne /\ op'[w].touched = op[w].touched
    BY <1>1, <2>2 DEF Stamps
  <2> QED BY <1>1, <2>1, <2>2
<1> QED BY <1>1 DEF Stamps, Objects

\* A step of a worker that neither commits, mints nor claims, and changes no mint but by removing it.
Plain(w, o) == o = NoOne \/ (/\ Shape(o) /\ ~HoldsMint(o) /\ ~Claiming(o)
                             /\ (o.touched = <<>> \/ (op[w] # NoOne /\ o.touched = op[w].touched)))
MintsStay ==
    /\ \A u \in AcUsers : RowMint(u)' = RowMint(u) \/ RowMint(u)' = NoOne
    /\ \A u \in AcUsers : identities'[u] = identities[u] \/ identities'[u] = NoOne
    /\ retired' = retired /\ nextMint' = nextMint
ReadsStay == UNCHANGED <<cache, req, version, settled, links, handed>>

LEMMA AcPlainStep ==
    ASSUME AcInv, NEW w \in Workers, NEW o, op' = [op EXCEPT ![w] = o], Plain(w, o), MintsStay, ReadsStay, stamp' = stamp, StoresTyped'
    PROVE  AcInv'
<1> USE DEF AcInv
<1>1. OpsShaped' /\ op'[w] = o /\ \A x \in Workers \ {w} : op'[x] = op[x]
  BY AcOpsKept DEF Plain
<1>2. \A x \in Workers : op'[x] = op[x] \/ (~HoldsMint(op'[x]) /\ ~Claiming(op'[x]))
  BY <1>1 DEF Plain, HoldsMint, Claiming
<1>3. nextMint \in Nat /\ nextMint' \in Nat /\ nextMint <= nextMint'
  BY DEF StoresTyped, MintsStay
<1>4. Mints'
  BY <1>2, <1>3, AcMintsKept DEF MintsStay
<1>5. ClaimsHeld'
  BY <1>2, <1>3, AcClaimsKept DEF MintsStay, ReadsStay, StoresTyped, OpsShaped
<1>6. \A x \in Workers : op'[x] # NoOne => op'[x].touched = <<>> \/ (op[x] # NoOne /\ op'[x].touched = op[x].touched)
  BY <1>1 DEF Plain
<1>7. Stamps'
  BY <1>6, AcStampsKept DEF ReadsStay
<1>8. CacheFresh' /\ RequestFresh'
  BY AcCachesKept DEF ReadsStay
<1> QED BY <1>1, <1>4, <1>5, <1>7, <1>8

\* A commit: the operation goes on to its bump, and its stamps are the newest.
Stamping(w, touched, o) ==
    /\ touched \subseteq Objects
    /\ stamp' = [x \in Objects |-> stamp[x] + (IF x \in touched THEN 1 ELSE 0)]
    /\ op' = [op EXCEPT ![w] = o]
    /\ Shape(o) /\ o.stage = "bump" /\ o.touched = [x \in touched |-> stamp'[x]] /\ o.kind # "claim"

LEMMA AcCommitStep ==
    ASSUME AcInv, NEW w \in Workers, NEW o, NEW touched, Stamping(w, touched, o),
           nextMint' = nextMint, identities' = identities, ReadsStay
    PROVE  /\ OpsShaped' /\ ClaimsHeld' /\ Stamps' /\ CacheFresh' /\ RequestFresh'
           /\ ~HoldsMint(op'[w]) /\ \A x \in Workers \ {w} : op'[x] = op[x]
<1> USE DEF AcInv
<1>1. OpsShaped' /\ op'[w] = o /\ \A x \in Workers \ {w} : op'[x] = op[x]
  BY AcOpsKept DEF Stamping
<1>2. ~HoldsMint(o) /\ ~Claiming(o)
  BY DEF Stamping, HoldsMint, Claiming
<1>3. \A x \in Workers : op'[x] = op[x] \/ ~Claiming(op'[x])
  BY <1>1, <1>2
<1>4. nextMint \in Nat /\ nextMint' \in Nat /\ nextMint <= nextMint'
  BY DEF StoresTyped
<1>5. ClaimsHeld'
  BY <1>3, <1>4, AcClaimsKept DEF ReadsStay, StoresTyped, OpsShaped
<1>6. stamp' \in [Objects -> Nat] /\ \A x \in Objects : stamp[x] <= stamp'[x]
  BY DEF Stamping, Stamps
<1>7. \A x \in Objects : settled'[x] <= stamp'[x]
  BY <1>6 DEF Stamps, ReadsStay
<1>8. ASSUME NEW x \in Workers, op'[x] # NoOne, NEW y \in DOMAIN op'[x].touched
      PROVE  y \in Objects /\ op'[x].touched[y] \in Nat /\ op'[x].touched[y] <= stamp'[y]
  <2>1. CASE x = w
    <3>1. y \in touched /\ op'[x].touched[y] = stamp'[y]
      BY <1>1, <1>8, <2>1 DEF Stamping
    <3> QED BY <3>1, <1>6 DEF Stamping
  <2>2. CASE x # w
    <3>1. y \in Objects /\ op'[x].touched[y] \in Nat /\ op'[x].touched[y] <= stamp[y]
      BY <1>1, <1>8, <2>2 DEF Stamps
    <3>2. stamp[y] \in Nat /\ stamp'[y] \in Nat /\ stamp[y] <= stamp'[y]
      BY <3>1, <1>6 DEF Stamps
    <3> QED BY <3>1, <3>2
  <2> QED BY <2>1, <2>2
<1>9. Stamps'
  BY <1>6, <1>7, <1>8 DEF Stamps, ReadsStay, Objects
<1>10. CacheFresh' /\ RequestFresh'
  BY AcCachesKept DEF ReadsStay
<1> QED BY <1>1, <1>2, <1>5, <1>9, <1>10

LEMMA AcBodies ==
    ASSUME StoresTyped
    PROVE  /\ EmptyPolicy \in Policies /\ EmptyPolicy.mint = NoOne
           /\ \A u \in AcUsers : Body(u) \in Policies /\ Body(u).mint = RowMint(u)
           /\ \A u \in AcUsers : rows[u] # NoOne => rows[u] \in Policies /\ Body(u) = rows[u]
BY AccessConstants DEF StoresTyped, Body, RowMint, EmptyPolicy, Policies, Conds

\* The edits of a policy that operations make.
LEMMA AcMintEdit ==
    ASSUME NEW p \in Policies, NEW m \in Nat \cup {NoOne}
    PROVE  [p EXCEPT !.mint = m] \in Policies /\ [p EXCEPT !.mint = m].mint = m
BY DEF Policies

LEMMA AcInputEdit ==
    ASSUME NEW p \in Policies, NEW i \in PolicyInputs
    PROVE  /\ [p EXCEPT !.scopes = i.scopes, !.cond = i.cond] \in Policies
           /\ [p EXCEPT !.scopes = i.scopes, !.cond = i.cond].mint = p.mint
           /\ \A x \in AcUsers \cup {NoOne} : [p EXCEPT !.scopes = i.scopes, !.cond = i.cond, !.owner = x] \in Policies
<1>1. i.scopes \in SUBSET (Scopes \cup {"*"}) /\ i.cond \in Conds
  BY AccessConstants
<1> QED BY <1>1 DEF Policies

LEMMA AcDataEdit ==
    ASSUME NEW p \in Policies, NEW q \in Policies
    PROVE  /\ [p EXCEPT !.disabled = q.disabled, !.role = q.role, !.owner = q.owner] \in Policies
           /\ [p EXCEPT !.disabled = q.disabled, !.role = q.role, !.owner = q.owner].mint = p.mint
BY DEF Policies

LEMMA AcScopeEdit ==
    ASSUME NEW p \in Policies, NEW s
    PROVE  [p EXCEPT !.scopes = @ \ {s}] \in Policies /\ [p EXCEPT !.scopes = @ \ {s}].mint = p.mint
BY DEF Policies

\* An operation that begins has committed nothing.
LEMMA AcBeginStep ==
    ASSUME AcInv, NEW w \in Workers, NEW kind, NEW user, NEW stage, NEW body, Begin(w, Operation(kind, user, stage, body)),
           Shape(Operation(kind, user, stage, body)), kind # "claim", stage # "commit" \/ kind # "mint",
           UNCHANGED <<acStores, stamp, retired>>, Atomic
    PROVE  AcInv'
<1> DEFINE o == Operation(kind, user, stage, body)
<1>1. o.kind = kind /\ o.stage = stage /\ o.touched = <<>>
  BY DEF Operation
<1> HIDE DEF o
<1>2. op' = [op EXCEPT ![w] = o] /\ Shape(o)
  BY DEF Begin, o
<1>3. Plain(w, o)
  BY <1>1, <1>2 DEF Plain, HoldsMint, Claiming
<1>4. MintsStay /\ ReadsStay /\ StoresTyped'
  BY DEF MintsStay, ReadsStay, AcInv, StoresTyped, acStores, Atomic, claimVars, RowMint
<1> QED BY <1>2, <1>3, <1>4, AcPlainStep

LEMMA AcFinishStep ==
    ASSUME AcInv, NEW w \in Workers, Finish(w), MintsStay, ReadsStay, stamp' = stamp, StoresTyped'
    PROVE  AcInv'
<1>1. op' = [op EXCEPT ![w] = NoOne] /\ Plain(w, NoOne)
  BY DEF Finish, Plain
<1> QED BY <1>1, AcPlainStep

LEMMA AcMintStart ==
    ASSUME AcInv, NEW w \in Workers, NEW caller \in AcUsers, NEW u \in AcUsers \ Accounts, NEW input \in PolicyInputs,
           NEW owner \in Accounts \cup {NoOne}, MintStart(w, caller, u, input, owner)
    PROVE  AcInv'
<1> DEFINE x == IF Admin(caller) THEN owner ELSE caller
           body == [EmptyPolicy EXCEPT !.scopes = input.scopes, !.cond = input.cond, !.owner = x]
<1>1. x \in AcUsers \cup {NoOne}
  BY AccessConstants
<1>2. body \in Policies
  BY <1>1, AcBodies, AcInputEdit DEF AcInv
<1>3. Begin(w, Operation("mint", u, "provision", body)) /\ Atomic /\ UNCHANGED <<acStores, stamp, retired>>
  BY DEF MintStart
<1> HIDE DEF body
<1>4. Shape(Operation("mint", u, "provision", body))
  BY <1>2 DEF Shape, Operation, Eff, Nexts
<1> QED BY <1>3, <1>4, AcBeginStep

LEMMA AcMintProvision ==
    ASSUME AcInv, NEW w \in Workers, MintProvision(w)
    PROVE  AcInv'
<1> USE DEF AcInv
<1>1. op[w] # NoOne /\ Shape(op[w]) /\ op[w].kind = "mint" /\ op[w].stage = "provision"
  BY DEF MintProvision, Running, OpsShaped
<1>2. op[w].user \in AcUsers \ Accounts /\ op[w].body \in Policies
  BY <1>1 DEF Shape, Eff
<1>3. UNCHANGED <<routes, rows, roles, history, version, deleting, links, handed, cache, req, bound, stamp, settled, retired>>
  BY DEF MintProvision, claimVars, ghosts
<1>4. CASE identities[op[w].user] # NoOne
  <2>1. Finish(w) /\ identities' = identities /\ nextMint' = nextMint
    BY <1>4 DEF MintProvision
  <2>2. MintsStay /\ ReadsStay /\ StoresTyped'
    BY <1>3, <2>1 DEF MintsStay, ReadsStay, StoresTyped, RowMint
  <2> QED BY <1>3, <2>1, <2>2, AcFinishStep
<1>5. CASE identities[op[w].user] = NoOne
  <2> DEFINE o == Operation("mint", op[w].user, "commit", [op[w].body EXCEPT !.mint = nextMint])
  <2>1. /\ identities' = [identities EXCEPT ![op[w].user] = [mint |-> nextMint, owner |-> op[w].body.owner]]
        /\ op' = [op EXCEPT ![w] = o] /\ nextMint' = nextMint + 1
    BY <1>5 DEF MintProvision
  <2>2. nextMint \in Nat /\ nextMint' \in Nat /\ nextMint < nextMint'
    BY <2>1 DEF StoresTyped
  <2>3. [mint |-> nextMint, owner |-> op[w].body.owner] \in Identities
    BY <1>2, <2>2 DEF Identities, Policies
  <2>4. StoresTyped'
    BY <1>3, <2>1, <2>2, <2>3 DEF StoresTyped
  <2>5. o = [kind |-> "mint", user |-> op[w].user, stage |-> "commit", body |-> [op[w].body EXCEPT !.mint = nextMint],
             touched |-> <<>>, next |-> "done"]
    BY DEF Operation
  <2>6. [op[w].body EXCEPT !.mint = nextMint] \in Policies /\ [op[w].body EXCEPT !.mint = nextMint].mint = nextMint
    BY <1>2, <2>2, AcMintEdit
  <2> HIDE DEF o
  <2>7. Shape(o) /\ HoldsMint(o) = (o # NoOne) /\ ~Claiming(o) /\ o.body.mint = nextMint /\ o.touched = <<>>
    BY <1>2, <2>5, <2>6 DEF Shape, Eff, Nexts, HoldsMint, Claiming
  <2>8. OpsShaped' /\ op'[w] = o /\ \A x \in Workers \ {w} : op'[x] = op[x]
    BY <2>1, <2>7, AcOpsKept
  <2>9. Stamps'
    BY <1>1, <1>3, <2>7, <2>8, AcStampsKept
  <2>10. CacheFresh' /\ RequestFresh'
    BY <1>3, AcCachesKept
  <2>11. Mints'
    <3>1. \A u \in AcUsers : RowMint(u)' = RowMint(u)
      BY <1>3 DEF RowMint
    <3>2. \A m \in retired : m \in Nat /\ m < nextMint
      BY DEF Mints
    <3>3. \A u \in AcUsers : RowMint(u) # NoOne => RowMint(u) \in Nat /\ RowMint(u) < nextMint
      BY DEF Mints
    <3>4. \A x \in Workers : HoldsMint(op[x]) => op[x].body.mint \in Nat /\ op[x].body.mint < nextMint
      BY DEF Mints
    <3>5. ASSUME NEW x \in Workers, HoldsMint(op'[x])
          PROVE  /\ op'[x].body.mint \in Nat /\ op'[x].body.mint < nextMint' /\ op'[x].body.mint \notin retired'
                 /\ \A u \in AcUsers : RowMint(u)' # op'[x].body.mint
      <4>1. CASE x = w
        <5>1. op'[x].body.mint = nextMint
          BY <2>7, <2>8, <4>1
        <5>2. \A u \in AcUsers : RowMint(u) # nextMint
          BY <2>2, <3>3, AccessConstants
        <5>3. nextMint \notin retired
          BY <2>2, <3>2
        <5> QED BY <1>3, <2>2, <3>1, <5>1, <5>2, <5>3
      <4>2. CASE x # w
        BY <1>3, <2>2, <2>8, <3>1, <3>4, <3>5, <4>2 DEF Mints
      <4> QED BY <4>1, <4>2
    <3>6. ASSUME NEW x \in Workers, NEW y \in Workers, HoldsMint(op'[x]), HoldsMint(op'[y]), op'[x].body.mint = op'[y].body.mint, x # y
          PROVE  FALSE
      <4>1. CASE x # w /\ y # w
        BY <2>8, <3>6, <4>1 DEF Mints
      <4>2. CASE x = w
        BY <2>2, <2>7, <2>8, <3>4, <3>6, <4>2
      <4>3. CASE y = w
        BY <2>2, <2>7, <2>8, <3>4, <3>6, <4>3
      <4> QED BY <4>1, <4>2, <4>3
    <3>7. \A u \in AcUsers : RowMint(u)' # NoOne =>
            RowMint(u)' \in Nat /\ RowMint(u)' < nextMint' /\ RowMint(u)' \notin retired' /\ u \notin Accounts
      <4> SUFFICES ASSUME NEW u \in AcUsers, RowMint(u) # NoOne
                   PROVE  RowMint(u) \in Nat /\ RowMint(u) < nextMint' /\ RowMint(u) \notin retired /\ u \notin Accounts
        BY <1>3, <3>1
      <4> QED BY <2>2, <3>3 DEF Mints
    <3>8. \A u, v \in AcUsers : RowMint(u)' # NoOne /\ RowMint(u)' = RowMint(v)' => u = v
      BY <3>1 DEF Mints
    <3>9. \A m \in retired' : m \in Nat /\ m < nextMint'
      BY <1>3, <2>2, <3>2
    <3> QED BY <3>5, <3>6, <3>7, <3>8, <3>9 DEF Mints
  <2>12. ClaimsHeld'
    <3>1. ASSUME NEW u \in AcUsers, identities'[u] # NoOne, identities'[u].mint # NoOne PROVE identities'[u].mint < nextMint'
      <4>1. CASE u = op[w].user
        BY <2>1, <2>2, <4>1 DEF StoresTyped
      <4>2. CASE u # op[w].user
        <5>1. identities'[u] = identities[u] /\ identities[u] \in Identities
          BY <2>1, <3>1, <4>2 DEF StoresTyped
        <5>2. identities[u].mint \in Nat /\ identities[u].mint < nextMint
          BY <3>1, <5>1 DEF ClaimsHeld, Identities
        <5> QED BY <2>2, <5>1, <5>2
      <4> QED BY <4>1, <4>2
    <3>2. \A t \in DOMAIN links' : links'[t] # NoOne => links'[t].user \in AcUsers /\ links'[t].mint \in Nat /\ links'[t].mint < nextMint'
      BY <1>3, <2>2 DEF ClaimsHeld
    <3>3. \A t : Burned(t)' <=> Burned(t)
      BY <1>3 DEF Burned
    <3>4. \A x \in Workers : Claiming(op'[x]) => op'[x] = op[x] /\ Claiming(op[x])
      BY <2>7, <2>8
    <3>5. ASSUME NEW x \in Workers, NEW c, c = op[x], Claiming(c)
          PROVE  /\ Burned(c.body.token) /\ c.body.mint < nextMint'
                 /\ c.body.dead => ~(KeyVerifies(c.user, c.body.mint)')
                 /\ \A h \in handed : h.token # c.body.token
      <4>1. c.user \in AcUsers /\ c.body.mint \in Nat
        BY <3>5 DEF Claiming, Shape, OpsShaped
      <4>2. c.body.mint < nextMint
        BY <3>5 DEF ClaimsHeld
      <4>3. ASSUME c.body.dead PROVE ~(KeyVerifies(c.user, c.body.mint)')
        <5>1. ~KeyVerifies(c.user, c.body.mint)
          BY <3>5, <4>3 DEF ClaimsHeld
        <5>2. identities'[c.user] = identities[c.user] \/ identities'[c.user].mint = nextMint
          BY <2>1, <4>1 DEF StoresTyped
        <5> QED BY <2>2, <4>1, <4>2, <5>1, <5>2 DEF KeyVerifies
      <4> QED BY <2>2, <3>5, <4>1, <4>2, <4>3 DEF ClaimsHeld
    <3> QED BY <1>3, <3>1, <3>2, <3>3, <3>4, <3>5 DEF ClaimsHeld
  <2> QED BY <2>4, <2>8, <2>9, <2>10, <2>11, <2>12
<1> QED BY <1>4, <1>5

\* What an operation keeps for the steps after its commit.
Kept(kind, user, next, body) ==
    \/ next = "done" /\ kind \notin {"revoke", "claim"}
    \/ /\ next = "record" /\ kind \notin {"revoke", "claim"}
       /\ DOMAIN body \subseteq AcUsers /\ \A u \in DOMAIN body : body[u] \in Policies
    \/ /\ next = "pointer" /\ kind = "rollback" /\ user \in AcUsers
       /\ body = [to |-> body.to, body |-> body.body] /\ body.body \in Policies /\ body.to \in Nat
    \/ next = "provider" /\ kind = "revoke" /\ user \in AcUsers /\ body \in SUBSET AcUsers

LEMMA AcCommitted ==
    ASSUME AcInv, NEW w \in Workers, op[w] # NoOne, NEW touched \in SUBSET Objects, NEW next, NEW body,
           Committed(w, touched, next, body), Kept(op[w].kind, op[w].user, next, body),
           nextMint' = nextMint, identities' = identities, ReadsStay
    PROVE  /\ OpsShaped' /\ ClaimsHeld' /\ Stamps' /\ CacheFresh' /\ RequestFresh'
           /\ ~HoldsMint(op'[w]) /\ \A x \in Workers \ {w} : op'[x] = op[x]
<1> DEFINE o == Bumping(op[w].kind, op[w].user, touched, next, body)
<1>1. Shape(op[w])
  BY DEF AcInv, OpsShaped
<1>2. o = [kind |-> op[w].kind, user |-> op[w].user, stage |-> "bump", body |-> body,
           touched |-> [x \in touched |-> stamp'[x]], next |-> next]
  BY DEF Bumping
<1>3. op' = [op EXCEPT ![w] = o] /\ stamp' = [x \in Objects |-> stamp[x] + (IF x \in touched THEN 1 ELSE 0)]
  BY DEF Committed, Stamped
<1> HIDE DEF o
<1>4. Shape(o) /\ o.kind # "claim"
  BY <1>2 DEF Shape, Eff, Nexts, Kept
<1>5. Stamping(w, touched, o)
  BY <1>2, <1>3, <1>4 DEF Stamping
<1> QED BY <1>5, AcCommitStep

LEMMA AcBegun ==
    ASSUME AcInv, NEW w \in Workers, NEW kind, NEW touched \in SUBSET Objects, NEW next, NEW body,
           BeginCommitted(w, kind, touched, next, body), Kept(kind, NoOne, next, body),
           nextMint' = nextMint, identities' = identities, ReadsStay
    PROVE  /\ OpsShaped' /\ ClaimsHeld' /\ Stamps' /\ CacheFresh' /\ RequestFresh'
           /\ ~HoldsMint(op'[w]) /\ \A x \in Workers \ {w} : op'[x] = op[x]
<1> DEFINE o == Bumping(kind, NoOne, touched, next, body)
<1>1. o = [kind |-> kind, user |-> NoOne, stage |-> "bump", body |-> body,
           touched |-> [x \in touched |-> stamp'[x]], next |-> next]
  BY DEF Bumping
<1>2. op' = [op EXCEPT ![w] = o] /\ stamp' = [x \in Objects |-> stamp[x] + (IF x \in touched THEN 1 ELSE 0)]
  BY DEF BeginCommitted, Begin, Stamped
<1> HIDE DEF o
<1>3. Shape(o) /\ o.kind # "claim"
  BY <1>1, AccessConstants DEF Shape, Eff, Nexts, Kept
<1>4. Stamping(w, touched, o)
  BY <1>1, <1>2, <1>3 DEF Stamping
<1> QED BY <1>4, AcCommitStep

\* A step that changes no mint but by removing it.
LEMMA AcMintsStay ==
    ASSUME Mints, StoresTyped, NEW w \in Workers, MintsStay, ~HoldsMint(op'[w]), \A x \in Workers \ {w} : op'[x] = op[x]
    PROVE  Mints'
<1>1. nextMint \in Nat /\ nextMint' \in Nat /\ nextMint <= nextMint'
  BY DEF StoresTyped, MintsStay
<1>2. \A x \in Workers : op'[x] = op[x] \/ ~HoldsMint(op'[x])
  OBVIOUS
<1> QED BY <1>1, <1>2, AcMintsKept DEF MintsStay

LEMMA AcMintCommit ==
    ASSUME AcInv, NEW w \in Workers, MintCommit(w)
    PROVE  AcInv'
<1> USE DEF AcInv
<1>1. op[w] # NoOne /\ Shape(op[w]) /\ op[w].kind = "mint" /\ op[w].stage = "commit" /\ HoldsMint(op[w])
  BY DEF MintCommit, Running, OpsShaped, HoldsMint
<1>2. op[w].user \in AcUsers \ Accounts /\ op[w].body \in Policies
  BY <1>1 DEF Shape, Eff
<1>3. UNCHANGED <<routes, roles, identities, history, version, deleting, links, handed, cache, req, bound, settled, retired, nextMint>>
  BY DEF MintCommit, Atomic, claimVars
<1>4. ReadsStay /\ nextMint' = nextMint /\ identities' = identities
  BY <1>3 DEF ReadsStay
<1>5. PICK u \in AcUsers \ Accounts : u = op[w].user
  BY <1>2
<1>6. PICK b \in Policies : b = op[w].body
  BY <1>2
<1>7. CASE Finish(w) /\ UNCHANGED <<rows, stamp>>
  <2>1. MintsStay /\ StoresTyped'
    BY <1>3, <1>7 DEF MintsStay, StoresTyped, RowMint
  <2> QED BY <1>4, <1>7, <2>1, AcFinishStep
<1>8. CASE rows[u] = NoOne /\ rows' = [rows EXCEPT ![u] = b] /\ Committed(w, {u}, "record", [o \in {u} |-> b])
  <2>1. {u} \in SUBSET Objects
    BY DEF Objects
  <2>2. PICK f : f = [o \in {u} |-> b]
    OBVIOUS
  <2>3. Kept(op[w].kind, op[w].user, "record", f)
    BY <1>1, <2>2 DEF Kept
  <2>4. Committed(w, {u}, "record", f)
    BY <1>8, <2>2
  <2>5. /\ OpsShaped' /\ ClaimsHeld' /\ Stamps' /\ CacheFresh' /\ RequestFresh'
        /\ ~HoldsMint(op'[w]) /\ \A x \in Workers \ {w} : op'[x] = op[x]
    BY <1>1, <1>4, <2>1, <2>3, <2>4, AcCommitted
  <2>6. StoresTyped'
    BY <1>3, <1>8 DEF StoresTyped
  <2>7. Mints'
    <3>1. b.mint \in Nat /\ b.mint < nextMint /\ b.mint \notin retired /\ \A x \in AcUsers : RowMint(x) # b.mint
      BY <1>1, <1>6 DEF Mints
    <3>2. b # NoOne => RowMint(u)' = b.mint
      BY <1>8 DEF RowMint, StoresTyped
    <3>3. b = NoOne => RowMint(u)' = NoOne
      BY <1>8 DEF RowMint, StoresTyped
    <3>4. \A x \in AcUsers \ {u} : RowMint(x)' = RowMint(x)
      BY <1>8 DEF RowMint, StoresTyped
    <3>5. \A x \in Workers : HoldsMint(op'[x]) => x # w /\ op'[x] = op[x] /\ HoldsMint(op[x])
      BY <2>5
    <3>6. ASSUME NEW x \in AcUsers, RowMint(x)' # NoOne
          PROVE  RowMint(x)' \in Nat /\ RowMint(x)' < nextMint' /\ RowMint(x)' \notin retired' /\ x \notin Accounts
      <4>1. CASE x = u
        BY <1>3, <3>1, <3>2, <3>3, <3>6, <4>1
      <4>2. CASE x # u
        <5>1. RowMint(x)' = RowMint(x)
          BY <3>4, <4>2
        <5>2. RowMint(x) \in Nat /\ RowMint(x) < nextMint /\ RowMint(x) \notin retired /\ x \notin Accounts
          BY <3>6, <5>1 DEF Mints
        <5> QED BY <1>3, <5>1, <5>2
      <4> QED BY <4>1, <4>2
    <3>7. ASSUME NEW x \in AcUsers, NEW y \in AcUsers, RowMint(x)' # NoOne, RowMint(x)' = RowMint(y)' PROVE x = y
      BY <3>1, <3>2, <3>3, <3>4, <3>7 DEF Mints
    <3>8. ASSUME NEW x \in Workers, HoldsMint(op'[x])
          PROVE  /\ op'[x].body.mint \in Nat /\ op'[x].body.mint < nextMint' /\ op'[x].body.mint \notin retired'
                 /\ \A y \in AcUsers : RowMint(y)' # op'[x].body.mint
      <4>1. x # w /\ op'[x] = op[x] /\ HoldsMint(op[x])
        BY <3>5, <3>8
      <4>2. /\ op[x].body.mint \in Nat /\ op[x].body.mint < nextMint /\ op[x].body.mint \notin retired
            /\ \A y \in AcUsers : RowMint(y) # op[x].body.mint
        BY <4>1 DEF Mints
      <4>3. op[x].body.mint # b.mint
        BY <1>1, <1>6, <4>1 DEF Mints
      <4>4. ASSUME NEW y \in AcUsers, RowMint(y)' = op[x].body.mint PROVE FALSE
        <5>1. CASE y = u
          BY <3>2, <3>3, <4>2, <4>3, <4>4, <5>1, AccessConstants
        <5>2. CASE y # u
          BY <3>4, <4>2, <4>4, <5>2
        <5> QED BY <5>1, <5>2
      <4> QED BY <1>3, <4>1, <4>2, <4>4
    <3>9. \A x, y \in Workers : HoldsMint(op'[x]) /\ HoldsMint(op'[y]) /\ op'[x].body.mint = op'[y].body.mint => x = y
      BY <3>5 DEF Mints
    <3>10. \A m \in retired' : m \in Nat /\ m < nextMint'
      BY <1>3 DEF Mints
    <3> QED BY <3>6, <3>7, <3>8, <3>9, <3>10 DEF Mints
  <2> QED BY <2>5, <2>6, <2>7
<1>9. \/ Finish(w) /\ UNCHANGED <<rows, stamp>>
      \/ rows[u] = NoOne /\ rows' = [rows EXCEPT ![u] = b] /\ Committed(w, {u}, "record", [o \in {u} |-> b])
  BY <1>5, <1>6 DEF MintCommit
<1> QED BY <1>7, <1>8, <1>9

\* One row is rewritten with the mint it has.
LEMMA AcRewritten ==
    ASSUME AcInv, NEW w \in Workers, NEW u \in AcUsers, NEW b \in Policies, NEW next, NEW keep,
           op[w] # NoOne, rows' = [rows EXCEPT ![u] = b], b.mint = RowMint(u),
           Committed(w, {u}, next, keep), Kept(op[w].kind, op[w].user, next, keep), Atomic,
           UNCHANGED <<routes, roles, identities, history, retired>>
    PROVE  AcInv'
<1> USE DEF AcInv
<1>1. {u} \in SUBSET Objects
  BY DEF Objects
<1>2. ReadsStay /\ nextMint' = nextMint /\ version' = version /\ bound' = bound /\ deleting' = deleting
  BY DEF ReadsStay, Atomic, claimVars
<1>3. /\ OpsShaped' /\ ClaimsHeld' /\ Stamps' /\ CacheFresh' /\ RequestFresh'
      /\ ~HoldsMint(op'[w]) /\ \A x \in Workers \ {w} : op'[x] = op[x]
  BY <1>1, <1>2, AcCommitted
<1>4. StoresTyped'
  BY <1>2 DEF StoresTyped
<1>5. ASSUME NEW x \in AcUsers PROVE RowMint(x)' = RowMint(x) \/ RowMint(x)' = NoOne
  BY DEF RowMint, StoresTyped
<1>6. MintsStay
  BY <1>2, <1>5 DEF MintsStay
<1>7. Mints'
  BY <1>3, <1>6, AcMintsStay
<1> QED BY <1>3, <1>4, <1>7

LEMMA AcEditStart ==
    ASSUME AcInv, NEW w \in Workers, NEW caller \in AcUsers, NEW u \in AcUsers \ Accounts, NEW input \in PolicyInputs,
           EditStart(w, caller, u, input)
    PROVE  AcInv'
<1>1. Begin(w, Operation("edit", u, "commit", input)) /\ Atomic /\ UNCHANGED <<acStores, stamp, retired>>
  BY DEF EditStart
<1>2. Shape(Operation("edit", u, "commit", input))
  BY DEF Shape, Operation, Eff, Nexts
<1> QED BY <1>1, <1>2, AcBeginStep

\* A step that ends an operation and leaves the stores alone.
LEMMA AcGivenUp ==
    ASSUME AcInv, NEW w \in Workers, Finish(w), UNCHANGED <<rows, stamp>>, Atomic, UNCHANGED <<routes, roles, identities, history, retired>>
    PROVE  AcInv'
<1>1. MintsStay /\ ReadsStay /\ StoresTyped'
  BY DEF AcInv, MintsStay, ReadsStay, StoresTyped, RowMint, Atomic, claimVars
<1> QED BY <1>1, AcFinishStep

LEMMA AcEditCommit ==
    ASSUME AcInv, NEW w \in Workers, EditCommit(w)
    PROVE  AcInv'
<1>1. op[w] # NoOne /\ op[w].kind = "edit" /\ op[w].user \in AcUsers /\ op[w].body \in PolicyInputs
  BY DEF AcInv, EditCommit, Running, OpsShaped, Shape, Eff
<1>2. Atomic /\ UNCHANGED <<routes, roles, identities, history, retired>>
  BY DEF EditCommit
<1>3. PICK u \in AcUsers : u = op[w].user
  BY <1>1
<1>4. PICK i \in PolicyInputs : i = op[w].body
  BY <1>1
<1>5. PICK b : b = [Body(u) EXCEPT !.scopes = i.scopes, !.cond = i.cond]
  OBVIOUS
<1>6. b \in Policies /\ b.mint = RowMint(u)
  BY <1>5, AcBodies, AcInputEdit DEF AcInv
<1>7. \/ Finish(w) /\ UNCHANGED <<rows, stamp>>
      \/ rows' = [rows EXCEPT ![u] = b] /\ Committed(w, {u}, "record", [o \in {u} |-> b])
  BY <1>3, <1>4, <1>5 DEF EditCommit, Rewrite
<1>8. CASE Finish(w) /\ UNCHANGED <<rows, stamp>>
  BY <1>2, <1>8, AcGivenUp
<1>9. CASE rows' = [rows EXCEPT ![u] = b] /\ Committed(w, {u}, "record", [o \in {u} |-> b])
  <2>1. PICK f : f = [o \in {u} |-> b]
    OBVIOUS
  <2>2. Kept(op[w].kind, op[w].user, "record", f)
    BY <1>1, <1>6, <2>1 DEF Kept
  <2>3. Committed(w, {u}, "record", f)
    BY <1>9, <2>1
  <2> QED BY <1>1, <1>2, <1>6, <1>9, <2>2, <2>3, AcRewritten
<1> QED BY <1>7, <1>8, <1>9

LEMMA AcRollbackStart ==
    ASSUME AcInv, NEW w \in Workers, NEW caller \in AcUsers, NEW u \in AcUsers, NEW v \in 1..MaxOps, RollbackStart(w, caller, u, v)
    PROVE  AcInv'
<1> DEFINE body == [to |-> v, body |-> history[u].versions[v]]
<1>1. v \in 1..Len(history[u].versions) /\ Begin(w, Operation("rollback", u, "commit", body)) /\ Atomic /\ UNCHANGED <<acStores, stamp, retired>>
  BY DEF RollbackStart
<1>2. history[u].versions \in Seq(Policies)
  BY DEF AcInv, StoresTyped, Histories
<1>3. history[u].versions[v] \in Policies /\ v \in Nat
  BY <1>1, <1>2
<1>4. body = [to |-> body.to, body |-> body.body] /\ body.body \in Policies /\ body.to \in Nat
  BY <1>3
<1> HIDE DEF body
<1>5. Shape(Operation("rollback", u, "commit", body))
  BY <1>4 DEF Shape, Operation, Eff, Nexts
<1> QED BY <1>1, <1>5, AcBeginStep

LEMMA AcRollbackCommit ==
    ASSUME AcInv, NEW w \in Workers, RollbackCommit(w)
    PROVE  AcInv'
<1>1. /\ op[w] # NoOne /\ op[w].kind = "rollback" /\ op[w].user \in AcUsers /\ op[w].body.body \in Policies
      /\ op[w].body = [to |-> op[w].body.to, body |-> op[w].body.body] /\ op[w].body.to \in Nat
  BY DEF AcInv, RollbackCommit, Running, OpsShaped, Shape, Eff
<1>2. Atomic /\ UNCHANGED <<routes, roles, identities, history, retired>>
  BY DEF RollbackCommit
<1>3. PICK u \in AcUsers : u = op[w].user
  BY <1>1
<1>4. CASE rows[u] = NoOne
  BY <1>2, <1>3, <1>4, AcGivenUp DEF RollbackCommit
<1>5. CASE rows[u] # NoOne
  <2>1. PICK m : m = rows[u].mint
    OBVIOUS
  <2>2. m \in Nat \cup {NoOne} /\ m = RowMint(u)
    BY <1>5, <2>1 DEF AcInv, StoresTyped, Policies, RowMint
  <2>3. PICK p \in Policies : p = op[w].body.body
    BY <1>1
  <2>4. PICK b : b = [p EXCEPT !.mint = m]
    OBVIOUS
  <2>5. b \in Policies /\ b.mint = m
    BY <2>2, <2>4, AcMintEdit
  <2>6. rows' = [rows EXCEPT ![u] = b] /\ Committed(w, {u}, "pointer", op[w].body)
    BY <1>3, <1>5, <2>1, <2>3, <2>4 DEF RollbackCommit, KeepMint
  <2>7. Kept(op[w].kind, op[w].user, "pointer", op[w].body)
    BY <1>1 DEF Kept
  <2> QED BY <1>1, <1>2, <2>2, <2>5, <2>6, <2>7, AcRewritten
<1> QED BY <1>4, <1>5

LEMMA AcRollbackPointer ==
    ASSUME AcInv, NEW w \in Workers, RollbackPointer(w)
    PROVE  AcInv'
<1>1. op[w] # NoOne /\ op[w].user \in AcUsers /\ op[w].body.to \in Nat
  BY DEF AcInv, RollbackPointer, Running, OpsShaped, Shape, Eff
<1>2. /\ history' = [history EXCEPT ![op[w].user].active = op[w].body.to] /\ Finish(w) /\ Atomic
      /\ UNCHANGED <<routes, rows, roles, identities, stamp, retired>>
  BY DEF RollbackPointer
<1>3. history' \in [AcUsers -> Histories]
  BY <1>1, <1>2 DEF AcInv, StoresTyped, Histories
<1>4. MintsStay /\ ReadsStay /\ StoresTyped'
  BY <1>2, <1>3 DEF AcInv, MintsStay, ReadsStay, StoresTyped, RowMint, Atomic, claimVars
<1> QED BY <1>2, <1>4, AcFinishStep

LEMMA AcRevokeStart ==
    ASSUME AcInv, NEW w \in Workers, NEW caller \in AcUsers, NEW u \in AcUsers, RevokeStart(w, caller, u)
    PROVE  AcInv'
<1>1. Begin(w, Operation("revoke", u, "delete", {})) /\ Atomic /\ UNCHANGED <<acStores, stamp, retired>>
  BY DEF RevokeStart
<1>2. Shape(Operation("revoke", u, "delete", {}))
  BY DEF Shape, Operation, Eff, Nexts
<1> QED BY <1>1, <1>2, AcBeginStep

LEMMA AcRemoveStart ==
    ASSUME AcInv, NEW w \in Workers, NEW u \in Accounts, RemoveStart(w, u)
    PROVE  AcInv'
<1> DEFINE owned == {k \in AcUsers \ Accounts : identities[k] # NoOne /\ Body(k).owner = u}
           first == IF owned = {} THEN u ELSE CHOOSE k \in owned : TRUE
           rest == IF owned = {} THEN {} ELSE (owned \cup {u}) \ {first}
<1>1. Begin(w, Operation("revoke", first, "delete", rest)) /\ Atomic /\ UNCHANGED <<acStores, stamp, retired>>
  BY DEF RemoveStart
<1>2. u \in AcUsers /\ owned \subseteq AcUsers
  BY AccessConstants
<1> HIDE DEF owned
<1>3. first \in AcUsers /\ rest \in SUBSET AcUsers
  BY <1>2
<1> HIDE DEF first, rest
<1>4. Shape(Operation("revoke", first, "delete", rest))
  BY <1>3 DEF Shape, Operation, Eff, Nexts
<1> QED BY <1>1, <1>4, AcBeginStep

LEMMA AcRevokeDelete ==
    ASSUME AcInv, NEW w \in Workers, RevokeDelete(w)
    PROVE  AcInv'
<1> USE DEF AcInv
<1>1. op[w] # NoOne /\ op[w].kind = "revoke" /\ op[w].user \in AcUsers /\ op[w].body \in SUBSET AcUsers
  BY DEF RevokeDelete, Running, OpsShaped, Shape
<1>2. PICK u \in AcUsers : u = op[w].user
  BY <1>1
<1>3. /\ rows' = [rows EXCEPT ![u] = NoOne] /\ Committed(w, {u}, "provider", op[w].body)
      /\ retired' = IF rows[u] = NoOne \/ rows[u].mint = NoOne THEN retired ELSE retired \cup {rows[u].mint}
      /\ Atomic /\ UNCHANGED <<routes, roles, identities, history>>
  BY <1>2 DEF RevokeDelete
<1>4. ReadsStay /\ nextMint' = nextMint /\ version' = version /\ bound' = bound /\ deleting' = deleting
  BY <1>3 DEF ReadsStay, Atomic, claimVars
<1>5. Kept(op[w].kind, op[w].user, "provider", op[w].body)
  BY <1>1 DEF Kept
<1>6. {u} \in SUBSET Objects
  BY DEF Objects
<1>7. /\ OpsShaped' /\ ClaimsHeld' /\ Stamps' /\ CacheFresh' /\ RequestFresh'
      /\ ~HoldsMint(op'[w]) /\ \A x \in Workers \ {w} : op'[x] = op[x]
  BY <1>1, <1>3, <1>4, <1>5, <1>6, AcCommitted
<1>8. StoresTyped'
  BY <1>3, <1>4 DEF StoresTyped
<1>9. Mints'
  <2>1. retired' = IF RowMint(u) = NoOne THEN retired ELSE retired \cup {RowMint(u)}
    BY <1>3 DEF RowMint
  <2>2. RowMint(u)' = NoOne
    BY <1>3 DEF RowMint, StoresTyped
  <2>3. \A x \in AcUsers \ {u} : RowMint(x)' = RowMint(x)
    BY <1>3 DEF RowMint, StoresTyped
  <2>4. \A x \in Workers : HoldsMint(op'[x]) => op'[x] = op[x] /\ HoldsMint(op[x])
    BY <1>7
  <2>5. \A m \in retired' : m \in Nat /\ m < nextMint'
    BY <1>4, <2>1 DEF Mints
  <2>6. ASSUME NEW x \in AcUsers, RowMint(x)' # NoOne
        PROVE  RowMint(x)' \in Nat /\ RowMint(x)' < nextMint' /\ RowMint(x)' \notin retired' /\ x \notin Accounts
    <3>1. x # u /\ RowMint(x)' = RowMint(x) /\ RowMint(x) # NoOne
      BY <2>2, <2>3, <2>6
    <3>2. RowMint(x) \in Nat /\ RowMint(x) < nextMint /\ RowMint(x) \notin retired /\ x \notin Accounts
      BY <3>1 DEF Mints
    <3>3. RowMint(x) # RowMint(u)
      BY <3>1 DEF Mints
    <3> QED BY <1>4, <2>1, <3>1, <3>2, <3>3
  <2>7. \A x, y \in AcUsers : RowMint(x)' # NoOne /\ RowMint(x)' = RowMint(y)' => x = y
    BY <2>2, <2>3 DEF Mints
  <2>8. ASSUME NEW x \in Workers, HoldsMint(op'[x])
        PROVE  /\ op'[x].body.mint \in Nat /\ op'[x].body.mint < nextMint' /\ op'[x].body.mint \notin retired'
               /\ \A y \in AcUsers : RowMint(y)' # op'[x].body.mint
    <3>1. op'[x] = op[x] /\ HoldsMint(op[x])
      BY <2>4, <2>8
    <3>2. /\ op[x].body.mint \in Nat /\ op[x].body.mint < nextMint /\ op[x].body.mint \notin retired
          /\ \A y \in AcUsers : RowMint(y) # op[x].body.mint
      BY <3>1 DEF Mints
    <3>3. op[x].body.mint # NoOne
      BY <3>2, AccessConstants
    <3> QED BY <1>4, <2>1, <2>2, <2>3, <3>1, <3>2, <3>3
  <2>9. \A x, y \in Workers : HoldsMint(op'[x]) /\ HoldsMint(op'[y]) /\ op'[x].body.mint = op'[y].body.mint => x = y
    BY <2>4 DEF Mints
  <2> QED BY <2>5, <2>6, <2>7, <2>8, <2>9 DEF Mints
<1> QED BY <1>7, <1>8, <1>9

LEMMA AcRevokeProvider ==
    ASSUME AcInv, NEW w \in Workers, RevokeProvider(w)
    PROVE  AcInv'
<1>1. op[w] # NoOne /\ op[w].kind = "revoke" /\ op[w].user \in AcUsers /\ op[w].body \in SUBSET AcUsers
  BY DEF AcInv, RevokeProvider, Running, OpsShaped, Shape
<1>2. PICK u \in AcUsers : u = op[w].user
  BY <1>1
<1>3. PICK rest \in SUBSET AcUsers : rest = op[w].body
  BY <1>1
<1>4. /\ identities' = (IF u \in Accounts THEN identities ELSE [identities EXCEPT ![u] = NoOne])
      /\ Atomic /\ UNCHANGED <<routes, rows, roles, history, stamp, retired>>
  BY <1>2 DEF RevokeProvider
<1>5. MintsStay /\ ReadsStay /\ StoresTyped'
  BY <1>4 DEF AcInv, MintsStay, ReadsStay, StoresTyped, RowMint, Atomic, claimVars
<1>6. CASE rest = {}
  BY <1>3, <1>4, <1>5, <1>6, AcFinishStep DEF RevokeProvider
<1>7. CASE rest # {}
  <2> DEFINE keys == rest \ Accounts
             next == IF keys = {} THEN CHOOSE a \in rest : TRUE ELSE CHOOSE k \in keys : TRUE
             o == Operation("revoke", next, "delete", rest \ {next})
  <2>1. next \in AcUsers
    BY <1>7
  <2>2. op' = [op EXCEPT ![w] = o]
    BY <1>3, <1>7 DEF RevokeProvider
  <2> HIDE DEF next
  <2>3. Plain(w, o)
    BY <2>1 DEF Plain, Shape, Operation, Eff, Nexts, HoldsMint, Claiming
  <2> HIDE DEF o
  <2> QED BY <1>4, <1>5, <2>2, <2>3, AcPlainStep
<1> QED BY <1>6, <1>7

LEMMA AcApplyRoleStart ==
    ASSUME AcInv, NEW w \in Workers, NEW u \in Accounts, NEW role \in DOMAIN RoleBodies, ApplyRoleStart(w, u, role)
    PROVE  AcInv'
<1> DEFINE r == IF roles[role].allowAll THEN NoOne ELSE role
           body == [Body(u) EXCEPT !.scopes = {"*"}, !.cond = roles[role].cond, !.role = r]
<1>1. role \in DOMAIN roles /\ Begin(w, Operation("apply", u, "commit", body)) /\ Atomic /\ UNCHANGED <<acStores, stamp, retired>>
  BY DEF ApplyRoleStart
<1>2. PICK c \in Conds : c = roles[role].cond
  BY <1>1 DEF AcInv, StoresTyped
<1>3. u \in AcUsers /\ r \in DOMAIN RoleBodies \cup {NoOne}
  BY AccessConstants
<1>4. PICK p \in Policies : p = Body(u) /\ p.mint = RowMint(u)
  BY <1>3, AcBodies DEF AcInv
<1>5. p.mint = NoOne
  BY <1>3, <1>4 DEF AcInv, Mints
<1> HIDE DEF r
<1>6. PICK b : b = [p EXCEPT !.scopes = {"*"}, !.cond = c, !.role = r]
  OBVIOUS
<1>7. b = body
  BY <1>2, <1>4, <1>6
<1>8. b \in Policies /\ b.mint = NoOne
  <2>1. PICK x \in DOMAIN RoleBodies \cup {NoOne} : x = r
    BY <1>3
  <2>2. b = [p EXCEPT !.scopes = {"*"}, !.cond = c, !.role = x]
    BY <1>6, <2>1
  <2>3. b \in Policies /\ b.mint = p.mint
    BY <2>2 DEF Policies
  <2> QED BY <1>5, <2>3
<1> HIDE DEF body
<1>9. Shape(Operation("apply", u, "commit", body))
  BY <1>7, <1>8 DEF Shape, Operation, Eff, Nexts
<1> QED BY <1>1, <1>9, AcBeginStep

LEMMA AcApplyRoleCommit ==
    ASSUME AcInv, NEW w \in Workers, ApplyRoleCommit(w)
    PROVE  AcInv'
<1>1. op[w] # NoOne /\ op[w].kind = "apply" /\ op[w].user \in Accounts /\ op[w].body \in Policies /\ op[w].body.mint = NoOne
  BY DEF AcInv, ApplyRoleCommit, Running, OpsShaped, Shape, Eff
<1>2. Atomic /\ UNCHANGED <<routes, roles, identities, history, retired>>
  BY DEF ApplyRoleCommit
<1>3. PICK u \in AcUsers : u = op[w].user
  BY <1>1, AccessConstants
<1>4. PICK p \in Policies : p = op[w].body /\ p.mint = NoOne
  BY <1>1
<1>5. PICK b : b = IF rows[u] = NoOne THEN p ELSE KeepMint(u, p)
  OBVIOUS
<1>6. b \in Policies /\ b.mint = RowMint(u)
  <2>1. CASE rows[u] = NoOne
    BY <1>4, <1>5, <2>1 DEF RowMint
  <2>2. CASE rows[u] # NoOne
    <3>1. PICK m : m = rows[u].mint
      OBVIOUS
    <3>2. m \in Nat \cup {NoOne} /\ m = RowMint(u)
      BY <2>2, <3>1 DEF AcInv, StoresTyped, Policies, RowMint
    <3>3. b = [p EXCEPT !.mint = m]
      BY <1>5, <2>2, <3>1 DEF KeepMint
    <3> QED BY <3>2, <3>3, AcMintEdit
  <2> QED BY <2>1, <2>2
<1>7. PICK f : f = [o \in {u} |-> b]
  OBVIOUS
<1>8. rows' = [rows EXCEPT ![u] = b] /\ Committed(w, {u}, "record", f)
  BY <1>3, <1>4, <1>5, <1>7 DEF ApplyRoleCommit
<1>9. Kept(op[w].kind, op[w].user, "record", f)
  BY <1>1, <1>6, <1>7 DEF Kept
<1> QED BY <1>1, <1>2, <1>6, <1>8, <1>9, AcRewritten

LEMMA AcDisableStart ==
    ASSUME AcInv, NEW w \in Workers, NEW u \in Accounts, NEW on \in BOOLEAN, DisableStart(w, u, on)
    PROVE  AcInv'
<1>1. PICK b : b = [Body(u) EXCEPT !.disabled = on]
  OBVIOUS
<1>2. Begin(w, Operation("disable", u, "commit", b)) /\ Atomic /\ UNCHANGED <<acStores, stamp, retired>>
  BY <1>1 DEF DisableStart
<1>3. b \in Policies
  <2>1. Body(u) \in Policies
    BY AcBodies, AccessConstants DEF AcInv
  <2> QED BY <1>1, <2>1 DEF Policies
<1>4. Shape(Operation("disable", u, "commit", b))
  BY <1>3 DEF Shape, Operation, Eff, Nexts
<1> QED BY <1>2, <1>4, AcBeginStep

LEMMA AcDisableCommit ==
    ASSUME AcInv, NEW w \in Workers, DisableCommit(w)
    PROVE  AcInv'
<1>1. op[w] # NoOne /\ op[w].kind = "disable" /\ op[w].user \in Accounts /\ op[w].body \in Policies
  BY DEF AcInv, DisableCommit, Running, OpsShaped, Shape, Eff
<1>2. Atomic /\ UNCHANGED <<routes, roles, identities, history, retired>>
  BY DEF DisableCommit
<1>3. PICK u \in AcUsers : u = op[w].user
  BY <1>1, AccessConstants
<1>4. PICK q \in Policies : q = op[w].body
  BY <1>1
<1>5. PICK b : b = [Body(u) EXCEPT !.disabled = q.disabled, !.role = q.role, !.owner = q.owner]
  OBVIOUS
<1>6. b \in Policies /\ b.mint = RowMint(u)
  BY <1>5, AcBodies, AcDataEdit DEF AcInv
<1>7. PICK f : f = [o \in {u} |-> b]
  OBVIOUS
<1>8. \/ Finish(w) /\ UNCHANGED <<rows, stamp>>
      \/ rows' = [rows EXCEPT ![u] = b] /\ Committed(w, {u}, "record", f)
  BY <1>3, <1>4, <1>5, <1>7 DEF DisableCommit, Rewrite
<1>9. Kept(op[w].kind, op[w].user, "record", f)
  BY <1>1, <1>6, <1>7 DEF Kept
<1> QED BY <1>1, <1>2, <1>6, <1>8, <1>9, AcGivenUp, AcRewritten

LEMMA AcWriteRole ==
    ASSUME AcInv, NEW w \in Workers, NEW caller, NEW role \in DOMAIN RoleBodies, NEW grants, WriteRole(w, caller, role, grants)
    PROVE  AcInv'
<1> USE DEF AcInv
<1>1. /\ BeginCommitted(w, "role", {role}, "done", {}) /\ Atomic /\ UNCHANGED <<routes, rows, identities, history, retired>>
      /\ roles' = [r \in DOMAIN roles \cup {role} |-> IF r = role THEN [RoleBodies[role] EXCEPT !.grants = grants] ELSE roles[r]]
  BY DEF WriteRole
<1>2. {role} \in SUBSET Objects /\ Kept("role", NoOne, "done", {})
  BY DEF Objects, Kept
<1>3. MintsStay /\ ReadsStay /\ version' = version /\ bound' = bound /\ deleting' = deleting
  BY <1>1 DEF MintsStay, ReadsStay, RowMint, Atomic, claimVars
<1>4. /\ OpsShaped' /\ ClaimsHeld' /\ Stamps' /\ CacheFresh' /\ RequestFresh'
      /\ ~HoldsMint(op'[w]) /\ \A x \in Workers \ {w} : op'[x] = op[x]
  BY <1>1, <1>2, <1>3, AcBegun DEF MintsStay
<1>5. Mints'
  BY <1>3, <1>4, AcMintsStay
<1>6. DOMAIN roles' \subseteq DOMAIN RoleBodies /\ \A r \in DOMAIN roles' : roles'[r].cond \in Conds
  <2>1. [RoleBodies[role] EXCEPT !.grants = grants].cond = RoleBodies[role].cond /\ RoleBodies[role].cond \in Conds
    BY AccessConstants DEF Conds
  <2> QED BY <1>1, <2>1 DEF StoresTyped
<1>7. StoresTyped'
  BY <1>1, <1>3, <1>6 DEF StoresTyped, MintsStay
<1> QED BY <1>4, <1>5, <1>7

LEMMA AcDeleteRoleStart ==
    ASSUME AcInv, NEW w \in Workers, NEW caller, NEW role \in DOMAIN RoleBodies, DeleteRoleStart(w, caller, role)
    PROVE  AcInv'
<1>1. Begin(w, Operation("unrole", role, "commit", {})) /\ Atomic /\ UNCHANGED <<acStores, stamp, retired>>
  BY DEF DeleteRoleStart
<1>2. Shape(Operation("unrole", role, "commit", {}))
  BY DEF Shape, Operation, Eff, Nexts
<1> QED BY <1>1, <1>2, AcBeginStep

LEMMA AcDeleteRoleCommit ==
    ASSUME AcInv, NEW w \in Workers, DeleteRoleCommit(w)
    PROVE  AcInv'
<1> USE DEF AcInv
<1>1. op[w] # NoOne /\ op[w].kind = "unrole" /\ op[w].user \in DOMAIN RoleBodies
  BY DEF DeleteRoleCommit, Running, OpsShaped, Shape, Eff
<1>2. Atomic /\ UNCHANGED <<routes, rows, identities, history, retired>>
  BY DEF DeleteRoleCommit
<1>3. PICK role \in DOMAIN RoleBodies : role = op[w].user
  BY <1>1
<1>4. MintsStay /\ ReadsStay /\ version' = version /\ bound' = bound /\ deleting' = deleting
  BY <1>2 DEF MintsStay, ReadsStay, RowMint, Atomic, claimVars
<1>5. CASE role \in DOMAIN roles
  <2>1. roles' = [r \in DOMAIN roles \ {role} |-> roles[r]] /\ Committed(w, {role}, "done", {})
    BY <1>3, <1>5 DEF DeleteRoleCommit
  <2>2. {role} \in SUBSET Objects /\ Kept(op[w].kind, op[w].user, "done", {})
    BY <1>1 DEF Objects, Kept
  <2>3. /\ OpsShaped' /\ ClaimsHeld' /\ Stamps' /\ CacheFresh' /\ RequestFresh'
        /\ ~HoldsMint(op'[w]) /\ \A x \in Workers \ {w} : op'[x] = op[x]
    BY <1>1, <1>2, <1>4, <2>1, <2>2, AcCommitted DEF MintsStay
  <2>4. Mints'
    BY <1>4, <2>3, AcMintsStay
  <2>5. StoresTyped'
    BY <1>2, <1>4, <2>1 DEF StoresTyped, MintsStay
  <2> QED BY <2>3, <2>4, <2>5
<1>6. CASE role \notin DOMAIN roles
  BY <1>2, <1>3, <1>6, AcGivenUp DEF DeleteRoleCommit
<1> QED BY <1>5, <1>6

LEMMA AcRouteCommit ==
    ASSUME AcInv, NEW w \in Workers, NEW table, RouteCommit(w, table), DOMAIN table \subseteq Urls, deleting \subseteq DOMAIN table
    PROVE  AcInv'
<1> USE DEF AcInv
<1>1. /\ BeginCommitted(w, "map", {"routes"}, "done", {}) /\ Atomic /\ UNCHANGED <<rows, roles, identities, history, retired>>
      /\ routes' = table
  BY DEF RouteCommit
<1>2. {"routes"} \in SUBSET Objects /\ Kept("map", NoOne, "done", {})
  BY DEF Objects, Kept
<1>3. MintsStay /\ ReadsStay /\ version' = version /\ bound' = bound /\ deleting' = deleting
  BY <1>1 DEF MintsStay, ReadsStay, RowMint, Atomic, claimVars
<1>4. /\ OpsShaped' /\ ClaimsHeld' /\ Stamps' /\ CacheFresh' /\ RequestFresh'
      /\ ~HoldsMint(op'[w]) /\ \A x \in Workers \ {w} : op'[x] = op[x]
  BY <1>1, <1>2, <1>3, AcBegun DEF MintsStay
<1>5. Mints'
  BY <1>3, <1>4, AcMintsStay
<1>6. StoresTyped'
  BY <1>1, <1>3 DEF StoresTyped, MintsStay
<1> QED BY <1>4, <1>5, <1>6

LEMMA AcRouteSteps ==
    ASSUME AcInv, NEW w \in Workers, NEW url \in Urls, NEW id, NEW pattern,
           MapUrl(w, url, id, pattern) \/ PinPublic(w, url, pattern) \/ UnpinPublic(w, url)
    PROVE  AcInv'
<1>1. DOMAIN routes \subseteq Urls /\ deleting \subseteq DOMAIN routes
  BY DEF AcInv, StoresTyped
<1>2. ASSUME NEW i, RouteCommit(w, Upsert(url, i, pattern)) PROVE AcInv'
  <2>1. PICK table : table = Upsert(url, i, pattern)
    OBVIOUS
  <2>2. DOMAIN table = DOMAIN routes \cup {url}
    BY <2>1 DEF Upsert
  <2> QED BY <1>1, <1>2, <2>1, <2>2, AcRouteCommit
<1>3. ASSUME UnpinPublic(w, url) PROVE AcInv'
  <2>1. PICK table : table = [u \in DOMAIN routes \ {url} |-> routes[u]]
    OBVIOUS
  <2>2. DOMAIN table = DOMAIN routes \ {url} /\ url \notin deleting /\ RouteCommit(w, table)
    BY <1>3, <2>1 DEF UnpinPublic
  <2> QED BY <1>1, <2>2, AcRouteCommit
<1> QED BY <1>2, <1>3 DEF MapUrl, PinPublic

LEMMA AcUnmapStart ==
    ASSUME AcInv, NEW w \in Workers, NEW url \in Urls, UnmapStart(w, url)
    PROVE  AcInv'
<1> DEFINE o == Operation("unmap", NoOne, "check", [url |-> url, last |-> FALSE])
<1>1. /\ op' = [op EXCEPT ![w] = o] /\ url \in DOMAIN routes /\ deleting' = deleting \cup {url}
      /\ UNCHANGED <<routes, rows, roles, identities, history, version, links, handed, cache, req, bound, stamp, settled, retired, nextMint>>
  BY DEF UnmapStart, Begin, acStores, claimVars, ghosts
<1>2. Plain(w, o)
  BY DEF Plain, Shape, Operation, Eff, Nexts, HoldsMint, Claiming
<1> HIDE DEF o
<1>3. MintsStay /\ ReadsStay /\ StoresTyped'
  BY <1>1 DEF AcInv, MintsStay, ReadsStay, StoresTyped, RowMint
<1> QED BY <1>1, <1>2, <1>3, AcPlainStep

LEMMA AcUnmapCheck ==
    ASSUME AcInv, NEW w \in Workers, UnmapCheck(w)
    PROVE  AcInv'
<1>1. PICK b : op' = [op EXCEPT ![w] = Operation("unmap", NoOne, "commit", b)]
  BY DEF UnmapCheck
<1> DEFINE o == Operation("unmap", NoOne, "commit", b)
<1>2. Plain(w, o)
  BY DEF Plain, Shape, Operation, Eff, Nexts, HoldsMint, Claiming
<1>3. op' = [op EXCEPT ![w] = o]
  BY <1>1
<1> HIDE DEF o
<1>4. Atomic /\ UNCHANGED <<acStores, stamp, retired>>
  BY DEF UnmapCheck
<1>5. MintsStay /\ ReadsStay /\ StoresTyped' /\ stamp' = stamp
  BY <1>4 DEF AcInv, MintsStay, ReadsStay, StoresTyped, RowMint, Atomic, claimVars, acStores
<1> QED BY <1>2, <1>3, <1>5, AcPlainStep

\* Taking a scope out of policies leaves them policies, each with the mint it has.
LEMMA AcStripping ==
    ASSUME StoresTyped, NEW scope, NEW hit, hit \subseteq Stripped(scope),
           rows' = [u \in AcUsers |-> IF u \in hit THEN WithoutScope(u, scope) ELSE rows[u]]
    PROVE  /\ hit \subseteq AcUsers /\ rows' \in [AcUsers -> Policies \cup {NoOne}]
           /\ \A u \in AcUsers : RowMint(u)' = RowMint(u) \/ RowMint(u)' = NoOne
           /\ \A kind, user : kind \notin {"revoke", "claim"} => Kept(kind, user, "record", [u \in hit |-> WithoutScope(u, scope)])
<1>1. hit \subseteq AcUsers
  BY DEF Stripped
<1>2. ASSUME NEW u \in hit PROVE rows[u] \in Policies /\ WithoutScope(u, scope) \in Policies /\ WithoutScope(u, scope).mint = rows[u].mint
  <2>1. PICK p \in Policies : p = rows[u]
    BY <1>1, <1>2 DEF StoresTyped, Stripped
  <2>2. WithoutScope(u, scope) = [p EXCEPT !.scopes = @ \ {scope}]
    BY <2>1 DEF WithoutScope
  <2> QED BY <2>1, <2>2, AcScopeEdit
<1>3. rows' \in [AcUsers -> Policies \cup {NoOne}]
  BY <1>2 DEF StoresTyped
<1>4. ASSUME NEW u \in AcUsers PROVE RowMint(u)' = RowMint(u) \/ RowMint(u)' = NoOne
  <2>1. CASE u \in hit
    <3>1. rows'[u] = WithoutScope(u, scope) /\ rows[u] # NoOne
      BY <2>1 DEF Stripped
    <3> QED BY <1>2, <2>1, <3>1 DEF RowMint
  <2>2. CASE u \notin hit
    BY <2>2 DEF RowMint
  <2> QED BY <2>1, <2>2
<1>5. ASSUME NEW kind, NEW user, kind \notin {"revoke", "claim"} PROVE Kept(kind, user, "record", [u \in hit |-> WithoutScope(u, scope)])
  BY <1>1, <1>2, <1>5 DEF Kept
<1> QED BY <1>1, <1>3, <1>4, <1>5

LEMMA AcUnmapCommit ==
    ASSUME AcInv, NEW w \in Workers, UnmapCommit(w)
    PROVE  AcInv'
<1> USE DEF AcInv
<1> DEFINE url == op[w].body.url
           scope == routes[url].id
           hit == IF op[w].body.last THEN Stripped(scope) ELSE {}
           f == [u \in hit |-> WithoutScope(u, scope)]
<1>1. op[w] # NoOne /\ op[w].kind = "unmap"
  BY DEF UnmapCommit, Running
<1>2. /\ routes' = [u \in DOMAIN routes \ {url} |-> routes[u]]
      /\ rows' = [u \in AcUsers |-> IF u \in hit THEN WithoutScope(u, scope) ELSE rows[u]]
      /\ deleting' = deleting \ {url}
      /\ Committed(w, hit \cup {"routes"}, "record", f)
      /\ UNCHANGED <<roles, identities, history, version, links, handed, cache, req, bound, settled, retired, nextMint>>
  BY DEF UnmapCommit, claimVars
<1>3. hit \subseteq Stripped(scope)
  OBVIOUS
<1> HIDE DEF url, scope, hit
<1>4. /\ hit \subseteq AcUsers /\ rows' \in [AcUsers -> Policies \cup {NoOne}]
      /\ \A u \in AcUsers : RowMint(u)' = RowMint(u) \/ RowMint(u)' = NoOne
      /\ Kept(op[w].kind, op[w].user, "record", f)
  BY <1>1, <1>2, <1>3, AcStripping
<1> HIDE DEF f
<1>5. MintsStay /\ ReadsStay
  BY <1>2, <1>4 DEF MintsStay, ReadsStay
<1>6. hit \cup {"routes"} \in SUBSET Objects
  BY <1>4 DEF Objects
<1>7. /\ OpsShaped' /\ ClaimsHeld' /\ Stamps' /\ CacheFresh' /\ RequestFresh'
      /\ ~HoldsMint(op'[w]) /\ \A x \in Workers \ {w} : op'[x] = op[x]
  BY <1>1, <1>2, <1>4, <1>5, <1>6, AcCommitted
<1>8. Mints'
  BY <1>5, <1>7, AcMintsStay
<1>9. StoresTyped'
  BY <1>2, <1>4 DEF StoresTyped
<1> QED BY <1>7, <1>8, <1>9

LEMMA AcDeleteScope ==
    ASSUME AcInv, NEW w \in Workers, NEW scope, DeleteScope(w, scope)
    PROVE  AcInv'
<1> USE DEF AcInv
<1> DEFINE hit == Stripped(scope)
           f == [u \in hit |-> WithoutScope(u, scope)]
<1>1. /\ \A u \in deleting : routes[u].id # scope
      /\ routes' = [u \in {x \in DOMAIN routes : routes[x].id # scope} |-> routes[u]]
      /\ rows' = [u \in AcUsers |-> IF u \in hit THEN WithoutScope(u, scope) ELSE rows[u]]
      /\ BeginCommitted(w, "unscope", hit \cup {"routes"}, "record", f)
      /\ Atomic /\ UNCHANGED <<roles, identities, history, retired>>
  BY DEF DeleteScope
<1>2. /\ hit \subseteq AcUsers /\ rows' \in [AcUsers -> Policies \cup {NoOne}]
      /\ \A u \in AcUsers : RowMint(u)' = RowMint(u) \/ RowMint(u)' = NoOne
      /\ Kept("unscope", NoOne, "record", f)
  BY <1>1, AcStripping
<1> HIDE DEF hit, f
<1>3. MintsStay /\ ReadsStay /\ version' = version /\ bound' = bound /\ deleting' = deleting
  BY <1>1, <1>2 DEF MintsStay, ReadsStay, Atomic, claimVars
<1>4. hit \cup {"routes"} \in SUBSET Objects
  BY <1>2 DEF Objects
<1>5. /\ OpsShaped' /\ ClaimsHeld' /\ Stamps' /\ CacheFresh' /\ RequestFresh'
      /\ ~HoldsMint(op'[w]) /\ \A x \in Workers \ {w} : op'[x] = op[x]
  BY <1>1, <1>2, <1>3, <1>4, AcBegun DEF MintsStay
<1>6. Mints'
  BY <1>3, <1>5, AcMintsStay
<1>7. StoresTyped'
  BY <1>1, <1>2, <1>3 DEF StoresTyped, MintsStay
<1> QED BY <1>5, <1>6, <1>7

LEMMA AcBump ==
    ASSUME AcInv, NEW w \in Workers, Bump(w)
    PROVE  AcInv'
<1> USE DEF AcInv
<1> DEFINE o == IF op[w].next = "done" THEN NoOne ELSE [op[w] EXCEPT !.stage = op[w].next]
<1>1. /\ op[w] # NoOne /\ op[w].stage = "bump" /\ version' = version + 1 /\ op' = [op EXCEPT ![w] = o]
      /\ settled' = [x \in Objects |-> IF x \in DOMAIN op[w].touched /\ op[w].touched[x] > settled[x]
                                       THEN op[w].touched[x] ELSE settled[x]]
      /\ UNCHANGED <<routes, rows, roles, identities, history, deleting, links, handed, cache, req, bound, stamp, retired, nextMint>>
  BY DEF Bump, acStores, claimVars
<1>2. Shape(op[w])
  BY <1>1 DEF OpsShaped
<1>3. /\ \/ op[w].next = "done" /\ o = NoOne
         \/ op[w].next \in {"record", "pointer", "provider"} /\ o = [op[w] EXCEPT !.stage = op[w].next]
  BY <1>2 DEF Shape, Nexts
<1> HIDE DEF o
<1>4. o = NoOne \/ (Shape(o) /\ o.kind # "claim" /\ o.stage # "commit" /\ o.touched = op[w].touched)
  <2>1. CASE op[w].next \in {"record", "pointer", "provider"} /\ o = [op[w] EXCEPT !.stage = op[w].next]
    <3>1. op[w] = [kind |-> op[w].kind, user |-> op[w].user, stage |-> op[w].stage, body |-> op[w].body,
                   touched |-> op[w].touched, next |-> op[w].next]
      BY <1>2 DEF Shape
    <3>2. o = [kind |-> op[w].kind, user |-> op[w].user, stage |-> op[w].next, body |-> op[w].body,
               touched |-> op[w].touched, next |-> op[w].next]
      BY <2>1, <3>1
    <3>3. Eff(o) = op[w].next /\ Eff(op[w]) = op[w].next
      BY <1>1, <2>1, <3>2 DEF Eff
    <3>4. op[w].kind # "claim"
      BY <1>1, <1>2 DEF Shape
    <3>5. Shape(o)
      BY <1>2, <2>1, <3>2, <3>3, <3>4 DEF Shape
    <3> QED BY <2>1, <3>2, <3>4, <3>5
  <2> QED BY <1>3, <2>1
<1>5. OpsShaped' /\ op'[w] = o /\ \A x \in Workers \ {w} : op'[x] = op[x]
  BY <1>1, <1>4, AcOpsKept
<1>6. \A x \in Workers : op'[x] = op[x] \/ (~HoldsMint(op'[x]) /\ ~Claiming(op'[x]))
  BY <1>4, <1>5 DEF HoldsMint, Claiming
<1>7. nextMint \in Nat /\ nextMint' \in Nat /\ nextMint <= nextMint'
  BY <1>1 DEF StoresTyped
<1>8. Mints'
  <2>1. \A u \in AcUsers : RowMint(u)' = RowMint(u) \/ RowMint(u)' = NoOne
    BY <1>1 DEF RowMint
  <2> QED BY <1>1, <1>6, <1>7, <2>1, AcMintsKept
<1>9. ClaimsHeld'
  BY <1>1, <1>6, <1>7, AcClaimsKept DEF StoresTyped, OpsShaped
<1>10. \A x \in Objects : /\ settled'[x] \in Nat /\ settled[x] \in Nat /\ settled[x] <= settled'[x]
                          /\ settled'[x] <= stamp'[x]
  <2> SUFFICES ASSUME NEW x \in Objects
               PROVE  settled'[x] \in Nat /\ settled[x] \in Nat /\ settled[x] <= settled'[x] /\ settled'[x] <= stamp[x]
    BY <1>1
  <2>1. settled[x] \in Nat /\ stamp[x] \in Nat /\ settled[x] <= stamp[x]
    BY DEF Stamps
  <2>2. x \in DOMAIN op[w].touched => op[w].touched[x] \in Nat /\ op[w].touched[x] <= stamp[x]
    BY <1>1 DEF Stamps
  <2> QED BY <1>1, <2>1, <2>2
<1>11. settled' \in [Objects -> Nat]
  BY <1>1, <1>10
<1>12. Stamps'
  <2>1. ASSUME NEW x \in Workers, op'[x] # NoOne, NEW y \in DOMAIN op'[x].touched
        PROVE  y \in Objects /\ op'[x].touched[y] \in Nat /\ op'[x].touched[y] <= stamp[y]
    <3>1. op[x] # NoOne /\ op'[x].touched = op[x].touched
      BY <1>1, <1>4, <1>5, <2>1
    <3> QED BY <2>1, <3>1 DEF Stamps
  <2>2. stamp' \in [Objects -> Nat]
    BY <1>1 DEF Stamps
  <2> QED BY <1>1, <1>10, <1>11, <2>1, <2>2 DEF Stamps, Objects
<1>13. version \in Nat /\ version' \in Nat /\ version < version'
  BY <1>1 DEF StoresTyped
<1>14. CacheFresh'
  <2> SUFFICES ASSUME NEW x \in Objects, NEW v \in DOMAIN cache[x]
               PROVE  /\ v \in Nat /\ v <= version' /\ v # version'
                      /\ cache[x][v].stamp \in Nat /\ (x \in AcUsers => cache[x][v].val \in Policies)
    BY <1>1 DEF CacheFresh, Objects
  <2> QED BY <1>13 DEF CacheFresh
<1>15. RequestFresh'
  <2>1. ASSUME req # NoRequest PROVE \A x \in Objects : req.floor[x] <= settled'[x]
    <3> SUFFICES ASSUME NEW x \in Objects PROVE req.floor[x] <= settled'[x]
      OBVIOUS
    <3>1. req.floor[x] \in Nat /\ req.floor[x] <= settled[x]
      BY <2>1 DEF RequestFresh
    <3> QED BY <1>10, <3>1
  <2>2. ASSUME req # NoRequest, req.version # NoOne PROVE req.stage # "decided" /\ req.version \in Nat /\ req.version <= version'
    BY <1>13, <2>2 DEF RequestFresh
  <2> QED BY <1>1, <2>1, <2>2 DEF RequestFresh, Objects
<1>16. StoresTyped'
  BY <1>1, <1>13 DEF StoresTyped
<1> QED BY <1>5, <1>8, <1>9, <1>12, <1>14, <1>15, <1>16

LEMMA AcRecord ==
    ASSUME AcInv, NEW w \in Workers, Record(w)
    PROVE  AcInv'
<1>1. /\ op[w] # NoOne /\ op[w].stage = "record" /\ Finish(w)
      /\ history' = [u \in AcUsers |-> IF u \in DOMAIN op[w].body THEN HistoryWrite(history[u], op[w].body[u]) ELSE history[u]]
      /\ UNCHANGED <<routes, rows, roles, identities, version, deleting, links, handed, cache, req, bound, stamp, settled, retired, nextMint>>
  BY DEF Record, claimVars, ghosts
<1>2. \A u \in DOMAIN op[w].body : op[w].body[u] \in Policies
  BY <1>1 DEF AcInv, OpsShaped, Shape, Eff
<1>3. ASSUME NEW h \in Histories, NEW b \in Policies PROVE HistoryWrite(h, b) \in Histories
  BY DEF HistoryWrite, Histories
<1>4. history' \in [AcUsers -> Histories]
  BY <1>1, <1>2, <1>3 DEF AcInv, StoresTyped
<1>5. MintsStay /\ ReadsStay /\ StoresTyped'
  BY <1>1, <1>4 DEF AcInv, MintsStay, ReadsStay, StoresTyped, RowMint
<1> QED BY <1>1, <1>5, AcFinishStep

LEMMA AcStops ==
    ASSUME AcInv, NEW w \in Workers, Stops(w)
    PROVE  AcInv'
<1>1. /\ Finish(w) /\ deleting' \subseteq deleting
      /\ UNCHANGED <<routes, rows, roles, identities, history, version, links, handed, cache, req, bound, stamp, settled, retired, nextMint>>
  BY DEF Stops, acStores, claimVars, ghosts
<1>2. MintsStay /\ ReadsStay /\ StoresTyped'
  BY <1>1 DEF AcInv, MintsStay, ReadsStay, StoresTyped, RowMint
<1> QED BY <1>1, <1>2, AcFinishStep

LEMMA AcCreateLink ==
    ASSUME AcInv, NEW t, NEW caller, NEW u \in AcUsers, CreateLink(t, caller, u)
    PROVE  AcInv'
<1> USE DEF AcInv
<1>1. /\ t \notin DOMAIN links /\ identities[u] # NoOne /\ identities[u].mint # NoOne
      /\ links' = [x \in DOMAIN links \cup {t} |-> IF x = t THEN [user |-> u, mint |-> identities[u].mint] ELSE links[x]]
      /\ UNCHANGED <<routes, rows, roles, identities, history, version, op, deleting, handed, cache, req, bound, stamp, settled, retired, nextMint>>
  BY DEF CreateLink, acStores, ghosts
<1>2. identities[u].mint \in Nat /\ identities[u].mint < nextMint
  BY <1>1 DEF StoresTyped, Identities, ClaimsHeld
<1>3. \A x : Burned(x) => Burned(x)'
  BY <1>1 DEF Burned
<1>4. ClaimsHeld'
  <2>1. \A x \in DOMAIN links' : links'[x] # NoOne => links'[x].user \in AcUsers /\ links'[x].mint \in Nat /\ links'[x].mint < nextMint
    BY <1>1, <1>2 DEF ClaimsHeld
  <2>2. ASSUME NEW w \in Workers, NEW c, c = op[w], Claiming(c)
        PROVE  /\ Burned(c.body.token)' /\ c.body.mint < nextMint
               /\ c.body.dead => ~(KeyVerifies(c.user, c.body.mint)')
               /\ \A h \in handed : h.token # c.body.token
    <3>1. /\ Burned(c.body.token) /\ c.body.mint < nextMint
          /\ c.body.dead => ~KeyVerifies(c.user, c.body.mint)
          /\ \A h \in handed : h.token # c.body.token
      BY <2>2 DEF ClaimsHeld
    <3> QED BY <1>1, <1>3, <3>1 DEF KeyVerifies
  <2>3. \A h \in handed : Burned(h.token)' /\ ~h.dead
    BY <1>3 DEF ClaimsHeld
  <2> QED BY <1>1, <2>1, <2>2, <2>3 DEF ClaimsHeld
<1>5. StoresTyped' /\ OpsShaped' /\ Mints' /\ Stamps' /\ CacheFresh' /\ RequestFresh'
  BY <1>1 DEF StoresTyped, OpsShaped, Mints, RowMint, Stamps, CacheFresh, RequestFresh
<1> QED BY <1>4, <1>5

LEMMA AcLinkExpires ==
    ASSUME AcInv, NEW t, LinkExpires(t)
    PROVE  AcInv'
<1> USE DEF AcInv
<1>1. /\ t \in DOMAIN links /\ links' = [links EXCEPT ![t] = NoOne]
      /\ UNCHANGED <<routes, rows, roles, identities, history, version, op, deleting, handed, cache, req, bound, stamp, settled, retired, nextMint>>
  BY DEF LinkExpires, acStores, ghosts
<1>2. \A x : Burned(x) => Burned(x)'
  BY <1>1 DEF Burned
<1>3. ClaimsHeld'
  <2>1. \A x \in DOMAIN links' : links'[x] # NoOne => links'[x] = links[x] /\ x \in DOMAIN links
    BY <1>1
  <2>2. ASSUME NEW w \in Workers, NEW c, c = op[w], Claiming(c)
        PROVE  /\ Burned(c.body.token)' /\ c.body.mint < nextMint
               /\ c.body.dead => ~(KeyVerifies(c.user, c.body.mint)')
               /\ \A h \in handed : h.token # c.body.token
    <3>1. /\ Burned(c.body.token) /\ c.body.mint < nextMint
          /\ c.body.dead => ~KeyVerifies(c.user, c.body.mint)
          /\ \A h \in handed : h.token # c.body.token
      BY <2>2 DEF ClaimsHeld
    <3> QED BY <1>1, <1>2, <3>1 DEF KeyVerifies
  <2>3. \A h \in handed : Burned(h.token)' /\ ~h.dead
    BY <1>2 DEF ClaimsHeld
  <2> QED BY <1>1, <2>1, <2>2, <2>3 DEF ClaimsHeld
<1>4. StoresTyped' /\ OpsShaped' /\ Mints' /\ Stamps' /\ CacheFresh' /\ RequestFresh'
  BY <1>1 DEF StoresTyped, OpsShaped, Mints, RowMint, Stamps, CacheFresh, RequestFresh
<1> QED BY <1>3, <1>4

LEMMA AcExchangeTake ==
    ASSUME AcInv, NEW w \in Workers, NEW t, ExchangeTake(w, t)
    PROVE  AcInv'
<1> USE DEF AcInv
<1>0. PICK o : o = Operation("claim", links[t].user, "verify",
                             [token |-> t, mint |-> links[t].mint, dead |-> ~KeyVerifies(links[t].user, links[t].mint)])
  OBVIOUS
<1>1. /\ op[w] = NoOne /\ t \in DOMAIN links /\ links[t] # NoOne
      /\ op' = [op EXCEPT ![w] = o] /\ links' = [links EXCEPT ![t] = NoOne]
      /\ UNCHANGED <<routes, rows, roles, identities, history, version, deleting, handed, cache, req, bound, stamp, settled, retired, nextMint>>
  BY <1>0 DEF ExchangeTake, acStores, ghosts
<1>2. links[t].user \in AcUsers /\ links[t].mint \in Nat /\ links[t].mint < nextMint
  BY <1>1 DEF ClaimsHeld
<1>3. PICK d \in BOOLEAN : d = ~KeyVerifies(links[t].user, links[t].mint)
  OBVIOUS
<1>4. /\ o.kind = "claim" /\ o.user = links[t].user /\ o.stage = "verify" /\ o.touched = <<>>
      /\ o.body.token = t /\ o.body.mint = links[t].mint /\ o.body.dead = d
  BY <1>0, <1>3 DEF Operation
<1>5. Shape(o)
  BY <1>0, <1>2, <1>3 DEF Shape, Operation, Eff, Nexts
<1>6. OpsShaped' /\ op'[w] = o /\ \A x \in Workers \ {w} : op'[x] = op[x]
  BY <1>1, <1>5, AcOpsKept
<1>7. \A x : Burned(x) => Burned(x)' /\ x # t
  BY <1>1 DEF Burned
<1>8. Burned(t)'
  BY <1>1 DEF Burned
<1>9. ClaimsHeld'
  <2>1. \A x \in DOMAIN links' : links'[x] # NoOne => links'[x] = links[x] /\ x \in DOMAIN links
    BY <1>1
  <2>2. ASSUME NEW x \in Workers, x # w, NEW c, c = op[x], Claiming(c)
        PROVE  /\ Burned(c.body.token)' /\ c.body.token # t /\ c.body.mint < nextMint
               /\ c.body.dead => ~(KeyVerifies(c.user, c.body.mint)')
               /\ \A h \in handed : h.token # c.body.token
    <3>1. /\ Burned(c.body.token) /\ c.body.mint < nextMint
          /\ c.body.dead => ~KeyVerifies(c.user, c.body.mint)
          /\ \A h \in handed : h.token # c.body.token
      BY <2>2 DEF ClaimsHeld
    <3> QED BY <1>1, <1>7, <3>1 DEF KeyVerifies
  <2>3. \A h \in handed : Burned(h.token)' /\ ~h.dead /\ h.token # t
    BY <1>7 DEF ClaimsHeld
  <2>4. o.body.dead => ~(KeyVerifies(o.user, o.body.mint)')
    <3>1. PICK u, m : u = links[t].user /\ m = links[t].mint
      OBVIOUS
    <3>2. d => ~KeyVerifies(u, m)
      BY <1>3, <3>1
    <3>3. KeyVerifies(u, m)' <=> KeyVerifies(u, m)
      BY <1>1 DEF KeyVerifies
    <3>4. o.user = u /\ o.body.mint = m /\ o.body.dead = d
      BY <1>4, <3>1
    <3> QED BY <3>2, <3>3, <3>4
  <2>5. ASSUME NEW x \in Workers, NEW c, c = op'[x], Claiming(c)
        PROVE  /\ Burned(c.body.token)' /\ c.body.mint < nextMint
               /\ c.body.dead => ~(KeyVerifies(c.user, c.body.mint)')
               /\ \A h \in handed : h.token # c.body.token
    <3>1. CASE x = w
      <4>1. c = o
        BY <1>6, <2>5, <3>1
      <4> QED BY <1>2, <1>4, <1>8, <2>3, <2>4, <4>1
    <3>2. CASE x # w
      <4>1. c = op[x]
        BY <1>6, <2>5, <3>2
      <4> QED BY <2>2, <2>5, <3>2, <4>1
    <3> QED BY <3>1, <3>2
  <2>6. ASSUME NEW x \in Workers, NEW y \in Workers, Claiming(op'[x]), Claiming(op'[y]), op'[x].body.token = op'[y].body.token
        PROVE  x = y
    <3>1. CASE x # w /\ y # w
      BY <1>6, <2>6, <3>1 DEF ClaimsHeld
    <3>2. CASE x = w /\ y # w
      BY <1>4, <1>6, <2>2, <2>6, <3>2
    <3>3. CASE x # w /\ y = w
      BY <1>4, <1>6, <2>2, <2>6, <3>3
    <3> QED BY <3>1, <3>2, <3>3
  <2> QED BY <1>1, <2>1, <2>3, <2>5, <2>6 DEF ClaimsHeld
<1>10. Mints'
  <2>1. MintsStay
    BY <1>1 DEF MintsStay, RowMint
  <2>2. ~HoldsMint(op'[w])
    BY <1>4, <1>6 DEF HoldsMint
  <2> QED BY <1>6, <2>1, <2>2, AcMintsStay
<1>11. Stamps'
  <2>1. \A x \in Workers : op'[x] # NoOne => op'[x].touched = <<>> \/ (op[x] # NoOne /\ op'[x].touched = op[x].touched)
    BY <1>4, <1>6
  <2> QED BY <1>1, <2>1, AcStampsKept
<1>12. StoresTyped' /\ CacheFresh' /\ RequestFresh'
  BY <1>1, AcCachesKept DEF StoresTyped
<1> QED BY <1>6, <1>9, <1>10, <1>11, <1>12

LEMMA AcExchangeVerify ==
    ASSUME AcInv, NEW w \in Workers, ExchangeVerify(w)
    PROVE  AcInv'
<1> USE DEF AcInv
<1>1. PICK c : c = op[w]
  OBVIOUS
<1>2. /\ Claiming(c) /\ Finish(w)
      /\ handed' = IF KeyVerifies(c.user, c.body.mint)
                   THEN handed \cup {[token |-> c.body.token, mint |-> c.body.mint, by |-> w, dead |-> c.body.dead]}
                   ELSE handed
      /\ UNCHANGED <<routes, rows, roles, identities, history, version, deleting, links, cache, req, bound, stamp, settled, retired, nextMint>>
  BY <1>1 DEF ExchangeVerify, Running, Claiming, acStores, ghosts
<1>3. PICK e : e = [token |-> c.body.token, mint |-> c.body.mint, by |-> w, dead |-> c.body.dead]
  OBVIOUS
<1>4. e.token = c.body.token /\ e.dead = c.body.dead
  BY <1>3
<1>5. handed' \subseteq handed \cup {e} /\ (e \in handed' => e \in handed \/ KeyVerifies(c.user, c.body.mint))
  BY <1>2, <1>3
<1>6. /\ Burned(c.body.token) /\ (c.body.dead => ~KeyVerifies(c.user, c.body.mint))
      /\ \A h \in handed : h.token # c.body.token
  BY <1>1, <1>2 DEF ClaimsHeld
<1>7. OpsShaped' /\ op'[w] = NoOne /\ \A x \in Workers \ {w} : op'[x] = op[x]
  BY <1>2, AcOpsKept DEF Finish
<1>8. \A x : Burned(x)' <=> Burned(x)
  BY <1>2 DEF Burned
<1>9. ClaimsHeld'
  <2>1. ASSUME NEW h \in handed' PROVE Burned(h.token)' /\ ~h.dead
    <3>1. CASE h \in handed
      BY <1>8, <3>1 DEF ClaimsHeld
    <3>2. CASE h \notin handed
      BY <1>4, <1>5, <1>6, <1>8, <2>1, <3>2
    <3> QED BY <3>1, <3>2
  <2>2. ASSUME NEW a \in handed', NEW b \in handed', a.token = b.token PROVE a = b
    BY <1>4, <1>5, <1>6, <2>2 DEF ClaimsHeld
  <2>3. ASSUME NEW x \in Workers, NEW k, k = op'[x], Claiming(k)
        PROVE  /\ Burned(k.body.token)' /\ k.body.mint < nextMint
               /\ k.body.dead => ~(KeyVerifies(k.user, k.body.mint)')
               /\ \A h \in handed' : h.token # k.body.token
    <3>1. x # w /\ k = op[x]
      BY <1>7, <2>3 DEF Claiming
    <3>2. /\ Burned(k.body.token) /\ k.body.mint < nextMint
          /\ k.body.dead => ~KeyVerifies(k.user, k.body.mint)
          /\ \A h \in handed : h.token # k.body.token
      BY <2>3, <3>1 DEF ClaimsHeld
    <3>3. k.body.token # c.body.token
      BY <1>1, <1>2, <2>3, <3>1 DEF ClaimsHeld
    <3> QED BY <1>2, <1>4, <1>5, <1>8, <3>2, <3>3 DEF KeyVerifies
  <2>4. \A x, y \in Workers : Claiming(op'[x]) /\ Claiming(op'[y]) /\ op'[x].body.token = op'[y].body.token => x = y
    BY <1>7 DEF ClaimsHeld, Claiming
  <2> QED BY <1>2, <2>1, <2>2, <2>3, <2>4 DEF ClaimsHeld
<1>10. Mints'
  <2>1. MintsStay
    BY <1>2 DEF MintsStay, RowMint
  <2>2. ~HoldsMint(op'[w])
    BY <1>7 DEF HoldsMint
  <2> QED BY <1>7, <2>1, <2>2, AcMintsStay
<1>11. Stamps'
  <2>1. \A x \in Workers : op'[x] # NoOne => op'[x].touched = <<>> \/ (op[x] # NoOne /\ op'[x].touched = op[x].touched)
    BY <1>7
  <2> QED BY <1>2, <2>1, AcStampsKept
<1>12. StoresTyped' /\ CacheFresh' /\ RequestFresh'
  BY <1>2, AcCachesKept DEF StoresTyped
<1> QED BY <1>7, <1>9, <1>10, <1>11, <1>12

\* What a request's step leaves alone, and with it all but the caches.
RequestStep ==
    UNCHANGED <<routes, rows, roles, identities, history, version, op, deleting, links, handed, bound, stamp, settled, retired, nextMint>>

LEMMA AcRequestStep ==
    ASSUME AcInv, RequestStep
    PROVE  StoresTyped' /\ OpsShaped' /\ Mints' /\ ClaimsHeld' /\ Stamps'
<1>1. StoresTyped' /\ OpsShaped' /\ Stamps'
  BY DEF AcInv, RequestStep, StoresTyped, OpsShaped, Stamps
<1>2. Mints'
  BY DEF AcInv, RequestStep, Mints, RowMint
<1>3. ClaimsHeld'
  BY DEF AcInv, RequestStep, ClaimsHeld, Burned, KeyVerifies
<1> QED BY <1>1, <1>2, <1>3

LEMMA AcReqStart ==
    ASSUME AcInv, NEW u \in Principals \cup {NoOne}, NEW path, NEW method, ReqStart(u, path, method)
    PROVE  AcInv'
<1> USE DEF AcInv
<1>1. /\ RequestStep /\ cache' = cache
      /\ req' = [cred |-> IF u = NoOne THEN NoOne ELSE Credential(u), path |-> path, method |-> method,
                 stage |-> IF u = NoOne THEN "guard" ELSE "policy", version |-> NoOne, floor |-> settled,
                 got |-> <<>>, seen |-> {}]
  BY DEF ReqStart, RequestStep, acStores, claimVars, ghosts
<1>2. CacheFresh'
  BY <1>1 DEF CacheFresh, RequestStep
<1>3. u # NoOne => Credential(u).user \in AcUsers /\ Credential(u).owner \in AcUsers \cup {NoOne}
  BY DEF Credential, Principals, StoresTyped, Identities
<1>4. settled \in [Objects -> Nat] /\ settled' = settled
  BY <1>1 DEF Stamps, RequestStep
<1>5. RequestFresh'
  <2>1. req'.stage \in {"policy", "guard"} /\ (req'.stage = "policy" => u # NoOne /\ req'.cred = Credential(u))
    BY <1>1
  <2>2. req'.version = NoOne /\ req'.floor = settled /\ req'.seen = {} /\ DOMAIN req'.got = {}
    BY <1>1
  <2>3. DOMAIN req' = {"cred", "path", "method", "stage", "version", "floor", "got", "seen"}
    BY <1>1
  <2>4. \A o \in Objects : settled[o] <= settled[o]
    BY <1>4
  <2> QED BY <1>3, <1>4, <2>1, <2>2, <2>3, <2>4 DEF RequestFresh, Objects
<1> QED BY <1>1, <1>2, <1>5, AcRequestStep

LEMMA AcReqVersion ==
    ASSUME AcInv, ReqVersion
    PROVE  AcInv'
<1> USE DEF AcInv
<1>1. /\ RequestStep /\ cache' = cache /\ req # NoRequest /\ req.stage # "decided"
      /\ req' = [req EXCEPT !.version = version]
  BY DEF ReqVersion, RequestStep, acStores, claimVars, ghosts
<1>2. CacheFresh'
  BY <1>1 DEF CacheFresh, RequestStep
<1>3. /\ req'.version = version /\ req'.cred = req.cred /\ req'.stage = req.stage /\ req'.floor = req.floor
      /\ req'.got = req.got /\ req'.seen = req.seen /\ DOMAIN req' = DOMAIN req
  BY <1>1 DEF RequestFresh
<1>4. version \in Nat /\ version' = version /\ settled' = settled
  BY <1>1 DEF StoresTyped, RequestStep
<1>5. \A o \in Objects : version \in DOMAIN cache[o] => req.floor[o] <= cache[o][version].stamp
  <2> SUFFICES ASSUME NEW o \in Objects, version \in DOMAIN cache[o] PROVE req.floor[o] <= cache[o][version].stamp
    OBVIOUS
  <2>1. settled[o] <= cache[o][version].stamp /\ cache[o][version].stamp \in Nat
    BY DEF CacheFresh
  <2>2. req.floor[o] <= settled[o] /\ req.floor[o] \in Nat /\ settled[o] \in Nat
    BY <1>1 DEF RequestFresh, Stamps
  <2> QED BY <2>1, <2>2
<1>6. RequestFresh'
  BY <1>1, <1>3, <1>4, <1>5 DEF RequestFresh, Objects
<1> QED BY <1>1, <1>2, <1>6, AcRequestStep

LEMMA AcReqFetch ==
    ASSUME AcInv, NEW expired \in BOOLEAN, ReqFetch(expired)
    PROVE  AcInv'
<1> USE DEF AcInv
<1>1. RequestStep /\ req # NoRequest /\ req.version # NoOne
  BY DEF ReqFetch, RequestStep, acStores, claimVars, ghosts
<1>2. PICK o : o = ReqObject
  OBVIOUS
<1>3. PICK next : next = AfterFetch
  OBVIOUS
<1>4. PICK v : v = req.version
  OBVIOUS
<1>5. req.stage \in {"policy", "owner", "level", "guard"}
  BY <1>1 DEF RequestFresh
<1>6. req.stage \in {"policy", "owner", "level"} => req.cred.user \in AcUsers /\ req.cred.owner \in AcUsers \cup {NoOne}
  BY <1>1 DEF RequestFresh
\* What is read, and the stage that follows.
<1>7. /\ o = NoOne \/ o \in Objects
      /\ next \in {"owner", "level", "guard", "decided"}
      /\ next \in {"owner", "level"} => req.cred.user \in AcUsers /\ req.cred.owner \in AcUsers \cup {NoOne} /\ o # NoOne
      /\ next = "owner" => req.cred.owner # NoOne
      /\ next = "level" => o = IF req.cred.owner = NoOne THEN req.cred.user ELSE req.cred.owner
  <2>1. CASE req.stage = "policy"
    BY <1>2, <1>3, <1>6, <2>1, AccessConstants DEF ReqObject, AfterFetch, Objects
  <2>2. CASE req.stage = "owner"
    <3>1. req.cred.owner # NoOne
      BY <1>1, <2>2 DEF RequestFresh
    <3> QED BY <1>2, <1>3, <1>6, <2>2, <3>1, AccessConstants DEF ReqObject, AfterFetch, Objects
  <2>3. CASE req.stage = "level"
    <3>1. (IF req.cred.owner = NoOne THEN req.cred.user ELSE req.cred.owner) \in DOMAIN req.got \cap AcUsers
      BY <1>1, <1>6, <2>3 DEF RequestFresh
    <3>2. Governing \in Policies
      BY <1>1, <3>1 DEF RequestFresh, Governing
    <3>3. Governing.role \in DOMAIN RoleBodies \cup {NoOne}
      BY <3>2 DEF Policies
    <3> QED BY <1>2, <1>3, <2>3, <3>3 DEF ReqObject, AfterFetch, Objects
  <2>4. CASE req.stage = "guard"
    BY <1>2, <1>3, <2>4 DEF ReqObject, AfterFetch, Objects
  <2> QED BY <1>5, <2>1, <2>2, <2>3, <2>4
<1>8. /\ DOMAIN req = {"cred", "path", "method", "stage", "version", "floor", "got", "seen"}
      /\ req.floor \in [Objects -> Nat] /\ \A x \in Objects : req.floor[x] <= settled[x]
      /\ v \in Nat /\ v <= version
      /\ \A x \in DOMAIN req.got : x \in AcUsers => req.got[x] \in Policies
      /\ \A s \in req.seen : s.object \in Objects /\ s.stamp \in Nat /\ req.floor[s.object] <= s.stamp
      /\ \A x \in Objects : v \in DOMAIN cache[x] => req.floor[x] <= cache[x][v].stamp
  BY <1>1, <1>4 DEF RequestFresh
<1>9. settled' = settled /\ version' = version
  BY <1>1 DEF RequestStep
<1>10. CASE o = NoOne
  <2>1. req' = [req EXCEPT !.stage = next, !.version = NoOne] /\ cache' = cache
    BY <1>2, <1>3, <1>10 DEF ReqFetch
  <2>2. /\ req'.version = NoOne /\ req'.cred = req.cred /\ req'.stage = next /\ req'.floor = req.floor
        /\ req'.got = req.got /\ req'.seen = req.seen /\ DOMAIN req' = DOMAIN req
    BY <1>8, <2>1
  <2>3. CacheFresh'
    BY <1>9, <2>1 DEF CacheFresh
  <2>4. next \in {"guard", "decided"}
    BY <1>7, <1>10
  <2>5. RequestFresh'
    BY <1>8, <1>9, <2>2, <2>4 DEF RequestFresh, Objects
  <2> QED BY <1>1, <2>3, <2>5, AcRequestStep
<1>11. CASE o # NoOne
  <2>1. o \in Objects
    BY <1>7, <1>11
  <2>2. PICK hit : hit = Fetched(o, v, expired)
    OBVIOUS
  <2>3. /\ req' = [req EXCEPT !.stage = next, !.version = NoOne,
                              !.got = [x \in DOMAIN req.got \cup {o} |-> IF x = o THEN hit.val ELSE req.got[x]],
                              !.seen = req.seen \cup {[object |-> o, stamp |-> hit.stamp]}]
        /\ cache' = Filled(o, v, hit)
    BY <1>2, <1>3, <1>4, <1>11, <2>2 DEF ReqFetch
  <2>4. /\ req'.version = NoOne /\ req'.cred = req.cred /\ req'.stage = next /\ req'.floor = req.floor
        /\ req'.got = [x \in DOMAIN req.got \cup {o} |-> IF x = o THEN hit.val ELSE req.got[x]]
        /\ req'.seen = req.seen \cup {[object |-> o, stamp |-> hit.stamp]} /\ DOMAIN req' = DOMAIN req
    BY <1>8, <2>3
  <2>5. /\ hit.stamp \in Nat /\ req.floor[o] <= hit.stamp /\ (v = version => settled[o] <= hit.stamp)
        /\ o \in AcUsers => hit.val \in Policies
    <3>1. CASE v \in DOMAIN cache[o] /\ ~expired
      <4>1. hit = cache[o][v]
        BY <2>2, <3>1 DEF Fetched
      <4> QED BY <1>8, <2>1, <3>1, <4>1 DEF CacheFresh
    <3>2. CASE ~(v \in DOMAIN cache[o] /\ ~expired)
      <4>1. hit = [val |-> Current(o), stamp |-> stamp[o]]
        BY <2>2, <3>2 DEF Fetched
      <4>2. stamp[o] \in Nat /\ settled[o] \in Nat /\ settled[o] <= stamp[o] /\ req.floor[o] \in Nat /\ req.floor[o] <= settled[o]
        BY <1>8, <2>1 DEF Stamps
      <4>3. o \in AcUsers => Current(o) = Body(o)
        BY AccessConstants DEF Current
      <4>4. o \in AcUsers => Body(o) \in Policies
        BY AcBodies
      <4> QED BY <4>1, <4>2, <4>3, <4>4
    <3> QED BY <3>1, <3>2
  <2>6. /\ cache' = [x \in Objects |-> cache'[x]]
        /\ \A x \in Objects \ {o} : cache'[x] = cache[x]
        /\ cache'[o] = [x \in DOMAIN cache[o] \cup {v} |-> IF x = v THEN hit ELSE cache[o][x]]
    BY <2>1, <2>3 DEF Filled, CacheFresh
  <2>7. CacheFresh'
    <3>1. ASSUME NEW x \in Objects, NEW y \in DOMAIN cache'[x]
          PROVE  /\ y \in Nat /\ y <= version
                 /\ cache'[x][y].stamp \in Nat /\ (y = version => settled[x] <= cache'[x][y].stamp)
                 /\ x \in AcUsers => cache'[x][y].val \in Policies
      <4>1. CASE x = o /\ y = v
        <5>1. cache'[x][y] = hit
          BY <2>6, <4>1
        <5> QED BY <1>8, <2>5, <4>1, <5>1
      <4>2. CASE ~(x = o /\ y = v)
        <5>1. y \in DOMAIN cache[x] /\ cache'[x][y] = cache[x][y]
          BY <2>6, <3>1, <4>2
        <5> QED BY <5>1 DEF CacheFresh
      <4> QED BY <4>1, <4>2
    <3> QED BY <1>9, <2>6, <3>1 DEF CacheFresh, Objects
  <2>8. RequestFresh'
    <3>1. \A x \in DOMAIN req'.got : x \in AcUsers => req'.got[x] \in Policies
      BY <1>8, <2>4, <2>5
    <3>2. \A s \in req'.seen : s.object \in Objects /\ s.stamp \in Nat /\ req'.floor[s.object] <= s.stamp
      BY <1>8, <2>1, <2>4, <2>5
    <3>3. req'.stage \in {"owner", "level", "guard", "decided"}
      BY <1>7, <2>4
    <3>4. /\ req'.stage \in {"owner", "level"} => req'.cred.user \in AcUsers /\ req'.cred.owner \in AcUsers \cup {NoOne}
          /\ req'.stage = "owner" => req'.cred.owner # NoOne
      BY <1>7, <2>4
    <3>5. req'.stage = "level" => (IF req'.cred.owner = NoOne THEN req'.cred.user ELSE req'.cred.owner) \in DOMAIN req'.got
      BY <1>7, <2>4
    <3>6. req'.floor \in [Objects -> Nat] /\ (\A x \in Objects : req'.floor[x] <= settled'[x]) /\ req'.version = NoOne
      BY <1>8, <1>9, <2>4
    <3>7. DOMAIN req' = {"cred", "path", "method", "stage", "version", "floor", "got", "seen"}
      BY <1>8, <2>4
    <3> QED BY <3>1, <3>2, <3>3, <3>4, <3>5, <3>6, <3>7 DEF RequestFresh, Objects
  <2> QED BY <1>1, <2>7, <2>8, AcRequestStep
<1> QED BY <1>10, <1>11

LEMMA AcReqEnd ==
    ASSUME AcInv, ReqEnd
    PROVE  AcInv'
<1>1. RequestStep /\ cache' = cache /\ req' = NoRequest
  BY DEF ReqEnd, RequestStep, acStores, claimVars, ghosts
<1>2. CacheFresh'
  BY <1>1 DEF AcInv, CacheFresh, RequestStep
<1>3. RequestFresh'
  BY <1>1 DEF RequestFresh, NoRequest
<1> QED BY <1>1, <1>2, <1>3, AcRequestStep DEF AcInv

LEMMA AcBindKey ==
    ASSUME AcInv, NEW caller, NEW u \in AcUsers, BindKey(caller, u)
    PROVE  AcInv'
<1>1. /\ bound' = [key |-> u, mint |-> Body(u).mint]
      /\ UNCHANGED <<routes, rows, roles, identities, history, version, op, deleting, links, handed, cache, req, stamp, settled, retired, nextMint>>
  BY DEF BindKey, acStores, claimVars, ghosts
<1>2. StoresTyped' /\ OpsShaped' /\ Stamps' /\ CacheFresh' /\ RequestFresh'
  BY <1>1 DEF AcInv, StoresTyped, OpsShaped, Stamps, CacheFresh, RequestFresh
<1>3. Mints'
  BY <1>1 DEF AcInv, Mints, RowMint
<1>4. ClaimsHeld'
  BY <1>1 DEF AcInv, ClaimsHeld, Burned, KeyVerifies
<1> QED BY <1>2, <1>3, <1>4 DEF AcInv

\* The initial stores satisfy the invariant, every step keeps it, and it implies the property.
LEMMA AcInitially == AcInit => AcInv
<1> SUFFICES ASSUME AcInit PROVE AcInv
  OBVIOUS
<1>1. /\ rows = InitialPolicies /\ routes = InitialRoutes /\ roles = RoleBodies /\ version = 0 /\ deleting = {} /\ handed = {}
      /\ identities = [u \in AcUsers |-> IF rows[u] = NoOne THEN NoOne ELSE [mint |-> rows[u].mint, owner |-> rows[u].owner]]
      /\ history = [u \in AcUsers |-> IF rows[u] = NoOne THEN NoHistory ELSE [versions |-> <<rows[u]>>, active |-> 1]]
      /\ op = [w \in Workers |-> NoOne] /\ links = [t \in {} |-> NoOne] /\ cache = [o \in Objects |-> <<>>]
      /\ req = NoRequest /\ bound = NoOne /\ retired = {} /\ nextMint = 2
      /\ stamp = [o \in Objects |-> 0] /\ settled = [o \in Objects |-> 0]
  BY DEF AcInit
<1>2. rows \in [AcUsers -> Policies \cup {NoOne}]
  BY <1>1, AccessConstants
<1>3. ASSUME NEW u \in AcUsers, rows[u] # NoOne
      PROVE  /\ rows[u].mint \in Nat \cup {NoOne} /\ rows[u].owner \in AcUsers \cup {NoOne} /\ rows[u] \in Policies
             /\ rows[u].mint \in {NoOne, 1} /\ (u \in Accounts => rows[u].mint = NoOne)
  <2>1. rows[u] \in Policies
    BY <1>2, <1>3
  <2>2. rows[u].mint \in {NoOne, 1} /\ (u \in Accounts => rows[u].mint = NoOne)
    BY <1>1, <1>3, AccessConstants
  <2> QED BY <2>1, <2>2 DEF Policies
<1>4. StoresTyped
  <2>1. identities \in [AcUsers -> Identities \cup {NoOne}]
    BY <1>1, <1>3 DEF Identities
  <2>2. history \in [AcUsers -> Histories]
    <3>1. NoHistory \in Histories
      BY DEF NoHistory, Histories
    <3>2. ASSUME NEW p \in Policies PROVE [versions |-> <<p>>, active |-> 1] \in Histories
      BY DEF Histories
    <3> QED BY <1>1, <1>3, <3>1, <3>2
  <2>3. \A r \in DOMAIN roles : roles[r].cond \in Conds
    BY <1>1, AccessConstants
  <2> QED BY <1>1, <1>2, <2>1, <2>2, <2>3, AccessConstants DEF StoresTyped
<1>5. OpsShaped
  BY <1>1 DEF OpsShaped
<1>6. Mints
  <2>1. \A w \in Workers : ~HoldsMint(op[w])
    BY <1>1 DEF HoldsMint
  <2>2. ASSUME NEW u \in AcUsers, RowMint(u) # NoOne
        PROVE  rows[u] # NoOne /\ RowMint(u) = 1 /\ u \notin Accounts /\ InitialPolicies[u] # NoOne /\ InitialPolicies[u].mint = 1
    BY <1>1, <1>3, <2>2 DEF RowMint
  <2>3. ASSUME NEW u \in AcUsers, NEW v \in AcUsers, RowMint(u) # NoOne, RowMint(u) = RowMint(v) PROVE u = v
    BY <2>2, <2>3, AccessConstants
  <2>4. 1 \in Nat /\ 1 < nextMint
    BY <1>1
  <2> QED BY <1>1, <2>1, <2>2, <2>3, <2>4 DEF Mints
<1>7. ClaimsHeld
  <2>1. \A w \in Workers : ~Claiming(op[w])
    BY <1>1 DEF Claiming
  <2>2. ASSUME NEW u \in AcUsers, identities[u] # NoOne, identities[u].mint # NoOne PROVE identities[u].mint < nextMint
    <3>1. rows[u] # NoOne /\ identities[u].mint = rows[u].mint
      BY <1>1, <2>2
    <3>2. identities[u].mint = 1
      BY <1>3, <2>2, <3>1
    <3> QED BY <1>1, <3>2
  <2> QED BY <1>1, <2>1, <2>2 DEF ClaimsHeld
<1>8. Stamps
  BY <1>1 DEF Stamps
<1>9. CacheFresh
  BY <1>1 DEF CacheFresh
<1>10. RequestFresh
  BY <1>1 DEF RequestFresh
<1> QED BY <1>4, <1>5, <1>6, <1>7, <1>8, <1>9, <1>10 DEF AcInv

LEMMA AcStep == AcInv /\ [AcNext]_acVars => AcInv'
<1> SUFFICES ASSUME AcInv, [AcNext]_acVars PROVE AcInv'
  OBVIOUS
<1>1. CASE UNCHANGED acVars
  <2>1. UNCHANGED <<routes, rows, roles, identities, history, version, op, deleting, links, handed, cache, req, bound, stamp, settled, retired, nextMint>>
    BY <1>1 DEF acVars, acStores, claimVars, ghosts
  <2>2. StoresTyped' /\ OpsShaped' /\ Stamps' /\ CacheFresh' /\ RequestFresh'
    BY <2>1 DEF AcInv, StoresTyped, OpsShaped, Stamps, CacheFresh, RequestFresh
  <2>3. Mints'
    BY <2>1 DEF AcInv, Mints, RowMint
  <2>4. ClaimsHeld'
    BY <2>1 DEF AcInv, ClaimsHeld, Burned, KeyVerifies
  <2> QED BY <2>2, <2>3, <2>4 DEF AcInv
<1>2. ASSUME NEW w \in Workers, Minting(w) \/ Editing(w) PROVE AcInv'
  BY <1>2, AcMintStart, AcMintProvision, AcMintCommit, AcEditStart, AcEditCommit DEF Minting, Editing
<1>3. ASSUME NEW w \in Workers, RollingBack(w) \/ Revoking(w) PROVE AcInv'
  BY <1>3, AcRollbackStart, AcRollbackCommit, AcRollbackPointer, AcRevokeStart, AcRemoveStart, AcRevokeDelete, AcRevokeProvider
     DEF RollingBack, Revoking
<1>4. ASSUME NEW w \in Workers, Roles(w) PROVE AcInv'
  BY <1>4, AcApplyRoleStart, AcApplyRoleCommit, AcDisableStart, AcDisableCommit, AcWriteRole, AcDeleteRoleStart, AcDeleteRoleCommit
     DEF Roles
<1>5. ASSUME NEW w \in Workers, Routes(w) PROVE AcInv'
  <2>1. ASSUME NEW url \in Urls, NEW s, NEW pat, MapUrl(w, url, s, pat) PROVE AcInv'
    BY <2>1, AcRouteSteps
  <2>2. ASSUME NEW url \in Urls, NEW pat, PinPublic(w, url, pat) PROVE AcInv'
    BY <2>2, AcRouteSteps
  <2>3. ASSUME NEW url \in Urls, UnpinPublic(w, url) PROVE AcInv'
    BY <2>3, AcRouteSteps
  <2> QED BY <1>5, <2>1, <2>2, <2>3, AcUnmapStart, AcUnmapCheck, AcUnmapCommit, AcDeleteScope DEF Routes
<1>6. ASSUME NEW w \in Workers, Continuing(w) PROVE AcInv'
  BY <1>6, AcBump, AcRecord, AcStops DEF Continuing
<1>7. ASSUME Claims PROVE AcInv'
  BY <1>7, AcCreateLink, AcLinkExpires, AcExchangeTake, AcExchangeVerify DEF Claims
<1>8. ASSUME Requesting(Requests) PROVE AcInv'
  BY <1>8, AcReqStart, AcReqVersion, AcReqEnd, AcReqFetch DEF Requesting
<1>9. ASSUME Binding PROVE AcInv'
  BY <1>9, AcBindKey DEF Binding, BindableBy
<1> QED BY <1>1, <1>2, <1>3, <1>4, <1>5, <1>6, <1>7, <1>8, <1>9 DEF AcNext, Managing

LEMMA AcImplied == AcInv => AccessSettled
<1> SUFFICES ASSUME AcInv PROVE AccessSettled
  OBVIOUS
<1> USE DEF AcInv
<1>1. AcTypeOK
  BY DEF AcTypeOK, StoresTyped, Stamps, Policies
<1>2. RetiredKeyStaysDead
  <2>1. \A m \in retired : m \in Nat /\ m # NoOne
    BY AccessConstants DEF Mints
  <2>2. \A u \in AcUsers : RowMint(u) \notin retired
    BY <2>1 DEF Mints
  <2>3. ASSUME bound # NoOne, bound.mint \in retired PROVE BuildExecutionIdentity(World, bound.key, bound.mint) = NoOne
    <3>1. bound.key \in AcUsers
      BY <2>3 DEF StoresTyped
    <3>2. World.policies[bound.key] = Body(bound.key)
      BY <3>1 DEF World
    <3>3. Body(bound.key).mint = RowMint(bound.key)
      BY <3>1, AcBodies
    <3>4. Body(bound.key).mint # bound.mint
      BY <2>2, <2>3, <3>1, <3>3
    <3>5. ~KeyCarriesAuthority(World, bound.key, bound.mint)
      BY <3>2, <3>4 DEF KeyCarriesAuthority
    <3> QED BY <3>5 DEF BuildExecutionIdentity
  <2> QED BY <2>2, <2>3 DEF RetiredKeyStaysDead, RowMint
<1>3. ClaimedOnce
  BY DEF ClaimsHeld, ClaimedOnce, Burned
<1>4. FreshDecision
  BY DEF RequestFresh, FreshDecision, NoRequest
<1> QED BY <1>1, <1>2, <1>3, <1>4 DEF AccessSettled

\* For any users, roles, routes, workers and bounds: a key revoked by revoke_api_key carries no stored
\* record again, exchange_claim_token gives a key out once and never a dead one, and no request reads
\* through the version-keyed caches what a finished write had replaced before it began.
THEOREM AccessStaysSettled == AcSpec => []AccessSettled
BY AcInitially, AcStep, AcImplied, PTL DEF AcSpec
=============================================================================

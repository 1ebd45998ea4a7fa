--------------------------- MODULE TurnCapsProofs ---------------------------
(***************************************************************************)
(* The caps keep their counts, for any number of turns and threads, any    *)
(* depth and any ceilings.  Three facts make it inductive: a waiter at the *)
(* gate implies that every place is in use, whether or not it was called   *)
(* off (Full); the turns of a thread that are past their reservation all   *)
(* have the lock object the map shows, which no other thread has           *)
(* (OneLock); and a turn is at the gate or beyond exactly when it is the   *)
(* holder of its lock (Held).  The second part is about the limits beside  *)
(* them, of addresses, doors and bodies (Limits).                          *)
(***************************************************************************)
EXTENDS TurnCaps, Limits, FiniteSetTheorems, WellFoundedInduction, TLAPS

States == Holding \cup {"new", "done", "refused"}
AtGate == InGate \cup Admitted
Begun == {"lock"} \cup AtGate
In(s) == {s[i] : i \in 1..Len(s)}
Once(s) == \A i, j \in 1..Len(s) : s[i] = s[j] => i = j

\* The turns that count at the gate and against a thread.
Running == {t \in Tasks : at[t] \in Admitted}
Queued(h) == {t \in Tasks : ThreadOf[t] = h /\ at[t] \in Holding}
RunningExact == IsFiniteSet(Running) /\ inFlight = Cardinality(Running)
QueuedExact == \A h \in Threads : IsFiniteSet(Queued(h)) /\ reserved[h] = Cardinality(Queued(h)) /\ reserved[h] <= Depth
Drained == \A h \in Threads : reserved[h] = 0 => locks[h] = None

\* Every turn that waits at the gate is in its queue, once; who is in the queue waits or was called off.
GateQueue ==
    /\ Once(waiters) /\ \A t \in In(waiters) : at[t] \in InGate
    /\ \A t \in Tasks : at[t] = "gate" => t \in In(waiters)
Full == waiters # <<>> => inFlight >= limit

\* A thread's turns share one lock object, made by one of them.
OneLock ==
    /\ \A t \in Tasks : at[t] \in Begun => mine[t] \in Tasks /\ locks[ThreadOf[t]] = mine[t]
    /\ \A h \in Threads : locks[h] # None => ThreadOf[locks[h]] = h /\ at[locks[h]] \notin {"new", "reserved"}
    /\ \A l \in Tasks : at[l] \in {"new", "reserved"} => holder[l] = None /\ lockQ[l] = <<>>

Held ==
    /\ \A t \in Tasks : at[t] \in AtGate => holder[mine[t]] = t
    /\ \A l \in Tasks : holder[l] # None => at[holder[l]] \in AtGate /\ mine[holder[l]] = l
    /\ \A l \in Tasks : Once(lockQ[l]) /\ \A t \in In(lockQ[l]) : at[t] = "lock" /\ mine[t] = l

\* Every turn that waits for its lock is in the lock's queue.
Waits == \A t \in Tasks : at[t] = "lock" => t \in In(lockQ[mine[t]])

\* The inductive invariant.
CapsInv == TypeOK /\ RunningExact /\ QueuedExact /\ Drained /\ GateQueue /\ Full /\ OneLock /\ Held /\ Waits

----------------------------------------------------------------------------
(* Queues. *)

\* An element that is appended to a queue it is not in.
LEMMA Queues ==
  ASSUME NEW s \in Seq(Tasks), Once(s), NEW t \in Tasks, t \notin In(s)
  PROVE  Append(s, t) \in Seq(Tasks) /\ Once(Append(s, t)) /\ In(Append(s, t)) = In(s) \cup {t} /\ Append(s, t) # <<>>
<1>1. /\ Append(s, t) \in Seq(Tasks) /\ Len(s) \in Nat /\ Len(Append(s, t)) = Len(s) + 1
      /\ \A i \in 1..Len(s) : Append(s, t)[i] = s[i]
      /\ Append(s, t)[Len(s) + 1] = t
  OBVIOUS
<1>2. Once(Append(s, t))
  BY <1>1 DEF Once, In
<1>3. In(Append(s, t)) = In(s) \cup {t}
  BY <1>1 DEF In
<1> QED
  BY <1>1, <1>2, <1>3

\* The rest of a queue after its first k elements.
LEMMA Rest ==
  ASSUME NEW s \in Seq(Tasks), Once(s), NEW k \in 0..Len(s)
  PROVE  LET r == SubSeq(s, k + 1, Len(s)) IN
         /\ r \in Seq(Tasks) /\ Once(r) /\ In(r) = In(s) \ {s[i] : i \in 1..k}
         /\ k = Len(s) => r = <<>>
<1> DEFINE r == SubSeq(s, k + 1, Len(s))
<1>1. /\ r \in Seq(Tasks) /\ Len(s) \in Nat /\ Len(r) = Len(s) - k
      /\ \A i \in 1..Len(r) : r[i] = s[i + k]
  <2>1. Len(s) \in Nat /\ k \in Nat /\ k <= Len(s) /\ \A i \in 1..Len(s) : s[i] \in Tasks
    OBVIOUS
  <2>2. Len(r) = Len(s) - k /\ \A i \in 1..Len(r) : r[i] = s[i + k]
    BY <2>1
  <2>3. r \in Seq(Tasks)
    BY <2>1
  <2> QED BY <2>1, <2>2, <2>3
<1> HIDE DEF r
<1>2. Once(r)
  BY <1>1 DEF Once
<1>3. In(r) = In(s) \ {s[i] : i \in 1..k}
  <2>1. ASSUME NEW x \in In(r) PROVE x \in In(s) \ {s[i] : i \in 1..k}
    <3>1. PICK i \in 1..Len(r) : r[i] = x
      BY DEF In
    <3>2. i + k \in 1..Len(s) /\ s[i + k] = x
      BY <3>1, <1>1
    <3>3. ASSUME NEW j \in 1..k PROVE s[j] # x
      <4>1. j \in 1..Len(s) /\ j # i + k
        BY <1>1, <3>1
      <4> QED
        BY <4>1, <3>2 DEF Once
    <3> QED
      BY <3>2, <3>3 DEF In
  <2>2. ASSUME NEW x \in In(s), x \notin {s[i] : i \in 1..k} PROVE x \in In(r)
    <3>1. PICK i \in 1..Len(s) : s[i] = x
      BY DEF In
    <3>2. i > k
      BY <2>2, <3>1
    <3>3. i - k \in 1..Len(r) /\ r[i - k] = x
      BY <3>1, <3>2, <1>1
    <3> QED
      BY <3>3 DEF In
  <2> QED
    BY <2>1, <2>2
<1>4. k = Len(s) => r = <<>>
  BY <1>1
<1> QED
  BY <1>1, <1>2, <1>3, <1>4 DEF r

\* A queue its first element has left.
LEMMA First ==
  ASSUME NEW s \in Seq(Tasks), Once(s), s # <<>>
  PROVE  Head(s) \in In(s) /\ Tail(s) \in Seq(Tasks) /\ Once(Tail(s)) /\ In(Tail(s)) = In(s) \ {Head(s)}
<1>1. /\ Len(s) \in Nat \ {0} /\ Head(s) = s[1] /\ Tail(s) \in Seq(Tasks) /\ Len(Tail(s)) = Len(s) - 1
      /\ \A i \in 1..Len(Tail(s)) : Tail(s)[i] = s[i + 1]
  OBVIOUS
<1>2. Head(s) \in In(s)
  BY <1>1 DEF In
<1>3. Once(Tail(s))
  BY <1>1 DEF Once
<1>4. In(Tail(s)) = In(s) \ {Head(s)}
  <2>1. ASSUME NEW x \in In(Tail(s)) PROVE x \in In(s) \ {Head(s)}
    BY <2>1, <1>1 DEF In, Once
  <2>2. ASSUME NEW x \in In(s), x # Head(s) PROVE x \in In(Tail(s))
    <3>1. PICK i \in 1..Len(s) : s[i] = x
      BY DEF In
    <3>2. i - 1 \in 1..Len(Tail(s)) /\ Tail(s)[i - 1] = x
      BY <3>1, <2>2, <1>1
    <3> QED
      BY <3>2 DEF In
  <2> QED
    BY <2>1, <2>2
<1> QED
  BY <1>1, <1>2, <1>3, <1>4

\* A queue an element has left, wherever it stood.
LEMMA Removed ==
  ASSUME NEW s \in Seq(Tasks), Once(s), NEW t
  PROVE  Without(s, t) \in Seq(Tasks) /\ Once(Without(s, t)) /\ In(Without(s, t)) = In(s) \ {t}
<1>1. CASE t \notin In(s)
  BY <1>1 DEF Without, In
<1>2. CASE t \in In(s)
  <2> DEFINE place == CHOOSE i \in DOMAIN s : s[i] = t
             r == [i \in 1..(Len(s) - 1) |-> s[IF i < place THEN i ELSE i + 1]]
  <2>1. /\ DOMAIN s = 1..Len(s) /\ Len(s) \in Nat
        /\ \A i \in 1..Len(s) : s[i] \in Tasks
    OBVIOUS
  <2>2. place \in 1..Len(s) /\ s[place] = t
    <3>1. \E i \in DOMAIN s : s[i] = t
      BY <1>2, <2>1 DEF In
    <3> QED
      BY <3>1, <2>1
  <2> HIDE DEF place
  <2>3. /\ r \in Seq(Tasks) /\ Len(r) = Len(s) - 1
        /\ \A i \in 1..(Len(s) - 1) : r[i] = s[IF i < place THEN i ELSE i + 1]
    <3>1. \A i \in 1..(Len(s) - 1) : s[IF i < place THEN i ELSE i + 1] \in Tasks
      BY <2>1, <2>2
    <3>2. Len(s) - 1 \in Nat
      BY <2>1, <2>2
    <3> QED
      BY <3>1, <3>2
  <2> HIDE DEF r
  <2>4. Once(r)
    BY <2>1, <2>2, <2>3 DEF Once
  <2>5. In(r) = In(s) \ {t}
    <3>1. ASSUME NEW x \in In(r) PROVE x \in In(s) \ {t}
      <4>1. PICK i \in 1..(Len(s) - 1) : r[i] = x
        BY <2>3 DEF In
      <4>2. x = s[IF i < place THEN i ELSE i + 1]
        BY <4>1, <2>3
      <4>3. (IF i < place THEN i ELSE i + 1) \in 1..Len(s) /\ (IF i < place THEN i ELSE i + 1) # place
        BY <2>1, <2>2
      <4> QED
        BY <4>2, <4>3, <2>2 DEF In, Once
    <3>2. ASSUME NEW x \in In(s), x # t PROVE x \in In(r)
      <4>1. PICK i \in 1..Len(s) : s[i] = x
        BY DEF In
      <4>2. CASE i < place
        BY <4>1, <4>2, <2>1, <2>2, <2>3 DEF In
      <4>3. CASE i > place
        <5>1. i - 1 \in 1..(Len(s) - 1) /\ r[i - 1] = x
          BY <4>1, <4>3, <2>1, <2>2, <2>3
        <5> QED
          BY <5>1, <2>3 DEF In
      <4> QED
        BY <4>1, <4>2, <4>3, <3>2, <2>1, <2>2
    <3> QED
      BY <3>1, <3>2
  <2>6. Without(s, t) = r
    BY <1>2, <2>1 DEF Without, In, r, place
  <2> QED
    BY <2>3, <2>4, <2>5, <2>6
<1> QED
  BY <1>1, <1>2

----------------------------------------------------------------------------
(* How many waiters are popped. *)

\* The numbers are well-founded, so a set of them has a least one.
Less == {ss \in Nat \X Nat : ss[1] < ss[2]}
LEMMA LeastNumber ==
  ASSUME NEW S \in SUBSET Nat, S # {}
  PROVE  \E x \in S : \A y \in S : x <= y
<1>1. IsWellFoundedOn(Less, Nat)
  <2>1. OpToRel(<, Nat) = Less
    BY DEF OpToRel, Less
  <2>2. IsWellFoundedOn(OpToRel(<, Nat), Nat)
    BY NatLessThanWellFounded
  <2> QED
    BY <2>1, <2>2, Zenon
<1>2. S \subseteq Nat
  OBVIOUS
<1>3. PICK x \in S : \A y \in S : ~(<<y, x>> \in Less)
  BY <1>1, <1>2, WFMin, Zenon
<1>4. ASSUME NEW y \in S PROVE x <= y
  <2>1. x \in Nat /\ y \in Nat
    OBVIOUS
  <2>2. ~(y < x)
    BY <2>1, <1>3 DEF Less
  <2> QED
    BY <2>1, <2>2
<1> QED
  BY <1>4

\* Where the live ones are among the first k of a queue.
LivePlaces(s, k) == {i \in 1..k : at[s[i]] = "gate"}

LEMMA LiveCounts ==
  ASSUME NEW s, NEW k \in Nat
  PROVE  /\ IsFiniteSet(LivePlaces(s, k)) /\ Live(s, k) = Cardinality(LivePlaces(s, k)) /\ Live(s, k) \in Nat
         /\ Live(s, 0) = 0 /\ Live(s, k + 1) \in {Live(s, k), Live(s, k) + 1}
<1>1. IsFiniteSet(1..k) /\ LivePlaces(s, k) \subseteq 1..k
  BY FS_Interval DEF LivePlaces
<1>2. IsFiniteSet(LivePlaces(s, k)) /\ Cardinality(LivePlaces(s, k)) \in Nat
  BY <1>1, FS_Subset, FS_CardinalityType
<1>3. LivePlaces(s, 0) = {}
  BY DEF LivePlaces
<1>4. LivePlaces(s, k + 1) = LivePlaces(s, k) \cup (IF at[s[k + 1]] = "gate" THEN {k + 1} ELSE {})
  BY DEF LivePlaces
<1>5. k + 1 \notin LivePlaces(s, k)
  BY DEF LivePlaces
<1>6. Cardinality(LivePlaces(s, k + 1)) \in {Cardinality(LivePlaces(s, k)), Cardinality(LivePlaces(s, k)) + 1}
  <2>1. CASE at[s[k + 1]] = "gate"
    <3>1. LivePlaces(s, k + 1) = LivePlaces(s, k) \cup {k + 1}
      BY <1>4, <2>1
    <3>2. Cardinality(LivePlaces(s, k) \cup {k + 1}) = Cardinality(LivePlaces(s, k)) + 1
      BY <1>2, <1>5, FS_AddElement
    <3> QED
      BY <3>1, <3>2
  <2>2. CASE at[s[k + 1]] # "gate"
    <3>1. LivePlaces(s, k + 1) = LivePlaces(s, k)
      BY <1>4, <2>2
    <3> QED
      BY <3>1
  <2> QED
    BY <2>1, <2>2
<1>7. \A n : Live(s, n) = Cardinality(LivePlaces(s, n))
  BY DEF Live, LivePlaces
<1>8. Cardinality(LivePlaces(s, 0)) = 0
  BY <1>3, FS_EmptySet
<1> QED
  BY <1>2, <1>6, <1>7, <1>8

\* _admit_waiting stops at the end of the queue or when the free places are taken.
LEMMA PoppedWaiters ==
  ASSUME NEW s \in Seq(Tasks), NEW free \in Int
  PROVE  LET k == Popped(s, free) IN
         /\ k \in 0..Len(s) /\ (free <= 0 => k = 0)
         /\ free > 0 => (k = Len(s) \/ Live(s, k) = free)
<1>0. Len(s) \in Nat
  OBVIOUS
<1>1. CASE free <= 0
  BY <1>0, <1>1 DEF Popped
<1>2. CASE free > 0
  <2> DEFINE Enough == {k \in 0..Len(s) : k = Len(s) \/ Live(s, k) >= free}
             Stops(k) == /\ k = Len(s) \/ Live(s, k) = free
                         /\ \A j \in 0..(k - 1) : Live(s, j) < free
  <2>1. Enough \in SUBSET Nat /\ Len(s) \in Enough
    BY <1>0
  <2>2. PICK k \in Enough : \A j \in Enough : k <= j
    BY <2>1, LeastNumber
  <2>3. k \in 0..Len(s) /\ (k = Len(s) \/ Live(s, k) >= free)
    BY <2>2
  <2>4. ASSUME NEW j \in 0..(k - 1) PROVE Live(s, j) < free
    <3>1. j \in 0..Len(s) /\ j \in Nat /\ j \notin Enough
      BY <1>0, <2>2, <2>3
    <3>2. ~(Live(s, j) >= free) /\ Live(s, j) \in Nat
      BY <3>1, LiveCounts
    <3> QED
      BY <3>2
  <2>5. k = Len(s) \/ Live(s, k) = free
    <3>1. CASE k = 0
      BY <3>1, <2>3, <1>2, LiveCounts
    <3>2. CASE k # 0
      <4>1. k - 1 \in Nat /\ k - 1 \in 0..(k - 1) /\ (k - 1) + 1 = k
        BY <2>3, <3>2
      <4>2. Live(s, k - 1) < free /\ Live(s, k - 1) \in Nat
        BY <4>1, <2>4, LiveCounts
      <4>3. Live(s, k) \in {Live(s, k - 1), Live(s, k - 1) + 1}
        BY <4>1, LiveCounts
      <4> QED
        BY <4>2, <4>3, <2>3
    <3> QED
      BY <3>1, <3>2
  <2>6. Stops(k)
    BY <2>4, <2>5
  <2> HIDE DEF Stops
  <2>7. \E n \in 0..Len(s) : Stops(n)
    BY <2>3, <2>6
  <2>8. Popped(s, free) = CHOOSE n \in 0..Len(s) : Stops(n)
    BY <1>2 DEF Popped, Stops
  <2>9. Popped(s, free) \in 0..Len(s) /\ Stops(Popped(s, free))
    BY <2>7, <2>8
  <2> QED
    BY <2>9, <1>2 DEF Stops
<1> QED
  BY <1>1, <1>2

----------------------------------------------------------------------------
(* The gate. *)

\* The turns that _admit_waiting admits when it pops the first k waiters.
AdmittedOf(k) == {waiters[i] : i \in {j \in 1..k : at[waiters[j]] = "gate"}}

\* No waiter is admitted twice, so there are as many as live places.
LEMMA AdmittedCount ==
  ASSUME CapsInv, NEW k \in 0..Len(waiters)
  PROVE  IsFiniteSet(AdmittedOf(k)) /\ Cardinality(AdmittedOf(k)) = Live(waiters, k)
<1> DEFINE f == [i \in LivePlaces(waiters, k) |-> waiters[i]]
<1>1. Len(waiters) \in Nat /\ k \in Nat
  BY DEF CapsInv, TypeOK
<1>2. f \in [LivePlaces(waiters, k) -> AdmittedOf(k)]
  BY DEF LivePlaces, AdmittedOf
<1>3. \A i, j \in LivePlaces(waiters, k) : f[i] = f[j] => i = j
  BY <1>1 DEF LivePlaces, CapsInv, GateQueue, Once
<1>4. \A t \in AdmittedOf(k) : \E i \in LivePlaces(waiters, k) : f[i] = t
  BY DEF LivePlaces, AdmittedOf
<1>5. ExistsBijection(LivePlaces(waiters, k), AdmittedOf(k))
  BY <1>2, <1>3, <1>4, Zenon DEF ExistsBijection, Bijection, Injection, Surjection, IsInjective
<1>6. IsFiniteSet(LivePlaces(waiters, k)) /\ Live(waiters, k) = Cardinality(LivePlaces(waiters, k))
  BY <1>1, LiveCounts
<1> QED
  BY <1>5, <1>6, FS_Bijection

\* Admission leaves no place free that a waiter could have, and counts who got one.
LEMMA Admission ==
  ASSUME CapsInv, NEW taken \in Nat, NEW lim \in Nat, NEW at0 \in [Tasks -> States],
         AdmitWaiting(taken, lim, at0),
         \A u \in Tasks : at0[u] = "gate" <=> at[u] = "gate",
         \A u \in In(waiters) : at0[u] \in InGate,
         IsFiniteSet({u \in Tasks : at0[u] \in Admitted}), taken = Cardinality({u \in Tasks : at0[u] \in Admitted})
  PROVE  /\ at' \in [Tasks -> States] /\ waiters' \in Seq(Tasks) /\ inFlight' \in Nat
         /\ GateQueue' /\ RunningExact' /\ (waiters' # <<>> => inFlight' >= lim)
         /\ \A u \in Tasks : at'[u] = at0[u] \/ (at0[u] = "gate" /\ at'[u] = "admitted")
<1> DEFINE k == Popped(waiters, lim - taken)
           ones == AdmittedOf(k)
           had == {u \in Tasks : at0[u] \in Admitted}
<1>0. waiters \in Seq(Tasks) /\ Once(waiters) /\ Len(waiters) \in Nat /\ \A i \in 1..Len(waiters) : waiters[i] \in Tasks
  BY DEF CapsInv, TypeOK, GateQueue
<1>1. /\ k \in 0..Len(waiters) /\ (lim - taken <= 0 => k = 0)
      /\ lim - taken > 0 => (k = Len(waiters) \/ Live(waiters, k) = lim - taken)
  <2>1. lim - taken \in Int
    OBVIOUS
  <2>2. PICK free \in Int : free = lim - taken
    BY <2>1
  <2> QED BY <1>0, <2>2, PoppedWaiters
<1>2. /\ waiters' = SubSeq(waiters, k + 1, Len(waiters)) /\ inFlight' = taken + Cardinality(ones)
      /\ at' = [u \in Tasks |-> IF u \in ones THEN "admitted" ELSE at0[u]]
  BY DEF AdmitWaiting, AdmittedOf
<1> HIDE DEF k
<1>3. IsFiniteSet(ones) /\ Cardinality(ones) = Live(waiters, k) /\ Cardinality(ones) \in Nat
  BY <1>1, AdmittedCount, FS_CardinalityType
<1>4. \A u \in ones : u \in Tasks /\ at[u] = "gate" /\ at0[u] = "gate"
  BY <1>0, <1>1 DEF AdmittedOf
<1>5. /\ waiters' \in Seq(Tasks) /\ Once(waiters') /\ In(waiters') = In(waiters) \ {waiters[i] : i \in 1..k}
      /\ k = Len(waiters) => waiters' = <<>>
  BY <1>0, <1>1, <1>2, Rest
<1>6. at' \in [Tasks -> States] /\ \A u \in Tasks : at'[u] = at0[u] \/ (at0[u] = "gate" /\ at'[u] = "admitted")
  BY <1>2, <1>4 DEF States, Holding, Admitted
<1>7. RunningExact' /\ inFlight' \in Nat
  <2>1. {u \in Tasks : at'[u] \in Admitted} = had \cup ones
    BY <1>2, <1>4 DEF Admitted
  <2>2. had \cap ones = {}
    BY <1>4 DEF Admitted
  <2>3. IsFiniteSet(had \cup ones) /\ Cardinality(had \cup ones) = Cardinality(had) + Cardinality(ones) - 0
    BY <2>2, <1>3, FS_Union, FS_EmptySet
  <2>4. Cardinality(had \cup ones) = inFlight' /\ inFlight' \in Nat
    BY <2>3, <1>2, <1>3
  <2>5. Running' = had \cup ones
    BY <2>1 DEF Running
  <2> QED
    BY <2>3, <2>4, <2>5 DEF RunningExact
<1>8. GateQueue'
  <2>1. ASSUME NEW u \in In(waiters') PROVE at'[u] \in InGate
    <3>1. u \in In(waiters) /\ u \notin ones /\ u \in Tasks
      <4>1. u \in In(waiters) /\ u \notin {waiters[i] : i \in 1..k}
        BY <1>5
      <4> QED
        BY <4>1, <1>0 DEF In, AdmittedOf
    <3> QED
      BY <3>1, <1>2
  <2>2. ASSUME NEW u \in Tasks, at'[u] = "gate" PROVE u \in In(waiters')
    <3>1. u \notin ones /\ at0[u] = "gate" /\ at[u] = "gate"
      BY <2>2, <1>2
    <3>2. u \in In(waiters)
      BY <3>1 DEF CapsInv, GateQueue
    <3>3. u \notin {waiters[i] : i \in 1..k}
      BY <3>1 DEF AdmittedOf
    <3> QED
      BY <3>2, <3>3, <1>5
  <2> QED
    BY <2>1, <2>2, <1>5 DEF GateQueue
<1>9. waiters' # <<>> => inFlight' >= lim
  <2>1. CASE lim - taken <= 0
    BY <2>1, <1>2, <1>3
  <2>2. CASE lim - taken > 0
    BY <2>2, <1>1, <1>2, <1>3, <1>5
  <2> QED
    BY <2>1, <2>2
<1> QED
  BY <1>5, <1>6, <1>7, <1>8, <1>9

\* acquire: a turn passes only where nobody waits and a place is free.
LEMMA Acquires ==
  ASSUME CapsInv, NEW t \in Tasks, at[t] \notin AtGate, Acquire(t)
  PROVE  /\ at' \in [Tasks -> States] /\ at'[t] \in {"run", "gate"} /\ \A u \in Tasks \ {t} : at'[u] = at[u]
         /\ limit' = limit /\ waiters' \in Seq(Tasks) /\ inFlight' \in Nat
         /\ GateQueue' /\ RunningExact' /\ Full'
<1>0. /\ at \in [Tasks -> States] /\ limit \in Nat /\ inFlight \in Nat /\ waiters \in Seq(Tasks)
      /\ GateQueue /\ RunningExact /\ Full /\ Once(waiters) /\ t \notin In(waiters)
  BY CapsConstants DEF CapsInv, TypeOK, States, GateQueue, AtGate
<1>1. CASE waiters = <<>> /\ inFlight < limit
  <2>1. inFlight' = inFlight + 1 /\ at' = [at EXCEPT ![t] = "run"] /\ waiters' = waiters /\ limit' = limit
    BY <1>1 DEF Acquire
  <2>2. at' \in [Tasks -> States] /\ at'[t] = "run" /\ \A u \in Tasks \ {t} : at'[u] = at[u]
    BY <2>1, <1>0 DEF States, Holding, Admitted
  <2>3. {u \in Tasks : at'[u] \in Admitted} = Running \cup {t} /\ t \notin Running
    BY <2>2 DEF Running, Admitted, AtGate
  <2>4. RunningExact'
    <3>1. IsFiniteSet(Running \cup {t}) /\ Cardinality(Running \cup {t}) = Cardinality(Running) + 1
      BY <2>3, <1>0, FS_AddElement DEF RunningExact
    <3> QED
      BY <3>1, <2>3, <2>1, <1>0 DEF RunningExact, Running
  <2>5. GateQueue'
    BY <2>1, <2>2, <1>0 DEF GateQueue
  <2>6. Full'
    BY <2>1, <1>1 DEF Full
  <2> QED
    BY <2>1, <2>2, <2>4, <2>5, <2>6, <1>0
<1>2. CASE ~(waiters = <<>> /\ inFlight < limit)
  <2>1. waiters' = Append(waiters, t) /\ at' = [at EXCEPT ![t] = "gate"] /\ inFlight' = inFlight /\ limit' = limit
    BY <1>2 DEF Acquire
  <2>2. at' \in [Tasks -> States] /\ at'[t] = "gate" /\ \A u \in Tasks \ {t} : at'[u] = at[u]
    BY <2>1, <1>0 DEF States, Holding, InGate
  <2>3. waiters' \in Seq(Tasks) /\ Once(waiters') /\ In(waiters') = In(waiters) \cup {t}
    BY <2>1, <1>0, Queues
  <2>4. {u \in Tasks : at'[u] \in Admitted} = Running
    BY <2>2 DEF Running, Admitted, AtGate
  <2>5. RunningExact'
    BY <2>1, <2>4, <1>0 DEF RunningExact, Running
  <2>6. GateQueue'
    <3>1. \A u \in In(waiters) : u \in Tasks \ {t} /\ at[u] \in InGate
      BY <1>0 DEF GateQueue, In
    <3>2. \A u \in In(waiters') : at'[u] \in InGate
      BY <3>1, <2>2, <2>3 DEF InGate
    <3>3. \A u \in Tasks : at'[u] = "gate" => u \in In(waiters')
      BY <2>2, <2>3, <1>0 DEF GateQueue
    <3> QED
      BY <3>2, <3>3, <2>3 DEF GateQueue
  <2>7. Full'
    BY <2>1, <1>0, <1>2 DEF Full
  <2> QED
    BY <2>1, <2>2, <2>3, <2>5, <2>6, <2>7, <1>0
<1> QED
  BY <1>1, <1>2

----------------------------------------------------------------------------
(* The reservations and locks. *)

LEMMA Empty == ASSUME NEW s \in Seq(Tasks), In(s) = {} PROVE s = <<>>
<1>1. Len(s) \in Nat /\ (Len(s) = 0 => s = <<>>)
  OBVIOUS
<1>2. Len(s) >= 1 => s[1] \in In(s)
  BY <1>1 DEF In
<1> QED
  BY <1>1, <1>2

\* What a turn finds when it leaves, and what it leaves behind: who holds the locks, whose
\* reservations stay, and that a lock object is only dropped where nobody stays.
OthersHold(holders, t) ==
    \A l \in Tasks : holders[l] # None => holders[l] # t /\ at[holders[l]] \in AtGate /\ mine[holders[l]] = l
OthersStay(t) == at'[t] \notin Holding /\ \A u \in Tasks \ {t} : at'[u] \in Holding <=> at[u] \in Holding
LocksDrop(t) ==
    \A h \in Threads : locks'[h] = locks[h]
        \/ (locks'[h] = None /\ \A u \in Tasks \ {t} : ThreadOf[u] = h => at[u] \notin Holding)

\* release_thread_slot: the count is exact, and a lock object is dropped only when the last turn left.
LEMMA Released ==
  ASSUME CapsInv, NEW t \in Tasks, at[t] \in Holding, NEW holders \in [Tasks -> Tasks \cup {None}],
         OthersHold(holders, t), OthersStay(t), ReleaseThreadSlot(ThreadOf[t], holders)
  PROVE  /\ reserved' \in [Threads -> Nat] /\ locks' \in [Threads -> Tasks \cup {None}]
         /\ QueuedExact' /\ Drained' /\ LocksDrop(t)
<1> DEFINE h0 == ThreadOf[t]
           rest == Queued(h0) \ {t}
<1>0. /\ h0 \in Threads /\ reserved \in [Threads -> Nat] /\ locks \in [Threads -> Tasks \cup {None}]
      /\ QueuedExact /\ Drained /\ OneLock /\ None \notin Tasks /\ ThreadOf \in [Tasks -> Threads] /\ Depth \in Nat
  BY CapsConstants DEF CapsInv, TypeOK
<1>1. /\ reserved' = [reserved EXCEPT ![h0] = IF reserved[h0] - 1 <= 0 THEN 0 ELSE reserved[h0] - 1]
      /\ locks' = IF reserved[h0] - 1 <= 0 /\ locks[h0] # None /\ holders[locks[h0]] = None
                  THEN [locks EXCEPT ![h0] = None] ELSE locks
  BY DEF ReleaseThreadSlot
<1>2. t \in Queued(h0) /\ IsFiniteSet(Queued(h0)) /\ reserved[h0] = Cardinality(Queued(h0)) /\ reserved[h0] <= Depth
  BY <1>0 DEF Queued, QueuedExact
<1>3. IsFiniteSet(rest) /\ Cardinality(rest) = reserved[h0] - 1 /\ Cardinality(rest) \in Nat
  BY <1>2, FS_RemoveElement, FS_CardinalityType
<1>4. reserved'[h0] = Cardinality(rest) /\ reserved' \in [Threads -> Nat] /\ \A h \in Threads \ {h0} : reserved'[h] = reserved[h]
  BY <1>0, <1>1, <1>3
<1>5. locks' \in [Threads -> Tasks \cup {None}] /\ \A h \in Threads \ {h0} : locks'[h] = locks[h]
  BY <1>0, <1>1
<1> DEFINE left(h) == {u \in Tasks : ThreadOf[u] = h /\ at'[u] \in Holding}
<1>6. left(h0) = rest
  BY DEF Queued, OthersStay
<1>7. \A h \in Threads \ {h0} : left(h) = Queued(h)
  BY DEF Queued, OthersStay
<1>8. QueuedExact'
  <2> HIDE DEF left, rest, h0
  <2>1. ASSUME NEW h \in Threads
        PROVE  IsFiniteSet(left(h)) /\ reserved'[h] = Cardinality(left(h)) /\ reserved'[h] <= Depth
    <3>1. CASE h = h0
      <4>1. left(h) = rest /\ reserved'[h] = Cardinality(rest) /\ reserved'[h] = reserved[h0] - 1
        BY <3>1, <1>3, <1>4, <1>6
      <4> QED
        BY <4>1, <1>0, <1>2, <1>3
    <3>2. CASE h # h0
      <4>1. left(h) = Queued(h) /\ reserved'[h] = reserved[h]
        BY <3>2, <1>4, <1>7
      <4>2. IsFiniteSet(Queued(h)) /\ reserved[h] = Cardinality(Queued(h)) /\ reserved[h] <= Depth
        BY <1>0 DEF QueuedExact
      <4> QED
        BY <4>1, <4>2
    <3> QED
      BY <3>1, <3>2
  <2>2. \A h : Queued(h)' = left(h)
    BY DEF Queued, left
  <2> QED
    BY <2>1, <2>2 DEF QueuedExact
<1>9. reserved[h0] - 1 <= 0 => \A u \in Tasks \ {t} : ThreadOf[u] = h0 => at[u] \notin Holding
  <2>1. reserved[h0] - 1 <= 0 => rest = {}
    BY <1>3, FS_EmptySet
  <2> QED
    BY <2>1 DEF Queued
<1>10. reserved[h0] - 1 <= 0 => locks'[h0] = None
  <2>1. ASSUME reserved[h0] - 1 <= 0, locks[h0] # None PROVE holders[locks[h0]] = None
    <3>1. locks[h0] \in Tasks /\ ThreadOf[locks[h0]] = h0
      BY <2>1, <1>0 DEF OneLock
    <3>2. SUFFICES ASSUME holders[locks[h0]] # None PROVE FALSE
      OBVIOUS
    <3>3. PICK u \in Tasks : u = holders[locks[h0]]
      BY <3>1, <3>2
    <3>4. u # t /\ at[u] \in AtGate /\ mine[u] = locks[h0]
      BY <3>1, <3>2, <3>3 DEF OthersHold
    <3>5. locks[ThreadOf[u]] = locks[h0] /\ at[u] \in Holding
      BY <3>4, <1>0 DEF OneLock, Begun, AtGate, Holding
    <3>6. ThreadOf[u] = h0
      <4>1. ThreadOf[u] \in Threads
        BY <1>0
      <4> QED
        BY <4>1, <3>1, <3>5, <1>0 DEF OneLock
    <3> QED
      BY <3>4, <3>5, <3>6, <2>1, <1>9
  <2> QED
    BY <2>1, <1>0, <1>1
<1>11. Drained'
  BY <1>0, <1>3, <1>4, <1>5, <1>10 DEF Drained
<1>12. locks'[h0] = locks[h0] \/ (locks'[h0] = None /\ reserved[h0] - 1 <= 0)
  BY <1>0, <1>1
<1> QED
  BY <1>4, <1>5, <1>8, <1>9, <1>11, <1>12 DEF LocksDrop

\* Nothing moves between a reservation, its lock and the gate.
LEMMA LocksStand ==
  ASSUME CapsInv, UNCHANGED <<reserved, lockVars>>, at' \in [Tasks -> States],
         \A u \in Tasks : at'[u] = at[u] \/ (at[u] \in AtGate /\ at'[u] \in AtGate)
  PROVE  QueuedExact' /\ Drained' /\ OneLock' /\ Held' /\ Waits'
<1>0. /\ reserved' = reserved /\ locks' = locks /\ mine' = mine /\ holder' = holder /\ lockQ' = lockQ
      /\ QueuedExact /\ Drained /\ OneLock /\ Held
      /\ holder \in [Tasks -> Tasks \cup {None}] /\ lockQ \in [Tasks -> Seq(Tasks)] /\ locks \in [Threads -> Tasks \cup {None}]
  BY DEF lockVars, CapsInv, TypeOK
<1>1. QueuedExact'
  <2>1. \A h : {u \in Tasks : ThreadOf[u] = h /\ at'[u] \in Holding} = Queued(h)
    BY DEF Queued, AtGate, Holding
  <2> QED
    BY <2>1, <1>0 DEF QueuedExact, Queued
<1>2. Drained'
  BY <1>0 DEF Drained
<1>3. \A u \in Tasks : /\ (at'[u] \in Begun <=> at[u] \in Begun) /\ (at'[u] \in AtGate <=> at[u] \in AtGate)
                       /\ (at'[u] = "lock" <=> at[u] = "lock")
                       /\ (at'[u] \in {"new", "reserved"} <=> at[u] \in {"new", "reserved"})
  BY DEF Begun, AtGate, InGate, Admitted
<1>4. OneLock'
  BY <1>0, <1>3 DEF OneLock
<1>5. Held'
  <2>1. \A l \in Tasks : \A u \in In(lockQ[l]) : u \in Tasks
    BY <1>0 DEF In
  <2> QED
    BY <2>1, <1>0, <1>3 DEF Held
<1>6. Waits'
  BY <1>0, <1>3 DEF CapsInv, Waits
<1> QED
  BY <1>1, <1>2, <1>4, <1>5, <1>6

\* What the locks say of a turn that is on its way.
LEMMA LockFacts ==
  ASSUME CapsInv
  PROVE  /\ \A h \in Threads : locks[h] \in Tasks \cup {None}
         /\ \A l \in Tasks : /\ holder[l] \in Tasks \cup {None} /\ mine[l] \in Tasks \cup {None} /\ ThreadOf[l] \in Threads
                             /\ lockQ[l] \in Seq(Tasks) /\ In(lockQ[l]) \subseteq Tasks /\ Once(lockQ[l])
         /\ OneLock /\ Held /\ None \notin Tasks
<1>1. OneLock /\ Held /\ TypeOK /\ None \notin Tasks /\ \A l \in Tasks : Once(lockQ[l])
  BY CapsConstants DEF CapsInv, Held
<1>2. \A l \in Tasks : lockQ[l] \in Seq(Tasks)
  BY <1>1 DEF TypeOK
<1>3. \A l \in Tasks : In(lockQ[l]) \subseteq Tasks
  BY <1>2 DEF In
<1> QED BY <1>1, <1>2, <1>3, CapsConstants DEF TypeOK

\* A turn that waited for its lock, or only had its reservation, goes: nothing else changes.
LEMMA GivesUp ==
  ASSUME CapsInv, NEW t \in Tasks, at[t] \in {"reserved", "lock"}, at' \in [Tasks -> States], at'[t] = "done",
         \A u \in Tasks \ {t} : at'[u] = at[u],
         ReleaseThreadSlot(ThreadOf[t], holder), UNCHANGED <<mine, holder>>,
         lockQ' \in [Tasks -> Seq(Tasks)],
         \A l \in Tasks : Once(lockQ'[l]) /\ In(lockQ'[l]) = In(lockQ[l]) \ {t}
  PROVE  /\ reserved' \in [Threads -> Nat] /\ locks' \in [Threads -> Tasks \cup {None}]
         /\ QueuedExact' /\ Drained' /\ OneLock' /\ Held' /\ Waits'
<1>0. mine' = mine /\ holder' = holder /\ OneLock /\ Held /\ None \notin Tasks
  BY LockFacts
<1>1. at' \in [Tasks -> States] /\ at'[t] = "done" /\ \A u \in Tasks \ {t} : at'[u] = at[u]
  OBVIOUS
<1>2. at[t] \notin AtGate /\ at[t] \in Holding
  BY DEF AtGate, InGate, Admitted, Holding
<1>3. OthersHold(holder, t)
  BY <1>0, <1>2 DEF Held, OthersHold
<1>4. /\ reserved' \in [Threads -> Nat] /\ locks' \in [Threads -> Tasks \cup {None}]
      /\ QueuedExact' /\ Drained' /\ LocksDrop(t)
  <2>1. holder \in [Tasks -> Tasks \cup {None}]
    BY DEF CapsInv, TypeOK
  <2>2. OthersStay(t)
    BY <1>1 DEF OthersStay, Holding, InGate, Admitted
  <2> QED
    BY <2>1, <2>2, <1>2, <1>3, Released
<1>5. OneLock'
  <2>1. ASSUME NEW u \in Tasks, at'[u] \in Begun PROVE mine[u] \in Tasks /\ locks'[ThreadOf[u]] = mine[u]
    <3>1. u # t /\ at[u] \in Begun /\ at[u] \in Holding
      BY <2>1, <1>1 DEF Begun, AtGate, InGate, Admitted, Holding
    <3> QED
      BY <3>1, <1>0, <1>4, LockFacts DEF OneLock, LocksDrop
  <2>2. ASSUME NEW h \in Threads, locks'[h] # None PROVE ThreadOf[locks'[h]] = h /\ at'[locks'[h]] \notin {"new", "reserved"}
    <3>1. locks'[h] = locks[h] /\ locks[h] \in Tasks
      BY <2>2, <1>4, LockFacts DEF LocksDrop
    <3>2. ThreadOf[locks[h]] = h /\ at[locks[h]] \notin {"new", "reserved"}
      BY <3>1, <2>2, <1>0 DEF OneLock
    <3> QED
      BY <3>1, <3>2, <1>1
  <2>3. ASSUME NEW l \in Tasks, at'[l] \in {"new", "reserved"} PROVE holder[l] = None /\ lockQ'[l] = <<>>
    <3>1. holder[l] = None /\ lockQ[l] = <<>>
      BY <2>3, <1>0, <1>1 DEF OneLock
    <3>2. In(lockQ[l]) = {}
      BY <3>1 DEF In
    <3>3. In(lockQ'[l]) = {} /\ lockQ'[l] \in Seq(Tasks)
      BY <3>2
    <3> QED
      BY <3>1, <3>3, Empty
  <2> QED
    BY <2>1, <2>2, <2>3, <1>0 DEF OneLock
<1>6. Held'
  <2>1. ASSUME NEW u \in Tasks, at'[u] \in AtGate PROVE holder[mine[u]] = u
    BY <2>1, <1>0, <1>1 DEF Held, AtGate, InGate, Admitted
  <2>2. ASSUME NEW l \in Tasks, holder[l] # None PROVE at'[holder[l]] \in AtGate /\ mine[holder[l]] = l
    BY <2>2, <1>1, <1>3, LockFacts DEF OthersHold
  <2>3. ASSUME NEW l \in Tasks, NEW u \in In(lockQ'[l]) PROVE at'[u] = "lock" /\ mine[u] = l
    <3>1. u \in In(lockQ[l]) /\ u # t /\ u \in Tasks
      BY LockFacts
    <3> QED
      BY <3>1, <1>0, <1>1 DEF Held
  <2> QED
    BY <2>1, <2>2, <2>3, <1>0 DEF Held
<1>7. Waits'
  <2>1. ASSUME NEW u \in Tasks, at'[u] = "lock" PROVE u \in In(lockQ'[mine[u]])
    <3>1. u # t /\ at[u] = "lock"
      BY <2>1
    <3>2. mine[u] \in Tasks /\ u \in In(lockQ[mine[u]])
      BY <3>1, <1>0 DEF OneLock, Begun, CapsInv, Waits
    <3> QED
      BY <3>1, <3>2
  <2> QED
    BY <2>1, <1>0 DEF Waits
<1> QED
  BY <1>1, <1>4, <1>5, <1>6, <1>7

\* A turn leaves its lock and its reservation; the gate may have admitted others on its way.
LEMMA Leaves ==
  ASSUME CapsInv, NEW t \in Tasks, at[t] \in AtGate, at' \in [Tasks -> States], at'[t] = "done",
         \A u \in Tasks \ {t} : at'[u] = at[u] \/ (at[u] = "gate" /\ at'[u] = "admitted"),
         Leave(t)
  PROVE  /\ reserved' \in [Threads -> Nat] /\ locks' \in [Threads -> Tasks \cup {None}]
         /\ holder' \in [Tasks -> Tasks \cup {None}]
         /\ QueuedExact' /\ Drained' /\ OneLock' /\ Held' /\ Waits'
<1> DEFINE freed == [holder EXCEPT ![mine[t]] = None]
<1>0. mine' = mine /\ lockQ' = lockQ /\ holder' = freed /\ OneLock /\ Held /\ None \notin Tasks
  BY LockFacts DEF Leave
<1>1. mine[t] \in Tasks /\ holder[mine[t]] = t
  BY <1>0 DEF OneLock, Held, Begun
<1>2. /\ freed \in [Tasks -> Tasks \cup {None}] /\ freed[mine[t]] = None
      /\ \A l \in Tasks \ {mine[t]} : freed[l] = holder[l]
  BY <1>1 DEF CapsInv, TypeOK
<1>3. ReleaseThreadSlot(ThreadOf[t], freed)
  BY DEF Leave
<1> HIDE DEF freed
<1>4. OthersHold(freed, t)
  BY <1>0, <1>1, <1>2, LockFacts DEF Held, OthersHold
<1>5. \A u \in Tasks \ {t} : /\ (at'[u] \in Begun <=> at[u] \in Begun) /\ (at'[u] \in AtGate <=> at[u] \in AtGate)
                             /\ (at'[u] = "lock" <=> at[u] = "lock") /\ (at'[u] \in Holding <=> at[u] \in Holding)
                             /\ (at'[u] \in {"new", "reserved"} <=> at[u] \in {"new", "reserved"})
  BY DEF Begun, AtGate, InGate, Admitted, Holding
<1>6. at[t] \in Holding /\ OthersStay(t)
  BY <1>5 DEF AtGate, Holding, InGate, Admitted, OthersStay
<1>7. /\ reserved' \in [Threads -> Nat] /\ locks' \in [Threads -> Tasks \cup {None}]
      /\ QueuedExact' /\ Drained' /\ LocksDrop(t)
  BY <1>2, <1>3, <1>4, <1>6, Released
<1>8. OneLock'
  <2>1. ASSUME NEW u \in Tasks, at'[u] \in Begun PROVE mine[u] \in Tasks /\ locks'[ThreadOf[u]] = mine[u]
    <3>1. u # t
      BY <2>1 DEF Begun, AtGate, InGate, Admitted
    <3>2. at[u] \in Begun /\ at[u] \in Holding
      BY <3>1, <2>1, <1>5 DEF Begun, AtGate, Holding
    <3> QED
      BY <3>1, <3>2, <1>0, <1>7, LockFacts DEF OneLock, LocksDrop
  <2>2. ASSUME NEW h \in Threads, locks'[h] # None PROVE ThreadOf[locks'[h]] = h /\ at'[locks'[h]] \notin {"new", "reserved"}
    <3>1. locks'[h] = locks[h] /\ locks[h] \in Tasks
      BY <2>2, <1>7, LockFacts DEF LocksDrop
    <3>2. ThreadOf[locks[h]] = h /\ at[locks[h]] \notin {"new", "reserved"}
      BY <3>1, <2>2, <1>0 DEF OneLock
    <3>3. at'[locks[h]] \notin {"new", "reserved"}
      BY <3>1, <3>2, <1>5
    <3> QED
      BY <3>1, <3>2, <3>3
  <2>3. ASSUME NEW l \in Tasks, at'[l] \in {"new", "reserved"} PROVE holder'[l] = None /\ lockQ'[l] = <<>>
    <3>1. l # t
      BY <2>3
    <3>2. at[l] \in {"new", "reserved"}
      BY <3>1, <2>3, <1>5
    <3>3. holder[l] = None /\ lockQ[l] = <<>>
      BY <3>2, <1>0 DEF OneLock
    <3> QED
      BY <3>3, <1>0, <1>2
  <2> QED
    BY <2>1, <2>2, <2>3, <1>0 DEF OneLock
<1>9. Held'
  <2>1. ASSUME NEW u \in Tasks, at'[u] \in AtGate PROVE holder'[mine[u]] = u
    <3>1. u # t
      BY <2>1 DEF AtGate, InGate, Admitted
    <3>2. at[u] \in AtGate
      BY <3>1, <2>1, <1>5
    <3>3. holder[mine[u]] = u /\ mine[u] \in Tasks
      BY <3>2, <1>0 DEF Held, OneLock, Begun
    <3> QED
      BY <3>1, <3>3, <1>0, <1>1, <1>2
  <2>2. ASSUME NEW l \in Tasks, holder'[l] # None PROVE at'[holder'[l]] \in AtGate /\ mine[holder'[l]] = l
    BY <2>2, <1>0, <1>2, <1>4, <1>5 DEF OthersHold
  <2>3. ASSUME NEW l \in Tasks, NEW u \in In(lockQ[l]) PROVE at'[u] = "lock" /\ mine[u] = l
    <3>1. u \in Tasks /\ at[u] = "lock" /\ mine[u] = l
      BY <1>0, LockFacts DEF Held
    <3>2. u # t
      BY <3>1 DEF AtGate, InGate, Admitted
    <3> QED
      BY <3>1, <3>2, <1>5
  <2>4. \A l \in Tasks : Once(lockQ[l])
    BY LockFacts
  <2> QED
    BY <2>1, <2>2, <2>3, <2>4, <1>0 DEF Held
<1>10. Waits'
  <2>1. ASSUME NEW u \in Tasks, at'[u] = "lock" PROVE u \in In(lockQ[mine[u]])
    <3>1. u # t
      BY <2>1
    <3>2. at[u] = "lock"
      BY <3>1, <2>1, <1>5
    <3> QED
      BY <3>2 DEF CapsInv, Waits
  <2> QED
    BY <2>1, <1>0 DEF Waits
<1> QED
  BY <1>0, <1>2, <1>7, <1>8, <1>9, <1>10

----------------------------------------------------------------------------
(* The steps. *)

\* The gate is left alone: nobody enters or leaves it or is admitted.
LEMMA GateStands ==
  ASSUME CapsInv, UNCHANGED gateVars,
         \A u \in Tasks : /\ (at'[u] \in Admitted <=> at[u] \in Admitted) /\ (at'[u] \in InGate <=> at[u] \in InGate)
                          /\ (at'[u] = "gate" => at[u] = "gate")
  PROVE  RunningExact' /\ GateQueue' /\ Full'
<1>0. /\ inFlight' = inFlight /\ waiters' = waiters /\ limit' = limit /\ waiters \in Seq(Tasks)
      /\ RunningExact /\ GateQueue /\ Full
  BY DEF gateVars, CapsInv, TypeOK
<1>1. Running' = Running
  BY DEF Running
<1>2. RunningExact'
  BY <1>0, <1>1 DEF RunningExact
<1>3. GateQueue'
  <2>1. In(waiters) \subseteq Tasks
    BY <1>0 DEF In
  <2> QED
    BY <2>1, <1>0 DEF GateQueue
<1> QED
  BY <1>0, <1>2, <1>3 DEF Full

\* A thread keeps its count while its turns only move on.
LEMMA StaysQueued ==
  ASSUME CapsInv, reserved' = reserved, \A u \in Tasks : at'[u] \in Holding <=> at[u] \in Holding
  PROVE  QueuedExact'
<1>1. \A h : Queued(h)' = Queued(h)
  BY DEF Queued
<1> QED
  BY <1>1 DEF CapsInv, QueuedExact

LEMMA Counted ==
  ASSUME CapsInv, NEW t \in Tasks, at[t] \in Holding
  PROVE  ThreadOf[t] \in Threads /\ reserved[ThreadOf[t]] # 0
<1>1. ThreadOf[t] \in Threads
  BY CapsConstants
<1>2. IsFiniteSet(Queued(ThreadOf[t])) /\ reserved[ThreadOf[t]] = Cardinality(Queued(ThreadOf[t])) /\ t \in Queued(ThreadOf[t])
  BY <1>1 DEF CapsInv, QueuedExact, Queued
<1>3. Cardinality(Queued(ThreadOf[t])) # 0
  BY <1>2, FS_EmptySet
<1> QED
  BY <1>1, <1>2, <1>3

LEMMA ReserveInv == ASSUME CapsInv, NEW t \in Tasks, Reserve(t) PROVE CapsInv'
<1> DEFINE h == ThreadOf[t]
<1>0. /\ at[t] = "new" /\ UNCHANGED <<lockVars, gateVars>> /\ UNCHANGED gateVars
      /\ locks' = locks /\ mine' = mine /\ holder' = holder /\ lockQ' = lockQ
      /\ limit' = limit /\ inFlight' = inFlight /\ waiters' = waiters
      /\ h \in Threads /\ reserved \in [Threads -> Nat] /\ at \in [Tasks -> States] /\ Depth \in Nat
      /\ OneLock /\ Held /\ Drained /\ QueuedExact /\ TypeOK
  BY CapsConstants DEF Reserve, lockVars, gateVars, CapsInv, TypeOK, States
<1>1. /\ at'[t] \in {"refused", "reserved"} /\ at' \in [Tasks -> States] /\ \A u \in Tasks \ {t} : at'[u] = at[u]
      /\ at'[t] = "refused" => reserved' = reserved
      /\ at'[t] = "reserved" => reserved[h] < Depth /\ reserved' = [reserved EXCEPT ![h] = @ + 1]
  BY <1>0 DEF Reserve, States, Holding
<1>2. RunningExact' /\ GateQueue' /\ Full'
  BY <1>0, <1>1, GateStands DEF Admitted, InGate
<1>3. reserved' \in [Threads -> Nat] /\ QueuedExact' /\ Drained'
  <2>1. CASE at'[t] = "refused"
    <3>1. QueuedExact'
      BY <2>1, <1>0, <1>1, StaysQueued DEF Holding, InGate, Admitted
    <3> QED
      BY <3>1, <2>1, <1>0, <1>1 DEF Drained
  <2>2. CASE at'[t] = "reserved"
    <3>1. /\ reserved' \in [Threads -> Nat] /\ reserved'[h] = reserved[h] + 1 /\ reserved'[h] <= Depth
          /\ \A x \in Threads \ {h} : reserved'[x] = reserved[x]
      BY <2>2, <1>0, <1>1
    <3>2. t \notin Queued(h) /\ IsFiniteSet(Queued(h)) /\ reserved[h] = Cardinality(Queued(h))
      BY <1>0 DEF Queued, QueuedExact, Holding, InGate, Admitted
    <3>3. IsFiniteSet(Queued(h) \cup {t}) /\ Cardinality(Queued(h) \cup {t}) = reserved[h] + 1
      BY <3>2, FS_AddElement
    <3>4. Queued(h)' = Queued(h) \cup {t}
      BY <2>2, <1>0, <1>1 DEF Queued, Holding
    <3>5. \A x \in Threads \ {h} : Queued(x)' = Queued(x)
      BY <1>1 DEF Queued
    <3>6. QueuedExact'
      <4> HIDE DEF h
      <4>1. ASSUME NEW x \in Threads
            PROVE  IsFiniteSet(Queued(x)') /\ reserved'[x] = Cardinality(Queued(x)') /\ reserved'[x] <= Depth
        <5>1. CASE x = h
          BY <5>1, <3>1, <3>3, <3>4
        <5>2. CASE x # h
          BY <5>2, <3>1, <3>5, <1>0 DEF QueuedExact
        <5> QED
          BY <5>1, <5>2
      <4> QED
        BY <4>1 DEF QueuedExact
    <3>7. Drained'
      <4> HIDE DEF h
      <4>1. ASSUME NEW x \in Threads, reserved'[x] = 0 PROVE locks'[x] = None
        <5>1. x # h /\ reserved[x] = 0
          BY <4>1, <3>1, <1>0
        <5> QED
          BY <5>1, <1>0 DEF Drained
      <4> QED
        BY <4>1 DEF Drained
    <3> QED
      BY <3>1, <3>6, <3>7
  <2> QED
    BY <2>1, <2>2, <1>1
<1>4. OneLock'
  <2>1. \A u \in Tasks : (at'[u] \in Begun => at[u] \in Begun) /\ (at'[u] \in {"new", "reserved"} => at[u] \in {"new", "reserved"})
    BY <1>0, <1>1 DEF Begun, AtGate, InGate, Admitted
  <2>2. ASSUME NEW x \in Threads, locks[x] # None PROVE at'[locks[x]] \notin {"new", "reserved"}
    <3>1. locks[x] \in Tasks /\ at[locks[x]] \notin {"new", "reserved"}
      BY <2>2, <1>0, LockFacts DEF OneLock
    <3> QED
      BY <3>1, <2>1
  <2> QED
    BY <2>1, <2>2, <1>0 DEF OneLock
<1>5. Held'
  <2>1. \A u \in Tasks : /\ (at'[u] \in AtGate <=> at[u] \in AtGate) /\ (at'[u] = "lock" <=> at[u] = "lock")
    BY <1>0, <1>1 DEF AtGate, InGate, Admitted
  <2> QED
    BY <2>1, <1>0, LockFacts DEF Held
<1>6. TypeOK'
  BY <1>0, <1>1, <1>3 DEF TypeOK, States
<1>7. Waits'
  <2>1. \A u \in Tasks : at'[u] = "lock" => at[u] = "lock"
    BY <1>1
  <2> QED
    BY <2>1, <1>0 DEF CapsInv, Waits
<1> QED
  BY <1>2, <1>3, <1>4, <1>5, <1>6, <1>7 DEF CapsInv

LEMMA AbortInv == ASSUME CapsInv, NEW t \in Tasks, Abort(t) PROVE CapsInv'
<1>0. /\ at[t] = "reserved" /\ UNCHANGED gateVars /\ UNCHANGED <<mine, holder>>
      /\ mine' = mine /\ holder' = holder /\ lockQ' = lockQ /\ ReleaseThreadSlot(ThreadOf[t], holder)
      /\ limit' = limit /\ inFlight' = inFlight /\ waiters' = waiters /\ TypeOK
  BY DEF Abort, gateVars, CapsInv
<1>1. at' \in [Tasks -> States] /\ at'[t] = "done" /\ \A u \in Tasks \ {t} : at'[u] = at[u]
  BY <1>0 DEF Abort, TypeOK, States
<1>2. RunningExact' /\ GateQueue' /\ Full'
  BY <1>0, <1>1, GateStands DEF Admitted, InGate
<1>3. lockQ' \in [Tasks -> Seq(Tasks)] /\ \A l \in Tasks : Once(lockQ'[l]) /\ In(lockQ'[l]) = In(lockQ[l]) \ {t}
  BY <1>0, LockFacts DEF Held, TypeOK
<1>4. /\ reserved' \in [Threads -> Nat] /\ locks' \in [Threads -> Tasks \cup {None}]
      /\ QueuedExact' /\ Drained' /\ OneLock' /\ Held' /\ Waits'
  BY <1>0, <1>1, <1>3, GivesUp
<1>5. TypeOK'
  BY <1>0, <1>1, <1>3, <1>4 DEF TypeOK, States
<1> QED
  BY <1>2, <1>4, <1>5 DEF CapsInv

\* The lock object a turn is given: its own when the map shows none.
LockOf(t) == IF locks[ThreadOf[t]] = None THEN t ELSE locks[ThreadOf[t]]

\* What run_reserved does before and after it knows whether the lock is free.
LEMMA Begins ==
  ASSUME CapsInv, NEW t \in Tasks, Begin(t)
  PROVE  LET lk == LockOf(t) IN
         /\ at[t] = "reserved" /\ lk \in Tasks /\ at'[t] \in {"lock", "gate", "run"} /\ at' \in [Tasks -> States]
         /\ \A u \in Tasks \ {t} : at'[u] = at[u] /\ mine'[u] = mine[u]
         /\ mine' \in [Tasks -> Tasks \cup {None}] /\ mine'[t] = lk /\ reserved' = reserved
         /\ locks' \in [Threads -> Tasks \cup {None}] /\ QueuedExact' /\ Drained'
         /\ \A u \in Tasks : at'[u] \in Begun => mine'[u] \in Tasks /\ locks'[ThreadOf[u]] = mine'[u]
         /\ \A x \in Threads : locks'[x] # None => ThreadOf[locks'[x]] = x /\ at'[locks'[x]] \notin {"new", "reserved"}
<1> DEFINE h == ThreadOf[t]
           lk == LockOf(t)
<1>0. /\ at[t] = "reserved" /\ h \in Threads /\ OneLock /\ Drained /\ TypeOK /\ None \notin Tasks
      /\ locks \in [Threads -> Tasks \cup {None}] /\ mine \in [Tasks -> Tasks \cup {None}] /\ at \in [Tasks -> States]
      /\ reserved' = reserved /\ \A u \in Tasks : ThreadOf[u] \in Threads
  BY CapsConstants DEF Begin, CapsInv, TypeOK, States
<1>1. lk \in Tasks /\ (locks[h] # None => lk = locks[h]) /\ (locks[h] = None => lk = t)
  BY <1>0 DEF LockOf
<1>2. locks' = [locks EXCEPT ![h] = lk] /\ mine' = [mine EXCEPT ![t] = lk]
  BY DEF Begin, LockOf
<1>3. at' \in [Tasks -> States] /\ at'[t] \in {"lock", "gate", "run"} /\ \A u \in Tasks \ {t} : at'[u] = at[u]
  <2>1. CASE at' = [at EXCEPT ![t] = "lock"]
    BY <2>1, <1>0 DEF States, Holding
  <2>2. CASE Acquire(t)
    BY <2>2, <1>0, Acquires DEF AtGate, InGate, Admitted
  <2> QED
    BY <2>1, <2>2 DEF Begin
<1> HIDE DEF lk, h
<1>4. /\ locks' \in [Threads -> Tasks \cup {None}] /\ locks'[h] = lk /\ \A x \in Threads \ {h} : locks'[x] = locks[x]
      /\ mine' \in [Tasks -> Tasks \cup {None}] /\ mine'[t] = lk /\ \A u \in Tasks \ {t} : mine'[u] = mine[u]
  BY <1>0, <1>1, <1>2
<1>5. QueuedExact'
  BY <1>0, <1>3, StaysQueued DEF Holding, InGate, Admitted
<1>6. Drained'
  <2>1. reserved[h] # 0
    BY <1>0, Counted DEF Holding, h
  <2>2. ASSUME NEW x \in Threads, reserved[x] = 0 PROVE locks'[x] = None
    BY <2>1, <2>2, <1>0, <1>4 DEF Drained
  <2> QED
    BY <2>2, <1>0 DEF Drained
<1>7. ASSUME NEW u \in Tasks, at'[u] \in Begun PROVE mine'[u] \in Tasks /\ locks'[ThreadOf[u]] = mine'[u]
  <2>1. CASE u = t
    BY <2>1, <1>1, <1>4 DEF h
  <2>2. CASE u # t
    <3>1. mine'[u] = mine[u] /\ mine[u] \in Tasks /\ locks[ThreadOf[u]] = mine[u] /\ ThreadOf[u] \in Threads
      BY <2>2, <1>0, <1>3, <1>4, <1>7 DEF OneLock
    <3> QED
      BY <3>1, <1>0, <1>1, <1>4
  <2> QED
    BY <2>1, <2>2
<1>8. ASSUME NEW x \in Threads, locks'[x] # None PROVE ThreadOf[locks'[x]] = x /\ at'[locks'[x]] \notin {"new", "reserved"}
  <2>1. CASE locks[x] # None
    <3>1. locks'[x] = locks[x] /\ locks[x] \in Tasks /\ ThreadOf[locks[x]] = x /\ at[locks[x]] \notin {"new", "reserved"}
      BY <2>1, <1>0, <1>1, <1>4, LockFacts DEF OneLock
    <3> QED
      BY <3>1, <1>3
  <2>2. CASE locks[x] = None
    <3>1. x = h /\ locks'[x] = t
      BY <2>2, <1>1, <1>4, <1>8
    <3> QED
      BY <3>1, <1>3 DEF h
  <2> QED
    BY <2>1, <2>2
<1> QED
  BY <1>0, <1>1, <1>3, <1>4, <1>5, <1>6, <1>7, <1>8 DEF lk

LEMMA BeginInv == ASSUME CapsInv, NEW t \in Tasks, Begin(t) PROVE CapsInv'
<1> DEFINE lk == LockOf(t)
<1>0. /\ at[t] = "reserved" /\ lk \in Tasks /\ at'[t] \in {"lock", "gate", "run"} /\ at' \in [Tasks -> States]
      /\ \A u \in Tasks \ {t} : at'[u] = at[u] /\ mine'[u] = mine[u]
      /\ mine' \in [Tasks -> Tasks \cup {None}] /\ mine'[t] = lk /\ reserved' = reserved
      /\ locks' \in [Threads -> Tasks \cup {None}] /\ QueuedExact' /\ Drained'
      /\ \A u \in Tasks : at'[u] \in Begun => mine'[u] \in Tasks /\ locks'[ThreadOf[u]] = mine'[u]
      /\ \A x \in Threads : locks'[x] # None => ThreadOf[locks'[x]] = x /\ at'[locks'[x]] \notin {"new", "reserved"}
  BY Begins
<1>1. /\ TypeOK /\ Held /\ OneLock /\ None \notin Tasks /\ at[t] \notin AtGate
      /\ holder \in [Tasks -> Tasks \cup {None}] /\ lockQ \in [Tasks -> Seq(Tasks)]
      /\ holder[t] = None /\ lockQ[t] = <<>> /\ t \notin In(lockQ[lk]) /\ at'[lk] \notin {"new", "reserved"}
  <2>1. t \notin In(lockQ[lk])
    BY <1>0 DEF CapsInv, Held
  <2>2. lk = t \/ at[lk] \notin {"new", "reserved"}
    BY CapsConstants DEF LockOf, CapsInv, OneLock
  <2>3. at'[lk] \notin {"new", "reserved"}
    BY <2>2, <1>0
  <2> QED
    BY <2>1, <2>3, <1>0, LockFacts DEF CapsInv, TypeOK, OneLock, AtGate, InGate, Admitted
<1>2. CASE holder[lk] = None /\ lockQ[lk] = <<>>
  <2>1. holder' = [holder EXCEPT ![lk] = t] /\ Acquire(t) /\ lockQ' = lockQ
    BY <1>2 DEF Begin, LockOf
  <2>2. /\ at'[t] \in {"run", "gate"} /\ limit' = limit /\ waiters' \in Seq(Tasks) /\ inFlight' \in Nat
        /\ GateQueue' /\ RunningExact' /\ Full'
    BY <2>1, <1>1, Acquires
  <2> HIDE DEF lk
  <2>3. holder' \in [Tasks -> Tasks \cup {None}] /\ holder'[lk] = t /\ \A l \in Tasks \ {lk} : holder'[l] = holder[l]
    BY <2>1, <1>0, <1>1
  <2>4. OneLock'
    <3>1. ASSUME NEW l \in Tasks, at'[l] \in {"new", "reserved"} PROVE holder'[l] = None /\ lockQ'[l] = <<>>
      <4>1. l # t /\ l # lk
        BY <3>1, <1>0, <1>1
      <4>2. at[l] \in {"new", "reserved"}
        BY <4>1, <3>1, <1>0
      <4>3. holder[l] = None /\ lockQ[l] = <<>>
        BY <4>2, <1>1 DEF OneLock
      <4> QED
        BY <4>1, <4>3, <2>1, <2>3
    <3> QED
      BY <3>1, <1>0 DEF OneLock
  <2>5. Held'
    <3>1. ASSUME NEW u \in Tasks, at'[u] \in AtGate PROVE holder'[mine'[u]] = u
      <4>1. CASE u = t
        BY <4>1, <2>3, <1>0
      <4>2. CASE u # t
        <5>1. at[u] \in AtGate /\ mine'[u] = mine[u] /\ mine[u] \in Tasks /\ holder[mine[u]] = u
          BY <4>2, <3>1, <1>0, <1>1 DEF Held, OneLock, Begun
        <5>2. mine[u] # lk
          BY <5>1, <1>2, <1>1
        <5> QED
          BY <5>1, <5>2, <2>3
      <4> QED
        BY <4>1, <4>2
    <3>2. ASSUME NEW l \in Tasks, holder'[l] # None PROVE at'[holder'[l]] \in AtGate /\ mine'[holder'[l]] = l
      <4>1. CASE l = lk
        BY <4>1, <2>2, <2>3, <1>0 DEF AtGate, InGate, Admitted
      <4>2. CASE l # lk
        <5>1. /\ holder'[l] = holder[l] /\ holder[l] \in Tasks
              /\ at[holder[l]] \in AtGate /\ mine[holder[l]] = l
          BY <4>2, <3>2, <2>3, <1>1, LockFacts DEF Held
        <5>2. holder[l] # t
          BY <5>1, <1>1
        <5> QED
          BY <5>1, <5>2, <1>0
      <4> QED
        BY <4>1, <4>2
    <3>3. ASSUME NEW l \in Tasks, NEW u \in In(lockQ[l]) PROVE at'[u] = "lock" /\ mine'[u] = l
      <4>1. u \in Tasks /\ at[u] = "lock" /\ mine[u] = l
        BY <1>1, LockFacts DEF Held
      <4> QED
        BY <4>1, <1>0
    <3> QED
      BY <3>1, <3>2, <3>3, <2>1, LockFacts DEF Held
  <2>6. TypeOK'
    BY <2>1, <2>2, <2>3, <1>0, <1>1 DEF TypeOK, States
  <2>7. Waits'
    <3>1. ASSUME NEW u \in Tasks, at'[u] = "lock" PROVE u \in In(lockQ'[mine'[u]])
      BY <3>1, <2>1, <2>2, <1>0 DEF CapsInv, Waits
    <3> QED
      BY <3>1 DEF Waits
  <2> QED
    BY <2>2, <2>4, <2>5, <2>6, <2>7, <1>0 DEF CapsInv
<1>3. CASE ~(holder[lk] = None /\ lockQ[lk] = <<>>)
  <2>1. /\ lockQ' = [lockQ EXCEPT ![lk] = Append(@, t)] /\ at' = [at EXCEPT ![t] = "lock"] /\ holder' = holder
        /\ UNCHANGED gateVars
    BY <1>3 DEF Begin, LockOf
  <2>2. at'[t] = "lock" /\ limit' = limit /\ inFlight' = inFlight /\ waiters' = waiters
    BY <2>1, <1>1 DEF gateVars, TypeOK
  <2>3. RunningExact' /\ GateQueue' /\ Full'
    BY <2>1, <2>2, <1>0, GateStands DEF Admitted, InGate
  <2> HIDE DEF lk
  <2>4. /\ Append(lockQ[lk], t) \in Seq(Tasks) /\ Once(Append(lockQ[lk], t)) /\ In(Append(lockQ[lk], t)) = In(lockQ[lk]) \cup {t}
    BY <1>0, <1>1, LockFacts, Queues
  <2>5. lockQ' \in [Tasks -> Seq(Tasks)] /\ lockQ'[lk] = Append(lockQ[lk], t) /\ \A l \in Tasks \ {lk} : lockQ'[l] = lockQ[l]
    BY <2>1, <2>4, <1>0, <1>1
  <2>6. OneLock'
    <3>1. ASSUME NEW l \in Tasks, at'[l] \in {"new", "reserved"} PROVE holder'[l] = None /\ lockQ'[l] = <<>>
      <4>1. l # t /\ l # lk
        BY <3>1, <1>0, <1>1
      <4> QED
        BY <4>1, <3>1, <2>1, <2>5, <1>0, <1>1 DEF OneLock
    <3> QED
      BY <3>1, <1>0 DEF OneLock
  <2>7. Held'
    <3>1. ASSUME NEW u \in Tasks, at'[u] \in AtGate PROVE holder'[mine'[u]] = u
      <4>1. u # t
        BY <3>1, <2>2 DEF AtGate, InGate, Admitted
      <4> QED
        BY <4>1, <3>1, <2>1, <1>0, <1>1 DEF Held
    <3>2. ASSUME NEW l \in Tasks, holder[l] # None PROVE at'[holder[l]] \in AtGate /\ mine'[holder[l]] = l
      <4>1. holder[l] \in Tasks /\ at[holder[l]] \in AtGate /\ mine[holder[l]] = l
        BY <3>2, <1>1, LockFacts DEF Held
      <4>2. holder[l] # t
        BY <4>1, <1>1
      <4> QED
        BY <4>1, <4>2, <1>0
    <3>3. ASSUME NEW l \in Tasks, NEW u \in In(lockQ'[l]) PROVE at'[u] = "lock" /\ mine'[u] = l
      <4>1. CASE u = t /\ l = lk
        BY <4>1, <2>2, <1>0
      <4>2. CASE u \in In(lockQ[l])
        <5>1. u \in Tasks /\ at[u] = "lock" /\ mine[u] = l
          BY <4>2, <1>1, LockFacts DEF Held
        <5> QED
          BY <5>1, <1>0
      <4> QED
        BY <4>1, <4>2, <3>3, <2>4, <2>5
    <3>4. \A l \in Tasks : Once(lockQ'[l])
      BY <2>4, <2>5, LockFacts
    <3> QED
      BY <3>1, <3>2, <3>3, <3>4, <2>1 DEF Held
  <2>8. TypeOK'
    BY <2>1, <2>2, <2>5, <1>0, <1>1 DEF TypeOK, States
  <2>9. Waits'
    <3>1. ASSUME NEW u \in Tasks, at'[u] = "lock" PROVE u \in In(lockQ'[mine'[u]])
      <4>1. CASE u = t
        BY <4>1, <2>4, <2>5, <1>0
      <4>2. CASE u # t
        <5>1. at[u] = "lock" /\ mine'[u] = mine[u]
          BY <4>2, <3>1, <1>0
        <5>2. mine[u] \in Tasks /\ u \in In(lockQ[mine[u]])
          BY <5>1, <1>1 DEF OneLock, Begun, CapsInv, Waits
        <5>3. \A l \in Tasks : In(lockQ[l]) \subseteq In(lockQ'[l])
          <6>1. ASSUME NEW l \in Tasks PROVE In(lockQ[l]) \subseteq In(lockQ'[l])
            BY <2>4, <2>5
          <6> QED
            BY <6>1
        <5> QED
          BY <5>1, <5>2, <5>3
      <4> QED
        BY <4>1, <4>2
    <3> QED
      BY <3>1 DEF Waits
  <2> QED
    BY <2>3, <2>6, <2>7, <2>8, <2>9, <1>0 DEF CapsInv
<1> QED
  BY <1>2, <1>3

LEMMA TakeLockInv == ASSUME CapsInv, NEW t \in Tasks, TakeLock(t) PROVE CapsInv'
<1> DEFINE lk == mine[t]
<1>0. /\ at[t] = "lock" /\ at[t] \in Begun /\ at[t] \notin AtGate /\ TypeOK /\ OneLock /\ Held /\ Drained /\ None \notin Tasks
      /\ holder \in [Tasks -> Tasks \cup {None}] /\ lockQ \in [Tasks -> Seq(Tasks)]
      /\ reserved' = reserved /\ locks' = locks /\ mine' = mine /\ Acquire(t)
      /\ holder[lk] = None /\ Head(lockQ[lk]) = t
      /\ holder' = [holder EXCEPT ![lk] = t] /\ lockQ' = [lockQ EXCEPT ![lk] = Tail(@)]
  BY LockFacts DEF TakeLock, CapsInv, TypeOK, Begun, AtGate, InGate, Admitted
<1>1. lk \in Tasks
  BY <1>0 DEF OneLock
<1>2. /\ at' \in [Tasks -> States] /\ at'[t] \in {"run", "gate"} /\ \A u \in Tasks \ {t} : at'[u] = at[u]
      /\ limit' = limit /\ waiters' \in Seq(Tasks) /\ inFlight' \in Nat
      /\ GateQueue' /\ RunningExact' /\ Full'
  BY <1>0, Acquires
<1>3. t \in In(lockQ[lk]) /\ lockQ[lk] # <<>>
  <2>1. t \in In(lockQ[lk])
    BY <1>0 DEF CapsInv, Waits
  <2> QED
    BY <2>1 DEF In
<1>4. Tail(lockQ[lk]) \in Seq(Tasks) /\ Once(Tail(lockQ[lk])) /\ In(Tail(lockQ[lk])) = In(lockQ[lk]) \ {t}
  BY <1>0, <1>1, <1>3, LockFacts, First
<1> HIDE DEF lk
<1>5. /\ holder' \in [Tasks -> Tasks \cup {None}] /\ holder'[lk] = t /\ \A l \in Tasks \ {lk} : holder'[l] = holder[l]
      /\ lockQ' \in [Tasks -> Seq(Tasks)] /\ lockQ'[lk] = Tail(lockQ[lk]) /\ \A l \in Tasks \ {lk} : lockQ'[l] = lockQ[l]
  BY <1>0, <1>1, <1>4
<1>6. \A l \in Tasks : Once(lockQ'[l]) /\ In(lockQ'[l]) = In(lockQ[l]) \ {t}
  <2>1. ASSUME NEW l \in Tasks, l # lk PROVE t \notin In(lockQ[l])
    BY <2>1, <1>0 DEF Held, lk
  <2>2. ASSUME NEW l \in Tasks PROVE Once(lockQ'[l]) /\ In(lockQ'[l]) = In(lockQ[l]) \ {t}
    <3>1. CASE l = lk
      BY <3>1, <1>4, <1>5
    <3>2. CASE l # lk
      BY <3>2, <2>1, <1>5, LockFacts
    <3> QED
      BY <3>1, <3>2
  <2> QED
    BY <2>2
<1>7. QueuedExact' /\ Drained'
  <2>1. QueuedExact'
    BY <1>0, <1>2, StaysQueued DEF Holding, InGate, Admitted
  <2> QED
    BY <2>1, <1>0 DEF Drained
<1>8. \A u \in Tasks : /\ (at'[u] \in Begun <=> at[u] \in Begun)
                        /\ (at'[u] \in {"new", "reserved"} <=> at[u] \in {"new", "reserved"})
  BY <1>0, <1>2 DEF Begun, AtGate, InGate, Admitted
<1>9. OneLock'
  <2>1. ASSUME NEW h \in Threads, locks[h] # None PROVE ThreadOf[locks[h]] = h /\ at'[locks[h]] \notin {"new", "reserved"}
    <3>1. locks[h] \in Tasks /\ ThreadOf[locks[h]] = h /\ at[locks[h]] \notin {"new", "reserved"}
      BY <2>1, <1>0, LockFacts DEF OneLock
    <3> QED
      BY <3>1, <1>8
  <2>2. ASSUME NEW l \in Tasks, at'[l] \in {"new", "reserved"} PROVE holder'[l] = None /\ lockQ'[l] = <<>>
    <3>1. holder[l] = None /\ lockQ[l] = <<>>
      BY <2>2, <1>0, <1>8 DEF OneLock
    <3>2. l # lk
      BY <3>1, <1>3
    <3> QED
      BY <3>1, <3>2, <1>5
  <2>3. \A u \in Tasks : at'[u] \in Begun => mine[u] \in Tasks /\ locks[ThreadOf[u]] = mine[u]
    BY <1>0, <1>8 DEF OneLock
  <2> QED
    BY <2>1, <2>2, <2>3, <1>0 DEF OneLock
<1>10. Held'
  <2>1. ASSUME NEW u \in Tasks, at'[u] \in AtGate PROVE holder'[mine[u]] = u
    <3>1. CASE u = t
      BY <3>1, <1>5 DEF lk
    <3>2. CASE u # t
      <4>1. at[u] \in AtGate /\ mine[u] \in Tasks /\ holder[mine[u]] = u
        BY <3>2, <2>1, <1>0, <1>2 DEF Held, OneLock, Begun
      <4>2. mine[u] # lk
        BY <4>1, <1>0 DEF lk
      <4> QED
        BY <4>1, <4>2, <1>5
    <3> QED
      BY <3>1, <3>2
  <2>2. ASSUME NEW l \in Tasks, holder'[l] # None PROVE at'[holder'[l]] \in AtGate /\ mine[holder'[l]] = l
    <3>1. CASE l = lk
      BY <3>1, <1>2, <1>5 DEF AtGate, InGate, Admitted, lk
    <3>2. CASE l # lk
      <4>1. holder'[l] = holder[l] /\ holder[l] \in Tasks /\ at[holder[l]] \in AtGate /\ mine[holder[l]] = l
        BY <3>2, <2>2, <1>0, <1>5, LockFacts DEF Held
      <4>2. holder[l] # t
        BY <4>1, <1>0
      <4> QED
        BY <4>1, <4>2, <1>2
    <3> QED
      BY <3>1, <3>2
  <2>3. ASSUME NEW l \in Tasks, NEW u \in In(lockQ'[l]) PROVE at'[u] = "lock" /\ mine[u] = l
    <3>0. u \in In(lockQ'[l])
      BY <2>3
    <3>1. u \in In(lockQ[l]) /\ u # t /\ u \in Tasks
      <4>1. In(lockQ[l]) \subseteq Tasks
        BY LockFacts
      <4> QED
        BY <3>0, <4>1, <1>6
    <3>2. at[u] = "lock" /\ mine[u] = l
      BY <3>1, <1>0 DEF Held
    <3> QED
      BY <3>1, <3>2, <1>2
  <2> QED
    BY <2>1, <2>2, <2>3, <1>0, <1>6 DEF Held
<1>11. Waits'
  <2>1. ASSUME NEW u \in Tasks, at'[u] = "lock" PROVE u \in In(lockQ'[mine[u]])
    <3>1. u # t /\ at[u] = "lock"
      BY <2>1, <1>2
    <3>2. mine[u] \in Tasks /\ u \in In(lockQ[mine[u]])
      BY <3>1, <1>0 DEF OneLock, Begun, CapsInv, Waits
    <3> QED
      BY <3>1, <3>2, <1>6
  <2> QED
    BY <2>1, <1>0 DEF Waits
<1>12. TypeOK'
  BY <1>0, <1>2, <1>5 DEF TypeOK, States
<1> QED
  BY <1>2, <1>7, <1>9, <1>10, <1>11, <1>12 DEF CapsInv

\* A step that moves turns at the gate and leaves the locks alone.
LEMMA GateMoves ==
  ASSUME CapsInv, UNCHANGED <<reserved, lockVars>>, at' \in [Tasks -> States],
         \A u \in Tasks : at'[u] = at[u] \/ (at[u] \in AtGate /\ at'[u] \in AtGate),
         limit' \in Limits, inFlight' \in Nat, waiters' \in Seq(Tasks), RunningExact', GateQueue', Full'
  PROVE  CapsInv'
<1>1. QueuedExact' /\ Drained' /\ OneLock' /\ Held' /\ Waits'
  BY LocksStand
<1>2. /\ reserved' = reserved /\ locks' = locks /\ mine' = mine /\ holder' = holder /\ lockQ' = lockQ
  BY DEF lockVars
<1>3. TypeOK'
  BY <1>2 DEF CapsInv, TypeOK, States
<1> QED
  BY <1>1, <1>3 DEF CapsInv

\* A turn changes its state at the gate, and neither whether it waits nor whether it was admitted.
LEMMA TurnMoves ==
  ASSUME CapsInv, NEW t \in Tasks, NEW x \in States, at' = [at EXCEPT ![t] = x],
         UNCHANGED <<reserved, lockVars, gateVars>>,
         x # "gate", (at[t] \in InGate /\ x \in InGate) \/ (at[t] \in Admitted /\ x \in Admitted)
  PROVE  CapsInv'
<1>1. at' \in [Tasks -> States] /\ at'[t] = x /\ \A u \in Tasks \ {t} : at'[u] = at[u]
  BY DEF CapsInv, TypeOK, States
<1>2. UNCHANGED <<reserved, lockVars>> /\ UNCHANGED gateVars
  OBVIOUS
<1>3. limit' \in Limits /\ inFlight' \in Nat /\ waiters' \in Seq(Tasks)
  BY DEF gateVars, CapsInv, TypeOK
<1>4. \A u \in Tasks : at'[u] = at[u] \/ (at[u] \in AtGate /\ at'[u] \in AtGate)
  BY <1>1 DEF AtGate
<1>5. \A u \in Tasks : /\ (at'[u] \in Admitted <=> at[u] \in Admitted) /\ (at'[u] \in InGate <=> at[u] \in InGate)
                        /\ (at'[u] = "gate" => at[u] = "gate")
  BY <1>1 DEF Admitted, InGate
<1>6. RunningExact' /\ GateQueue' /\ Full'
  BY <1>2, <1>5, GateStands
<1> QED
  BY <1>1, <1>2, <1>3, <1>4, <1>6, GateMoves

LEMMA ResumeAdmittedInv == ASSUME CapsInv, NEW t \in Tasks, ResumeAdmitted(t) PROVE CapsInv'
<1>1. /\ at' = [at EXCEPT ![t] = "run"] /\ UNCHANGED <<reserved, lockVars, gateVars>> /\ "run" \in States
      /\ at[t] \in Admitted /\ "run" \in Admitted
  BY DEF ResumeAdmitted, States, Holding, Admitted
<1> QED
  BY <1>1, TurnMoves

LEMMA CancelInv == ASSUME CapsInv, NEW t \in Tasks, Cancel(t) PROVE CapsInv'
<1>1. CASE at[t] \in {"gate", "admitted"}
  <2> DEFINE x == IF at[t] = "gate" THEN "gateCancelled" ELSE "admittedCancelled"
  <2>1. at' = [at EXCEPT ![t] = x] /\ UNCHANGED <<reserved, lockVars, gateVars>>
    BY <1>1 DEF Cancel
  <2>2. x \in States /\ x # "gate" /\ ((at[t] \in InGate /\ x \in InGate) \/ (at[t] \in Admitted /\ x \in Admitted))
    BY <1>1 DEF States, Holding, Admitted, InGate
  <2> HIDE DEF x
  <2> QED
    BY <2>1, <2>2, TurnMoves
<1>2. CASE at[t] = "lock"
  <2>0. /\ lockQ' = [lockQ EXCEPT ![mine[t]] = Without(@, t)] /\ at' = [at EXCEPT ![t] = "done"]
        /\ ReleaseThreadSlot(ThreadOf[t], holder) /\ UNCHANGED <<mine, holder>> /\ UNCHANGED gateVars
        /\ mine' = mine /\ holder' = holder /\ limit' = limit /\ inFlight' = inFlight /\ waiters' = waiters
        /\ TypeOK /\ OneLock /\ Held /\ lockQ \in [Tasks -> Seq(Tasks)]
    BY <1>2 DEF Cancel, gateVars, CapsInv, TypeOK
  <2>1. at' \in [Tasks -> States] /\ at'[t] = "done" /\ \A u \in Tasks \ {t} : at'[u] = at[u]
    BY <2>0 DEF TypeOK, States
  <2>2. mine[t] \in Tasks
    BY <1>2, <2>0 DEF OneLock, Begun
  <2>3. /\ Without(lockQ[mine[t]], t) \in Seq(Tasks) /\ Once(Without(lockQ[mine[t]], t))
        /\ In(Without(lockQ[mine[t]], t)) = In(lockQ[mine[t]]) \ {t}
    BY <2>2, LockFacts, Removed
  <2>4. /\ lockQ' \in [Tasks -> Seq(Tasks)] /\ lockQ'[mine[t]] = Without(lockQ[mine[t]], t)
        /\ \A l \in Tasks \ {mine[t]} : lockQ'[l] = lockQ[l]
    BY <2>0, <2>2, <2>3
  <2>5. ASSUME NEW l \in Tasks PROVE Once(lockQ'[l]) /\ In(lockQ'[l]) = In(lockQ[l]) \ {t}
    <3>1. CASE l = mine[t]
      BY <3>1, <2>3, <2>4
    <3>2. CASE l # mine[t]
      <4>1. t \notin In(lockQ[l])
        BY <3>2, <2>0 DEF Held
      <4> QED
        BY <3>2, <4>1, <2>4, LockFacts
    <3> QED
      BY <3>1, <3>2
  <2>6. /\ reserved' \in [Threads -> Nat] /\ locks' \in [Threads -> Tasks \cup {None}]
        /\ QueuedExact' /\ Drained' /\ OneLock' /\ Held' /\ Waits'
    BY <1>2, <2>0, <2>1, <2>4, <2>5, GivesUp
  <2>7. RunningExact' /\ GateQueue' /\ Full'
    BY <1>2, <2>0, <2>1, GateStands DEF Admitted, InGate
  <2>8. TypeOK'
    BY <2>0, <2>1, <2>4, <2>6 DEF TypeOK, States
  <2> QED
    BY <2>6, <2>7, <2>8 DEF CapsInv
<1> QED
  BY <1>1, <1>2 DEF Cancel

LEMMA FinishInv == ASSUME CapsInv, NEW t \in Tasks, Finish(t) PROVE CapsInv'
<1> DEFINE at0 == [at EXCEPT ![t] = "done"]
<1>0. /\ at[t] \in Admitted /\ at[t] \in AtGate /\ at[t] \notin InGate /\ AdmitWaiting(inFlight - 1, limit, at0) /\ Leave(t)
      /\ limit' = limit /\ mine' = mine /\ lockQ' = lockQ
      /\ TypeOK /\ RunningExact /\ GateQueue /\ limit \in Nat /\ inFlight \in Nat
  BY CapsConstants DEF Finish, Leave, CapsInv, TypeOK, AtGate, Admitted, InGate
<1>1. at0 \in [Tasks -> States] /\ at0[t] = "done" /\ \A u \in Tasks \ {t} : at0[u] = at[u]
  BY <1>0 DEF TypeOK, States
<1> HIDE DEF at0
<1>2. {u \in Tasks : at0[u] \in Admitted} = Running \ {t} /\ t \in Running
  BY <1>0, <1>1 DEF Running, Admitted
<1>3. /\ IsFiniteSet(Running \ {t}) /\ inFlight - 1 = Cardinality(Running \ {t}) /\ inFlight - 1 \in Nat
  <2>1. IsFiniteSet(Running \ {t}) /\ Cardinality(Running \ {t}) = inFlight - 1
    BY <1>0, <1>2, FS_RemoveElement DEF RunningExact
  <2> QED
    BY <2>1, FS_CardinalityType
<1>4. \A u \in Tasks : at0[u] = "gate" <=> at[u] = "gate"
  BY <1>0, <1>1 DEF InGate
<1>5. \A u \in In(waiters) : at0[u] \in InGate
  <2>1. ASSUME NEW u \in In(waiters) PROVE at0[u] \in InGate
    <3>1. u \in Tasks /\ at[u] \in InGate
      BY <1>0 DEF GateQueue, In, TypeOK
    <3> QED
      BY <3>1, <1>0, <1>1
  <2> QED
    BY <2>1
<1>6. /\ at' \in [Tasks -> States] /\ waiters' \in Seq(Tasks) /\ inFlight' \in Nat
      /\ GateQueue' /\ RunningExact' /\ (waiters' # <<>> => inFlight' >= limit)
      /\ \A u \in Tasks : at'[u] = at0[u] \/ (at0[u] = "gate" /\ at'[u] = "admitted")
  BY <1>0, <1>1, <1>2, <1>3, <1>4, <1>5, Admission
<1>7. at'[t] = "done" /\ \A u \in Tasks \ {t} : at'[u] = at[u] \/ (at[u] = "gate" /\ at'[u] = "admitted")
  BY <1>1, <1>6
<1>8. /\ reserved' \in [Threads -> Nat] /\ locks' \in [Threads -> Tasks \cup {None}]
      /\ holder' \in [Tasks -> Tasks \cup {None}]
      /\ QueuedExact' /\ Drained' /\ OneLock' /\ Held' /\ Waits'
  BY <1>0, <1>6, <1>7, Leaves
<1>9. Full'
  BY <1>0, <1>6 DEF Full
<1>10. TypeOK'
  BY <1>0, <1>6, <1>8 DEF TypeOK, States
<1> QED
  BY <1>6, <1>8, <1>9, <1>10 DEF CapsInv

LEMMA ResumeCancelledInv == ASSUME CapsInv, NEW t \in Tasks, ResumeCancelled(t) PROVE CapsInv'
<1>0. /\ at[t] = "gateCancelled" /\ at[t] \in AtGate /\ at' = [at EXCEPT ![t] = "done"] /\ waiters' = Without(waiters, t)
      /\ inFlight' = inFlight /\ Leave(t) /\ limit' = limit /\ mine' = mine /\ lockQ' = lockQ
      /\ TypeOK /\ RunningExact /\ GateQueue /\ Full /\ waiters \in Seq(Tasks) /\ Once(waiters)
  BY DEF ResumeCancelled, Leave, CapsInv, TypeOK, AtGate, InGate, GateQueue
<1>1. at' \in [Tasks -> States] /\ at'[t] = "done" /\ \A u \in Tasks \ {t} : at'[u] = at[u]
  BY <1>0 DEF TypeOK, States
<1>2. waiters' \in Seq(Tasks) /\ Once(waiters') /\ In(waiters') = In(waiters) \ {t}
  BY <1>0, Removed
<1>3. RunningExact'
  <2>1. Running' = Running
    BY <1>0, <1>1 DEF Running, Admitted
  <2> QED
    BY <2>1, <1>0 DEF RunningExact
<1>4. GateQueue'
  <2>1. In(waiters) \subseteq Tasks
    BY <1>0 DEF In
  <2>2. \A u \in In(waiters') : at'[u] \in InGate
    BY <2>1, <1>0, <1>1, <1>2 DEF GateQueue
  <2>3. \A u \in Tasks : at'[u] = "gate" => u \in In(waiters')
    BY <1>0, <1>1, <1>2 DEF GateQueue
  <2> QED
    BY <2>2, <2>3, <1>2 DEF GateQueue
<1>5. Full'
  <2>1. waiters = <<>> => waiters' = <<>>
    <3>1. waiters = <<>> => In(waiters') = {}
      BY <1>2 DEF In
    <3> QED
      BY <3>1, <1>2, Empty
  <2> QED
    BY <2>1, <1>0 DEF Full
<1>6. /\ reserved' \in [Threads -> Nat] /\ locks' \in [Threads -> Tasks \cup {None}]
      /\ holder' \in [Tasks -> Tasks \cup {None}]
      /\ QueuedExact' /\ Drained' /\ OneLock' /\ Held' /\ Waits'
  BY <1>0, <1>1, Leaves
<1>7. TypeOK'
  BY <1>0, <1>1, <1>2, <1>6 DEF TypeOK, States
<1> QED
  BY <1>3, <1>4, <1>5, <1>6, <1>7 DEF CapsInv

LEMMA SetLimitInv == ASSUME CapsInv, NEW n \in Limits, SetLimit(n) PROVE CapsInv'
<1>0. /\ limit' = n /\ AdmitWaiting(inFlight, n, at) /\ UNCHANGED <<reserved, lockVars>> /\ n \in Nat
      /\ RunningExact /\ GateQueue /\ inFlight \in Nat /\ at \in [Tasks -> States]
  BY CapsConstants DEF SetLimit, CapsInv, TypeOK, States
<1>1. /\ \A u \in In(waiters) : at[u] \in InGate
      /\ IsFiniteSet({u \in Tasks : at[u] \in Admitted}) /\ inFlight = Cardinality({u \in Tasks : at[u] \in Admitted})
  BY <1>0 DEF GateQueue, RunningExact, Running
<1>2. /\ at' \in [Tasks -> States] /\ waiters' \in Seq(Tasks) /\ inFlight' \in Nat
      /\ GateQueue' /\ RunningExact' /\ (waiters' # <<>> => inFlight' >= n)
      /\ \A u \in Tasks : at'[u] = at[u] \/ (at[u] = "gate" /\ at'[u] = "admitted")
  BY <1>0, <1>1, Admission
<1>3. \A u \in Tasks : at'[u] = at[u] \/ (at[u] \in AtGate /\ at'[u] \in AtGate)
  BY <1>2 DEF AtGate, InGate, Admitted
<1>4. Full' /\ limit' \in Limits
  BY <1>0, <1>2 DEF Full
<1> QED
  BY <1>0, <1>2, <1>3, <1>4, GateMoves

LEMMA CapsInit == Init => CapsInv
<1> SUFFICES ASSUME Init PROVE CapsInv
  OBVIOUS
<1>1. TypeOK
  BY CapsConstants DEF Init, TypeOK
<1>2. Running = {} /\ \A h : Queued(h) = {}
  BY DEF Init, Running, Queued, Admitted, Holding, InGate
<1>3. RunningExact /\ QueuedExact
  <2>1. RunningExact
    BY <1>2, FS_EmptySet DEF RunningExact, Init
  <2>2. ASSUME NEW h \in Threads PROVE IsFiniteSet(Queued(h)) /\ reserved[h] = Cardinality(Queued(h)) /\ reserved[h] <= Depth
    <3>1. reserved[h] = 0 /\ 0 <= Depth
      BY CapsConstants DEF Init
    <3>2. IsFiniteSet(Queued(h)) /\ Cardinality(Queued(h)) = 0
      BY <1>2, FS_EmptySet
    <3> QED
      BY <3>1, <3>2
  <2> QED
    BY <2>1, <2>2 DEF QueuedExact
<1>4. In(<<>>) = {} /\ Once(<<>>)
  BY DEF In, Once
<1>5. GateQueue /\ Full /\ Drained
  BY <1>4 DEF GateQueue, Full, Drained, Init
<1>6. OneLock /\ Held /\ Waits
  BY <1>4 DEF OneLock, Held, Waits, Init, Begun, AtGate, InGate, Admitted
<1> QED
  BY <1>1, <1>3, <1>5, <1>6 DEF CapsInv

LEMMA CapsStutter == ASSUME CapsInv, UNCHANGED vars PROVE CapsInv'
<1>0. /\ at' = at /\ UNCHANGED <<reserved, lockVars>> /\ UNCHANGED gateVars
      /\ limit' = limit /\ inFlight' = inFlight /\ waiters' = waiters
  BY DEF vars, lockVars, gateVars
<1>1. RunningExact' /\ GateQueue' /\ Full'
  BY <1>0, GateStands
<1>2. at' \in [Tasks -> States] /\ limit' \in Limits /\ inFlight' \in Nat /\ waiters' \in Seq(Tasks)
  BY <1>0 DEF CapsInv, TypeOK, States
<1> QED
  BY <1>0, <1>1, <1>2, GateMoves

LEMMA CapsStep == CapsInv /\ [Next]_vars => CapsInv'
<1> SUFFICES ASSUME CapsInv, [Next]_vars PROVE CapsInv'
  OBVIOUS
<1>1. ASSUME NEW t \in Tasks, Reserve(t) \/ Scheduled(t) \/ Cancel(t) PROVE CapsInv'
  BY <1>1, ReserveInv, BeginInv, AbortInv, TakeLockInv, ResumeAdmittedInv, FinishInv, ResumeCancelledInv, CancelInv DEF Scheduled
<1>2. ASSUME NEW n \in Limits, SetLimit(n) PROVE CapsInv'
  BY <1>2, SetLimitInv
<1> QED
  BY <1>1, <1>2, CapsStutter DEF Next

\* The caps' bookkeeping holds in every state that the code reaches.
THEOREM CapsInvariance == Spec => []CapsInv
<1>1. Init => CapsInv
  BY CapsInit
<1>2. CapsInv /\ [Next]_vars => CapsInv'
  BY CapsStep
<1> QED
  BY <1>1, <1>2, PTL DEF Spec

LEMMA CapsInvSound == CapsInv => CapsSound
<1> SUFFICES ASSUME CapsInv PROVE CapsSound
  OBVIOUS
<1>1. TypeOK /\ RunningExact /\ QueuedExact /\ Drained /\ GateQueue /\ Full /\ OneLock /\ Held
  BY DEF CapsInv
<1>2. GateExact
  BY <1>1 DEF GateExact, RunningExact, Running
<1>3. NoIdlePlace
  <2>1. ASSUME NEW t \in Tasks, at[t] = "gate" PROVE waiters # <<>>
    BY <2>1, <1>1 DEF GateQueue, In
  <2> QED
    BY <2>1, <1>1 DEF NoIdlePlace, Full
<1>4. ReservationsExact
  BY <1>1 DEF ReservationsExact, QueuedExact, Queued, Drained
<1>5. ThreadSerial
  <2>1. ASSUME NEW t \in Tasks, NEW u \in Tasks, ThreadOf[t] = ThreadOf[u], at[t] \in AtGate, at[u] \in AtGate PROVE t = u
    <3>1. mine[t] = mine[u]
      BY <2>1, <1>1 DEF OneLock, Begun
    <3>2. holder[mine[t]] = t /\ holder[mine[u]] = u
      BY <2>1, <1>1 DEF Held
    <3> QED
      BY <3>1, <3>2
  <2> QED
    BY <2>1 DEF ThreadSerial, AtGate
<1> QED
  BY <1>1, <1>2, <1>3, <1>4, <1>5 DEF CapsSound, CapsConsistent

\* caps.py keeps its two counts: the gate's places are exact and none stays idle while a live
\* turn waits (no lost wake-up), reservations are exact and within the depth, and the turns of a
\* thread run one at a time although its lock object is dropped and made again.
THEOREM CapsAreSound == Spec => []CapsSound
BY CapsInvariance, CapsInvSound, PTL
----------------------------------------------------------------------------
(***************************************************************************)
(* The three limits, for any rates, clocks, proxies and bodies.  A bucket  *)
(* is a promise about the past: the turns admitted since any admitted turn, *)
(* with the tokens that are left, fit a full bucket and what was refilled  *)
(* since (Promise); a key whose bucket lapsed has waited long enough for a *)
(* full one (Rested).  A door's counters are at least what passed through  *)
(* it in their windows, and what passed is within the limit (DoorInv).     *)
(***************************************************************************)
\* Turns admitted at the times a, and a level of tokens at the time x, fit a full bucket and its refill.
Promise(a, x, level) == \A i \in 1..Len(a) : (Len(a) - i + 1) * LmHour + level <= TopRate * LmHour + (x - a[i]) * TopRate
Spans(a) == \A i \in 1..Len(a) : \A j \in i..Len(a) : (j - i + 1) * LmHour <= TopRate * LmHour + (a[j] - a[i]) * TopRate
Spaced(r) == \A i \in 1..(Len(r) - 1) : (r[i + 1] - r[i]) * TopRate >= LmHour

LongAgo(r, x) == r = << >> \/ x - r[Len(r)] >= LmHour
Told(r, b, now) == IF b.paid = -1 THEN LongAgo(r, now) ELSE r # << >> /\ b.paid = r[Len(r)]

Buckets == [tokens : Nat, rate : LmRates, updated : Nat, seen : Nat, paid : Nat \cup {-1}, paidRate : LmRates]
TimesOf(a, x) == a \in Seq(Nat) /\ \A i \in 1..Len(a) : a[i] <= x

\* What a key's bucket promises, and what a key without one has waited for.
BucketKept(a, r, b, now) ==
    /\ b \in Buckets /\ b.tokens <= TopRate * LmHour /\ b.updated <= b.seen /\ b.seen <= now
    /\ TimesOf(a, b.updated) /\ TimesOf(r, b.seen) /\ Promise(a, b.updated, b.tokens) /\ Told(r, b, now)
Rested(a, r, now) == TimesOf(a, now) /\ TimesOf(r, now) /\ Promise(a, now, TopRate * LmHour) /\ LongAgo(r, now)

KeyOK(k) ==
    LET a == lmAdmitted[k]
        r == lmReplies[k] IN
    /\ a \in Seq(Nat) /\ r \in Seq(Nat)
    /\ k \notin lmEvicted =>
          /\ Spans(a) /\ Spaced(r)
          /\ IF k \in DOMAIN lmBuckets THEN BucketKept(a, r, lmBuckets[k], lmNow) ELSE Rested(a, r, lmNow)

BucketInv ==
    /\ lmNow \in Nat /\ lmRate \in LmRates /\ DOMAIN lmAdmitted = LmKeys /\ DOMAIN lmReplies = LmKeys
    /\ \A k \in LmKeys : KeyOK(k)

LEMMA TopIs == TopRate \in Nat \ {0} /\ \A rate \in LmRates : rate \in Nat \ {0} /\ rate <= TopRate
<1>1. PICK top \in LmRates : \A rate \in LmRates : rate <= top
  BY LmConstants
<1>2. \A rate \in LmRates : rate \in Nat \ {0} /\ top >= rate
  BY <1>1, LmConstants
<1>3. TopRate \in LmRates /\ \A rate \in LmRates : TopRate >= rate
  BY <1>2 DEF TopRate, Max
<1> QED BY <1>2, <1>3

LEMMA MinOf == ASSUME NEW x \in Int, NEW y \in Int PROVE Min({x, y}) = IF x <= y THEN x ELSE y
<1>1. (IF x <= y THEN x ELSE y) \in {x, y} /\ \A z \in {x, y} : (IF x <= y THEN x ELSE y) <= z
  OBVIOUS
<1>2. Min({x, y}) \in {x, y} /\ \A z \in {x, y} : Min({x, y}) <= z
  BY <1>1 DEF Min
<1> QED BY <1>1, <1>2

LEMMA TimesMono == ASSUME NEW x \in Nat, NEW y \in Nat, NEW z \in Nat, x <= y PROVE x * z <= y * z /\ x * z \in Nat /\ y * z \in Nat
<1>1. PICK d \in Nat : y = x + d
  <2>1. y - x \in Nat /\ y = x + (y - x)
    OBVIOUS
  <2> QED BY <2>1
<1>2. d * z \in Nat /\ x * z \in Nat /\ (x + d) * z = x * z + d * z
  OBVIOUS
<1> QED BY <1>1, <1>2

LEMMA TimesOver == ASSUME NEW x \in Nat, NEW y \in Nat, NEW z \in Nat, x <= y PROVE z * x <= z * y /\ z * x \in Nat /\ z * y \in Nat
<1>1. z * x = x * z /\ z * y = y * z
  OBVIOUS
<1> QED BY <1>1, TimesMono

\* A promise that is kept is kept by fewer tokens, and later by what was refilled meanwhile.
LEMMA PromiseGrows ==
  ASSUME NEW a, NEW x \in Nat, NEW y \in Nat, x <= y, TimesOf(a, x), NEW level \in Nat, NEW more \in Nat, Promise(a, x, level),
         more <= level + (y - x) * TopRate
  PROVE  Promise(a, y, more) /\ TimesOf(a, y)
<1>1. TimesOf(a, y)
  BY DEF TimesOf
<1>2. ASSUME NEW i \in 1..Len(a) PROVE (Len(a) - i + 1) * LmHour + more <= TopRate * LmHour + (y - a[i]) * TopRate
  <2>1. a[i] \in Nat /\ a[i] <= x /\ TopRate \in Nat /\ LmHour \in Nat /\ Len(a) - i + 1 \in Nat
    BY TopIs, LmConstants DEF TimesOf
  <2>2. (y - a[i]) * TopRate = (x - a[i]) * TopRate + (y - x) * TopRate
    <3>1. PICK u \in Nat, v \in Nat : u = x - a[i] /\ v = y - x /\ u + v = y - a[i]
      <4>1. x - a[i] \in Nat /\ y - x \in Nat /\ (x - a[i]) + (y - x) = y - a[i]
        BY <2>1
      <4> QED BY <4>1
    <3>2. (u + v) * TopRate = u * TopRate + v * TopRate
      BY <2>1, <3>1
    <3> QED BY <3>1, <3>2
  <2>3. (Len(a) - i + 1) * LmHour + level <= TopRate * LmHour + (x - a[i]) * TopRate
    BY DEF Promise
  <2>4. PICK p \in Nat, q \in Nat, s \in Nat, t \in Nat, n \in Nat :
           p = (Len(a) - i + 1) * LmHour /\ q = TopRate * LmHour /\ s = (x - a[i]) * TopRate /\ t = (y - x) * TopRate /\ n = (y - a[i]) * TopRate
    <3>1. x - a[i] \in Nat /\ y - x \in Nat /\ y - a[i] \in Nat
      BY <2>1
    <3>2. \A u, v \in Nat : u * v \in Nat
      OBVIOUS
    <3>3. (Len(a) - i + 1) * LmHour \in Nat /\ TopRate * LmHour \in Nat
      BY <2>1, <3>2
    <3>4. (x - a[i]) * TopRate \in Nat /\ (y - x) * TopRate \in Nat /\ (y - a[i]) * TopRate \in Nat
      BY <2>1, <3>1, <3>2
    <3> QED BY <3>3, <3>4
  <2>5. p + level <= q + s
    BY <2>3, <2>4
  <2>6. n = s + t
    BY <2>2, <2>4
  <2>7. more <= level + t
    BY <2>4
  <2>8. p + more <= q + n
    BY <2>5, <2>6, <2>7
  <2> QED BY <2>4, <2>8
<1> QED BY <1>1, <1>2 DEF Promise

\* A key whose bucket is idle has rested.
LEMMA Lapsed ==
  ASSUME lmNow \in Nat, NEW a, NEW r, NEW b, BucketKept(a, r, b, lmNow), lmNow >= b.seen + Idle
  PROVE  Rested(a, r, lmNow)
<1>1. /\ b.updated \in Nat /\ b.updated <= lmNow /\ b.seen \in Nat /\ b.tokens \in Nat /\ TopRate * LmHour \in Nat
      /\ LmHour \in Nat /\ LmHour <= lmNow - b.updated /\ lmNow - b.updated \in Nat /\ TopRate \in Nat
  <2>1. \A u, v \in Nat : u * v \in Nat
    OBVIOUS
  <2> QED BY <2>1, TopIs, LmConstants DEF BucketKept, Buckets, Idle
<1>2. TopRate * LmHour <= b.tokens + (lmNow - b.updated) * TopRate
  <2>1. LmHour * TopRate <= (lmNow - b.updated) * TopRate /\ (lmNow - b.updated) * TopRate \in Nat
    BY <1>1, TimesMono
  <2>2. LmHour * TopRate = TopRate * LmHour
    BY <1>1
  <2> QED BY <1>1, <2>1, <2>2
<1>3. Promise(a, lmNow, TopRate * LmHour) /\ TimesOf(a, lmNow)
  <2>1. TimesOf(a, b.updated) /\ Promise(a, b.updated, b.tokens)
    BY DEF BucketKept
  <2>2. PICK full \in Nat : full = TopRate * LmHour
    BY <1>1
  <2>3. full <= b.tokens + (lmNow - b.updated) * TopRate
    BY <1>2, <2>2
  <2>4. Promise(a, lmNow, full) /\ TimesOf(a, lmNow)
    BY <1>1, <2>1, <2>3, PromiseGrows
  <2> QED BY <2>2, <2>4
<1>4. TimesOf(r, lmNow)
  <2>1. TimesOf(r, b.seen) /\ b.seen <= lmNow /\ b.seen \in Nat
    BY <1>1 DEF BucketKept
  <2> QED BY <2>1 DEF TimesOf
<1>5. LongAgo(r, lmNow)
  <2>1. r # << >> => Len(r) \in 1..Len(r) /\ r[Len(r)] \in Nat /\ r[Len(r)] <= b.seen
    BY DEF BucketKept, TimesOf
  <2> QED BY <1>1, <2>1 DEF LongAgo, BucketKept, Told, Idle
<1> QED BY <1>3, <1>4, <1>5 DEF Rested

LEMMA RestedNow ==
  ASSUME BucketInv, NEW k \in LmKeys, k \notin lmEvicted, k \notin LiveBuckets
  PROVE  Rested(lmAdmitted[k], lmReplies[k], lmNow)
<1>1. CASE k \notin DOMAIN lmBuckets
  BY <1>1 DEF BucketInv, KeyOK
<1>2. CASE k \in DOMAIN lmBuckets
  <2>1. BucketKept(lmAdmitted[k], lmReplies[k], lmBuckets[k], lmNow) /\ lmNow \in Nat
    BY <1>2 DEF BucketInv, KeyOK
  <2>2. lmNow >= lmBuckets[k].seen + Idle
    BY <1>2, <2>1, LmConstants DEF LiveBuckets, Idle, BucketKept, Buckets
  <2> QED BY <2>1, <2>2, Lapsed
<1> QED BY <1>1, <1>2

\* A bucket is refilled by its own rate, which is at most the top one.
LEMMA RefillOK ==
  ASSUME lmNow \in Nat, NEW a, NEW r, NEW b, BucketKept(a, r, b, lmNow)
  PROVE  BucketKept(a, r, [Refilled(b) EXCEPT !.seen = lmNow], lmNow) /\ Refilled(b).updated = lmNow
<1> DEFINE level == b.tokens + (lmNow - b.updated) * b.rate
           full == b.rate * LmHour
           c == [Refilled(b) EXCEPT !.seen = lmNow]
<1>1. /\ b \in Buckets /\ b.rate \in Nat /\ b.rate <= TopRate /\ TopRate \in Nat /\ LmHour \in Nat /\ b.tokens \in Nat
      /\ b.updated \in Nat /\ b.updated <= lmNow /\ lmNow - b.updated \in Nat
  <2>1. b \in Buckets /\ b.updated <= b.seen /\ b.seen <= lmNow
    BY DEF BucketKept
  <2>2. b.rate \in LmRates /\ b.tokens \in Nat /\ b.updated \in Nat /\ b.seen \in Nat
    BY <2>1 DEF Buckets
  <2>3. b.updated <= lmNow /\ lmNow - b.updated \in Nat
    BY <2>1, <2>2
  <2> QED BY <2>1, <2>2, <2>3, TopIs, LmConstants
<1>2. full \in Nat /\ full <= TopRate * LmHour /\ (lmNow - b.updated) * b.rate \in Nat /\ (lmNow - b.updated) * b.rate <= (lmNow - b.updated) * TopRate
      /\ (lmNow - b.updated) * TopRate \in Nat
  BY <1>1, TimesMono, TimesOver
<1>3. level \in Nat /\ level <= b.tokens + (lmNow - b.updated) * TopRate
  BY <1>1, <1>2
<1>4. PICK m : m = Min({full, level})
  OBVIOUS
<1>5. m \in Nat /\ m <= full /\ m <= level
  <2>1. full \in Int /\ level \in Int
    BY <1>2, <1>3
  <2>2. Min({full, level}) = IF full <= level THEN full ELSE level
    BY <2>1, MinOf
  <2> HIDE DEF full, level
  <2> QED BY <1>2, <1>3, <1>4, <2>2
<1>6. c = [b EXCEPT !.tokens = m, !.updated = lmNow, !.seen = lmNow] /\ Refilled(b).updated = lmNow
  BY <1>1, <1>4 DEF Refilled, Buckets
<1>7. c \in Buckets /\ c.tokens = m /\ c.updated = lmNow /\ c.seen = lmNow /\ c.paid = b.paid
  BY <1>1, <1>5, <1>6 DEF Buckets
<1>8. Promise(a, lmNow, m) /\ TimesOf(a, lmNow)
  <2>1. m <= b.tokens + (lmNow - b.updated) * TopRate
    <3> HIDE DEF level
    <3> QED BY <1>1, <1>2, <1>3, <1>5
  <2> QED BY <1>1, <1>5, <2>1, PromiseGrows DEF BucketKept
<1>9. TimesOf(r, lmNow) /\ Told(r, c, lmNow)
  <2>1. TimesOf(r, b.seen) /\ Told(r, b, lmNow) /\ b.seen \in Nat /\ b.seen <= lmNow
    BY DEF BucketKept, Buckets
  <2>2. TimesOf(r, lmNow)
    BY <2>1 DEF TimesOf
  <2> HIDE DEF c
  <2>3. Told(r, c, lmNow)
    BY <1>7, <2>1 DEF Told
  <2> QED BY <2>2, <2>3
<1>10. m <= TopRate * LmHour
  <2> HIDE DEF full
  <2>1. TopRate * LmHour \in Nat
    BY <1>1
  <2> QED BY <1>2, <1>5, <2>1
<1> HIDE DEF c
<1> QED BY <1>6, <1>7, <1>8, <1>9, <1>10 DEF BucketKept, c

\* A key without a bucket gets a full one.
LEMMA NewBucketOK ==
  ASSUME lmNow \in Nat, lmRate \in LmRates, NEW a, NEW r, Rested(a, r, lmNow)
  PROVE  BucketKept(a, r, NewBucket, lmNow)
<1>1. /\ lmRate \in Nat /\ lmRate <= TopRate /\ TopRate \in Nat /\ LmHour \in Nat
  BY TopIs, LmConstants
<1>2. lmRate * LmHour \in Nat /\ TopRate * LmHour \in Nat /\ lmRate * LmHour <= TopRate * LmHour
  BY <1>1, TimesMono
<1>3. PICK m \in Nat : m = lmRate * LmHour
  BY <1>2
<1>4. NewBucket = [tokens |-> m, rate |-> lmRate, updated |-> lmNow, seen |-> lmNow, paid |-> -1, paidRate |-> lmRate]
  BY <1>3 DEF NewBucket
<1>5. NewBucket \in Buckets /\ NewBucket.tokens = m /\ NewBucket.updated = lmNow /\ NewBucket.seen = lmNow /\ NewBucket.paid = -1
  BY <1>4, <1>1 DEF Buckets
<1>6. Promise(a, lmNow, m)
  <2>1. (lmNow - lmNow) * TopRate = 0
    BY <1>1
  <2>2. m <= TopRate * LmHour + (lmNow - lmNow) * TopRate
    BY <1>2, <1>3, <2>1
  <2> QED BY <1>2, <2>2, PromiseGrows DEF Rested
<1> QED BY <1>2, <1>3, <1>5, <1>6 DEF BucketKept, Rested, Told

\* An admitted turn takes its token from what its bucket promised.
LEMMA SpendOK ==
  ASSUME NEW x \in Nat, NEW a, NEW r, NEW b, BucketKept(a, r, b, x), b.updated = x, b.seen = x, b.tokens >= LmHour, Spans(a),
         NEW c, c = [b EXCEPT !.tokens = b.tokens - LmHour]
  PROVE  BucketKept(Append(a, x), r, c, x) /\ Spans(Append(a, x))
<1> DEFINE n == Append(a, x)
<1>1. /\ b \in Buckets /\ b.tokens \in Nat /\ b.tokens <= TopRate * LmHour /\ TimesOf(a, x) /\ TimesOf(r, x) /\ Promise(a, x, b.tokens)
      /\ Told(r, b, x) /\ LmHour \in Nat /\ TopRate \in Nat
  BY LmConstants, TopIs DEF BucketKept, Buckets
<1>2. /\ a \in Seq(Nat) /\ n \in Seq(Nat) /\ Len(n) = Len(a) + 1 /\ n[Len(n)] = x /\ Len(a) \in Nat
      /\ \A i \in 1..Len(a) : n[i] = a[i] /\ a[i] <= x /\ a[i] \in Nat
  BY <1>1 DEF TimesOf
<1>3. c \in Buckets /\ c.tokens = b.tokens - LmHour /\ c.updated = x /\ c.seen = x /\ c.paid = b.paid
  BY <1>1 DEF Buckets
<1>4. (x - x) * TopRate = 0
  BY <1>1
<1>5. PICK q : q = TopRate * LmHour
  OBVIOUS
<1>6. q \in Nat
  <2>1. \A u, v \in Nat : u * v \in Nat
    OBVIOUS
  <2> QED BY <1>1, <1>5, <2>1
<1> HIDE DEF n
<1>7. ASSUME NEW i \in 1..Len(a)
      PROVE (Len(n) - i + 1) * LmHour + c.tokens <= q + (x - n[i]) * TopRate
  <2>1. n[i] = a[i] /\ (Len(a) - i + 1) * LmHour + b.tokens <= q + (x - a[i]) * TopRate
    BY <1>1, <1>2, <1>5 DEF Promise
  <2>2. (Len(n) - i + 1) * LmHour = (Len(a) - i + 1) * LmHour + LmHour
    <3>1. PICK m \in Nat : m = Len(a) - i + 1 /\ Len(n) - i + 1 = m + 1
      <4>1. Len(a) - i + 1 \in Nat /\ Len(n) - i + 1 = (Len(a) - i + 1) + 1
        <5>1. i \in Nat /\ i <= Len(a) /\ Len(a) \in Nat /\ Len(n) = Len(a) + 1
          BY <1>2
        <5> QED BY <5>1
      <4> QED BY <4>1
    <3>2. (m + 1) * LmHour = m * LmHour + LmHour
      <4>1. m \in Nat /\ LmHour \in Nat
        BY <1>1
      <4> QED BY <4>1
    <3> QED BY <3>1, <3>2
  <2>3. PICK p \in Int, s \in Int : p = (Len(a) - i + 1) * LmHour /\ s = (x - a[i]) * TopRate
    <3>1. Len(a) - i + 1 \in Int /\ x - a[i] \in Int
      BY <1>2
    <3>2. \A u, v \in Int : u * v \in Int
      OBVIOUS
    <3>3. (Len(a) - i + 1) * LmHour \in Int /\ (x - a[i]) * TopRate \in Int
      BY <1>1, <3>1, <3>2
    <3> QED BY <3>3
  <2>4. p + b.tokens <= q + s
    BY <2>1, <2>3
  <2>5. (p + LmHour) + (b.tokens - LmHour) <= q + s
    <3>1. p \in Int /\ s \in Int
      BY <2>3
    <3>2. b.tokens \in Nat /\ LmHour \in Nat /\ q \in Nat
      BY <1>1, <1>6
    <3> QED BY <2>4, <3>1, <3>2
  <2> QED BY <1>3, <2>1, <2>2, <2>3, <2>5
<1>8. ASSUME NEW i \in 1..Len(n), i = Len(n)
      PROVE (Len(n) - i + 1) * LmHour = LmHour /\ (x - n[i]) * TopRate = 0
  <2>1. Len(n) - i + 1 = 1 /\ n[i] = x /\ 1 * LmHour = LmHour
    BY <1>1, <1>2, <1>8
  <2> QED BY <1>4, <2>1
<1>9. Promise(n, x, c.tokens)
  <2>1. ASSUME NEW i \in 1..Len(n) PROVE (Len(n) - i + 1) * LmHour + c.tokens <= q + (x - n[i]) * TopRate
    <3>1. CASE i \in 1..Len(a)
      BY <3>1, <1>7
    <3>2. CASE i = Len(n)
      <4>1. LmHour + (b.tokens - LmHour) <= q + 0
        BY <1>1, <1>5, <1>6
      <4> QED BY <3>2, <4>1, <1>3, <1>8
    <3> QED BY <3>1, <3>2, <1>2
  <2> QED BY <1>5, <2>1 DEF Promise
<1>10. Spans(n)
  <2>1. ASSUME NEW i \in 1..Len(n), NEW j \in i..Len(n) PROVE (j - i + 1) * LmHour <= q + (n[j] - n[i]) * TopRate
    <3>1. CASE j \in 1..Len(a)
      <4>1. i \in 1..Len(a) /\ j \in i..Len(a)
        BY <3>1, <1>2
      <4>2. (j - i + 1) * LmHour <= q + (a[j] - a[i]) * TopRate
        BY <4>1, <1>5 DEF Spans
      <4> QED BY <4>1, <4>2, <3>1, <1>2
    <3>2. CASE j = Len(n) /\ i \in 1..Len(a)
      <4>1. (Len(n) - i + 1) * LmHour + c.tokens <= q + (x - n[i]) * TopRate
        BY <3>2, <1>7
      <4>2. c.tokens \in Nat /\ (Len(n) - i + 1) * LmHour \in Int /\ (x - n[i]) * TopRate \in Int
        <5>1. c.tokens \in Nat
          BY <1>1, <1>3
        <5>2. Len(n) - i + 1 \in Int /\ x - n[i] \in Int
          BY <1>2, <3>2
        <5>3. \A u, v \in Int : u * v \in Int
          OBVIOUS
        <5>4. (Len(n) - i + 1) * LmHour \in Int
          BY <5>2, <5>3, <1>1
        <5>5. (x - n[i]) * TopRate \in Int
          BY <5>2, <5>3, <1>1
        <5> QED BY <5>1, <5>4, <5>5
      <4>3. PICK p \in Int, s \in Int : p = (Len(n) - i + 1) * LmHour /\ s = (x - n[i]) * TopRate
        BY <4>2
      <4>4. p <= q + s
        BY <4>1, <4>2, <4>3, <1>6
      <4> QED BY <4>3, <4>4, <3>2, <1>2
    <3>3. CASE j = Len(n) /\ i = Len(n)
      <4>1. LmHour <= q
        BY <1>1, <1>5, <1>6
      <4>2. n[j] = x /\ n[i] = x
        BY <3>3, <1>2
      <4>3. LmHour <= q + 0
        BY <4>1, <1>1, <1>6
      <4> QED BY <3>3, <4>2, <4>3, <1>8
    <3>4. j \in 1..Len(a) \/ j = Len(n)
      BY <1>2
    <3>5. i \in 1..Len(a) \/ i = Len(n)
      BY <1>2
    <3>6. i = Len(n) => j = Len(n)
      BY <1>2
    <3> QED BY <3>1, <3>2, <3>3, <3>4, <3>5, <3>6
  <2> QED BY <1>5, <2>1 DEF Spans
<1>11. TimesOf(n, x)
  <2>1. ASSUME NEW i \in 1..Len(n) PROVE n[i] <= x
    BY <1>2
  <2> QED BY <1>2, <2>1 DEF TimesOf
<1>12. Told(r, c, x) /\ c.tokens <= TopRate * LmHour
  <2>1. c.tokens <= q
    BY <1>1, <1>3, <1>5, <1>6
  <2> QED BY <1>1, <1>3, <1>5, <2>1 DEF Told
<1> QED BY <1>1, <1>3, <1>9, <1>10, <1>11, <1>12 DEF BucketKept, n

\* A slow-down reply comes a refill window after the last one.
LEMMA ReplyOK ==
  ASSUME NEW x \in Nat, NEW a, NEW r, NEW b, BucketKept(a, r, b, x), b.updated = x, b.seen = x, Spaced(r),
         b.paid = -1 \/ (x - b.paid) * b.paidRate >= LmHour, NEW c, c = [b EXCEPT !.paid = x, !.paidRate = b.rate]
  PROVE  BucketKept(a, Append(r, x), c, x) /\ Spaced(Append(r, x))
<1> DEFINE n == Append(r, x)
<1>1. /\ b \in Buckets /\ TimesOf(a, x) /\ TimesOf(r, x) /\ Promise(a, x, b.tokens) /\ Told(r, b, x) /\ b.tokens <= TopRate * LmHour
      /\ LmHour \in Nat /\ TopRate \in Nat \ {0} /\ b.paidRate \in Nat /\ b.paidRate <= TopRate
  BY LmConstants, TopIs DEF BucketKept, Buckets
<1>2. /\ r \in Seq(Nat) /\ n \in Seq(Nat) /\ Len(n) = Len(r) + 1 /\ n[Len(n)] = x /\ Len(r) \in Nat
      /\ \A i \in 1..Len(r) : n[i] = r[i] /\ r[i] <= x /\ r[i] \in Nat
  BY <1>1 DEF TimesOf
<1>3. c \in Buckets /\ c.tokens = b.tokens /\ c.updated = x /\ c.seen = x /\ c.paid = x
  BY <1>1 DEF Buckets
<1>4. TimesOf(n, x) /\ n # << >> /\ Told(n, c, x)
  <2>1. ASSUME NEW i \in 1..Len(n) PROVE n[i] <= x
    BY <1>2
  <2>2. n # << >> /\ x # -1
    BY <1>2
  <2> HIDE DEF n
  <2> QED BY <1>2, <1>3, <2>1, <2>2 DEF TimesOf, Told
<1>5. r # << >> => (x - r[Len(r)]) * TopRate >= LmHour
  <2> SUFFICES ASSUME r # << >> PROVE (x - r[Len(r)]) * TopRate >= LmHour
    OBVIOUS
  <2>1. Len(r) \in 1..Len(r) /\ r[Len(r)] \in Nat /\ r[Len(r)] <= x
    BY <1>2
  <2>2. PICK d \in Nat : d = x - r[Len(r)]
    <3>1. x - r[Len(r)] \in Nat
      BY <2>1
    <3> QED BY <3>1
  <2>3. CASE b.paid = -1
    <3>1. d >= LmHour
      BY <2>2, <2>3, <1>1 DEF Told, LongAgo
    <3>2. LmHour * 1 <= LmHour * TopRate /\ LmHour * TopRate <= d * TopRate /\ LmHour * TopRate \in Nat /\ d * TopRate \in Nat
      <4>1. LmHour \in Nat /\ 1 \in Nat /\ TopRate \in Nat /\ 1 <= TopRate /\ LmHour <= d
        BY <1>1, <3>1
      <4>2. LmHour * 1 <= LmHour * TopRate
        BY <4>1, TimesOver
      <4>3. LmHour * TopRate <= d * TopRate /\ LmHour * TopRate \in Nat /\ d * TopRate \in Nat
        BY <4>1, TimesMono
      <4> QED BY <4>2, <4>3
    <3>3. LmHour * 1 = LmHour
      BY <1>1
    <3>4. d * TopRate >= LmHour
      BY <3>2, <3>3, <1>1
    <3> QED BY <2>2, <3>4
  <2>4. CASE b.paid # -1
    <3>1. b.paid = r[Len(r)]
      BY <2>4, <1>1 DEF Told
    <3>2. d * b.paidRate >= LmHour
      BY <2>2, <2>4, <3>1
    <3>3. d * b.paidRate <= d * TopRate /\ d * b.paidRate \in Nat /\ d * TopRate \in Nat
      BY <1>1, TimesOver
    <3>4. d * TopRate >= LmHour
      BY <3>2, <3>3, <1>1
    <3> QED BY <2>2, <3>4
  <2> QED BY <2>3, <2>4
<1>6. Spaced(n)
  <2>1. ASSUME NEW i \in 1..(Len(n) - 1) PROVE (n[i + 1] - n[i]) * TopRate >= LmHour
    <3>1. i \in 1..Len(r) /\ n[i] = r[i]
      BY <1>2
    <3>2. CASE i = Len(r)
      <4>1. r # << >> /\ n[i + 1] = x
        BY <1>2, <3>1, <3>2
      <4> QED BY <1>5, <3>1, <3>2, <4>1
    <3>3. CASE i # Len(r)
      <4>1. i \in 1..(Len(r) - 1) /\ i + 1 \in 1..Len(r)
        BY <1>2, <3>1, <3>3
      <4>2. n[i + 1] = r[i + 1]
        BY <1>2, <4>1
      <4> QED BY <3>1, <4>1, <4>2 DEF Spaced
    <3> QED BY <3>2, <3>3
  <2> QED BY <2>1 DEF Spaced
<1> HIDE DEF n
<1> QED BY <1>1, <1>3, <1>4, <1>6 DEF BucketKept, n

LEMMA AdmitOK == ASSUME BucketInv, NEW k \in LmKeys, AdmitAddress(k) PROVE BucketInv'
<1> DEFINE b == [Refilled(IF k \in LiveBuckets THEN lmBuckets[k] ELSE NewBucket) EXCEPT !.seen = lmNow]
           admitted == b.tokens >= LmHour
           replies == ~admitted /\ (b.paid = -1 \/ (lmNow - b.paid) * b.paidRate >= LmHour)
           after == [b EXCEPT !.tokens = IF admitted THEN @ - LmHour ELSE @,
                              !.paid = IF replies THEN lmNow ELSE @, !.paidRate = IF replies THEN b.rate ELSE @]
<1>5. PICK others \in Fits(LiveBuckets \ {k}, LastSeen, lmSize - 1) :
        /\ lmBuckets' = [l \in others \cup {k} |-> IF l = k THEN after ELSE lmBuckets[l]]
        /\ lmEvicted' = lmEvicted \cup (LiveBuckets \ (others \cup {k}))
  BY DEF AdmitAddress
<1>6. /\ lmAdmitted' = IF admitted THEN [lmAdmitted EXCEPT ![k] = Append(@, lmNow)] ELSE lmAdmitted
      /\ lmReplies' = IF replies THEN [lmReplies EXCEPT ![k] = Append(@, lmNow)] ELSE lmReplies
      /\ lmNow' = lmNow /\ lmRate' = lmRate
  BY DEF AdmitAddress
<1> HIDE DEF b, after
<1>1. b = [Refilled(IF k \in LiveBuckets THEN lmBuckets[k] ELSE NewBucket) EXCEPT !.seen = lmNow]
  BY DEF b
<1>2. admitted <=> b.tokens >= LmHour
  OBVIOUS
<1>3. replies <=> (~admitted /\ (b.paid = -1 \/ (lmNow - b.paid) * b.paidRate >= LmHour))
  OBVIOUS
<1>4. after = [b EXCEPT !.tokens = IF admitted THEN @ - LmHour ELSE @,
                        !.paid = IF replies THEN lmNow ELSE @, !.paidRate = IF replies THEN b.rate ELSE @]
  BY DEF after
<1> HIDE DEF admitted, replies
<1>7. lmNow \in Nat /\ lmRate \in LmRates /\ DOMAIN lmAdmitted = LmKeys /\ DOMAIN lmReplies = LmKeys /\ \A l \in LmKeys : KeyOK(l)
  BY DEF BucketInv
<1>8. others \subseteq LiveBuckets \ {k}
  BY <1>5 DEF Fits
<1>9. DOMAIN lmAdmitted' = LmKeys /\ DOMAIN lmReplies' = LmKeys
  BY <1>6, <1>7
<1>10. ASSUME NEW l \in LmKeys, l # k PROVE KeyOK(l)'
  <2>1. KeyOK(l) /\ lmAdmitted'[l] = lmAdmitted[l] /\ lmReplies'[l] = lmReplies[l]
    BY <1>6, <1>7, <1>10
  <2>2. l \notin lmEvicted' => l \notin lmEvicted /\ (l \in LiveBuckets <=> l \in others)
    BY <1>5, <1>8, <1>10
  <2>3. l \in DOMAIN lmBuckets' <=> l \in others
    BY <1>5, <1>10
  <2>4. ASSUME l \notin lmEvicted', l \in others PROVE BucketKept(lmAdmitted[l], lmReplies[l], lmBuckets'[l], lmNow)
    <3>1. l \in DOMAIN lmBuckets /\ lmBuckets'[l] = lmBuckets[l]
      BY <1>5, <1>8, <1>10, <2>4 DEF LiveBuckets
    <3> QED BY <2>1, <2>2, <2>4, <3>1 DEF KeyOK
  <2>5. ASSUME l \notin lmEvicted', l \notin others PROVE Rested(lmAdmitted[l], lmReplies[l], lmNow)
    BY <2>2, <2>5, RestedNow
  <2> QED BY <1>6, <2>1, <2>2, <2>3, <2>4, <2>5 DEF KeyOK
<1>11. KeyOK(k)'
  <2> DEFINE a == lmAdmitted[k]
             r == lmReplies[k]
  <2>1. a \in Seq(Nat) /\ r \in Seq(Nat) /\ (k \notin lmEvicted => Spans(a) /\ Spaced(r))
    BY <1>7 DEF KeyOK
  <2>2. /\ lmAdmitted'[k] = IF admitted THEN Append(a, lmNow) ELSE a
        /\ lmReplies'[k] = IF replies THEN Append(r, lmNow) ELSE r
    BY <1>6, <1>7
  <2>3. lmAdmitted'[k] \in Seq(Nat) /\ lmReplies'[k] \in Seq(Nat)
    BY <1>7, <2>1, <2>2
  <2>4. k \in DOMAIN lmBuckets' /\ lmBuckets'[k] = after /\ (k \notin lmEvicted' => k \notin lmEvicted)
    BY <1>5
  <2>5. ASSUME k \notin lmEvicted
        PROVE /\ Spans(lmAdmitted'[k]) /\ Spaced(lmReplies'[k])
              /\ BucketKept(lmAdmitted'[k], lmReplies'[k], after, lmNow)
    <3>1. BucketKept(a, r, IF k \in LiveBuckets THEN lmBuckets[k] ELSE NewBucket, lmNow)
      <4>1. CASE k \in LiveBuckets
        <5>1. k \in DOMAIN lmBuckets
          BY <4>1 DEF LiveBuckets
        <5> QED BY <4>1, <5>1, <1>7, <2>5 DEF KeyOK
      <4>2. CASE k \notin LiveBuckets
        <5>1. Rested(a, r, lmNow)
          BY <4>2, <2>5, RestedNow
        <5> QED BY <4>2, <5>1, <1>7, NewBucketOK
      <4> QED BY <4>1, <4>2
    <3>2. BucketKept(a, r, b, lmNow)
      BY <3>1, <1>1, <1>7, RefillOK
    <3>3. b.updated = lmNow /\ b.seen = lmNow
      <4>1. PICK o : o = IF k \in LiveBuckets THEN lmBuckets[k] ELSE NewBucket
        OBVIOUS
      <4>2. Refilled(o).updated = lmNow /\ b = [Refilled(o) EXCEPT !.seen = lmNow]
        BY <3>1, <4>1, <1>1, <1>7, RefillOK
      <4>3. o \in Buckets
        BY <3>1, <4>1 DEF BucketKept
      <4> QED BY <4>2, <4>3 DEF Refilled, Buckets
    <3>4. b \in Buckets
      BY <3>2 DEF BucketKept
    <3>5. CASE admitted
      <4>1. after = [b EXCEPT !.tokens = b.tokens - LmHour]
        BY <3>4, <3>5, <1>3, <1>4 DEF Buckets
      <4>2. b.tokens >= LmHour /\ lmAdmitted'[k] = Append(a, lmNow) /\ lmReplies'[k] = r
        BY <1>2, <1>3, <2>2, <3>5
      <4>3. BucketKept(Append(a, lmNow), r, after, lmNow) /\ Spans(Append(a, lmNow))
        BY <1>7, <2>1, <2>5, <3>2, <3>3, <4>1, <4>2, SpendOK
      <4> QED BY <2>1, <2>5, <4>2, <4>3
    <3>6. CASE replies
      <4>1. ~admitted /\ (b.paid = -1 \/ (lmNow - b.paid) * b.paidRate >= LmHour)
        BY <1>3, <3>6
      <4>2. after = [b EXCEPT !.paid = lmNow, !.paidRate = b.rate]
        BY <3>4, <3>6, <4>1, <1>4 DEF Buckets
      <4>3. lmAdmitted'[k] = a /\ lmReplies'[k] = Append(r, lmNow)
        BY <2>2, <3>6, <4>1
      <4>4. BucketKept(a, Append(r, lmNow), after, lmNow) /\ Spaced(Append(r, lmNow))
        BY <1>7, <2>1, <2>5, <3>2, <3>3, <4>1, <4>2, ReplyOK
      <4> QED BY <2>1, <2>5, <4>3, <4>4
    <3>7. CASE ~admitted /\ ~replies
      <4>1. after = b
        BY <3>4, <3>7, <1>4 DEF Buckets
      <4> QED BY <2>1, <2>2, <2>5, <3>2, <3>7, <4>1
    <3> QED BY <3>5, <3>6, <3>7
  <2> HIDE DEF a, r
  <2> QED BY <1>6, <2>3, <2>4, <2>5 DEF KeyOK
<1> QED BY <1>6, <1>7, <1>9, <1>10, <1>11 DEF BucketInv

LEMMA ReconfigureOK == ASSUME BucketInv, NEW rate \in LmRates, NEW size \in LmSizes, Reconfigure(rate, size) PROVE BucketInv'
<1>1. /\ UNCHANGED <<lmNow, lmAdmitted, lmReplies>> /\ lmRate' = rate
  BY DEF Reconfigure
<1>2. PICK kept \in Fits(LiveBuckets, LastSeen, size) :
        lmBuckets' = [l \in kept |-> Rerated(lmBuckets[l], rate, size)] /\ lmEvicted' = lmEvicted \cup (LiveBuckets \ kept)
  BY DEF Reconfigure
<1>3. kept \subseteq LiveBuckets /\ LiveBuckets \subseteq DOMAIN lmBuckets
  BY <1>2 DEF Fits, LiveBuckets
<1>4. lmNow \in Nat /\ DOMAIN lmAdmitted = LmKeys /\ DOMAIN lmReplies = LmKeys /\ \A l \in LmKeys : KeyOK(l)
  BY DEF BucketInv
<1>5. ASSUME NEW l \in LmKeys PROVE KeyOK(l)'
  <2> DEFINE a == lmAdmitted[l]
             r == lmReplies[l]
  <2>1. KeyOK(l) /\ (l \notin lmEvicted' => l \notin lmEvicted /\ (l \in LiveBuckets <=> l \in kept)) /\ (l \in DOMAIN lmBuckets' <=> l \in kept)
    BY <1>2, <1>3, <1>4
  <2>2. ASSUME l \notin lmEvicted', l \in kept PROVE BucketKept(a, r, lmBuckets'[l], lmNow)
    <3>1. PICK b : b = lmBuckets[l]
      OBVIOUS
    <3>2. BucketKept(a, r, b, lmNow)
      BY <1>3, <2>1, <2>2, <3>1 DEF KeyOK
    <3>3. /\ b \in Buckets /\ b.tokens \in Nat /\ b.updated \in Nat /\ b.seen \in Nat /\ b.updated <= b.seen /\ b.seen <= lmNow /\ b.tokens <= TopRate * LmHour
          /\ TimesOf(a, b.updated) /\ TimesOf(r, b.seen) /\ Promise(a, b.updated, b.tokens) /\ Told(r, b, lmNow)
      BY <3>2 DEF BucketKept, Buckets
    <3>4. rate \in Nat /\ LmHour \in Nat /\ TopRate \in Nat
      BY TopIs, LmConstants
    <3>5. rate * LmHour \in Nat /\ TopRate * LmHour \in Nat
      <4>1. \A u, v \in Nat : u * v \in Nat
        OBVIOUS
      <4> QED BY <3>4, <4>1
    <3>6. PICK m : m = Min({b.tokens, rate * LmHour})
      OBVIOUS
    <3>7. m \in Nat /\ m <= b.tokens
      <4>1. PICK f \in Nat : f = rate * LmHour
        BY <3>5
      <4>2. m = IF b.tokens <= f THEN b.tokens ELSE f
        BY <3>3, <3>6, <4>1, MinOf
      <4> QED BY <3>3, <4>1, <4>2
    <3>8. PICK s : s = IF size = lmSize THEN b.seen ELSE lmNow
      OBVIOUS
    <3>9. s \in Nat /\ b.seen <= s /\ s <= lmNow
      BY <1>4, <3>3, <3>8
    <3>10. PICK c : c = Rerated(b, rate, size)
      OBVIOUS
    <3>11. c = [b EXCEPT !.rate = rate, !.tokens = m, !.seen = s]
      BY <3>3, <3>6, <3>8, <3>10 DEF Rerated, Buckets
    <3>12. c \in Buckets /\ c.tokens = m /\ c.updated = b.updated /\ c.seen = s /\ c.paid = b.paid
      BY <3>3, <3>7, <3>9, <3>11 DEF Buckets
    <3>13. Promise(a, b.updated, m)
      <4>1. m <= b.tokens + (b.updated - b.updated) * TopRate
        <5>1. (b.updated - b.updated) * TopRate = 0
          BY <3>3, <3>4
        <5> QED BY <3>3, <3>7, <5>1
      <4> QED BY <3>3, <3>7, <4>1, PromiseGrows
    <3>14. TimesOf(r, s) /\ Told(r, c, lmNow)
      <4>1. TimesOf(r, s)
        BY <3>3, <3>9 DEF TimesOf
      <4>2. Told(r, c, lmNow)
        BY <3>3, <3>12 DEF Told
      <4> QED BY <4>1, <4>2
    <3>15. m <= TopRate * LmHour /\ b.updated <= s
      BY <3>3, <3>5, <3>7, <3>9
    <3>16. lmBuckets'[l] = c
      BY <1>2, <2>2, <3>1, <3>10
    <3> QED BY <3>3, <3>9, <3>12, <3>13, <3>14, <3>15, <3>16 DEF BucketKept
  <2>3. ASSUME l \notin lmEvicted', l \notin kept PROVE Rested(a, r, lmNow)
    BY <2>1, <2>3, RestedNow
  <2> QED BY <1>1, <2>1, <2>2, <2>3 DEF KeyOK
<1> QED BY <1>1, <1>4, <1>5 DEF BucketInv

LEMMA TickOK == ASSUME BucketInv, Tick PROVE BucketInv'
<1>1. lmNow \in Nat /\ lmNow' = lmNow + 1 /\ UNCHANGED lmBucketVars
  BY DEF Tick, BucketInv
<1>2. lmRate \in LmRates /\ DOMAIN lmAdmitted = LmKeys /\ DOMAIN lmReplies = LmKeys /\ \A l \in LmKeys : KeyOK(l)
  BY DEF BucketInv
<1>3. ASSUME NEW a, NEW r, NEW b, BucketKept(a, r, b, lmNow) PROVE BucketKept(a, r, b, lmNow + 1)
  <2>1. b \in Buckets /\ b.seen \in Nat /\ b.seen <= lmNow /\ TimesOf(r, b.seen) /\ Told(r, b, lmNow)
    BY <1>3 DEF BucketKept, Buckets
  <2>2. b.seen <= lmNow + 1 /\ Told(r, b, lmNow + 1)
    <3>1. r # << >> => Len(r) \in 1..Len(r) /\ r[Len(r)] \in Nat
      BY <2>1 DEF TimesOf
    <3> QED BY <1>1, <2>1, <3>1, LmConstants DEF Told, LongAgo
  <2> QED BY <1>3, <2>2 DEF BucketKept
<1>4. ASSUME NEW a, NEW r, Rested(a, r, lmNow) PROVE Rested(a, r, lmNow + 1)
  <2>1. TimesOf(a, lmNow) /\ TimesOf(r, lmNow) /\ Promise(a, lmNow, TopRate * LmHour) /\ LongAgo(r, lmNow)
    BY <1>4 DEF Rested
  <2>2. TopRate * LmHour \in Nat /\ TopRate * LmHour <= TopRate * LmHour + ((lmNow + 1) - lmNow) * TopRate
    <3>1. \A u, v \in Nat : u * v \in Nat
      OBVIOUS
    <3>2. TopRate \in Nat /\ LmHour \in Nat /\ (lmNow + 1) - lmNow = 1 /\ 1 * TopRate = TopRate
      BY <1>1, TopIs, LmConstants
    <3>3. TopRate * LmHour \in Nat
      BY <3>1, <3>2
    <3>4. ((lmNow + 1) - lmNow) * TopRate = TopRate
      BY <3>2
    <3> QED BY <3>2, <3>3, <3>4
  <2>3. lmNow + 1 \in Nat /\ lmNow <= lmNow + 1
    BY <1>1
  <2>4. Promise(a, lmNow + 1, TopRate * LmHour) /\ TimesOf(a, lmNow + 1)
    BY <1>1, <2>1, <2>2, <2>3, PromiseGrows
  <2>5. TimesOf(r, lmNow + 1)
    BY <1>1, <2>1 DEF TimesOf
  <2>6. LongAgo(r, lmNow + 1)
    <3>1. r # << >> => Len(r) \in 1..Len(r) /\ r[Len(r)] \in Nat
      BY <2>1 DEF TimesOf
    <3> QED BY <1>1, <2>1, <3>1, LmConstants DEF LongAgo
  <2> QED BY <2>4, <2>5, <2>6 DEF Rested
<1>5. ASSUME NEW l \in LmKeys PROVE KeyOK(l)'
  <2>1. KeyOK(l)
    BY <1>2
  <2> QED BY <1>1, <1>3, <1>4, <2>1 DEF KeyOK, lmBucketVars
<1>6. lmNow' \in Nat
  BY <1>1
<1> QED BY <1>1, <1>2, <1>5, <1>6 DEF BucketInv, lmBucketVars

(* The doors. *)
Width(w) == IF w = "long" THEN LmLong ELSE LmShort
Admits(w) == IF w = "long" THEN LmLimit ELSE LmBurst
HitsOf(y) == IF y \in DOMAIN lmCounts THEN lmCounts[y] ELSE 0
Through(w, n, b) == {x \in lmPassed : LmNet[x.c] = b /\ x.t \div Width(w) = n}

\* Of what was counted in a window, not more passed than it admits.
WindowOK(w, n, b) ==
    /\ HitsOf([w |-> w, n |-> n, b |-> b]) \in Nat
    /\ Cardinality(Through(w, n, b)) <= HitsOf([w |-> w, n |-> n, b |-> b])
    /\ Cardinality(Through(w, n, b)) <= Admits(w)
DoorInv == IsFiniteSet(lmPassed) /\ \A w \in {"long", "short"} : \A n, b : WindowOK(w, n, b)

\* Whatever a client forges, the hop that is taken for it is in its own network.
LEMMA ClientFound ==
  ASSUME NEW c \in LmClients, NEW forged \in LmForged, NEW via \in LmChains
  PROVE  ClientBucket(IF via = << >> THEN c ELSE Last(via), forged \o (IF via = << >> THEN << >> ELSE <<c>> \o Front(via))) = LmNet[c]
<1>1. c \notin LmProxies /\ via \in Seq(LmProxies) /\ forged \in Seq(DOMAIN LmNet)
  BY LmConstants
<1>2. CASE via = << >>
  BY <1>1, <1>2 DEF ClientBucket
<1>3. CASE via # << >>
  <2> DEFINE rest == Front(via)
             hops == forged \o (<<c>> \o rest)
             m == Len(forged) + 1
             outside == {i \in DOMAIN hops : hops[i] \notin LmProxies}
  <2>1. Last(via) \in LmProxies
    <3>1. Len(via) \in 1..Len(via)
      BY <1>1, <1>3
    <3> QED BY <1>1, <3>1 DEF Last
  <2>2. rest \in Seq(LmProxies) /\ Len(rest) \in Nat
    BY <1>1, <1>3 DEF Front
  <2> HIDE DEF rest
  <2>3. <<c>> \o rest \in Seq(LmProxies \cup {c}) /\ Len(<<c>> \o rest) = Len(rest) + 1 /\ (<<c>> \o rest)[1] = c
        /\ \A i \in 2..(Len(rest) + 1) : (<<c>> \o rest)[i] \in LmProxies
    <3>1. <<c>> \in Seq({c}) /\ Len(<<c>>) = 1 /\ <<c>>[1] = c
      OBVIOUS
    <3>2. ASSUME NEW i \in 2..(Len(rest) + 1) PROVE (<<c>> \o rest)[i] \in LmProxies
      <4>1. (<<c>> \o rest)[i] = rest[i - 1] /\ i - 1 \in 1..Len(rest)
        BY <2>2, <3>1
      <4> QED BY <2>2, <4>1
    <3> QED BY <2>2, <3>1, <3>2
  <2>4. PICK tail : tail = <<c>> \o rest
    OBVIOUS
  <2>5. hops = forged \o tail /\ Len(forged) \in Nat /\ DOMAIN hops = 1..(Len(forged) + Len(rest) + 1) /\ m \in DOMAIN hops
    BY <1>1, <2>2, <2>3, <2>4
  <2>6. hops[m] = c
    BY <1>1, <2>2, <2>3, <2>4, <2>5
  <2>7. ASSUME NEW i \in DOMAIN hops, i > m PROVE hops[i] \in LmProxies
    <3>1. i \in Nat /\ i - Len(forged) \in 2..(Len(rest) + 1)
      BY <2>2, <2>5, <2>7
    <3>2. hops[i] = tail[i - Len(forged)]
      BY <1>1, <2>2, <2>3, <2>4, <2>5, <2>7, <3>1
    <3> QED BY <2>3, <2>4, <3>1, <3>2
  <2> HIDE DEF hops
  <2>8. m \in outside /\ \A i \in outside : i \in Nat /\ i <= m
    BY <1>1, <2>5, <2>6, <2>7
  <2>9. Max(outside) = m
    <3>1. m \in Nat
      BY <2>5
    <3>2. Max(outside) \in outside /\ \A i \in outside : Max(outside) >= i
      <4> HIDE DEF outside, m
      <4>1. m \in outside /\ \A i \in outside : m >= i
        BY <2>8, <3>1
      <4> QED BY <4>1 DEF Max
    <3> HIDE DEF outside, m
    <3>3. PICK top : top = Max(outside)
      OBVIOUS
    <3>4. top \in Nat /\ top <= m /\ top >= m
      BY <2>8, <3>2, <3>3
    <3> QED BY <3>1, <3>3, <3>4
  <2>10. ClientBucket(Last(via), hops) = LmNet[hops[Max(outside)]]
    <3>1. outside # {}
      BY <2>8
    <3> QED BY <2>1, <3>1 DEF ClientBucket
  <2> QED BY <1>3, <2>6, <2>9, <2>10 DEF hops, rest
<1> QED BY <1>2, <1>3

LEMMA DoorHitOK ==
  ASSUME DoorInv, NEW c \in LmClients, NEW forged \in LmForged, NEW via \in LmChains, DoorHit(c, forged, via)
  PROVE  DoorInv'
<1> DEFINE b == LmNet[c]
           both == {Counter("long", b), Counter("short", b)}
           hit == [c |-> c, t |-> lmNow, i |-> lmLeft]
<1>1. /\ lmCounts' = [x \in DOMAIN lmCounts \cup both |-> IF x \in both THEN CountOf(x) ELSE lmCounts[x]]
      /\ lmPassed' = IF Within(b) THEN lmPassed \cup {hit} ELSE lmPassed
  BY ClientFound DEF DoorHit
<1>2. ASSUME NEW w \in {"long", "short"}, NEW n, NEW a
      PROVE [w |-> w, n |-> n, b |-> a] \in both <=> n = lmNow \div Width(w) /\ a = b
  BY DEF Counter, Width
<1>3. \A y : HitsOf(y)' = IF y \in both THEN 1 + HitsOf(y) ELSE HitsOf(y)
  BY <1>1 DEF HitsOf, CountOf
<1>4. IsFiniteSet(lmPassed')
  BY <1>1, FS_AddElement DEF DoorInv
<1> HIDE DEF both
<1>5. ASSUME NEW w \in {"long", "short"}, NEW n, NEW a PROVE WindowOK(w, n, a)'
  <2> DEFINE y == [w |-> w, n |-> n, b |-> a]
             s == Through(w, n, a)
  <2>1. /\ HitsOf(y) \in Nat /\ Cardinality(s) <= HitsOf(y) /\ Cardinality(s) <= Admits(w) /\ IsFiniteSet(s)
    <3>1. WindowOK(w, n, a)
      BY DEF DoorInv
    <3>2. s \subseteq lmPassed
      BY DEF Through
    <3>3. IsFiniteSet(s)
      BY <3>2, FS_Subset DEF DoorInv
    <3> QED BY <3>1, <3>3 DEF WindowOK
  <2>2. Cardinality(s) \in Nat /\ Admits(w) \in Nat
    BY <2>1, FS_CardinalityType, LmConstants DEF Admits
  <2>3. HitsOf(y)' \in Nat /\ HitsOf(y)' >= HitsOf(y)
    BY <1>3, <2>1
  <2>4. CASE Within(b) /\ y \in both
    <3>1. n = lmNow \div Width(w) /\ a = b
      BY <1>2, <2>4
    <3>2. y = Counter(w, b)
      BY <3>1 DEF Counter, Width
    <3>3. CountOf(y) <= Admits(w) /\ CountOf(y) = 1 + HitsOf(y)
      BY <2>4, <3>2 DEF Within, Admits, CountOf, HitsOf
    <3>4. s' = s \cup {hit}
      BY <1>1, <2>4, <3>1 DEF Through
    <3>5. Cardinality(s') <= Cardinality(s) + 1 /\ Cardinality(s') \in Nat
      <4>1. PICK d, z : d = s /\ z = hit
        OBVIOUS
      <4> HIDE DEF s, hit
      <4>2. Cardinality(d \cup {z}) = IF z \in d THEN Cardinality(d) ELSE Cardinality(d) + 1
        BY <2>1, <4>1, FS_AddElement
      <4>3. Cardinality(d \cup {z}) <= Cardinality(d) + 1 /\ Cardinality(d \cup {z}) \in Nat
        BY <2>2, <4>1, <4>2
      <4> QED BY <3>4, <4>1, <4>3
    <3>6. HitsOf(y)' = 1 + HitsOf(y)
      BY <1>3, <2>4
    <3>7. Cardinality(s') <= HitsOf(y)' /\ Cardinality(s') <= Admits(w)
      BY <2>1, <2>2, <3>3, <3>5, <3>6
    <3> QED BY <2>3, <3>7 DEF WindowOK, Admits
  <2>5. CASE ~(Within(b) /\ y \in both)
    <3>1. s' = s
      <4>1. CASE ~Within(b)
        BY <1>1, <4>1 DEF Through
      <4>2. CASE y \notin both
        <5>1. ~(n = lmNow \div Width(w) /\ a = b)
          BY <1>2, <4>2
        <5>2. hit.t = lmNow /\ hit.c = c
          OBVIOUS
        <5> QED BY <1>1, <5>1, <5>2 DEF Through
      <4> QED BY <2>5, <4>1, <4>2
    <3>2. Cardinality(s') <= HitsOf(y)' /\ Cardinality(s') <= Admits(w)
      BY <2>1, <2>2, <2>3, <3>1
    <3> QED BY <2>3, <3>2 DEF WindowOK, Admits
  <2> QED BY <2>4, <2>5
<1> QED BY <1>4, <1>5 DEF DoorInv

(* The bodies. *)
BodyInv ==
    lmBody # NoBody =>
      /\ lmBody \in [step : {"open", "over"}, read : Nat, seen : 0..LmCap, head : BOOLEAN, answers : 0..1]
      /\ lmBody.step = "open" => lmBody.read <= LmCap /\ lmBody.answers = IF lmBody.head THEN 1 ELSE 0

LEMMA BodyStepOK == ASSUME BodyInv, BodyStep PROVE BodyInv'
<1> DEFINE Bodies == [step : {"open", "over"}, read : Nat, seen : 0..LmCap, head : BOOLEAN, answers : 0..1]
<1>1. LmCap \in Nat /\ LmChunks \subseteq Nat
  BY LmConstants
<1>2. ASSUME NEW n \in LmChunks, StartBody(n) PROVE BodyInv'
  <2>1. CASE n > LmCap
    BY <1>1, <1>2, <2>1 DEF BodyInv, StartBody
  <2>2. CASE ~(n > LmCap)
    BY <1>1, <1>2, <2>2 DEF BodyInv, StartBody
  <2> QED BY <2>1, <2>2
<1>3. lmBody.step = "open" => lmBody \in Bodies /\ lmBody.read <= LmCap /\ lmBody.answers = IF lmBody.head THEN 1 ELSE 0
  BY DEF BodyInv, NoBody
<1>4. ASSUME NEW n \in LmChunks, ReceiveChunk(n) PROVE BodyInv'
  <2>1. lmBody \in Bodies /\ lmBody.read <= LmCap /\ lmBody.answers = (IF lmBody.head THEN 1 ELSE 0) /\ lmBody.step = "open" /\ n \in Nat
    BY <1>1, <1>3, <1>4 DEF ReceiveChunk
  <2>2. PICK b : b = [lmBody EXCEPT !.read = @ + n]
    OBVIOUS
  <2>3. b \in Bodies /\ b.step = "open" /\ b.head = lmBody.head /\ b.answers = lmBody.answers
    BY <2>1, <2>2
  <2>4. lmBody' = IF b.read > LmCap THEN Refused413(b) ELSE [b EXCEPT !.seen = b.read]
    BY <1>4, <2>2 DEF ReceiveChunk
  <2>5. CASE b.read > LmCap
    <3>1. lmBody' = [b EXCEPT !.step = "over", !.answers = IF b.head THEN b.answers ELSE b.answers + 1]
      BY <2>3, <2>4, <2>5 DEF Refused413
    <3>2. (IF b.head THEN b.answers ELSE b.answers + 1) \in 0..1
      BY <2>1, <2>3
    <3>3. lmBody' \in Bodies /\ lmBody'.step = "over"
      BY <2>3, <3>1, <3>2
    <3> QED BY <3>3 DEF BodyInv
  <2>6. CASE ~(b.read > LmCap)
    <3>1. lmBody' \in Bodies /\ lmBody'.read <= LmCap /\ lmBody'.head = lmBody.head /\ lmBody'.answers = lmBody.answers
      BY <1>1, <2>3, <2>4, <2>6
    <3> QED BY <2>1, <3>1 DEF BodyInv
  <2> QED BY <2>5, <2>6
<1>5. ASSUME Respond \/ BodyEnds PROVE BodyInv'
  <2>1. lmBody \in Bodies /\ lmBody.read <= LmCap /\ lmBody.answers = (IF lmBody.head THEN 1 ELSE 0) /\ lmBody.step = "open"
    BY <1>3, <1>5 DEF Respond, BodyEnds
  <2>2. CASE Respond
    <3>1. lmBody' = [lmBody EXCEPT !.head = TRUE, !.answers = 1]
      BY <2>1, <2>2 DEF Respond
    <3>2. lmBody' \in Bodies
      <4>1. PICK h, n : h \in BOOLEAN /\ h = TRUE /\ n = 1
        OBVIOUS
      <4>2. lmBody' = [lmBody EXCEPT !.head = h, !.answers = n] /\ h \in BOOLEAN /\ n \in 0..1
        BY <3>1, <4>1
      <4>3. \A x \in BOOLEAN, y \in 0..1 : [lmBody EXCEPT !.head = x, !.answers = y] \in Bodies
        BY <2>1
      <4> QED BY <4>2, <4>3
    <3>3. lmBody'.read = lmBody.read /\ lmBody'.answers = 1 /\ lmBody'.head = TRUE
      BY <2>1, <3>1
    <3>4. lmBody'.read <= LmCap /\ lmBody'.answers = IF lmBody'.head THEN 1 ELSE 0
      BY <2>1, <3>3
    <3> QED BY <3>2, <3>4 DEF BodyInv
  <2>3. CASE BodyEnds
    BY <2>1, <2>3 DEF BodyEnds, BodyInv
  <2> QED BY <1>5, <2>2, <2>3
<1> QED BY <1>2, <1>4, <1>5 DEF BodyStep

----------------------------------------------------------------------------
LimitsInv == BucketInv /\ DoorInv /\ BodyInv

LEMMA LimitsInit == LmInit => LimitsInv
<1> SUFFICES ASSUME LmInit PROVE LimitsInv
  OBVIOUS
<1>1. BucketInv
  <2>1. ASSUME NEW k \in LmKeys PROVE KeyOK(k)
    <3>1. lmAdmitted[k] = << >> /\ lmReplies[k] = << >> /\ lmNow = 0 /\ DOMAIN lmBuckets = {}
      BY DEF LmInit
    <3>2. Rested(<< >>, << >>, 0) /\ Spans(<< >>) /\ Spaced(<< >>)
      BY DEF Rested, TimesOf, Promise, LongAgo, Spans, Spaced
    <3> QED BY <3>1, <3>2 DEF KeyOK
  <2> QED BY <2>1 DEF LmInit, BucketInv
<1>2. DoorInv
  <2>1. ASSUME NEW w \in {"long", "short"}, NEW n, NEW b PROVE WindowOK(w, n, b)
    <3>1. Through(w, n, b) = {} /\ HitsOf([w |-> w, n |-> n, b |-> b]) = 0
      BY DEF LmInit, Through, HitsOf
    <3> QED BY <3>1, FS_EmptySet, LmConstants DEF WindowOK, Admits
  <2> QED BY <2>1, FS_EmptySet DEF LmInit, DoorInv
<1>3. BodyInv
  BY DEF LmInit, BodyInv
<1> QED BY <1>1, <1>2, <1>3 DEF LimitsInv

\* What a step of one limit leaves to the others.
LEMMA BucketsApart == ASSUME BucketInv, UNCHANGED <<lmNow, lmBucketVars>> PROVE BucketInv'
<1>1. ASSUME NEW k \in LmKeys PROVE KeyOK(k)'
  <2>1. KeyOK(k)
    BY DEF BucketInv
  <2> QED BY <2>1 DEF KeyOK, lmBucketVars
<1> QED BY <1>1 DEF BucketInv, lmBucketVars

LEMMA DoorsApart == ASSUME DoorInv, UNCHANGED lmDoorVars PROVE DoorInv'
<1>1. lmPassed' = lmPassed /\ lmCounts' = lmCounts
  BY DEF lmDoorVars
<1>2. ASSUME NEW w \in {"long", "short"}, NEW n, NEW b PROVE WindowOK(w, n, b)'
  <2>1. WindowOK(w, n, b)
    BY DEF DoorInv
  <2> QED BY <1>1, <2>1 DEF WindowOK, HitsOf, Through, Admits
<1> QED BY <1>1, <1>2 DEF DoorInv

LEMMA LimitsNext == LimitsInv /\ [BucketStep \/ DoorStep \/ BodyStep]_lmVars => LimitsInv'
<1> SUFFICES ASSUME LimitsInv, [BucketStep \/ DoorStep \/ BodyStep]_lmVars PROVE LimitsInv'
  OBVIOUS
<1>1. BucketInv /\ DoorInv /\ BodyInv
  BY DEF LimitsInv
<1>2. ASSUME UNCHANGED lmBody PROVE BodyInv'
  BY <1>1, <1>2 DEF BodyInv
<1>3. CASE Tick
  <2>1. UNCHANGED <<lmDoorVars, lmBody>>
    BY <1>3 DEF Tick
  <2> QED BY <1>1, <1>2, <1>3, <2>1, TickOK, DoorsApart DEF LimitsInv
<1>4. ASSUME NEW k \in LmKeys, AdmitAddress(k) PROVE LimitsInv'
  <2>1. UNCHANGED <<lmDoorVars, lmBody>>
    BY <1>4 DEF AdmitAddress
  <2> QED BY <1>1, <1>2, <1>4, <2>1, AdmitOK, DoorsApart DEF LimitsInv
<1>5. ASSUME NEW rate \in LmRates, NEW size \in LmSizes, Reconfigure(rate, size) PROVE LimitsInv'
  <2>1. UNCHANGED <<lmDoorVars, lmBody>>
    BY <1>5 DEF Reconfigure
  <2> QED BY <1>1, <1>2, <1>5, <2>1, ReconfigureOK, DoorsApart DEF LimitsInv
<1>6. ASSUME NEW c \in LmClients, NEW forged \in LmForged, NEW via \in LmChains, DoorHit(c, forged, via) PROVE LimitsInv'
  <2>1. UNCHANGED <<lmNow, lmBucketVars, lmBody>>
    BY <1>6 DEF DoorHit
  <2> QED BY <1>1, <1>2, <1>6, <2>1, DoorHitOK, BucketsApart DEF LimitsInv
<1>7. CASE BodyStep
  <2>1. UNCHANGED <<lmNow, lmBucketVars, lmDoorVars>>
    BY <1>7 DEF BodyStep, StartBody, ReceiveChunk, Respond, BodyEnds
  <2> QED BY <1>1, <1>7, <2>1, BodyStepOK, BucketsApart, DoorsApart DEF LimitsInv
<1>8. CASE UNCHANGED lmVars
  <2>1. UNCHANGED <<lmNow, lmBucketVars, lmDoorVars, lmBody>>
    BY <1>8 DEF lmVars
  <2> QED BY <1>1, <1>2, <2>1, BucketsApart, DoorsApart DEF LimitsInv
<1> QED BY <1>3, <1>4, <1>5, <1>6, <1>7, <1>8 DEF BucketStep, DoorStep

LEMMA LimitsFollow == LimitsInv => LimitsHold
<1> SUFFICES ASSUME LimitsInv PROVE LimitsHold
  OBVIOUS
<1>1. BucketsBound
  BY DEF LimitsInv, BucketInv, KeyOK, BucketsBound, Spans, Spaced
<1>2. DoorsBound
  <2>1. ASSUME NEW net, NEW t
        PROVE /\ Cardinality({x \in lmPassed : LmNet[x.c] = net /\ x.t \div LmLong = t \div LmLong}) <= LmLimit
              /\ Cardinality({x \in lmPassed : LmNet[x.c] = net /\ x.t \div LmShort = t \div LmShort}) <= LmBurst
    <3>1. WindowOK("long", t \div LmLong, net) /\ WindowOK("short", t \div LmShort, net)
      BY DEF LimitsInv, DoorInv
    <3> QED BY <3>1 DEF WindowOK, Through, Width, Admits
  <2> QED BY <2>1 DEF DoorsBound
<1>3. BodyBound
  BY LmConstants DEF LimitsInv, BodyInv, BodyBound, NoBody
<1> QED BY <1>1, <1>2, <1>3 DEF LimitsHold

THEOREM LimitsInvariance == LmSpec => []LimitsInv
<1> QED BY LimitsInit, LimitsNext, PTL DEF LmSpec

\* For any clock, rates, keys, settings reloads, proxies and bodies: a key that lost no bucket to the size bound runs no
\* more turns in any stretch than a full bucket and its refill, no network passes a door more often than its window
\* admits, and no body beyond the cap reaches the application (admit_address, _client_bucket, BodyLimitMiddleware).
THEOREM LimitsStayHeld == LmSpec => []LimitsHold
<1> QED BY LimitsInvariance, LimitsFollow, PTL
=============================================================================

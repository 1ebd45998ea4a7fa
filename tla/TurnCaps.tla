------------------------------ MODULE TurnCaps ------------------------------
(***************************************************************************)
(* The per-worker turn caps (conversations/caps.py): the per-thread FIFO   *)
(* with its reservations and locks, and the global concurrency gate whose  *)
(* ceiling may be re-set while turns run and wait.  One asyncio loop: a    *)
(* step is the code between two awaits.                                    *)
(*                                                                         *)
(* A lock object is named by the task whose setdefault made it.            *)
(* asyncio.Lock (external) is modelled by its contract: a released lock    *)
(* stays unlocked until its first waiter resumes, and a newcomer queues    *)
(* behind waiters.                                                         *)
(***************************************************************************)
EXTENDS Integers, Sequences, FiniteSets

CONSTANTS
    Tasks,      \* the turns, in the order their accepts may come
    Threads,
    ThreadOf,   \* the conversation thread of each turn
    None,       \* no lock, no holder
    Depth,      \* settings.thread_queue_depth
    Limits      \* the values max_concurrent_turns takes over reloads

ASSUME CapsConstants ==
    /\ ThreadOf \in [Tasks -> Threads] /\ None \notin Tasks
    /\ Depth \in Nat \ {0} /\ Limits \in SUBSET (Nat \ {0}) /\ Limits # {}

VARIABLES
    at,         \* where each turn is
    reserved,   \* _thread_waiters
    locks,      \* _thread_locks: the lock object of each thread
    mine,       \* the lock object a turn was given
    holder,     \* each lock object's holder
    lockQ,      \* each lock object's waiters
    limit, inFlight, waiters    \* the gate

vars == <<at, reserved, locks, mine, holder, lockQ, limit, inFlight, waiters>>
gateVars == <<limit, inFlight, waiters>>
lockVars == <<locks, mine, holder, lockQ>>

\* A task waiting for its lock, waiting at the gate, admitted but not resumed, running; the
\* cancelled forms of the two gate states are resumed with CancelledError.
InGate   == {"gate", "gateCancelled"}
Admitted == {"admitted", "admittedCancelled", "run"}
Holding  == {"reserved", "lock"} \cup InGate \cup Admitted

TypeOK ==
    /\ at \in [Tasks -> Holding \cup {"new", "done", "refused"}]
    /\ reserved \in [Threads -> Nat]
    /\ locks \in [Threads -> Tasks \cup {None}] /\ mine \in [Tasks -> Tasks \cup {None}]
    /\ holder \in [Tasks -> Tasks \cup {None}] /\ lockQ \in [Tasks -> Seq(Tasks)]
    /\ limit \in Limits /\ inFlight \in Nat /\ waiters \in Seq(Tasks)

Init ==
    /\ at = [t \in Tasks |-> "new"]
    /\ reserved = [h \in Threads |-> 0]
    /\ locks = [h \in Threads |-> None] /\ mine = [t \in Tasks |-> None]
    /\ holder = [t \in Tasks |-> None] /\ lockQ = [t \in Tasks |-> <<>>]
    /\ limit \in Limits /\ inFlight = 0 /\ waiters = <<>>

\* deque.remove, and nothing where it raises; no task is in a queue twice.
Without(s, t) ==
    IF t \notin {s[i] : i \in DOMAIN s} THEN s
    ELSE LET place == CHOOSE i \in DOMAIN s : s[i] = t
         IN [i \in 1..(Len(s) - 1) |-> s[IF i < place THEN i ELSE i + 1]]

----------------------------------------------------------------------------
(* _ConcurrencyGate. *)

\* How many of the first k waiters are not cancelled.
Live(s, k) == Cardinality({i \in 1..k : at[s[i]] = "gate"})

\* How many waiters _admit_waiting pops while places are free, skipping the cancelled ones.
Popped(s, free) ==
    IF free <= 0 THEN 0
    ELSE CHOOSE k \in 0..Len(s) :
            /\ k = Len(s) \/ Live(s, k) = free
            /\ \A j \in 0..(k - 1) : Live(s, j) < free

(* _admit_waiting with `taken` places in use, after the caller's own at0. *)
AdmitWaiting(taken, lim, at0) ==
    LET k == Popped(waiters, lim - taken)
        admitted == {waiters[i] : i \in {j \in 1..k : at[waiters[j]] = "gate"}}
    IN /\ waiters' = SubSeq(waiters, k + 1, Len(waiters))
       /\ inFlight' = taken + Cardinality(admitted)
       /\ at' = [t \in Tasks |-> IF t \in admitted THEN "admitted" ELSE at0[t]]

Acquire(t) ==
    /\ IF waiters = <<>> /\ inFlight < limit
       THEN inFlight' = inFlight + 1 /\ at' = [at EXCEPT ![t] = "run"] /\ UNCHANGED waiters
       ELSE waiters' = Append(waiters, t) /\ at' = [at EXCEPT ![t] = "gate"] /\ UNCHANGED inFlight
    /\ UNCHANGED limit

----------------------------------------------------------------------------
(* The per-thread FIFO. *)

Reserve(t) ==
    LET h == ThreadOf[t] IN
    /\ at[t] = "new"
    /\ IF reserved[h] >= Depth
       THEN at' = [at EXCEPT ![t] = "refused"] /\ UNCHANGED reserved
       ELSE at' = [at EXCEPT ![t] = "reserved"] /\ reserved' = [reserved EXCEPT ![h] = @ + 1]
    /\ UNCHANGED <<lockVars, gateVars>>

\* A plausible mistake: the lock is dropped with the last but one reservation.
MutantReleaseThreadSlot(h, holders) ==
    LET remaining == reserved[h] - 1 IN
    /\ reserved' = [reserved EXCEPT ![h] = IF remaining <= 0 THEN 0 ELSE remaining]
    /\ locks' = IF remaining <= 1 /\ locks[h] # None /\ holders[locks[h]] = None
                THEN [locks EXCEPT ![h] = None] ELSE locks

\* release_thread_slot, with the lock holders as the caller leaves them.
ReleaseThreadSlot(h, holders) ==
    LET remaining == reserved[h] - 1 IN
    /\ reserved' = [reserved EXCEPT ![h] = IF remaining <= 0 THEN 0 ELSE remaining]
    /\ locks' = IF remaining <= 0 /\ locks[h] # None /\ holders[locks[h]] = None
                THEN [locks EXCEPT ![h] = None] ELSE locks

\* An accept that lost its claim gives its reservation back unused.
Abort(t) ==
    /\ at[t] = "reserved"
    /\ at' = [at EXCEPT ![t] = "done"]
    /\ ReleaseThreadSlot(ThreadOf[t], holder)
    /\ UNCHANGED <<mine, holder, lockQ, gateVars>>

\* run_reserved: setdefault, then the lock at once or its queue.
Begin(t) ==
    LET h  == ThreadOf[t]
        lk == IF locks[h] = None THEN t ELSE locks[h]
    IN /\ at[t] = "reserved"
       /\ locks' = [locks EXCEPT ![h] = lk] /\ mine' = [mine EXCEPT ![t] = lk]
       /\ IF holder[lk] = None /\ lockQ[lk] = <<>>
          THEN holder' = [holder EXCEPT ![lk] = t] /\ Acquire(t) /\ UNCHANGED lockQ
          ELSE /\ lockQ' = [lockQ EXCEPT ![lk] = Append(@, t)]
               /\ at' = [at EXCEPT ![t] = "lock"] /\ UNCHANGED <<holder, gateVars>>
       /\ UNCHANGED reserved

\* The first waiter of a released lock resumes, and goes on to the gate.
TakeLock(t) ==
    /\ at[t] = "lock"
    /\ holder[mine[t]] = None /\ Head(lockQ[mine[t]]) = t
    /\ holder' = [holder EXCEPT ![mine[t]] = t]
    /\ lockQ' = [lockQ EXCEPT ![mine[t]] = Tail(@)]
    /\ Acquire(t)
    /\ UNCHANGED <<reserved, locks, mine>>

ResumeAdmitted(t) ==
    /\ at[t] = "admitted"
    /\ at' = [at EXCEPT ![t] = "run"]
    /\ UNCHANGED <<reserved, lockVars, gateVars>>

\* Leaving the body or the admitted wait: gate, lock and reservation, in that order.
Leave(t) ==
    LET freed == [holder EXCEPT ![mine[t]] = None] IN
    /\ holder' = freed /\ UNCHANGED <<mine, lockQ, limit>>
    /\ ReleaseThreadSlot(ThreadOf[t], freed)

Finish(t) ==
    /\ at[t] \in {"run", "admittedCancelled"}
    /\ AdmitWaiting(inFlight - 1, limit, [at EXCEPT ![t] = "done"])
    /\ Leave(t)

\* A plausible mistake: a queued turn that is cancelled stays in the lock's queue.
MutantCancel(t) ==
    \/ /\ at[t] = "lock"
       /\ at' = [at EXCEPT ![t] = "done"]
       /\ ReleaseThreadSlot(ThreadOf[t], holder)
       /\ UNCHANGED <<mine, holder, lockQ, gateVars>>
    \/ /\ at[t] \in {"gate", "admitted"}
       /\ at' = [at EXCEPT ![t] = IF @ = "gate" THEN "gateCancelled" ELSE "admittedCancelled"]
       /\ UNCHANGED <<reserved, lockVars, gateVars>>

\* Cancellation: a queued turn leaves its queue; at the gate the CancelledError comes later.
Cancel(t) ==
    \/ /\ at[t] = "lock"
       /\ at' = [at EXCEPT ![t] = "done"]
       /\ lockQ' = [lockQ EXCEPT ![mine[t]] = Without(@, t)]
       /\ ReleaseThreadSlot(ThreadOf[t], holder)
       /\ UNCHANGED <<mine, holder, gateVars>>
    \/ /\ at[t] \in {"gate", "admitted"}
       /\ at' = [at EXCEPT ![t] = IF @ = "gate" THEN "gateCancelled" ELSE "admittedCancelled"]
       /\ UNCHANGED <<reserved, lockVars, gateVars>>

ResumeCancelled(t) ==
    /\ at[t] = "gateCancelled"
    /\ at' = [at EXCEPT ![t] = "done"]
    /\ waiters' = Without(waiters, t)
    /\ UNCHANGED inFlight
    /\ Leave(t)

\* reconfigure: the live gate adopts the new ceiling.
SetLimit(n) ==
    /\ n # limit /\ limit' = n
    /\ AdmitWaiting(inFlight, n, at)
    /\ UNCHANGED <<reserved, lockVars>>

(* What the loop does for a task: it runs when it is ready.                  *)
Scheduled(t) == Begin(t) \/ Abort(t) \/ TakeLock(t) \/ ResumeAdmitted(t) \/ Finish(t) \/ ResumeCancelled(t)

Next == (\E t \in Tasks : Reserve(t) \/ Scheduled(t) \/ Cancel(t)) \/ \E n \in Limits : SetLimit(n)

Spec == Init /\ [][Next]_vars

(* Ready tasks are resumed and running turns end (they are bounded by their own timeout). *)
Fairness == \A t \in Tasks : WF_vars(Scheduled(t))

FairSpec == Spec /\ Fairness

----------------------------------------------------------------------------
(* Properties. *)

(* The ceiling counts exactly the turns admitted and not yet gone, the one admitted and
   cancelled at the same moment included: no path leaks a place or gives one back twice. *)
GateExact == inFlight = Cardinality({t \in Tasks : at[t] \in Admitted})

(* No lost wake-up: while a live turn waits at the gate, every place is in use. *)
NoIdlePlace == (\E t \in Tasks : at[t] = "gate") => inFlight >= limit

(* "every turn in flight would lose its serialization": the turns of one thread run one at a
   time, although its lock object is dropped and made again. *)
ThreadSerial ==
    \A t, u \in Tasks : t # u /\ ThreadOf[t] = ThreadOf[u]
        => ~(at[t] \in InGate \cup Admitted /\ at[u] \in InGate \cup Admitted)

(* Reservations are exact, within the depth, and a drained thread keeps no map entry. *)
ReservationsExact ==
    \A h \in Threads :
        /\ reserved[h] = Cardinality({t \in Tasks : ThreadOf[t] = h /\ at[t] \in Holding})
        /\ reserved[h] <= Depth
        /\ reserved[h] = 0 => locks[h] = None

(* A turn that took a place in the FIFO runs or is called off: nobody waits forever behind a
   cancelled or finished turn. *)
TurnsProceed == <>[](\A t \in Tasks : at[t] \notin Holding)

(* The caps' invariant: gate and reservations are exact and no place stays idle. *)
CapsConsistent == TypeOK /\ GateExact /\ NoIdlePlace /\ ReservationsExact

\* caps.py keeps its two counts: the places of the gate, and one turn per thread.
CapsSound == CapsConsistent /\ ThreadSerial
=============================================================================

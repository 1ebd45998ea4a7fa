------------------------------ MODULE ToolRuns ------------------------------
(***************************************************************************)
(* Background tool runs (operations/tool_runs.py): the submit door and its *)
(* capacity count, one supervisor task per run, the liveness key it keeps  *)
(* alive in Redis, and the readers that declare a run lost.  The record's  *)
(* terminal write is a compare-and-set script; everything between two      *)
(* Redis calls may interleave.  A key may expire at any moment: a refresh  *)
(* can fail and the loop can stall.  The record of a run that outlives its *)
(* time to live is gone too.                                               *)
(***************************************************************************)
EXTENDS Integers, FiniteSets, Sequences, SequencesExt, FiniteSetsExt

CONSTANTS
    TrRuns,       \* run ids
    TrUsers,      \* identities that submit
    TrReaders,    \* reads in progress at once
    MaxActive,    \* max_concurrent_runs
    RecentLimit,  \* recent_runs_limit
    MaxTrStops    \* bound: shutdowns, crashes and expiries of an index

ASSUME TrConstants ==
    /\ MaxActive \in Nat /\ RecentLimit \in Nat /\ MaxTrStops \in Nat
    /\ "shared" \notin TrUsers

VARIABLES
    trRec,        \* run -> the status its record shows, "none" without one
    trLive,       \* runs whose liveness key is present
    trRecent,     \* index -> its run ids; one index per identity and the shared one
    trPhase,      \* run -> what the process is doing about it
    trActive,     \* _ACTIVE_RUNS
    trDraining,   \* the shutdown handler has cancelled the supervisors
    trRead,       \* reader -> its read
    trOrder,      \* submissions in the order of their start, <<run, owner>>
    trSaid,       \* run -> terminal statuses readers were given (history)
    trAged,       \* runs whose record expired (history)
    trUnlisted,   \* finished runs whose identity's index expired before them (history)
    trLeaked,     \* slots of submissions cancelled before their supervisor (history)
    trLeft        \* bound: shutdowns, crashes and expiries of an index left

trVars == <<trRec, trLive, trRecent, trPhase, trActive, trDraining, trRead, trOrder, trSaid, trAged, trUnlisted, trLeaked, trLeft>>

Shared == "shared"
Terminal == {"succeeded", "failed", "lost"}
NoRead == [step |-> "idle"]
Supervised == {"tool", "succeeded", "failed"}  \* running, or about to write that status
OwnsSlot == {"reserved", "recorded"} \cup Supervised

TrInit ==
    /\ trRec = [r \in TrRuns |-> "none"]
    /\ trLive = {} /\ trAged = {} /\ trUnlisted = {} /\ trOrder = <<>>
    /\ trRecent = [k \in TrUsers \cup {Shared} |-> {}]
    /\ trPhase = [r \in TrRuns |-> "unused"]
    /\ trActive = 0 /\ trLeaked = 0 /\ trDraining = FALSE
    /\ trRead = [q \in TrReaders |-> NoRead]
    /\ trSaid = [r \in TrRuns |-> {}]
    /\ trLeft = MaxTrStops

Phase(r, x) == trPhase' = [trPhase EXCEPT ![r] = x]
StartedAt(r) == CHOOSE i \in DOMAIN trOrder : trOrder[i][1] = r
Owner(r) == trOrder[StartedAt(r)][2]
Newest(S, n) == {r \in S : Cardinality({x \in S : StartedAt(x) > StartedAt(r)}) < n}

(* submit_run: the capacity check and the increment are one step,           *)
SubmitRun(r, u) ==
    /\ ~trDraining /\ trPhase[r] = "unused" /\ trActive < MaxActive
    /\ trActive' = trActive + 1
    /\ Phase(r, "reserved")
    /\ trOrder' = Append(trOrder, <<r, u>>)
    /\ UNCHANGED <<trRec, trLive, trRecent, trDraining, trRead, trSaid, trAged, trUnlisted, trLeaked, trLeft>>

Trimmed(S) == Newest(S, RecentLimit)

(* then create_run's pipeline writes the record, its liveness key and the   *)
(* two indexes,                                                            *)
CreateRun(r) ==
    /\ trPhase[r] = "reserved"
    /\ trRec' = [trRec EXCEPT ![r] = "running"]
    /\ trLive' = trLive \cup {r}
    /\ trRecent' = [k \in DOMAIN trRecent |->
                       IF k \in {Shared, Owner(r)} THEN Trimmed(trRecent[k] \cup {r}) ELSE trRecent[k]]
    /\ Phase(r, "recorded")
    /\ UNCHANGED <<trActive, trDraining, trRead, trOrder, trSaid, trAged, trUnlisted, trLeaked, trLeft>>

(* and the supervisor is spawned.                                           *)
SpawnSupervisor(r) ==
    /\ trPhase[r] = "recorded"
    /\ Phase(r, "tool")
    /\ UNCHANGED <<trRec, trLive, trRecent, trActive, trDraining, trRead, trOrder, trSaid, trAged, trUnlisted, trLeaked, trLeft>>

(* The done-callback: the slot goes back, whatever became of the run.       *)
ReturnSlot(n) == trActive - n

(* An error before the spawn returns the slot; a cancellation is no         *)
(* Exception and keeps it.                                                 *)
SubmitFails(r, cancelled) ==
    /\ trPhase[r] \in {"reserved", "recorded"}
    /\ Phase(r, "ended")
    /\ IF cancelled THEN UNCHANGED trActive /\ trLeaked' = trLeaked + 1
                    ELSE trActive' = ReturnSlot(1) /\ UNCHANGED trLeaked
    /\ UNCHANGED <<trRec, trLive, trRecent, trDraining, trRead, trOrder, trSaid, trAged, trUnlisted, trLeft>>

(* _refresh_liveness_loop, until the supervisor's finally cancels it.       *)
RefreshLiveness(r) ==
    /\ trPhase[r] \in Supervised /\ r \notin trLive
    /\ trLive' = trLive \cup {r}
    /\ UNCHANGED <<trRec, trRecent, trPhase, trActive, trDraining, trRead, trOrder, trSaid, trAged, trUnlisted, trLeaked, trLeft>>

LivenessExpires(r) ==
    /\ r \in trLive
    /\ trLive' = trLive \ {r}
    /\ UNCHANGED <<trRec, trRecent, trPhase, trActive, trDraining, trRead, trOrder, trSaid, trAged, trUnlisted, trLeaked, trLeft>>

RecordExpires(r) ==
    /\ trRec[r] # "none"
    /\ trRec' = [trRec EXCEPT ![r] = "none"]
    /\ trAged' = trAged \cup {r} /\ trUnlisted' = trUnlisted \ {r}
    /\ UNCHANGED <<trLive, trRecent, trPhase, trActive, trDraining, trRead, trOrder, trSaid, trLeaked, trLeft>>

(* The time to live of an index counts from the last submission to it, that *)
(* of a record from its terminal write once there is one: an index may      *)
(* expire before the record of a run that took long, and not before that of *)
(* a run which is still to end.                                            *)
Listed(k) == {r \in TrRuns : trRec[r] # "none" /\ k \in {Shared, Owner(r)}}

IndexExpires(k) ==
    /\ trLeft > 0 /\ trLeft' = trLeft - 1
    /\ trRecent[k] # {} /\ \A r \in Listed(k) : trRec[r] # "running"
    /\ trRecent' = [trRecent EXCEPT ![k] = {}]
    /\ trUnlisted' = IF k = Shared THEN trUnlisted ELSE trUnlisted \cup Listed(k)
    /\ UNCHANGED <<trRec, trLive, trPhase, trActive, trDraining, trRead, trOrder, trSaid, trAged, trLeaked>>

ToolEnds(r, status) ==
    /\ trPhase[r] = "tool" /\ ~trDraining
    /\ Phase(r, status)
    /\ UNCHANGED <<trRec, trLive, trRecent, trActive, trDraining, trRead, trOrder, trSaid, trAged, trUnlisted, trLeaked, trLeft>>

\* A plausible mistake: the record is only required to exist.
MutantMarkTerminal(r, status) == IF trRec[r] # "none" THEN [trRec EXCEPT ![r] = status] ELSE trRec

(* The script: a record that is no longer running is left as it is.         *)
MarkTerminal(r, status) == IF trRec[r] = "running" THEN [trRec EXCEPT ![r] = status] ELSE trRec

(* The supervisor's write, or its failure, and the callback that returns    *)
(* the slot.                                                               *)
SupervisorDone(r, written) ==
    /\ trPhase[r] \in {"succeeded", "failed"}
    /\ trRec' = IF written THEN MarkTerminal(r, trPhase[r]) ELSE trRec
    /\ Phase(r, "ended")
    /\ trActive' = ReturnSlot(1)
    /\ UNCHANGED <<trLive, trRecent, trDraining, trRead, trOrder, trSaid, trAged, trUnlisted, trLeaked, trLeft>>

(* _drain_supervisors: a run in its tool goes on to record the shutdown,    *)
(* one already writing ends where it is.                                   *)
Drain ==
    /\ ~trDraining /\ trLeft > 0
    /\ trDraining' = TRUE
    /\ trPhase' = [r \in TrRuns |-> CASE trPhase[r] = "tool" -> "failed"
                                     [] trPhase[r] \in {"succeeded", "failed"} -> "ended"
                                     [] OTHER -> trPhase[r]]
    /\ trActive' = ReturnSlot(Cardinality({r \in TrRuns : trPhase[r] \in {"succeeded", "failed"}}))
    /\ trLeft' = trLeft - 1
    /\ UNCHANGED <<trRec, trLive, trRecent, trRead, trOrder, trSaid, trAged, trUnlisted, trLeaked>>

(* The process goes, after the drain's time is up or in a crash, and another *)
(* takes its place.                                                        *)
ProcessGone ==
    /\ trDraining \/ trLeft > 0
    /\ trLeft' = IF trDraining THEN trLeft ELSE trLeft - 1
    /\ trDraining' = FALSE
    /\ trPhase' = [r \in TrRuns |-> IF trPhase[r] \in OwnsSlot THEN "ended" ELSE trPhase[r]]
    /\ trActive' = 0 /\ trLeaked' = 0
    /\ UNCHANGED <<trRec, trLive, trRecent, trRead, trOrder, trSaid, trAged, trUnlisted>>

----------------------------------------------------------------------------
(* A read: get_run has one id, list_tool_runs those of an index.  The       *)
(* records come in one round trip; a listed id without one is pruned,      *)
Fetch(q, index, ids) ==
    /\ trRead[q] = NoRead
    /\ LET there == {r \in ids : trRec[r] # "none"} IN
       /\ trRead' = [trRead EXCEPT ![q] = IF there = {} THEN NoRead
                        ELSE [step |-> "alive", seen |-> [r \in there |-> trRec[r]], alive |-> {}]]
       /\ trRecent' = IF index \in DOMAIN trRecent THEN [trRecent EXCEPT ![index] = @ \ (ids \ there)] ELSE trRecent
    /\ UNCHANGED <<trRec, trLive, trPhase, trActive, trDraining, trOrder, trSaid, trAged, trUnlisted, trLeaked, trLeft>>

GetRun(q, r) == Fetch(q, "by id", {r})
ListRuns(q, k) == trRecent[k] # {} /\ Fetch(q, k, trRecent[k])

MutantAlive(seen) == DOMAIN seen  \* a plausible mistake: what says it is running is running

Alive(seen) == {r \in DOMAIN seen : seen[r] # "running" \/ r \in trLive}

(* then the liveness keys of those still running,                           *)
ReadLiveness(q) ==
    /\ trRead[q].step = "alive"
    /\ trRead' = [trRead EXCEPT ![q].step = "settle",
                     ![q].alive = Alive(trRead[q].seen)]
    /\ UNCHANGED <<trRec, trLive, trRecent, trPhase, trActive, trDraining, trOrder, trSaid, trAged, trUnlisted, trLeaked, trLeft>>

(* and what each read says: the status read when it was terminal or alive,  *)
(* lost when the compare-and-set wrote it, else the record read again.      *)

Says(q, r) ==
    IF r \in trRead[q].alive THEN trRead[q].seen[r]
    ELSE IF MarkTerminal(r, "lost")[r] = "lost" THEN "lost"
    ELSE IF trRec[r] # "none" THEN trRec[r] ELSE trRead[q].seen[r]

Reconcile(q, r) ==
    LET rest == [x \in DOMAIN trRead[q].seen \ {r} |-> trRead[q].seen[x]] IN
    /\ trRead[q].step = "settle" /\ r \in DOMAIN trRead[q].seen
    /\ trRec' = IF r \in trRead[q].alive THEN trRec ELSE MarkTerminal(r, "lost")
    /\ trSaid' = [trSaid EXCEPT ![r] = @ \cup ({Says(q, r)} \cap Terminal)]
    /\ trRead' = [trRead EXCEPT ![q] = IF DOMAIN rest = {} THEN NoRead ELSE [@ EXCEPT !.seen = rest]]
    /\ UNCHANGED <<trLive, trRecent, trPhase, trActive, trDraining, trOrder, trAged, trUnlisted, trLeaked, trLeft>>

ReaderSteps(q) == ReadLiveness(q) \/ \E r \in TrRuns : Reconcile(q, r)

TrNext ==
    \/ \E r \in TrRuns :
          \/ \E u \in TrUsers : SubmitRun(r, u)
          \/ CreateRun(r) \/ SpawnSupervisor(r) \/ RefreshLiveness(r) \/ LivenessExpires(r) \/ RecordExpires(r)
          \/ \E b \in BOOLEAN : SubmitFails(r, b) \/ SupervisorDone(r, b)
          \/ \E status \in {"succeeded", "failed"} : ToolEnds(r, status)
          \/ \E q \in TrReaders : GetRun(q, r)
    \/ \E k \in TrUsers \cup {Shared} : IndexExpires(k)
    \/ \E q \in TrReaders : ReaderSteps(q) \/ \E k \in TrUsers \cup {Shared} : ListRuns(q, k)
    \/ Drain \/ ProcessGone

TrSpec == TrInit /\ [][TrNext]_trVars

(* A key nobody refreshes expires, a read that was begun goes on, and some  *)
(* client keeps asking for every run.                                      *)
TrFairness ==
    \A r \in TrRuns :
        /\ WF_trVars(trPhase[r] \notin Supervised /\ LivenessExpires(r))
        /\ \A q \in TrReaders : WF_trVars(ReaderSteps(q)) /\ SF_trVars(GetRun(q, r))

----------------------------------------------------------------------------
(* What a run came to is settled once: the supervisor's outcome, the        *)
(* shutdown's and a reader's "lost" never replace one another, and a record *)
(* that has gone does not come back.                                       *)
RunsSettleOnce ==
    [][\A r \in TrRuns :
          /\ trRec[r] \in Terminal => trRec'[r] \in {trRec[r], "none"}
          /\ r \in trAged => trRec'[r] = "none"]_trVars

(* Readers never disagree about how a run ended, however their reads race    *)
(* the supervisor: every terminal status handed out is the one on record.    *)
AnswersAgree ==
    \A r \in TrRuns :
        /\ Cardinality(trSaid[r]) <= 1
        /\ trSaid[r] # {} => trRec[r] \in trSaid[r] \cup {"none"}

(* The capacity count is the submissions and supervisors there are, plus    *)
(* the slots of submissions cancelled before they had a supervisor, so it   *)
(* neither admits more runs than the limit nor forgets to admit one.         *)
SlotsAccounted ==
    /\ trActive = trLeaked + Cardinality({r \in TrRuns : trPhase[r] \in OwnsSlot})
    /\ Cardinality({r \in TrRuns : trPhase[r] \in Supervised}) <= MaxActive

\* The runs of an identity that have, or had, a record.
Mine(u) == {r \in TrRuns : (trRec[r] # "none" \/ r \in trAged) /\ Owner(r) = u}

\* A run that ended, whose record outlived the index that showed it.
Outlived(r) == trRec[r] \in Terminal /\ r \in trUnlisted

(* An identity finds its newest runs in its own index, whatever the others  *)
(* submitted and readers pruned meanwhile, as long as their records are     *)
(* there: one that is still running always, one that ended unless the       *)
(* index, last submitted to before it ended, has run out under it.          *)
WindowComplete ==
    \A u \in TrUsers : \A r \in Newest(Mine(u), RecentLimit) :
        trRec[r] # "none" => r \in trRecent[u] \/ Outlived(r)

(* Nobody is left waiting for a run whose supervisor has gone: with readers *)
(* coming back, it ends up settled, lost at the latest, or its record       *)
(* expires.                                                                *)
OrphansSettle ==
    \A r \in TrRuns : (trRec[r] = "running" /\ trPhase[r] = "ended") ~> (trRec[r] # "running")

\* tool_runs.py accounts for its runs: one answer to every reader, one slot each, and a window
\* of recent runs that misses none whose index outlives it.
RunsAccounted == AnswersAgree /\ SlotsAccounted /\ WindowComplete
=============================================================================

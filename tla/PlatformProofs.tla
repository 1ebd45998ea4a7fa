--------------------------- MODULE PlatformProofs ---------------------------
(***************************************************************************)
(* Three components of the platform, for any number of runs, users, slugs, *)
(* requests, workers and children.                                         *)
(*                                                                         *)
(* The run table accounts for every run. What makes it inductive is that a *)
(* run has one end (OneEnd): whatever a reader was told, a read in         *)
(* progress has seen or the record shows, it is the same terminal status,  *)
(* and there is none as long as the record is running; and that a run      *)
(* enters an index only after it was counted in the order of submissions   *)
(* (Ordered, Indexed).                                                     *)
(*                                                                         *)
(* A sub-MCP application is the one of the stored config. A token is       *)
(* captured with a config and compared after the build, so what has to be  *)
(* shown is that a token that still stands was never given again: tokens   *)
(* only grow, every change of a slug takes a new one, and one request      *)
(* builds at a time (Builds). What is bound is what is stored because      *)
(* every config in flight, a request's or a writer's, is the stored one as *)
(* long as its slug does not count as stale (Reads, Writes).               *)
(*                                                                         *)
(* A fleet operation is honest. What a connected worker does not run with  *)
(* yet is in its queue or will be read by the reload it is at (Known), no  *)
(* version in flight is newer than the stored one and a message carries    *)
(* the base of the request it names (Versioned), a reload that has read    *)
(* holds its gate and read nothing older than what is loaded (Gated), and  *)
(* who is said to have applied a request runs with it (ForOp, ForRequest,  *)
(* Applied).                                                               *)
(***************************************************************************)
EXTENDS ToolRuns, SubMcp, FleetReload, FiniteSetTheorems, WellFoundedInduction, TLAPS

----------------------------------------------------------------------------
(* Tool runs. *)

Records == {"none", "running"} \cup Terminal
Phases == {"unused", "ended"} \cup OwnsSlot
Started == {r \in TrRuns : trPhase[r] # "unused"}
Created == {r \in TrRuns : trPhase[r] \notin {"unused", "reserved"}}
Slots == {r \in TrRuns : trPhase[r] \in OwnsSlot}

\* What a read has seen of the runs it asked for.
Seens == UNION {[S -> Records \ {"none"}] : S \in SUBSET TrRuns}
ReadStates == [step : {"alive", "settle"}, seen : Seens, alive : SUBSET TrRuns]

TrTypes ==
    /\ trRec \in [TrRuns -> Records] /\ trPhase \in [TrRuns -> Phases]
    /\ trLive \in SUBSET TrRuns /\ trAged \in SUBSET TrRuns
    /\ trRecent \in [TrUsers \cup {Shared} -> SUBSET TrRuns]
    /\ trOrder \in Seq(TrRuns \X TrUsers)
    /\ trActive \in Int /\ trLeaked \in Nat
    /\ trSaid \in [TrRuns -> SUBSET Terminal]
    /\ trRead \in [TrReaders -> ReadStates \cup {NoRead}]

\* Every run that was submitted is in the order of submissions, once.
Ordered ==
    /\ \A r \in Started : \E i \in DOMAIN trOrder : trOrder[i][1] = r
    /\ \A i \in DOMAIN trOrder : trOrder[i][1] \in Started
    /\ \A i, j \in DOMAIN trOrder : trOrder[i][1] = trOrder[j][1] => i = j
    /\ IsFiniteSet(Started)

\* A record is written once its run was submitted, and one that expired is gone.
Recorded ==
    /\ \A r \in TrRuns : trRec[r] # "none" => r \in Created /\ r \notin trAged
    /\ \A r \in trAged : r \in Created
    /\ \A q \in TrReaders : trRead[q] # NoRead => DOMAIN trRead[q].seen \subseteq Created

\* The status a reader was given, is about to be given or would read now.
Seen(q, r, x) == trRead[q] # NoRead /\ r \in DOMAIN trRead[q].seen /\ trRead[q].seen[r] = x
EndsAs(r, x) == x \in Terminal /\ (x \in trSaid[r] \/ trRec[r] = x \/ \E q \in TrReaders : Seen(q, r, x))

\* A run has one end, and none while its record is running or unwritten.
OneEnd ==
    /\ \A r \in TrRuns, x, y \in Terminal : EndsAs(r, x) /\ EndsAs(r, y) => x = y
    /\ \A r \in TrRuns, x \in Terminal : EndsAs(r, x) => trRec[r] # "running" /\ r \in Created

\* A read doubts only what it saw running.
Doubts ==
    \A q \in TrReaders : trRead[q].step = "settle" =>
        \A r \in DOMAIN trRead[q].seen : r \notin trRead[q].alive => trRead[q].seen[r] = "running"

SlotsTaken == IsFiniteSet(Slots) /\ trActive = trLeaked + Cardinality(Slots) /\ trActive <= MaxActive

\* The index of an identity lists only its own runs.
Indexed == \A u \in TrUsers : trRecent[u] \subseteq Mine(u)

\* The inductive invariant.
TrInv == TrTypes /\ Ordered /\ Recorded /\ OneEnd /\ Doubts /\ SlotsTaken /\ Indexed /\ WindowComplete

----------------------------------------------------------------------------
(* What the definitions come to. *)

LEMMA RunTypes ==
    ASSUME TrInv
    PROVE  /\ trRec \in [TrRuns -> Records] /\ trPhase \in [TrRuns -> Phases]
           /\ trRecent \in [TrUsers \cup {Shared} -> SUBSET TrRuns] /\ Shared \notin TrUsers
           /\ trActive \in Int /\ trLeaked \in Nat /\ MaxActive \in Nat /\ RecentLimit \in Nat
           /\ trRead \in [TrReaders -> ReadStates \cup {NoRead}] /\ trSaid \in [TrRuns -> SUBSET Terminal]
           /\ trAged \in SUBSET TrRuns
BY TrConstants DEF TrInv, TrTypes, Shared

\* A read in progress.
LEMMA ReadTypes ==
    ASSUME TrInv, NEW q \in TrReaders, trRead[q] # NoRead
    PROVE  /\ trRead[q] \in ReadStates /\ trRead[q].step \in {"alive", "settle"} /\ trRead[q].alive \in SUBSET TrRuns
           /\ trRead[q].seen \in Seens
           /\ DOMAIN trRead[q].seen \in SUBSET TrRuns
           /\ \A r \in DOMAIN trRead[q].seen : trRead[q].seen[r] \in Records \ {"none"}
<1>1. trRead[q] \in ReadStates
  BY RunTypes
<1>2. trRead[q].seen \in Seens /\ trRead[q].step \in {"alive", "settle"} /\ trRead[q].alive \in SUBSET TrRuns
  BY <1>1 DEF ReadStates
<1>3. PICK S \in SUBSET TrRuns : trRead[q].seen \in [S -> Records \ {"none"}]
  BY <1>2 DEF Seens
<1> QED BY <1>1, <1>2, <1>3

LEMMA NoReadFacts == NoRead.step = "idle" /\ NoRead \notin ReadStates
BY DEF NoRead, ReadStates

\* A submitted run has its place in the order of submissions.
LEMMA Place ==
    ASSUME TrInv, NEW r \in Started
    PROVE  StartedAt(r) \in DOMAIN trOrder /\ trOrder[StartedAt(r)][1] = r /\ Owner(r) \in TrUsers
<1>1. \E i \in DOMAIN trOrder : trOrder[i][1] = r
  BY DEF TrInv, Ordered
<1>2. StartedAt(r) \in DOMAIN trOrder /\ trOrder[StartedAt(r)][1] = r
  BY <1>1 DEF StartedAt
<1>3. trOrder[StartedAt(r)] \in TrRuns \X TrUsers
  BY <1>2 DEF TrInv, TrTypes
<1> QED BY <1>2, <1>3 DEF Owner

\* Mine of one user, as far as anybody can count it.
LEMMA MineFacts ==
    ASSUME TrInv, NEW u \in TrUsers
    PROVE  Mine(u) \subseteq Created /\ Created \subseteq Started /\ IsFiniteSet(Mine(u)) /\ IsFiniteSet(Created)
<1>1. Mine(u) \subseteq Created /\ Created \subseteq Started
  BY DEF TrInv, Recorded, Mine, Created, Started
<1>2. IsFiniteSet(Started)
  BY DEF TrInv, Ordered
<1> QED BY <1>1, <1>2, FS_Subset

----------------------------------------------------------------------------
(* What keeps each part. *)

\* The order: nobody is submitted.
LEMMA OrderKept ==
    ASSUME TrInv, UNCHANGED trOrder, Started' = Started
    PROVE  Ordered'
BY DEF TrInv, Ordered

\* The windows: no run enters an index, and one that leaves has lost its record.
LEMMA WindowKept ==
    ASSUME TrInv, UNCHANGED trOrder,
           \A r \in TrRuns : (trRec'[r] # "none" \/ r \in trAged') <=> (trRec[r] # "none" \/ r \in trAged),
           \A r \in TrRuns : trRec'[r] # "none" => trRec[r] # "none",
           \A u \in TrUsers : trRecent'[u] \subseteq trRecent[u],
           \A u \in TrUsers : \A r \in trRecent[u] : trRec'[r] # "none" => r \in trRecent'[u] \/ Outlived(r)',
           \A r \in TrRuns : Outlived(r) /\ trRec'[r] # "none" => Outlived(r)'
    PROVE  Indexed' /\ WindowComplete'
<1>1. \A r : StartedAt(r)' = StartedAt(r) /\ Owner(r)' = Owner(r)
  BY DEF StartedAt, Owner
<1>2. \A u \in TrUsers : Mine(u)' = Mine(u)
  BY <1>1 DEF Mine
<1>3. \A u \in TrUsers : Newest(Mine(u), RecentLimit)' = Newest(Mine(u), RecentLimit)
  BY <1>1, <1>2 DEF Newest
<1>4. Indexed'
  BY <1>2 DEF TrInv, Indexed
<1>5. ASSUME NEW u \in TrUsers, NEW r \in Newest(Mine(u), RecentLimit), trRec'[r] # "none"
      PROVE  r \in trRecent'[u] \/ Outlived(r)'
  <2>1. r \in TrRuns /\ trRec[r] # "none"
    BY <1>5 DEF Mine, Newest
  <2>2. r \in trRecent[u] \/ Outlived(r)
    BY <1>5, <2>1 DEF TrInv, WindowComplete
  <2> QED BY <1>5, <2>1, <2>2
<1>6. WindowComplete'
  <2>1. \A u \in TrUsers : \A r \in Newest(Mine(u), RecentLimit)' :
            trRec'[r] # "none" => r \in trRecent'[u] \/ Outlived(r)'
    BY <1>3, <1>5
  <2> QED BY <2>1 DEF WindowComplete
<1> QED BY <1>4, <1>6

\* The ends: nobody learns of a new one.
LEMMA EndsKept ==
    ASSUME TrInv, Created \subseteq Created',
           \A r \in TrRuns, x \in Terminal : EndsAs(r, x)' => EndsAs(r, x),
           \A r \in TrRuns : trRec'[r] = "running" => trRec[r] = "running" \/ r \notin Created
    PROVE  OneEnd'
BY DEF TrInv, OneEnd

\* The slots: one is taken, one is given back, none is touched.
LEMMA SlotIn ==
    ASSUME TrInv, NEW r \in TrRuns, r \notin Slots, Slots' = Slots \cup {r}, trActive < MaxActive,
           trActive' = trActive + 1, UNCHANGED trLeaked
    PROVE  SlotsTaken'
<1>1. IsFiniteSet(Slots) /\ Cardinality(Slots) \in Nat
  BY FS_CardinalityType DEF TrInv, SlotsTaken
<1>2. IsFiniteSet(Slots') /\ Cardinality(Slots') = Cardinality(Slots) + 1
  BY <1>1, FS_AddElement
<1> QED BY <1>1, <1>2, RunTypes DEF TrInv, SlotsTaken

LEMMA SlotOut ==
    ASSUME TrInv, NEW r \in Slots, Slots' = Slots \ {r},
           \/ trActive' = trActive - 1 /\ UNCHANGED trLeaked
           \/ UNCHANGED trActive /\ trLeaked' = trLeaked + 1
    PROVE  SlotsTaken'
<1>1. IsFiniteSet(Slots) /\ Cardinality(Slots) \in Nat
  BY FS_CardinalityType DEF TrInv, SlotsTaken
<1>2. IsFiniteSet(Slots') /\ Cardinality(Slots') = Cardinality(Slots) - 1
  BY <1>1, FS_RemoveElement
<1> QED BY <1>1, <1>2, RunTypes DEF TrInv, SlotsTaken

LEMMA SlotsSame ==
    ASSUME TrInv, Slots' = Slots, UNCHANGED <<trActive, trLeaked>>
    PROVE  SlotsTaken'
BY DEF TrInv, SlotsTaken

----------------------------------------------------------------------------
(* The invariant, step by step. *)

\* submit_run admits a run.
LEMMA SubmitRunInv ==
    ASSUME TrInv, NEW r \in TrRuns, NEW u \in TrUsers, SubmitRun(r, u)
    PROVE  TrInv'
<1>1. Started' = Started \cup {r} /\ Created' = Created /\ Slots' = Slots \cup {r} /\ r \notin Started
  BY RunTypes DEF SubmitRun, Phase, Started, Created, Slots, OwnsSlot, Supervised
<1>2. /\ trOrder \in Seq(TrRuns \X TrUsers) /\ trOrder' = Append(trOrder, <<r, u>>) /\ trOrder' \in Seq(TrRuns \X TrUsers)
      /\ DOMAIN trOrder = 1..Len(trOrder) /\ DOMAIN trOrder' = 1..(Len(trOrder) + 1) /\ Len(trOrder) \in Nat
      /\ trOrder'[Len(trOrder) + 1] = <<r, u>> /\ \A i \in 1..Len(trOrder) : trOrder'[i] = trOrder[i]
  <2>1. trOrder \in Seq(TrRuns \X TrUsers) /\ <<r, u>> \in TrRuns \X TrUsers /\ trOrder' = Append(trOrder, <<r, u>>)
    BY DEF TrInv, TrTypes, SubmitRun
  <2> QED BY <2>1
<1>3. TrTypes'
  <2>1. trPhase' \in [TrRuns -> Phases]
    BY RunTypes DEF SubmitRun, Phase, Phases, OwnsSlot
  <2> QED BY <1>2, <2>1, RunTypes DEF TrInv, TrTypes, SubmitRun
<1>4. Ordered'
  <2>1. IsFiniteSet(Started')
    BY <1>1, FS_AddElement DEF TrInv, Ordered
  <2>2. \A i \in DOMAIN trOrder' : trOrder'[i][1] \in Started'
    BY <1>1, <1>2 DEF TrInv, Ordered
  <2>3. \A x \in Started' : \E i \in DOMAIN trOrder' : trOrder'[i][1] = x
    <3>1. trOrder'[Len(trOrder) + 1][1] = r /\ Len(trOrder) + 1 \in DOMAIN trOrder'
      BY <1>2
    <3>2. \A x \in Started : \E i \in 1..Len(trOrder) : trOrder[i][1] = x
      BY <1>2 DEF TrInv, Ordered
    <3> QED BY <1>1, <1>2, <3>1, <3>2
  <2>4. ASSUME NEW i \in DOMAIN trOrder', NEW j \in DOMAIN trOrder', trOrder'[i][1] = trOrder'[j][1]
        PROVE  i = j
    <3>1. \A k \in 1..Len(trOrder) : trOrder[k][1] # r
      BY <1>1, <1>2 DEF TrInv, Ordered
    <3>2. \A k, l \in 1..Len(trOrder) : trOrder[k][1] = trOrder[l][1] => k = l
      BY <1>2 DEF TrInv, Ordered
    <3>3. trOrder'[Len(trOrder) + 1][1] = r
      BY <1>2
    <3> QED BY <1>2, <2>4, <3>1, <3>2, <3>3
  <2> QED BY <2>1, <2>2, <2>3, <2>4 DEF Ordered
<1>5. Recorded' /\ OneEnd' /\ Doubts'
  <2>1. UNCHANGED <<trRec, trRead, trAged, trSaid>>
    BY DEF SubmitRun
  <2> QED BY <1>1, <2>1 DEF TrInv, Recorded, OneEnd, EndsAs, Seen, Doubts
<1>6. SlotsTaken'
  <2>1. r \notin Slots /\ trActive < MaxActive /\ trActive' = trActive + 1 /\ UNCHANGED trLeaked
    BY DEF SubmitRun, Slots, OwnsSlot, Supervised
  <2> QED BY <1>1, <2>1, SlotIn
<1>7. ASSUME NEW x \in Started
      PROVE  StartedAt(x)' = StartedAt(x) /\ Owner(x)' = Owner(x)
  <2>1. StartedAt(x) \in 1..Len(trOrder) /\ trOrder[StartedAt(x)][1] = x
    BY <1>2, Place
  <2>2. StartedAt(x)' \in DOMAIN trOrder' /\ trOrder'[StartedAt(x)'][1] = x
    <3>1. \E i \in DOMAIN trOrder' : trOrder'[i][1] = x
      BY <1>2, <2>1
    <3> QED BY <3>1 DEF StartedAt
  <2>3. StartedAt(x)' = StartedAt(x)
    BY <1>2, <1>4, <2>1, <2>2 DEF Ordered
  <2> QED BY <1>2, <2>1, <2>3 DEF Owner
<1>8. \A v \in TrUsers : Mine(v)' = Mine(v) /\ Mine(v) \subseteq Started
  <2>1. \A x \in TrRuns : trRec[x] # "none" \/ x \in trAged => x \in Started
    BY DEF TrInv, Recorded, Created, Started
  <2>2. UNCHANGED <<trRec, trAged>>
    BY DEF SubmitRun
  <2> QED BY <1>7, <2>1, <2>2 DEF Mine
<1>9. \A S \in SUBSET Started : Newest(S, RecentLimit)' = Newest(S, RecentLimit)
  BY <1>7 DEF Newest
<1>10. Indexed' /\ WindowComplete'
  <2>1. UNCHANGED <<trRec, trRecent, trUnlisted>>
    BY DEF SubmitRun
  <2>2. Indexed'
    BY <1>8, <2>1 DEF TrInv, Indexed
  <2>3. \A v \in TrUsers : \A x \in Newest(Mine(v), RecentLimit)' :
            trRec'[x] # "none" => x \in trRecent'[v] \/ Outlived(x)'
    BY <1>8, <1>9, <2>1 DEF TrInv, WindowComplete, Outlived
  <2> QED BY <2>2, <2>3 DEF WindowComplete
<1> QED BY <1>3, <1>4, <1>5, <1>6, <1>10 DEF TrInv

\* create_run writes the record, its liveness key and the two indexes.
LEMMA CreateRunInv ==
    ASSUME TrInv, NEW r \in TrRuns, CreateRun(r)
    PROVE  TrInv'
<1>1. /\ Started' = Started /\ Created' = Created \cup {r} /\ Slots' = Slots /\ r \in Started /\ r \notin Created
      /\ trRec[r] = "none" /\ r \notin trAged
  <2>1. /\ Started' = Started /\ Created' = Created \cup {r} /\ Slots' = Slots
        /\ r \in Started /\ r \notin Created
    BY RunTypes DEF CreateRun, Phase, Started, Created, Slots, OwnsSlot, Supervised
  <2> QED BY <2>1 DEF TrInv, Recorded
<1>2. trRec' = [trRec EXCEPT ![r] = "running"] /\ UNCHANGED <<trActive, trRead, trOrder, trSaid, trAged, trUnlisted, trLeaked>>
  BY DEF CreateRun
<1>3. Owner(r) \in TrUsers /\ \A x : StartedAt(x)' = StartedAt(x) /\ Owner(x)' = Owner(x)
  BY <1>1, <1>2, Place DEF StartedAt, Owner
<1>4. /\ trRecent' \in [TrUsers \cup {Shared} -> SUBSET TrRuns]
      /\ \A u \in TrUsers : trRecent'[u] = IF u = Owner(r) THEN Trimmed(trRecent[u] \cup {r}) ELSE trRecent[u]
  <2>1. \A k \in TrUsers \cup {Shared} : Trimmed(trRecent[k] \cup {r}) \in SUBSET TrRuns
    BY RunTypes DEF Trimmed, Newest
  <2>2. trRecent' = [k \in TrUsers \cup {Shared} |->
                       IF k \in {Shared, Owner(r)} THEN Trimmed(trRecent[k] \cup {r}) ELSE trRecent[k]]
    BY RunTypes DEF CreateRun
  <2> HIDE DEF Trimmed
  <2>3. trRecent' \in [TrUsers \cup {Shared} -> SUBSET TrRuns]
    BY <2>1, <2>2, RunTypes
  <2> QED BY <2>2, <2>3, RunTypes
<1>5. TrTypes'
  <2>1. trPhase' \in [TrRuns -> Phases] /\ trRec' \in [TrRuns -> Records] /\ trLive' \in SUBSET TrRuns
    BY RunTypes DEF CreateRun, Phase, Phases, OwnsSlot, Records, TrInv, TrTypes
  <2> QED BY <1>2, <1>4, <2>1 DEF TrInv, TrTypes
<1>6. Ordered' /\ SlotsTaken'
  BY <1>1, <1>2, OrderKept, SlotsSame
<1>7. Recorded' /\ Doubts'
  BY <1>1, <1>2, RunTypes DEF TrInv, Recorded, Doubts
<1>8. OneEnd'
  <2>1. \A x \in TrRuns, y \in Terminal : EndsAs(x, y)' => EndsAs(x, y)
    BY <1>2, RunTypes DEF EndsAs, Seen, Terminal
  <2>2. \A x \in TrRuns : trRec'[x] = "running" => trRec[x] = "running" \/ x \notin Created
    BY <1>1, <1>2, RunTypes
  <2> QED BY <1>1, <2>1, <2>2, EndsKept
<1>9. ASSUME NEW u \in TrUsers
      PROVE  /\ Mine(u)' = IF u = Owner(r) THEN Mine(u) \cup {r} ELSE Mine(u)
             /\ r \notin Mine(u)
  BY <1>1, <1>2, <1>3, RunTypes DEF Mine
<1>10. Indexed'
  <2>1. \A u \in TrUsers : Trimmed(trRecent[u] \cup {r}) \subseteq trRecent[u] \cup {r}
    BY DEF Trimmed, Newest
  <2>2. ASSUME NEW u \in TrUsers PROVE trRecent'[u] \subseteq Mine(u)'
    <3>1. trRecent[u] \subseteq Mine(u)
      BY DEF TrInv, Indexed
    <3>2. CASE u = Owner(r)
      <4>1. Mine(u)' = Mine(u) \cup {r}
        BY <1>9, <3>2
      <4>2. trRecent'[u] = Trimmed(trRecent[u] \cup {r})
        BY <1>4, <3>2
      <4>3. Trimmed(trRecent[u] \cup {r}) \subseteq trRecent[u] \cup {r}
        BY <2>1
      <4> HIDE DEF Trimmed, Mine
      <4> QED BY <3>1, <4>1, <4>2, <4>3
    <3>3. CASE u # Owner(r)
      BY <1>4, <1>9, <3>1, <3>3
    <3> QED BY <3>2, <3>3
  <2> QED BY <2>2 DEF Indexed
<1>11. WindowComplete'
  <2> SUFFICES ASSUME NEW u \in TrUsers, NEW x \in Newest(Mine(u), RecentLimit)', trRec'[x] # "none"
               PROVE  x \in trRecent'[u] \/ Outlived(x)'
    BY DEF WindowComplete
  <2> DEFINE After(S) == {y \in S : StartedAt(y) > StartedAt(x)}
  <2>1. x \in Mine(u)' /\ Cardinality(After(Mine(u)')) < RecentLimit /\ x \in TrRuns
    BY <1>3 DEF Newest, Mine
  <2>2. IsFiniteSet(After(Mine(u)')) /\ After(Mine(u)) \subseteq After(Mine(u)')
    <3>1. IsFiniteSet(Mine(u)')
      BY <1>9, MineFacts, FS_AddElement
    <3> QED BY <1>9, <3>1, FS_Subset
  <2>3. IsFiniteSet(After(Mine(u))) /\ Cardinality(After(Mine(u))) <= Cardinality(After(Mine(u)'))
    BY <2>2, FS_Subset
  <2>4. /\ Cardinality(After(Mine(u))) \in Nat /\ Cardinality(After(Mine(u)')) \in Nat /\ RecentLimit \in Nat
        /\ Cardinality(After(Mine(u))) < RecentLimit
    BY <2>1, <2>2, <2>3, FS_CardinalityType, RunTypes
  <2>5. x # r => x \in trRecent[u] \/ Outlived(x)'
    <3>1. ASSUME x # r PROVE x \in Mine(u) /\ trRec[x] # "none"
      BY <1>2, <1>9, <2>1, <3>1, RunTypes
    <3>2. x \in Mine(u) => x \in Newest(Mine(u), RecentLimit)
      BY <2>4 DEF Newest
    <3>3. x # r => x \in trRecent[u] \/ Outlived(x)
      BY <3>1, <3>2 DEF TrInv, WindowComplete
    <3>4. x # r /\ Outlived(x) => Outlived(x)'
      BY <1>2, <2>1, RunTypes DEF Outlived
    <3> QED BY <3>3, <3>4
  <2>6. CASE u # Owner(r)
    BY <1>4, <1>9, <2>1, <2>5, <2>6
  <2>7. CASE u = Owner(r)
    <3>1. After(trRecent[u] \cup {r}) \subseteq After(Mine(u)')
      BY <1>9, <2>7 DEF TrInv, Indexed
    <3>2. Cardinality(After(trRecent[u] \cup {r})) <= Cardinality(After(Mine(u)'))
      BY <2>2, <3>1, FS_Subset
    <3>3. IsFiniteSet(After(trRecent[u] \cup {r}))
      BY <2>2, <3>1, FS_Subset
    <3>4. Cardinality(After(trRecent[u] \cup {r})) < RecentLimit
      BY <2>1, <2>4, <3>2, <3>3, FS_CardinalityType
    <3>5. x \in Trimmed(trRecent[u] \cup {r}) \/ Outlived(x)'
      BY <2>5, <3>4 DEF Trimmed, Newest
    <3> QED BY <1>4, <2>7, <3>5
  <2> QED BY <2>6, <2>7
<1> QED BY <1>5, <1>6, <1>7, <1>8, <1>10, <1>11 DEF TrInv

\* A supervisor is spawned, or its tool comes to an end.
LEMMA AdvanceInv ==
    ASSUME TrInv, NEW r \in TrRuns, SpawnSupervisor(r) \/ \E status \in {"succeeded", "failed"} : ToolEnds(r, status)
    PROVE  TrInv'
<1>1. /\ Started' = Started /\ Created' = Created /\ Slots' = Slots /\ trPhase' \in [TrRuns -> Phases]
  BY RunTypes DEF SpawnSupervisor, ToolEnds, Phase, Phases, Started, Created, Slots, OwnsSlot, Supervised
<1>2. UNCHANGED <<trRec, trLive, trRecent, trActive, trRead, trOrder, trSaid, trAged, trUnlisted, trLeaked>>
  BY DEF SpawnSupervisor, ToolEnds
<1>3. TrTypes' /\ Ordered' /\ SlotsTaken'
  BY <1>1, <1>2, OrderKept, SlotsSame DEF TrInv, TrTypes
<1>4. Recorded' /\ Doubts' /\ OneEnd'
  BY <1>1, <1>2 DEF TrInv, Recorded, Doubts, OneEnd, EndsAs, Seen
<1>5. Indexed' /\ WindowComplete'
  BY <1>2, WindowKept DEF Outlived
<1> QED BY <1>3, <1>4, <1>5 DEF TrInv

\* A submission fails before its supervisor is spawned; cancelled, it keeps its slot.
LEMMA SubmitFailsInv ==
    ASSUME TrInv, NEW r \in TrRuns, NEW cancelled \in BOOLEAN, SubmitFails(r, cancelled)
    PROVE  TrInv'
<1>1. /\ Started' = Started /\ Created' = Created \cup {r} /\ Slots' = Slots \ {r} /\ r \in Slots
      /\ trPhase' \in [TrRuns -> Phases]
  BY RunTypes DEF SubmitFails, Phase, Phases, Started, Created, Slots, OwnsSlot, Supervised
<1>2. UNCHANGED <<trRec, trLive, trRecent, trRead, trOrder, trSaid, trAged, trUnlisted>>
  BY DEF SubmitFails
<1>3. \/ trActive' = trActive - 1 /\ UNCHANGED trLeaked
      \/ UNCHANGED trActive /\ trLeaked' = trLeaked + 1
  BY DEF SubmitFails, ReturnSlot
<1>4. TrTypes' /\ Ordered' /\ SlotsTaken'
  <2>1. trActive' \in Int /\ trLeaked' \in Nat
    BY <1>3, RunTypes
  <2> QED BY <1>1, <1>2, <1>3, <2>1, OrderKept, SlotOut DEF TrInv, TrTypes
<1>5. Recorded' /\ Doubts' /\ OneEnd'
  BY <1>1, <1>2 DEF TrInv, Recorded, Doubts, OneEnd, EndsAs, Seen
<1>6. Indexed' /\ WindowComplete'
  BY <1>2, WindowKept DEF Outlived
<1> QED BY <1>4, <1>5, <1>6 DEF TrInv

\* The liveness keys come and go.
LEMMA LivenessInv ==
    ASSUME TrInv, NEW r \in TrRuns, RefreshLiveness(r) \/ LivenessExpires(r)
    PROVE  TrInv'
<1>1. trLive' \in SUBSET TrRuns
  BY DEF TrInv, TrTypes, RefreshLiveness, LivenessExpires
<1>2. UNCHANGED <<trRec, trRecent, trPhase, trActive, trRead, trOrder, trSaid, trAged, trUnlisted, trLeaked>>
  BY DEF RefreshLiveness, LivenessExpires
<1>3. TrTypes' /\ Ordered' /\ SlotsTaken'
  BY <1>1, <1>2 DEF TrInv, TrTypes, Ordered, SlotsTaken, Started, Slots
<1>4. Recorded' /\ Doubts' /\ OneEnd'
  BY <1>2 DEF TrInv, Recorded, Doubts, OneEnd, EndsAs, Seen, Created
<1>5. Indexed' /\ WindowComplete'
  BY <1>2, WindowKept DEF Outlived
<1> QED BY <1>3, <1>4, <1>5 DEF TrInv

\* A record's time to live is over.
LEMMA RecordExpiresInv ==
    ASSUME TrInv, NEW r \in TrRuns, RecordExpires(r)
    PROVE  TrInv'
<1>1. trRec[r] # "none" /\ trRec' = [trRec EXCEPT ![r] = "none"] /\ trAged' = trAged \cup {r}
      /\ trUnlisted' = trUnlisted \ {r}
  BY DEF RecordExpires
<1>2. UNCHANGED <<trLive, trRecent, trPhase, trActive, trRead, trOrder, trSaid, trLeaked>>
  BY DEF RecordExpires
<1>3. TrTypes' /\ Ordered' /\ SlotsTaken'
  BY <1>1, <1>2, RunTypes DEF TrInv, TrTypes, Ordered, SlotsTaken, Started, Slots, Records
<1>4. Recorded' /\ Doubts'
  BY <1>1, <1>2, RunTypes DEF TrInv, Recorded, Doubts, Created
<1>5. OneEnd'
  <2>1. \A x \in TrRuns, y \in Terminal : EndsAs(x, y)' => EndsAs(x, y)
    BY <1>1, <1>2, RunTypes DEF EndsAs, Seen, Terminal
  <2> QED BY <1>1, <1>2, <2>1, RunTypes, EndsKept DEF Created
<1>6. Indexed' /\ WindowComplete'
  <2>1. UNCHANGED trOrder /\ UNCHANGED trRecent
    BY <1>2
  <2>2. \A x \in TrRuns : (trRec'[x] # "none" \/ x \in trAged') <=> (trRec[x] # "none" \/ x \in trAged)
    BY <1>1, RunTypes
  <2>3. \A x \in TrRuns : trRec'[x] # "none" => x # r /\ trRec'[x] = trRec[x]
    BY <1>1, RunTypes
  <2>4. \A x \in TrRuns : Outlived(x) /\ trRec'[x] # "none" => Outlived(x)'
    BY <1>1, <2>3 DEF Outlived
  <2>5. \A x \in TrRuns : trRec'[x] # "none" => trRec[x] # "none"
    BY <2>3
  <2> QED BY <2>1, <2>2, <2>4, <2>5, WindowKept
<1> QED BY <1>3, <1>4, <1>5, <1>6 DEF TrInv

\* An index runs out: the records it showed are of runs that ended.
LEMMA IndexExpiresInv ==
    ASSUME TrInv, NEW k \in TrUsers \cup {Shared}, IndexExpires(k)
    PROVE  TrInv'
<1>1. /\ UNCHANGED <<trRec, trLive, trPhase, trActive, trRead, trOrder, trSaid, trAged, trLeaked>>
      /\ trRecent' = [trRecent EXCEPT ![k] = {}] /\ trUnlisted \subseteq trUnlisted'
      /\ k # Shared => Listed(k) \subseteq trUnlisted'
      /\ \A r \in Listed(k) : trRec[r] # "running"
  BY DEF IndexExpires
<1>2. TrTypes' /\ Ordered' /\ SlotsTaken'
  BY <1>1, RunTypes DEF TrInv, TrTypes, Ordered, SlotsTaken, Started, Slots
<1>3. Recorded' /\ Doubts' /\ OneEnd'
  BY <1>1 DEF TrInv, Recorded, Doubts, OneEnd, EndsAs, Seen, Created
<1>4. ASSUME NEW u \in TrUsers, NEW r \in trRecent[u], trRec[r] # "none"
      PROVE  r \in trRecent'[u] \/ Outlived(r)'
  <2>1. CASE u # k
    BY <1>1, <2>1, RunTypes
  <2>2. CASE u = k
    <3>1. r \in TrRuns /\ Owner(r) = u
      BY RunTypes DEF TrInv, Indexed, Mine
    <3>2. r \in Listed(k)
      BY <1>4, <2>2, <3>1 DEF Listed
    <3>3. trRec[r] \in Terminal
      BY <1>1, <1>4, <3>1, <3>2, RunTypes DEF Records
    <3>4. r \in trUnlisted'
      BY <1>1, <2>2, <3>2, RunTypes
    <3> QED BY <1>1, <3>3, <3>4 DEF Outlived
  <2> QED BY <2>1, <2>2
<1>5. \A u \in TrUsers : trRecent'[u] \subseteq trRecent[u]
  BY <1>1, RunTypes
<1>6. \A r \in TrRuns : Outlived(r) => Outlived(r)'
  BY <1>1 DEF Outlived
<1>7. Indexed' /\ WindowComplete'
  BY <1>1, <1>4, <1>5, <1>6, WindowKept
<1> QED BY <1>2, <1>3, <1>7 DEF TrInv

\* The script, and all it can do to the ends.
LEMMA MarkTypes ==
    ASSUME TrInv, NEW r \in TrRuns, NEW s \in Terminal
    PROVE  /\ MarkTerminal(r, s) \in [TrRuns -> Records]
           /\ trRec[r] # "running" => MarkTerminal(r, s) = trRec
           /\ trRec[r] = "running" => MarkTerminal(r, s)[r] = s
           /\ \A x \in TrRuns : x # r => MarkTerminal(r, s)[x] = trRec[x]
           /\ \A x \in TrRuns : MarkTerminal(r, s)[x] # "none" <=> trRec[x] # "none"
           /\ \A x \in TrRuns : MarkTerminal(r, s)[x] = "running" => trRec[x] = "running"
           /\ \A x \in TrRuns : trRec[x] \in Terminal => MarkTerminal(r, s)[x] = trRec[x]
BY RunTypes DEF MarkTerminal, Records, Terminal

LEMMA EndWritten ==
    ASSUME TrInv, NEW r \in TrRuns, NEW s \in Terminal, trRec' = MarkTerminal(r, s), Created \subseteq Created',
           \A x \in TrRuns, y \in Terminal : EndsAs(x, y)' => EndsAs(x, y) \/ trRec'[x] = y
    PROVE  OneEnd'
<1>1. CASE trRec[r] # "running"
  <2>1. UNCHANGED trRec
    BY <1>1, MarkTypes
  <2>2. \A x \in TrRuns, y \in Terminal : EndsAs(x, y)' => EndsAs(x, y)
    BY <2>1 DEF EndsAs
  <2> QED BY <2>1, <2>2, EndsKept
<1>2. CASE trRec[r] = "running"
  <2>1. trRec'[r] = s /\ s # "running" /\ r \in Created
    BY <1>2, MarkTypes DEF Terminal, TrInv, Recorded
  <2>2. \A x \in TrRuns, y \in Terminal : x # r /\ EndsAs(x, y)' => EndsAs(x, y)
    BY MarkTypes DEF EndsAs
  <2>3. \A y \in Terminal : EndsAs(r, y)' => y = s
    BY <1>2, <2>1 DEF TrInv, OneEnd
  <2>4. \A x \in TrRuns, y, z \in Terminal : EndsAs(x, y)' /\ EndsAs(x, z)' => y = z
    BY <2>2, <2>3 DEF TrInv, OneEnd
  <2>5. \A x \in TrRuns, y \in Terminal : EndsAs(x, y)' => trRec'[x] # "running" /\ x \in Created'
    BY <2>1, <2>2, MarkTypes DEF TrInv, OneEnd
  <2> QED BY <2>4, <2>5 DEF OneEnd
<1> QED BY <1>1, <1>2

\* The supervisor writes what the run came to, or fails to, and its slot goes back.
LEMMA SupervisorDoneInv ==
    ASSUME TrInv, NEW r \in TrRuns, NEW written \in BOOLEAN, SupervisorDone(r, written)
    PROVE  TrInv'
<1>1. /\ Started' = Started /\ Created' = Created /\ Slots' = Slots \ {r} /\ r \in Slots
      /\ trPhase' \in [TrRuns -> Phases] /\ trPhase[r] \in Terminal
  BY RunTypes DEF SupervisorDone, Phase, Phases, Started, Created, Slots, OwnsSlot, Supervised, Terminal
<1>2. /\ trRec' = trRec \/ trRec' = MarkTerminal(r, trPhase[r])
      /\ UNCHANGED <<trLive, trRecent, trRead, trOrder, trSaid, trAged, trUnlisted, trLeaked>>
  BY DEF SupervisorDone
<1>3. trActive' = trActive - 1
  BY DEF SupervisorDone, ReturnSlot
<1>4. /\ trRec' \in [TrRuns -> Records]
      /\ \A x \in TrRuns : trRec'[x] # "none" <=> trRec[x] # "none"
      /\ \A x \in TrRuns : trRec'[x] = "running" => trRec[x] = "running"
      /\ \A x \in TrRuns : trRec[x] \in Terminal => trRec'[x] = trRec[x]
  BY <1>1, <1>2, MarkTypes, RunTypes
<1>5. TrTypes' /\ Ordered' /\ SlotsTaken'
  BY <1>1, <1>2, <1>3, <1>4, RunTypes, OrderKept, SlotOut DEF TrInv, TrTypes
<1>6. Recorded' /\ Doubts'
  BY <1>1, <1>2, <1>4 DEF TrInv, Recorded, Doubts
<1>7. OneEnd'
  <2>1. \A x \in TrRuns, y \in Terminal : EndsAs(x, y)' => EndsAs(x, y) \/ trRec'[x] = y
    BY <1>2 DEF EndsAs, Seen
  <2>2. CASE trRec' = trRec
    <3>1. \A x \in TrRuns, y \in Terminal : EndsAs(x, y)' => EndsAs(x, y)
      BY <2>1, <2>2 DEF EndsAs
    <3> QED BY <1>1, <2>2, <3>1, EndsKept
  <2>3. CASE trRec' = MarkTerminal(r, trPhase[r])
    BY <1>1, <2>1, <2>3, EndWritten
  <2> QED BY <1>2, <2>2, <2>3
<1>8. Indexed' /\ WindowComplete'
  BY <1>2, <1>4, WindowKept DEF Outlived
<1> QED BY <1>5, <1>6, <1>7, <1>8 DEF TrInv

\* The shutdown cancels the supervisors; those that were writing end.
LEMMA DrainInv ==
    ASSUME TrInv, Drain
    PROVE  TrInv'
<1> DEFINE W == {r \in TrRuns : trPhase[r] \in {"succeeded", "failed"}}
<1>1. /\ Started' = Started /\ Created' = Created /\ Slots' = Slots \ W /\ W \subseteq Slots
      /\ trPhase' \in [TrRuns -> Phases]
  <2>1. \A r \in TrRuns : /\ trPhase[r] = "tool" => trPhase'[r] = "failed"
                          /\ trPhase[r] \in {"succeeded", "failed"} => trPhase'[r] = "ended"
                          /\ trPhase[r] \notin {"tool", "succeeded", "failed"} => trPhase'[r] = trPhase[r]
    BY DEF Drain
  <2>2. \A r \in TrRuns : trPhase[r] \in Phases /\ trPhase'[r] \in Phases
    BY <2>1, RunTypes DEF Phases, OwnsSlot, Supervised
  <2>3. trPhase' \in [TrRuns -> Phases]
    BY <2>2 DEF Drain
  <2>4. Started' = Started /\ Created' = Created
    BY <2>1 DEF Started, Created
  <2>5. Slots' = Slots \ W /\ W \subseteq Slots
    BY <2>1, <2>2 DEF Slots, OwnsSlot, Supervised, Phases
  <2> QED BY <2>3, <2>4, <2>5
<1>2. UNCHANGED <<trRec, trLive, trRecent, trRead, trOrder, trSaid, trAged, trUnlisted, trLeaked>>
  BY DEF Drain
<1>3. trActive' = trActive - Cardinality(W)
  BY DEF Drain, ReturnSlot
<1>4. SlotsTaken' /\ trActive' \in Int
  <2>1. IsFiniteSet(Slots) /\ IsFiniteSet(W) /\ IsFiniteSet(Slots')
    BY <1>1, FS_Subset DEF TrInv, SlotsTaken
  <2>2. Slots \cap W = W
    BY <1>1
  <2>3. Cardinality(Slots') = Cardinality(Slots) - Cardinality(W)
    BY <1>1, <2>1, <2>2, FS_Difference
  <2>4. Cardinality(W) \in Nat /\ Cardinality(Slots) \in Nat
    BY <2>1, FS_CardinalityType
  <2> HIDE DEF W
  <2> QED BY <1>2, <1>3, <2>1, <2>3, <2>4, RunTypes DEF TrInv, SlotsTaken
<1>5. TrTypes' /\ Ordered'
  BY <1>1, <1>2, <1>4, OrderKept DEF TrInv, TrTypes
<1>6. Recorded' /\ Doubts' /\ OneEnd'
  BY <1>1, <1>2 DEF TrInv, Recorded, Doubts, OneEnd, EndsAs, Seen
<1>7. Indexed' /\ WindowComplete'
  BY <1>2, WindowKept DEF Outlived
<1> QED BY <1>4, <1>5, <1>6, <1>7 DEF TrInv

\* The process goes and takes its submissions and supervisors with it.
LEMMA ProcessGoneInv ==
    ASSUME TrInv, ProcessGone
    PROVE  TrInv'
<1>1. /\ Started' = Started /\ Created \subseteq Created' /\ Slots' = {} /\ trPhase' \in [TrRuns -> Phases]
  <2>1. /\ \A r \in TrRuns : trPhase'[r] = IF trPhase[r] \in OwnsSlot THEN "ended" ELSE trPhase[r]
        /\ trPhase' \in [TrRuns -> Phases]
    BY RunTypes DEF ProcessGone, Phases
  <2> QED BY <2>1 DEF Started, Created, Slots, OwnsSlot, Supervised
<1>2. UNCHANGED <<trRec, trLive, trRecent, trRead, trOrder, trSaid, trAged, trUnlisted>> /\ trActive' = 0 /\ trLeaked' = 0
  BY DEF ProcessGone
<1>3. TrTypes' /\ Ordered' /\ SlotsTaken'
  BY <1>1, <1>2, OrderKept, FS_EmptySet, RunTypes DEF TrInv, TrTypes, SlotsTaken
<1>4. Recorded' /\ Doubts'
  BY <1>1, <1>2 DEF TrInv, Recorded, Doubts
<1>5. OneEnd'
  <2>1. \A x \in TrRuns, y \in Terminal : EndsAs(x, y)' => EndsAs(x, y)
    BY <1>2 DEF EndsAs, Seen
  <2> QED BY <1>1, <1>2, <2>1, EndsKept
<1>6. Indexed' /\ WindowComplete'
  BY <1>2, WindowKept DEF Outlived
<1> QED BY <1>3, <1>4, <1>5, <1>6 DEF TrInv

\* A read fetches the records it asked for and prunes the ids without one.
LEMMA FetchInv ==
    ASSUME TrInv, NEW q \in TrReaders, NEW ids \in SUBSET TrRuns, NEW index, Fetch(q, index, ids)
    PROVE  TrInv'
<1> DEFINE there == {r \in ids : trRec[r] # "none"}
           seen == [r \in there |-> trRec[r]]
<1>1. /\ trRead[q] = NoRead
      /\ trRead' = [trRead EXCEPT ![q] = IF there = {} THEN NoRead ELSE [step |-> "alive", seen |-> seen, alive |-> {}]]
      /\ trRecent' = IF index \in DOMAIN trRecent THEN [trRecent EXCEPT ![index] = @ \ (ids \ there)] ELSE trRecent
      /\ UNCHANGED <<trRec, trLive, trPhase, trActive, trOrder, trSaid, trAged, trUnlisted, trLeaked>>
  BY DEF Fetch
<1>2. there \in SUBSET TrRuns /\ seen \in [there -> Records \ {"none"}]
  BY RunTypes
<1>3. [step |-> "alive", seen |-> seen, alive |-> {}] \in ReadStates
  <2>1. seen \in Seens
    BY <1>2 DEF Seens
  <2> HIDE DEF seen
  <2> QED BY <2>1 DEF ReadStates
<1>4. /\ trRecent' \in [TrUsers \cup {Shared} -> SUBSET TrRuns]
      /\ \A u \in TrUsers : trRecent'[u] \subseteq trRecent[u]
      /\ \A u \in TrUsers : \A r \in trRecent[u] : trRec[r] # "none" => r \in trRecent'[u]
  BY <1>1, RunTypes
<1> HIDE DEF seen
<1>5. /\ trRead' \in [TrReaders -> ReadStates \cup {NoRead}]
      /\ trRead'[q] # NoRead => trRead'[q] = [step |-> "alive", seen |-> seen, alive |-> {}]
      /\ \A p \in TrReaders : p # q => trRead'[p] = trRead[p]
  BY <1>1, <1>3, RunTypes
<1>6. TrTypes' /\ Ordered' /\ SlotsTaken'
  <2>1. Started' = Started /\ Slots' = Slots
    BY <1>1 DEF Started, Slots
  <2> QED BY <1>1, <1>4, <1>5, <2>1, OrderKept, SlotsSame DEF TrInv, TrTypes
<1>7. DOMAIN seen = there /\ \A r \in there : seen[r] = trRec[r]
  BY DEF seen
<1>8. Recorded' /\ Doubts'
  <2>1. Created' = Created /\ there \subseteq Created
    BY <1>1 DEF Created, TrInv, Recorded
  <2>2. \A p \in TrReaders : trRead'[p] # NoRead => DOMAIN trRead'[p].seen \subseteq Created'
    BY <1>5, <1>7, <2>1 DEF TrInv, Recorded
  <2>3. Doubts'
    BY <1>5, NoReadFacts DEF TrInv, Doubts
  <2> QED BY <1>1, <2>1, <2>2, <2>3 DEF TrInv, Recorded
<1>9. OneEnd'
  <2>1. \A x \in TrRuns, y \in Terminal, p \in TrReaders : Seen(p, x, y)' => Seen(p, x, y) \/ trRec[x] = y
    BY <1>5, <1>7 DEF Seen
  <2>2. \A x \in TrRuns, y \in Terminal : EndsAs(x, y)' => EndsAs(x, y)
    BY <1>1, <2>1 DEF EndsAs
  <2>3. Created' = Created
    BY <1>1 DEF Created
  <2> QED BY <1>1, <2>2, <2>3, EndsKept
<1>10. Indexed' /\ WindowComplete'
  BY <1>1, <1>4, WindowKept DEF Outlived
<1> QED BY <1>6, <1>8, <1>9, <1>10 DEF TrInv

\* A read asks which of the running ones are alive.
LEMMA ReadLivenessInv ==
    ASSUME TrInv, NEW q \in TrReaders, ReadLiveness(q)
    PROVE  TrInv'
<1>1. UNCHANGED <<trRec, trLive, trRecent, trPhase, trActive, trOrder, trSaid, trAged, trUnlisted, trLeaked>>
  BY DEF ReadLiveness
<1>2. trRead[q] # NoRead /\ trRead[q] \in ReadStates /\ Alive(trRead[q].seen) \in SUBSET TrRuns
  <2>1. trRead[q] # NoRead
    BY NoReadFacts DEF ReadLiveness
  <2> QED BY <2>1, ReadTypes DEF Alive
<1>3. trRead'[q] = [trRead[q] EXCEPT !.step = "settle", !.alive = Alive(trRead[q].seen)]
  BY RunTypes DEF ReadLiveness
<1>4. /\ trRead'[q] \in ReadStates /\ trRead'[q].seen = trRead[q].seen /\ trRead'[q].alive = Alive(trRead[q].seen)
      /\ \A p \in TrReaders : p # q => trRead'[p] = trRead[p]
  <2>1. trRead'[q] \in ReadStates /\ trRead'[q].seen = trRead[q].seen /\ trRead'[q].alive = Alive(trRead[q].seen)
    BY <1>2, <1>3 DEF ReadStates
  <2> QED BY <2>1, RunTypes DEF ReadLiveness
<1>5. trRead' \in [TrReaders -> ReadStates \cup {NoRead}]
  BY <1>4, RunTypes DEF ReadLiveness
<1>6. TrTypes' /\ Ordered' /\ SlotsTaken'
  BY <1>1, <1>5 DEF TrInv, TrTypes, Ordered, SlotsTaken, Started, Slots
<1>7. Recorded' /\ Doubts'
  <2>1. Recorded'
    BY <1>1, <1>2, <1>4 DEF TrInv, Recorded, Created
  <2>2. \A r \in DOMAIN trRead[q].seen : r \notin Alive(trRead[q].seen) => trRead[q].seen[r] = "running"
    BY DEF Alive
  <2> QED BY <1>4, <2>1, <2>2 DEF TrInv, Doubts
<1>8. OneEnd'
  <2>1. \A x, y : \A p \in TrReaders : Seen(p, x, y)' => Seen(p, x, y)
    BY <1>2, <1>4 DEF Seen
  <2>2. \A x \in TrRuns, y \in Terminal : EndsAs(x, y)' => EndsAs(x, y)
    BY <1>1, <2>1 DEF EndsAs
  <2>3. Created' = Created
    BY <1>1 DEF Created
  <2> QED BY <1>1, <2>2, <2>3, EndsKept
<1>9. Indexed' /\ WindowComplete'
  BY <1>1, WindowKept DEF Outlived
<1> QED BY <1>6, <1>7, <1>8, <1>9 DEF TrInv

\* A read says what became of one of its runs.
LEMMA ReconcileInv ==
    ASSUME TrInv, NEW q \in TrReaders, NEW r \in TrRuns, Reconcile(q, r)
    PROVE  TrInv'
<1> DEFINE rest == [x \in DOMAIN trRead[q].seen \ {r} |-> trRead[q].seen[x]]
<1>1. /\ trRead[q].step = "settle" /\ r \in DOMAIN trRead[q].seen
      /\ trRec' = IF r \in trRead[q].alive THEN trRec ELSE MarkTerminal(r, "lost")
      /\ trSaid' = [trSaid EXCEPT ![r] = @ \cup ({Says(q, r)} \cap Terminal)]
      /\ trRead' = [trRead EXCEPT ![q] = IF DOMAIN rest = {} THEN NoRead ELSE [trRead[q] EXCEPT !.seen = rest]]
      /\ UNCHANGED <<trLive, trRecent, trPhase, trActive, trOrder, trAged, trUnlisted, trLeaked>>
  BY RunTypes DEF Reconcile
<1>2. trRead[q] # NoRead /\ trRead[q] \in ReadStates
  BY <1>1, NoReadFacts, ReadTypes
<1>3. rest \in Seens /\ DOMAIN rest = DOMAIN trRead[q].seen \ {r} /\ \A x \in DOMAIN rest : rest[x] = trRead[q].seen[x]
  <2>1. rest \in [DOMAIN trRead[q].seen \ {r} -> Records \ {"none"}] /\ DOMAIN trRead[q].seen \ {r} \in SUBSET TrRuns
    BY <1>2, ReadTypes
  <2> QED BY <2>1 DEF Seens
<1> HIDE DEF rest
<1>4. /\ trRead' \in [TrReaders -> ReadStates \cup {NoRead}]
      /\ \A p \in TrReaders : p # q => trRead'[p] = trRead[p]
      /\ trRead'[q] # NoRead => /\ trRead'[q].seen = rest /\ trRead'[q].alive = trRead[q].alive
  <2>1. LET s == [trRead[q] EXCEPT !.seen = rest] IN s \in ReadStates /\ s.seen = rest /\ s.alive = trRead[q].alive
    BY <1>2, <1>3 DEF ReadStates
  <2> QED BY <1>1, <2>1, RunTypes
<1>5. /\ trRec' \in [TrRuns -> Records] /\ "lost" \in Terminal
      /\ \A x \in TrRuns : trRec'[x] # "none" <=> trRec[x] # "none"
      /\ \A x \in TrRuns : trRec'[x] = "running" => trRec[x] = "running"
      /\ \A x \in TrRuns : trRec[x] \in Terminal => trRec'[x] = trRec[x]
  BY <1>1, MarkTypes, RunTypes DEF Terminal
<1>6. /\ trSaid' \in [TrRuns -> SUBSET Terminal] /\ trSaid'[r] \subseteq trSaid[r] \cup ({Says(q, r)} \cap Terminal)
      /\ \A x \in TrRuns : x # r => trSaid'[x] = trSaid[x]
  BY <1>1, RunTypes
<1>7. TrTypes' /\ Ordered' /\ SlotsTaken'
  BY <1>1, <1>4, <1>5, <1>6 DEF TrInv, TrTypes, Ordered, SlotsTaken, Started, Slots
<1>8. Recorded' /\ Doubts'
  <2>1. Recorded'
    BY <1>1, <1>2, <1>3, <1>4, <1>5 DEF TrInv, Recorded, Created
  <2>2. \A p \in TrReaders : trRead'[p].step = "settle" => trRead'[p] # NoRead
    BY NoReadFacts
  <2> QED BY <1>1, <1>3, <1>4, <2>1, <2>2 DEF TrInv, Doubts
<1>9. Says(q, r) \in Terminal => EndsAs(r, Says(q, r)) \/ trRec'[r] = Says(q, r)
  <2>1. CASE r \in trRead[q].alive
    BY <1>1, <1>2, <2>1 DEF Says, EndsAs, Seen
  <2>2. CASE r \notin trRead[q].alive
    <3>1. trRead[q].seen[r] = "running"
      BY <1>1, <2>2 DEF TrInv, Doubts
    <3>2. trRec[r] # "none" /\ trRec[r] \in Terminal => EndsAs(r, trRec[r])
      BY DEF EndsAs
    <3>3. trRec' = MarkTerminal(r, "lost")
      BY <1>1, <2>2
    <3> QED BY <2>2, <3>1, <3>2, <3>3 DEF Says, Terminal
  <2> QED BY <2>1, <2>2
<1>10. OneEnd'
  <2>1. \A x \in TrRuns, y \in Terminal, p \in TrReaders : Seen(p, x, y)' => Seen(p, x, y)
    BY <1>2, <1>3, <1>4 DEF Seen
  <2>2. \A x \in TrRuns, y \in Terminal : EndsAs(x, y)' => EndsAs(x, y) \/ trRec'[x] = y
    BY <1>6, <1>9, <2>1 DEF EndsAs
  <2>3. Created' = Created
    BY <1>1 DEF Created
  <2>4. CASE r \in trRead[q].alive
    <3>1. UNCHANGED trRec
      BY <1>1, <2>4
    <3>2. \A x \in TrRuns, y \in Terminal : EndsAs(x, y)' => EndsAs(x, y)
      BY <2>2, <3>1 DEF EndsAs
    <3> QED BY <2>3, <3>1, <3>2, EndsKept
  <2>5. CASE r \notin trRead[q].alive
    BY <1>1, <1>5, <2>2, <2>3, <2>5, EndWritten
  <2> QED BY <2>4, <2>5
<1>11. Indexed' /\ WindowComplete'
  BY <1>1, <1>5, WindowKept DEF Outlived
<1> QED BY <1>7, <1>8, <1>10, <1>11 DEF TrInv

----------------------------------------------------------------------------
(* The theorems. *)

LEMMA TrInitInv == TrInit => TrInv
<1> SUFFICES ASSUME TrInit PROVE TrInv
  OBVIOUS
<1>1. /\ Started = {} /\ Created = {} /\ Slots = {} /\ trOrder = <<>> /\ DOMAIN trOrder = {}
      /\ \A r \in TrRuns : trRec[r] = "none" /\ trSaid[r] = {}
      /\ \A q \in TrReaders : trRead[q] = NoRead
  BY DEF TrInit, Started, Created, Slots, OwnsSlot, Supervised
<1>2. TrTypes
  BY TrConstants DEF TrInit, TrTypes, Records, Phases
<1>3. Ordered /\ Recorded /\ SlotsTaken
  BY <1>1, FS_EmptySet, TrConstants DEF TrInit, Ordered, Recorded, SlotsTaken
<1>4. OneEnd /\ Doubts
  BY <1>1, NoReadFacts DEF OneEnd, EndsAs, Seen, Doubts, Terminal
<1>5. \A u \in TrUsers : Mine(u) = {} /\ trRecent[u] = {}
  BY <1>1 DEF TrInit, Mine
<1>6. Indexed /\ WindowComplete
  BY <1>5 DEF Indexed, WindowComplete, Newest
<1> QED BY <1>2, <1>3, <1>4, <1>6 DEF TrInv

LEMMA TrStep == TrInv /\ [TrNext]_trVars => TrInv'
<1> SUFFICES ASSUME TrInv, [TrNext]_trVars PROVE TrInv'
  OBVIOUS
<1>1. CASE UNCHANGED trVars
  <2>1. TrTypes' /\ Ordered' /\ SlotsTaken' /\ Recorded' /\ Doubts'
    BY <1>1 DEF trVars, TrInv, TrTypes, Ordered, SlotsTaken, Recorded, Doubts, Started, Created, Slots
  <2>2. OneEnd'
    BY <1>1 DEF trVars, TrInv, OneEnd, EndsAs, Seen, Created
  <2>3. Indexed' /\ WindowComplete'
    BY <1>1, WindowKept DEF trVars, Outlived
  <2> QED BY <2>1, <2>2, <2>3 DEF TrInv
<1>2. ASSUME NEW r \in TrRuns, NEW q \in TrReaders, GetRun(q, r)
      PROVE  TrInv'
  BY <1>2, FetchInv DEF GetRun
<1>3. ASSUME NEW q \in TrReaders, NEW k \in TrUsers \cup {Shared}, ListRuns(q, k)
      PROVE  TrInv'
  BY <1>3, RunTypes, FetchInv DEF ListRuns
<1>4. ASSUME NEW q \in TrReaders, ReaderSteps(q)
      PROVE  TrInv'
  BY <1>4, ReadLivenessInv, ReconcileInv DEF ReaderSteps
<1>5. ASSUME NEW r \in TrRuns, \/ \E u \in TrUsers : SubmitRun(r, u)
                               \/ CreateRun(r) \/ SpawnSupervisor(r) \/ RefreshLiveness(r)
                               \/ LivenessExpires(r) \/ RecordExpires(r)
                               \/ \E b \in BOOLEAN : SubmitFails(r, b) \/ SupervisorDone(r, b)
                               \/ \E status \in {"succeeded", "failed"} : ToolEnds(r, status)
      PROVE  TrInv'
  BY <1>5, SubmitRunInv, CreateRunInv, AdvanceInv, LivenessInv, RecordExpiresInv, SubmitFailsInv, SupervisorDoneInv
<1> QED BY <1>1, <1>2, <1>3, <1>4, <1>5, IndexExpiresInv, DrainInv, ProcessGoneInv DEF TrNext

(* Submissions, supervisors, readers, expiring keys and dying processes, in any order, keep the run
   table's invariant. *)
THEOREM RunTableInvariance == TrSpec => []TrInv
BY TrInitInv, TrStep, PTL DEF TrSpec

(* tool_runs.py accounts for its runs: readers never disagree about how one ended, the capacity count is
   the submissions and supervisors there are, and nobody's window of recent runs misses one, unless it has
   ended and its record outlived the index. *)
THEOREM RunsAreAccounted == TrSpec => []RunsAccounted
<1>1. TrInv => RunsAccounted
  <2> SUFFICES ASSUME TrInv PROVE RunsAccounted
    OBVIOUS
  <2>1. ASSUME NEW r \in TrRuns
        PROVE  Cardinality(trSaid[r]) <= 1 /\ (trSaid[r] # {} => trRec[r] \in trSaid[r] \cup {"none"})
    <3>1. \A x, y \in trSaid[r] : x = y
      BY RunTypes DEF TrInv, OneEnd, EndsAs
    <3>2. CASE trSaid[r] = {}
      BY <3>2, FS_EmptySet
    <3>3. ASSUME NEW x \in trSaid[r]
          PROVE  Cardinality(trSaid[r]) <= 1 /\ trRec[r] \in trSaid[r] \cup {"none"}
      <4>1. trSaid[r] = {x} /\ x \in Terminal
        BY <3>1, <3>3, RunTypes
      <4>2. EndsAs(r, x)
        BY <4>1 DEF EndsAs
      <4>3. trRec[r] \in Terminal => EndsAs(r, trRec[r])
        BY DEF EndsAs
      <4>4. trRec[r] = x \/ trRec[r] = "none"
        BY <4>1, <4>2, <4>3, RunTypes DEF TrInv, OneEnd, Records
      <4>5. Cardinality({x}) = 1
        BY FS_Singleton
      <4> QED BY <4>1, <4>4, <4>5
    <3> QED BY <3>2, <3>3
  <2>2. AnswersAgree
    BY <2>1 DEF AnswersAgree
  <2>3. SlotsAccounted
    <3>1. IsFiniteSet(Slots) /\ Cardinality(Slots) \in Nat /\ Cardinality(Slots) <= MaxActive
      BY RunTypes, FS_CardinalityType DEF TrInv, SlotsTaken
    <3> DEFINE S == {r \in TrRuns : trPhase[r] \in Supervised}
    <3>2. S \subseteq Slots
      BY DEF Slots, OwnsSlot
    <3>3. Cardinality(S) <= Cardinality(Slots) /\ Cardinality(S) \in Nat
      BY <3>1, <3>2, FS_Subset, FS_CardinalityType
    <3>4. Cardinality(S) <= MaxActive
      BY <3>1, <3>3, RunTypes
    <3> QED BY <3>4 DEF SlotsAccounted, TrInv, SlotsTaken, Slots
  <2> QED BY <2>2, <2>3 DEF RunsAccounted, TrInv
<1> QED BY <1>1, RunTableInvariance, PTL

(* What a run came to is settled once: the supervisor, the shutdown and a reader's "lost" never replace
   one another's status, and a record that expired never comes back. *)
THEOREM RunsSettle == TrSpec => RunsSettleOnce
<1>1. ASSUME TrInv, [TrNext]_trVars, NEW r \in TrRuns
      PROVE  (trRec[r] \in Terminal => trRec'[r] \in {trRec[r], "none"}) /\ (r \in trAged => trRec'[r] = "none")
  <2>1. r \in trAged => trRec[r] = "none"
    BY <1>1 DEF TrInv, Recorded
  <2>2. ASSUME NEW x \in TrRuns, NEW s \in Terminal, trRec' = MarkTerminal(x, s)
        PROVE  (trRec[r] \in Terminal => trRec'[r] = trRec[r]) /\ (r \in trAged => trRec'[r] = "none")
    <3>1. trRec[r] # "running" => trRec'[r] = trRec[r]
      BY <1>1, <2>2, MarkTypes
    <3> QED BY <2>1, <3>1 DEF Terminal
  <2>3. CASE UNCHANGED trRec
    BY <2>1, <2>3
  <2>4. ASSUME NEW x \in TrRuns, CreateRun(x)
        PROVE  (trRec[r] \in Terminal => trRec'[r] = trRec[r]) /\ (r \in trAged => trRec'[r] = "none")
    <3>1. trRec[x] = "none" /\ x \notin trAged
      BY <1>1, <2>4, RunTypes DEF CreateRun, TrInv, Recorded, Created
    <3> QED BY <1>1, <2>1, <2>4, <3>1, RunTypes DEF CreateRun, Terminal
  <2>5. ASSUME NEW x \in TrRuns, RecordExpires(x)
        PROVE  trRec'[r] \in {trRec[r], "none"}
    BY <1>1, <2>5, RunTypes DEF RecordExpires
  <2>6. ASSUME NEW x \in TrRuns, NEW b \in BOOLEAN, SupervisorDone(x, b)
        PROVE  UNCHANGED trRec \/ \E s \in Terminal : trRec' = MarkTerminal(x, s)
    BY <2>6 DEF SupervisorDone, Terminal
  <2>7. ASSUME NEW q \in TrReaders, NEW x \in TrRuns, Reconcile(q, x)
        PROVE  UNCHANGED trRec \/ \E s \in Terminal : trRec' = MarkTerminal(x, s)
    BY <2>7 DEF Reconcile, Terminal
  <2>8. ASSUME NEW q \in TrReaders, ReaderSteps(q)
        PROVE  UNCHANGED trRec \/ \E x \in TrRuns, s \in Terminal : trRec' = MarkTerminal(x, s)
    BY <2>7, <2>8 DEF ReaderSteps, ReadLiveness
  <2>9. ASSUME NEW q \in TrReaders, NEW k, NEW S, Fetch(q, k, S) PROVE UNCHANGED trRec
    BY <2>9 DEF Fetch
  <2>10. ASSUME NEW x \in TrRuns, \/ \E u \in TrUsers : SubmitRun(x, u)
                                  \/ SpawnSupervisor(x) \/ RefreshLiveness(x) \/ LivenessExpires(x)
                                  \/ \E b \in BOOLEAN : SubmitFails(x, b)
                                  \/ \E status \in {"succeeded", "failed"} : ToolEnds(x, status)
                                  \/ \E q \in TrReaders : GetRun(q, x)
         PROVE  UNCHANGED trRec
    BY <2>9, <2>10 DEF SubmitRun, SpawnSupervisor, RefreshLiveness, LivenessExpires, SubmitFails, ToolEnds, GetRun
  <2>11. ASSUME NEW q \in TrReaders, NEW k \in TrUsers \cup {Shared}, ListRuns(q, k) PROVE UNCHANGED trRec
    BY <2>9, <2>11 DEF ListRuns
  <2>12. Drain \/ ProcessGone \/ (\E k \in TrUsers \cup {Shared} : IndexExpires(k)) \/ UNCHANGED trVars => UNCHANGED trRec
    BY DEF Drain, ProcessGone, IndexExpires, trVars
  <2> QED BY <1>1, <2>1, <2>2, <2>3, <2>4, <2>5, <2>6, <2>8, <2>10, <2>11, <2>12 DEF TrNext
<1>2. TrInv /\ [TrNext]_trVars => [\A r \in TrRuns :
          /\ trRec[r] \in Terminal => trRec'[r] \in {trRec[r], "none"}
          /\ r \in trAged => trRec'[r] = "none"]_trVars
  BY <1>1
<1> QED BY <1>2, RunTableInvariance, PTL DEF TrSpec, RunsSettleOnce

----------------------------------------------------------------------------
(* Sub-MCP applications. *)

Configs == SmConfigs \cup {NoConfig}
Requests == [slug : SmSlugs, cfg : Configs, gen : Nat, app : Int, step : {"serve", "lock", "store", "bind", "build"}]
Puts == [step : {"put"}, slug : SmSlugs, cfg : SmConfigs]
Drops == [step : {"drop"}, slug : SmSlugs]
Rehydrations == UNION {[step : {"rehydrate"}, todo : [S -> Configs]] : S \in SUBSET SmSlugs}
Apps == [cfg : Configs, state : {"open", "closing", "closed"}]

SmTypes ==
    /\ smStore \in [SmSlugs -> Configs] /\ smRoute \in [SmSlugs -> Configs]
    /\ smGen \in [SmSlugs -> Nat] /\ smCount \in Nat
    /\ smCache \in [SmSlugs -> Int] /\ smStack \in [SmSlugs -> Int]
    /\ smReq \in [SmRequests -> Requests \cup {SmIdle}]
    /\ smOp \in [SmWriters -> {SmIdle} \cup Puts \cup Drops]
    /\ smReload \in {SmIdle, [step |-> "list"]} \cup Rehydrations
    /\ smStale \in SUBSET SmSlugs

\* Applications are numbered as they are built.
Numbered == \E n \in Nat : smApps \in [1..n -> Apps]

\* A slug's lifespan is that of its cached application, and no two slugs share one.
Cached ==
    /\ \A s \in SmSlugs : /\ smCache[s] \in DOMAIN smApps \cup {NotBuilt, NoAsgi}
                          /\ smStack[s] = IF smCache[s] = NoAsgi THEN NotBuilt ELSE smCache[s]
    /\ \A s, t \in SmSlugs : s # t /\ smStack[s] # NotBuilt => smStack[s] # smStack[t]

\* Tokens only grow, and a registered slug has one.
Tokens == \A s \in SmSlugs : smGen[s] <= smCount /\ (smRoute[s] # NoConfig => smGen[s] > 0)

\* One request builds at a time; while its token stands, its slug is as it was captured and not built.
Builds ==
    \A q \in SmRequests : smReq[q].step = "build" =>
        /\ smBuilding = q /\ smReq[q].gen > 0 /\ smReq[q].gen <= smCount
        /\ smGen[smReq[q].slug] = smReq[q].gen =>
              smCache[smReq[q].slug] = NotBuilt /\ smRoute[smReq[q].slug] = smReq[q].cfg

\* A config that was read and is not bound yet is the stored one, or its slug counts as stale.
Reads == \A q \in SmRequests : smReq[q].step = "bind" /\ smReq[q].slug \notin smStale => smReq[q].cfg = smStore[smReq[q].slug]

\* So is the one an operation, or the reload, is about to bind.
Writes ==
    /\ \A w \in SmWriters : smOp[w].step = "put" /\ smOp[w].slug \notin smStale => smOp[w].cfg = smStore[smOp[w].slug]
    /\ smReload.step = "rehydrate" => \A s \in DOMAIN smReload.todo \ smStale : smReload.todo[s] = smStore[s]

\* The inductive invariant.
SlugInv == SmTypes /\ Numbered /\ Cached /\ AppsCurrent /\ Tokens /\ Builds /\ Reads /\ Writes /\ RoutesCurrent
----------------------------------------------------------------------------
(* What the definitions come to. *)

LEMMA SlugInvSound == SlugInv => SlugsCurrent
BY DEF SlugInv, SlugsCurrent

\* The applications are numbered from 1, the next one follows.
LEMMA AppNumbers ==
    ASSUME SlugInv
    PROVE  \E n \in Nat : smApps \in [1..n -> Apps] /\ DOMAIN smApps = 1..n /\ NewApp = n + 1
<1>1. PICK n \in Nat : smApps \in [1..n -> Apps]
  BY DEF SlugInv, Numbered
<1>2. DOMAIN smApps = 1..n
  BY <1>1
<1>3. Cardinality(1..n) = n
  BY FS_Interval
<1> QED BY <1>1, <1>2, <1>3 DEF NewApp

LEMMA SlugTypes ==
    ASSUME SlugInv
    PROVE  /\ smStore \in [SmSlugs -> Configs] /\ smRoute \in [SmSlugs -> Configs]
           /\ smGen \in [SmSlugs -> Nat] /\ smCount \in Nat
           /\ smCache \in [SmSlugs -> Int] /\ smStack \in [SmSlugs -> Int]
           /\ smReq \in [SmRequests -> Requests \cup {SmIdle}]
           /\ smOp \in [SmWriters -> {SmIdle} \cup Puts \cup Drops]
           /\ smReload \in {SmIdle, [step |-> "list"]} \cup Rehydrations
           /\ smStale \in SUBSET SmSlugs
           /\ NoConfig \in Configs /\ SmConfigs \subseteq Configs
BY DEF SlugInv, SmTypes, Configs

\* So is an operation.
LEMMA OpType ==
    ASSUME SlugInv, NEW w \in SmWriters
    PROVE  /\ smOp[w].step = "put" => smOp[w] \in Puts /\ smOp[w].slug \in SmSlugs /\ smOp[w].cfg \in Configs
           /\ smOp[w].step = "drop" => smOp[w] \in Drops /\ smOp[w].slug \in SmSlugs
           /\ smOp[w] # SmIdle => smOp[w].step \in {"put", "drop"}
           /\ SmIdle.step = "idle"
BY SlugTypes DEF Puts, Drops, SmIdle, Configs

\* A request that is doing something is of a slug.
LEMMA RequestType ==
    ASSUME SlugInv, NEW q \in SmRequests, smReq[q] # SmIdle
    PROVE  /\ smReq[q] \in Requests /\ smReq[q].slug \in SmSlugs /\ smReq[q].cfg \in Configs
           /\ smReq[q].gen \in Nat /\ smReq[q].app \in Int
BY SlugTypes DEF Requests

LEMMA Busy == ASSUME NEW q, smReq[q].step # "idle" PROVE smReq[q] # SmIdle
BY DEF SmIdle

LEMMA RequestForms ==
    ASSUME NEW r \in Requests
    PROVE  /\ \A l \in {"serve", "lock", "store", "bind", "build"} :
                 /\ [r EXCEPT !.step = l] \in Requests /\ [r EXCEPT !.step = l].step = l
                 /\ [r EXCEPT !.step = l].slug = r.slug /\ [r EXCEPT !.step = l].cfg = r.cfg /\ [r EXCEPT !.step = l].gen = r.gen
           /\ \A a \in Int : [[r EXCEPT !.step = "serve"] EXCEPT !.app = a] \in Requests
           /\ \A a \in Int : [[r EXCEPT !.step = "serve"] EXCEPT !.app = a].step = "serve"
BY DEF Requests

\* The requests after one of them moved.
LEMMA Moved ==
    ASSUME SlugInv, NEW q \in SmRequests, NEW r \in Requests \cup {SmIdle}, smReq' = [smReq EXCEPT ![q] = r]
    PROVE  /\ smReq' \in [SmRequests -> Requests \cup {SmIdle}] /\ smReq'[q] = r
           /\ \A p \in SmRequests \ {q} : smReq'[p] = smReq[p]
BY SlugTypes

----------------------------------------------------------------------------
(* The router's tables. *)

\* Nothing happened to the applications.
LEMMA AppsSame ==
    ASSUME SlugInv, UNCHANGED <<smCache, smStack, smApps, smRoute>>
    PROVE  Numbered' /\ Cached' /\ AppsCurrent'
BY DEF SlugInv, Numbered, Cached, AppsCurrent, Opened

\* A slug's application goes: its lifespan closes, the others keep theirs.
LEMMA Evicted ==
    ASSUME SlugInv, NEW s \in SmSlugs, smApps' = Closing(Owned(s)),
           smCache' = [smCache EXCEPT ![s] = NotBuilt], smStack' = [smStack EXCEPT ![s] = NotBuilt],
           \A t \in SmSlugs \ {s} : smRoute'[t] = smRoute[t]
    PROVE  Numbered' /\ Cached' /\ AppsCurrent'
<1>1. PICK n \in Nat : smApps \in [1..n -> Apps] /\ DOMAIN smApps = 1..n
  BY AppNumbers
<1>2. /\ DOMAIN smApps' = 1..n
      /\ \A a \in 1..n : smApps'[a] = IF a = smStack[s] THEN [smApps[a] EXCEPT !.state = "closing"] ELSE smApps[a]
  BY <1>1 DEF Closing, Owned
<1>3. \A a \in 1..n : smApps[a] \in Apps /\ [smApps[a] EXCEPT !.state = "closing"] \in Apps
                     /\ [smApps[a] EXCEPT !.state = "closing"].state # "open"
  BY <1>1 DEF Apps
<1>4. smApps' \in [1..n -> Apps]
  BY <1>1, <1>2, <1>3 DEF Closing
<1>5. Numbered'
  BY <1>4 DEF Numbered
<1>6. /\ smCache'[s] = NotBuilt /\ smStack'[s] = NotBuilt
      /\ \A t \in SmSlugs \ {s} : smCache'[t] = smCache[t] /\ smStack'[t] = smStack[t]
  BY SlugTypes
<1>7. Cached'
  BY <1>1, <1>2, <1>6 DEF SlugInv, Cached, NotBuilt, NoAsgi
<1>8. \A t \in SmSlugs \ {s} : smStack[t] \in 1..n => smStack[t] # smStack[s]
  BY DEF SlugInv, Cached, NotBuilt
<1>9. ASSUME NEW t \in SmSlugs
      PROVE  /\ smCache'[t] \in DOMAIN smApps' => /\ smApps'[smCache'[t]] = [cfg |-> smRoute'[t], state |-> "open"]
                                                  /\ smStack'[t] = smCache'[t]
             /\ smCache'[t] = NoAsgi => smRoute'[t] \in SmStdio
  <2>1. CASE t = s
    BY <2>1, <1>2, <1>6 DEF NotBuilt, NoAsgi
  <2>2. CASE t # s
    BY <2>2, <1>1, <1>2, <1>6, <1>8 DEF SlugInv, AppsCurrent
  <2> QED BY <2>1, <2>2
<1>10. Opened' = Opened \ {smStack[s]}
  <2>1. ASSUME NEW a \in 1..n PROVE smApps'[a].state = "open" <=> (smApps[a].state = "open" /\ a # smStack[s])
    <3>1. CASE a = smStack[s]
      <4>1. smApps'[a] = [smApps[a] EXCEPT !.state = "closing"]
        BY <1>2, <3>1
      <4> QED BY <1>3, <3>1, <4>1
    <3>2. CASE a # smStack[s]
      BY <1>2, <3>2
    <3> QED BY <3>1, <3>2
  <2>2. Opened = {a \in 1..n : smApps[a].state = "open"} /\ Opened' = {a \in 1..n : smApps'[a].state = "open"}
    BY <1>1, <1>2 DEF Opened
  <2> QED BY <2>1, <2>2
<1>11. {smStack'[t] : t \in SmSlugs} \cap 1..n = ({smStack[t] : t \in SmSlugs} \cap 1..n) \ {smStack[s]}
  BY <1>6, <1>8 DEF NotBuilt
<1>12. Opened' = {smStack'[t] : t \in SmSlugs} \cap DOMAIN smApps'
  BY <1>1, <1>2, <1>10, <1>11 DEF SlugInv, AppsCurrent
<1>13. AppsCurrent'
  BY <1>9, <1>12 DEF AppsCurrent
<1> QED BY <1>5, <1>7, <1>13

\* Every application goes.
LEMMA AllEvicted ==
    ASSUME SlugInv, smCache' = [s \in SmSlugs |-> NotBuilt], smStack' = [s \in SmSlugs |-> NotBuilt],
           DOMAIN smApps' = DOMAIN smApps, smApps' = [a \in DOMAIN smApps |-> smApps'[a]],
           \A a \in DOMAIN smApps : smApps'[a] \in Apps /\ smApps'[a].state # "open"
    PROVE  Numbered' /\ Cached' /\ AppsCurrent'
<1>1. PICK n \in Nat : DOMAIN smApps = 1..n
  BY AppNumbers
<1>2. Numbered'
  BY <1>1 DEF Numbered
<1>3. Cached'
  BY <1>1 DEF Cached, NotBuilt, NoAsgi
<1>4. Opened' = {}
  BY DEF Opened
<1>5. 0 \notin DOMAIN smApps'
  BY <1>1
<1>6. \A s \in SmSlugs : smCache'[s] = 0 /\ smStack'[s] = 0
  BY DEF NotBuilt
<1>7. AppsCurrent'
  BY <1>4, <1>5, <1>6 DEF AppsCurrent, NoAsgi
<1> QED BY <1>2, <1>3, <1>7

\* The build under way is as it was, and its slug too.
LEMMA BuildsKept ==
    ASSUME SlugInv, UNCHANGED <<smRoute, smGen, smCount, smCache>>,
           \A q \in SmRequests : smReq'[q].step = "build" => smReq'[q] = smReq[q] /\ smBuilding' = smBuilding
    PROVE  Builds' /\ Tokens'
BY DEF SlugInv, Builds, Tokens

\* register_sub_mcp_app: no token captured before stands for the slug any more.
LEMMA PutInv ==
    ASSUME SlugInv, NEW s \in SmSlugs, NEW cfg \in Configs, PutRoute(s, cfg),
           \A q \in SmRequests : smReq'[q].step = "build" => smReq'[q] = smReq[q] /\ smBuilding' = smBuilding
    PROVE  /\ Numbered' /\ Cached' /\ AppsCurrent' /\ Tokens' /\ Builds'
           /\ smRoute' \in [SmSlugs -> Configs] /\ smGen' \in [SmSlugs -> Nat] /\ smCount' \in Nat
           /\ smCache' \in [SmSlugs -> Int] /\ smStack' \in [SmSlugs -> Int]
           /\ smRoute'[s] = cfg /\ \A t \in SmSlugs \ {s} : smRoute'[t] = smRoute[t]
<1>1. /\ smRoute' \in [SmSlugs -> Configs] /\ smGen' \in [SmSlugs -> Nat] /\ smCount' = smCount + 1 /\ smCount \in Nat
      /\ smCache' \in [SmSlugs -> Int] /\ smStack' \in [SmSlugs -> Int]
      /\ smRoute'[s] = cfg /\ smGen'[s] = smCount + 1 /\ smCache'[s] = NotBuilt
      /\ \A t \in SmSlugs \ {s} : smRoute'[t] = smRoute[t] /\ smGen'[t] = smGen[t] /\ smCache'[t] = smCache[t]
  BY SlugTypes DEF PutRoute, NotBuilt
<1>2. Numbered' /\ Cached' /\ AppsCurrent'
  BY <1>1, Evicted DEF PutRoute
<1>3. Tokens'
  BY <1>1, SlugTypes DEF SlugInv, Tokens
<1>4. ASSUME NEW q \in SmRequests, smReq'[q].step = "build"
      PROVE  /\ smBuilding' = q /\ smReq'[q].gen > 0 /\ smReq'[q].gen <= smCount'
             /\ smGen'[smReq'[q].slug] = smReq'[q].gen =>
                   smCache'[smReq'[q].slug] = NotBuilt /\ smRoute'[smReq'[q].slug] = smReq'[q].cfg
  <2>1. smReq'[q] = smReq[q] /\ smBuilding' = smBuilding /\ smReq[q].step = "build"
    BY <1>4
  <2>2. smReq[q].slug \in SmSlugs /\ smReq[q].gen \in Nat
    BY <2>1, Busy, RequestType
  <2>3. /\ smBuilding = q /\ smReq[q].gen > 0 /\ smReq[q].gen <= smCount
        /\ smGen[smReq[q].slug] = smReq[q].gen => smCache[smReq[q].slug] = NotBuilt /\ smRoute[smReq[q].slug] = smReq[q].cfg
    BY <2>1 DEF SlugInv, Builds
  <2>4. smReq[q].slug = s => smGen'[smReq[q].slug] # smReq[q].gen
    BY <1>1, <2>2, <2>3
  <2> QED BY <1>1, <2>1, <2>2, <2>3, <2>4
<1>5. Builds'
  BY <1>4 DEF Builds
<1> QED BY <1>1, <1>2, <1>3, <1>5

----------------------------------------------------------------------------
(* Every action keeps the invariant. *)

LEMMA SmInitInv == SmInit => SlugInv
<1> SUFFICES ASSUME SmInit PROVE SlugInv
  OBVIOUS
<1>1. /\ smStore = [s \in SmSlugs |-> NoConfig] /\ smRoute = smStore /\ smGen = [s \in SmSlugs |-> 0] /\ smCount = 0
      /\ smCache = [s \in SmSlugs |-> NotBuilt] /\ smStack = smCache /\ smApps = [a \in {} |-> 0]
      /\ smReq = [q \in SmRequests |-> SmIdle] /\ smOp = [w \in SmWriters |-> SmIdle] /\ smReload = SmIdle /\ smStale = {}
  BY DEF SmInit
<1>2. SmTypes
  BY <1>1 DEF SmTypes, Configs, NotBuilt
<1>3. Numbered
  <2>1. 0 \in Nat /\ 1..0 = {} /\ smApps \in [{} -> Apps]
    BY <1>1
  <2> QED BY <2>1 DEF Numbered
<1>4. Cached /\ AppsCurrent
  BY <1>1 DEF Cached, AppsCurrent, Opened, NotBuilt, NoAsgi
<1>5. Tokens /\ Builds /\ Reads /\ Writes /\ RoutesCurrent
  BY <1>1 DEF Tokens, Builds, Reads, Writes, RoutesCurrent, SmIdle
<1> QED BY <1>2, <1>3, <1>4, <1>5 DEF SlugInv

\* A step of one request that binds nothing: the tables and the writer stay.
LEMMA RequestMoves ==
    ASSUME SlugInv, NEW q \in SmRequests, NEW r \in Requests \cup {SmIdle}, smReq' = [smReq EXCEPT ![q] = r],
           UNCHANGED <<smStore, Router, smOp, smReload, smStale>>,
           r.step # "build", smBuilding' = smBuilding \/ (smReq[q].step = "build" \/ smBuilding \in {Nobody, q}),
           r.step = "bind" /\ r.slug \notin smStale => r.cfg = smStore[r.slug]
    PROVE  SlugInv'
<1>1. /\ smReq' \in [SmRequests -> Requests \cup {SmIdle}] /\ smReq'[q] = r
      /\ \A p \in SmRequests \ {q} : smReq'[p] = smReq[p]
  BY Moved
<1>2. ASSUME NEW p \in SmRequests, smReq'[p].step = "build" PROVE smReq'[p] = smReq[p] /\ smBuilding' = smBuilding
  <2>1. p # q /\ smReq'[p] = smReq[p]
    BY <1>1, <1>2
  <2>2. smBuilding = p /\ (smReq[q].step = "build" => smBuilding = q)
    BY <1>2, <2>1 DEF SlugInv, Builds
  <2>3. p # Nobody
    BY SmConstants DEF Nobody
  <2> QED BY <2>1, <2>2, <2>3
<1>3. Builds' /\ Tokens'
  BY <1>2, BuildsKept DEF Router
<1>4. Numbered' /\ Cached' /\ AppsCurrent'
  BY AppsSame DEF Router
<1>5. SmTypes'
  BY <1>1, SlugTypes DEF SmTypes, Router
<1>6. Reads'
  BY <1>1 DEF SlugInv, Reads
<1>7. Writes' /\ RoutesCurrent'
  BY DEF SlugInv, Writes, RoutesCurrent, Under, Router
<1> QED BY <1>3, <1>4, <1>5, <1>6, <1>7 DEF SlugInv

LEMMA DispatchInv ==
    ASSUME SlugInv, NEW q \in SmRequests, NEW s \in SmSlugs, Dispatch(q, s)
    PROVE  SlugInv'
<1> DEFINE r == [slug |-> s, cfg |-> NoConfig, gen |-> 0, app |-> smCache[s],
          step |-> IF smCache[s] # NotBuilt THEN "serve" ELSE IF smRoute[s] # NoConfig THEN "lock" ELSE "store"]
<1>1. r \in Requests /\ r.step \in {"serve", "lock", "store"}
  BY SlugTypes DEF Requests
<1>2. smReq' = [smReq EXCEPT ![q] = r] /\ UNCHANGED <<smStore, Router, smBuilding, smOp, smReload, smStale>>
  BY DEF Dispatch, Management
<1> HIDE DEF r
<1> QED BY <1>1, <1>2, RequestMoves

\* A request that ends.
LEMMA EndsInv ==
    ASSUME SlugInv, NEW q \in SmRequests, ReqEnd(q), UNCHANGED <<smStore, Router, smOp, smReload, smStale>>,
           smBuilding' = smBuilding \/ (smReq[q].step = "build" \/ smBuilding \in {Nobody, q})
    PROVE  SlugInv'
<1>1. SmIdle.step = "idle" /\ smReq' = [smReq EXCEPT ![q] = SmIdle]
  BY DEF SmIdle, ReqEnd
<1> QED BY <1>1, RequestMoves

LEMMA ReadStoreInv ==
    ASSUME SlugInv, NEW q \in SmRequests, ReadStore(q)
    PROVE  SlugInv'
<1>1. /\ smReq[q].step = "store" /\ UNCHANGED <<smStore, Router, smBuilding, smOp, smReload, smStale>>
      /\ smReq[q] \in Requests /\ smReq[q].slug \in SmSlugs
  BY Busy, RequestType DEF ReadStore, Management
<1>2. CASE smStore[smReq[q].slug] = NoConfig
  BY <1>1, <1>2, EndsInv DEF ReadStore, Management
<1>3. CASE smStore[smReq[q].slug] # NoConfig
  <2> DEFINE r == [[smReq[q] EXCEPT !.step = "bind"] EXCEPT !.cfg = smStore[smReq[q].slug]]
  <2>1. smReq' = [smReq EXCEPT ![q] = r]
    BY <1>1, <1>3, SlugTypes DEF ReadStore, Management
  <2>2. smStore[smReq[q].slug] \in Configs
    BY <1>1, SlugTypes
  <2>3. r \in Requests /\ r.step = "bind" /\ r.cfg = smStore[smReq[q].slug] /\ r.slug = smReq[q].slug
    BY <1>1, <2>2 DEF Requests
  <2> HIDE DEF r
  <2> QED BY <1>1, <2>1, <2>3, RequestMoves
<1> QED BY <1>2, <1>3

LEMMA BindReadInv ==
    ASSUME SlugInv, NEW q \in SmRequests, BindRead(q)
    PROVE  SlugInv'
<1> DEFINE s == smReq[q].slug
           cfg == smReq[q].cfg
           r == [smReq[q] EXCEPT !.step = "lock"]
<1>1. /\ smReq[q].step = "bind" /\ PutRoute(s, cfg) /\ UNCHANGED <<smStore, smBuilding, smOp, smReload, smStale>>
      /\ smReq[q] \in Requests /\ s \in SmSlugs /\ cfg \in Configs
  BY Busy, RequestType DEF BindRead, Management
<1>2. smReq' = [smReq EXCEPT ![q] = r]
  BY SlugTypes DEF BindRead, SmStep
<1>3. r \in Requests /\ r.step = "lock"
  BY <1>1, RequestForms
<1>4. s \notin smStale => cfg = smStore[s]
  BY <1>1 DEF SlugInv, Reads
<1> HIDE DEF r, s, cfg
<1>5. /\ smReq' \in [SmRequests -> Requests \cup {SmIdle}] /\ smReq'[q] = r
      /\ \A p \in SmRequests \ {q} : smReq'[p] = smReq[p]
  BY <1>2, <1>3, Moved
<1>6. \A p \in SmRequests : smReq'[p].step = "build" => smReq'[p] = smReq[p] /\ smBuilding' = smBuilding
  BY <1>1, <1>3, <1>5
<1>7. /\ Numbered' /\ Cached' /\ AppsCurrent' /\ Tokens' /\ Builds'
      /\ smRoute' \in [SmSlugs -> Configs] /\ smGen' \in [SmSlugs -> Nat] /\ smCount' \in Nat
      /\ smCache' \in [SmSlugs -> Int] /\ smStack' \in [SmSlugs -> Int]
      /\ smRoute'[s] = cfg /\ \A t \in SmSlugs \ {s} : smRoute'[t] = smRoute[t]
  BY <1>1, <1>6, PutInv
<1>8. SmTypes'
  BY <1>1, <1>5, <1>7, SlugTypes DEF SmTypes
<1>9. Reads'
  BY <1>1, <1>3, <1>5 DEF SlugInv, Reads
<1>10. Writes' /\ RoutesCurrent'
  BY <1>1, <1>4, <1>7 DEF SlugInv, Writes, RoutesCurrent, Under
<1> QED BY <1>7, <1>8, <1>9, <1>10 DEF SlugInv

LEMMA CaptureInv ==
    ASSUME SlugInv, NEW q \in SmRequests, Capture(q)
    PROVE  SlugInv'
<1> DEFINE s == smReq[q].slug
<1>1. /\ smReq[q].step = "lock" /\ smBuilding \in {Nobody, q} /\ UNCHANGED <<smStore, Router, smOp, smReload, smStale>>
      /\ smReq[q] \in Requests /\ s \in SmSlugs
  BY Busy, RequestType DEF Capture, Management
<1>2. CASE smCache[s] # NotBuilt
  <2> DEFINE r == [[smReq[q] EXCEPT !.step = "serve"] EXCEPT !.app = smCache[s]]
  <2>1. smReq' = [smReq EXCEPT ![q] = r] /\ smBuilding' = Nobody
    BY <1>1, <1>2, SlugTypes DEF Capture, Management
  <2>2. r \in Requests /\ r.step = "serve"
    <3>1. smCache[s] \in Int
      BY <1>1, SlugTypes
    <3> QED BY <1>1, <3>1 DEF Requests
  <2> HIDE DEF r
  <2> QED BY <1>1, <2>1, <2>2, RequestMoves
<1>3. CASE smCache[s] = NotBuilt /\ smRoute[s] = NoConfig
  BY <1>1, <1>3, EndsInv DEF Capture, Management
<1>4. CASE smCache[s] = NotBuilt /\ smRoute[s] # NoConfig
  <2> DEFINE r == [[[smReq[q] EXCEPT !.step = "build"] EXCEPT !.cfg = smRoute[s]] EXCEPT !.gen = smGen[s]]
  <2>1. smReq' = [smReq EXCEPT ![q] = r] /\ smBuilding' = q
    BY <1>1, <1>4, SlugTypes DEF Capture, Management
  <2>2. smRoute[s] \in Configs /\ smGen[s] \in Nat /\ smGen[s] > 0 /\ smGen[s] <= smCount
    BY <1>1, <1>4, SlugTypes DEF SlugInv, Tokens
  <2>3. r \in Requests /\ r.step = "build" /\ r.cfg = smRoute[s] /\ r.gen = smGen[s] /\ r.slug = s
    BY <1>1, <2>2 DEF Requests
  <2> HIDE DEF r, s
  <2>4. /\ smReq' \in [SmRequests -> Requests \cup {SmIdle}] /\ smReq'[q] = r
        /\ \A p \in SmRequests \ {q} : smReq'[p] = smReq[p]
    BY <2>1, <2>3, Moved
  <2>5. ASSUME NEW p \in SmRequests \ {q} PROVE smReq'[p].step # "build"
    <3>1. p # Nobody
      BY SmConstants DEF Nobody
    <3> QED BY <1>1, <2>4, <3>1 DEF SlugInv, Builds
  <2>6. Builds'
    BY <1>1, <1>4, <2>1, <2>2, <2>3, <2>4, <2>5 DEF Builds, Router
  <2>7. Numbered' /\ Cached' /\ AppsCurrent' /\ Tokens'
    BY <1>1, AppsSame DEF Router, SlugInv, Tokens
  <2>8. SmTypes'
    BY <1>1, <2>4, SlugTypes DEF SmTypes, Router
  <2>9. Reads' /\ Writes' /\ RoutesCurrent'
    BY <1>1, <2>3, <2>4 DEF SlugInv, Reads, Writes, RoutesCurrent, Under, Router
  <2> QED BY <2>6, <2>7, <2>8, <2>9 DEF SlugInv
<1> QED BY <1>2, <1>3, <1>4

\* The tables of the applications with one more of them, that no slug has.
LEMMA Discarded ==
    ASSUME SlugInv, NEW app \in Apps, app.state # "open",
           smApps' = [a \in 1..NewApp |-> IF a = NewApp THEN app ELSE smApps[a]],
           UNCHANGED <<smCache, smStack, smRoute>>
    PROVE  Numbered' /\ Cached' /\ AppsCurrent'
<1>1. PICK n \in Nat : smApps \in [1..n -> Apps] /\ DOMAIN smApps = 1..n /\ NewApp = n + 1
  BY AppNumbers
<1>2. /\ smApps' \in [1..(n + 1) -> Apps] /\ DOMAIN smApps' = 1..(n + 1)
      /\ smApps'[n + 1] = app /\ \A a \in 1..n : smApps'[a] = smApps[a]
  BY <1>1
<1>3. Numbered'
  BY <1>2 DEF Numbered
<1>4. Cached'
  BY <1>1, <1>2 DEF SlugInv, Cached
<1>5. \A s \in SmSlugs : /\ smCache[s] \in 1..n \cup {NotBuilt, NoAsgi}
                         /\ smStack[s] = IF smCache[s] = NoAsgi THEN NotBuilt ELSE smCache[s]
  BY <1>1 DEF SlugInv, Cached
<1>6. \A s \in SmSlugs : smCache[s] # n + 1 /\ smStack[s] # n + 1
  BY <1>5 DEF NotBuilt, NoAsgi
<1>7. Opened' = Opened
  <2>1. Opened = {a \in 1..n : smApps[a].state = "open"} /\ Opened' = {a \in 1..(n + 1) : smApps'[a].state = "open"}
    BY <1>1, <1>2 DEF Opened
  <2>2. \A a \in 1..(n + 1) : a \in 1..n \/ a = n + 1
    OBVIOUS
  <2> QED BY <1>2, <2>1, <2>2
<1>8. {smStack[s] : s \in SmSlugs} \cap 1..(n + 1) = {smStack[s] : s \in SmSlugs} \cap 1..n
  BY <1>6
<1>9. Opened' = {smStack'[s] : s \in SmSlugs} \cap DOMAIN smApps'
  BY <1>1, <1>2, <1>7, <1>8 DEF SlugInv, AppsCurrent
<1>10. \A s \in SmSlugs : smCache[s] \in 1..(n + 1) => smCache[s] \in 1..n
  BY <1>6
<1>11. AppsCurrent'
  BY <1>1, <1>2, <1>9, <1>10 DEF SlugInv, AppsCurrent
<1> QED BY <1>3, <1>4, <1>11

\* An application that is kept: it is its slug's, as the slug is registered.
LEMMA SlugInstalled ==
    ASSUME SlugInv, NEW s \in SmSlugs, smCache[s] = NotBuilt,
           smApps' = [a \in 1..NewApp |-> IF a = NewApp THEN [cfg |-> smRoute[s], state |-> "open"] ELSE smApps[a]],
           smCache' = [smCache EXCEPT ![s] = NewApp], smStack' = [smStack EXCEPT ![s] = NewApp], UNCHANGED smRoute
    PROVE  Numbered' /\ Cached' /\ AppsCurrent'
<1> DEFINE app == [cfg |-> smRoute[s], state |-> "open"]
<1>1. PICK n \in Nat : smApps \in [1..n -> Apps] /\ DOMAIN smApps = 1..n /\ NewApp = n + 1
  BY AppNumbers
<1>2. app \in Apps /\ app.state = "open"
  BY SlugTypes DEF Apps
<1>3. /\ smApps' \in [1..(n + 1) -> Apps] /\ DOMAIN smApps' = 1..(n + 1)
      /\ smApps'[n + 1] = app /\ \A a \in 1..n : smApps'[a] = smApps[a]
  BY <1>1, <1>2
<1> HIDE DEF app
<1>4. /\ smCache'[s] = n + 1 /\ smStack'[s] = n + 1
      /\ \A t \in SmSlugs \ {s} : smCache'[t] = smCache[t] /\ smStack'[t] = smStack[t]
  BY <1>1, SlugTypes
<1>5. \A t \in SmSlugs : /\ smCache[t] \in 1..n \cup {NotBuilt, NoAsgi}
                         /\ smStack[t] = IF smCache[t] = NoAsgi THEN NotBuilt ELSE smCache[t]
  BY <1>1 DEF SlugInv, Cached
<1>6. smStack[s] = 0 /\ \A t \in SmSlugs : smCache[t] # n + 1 /\ smStack[t] # n + 1
  BY <1>5 DEF NotBuilt, NoAsgi
<1>7. Numbered'
  BY <1>3 DEF Numbered
<1>8. Cached'
  <2>1. ASSUME NEW t \in SmSlugs
        PROVE  /\ smCache'[t] \in 1..(n + 1) \cup {NotBuilt, NoAsgi}
               /\ smStack'[t] = IF smCache'[t] = NoAsgi THEN NotBuilt ELSE smCache'[t]
    BY <1>4, <1>5 DEF NotBuilt, NoAsgi
  <2>2. ASSUME NEW t \in SmSlugs, NEW u \in SmSlugs, t # u, smStack'[t] # NotBuilt PROVE smStack'[t] # smStack'[u]
    <3>1. CASE t = s
      BY <2>2, <3>1, <1>4, <1>6
    <3>2. CASE t # s /\ u = s
      BY <2>2, <3>2, <1>4, <1>6
    <3>3. CASE t # s /\ u # s
      BY <2>2, <3>3, <1>4 DEF SlugInv, Cached
    <3> QED BY <3>1, <3>2, <3>3
  <2> QED BY <1>3, <2>1, <2>2 DEF Cached
<1>9. Opened' = Opened \cup {n + 1}
  <2>1. Opened = {a \in 1..n : smApps[a].state = "open"} /\ Opened' = {a \in 1..(n + 1) : smApps'[a].state = "open"}
    BY <1>1, <1>3 DEF Opened
  <2>2. \A a \in 1..(n + 1) : a \in 1..n \/ a = n + 1
    OBVIOUS
  <2>3. n + 1 \in 1..(n + 1) /\ 1..n \subseteq 1..(n + 1)
    OBVIOUS
  <2> QED BY <1>2, <1>3, <2>1, <2>2, <2>3
<1>10. {smStack'[t] : t \in SmSlugs} \cap 1..(n + 1) = ({smStack[t] : t \in SmSlugs} \cap 1..n) \cup {n + 1}
  <2>1. ASSUME NEW x \in {smStack'[t] : t \in SmSlugs} \cap 1..(n + 1)
        PROVE  x \in ({smStack[t] : t \in SmSlugs} \cap 1..n) \cup {n + 1}
    BY <2>1, <1>4
  <2>2. ASSUME NEW t \in SmSlugs, smStack[t] \in 1..n PROVE smStack[t] \in {smStack'[u] : u \in SmSlugs} \cap 1..(n + 1)
    BY <2>2, <1>4, <1>6
  <2>3. n + 1 \in {smStack'[u] : u \in SmSlugs} \cap 1..(n + 1)
    BY <1>4
  <2> QED BY <2>1, <2>2, <2>3
<1>11. Opened' = {smStack'[t] : t \in SmSlugs} \cap DOMAIN smApps'
  BY <1>1, <1>3, <1>9, <1>10 DEF SlugInv, AppsCurrent
<1>12. ASSUME NEW t \in SmSlugs
       PROVE  /\ smCache'[t] \in DOMAIN smApps' => /\ smApps'[smCache'[t]] = [cfg |-> smRoute'[t], state |-> "open"]
                                                   /\ smStack'[t] = smCache'[t]
              /\ smCache'[t] = NoAsgi => smRoute'[t] \in SmStdio
  <2>1. CASE t = s
    BY <2>1, <1>3, <1>4 DEF NoAsgi, app
  <2>2. CASE t # s
    <3>1. smCache[t] \in 1..(n + 1) => smCache[t] \in 1..n
      BY <1>6
    <3> QED BY <2>2, <3>1, <1>1, <1>3, <1>4 DEF SlugInv, AppsCurrent
  <2> QED BY <2>1, <2>2
<1>13. AppsCurrent'
  BY <1>11, <1>12 DEF AppsCurrent
<1> QED BY <1>7, <1>8, <1>13

LEMMA BuiltInv ==
    ASSUME SlugInv, NEW q \in SmRequests, Built(q)
    PROVE  SlugInv'
<1> DEFINE s == smReq[q].slug
           cfg == smReq[q].cfg
<1>1. /\ smReq[q].step = "build" /\ UNCHANGED <<smStore, smRoute, smGen, smCount, smOp, smReload, smStale>>
      /\ smReq[q] \in Requests /\ s \in SmSlugs /\ cfg \in Configs
  BY Busy, RequestType DEF Built, Management
<1>2. /\ smBuilding = q /\ smReq[q].gen > 0
      /\ smGen[s] = smReq[q].gen => smCache[s] = NotBuilt /\ smRoute[s] = cfg
  BY <1>1 DEF SlugInv, Builds
<1>3. PICK n \in Nat : smApps \in [1..n -> Apps] /\ DOMAIN smApps = 1..n /\ NewApp = n + 1
  BY AppNumbers
\* where the request is then
<1>4. PICK r \in Requests \cup {SmIdle} : smReq' = [smReq EXCEPT ![q] = r] /\ r.step \notin {"build", "bind"}
  <2>1. CASE StillCurrent(s, smReq[q].gen)
    <3> DEFINE a == IF cfg \notin SmStdio THEN NewApp ELSE NoAsgi
               r == [[smReq[q] EXCEPT !.step = "serve"] EXCEPT !.app = a]
    <3>1. smReq' = [smReq EXCEPT ![q] = r]
      BY <1>1, <2>1, SlugTypes DEF Built, Management
    <3>2. a \in Int
      BY <1>3 DEF NoAsgi
    <3>3. r \in Requests /\ r.step = "serve"
      BY <1>1, <3>2 DEF Requests
    <3> QED BY <3>1, <3>3
  <2>2. CASE ~StillCurrent(s, smReq[q].gen) /\ smGen[s] = 0
    BY <1>1, <2>2 DEF Built, ReqEnd, SmIdle
  <2>3. CASE ~StillCurrent(s, smReq[q].gen) /\ smGen[s] # 0
    <3>1. smReq' = [smReq EXCEPT ![q] = [smReq[q] EXCEPT !.step = "lock"]]
      BY <1>1, <2>3, SlugTypes DEF Built, SmStep
    <3>2. [smReq[q] EXCEPT !.step = "lock"] \in Requests /\ [smReq[q] EXCEPT !.step = "lock"].step = "lock"
      BY <1>1 DEF Requests
    <3> QED BY <3>1, <3>2
  <2> QED BY <2>1, <2>2, <2>3
<1>5. /\ smReq' \in [SmRequests -> Requests \cup {SmIdle}] /\ smReq'[q] = r
      /\ \A p \in SmRequests \ {q} : smReq'[p] = smReq[p]
  BY <1>4, Moved
\* what became of the application
<1>6. /\ Numbered' /\ Cached' /\ AppsCurrent'
      /\ smCache' \in [SmSlugs -> Int] /\ smStack' \in [SmSlugs -> Int]
  <2>1. CASE cfg \notin SmStdio /\ StillCurrent(s, smReq[q].gen)
    <3>1. /\ smCache[s] = NotBuilt /\ smRoute[s] = cfg
          /\ smApps' = [a \in 1..NewApp |-> IF a = NewApp THEN [cfg |-> smRoute[s], state |-> "open"] ELSE smApps[a]]
          /\ smCache' = [smCache EXCEPT ![s] = NewApp] /\ smStack' = [smStack EXCEPT ![s] = NewApp]
      BY <1>1, <1>2, <2>1 DEF Built, StillCurrent
    <3>2. NewApp \in Int
      BY <1>3
    <3> QED BY <1>1, <3>1, <3>2, SlugTypes, SlugInstalled
  <2>2. CASE cfg \notin SmStdio /\ ~StillCurrent(s, smReq[q].gen)
    <3> DEFINE app == [cfg |-> cfg, state |-> "closing"]
    <3>1. app \in Apps /\ app.state # "open"
      BY <1>1 DEF Apps
    <3>2. /\ smApps' = [a \in 1..NewApp |-> IF a = NewApp THEN app ELSE smApps[a]]
          /\ UNCHANGED <<smCache, smStack, smRoute>>
      BY <1>1, <2>2 DEF Built, Management
    <3> HIDE DEF app
    <3> QED BY <1>1, <3>1, <3>2, SlugTypes, Discarded
  <2>3. CASE cfg \in SmStdio /\ StillCurrent(s, smReq[q].gen)
    <3>1. /\ smCache[s] = NotBuilt /\ smRoute[s] = cfg /\ UNCHANGED <<smApps, smStack, smRoute>>
          /\ smCache' = [smCache EXCEPT ![s] = NoAsgi]
      BY <1>1, <1>2, <2>3 DEF Built, StillCurrent
    <3>2. smCache'[s] = NoAsgi /\ \A t \in SmSlugs \ {s} : smCache'[t] = smCache[t]
      BY <1>1, <3>1, SlugTypes
    <3>3. smCache' \in [SmSlugs -> Int] /\ smStack' \in [SmSlugs -> Int]
      <4>1. NoAsgi \in Int /\ smCache \in [SmSlugs -> Int]
        BY SlugTypes DEF NoAsgi
      <4> QED BY <3>1, <4>1, SlugTypes
    <3>4. Numbered' /\ Cached'
      BY <3>1, <3>2 DEF SlugInv, Numbered, Cached, NotBuilt, NoAsgi
    <3>5. Opened' = Opened
      BY <3>1 DEF Opened
    <3>6. NoAsgi \notin DOMAIN smApps
      BY <1>3 DEF NoAsgi
    <3>7. AppsCurrent'
      BY <2>3, <3>1, <3>2, <3>5, <3>6 DEF SlugInv, AppsCurrent
    <3> QED BY <3>3, <3>4, <3>7
  <2>4. CASE cfg \in SmStdio /\ ~StillCurrent(s, smReq[q].gen)
    <3>1. UNCHANGED <<smCache, smStack, smApps, smRoute>>
      BY <1>1, <2>4 DEF Built, Management
    <3> QED BY <3>1, AppsSame, SlugTypes
  <2> QED BY <2>1, <2>2, <2>3, <2>4
<1>7. Builds' /\ Tokens'
  <2>1. ASSUME NEW p \in SmRequests, smReq'[p].step = "build" PROVE FALSE
    BY <1>2, <1>4, <1>5, <2>1 DEF SlugInv, Builds
  <2> QED BY <1>1, <2>1 DEF SlugInv, Builds, Tokens
<1>8. SmTypes'
  BY <1>1, <1>5, <1>6, SlugTypes DEF SmTypes
<1>9. Reads' /\ Writes' /\ RoutesCurrent'
  BY <1>1, <1>4, <1>5 DEF SlugInv, Reads, Writes, RoutesCurrent, Under
<1> QED BY <1>6, <1>7, <1>8, <1>9 DEF SlugInv

LEMMA CloseAppInv ==
    ASSUME SlugInv, NEW x \in DOMAIN smApps, CloseApp(x)
    PROVE  SlugInv'
<1>1. /\ smApps[x].state = "closing" /\ smApps' = [smApps EXCEPT ![x].state = "closed"]
      /\ UNCHANGED <<smStore, smRoute, smGen, smCount, smCache, smStack, smReq, smBuilding, smOp, smReload, smStale>>
  BY DEF CloseApp, Management
<1>2. PICK n \in Nat : smApps \in [1..n -> Apps] /\ DOMAIN smApps = 1..n
  BY AppNumbers
<1>3. smApps[x] \in Apps /\ [smApps[x] EXCEPT !.state = "closed"] \in Apps /\ [smApps[x] EXCEPT !.state = "closed"].state = "closed"
  BY <1>2 DEF Apps
<1>4. /\ smApps' \in [1..n -> Apps] /\ DOMAIN smApps' = 1..n /\ smApps'[x].state = "closed"
      /\ \A a \in 1..n \ {x} : smApps'[a] = smApps[a]
  BY <1>1, <1>2, <1>3
<1>5. Numbered'
  BY <1>4 DEF Numbered
<1>6. Cached'
  BY <1>1, <1>2, <1>4 DEF SlugInv, Cached
<1>7. Opened' = Opened
  <2>1. Opened = {a \in 1..n : smApps[a].state = "open"} /\ Opened' = {a \in 1..n : smApps'[a].state = "open"}
    BY <1>2, <1>4 DEF Opened
  <2> QED BY <1>1, <1>4, <2>1
<1>8. ASSUME NEW s \in SmSlugs, smCache[s] = x PROVE FALSE
  <2>1. smApps[x] = [cfg |-> smRoute[s], state |-> "open"]
    BY <1>8 DEF SlugInv, AppsCurrent
  <2> QED BY <1>1, <2>1
<1>9. AppsCurrent'
  BY <1>1, <1>2, <1>4, <1>7, <1>8 DEF SlugInv, AppsCurrent
<1>10. SmTypes' /\ Tokens' /\ Builds' /\ Reads' /\ Writes' /\ RoutesCurrent'
  BY <1>1 DEF SlugInv, SmTypes, Tokens, Builds, Reads, Writes, RoutesCurrent, Under
<1> QED BY <1>5, <1>6, <1>9, <1>10 DEF SlugInv

\* A step of the store, or of the reload, that leaves the router and the requests alone.
LEMMA StoreMoves ==
    ASSUME SlugInv, UNCHANGED <<Router, smReq, smBuilding>>,
           smStore' \in [SmSlugs -> Configs], smStale' \in SUBSET SmSlugs,
           smOp' \in [SmWriters -> {SmIdle} \cup Puts \cup Drops],
           smReload' \in {SmIdle, [step |-> "list"]} \cup Rehydrations,
           Reads', Writes', RoutesCurrent'
    PROVE  SlugInv'
<1>1. Numbered' /\ Cached' /\ AppsCurrent'
  BY AppsSame DEF Router
<1>2. Builds' /\ Tokens'
  BY BuildsKept DEF Router
<1>3. SmTypes'
  BY SlugTypes DEF SmTypes, Router
<1> QED BY <1>1, <1>2, <1>3 DEF SlugInv

\* A slug's row changes: nothing of it is on its way, or it is stale.
LEMMA RowMoves ==
    ASSUME SlugInv, NEW s \in SmSlugs, NEW cfg \in Configs, smStore' = [smStore EXCEPT ![s] = cfg],
           smStale' \in {smStale \cup {s}, smStale \ {s}}, s \in Held => s \in smStale'
    PROVE  /\ smStore' \in [SmSlugs -> Configs] /\ smStore'[s] = cfg /\ smStale' \in SUBSET SmSlugs
           /\ \A t \in SmSlugs \ {s} : smStore'[t] = smStore[t] /\ (t \in smStale' <=> t \in smStale)
           /\ UNCHANGED smReq => Reads'
           /\ \A w \in SmWriters : smOp[w].step = "put" /\ smOp[w].slug \notin smStale' => smOp[w].cfg = smStore'[smOp[w].slug]
           /\ smReload.step = "rehydrate" => \A t \in DOMAIN smReload.todo \ smStale' : smReload.todo[t] = smStore'[t]
<1>1. /\ smStore' \in [SmSlugs -> Configs] /\ smStore'[s] = cfg /\ smStale' \in SUBSET SmSlugs
      /\ \A t \in SmSlugs \ {s} : smStore'[t] = smStore[t] /\ (t \in smStale' <=> t \in smStale)
  BY SlugTypes
<1>2. ASSUME NEW q \in SmRequests, smReq[q].step = "bind", smReq[q].slug \notin smStale'
      PROVE  smReq[q].cfg = smStore'[smReq[q].slug]
  <2>1. smReq[q].slug \in SmSlugs
    BY <1>2, Busy, RequestType
  <2>2. smReq[q].slug # s
    BY <1>2, <2>1 DEF Held
  <2> QED BY <1>1, <1>2, <2>1, <2>2 DEF SlugInv, Reads
<1>3. UNCHANGED smReq => Reads'
  BY <1>2 DEF Reads
<1>4. ASSUME NEW w \in SmWriters, smOp[w].step = "put", smOp[w].slug \notin smStale'
      PROVE  smOp[w].cfg = smStore'[smOp[w].slug]
  <2>1. smOp[w].slug \in SmSlugs /\ smOp[w] # SmIdle
    BY <1>4, OpType
  <2>2. smOp[w].slug # s
    BY <1>4, <2>1 DEF Held
  <2> QED BY <1>1, <1>4, <2>1, <2>2 DEF SlugInv, Writes
<1>5. ASSUME smReload.step = "rehydrate", NEW t \in DOMAIN smReload.todo \ smStale' PROVE smReload.todo[t] = smStore'[t]
  <2>1. smReload \in Rehydrations
    BY <1>5, SlugTypes DEF SmIdle
  <2>2. DOMAIN smReload.todo \subseteq SmSlugs
    BY <2>1 DEF Rehydrations
  <2>3. t \in SmSlugs \ {s}
    BY <1>5, <2>2 DEF Held
  <2> QED BY <1>1, <1>5, <2>3 DEF SlugInv, Writes
<1> QED BY <1>1, <1>3, <1>4, <1>5

\* A save or a delete: the new row is what the operation will bind.
LEMMA OpStarts ==
    ASSUME SlugInv, NEW w \in SmWriters, NEW s \in SmSlugs, NEW cfg \in Configs, NEW op \in Puts \cup Drops,
           op.slug = s, op.step = "put" => op.cfg = cfg, smOp[w] = SmIdle,
           smStore' = [smStore EXCEPT ![s] = cfg], smOp' = [smOp EXCEPT ![w] = op], RouteOvertaken(s),
           UNCHANGED <<Router, smReq, smBuilding, smReload>>
    PROVE  SlugInv'
<1>1. smStale' \in {smStale \cup {s}, smStale \ {s}} /\ (s \in Held => s \in smStale')
  BY DEF RouteOvertaken
<1>2. /\ smStore' \in [SmSlugs -> Configs] /\ smStore'[s] = cfg /\ smStale' \in SUBSET SmSlugs
      /\ \A t \in SmSlugs \ {s} : smStore'[t] = smStore[t] /\ (t \in smStale' <=> t \in smStale)
      /\ Reads'
      /\ \A v \in SmWriters : smOp[v].step = "put" /\ smOp[v].slug \notin smStale' => smOp[v].cfg = smStore'[smOp[v].slug]
      /\ smReload.step = "rehydrate" => \A t \in DOMAIN smReload.todo \ smStale' : smReload.todo[t] = smStore'[t]
  BY <1>1, RowMoves
<1>3. /\ smOp' \in [SmWriters -> {SmIdle} \cup Puts \cup Drops] /\ smOp'[w] = op /\ op # SmIdle
      /\ \A v \in SmWriters \ {w} : smOp'[v] = smOp[v]
  BY SlugTypes DEF SmIdle, Puts, Drops
<1>4. Writes'
  BY <1>2, <1>3 DEF Writes
<1>5. ASSUME NEW t \in SmSlugs \ smStale' PROVE Under(t)' \/ smRoute'[t] \in {smStore'[t], NoConfig}
  <2>1. CASE t = s
    BY <1>3, <2>1 DEF Under
  <2>2. CASE t # s /\ Under(t)
    <3>1. PICK v \in SmWriters : smOp[v] # SmIdle /\ smOp[v].slug = t
      BY <2>2 DEF Under
    <3>2. CASE v = w
      BY <3>1, <3>2
    <3>3. CASE v # w
      BY <3>1, <3>3, <1>3 DEF Under
    <3> QED BY <3>2, <3>3
  <2>3. CASE t # s /\ ~Under(t)
    BY <2>3, <1>2 DEF SlugInv, RoutesCurrent, Router
  <2> QED BY <2>1, <2>2, <2>3
<1>6. RoutesCurrent'
  BY <1>5 DEF RoutesCurrent
<1> QED BY <1>2, <1>3, <1>4, <1>6, SlugTypes, StoreMoves

LEMMA SaveRouteInv ==
    ASSUME SlugInv, NEW w \in SmWriters, NEW s \in SmSlugs, NEW cfg \in SmConfigs, SaveRoute(w, s, cfg)
    PROVE  SlugInv'
<1> DEFINE op == [step |-> "put", slug |-> s, cfg |-> cfg]
<1>1. /\ smOp[w] = SmIdle /\ smStore' = [smStore EXCEPT ![s] = cfg] /\ smOp' = [smOp EXCEPT ![w] = op] /\ RouteOvertaken(s)
      /\ UNCHANGED <<Router, smReq, smBuilding, smReload>> /\ cfg \in Configs
  BY DEF SaveRoute, Configs
<1>2. op \in Puts /\ op.slug = s /\ op.cfg = cfg
  BY DEF Puts
<1> HIDE DEF op
<1> QED BY <1>1, <1>2, OpStarts

LEMMA DeleteRouteInv ==
    ASSUME SlugInv, NEW w \in SmWriters, NEW s \in SmSlugs, DeleteRoute(w, s)
    PROVE  SlugInv'
<1> DEFINE op == [step |-> "drop", slug |-> s]
<1>1. /\ smOp[w] = SmIdle /\ smStore' = [smStore EXCEPT ![s] = NoConfig] /\ smOp' = [smOp EXCEPT ![w] = op] /\ RouteOvertaken(s)
      /\ UNCHANGED <<Router, smReq, smBuilding, smReload>> /\ NoConfig \in Configs
  BY DEF DeleteRoute, Configs
<1>2. op \in Drops /\ op.slug = s /\ op.step = "drop"
  BY DEF Drops
<1> HIDE DEF op
<1> QED BY <1>1, <1>2, OpStarts

LEMMA UnheardWriteInv ==
    ASSUME SlugInv, NEW s \in SmSlugs, NEW cfg \in SmConfigs \cup {NoConfig}, UnheardWrite(s, cfg)
    PROVE  SlugInv'
<1>1. /\ smStore' = [smStore EXCEPT ![s] = cfg] /\ smStale' = smStale \cup {s}
      /\ UNCHANGED <<Router, smReq, smBuilding, smOp, smReload>> /\ cfg \in Configs
  BY DEF UnheardWrite, Configs, Management
<1>2. /\ smStore' \in [SmSlugs -> Configs] /\ smStale' \in SUBSET SmSlugs
      /\ \A t \in SmSlugs \ {s} : smStore'[t] = smStore[t] /\ (t \in smStale' <=> t \in smStale)
      /\ Reads'
      /\ \A v \in SmWriters : smOp[v].step = "put" /\ smOp[v].slug \notin smStale' => smOp[v].cfg = smStore'[smOp[v].slug]
      /\ smReload.step = "rehydrate" => \A t \in DOMAIN smReload.todo \ smStale' : smReload.todo[t] = smStore'[t]
  BY <1>1, RowMoves
<1>3. Writes'
  BY <1>1, <1>2 DEF Writes
<1>4. RoutesCurrent'
  BY <1>1, <1>2 DEF SlugInv, RoutesCurrent, Under, Router
<1> QED BY <1>1, <1>2, <1>3, <1>4, SlugTypes, StoreMoves

\* The reload lists the store: what is left stale is what was bound since the reset, or is on its way.
LEMMA ListRoutesInv ==
    ASSUME SlugInv, ListRoutes
    PROVE  SlugInv'
<1> DEFINE r == [step |-> "rehydrate", todo |-> [s \in Registered |-> smStore[s]]]
<1>1. /\ smReload.step = "list" /\ smReload' = r /\ UNCHANGED <<smStore, Router, smReq, smBuilding, smOp>>
      /\ smStale' = smStale \cap (Held \cup {s \in SmSlugs : smRoute[s] # NoConfig})
  BY DEF ListRoutes
<1>2. r.todo \in [Registered -> Configs] /\ Registered \in SUBSET SmSlugs
  BY SlugTypes DEF Registered
<1>3. r \in Rehydrations
  BY <1>2 DEF Rehydrations
<1>4. r.step = "rehydrate" /\ DOMAIN r.todo = Registered /\ \A s \in Registered : r.todo[s] = smStore[s]
  OBVIOUS
<1> HIDE DEF r
<1>5. ASSUME NEW w \in SmWriters, smOp[w].step = "put", smOp[w].slug \notin smStale'
      PROVE  smOp[w].cfg = smStore[smOp[w].slug]
  <2>1. smOp[w].slug \in Held
    BY <1>5, OpType DEF Held
  <2> QED BY <1>1, <1>5, <2>1 DEF SlugInv, Writes
<1>6. Writes'
  BY <1>1, <1>4, <1>5 DEF Writes
<1>7. Reads'
  <2>1. ASSUME NEW q \in SmRequests, smReq[q].step = "bind", smReq[q].slug \notin smStale'
        PROVE  smReq[q].cfg = smStore[smReq[q].slug]
    <3>1. smReq[q].slug \in Held
      BY <2>1, Busy, RequestType DEF Held
    <3> QED BY <1>1, <2>1, <3>1 DEF SlugInv, Reads
  <2> QED BY <1>1, <2>1 DEF Reads
<1>8. RoutesCurrent'
  BY <1>1 DEF SlugInv, RoutesCurrent, Under, Router
<1> QED BY <1>1, <1>3, <1>6, <1>7, <1>8, SlugTypes, StoreMoves

LEMMA RehydrateEndInv ==
    ASSUME SlugInv, RehydrateEnd
    PROVE  SlugInv'
<1>1. /\ smReload' = SmIdle /\ UNCHANGED <<smStore, Router, smReq, smBuilding, smOp, smStale>>
  BY DEF RehydrateEnd
<1>2. Reads' /\ Writes'
  BY <1>1 DEF SlugInv, Reads, Writes, SmIdle
<1>3. RoutesCurrent'
  BY <1>1 DEF SlugInv, RoutesCurrent, Under, Router
<1> QED BY <1>1, <1>2, <1>3, SlugTypes, StoreMoves

\* An operation, or the reload, binds a config: what it read, or its own.
LEMMA WriterPuts ==
    ASSUME SlugInv, NEW s \in SmSlugs, NEW cfg \in Configs, PutRoute(s, cfg), s \notin smStale => cfg = smStore[s],
           UNCHANGED <<smStore, smReq, smBuilding, smStale>>,
           smOp' \in [SmWriters -> {SmIdle} \cup Puts \cup Drops],
           smReload' \in {SmIdle, [step |-> "list"]} \cup Rehydrations,
           \A t \in SmSlugs \ {s} : Under(t) => Under(t)',
           Writes'
    PROVE  SlugInv'
<1>1. /\ Numbered' /\ Cached' /\ AppsCurrent' /\ Tokens' /\ Builds'
      /\ smRoute' \in [SmSlugs -> Configs] /\ smGen' \in [SmSlugs -> Nat] /\ smCount' \in Nat
      /\ smCache' \in [SmSlugs -> Int] /\ smStack' \in [SmSlugs -> Int]
      /\ smRoute'[s] = cfg /\ \A t \in SmSlugs \ {s} : smRoute'[t] = smRoute[t]
  BY PutInv
<1>2. SmTypes'
  BY <1>1, SlugTypes DEF SmTypes
<1>3. Reads'
  BY DEF SlugInv, Reads
<1>4. RoutesCurrent'
  BY <1>1 DEF SlugInv, RoutesCurrent
<1> QED BY <1>1, <1>2, <1>3, <1>4 DEF SlugInv

\* An operation that ends was at its slug only.
LEMMA OpEnds ==
    ASSUME SlugInv, NEW w \in SmWriters, OpEnd(w), UNCHANGED <<smStore, smStale, smReload>>
    PROVE  /\ smOp' \in [SmWriters -> {SmIdle} \cup Puts \cup Drops]
           /\ \A t \in SmSlugs \ {smOp[w].slug} : Under(t) => Under(t)'
           /\ Writes'
<1>1. /\ smOp' \in [SmWriters -> {SmIdle} \cup Puts \cup Drops] /\ smOp'[w] = SmIdle
      /\ \A v \in SmWriters \ {w} : smOp'[v] = smOp[v]
  BY SlugTypes DEF OpEnd
<1>2. ASSUME NEW t \in SmSlugs \ {smOp[w].slug}, Under(t) PROVE Under(t)'
  BY <1>1, <1>2 DEF Under
<1>3. Writes'
  BY <1>1 DEF SlugInv, Writes, SmIdle
<1> QED BY <1>1, <1>2, <1>3

LEMMA SwapRouteInv ==
    ASSUME SlugInv, NEW w \in SmWriters, SwapRoute(w)
    PROVE  SlugInv'
<1>1. /\ smOp[w].step = "put" /\ PutRoute(smOp[w].slug, smOp[w].cfg) /\ OpEnd(w)
      /\ UNCHANGED <<smStore, smReq, smBuilding, smReload, smStale>>
  BY DEF SwapRoute
<1>2. smOp[w].slug \in SmSlugs /\ smOp[w].cfg \in Configs
  BY <1>1, OpType
<1>3. smOp[w].slug \notin smStale => smOp[w].cfg = smStore[smOp[w].slug]
  BY <1>1 DEF SlugInv, Writes
<1>4. /\ smOp' \in [SmWriters -> {SmIdle} \cup Puts \cup Drops] /\ Writes'
      /\ \A t \in SmSlugs \ {smOp[w].slug} : Under(t) => Under(t)'
  BY <1>1, OpEnds
<1>5. smReload' \in {SmIdle, [step |-> "list"]} \cup Rehydrations
  BY <1>1, SlugTypes
<1> QED BY <1>1, <1>2, <1>3, <1>4, <1>5, WriterPuts

LEMMA RehydrateInv ==
    ASSUME SlugInv, NEW s \in SmSlugs, Rehydrate(s)
    PROVE  SlugInv'
<1> DEFINE left == [x \in DOMAIN smReload.todo \ {s} |-> smReload.todo[x]]
           r == [smReload EXCEPT !.todo = left]
<1>1. /\ smReload.step = "rehydrate" /\ s \in DOMAIN smReload.todo /\ PutRoute(s, smReload.todo[s])
      /\ smReload' = r /\ UNCHANGED <<smStore, smReq, smBuilding, smOp, smStale>>
  BY DEF Rehydrate
<1>2. smReload \in Rehydrations
  BY <1>1, SlugTypes DEF SmIdle
<1>3. PICK S \in SUBSET SmSlugs : smReload \in [step : {"rehydrate"}, todo : [S -> Configs]]
  BY <1>2 DEF Rehydrations
<1>4. DOMAIN smReload.todo = S /\ smReload.todo[s] \in Configs
  BY <1>1, <1>3
<1>5. left \in [S \ {s} -> Configs]
  BY <1>3, <1>4
<1> HIDE DEF left
<1>6. r \in [step : {"rehydrate"}, todo : [S \ {s} -> Configs]] /\ r.step = "rehydrate" /\ r.todo = left
  BY <1>3, <1>5
<1>7. r \in Rehydrations
  BY <1>6 DEF Rehydrations
<1> HIDE DEF r
<1>8. s \notin smStale => smReload.todo[s] = smStore[s]
  BY <1>1 DEF SlugInv, Writes
<1>9. \A t \in SmSlugs : Under(t) => Under(t)'
  BY <1>1 DEF Under
<1>10. Writes'
  BY <1>1, <1>6 DEF SlugInv, Writes, left
<1> QED BY <1>1, <1>4, <1>7, <1>8, <1>9, <1>10, SlugTypes, WriterPuts

\* An unregistered slug answers nothing, whatever was read of it.
LEMMA UnbindRouteInv ==
    ASSUME SlugInv, NEW w \in SmWriters, UnbindRoute(w)
    PROVE  SlugInv'
<1> DEFINE s == smOp[w].slug
<1>1. /\ smOp[w].step = "drop" /\ DropRoute(s) /\ OpEnd(w)
      /\ UNCHANGED <<smStore, smReq, smBuilding, smReload, smStale>>
  BY DEF UnbindRoute
<1>3. s \in SmSlugs
  BY <1>1, OpType
<1>4. /\ smOp' \in [SmWriters -> {SmIdle} \cup Puts \cup Drops] /\ Writes'
      /\ \A t \in SmSlugs \ {s} : Under(t) => Under(t)'
  BY <1>1, OpEnds
<1>5. Reads'
  BY <1>1 DEF SlugInv, Reads
<1> HIDE DEF s
<1>6. CASE smRoute[s] = NoConfig
  <2>1. UNCHANGED Router
    BY <1>1, <1>6 DEF DropRoute
  <2>2. RoutesCurrent'
    BY <1>1, <1>4, <1>6, <2>1 DEF SlugInv, RoutesCurrent, Router
  <2> QED BY <1>1, <1>4, <1>5, <2>1, <2>2, SlugTypes, StoreMoves
<1>7. CASE smRoute[s] # NoConfig
  <2>1. /\ smRoute' = [smRoute EXCEPT ![s] = NoConfig] /\ smGen' = [smGen EXCEPT ![s] = 0] /\ UNCHANGED smCount
        /\ smCache' = [smCache EXCEPT ![s] = NotBuilt] /\ smStack' = [smStack EXCEPT ![s] = NotBuilt]
        /\ smApps' = Closing(Owned(s))
    BY <1>1, <1>7 DEF DropRoute, PopRoute
  <2>2. /\ smRoute' \in [SmSlugs -> Configs] /\ smGen' \in [SmSlugs -> Nat]
        /\ smCache' \in [SmSlugs -> Int] /\ smStack' \in [SmSlugs -> Int]
        /\ smRoute'[s] = NoConfig /\ smGen'[s] = 0 /\ smCache'[s] = NotBuilt
        /\ \A t \in SmSlugs \ {s} : smRoute'[t] = smRoute[t] /\ smGen'[t] = smGen[t] /\ smCache'[t] = smCache[t]
    BY <1>3, <2>1, SlugTypes DEF NotBuilt
  <2>3. Numbered' /\ Cached' /\ AppsCurrent'
    BY <1>3, <2>1, <2>2, Evicted
  <2>4. Tokens'
    BY <2>1, <2>2, SlugTypes DEF SlugInv, Tokens
  <2>5. Builds'
    <3>1. ASSUME NEW q \in SmRequests, smReq[q].step = "build"
          PROVE  /\ smBuilding = q /\ smReq[q].gen > 0 /\ smReq[q].gen <= smCount
                 /\ smGen'[smReq[q].slug] = smReq[q].gen =>
                       smCache'[smReq[q].slug] = NotBuilt /\ smRoute'[smReq[q].slug] = smReq[q].cfg
      <4>1. smReq[q].slug \in SmSlugs /\ smReq[q].gen \in Nat
        BY <3>1, Busy, RequestType
      <4> QED BY <2>2, <3>1, <4>1 DEF SlugInv, Builds
    <3> QED BY <1>1, <2>1, <3>1 DEF Builds
  <2>6. SmTypes'
    BY <1>1, <1>4, <2>1, <2>2, SlugTypes DEF SmTypes
  <2>7. RoutesCurrent'
    BY <1>1, <1>4, <2>2 DEF SlugInv, RoutesCurrent
  <2> QED BY <1>4, <1>5, <2>3, <2>4, <2>5, <2>6, <2>7 DEF SlugInv
<1> QED BY <1>6, <1>7

\* A reset empties the tables, and no token in flight stands any more.
LEMMA ResetInv ==
    ASSUME SlugInv, Reset
    PROVE  SlugInv'
<1>1. /\ smRoute' = [s \in SmSlugs |-> NoConfig] /\ smGen' = [s \in SmSlugs |-> 0]
      /\ smCount' = smCount + 1 /\ smCache' = [s \in SmSlugs |-> NotBuilt] /\ smStack' = [s \in SmSlugs |-> NotBuilt]
      /\ smApps' = Closing(UNION {Owned(s) : s \in SmSlugs}) /\ smReload' = [step |-> "list"]
      /\ UNCHANGED <<smStore, smReq, smBuilding, smOp, smStale>>
  BY DEF Reset
<1>2. PICK n \in Nat : smApps \in [1..n -> Apps] /\ DOMAIN smApps = 1..n
  BY AppNumbers
<1> DEFINE gone == UNION {Owned(s) : s \in SmSlugs}
<1>3. \A a \in DOMAIN smApps : a \in gone <=> \E s \in SmSlugs : smStack[s] = a
  BY DEF Owned
<1> HIDE DEF gone
<1>4. \A a \in 1..n : smApps[a] \in Apps /\ [smApps[a] EXCEPT !.state = "closing"] \in Apps
                     /\ [smApps[a] EXCEPT !.state = "closing"].state = "closing"
  BY <1>2 DEF Apps
<1>5. smApps' = [a \in DOMAIN smApps |-> IF a \in gone THEN [smApps[a] EXCEPT !.state = "closing"] ELSE smApps[a]]
  BY <1>1 DEF Closing, gone
<1>6. ASSUME NEW a \in DOMAIN smApps PROVE smApps'[a] \in Apps /\ smApps'[a].state # "open"
  <2>1. CASE a \in gone
    BY <2>1, <1>2, <1>4, <1>5
  <2>2. CASE a \notin gone
    <3>1. a \notin {smStack[s] : s \in SmSlugs}
      BY <1>3, <2>2
    <3>2. a \notin Opened
      BY <3>1 DEF SlugInv, AppsCurrent
    <3> QED BY <3>2, <2>2, <1>2, <1>4, <1>5 DEF Opened
  <2> QED BY <2>1, <2>2
<1>7. DOMAIN smApps' = DOMAIN smApps /\ smApps' = [a \in DOMAIN smApps |-> smApps'[a]]
  BY <1>5
<1>8. Numbered' /\ Cached' /\ AppsCurrent'
  BY <1>1, <1>6, <1>7, AllEvicted
<1>9. SmTypes'
  BY <1>1, SlugTypes DEF SmTypes, NotBuilt
<1>10. Tokens'
  BY <1>1, SlugTypes DEF Tokens
<1>11. Builds'
  <2>1. ASSUME NEW q \in SmRequests, smReq[q].step = "build"
        PROVE  /\ smBuilding = q /\ smReq[q].gen > 0 /\ smReq[q].gen <= smCount + 1
               /\ smGen'[smReq[q].slug] # smReq[q].gen
    <3>1. smReq[q].slug \in SmSlugs /\ smReq[q].gen \in Nat
      BY <2>1, Busy, RequestType
    <3> QED BY <1>1, <2>1, <3>1, SlugTypes DEF SlugInv, Builds
  <2> QED BY <1>1, <2>1 DEF Builds
<1>12. Reads' /\ Writes' /\ RoutesCurrent'
  BY <1>1 DEF SlugInv, Reads, Writes, RoutesCurrent
<1> QED BY <1>8, <1>9, <1>10, <1>11, <1>12 DEF SlugInv

LEMMA RestartInv ==
    ASSUME SlugInv, Restart
    PROVE  SlugInv'
<1>1. /\ smRoute' = [s \in SmSlugs |-> NoConfig] /\ smGen' = [s \in SmSlugs |-> 0] /\ smCount' = 0
      /\ smCache' = [s \in SmSlugs |-> NotBuilt] /\ smStack' = [s \in SmSlugs |-> NotBuilt]
      /\ smApps' = [a \in DOMAIN smApps |-> [smApps[a] EXCEPT !.state = "closed"]]
      /\ smReq' = [q \in SmRequests |-> SmIdle] /\ smOp' = [w \in SmWriters |-> SmIdle]
      /\ smReload' = [step |-> "list"] /\ smStale' = {} /\ UNCHANGED smStore
  BY DEF Restart
<1>2. PICK n \in Nat : smApps \in [1..n -> Apps] /\ DOMAIN smApps = 1..n
  BY AppNumbers
<1>3. \A a \in DOMAIN smApps : [smApps[a] EXCEPT !.state = "closed"] \in Apps
                              /\ [smApps[a] EXCEPT !.state = "closed"].state = "closed"
  BY <1>2 DEF Apps
<1>4. DOMAIN smApps' = DOMAIN smApps /\ smApps' = [a \in DOMAIN smApps |-> smApps'[a]]
  BY <1>1
<1>5. \A a \in DOMAIN smApps : smApps'[a] \in Apps /\ smApps'[a].state # "open"
  BY <1>1, <1>3
<1>6. Numbered' /\ Cached' /\ AppsCurrent'
  BY <1>1, <1>4, <1>5, AllEvicted
<1>7. SmTypes'
  BY <1>1, SlugTypes DEF SmTypes, NotBuilt
<1>8. Tokens' /\ Builds' /\ Reads' /\ Writes' /\ RoutesCurrent'
  BY <1>1 DEF Tokens, Builds, Reads, Writes, RoutesCurrent, SmIdle
<1> QED BY <1>6, <1>7, <1>8 DEF SlugInv

----------------------------------------------------------------------------
LEMMA SlugStep == SlugInv /\ [SmNext]_smVars => SlugInv'
<1> SUFFICES ASSUME SlugInv, [SmNext]_smVars PROVE SlugInv'
  OBVIOUS
<1>1. ASSUME NEW q \in SmRequests, BuildFails(q) \/ Serve(q) PROVE SlugInv'
  BY <1>1, EndsInv DEF BuildFails, Serve, Management
<1>2. CASE UNCHANGED smVars
  BY <1>2, AppsSame, BuildsKept
     DEF smVars, Management, SlugInv, SmTypes, Reads, Writes, RoutesCurrent, Under
<1> QED
  BY <1>1, <1>2, DispatchInv, ReadStoreInv, BindReadInv, CaptureInv, BuiltInv, CloseAppInv, SaveRouteInv, UnheardWriteInv,
     DeleteRouteInv, RehydrateInv, SwapRouteInv, UnbindRouteInv, ResetInv, ListRoutesInv, RehydrateEndInv, RestartInv DEF SmNext

\* The router's tables, the builds under way and the reads of the store stay in order.
THEOREM SlugInvariance == SmSpec => []SlugInv
<1> QED BY SmInitInv, SlugStep, PTL DEF SmSpec

(* Whatever is registered, replaced, deleted, reset and rehydrated while     *)
(* applications are built, by any number of requests: a cached application   *)
(* is the one of the slug's registration and its lifespan runs, no other     *)
(* does, and a slug whose writes did not overlap, and were all heard of, is    *)
(* served as it is stored.                                                   *)
THEOREM SlugsServeTheirConfig == SmSpec => []SlugsCurrent
<1> QED BY SlugInvariance, SlugInvSound, PTL

----------------------------------------------------------------------------
(* The fleet. *)

Msgs(s) == {s[i] : i \in DOMAIN s}
Asked == MaxRequests - budget.requests
Aimed(p) == ask[p].targets = None \/ p \in ask[p].targets

\* No version is newer than what is stored, and a message carries the base of the request it names.
OpSound(op) ==
    /\ Covers(stored, op.base) /\ op.n <= Asked
    /\ op.n = ask[op.pub].n => op.base = ask[op.pub].base
Versioned ==
    /\ \A d \in Docs : stored[d] <= Asked /\ published[d] <= stored[d]
    /\ \A p \in Procs : Covers(stored, loaded[p]) /\ Covers(stored, ask[p].base) /\ ask[p].n <= Asked
    /\ \A w \in Workers : (\A op \in Msgs(chan[w]) : OpSound(op)) /\ (cur[w] # None => OpSound(cur[w]))

\* A reload holds its process's gate, and what it has read is not older than what is loaded.
Gated ==
    /\ \A w \in Workers :
         /\ sub[w] \in {"env", "man"} => gate[w] = "sub"
         /\ sub[w] = "off" => req[w] = "off"
         /\ sub[w] = "man" => loaded[w]["man"] <= got[w]["sub"] /\ got[w]["sub"] <= stored["man"]
    /\ \A p \in Procs :
         /\ req[p] \in {"env", "man"} => gate[p] = "req"
         /\ req[p] = "man" => loaded[p]["man"] <= got[p]["req"] /\ got[p]["req"] <= stored["man"]
    /\ \A c \in Children : req[c] = "off" => \A d \in Docs : loaded[c][d] = 0

\* What the fleet was told of a document is in v, or on its way to w.
Heard(w, d, v) ==
    v >= published[d] \/ \E op \in Msgs(chan[w]) : op.pub # w /\ op.targets = None /\ op.base[d] >= published[d]
Known ==
    \A w \in conn :
        /\ sub[w] = "want" \/ Heard(w, "env", loaded[w]["env"])
        /\ sub[w] \in {"want", "env", "man"} \/ failed[w] \/ Heard(w, "man", loaded[w]["man"])
        /\ sub[w] = "man" => Heard(w, "man", got[w]["sub"])
        /\ req[w] = "man" => sub[w] = "want" \/ Heard(w, "man", got[w]["req"])

\* What a reload for an op, or for the process's own request, has read covers its base.
ForOp ==
    \A w \in Workers : cur[w] # None =>
        /\ sub[w] \in {"env", "man"} => loaded[w]["env"] >= cur[w].base["env"]
        /\ sub[w] = "man" => got[w]["sub"] >= cur[w].base["man"]
ForRequest ==
    \A p \in Procs :
        /\ req[p] \in {"env", "man"} => loaded[p]["env"] >= ask[p].base["env"]
        /\ req[p] = "man" => got[p]["req"] >= ask[p].base["man"]
        /\ req[p] \in {"scan", "publish"} /\ ask[p].targets = None =>
             /\ loaded[p]["env"] >= ask[p].base["env"] /\ (failed[p] \/ loaded[p]["man"] >= ask[p].base["man"])
             /\ p \in Workers /\ sub[p] = "man" => got[p]["sub"] >= ask[p].base["man"]

\* Who is said to have applied a request runs with it.
Applied ==
    \A p \in Procs :
        /\ ask[p].local = "applied" => Covers(loaded[p], ask[p].base)
        /\ \A o \in Workers : coll[p].terminal[o] = "applied" => Covers(loaded[o], ask[p].base)

\* What is known of a request at each of its stages.
StageOf(p) ==
    /\ req[p] \notin {"off", "idle", "dead"} => ask[p].n > 0
    /\ req[p] \notin {"collect", "done"} => \A o \in Workers : coll[p].terminal[o] = "none"
    /\ req[p] \in {"off", "idle", "dead"} \cup Reloading => ask[p].local = "none"
    /\ req[p] \in Reloading => Aimed(p)
    /\ req[p] \in {"scan", "publish", "collect", "done"} => (ask[p].local # "none" <=> Aimed(p))
    /\ p \notin coll[p].expected
Tabled == report = [p \in Procs |-> report[p]]
Staged == Tabled /\ \A p \in Procs : StageOf(p)

FleetInv ==
    /\ TypeOK /\ Versioned /\ Gated /\ Known /\ ForOp /\ ForRequest /\ Applied /\ Staged
    /\ AppliedIsFresh /\ NobodyUnreported
Grown == \A p \in Procs : Covers(loaded'[p], loaded[p])

----------------------------------------------------------------------------
(* Queues of messages. *)

LEMMA EmptyQueue == ASSUME NEW S PROVE <<>> \in Seq(S) /\ Msgs(<<>>) = {}
  BY DEF Msgs

LEMMA QueueHead ==
  ASSUME NEW S, NEW s \in Seq(S), s # <<>>
  PROVE  Head(s) \in Msgs(s) /\ Head(s) \in S /\ Tail(s) \in Seq(S) /\ Msgs(s) = Msgs(Tail(s)) \cup {Head(s)}
<1>1. Len(s) \in Nat \ {0} /\ DOMAIN s = 1 .. Len(s) /\ Head(s) = s[1] /\ s[1] \in S
  OBVIOUS
<1>2. Tail(s) \in Seq(S) /\ Len(Tail(s)) = Len(s) - 1 /\ \A i \in 1 .. Len(s) - 1 : Tail(s)[i] = s[i + 1]
  OBVIOUS
<1>3. DOMAIN Tail(s) = 1 .. Len(s) - 1
  BY <1>2
<1>4. ASSUME NEW i \in DOMAIN s PROVE s[i] \in Msgs(Tail(s)) \cup {Head(s)}
  <2>1. CASE i = 1
    BY <2>1, <1>1
  <2>2. CASE i # 1
    <3>1. i - 1 \in DOMAIN Tail(s) /\ Tail(s)[i - 1] = s[i]
      BY <2>2, <1>1, <1>2, <1>3
    <3> QED BY <3>1 DEF Msgs
  <2> QED BY <2>1, <2>2
<1>5. ASSUME NEW i \in DOMAIN Tail(s) PROVE Tail(s)[i] \in Msgs(s)
  <2>1. i + 1 \in DOMAIN s /\ Tail(s)[i] = s[i + 1]
    BY <1>1, <1>2, <1>3
  <2> QED BY <2>1 DEF Msgs
<1>6. Head(s) \in Msgs(s)
  BY <1>1 DEF Msgs
<1> QED BY <1>1, <1>2, <1>4, <1>5, <1>6 DEF Msgs

LEMMA QueueAppend ==
  ASSUME NEW S, NEW s \in Seq(S), NEW e \in S
  PROVE  Append(s, e) \in Seq(S) /\ Msgs(Append(s, e)) = Msgs(s) \cup {e}
<1>1. Len(s) \in Nat /\ DOMAIN s = 1 .. Len(s)
  OBVIOUS
<1>2. Append(s, e) \in Seq(S) /\ DOMAIN Append(s, e) = 1 .. Len(s) + 1 /\ Append(s, e)[Len(s) + 1] = e
      /\ \A i \in 1 .. Len(s) : Append(s, e)[i] = s[i]
  OBVIOUS
<1>3. ASSUME NEW i \in DOMAIN Append(s, e) PROVE Append(s, e)[i] \in Msgs(s) \cup {e}
  <2>1. CASE i = Len(s) + 1
    BY <2>1, <1>2
  <2>2. CASE i # Len(s) + 1
    <3>1. i \in DOMAIN s /\ Append(s, e)[i] = s[i]
      BY <2>2, <1>1, <1>2
    <3> QED BY <3>1 DEF Msgs
  <2> QED BY <2>1, <2>2
<1>4. ASSUME NEW i \in DOMAIN s PROVE s[i] \in Msgs(Append(s, e))
  <2>1. i \in DOMAIN Append(s, e) /\ Append(s, e)[i] = s[i]
    BY <1>1, <1>2
  <2> QED BY <2>1 DEF Msgs
<1>5. e \in Msgs(Append(s, e))
  <2>1. Len(s) + 1 \in DOMAIN Append(s, e)
    BY <1>1, <1>2
  <2> QED BY <2>1, <1>2 DEF Msgs
<1> QED BY <1>2, <1>3, <1>4, <1>5 DEF Msgs

LEMMA QueueType == ASSUME NEW S, NEW s \in Seq(S) PROVE Msgs(s) \subseteq S
  BY DEF Msgs

----------------------------------------------------------------------------
(* What is spent, and the parts of a reload. *)

LEMMA Spending ==
  ASSUME TypeOK, NEW b \in {"drops", "faults", "failures", "deaths"}, Spend(b)
  PROVE  budget' \in Scenario /\ Asked' = Asked /\ Asked \in 0 .. MaxRequests
         /\ budget'.requesters = budget.requesters /\ budget'.targets = budget.targets
<1>1. budget \in Scenario /\ MaxRequests \in Nat
  BY FleetConstants DEF TypeOK
<1> QED BY <1>1 DEF Spend, Scenario, Asked

LEMMA Asking ==
  ASSUME TypeOK, Spend("requests")
  PROVE  /\ budget' \in Scenario /\ Asked \in 0 .. MaxRequests
         /\ Asked' = Asked + 1 /\ Asked' \in 1 .. MaxRequests /\ Asked' = MaxRequests - budget'.requests
<1>1. budget \in Scenario /\ MaxRequests \in Nat
  BY FleetConstants DEF TypeOK
<1> QED BY <1>1 DEF Spend, Scenario, Asked

LEMMA AskedNumber == TypeOK => Asked \in 0 .. MaxRequests /\ MaxRequests \in Nat
  BY FleetConstants DEF TypeOK, Scenario, Asked

ReloadTyped ==
    /\ loaded \in [Procs -> Versions] /\ failed \in [Procs -> BOOLEAN]
    /\ gate \in [Procs -> {"sub", "req", None}] /\ got \in [Procs -> [{"sub", "req"} -> 0..MaxRequests]]
BusTyped ==
    /\ sub \in [Workers -> SubStates] /\ cur \in [Workers -> Ops \cup {None}]
    /\ conn \subseteq Workers /\ chan \in [Workers -> Seq(Ops)]
    /\ presence \subseteq Workers /\ hb \subseteq Workers
AskTyped ==
    ask \in [Procs -> [n : 0..MaxRequests, base : Versions, targets : (SUBSET Workers) \cup {None}, local : Wire \cup {"none"}]]
Colls == [expected : SUBSET Workers, acked : SUBSET Workers, terminal : [Workers -> Wire \cup {"none"}]]
ReportTyped ==
    \A p \in Procs : /\ report[p].reachable \in BOOLEAN
                     /\ DOMAIN report[p].results \subseteq Procs
                     /\ \A o \in DOMAIN report[p].results : report[p].results[o] \in Verdicts

LEMMA Typed ==
  TypeOK <=> /\ stored \in Versions /\ published \in Versions /\ ReloadTyped /\ BusTyped
             /\ req \in [Procs -> ReqStates] /\ AskTyped /\ coll \in [Procs -> Colls] /\ ReportTyped
             /\ budget \in Scenario
  BY DEF TypeOK, ReloadTyped, BusTyped, AskTyped, Colls, ReportTyped

LEMMA UnreachableReport ==
  Unreachable.reachable = FALSE /\ DOMAIN Unreachable.results = {} /\ Unreachable \in [reachable : BOOLEAN, results : [{} -> Verdicts]]
  BY DEF Unreachable

LEMMA ReloadTypes ==
  ASSUME TypeOK, NEW p \in Procs, NEW t \in {"sub", "req"},
         ReadEnv(p, t) \/ ReadManifest(p, t) \/ Installed(p, t) \/ Raised(p, t)
  PROVE  ReloadTyped'
<1> USE DEF TypeOK, ReloadTyped, Versions, Docs
<1>1. CASE ReadEnv(p, t)
  BY <1>1 DEF ReadEnv, HoldGate
<1>2. CASE ReadManifest(p, t)
  BY <1>2 DEF ReadManifest
<1>5. ASSUME ReleaseGate(p, t)
      PROVE  gate' \in [Procs -> {"sub", "req", None}] /\ got' \in [Procs -> [{"sub", "req"} -> 0..MaxRequests]]
  <2>1. MaxRequests \in Nat
    BY FleetConstants
  <2>2. gate' \in [Procs -> {"sub", "req", None}]
    BY <1>5 DEF ReleaseGate
  <2>3. got' \in [Procs -> [{"sub", "req"} -> 0..MaxRequests]]
    BY <1>5, <2>1 DEF ReleaseGate
  <2> QED BY <2>2, <2>3
<1>3. CASE Installed(p, t)
  <2>1. got[p][t] \in 0..MaxRequests
    OBVIOUS
  <2>2. loaded' \in [Procs -> Versions] /\ failed' \in [Procs -> BOOLEAN]
    BY <1>3, <2>1 DEF Installed
  <2> QED BY <1>3, <1>5, <2>2 DEF Installed
<1>4. CASE Raised(p, t)
  BY <1>4, <1>5 DEF Raised
<1> QED BY <1>1, <1>2, <1>3, <1>4

LEMMA ReplyTypes ==
  ASSUME TypeOK, NEW w \in Workers, NEW op \in Ops, NEW outcome \in Wire, Ack(w, op) \/ Reply(w, op, outcome)
  PROVE  coll' \in [Procs -> Colls]
<1>1. coll \in [Procs -> Colls] /\ op.pub \in Procs
  BY Typed DEF Ops
<1>2. CASE Ack(w, op)
  BY <1>1, <1>2 DEF Ack, Colls
<1>3. CASE Reply(w, op, outcome)
  BY <1>1, <1>3 DEF Reply, Colls
<1> QED BY <1>2, <1>3

LEMMA AckTypes ==
  ASSUME TypeOK, NEW w \in Workers, NEW op \in Ops, Ack(w, op)
  PROVE  coll' \in [Procs -> Colls]
<1>1. "applied" \in Wire
  BY DEF Wire
<1> QED BY <1>1, ReplyTypes

LEMMA ReconnectTypes ==
  ASSUME TypeOK, NEW w \in Workers, Reconnect(w)
  PROVE  BusTyped'
<1>1. BusTyped
  BY Typed
<1> QED BY <1>1, EmptyQueue DEF BusTyped, Reconnect, SubStates

LEMMA AfterReloadTypes ==
  ASSUME TypeOK, NEW w \in Workers, NEW outcome \in Wire, AfterReload(w, outcome), UNCHANGED <<conn, chan, presence, hb>>
  PROVE  BusTyped' /\ coll' \in [Procs -> Colls]
<1>1. BusTyped /\ coll \in [Procs -> Colls]
  BY Typed
<1>2. CASE cur[w] = None
  BY <1>1, <1>2 DEF AfterReload, BusTyped, SubStates
<1>3. CASE cur[w] # None
  <2>1. cur[w] \in Ops
    BY <1>1, <1>3 DEF BusTyped
  <2> QED BY <1>1, <1>3, <2>1, ReplyTypes DEF AfterReload, BusTyped, SubStates
<1> QED BY <1>2, <1>3

LEMMA InitiallyTyped == Init => TypeOK
<1> SUFFICES ASSUME Init PROVE TypeOK
  OBVIOUS
<1>1. PICK scenario \in Scenarios : budget = scenario
  BY DEF Init
<1>2. budget \in Scenario /\ MaxRequests \in Nat
  BY <1>1, FleetConstants
<1>3. stored \in Versions /\ published \in Versions /\ ReloadTyped
  BY <1>2, FleetConstants DEF Init, ReloadTyped, Versions, Docs
<1>4. BusTyped /\ req \in [Procs -> ReqStates]
  BY EmptyQueue DEF Init, BusTyped, SubStates, ReqStates
<1>5. AskTyped
  BY <1>2 DEF Init, AskTyped, NoAsk, Versions, Wire
<1>6. coll \in [Procs -> Colls]
  BY DEF Init, Colls, NoColl
<1>7. ReportTyped
  <2>1. \A p \in Procs : report[p] = Unreachable
    BY DEF Init
  <2> QED BY <2>1, UnreachableReport DEF ReportTyped
<1> QED BY <1>2, <1>3, <1>4, <1>5, <1>6, <1>7, Typed

LEMMA TypedNext ==
  ASSUME stored' \in Versions, published' \in Versions, ReloadTyped', BusTyped', req' \in [Procs -> ReqStates],
         AskTyped', coll' \in [Procs -> Colls], ReportTyped', budget' \in Scenario
  PROVE  TypeOK'
  BY DEF TypeOK, ReloadTyped, BusTyped, AskTyped, Colls, ReportTyped

\* An unchanged part is typed as before.
LEMMA Unmoved ==
  ASSUME TypeOK
  PROVE  /\ UNCHANGED storeVars => stored' \in Versions /\ published' \in Versions
         /\ UNCHANGED <<loaded, failed, gate, got>> => ReloadTyped'
         /\ UNCHANGED subVars => BusTyped'
         /\ UNCHANGED ask => AskTyped'
         /\ UNCHANGED coll => coll' \in [Procs -> Colls]
         /\ UNCHANGED req => req' \in [Procs -> ReqStates]
         /\ UNCHANGED report => ReportTyped'
         /\ UNCHANGED budget => budget' \in Scenario
  BY Typed DEF storeVars, ReloadTyped, subVars, BusTyped, AskTyped, ReportTyped

LEMMA ReportTypes ==
  ASSUME TypeOK, report = [p \in Procs |-> report[p]], NEW p \in Procs, NEW r, report' = [report EXCEPT ![p] = r],
         r.reachable \in BOOLEAN, DOMAIN r.results \subseteq Procs, \A o \in DOMAIN r.results : r.results[o] \in Verdicts
  PROVE  ReportTyped' /\ report' = [q \in Procs |-> report'[q]] /\ report'[p] = r
         /\ \A q \in Procs \ {p} : report'[q] = report[q]
<1>1. DOMAIN report = Procs
  <2>1. PICK f : f = report
    OBVIOUS
  <2>2. f = [q \in Procs |-> f[q]]
    BY <2>1
  <2>3. DOMAIN f = Procs
    BY <2>2
  <2> QED BY <2>1, <2>3
<1>2. report' = [q \in Procs |-> IF q = p THEN r ELSE report[q]]
  BY <1>1
<1> QED BY <1>2, Typed DEF ReportTyped

LEMMA AnswerReport ==
  ASSUME TypeOK, NEW p \in Procs, NEW blind \in BOOLEAN, p \notin coll[p].expected
  PROVE  /\ DOMAIN Results(p, blind) = coll[p].expected \cup (IF ask[p].local = "none" THEN {} ELSE {p})
         /\ \A o \in DOMAIN Results(p, blind) :
               /\ Results(p, blind)[o] \in Verdicts
               /\ Results(p, blind)[o] = "applied" =>
                    IF o = p THEN ask[p].local = "applied" ELSE o \in Workers /\ coll[p].terminal[o] = "applied"
         /\ DOMAIN Results(p, blind) \subseteq Procs
<1>1. coll[p] \in Colls /\ ask[p].local \in Wire \cup {"none"} /\ Workers \subseteq Procs
  BY Typed DEF AskTyped, Procs
<1>2. DOMAIN Results(p, blind) = coll[p].expected \cup (IF ask[p].local = "none" THEN {} ELSE {p})
  BY DEF Results
<1>3. ASSUME NEW o \in DOMAIN Results(p, blind)
      PROVE  /\ Results(p, blind)[o] \in Verdicts
             /\ Results(p, blind)[o] = "applied" =>
                  IF o = p THEN ask[p].local = "applied" ELSE o \in Workers /\ coll[p].terminal[o] = "applied"
  <2>1. CASE o = p
    <3>1. Results(p, blind)[o] = ask[p].local
      BY <1>2, <2>1 DEF Results
    <3>2. ask[p].local # "none"
      BY <1>2, <2>1
    <3>3. ask[p].local \in Verdicts
      BY <3>2, <1>1 DEF Verdicts
    <3>4. Results(p, blind)[o] \in Verdicts
      BY <3>1, <3>3
    <3>5. Results(p, blind)[o] = "applied" => ask[p].local = "applied"
      BY <3>1
    <3> QED BY <3>4, <3>5, <2>1
  <2>2. CASE o # p
    <3>1. o \in coll[p].expected /\ o \in Workers /\ coll[p].terminal[o] \in Wire \cup {"none"}
      BY <1>1, <1>2, <2>2 DEF Colls
    <3>2. CASE coll[p].terminal[o] # "none"
      <4>1. Results(p, blind)[o] = coll[p].terminal[o]
        BY <1>2, <2>2, <3>2 DEF Results
      <4> QED BY <4>1, <3>1, <3>2, <2>2 DEF Verdicts
    <3>3. CASE coll[p].terminal[o] = "none"
      <4>1. \E alive \in {"unknown", "yes", "no"} : Results(p, blind)[o] = ComputedVerdict(p, o, alive)
        BY <1>2, <2>2, <3>3 DEF Results
      <4> QED BY <4>1, <2>2 DEF ComputedVerdict, Verdicts
    <3> QED BY <3>2, <3>3
  <2> QED BY <2>1, <2>2
<1> QED BY <1>1, <1>2, <1>3 DEF Colls

LEMMA ReportUntouched == ASSUME Tabled, UNCHANGED report PROVE Tabled'
  BY DEF Tabled

LEMMA InvFacts ==
  ASSUME FleetInv
  PROVE  /\ TypeOK /\ Tabled /\ \A p \in Procs : p \notin coll[p].expected
         /\ stored \in Versions /\ published \in Versions /\ ReloadTyped /\ BusTyped
         /\ req \in [Procs -> ReqStates] /\ AskTyped /\ coll \in [Procs -> Colls] /\ ReportTyped /\ budget \in Scenario
         /\ Workers \subseteq Procs
  BY Typed DEF FleetInv, Staged, StageOf, Tabled, Procs

LEMMA BootTypes ==
  ASSUME FleetInv, NEW w \in Workers, Boot(w)
  PROVE  TypeOK' /\ Tabled'
<1> USE InvFacts
<1>1. BusTyped' /\ ReloadTyped'
  BY DEF Boot, BusTyped, SubStates, Reloading, ReloadTyped, Versions
<1>2. req' \in [Procs -> ReqStates]
  BY DEF Boot, ReqStates, Reloading
<1> QED BY <1>1, <1>2, Unmoved, ReportUntouched, TypedNext DEF Boot, subVars, storeVars

LEMMA ForkTypes ==
  ASSUME FleetInv, NEW c \in Children, Fork(c)
  PROVE  TypeOK' /\ Tabled'
<1> USE InvFacts
<1>1. c \in Procs /\ Parent[c] \in Procs
  BY FleetConstants DEF Procs
<1>2. ReloadTyped'
  BY <1>1 DEF Fork, ReloadTyped, Versions
<1>3. req' \in [Procs -> ReqStates]
  BY <1>1 DEF Fork, ReqStates, Reloading
<1> QED BY <1>1, <1>2, <1>3, Unmoved, ReportUntouched, TypedNext DEF Fork, storeVars

LEMMA SubscribeTypes ==
  ASSUME FleetInv, NEW w \in Workers, Subscribe(w)
  PROVE  TypeOK' /\ Tabled'
<1> USE InvFacts
<1>1. BusTyped'
  BY EmptyQueue DEF Subscribe, BusTyped, SubStates, Reloading
<1> QED BY <1>1, Unmoved, ReportUntouched, TypedNext DEF Subscribe, storeVars, reqVars

LEMMA RegisterTypes ==
  ASSUME FleetInv, NEW w \in Workers, Register(w)
  PROVE  TypeOK' /\ Tabled'
<1> USE InvFacts
<1>1. BusTyped'
  BY DEF Register, BusTyped, SubStates, Reloading
<1> QED BY <1>1, Unmoved, ReportUntouched, TypedNext DEF Register, storeVars, reqVars

LEMMA DeliverTypes ==
  ASSUME FleetInv, NEW w \in Workers, Deliver(w)
  PROVE  TypeOK' /\ Tabled'
<1> USE InvFacts
<1>1. PICK op \in Ops : op = Head(chan[w])
  BY QueueHead DEF Deliver, BusTyped
<1>2. chan' \in [Workers -> Seq(Ops)]
  BY QueueHead DEF Deliver, BusTyped
<1>3. BusTyped'
  BY <1>1, <1>2 DEF Deliver, BusTyped, SubStates, Reloading
<1>4. Ack(w, op) \/ UNCHANGED coll
  BY <1>1 DEF Deliver
<1>5. coll' \in [Procs -> Colls]
  BY <1>4, AckTypes
<1> QED BY <1>1, <1>2, <1>3, <1>4, <1>5, Unmoved, ReportUntouched, TypedNext DEF Deliver, storeVars

LEMMA SubReadEnvTypes ==
  ASSUME FleetInv, NEW w \in Workers, SubReadEnv(w)
  PROVE  TypeOK' /\ Tabled'
<1> USE InvFacts
<1>1. ReloadTyped'
  BY ReloadTypes DEF SubReadEnv
<1>2. BusTyped'
  BY DEF SubReadEnv, BusTyped, SubStates, Reloading
<1> QED BY <1>1, <1>2, Unmoved, ReportUntouched, TypedNext DEF SubReadEnv, storeVars, reqVars

LEMMA SubReadManifestTypes ==
  ASSUME FleetInv, NEW w \in Workers, SubReadManifest(w)
  PROVE  TypeOK' /\ Tabled'
<1> USE InvFacts
<1>1. ReloadTyped'
  BY ReloadTypes DEF SubReadManifest
<1>2. BusTyped'
  BY DEF SubReadManifest, BusTyped, SubStates, Reloading
<1> QED BY <1>1, <1>2, Unmoved, ReportUntouched, TypedNext DEF SubReadManifest, storeVars, reqVars

LEMMA SubInstallTypes ==
  ASSUME FleetInv, NEW w \in Workers, SubInstall(w)
  PROVE  TypeOK' /\ Tabled'
<1> USE InvFacts
<1>1. ReloadTyped'
  BY ReloadTypes DEF SubInstall
<1>2. BusTyped' /\ coll' \in [Procs -> Colls]
  BY AfterReloadTypes DEF SubInstall, Wire
<1> QED BY <1>1, <1>2, Unmoved, ReportUntouched, TypedNext DEF SubInstall, storeVars

LEMMA SubRaiseTypes ==
  ASSUME FleetInv, NEW w \in Workers, SubRaise(w)
  PROVE  TypeOK' /\ Tabled'
<1> USE InvFacts
<1>1. ReloadTyped'
  BY ReloadTypes DEF SubRaise
<1>2. BusTyped' /\ coll' \in [Procs -> Colls]
  BY AfterReloadTypes DEF SubRaise, Wire
<1>3. budget' \in Scenario
  BY Spending DEF SubRaise
<1> QED BY <1>1, <1>2, <1>3, Unmoved, ReportUntouched, TypedNext DEF SubRaise, storeVars

LEMMA SubFailedTypes ==
  ASSUME FleetInv, NEW w \in Workers, SubFailed(w)
  PROVE  TypeOK' /\ Tabled'
<1> USE InvFacts
<1>1. BusTyped'
  BY ReconnectTypes DEF SubFailed
<1> QED BY <1>1, Unmoved, ReportUntouched, TypedNext DEF SubFailed, storeVars, reqVars

LEMMA DropTypes ==
  ASSUME FleetInv, NEW w \in Workers, Drop(w)
  PROVE  TypeOK' /\ Tabled'
<1> USE InvFacts
<1>1. BusTyped'
  BY EmptyQueue DEF Drop, BusTyped
<1>2. budget' \in Scenario
  BY Spending DEF Drop
<1> QED BY <1>1, <1>2, Unmoved, ReportUntouched, TypedNext DEF Drop, storeVars, reqVars

LEMMA HeartbeatDiesTypes ==
  ASSUME FleetInv, NEW w \in Workers, HeartbeatDies(w)
  PROVE  TypeOK' /\ Tabled'
<1> USE InvFacts
<1>1. BusTyped'
  BY DEF HeartbeatDies, BusTyped
<1>2. budget' \in Scenario
  BY Spending DEF HeartbeatDies
<1> QED BY <1>1, <1>2, Unmoved, ReportUntouched, TypedNext DEF HeartbeatDies, storeVars, reqVars

LEMMA JoinFaultTypes ==
  ASSUME FleetInv, NEW w \in Workers, JoinFault(w)
  PROVE  TypeOK' /\ Tabled'
<1> USE InvFacts
<1>1. BusTyped'
  BY ReconnectTypes DEF JoinFault
<1>2. budget' \in Scenario
  BY Spending DEF JoinFault
<1> QED BY <1>1, <1>2, Unmoved, ReportUntouched, TypedNext DEF JoinFault, storeVars, reqVars

LEMMA AckFaultTypes ==
  ASSUME FleetInv, NEW w \in Workers, AckFault(w)
  PROVE  TypeOK' /\ Tabled'
<1> USE InvFacts
<1>1. BusTyped'
  BY ReconnectTypes DEF AckFault
<1>2. budget' \in Scenario
  BY Spending DEF AckFault
<1> QED BY <1>1, <1>2, Unmoved, ReportUntouched, TypedNext DEF AckFault, storeVars, reqVars

LEMMA ReplyFaultTypes ==
  ASSUME FleetInv, NEW w \in Workers, ReplyFault(w)
  PROVE  TypeOK' /\ Tabled'
<1> USE InvFacts
<1>1. ReloadTyped'
  BY ReloadTypes DEF ReplyFault
<1>2. BusTyped'
  BY ReconnectTypes DEF ReplyFault
<1>3. budget' \in Scenario
  BY Spending DEF ReplyFault
<1> QED BY <1>1, <1>2, <1>3, Unmoved, ReportUntouched, TypedNext DEF ReplyFault, storeVars, reqVars

LEMMA ExpireTypes ==
  ASSUME FleetInv, NEW w \in Workers, Expire(w)
  PROVE  TypeOK' /\ Tabled'
<1> USE InvFacts
<1>1. BusTyped'
  BY DEF Expire, BusTyped
<1> QED BY <1>1, Unmoved, ReportUntouched, TypedNext DEF Expire, storeVars, reqVars

LEMMA StopTypes ==
  ASSUME FleetInv, NEW w \in Workers, Stop(w)
  PROVE  TypeOK' /\ Tabled'
<1> USE InvFacts
<1>1. MaxRequests \in Nat
  BY FleetConstants
<1>2. BusTyped'
  BY EmptyQueue DEF Stop, BusTyped, SubStates, Reloading
<1>3. ReloadTyped'
  BY <1>1 DEF Stop, ReloadTyped
<1>4. req' \in [Procs -> ReqStates]
  BY DEF Stop, ReqStates, Reloading
<1>5. AskTyped'
  BY <1>1 DEF Stop, AskTyped, NoAsk, Versions
<1>6. coll' \in [Procs -> Colls]
  BY DEF Stop, Colls, NoColl
<1>7. ReportTyped' /\ Tabled'
  BY ReportTypes, UnreachableReport DEF Stop, Tabled
<1>8. budget' \in Scenario
  BY Spending DEF Stop
<1> QED BY <1>1, <1>2, <1>3, <1>4, <1>5, <1>6, <1>7, <1>8, Unmoved, ReportUntouched, TypedNext DEF Stop, storeVars

LEMMA AsksTypes ==
  ASSUME FleetInv, NEW p \in Procs, NEW base \in Versions, NEW targets \in (SUBSET Workers) \cup {None}, NEW at \in {"want", "scan"},
         stored' \in Versions, Asks(p, base, targets, at)
  PROVE  TypeOK' /\ Tabled'
<1> USE InvFacts
<1>1. budget' \in Scenario /\ MaxRequests - budget'.requests \in 0 .. MaxRequests
  BY Asking, FleetConstants DEF Asks
<1>2. req' \in [Procs -> ReqStates]
  BY DEF Asks, ReqStates, Reloading
<1>3. AskTyped'
  BY <1>1 DEF Asks, AskTyped
<1>4. published' \in Versions
  BY DEF Asks
<1> QED BY <1>1, <1>2, <1>3, <1>4, Unmoved, ReportUntouched, TypedNext DEF Asks, storeVars

LEMMA ReqReadEnvTypes ==
  ASSUME FleetInv, NEW p \in Procs, ReqReadEnv(p)
  PROVE  TypeOK' /\ Tabled'
<1> USE InvFacts
<1>1. ReloadTyped'
  BY ReloadTypes DEF ReqReadEnv
<1>2. req' \in [Procs -> ReqStates]
  BY DEF ReqReadEnv, ReqStates, Reloading
<1> QED BY <1>1, <1>2, Unmoved, ReportUntouched, TypedNext DEF ReqReadEnv, storeVars

LEMMA ReqReadManifestTypes ==
  ASSUME FleetInv, NEW p \in Procs, ReqReadManifest(p)
  PROVE  TypeOK' /\ Tabled'
<1> USE InvFacts
<1>1. ReloadTyped'
  BY ReloadTypes DEF ReqReadManifest
<1>2. req' \in [Procs -> ReqStates]
  BY DEF ReqReadManifest, ReqStates, Reloading
<1> QED BY <1>1, <1>2, Unmoved, ReportUntouched, TypedNext DEF ReqReadManifest, storeVars

LEMMA ReqInstallTypes ==
  ASSUME FleetInv, NEW p \in Procs, ReqInstall(p)
  PROVE  TypeOK' /\ Tabled'
<1> USE InvFacts
<1>1. ReloadTyped'
  BY ReloadTypes DEF ReqInstall
<1>2. req' \in [Procs -> ReqStates]
  BY DEF ReqInstall, ReqStates, Reloading
<1>3. AskTyped'
  BY DEF ReqInstall, AskTyped, Wire
<1> QED BY <1>1, <1>2, <1>3, Unmoved, ReportUntouched, TypedNext DEF ReqInstall, storeVars

LEMMA ReqRaiseTypes ==
  ASSUME FleetInv, NEW p \in Procs, ReqRaise(p)
  PROVE  TypeOK' /\ Tabled'
<1> USE InvFacts
<1>1. ReloadTyped'
  BY ReloadTypes DEF ReqRaise
<1>2. req' \in [Procs -> ReqStates]
  BY DEF ReqRaise, ReqStates, Reloading
<1>3. AskTyped'
  BY DEF ReqRaise, AskTyped, Wire
<1>4. budget' \in Scenario
  BY Spending DEF ReqRaise
<1> QED BY <1>1, <1>2, <1>3, <1>4, Unmoved, ReportUntouched, TypedNext DEF ReqRaise, storeVars

LEMMA ScanTypes ==
  ASSUME FleetInv, NEW p \in Procs, Scan(p)
  PROVE  TypeOK' /\ Tabled'
<1> USE InvFacts
<1>1. req' \in [Procs -> ReqStates]
  BY DEF Scan, ReqStates, Reloading
<1>2. (IF ask[p].targets = None THEN presence ELSE ask[p].targets) \ {p} \in SUBSET Workers
  BY DEF AskTyped, BusTyped
<1>3. [NoColl EXCEPT !.expected = (IF ask[p].targets = None THEN presence ELSE ask[p].targets) \ {p}] \in Colls
  BY <1>2 DEF NoColl, Colls
<1>4. coll' \in [Procs -> Colls]
  BY <1>3 DEF Scan
<1> QED BY <1>1, <1>2, <1>3, <1>4, Unmoved, ReportUntouched, TypedNext DEF Scan, storeVars

LEMMA BroadcastTypes ==
  ASSUME FleetInv, NEW p \in Procs, Broadcast(p)
  PROVE  TypeOK' /\ Tabled'
<1> USE InvFacts
<1>1. req' \in [Procs -> ReqStates]
  BY DEF Broadcast, ReqStates, Reloading
<1>2. PICK op : op = [pub |-> p, n |-> ask[p].n, targets |-> ask[p].targets, base |-> ask[p].base]
  OBVIOUS
<1>3. ask[p].n \in 0 .. MaxRequests /\ ask[p].n > 0 /\ MaxRequests \in Nat
  BY AskedNumber DEF FleetInv, Staged, StageOf, Broadcast, AskTyped
<1>4. op \in Ops
  BY <1>2, <1>3 DEF AskTyped, Ops
<1>5. chan' = [w \in Workers |-> IF w \in conn THEN Append(chan[w], op) ELSE chan[w]]
  BY <1>2 DEF Broadcast
<1>6. BusTyped'
  BY <1>4, <1>5, QueueAppend DEF Broadcast, BusTyped
<1>7. stored' \in Versions /\ published' \in Versions
  BY DEF Broadcast, AskTyped, Versions
<1> QED BY <1>1, <1>2, <1>3, <1>4, <1>5, <1>6, <1>7, Unmoved, ReportUntouched, TypedNext DEF Broadcast, storeVars

LEMMA PublishFaultTypes ==
  ASSUME FleetInv, NEW p \in Procs, PublishFault(p)
  PROVE  TypeOK' /\ Tabled'
<1> USE InvFacts
<1>1. req' \in [Procs -> ReqStates]
  BY DEF PublishFault, ReqStates, Reloading
<1>2. ReportTyped' /\ Tabled'
  BY ReportTypes, UnreachableReport DEF PublishFault, Tabled
<1>3. budget' \in Scenario
  BY Spending DEF PublishFault
<1> QED BY <1>1, <1>2, <1>3, Unmoved, ReportUntouched, TypedNext DEF PublishFault, storeVars

LEMMA AnswerTypes ==
  ASSUME FleetInv, NEW p \in Procs, NEW blind \in BOOLEAN, budget' \in Scenario, Answer(p, blind)
  PROVE  TypeOK' /\ Tabled'
<1> USE InvFacts
<1>1. req' \in [Procs -> ReqStates]
  BY DEF Answer, ReqStates, Reloading
<1>2. PICK r : r = [reachable |-> TRUE, results |-> Results(p, blind)]
  OBVIOUS
<1>3. r.reachable \in BOOLEAN /\ DOMAIN r.results \subseteq Procs /\ \A o \in DOMAIN r.results : r.results[o] \in Verdicts
  BY <1>2, AnswerReport
<1>4. report' = [report EXCEPT ![p] = r]
  BY <1>2 DEF Answer
<1>5. ReportTyped' /\ Tabled'
  BY <1>3, <1>4, ReportTypes DEF Tabled
<1> QED BY <1>1, <1>2, <1>3, <1>4, <1>5, Unmoved, ReportUntouched, TypedNext DEF Answer, storeVars

LEMMA ReturnTypes ==
  ASSUME FleetInv, NEW p \in Procs, Return(p)
  PROVE  TypeOK' /\ Tabled'
<1> USE InvFacts
<1>1. req' \in [Procs -> ReqStates]
  BY DEF Return, ReqStates, Reloading
<1>2. MaxRequests \in Nat
  BY FleetConstants
<1>3. AskTyped'
  BY <1>2 DEF Return, AskTyped, NoAsk, Versions
<1>4. coll' \in [Procs -> Colls]
  BY DEF Return, Colls, NoColl
<1>5. ReportTyped' /\ Tabled'
  BY ReportTypes, UnreachableReport DEF Return, Tabled
<1> QED BY <1>1, <1>2, <1>3, <1>4, <1>5, Unmoved, ReportUntouched, TypedNext DEF Return, storeVars

----------------------------------------------------------------------------
(* Steps of the subscription that move no version. *)

LEMMA Numbers ==
  ASSUME TypeOK
  PROVE  /\ \A d \in Docs : stored[d] \in Nat /\ published[d] \in Nat
         /\ \A p \in Procs, d \in Docs : loaded[p][d] \in Nat /\ ask[p].base[d] \in Nat
         /\ \A p \in Procs : ask[p].n \in Nat /\ got[p]["sub"] \in Nat /\ got[p]["req"] \in Nat
         /\ \A op \in Ops : op.n \in Nat /\ op.n > 0 /\ op.pub \in Procs /\ \A d \in Docs : op.base[d] \in Nat
         /\ \A w \in Workers : chan[w] \in Seq(Ops) /\ Msgs(chan[w]) \subseteq Ops /\ cur[w] \in Ops \cup {None}
         /\ Workers \subseteq Procs /\ "env" \in Docs /\ "man" \in Docs
<1>1. stored \in Versions /\ published \in Versions /\ ReloadTyped /\ BusTyped /\ AskTyped
  BY Typed
<1>2. MaxRequests \in Nat /\ Workers \subseteq Procs
  BY FleetConstants DEF Procs
<1>3. \A w \in Workers : chan[w] \in Seq(Ops) /\ Msgs(chan[w]) \subseteq Ops /\ cur[w] \in Ops \cup {None}
  BY <1>1, QueueType DEF BusTyped
<1>4. \A d \in Docs : stored[d] \in Nat /\ published[d] \in Nat
  BY <1>1, <1>2 DEF Versions
<1>5. \A p \in Procs, d \in Docs : loaded[p][d] \in Nat /\ ask[p].base[d] \in Nat
  BY <1>1, <1>2 DEF ReloadTyped, AskTyped, Versions
<1>6. \A p \in Procs : ask[p].n \in Nat /\ got[p]["sub"] \in Nat /\ got[p]["req"] \in Nat
  BY <1>1, <1>2 DEF ReloadTyped, AskTyped
<1>7. \A op \in Ops : op.n \in Nat /\ op.n > 0 /\ op.pub \in Procs /\ \A d \in Docs : op.base[d] \in Nat
  BY <1>2 DEF Ops, Versions
<1> QED BY <1>2, <1>3, <1>4, <1>5, <1>6, <1>7 DEF Docs

LEMMA NothingLoaded == ASSUME TypeOK, UNCHANGED loaded PROVE Grown
  BY Numbers DEF Grown, Covers

LEMMA HeardStays ==
  ASSUME NEW w, NEW d, NEW u \in Nat, NEW v \in Nat, u <= v, published[d] \in Nat, published'[d] = published[d],
         Msgs(chan[w]) \subseteq Msgs(chan'[w]), Heard(w, d, u)
  PROVE  Heard(w, d, v)'
  BY DEF Heard

\* A step that leaves versions, gates and reports alone disturbs nothing but what was heard.
LEMMA BusOK ==
  ASSUME FleetInv, TypeOK', Known', UNCHANGED <<storeVars, loaded, failed, gate, got, req, ask, report>>, Asked' = Asked,
         \A w \in Workers : sub'[w] = sub[w] \/ (sub'[w] \in {"down", "want", "synced", "live"} /\ sub[w] # "off"),
         \A w \in Workers : Msgs(chan'[w]) \subseteq Msgs(chan[w]),
         \A w \in Workers : \/ cur'[w] = cur[w] \/ cur'[w] = None
                            \/ cur'[w] \in Msgs(chan[w]) /\ sub'[w] = "want",
         \A p \in Procs : coll'[p].expected = coll[p].expected /\ coll'[p].terminal = coll[p].terminal
  PROVE  FleetInv' /\ Grown
<1>1. Versioned'
  <2> USE DEF FleetInv, Versioned, storeVars
  <2>1. \A op : OpSound(op) => OpSound(op)'
    BY DEF OpSound
  <2>2. ASSUME NEW w \in Workers PROVE (\A op \in Msgs(chan'[w]) : OpSound(op)') /\ (cur'[w] # None => OpSound(cur[w])' \/ cur'[w] \in Msgs(chan[w]))
    BY <2>1
  <2>3. ASSUME NEW w \in Workers, cur'[w] # None PROVE OpSound(cur'[w])
    <3>1. PICK c : c = cur'[w]
      OBVIOUS
    <3>2. OpSound(c)
      BY <2>3, <3>1
    <3> QED BY <3>1, <3>2
  <2>4. ASSUME NEW w \in Workers, cur'[w] # None PROVE OpSound(cur[w])'
    <3>1. PICK c : c = cur'[w]
      OBVIOUS
    <3>2. OpSound(c)'
      BY <2>1, <2>3, <2>4, <3>1
    <3> QED BY <3>1, <3>2 DEF OpSound
  <2> QED BY <2>2, <2>4
<1>2. Gated'
  BY DEF FleetInv, Gated, storeVars
<1>3. ForOp'
  BY DEF FleetInv, ForOp
<1>4. ForRequest'
  BY DEF FleetInv, ForRequest
<1>5. Applied'
  BY DEF FleetInv, Applied
<1>6. Staged'
  BY DEF FleetInv, Staged, StageOf, Tabled, Aimed
<1>7. AppliedIsFresh' /\ NobodyUnreported'
  BY DEF FleetInv, AppliedIsFresh, NobodyUnreported
<1>8. Grown
  BY NothingLoaded DEF FleetInv
<1> QED BY <1>1, <1>2, <1>3, <1>4, <1>5, <1>6, <1>7, <1>8 DEF FleetInv

LEMMA RegisterOK == ASSUME FleetInv, NEW w \in Workers, Register(w) PROVE FleetInv' /\ Grown
<1> USE InvFacts, Numbers
<1>1. Asked' = Asked
  BY DEF Register, Asked
<1>2. /\ UNCHANGED <<storeVars, loaded, failed, gate, got, req, ask, coll, report>>
      /\ \A v \in Workers : sub'[v] = sub[v] \/ (sub'[v] \in {"down", "want", "synced", "live"} /\ sub[v] # "off")
      /\ \A v \in Workers : Msgs(chan'[v]) \subseteq Msgs(chan[v]) /\ (cur'[v] = cur[v] \/ cur'[v] = None)
  BY EmptyQueue DEF Register, BusTyped, reqVars
<1>3. Known'
  <2>1. conn' = conn /\ chan' = chan /\ \A v \in conn : sub'[v] = sub[v] \/ (sub[v] = "synced" /\ sub'[v] = "live")
    BY DEF Register, BusTyped
  <2> QED BY <1>2, <2>1 DEF FleetInv, Known, Heard, storeVars
<1> QED BY <1>1, <1>2, <1>3, BusOK, RegisterTypes

LEMMA ExpireOK == ASSUME FleetInv, NEW w \in Workers, Expire(w) PROVE FleetInv' /\ Grown
<1> USE InvFacts, Numbers
<1>1. Asked' = Asked
  BY DEF Expire, Asked
<1>2. /\ UNCHANGED <<storeVars, loaded, failed, gate, got, req, ask, coll, report>>
      /\ \A v \in Workers : sub'[v] = sub[v] \/ (sub'[v] \in {"down", "want", "synced", "live"} /\ sub[v] # "off")
      /\ \A v \in Workers : Msgs(chan'[v]) \subseteq Msgs(chan[v]) /\ (cur'[v] = cur[v] \/ cur'[v] = None)
  BY EmptyQueue DEF Expire, BusTyped, reqVars
<1>3. Known'
  <2>1. conn' = conn /\ chan' = chan /\ \A v \in conn : sub'[v] = sub[v] \/ (sub[v] = "synced" /\ sub'[v] = "live")
    BY DEF Expire, BusTyped
  <2> QED BY <1>2, <2>1 DEF FleetInv, Known, Heard, storeVars
<1> QED BY <1>1, <1>2, <1>3, BusOK, ExpireTypes

LEMMA HeartbeatDiesOK == ASSUME FleetInv, NEW w \in Workers, HeartbeatDies(w) PROVE FleetInv' /\ Grown
<1> USE InvFacts, Numbers
<1>1. Asked' = Asked
  BY Spending, InvFacts DEF HeartbeatDies
<1>2. /\ UNCHANGED <<storeVars, loaded, failed, gate, got, req, ask, coll, report>>
      /\ \A v \in Workers : sub'[v] = sub[v] \/ (sub'[v] \in {"down", "want", "synced", "live"} /\ sub[v] # "off")
      /\ \A v \in Workers : Msgs(chan'[v]) \subseteq Msgs(chan[v]) /\ (cur'[v] = cur[v] \/ cur'[v] = None)
  BY EmptyQueue DEF HeartbeatDies, BusTyped, reqVars
<1>3. Known'
  <2>1. conn' = conn /\ chan' = chan /\ \A v \in conn : sub'[v] = sub[v] \/ (sub[v] = "synced" /\ sub'[v] = "live")
    BY DEF HeartbeatDies, BusTyped
  <2> QED BY <1>2, <2>1 DEF FleetInv, Known, Heard, storeVars
<1> QED BY <1>1, <1>2, <1>3, BusOK, HeartbeatDiesTypes

LEMMA DropOK == ASSUME FleetInv, NEW w \in Workers, Drop(w) PROVE FleetInv' /\ Grown
<1> USE InvFacts, Numbers
<1>1. Asked' = Asked
  BY Spending, InvFacts DEF Drop
<1>2. /\ UNCHANGED <<storeVars, loaded, failed, gate, got, req, ask, coll, report>>
      /\ \A v \in Workers : sub'[v] = sub[v] \/ (sub'[v] \in {"down", "want", "synced", "live"} /\ sub[v] # "off")
      /\ \A v \in Workers : Msgs(chan'[v]) \subseteq Msgs(chan[v]) /\ (cur'[v] = cur[v] \/ cur'[v] = None)
  BY EmptyQueue DEF Drop, BusTyped, reqVars
<1>3. Known'
  <2>1. conn' = conn \ {w} /\ \A v \in conn' : sub'[v] = sub[v] /\ chan'[v] = chan[v]
    BY DEF Drop, BusTyped
  <2> QED BY <1>2, <2>1 DEF FleetInv, Known, Heard, storeVars
<1> QED BY <1>1, <1>2, <1>3, BusOK, DropTypes

LEMMA SubFailedOK == ASSUME FleetInv, NEW w \in Workers, SubFailed(w) PROVE FleetInv' /\ Grown
<1> USE InvFacts, Numbers
<1>1. Asked' = Asked
  BY DEF SubFailed, Asked
<1>2. /\ UNCHANGED <<storeVars, loaded, failed, gate, got, req, ask, coll, report>>
      /\ \A v \in Workers : sub'[v] = sub[v] \/ (sub'[v] \in {"down", "want", "synced", "live"} /\ sub[v] # "off")
      /\ \A v \in Workers : Msgs(chan'[v]) \subseteq Msgs(chan[v]) /\ (cur'[v] = cur[v] \/ cur'[v] = None)
  BY EmptyQueue DEF SubFailed, BusTyped, reqVars, Reconnect, Notice
<1>3. Known'
  <2>1. conn' = conn \ {w} /\ \A v \in conn' : sub'[v] = sub[v] /\ chan'[v] = chan[v]
    BY DEF SubFailed, Reconnect, Notice, BusTyped
  <2> QED BY <1>2, <2>1 DEF FleetInv, Known, Heard, storeVars
<1> QED BY <1>1, <1>2, <1>3, BusOK, SubFailedTypes

LEMMA JoinFaultOK == ASSUME FleetInv, NEW w \in Workers, JoinFault(w) PROVE FleetInv' /\ Grown
<1> USE InvFacts, Numbers
<1>1. Asked' = Asked
  BY Spending, InvFacts DEF JoinFault
<1>2. /\ UNCHANGED <<storeVars, loaded, failed, gate, got, req, ask, coll, report>>
      /\ \A v \in Workers : sub'[v] = sub[v] \/ (sub'[v] \in {"down", "want", "synced", "live"} /\ sub[v] # "off")
      /\ \A v \in Workers : Msgs(chan'[v]) \subseteq Msgs(chan[v]) /\ (cur'[v] = cur[v] \/ cur'[v] = None)
  BY EmptyQueue DEF JoinFault, BusTyped, reqVars, Reconnect
<1>3. Known'
  <2>1. conn' = conn \ {w} /\ \A v \in conn' : sub'[v] = sub[v] /\ chan'[v] = chan[v]
    BY DEF JoinFault, Reconnect, BusTyped
  <2> QED BY <1>2, <2>1 DEF FleetInv, Known, Heard, storeVars
<1> QED BY <1>1, <1>2, <1>3, BusOK, JoinFaultTypes

LEMMA AckFaultOK == ASSUME FleetInv, NEW w \in Workers, AckFault(w) PROVE FleetInv' /\ Grown
<1> USE InvFacts, Numbers
<1>1. Asked' = Asked
  BY Spending, InvFacts DEF AckFault
<1>2. /\ UNCHANGED <<storeVars, loaded, failed, gate, got, req, ask, coll, report>>
      /\ \A v \in Workers : sub'[v] = sub[v] \/ (sub'[v] \in {"down", "want", "synced", "live"} /\ sub[v] # "off")
      /\ \A v \in Workers : Msgs(chan'[v]) \subseteq Msgs(chan[v]) /\ (cur'[v] = cur[v] \/ cur'[v] = None)
  BY EmptyQueue DEF AckFault, BusTyped, reqVars, Reconnect
<1>3. Known'
  <2>1. conn' = conn \ {w} /\ \A v \in conn' : sub'[v] = sub[v] /\ chan'[v] = chan[v]
    BY DEF AckFault, Reconnect, BusTyped
  <2> QED BY <1>2, <2>1 DEF FleetInv, Known, Heard, storeVars
<1> QED BY <1>1, <1>2, <1>3, BusOK, AckFaultTypes

LEMMA SubscribeOK == ASSUME FleetInv, NEW w \in Workers, Subscribe(w) PROVE FleetInv' /\ Grown
<1> USE InvFacts, Numbers
<1>1. Asked' = Asked
  BY DEF Subscribe, Asked
<1>2. /\ UNCHANGED <<storeVars, loaded, failed, gate, got, req, ask, coll, report>>
      /\ \A v \in Workers : sub'[v] = sub[v] \/ (sub'[v] \in {"down", "want", "synced", "live"} /\ sub[v] # "off")
      /\ \A v \in Workers : Msgs(chan'[v]) \subseteq Msgs(chan[v]) /\ (cur'[v] = cur[v] \/ cur'[v] = None)
  BY EmptyQueue DEF Subscribe, BusTyped, reqVars
<1>3. Known'
  <2>1. conn' = conn \cup {w} /\ sub'[w] = "want" /\ \A v \in conn \ {w} : sub'[v] = sub[v] /\ chan'[v] = chan[v]
    BY DEF Subscribe, BusTyped
  <2> QED BY <1>2, <2>1 DEF FleetInv, Known, Heard, storeVars
<1> QED BY <1>1, <1>2, <1>3, BusOK, SubscribeTypes

LEMMA AckKeeps ==
  ASSUME coll \in [Procs -> Colls], NEW w, NEW op \in Ops, Ack(w, op)
  PROVE  \A p \in Procs : coll'[p].expected = coll[p].expected /\ coll'[p].terminal = coll[p].terminal
<1>1. CASE UNCHANGED coll
  BY <1>1
<1>2. CASE ~UNCHANGED coll
  <2>1. PICK q \in Procs : q = op.pub
    BY DEF Ops
  <2>2. coll' = [coll EXCEPT ![q].acked = coll[q].acked \cup {w}]
    BY <1>2, <2>1 DEF Ack
  <2>3. coll'[q] = [coll[q] EXCEPT !.acked = coll[q].acked \cup {w}] /\ \A p \in Procs \ {q} : coll'[p] = coll[p]
    BY <2>2
  <2>4. coll[q] \in Colls
    OBVIOUS
  <2> QED BY <2>3, <2>4 DEF Colls
<1> QED BY <1>1, <1>2

LEMMA DeliverOK == ASSUME FleetInv, NEW w \in Workers, Deliver(w) PROVE FleetInv' /\ Grown
<1> USE InvFacts, Numbers
<1>1. Asked' = Asked
  BY DEF Deliver, Asked
<1>2. PICK op \in Ops : op = Head(chan[w])
  BY QueueHead DEF Deliver
<1>3. /\ op \in Msgs(chan[w]) /\ chan' = [chan EXCEPT ![w] = Tail(@)]
      /\ Msgs(chan[w]) = Msgs(Tail(chan[w])) \cup {op}
  BY <1>2, QueueHead DEF Deliver
<1>4. /\ \A v \in Workers \ {w} : chan'[v] = chan[v] /\ sub'[v] = sub[v] /\ cur'[v] = cur[v]
      /\ Msgs(chan'[w]) \cup {op} = Msgs(chan[w])
      /\ \/ Skips(w, op) /\ UNCHANGED <<sub, cur, coll>>
         \/ sub'[w] = "want" /\ cur'[w] = op /\ Ack(w, op)
      /\ sub[w] = "live"
  BY <1>2, <1>3 DEF Deliver, BusTyped
<1>5. UNCHANGED <<storeVars, loaded, failed, gate, got, conn, req, ask, report>>
  BY DEF Deliver
<1>6. \A p \in Procs : coll'[p].expected = coll[p].expected /\ coll'[p].terminal = coll[p].terminal
  BY <1>4, AckKeeps
<1>7. Known'
  <2>1. ASSUME NEW d, NEW v, Skips(w, op), Heard(w, d, v) PROVE Heard(w, d, v)'
    <3>1. ~(op.pub # w /\ op.targets = None)
      BY <2>1 DEF Skips, Origin
    <3> QED BY <2>1, <3>1, <1>4, <1>5 DEF Heard, storeVars
  <2>2. ASSUME NEW u \in conn \ {w}, NEW d, NEW v, Heard(u, d, v) PROVE Heard(u, d, v)'
    BY <2>2, <1>4, <1>5 DEF Heard, storeVars, BusTyped
  <2>3. ASSUME NEW u \in conn, NEW d, NEW v, u # w \/ Skips(w, op), Heard(u, d, v) PROVE Heard(u, d, v)'
    BY <2>1, <2>2, <2>3
  <2>4. ASSUME NEW u \in conn
        PROVE  \/ sub'[u] = "want"
               \/ /\ u # w \/ Skips(w, op)
                  /\ sub'[u] = sub[u]
    BY <1>4 DEF BusTyped
  <2>5. ASSUME NEW u \in conn, sub'[u] # "want"
        PROVE  /\ Heard(u, "env", loaded[u]["env"])'
               /\ sub'[u] \in {"env", "man"} \/ failed'[u] \/ Heard(u, "man", loaded[u]["man"])'
               /\ sub'[u] = "man" => Heard(u, "man", got[u]["sub"])'
               /\ req'[u] = "man" => Heard(u, "man", got[u]["req"])'
    <3>1. /\ Heard(u, "env", loaded[u]["env"])
          /\ sub[u] \in {"env", "man"} \/ failed[u] \/ Heard(u, "man", loaded[u]["man"])
          /\ sub[u] = "man" => Heard(u, "man", got[u]["sub"])
          /\ req[u] = "man" => Heard(u, "man", got[u]["req"])
          /\ sub'[u] = sub[u] /\ (u # w \/ Skips(w, op))
      BY <2>4, <2>5 DEF FleetInv, Known
    <3>2. PICK e, m, s, r : e = loaded[u]["env"] /\ m = loaded[u]["man"] /\ s = got[u]["sub"] /\ r = got[u]["req"]
      OBVIOUS
    <3>3. /\ Heard(u, "env", e)'
          /\ sub[u] \in {"env", "man"} \/ failed[u] \/ Heard(u, "man", m)'
          /\ sub[u] = "man" => Heard(u, "man", s)'
          /\ req[u] = "man" => Heard(u, "man", r)'
      BY <3>1, <3>2, <2>3
    <3>4. e = loaded'[u]["env"] /\ m = loaded'[u]["man"] /\ s = got'[u]["sub"] /\ r = got'[u]["req"]
      BY <3>2, <1>5
    <3> QED BY <3>1, <3>3, <3>4, <1>5
  <2> QED BY <1>5, <2>5 DEF Known
<1> QED BY <1>1, <1>3, <1>4, <1>5, <1>6, <1>7, BusOK, DeliverTypes

----------------------------------------------------------------------------
(* Reloads. *)

OtherTask(t) == IF t = "sub" THEN "req" ELSE "sub"

LEMMA Others ==
  OtherTask("sub") = "req" /\ OtherTask("req") = "sub"
  BY DEF OtherTask

\* What each part of a reload changes of its process, and that it changes no other.
LEMMA ReloadParts ==
  ASSUME TypeOK, NEW p \in Procs, NEW t \in {"sub", "req"}
  PROVE  /\ ReadEnv(p, t) =>
              /\ gate[p] = None /\ gate'[p] = t /\ UNCHANGED <<failed, got>>
              /\ loaded'[p]["env"] = stored["env"] /\ loaded'[p]["man"] = loaded[p]["man"]
              /\ \A q \in Procs \ {p} : loaded'[q] = loaded[q] /\ gate'[q] = gate[q]
         /\ ReadManifest(p, t) =>
              /\ got'[p][t] = stored["man"] /\ got'[p][OtherTask(t)] = got[p][OtherTask(t)] /\ UNCHANGED <<loaded, failed, gate>>
              /\ \A q \in Procs \ {p} : got'[q] = got[q]
         /\ Installed(p, t) \/ Raised(p, t) =>
              /\ gate'[p] = (IF gate[p] = t THEN None ELSE gate[p]) /\ got'[p][t] = 0 /\ got'[p][OtherTask(t)] = got[p][OtherTask(t)]
              /\ loaded'[p]["env"] = loaded[p]["env"]
              /\ \/ failed'[p] = FALSE /\ loaded'[p]["man"] = got[p][t] /\ Installed(p, t)
                 \/ failed'[p] = TRUE /\ UNCHANGED loaded /\ Raised(p, t)
              /\ \A q \in Procs \ {p} : /\ loaded'[q] = loaded[q] /\ gate'[q] = gate[q]
                                        /\ failed'[q] = failed[q] /\ got'[q] = got[q]
<1>1. ReloadTyped
  BY Typed
<1>2. ASSUME ReadEnv(p, t)
      PROVE  /\ gate[p] = None /\ gate'[p] = t /\ UNCHANGED <<failed, got>>
             /\ loaded'[p]["env"] = stored["env"] /\ loaded'[p]["man"] = loaded[p]["man"]
             /\ \A q \in Procs \ {p} : loaded'[q] = loaded[q] /\ gate'[q] = gate[q]
  BY <1>1, <1>2 DEF ReadEnv, HoldGate, ReloadTyped, Versions, Docs
<1>3. ASSUME ReadManifest(p, t)
      PROVE  /\ got'[p][t] = stored["man"] /\ got'[p][OtherTask(t)] = got[p][OtherTask(t)] /\ UNCHANGED <<loaded, failed, gate>>
             /\ \A q \in Procs \ {p} : got'[q] = got[q]
  BY <1>1, <1>3 DEF ReadManifest, ReloadTyped, OtherTask
<1>4. ASSUME ReleaseGate(p, t)
      PROVE  /\ gate'[p] = (IF gate[p] = t THEN None ELSE gate[p]) /\ got'[p][t] = 0 /\ got'[p][OtherTask(t)] = got[p][OtherTask(t)]
             /\ \A q \in Procs \ {p} : gate'[q] = gate[q] /\ got'[q] = got[q]
  BY <1>1, <1>4 DEF ReleaseGate, ReloadTyped, OtherTask
<1>5. ASSUME Installed(p, t)
      PROVE  /\ loaded'[p]["env"] = loaded[p]["env"] /\ loaded'[p]["man"] = got[p][t] /\ failed'[p] = FALSE
             /\ \A q \in Procs \ {p} : loaded'[q] = loaded[q] /\ failed'[q] = failed[q]
  BY <1>1, <1>5 DEF Installed, ReloadTyped, Versions, Docs
<1>6. ASSUME Raised(p, t)
      PROVE  failed'[p] = TRUE /\ UNCHANGED loaded /\ \A q \in Procs \ {p} : failed'[q] = failed[q]
  BY <1>1, <1>6 DEF Raised, ReloadTyped
<1>7. (Installed(p, t) => ReleaseGate(p, t)) /\ (Raised(p, t) => ReleaseGate(p, t))
  BY DEF Installed, Raised
<1> QED BY <1>2, <1>3, <1>4, <1>5, <1>6, <1>7

LEMMA LoadedNumbers == ASSUME TypeOK' PROVE \A p \in Procs, d \in Docs : loaded'[p][d] \in Nat
<1>1. loaded' \in [Procs -> [Docs -> 0 .. MaxRequests]] /\ MaxRequests \in Nat
  BY FleetConstants DEF TypeOK, Versions
<1> QED BY <1>1

SameAsk == \A p \in Procs : ask'[p].n = ask[p].n /\ ask'[p].base = ask[p].base /\ ask'[p].targets = ask[p].targets

\* The versions stay ordered when a process loads no more than is stored.
LEMMA VersionedOK ==
  ASSUME FleetInv, UNCHANGED storeVars, SameAsk, Asked' = Asked, \A p \in Procs : Covers(stored, loaded'[p]),
         \A w \in Workers : Msgs(chan'[w]) \subseteq Msgs(chan[w]) /\ (cur'[w] = cur[w] \/ cur'[w] = None)
  PROVE  Versioned'
<1> USE DEF FleetInv, Versioned, storeVars
<1>1. ASSUME NEW op \in Ops, OpSound(op) PROVE OpSound(op)'
  BY <1>1, InvFacts, Numbers DEF OpSound, SameAsk
<1>2. ASSUME NEW w \in Workers PROVE \A op \in Msgs(chan'[w]) : OpSound(op)'
  BY <1>1, InvFacts, Numbers
<1>3. ASSUME NEW w \in Workers, cur'[w] # None PROVE OpSound(cur[w])'
  <2>1. PICK c \in Ops : c = cur'[w] /\ OpSound(c)
    BY <1>3, InvFacts, Numbers
  <2>2. OpSound(c)'
    BY <2>1, <1>1
  <2> QED BY <2>1, <2>2 DEF OpSound
<1> QED BY <1>2, <1>3, InvFacts DEF SameAsk

\* Who is ahead stays ahead.
LEMMA FreshOK ==
  ASSUME FleetInv, TypeOK', Grown, SameAsk,
         \A p \in Procs : req'[p] = "done" => req[p] = "done" /\ report'[p] = report[p]
  PROVE  AppliedIsFresh'
<1>1. ASSUME NEW p \in Procs, req'[p] = "done", NEW o \in DOMAIN report'[p].results, report'[p].results[o] = "applied"
      PROVE  Covers(loaded'[o], ask'[p].base)
  <2>1. o \in Procs /\ Covers(loaded[o], ask[p].base) /\ ask'[p].base = ask[p].base
    BY <1>1, InvFacts DEF FleetInv, AppliedIsFresh, SameAsk, ReportTyped
  <2>2. \A d \in Docs : loaded[o][d] \in Nat /\ ask[p].base[d] \in Nat /\ loaded'[o][d] \in Nat
    BY <2>1, InvFacts, Numbers DEF TypeOK, Versions
  <2> QED BY <2>1, <2>2 DEF Grown, Covers
<1> QED BY <1>1 DEF AppliedIsFresh

LEMMA AppliedOK ==
  ASSUME FleetInv, TypeOK', Grown, SameAsk,
         \A p \in Procs : ask'[p].local = "applied" => ask[p].local = "applied" \/ Covers(loaded'[p], ask[p].base),
         \A p \in Procs, o \in Workers : coll'[p].terminal[o] = "applied" =>
            coll[p].terminal[o] = "applied" \/ Covers(loaded'[o], ask[p].base)
  PROVE  Applied'
<1>1. ASSUME NEW p \in Procs, NEW o \in Procs, Covers(loaded[o], ask[p].base) PROVE Covers(loaded'[o], ask[p].base)
  <2>1. \A d \in Docs : loaded[o][d] \in Nat /\ ask[p].base[d] \in Nat /\ loaded'[o][d] \in Nat
    BY InvFacts, Numbers DEF TypeOK, Versions
  <2> QED BY <1>1, <2>1 DEF Grown, Covers
<1>2. ASSUME NEW p \in Procs, ask'[p].local = "applied" PROVE Covers(loaded'[p], ask[p].base)
  BY <1>1, <1>2 DEF FleetInv, Applied
<1>3. ASSUME NEW p \in Procs, NEW o \in Workers, coll'[p].terminal[o] = "applied" PROVE Covers(loaded'[o], ask[p].base)
  BY <1>1, <1>3, InvFacts DEF FleetInv, Applied
<1> QED BY <1>2, <1>3 DEF Applied, SameAsk

LEMMA ReportedOK ==
  ASSUME FleetInv, SameAsk, \A p \in Procs : coll'[p].expected = coll[p].expected,
         \A p \in Procs : req'[p] = "done" => req[p] = "done" /\ report'[p] = report[p]
  PROVE  NobodyUnreported'
  BY DEF FleetInv, NobodyUnreported, SameAsk

LEMMA ReplyKeeps ==
  ASSUME coll \in [Procs -> Colls], NEW w \in Workers, NEW op \in Ops, NEW outcome \in Wire, Reply(w, op, outcome)
  PROVE  /\ \A p \in Procs : coll'[p].expected = coll[p].expected
         /\ \A p \in Procs, o \in Workers :
              \/ coll'[p].terminal[o] = coll[p].terminal[o]
              \/ o = w /\ p = op.pub /\ Hears(op) /\ coll'[p].terminal[o] = outcome
<1>1. CASE UNCHANGED coll
  BY <1>1
<1>2. CASE ~UNCHANGED coll
  <2>1. PICK q \in Procs : q = op.pub
    BY DEF Ops
  <2>2. Hears(op) /\ coll' = [coll EXCEPT ![q].terminal[w] = outcome]
    BY <1>2, <2>1 DEF Reply
  <2>3. coll'[q] = [coll[q] EXCEPT !.terminal[w] = outcome] /\ \A p \in Procs \ {q} : coll'[p] = coll[p]
    BY <2>2
  <2>4. coll[q] \in Colls
    OBVIOUS
  <2>5. coll'[q].expected = coll[q].expected /\ coll'[q].terminal = [coll[q].terminal EXCEPT ![w] = outcome]
    BY <2>3, <2>4 DEF Colls
  <2>6. \A o \in Workers : coll'[q].terminal[o] = (IF o = w THEN outcome ELSE coll[q].terminal[o])
    BY <2>4, <2>5 DEF Colls
  <2> QED BY <2>1, <2>2, <2>3, <2>5, <2>6
<1> QED BY <1>1, <1>2

LEMMA SubReadEnvOK == ASSUME FleetInv, NEW w \in Workers, SubReadEnv(w) PROVE FleetInv' /\ Grown
<1> USE InvFacts, Numbers
<1>1. /\ UNCHANGED <<storeVars, cur, conn, chan, presence, hb, req, ask, coll, report, budget>>
      /\ sub[w] = "want" /\ sub'[w] = "env" /\ \A v \in Workers \ {w} : sub'[v] = sub[v]
  BY DEF SubReadEnv, reqVars, BusTyped
<1>2. /\ gate[w] = None /\ gate'[w] = "sub" /\ UNCHANGED <<failed, got>>
      /\ loaded'[w]["env"] = stored["env"] /\ loaded'[w]["man"] = loaded[w]["man"]
      /\ \A q \in Procs \ {w} : loaded'[q] = loaded[q] /\ gate'[q] = gate[q]
  BY ReloadParts DEF SubReadEnv
<1>3. TypeOK'
  BY SubReadEnvTypes
<1>4. Covers(stored, loaded[w]) /\ req[w] \notin {"env", "man"}
  BY <1>2, FleetConstants DEF FleetInv, Versioned, Gated
<1>5. Grown /\ \A p \in Procs : Covers(stored, loaded'[p])
  <2>1. Covers(loaded'[w], loaded[w]) /\ Covers(stored, loaded'[w])
    BY <1>2, <1>4 DEF Covers, Docs
  <2>2. ASSUME NEW q \in Procs \ {w} PROVE Covers(loaded'[q], loaded[q]) /\ Covers(stored, loaded'[q])
    <3>1. loaded'[q] = loaded[q] /\ \A d \in Docs : loaded[q][d] \in Nat
      BY <1>2
    <3> QED BY <3>1 DEF Covers, FleetInv, Versioned
  <2> QED BY <2>1, <2>2 DEF Grown
<1>6. SameAsk /\ Asked' = Asked
  BY <1>1 DEF SameAsk, Asked
<1>7. Versioned'
  BY <1>1, <1>5, <1>6, VersionedOK
<1>8. Gated'
  <2>1. \A c \in Children : c \in Procs \ {w}
    BY FleetConstants DEF Procs
  <2>2. ASSUME NEW v \in Workers
        PROVE  /\ sub'[v] \in {"env", "man"} => gate'[v] = "sub"
               /\ sub'[v] = "off" => req'[v] = "off"
               /\ sub'[v] = "man" => loaded'[v]["man"] <= got'[v]["sub"] /\ got'[v]["sub"] <= stored'["man"]
    BY <1>1, <1>2 DEF FleetInv, Gated, storeVars
  <2>3. ASSUME NEW p \in Procs
        PROVE  /\ req'[p] \in {"env", "man"} => gate'[p] = "req"
               /\ req'[p] = "man" => loaded'[p]["man"] <= got'[p]["req"] /\ got'[p]["req"] <= stored'["man"]
    BY <1>1, <1>2, <1>4 DEF FleetInv, Gated, storeVars
  <2>4. ASSUME NEW c \in Children, req'[c] = "off" PROVE \A d \in Docs : loaded'[c][d] = 0
    BY <1>1, <1>2, <2>1, <2>4 DEF FleetInv, Gated
  <2> QED BY <2>2, <2>3, <2>4 DEF Gated
<1>9. Known'
  <2>1. ASSUME NEW v \in conn \ {w}
        PROVE  /\ loaded'[v] = loaded[v] /\ failed'[v] = failed[v] /\ got'[v] = got[v] /\ sub'[v] = sub[v] /\ req'[v] = req[v]
               /\ chan'[v] = chan[v]
    BY <1>1, <1>2 DEF BusTyped
  <2>2. stored["env"] >= published'["env"]
    BY <1>1 DEF FleetInv, Versioned, storeVars
  <2>3. Heard(w, "env", loaded[w]["env"])'
    BY <2>2, <1>2 DEF Heard
  <2>4. conn' = conn /\ published' = published
    BY <1>1 DEF storeVars
  <2> DEFINE AtWorker(v) ==
        /\ sub[v] = "want" \/ Heard(v, "env", loaded[v]["env"])
        /\ sub[v] \in {"want", "env", "man"} \/ failed[v] \/ Heard(v, "man", loaded[v]["man"])
        /\ sub[v] = "man" => Heard(v, "man", got[v]["sub"])
        /\ req[v] = "man" => sub[v] = "want" \/ Heard(v, "man", got[v]["req"])
  <2>5. ASSUME NEW v \in conn, v # w PROVE AtWorker(v)'
    <3>1. AtWorker(v)
      BY DEF FleetInv, Known
    <3> QED BY <2>1, <2>4, <2>5, <3>1 DEF Heard
  <2>6. AtWorker(w)'
    BY <1>1, <1>4, <2>3
  <2> QED BY <2>4, <2>5, <2>6 DEF Known
<1>10. ForOp'
  <2>1. cur[w] # None => stored["env"] >= cur[w].base["env"]
    BY DEF FleetInv, Versioned, OpSound, Covers
  <2> QED BY <1>1, <1>2, <2>1 DEF FleetInv, ForOp
<1>11. ForRequest'
  <2>1. ASSUME NEW p \in Procs PROVE loaded'[p]["env"] >= loaded[p]["env"] /\ loaded'[p]["man"] = loaded[p]["man"]
    BY <1>2, <1>4 DEF Covers
  <2>2. ASSUME NEW p \in Procs, NEW b \in Nat, loaded[p]["env"] >= b PROVE loaded'[p]["env"] >= b
    <3>1. loaded'[p]["env"] \in Nat /\ loaded[p]["env"] \in Nat
      BY <1>3, LoadedNumbers
    <3> QED BY <2>1, <2>2, <3>1
  <2> QED BY <1>1, <1>2, <1>4, <2>1, <2>2 DEF FleetInv, ForRequest
<1>12. Applied'
  BY <1>1, <1>3, <1>5, <1>6, AppliedOK
<1>13. Staged'
  BY <1>1, SubReadEnvTypes DEF FleetInv, Staged, StageOf, Aimed, Tabled
<1>14. AppliedIsFresh' /\ NobodyUnreported'
  BY <1>1, <1>3, <1>5, <1>6, FreshOK, ReportedOK
<1> QED BY <1>3, <1>5, <1>7, <1>8, <1>9, <1>10, <1>11, <1>12, <1>13, <1>14 DEF FleetInv

LEMMA SubReadManifestOK == ASSUME FleetInv, NEW w \in Workers, SubReadManifest(w) PROVE FleetInv' /\ Grown
<1> USE InvFacts, Numbers
<1>1. /\ UNCHANGED <<storeVars, cur, conn, chan, presence, hb, req, ask, coll, report, budget>>
      /\ sub[w] = "env" /\ sub'[w] = "man" /\ \A v \in Workers \ {w} : sub'[v] = sub[v]
  BY DEF SubReadManifest, reqVars, BusTyped
<1>2. /\ got'[w]["sub"] = stored["man"] /\ got'[w]["req"] = got[w]["req"] /\ UNCHANGED <<loaded, failed, gate>>
      /\ \A q \in Procs \ {w} : got'[q] = got[q]
  BY ReloadParts, Others DEF SubReadManifest
<1>3. TypeOK'
  BY SubReadManifestTypes
<1>4. Covers(stored, loaded[w]) /\ gate[w] = "sub"
  BY <1>1 DEF FleetInv, Versioned, Gated
<1>5. Grown /\ \A p \in Procs : Covers(stored, loaded'[p])
  BY <1>2, NothingLoaded DEF FleetInv, Versioned
<1>6. SameAsk /\ Asked' = Asked
  BY <1>1 DEF SameAsk, Asked
<1>7. Versioned'
  BY <1>1, <1>5, <1>6, VersionedOK
<1>8. Gated'
  <2>1. loaded[w]["man"] <= stored["man"] /\ stored["man"] <= stored["man"]
    BY <1>4 DEF Covers
  <2> QED BY <1>1, <1>2, <1>4, <2>1 DEF FleetInv, Gated, storeVars
<1>9. Known'
  <2>1. ASSUME NEW v \in conn \ {w}
        PROVE  /\ loaded'[v] = loaded[v] /\ failed'[v] = failed[v] /\ got'[v] = got[v] /\ sub'[v] = sub[v] /\ req'[v] = req[v]
               /\ chan'[v] = chan[v]
    BY <1>1, <1>2 DEF BusTyped
  <2>2. stored["man"] >= published'["man"]
    BY <1>1 DEF FleetInv, Versioned, storeVars
  <2>3. Heard(w, "man", got[w]["sub"])'
    BY <2>2, <1>2 DEF Heard
  <2> QED BY <1>1, <1>2, <2>1, <2>3 DEF FleetInv, Known, Heard, storeVars
<1>10. ForOp'
  <2>1. cur[w] # None => stored["man"] >= cur[w].base["man"]
    BY DEF FleetInv, Versioned, OpSound, Covers
  <2> QED BY <1>1, <1>2, <2>1 DEF FleetInv, ForOp
<1>11. ForRequest'
  <2>1. stored["man"] >= ask[w].base["man"]
    BY DEF FleetInv, Versioned, Covers
  <2> QED BY <1>1, <1>2, <2>1 DEF FleetInv, ForRequest
<1>12. Applied'
  BY <1>1, <1>3, <1>5, <1>6, AppliedOK
<1>13. Staged'
  BY <1>1, SubReadManifestTypes DEF FleetInv, Staged, StageOf, Aimed, Tabled
<1>14. AppliedIsFresh' /\ NobodyUnreported'
  BY <1>1, <1>3, <1>5, <1>6, FreshOK, ReportedOK
<1> QED BY <1>3, <1>5, <1>7, <1>8, <1>9, <1>10, <1>11, <1>12, <1>13, <1>14 DEF FleetInv

\* A subscription's reload ends: what it leaves of the op, the connection and the reply.
LEMMA SubReloadEnds ==
  ASSUME FleetInv, TypeOK', Tabled', NEW w \in Workers,
         (sub[w] = "man" /\ Installed(w, "sub")) \/ (sub[w] \in {"env", "man"} /\ Raised(w, "sub")),
         sub'[w] \in {"synced", "live", "down"}, \A v \in Workers \ {w} : sub'[v] = sub[v],
         cur'[w] = None, \A v \in Workers \ {w} : cur'[v] = cur[v],
         conn' \subseteq conn, \A v \in conn' : chan'[v] = chan[v], \A v \in Workers : Msgs(chan'[v]) \subseteq Msgs(chan[v]),
         UNCHANGED <<storeVars, req, ask, report>>, Asked' = Asked,
         \A p \in Procs : coll'[p].expected = coll[p].expected,
         \A p \in Procs, o \in Workers : coll'[p].terminal[o] = coll[p].terminal[o]
             \/ (req[p] = "collect" /\ (coll'[p].terminal[o] = "applied" => Covers(loaded'[o], ask[p].base)))
  PROVE  FleetInv' /\ Grown
<1> USE InvFacts, Numbers
<1>1. /\ gate[w] = "sub" /\ gate'[w] = None /\ got'[w]["req"] = got[w]["req"]
      /\ loaded'[w]["env"] = loaded[w]["env"]
      /\ \/ failed'[w] = FALSE /\ loaded'[w]["man"] = got[w]["sub"] /\ sub[w] = "man"
         \/ failed'[w] = TRUE /\ loaded'[w]["man"] = loaded[w]["man"]
      /\ \A q \in Procs \ {w} : /\ loaded'[q] = loaded[q] /\ gate'[q] = gate[q]
                                /\ failed'[q] = failed[q] /\ got'[q] = got[q]
  <2>1. gate[w] = "sub"
    BY DEF FleetInv, Gated
  <2>2. Installed(w, "sub") \/ Raised(w, "sub")
    OBVIOUS
  <2>3. /\ gate'[w] = None /\ got'[w]["req"] = got[w]["req"]
        /\ loaded'[w]["env"] = loaded[w]["env"]
        /\ \/ failed'[w] = FALSE /\ loaded'[w]["man"] = got[w]["sub"] /\ Installed(w, "sub")
           \/ failed'[w] = TRUE /\ UNCHANGED loaded /\ Raised(w, "sub")
        /\ \A q \in Procs \ {w} : /\ loaded'[q] = loaded[q] /\ gate'[q] = gate[q]
                                  /\ failed'[q] = failed[q] /\ got'[q] = got[q]
    BY <2>1, <2>2, ReloadParts, Others
  <2>4. CASE sub[w] = "man"
    BY <2>1, <2>3, <2>4
  <2>5. CASE sub[w] # "man"
    <3>1. Raised(w, "sub")
      BY <2>5
    <3>2. failed'[w] = TRUE
      BY <3>1 DEF Raised, ReloadTyped
    <3>3. UNCHANGED loaded
      BY <3>1 DEF Raised
    <3> QED BY <2>1, <2>3, <3>2, <3>3
  <2> QED BY <2>4, <2>5
<1>2. req[w] \notin {"env", "man"} /\ Covers(stored, loaded[w])
  BY <1>1 DEF FleetInv, Gated, Versioned
<1>3. sub[w] = "man" => loaded[w]["man"] <= got[w]["sub"] /\ got[w]["sub"] <= stored["man"]
  BY DEF FleetInv, Gated
<1>4. Grown /\ \A p \in Procs : Covers(stored, loaded'[p])
  <2>1. Covers(loaded'[w], loaded[w]) /\ Covers(stored, loaded'[w])
    BY <1>1, <1>2, <1>3 DEF Covers, Docs
  <2>2. ASSUME NEW q \in Procs \ {w} PROVE Covers(loaded'[q], loaded[q]) /\ Covers(stored, loaded'[q])
    <3>1. loaded'[q] = loaded[q] /\ \A d \in Docs : loaded[q][d] \in Nat
      BY <1>1
    <3> QED BY <3>1 DEF Covers, FleetInv, Versioned
  <2> QED BY <2>1, <2>2 DEF Grown
<1>5. SameAsk
  BY DEF SameAsk
<1>6. Versioned'
  BY <1>4, <1>5, VersionedOK
<1>7. Gated'
  <2>1. \A c \in Children : c \in Procs \ {w}
    BY FleetConstants DEF Procs
  <2>2. ASSUME NEW v \in Workers
        PROVE  /\ sub'[v] \in {"env", "man"} => gate'[v] = "sub"
               /\ sub'[v] = "off" => req'[v] = "off"
               /\ sub'[v] = "man" => loaded'[v]["man"] <= got'[v]["sub"] /\ got'[v]["sub"] <= stored'["man"]
    <3>1. CASE v = w
      BY <3>1
    <3>2. CASE v # w
      <4>1. v \in Procs \ {w} /\ sub'[v] = sub[v]
        BY <3>2
      <4>2. gate'[v] = gate[v] /\ loaded'[v] = loaded[v] /\ got'[v] = got[v] /\ stored' = stored /\ req' = req
        BY <4>1, <1>1 DEF storeVars
      <4> QED BY <4>1, <4>2 DEF FleetInv, Gated
    <3> QED BY <3>1, <3>2
  <2>3. ASSUME NEW p \in Procs
        PROVE  /\ req'[p] \in {"env", "man"} => gate'[p] = "req"
               /\ req'[p] = "man" => loaded'[p]["man"] <= got'[p]["req"] /\ got'[p]["req"] <= stored'["man"]
    <3>1. /\ req[p] \in {"env", "man"} => gate[p] = "req"
          /\ req[p] = "man" => loaded[p]["man"] <= got[p]["req"] /\ got[p]["req"] <= stored["man"]
      BY DEF FleetInv, Gated
    <3>2. req'[p] = req[p] /\ stored' = stored
      BY DEF storeVars
    <3>3. CASE p = w
      BY <1>2, <3>2, <3>3
    <3>4. CASE p # w
      <4>1. gate'[p] = gate[p] /\ loaded'[p] = loaded[p] /\ got'[p] = got[p]
        BY <1>1, <3>4
      <4> QED BY <3>1, <3>2, <4>1
    <3> QED BY <3>3, <3>4
  <2>4. ASSUME NEW c \in Children, req'[c] = "off" PROVE \A d \in Docs : loaded'[c][d] = 0
    BY <1>1, <2>1, <2>4 DEF FleetInv, Gated
  <2> QED BY <2>2, <2>3, <2>4 DEF Gated
<1>8. Known'
  <2>1. ASSUME NEW v \in conn' \ {w}
        PROVE  /\ v \in conn /\ loaded'[v] = loaded[v] /\ failed'[v] = failed[v] /\ got'[v] = got[v]
               /\ sub'[v] = sub[v] /\ req'[v] = req[v] /\ chan'[v] = chan[v]
    BY <1>1 DEF BusTyped
  <2>2. ASSUME w \in conn' PROVE Heard(w, "env", loaded[w]["env"])' /\ (failed'[w] \/ Heard(w, "man", loaded[w]["man"])')
    <3>1. Heard(w, "env", loaded[w]["env"]) /\ (sub[w] = "man" => Heard(w, "man", got[w]["sub"])) /\ chan'[w] = chan[w]
      BY <2>2 DEF FleetInv, Known
    <3> QED BY <1>1, <3>1 DEF Heard, storeVars
  <2> QED BY <1>2, <2>1, <2>2 DEF FleetInv, Known, Heard, storeVars
<1>9. ForOp'
  <2>1. ASSUME NEW v \in Workers, v # w PROVE cur'[v] = cur[v] /\ sub'[v] = sub[v] /\ loaded'[v] = loaded[v] /\ got'[v] = got[v]
    BY <1>1, <2>1
  <2> QED BY <2>1 DEF FleetInv, ForOp
<1>10. ForRequest'
  <2>1. ASSUME NEW p \in Procs \ {w}
        PROVE  /\ loaded'[p] = loaded[p] /\ failed'[p] = failed[p] /\ got'[p] = got[p] /\ (p \in Workers => sub'[p] = sub[p])
               /\ req' = req /\ ask' = ask
    BY <1>1
  <2>2. req[w] \in {"scan", "publish"} /\ ask[w].targets = None =>
           loaded'[w]["env"] >= ask[w].base["env"] /\ (failed'[w] \/ loaded'[w]["man"] >= ask[w].base["man"])
    BY <1>1 DEF FleetInv, ForRequest
  <2>3. sub'[w] # "man"
    OBVIOUS
  <2> QED BY <1>2, <2>1, <2>2, <2>3 DEF FleetInv, ForRequest
<1>11. Applied'
  BY <1>4, <1>5, AppliedOK
<1>12. Staged'
  <2>1. ASSUME NEW p \in Procs PROVE StageOf(p)'
    <3>1. req[p] \notin {"collect", "done"} => \A o \in Workers : coll'[p].terminal[o] = "none"
      BY DEF FleetInv, Staged, StageOf
    <3>2. coll'[p].expected = coll[p].expected
      OBVIOUS
    <3>3. req' = req /\ ask' = ask /\ StageOf(p)
      BY DEF FleetInv, Staged
    <3> QED BY <3>1, <3>2, <3>3 DEF StageOf, Aimed
  <2> QED BY <2>1 DEF Staged
<1>13. AppliedIsFresh' /\ NobodyUnreported'
  BY <1>4, <1>5, FreshOK, ReportedOK
<1> QED BY <1>4, <1>6, <1>7, <1>8, <1>9, <1>10, <1>11, <1>12, <1>13 DEF FleetInv

LEMMA InstalledParts ==
  ASSUME ReloadTyped, NEW p \in Procs, NEW t \in {"sub", "req"}, Installed(p, t)
  PROVE  loaded'[p]["env"] = loaded[p]["env"] /\ loaded'[p]["man"] = got[p][t]
  BY DEF Installed, ReloadTyped, Versions, Docs

LEMMA AfterReloadKeeps ==
  ASSUME FleetInv, NEW w \in Workers, NEW outcome \in Wire, AfterReload(w, outcome), UNCHANGED <<storeVars, req, ask>>,
         outcome = "applied" => sub[w] = "man" /\ Installed(w, "sub")
  PROVE  /\ sub'[w] \in {"synced", "live"} /\ \A v \in Workers \ {w} : sub'[v] = sub[v]
         /\ cur'[w] = None /\ \A v \in Workers \ {w} : cur'[v] = cur[v]
         /\ \A p \in Procs : coll'[p].expected = coll[p].expected
         /\ \A p \in Procs, o \in Workers : coll'[p].terminal[o] = coll[p].terminal[o]
             \/ (req[p] = "collect" /\ (coll'[p].terminal[o] = "applied" => Covers(loaded'[o], ask[p].base)))
<1> USE InvFacts, Numbers
<1>1. CASE cur[w] = None
  BY <1>1 DEF AfterReload, BusTyped
<1>2. CASE cur[w] # None
  <2>1. PICK op \in Ops : op = cur[w]
    BY <1>2
  <2>2. /\ Reply(w, op, outcome) /\ sub'[w] = "live" /\ cur'[w] = None
        /\ \A v \in Workers \ {w} : sub'[v] = sub[v] /\ cur'[v] = cur[v]
    BY <1>2, <2>1 DEF AfterReload, BusTyped
  <2>3. ASSUME Hears(op), outcome = "applied" PROVE Covers(loaded'[w], ask[op.pub].base)
    <3>1. op.base = ask[op.pub].base
      BY <2>1, <2>3, <1>2 DEF FleetInv, Versioned, OpSound, Hears
    <3>2. loaded[w]["env"] >= op.base["env"] /\ got[w]["sub"] >= op.base["man"]
      BY <2>1, <2>3, <1>2 DEF FleetInv, ForOp
    <3>3. loaded'[w]["env"] = loaded[w]["env"] /\ loaded'[w]["man"] = got[w]["sub"]
      BY <2>3, InstalledParts
    <3> QED BY <3>1, <3>2, <3>3 DEF Covers, Docs
  <2> HIDE DEF Reply, Hears
  <2>4. /\ \A p \in Procs : coll'[p].expected = coll[p].expected
        /\ \A p \in Procs, o \in Workers :
              \/ coll'[p].terminal[o] = coll[p].terminal[o]
              \/ o = w /\ p = op.pub /\ Hears(op) /\ coll'[p].terminal[o] = outcome
    BY <2>2, ReplyKeeps
  <2> QED BY <2>2, <2>3, <2>4 DEF Hears
<1> QED BY <1>1, <1>2

LEMMA SubInstallOK == ASSUME FleetInv, NEW w \in Workers, SubInstall(w) PROVE FleetInv' /\ Grown
<1>1. /\ sub[w] = "man" /\ Installed(w, "sub") /\ AfterReload(w, "applied") /\ "applied" \in Wire
      /\ UNCHANGED <<storeVars, conn, chan, req, ask, report>> /\ Asked' = Asked
  BY DEF SubInstall, Wire, Asked
<1>2. TypeOK' /\ Tabled'
  BY SubInstallTypes
<1> QED BY <1>1, <1>2, AfterReloadKeeps, SubReloadEnds

LEMMA SubRaiseOK == ASSUME FleetInv, NEW w \in Workers, SubRaise(w) PROVE FleetInv' /\ Grown
<1>1. /\ sub[w] \in {"env", "man"} /\ Raised(w, "sub") /\ AfterReload(w, "failed") /\ "failed" \in Wire
      /\ UNCHANGED <<storeVars, conn, chan, req, ask, report>> /\ Asked' = Asked
  BY Spending, InvFacts DEF SubRaise, Wire
<1>2. TypeOK' /\ Tabled'
  BY SubRaiseTypes
<1> QED BY <1>1, <1>2, AfterReloadKeeps, SubReloadEnds

LEMMA ReplyFaultOK == ASSUME FleetInv, NEW w \in Workers, ReplyFault(w) PROVE FleetInv' /\ Grown
<1>1. /\ sub[w] = "man" /\ (Installed(w, "sub") \/ Raised(w, "sub")) /\ Reconnect(w)
      /\ UNCHANGED <<storeVars, req, ask, coll, report>> /\ Asked' = Asked
  BY Spending, InvFacts DEF ReplyFault, reqVars
<1>2. TypeOK' /\ Tabled'
  BY ReplyFaultTypes
<1>3. /\ sub'[w] = "down" /\ cur'[w] = None /\ \A v \in Workers \ {w} : sub'[v] = sub[v] /\ cur'[v] = cur[v]
      /\ conn' \subseteq conn /\ (\A v \in conn' : chan'[v] = chan[v]) /\ \A v \in Workers : Msgs(chan'[v]) \subseteq Msgs(chan[v])
  BY <1>1, InvFacts, EmptyQueue DEF Reconnect, BusTyped
<1> QED BY <1>1, <1>2, <1>3, SubReloadEnds

LEMMA ReqReadEnvOK == ASSUME FleetInv, NEW p \in Procs, ReqReadEnv(p) PROVE FleetInv' /\ Grown
<1> USE InvFacts, Numbers
<1>1. /\ UNCHANGED <<storeVars, sub, cur, conn, chan, presence, hb, ask, coll, report, budget>>
      /\ req[p] = "want" /\ req'[p] = "env" /\ \A q \in Procs \ {p} : req'[q] = req[q]
  BY DEF ReqReadEnv, subVars
<1>2. /\ gate[p] = None /\ gate'[p] = "req" /\ UNCHANGED <<failed, got>>
      /\ loaded'[p]["env"] = stored["env"] /\ loaded'[p]["man"] = loaded[p]["man"]
      /\ \A q \in Procs \ {p} : loaded'[q] = loaded[q] /\ gate'[q] = gate[q]
  BY ReloadParts DEF ReqReadEnv
<1>3. TypeOK'
  BY ReqReadEnvTypes
<1>4. Covers(stored, loaded[p]) /\ (p \in Workers => sub[p] \notin {"env", "man"})
  BY <1>2, FleetConstants DEF FleetInv, Versioned, Gated
<1>5. Grown /\ \A q \in Procs : Covers(stored, loaded'[q])
  <2>1. Covers(loaded'[p], loaded[p]) /\ Covers(stored, loaded'[p])
    BY <1>2, <1>4 DEF Covers, Docs
  <2>2. ASSUME NEW q \in Procs \ {p} PROVE Covers(loaded'[q], loaded[q]) /\ Covers(stored, loaded'[q])
    <3>1. loaded'[q] = loaded[q] /\ \A d \in Docs : loaded[q][d] \in Nat
      BY <1>2
    <3> QED BY <3>1 DEF Covers, FleetInv, Versioned
  <2> QED BY <2>1, <2>2 DEF Grown
<1>6. SameAsk /\ Asked' = Asked
  BY <1>1 DEF SameAsk, Asked
<1>7. Versioned'
  BY <1>1, <1>5, <1>6, VersionedOK
<1>8. Gated'
  <2>1. ASSUME NEW v \in Workers
        PROVE  /\ sub'[v] \in {"env", "man"} => gate'[v] = "sub"
               /\ sub'[v] = "off" => req'[v] = "off"
               /\ sub'[v] = "man" => loaded'[v]["man"] <= got'[v]["sub"] /\ got'[v]["sub"] <= stored'["man"]
    <3>1. CASE v = p
      BY <1>1, <1>4, <3>1 DEF FleetInv, Gated
    <3>2. CASE v # p
      <4>1. v \in Procs \ {p}
        BY <3>2
      <4>2. gate'[v] = gate[v] /\ loaded'[v] = loaded[v] /\ got'[v] = got[v] /\ stored' = stored /\ req'[v] = req[v] /\ sub' = sub
        BY <4>1, <1>1, <1>2 DEF storeVars
      <4> QED BY <4>2 DEF FleetInv, Gated
    <3> QED BY <3>1, <3>2
  <2>2. ASSUME NEW q \in Procs
        PROVE  /\ req'[q] \in {"env", "man"} => gate'[q] = "req"
               /\ req'[q] = "man" => loaded'[q]["man"] <= got'[q]["req"] /\ got'[q]["req"] <= stored'["man"]
    BY <1>1, <1>2 DEF FleetInv, Gated, storeVars
  <2>3. ASSUME NEW c \in Children, req'[c] = "off" PROVE \A d \in Docs : loaded'[c][d] = 0
    <3>1. c \in Procs \ {p}
      BY <1>1, <2>3 DEF Procs
    <3> QED BY <1>1, <1>2, <2>3, <3>1 DEF FleetInv, Gated
  <2> QED BY <2>1, <2>2, <2>3 DEF Gated
<1>9. Known'
  <2>1. ASSUME NEW v \in conn, v # p
        PROVE  /\ loaded'[v] = loaded[v] /\ failed'[v] = failed[v] /\ got'[v] = got[v] /\ req'[v] = req[v]
    BY <1>1, <1>2, <2>1 DEF BusTyped
  <2>2. stored["env"] >= published'["env"]
    BY <1>1 DEF FleetInv, Versioned, storeVars
  <2>3. Heard(p, "env", loaded[p]["env"])'
    BY <2>2, <1>2 DEF Heard
  <2> DEFINE AtWorker(v) ==
        /\ sub[v] = "want" \/ Heard(v, "env", loaded[v]["env"])
        /\ sub[v] \in {"want", "env", "man"} \/ failed[v] \/ Heard(v, "man", loaded[v]["man"])
        /\ sub[v] = "man" => Heard(v, "man", got[v]["sub"])
        /\ req[v] = "man" => sub[v] = "want" \/ Heard(v, "man", got[v]["req"])
  <2>4. ASSUME NEW v \in conn PROVE AtWorker(v)'
    <3>1. AtWorker(v) /\ UNCHANGED <<sub, published, chan, conn>>
      BY <1>1 DEF FleetInv, Known, storeVars
    <3>2. CASE v = p
      <4>1. loaded'[p]["man"] = loaded[p]["man"] /\ failed' = failed /\ req'[p] = "env" /\ sub[p] \notin {"env", "man"}
        BY <1>1, <1>2, <1>4, <3>2 DEF BusTyped
      <4> QED BY <3>1, <3>2, <4>1, <2>3 DEF Heard
    <3>3. CASE v # p
      BY <3>1, <3>3, <2>1 DEF Heard
    <3> QED BY <3>2, <3>3
  <2> QED BY <2>4, <1>1 DEF Known
<1>10. ForOp'
  <2>1. ASSUME NEW v \in Workers, v # p PROVE loaded'[v] = loaded[v]
    BY <1>2, <2>1
  <2> QED BY <1>1, <1>2, <1>4, <2>1 DEF FleetInv, ForOp
<1>11. ForRequest'
  <2>1. stored["env"] >= ask[p].base["env"]
    BY DEF FleetInv, Versioned, Covers
  <2> QED BY <1>1, <1>2, <2>1 DEF FleetInv, ForRequest
<1>12. Applied'
  BY <1>1, <1>3, <1>5, <1>6, AppliedOK
<1>13. Staged'
  <2>1. StageOf(p)'
    BY <1>1 DEF FleetInv, Staged, StageOf, Aimed, Reloading
  <2>2. ASSUME NEW q \in Procs \ {p} PROVE StageOf(q)'
    BY <1>1 DEF FleetInv, Staged, StageOf, Aimed
  <2> QED BY <2>1, <2>2, ReqReadEnvTypes DEF Staged
<1>14. AppliedIsFresh' /\ NobodyUnreported'
  BY <1>1, <1>3, <1>5, <1>6, FreshOK, ReportedOK
<1> QED BY <1>3, <1>5, <1>7, <1>8, <1>9, <1>10, <1>11, <1>12, <1>13, <1>14 DEF FleetInv

LEMMA ReqReadManifestOK == ASSUME FleetInv, NEW p \in Procs, ReqReadManifest(p) PROVE FleetInv' /\ Grown
<1> USE InvFacts, Numbers
<1>1. /\ UNCHANGED <<storeVars, sub, cur, conn, chan, presence, hb, ask, coll, report, budget>>
      /\ req[p] = "env" /\ req'[p] = "man" /\ \A q \in Procs \ {p} : req'[q] = req[q]
  BY DEF ReqReadManifest, subVars
<1>2. /\ got'[p]["req"] = stored["man"] /\ got'[p]["sub"] = got[p]["sub"] /\ UNCHANGED <<loaded, failed, gate>>
      /\ \A q \in Procs \ {p} : got'[q] = got[q]
  BY ReloadParts, Others DEF ReqReadManifest
<1>3. TypeOK'
  BY ReqReadManifestTypes
<1>4. Covers(stored, loaded[p]) /\ gate[p] = "req"
  BY <1>1 DEF FleetInv, Versioned, Gated
<1>5. Grown /\ \A q \in Procs : Covers(stored, loaded'[q])
  BY <1>2, NothingLoaded DEF FleetInv, Versioned
<1>6. SameAsk /\ Asked' = Asked
  BY <1>1 DEF SameAsk, Asked
<1>7. Versioned'
  BY <1>1, <1>5, <1>6, VersionedOK
<1>8. Gated'
  <2>1. loaded[p]["man"] <= stored["man"] /\ stored["man"] <= stored["man"]
    BY <1>4 DEF Covers
  <2>2. ASSUME NEW v \in Workers
        PROVE  /\ sub'[v] \in {"env", "man"} => gate'[v] = "sub"
               /\ sub'[v] = "off" => req'[v] = "off"
               /\ sub'[v] = "man" => loaded'[v]["man"] <= got'[v]["sub"] /\ got'[v]["sub"] <= stored'["man"]
    <3>1. got'[v]["sub"] = got[v]["sub"] /\ (sub[v] = "off" => v # p)
      BY <1>1, <1>2 DEF FleetInv, Gated
    <3> QED BY <1>1, <1>2, <3>1 DEF FleetInv, Gated, storeVars
  <2>3. ASSUME NEW q \in Procs
        PROVE  /\ req'[q] \in {"env", "man"} => gate'[q] = "req"
               /\ req'[q] = "man" => loaded'[q]["man"] <= got'[q]["req"] /\ got'[q]["req"] <= stored'["man"]
    BY <1>1, <1>2, <1>4, <2>1 DEF FleetInv, Gated, storeVars
  <2>4. ASSUME NEW c \in Children, req'[c] = "off" PROVE \A d \in Docs : loaded'[c][d] = 0
    BY <1>1, <1>2, <2>4 DEF FleetInv, Gated, Procs
  <2> QED BY <2>2, <2>3, <2>4 DEF Gated
<1>9. Known'
  <2>1. ASSUME NEW v \in conn PROVE got'[v]["sub"] = got[v]["sub"] /\ (v # p => got'[v] = got[v] /\ req'[v] = req[v])
    BY <1>1, <1>2 DEF BusTyped
  <2>2. stored["man"] >= published'["man"]
    BY <1>1 DEF FleetInv, Versioned, storeVars
  <2>3. Heard(p, "man", got[p]["req"])'
    BY <2>2, <1>2 DEF Heard
  <2> QED BY <1>1, <1>2, <2>1, <2>3 DEF FleetInv, Known, Heard, storeVars
<1>10. ForOp'
  <2>1. ASSUME NEW v \in Workers PROVE got'[v]["sub"] = got[v]["sub"]
    BY <1>2
  <2> QED BY <1>1, <1>2, <2>1 DEF FleetInv, ForOp
<1>11. ForRequest'
  <2>1. stored["man"] >= ask[p].base["man"]
    BY DEF FleetInv, Versioned, Covers
  <2> QED BY <1>1, <1>2, <2>1 DEF FleetInv, ForRequest
<1>12. Applied'
  BY <1>1, <1>3, <1>5, <1>6, AppliedOK
<1>13. Staged'
  <2>1. StageOf(p)'
    BY <1>1 DEF FleetInv, Staged, StageOf, Aimed, Reloading
  <2>2. ASSUME NEW q \in Procs \ {p} PROVE StageOf(q)'
    BY <1>1 DEF FleetInv, Staged, StageOf, Aimed
  <2> QED BY <2>1, <2>2, ReqReadManifestTypes DEF Staged
<1>14. AppliedIsFresh' /\ NobodyUnreported'
  BY <1>1, <1>3, <1>5, <1>6, FreshOK, ReportedOK
<1> QED BY <1>3, <1>5, <1>7, <1>8, <1>9, <1>10, <1>11, <1>12, <1>13, <1>14 DEF FleetInv

\* A request's reload ends, and its outcome is what it will publish.
LEMMA ReqReloadEnds ==
  ASSUME FleetInv, TypeOK', Tabled', NEW p \in Procs, NEW outcome \in Wire,
         \/ outcome = "applied" /\ req[p] = "man" /\ Installed(p, "req")
         \/ outcome = "failed" /\ req[p] \in {"env", "man"} /\ Raised(p, "req"),
         req' = [req EXCEPT ![p] = "scan"], ask' = [ask EXCEPT ![p].local = outcome],
         UNCHANGED <<storeVars, subVars, coll, report>>, Asked' = Asked
  PROVE  FleetInv' /\ Grown
<1> USE InvFacts, Numbers
<1>1. /\ gate[p] = "req" /\ gate'[p] = None /\ got'[p]["sub"] = got[p]["sub"]
      /\ loaded'[p]["env"] = loaded[p]["env"]
      /\ \/ failed'[p] = FALSE /\ loaded'[p]["man"] = got[p]["req"] /\ outcome = "applied" /\ req[p] = "man"
         \/ failed'[p] = TRUE /\ loaded'[p]["man"] = loaded[p]["man"] /\ outcome = "failed"
      /\ \A q \in Procs \ {p} : /\ loaded'[q] = loaded[q] /\ gate'[q] = gate[q]
                                /\ failed'[q] = failed[q] /\ got'[q] = got[q]
  <2>1. gate[p] = "req"
    BY DEF FleetInv, Gated
  <2>2. Installed(p, "req") \/ Raised(p, "req")
    OBVIOUS
  <2>3. /\ gate'[p] = None /\ got'[p]["sub"] = got[p]["sub"]
        /\ loaded'[p]["env"] = loaded[p]["env"]
        /\ \A q \in Procs \ {p} : /\ loaded'[q] = loaded[q] /\ gate'[q] = gate[q]
                                  /\ failed'[q] = failed[q] /\ got'[q] = got[q]
    BY <2>1, <2>2, ReloadParts, Others
  <2>4. CASE outcome = "applied"
    <3>1. req[p] = "man" /\ Installed(p, "req")
      BY <2>4
    <3>2. failed'[p] = FALSE /\ loaded'[p]["man"] = got[p]["req"]
      BY <3>1, InstalledParts DEF Installed, ReloadTyped
    <3> QED BY <2>1, <2>3, <2>4, <3>1, <3>2
  <2>5. CASE outcome # "applied"
    <3>1. outcome = "failed" /\ Raised(p, "req")
      BY <2>5
    <3>2. failed'[p] = TRUE /\ UNCHANGED loaded
      BY <3>1 DEF Raised, ReloadTyped
    <3> QED BY <2>1, <2>3, <3>1, <3>2
  <2> QED BY <2>4, <2>5
<1>2. /\ UNCHANGED <<storeVars, sub, cur, conn, chan, presence, hb, coll, report>>
      /\ req[p] \in {"env", "man"} /\ req'[p] = "scan" /\ \A q \in Procs \ {p} : req'[q] = req[q] /\ ask'[q] = ask[q]
      /\ ask'[p].local = outcome /\ SameAsk
  BY DEF subVars, SameAsk, AskTyped
<1>3. Covers(stored, loaded[p]) /\ (p \in Workers => sub[p] \notin {"env", "man"})
  BY <1>1 DEF FleetInv, Versioned, Gated
<1>4. req[p] = "man" => loaded[p]["man"] <= got[p]["req"] /\ got[p]["req"] <= stored["man"]
  BY DEF FleetInv, Gated
<1>5. Grown /\ \A q \in Procs : Covers(stored, loaded'[q])
  <2>1. Covers(loaded'[p], loaded[p]) /\ Covers(stored, loaded'[p])
    BY <1>1, <1>3, <1>4 DEF Covers, Docs
  <2>2. ASSUME NEW q \in Procs \ {p} PROVE Covers(loaded'[q], loaded[q]) /\ Covers(stored, loaded'[q])
    <3>1. loaded'[q] = loaded[q] /\ \A d \in Docs : loaded[q][d] \in Nat
      BY <1>1
    <3> QED BY <3>1 DEF Covers, FleetInv, Versioned
  <2> QED BY <2>1, <2>2 DEF Grown
<1>6. loaded[p]["env"] >= ask[p].base["env"] /\ (req[p] = "man" => got[p]["req"] >= ask[p].base["man"])
  BY <1>2 DEF FleetInv, ForRequest
<1>7. Versioned'
  BY <1>2, <1>5, VersionedOK
<1>8. Gated'
  <2>1. ASSUME NEW v \in Workers
        PROVE  /\ sub'[v] \in {"env", "man"} => gate'[v] = "sub"
               /\ sub'[v] = "off" => req'[v] = "off"
               /\ sub'[v] = "man" => loaded'[v]["man"] <= got'[v]["sub"] /\ got'[v]["sub"] <= stored'["man"]
    <3>1. CASE v = p
      BY <1>2, <1>3, <3>1 DEF FleetInv, Gated
    <3>2. CASE v # p
      <4>1. v \in Procs \ {p}
        BY <3>2
      <4>2. gate'[v] = gate[v] /\ loaded'[v] = loaded[v] /\ got'[v] = got[v] /\ stored' = stored /\ req'[v] = req[v] /\ sub' = sub
        BY <4>1, <1>1, <1>2 DEF storeVars
      <4> QED BY <4>2 DEF FleetInv, Gated
    <3> QED BY <3>1, <3>2
  <2>2. ASSUME NEW q \in Procs
        PROVE  /\ req'[q] \in {"env", "man"} => gate'[q] = "req"
               /\ req'[q] = "man" => loaded'[q]["man"] <= got'[q]["req"] /\ got'[q]["req"] <= stored'["man"]
    <3>1. /\ req[q] \in {"env", "man"} => gate[q] = "req"
          /\ req[q] = "man" => loaded[q]["man"] <= got[q]["req"] /\ got[q]["req"] <= stored["man"]
      BY DEF FleetInv, Gated
    <3>2. CASE q = p
      BY <1>2, <3>2
    <3>3. CASE q # p
      <4>1. /\ gate'[q] = gate[q] /\ loaded'[q] = loaded[q] /\ got'[q] = got[q] /\ req'[q] = req[q]
            /\ stored' = stored
        BY <1>1, <1>2, <3>3 DEF storeVars
      <4> QED BY <3>1, <4>1
    <3> QED BY <3>2, <3>3
  <2>3. ASSUME NEW c \in Children, req'[c] = "off" PROVE \A d \in Docs : loaded'[c][d] = 0
    <3>1. c \in Procs \ {p}
      BY <1>2, <2>3 DEF Procs
    <3> QED BY <1>1, <1>2, <2>3, <3>1 DEF FleetInv, Gated
  <2> QED BY <2>1, <2>2, <2>3 DEF Gated
<1>9. Known'
  <2>1. ASSUME NEW v \in conn, v # p
        PROVE  /\ loaded'[v] = loaded[v] /\ failed'[v] = failed[v] /\ got'[v] = got[v] /\ req'[v] = req[v]
    BY <1>1, <1>2, <2>1 DEF BusTyped
  <2>2. ASSUME p \in conn, sub[p] # "want"
        PROVE  Heard(p, "env", loaded[p]["env"])' /\ (failed'[p] \/ Heard(p, "man", loaded[p]["man"])')
    <3>1. Heard(p, "env", loaded[p]["env"]) /\ (req[p] = "man" => Heard(p, "man", got[p]["req"]))
      BY <2>2 DEF FleetInv, Known
    <3> QED BY <1>1, <1>2, <3>1 DEF Heard, storeVars
  <2> DEFINE AtWorker(v) ==
        /\ sub[v] = "want" \/ Heard(v, "env", loaded[v]["env"])
        /\ sub[v] \in {"want", "env", "man"} \/ failed[v] \/ Heard(v, "man", loaded[v]["man"])
        /\ sub[v] = "man" => Heard(v, "man", got[v]["sub"])
        /\ req[v] = "man" => sub[v] = "want" \/ Heard(v, "man", got[v]["req"])
  <2>3. ASSUME NEW v \in conn, v # p PROVE AtWorker(v)'
    <3>1. AtWorker(v)
      BY DEF FleetInv, Known
    <3> QED BY <3>1, <2>1, <2>3, <1>2 DEF Heard, storeVars
  <2>4. ASSUME p \in conn PROVE AtWorker(p)'
    <3>1. p \in Workers /\ sub'[p] # "man" /\ req'[p] # "man"
      BY <1>2, <1>3, <2>4 DEF BusTyped
    <3>2. CASE sub[p] = "want"
      BY <3>1, <3>2, <1>2
    <3>3. CASE sub[p] # "want"
      BY <3>1, <3>3, <2>2, <2>4
    <3> QED BY <3>2, <3>3
  <2> QED BY <1>2, <2>3, <2>4 DEF Known
<1>10. ForOp'
  <2>1. ASSUME NEW v \in Workers, v # p PROVE loaded'[v] = loaded[v] /\ got'[v] = got[v]
    BY <1>1, <2>1
  <2> QED BY <1>2, <1>3, <2>1 DEF FleetInv, ForOp
<1>11. ForRequest'
  <2>1. ASSUME NEW q \in Procs \ {p}
        PROVE  /\ loaded'[q] = loaded[q] /\ failed'[q] = failed[q] /\ got'[q] = got[q]
               /\ req'[q] = req[q] /\ ask'[q] = ask[q] /\ sub' = sub
    BY <1>1, <1>2
  <2>2. ask'[p].base = ask[p].base /\ loaded'[p]["env"] >= ask[p].base["env"] /\ (failed'[p] \/ loaded'[p]["man"] >= ask[p].base["man"])
    BY <1>1, <1>2, <1>6 DEF SameAsk
  <2> QED BY <1>2, <1>3, <2>1, <2>2 DEF FleetInv, ForRequest
<1>12. Applied'
  <2>1. ask'[p].local = "applied" => Covers(loaded'[p], ask[p].base)
    BY <1>1, <1>2, <1>6 DEF Covers, Docs
  <2> QED BY <1>2, <1>5, <2>1, AppliedOK
<1>13. Staged'
  <2>1. StageOf(p)'
    <3>1. StageOf(p) /\ Aimed(p)
      BY <1>2 DEF FleetInv, Staged, StageOf, Reloading
    <3>2. Aimed(p)' /\ ask'[p].n = ask[p].n
      BY <1>2, <3>1 DEF Aimed, SameAsk
    <3>3. ask'[p].local # "none"
      BY <1>1, <1>2
    <3> QED BY <1>2, <3>1, <3>2, <3>3 DEF StageOf, Reloading
  <2>2. ASSUME NEW q \in Procs \ {p} PROVE StageOf(q)'
    BY <1>2 DEF FleetInv, Staged, StageOf, Aimed
  <2> QED BY <2>1, <2>2 DEF Staged
<1>14. AppliedIsFresh' /\ NobodyUnreported'
  BY <1>2, <1>5, FreshOK, ReportedOK
<1> QED BY <1>5, <1>7, <1>8, <1>9, <1>10, <1>11, <1>12, <1>13, <1>14 DEF FleetInv

LEMMA ReqInstallOK == ASSUME FleetInv, NEW p \in Procs, ReqInstall(p) PROVE FleetInv' /\ Grown
<1>1. Asked' = Asked /\ "applied" \in Wire
  BY DEF ReqInstall, Asked, Wire
<1> QED BY <1>1, ReqInstallTypes, ReqReloadEnds DEF ReqInstall

LEMMA ReqRaiseOK == ASSUME FleetInv, NEW p \in Procs, ReqRaise(p) PROVE FleetInv' /\ Grown
<1>1. Asked' = Asked /\ "failed" \in Wire
  BY Spending, InvFacts DEF ReqRaise, Wire
<1> QED BY <1>1, ReqRaiseTypes, ReqReloadEnds DEF ReqRaise

----------------------------------------------------------------------------
(* Requests, and processes that come and go. *)

\* The versions stay ordered when one process's request begins, goes on or is over.
LEMMA VersionedReq ==
  ASSUME FleetInv, NEW p \in Procs, UNCHANGED published, Covers(stored', stored), stored' \in Versions,
         Asked' \in Nat, Asked <= Asked', \A q \in Procs : Covers(stored, loaded'[q]),
         \A q \in Procs, d \in Docs : loaded'[q][d] \in Nat,
         \A q \in Procs \ {p} : ask'[q] = ask[q],
         ask'[p].n \in Nat, ask'[p].n <= Asked', Covers(stored', ask'[p].base),
         ask'[p].n = 0 \/ ask'[p].n > Asked \/ (ask'[p].n = ask[p].n /\ ask'[p].base = ask[p].base),
         \A d \in Docs : stored'[d] <= Asked',
         \A w \in Workers : Msgs(chan'[w]) \subseteq Msgs(chan[w]) /\ (cur'[w] = cur[w] \/ cur'[w] = None)
  PROVE  Versioned'
<1> USE InvFacts, Numbers
<1>1. \A d \in Docs : stored'[d] \in Nat /\ stored'[d] >= stored[d] /\ published[d] <= stored[d]
  BY FleetConstants DEF Versions, Covers, FleetInv, Versioned
<1>2. Asked \in Nat
  BY AskedNumber
<1>8. ASSUME NEW v, \A d \in Docs : v[d] \in Nat, Covers(stored, v) PROVE Covers(stored', v)
  <2> SUFFICES ASSUME NEW d \in Docs PROVE stored'[d] >= v[d]
    BY DEF Covers
  <2>1. stored[d] >= v[d] /\ v[d] \in Nat
    BY <1>8 DEF Covers
  <2> QED BY <2>1, <1>1
<1>3. ASSUME NEW op \in Ops, OpSound(op) PROVE OpSound(op)'
  <2>1. Covers(stored', op.base)
    <3>1. Covers(stored, op.base) /\ \A d \in Docs : op.base[d] \in Nat
      BY <1>3 DEF OpSound
    <3> QED BY <3>1, <1>8
  <2>2. op.n <= Asked' /\ op.n <= Asked /\ op.pub \in Procs /\ op.n > 0
    BY <1>2, <1>3 DEF OpSound
  <2>3. op.n = ask'[op.pub].n => op.base = ask'[op.pub].base
    <3>1. op.n = ask[op.pub].n => op.base = ask[op.pub].base
      BY <1>3 DEF OpSound
    <3>2. CASE op.pub = p
      <4>1. op.n = ask'[p].n => ask'[p].n # 0 /\ ~(ask'[p].n > Asked)
        BY <2>2, <1>2
      <4> QED BY <4>1, <3>1, <3>2
    <3>3. CASE op.pub # p
      BY <2>2, <3>1, <3>3
    <3> QED BY <3>2, <3>3
  <2> QED BY <2>1, <2>2, <2>3 DEF OpSound
<1>4. ASSUME NEW w \in Workers PROVE \A op \in Msgs(chan'[w]) : OpSound(op)'
  BY <1>3 DEF FleetInv, Versioned
<1>5. ASSUME NEW w \in Workers, cur'[w] # None PROVE OpSound(cur[w])'
  <2>1. PICK c \in Ops : c = cur'[w] /\ OpSound(c)
    BY <1>5 DEF FleetInv, Versioned
  <2>2. OpSound(c)'
    BY <2>1, <1>3
  <2> QED BY <2>1, <2>2 DEF OpSound
<1>6. ASSUME NEW q \in Procs PROVE Covers(stored', loaded'[q]) /\ Covers(stored', ask'[q].base) /\ ask'[q].n <= Asked'
  <2>1. Covers(stored', loaded'[q])
    <3>1. PICK v : v = loaded'[q]
      OBVIOUS
    <3>2. Covers(stored, v) /\ \A d \in Docs : v[d] \in Nat
      BY <3>1
    <3> QED BY <3>1, <3>2, <1>8
  <2>2. CASE q = p
    BY <2>1, <2>2
  <2>3. CASE q # p
    <3>1. ask'[q] = ask[q] /\ Covers(stored, ask[q].base) /\ ask[q].n <= Asked
      BY <2>3 DEF FleetInv, Versioned
    <3>2. Covers(stored', ask[q].base)
      BY <3>1, <1>8
    <3> QED BY <2>1, <3>1, <3>2, <1>2
  <2> QED BY <2>2, <2>3
<1>7. \A d \in Docs : stored'[d] <= Asked' /\ published'[d] <= stored'[d]
  BY <1>1
<1> QED BY <1>4, <1>5, <1>6, <1>7 DEF Versioned

LEMMA ReqGated ==
  ASSUME FleetInv, NEW p \in Procs, NEW s \in {"idle", "want", "scan", "publish", "collect", "done"},
         req' = [req EXCEPT ![p] = s], req[p] # "off",
         Covers(stored', stored), stored' \in Versions, UNCHANGED <<loaded, gate, got, sub>>
  PROVE  Gated'
<1> USE InvFacts, Numbers
<1>1. stored'["man"] \in Nat /\ stored'["man"] >= stored["man"]
  BY FleetConstants DEF Versions, Covers, Docs
<1>2. req'[p] = s /\ \A q \in Procs \ {p} : req'[q] = req[q]
  OBVIOUS
<1>3. ASSUME NEW v \in Workers
      PROVE  /\ sub'[v] \in {"env", "man"} => gate'[v] = "sub"
             /\ sub'[v] = "off" => req'[v] = "off"
             /\ sub'[v] = "man" => loaded'[v]["man"] <= got'[v]["sub"] /\ got'[v]["sub"] <= stored'["man"]
  BY <1>1, <1>2 DEF FleetInv, Gated
<1>4. ASSUME NEW q \in Procs
      PROVE  /\ req'[q] \in {"env", "man"} => gate'[q] = "req"
             /\ req'[q] = "man" => loaded'[q]["man"] <= got'[q]["req"] /\ got'[q]["req"] <= stored'["man"]
  BY <1>1, <1>2 DEF FleetInv, Gated
<1>5. ASSUME NEW c \in Children, req'[c] = "off" PROVE \A d \in Docs : loaded'[c][d] = 0
  BY <1>2, <1>5 DEF FleetInv, Gated, Procs
<1> QED BY <1>3, <1>4, <1>5 DEF Gated

LEMMA ReqKnown ==
  ASSUME FleetInv, NEW p \in Procs, NEW s \in {"idle", "want", "scan", "publish", "collect", "done"},
         req' = [req EXCEPT ![p] = s], UNCHANGED <<published, loaded, failed, got, sub, conn, chan>>
  PROVE  Known'
<1> USE InvFacts
<1>1. req'[p] = s /\ \A q \in Procs \ {p} : req'[q] = req[q]
  OBVIOUS
<1> QED BY <1>1 DEF FleetInv, Known, Heard, BusTyped

LEMMA ReqForOp == ASSUME FleetInv, UNCHANGED <<cur, sub, loaded, got>> PROVE ForOp'
  BY DEF FleetInv, ForOp

\* What a step of p's request must leave behind.
RequestOf(p) ==
    /\ req[p] \in {"env", "man"} => loaded[p]["env"] >= ask[p].base["env"]
    /\ req[p] = "man" => got[p]["req"] >= ask[p].base["man"]
    /\ req[p] \in {"scan", "publish"} /\ ask[p].targets = None =>
         /\ loaded[p]["env"] >= ask[p].base["env"] /\ (failed[p] \/ loaded[p]["man"] >= ask[p].base["man"])
         /\ p \in Workers /\ sub[p] = "man" => got[p]["sub"] >= ask[p].base["man"]
ReportOf(p) ==
    req[p] = "done" =>
        /\ \A o \in DOMAIN report[p].results : report[p].results[o] = "applied" => Covers(loaded[o], ask[p].base)
        /\ report[p].reachable => /\ coll[p].expected \subseteq DOMAIN report[p].results
                                  /\ p \in DOMAIN report[p].results <=> (ask[p].targets = None \/ p \in ask[p].targets)
AppliedOf(p) ==
    /\ ask[p].local = "applied" => Covers(loaded[p], ask[p].base)
    /\ \A o \in Workers : coll[p].terminal[o] = "applied" => Covers(loaded[o], ask[p].base)

LEMMA RequestParts ==
  FleetInv => \A p \in Procs : RequestOf(p) /\ AppliedOf(p) /\ StageOf(p) /\ ReportOf(p)
<1>1. FleetInv => \A p \in Procs : ReportOf(p)
  BY DEF FleetInv, ReportOf, AppliedIsFresh, NobodyUnreported
<1> QED BY <1>1 DEF FleetInv, ForRequest, RequestOf, Applied, AppliedOf, Staged

LEMMA RequestWhole ==
  ASSUME \A p \in Procs : RequestOf(p)' /\ AppliedOf(p)' /\ StageOf(p)' /\ ReportOf(p)', Tabled'
  PROVE  ForRequest' /\ Applied' /\ Staged' /\ AppliedIsFresh' /\ NobodyUnreported'
<1>1. AppliedIsFresh' /\ NobodyUnreported'
  BY DEF ReportOf, AppliedIsFresh, NobodyUnreported
<1> QED BY <1>1 DEF ForRequest, RequestOf, Applied, AppliedOf, Staged

\* The requests of the other processes do not see what p's request does.
LEMMA OtherRequests ==
  ASSUME FleetInv, NEW p \in Procs, UNCHANGED <<loaded, failed>>,
         \A q \in Procs \ {p} : got'[q] = got[q] /\ (q \in Workers => sub'[q] = sub[q]),
         \A q \in Procs \ {p} : req'[q] = req[q] /\ ask'[q] = ask[q] /\ coll'[q] = coll[q] /\ report'[q] = report[q],
         Tabled', RequestOf(p)', AppliedOf(p)', StageOf(p)', ReportOf(p)'
  PROVE  ForRequest' /\ Applied' /\ Staged' /\ AppliedIsFresh' /\ NobodyUnreported'
<1>1. ASSUME NEW q \in Procs \ {p} PROVE RequestOf(q)' /\ AppliedOf(q)' /\ StageOf(q)' /\ ReportOf(q)'
  <2>1. RequestOf(q) /\ AppliedOf(q) /\ StageOf(q) /\ ReportOf(q)
    BY RequestParts
  <2> QED BY <2>1 DEF RequestOf, AppliedOf, StageOf, ReportOf, Aimed
<1> QED BY <1>1, RequestWhole

LEMMA SameVersions == ASSUME TypeOK PROVE Covers(stored, stored) /\ \A p \in Procs : Covers(loaded[p], loaded[p])
  BY Numbers DEF Covers

\* A step of p's request that moves neither a version nor a message.
LEMMA ReqStepOK ==
  ASSUME FleetInv, TypeOK', Tabled', NEW p \in Procs, NEW s \in {"idle", "want", "scan", "publish", "collect", "done"},
         req[p] # "off", req' = [req EXCEPT ![p] = s], UNCHANGED <<published, loaded, failed, gate, got, subVars>>,
         Covers(stored', stored), \A d \in Docs : stored'[d] <= Asked', Asked' \in Nat, Asked <= Asked',
         \A q \in Procs \ {p} : ask'[q] = ask[q] /\ coll'[q] = coll[q] /\ report'[q] = report[q],
         ask'[p].n \in Nat, ask'[p].n <= Asked', Covers(stored', ask'[p].base),
         ask'[p].n = 0 \/ ask'[p].n > Asked \/ (ask'[p].n = ask[p].n /\ ask'[p].base = ask[p].base),
         RequestOf(p)', AppliedOf(p)', StageOf(p)', ReportOf(p)'
  PROVE  FleetInv' /\ Grown
<1> USE InvFacts, Numbers
<1>1. stored' \in Versions /\ UNCHANGED <<sub, cur, conn, chan>>
  BY DEF TypeOK, subVars
<1>2. Versioned'
  <2>1. \A q \in Procs : Covers(stored, loaded'[q])
    BY DEF FleetInv, Versioned
  <2>2. \A q \in Procs, d \in Docs : loaded'[q][d] \in Nat
    OBVIOUS
  <2> QED BY <1>1, <2>1, <2>2, VersionedReq
<1>3. Gated'
  BY <1>1, ReqGated
<1>4. Known'
  BY <1>1, ReqKnown
<1>5. ForOp'
  BY <1>1, ReqForOp
<1>6. ForRequest' /\ Applied' /\ Staged' /\ AppliedIsFresh' /\ NobodyUnreported'
  <2>1. \A q \in Procs \ {p} : req'[q] = req[q]
    OBVIOUS
  <2>2. \A q \in Procs \ {p} : got'[q] = got[q] /\ (q \in Workers => sub'[q] = sub[q])
    BY <1>1
  <2> QED BY <2>1, <2>2, OtherRequests
<1> QED BY <1>2, <1>3, <1>4, <1>5, <1>6, NothingLoaded DEF FleetInv

\* The same for a step within a request: it asks for what it asked.
LEMMA ReqGoesOn ==
  ASSUME FleetInv, TypeOK', Tabled', NEW p \in Procs, NEW s \in {"scan", "publish", "collect", "done"},
         req[p] # "off", req' = [req EXCEPT ![p] = s], UNCHANGED <<storeVars, loaded, failed, gate, got, subVars, ask>>, Asked' = Asked,
         \A q \in Procs \ {p} : coll'[q] = coll[q] /\ report'[q] = report[q],
         RequestOf(p)', AppliedOf(p)', StageOf(p)', ReportOf(p)'
  PROVE  FleetInv' /\ Grown
<1> USE InvFacts, Numbers
<1>1. UNCHANGED <<stored, published>> /\ Covers(stored, stored) /\ Asked \in Nat
  BY SameVersions, AskedNumber DEF storeVars
<1>2. ask[p].n <= Asked /\ Covers(stored, ask[p].base) /\ \A d \in Docs : stored[d] <= Asked
  BY DEF FleetInv, Versioned
<1>3. /\ Covers(stored', stored) /\ (\A d \in Docs : stored'[d] <= Asked') /\ Asked' \in Nat /\ Asked <= Asked'
      /\ ask'[p].n \in Nat /\ ask'[p].n <= Asked' /\ Covers(stored', ask'[p].base)
      /\ ask'[p].n = ask[p].n /\ ask'[p].base = ask[p].base
      /\ \A q \in Procs \ {p} : ask'[q] = ask[q]
      /\ UNCHANGED <<published, loaded, failed, gate, got, subVars>>
  BY <1>1, <1>2
<1> QED BY <1>3, ReqStepOK

LEMMA ScanOK == ASSUME FleetInv, NEW p \in Procs, Scan(p) PROVE FleetInv' /\ Grown
<1> USE InvFacts, Numbers
<1>1. TypeOK' /\ Tabled'
  BY ScanTypes
<1>2. /\ req[p] = "scan" /\ req' = [req EXCEPT ![p] = "publish"]
      /\ UNCHANGED <<storeVars, loaded, failed, gate, got, subVars, ask, report>> /\ Asked' = Asked
  BY DEF Scan, Asked
<1>3. PICK aimed : aimed = IF ask[p].targets = None THEN presence ELSE ask[p].targets
  OBVIOUS
<1>4. coll' = [coll EXCEPT ![p] = [NoColl EXCEPT !.expected = aimed \ {p}]]
  BY <1>3 DEF Scan
<1>5. /\ coll'[p].expected = aimed \ {p} /\ (\A o \in Workers : coll'[p].terminal[o] = "none")
      /\ \A q \in Procs \ {p} : coll'[q] = coll[q]
  BY <1>4 DEF NoColl
<1>6. RequestOf(p) /\ AppliedOf(p) /\ StageOf(p)
  BY RequestParts
<1>7. req'[p] = "publish" /\ UNCHANGED <<loaded, failed, got, sub, ask>>
  BY <1>2 DEF subVars
<1>8. RequestOf(p)' /\ AppliedOf(p)' /\ StageOf(p)' /\ ReportOf(p)'
  BY <1>2, <1>5, <1>6, <1>7 DEF RequestOf, AppliedOf, StageOf, ReportOf, Aimed, Reloading
<1> QED BY <1>1, <1>2, <1>5, <1>8, ReqGoesOn

LEMMA PublishFaultOK == ASSUME FleetInv, NEW p \in Procs, PublishFault(p) PROVE FleetInv' /\ Grown
<1> USE InvFacts, Numbers
<1>1. TypeOK' /\ Tabled'
  BY PublishFaultTypes
<1>2. /\ req[p] \in {"scan", "publish", "collect"} /\ req' = [req EXCEPT ![p] = "done"]
      /\ UNCHANGED <<storeVars, loaded, failed, gate, got, subVars, ask, coll>> /\ Asked' = Asked
      /\ report' = [report EXCEPT ![p] = Unreachable]
  BY Spending DEF PublishFault
<1>3. report'[p] = Unreachable /\ \A q \in Procs \ {p} : report'[q] = report[q]
  BY <1>2, UnreachableReport, ReportTypes DEF Tabled
<1>4. RequestOf(p) /\ AppliedOf(p) /\ StageOf(p)
  BY RequestParts
<1>5. req'[p] = "done" /\ UNCHANGED <<loaded, failed, got, sub, ask, coll>>
  BY <1>2 DEF subVars
<1>6. RequestOf(p)' /\ AppliedOf(p)' /\ StageOf(p)' /\ ReportOf(p)'
  BY <1>2, <1>3, <1>4, <1>5, UnreachableReport DEF RequestOf, AppliedOf, StageOf, ReportOf, Aimed, Reloading
<1> QED BY <1>1, <1>2, <1>3, <1>6, ReqGoesOn

LEMMA AnswerOK ==
  ASSUME FleetInv, NEW p \in Procs, NEW blind \in BOOLEAN, req[p] = "collect", Answer(p, blind),
         budget' \in Scenario, Asked' = Asked
  PROVE  FleetInv' /\ Grown
<1> USE InvFacts, Numbers
<1>1. TypeOK' /\ Tabled'
  BY AnswerTypes
<1>2. /\ req' = [req EXCEPT ![p] = "done"]
      /\ UNCHANGED <<storeVars, loaded, failed, gate, got, subVars, ask, coll>>
      /\ report' = [report EXCEPT ![p] = [reachable |-> TRUE, results |-> Results(p, blind)]]
  BY DEF Answer
<1>3. PICK r : r = [reachable |-> TRUE, results |-> Results(p, blind)]
  OBVIOUS
<1>4. r.reachable = TRUE /\ r.results = Results(p, blind)
  BY <1>3
<1>5. report'[p] = r /\ \A q \in Procs \ {p} : report'[q] = report[q]
  <2>1. r.reachable \in BOOLEAN /\ DOMAIN r.results \subseteq Procs /\ \A o \in DOMAIN r.results : r.results[o] \in Verdicts
    <3>1. p \notin coll[p].expected /\ TypeOK
      OBVIOUS
    <3>2. /\ DOMAIN Results(p, blind) \subseteq Procs
          /\ \A o \in DOMAIN Results(p, blind) : Results(p, blind)[o] \in Verdicts
      BY <3>1, AnswerReport
    <3> HIDE InvFacts, Numbers
    <3> QED BY <1>4, <3>2
  <2>2. report' = [report EXCEPT ![p] = r]
    BY <1>2, <1>3
  <2> QED BY <2>1, <2>2, ReportTypes DEF Tabled
<1>6. RequestOf(p) /\ AppliedOf(p) /\ StageOf(p)
  BY RequestParts
<1>7. req'[p] = "done" /\ UNCHANGED <<loaded, failed, got, sub, ask, coll>>
  BY <1>2 DEF subVars
<1>8. RequestOf(p)' /\ AppliedOf(p)' /\ StageOf(p)'
  BY <1>6, <1>7 DEF RequestOf, AppliedOf, StageOf, Aimed, Reloading
<1>9. ReportOf(p)'
  <2>0. /\ DOMAIN Results(p, blind) = coll[p].expected \cup (IF ask[p].local = "none" THEN {} ELSE {p})
        /\ \A o \in DOMAIN Results(p, blind) : Results(p, blind)[o] = "applied" =>
              IF o = p THEN ask[p].local = "applied" ELSE o \in Workers /\ coll[p].terminal[o] = "applied"
    <3>1. TypeOK /\ p \notin coll[p].expected
      OBVIOUS
    <3> HIDE InvFacts, Numbers
    <3> QED BY <3>1, AnswerReport
  <2>1. DOMAIN r.results = coll[p].expected \cup (IF ask[p].local = "none" THEN {} ELSE {p})
    BY <1>4, <2>0
  <2>2. ASSUME NEW o \in DOMAIN r.results, r.results[o] = "applied" PROVE Covers(loaded[o], ask[p].base)
    <3>1. IF o = p THEN ask[p].local = "applied" ELSE o \in Workers /\ coll[p].terminal[o] = "applied"
      BY <2>2, <1>4, <2>0
    <3> QED BY <3>1, <1>6 DEF AppliedOf
  <2>3. p \in DOMAIN r.results <=> (ask[p].targets = None \/ p \in ask[p].targets)
    BY <2>1, <1>6 DEF StageOf, Aimed
  <2> QED BY <2>1, <2>2, <2>3, <1>5, <1>7 DEF ReportOf
<1> QED BY <1>1, <1>2, <1>5, <1>8, <1>9, ReqGoesOn

LEMMA CollectOK == ASSUME FleetInv, NEW p \in Procs, Collect(p) \/ CollectFault(p) PROVE FleetInv' /\ Grown
<1> USE InvFacts
<1>1. CASE Collect(p)
  <2>1. req[p] = "collect" /\ Answer(p, FALSE) /\ Asked' = Asked /\ budget' \in Scenario
    BY <1>1 DEF Collect, Asked
  <2> QED BY <2>1, AnswerOK
<1>2. CASE CollectFault(p)
  <2>1. req[p] = "collect" /\ Asked' = Asked /\ budget' \in Scenario
    BY <1>2, Spending DEF CollectFault
  <2>2. PICK blind \in BOOLEAN : Answer(p, blind)
    BY <1>2 DEF CollectFault
  <2> QED BY <2>1, <2>2, AnswerOK
<1> QED BY <1>1, <1>2

LEMMA NoAskFacts == NoAsk.n = 0 /\ NoAsk.local = "none" /\ NoAsk.targets = None /\ \A d \in Docs : NoAsk.base[d] = 0
  BY DEF NoAsk

LEMMA NoCollFacts == NoColl.expected = {} /\ \A o \in Workers : NoColl.terminal[o] = "none"
  BY DEF NoColl

LEMMA ReturnOK == ASSUME FleetInv, NEW p \in Procs, Return(p) PROVE FleetInv' /\ Grown
<1> USE InvFacts, Numbers
<1>1. TypeOK' /\ Tabled'
  BY ReturnTypes
<1>2. /\ req[p] = "done" /\ req' = [req EXCEPT ![p] = "idle"] /\ Asked' = Asked
      /\ UNCHANGED <<storeVars, loaded, failed, gate, got, subVars>>
      /\ ask' = [ask EXCEPT ![p] = NoAsk] /\ coll' = [coll EXCEPT ![p] = NoColl]
      /\ report' = [report EXCEPT ![p] = Unreachable]
  BY DEF Return, Asked
<1>3. report'[p] = Unreachable /\ \A q \in Procs \ {p} : report'[q] = report[q]
  BY <1>2, UnreachableReport, ReportTypes DEF Tabled
<1>4. /\ ask'[p] = NoAsk /\ coll'[p] = NoColl /\ req'[p] = "idle"
      /\ \A q \in Procs \ {p} : ask'[q] = ask[q] /\ coll'[q] = coll[q]
  BY <1>2 DEF AskTyped
<1>5. RequestOf(p)' /\ AppliedOf(p)' /\ StageOf(p)' /\ ReportOf(p)'
  BY <1>3, <1>4, NoAskFacts, NoCollFacts DEF RequestOf, AppliedOf, StageOf, ReportOf, Aimed, Reloading
<1>6. UNCHANGED <<stored, published>> /\ Covers(stored, stored) /\ Asked \in Nat /\ \A d \in Docs : stored[d] <= Asked
  BY <1>2, SameVersions, AskedNumber DEF storeVars, FleetInv, Versioned
<1>7. /\ Covers(stored', stored) /\ (\A d \in Docs : stored'[d] <= Asked') /\ Asked' \in Nat /\ Asked <= Asked'
      /\ ask'[p].n = 0 /\ ask'[p].n \in Nat /\ ask'[p].n <= Asked'
      /\ UNCHANGED <<published, loaded, failed, gate, got, subVars>>
  BY <1>2, <1>4, <1>6, NoAskFacts
<1>8. Covers(stored', ask'[p].base)
  BY <1>4, <1>6, NoAskFacts DEF Covers
<1> QED BY <1>1, <1>2, <1>3, <1>4, <1>5, <1>7, <1>8, ReqStepOK

LEMMA AsksOK ==
  ASSUME FleetInv, NEW p \in Procs, NEW base \in Versions, NEW targets \in (SUBSET Workers) \cup {None},
         NEW at \in {"want", "scan"}, Asks(p, base, targets, at), at = "want" <=> (targets = None \/ p \in targets),
         stored' \in Versions, Covers(stored', stored), Covers(stored', base), \A d \in Docs : stored'[d] <= stored[d] + 1
  PROVE  FleetInv' /\ Grown
<1> USE InvFacts, Numbers
<1>1. TypeOK' /\ Tabled'
  BY AsksTypes
<1>2. /\ Asked \in Nat /\ Asked' = Asked + 1 /\ Asked' \in Nat /\ Asked' = MaxRequests - budget'.requests
  BY Asking, FleetConstants DEF Asks
<1>3. /\ req[p] = "idle" /\ req' = [req EXCEPT ![p] = at]
      /\ UNCHANGED <<published, loaded, failed, gate, got, subVars, coll, report>>
      /\ ask' = [ask EXCEPT ![p] = [n |-> Asked', base |-> base, targets |-> targets, local |-> "none"]]
  BY <1>2 DEF Asks
<1>4. PICK n, v : n = Asked' /\ v = [n |-> n, base |-> base, targets |-> targets, local |-> "none"]
  OBVIOUS
<1>5. ask'[p] = v /\ (\A q \in Procs \ {p} : ask'[q] = ask[q]) /\ req'[p] = at
  BY <1>3, <1>4 DEF AskTyped
<1>6. v.n = n /\ v.base = base /\ v.targets = targets /\ v.local = "none"
  BY <1>4
<1>7. AppliedOf(p) /\ StageOf(p)
  BY RequestParts
<1>8. RequestOf(p)' /\ AppliedOf(p)' /\ ReportOf(p)'
  BY <1>3, <1>5, <1>6, <1>7 DEF RequestOf, AppliedOf, StageOf, ReportOf
<1>9. StageOf(p)'
  BY <1>2, <1>3, <1>4, <1>5, <1>6, <1>7 DEF StageOf, Aimed, Reloading
<1>10. \A d \in Docs : stored'[d] <= Asked'
  <2>1. ASSUME NEW d \in Docs PROVE stored'[d] <= Asked'
    <3>1. stored[d] <= Asked /\ stored'[d] <= stored[d] + 1 /\ stored'[d] \in Nat /\ stored[d] \in Nat
      BY FleetConstants DEF FleetInv, Versioned, Versions
    <3> QED BY <3>1, <1>2
  <2> QED BY <2>1
<1>11. /\ Asked <= Asked' /\ ask'[p].n \in Nat /\ ask'[p].n <= Asked' /\ ask'[p].n > Asked /\ Covers(stored', ask'[p].base)
       /\ UNCHANGED <<published, loaded, failed, gate, got, subVars>> /\ req[p] # "off"
       /\ \A q \in Procs \ {p} : ask'[q] = ask[q] /\ coll'[q] = coll[q] /\ report'[q] = report[q]
  BY <1>2, <1>3, <1>4, <1>5, <1>6
<1> QED BY <1>1, <1>2, <1>3, <1>8, <1>9, <1>10, <1>11, ReqStepOK

LEMMA ChangeOK == ASSUME FleetInv, NEW p \in Procs, NEW d \in Docs, Change(p, d) PROVE FleetInv' /\ Grown
<1> USE InvFacts, Numbers
<1>1. stored' = [stored EXCEPT ![d] = stored[d] + 1] /\ Asks(p, stored', None, "want")
  BY DEF Change
<1>2. Asked + 1 <= MaxRequests /\ Asked \in Nat /\ MaxRequests \in Nat
  <2>1. Spend("requests")
    BY <1>1 DEF Asks
  <2> QED BY <2>1, Asking, FleetConstants
<1>3. stored[d] <= Asked
  BY DEF FleetInv, Versioned
<1>4. stored' \in Versions /\ \A e \in Docs : stored'[e] <= stored[e] + 1 /\ stored'[e] >= stored[e] /\ stored'[e] >= stored'[e]
  BY <1>1, <1>2, <1>3 DEF Versions
<1>5. PICK base \in Versions : base = stored'
  BY <1>4
<1>6. Asks(p, base, None, "want") /\ Covers(stored', stored) /\ Covers(stored', base)
  BY <1>1, <1>4, <1>5 DEF Covers
<1> QED BY <1>4, <1>6, AsksOK

LEMMA SoftRestartOK == ASSUME FleetInv, NEW p \in Procs, NEW t \in budget.targets, SoftRestart(p, t) PROVE FleetInv' /\ Grown
<1> USE InvFacts, Numbers
<1>1. t \in (SUBSET Workers) \cup {None}
  BY DEF Scenario
<1>2. PICK at \in {"want", "scan"} : at = IF t = None \/ p \in t THEN "want" ELSE "scan"
  OBVIOUS
<1>3. Asks(p, stored, t, at) /\ UNCHANGED stored
  BY <1>2 DEF SoftRestart
<1>4. Covers(stored, stored) /\ \A d \in Docs : stored[d] <= stored[d] + 1
  BY SameVersions
<1>5. at = "want" <=> (t = None \/ p \in t)
  BY <1>2
<1>6. stored' \in Versions /\ Covers(stored', stored) /\ \A d \in Docs : stored'[d] <= stored[d] + 1
  BY <1>3, <1>4
<1> QED BY <1>1, <1>3, <1>4, <1>5, <1>6, AsksOK

LEMMA BroadcastOK == ASSUME FleetInv, NEW p \in Procs, Broadcast(p) PROVE FleetInv' /\ Grown
<1> USE InvFacts, Numbers
<1>1. TypeOK' /\ Tabled'
  BY BroadcastTypes
<1>2. PICK op : op = [pub |-> p, n |-> ask[p].n, targets |-> ask[p].targets, base |-> ask[p].base]
  OBVIOUS
<1>3. op.pub = p /\ op.n = ask[p].n /\ op.targets = ask[p].targets /\ op.base = ask[p].base
  BY <1>2
<1>4. op \in Ops
  <2>1. ask[p].n \in 0 .. MaxRequests /\ ask[p].n > 0 /\ MaxRequests \in Nat
    BY AskedNumber DEF FleetInv, Staged, StageOf, Broadcast, AskTyped
  <2> QED BY <1>2, <2>1 DEF AskTyped, Ops
<1>5. /\ req[p] = "publish" /\ req' = [req EXCEPT ![p] = "collect"]
      /\ UNCHANGED <<stored, loaded, failed, gate, got, sub, cur, conn, presence, hb, ask, coll, report>> /\ Asked' = Asked
      /\ chan' = [w \in Workers |-> IF w \in conn THEN Append(chan[w], op) ELSE chan[w]]
  BY <1>2 DEF Broadcast, Asked
<1>6. published' = IF op.targets # None THEN published
                   ELSE [d \in Docs |-> IF op.base[d] > published[d] THEN op.base[d] ELSE published[d]]
  BY <1>2 DEF Broadcast
<1>7. ASSUME NEW w \in Workers
      PROVE  IF w \in conn THEN Msgs(chan'[w]) = Msgs(chan[w]) \cup {op} ELSE chan'[w] = chan[w]
  <2>1. CASE w \in conn
    <3>1. chan'[w] = Append(chan[w], op)
      BY <2>1, <1>5
    <3> QED BY <2>1, <3>1, <1>4, QueueAppend
  <2>2. CASE w \notin conn
    BY <2>2, <1>5
  <2> QED BY <2>1, <2>2
<1>8. ASSUME NEW d \in Docs
      PROVE  published'[d] = published[d] \/ (op.targets = None /\ published'[d] = op.base[d])
  BY <1>6
<1>9. Covers(stored, op.base) /\ \A d \in Docs : stored[d] <= Asked /\ published[d] <= stored[d]
  BY <1>3 DEF FleetInv, Versioned
<1>10. Versioned'
  <2>1. ASSUME NEW o, OpSound(o) PROVE OpSound(o)'
    BY <2>1, <1>5 DEF OpSound
  <2>2. OpSound(op)
    BY <1>3, <1>9 DEF OpSound, FleetInv, Versioned
  <2>3. ASSUME NEW w \in Workers, NEW o \in Msgs(chan'[w]) PROVE OpSound(o)'
    <3>1. o \in Msgs(chan[w]) \/ o = op
      BY <1>7, <2>3
    <3>2. OpSound(o)
      BY <3>1, <2>2 DEF FleetInv, Versioned
    <3> QED BY <3>2, <2>1
  <2>4. ASSUME NEW w \in Workers, cur'[w] # None PROVE OpSound(cur[w])'
    <3>1. PICK c : c = cur[w]
      OBVIOUS
    <3>2. cur'[w] = c /\ OpSound(c)
      BY <2>4, <3>1, <1>5 DEF FleetInv, Versioned
    <3>3. OpSound(c)'
      BY <3>2, <2>1
    <3> QED BY <3>2, <3>3 DEF OpSound
  <2>5. \A d \in Docs : stored'[d] <= Asked' /\ published'[d] <= stored'[d]
    BY <1>5, <1>8, <1>9 DEF Covers
  <2> QED BY <2>3, <2>4, <2>5, <1>5 DEF FleetInv, Versioned
<1>11. Gated'
  BY <1>5, SameVersions, ReqGated
<1>12. RequestOf(p) /\ AppliedOf(p) /\ StageOf(p)
  BY RequestParts
<1>13. Known'
  <2>1. ASSUME NEW w \in conn, NEW d \in Docs, NEW v, Heard(w, d, v), w # p \/ ask[p].targets # None \/ (v \in Nat /\ v >= ask[p].base[d])
        PROVE  Heard(w, d, v)'
    <3>1. Msgs(chan'[w]) = Msgs(chan[w]) \cup {op}
      BY <1>7 DEF BusTyped
    <3>2. CASE published'[d] = published[d]
      BY <2>1, <3>1, <3>2 DEF Heard
    <3>3. CASE published'[d] # published[d]
      <4>1. op.targets = None /\ published'[d] = op.base[d] /\ op.base[d] >= op.base[d]
        BY <3>3, <1>4, <1>8
      <4>2. CASE w # p
        BY <3>1, <4>1, <4>2, <1>3 DEF Heard
      <4>3. CASE w = p
        BY <2>1, <4>1, <4>3, <1>3 DEF Heard
      <4> QED BY <4>2, <4>3
    <3> QED BY <3>2, <3>3
  <2>2. ASSUME NEW w \in conn
        PROVE  /\ sub[w] = "want" \/ Heard(w, "env", loaded[w]["env"])'
               /\ sub[w] \in {"want", "env", "man"} \/ failed[w] \/ Heard(w, "man", loaded[w]["man"])'
               /\ sub[w] = "man" => Heard(w, "man", got[w]["sub"])'
               /\ req'[w] = "man" => sub[w] = "want" \/ Heard(w, "man", got[w]["req"])'
    <3>1. PICK e, m, s, r : e = loaded[w]["env"] /\ m = loaded[w]["man"] /\ s = got[w]["sub"] /\ r = got[w]["req"]
      OBVIOUS
    <3>0. w \in Workers /\ w \in Procs
      BY DEF BusTyped
    <3>2. e \in Nat /\ m \in Nat /\ s \in Nat
      BY <3>0, <3>1
    <3>3. /\ sub[w] = "want" \/ Heard(w, "env", e)
          /\ sub[w] \in {"want", "env", "man"} \/ failed[w] \/ Heard(w, "man", m)
          /\ sub[w] = "man" => Heard(w, "man", s)
          /\ req[w] = "man" => sub[w] = "want" \/ Heard(w, "man", r)
      BY <3>1 DEF FleetInv, Known
    <3>4. w = p /\ ask[p].targets = None => /\ e >= ask[p].base["env"] /\ (failed[w] \/ m >= ask[p].base["man"])
                                            /\ sub[w] = "man" => s >= ask[p].base["man"]
      BY <3>0, <3>1, <1>5, <1>12 DEF RequestOf
    <3>5. req'[w] = "man" => w # p /\ req[w] = "man"
      BY <1>5
    <3>6. /\ sub[w] = "want" \/ Heard(w, "env", e)'
          /\ sub[w] \in {"want", "env", "man"} \/ failed[w] \/ Heard(w, "man", m)'
          /\ sub[w] = "man" => Heard(w, "man", s)'
          /\ req'[w] = "man" => sub[w] = "want" \/ Heard(w, "man", r)'
      <4>1. sub[w] = "want" \/ Heard(w, "env", e)'
        BY <3>2, <3>3, <3>4, <2>1
      <4>2. sub[w] \in {"want", "env", "man"} \/ failed[w] \/ Heard(w, "man", m)'
        BY <3>2, <3>3, <3>4, <2>1
      <4>3. sub[w] = "man" => Heard(w, "man", s)'
        BY <3>2, <3>3, <3>4, <2>1
      <4>4. req'[w] = "man" => sub[w] = "want" \/ Heard(w, "man", r)'
        BY <3>3, <3>5, <2>1
      <4> QED BY <4>1, <4>2, <4>3, <4>4
    <3>7. e = loaded'[w]["env"] /\ m = loaded'[w]["man"] /\ s = got'[w]["sub"] /\ r = got'[w]["req"]
      BY <3>1, <1>5
    <3> QED BY <3>6, <3>7
  <2> QED BY <2>2, <1>5 DEF Known
<1>14. ForOp'
  BY <1>5, ReqForOp
<1>15. RequestOf(p)' /\ AppliedOf(p)' /\ StageOf(p)' /\ ReportOf(p)'
  <2>1. req'[p] = "collect" /\ UNCHANGED <<loaded, failed, got, sub, ask, coll, report>>
    BY <1>5
  <2> QED BY <1>5, <1>12, <2>1 DEF RequestOf, AppliedOf, StageOf, ReportOf, Aimed, Reloading
<1>16. ForRequest' /\ Applied' /\ Staged' /\ AppliedIsFresh' /\ NobodyUnreported'
  BY <1>1, <1>5, <1>15, OtherRequests
<1> QED BY <1>1, <1>5, <1>10, <1>11, <1>13, <1>14, <1>16, NothingLoaded DEF FleetInv

LEMMA StopOK == ASSUME FleetInv, NEW w \in Workers, Stop(w) PROVE FleetInv' /\ Grown
<1> USE InvFacts, Numbers
<1>1. TypeOK' /\ Tabled'
  BY StopTypes
<1>2. /\ Asked' = Asked /\ UNCHANGED <<stored, published, loaded, failed>>
      /\ sub'[w] = "dead" /\ req'[w] = "dead" /\ gate'[w] = None /\ cur'[w] = None /\ chan'[w] = <<>> /\ conn' = conn \ {w}
      /\ ask'[w] = NoAsk /\ coll'[w] = NoColl
      /\ \A v \in Workers \ {w} : sub'[v] = sub[v] /\ cur'[v] = cur[v] /\ chan'[v] = chan[v]
      /\ \A q \in Procs \ {w} : req'[q] = req[q] /\ gate'[q] = gate[q] /\ got'[q] = got[q] /\ ask'[q] = ask[q] /\ coll'[q] = coll[q]
      /\ report' = [report EXCEPT ![w] = Unreachable]
  <2>1. Asked' = Asked
    BY Spending DEF Stop
  <2>2. UNCHANGED <<stored, published, loaded, failed>> /\ conn' = conn \ {w} /\ report' = [report EXCEPT ![w] = Unreachable]
    BY DEF Stop, storeVars
  <2>3. /\ sub'[w] = "dead" /\ cur'[w] = None /\ chan'[w] = <<>>
        /\ \A v \in Workers \ {w} : sub'[v] = sub[v] /\ cur'[v] = cur[v] /\ chan'[v] = chan[v]
    BY DEF Stop, BusTyped
  <2>4. /\ req'[w] = "dead" /\ gate'[w] = None
        /\ \A q \in Procs \ {w} : req'[q] = req[q] /\ gate'[q] = gate[q] /\ got'[q] = got[q]
    BY DEF Stop, ReloadTyped
  <2>5. ask'[w] = NoAsk /\ coll'[w] = NoColl /\ \A q \in Procs \ {w} : ask'[q] = ask[q] /\ coll'[q] = coll[q]
    BY DEF Stop, AskTyped
  <2> QED BY <2>1, <2>2, <2>3, <2>4, <2>5
<1>3. report'[w] = Unreachable /\ \A q \in Procs \ {w} : report'[q] = report[q]
  BY <1>2, UnreachableReport, ReportTypes DEF Tabled
<1>4. Covers(stored, stored) /\ Asked \in Nat /\ \A d \in Docs : stored[d] <= Asked
  BY SameVersions, AskedNumber DEF FleetInv, Versioned
<1>5. Versioned'
  <2>1. \A v \in Workers : Msgs(chan'[v]) \subseteq Msgs(chan[v]) /\ (cur'[v] = cur[v] \/ cur'[v] = None)
    BY <1>2, EmptyQueue
  <2>2. Covers(stored', stored) /\ stored' \in Versions /\ (\A d \in Docs : stored'[d] <= Asked') /\ Asked' \in Nat /\ Asked <= Asked'
    BY <1>2, <1>4
  <2>3. ask'[w].n = 0 /\ ask'[w].n \in Nat /\ ask'[w].n <= Asked' /\ Covers(stored', ask'[w].base)
    <3>1. Covers(stored, NoAsk.base)
      BY NoAskFacts DEF Covers
    <3> QED BY <1>2, <1>4, <3>1, NoAskFacts
  <2>4. /\ \A q \in Procs : Covers(stored, loaded'[q])
        /\ \A q \in Procs, d \in Docs : loaded'[q][d] \in Nat
        /\ UNCHANGED published /\ \A q \in Procs \ {w} : ask'[q] = ask[q]
    BY <1>2 DEF FleetInv, Versioned
  <2> QED BY <2>1, <2>2, <2>3, <2>4, VersionedReq
<1>6. Gated'
  <2>1. ASSUME NEW v \in Workers
        PROVE  /\ sub'[v] \in {"env", "man"} => gate'[v] = "sub"
               /\ sub'[v] = "off" => req'[v] = "off"
               /\ sub'[v] = "man" => loaded'[v]["man"] <= got'[v]["sub"] /\ got'[v]["sub"] <= stored'["man"]
    <3>1. CASE v = w
      BY <1>2, <3>1
    <3>2. CASE v # w
      <4>1. v \in Procs \ {w} /\ v \in Workers \ {w}
        BY <3>2
      <4>2. gate'[v] = gate[v] /\ loaded'[v] = loaded[v] /\ got'[v] = got[v] /\ stored' = stored /\ req'[v] = req[v] /\ sub'[v] = sub[v]
        BY <4>1, <1>2
      <4> QED BY <4>2 DEF FleetInv, Gated
    <3> QED BY <3>1, <3>2
  <2>2. ASSUME NEW q \in Procs
        PROVE  /\ req'[q] \in {"env", "man"} => gate'[q] = "req"
               /\ req'[q] = "man" => loaded'[q]["man"] <= got'[q]["req"] /\ got'[q]["req"] <= stored'["man"]
    BY <1>2 DEF FleetInv, Gated
  <2>3. ASSUME NEW c \in Children, req'[c] = "off" PROVE \A d \in Docs : loaded'[c][d] = 0
    <3>1. c \in Procs \ {w}
      BY <1>2, <2>3 DEF Procs
    <3> QED BY <1>2, <2>3, <3>1 DEF FleetInv, Gated
  <2> QED BY <2>1, <2>2, <2>3 DEF Gated
<1>7. Known'
  <2>1. ASSUME NEW v \in conn'
        PROVE  /\ v \in conn /\ v \in Workers \ {w} /\ v \in Procs \ {w}
               /\ sub'[v] = sub[v] /\ req'[v] = req[v] /\ got'[v] = got[v] /\ chan'[v] = chan[v]
               /\ UNCHANGED <<published, loaded, failed>>
    BY <1>2 DEF BusTyped
  <2> QED BY <2>1 DEF FleetInv, Known, Heard
<1>8. ForOp'
  <2>1. ASSUME NEW v \in Workers, cur'[v] # None
        PROVE  cur'[v] = cur[v] /\ sub'[v] = sub[v] /\ got'[v] = got[v] /\ loaded' = loaded
    BY <1>2, <2>1
  <2> QED BY <2>1 DEF FleetInv, ForOp
<1>9. RequestOf(w)' /\ AppliedOf(w)' /\ StageOf(w)' /\ ReportOf(w)'
  BY <1>2, NoAskFacts, NoCollFacts DEF RequestOf, AppliedOf, StageOf, ReportOf, Aimed, Reloading
<1>10. ForRequest' /\ Applied' /\ Staged' /\ AppliedIsFresh' /\ NobodyUnreported'
  <2>1. /\ UNCHANGED <<loaded, failed>>
        /\ \A q \in Procs \ {w} : got'[q] = got[q] /\ (q \in Workers => sub'[q] = sub[q])
        /\ \A q \in Procs \ {w} : req'[q] = req[q] /\ ask'[q] = ask[q] /\ coll'[q] = coll[q] /\ report'[q] = report[q]
    BY <1>2, <1>3
  <2> QED BY <1>1, <1>9, <2>1, OtherRequests
<1> QED BY <1>1, <1>2, <1>5, <1>6, <1>7, <1>8, <1>10, NothingLoaded DEF FleetInv

\* A process that starts runs with what is stored, a forked one with what its parent runs with.
LEMMA StartOK ==
  ASSUME FleetInv, TypeOK', Tabled', NEW p \in Procs, NEW v \in Versions, req[p] = "off",
         loaded' = [loaded EXCEPT ![p] = v], Covers(v, loaded[p]), Covers(stored, v),
         req' = [req EXCEPT ![p] = "idle"], UNCHANGED <<storeVars, failed, gate, got, cur, conn, chan, ask, coll, report>>, Asked' = Asked,
         \A w \in Workers : sub'[w] = sub[w] \/ (w = p /\ sub'[w] = "down"),
         p \in Workers => sub'[p] = "down" /\ v = stored
  PROVE  FleetInv' /\ Grown
<1> USE InvFacts, Numbers
<1>1. /\ loaded'[p] = v /\ req'[p] = "idle" /\ \A q \in Procs \ {p} : loaded'[q] = loaded[q] /\ req'[q] = req[q]
  BY DEF ReloadTyped
<1>2. Grown /\ SameAsk /\ \A q \in Procs : Covers(stored, loaded'[q])
  <2>1. ASSUME NEW q \in Procs PROVE Covers(loaded'[q], loaded[q]) /\ Covers(stored, loaded'[q])
    <3>1. CASE q = p
      BY <1>1, <3>1
    <3>2. CASE q # p
      BY <1>1, <3>2, SameVersions DEF FleetInv, Versioned
    <3> QED BY <3>1, <3>2
  <2> QED BY <2>1 DEF Grown, SameAsk
<1>3. Versioned'
  BY <1>2, VersionedOK
<1>4. Gated'
  <2>1. ASSUME NEW w \in Workers
        PROVE  /\ sub'[w] \in {"env", "man"} => gate'[w] = "sub"
               /\ sub'[w] = "off" => req'[w] = "off"
               /\ sub'[w] = "man" => loaded'[w]["man"] <= got'[w]["sub"] /\ got'[w]["sub"] <= stored'["man"]
    <3>1. CASE w = p
      BY <3>1
    <3>2. CASE w # p
      <4>1. w \in Procs \ {p} /\ sub'[w] = sub[w]
        BY <3>2
      <4>2. gate' = gate /\ loaded'[w] = loaded[w] /\ got' = got /\ stored' = stored /\ req'[w] = req[w]
        BY <4>1, <1>1 DEF storeVars
      <4> QED BY <4>1, <4>2 DEF FleetInv, Gated
    <3> QED BY <3>1, <3>2
  <2>2. ASSUME NEW q \in Procs
        PROVE  /\ req'[q] \in {"env", "man"} => gate'[q] = "req"
               /\ req'[q] = "man" => loaded'[q]["man"] <= got'[q]["req"] /\ got'[q]["req"] <= stored'["man"]
    <3>1. CASE q = p
      BY <1>1, <3>1
    <3>2. CASE q # p
      BY <1>1, <3>2 DEF FleetInv, Gated, storeVars
    <3> QED BY <3>1, <3>2
  <2>3. ASSUME NEW c \in Children, req'[c] = "off" PROVE \A d \in Docs : loaded'[c][d] = 0
    <3>1. c \in Procs \ {p}
      BY <1>1, <2>3 DEF Procs
    <3> QED BY <1>1, <2>3, <3>1 DEF FleetInv, Gated
  <2> QED BY <2>1, <2>2, <2>3 DEF Gated
<1>5. Known'
  <2>1. ASSUME NEW w \in conn, w # p
        PROVE  /\ loaded'[w] = loaded[w] /\ req'[w] = req[w] /\ sub'[w] = sub[w]
               /\ UNCHANGED <<conn, chan, published, failed, got>>
    <3>1. w \in Workers /\ w \in Procs \ {p}
      BY <2>1 DEF BusTyped
    <3> QED BY <3>1, <2>1, <1>1 DEF storeVars
  <2>2. ASSUME p \in conn
        PROVE  Heard(p, "env", loaded[p]["env"])' /\ Heard(p, "man", loaded[p]["man"])' /\ sub'[p] = "down" /\ req'[p] = "idle"
    <3>1. p \in Workers /\ loaded'[p] = stored
      BY <2>2, <1>1 DEF BusTyped
    <3>2. stored["env"] >= published'["env"] /\ stored["man"] >= published'["man"]
      BY DEF FleetInv, Versioned, storeVars
    <3> QED BY <3>1, <3>2, <1>1 DEF Heard
  <2> DEFINE AtWorker(w) ==
        /\ sub[w] = "want" \/ Heard(w, "env", loaded[w]["env"])
        /\ sub[w] \in {"want", "env", "man"} \/ failed[w] \/ Heard(w, "man", loaded[w]["man"])
        /\ sub[w] = "man" => Heard(w, "man", got[w]["sub"])
        /\ req[w] = "man" => sub[w] = "want" \/ Heard(w, "man", got[w]["req"])
  <2>3. ASSUME NEW w \in conn PROVE AtWorker(w)'
    <3>1. CASE w = p
      BY <3>1, <2>2
    <3>2. CASE w # p
      <4>1. AtWorker(w)
        BY DEF FleetInv, Known
      <4> QED BY <4>1, <2>1, <3>2 DEF Heard
    <3> QED BY <3>1, <3>2
  <2> QED BY <2>3 DEF Known
<1>6. ForOp'
  <2>1. ASSUME NEW w \in Workers, w # p PROVE loaded'[w] = loaded[w] /\ sub'[w] = sub[w] /\ got' = got /\ cur' = cur
    BY <1>1, <2>1
  <2> QED BY <2>1 DEF FleetInv, ForOp
<1>7. ForRequest'
  <2>1. ASSUME NEW q \in Procs \ {p}
        PROVE  loaded'[q] = loaded[q] /\ req'[q] = req[q] /\ (q \in Workers => sub'[q] = sub[q]) /\ UNCHANGED <<failed, got, ask>>
    BY <1>1
  <2>2. \A q \in Procs : RequestOf(q)
    BY RequestParts
  <2>3. ASSUME NEW q \in Procs PROVE RequestOf(q)'
    <3>1. CASE q = p
      BY <1>1, <3>1 DEF RequestOf
    <3>2. CASE q # p
      BY <2>1, <2>2, <3>2 DEF RequestOf
    <3> QED BY <3>1, <3>2
  <2> QED BY <2>3 DEF ForRequest, RequestOf
<1>8. Applied'
  BY <1>2, AppliedOK
<1>9. Staged'
  <2>1. ASSUME NEW q \in Procs PROVE StageOf(q)'
    <3>1. StageOf(q) /\ UNCHANGED <<ask, coll>> /\ (q # p => req'[q] = req[q])
      BY <1>1, RequestParts
    <3> QED BY <1>1, <3>1 DEF StageOf, Aimed, Reloading
  <2> QED BY <2>1 DEF Staged
<1>10. AppliedIsFresh' /\ NobodyUnreported'
  <2>1. \A q \in Procs : req'[q] = "done" => req[q] = "done" /\ report'[q] = report[q]
    BY <1>1
  <2> QED BY <1>2, <2>1, FreshOK, ReportedOK
<1> QED BY <1>2, <1>3, <1>4, <1>5, <1>6, <1>7, <1>8, <1>9, <1>10 DEF FleetInv

LEMMA BootOK == ASSUME FleetInv, NEW w \in Workers, Boot(w) PROVE FleetInv' /\ Grown
<1> USE InvFacts
<1>1. /\ Asked' = Asked /\ UNCHANGED <<storeVars, failed, gate, got, cur, conn, chan, ask, coll, report>>
      /\ loaded' = [loaded EXCEPT ![w] = stored] /\ req' = [req EXCEPT ![w] = "idle"]
      /\ sub'[w] = "down" /\ \A v \in Workers \ {w} : sub'[v] = sub[v]
  BY DEF Boot, Asked, BusTyped
<1>2. req[w] = "off" /\ Covers(stored, loaded[w]) /\ Covers(stored, stored)
  BY SameVersions DEF Boot, FleetInv, Gated, Versioned
<1> QED BY <1>1, <1>2, BootTypes, StartOK

LEMMA ForkOK == ASSUME FleetInv, NEW c \in Children, Fork(c) PROVE FleetInv' /\ Grown
<1> USE InvFacts, Numbers
<1>1. c \in Procs /\ c \notin Workers /\ Parent[c] \in Procs
  BY FleetConstants DEF Procs
<1>2. PICK v \in Versions : v = loaded[Parent[c]]
  BY <1>1 DEF ReloadTyped
<1>3. /\ Asked' = Asked /\ UNCHANGED <<storeVars, failed, gate, got, cur, conn, chan, ask, coll, report, sub>>
      /\ loaded' = [loaded EXCEPT ![c] = v] /\ req' = [req EXCEPT ![c] = "idle"] /\ req[c] = "off"
  BY <1>2 DEF Fork, Asked, subVars
<1>4. Covers(stored, v)
  BY <1>1, <1>2 DEF FleetInv, Versioned
<1>5. Covers(v, loaded[c])
  <2>1. \A d \in Docs : loaded[c][d] = 0 /\ v[d] \in Nat
    BY <1>1, <1>2, <1>3 DEF FleetInv, Gated
  <2> QED BY <2>1 DEF Covers
<1> QED BY <1>1, <1>3, <1>4, <1>5, ForkTypes, StartOK

----------------------------------------------------------------------------

LEMMA FleetInitially == Init => FleetInv
<1> SUFFICES ASSUME Init PROVE FleetInv
  OBVIOUS
<1>1. TypeOK
  BY InitiallyTyped
<1> USE Numbers
<1>2. PICK scenario \in Scenarios : budget = scenario
  BY DEF Init
<1>3. Asked \in Nat
  BY <1>1, AskedNumber
<1>4. \A d \in Docs : stored[d] = 0 /\ published[d] = 0 /\ \A p \in Procs : loaded[p][d] = 0
  BY DEF Init
<1>5. \A p \in Procs : ask[p] = NoAsk /\ coll[p] = NoColl /\ failed[p] = FALSE /\ req[p] \in {"idle", "off"}
  BY DEF Init
<1>6. \A w \in Workers : /\ chan[w] = <<>> /\ cur[w] = None /\ sub[w] \in {"live", "off"}
                         /\ sub[w] = "off" => req[w] = "off"
  BY <1>1 DEF Init
<1>7. Versioned
  <2>1. ASSUME NEW v, \A d \in Docs : v[d] = 0 PROVE Covers(stored, v)
    BY <1>4, <2>1 DEF Covers
  <2>2. \A p \in Procs : Covers(stored, loaded[p]) /\ Covers(stored, ask[p].base) /\ ask[p].n <= Asked
    BY <2>1, <1>3, <1>4, <1>5, NoAskFacts
  <2>3. \A w \in Workers : (\A op \in Msgs(chan[w]) : OpSound(op)) /\ cur[w] = None
    BY <1>6, EmptyQueue
  <2> QED BY <1>3, <1>4, <2>2, <2>3 DEF Versioned
<1>8. Gated
  BY <1>1, <1>4, <1>5, <1>6 DEF Gated, Procs
<1>9. Known
  <2>1. ASSUME NEW w \in conn PROVE w \in Workers /\ Heard(w, "env", loaded[w]["env"]) /\ Heard(w, "man", loaded[w]["man"])
    <3>1. w \in Workers /\ loaded[w]["env"] >= published["env"] /\ loaded[w]["man"] >= published["man"]
      BY <1>1, <1>4 DEF TypeOK
    <3> QED BY <3>1 DEF Heard
  <2> QED BY <1>1, <1>5, <1>6, <2>1 DEF Known
<1>10. ForOp
  BY <1>6 DEF ForOp
<1>11. Tabled
  BY DEF Init, Tabled
<1>12. \A p \in Procs : RequestOf(p) /\ AppliedOf(p) /\ StageOf(p) /\ ReportOf(p)
  BY <1>5, NoAskFacts, NoCollFacts DEF RequestOf, AppliedOf, StageOf, ReportOf, Aimed, Reloading
<1>13. ForRequest /\ Applied /\ Staged
  BY <1>11, <1>12 DEF ForRequest, RequestOf, Applied, AppliedOf, Staged
<1>14. AppliedIsFresh /\ NobodyUnreported
  BY <1>12 DEF ReportOf, AppliedIsFresh, NobodyUnreported
<1> QED BY <1>1, <1>7, <1>8, <1>9, <1>10, <1>13, <1>14 DEF FleetInv

LEMMA FleetStep == FleetInv /\ [Next]_vars => FleetInv' /\ Grown
<1> SUFFICES ASSUME FleetInv, [Next]_vars PROVE FleetInv' /\ Grown
  OBVIOUS
<1>1. CASE UNCHANGED vars
  <2>1. UNCHANGED <<stored, published, loaded, failed, gate, got, sub, cur, conn, chan, presence, hb, req, ask, coll, report, budget>>
    BY <1>1 DEF vars, storeVars, subVars, reqVars
  <2>2. Asked' = Asked
    BY <2>1 DEF Asked
  <2>3. TypeOK' /\ Known'
    BY <2>1 DEF FleetInv, TypeOK, Known, Heard
  <2> QED BY <2>1, <2>2, <2>3, BusOK DEF storeVars
<1>2. ASSUME NEW w \in Workers, Boot(w) \/ SubStep(w) \/ Expire(w) \/ Fault(w) PROVE FleetInv' /\ Grown
  <2>1. \/ Boot(w) \/ Subscribe(w) \/ Register(w) \/ Deliver(w) \/ SubReadEnv(w) \/ SubReadManifest(w) \/ SubInstall(w)
        \/ SubFailed(w) \/ Expire(w) \/ Drop(w) \/ HeartbeatDies(w) \/ JoinFault(w) \/ AckFault(w) \/ ReplyFault(w)
        \/ SubRaise(w) \/ Stop(w)
    BY <1>2 DEF SubStep, Fault
  <2> QED BY <2>1, BootOK, SubscribeOK, RegisterOK, DeliverOK, SubReadEnvOK, SubReadManifestOK, SubInstallOK, SubFailedOK,
             ExpireOK, DropOK, HeartbeatDiesOK, JoinFaultOK, AckFaultOK, ReplyFaultOK, SubRaiseOK, StopOK
<1>3. ASSUME NEW p \in Procs, ReqStep(p) \/ ReqRaise(p) \/ PublishFault(p) \/ CollectFault(p) PROVE FleetInv' /\ Grown
  BY <1>3, ReqReadEnvOK, ReqReadManifestOK, ReqInstallOK, ScanOK, BroadcastOK, CollectOK, ReturnOK, ReqRaiseOK, PublishFaultOK
     DEF ReqStep
<1> QED BY <1>1, <1>2, <1>3, ForkOK, ChangeOK, SoftRestartOK DEF Next

\* No worker knows of a change without running with it or having it on its way, whatever is lost.
LEMMA HeardAll == FleetInv => NoSilentStaleness
<1> SUFFICES ASSUME FleetInv, NEW w \in Workers, sub[w] = "live", w \in conn, chan[w] = <<>>, ~failed[w]
             PROVE  Covers(loaded[w], published)
  BY DEF NoSilentStaleness
<1>1. Heard(w, "env", loaded[w]["env"]) /\ Heard(w, "man", loaded[w]["man"])
  BY DEF FleetInv, Known
<1>2. loaded[w]["env"] >= published["env"] /\ loaded[w]["man"] >= published["man"]
  BY <1>1, EmptyQueue DEF Heard
<1> QED BY <1>2 DEF Covers, Docs

\* The states of a fleet that reloads: what its messages, reloads and requests know of the versions.
THEOREM FleetInvariance == Spec => []FleetInv
  BY FleetInitially, FleetStep, PTL DEF Spec

\* A fleet operation is honest for every fleet and every disturbance: a worker that is stale has the
\* broadcast on its way or has failed, a report says applied of nobody who is not and leaves nobody
\* out, and no reload puts an older version back.
THEOREM FleetStaysHonest == Spec => FleetHonest
<1>1. FleetInv => ReportTruthful /\ NoSilentStaleness
  BY HeardAll DEF FleetInv, ReportTruthful
<1>2. FleetInv /\ [Next]_vars => [\A p \in Procs : Covers(loaded'[p], loaded[p])]_vars
  BY FleetStep DEF Grown
<1> QED BY <1>1, <1>2, FleetInvariance, PTL DEF Spec, FleetHonest, NeverRegresses

=============================================================================

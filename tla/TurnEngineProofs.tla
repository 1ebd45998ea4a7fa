-------------------------- MODULE TurnEngineProofs --------------------------
(***************************************************************************)
(* The turn engine implements the record store and accounts for its turns, *)
(* for every set of messages, threads and workers and every budget of      *)
(* disturbances.  What makes it work is the inbound pair: a record in the  *)
(* hands of a turn or a resolver that will answer it is the one its pair   *)
(* is committed to, one in the hands of whoever will delete it is not and  *)
(* carries no answer (TurnOwns, ResolverOwns), and a marker only expires when nobody  *)
(* has the record in hand (Retired).                                       *)
(***************************************************************************)
EXTENDS TurnEngine, RecordStoreProofs, FiniteSetTheorems

\* Where a message cannot have a record yet, where it has had one, and where only a channel
\* message goes.
Unwritten == {"new", "unclaimed", "creating", "replyCreating", "silentCreating", "refused"}
Written == {"claiming", "replyClaiming", "silentClaiming"}
ChannelOnly == {"unclaimed", "claiming", "replyCreating", "replyClaiming", "replying", "silentCreating", "silentClaiming", "losing"}

Committed(m) == marker[PairOf[m]] = m
GivenAway(m) == marker[PairOf[m]] \notin {NoMessage, m}

\* The program counters, the records and the doors agree.
Places ==
    /\ \A m \in Messages : pc[m] \in Unwritten => m \notin minted
    /\ \A m \in Messages : pc[m] \in Written => m \in minted
    /\ \A m \in Messages : pc[m] \in ChannelOnly => Door(m) = "channel"
    /\ \A m \in Messages : pc[m] = "answering" => outcome[m] \in Outcomes
    /\ \A p \in Pairs : marker[p] # NoMessage => PairOf[marker[p]] = p /\ marker[p] \in minted

\* A resolver has a record that was written, its own only once its accept is over.
Resolving ==
    /\ \A r \in Resolvers : res[r].stage # "idle" => res[r].rec \in Messages
    /\ \A r \in Resolvers : res[r].stage = "idle" => res[r] = Idle
    /\ \A m \in Messages : res[m].stage # "idle" => res[m].rec = m /\ pc[m] = "done"
    /\ \A r \in Resolvers : res[r].stage \in {"arbitrate", "fail", "discard"} => res[r].rec \in minted
    /\ \A r \in Resolvers : res[r].stage = "discard" => Door(res[r].rec) = "channel"
    /\ \A w \in Workers : res[w].stage # "read"
    /\ \A w \in Workers : pass[w].todo # {} => pass[w].tok # NoToken

\* Whoever will answer a record has its pair, whoever will delete it does not.
TurnOwns ==
    /\ \A m \in Messages : pc[m] \in {"scheduled", "answering", "replying"} /\ Door(m) = "channel" => Committed(m)
    /\ \A m \in Messages : pc[m] = "losing" => GivenAway(m) /\ answer[m] = NoAnswer
ResolverOwns ==
    /\ \A r \in Resolvers : res[r].stage = "fail" /\ Door(res[r].rec) = "channel" => Committed(res[r].rec)
    /\ \A r \in Resolvers : res[r].stage = "discard" => GivenAway(res[r].rec) /\ answer[res[r].rec] = NoAnswer
    /\ \A r \in Resolvers :
          res[r].stage = "arbitrate" /\ Door(res[r].rec) = "channel" /\ answer[res[r].rec] # NoAnswer => Committed(res[r].rec)

\* A marker that expired was of a message whose accept was over.
Retired == \A m \in retired : pc[m] \in {"done", "dead"}

\* While no worker outlasts its lease, a turn in progress holds the record at intake and no
\* resolver has it.
TurnHeld ==
    ~budget.stalls => \A m \in Messages : pc[m] \in Prompt =>
        status[m] = "accepted" /\ intake[m] = m /\ \A r \in Resolvers : res[r].stage # "idle" => res[r].rec # m

\* The accepts and turns that hold a place of a thread on a worker.
Holders(w, h) == {m \in Messages : host[m] = w /\ ThreadOf[m] = h /\ pc[m] \in HoldsSlot}
SlotsCounted == \A w \in Workers, h \in Threads : IsFiniteSet(Holders(w, h)) /\ slots[w][h] = Cardinality(Holders(w, h))

\* The types of the engine's own variables.
ResType == res \in [Resolvers -> [stage : Stages, rec : Messages \cup {NoMessage}]]

EngineTypes ==
    /\ pc \in [Messages -> PCs] /\ host \in [Messages -> Workers]
    /\ outcome \in [Messages -> Outcomes \cup {NoAnswer}]
    /\ attached \in SUBSET Messages /\ refreshing \in SUBSET Messages
    /\ ResType
    /\ pass \in [Workers -> [tok : PassTokens \cup {NoToken}, todo : SUBSET Messages]]
    /\ slots \in [Workers -> [Threads -> Nat]]
    /\ spawned \in SUBSET Messages /\ ran \in SUBSET Messages /\ retired \in SUBSET Messages
    /\ budget \in Scenario

\* The inductive invariant.
TurnInv ==
    /\ EngineTypes /\ StoreInv /\ Places /\ Resolving
    /\ TurnOwns /\ ResolverOwns /\ Retired /\ TurnHeld /\ ClaimBacksOutcome /\ SlotsCounted

----------------------------------------------------------------------------
(* The invariant, step by step. *)

\* What the set names stand for, and the types the steps below start from.
LEMMA TurnTypes ==
    ASSUME TurnInv
    PROVE  /\ status \in [Messages -> Statuses \cup {Gone}] /\ answer \in [Messages -> Outcomes \cup {NoAnswer}]
           /\ intake \in [Messages -> Tokens \cup {NoToken}] /\ marker \in [Pairs -> Messages \cup {NoMessage}]
           /\ minted \in SUBSET Messages
           /\ \A m \in retired : m \in Messages
           /\ \A m \in Messages : Door(m) = "channel" <=> PairOf[m] \in Pairs
           /\ \A m \in Messages : Door(m) \in {"api", "channel"}
           /\ \A m \in Messages : m \in Tokens /\ m # NoToken /\ m # NoMessage
           /\ \A w \in Workers : w \in Resolvers /\ w \notin Messages
           /\ \A k \in Messages : k \in Resolvers
           /\ \A r \in Resolvers : (r \in Messages \/ r \in Workers) /\ res[r].stage \in Stages
           /\ \A t \in PassTokens : t \in Tokens /\ t # NoToken /\ t \notin Messages
BY TurnConstants, TokenAssumption, MessageAssumption DEF TurnInv, EngineTypes, ResType, StoreInv, StoreTypeOK,
     Door, Resolvers

\* What a step leaves to the others: their program counters, rows and resolutions.
Others(m) == \A k \in Messages : k # m => pc'[k] = pc[k]
RowsOf(m) == \A k \in Messages : k # m => status'[k] = status[k] /\ answer'[k] = answer[k] /\ intake'[k] = intake[k]
ResOf(r) == \A q \in Resolvers : q # r => res'[q] = res[q]

\* Thread reservations: a step that neither takes nor gives back a place,
LEMMA SlotsKept ==
    ASSUME TurnInv, UNCHANGED <<host, slots>>, \A k \in Messages : pc'[k] \in HoldsSlot <=> pc[k] \in HoldsSlot
    PROVE  SlotsCounted'
<1>1. \A w, h : Holders(w, h)' = Holders(w, h)
  BY DEF Holders, Others
<1> QED BY <1>1 DEF SlotsCounted, TurnInv

\* one that takes a place,
LEMMA SlotTaken ==
    ASSUME TurnInv, NEW m \in Messages, ReserveThreadSlot(m), UNCHANGED host, pc[m] \notin HoldsSlot,
         pc'[m] \in HoldsSlot,
           Others(m)
    PROVE  SlotsCounted'
<1>1. \A w, h : Holders(w, h)' = IF w = host[m] /\ h = ThreadOf[m] THEN Holders(w, h) \cup {m} ELSE Holders(w, h)
  BY DEF Holders, Others
<1>2. m \notin Holders(host[m], ThreadOf[m]) /\ host[m] \in Workers /\ ThreadOf[m] \in Threads
  BY TurnConstants DEF Holders, TurnInv, EngineTypes
<1>3. \A w \in Workers, h \in Threads :
         slots'[w][h] = IF w = host[m] /\ h = ThreadOf[m] THEN slots[w][h] + 1 ELSE slots[w][h]
  BY <1>2 DEF ReserveThreadSlot, TurnInv, EngineTypes
<1>4. ASSUME NEW w \in Workers, NEW h \in Threads
      PROVE  IsFiniteSet(Holders(w, h)') /\ slots'[w][h] = Cardinality(Holders(w, h)')
  <2>1. IsFiniteSet(Holders(w, h)) /\ slots[w][h] = Cardinality(Holders(w, h))
    BY DEF TurnInv, SlotsCounted
  <2>2. CASE w = host[m] /\ h = ThreadOf[m]
    BY <1>1, <1>2, <1>3, <2>1, <2>2, FS_AddElement
  <2>3. CASE ~(w = host[m] /\ h = ThreadOf[m])
    BY <1>1, <1>3, <2>1, <2>3
  <2> QED BY <2>2, <2>3
<1> QED BY <1>4 DEF SlotsCounted

\* and one that gives its place back.
LEMMA SlotReleased ==
    ASSUME TurnInv, NEW m \in Messages, ReleaseThreadSlot(m), UNCHANGED host, pc[m] \in HoldsSlot,
         pc'[m] \notin HoldsSlot,
           Others(m)
    PROVE  SlotsCounted'
<1>1. \A w, h : Holders(w, h)' = IF w = host[m] /\ h = ThreadOf[m] THEN Holders(w, h) \ {m} ELSE Holders(w, h)
  BY DEF Holders, Others
<1>2. m \in Holders(host[m], ThreadOf[m]) /\ host[m] \in Workers /\ ThreadOf[m] \in Threads
  BY TurnConstants DEF Holders, TurnInv, EngineTypes
<1>3. \A w \in Workers, h \in Threads :
         slots'[w][h] = IF w = host[m] /\ h = ThreadOf[m] THEN (IF slots[w][h] = 0 THEN 0 ELSE slots[w][h] - 1) ELSE slots[w][h]
  BY <1>2 DEF ReleaseThreadSlot, TurnInv, EngineTypes
<1>4. ASSUME NEW w \in Workers, NEW h \in Threads
      PROVE  IsFiniteSet(Holders(w, h)') /\ slots'[w][h] = Cardinality(Holders(w, h)')
  <2>1. IsFiniteSet(Holders(w, h)) /\ slots[w][h] = Cardinality(Holders(w, h)) /\ slots[w][h] \in Nat
    BY DEF TurnInv, SlotsCounted, EngineTypes
  <2>2. CASE w = host[m] /\ h = ThreadOf[m]
    <3>1. /\ IsFiniteSet(Holders(w, h) \ {m}) /\ Cardinality(Holders(w, h) \ {m}) = Cardinality(Holders(w, h)) - 1
          /\ Cardinality(Holders(w, h) \ {m}) \in Nat
      BY <1>2, <2>1, <2>2, FS_RemoveElement, FS_CardinalityType
    <3>2. slots[w][h] # 0 /\ slots'[w][h] = slots[w][h] - 1
      BY <1>3, <2>1, <2>2, <3>1
    <3>3. Holders(w, h)' = Holders(w, h) \ {m}
      BY <1>1, <2>2
    <3> QED BY <2>1, <3>1, <3>2, <3>3
  <2>3. CASE ~(w = host[m] /\ h = ThreadOf[m])
    BY <1>1, <1>3, <2>1, <2>3
  <2> QED BY <2>2, <2>3
<1> QED BY <1>4 DEF SlotsCounted

\* Either keeps the counts counts.
LEMMA SlotTypes ==
    ASSUME TurnInv, NEW m \in Messages, ReserveThreadSlot(m) \/ ReleaseThreadSlot(m)
    PROVE  slots' \in [Workers -> [Threads -> Nat]]
<1>1. host[m] \in Workers /\ ThreadOf[m] \in Threads /\ slots \in [Workers -> [Threads -> Nat]]
  BY TurnConstants DEF TurnInv, EngineTypes
<1>2. slots[host[m]] \in [Threads -> Nat] /\ slots[host[m]][ThreadOf[m]] \in Nat
  BY <1>1
<1>3. ASSUME NEW n \in Nat, slots' = [slots EXCEPT ![host[m]] = [slots[host[m]] EXCEPT ![ThreadOf[m]] = n]]
      PROVE  slots' \in [Workers -> [Threads -> Nat]]
  <2>1. [slots[host[m]] EXCEPT ![ThreadOf[m]] = n] \in [Threads -> Nat]
    BY <1>2
  <2> QED BY <1>1, <1>3, <2>1
<1>4. CASE ReserveThreadSlot(m)
  <2>1. slots' = [slots EXCEPT ![host[m]] = [slots[host[m]] EXCEPT ![ThreadOf[m]] = slots[host[m]][ThreadOf[m]] + 1]]
    BY <1>1, <1>4 DEF ReserveThreadSlot
  <2>2. slots[host[m]][ThreadOf[m]] + 1 \in Nat
    BY <1>2
  <2> QED BY <1>3, <2>1, <2>2
<1>5. CASE ReleaseThreadSlot(m)
  <2> DEFINE n == slots[host[m]][ThreadOf[m]]
             k == IF n = 0 THEN 0 ELSE n - 1
  <2>1. slots' = [slots EXCEPT ![host[m]] = [slots[host[m]] EXCEPT ![ThreadOf[m]] = k]]
    BY <1>1, <1>5 DEF ReleaseThreadSlot
  <2>2. k \in Nat
    BY <1>2
  <2> HIDE DEF k
  <2> QED BY <1>3, <2>1, <2>2
<1> QED BY <1>4, <1>5

\* Starting a resolution and ending one are of the right type.
LEMMA ResTypes ==
    ASSUME TurnInv, (\E m \in Messages : SpawnIntakeResolution(m)) \/ (\E r \in Resolvers : Settled(r))
    PROVE  ResType'
<1>1. Idle \in [stage : Stages, rec : Messages \cup {NoMessage}]
  BY DEF Idle, Stages
<1>2. \A m \in Messages : [stage |-> "read", rec |-> m] \in [stage : Stages, rec : Messages \cup {NoMessage}]
  BY DEF Stages
<1>3. ASSUME NEW m \in Messages, SpawnIntakeResolution(m)
      PROVE  ResType'
  BY <1>2, <1>3 DEF TurnInv, EngineTypes, ResType, SpawnIntakeResolution, Resolvers
<1>4. ASSUME NEW r \in Resolvers, Settled(r)
      PROVE  ResType'
  BY <1>1, <1>4 DEF TurnInv, EngineTypes, ResType, Settled
<1> QED BY <1>3, <1>4

\* What it does to its own row,
RowKept == UNCHANGED <<status, answer, intake, marker, minted>>
RowCreated(m, s, t) ==
    /\ m \notin minted /\ minted' = minted \cup {m} /\ status'[m] = s /\ intake'[m] = t
    /\ RowsOf(m) /\ UNCHANGED <<answer, marker>>
RowCompleted(m, a) ==
    /\ status[m] = "accepted" /\ answer'[m] = a /\ RowsOf(m) /\ UNCHANGED <<marker, minted>>
RowErased(m) == answer'[m] = NoAnswer /\ RowsOf(m) /\ UNCHANGED <<marker, minted>>
RowLeased(m, t) ==
    /\ status[m] = "accepted" /\ intake[m] \in {NoToken, t} /\ intake'[m] = t
    /\ RowsOf(m) /\ UNCHANGED <<status, answer, marker, minted>>

\* to its pair,
PairClaimed(m) ==
    /\ marker'[PairOf[m]] = ClaimInboundReply(PairOf[m], m)
    /\ \A p \in Pairs : p # PairOf[m] => marker'[p] = marker[p]
    /\ UNCHANGED <<status, answer, intake, minted>>

\* and to the resolution of its record.
Respawned(m) == res'[m].stage = "read" /\ res'[m].rec = m /\ ResOf(m)
Dropped(r) == res'[r] = Idle /\ ResOf(r)

\* A claim of a pair somebody has changes nothing, one of a free pair takes nothing from anybody.
LEMMA PairStands ==
    ASSUME TurnInv, NEW m \in Messages, Door(m) = "channel",
           \/ m \in minted /\ PairClaimed(m)
           \/ UNCHANGED marker /\ (UNCHANGED minted \/ minted' = minted \cup {m})
    PROVE  /\ \A k \in Messages : Door(k) = "channel" =>
                 /\ marker[PairOf[k]] = k => marker'[PairOf[k]] = k
                 /\ marker[PairOf[k]] \notin {NoMessage, k} => marker'[PairOf[k]] \notin {NoMessage, k}
           /\ \A p \in Pairs : marker'[p] # NoMessage => PairOf[marker'[p]] = p /\ marker'[p] \in minted'
           /\ PairClaimed(m) =>
                 /\ UNCHANGED <<status, answer, intake, minted>>
                 /\ marker'[PairOf[m]] = m <=> ClaimInboundReply(PairOf[m], m) = m
                 /\ marker'[PairOf[m]] # m => marker'[PairOf[m]] # NoMessage /\ marker[PairOf[m]] # m
BY TurnTypes DEF TurnInv, Places, PairClaimed, ClaimInboundReply

\* What a failed round trip costs.
Spent == budget.faults > 0 /\ budget' = [budget EXCEPT !.faults = @ - 1]
LEMMA SpentType == ASSUME TurnInv, UNCHANGED budget \/ Spent PROVE budget' \in Scenario
BY DEF TurnInv, EngineTypes, Scenario, Spent

\* The redelivery fast path writes nothing.
LEMMA GetInboundOwnerInv ==
    ASSUME TurnInv, NEW m \in Messages, GetInboundOwner(m)
    PROVE  TurnInv' /\ [StoreNext]_storeVars
<1>1. /\ pc[m] = "new" /\ pc'[m] \in {"unclaimed", "done"} /\ Door(m) = "channel" /\ Others(m)
      /\ RowKept /\ UNCHANGED <<host, outcome, res, pass, slots, ran, retired, budget>>
  BY TurnTypes DEF TurnInv, EngineTypes, ResType, GetInboundOwner, Goto, Others, RowKept, storeVars
<1>2. [StoreNext]_storeVars
  BY TurnTypes DEF GetInboundOwner, StoreNext, Ok, Fault
<1>3. StoreInv'
  BY <1>2, StoreStep DEF TurnInv
<1>4. EngineTypes'
  <2>1. pc' \in [Messages -> PCs]
    BY TurnTypes DEF TurnInv, EngineTypes, GetInboundOwner, Goto, PCs, Ended, HoldsSlot
  <2> QED BY TurnTypes, <2>1 DEF TurnInv, EngineTypes, ResType, GetInboundOwner, Ok
<1>5. Places'
  BY <1>1, TurnTypes DEF TurnInv, Places, Unwritten, Written, ChannelOnly, Others, RowKept
<1>6. Resolving'
  BY <1>1, TurnTypes DEF TurnInv, Resolving, Others, RowKept
<1>7. TurnOwns'
  BY <1>1, TurnTypes DEF TurnInv, TurnOwns, Committed, GivenAway, Others, RowKept
<1>8. ResolverOwns'
  BY <1>1, TurnTypes DEF TurnInv, ResolverOwns, Resolving, Committed, GivenAway, Others, RowKept
<1>9. Retired'
  BY <1>1, TurnTypes DEF TurnInv, Retired, Others, RowKept
<1>10. TurnHeld'
  BY <1>1, TurnTypes DEF TurnInv, TurnHeld, Prompt, Others, RowKept
<1>11. ClaimBacksOutcome'
  BY <1>1, TurnTypes DEF TurnInv, ClaimBacksOutcome, Others, RowKept
<1>12. SlotsCounted'
  BY <1>1, SlotsKept DEF HoldsSlot, Others
<1> QED BY <1>2, <1>3, <1>4, <1>5, <1>6, <1>7, <1>8, <1>9, <1>10, <1>11, <1>12 DEF TurnInv

\* An admitted message takes a place of its thread.
LEMMA AdmitForTurnInv ==
    ASSUME TurnInv, NEW m \in Messages, AdmitForTurn(m)
    PROVE  TurnInv' /\ [StoreNext]_storeVars
<1>1. /\ pc[m] \in {"new", "unclaimed"} /\ pc'[m] = "creating" /\ Others(m) /\ ReserveThreadSlot(m)
      /\ RowKept /\ UNCHANGED <<host, outcome, res, pass, ran, retired, budget>>
  BY TurnTypes DEF TurnInv, EngineTypes, ResType, AdmitForTurn, Goto, ReadyToAdmit, Others, RowKept, storeVars
<1>2. [StoreNext]_storeVars
  BY TurnTypes DEF AdmitForTurn, StoreNext, Ok, Fault
<1>3. StoreInv'
  BY <1>2, StoreStep DEF TurnInv
<1>4. EngineTypes'
  <2>1. pc' \in [Messages -> PCs]
    BY TurnTypes DEF TurnInv, EngineTypes, AdmitForTurn, Goto, PCs, Ended, HoldsSlot
  <2> QED BY SlotTypes, TurnTypes, <2>1 DEF TurnInv, EngineTypes, ResType, AdmitForTurn, Ok
<1>5. Places'
  BY <1>1, TurnTypes DEF TurnInv, Places, Unwritten, Written, ChannelOnly, Others, RowKept
<1>6. Resolving'
  BY <1>1, TurnTypes DEF TurnInv, Resolving, Others, RowKept
<1>7. TurnOwns'
  BY <1>1, TurnTypes DEF TurnInv, TurnOwns, Committed, GivenAway, Others, RowKept
<1>8. ResolverOwns'
  BY <1>1, TurnTypes DEF TurnInv, ResolverOwns, Resolving, Committed, GivenAway, Others, RowKept
<1>9. Retired'
  BY <1>1, TurnTypes DEF TurnInv, Retired, Others, RowKept
<1>10. TurnHeld'
  BY <1>1, TurnTypes DEF TurnInv, TurnHeld, Prompt, Others, RowKept
<1>11. ClaimBacksOutcome'
  BY <1>1, TurnTypes DEF TurnInv, ClaimBacksOutcome, Others, RowKept
<1>12. SlotsCounted'
  BY <1>1, SlotTaken DEF Others, HoldsSlot
<1> QED BY <1>2, <1>3, <1>4, <1>5, <1>6, <1>7, <1>8, <1>9, <1>10, <1>11, <1>12 DEF TurnInv

\* A refused message writes nothing.
LEMMA RefuseInv ==
    ASSUME TurnInv, NEW m \in Messages, Refuse(m)
    PROVE  TurnInv' /\ [StoreNext]_storeVars
<1>1. /\ pc[m] \in {"new", "unclaimed"} /\ pc'[m] = "refused" /\ Others(m)
      /\ RowKept /\ UNCHANGED <<host, outcome, res, pass, slots, ran, retired, budget>>
  BY TurnTypes DEF TurnInv, EngineTypes, ResType, Refuse, Goto, ReadyToAdmit, Others, RowKept, storeVars
<1>2. [StoreNext]_storeVars
  BY TurnTypes DEF Refuse, StoreNext, Ok, Fault
<1>3. StoreInv'
  BY <1>2, StoreStep DEF TurnInv
<1>4. EngineTypes'
  <2>1. pc' \in [Messages -> PCs]
    BY TurnTypes DEF TurnInv, EngineTypes, Refuse, Goto, PCs, Ended, HoldsSlot
  <2> QED BY TurnTypes, <2>1 DEF TurnInv, EngineTypes, ResType, Refuse, Ok
<1>5. Places'
  BY <1>1, TurnTypes DEF TurnInv, Places, Unwritten, Written, ChannelOnly, Others, RowKept
<1>6. Resolving'
  BY <1>1, TurnTypes DEF TurnInv, Resolving, Others, RowKept
<1>7. TurnOwns'
  BY <1>1, TurnTypes DEF TurnInv, TurnOwns, Committed, GivenAway, Others, RowKept
<1>8. ResolverOwns'
  BY <1>1, TurnTypes DEF TurnInv, ResolverOwns, Resolving, Committed, GivenAway, Others, RowKept
<1>9. Retired'
  BY <1>1, TurnTypes DEF TurnInv, Retired, Others, RowKept
<1>10. TurnHeld'
  BY <1>1, TurnTypes DEF TurnInv, TurnHeld, Prompt, Others, RowKept
<1>11. ClaimBacksOutcome'
  BY <1>1, TurnTypes DEF TurnInv, ClaimBacksOutcome, Others, RowKept
<1>12. SlotsCounted'
  BY <1>1, SlotsKept DEF HoldsSlot, Others
<1> QED BY <1>2, <1>3, <1>4, <1>5, <1>6, <1>7, <1>8, <1>9, <1>10, <1>11, <1>12 DEF TurnInv

\* A shed message goes on without a place.
LEMMA ShedInv ==
    ASSUME TurnInv, NEW m \in Messages, Shed(m)
    PROVE  TurnInv' /\ [StoreNext]_storeVars
<1>1. /\ pc[m] = "unclaimed" /\ pc'[m] \in {"replyCreating", "silentCreating"} /\ Door(m) = "channel" /\ Others(m)
      /\ RowKept /\ UNCHANGED <<host, outcome, res, pass, slots, ran, retired, budget>>
  BY TurnTypes DEF TurnInv, EngineTypes, ResType, Shed, Goto, Others, Places, ChannelOnly, RowKept, storeVars
<1>2. [StoreNext]_storeVars
  BY TurnTypes DEF Shed, StoreNext, Ok, Fault
<1>3. StoreInv'
  BY <1>2, StoreStep DEF TurnInv
<1>4. EngineTypes'
  <2>1. pc' \in [Messages -> PCs]
    BY TurnTypes DEF TurnInv, EngineTypes, Shed, Goto, PCs, Ended, HoldsSlot
  <2> QED BY TurnTypes, <2>1 DEF TurnInv, EngineTypes, ResType, Shed, Ok
<1>5. Places'
  BY <1>1, TurnTypes DEF TurnInv, Places, Unwritten, Written, ChannelOnly, Others, RowKept
<1>6. Resolving'
  BY <1>1, TurnTypes DEF TurnInv, Resolving, Others, RowKept
<1>7. TurnOwns'
  BY <1>1, TurnTypes DEF TurnInv, TurnOwns, Committed, GivenAway, Others, RowKept
<1>8. ResolverOwns'
  BY <1>1, TurnTypes DEF TurnInv, ResolverOwns, Resolving, Committed, GivenAway, Others, RowKept
<1>9. Retired'
  BY <1>1, TurnTypes DEF TurnInv, Retired, Others, RowKept
<1>10. TurnHeld'
  BY <1>1, TurnTypes DEF TurnInv, TurnHeld, Prompt, Others, RowKept
<1>11. ClaimBacksOutcome'
  BY <1>1, TurnTypes DEF TurnInv, ClaimBacksOutcome, Others, RowKept
<1>12. SlotsCounted'
  BY <1>1, SlotsKept DEF HoldsSlot, Others
<1> QED BY <1>2, <1>3, <1>4, <1>5, <1>6, <1>7, <1>8, <1>9, <1>10, <1>11, <1>12 DEF TurnInv

\* The record is created holding its own lease.
LEMMA CreateIntakeInv ==
    ASSUME TurnInv, NEW m \in Messages, CreateIntake(m)
    PROVE  TurnInv' /\ [StoreNext]_storeVars
<1>1. /\ pc[m] = "creating" /\ pc'[m] = (IF Door(m) = "channel" THEN "claiming" ELSE "scheduled") /\ Others(m)
      /\ RowCreated(m, "accepted", m) /\ UNCHANGED <<host, outcome, res, pass, slots, ran, retired, budget>>
  BY TurnTypes DEF TurnInv, EngineTypes, ResType, CreateIntake, Goto, Ok, Others, RowCreated, RowsOf,
       CreateRecord
<1>2. [StoreNext]_storeVars
  BY TurnTypes DEF CreateIntake, StoreNext, Ok, Fault
<1>3. StoreInv'
  BY <1>2, StoreStep DEF TurnInv
<1>4. EngineTypes'
  <2>1. pc' \in [Messages -> PCs]
    BY TurnTypes DEF TurnInv, EngineTypes, CreateIntake, Goto, PCs, Ended, HoldsSlot
  <2> QED BY TurnTypes, <2>1 DEF TurnInv, EngineTypes, ResType, CreateIntake, Ok
<1>5. Places'
  BY <1>1, TurnTypes DEF TurnInv, Places, Unwritten, Written, ChannelOnly, Others, RowCreated, RowsOf
<1>6. Resolving'
  BY <1>1, TurnTypes DEF TurnInv, Resolving, Others, RowCreated, RowsOf
<1>7. TurnOwns'
  BY <1>1, TurnTypes DEF TurnInv, TurnOwns, Committed, GivenAway, Others, RowCreated, RowsOf
<1>8. ResolverOwns'
  BY <1>1, TurnTypes DEF TurnInv, ResolverOwns, Resolving, Committed, GivenAway, Others, RowCreated, RowsOf
<1>9. Retired'
  BY <1>1, TurnTypes DEF TurnInv, Retired, Others, RowCreated, RowsOf
<1>10. TurnHeld'
  BY <1>1, TurnTypes DEF TurnInv, TurnHeld, Prompt, Others, RowCreated, RowsOf, Places, Unwritten, Resolving,
       Stages
<1>11. ClaimBacksOutcome'
  BY <1>1, TurnTypes DEF TurnInv, ClaimBacksOutcome, Others, RowCreated, RowsOf
<1>12. SlotsCounted'
  BY <1>1, SlotsKept DEF HoldsSlot, Others
<1> QED BY <1>2, <1>3, <1>4, <1>5, <1>6, <1>7, <1>8, <1>9, <1>10, <1>11, <1>12 DEF TurnInv

\* A failed create leaves a record or none, and gives the place back.
LEMMA CreateIntakeFailsInv ==
    ASSUME TurnInv, NEW m \in Messages, CreateIntakeFails(m)
    PROVE  TurnInv' /\ [StoreNext]_storeVars
<1>1. /\ pc[m] = "creating" /\ pc'[m] = "done" /\ Others(m) /\ ReleaseThreadSlot(m)
      /\ RowKept \/ RowCreated(m, "accepted", m)
      /\ UNCHANGED res \/ Respawned(m)
      /\ UNCHANGED <<host, outcome, pass, ran, retired>> /\ budget'.stalls = budget.stalls
  BY TurnTypes DEF TurnInv, EngineTypes, ResType, CreateIntakeFails, Goto, Others, Ok, Fault, Scenario,
       RowCreated, RowsOf, CreateRecord, RowKept, storeVars, Respawned, ResOf, SpawnIntakeResolution,
       Resolvers
<1>2. [StoreNext]_storeVars
  BY TurnTypes DEF CreateIntakeFails, StoreNext, Ok, Fault
<1>3. StoreInv'
  BY <1>2, StoreStep DEF TurnInv
<1>4. EngineTypes'
  <2>1. pc' \in [Messages -> PCs]
    BY TurnTypes DEF TurnInv, EngineTypes, CreateIntakeFails, Goto, PCs, Ended, HoldsSlot
  <2>2. ResType'
    BY ResTypes, TurnTypes DEF TurnInv, EngineTypes, ResType, CreateIntakeFails
  <2>3. UNCHANGED budget \/ Spent
    BY DEF Ok, Fault, Spent, CreateIntakeFails
  <2> QED BY SlotTypes, TurnTypes, SpentType, <2>1, <2>2, <2>3 DEF TurnInv, EngineTypes, ResType,
       CreateIntakeFails
<1>5. Places'
  BY <1>1, TurnTypes DEF TurnInv, Places, Unwritten, Written, ChannelOnly, Others, RowKept, RowCreated,
       RowsOf, Respawned, ResOf
<1>6. Resolving'
  BY <1>1, TurnTypes DEF TurnInv, Resolving, Others, RowKept, RowCreated, RowsOf, Respawned, ResOf
<1>7. TurnOwns'
  BY <1>1, TurnTypes DEF TurnInv, TurnOwns, Committed, GivenAway, Others, RowKept, RowCreated, RowsOf,
       Respawned, ResOf
<1>8. ResolverOwns'
  BY <1>1, TurnTypes DEF TurnInv, ResolverOwns, Resolving, Committed, GivenAway, Others, RowKept, RowCreated,
       RowsOf, Respawned, ResOf
<1>9. Retired'
  BY <1>1, TurnTypes DEF TurnInv, Retired, Others, RowKept, RowCreated, RowsOf, Respawned, ResOf
<1>10. TurnHeld'
  BY <1>1, TurnTypes DEF TurnInv, TurnHeld, Prompt, Others, RowKept, RowCreated, RowsOf, Respawned, ResOf
<1>11. ClaimBacksOutcome'
  BY <1>1, TurnTypes DEF TurnInv, ClaimBacksOutcome, Others, RowKept, RowCreated, RowsOf, Respawned, ResOf
<1>12. SlotsCounted'
  BY <1>1, SlotReleased DEF Others, HoldsSlot
<1> QED BY <1>2, <1>3, <1>4, <1>5, <1>6, <1>7, <1>8, <1>9, <1>10, <1>11, <1>12 DEF TurnInv

\* The pair is won and the turn scheduled, or lost and the place given back.
LEMMA ClaimPairInv ==
    ASSUME TurnInv, NEW m \in Messages, ClaimPair(m)
    PROVE  TurnInv' /\ [StoreNext]_storeVars
<1>1. /\ pc[m] = "claiming" /\ Door(m) = "channel" /\ Others(m) /\ m \in minted /\ PairClaimed(m)
      /\ \/ ClaimInboundReply(PairOf[m], m) = m /\ pc'[m] = "scheduled" /\ UNCHANGED slots
         \/ ClaimInboundReply(PairOf[m], m) # m /\ pc'[m] = "losing" /\ ReleaseThreadSlot(m)
      /\ UNCHANGED <<host, outcome, res, pass, ran, retired, budget>>
  BY TurnTypes DEF TurnInv, EngineTypes, ResType, ClaimPair, Goto, Ok, Others, Written, PairClaimed,
       ClaimInbound, Places, ChannelOnly
<1>2. [StoreNext]_storeVars
  BY <1>1, TurnTypes DEF ClaimPair, StoreNext, Ok, Fault
<1>3. StoreInv'
  BY <1>2, StoreStep DEF TurnInv
<1>4. EngineTypes'
  <2>1. pc' \in [Messages -> PCs]
    <3>1. \E l \in PCs : Goto(m, l)
      BY DEF ClaimPair, PCs, HoldsSlot
    <3> QED BY <3>1 DEF TurnInv, EngineTypes, Goto
  <2> QED BY SlotTypes, TurnTypes, <2>1 DEF TurnInv, EngineTypes, ResType, ClaimPair, Ok
<1>5. Places'
  BY <1>1, TurnTypes, PairStands DEF TurnInv, Places, Unwritten, Written, ChannelOnly, Others
<1>6. Resolving'
  BY <1>1, TurnTypes, PairStands DEF TurnInv, Resolving, Others
<1>7. TurnOwns'
  BY <1>1, TurnTypes, PairStands DEF TurnInv, TurnOwns, Committed, GivenAway, Others, Places, ChannelOnly,
       ClaimBacksOutcome, Retired
<1>8. ResolverOwns'
  BY <1>1, TurnTypes, PairStands DEF TurnInv, ResolverOwns, Resolving, Committed, GivenAway, Others
<1>9. Retired'
  BY <1>1, TurnTypes DEF TurnInv, Retired, Others
<1>10. TurnHeld'
  BY <1>1, TurnTypes, PairStands DEF TurnInv, TurnHeld, Prompt, Others
<1>11. ClaimBacksOutcome'
  BY <1>1, TurnTypes, PairStands DEF TurnInv, ClaimBacksOutcome, Others
<1>12. SlotsCounted'
  <2>1. CASE pc'[m] = "scheduled"
    BY <1>1, <2>1, SlotsKept DEF HoldsSlot, Others
  <2>2. CASE pc'[m] = "losing"
    BY <1>1, <2>2, SlotReleased DEF HoldsSlot, Others
  <2> QED BY <1>1, <2>1, <2>2
<1> QED BY <1>2, <1>3, <1>4, <1>5, <1>6, <1>7, <1>8, <1>9, <1>10, <1>11, <1>12 DEF TurnInv

\* A failed claim leaves the pair won or not, and the record to its resolution.
LEMMA ClaimPairFailsInv ==
    ASSUME TurnInv, NEW m \in Messages, ClaimPairFails(m)
    PROVE  TurnInv' /\ [StoreNext]_storeVars
<1>1. /\ pc[m] = "claiming" /\ pc'[m] = "done" /\ Door(m) = "channel" /\ Others(m) /\ ReleaseThreadSlot(m)
      /\ RowKept \/ (m \in minted /\ PairClaimed(m))
      /\ Respawned(m) /\ UNCHANGED <<host, outcome, pass, ran, retired>> /\ budget'.stalls = budget.stalls
  BY TurnTypes DEF TurnInv, EngineTypes, ResType, ClaimPairFails, Goto, Others, Ok, Fault, Scenario, Written,
       PairClaimed, ClaimInbound, Places, ChannelOnly, RowKept, storeVars, Respawned, ResOf,
       SpawnIntakeResolution, Resolvers
<1>2. [StoreNext]_storeVars
  BY <1>1, TurnTypes DEF ClaimPairFails, StoreNext, Ok, Fault
<1>3. StoreInv'
  BY <1>2, StoreStep DEF TurnInv
<1>4. EngineTypes'
  <2>1. pc' \in [Messages -> PCs]
    BY TurnTypes DEF TurnInv, EngineTypes, ClaimPairFails, Goto, PCs, Ended, HoldsSlot
  <2>2. ResType'
    BY ResTypes, TurnTypes DEF TurnInv, EngineTypes, ResType, ClaimPairFails
  <2>3. UNCHANGED budget \/ Spent
    BY DEF Ok, Fault, Spent, ClaimPairFails
  <2> QED BY SlotTypes, TurnTypes, SpentType, <2>1, <2>2, <2>3 DEF TurnInv, EngineTypes, ResType, ClaimPairFails
<1>5. Places'
  BY <1>1, TurnTypes, PairStands DEF TurnInv, Places, Unwritten, Written, ChannelOnly, Others, RowKept,
       Respawned, ResOf
<1>6. Resolving'
  BY <1>1, TurnTypes, PairStands DEF TurnInv, Resolving, Others, RowKept, Respawned, ResOf
<1>7. TurnOwns'
  BY <1>1, TurnTypes, PairStands DEF TurnInv, TurnOwns, Committed, GivenAway, Others, RowKept, Respawned,
       ResOf, Places, ChannelOnly, ClaimBacksOutcome, Retired
<1>8. ResolverOwns'
  BY <1>1, TurnTypes, PairStands DEF TurnInv, ResolverOwns, Resolving, Committed, GivenAway, Others, RowKept,
       Respawned, ResOf
<1>9. Retired'
  BY <1>1, TurnTypes DEF TurnInv, Retired, Others, RowKept, Respawned, ResOf
<1>10. TurnHeld'
  BY <1>1, TurnTypes, PairStands DEF TurnInv, TurnHeld, Prompt, Others, RowKept, Respawned, ResOf
<1>11. ClaimBacksOutcome'
  BY <1>1, TurnTypes, PairStands DEF TurnInv, ClaimBacksOutcome, Others, RowKept, Respawned, ResOf
<1>12. SlotsCounted'
  BY <1>1, SlotReleased DEF Others, HoldsSlot
<1> QED BY <1>2, <1>3, <1>4, <1>5, <1>6, <1>7, <1>8, <1>9, <1>10, <1>11, <1>12 DEF TurnInv

\* The loser deletes a record that carries no answer.
LEMMA DiscardLoserInv ==
    ASSUME TurnInv, NEW m \in Messages, DiscardLoser(m)
    PROVE  TurnInv' /\ [StoreNext]_storeVars
<1>1. /\ pc[m] = "losing" /\ pc'[m] = "done" /\ Others(m) /\ status[m] \in Answerless
      /\ RowKept \/ RowErased(m)
      /\ UNCHANGED <<host, outcome, res, pass, slots, ran, retired>> /\ budget'.stalls = budget.stalls
  BY TurnTypes DEF TurnInv, EngineTypes, ResType, DiscardLoser, Goto, Others, TurnOwns, StoreInv,
       RowConsistent, Ok, Fault, Scenario, RowErased, RowsOf, DeleteRecord, EraseRow, RowKept, storeVars
<1>2. [StoreNext]_storeVars
  BY <1>1, TurnTypes DEF DiscardLoser, StoreNext, Ok, Fault
<1>3. StoreInv'
  BY <1>2, StoreStep DEF TurnInv
<1>4. EngineTypes'
  <2>1. pc' \in [Messages -> PCs]
    BY TurnTypes DEF TurnInv, EngineTypes, DiscardLoser, Goto, PCs, Ended, HoldsSlot
  <2>2. UNCHANGED budget \/ Spent
    BY DEF Ok, Fault, Spent, DiscardLoser
  <2> QED BY TurnTypes, SpentType, <2>1, <2>2 DEF TurnInv, EngineTypes, ResType, DiscardLoser
<1>5. Places'
  BY <1>1, TurnTypes DEF TurnInv, Places, Unwritten, Written, ChannelOnly, Others, RowKept, RowErased, RowsOf
<1>6. Resolving'
  BY <1>1, TurnTypes DEF TurnInv, Resolving, Others, RowKept, RowErased, RowsOf
<1>7. TurnOwns'
  BY <1>1, TurnTypes DEF TurnInv, TurnOwns, Committed, GivenAway, Others, RowKept, RowErased, RowsOf
<1>8. ResolverOwns'
  BY <1>1, TurnTypes DEF TurnInv, ResolverOwns, Resolving, Committed, GivenAway, Others, RowKept, RowErased,
       RowsOf
<1>9. Retired'
  BY <1>1, TurnTypes DEF TurnInv, Retired, Others, RowKept, RowErased, RowsOf
<1>10. TurnHeld'
  BY <1>1, TurnTypes DEF TurnInv, TurnHeld, Prompt, Others, RowKept, RowErased, RowsOf
<1>11. ClaimBacksOutcome'
  BY <1>1, TurnTypes DEF TurnInv, ClaimBacksOutcome, Others, RowKept, RowErased, RowsOf
<1>12. SlotsCounted'
  BY <1>1, SlotsKept DEF HoldsSlot, Others
<1> QED BY <1>2, <1>3, <1>4, <1>5, <1>6, <1>7, <1>8, <1>9, <1>10, <1>11, <1>12 DEF TurnInv

\* A shed record is created at intake, or shed at once.
LEMMA CreateShedInv ==
    ASSUME TurnInv, NEW m \in Messages, CreateShed(m)
    PROVE  TurnInv' /\ [StoreNext]_storeVars
<1>1. /\ Door(m) = "channel" /\ Others(m)
      /\ \/ pc[m] = "replyCreating" /\ pc'[m] = "replyClaiming" /\ RowCreated(m, "accepted", m)
         \/ pc[m] = "silentCreating" /\ pc'[m] = "silentClaiming" /\ RowCreated(m, "shed", NoToken)
      /\ UNCHANGED <<host, outcome, res, pass, slots, ran, retired, budget>>
  BY TurnTypes DEF TurnInv, EngineTypes, ResType, CreateShed, Goto, Ok, Others, Places, ChannelOnly,
       RowCreated, RowsOf, CreateRecord
<1>2. [StoreNext]_storeVars
  BY TurnTypes DEF CreateShed, StoreNext, Ok, Fault
<1>3. StoreInv'
  BY <1>2, StoreStep DEF TurnInv
<1>4. EngineTypes'
  <2>1. pc' \in [Messages -> PCs]
    BY TurnTypes DEF TurnInv, EngineTypes, CreateShed, Goto, PCs, Ended, HoldsSlot
  <2> QED BY TurnTypes, <2>1 DEF TurnInv, EngineTypes, ResType, CreateShed, Ok
<1>5. Places'
  BY <1>1, TurnTypes DEF TurnInv, Places, Unwritten, Written, ChannelOnly, Others, RowCreated, RowsOf
<1>6. Resolving'
  BY <1>1, TurnTypes DEF TurnInv, Resolving, Others, RowCreated, RowsOf
<1>7. TurnOwns'
  BY <1>1, TurnTypes DEF TurnInv, TurnOwns, Committed, GivenAway, Others, RowCreated, RowsOf
<1>8. ResolverOwns'
  BY <1>1, TurnTypes DEF TurnInv, ResolverOwns, Resolving, Committed, GivenAway, Others, RowCreated, RowsOf
<1>9. Retired'
  BY <1>1, TurnTypes DEF TurnInv, Retired, Others, RowCreated, RowsOf
<1>10. TurnHeld'
  BY <1>1, TurnTypes DEF TurnInv, TurnHeld, Prompt, Others, RowCreated, RowsOf, Places, Unwritten, Resolving,
       Stages
<1>11. ClaimBacksOutcome'
  BY <1>1, TurnTypes DEF TurnInv, ClaimBacksOutcome, Others, RowCreated, RowsOf
<1>12. SlotsCounted'
  BY <1>1, SlotsKept DEF HoldsSlot, Others
<1> QED BY <1>2, <1>3, <1>4, <1>5, <1>6, <1>7, <1>8, <1>9, <1>10, <1>11, <1>12 DEF TurnInv

\* The shed reply goes out for the pair's winner alone.
LEMMA ClaimShedInv ==
    ASSUME TurnInv, NEW m \in Messages, ClaimShed(m)
    PROVE  TurnInv' /\ [StoreNext]_storeVars
<1>1. /\ pc[m] \in {"replyClaiming", "silentClaiming"} /\ Door(m) = "channel" /\ Others(m) /\ m \in minted /\ PairClaimed(m)
      /\ \/ ClaimInboundReply(PairOf[m], m) = m /\ pc'[m] \in {"replying", "done"}
            /\ (pc'[m] = "replying" => pc[m] = "replyClaiming")
         \/ ClaimInboundReply(PairOf[m], m) # m /\ pc'[m] = "losing"
      /\ UNCHANGED <<host, outcome, res, pass, slots, ran, retired, budget>>
  <2>1. /\ pc[m] \in {"replyClaiming", "silentClaiming"} /\ Door(m) = "channel" /\ m \in minted /\ PairClaimed(m)
        /\ UNCHANGED <<host, outcome, res, pass, slots, ran, retired, budget>>
    BY TurnTypes DEF TurnInv, ClaimShed, Ok, Written, PairClaimed, ClaimInbound, Places, ChannelOnly
  <2>2. CASE ClaimInboundReply(PairOf[m], m) # m
    BY <2>1, <2>2 DEF TurnInv, EngineTypes, ClaimShed, Goto, Others
  <2>3. CASE ClaimInboundReply(PairOf[m], m) = m /\ pc[m] = "replyClaiming"
    BY <2>1, <2>3 DEF TurnInv, EngineTypes, ClaimShed, Goto, Others
  <2>4. CASE ClaimInboundReply(PairOf[m], m) = m /\ pc[m] = "silentClaiming"
    BY <2>1, <2>4 DEF TurnInv, EngineTypes, ClaimShed, Goto, Others
  <2> QED BY <2>1, <2>2, <2>3, <2>4
<1>2. [StoreNext]_storeVars
  BY <1>1, TurnTypes DEF ClaimShed, StoreNext, Ok, Fault
<1>3. StoreInv'
  BY <1>2, StoreStep DEF TurnInv
<1>4. EngineTypes'
  <2>1. pc' \in [Messages -> PCs]
    BY TurnTypes DEF TurnInv, EngineTypes, ClaimShed, Goto, PCs, Ended, HoldsSlot
  <2> QED BY TurnTypes, <2>1 DEF TurnInv, EngineTypes, ResType, ClaimShed, Ok
<1>5. Places'
  BY <1>1, TurnTypes, PairStands DEF TurnInv, Places, Unwritten, Written, ChannelOnly, Others
<1>6. Resolving'
  BY <1>1, TurnTypes, PairStands DEF TurnInv, Resolving, Others
<1>7. TurnOwns'
  BY <1>1, TurnTypes, PairStands DEF TurnInv, TurnOwns, Committed, GivenAway, Others, Places, ChannelOnly,
       ClaimBacksOutcome, Retired
<1>8. ResolverOwns'
  BY <1>1, TurnTypes, PairStands DEF TurnInv, ResolverOwns, Resolving, Committed, GivenAway, Others
<1>9. Retired'
  BY <1>1, TurnTypes DEF TurnInv, Retired, Others
<1>10. TurnHeld'
  BY <1>1, TurnTypes, PairStands DEF TurnInv, TurnHeld, Prompt, Others
<1>11. ClaimBacksOutcome'
  BY <1>1, TurnTypes, PairStands DEF TurnInv, ClaimBacksOutcome, Others
<1>12. SlotsCounted'
  BY <1>1, SlotsKept DEF HoldsSlot, Others
<1> QED BY <1>2, <1>3, <1>4, <1>5, <1>6, <1>7, <1>8, <1>9, <1>10, <1>11, <1>12 DEF TurnInv

\* A failed shed leaves its record to its resolution, or to the sweeps.
LEMMA ShedFailsInv ==
    ASSUME TurnInv, NEW m \in Messages, ShedFails(m)
    PROVE  TurnInv' /\ [StoreNext]_storeVars
<1>1. /\ pc[m] \in {"replyCreating", "replyClaiming", "silentCreating", "silentClaiming"} /\ pc'[m] = "done"
      /\ Door(m) = "channel" /\ Others(m)
      /\ RowKept \/ RowCreated(m, "accepted", m) \/ RowCreated(m, "shed", NoToken) \/ (m \in minted /\ PairClaimed(m))
      /\ UNCHANGED res \/ Respawned(m)
      /\ UNCHANGED <<host, outcome, pass, slots, ran, retired>> /\ budget'.stalls = budget.stalls
  BY TurnTypes DEF TurnInv, EngineTypes, ResType, ShedFails, Goto, Others, Written, Ok, Fault, Scenario,
       RowCreated, RowsOf, CreateRecord, PairClaimed, ClaimInbound, Places, ChannelOnly, RowKept, storeVars,
       Respawned, ResOf, SpawnIntakeResolution, Resolvers
<1>2. [StoreNext]_storeVars
  BY <1>1, TurnTypes DEF ShedFails, StoreNext, Ok, Fault
<1>3. StoreInv'
  BY <1>2, StoreStep DEF TurnInv
<1>4. EngineTypes'
  <2>1. pc' \in [Messages -> PCs]
    BY TurnTypes DEF TurnInv, EngineTypes, ShedFails, Goto, PCs, Ended, HoldsSlot
  <2>2. ResType'
    BY ResTypes, TurnTypes DEF TurnInv, EngineTypes, ResType, ShedFails
  <2>3. UNCHANGED budget \/ Spent
    BY DEF Ok, Fault, Spent, ShedFails
  <2> QED BY TurnTypes, SpentType, <2>1, <2>2, <2>3 DEF TurnInv, EngineTypes, ResType, ShedFails
<1>5. Places'
  BY <1>1, TurnTypes, PairStands DEF TurnInv, Places, Unwritten, Written, ChannelOnly, Others, RowKept,
       RowCreated, RowsOf, Respawned, ResOf
<1>6. Resolving'
  BY <1>1, TurnTypes, PairStands DEF TurnInv, Resolving, Others, RowKept, RowCreated, RowsOf, Respawned, ResOf
<1>7. TurnOwns'
  BY <1>1, TurnTypes, PairStands DEF TurnInv, TurnOwns, Committed, GivenAway, Others, RowKept, RowCreated,
       RowsOf, Respawned, ResOf, Places, ChannelOnly, ClaimBacksOutcome, Retired
<1>8. ResolverOwns'
  BY <1>1, TurnTypes, PairStands DEF TurnInv, ResolverOwns, Resolving, Committed, GivenAway, Others, RowKept,
       RowCreated, RowsOf, Respawned, ResOf
<1>9. Retired'
  BY <1>1, TurnTypes DEF TurnInv, Retired, Others, RowKept, RowCreated, RowsOf, Respawned, ResOf
<1>10. TurnHeld'
  BY <1>1, TurnTypes, PairStands DEF TurnInv, TurnHeld, Prompt, Others, RowKept, RowCreated, RowsOf,
       Respawned, ResOf
<1>11. ClaimBacksOutcome'
  BY <1>1, TurnTypes, PairStands DEF TurnInv, ClaimBacksOutcome, Others, RowKept, RowCreated, RowsOf,
       Respawned, ResOf
<1>12. SlotsCounted'
  BY <1>1, SlotsKept DEF HoldsSlot, Others
<1> QED BY <1>2, <1>3, <1>4, <1>5, <1>6, <1>7, <1>8, <1>9, <1>10, <1>11, <1>12 DEF TurnInv

\* The shed reply is an outcome of the pair's winner.
LEMMA SlowDownReplyInv ==
    ASSUME TurnInv, NEW m \in Messages, SlowDownReply(m)
    PROVE  TurnInv' /\ [StoreNext]_storeVars
<1>1. /\ pc[m] = "replying" /\ pc'[m] = "done" /\ Door(m) = "channel" /\ Others(m)
      /\ RowKept \/ RowCompleted(m, "answered")
      /\ UNCHANGED <<host, outcome, res, pass, slots, ran, retired>> /\ budget'.stalls = budget.stalls
  BY TurnTypes DEF TurnInv, EngineTypes, ResType, SlowDownReply, Goto, Others, Places, ChannelOnly, Ok, Fault,
       Scenario, RowCompleted, RowsOf, CompleteTurn, CompleteTurnReply, RowKept, storeVars
<1>2. [StoreNext]_storeVars
  BY TurnTypes DEF SlowDownReply, StoreNext, Ok, Fault, Outcomes
<1>3. StoreInv'
  BY <1>2, StoreStep DEF TurnInv
<1>4. EngineTypes'
  <2>1. pc' \in [Messages -> PCs]
    BY TurnTypes DEF TurnInv, EngineTypes, SlowDownReply, Goto, PCs, Ended, HoldsSlot
  <2>2. UNCHANGED budget \/ Spent
    BY DEF Ok, Fault, Spent, SlowDownReply
  <2> QED BY TurnTypes, SpentType, <2>1, <2>2 DEF TurnInv, EngineTypes, ResType, SlowDownReply
<1>5. Places'
  BY <1>1, TurnTypes DEF TurnInv, Places, Unwritten, Written, ChannelOnly, Others, RowKept, RowCompleted, RowsOf
<1>6. Resolving'
  BY <1>1, TurnTypes DEF TurnInv, Resolving, Others, RowKept, RowCompleted, RowsOf
<1>7. TurnOwns'
  BY <1>1, TurnTypes DEF TurnInv, TurnOwns, Committed, GivenAway, Others, RowKept, RowCompleted, RowsOf
<1>8. ResolverOwns'
  BY <1>1, TurnTypes DEF TurnInv, ResolverOwns, Resolving, Committed, GivenAway, Others, RowKept,
       RowCompleted, RowsOf, TurnOwns
<1>9. Retired'
  BY <1>1, TurnTypes DEF TurnInv, Retired, Others, RowKept, RowCompleted, RowsOf
<1>10. TurnHeld'
  BY <1>1, TurnTypes DEF TurnInv, TurnHeld, Prompt, Others, RowKept, RowCompleted, RowsOf
<1>11. ClaimBacksOutcome'
  BY <1>1, TurnTypes DEF TurnInv, ClaimBacksOutcome, Others, RowKept, RowCompleted, RowsOf, TurnOwns, Committed
<1>12. SlotsCounted'
  BY <1>1, SlotsKept DEF HoldsSlot, Others
<1> QED BY <1>2, <1>3, <1>4, <1>5, <1>6, <1>7, <1>8, <1>9, <1>10, <1>11, <1>12 DEF TurnInv

\* A turn runs for the pair's winner alone.
LEMMA RunAgentTurnInv ==
    ASSUME TurnInv, NEW m \in Messages, RunAgentTurn(m)
    PROVE  TurnInv' /\ [StoreNext]_storeVars
<1>1. /\ pc[m] = "scheduled" /\ pc'[m] = "answering" /\ Others(m) /\ ran' = ran \cup {m}
      /\ outcome'[m] \in Outcomes /\ (\A k \in Messages : k # m => outcome'[k] = outcome[k])
      /\ RowKept /\ UNCHANGED <<host, res, pass, slots, retired, budget>>
  BY TurnTypes DEF TurnInv, EngineTypes, ResType, RunAgentTurn, Goto, Others, RowKept, storeVars
<1>2. [StoreNext]_storeVars
  BY TurnTypes DEF RunAgentTurn, StoreNext, Ok, Fault
<1>3. StoreInv'
  BY <1>2, StoreStep DEF TurnInv
<1>4. EngineTypes'
  <2>1. pc' \in [Messages -> PCs]
    BY DEF TurnInv, EngineTypes, RunAgentTurn, Goto, PCs, HoldsSlot
  <2>2. outcome' \in [Messages -> Outcomes \cup {NoAnswer}]
    BY DEF TurnInv, EngineTypes, RunAgentTurn
  <2> QED BY <2>1, <2>2 DEF TurnInv, EngineTypes, ResType, RunAgentTurn
<1>5. Places'
  BY <1>1, TurnTypes DEF TurnInv, Places, Unwritten, Written, ChannelOnly, Others, RowKept
<1>6. Resolving'
  BY <1>1, TurnTypes DEF TurnInv, Resolving, Others, RowKept
<1>7. TurnOwns'
  BY <1>1, TurnTypes DEF TurnInv, TurnOwns, Committed, GivenAway, Others, RowKept
<1>8. ResolverOwns'
  BY <1>1, TurnTypes DEF TurnInv, ResolverOwns, Resolving, Committed, GivenAway, Others, RowKept
<1>9. Retired'
  BY <1>1, TurnTypes DEF TurnInv, Retired, Others, RowKept
<1>10. TurnHeld'
  BY <1>1, TurnTypes DEF TurnInv, TurnHeld, Prompt, Others, RowKept
<1>11. ClaimBacksOutcome'
  BY <1>1, TurnTypes DEF TurnInv, ClaimBacksOutcome, Others, RowKept, TurnOwns, Committed
<1>12. SlotsCounted'
  BY <1>1, SlotsKept DEF HoldsSlot, Others
<1> QED BY <1>2, <1>3, <1>4, <1>5, <1>6, <1>7, <1>8, <1>9, <1>10, <1>11, <1>12 DEF TurnInv

\* The heartbeat renews the turn's own lease.
LEMMA RefreshIntakeLeaseInv ==
    ASSUME TurnInv, NEW m \in Messages, RefreshIntakeLease(m)
    PROVE  TurnInv' /\ [StoreNext]_storeVars
<1>1. /\ RowKept \/ RowLeased(m, m)
      /\ UNCHANGED <<pc, host, outcome, res, pass, slots, ran, retired, budget>>
  BY TurnTypes DEF TurnInv, EngineTypes, ResType, RefreshIntakeLease, Goto, Ok, RowLeased, RowsOf,
       ClaimIntake, ClaimIntakeReply, RowKept, storeVars
<1>2. [StoreNext]_storeVars
  BY TurnTypes DEF RefreshIntakeLease, StoreNext, Ok, Fault
<1>3. StoreInv'
  BY <1>2, StoreStep DEF TurnInv
<1>4. EngineTypes'
  BY TurnTypes DEF TurnInv, EngineTypes, ResType, RefreshIntakeLease, Ok
<1>5. Places'
  BY <1>1, TurnTypes DEF TurnInv, Places, Unwritten, Written, ChannelOnly, RowKept, RowLeased, RowsOf
<1>6. Resolving'
  BY <1>1, TurnTypes DEF TurnInv, Resolving, RowKept, RowLeased, RowsOf
<1>7. TurnOwns'
  BY <1>1, TurnTypes DEF TurnInv, TurnOwns, Committed, GivenAway, RowKept, RowLeased, RowsOf
<1>8. ResolverOwns'
  BY <1>1, TurnTypes DEF TurnInv, ResolverOwns, Resolving, Committed, GivenAway, RowKept, RowLeased, RowsOf
<1>9. Retired'
  BY <1>1, TurnTypes DEF TurnInv, Retired, RowKept, RowLeased, RowsOf
<1>10. TurnHeld'
  BY <1>1, TurnTypes DEF TurnInv, TurnHeld, Prompt, RowKept, RowLeased, RowsOf
<1>11. ClaimBacksOutcome'
  BY <1>1, TurnTypes DEF TurnInv, ClaimBacksOutcome, RowKept, RowLeased, RowsOf
<1>12. SlotsCounted'
  BY <1>1, SlotsKept DEF HoldsSlot, Others
<1> QED BY <1>2, <1>3, <1>4, <1>5, <1>6, <1>7, <1>8, <1>9, <1>10, <1>11, <1>12 DEF TurnInv

\* A finished turn's answer is written once, by the pair's winner.
LEMMA CompleteAgentTurnInv ==
    ASSUME TurnInv, NEW m \in Messages, CompleteAgentTurn(m)
    PROVE  TurnInv' /\ [StoreNext]_storeVars
<1>1. /\ pc[m] = "answering" /\ pc'[m] \in {"done", "answered", "raised"} /\ Others(m) /\ ReleaseThreadSlot(m)
      /\ outcome[m] \in Outcomes
      /\ RowKept \/ RowCompleted(m, outcome[m])
      /\ UNCHANGED res \/ (pc'[m] = "done" /\ Respawned(m))
      /\ UNCHANGED <<host, outcome, pass, ran, retired>> /\ budget'.stalls = budget.stalls
  BY TurnTypes DEF TurnInv, EngineTypes, ResType, CompleteAgentTurn, Goto, Others, Places, Ok, Fault,
       Scenario, RowCompleted, RowsOf, CompleteTurn, CompleteTurnReply, RowKept, storeVars, Respawned, ResOf,
       SpawnIntakeResolution, Resolvers
<1>2. [StoreNext]_storeVars
  BY <1>1, TurnTypes DEF CompleteAgentTurn, StoreNext, Ok, Fault
<1>3. StoreInv'
  BY <1>2, StoreStep DEF TurnInv
<1>4. EngineTypes'
  <2>1. pc' \in [Messages -> PCs]
    <3>1. \E l \in PCs : Goto(m, l)
      BY DEF CompleteAgentTurn, PCs, Ended
    <3> QED BY <3>1 DEF TurnInv, EngineTypes, Goto
  <2>2. ResType'
    BY ResTypes, TurnTypes DEF TurnInv, EngineTypes, ResType, CompleteAgentTurn
  <2>3. UNCHANGED budget \/ Spent
    BY DEF Ok, Fault, Spent, CompleteAgentTurn
  <2> QED BY SlotTypes, TurnTypes, SpentType, <2>1, <2>2, <2>3 DEF TurnInv, EngineTypes, ResType,
       CompleteAgentTurn
<1>5. Places'
  BY <1>1, TurnTypes DEF TurnInv, Places, Unwritten, Written, ChannelOnly, Others, RowKept, RowCompleted,
       RowsOf, Respawned, ResOf
<1>6. Resolving'
  BY <1>1, TurnTypes DEF TurnInv, Resolving, Others, RowKept, RowCompleted, RowsOf, Respawned, ResOf
<1>7. TurnOwns'
  BY <1>1, TurnTypes DEF TurnInv, TurnOwns, Committed, GivenAway, Others, RowKept, RowCompleted, RowsOf,
       Respawned, ResOf
<1>8. ResolverOwns'
  BY <1>1, TurnTypes DEF TurnInv, ResolverOwns, Resolving, Committed, GivenAway, Others, RowKept,
       RowCompleted, RowsOf, Respawned, ResOf, TurnOwns
<1>9. Retired'
  BY <1>1, TurnTypes DEF TurnInv, Retired, Others, RowKept, RowCompleted, RowsOf, Respawned, ResOf
<1>10. TurnHeld'
  BY <1>1, TurnTypes DEF TurnInv, TurnHeld, Prompt, Others, RowKept, RowCompleted, RowsOf, Respawned, ResOf
<1>11. ClaimBacksOutcome'
  BY <1>1, TurnTypes DEF TurnInv, ClaimBacksOutcome, Others, RowKept, RowCompleted, RowsOf, Respawned, ResOf,
       TurnOwns, Committed
<1>12. SlotsCounted'
  BY <1>1, SlotReleased DEF Others, HoldsSlot
<1> QED BY <1>2, <1>3, <1>4, <1>5, <1>6, <1>7, <1>8, <1>9, <1>10, <1>11, <1>12 DEF TurnInv

\* Attaching delivery changes nothing the invariant looks at.
LEMMA WaitElapsesInv ==
    ASSUME TurnInv, NEW m \in Messages, WaitElapses(m)
    PROVE  TurnInv' /\ [StoreNext]_storeVars
<1>1. /\ RowKept /\ UNCHANGED <<pc, host, outcome, res, pass, slots, ran, retired, budget>>
  BY TurnTypes DEF TurnInv, EngineTypes, ResType, WaitElapses, Goto, RowKept, storeVars
<1>2. [StoreNext]_storeVars
  BY TurnTypes DEF WaitElapses, StoreNext, Ok, Fault
<1>3. StoreInv'
  BY <1>2, StoreStep DEF TurnInv
<1>4. EngineTypes'
  BY TurnTypes DEF TurnInv, EngineTypes, ResType, WaitElapses, Ok
<1>5. Places'
  BY <1>1, TurnTypes DEF TurnInv, Places, Unwritten, Written, ChannelOnly, RowKept
<1>6. Resolving'
  BY <1>1, TurnTypes DEF TurnInv, Resolving, RowKept
<1>7. TurnOwns'
  BY <1>1, TurnTypes DEF TurnInv, TurnOwns, Committed, GivenAway, RowKept
<1>8. ResolverOwns'
  BY <1>1, TurnTypes DEF TurnInv, ResolverOwns, Resolving, Committed, GivenAway, RowKept
<1>9. Retired'
  BY <1>1, TurnTypes DEF TurnInv, Retired, RowKept
<1>10. TurnHeld'
  BY <1>1, TurnTypes DEF TurnInv, TurnHeld, Prompt, RowKept
<1>11. ClaimBacksOutcome'
  BY <1>1, TurnTypes DEF TurnInv, ClaimBacksOutcome, RowKept
<1>12. SlotsCounted'
  BY <1>1, SlotsKept DEF HoldsSlot, Others
<1> QED BY <1>2, <1>3, <1>4, <1>5, <1>6, <1>7, <1>8, <1>9, <1>10, <1>11, <1>12 DEF TurnInv

\* A turn that ended inside the wait is delivered or resolved.
LEMMA WaitReturnsInv ==
    ASSUME TurnInv, NEW m \in Messages, WaitReturns(m)
    PROVE  TurnInv' /\ [StoreNext]_storeVars
<1>1. /\ pc[m] \in {"answered", "raised"} /\ pc'[m] = "done" /\ Others(m)
      /\ UNCHANGED res \/ Respawned(m)
      /\ RowKept /\ UNCHANGED <<host, outcome, pass, slots, ran, retired, budget>>
  BY TurnTypes DEF TurnInv, EngineTypes, ResType, WaitReturns, Goto, Others, RowKept, storeVars, Respawned,
       ResOf, SpawnIntakeResolution, Resolvers
<1>2. [StoreNext]_storeVars
  BY TurnTypes DEF WaitReturns, StoreNext, Ok, Fault
<1>3. StoreInv'
  BY <1>2, StoreStep DEF TurnInv
<1>4. EngineTypes'
  <2>1. pc' \in [Messages -> PCs]
    BY TurnTypes DEF TurnInv, EngineTypes, WaitReturns, Goto, PCs, Ended, HoldsSlot
  <2>2. ResType'
    BY ResTypes, TurnTypes DEF TurnInv, EngineTypes, ResType, WaitReturns
  <2> QED BY TurnTypes, <2>1, <2>2 DEF TurnInv, EngineTypes, ResType, WaitReturns, Ok
<1>5. Places'
  BY <1>1, TurnTypes DEF TurnInv, Places, Unwritten, Written, ChannelOnly, Others, RowKept, Respawned, ResOf
<1>6. Resolving'
  BY <1>1, TurnTypes DEF TurnInv, Resolving, Others, RowKept, Respawned, ResOf
<1>7. TurnOwns'
  BY <1>1, TurnTypes DEF TurnInv, TurnOwns, Committed, GivenAway, Others, RowKept, Respawned, ResOf
<1>8. ResolverOwns'
  BY <1>1, TurnTypes DEF TurnInv, ResolverOwns, Resolving, Committed, GivenAway, Others, RowKept, Respawned,
       ResOf
<1>9. Retired'
  BY <1>1, TurnTypes DEF TurnInv, Retired, Others, RowKept, Respawned, ResOf
<1>10. TurnHeld'
  BY <1>1, TurnTypes DEF TurnInv, TurnHeld, Prompt, Others, RowKept, Respawned, ResOf
<1>11. ClaimBacksOutcome'
  BY <1>1, TurnTypes DEF TurnInv, ClaimBacksOutcome, Others, RowKept, Respawned, ResOf
<1>12. SlotsCounted'
  BY <1>1, SlotsKept DEF HoldsSlot, Others
<1> QED BY <1>2, <1>3, <1>4, <1>5, <1>6, <1>7, <1>8, <1>9, <1>10, <1>11, <1>12 DEF TurnInv

\* A disconnected client leaves the record to the sweeps.
LEMMA WaitCancelledInv ==
    ASSUME TurnInv, NEW m \in Messages, WaitCancelled(m)
    PROVE  TurnInv' /\ [StoreNext]_storeVars
<1>1. /\ pc[m] \in {"answered", "raised"} /\ pc'[m] = "done" /\ Others(m)
      /\ RowKept /\ UNCHANGED <<host, outcome, res, pass, slots, ran, retired, budget>>
  BY TurnTypes DEF TurnInv, EngineTypes, ResType, WaitCancelled, Goto, Others, RowKept, storeVars
<1>2. [StoreNext]_storeVars
  BY TurnTypes DEF WaitCancelled, StoreNext, Ok, Fault
<1>3. StoreInv'
  BY <1>2, StoreStep DEF TurnInv
<1>4. EngineTypes'
  <2>1. pc' \in [Messages -> PCs]
    BY TurnTypes DEF TurnInv, EngineTypes, WaitCancelled, Goto, PCs, Ended, HoldsSlot
  <2> QED BY TurnTypes, <2>1 DEF TurnInv, EngineTypes, ResType, WaitCancelled, Ok
<1>5. Places'
  BY <1>1, TurnTypes DEF TurnInv, Places, Unwritten, Written, ChannelOnly, Others, RowKept
<1>6. Resolving'
  BY <1>1, TurnTypes DEF TurnInv, Resolving, Others, RowKept
<1>7. TurnOwns'
  BY <1>1, TurnTypes DEF TurnInv, TurnOwns, Committed, GivenAway, Others, RowKept
<1>8. ResolverOwns'
  BY <1>1, TurnTypes DEF TurnInv, ResolverOwns, Resolving, Committed, GivenAway, Others, RowKept
<1>9. Retired'
  BY <1>1, TurnTypes DEF TurnInv, Retired, Others, RowKept
<1>10. TurnHeld'
  BY <1>1, TurnTypes DEF TurnInv, TurnHeld, Prompt, Others, RowKept
<1>11. ClaimBacksOutcome'
  BY <1>1, TurnTypes DEF TurnInv, ClaimBacksOutcome, Others, RowKept
<1>12. SlotsCounted'
  BY <1>1, SlotsKept DEF HoldsSlot, Others
<1> QED BY <1>2, <1>3, <1>4, <1>5, <1>6, <1>7, <1>8, <1>9, <1>10, <1>11, <1>12 DEF TurnInv

\* A resolution goes on with a record it found at intake.
LEMMA ReadStrandedInv ==
    ASSUME TurnInv, NEW m \in Messages, ReadStranded(m)
    PROVE  TurnInv' /\ [StoreNext]_storeVars
<1>1. /\ res[m].stage = "read" /\ res[m].rec = m /\ ResOf(m)
      /\ \/ res'[m] = Idle
         \/ res'[m].stage = "arbitrate" /\ res'[m].rec = m /\ status[m] = "accepted" /\ m \in minted /\ answer[m] = NoAnswer
      /\ RowKept /\ UNCHANGED <<pc, host, outcome, pass, slots, ran, retired>> /\ budget'.stalls = budget.stalls
  BY TurnTypes DEF TurnInv, EngineTypes, ResType, ReadStranded, Goto, Ok, Fault, Scenario, RowKept, storeVars,
       ResOf, Settled, Resolvers, Resolving, StoreInv, RowConsistent, MintedRows, Answerless, Gone
<1>2. [StoreNext]_storeVars
  BY TurnTypes DEF ReadStranded, StoreNext, Ok, Fault
<1>3. StoreInv'
  BY <1>2, StoreStep DEF TurnInv
<1>4. EngineTypes'
  <2>1. ResType'
    <3>1. res' = [res EXCEPT ![m] = Idle] \/ res' = [res EXCEPT ![m] = [res[m] EXCEPT !.stage = "arbitrate"]]
      BY TurnTypes DEF TurnInv, EngineTypes, ResType, ReadStranded, Settled
    <3>2. [res[m] EXCEPT !.stage = "arbitrate"] \in [stage : Stages, rec : Messages \cup {NoMessage}]
      <4>1. res[m] \in [stage : Stages, rec : Messages \cup {NoMessage}]
        BY TurnTypes DEF TurnInv, EngineTypes, ResType
      <4>2. "arbitrate" \in Stages
        BY DEF Stages
      <4> QED BY <4>1, <4>2
    <3>3. Idle \in [stage : Stages, rec : Messages \cup {NoMessage}]
      BY DEF Idle, Stages
    <3> QED BY <3>1, <3>2, <3>3 DEF TurnInv, EngineTypes, ResType
  <2>2. UNCHANGED budget \/ Spent
    BY DEF Fault, Spent, ReadStranded
  <2> QED BY TurnTypes, SpentType, <2>1, <2>2 DEF TurnInv, EngineTypes, ReadStranded
<1>5. Places'
  BY <1>1, TurnTypes DEF TurnInv, Places, Unwritten, Written, ChannelOnly, RowKept, ResOf
<1>6. Resolving'
  BY <1>1, TurnTypes DEF TurnInv, Resolving, RowKept, ResOf, Idle, Stages
<1>7. TurnOwns'
  BY <1>1, TurnTypes DEF TurnInv, TurnOwns, Committed, GivenAway, RowKept, ResOf
<1>8. ResolverOwns'
  BY <1>1, TurnTypes DEF TurnInv, ResolverOwns, Resolving, Committed, GivenAway, RowKept, ResOf, Idle
<1>9. Retired'
  BY <1>1, TurnTypes DEF TurnInv, Retired, RowKept, ResOf
<1>10. TurnHeld'
  BY <1>1, TurnTypes DEF TurnInv, TurnHeld, Prompt, RowKept, ResOf, Idle, Resolving
<1>11. ClaimBacksOutcome'
  BY <1>1, TurnTypes DEF TurnInv, ClaimBacksOutcome, RowKept, ResOf
<1>12. SlotsCounted'
  BY <1>1, SlotsKept DEF HoldsSlot, Others
<1> QED BY <1>2, <1>3, <1>4, <1>5, <1>6, <1>7, <1>8, <1>9, <1>10, <1>11, <1>12 DEF TurnInv

\* A lease lapses only on a turn that is not renewing it.
LEMMA LeaseLapsesInv ==
    ASSUME TurnInv, NEW m \in Messages, LeaseLapses(m)
    PROVE  TurnInv' /\ [StoreNext]_storeVars
<1>1. /\ budget.stalls \/ ~(pc[m] \in Prompt /\ intake[m] = m)
      /\ RowsOf(m) /\ UNCHANGED <<status, answer, marker, minted, pc, host, outcome, res, pass, slots, ran, retired, budget>>
  BY TurnTypes DEF TurnInv, EngineTypes, ResType, LeaseLapses, Goto, LapseIntake, RowsOf, engineVars
<1>2. [StoreNext]_storeVars
  BY TurnTypes DEF LeaseLapses, StoreNext, Ok, Fault
<1>3. StoreInv'
  BY <1>2, StoreStep DEF TurnInv
<1>4. EngineTypes'
  BY TurnTypes DEF TurnInv, EngineTypes, ResType, LeaseLapses, engineVars, Ok
<1>5. Places'
  BY <1>1, TurnTypes DEF TurnInv, Places, Unwritten, Written, ChannelOnly, RowsOf
<1>6. Resolving'
  BY <1>1, TurnTypes DEF TurnInv, Resolving, RowsOf
<1>7. TurnOwns'
  BY <1>1, TurnTypes DEF TurnInv, TurnOwns, Committed, GivenAway, RowsOf
<1>8. ResolverOwns'
  BY <1>1, TurnTypes DEF TurnInv, ResolverOwns, Resolving, Committed, GivenAway, RowsOf
<1>9. Retired'
  BY <1>1, TurnTypes DEF TurnInv, Retired, RowsOf
<1>10. TurnHeld'
  BY <1>1, TurnTypes DEF TurnInv, TurnHeld, Prompt, RowsOf
<1>11. ClaimBacksOutcome'
  BY <1>1, TurnTypes DEF TurnInv, ClaimBacksOutcome, RowsOf
<1>12. SlotsCounted'
  BY <1>1, SlotsKept DEF HoldsSlot, Others
<1> QED BY <1>2, <1>3, <1>4, <1>5, <1>6, <1>7, <1>8, <1>9, <1>10, <1>11, <1>12 DEF TurnInv

\* A pass starts under a token of its own.
LEMMA StartPassInv ==
    ASSUME TurnInv, NEW w \in Workers, StartPass(w)
    PROVE  TurnInv' /\ [StoreNext]_storeVars
<1>1. /\ RowKept /\ UNCHANGED <<pc, host, outcome, res, slots, ran, retired, budget>>
      /\ pass'[w].tok \in PassTokens /\ (\A v \in Workers : v # w => pass'[v] = pass[v])
  BY TurnTypes DEF TurnInv, EngineTypes, ResType, StartPass, Goto, RowKept, storeVars
<1>2. [StoreNext]_storeVars
  BY TurnTypes DEF StartPass, StoreNext, Ok, Fault
<1>3. StoreInv'
  BY <1>2, StoreStep DEF TurnInv
<1>4. EngineTypes'
  BY TurnTypes DEF TurnInv, EngineTypes, ResType, StartPass, StoreInv, StoreTypeOK, Statuses, Live, Gone, Ok
<1>5. Places'
  BY <1>1, TurnTypes DEF TurnInv, Places, Unwritten, Written, ChannelOnly, RowKept
<1>6. Resolving'
  BY <1>1, TurnTypes DEF TurnInv, Resolving, RowKept
<1>7. TurnOwns'
  BY <1>1, TurnTypes DEF TurnInv, TurnOwns, Committed, GivenAway, RowKept
<1>8. ResolverOwns'
  BY <1>1, TurnTypes DEF TurnInv, ResolverOwns, Resolving, Committed, GivenAway, RowKept
<1>9. Retired'
  BY <1>1, TurnTypes DEF TurnInv, Retired, RowKept
<1>10. TurnHeld'
  BY <1>1, TurnTypes DEF TurnInv, TurnHeld, Prompt, RowKept
<1>11. ClaimBacksOutcome'
  BY <1>1, TurnTypes DEF TurnInv, ClaimBacksOutcome, RowKept
<1>12. SlotsCounted'
  BY <1>1, SlotsKept DEF HoldsSlot, Others
<1> QED BY <1>2, <1>3, <1>4, <1>5, <1>6, <1>7, <1>8, <1>9, <1>10, <1>11, <1>12 DEF TurnInv

\* A pass ends with nothing left to visit.
LEMMA EndPassInv ==
    ASSUME TurnInv, NEW w \in Workers, EndPass(w)
    PROVE  TurnInv' /\ [StoreNext]_storeVars
<1>1. /\ RowKept /\ UNCHANGED <<pc, host, outcome, res, slots, ran, retired, budget>>
      /\ pass'[w] = NoPass /\ (\A v \in Workers : v # w => pass'[v] = pass[v])
  BY TurnTypes DEF TurnInv, EngineTypes, ResType, EndPass, Goto, RowKept, storeVars
<1>2. [StoreNext]_storeVars
  BY TurnTypes DEF EndPass, StoreNext, Ok, Fault
<1>3. StoreInv'
  BY <1>2, StoreStep DEF TurnInv
<1>4. EngineTypes'
  BY TurnTypes DEF TurnInv, EngineTypes, ResType, EndPass, NoPass, Ok
<1>5. Places'
  BY <1>1, TurnTypes DEF TurnInv, Places, Unwritten, Written, ChannelOnly, RowKept
<1>6. Resolving'
  BY <1>1, TurnTypes DEF TurnInv, Resolving, RowKept, NoPass
<1>7. TurnOwns'
  BY <1>1, TurnTypes DEF TurnInv, TurnOwns, Committed, GivenAway, RowKept
<1>8. ResolverOwns'
  BY <1>1, TurnTypes DEF TurnInv, ResolverOwns, Resolving, Committed, GivenAway, RowKept
<1>9. Retired'
  BY <1>1, TurnTypes DEF TurnInv, Retired, RowKept
<1>10. TurnHeld'
  BY <1>1, TurnTypes DEF TurnInv, TurnHeld, Prompt, RowKept
<1>11. ClaimBacksOutcome'
  BY <1>1, TurnTypes DEF TurnInv, ClaimBacksOutcome, RowKept
<1>12. SlotsCounted'
  BY <1>1, SlotsKept DEF HoldsSlot, Others
<1> QED BY <1>2, <1>3, <1>4, <1>5, <1>6, <1>7, <1>8, <1>9, <1>10, <1>11, <1>12 DEF TurnInv

\* The pair decides whether a stranded record is answered or discarded.
LEMMA OwnsInboundClaimInv ==
    ASSUME TurnInv, NEW r \in Resolvers, NEW m \in Messages, res[r].rec = m, OwnsInboundClaim(r)
    PROVE  TurnInv' /\ [StoreNext]_storeVars
<1>1. /\ res[r].stage = "arbitrate" /\ res[r].rec = m /\ m \in minted /\ ResOf(r)
      /\ \/ Door(m) = "api" /\ res'[r].stage = "fail" /\ res'[r].rec = m /\ RowKept
         \/ /\ Door(m) = "channel" /\ PairClaimed(m) /\ res'[r].rec = m
            /\ res'[r].stage = IF ClaimInboundReply(PairOf[m], m) = m THEN "fail" ELSE "discard"
         \/ Door(m) = "channel" /\ (RowKept \/ PairClaimed(m)) /\ res'[r] = Idle
      /\ UNCHANGED <<pc, host, outcome, pass, slots, ran, retired>> /\ budget'.stalls = budget.stalls
  BY TurnTypes DEF TurnInv, EngineTypes, ResType, OwnsInboundClaim, Goto, Resolving, ResOf, Settled,
       PairClaimed, ClaimInbound, Ok, Fault, Scenario, RowKept, storeVars
<1>2. [StoreNext]_storeVars
  BY <1>1, TurnTypes DEF OwnsInboundClaim, StoreNext, Ok, Fault
<1>3. StoreInv'
  BY <1>2, StoreStep DEF TurnInv
<1>4. EngineTypes'
  <2>1. ResType'
    <3>1. res[r] \in [stage : Stages, rec : Messages \cup {NoMessage}]
      BY DEF TurnInv, EngineTypes, ResType
    <3>2. \A s \in Stages : [res[r] EXCEPT !.stage = s] \in [stage : Stages, rec : Messages \cup {NoMessage}]
      BY <3>1
    <3>3. Idle \in [stage : Stages, rec : Messages \cup {NoMessage}]
      BY DEF Idle, Stages
    <3>4. res' = [res EXCEPT ![r] = Idle] \/ \E s \in Stages : res' = [res EXCEPT ![r] = [res[r] EXCEPT !.stage = s]]
      BY TurnTypes DEF OwnsInboundClaim, Settled, Stages
    <3> QED BY <3>2, <3>3, <3>4 DEF TurnInv, EngineTypes, ResType
  <2>2. UNCHANGED budget \/ Spent
    BY DEF Ok, Fault, Spent, OwnsInboundClaim
  <2> QED BY SpentType, <2>1, <2>2 DEF TurnInv, EngineTypes, OwnsInboundClaim
<1>5. Places'
  BY <1>1, TurnTypes, PairStands DEF TurnInv, Places, Unwritten, Written, ChannelOnly, RowKept, ResOf
<1>6. Resolving'
  <2>1. \A q \in Resolvers \ {r} : res'[q] = res[q]
    BY <1>1 DEF ResOf
  <2>2. UNCHANGED <<pc, pass, minted>>
    BY <1>1, PairStands DEF RowKept
  <2>3. \A q \in Resolvers \ {r} :
          /\ res'[q].stage # "idle" => res'[q].rec \in Messages
          /\ res'[q].stage = "idle" => res'[q] = Idle
          /\ q \in Messages => (res'[q].stage # "idle" => res'[q].rec = q /\ pc'[q] = "done")
          /\ res'[q].stage \in {"arbitrate", "fail", "discard"} => res'[q].rec \in minted'
          /\ res'[q].stage = "discard" => Door(res'[q].rec) = "channel"
          /\ q \in Workers => res'[q].stage # "read"
    BY <2>1, <2>2 DEF TurnInv, Resolving
  <2>4. /\ res'[r].stage # "idle" => res'[r].rec \in Messages
        /\ res'[r].stage = "idle" => res'[r] = Idle
        /\ r \in Messages => (res'[r].stage # "idle" => res'[r].rec = r /\ pc'[r] = "done")
        /\ res'[r].stage \in {"arbitrate", "fail", "discard"} => res'[r].rec \in minted'
        /\ res'[r].stage = "discard" => Door(res'[r].rec) = "channel"
        /\ r \in Workers => res'[r].stage # "read"
    BY <1>1, <2>2, TurnTypes DEF TurnInv, Resolving, Idle
  <2>5. \A w \in Workers : pass'[w].todo # {} => pass'[w].tok # NoToken
    BY <2>2 DEF TurnInv, Resolving
  <2>6. Messages \subseteq Resolvers /\ Workers \subseteq Resolvers
    BY DEF Resolvers
  <2> QED BY <2>3, <2>4, <2>5, <2>6 DEF Resolving
<1>7. TurnOwns'
  BY <1>1, TurnTypes, PairStands DEF TurnInv, TurnOwns, Committed, GivenAway, RowKept, ResOf, Places,
       ChannelOnly
<1>8. ResolverOwns'
  BY <1>1, TurnTypes, PairStands DEF TurnInv, ResolverOwns, Resolving, Committed, GivenAway, RowKept, ResOf,
       Idle
<1>9. Retired'
  BY <1>1, TurnTypes DEF TurnInv, Retired, RowKept, ResOf
<1>10. TurnHeld'
  BY <1>1, TurnTypes, PairStands DEF TurnInv, TurnHeld, Prompt, RowKept, ResOf, Idle
<1>11. ClaimBacksOutcome'
  BY <1>1, TurnTypes, PairStands DEF TurnInv, ClaimBacksOutcome, RowKept, ResOf
<1>12. SlotsCounted'
  BY <1>1, SlotsKept DEF HoldsSlot, Others
<1> QED BY <1>2, <1>3, <1>4, <1>5, <1>6, <1>7, <1>8, <1>9, <1>10, <1>11, <1>12 DEF TurnInv

\* A stranded record is answered for its pair's winner.
LEMMA FailStrandedTurnInv ==
    ASSUME TurnInv, NEW r \in Resolvers, NEW m \in Messages, res[r].rec = m, FailStrandedTurn(r)
    PROVE  TurnInv' /\ [StoreNext]_storeVars
<1>1. /\ res[r].stage = "fail" /\ res[r].rec = m /\ Dropped(r)
      /\ RowKept \/ RowCompleted(m, "error")
      /\ UNCHANGED <<pc, host, outcome, pass, slots, ran, retired>> /\ budget'.stalls = budget.stalls
  BY TurnTypes DEF TurnInv, EngineTypes, ResType, FailStrandedTurn, Goto, Dropped, ResOf, Settled, Ok, Fault,
       Scenario, RowCompleted, RowsOf, CompleteTurn, CompleteTurnReply, RowKept, storeVars
<1>2. [StoreNext]_storeVars
  BY TurnTypes DEF FailStrandedTurn, StoreNext, Ok, Fault, Outcomes
<1>3. StoreInv'
  BY <1>2, StoreStep DEF TurnInv
<1>4. EngineTypes'
  <2>1. ResType'
    BY ResTypes, TurnTypes DEF TurnInv, EngineTypes, ResType, FailStrandedTurn
  <2>2. UNCHANGED budget \/ Spent
    BY DEF Ok, Fault, Spent, FailStrandedTurn
  <2> QED BY TurnTypes, SpentType, <2>1, <2>2 DEF TurnInv, EngineTypes, ResType, FailStrandedTurn
<1>5. Places'
  BY <1>1, TurnTypes DEF TurnInv, Places, Unwritten, Written, ChannelOnly, RowKept, RowCompleted, RowsOf,
       Dropped, ResOf
<1>6. Resolving'
  BY <1>1, TurnTypes DEF TurnInv, Resolving, RowKept, RowCompleted, RowsOf, Dropped, ResOf, Idle
<1>7. TurnOwns'
  BY <1>1, TurnTypes DEF TurnInv, TurnOwns, Committed, GivenAway, RowKept, RowCompleted, RowsOf, Dropped,
       ResOf, Places, ChannelOnly, ResolverOwns
<1>8. ResolverOwns'
  BY <1>1, TurnTypes DEF TurnInv, ResolverOwns, Resolving, Committed, GivenAway, RowKept, RowCompleted,
       RowsOf, Dropped, ResOf, Idle
<1>9. Retired'
  BY <1>1, TurnTypes DEF TurnInv, Retired, RowKept, RowCompleted, RowsOf, Dropped, ResOf
<1>10. TurnHeld'
  BY <1>1, TurnTypes DEF TurnInv, TurnHeld, Prompt, RowKept, RowCompleted, RowsOf, Dropped, ResOf, Idle
<1>11. ClaimBacksOutcome'
  BY <1>1, TurnTypes DEF TurnInv, ClaimBacksOutcome, RowKept, RowCompleted, RowsOf, Dropped, ResOf,
       ResolverOwns, Committed
<1>12. SlotsCounted'
  BY <1>1, SlotsKept DEF HoldsSlot, Others
<1> QED BY <1>2, <1>3, <1>4, <1>5, <1>6, <1>7, <1>8, <1>9, <1>10, <1>11, <1>12 DEF TurnInv

\* A stranded record of a lost pair is deleted without an answer.
LEMMA DiscardStrandedInv ==
    ASSUME TurnInv, NEW r \in Resolvers, NEW m \in Messages, res[r].rec = m, DiscardStranded(r)
    PROVE  TurnInv' /\ [StoreNext]_storeVars
<1>1. /\ res[r].stage = "discard" /\ res[r].rec = m /\ Dropped(r) /\ status[m] \in Answerless
      /\ RowKept \/ RowErased(m)
      /\ UNCHANGED <<pc, host, outcome, pass, slots, ran, retired>> /\ budget'.stalls = budget.stalls
  BY TurnTypes DEF TurnInv, EngineTypes, ResType, DiscardStranded, Goto, Dropped, ResOf, Settled,
       ResolverOwns, StoreInv, RowConsistent, Ok, Fault, Scenario, RowErased, RowsOf, DeleteRecord, EraseRow,
       RowKept, storeVars
<1>2. [StoreNext]_storeVars
  BY <1>1, TurnTypes DEF DiscardStranded, StoreNext, Ok, Fault
<1>3. StoreInv'
  BY <1>2, StoreStep DEF TurnInv
<1>4. EngineTypes'
  <2>1. ResType'
    BY ResTypes, TurnTypes DEF TurnInv, EngineTypes, ResType, DiscardStranded
  <2>2. UNCHANGED budget \/ Spent
    BY DEF Ok, Fault, Spent, DiscardStranded
  <2> QED BY TurnTypes, SpentType, <2>1, <2>2 DEF TurnInv, EngineTypes, ResType, DiscardStranded
<1>5. Places'
  BY <1>1, TurnTypes DEF TurnInv, Places, Unwritten, Written, ChannelOnly, RowKept, RowErased, RowsOf,
       Dropped, ResOf
<1>6. Resolving'
  BY <1>1, TurnTypes DEF TurnInv, Resolving, RowKept, RowErased, RowsOf, Dropped, ResOf, Idle
<1>7. TurnOwns'
  BY <1>1, TurnTypes DEF TurnInv, TurnOwns, Committed, GivenAway, RowKept, RowErased, RowsOf, Dropped, ResOf
<1>8. ResolverOwns'
  BY <1>1, TurnTypes DEF TurnInv, ResolverOwns, Resolving, Committed, GivenAway, RowKept, RowErased, RowsOf,
       Dropped, ResOf, Idle
<1>9. Retired'
  BY <1>1, TurnTypes DEF TurnInv, Retired, RowKept, RowErased, RowsOf, Dropped, ResOf
<1>10. TurnHeld'
  BY <1>1, TurnTypes DEF TurnInv, TurnHeld, Prompt, RowKept, RowErased, RowsOf, Dropped, ResOf, Idle
<1>11. ClaimBacksOutcome'
  BY <1>1, TurnTypes DEF TurnInv, ClaimBacksOutcome, RowKept, RowErased, RowsOf, Dropped, ResOf
<1>12. SlotsCounted'
  BY <1>1, SlotsKept DEF HoldsSlot, Others
<1> QED BY <1>2, <1>3, <1>4, <1>5, <1>6, <1>7, <1>8, <1>9, <1>10, <1>11, <1>12 DEF TurnInv

\* A pass adopts a record whose lease was free.
LEMMA AdoptInv ==
    ASSUME TurnInv, NEW w \in Workers, NEW m \in Messages, Adopt(w, m)
    PROVE  TurnInv' /\ [StoreNext]_storeVars
<1>1. /\ pass[w].tok \in PassTokens /\ ResOf(w)
      /\ RowKept \/ RowLeased(m, pass[w].tok)
      /\ \/ res'[w] = Idle
         \/ /\ res'[w].stage = "arbitrate" /\ res'[w].rec = m /\ m \in minted
            /\ status[m] = "accepted" /\ answer[m] = NoAnswer /\ intake[m] \in {NoToken, pass[w].tok}
      /\ pass'[w].tok = pass[w].tok /\ (\A v \in Workers : v # w => pass'[v] = pass[v])
      /\ UNCHANGED <<pc, host, outcome, slots, ran, retired>> /\ budget'.stalls = budget.stalls
  BY TurnTypes DEF TurnInv, EngineTypes, ResType, Adopt, Goto, Resolving, ResOf, StoreInv, RowConsistent,
       MintedRows, Answerless, Gone, Ok, Fault, Scenario, RowLeased, RowsOf, ClaimIntake, ClaimIntakeReply,
       RowKept, storeVars
<1>2. [StoreNext]_storeVars
  BY <1>1, TurnTypes DEF Adopt, StoreNext, Ok, Fault
<1>3. StoreInv'
  BY <1>2, StoreStep DEF TurnInv
<1>4. EngineTypes'
  <2>1. ResType'
    <3>1. [stage |-> "arbitrate", rec |-> m] \in [stage : Stages, rec : Messages \cup {NoMessage}]
      BY DEF Stages
    <3>2. Idle \in [stage : Stages, rec : Messages \cup {NoMessage}]
      BY DEF Idle, Stages
    <3>3. \/ res' = [res EXCEPT ![w] = Idle] \/ UNCHANGED res
          \/ res' = [res EXCEPT ![w] = [stage |-> "arbitrate", rec |-> m]]
      BY DEF Adopt
    <3> QED BY <3>1, <3>2, <3>3 DEF TurnInv, EngineTypes, ResType
  <2>2. pass' \in [Workers -> [tok : PassTokens \cup {NoToken}, todo : SUBSET Messages]]
    <3>1. pass[w] \in [tok : PassTokens \cup {NoToken}, todo : SUBSET Messages]
      BY DEF TurnInv, EngineTypes
    <3>2. [pass[w] EXCEPT !.todo = @ \ {m}] \in [tok : PassTokens \cup {NoToken}, todo : SUBSET Messages]
      BY <3>1
    <3>3. pass' = [pass EXCEPT ![w] = [pass[w] EXCEPT !.todo = @ \ {m}]]
      BY DEF Adopt, TurnInv, EngineTypes
    <3> QED BY <3>2, <3>3 DEF TurnInv, EngineTypes
  <2>3. UNCHANGED budget \/ Spent
    BY DEF Ok, Fault, Spent, Adopt
  <2> QED BY SpentType, <2>1, <2>2, <2>3 DEF TurnInv, EngineTypes, Adopt
<1>5. Places'
  BY <1>1, TurnTypes DEF TurnInv, Places, Unwritten, Written, ChannelOnly, RowKept, RowLeased, RowsOf, ResOf
<1>6. Resolving'
  BY <1>1, TurnTypes DEF TurnInv, Resolving, RowKept, RowLeased, RowsOf, ResOf, Idle, Stages
<1>7. TurnOwns'
  BY <1>1, TurnTypes DEF TurnInv, TurnOwns, Committed, GivenAway, RowKept, RowLeased, RowsOf, ResOf
<1>8. ResolverOwns'
  BY <1>1, TurnTypes DEF TurnInv, ResolverOwns, Resolving, Committed, GivenAway, RowKept, RowLeased, RowsOf,
       ResOf, Idle
<1>9. Retired'
  BY <1>1, TurnTypes DEF TurnInv, Retired, RowKept, RowLeased, RowsOf, ResOf
<1>10. TurnHeld'
  BY <1>1, TurnTypes DEF TurnInv, TurnHeld, Prompt, RowKept, RowLeased, RowsOf, ResOf, Idle
<1>11. ClaimBacksOutcome'
  BY <1>1, TurnTypes DEF TurnInv, ClaimBacksOutcome, RowKept, RowLeased, RowsOf, ResOf
<1>12. SlotsCounted'
  BY <1>1, SlotsKept DEF HoldsSlot, Others
<1> QED BY <1>2, <1>3, <1>4, <1>5, <1>6, <1>7, <1>8, <1>9, <1>10, <1>11, <1>12 DEF TurnInv

\* A marker expires only when nobody has a record of the pair in hand.
LEMMA MarkerExpiresInv ==
    ASSUME TurnInv, NEW p \in Pairs, MarkerExpires(p)
    PROVE  TurnInv' /\ [StoreNext]_storeVars
<1>1. /\ marker[p] \in Messages /\ PairOf[marker[p]] = p /\ marker[p] \in minted /\ marker'[p] = NoMessage
      /\ (\A q \in Pairs : q # p => marker'[q] = marker[q]) /\ retired' = retired \cup {marker[p]}
      /\ (\A k \in Messages : PairOf[k] = p => pc[k] \in Ended /\ \A r \in Resolvers : res[r].rec # k)
      /\ UNCHANGED <<status, answer, intake, minted, pc, host, outcome, res, pass, slots, ran>> /\ budget'.stalls = budget.stalls
  BY TurnTypes DEF TurnInv, EngineTypes, ResType, MarkerExpires, Goto, ExpireMarker, InFlight, Places, Scenario
<1>2. [StoreNext]_storeVars
  BY TurnTypes DEF MarkerExpires, StoreNext, Ok, Fault
<1>3. StoreInv'
  BY <1>2, StoreStep DEF TurnInv
<1>4. EngineTypes'
  <2>1. budget' \in Scenario
    BY DEF TurnInv, EngineTypes, Scenario, MarkerExpires
  <2> QED BY <1>1, <2>1 DEF TurnInv, EngineTypes, ResType, MarkerExpires
<1>5. Places'
  BY <1>1, TurnTypes DEF TurnInv, Places, Unwritten, Written, ChannelOnly
<1>6. Resolving'
  BY <1>1, TurnTypes DEF TurnInv, Resolving
<1>7. TurnOwns'
  BY <1>1, TurnTypes DEF TurnInv, TurnOwns, Committed, GivenAway, Places, ChannelOnly, Ended
<1>8. ResolverOwns'
  BY <1>1, TurnTypes DEF TurnInv, ResolverOwns, Resolving, Committed, GivenAway
<1>9. Retired'
  BY <1>1, TurnTypes DEF TurnInv, Retired, Places, Unwritten, Ended
<1>10. TurnHeld'
  BY <1>1, TurnTypes DEF TurnInv, TurnHeld, Prompt
<1>11. ClaimBacksOutcome'
  BY <1>1, TurnTypes DEF TurnInv, ClaimBacksOutcome
<1>12. SlotsCounted'
  BY <1>1, SlotsKept DEF HoldsSlot, Others
<1> QED BY <1>2, <1>3, <1>4, <1>5, <1>6, <1>7, <1>8, <1>9, <1>10, <1>11, <1>12 DEF TurnInv

\* A worker that dies forgets its turns, its resolutions, its places and its pass.
LEMMA CrashInv ==
    ASSUME TurnInv, NEW w \in Workers, Crash(w)
    PROVE  TurnInv' /\ [StoreNext]_storeVars
<1>1. /\ RowKept /\ UNCHANGED <<host, outcome, ran, retired>> /\ budget'.stalls = budget.stalls
      /\ (\A m \in Messages : pc'[m] = IF host[m] = w /\ pc[m] \notin Ended THEN "dead" ELSE pc[m])
      /\ (\A r \in Resolvers : res'[r] = Idle \/ res'[r] = res[r])
      /\ pass'[w] = NoPass /\ (\A v \in Workers : v # w => pass'[v] = pass[v])
      /\ (\A v \in Workers, h \in Threads : slots'[v][h] = IF v = w THEN 0 ELSE slots[v][h])
  BY TurnTypes DEF TurnInv, EngineTypes, ResType, Crash, Goto, Scenario, RowKept, storeVars
<1>2. [StoreNext]_storeVars
  BY TurnTypes DEF Crash, StoreNext, Ok, Fault
<1>3. StoreInv'
  BY <1>2, StoreStep DEF TurnInv
<1>4. EngineTypes'
  <2>1. pc' \in [Messages -> PCs]
    BY DEF TurnInv, EngineTypes, Crash, PCs, Ended
  <2>2. ResType'
    <3>1. Idle \in [stage : Stages, rec : Messages \cup {NoMessage}]
      BY DEF Idle, Stages
    <3> QED BY <3>1 DEF TurnInv, EngineTypes, ResType, Crash
  <2>3. pass' \in [Workers -> [tok : PassTokens \cup {NoToken}, todo : SUBSET Messages]]
    <3>1. NoPass \in [tok : PassTokens \cup {NoToken}, todo : SUBSET Messages]
      BY DEF NoPass
    <3> QED BY <3>1 DEF TurnInv, EngineTypes, Crash
  <2>4. slots' \in [Workers -> [Threads -> Nat]]
    BY DEF TurnInv, EngineTypes, Crash
  <2>5. budget' \in Scenario
    <3>1. budget \in Scenario /\ budget.crashes > 0 /\ budget' = [budget EXCEPT !.crashes = @ - 1]
      BY DEF TurnInv, EngineTypes, Crash
    <3> QED BY <3>1 DEF Scenario
  <2> QED BY <2>1, <2>2, <2>3, <2>4, <2>5 DEF TurnInv, EngineTypes, Crash
<1>5. Places'
  BY <1>1, TurnTypes DEF TurnInv, Places, Unwritten, Written, ChannelOnly, RowKept
<1>6. Resolving'
  BY <1>1, TurnTypes DEF TurnInv, Resolving, RowKept, Idle, Ended, NoPass
<1>7. TurnOwns'
  BY <1>1, TurnTypes DEF TurnInv, TurnOwns, Committed, GivenAway, RowKept
<1>8. ResolverOwns'
  BY <1>1, TurnTypes DEF TurnInv, ResolverOwns, Resolving, Committed, GivenAway, RowKept, Idle
<1>9. Retired'
  BY <1>1, TurnTypes DEF TurnInv, Retired, RowKept
<1>10. TurnHeld'
  BY <1>1, TurnTypes DEF TurnInv, TurnHeld, Prompt, RowKept, Idle
<1>11. ClaimBacksOutcome'
  BY <1>1, TurnTypes DEF TurnInv, ClaimBacksOutcome, RowKept
<1>12. SlotsCounted'
  <2>1. ASSUME NEW v \in Workers, NEW h \in Threads
        PROVE  IsFiniteSet(Holders(v, h)') /\ slots'[v][h] = Cardinality(Holders(v, h)')
    <3>1. CASE v = w
      <4>1. Holders(v, h)' = {}
        BY <1>1, <3>1 DEF Holders, HoldsSlot, Ended
      <4> QED BY <1>1, <3>1, <4>1, FS_EmptySet
    <3>2. CASE v # w
      <4>1. Holders(v, h)' = Holders(v, h)
        BY <1>1, <3>2 DEF Holders
      <4> QED BY <1>1, <3>2, <4>1 DEF TurnInv, SlotsCounted
    <3> QED BY <3>1, <3>2
  <2> QED BY <2>1 DEF SlotsCounted
<1> QED BY <1>2, <1>3, <1>4, <1>5, <1>6, <1>7, <1>8, <1>9, <1>10, <1>11, <1>12 DEF TurnInv

----------------------------------------------------------------------------
(* The theorems. *)

\* Nothing has happened: every message is new and every place free.
LEMMA TurnInit == Init => TurnInv
<1> SUFFICES ASSUME Init PROVE TurnInv
  OBVIOUS
<1>1. StoreInv
  BY StoreInitInv DEF Init
<1>2. EngineTypes
  <2>1. Idle \in [stage : Stages, rec : Messages \cup {NoMessage}]
    BY DEF Idle, Stages
  <2>2. NoPass \in [tok : PassTokens \cup {NoToken}, todo : SUBSET Messages]
    BY DEF NoPass
  <2>3. "new" \in PCs
    BY DEF PCs, Ended
  <2> HIDE DEF Idle, NoPass
  <2> QED BY <2>1, <2>2, <2>3, TurnConstants DEF Init, EngineTypes, ResType
<1>3. Places /\ Retired /\ ClaimBacksOutcome
  BY DEF Init, StoreInit, Places, Unwritten, Written, ChannelOnly, Retired, ClaimBacksOutcome
<1>4. Resolving /\ TurnOwns /\ ResolverOwns /\ TurnHeld
  BY DEF Init, StoreInit, Resolving, TurnOwns, ResolverOwns, TurnHeld, Prompt, Idle, Resolvers, NoPass
<1>5. SlotsCounted
  <2>1. \A w, h : Holders(w, h) = {}
    BY DEF Init, Holders, HoldsSlot
  <2> QED BY <2>1, FS_EmptySet DEF Init, SlotsCounted
<1> QED BY <1>1, <1>2, <1>3, <1>4, <1>5 DEF TurnInv

\* Every step keeps the invariant, and is a step of the record store or leaves it alone.
LEMMA TurnStep == TurnInv /\ [Next]_vars => TurnInv' /\ [StoreNext]_storeVars
<1> SUFFICES ASSUME TurnInv, [Next]_vars PROVE TurnInv' /\ [StoreNext]_storeVars
  OBVIOUS
<1>1. CASE UNCHANGED vars
  <2>1. UNCHANGED storeVars
    BY <1>1 DEF vars
  <2>2. StoreInv'
    BY <2>1, StoreStep DEF TurnInv
  <2> USE <1>1, TurnTypes DEF vars, engineVars, storeVars, TurnInv
  <2>3. EngineTypes'
    BY DEF EngineTypes, ResType
  <2>4. Places' /\ Retired' /\ TurnHeld' /\ ClaimBacksOutcome'
    BY DEF Places, Retired, TurnHeld, ClaimBacksOutcome
  <2>5. Resolving' /\ TurnOwns' /\ ResolverOwns'
    BY DEF Resolving, TurnOwns, ResolverOwns, Committed, GivenAway
  <2>6. SlotsCounted'
    BY DEF SlotsCounted, Holders
  <2> QED BY <2>1, <2>2, <2>3, <2>4, <2>5, <2>6
<1>2. ASSUME NEW m \in Messages, Accept(m)
      PROVE  TurnInv' /\ [StoreNext]_storeVars
  BY <1>2, GetInboundOwnerInv, AdmitForTurnInv, RefuseInv, ShedInv, CreateIntakeInv, CreateIntakeFailsInv,
       ClaimPairInv,
       ClaimPairFailsInv, DiscardLoserInv, CreateShedInv, ClaimShedInv, ShedFailsInv, SlowDownReplyInv DEF Accept
<1>3. ASSUME NEW m \in Messages, Turn(m) \/ ReadStranded(m) \/ LeaseLapses(m)
      PROVE  TurnInv' /\ [StoreNext]_storeVars
  BY <1>3, RunAgentTurnInv, RefreshIntakeLeaseInv, CompleteAgentTurnInv, WaitElapsesInv, WaitReturnsInv,
       WaitCancelledInv,
       ReadStrandedInv, LeaseLapsesInv DEF Turn
<1>4. ASSUME NEW r \in Resolvers, Resolve(r)
      PROVE  TurnInv' /\ [StoreNext]_storeVars
  <2>1. res[r].rec \in Messages
    BY <1>4 DEF TurnInv, Resolving, Resolve, OwnsInboundClaim, FailStrandedTurn, DiscardStranded
  <2> QED BY <1>4, <2>1, OwnsInboundClaimInv, FailStrandedTurnInv, DiscardStrandedInv DEF Resolve
<1>5. ASSUME NEW w \in Workers, StartPass(w) \/ EndPass(w) \/ Crash(w) \/ \E m \in Messages : Adopt(w, m)
      PROVE  TurnInv' /\ [StoreNext]_storeVars
  BY <1>5, StartPassInv, EndPassInv, CrashInv, AdoptInv
<1>6. ASSUME NEW p \in Pairs, MarkerExpires(p)
      PROVE  TurnInv' /\ [StoreNext]_storeVars
  BY <1>6, MarkerExpiresInv
<1> QED BY <1>1, <1>2, <1>3, <1>4, <1>5, <1>6 DEF Next

\* Every reachable state of the engine satisfies the inductive invariant.
THEOREM TurnInvariance == Spec => []TurnInv
BY TurnInit, TurnStep, PTL DEF Spec

(* turn.py's books hold for any number of messages, threads and workers, however many round
   trips fail and workers die: the thread places are exactly the accepts and turns in flight, a
   record that carries an outcome is the one its pair is committed to (or was, until the marker
   expired), and while no worker outlasts its lease a live turn's record is still at intake
   under its own lease. *)
THEOREM TurnsAreAccounted == Spec => []TurnsAccounted
<1>1. TurnInv => TurnsAccounted
  <2> SUFFICES ASSUME TurnInv PROVE TurnsAccounted
    OBVIOUS
  <2>1. TypeOK
    BY DEF TurnInv, EngineTypes, ResType, StoreInv, TypeOK
  <2>2. SlotsExact
    BY DEF TurnInv, SlotsCounted, Holders, SlotsExact
  <2>3. LiveTurnNotReaped
    BY DEF TurnInv, TurnHeld, Prompt, LiveTurnNotReaped
  <2> QED BY <2>1, <2>2, <2>3 DEF TurnInv, EngineConsistent, TurnsAccounted
<1> QED BY <1>1, TurnInvariance, PTL

(* The engine keeps the obligations of records.py's callers: each of its steps, failed round
   trips and crashes included, is one step of the record store or leaves it alone; it deletes
   a row only while that row carries no answer. *)
THEOREM EngineImplementsStore == Spec => StoreSpec
<1>1. Init => StoreInit
  BY DEF Init
<1> QED BY <1>1, TurnStep, TurnInvariance, PTL DEF Spec, StoreSpec

(* So what holds of the store holds of the engine: a record is given one outcome, whatever
   turns, re-drives and shed replies finish late. *)
THEOREM EngineAnswersOnce == Spec => OutcomeOnce
BY EngineImplementsStore, BoundedSpec, OutcomeWrittenOnce, PTL
=============================================================================

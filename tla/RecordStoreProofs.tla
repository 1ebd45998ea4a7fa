------------------------- MODULE RecordStoreProofs -------------------------
(***************************************************************************)
(* The record store's invariants for every set of messages, pairs and      *)
(* tokens.  StoreTypeOK and RowConsistent are inductive together: the      *)
(* reply of a script bounds the status it may have acted on, and           *)
(* RowConsistent turns that into what the row held.  IndexExact needs the  *)
(* status function only, and the two action properties follow from the     *)
(* replies.  They are proved of UnboundedSpec, the store without the bound *)
(* a run puts on the attempt counter, which StoreSpec implements.          *)
(***************************************************************************)
EXTENDS RecordStore, TLAPS

\* A row exists only under an id that was minted, so a fresh id finds nothing in its place.
MintedRows == \A m \in Messages : status[m] # Gone => m \in minted

\* The conjunction the induction runs on.
StoreInv == StoreTypeOK /\ RowConsistent /\ IndexExact /\ MintedRows

\* The literal sets behind the status names.
LEMMA StatusFacts ==
    /\ Live = {"accepted", "pending_delivery", "provisional"}
    /\ Terminal = {"delivered", "failed", "shed"}
    /\ Statuses = {"accepted", "pending_delivery", "provisional", "delivered", "failed", "shed"}
    /\ Answerless = {"accepted", "shed", "gone"}
    /\ Outcomes = {"answered", "error"}
    /\ Graces = {"none", "running", "elapsed"}
    /\ Gone = "gone" /\ NoAnswer = "none"
BY DEF Live, Terminal, Statuses, Answerless, Outcomes, Graces, Gone, NoAnswer

\* The empty store satisfies the invariant.
LEMMA StoreInitInv == StoreInit => StoreInv
BY StatusFacts DEF StoreInit, StoreInv, StoreTypeOK, RowConsistent, IndexExact, MintedRows

\* A script that answers anything but 1 changes nothing, and so keeps the invariant.
LEMMA StoreStutter == StoreInv /\ UNCHANGED storeVars => StoreInv'
BY DEF StoreInv, StoreTypeOK, RowConsistent, IndexExact, MintedRows, storeVars

\* A fresh row: its id was never minted, so nothing is overwritten.
LEMMA CreateInv ==
    ASSUME StoreInv, NEW m \in Messages, NEW t \in Tokens, NEW s \in {"accepted", "shed"}, CreateRecord(m, s, t)
    PROVE  StoreInv'
<1>1. StoreTypeOK'
  BY StatusFacts, TokenAssumption, MessageAssumption DEF StoreInv, StoreTypeOK, CreateRecord, Reindex, RowConsistent, MintedRows
<1>2. RowConsistent'
  BY StatusFacts, TokenAssumption, MessageAssumption DEF StoreInv, StoreTypeOK, RowConsistent, CreateRecord, Reindex, MintedRows
<1>3. IndexExact'
  BY StatusFacts, TokenAssumption, MessageAssumption DEF StoreInv, StoreTypeOK, IndexExact, CreateRecord, Reindex, RowConsistent, MintedRows
<1>4. MintedRows'
  BY StatusFacts, TokenAssumption, MessageAssumption DEF StoreInv, StoreTypeOK, MintedRows, CreateRecord, Reindex, RowConsistent
<1> QED BY <1>1, <1>2, <1>3, <1>4 DEF StoreInv

\* The turn's outcome, written only at intake.
LEMMA CompleteTurnInv ==
    ASSUME StoreInv, NEW m \in Messages, NEW a \in Outcomes, CompleteTurn(m, a)
    PROVE  StoreInv'
<1>a. CASE CompleteTurnReply(m) # 1
  BY <1>a, StoreStutter DEF CompleteTurn
<1>b. CASE CompleteTurnReply(m) = 1
  <2>1. StoreTypeOK'
    BY <1>b, StatusFacts, TokenAssumption DEF StoreInv, StoreTypeOK, CompleteTurn, CompleteTurnReply, Reindex
  <2>2. RowConsistent'
    BY <1>b, StatusFacts, TokenAssumption DEF StoreInv, StoreTypeOK, RowConsistent, CompleteTurn, CompleteTurnReply, Reindex
  <2>3. IndexExact'
    BY <1>b, StatusFacts, TokenAssumption DEF StoreInv, StoreTypeOK, IndexExact, CompleteTurn, CompleteTurnReply, Reindex
  <2>4. MintedRows'
    BY <1>b, StatusFacts, TokenAssumption DEF StoreInv, StoreTypeOK, MintedRows, CompleteTurn, CompleteTurnReply, Reindex
  <2> QED BY <2>1, <2>2, <2>3, <2>4 DEF StoreInv
<1> QED BY <1>a, <1>b

\* The intake lease is given only at intake.
LEMMA ClaimIntakeInv ==
    ASSUME StoreInv, NEW m \in Messages, NEW t \in Tokens, ClaimIntake(m, t)
    PROVE  StoreInv'
<1>a. CASE ClaimIntakeReply(m, t) # 1
  BY <1>a, StoreStutter DEF ClaimIntake
<1>b. CASE ClaimIntakeReply(m, t) = 1
  <2>1. StoreTypeOK'
    BY <1>b, StatusFacts, TokenAssumption DEF StoreInv, StoreTypeOK, ClaimIntake, ClaimIntakeReply
  <2>2. RowConsistent'
    BY <1>b, StatusFacts, TokenAssumption DEF StoreInv, StoreTypeOK, RowConsistent, ClaimIntake, ClaimIntakeReply
  <2>3. IndexExact'
    BY <1>b, StatusFacts, TokenAssumption DEF StoreInv, StoreTypeOK, IndexExact, ClaimIntake, ClaimIntakeReply
  <2>4. MintedRows'
    BY <1>b, StatusFacts, TokenAssumption DEF StoreInv, StoreTypeOK, MintedRows, ClaimIntake, ClaimIntakeReply
  <2> QED BY <2>1, <2>2, <2>3, <2>4 DEF StoreInv
<1> QED BY <1>a, <1>b

\* The delivery lease is given only on an unsent answer.
LEMMA ClaimDeliveryInv ==
    ASSUME StoreInv, NEW m \in Messages, NEW t \in Tokens, ClaimDelivery(m, t)
    PROVE  StoreInv'
<1>a. CASE ClaimDeliveryReply(m, t) # 1
  BY <1>a, StoreStutter DEF ClaimDelivery
<1>b. CASE ClaimDeliveryReply(m, t) = 1
  <2>1. StoreTypeOK'
    BY <1>b, StatusFacts, TokenAssumption DEF StoreInv, StoreTypeOK, ClaimDelivery, ClaimDeliveryReply
  <2>2. RowConsistent'
    BY <1>b, StatusFacts, TokenAssumption DEF StoreInv, StoreTypeOK, RowConsistent, ClaimDelivery, ClaimDeliveryReply
  <2>3. IndexExact'
    BY <1>b, StatusFacts, TokenAssumption DEF StoreInv, StoreTypeOK, IndexExact, ClaimDelivery, ClaimDeliveryReply
  <2>4. MintedRows'
    BY <1>b, StatusFacts, TokenAssumption DEF StoreInv, StoreTypeOK, MintedRows, ClaimDelivery, ClaimDeliveryReply
  <2> QED BY <2>1, <2>2, <2>3, <2>4 DEF StoreInv
<1> QED BY <1>a, <1>b

\* A completed send.
LEMMA MarkProvisionalInv ==
    ASSUME StoreInv, NEW m \in Messages, NEW t \in Tokens, NEW n \in Nat, status[m] # "accepted", MarkProvisional(m, n, t)
    PROVE  StoreInv'
<1>a. CASE MarkProvisionalReply(m, t) # 1
  BY <1>a, StoreStutter DEF MarkProvisional
<1>b. CASE MarkProvisionalReply(m, t) = 1
  <2>1. StoreTypeOK'
    BY <1>b, StatusFacts, TokenAssumption DEF StoreInv, StoreTypeOK, MarkProvisional, MarkProvisionalReply, Reindex
  <2>2. RowConsistent'
    BY <1>b, StatusFacts, TokenAssumption DEF StoreInv, StoreTypeOK, RowConsistent, MarkProvisional, MarkProvisionalReply, Reindex
  <2>3. IndexExact'
    BY <1>b, StatusFacts, TokenAssumption DEF StoreInv, StoreTypeOK, IndexExact, MarkProvisional, MarkProvisionalReply, Reindex
  <2>4. MintedRows'
    BY <1>b, StatusFacts, TokenAssumption DEF StoreInv, StoreTypeOK, MintedRows, MarkProvisional, MarkProvisionalReply, Reindex
  <2> QED BY <2>1, <2>2, <2>3, <2>4 DEF StoreInv
<1> QED BY <1>a, <1>b

\* A confirmed delivery.
LEMMA MarkDeliveredInv ==
    ASSUME StoreInv, NEW m \in Messages, NEW t \in Tokens, NEW n \in Nat, status[m] # "accepted", MarkDelivered(m, n, t)
    PROVE  StoreInv'
<1>a. CASE MarkDeliveredReply(m, t) # 1
  BY <1>a, StoreStutter DEF MarkDelivered
<1>b. CASE MarkDeliveredReply(m, t) = 1
  <2>1. StoreTypeOK'
    BY <1>b, StatusFacts, TokenAssumption DEF StoreInv, StoreTypeOK, MarkDelivered, MarkDeliveredReply, Settle, Reindex
  <2>2. RowConsistent'
    BY <1>b, StatusFacts, TokenAssumption DEF StoreInv, StoreTypeOK, RowConsistent, MarkDelivered, MarkDeliveredReply, Settle, Reindex
  <2>3. IndexExact'
    BY <1>b, StatusFacts, TokenAssumption DEF StoreInv, StoreTypeOK, IndexExact, MarkDelivered, MarkDeliveredReply, Settle, Reindex
  <2>4. MintedRows'
    BY <1>b, StatusFacts, TokenAssumption DEF StoreInv, StoreTypeOK, MintedRows, MarkDelivered, MarkDeliveredReply, Settle, Reindex
  <2> QED BY <2>1, <2>2, <2>3, <2>4 DEF StoreInv
<1> QED BY <1>a, <1>b

\* A failed delivery.
LEMMA MarkFailedInv ==
    ASSUME StoreInv, NEW m \in Messages, NEW t \in Tokens, NEW n \in Nat, status[m] # "accepted", MarkFailed(m, n, t)
    PROVE  StoreInv'
<1>a. CASE MarkFailedReply(m, t) # 1
  BY <1>a, StoreStutter DEF MarkFailed
<1>b. CASE MarkFailedReply(m, t) = 1
  <2>1. StoreTypeOK'
    BY <1>b, StatusFacts, TokenAssumption DEF StoreInv, StoreTypeOK, MarkFailed, MarkFailedReply, Settle, Reindex
  <2>2. RowConsistent'
    BY <1>b, StatusFacts, TokenAssumption DEF StoreInv, StoreTypeOK, RowConsistent, MarkFailed, MarkFailedReply, Settle, Reindex
  <2>3. IndexExact'
    BY <1>b, StatusFacts, TokenAssumption DEF StoreInv, StoreTypeOK, IndexExact, MarkFailed, MarkFailedReply, Settle, Reindex
  <2>4. MintedRows'
    BY <1>b, StatusFacts, TokenAssumption DEF StoreInv, StoreTypeOK, MintedRows, MarkFailed, MarkFailedReply, Settle, Reindex
  <2> QED BY <2>1, <2>2, <2>3, <2>4 DEF StoreInv
<1> QED BY <1>a, <1>b

\* A receipt settles a provisional row only.
LEMMA IngestReceiptInv ==
    ASSUME StoreInv, NEW m \in Messages, NEW target \in {"delivered", "failed"}, IngestReceipt(m, target)
    PROVE  StoreInv'
<1>a. CASE IngestReceiptReply(m, target) # 1
  BY <1>a, StoreStutter DEF IngestReceipt
<1>b. CASE IngestReceiptReply(m, target) = 1
  <2>1. StoreTypeOK'
    BY <1>b, StatusFacts, TokenAssumption DEF StoreInv, StoreTypeOK, IngestReceipt, IngestReceiptReply, Settle, Reindex
  <2>2. RowConsistent'
    BY <1>b, StatusFacts, TokenAssumption DEF StoreInv, StoreTypeOK, RowConsistent, IngestReceipt, IngestReceiptReply, Settle, Reindex
  <2>3. IndexExact'
    BY <1>b, StatusFacts, TokenAssumption DEF StoreInv, StoreTypeOK, IndexExact, IngestReceipt, IngestReceiptReply, Settle, Reindex
  <2>4. MintedRows'
    BY <1>b, StatusFacts, TokenAssumption DEF StoreInv, StoreTypeOK, MintedRows, IngestReceipt, IngestReceiptReply, Settle, Reindex
  <2> QED BY <2>1, <2>2, <2>3, <2>4 DEF StoreInv
<1> QED BY <1>a, <1>b

\* A deleted row leaves every index.
LEMMA DeleteInv ==
    ASSUME StoreInv, NEW m \in Messages, DeleteRecord(m)
    PROVE  StoreInv'
<1>1. StoreTypeOK'
  BY StatusFacts, TokenAssumption, MessageAssumption DEF StoreInv, StoreTypeOK, DeleteRecord, EraseRow, Unindex
<1>2. RowConsistent'
  BY StatusFacts, TokenAssumption, MessageAssumption DEF StoreInv, StoreTypeOK, RowConsistent, DeleteRecord, EraseRow, Unindex
<1>3. IndexExact'
  BY StatusFacts, TokenAssumption, MessageAssumption DEF StoreInv, StoreTypeOK, IndexExact, DeleteRecord, EraseRow, Unindex
<1>4. MintedRows'
  BY StatusFacts, TokenAssumption, MessageAssumption DEF StoreInv, StoreTypeOK, MintedRows, DeleteRecord, EraseRow, Unindex
<1> QED BY <1>1, <1>2, <1>3, <1>4 DEF StoreInv

\* An expired row was terminal, so only a terminal index may keep its id.
LEMMA ExpireRowInv ==
    ASSUME StoreInv, NEW m \in Messages, ExpireRow(m)
    PROVE  StoreInv'
<1>1. StoreTypeOK'
  BY StatusFacts, TokenAssumption, MessageAssumption DEF StoreInv, StoreTypeOK, ExpireRow, EraseRow
<1>2. RowConsistent'
  BY StatusFacts, TokenAssumption, MessageAssumption DEF StoreInv, StoreTypeOK, RowConsistent, ExpireRow, EraseRow
<1>3. IndexExact'
  BY StatusFacts, TokenAssumption, MessageAssumption DEF StoreInv, StoreTypeOK, IndexExact, ExpireRow, EraseRow
<1>4. MintedRows'
  BY StatusFacts, TokenAssumption, MessageAssumption DEF StoreInv, StoreTypeOK, MintedRows, ExpireRow, EraseRow
<1> QED BY <1>1, <1>2, <1>3, <1>4 DEF StoreInv

\* The clocks, the attempt counter, the dedupe markers and the pruning of the indexes.
LEMMA UpkeepInv ==
    ASSUME StoreInv,
           \/ PruneIndexes
           \/ \E p \in Pairs : ExpireMarker(p) \/ \E m \in Messages : ClaimInbound(p, m)
           \/ \E m \in Messages : \/ LapseIntake(m) \/ LapseDelivery(m) \/ ElapseGrace(m)
                                  \/ BumpAttempt(m)
    PROVE  StoreInv'
<1>1. StoreTypeOK'
  BY StatusFacts, TokenAssumption, MessageAssumption DEF StoreInv, StoreTypeOK, PruneIndexes, ExpireMarker, ClaimInbound, ClaimInboundReply, LapseIntake, LapseDelivery, ElapseGrace, BumpAttempt
<1>2. RowConsistent'
  BY StatusFacts, TokenAssumption, MessageAssumption DEF StoreInv, StoreTypeOK, RowConsistent, PruneIndexes, ExpireMarker, ClaimInbound, ClaimInboundReply, LapseIntake, LapseDelivery, ElapseGrace, BumpAttempt
<1>3. IndexExact'
  BY StatusFacts, TokenAssumption, MessageAssumption DEF StoreInv, StoreTypeOK, IndexExact, PruneIndexes, ExpireMarker, ClaimInbound, ClaimInboundReply, LapseIntake, LapseDelivery, ElapseGrace, BumpAttempt
<1>4. MintedRows'
  BY StatusFacts, TokenAssumption, MessageAssumption DEF StoreInv, StoreTypeOK, MintedRows, PruneIndexes, ExpireMarker, ClaimInbound, ClaimInboundReply, LapseIntake, LapseDelivery, ElapseGrace, BumpAttempt
<1> QED BY <1>1, <1>2, <1>3, <1>4 DEF StoreInv

\* The steps of the store without the bound the runs put on the attempt counter.
UnboundedNext ==
    \/ \E m \in Messages, t \in Tokens :
          \/ \E s \in {"accepted", "shed"} : CreateRecord(m, s, t)
          \/ ClaimIntake(m, t)
          \/ ClaimDelivery(m, t)
          \/ /\ status[m] # "accepted"
             /\ \E n \in Nat : MarkProvisional(m, n, t) \/ MarkDelivered(m, n, t) \/ MarkFailed(m, n, t)
    \/ \E m \in Messages :
          \/ \E a \in Outcomes : CompleteTurn(m, a)
          \/ BumpAttempt(m)
          \/ \E target \in {"delivered", "failed"} : IngestReceipt(m, target)
          \/ status[m] \in Answerless /\ DeleteRecord(m)
          \/ LapseIntake(m) \/ LapseDelivery(m) \/ ElapseGrace(m) \/ ExpireRow(m)
    \/ \E p \in Pairs : ExpireMarker(p) \/ \E m \in Messages : ClaimInbound(p, m)
    \/ PruneIndexes

UnboundedSpec == StoreInit /\ [][UnboundedNext]_storeVars

\* Every bounded step is one of them.
LEMMA BoundedStep == StoreNext => UnboundedNext
BY AttemptAssumption DEF StoreNext, UnboundedNext

\* Every step of the store keeps the invariant.
LEMMA UnboundedStep == StoreInv /\ [UnboundedNext]_storeVars => StoreInv'
<1> SUFFICES ASSUME StoreInv, UnboundedNext PROVE StoreInv'
  BY StoreStutter
<1>1. ASSUME NEW m \in Messages, NEW t \in Tokens, NEW s \in {"accepted", "shed"},
             CreateRecord(m, s, t)
      PROVE  StoreInv'
  BY <1>1, CreateInv
<1>2. ASSUME NEW m \in Messages, NEW t \in Tokens, ClaimIntake(m, t) \/ ClaimDelivery(m, t)
      PROVE  StoreInv'
  BY <1>2, ClaimIntakeInv, ClaimDeliveryInv
<1>3. ASSUME NEW m \in Messages, NEW t \in Tokens, status[m] # "accepted", NEW n \in Nat,
             MarkProvisional(m, n, t) \/ MarkDelivered(m, n, t) \/ MarkFailed(m, n, t)
      PROVE  StoreInv'
  BY <1>3, MarkProvisionalInv, MarkDeliveredInv, MarkFailedInv
<1>4. ASSUME NEW m \in Messages, NEW a \in Outcomes, CompleteTurn(m, a)
      PROVE  StoreInv'
  BY <1>4, CompleteTurnInv
<1>5. ASSUME NEW m \in Messages, NEW target \in {"delivered", "failed"}, IngestReceipt(m, target)
      PROVE  StoreInv'
  BY <1>5, IngestReceiptInv
<1>6. ASSUME NEW m \in Messages, DeleteRecord(m) \/ ExpireRow(m)
      PROVE  StoreInv'
  BY <1>6, DeleteInv, ExpireRowInv
<1> QED BY <1>1, <1>2, <1>3, <1>4, <1>5, <1>6, UpkeepInv DEF UnboundedNext

\* So do the bounded ones.
LEMMA StoreStep == StoreInv /\ [StoreNext]_storeVars => StoreInv'
BY UnboundedStep, BoundedStep

\* Every reachable store satisfies the inductive invariant.
THEOREM StoreInvariance == UnboundedSpec => []StoreInv
BY StoreInitInv, UnboundedStep, PTL DEF UnboundedSpec

\* The bounded store is the store with fewer steps.
LEMMA BoundedSpec == StoreSpec => UnboundedSpec
<1>1. [StoreNext]_storeVars => [UnboundedNext]_storeVars
  BY BoundedStep
<1> QED BY <1>1, PTL DEF StoreSpec, UnboundedSpec

(* The record store keeps its types: rows, leases, counters, indexes and markers written by
   the Lua scripts of records.py. *)
THEOREM StoreTypeCorrect == UnboundedSpec => []StoreTypeOK
<1>1. StoreInv => StoreTypeOK BY DEF StoreInv
<1> QED BY <1>1, StoreInvariance, PTL

(* "exactly one index names it", and models.py _outcome_matches_status never rejects a row read
   back: for any number of records, pairs and workers, every row is in the index of its own
   status alone, no live index names a missing row, and a row's outcome, leases and grace
   deadline agree with its status, whatever callers race. *)
THEOREM StoreIsConsistent == UnboundedSpec => []StoreConsistent
<1>1. StoreInv => StoreConsistent BY DEF StoreInv, StoreConsistent
<1> QED BY <1>1, StoreInvariance, PTL

\* What a step does to one row: its outcome stands or the row goes, and its status moves legally.
RowStep(m) ==
    /\ answer[m] # NoAnswer => answer'[m] = answer[m] \/ status'[m] = Gone
    /\ status'[m] # status[m] => <<status[m], status'[m]>> \in LegalMoves

\* Both action properties, one step of the store at a time.
LEMMA StoreRowStep == StoreInv /\ [UnboundedNext]_storeVars => \A m \in Messages : RowStep(m)
<1> SUFFICES ASSUME StoreInv, [UnboundedNext]_storeVars, NEW k \in Messages PROVE RowStep(k)
  OBVIOUS
<1> USE StatusFacts DEF StoreInv, StoreTypeOK, RowStep, LegalMoves
<1>1. CASE UNCHANGED storeVars
  BY <1>1 DEF storeVars
<1>2. ASSUME NEW m \in Messages, NEW t \in Tokens, NEW s \in {"accepted", "shed"},
             CreateRecord(m, s, t)
      PROVE  RowStep(k)
  BY <1>2 DEF CreateRecord, RowConsistent, MintedRows
<1>3. ASSUME NEW m \in Messages, NEW t \in Tokens, ClaimIntake(m, t) \/ ClaimDelivery(m, t)
      PROVE  RowStep(k)
  BY <1>3 DEF ClaimIntake, ClaimDelivery, storeVars
<1>4. ASSUME NEW m \in Messages, NEW t \in Tokens, status[m] # "accepted", NEW n \in Nat,
             MarkProvisional(m, n, t)
      PROVE  RowStep(k)
  BY <1>4 DEF MarkProvisional, MarkProvisionalReply, storeVars
<1>5. ASSUME NEW m \in Messages, NEW t \in Tokens, status[m] # "accepted", NEW n \in Nat,
             MarkDelivered(m, n, t)
      PROVE  RowStep(k)
  BY <1>5 DEF MarkDelivered, MarkDeliveredReply, Settle, storeVars
<1>6. ASSUME NEW m \in Messages, NEW t \in Tokens, status[m] # "accepted", NEW n \in Nat,
             MarkFailed(m, n, t)
      PROVE  RowStep(k)
  BY <1>6 DEF MarkFailed, MarkFailedReply, Settle, storeVars
<1>7. ASSUME NEW m \in Messages, NEW a \in Outcomes, CompleteTurn(m, a)
      PROVE  RowStep(k)
  BY <1>7 DEF CompleteTurn, CompleteTurnReply, RowConsistent, storeVars
<1>8. ASSUME NEW m \in Messages, NEW target \in {"delivered", "failed"}, IngestReceipt(m, target)
      PROVE  RowStep(k)
  BY <1>8 DEF IngestReceipt, IngestReceiptReply, Settle, storeVars
<1>9. ASSUME NEW m \in Messages, (status[m] \in Answerless /\ DeleteRecord(m)) \/ ExpireRow(m)
      PROVE  RowStep(k)
  BY <1>9 DEF DeleteRecord, ExpireRow, EraseRow
<1>10. ASSUME NEW m \in Messages,
              LapseIntake(m) \/ LapseDelivery(m) \/ ElapseGrace(m) \/ BumpAttempt(m)
       PROVE  RowStep(k)
  BY <1>10 DEF LapseIntake, LapseDelivery, ElapseGrace, BumpAttempt
<1>11. CASE \/ PruneIndexes
            \/ \E p \in Pairs : ExpireMarker(p) \/ \E m \in Messages : ClaimInbound(p, m)
  BY <1>11 DEF PruneIndexes, ExpireMarker, ClaimInbound
<1> QED
  BY <1>1, <1>2, <1>3, <1>4, <1>5, <1>6, <1>7, <1>8, <1>9, <1>10, <1>11 DEF UnboundedNext

(* "racing writers produce ONE outcome, never two": complete_turn's status guard, for any
   number of workers finishing, re-driving and delivering the same record. *)
THEOREM OutcomeWrittenOnce == UnboundedSpec => OutcomeOnce
<1>1. StoreInv /\ [UnboundedNext]_storeVars
        => [\A m \in Messages :
               answer[m] # NoAnswer => answer'[m] = answer[m] \/ status'[m] = Gone]_storeVars
  BY StoreRowStep DEF RowStep
<1> QED BY <1>1, StoreInvariance, PTL DEF UnboundedSpec, OutcomeOnce

(* The delivery machine never steps back: no completed send is failed by a late worker and no
   terminal row is left except by expiry. *)
THEOREM MovesForward == UnboundedSpec => ForwardOnly
<1>1. StoreInv /\ [UnboundedNext]_storeVars
        => [\A m \in Messages :
               status'[m] # status[m] => <<status[m], status'[m]>> \in LegalMoves]_storeVars
  BY StoreRowStep DEF RowStep
<1> QED BY <1>1, StoreInvariance, PTL DEF UnboundedSpec, ForwardOnly
=============================================================================

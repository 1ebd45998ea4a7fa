------------------------- MODULE DeliveryEngineProofs -------------------------
(***************************************************************************)
(* The delivery executor carries every answer, for every set of records,   *)
(* workers and split caps, any answer length and any bound on attempts.    *)
(* Everything rests on the delivery lease: while no worker outlasts it, a  *)
(* record has one driver (Sole), so what that driver read of the ledger    *)
(* and the attempt counter is still true when it writes (Counted, Cut),    *)
(* and what the ledger accounts for the provider has accepted (Ledgered).  *)
(***************************************************************************)
EXTENDS DeliveryEngine, RecordStoreProofs

\* Where a run is on the channel path, on the callback path, in the sync wait.
ChannelPc == {"bump", "ledger", "refuse", "reindex", "loop", "notify", "append", "index", "provisional"}
CallbackPc == {"apiBump", "post", "apiMark", "apiRefresh"}
WaitPc == {"waitBump", "waitMark"}

\* Where it has read the ledger, chosen a chunk, counted its attempt.
ReadPc == {"reindex", "loop", "notify", "append", "index", "provisional"}
CuttingPc == {"loop", "notify", "append"}
CountedPc == {"ledger", "refuse", "reindex", "loop", "notify", "append", "index", "provisional", "fail",
              "post", "apiMark", "apiRefresh", "waitMark"}

Driver == [pc : Sending \cup {"idle", "clear"}, msg : Messages \cup {NoMessage}, tok : Tokens \cup {NoToken},
           pos : 0..AnswerLen, cut : 0..AnswerLen, n : Nat, cap : MaxCharsSet \cup {0}, clr : BOOLEAN]

\* The types of the executor's own variables.
EngineTypes ==
    /\ drv \in [Drivers -> Driver]
    /\ ledger \in [Messages -> Nat]
    /\ taken \in [Messages -> [Chars -> Nat]]
    /\ refusals \in [Messages -> Nat] /\ posts \in [Messages -> Nat]
    /\ outIndex \in SUBSET Messages /\ waited \in SUBSET ApiMessages /\ waitAnswered \in SUBSET waited
    /\ overtaken \in SUBSET Messages /\ budget \in Scenario

\* A run is for a record that carries an answer, on the path of its door.
Routed ==
    \A d \in Drivers :
        /\ drv[d].pc # "idle" => Msg(d) \in Messages /\ drv[d].tok \in Tokens /\ status[Msg(d)] \notin Answerless
        /\ drv[d].pc = "clear" => status[Msg(d)] # "pending_delivery"
        /\ drv[d].pc \in ChannelPc => Msg(d) \notin ApiMessages
        /\ drv[d].pc \in CallbackPc => Msg(d) \in ApiMessages
        /\ drv[d].pc \in WaitPc => Msg(d) \in waited

\* The chunk a run is at lies ahead of it in the answer.
Cut ==
    \A d \in Drivers :
        /\ drv[d].pc \in ReadPc => drv[d].cap \in MaxCharsSet
        /\ drv[d].pc \in CuttingPc => drv[d].pos < AnswerLen
        /\ drv[d].pc \in {"notify", "append"} => drv[d].pos < drv[d].cut
        /\ drv[d].pc = "provisional" => drv[d].pos = AnswerLen

\* A driver whose record was not overtaken holds the lease and is alone with the record.
Sole == OneDriverPerRecord

\* So the attempt it counted is the counter, and it has attempts left where it spends one.
Counted ==
    \A d \in Drivers : drv[d].pc \in Sending /\ Msg(d) \notin overtaken =>
        /\ drv[d].pc \in CountedPc => drv[d].n = attempts[Msg(d)]
        /\ drv[d].pc \in {"bump", "bumpFail", "apiBump", "apiRefresh"} => attempts[Msg(d)] < DeliveryMaxAttempts
        /\ drv[d].pc = "waitBump" => attempts[Msg(d)] <= DeliveryMaxAttempts
        /\ drv[d].pc \in {"ledger", "refuse"} => refusals[Msg(d)] < attempts[Msg(d)]
        /\ drv[d].pc = "post" => posts[Msg(d)] < attempts[Msg(d)]

\* A record nobody created was sent to nobody.
Unsent == \A m \in Messages \ minted : refusals[m] = 0 /\ posts[m] = 0

\* What the ledger accounts for was accepted, and a driver resumes right after it.
Ledgered ==
    /\ \A m \in Messages \ overtaken :
          ledger[m] <= AnswerLen /\ \A c \in Chars \ BlankChars : c <= ledger[m] => taken[m][c] > 0
    /\ \A d \in Drivers : drv[d].pc \in ReadPc /\ Msg(d) \notin overtaken => drv[d].pos = ledger[Msg(d)]
    /\ \A d \in Drivers : drv[d].pc = "append" /\ Msg(d) \notin overtaken =>
          \A c \in Chars \ BlankChars : c \in (drv[d].pos + 1)..drv[d].cut => taken[Msg(d)][c] > 0

\* An answer the sync wait returned is delivered.
WaitSettled == \A m \in waitAnswered : status[m] = "delivered"

\* The inductive invariant.
DeliveryInv ==
    /\ EngineTypes /\ StoreInv /\ Routed /\ Cut /\ Sole /\ Counted /\ Unsent /\ Ledgered
    /\ NothingDropped /\ AttemptsBounded /\ WaitSettled

----------------------------------------------------------------------------
(* The invariant, step by step. *)

\* What the set names stand for, and the types the steps below start from.
LEMMA DeliveryTypes ==
    ASSUME DeliveryInv
    PROVE  /\ status \in [Messages -> Statuses \cup {Gone}] /\ claim \in [Messages -> Tokens \cup {NoToken}]
           /\ attempts \in [Messages -> Nat] /\ minted \in SUBSET Messages /\ NoToken \notin Tokens
           /\ AnswerLen \in Nat \ {0} /\ DeliveryMaxAttempts \in Nat \ {0}
           /\ \A m \in ApiMessages : m \in Messages
           /\ \A k \in MaxCharsSet : k \in Nat \ {0}
           /\ drv \in [Drivers -> Driver]
           /\ \A m \in waited : m \in ApiMessages
           /\ \A m \in waitAnswered : m \in waited
           /\ \A d \in Drivers :
                 /\ drv[d].pc \in Sending \cup {"idle", "clear"} /\ drv[d].n \in Nat
                 /\ drv[d].pos \in Nat /\ drv[d].pos <= AnswerLen /\ drv[d].cut \in Nat /\ drv[d].cut <= AnswerLen
           /\ \A d \in Drivers : drv[d].pc # "idle" =>
                 /\ Msg(d) \in Messages /\ drv[d].tok \in Tokens /\ Msg(d) \in minted
                 /\ status[Msg(d)] \in {"pending_delivery", "provisional", "delivered", "failed"}
           /\ \A m \in Messages : ledger[m] \in Nat /\ refusals[m] \in Nat /\ posts[m] \in Nat /\ attempts[m] \in Nat
           /\ \A m \in Messages, c \in Chars : taken[m][c] \in Nat
           /\ \A m \in Messages : claim[m] # NoToken => status[m] = "pending_delivery"
           /\ \A m \in Messages : status[m] # Gone => m \in minted
BY DeliveryConstants, TokenAssumption
   DEF DeliveryInv, EngineTypes, StoreInv, StoreTypeOK, RowConsistent, MintedRows, Driver, Chars, Routed, Answerless,
       Statuses, Live, Terminal, Gone

\* A chunk has at least one character, and none beyond the answer.
LEMMA CutFacts ==
    ASSUME NEW p \in Nat, p < AnswerLen, NEW k \in MaxCharsSet
    PROVE  ChunkEnd(p, k) \in Nat /\ p < ChunkEnd(p, k) /\ ChunkEnd(p, k) <= AnswerLen
<1>1. AnswerLen \in Nat \ {0} /\ k \in Nat \ {0}
  BY DeliveryConstants
<1>2. CASE AnswerLen - p <= k
  BY <1>1, <1>2 DEF ChunkEnd
<1>3. CASE ~(AnswerLen - p <= k) /\ \E c \in Chars : LastBreak(p, k, c)
  <2>1. PICK c \in Chars : c = (CHOOSE b \in Chars : LastBreak(p, k, b)) /\ LastBreak(p, k, c)
    BY <1>3
  <2>2. ChunkEnd(p, k) = c - 1
    BY <1>3, <2>1 DEF ChunkEnd
  <2>3. QED
    BY <1>1, <2>1, <2>2 DEF LastBreak, Breaks, Chars
<1>4. CASE ~(AnswerLen - p <= k) /\ ~\E c \in Chars : LastBreak(p, k, c)
  BY <1>1, <1>4 DEF ChunkEnd
<1>5. QED
  BY <1>2, <1>3, <1>4

\* The driver of a record that was not overtaken has the lease of an unsent answer.
LEMMA SoleFacts ==
    ASSUME DeliveryInv, NEW d \in Drivers, drv[d].pc \in Sending, Msg(d) \notin overtaken
    PROVE  /\ Msg(d) \in Messages /\ status[Msg(d)] = "pending_delivery"
           /\ claim[Msg(d)] = drv[d].tok /\ drv[d].tok \in Tokens
           /\ \A e \in Drivers : e # d /\ drv[e].pc \in Sending => Msg(e) # Msg(d)
BY DeliveryTypes DEF DeliveryInv, Routed, Sole, OneDriverPerRecord, Sending

\* A fresh token is no lease's and no run's.
LEMMA FreshFacts ==
    ASSUME TokensLeft
    PROVE  NewToken \in Tokens /\ FreshToken(NewToken)
BY DEF TokensLeft, NewToken

\* What keeps the type of the runs: a step to another place, the end of a run, any run written whole.
LEMMA StepTypes ==
    ASSUME drv \in [Drivers -> Driver], NEW d \in Drivers, NEW l \in Sending \cup {"idle", "clear"}, Step(d, l)
    PROVE  drv' \in [Drivers -> Driver]
<1>1. drv[d] \in Driver /\ [drv[d] EXCEPT !.pc = l] \in Driver
  BY DEF Driver
<1> QED BY <1>1 DEF Step

LEMMA EndTypes ==
    ASSUME drv \in [Drivers -> Driver], NEW d \in Drivers, End(d)
    PROVE  drv' \in [Drivers -> Driver]
<1>1. IdleDrv \in Driver
  BY DeliveryConstants DEF Driver, IdleDrv
<1> QED BY <1>1 DEF End

\* What a step of one driver leaves to the others, and of itself.
Others(d) == \A e \in Drivers : e # d => drv'[e] = drv[e]
Went(d, l) == drv'[d].pc = l /\ drv'[d].msg = drv[d].msg /\ drv'[d].tok = drv[d].tok /\ Others(d)
Kept(d) == drv'[d].pos = drv[d].pos /\ drv'[d].cut = drv[d].cut /\ drv'[d].n = drv[d].n /\ drv'[d].cap = drv[d].cap
Ended(d) == drv'[d].pc = "idle" /\ Others(d)

\* What it does to the rows.
RowsBut(m) == \A k \in Messages : k # m => status'[k] = status[k] /\ claim'[k] = claim[k] /\ attempts'[k] = attempts[k]
RowSame == UNCHANGED <<status, claim, attempts, minted>>
RowBumped(m) == attempts'[m] = attempts[m] + 1 /\ RowsBut(m) /\ UNCHANGED <<status, claim, minted>>
RowHeld(m, t) ==
    /\ status[m] = "pending_delivery" /\ claim[m] \in {NoToken, t} /\ claim'[m] = t
    /\ RowsBut(m) /\ UNCHANGED <<status, attempts, minted>>
RowMoved(m, s, n) ==
    /\ status[m] \in {"pending_delivery", "provisional"} /\ status'[m] = s /\ claim'[m] = NoToken /\ attempts'[m] = n
    /\ RowsBut(m) /\ UNCHANGED minted
RowSettled(m) ==
    /\ status[m] = "provisional" /\ status'[m] \in {"delivered", "failed"}
    /\ RowsBut(m) /\ UNCHANGED <<claim, attempts, minted>>

\* What the step vocabulary of the executor comes to.
LEMMA StepGoes ==
    ASSUME drv \in [Drivers -> Driver], NEW d \in Drivers, NEW l, Step(d, l)
    PROVE  Went(d, l) /\ Kept(d)
<1>1. drv[d] \in Driver /\ drv'[d] = [drv[d] EXCEPT !.pc = l]
  BY DEF Step
<1>2. Others(d)
  BY DEF Others, Step
<1> QED BY <1>1, <1>2 DEF Driver, Went, Kept

LEMMA EndGoes ==
    ASSUME drv \in [Drivers -> Driver], NEW d \in Drivers, End(d)
    PROVE  Ended(d)
BY DEF End, Ended, Others, IdleDrv

\* A record is created, or its turn's answer written.
LEMMA AnswerArrivesInv ==
    ASSUME DeliveryInv, NEW m \in Messages, AnswerArrives(m)
    PROVE  DeliveryInv' /\ [UnboundedNext]_storeVars
<1>1. /\ UNCHANGED <<drv, ledger, taken, refusals, posts, waited, waitAnswered, overtaken>>
      /\ RowsBut(m) /\ claim'[m] = claim[m] /\ status'[m] \in {"accepted", "pending_delivery"}
      /\ \/ status[m] = "accepted" /\ UNCHANGED <<attempts, minted>>
         \/ status[m] = Gone /\ attempts'[m] = 0 /\ m \notin minted /\ minted' = minted \cup {m}
  BY DeliveryTypes DEF DeliveryInv, EngineTypes, AnswerArrives, Msg, RowsBut, CreateRecord, CompleteTurn,
       CompleteTurnReply, engineVars
<1>2. [UnboundedNext]_storeVars
  BY FreshFacts, DeliveryTypes DEF AnswerArrives, UnboundedNext, Answerless, Outcomes
<1>3. StoreInv'
  BY <1>2, UnboundedStep DEF DeliveryInv
<1>4. EngineTypes'
  BY DeliveryTypes DEF DeliveryInv, EngineTypes, Driver, Sending, AnswerArrives, engineVars
<1>5. Routed'
  BY <1>1, DeliveryTypes DEF DeliveryInv, Routed, ChannelPc, CallbackPc, WaitPc, Answerless, Gone, Msg, RowsBut
<1>6. Cut'
  BY <1>1, DeliveryTypes DEF DeliveryInv, Cut, ReadPc, CuttingPc, RowsBut
<1>7. Sole'
  BY <1>1, DeliveryTypes DEF DeliveryInv, Sole, OneDriverPerRecord, Sending, Msg, RowsBut
<1>8. Counted'
  BY <1>1, DeliveryTypes DEF DeliveryInv, Counted, CountedPc, Sending, Msg, RowsBut, Routed, Answerless
<1>9. Unsent'
  BY <1>1, DeliveryTypes DEF DeliveryInv, Unsent, Gone, RowsBut
<1>10. Ledgered'
  BY <1>1, DeliveryTypes DEF DeliveryInv, Ledgered, ReadPc, Sending, Msg, Chars, RowsBut
<1>11. NothingDropped'
  BY <1>1, DeliveryTypes DEF DeliveryInv, NothingDropped, Msg, RowsBut
<1>12. AttemptsBounded'
  BY <1>1, DeliveryTypes DEF DeliveryInv, AttemptsBounded, Msg, RowsBut, Unsent
<1>13. WaitSettled'
  BY <1>1, DeliveryTypes DEF DeliveryInv, WaitSettled, Msg, RowsBut, Gone
<1> QED BY <1>2, <1>3, <1>4, <1>5, <1>6, <1>7, <1>8, <1>9, <1>10, <1>11, <1>12, <1>13 DEF DeliveryInv

\* A run claims an unsent answer nobody holds.
LEMMA StartDeliverInv ==
    ASSUME DeliveryInv, NEW d \in Drivers, NEW m \in Messages, StartDeliver(d, m)
    PROVE  DeliveryInv' /\ [UnboundedNext]_storeVars
<1>1. /\ drv[d].pc = "idle" /\ drv'[d].pc = "read" /\ drv'[d].msg = m /\ drv'[d].tok \in Tokens /\ Others(d)
      /\ claim[m] = NoToken /\ RowHeld(m, drv'[d].tok)
      /\ UNCHANGED <<ledger, taken, refusals, posts, waited, waitAnswered, overtaken>>
  BY FreshFacts, DeliveryTypes DEF DeliveryInv, EngineTypes, StartDeliver, Msg, Claim, At, FreshToken,
       IdleDrv, Others, RowHeld, RowsBut, ClaimDelivery, ClaimDeliveryReply, ForeignLease
<1>2. [UnboundedNext]_storeVars
  BY FreshFacts, DeliveryTypes DEF StartDeliver, UnboundedNext, Answerless, Claim
<1>3. StoreInv'
  BY <1>2, UnboundedStep DEF DeliveryInv
<1>4. EngineTypes'
  <2>1. drv' \in [Drivers -> Driver]
    <3>1. [IdleDrv EXCEPT !.pc = "read", !.msg = m, !.tok = NewToken] \in Driver
      <4>1. IdleDrv \in Driver
        BY DeliveryConstants DEF Driver, IdleDrv
      <4>2. NewToken \in Tokens
        BY FreshFacts DEF StartDeliver, Claim
      <4> QED BY <4>1, <4>2 DEF Driver, Sending
    <3> QED BY <3>1, DeliveryTypes DEF StartDeliver, Claim
  <2> QED
    BY <2>1, DeliveryTypes DEF DeliveryInv, EngineTypes, StartDeliver
<1>5. Routed'
  BY <1>1, DeliveryTypes DEF DeliveryInv, Routed, ChannelPc, CallbackPc, WaitPc, Answerless, Gone, Msg,
       Others, RowHeld, RowsBut
<1>6. Cut'
  BY <1>1, DeliveryTypes DEF DeliveryInv, Cut, ReadPc, CuttingPc, Others, RowHeld, RowsBut
<1>7. Sole'
  BY <1>1, DeliveryTypes DEF DeliveryInv, Sole, OneDriverPerRecord, Sending, Msg, Others, RowHeld, RowsBut
<1>8. Counted'
  BY <1>1, DeliveryTypes DEF DeliveryInv, Counted, CountedPc, Sending, Msg, Others, RowHeld, RowsBut
<1>9. Unsent'
  BY <1>1, DeliveryTypes DEF DeliveryInv, Unsent, Gone, Others, RowHeld, RowsBut
<1>10. Ledgered'
  BY <1>1, DeliveryTypes DEF DeliveryInv, Ledgered, ReadPc, Sending, Msg, Chars, Others, RowHeld, RowsBut
<1>11. NothingDropped'
  BY <1>1, DeliveryTypes DEF DeliveryInv, NothingDropped, Msg, Others, RowHeld, RowsBut
<1>12. AttemptsBounded'
  BY <1>1, DeliveryTypes DEF DeliveryInv, AttemptsBounded, Msg, Others, RowHeld, RowsBut
<1>13. WaitSettled'
  BY <1>1, DeliveryTypes DEF DeliveryInv, WaitSettled, Msg, Others, RowHeld, RowsBut
<1> QED BY <1>2, <1>3, <1>4, <1>5, <1>6, <1>7, <1>8, <1>9, <1>10, <1>11, <1>12, <1>13 DEF DeliveryInv

\* The sync wait ends by claiming the answer.
LEMMA StartWaitInv ==
    ASSUME DeliveryInv, NEW d \in Drivers, NEW m \in Messages, StartWait(d, m)
    PROVE  DeliveryInv' /\ [UnboundedNext]_storeVars
<1>1. /\ drv[d].pc = "idle" /\ drv'[d].pc = "waitBump" /\ drv'[d].msg = m /\ drv'[d].tok \in Tokens /\ Others(d)
      /\ m \in ApiMessages \ waited /\ waited' = waited \cup {m}
      /\ claim[m] = NoToken /\ RowHeld(m, drv'[d].tok)
      /\ UNCHANGED <<ledger, taken, refusals, posts, waitAnswered, overtaken>>
  BY FreshFacts, DeliveryTypes DEF DeliveryInv, EngineTypes, StartWait, Msg, Claim, At, FreshToken, IdleDrv,
       Others, RowHeld, RowsBut, ClaimDelivery, ClaimDeliveryReply, ForeignLease
<1>2. [UnboundedNext]_storeVars
  BY FreshFacts, DeliveryTypes DEF StartWait, UnboundedNext, Answerless, Claim
<1>3. StoreInv'
  BY <1>2, UnboundedStep DEF DeliveryInv
<1>4. EngineTypes'
  <2>1. drv' \in [Drivers -> Driver]
    <3>1. [IdleDrv EXCEPT !.pc = "waitBump", !.msg = m, !.tok = NewToken] \in Driver
      <4>1. IdleDrv \in Driver
        BY DeliveryConstants DEF Driver, IdleDrv
      <4>2. NewToken \in Tokens
        BY FreshFacts DEF StartWait, Claim
      <4> QED BY <4>1, <4>2 DEF Driver, Sending
    <3> QED BY <3>1, DeliveryTypes DEF StartWait, Claim
  <2> QED
    BY <2>1, DeliveryTypes DEF DeliveryInv, EngineTypes, StartWait
<1>5. Routed'
  BY <1>1, DeliveryTypes DEF DeliveryInv, Routed, ChannelPc, CallbackPc, WaitPc, Answerless, Gone, Msg,
       Others, RowHeld, RowsBut
<1>6. Cut'
  BY <1>1, DeliveryTypes DEF DeliveryInv, Cut, ReadPc, CuttingPc, Others, RowHeld, RowsBut
<1>7. Sole'
  BY <1>1, DeliveryTypes DEF DeliveryInv, Sole, OneDriverPerRecord, Sending, Msg, Others, RowHeld, RowsBut
<1>8. Counted'
  BY <1>1, DeliveryTypes DEF DeliveryInv, Counted, CountedPc, Sending, Msg, Others, RowHeld, RowsBut,
       AttemptsBounded
<1>9. Unsent'
  BY <1>1, DeliveryTypes DEF DeliveryInv, Unsent, Gone, Others, RowHeld, RowsBut
<1>10. Ledgered'
  BY <1>1, DeliveryTypes DEF DeliveryInv, Ledgered, ReadPc, Sending, Msg, Chars, Others, RowHeld, RowsBut
<1>11. NothingDropped'
  BY <1>1, DeliveryTypes DEF DeliveryInv, NothingDropped, Msg, Others, RowHeld, RowsBut
<1>12. AttemptsBounded'
  BY <1>1, DeliveryTypes DEF DeliveryInv, AttemptsBounded, Msg, Others, RowHeld, RowsBut
<1>13. WaitSettled'
  BY <1>1, DeliveryTypes DEF DeliveryInv, WaitSettled, Msg, Others, RowHeld, RowsBut
<1> QED BY <1>2, <1>3, <1>4, <1>5, <1>6, <1>7, <1>8, <1>9, <1>10, <1>11, <1>12, <1>13 DEF DeliveryInv

\* The run re-reads the record and counts what it has left.
LEMMA ReadRecordInv ==
    ASSUME DeliveryInv, NEW d \in Drivers, ReadRecord(d)
    PROVE  DeliveryInv' /\ [UnboundedNext]_storeVars
<1>1. /\ drv[d].pc = "read" /\ RowSame
      /\ UNCHANGED <<ledger, taken, refusals, posts, waited, waitAnswered, overtaken>>
      /\ \/ Ended(d)
         \/ /\ status[Msg(d)] = "pending_delivery" /\ Went(d, "fail") /\ drv'[d].n = attempts[Msg(d)]
         \/ /\ status[Msg(d)] = "pending_delivery" /\ attempts[Msg(d)] < DeliveryMaxAttempts
            /\ \/ Went(d, "bumpFail")
               \/ Msg(d) \in ApiMessages /\ Went(d, "apiBump")
               \/ Msg(d) \notin ApiMessages /\ Went(d, "bump")
  <2>1. ASSUME drv' = [drv EXCEPT ![d].pc = "fail", ![d].n = attempts[Msg(d)]]
        PROVE  Went(d, "fail") /\ drv'[d].n = attempts[Msg(d)]
    <3>1. drv[d] \in Driver /\ drv'[d] = [drv[d] EXCEPT !.pc = "fail", !.n = attempts[Msg(d)]]
      BY <2>1, DeliveryTypes
    <3>2. Others(d)
      BY <2>1, DeliveryTypes DEF Others
    <3> QED BY <3>1, <3>2 DEF Driver, Went
  <2> QED BY <2>1, StepGoes, EndGoes, DeliveryTypes DEF ReadRecord, At, Msg, RowSame, storeVars
<1>2. [UnboundedNext]_storeVars
  BY DeliveryTypes DEF ReadRecord, UnboundedNext, Answerless
<1>3. StoreInv'
  BY <1>2, UnboundedStep DEF DeliveryInv
<1>4. EngineTypes'
  <2>1. drv' \in [Drivers -> Driver]
    <3>1. drv[d] \in Driver /\ Msg(d) \in Messages
      BY DEF DeliveryInv, EngineTypes, Routed, ReadRecord, At
    <3>2. ASSUME NEW n \in Nat, drv' = [drv EXCEPT ![d].pc = "fail", ![d].n = n] PROVE drv' \in [Drivers -> Driver]
      <4>1. ASSUME NEW x \in Driver PROVE [x EXCEPT !.pc = "fail", !.n = n] \in Driver
        BY DEF Driver, Sending
      <4>2. drv' = [drv EXCEPT ![d] = [drv[d] EXCEPT !.pc = "fail", !.n = n]]
        BY <3>2
      <4> QED BY <3>1, <4>1, <4>2, DeliveryTypes
    <3>3. "bumpFail" \in Sending /\ "apiBump" \in Sending /\ "bump" \in Sending
      BY DEF Sending
    <3> QED BY <3>1, <3>2, <3>3, StepTypes, EndTypes, DeliveryTypes DEF ReadRecord
  <2> QED
    BY <2>1, DeliveryTypes DEF DeliveryInv, EngineTypes, ReadRecord
<1>5. Routed'
  BY <1>1, DeliveryTypes DEF DeliveryInv, Routed, ChannelPc, CallbackPc, WaitPc, Answerless, Gone, Msg, Went,
       Others, Ended, RowSame
<1>6. Cut'
  BY <1>1, DeliveryTypes DEF DeliveryInv, Cut, ReadPc, CuttingPc, Went, Others, Ended, RowSame
<1>7. Sole'
  BY <1>1, DeliveryTypes DEF DeliveryInv, Sole, OneDriverPerRecord, Sending, Msg, Went, Others, Ended, RowSame
<1>8. Counted'
  BY <1>1, DeliveryTypes DEF DeliveryInv, Counted, CountedPc, Sending, Msg, Went, Others, Ended, RowSame
<1>9. Unsent'
  BY <1>1, DeliveryTypes DEF DeliveryInv, Unsent, Gone, Went, Others, Ended, RowSame
<1>10. Ledgered'
  BY <1>1, DeliveryTypes DEF DeliveryInv, Ledgered, ReadPc, Sending, Msg, Chars, Went, Others, Ended, RowSame
<1>11. NothingDropped'
  BY <1>1, DeliveryTypes DEF DeliveryInv, NothingDropped, Msg, Went, Others, Ended, RowSame
<1>12. AttemptsBounded'
  BY <1>1, DeliveryTypes DEF DeliveryInv, AttemptsBounded, Msg, Went, Others, Ended, RowSame
<1>13. WaitSettled'
  BY <1>1, DeliveryTypes DEF DeliveryInv, WaitSettled, Msg, Went, Others, Ended, RowSame
<1> QED BY <1>2, <1>3, <1>4, <1>5, <1>6, <1>7, <1>8, <1>9, <1>10, <1>11, <1>12, <1>13 DEF DeliveryInv

\* The attempt is counted in the record and in the run.
LEMMA BumpInv ==
    ASSUME DeliveryInv, NEW d \in Drivers, Bump(d)
    PROVE  DeliveryInv' /\ [UnboundedNext]_storeVars
<1>0. Msg(d) \in Messages /\ status[Msg(d)] \notin Answerless /\ drv[d].tok \in Tokens
  BY DEF DeliveryInv, Routed, Bump, At
<1>1. /\ RowBumped(Msg(d)) /\ drv'[d].n = attempts[Msg(d)] + 1
      /\ UNCHANGED <<ledger, taken, refusals, posts, waited, waitAnswered, overtaken>>
      /\ \/ drv[d].pc = "bump" /\ Went(d, "ledger")
         \/ drv[d].pc = "bumpFail" /\ Went(d, "fail")
         \/ drv[d].pc = "apiBump" /\ Went(d, "post")
         \/ drv[d].pc = "waitBump" /\ Went(d, "waitMark")
  BY <1>0, DeliveryTypes DEF DeliveryInv, EngineTypes, Bump, Msg, RowBumped, RowsBut, BumpAttempt, Went, Others
<1>2. [UnboundedNext]_storeVars
  BY <1>0, DeliveryTypes DEF Bump, UnboundedNext, Answerless
<1>3. StoreInv'
  BY <1>2, UnboundedStep DEF DeliveryInv
<1>4. EngineTypes'
  <2>1. drv' \in [Drivers -> Driver]
    <3>1. drv[d] \in Driver /\ attempts[Msg(d)] + 1 \in Nat
      BY <1>0, DeliveryTypes DEF DeliveryInv, EngineTypes
    <3>2. PICK l \in Sending : drv' = [drv EXCEPT ![d].n = attempts[Msg(d)] + 1, ![d].pc = l]
      BY DEF Bump, Sending
    <3> QED BY <3>1, <3>2, DeliveryTypes DEF Driver
  <2> QED
    BY <2>1, <1>0, DeliveryTypes DEF DeliveryInv, EngineTypes, Bump
<1>5. Routed'
  BY <1>0, <1>1, DeliveryTypes DEF DeliveryInv, Routed, ChannelPc, CallbackPc, WaitPc, Answerless, Gone, Msg,
       Went, Others, RowBumped, RowsBut
<1>6. Cut'
  BY <1>0, <1>1, DeliveryTypes DEF DeliveryInv, Cut, ReadPc, CuttingPc, Went, Others, RowBumped, RowsBut
<1>7. Sole'
  BY <1>0, <1>1, DeliveryTypes DEF DeliveryInv, Sole, OneDriverPerRecord, Sending, Msg, Went, Others,
       RowBumped, RowsBut
<1>8. Counted'
  BY <1>0, <1>1, DeliveryTypes DEF DeliveryInv, Counted, CountedPc, Sending, Msg, Went, Others, RowBumped,
       RowsBut, Sole, OneDriverPerRecord, AttemptsBounded
<1>9. Unsent'
  BY <1>0, <1>1, DeliveryTypes DEF DeliveryInv, Unsent, Gone, Went, Others, RowBumped, RowsBut
<1>10. Ledgered'
  BY <1>0, <1>1, DeliveryTypes DEF DeliveryInv, Ledgered, ReadPc, Sending, Msg, Chars, Went, Others,
       RowBumped, RowsBut
<1>11. NothingDropped'
  BY <1>0, <1>1, DeliveryTypes DEF DeliveryInv, NothingDropped, Msg, Went, Others, RowBumped, RowsBut
<1>12. AttemptsBounded'
  BY <1>0, <1>1, DeliveryTypes DEF DeliveryInv, AttemptsBounded, Msg, Went, Others, RowBumped, RowsBut,
       Counted, Sending, Routed, WaitPc
<1>13. WaitSettled'
  BY <1>0, <1>1, DeliveryTypes DEF DeliveryInv, WaitSettled, Msg, Went, Others, RowBumped, RowsBut
<1> QED BY <1>2, <1>3, <1>4, <1>5, <1>6, <1>7, <1>8, <1>9, <1>10, <1>11, <1>12, <1>13 DEF DeliveryInv

\* A run that gives up fails the record.
LEMMA FailInv ==
    ASSUME DeliveryInv, NEW d \in Drivers, Fail(d)
    PROVE  DeliveryInv' /\ [UnboundedNext]_storeVars
<1>0. Msg(d) \in Messages /\ status[Msg(d)] \notin Answerless /\ drv[d].tok \in Tokens
  BY DEF DeliveryInv, Routed, Fail, At
<1>1. /\ drv[d].pc = "fail" /\ UNCHANGED <<ledger, taken, refusals, posts, waited, waitAnswered, overtaken>>
      /\ \/ RowSame /\ Ended(d)
         \/ RowMoved(Msg(d), "failed", drv[d].n) /\ (Ended(d) \/ Went(d, "clear"))
  <2>1. CASE MarkFailedReply(Msg(d), drv[d].tok) = 1
    <3>1. RowMoved(Msg(d), "failed", drv[d].n)
      <4>1. status[Msg(d)] \in {"pending_delivery", "provisional"}
        BY <1>0, <2>1, DeliveryTypes DEF MarkFailedReply, Answerless, Statuses, Live, Terminal, Gone
      <4> QED BY <1>0, <2>1, <4>1, DeliveryTypes DEF Fail, MarkFailed, Settle, RowMoved, RowsBut
    <3> QED BY <2>1, <3>1, StepGoes, EndGoes, DeliveryTypes DEF Fail, At
  <2>2. CASE MarkFailedReply(Msg(d), drv[d].tok) # 1
    BY <2>2, EndGoes, DeliveryTypes DEF Fail, At, MarkFailed, RowSame, storeVars
  <2> QED BY <2>1, <2>2
<1>2. [UnboundedNext]_storeVars
  BY <1>0, DeliveryTypes DEF Fail, UnboundedNext, Answerless
<1>3. StoreInv'
  BY <1>2, UnboundedStep DEF DeliveryInv
<1>4. EngineTypes'
  <2>1. drv' \in [Drivers -> Driver]
    BY DeliveryTypes, StepTypes, EndTypes DEF Sending, Fail
  <2> QED
    BY <2>1, <1>0, DeliveryTypes DEF DeliveryInv, EngineTypes, Fail
<1>5. Routed'
  BY <1>0, <1>1, DeliveryTypes DEF DeliveryInv, Routed, ChannelPc, CallbackPc, WaitPc, Answerless, Gone, Msg,
       Went, Others, Ended, RowSame, RowMoved, RowsBut
<1>6. Cut'
  BY <1>0, <1>1, DeliveryTypes DEF DeliveryInv, Cut, ReadPc, CuttingPc, Went, Others, Ended, RowSame,
       RowMoved, RowsBut
<1>7. Sole'
  BY <1>0, <1>1, DeliveryTypes DEF DeliveryInv, Sole, OneDriverPerRecord, Sending, Msg, Went, Others, Ended,
       RowSame, RowMoved, RowsBut
<1>8. Counted'
  BY <1>0, <1>1, DeliveryTypes DEF DeliveryInv, Counted, CountedPc, Sending, Msg, Went, Others, Ended,
       RowSame, RowMoved, RowsBut
<1>9. Unsent'
  BY <1>0, <1>1, DeliveryTypes DEF DeliveryInv, Unsent, Gone, Went, Others, Ended, RowSame, RowMoved, RowsBut
<1>10. Ledgered'
  BY <1>0, <1>1, DeliveryTypes DEF DeliveryInv, Ledgered, ReadPc, Sending, Msg, Chars, Went, Others, Ended,
       RowSame, RowMoved, RowsBut
<1>11. NothingDropped'
  BY <1>0, <1>1, DeliveryTypes DEF DeliveryInv, NothingDropped, Msg, Went, Others, Ended, RowSame, RowMoved,
       RowsBut
<1>12. AttemptsBounded'
  BY <1>0, <1>1, DeliveryTypes DEF DeliveryInv, AttemptsBounded, Msg, Went, Others, Ended, RowSame, RowMoved,
       RowsBut, Counted, CountedPc, Sending
<1>13. WaitSettled'
  BY <1>0, <1>1, DeliveryTypes DEF DeliveryInv, WaitSettled, Msg, Went, Others, Ended, RowSame, RowMoved,
       RowsBut
<1> QED BY <1>2, <1>3, <1>4, <1>5, <1>6, <1>7, <1>8, <1>9, <1>10, <1>11, <1>12, <1>13 DEF DeliveryInv

\* A run resumes where the ledger ends.
LEMMA ReadLedgerInv ==
    ASSUME DeliveryInv, NEW d \in Drivers, ReadLedger(d)
    PROVE  DeliveryInv' /\ [UnboundedNext]_storeVars
<1>0. Msg(d) \in Messages /\ status[Msg(d)] \notin Answerless /\ drv[d].tok \in Tokens
  BY DEF DeliveryInv, Routed, ReadLedger, At
<1>1. /\ drv[d].pc = "ledger" /\ RowSame
      /\ UNCHANGED <<ledger, taken, refusals, posts, waited, waitAnswered, overtaken>>
      /\ drv'[d].n = drv[d].n /\ drv'[d].cap \in MaxCharsSet
      /\ \/ Went(d, "fail")
         \/ Went(d, "refuse")
         \/ ledger[Msg(d)] <= AnswerLen /\ Went(d, "reindex") /\ drv'[d].pos = ledger[Msg(d)]
         \/ ledger[Msg(d)] = 0 /\ Went(d, "loop") /\ drv'[d].pos = 0
  <2>1. PICK k \in MaxCharsSet :
           drv' = [drv EXCEPT ![d].pos = Min2(ledger[Msg(d)], AnswerLen), ![d].cap = k,
                              ![d].clr = ledger[Msg(d)] > AnswerLen, ![d].pc = AfterLedger(ledger[Msg(d)], k)]
    BY DEF ReadLedger
  <2>2. drv[d] \in Driver
    BY DeliveryTypes
  <2>3. /\ Went(d, AfterLedger(ledger[Msg(d)], k)) /\ drv'[d].n = drv[d].n /\ drv'[d].cap = k
        /\ drv'[d].pos = Min2(ledger[Msg(d)], AnswerLen)
    <3>1. Others(d)
      BY <2>1, DeliveryTypes DEF Others
    <3>2. drv'[d] = [drv[d] EXCEPT !.pos = Min2(ledger[Msg(d)], AnswerLen), !.cap = k,
                                   !.clr = ledger[Msg(d)] > AnswerLen, !.pc = AfterLedger(ledger[Msg(d)], k)]
      BY <2>1, DeliveryTypes
    <3> QED BY <2>2, <3>1, <3>2 DEF Driver, Went
  <2>4. ledger[Msg(d)] \in Nat
    BY <1>0, DeliveryTypes
  <2>5. \/ AfterLedger(ledger[Msg(d)], k) \in {"fail", "refuse"}
        \/ AfterLedger(ledger[Msg(d)], k) = "reindex" /\ ledger[Msg(d)] <= AnswerLen
        \/ AfterLedger(ledger[Msg(d)], k) = "loop" /\ ledger[Msg(d)] = 0
    BY <2>4, DeliveryTypes DEF AfterLedger, LoopPc
  <2>6. ledger[Msg(d)] <= AnswerLen => drv'[d].pos = ledger[Msg(d)]
    BY <2>3, <2>4 DEF Min2
  <2> HIDE DEF AfterLedger
  <2> QED BY <2>3, <2>4, <2>5, <2>6, DeliveryTypes DEF ReadLedger, At, RowSame, storeVars, Went
<1>2. [UnboundedNext]_storeVars
  BY <1>0, DeliveryTypes DEF ReadLedger, UnboundedNext, Answerless
<1>3. StoreInv'
  BY <1>2, UnboundedStep DEF DeliveryInv
<1>4. EngineTypes'
  <2>1. drv' \in [Drivers -> Driver]
    <3>1. drv[d] \in Driver /\ Min2(ledger[Msg(d)], AnswerLen) \in 0..AnswerLen
      BY <1>0, DeliveryTypes DEF DeliveryInv, EngineTypes, Min2
    <3>2. PICK k \in MaxCharsSet :
             drv' = [drv EXCEPT ![d].pos = Min2(ledger[Msg(d)], AnswerLen), ![d].cap = k,
                                ![d].clr = ledger[Msg(d)] > AnswerLen,
                                ![d].pc = AfterLedger(ledger[Msg(d)], k)]
      BY DEF ReadLedger
    <3>3. AfterLedger(ledger[Msg(d)], k) \in Sending
      <4>1. LoopPc(0) \in Sending /\ "fail" \in Sending /\ "reindex" \in Sending /\ "refuse" \in Sending
        BY DEF LoopPc, Sending
      <4> QED BY <4>1 DEF AfterLedger
    <3>4. (ledger[Msg(d)] > AnswerLen) \in BOOLEAN
      OBVIOUS
    <3>5. ASSUME NEW p \in 0..AnswerLen, NEW l \in Sending, NEW b \in BOOLEAN,
                 drv' = [drv EXCEPT ![d].pos = p, ![d].cap = k, ![d].clr = b, ![d].pc = l]
          PROVE  drv' \in [Drivers -> Driver]
      BY <3>1, <3>5, DeliveryTypes DEF Driver
    <3> HIDE DEF AfterLedger
    <3> QED BY <3>1, <3>2, <3>3, <3>4, <3>5
  <2> QED
    BY <2>1, <1>0, DeliveryTypes DEF DeliveryInv, EngineTypes, ReadLedger
<1>5. Routed'
  BY <1>0, <1>1, DeliveryTypes DEF DeliveryInv, Routed, ChannelPc, CallbackPc, WaitPc, Answerless, Gone, Msg,
       Went, Others, RowSame
<1>6. Cut'
  BY <1>0, <1>1, DeliveryTypes DEF DeliveryInv, Cut, ReadPc, CuttingPc, Went, Others, RowSame
<1>7. Sole'
  BY <1>0, <1>1, DeliveryTypes DEF DeliveryInv, Sole, OneDriverPerRecord, Sending, Msg, Went, Others, RowSame
<1>8. Counted'
  BY <1>0, <1>1, DeliveryTypes DEF DeliveryInv, Counted, CountedPc, Sending, Msg, Went, Others, RowSame
<1>9. Unsent'
  BY <1>0, <1>1, DeliveryTypes DEF DeliveryInv, Unsent, Gone, Went, Others, RowSame
<1>10. Ledgered'
  BY <1>0, <1>1, DeliveryTypes DEF DeliveryInv, Ledgered, ReadPc, Sending, Msg, Chars, Went, Others, RowSame
<1>11. NothingDropped'
  BY <1>0, <1>1, DeliveryTypes DEF DeliveryInv, NothingDropped, Msg, Went, Others, RowSame
<1>12. AttemptsBounded'
  BY <1>0, <1>1, DeliveryTypes DEF DeliveryInv, AttemptsBounded, Msg, Went, Others, RowSame
<1>13. WaitSettled'
  BY <1>0, <1>1, DeliveryTypes DEF DeliveryInv, WaitSettled, Msg, Went, Others, RowSame
<1> QED BY <1>2, <1>3, <1>4, <1>5, <1>6, <1>7, <1>8, <1>9, <1>10, <1>11, <1>12, <1>13 DEF DeliveryInv

\* An oversized answer is refused once per attempt.
LEMMA RefuseOversizedInv ==
    ASSUME DeliveryInv, NEW d \in Drivers, RefuseOversized(d)
    PROVE  DeliveryInv' /\ [UnboundedNext]_storeVars
<1>0. Msg(d) \in Messages /\ status[Msg(d)] \notin Answerless /\ drv[d].tok \in Tokens
  BY DEF DeliveryInv, Routed, RefuseOversized, At
<1>1. /\ drv[d].pc = "refuse" /\ Went(d, "fail") /\ Kept(d) /\ RowSame
      /\ UNCHANGED <<ledger, taken, posts, waited, waitAnswered, overtaken>>
      /\ refusals'[Msg(d)] = refusals[Msg(d)] + 1
      /\ (\A k \in Messages : k # Msg(d) => refusals'[k] = refusals[k])
  BY <1>0, DeliveryTypes DEF DeliveryInv, EngineTypes, RefuseOversized, Msg, At, Step, Went, Kept, Others,
       RowSame, storeVars
<1>2. [UnboundedNext]_storeVars
  BY <1>0, DeliveryTypes DEF RefuseOversized, UnboundedNext, Answerless
<1>3. StoreInv'
  BY <1>2, UnboundedStep DEF DeliveryInv
<1>4. EngineTypes'
  <2>1. drv' \in [Drivers -> Driver]
    BY DeliveryTypes, StepTypes, EndTypes DEF Sending, RefuseOversized
  <2> QED
    BY <2>1, <1>0, DeliveryTypes DEF DeliveryInv, EngineTypes, RefuseOversized
<1>5. Routed'
  BY <1>0, <1>1, DeliveryTypes DEF DeliveryInv, Routed, ChannelPc, CallbackPc, WaitPc, Answerless, Gone, Msg,
       Went, Others, Kept, RowSame
<1>6. Cut'
  BY <1>0, <1>1, DeliveryTypes DEF DeliveryInv, Cut, ReadPc, CuttingPc, Went, Others, Kept, RowSame
<1>7. Sole'
  BY <1>0, <1>1, DeliveryTypes DEF DeliveryInv, Sole, OneDriverPerRecord, Sending, Msg, Went, Others, Kept,
       RowSame
<1>8. Counted'
  BY <1>0, <1>1, DeliveryTypes DEF DeliveryInv, Counted, CountedPc, Sending, Msg, Went, Others, Kept, RowSame,
       Sole, OneDriverPerRecord
<1>9. Unsent'
  BY <1>0, <1>1, DeliveryTypes DEF DeliveryInv, Unsent, Gone, Went, Others, Kept, RowSame
<1>10. Ledgered'
  BY <1>0, <1>1, DeliveryTypes DEF DeliveryInv, Ledgered, ReadPc, Sending, Msg, Chars, Went, Others, Kept,
       RowSame
<1>11. NothingDropped'
  BY <1>0, <1>1, DeliveryTypes DEF DeliveryInv, NothingDropped, Msg, Went, Others, Kept, RowSame
<1>12. AttemptsBounded'
  BY <1>0, <1>1, DeliveryTypes DEF DeliveryInv, AttemptsBounded, Msg, Went, Others, Kept, RowSame, Counted,
       Sending
<1>13. WaitSettled'
  BY <1>0, <1>1, DeliveryTypes DEF DeliveryInv, WaitSettled, Msg, Went, Others, Kept, RowSame
<1> QED BY <1>2, <1>3, <1>4, <1>5, <1>6, <1>7, <1>8, <1>9, <1>10, <1>11, <1>12, <1>13 DEF DeliveryInv

\* Indexing a chunk's outbound id moves the run on.
LEMMA IndexOutboundInv ==
    ASSUME DeliveryInv, NEW d \in Drivers, IndexOutbound(d)
    PROVE  DeliveryInv' /\ [UnboundedNext]_storeVars
<1>0. Msg(d) \in Messages /\ status[Msg(d)] \notin Answerless /\ drv[d].tok \in Tokens
  BY DEF DeliveryInv, Routed, IndexOutbound, At
<1>1. /\ drv[d].pc \in {"reindex", "index"} /\ Kept(d) /\ RowSame
      /\ UNCHANGED <<ledger, taken, refusals, posts, waited, waitAnswered, overtaken>>
      /\ \/ drv[d].pos < AnswerLen /\ Went(d, "loop")
         \/ drv[d].pos = AnswerLen /\ Went(d, "provisional")
  <2>1. \/ drv[d].pos < AnswerLen /\ LoopPc(drv[d].pos) = "loop"
        \/ drv[d].pos = AnswerLen /\ LoopPc(drv[d].pos) = "provisional"
    BY DeliveryTypes DEF LoopPc
  <2>2. Went(d, LoopPc(drv[d].pos)) /\ Kept(d)
    BY DeliveryTypes, StepGoes DEF IndexOutbound
  <2> QED BY <2>1, <2>2 DEF IndexOutbound, RowSame, storeVars
<1>2. [UnboundedNext]_storeVars
  BY <1>0, DeliveryTypes DEF IndexOutbound, UnboundedNext, Answerless
<1>3. StoreInv'
  BY <1>2, UnboundedStep DEF DeliveryInv
<1>4. EngineTypes'
  <2>1. drv' \in [Drivers -> Driver]
    BY DeliveryTypes, StepTypes, EndTypes DEF Sending, IndexOutbound, LoopPc
  <2> QED
    BY <2>1, <1>0, DeliveryTypes DEF DeliveryInv, EngineTypes, IndexOutbound
<1>5. Routed'
  BY <1>0, <1>1, DeliveryTypes DEF DeliveryInv, Routed, ChannelPc, CallbackPc, WaitPc, Answerless, Gone, Msg,
       Went, Others, Kept, RowSame
<1>6. Cut'
  BY <1>0, <1>1, DeliveryTypes DEF DeliveryInv, Cut, ReadPc, CuttingPc, Went, Others, Kept, RowSame
<1>7. Sole'
  BY <1>0, <1>1, DeliveryTypes DEF DeliveryInv, Sole, OneDriverPerRecord, Sending, Msg, Went, Others, Kept,
       RowSame
<1>8. Counted'
  BY <1>0, <1>1, DeliveryTypes DEF DeliveryInv, Counted, CountedPc, Sending, Msg, Went, Others, Kept, RowSame
<1>9. Unsent'
  BY <1>0, <1>1, DeliveryTypes DEF DeliveryInv, Unsent, Gone, Went, Others, Kept, RowSame
<1>10. Ledgered'
  BY <1>0, <1>1, DeliveryTypes DEF DeliveryInv, Ledgered, ReadPc, Sending, Msg, Chars, Went, Others, Kept,
       RowSame
<1>11. NothingDropped'
  BY <1>0, <1>1, DeliveryTypes DEF DeliveryInv, NothingDropped, Msg, Went, Others, Kept, RowSame
<1>12. AttemptsBounded'
  BY <1>0, <1>1, DeliveryTypes DEF DeliveryInv, AttemptsBounded, Msg, Went, Others, Kept, RowSame
<1>13. WaitSettled'
  BY <1>0, <1>1, DeliveryTypes DEF DeliveryInv, WaitSettled, Msg, Went, Others, Kept, RowSame
<1> QED BY <1>2, <1>3, <1>4, <1>5, <1>6, <1>7, <1>8, <1>9, <1>10, <1>11, <1>12, <1>13 DEF DeliveryInv

\* The lease is refreshed before each chunk.
LEMMA RefreshLeaseInv ==
    ASSUME DeliveryInv, NEW d \in Drivers, RefreshLease(d)
    PROVE  DeliveryInv' /\ [UnboundedNext]_storeVars
<1>0. Msg(d) \in Messages /\ status[Msg(d)] \notin Answerless /\ drv[d].tok \in Tokens
  BY DEF DeliveryInv, Routed, RefreshLease, At
<1>1. /\ drv[d].pc = "loop" /\ UNCHANGED <<ledger, taken, refusals, posts, waited, waitAnswered, overtaken>>
      /\ \/ RowSame /\ Ended(d)
         \/ /\ RowHeld(Msg(d), drv[d].tok) /\ drv'[d].n = drv[d].n /\ drv'[d].cap = drv[d].cap /\ drv'[d].pos = drv[d].pos
            /\ drv'[d].cut \in Nat /\ drv[d].pos < drv'[d].cut /\ drv'[d].cut <= AnswerLen
            /\ \/ Went(d, "notify")
               \/ Went(d, "append") /\ Blank(drv[d].pos, drv'[d].cut)
  <2>1. drv[d] \in Driver /\ drv[d].pos < NextCut(d) /\ NextCut(d) \in Nat /\ NextCut(d) <= AnswerLen
    BY DeliveryTypes, CutFacts DEF DeliveryInv, Cut, CuttingPc, ReadPc, NextCut, RefreshLease, At
  <2>2. ASSUME NEW l, drv' = [drv EXCEPT ![d].cut = NextCut(d), ![d].pc = l]
        PROVE  Went(d, l) /\ drv'[d].n = drv[d].n /\ drv'[d].cap = drv[d].cap /\ drv'[d].pos = drv[d].pos
               /\ drv'[d].cut = NextCut(d)
    <3>1. drv'[d] = [drv[d] EXCEPT !.cut = NextCut(d), !.pc = l]
      BY <2>2, DeliveryTypes
    <3>2. Others(d)
      BY <2>2, DeliveryTypes DEF Others
    <3> QED BY <2>1, <3>1, <3>2 DEF Driver, Went
  <2>3. CASE ClaimDeliveryReply(Msg(d), drv[d].tok) = 1
    <3>1. RowHeld(Msg(d), drv[d].tok)
      BY <1>0, <2>3, DeliveryTypes
         DEF RefreshLease, RowHeld, RowsBut, ClaimDelivery, ClaimDeliveryReply, ForeignLease, Gone, Answerless
    <3>2. PICK l \in {"notify", "append"} :
             /\ drv' = [drv EXCEPT ![d].cut = NextCut(d), ![d].pc = l]
             /\ l = "append" => Blank(drv[d].pos, NextCut(d))
      BY <2>3 DEF RefreshLease
    <3> QED BY <2>1, <2>2, <3>1, <3>2 DEF RefreshLease, At
  <2>4. CASE ClaimDeliveryReply(Msg(d), drv[d].tok) # 1
    BY <2>4, EndGoes, DeliveryTypes DEF RefreshLease, At, ClaimDelivery, RowSame, storeVars
  <2> QED BY <2>3, <2>4
<1>2. [UnboundedNext]_storeVars
  BY <1>0, DeliveryTypes DEF RefreshLease, UnboundedNext, Answerless
<1>3. StoreInv'
  BY <1>2, UnboundedStep DEF DeliveryInv
<1>4. EngineTypes'
  <2>1. drv' \in [Drivers -> Driver]
    <3>1. drv[d] \in Driver /\ NextCut(d) \in 0..AnswerLen
      BY <1>0, DeliveryTypes, CutFacts DEF DeliveryInv, EngineTypes, NextCut, Cut, CuttingPc, ReadPc, RefreshLease, At
    <3>2. CASE End(d)
      BY <3>2, DeliveryTypes, EndTypes
    <3>3. ASSUME NEW l \in Sending, drv' = [drv EXCEPT ![d].cut = NextCut(d), ![d].pc = l]
          PROVE  drv' \in [Drivers -> Driver]
      BY <3>1, <3>3, DeliveryTypes DEF Driver
    <3>4. "append" \in Sending /\ "notify" \in Sending
      BY DEF Sending
    <3> QED BY <3>2, <3>3, <3>4 DEF RefreshLease
  <2> QED
    BY <2>1, <1>0, DeliveryTypes DEF DeliveryInv, EngineTypes, RefreshLease
<1>5. Routed'
  BY <1>0, <1>1, DeliveryTypes DEF DeliveryInv, Routed, ChannelPc, CallbackPc, WaitPc, Answerless, Gone, Msg,
       Went, Others, Ended, RowSame, RowHeld, RowsBut, Blank
<1>6. Cut'
  BY <1>0, <1>1, DeliveryTypes DEF DeliveryInv, Cut, ReadPc, CuttingPc, Went, Others, Ended, RowSame, RowHeld,
       RowsBut, Blank
<1>7. Sole'
  BY <1>0, <1>1, DeliveryTypes DEF DeliveryInv, Sole, OneDriverPerRecord, Sending, Msg, Went, Others, Ended,
       RowSame, RowHeld, RowsBut, Blank
<1>8. Counted'
  BY <1>0, <1>1, DeliveryTypes DEF DeliveryInv, Counted, CountedPc, Sending, Msg, Went, Others, Ended,
       RowSame, RowHeld, RowsBut, Blank
<1>9. Unsent'
  BY <1>0, <1>1, DeliveryTypes DEF DeliveryInv, Unsent, Gone, Went, Others, Ended, RowSame, RowHeld, RowsBut,
       Blank
<1>10. Ledgered'
  BY <1>0, <1>1, DeliveryTypes DEF DeliveryInv, Ledgered, ReadPc, Sending, Msg, Chars, Went, Others, Ended,
       RowSame, RowHeld, RowsBut, Blank
<1>11. NothingDropped'
  BY <1>0, <1>1, DeliveryTypes DEF DeliveryInv, NothingDropped, Msg, Went, Others, Ended, RowSame, RowHeld,
       RowsBut, Blank
<1>12. AttemptsBounded'
  BY <1>0, <1>1, DeliveryTypes DEF DeliveryInv, AttemptsBounded, Msg, Went, Others, Ended, RowSame, RowHeld,
       RowsBut, Blank
<1>13. WaitSettled'
  BY <1>0, <1>1, DeliveryTypes DEF DeliveryInv, WaitSettled, Msg, Went, Others, Ended, RowSame, RowHeld,
       RowsBut, Blank
<1> QED BY <1>2, <1>3, <1>4, <1>5, <1>6, <1>7, <1>8, <1>9, <1>10, <1>11, <1>12, <1>13 DEF DeliveryInv

\* The provider takes a chunk, or not, and says so, or not.
LEMMA NotifyInv ==
    ASSUME DeliveryInv, NEW d \in Drivers, Notify(d)
    PROVE  DeliveryInv' /\ [UnboundedNext]_storeVars
<1>0. Msg(d) \in Messages /\ status[Msg(d)] \notin Answerless /\ drv[d].tok \in Tokens
  BY DEF DeliveryInv, Routed, Notify, At
<1>1. /\ drv[d].pc = "notify" /\ RowSame /\ (Kept(d) \/ Ended(d))
      /\ UNCHANGED <<ledger, refusals, posts, waited, waitAnswered, overtaken>> /\ taken' \in [Messages -> [Chars -> Nat]]
      /\ (\A k \in Messages, c \in Chars : taken'[k][c] >= taken[k][c])
     
      /\ (\A k \in Messages, c \in Chars : k # Msg(d) \/ c \notin (drv[d].pos + 1)..drv[d].cut => taken'[k][c] = taken[k][c])
      /\ \/ Went(d, "append") /\ (\A c \in Chars : c \in (drv[d].pos + 1)..drv[d].cut => taken'[Msg(d)][c] > 0)
         \/ Ended(d)
         \/ Went(d, "fail")
  <2>1. CASE UNCHANGED taken /\ drv' = [drv EXCEPT ![d].pc = "fail", ![d].clr = TRUE]
    <3>1. drv[d] \in Driver /\ drv'[d] = [drv[d] EXCEPT !.pc = "fail", !.clr = TRUE]
      BY <2>1, DeliveryTypes
    <3>2. Others(d)
      BY <2>1, DeliveryTypes DEF Others
    <3>3. Went(d, "fail") /\ Kept(d)
      BY <3>1, <3>2 DEF Driver, Went, Kept
    <3> QED BY <2>1, <3>3, DeliveryTypes DEF DeliveryInv, EngineTypes, Notify, At, RowSame, storeVars
  <2>2. CASE UNCHANGED taken /\ End(d)
    BY <2>2, EndGoes, DeliveryTypes DEF DeliveryInv, EngineTypes, Notify, At, RowSame, storeVars
  <2>3. CASE ProviderTakes(d) /\ (Step(d, "append") \/ End(d))
    <3>1. taken \in [Messages -> [Chars -> Nat]]
      BY DEF DeliveryInv, EngineTypes
    <3>2. /\ \A k \in Messages : k # Msg(d) => taken'[k] = taken[k]
          /\ taken'[Msg(d)] = [c \in Chars |-> IF c \in (drv[d].pos + 1)..drv[d].cut THEN taken[Msg(d)][c] + 1
                                                                                   ELSE taken[Msg(d)][c]]
          /\ taken' = [taken EXCEPT ![Msg(d)] = taken'[Msg(d)]]
      BY <1>0, <2>3, <3>1 DEF ProviderTakes
    <3>3. taken'[Msg(d)] \in [Chars -> Nat] /\ taken[Msg(d)] \in [Chars -> Nat]
      BY <1>0, <3>1, <3>2
    <3>4. taken' \in [Messages -> [Chars -> Nat]]
      BY <1>0, <3>1, <3>2, <3>3
    <3>5. \A k \in Messages, c \in Chars : taken'[k][c] >= taken[k][c]
      BY <1>0, <3>2, DeliveryTypes
    <3>6. \A k \in Messages, c \in Chars :
             k # Msg(d) \/ c \notin (drv[d].pos + 1)..drv[d].cut => taken'[k][c] = taken[k][c]
      BY <1>0, <3>2
    <3>7. \A c \in Chars : c \in (drv[d].pos + 1)..drv[d].cut => taken'[Msg(d)][c] > 0
      BY <1>0, <3>2, DeliveryTypes
    <3> QED BY <2>3, <3>4, <3>5, <3>6, <3>7, StepGoes, EndGoes, DeliveryTypes DEF Notify, At, RowSame, storeVars
  <2> QED BY <2>1, <2>2, <2>3 DEF Notify
<1>2. [UnboundedNext]_storeVars
  BY <1>0, DeliveryTypes DEF Notify, UnboundedNext, Answerless
<1>3. StoreInv'
  BY <1>2, UnboundedStep DEF DeliveryInv
<1>4. EngineTypes'
  <2>1. drv' \in [Drivers -> Driver]
    <3>1. drv[d] \in Driver
      BY DeliveryTypes
    <3>2. CASE drv' = [drv EXCEPT ![d].pc = "fail", ![d].clr = TRUE]
      <4>1. ASSUME NEW x \in Driver PROVE [x EXCEPT !.pc = "fail", !.clr = TRUE] \in Driver
        BY DEF Driver, Sending
      <4>2. drv' = [drv EXCEPT ![d] = [drv[d] EXCEPT !.pc = "fail", !.clr = TRUE]]
        BY <3>2
      <4> QED BY <3>1, <4>1, <4>2, DeliveryTypes
    <3>3. CASE Step(d, "append") \/ End(d)
      BY <3>3, DeliveryTypes, StepTypes, EndTypes DEF Sending
    <3> QED BY <3>2, <3>3 DEF Notify
  <2> QED
    <3>1. taken' \in [Messages -> [Chars -> Nat]]
      <4>1. CASE UNCHANGED taken
        BY <4>1 DEF DeliveryInv, EngineTypes
      <4>2. CASE ProviderTakes(d)
        <5>1. taken \in [Messages -> [Chars -> Nat]]
          BY DEF DeliveryInv, EngineTypes
        <5>2. [c \in Chars |-> IF c \in (drv[d].pos + 1)..drv[d].cut THEN taken[Msg(d)][c] + 1 ELSE taken[Msg(d)][c]]
                 \in [Chars -> Nat]
          BY <1>0, <5>1
        <5> QED BY <1>0, <4>2, <5>1, <5>2 DEF ProviderTakes
      <4> QED BY <4>1, <4>2 DEF Notify
    <3> QED BY <2>1, <3>1 DEF DeliveryInv, EngineTypes, Notify
<1>5. Routed'
  BY <1>0, <1>1, DeliveryTypes DEF DeliveryInv, Routed, ChannelPc, CallbackPc, WaitPc, Answerless, Gone, Msg,
       Went, Others, Kept, Ended, RowSame
<1>6. Cut'
  BY <1>0, <1>1, DeliveryTypes DEF DeliveryInv, Cut, ReadPc, CuttingPc, Went, Others, Kept, Ended, RowSame
<1>7. Sole'
  <2>1. (drv[d].pc \in Sending /\ drv'[d].msg = Msg(d) /\ drv'[d].tok = drv[d].tok) \/ drv'[d].pc = "idle"
    BY <1>1 DEF Sending, Msg, Went, Ended
  <2>2. \A e \in Drivers : e # d => drv'[e] = drv[e]
    BY <1>1 DEF Went, Ended, Others
  <2>3. "idle" \notin Sending /\ UNCHANGED <<claim, overtaken>>
    BY <1>1 DEF Sending, RowSame
  <2> QED BY <2>1, <2>2, <2>3 DEF DeliveryInv, Sole, OneDriverPerRecord, Msg
<1>8. Counted'
  <2>1. \/ drv'[d].pc = "idle"
        \/ /\ drv'[d].pc \in {"append", "fail"} /\ drv'[d].msg = Msg(d) /\ drv'[d].n = drv[d].n
    BY <1>1 DEF Msg, Went, Ended, Kept
  <2>2. \A e \in Drivers : e # d => drv'[e] = drv[e]
    BY <1>1 DEF Went, Ended, Others
  <2>3. UNCHANGED <<attempts, refusals, posts, overtaken>> /\ drv[d].pc = "notify"
    BY <1>1 DEF RowSame
  <2> QED BY <2>1, <2>2, <2>3 DEF DeliveryInv, Counted, CountedPc, Sending, Msg
<1>9. Unsent'
  BY <1>0, <1>1, DeliveryTypes DEF DeliveryInv, Unsent, Gone, Went, Others, Kept, Ended, RowSame
<1>10. Ledgered'
  <2>1. Msg(d) \notin overtaken => \A e \in Drivers : e # d /\ drv[e].pc \in Sending => Msg(e) # Msg(d)
    BY <1>1, SoleFacts DEF Sending
  <2>2. /\ drv[d].pc \in ReadPc /\ "append" \in ReadPc /\ "fail" \notin ReadPc /\ "idle" \notin ReadPc
        /\ ReadPc \subseteq Sending
    BY <1>1 DEF ReadPc, Sending
  <2>3. ASSUME NEW m \in Messages \ overtaken'
        PROVE  ledger'[m] <= AnswerLen /\ \A c \in Chars \ BlankChars : c <= ledger'[m] => taken'[m][c] > 0
    <3>1. \A c \in Chars : taken'[m][c] \in Nat /\ taken[m][c] \in Nat /\ taken'[m][c] >= taken[m][c]
      BY <1>1, DeliveryTypes
    <3> QED BY <1>1, <3>1 DEF DeliveryInv, Ledgered
  <2>4. ASSUME NEW e \in Drivers, drv'[e].pc \in ReadPc, Msg(e)' \notin overtaken'
        PROVE  /\ drv'[e].pos = ledger'[Msg(e)']
               /\ drv'[e].pc = "append" =>
                     \A c \in Chars \ BlankChars : c \in (drv'[e].pos + 1)..drv'[e].cut => taken'[Msg(e)'][c] > 0
    <3>1. CASE e = d
      <4>1. Went(d, "append") /\ Kept(d)
        BY <1>1, <2>2, <2>4, <3>1 DEF Ended, Went
      <4>2. \A c \in Chars : c \in (drv[d].pos + 1)..drv[d].cut => taken'[Msg(d)][c] > 0
        BY <1>1, <4>1 DEF Ended, Went
      <4>3. drv[d].pos = ledger[Msg(d)]
        BY <1>1, <2>2, <2>4, <3>1, <4>1 DEF DeliveryInv, Ledgered, Went, Msg
      <4> QED BY <1>1, <3>1, <4>1, <4>2, <4>3 DEF Went, Kept, Msg
    <3>2. CASE e # d
      <4>1. drv'[e] = drv[e] /\ Msg(e)' = Msg(e) /\ drv[e].pc # "idle"
        BY <1>1, <2>2, <2>4, <3>2 DEF Went, Ended, Others, Msg
      <4>2. Msg(e) # Msg(d) /\ Msg(e) \in Messages
        BY <1>1, <2>1, <2>2, <2>4, <3>2, <4>1, DeliveryTypes
      <4>3. \A c \in Chars : taken'[Msg(e)][c] = taken[Msg(e)][c]
        BY <1>1, <4>2
      <4> QED BY <1>1, <2>4, <4>1, <4>2, <4>3 DEF DeliveryInv, Ledgered
    <3> QED BY <3>1, <3>2
  <2> QED BY <2>2, <2>3, <2>4 DEF Ledgered
<1>11. NothingDropped'
  BY <1>0, <1>1, DeliveryTypes DEF DeliveryInv, NothingDropped, Msg, Went, Others, Kept, Ended, RowSame
<1>12. AttemptsBounded'
  BY <1>0, <1>1, DeliveryTypes DEF DeliveryInv, AttemptsBounded, Msg, Went, Others, Kept, Ended, RowSame
<1>13. WaitSettled'
  BY <1>0, <1>1, DeliveryTypes DEF DeliveryInv, WaitSettled, Msg, Went, Others, Kept, Ended, RowSame
<1> QED BY <1>2, <1>3, <1>4, <1>5, <1>6, <1>7, <1>8, <1>9, <1>10, <1>11, <1>12, <1>13 DEF DeliveryInv

\* The ledger accounts for the chunk.
LEMMA AppendLedgerInv ==
    ASSUME DeliveryInv, NEW d \in Drivers, AppendLedger(d)
    PROVE  DeliveryInv' /\ [UnboundedNext]_storeVars
<1>0. Msg(d) \in Messages /\ status[Msg(d)] \notin Answerless /\ drv[d].tok \in Tokens
  BY DEF DeliveryInv, Routed, AppendLedger, At
<1>1. /\ drv[d].pc = "append" /\ RowSame
      /\ UNCHANGED <<taken, refusals, posts, waited, waitAnswered, overtaken>>
      /\ ledger'[Msg(d)] = ledger[Msg(d)] + (drv[d].cut - drv[d].pos)
      /\ (\A k \in Messages : k # Msg(d) => ledger'[k] = ledger[k])
      /\ drv'[d].pos = drv[d].cut /\ drv'[d].n = drv[d].n /\ drv'[d].cap = drv[d].cap
      /\ \/ Went(d, "index")
         \/ drv[d].cut < AnswerLen /\ Went(d, "loop")
         \/ drv[d].cut = AnswerLen /\ Went(d, "provisional")
  <2>1. PICK l : /\ drv' = [drv EXCEPT ![d].pos = drv[d].cut, ![d].pc = l]
                 /\ l = "index" \/ l = LoopPc(drv[d].cut)
    BY DEF AppendLedger
  <2>2. Went(d, l) /\ drv'[d].pos = drv[d].cut /\ drv'[d].n = drv[d].n /\ drv'[d].cap = drv[d].cap
    <3>1. drv[d] \in Driver /\ drv'[d] = [drv[d] EXCEPT !.pos = drv[d].cut, !.pc = l]
      BY <2>1, DeliveryTypes
    <3>2. Others(d)
      BY <2>1, DeliveryTypes DEF Others
    <3> QED BY <3>1, <3>2 DEF Driver, Went
  <2>3. /\ ledger'[Msg(d)] = ledger[Msg(d)] + (drv[d].cut - drv[d].pos)
        /\ \A k \in Messages : k # Msg(d) => ledger'[k] = ledger[k]
    BY <1>0 DEF AppendLedger, DeliveryInv, EngineTypes
  <2>4. l = "index" \/ (drv[d].cut < AnswerLen /\ l = "loop") \/ (drv[d].cut = AnswerLen /\ l = "provisional")
    BY <2>1, DeliveryTypes DEF LoopPc
  <2> QED BY <2>2, <2>3, <2>4 DEF AppendLedger, At, RowSame, storeVars
<1>2. [UnboundedNext]_storeVars
  BY <1>0, DeliveryTypes DEF AppendLedger, UnboundedNext, Answerless
<1>3. StoreInv'
  BY <1>2, UnboundedStep DEF DeliveryInv
<1>4. EngineTypes'
  <2>1. drv' \in [Drivers -> Driver]
    <3>1. drv[d] \in Driver /\ drv[d].cut \in 0..AnswerLen
      BY DEF DeliveryInv, EngineTypes, Driver
    <3>2. PICK l \in Sending : drv' = [drv EXCEPT ![d].pos = drv[d].cut, ![d].pc = l]
      BY DEF AppendLedger, LoopPc, Sending
    <3> QED BY <3>1, <3>2, DeliveryTypes DEF Driver
  <2> QED
    <3>1. ledger' \in [Messages -> Nat]
      BY <1>0, DeliveryTypes DEF DeliveryInv, EngineTypes, AppendLedger, At, Cut
    <3> QED BY <2>1, <3>1 DEF DeliveryInv, EngineTypes, AppendLedger
<1>5. Routed'
  BY <1>0, <1>1, DeliveryTypes DEF DeliveryInv, Routed, ChannelPc, CallbackPc, WaitPc, Answerless, Gone, Msg,
       Went, Others, RowSame
<1>6. Cut'
  BY <1>0, <1>1, DeliveryTypes DEF DeliveryInv, Cut, ReadPc, CuttingPc, Went, Others, RowSame
<1>7. Sole'
  BY <1>0, <1>1, DeliveryTypes DEF DeliveryInv, Sole, OneDriverPerRecord, Sending, Msg, Went, Others, RowSame
<1>8. Counted'
  BY <1>0, <1>1, DeliveryTypes DEF DeliveryInv, Counted, CountedPc, Sending, Msg, Went, Others, RowSame
<1>9. Unsent'
  BY <1>0, <1>1, DeliveryTypes DEF DeliveryInv, Unsent, Gone, Went, Others, RowSame
<1>10. Ledgered'
  <2>1. drv[d].pos < drv[d].cut /\ Msg(d) \in Messages /\ drv[d].pc \in Sending /\ drv[d].pc \in ReadPc
    BY <1>0, <1>1 DEF DeliveryInv, Cut, Sending, ReadPc
  <2>2. Msg(d) \notin overtaken => drv[d].pos = ledger[Msg(d)] /\ ledger'[Msg(d)] = drv[d].cut
    BY <1>1, <2>1, DeliveryTypes DEF DeliveryInv, Ledgered
  <2>3. Msg(d) \notin overtaken => \A e \in Drivers : e # d /\ drv[e].pc \in Sending => Msg(e) # Msg(d)
    BY <2>1, SoleFacts
  <2>4. ReadPc \subseteq Sending /\ "append" \in ReadPc
    BY DEF ReadPc, Sending
  <2>5. ASSUME NEW m \in Messages \ overtaken'
        PROVE  ledger'[m] <= AnswerLen /\ \A c \in Chars \ BlankChars : c <= ledger'[m] => taken'[m][c] > 0
    <3>1. CASE m # Msg(d)
      BY <1>1, <3>1 DEF DeliveryInv, Ledgered
    <3>2. CASE m = Msg(d)
      <4>1. \A c \in Chars \ BlankChars : c <= drv[d].cut => c <= drv[d].pos \/ c \in (drv[d].pos + 1)..drv[d].cut
        BY DeliveryTypes DEF Chars
      <4>2. \A c \in Chars \ BlankChars : c \in (drv[d].pos + 1)..drv[d].cut => taken[m][c] > 0
        BY <1>1, <3>2 DEF DeliveryInv, Ledgered
      <4> QED BY <1>1, <2>2, <3>2, <4>1, <4>2, DeliveryTypes DEF DeliveryInv, Ledgered
    <3> QED BY <3>1, <3>2
  <2>6. ASSUME NEW e \in Drivers, drv'[e].pc \in ReadPc, Msg(e)' \notin overtaken'
        PROVE  /\ drv'[e].pos = ledger'[Msg(e)']
               /\ drv'[e].pc = "append" =>
                     \A c \in Chars \ BlankChars : c \in (drv'[e].pos + 1)..drv'[e].cut => taken'[Msg(e)'][c] > 0
    <3>1. CASE e = d
      BY <1>1, <2>2, <2>6, <3>1 DEF Went, Msg
    <3>2. CASE e # d
      <4>1. drv'[e] = drv[e] /\ Msg(e)' = Msg(e) /\ drv[e].pc # "idle"
        BY <1>1, <2>6, <3>2 DEF Went, Others, Msg, ReadPc
      <4>2. Msg(e) # Msg(d) /\ Msg(e) \in Messages
        BY <1>1, <2>3, <2>4, <2>6, <3>2, <4>1, DeliveryTypes
      <4> QED BY <1>1, <2>6, <4>1, <4>2 DEF DeliveryInv, Ledgered
    <3> QED BY <3>1, <3>2
  <2> QED BY <2>4, <2>5, <2>6 DEF Ledgered
<1>11. NothingDropped'
  BY <1>0, <1>1, DeliveryTypes DEF DeliveryInv, NothingDropped, Msg, Went, Others, RowSame
<1>12. AttemptsBounded'
  BY <1>0, <1>1, DeliveryTypes DEF DeliveryInv, AttemptsBounded, Msg, Went, Others, RowSame
<1>13. WaitSettled'
  BY <1>0, <1>1, DeliveryTypes DEF DeliveryInv, WaitSettled, Msg, Went, Others, RowSame
<1> QED BY <1>2, <1>3, <1>4, <1>5, <1>6, <1>7, <1>8, <1>9, <1>10, <1>11, <1>12, <1>13 DEF DeliveryInv

\* A sent answer is provisional.
LEMMA ProvisionalInv ==
    ASSUME DeliveryInv, NEW d \in Drivers, Provisional(d)
    PROVE  DeliveryInv' /\ [UnboundedNext]_storeVars
<1>0. Msg(d) \in Messages /\ status[Msg(d)] \notin Answerless /\ drv[d].tok \in Tokens
  BY DEF DeliveryInv, Routed, Provisional, At
<1>1. /\ drv[d].pc = "provisional"
      /\ UNCHANGED <<ledger, taken, refusals, posts, waited, waitAnswered, overtaken>>
      /\ \/ RowSame /\ Ended(d)
         \/ RowMoved(Msg(d), "provisional", drv[d].n) /\ Went(d, "clear")
  <2>1. CASE MarkProvisionalReply(Msg(d), drv[d].tok) = 1
    <3>1. RowMoved(Msg(d), "provisional", drv[d].n)
      <4>1. status[Msg(d)] \in {"pending_delivery", "provisional"}
        <5>1. status[Msg(d)] = "delivered" => MarkProvisionalReply(Msg(d), drv[d].tok) = 0
          BY DEF MarkProvisionalReply, Live, Terminal, Gone
        <5>2. status[Msg(d)] = "failed" => MarkProvisionalReply(Msg(d), drv[d].tok) = 0
          BY DEF MarkProvisionalReply, Live, Terminal, Gone
        <5>3. drv[d].pc # "idle"
          BY DEF Provisional, At
        <5> QED BY <2>1, <5>1, <5>2, <5>3, DeliveryTypes
      <4> QED BY <1>0, <2>1, <4>1, DeliveryTypes DEF Provisional, MarkProvisional, RowMoved, RowsBut
    <3> QED BY <2>1, <3>1, StepGoes, DeliveryTypes DEF Provisional, At
  <2>2. CASE MarkProvisionalReply(Msg(d), drv[d].tok) # 1
    BY <2>2, EndGoes, DeliveryTypes DEF Provisional, At, MarkProvisional, RowSame, storeVars
  <2> QED BY <2>1, <2>2
<1>2. [UnboundedNext]_storeVars
  BY <1>0, DeliveryTypes DEF Provisional, UnboundedNext, Answerless
<1>3. StoreInv'
  BY <1>2, UnboundedStep DEF DeliveryInv
<1>4. EngineTypes'
  <2>1. drv' \in [Drivers -> Driver]
    BY DeliveryTypes, StepTypes, EndTypes DEF Sending, Provisional
  <2> QED
    BY <2>1, <1>0, DeliveryTypes DEF DeliveryInv, EngineTypes, Provisional
<1>5. Routed'
  BY <1>0, <1>1, DeliveryTypes DEF DeliveryInv, Routed, ChannelPc, CallbackPc, WaitPc, Answerless, Gone, Msg,
       Went, Others, Ended, RowSame, RowMoved, RowsBut
<1>6. Cut'
  BY <1>0, <1>1, DeliveryTypes DEF DeliveryInv, Cut, ReadPc, CuttingPc, Went, Others, Ended, RowSame,
       RowMoved, RowsBut
<1>7. Sole'
  BY <1>0, <1>1, DeliveryTypes DEF DeliveryInv, Sole, OneDriverPerRecord, Sending, Msg, Went, Others, Ended,
       RowSame, RowMoved, RowsBut
<1>8. Counted'
  BY <1>0, <1>1, DeliveryTypes DEF DeliveryInv, Counted, CountedPc, Sending, Msg, Went, Others, Ended,
       RowSame, RowMoved, RowsBut
<1>9. Unsent'
  BY <1>0, <1>1, DeliveryTypes DEF DeliveryInv, Unsent, Gone, Went, Others, Ended, RowSame, RowMoved, RowsBut
<1>10. Ledgered'
  BY <1>0, <1>1, DeliveryTypes DEF DeliveryInv, Ledgered, ReadPc, Sending, Msg, Chars, Went, Others, Ended,
       RowSame, RowMoved, RowsBut
<1>11. NothingDropped'
  BY <1>0, <1>1, DeliveryTypes DEF DeliveryInv, NothingDropped, Msg, Went, Others, Ended, RowSame, RowMoved,
       RowsBut, Cut, ReadPc, CuttingPc, Sending, Ledgered, Chars
<1>12. AttemptsBounded'
  BY <1>0, <1>1, DeliveryTypes DEF DeliveryInv, AttemptsBounded, Msg, Went, Others, Ended, RowSame, RowMoved,
       RowsBut, Counted, CountedPc, Sending
<1>13. WaitSettled'
  BY <1>0, <1>1, DeliveryTypes DEF DeliveryInv, WaitSettled, Msg, Went, Others, Ended, RowSame, RowMoved,
       RowsBut
<1> QED BY <1>2, <1>3, <1>4, <1>5, <1>6, <1>7, <1>8, <1>9, <1>10, <1>11, <1>12, <1>13 DEF DeliveryInv

\* The ledger of a settled record is cleared.
LEMMA ClearLedgerInv ==
    ASSUME DeliveryInv, NEW d \in Drivers, ClearLedger(d)
    PROVE  DeliveryInv' /\ [UnboundedNext]_storeVars
<1>0. Msg(d) \in Messages /\ status[Msg(d)] \notin Answerless /\ drv[d].tok \in Tokens
  BY DEF DeliveryInv, Routed, ClearLedger, At
<1>1. /\ drv[d].pc = "clear" /\ Ended(d) /\ RowSame
      /\ UNCHANGED <<taken, refusals, posts, waited, waitAnswered, overtaken>>
      /\ ledger'[Msg(d)] = 0 /\ (\A k \in Messages : k # Msg(d) => ledger'[k] = ledger[k])
  BY <1>0, DeliveryTypes DEF DeliveryInv, EngineTypes, ClearLedger, Msg, At, End, RowSame, storeVars, Ended,
       Others, IdleDrv
<1>2. [UnboundedNext]_storeVars
  BY <1>0, DeliveryTypes DEF ClearLedger, UnboundedNext, Answerless
<1>3. StoreInv'
  BY <1>2, UnboundedStep DEF DeliveryInv
<1>4. EngineTypes'
  <2>1. drv' \in [Drivers -> Driver]
    BY DeliveryTypes, StepTypes, EndTypes DEF Sending, ClearLedger
  <2> QED
    BY <2>1, <1>0, DeliveryTypes DEF DeliveryInv, EngineTypes, ClearLedger
<1>5. Routed'
  BY <1>0, <1>1, DeliveryTypes DEF DeliveryInv, Routed, ChannelPc, CallbackPc, WaitPc, Answerless, Gone, Msg,
       Ended, Others, RowSame
<1>6. Cut'
  BY <1>0, <1>1, DeliveryTypes DEF DeliveryInv, Cut, ReadPc, CuttingPc, Ended, Others, RowSame
<1>7. Sole'
  BY <1>0, <1>1, DeliveryTypes DEF DeliveryInv, Sole, OneDriverPerRecord, Sending, Msg, Ended, Others, RowSame
<1>8. Counted'
  BY <1>0, <1>1, DeliveryTypes DEF DeliveryInv, Counted, CountedPc, Sending, Msg, Ended, Others, RowSame
<1>9. Unsent'
  BY <1>0, <1>1, DeliveryTypes DEF DeliveryInv, Unsent, Gone, Ended, Others, RowSame
<1>10. Ledgered'
  <2>1. /\ taken' = taken /\ overtaken' = overtaken /\ drv'[d].pc = "idle"
        /\ \A e \in Drivers \ {d} : drv'[e] = drv[e]
    BY <1>1 DEF Ended, Others
  <2>2. \A m \in Messages \ overtaken' :
          ledger'[m] <= AnswerLen /\ \A c \in Chars \ BlankChars : c <= ledger'[m] => taken'[m][c] > 0
    <3>1. \A m \in Messages : ledger'[m] = ledger[m] \/ ledger'[m] = 0
      BY <1>1
    <3>2. \A c \in Chars : ~(c <= 0)
      BY DEF Chars
    <3> QED BY <2>1, <3>1, <3>2, DeliveryTypes DEF DeliveryInv, Ledgered
  <2>3. ASSUME NEW e \in Drivers, drv'[e].pc \in ReadPc \cup {"append"}, Msg(e)' \notin overtaken'
        PROVE  e # d /\ drv'[e] = drv[e] /\ Msg(e)' = Msg(e) /\ ledger'[Msg(e)] = ledger[Msg(e)]
    BY <1>0, <1>1, <2>1, <2>3, DeliveryTypes, SoleFacts DEF DeliveryInv, ReadPc, Sending, Msg, Routed
  <2>4. \A e \in Drivers : drv'[e].pc \in ReadPc /\ Msg(e)' \notin overtaken' => drv'[e].pos = ledger'[Msg(e)']
    BY <2>1, <2>3 DEF DeliveryInv, Ledgered
  <2>5. \A e \in Drivers : drv'[e].pc = "append" /\ Msg(e)' \notin overtaken' =>
          \A c \in Chars \ BlankChars : c \in (drv'[e].pos + 1)..drv'[e].cut => taken'[Msg(e)'][c] > 0
    BY <2>1, <2>3 DEF DeliveryInv, Ledgered
  <2> QED BY <2>2, <2>4, <2>5 DEF Ledgered
<1>11. NothingDropped'
  BY <1>0, <1>1, DeliveryTypes DEF DeliveryInv, NothingDropped, Msg, Ended, Others, RowSame
<1>12. AttemptsBounded'
  BY <1>0, <1>1, DeliveryTypes DEF DeliveryInv, AttemptsBounded, Msg, Ended, Others, RowSame
<1>13. WaitSettled'
  BY <1>0, <1>1, DeliveryTypes DEF DeliveryInv, WaitSettled, Msg, Ended, Others, RowSame
<1> QED BY <1>2, <1>3, <1>4, <1>5, <1>6, <1>7, <1>8, <1>9, <1>10, <1>11, <1>12, <1>13 DEF DeliveryInv

\* The callback is POSTed once per attempt.
LEMMA PostCallbackInv ==
    ASSUME DeliveryInv, NEW d \in Drivers, PostCallback(d)
    PROVE  DeliveryInv' /\ [UnboundedNext]_storeVars
<1>0. Msg(d) \in Messages /\ status[Msg(d)] \notin Answerless /\ drv[d].tok \in Tokens
  BY DEF DeliveryInv, Routed, PostCallback, At
<1>1. /\ drv[d].pc = "post" /\ Kept(d) /\ RowSame
      /\ UNCHANGED <<ledger, taken, refusals, waited, waitAnswered, overtaken>>
     
      /\ (\A k \in Messages : k # Msg(d) => posts'[k] = posts[k]) /\ posts'[Msg(d)] \in {posts[Msg(d)], posts[Msg(d)] + 1}
      /\ \/ Went(d, "apiMark") \/ Went(d, "fail")
         \/ drv[d].n < DeliveryMaxAttempts /\ Went(d, "apiRefresh")
  <2>1. /\ \A k \in Messages : k # Msg(d) => posts'[k] = posts[k]
        /\ posts'[Msg(d)] \in {posts[Msg(d)], posts[Msg(d)] + 1}
    BY <1>0 DEF PostCallback, DeliveryInv, EngineTypes
  <2>2. drv[d].n < DeliveryMaxAttempts <=> ~(drv[d].n >= DeliveryMaxAttempts)
    BY DeliveryTypes
  <2> QED BY <2>1, <2>2, StepGoes, DeliveryTypes DEF PostCallback, At, RowSame, storeVars
<1>2. [UnboundedNext]_storeVars
  BY <1>0, DeliveryTypes DEF PostCallback, UnboundedNext, Answerless
<1>3. StoreInv'
  BY <1>2, UnboundedStep DEF DeliveryInv
<1>4. EngineTypes'
  <2>1. drv' \in [Drivers -> Driver]
    BY DeliveryTypes, StepTypes, EndTypes DEF Sending, PostCallback
  <2> QED
    <3>1. posts' \in [Messages -> Nat]
      BY <1>0, DeliveryTypes DEF DeliveryInv, EngineTypes, PostCallback
    <3> QED BY <2>1, <3>1 DEF DeliveryInv, EngineTypes, PostCallback
<1>5. Routed'
  BY <1>0, <1>1, DeliveryTypes DEF DeliveryInv, Routed, ChannelPc, CallbackPc, WaitPc, Answerless, Gone, Msg,
       Went, Others, Kept, RowSame
<1>6. Cut'
  BY <1>0, <1>1, DeliveryTypes DEF DeliveryInv, Cut, ReadPc, CuttingPc, Went, Others, Kept, RowSame
<1>7. Sole'
  BY <1>0, <1>1, DeliveryTypes DEF DeliveryInv, Sole, OneDriverPerRecord, Sending, Msg, Went, Others, Kept,
       RowSame
<1>8. Counted'
  BY <1>0, <1>1, DeliveryTypes DEF DeliveryInv, Counted, CountedPc, Sending, Msg, Went, Others, Kept, RowSame,
       Sole, OneDriverPerRecord
<1>9. Unsent'
  BY <1>0, <1>1, DeliveryTypes DEF DeliveryInv, Unsent, Gone, Went, Others, Kept, RowSame
<1>10. Ledgered'
  BY <1>0, <1>1, DeliveryTypes DEF DeliveryInv, Ledgered, ReadPc, Sending, Msg, Chars, Went, Others, Kept,
       RowSame
<1>11. NothingDropped'
  BY <1>0, <1>1, DeliveryTypes DEF DeliveryInv, NothingDropped, Msg, Went, Others, Kept, RowSame
<1>12. AttemptsBounded'
  BY <1>0, <1>1, DeliveryTypes DEF DeliveryInv, AttemptsBounded, Msg, Went, Others, Kept, RowSame, Counted,
       Sending
<1>13. WaitSettled'
  BY <1>0, <1>1, DeliveryTypes DEF DeliveryInv, WaitSettled, Msg, Went, Others, Kept, RowSame
<1> QED BY <1>2, <1>3, <1>4, <1>5, <1>6, <1>7, <1>8, <1>9, <1>10, <1>11, <1>12, <1>13 DEF DeliveryInv

\* The lease is extended over the backoff.
LEMMA ApiRefreshInv ==
    ASSUME DeliveryInv, NEW d \in Drivers, ApiRefresh(d)
    PROVE  DeliveryInv' /\ [UnboundedNext]_storeVars
<1>0. Msg(d) \in Messages /\ status[Msg(d)] \notin Answerless /\ drv[d].tok \in Tokens
  BY DEF DeliveryInv, Routed, ApiRefresh, At
<1>1. /\ drv[d].pc = "apiRefresh"
      /\ UNCHANGED <<ledger, taken, refusals, posts, waited, waitAnswered, overtaken>>
      /\ \/ RowSame /\ Ended(d)
         \/ RowHeld(Msg(d), drv[d].tok) /\ Went(d, "apiBump") /\ Kept(d)
  <2>1. CASE ClaimDeliveryReply(Msg(d), drv[d].tok) = 1
    <3>1. RowHeld(Msg(d), drv[d].tok)
      BY <1>0, <2>1, DeliveryTypes
         DEF ApiRefresh, RowHeld, RowsBut, ClaimDelivery, ClaimDeliveryReply, ForeignLease, Gone, Answerless
    <3> QED BY <2>1, <3>1, StepGoes, DeliveryTypes DEF ApiRefresh, At
  <2>2. CASE ClaimDeliveryReply(Msg(d), drv[d].tok) # 1
    BY <2>2, EndGoes, DeliveryTypes DEF ApiRefresh, At, ClaimDelivery, RowSame, storeVars
  <2> QED BY <2>1, <2>2
<1>2. [UnboundedNext]_storeVars
  BY <1>0, DeliveryTypes DEF ApiRefresh, UnboundedNext, Answerless
<1>3. StoreInv'
  BY <1>2, UnboundedStep DEF DeliveryInv
<1>4. EngineTypes'
  <2>1. drv' \in [Drivers -> Driver]
    BY DeliveryTypes, StepTypes, EndTypes DEF Sending, ApiRefresh
  <2> QED
    BY <2>1, <1>0, DeliveryTypes DEF DeliveryInv, EngineTypes, ApiRefresh
<1>5. Routed'
  BY <1>0, <1>1, DeliveryTypes DEF DeliveryInv, Routed, ChannelPc, CallbackPc, WaitPc, Answerless, Gone, Msg,
       Went, Others, Kept, Ended, RowSame, RowHeld, RowsBut
<1>6. Cut'
  BY <1>0, <1>1, DeliveryTypes DEF DeliveryInv, Cut, ReadPc, CuttingPc, Went, Others, Kept, Ended, RowSame,
       RowHeld, RowsBut
<1>7. Sole'
  BY <1>0, <1>1, DeliveryTypes DEF DeliveryInv, Sole, OneDriverPerRecord, Sending, Msg, Went, Others, Kept,
       Ended, RowSame, RowHeld, RowsBut
<1>8. Counted'
  BY <1>0, <1>1, DeliveryTypes DEF DeliveryInv, Counted, CountedPc, Sending, Msg, Went, Others, Kept, Ended,
       RowSame, RowHeld, RowsBut
<1>9. Unsent'
  BY <1>0, <1>1, DeliveryTypes DEF DeliveryInv, Unsent, Gone, Went, Others, Kept, Ended, RowSame, RowHeld,
       RowsBut
<1>10. Ledgered'
  BY <1>0, <1>1, DeliveryTypes DEF DeliveryInv, Ledgered, ReadPc, Sending, Msg, Chars, Went, Others, Kept,
       Ended, RowSame, RowHeld, RowsBut
<1>11. NothingDropped'
  BY <1>0, <1>1, DeliveryTypes DEF DeliveryInv, NothingDropped, Msg, Went, Others, Kept, Ended, RowSame,
       RowHeld, RowsBut
<1>12. AttemptsBounded'
  BY <1>0, <1>1, DeliveryTypes DEF DeliveryInv, AttemptsBounded, Msg, Went, Others, Kept, Ended, RowSame,
       RowHeld, RowsBut
<1>13. WaitSettled'
  BY <1>0, <1>1, DeliveryTypes DEF DeliveryInv, WaitSettled, Msg, Went, Others, Kept, Ended, RowSame, RowHeld,
       RowsBut
<1> QED BY <1>2, <1>3, <1>4, <1>5, <1>6, <1>7, <1>8, <1>9, <1>10, <1>11, <1>12, <1>13 DEF DeliveryInv

\* An accepted callback delivers the record.
LEMMA ApiDeliveredInv ==
    ASSUME DeliveryInv, NEW d \in Drivers, ApiDelivered(d)
    PROVE  DeliveryInv' /\ [UnboundedNext]_storeVars
<1>0. Msg(d) \in Messages /\ status[Msg(d)] \notin Answerless /\ drv[d].tok \in Tokens
  BY DEF DeliveryInv, Routed, ApiDelivered, At
<1>1. /\ drv[d].pc = "apiMark" /\ Ended(d)
      /\ UNCHANGED <<ledger, taken, refusals, posts, waited, waitAnswered, overtaken>>
      /\ (RowSame \/ RowMoved(Msg(d), "delivered", drv[d].n))
  BY <1>0, DeliveryTypes DEF DeliveryInv, EngineTypes, ApiDelivered, Msg, At, End, MarkDelivered,
       MarkDeliveredReply, Routed, Answerless, RowMoved, RowsBut, Settle, ForeignLease, Terminal, Live,
       RowSame, storeVars, Ended, Others, IdleDrv
<1>2. [UnboundedNext]_storeVars
  BY <1>0, DeliveryTypes DEF ApiDelivered, UnboundedNext, Answerless
<1>3. StoreInv'
  BY <1>2, UnboundedStep DEF DeliveryInv
<1>4. EngineTypes'
  <2>1. drv' \in [Drivers -> Driver]
    BY DeliveryTypes, StepTypes, EndTypes DEF Sending, ApiDelivered
  <2> QED
    BY <2>1, <1>0, DeliveryTypes DEF DeliveryInv, EngineTypes, ApiDelivered
<1>5. Routed'
  BY <1>0, <1>1, DeliveryTypes DEF DeliveryInv, Routed, ChannelPc, CallbackPc, WaitPc, Answerless, Gone, Msg,
       Ended, Others, RowSame, RowMoved, RowsBut
<1>6. Cut'
  BY <1>0, <1>1, DeliveryTypes DEF DeliveryInv, Cut, ReadPc, CuttingPc, Ended, Others, RowSame, RowMoved,
       RowsBut
<1>7. Sole'
  BY <1>0, <1>1, DeliveryTypes DEF DeliveryInv, Sole, OneDriverPerRecord, Sending, Msg, Ended, Others,
       RowSame, RowMoved, RowsBut
<1>8. Counted'
  BY <1>0, <1>1, DeliveryTypes DEF DeliveryInv, Counted, CountedPc, Sending, Msg, Ended, Others, RowSame,
       RowMoved, RowsBut
<1>9. Unsent'
  BY <1>0, <1>1, DeliveryTypes DEF DeliveryInv, Unsent, Gone, Ended, Others, RowSame, RowMoved, RowsBut
<1>10. Ledgered'
  BY <1>0, <1>1, DeliveryTypes DEF DeliveryInv, Ledgered, ReadPc, Sending, Msg, Chars, Ended, Others, RowSame,
       RowMoved, RowsBut
<1>11. NothingDropped'
  BY <1>0, <1>1, DeliveryTypes DEF DeliveryInv, NothingDropped, Msg, Ended, Others, RowSame, RowMoved,
       RowsBut, Routed, CallbackPc
<1>12. AttemptsBounded'
  BY <1>0, <1>1, DeliveryTypes DEF DeliveryInv, AttemptsBounded, Msg, Ended, Others, RowSame, RowMoved,
       RowsBut, Counted, CountedPc, Sending
<1>13. WaitSettled'
  BY <1>0, <1>1, DeliveryTypes DEF DeliveryInv, WaitSettled, Msg, Ended, Others, RowSame, RowMoved, RowsBut
<1> QED BY <1>2, <1>3, <1>4, <1>5, <1>6, <1>7, <1>8, <1>9, <1>10, <1>11, <1>12, <1>13 DEF DeliveryInv

\* The sync wait delivers the record, once.
LEMMA WaitDeliveredInv ==
    ASSUME DeliveryInv, NEW d \in Drivers, WaitDelivered(d)
    PROVE  DeliveryInv' /\ [UnboundedNext]_storeVars
<1>0. Msg(d) \in Messages /\ status[Msg(d)] \notin Answerless /\ drv[d].tok \in Tokens
  BY DEF DeliveryInv, Routed, WaitDelivered, At
<1>1. /\ drv[d].pc = "waitMark" /\ Ended(d) /\ UNCHANGED <<ledger, taken, refusals, posts, waited, overtaken>>
      /\ \/ RowSame /\ UNCHANGED waitAnswered
         \/ RowMoved(Msg(d), "delivered", drv[d].n) /\ waitAnswered' = waitAnswered \cup {Msg(d)}
  BY <1>0, DeliveryTypes DEF DeliveryInv, EngineTypes, WaitDelivered, Msg, At, End, MarkDelivered,
       MarkDeliveredReply, Routed, Answerless, RowMoved, RowsBut, Settle, ForeignLease, Terminal, Live,
       RowSame, storeVars, Ended, Others, IdleDrv
<1>2. [UnboundedNext]_storeVars
  BY <1>0, DeliveryTypes DEF WaitDelivered, UnboundedNext, Answerless
<1>3. StoreInv'
  BY <1>2, UnboundedStep DEF DeliveryInv
<1>4. EngineTypes'
  <2>1. drv' \in [Drivers -> Driver]
    BY DeliveryTypes, StepTypes, EndTypes DEF Sending, WaitDelivered
  <2> QED
    BY <2>1, <1>0, DeliveryTypes DEF DeliveryInv, EngineTypes, Routed, WaitPc, At, WaitDelivered
<1>5. Routed'
  BY <1>0, <1>1, DeliveryTypes DEF DeliveryInv, Routed, ChannelPc, CallbackPc, WaitPc, Answerless, Gone, Msg,
       Ended, Others, RowSame, RowMoved, RowsBut
<1>6. Cut'
  BY <1>0, <1>1, DeliveryTypes DEF DeliveryInv, Cut, ReadPc, CuttingPc, Ended, Others, RowSame, RowMoved,
       RowsBut
<1>7. Sole'
  BY <1>0, <1>1, DeliveryTypes DEF DeliveryInv, Sole, OneDriverPerRecord, Sending, Msg, Ended, Others,
       RowSame, RowMoved, RowsBut
<1>8. Counted'
  BY <1>0, <1>1, DeliveryTypes DEF DeliveryInv, Counted, CountedPc, Sending, Msg, Ended, Others, RowSame,
       RowMoved, RowsBut
<1>9. Unsent'
  BY <1>0, <1>1, DeliveryTypes DEF DeliveryInv, Unsent, Gone, Ended, Others, RowSame, RowMoved, RowsBut
<1>10. Ledgered'
  BY <1>0, <1>1, DeliveryTypes DEF DeliveryInv, Ledgered, ReadPc, Sending, Msg, Chars, Ended, Others, RowSame,
       RowMoved, RowsBut
<1>11. NothingDropped'
  BY <1>0, <1>1, DeliveryTypes DEF DeliveryInv, NothingDropped, Msg, Ended, Others, RowSame, RowMoved,
       RowsBut, Routed, WaitPc
<1>12. AttemptsBounded'
  BY <1>0, <1>1, DeliveryTypes DEF DeliveryInv, AttemptsBounded, Msg, Ended, Others, RowSame, RowMoved,
       RowsBut, Counted, CountedPc, Sending
<1>13. WaitSettled'
  BY <1>0, <1>1, DeliveryTypes DEF DeliveryInv, WaitSettled, Msg, Ended, Others, RowSame, RowMoved, RowsBut
<1> QED BY <1>2, <1>3, <1>4, <1>5, <1>6, <1>7, <1>8, <1>9, <1>10, <1>11, <1>12, <1>13 DEF DeliveryInv

\* A receipt settles a provisional record.
LEMMA RecordDeliveryStatusInv ==
    ASSUME DeliveryInv, NEW m \in Messages, RecordDeliveryStatus(m)
    PROVE  DeliveryInv' /\ [UnboundedNext]_storeVars
<1>1. /\ UNCHANGED <<drv, ledger, taken, refusals, posts, waited, waitAnswered, overtaken>>
      /\ (RowSame \/ RowSettled(m))
  <2>1. CASE status[m] = "provisional"
    <3>1. PICK t \in {"delivered", "failed"} : IngestReceipt(m, t)
      BY DEF RecordDeliveryStatus
    <3>2. RowSame \/ (Settle(m, t) /\ UNCHANGED attempts)
      BY <3>1 DEF IngestReceipt, RowSame, storeVars
    <3>3. ASSUME Settle(m, t), UNCHANGED attempts PROVE RowSettled(m)
      <4>1. status' = [status EXCEPT ![m] = t] /\ claim' = [claim EXCEPT ![m] = NoToken] /\ UNCHANGED minted
        BY <3>3 DEF Settle
      <4>2. claim[m] = NoToken
        BY <2>1, DeliveryTypes
      <4> QED BY <2>1, <3>3, <4>1, <4>2, DeliveryTypes DEF RowSettled, RowsBut
    <3> QED BY <3>2, <3>3 DEF RecordDeliveryStatus, engineVars
  <2>2. CASE status[m] # "provisional"
    <3>1. \A t \in {"delivered", "failed"} : IngestReceiptReply(m, t) # 1
      BY <2>2, DeliveryTypes DEF IngestReceiptReply, Gone, Terminal, Statuses, Live
    <3> QED BY <3>1 DEF RecordDeliveryStatus, IngestReceipt, RowSame, storeVars, engineVars
  <2> QED BY <2>1, <2>2
<1>2. [UnboundedNext]_storeVars
  BY DeliveryTypes DEF RecordDeliveryStatus, UnboundedNext, Answerless
<1>3. StoreInv'
  BY <1>2, UnboundedStep DEF DeliveryInv
<1>4. EngineTypes'
  BY DeliveryTypes DEF DeliveryInv, EngineTypes, Driver, Sending, RecordDeliveryStatus, engineVars
<1>5. Routed'
  BY <1>1, DeliveryTypes DEF DeliveryInv, Routed, ChannelPc, CallbackPc, WaitPc, Answerless, Gone, Msg,
       RowSame, RowSettled, RowsBut
<1>6. Cut'
  BY <1>1, DeliveryTypes DEF DeliveryInv, Cut, ReadPc, CuttingPc, RowSame, RowSettled, RowsBut
<1>7. Sole'
  BY <1>1, DeliveryTypes DEF DeliveryInv, Sole, OneDriverPerRecord, Sending, Msg, RowSame, RowSettled, RowsBut
<1>8. Counted'
  BY <1>1, DeliveryTypes DEF DeliveryInv, Counted, CountedPc, Sending, Msg, RowSame, RowSettled, RowsBut
<1>9. Unsent'
  BY <1>1, DeliveryTypes DEF DeliveryInv, Unsent, Gone, RowSame, RowSettled, RowsBut
<1>10. Ledgered'
  BY <1>1, DeliveryTypes DEF DeliveryInv, Ledgered, ReadPc, Sending, Msg, Chars, RowSame, RowSettled, RowsBut
<1>11. NothingDropped'
  BY <1>1, DeliveryTypes DEF DeliveryInv, NothingDropped, Msg, RowSame, RowSettled, RowsBut
<1>12. AttemptsBounded'
  BY <1>1, DeliveryTypes DEF DeliveryInv, AttemptsBounded, Msg, RowSame, RowSettled, RowsBut
<1>13. WaitSettled'
  BY <1>1, DeliveryTypes DEF DeliveryInv, WaitSettled, Msg, RowSame, RowSettled, RowsBut
<1> QED BY <1>2, <1>3, <1>4, <1>5, <1>6, <1>7, <1>8, <1>9, <1>10, <1>11, <1>12, <1>13 DEF DeliveryInv

\* A provisional record nobody contradicted is delivered.
LEMMA ConfirmAfterGraceInv ==
    ASSUME DeliveryInv, NEW m \in Messages, ConfirmAfterGrace(m)
    PROVE  DeliveryInv' /\ [UnboundedNext]_storeVars
<1>1. /\ UNCHANGED <<drv, ledger, taken, refusals, posts, waited, waitAnswered, overtaken>>
      /\ (RowSame \/ RowSettled(m))
  <2>1. CASE status[m] = "provisional"
    <3>1. PICK t \in {"delivered", "failed"} : IngestReceipt(m, t)
      BY DEF ConfirmAfterGrace
    <3>2. RowSame \/ (Settle(m, t) /\ UNCHANGED attempts)
      BY <3>1 DEF IngestReceipt, RowSame, storeVars
    <3>3. ASSUME Settle(m, t), UNCHANGED attempts PROVE RowSettled(m)
      <4>1. status' = [status EXCEPT ![m] = t] /\ claim' = [claim EXCEPT ![m] = NoToken] /\ UNCHANGED minted
        BY <3>3 DEF Settle
      <4>2. claim[m] = NoToken
        BY <2>1, DeliveryTypes
      <4> QED BY <2>1, <3>3, <4>1, <4>2, DeliveryTypes DEF RowSettled, RowsBut
    <3> QED BY <3>2, <3>3 DEF ConfirmAfterGrace, engineVars
  <2>2. CASE status[m] # "provisional"
    <3>1. \A t \in {"delivered", "failed"} : IngestReceiptReply(m, t) # 1
      BY <2>2, DeliveryTypes DEF IngestReceiptReply, Gone, Terminal, Statuses, Live
    <3> QED BY <3>1 DEF ConfirmAfterGrace, IngestReceipt, RowSame, storeVars, engineVars
  <2> QED BY <2>1, <2>2
<1>2. [UnboundedNext]_storeVars
  BY DeliveryTypes DEF ConfirmAfterGrace, UnboundedNext, Answerless
<1>3. StoreInv'
  BY <1>2, UnboundedStep DEF DeliveryInv
<1>4. EngineTypes'
  BY DeliveryTypes DEF DeliveryInv, EngineTypes, Driver, Sending, ConfirmAfterGrace, engineVars
<1>5. Routed'
  BY <1>1, DeliveryTypes DEF DeliveryInv, Routed, ChannelPc, CallbackPc, WaitPc, Answerless, Gone, Msg,
       RowSame, RowSettled, RowsBut
<1>6. Cut'
  BY <1>1, DeliveryTypes DEF DeliveryInv, Cut, ReadPc, CuttingPc, RowSame, RowSettled, RowsBut
<1>7. Sole'
  BY <1>1, DeliveryTypes DEF DeliveryInv, Sole, OneDriverPerRecord, Sending, Msg, RowSame, RowSettled, RowsBut
<1>8. Counted'
  BY <1>1, DeliveryTypes DEF DeliveryInv, Counted, CountedPc, Sending, Msg, RowSame, RowSettled, RowsBut
<1>9. Unsent'
  BY <1>1, DeliveryTypes DEF DeliveryInv, Unsent, Gone, RowSame, RowSettled, RowsBut
<1>10. Ledgered'
  BY <1>1, DeliveryTypes DEF DeliveryInv, Ledgered, ReadPc, Sending, Msg, Chars, RowSame, RowSettled, RowsBut
<1>11. NothingDropped'
  BY <1>1, DeliveryTypes DEF DeliveryInv, NothingDropped, Msg, RowSame, RowSettled, RowsBut
<1>12. AttemptsBounded'
  BY <1>1, DeliveryTypes DEF DeliveryInv, AttemptsBounded, Msg, RowSame, RowSettled, RowsBut
<1>13. WaitSettled'
  BY <1>1, DeliveryTypes DEF DeliveryInv, WaitSettled, Msg, RowSame, RowSettled, RowsBut
<1> QED BY <1>2, <1>3, <1>4, <1>5, <1>6, <1>7, <1>8, <1>9, <1>10, <1>11, <1>12, <1>13 DEF DeliveryInv

\* The grace deadline passes.
LEMMA GraceElapsesInv ==
    ASSUME DeliveryInv, NEW m \in Messages, GraceElapses(m)
    PROVE  DeliveryInv' /\ [UnboundedNext]_storeVars
<1>1. /\ UNCHANGED <<drv, ledger, taken, refusals, posts, waited, waitAnswered, overtaken>> /\ RowSame
  BY DeliveryTypes DEF DeliveryInv, EngineTypes, GraceElapses, Msg, ElapseGrace, engineVars, RowSame, storeVars
<1>2. [UnboundedNext]_storeVars
  BY DeliveryTypes DEF GraceElapses, UnboundedNext, Answerless
<1>3. StoreInv'
  BY <1>2, UnboundedStep DEF DeliveryInv
<1>4. EngineTypes'
  BY DeliveryTypes DEF DeliveryInv, EngineTypes, Driver, Sending, GraceElapses, engineVars
<1>5. Routed'
  BY <1>1, DeliveryTypes DEF DeliveryInv, Routed, ChannelPc, CallbackPc, WaitPc, Answerless, Gone, Msg, RowSame
<1>6. Cut'
  BY <1>1, DeliveryTypes DEF DeliveryInv, Cut, ReadPc, CuttingPc, RowSame
<1>7. Sole'
  BY <1>1, DeliveryTypes DEF DeliveryInv, Sole, OneDriverPerRecord, Sending, Msg, RowSame
<1>8. Counted'
  BY <1>1, DeliveryTypes DEF DeliveryInv, Counted, CountedPc, Sending, Msg, RowSame
<1>9. Unsent'
  BY <1>1, DeliveryTypes DEF DeliveryInv, Unsent, Gone, RowSame
<1>10. Ledgered'
  BY <1>1, DeliveryTypes DEF DeliveryInv, Ledgered, ReadPc, Sending, Msg, Chars, RowSame
<1>11. NothingDropped'
  BY <1>1, DeliveryTypes DEF DeliveryInv, NothingDropped, Msg, RowSame
<1>12. AttemptsBounded'
  BY <1>1, DeliveryTypes DEF DeliveryInv, AttemptsBounded, Msg, RowSame
<1>13. WaitSettled'
  BY <1>1, DeliveryTypes DEF DeliveryInv, WaitSettled, Msg, RowSame
<1> QED BY <1>2, <1>3, <1>4, <1>5, <1>6, <1>7, <1>8, <1>9, <1>10, <1>11, <1>12, <1>13 DEF DeliveryInv

\* A lease that lapses under a live driver overtakes it.
LEMMA LeaseLapsesInv ==
    ASSUME DeliveryInv, NEW m \in Messages, LeaseLapses(m)
    PROVE  DeliveryInv' /\ [UnboundedNext]_storeVars
<1>1. /\ UNCHANGED <<drv, status, attempts, minted, ledger, taken, refusals, posts, waited, waitAnswered>>
      /\ claim'[m] = NoToken /\ (\A k \in Messages : k # m => claim'[k] = claim[k])
      /\ \/ overtaken' = overtaken \cup {m}
         \/ UNCHANGED overtaken /\ (\A d \in Drivers : drv[d].tok # claim[m])
  BY DeliveryTypes DEF DeliveryInv, EngineTypes, LeaseLapses, Msg, LapseDelivery
<1>2. [UnboundedNext]_storeVars
  BY DeliveryTypes DEF LeaseLapses, UnboundedNext, Answerless
<1>3. StoreInv'
  BY <1>2, UnboundedStep DEF DeliveryInv
<1>4. EngineTypes'
  <2>1. budget' \in Scenario
    <3>1. CASE UNCHANGED budget
      BY <3>1 DEF DeliveryInv, EngineTypes
    <3>2. CASE budget.stalls > 0 /\ budget' = [budget EXCEPT !.stalls = @ - 1]
      <4>1. budget \in Scenario
        BY DEF DeliveryInv, EngineTypes
      <4> QED BY <3>2, <4>1 DEF Scenario
    <3> QED BY <3>1, <3>2 DEF LeaseLapses
  <2> QED BY <1>1, <2>1 DEF DeliveryInv, EngineTypes, LeaseLapses
<1>5. Routed'
  BY <1>1, DeliveryTypes DEF DeliveryInv, Routed, ChannelPc, CallbackPc, WaitPc, Answerless, Gone, Msg
<1>6. Cut'
  BY <1>1, DeliveryTypes DEF DeliveryInv, Cut, ReadPc, CuttingPc
<1>7. Sole'
  BY <1>1, DeliveryTypes DEF DeliveryInv, Sole, OneDriverPerRecord, Sending, Msg
<1>8. Counted'
  BY <1>1, DeliveryTypes DEF DeliveryInv, Counted, CountedPc, Sending, Msg
<1>9. Unsent'
  BY <1>1, DeliveryTypes DEF DeliveryInv, Unsent, Gone
<1>10. Ledgered'
  BY <1>1, DeliveryTypes DEF DeliveryInv, Ledgered, ReadPc, Sending, Msg, Chars
<1>11. NothingDropped'
  BY <1>1, DeliveryTypes DEF DeliveryInv, NothingDropped, Msg
<1>12. AttemptsBounded'
  BY <1>1, DeliveryTypes DEF DeliveryInv, AttemptsBounded, Msg
<1>13. WaitSettled'
  BY <1>1, DeliveryTypes DEF DeliveryInv, WaitSettled, Msg
<1> QED BY <1>2, <1>3, <1>4, <1>5, <1>6, <1>7, <1>8, <1>9, <1>10, <1>11, <1>12, <1>13 DEF DeliveryInv

\* A dead driver leaves the record to the sweep.
LEMMA DriverDiesInv ==
    ASSUME DeliveryInv, NEW d \in Drivers, DriverDies(d)
    PROVE  DeliveryInv' /\ [UnboundedNext]_storeVars
<1>1. /\ Ended(d) /\ RowSame /\ UNCHANGED <<ledger, taken, refusals, posts, waited, waitAnswered, overtaken>>
  BY DeliveryTypes DEF DeliveryInv, EngineTypes, DriverDies, Msg, At, End, RowSame, storeVars, Ended, Others,
       IdleDrv
<1>2. [UnboundedNext]_storeVars
  BY DeliveryTypes DEF DriverDies, UnboundedNext, Answerless
<1>3. StoreInv'
  BY <1>2, UnboundedStep DEF DeliveryInv
<1>4. EngineTypes'
  <2>1. drv' \in [Drivers -> Driver]
    BY DeliveryTypes, StepTypes, EndTypes DEF Sending, DriverDies
  <2> QED
    <3>1. budget \in Scenario /\ budget.deaths > 0 /\ budget' = [budget EXCEPT !.deaths = @ - 1]
      BY DEF DeliveryInv, EngineTypes, DriverDies
    <3>2. budget' \in Scenario
      BY <3>1 DEF Scenario
    <3> QED BY <2>1, <3>2 DEF DeliveryInv, EngineTypes, DriverDies
<1>5. Routed'
  BY <1>1, DeliveryTypes DEF DeliveryInv, Routed, ChannelPc, CallbackPc, WaitPc, Answerless, Gone, Msg, Ended,
       Others, RowSame
<1>6. Cut'
  BY <1>1, DeliveryTypes DEF DeliveryInv, Cut, ReadPc, CuttingPc, Ended, Others, RowSame
<1>7. Sole'
  BY <1>1, DeliveryTypes DEF DeliveryInv, Sole, OneDriverPerRecord, Sending, Msg, Ended, Others, RowSame
<1>8. Counted'
  BY <1>1, DeliveryTypes DEF DeliveryInv, Counted, CountedPc, Sending, Msg, Ended, Others, RowSame
<1>9. Unsent'
  BY <1>1, DeliveryTypes DEF DeliveryInv, Unsent, Gone, Ended, Others, RowSame
<1>10. Ledgered'
  BY <1>1, DeliveryTypes DEF DeliveryInv, Ledgered, ReadPc, Sending, Msg, Chars, Ended, Others, RowSame
<1>11. NothingDropped'
  BY <1>1, DeliveryTypes DEF DeliveryInv, NothingDropped, Msg, Ended, Others, RowSame
<1>12. AttemptsBounded'
  BY <1>1, DeliveryTypes DEF DeliveryInv, AttemptsBounded, Msg, Ended, Others, RowSame
<1>13. WaitSettled'
  BY <1>1, DeliveryTypes DEF DeliveryInv, WaitSettled, Msg, Ended, Others, RowSame
<1> QED BY <1>2, <1>3, <1>4, <1>5, <1>6, <1>7, <1>8, <1>9, <1>10, <1>11, <1>12, <1>13 DEF DeliveryInv

----------------------------------------------------------------------------
(* The theorems. *)

LEMMA DeliveryInitInv == Init => DeliveryInv
<1> SUFFICES ASSUME Init PROVE DeliveryInv
  OBVIOUS
<1>1. StoreInit
  BY DEF Init
<1>2. StoreInv
  BY <1>1, StoreInitInv
<1>3. EngineTypes
  <2>1. IdleDrv \in Driver
    BY DeliveryConstants DEF Driver, IdleDrv
  <2>2. budget \in Scenario
    BY DeliveryConstants DEF Init
  <2> QED BY <2>1, <2>2, DeliveryConstants DEF Init, EngineTypes
<1>4. \A d \in Drivers : drv[d].pc = "idle"
  BY DEF Init, IdleDrv
<1>5. Routed /\ Cut /\ Sole /\ Counted
  BY <1>4 DEF Routed, Cut, Sole, OneDriverPerRecord, Counted, ChannelPc, CallbackPc, WaitPc, ReadPc,
       CuttingPc, Sending
<1>6. Unsent /\ Ledgered
  BY <1>4, DeliveryConstants DEF Init, Unsent, Ledgered, ReadPc, Chars
<1>7. NothingDropped /\ WaitSettled /\ AttemptsBounded
  BY <1>1, DeliveryConstants DEF Init, StoreInit, NothingDropped, WaitSettled, AttemptsBounded, Gone
<1> QED BY <1>2, <1>3, <1>5, <1>6, <1>7 DEF DeliveryInv

\* A step of the executor keeps the invariant and is a step of the record store.
LEMMA DeliveryStep == DeliveryInv /\ [Next]_vars => DeliveryInv' /\ [UnboundedNext]_storeVars
<1> SUFFICES ASSUME DeliveryInv, [Next]_vars
             PROVE  DeliveryInv' /\ [UnboundedNext]_storeVars
  OBVIOUS
<1>1. CASE UNCHANGED vars
  <2>1. UNCHANGED <<storeVars, engineVars>>
    BY <1>1 DEF vars
  <2>2. StoreInv' /\ [UnboundedNext]_storeVars
    BY <2>1, UnboundedStep DEF DeliveryInv
  <2>3. EngineTypes' /\ Routed' /\ Cut' /\ Sole'
    BY <2>1 DEF DeliveryInv, engineVars, storeVars, EngineTypes, Routed, Cut, Sole, OneDriverPerRecord, Msg
  <2>4. Counted' /\ Unsent' /\ Ledgered' /\ NothingDropped' /\ AttemptsBounded' /\ WaitSettled'
    BY <2>1 DEF DeliveryInv, engineVars, storeVars, Counted, Unsent, Ledgered, NothingDropped,
         AttemptsBounded, WaitSettled, Msg
  <2> QED BY <2>2, <2>3, <2>4 DEF DeliveryInv
<1>2. ASSUME NEW d \in Drivers, DriverStep(d) \/ DriverDies(d)
      PROVE  DeliveryInv' /\ [UnboundedNext]_storeVars
  BY <1>2, ReadRecordInv, BumpInv, FailInv, ReadLedgerInv, RefuseOversizedInv, IndexOutboundInv,
       RefreshLeaseInv,
     NotifyInv, AppendLedgerInv, ProvisionalInv, ClearLedgerInv, PostCallbackInv, ApiRefreshInv, ApiDeliveredInv,
     WaitDeliveredInv, DriverDiesInv DEF DriverStep
<1>3. ASSUME NEW d \in Drivers, NEW m \in Messages, StartDeliver(d, m) \/ StartWait(d, m)
      PROVE  DeliveryInv' /\ [UnboundedNext]_storeVars
  BY <1>3, StartDeliverInv, StartWaitInv
<1>4. ASSUME NEW m \in Messages, \/ AnswerArrives(m) \/ RecordDeliveryStatus(m) \/ ConfirmAfterGrace(m)
                                 \/ GraceElapses(m) \/ LeaseLapses(m)
      PROVE  DeliveryInv' /\ [UnboundedNext]_storeVars
  BY <1>4, AnswerArrivesInv, RecordDeliveryStatusInv, ConfirmAfterGraceInv, GraceElapsesInv, LeaseLapsesInv
<1> QED BY <1>1, <1>2, <1>3, <1>4 DEF Next

(* deliver(), mark_wait_delivered(), the receipts, the sweep, lapsing leases and dying workers, in
   any order, keep the executor's invariant. *)
THEOREM DeliveryInvariance == Spec => []DeliveryInv
<1>1. Init => DeliveryInv
  BY DeliveryInitInv
<1>2. DeliveryInv /\ [Next]_vars => DeliveryInv'
  BY DeliveryStep
<1> QED BY <1>1, <1>2, PTL DEF Spec

(* deliver() "nothing is dropped": an answer counts as sent only when every non-blank character of it
   was accepted, a record has one driver, and its attempts, refusals and callbacks are bounded. *)
THEOREM AnswersAreCarried == Spec => []AnswersCarried
<1>1. DeliveryInv => AnswersCarried
  <2> SUFFICES ASSUME DeliveryInv PROVE AnswersCarried
    OBVIOUS
  <2>1. StoreTypeOK
    BY DEF DeliveryInv, StoreInv
  <2>2. \A d \in Drivers :
          /\ drv[d].pc \in Sending \cup {"idle", "clear"}
          /\ drv[d].msg \in Messages \cup {NoMessage} /\ drv[d].tok \in Tokens \cup {NoToken}
          /\ drv[d].pos \in 0..AnswerLen /\ drv[d].cut \in 0..AnswerLen
          /\ drv[d].n \in Nat /\ drv[d].cap \in MaxCharsSet \cup {0}
    BY DEF DeliveryInv, EngineTypes, Driver
  <2>3. TypeOK
    BY <2>1, <2>2 DEF DeliveryInv, EngineTypes, TypeOK
  <2> QED BY <2>3 DEF DeliveryInv, AnswersCarried, DriversConsistent, Sole
<1> QED BY <1>1, DeliveryInvariance, PTL

\* Only an accepted chunk moves a provider's count, and it lies past the ledger.
LEMMA LedgeredStays ==
    DeliveryInv /\ [Next]_vars =>
        \A m \in Messages \ overtaken, c \in Chars : c <= ledger[m] => taken'[m][c] = taken[m][c]
<1> SUFFICES ASSUME DeliveryInv, [Next]_vars, UNCHANGED taken \/ \E d \in Drivers : Notify(d),
                    NEW m \in Messages \ overtaken, NEW c \in Chars, c <= ledger[m]
             PROVE  taken'[m][c] = taken[m][c]
  BY DEF Next, DriverStep, vars, engineVars, ReadRecord, Bump, Fail, ReadLedger, RefuseOversized, IndexOutbound,
     RefreshLease, AppendLedger, Provisional, ClearLedger, PostCallback, ApiRefresh, ApiDelivered, WaitDelivered,
     DriverDies, StartDeliver, StartWait, AnswerArrives, RecordDeliveryStatus, ConfirmAfterGrace, GraceElapses, LeaseLapses
<1>1. ASSUME NEW d \in Drivers, Notify(d)
      PROVE  taken'[m][c] = taken[m][c]
  <2>1. drv[d].pc = "notify" /\ Msg(d) \in Messages /\ (UNCHANGED taken \/ ProviderTakes(d))
    BY <1>1, DeliveryTypes DEF Notify, At
  <2>2. taken \in [Messages -> [Chars -> Nat]]
    BY DEF DeliveryInv, EngineTypes
  <2>3. m = Msg(d) => drv[d].pos = ledger[m]
    BY <2>1 DEF DeliveryInv, Ledgered, ReadPc
  <2>4. ledger[m] \in Nat /\ drv[d].pos \in Nat /\ c \in Nat
    BY DeliveryTypes DEF Chars
  <2>5. m = Msg(d) => c \notin (drv[d].pos + 1)..drv[d].cut
    BY <2>3, <2>4, DeliveryTypes
  <2> QED BY <2>1, <2>2, <2>5 DEF ProviderTakes
<1> QED BY <1>1

\* Only a driver of an unsent answer POSTs a callback, and an answer the wait returned is delivered.
LEMMA WaitStays ==
    DeliveryInv /\ [Next]_vars =>
        \A m \in Messages \ overtaken : m \in waitAnswered => posts'[m] = posts[m]
<1> SUFFICES ASSUME DeliveryInv, [Next]_vars, UNCHANGED posts \/ \E d \in Drivers : PostCallback(d),
                    NEW m \in Messages \ overtaken, m \in waitAnswered
             PROVE  posts'[m] = posts[m]
  BY DEF Next, DriverStep, vars, engineVars, ReadRecord, Bump, Fail, ReadLedger, RefuseOversized, IndexOutbound,
     RefreshLease, Notify, AppendLedger, Provisional, ClearLedger, ApiRefresh, ApiDelivered, WaitDelivered,
     DriverDies, StartDeliver, StartWait, AnswerArrives, RecordDeliveryStatus, ConfirmAfterGrace, GraceElapses, LeaseLapses
<1>1. ASSUME NEW d \in Drivers, PostCallback(d)
      PROVE  posts'[m] = posts[m]
  <2>1. drv[d].pc \in Sending
    BY <1>1 DEF PostCallback, At, Sending
  <2>2. Msg(d) # m
    BY <2>1, SoleFacts DEF DeliveryInv, WaitSettled
  <2> QED BY <1>1, <2>2 DEF PostCallback, DeliveryInv, EngineTypes
<1> QED BY <1>1

(* _decode "would re-send chunks the provider already accepted" and mark_wait_delivered "only one of
   the two paths delivers": nobody is sent again what they are known to have. *)
THEOREM NothingIsSentTwice == Spec => NothingSentTwice
<1>1. DeliveryInv /\ [Next]_vars =>
        [\A m \in Messages \ overtaken, c \in Chars : c <= ledger[m] => taken'[m][c] = taken[m][c]]_vars
  BY LedgeredStays
<1>2. DeliveryInv /\ [Next]_vars =>
        [\A m \in Messages \ overtaken : m \in waitAnswered => posts'[m] = posts[m]]_vars
  BY WaitStays
<1> QED BY <1>1, <1>2, DeliveryInvariance, PTL DEF Spec, NothingSentTwice, LedgeredNotResent,
     NoCallbackAfterWait

(* The executor is a caller of the record store that keeps its obligations: every behaviour of it is one
   of the store's, so what holds of the store holds of its rows. *)
THEOREM DeliveryImplementsStore == Spec => UnboundedSpec
<1>1. Init => StoreInit
  BY DEF Init
<1>2. DeliveryInv /\ [Next]_vars => [UnboundedNext]_storeVars
  BY DeliveryStep
<1> QED BY <1>1, <1>2, DeliveryInvariance, PTL DEF Spec, UnboundedSpec

(* The send machine only moves forward, whatever the executor's workers do. *)
THEOREM DeliveryMovesForward == Spec => ForwardOnly
BY DeliveryImplementsStore, MovesForward, PTL
===============================================================================

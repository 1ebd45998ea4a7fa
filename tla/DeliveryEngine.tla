--------------------------- MODULE DeliveryEngine ---------------------------
(***************************************************************************)
(* The conversation delivery executor (conversations/delivery.py,          *)
(* ledger.py) over the record store: any number of workers' deliver()      *)
(* tasks, the channel path with its send ledger, the API callback path,    *)
(* the sync-wait path, receipts, grace confirmation and the sweep.         *)
(*                                                                         *)
(* A driver is a slot for one running deliver() or mark_wait_delivered();  *)
(* every run takes a fresh token.  One step is one round trip (Redis, the  *)
(* channel provider, the callback).  A driver may die after any step: a    *)
(* crash, or a store fault propagating, with its last script applied.      *)
(*                                                                         *)
(* An answer is its characters 1..AnswerLen; a chunk is a range of them.   *)
(* The ledger is abstracted to the number of characters it accounts for    *)
(* (every entry counts at least one), a provider to how often it accepted  *)
(* each character.                                                         *)
(***************************************************************************)
EXTENDS RecordStore, FiniteSets

CONSTANTS
    Drivers,
    ApiMessages,        \* the messages of the API door; the others are channel ones
    AnswerLen,          \* characters of an answer
    BlankChars,         \* the whitespace positions of an answer
    MaxCharsSet,        \* the split caps a worker's settings may carry
    MaxOutboundChunks,  \* settings.max_outbound_chunks
    DeliveryMaxAttempts,\* settings.delivery_max_attempts
    Scenarios           \* the traffic and the disturbances a behaviour may meet

\* The messages that come in, and bounds on drivers dying mid-run and on live drivers
\* outlasting their delivery lease.
Scenario == [arrivals : SUBSET Messages, deaths : Nat, stalls : Nat]

ASSUME DeliveryConstants ==
    /\ ApiMessages \in SUBSET Messages
    /\ AnswerLen \in Nat \ {0} /\ BlankChars \in SUBSET (1..AnswerLen)
    /\ MaxCharsSet \in SUBSET (Nat \ {0}) /\ MaxOutboundChunks \in Nat \ {0}
    /\ DeliveryMaxAttempts \in Nat \ {0} /\ DeliveryMaxAttempts <= MaxAttempts
    /\ Scenarios \in SUBSET Scenario

VARIABLES
    drv,        \* each driver's run
    ledger,     \* characters the send ledger of a record accounts for
    outIndex,   \* records some outbound provider id resolves to
    taken,      \* how often the provider accepted each character
    refusals,   \* how often the oversized-answer reply went out
    posts,      \* callback POSTs that reached the receiver
    waited,     \* submits whose sync wait has ended
    waitAnswered, \* records whose answer the sync wait returned
    overtaken,  \* history: records whose lease lapsed under a live driver
    budget      \* what is left of the scenario

engineVars == <<drv, ledger, outIndex, taken, refusals, posts, waited, waitAnswered, overtaken, budget>>
vars == <<storeVars, engineVars>>

Chars == 1..AnswerLen
IdleDrv == [pc |-> "idle", msg |-> NoMessage, tok |-> NoToken, pos |-> 0, cut |-> 0, n |-> 0, cap |-> 0, clr |-> FALSE]
Sending == {"read", "bump", "bumpFail", "ledger", "refuse", "reindex", "loop", "notify", "append",
            "index", "provisional", "fail", "apiBump", "post", "apiMark", "apiRefresh",
            "waitBump", "waitMark"}

TypeOK ==
    /\ StoreTypeOK
    /\ \A d \in Drivers :
          /\ drv[d].pc \in Sending \cup {"idle", "clear"}
          /\ drv[d].msg \in Messages \cup {NoMessage} /\ drv[d].tok \in Tokens \cup {NoToken}
          /\ drv[d].pos \in 0..AnswerLen /\ drv[d].cut \in 0..AnswerLen
          /\ drv[d].n \in Nat /\ drv[d].cap \in MaxCharsSet \cup {0}
    /\ ledger \in [Messages -> Nat]
    /\ taken \in [Messages -> [Chars -> Nat]]
    /\ outIndex \in SUBSET Messages /\ waited \in SUBSET ApiMessages /\ waitAnswered \in SUBSET waited
    /\ overtaken \in SUBSET Messages /\ budget \in Scenario

Init ==
    /\ StoreInit
    /\ drv = [d \in Drivers |-> IdleDrv]
    /\ ledger = [m \in Messages |-> 0]
    /\ outIndex = {} /\ waited = {} /\ waitAnswered = {} /\ overtaken = {}
    /\ taken = [m \in Messages |-> [c \in Chars |-> 0]]
    /\ refusals = [m \in Messages |-> 0]
    /\ posts = [m \in Messages |-> 0]
    /\ budget \in Scenarios

----------------------------------------------------------------------------
(* Step vocabulary. *)

Min2(a, b) == IF a <= b THEN a ELSE b

At(d, l) == drv[d].pc = l
Msg(d) == drv[d].msg
\* uuid4: a token no lease and no run carries; the bound on Tokens leaves one whenever one is minted.
FreshToken(t) == (\A m \in Messages : claim[m] # t /\ intake[m] # t) /\ \A d \in Drivers : drv[d].tok # t
TokensLeft == \E t \in Tokens : FreshToken(t)
NewToken == CHOOSE t \in Tokens : FreshToken(t)

Step(d, l) == drv' = [drv EXCEPT ![d].pc = l]
End(d) == drv' = [drv EXCEPT ![d] = IdleDrv]

\* split_message: a chunk ends before the last space of its window that leaves it a head, else at the cap.
Breaks(p, cap) == {c \in BlankChars : p + 1 < c /\ c <= p + cap}
LastBreak(p, cap, c) == c \in Breaks(p, cap) /\ \A b \in Breaks(p, cap) : b <= c
ChunkEnd(p, cap) ==
    IF AnswerLen - p <= cap THEN AnswerLen
    ELSE IF \E c \in Chars : LastBreak(p, cap, c) THEN (CHOOSE c \in Chars : LastBreak(p, cap, c)) - 1
    ELSE p + cap
ChunkCount(cap) == LET n[p \in 0..AnswerLen] == IF p = AnswerLen THEN 0 ELSE 1 + n[ChunkEnd(p, cap)] IN n[0]
NextCut(d) == ChunkEnd(drv[d].pos, drv[d].cap)
Blank(a, b) == (a + 1)..b \subseteq BlankChars

\* The loop runs while characters remain, then the provisional write.
LoopPc(pos) == IF pos < AnswerLen THEN "loop" ELSE "provisional"

----------------------------------------------------------------------------
(* The turn engine's side, as far as delivery sees it. *)

AnswerArrives(m) ==
    /\ \/ m \in budget.arrivals /\ TokensLeft /\ CreateRecord(m, "accepted", NewToken)
       \/ status[m] = "accepted" /\ CompleteTurn(m, "answered")
    /\ UNCHANGED engineVars

----------------------------------------------------------------------------
(* deliver: the claim, the re-read and the guards before either path. *)

Claim(d, m, first) ==
    /\ At(d, "idle") /\ TokensLeft
    /\ ClaimDeliveryReply(m, NewToken) = 1 /\ ClaimDelivery(m, NewToken)
    /\ drv' = [drv EXCEPT ![d] = [IdleDrv EXCEPT !.pc = first, !.msg = m, !.tok = NewToken]]

StartDeliver(d, m) ==
    /\ Claim(d, m, "read")
    /\ UNCHANGED <<ledger, outIndex, taken, refusals, posts, waited, waitAnswered, overtaken, budget>>

\* Gone or moved on; attempts spent; or a config error (no split cap, no channel, no route).
ReadRecord(d) ==
    LET m == Msg(d) IN
    /\ At(d, "read")
    /\ \/ status[m] # "pending_delivery" /\ End(d)
       \/ /\ status[m] = "pending_delivery" /\ attempts[m] >= DeliveryMaxAttempts
          /\ drv' = [drv EXCEPT ![d].pc = "fail", ![d].n = attempts[m]]
       \/ /\ status[m] = "pending_delivery" /\ attempts[m] < DeliveryMaxAttempts
          /\ Step(d, "bumpFail") \/ Step(d, IF m \in ApiMessages THEN "apiBump" ELSE "bump")
    /\ UNCHANGED <<storeVars, ledger, outIndex, taken, refusals, posts, waited, waitAnswered, overtaken, budget>>

\* bump_attempt, wherever it is called, and the step after it.
Bump(d) ==
    /\ drv[d].pc \in {"bump", "bumpFail", "apiBump", "waitBump"}
    /\ BumpAttempt(Msg(d))
    /\ drv' = [drv EXCEPT ![d].n = attempts[Msg(d)] + 1,
                          ![d].pc = CASE @ = "bump"     -> "ledger"
                                      [] @ = "bumpFail" -> "fail"
                                      [] @ = "apiBump"  -> "post"
                                      [] @ = "waitBump" -> "waitMark"]
    /\ UNCHANGED <<ledger, outIndex, taken, refusals, posts, waited, waitAnswered, overtaken, budget>>

\* mark_failed; the ledger is cleared only under this worker's own terminal write.
Fail(d) ==
    /\ At(d, "fail")
    /\ MarkFailed(Msg(d), drv[d].n, drv[d].tok)
    /\ IF MarkFailedReply(Msg(d), drv[d].tok) = 1 /\ drv[d].clr THEN Step(d, "clear") ELSE End(d)
    /\ UNCHANGED <<ledger, outIndex, taken, refusals, posts, waited, waitAnswered, overtaken, budget>>

----------------------------------------------------------------------------
(* _deliver_channel. *)

\* A plausible mistake: a resume starts over from the first character.
MutantReadLedger(d) ==
    /\ At(d, "ledger")
    /\ \E cap \in MaxCharsSet :
          drv' = [drv EXCEPT ![d].pc = "loop", ![d].pos = 0, ![d].cap = cap]
    /\ UNCHANGED <<storeVars, ledger, outIndex, taken, refusals, posts, waited, waitAnswered, overtaken, budget>>

\* Where a run goes on that found so many characters accounted for.
AfterLedger(sent, cap) ==
    IF sent > AnswerLen THEN "fail"
    ELSE IF sent > 0 THEN "reindex"
    ELSE IF ChunkCount(cap) > MaxOutboundChunks THEN "refuse" ELSE LoopPc(0)

\* sent_chunks under the split cap this worker's settings carry now.
ReadLedger(d) ==
    LET sent == ledger[Msg(d)] IN
    /\ At(d, "ledger")
    /\ \E cap \in MaxCharsSet :
          drv' = [drv EXCEPT ![d].pos = Min2(sent, AnswerLen), ![d].cap = cap,
                             ![d].clr = sent > AnswerLen, ![d].pc = AfterLedger(sent, cap)]
    /\ UNCHANGED <<storeVars, ledger, outIndex, taken, refusals, posts, waited, waitAnswered, overtaken, budget>>

\* _refuse_oversized_answer: one best-effort reply, then the failed write.
RefuseOversized(d) ==
    /\ At(d, "refuse") /\ Step(d, "fail")
    /\ refusals' = [refusals EXCEPT ![Msg(d)] = @ + 1]
    /\ UNCHANGED <<storeVars, ledger, outIndex, taken, posts, waited, waitAnswered, overtaken, budget>>

\* index_outbound, of the ledger's ids on a resume or of the chunk just accepted.
IndexOutbound(d) ==
    /\ drv[d].pc \in {"reindex", "index"}
    /\ outIndex' = outIndex \cup {Msg(d)}
    /\ Step(d, LoopPc(drv[d].pos))
    /\ UNCHANGED <<storeVars, ledger, taken, refusals, posts, waited, waitAnswered, overtaken, budget>>

\* The lease refresh before each chunk; a lost lease leaves the remainder to its holder.
RefreshLease(d) ==
    /\ At(d, "loop")
    /\ ClaimDelivery(Msg(d), drv[d].tok)
    /\ IF ClaimDeliveryReply(Msg(d), drv[d].tok) = 1
       THEN drv' = [drv EXCEPT ![d].cut = NextCut(d),
                               ![d].pc = IF Blank(drv[d].pos, NextCut(d)) THEN "append" ELSE "notify"]
       ELSE End(d)
    /\ UNCHANGED <<ledger, outIndex, taken, refusals, posts, waited, waitAnswered, overtaken, budget>>

ProviderTakes(d) ==
    taken' = [taken EXCEPT ![Msg(d)] = [c \in Chars |->
                 IF c \in (drv[d].pos + 1)..drv[d].cut THEN @[c] + 1 ELSE @[c]]]

\* A plausible mistake: an indeterminate chunk is ledgered as if it had been accepted.
MutantNotify(d) ==
    /\ At(d, "notify")
    /\ \/ ProviderTakes(d) /\ Step(d, "append")
       \/ UNCHANGED taken /\ Step(d, "append")
    /\ UNCHANGED <<storeVars, ledger, outIndex, refusals, posts, waited, waitAnswered, overtaken, budget>>

\* Accepted; timed out, taken or not, and left unledgered; or refused (ChannelDeliveryError).
Notify(d) ==
    /\ At(d, "notify")
    /\ \/ ProviderTakes(d) /\ Step(d, "append")
       \/ (ProviderTakes(d) \/ UNCHANGED taken) /\ End(d)
       \/ UNCHANGED taken /\ drv' = [drv EXCEPT ![d].pc = "fail", ![d].clr = TRUE]
    /\ UNCHANGED <<storeVars, ledger, outIndex, refusals, posts, waited, waitAnswered, overtaken, budget>>

\* RPUSH: no guard, whoever holds the lease by now.
AppendLedger(d) ==
    /\ At(d, "append")
    /\ ledger' = [ledger EXCEPT ![Msg(d)] = @ + (drv[d].cut - drv[d].pos)]
    /\ drv' = [drv EXCEPT ![d].pos = drv[d].cut,
                          ![d].pc = IF Blank(drv[d].pos, drv[d].cut) THEN LoopPc(drv[d].cut) ELSE "index"]
    /\ UNCHANGED <<storeVars, outIndex, taken, refusals, posts, waited, waitAnswered, overtaken, budget>>

Provisional(d) ==
    /\ At(d, "provisional")
    /\ MarkProvisional(Msg(d), drv[d].n, drv[d].tok)
    /\ IF MarkProvisionalReply(Msg(d), drv[d].tok) = 1 THEN Step(d, "clear") ELSE End(d)
    /\ UNCHANGED <<ledger, outIndex, taken, refusals, posts, waited, waitAnswered, overtaken, budget>>

ClearLedger(d) ==
    /\ At(d, "clear") /\ End(d)
    /\ ledger' = [ledger EXCEPT ![Msg(d)] = 0]
    /\ UNCHANGED <<storeVars, outIndex, taken, refusals, posts, waited, waitAnswered, overtaken, budget>>

----------------------------------------------------------------------------
(* _deliver_api and mark_wait_delivered. *)

\* The POST reached the receiver or not; a 2xx came back only if it did.
PostCallback(d) ==
    /\ At(d, "post")
    /\ \/ posts' = [posts EXCEPT ![Msg(d)] = @ + 1] /\ Step(d, "apiMark")
       \/ /\ posts' = [posts EXCEPT ![Msg(d)] = @ + 1] \/ UNCHANGED posts
          /\ Step(d, IF drv[d].n >= DeliveryMaxAttempts THEN "fail" ELSE "apiRefresh")
    /\ UNCHANGED <<storeVars, ledger, outIndex, taken, refusals, waited, waitAnswered, overtaken, budget>>

\* The lease is extended over the backoff that precedes the next attempt.
ApiRefresh(d) ==
    /\ At(d, "apiRefresh")
    /\ ClaimDelivery(Msg(d), drv[d].tok)
    /\ IF ClaimDeliveryReply(Msg(d), drv[d].tok) = 1 THEN Step(d, "apiBump") ELSE End(d)
    /\ UNCHANGED <<ledger, outIndex, taken, refusals, posts, waited, waitAnswered, overtaken, budget>>

ApiDelivered(d) ==
    /\ At(d, "apiMark") /\ End(d)
    /\ MarkDelivered(Msg(d), drv[d].n, drv[d].tok)
    /\ UNCHANGED <<ledger, outIndex, taken, refusals, posts, waited, waitAnswered, overtaken, budget>>

StartWait(d, m) ==
    /\ m \in ApiMessages \ waited /\ waited' = waited \cup {m}
    /\ Claim(d, m, "waitBump")
    /\ UNCHANGED <<ledger, outIndex, taken, refusals, posts, waitAnswered, overtaken, budget>>

\* The answer goes out in the 200 only when the terminal write was this call's.
WaitDelivered(d) ==
    /\ At(d, "waitMark") /\ End(d)
    /\ MarkDelivered(Msg(d), drv[d].n, drv[d].tok)
    /\ waitAnswered' = IF MarkDeliveredReply(Msg(d), drv[d].tok) = 1
                       THEN waitAnswered \cup {Msg(d)} ELSE waitAnswered
    /\ UNCHANGED <<ledger, outIndex, taken, refusals, posts, waited, overtaken, budget>>

----------------------------------------------------------------------------
(* Receipts, grace, time and death. *)

RecordDeliveryStatus(m) ==
    /\ m \in outIndex
    /\ \E target \in {"delivered", "failed"} : IngestReceipt(m, target)
    /\ UNCHANGED engineVars

\* A plausible mistake: only the worker still running the delivery confirms it, so a timer lost with it is lost.
MutantConfirmAfterGrace(m) ==
    /\ grace[m] = "elapsed" /\ \E d \in Drivers : Msg(d) = m
    /\ IngestReceipt(m, "delivered")
    /\ UNCHANGED engineVars

\* The in-process timer, the boot re-drive or the sweep, once the deadline has passed.
ConfirmAfterGrace(m) ==
    /\ grace[m] = "elapsed" /\ IngestReceipt(m, "delivered")
    /\ UNCHANGED engineVars

GraceElapses(m) == ElapseGrace(m) /\ UNCHANGED engineVars

\* Settings keep one send and one POST strictly under the lease, and each is preceded by a refresh.
LeaseLapses(m) ==
    /\ LapseDelivery(m)
    /\ IF \E d \in Drivers : drv[d].tok = claim[m]
       THEN /\ budget.stalls > 0 /\ budget' = [budget EXCEPT !.stalls = @ - 1]
            /\ overtaken' = overtaken \cup {m}
       ELSE UNCHANGED <<budget, overtaken>>
    /\ UNCHANGED <<drv, ledger, outIndex, taken, refusals, posts, waited, waitAnswered>>

DriverDies(d) ==
    /\ budget.deaths > 0 /\ ~At(d, "idle")
    /\ budget' = [budget EXCEPT !.deaths = @ - 1] /\ End(d)
    /\ UNCHANGED <<storeVars, ledger, outIndex, taken, refusals, posts, waited, waitAnswered, overtaken>>

DriverStep(d) ==
    \/ ReadRecord(d) \/ Bump(d) \/ Fail(d)
    \/ ReadLedger(d) \/ RefuseOversized(d) \/ IndexOutbound(d) \/ RefreshLease(d) \/ Notify(d)
    \/ AppendLedger(d) \/ Provisional(d) \/ ClearLedger(d)
    \/ PostCallback(d) \/ ApiRefresh(d) \/ ApiDelivered(d) \/ WaitDelivered(d)

Next ==
    \/ \E d \in Drivers : DriverStep(d) \/ DriverDies(d)
    \/ \E d \in Drivers, m \in Messages : StartDeliver(d, m) \/ StartWait(d, m)
    \/ \E m \in Messages : \/ AnswerArrives(m) \/ RecordDeliveryStatus(m) \/ ConfirmAfterGrace(m)
                           \/ GraceElapses(m) \/ LeaseLapses(m)

Spec == Init /\ [][Next]_vars

(* The event loop runs every task that is ready, every provider call is cut by its timeout,
   the sweep keeps re-driving pending records and confirming elapsed ones, and the clock
   moves.  Receipts, sync waits and deaths are never owed. *)
Fairness ==
    /\ \A d \in Drivers : WF_vars(DriverStep(d))
    /\ \A m \in Messages :
          /\ WF_vars(\E d \in Drivers : StartDeliver(d, m))
          /\ WF_vars(ConfirmAfterGrace(m)) /\ WF_vars(GraceElapses(m)) /\ WF_vars(LeaseLapses(m) /\ UNCHANGED budget)

FairSpec == Spec /\ Fairness

----------------------------------------------------------------------------
(* Properties. *)

(* split_message / deliver "nothing is dropped": a channel answer counts as sent (and may be
   confirmed delivered) only when the provider has accepted every non-blank character,
   across resumes by other workers with other split caps (unless a
   driver outlasted its lease, as for the next three). *)
NothingDropped ==
    \A m \in Messages \ (ApiMessages \cup overtaken) :
        status[m] \in {"provisional", "delivered"} =>
            \A c \in Chars \ BlankChars : taken[m][c] > 0

(* _decode "would re-send chunks the provider already accepted": a character the ledger
   accounts for is never sent again; only the one indeterminate chunk past it may be. *)
LedgeredNotResent ==
    [][\A m \in Messages \ overtaken, c \in Chars : c <= ledger[m] => taken'[m][c] = taken[m][c]]_vars

(* The exactly-once claim: a record has at most one
   driver at work on it and that driver holds its lease, so the answer is sent in order by
   one worker at a time. *)
OneDriverPerRecord ==
    \A d \in Drivers : drv[d].pc \in Sending /\ Msg(d) \notin overtaken =>
        /\ claim[Msg(d)] = drv[d].tok
        /\ \A e \in Drivers \ {d} : drv[e].pc \in Sending => Msg(e) # Msg(d)

(* "every fault below is bounded by delivery_max_attempts instead of leaving the record
   pending_delivery forever": attempts, and with them refusals and callbacks, stay within it
   (the one sync wait of an API record counts on top). *)
AttemptsBounded ==
    \A m \in Messages \ overtaken :
        /\ attempts[m] <= DeliveryMaxAttempts + (IF m \in waited THEN 1 ELSE 0)
        /\ refusals[m] <= attempts[m] /\ posts[m] <= attempts[m]

(* mark_wait_delivered "only one of the two paths delivers": once the sync wait has returned
   the answer no callback is POSTed for it, by this worker or by one that takes the record
   over. *)
NoCallbackAfterWait ==
    [][\A m \in Messages \ overtaken : m \in waitAnswered => posts'[m] = posts[m]]_vars

(* Every answer reaches a terminal state, whatever the provider, the callback receiver and
   dying workers do. *)
DeliverySettles ==
    \A m \in Messages : status[m] = "pending_delivery" ~> status[m] \in Terminal

(* The drivers' invariant: their types, one lease holder per record, and bounded attempts. *)
DriversConsistent == TypeOK /\ OneDriverPerRecord /\ AttemptsBounded

\* deliver() and the sweep carry an answer through: nothing of it is dropped, and every driver's
\* place agrees with the record and the ledger.
AnswersCarried == NothingDropped /\ DriversConsistent

\* Nobody is sent again what they are known to have: neither a ledgered chunk nor, after the sync
\* wait returned the answer, the callback.
NothingSentTwice == LedgeredNotResent /\ NoCallbackAfterWait
=============================================================================

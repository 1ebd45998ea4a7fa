---------------------------- MODULE RecordStore ----------------------------
(***************************************************************************)
(* The conversation record store (conversations/records.py): the Redis     *)
(* keyspaces behind the conversation bridge, each Lua script one atomic    *)
(* operator.  A script is modelled by the reply it gives (<Script>Reply,   *)
(* the integers of the source) and by the effect it has when the reply is  *)
(* 1; any other reply leaves the store as it was.                          *)
(*                                                                         *)
(* Abstractions.  A lease value "token:expiry" is the token while it is    *)
(* live and NoToken once it has lapsed or was released: no guard of the    *)
(* scripts tells a lapsed lease from an absent one.  The passing of an     *)
(* expiry instant is an action (LapseIntake, LapseDelivery, ElapseGrace,   *)
(* ExpireRow, ExpireMarker).  The content blob is reduced to the nature of *)
(* the outcome it carries.                                                 *)
(*                                                                         *)
(* Spec is the store under arbitrary callers that keep the two obligations *)
(* the callers of records.py have (see StoreNext); the turn engine and the *)
(* delivery executor are shown to implement it.                            *)
(***************************************************************************)
EXTENDS Integers

CONSTANTS
    Messages,       \* message ids (uuid4, never minted twice)
    Pairs,          \* (channel, provider_message_id) pairs
    Tokens,         \* lease tokens
    NoToken,        \* no live lease
    NoMessage,      \* an unclaimed inbound pair
    MaxAttempts     \* bound on the attempt counter

ASSUME TokenAssumption   == NoToken \notin Tokens
ASSUME MessageAssumption == NoMessage \notin Messages
ASSUME AttemptAssumption == MaxAttempts \in Nat

\* models.py DeliveryStatus, TERMINAL_STATUSES, ANSWERLESS_STATUSES; Gone is an absent row.
Gone     == "gone"
Live     == {"accepted", "pending_delivery", "provisional"}
Terminal == {"delivered", "failed", "shed"}
Statuses == Live \cup Terminal
Answerless == {"accepted", "shed", Gone}

NoAnswer == "none"
Outcomes == {"answered", "error"}
Graces   == {"none", "running", "elapsed"}

VARIABLES
    status,     \* delivery_status of each row
    answer,     \* the outcome in the content blob
    intake,     \* the live intake lease
    claim,      \* the live delivery lease
    attempts,   \* the attempt counter
    grace,      \* the grace deadline: unset, ahead, passed
    index,      \* the per-status record index
    marker,     \* the inbound-dedupe markers
    minted      \* every id a row was ever created under

storeVars == <<status, answer, intake, claim, attempts, grace, index, marker, minted>>

StoreTypeOK ==
    /\ status \in [Messages -> Statuses \cup {Gone}]
    /\ answer \in [Messages -> Outcomes \cup {NoAnswer}]
    /\ intake \in [Messages -> Tokens \cup {NoToken}]
    /\ claim \in [Messages -> Tokens \cup {NoToken}]
    /\ attempts \in [Messages -> Nat]
    /\ grace \in [Messages -> Graces]
    /\ index \in [Statuses -> SUBSET Messages]
    /\ marker \in [Pairs -> Messages \cup {NoMessage}]
    /\ minted \in SUBSET Messages

StoreInit ==
    /\ status = [m \in Messages |-> Gone]
    /\ answer = [m \in Messages |-> NoAnswer]
    /\ intake = [m \in Messages |-> NoToken]
    /\ claim = [m \in Messages |-> NoToken]
    /\ attempts = [m \in Messages |-> 0]
    /\ grace = [m \in Messages |-> "none"]
    /\ index = [s \in Statuses |-> {}]
    /\ marker = [p \in Pairs |-> NoMessage]
    /\ minted = {}

----------------------------------------------------------------------------
(* The status index (keyspace 6). *)

Reindex(m, s) ==
    index' = [x \in Statuses |-> IF x = s THEN index[x] \cup {m} ELSE index[x] \ {m}]

Unindex(m) == index' = [x \in Statuses |-> index[x] \ {m}]

(* prune_expired_terminal_indexes, and the same ZREMRANGEBYSCORE every listing starts with:
   the members whose row has expired. *)
PruneIndexes ==
    /\ index' = [s \in Statuses |-> IF s \in Terminal
                                    THEN {m \in index[s] : status[m] # Gone}
                                    ELSE index[s]]
    /\ UNCHANGED <<status, answer, intake, claim, attempts, grace, marker, minted>>

----------------------------------------------------------------------------
(* Inbound dedupe (keyspace 1). *)

\* get-or-set: the id the pair is committed to after the call.
ClaimInboundReply(p, m) == IF marker[p] = NoMessage THEN m ELSE marker[p]

ClaimInbound(p, m) ==
    /\ marker' = [marker EXCEPT ![p] = ClaimInboundReply(p, m)]
    /\ UNCHANGED <<status, answer, intake, claim, attempts, grace, index, minted>>

ExpireMarker(p) ==
    /\ marker' = [marker EXCEPT ![p] = NoMessage]
    /\ UNCHANGED <<status, answer, intake, claim, attempts, grace, index, minted>>

----------------------------------------------------------------------------
(* The answer record (keyspace 2). *)

(* An accepted record is created holding its intake lease; the only other state a record
   is created in is shed. *)
CreateRecord(m, s, t) ==
    /\ m \notin minted
    /\ minted' = minted \cup {m}
    /\ status' = [status EXCEPT ![m] = s]
    /\ intake' = [intake EXCEPT ![m] = IF s = "accepted" THEN t ELSE NoToken]
    /\ attempts' = [attempts EXCEPT ![m] = 0]
    /\ Reindex(m, s)
    /\ UNCHANGED <<answer, claim, grace, marker>>

\* A plausible mistake: the status guard is dropped, so a late turn overwrites an outcome.
MutantCompleteTurnReply(m) == IF status[m] \in {Gone} \cup Terminal THEN -1 ELSE 1

CompleteTurnReply(m) ==
    CASE status[m] = Gone       -> -1
      [] status[m] = "accepted" -> 1
      [] OTHER                  -> 0

CompleteTurn(m, a) ==
    IF CompleteTurnReply(m) = 1
    THEN /\ status' = [status EXCEPT ![m] = "pending_delivery"]
         /\ answer' = [answer EXCEPT ![m] = a]
         /\ intake' = [intake EXCEPT ![m] = NoToken]
         /\ Reindex(m, "pending_delivery")
         /\ UNCHANGED <<claim, attempts, grace, marker, minted>>
    ELSE UNCHANGED storeVars

\* A plausible mistake: a live lease of another worker no longer refuses the adoption.
MutantClaimIntakeReply(m, t) ==
    CASE status[m] = Gone -> -1
      [] status[m] = "accepted" -> 1
      [] OTHER -> -2

ClaimIntakeReply(m, t) ==
    CASE status[m] = Gone       -> -1
      [] status[m] = "accepted" -> IF intake[m] \in {NoToken, t} THEN 1 ELSE 0
      [] OTHER                  -> -2

ClaimIntake(m, t) ==
    IF ClaimIntakeReply(m, t) = 1
    THEN /\ intake' = [intake EXCEPT ![m] = t]
         /\ UNCHANGED <<status, answer, claim, attempts, grace, index, marker, minted>>
    ELSE UNCHANGED storeVars

\* _foreign_lease_guard: a DIFFERENT worker holds a live delivery lease.
ForeignLease(m, t) == claim[m] \notin {NoToken, t}

\* A plausible mistake: a provisional record, already sent, can be claimed for a second send.
MutantClaimDeliveryReply(m, t) ==
    CASE status[m] = Gone -> -1
      [] status[m] = "accepted" -> -2
      [] status[m] \in {"pending_delivery", "provisional"} -> IF ForeignLease(m, t) THEN 0 ELSE 1
      [] OTHER -> 0

ClaimDeliveryReply(m, t) ==
    CASE status[m] = Gone               -> -1
      [] status[m] = "accepted"         -> -2
      [] status[m] = "pending_delivery" -> IF ForeignLease(m, t) THEN 0 ELSE 1
      [] OTHER                          -> 0

ClaimDelivery(m, t) ==
    IF ClaimDeliveryReply(m, t) = 1
    THEN /\ claim' = [claim EXCEPT ![m] = t]
         /\ UNCHANGED <<status, answer, intake, attempts, grace, index, marker, minted>>
    ELSE UNCHANGED storeVars

\* HINCRBY has no guard at all: it counts on whatever row there is.
BumpAttempt(m) ==
    /\ attempts' = [attempts EXCEPT ![m] = @ + 1]
    /\ UNCHANGED <<status, answer, intake, claim, grace, index, marker, minted>>

MarkProvisionalReply(m, t) ==
    CASE status[m] = Gone      -> -1
      [] status[m] \in Terminal -> 0
      [] status[m] \in Live     -> IF ForeignLease(m, t) THEN -3 ELSE 1

MarkProvisional(m, n, t) ==
    IF MarkProvisionalReply(m, t) = 1
    THEN /\ status' = [status EXCEPT ![m] = "provisional"]
         /\ attempts' = [attempts EXCEPT ![m] = n]
         /\ grace' = [grace EXCEPT ![m] = "running"]
         /\ claim' = [claim EXCEPT ![m] = NoToken]
         /\ Reindex(m, "provisional")
         /\ UNCHANGED <<answer, intake, marker, minted>>
    ELSE UNCHANGED storeVars

\* The common effect of the three terminal writes.
Settle(m, s) ==
    /\ status' = [status EXCEPT ![m] = s]
    /\ claim' = [claim EXCEPT ![m] = NoToken]
    /\ grace' = [grace EXCEPT ![m] = "none"]
    /\ Reindex(m, s)
    /\ UNCHANGED <<answer, intake, marker, minted>>

\* A plausible mistake: a send that has been failed can still be marked delivered.
MutantMarkDeliveredReply(m, t) ==
    CASE status[m] = Gone        -> -1
      [] status[m] = "shed"      -> -2
      [] status[m] = "delivered" -> 0
      [] OTHER                   -> IF ForeignLease(m, t) THEN -3 ELSE 1

MarkDeliveredReply(m, t) ==
    CASE status[m] = Gone               -> -1
      [] status[m] \in {"failed", "shed"} -> -2
      [] status[m] = "delivered"        -> 0
      [] status[m] \in Live             -> IF ForeignLease(m, t) THEN -3 ELSE 1

MarkDelivered(m, n, t) ==
    IF MarkDeliveredReply(m, t) = 1
    THEN /\ Settle(m, "delivered")
         /\ attempts' = [attempts EXCEPT ![m] = n]
    ELSE UNCHANGED storeVars

MarkFailedReply(m, t) ==
    CASE status[m] = Gone                                  -> -1
      [] status[m] \in {"delivered", "shed", "provisional"} -> -2
      [] status[m] = "failed"                              -> 0
      [] status[m] \in {"accepted", "pending_delivery"}    -> IF ForeignLease(m, t) THEN -3 ELSE 1

MarkFailed(m, n, t) ==
    IF MarkFailedReply(m, t) = 1
    THEN /\ Settle(m, "failed")
         /\ attempts' = [attempts EXCEPT ![m] = n]
    ELSE UNCHANGED storeVars

IngestReceiptReply(m, target) ==
    CASE status[m] = Gone                           -> -1
      [] status[m] = target                         -> 0
      [] status[m] \in Terminal \ {target}          -> -2
      [] status[m] \in {"accepted", "pending_delivery"} -> -3
      [] status[m] = "provisional"                  -> 1

IngestReceipt(m, target) ==
    IF IngestReceiptReply(m, target) = 1
    THEN Settle(m, target) /\ UNCHANGED attempts
    ELSE UNCHANGED storeVars

\* The row vanishes: every field with it.
EraseRow(m) ==
    /\ status' = [status EXCEPT ![m] = Gone]
    /\ answer' = [answer EXCEPT ![m] = NoAnswer]
    /\ intake' = [intake EXCEPT ![m] = NoToken]
    /\ claim' = [claim EXCEPT ![m] = NoToken]
    /\ attempts' = [attempts EXCEPT ![m] = 0]
    /\ grace' = [grace EXCEPT ![m] = "none"]
    /\ UNCHANGED <<marker, minted>>

DeleteRecord(m) == EraseRow(m) /\ Unindex(m)

----------------------------------------------------------------------------
(* Time. *)

LapseIntake(m) ==
    /\ intake[m] # NoToken
    /\ intake' = [intake EXCEPT ![m] = NoToken]
    /\ UNCHANGED <<status, answer, claim, attempts, grace, index, marker, minted>>

LapseDelivery(m) ==
    /\ claim[m] # NoToken
    /\ claim' = [claim EXCEPT ![m] = NoToken]
    /\ UNCHANGED <<status, answer, intake, attempts, grace, index, marker, minted>>

ElapseGrace(m) ==
    /\ grace[m] = "running"
    /\ grace' = [grace EXCEPT ![m] = "elapsed"]
    /\ UNCHANGED <<status, answer, intake, claim, attempts, index, marker, minted>>

\* The retention TTL, set by the terminal write alone; the index member outlives the row.
ExpireRow(m) == status[m] \in Terminal /\ EraseRow(m) /\ UNCHANGED index

----------------------------------------------------------------------------
(***************************************************************************)
(* The store under any callers.  The callers' obligations: a delivery      *)
(* write is made by a worker that once won the delivery claim, so never on *)
(* a record still at intake; a row is deleted only while it carries no     *)
(* answer.                                                                 *)
(***************************************************************************)
StoreNext ==
    \/ \E m \in Messages, t \in Tokens :
          \/ \E s \in {"accepted", "shed"} : CreateRecord(m, s, t)
          \/ ClaimIntake(m, t)
          \/ ClaimDelivery(m, t)
          \/ /\ status[m] # "accepted"
             /\ \E n \in 0..MaxAttempts :
                   MarkProvisional(m, n, t) \/ MarkDelivered(m, n, t) \/ MarkFailed(m, n, t)
    \/ \E m \in Messages :
          \/ \E a \in Outcomes : CompleteTurn(m, a)
          \/ attempts[m] < MaxAttempts /\ BumpAttempt(m)
          \/ \E target \in {"delivered", "failed"} : IngestReceipt(m, target)
          \/ status[m] \in Answerless /\ DeleteRecord(m)
          \/ LapseIntake(m) \/ LapseDelivery(m) \/ ElapseGrace(m) \/ ExpireRow(m)
    \/ \E p \in Pairs : ExpireMarker(p) \/ \E m \in Messages : ClaimInbound(p, m)
    \/ PruneIndexes

StoreSpec == StoreInit /\ [][StoreNext]_storeVars

----------------------------------------------------------------------------
(* Properties. *)

(* records.py "so exactly one index names it and a listing never walks the record
   keyspace": every row is in the index of its own status and in no other, and only a
   terminal row's member may outlive it, so no sweep misses a live record or lists one
   that has moved on or is gone. *)
IndexExact ==
    \A m \in Messages :
        /\ status[m] # Gone => \A s \in Statuses : (m \in index[s] <=> s = status[m])
        /\ status[m] = Gone => \A s \in Live : m \notin index[s]

(* models.py _outcome_matches_status and the two leases: a row carries an outcome exactly
   when its status says so, an intake lease only while at intake, a delivery lease only
   while its answer is unsent. *)
RowConsistent ==
    \A m \in Messages :
        /\ (answer[m] = NoAnswer) <=> (status[m] \in Answerless)
        /\ intake[m] # NoToken => status[m] = "accepted"
        /\ claim[m] # NoToken => status[m] = "pending_delivery"
        /\ grace[m] # "none" => status[m] = "provisional"

(* records.py "racing writers produce ONE outcome, never two": once a row carries an
   outcome no writer replaces it, however many finish late. *)
OutcomeOnce ==
    [][\A m \in Messages :
          answer[m] # NoAnswer => answer'[m] = answer[m] \/ status'[m] = Gone]_storeVars

\* The moves a row may make, creation included.
LegalMoves ==
    {<<Gone, "accepted">>, <<Gone, "shed">>,
     <<"accepted", "pending_delivery">>, <<"accepted", Gone>>,
     <<"pending_delivery", "provisional">>, <<"pending_delivery", "delivered">>,
     <<"pending_delivery", "failed">>, <<"provisional", "delivered">>,
     <<"provisional", "failed">>} \cup (Terminal \X {Gone})

(* The send machine only moves forward: no completed send is undone, no terminal state
   left except by retention expiry, whatever order the workers' writes land in. *)
ForwardOnly ==
    [][\A m \in Messages :
          status'[m] # status[m] => <<status[m], status'[m]>> \in LegalMoves]_storeVars

(* The store's invariant, that every caller relies on and every write keeps: types, rows and
   indexes together. *)
StoreConsistent == StoreTypeOK /\ RowConsistent /\ IndexExact
=============================================================================

------------------------------- MODULE Limits -------------------------------
(***************************************************************************)
(* What bounds the work a caller can cause: the token bucket of each       *)
(* address (conversations/caps.py), the fixed-window limiter of the public *)
(* doors (middleware/rate_limit.py) and the cap on a request's body        *)
(* (middleware/body_limit.py).  Time passes in ticks; a token is LmHour    *)
(* units, so a bucket refills by its hourly rate every tick.               *)
(***************************************************************************)
EXTENDS Integers, FiniteSets, FiniteSetsExt, Sequences, SequencesExt

CONSTANTS
    LmHour,        \* ticks in an hour
    LmKeys,        \* bucket keys
    LmRates,       \* values of per_address_turns_per_hour
    LmSizes,       \* values of address_bucket_max_entries
    LmLong, LmShort,   \* ticks in the two windows of a door
    LmLimit, LmBurst,  \* hits each window admits
    LmClients,     \* clients of the doors
    LmNet,         \* the network each address is bucketed by
    LmProxies,     \* settings.trusted_proxies
    LmChains,      \* proxies a request may come through
    LmForged,      \* what a client may write into X-Forwarded-For
    LmCap,         \* max_body_bytes
    LmChunks,      \* sizes of a body's messages
    MaxLmTime,     \* bound: ticks
    MaxLmHits      \* bound: hits

(* A client is no proxy of ours, and what comes through a proxy came through *)
(* proxies only.                                                           *)
ASSUME LmConstants ==
    /\ LmHour \in Nat \ {0} /\ LmRates \subseteq Nat \ {0} /\ \E top \in LmRates : \A rate \in LmRates : rate <= top
    /\ LmLong \in Nat \ {0} /\ LmShort \in Nat \ {0} /\ LmLimit \in Nat /\ LmBurst \in Nat
    /\ LmClients \cap LmProxies = {} /\ LmChains \subseteq Seq(LmProxies) /\ LmForged \subseteq Seq(DOMAIN LmNet)
    /\ LmCap \in Nat /\ LmChunks \subseteq Nat /\ MaxLmHits \in Nat

VARIABLES
    lmNow, lmLeft,
    lmRate, lmSize,    \* the settings the caps run with
    lmBuckets,         \* key -> its bucket
    lmEvicted,         \* keys that lost a bucket to the size bound (history)
    lmAdmitted,        \* key -> times of its admitted turns (history)
    lmReplies,         \* key -> times of its slow-down replies (history)
    lmCounts,          \* hits counted so far, by window and bucket
    lmPassed,          \* passed hits: client and time (history)
    lmBody             \* the request whose body is read

lmBucketVars == <<lmRate, lmSize, lmBuckets, lmEvicted, lmAdmitted, lmReplies>>
lmDoorVars == <<lmCounts, lmPassed>>
lmVars == <<lmNow, lmLeft, lmBucketVars, lmDoorVars, lmBody>>

NoBody == [step |-> "none"]

LmInit ==
    /\ lmNow = 0 /\ lmLeft = MaxLmHits
    /\ lmRate \in LmRates /\ lmSize \in LmSizes
    /\ lmBuckets = [k \in {} |-> 0] /\ lmEvicted = {}
    /\ lmAdmitted = [k \in LmKeys |-> << >>] /\ lmReplies = [k \in LmKeys |-> << >>]
    /\ lmCounts = [x \in {} |-> 0] /\ lmPassed = {} /\ lmBody = NoBody

Hit == lmLeft > 0 /\ lmLeft' = lmLeft - 1
Tick == lmNow < MaxLmTime /\ lmNow' = lmNow + 1 /\ UNCHANGED <<lmLeft, lmBucketVars, lmDoorVars, lmBody>>

----------------------------------------------------------------------------
(* The token bucket of a key; `paid` is the newest slow-down reply.          *)
NewBucket == [tokens |-> lmRate * LmHour, rate |-> lmRate, updated |-> lmNow, seen |-> lmNow, paid |-> -1, paidRate |-> lmRate]

Refilled(b) == [b EXCEPT !.tokens = Min({b.rate * LmHour, @ + (lmNow - b.updated) * b.rate}), !.updated = lmNow]

(* _BUCKET_IDLE_SECONDS.                                                    *)
Idle == LmHour
LiveBuckets == {k \in DOMAIN lmBuckets : lmNow < lmBuckets[k].seen + Idle}

LastSeen == [l \in LiveBuckets |-> lmBuckets[l].seen]

(* The cache's size: of the keys given, those that stay, oldest out first. *)
Fits(keys, seen, size) ==
    {kept \in SUBSET keys : /\ Cardinality(kept) = Min({Cardinality(keys), size})
                            /\ \A k \in kept, l \in keys \ kept : seen[l] <= seen[k]}

(* admit_address.                                                           *)
AdmitAddress(k) ==
    LET b == [Refilled(IF k \in LiveBuckets THEN lmBuckets[k] ELSE NewBucket) EXCEPT !.seen = lmNow]
        admitted == b.tokens >= LmHour
        replies == ~admitted /\ (b.paid = -1 \/ (lmNow - b.paid) * b.paidRate >= LmHour)
        after == [b EXCEPT !.tokens = IF admitted THEN @ - LmHour ELSE @,
                           !.paid = IF replies THEN lmNow ELSE @, !.paidRate = IF replies THEN b.rate ELSE @] IN
    /\ Hit
    /\ \E others \in Fits(LiveBuckets \ {k}, LastSeen, lmSize - 1) :
          /\ lmBuckets' = [l \in others \cup {k} |-> IF l = k THEN after ELSE lmBuckets[l]]
          /\ lmEvicted' = lmEvicted \cup (LiveBuckets \ (others \cup {k}))
    /\ lmAdmitted' = IF admitted THEN [lmAdmitted EXCEPT ![k] = Append(@, lmNow)] ELSE lmAdmitted
    /\ lmReplies' = IF replies THEN [lmReplies EXCEPT ![k] = Append(@, lmNow)] ELSE lmReplies
    /\ UNCHANGED <<lmNow, lmRate, lmSize, lmDoorVars, lmBody>>

(* reconfigure: the live buckets are re-rated in place, never given tokens;  *)
(* another size copies them into another cache, which restarts their idle   *)
(* time.                                                                   *)
Rerated(b, rate, size) ==
    [b EXCEPT !.rate = rate, !.tokens = Min({@, rate * LmHour}), !.seen = IF size = lmSize THEN @ ELSE lmNow]

Reconfigure(rate, size) ==
    /\ Hit /\ <<rate, size>> # <<lmRate, lmSize>>
    /\ lmRate' = rate /\ lmSize' = size
    /\ \E kept \in Fits(LiveBuckets, LastSeen, size) :
          /\ lmBuckets' = [l \in kept |-> Rerated(lmBuckets[l], rate, size)]
          /\ lmEvicted' = lmEvicted \cup (LiveBuckets \ kept)
    /\ UNCHANGED <<lmNow, lmAdmitted, lmReplies, lmDoorVars, lmBody>>

----------------------------------------------------------------------------
(* A hit on a public door, from a client, directly or through proxies which  *)
(* append the address they saw.                                            *)
\* A plausible mistake: the first hop is taken for the client.
MutantClientBucket(peer, hops) == LmNet[IF peer \in LmProxies /\ hops # << >> THEN hops[1] ELSE peer]

(* _client_bucket: the right-most hop that is not a proxy of ours.           *)
ClientBucket(peer, hops) ==
    LET outside == {i \in DOMAIN hops : hops[i] \notin LmProxies}
    IN LmNet[IF peer \in LmProxies /\ outside # {} THEN hops[Max(outside)] ELSE peer]

(* _retry_after: both counters count the hit, passed or not.                 *)
Counter(w, b) == [w |-> w, n |-> lmNow \div (IF w = "long" THEN LmLong ELSE LmShort), b |-> b]
CountOf(x) == 1 + IF x \in DOMAIN lmCounts THEN lmCounts[x] ELSE 0
Within(b) == CountOf(Counter("long", b)) <= LmLimit /\ CountOf(Counter("short", b)) <= LmBurst

DoorHit(c, forged, via) ==
    LET peer == IF via = << >> THEN c ELSE Last(via)
        hops == forged \o (IF via = << >> THEN << >> ELSE <<c>> \o Front(via))
        b == ClientBucket(peer, hops)
        both == {Counter("long", b), Counter("short", b)} IN
    /\ Hit
    /\ lmCounts' = [x \in DOMAIN lmCounts \cup both |-> IF x \in both THEN CountOf(x) ELSE lmCounts[x]]
    /\ lmPassed' = IF Within(b) THEN lmPassed \cup {[c |-> c, t |-> lmNow, i |-> lmLeft]} ELSE lmPassed
    /\ UNCHANGED <<lmNow, lmBucketVars, lmBody>>

----------------------------------------------------------------------------
(* A request's body: a declared length over the cap is refused at once,      *)
StartBody(declared) ==
    /\ Hit /\ lmBody.step \in {"none", "over"}
    /\ lmBody' = [step |-> IF declared > LmCap THEN "over" ELSE "open", read |-> 0, seen |-> 0, head |-> FALSE,
                  answers |-> IF declared > LmCap THEN 1 ELSE 0]
    /\ UNCHANGED <<lmNow, lmBucketVars, lmDoorVars>>

(* an over-cap body too, unless the response has begun: then the error is    *)
(* raised,                                                                 *)
Refused413(b) == [b EXCEPT !.step = "over", !.answers = IF b.head THEN @ ELSE @ + 1]

(* limited_receive: before the application sees the message.                 *)
ReceiveChunk(n) ==
    LET b == [lmBody EXCEPT !.read = @ + n] IN
    /\ lmBody.step = "open"
    /\ lmBody' = IF b.read > LmCap THEN Refused413(b) ELSE [b EXCEPT !.seen = b.read]
    /\ UNCHANGED <<lmNow, lmLeft, lmBucketVars, lmDoorVars>>

(* The application begins its response, and ends.                           *)
Respond ==
    /\ lmBody.step = "open" /\ ~lmBody.head
    /\ lmBody' = [lmBody EXCEPT !.head = TRUE, !.answers = @ + 1]
    /\ UNCHANGED <<lmNow, lmLeft, lmBucketVars, lmDoorVars>>

BodyEnds ==
    /\ lmBody.step = "open" /\ lmBody.head /\ lmBody' = [lmBody EXCEPT !.step = "over"]
    /\ UNCHANGED <<lmNow, lmLeft, lmBucketVars, lmDoorVars>>

----------------------------------------------------------------------------
BucketStep == Tick \/ (\E k \in LmKeys : AdmitAddress(k)) \/ (\E rate \in LmRates, size \in LmSizes : Reconfigure(rate, size))
DoorStep == Tick \/ \E c \in LmClients, forged \in LmForged, via \in LmChains : DoorHit(c, forged, via)
BodyStep == (\E n \in LmChunks : StartBody(n) \/ ReceiveChunk(n)) \/ Respond \/ BodyEnds

LmSpec == LmInit /\ [][BucketStep \/ DoorStep \/ BodyStep]_lmVars

(* However bursts, pauses, expiry and reloads fall: a key that lost no        *)
(* bucket to the size bound runs no more turns in any stretch of time than a *)
(* full bucket and what the stretch refills, and is told to slow down once   *)
(* in a refill window.                                                     *)
TopRate == Max(LmRates)
BucketsBound ==
    \A k \in LmKeys \ lmEvicted :
        LET a == lmAdmitted[k]
            r == lmReplies[k] IN
        /\ \A i \in 1..Len(a) : \A j \in i..Len(a) : (j - i + 1) * LmHour <= TopRate * LmHour + (a[j] - a[i]) * TopRate
        /\ \A i \in 1..(Len(r) - 1) : (r[i + 1] - r[i]) * TopRate >= LmHour

(* No network passes a door more often in a window than the window admits,   *)
(* whatever its clients write into the forwarding header and whichever       *)
(* proxies they come through.                                               *)
DoorsBound ==
    \A net \in {LmNet[c] : c \in LmClients}, t \in 0..lmNow :
        LET by(width) == Cardinality({x \in lmPassed : LmNet[x.c] = net /\ x.t \div width = t \div width})
        IN by(LmLong) <= LmLimit /\ by(LmShort) <= LmBurst

(* The application is never handed more than the cap, and a request is       *)
(* answered once, whenever the body turns out too large.                    *)
BodyBound == lmBody.step # "none" => lmBody.seen <= LmCap /\ lmBody.answers <= 1

\* The three limits: tokens of an address, hits of a client's door, bytes of a body.
LimitsHold == BucketsBound /\ DoorsBound /\ BodyBound
=============================================================================

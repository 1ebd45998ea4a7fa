---------------------------- MODULE TokenRefresh ----------------------------
(***************************************************************************)
(* Token resolution for managed MCP calls (connectors/runtime/resolver.py) *)
(* under the best-effort connection lock and the refresh breaker           *)
(* (connectors/runtime/locks.py), and the call that uses the token         *)
(* (connectors/token_injection.py, tools/adapters/mcp_tool_to_func.py).    *)
(*                                                                         *)
(* One OAuth connection, several replicas.  The stored record is read and  *)
(* compared-and-set atomically; TokenStore is what stands behind it.  The  *)
(* provider numbers its grants: mint n yields access token n and, when it  *)
(* rotates, refresh token n, and then accepts only the newest of each.     *)
(***************************************************************************)
EXTENDS Integers, FiniteSets

CONSTANTS
    Replicas, Nobody,
    Budget,         \* TRANSIENT_RETRY_BUDGET
    MaxMints,       \* bound: grants of the provider
    RfScenarios       \* the providers and disturbances to explore

(* A scenario: whether the provider rotates refresh tokens and keeps one   *)
(* access token alive; and the bounds on transient failures (lost answers, *)
(* dropped sessions, crashes), on bodies that outlive their lock or run    *)
(* without it, and on tokens that go stale or are refused before their     *)
(* time.                                                                   *)
RfScenario == [rotating : BOOLEAN, faults : Nat, stalls : Nat, aging : Nat]

ASSUME RefreshConstants ==
    /\ Nobody \notin Replicas /\ Budget \in Nat \ {0} /\ MaxMints \in Nat \ {0}
    /\ \A s \in RfScenarios : s \in RfScenario

VARIABLES
    rec,        \* the stored record; blob is the number of the write that produced it
    prov,       \* the provider: mints so far, the refresh token and the access tokens it accepts
    rfLock,       \* the replica whose token is in the lock key
    breaker,    \* the refresh cooldown is open
    call,       \* each replica's managed call
    stalled,    \* a body has run without its lock (history)
    uncleared,  \* the breaker outlived the repair of the record: its removal failed or was cut off (history)
    rfBudget      \* the scenario, its bounds counting down

rfVars == <<rec, prov, rfLock, breaker, call, stalled, uncleared, rfBudget>>

RfIdle == [pc |-> "idle", force |-> FALSE, token |-> 0, blob |-> 0, rt |-> 0, got |-> 0, tries |-> 0, again |-> FALSE]
RfSteps == {"idle", "load", "cooldown", "lock", "locked", "probe", "refresh", "store", "dead", "failing", "clear", "open", "peer",
            "sent", "reclear"}
\* A call in one of these steps is outside the locked part.
Outside == {"idle", "load", "cooldown", "lock", "sent"}
Health == {"healthy", "failing", "reconnect"}

RfTypeOK ==
    /\ rec \in [at : 1 .. MaxMints, rt : 1 .. MaxMints, health : Health, fresh : BOOLEAN, blob : Nat]
    /\ prov.mints \in 1 .. MaxMints /\ prov.rt \in 0 .. MaxMints /\ prov.alive \subseteq 1 .. MaxMints
    /\ rfLock \in Replicas \cup {Nobody} /\ breaker \in BOOLEAN /\ uncleared \in BOOLEAN
    /\ \A r \in Replicas :
        /\ call[r].pc \in RfSteps /\ call[r].tries \in 0 .. Budget
        /\ call[r].pc \in {"probe", "refresh", "store", "dead", "failing"} => call[r].rt \in 1 .. MaxMints
        /\ call[r].pc = "sent" \/ (call[r].force /\ call[r].pc \in {"lock", "locked"}) => call[r].token \in 1 .. MaxMints
        /\ call[r].pc = "store" <=> call[r].got # 0

RfInit ==
    /\ rec = [at |-> 1, rt |-> 1, health |-> "healthy", fresh |-> TRUE, blob |-> 0]
    /\ prov = [mints |-> 1, rt |-> 1, alive |-> {1}]
    /\ rfLock = Nobody /\ breaker = FALSE /\ call = [r \in Replicas |-> RfIdle]
    /\ stalled = FALSE /\ uncleared = FALSE /\ rfBudget \in RfScenarios

At(r, pc) == call[r].pc = pc
RfGo(r, pc) == call' = [call EXCEPT ![r].pc = pc]
End(r) == call' = [call EXCEPT ![r] = RfIdle]
Send(r, token) == call' = [call EXCEPT ![r] = [RfIdle EXCEPT !.pc = "sent", !.token = token, !.force = call[r].force, !.again = call[r].again]]

\* _RELEASE_LUA: only the holder's token deletes the key.
Release(r) == rfLock' = IF rfLock = r THEN Nobody ELSE rfLock

RfSpend(b) == rfBudget[b] > 0 /\ rfBudget' = [rfBudget EXCEPT ![b] = @ - 1]
RfFault == RfSpend("faults") /\ UNCHANGED stalled
Stall == RfSpend("stalls") /\ stalled' = TRUE

----------------------------------------------------------------------------
(* resolve_managed_auth and force_refresh up to the refresh *)

RfBegin(r) ==
    /\ At(r, "idle") /\ RfGo(r, "load")
    /\ UNCHANGED <<rec, prov, rfLock, breaker, stalled, uncleared, rfBudget>>

\* The hot path: no lock for a healthy token that is still fresh.
Resolve(r) ==
    /\ At(r, "load")
    /\ \/ rec.health = "reconnect" /\ End(r)
       \/ rec.health = "healthy" /\ rec.fresh /\ Send(r, rec.at)
       \/ /\ rec.health = "failing" \/ (rec.health = "healthy" /\ ~rec.fresh)
          /\ RfGo(r, "cooldown")
    /\ UNCHANGED <<rec, prov, rfLock, breaker, stalled, uncleared, rfBudget>>

\* refresh_cooldown_active: an error of Redis counts as no cooldown.
BreakerSeen == breaker /\ UNCHANGED <<stalled, rfBudget>>
BreakerUnseen == (~breaker /\ UNCHANGED <<stalled, rfBudget>>) \/ (breaker /\ RfFault)

\* Fails fast before it queues on the lock.
Cooldown(r) ==
    /\ At(r, "cooldown")
    /\ \/ BreakerSeen /\ End(r)
       \/ BreakerUnseen /\ RfGo(r, "lock")
    /\ UNCHANGED <<rec, prov, rfLock, breaker, uncleared>>

Acquire(r) ==
    /\ At(r, "lock") /\ rfLock = Nobody /\ rfLock' = r /\ RfGo(r, "locked")
    /\ UNCHANGED <<rec, prov, breaker, stalled, uncleared, rfBudget>>

\* The wait timed out, or Redis is away: the body runs without the lock.
GiveUpLock(r) ==
    /\ At(r, "lock") /\ Stall /\ RfGo(r, "locked")
    /\ UNCHANGED <<rec, prov, rfLock, breaker, uncleared>>

\* A plausible mistake: force_refresh does not look whether a peer has replaced the refused token.
MutantSuperseded(c) == FALSE

\* The fences under the lock: a resolved token is fresh again, or the refused one was replaced.
Superseded(c) == IF c.force THEN rec.at # c.token ELSE rec.health = "healthy" /\ rec.fresh

\* _serve_peer, and the fresh record served under the lock.
ServeRecord(r) == IF rec.health = "healthy" THEN Send(r, rec.at) ELSE End(r)

RfReload(r) ==
    LET c == call[r] IN
    /\ At(r, "locked")
    /\ IF rec.health = "reconnect" THEN End(r) /\ Release(r)
       ELSE IF Superseded(c) THEN ServeRecord(r) /\ Release(r)
       ELSE /\ call' = [call EXCEPT ![r] = [@ EXCEPT !.pc = "probe", !.blob = rec.blob, !.rt = rec.rt, !.token = 0]]
            /\ UNCHANGED rfLock
    /\ UNCHANGED <<rec, prov, breaker, stalled, uncleared, rfBudget>>

\* A peer may have opened the breaker meanwhile.
Probe(r) ==
    /\ At(r, "probe")
    /\ \/ BreakerSeen /\ End(r) /\ Release(r)
       \/ BreakerUnseen /\ RfGo(r, "refresh") /\ UNCHANGED rfLock
    /\ UNCHANGED <<rec, prov, breaker, uncleared>>

----------------------------------------------------------------------------
(* _refresh *)

\* The provider exchanges a refresh token it accepts.
Mint ==
    LET n == prov.mints + 1 IN
    /\ prov.mints < MaxMints
    /\ prov' = [mints |-> n, rt |-> IF rfBudget.rotating THEN n ELSE prov.rt,
                alive |-> IF rfBudget.rotating THEN {n} ELSE prov.alive \cup {n}]

RefreshOk(r) ==
    /\ At(r, "refresh") /\ call[r].rt = prov.rt /\ Mint
    /\ call' = [call EXCEPT ![r] = [@ EXCEPT !.pc = "store", !.got = prov.mints + 1, !.tries = 0]]
    /\ UNCHANGED <<rec, rfLock, breaker, stalled, uncleared, rfBudget>>

\* invalid_grant: the refresh token is not the one the provider accepts.
RefreshRefused(r) ==
    /\ At(r, "refresh") /\ call[r].rt # prov.rt
    /\ call' = [call EXCEPT ![r] = [@ EXCEPT !.pc = "dead", !.tries = 0]]
    /\ UNCHANGED <<rec, prov, rfLock, breaker, stalled, uncleared, rfBudget>>

\* A transient failure; the provider may have minted all the same, and the answer is lost.
RefreshTransient(r) ==
    /\ At(r, "refresh") /\ RfFault
    /\ \/ UNCHANGED prov
       \/ call[r].rt = prov.rt /\ Mint
    /\ call' = [call EXCEPT ![r] = [@ EXCEPT !.pc = IF call[r].tries + 1 >= Budget THEN "failing" ELSE "refresh",
                                             !.tries = IF call[r].tries + 1 >= Budget THEN 0 ELSE call[r].tries + 1]]
    /\ UNCHANGED <<rec, rfLock, breaker, uncleared>>

Stored(r, changed) == rec' = [changed EXCEPT !.blob = rec.blob + 1]
Misses(r) == RfGo(r, "peer") /\ UNCHANGED <<rec, rfLock>>

\* The compare-and-set: the stored ciphertext is the one this refresh began with.
Current(r) == call[r].blob = rec.blob

StoreTokens(r) ==
    LET c == call[r] IN
    /\ At(r, "store")
    /\ IF Current(r)
       THEN /\ Stored(r, [rec EXCEPT !.at = c.got, !.rt = IF rfBudget.rotating THEN c.got ELSE @, !.health = "healthy", !.fresh = TRUE])
            /\ call' = [call EXCEPT ![r] = [@ EXCEPT !.pc = "clear", !.token = c.got, !.got = 0]] /\ UNCHANGED rfLock
       ELSE call' = [call EXCEPT ![r] = [@ EXCEPT !.pc = "peer", !.got = 0]] /\ UNCHANGED <<rec, rfLock>>
    /\ UNCHANGED <<prov, breaker, stalled, uncleared, rfBudget>>

StoreDead(r) ==
    /\ At(r, "dead")
    /\ IF Current(r) THEN Stored(r, [rec EXCEPT !.health = "reconnect"]) /\ End(r) /\ Release(r)
                     ELSE Misses(r)
    /\ UNCHANGED <<prov, breaker, stalled, uncleared, rfBudget>>

StoreFailing(r) ==
    /\ At(r, "failing")
    /\ IF Current(r) THEN Stored(r, [rec EXCEPT !.health = "failing"]) /\ RfGo(r, "open") /\ UNCHANGED rfLock
                     ELSE Misses(r)
    /\ UNCHANGED <<prov, breaker, stalled, uncleared, rfBudget>>

\* clear_refresh_cooldown and open_refresh_cooldown: an error of Redis is logged and passed over.
Clear ==
    \/ breaker' = FALSE /\ uncleared' = FALSE /\ UNCHANGED <<stalled, rfBudget>>
    \/ breaker /\ RfFault /\ uncleared' = TRUE /\ UNCHANGED breaker

ClearBreaker(r) ==
    /\ At(r, "clear") /\ Clear /\ Send(r, call[r].token) /\ Release(r)
    /\ UNCHANGED <<rec, prov>>

OpenBreaker(r) ==
    /\ At(r, "open") /\ End(r) /\ Release(r)
    /\ \/ breaker' = TRUE /\ uncleared' = FALSE /\ UNCHANGED <<stalled, rfBudget>>
       \/ RfFault /\ UNCHANGED <<breaker, uncleared>>
    /\ UNCHANGED <<rec, prov>>

\* _serve_rotated_peer
ServePeer(r) ==
    /\ At(r, "peer") /\ ServeRecord(r) /\ Release(r)
    /\ UNCHANGED <<rec, prov, breaker, stalled, uncleared, rfBudget>>

----------------------------------------------------------------------------
(* The call that carries the token *)

\* A refused token is force-refreshed and the call retried once.
Dispatch(r) ==
    LET c == call[r] IN
    /\ At(r, "sent")
    /\ IF c.token \in prov.alive \/ c.force THEN End(r)
       ELSE call' = [call EXCEPT ![r] = [@ EXCEPT !.pc = "lock", !.force = TRUE]]
    /\ UNCHANGED <<rec, prov, rfLock, breaker, stalled, uncleared, rfBudget>>

\* The MCP session dropped: the whole dispatch runs once more, from the resolution of the token.
Disconnected(r) ==
    /\ At(r, "sent") /\ RfFault
    /\ IF call[r].again THEN End(r)
       ELSE call' = [call EXCEPT ![r] = [RfIdle EXCEPT !.pc = "load", !.again = TRUE]]
    /\ UNCHANGED <<rec, prov, rfLock, breaker, uncleared>>

----------------------------------------------------------------------------
(* The lock's lease, the breaker's cooldown, the tokens and the user *)

\* A plausible mistake: the key is kept alive without its holder.
MutantLockExpires == rfLock # Nobody /\ UNCHANGED rfVars

\* The key expires under a body still running: a stall.  A holder that has gone leaves it for free.
LockExpires ==
    /\ rfLock # Nobody /\ rfLock' = Nobody
    /\ IF call[rfLock].pc \in Outside THEN UNCHANGED <<stalled, rfBudget>> ELSE Stall
    /\ UNCHANGED <<rec, prov, breaker, call, uncleared>>

\* Between the record repaired and the breaker removed.
Repairing(r) == At(r, "clear") \/ At(r, "reclear")

\* The replica dies in the middle of a call, or the token store raises, with or without its write:
\* the call ends, its lock left to lapse or let go.
Crash(r) ==
    /\ ~At(r, "idle") /\ RfFault /\ End(r) /\ (UNCHANGED rfLock \/ (call[r].pc \notin Outside /\ Release(r)))
    /\ uncleared' = (uncleared \/ (breaker /\ Repairing(r)))
    /\ UNCHANGED <<rec, prov, breaker>>

BreakerExpires ==
    /\ breaker /\ breaker' = FALSE /\ uncleared' = FALSE
    /\ UNCHANGED <<rec, prov, rfLock, call, stalled, rfBudget>>

Age ==
    /\ rec.fresh /\ RfSpend("aging") /\ rec' = [rec EXCEPT !.fresh = FALSE]
    /\ UNCHANGED <<prov, rfLock, breaker, call, stalled, uncleared>>

\* The server refuses the newest token, or the user revokes the grant.
Refuse(revoked) ==
    /\ RfSpend("aging")
    /\ prov' = [prov EXCEPT !.alive = {}, !.rt = IF revoked THEN 0 ELSE @]
    /\ UNCHANGED <<rec, rfLock, breaker, call, stalled, uncleared>>

\* A reconnect of the user, under the lock: the new grant is stored, and then the breaker dropped.
Reconnect(r) ==
    LET n == prov.mints + 1 IN
    /\ At(r, "idle") /\ rfLock = Nobody /\ rec.health # "healthy" /\ prov.mints < MaxMints
    /\ prov' = [mints |-> n, rt |-> n, alive |-> {n}]
    /\ rec' = [at |-> n, rt |-> n, health |-> "healthy", fresh |-> TRUE, blob |-> rec.blob + 1]
    /\ rfLock' = r /\ RfGo(r, "reclear")
    /\ UNCHANGED <<breaker, stalled, uncleared, rfBudget>>

Reclear(r) ==
    /\ At(r, "reclear") /\ Clear /\ End(r) /\ Release(r)
    /\ UNCHANGED <<rec, prov>>

RfStep(r) ==
    \/ Resolve(r) \/ Cooldown(r) \/ Acquire(r) \/ RfReload(r) \/ Probe(r) \/ RefreshOk(r) \/ RefreshRefused(r) \/ StoreTokens(r)
    \/ StoreDead(r) \/ StoreFailing(r) \/ ClearBreaker(r) \/ OpenBreaker(r) \/ ServePeer(r) \/ Dispatch(r) \/ Reclear(r)

RfNext ==
    \/ \E r \in Replicas : RfBegin(r) \/ RfStep(r) \/ GiveUpLock(r) \/ RefreshTransient(r) \/ Disconnected(r) \/ Crash(r) \/ Reconnect(r)
    \/ LockExpires \/ BreakerExpires \/ Age \/ \E revoked \in BOOLEAN : Refuse(revoked)

RfSpec == RfInit /\ [][RfNext]_rfVars

(* A started call goes on, the provider answers, the keys of Redis expire, *)
(* and tools go on being called.                                           *)
RfFairSpec ==
    /\ RfSpec
    /\ WF_rfVars(LockExpires) /\ WF_rfVars(BreakerExpires)
    /\ \A r \in Replicas : WF_rfVars(RfStep(r) \/ RfBegin(r)) /\ SF_rfVars(Acquire(r))

----------------------------------------------------------------------------
(* What the resolver promises. *)

\* The stored tokens never go back to older ones, whoever loses the lock or the race: every
\* write-back is fenced on the ciphertext its refresh began with.
NeverRegresses == [][rec'.at >= rec.at /\ rec'.rt >= rec.rt]_rfVars

\* While the lock is held no refresh replaces an access token that is fresh, accepted and healthy:
\* concurrent expiries and concurrent refusals cost one refresh, not one each.
HealthyTokenKept ==
    [][\A r \in Replicas : At(r, "refresh") /\ prov'.mints # prov.mints /\ call'[r] # call[r] /\ ~stalled =>
        ~(rec.health = "healthy" /\ rec.fresh /\ rec.at \in prov.alive)]_rfVars

\* As long as every body finished within its lock, a connection marked for reconnection really is
\* dead: its refresh token is refused, and no
\* replica holds a newer one the provider would accept.
ReconnectIsReal ==
    rec.health = "reconnect" /\ ~stalled =>
        rec.rt # prov.rt /\ \A r \in Replicas : At(r, "store") /\ rfBudget.rotating => call[r].got # prov.rt

\* The breaker never stands on a healthy connection once the body that repairs the record has left
\* the lock, unless Redis failed that body, or the body was cut off, right where it removes it: then
\* it stands until the cooldown ends.
BreakerMatchesRecord ==
    breaker /\ ~stalled /\ ~uncleared /\ (\A r \in Replicas : ~Repairing(r)) => rec.health # "healthy"

\* Every managed call comes to an end, however the lock, the provider and the breaker behave.
CallEnds == \A r \in Replicas : []<>At(r, "idle")

\* A connection marked failing is tried again after the cooldown and leaves that state.
FailingRecovers == []<>(rec.health # "failing")

\* The verdicts stored about a connection, and the breaker beside them, are what the provider says.
VerdictsReal == RfTypeOK /\ ReconnectIsReal /\ BreakerMatchesRecord

\* Calls and connections both get on.
RefreshProgresses == CallEnds /\ FailingRecovers

\* What the resolver keeps: true verdicts, tokens that never go back, and healthy ones left alone.
TokensHeld == []VerdictsReal /\ NeverRegresses /\ HealthyTokenKept
=============================================================================

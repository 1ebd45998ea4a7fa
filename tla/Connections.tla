---------------------------- MODULE Connections -----------------------------
(***************************************************************************)
(* The life of connector connections                                       *)
(* (connectors/service/connection_service.py) over the token store, the    *)
(* managed manifest entries and the single-use OAuth flow records          *)
(* (connectors/oauth/state.py), for the connections of one provider.       *)
(*                                                                         *)
(* Every operation is the code's sequence lock, load, persist, apply; the  *)
(* record's enabled and granted sub-services, its token generation and its *)
(* ciphertext number are kept, scopes are one per sub-service, and a       *)
(* manifest title is the pair of alias and sub-service.  A refresh of the  *)
(* tokens (TokenRefresh) is one compare-and-set here.                      *)
(***************************************************************************)
EXTENDS Integers, FiniteSets

CONSTANTS
    CnIds, Aliases, Subs, Flows, CnWorkers, None,
    CnScenarios       \* the disturbances to explore

(* A scenario: the titles of the operator's own entries, and the bounds on *)
(* operations started, token refreshes by the resolver, manifest changes   *)
(* and store calls that raise, and bodies that outlive their lock or run   *)
(* without it.                                                             *)
CnScenario == [own : SUBSET (Aliases \X Subs), ops : Nat, refreshes : Nat, faults : Nat, stalls : Nat]

VARIABLES
    cnRec,      \* the stored records
    manifest,   \* the connection that manages each title's entry, or None
    flows,      \* the OAuth flows waiting for their callback
    lock,       \* the worker in each connection's lock
    grant,      \* the consent at the provider behind each connection's tokens
    cnOp,         \* each worker's operation
    cnWrites,     \* how many records each flow has written
    mishap,     \* whether a body ran without its lock, or ended between its persist and its manifest change (history)
    cnBudget      \* the scenario, its bounds counting down

cnVars == <<cnRec, manifest, flows, lock, grant, cnOp, cnWrites, mishap, cnBudget>>

Titles == Aliases \X Subs
NonEmpty == (SUBSET Subs) \ {{}}
CnRecord == [alias : Aliases, enabled : SUBSET Subs, granted : SUBSET Subs, oauth : BOOLEAN, tok : Nat, blob : Nat]
Flow == [kind : {"connect", "reconnect", "toggle"}, alias : Aliases, subs : NonEmpty, conn : CnIds \cup {None}]
ASSUME ConnectionConstants ==
    /\ None \notin CnIds \cup CnWorkers \cup Aliases \cup Flows /\ None \notin CnRecord /\ None \notin Flow
    /\ \A s \in CnScenarios : s \in CnScenario

CnIdle == [kind |-> "idle", pc |-> "idle", conn |-> None, alias |-> None, subs |-> {}, granted |-> {}, flow |-> None,
         blob |-> 0, tok |-> 0, add |-> {}, remove |-> {}, consent |-> {}]

CnTypeOK ==
    /\ cnRec \in [CnIds -> CnRecord \cup {None}]
    /\ manifest \in [Titles -> CnIds \cup {None}]
    /\ flows \in [Flows -> Flow \cup {None}]
    /\ lock \in [CnIds -> CnWorkers \cup {None}]
    /\ grant \in [CnIds -> {"none", "live", "again", "dead", "left"}]   \* again: by a reconnect; left: a revocation failed
    /\ \A w \in CnWorkers :
        /\ cnOp[w].pc \in {"idle", "exchange", "lock", "load", "persist", "revoke", "apply", "delete", "fork"}
        /\ cnOp[w].pc \notin {"idle", "exchange"} => cnOp[w].conn \in CnIds
        /\ cnOp[w].pc = "apply" /\ cnOp[w].add # {} => cnOp[w].alias \in Aliases
        /\ cnOp[w].add \cap cnOp[w].remove = {}
    /\ \A c \in CnIds : lock[c] # None => cnOp[lock[c]].conn = c /\ cnOp[lock[c]].pc \in {"load", "persist", "revoke", "apply", "delete"}

CnInit ==
    /\ cnRec = [c \in CnIds |-> None] /\ manifest = [t \in Titles |-> None]
    /\ flows = [f \in Flows |-> None] /\ lock = [c \in CnIds |-> None] /\ grant = [c \in CnIds |-> "none"]
    /\ cnOp = [w \in CnWorkers |-> CnIdle] /\ cnWrites = [f \in Flows |-> 0]
    /\ mishap = [stalled |-> FALSE, cut |-> FALSE] /\ cnBudget \in CnScenarios

CnAt(w, pc) == cnOp[w].pc = pc
CnGo(w, pc) == cnOp' = [cnOp EXCEPT ![w].pc = pc]
CnRelease(w) == lock' = [c \in CnIds |-> IF lock[c] = w THEN None ELSE lock[c]]
CnEnd(w) == cnOp' = [cnOp EXCEPT ![w] = CnIdle] /\ CnRelease(w)

CnSpend(b) == cnBudget[b] > 0 /\ cnBudget' = [cnBudget EXCEPT ![b] = @ - 1]
CnStall == CnSpend("stalls") /\ mishap' = [mishap EXCEPT !.stalled = TRUE]
Cut(w) == mishap' = [mishap EXCEPT !.cut = @ \/ ~CnAt(w, "load")]

\* A uuid4: never one that was used before.
FreshId(c) == cnRec[c] = None /\ grant[c] = "none" /\ (\A w \in CnWorkers : cnOp[w].conn # c) /\ (\A t \in Titles : manifest[t] # c)
              /\ \A f \in Flows : flows[f] # None => flows[f].conn # c
\* The entries connection c manages.
Wired(c) == {t[2] : t \in {u \in Titles : manifest[u] = c}}

CnBegin(w) == CnAt(w, "idle") /\ CnSpend("ops") /\ UNCHANGED mishap

----------------------------------------------------------------------------
(* The requests. *)

\* A provider without OAuth: the record is created at once, under the new id's lock.
ConnectNoAuth(w, c, alias, subs) ==
    /\ CnBegin(w) /\ FreshId(c)
    /\ cnOp' = [cnOp EXCEPT ![w] = [CnIdle EXCEPT !.kind = "none", !.pc = "persist", !.conn = c, !.alias = alias, !.subs = subs]]
    /\ lock' = [lock EXCEPT ![c] = w]
    /\ UNCHANGED <<grant, cnRec, manifest, flows, cnWrites>>

StartFlow(f, kind, alias, subs, c) ==
    /\ flows[f] = None /\ cnWrites[f] = 0 /\ (\A w \in CnWorkers : cnOp[w].flow # f)
    /\ flows' = [flows EXCEPT ![f] = [kind |-> kind, alias |-> alias, subs |-> subs, conn |-> c]]

StartConnect(w, f, alias, subs) ==
    /\ CnBegin(w) /\ StartFlow(f, "connect", alias, subs, None)
    /\ UNCHANGED <<grant, cnRec, manifest, lock, cnOp, cnWrites>>

StartReconnect(w, f, c, subs) ==
    /\ CnBegin(w) /\ cnRec[c] # None /\ cnRec[c].oauth
    /\ StartFlow(f, "reconnect", cnRec[c].alias, subs, c)
    /\ UNCHANGED <<grant, cnRec, manifest, lock, cnOp, cnWrites>>

\* get_and_delete in one transaction.
Pop(f) == flows' = [flows EXCEPT ![f] = None]

\* The callback, or a replay of it.
Complete(w, f) ==
    /\ CnAt(w, "idle") /\ flows[f] # None /\ Pop(f)
    /\ cnOp' = [cnOp EXCEPT ![w] = [CnIdle EXCEPT !.kind = flows[f].kind, !.pc = "exchange", !.flow = f,
                                            !.conn = flows[f].conn, !.alias = flows[f].alias, !.subs = flows[f].subs]]
    /\ UNCHANGED <<grant, cnRec, manifest, lock, cnWrites, mishap, cnBudget>>

\* exchange_code: what the user granted, at most what was asked for; no scope stands for all of it.
Granted(o) == {IF scopes = {} THEN o.subs ELSE scopes : scopes \in SUBSET o.subs}

\* The code exchange: it fails, or the provider issues tokens.
Exchange(w) ==
    LET o == cnOp[w] IN
    /\ CnAt(w, "exchange")
    /\ \/ CnEnd(w) /\ UNCHANGED grant
       \/ /\ o.kind = "connect"
          /\ \E c \in CnIds, granted \in Granted(o) :
                /\ FreshId(c) /\ lock' = [lock EXCEPT ![c] = w] /\ grant' = [grant EXCEPT ![c] = "live"]
                /\ cnOp' = [cnOp EXCEPT ![w] = [o EXCEPT !.pc = "persist", !.conn = c, !.granted = granted]]
       \/ /\ o.kind # "connect" /\ UNCHANGED lock
          /\ grant' = [grant EXCEPT ![o.conn] = "again"]
          /\ \E granted \in Granted(o) :
                cnOp' = [cnOp EXCEPT ![w] = [o EXCEPT !.pc = "lock", !.granted = granted]]
    /\ UNCHANGED <<cnRec, manifest, flows, cnWrites, mishap, cnBudget>>

\* revoke: at the provider, or it fails there and is only logged.
Revoke(c) == \E outcome \in {"dead", "left"} : grant' = [grant EXCEPT ![c] = outcome]

\* _revoke_fresh_grant: nobody else holds it.
RevokeFresh(o) == IF o.kind = "connect" THEN Revoke(o.conn) ELSE UNCHANGED grant

StartPatch(w, c, desired) ==
    /\ CnBegin(w) /\ cnRec[c] # None
    /\ cnOp' = [cnOp EXCEPT ![w] = [CnIdle EXCEPT !.kind = "patch", !.pc = "lock", !.conn = c, !.subs = desired]]
    /\ UNCHANGED <<grant, cnRec, manifest, flows, lock, cnWrites>>

StartDisconnect(w, c) ==
    /\ CnBegin(w) /\ cnRec[c] # None
    /\ cnOp' = [cnOp EXCEPT ![w] = [CnIdle EXCEPT !.kind = "disconnect", !.pc = "lock", !.conn = c]]
    /\ UNCHANGED <<grant, cnRec, manifest, flows, lock, cnWrites>>

----------------------------------------------------------------------------
(* The read-modify-write under the connection lock. *)

\* A plausible mistake: disconnect does not take the connection lock.
MutantCnAcquire(w) ==
    /\ CnAt(w, "lock") /\ (cnOp[w].kind = "disconnect" \/ lock[cnOp[w].conn] = None)
    /\ lock' = IF cnOp[w].kind = "disconnect" THEN lock ELSE [lock EXCEPT ![cnOp[w].conn] = w]
    /\ CnGo(w, "load")
    /\ UNCHANGED <<grant, cnRec, manifest, flows, cnWrites, mishap, cnBudget>>

CnAcquire(w) ==
    /\ CnAt(w, "lock") /\ lock[cnOp[w].conn] = None
    /\ lock' = [lock EXCEPT ![cnOp[w].conn] = w] /\ CnGo(w, "load")
    /\ UNCHANGED <<grant, cnRec, manifest, flows, cnWrites, mishap, cnBudget>>

CnGiveUpLock(w) ==
    /\ CnAt(w, "lock") /\ CnStall /\ CnGo(w, "load")
    /\ UNCHANGED <<grant, cnRec, manifest, flows, lock, cnWrites>>

\* What patch can do at once: a sub-service whose scopes are granted already, or any without OAuth.
Inline(r, desired) == {s \in desired \ r.enabled : ~r.oauth \/ s \in r.granted}

\* The record is loaded and the change to it worked out.
Load(w) ==
    LET o == cnOp[w] r == cnRec[cnOp[w].conn] IN
    /\ CnAt(w, "load")
    /\ IF r = None \/ (o.kind = "patch" /\ o.subs = r.enabled) THEN CnEnd(w)
       ELSE /\ UNCHANGED lock
            /\ cnOp' = [cnOp EXCEPT ![w] =
                CASE o.kind = "disconnect" -> [o EXCEPT !.pc = IF r.oauth THEN "revoke" ELSE "apply", !.remove = Subs]
                  [] o.kind = "patch" ->
                     [o EXCEPT !.pc = "persist", !.blob = r.blob, !.tok = r.tok, !.alias = r.alias, !.granted = r.granted,
                               !.subs = (r.enabled \cap o.subs) \cup Inline(r, o.subs),
                               !.add = Inline(r, o.subs), !.remove = r.enabled \ o.subs,
                               !.consent = (o.subs \ r.enabled) \ Inline(r, o.subs)]
                  [] OTHER ->
                     [o EXCEPT !.pc = "persist", !.blob = r.blob, !.tok = r.tok + 1, !.alias = r.alias,
                               !.add = o.subs \ r.enabled, !.remove = r.enabled \ o.subs]]
    /\ UNCHANGED <<grant, cnRec, manifest, flows, cnWrites, mishap, cnBudget>>

\* disconnect: the tokens are revoked before anything is removed.
DisconnectRevokes(w) ==
    /\ CnAt(w, "revoke") /\ Revoke(cnOp[w].conn) /\ CnGo(w, "apply")
    /\ UNCHANGED <<cnRec, manifest, flows, lock, cnWrites, mishap, cnBudget>>

\* The stored ciphertext is the one the operation loaded.
CasHits(o) == cnRec[o.conn] # None /\ cnRec[o.conn].blob = o.blob

Wrote(f) == cnWrites' = IF f = None THEN cnWrites ELSE [cnWrites EXCEPT ![f] = @ + 1]

\* create_only: the alias must be free.
AliasTaken(o) == \E c \in CnIds : cnRec[c] # None /\ cnRec[c].alias = o.alias
Created(o) == [alias |-> o.alias, enabled |-> o.subs, granted |-> o.granted, oauth |-> o.kind = "connect", tok |-> 1, blob |-> 0]

PersistNew(w) ==
    LET o == cnOp[w] IN
    /\ CnAt(w, "persist") /\ o.kind \in {"none", "connect"}
    /\ IF AliasTaken(o)
       THEN RevokeFresh(o) /\ CnEnd(w) /\ UNCHANGED <<cnRec, cnWrites>>
       ELSE /\ UNCHANGED grant
            /\ cnRec' = [cnRec EXCEPT ![o.conn] = Created(o)]
            /\ cnOp' = [cnOp EXCEPT ![w] = [o EXCEPT !.pc = "apply", !.add = o.subs]]
            /\ Wrote(o.flow) /\ UNCHANGED lock
    /\ UNCHANGED <<manifest, flows, mishap, cnBudget>>

\* Nothing to change in the manifest: the body is over.
AfterPersist(o) == IF o.add \cup o.remove # {} THEN "apply" ELSE IF o.consent # {} THEN "fork" ELSE "idle"

\* The loaded record with the operation's change.
Changed(o) == [cnRec[o.conn] EXCEPT !.enabled = o.subs, !.granted = o.granted, !.tok = o.tok, !.blob = cnRec[o.conn].blob + 1]

PersistChange(w) ==
    LET o == cnOp[w] pc == AfterPersist(cnOp[w]) IN
    /\ CnAt(w, "persist") /\ o.kind \in {"reconnect", "toggle", "patch"}
    /\ IF ~CasHits(o) THEN CnEnd(w) /\ UNCHANGED <<cnRec, cnWrites>>
       ELSE /\ cnRec' = [cnRec EXCEPT ![o.conn] = Changed(o)]
            /\ Wrote(o.flow)
            /\ IF pc = "idle" THEN CnEnd(w)
               ELSE CnGo(w, pc) /\ (IF pc = "fork" THEN CnRelease(w) ELSE UNCHANGED lock)
    /\ UNCHANGED <<grant, manifest, flows, mishap, cnBudget>>

\* add_managed_entries refuses a title that another owner holds.
Collides(o) == \E s \in o.add : <<o.alias, s>> \in cnBudget.own \/ manifest[<<o.alias, s>>] \notin {None, o.conn}

\* remove_managed_entries, then add_managed_entries, in one manifest transaction.
Reconciled(o) ==
    [t \in Titles |-> IF t[1] = o.alias /\ t[2] \in o.add THEN o.conn
                      ELSE IF manifest[t] = o.conn /\ t[2] \in o.remove THEN None ELSE manifest[t]]

\* A manifest change that raises ends its operation; the persisted record stays as it is.
CnFailed(w) == Cut(w) /\ CnEnd(w)

AfterApply(o) == IF o.kind = "disconnect" THEN "delete" ELSE IF o.consent # {} THEN "fork" ELSE "idle"

\* The manifest change: it may raise before its persist, or after it when the reload fails.
Apply(w) ==
    LET o == cnOp[w] pc == AfterApply(cnOp[w]) IN
    /\ CnAt(w, "apply")
    /\ \/ /\ ~Collides(o) /\ manifest' = Reconciled(o) /\ UNCHANGED <<mishap, cnBudget>>
          /\ IF pc = "idle" THEN CnEnd(w)
             ELSE CnGo(w, pc) /\ (IF pc = "fork" THEN CnRelease(w) ELSE UNCHANGED lock)
       \/ Collides(o) /\ UNCHANGED <<manifest, cnBudget>> /\ CnFailed(w)
       \/ /\ CnSpend("faults") /\ CnFailed(w)
          /\ \/ UNCHANGED manifest
             \/ ~Collides(o) /\ manifest' = Reconciled(o)
    /\ UNCHANGED <<grant, cnRec, flows, cnWrites>>

\* Disconnect's last step.
Delete(w) ==
    /\ CnAt(w, "delete") /\ cnRec' = [cnRec EXCEPT ![cnOp[w].conn] = None] /\ CnEnd(w)
    /\ UNCHANGED <<grant, manifest, flows, cnWrites, mishap, cnBudget>>

\* Patch's consent flow, started once the lock is released.
Fork(w, f) ==
    LET o == cnOp[w] IN
    /\ CnAt(w, "fork") /\ StartFlow(f, "toggle", o.alias, o.subs \cup o.consent, o.conn)
    /\ CnEnd(w)
    /\ UNCHANGED <<grant, cnRec, manifest, cnWrites, mishap, cnBudget>>

----------------------------------------------------------------------------
(* Around them. *)

\* The resolver rotated the tokens, under the lock unless its body has outlived it.
Refresh(c) ==
    /\ cnRec[c] # None /\ cnRec[c].oauth /\ cnBudget.refreshes > 0 /\ (lock[c] # None => cnBudget.stalls > 0)
    /\ cnRec' = [cnRec EXCEPT ![c] = [cnRec[c] EXCEPT !.tok = cnRec[c].tok + 1, !.blob = cnRec[c].blob + 1]]
    /\ cnBudget' = [cnBudget EXCEPT !.refreshes = @ - 1, !.stalls = IF lock[c] = None THEN @ ELSE @ - 1]
    /\ mishap' = [mishap EXCEPT !.stalled = @ \/ lock[c] # None]
    /\ UNCHANGED <<grant, manifest, flows, lock, cnOp, cnWrites>>

CnLockExpires(c) ==
    /\ lock[c] # None /\ CnStall /\ lock' = [lock EXCEPT ![c] = None]
    /\ UNCHANGED <<grant, cnRec, manifest, flows, cnOp, cnWrites>>

\* The token store raises and nothing was committed: the operation ends where it is.
StoreFails(w) ==
    /\ cnOp[w].pc \in {"load", "persist", "delete"} /\ CnSpend("faults") /\ Cut(w) /\ CnEnd(w)
    /\ IF CnAt(w, "persist") THEN RevokeFresh(cnOp[w]) ELSE UNCHANGED grant
    /\ UNCHANGED <<cnRec, manifest, flows, cnWrites>>

\* The token store committed, and its answer was lost: the operation ends as if it had not.
AnswerLost(w) ==
    LET o == cnOp[w] IN
    /\ CnSpend("faults") /\ Cut(w) /\ CnEnd(w)
    /\ \/ /\ CnAt(w, "persist") /\ o.kind \in {"none", "connect"} /\ ~AliasTaken(o)
          /\ cnRec' = [cnRec EXCEPT ![o.conn] = Created(o)] /\ Wrote(o.flow) /\ RevokeFresh(o)
       \/ /\ CnAt(w, "persist") /\ o.kind \in {"reconnect", "toggle", "patch"} /\ CasHits(o)
          /\ cnRec' = [cnRec EXCEPT ![o.conn] = Changed(o)] /\ Wrote(o.flow) /\ UNCHANGED grant
       \/ CnAt(w, "delete") /\ cnRec' = [cnRec EXCEPT ![o.conn] = None] /\ UNCHANGED <<cnWrites, grant>>
    /\ UNCHANGED <<manifest, flows>>

\* The flow's ten minutes are over.
FlowExpires(f) ==
    /\ flows[f] # None /\ flows' = [flows EXCEPT ![f] = None]
    /\ UNCHANGED <<grant, cnRec, manifest, lock, cnOp, cnWrites, mishap, cnBudget>>

\* The flow record could not be stored.
ForkFails(w) ==
    /\ CnAt(w, "fork") /\ CnEnd(w)
    /\ UNCHANGED <<grant, cnRec, manifest, flows, cnWrites, mishap, cnBudget>>

Starts(w) ==
    \/ \E c \in CnIds : StartDisconnect(w, c)
    \/ \E c \in CnIds, subs \in NonEmpty : StartPatch(w, c, subs)
    \/ \E c \in CnIds, a \in Aliases, subs \in NonEmpty : ConnectNoAuth(w, c, a, subs)
    \/ \E f \in Flows, a \in Aliases, subs \in NonEmpty : StartConnect(w, f, a, subs)
    \/ \E f \in Flows, c \in CnIds, subs \in NonEmpty : StartReconnect(w, f, c, subs)

Steps(w) ==
    \/ Exchange(w) \/ CnAcquire(w) \/ CnGiveUpLock(w) \/ Load(w) \/ PersistNew(w) \/ PersistChange(w)
    \/ DisconnectRevokes(w) \/ Apply(w) \/ Delete(w) \/ StoreFails(w) \/ AnswerLost(w) \/ ForkFails(w)
    \/ \E f \in Flows : Fork(w, f)

CnNext ==
    \/ \E w \in CnWorkers : CnAt(w, "idle") /\ (Starts(w) \/ \E f \in Flows : Complete(w, f))
    \/ \E w \in CnWorkers : ~CnAt(w, "idle") /\ Steps(w)
    \/ \E c \in CnIds : Refresh(c) \/ CnLockExpires(c)
    \/ \E f \in Flows : FlowExpires(f)

CnSpec == CnInit /\ [][CnNext]_cnVars

----------------------------------------------------------------------------
(* What the connection service promises. *)

InHand(c) == \E w \in CnWorkers : cnOp[w].conn = c /\ cnOp[w].pc \in {"persist", "revoke", "apply", "delete"}

\* Outside the operations, the manifest wires exactly the sub-services the record enables, unless
\* one was cut short between the two.
Lockstep ==
    \A c \in CnIds : ~InHand(c) /\ ~mishap.stalled /\ ~mishap.cut =>
        Wired(c) = (IF cnRec[c] = None THEN {} ELSE cnRec[c].enabled)

\* No managed entry is stranded, whatever failed and in whatever order the operations ran: its
\* connection exists, as long as every body keeps its lock.
EntryHasConnection == \A c \in CnIds : ~InHand(c) /\ ~mishap.stalled /\ Wired(c) # {} => cnRec[c] # None

\* A token generation is never lost to an operation that loaded the record before the refresh.
TokenNeverLost ==
    [][\A c \in CnIds : cnRec[c] # None /\ cnRec'[c] # None => cnRec'[c].tok >= cnRec[c].tok]_cnVars

\* A replayed callback produces no second record.
FlowOnce == \A f \in Flows : cnWrites[f] <= 1

\* A consent given for a new connection ends with it: as long as it lives, its record is stored or
\* about to be, unless the provider refused to take it back.  (The consent of a reconnect that finds
\* its connection gone stays at the provider.)
NoOrphanGrant ==
    \A c \in CnIds : grant[c] = "live" /\ ~mishap.stalled =>
        cnRec[c] # None \/ \E w \in CnWorkers : cnOp[w].conn = c /\ CnAt(w, "persist")

\* The tokens of a stored connection are revoked only by its disconnect.
RevokedIsLeaving ==
    \A c \in CnIds : grant[c] = "dead" /\ cnRec[c] # None /\ ~mishap.cut /\ ~mishap.stalled =>
        \E w \in CnWorkers : cnOp[w].conn = c /\ cnOp[w].kind = "disconnect" /\ cnOp[w].pc \in {"apply", "delete"}

\* What holds of records, entries and flows whatever fails on the way.
ConnectionsConsistent == CnTypeOK /\ FlowOnce /\ EntryHasConnection /\ NoOrphanGrant /\ RevokedIsLeaving

\* The connection service keeps records, manifest and flows in step and loses no token generation.
ConnectionsAgree == [](ConnectionsConsistent /\ Lockstep) /\ TokenNeverLost
=============================================================================

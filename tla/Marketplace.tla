---------------------------- MODULE Marketplace -----------------------------
(***************************************************************************)
(* The marketplace installer (marketplace/installer.py) over the plugin    *)
(* store, the manifest, the package site and the live registration.        *)
(*                                                                         *)
(* Each awaited step of install, uninstall, update and upgrade_all is an   *)
(* action that may fail where the code's call may raise.  The manifest     *)
(* maps slots to modules: an entry of a list field is a slot of its own, a *)
(* single-module field is one slot for whoever holds it.  Operators edit   *)
(* the manifest through the same pipeline but not under the installer's    *)
(* locks.  What a reload does to the rest of the fleet is FleetReload.     *)
(***************************************************************************)
EXTENDS Integers, FiniteSets, Functions

CONSTANTS
    Refs, Versions, Workers, Slots, Nil,
    Provides,       \* [Refs -> [Versions -> a function from some slots to modules]]
    Own,            \* a module of the operator's own
    Scenarios       \* the deployments and disturbances to explore

Modules == UNION {Range(Provides[r][v]) : r \in Refs, v \in Versions}

(* A scenario: whether packages go to a plugin prefix behind the           *)
(* environment, the version of each plugin the image itself provides, the  *)
(* workers and the operations requested of them, and the bounds on calls   *)
(* that raise, operations cancelled or killed in the middle, and manifest  *)
(* edits by operators.                                                     *)
Scenario ==
    [prefixed : BOOLEAN, env : [Refs -> Versions \cup {Nil}], workers : SUBSET Workers,
     kinds : SUBSET {"install", "uninstall", "update", "upgrade_all"},
     faults : Nat, cancels : Nat, edits : Nat]

VARIABLES
    mkLock,     \* the worker whose session holds the fleet lock
    op,         \* each worker's running operation
    site,       \* the version of each package in the prefix, or in the venv
    mkManifest, \* the persisted manifest
    live,       \* the manifest the last successful reload registered
    mkRow,      \* the attribution rows: a version, or Nil
    mkTold,     \* the rows as the installer was last answered (history)
    escalated,  \* plugins an InstallUnwindError was raised for
    cut,        \* plugins an operation was cut short on, or begun on a row nobody was told of (history)
    budget      \* the scenario, its bounds counting down

vars == <<mkLock, op, site, mkManifest, live, mkRow, mkTold, escalated, cut, budget>>

Idle == [kind |-> "idle"]
MkSteps == {"check", "removeOld", "pip", "repip", "save", "apply", "reload", "record",
          "unwindNew", "unwindPip", "restore", "rereload", "remove", "drop"}
Manifests == [Slots -> Modules \cup {Own, Nil}]
ModulesOf(r) == UNION {Range(Provides[r][v]) : v \in Versions}

\* A module is of one distribution, and the operator's own are of none.
ASSUME MarketConstants ==
    /\ \A r \in Refs, v \in Versions : DOMAIN Provides[r][v] \subseteq Slots
    /\ \A q, r \in Refs : q # r => ModulesOf(q) \cap ModulesOf(r) = {}
    /\ Own \notin Modules \cup {Nil} /\ Nil \notin Modules \cup Refs \cup Versions \cup Workers /\ Nil \notin Manifests
    /\ \A s \in Scenarios : s \in Scenario /\ (~s.prefixed => s.env = [r \in Refs |-> Nil])

TypeOK ==
    /\ mkLock \in Workers \cup {Nil}
    /\ \A w \in Workers : op[w] # Idle =>
        /\ op[w].kind \in {"install", "uninstall", "update"} /\ op[w].at \in MkSteps
        /\ op[w].ref \in Refs /\ op[w].batch \subseteq Refs
        /\ op[w].saved \in Manifests \cup {Nil} /\ (op[w].at \in {"restore", "rereload"} => op[w].saved # Nil)
        /\ op[w].kind # "install" /\ op[w].at # "check" => op[w].old \in Versions
    /\ site \in [Refs -> Versions \cup {Nil}] /\ mkRow \in [Refs -> Versions \cup {Nil}] /\ mkTold \in [Refs -> Versions \cup {Nil}]
    /\ mkManifest \in Manifests /\ live \in Manifests
    /\ escalated \subseteq Refs /\ cut \subseteq Refs

Init ==
    /\ mkLock = Nil /\ op = [w \in Workers |-> Idle]
    /\ site = [r \in Refs |-> Nil] /\ mkRow = [r \in Refs |-> Nil] /\ mkTold = mkRow
    /\ mkManifest = [s \in Slots |-> Nil] /\ live = mkManifest
    /\ escalated = {} /\ cut = {} /\ budget \in Scenarios

InEnvironment(r) == budget.env[r] # Nil

\* The prefix comes last on the import path: the environment shadows it.
Installed(r) == IF InEnvironment(r) THEN budget.env[r] ELSE site[r]

\* A reload imports every module the manifest names, and aborts on one it cannot import.
Loads(m) ==
    \A s \in Slots : m[s] # Nil /\ m[s] # Own =>
        \E r \in Refs : Installed(r) # Nil /\ m[s] \in Range(Provides[r][Installed(r)])

\* collisions: a slot the plugin needs is taken.
MkCollides(m, p) == \E s \in DOMAIN p : m[s] # Nil

Added(m, p) == [s \in Slots |-> IF s \in DOMAIN p THEN p[s] ELSE m[s]]

\* remove_provides: a slot the operator gave to another module is left alone.
Removed(m, p) == [s \in Slots |-> IF s \in DOMAIN p /\ m[s] = p[s] THEN Nil ELSE m[s]]

----------------------------------------------------------------------------
(* The attribution rows. *)

\* INSERT ... ON CONFLICT DO UPDATE: an update replaces the row of the install.
Upserted(r, v) == [mkRow EXCEPT ![r] = v]
Deleted(r) == [mkRow EXCEPT ![r] = Nil]
ListInstalled == {r \in Refs : mkRow[r] # Nil}

----------------------------------------------------------------------------
(* An operation of worker w: its next step, its end, a call that raises. *)

Go(w, at) == op' = [op EXCEPT ![w].at = at]

\* The end of one plugin's operation: upgrade_all goes on to the next whatever came of this one.
Finish(w) ==
    IF op[w].batch = {}
    THEN mkLock' = Nil /\ op' = [op EXCEPT ![w] = Idle]
    ELSE \E r \in op[w].batch :
            op' = [op EXCEPT ![w] = [op[w] EXCEPT !.ref = r, !.at = "check", !.batch = op[w].batch \ {r}, !.saved = Nil]]
            /\ UNCHANGED mkLock

Spend(b) == budget[b] > 0 /\ budget' = [budget EXCEPT ![b] = @ - 1]
Fault == Spend("faults")

Escalate(w) == escalated' = escalated \cup {op[w].ref} /\ Finish(w)

Request(w, kind, r) ==
    op' = [op EXCEPT ![w] = [kind |-> kind, ref |-> r, at |-> "check", ver |-> Nil, old |-> Nil,
                             saved |-> Nil, batch |-> {}]]

\* _guard: refused at once unless this worker is idle and the advisory lock is free.
Begin(w, kind, r) ==
    /\ w \in budget.workers /\ op[w] = Idle /\ mkLock = Nil /\ mkLock' = w /\ kind \in budget.kinds
    /\ Request(w, kind, r)
    /\ UNCHANGED <<site, mkManifest, live, mkRow, mkTold, escalated, cut, budget>>

BeginUpgradeAll(w) ==
    /\ w \in budget.workers /\ op[w] = Idle /\ mkLock = Nil /\ mkLock' = w /\ "upgrade_all" \in budget.kinds
    /\ \E r \in Refs :
        /\ r \in ListInstalled
        /\ op' = [op EXCEPT ![w] = [kind |-> "update", ref |-> r, at |-> "check", ver |-> Nil, old |-> Nil,
                                    saved |-> Nil, batch |-> ListInstalled \ {r}]]
    /\ UNCHANGED <<site, mkManifest, live, mkRow, mkTold, escalated, cut, budget>>

\* What the pre-flights of install and update let through, for the version the registry resolved.
MayInstall(r, v) ==
    /\ mkRow[r] = Nil /\ ~MkCollides(mkManifest, Provides[r][v]) /\ budget.env[r] \in {Nil, v}

MayUpdate(r, v) ==
    /\ mkRow[r] \notin {Nil, v} /\ budget.env[r] \in {Nil, v}
    /\ ~MkCollides(Removed(mkManifest, Provides[r][mkRow[r]]), Provides[r][v])

\* An operation that goes by a row nobody was told of is not one the installer promises anything of.
CheckTo(w, at, v) ==
    /\ op' = [op EXCEPT ![w] = [op[w] EXCEPT !.at = at, !.ver = v, !.old = mkRow[op[w].ref]]]
    /\ cut' = IF mkTold[op[w].ref] = mkRow[op[w].ref] THEN cut ELSE cut \cup {op[w].ref}
    /\ UNCHANGED mkLock

\* The pre-flights; a refusal, a registry error or an incompatible version changes nothing.
Check(w) ==
    LET o == op[w] r == op[w].ref IN
    /\ o # Idle /\ o.at = "check"
    /\ \/ (o.kind = "uninstall" => mkRow[r] = Nil) /\ Finish(w) /\ UNCHANGED cut
       \/ \E v \in Versions : o.kind = "install" /\ MayInstall(r, v) /\ CheckTo(w, "pip", v)
       \/ \E v \in Versions : o.kind = "update" /\ MayUpdate(r, v)
                              /\ CheckTo(w, IF budget.prefixed THEN "removeOld" ELSE "pip", v)
       \/ o.kind = "uninstall" /\ mkRow[r] # Nil /\ CheckTo(w, "apply", Nil)
    /\ UNCHANGED <<site, mkManifest, live, mkRow, mkTold, escalated, budget>>

\* By the RECORD of the prefix's own distribution; there must be one.
OutOfPrefix(r) == site[r] # Nil /\ site' = [site EXCEPT ![r] = Nil]

\* A path of the RECORD that cannot be unlinked: what came before it is gone, and so is the package.
HalfOutOfPrefix(r) == Fault /\ site' \in {site, [site EXCEPT ![r] = Nil]}

\* pip cannot upgrade in a prefix: the old files go first, and must be there.  Nothing unwinds this.
RemoveOld(w) ==
    LET r == op[w].ref IN
    /\ op[w] # Idle /\ op[w].at = "removeOld"
    /\ \/ OutOfPrefix(r) /\ Go(w, "pip") /\ UNCHANGED <<mkLock, cut, budget>>
       \/ site[r] = Nil /\ Finish(w) /\ UNCHANGED <<site, cut, budget>>
       \/ HalfOutOfPrefix(r) /\ Finish(w) /\ cut' = IF site' = site THEN cut ELSE cut \cup {r}
    /\ UNCHANGED <<mkManifest, live, mkRow, mkTold, escalated>>

\* pip install lands nothing in a prefix the environment already satisfies.
Pip(r, v) == site' = [site EXCEPT ![r] = IF budget.env[r] = v THEN @ ELSE v]

\* pip exits with an error, and leaves the site as it was.
PipFails == Fault /\ UNCHANGED site

PipInstall(w) ==
    LET o == op[w] IN
    /\ o # Idle /\ o.at = "pip"
    /\ \/ Pip(o.ref, o.ver) /\ Go(w, "save") /\ UNCHANGED <<mkLock, budget>>
       \/ /\ PipFails
          /\ IF budget.prefixed /\ o.kind = "update" THEN Go(w, "repip") /\ UNCHANGED mkLock ELSE Finish(w)
    /\ UNCHANGED <<mkManifest, live, mkRow, mkTold, escalated, cut>>

\* The old pin goes back into the prefix after the new one failed to install.
PipBack(w) ==
    LET o == op[w] IN
    /\ o # Idle /\ o.at = "repip"
    /\ \/ Pip(o.ref, o.old) /\ Finish(w) /\ UNCHANGED <<budget, escalated>>
       \/ PipFails /\ Escalate(w)
    /\ UNCHANGED <<mkManifest, live, mkRow, mkTold, cut>>

\* The manifest as it was before the change, for the unwind.
Save(w) ==
    /\ op[w] # Idle /\ op[w].at = "save"
    /\ op' = [op EXCEPT ![w] = [op[w] EXCEPT !.at = "apply", !.saved = mkManifest]]
    /\ UNCHANGED <<mkLock, site, mkManifest, live, mkRow, mkTold, escalated, cut, budget>>

\* Where a failed step 4 or 5 goes; the manifest is restored only if the change was persisted.
Unwind(w, persisted) ==
    /\ op' = [op EXCEPT ![w] = [op[w] EXCEPT !.saved = IF persisted THEN op[w].saved ELSE Nil,
                                             !.at = IF op[w].kind = "install" THEN (IF persisted THEN "restore" ELSE "remove")
                                                     ELSE IF budget.prefixed THEN "unwindNew" ELSE "unwindPip"]]
    /\ UNCHANGED mkLock

\* The mutators, run inside the manifest transaction on what it holds by then.
Stripped(o) == IF o.old = Nil THEN mkManifest ELSE Removed(mkManifest, Provides[o.ref][o.old])

\* An uninstall of a plugin that wires nothing into the manifest has nothing to deregister.
MkApply(w) ==
    LET o == op[w] IN
    /\ o # Idle /\ o.at = "apply"
    /\ IF o.kind = "uninstall"
       THEN /\ mkManifest' = Stripped(o) /\ UNCHANGED mkLock
            /\ Go(w, IF DOMAIN Provides[o.ref][o.old] = {} THEN "remove" ELSE "reload")
       ELSE IF MkCollides(Stripped(o), Provides[o.ref][o.ver])
            THEN Unwind(w, FALSE) /\ UNCHANGED mkManifest
            ELSE mkManifest' = Added(Stripped(o), Provides[o.ref][o.ver]) /\ Go(w, "reload") /\ UNCHANGED mkLock
    /\ UNCHANGED <<site, live, mkRow, mkTold, escalated, cut, budget>>

\* A reload that raises, or a broadcast that does after the local reload went well.
ReloadFails ==
    \/ Loads(mkManifest) /\ Fault /\ live' \in {live, mkManifest}
    \/ ~Loads(mkManifest) /\ UNCHANGED <<live, budget>>

\* A plausible mistake: an uninstall goes on after its deregistering reload failed.
MutantReload(w) ==
    LET o == op[w] IN
    /\ o # Idle /\ o.at = "reload"
    /\ \/ /\ Loads(mkManifest) /\ live' = mkManifest /\ UNCHANGED <<mkLock, budget>>
          /\ Go(w, IF o.kind = "uninstall" THEN "remove" ELSE "record")
       \/ /\ ReloadFails
          /\ IF o.kind = "uninstall" THEN Go(w, "remove") /\ UNCHANGED mkLock ELSE Unwind(w, TRUE)
    /\ UNCHANGED <<site, mkManifest, mkRow, mkTold, escalated, cut>>

\* The pipeline's reload and broadcast: a failure is a FleetBroadcastError after the persist.
Reload(w) ==
    LET o == op[w] IN
    /\ o # Idle /\ o.at = "reload"
    /\ \/ /\ Loads(mkManifest) /\ live' = mkManifest /\ UNCHANGED <<mkLock, budget>>
          /\ Go(w, IF o.kind = "uninstall" THEN "remove" ELSE "record")
       \/ /\ ReloadFails
          /\ IF o.kind = "uninstall" THEN Finish(w) ELSE Unwind(w, TRUE)
    /\ UNCHANGED <<site, mkManifest, mkRow, mkTold, escalated, cut>>

\* An upsert that raises may have committed, its answer lost.
Record(w) ==
    LET o == op[w] IN
    /\ o # Idle /\ o.at = "record"
    /\ \/ mkRow' = Upserted(o.ref, o.ver) /\ mkTold' = [mkTold EXCEPT ![o.ref] = o.ver] /\ Finish(w) /\ UNCHANGED budget
       \/ Fault /\ Unwind(w, TRUE) /\ mkRow' \in {mkRow, Upserted(o.ref, o.ver)} /\ UNCHANGED mkTold
    /\ UNCHANGED <<site, mkManifest, live, escalated, cut>>

----------------------------------------------------------------------------
(* The unwinds. *)

UnwindNew(w) ==
    LET r == op[w].ref IN
    /\ op[w] # Idle /\ op[w].at = "unwindNew"
    /\ \/ OutOfPrefix(r) /\ Go(w, "unwindPip")
          /\ UNCHANGED <<mkLock, escalated, budget>>
       \/ site[r] = Nil /\ Escalate(w) /\ UNCHANGED <<site, budget>>
       \/ HalfOutOfPrefix(r) /\ Escalate(w)
    /\ UNCHANGED <<mkManifest, live, mkRow, mkTold, cut>>

\* The old wheel is back before the old manifest is loaded again.
UnwindPip(w) ==
    LET o == op[w] IN
    /\ o # Idle /\ o.at = "unwindPip"
    /\ \/ /\ Pip(o.ref, o.old) /\ UNCHANGED <<escalated, budget>>
          /\ IF o.saved = Nil THEN Finish(w) ELSE Go(w, "restore") /\ UNCHANGED mkLock
       \/ PipFails /\ Escalate(w)
    /\ UNCHANGED <<mkManifest, live, mkRow, mkTold, cut>>

\* apply_replace of the manifest that was saved.
Restore(w) ==
    /\ op[w] # Idle /\ op[w].at = "restore"
    /\ mkManifest' = op[w].saved /\ Go(w, "rereload")
    /\ UNCHANGED <<mkLock, site, live, mkRow, mkTold, escalated, cut, budget>>

Rereload(w) ==
    LET o == op[w] IN
    /\ o # Idle /\ o.at = "rereload"
    /\ \/ /\ Loads(mkManifest) /\ live' = mkManifest /\ UNCHANGED <<escalated, budget>>
          /\ IF o.kind = "install" THEN Go(w, "remove") /\ UNCHANGED mkLock ELSE Finish(w)
       \/ ReloadFails /\ Escalate(w)
    /\ UNCHANGED <<site, mkManifest, mkRow, mkTold, cut>>

\* A plausible mistake: a package that is already gone from the venv is an error there too.
MutantGone(r) == site[r] = Nil /\ ~InEnvironment(r)

\* _remove_package has nothing to remove and no environment copy to explain it.
Gone(r) == budget.prefixed /\ site[r] = Nil /\ ~InEnvironment(r)

\* _remove_package, of an uninstall or of an install's unwind.
Remove(w) ==
    LET o == op[w] IN
    /\ o # Idle /\ o.at = "remove"
    /\ \/ /\ ~Gone(o.ref) /\ site' = [site EXCEPT ![o.ref] = Nil] /\ UNCHANGED <<budget, escalated>>
          /\ IF o.kind = "install" THEN Finish(w) ELSE Go(w, "drop") /\ UNCHANGED mkLock
       \/ /\ \/ Gone(o.ref) /\ UNCHANGED <<site, budget>>
             \/ budget.prefixed /\ HalfOutOfPrefix(o.ref)
             \/ ~budget.prefixed /\ PipFails
          /\ IF o.kind = "install" THEN Escalate(w) ELSE Finish(w) /\ UNCHANGED escalated
    /\ UNCHANGED <<mkManifest, live, mkRow, mkTold, cut>>

\* A delete that raises may have landed.
MkDrop(w) ==
    /\ op[w] # Idle /\ op[w].at = "drop"
    /\ \/ mkRow' = Deleted(op[w].ref) /\ mkTold' = [mkTold EXCEPT ![op[w].ref] = Nil] /\ (UNCHANGED budget \/ Fault)
       \/ Fault /\ UNCHANGED <<mkRow, mkTold>>
    /\ Finish(w)
    /\ UNCHANGED <<site, mkManifest, live, escalated, cut>>

----------------------------------------------------------------------------
(* What the installer does not control. *)

\* The client hung up or the worker died: the lock's connection closes and no unwind runs.
Cancel(w) ==
    /\ op[w] # Idle /\ Spend("cancels") /\ cut' = cut \cup {op[w].ref}
    /\ op' = [op EXCEPT ![w] = Idle] /\ mkLock' = Nil
    /\ UNCHANGED <<site, mkManifest, live, mkRow, mkTold, escalated>>

\* An operator puts a module into a slot or clears it, through the pipeline.
Edit(s, m) ==
    /\ Spend("edits")
    /\ mkManifest[s] # m /\ mkManifest' = [mkManifest EXCEPT ![s] = m]
    /\ live' = IF Loads(mkManifest') THEN mkManifest' ELSE live
    /\ UNCHANGED <<mkLock, op, site, mkRow, mkTold, escalated, cut>>

Step(w) ==
    \/ Check(w) \/ RemoveOld(w) \/ PipInstall(w) \/ PipBack(w) \/ Save(w) \/ MkApply(w) \/ Reload(w)
    \/ Record(w) \/ UnwindNew(w) \/ UnwindPip(w) \/ Restore(w) \/ Rereload(w) \/ Remove(w) \/ MkDrop(w)

Next ==
    \/ \E w \in Workers : Step(w) \/ Cancel(w) \/ BeginUpgradeAll(w)
    \/ \E w \in Workers, r \in Refs : Begin(w, "install", r) \/ Begin(w, "uninstall", r) \/ Begin(w, "update", r)
    \/ \E s \in Slots, m \in {Own, Nil} : Edit(s, m)

Spec == Init /\ [][Next]_vars

(* An operation's awaited calls return, and an operator re-runs an         *)
(* uninstall until it succeeds.                                            *)
Fairness ==
    /\ WF_vars(\E w \in Workers : Step(w))
    /\ \A r \in Refs : SF_vars(\E w \in Workers : Begin(w, "uninstall", r))

FairSpec == Spec /\ Fairness

----------------------------------------------------------------------------
(* What the installer guarantees. *)

MkBusy(r) == \E w \in Workers : op[w] # Idle /\ op[w].ref = r
Carries(m, r) == \E s \in Slots : m[s] \in ModulesOf(r)

\* The fleet lock belongs to a running operation: no crash or cancellation leaves the fleet wedged,
\* and no two workers change the packages at once.
LockIsLive == \A w \in Workers : op[w] # Idle <=> mkLock = w

\* A plugin without a row the installer wrote and was told of is not half there: neither persisted, nor
\* registered, nor in the site.
Whole(r) == mkTold[r] = Nil /\ ~MkBusy(r) => ~Carries(mkManifest, r) /\ ~Carries(live, r) /\ site[r] = Nil

\* Whatever call of an operation raises, a plugin is whole again, unless an unwind failed and said so.
NeverHalfRegistered == \A r \in Refs \ (escalated \cup cut) : Whole(r)

\* As the installer documents it of any mid-flight failure, a cancelled request's included.
AbortsWhole == \A r \in Refs \ escalated : Whole(r)

\* The row of a plugin, as the installer was last answered, names what the manifest wires and what is
\* installed, whatever step failed; the package is missing only after an uninstall that has not
\* dropped the row yet.  An upsert that committed and raised is unwound like one that did not: the
\* row it leaves is the one thing the unwind does not undo.
RowTruthful ==
    \A r \in Refs \ (escalated \cup cut) : mkTold[r] # Nil /\ ~MkBusy(r) =>
        /\ \A s \in Slots : mkManifest[s] \in ModulesOf(r) => mkManifest[s] \in Range(Provides[r][mkTold[r]])
        /\ Installed(r) = mkTold[r] \/ (Installed(r) = Nil /\ ~Carries(mkManifest, r))

\* A package is taken away for good only after its registration is gone, unless an unwind failed or
\* an operation was cancelled half-way.
RemovedIsDeregistered ==
    [][\A w \in Workers : op[w] # Idle /\ op[w].at = "remove" /\ site'[op[w].ref] # site[op[w].ref]
                         /\ op[w].ref \notin escalated \cup cut => ~Carries(live, op[w].ref)]_vars

\* No operation takes a slot the operator filled; only an unwind puts back an older manifest.
OperatorEditKept ==
    [][\A s \in Slots : mkManifest[s] = Own /\ budget'.edits = budget.edits =>
        \/ mkManifest'[s] = Own
        \/ \E w \in Workers : op[w] # Idle /\ op[w].at = "restore"]_vars

\* An uninstall that is run again after any failure comes to an end with the row dropped, unless the
\* manifest names a module that is not installed and so loads no more (an unwind that escalated or a
\* row nobody was told of left it so); in a plugin prefix whose files are already gone it cannot.
UninstallConverges ==
    <>[]~Loads(mkManifest) \/ \A r \in Refs : []<>(mkRow[r] = Nil \/ budget.prefixed)

\* The installer's invariant: between operations every plugin is whole, its row is true and the
\* lock is free.
PluginsConsistent == TypeOK /\ LockIsLive /\ NeverHalfRegistered /\ RowTruthful

\* Packages, manifest, registration and rows of the installer agree or the failure escalated, a
\* package goes only after its deregistration, and an operator's entry is left alone.
PluginsAgree == []PluginsConsistent /\ RemovedIsDeregistered /\ OperatorEditKept
=============================================================================

-------------------------- MODULE DocumentHistory --------------------------
(***************************************************************************)
(* What the versioned-document store promises, as its callers see it: at   *)
(* most one live document per name, holding an append-only sequence of     *)
(* bodies and a pointer into it.  Every operation is one atomic step.  One *)
(* that answers "ok" has taken that step, one that answers "error" has     *)
(* not, and of one whose answer was lost the caller knows neither.  An     *)
(* export reads the documents, then the versions: what is saved may be     *)
(* newer than the pointers it was read with, and a document removed in     *)
(* between is saved in part.  VersionedStore is the transactions of        *)
(* versioning/store.py shown to implement this, and Presets is built on it.*)
(***************************************************************************)
EXTENDS Integers, Sequences

CONSTANTS
    Names,      \* document names of one kind
    Callers,    \* who may have an operation in progress
    DhBodies,   \* bodies a document is created with
    DhPatches   \* what a save changes: functions from some of the fields

VARIABLES
    history,    \* name -> NoDoc or [active, bodies]
    reading,    \* the export under way: the documents it has read
    saved,      \* the live documents as the last export saw them
    answers     \* caller -> what its last operation answered

dhVars == <<history, reading, saved, answers>>

NoDoc == [active |-> 0, bodies |-> <<>>]
NoDocs == [n \in Names |-> NoDoc]
NotReading == [on |-> FALSE, docs |-> NoDocs, whole |-> FALSE]
Live(n) == history[n] # NoDoc
ActiveBody(n) == history[n].bodies[history[n].active]

(* The body a new version gets: the fields the caller gave over the ones   *)
(* the active version carries.                                             *)
Merged(body, patch) ==
    [f \in DOMAIN body |-> IF f \in DOMAIN patch THEN patch[f] ELSE body[f]]

Created(h, n, body) == [h EXCEPT ![n] = [active |-> 1, bodies |-> <<body>>]]
Saved(h, n, body) ==
    [h EXCEPT ![n] = [active |-> Len(@.bodies) + 1, bodies |-> Append(@.bodies, body)]]
RolledBack(h, n, v) == [h EXCEPT ![n] = [active |-> v, bodies |-> @.bodies]]
Removed(h, n) == [h EXCEPT ![n] = NoDoc]
Renamed(h, n, m) == [h EXCEPT ![m] = h[n], ![n] = NoDoc]

\* The bodies of one document, and those it was saved with.
Extends(long, short) == Len(short) <= Len(long) /\ SubSeq(long, 1, Len(short)) = short

DhInit ==
    /\ history = NoDocs /\ saved = NoDocs /\ reading = NotReading
    /\ answers = [c \in Callers |-> "none"]

Answered(c, a) == answers' = [answers EXCEPT ![c] = a]
NoEffect == UNCHANGED <<history, reading, saved>>

Begin(c) == Answered(c, "none") /\ NoEffect

(* A refused operation changes no document, nor does one that is abandoned *)
(* before its commit; a commit whose answer is lost took effect.           *)
Refused(c) == Answered(c, "error") /\ NoEffect
Lost(c) == Answered(c, "lost") /\ NoEffect
Took(c, h) == history' = h /\ (Answered(c, "ok") \/ Answered(c, "lost")) /\ UNCHANGED saved

(* Tags are not part of what this abstraction keeps of a version.           *)
Tagged(c) == Answered(c, "tagged") /\ NoEffect

(* A document goes away while its versions may still be to be read.          *)
Gone == reading' = [on |-> reading.on, docs |-> reading.docs, whole |-> FALSE]

Create(c, n, body) == ~Live(n) /\ Took(c, Created(history, n, body)) /\ UNCHANGED reading
Edit(c, n, patch) ==
    /\ Live(n) /\ history[n].active \in DOMAIN history[n].bodies
    /\ Took(c, Saved(history, n, Merged(ActiveBody(n), patch))) /\ UNCHANGED reading
Rollback(c, n, v) ==
    /\ Live(n) /\ v \in DOMAIN history[n].bodies
    /\ Took(c, RolledBack(history, n, v)) /\ UNCHANGED reading
Rename(c, n, m) == Live(n) /\ ~Live(m) /\ Took(c, Renamed(history, n, m)) /\ UNCHANGED reading
Remove(c, n) ==
    /\ Live(n) /\ Took(c, Removed(history, n))
    /\ Gone

ReadDocs ==
    /\ reading' = [on |-> TRUE, docs |-> history, whole |-> TRUE]
    /\ UNCHANGED <<history, saved, answers>>

(* Every name is saved at the version it had when the documents were read, *)
(* with all the bodies the document of that name, or of the name it has    *)
(* been given since, has by now; unless one was removed or restored        *)
(* meanwhile, they include the ones it had then.                           *)
ReadVersions ==
    /\ reading.on /\ reading' = NotReading
    /\ \A n \in Names :
          IF reading.docs[n] = NoDoc THEN saved'[n] = NoDoc
          ELSE /\ saved'[n] # NoDoc /\ saved'[n].active = reading.docs[n].active
               /\ reading.whole => \E m \in Names :
                     /\ Live(m) /\ saved'[n].bodies = history[m].bodies
                     /\ Extends(history[m].bodies, reading.docs[n].bodies)
    /\ UNCHANGED <<history, answers>>

(* A restored name is live again at the saved version, its saved bodies a  *)
(* prefix of what it holds; any other name keeps its document, or loses it *)
(* to the name it had in the backup.                                       *)
Restore ==
    /\ \A n \in Names :
          IF saved[n] # NoDoc
          THEN history'[n].active = saved[n].active /\ Extends(history'[n].bodies, saved[n].bodies)
          ELSE history'[n] \in {history[n], NoDoc}
    /\ Gone
    /\ UNCHANGED <<saved, answers>>

DhNext ==
    \/ \E c \in Callers :
          \/ Begin(c) \/ Refused(c) \/ Lost(c) \/ Tagged(c)
          \/ \E n \in Names :
                \/ \E body \in DhBodies : Create(c, n, body)
                \/ \E patch \in DhPatches : Edit(c, n, patch)
                \/ \E v \in DOMAIN history[n].bodies : Rollback(c, n, v)
                \/ Remove(c, n)
                \/ \E m \in Names \ {n} : Rename(c, n, m)
    \/ ReadDocs \/ ReadVersions \/ Restore

DhSpec == DhInit /\ [][DhNext]_dhVars
============================================================================

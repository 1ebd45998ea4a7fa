--------------------------- MODULE VersionedStore ---------------------------
(***************************************************************************)
(* versioning/store.py over its two Postgres tables, one statement at a    *)
(* time under READ COMMITTED.  A locking statement first picks the row its *)
(* snapshot shows under the name (VsFind), then waits for the row lock and *)
(* re-checks the row (VsAcquire), as Postgres does; what a transaction     *)
(* writes becomes visible at its commit.  An abandoned operation (a failed *)
(* connection, a cancelled request) rolls back and frees its lock; the     *)
(* answer of a commit may be lost, and its caller then knows no more.  An  *)
(* export is two statements, each with a snapshot of its own.              *)
(* The partial unique index on live names, the unique (document, version)  *)
(* and the cascade are the constraints of tai42_skeleton.init.sql.         *)
(***************************************************************************)
EXTENDS Integers, FiniteSets, Sequences, FiniteSetsExt

CONSTANTS
    VsNames,    \* document names
    VsBodies,   \* bodies a document is created with, functions from fields to values
    VsPatches,  \* what a save changes, functions from some of the fields to values
    VsProcs,    \* operations in progress at once
    MaxDocs,    \* bound: rows of versioned_documents
    MaxVersions,\* bound: versions of a document
    MaxVsOps    \* bound: operations and exports begun

VARIABLES
    vsDocs,     \* id -> row of versioned_documents: name, live, active
    vsRows,     \* id -> version -> row of versioned_document_versions: body, tag
    vsSeq,      \* the id the next insert takes
    vsLock,     \* id -> the transaction holding the row lock
    vsOp,       \* proc -> its operation
    vsAnswer,   \* proc -> what its last operation answered
    vsReading,  \* the export under way: the documents it read and, as history,
                \* the versions there were then and whether none went away since
    vsBackup,   \* the exported tables
    vsLeft      \* bound: operations and exports still to begin

vsVars == <<vsDocs, vsRows, vsSeq, vsLock, vsOp, vsAnswer, vsReading, vsBackup, vsLeft>>

Ids == 1..MaxDocs
Idle == [kind |-> "idle"]
NoHolder == "free"

ASSUME VsConstants == MaxDocs \in Nat /\ MaxVersions \in Nat \ {0} /\ NoHolder \notin VsProcs

vsNoRows == [i \in {} |-> 0]
VsNotReading == [on |-> FALSE, docs |-> vsNoRows, rows |-> vsNoRows, whole |-> FALSE]
\* A function with one entry written, and one function laid over another.
VsPut(f, x, e) == [y \in DOMAIN f \cup {x} |-> IF y = x THEN e ELSE f[y]]
VsOver(f, g) == [y \in DOMAIN f \cup DOMAIN g |-> IF y \in DOMAIN f THEN f[y] ELSE g[y]]

\* The versions a table has of a document.
RowsOf(rows, i) == IF i \in DOMAIN rows THEN rows[i] ELSE vsNoRows

LiveNamed(docs, n) == {i \in DOMAIN docs : docs[i].live /\ docs[i].name = n}
\* A plausible mistake: the row that was found is written whatever became of it.
MutantMatches(p, i) == i \in DOMAIN vsDocs

Matches(p, i) == i \in LiveNamed(vsDocs, vsOp[p].name)
FreeIds(held, p) == [i \in DOMAIN held |-> IF held[i] = p THEN NoHolder ELSE held[i]]

VsInit ==
    /\ vsDocs = vsNoRows /\ vsRows = vsNoRows /\ vsSeq = 1
    /\ vsLock = [i \in Ids |-> NoHolder]
    /\ vsOp = [p \in VsProcs |-> Idle]
    /\ vsAnswer = [p \in VsProcs |-> "none"]
    /\ vsReading = VsNotReading /\ vsBackup = [docs |-> vsNoRows, rows |-> vsNoRows]
    /\ vsLeft = MaxVsOps

Answer(p, a) ==
    /\ vsAnswer' = [vsAnswer EXCEPT ![p] = a]
    /\ vsOp' = [vsOp EXCEPT ![p] = Idle]
    /\ vsLock' = FreeIds(vsLock, p)

\* A commit, whose answer may be lost.
Done(p) == \E a \in {"ok", "lost"} : Answer(p, a)
\* No document is removed or restored while its versions are still to be read.
GoneFromReading == vsReading' = [vsReading EXCEPT !.whole = FALSE]

VsOps ==
    [kind : {"create"}, name : VsNames, body : VsBodies]
    \cup [kind : {"save"}, name : VsNames, patch : VsPatches]
    \cup [kind : {"rollback", "tags"}, name : VsNames, version : 1..MaxVersions]
    \cup [kind : {"soft_delete", "delete"}, name : VsNames]
    \cup {o \in [kind : {"rename"}, name : VsNames, to : VsNames] : o.to # o.name}

VsStart(p, o) ==
    /\ vsOp[p] = Idle /\ vsLeft > 0
    /\ vsLeft' = vsLeft - 1
    /\ vsOp' = [vsOp EXCEPT ![p] = VsOver([step |-> "find", id |-> 0, read |-> 0], o)]
    /\ vsAnswer' = [vsAnswer EXCEPT ![p] = "none"]
    /\ UNCHANGED <<vsDocs, vsRows, vsSeq, vsLock, vsReading, vsBackup>>

At(p, kinds, step) == vsOp[p].kind \in kinds /\ vsOp[p].step = step
Goto(p, step) == [vsOp EXCEPT ![p].step = step]

(* create: the insert of the document and of its first version, refused by *)
(* the unique index when a live document has the name.                     *)
VsCreate(p) ==
    /\ At(p, {"create"}, "find")
    /\ IF LiveNamed(vsDocs, vsOp[p].name) # {}
       THEN Answer(p, "error") /\ UNCHANGED <<vsDocs, vsRows, vsSeq>>
       ELSE /\ vsSeq \in Ids
            /\ vsDocs' = VsPut(vsDocs, vsSeq, [name |-> vsOp[p].name, live |-> TRUE, active |-> 1])
            /\ vsRows' = VsPut(vsRows, vsSeq, <<[body |-> vsOp[p].body, tag |-> 0]>>)
            /\ vsSeq' = vsSeq + 1
            /\ Done(p)
    /\ UNCHANGED <<vsReading, vsBackup, vsLeft>>

(* The statement that addresses the live row of a name: its snapshot shows *)
(* the row or none, and none is "not found".                               *)
VsFind(p) ==
    /\ At(p, {"save", "rollback", "tags", "soft_delete", "delete", "rename"}, "find")
    /\ IF LiveNamed(vsDocs, vsOp[p].name) = {}
       THEN Answer(p, "error")
       ELSE /\ vsOp' = [vsOp EXCEPT ![p].id = Max(LiveNamed(vsDocs, vsOp[p].name)),
                                    ![p].step = IF vsOp[p].kind = "tags" THEN "write" ELSE "lock"]
            /\ UNCHANGED <<vsLock, vsAnswer>>
    /\ UNCHANGED <<vsDocs, vsRows, vsSeq, vsReading, vsBackup, vsLeft>>

Locked(p, i) == Matches(p, i) /\ vsLock' = [vsLock EXCEPT ![i] = p]

(* FOR UPDATE: waits for the holder, then sees the row as it is now.        *)
VsAcquire(p) ==
    /\ At(p, {"save", "rollback"}, "lock")
    /\ vsLock[vsOp[p].id] = NoHolder
    /\ IF Matches(p, vsOp[p].id)
       THEN vsOp' = Goto(p, "read") /\ Locked(p, vsOp[p].id) /\ UNCHANGED vsAnswer
       ELSE Answer(p, "error")
    /\ UNCHANGED <<vsDocs, vsRows, vsSeq, vsReading, vsBackup, vsLeft>>

(* _locked_active_body: the active body, read in the caller's transaction  *)
(* so that the version saved after it carries its other fields forward; a  *)
(* document restored without that version has none to read.               *)
ReadBody(p) ==
    LET i == vsOp[p].id IN vsRows[i][vsDocs[i].active].body

VsReadBody(p) ==
    /\ At(p, {"save"}, "read")
    /\ IF vsDocs[vsOp[p].id].active \in DOMAIN vsRows[vsOp[p].id]
       THEN /\ vsOp' = [vsOp EXCEPT ![p].step = "max", ![p].read = ReadBody(p)]
            /\ UNCHANGED <<vsLock, vsAnswer>>
       ELSE Answer(p, "error")
    /\ UNCHANGED <<vsDocs, vsRows, vsSeq, vsReading, vsBackup, vsLeft>>

NewBody(p) == [f \in DOMAIN vsOp[p].read |-> IF f \in DOMAIN vsOp[p].patch THEN vsOp[p].patch[f] ELSE vsOp[p].read[f]]

NextVersion(i) == Max(DOMAIN vsRows[i]) + 1

(* save_version: the next version number from the rows themselves, the     *)
(* insert and the pointer, committed together.                             *)
VsSave(p) ==
    LET i == vsOp[p].id
        v == NextVersion(i) IN
    /\ At(p, {"save"}, "max")
    /\ v <= MaxVersions
    /\ vsRows' = [vsRows EXCEPT ![i] = VsPut(@, v, [body |-> NewBody(p), tag |-> 0])]
    /\ vsDocs' = [vsDocs EXCEPT ![i].active = v]
    /\ Done(p)
    /\ UNCHANGED <<vsSeq, vsReading, vsBackup, vsLeft>>

(* rollback: re-points to a version the document has.                       *)
VsRollback(p) ==
    LET i == vsOp[p].id IN
    /\ At(p, {"rollback"}, "read")
    /\ IF vsOp[p].version \in DOMAIN vsRows[i]
       THEN vsDocs' = [vsDocs EXCEPT ![i].active = vsOp[p].version] /\ Done(p)
       ELSE UNCHANGED vsDocs /\ Answer(p, "error")
    /\ UNCHANGED <<vsRows, vsSeq, vsReading, vsBackup, vsLeft>>

Without(f, i) == [j \in DOMAIN f \ {i} |-> f[j]]

(* The one-statement writers: wait for the row, re-check it, write, commit. *)
VsSoftDelete(p) ==
    LET i == vsOp[p].id IN
    /\ At(p, {"soft_delete"}, "lock")
    /\ vsLock[i] = NoHolder
    /\ IF Matches(p, i)
       THEN vsDocs' = [vsDocs EXCEPT ![i].live = FALSE] /\ Done(p) /\ GoneFromReading
       ELSE UNCHANGED <<vsDocs, vsReading>> /\ Answer(p, "error")
    /\ UNCHANGED <<vsRows, vsSeq, vsBackup, vsLeft>>

VsDelete(p) ==
    LET i == vsOp[p].id IN
    /\ At(p, {"delete"}, "lock")
    /\ vsLock[i] = NoHolder
    /\ IF Matches(p, i)
       THEN vsDocs' = Without(vsDocs, i) /\ vsRows' = Without(vsRows, i) /\ Done(p) /\ GoneFromReading
       ELSE UNCHANGED <<vsDocs, vsRows, vsReading>> /\ Answer(p, "error")
    /\ UNCHANGED <<vsSeq, vsBackup, vsLeft>>

VsRename(p) ==
    LET i == vsOp[p].id IN
    /\ At(p, {"rename"}, "lock")
    /\ vsLock[i] = NoHolder
    /\ IF Matches(p, i) /\ LiveNamed(vsDocs, vsOp[p].to) \ {i} = {}
       THEN vsDocs' = [vsDocs EXCEPT ![i].name = vsOp[p].to] /\ Done(p)
       ELSE UNCHANGED vsDocs /\ Answer(p, "error")
    /\ UNCHANGED <<vsRows, vsSeq, vsReading, vsBackup, vsLeft>>

(* set_version_tags takes no lock: its update addresses the id it read.     *)
VsTag(p) ==
    LET i == vsOp[p].id
        v == vsOp[p].version IN
    /\ At(p, {"tags"}, "write")
    /\ IF i \in DOMAIN vsRows /\ v \in DOMAIN vsRows[i]
       THEN vsRows' = [vsRows EXCEPT ![i][v].tag = 1] /\ \E a \in {"tagged", "lost"} : Answer(p, a)
       ELSE UNCHANGED vsRows /\ Answer(p, "error")
    /\ UNCHANGED <<vsDocs, vsSeq, vsReading, vsBackup, vsLeft>>

VsAbandon(p) ==
    /\ vsOp[p] # Idle
    /\ Answer(p, "lost")
    /\ UNCHANGED <<vsDocs, vsRows, vsSeq, vsReading, vsBackup, vsLeft>>

(* Export: the documents, then the versions, each as they are then; an     *)
(* export that fails between the two leaves no backup.                     *)
VsExportDocs ==
    /\ vsLeft > 0 /\ vsLeft' = vsLeft - 1
    /\ vsReading' = [on |-> TRUE, docs |-> vsDocs, rows |-> vsRows, whole |-> TRUE]
    /\ UNCHANGED <<vsDocs, vsRows, vsSeq, vsLock, vsOp, vsAnswer, vsBackup>>

VsExportVersions ==
    /\ vsReading.on
    /\ vsBackup' = [docs |-> vsReading.docs, rows |-> vsRows]
    /\ vsReading' = VsNotReading
    /\ UNCHANGED <<vsDocs, vsRows, vsSeq, vsLock, vsOp, vsAnswer, vsLeft>>

Restored(docs) == VsOver(vsBackup.docs, docs)
RestoredRows(rows) ==
    [i \in DOMAIN rows \cup DOMAIN vsBackup.docs \cup DOMAIN vsBackup.rows |->
        VsOver(RowsOf(vsBackup.rows, i), RowsOf(rows, i))]

(* Import: every exported row upserted under its id in one transaction,    *)
(* waiting for the row locks it meets, refused as a whole by the unique    *)
(* index (checked row by row, so a name must be free when its row is       *)
(* written) and by the foreign key of a version whose document is in       *)
(* neither place, then the sequence set to the largest id.                 *)
ImportOrderOK ==
    \A i \in DOMAIN vsBackup.docs : vsBackup.docs[i].live =>
        \A j \in DOMAIN vsDocs \cup DOMAIN vsBackup.docs :
            LET now == IF j < i /\ j \in DOMAIN vsBackup.docs THEN vsBackup.docs[j]
                       ELSE IF j \in DOMAIN vsDocs THEN vsDocs[j]
                       ELSE [name |-> "", live |-> FALSE, active |-> 0]
            IN j # i /\ now.live => now.name # vsBackup.docs[i].name

VsImport ==
    /\ vsBackup.docs # vsNoRows
    /\ \A i \in DOMAIN vsBackup.docs : vsLock[i] = NoHolder
    /\ ImportOrderOK
    /\ DOMAIN vsBackup.rows \subseteq DOMAIN vsDocs \cup DOMAIN vsBackup.docs
    /\ vsDocs' = Restored(vsDocs)
    /\ vsRows' = RestoredRows(vsRows)
    /\ \E i \in DOMAIN vsDocs' : (\A j \in DOMAIN vsDocs' : j <= i) /\ vsSeq' = i + 1
    /\ GoneFromReading
    /\ UNCHANGED <<vsLock, vsOp, vsAnswer, vsBackup, vsLeft>>

VsNext ==
    \/ \E p \in VsProcs :
          \/ \E o \in VsOps : VsStart(p, o)
          \/ VsCreate(p) \/ VsFind(p) \/ VsAcquire(p) \/ VsReadBody(p) \/ VsSave(p)
          \/ VsRollback(p) \/ VsSoftDelete(p) \/ VsDelete(p) \/ VsRename(p) \/ VsTag(p)
          \/ VsAbandon(p)
    \/ VsExportDocs \/ VsExportVersions \/ VsImport

VsSpec == VsInit /\ [][VsNext]_vsVars

----------------------------------------------------------------------------
(* The documents as a caller sees them in a pair of tables.                *)
Versions(rows, i) == [v \in DOMAIN RowsOf(rows, i) |-> RowsOf(rows, i)[v].body]

View(docs, rows) ==
    [n \in VsNames |->
        IF LiveNamed(docs, n) = {} THEN [active |-> 0, bodies |-> <<>>]
        ELSE LET i == Max(LiveNamed(docs, n)) IN
             [active |-> docs[i].active,
              bodies |-> Versions(rows, i)]]

Abstract == INSTANCE DocumentHistory WITH
    Names <- VsNames, Callers <- VsProcs, DhBodies <- VsBodies, DhPatches <- VsPatches,
    history <- View(vsDocs, vsRows), saved <- View(vsBackup.docs, vsBackup.rows), answers <- vsAnswer,
    reading <- [on |-> vsReading.on, docs |-> View(vsReading.docs, vsReading.rows), whole |-> vsReading.whole]

(* The transactions of the versioned-document store implement the atomic   *)
(* document history: whatever interleaving, wait and rollback, an          *)
(* acknowledged save is the next version over the body it merged with, an  *)
(* acknowledged rename, rollback or delete took effect, a refused one did  *)
(* nothing and one whose answer was lost did one or the other; an export   *)
(* saves every document with the versions it had when it was read, unless  *)
(* one was removed meanwhile, and an import brings back what was exported. *)
StoreImplements == Abstract!DhSpec
=============================================================================

-------------------------- MODULE DocumentsProofs ---------------------------
(***************************************************************************)
(* The document store, the hooks, the tool metadata and the templates, for *)
(* any number of names, topics, tools, ids and operations in progress.     *)
(*                                                                         *)
(* VersionedStore implements DocumentHistory. The refinement mapping reads *)
(* a name's live row and its versions, so the induction says what the two  *)
(* tables owe each other (TablesAgree), that a save in its locked part     *)
(* still holds the row and the body it read (LockedOps), that the versions *)
(* of the backup are the first ones the tables hold under the same ids     *)
(* (BackupKept), and that what an export has read is still there when its  *)
(* second statement looks, unless a document was removed (ReadingKept).    *)
(*                                                                         *)
(* A trigger link leads to one record and a deleted one stays deleted. A   *)
(* hash is minted once, so what a restore may bring back is never a link   *)
(* created since (Minted), and the two maps of names and of records are    *)
(* each other's inverse (Paired, Named).                                   *)
(*                                                                         *)
(* An overlay keeps every field that was merged into it, because a merge   *)
(* holds its row's lock from its read to its write and the row is then as  *)
(* it read it (RowsHeld).                                                  *)
(*                                                                         *)
(* A render uses no text older than a write that had returned when it was  *)
(* asked for. A write that returns takes away the entry of its id, so a    *)
(* finished entry, and the read under way behind a pending one, are as new *)
(* as what was acknowledged (CacheFresh); a caller's promise is one of     *)
(* those (CallsKept).                                                      *)
(***************************************************************************)
EXTENDS VersionedStore, Webhooks, ToolMeta, Templates, SequenceTheorems, TLAPS

----------------------------------------------------------------------------
(* The versioned document store. *)

Doc == [name : VsNames, live : BOOLEAN, active : Nat \ {0}]
IsFunction(f) == f = [x \in DOMAIN f |-> f[x]]
IsVersion(r) == DOMAIN r = {"body", "tag"} /\ IsFunction(r)

\* One pair of tables: no name has two live documents, and a document has the versions 1 to
\* some k, none when it was restored without.
WellFormed(docs, rows) ==
    /\ DOMAIN docs \subseteq Ids /\ docs \in [DOMAIN docs -> Doc]
    /\ DOMAIN rows \subseteq Ids /\ IsFunction(rows)
    /\ \A i \in DOMAIN rows : /\ \E k \in 0..MaxVersions : DOMAIN rows[i] = 1..k
                              /\ IsFunction(rows[i]) /\ \A v \in DOMAIN rows[i] : IsVersion(rows[i][v])
    /\ \A i, j \in DOMAIN docs : docs[i].live /\ docs[j].live /\ docs[i].name = docs[j].name => i = j

TablesAgree ==
    /\ WellFormed(vsDocs, vsRows) /\ DOMAIN vsRows = DOMAIN vsDocs
    /\ vsSeq \in Nat \ {0} /\ \A i \in DOMAIN vsDocs \cup DOMAIN vsBackup.rows : i < vsSeq

\* The exported versions are the first ones of the document that has their id.
BackupKept ==
    /\ vsBackup = [docs |-> vsBackup.docs, rows |-> vsBackup.rows]
    /\ WellFormed(vsBackup.docs, vsBackup.rows)
    /\ \A i \in DOMAIN vsBackup.rows \cap DOMAIN vsDocs : \A v \in DOMAIN vsBackup.rows[i] :
          v \in DOMAIN vsRows[i] /\ vsRows[i][v].body = vsBackup.rows[i][v].body

\* While none of them is removed, the documents an export has read are there, live as they were and
\* with the versions they had.
ReadingKept ==
    /\ vsReading = [on |-> vsReading.on, docs |-> vsReading.docs, rows |-> vsReading.rows, whole |-> vsReading.whole]
    /\ WellFormed(vsReading.docs, vsReading.rows) /\ DOMAIN vsReading.rows = DOMAIN vsReading.docs
    /\ vsReading.whole => \A i \in DOMAIN vsReading.docs :
          /\ i \in DOMAIN vsDocs /\ (vsReading.docs[i].live => vsDocs[i].live)
          /\ \A v \in DOMAIN vsReading.rows[i] :
                v \in DOMAIN vsRows[i] /\ vsRows[i][v].body = vsReading.rows[i][v].body

\* The fields an operation of each kind has.
OpOK(o) ==
    \/ o = Idle
    \/ /\ IsFunction(o) /\ {"kind", "name", "step", "id", "read"} \subseteq DOMAIN o
       /\ o.kind \in {"create", "save", "rollback", "tags", "soft_delete", "delete", "rename"}
       /\ o.name \in VsNames
       /\ o.kind = "create" => "body" \in DOMAIN o /\ o.body \in VsBodies
       /\ o.kind = "save" => "patch" \in DOMAIN o /\ o.patch \in VsPatches
       /\ o.kind \in {"rollback", "tags"} => "version" \in DOMAIN o /\ o.version \in 1..MaxVersions
       /\ o.kind = "rename" => "to" \in DOMAIN o /\ o.to \in VsNames /\ o.to # o.name

\* An operation past its lock holds the row it found, live under its name, and a save past its
\* read has the row's active body.
HasRow(p) == vsOp[p].id \in LiveNamed(vsDocs, vsOp[p].name) /\ vsLock[vsOp[p].id] = p
LockedOps ==
    /\ vsLock \in [Ids -> VsProcs \cup {NoHolder}]
    /\ DOMAIN vsOp = VsProcs /\ IsFunction(vsOp) /\ \A p \in VsProcs : OpOK(vsOp[p])
    /\ DOMAIN vsAnswer = VsProcs /\ IsFunction(vsAnswer)
    /\ \A p \in VsProcs : At(p, {"save", "rollback"}, "read") \/ At(p, {"save"}, "max") => HasRow(p)
    /\ \A p \in VsProcs : At(p, {"save"}, "max") =>
          vsDocs[vsOp[p].id].active \in DOMAIN vsRows[vsOp[p].id] /\ vsOp[p].read = ReadBody(p)

\* The inductive invariant.
VsInv == TablesAgree /\ BackupKept /\ ReadingKept /\ LockedOps

----------------------------------------------------------------------------
(* What a caller sees of a pair of tables. *)

\* The last of the versions 1 to k is k.
LEMMA MaxOfRange == \A k \in Nat \ {0} : Max(1..k) = k
<1> SUFFICES ASSUME NEW k \in Nat \ {0} PROVE Max(1..k) = k
  OBVIOUS
<1>1. k \in 1..k /\ \A y \in 1..k : k >= y
  OBVIOUS
<1>2. \A x \in 1..k : (\A y \in 1..k : x >= y) => x = k
  OBVIOUS
<1> QED BY <1>1, <1>2 DEF Max

\* A name's live document is the only one.
LEMMA LiveOne ==
    ASSUME NEW docs, NEW rows, WellFormed(docs, rows), NEW n, NEW i \in LiveNamed(docs, n)
    PROVE  LiveNamed(docs, n) = {i} /\ Max(LiveNamed(docs, n)) = i
<1>1. LiveNamed(docs, n) = {i}
  BY DEF LiveNamed, WellFormed
<1>2. i \in Nat
  BY VsConstants DEF LiveNamed, WellFormed, Ids
<1>3. Max({i}) = i
  BY <1>2 DEF Max
<1> QED BY <1>1, <1>3

\* A document has the versions 1 to some k.
LEMMA VersionsOf ==
    ASSUME NEW docs, NEW rows, WellFormed(docs, rows), NEW i
    PROVE  \E k \in Nat : /\ DOMAIN RowsOf(rows, i) = 1..k /\ k <= MaxVersions
                          /\ k # 0 => Max(DOMAIN RowsOf(rows, i)) = k
<1>1. PICK k \in 0..MaxVersions : DOMAIN RowsOf(rows, i) = 1..k
  <2>1. CASE i \in DOMAIN rows
    BY <2>1 DEF WellFormed, RowsOf
  <2>2. CASE i \notin DOMAIN rows
    <3>1. RowsOf(rows, i) = vsNoRows /\ DOMAIN vsNoRows = 1..0 /\ 0 \in 0..MaxVersions
      BY <2>2, VsConstants DEF RowsOf, vsNoRows
    <3> QED BY <3>1
  <2> QED BY <2>1, <2>2
<1>2. k \in Nat /\ k <= MaxVersions /\ (k # 0 => Max(1..k) = k)
  BY VsConstants, MaxOfRange
<1> QED BY <1>1, <1>2

\* A name with no live document shows none, and one with a live document shows it.
LEMMA ViewOf ==
    ASSUME NEW docs, NEW rows, WellFormed(docs, rows), NEW n \in VsNames
    PROVE  /\ LiveNamed(docs, n) = {} => View(docs, rows)[n] = Abstract!NoDoc
           /\ \A i \in LiveNamed(docs, n) :
                 /\ View(docs, rows)[n] = [active |-> docs[i].active, bodies |-> Versions(rows, i)]
                 /\ View(docs, rows)[n] # Abstract!NoDoc
<1>1. LiveNamed(docs, n) = {} => View(docs, rows)[n] = Abstract!NoDoc
  BY DEF View, Abstract!NoDoc
<1>2. ASSUME NEW i \in LiveNamed(docs, n)
      PROVE  /\ View(docs, rows)[n] = [active |-> docs[i].active, bodies |-> Versions(rows, i)]
             /\ View(docs, rows)[n] # Abstract!NoDoc
  <2>1. i \in DOMAIN docs /\ docs[i].active \in Nat \ {0}
    BY DEF LiveNamed, WellFormed, Doc
  <2>2. Max(LiveNamed(docs, n)) = i /\ LiveNamed(docs, n) # {}
    BY LiveOne
  <2>3. View(docs, rows)[n] = [active |-> docs[i].active, bodies |-> Versions(rows, i)]
    BY <2>2 DEF View
  <2>4. View(docs, rows)[n].active # Abstract!NoDoc.active
    BY <2>1, <2>3 DEF Abstract!NoDoc
  <2> QED BY <2>3, <2>4
<1> QED BY <1>1, <1>2

\* In tables that agree, the bodies are those of the document's rows.
LEMMA BodiesOf ==
    ASSUME NEW docs, NEW rows, DOMAIN rows = DOMAIN docs, NEW n, NEW i \in LiveNamed(docs, n)
    PROVE  Versions(rows, i) = [v \in DOMAIN rows[i] |-> rows[i][v].body]
BY DEF Versions, RowsOf, LiveNamed

LEMMA Formed == VsInv => WellFormed(vsDocs, vsRows) /\ DOMAIN vsRows = DOMAIN vsDocs
BY DEF VsInv, TablesAgree

LEMMA FormedNext == VsInv' => WellFormed(vsDocs', vsRows') /\ DOMAIN vsRows' = DOMAIN vsDocs'
BY DEF VsInv, TablesAgree

\* ViewOf of the tables as they are, and as a step leaves them.
LEMMA ViewNow ==
    ASSUME VsInv, NEW n \in VsNames
    PROVE  /\ LiveNamed(vsDocs, n) = {} => View(vsDocs, vsRows)[n] = Abstract!NoDoc
           /\ \A i \in LiveNamed(vsDocs, n) :
                 /\ View(vsDocs, vsRows)[n] = [active |-> vsDocs[i].active, bodies |-> [v \in DOMAIN vsRows[i] |-> vsRows[i][v].body]]
                 /\ View(vsDocs, vsRows)[n] # Abstract!NoDoc
<1>1. WellFormed(vsDocs, vsRows) /\ DOMAIN vsRows = DOMAIN vsDocs
  BY Formed
<1>2. ASSUME NEW i \in LiveNamed(vsDocs, n)
      PROVE  /\ View(vsDocs, vsRows)[n] = [active |-> vsDocs[i].active, bodies |-> [v \in DOMAIN vsRows[i] |-> vsRows[i][v].body]]
             /\ View(vsDocs, vsRows)[n] # Abstract!NoDoc
  <2>1. Versions(vsRows, i) = [v \in DOMAIN vsRows[i] |-> vsRows[i][v].body]
    BY <1>1, BodiesOf
  <2>2. View(vsDocs, vsRows)[n] = [active |-> vsDocs[i].active, bodies |-> Versions(vsRows, i)] /\ View(vsDocs, vsRows)[n] # Abstract!NoDoc
    BY <1>1, ViewOf
  <2> QED BY <2>1, <2>2
<1> QED BY <1>1, <1>2, ViewOf

LEMMA ViewNext ==
    ASSUME VsInv', NEW n \in VsNames
    PROVE  /\ LiveNamed(vsDocs', n) = {} => View(vsDocs', vsRows')[n] = Abstract!NoDoc
           /\ \A i \in LiveNamed(vsDocs', n) :
                 /\ View(vsDocs', vsRows')[n] = [active |-> vsDocs'[i].active, bodies |-> [v \in DOMAIN vsRows'[i] |-> vsRows'[i][v].body]]
                 /\ View(vsDocs', vsRows')[n] # Abstract!NoDoc
<1>1. WellFormed(vsDocs', vsRows') /\ DOMAIN vsRows' = DOMAIN vsDocs'
  BY FormedNext
<1>2. ASSUME NEW i \in LiveNamed(vsDocs', n)
      PROVE  /\ View(vsDocs', vsRows')[n] = [active |-> vsDocs'[i].active, bodies |-> [v \in DOMAIN vsRows'[i] |-> vsRows'[i][v].body]]
             /\ View(vsDocs', vsRows')[n] # Abstract!NoDoc
  <2>1. Versions(vsRows', i) = [v \in DOMAIN vsRows'[i] |-> vsRows'[i][v].body]
    BY <1>1, BodiesOf
  <2>2. View(vsDocs', vsRows')[n] = [active |-> vsDocs'[i].active, bodies |-> Versions(vsRows', i)] /\ View(vsDocs', vsRows')[n] # Abstract!NoDoc
    BY <1>1, ViewOf
  <2> QED BY <2>1, <2>2
<1> QED BY <1>1, <1>2, ViewOf

\* A name whose live document keeps its pointer and its bodies shows what it did.
LEMMA ViewSame ==
    ASSUME NEW docs, NEW rows, NEW docs2, NEW rows2, WellFormed(docs, rows), WellFormed(docs2, rows2), NEW n \in VsNames,
           DOMAIN rows = DOMAIN docs, DOMAIN rows2 = DOMAIN docs2,
           LiveNamed(docs2, n) = LiveNamed(docs, n),
           \A i \in LiveNamed(docs, n) :
              /\ docs2[i].active = docs[i].active /\ DOMAIN rows2[i] = DOMAIN rows[i]
              /\ \A v \in DOMAIN rows[i] : rows2[i][v].body = rows[i][v].body
    PROVE  View(docs2, rows2)[n] = View(docs, rows)[n]
<1>1. CASE LiveNamed(docs, n) = {}
  BY <1>1, ViewOf
<1>2. ASSUME NEW i \in LiveNamed(docs, n) PROVE View(docs2, rows2)[n] = View(docs, rows)[n]
  <2>1. [v \in DOMAIN rows2[i] |-> rows2[i][v].body] = [v \in DOMAIN rows[i] |-> rows[i][v].body]
    OBVIOUS
  <2>4. Versions(rows, i) = [v \in DOMAIN rows[i] |-> rows[i][v].body]
    BY BodiesOf
  <2>5. i \in LiveNamed(docs2, n) /\ Versions(rows2, i) = [v \in DOMAIN rows2[i] |-> rows2[i][v].body]
    BY BodiesOf
  <2>2. View(docs, rows)[n] = [active |-> docs[i].active, bodies |-> [v \in DOMAIN rows[i] |-> rows[i][v].body]]
    <3>1. View(docs, rows)[n] = [active |-> docs[i].active, bodies |-> Versions(rows, i)]
      BY ViewOf
    <3> QED BY <2>4, <3>1
  <2>3. View(docs2, rows2)[n] = [active |-> docs2[i].active, bodies |-> [v \in DOMAIN rows2[i] |-> rows2[i][v].body]]
    <3>1. View(docs2, rows2)[n] = [active |-> docs2[i].active, bodies |-> Versions(rows2, i)]
      BY <2>5, ViewOf
    <3> QED BY <2>5, <3>1
  <2> QED BY <2>1, <2>2, <2>3
<1> QED BY <1>1, <1>2

----------------------------------------------------------------------------
(* The invariant, step by step. *)

\* Empty tables agree, and no operation holds a lock.
LEMMA VsInitInv == VsInit => VsInv
<1> SUFFICES ASSUME VsInit PROVE VsInv
  OBVIOUS
<1> USE VsConstants DEF VsInit, vsNoRows
<1>1. WellFormed(vsDocs, vsRows) /\ WellFormed(vsBackup.docs, vsBackup.rows)
  BY DEF WellFormed, IsFunction
<1>2. TablesAgree
  BY <1>1 DEF TablesAgree
<1>3. BackupKept /\ ReadingKept
  BY <1>1 DEF BackupKept, ReadingKept, VsNotReading
<1>4. LockedOps
  BY DEF LockedOps, IsFunction, OpOK, Idle, At
<1> QED BY <1>2, <1>3, <1>4 DEF VsInv

\* An operation begins with its own fields and the fields of its progress.
LEMMA VsStartInv ==
    ASSUME VsInv, NEW p \in VsProcs, NEW o \in VsOps, VsStart(p, o)
    PROVE  VsInv'
<1>1. TablesAgree' /\ BackupKept' /\ ReadingKept'
  BY DEF VsStart, VsInv, TablesAgree, BackupKept, ReadingKept
<1> DEFINE r == VsOver([step |-> "find", id |-> 0, read |-> 0], o)
<1>2. vsOp' = [vsOp EXCEPT ![p] = r]
  BY DEF VsStart
<1>3. OpOK(r) /\ r.step = "find"
  <2>1. r.step = "find" /\ IsFunction(r) /\ DOMAIN r = {"step", "id", "read"} \cup DOMAIN o
    BY DEF VsOver, IsFunction
  <2>2. \A f \in DOMAIN o \ {"step", "id", "read"} : r[f] = o[f]
    BY DEF VsOver
  <2>3. CASE o \in [kind : {"create"}, name : VsNames, body : VsBodies]
    BY <2>1, <2>2, <2>3 DEF OpOK
  <2>4. CASE o \in [kind : {"save"}, name : VsNames, patch : VsPatches]
    BY <2>1, <2>2, <2>4 DEF OpOK
  <2>5. CASE o \in [kind : {"rollback", "tags"}, name : VsNames, version : 1..MaxVersions]
    BY <2>1, <2>2, <2>5 DEF OpOK
  <2>6. CASE o \in [kind : {"soft_delete", "delete"}, name : VsNames]
    BY <2>1, <2>2, <2>6 DEF OpOK
  <2>7. CASE o \in {q \in [kind : {"rename"}, name : VsNames, to : VsNames] : q.to # q.name}
    BY <2>1, <2>2, <2>7 DEF OpOK
  <2> QED BY <2>3, <2>4, <2>5, <2>6, <2>7 DEF VsOps
<1> HIDE DEF r
<1>4. LockedOps'
  <2>1. LockedOps /\ UNCHANGED <<vsDocs, vsRows>>
    BY DEF VsStart, VsInv
  <2> QED BY <1>2, <1>3, <2>1 DEF VsStart, LockedOps, HasRow, At, ReadBody, IsFunction
<1> QED BY <1>1, <1>4 DEF VsInv

\* What a row keeps for whoever has it locked: the document and the bodies of its versions.
RowKept(i) ==
    /\ i \in DOMAIN vsDocs => i \in DOMAIN vsDocs' /\ vsDocs'[i] = vsDocs[i]
    /\ i \in DOMAIN vsDocs => DOMAIN vsRows[i] \subseteq DOMAIN vsRows'[i]
                              /\ \A v \in DOMAIN vsRows[i] : vsRows'[i][v].body = vsRows[i][v].body

\* Operations in their locked part are not disturbed by a step that keeps the rows others have locked.
LEMMA LockedKept ==
    ASSUME VsInv, vsLock' \in [Ids -> VsProcs \cup {NoHolder}],
           DOMAIN vsOp' = VsProcs, IsFunction(vsOp'), DOMAIN vsAnswer' = VsProcs, IsFunction(vsAnswer'),
           \A q \in VsProcs : \/ vsOp'[q] = Idle
                              \/ vsOp'[q] = vsOp[q] /\ \A i \in Ids : vsLock[i] = q => vsLock'[i] = q /\ RowKept(i)
    PROVE  LockedOps'
<1>1. ASSUME NEW q \in VsProcs PROVE OpOK(vsOp'[q])
  BY <1>1 DEF VsInv, LockedOps, OpOK
<1>2. ASSUME NEW q \in VsProcs, (At(q, {"save", "rollback"}, "read") \/ At(q, {"save"}, "max"))'
      PROVE  /\ HasRow(q)' /\ vsOp'[q] = vsOp[q]
             /\ LET i == vsOp[q].id IN
                vsDocs[i].active \in DOMAIN vsRows[i] => ReadBody(q)' = ReadBody(q) /\ vsDocs'[i].active \in DOMAIN vsRows'[i]
  <2>1. vsOp'[q] = vsOp[q]
    BY <1>2 DEF At, Idle
  <2>2. HasRow(q)
    BY <1>2, <2>1 DEF At, VsInv, LockedOps
  <2> DEFINE i == vsOp[q].id
  <2>3. i \in DOMAIN vsDocs /\ i \in Ids /\ vsLock[i] = q
    BY <2>2 DEF HasRow, LiveNamed, VsInv, TablesAgree, WellFormed
  <2>4. vsLock'[i] = q /\ RowKept(i)
    BY <1>2, <2>1, <2>3 DEF At, Idle
  <2> QED BY <2>1, <2>2, <2>3, <2>4 DEF HasRow, LiveNamed, RowKept, ReadBody
<1> QED BY <1>1, <1>2 DEF LockedOps, At, VsInv

\* An answer frees the caller's locks and nobody else's.
LEMMA AnswerKeeps ==
    ASSUME VsInv, NEW p \in VsProcs, NEW a, Answer(p, a),
           \A i \in Ids : vsLock[i] \in VsProcs \ {p} => RowKept(i)
    PROVE  LockedOps'
<1>1. vsLock' \in [Ids -> VsProcs \cup {NoHolder}] /\ \A i \in Ids : vsLock[i] # p => vsLock'[i] = vsLock[i]
  BY DEF Answer, FreeIds, VsInv, LockedOps
<1>2. vsOp' = [vsOp EXCEPT ![p] = Idle] /\ vsAnswer' = [vsAnswer EXCEPT ![p] = a]
  BY DEF Answer
<1>3. DOMAIN vsOp' = VsProcs /\ IsFunction(vsOp') /\ DOMAIN vsAnswer' = VsProcs /\ IsFunction(vsAnswer')
  BY <1>2 DEF VsInv, LockedOps, IsFunction
<1>4. vsOp'[p] = Idle /\ \A q \in VsProcs \ {p} : vsOp'[q] = vsOp[q]
  BY <1>2 DEF VsInv, LockedOps
<1> QED BY <1>1, <1>3, <1>4, LockedKept

LEMMA DoneKeeps ==
    ASSUME VsInv, NEW p \in VsProcs, Done(p), \A i \in Ids : vsLock[i] \in VsProcs \ {p} => RowKept(i)
    PROVE  LockedOps'
BY AnswerKeeps DEF Done

\* What an export has read stays as long as the documents it read and their versions do.
LEMMA ReadingStays ==
    ASSUME VsInv, UNCHANGED vsReading,
           \A i \in DOMAIN vsDocs :
              /\ i \in DOMAIN vsDocs' /\ (vsDocs[i].live => vsDocs'[i].live)
              /\ \A v \in DOMAIN vsRows[i] : v \in DOMAIN vsRows'[i] /\ vsRows'[i][v].body = vsRows[i][v].body
    PROVE  ReadingKept'
BY DEF VsInv, ReadingKept

LEMMA ReadingGone == ASSUME VsInv, GoneFromReading PROVE ReadingKept'
<1>1. vsReading = [on |-> vsReading.on, docs |-> vsReading.docs, rows |-> vsReading.rows, whole |-> vsReading.whole]
  BY DEF VsInv, ReadingKept
<1>2. vsReading' = [on |-> vsReading.on, docs |-> vsReading.docs, rows |-> vsReading.rows, whole |-> FALSE]
  BY <1>1 DEF GoneFromReading
<1> QED BY <1>2 DEF VsInv, ReadingKept

\* A refusal, a failure or an abandoned operation leaves the tables.
LEMMA RefusedInv ==
    ASSUME VsInv, NEW p \in VsProcs, NEW a, Answer(p, a), UNCHANGED <<vsDocs, vsRows, vsSeq, vsReading, vsBackup>>
    PROVE  VsInv'
<1>1. LockedOps'
  BY AnswerKeeps DEF RowKept
<1>2. TablesAgree' /\ BackupKept' /\ ReadingKept'
  BY DEF VsInv, TablesAgree, BackupKept, ReadingKept
<1> QED BY <1>1, <1>2 DEF VsInv

\* A create takes an id no document and no exported document has.
LEMMA VsCreateInv ==
    ASSUME VsInv, NEW p \in VsProcs, VsCreate(p)
    PROVE  VsInv'
<1>1. CASE LiveNamed(vsDocs, vsOp[p].name) # {}
  BY <1>1, RefusedInv DEF VsCreate
<1>2. CASE LiveNamed(vsDocs, vsOp[p].name) = {}
  <2> DEFINE d == [name |-> vsOp[p].name, live |-> TRUE, active |-> 1]
             r == <<[body |-> vsOp[p].body, tag |-> 0]>>
  <2>1. /\ vsSeq \in Ids /\ vsDocs' = VsPut(vsDocs, vsSeq, d) /\ vsRows' = VsPut(vsRows, vsSeq, r)
        /\ vsSeq' = vsSeq + 1 /\ Done(p) /\ UNCHANGED <<vsReading, vsBackup, vsLeft>>
    BY <1>2 DEF VsCreate
  <2>2. d \in Doc
    BY DEF VsCreate, At, Doc, VsInv, LockedOps, OpOK, Idle
  <2>3. DOMAIN r = 1..1 /\ IsFunction(r) /\ IsVersion(r[1]) /\ r[1].body = vsOp[p].body
    BY DEF IsFunction, IsVersion
  <2>4. vsSeq \notin DOMAIN vsDocs /\ vsSeq \notin DOMAIN vsBackup.rows
    BY DEF VsInv, TablesAgree
  <2>5. /\ DOMAIN vsDocs' = DOMAIN vsDocs \cup {vsSeq} /\ vsDocs'[vsSeq] = d
        /\ DOMAIN vsRows' = DOMAIN vsDocs' /\ vsRows'[vsSeq] = r
        /\ \A i \in DOMAIN vsDocs : vsDocs'[i] = vsDocs[i] /\ vsRows'[i] = vsRows[i]
    BY <2>1, <2>4 DEF VsPut, VsInv, TablesAgree, WellFormed
  <2> HIDE DEF d, r
  <2>6. WellFormed(vsDocs', vsRows')
    <3>1. IsFunction(vsDocs') /\ IsFunction(vsRows')
      BY <2>1 DEF IsFunction, VsPut
    <3>2. vsDocs' \in [DOMAIN vsDocs' -> Doc]
      BY <2>1, <2>2, <2>4, <2>5 DEF VsInv, TablesAgree, WellFormed, VsPut
    <3>3. ASSUME NEW i \in DOMAIN vsDocs'
          PROVE  /\ \E k \in 0..MaxVersions : DOMAIN vsRows'[i] = 1..k
                 /\ IsFunction(vsRows'[i]) /\ \A v \in DOMAIN vsRows'[i] : IsVersion(vsRows'[i][v])
      <4>1. CASE i = vsSeq
        <5>1. 1 \in 0..MaxVersions
          BY VsConstants
        <5> QED BY <2>3, <2>5, <4>1, <5>1 DEF d
      <4>2. CASE i # vsSeq
        BY <2>5, <4>2 DEF VsInv, TablesAgree, WellFormed
      <4> QED BY <4>1, <4>2
    <3>4. \A i, j \in DOMAIN vsDocs' : vsDocs'[i].live /\ vsDocs'[j].live /\ vsDocs'[i].name = vsDocs'[j].name => i = j
      BY <1>2, <2>5 DEF VsInv, TablesAgree, WellFormed, LiveNamed, d
    <3> QED BY <2>1, <2>5, <3>1, <3>2, <3>3, <3>4 DEF VsInv, TablesAgree, WellFormed
  <2>7. TablesAgree'
    <3>1. DOMAIN vsDocs \subseteq Nat /\ DOMAIN vsBackup.rows \subseteq Nat
      BY VsConstants DEF VsInv, TablesAgree, BackupKept, WellFormed, Ids
    <3> QED BY <2>1, <2>5, <2>6, <3>1 DEF VsInv, TablesAgree
  <2>8. BackupKept'
    BY <2>1, <2>4, <2>5 DEF VsInv, BackupKept
  <2>9. LockedOps'
    BY <2>1, <2>5, DoneKeeps DEF RowKept, VsInv, TablesAgree
  <2>10. ReadingKept'
    BY <2>1, <2>5, ReadingStays
  <2> QED BY <2>7, <2>8, <2>9, <2>10 DEF VsInv
<1> QED BY <1>1, <1>2

\* A step of one operation that answers nothing and leaves the tables.
LEMMA OwnStepInv ==
    ASSUME VsInv, NEW p \in VsProcs, NEW o, vsOp' = [vsOp EXCEPT ![p] = o], OpOK(o),
           UNCHANGED <<vsDocs, vsRows, vsSeq, vsReading, vsBackup, vsAnswer>>,
           vsLock' \in [Ids -> VsProcs \cup {NoHolder}], \A i \in Ids : vsLock[i] \in VsProcs => vsLock'[i] = vsLock[i],
           (o.kind \in {"save", "rollback"} /\ o.step = "read") \/ (o.kind = "save" /\ o.step = "max") =>
              o.id \in LiveNamed(vsDocs, o.name) /\ vsLock'[o.id] = p,
           o.kind = "save" /\ o.step = "max" =>
              vsDocs[o.id].active \in DOMAIN vsRows[o.id] /\ o.read = vsRows[o.id][vsDocs[o.id].active].body
    PROVE  VsInv'
<1>1. TablesAgree' /\ BackupKept' /\ ReadingKept'
  BY DEF VsInv, TablesAgree, BackupKept, ReadingKept
<1>2. DOMAIN vsOp' = VsProcs /\ IsFunction(vsOp') /\ vsOp'[p] = o /\ \A q \in VsProcs \ {p} : vsOp'[q] = vsOp[q]
  BY DEF VsInv, LockedOps, IsFunction
<1>3. \A q \in VsProcs : (At(q, {"save", "rollback"}, "read") \/ At(q, {"save"}, "max"))' => HasRow(q)'
  <2> SUFFICES ASSUME NEW q \in VsProcs, (At(q, {"save", "rollback"}, "read") \/ At(q, {"save"}, "max"))'
               PROVE  HasRow(q)'
    OBVIOUS
  <2>1. CASE q = p
    <3>1. o.id \in LiveNamed(vsDocs, o.name) /\ vsLock'[o.id] = p
      BY <1>2, <2>1 DEF At
    <3> QED BY <1>2, <2>1, <3>1 DEF HasRow, LiveNamed
  <2>2. CASE q # p
    <3>1. HasRow(q) /\ vsOp'[q] = vsOp[q]
      BY <1>2, <2>2 DEF At, VsInv, LockedOps
    <3>2. vsOp[q].id \in Ids
      BY <3>1 DEF HasRow, LiveNamed, VsInv, TablesAgree, WellFormed
    <3> QED BY <3>1, <3>2 DEF HasRow
  <2> QED BY <2>1, <2>2
<1>4. \A q \in VsProcs : At(q, {"save"}, "max")' =>
        vsDocs'[vsOp'[q].id].active \in DOMAIN vsRows'[vsOp'[q].id] /\ vsOp'[q].read = ReadBody(q)'
  BY <1>2 DEF At, ReadBody, VsInv, LockedOps
<1> QED BY <1>1, <1>2, <1>3, <1>4 DEF VsInv, LockedOps

\* The statement finds the row its snapshot shows, or none.
LEMMA VsFindInv ==
    ASSUME VsInv, NEW p \in VsProcs, VsFind(p)
    PROVE  VsInv'
<1>1. CASE LiveNamed(vsDocs, vsOp[p].name) = {}
  BY <1>1, RefusedInv DEF VsFind
<1>2. CASE LiveNamed(vsDocs, vsOp[p].name) # {}
  <2> DEFINE o == [vsOp[p] EXCEPT !.id = Max(LiveNamed(vsDocs, vsOp[p].name)),
                                  !.step = IF vsOp[p].kind = "tags" THEN "write" ELSE "lock"]
  <2>1. vsOp' = [vsOp EXCEPT ![p] = o] /\ UNCHANGED <<vsDocs, vsRows, vsSeq, vsReading, vsBackup, vsAnswer, vsLock>>
    BY <1>2 DEF VsFind
  <2>2. vsOp[p] # Idle /\ OpOK(vsOp[p])
    BY DEF VsFind, At, Idle, VsInv, LockedOps
  <2>3. OpOK(o) /\ o.step \in {"write", "lock"}
    BY <2>2 DEF OpOK, IsFunction, Idle
  <2> HIDE DEF o
  <2> QED BY <2>1, <2>3, OwnStepInv DEF VsInv, LockedOps
<1> QED BY <1>1, <1>2

\* The lock is granted to whoever still finds its row, or the operation is refused.
LEMMA VsAcquireInv ==
    ASSUME VsInv, NEW p \in VsProcs, VsAcquire(p)
    PROVE  VsInv'
<1>1. CASE ~Matches(p, vsOp[p].id)
  BY <1>1, RefusedInv DEF VsAcquire
<1>2. CASE Matches(p, vsOp[p].id)
  <2> DEFINE i == vsOp[p].id
             o == [vsOp[p] EXCEPT !.step = "read"]
  <2>1. /\ vsOp' = [vsOp EXCEPT ![p] = o] /\ vsLock' = [vsLock EXCEPT ![i] = p] /\ vsLock[i] = NoHolder
        /\ UNCHANGED <<vsDocs, vsRows, vsSeq, vsReading, vsBackup, vsAnswer>>
    BY <1>2 DEF VsAcquire, Goto, Locked
  <2>2. vsOp[p] # Idle /\ OpOK(vsOp[p])
    BY DEF VsAcquire, At, Idle, VsInv, LockedOps
  <2>3. /\ OpOK(o) /\ o.step = "read" /\ o.id = i /\ o.name = vsOp[p].name
    BY <2>2 DEF OpOK, IsFunction, Idle
  <2>4. i \in LiveNamed(vsDocs, vsOp[p].name) /\ i \in Ids
    BY <1>2 DEF Matches, LiveNamed, VsInv, TablesAgree, WellFormed
  <2>5. /\ vsLock' \in [Ids -> VsProcs \cup {NoHolder}] /\ vsLock'[i] = p
        /\ \A j \in Ids : vsLock[j] \in VsProcs => vsLock'[j] = vsLock[j]
    BY <2>1, <2>4, VsConstants DEF VsInv, LockedOps
  <2> HIDE DEF o
  <2> QED BY <2>1, <2>3, <2>4, <2>5, OwnStepInv
<1> QED BY <1>1, <1>2

\* A save reads the active body of the row it holds.
LEMMA VsReadBodyInv ==
    ASSUME VsInv, NEW p \in VsProcs, VsReadBody(p)
    PROVE  VsInv'
<1> DEFINE i == vsOp[p].id
           o == [vsOp[p] EXCEPT !.step = "max", !.read = ReadBody(p)]
<1>1. CASE vsDocs[i].active \notin DOMAIN vsRows[i]
  BY <1>1, RefusedInv DEF VsReadBody
<1>2. CASE vsDocs[i].active \in DOMAIN vsRows[i]
  <2>1. vsOp' = [vsOp EXCEPT ![p] = o] /\ UNCHANGED <<vsDocs, vsRows, vsSeq, vsReading, vsBackup, vsAnswer, vsLock>>
    BY <1>2 DEF VsReadBody
  <2>2. vsOp[p] # Idle /\ OpOK(vsOp[p]) /\ HasRow(p) /\ vsOp[p].kind = "save"
    BY DEF VsReadBody, At, Idle, VsInv, LockedOps
  <2>3. /\ OpOK(o) /\ o.step = "max" /\ o.id = i /\ o.name = vsOp[p].name /\ o.kind = "save"
        /\ o.read = vsRows[i][vsDocs[i].active].body
    BY <2>2 DEF OpOK, IsFunction, Idle, ReadBody
  <2> HIDE DEF o
  <2> QED BY <1>2, <2>1, <2>2, <2>3, OwnStepInv DEF VsInv, LockedOps, HasRow
<1> QED BY <1>1, <1>2

\* A step that rewrites documents in place keeps the tables, when the documents it changes gain no
\* name another live document has.
LEMMA InPlace ==
    ASSUME VsInv, DOMAIN vsDocs' = DOMAIN vsDocs, vsDocs' \in [DOMAIN vsDocs -> Doc], UNCHANGED <<vsRows, vsSeq, vsBackup>>,
           \A i, j \in DOMAIN vsDocs : vsDocs'[i].live /\ vsDocs'[j].live /\ vsDocs'[i].name = vsDocs'[j].name => i = j
    PROVE  TablesAgree' /\ BackupKept'
<1>1. WellFormed(vsDocs', vsRows')
  BY DEF VsInv, TablesAgree, WellFormed
<1> QED BY <1>1 DEF VsInv, TablesAgree, BackupKept

\* The document a save is about to add to has the versions 1 to some k, and at least one.
LEMMA HeldVersions ==
    ASSUME VsInv, NEW p \in VsProcs, At(p, {"save"}, "max"), vsOp[p].id \in DOMAIN vsDocs
    PROVE  \E k \in Nat \ {0} : DOMAIN vsRows[vsOp[p].id] = 1..k /\ Max(DOMAIN vsRows[vsOp[p].id]) = k
<1> DEFINE i == vsOp[p].id
<1>1. vsDocs[i].active \in DOMAIN vsRows[i] /\ i \in DOMAIN vsRows
  BY DEF VsInv, LockedOps, TablesAgree
<1>2. PICK k \in Nat : DOMAIN vsRows[i] = 1..k /\ (k # 0 => Max(DOMAIN vsRows[i]) = k)
  BY <1>1, Formed, VersionsOf DEF RowsOf
<1>3. k # 0
  BY <1>1, <1>2
<1> QED BY <1>2, <1>3

\* A save adds the next version and points at it.
LEMMA VsSaveInv ==
    ASSUME VsInv, NEW p \in VsProcs, VsSave(p)
    PROVE  VsInv'
<1> DEFINE i == vsOp[p].id
           w == NextVersion(i)
           r == [body |-> NewBody(p), tag |-> 0]
<1>1. HasRow(p) /\ i \in DOMAIN vsDocs /\ i \in Ids
  BY DEF VsSave, At, VsInv, LockedOps, HasRow, LiveNamed, TablesAgree, WellFormed
<1>2. PICK k \in Nat \ {0} : DOMAIN vsRows[i] = 1..k /\ Max(DOMAIN vsRows[i]) = k
  BY <1>1, HeldVersions DEF VsSave
<1>3. /\ vsRows' = [vsRows EXCEPT ![i] = VsPut(@, w, r)] /\ vsDocs' = [vsDocs EXCEPT ![i].active = w]
      /\ w = k + 1 /\ w \in 1..MaxVersions /\ Done(p) /\ UNCHANGED <<vsSeq, vsReading, vsBackup>>
  BY <1>2, VsConstants DEF VsSave, NextVersion
<1>4. IsVersion(r) /\ r.body = NewBody(p)
  BY DEF IsVersion, IsFunction
<1> HIDE DEF w, r
<1>5. /\ DOMAIN vsRows' = DOMAIN vsRows /\ IsFunction(vsRows') /\ \A j \in DOMAIN vsRows \ {i} : vsRows'[j] = vsRows[j]
      /\ vsRows'[i] = VsPut(vsRows[i], w, r)
  BY <1>1, <1>3 DEF IsFunction, VsInv, TablesAgree, WellFormed
<1>6. /\ DOMAIN vsRows'[i] = 1..w /\ IsFunction(vsRows'[i]) /\ vsRows'[i][w] = r
      /\ \A v \in 1..k : vsRows'[i][v] = vsRows[i][v]
  <2>1. 1..k \cup {w} = 1..w /\ w \notin 1..k
    BY <1>3
  <2>2. DOMAIN vsRows'[i] = 1..w
    BY <1>2, <1>5, <2>1 DEF VsPut
  <2>3. \A v \in 1..w : vsRows'[i][v] = IF v = w THEN r ELSE vsRows[i][v]
    BY <1>2, <1>5, <2>1 DEF VsPut
  <2>4. IsFunction(vsRows'[i])
    BY <1>5 DEF VsPut, IsFunction
  <2> QED BY <1>3, <2>1, <2>2, <2>3, <2>4
<1>7. /\ DOMAIN vsDocs' = DOMAIN vsDocs /\ vsDocs' \in [DOMAIN vsDocs -> Doc] /\ \A j \in DOMAIN vsDocs \ {i} : vsDocs'[j] = vsDocs[j]
      /\ vsDocs'[i].active = w /\ vsDocs'[i].name = vsDocs[i].name /\ vsDocs'[i].live = vsDocs[i].live
  BY <1>1, <1>3 DEF VsInv, TablesAgree, WellFormed, Doc
<1>8. WellFormed(vsDocs', vsRows')
  <2>1. ASSUME NEW j \in DOMAIN vsDocs'
        PROVE  /\ \E n \in 0..MaxVersions : DOMAIN vsRows'[j] = 1..n
               /\ IsFunction(vsRows'[j]) /\ \A v \in DOMAIN vsRows'[j] : IsVersion(vsRows'[j][v])
    <3>1. CASE j = i
      <4>1. \A v \in 1..w : v = w \/ v \in 1..k
        BY <1>3
      <4>2. \A v \in 1..k : IsVersion(vsRows[i][v])
        BY <1>1, <1>2 DEF VsInv, TablesAgree, WellFormed
      <4>3. \A v \in 1..w : IsVersion(vsRows'[i][v])
        BY <1>4, <1>6, <4>1, <4>2
      <4>4. w \in 0..MaxVersions /\ DOMAIN vsRows'[i] = 1..w
        BY <1>3, <1>6
      <4> QED BY <1>3, <1>6, <1>7, <3>1, <4>3, <4>4
    <3>2. CASE j # i
      BY <1>5, <1>7, <3>2 DEF VsInv, TablesAgree, WellFormed
    <3> QED BY <3>1, <3>2
  <2>2. \A a, b \in DOMAIN vsDocs' : vsDocs'[a].live /\ vsDocs'[b].live /\ vsDocs'[a].name = vsDocs'[b].name => a = b
    BY <1>7 DEF VsInv, TablesAgree, WellFormed
  <2> QED BY <1>5, <1>7, <2>1, <2>2 DEF VsInv, TablesAgree, WellFormed
<1>9. TablesAgree'
  BY <1>3, <1>7, <1>8 DEF VsInv, TablesAgree
<1>10. \A j \in DOMAIN vsDocs : \A v \in DOMAIN vsRows[j] : v \in DOMAIN vsRows'[j] /\ vsRows'[j][v].body = vsRows[j][v].body
  <2> SUFFICES ASSUME NEW j \in DOMAIN vsDocs, NEW v \in DOMAIN vsRows[j]
               PROVE  v \in DOMAIN vsRows'[j] /\ vsRows'[j][v].body = vsRows[j][v].body
    OBVIOUS
  <2>1. CASE j = i
    <3>1. v \in 1..k /\ v \in 1..w
      BY <1>2, <1>3, <2>1
    <3> QED BY <1>6, <2>1, <3>1
  <2>2. CASE j # i
    <3>1. j \in DOMAIN vsRows
      BY DEF VsInv, TablesAgree
    <3> QED BY <1>5, <2>2, <3>1
  <2> QED BY <2>1, <2>2
<1>13. BackupKept'
  BY <1>3, <1>7, <1>10 DEF VsInv, BackupKept
<1>11. LockedOps'
  <2>1. \A j \in Ids : vsLock[j] \in VsProcs \ {p} => RowKept(j)
    BY <1>1, <1>5, <1>7 DEF RowKept, HasRow, VsInv, TablesAgree, WellFormed
  <2> QED BY <1>3, <2>1, DoneKeeps
<1>12. ReadingKept'
  <2>1. \A j \in DOMAIN vsDocs : j \in DOMAIN vsDocs' /\ vsDocs'[j].live = vsDocs[j].live
    BY <1>7
  <2> QED BY <1>3, <1>10, <2>1, ReadingStays
<1> QED BY <1>9, <1>11, <1>12, <1>13 DEF VsInv

\* A rollback points the row it holds at a version it has.
LEMMA VsRollbackInv ==
    ASSUME VsInv, NEW p \in VsProcs, VsRollback(p)
    PROVE  VsInv'
<1> DEFINE i == vsOp[p].id
<1>1. CASE vsOp[p].version \notin DOMAIN vsRows[i]
  BY <1>1, RefusedInv DEF VsRollback
<1>2. CASE vsOp[p].version \in DOMAIN vsRows[i]
  <2>1. HasRow(p) /\ i \in DOMAIN vsDocs /\ vsOp[p].version \in Nat \ {0}
    BY DEF VsRollback, At, VsInv, LockedOps, HasRow, LiveNamed, OpOK, Idle
  <2>2. vsDocs' = [vsDocs EXCEPT ![i].active = vsOp[p].version] /\ Done(p) /\ UNCHANGED <<vsRows, vsSeq, vsReading, vsBackup>>
    BY <1>2 DEF VsRollback
  <2>3. /\ DOMAIN vsDocs' = DOMAIN vsDocs /\ vsDocs' \in [DOMAIN vsDocs -> Doc] /\ \A j \in DOMAIN vsDocs \ {i} : vsDocs'[j] = vsDocs[j]
        /\ vsDocs'[i].active = vsOp[p].version /\ vsDocs'[i].name = vsDocs[i].name /\ vsDocs'[i].live = vsDocs[i].live
    BY <2>1, <2>2 DEF VsInv, TablesAgree, WellFormed, Doc
  <2>4. \A a, b \in DOMAIN vsDocs : vsDocs'[a].live /\ vsDocs'[b].live /\ vsDocs'[a].name = vsDocs'[b].name => a = b
    BY <2>3 DEF VsInv, TablesAgree, WellFormed
  <2>5. ReadingKept'
    BY <2>2, <2>3, ReadingStays
  <2>6. TablesAgree' /\ BackupKept'
    BY <2>2, <2>3, <2>4, InPlace
  <2>7. \A j \in Ids : vsLock[j] \in VsProcs \ {p} => RowKept(j)
    BY <2>1, <2>2, <2>3 DEF RowKept, HasRow
  <2> QED BY <2>2, <2>5, <2>6, <2>7, DoneKeeps DEF VsInv
<1> QED BY <1>1, <1>2

\* A soft delete hides a row nobody holds.
LEMMA VsSoftDeleteInv ==
    ASSUME VsInv, NEW p \in VsProcs, VsSoftDelete(p)
    PROVE  VsInv'
<1> DEFINE i == vsOp[p].id
<1>1. CASE ~Matches(p, i)
  BY <1>1, RefusedInv DEF VsSoftDelete
<1>2. CASE Matches(p, i)
  <2>1. i \in DOMAIN vsDocs
    BY <1>2 DEF Matches, LiveNamed
  <2>2. vsDocs' = [vsDocs EXCEPT ![i].live = FALSE] /\ Done(p) /\ GoneFromReading /\ UNCHANGED <<vsRows, vsSeq, vsBackup>> /\ vsLock[i] = NoHolder
    BY <1>2 DEF VsSoftDelete
  <2>3. /\ DOMAIN vsDocs' = DOMAIN vsDocs /\ vsDocs' \in [DOMAIN vsDocs -> Doc] /\ \A j \in DOMAIN vsDocs \ {i} : vsDocs'[j] = vsDocs[j]
        /\ vsDocs'[i].active = vsDocs[i].active /\ vsDocs'[i].live = FALSE
    BY <2>1, <2>2 DEF VsInv, TablesAgree, WellFormed, Doc
  <2>4. \A a, b \in DOMAIN vsDocs : vsDocs'[a].live /\ vsDocs'[b].live /\ vsDocs'[a].name = vsDocs'[b].name => a = b
    BY <2>3 DEF VsInv, TablesAgree, WellFormed
  <2>5. ReadingKept'
    BY <2>2, ReadingGone
  <2>6. TablesAgree' /\ BackupKept'
    BY <2>2, <2>3, <2>4, InPlace
  <2>7. \A j \in Ids : vsLock[j] \in VsProcs \ {p} => RowKept(j)
    BY <2>2, <2>3, VsConstants DEF RowKept
  <2> QED BY <2>2, <2>5, <2>6, <2>7, DoneKeeps DEF VsInv
<1> QED BY <1>1, <1>2

\* A rename takes a name no other live row has.
LEMMA VsRenameInv ==
    ASSUME VsInv, NEW p \in VsProcs, VsRename(p)
    PROVE  VsInv'
<1> DEFINE i == vsOp[p].id
<1>1. CASE ~(Matches(p, i) /\ LiveNamed(vsDocs, vsOp[p].to) \ {i} = {})
  BY <1>1, RefusedInv DEF VsRename
<1>2. CASE Matches(p, i) /\ LiveNamed(vsDocs, vsOp[p].to) \ {i} = {}
  <2>1. i \in DOMAIN vsDocs /\ vsOp[p].to \in VsNames
    BY <1>2 DEF Matches, LiveNamed, VsRename, At, VsInv, LockedOps, OpOK, Idle
  <2>2. vsDocs' = [vsDocs EXCEPT ![i].name = vsOp[p].to] /\ Done(p) /\ UNCHANGED <<vsRows, vsSeq, vsReading, vsBackup>> /\ vsLock[i] = NoHolder
    BY <1>2 DEF VsRename
  <2>3. /\ DOMAIN vsDocs' = DOMAIN vsDocs /\ vsDocs' \in [DOMAIN vsDocs -> Doc] /\ \A j \in DOMAIN vsDocs \ {i} : vsDocs'[j] = vsDocs[j]
        /\ vsDocs'[i].active = vsDocs[i].active /\ vsDocs'[i].name = vsOp[p].to /\ vsDocs'[i].live = vsDocs[i].live
    BY <2>1, <2>2 DEF VsInv, TablesAgree, WellFormed, Doc
  <2>4. \A a, b \in DOMAIN vsDocs : vsDocs'[a].live /\ vsDocs'[b].live /\ vsDocs'[a].name = vsDocs'[b].name => a = b
    BY <1>2, <2>3 DEF VsInv, TablesAgree, WellFormed, LiveNamed
  <2>5. ReadingKept'
    BY <2>2, <2>3, ReadingStays
  <2>6. TablesAgree' /\ BackupKept'
    BY <2>2, <2>3, <2>4, InPlace
  <2>7. \A j \in Ids : vsLock[j] \in VsProcs \ {p} => RowKept(j)
    BY <2>2, <2>3, VsConstants DEF RowKept
  <2> QED BY <2>2, <2>5, <2>6, <2>7, DoneKeeps DEF VsInv
<1> QED BY <1>1, <1>2

\* A delete takes a row nobody holds with its versions.
LEMMA VsDeleteInv ==
    ASSUME VsInv, NEW p \in VsProcs, VsDelete(p)
    PROVE  VsInv'
<1> DEFINE i == vsOp[p].id
<1>1. CASE ~Matches(p, i)
  BY <1>1, RefusedInv DEF VsDelete
<1>2. CASE Matches(p, i)
  <2>1. /\ vsDocs' = Without(vsDocs, i) /\ vsRows' = Without(vsRows, i) /\ Done(p)
        /\ GoneFromReading /\ UNCHANGED <<vsSeq, vsBackup>> /\ vsLock[i] = NoHolder
    BY <1>2 DEF VsDelete
  <2>2. /\ DOMAIN vsDocs' = DOMAIN vsDocs \ {i} /\ DOMAIN vsRows' = DOMAIN vsDocs' /\ IsFunction(vsRows') /\ IsFunction(vsDocs')
        /\ \A j \in DOMAIN vsDocs' : vsDocs'[j] = vsDocs[j] /\ vsRows'[j] = vsRows[j]
    BY <2>1 DEF Without, IsFunction, VsInv, TablesAgree, WellFormed
  <2>3. vsDocs' \in [DOMAIN vsDocs' -> Doc]
    BY <2>2 DEF IsFunction, VsInv, TablesAgree, WellFormed
  <2>4. WellFormed(vsDocs', vsRows')
    BY <2>2, <2>3 DEF VsInv, TablesAgree, WellFormed
  <2>5. TablesAgree' /\ BackupKept'
    BY <2>1, <2>2, <2>4 DEF VsInv, TablesAgree, BackupKept
  <2>6. \A j \in Ids : vsLock[j] \in VsProcs \ {p} => RowKept(j)
    BY <2>1, <2>2, VsConstants DEF RowKept
  <2>7. ReadingKept'
    BY <2>1, ReadingGone
  <2> QED BY <2>1, <2>5, <2>6, <2>7, DoneKeeps DEF VsInv
<1> QED BY <1>1, <1>2

\* Tags change no body.
LEMMA VsTagInv ==
    ASSUME VsInv, NEW p \in VsProcs, VsTag(p)
    PROVE  VsInv' /\ UNCHANGED vsDocs /\ DOMAIN vsRows' = DOMAIN vsRows
           /\ \A i \in DOMAIN vsRows : /\ DOMAIN vsRows'[i] = DOMAIN vsRows[i]
                                       /\ \A v \in DOMAIN vsRows[i] : vsRows'[i][v].body = vsRows[i][v].body
<1> DEFINE i == vsOp[p].id
           v == vsOp[p].version
<1>1. UNCHANGED <<vsDocs, vsSeq, vsReading, vsBackup>>
  BY DEF VsTag
<1>2. CASE ~(i \in DOMAIN vsRows /\ v \in DOMAIN vsRows[i])
  <2>1. UNCHANGED vsRows /\ Answer(p, "error")
    BY <1>2 DEF VsTag
  <2> QED BY <1>1, <2>1, RefusedInv
<1>3. CASE i \in DOMAIN vsRows /\ v \in DOMAIN vsRows[i]
  <2>1. vsRows' = [vsRows EXCEPT ![i][v].tag = 1] /\ \E a \in {"tagged", "lost"} : Answer(p, a)
    BY <1>3 DEF VsTag
  <2>2. /\ IsFunction(vsRows) /\ IsFunction(vsRows[i]) /\ IsVersion(vsRows[i][v])
        /\ DOMAIN vsRows = DOMAIN vsDocs
    BY <1>3 DEF VsInv, TablesAgree, WellFormed
  <2>3. /\ DOMAIN vsRows' = DOMAIN vsRows /\ IsFunction(vsRows')
        /\ \A j \in DOMAIN vsRows \ {i} : vsRows'[j] = vsRows[j]
        /\ vsRows'[i] = [vsRows[i] EXCEPT ![v] = [vsRows[i][v] EXCEPT !.tag = 1]]
    BY <1>3, <2>1, <2>2 DEF IsFunction
  <2>4. /\ DOMAIN vsRows'[i] = DOMAIN vsRows[i] /\ IsFunction(vsRows'[i])
        /\ \A w \in DOMAIN vsRows[i] \ {v} : vsRows'[i][w] = vsRows[i][w]
        /\ vsRows'[i][v] = [vsRows[i][v] EXCEPT !.tag = 1]
    BY <1>3, <2>2, <2>3 DEF IsFunction
  <2>5. IsVersion(vsRows'[i][v]) /\ vsRows'[i][v].body = vsRows[i][v].body
    BY <2>2, <2>4 DEF IsVersion, IsFunction
  <2>6. \A j \in DOMAIN vsRows : /\ DOMAIN vsRows'[j] = DOMAIN vsRows[j]
                                 /\ \A w \in DOMAIN vsRows[j] : vsRows'[j][w].body = vsRows[j][w].body
    BY <2>3, <2>4, <2>5
  <2>7. WellFormed(vsDocs', vsRows')
    <3>1. ASSUME NEW j \in DOMAIN vsDocs'
          PROVE  IsFunction(vsRows'[j]) /\ \A w \in DOMAIN vsRows'[j] : IsVersion(vsRows'[j][w])
      <4>1. CASE j = i
        BY <1>1, <2>4, <2>5, <4>1 DEF VsInv, TablesAgree, WellFormed
      <4>2. CASE j # i
        BY <1>1, <2>3, <4>2 DEF VsInv, TablesAgree, WellFormed
      <4> QED BY <4>1, <4>2
    <3> QED BY <1>1, <2>3, <2>6, <3>1 DEF VsInv, TablesAgree, WellFormed
  <2>8. TablesAgree'
    BY <1>1, <2>2, <2>3, <2>7 DEF VsInv, TablesAgree
  <2>9. BackupKept'
    BY <1>1, <2>2, <2>6 DEF VsInv, BackupKept
  <2>10. \A j \in Ids : vsLock[j] \in VsProcs \ {p} => RowKept(j)
    BY <1>1, <2>2, <2>6 DEF RowKept
  <2>11. LockedOps'
    BY <2>1, <2>10, AnswerKeeps
  <2>12. ReadingKept'
    BY <1>1, <2>2, <2>6, ReadingStays
  <2> QED BY <1>1, <2>3, <2>6, <2>8, <2>9, <2>11, <2>12 DEF VsInv
<1> QED BY <1>2, <1>3

\* An export reads the documents, then the versions, as they are.
LEMMA VsExportInv == ASSUME VsInv, VsExportDocs \/ VsExportVersions PROVE VsInv'
<1>1. CASE VsExportDocs
  <2>1. TablesAgree' /\ BackupKept' /\ LockedOps'
    BY <1>1 DEF VsExportDocs, VsInv, TablesAgree, BackupKept, LockedOps, HasRow, At, LiveNamed, ReadBody
  <2>2. /\ vsReading' = [on |-> TRUE, docs |-> vsDocs, rows |-> vsRows, whole |-> TRUE]
        /\ UNCHANGED <<vsDocs, vsRows>> /\ TablesAgree
    BY <1>1 DEF VsExportDocs, VsInv
  <2>3. ReadingKept'
    BY <2>2 DEF ReadingKept, TablesAgree
  <2> QED BY <2>1, <2>3 DEF VsInv
<1>2. CASE VsExportVersions
  <2>1. /\ vsBackup' = [docs |-> vsReading.docs, rows |-> vsRows] /\ vsReading' = VsNotReading
        /\ UNCHANGED <<vsDocs, vsRows, vsSeq, vsLock, vsOp, vsAnswer>>
    BY <1>2 DEF VsExportVersions
  <2>2. LockedOps'
    BY <2>1 DEF VsInv, LockedOps, HasRow, At, LiveNamed, ReadBody
  <2>3. WellFormed(vsReading.docs, vsRows)
    BY DEF VsInv, TablesAgree, ReadingKept, WellFormed
  <2>4. TablesAgree' /\ BackupKept'
    BY <2>1, <2>3 DEF VsInv, TablesAgree, BackupKept
  <2>5. WellFormed(vsNoRows, vsNoRows)
    BY DEF WellFormed, vsNoRows, IsFunction
  <2>6. ReadingKept'
    BY <2>1, <2>5 DEF ReadingKept, VsNotReading
  <2> QED BY <2>2, <2>4, <2>6 DEF VsInv
<1> QED BY <1>1, <1>2

\* What an import leaves under an id.
LEMMA ImportTables ==
    ASSUME VsInv, VsImport
    PROVE  /\ DOMAIN vsDocs' = DOMAIN vsBackup.docs \cup DOMAIN vsDocs /\ DOMAIN vsRows' = DOMAIN vsDocs'
           /\ \A i \in DOMAIN vsBackup.docs : vsDocs'[i] = vsBackup.docs[i]
           /\ \A i \in DOMAIN vsDocs \ DOMAIN vsBackup.docs : vsDocs'[i] = vsDocs[i]
           /\ \A i \in DOMAIN vsDocs' : vsRows'[i] = VsOver(RowsOf(vsBackup.rows, i), RowsOf(vsRows, i))
           /\ DOMAIN vsBackup.rows \subseteq DOMAIN vsDocs'
           /\ IsFunction(vsDocs') /\ IsFunction(vsRows')
<1>1. /\ vsDocs' = VsOver(vsBackup.docs, vsDocs) /\ vsRows' = RestoredRows(vsRows)
      /\ DOMAIN vsBackup.rows \subseteq DOMAIN vsDocs \cup DOMAIN vsBackup.docs
  BY DEF VsImport, Restored
<1>2. DOMAIN vsRows = DOMAIN vsDocs
  BY DEF VsInv, TablesAgree
<1>3. IsFunction(vsDocs') /\ IsFunction(vsRows')
  BY <1>1 DEF VsOver, RestoredRows, IsFunction
<1>4. /\ DOMAIN vsDocs' = DOMAIN vsBackup.docs \cup DOMAIN vsDocs
      /\ \A i \in DOMAIN vsBackup.docs : vsDocs'[i] = vsBackup.docs[i]
      /\ \A i \in DOMAIN vsDocs \ DOMAIN vsBackup.docs : vsDocs'[i] = vsDocs[i]
  BY <1>1 DEF VsOver
<1>5. DOMAIN vsRows' = DOMAIN vsDocs'
  BY <1>1, <1>2, <1>4 DEF RestoredRows
<1>6. \A i \in DOMAIN vsDocs' : vsRows'[i] = VsOver(RowsOf(vsBackup.rows, i), RowsOf(vsRows, i))
  BY <1>1, <1>2, <1>4 DEF RestoredRows
<1> QED BY <1>1, <1>3, <1>4, <1>5, <1>6

\* What the import of some versions of a document over those it has leaves.
LEMMA OverRows ==
    ASSUME NEW b, NEW r, IsFunction(r),
           \A v \in DOMAIN b : v \in DOMAIN r /\ r[v].body = b[v].body
    PROVE  DOMAIN VsOver(b, r) = DOMAIN r /\ \A v \in DOMAIN r : VsOver(b, r)[v].body = r[v].body
BY DEF VsOver

\* An imported document has at least its exported versions.
LEMMA ImportVersions ==
    ASSUME VsInv, VsImport, NEW i \in DOMAIN vsDocs'
    PROVE  /\ \E k \in 0..MaxVersions : DOMAIN vsRows'[i] = 1..k
           /\ IsFunction(vsRows'[i]) /\ \A v \in DOMAIN vsRows'[i] : IsVersion(vsRows'[i][v])
           /\ i \in DOMAIN vsDocs => /\ DOMAIN vsRows'[i] = DOMAIN vsRows[i]
                                     /\ \A v \in DOMAIN vsRows[i] : vsRows'[i][v].body = vsRows[i][v].body
           /\ \A v \in DOMAIN RowsOf(vsBackup.rows, i) :
                 v \in DOMAIN vsRows'[i] /\ vsRows'[i][v].body = RowsOf(vsBackup.rows, i)[v].body
<1> DEFINE b == RowsOf(vsBackup.rows, i)
           r == RowsOf(vsRows, i)
<1>1. vsRows'[i] = VsOver(b, r) /\ (i \in DOMAIN vsDocs => r = vsRows[i])
  BY ImportTables DEF RowsOf, VsInv, TablesAgree
<1>2. IsFunction(b) /\ IsFunction(r) /\ (\A v \in DOMAIN b : IsVersion(b[v])) /\ (\A v \in DOMAIN r : IsVersion(r[v]))
  BY DEF RowsOf, vsNoRows, VsInv, TablesAgree, BackupKept, WellFormed, IsFunction
<1>3. PICK k \in 0..MaxVersions : DOMAIN b = 1..k
  BY VersionsOf, VsConstants DEF VsInv, BackupKept
<1>4. PICK l \in 0..MaxVersions : DOMAIN r = 1..l
  BY VersionsOf, VsConstants, Formed
<1>5. i \in DOMAIN vsDocs => \A v \in DOMAIN b : v \in DOMAIN r /\ r[v].body = b[v].body
  BY <1>1 DEF RowsOf, vsNoRows, VsInv, BackupKept
<1>6. i \notin DOMAIN vsDocs => DOMAIN r = {}
  BY DEF RowsOf, vsNoRows, VsInv, TablesAgree
<1> HIDE DEF b, r
<1>7. IsFunction(vsRows'[i]) /\ \A v \in DOMAIN vsRows'[i] : IsVersion(vsRows'[i][v])
  BY <1>1, <1>2 DEF VsOver, IsFunction
<1>8. \A v \in DOMAIN b : v \in DOMAIN vsRows'[i] /\ vsRows'[i][v].body = b[v].body
  BY <1>1 DEF VsOver
<1>9. CASE i \in DOMAIN vsDocs
  <2>1. DOMAIN vsRows'[i] = DOMAIN r /\ \A v \in DOMAIN r : vsRows'[i][v].body = r[v].body
    BY <1>1, <1>2, <1>5, <1>9, OverRows
  <2> QED BY <1>1, <1>4, <1>7, <1>8, <1>9, <2>1 DEF b
<1>10. CASE i \notin DOMAIN vsDocs
  <2>1. DOMAIN vsRows'[i] = DOMAIN b
    BY <1>1, <1>6, <1>10 DEF VsOver
  <2> QED BY <1>3, <1>7, <1>8, <1>10, <2>1 DEF b
<1> QED BY <1>9, <1>10

\* An import brings the exported rows back under their ids, over no name another live row has.
LEMMA VsImportInv ==
    ASSUME VsInv, VsImport
    PROVE  VsInv'
<1>1. vsDocs' \in [DOMAIN vsDocs' -> Doc] /\ DOMAIN vsDocs' \subseteq Ids
  BY ImportTables DEF VsInv, TablesAgree, BackupKept, WellFormed, IsFunction
<1>2. \A i, j \in DOMAIN vsDocs' : vsDocs'[i].live /\ vsDocs'[j].live /\ vsDocs'[i].name = vsDocs'[j].name => i = j
  <2>1. \A i \in DOMAIN vsBackup.docs : \A j \in DOMAIN vsDocs \ DOMAIN vsBackup.docs :
          vsDocs'[i].live /\ vsDocs'[j].live => vsDocs'[i].name # vsDocs'[j].name
    <3> SUFFICES ASSUME NEW i \in DOMAIN vsBackup.docs, NEW j \in DOMAIN vsDocs \ DOMAIN vsBackup.docs, vsDocs'[i].live, vsDocs'[j].live
                 PROVE  vsDocs'[i].name # vsDocs'[j].name
      OBVIOUS
    <3>1. vsDocs'[i] = vsBackup.docs[i] /\ vsDocs'[j] = vsDocs[j] /\ i # j
      BY ImportTables
    <3>2. vsDocs[j].live /\ j # i => vsDocs[j].name # vsBackup.docs[i].name
      BY <3>1 DEF VsImport, ImportOrderOK
    <3> QED BY <3>1, <3>2
  <2>2. \A i, j \in DOMAIN vsBackup.docs : vsDocs'[i].live /\ vsDocs'[j].live /\ vsDocs'[i].name = vsDocs'[j].name => i = j
    BY ImportTables DEF VsInv, BackupKept, WellFormed
  <2>3. \A i, j \in DOMAIN vsDocs \ DOMAIN vsBackup.docs : vsDocs'[i].live /\ vsDocs'[j].live /\ vsDocs'[i].name = vsDocs'[j].name => i = j
    BY ImportTables DEF VsInv, TablesAgree, WellFormed
  <2> QED BY <2>1, <2>2, <2>3, ImportTables
<1>3. WellFormed(vsDocs', vsRows')
  BY <1>1, <1>2, ImportTables, ImportVersions DEF WellFormed
<1>4. vsSeq' \in Nat \ {0} /\ \A i \in DOMAIN vsDocs' \cup DOMAIN vsBackup.rows : i < vsSeq'
  <2>1. PICK i \in DOMAIN vsDocs' : (\A j \in DOMAIN vsDocs' : j <= i) /\ vsSeq' = i + 1
    BY DEF VsImport
  <2>2. DOMAIN vsDocs' \subseteq Nat /\ DOMAIN vsBackup.rows \subseteq DOMAIN vsDocs'
    BY <1>1, ImportTables, VsConstants DEF Ids
  <2> QED BY <2>1, <2>2
<1>5. TablesAgree'
  BY <1>3, <1>4, ImportTables DEF VsImport, TablesAgree
<1>6. BackupKept'
  <2>1. ASSUME NEW i \in DOMAIN vsBackup.rows \cap DOMAIN vsDocs', NEW v \in DOMAIN vsBackup.rows[i]
        PROVE  v \in DOMAIN vsRows'[i] /\ vsRows'[i][v].body = vsBackup.rows[i][v].body
    BY ImportVersions DEF RowsOf
  <2> QED BY <2>1 DEF VsImport, VsInv, BackupKept
<1>7. LockedOps'
  <2>1. \A i \in Ids : vsLock[i] \in VsProcs => RowKept(i)
    <3> SUFFICES ASSUME NEW i \in Ids, vsLock[i] \in VsProcs, i \in DOMAIN vsDocs PROVE RowKept(i)
      BY DEF RowKept
    <3>1. i \notin DOMAIN vsBackup.docs
      BY VsConstants DEF VsImport
    <3>2. i \in DOMAIN vsDocs' /\ vsDocs'[i] = vsDocs[i]
      BY <3>1, ImportTables
    <3> QED BY <3>2, ImportVersions DEF RowKept
  <2>2. UNCHANGED <<vsLock, vsOp, vsAnswer>>
    BY DEF VsImport
  <2> QED BY <2>1, <2>2, LockedKept DEF VsInv, LockedOps
<1>8. ReadingKept'
  BY ReadingGone DEF VsImport
<1> QED BY <1>5, <1>6, <1>7, <1>8 DEF VsInv

\* Every step keeps the invariant.
LEMMA VsStep == VsInv /\ [VsNext]_vsVars => VsInv'
<1> SUFFICES ASSUME VsInv, [VsNext]_vsVars PROVE VsInv'
  OBVIOUS
<1>1. ASSUME NEW p \in VsProcs, NEW o \in VsOps, VsStart(p, o) PROVE VsInv'
  BY <1>1, VsStartInv
<1>2. ASSUME NEW p \in VsProcs, VsAbandon(p) PROVE VsInv'
  BY <1>2, RefusedInv DEF VsAbandon
<1>3. CASE UNCHANGED vsVars
  BY <1>3 DEF vsVars, VsInv, TablesAgree, BackupKept, ReadingKept, LockedOps, HasRow, At, LiveNamed, ReadBody
<1> QED BY <1>1, <1>2, <1>3, VsCreateInv, VsFindInv, VsAcquireInv, VsReadBodyInv, VsSaveInv, VsRollbackInv,
           VsSoftDeleteInv, VsDeleteInv, VsRenameInv, VsTagInv, VsExportInv, VsImportInv DEF VsNext

\* The tables, the backup and the locked operations agree in every reachable state.
THEOREM StoreTables == VsSpec => []VsInv
<1> QED BY VsInitInv, VsStep, PTL DEF VsSpec

----------------------------------------------------------------------------
(* The refinement: every step is one of the document history or a stutter. *)

\* A view that differs from another at one name.
Changed(h, n, x) == [h EXCEPT ![n] = x]

\* Such a view is the other one changed at that name.
LEMMA OneName ==
    ASSUME NEW docs, NEW rows, NEW docs2, NEW rows2, NEW n \in VsNames, NEW x, View(docs2, rows2)[n] = x,
           \A m \in VsNames \ {n} : View(docs2, rows2)[m] = View(docs, rows)[m]
    PROVE  View(docs2, rows2) = Changed(View(docs, rows), n, x)
<1> DEFINE h == View(docs, rows)
           g == View(docs2, rows2)
<1>1. DOMAIN h = VsNames /\ DOMAIN g = VsNames /\ IsFunction(g) /\ IsFunction(h)
  BY DEF View, IsFunction
<1> HIDE DEF h, g
<1>2. DOMAIN [h EXCEPT ![n] = x] = DOMAIN h /\ \A m \in VsNames : [h EXCEPT ![n] = x][m] = IF m = n THEN x ELSE h[m]
  BY <1>1 DEF IsFunction
<1>3. \A m \in VsNames : g[m] = IF m = n THEN x ELSE h[m]
  BY DEF g, h
<1>4. g = [m \in VsNames |-> IF m = n THEN x ELSE h[m]]
  BY <1>1, <1>3 DEF IsFunction
<1>5. [h EXCEPT ![n] = x] = [m \in VsNames |-> IF m = n THEN x ELSE h[m]]
  BY <1>1 DEF IsFunction
<1> QED BY <1>4, <1>5 DEF g, h, Changed

LEMMA OneNameStep ==
    ASSUME NEW n \in VsNames, NEW x, View(vsDocs', vsRows')[n] = x,
           \A m \in VsNames \ {n} : View(vsDocs', vsRows')[m] = View(vsDocs, vsRows)[m]
    PROVE  View(vsDocs', vsRows') = Changed(View(vsDocs, vsRows), n, x)
BY OneName

\* A commit tells its caller "ok", or nothing.
Told(p) == vsAnswer' = [vsAnswer EXCEPT ![p] = "ok"] \/ vsAnswer' = [vsAnswer EXCEPT ![p] = "lost"]
LEMMA DoneTold == \A p \in VsProcs : Done(p) => Told(p)
BY DEF Done, Answer, Told

\* What an export has read when a document is removed or restored.
LEMMA GoneRead ==
    ASSUME VsInv, GoneFromReading
    PROVE  /\ vsReading'.on = vsReading.on /\ vsReading'.docs = vsReading.docs /\ vsReading'.rows = vsReading.rows
           /\ vsReading'.whole = FALSE
<1>1. vsReading = [on |-> vsReading.on, docs |-> vsReading.docs, rows |-> vsReading.rows, whole |-> vsReading.whole]
  BY DEF VsInv, ReadingKept
<1> QED BY <1>1 DEF GoneFromReading

LEMMA GoneReads == ASSUME VsInv, GoneFromReading PROVE Abstract!Gone
<1>1. View(vsReading'.docs, vsReading'.rows) = View(vsReading.docs, vsReading.rows)
  BY GoneRead
<1>2. vsReading'.on = vsReading.on /\ vsReading'.whole = FALSE
  BY GoneRead
<1> QED BY <1>1, <1>2 DEF Abstract!Gone

\* A refused operation is a refusal of the history, and an abandoned one is lost.
LEMMA RefusedSim ==
    ASSUME NEW p \in VsProcs, Answer(p, "error") \/ Answer(p, "lost"), UNCHANGED <<vsDocs, vsRows, vsReading, vsBackup>>
    PROVE  Abstract!Refused(p) \/ Abstract!Lost(p)
BY DEF Answer, Abstract!Refused, Abstract!Lost, Abstract!Answered, Abstract!NoEffect

\* A create that answers "ok" is a creation.
LEMMA CreateSim ==
    ASSUME VsInv, VsInv', NEW p \in VsProcs, VsCreate(p)
    PROVE  Abstract!DhNext
<1>1. CASE LiveNamed(vsDocs, vsOp[p].name) # {}
  BY <1>1, RefusedSim DEF VsCreate, Abstract!DhNext
<1>2. CASE LiveNamed(vsDocs, vsOp[p].name) = {}
  <2> DEFINE n == vsOp[p].name
             b == vsOp[p].body
             d == [name |-> n, live |-> TRUE, active |-> 1]
             r == <<[body |-> b, tag |-> 0]>>
  <2>1. /\ vsDocs' = VsPut(vsDocs, vsSeq, d) /\ vsRows' = VsPut(vsRows, vsSeq, r)
        /\ Told(p) /\ UNCHANGED <<vsReading, vsBackup>>
    BY <1>2, DoneTold DEF VsCreate
  <2>2. n \in VsNames /\ b \in VsBodies
    BY DEF VsCreate, At, VsInv, LockedOps, OpOK, Idle
  <2>3. vsSeq \notin DOMAIN vsDocs
    BY DEF VsInv, TablesAgree
  <2>4. /\ DOMAIN vsDocs' = DOMAIN vsDocs \cup {vsSeq} /\ vsDocs'[vsSeq] = d /\ vsRows'[vsSeq] = r
        /\ \A i \in DOMAIN vsDocs : vsDocs'[i] = vsDocs[i] /\ vsRows'[i] = vsRows[i]
    BY <2>1, <2>3 DEF VsPut, VsInv, TablesAgree, WellFormed
  <2>5. vsSeq \in LiveNamed(vsDocs', n) /\ d.active = 1 /\ [v \in DOMAIN r |-> r[v].body] = <<b>>
    BY <2>4 DEF LiveNamed
  <2>6. \A m \in VsNames \ {n} : LiveNamed(vsDocs', m) = LiveNamed(vsDocs, m)
    BY <2>3, <2>4 DEF LiveNamed
  <2> HIDE DEF d, r, n, b
  <2>7. View(vsDocs', vsRows')[n] = [active |-> 1, bodies |-> <<b>>]
    BY <2>2, <2>4, <2>5, ViewNow, ViewNext
  <2>8. ASSUME NEW m \in VsNames \ {n} PROVE View(vsDocs', vsRows')[m] = View(vsDocs, vsRows)[m]
    <3>1. \A i \in LiveNamed(vsDocs, m) : vsDocs'[i].active = vsDocs[i].active /\ vsRows'[i] = vsRows[i]
      BY <2>4 DEF LiveNamed
    <3> QED BY <2>6, <3>1, ViewSame DEF VsInv, TablesAgree
  <2>9. View(vsDocs', vsRows') = Changed(View(vsDocs, vsRows), n, [active |-> 1, bodies |-> <<b>>])
    BY <2>2, <2>7, <2>8, OneNameStep
  <2>10. View(vsDocs, vsRows)[n] = Abstract!NoDoc
    BY <1>2, <2>2, ViewNow, ViewNext DEF n
  <2>11. Abstract!Create(p, n, b)
    BY <2>1, <2>9, <2>10 DEF Abstract!Create, Abstract!Live, Abstract!Took, Abstract!Answered, Told, Abstract!Created, Changed
  <2> QED BY <2>2, <2>11 DEF Abstract!DhNext
<1> QED BY <1>1, <1>2

\* What the steps that change one document's pointer, name, liveness or versions leave of the others.
LEMMA OtherNames ==
    ASSUME VsInv, VsInv', NEW i \in DOMAIN vsDocs, DOMAIN vsDocs' \subseteq DOMAIN vsDocs,
           \A j \in DOMAIN vsDocs \ {i} : j \in DOMAIN vsDocs' /\ vsDocs'[j] = vsDocs[j] /\ vsRows'[j] = vsRows[j],
           NEW m \in VsNames, m # vsDocs[i].name, i \in DOMAIN vsDocs' => m # vsDocs'[i].name
    PROVE  View(vsDocs', vsRows')[m] = View(vsDocs, vsRows)[m]
<1>1. LiveNamed(vsDocs', m) = LiveNamed(vsDocs, m) /\ i \notin LiveNamed(vsDocs, m)
  BY DEF LiveNamed
<1>2. \A j \in LiveNamed(vsDocs, m) : vsDocs'[j].active = vsDocs[j].active /\ vsRows'[j] = vsRows[j]
  BY <1>1 DEF LiveNamed
<1> QED BY <1>1, <1>2, ViewSame DEF VsInv, TablesAgree

\* A save that answers "ok" appends the patch over the active body and points at it.
LEMMA SaveSim ==
    ASSUME VsInv, VsInv', NEW p \in VsProcs, VsSave(p)
    PROVE  Abstract!DhNext
<1> DEFINE i == vsOp[p].id
           n == vsOp[p].name
           patch == vsOp[p].patch
           w == NextVersion(i)
           r == [body |-> NewBody(p), tag |-> 0]
<1>1. HasRow(p) /\ i \in DOMAIN vsDocs /\ n \in VsNames /\ patch \in VsPatches /\ vsOp[p].read = ReadBody(p)
  BY DEF VsSave, At, VsInv, LockedOps, HasRow, LiveNamed, OpOK, Idle
<1>2. PICK k \in Nat \ {0} : DOMAIN vsRows[i] = 1..k /\ Max(DOMAIN vsRows[i]) = k
  BY <1>1, HeldVersions DEF VsSave
<1>3. /\ vsRows' = [vsRows EXCEPT ![i] = VsPut(@, w, r)] /\ vsDocs' = [vsDocs EXCEPT ![i].active = w]
      /\ w = k + 1 /\ Told(p) /\ UNCHANGED <<vsReading, vsBackup>>
  BY <1>2, DoneTold DEF VsSave, NextVersion
<1>4. r.body = NewBody(p) /\ NewBody(p) = Abstract!Merged(ReadBody(p), patch)
  BY <1>1 DEF NewBody, Abstract!Merged
<1> HIDE DEF w, r, patch
<1>5. /\ DOMAIN vsDocs' = DOMAIN vsDocs /\ \A j \in DOMAIN vsDocs \ {i} : vsDocs'[j] = vsDocs[j] /\ vsRows'[j] = vsRows[j]
      /\ vsDocs'[i].active = w /\ vsDocs'[i].name = vsDocs[i].name /\ vsDocs'[i].live = vsDocs[i].live
      /\ vsRows'[i] = VsPut(vsRows[i], w, r)
  <2>1. IsFunction(vsRows) /\ DOMAIN vsRows = DOMAIN vsDocs /\ IsFunction(vsDocs) /\ vsDocs[i] \in Doc
    BY <1>1 DEF VsInv, TablesAgree, WellFormed, IsFunction
  <2>2. /\ DOMAIN vsDocs' = DOMAIN vsDocs /\ \A j \in DOMAIN vsDocs \ {i} : vsDocs'[j] = vsDocs[j]
        /\ vsDocs'[i] = [vsDocs[i] EXCEPT !.active = w]
    BY <1>1, <1>3, <2>1 DEF IsFunction
  <2>3. (\A j \in DOMAIN vsDocs \ {i} : vsRows'[j] = vsRows[j]) /\ vsRows'[i] = VsPut(vsRows[i], w, r)
    BY <1>1, <1>3, <2>1 DEF IsFunction
  <2> QED BY <2>1, <2>2, <2>3 DEF Doc
<1>6. i \in LiveNamed(vsDocs, n) /\ i \in LiveNamed(vsDocs', n) /\ vsDocs[i].name = n
  BY <1>1, <1>5 DEF HasRow, LiveNamed
<1> DEFINE bodies == [v \in 1..k |-> vsRows[i][v].body]
           bodies2 == [v \in 1..(k+1) |-> IF v = k + 1 THEN NewBody(p) ELSE bodies[v]]
<1>7. View(vsDocs, vsRows)[n] = [active |-> vsDocs[i].active, bodies |-> bodies] /\ View(vsDocs, vsRows)[n] # Abstract!NoDoc
  BY <1>1, <1>2, <1>6, ViewNow, ViewNext
<1>8. View(vsDocs', vsRows')[n] = [active |-> k + 1, bodies |-> bodies2]
  <2>1. View(vsDocs', vsRows')[n] = [active |-> w, bodies |-> [v \in DOMAIN vsRows'[i] |-> vsRows'[i][v].body]]
    BY <1>1, <1>5, <1>6, ViewNow, ViewNext
  <2>2. DOMAIN vsRows'[i] = 1..(k+1) /\ \A v \in 1..(k+1) : vsRows'[i][v] = IF v = k + 1 THEN r ELSE vsRows[i][v]
    <3>1. 1..k \cup {w} = 1..(k+1)
      BY <1>3
    <3>2. DOMAIN vsRows'[i] = 1..(k+1)
      BY <1>2, <1>5, <3>1 DEF VsPut
    <3>3. \A v \in 1..(k+1) : vsRows'[i][v] = IF v = w THEN r ELSE vsRows[i][v]
      BY <1>2, <1>5, <3>1 DEF VsPut
    <3> QED BY <1>3, <3>2, <3>3
  <2>3. \A v \in 1..(k+1) : vsRows'[i][v].body = bodies2[v]
    BY <1>4, <2>2
  <2>4. [v \in DOMAIN vsRows'[i] |-> vsRows'[i][v].body] = bodies2
    BY <2>2, <2>3
  <2> QED BY <1>3, <2>1, <2>4
<1>9. Len(bodies) = k /\ Append(bodies, NewBody(p)) = bodies2
  <2> DEFINE S == {vsRows[i][v].body : v \in 1..k} \cup {NewBody(p)}
  <2>1. bodies \in [1..k -> S]
    OBVIOUS
  <2>2. bodies \in Seq(S) /\ NewBody(p) \in S
    BY <2>1, SeqDef
  <2> HIDE DEF bodies, S
  <2>3. Len(bodies) = k
    BY <2>1, <2>2, LenProperties
  <2>4. /\ Append(bodies, NewBody(p)) \in Seq(S) /\ Len(Append(bodies, NewBody(p))) = k + 1
        /\ \A v \in 1..k : Append(bodies, NewBody(p))[v] = bodies[v]
        /\ Append(bodies, NewBody(p))[k+1] = NewBody(p)
    BY <2>2, <2>3, AppendProperties
  <2>5. Append(bodies, NewBody(p)) \in [1..(k+1) -> S]
    BY <2>4, LenProperties
  <2>6. \A v \in 1..(k+1) : Append(bodies, NewBody(p))[v] = bodies2[v]
    BY <2>4
  <2> QED BY <2>3, <2>5, <2>6
<1>10. ReadBody(p) = bodies[vsDocs[i].active] /\ vsDocs[i].active \in DOMAIN bodies
  BY <1>1, <1>2 DEF ReadBody, VsSave, VsInv, LockedOps
<1>11. \A m \in VsNames \ {n} : View(vsDocs', vsRows')[m] = View(vsDocs, vsRows)[m]
  BY <1>1, <1>5, <1>6, OtherNames
<1> HIDE DEF bodies, bodies2, n
<1>12. View(vsDocs', vsRows') = Changed(View(vsDocs, vsRows), n, [active |-> k + 1, bodies |-> bodies2])
  BY <1>1, <1>8, <1>11, OneNameStep DEF n
<1>13. Abstract!Merged(Abstract!ActiveBody(n), patch) = NewBody(p)
  BY <1>4, <1>7, <1>10 DEF Abstract!ActiveBody
<1>14. View(vsDocs', vsRows') = Abstract!Saved(View(vsDocs, vsRows), n, NewBody(p))
  <2> DEFINE h == View(vsDocs, vsRows)
  <2>1. Abstract!Saved(h, n, NewBody(p))
          = Changed(h, n, [active |-> Len(h[n].bodies) + 1, bodies |-> Append(h[n].bodies, NewBody(p))])
    BY DEF Abstract!Saved, Changed
  <2>2. h[n].bodies = bodies
    BY <1>7
  <2> HIDE DEF h
  <2> QED BY <1>9, <1>12, <2>1, <2>2 DEF h
<1>15. Abstract!Edit(p, n, patch)
  BY <1>3, <1>7, <1>10, <1>13, <1>14 DEF Abstract!Edit, Abstract!Live, Abstract!Took, Abstract!Answered, Told
<1> QED BY <1>1, <1>15 DEF Abstract!DhNext, n, patch

\* A rollback that answers "ok" points at a version the document has.
LEMMA RollbackSim ==
    ASSUME VsInv, VsInv', NEW p \in VsProcs, VsRollback(p)
    PROVE  Abstract!DhNext
<1> DEFINE i == vsOp[p].id
           n == vsOp[p].name
           v == vsOp[p].version
<1>1. CASE v \notin DOMAIN vsRows[i]
  BY <1>1, RefusedSim DEF VsRollback, Abstract!DhNext
<1>2. CASE v \in DOMAIN vsRows[i]
  <2>1. HasRow(p) /\ i \in DOMAIN vsDocs /\ n \in VsNames /\ i \in LiveNamed(vsDocs, n) /\ vsDocs[i].name = n
    BY DEF VsRollback, At, VsInv, LockedOps, HasRow, LiveNamed, OpOK, Idle
  <2>2. /\ vsDocs' = [vsDocs EXCEPT ![i].active = v] /\ Told(p) /\ UNCHANGED <<vsRows, vsReading, vsBackup>>
    BY <1>2, DoneTold DEF VsRollback
  <2>3. /\ DOMAIN vsDocs' = DOMAIN vsDocs /\ \A j \in DOMAIN vsDocs \ {i} : vsDocs'[j] = vsDocs[j]
        /\ vsDocs'[i].active = v /\ vsDocs'[i].name = vsDocs[i].name /\ vsDocs'[i].live = vsDocs[i].live
    BY <2>1, <2>2 DEF VsInv, TablesAgree, WellFormed, Doc
  <2>4. i \in LiveNamed(vsDocs', n)
    BY <2>1, <2>3 DEF LiveNamed
  <2> DEFINE h == View(vsDocs, vsRows)
             bodies == [w \in DOMAIN vsRows[i] |-> vsRows[i][w].body]
  <2>5. h[n] = [active |-> vsDocs[i].active, bodies |-> bodies] /\ h[n] # Abstract!NoDoc
    BY <2>1, ViewNow, ViewNext
  <2>6. View(vsDocs', vsRows')[n] = [active |-> v, bodies |-> bodies]
    <3>1. View(vsDocs', vsRows')[n] = [active |-> vsDocs'[i].active, bodies |-> [w \in DOMAIN vsRows'[i] |-> vsRows'[i][w].body]]
      BY <2>1, <2>4, ViewNow, ViewNext
    <3>2. [w \in DOMAIN vsRows'[i] |-> vsRows'[i][w].body] = bodies /\ vsDocs'[i].active = v
      BY <2>2, <2>3
    <3> HIDE DEF bodies, v
    <3> QED BY <3>1, <3>2
  <2>7. \A m \in VsNames \ {n} : View(vsDocs', vsRows')[m] = h[m]
    BY <2>1, <2>2, <2>3, OtherNames
  <2> HIDE DEF bodies, n, v
  <2>8. View(vsDocs', vsRows') = Changed(h, n, [active |-> v, bodies |-> bodies])
    BY <2>1, <2>6, <2>7, OneNameStep
  <2>9. h[n].bodies = bodies /\ DOMAIN bodies = DOMAIN vsRows[i]
    BY <2>5 DEF bodies
  <2>10. Abstract!RolledBack(h, n, v) = Changed(h, n, [active |-> v, bodies |-> h[n].bodies])
    BY DEF Abstract!RolledBack, Changed
  <2>11. Abstract!Rollback(p, n, v) /\ v \in DOMAIN h[n].bodies
    BY <1>2, <2>2, <2>5, <2>8, <2>9, <2>10 DEF Abstract!Rollback, Abstract!Live, Abstract!Took, Abstract!Answered, Told
  <2> QED BY <2>1, <2>11 DEF Abstract!DhNext, n
<1> QED BY <1>1, <1>2

\* A document that is hidden or deleted is gone from its name.
LEMMA GoneSim ==
    ASSUME VsInv, VsInv', NEW p \in VsProcs, NEW i, NEW n \in VsNames, i \in LiveNamed(vsDocs, n),
           Told(p), GoneFromReading, UNCHANGED vsBackup,
           DOMAIN vsDocs' \subseteq DOMAIN vsDocs, i \notin LiveNamed(vsDocs', n),
           i \in DOMAIN vsDocs' => vsDocs'[i].name = n,
           \A j \in DOMAIN vsDocs \ {i} : j \in DOMAIN vsDocs' /\ vsDocs'[j] = vsDocs[j] /\ vsRows'[j] = vsRows[j]
    PROVE  Abstract!DhNext
<1> DEFINE h == View(vsDocs, vsRows)
<1>1. i \in DOMAIN vsDocs /\ vsDocs[i].name = n
  BY DEF LiveNamed
<1>2. h[n] # Abstract!NoDoc
  BY ViewNow, ViewNext
<1>3. LiveNamed(vsDocs', n) = {}
  <2>1. LiveNamed(vsDocs, n) = {i}
    BY LiveOne DEF VsInv, TablesAgree
  <2> QED BY <2>1 DEF LiveNamed
<1>4. View(vsDocs', vsRows')[n] = Abstract!NoDoc
  BY <1>3, ViewNow, ViewNext
<1>5. \A m \in VsNames \ {n} : View(vsDocs', vsRows')[m] = h[m]
  BY <1>1, OtherNames
<1>6. View(vsDocs', vsRows') = Changed(h, n, Abstract!NoDoc)
  BY <1>4, <1>5, OneNameStep
<1>7. Abstract!Removed(h, n) = Changed(h, n, Abstract!NoDoc)
  BY DEF Abstract!Removed, Changed
<1> HIDE DEF h
<1>8. Abstract!Gone
  BY GoneReads
<1>9. Abstract!Remove(p, n)
  BY <1>2, <1>6, <1>7, <1>8 DEF h, Abstract!Remove, Abstract!Live, Abstract!Took, Abstract!Answered, Told
<1> QED BY <1>9 DEF Abstract!DhNext

\* A soft delete or a delete that answers "ok" removes the document.
LEMMA RemoveSim ==
    ASSUME VsInv, VsInv', NEW p \in VsProcs, VsSoftDelete(p) \/ VsDelete(p)
    PROVE  Abstract!DhNext
<1> DEFINE i == vsOp[p].id
           n == vsOp[p].name
<1>1. n \in VsNames
  BY DEF VsSoftDelete, VsDelete, At, VsInv, LockedOps, OpOK, Idle
<1>2. CASE ~Matches(p, i)
  BY <1>2, RefusedSim DEF VsSoftDelete, VsDelete, Abstract!DhNext
<1>3. CASE Matches(p, i) /\ VsSoftDelete(p)
  <2>1. i \in DOMAIN vsDocs /\ i \in LiveNamed(vsDocs, n) /\ vsDocs[i].name = n
    BY <1>3 DEF Matches, LiveNamed
  <2>2. vsDocs' = [vsDocs EXCEPT ![i].live = FALSE] /\ Told(p) /\ GoneFromReading /\ UNCHANGED <<vsRows, vsBackup>>
    BY <1>3, DoneTold DEF VsSoftDelete
  <2>3. /\ DOMAIN vsDocs' = DOMAIN vsDocs /\ \A j \in DOMAIN vsDocs \ {i} : vsDocs'[j] = vsDocs[j]
        /\ vsDocs'[i].live = FALSE /\ vsDocs'[i].name = vsDocs[i].name
    <3>1. IsFunction(vsDocs) /\ vsDocs[i] \in Doc
      BY <2>1 DEF VsInv, TablesAgree, WellFormed, IsFunction
    <3>2. /\ DOMAIN vsDocs' = DOMAIN vsDocs /\ \A j \in DOMAIN vsDocs \ {i} : vsDocs'[j] = vsDocs[j]
          /\ vsDocs'[i] = [vsDocs[i] EXCEPT !.live = FALSE]
      BY <2>1, <2>2, <3>1 DEF IsFunction
    <3> QED BY <3>1, <3>2 DEF Doc
  <2>4. i \notin LiveNamed(vsDocs', n)
    BY <2>3 DEF LiveNamed
  <2> QED BY <1>1, <2>1, <2>2, <2>3, <2>4, GoneSim
<1>4. CASE Matches(p, i) /\ VsDelete(p)
  <2>1. i \in LiveNamed(vsDocs, n)
    BY <1>4 DEF Matches
  <2>2. /\ vsDocs' = Without(vsDocs, i) /\ vsRows' = Without(vsRows, i) /\ Told(p)
        /\ GoneFromReading /\ UNCHANGED vsBackup
    BY <1>4, DoneTold DEF VsDelete
  <2>3. /\ DOMAIN vsDocs' = DOMAIN vsDocs \ {i} /\ i \notin LiveNamed(vsDocs', n)
        /\ \A j \in DOMAIN vsDocs' : vsDocs'[j] = vsDocs[j] /\ vsRows'[j] = vsRows[j]
    BY <2>2 DEF Without, LiveNamed, VsInv, TablesAgree, WellFormed
  <2> QED BY <1>1, <2>1, <2>2, <2>3, GoneSim
<1> QED BY <1>2, <1>3, <1>4

\* A rename that answers "ok" moves the document to a name that had none.
LEMMA RenameSim ==
    ASSUME VsInv, VsInv', NEW p \in VsProcs, VsRename(p)
    PROVE  Abstract!DhNext
<1> DEFINE i == vsOp[p].id
           n == vsOp[p].name
           to == vsOp[p].to
           h == View(vsDocs, vsRows)
           g == View(vsDocs', vsRows')
<1>1. n \in VsNames /\ to \in VsNames /\ to # n
  BY DEF VsRename, At, VsInv, LockedOps, OpOK, Idle
<1>2. CASE ~(Matches(p, i) /\ LiveNamed(vsDocs, to) \ {i} = {})
  BY <1>2, RefusedSim DEF VsRename, Abstract!DhNext
<1>3. CASE Matches(p, i) /\ LiveNamed(vsDocs, to) \ {i} = {}
  <2>1. i \in DOMAIN vsDocs /\ i \in LiveNamed(vsDocs, n) /\ vsDocs[i].name = n /\ vsDocs[i].live
    BY <1>3 DEF Matches, LiveNamed
  <2>2. vsDocs' = [vsDocs EXCEPT ![i].name = to] /\ Told(p) /\ UNCHANGED <<vsRows, vsReading, vsBackup>>
    BY <1>3, DoneTold DEF VsRename
  <2>3. /\ DOMAIN vsDocs' = DOMAIN vsDocs /\ \A j \in DOMAIN vsDocs \ {i} : vsDocs'[j] = vsDocs[j]
        /\ vsDocs'[i].active = vsDocs[i].active /\ vsDocs'[i].name = to /\ vsDocs'[i].live = vsDocs[i].live
    <3>1. IsFunction(vsDocs) /\ vsDocs[i] \in Doc
      BY <2>1 DEF VsInv, TablesAgree, WellFormed, IsFunction
    <3>2. /\ DOMAIN vsDocs' = DOMAIN vsDocs /\ \A j \in DOMAIN vsDocs \ {i} : vsDocs'[j] = vsDocs[j]
          /\ vsDocs'[i] = [vsDocs[i] EXCEPT !.name = to]
      BY <2>1, <2>2, <3>1 DEF IsFunction
    <3> QED BY <3>1, <3>2 DEF Doc
  <2>4. LiveNamed(vsDocs, to) = {} /\ i \in LiveNamed(vsDocs', to) /\ LiveNamed(vsDocs', n) = {}
    <3>1. LiveNamed(vsDocs, n) = {i}
      BY <2>1, LiveOne DEF VsInv, TablesAgree
    <3>2. i \notin LiveNamed(vsDocs, to) /\ i \in LiveNamed(vsDocs', to)
      BY <1>1, <2>1, <2>3 DEF LiveNamed
    <3>3. LiveNamed(vsDocs', n) \subseteq LiveNamed(vsDocs, n) \ {i}
      BY <1>1, <2>3 DEF LiveNamed
    <3> QED BY <1>3, <3>1, <3>2, <3>3
  <2>5. h[n] # Abstract!NoDoc /\ h[to] = Abstract!NoDoc /\ g[n] = Abstract!NoDoc
    <3> HIDE DEF n, to
    <3>1. h[n] # Abstract!NoDoc
      BY <1>1, <2>1, ViewNow, ViewNext
    <3>2. h[to] = Abstract!NoDoc
      BY <1>1, <2>4, ViewNow, ViewNext
    <3>3. g[n] = Abstract!NoDoc
      BY <1>1, <2>4, ViewNow, ViewNext
    <3> QED BY <3>1, <3>2, <3>3
  <2>6. g[to] = h[n]
    <3>1. h[n] = [active |-> vsDocs[i].active, bodies |-> [w \in DOMAIN vsRows[i] |-> vsRows[i][w].body]]
      BY <1>1, <2>1, ViewNow, ViewNext
    <3>2. g[to] = [active |-> vsDocs'[i].active, bodies |-> [w \in DOMAIN vsRows'[i] |-> vsRows'[i][w].body]]
      BY <1>1, <2>4, ViewNow, ViewNext
    <3> QED BY <2>2, <2>3, <3>1, <3>2
  <2>7. \A m \in VsNames \ {n, to} : g[m] = h[m]
    BY <1>1, <2>1, <2>2, <2>3, OtherNames
  <2>8. DOMAIN h = VsNames /\ DOMAIN g = VsNames /\ IsFunction(h) /\ IsFunction(g)
    BY DEF View, IsFunction
  <2> HIDE DEF h, g, n, to
  <2>9. g = [h EXCEPT ![to] = h[n], ![n] = Abstract!NoDoc]
    BY <1>1, <2>5, <2>6, <2>7, <2>8 DEF IsFunction
  <2>10. Abstract!Rename(p, n, to)
    BY <2>2, <2>5, <2>9 DEF Abstract!Rename, Abstract!Live, Abstract!Took, Abstract!Answered, Told, Abstract!Renamed, h, g
  <2> QED BY <1>1, <2>10 DEF Abstract!DhNext
<1> QED BY <1>2, <1>3

\* Tagging a version is no step of any document.
LEMMA TagSim ==
    ASSUME VsInv, VsInv', NEW p \in VsProcs, VsTag(p)
    PROVE  Abstract!DhNext
<1>1. View(vsDocs', vsRows') = View(vsDocs, vsRows)
  <2>1. \A n \in VsNames : View(vsDocs', vsRows')[n] = View(vsDocs, vsRows)[n]
    <3> SUFFICES ASSUME NEW n \in VsNames PROVE View(vsDocs', vsRows')[n] = View(vsDocs, vsRows)[n]
      OBVIOUS
    <3>1. /\ LiveNamed(vsDocs', n) = LiveNamed(vsDocs, n)
          /\ \A i \in LiveNamed(vsDocs, n) :
              /\ vsDocs'[i].active = vsDocs[i].active /\ DOMAIN vsRows'[i] = DOMAIN vsRows[i]
              /\ \A v \in DOMAIN vsRows[i] : vsRows'[i][v].body = vsRows[i][v].body
      BY VsTagInv DEF LiveNamed, VsInv, TablesAgree, WellFormed
    <3> QED BY <3>1, ViewSame DEF VsInv, TablesAgree
  <2> QED BY <2>1 DEF View
<1>2. (\E a \in {"error", "tagged", "lost"} : vsAnswer' = [vsAnswer EXCEPT ![p] = a]) /\ UNCHANGED <<vsReading, vsBackup>>
  BY DEF VsTag, Answer
<1>3. Abstract!Refused(p) \/ Abstract!Tagged(p) \/ Abstract!Lost(p)
  BY <1>1, <1>2 DEF Abstract!Refused, Abstract!Tagged, Abstract!Lost, Abstract!Answered, Abstract!NoEffect
<1> QED BY <1>3 DEF Abstract!DhNext

\* Bodies that begin another sequence of bodies are a prefix of it.
LEMMA PrefixExtends ==
    ASSUME NEW long, NEW short, NEW k \in Nat, NEW l \in Nat, DOMAIN short = 1..k, DOMAIN long = 1..l,
           \A v \in 1..k : v \in 1..l /\ long[v].body = short[v].body
    PROVE  Abstract!Extends([v \in DOMAIN long |-> long[v].body], [v \in DOMAIN short |-> short[v].body])
<1> DEFINE b == [v \in DOMAIN short |-> short[v].body]
           c == [v \in DOMAIN long |-> long[v].body]
           S == {c[v] : v \in 1..l}
<1>1. k <= l /\ b = [v \in 1..k |-> c[v]] /\ c \in [1..l -> S]
  <2>1. k <= l
    <3>1. CASE k = 0
      BY <3>1
    <3>2. CASE k # 0
      BY <3>2
    <3> QED BY <3>1, <3>2
  <2> QED BY <2>1
<1>2. b \in [1..k -> S] /\ \A v \in 1..k : c[v] \in S
  <2>1. 1..k \subseteq 1..l
    BY <1>1
  <2>2. \A v \in 1..k : c[v] \in S
    BY <2>1
  <2> HIDE DEF b, c
  <2> QED BY <1>1, <2>2
<1> HIDE DEF b, c, S
<1>3. b \in Seq(S) /\ c \in Seq(S)
  BY <1>1, <1>2, SeqDef
<1>4. Len(b) = k /\ Len(c) = l
  BY <1>1, <1>2, <1>3, LenProperties
<1>5. SubSeq(c, 1, k) \in [1..k -> S] /\ \A v \in 1..k : SubSeq(c, 1, k)[v] = c[v]
  <2>1. /\ SubSeq(c, 1, k) \in Seq(S) /\ Len(SubSeq(c, 1, k)) = IF 1 <= k THEN k - 1 + 1 ELSE 0
        /\ \A v \in 1..k-1+1 : SubSeq(c, 1, k)[v] = c[1+v-1]
    BY <1>2, SubSeqProperties
  <2>2. Len(SubSeq(c, 1, k)) = k /\ \A v \in 1..k : SubSeq(c, 1, k)[v] = c[v]
    BY <2>1
  <2> QED BY <2>1, <2>2, LenProperties
<1>6. SubSeq(c, 1, k) = b
  BY <1>1, <1>2, <1>5
<1> QED BY <1>1, <1>4, <1>6 DEF Abstract!Extends, b, c

\* Reading the documents, and then the versions, are the two steps of an export.
LEMMA ExportSim ==
    ASSUME VsInv, VsInv', VsExportDocs \/ VsExportVersions
    PROVE  Abstract!DhNext
<1>1. CASE VsExportDocs
  <2>1. Abstract!ReadDocs
    BY <1>1 DEF VsExportDocs, Abstract!ReadDocs
  <2> QED BY <2>1 DEF Abstract!DhNext
<1>2. CASE VsExportVersions
  <2> DEFINE d == View(vsReading.docs, vsReading.rows)
             s == View(vsReading.docs, vsRows)
             h == View(vsDocs, vsRows)
  <2>1. /\ vsBackup' = [docs |-> vsReading.docs, rows |-> vsRows] /\ vsReading' = VsNotReading /\ vsReading.on
        /\ UNCHANGED <<vsDocs, vsRows, vsAnswer>>
    BY <1>2 DEF VsExportVersions
  <2>2. /\ WellFormed(vsReading.docs, vsReading.rows) /\ WellFormed(vsReading.docs, vsRows)
        /\ DOMAIN vsReading.rows = DOMAIN vsReading.docs
    BY DEF VsInv, TablesAgree, ReadingKept, WellFormed
  <2>3. ASSUME NEW n \in VsNames, d[n] = Abstract!NoDoc PROVE s[n] = Abstract!NoDoc
    BY <2>2, <2>3, ViewOf
  <2>4. ASSUME NEW n \in VsNames, d[n] # Abstract!NoDoc
        PROVE  /\ s[n] # Abstract!NoDoc /\ s[n].active = d[n].active
               /\ vsReading.whole => \E m \in VsNames :
                     /\ h[m] # Abstract!NoDoc /\ s[n].bodies = h[m].bodies
                     /\ Abstract!Extends(h[m].bodies, d[n].bodies)
    <3>1. PICK i \in LiveNamed(vsReading.docs, n) : TRUE
      BY <2>2, <2>4, ViewOf
    <3>2. i \in DOMAIN vsReading.docs /\ vsReading.docs[i].live
      BY <3>1 DEF LiveNamed
    <3>3. /\ d[n] = [active |-> vsReading.docs[i].active, bodies |-> [v \in DOMAIN vsReading.rows[i] |-> vsReading.rows[i][v].body]]
          /\ s[n] = [active |-> vsReading.docs[i].active, bodies |-> Versions(vsRows, i)] /\ s[n] # Abstract!NoDoc
      BY <2>2, <3>1, ViewOf, BodiesOf
    <3>4. ASSUME vsReading.whole
          PROVE  \E m \in VsNames : /\ h[m] # Abstract!NoDoc /\ s[n].bodies = h[m].bodies
                                    /\ Abstract!Extends(h[m].bodies, d[n].bodies)
      <4>1. /\ i \in DOMAIN vsDocs /\ vsDocs[i].live /\ i \in DOMAIN vsRows
            /\ \A v \in DOMAIN vsReading.rows[i] :
                  v \in DOMAIN vsRows[i] /\ vsRows[i][v].body = vsReading.rows[i][v].body
        BY <3>2, <3>4 DEF VsInv, ReadingKept, TablesAgree
      <4> DEFINE m == vsDocs[i].name
                 q == vsRows[i]
                 r == vsReading.rows[i]
      <4>2. m \in VsNames /\ i \in LiveNamed(vsDocs, m)
        BY <4>1 DEF LiveNamed, VsInv, TablesAgree, WellFormed, Doc
      <4>3. h[m] = [active |-> vsDocs[i].active, bodies |-> [v \in DOMAIN q |-> q[v].body]] /\ h[m] # Abstract!NoDoc
        BY <4>2, ViewNow
      <4>4. Versions(vsRows, i) = [v \in DOMAIN q |-> q[v].body]
        BY <4>1 DEF Versions, RowsOf
      <4>5. PICK k \in Nat : DOMAIN r = 1..k
        BY <2>2, <3>2, VersionsOf DEF RowsOf
      <4>6. PICK l \in Nat : DOMAIN q = 1..l
        BY <4>1, Formed, VersionsOf DEF RowsOf
      <4>7. \A v \in 1..k : v \in 1..l /\ q[v].body = r[v].body
        BY <4>1, <4>5, <4>6
      <4> HIDE DEF q, r, m, h, d, s
      <4>8. Abstract!Extends([v \in DOMAIN q |-> q[v].body], [v \in DOMAIN r |-> r[v].body])
        BY <4>5, <4>6, <4>7, PrefixExtends
      <4>9. s[n].bodies = h[m].bodies /\ h[m].bodies = [v \in DOMAIN q |-> q[v].body] /\ d[n].bodies = [v \in DOMAIN r |-> r[v].body]
        BY <3>3, <4>3, <4>4 DEF r
      <4> QED BY <4>2, <4>3, <4>8, <4>9
    <3> HIDE DEF d, s, h
    <3> QED BY <3>3, <3>4
  <2>5. View(vsNoRows, vsNoRows) = Abstract!NoDocs
    BY DEF View, LiveNamed, vsNoRows, Abstract!NoDocs, Abstract!NoDoc
  <2>6. View(vsBackup'.docs, vsBackup'.rows) = s
    BY <2>1
  <2>7. [on |-> vsReading'.on, docs |-> View(vsReading'.docs, vsReading'.rows), whole |-> vsReading'.whole] = Abstract!NotReading
    BY <2>1, <2>5 DEF VsNotReading, Abstract!NotReading
  <2> HIDE DEF d, s, h
  <2>8. \A n \in VsNames : d[n] = Abstract!NoDoc => s[n] = Abstract!NoDoc
    BY <2>3
  <2>9. Abstract!ReadVersions
    BY <2>1, <2>4, <2>6, <2>7, <2>8 DEF Abstract!ReadVersions, Abstract!Live, d, h
  <2> QED BY <2>9 DEF Abstract!DhNext
<1> QED BY <1>1, <1>2

\* An import makes every exported name what it was, with at least its versions.
LEMMA ImportSim ==
    ASSUME VsInv, VsInv', VsImport
    PROVE  Abstract!DhNext
<1> DEFINE h == View(vsDocs, vsRows)
           g == View(vsDocs', vsRows')
           s == View(vsBackup.docs, vsBackup.rows)
<1>1. UNCHANGED <<vsBackup, vsAnswer>> /\ GoneFromReading
  BY DEF VsImport
<1>2. ASSUME NEW n \in VsNames, s[n] # Abstract!NoDoc
      PROVE  g[n].active = s[n].active /\ Abstract!Extends(g[n].bodies, s[n].bodies)
  <2>1. PICK i \in LiveNamed(vsBackup.docs, n) : TRUE
    BY <1>2, ViewOf DEF VsInv, BackupKept
  <2>2. i \in DOMAIN vsBackup.docs /\ i \in DOMAIN vsDocs' /\ vsDocs'[i] = vsBackup.docs[i] /\ i \in LiveNamed(vsDocs', n)
    BY <2>1, ImportTables DEF LiveNamed
  <2> DEFINE r == RowsOf(vsBackup.rows, i)
             q == vsRows'[i]
  <2>3. s[n] = [active |-> vsBackup.docs[i].active, bodies |-> [v \in DOMAIN r |-> r[v].body]]
    BY <2>1, ViewOf DEF VsInv, BackupKept, Versions
  <2>4. g[n] = [active |-> vsDocs'[i].active, bodies |-> [v \in DOMAIN q |-> q[v].body]]
    BY <2>2, ViewNext
  <2>5. PICK k \in Nat : DOMAIN r = 1..k
    BY VersionsOf DEF VsInv, BackupKept
  <2>6. PICK l \in Nat : DOMAIN q = 1..l
    BY <2>2, ImportVersions, VsConstants
  <2>7. \A v \in 1..k : v \in 1..l /\ q[v].body = r[v].body
    BY <2>2, <2>5, <2>6, ImportVersions
  <2> HIDE DEF r, q
  <2>8. Abstract!Extends([v \in DOMAIN q |-> q[v].body], [v \in DOMAIN r |-> r[v].body])
    BY <2>5, <2>6, <2>7, PrefixExtends
  <2> QED BY <2>2, <2>3, <2>4, <2>8
<1>3. ASSUME NEW n \in VsNames, s[n] = Abstract!NoDoc
      PROVE  g[n] \in {h[n], Abstract!NoDoc}
  <2>1. LiveNamed(vsBackup.docs, n) = {}
    BY <1>3, ViewOf DEF VsInv, BackupKept
  <2>2. CASE LiveNamed(vsDocs', n) = {}
    BY <2>2, ViewNow, ViewNext
  <2>3. ASSUME NEW i \in LiveNamed(vsDocs', n) PROVE g[n] = h[n]
    <3>1. i \in DOMAIN vsDocs /\ vsDocs'[i] = vsDocs[i] /\ i \in DOMAIN vsDocs' /\ i \in LiveNamed(vsDocs, n)
      BY <2>1, ImportTables DEF LiveNamed
    <3>2. g[n] = [active |-> vsDocs'[i].active, bodies |-> [v \in DOMAIN vsRows'[i] |-> vsRows'[i][v].body]]
      BY ViewNow, ViewNext
    <3>3. h[n] = [active |-> vsDocs[i].active, bodies |-> [v \in DOMAIN vsRows[i] |-> vsRows[i][v].body]]
      BY <3>1, ViewNow, ViewNext
    <3>4. [v \in DOMAIN vsRows'[i] |-> vsRows'[i][v].body] = [v \in DOMAIN vsRows[i] |-> vsRows[i][v].body]
      BY <3>1, ImportVersions
    <3> QED BY <3>1, <3>2, <3>3, <3>4
  <2> QED BY <2>2, <2>3
<1> HIDE DEF g
<1>4. Abstract!Gone
  BY <1>1, GoneReads
<1> HIDE DEF h, s
<1>5. Abstract!Restore
  BY <1>1, <1>2, <1>3, <1>4 DEF Abstract!Restore, g, h, s
<1> QED BY <1>5 DEF Abstract!DhNext

\* Empty tables show no document.
LEMMA InitSim == VsInit => Abstract!DhInit
<1> SUFFICES ASSUME VsInit PROVE Abstract!DhInit
  OBVIOUS
<1>1. View(vsNoRows, vsNoRows) = Abstract!NoDocs
  BY DEF View, LiveNamed, vsNoRows, Abstract!NoDocs, Abstract!NoDoc
<1> QED BY <1>1 DEF VsInit, VsNotReading, Abstract!DhInit, Abstract!NotReading

\* A step that leaves the tables, the backup and the answers is none of the history.
LEMMA Stutter == UNCHANGED <<vsDocs, vsRows, vsReading, vsBackup, vsAnswer>> => UNCHANGED Abstract!dhVars
BY DEF Abstract!dhVars

\* Every transaction step is one step of the document history, or none.
LEMMA StepSim == VsInv /\ VsInv' /\ [VsNext]_vsVars => [Abstract!DhNext]_(Abstract!dhVars)
<1> SUFFICES ASSUME VsInv, VsInv', [VsNext]_vsVars PROVE [Abstract!DhNext]_(Abstract!dhVars)
  OBVIOUS
<1>1. ASSUME NEW p \in VsProcs, NEW o \in VsOps, VsStart(p, o) PROVE Abstract!DhNext
  <2>1. Abstract!Begin(p)
    BY <1>1 DEF VsStart, Abstract!Begin, Abstract!Answered, Abstract!NoEffect
  <2> QED BY <2>1 DEF Abstract!DhNext
<1>2. ASSUME NEW p \in VsProcs, VsFind(p) PROVE Abstract!DhNext \/ UNCHANGED <<vsDocs, vsRows, vsReading, vsBackup, vsAnswer>>
  BY <1>2, RefusedSim DEF VsFind, Abstract!DhNext
<1>3. ASSUME NEW p \in VsProcs, VsAcquire(p) PROVE Abstract!DhNext \/ UNCHANGED <<vsDocs, vsRows, vsReading, vsBackup, vsAnswer>>
  BY <1>3, RefusedSim DEF VsAcquire, Abstract!DhNext
<1>4. ASSUME NEW p \in VsProcs, VsReadBody(p) PROVE Abstract!DhNext \/ UNCHANGED <<vsDocs, vsRows, vsReading, vsBackup, vsAnswer>>
  BY <1>4, RefusedSim DEF VsReadBody, Abstract!DhNext
<1>5. ASSUME NEW p \in VsProcs, VsAbandon(p) PROVE Abstract!DhNext
  BY <1>5, RefusedSim DEF VsAbandon, Abstract!DhNext
<1>6. ASSUME VsExportDocs \/ VsExportVersions PROVE Abstract!DhNext
  BY <1>6, ExportSim
<1>7. CASE UNCHANGED vsVars
  BY <1>7, Stutter DEF vsVars
<1>8. CASE VsNext
  BY <1>1, <1>2, <1>3, <1>4, <1>5, <1>6, <1>8, CreateSim, SaveSim, RollbackSim, RemoveSim, RenameSim, TagSim, ImportSim,
     Stutter DEF VsNext
<1> QED BY <1>7, <1>8

\* The versioned-document store implements the atomic document history, whatever the interleaving
\* of its transactions, their waits and their rollbacks.
THEOREM StoreRefines == VsSpec => StoreImplements
<1>1. VsSpec => []VsInv
  BY StoreTables
<1> QED BY <1>1, InitSim, StepSim, PTL DEF VsSpec, StoreImplements, Abstract!DhSpec

----------------------------------------------------------------------------
(* Hooks and trigger links. *)

ImportFields == {"step", "unlocked", "freed", "put", "verifiers", "hooks", "tombs", "links"}
Importing == whImport # NoImport
WhTypes ==
    /\ DOMAIN whHook = WhTopics
    /\ Importing => DOMAIN whImport = ImportFields /\ whImport.step = "verifiers"

\* A hash is minted once, so what a restore may bring back is never a link created since.
Known(links, tombs) == (\A l \in links : l[2] \in whMinted /\ l[3].name = l[1]) /\ tombs \subseteq whMinted
Minted ==
    /\ DOMAIN whRec \cup whTomb \subseteq whMinted
    /\ whBackup # NoBackup => Known(whBackup.links, whBackup.tombs)
    /\ Importing => Known(whImport.links, whImport.tombs)

\* A name leads to a record of that name: no two names lead to one record.
Paired == \A n \in DOMAIN whName : whName[n] \in DOMAIN whRec /\ whRec[whName[n]].name = n
Named == \A h \in DOMAIN whRec : whRec[h].name \in DOMAIN whName /\ whName[whRec[h].name] = h
Buried == whTomb \cap DOMAIN whRec = {}
Placed == \A t \in WhTopics, h \in WhHooks : h \in DOMAIN whHook[t] <=> (h \in DOMAIN whMap /\ whMap[h] = t)

\* A verifier the backup shows is bound, was unbound since the import began, is still to be bound or
\* leaves its topic unlocked.
VerifierKept == Importing => whBackup.verifiers \subseteq whVerifier \cup whImport.freed \cup whImport.unlocked \cup whImport.verifiers

LinksInv == WhTypes /\ Minted /\ Paired /\ Named /\ Buried /\ Placed /\ VerifierKept /\ RestoreKeepsLocks

LEMMA LinksInitially == WhInit => LinksInv
<1> SUFFICES ASSUME WhInit PROVE LinksInv
  OBVIOUS
<1> USE DEF WhInit, WhNone, NoImport, NoBackup
<1>1. WhTypes
  BY DEF WhTypes, Importing
<1>2. Minted
  BY DEF Minted, Importing
<1>3. Paired /\ Named
  BY DEF Paired, Named
<1>4. Buried
  BY DEF Buried
<1>5. Placed
  BY DEF Placed
<1>6. VerifierKept /\ RestoreKeepsLocks
  BY DEF VerifierKept, RestoreKeepsLocks, Importing
<1> QED
  BY <1>1, <1>2, <1>3, <1>4, <1>5, <1>6 DEF LinksInv

\* What does not touch a link, a hook or an import keeps the invariant: requests at the doors, keys,
\* verifiers that are bound.
LEMMA LinksAside ==
  ASSUME LinksInv,
         UNCHANGED <<whHook, whMap, whName, whRec, whTomb, whMinted, whBackup, whImport>>,
         whVerifier \subseteq whVerifier'
  PROVE  LinksInv'
<1>1. WhTypes'
  BY DEF LinksInv, WhTypes, Importing
<1>2. Minted'
  BY DEF LinksInv, Minted, Known, Importing
<1>3. Paired' /\ Named' /\ Buried'
  BY DEF LinksInv, Paired, Named, Buried
<1>4. Placed'
  BY DEF LinksInv, Placed
<1>5. VerifierKept' /\ RestoreKeepsLocks'
  BY DEF LinksInv, VerifierKept, RestoreKeepsLocks, Importing
<1> QED
  BY <1>1, <1>2, <1>3, <1>4, <1>5 DEF LinksInv

LEMMA LinksDeleteVerifier ==
  ASSUME LinksInv, NEW t \in WhTopics, DeleteTopicVerifier(t)
  PROVE  LinksInv'
<1> USE DEF DeleteTopicVerifier
<1> DEFINE freed == whImport.freed \cup {t}
<1>0. /\ Importing' <=> Importing
      /\ Importing => whImport' = [whImport EXCEPT !.freed = freed]
  BY DEF LinksInv, WhTypes, Importing, ImportFields, NoImport
<1>1. Importing => /\ DOMAIN whImport' = ImportFields /\ whImport'.freed = freed
                   /\ whImport'.step = whImport.step /\ whImport'.unlocked = whImport.unlocked /\ whImport'.put = whImport.put
                   /\ whImport'.verifiers = whImport.verifiers /\ whImport'.tombs = whImport.tombs
                   /\ whImport'.links = whImport.links
  BY <1>0 DEF LinksInv, WhTypes, ImportFields
<1>2. WhTypes'
  BY <1>0, <1>1 DEF LinksInv, WhTypes
<1>3. Minted'
  BY <1>0, <1>1 DEF LinksInv, Minted, Known
<1>4. Paired' /\ Named' /\ Buried'
  BY DEF LinksInv, Paired, Named, Buried
<1>5. Placed'
  BY DEF LinksInv, Placed
<1>6. VerifierKept' /\ RestoreKeepsLocks'
  BY <1>0, <1>1 DEF LinksInv, VerifierKept, RestoreKeepsLocks, Importing
<1> QED
  BY <1>2, <1>3, <1>4, <1>5, <1>6 DEF LinksInv

\* A hook that is put in a topic's hash leaves the hash it was in.
LEMMA PutPlaces ==
  ASSUME LinksInv, NEW h, NEW t, NEW gen, PutHook(h, t, gen)
  PROVE  DOMAIN whHook' = WhTopics /\ Placed'
<1> USE DEF PutHook, WhWith, Less
<1>1. DOMAIN whHook' = WhTopics
  OBVIOUS
<1>2. ASSUME NEW u \in WhTopics
      PROVE  DOMAIN whHook'[u] = IF u = t THEN DOMAIN whHook[u] \cup {h}
                                 ELSE IF h \in DOMAIN whMap /\ whMap[h] = u THEN DOMAIN whHook[u] \ {h} ELSE DOMAIN whHook[u]
  OBVIOUS
<1>3. /\ DOMAIN whMap' = DOMAIN whMap \cup {h}
      /\ whMap'[h] = t /\ \A k \in DOMAIN whMap : k # h => whMap'[k] = whMap[k]
  OBVIOUS
<1> HIDE DEF PutHook, WhWith, Less
<1>4. ASSUME NEW u \in WhTopics, NEW k \in WhHooks
      PROVE  k \in DOMAIN whHook'[u] <=> (k \in DOMAIN whMap' /\ whMap'[k] = u)
  <2>1. k \in DOMAIN whHook[u] <=> (k \in DOMAIN whMap /\ whMap[k] = u)
    BY DEF LinksInv, Placed
  <2> QED
    BY <1>2, <1>3, <2>1
<1> QED
  BY <1>1, <1>4 DEF Placed

LEMMA LinksRegister ==
  ASSUME LinksInv, NEW h \in WhHooks, NEW t \in WhTopics, RegisterHook(h, t)
  PROVE  LinksInv'
<1> USE DEF RegisterHook
<1>1. DOMAIN whHook' = WhTopics /\ Placed'
  BY PutPlaces
<1>2. WhTypes'
  BY <1>1 DEF LinksInv, WhTypes, Importing
<1>3. Minted'
  BY DEF LinksInv, Minted, Known, Importing
<1>4. Paired' /\ Named' /\ Buried'
  BY DEF LinksInv, Paired, Named, Buried
<1>5. VerifierKept' /\ RestoreKeepsLocks'
  BY DEF LinksInv, VerifierKept, RestoreKeepsLocks, Importing
<1> QED
  BY <1>1, <1>2, <1>3, <1>4, <1>5 DEF LinksInv

LEMMA LinksUnregister ==
  ASSUME LinksInv, NEW h \in WhHooks, UnregisterHook(h)
  PROVE  LinksInv'
<1> USE DEF UnregisterHook
<1>1. DOMAIN whHook' = WhTopics /\ Placed'
  <2>1. DOMAIN whHook' = WhTopics
    BY DEF LinksInv, WhTypes
  <2>2. \A u \in WhTopics : DOMAIN whHook'[u] = IF u = whMap[h] THEN DOMAIN whHook[u] \ {h} ELSE DOMAIN whHook[u]
    BY DEF LinksInv, WhTypes, Less
  <2>3. DOMAIN whMap' = DOMAIN whMap \ {h} /\ \A k \in DOMAIN whMap : k # h => whMap'[k] = whMap[k]
    BY DEF Less
  <2>4. ASSUME NEW u \in WhTopics, NEW k \in WhHooks
        PROVE  k \in DOMAIN whHook'[u] <=> (k \in DOMAIN whMap' /\ whMap'[k] = u)
    <3>1. k \in DOMAIN whHook[u] <=> (k \in DOMAIN whMap /\ whMap[k] = u)
      BY DEF LinksInv, Placed
    <3> QED
      BY <2>2, <2>3, <3>1
  <2> QED
    BY <2>1, <2>4 DEF Placed
<1>2. WhTypes'
  BY <1>1 DEF LinksInv, WhTypes, Importing
<1>3. Minted'
  BY DEF LinksInv, Minted, Known, Importing
<1>4. Paired' /\ Named' /\ Buried'
  BY DEF LinksInv, Paired, Named, Buried
<1>5. VerifierKept' /\ RestoreKeepsLocks'
  BY DEF LinksInv, VerifierKept, RestoreKeepsLocks, Importing
<1> QED
  BY <1>1, <1>2, <1>3, <1>4, <1>5 DEF LinksInv

LEMMA LinksCreate ==
  ASSUME LinksInv, NEW n \in WhLinks, NEW h \in WhHashes, NEW t, NEW api, NEW ttl, CreateLink(n, h, t, api, ttl)
  PROVE  LinksInv'
<1> DEFINE row == [name |-> n, topic |-> t, api |-> api, gen |-> whKey, ttl |-> ttl]
<1>1. /\ DOMAIN whName' = DOMAIN whName \cup {n} /\ whName'[n] = h
      /\ \A m \in DOMAIN whName : m # n => whName'[m] = whName[m]
  BY DEF CreateLink, WhWith
<1>2. /\ DOMAIN whRec' = DOMAIN whRec \cup {h} /\ whRec'[h] = row
      /\ \A k \in DOMAIN whRec : k # h => whRec'[k] = whRec[k]
  BY DEF CreateLink, WhWith
<1>3. /\ h \notin whMinted /\ n \notin DOMAIN whName /\ whMinted' = whMinted \cup {h}
      /\ UNCHANGED <<whHook, whMap, whVerifier, whTomb, whBackup, whImport>>
  BY DEF CreateLink
<1>4. h \notin DOMAIN whRec /\ h \notin whTomb
  BY <1>3 DEF LinksInv, Minted
<1>5. WhTypes'
  BY <1>3 DEF LinksInv, WhTypes, Importing
<1>6. Minted'
  BY <1>2, <1>3 DEF LinksInv, Minted, Known, Importing
<1>7. Paired'
  BY <1>1, <1>2, <1>4 DEF LinksInv, Paired
<1>8. Named'
  <2> SUFFICES ASSUME NEW k \in DOMAIN whRec' PROVE whRec'[k].name \in DOMAIN whName' /\ whName'[whRec'[k].name] = k
    BY DEF Named
  <2>1. CASE k = h
    BY <2>1, <1>1, <1>2
  <2>2. CASE k # h
    <3>1. k \in DOMAIN whRec /\ whRec'[k] = whRec[k]
      BY <2>2, <1>2
    <3>2. whRec[k].name \in DOMAIN whName /\ whName[whRec[k].name] = k
      BY <3>1 DEF LinksInv, Named
    <3> QED
      BY <3>1, <3>2, <1>1, <1>3
  <2> QED
    BY <2>1, <2>2
<1>9. Buried'
  BY <1>2, <1>3, <1>4 DEF LinksInv, Buried
<1>10. Placed'
  BY <1>3 DEF LinksInv, Placed
<1>11. VerifierKept' /\ RestoreKeepsLocks'
  BY <1>3 DEF LinksInv, VerifierKept, RestoreKeepsLocks, Importing
<1> QED
  BY <1>5, <1>6, <1>7, <1>8, <1>9, <1>10, <1>11 DEF LinksInv

\* A name and the record it leads to go together.
LEMMA LinkGoes ==
  ASSUME LinksInv, NEW n \in DOMAIN whName,
         whRec' = Less(whRec, whName[n]), whName' = Less(whName, n)
  PROVE  /\ Paired' /\ Named'
         /\ DOMAIN whRec' = DOMAIN whRec \ {whName[n]}
<1> DEFINE h == whName[n]
<1>1. /\ DOMAIN whName' = DOMAIN whName \ {n} /\ DOMAIN whRec' = DOMAIN whRec \ {h}
      /\ \A m \in DOMAIN whName : m # n => whName'[m] = whName[m]
      /\ \A k \in DOMAIN whRec : k # h => whRec'[k] = whRec[k]
  BY DEF Less
<1>2. h \in DOMAIN whRec /\ whRec[h].name = n
  BY DEF LinksInv, Paired
<1> HIDE DEF h
<1>3. Paired'
  <2> SUFFICES ASSUME NEW m \in DOMAIN whName' PROVE whName'[m] \in DOMAIN whRec' /\ whRec'[whName'[m]].name = m
    BY DEF Paired
  <2>1. m \in DOMAIN whName /\ m # n /\ whName'[m] = whName[m]
    BY <1>1
  <2>2. whName[m] \in DOMAIN whRec /\ whRec[whName[m]].name = m
    BY <2>1 DEF LinksInv, Paired
  <2> QED
    BY <1>1, <1>2, <2>1, <2>2
<1>4. Named'
  <2> SUFFICES ASSUME NEW k \in DOMAIN whRec' PROVE whRec'[k].name \in DOMAIN whName' /\ whName'[whRec'[k].name] = k
    BY DEF Named
  <2>1. k \in DOMAIN whRec /\ k # h /\ whRec'[k] = whRec[k]
    BY <1>1
  <2>2. whRec[k].name \in DOMAIN whName /\ whName[whRec[k].name] = k
    BY <2>1 DEF LinksInv, Named
  <2>3. whRec[k].name # n
    BY <2>1, <2>2 DEF h
  <2> QED
    BY <1>1, <2>1, <2>2, <2>3
<1> QED
  BY <1>1, <1>3, <1>4 DEF h

LEMMA LinksRevoke ==
  ASSUME LinksInv, NEW n \in WhLinks, RevokeLink(n) \/ ExpireLink(n)
  PROVE  LinksInv'
<1>1. /\ n \in DOMAIN whName /\ whRec' = Less(whRec, whName[n]) /\ whName' = Less(whName, n)
      /\ whTomb' \subseteq whTomb \cup {whName[n]}
      /\ UNCHANGED <<whHook, whMap, whVerifier, whMinted, whBackup, whImport>>
  BY DEF RevokeLink, ExpireLink
<1>2. Paired' /\ Named' /\ DOMAIN whRec' = DOMAIN whRec \ {whName[n]}
  BY <1>1, LinkGoes
<1>3. whName[n] \in whMinted
  BY <1>1 DEF LinksInv, Paired, Minted
<1>4. WhTypes'
  BY <1>1 DEF LinksInv, WhTypes, Importing
<1>5. Minted'
  BY <1>1, <1>2, <1>3 DEF LinksInv, Minted, Known, Importing
<1>6. Buried'
  BY <1>1, <1>2 DEF LinksInv, Buried
<1>7. Placed'
  BY <1>1 DEF LinksInv, Placed
<1>8. VerifierKept' /\ RestoreKeepsLocks'
  BY <1>1 DEF LinksInv, VerifierKept, RestoreKeepsLocks, Importing
<1> QED
  BY <1>2, <1>4, <1>5, <1>6, <1>7, <1>8 DEF LinksInv

----------------------------------------------------------------------------
(* The export and the import. *)

LEMMA LinksExport ==
  ASSUME LinksInv, ExportWebhooks
  PROVE  LinksInv'
<1> USE DEF ExportWebhooks
<1>1. /\ whBackup'.verifiers = whVerifier /\ whBackup'.links = ExportedLinks /\ whBackup'.tombs = whTomb
      /\ UNCHANGED <<whHook, whMap, whVerifier, whName, whRec, whTomb, whMinted, whImport>>
  OBVIOUS
<1> HIDE DEF ExportWebhooks
<1>2. Known(ExportedLinks, whTomb)
  BY DEF LinksInv, Minted, Paired, Known, ExportedLinks
<1>3. WhTypes'
  BY <1>1 DEF LinksInv, WhTypes, Importing
<1>4. Minted'
  BY <1>1, <1>2 DEF LinksInv, Minted, Known, Importing
<1>5. Paired' /\ Named' /\ Buried'
  BY <1>1 DEF LinksInv, Paired, Named, Buried
<1>6. Placed'
  BY <1>1 DEF LinksInv, Placed
<1>7. VerifierKept' /\ RestoreKeepsLocks'
  BY <1>1 DEF LinksInv, VerifierKept, RestoreKeepsLocks, Importing
<1> QED
  BY <1>3, <1>4, <1>5, <1>6, <1>7 DEF LinksInv

LEMMA LinksImportBegin ==
  ASSUME LinksInv, ImportBegin
  PROVE  LinksInv'
<1> DEFINE job == [step |-> "verifiers", unlocked |-> {}, freed |-> {}, put |-> {},
                   verifiers |-> whBackup.verifiers, hooks |-> whBackup.hooks,
                   tombs |-> whBackup.tombs, links |-> whBackup.links]
<1>1. /\ whImport' \in {NoImport, job} /\ whBackup.taken /\ ~Importing
      /\ UNCHANGED <<whHook, whMap, whVerifier, whName, whRec, whTomb, whMinted, whBackup>>
  BY DEF ImportBegin, Importing
<1>2. /\ DOMAIN job = ImportFields /\ job.step = "verifiers" /\ job.put = {} /\ job.verifiers = whBackup.verifiers
      /\ job.links = whBackup.links /\ job.tombs = whBackup.tombs
  BY DEF ImportFields
<1>3. whBackup # NoBackup
  BY <1>1 DEF NoBackup
<1> HIDE DEF job
<1>4. WhTypes'
  BY <1>1, <1>2 DEF LinksInv, WhTypes, Importing
<1>5. Minted'
  BY <1>1, <1>2, <1>3 DEF LinksInv, Minted, Known, Importing
<1>6. Paired' /\ Named' /\ Buried'
  BY <1>1 DEF LinksInv, Paired, Named, Buried
<1>7. Placed'
  BY <1>1 DEF LinksInv, Placed
<1>8. VerifierKept' /\ RestoreKeepsLocks'
  BY <1>1, <1>2 DEF LinksInv, VerifierKept, RestoreKeepsLocks, Importing
<1> QED
  BY <1>4, <1>5, <1>6, <1>7, <1>8 DEF LinksInv

LEMMA LinksImportVerifier ==
  ASSUME LinksInv, NEW t \in WhTopics, ImportVerifier(t)
  PROVE  LinksInv'
<1>1. /\ Importing /\ UNCHANGED <<whHook, whMap, whName, whRec, whTomb, whMinted, whBackup>>
      /\ \/ UNCHANGED whVerifier /\ whImport' = [whImport EXCEPT !.verifiers = @ \ {t}, !.unlocked = @ \cup {t}]
         \/ whVerifier' = whVerifier \cup {t} /\ whImport' = [whImport EXCEPT !.verifiers = @ \ {t}, !.freed = @ \ {t}]
  BY DEF ImportVerifier, Importing, NoImport
<1>2. DOMAIN whImport = ImportFields /\ whImport.step = "verifiers"
  BY <1>1 DEF LinksInv, WhTypes
<1>3. /\ Importing' /\ DOMAIN whImport' = ImportFields /\ whImport'.step = "verifiers" /\ whImport'.put = whImport.put
      /\ whImport'.links = whImport.links /\ whImport'.tombs = whImport.tombs
      /\ whImport'.verifiers = whImport.verifiers \ {t}
  BY <1>1, <1>2 DEF Importing, NoImport, ImportFields
<1>4. \/ UNCHANGED whVerifier /\ whImport'.unlocked = whImport.unlocked \cup {t} /\ whImport'.freed = whImport.freed
      \/ /\ whVerifier' = whVerifier \cup {t} /\ whImport'.unlocked = whImport.unlocked
         /\ whImport'.freed = whImport.freed \ {t}
  BY <1>1, <1>2 DEF ImportFields
<1>5. WhTypes'
  BY <1>1, <1>3 DEF LinksInv, WhTypes
<1>6. Minted'
  BY <1>1, <1>3 DEF LinksInv, Minted, Known
<1>7. Paired' /\ Named' /\ Buried'
  BY <1>1 DEF LinksInv, Paired, Named, Buried
<1>8. Placed'
  BY <1>1 DEF LinksInv, Placed
<1>9. VerifierKept' /\ RestoreKeepsLocks'
  BY <1>1, <1>3, <1>4 DEF LinksInv, VerifierKept, RestoreKeepsLocks, Importing
<1> QED
  BY <1>5, <1>6, <1>7, <1>8, <1>9 DEF LinksInv

\* What the import has put back is in a topic that is not left unlocked, once its verifiers are done.
LEMMA LinksImportPuts ==
  ASSUME LinksInv, Importing, whImport.verifiers = {},
         DOMAIN whImport' = ImportFields, whImport'.step = "verifiers",
         whImport'.verifiers = whImport.verifiers, whImport'.unlocked = whImport.unlocked, whImport'.freed = whImport.freed,
         UNCHANGED <<whVerifier, whBackup>>,
         NEW t, t \notin whImport.unlocked \/ whImport'.put = whImport.put,
         whImport'.put \subseteq whImport.put \cup {t}
  PROVE  VerifierKept' /\ RestoreKeepsLocks'
BY DEF LinksInv, VerifierKept, RestoreKeepsLocks, Importing

LEMMA LinksImportHook ==
  ASSUME LinksInv, Importing, NEW x, ImportHook(x)
  PROVE  LinksInv'
<1>1. /\ whImport.verifiers = {} /\ UNCHANGED <<whVerifier, whName, whRec, whTomb, whMinted, whBackup>>
      /\ \/ /\ Restorable(x[2], x[3]) /\ PutHook(x[1], x[2], x[3])
            /\ whImport' = [whImport EXCEPT !.hooks = @ \ {x}, !.put = @ \cup {x[2]}]
         \/ UNCHANGED <<whHook, whMap>> /\ whImport' = [whImport EXCEPT !.hooks = @ \ {x}]
  BY DEF ImportHook
<1>2. DOMAIN whImport = ImportFields /\ whImport.step = "verifiers"
  BY DEF LinksInv, WhTypes
<1>3. /\ Importing' /\ DOMAIN whImport' = ImportFields /\ whImport'.step = "verifiers"
      /\ whImport'.links = whImport.links /\ whImport'.tombs = whImport.tombs
      /\ whImport'.verifiers = whImport.verifiers /\ whImport'.unlocked = whImport.unlocked /\ whImport'.freed = whImport.freed
  BY <1>1, <1>2 DEF Importing, NoImport, ImportFields
<1>4. /\ x[2] \notin whImport.unlocked \/ whImport'.put = whImport.put
      /\ whImport'.put \subseteq whImport.put \cup {x[2]}
  BY <1>1, <1>2 DEF ImportFields, Restorable
<1>5. DOMAIN whHook' = WhTopics /\ Placed'
  <2>1. CASE PutHook(x[1], x[2], x[3])
    BY <2>1, PutPlaces
  <2>2. CASE UNCHANGED <<whHook, whMap>>
    BY <2>2 DEF LinksInv, Placed, WhTypes
  <2> QED
    BY <1>1, <2>1, <2>2
<1>6. WhTypes'
  BY <1>3, <1>5 DEF WhTypes
<1>7. Minted'
  BY <1>1, <1>3 DEF LinksInv, Minted, Known
<1>8. Paired' /\ Named' /\ Buried'
  BY <1>1 DEF LinksInv, Paired, Named, Buried
<1>9. VerifierKept' /\ RestoreKeepsLocks'
  BY <1>1, <1>3, <1>4, LinksImportPuts
<1> QED
  BY <1>5, <1>6, <1>7, <1>8, <1>9 DEF LinksInv

LEMMA LinksImportTomb ==
  ASSUME LinksInv, NEW h, ImportTomb(h)
  PROVE  LinksInv'
<1>1. /\ Importing /\ whImport.verifiers = {} /\ h \in whImport.tombs
      /\ whTomb' = whTomb \cup {h} /\ whRec' = Less(whRec, h) /\ whImport' = [whImport EXCEPT !.tombs = @ \ {h}]
      /\ UNCHANGED <<whHook, whMap, whVerifier, whMinted, whBackup>>
  BY DEF ImportTomb, Importing, NoImport
<1>2. DOMAIN whImport = ImportFields /\ whImport.step = "verifiers"
  BY <1>1 DEF LinksInv, WhTypes
<1>3. /\ Importing' /\ DOMAIN whImport' = ImportFields /\ whImport'.step = "verifiers" /\ whImport'.put = whImport.put
      /\ whImport'.links = whImport.links /\ whImport'.tombs = whImport.tombs \ {h}
      /\ whImport'.verifiers = whImport.verifiers /\ whImport'.unlocked = whImport.unlocked /\ whImport'.freed = whImport.freed
  BY <1>1, <1>2 DEF Importing, NoImport, ImportFields
<1>4. Paired' /\ Named' /\ DOMAIN whRec' = DOMAIN whRec \ {h}
  <2>1. CASE h \in DOMAIN whRec
    <3>1. whRec[h].name \in DOMAIN whName /\ whName[whRec[h].name] = h
      BY <2>1 DEF LinksInv, Named
    <3>2. whName' = Less(whName, whRec[h].name)
      BY <2>1, <3>1 DEF ImportTomb
    <3> QED
      BY <1>1, <3>1, <3>2, LinkGoes
  <2>2. CASE h \notin DOMAIN whRec
    <3>1. UNCHANGED whName
      BY <2>2 DEF ImportTomb
    <3>2. DOMAIN whRec' = DOMAIN whRec /\ \A k \in DOMAIN whRec : whRec'[k] = whRec[k]
      BY <1>1, <2>2 DEF Less
    <3> QED
      BY <2>2, <3>1, <3>2 DEF LinksInv, Paired, Named
  <2> QED
    BY <2>1, <2>2
<1>5. WhTypes'
  BY <1>1, <1>3 DEF LinksInv, WhTypes
<1>6. Minted'
  BY <1>1, <1>3, <1>4 DEF LinksInv, Minted, Known
<1>7. Buried'
  BY <1>1, <1>4 DEF LinksInv, Buried
<1>8. Placed'
  BY <1>1 DEF LinksInv, Placed
<1>9. VerifierKept' /\ RestoreKeepsLocks'
  BY <1>1, <1>3 DEF LinksInv, VerifierKept, RestoreKeepsLocks, Importing
<1> QED
  BY <1>4, <1>5, <1>6, <1>7, <1>8, <1>9 DEF LinksInv

\* The link of a restored name makes way, and its hash is under no other name.
LEMMA LinksImportLink ==
  ASSUME LinksInv, Importing, NEW l, ImportLink(l)
  PROVE  LinksInv'
<1> DEFINE n == l[1]
           h == l[2]
           bound == n \in DOMAIN whName /\ whName[n] = h
           refused == ~Restorable(l[3].topic, l[3].gen) \/ h \in whTomb \/ (~bound /\ h \in DOMAIN whRec)
<1>1. /\ whImport.verifiers = {} /\ l \in whImport.links
      /\ UNCHANGED <<whHook, whMap, whVerifier, whTomb, whMinted, whBackup>>
      /\ whImport' = [whImport EXCEPT !.links = @ \ {l}, !.put = IF refused THEN @ ELSE @ \cup {l[3].topic}]
  BY DEF ImportLink
<1>2. DOMAIN whImport = ImportFields /\ whImport.step = "verifiers"
  BY DEF LinksInv, WhTypes
<1>3. /\ Importing' /\ DOMAIN whImport' = ImportFields /\ whImport'.step = "verifiers"
      /\ whImport'.links = whImport.links \ {l} /\ whImport'.tombs = whImport.tombs
      /\ whImport'.verifiers = whImport.verifiers /\ whImport'.unlocked = whImport.unlocked /\ whImport'.freed = whImport.freed
      /\ whImport'.put = IF refused THEN whImport.put ELSE whImport.put \cup {l[3].topic}
  BY <1>1, <1>2 DEF Importing, NoImport, ImportFields
<1>4. /\ l[3].topic \notin whImport.unlocked \/ whImport'.put = whImport.put
      /\ whImport'.put \subseteq whImport.put \cup {l[3].topic}
  BY <1>3 DEF Restorable
<1>5. h \in whMinted /\ l[3].name = n
  BY <1>1 DEF LinksInv, Minted, Known
<1>6. Paired' /\ Named' /\ DOMAIN whRec' \subseteq whMinted /\ whTomb \cap DOMAIN whRec' = {}
  <2>1. CASE refused
    <3>1. UNCHANGED <<whName, whRec>>
      BY <2>1 DEF ImportLink
    <3> QED
      BY <3>1 DEF LinksInv, Paired, Named, Minted, Buried
  <2>2. CASE ~refused
    <3>1. /\ whName' = WhWith(whName, n, h)
          /\ whRec' = WhWith(Only(whRec, DOMAIN whRec \ Superseded(n, h)), h, l[3])
      BY <2>2 DEF ImportLink
    <3>2. h \notin whTomb /\ (bound \/ h \notin DOMAIN whRec)
      BY <2>2
    <3> HIDE DEF n, h, bound, refused
    <3>3. /\ DOMAIN whName' = DOMAIN whName \cup {n} /\ whName'[n] = h
          /\ \A m \in DOMAIN whName : m # n => whName'[m] = whName[m]
      BY <3>1 DEF WhWith
    <3>4. /\ DOMAIN whRec' = (DOMAIN whRec \ Superseded(n, h)) \cup {h} /\ whRec'[h] = l[3]
          /\ \A k \in DOMAIN whRec : k # h /\ k \notin Superseded(n, h) => whRec'[k] = whRec[k]
      BY <3>1 DEF WhWith, Only
    <3>5. \A k : k \in Superseded(n, h) <=> (n \in DOMAIN whName /\ k = whName[n] /\ whName[n] # h)
      BY DEF Superseded
    <3>6. ASSUME NEW m \in DOMAIN whName, m # n
          PROVE  /\ whName[m] \in DOMAIN whRec /\ whRec[whName[m]].name = m
                 /\ whName[m] # h /\ whName[m] \notin Superseded(n, h)
      <4>1. whName[m] \in DOMAIN whRec /\ whRec[whName[m]].name = m
        BY DEF LinksInv, Paired
      <4>2. n \in DOMAIN whName => whRec[whName[n]].name = n
        BY DEF LinksInv, Paired
      <4> QED
        BY <3>2, <3>5, <3>6, <4>1, <4>2 DEF bound
    <3>7. Paired'
      <4> SUFFICES ASSUME NEW m \in DOMAIN whName' PROVE whName'[m] \in DOMAIN whRec' /\ whRec'[whName'[m]].name = m
        BY DEF Paired
      <4>1. CASE m = n
        BY <4>1, <3>3, <3>4, <1>5
      <4>2. CASE m # n
        BY <4>2, <3>3, <3>4, <3>6
      <4> QED
        BY <4>1, <4>2
    <3>8. Named'
      <4> SUFFICES ASSUME NEW k \in DOMAIN whRec' PROVE whRec'[k].name \in DOMAIN whName' /\ whName'[whRec'[k].name] = k
        BY DEF Named
      <4>1. CASE k = h
        BY <4>1, <3>3, <3>4, <1>5
      <4>2. CASE k # h
        <5>1. k \in DOMAIN whRec /\ k \notin Superseded(n, h) /\ whRec'[k] = whRec[k]
          BY <4>2, <3>4
        <5>2. whRec[k].name \in DOMAIN whName /\ whName[whRec[k].name] = k
          BY <5>1 DEF LinksInv, Named
        <5>3. whRec[k].name # n
          BY <4>2, <5>1, <5>2, <3>5
        <5> QED
          BY <5>1, <5>2, <5>3, <3>3
      <4> QED
        BY <4>1, <4>2
    <3>9. DOMAIN whRec' \subseteq whMinted /\ whTomb \cap DOMAIN whRec' = {}
      BY <3>2, <3>4, <1>5 DEF LinksInv, Minted, Buried
    <3> QED
      BY <3>7, <3>8, <3>9
  <2> QED
    BY <2>1, <2>2
<1> HIDE DEF n, h, bound, refused
<1>7. WhTypes'
  BY <1>1, <1>3 DEF LinksInv, WhTypes
<1>8. Minted'
  BY <1>1, <1>3, <1>6 DEF LinksInv, Minted, Known
<1>9. Buried'
  BY <1>1, <1>6 DEF Buried
<1>10. Placed'
  BY <1>1 DEF LinksInv, Placed
<1>11. VerifierKept' /\ RestoreKeepsLocks'
  BY <1>1, <1>3, <1>4, LinksImportPuts
<1> QED
  BY <1>6, <1>7, <1>8, <1>9, <1>10, <1>11 DEF LinksInv

LEMMA LinksImportEnd ==
  ASSUME LinksInv, ImportEnd
  PROVE  LinksInv'
<1>1. whImport' = NoImport /\ UNCHANGED <<whHook, whMap, whVerifier, whName, whRec, whTomb, whMinted, whBackup>>
  BY DEF ImportEnd
<1> QED
  BY <1>1 DEF LinksInv, WhTypes, Minted, Known, Paired, Named, Buried, Placed, VerifierKept, RestoreKeepsLocks, Importing

----------------------------------------------------------------------------
LEMMA LinksStep ==
  ASSUME LinksInv, [WhNext]_whVars
  PROVE  LinksInv'
<1>1. CASE UNCHANGED whVars
  BY <1>1, LinksAside DEF whVars
<1>2. ASSUME NEW t \in WhTopics, SetTopicVerifier(t)
      PROVE  LinksInv'
  BY <1>2, LinksAside DEF SetTopicVerifier
<1>3. ASSUME RevokeKey \/ MintKey
      PROVE  LinksInv'
  BY <1>3, LinksAside DEF RevokeKey, MintKey
<1>4. ASSUME \/ \E t \in WhTopics, verified \in BOOLEAN : WebhookDoor(t, verified)
             \/ \E h \in WhHashes : TriggerDoor(h)
             \/ \E keyed \in BOOLEAN : TriggerResolve(keyed)
             \/ TriggerBind \/ (\E S \in SUBSET WhHooks : OnEvent(S)) \/ \E h \in WhHooks : RunHook(h)
      PROVE  LinksInv'
  BY <1>4, LinksAside DEF WebhookDoor, TriggerDoor, TriggerResolve, TriggerBind, OnEvent, RunHook
<1> QED
  BY <1>1, <1>2, <1>3, <1>4, LinksRegister, LinksUnregister, LinksDeleteVerifier, LinksCreate, LinksRevoke,
     LinksExport, LinksImportBegin, LinksImportVerifier, LinksImportHook, LinksImportTomb, LinksImportLink, LinksImportEnd
     DEF WhNext, Importing

\* The tables of hooks and links agree in every reachable state.
THEOREM LinksInvariance == WhSpec => []LinksInv
BY LinksInitially, LinksStep, PTL DEF WhSpec

\* Whatever creations, revocations, expiries and restores of older backups came before: every live
\* link is the one its name leads to and no revoked token has a record (trigger_links.py, the revoke
\* and restore scripts), and an import opens no topic the backup shows locked
\* (backup/sections.py, the order of verifiers, hooks and links).
THEOREM LinksStaySound == WhSpec => []LinksSound
<1>1. LinksInv => LinksSound
  BY DEF LinksInv, LinksSound, LinksRevocable, Paired, Named, Buried, Placed
<1> QED
  BY <1>1, LinksInvariance, PTL

----------------------------------------------------------------------------
(* Tool metadata. *)

\* What an operation in progress carries.
TmOpOK(o) ==
    \/ o = TmIdle
    \/ /\ {"kind", "step", "seen"} \subseteq DOMAIN o /\ o.kind # "idle"
       /\ o.kind = "merge" => {"tool", "patch"} \subseteq DOMAIN o /\ o.tool \in TmTools
       /\ o.step \in {"read", "write"}
TmTypes ==
    /\ DOMAIN tmOp = TmProcs /\ \A p \in TmProcs : TmOpOK(tmOp[p])
    /\ tmLock \in [TmTools -> TmProcs \cup {TmFree}]

\* A merge between its read and its write holds the row's lock, and the row is as it read it.
Merging(p) == tmOp[p].kind = "merge" /\ tmOp[p].step = "write"
RowIn(rows, t) == IF t \in DOMAIN rows THEN rows[t] ELSE Blank
RowsHeld == \A p \in TmProcs : Merging(p) => tmLock[tmOp[p].tool] = p /\ tmOp[p].seen = RowIn(tmRow, tmOp[p].tool)

OverlayInv == TmTypes /\ RowsHeld /\ OverlayKept

LEMMA OverlayInitially == TmInit => OverlayInv
BY DEF TmInit, OverlayInv, TmTypes, TmOpOK, RowsHeld, Merging, OverlayKept, TmIdle

\* An operation of p that is not merging, or has just ended, leaves the rows, the locks and the others' operations.
LEMMA OverlayAside ==
  ASSUME OverlayInv, UNCHANGED <<tmRow, tmWant, tmLock>>, NEW p \in TmProcs, NEW o,
         tmOp' = [tmOp EXCEPT ![p] = o], TmOpOK(o), ~(o.kind = "merge" /\ o.step = "write")
  PROVE  OverlayInv'
<1>1. /\ DOMAIN tmOp' = TmProcs /\ tmOp'[p] = o
      /\ \A q \in TmProcs \ {p} : tmOp'[q] = tmOp[q]
  BY DEF OverlayInv, TmTypes
<1>2. TmTypes'
  BY <1>1 DEF OverlayInv, TmTypes
<1>3. RowsHeld'
  BY <1>1 DEF OverlayInv, RowsHeld, Merging, RowIn
<1> QED
  BY <1>2, <1>3 DEF OverlayInv, OverlayKept

LEMMA TmIdleOK == TmOpOK(TmIdle) /\ TmIdle.kind = "idle"
BY DEF TmOpOK, TmIdle

LEMMA OverlayBegin ==
  ASSUME OverlayInv, NEW p \in TmProcs, NEW o \in TmOps, TmBegin(p, o)
  PROVE  OverlayInv'
<1> DEFINE new == Overlaying(o, [step |-> "read", seen |-> Blank])
<1>1. /\ "kind" \in DOMAIN o /\ "step" \notin DOMAIN o /\ o.kind # "idle"
      /\ o.kind = "merge" => {"tool", "patch"} \subseteq DOMAIN o /\ o.tool \in TmTools
  BY DEF TmOps
<1>2. /\ DOMAIN new = DOMAIN o \cup {"step", "seen"} /\ new.step = "read"
      /\ \A f \in DOMAIN o \ {"step", "seen"} : new[f] = o[f]
  BY DEF Overlaying
<1> HIDE DEF new
<1>3. TmOpOK(new)
  BY <1>1, <1>2 DEF TmOpOK
<1>4. tmOp' = [tmOp EXCEPT ![p] = new] /\ UNCHANGED <<tmRow, tmWant, tmLock>>
  BY DEF TmBegin, new
<1> QED
  BY <1>2, <1>3, <1>4, OverlayAside

\* The reads of the folder operations.
LEMMA OverlayRead ==
  ASSUME OverlayInv, NEW p \in TmProcs, NEW allowed,
         tmOp[p].kind \in {"create", "rename", "move", "delete"}, TmRead(p, allowed)
  PROVE  OverlayInv'
<1> DEFINE new == IF allowed THEN [tmOp[p] EXCEPT !.step = "write"] ELSE TmIdle
<1>1. TmOpOK(tmOp[p]) /\ tmOp[p].kind # "merge" /\ tmOp[p] # TmIdle
  BY TmIdleOK DEF OverlayInv, TmTypes
<1>2. TmOpOK(new) /\ new.kind # "merge"
  BY <1>1, TmIdleOK DEF TmOpOK
<1>3. tmOp' = [tmOp EXCEPT ![p] = new] /\ UNCHANGED <<tmRow, tmWant, tmLock>>
  BY DEF TmRead, OverlayInv, TmTypes
<1> HIDE DEF new
<1> QED
  BY <1>2, <1>3, OverlayAside

\* The steps that end an operation on the folders.
LEMMA OverlayFolders ==
  ASSUME OverlayInv, NEW p \in TmProcs, TmDone(p), UNCHANGED <<tmRow, tmWant, tmLock>>
  PROVE  OverlayInv'
BY OverlayAside, TmIdleOK DEF TmDone

LEMMA OverlayLock ==
  ASSUME OverlayInv, NEW p \in TmProcs, MergeLock(p)
  PROVE  OverlayInv'
<1> DEFINE t == tmOp[p].tool
           new == [tmOp[p] EXCEPT !.seen = RowIn(tmRow, t), !.step = "write"]
<1>1. /\ tmOp[p].kind = "merge" /\ tmLock[t] = TmFree /\ tmLock' = [tmLock EXCEPT ![t] = p]
      /\ UNCHANGED <<tmRow, tmWant>>
  BY DEF MergeLock, RowHeld, Asked
<1>2. TmOpOK(tmOp[p]) /\ tmOp[p] # TmIdle /\ t \in TmTools /\ DOMAIN tmOp = TmProcs
  BY <1>1, TmIdleOK DEF OverlayInv, TmTypes, TmOpOK
<1>3. tmOp' = [tmOp EXCEPT ![p] = new]
  BY <1>2 DEF MergeLock, RowIn
<1>4. TmOpOK(new) /\ new.tool = t /\ new.seen = RowIn(tmRow, t)
  BY <1>1, <1>2 DEF TmOpOK
<1> HIDE DEF new
<1>5. /\ DOMAIN tmOp' = TmProcs /\ tmOp'[p] = new
      /\ \A q \in TmProcs \ {p} : tmOp'[q] = tmOp[q]
  BY <1>2, <1>3
<1>6. tmLock' \in [TmTools -> TmProcs \cup {TmFree}] /\ tmLock'[t] = p /\ \A u \in TmTools \ {t} : tmLock'[u] = tmLock[u]
  BY <1>1, <1>2 DEF OverlayInv, TmTypes
<1>7. TmTypes'
  BY <1>4, <1>5, <1>6 DEF OverlayInv, TmTypes
<1>8. \A u : RowIn(tmRow', u) = RowIn(tmRow, u)
  BY <1>1 DEF RowIn
<1>9. RowsHeld'
  <2> SUFFICES ASSUME NEW q \in TmProcs, Merging(q)' 
               PROVE  tmLock'[tmOp'[q].tool] = q /\ tmOp'[q].seen = RowIn(tmRow', tmOp'[q].tool)
    BY DEF RowsHeld
  <2>1. CASE q = p
    BY <2>1, <1>4, <1>5, <1>6, <1>8
  <2>2. CASE q # p
    <3>1. tmOp'[q] = tmOp[q] /\ Merging(q)
      BY <2>2, <1>5 DEF Merging
    <3>2. tmLock[tmOp[q].tool] = q /\ tmOp[q].seen = RowIn(tmRow, tmOp[q].tool) /\ tmOp[q].tool \in TmTools
      BY <3>1, TmIdleOK DEF OverlayInv, RowsHeld, TmTypes, TmOpOK, Merging
    <3>3. tmOp[q].tool # t
      BY <1>1, <3>2, TmConstants
    <3> QED
      BY <3>1, <3>2, <3>3, <1>6, <1>8
  <2> QED
    BY <2>1, <2>2
<1> QED
  BY <1>1, <1>7, <1>9 DEF OverlayInv, OverlayKept

\* Rows change under nobody's lock but the one's who changes them, who is done.
LEMMA OverlayRows ==
  ASSUME OverlayInv, NEW P \in SUBSET TmProcs,
         DOMAIN tmOp' = TmProcs, \A q \in P : tmOp'[q] = TmIdle, \A q \in TmProcs \ P : tmOp'[q] = tmOp[q],
         tmLock' \in [TmTools -> TmProcs \cup {TmFree}],
         \A u \in TmTools : tmLock[u] \in TmProcs \ P => tmLock'[u] = tmLock[u] /\ RowIn(tmRow', u) = RowIn(tmRow, u),
         tmRow' = tmWant'
  PROVE  OverlayInv'
<1>1. TmTypes'
  BY TmIdleOK DEF OverlayInv, TmTypes
<1>2. RowsHeld'
  <2> SUFFICES ASSUME NEW q \in TmProcs, Merging(q)' 
               PROVE  tmLock'[tmOp'[q].tool] = q /\ tmOp'[q].seen = RowIn(tmRow', tmOp'[q].tool)
    BY DEF RowsHeld
  <2>1. q \notin P
    BY TmIdleOK DEF Merging
  <2>2. tmOp'[q] = tmOp[q] /\ Merging(q)
    BY <2>1 DEF Merging
  <2>3. tmLock[tmOp[q].tool] = q /\ tmOp[q].seen = RowIn(tmRow, tmOp[q].tool) /\ tmOp[q].tool \in TmTools
    BY <2>2, TmIdleOK DEF OverlayInv, RowsHeld, TmTypes, TmOpOK, Merging
  <2> QED
    BY <2>1, <2>2, <2>3
<1> QED
  BY <1>1, <1>2 DEF OverlayInv, OverlayKept

LEMMA OverlayRowsOf ==
  ASSUME OverlayInv, NEW p \in TmProcs,
         DOMAIN tmOp' = TmProcs, tmOp'[p] = TmIdle, \A q \in TmProcs \ {p} : tmOp'[q] = tmOp[q],
         tmLock' \in [TmTools -> TmProcs \cup {TmFree}],
         \A u \in TmTools : tmLock[u] \in TmProcs \ {p} => tmLock'[u] = tmLock[u] /\ RowIn(tmRow', u) = RowIn(tmRow, u),
         tmRow' = tmWant'
  PROVE  OverlayInv'
<1>1. {p} \in SUBSET TmProcs /\ \A q \in {p} : tmOp'[q] = TmIdle
  OBVIOUS
<1> QED
  BY <1>1, OverlayRows

LEMMA UnheldFrees ==
  ASSUME OverlayInv, NEW p \in TmProcs
  PROVE  /\ Unheld(p) \in [TmTools -> TmProcs \cup {TmFree}]
         /\ \A u \in TmTools : tmLock[u] # p => Unheld(p)[u] = tmLock[u]
BY DEF OverlayInv, TmTypes, Unheld

LEMMA DoneOps ==
  ASSUME OverlayInv, NEW p \in TmProcs, TmDone(p)
  PROVE  /\ DOMAIN tmOp' = TmProcs /\ tmOp'[p] = TmIdle
         /\ \A q \in TmProcs \ {p} : tmOp'[q] = tmOp[q]
BY DEF OverlayInv, TmTypes, TmDone

LEMMA OverlayMerge ==
  ASSUME OverlayInv, NEW p \in TmProcs, MergeMeta(p)
  PROVE  OverlayInv'
<1> DEFINE t == tmOp[p].tool
           new == Over(tmOp[p].seen, tmOp[p].patch)
<1>1. Merging(p) /\ tmLock' = Unheld(p) /\ TmDone(p)
  BY DEF MergeMeta, TmReady, Merging
<1>2. tmLock[t] = p /\ tmOp[p].seen = RowIn(tmRow, t)
  BY <1>1 DEF OverlayInv, RowsHeld
<1>3. \/ tmRow' = TmWith(tmRow, t, new) /\ tmWant' = TmWith(tmWant, t, new)
      \/ UNCHANGED <<tmRow, tmWant>>
  BY <1>2 DEF MergeMeta, OverlayInv, OverlayKept, RowIn
<1> HIDE DEF new
<1>4. tmRow' = tmWant'
  BY <1>3 DEF OverlayInv, OverlayKept
<1>5. \A u \in TmTools \ {t} : RowIn(tmRow', u) = RowIn(tmRow, u)
  BY <1>3 DEF RowIn, TmWith
<1>6. \A u \in TmTools : tmLock[u] \in TmProcs \ {p} => tmLock'[u] = tmLock[u] /\ RowIn(tmRow', u) = RowIn(tmRow, u)
  BY <1>1, <1>2, <1>5, UnheldFrees
<1> QED
  BY <1>1, <1>4, <1>6, UnheldFrees, DoneOps, OverlayRowsOf

LEMMA OverlayDelete ==
  ASSUME OverlayInv, NEW p \in TmProcs, DeleteMeta(p)
  PROVE  OverlayInv'
<1> DEFINE t == tmOp[p].tool
<1>1. /\ tmLock[t] = TmFree /\ tmRow' = Minus(tmRow, t) /\ tmWant' = Minus(tmWant, t) /\ TmDone(p) /\ UNCHANGED tmLock
  BY DEF DeleteMeta
<1>2. \A u \in TmTools \ {t} : RowIn(tmRow', u) = RowIn(tmRow, u)
  BY <1>1 DEF RowIn, Minus
<1>3. \A u \in TmTools : tmLock[u] \in TmProcs \ {p} => tmLock'[u] = tmLock[u] /\ RowIn(tmRow', u) = RowIn(tmRow, u)
  BY <1>1, <1>2, TmConstants
<1>4. tmLock' \in [TmTools -> TmProcs \cup {TmFree}] /\ tmRow' = tmWant'
  BY <1>1 DEF OverlayInv, TmTypes, OverlayKept
<1> QED
  BY <1>1, <1>3, <1>4, DoneOps, OverlayRowsOf

LEMMA OverlayRename ==
  ASSUME OverlayInv, NEW p \in TmProcs, RenameTool(p)
  PROVE  OverlayInv'
<1> DEFINE t == tmOp[p].tool
           u == tmOp[p].into
<1>1. /\ tmLock[t] = TmFree /\ tmLock[u] = TmFree /\ TmDone(p) /\ UNCHANGED tmLock
      /\ tmRow' = Rekeyed(tmRow, t, u) /\ tmWant' = Rekeyed(tmWant, t, u)
  BY DEF RenameTool
<1>2. \A v \in TmTools \ {t, u} : RowIn(tmRow', v) = RowIn(tmRow, v)
  BY <1>1 DEF RowIn, Rekeyed, Minus, TmWith
<1>3. \A v \in TmTools : tmLock[v] \in TmProcs \ {p} => tmLock'[v] = tmLock[v] /\ RowIn(tmRow', v) = RowIn(tmRow, v)
  BY <1>1, <1>2, TmConstants
<1>4. tmLock' \in [TmTools -> TmProcs \cup {TmFree}] /\ tmRow' = tmWant'
  BY <1>1 DEF OverlayInv, TmTypes, OverlayKept
<1> QED
  BY <1>1, <1>3, <1>4, DoneOps, OverlayRowsOf

LEMMA OverlayAbandon ==
  ASSUME OverlayInv, NEW p \in TmProcs, TmAbandon(p)
  PROVE  OverlayInv'
<1>1. TmDone(p) /\ tmLock' = Unheld(p) /\ UNCHANGED <<tmRow, tmWant>>
  BY DEF TmAbandon
<1>2. \A u \in TmTools : tmLock[u] \in TmProcs \ {p} => tmLock'[u] = tmLock[u] /\ RowIn(tmRow', u) = RowIn(tmRow, u)
  BY <1>1, UnheldFrees DEF RowIn
<1>3. tmRow' = tmWant'
  BY <1>1 DEF OverlayInv, OverlayKept
<1> QED
  BY <1>1, <1>2, <1>3, UnheldFrees, DoneOps, OverlayRowsOf

LEMMA OverlayImport ==
  ASSUME OverlayInv, ImportToolMeta
  PROVE  OverlayInv'
<1>1. /\ \A t \in DOMAIN tmBackup.rows : tmLock[t] = TmFree
      /\ tmRow' = Overlaying(tmRow, tmBackup.rows) /\ tmWant' = Overlaying(tmWant, tmBackup.rows)
      /\ UNCHANGED <<tmLock, tmOp>>
  BY DEF ImportToolMeta
<1>2. \A u \in TmTools : tmLock[u] \in TmProcs => RowIn(tmRow', u) = RowIn(tmRow, u)
  <2> SUFFICES ASSUME NEW u \in TmTools, tmLock[u] \in TmProcs PROVE RowIn(tmRow', u) = RowIn(tmRow, u)
    OBVIOUS
  <2>1. u \notin DOMAIN tmBackup.rows
    BY <1>1, TmConstants
  <2> QED
    BY <1>1, <2>1 DEF RowIn, Overlaying
<1>3. tmRow' = tmWant'
  BY <1>1 DEF OverlayInv, OverlayKept
<1>4. tmLock' \in [TmTools -> TmProcs \cup {TmFree}] /\ DOMAIN tmOp' = TmProcs /\ \A q \in TmProcs : tmOp'[q] = tmOp[q]
  BY <1>1 DEF OverlayInv, TmTypes
<1>5. {} \in SUBSET TmProcs /\ TmProcs \ {} = TmProcs
  OBVIOUS
<1> QED
  BY <1>1, <1>2, <1>3, <1>4, <1>5, OverlayRows

LEMMA OverlayStep ==
  ASSUME OverlayInv, [TmNext]_tmVars
  PROVE  OverlayInv'
<1>1. CASE UNCHANGED tmVars
  BY <1>1 DEF tmVars, OverlayInv, TmTypes, RowsHeld, Merging, RowIn, OverlayKept
<1>2. CASE ExportToolMeta
  BY <1>2 DEF ExportToolMeta, OverlayInv, TmTypes, RowsHeld, Merging, RowIn, OverlayKept
<1>3. ASSUME NEW p \in TmProcs, CheckCreate(p) \/ CheckRename(p) \/ CheckMove(p) \/ CheckDelete(p)
      PROVE  OverlayInv'
  BY <1>3, OverlayRead DEF CheckCreate, CheckRename, CheckMove, CheckDelete, Asked
<1>4. ASSUME NEW p \in TmProcs, CreateFolder(p) \/ RenameFolder(p) \/ MoveFolder(p) \/ DeleteFolder(p)
      PROVE  OverlayInv'
  BY <1>4, OverlayFolders DEF CreateFolder, RenameFolder, MoveFolder, DeleteFolder, TmPut, Gone
<1> QED
  BY <1>1, <1>2, <1>3, <1>4, OverlayBegin, OverlayLock, OverlayMerge, OverlayDelete, OverlayRename, OverlayAbandon,
     OverlayImport DEF TmNext

\* A tool's row holds, field by field, what the last committed edit of the field asked for: an edit
\* that merges its patch has the row locked from its read to its write (tool_meta/store.py, merge_meta),
\* and deletes, renames and restores wait for that lock.
THEOREM OverlayStaysKept == TmSpec => []OverlayKept
<1>1. OverlayInv => OverlayKept
  BY DEF OverlayInv
<1> QED
  BY <1>1, OverlayInitially, OverlayStep, PTL DEF TmSpec

----------------------------------------------------------------------------
(* Templates. *)

\* No write that returned is ahead of what is stored, and what an operation will acknowledge is stored.
WorkOK(o) ==
    /\ o.pc \in {"idle", "evict", "purge"}
    /\ o.pc = "evict" => o.path \in TpPaths /\ o.ver \in Nat /\ o.ver <= tpStore[o.path].ver
    /\ o.pc = "purge" =>
         /\ o = [pc |-> "purge", left |-> o.left, gone |-> o.gone] /\ o.left \subseteq TpDir
         /\ \A x \in o.gone : x.path \in TpDir /\ x.ver \in Nat /\ x.ver <= tpStore[x.path].ver
AckedStored ==
    /\ DOMAIN tpStore = TpPaths /\ tpAcked \in [TpPaths -> Nat]
    /\ \A p \in TpPaths : tpStore[p].ver \in Nat /\ tpAcked[p] <= tpStore[p].ver
    /\ DOMAIN tpWork = TpAdmins /\ \A a \in TpAdmins : WorkOK(tpWork[a])

\* The fetch of c runs for p, and if it has read it read nothing older than v.
Fetches(c, p, v) ==
    /\ c \in TpCallers /\ tpFetch[c].pc \in {"load", "read"} /\ tpFetch[c].path = p
    /\ tpFetch[c].pc = "read" => tpFetch[c].got.ver >= v

\* An entry is being fetched by who it says, or is finished and tracked; a write that returned is in it.
EntryOK(p) ==
    /\ p \in TpPaths
    /\ \/ tpCache[p] = [pc |-> "pending", by |-> tpCache[p].by] /\ Fetches(tpCache[p].by, p, tpAcked[p])
       \/ /\ tpCache[p] = [pc |-> "done", got |-> tpCache[p].got] /\ p \in tpTracked
          /\ tpCache[p].got.ver \in Nat /\ tpCache[p].got.ver >= tpAcked[p]
CacheFresh ==
    /\ \A p \in DOMAIN tpCache : EntryOK(p)
    /\ ~tpCached => DOMAIN tpCache = {}

\* A caller fetches for itself and waits for its own fetch or one of the same id.
FetchOK(c) ==
    /\ tpFetch[c].pc \in {"none", "load", "read"}
    /\ tpFetch[c].pc \in {"load", "read"} => tpCall[c].pc = "wait" /\ tpCall[c].on = c
    /\ tpFetch[c].pc = "read" => tpFetch[c].got.ver \in Nat

\* What a caller was promised when it asked is returned already, and what it got keeps the promise.
CallOK(k) ==
    /\ k.pc \in {"idle", "wait", "render", "include", "answered", "get", "schema"}
    /\ k.pc # "idle" => k.floor \in [TpPaths -> Nat] /\ \A p \in TpPaths : k.floor[p] <= tpAcked[p]
    /\ k.pc = "wait" => k.path \in TpPaths /\ Fetches(k.on, k.path, k.floor[k.path])
    /\ k.pc \in {"get", "schema"} => k.path \in TpPaths
    /\ k.pc \in {"render", "include", "answered"} /\ k.path \in TpPaths => k.own.ver \in Nat /\ k.own.ver >= k.floor[k.path]
CallsKept ==
    /\ DOMAIN tpFetch = TpCallers /\ DOMAIN tpCall = TpCallers
    /\ \A c \in TpCallers : FetchOK(c) /\ CallOK(tpCall[c])

RenderInv == AckedStored /\ CacheFresh /\ CallsKept

LEMMA TpRendersFollow == RenderInv => RendersCurrent
BY DEF RenderInv, RendersCurrent, CallsKept, CallOK

LEMMA RenderInvInit == TpInit => RenderInv
<1> SUFFICES ASSUME TpInit PROVE RenderInv
  OBVIOUS
<1>1. AckedStored
  BY DEF TpInit, AckedStored, WorkOK, NoWork
<1>2. CacheFresh /\ CallsKept
  BY DEF TpInit, CacheFresh, CallsKept, FetchOK, CallOK, NoFetch, NoCall
<1> QED BY <1>1, <1>2 DEF RenderInv

----------------------------------------------------------------------------
\* Callers: a call moves on and the fetches do not.
LEMMA CallMoves ==
  ASSUME RenderInv, NEW c \in TpCallers, NEW k, CallOK(k), tpCall[c].pc # "wait", tpCall' = [tpCall EXCEPT ![c] = k],
         UNCHANGED <<tpCached, tpStore, tpCache, tpTracked, tpFetch, tpWork, tpAcked>>
  PROVE  RenderInv'
<1>1. AckedStored'
  BY DEF RenderInv, AckedStored, WorkOK
<1>2. CacheFresh'
  BY DEF RenderInv, CacheFresh, EntryOK, Fetches
<1>3. ASSUME NEW d \in TpCallers PROVE (FetchOK(d) /\ CallOK(tpCall[d]))'
  <2>1. FetchOK(d) /\ CallOK(tpCall[d]) /\ FetchOK(c) /\ DOMAIN tpCall = TpCallers
    BY DEF RenderInv, CallsKept
  <2>2. CASE d = c
    BY <2>1, <2>2 DEF FetchOK, CallOK, Fetches
  <2>3. CASE d # c
    BY <2>1, <2>3 DEF FetchOK, CallOK, Fetches
  <2> QED BY <2>2, <2>3
<1>4. CallsKept'
  BY <1>3 DEF RenderInv, CallsKept
<1> QED BY <1>1, <1>2, <1>4 DEF RenderInv

LEMMA Promise ==
  ASSUME RenderInv
  PROVE  tpAcked \in [TpPaths -> Nat] /\ \A p \in TpPaths : tpStore[p].ver \in Nat /\ tpAcked[p] <= tpStore[p].ver
BY DEF RenderInv, AckedStored

LEMMA AskOK == ASSUME RenderInv, NEW c \in TpCallers, RenderInline(c) \/ \E p \in TpPaths \cup TpUnsafe : GetTemplate(c, p)
  PROVE RenderInv'
<1> USE Promise
<1>1. CASE RenderInline(c)
  <2> DEFINE k == [pc |-> "render", path |-> "inline", floor |-> tpAcked, own |-> Inline]
  <2>1. CallOK(k)
    BY TpConstants DEF CallOK, Inline
  <2>2. tpCall' = [tpCall EXCEPT ![c] = k] /\ tpCall[c].pc # "wait"
    BY <1>1 DEF RenderInline, Ask, NoCall
  <2>3. UNCHANGED <<tpCached, tpStore, tpCache, tpTracked, tpFetch, tpWork, tpAcked>>
    BY <1>1 DEF RenderInline, Writing, tpShared
  <2> QED BY <2>1, <2>2, <2>3, CallMoves
<1>2. ASSUME NEW p \in TpPaths \cup TpUnsafe, GetTemplate(c, p) PROVE RenderInv'
  <2> DEFINE k == [pc |-> "get", path |-> p, floor |-> tpAcked]
  <2>1. CallOK(k)
    BY <1>2 DEF CallOK, GetTemplate, SafeKey
  <2>2. tpCall' = [tpCall EXCEPT ![c] = k] /\ tpCall[c].pc # "wait"
    BY <1>2 DEF GetTemplate, Ask, NoCall
  <2>3. UNCHANGED <<tpCached, tpStore, tpCache, tpTracked, tpFetch, tpWork, tpAcked>>
    BY <1>2 DEF GetTemplate, Writing, tpShared
  <2> QED BY <2>1, <2>2, <2>3, CallMoves
<1> QED BY <1>1, <1>2

LEMMA CallGoesOn ==
  ASSUME RenderInv, NEW c \in TpCallers, Render(c) \/ SyncLoader(c) \/ FetchTemplate(c) \/ TemplateSchema(c) \/ Returned(c)
  PROVE  RenderInv'
<1> DEFINE k == tpCall'[c]
<1>1. CallOK(tpCall[c]) /\ DOMAIN tpCall = TpCallers
  BY DEF RenderInv, CallsKept
<1>2. UNCHANGED <<tpCached, tpStore, tpCache, tpTracked, tpFetch, tpWork, tpAcked>>
  BY DEF Render, SyncLoader, FetchTemplate, TemplateSchema, Returned, Writing, tpShared
<1>3. tpCall[c].pc # "wait" /\ tpCall' = [tpCall EXCEPT ![c] = k]
  BY <1>1 DEF Render, SyncLoader, FetchTemplate, TemplateSchema, Returned
<1>4. CallOK(k)
  <2>1. CASE Render(c)
    BY <1>1, <2>1 DEF Render, CallOK, TpAnswer
  <2>2. CASE SyncLoader(c)
    BY <1>1, <2>2 DEF SyncLoader, CallOK, TpAnswer
  <2>3. CASE FetchTemplate(c)
    BY <1>1, <2>3, Promise DEF FetchTemplate, CallOK, TpAnswer
  <2>4. CASE TemplateSchema(c)
    BY <1>1, <2>4, Promise DEF TemplateSchema, CallOK, TpAnswer
  <2>5. CASE Returned(c)
    BY <1>1, <2>5 DEF Returned, CallOK, NoCall
  <2> QED BY <2>1, <2>2, <2>3, <2>4, <2>5
<1> HIDE DEF k
<1> QED BY <1>2, <1>3, <1>4, CallMoves

----------------------------------------------------------------------------
\* A render that needs its id's text joins the entry's fetch, or starts one.
LEMMA RenderByIdOK == ASSUME RenderInv, NEW c \in TpCallers, NEW p \in TpPaths \cup TpUnsafe, RenderById(c, p)
  PROVE RenderInv'
<1> DEFINE call == [pc |-> "wait", path |-> p, floor |-> tpAcked, on |-> c]
           hit == tpCached /\ p \in DOMAIN tpCache
<1>1. /\ p \in TpPaths /\ tpCall[c].pc # "wait" /\ tpFetch[c].pc = "none"
      /\ UNCHANGED <<tpCached, tpStore, tpTracked, tpWork, tpAcked>>
  BY DEF RenderById, Ask, NoCall, SafeKey, Writing, RenderInv, CallsKept, FetchOK
<1>2. DOMAIN tpCall = TpCallers /\ DOMAIN tpFetch = TpCallers
  BY DEF RenderInv, CallsKept
<1>3. CASE hit /\ tpCache[p].pc = "done"
  <2> DEFINE k == [pc |-> "render", path |-> p, floor |-> tpAcked, own |-> tpCache[p].got]
  <2>1. tpCall' = [tpCall EXCEPT ![c] = k] /\ UNCHANGED <<tpFetch, tpCache>>
    BY <1>3 DEF RenderById, Rendering
  <2>2. CallOK(k)
    BY <1>1, <1>3, Promise DEF CallOK, RenderInv, CacheFresh, EntryOK
  <2> HIDE DEF k
  <2> QED BY <1>1, <2>1, <2>2, CallMoves
<1>4. CASE hit /\ tpCache[p].pc # "done"
  <2> DEFINE k == [pc |-> "wait", path |-> p, floor |-> tpAcked, on |-> tpCache[p].by]
  <2>1. tpCall' = [tpCall EXCEPT ![c] = k] /\ UNCHANGED <<tpFetch, tpCache>>
    BY <1>4 DEF RenderById
  <2>2. EntryOK(p)
    BY <1>4 DEF RenderInv, CacheFresh
  <2>3. Fetches(tpCache[p].by, p, tpAcked[p])
    BY <1>4, <2>2 DEF EntryOK
  <2>4. CallOK(k)
    BY <1>1, <2>3, Promise DEF CallOK
  <2> HIDE DEF k
  <2> QED BY <1>1, <2>1, <2>4, CallMoves
<1>5. CASE ~hit
  <2>1. /\ tpCall' = [tpCall EXCEPT ![c] = call] /\ tpFetch' = [tpFetch EXCEPT ![c] = [pc |-> "load", path |-> p]]
        /\ tpCache' = IF tpCached
                      THEN [q \in DOMAIN tpCache \cup {p} |-> IF q = p THEN [pc |-> "pending", by |-> c] ELSE tpCache[q]]
                      ELSE tpCache
    BY <1>5 DEF RenderById
  <2>2. /\ tpCall'[c] = call /\ tpFetch'[c] = [pc |-> "load", path |-> p]
        /\ \A d \in TpCallers \ {c} : tpCall'[d] = tpCall[d] /\ tpFetch'[d] = tpFetch[d]
        /\ DOMAIN tpCall' = TpCallers /\ DOMAIN tpFetch' = TpCallers
    BY <1>2, <2>1
  <2>3. AckedStored'
    BY <1>1 DEF RenderInv, AckedStored, WorkOK
  <2>4. ASSUME NEW d, NEW q, NEW v, Fetches(d, q, v) PROVE Fetches(d, q, v)'
    BY <1>1, <2>2, <2>4 DEF Fetches
  <2>5. CacheFresh'
    <3>1. ASSUME NEW q \in DOMAIN tpCache' PROVE EntryOK(q)'
      <4>1. CASE tpCached /\ q = p
        BY <1>1, <2>1, <2>2, <4>1 DEF EntryOK, Fetches
      <4>2. CASE ~(tpCached /\ q = p)
        <5>1. q \in DOMAIN tpCache /\ tpCache'[q] = tpCache[q] /\ EntryOK(q)
          BY <2>1, <3>1, <4>2 DEF RenderInv, CacheFresh
        <5>2. tpCache[q] = [pc |-> "pending", by |-> tpCache[q].by] /\ Fetches(tpCache[q].by, q, tpAcked[q])
                => Fetches(tpCache[q].by, q, tpAcked[q])'
          BY <1>1, <2>4, <5>1
        <5> QED BY <1>1, <5>1, <5>2 DEF EntryOK
      <4> QED BY <4>1, <4>2
    <3> QED BY <1>1, <2>1, <3>1 DEF RenderInv, CacheFresh
  <2>6. ASSUME NEW d \in TpCallers PROVE (FetchOK(d) /\ CallOK(tpCall[d]))'
    <3>1. CASE d = c
      <4>1. FetchOK(d)'
        BY <2>2, <3>1 DEF FetchOK
      <4>2. Fetches(c, p, tpAcked[p])'
        BY <2>2 DEF Fetches
      <4> QED BY <1>1, <2>2, <3>1, <4>1, <4>2, Promise DEF CallOK
    <3>2. CASE d # c
      <4>1. FetchOK(d) /\ CallOK(tpCall[d])
        BY DEF RenderInv, CallsKept
      <4>2. FetchOK(d)'
        BY <2>2, <3>2, <4>1 DEF FetchOK
      <4>3. tpCall'[d] = tpCall[d]
        BY <2>2, <3>2
      <4>4. tpCall[d].pc = "wait" => Fetches(tpCall[d].on, tpCall[d].path, tpCall[d].floor[tpCall[d].path])'
        BY <2>4, <4>1, <4>3 DEF CallOK
      <4> QED BY <1>1, <4>1, <4>2, <4>3, <4>4 DEF CallOK
    <3> QED BY <3>1, <3>2
  <2>7. CallsKept'
    BY <2>2, <2>6 DEF CallsKept
  <2> QED BY <2>3, <2>5, <2>7 DEF RenderInv
<1> QED BY <1>3, <1>4, <1>5

\* What the provider returns is no older than any write that has returned.
LEMMA LoadByIdOK == ASSUME RenderInv, NEW c \in TpCallers, LoadById(c) PROVE RenderInv'
<1> PICK p : p = tpFetch[c].path
  OBVIOUS
<1>1. /\ tpFetch[c].pc = "load" /\ UNCHANGED <<tpCached, tpStore, tpCache, tpTracked, tpCall, tpWork, tpAcked>>
      /\ tpFetch' = [tpFetch EXCEPT ![c] = [pc |-> "read", path |-> p, got |-> tpStore[p]]]
      /\ DOMAIN tpFetch = TpCallers
  BY DEF LoadById, Writing, tpShared, RenderInv, CallsKept
<1>2. /\ tpFetch'[c] = [pc |-> "read", path |-> p, got |-> tpStore[p]]
      /\ \A d \in TpCallers \ {c} : tpFetch'[d] = tpFetch[d]
  BY <1>1
<1>3. p \in TpPaths
  BY <1>1 DEF RenderInv, CallsKept, FetchOK, CallOK, Fetches
<1>4. ASSUME NEW d, NEW q \in TpPaths, NEW v \in Nat, Fetches(d, q, v), v <= tpAcked[q] PROVE Fetches(d, q, v)'
  <2>1. CASE d = c
    BY <1>1, <1>2, <1>3, <1>4, <2>1, Promise DEF Fetches
  <2>2. CASE d # c
    BY <1>2, <1>4, <2>2 DEF Fetches
  <2> QED BY <2>1, <2>2
<1>5. AckedStored'
  BY <1>1 DEF RenderInv, AckedStored, WorkOK
<1>6. ASSUME NEW q \in DOMAIN tpCache' PROVE EntryOK(q)'
  <2>1. EntryOK(q) /\ q \in TpPaths /\ tpAcked[q] \in Nat
    BY <1>1, <1>6, Promise DEF RenderInv, CacheFresh, EntryOK
  <2>2. CASE tpCache[q] = [pc |-> "pending", by |-> tpCache[q].by] /\ Fetches(tpCache[q].by, q, tpAcked[q])
    <3>1. Fetches(tpCache[q].by, q, tpAcked[q])'
      BY <1>1, <1>4, <2>1, <2>2
    <3> QED BY <1>1, <2>1, <2>2, <3>1 DEF EntryOK
  <2>3. CASE ~(tpCache[q] = [pc |-> "pending", by |-> tpCache[q].by] /\ Fetches(tpCache[q].by, q, tpAcked[q]))
    BY <1>1, <2>1, <2>3 DEF EntryOK
  <2> QED BY <2>2, <2>3
<1>7. ASSUME NEW d \in TpCallers PROVE (FetchOK(d) /\ CallOK(tpCall[d]))'
  <2>1. FetchOK(d) /\ CallOK(tpCall[d])
    BY DEF RenderInv, CallsKept
  <2>2. FetchOK(d)'
    BY <1>1, <1>2, <1>3, <2>1, Promise DEF FetchOK
  <2>3. tpCall[d].pc = "wait" => Fetches(tpCall[d].on, tpCall[d].path, tpCall[d].floor[tpCall[d].path])'
    BY <1>1, <1>4, <2>1 DEF CallOK
  <2> QED BY <1>1, <2>1, <2>2, <2>3 DEF CallOK
<1> QED BY <1>1, <1>2, <1>5, <1>6, <1>7 DEF RenderInv, CacheFresh, CallsKept

LEMMA FetchAndCompileOK == ASSUME RenderInv, NEW c \in TpCallers, FetchAndCompile(c) PROVE RenderInv'
<1> PICK f : f = tpFetch[c]
  OBVIOUS
<1> DEFINE fails == f.got.kind \in {"gone", "broken"}
           own == tpCached /\ f.path \in DOMAIN tpCache /\ tpCache[f.path] = [pc |-> "pending", by |-> c]
<1>1. /\ f.pc = "read" /\ UNCHANGED <<tpCached, tpStore, tpWork, tpAcked>>
      /\ tpFetch' = [tpFetch EXCEPT ![c] = NoFetch] /\ DOMAIN tpFetch = TpCallers /\ DOMAIN tpCall = TpCallers
  BY DEF FetchAndCompile, Writing, RenderInv, CallsKept
<1>2. /\ tpTracked' = IF tpCached /\ f.got.kind # "gone" THEN Swept(tpTracked \cup {f.path}) ELSE tpTracked
      /\ tpCache' = IF fails THEN Cut(tpCache, {f.path})
                    ELSE IF own THEN [tpCache EXCEPT ![f.path] = [pc |-> "done", got |-> f.got]]
                    ELSE tpCache
  BY DEF FetchAndCompile
<1>3. tpCall' = [d \in TpCallers |->
                   IF tpCall[d].pc # "wait" \/ tpCall[d].on # c THEN tpCall[d]
                   ELSE IF fails THEN TpAnswer(tpCall[d], f.got, NoDep, f.got.kind) ELSE Rendering(tpCall[d], f.got)]
  BY DEF FetchAndCompile
<1>4. f.path \in TpPaths /\ f.got.ver \in Nat /\ tpCall[c].pc = "wait" /\ tpCall[c].on = c
  BY <1>1 DEF RenderInv, CallsKept, FetchOK, CallOK, Fetches
<1>5. tpFetch'[c] = NoFetch /\ \A d \in TpCallers \ {c} : tpFetch'[d] = tpFetch[d]
  BY <1>1
<1>6. \A q \in DOMAIN tpCache : q \in tpTracked => q \in tpTracked'
  BY <1>2 DEF Swept, HasEntry
<1>7. own /\ ~fails => f.path \in tpTracked'
  BY <1>2 DEF Swept, HasEntry
<1>8. AckedStored'
  BY <1>1 DEF RenderInv, AckedStored, WorkOK
<1>9. ASSUME NEW q \in DOMAIN tpCache' PROVE EntryOK(q)'
  <2>1. q \in DOMAIN tpCache /\ EntryOK(q)
    BY <1>2, <1>9 DEF Cut, RenderInv, CacheFresh
  <2>2. q = f.path => ~fails
    BY <1>2, <1>9 DEF Cut
  <2> HIDE DEF fails
  <2>3. CASE q = f.path /\ own
    <3>1. tpCache'[q] = [pc |-> "done", got |-> f.got] /\ q \in tpTracked'
      BY <1>2, <1>7, <2>1, <2>2, <2>3
    <3>2. f.got.ver >= tpAcked[q]
      BY <1>1, <2>1, <2>3 DEF EntryOK, Fetches
    <3> QED BY <1>1, <1>4, <2>3, <3>1, <3>2 DEF EntryOK
  <2>4. CASE ~(q = f.path /\ own)
    <3>1. tpCache'[q] = tpCache[q]
      BY <1>2, <2>1, <2>2, <2>4 DEF Cut
    <3>2. CASE tpCache[q] = [pc |-> "pending", by |-> tpCache[q].by] /\ Fetches(tpCache[q].by, q, tpAcked[q])
      <4>1. tpCache[q].by # c
        <5>1. tpCached
          BY <2>1 DEF RenderInv, CacheFresh
        <5> QED BY <2>1, <2>4, <3>2, <5>1 DEF Fetches
      <4>2. Fetches(tpCache[q].by, q, tpAcked[q])'
        BY <1>1, <1>5, <3>1, <3>2, <4>1 DEF Fetches
      <4> QED BY <2>1, <3>1, <3>2, <4>2 DEF EntryOK
    <3>3. CASE ~(tpCache[q] = [pc |-> "pending", by |-> tpCache[q].by] /\ Fetches(tpCache[q].by, q, tpAcked[q]))
      BY <1>1, <1>6, <2>1, <3>1, <3>3 DEF EntryOK
    <3> QED BY <3>2, <3>3
  <2> QED BY <2>3, <2>4
<1>10. ~tpCached' => DOMAIN tpCache' = {}
  BY <1>1, <1>2 DEF RenderInv, CacheFresh, Cut
<1> HIDE DEF fails, own
<1>11. ASSUME NEW d \in TpCallers PROVE (FetchOK(d) /\ CallOK(tpCall[d]))'
  <2>1. FetchOK(d) /\ CallOK(tpCall[d])
    BY DEF RenderInv, CallsKept
  <2>2. CASE tpCall[d].pc = "wait" /\ tpCall[d].on = c
    <3>1. /\ tpCall'[d].pc \in {"render", "answered"} /\ tpCall'[d].path = tpCall[d].path
          /\ tpCall'[d].floor = tpCall[d].floor /\ tpCall'[d].own = f.got
      BY <1>3, <2>2 DEF TpAnswer, Rendering
    <3>2. f.got.ver >= tpCall[d].floor[tpCall[d].path]
      BY <1>1, <2>1, <2>2 DEF CallOK, Fetches
    <3>3. tpFetch'[d].pc = "none"
      <4>1. CASE d = c
        BY <1>5, <4>1 DEF NoFetch
      <4>2. CASE d # c
        BY <1>5, <2>1, <2>2, <4>2 DEF FetchOK
      <4> QED BY <4>1, <4>2
    <3>4. FetchOK(d)'
      BY <3>3 DEF FetchOK
    <3> QED BY <1>1, <1>4, <2>1, <2>2, <3>1, <3>2, <3>4 DEF CallOK
  <2>3. CASE ~(tpCall[d].pc = "wait" /\ tpCall[d].on = c)
    <3>1. d # c /\ tpCall'[d] = tpCall[d] /\ tpFetch'[d] = tpFetch[d]
      BY <1>3, <1>4, <1>5, <2>3
    <3>2. FetchOK(d)'
      BY <2>1, <3>1 DEF FetchOK
    <3>3. tpCall[d].pc = "wait" => Fetches(tpCall[d].on, tpCall[d].path, tpCall[d].floor[tpCall[d].path])'
      BY <1>5, <2>1, <2>3, <3>1 DEF CallOK, Fetches
    <3> QED BY <1>1, <2>1, <3>1, <3>2, <3>3 DEF CallOK
  <2> QED BY <2>2, <2>3
<1>12. DOMAIN tpFetch' = TpCallers /\ DOMAIN tpCall' = TpCallers
  BY <1>1, <1>3
<1> QED BY <1>8, <1>9, <1>10, <1>11, <1>12 DEF RenderInv, CacheFresh, CallsKept

----------------------------------------------------------------------------
\* A write changes what is stored, and what is cached only when it returns.
LEMMA StoreMoves ==
  ASSUME RenderInv, NEW a \in TpAdmins, NEW p \in TpPaths, NEW kind, NEW o, Stored(p, kind),
         tpWork' = [tpWork EXCEPT ![a] = o], WorkOK(o)',
         UNCHANGED <<tpCached, tpCache, tpTracked, tpFetch, tpCall, tpAcked>>
  PROVE  RenderInv'
<1>1. /\ DOMAIN tpStore' = TpPaths
      /\ \A q \in TpPaths : tpStore'[q].ver \in Nat /\ tpStore[q].ver <= tpStore'[q].ver /\ tpAcked[q] <= tpStore[q].ver
  BY DEF Stored, RenderInv, AckedStored
<1>2. ASSUME NEW b \in TpAdmins PROVE WorkOK(tpWork[b])'
  <2>1. CASE b = a
    BY <2>1 DEF RenderInv, AckedStored
  <2>2. CASE b # a
    <3>1. tpWork'[b] = tpWork[b] /\ WorkOK(tpWork[b])
      BY <2>2 DEF RenderInv, AckedStored
    <3>2. tpWork[b].pc = "evict" => tpWork[b].ver <= tpStore'[tpWork[b].path].ver
      BY <1>1, <3>1, Promise DEF WorkOK
    <3>3. tpWork[b].pc = "purge" => \A x \in tpWork[b].gone : x.ver <= tpStore'[x.path].ver
      BY <1>1, <3>1, Promise, TpConstants DEF WorkOK
    <3> QED BY <3>1, <3>2, <3>3 DEF WorkOK
  <2> QED BY <2>1, <2>2
<1>3. AckedStored'
  <2>1. tpAcked' \in [TpPaths -> Nat] /\ \A q \in TpPaths : tpAcked'[q] <= tpStore'[q].ver
    BY <1>1, Promise
  <2> QED BY <1>1, <1>2, <2>1 DEF RenderInv, AckedStored
<1>4. CacheFresh'
  BY DEF RenderInv, CacheFresh, EntryOK, Fetches
<1>5. CallsKept'
  BY DEF RenderInv, CallsKept, FetchOK, CallOK, Fetches
<1> QED BY <1>3, <1>4, <1>5 DEF RenderInv

LEMMA WriteOK ==
  ASSUME RenderInv, NEW a \in TpAdmins, NEW p, NEW kind, UploadTemplate(a, p, kind) \/ DeleteTemplate(a, p)
  PROVE  RenderInv'
<1>1. p \in TpPaths /\ UNCHANGED <<tpCached, tpCache, tpTracked, tpFetch, tpCall, tpAcked>>
  BY DEF UploadTemplate, DeleteTemplate, SafeKey, tpShared, Reading
<1>2. PICK w : w = [pc |-> "evict", path |-> p, ver |-> tpStore[p].ver + 1]
  OBVIOUS
<1>3. tpWork' = [tpWork EXCEPT ![a] = w] /\ \E k : Stored(p, k)
  BY <1>2 DEF UploadTemplate, DeleteTemplate
<1>4. PICK k : Stored(p, k)
  BY <1>3
<1>5. tpStore'[p].ver = tpStore[p].ver + 1
  BY <1>1, <1>4 DEF Stored, RenderInv, AckedStored
<1>6. WorkOK(w)'
  BY <1>1, <1>2, <1>5, Promise DEF WorkOK
<1> QED BY <1>1, <1>3, <1>4, <1>6, StoreMoves

LEMMA PurgeOneOK == ASSUME RenderInv, NEW a \in TpAdmins, NEW p \in TpDir, PurgeOne(a, p) PROVE RenderInv'
<1> PICK o : o = tpWork[a]
  OBVIOUS
<1>1. /\ WorkOK(o) /\ o.pc = "purge" /\ p \in o.left /\ p \in TpPaths /\ Stored(p, "gone")
      /\ UNCHANGED <<tpCached, tpCache, tpTracked, tpFetch, tpCall, tpAcked>> /\ DOMAIN tpWork = TpAdmins
  BY TpConstants DEF PurgeOne, RenderInv, AckedStored, tpShared, Reading
<1>2. PICK w : w = [pc |-> "purge", left |-> o.left \ {p}, gone |-> o.gone \cup {[path |-> p, ver |-> tpStore[p].ver + 1]}]
  OBVIOUS
<1>3. o = [pc |-> "purge", left |-> o.left, gone |-> o.gone]
  BY <1>1 DEF WorkOK
<1>4. tpWork' = [tpWork EXCEPT ![a] = w]
  <2>1. tpWork' = [tpWork EXCEPT ![a].left = @ \ {p}, ![a].gone = @ \cup {[path |-> p, ver |-> tpStore[p].ver + 1]}]
    BY DEF PurgeOne
  <2>2. tpWork'[a] = w
    BY <1>1, <1>2, <1>3, <2>1
  <2> QED BY <1>1, <2>1, <2>2
<1>5. /\ tpStore'[p].ver = tpStore[p].ver + 1
      /\ \A q \in TpPaths : tpStore[q].ver \in Nat /\ tpStore'[q].ver \in Nat /\ tpStore[q].ver <= tpStore'[q].ver
  BY <1>1, Promise DEF Stored, RenderInv, AckedStored
<1>6. ASSUME NEW x \in w.gone PROVE x.path \in TpDir /\ x.ver \in Nat /\ x.ver <= tpStore'[x.path].ver
  <2>1. CASE x \in o.gone
    <3>1. x.path \in TpDir /\ x.path \in TpPaths /\ x.ver \in Nat /\ x.ver <= tpStore[x.path].ver
      BY <1>1, <2>1, TpConstants DEF WorkOK
    <3> QED BY <1>5, <3>1
  <2>2. CASE x \notin o.gone
    <3>1. x = [path |-> p, ver |-> tpStore[p].ver + 1]
      BY <1>2, <1>6, <2>2
    <3> QED BY <1>1, <1>5, <3>1
  <2> QED BY <2>1, <2>2
<1>7. WorkOK(w)'
  BY <1>1, <1>2, <1>6 DEF WorkOK
<1> QED BY <1>1, <1>4, <1>7, StoreMoves

\* A write that returns raises the promise of an id whose entry it took away.
LEMMA Promised ==
  ASSUME RenderInv, NEW a \in TpAdmins, NEW P, tpWork' = [tpWork EXCEPT ![a] = NoWork],
         tpCache' = Cut(tpCache, P), \A q \in DOMAIN tpCache' : q \in tpTracked => q \in tpTracked',
         tpAcked' \in [TpPaths -> Nat], \A q \in TpPaths : tpAcked[q] <= tpAcked'[q] /\ tpAcked'[q] <= tpStore[q].ver,
         \A q \in DOMAIN tpCache' : tpAcked'[q] = tpAcked[q],
         UNCHANGED <<tpCached, tpStore, tpFetch, tpCall>>
  PROVE  RenderInv'
<1>1. AckedStored'
  <2>1. \A b \in TpAdmins : tpWork'[b] = NoWork \/ tpWork'[b] = tpWork[b]
    BY DEF RenderInv, AckedStored
  <2>2. \A b \in TpAdmins : WorkOK(tpWork[b])'
    BY <2>1 DEF RenderInv, AckedStored, WorkOK, NoWork
  <2> QED BY <2>2 DEF RenderInv, AckedStored
<1>2. CacheFresh'
  <2>1. ASSUME NEW q \in DOMAIN tpCache' PROVE EntryOK(q)'
    <3>1. q \in DOMAIN tpCache /\ tpCache'[q] = tpCache[q] /\ EntryOK(q)
      BY DEF Cut, RenderInv, CacheFresh
    <3> QED BY <3>1 DEF EntryOK, Fetches
  <2> QED BY <2>1 DEF Cut, RenderInv, CacheFresh
<1>3. CallsKept'
  <2>1. ASSUME NEW c \in TpCallers PROVE (FetchOK(c) /\ CallOK(tpCall[c]))'
    <3>1. FetchOK(c) /\ CallOK(tpCall[c])
      BY DEF RenderInv, CallsKept
    <3>2. tpCall[c].pc # "idle" => \A p \in TpPaths : tpCall[c].floor[p] <= tpAcked'[p]
      BY <3>1, Promise DEF CallOK
    <3> QED BY <3>1, <3>2 DEF FetchOK, CallOK, Fetches
  <2> QED BY <2>1 DEF RenderInv, CallsKept
<1> QED BY <1>1, <1>2, <1>3 DEF RenderInv

LEMMA WriteReturnsOK == ASSUME RenderInv, NEW a \in TpAdmins, WriteReturns(a) PROVE RenderInv'
<1> PICK w : w = tpWork[a]
  OBVIOUS
<1>1. /\ WorkOK(w) /\ w.pc = "evict" /\ tpWork' = [tpWork EXCEPT ![a] = NoWork]
      /\ tpCache' = Cut(tpCache, {w.path}) /\ tpTracked' = tpTracked \ {w.path}
      /\ tpAcked' = [tpAcked EXCEPT ![w.path] = IF w.ver > @ THEN w.ver ELSE @]
      /\ UNCHANGED <<tpCached, tpStore, tpFetch, tpCall>>
  BY DEF WriteReturns, EvictCompiled, RenderInv, AckedStored, Reading
<1>2. /\ tpAcked' \in [TpPaths -> Nat] /\ \A q \in TpPaths : tpAcked[q] <= tpAcked'[q] /\ tpAcked'[q] <= tpStore[q].ver
      /\ \A q \in DOMAIN tpAcked : q # w.path => tpAcked'[q] = tpAcked[q]
  BY <1>1, Promise DEF WorkOK
<1>3. \A q \in DOMAIN tpCache' : q # w.path /\ q \in DOMAIN tpCache /\ q \in TpPaths
  BY <1>1 DEF Cut, RenderInv, CacheFresh, EntryOK
<1> QED BY <1>1, <1>2, <1>3, Promise, Promised

\* The eviction of a directory goes by the tracked ids; it promises nothing of an id it left an entry of.
LEMMA DirReturnsOK == ASSUME RenderInv, NEW a \in TpAdmins, DirReturns(a) PROVE RenderInv'
<1> PICK w : w = tpWork[a]
  OBVIOUS
<1> DEFINE SeenVers(p) == {x.ver : x \in {y \in w.gone : y.path = p}}
           Pending(p) == p \in DOMAIN tpCache /\ tpCache[p].pc = "pending"
<1>1. /\ WorkOK(w) /\ w.pc = "purge" /\ tpWork' = [tpWork EXCEPT ![a] = NoWork]
      /\ tpCache' = Cut(tpCache, tpTracked \cap TpDir) /\ tpTracked' = {p \in tpTracked \ TpDir : HasEntry(tpCache', p)}
      /\ tpAcked' = [p \in TpPaths |->
                       IF Pending(p) \/ \A v \in SeenVers(p) : v <= tpAcked[p] THEN tpAcked[p] ELSE CHOOSE v \in SeenVers(p) : v > tpAcked[p]]
      /\ UNCHANGED <<tpCached, tpStore, tpFetch, tpCall>>
  BY DEF DirReturns, EvictCompiledPrefix, RenderInv, AckedStored, Reading
<1>2. ASSUME NEW p \in TpPaths PROVE tpAcked'[p] \in Nat /\ tpAcked[p] <= tpAcked'[p] /\ tpAcked'[p] <= tpStore[p].ver
  <2>1. \A v \in SeenVers(p) : v \in Nat /\ v <= tpStore[p].ver
    BY <1>1 DEF WorkOK
  <2>2. CASE Pending(p) \/ \A v \in SeenVers(p) : v <= tpAcked[p]
    BY <1>1, <2>2, Promise
  <2>3. CASE ~(Pending(p) \/ \A v \in SeenVers(p) : v <= tpAcked[p])
    <3> HIDE DEF SeenVers, Pending
    <3>1. \E v \in SeenVers(p) : v > tpAcked[p]
      BY <2>1, <2>3, Promise
    <3>2. tpAcked'[p] = CHOOSE v \in SeenVers(p) : v > tpAcked[p]
      BY <1>1, <2>3
    <3>3. tpAcked'[p] \in SeenVers(p) /\ tpAcked'[p] > tpAcked[p]
      BY <3>1, <3>2
    <3> QED BY <2>1, <3>3, Promise
  <2> QED BY <2>2, <2>3
<1>3. ASSUME NEW q \in DOMAIN tpCache' PROVE tpAcked'[q] = tpAcked[q] /\ (q \in tpTracked => q \in tpTracked')
  <2>1. q \in DOMAIN tpCache /\ EntryOK(q) /\ q \notin tpTracked \cap TpDir /\ q \in TpPaths
    BY <1>1 DEF Cut, RenderInv, CacheFresh, EntryOK
  <2>2. q \in tpTracked => q \in tpTracked'
    BY <1>1, <1>3, <2>1 DEF HasEntry
  <2>3. Pending(q) \/ SeenVers(q) = {}
    <3>1. CASE q \in TpDir
      BY <2>1, <3>1 DEF EntryOK
    <3>2. CASE q \notin TpDir
      BY <1>1, <3>2 DEF WorkOK
    <3> QED BY <3>1, <3>2
  <2> HIDE DEF SeenVers, Pending
  <2>4. tpAcked'[q] = tpAcked[q]
    BY <1>1, <2>1, <2>3
  <2> QED BY <2>2, <2>4
<1>4. tpAcked' \in [TpPaths -> Nat]
  <2>1. DOMAIN tpAcked' = TpPaths /\ tpAcked' = [p \in TpPaths |-> tpAcked'[p]]
    BY <1>1
  <2> QED BY <1>2, <2>1
<1> QED BY <1>1, <1>2, <1>3, <1>4, Promised

LEMMA DropOK ==
  ASSUME RenderInv, (\E a \in TpAdmins : DeleteTemplateDir(a)) \/ ClearCache \/ \E p \in TpPaths : Expires(p)
  PROVE  RenderInv'
<1>1. ASSUME NEW a \in TpAdmins, DeleteTemplateDir(a) PROVE RenderInv'
  <2> PICK w : w = [pc |-> "purge", left |-> {p \in TpDir : tpStore[p].kind # "gone"}, gone |-> {}]
    OBVIOUS
  <2>1. tpWork' = [tpWork EXCEPT ![a] = w] /\ UNCHANGED <<tpCached, tpStore, tpCache, tpTracked, tpFetch, tpCall, tpAcked>>
    BY <1>1 DEF DeleteTemplateDir, tpShared, Reading
  <2>2. \A b \in TpAdmins : WorkOK(tpWork[b])'
    <3>1. \A b \in TpAdmins : tpWork'[b] = w \/ tpWork'[b] = tpWork[b]
      BY <2>1 DEF RenderInv, AckedStored
    <3> QED BY <2>1, <3>1 DEF RenderInv, AckedStored, WorkOK
  <2>3. AckedStored'
    BY <2>1, <2>2 DEF RenderInv, AckedStored
  <2>4. CacheFresh' /\ CallsKept'
    BY <2>1 DEF RenderInv, CacheFresh, EntryOK, CallsKept, CallOK, FetchOK, Fetches
  <2> QED BY <2>3, <2>4 DEF RenderInv
<1>2. CASE ClearCache \/ \E p \in TpPaths : Expires(p)
  <2>1. UNCHANGED <<tpCached, tpStore, tpFetch, tpCall, tpWork, tpAcked>>
    BY <1>2 DEF ClearCache, Expires, Reading
  <2>2. \A q \in DOMAIN tpCache' : q \in DOMAIN tpCache /\ tpCache'[q] = tpCache[q] /\ (q \in tpTracked => q \in tpTracked')
    BY <1>2 DEF ClearCache, Expires, Cut
  <2>3. AckedStored' /\ CallsKept'
    BY <2>1 DEF RenderInv, AckedStored, WorkOK, CallsKept, CallOK, FetchOK, Fetches
  <2>4. CacheFresh'
    <3>1. \A q \in DOMAIN tpCache' : EntryOK(q)'
      BY <2>1, <2>2 DEF RenderInv, CacheFresh, EntryOK, Fetches
    <3> QED BY <2>1, <2>2, <3>1 DEF RenderInv, CacheFresh
  <2> QED BY <2>3, <2>4 DEF RenderInv
<1> QED BY <1>1, <1>2

----------------------------------------------------------------------------
LEMMA RenderStep == ASSUME RenderInv, [TpNext]_tpVars PROVE RenderInv'
<1>1. ASSUME NEW a \in TpAdmins,
             \/ \E p \in TpPaths \cup TpUnsafe : (\E k \in Kinds(p) : UploadTemplate(a, p, k)) \/ DeleteTemplate(a, p)
             \/ WriteReturns(a) \/ DeleteTemplateDir(a) \/ DirReturns(a) \/ \E p \in TpDir : PurgeOne(a, p)
      PROVE  RenderInv'
  BY <1>1, WriteOK, WriteReturnsOK, DropOK, DirReturnsOK, PurgeOneOK
<1>2. ASSUME NEW c \in TpCallers,
             \/ RenderTemplate(c) \/ \E p \in TpPaths \cup TpUnsafe : GetTemplate(c, p)
             \/ LoadById(c) \/ FetchAndCompile(c) \/ Render(c) \/ SyncLoader(c)
             \/ FetchTemplate(c) \/ TemplateSchema(c) \/ Returned(c)
      PROVE  RenderInv'
  BY <1>2, AskOK, RenderByIdOK, LoadByIdOK, FetchAndCompileOK, CallGoesOn DEF RenderTemplate
<1>3. CASE ClearCache \/ \E p \in TpPaths : Expires(p)
  BY <1>3, DropOK
<1>4. CASE UNCHANGED tpVars
  BY <1>4 DEF tpVars, tpShared, RenderInv, AckedStored, WorkOK, CacheFresh, EntryOK, CallsKept, CallOK, FetchOK, Fetches
<1> QED BY <1>1, <1>2, <1>3, <1>4 DEF TpNext

\* A write that has returned is in every finished entry, in every read under way behind an entry, and in
\* what every caller that asked since will get (operations/templates.py, template/resource_manager.py).
THEOREM RenderInvariance == TpSpec => []RenderInv
<1>1. TpInit => RenderInv
  BY RenderInvInit
<1>2. RenderInv /\ [TpNext]_tpVars => RenderInv'
  BY RenderStep
<1> QED BY <1>1, <1>2, PTL DEF TpSpec

\*\* Once an upload, a delete or a directory delete has returned, no later render uses an older text, for
\* any templates, callers and writers.
THEOREM RendersStayCurrent == TpSpec => []RendersCurrent
<1>1. RenderInv => RendersCurrent
  BY TpRendersFollow
<1> QED BY <1>1, RenderInvariance, PTL

=============================================================================

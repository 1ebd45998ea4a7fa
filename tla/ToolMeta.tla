------------------------------ MODULE ToolMeta ------------------------------
(***************************************************************************)
(* The tool-metadata overlay: folders and one row per tool, the            *)
(* transactions of tool_meta/store.py under READ COMMITTED.  A transaction *)
(* reads in one step and writes, with the checks of the database's foreign *)
(* keys and unique index, in another; merge_meta holds its row's lock from *)
(* one to the other.  A display name and the hidden flag stand for the     *)
(* fields a patch may carry; tags behave as the display name does.         *)
(***************************************************************************)
EXTENDS Integers, FiniteSets

CONSTANTS
    TmFolders,   \* folder ids
    TmLabels,    \* folder names
    TmTools,     \* tool names
    TmPatches,   \* what an overlay edit carries: functions from some of TmFields
    TmProcs,     \* transactions open at once
    MaxTmOps     \* bound: operations begun

VARIABLES
    tmTree,      \* folder id -> [name, parent] for the folders that exist
    tmRow,       \* tool -> [label, folder, hidden] for the tools with a row
    tmLock,      \* tool -> who holds its row
    tmOp,        \* proc -> operation
    tmWant,      \* tool -> what the committed edits of its row ask for (history)
    tmBackup,    \* exported [tree, rows]
    tmLeft       \* bound: operations left

tmVars == <<tmTree, tmRow, tmLock, tmOp, tmWant, tmBackup, tmLeft>>

TmFields == {"label", "folder", "hidden"}
Root == "root"
TmIdle == [kind |-> "idle"]
TmFree == "free"
TmEmpty == [x \in {} |-> 0]
Blank == [label |-> 0, folder |-> Root, hidden |-> 0]
Overlaying(f, g) == [x \in DOMAIN f \cup DOMAIN g |-> IF x \in DOMAIN g THEN g[x] ELSE f[x]]
TmWith(f, t, v) == [x \in DOMAIN f \cup {t} |-> IF x = t THEN v ELSE f[x]]
Exists(f) == f \in DOMAIN tmTree
Present(f) == f = Root \/ Exists(f)

ASSUME TmConstants == TmFree \notin TmProcs

TmInit ==
    /\ tmTree = TmEmpty /\ tmRow = TmEmpty /\ tmWant = TmEmpty
    /\ tmLock = [t \in TmTools |-> TmFree]
    /\ tmOp = [p \in TmProcs |-> TmIdle]
    /\ tmBackup = [tree |-> TmEmpty, rows |-> TmEmpty]
    /\ tmLeft = MaxTmOps

TmStay == UNCHANGED <<tmBackup, tmLeft>>
TmDone(p) == tmOp' = [tmOp EXCEPT ![p] = TmIdle]
TmReady(p, kind) == tmOp[p].kind = kind /\ tmOp[p].step = "write"
Asked(p, kind) == tmOp[p].kind = kind /\ tmOp[p].step = "read"

TmOps ==
    [kind : {"create"}, id : TmFolders, name : TmLabels, to : TmFolders \cup {Root}]
    \cup [kind : {"rename"}, id : TmFolders, name : TmLabels]
    \cup [kind : {"move"}, id : TmFolders, to : TmFolders \cup {Root}]
    \cup [kind : {"delete"}, id : TmFolders]
    \cup [kind : {"merge"}, tool : TmTools, patch : TmPatches]
    \cup [kind : {"drop"}, tool : TmTools]
    \cup {o \in [kind : {"rekey"}, tool : TmTools, into : TmTools] : o.tool # o.into}

TmBegin(p, o) ==
    /\ tmOp[p] = TmIdle /\ tmLeft > 0
    /\ tmLeft' = tmLeft - 1
    /\ tmOp' = [tmOp EXCEPT ![p] = Overlaying(o, [step |-> "read", seen |-> Blank])]
    /\ UNCHANGED <<tmTree, tmRow, tmLock, tmWant, tmBackup>>

(* The folders on the way up from one, as the walk of _reject_cycle meets   *)
(* them.                                                                   *)
Up(tree, f) == IF f \in DOMAIN tree THEN tree[f].parent ELSE Root
Above(tree, f) == LET up1 == Up(tree, f) up2 == Up(tree, up1) up3 == Up(tree, up2) IN {f, up1, up2, up3}
WalkEnds(tree, f) == Root \in Above(tree, f)

TmRead(p, allowed) ==
    /\ tmOp' = [tmOp EXCEPT ![p] = IF allowed THEN [@ EXCEPT !.step = "write"] ELSE TmIdle]
    /\ UNCHANGED <<tmTree, tmRow, tmLock, tmWant>> /\ TmStay

CheckCreate(p) == Asked(p, "create") /\ TmRead(p, Present(tmOp[p].to))
CheckRename(p) == Asked(p, "rename") /\ TmRead(p, Exists(tmOp[p].id))

(* move_folder: both folders exist and the new parent's chain does not meet *)
(* the folder; a walk into a loop that does not hold it never ends.         *)
CheckMove(p) ==
    LET o == tmOp[p] IN
    /\ Asked(p, "move")
    /\ IF Exists(o.id) /\ Exists(o.to) THEN o.id \in Above(tmTree, o.to) \/ WalkEnds(tmTree, o.to) ELSE TRUE
    /\ TmRead(p, Exists(o.id) /\ (o.to = Root \/ (Exists(o.to) /\ o.id \notin Above(tmTree, o.to))))

Holds(f) == (\E g \in DOMAIN tmTree : tmTree[g].parent = f) \/ \E t \in DOMAIN tmRow : tmRow[t].folder = f
CheckDelete(p) == Asked(p, "delete") /\ TmRead(p, Exists(tmOp[p].id) /\ ~Holds(tmOp[p].id))

Taken(parent, name, but) ==
    \E g \in DOMAIN tmTree \ {but} : tmTree[g].parent = parent /\ tmTree[g].name = name

(* The write of a folder: refused by the foreign key when the parent has    *)
(* gone and by the unique index when a sibling has the name.               *)
TmPut(p, id, name, parent) ==
    /\ tmTree' = IF Present(parent) /\ ~Taken(parent, name, id)
                 THEN TmWith(tmTree, id, [name |-> name, parent |-> parent]) ELSE tmTree
    /\ TmDone(p)
    /\ UNCHANGED <<tmRow, tmLock, tmWant>> /\ TmStay

CreateFolder(p) == TmReady(p, "create") /\ ~Exists(tmOp[p].id) /\ TmPut(p, tmOp[p].id, tmOp[p].name, tmOp[p].to)

Gone(p) == TmDone(p) /\ UNCHANGED <<tmTree, tmRow, tmLock, tmWant>> /\ TmStay

RenameFolder(p) ==
    /\ TmReady(p, "rename")
    /\ IF Exists(tmOp[p].id) THEN TmPut(p, tmOp[p].id, tmOp[p].name, tmTree[tmOp[p].id].parent) ELSE Gone(p)

MoveFolder(p) ==
    /\ TmReady(p, "move")
    /\ IF Exists(tmOp[p].id) THEN TmPut(p, tmOp[p].id, tmTree[tmOp[p].id].name, tmOp[p].to) ELSE Gone(p)

DeleteFolder(p) ==
    LET f == tmOp[p].id IN
    /\ TmReady(p, "delete")
    /\ tmTree' = IF Holds(f) THEN tmTree ELSE [g \in DOMAIN tmTree \ {f} |-> tmTree[g]]
    /\ TmDone(p)
    /\ UNCHANGED <<tmRow, tmLock, tmWant>> /\ TmStay

(* merge_meta: the row is created if it is missing and locked,              *)
MutantRowHeld(p, t) == UNCHANGED tmLock  \* a plausible mistake: no FOR UPDATE

RowHeld(p, t) == tmLock[t] = TmFree /\ tmLock' = [tmLock EXCEPT ![t] = p]

MergeLock(p) ==
    /\ Asked(p, "merge")
    /\ RowHeld(p, tmOp[p].tool)
    /\ tmOp' = [tmOp EXCEPT ![p].seen = IF tmOp[p].tool \in DOMAIN tmRow THEN tmRow[tmOp[p].tool] ELSE Blank,
                            ![p].step = "write"]
    /\ UNCHANGED <<tmTree, tmRow, tmWant>> /\ TmStay

Over(row, patch) == [f \in TmFields |-> IF f \in DOMAIN patch THEN patch[f] ELSE row[f]]
Unheld(p) == [t \in TmTools |-> IF tmLock[t] = p THEN TmFree ELSE tmLock[t]]

(* and the patch over what was read is written if its folder still exists.  *)
MergeMeta(p) ==
    LET t == tmOp[p].tool
        new == Over(tmOp[p].seen, tmOp[p].patch) IN
    /\ TmReady(p, "merge")
    /\ IF Present(new.folder)
       THEN /\ tmRow' = TmWith(tmRow, t, new)
            /\ tmWant' = TmWith(tmWant, t, Over(IF t \in DOMAIN tmRow THEN tmWant[t] ELSE Blank, tmOp[p].patch))
       ELSE UNCHANGED <<tmRow, tmWant>>
    /\ tmLock' = Unheld(p)
    /\ TmDone(p)
    /\ UNCHANGED tmTree /\ TmStay

Minus(f, t) == [u \in DOMAIN f \ {t} |-> f[u]]

DeleteMeta(p) ==
    LET t == tmOp[p].tool IN
    /\ Asked(p, "drop") /\ tmLock[t] = TmFree
    /\ tmRow' = Minus(tmRow, t) /\ tmWant' = Minus(tmWant, t)
    /\ TmDone(p)
    /\ UNCHANGED <<tmTree, tmLock>> /\ TmStay

(* rename_tool: the destination's row goes before the tool's takes its key. *)
Rekeyed(f, t, u) == IF t \in DOMAIN f THEN TmWith(Minus(f, t), u, f[t]) ELSE Minus(f, u)

RenameTool(p) ==
    LET o == tmOp[p] IN
    /\ Asked(p, "rekey") /\ tmLock[o.tool] = TmFree /\ tmLock[o.into] = TmFree
    /\ tmRow' = Rekeyed(tmRow, o.tool, o.into) /\ tmWant' = Rekeyed(tmWant, o.tool, o.into)
    /\ TmDone(p)
    /\ UNCHANGED <<tmTree, tmLock>> /\ TmStay

TmAbandon(p) ==
    /\ tmOp[p] # TmIdle
    /\ TmDone(p) /\ tmLock' = Unheld(p)
    /\ UNCHANGED <<tmTree, tmRow, tmWant>> /\ TmStay

ExportToolMeta ==
    /\ tmLeft > 0 /\ tmLeft' = tmLeft - 1
    /\ tmBackup' = [tree |-> tmTree, rows |-> tmRow]
    /\ UNCHANGED <<tmTree, tmRow, tmLock, tmOp, tmWant>>

(* Import: folders, parents first, then rows, upserted in one transaction;  *)
(* a sibling name another folder has refuses it whole.                      *)
ImportToolMeta ==
    LET tree == Overlaying(tmTree, tmBackup.tree)
        clash == \E f, g \in DOMAIN tree : f # g /\ tree[f] = tree[g] IN
    /\ tmBackup.tree # TmEmpty \/ tmBackup.rows # TmEmpty
    /\ \A t \in DOMAIN tmBackup.rows : tmLock[t] = TmFree
    /\ ~clash
    /\ tmTree' = tree
    /\ tmRow' = Overlaying(tmRow, tmBackup.rows) /\ tmWant' = Overlaying(tmWant, tmBackup.rows)
    /\ UNCHANGED <<tmLock, tmOp, tmBackup, tmLeft>>

TmNext ==
    \/ \E p \in TmProcs :
          \/ \E o \in TmOps : TmBegin(p, o)
          \/ CheckCreate(p) \/ CreateFolder(p) \/ CheckRename(p) \/ RenameFolder(p)
          \/ CheckMove(p) \/ MoveFolder(p) \/ CheckDelete(p) \/ DeleteFolder(p)
          \/ MergeLock(p) \/ MergeMeta(p) \/ DeleteMeta(p) \/ RenameTool(p) \/ TmAbandon(p)
    \/ ExportToolMeta \/ ImportToolMeta

TmSpec == TmInit /\ [][TmNext]_tmVars

----------------------------------------------------------------------------
(* Concurrent edits of one tool's overlay both survive: a row holds, field  *)
(* by field, what the last committed edit of that field asked for, across   *)
(* renames and restores (merge_meta's row lock).                           *)
OverlayKept == tmRow = tmWant

(* No folder is its own ancestor: "a folder may never become its own        *)
(* ancestor" (tool_meta/store.py).                                          *)
FoldersAcyclic == \A f \in DOMAIN tmTree : WalkEnds(tmTree, f)
=============================================================================

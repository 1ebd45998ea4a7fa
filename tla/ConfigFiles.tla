---------------------------- MODULE ConfigFiles ----------------------------
(***************************************************************************)
(* The config store on disk, config/file_manager.py, as config/service.py  *)
(* uses it: writers of any process validate and seal a change, take the    *)
(* file's lock, and replace the file through a temporary one.  Writers may *)
(* fail or be killed at any step, and the machine may lose power: a rename *)
(* that was not followed by the directory's fsync may be lost then.        *)
(* Markers resolve against the stored env.                                 *)
(***************************************************************************)
EXTENDS SecretSeal

CONSTANTS
    CfWriters,   \* writers: threads of any worker
    CfDocs,      \* manifests an operator or a feature may hand in
    CfStart,     \* manifests the store may start with
    CfEnvs,      \* env changes: variable -> value, "" to remove it
    CfUnwritable,\* values the .env format does not give back
    CfBus,       \* the variable of the worker bus
    MaxCfOps     \* bound: changes and power losses

VARIABLES
    cfFile,      \* file -> [val, ver]: what a reader opens
    cfDisk,      \* file -> what is certain to survive a power loss
    cfLock,      \* file -> writer that holds its lock
    cfJob,       \* writer -> what it is doing
    cfAcked,     \* file -> newest version that was acknowledged (history)
    cfMade,      \* file -> versions made so far
    cfLeft

cfVars == <<cfFile, cfDisk, cfLock, cfJob, cfAcked, cfMade, cfLeft>>

CfFiles == {"env", "manifest"}
CfIdle == [step |-> "idle"]
NoWriter == "no writer"
CfVariables == UNION {DOMAIN e : e \in CfEnvs}
CfEnv == cfFile["env"].val

CfInit ==
    /\ \E d \in CfStart, e \in CfEnvs : cfFile = [f \in CfFiles |-> [ver |-> 0, val |-> IF f = "env" THEN e ELSE d]]
    /\ cfDisk = cfFile /\ cfLock = [f \in CfFiles |-> NoWriter]
    /\ cfJob = [w \in CfWriters |-> CfIdle]
    /\ cfAcked = [f \in CfFiles |-> 0] /\ cfMade = cfAcked /\ cfLeft = MaxCfOps

(* check_backend_needs_bus: a manifest with a backend needs the bus.        *)
NeedsBus(doc, env) == "backend" \in DOMAIN doc.f /\ Expanded(doc.f["backend"], env).v # ""
BusOk(doc, env) == NeedsBus(doc, env) => env[CfBus] # ""

Job(w, job) == cfJob' = [cfJob EXCEPT ![w] = job]
Begins == cfLeft > 0 /\ cfLeft' = cfLeft - 1
Released(w) == [f \in CfFiles |-> IF cfLock[f] = w THEN NoWriter ELSE cfLock[f]]

(* apply_change: under the lock the mutator makes its document out of the   *)
(* current one, which is validated and sealed.                             *)
ApplyChange(w) ==
    /\ Begins /\ cfJob[w] = CfIdle
    /\ Job(w, [step |-> "lock", file |-> "manifest", op |-> "change"])
    /\ UNCHANGED <<cfFile, cfDisk, cfLock, cfAcked, cfMade>>

(* apply_replace: validated, and sealed against a manifest that was read    *)
(* without the lock.                                                       *)
ApplyReplace(w, doc) ==
    LET base == cfFile["manifest"]
        sealed == Seal(doc, base.val, CfEnv) IN
    /\ Begins /\ cfJob[w] = CfIdle
    /\ IF BusOk(doc, CfEnv) /\ ~sealed.refused
       THEN Job(w, [step |-> "lock", file |-> "manifest", op |-> "replace", given |-> doc, new |-> sealed.doc, base |-> base, env |-> CfEnv])
       ELSE UNCHANGED cfJob
    /\ UNCHANGED <<cfFile, cfDisk, cfLock, cfAcked, cfMade>>

Merged(env, changes) == [x \in CfVariables |-> IF x \in DOMAIN changes THEN changes[x] ELSE env[x]]

(* apply_env_change: validated against what is stored now, without a lock.  *)
ApplyEnvChange(w, changes) ==
    /\ Begins /\ cfJob[w] = CfIdle
    /\ IF BusOk(cfFile["manifest"].val, Merged(CfEnv, changes))
       THEN Job(w, [step |-> "lock", file |-> "env", op |-> "env", given |-> changes])
       ELSE UNCHANGED cfJob
    /\ UNCHANGED <<cfFile, cfDisk, cfLock, cfAcked, cfMade>>

----------------------------------------------------------------------------

MayLock(w, f) == cfLock[f] = NoWriter

AtStep(w, step) == cfJob[w] # CfIdle /\ cfJob[w].step = step
Locked(w) == /\ AtStep(w, "lock") /\ MayLock(w, cfJob[w].file)
             /\ cfLock' = [cfLock EXCEPT ![cfJob[w].file] = w]

(* mutate_manifest: the read, the mutator, the validation and the seal; a   *)
(* refusal leaves the file as it was.                                      *)
Mutate(w, doc) ==
    LET base == cfFile["manifest"]
        sealed == Seal(doc, base.val, CfEnv) IN
    /\ cfJob[w] # CfIdle /\ cfJob[w].op = "change" /\ Locked(w)
    /\ IF BusOk(doc, CfEnv) /\ ~sealed.refused
       THEN Job(w, [step |-> "temp", file |-> "manifest", op |-> "change", given |-> doc, new |-> sealed.doc, base |-> base, env |-> CfEnv])
       ELSE Job(w, [step |-> "fail", op |-> cfJob[w].op])
    /\ UNCHANGED <<cfFile, cfDisk, cfAcked, cfMade, cfLeft>>

(* replace_manifest: the document as it was given.                          *)
ReplaceManifest(w) ==
    /\ cfJob[w] # CfIdle /\ cfJob[w].op = "replace" /\ Locked(w)
    /\ Job(w, [cfJob[w] EXCEPT !.step = "temp"])
    /\ UNCHANGED <<cfFile, cfDisk, cfAcked, cfMade, cfLeft>>

(* write_env: the stored env is read and merged under the lock; a value the *)
(* format does not give back refuses the write.                            *)
MergeEnv(w) ==
    LET merged == Merged(CfEnv, cfJob[w].given) IN
    /\ cfJob[w] # CfIdle /\ cfJob[w].op = "env" /\ Locked(w)
    /\ IF {merged[x] : x \in CfVariables} \cap CfUnwritable = {}
       THEN Job(w, [step |-> "temp", file |-> "env", op |-> "env", new |-> merged, base |-> cfFile["env"]])
       ELSE Job(w, [step |-> "fail", op |-> cfJob[w].op])
    /\ UNCHANGED <<cfFile, cfDisk, cfAcked, cfMade, cfLeft>>

(* _atomic_write: the temporary file, its fsync and the rename,             *)
Rename(w) ==
    LET f == cfJob[w].file IN
    /\ AtStep(w, "temp")
    /\ cfMade' = [cfMade EXCEPT ![f] = @ + 1]
    /\ cfFile' = [cfFile EXCEPT ![f] = [ver |-> cfMade[f] + 1, val |-> cfJob[w].new]]
    /\ Job(w, [cfJob[w] EXCEPT !.step = "sync"])
    /\ UNCHANGED <<cfDisk, cfLock, cfAcked, cfLeft>>

Synced(f) == cfFile[f]

(* the fsync of the directory; then the lock goes and the caller is told.    *)
SyncDirectory(w) ==
    LET f == cfJob[w].file IN
    /\ AtStep(w, "sync")
    /\ cfDisk' = [cfDisk EXCEPT ![f] = Synced(f)]
    /\ cfAcked' = [cfAcked EXCEPT ![f] = cfFile[f].ver]
    /\ cfLock' = Released(w) /\ Job(w, CfIdle)
    /\ UNCHANGED <<cfFile, cfMade, cfLeft>>

(* A failed write, before the rename or after it: nothing is acknowledged.   *)
WriteFails(w) ==
    /\ cfJob[w] # CfIdle /\ cfJob[w].step \in {"temp", "sync", "fail"}
    /\ cfLock' = Released(w) /\ Job(w, CfIdle)
    /\ UNCHANGED <<cfFile, cfDisk, cfAcked, cfMade, cfLeft>>

(* The process is killed: its locks go with its descriptors.                *)
Killed(w) ==
    /\ cfJob[w] # CfIdle
    /\ cfLock' = Released(w) /\ Job(w, CfIdle)
    /\ UNCHANGED <<cfFile, cfDisk, cfAcked, cfMade, cfLeft>>

(* The machine stops: a rename whose directory was not synced may be gone.   *)
PowerLoss ==
    /\ Begins
    /\ \E lost \in SUBSET CfFiles : cfFile' = [f \in CfFiles |-> IF f \in lost THEN cfDisk[f] ELSE cfFile[f]]
    /\ cfDisk' = cfFile'
    /\ cfJob' = [w \in CfWriters |-> CfIdle] /\ cfLock' = [f \in CfFiles |-> NoWriter]
    /\ UNCHANGED <<cfAcked, cfMade>>

CfNext ==
    \/ \E w \in CfWriters :
          \/ ApplyChange(w) \/ ReplaceManifest(w) \/ MergeEnv(w) \/ Rename(w) \/ SyncDirectory(w) \/ WriteFails(w) \/ Killed(w)
          \/ \E d \in CfDocs : Mutate(w, d) \/ ApplyReplace(w, d)
          \/ \E e \in CfEnvs : ApplyEnvChange(w, e)
    \/ PowerLoss

CfSpec == CfInit /\ [][CfNext]_cfVars

----------------------------------------------------------------------------
(* Whoever is killed and whenever the power goes: no acknowledged change of *)
(* a file is undone, now or by a power loss to come, and a change that is   *)
(* made out of the current content replaces the very content it was made    *)
(* from, so no acknowledged change is overwritten unseen.                   *)
AckedKept ==
    /\ \A f \in CfFiles : cfFile[f].ver >= cfAcked[f] /\ cfDisk[f].ver >= cfAcked[f]
    /\ \A w \in CfWriters : AtStep(w, "temp") /\ cfJob[w].op # "replace" => cfJob[w].base = cfFile[cfJob[w].file]

(* What is about to be written holds no text that a marker of the manifest  *)
(* it was sealed against resolves to, unless that manifest held it as text  *)
(* too; it means what was handed in; and the resolved view of a manifest,   *)
(* handed back as it was read, is written with every marker where it was.   *)
SealSound ==
    \A w \in CfWriters : cfJob[w] # CfIdle /\ cfJob[w].step = "temp" /\ cfJob[w].file = "manifest" =>
        LET j == cfJob[w] IN
        /\ Leaks(j.new, j.base.val, j.env) = {}
        /\ Expanded(j.new, j.env) = Expanded(j.given, j.env)
        /\ j.given = Expanded(j.base.val, j.env) => j.new = j.base.val

\* What was acknowledged is on disk, and no secret of the environment is there in the clear.
FilesSound == AckedKept /\ SealSound
=============================================================================

------------------------------ MODULE Retention ------------------------------
(***************************************************************************)
(* Pruning of old evidence and of old backups (state.py: prune_retention,  *)
(* _retention_inventory, _artifact_binding, _delete_bound_artifact).       *)
(*                                                                         *)
(* A prune takes one inventory and then deletes, file by file, without a   *)
(* lock: other prunes, workers and the operator touch the same files in    *)
(* between.  It therefore deletes only what still has the identity it      *)
(* inventoried: check the name, rename it to a private quarantine name,    *)
(* check again what was renamed, and only then unlink; otherwise the file  *)
(* is renamed back.                                                        *)
(*                                                                         *)
(* A file is its content and its change time.  A rename keeps the content  *)
(* and moves the change time, which is all _stat_identity and              *)
(* _record_matches_after_quarantine tell apart.  Sizes are one per file.   *)
(***************************************************************************)
EXTENDS Integers, FiniteSets, Sequences, Functions

CONSTANTS
    RunOrder,         \* runs, oldest first (reference_ts, run_id)
    Evidence,         \* log, receipt and export artifacts
    Trees,            \* the artifacts that are directories: review exports
    OwnerOf,          \* the run an artifact belongs to
    TaskOf,           \* the task a run is an attempt at
    Old,              \* runs older than the age limit
    Recent,           \* newest_keep: runs exempt from the size budget
    MaxEvidence,      \* max_evidence_bytes
    BackupOrder,      \* backups, oldest first (mtime, path)
    KeepBackups,      \* keep_backups
    MaxBackupBytes,   \* max_backup_bytes
    Prunes,           \* concurrent prunes
    MaxTouches,       \* bound on files rewritten or removed by somebody else
    NoFile

BackupFiles == Range(BackupOrder)
EvidenceRuns == Range(RunOrder)
EvidenceTasks == {TaskOf[r] : r \in EvidenceRuns}
Files == Evidence \union BackupFiles

ASSUME RetentionAssumption ==
    /\ OwnerOf \in [Evidence -> EvidenceRuns] /\ Trees \subseteq Evidence
    /\ Old \subseteq EvidenceRuns /\ Recent \subseteq EvidenceRuns
    /\ MaxEvidence \in Nat /\ MaxBackupBytes \in Nat /\ MaxTouches \in Nat
    /\ KeepBackups \in Nat \ {0}
    /\ Evidence \cap BackupFiles = {} /\ IsFiniteSet(Evidence) /\ NoFile \notin Files

VARIABLES
    file,       \* what is under each artifact's own name
    hold,       \* what each prune has under its quarantine name
    left,       \* quarantined files no prune looks after any more
    run,        \* ledger state of each run
    task,       \* ledger status of each task
    verifying,  \* runs whose verify has read the ledger and not written to it yet
    revived,    \* ghost: runs that were over when their verify wrote a gate
    prune,      \* the local state of each prune
    touches,    \* how often somebody else touched a file
    unlinked,   \* ghost: who deleted which content of which file
    meddled     \* ghost: a backup was touched while this prune held one

ledgerRows == <<run, task, verifying, revived>>
retentionVars == <<file, hold, left, ledgerRows, prune, touches, unlinked, meddled>>

Absent == [content |-> NoFile, time |-> 0]
Present == [content : 0..MaxTouches, time : Nat]

Versions == {Absent} \union Present

PruneCalls ==
    [at : {"idle", "files", "runs", "bind", "delete", "backups", "scan", "check", "rename",
           "post", "survivor", "unlink", "restore", "putback", "ended", "dead"},
     inv : [Files -> Versions],       \* the inventory of the files
     terminal : SUBSET EvidenceRuns,  \* and of the ledger
     i : Nat, total : Nat, budget : BOOLEAN,
     todo : SUBSET Files, matched : SUBSET Files, changed : BOOLEAN,
     deleted : SUBSET Files, file : Files \union {NoFile}, removed : Nat,
     status : {"none", "CHANGED", "FAILED"}]

\* "gate": REVIEWING or VERIFIED; "over": NEEDS_FIX, BLOCKED, ABORTED or COMPLETE.
AttemptStates == {"unclaimed", "working", "gate", "over"}

\* "gate": WAITING_REVIEW, READY_TO_PUBLISH or WAITING_OWNER; "ready": may be claimed.
TaskStates == {"ready", "busy", "gate", "stopped"}

RetentionTypeOK ==
    /\ file \in [Files -> Versions]
    /\ hold \in [Prunes -> Versions]
    /\ left \subseteq Files \X (0..MaxTouches)
    /\ run \in [EvidenceRuns -> AttemptStates]
    /\ task \in [EvidenceTasks -> TaskStates]
    /\ verifying \subseteq EvidenceRuns /\ revived \subseteq EvidenceRuns
    /\ prune \in [Prunes -> PruneCalls]
    /\ touches \in 0..MaxTouches
    /\ meddled \in [Prunes -> BOOLEAN]

IdlePrune ==
    [at |-> "idle", inv |-> [f \in Files |-> Absent], terminal |-> {}, i |-> 1,
     total |-> 0, budget |-> TRUE, todo |-> {}, matched |-> {}, changed |-> FALSE,
     deleted |-> {}, file |-> NoFile, removed |-> 0, status |-> "none"]

\* Run r is an attempt at task t and waits for a gate.
AtGate(r, t) == TaskOf[r] = t /\ run[r] = "gate"

RetentionInit ==
    /\ file \in [Files -> {Absent, [content |-> 0, time |-> 0]}]
    /\ hold = [p \in Prunes |-> Absent]
    /\ left = {}
    /\ run \in [EvidenceRuns -> AttemptStates]
    /\ task \in [EvidenceTasks -> TaskStates]
    /\ \A t \in EvidenceTasks : task[t] = "gate" => \E r \in EvidenceRuns : AtGate(r, t)
    /\ verifying \subseteq EvidenceRuns /\ revived = {}
    /\ prune = [p \in Prunes |-> IdlePrune]
    /\ touches = 0
    /\ unlinked = {}
    /\ meddled = [p \in Prunes |-> FALSE]

-----------------------------------------------------------------------------
(* The inventory.                                                          *)

\* Runs whose evidence may not go: those at work, those that wait for a gate or a
\* publication, and every attempt at a task that does.
Protected(r) == run[r] \in {"working", "gate"} \/ task[TaskOf[r]] = "gate"
Terminal == {r \in EvidenceRuns : run[r] # "unclaimed" /\ ~Protected(r)}

\* The ledger is read first, the files afterwards.
InventoryRuns(p) ==
    /\ prune[p].at = "idle"
    /\ prune' = [prune EXCEPT ![p].terminal = Terminal, ![p].at = "files"]
    /\ UNCHANGED <<file, hold, left, ledgerRows, touches, unlinked, meddled>>

InventoryFiles(p) ==
    /\ prune[p].at = "files"
    /\ prune' = [prune EXCEPT
         ![p].inv = file,
         ![p].total = Cardinality({f \in Evidence : file[f] # Absent}),
         ![p].at = "runs"]
    /\ UNCHANGED <<file, hold, left, ledgerRows, touches, unlinked, meddled>>

\* _artifact_binding.
Binding(p, f) ==
    IF file[f] = Absent THEN "MISSING"
    ELSE IF file[f] = prune[p].inv[f] THEN "MATCH" ELSE "CHANGED"

Less(n, k) == IF n > k THEN n - k ELSE 0

-----------------------------------------------------------------------------
(* Evidence, run by run, oldest first.                                     *)

AgeDue(r) == r \in Old

BudgetDue(x, r) == x.budget /\ x.total > MaxEvidence /\ r \notin Recent

Artifacts(x, r) == {f \in Evidence : OwnerOf[f] = r /\ x.inv[f] # Absent}

NextRun(p) ==
    LET x == prune[p]
        r == RunOrder[x.i]
    IN /\ x.at = "runs" /\ x.i <= Len(RunOrder)
       /\ prune' = [prune EXCEPT ![p] =
            IF /\ r \in x.terminal /\ Artifacts(x, r) # {}
               /\ AgeDue(r) \/ BudgetDue(x, r)
            THEN [x EXCEPT !.at = "bind", !.todo = Artifacts(x, r),
                           !.matched = {}, !.changed = FALSE]
            ELSE [x EXCEPT !.i = @ + 1]]
       /\ UNCHANGED <<file, hold, left, ledgerRows, touches, unlinked, meddled>>

\* Every artifact of the run is looked at before the first one is deleted.
Bind(p, f) ==
    LET x == prune[p]
    IN /\ x.at = "bind" /\ f \in x.todo
       /\ prune' = [prune EXCEPT ![p] =
            LET y == [x EXCEPT !.todo = @ \ {f}]
            IN CASE Binding(p, f) = "MATCH" -> [y EXCEPT !.matched = @ \union {f}]
                 [] Binding(p, f) = "MISSING" -> [y EXCEPT !.total = Less(@, 1)]
                 [] OTHER -> [y EXCEPT !.changed = TRUE]]
       /\ UNCHANGED <<file, hold, left, ledgerRows, touches, unlinked, meddled>>

\* One changed artifact spares the whole run and ends pruning by size.
Bound(p) ==
    LET x == prune[p]
    IN /\ x.at = "bind" /\ x.todo = {}
       /\ prune' = [prune EXCEPT ![p] =
            IF x.changed
            THEN [x EXCEPT !.budget = FALSE, !.at = "runs", !.i = @ + 1]
            ELSE IF ~AgeDue(RunOrder[x.i]) /\ x.total <= MaxEvidence
            THEN [x EXCEPT !.at = "runs", !.i = @ + 1]
            ELSE [x EXCEPT !.at = "delete", !.todo = x.matched, !.removed = 0]]
       /\ UNCHANGED <<file, hold, left, ledgerRows, touches, unlinked, meddled>>

DeleteNext(p, f) ==
    /\ prune[p].at = "delete" /\ f \in prune[p].todo
    /\ prune' = [prune EXCEPT ![p].todo = @ \ {f}, ![p].file = f, ![p].at = "check"]
    /\ UNCHANGED <<file, hold, left, ledgerRows, touches, unlinked, meddled>>

LeaveRun(x) ==
    [x EXCEPT !.at = "runs", !.i = @ + 1, !.total = Less(@, x.removed),
              !.removed = 0, !.todo = {}, !.file = NoFile]

RunDeleted(p) ==
    /\ prune[p].at = "delete" /\ prune[p].todo = {}
    /\ prune' = [prune EXCEPT ![p] = LeaveRun(@)]
    /\ UNCHANGED <<file, hold, left, ledgerRows, touches, unlinked, meddled>>

\* What the loop makes of the result for one evidence artifact.
AfterEvidence(x, status) ==
    CASE status = "DELETED" -> [x EXCEPT !.at = "delete", !.removed = @ + 1]
      [] status = "MISSING" ->
            LET y == [x EXCEPT !.at = "delete", !.total = Less(@, 1)]
            IN IF ~AgeDue(RunOrder[x.i]) /\ Less(y.total, y.removed) <= MaxEvidence
               THEN LeaveRun(y) ELSE y
      [] OTHER -> LeaveRun([x EXCEPT !.budget = FALSE])

-----------------------------------------------------------------------------
(* Backups, oldest first.                                                  *)

RunsDone(p) ==
    /\ prune[p].at = "runs" /\ prune[p].i > Len(RunOrder)
    /\ prune' = [prune EXCEPT ![p].at = "backups", ![p].i = 1]
    /\ UNCHANGED <<file, hold, left, ledgerRows, touches, unlinked, meddled>>

\* Before each backup every inventoried one is looked at again.
ScanStart(p) ==
    LET x == prune[p]
    IN /\ x.at = "backups" /\ x.i <= Len(BackupOrder)
       /\ prune' = [prune EXCEPT ![p] =
            IF x.inv[BackupOrder[x.i]] = Absent THEN [x EXCEPT !.i = @ + 1]
            ELSE [x EXCEPT !.at = "scan", !.matched = {}, !.changed = FALSE,
                           !.todo = {f \in BackupFiles : x.inv[f] # Absent} \ x.deleted]]
       /\ UNCHANGED <<file, hold, left, ledgerRows, touches, unlinked, meddled>>

Scan(p, f) ==
    LET x == prune[p]
    IN /\ x.at = "scan" /\ f \in x.todo
       /\ prune' = [prune EXCEPT ![p] =
            LET y == [x EXCEPT !.todo = @ \ {f}]
            IN CASE Binding(p, f) = "MATCH" -> [y EXCEPT !.matched = @ \union {f}]
                 [] Binding(p, f) = "MISSING" -> y
                 [] OTHER -> [y EXCEPT !.changed = TRUE]]
       /\ UNCHANGED <<file, hold, left, ledgerRows, touches, unlinked, meddled>>

\* Few enough and small enough, or the last one.
Enough(live) ==
    \/ Cardinality(live) <= KeepBackups /\ Cardinality(live) <= MaxBackupBytes
    \/ Cardinality(live) <= 1

Scanned(p) ==
    LET x == prune[p]
        b == BackupOrder[x.i]
    IN /\ x.at = "scan" /\ x.todo = {}
       /\ prune' = [prune EXCEPT ![p] =
            IF x.changed \/ Enough(x.matched) THEN [x EXCEPT !.at = "ended"]
            ELSE IF b \notin x.matched THEN [x EXCEPT !.at = "backups", !.i = @ + 1]
            ELSE [x EXCEPT !.at = "check", !.file = b]]
       /\ UNCHANGED <<file, hold, left, ledgerRows, touches, unlinked, meddled>>

BackupsDone(p) ==
    /\ prune[p].at = "backups" /\ prune[p].i > Len(BackupOrder)
    /\ prune' = [prune EXCEPT ![p].at = "ended"]
    /\ UNCHANGED <<file, hold, left, ledgerRows, touches, unlinked, meddled>>

AfterBackup(x, status) ==
    IF status \in {"DELETED", "MISSING"}
    THEN [x EXCEPT !.at = "backups", !.i = @ + 1, !.file = NoFile,
                   !.deleted = IF status = "DELETED" THEN @ \union {x.file} ELSE @]
    ELSE [x EXCEPT !.at = "ended", !.file = NoFile]

-----------------------------------------------------------------------------
(* _delete_bound_artifact.                                                 *)

After(x, status) ==
    IF x.file \in BackupFiles THEN AfterBackup(x, status) ELSE AfterEvidence(x, status)

Result(p, status) == prune' = [prune EXCEPT ![p] = After(@, status)]

At(p, step) == prune' = [prune EXCEPT ![p].at = step]

Check(p) ==
    LET status == Binding(p, prune[p].file)
    IN /\ prune[p].at = "check"
       /\ IF status = "MATCH" THEN At(p, "rename") ELSE Result(p, status)
       /\ UNCHANGED <<file, hold, left, ledgerRows, touches, unlinked, meddled>>

\* Whatever is under the name by now goes to quarantine.
Quarantine(p) ==
    LET f == prune[p].file
    IN /\ prune[p].at = "rename"
       /\ IF file[f] = Absent
          THEN Result(p, "MISSING") /\ UNCHANGED <<file, hold, meddled>>
          ELSE /\ hold' = [hold EXCEPT ![p] = [file[f] EXCEPT !.time = @ + 1]]
               /\ file' = [file EXCEPT ![f] = Absent]
               /\ meddled' = [meddled EXCEPT ![p] = FALSE]
               /\ At(p, "post")
       /\ UNCHANGED <<left, ledgerRows, touches, unlinked>>

RenameFails(p) ==
    /\ prune[p].at = "rename"
    /\ Result(p, "FAILED")
    /\ UNCHANGED <<file, hold, left, ledgerRows, touches, unlinked, meddled>>

\* Faulty variant: what was renamed is not looked at again.
AnyAfterQuarantine(p) == TRUE

\* _record_matches_after_quarantine: everything but the change time.
SameAfterQuarantine(p) == hold[p].content = prune[p].inv[prune[p].file].content

Post(p) ==
    /\ prune[p].at = "post"
    /\ prune' = [prune EXCEPT ![p] =
         IF ~SameAfterQuarantine(p) THEN [@ EXCEPT !.at = "restore", !.status = "CHANGED"]
         ELSE IF @.file \in BackupFiles THEN [@ EXCEPT !.at = "survivor"]
         ELSE [@ EXCEPT !.at = "unlink"]]
    /\ UNCHANGED <<file, hold, left, ledgerRows, touches, unlinked, meddled>>

\* Faulty variant: the survivors seen before the rename are trusted.
SurvivorSeen(p) == prune[p].matched \ {prune[p].file} # {}

\* _bound_backup_survivor_exists_at: with this one out of the way, another of
\* the backups just seen still stands unchanged.
SurvivorExists(p) ==
    \E g \in prune[p].matched \ {prune[p].file} : file[g] = prune[p].inv[g]

Survivor(p) ==
    /\ prune[p].at = "survivor"
    /\ prune' = [prune EXCEPT ![p] =
         IF SurvivorExists(p) THEN [@ EXCEPT !.at = "unlink"]
         ELSE [@ EXCEPT !.at = "restore", !.status = "CHANGED"]]
    /\ UNCHANGED <<file, hold, left, ledgerRows, touches, unlinked, meddled>>

Unlink(p) ==
    /\ prune[p].at = "unlink"
    /\ unlinked' = unlinked \union {<<p, prune[p].file, hold[p].content>>}
    /\ hold' = [hold EXCEPT ![p] = Absent]
    /\ Result(p, "DELETED")
    /\ UNCHANGED <<file, left, ledgerRows, touches, meddled>>

\* A file that cannot be unlinked goes back.
UnlinkFails(p) ==
    /\ prune[p].at = "unlink" /\ prune[p].file \notin Trees
    /\ prune' = [prune EXCEPT ![p].at = "restore", ![p].status = "FAILED"]
    /\ UNCHANGED <<file, hold, left, ledgerRows, touches, unlinked, meddled>>

\* A tree that cannot be deleted, or only in part, stays where it is; what went
\* counts as removed.
TreeFails(p, gone) ==
    LET f == prune[p].file
    IN /\ prune[p].at = "unlink" /\ f \in Trees
       /\ left' = left \union {<<f, hold[p].content>>}
       /\ unlinked' = unlinked \union (IF gone > 0 THEN {<<p, f, hold[p].content>>} ELSE {})
       /\ hold' = [hold EXCEPT ![p] = Absent]
       /\ prune' = [prune EXCEPT ![p] =
            AfterEvidence([prune[p] EXCEPT !.removed = @ + gone], "FAILED")]
       /\ UNCHANGED <<file, ledgerRows, touches, meddled>>

\* _restore_quarantine_at: only when the name is free, or it stays quarantined.
Restore(p) ==
    /\ prune[p].at = "restore"
    /\ IF file[prune[p].file] = Absent
       THEN At(p, "putback") /\ UNCHANGED <<hold, left>>
       ELSE /\ left' = left \union {<<prune[p].file, hold[p].content>>}
            /\ hold' = [hold EXCEPT ![p] = Absent]
            /\ Result(p, prune[p].status)
    /\ UNCHANGED <<file, ledgerRows, touches, unlinked, meddled>>

Putback(p) ==
    /\ prune[p].at = "putback"
    /\ file' = [file EXCEPT ![prune[p].file] = [hold[p] EXCEPT !.time = @ + 1]]
    /\ hold' = [hold EXCEPT ![p] = Absent]
    /\ Result(p, prune[p].status)
    /\ UNCHANGED <<left, ledgerRows, touches, unlinked, meddled>>

-----------------------------------------------------------------------------
(* Everybody else.                                                         *)

\* A process dies; what it had quarantined stays under the hidden name.
Dies(p) ==
    /\ prune[p].at \notin {"idle", "ended", "dead"}
    /\ prune' = [prune EXCEPT ![p] = [IdlePrune EXCEPT !.at = "dead"]]
    /\ left' = IF hold[p] = Absent THEN left
               ELSE left \union {<<prune[p].file, hold[p].content>>}
    /\ hold' = [hold EXCEPT ![p] = Absent]
    /\ UNCHANGED <<file, ledgerRows, touches, unlinked, meddled>>

Meddle(f) ==
    meddled' = [p \in Prunes |-> meddled[p] \/ (f \in BackupFiles /\ hold[p] # Absent)]

Rewrite(f) ==
    /\ touches < MaxTouches /\ touches' = touches + 1
    /\ f \in Evidence => run[OwnerOf[f]] # "unclaimed"
    /\ file' = [file EXCEPT ![f] = [content |-> touches + 1, time |-> @.time + 1]]
    /\ Meddle(f)
    /\ UNCHANGED <<hold, left, ledgerRows, prune, unlinked>>

Remove(f) ==
    /\ touches < MaxTouches /\ touches' = touches + 1
    /\ file[f] # Absent
    /\ file' = [file EXCEPT ![f] = Absent]
    /\ Meddle(f)
    /\ UNCHANGED <<hold, left, ledgerRows, prune, unlinked>>

(* The ledger moves on.                                                    *)

\* A task that may be claimed gets its next run.
NextAttempt(r) ==
    /\ run[r] = "unclaimed" /\ task[TaskOf[r]] = "ready"
    /\ run' = [run EXCEPT ![r] = "working"]
    /\ task' = [task EXCEPT ![TaskOf[r]] = "busy"]
    /\ UNCHANGED <<file, hold, left, verifying, revived, prune, touches, unlinked, meddled>>

VerifyReads(r) ==
    /\ run[r] = "working" /\ r \notin verifying
    /\ verifying' = verifying \union {r}
    /\ UNCHANGED <<file, hold, left, run, task, revived, prune, touches, unlinked, meddled>>

\* The outcome is written by the run's id: nothing asks whether the run is over by now.
VerifyWrites(r, passed) ==
    /\ r \in verifying /\ verifying' = verifying \ {r}
    /\ run' = [run EXCEPT ![r] = IF passed THEN "gate" ELSE "over"]
    /\ task' = [task EXCEPT ![TaskOf[r]] = IF passed THEN "gate" ELSE "ready"]
    /\ revived' = IF passed /\ run[r] = "over" THEN revived \union {r} ELSE revived
    /\ UNCHANGED <<file, hold, left, prune, touches, unlinked, meddled>>

\* Aborted, blocked, rejected or published: for a retry or for good.
RunEnds(r, retry) ==
    /\ run[r] \in {"working", "gate"}
    /\ run' = [run EXCEPT ![r] = "over"]
    /\ task' = [task EXCEPT ![TaskOf[r]] = IF retry THEN "ready" ELSE "stopped"]
    /\ UNCHANGED <<file, hold, left, verifying, revived, prune, touches, unlinked, meddled>>

RunMoves(r) ==
    \/ NextAttempt(r) \/ VerifyReads(r)
    \/ \E b \in BOOLEAN : VerifyWrites(r, b) \/ RunEnds(r, b)

PruneStep(p) ==
    \/ InventoryRuns(p) \/ InventoryFiles(p)
    \/ NextRun(p) \/ (\E f \in Evidence : Bind(p, f)) \/ Bound(p)
    \/ (\E f \in Evidence : DeleteNext(p, f)) \/ RunDeleted(p)
    \/ RunsDone(p) \/ ScanStart(p) \/ (\E f \in BackupFiles : Scan(p, f)) \/ Scanned(p)
    \/ BackupsDone(p)
    \/ Check(p) \/ Quarantine(p) \/ RenameFails(p) \/ Post(p) \/ Survivor(p)
    \/ Unlink(p) \/ UnlinkFails(p) \/ (\E gone \in {0, 1} : TreeFails(p, gone))
    \/ Restore(p) \/ Putback(p)

RetentionNext ==
    \/ \E p \in Prunes : PruneStep(p) \/ Dies(p)
    \/ \E f \in Files : Rewrite(f) \/ Remove(f)
    \/ \E r \in EvidenceRuns : RunMoves(r)

RetentionSpec == RetentionInit /\ [][RetentionNext]_retentionVars

-----------------------------------------------------------------------------
(* Properties.                                                             *)

\* Over for good as far as a prune can tell: the run ended, and when its task waits for a
\* gate, that is for another attempt's sake.
Over(r) ==
    /\ run[r] = "over"
    /\ task[TaskOf[r]] = "gate" => \E s \in EvidenceRuns \ {r} : AtGate(s, TaskOf[r])

\* Nobody's newer bytes and nobody's live evidence are deleted: whatever was
\* rewritten, replaced or put back between a prune's inventory and its unlink,
\* the content it deletes, all or in part, is the content it inventoried under that
\* name; and evidence goes only after its run is over, although a prune never looks at
\* the ledger again once it has its inventory.  The exception is a run whose verify
\* passed after the run was over: nothing saves the evidence it is reviewed by.
DeletionsAreSafe ==
    [][/\ RetentionTypeOK'
       /\ \A p \in Prunes, f \in Files, c \in 0..MaxTouches :
            <<p, f, c>> \in unlinked' \ unlinked =>
                /\ prune[p].inv[f].content = c
                /\ f \in Evidence => Over(OwnerOf[f]) \/ OwnerOf[f] \in revived]_retentionVars

\* Backups on disk besides the one p holds: under their own name, in another
\* prune's quarantine, or in one a dead prune left behind.
OtherBackups(p) ==
    {g \in BackupFiles :
        \/ file[g] # Absent
        \/ \E q \in Prunes \ {p} : prune[q].file = g /\ hold[q] # Absent
        \/ \E c \in 0..MaxTouches : <<g, c>> \in left}

\* Prunes never delete the last backup between them.  When an unlink leaves
\* none, somebody else removed or rewrote a backup after this prune's rename.
LastBackupKept ==
    [][\A p \in Prunes, f \in BackupFiles, c \in 0..MaxTouches :
        <<p, f, c>> \in unlinked' \ unlinked =>
            OtherBackups(p) # {} \/ meddled[p]]_retentionVars
=============================================================================

------------------------------- MODULE Backup -------------------------------
(***************************************************************************)
(* Backing up a home, verifying an archive and restoring it.               *)
(* (state.py: backup_state, verify_backup_archive, restore_backup_archive.) *)
(*                                                                         *)
(* A backup is taken from a live home without any lock: the health check,  *)
(* the first census of the operation journal and of the patch executions,  *)
(* the copy of the database, the streaming of every member and the second  *)
(* census are separate steps, and workers claim, record and finish runs    *)
(* between any two of them.  A restore verifies a frozen copy of the       *)
(* archive, freezes it again, and publishes a staged home by one rename.   *)
(*                                                                         *)
(* A run stands for its task too.  A journal intent or execution record is *)
(* the operation it is about: both are written once and never change.      *)
(***************************************************************************)
EXTENDS FiniteSets

CONSTANTS Runs,       \* worker runs
          Ops,        \* patch operations
          RunOf,      \* the run of each operation
          Backups,    \* concurrent calls of backup_state
          Restores,   \* concurrent calls of restore_backup_archive
          None

ASSUME BackupAssumption == RunOf \in [Ops -> Runs]

VARIABLES
    ledger,    \* the database: state of each run
    intents,   \* operation journal files
    execs,     \* patch execution files
    logs,      \* runs with a log file
    backup,    \* one record per backup_state call
    archive,   \* the published archive
    restore,   \* one record per restore call
    home,      \* the restored home
    copied     \* ghost: journal, executions and database when each call copied it

vars == <<ledger, intents, execs, logs, backup, archive, restore, home, copied>>

worker == <<ledger, intents, execs, logs>>

RunStates == {"none", "active", "verified", "closed"}

\* An archive as read back: what it holds, and which part of it is damaged.
Archives == [db : [Runs -> RunStates], intents : SUBSET Ops, execs : SUBSET Ops,
             logs : SUBSET Runs,
             damage : {"none", "file", "database", "member"}]

ASSUME NoneAssumption == None \notin Archives

BackupCalls == [at : {"idle", "journal0", "execs0", "copy", "list", "stream",
                      "journal1", "execs1", "publish", "done", "failed", "dead"},
                journal : SUBSET Ops, execs : SUBSET Ops,
                members : [intents : SUBSET Ops, execs : SUBSET Ops, logs : SUBSET Runs],
                archive : Archives \union {None}]

NoMembers == [intents |-> {}, execs |-> {}, logs |-> {}]

IdleBackup == [at |-> "idle", journal |-> {}, execs |-> {}, members |-> NoMembers,
               archive |-> None]

IdleRestore == [at |-> "idle", verified |-> None, staged |-> None]

TypeOK ==
    /\ ledger \in [Runs -> RunStates]
    /\ intents \subseteq Ops /\ execs \subseteq Ops /\ logs \subseteq Runs
    /\ backup \in [Backups -> BackupCalls]
    /\ archive \in Archives \union {None}
    /\ restore \in [Restores ->
           [at : {"idle", "stage", "health", "publish", "done", "refused", "dead"},
            verified : Archives \union {None}, staged : Archives \union {None}]]
    /\ home \in Archives \union {None}

Init ==
    /\ ledger = [r \in Runs |-> "none"]
    /\ intents = {} /\ execs = {} /\ logs = {}
    /\ backup = [b \in Backups |-> IdleBackup]
    /\ archive = None
    /\ restore = [s \in Restores |-> IdleRestore]
    /\ home = None
    /\ copied = [b \in Backups |-> None]

-----------------------------------------------------------------------------
(* The workers of the live home.                                           *)

others == <<backup, archive, restore, home, copied>>

\* Runs with another writer key may be at work at the same time; which may not is
\* the business of module Ledger and restricts nothing here.
Claim(r) ==
    /\ ledger[r] = "none"
    /\ ledger' = [ledger EXCEPT ![r] = "active"]
    /\ UNCHANGED <<intents, execs, logs, others>>

RecordIntent(o) ==
    /\ ledger[RunOf[o]] = "active" /\ o \notin intents
    /\ intents' = intents \union {o}
    /\ UNCHANGED <<ledger, execs, logs, others>>

RecordExecution(o) ==
    /\ ledger[RunOf[o]] = "active" /\ o \in intents \ execs
    /\ execs' = execs \union {o}
    /\ UNCHANGED <<ledger, intents, logs, others>>

\* The checks leave a log and the run is verified; later it is closed.
Verify(r) ==
    /\ ledger[r] = "active"
    /\ ledger' = [ledger EXCEPT ![r] = "verified"]
    /\ logs' = logs \union {r}
    /\ UNCHANGED <<intents, execs, others>>

CloseRun(r) ==
    /\ ledger[r] \in {"active", "verified"}
    /\ ledger' = [ledger EXCEPT ![r] = "closed"]
    /\ UNCHANGED <<intents, execs, logs, others>>

\* prune_retention removes logs of closed runs.
PruneLog(r) ==
    /\ ledger[r] = "closed" /\ r \in logs
    /\ logs' = logs \ {r}
    /\ UNCHANGED <<ledger, intents, execs, others>>

-----------------------------------------------------------------------------
(* check_state, and the two censuses.                                      *)

\* ACTIVE_RUN_STATES: a verified run holds its writer but is not active.
ActiveRuns(db) == {r \in Runs : db[r] = "active"}

JournalInventory == intents

ExecutionInventory == execs

-----------------------------------------------------------------------------
(* backup_state.                                                           *)

Goes(b, at) == backup' = [backup EXCEPT ![b].at = at]

Fails(b) == Goes(b, "failed")

BackupCheck(b) ==
    /\ backup[b].at = "idle"
    /\ IF ActiveRuns(ledger) = {} THEN Goes(b, "journal0") ELSE Fails(b)
    /\ UNCHANGED <<worker, archive, restore, home, copied>>

FirstJournal(b) ==
    /\ backup[b].at = "journal0"
    /\ backup' = [backup EXCEPT ![b].journal = JournalInventory, ![b].at = "execs0"]
    /\ UNCHANGED <<worker, archive, restore, home, copied>>

FirstExecutions(b) ==
    /\ backup[b].at = "execs0"
    /\ backup' = [backup EXCEPT ![b].execs = ExecutionInventory, ![b].at = "copy"]
    /\ UNCHANGED <<worker, archive, restore, home, copied>>

\* sqlite's own backup: one consistent copy of the database.
CopyDatabase(b) ==
    /\ backup[b].at = "copy"
    /\ backup' = [backup EXCEPT
         ![b].archive = [db |-> ledger, intents |-> {}, execs |-> {}, logs |-> {},
                         damage |-> "none"],
         ![b].at = "list"]
    /\ copied' = [copied EXCEPT ![b] = [db |-> ledger, intents |-> intents, execs |-> execs]]
    /\ UNCHANGED <<worker, archive, restore, home>>

\* _backup_members: the files there are by now, with a census of their own.
ListMembers(b) ==
    /\ backup[b].at = "list"
    /\ backup' = [backup EXCEPT
         ![b].members = [intents |-> JournalInventory, execs |-> ExecutionInventory,
                         logs |-> logs],
         ![b].at = "stream"]
    /\ UNCHANGED <<worker, archive, restore, home, copied>>

\* _stream_backup_member of the journal, the executions and the logs: a member
\* that is gone by then fails the backup.
StreamLog(b, r) ==
    /\ backup[b].at = "stream"
    /\ r \in backup[b].members.logs \ backup[b].archive.logs
    /\ IF r \in logs THEN backup' = [backup EXCEPT ![b].archive.logs = @ \union {r}]
                     ELSE Fails(b)
    /\ UNCHANGED <<worker, archive, restore, home, copied>>

\* What went into the archive must be what the first census saw.
Covered(b) ==
    /\ backup[b].members.intents = backup[b].journal
    /\ backup[b].members.execs = backup[b].execs

StreamRecords(b) ==
    /\ backup[b].at = "stream"
    /\ backup[b].archive.logs = backup[b].members.logs
    /\ IF Covered(b)
       THEN backup' = [backup EXCEPT ![b].archive.intents = backup[b].members.intents,
                                     ![b].archive.execs = backup[b].members.execs,
                                     ![b].at = "journal1"]
       ELSE Fails(b)
    /\ UNCHANGED <<worker, archive, restore, home, copied>>

\* The second census, journal first.
JournalUnchanged(b) == JournalInventory = backup[b].journal

ExecutionsUnchanged(b) == ExecutionInventory = backup[b].execs

\* Faulty variant: a changed journal is streamed again under the old database.
SecondJournalRetries(b) ==
    /\ backup[b].at = "journal1"
    /\ IF JournalUnchanged(b) THEN Goes(b, "execs1")
       ELSE backup' = [backup EXCEPT ![b].journal = JournalInventory,
                                     ![b].execs = ExecutionInventory, ![b].at = "list"]
    /\ UNCHANGED <<worker, archive, restore, home, copied>>

SecondJournal(b) ==
    /\ backup[b].at = "journal1"
    /\ IF JournalUnchanged(b) THEN Goes(b, "execs1") ELSE Fails(b)
    /\ UNCHANGED <<worker, archive, restore, home, copied>>

SecondExecutions(b) ==
    /\ backup[b].at = "execs1"
    /\ IF ExecutionsUnchanged(b) THEN Goes(b, "publish") ELSE Fails(b)
    /\ UNCHANGED <<worker, archive, restore, home, copied>>

\* os.replace of the finished temporary onto the target.
PublishArchive(b) ==
    /\ backup[b].at = "publish"
    /\ archive' = backup[b].archive
    /\ Goes(b, "done")
    /\ UNCHANGED <<worker, restore, home, copied>>

\* The process dies; its temporary is left beside the target.
BackupDies(b) ==
    /\ backup[b].at \notin {"idle", "done", "failed", "dead"}
    /\ Goes(b, "dead")
    /\ UNCHANGED <<worker, archive, restore, home, copied>>

-----------------------------------------------------------------------------
(* verify_backup_archive and restore_backup_archive.                       *)

\* Bytes of the archive rot, or a foreign member is added.
Damage(kind) ==
    /\ archive # None /\ archive.damage = "none"
    /\ archive' = [archive EXCEPT !.damage = kind]
    /\ UNCHANGED <<worker, backup, restore, home, copied>>

\* Every member is one the restore accepts.
MembersRestorable(a) == a.damage # "member"

\* The manifest's file evidence covers exactly the members, digest by digest.
EvidenceMatches(a) == a.damage # "file"

DatabaseMatches(a) == a.damage # "database"

\* Every archived execution record is linked to an archived intent.
ExecutionsLinked(a) == a.execs \subseteq a.intents

Verified(a) ==
    /\ MembersRestorable(a)
    /\ EvidenceMatches(a)
    /\ ExecutionsLinked(a)
    /\ DatabaseMatches(a)

\* check_state of the staged home: no active run, and no run whose capability
\* file the archive left out.
Healthy(a) == ActiveRuns(a.db) = {}

RestoreGoes(s, at) == restore' = [restore EXCEPT ![s].at = at]

\* The archive verifies and the destination does not exist.
RestoreVerify(s) ==
    /\ restore[s].at = "idle" /\ archive # None
    /\ restore' = [restore EXCEPT
         ![s] = IF Verified(archive) /\ home = None
                THEN [at |-> "stage", verified |-> archive, staged |-> None]
                ELSE [IdleRestore EXCEPT !.at = "refused"]]
    /\ UNCHANGED <<worker, backup, archive, home, copied>>

\* Faulty variant: the second copy of the archive is not compared.
AnyDigest(s) == TRUE

\* The archive is frozen a second time and must have the verified digest.
SameDigest(s) == archive = restore[s].verified

RestoreStage(s) ==
    /\ restore[s].at = "stage"
    /\ restore' = [restore EXCEPT
         ![s] = IF SameDigest(s) THEN [@ EXCEPT !.staged = archive, !.at = "health"]
                                 ELSE [@ EXCEPT !.at = "refused"]]
    /\ UNCHANGED <<worker, backup, archive, home, copied>>

RestoreHealth(s) ==
    /\ restore[s].at = "health"
    /\ RestoreGoes(s, IF Healthy(restore[s].staged) THEN "publish" ELSE "refused")
    /\ UNCHANGED <<worker, backup, archive, home, copied>>

\* Faulty variant: the rename replaces whatever is at the destination.
AlwaysPublishable(s) == TRUE

\* os.replace refuses a directory that is not empty.
Publishable(s) == home = None

RestorePublish(s) ==
    /\ restore[s].at = "publish"
    /\ IF Publishable(s)
       THEN home' = restore[s].staged /\ RestoreGoes(s, "done")
       ELSE RestoreGoes(s, "refused") /\ UNCHANGED home
    /\ UNCHANGED <<worker, backup, archive, copied>>

\* The process dies; its staging directory is left beside the destination.
RestoreDies(s) ==
    /\ restore[s].at \in {"stage", "health", "publish"}
    /\ RestoreGoes(s, "dead")
    /\ UNCHANGED <<worker, backup, archive, home, copied>>

-----------------------------------------------------------------------------

Work ==
    \/ \E r \in Runs : Claim(r) \/ Verify(r) \/ CloseRun(r) \/ PruneLog(r)
    \/ \E o \in Ops : RecordIntent(o) \/ RecordExecution(o)

BackupStep(b) ==
    \/ BackupCheck(b) \/ FirstJournal(b) \/ FirstExecutions(b) \/ CopyDatabase(b)
    \/ ListMembers(b) \/ (\E r \in Runs : StreamLog(b, r)) \/ StreamRecords(b)
    \/ SecondJournal(b) \/ SecondExecutions(b) \/ PublishArchive(b)

RestoreStep(s) ==
    RestoreVerify(s) \/ RestoreStage(s) \/ RestoreHealth(s) \/ RestorePublish(s)

Next ==
    \/ Work
    \/ \E b \in Backups : BackupStep(b) \/ BackupDies(b)
    \/ \E kind \in {"file", "database", "member"} : Damage(kind)
    \/ \E s \in Restores : RestoreStep(s) \/ RestoreDies(s)

Spec == Init /\ [][Next]_vars

-----------------------------------------------------------------------------
(* Properties.                                                             *)

\* backup_state reads the database, the journal and the executions at five
\* different times while workers write them; the archive it publishes is
\* nevertheless the state of one instant, the one of the database copy.
ArchiveIsOneInstant ==
    \A b \in Backups : backup[b].at \in {"publish", "done"} =>
        LET a == backup[b].archive
        IN a.db = copied[b].db /\ a.intents = copied[b].intents /\ a.execs = copied[b].execs

\* A restored home is complete and quiet: whatever was damaged, replaced or
\* active between the verification and the rename, the home that appears holds
\* no active run, only linked executions of known runs, and undamaged files.
RestoredHomeIsSound ==
    home # None =>
        /\ home.damage = "none"
        /\ \A r \in Runs : home.db[r] # "active"
        /\ home.execs \subseteq home.intents
        /\ \A o \in home.intents : home.db[RunOf[o]] # "none"

\* Restores race for one destination that none of them holds a lock on: at
\* most one of them reports RESTORED, and the home it published is not replaced
\* by another one's staged copy.
OneRestoreLands ==
    \A s, t \in Restores : restore[s].at = "done" /\ restore[t].at = "done" => s = t
=============================================================================

---------------------------- MODULE BackupProofs ----------------------------
(***************************************************************************)
(* Proofs about Backup, for any runs, operations, backups and restores,    *)
(* and about Retention, for any files, runs and concurrent prunes.         *)
(*                                                                         *)
(* A backup reads the journal at two instants around the copy of the       *)
(* database.  Both files sets only grow, so equal censuses mean that       *)
(* nothing was written between them, the instant of the copy included:     *)
(* that is the inductive core, CallInv.  What a restore publishes is the   *)
(* frozen copy it verified, RestoreInv.                                    *)
(*                                                                         *)
(* A prune acts on an inventory that everybody else may make stale.  What  *)
(* stays true of it is RetentionInv: from the second look on, what it      *)
(* holds is what it inventoried (PruneFits), the runs it took for over     *)
(* stay over or are revived by a late verify (TerminalClosed), a task at a *)
(* gate has a run that waits for it (GateHasRun), and a backup about to be *)
(* unlinked is not the last one unless somebody touched one meanwhile      *)
(* (SpareKept).                                                            *)
(***************************************************************************)
EXTENDS Backup, Retention, FiniteSetTheorems, TLAPS

Copies == [db : [Runs -> RunStates], intents : SUBSET Ops, execs : SUBSET Ops]

\* Every operation recorded belongs to a run the database knows.
Known(db, S) == \A o \in S : db[RunOf[o]] # "none"

JournalTaken == {"execs0", "copy", "list", "stream", "journal1", "execs1", "publish"}
ExecsTaken == JournalTaken \ {"execs0"}
CopyTaken == {"list", "stream", "journal1", "execs1", "publish"}
Written == {"journal1", "execs1", "publish", "done"}

\* What a backup has read so far, against what is there now and what was there
\* when it copied the database.
CallInv(b) ==
    /\ backup[b].at \in JournalTaken => backup[b].journal \subseteq intents
    /\ backup[b].at \in ExecsTaken => backup[b].execs \subseteq execs
    /\ backup[b].at \in CopyTaken =>
          /\ backup[b].journal \subseteq copied[b].intents
          /\ backup[b].execs \subseteq copied[b].execs
          /\ copied[b].intents \subseteq intents
          /\ copied[b].execs \subseteq execs
    /\ backup[b].at \in CopyTaken \cup {"done"} =>
          /\ copied[b] \in Copies
          /\ backup[b].archive \in Archives
          /\ backup[b].archive.db = copied[b].db
          /\ Known(copied[b].db, copied[b].intents)
    /\ backup[b].at \in Written =>
          /\ backup[b].archive.intents = backup[b].journal
          /\ backup[b].archive.execs = backup[b].execs
    /\ backup[b].at \in {"execs1", "publish", "done"} => copied[b].intents = backup[b].journal
    /\ backup[b].at \in {"publish", "done"} => copied[b].execs = backup[b].execs

\* What a restore has frozen, verified and staged.
RestoreInv(s) ==
    /\ restore[s].at \in {"stage", "health", "publish"} =>
          /\ restore[s].verified \in Archives
          /\ Verified(restore[s].verified)
          /\ Known(restore[s].verified.db, restore[s].verified.intents)
    /\ restore[s].at \in {"health", "publish"} => restore[s].staged = restore[s].verified
    /\ restore[s].at = "publish" => Healthy(restore[s].staged)
    /\ restore[s].at = "done" => home # None

LedgerInv == Known(ledger, intents)
ArchiveInv == archive # None => Known(archive.db, archive.intents)

BackupInv ==
    /\ TypeOK
    /\ copied \in [Backups -> Copies \cup {None}]
    /\ LedgerInv
    /\ ArchiveInv
    /\ \A b \in Backups : CallInv(b)
    /\ \A s \in Restores : RestoreInv(s)
    /\ RestoredHomeIsSound
    /\ OneRestoreLands

-----------------------------------------------------------------------------
(* The steps of the proof.                                                 *)

\* The invariant holds before anybody works, backs up or restores.
LEMMA BackupInvInit == Init => BackupInv
  <1> SUFFICES ASSUME Init PROVE BackupInv
    OBVIOUS
  <1>1. TypeOK
    <2>1. IdleBackup \in BackupCalls
      BY DEF IdleBackup, BackupCalls, NoMembers
    <2> QED
      BY <2>1 DEF Init, TypeOK, IdleRestore, RunStates
  <1>2. copied \in [Backups -> Copies \cup {None}]
    BY DEF Init
  <1>3. \A b \in Backups : CallInv(b)
    BY DEF Init, CallInv, IdleBackup, JournalTaken, ExecsTaken, CopyTaken, Written
  <1>4. \A s \in Restores : RestoreInv(s)
    BY DEF Init, RestoreInv, IdleRestore
  <1>5. LedgerInv /\ ArchiveInv /\ RestoredHomeIsSound
    BY DEF Init, LedgerInv, ArchiveInv, RestoredHomeIsSound, Known
  <1>6. OneRestoreLands
    BY DEF Init, OneRestoreLands, IdleRestore
  <1> QED
    BY <1>1, <1>2, <1>3, <1>4, <1>5, <1>6 DEF BackupInv

\* Workers only add records, and never take a run out of the database.
LEMMA WorkGrows ==
    ASSUME TypeOK, LedgerInv, Work
    PROVE  /\ ledger' \in [Runs -> RunStates]
           /\ intents \subseteq intents' /\ intents' \subseteq Ops
           /\ execs \subseteq execs' /\ execs' \subseteq Ops
           /\ logs' \subseteq Runs
           /\ LedgerInv'
           /\ UNCHANGED others
  <1> USE BackupAssumption DEF TypeOK, LedgerInv, Known, RunStates, others
  <1>1. ASSUME NEW r \in Runs, Claim(r) \/ Verify(r) \/ CloseRun(r) \/ PruneLog(r)
        PROVE  /\ ledger' \in [Runs -> RunStates]
               /\ intents' = intents /\ execs' = execs
               /\ logs' \subseteq Runs
               /\ \A q \in Runs : ledger[q] # "none" => ledger'[q] # "none"
               /\ UNCHANGED others
    BY <1>1 DEF Claim, Verify, CloseRun, PruneLog
  <1>2. ASSUME NEW o \in Ops, RecordIntent(o) \/ RecordExecution(o)
        PROVE  /\ ledger' = ledger /\ logs' = logs
               /\ intents \subseteq intents' /\ intents' \subseteq intents \cup {o}
               /\ execs \subseteq execs' /\ execs' \subseteq execs \cup {o}
               /\ ledger[RunOf[o]] # "none"
               /\ UNCHANGED others
    BY <1>2 DEF RecordIntent, RecordExecution
  <1>3. CASE \E r \in Runs : Claim(r) \/ Verify(r) \/ CloseRun(r) \/ PruneLog(r)
    <2>1. PICK r \in Runs : Claim(r) \/ Verify(r) \/ CloseRun(r) \/ PruneLog(r)
      BY <1>3
    <2>2. /\ ledger' \in [Runs -> RunStates]
          /\ intents' = intents /\ execs' = execs
          /\ logs' \subseteq Runs
          /\ \A q \in Runs : ledger[q] # "none" => ledger'[q] # "none"
          /\ UNCHANGED others
      BY <2>1, <1>1
    <2> QED
      BY <2>2
  <1>4. CASE \E o \in Ops : RecordIntent(o) \/ RecordExecution(o)
    <2>1. PICK o \in Ops : RecordIntent(o) \/ RecordExecution(o)
      BY <1>4
    <2>2. /\ ledger' = ledger /\ logs' = logs
          /\ intents \subseteq intents' /\ intents' \subseteq intents \cup {o}
          /\ execs \subseteq execs' /\ execs' \subseteq execs \cup {o}
          /\ ledger[RunOf[o]] # "none"
          /\ UNCHANGED others
      BY <2>1, <1>2
    <2> QED
      BY <2>2
  <1> QED
    BY <1>3, <1>4 DEF Work

LEMMA WorkKeeps == BackupInv /\ Work => BackupInv'
  <1> SUFFICES ASSUME BackupInv, Work PROVE BackupInv'
    OBVIOUS
  <1>1. /\ ledger' \in [Runs -> RunStates]
        /\ intents \subseteq intents' /\ intents' \subseteq Ops
        /\ execs \subseteq execs' /\ execs' \subseteq Ops
        /\ logs' \subseteq Runs
        /\ LedgerInv'
        /\ UNCHANGED <<backup, archive, restore, home, copied>>
    BY WorkGrows DEF BackupInv, others
  <1>2. TypeOK'
    BY <1>1 DEF BackupInv, TypeOK
  <1>3. ASSUME NEW b \in Backups PROVE CallInv(b)'
    <2>1. CallInv(b)
      BY DEF BackupInv
    <2> QED
      BY <1>1, <2>1 DEF CallInv
  <1>4. ASSUME NEW s \in Restores PROVE RestoreInv(s)'
    <2>1. RestoreInv(s)
      BY DEF BackupInv
    <2> QED
      BY <1>1, <2>1 DEF RestoreInv
  <1>5. (ArchiveInv /\ RestoredHomeIsSound /\ OneRestoreLands)'
    BY <1>1 DEF BackupInv, ArchiveInv, RestoredHomeIsSound, OneRestoreLands
  <1> QED
    BY <1>1, <1>2, <1>3, <1>4, <1>5 DEF BackupInv

-----------------------------------------------------------------------------
(* backup_state                                                            *)

\* A step of one backup disturbs nothing but that backup and the archive.
LEMMA CallFrame ==
    ASSUME BackupInv, NEW b \in Backups,
           UNCHANGED <<worker, restore, home>>,
           backup' \in [Backups -> BackupCalls],
           \A c \in Backups \ {b} : backup'[c] = backup[c] /\ copied'[c] = copied[c],
           copied' \in [Backups -> Copies \cup {None}],
           archive' \in Archives \cup {None},
           ArchiveInv',
           CallInv(b)'
    PROVE  BackupInv'
  <1>1. TypeOK' /\ LedgerInv' /\ RestoredHomeIsSound' /\ OneRestoreLands'
    BY DEF BackupInv, TypeOK, LedgerInv, RestoredHomeIsSound, OneRestoreLands, worker
  <1>2. ASSUME NEW c \in Backups PROVE CallInv(c)'
    <2>1. CallInv(c)
      BY DEF BackupInv
    <2>2. CASE c # b
      BY <2>1, <2>2 DEF CallInv, worker
    <2> QED
      BY <2>2
  <1>3. ASSUME NEW s \in Restores PROVE RestoreInv(s)'
    <2>1. RestoreInv(s)
      BY DEF BackupInv
    <2> QED
      BY <2>1 DEF RestoreInv
  <1> QED
    BY <1>1, <1>2, <1>3 DEF BackupInv

\* A backup that fails or dies keeps nothing the invariant speaks of.
LEMMA CallEnds ==
    ASSUME BackupInv, NEW b \in Backups, NEW at \in {"failed", "dead"},
           Goes(b, at), UNCHANGED <<worker, archive, restore, home, copied>>
    PROVE  BackupInv'
  <1>1. backup' \in [Backups -> BackupCalls]
    BY SMTT(30) DEF Goes, BackupInv, TypeOK, BackupCalls
  <1>2. CallInv(b)'
    <2>1. backup'[b].at = at
      BY DEF Goes, BackupInv, TypeOK, BackupCalls
    <2> QED
      BY <2>1 DEF CallInv, JournalTaken, ExecsTaken, CopyTaken, Written
  <1>3. \A c \in Backups \ {b} : backup'[c] = backup[c]
    BY DEF Goes, BackupInv, TypeOK
  <1> QED
    BY <1>1, <1>2, <1>3, CallFrame DEF BackupInv, TypeOK, ArchiveInv

LEMMA BackupStepKeeps ==
    ASSUME BackupInv, NEW b \in Backups, BackupStep(b)
    PROVE  BackupInv'
  <1>1. /\ backup \in [Backups -> BackupCalls] /\ backup[b] \in BackupCalls
        /\ CallInv(b) /\ archive \in Archives \cup {None} /\ ArchiveInv
        /\ copied \in [Backups -> Copies \cup {None}]
        /\ ledger \in [Runs -> RunStates]
        /\ intents \subseteq Ops /\ execs \subseteq Ops /\ logs \subseteq Runs
        /\ LedgerInv
    BY DEF BackupInv, TypeOK
  <1> USE DEF JournalTaken, ExecsTaken, CopyTaken, Written
  <1>2. CASE BackupCheck(b)
    <2>1. CASE Fails(b)
      BY <1>2, <2>1, CallEnds DEF BackupCheck, Fails
    <2>2. CASE Goes(b, "journal0")
      <3>1. /\ backup' \in [Backups -> BackupCalls] /\ backup'[b].at = "journal0"
            /\ \A c \in Backups \ {b} : backup'[c] = backup[c]
        BY <1>1, <2>2 DEF Goes, BackupCalls
      <3>2. CallInv(b)'
        BY <3>1 DEF CallInv
      <3> QED
        BY <1>1, <1>2, <3>1, <3>2, CallFrame DEF BackupCheck, ArchiveInv
    <2> QED
      BY <1>2, <2>1, <2>2 DEF BackupCheck
  <1>3. CASE FirstJournal(b)
    <2>1. /\ backup' \in [Backups -> BackupCalls] /\ backup'[b].at = "execs0"
          /\ backup'[b].journal = intents
          /\ \A c \in Backups \ {b} : backup'[c] = backup[c]
      BY <1>1, <1>3 DEF FirstJournal, BackupCalls, JournalInventory
    <2>2. UNCHANGED <<worker, archive, restore, home, copied>>
      BY <1>3 DEF FirstJournal
    <2>3. CallInv(b)'
      BY <2>1, <2>2 DEF CallInv, worker
    <2> QED
      BY <1>1, <2>1, <2>2, <2>3, CallFrame DEF ArchiveInv
  <1>4. CASE FirstExecutions(b)
    <2>1. /\ backup' \in [Backups -> BackupCalls] /\ backup'[b].at = "copy"
          /\ backup'[b].journal = backup[b].journal /\ backup'[b].execs = execs
          /\ \A c \in Backups \ {b} : backup'[c] = backup[c]
      BY <1>1, <1>4 DEF FirstExecutions, BackupCalls, ExecutionInventory
    <2>2. UNCHANGED <<worker, archive, restore, home, copied>> /\ backup[b].at = "execs0"
      BY <1>4 DEF FirstExecutions
    <2>3. CallInv(b)'
      BY <1>1, <2>1, <2>2 DEF CallInv, worker
    <2> QED
      BY <1>1, <2>1, <2>2, <2>3, CallFrame DEF ArchiveInv
  <1>5. CASE CopyDatabase(b)
    <2> DEFINE a == [db |-> ledger, intents |-> {}, execs |-> {}, logs |-> {},
                     damage |-> "none"]
               now == [db |-> ledger, intents |-> intents, execs |-> execs]
    <2>1. a \in Archives /\ a.db = ledger
      BY <1>1 DEF Archives
    <2>2. now \in Copies /\ now.db = ledger /\ now.intents = intents /\ now.execs = execs
      BY <1>1 DEF Copies
    <2>3. /\ backup' = [backup EXCEPT ![b].archive = a, ![b].at = "list"]
          /\ copied' = [copied EXCEPT ![b] = now]
          /\ UNCHANGED <<worker, archive, restore, home>> /\ backup[b].at = "copy"
      BY <1>5 DEF CopyDatabase
    <2> HIDE DEF a, now
    <2>4. /\ backup' \in [Backups -> BackupCalls] /\ backup'[b].at = "list"
          /\ backup'[b].journal = backup[b].journal /\ backup'[b].execs = backup[b].execs
          /\ backup'[b].archive = a
          /\ \A c \in Backups \ {b} : backup'[c] = backup[c]
      BY <1>1, <2>1, <2>3 DEF BackupCalls
    <2>5. /\ copied' \in [Backups -> Copies \cup {None}] /\ copied'[b] = now
          /\ \A c \in Backups \ {b} : copied'[c] = copied[c]
      BY <1>1, <2>2, <2>3
    <2>6. CallInv(b)'
      BY <1>1, <2>1, <2>2, <2>3, <2>4, <2>5 DEF CallInv, LedgerInv, Known, worker
    <2> QED
      BY <1>1, <2>3, <2>4, <2>5, <2>6, CallFrame DEF ArchiveInv
  <1>6. CASE ListMembers(b)
    <2>1. /\ backup' \in [Backups -> BackupCalls] /\ backup'[b].at = "stream"
          /\ backup'[b].journal = backup[b].journal /\ backup'[b].execs = backup[b].execs
          /\ backup'[b].archive = backup[b].archive
          /\ \A c \in Backups \ {b} : backup'[c] = backup[c]
      BY <1>1, <1>6 DEF ListMembers, BackupCalls, JournalInventory, ExecutionInventory
    <2>2. UNCHANGED <<worker, archive, restore, home, copied>> /\ backup[b].at = "list"
      BY <1>6 DEF ListMembers
    <2>3. CallInv(b)'
      BY <1>1, <2>1, <2>2 DEF CallInv, worker
    <2> QED
      BY <1>1, <2>1, <2>2, <2>3, CallFrame DEF ArchiveInv
  <1>7. ASSUME NEW r \in Runs, StreamLog(b, r) PROVE BackupInv'
    <2>0. UNCHANGED <<worker, archive, restore, home, copied>> /\ backup[b].at = "stream"
      BY <1>7 DEF StreamLog
    <2>1. CASE Fails(b)
      BY <2>0, <2>1, CallEnds DEF Fails
    <2>2. CASE backup' = [backup EXCEPT ![b].archive.logs = @ \union {r}]
      <3>1. backup[b].archive \in Archives
        BY <1>1, <2>0 DEF CallInv
      <3>2. [backup[b].archive EXCEPT !.logs = @ \cup {r}] \in Archives
        BY <3>1 DEF Archives
      <3>3. /\ backup' \in [Backups -> BackupCalls] /\ backup'[b].at = "stream"
            /\ backup'[b].journal = backup[b].journal /\ backup'[b].execs = backup[b].execs
            /\ backup'[b].archive = [backup[b].archive EXCEPT !.logs = @ \cup {r}]
            /\ \A c \in Backups \ {b} : backup'[c] = backup[c]
        BY <1>1, <2>0, <2>2, <3>2 DEF BackupCalls
      <3>4. backup'[b].archive.db = backup[b].archive.db
        BY <3>1, <3>3 DEF Archives
      <3>5. CallInv(b)'
        BY <1>1, <2>0, <3>2, <3>3, <3>4 DEF CallInv, worker
      <3> QED
        BY <1>1, <2>0, <3>3, <3>5, CallFrame DEF ArchiveInv
    <2> QED
      BY <1>7, <2>1, <2>2 DEF StreamLog
  <1>8. CASE StreamRecords(b)
    <2>0. UNCHANGED <<worker, archive, restore, home, copied>> /\ backup[b].at = "stream"
      BY <1>8 DEF StreamRecords
    <2>1. CASE Fails(b)
      BY <2>0, <2>1, CallEnds DEF Fails
    <2>2. CASE ~Fails(b)
      <3> DEFINE a == [backup[b].archive EXCEPT !.intents = backup[b].members.intents,
                                                !.execs = backup[b].members.execs]
      <3>1. backup[b].archive \in Archives
        BY <1>1, <2>0 DEF CallInv
      <3>2. /\ a \in Archives /\ a.db = backup[b].archive.db
            /\ a.intents = backup[b].members.intents /\ a.execs = backup[b].members.execs
        BY <1>1, <3>1 DEF Archives, BackupCalls
      <3>3. /\ backup[b].members.intents = backup[b].journal
            /\ backup[b].members.execs = backup[b].execs
        BY <1>8, <2>2 DEF StreamRecords, Covered
      <3>4. backup' = [backup EXCEPT ![b] = [@ EXCEPT !.archive = a, !.at = "journal1"]]
        BY <1>1, <1>8, <2>2, <3>1 DEF StreamRecords, BackupCalls, Archives
      <3> HIDE DEF a
      <3>5. /\ backup' \in [Backups -> BackupCalls] /\ backup'[b].at = "journal1"
            /\ backup'[b].journal = backup[b].journal /\ backup'[b].execs = backup[b].execs
            /\ backup'[b].archive = a
            /\ \A c \in Backups \ {b} : backup'[c] = backup[c]
        BY <1>1, <3>2, <3>4 DEF BackupCalls
      <3>6. CallInv(b)'
        BY <1>1, <2>0, <3>2, <3>3, <3>5 DEF CallInv, worker
      <3> QED
        BY <1>1, <2>0, <3>5, <3>6, CallFrame DEF ArchiveInv
    <2> QED
      BY <2>1, <2>2
  <1>9. CASE SecondJournal(b)
    <2>0. UNCHANGED <<worker, archive, restore, home, copied>> /\ backup[b].at = "journal1"
      BY <1>9 DEF SecondJournal
    <2>1. CASE Fails(b)
      BY <2>0, <2>1, CallEnds DEF Fails
    <2>2. CASE ~Fails(b)
      <3>1. intents = backup[b].journal /\ Goes(b, "execs1")
        BY <1>9, <2>2 DEF SecondJournal, JournalUnchanged, JournalInventory
      <3>2. /\ backup' \in [Backups -> BackupCalls] /\ backup'[b].at = "execs1"
            /\ backup'[b].journal = backup[b].journal /\ backup'[b].execs = backup[b].execs
            /\ backup'[b].archive = backup[b].archive
            /\ \A c \in Backups \ {b} : backup'[c] = backup[c]
        BY <1>1, <3>1 DEF Goes, BackupCalls
      <3>3. copied[b].intents = backup[b].journal
        BY <1>1, <2>0, <3>1 DEF CallInv
      <3>4. CallInv(b)'
        BY <1>1, <2>0, <3>2, <3>3 DEF CallInv, worker
      <3> QED
        BY <1>1, <2>0, <3>2, <3>4, CallFrame DEF ArchiveInv
    <2> QED
      BY <2>1, <2>2
  <1>10. CASE SecondExecutions(b)
    <2>0. UNCHANGED <<worker, archive, restore, home, copied>> /\ backup[b].at = "execs1"
      BY <1>10 DEF SecondExecutions
    <2>1. CASE Fails(b)
      BY <2>0, <2>1, CallEnds DEF Fails
    <2>2. CASE ~Fails(b)
      <3>1. execs = backup[b].execs /\ Goes(b, "publish")
        BY <1>10, <2>2 DEF SecondExecutions, ExecutionsUnchanged, ExecutionInventory
      <3>2. /\ backup' \in [Backups -> BackupCalls] /\ backup'[b].at = "publish"
            /\ backup'[b].journal = backup[b].journal /\ backup'[b].execs = backup[b].execs
            /\ backup'[b].archive = backup[b].archive
            /\ \A c \in Backups \ {b} : backup'[c] = backup[c]
        BY <1>1, <3>1 DEF Goes, BackupCalls
      <3>3. copied[b].execs = backup[b].execs
        BY <1>1, <2>0, <3>1 DEF CallInv
      <3>4. CallInv(b)'
        BY <1>1, <2>0, <3>2, <3>3 DEF CallInv, worker
      <3> QED
        BY <1>1, <2>0, <3>2, <3>4, CallFrame DEF ArchiveInv
    <2> QED
      BY <2>1, <2>2
  <1>11. CASE PublishArchive(b)
    <2>0. /\ UNCHANGED <<worker, restore, home, copied>> /\ backup[b].at = "publish"
          /\ archive' = backup[b].archive /\ Goes(b, "done")
      BY <1>11 DEF PublishArchive
    <2>1. /\ backup' \in [Backups -> BackupCalls] /\ backup'[b].at = "done"
          /\ backup'[b].journal = backup[b].journal /\ backup'[b].execs = backup[b].execs
          /\ backup'[b].archive = backup[b].archive
          /\ \A c \in Backups \ {b} : backup'[c] = backup[c]
      BY <1>1, <2>0 DEF Goes, BackupCalls
    <2>2. CallInv(b)'
      BY <1>1, <2>0, <2>1 DEF CallInv
    <2>3. archive' \in Archives /\ ArchiveInv'
      BY <1>1, <2>0 DEF CallInv, ArchiveInv
    <2> QED
      BY <1>1, <2>0, <2>1, <2>2, <2>3, CallFrame
  <1> QED
    BY <1>2, <1>3, <1>4, <1>5, <1>6, <1>7, <1>8, <1>9, <1>10, <1>11 DEF BackupStep

-----------------------------------------------------------------------------
(* The archive and restore_backup_archive                                  *)

\* Damage changes no content the invariant speaks of.
LEMMA DamageKeeps ==
    ASSUME BackupInv, NEW kind \in {"file", "database", "member"}, Damage(kind)
    PROVE  BackupInv'
  <1>1. /\ archive \in Archives /\ ArchiveInv
        /\ archive' = [archive EXCEPT !.damage = kind]
        /\ UNCHANGED <<worker, backup, restore, home, copied>>
    BY DEF Damage, BackupInv, TypeOK
  <1>2. archive' \in Archives /\ archive'.db = archive.db /\ archive'.intents = archive.intents
    BY <1>1 DEF Archives
  <1>3. TypeOK' /\ LedgerInv' /\ RestoredHomeIsSound' /\ OneRestoreLands'
    BY <1>1, <1>2 DEF BackupInv, TypeOK, LedgerInv, RestoredHomeIsSound, OneRestoreLands, worker
  <1>4. ArchiveInv'
    BY <1>1, <1>2, NoneAssumption DEF ArchiveInv
  <1>5. \A b \in Backups : CallInv(b)'
    BY <1>1 DEF BackupInv, CallInv, worker
  <1>6. \A s \in Restores : RestoreInv(s)'
    BY <1>1 DEF BackupInv, RestoreInv
  <1> QED
    BY <1>1, <1>3, <1>4, <1>5, <1>6 DEF BackupInv

RestoreCalls ==
    [at : {"idle", "stage", "health", "publish", "done", "refused", "dead"},
     verified : Archives \cup {None}, staged : Archives \cup {None}]

\* A step of one restore that publishes nothing disturbs only that restore.
LEMMA RestoreFrame ==
    ASSUME BackupInv, NEW s \in Restores,
           UNCHANGED <<worker, backup, archive, home, copied>>,
           restore' \in [Restores -> RestoreCalls],
           \A t \in Restores \ {s} : restore'[t] = restore[t],
           restore'[s].at # "done",
           RestoreInv(s)'
    PROVE  BackupInv'
  <1>1. TypeOK' /\ LedgerInv' /\ ArchiveInv' /\ RestoredHomeIsSound'
    BY DEF BackupInv, TypeOK, LedgerInv, ArchiveInv, RestoredHomeIsSound, worker, RestoreCalls
  <1>2. OneRestoreLands'
    BY DEF BackupInv, OneRestoreLands
  <1>3. \A b \in Backups : CallInv(b)'
    BY DEF BackupInv, CallInv, worker
  <1>4. ASSUME NEW t \in Restores PROVE RestoreInv(t)'
    <2>1. RestoreInv(t)
      BY DEF BackupInv
    <2>2. CASE t # s
      BY <2>1, <2>2 DEF RestoreInv
    <2> QED
      BY <2>2
  <1> QED
    BY <1>1, <1>2, <1>3, <1>4 DEF BackupInv

\* A restore that is refused or dies keeps nothing the invariant speaks of.
LEMMA RestoreEnds ==
    ASSUME BackupInv, NEW s \in Restores, NEW at \in {"refused", "dead"},
           RestoreGoes(s, at), UNCHANGED <<worker, backup, archive, home, copied>>
    PROVE  BackupInv'
  <1>1. /\ restore' \in [Restores -> RestoreCalls] /\ restore'[s].at = at
        /\ \A t \in Restores \ {s} : restore'[t] = restore[t]
    BY DEF BackupInv, TypeOK, RestoreGoes, RestoreCalls
  <1>2. RestoreInv(s)'
    BY <1>1 DEF RestoreInv
  <1> QED
    BY <1>1, <1>2, RestoreFrame

LEMMA RestoreStepKeeps ==
    ASSUME BackupInv, NEW s \in Restores, RestoreStep(s)
    PROVE  BackupInv'
  <1>1. /\ restore \in [Restores -> RestoreCalls] /\ restore[s] \in RestoreCalls
        /\ RestoreInv(s) /\ ArchiveInv /\ archive \in Archives \cup {None}
    BY DEF BackupInv, TypeOK, RestoreCalls
  <1>2. CASE RestoreVerify(s)
    <2>0. UNCHANGED <<worker, backup, archive, home, copied>> /\ archive # None
      BY <1>2 DEF RestoreVerify
    <2>1. CASE Verified(archive) /\ home = None
      <3>1. /\ restore' \in [Restores -> RestoreCalls]
            /\ restore'[s] = [at |-> "stage", verified |-> archive, staged |-> None]
            /\ \A t \in Restores \ {s} : restore'[t] = restore[t]
        BY <1>1, <1>2, <2>1 DEF RestoreVerify, RestoreCalls
      <3>2. Known(archive.db, archive.intents)
        BY <1>1, <2>0 DEF ArchiveInv
      <3>3. RestoreInv(s)'
        BY <1>1, <2>0, <2>1, <3>1, <3>2 DEF RestoreInv
      <3> QED
        BY <2>0, <3>1, <3>3, RestoreFrame
    <2>2. CASE ~(Verified(archive) /\ home = None)
      <3>1. /\ restore' \in [Restores -> RestoreCalls] /\ restore'[s].at = "refused"
            /\ \A t \in Restores \ {s} : restore'[t] = restore[t]
        BY <1>1, <1>2, <2>2 DEF RestoreVerify, RestoreCalls, IdleRestore
      <3>2. RestoreInv(s)'
        BY <3>1 DEF RestoreInv
      <3> QED
        BY <2>0, <3>1, <3>2, RestoreFrame
    <2> QED
      BY <2>1, <2>2
  <1>3. CASE RestoreStage(s)
    <2>0. UNCHANGED <<worker, backup, archive, home, copied>> /\ restore[s].at = "stage"
      BY <1>3 DEF RestoreStage
    <2>1. CASE SameDigest(s)
      <3>1. /\ restore' \in [Restores -> RestoreCalls] /\ restore'[s].at = "health"
            /\ restore'[s].staged = archive /\ restore'[s].verified = restore[s].verified
            /\ \A t \in Restores \ {s} : restore'[t] = restore[t]
        BY <1>1, <1>3, <2>1 DEF RestoreStage, RestoreCalls
      <3>2. RestoreInv(s)'
        BY <1>1, <2>0, <2>1, <3>1 DEF RestoreInv, SameDigest
      <3> QED
        BY <2>0, <3>1, <3>2, RestoreFrame
    <2>2. CASE ~SameDigest(s)
      <3>1. /\ restore' \in [Restores -> RestoreCalls] /\ restore'[s].at = "refused"
            /\ \A t \in Restores \ {s} : restore'[t] = restore[t]
        BY <1>1, <1>3, <2>2 DEF RestoreStage, RestoreCalls
      <3>2. RestoreInv(s)'
        BY <3>1 DEF RestoreInv
      <3> QED
        BY <2>0, <3>1, <3>2, RestoreFrame
    <2> QED
      BY <2>1, <2>2
  <1>4. CASE RestoreHealth(s)
    <2>0. UNCHANGED <<worker, backup, archive, home, copied>> /\ restore[s].at = "health"
      BY <1>4 DEF RestoreHealth
    <2>1. CASE Healthy(restore[s].staged)
      <3>1. /\ restore' \in [Restores -> RestoreCalls] /\ restore'[s].at = "publish"
            /\ restore'[s].staged = restore[s].staged
            /\ restore'[s].verified = restore[s].verified
            /\ \A t \in Restores \ {s} : restore'[t] = restore[t]
        BY <1>1, <1>4, <2>1 DEF RestoreHealth, RestoreGoes, RestoreCalls
      <3>2. RestoreInv(s)'
        BY <1>1, <2>0, <2>1, <3>1 DEF RestoreInv
      <3> QED
        BY <2>0, <3>1, <3>2, RestoreFrame
    <2>2. CASE ~Healthy(restore[s].staged)
      BY <1>4, <2>0, <2>2, RestoreEnds DEF RestoreHealth
    <2> QED
      BY <2>1, <2>2
  <1>5. CASE RestorePublish(s)
    <2>0. UNCHANGED <<worker, backup, archive, copied>> /\ restore[s].at = "publish"
      BY <1>5 DEF RestorePublish
    <2>1. CASE home = None
      <3>1. home' = restore[s].staged /\ RestoreGoes(s, "done")
        BY <1>5, <2>1 DEF RestorePublish, Publishable
      <3>2. /\ restore' \in [Restores -> RestoreCalls] /\ restore'[s].at = "done"
            /\ \A t \in Restores \ {s} : restore'[t] = restore[t]
        BY <1>1, <3>1 DEF RestoreGoes, RestoreCalls
      <3>3. /\ home' \in Archives /\ Verified(home') /\ Healthy(home')
            /\ Known(home'.db, home'.intents)
        BY <1>1, <2>0, <3>1 DEF RestoreInv
      <3>4. home' # None
        BY <3>3, NoneAssumption
      <3>5. TypeOK' /\ LedgerInv' /\ ArchiveInv'
        BY <2>0, <3>2, <3>3
           DEF BackupInv, TypeOK, LedgerInv, ArchiveInv, worker, RestoreCalls
      <3>6. RestoredHomeIsSound'
        <4>1. home'.damage = "none"
          BY <3>3 DEF Verified, MembersRestorable, EvidenceMatches, DatabaseMatches, Archives
        <4>2. home'.execs \subseteq home'.intents
          BY <3>3 DEF Verified, ExecutionsLinked
        <4>3. \A r \in Runs : home'.db[r] # "active"
          BY <3>3 DEF Healthy, ActiveRuns
        <4> QED
          BY <3>3, <4>1, <4>2, <4>3 DEF RestoredHomeIsSound, Known
      <3>7. \A t \in Restores : restore[t].at # "done"
        BY <2>1 DEF BackupInv, RestoreInv
      <3>8. OneRestoreLands'
        BY <3>2, <3>7 DEF OneRestoreLands
      <3>9. \A b \in Backups : CallInv(b)'
        BY <2>0 DEF BackupInv, CallInv, worker
      <3>10. ASSUME NEW t \in Restores PROVE RestoreInv(t)'
        <4>1. RestoreInv(t)
          BY DEF BackupInv
        <4>2. CASE t = s
          BY <3>2, <3>4, <4>2 DEF RestoreInv
        <4>3. CASE t # s
          BY <3>2, <3>4, <4>1, <4>3 DEF RestoreInv
        <4> QED
          BY <4>2, <4>3
      <3> QED
        BY <2>0, <3>5, <3>6, <3>8, <3>9, <3>10 DEF BackupInv
    <2>2. CASE home # None
      <3>1. RestoreGoes(s, "refused") /\ home' = home
        BY <1>5, <2>2 DEF RestorePublish, Publishable
      <3> QED
        BY <2>0, <3>1, RestoreEnds
    <2> QED
      BY <2>1, <2>2
  <1> QED
    BY <1>2, <1>3, <1>4, <1>5 DEF RestoreStep

\* Every step of the specification keeps the invariant.
LEMMA BackupInvNext == BackupInv /\ [Next]_vars => BackupInv'
  <1> SUFFICES ASSUME BackupInv, [Next]_vars PROVE BackupInv'
    OBVIOUS
  <1>1. CASE Work
    BY <1>1, WorkKeeps
  <1>2. ASSUME NEW b \in Backups, BackupStep(b) PROVE BackupInv'
    BY <1>2, BackupStepKeeps
  <1>3. ASSUME NEW b \in Backups, BackupDies(b) PROVE BackupInv'
    BY <1>3, CallEnds DEF BackupDies
  <1>4. ASSUME NEW kind \in {"file", "database", "member"}, Damage(kind) PROVE BackupInv'
    BY <1>4, DamageKeeps
  <1>5. ASSUME NEW s \in Restores, RestoreStep(s) PROVE BackupInv'
    BY <1>5, RestoreStepKeeps
  <1>6. ASSUME NEW s \in Restores, RestoreDies(s) PROVE BackupInv'
    BY <1>6, RestoreEnds DEF RestoreDies
  <1>7. CASE UNCHANGED vars
    <2>1. /\ UNCHANGED <<ledger, intents, execs, logs, backup, archive, restore, home, copied>>
      BY <1>7 DEF vars
    <2>2. TypeOK' /\ LedgerInv' /\ ArchiveInv' /\ RestoredHomeIsSound' /\ OneRestoreLands'
      BY <2>1 DEF BackupInv, TypeOK, LedgerInv, ArchiveInv, RestoredHomeIsSound,
                  OneRestoreLands
    <2>3. \A b \in Backups : CallInv(b)'
      BY <2>1 DEF BackupInv, CallInv
    <2>4. \A s \in Restores : RestoreInv(s)'
      BY <2>1 DEF BackupInv, RestoreInv
    <2> QED
      BY <2>1, <2>2, <2>3, <2>4 DEF BackupInv
  <1> QED
    BY <1>1, <1>2, <1>3, <1>4, <1>5, <1>6, <1>7 DEF Next

-----------------------------------------------------------------------------
\* Every variable of backup and restore stays in its type, whatever the number
\* of runs, operations, backups and restores.
THEOREM BackupTypeCorrect == Spec => []TypeOK
  <1>1. BackupInv => TypeOK
    BY DEF BackupInv
  <1> QED
    BY <1>1, BackupInvInit, BackupInvNext, PTL DEF Spec

\* The archive backup_state publishes is the state of the instant at which it
\* copied the database, although it reads the journal, the executions and the
\* database at different times and takes no lock.
THEOREM ArchiveIsOneInstantHolds == Spec => []ArchiveIsOneInstant
  <1>1. BackupInv => ArchiveIsOneInstant
    <2> SUFFICES ASSUME BackupInv, NEW b \in Backups, backup[b].at \in {"publish", "done"}
                 PROVE  /\ backup[b].archive.db = copied[b].db
                        /\ backup[b].archive.intents = copied[b].intents
                        /\ backup[b].archive.execs = copied[b].execs
      BY DEF ArchiveIsOneInstant
    <2>1. CallInv(b)
      BY DEF BackupInv
    <2> QED
      BY <2>1 DEF CallInv, CopyTaken, Written
  <1> QED
    BY <1>1, BackupInvInit, BackupInvNext, PTL DEF Spec

\* The home restore_backup_archive publishes is undamaged, without active runs
\* and with linked records only, whatever happens to the archive between its
\* verification and its extraction.
THEOREM RestoredHomeIsSoundHolds == Spec => []RestoredHomeIsSound
  <1>1. BackupInv => RestoredHomeIsSound
    BY DEF BackupInv
  <1> QED
    BY <1>1, BackupInvInit, BackupInvNext, PTL DEF Spec

\* Of any number of restores into one destination at most one lands.
THEOREM OneRestoreLandsHolds == Spec => []OneRestoreLands
  <1>1. BackupInv => OneRestoreLands
    BY DEF BackupInv
  <1> QED
    BY <1>1, BackupInvInit, BackupInvNext, PTL DEF Spec

-----------------------------------------------------------------------------
(* Retention: pruning of evidence and of backups.                            *)

\* A prune that holds a file under its quarantine name, and one that is about one file.
HoldingSteps == {"post", "survivor", "unlink", "restore", "putback"}
FileSteps == {"check", "rename"} \union HoldingSteps

\* What prune x, with h in quarantine, still relies on from its inventory.
PruneFits(x, h) ==
    /\ x.at \in {"idle", "files"} => x.todo = {} /\ x.matched = {} /\ x.file = NoFile
    /\ x.at \in FileSteps => x.file \in Files
    /\ x.at \in {"bind", "delete"} => x.todo \union x.matched \subseteq Evidence
    /\ x.at = "scan" => x.todo \union x.matched \subseteq BackupFiles
    /\ x.at \in FileSteps /\ x.file \in Evidence => x.todo \union x.matched \subseteq Evidence
    /\ x.at \in FileSteps /\ x.file \in BackupFiles => x.matched \subseteq BackupFiles
    /\ \A f \in (x.todo \union x.matched) \intersect Evidence : OwnerOf[f] \in x.terminal
    /\ x.file \in Evidence => OwnerOf[x.file] \in x.terminal
    /\ \A f \in x.matched : x.inv[f] # Absent
    /\ x.at \in HoldingSteps <=> h # Absent
    /\ x.at \in {"survivor", "unlink"} => h.content = x.inv[x.file].content
    /\ x.at = "survivor" => x.file \in BackupFiles

\* Over, or sent to review by a verify that wrote after the end.
Ended(r) == run[r] = "over" \/ r \in revived

TerminalClosed == \A p \in Prunes : \A r \in prune[p].terminal : Ended(r)

\* A backup that no prune is about to unlink: in place, left behind, or held earlier.
SpareBackup == \E g \in BackupFiles :
    \/ file[g] # Absent
    \/ \E q \in Prunes : prune[q].at \in HoldingSteps \ {"unlink"} /\ prune[q].file = g
    \/ \E c \in 0..MaxTouches : <<g, c>> \in left

\* A task at a gate has an attempt that waits for it.
GateHasRun == \A t \in EvidenceTasks : task[t] = "gate" => \E r \in EvidenceRuns : AtGate(r, t)

SpareKept == \A p \in Prunes :
    prune[p].at = "unlink" /\ prune[p].file \in BackupFiles /\ ~meddled[p] => SpareBackup

RetentionInv ==
    /\ RetentionTypeOK /\ TerminalClosed /\ SpareKept /\ GateHasRun
    /\ \A p \in Prunes : PruneFits(prune[p], hold[p])

LEMMA GateStays == GateHasRun /\ UNCHANGED ledgerRows => GateHasRun'
    BY DEF GateHasRun, AtGate, ledgerRows

LEMMA LessNat == \A n, k \in Nat : Less(n, k) \in Nat
    BY DEF Less

LEMMA AbsentIsNoVersion ==
    /\ Absent \in Versions
    /\ \A v \in Versions : v # Absent => v \in Present
    BY DEF Versions

\* Leaving a run, and what the loops make of the result for one file: nothing is held.
LEMMA LeaveFits ==
    ASSUME NEW x \in PruneCalls, NEW y, y = LeaveRun(x)
    PROVE  /\ y \in PruneCalls /\ y.at = "runs" /\ y.terminal = x.terminal
           /\ y.todo = {} /\ y.matched = x.matched /\ y.file = NoFile /\ y.inv = x.inv
<1>1. x.i \in Nat /\ x.total \in Nat /\ x.removed \in Nat
    BY DEF PruneCalls
<1>2. Less(x.total, x.removed) \in Nat
    BY <1>1, LessNat
<1>3. x.i + 1 \in Nat
    BY <1>1
<1> QED
    BY <1>2, <1>3 DEF LeaveRun, PruneCalls

LEMMA AfterFits ==
    ASSUME NEW x \in PruneCalls, NEW h, PruneFits(x, h), x.at \in FileSteps,
           NEW status \in {"none", "DELETED", "MISSING", "CHANGED", "FAILED"},
           NEW y, y = After(x, status)
    PROVE  /\ y \in PruneCalls /\ PruneFits(y, Absent) /\ y.terminal = x.terminal
           /\ y.at \notin FileSteps
<1>0. x.i \in Nat /\ x.total \in Nat /\ x.removed \in Nat /\ x.deleted \subseteq Files
    BY DEF PruneCalls
<1>1. /\ x.file \in Files /\ x.i + 1 \in Nat /\ x.removed + 1 \in Nat /\ Less(x.total, 1) \in Nat
      /\ x.deleted \union {x.file} \in SUBSET Files
      /\ Evidence \cap BackupFiles = {} /\ NoFile \notin Files
    <2>1. Less(x.total, 1) \in Nat
        BY <1>0, LessNat
    <2>2. x.i + 1 \in Nat
        BY <1>0
    <2>3. x.removed + 1 \in Nat
        BY <1>0
    <2>4. x.file \in Files
        BY DEF PruneFits
    <2> QED
        BY <1>0, <2>1, <2>2, <2>3, <2>4, RetentionAssumption
<1>2. CASE x.file \in BackupFiles
    <2>1. y = AfterBackup(x, status)
        BY <1>2 DEF After
    <2>2. /\ y \in PruneCalls /\ y.at \in {"backups", "ended"} /\ y.file = NoFile
          /\ y.terminal = x.terminal /\ y.todo = x.todo /\ y.matched = x.matched /\ y.inv = x.inv
        <3>1. CASE status = "DELETED"
            <4>1. y = [x EXCEPT !.at = "backups", !.i = x.i + 1, !.file = NoFile,
                            !.deleted = x.deleted \union {x.file}]
                BY <2>1, <3>1 DEF AfterBackup
            <4> QED
                BY <1>1, <4>1 DEF PruneCalls
        <3>2. CASE status = "MISSING"
            <4>1. y = [x EXCEPT !.at = "backups", !.i = x.i + 1, !.file = NoFile]
                BY <2>1, <3>2 DEF AfterBackup
            <4> QED
                BY <1>1, <4>1 DEF PruneCalls
        <3>3. CASE status \notin {"DELETED", "MISSING"}
            <4>1. y = [x EXCEPT !.at = "ended", !.file = NoFile]
                BY <2>1, <3>3 DEF AfterBackup
            <4> QED
                BY <1>1, <4>1 DEF PruneCalls
        <3> QED
            BY <3>1, <3>2, <3>3
    <2> QED
        BY <1>1, <2>2 DEF PruneFits, FileSteps, HoldingSteps, Files
<1>3. CASE x.file \notin BackupFiles
    <2>1. y = AfterEvidence(x, status) /\ x.file \in Evidence
        BY <1>1, <1>3 DEF After, Files
    <2>2. /\ y \in PruneCalls /\ y.at \in {"runs", "delete"} /\ y.terminal = x.terminal
          /\ y.todo \subseteq x.todo /\ y.matched = x.matched /\ y.inv = x.inv
          /\ y.file \in {x.file, NoFile}
        <3>1. CASE status = "DELETED"
            <4>1. y = [x EXCEPT !.at = "delete", !.removed = x.removed + 1]
                BY <2>1, <3>1 DEF AfterEvidence
            <4> QED
                BY <1>1, <4>1 DEF PruneCalls
        <3>2. CASE status = "MISSING"
            <4>1. PICK z : z = [x EXCEPT !.at = "delete", !.total = Less(x.total, 1)]
                OBVIOUS
            <4>2. /\ z \in PruneCalls /\ z.at = "delete" /\ z.terminal = x.terminal
                  /\ z.todo = x.todo /\ z.matched = x.matched /\ z.inv = x.inv /\ z.file = x.file
                BY <1>1, <4>1 DEF PruneCalls
            <4>3. y = z \/ y = LeaveRun(z)
                BY <2>1, <3>2, <4>1 DEF AfterEvidence
            <4> QED
                BY <4>2, <4>3, LeaveFits
        <3>3. CASE status \notin {"DELETED", "MISSING"}
            <4>1. PICK z : z = [x EXCEPT !.budget = FALSE]
                OBVIOUS
            <4>2. /\ z \in PruneCalls /\ z.terminal = x.terminal
                  /\ z.todo = x.todo /\ z.matched = x.matched /\ z.inv = x.inv
                BY <4>1 DEF PruneCalls
            <4>3. y = LeaveRun(z)
                BY <2>1, <3>3, <4>1 DEF AfterEvidence
            <4> QED
                BY <4>2, <4>3, LeaveFits
        <3> QED
            BY <3>1, <3>2, <3>3
    <2> QED
        BY <1>1, <2>1, <2>2 DEF PruneFits, FileSteps, HoldingSteps, Files
<1> QED
    BY <1>2, <1>3

LEMMA RetentionInitFits == RetentionInit => RetentionInv
<1> SUFFICES ASSUME RetentionInit PROVE RetentionInv
    OBVIOUS
<1>1. [content |-> 0, time |-> 0] \in Versions /\ Absent \in Versions /\ MaxTouches \in Nat
    BY RetentionAssumption DEF Versions, Present
<1>2. /\ IdlePrune \in PruneCalls /\ IdlePrune.at = "idle" /\ IdlePrune.terminal = {}
      /\ IdlePrune.todo = {} /\ IdlePrune.matched = {} /\ IdlePrune.file = NoFile
    BY <1>1 DEF IdlePrune, PruneCalls
<1>3. RetentionTypeOK
    BY <1>1, <1>2 DEF RetentionInit, RetentionTypeOK
<1>4. \A p \in Prunes : PruneFits(prune[p], hold[p])
    BY <1>2, RetentionAssumption DEF RetentionInit, PruneFits, FileSteps, HoldingSteps, Files
<1>5. TerminalClosed /\ SpareKept
    BY <1>2 DEF RetentionInit, TerminalClosed, SpareKept
<1> QED
    BY <1>3, <1>4, <1>5 DEF RetentionInv, RetentionInit, GateHasRun

\* A step of one prune that moves no file.
LEMMA PruneGoesOn ==
    ASSUME RetentionInv, NEW p \in Prunes, NEW x, x = prune[p], NEW y \in PruneCalls,
           prune' = [prune EXCEPT ![p] = y],
           UNCHANGED <<file, hold, left, ledgerRows, touches, meddled>>,
           PruneFits(y, hold[p]), \A r \in y.terminal : Ended(r),
           x.at \in HoldingSteps => y.file = x.file,
           y.at = "unlink" /\ y.file \in BackupFiles => \E g \in BackupFiles : file[g] # Absent
    PROVE  RetentionInv'
<1>1. prune'[p] = y /\ \A q \in Prunes \ {p} : prune'[q] = prune[q]
    BY DEF RetentionInv, RetentionTypeOK
<1>2. RetentionTypeOK'
    BY DEF RetentionInv, RetentionTypeOK, ledgerRows
<1>3. TerminalClosed'
    BY <1>1 DEF RetentionInv, TerminalClosed, Ended, ledgerRows
<1>4. \A q \in Prunes : PruneFits(prune'[q], hold'[q])
    BY <1>1 DEF RetentionInv
<1>5. SpareKept'
    <2> SUFFICES ASSUME NEW q \in Prunes, prune'[q].at = "unlink", prune'[q].file \in BackupFiles,
                        ~meddled[q]
                 PROVE  SpareBackup'
        BY DEF SpareKept
    <2>1. CASE \E g \in BackupFiles : file[g] # Absent
        BY <2>1 DEF SpareBackup
    <2>2. CASE ~\E g \in BackupFiles : file[g] # Absent
        <3>1. q # p /\ SpareBackup
            BY <1>1, <2>2 DEF RetentionInv, SpareKept
        <3>2. PICK g \in BackupFiles :
                \/ \E s \in Prunes : prune[s].at \in HoldingSteps \ {"unlink"} /\ prune[s].file = g
                \/ \E c \in 0..MaxTouches : <<g, c>> \in left
            BY <2>2, <3>1 DEF SpareBackup
        <3>3. CASE \E c \in 0..MaxTouches : <<g, c>> \in left
            BY <3>3 DEF SpareBackup
        <3>4. CASE \E s \in Prunes : prune[s].at \in HoldingSteps \ {"unlink"} /\ prune[s].file = g
            <4>1. PICK s \in Prunes : prune[s].at \in HoldingSteps \ {"unlink"} /\ prune[s].file = g
                BY <3>4
            <4>2. CASE s # p
                BY <1>1, <4>1, <4>2 DEF SpareBackup
            <4>3. CASE s = p
                <5>1. y.at \in HoldingSteps /\ y.file = g
                    BY <4>1, <4>3 DEF RetentionInv, PruneFits
                <5>2. y.at # "unlink"
                    BY <2>2, <5>1
                <5> QED
                    BY <1>1, <5>1, <5>2 DEF SpareBackup
            <4> QED
                BY <4>2, <4>3
        <3> QED
            BY <3>2, <3>3, <3>4
    <2> QED
        BY <2>1, <2>2
<1> QED
    BY <1>2, <1>3, <1>4, <1>5, GateStays DEF RetentionInv

\* A step after which a prune holds nothing: what it held was unlinked, put back or left.
LEMMA PruneLetsGo ==
    ASSUME RetentionInv, NEW p \in Prunes, NEW x, x = prune[p], NEW y \in PruneCalls,
           prune' = [prune EXCEPT ![p] = y], hold' = [hold EXCEPT ![p] = Absent],
           UNCHANGED <<ledgerRows, touches, meddled>>,
           PruneFits(y, Absent), \A r \in y.terminal : Ended(r),
           file' \in [Files -> Versions],
           \A g \in BackupFiles : file[g] # Absent => file'[g] # Absent,
           left \subseteq left', left' \subseteq Files \X (0..MaxTouches),
           x.at \in HoldingSteps \ {"unlink"} /\ x.file \in BackupFiles =>
               file'[x.file] # Absent \/ \E c \in 0..MaxTouches : <<x.file, c>> \in left'
    PROVE  RetentionInv'
<1>1. prune'[p] = y /\ \A q \in Prunes \ {p} : prune'[q] = prune[q]
    BY DEF RetentionInv, RetentionTypeOK
<1>2. hold'[p] = Absent /\ \A q \in Prunes \ {p} : hold'[q] = hold[q]
    BY DEF RetentionInv, RetentionTypeOK
<1>3. RetentionTypeOK'
    BY AbsentIsNoVersion DEF RetentionInv, RetentionTypeOK, ledgerRows
<1>4. TerminalClosed'
    BY <1>1 DEF RetentionInv, TerminalClosed, Ended, ledgerRows
<1>5. \A q \in Prunes : PruneFits(prune'[q], hold'[q])
    BY <1>1, <1>2 DEF RetentionInv
<1>6. SpareKept'
    <2> SUFFICES ASSUME NEW q \in Prunes, prune'[q].at = "unlink", prune'[q].file \in BackupFiles,
                        ~meddled[q]
                 PROVE  SpareBackup'
        BY DEF SpareKept
    <2>1. q # p
        <3>1. y.at # "unlink"
            BY DEF PruneFits, HoldingSteps
        <3> QED
            BY <1>1, <3>1
    <2>2. PICK g \in BackupFiles :
            \/ file[g] # Absent
            \/ \E s \in Prunes : prune[s].at \in HoldingSteps \ {"unlink"} /\ prune[s].file = g
            \/ \E c \in 0..MaxTouches : <<g, c>> \in left
        BY <1>1, <2>1 DEF RetentionInv, SpareKept, SpareBackup
    <2>3. CASE file[g] # Absent \/ \E c \in 0..MaxTouches : <<g, c>> \in left
        BY <2>3 DEF SpareBackup
    <2>4. CASE \E s \in Prunes : prune[s].at \in HoldingSteps \ {"unlink"} /\ prune[s].file = g
        <3>1. PICK s \in Prunes : prune[s].at \in HoldingSteps \ {"unlink"} /\ prune[s].file = g
            BY <2>4
        <3>2. CASE s = p
            BY <3>1, <3>2 DEF SpareBackup
        <3>3. CASE s # p
            BY <1>1, <3>1, <3>3 DEF SpareBackup
        <3> QED
            BY <3>2, <3>3
    <2> QED
        BY <2>2, <2>3, <2>4
<1> QED
    BY <1>3, <1>4, <1>5, <1>6, GateStays DEF RetentionInv

\* What a step of a prune on its own state may rely on and has to show.
SameSubject(y, x) == y.terminal = x.terminal /\ y.inv = x.inv /\ y.file = x.file

LEMMA PruneFacts ==
    ASSUME RetentionInv, NEW p \in Prunes, NEW x, x = prune[p]
    PROVE  /\ x \in PruneCalls /\ PruneFits(x, hold[p])
           /\ \A r \in x.terminal : Ended(r)
           /\ hold[p] \in Versions /\ (hold[p] = Absent <=> x.at \notin HoldingSteps)
           /\ x.i + 1 \in Nat /\ Less(x.total, 1) \in Nat
           /\ Evidence \cap BackupFiles = {} /\ NoFile \notin Files
           /\ file \in [Files -> Versions]
<1>1. x \in PruneCalls /\ PruneFits(x, hold[p]) /\ hold[p] \in Versions /\ file \in [Files -> Versions]
    BY DEF RetentionInv, RetentionTypeOK
<1>2. \A r \in x.terminal : Ended(r)
    BY DEF RetentionInv, TerminalClosed
<1>3. x.i \in Nat /\ x.total \in Nat
    BY <1>1 DEF PruneCalls
<1>4. x.i + 1 \in Nat
    BY <1>3
<1>5. Less(x.total, 1) \in Nat
    BY <1>3, LessNat
<1>6. hold[p] = Absent <=> x.at \notin HoldingSteps
    BY <1>1 DEF PruneFits
<1> QED
    BY <1>1, <1>2, <1>4, <1>5, <1>6, RetentionAssumption

\* The inventory.
LEMMA InventorySteps ==
    ASSUME RetentionInv, NEW p \in Prunes, InventoryRuns(p) \/ InventoryFiles(p)
    PROVE  RetentionInv'
<1> SUFFICES ASSUME NEW x, x = prune[p] PROVE RetentionInv'
    OBVIOUS
<1>1. /\ x \in PruneCalls /\ PruneFits(x, hold[p]) /\ \A r \in x.terminal : Ended(r)
      /\ (hold[p] = Absent <=> x.at \notin HoldingSteps) /\ NoFile \notin Files
      /\ file \in [Files -> Versions]
    BY PruneFacts
<1>2. UNCHANGED <<file, hold, left, ledgerRows, touches, meddled>>
    BY DEF InventoryRuns, InventoryFiles
<1>3. x.at \in {"idle", "files"} /\ x.todo = {} /\ x.matched = {} /\ x.file = NoFile
      /\ hold[p] = Absent
    BY <1>1 DEF InventoryRuns, InventoryFiles, PruneFits, HoldingSteps
<1>4. CASE InventoryRuns(p)
    <2>1. PICK y : y = [x EXCEPT !.terminal = Terminal, !.at = "files"]
        OBVIOUS
    <2>2. /\ y \in PruneCalls /\ y.at = "files" /\ y.todo = {} /\ y.matched = {} /\ y.file = NoFile
          /\ y.terminal = Terminal
        BY <1>1, <1>3, <2>1 DEF PruneCalls, Terminal
    <2>3. \A r \in y.terminal : Ended(r)
        BY <2>2 DEF Terminal, Protected, Ended, AttemptStates, RetentionInv, RetentionTypeOK
    <2>4. PruneFits(y, hold[p])
        BY <1>1, <1>3, <2>2 DEF PruneFits, FileSteps, HoldingSteps, Files
    <2>5. prune' = [prune EXCEPT ![p] = y]
        BY <1>4, <2>1 DEF InventoryRuns
    <2> QED
        BY <1>2, <1>3, <2>2, <2>3, <2>4, <2>5, PruneGoesOn DEF HoldingSteps
<1>5. CASE InventoryFiles(p)
    <2>1. PICK n : n = Cardinality({f \in Evidence : file[f] # Absent})
        OBVIOUS
    <2>2. n \in Nat
        BY <2>1, RetentionAssumption, FS_Subset, FS_CardinalityType
    <2>3. PICK y : y = [x EXCEPT !.inv = file, !.total = n, !.at = "runs"]
        OBVIOUS
    <2>4. /\ y \in PruneCalls /\ y.at = "runs" /\ y.todo = {} /\ y.matched = {} /\ y.file = NoFile
          /\ y.terminal = x.terminal
        BY <1>1, <1>3, <2>2, <2>3 DEF PruneCalls
    <2>5. PruneFits(y, hold[p])
        BY <1>1, <1>3, <2>4 DEF PruneFits, FileSteps, HoldingSteps, Files
    <2>6. prune' = [prune EXCEPT ![p] = y]
        BY <1>5, <2>1, <2>3 DEF InventoryFiles
    <2> QED
        BY <1>1, <1>2, <1>3, <2>4, <2>5, <2>6, PruneGoesOn DEF HoldingSteps
<1> QED
    BY <1>4, <1>5

\* The loop over the runs: nothing is held, and what is on the list belongs to a run that
\* was over at the inventory.
LEMMA EvidenceSteps ==
    ASSUME RetentionInv, NEW p \in Prunes,
           \/ NextRun(p) \/ Bound(p) \/ RunDeleted(p) \/ RunsDone(p)
           \/ \E f \in Evidence : Bind(p, f) \/ DeleteNext(p, f)
    PROVE  RetentionInv'
<1> SUFFICES ASSUME NEW x, x = prune[p] PROVE RetentionInv'
    OBVIOUS
<1>1. /\ x \in PruneCalls /\ PruneFits(x, hold[p]) /\ \A r \in x.terminal : Ended(r)
      /\ (hold[p] = Absent <=> x.at \notin HoldingSteps) /\ x.i + 1 \in Nat /\ Less(x.total, 1) \in Nat
      /\ Evidence \cap BackupFiles = {} /\ NoFile \notin Files
    BY SMTT(30), PruneFacts
<1>2. UNCHANGED <<file, hold, left, ledgerRows, touches, meddled>>
    BY DEF NextRun, Bound, RunDeleted, RunsDone, Bind, DeleteNext
<1>3. x.at \in {"runs", "bind", "delete"} /\ hold[p] = Absent
    BY <1>1 DEF NextRun, Bound, RunDeleted, RunsDone, Bind, DeleteNext, HoldingSteps
<1> SUFFICES ASSUME NEW y, prune' = [prune EXCEPT ![p] = y]
             PROVE  y \in PruneCalls /\ PruneFits(y, Absent) /\ y.terminal = x.terminal
    <2>1. \E y : prune' = [prune EXCEPT ![p] = y]
        BY DEF NextRun, Bound, RunDeleted, RunsDone, Bind, DeleteNext
    <2>2. PICK y : prune' = [prune EXCEPT ![p] = y]
        BY <2>1
    <2>3. y \in PruneCalls /\ PruneFits(y, Absent) /\ y.terminal = x.terminal
        BY <2>2
    <2>4. y.at \notin HoldingSteps /\ x.at \notin HoldingSteps
        BY <1>3, <2>3 DEF PruneFits, HoldingSteps
    <2> QED
        BY <1>1, <1>2, <1>3, <2>2, <2>3, <2>4, PruneGoesOn DEF HoldingSteps
<1>4. prune'[p] = y /\ prune \in [Prunes -> PruneCalls]
    BY DEF RetentionInv, RetentionTypeOK
<1>5. CASE NextRun(p)
    <2>1. PICK r : r = RunOrder[x.i]
        OBVIOUS
    <2>2. \/ /\ y = [x EXCEPT !.at = "bind", !.todo = Artifacts(x, r), !.matched = {}, !.changed = FALSE]
             /\ r \in x.terminal
          \/ y = [x EXCEPT !.i = x.i + 1]
        BY <1>4, <1>5, <2>1 DEF NextRun
    <2>3. CASE /\ y = [x EXCEPT !.at = "bind", !.todo = Artifacts(x, r), !.matched = {}, !.changed = FALSE]
               /\ r \in x.terminal
        <3>1. Artifacts(x, r) \in SUBSET Files /\ Artifacts(x, r) \subseteq Evidence
            BY DEF Artifacts, Files
        <3>2. \A f \in Artifacts(x, r) : OwnerOf[f] \in x.terminal
            BY <2>3 DEF Artifacts
        <3>3. /\ y \in PruneCalls /\ y.at = "bind" /\ y.todo = Artifacts(x, r) /\ y.matched = {}
              /\ SameSubject(y, x)
            BY ZenonT(30), <1>1, <2>3, <3>1 DEF PruneCalls, SameSubject
        <3> QED
            BY <1>1, <3>1, <3>2, <3>3 DEF PruneFits, FileSteps, HoldingSteps, SameSubject
    <2>4. CASE y = [x EXCEPT !.i = x.i + 1]
        <3>1. /\ y \in PruneCalls /\ y.at = x.at /\ y.todo = x.todo /\ y.matched = x.matched
              /\ SameSubject(y, x)
            BY <1>1, <2>4 DEF PruneCalls, SameSubject
        <3> QED
            BY <1>1, <1>3, <3>1 DEF PruneFits, FileSteps, HoldingSteps, SameSubject
    <2> QED
        BY <2>2, <2>3, <2>4
<1>6. ASSUME NEW f \in Evidence, Bind(p, f)
      PROVE  y \in PruneCalls /\ PruneFits(y, Absent) /\ y.terminal = x.terminal
    <2>1. PICK z : z = [x EXCEPT !.todo = x.todo \ {f}]
        OBVIOUS
    <2>2. /\ z \in PruneCalls /\ z.at = "bind" /\ z.todo = x.todo \ {f} /\ z.matched = x.matched
          /\ z.total = x.total /\ SameSubject(z, x) /\ f \in x.todo
        BY <1>1, <1>6, <2>1 DEF PruneCalls, SameSubject, Bind
    <2>3. \/ y = [z EXCEPT !.matched = x.matched \union {f}] /\ Binding(p, f) = "MATCH"
          \/ y = [z EXCEPT !.total = Less(x.total, 1)]
          \/ y = [z EXCEPT !.changed = TRUE]
        <3>1. y = CASE Binding(p, f) = "MATCH" -> [z EXCEPT !.matched = z.matched \union {f}]
                    [] Binding(p, f) = "MISSING" -> [z EXCEPT !.total = Less(z.total, 1)]
                    [] OTHER -> [z EXCEPT !.changed = TRUE]
            BY <1>4, <1>6, <2>1 DEF Bind
        <3> QED
            BY <2>2, <3>1
    <2>4. CASE y = [z EXCEPT !.matched = x.matched \union {f}] /\ Binding(p, f) = "MATCH"
        <3>1. f \in Files /\ x.inv[f] # Absent /\ x.matched \union {f} \in SUBSET Files
            BY <1>1, <2>4 DEF Binding, Files, PruneCalls
        <3>2. /\ y \in PruneCalls /\ y.at = "bind" /\ y.todo = x.todo \ {f}
              /\ y.matched = x.matched \union {f} /\ SameSubject(y, x)
            BY <2>2, <2>4, <3>1 DEF PruneCalls, SameSubject
        <3>3. \A g \in y.matched : y.inv[g] # Absent
            BY <1>1, <3>1, <3>2 DEF PruneFits, SameSubject
        <3> QED
            BY <1>1, <1>3, <2>2, <3>2, <3>3, <1>6 DEF PruneFits, FileSteps, HoldingSteps, SameSubject, Bind
    <2>5. CASE y = [z EXCEPT !.total = Less(x.total, 1)] \/ y = [z EXCEPT !.changed = TRUE]
        <3>1. /\ y \in PruneCalls /\ y.at = "bind" /\ y.todo = x.todo \ {f}
              /\ y.matched = x.matched /\ SameSubject(y, x)
            <4>1. CASE y = [z EXCEPT !.total = Less(x.total, 1)]
                BY <1>1, <2>2, <4>1 DEF PruneCalls, SameSubject
            <4>2. CASE y = [z EXCEPT !.changed = TRUE]
                BY <2>2, <4>2 DEF PruneCalls, SameSubject
            <4> QED
                BY <2>5, <4>1, <4>2
        <3> QED
            BY <1>1, <1>3, <1>6, <2>2, <3>1 DEF PruneFits, FileSteps, HoldingSteps, SameSubject, Bind
    <2> QED
        BY <2>3, <2>4, <2>5
<1>7. CASE Bound(p)
    <2>1. \/ y = [x EXCEPT !.budget = FALSE, !.at = "runs", !.i = x.i + 1]
          \/ y = [x EXCEPT !.at = "runs", !.i = x.i + 1]
          \/ y = [x EXCEPT !.at = "delete", !.todo = x.matched, !.removed = 0]
        BY <1>4, <1>7 DEF Bound
    <2>2. /\ y \in PruneCalls /\ y.at \in {"runs", "delete"} /\ y.todo \in {x.todo, x.matched}
          /\ y.matched = x.matched /\ SameSubject(y, x)
        <3>1. CASE y = [x EXCEPT !.budget = FALSE, !.at = "runs", !.i = x.i + 1]
            BY <1>1, <3>1 DEF PruneCalls, SameSubject
        <3>2. CASE y = [x EXCEPT !.at = "runs", !.i = x.i + 1]
            BY <1>1, <3>2 DEF PruneCalls, SameSubject
        <3>3. CASE y = [x EXCEPT !.at = "delete", !.todo = x.matched, !.removed = 0]
            BY <1>1, <3>3 DEF PruneCalls, SameSubject
        <3> QED
            BY <2>1, <3>1, <3>2, <3>3
    <2>3. x.at = "bind"
        BY <1>7 DEF Bound
    <2> QED
        BY <1>1, <2>2, <2>3 DEF PruneFits, FileSteps, HoldingSteps, SameSubject
<1>8. ASSUME NEW f \in Evidence, DeleteNext(p, f)
      PROVE  y \in PruneCalls /\ PruneFits(y, Absent) /\ y.terminal = x.terminal
    <2>1. /\ y = [x EXCEPT !.todo = x.todo \ {f}, !.file = f, !.at = "check"]
          /\ x.at = "delete" /\ f \in x.todo /\ f \in Files
        BY <1>4, <1>8 DEF DeleteNext, Files
    <2>2. /\ y \in PruneCalls /\ y.at = "check" /\ y.todo = x.todo \ {f} /\ y.matched = x.matched
          /\ y.file = f /\ y.terminal = x.terminal /\ y.inv = x.inv
        BY <1>1, <2>1 DEF PruneCalls
    <2> QED
        BY <1>1, <1>8, <2>1, <2>2 DEF PruneFits, FileSteps, HoldingSteps
<1>9. CASE RunDeleted(p)
    <2>1. y = LeaveRun(x)
        BY <1>4, <1>9 DEF RunDeleted
    <2>2. /\ y \in PruneCalls /\ y.at = "runs" /\ y.terminal = x.terminal
          /\ y.todo = {} /\ y.matched = x.matched /\ y.file = NoFile /\ y.inv = x.inv
        BY <1>1, <2>1, LeaveFits
    <2> QED
        BY <1>1, <2>2 DEF PruneFits, FileSteps, HoldingSteps, Files
<1>10. CASE RunsDone(p)
    <2>1. y = [x EXCEPT !.at = "backups", !.i = 1] /\ x.at = "runs"
        BY <1>4, <1>10 DEF RunsDone
    <2>2. /\ y \in PruneCalls /\ y.at = "backups" /\ y.todo = x.todo /\ y.matched = x.matched
          /\ SameSubject(y, x)
        BY <1>1, <2>1 DEF PruneCalls, SameSubject
    <2> QED
        BY <1>1, <2>1, <2>2 DEF PruneFits, FileSteps, HoldingSteps, SameSubject
<1> QED
    BY <1>5, <1>6, <1>7, <1>8, <1>9, <1>10

\* The loop over the backups.
LEMMA BackupLoopSteps ==
    ASSUME RetentionInv, NEW p \in Prunes,
           \/ ScanStart(p) \/ Scanned(p) \/ BackupsDone(p)
           \/ \E f \in BackupFiles : Scan(p, f)
    PROVE  RetentionInv'
<1> SUFFICES ASSUME NEW x, x = prune[p] PROVE RetentionInv'
    OBVIOUS
<1>1. /\ x \in PruneCalls /\ PruneFits(x, hold[p]) /\ \A r \in x.terminal : Ended(r)
      /\ (hold[p] = Absent <=> x.at \notin HoldingSteps) /\ x.i + 1 \in Nat
      /\ Evidence \cap BackupFiles = {} /\ NoFile \notin Files
    BY PruneFacts
<1>2. UNCHANGED <<file, hold, left, ledgerRows, touches, meddled>>
    BY DEF ScanStart, Scanned, BackupsDone, Scan
<1>3. x.at \in {"backups", "scan"} /\ hold[p] = Absent
    BY <1>1 DEF ScanStart, Scanned, BackupsDone, Scan, HoldingSteps
<1> SUFFICES ASSUME NEW y, prune' = [prune EXCEPT ![p] = y]
             PROVE  y \in PruneCalls /\ PruneFits(y, Absent) /\ y.terminal = x.terminal
    <2>1. \E y : prune' = [prune EXCEPT ![p] = y]
        BY DEF ScanStart, Scanned, BackupsDone, Scan
    <2>2. PICK y : prune' = [prune EXCEPT ![p] = y]
        BY <2>1
    <2>3. y \in PruneCalls /\ PruneFits(y, Absent) /\ y.terminal = x.terminal
        BY <2>2
    <2>4. y.at \notin HoldingSteps /\ x.at \notin HoldingSteps
        BY <1>3, <2>3 DEF PruneFits, HoldingSteps
    <2> QED
        BY <1>1, <1>2, <1>3, <2>2, <2>3, <2>4, PruneGoesOn DEF HoldingSteps
<1>4. prune'[p] = y /\ prune \in [Prunes -> PruneCalls]
    BY DEF RetentionInv, RetentionTypeOK
<1>5. CASE ScanStart(p)
    <2>1. PICK todo : todo = {f \in BackupFiles : x.inv[f] # Absent} \ x.deleted
        OBVIOUS
    <2>2. todo \in SUBSET Files /\ todo \subseteq BackupFiles
        BY <2>1 DEF Files
    <2>3. \/ y = [x EXCEPT !.i = x.i + 1]
          \/ y = [x EXCEPT !.at = "scan", !.matched = {}, !.changed = FALSE, !.todo = todo]
        BY <1>4, <1>5, <2>1 DEF ScanStart
    <2>4. CASE y = [x EXCEPT !.i = x.i + 1]
        <3>1. /\ y \in PruneCalls /\ y.at = x.at /\ y.todo = x.todo /\ y.matched = x.matched
              /\ SameSubject(y, x)
            BY <1>1, <2>4 DEF PruneCalls, SameSubject
        <3> QED
            BY <1>1, <1>3, <3>1 DEF PruneFits, FileSteps, HoldingSteps, SameSubject
    <2>5. CASE y = [x EXCEPT !.at = "scan", !.matched = {}, !.changed = FALSE, !.todo = todo]
        <3>1. /\ y \in PruneCalls /\ y.at = "scan" /\ y.todo = todo /\ y.matched = {}
              /\ SameSubject(y, x)
            BY <1>1, <2>2, <2>5 DEF PruneCalls, SameSubject
        <3> QED
            BY <1>1, <2>2, <3>1 DEF PruneFits, FileSteps, HoldingSteps, SameSubject
    <2> QED
        BY <2>3, <2>4, <2>5
<1>6. ASSUME NEW f \in BackupFiles, Scan(p, f)
      PROVE  y \in PruneCalls /\ PruneFits(y, Absent) /\ y.terminal = x.terminal
    <2>1. PICK z : z = [x EXCEPT !.todo = x.todo \ {f}]
        OBVIOUS
    <2>2. /\ z \in PruneCalls /\ z.at = "scan" /\ z.todo = x.todo \ {f} /\ z.matched = x.matched
          /\ SameSubject(z, x) /\ f \in x.todo /\ x.at = "scan"
        BY <1>1, <1>6, <2>1 DEF PruneCalls, SameSubject, Scan
    <2>3. \/ y = [z EXCEPT !.matched = x.matched \union {f}] /\ Binding(p, f) = "MATCH"
          \/ y = z
          \/ y = [z EXCEPT !.changed = TRUE]
        <3>1. y = CASE Binding(p, f) = "MATCH" -> [z EXCEPT !.matched = z.matched \union {f}]
                    [] Binding(p, f) = "MISSING" -> z
                    [] OTHER -> [z EXCEPT !.changed = TRUE]
            BY <1>4, <1>6, <2>1 DEF Scan
        <3> QED
            BY <2>2, <3>1
    <2>4. CASE y = [z EXCEPT !.matched = x.matched \union {f}] /\ Binding(p, f) = "MATCH"
        <3>1. f \in Files /\ x.inv[f] # Absent /\ x.matched \union {f} \in SUBSET Files
            BY <1>1, <2>4 DEF Binding, Files, PruneCalls
        <3>2. /\ y \in PruneCalls /\ y.at = "scan" /\ y.todo = x.todo \ {f}
              /\ y.matched = x.matched \union {f} /\ SameSubject(y, x)
            BY <2>2, <2>4, <3>1 DEF PruneCalls, SameSubject
        <3>3. \A g \in y.matched : y.inv[g] # Absent
            BY <1>1, <3>1, <3>2 DEF PruneFits, SameSubject
        <3> QED
            BY <1>1, <1>3, <2>2, <3>2, <3>3, <1>6 DEF PruneFits, FileSteps, HoldingSteps, SameSubject
    <2>5. CASE y = z \/ y = [z EXCEPT !.changed = TRUE]
        <3>1. /\ y \in PruneCalls /\ y.at = "scan" /\ y.todo = x.todo \ {f}
              /\ y.matched = x.matched /\ SameSubject(y, x)
            <4>1. CASE y = z
                BY <2>2, <4>1
            <4>2. CASE y = [z EXCEPT !.changed = TRUE]
                BY <2>2, <4>2 DEF PruneCalls, SameSubject
            <4> QED
                BY <2>5, <4>1, <4>2
        <3> QED
            BY <1>1, <2>2, <3>1 DEF PruneFits, FileSteps, HoldingSteps, SameSubject
    <2> QED
        BY <2>3, <2>4, <2>5
<1>7. CASE Scanned(p)
    <2>1. PICK b : b = BackupOrder[x.i]
        OBVIOUS
    <2>2. /\ x.at = "scan" /\ x.todo = {}
          /\ \/ y = [x EXCEPT !.at = "ended"]
             \/ y = [x EXCEPT !.at = "backups", !.i = x.i + 1]
             \/ y = [x EXCEPT !.at = "check", !.file = b] /\ b \in x.matched
        BY <1>4, <1>7, <2>1 DEF Scanned
    <2>3. CASE y = [x EXCEPT !.at = "check", !.file = b] /\ b \in x.matched
        <3>1. b \in BackupFiles /\ b \in Files /\ b \notin Evidence
            BY <1>1, <2>2, <2>3 DEF PruneFits, Files
        <3>2. /\ y \in PruneCalls /\ y.at = "check" /\ y.todo = {} /\ y.matched = x.matched
              /\ y.file = b /\ y.terminal = x.terminal /\ y.inv = x.inv
            BY <1>1, <2>2, <2>3, <3>1 DEF PruneCalls
        <3> QED
            BY <1>1, <2>2, <3>1, <3>2 DEF PruneFits, FileSteps, HoldingSteps
    <2>4. CASE y = [x EXCEPT !.at = "ended"] \/ y = [x EXCEPT !.at = "backups", !.i = x.i + 1]
        <3>1. /\ y \in PruneCalls /\ y.at \in {"ended", "backups"} /\ y.todo = x.todo
              /\ y.matched = x.matched /\ SameSubject(y, x)
            <4>1. CASE y = [x EXCEPT !.at = "ended"]
                BY <1>1, <4>1 DEF PruneCalls, SameSubject
            <4>2. CASE y = [x EXCEPT !.at = "backups", !.i = x.i + 1]
                BY <1>1, <4>2 DEF PruneCalls, SameSubject
            <4> QED
                BY <2>4, <4>1, <4>2
        <3> QED
            BY <1>1, <3>1 DEF PruneFits, FileSteps, HoldingSteps, SameSubject
    <2> QED
        BY <2>2, <2>3, <2>4
<1>8. CASE BackupsDone(p)
    <2>1. y = [x EXCEPT !.at = "ended"]
        BY <1>4, <1>8 DEF BackupsDone
    <2>2. /\ y \in PruneCalls /\ y.at = "ended" /\ y.todo = x.todo
          /\ y.matched = x.matched /\ SameSubject(y, x)
        BY <1>1, <2>1 DEF PruneCalls, SameSubject
    <2> QED
        BY <1>1, <2>2 DEF PruneFits, FileSteps, HoldingSteps, SameSubject
<1> QED
    BY <1>5, <1>6, <1>7, <1>8

\* A step of a deletion that only changes where the prune is, or ends with a result before
\* anything was renamed.
LEMMA DeletionGoesOn ==
    ASSUME RetentionInv, NEW p \in Prunes, NEW x, x = prune[p],
           UNCHANGED <<file, hold, left, ledgerRows, touches, meddled>>,
           \/ /\ x.at \in {"check", "rename"}
              /\ \E status \in {"none", "DELETED", "MISSING", "CHANGED", "FAILED"} : Result(p, status)
           \/ /\ x.at = "check" /\ At(p, "rename")
           \/ /\ x.at \in {"post", "survivor", "unlink"}
              /\ \E s \in {"CHANGED", "FAILED"} :
                   prune' = [prune EXCEPT ![p] = [x EXCEPT !.at = "restore", !.status = s]]
           \/ /\ x.at = "restore" /\ At(p, "putback")
           \/ /\ x.at = "post" /\ hold[p].content = x.inv[x.file].content
              /\ x.file \in BackupFiles /\ At(p, "survivor")
           \/ /\ x.at = "post" /\ hold[p].content = x.inv[x.file].content
              /\ x.file \notin BackupFiles /\ At(p, "unlink")
           \/ /\ x.at = "survivor" /\ At(p, "unlink")
              /\ \E g \in BackupFiles : file[g] # Absent
    PROVE  RetentionInv'
<1>1. /\ x \in PruneCalls /\ PruneFits(x, hold[p]) /\ \A r \in x.terminal : Ended(r)
      /\ (hold[p] = Absent <=> x.at \notin HoldingSteps)
    BY PruneFacts
<1>2. ASSUME x.at \in {"check", "rename"},
             NEW status \in {"none", "DELETED", "MISSING", "CHANGED", "FAILED"}, Result(p, status)
      PROVE  RetentionInv'
    <2>1. PICK y : y = After(x, status)
        OBVIOUS
    <2>2. /\ y \in PruneCalls /\ PruneFits(y, Absent) /\ y.terminal = x.terminal
          /\ y.at \notin FileSteps
        BY <1>1, <1>2, <2>1, AfterFits DEF FileSteps
    <2>3. prune' = [prune EXCEPT ![p] = y]
        BY <1>2, <2>1 DEF Result
    <2> QED
        BY <1>1, <1>2, <2>2, <2>3, PruneGoesOn DEF HoldingSteps, FileSteps
<1>3. ASSUME NEW y, y.at \in FileSteps, y.at \in HoldingSteps <=> x.at \in HoldingSteps,
             y \in PruneCalls, x.at \in FileSteps,
             y.todo = x.todo, y.matched = x.matched, SameSubject(y, x),
             prune' = [prune EXCEPT ![p] = y],
             y.at \in {"survivor", "unlink"} => hold[p].content = x.inv[x.file].content,
             y.at = "survivor" => x.file \in BackupFiles,
             y.at = "unlink" /\ x.file \in BackupFiles => \E g \in BackupFiles : file[g] # Absent
      PROVE  RetentionInv'
    <2>1. PruneFits(y, hold[p])
        BY <1>1, <1>3 DEF PruneFits, SameSubject, FileSteps, HoldingSteps
    <2> QED
        BY <1>1, <1>3, <2>1, PruneGoesOn DEF SameSubject
<1>4. ASSUME NEW s \in {"rename", "putback", "survivor", "unlink"}, At(p, s),
             x.at \in FileSteps, s \in HoldingSteps <=> x.at \in HoldingSteps,
             s \in {"survivor", "unlink"} => hold[p].content = x.inv[x.file].content,
             s = "survivor" => x.file \in BackupFiles,
             s = "unlink" /\ x.file \in BackupFiles => \E g \in BackupFiles : file[g] # Absent
      PROVE  RetentionInv'
    <2>1. PICK y : y = [x EXCEPT !.at = s]
        OBVIOUS
    <2>2. /\ y \in PruneCalls /\ y.at = s /\ y.todo = x.todo /\ y.matched = x.matched
          /\ SameSubject(y, x)
        BY <1>1, <2>1 DEF PruneCalls, SameSubject
    <2>3. prune' = [prune EXCEPT ![p] = y]
        BY <1>4, <2>1 DEF At
    <2>4. y.at \in FileSteps
        BY <2>2 DEF FileSteps, HoldingSteps
    <2> QED
        BY <1>3, <1>4, <2>2, <2>3, <2>4
<1>5. ASSUME x.at \in {"post", "survivor", "unlink"}, NEW s \in {"CHANGED", "FAILED"},
             prune' = [prune EXCEPT ![p] = [x EXCEPT !.at = "restore", !.status = s]]
      PROVE  RetentionInv'
    <2>1. PICK y : y = [x EXCEPT !.at = "restore", !.status = s]
        OBVIOUS
    <2>2. /\ y \in PruneCalls /\ y.at = "restore" /\ y.todo = x.todo /\ y.matched = x.matched
          /\ SameSubject(y, x)
        BY <1>1, <2>1 DEF PruneCalls, SameSubject
    <2>3. y.at \in FileSteps /\ y.at \in HoldingSteps /\ x.at \in HoldingSteps /\ x.at \in FileSteps
        BY <1>5, <2>2 DEF FileSteps, HoldingSteps
    <2> QED
        BY <1>3, <1>5, <2>1, <2>2, <2>3
<1>6. "rename" \notin HoldingSteps /\ "check" \notin HoldingSteps
      /\ {"post", "survivor", "unlink", "restore", "putback"} = HoldingSteps
      /\ HoldingSteps \subseteq FileSteps /\ {"check", "rename"} \subseteq FileSteps
    BY DEF FileSteps, HoldingSteps
<1>7. x.at = "survivor" => hold[p].content = x.inv[x.file].content
    BY <1>1 DEF PruneFits
<1> QED
    BY <1>2, <1>4, <1>5, <1>6, <1>7

\* The steps of a deletion after which the quarantine holds nothing any more.
LEMMA QuarantineEmptied ==
    ASSUME RetentionInv, NEW p \in Prunes, NEW x, x = prune[p], x.at \in HoldingSteps,
           NEW y \in PruneCalls, PruneFits(y, Absent), y.terminal = x.terminal,
           prune' = [prune EXCEPT ![p] = y], hold' = [hold EXCEPT ![p] = Absent],
           UNCHANGED <<ledgerRows, touches, meddled>>,
           \/ x.at = "unlink" /\ UNCHANGED <<file, left>>
           \/ file' = file /\ left' = left \union {<<x.file, hold[p].content>>}
           \/ file' = [file EXCEPT ![x.file] = [hold[p] EXCEPT !.time = @ + 1]] /\ left' = left
    PROVE  RetentionInv'
<1>1. /\ x \in PruneCalls /\ PruneFits(x, hold[p]) /\ \A r \in x.terminal : Ended(r)
      /\ (hold[p] = Absent <=> x.at \notin HoldingSteps) /\ hold[p] \in Versions
      /\ file \in [Files -> Versions]
    BY PruneFacts
<1>2. x.file \in Files
    BY <1>1 DEF FileSteps, PruneFits
<1>4. \A r \in y.terminal : Ended(r)
    BY <1>1
<1>6. hold[p] \in Present /\ hold[p].content \in 0..MaxTouches /\ hold[p].time \in Nat
    BY <1>1, AbsentIsNoVersion DEF Present
<1>7. left \subseteq Files \X (0..MaxTouches)
    BY DEF RetentionInv, RetentionTypeOK
<1>8. CASE x.at = "unlink" /\ UNCHANGED <<file, left>>
    BY <1>1, <1>4, <1>7, <1>8, PruneLetsGo
<1>9. CASE file' = file /\ left' = left \union {<<x.file, hold[p].content>>}
    <2>1. left' \subseteq Files \X (0..MaxTouches) /\ <<x.file, hold[p].content>> \in left'
        BY <1>2, <1>6, <1>7, <1>9
    <2> QED
        BY <1>1, <1>4, <1>6, <1>9, <2>1, PruneLetsGo
<1>10. CASE file' = [file EXCEPT ![x.file] = [hold[p] EXCEPT !.time = @ + 1]] /\ left' = left
    <2>1. PICK v : v = [hold[p] EXCEPT !.time = hold[p].time + 1]
        OBVIOUS
    <2>2. hold[p].time + 1 \in Nat /\ hold[p].time + 1 # 0
        BY <1>6
    <2>3. v \in Present /\ v \in Versions
        BY <1>6, <2>1, <2>2 DEF Present, Versions
    <2>4. v # Absent
        BY <1>6, <2>1, <2>2 DEF Absent, Present
    <2>5. file' \in [Files -> Versions] /\ file'[x.file] = v
          /\ \A f \in Files : f # x.file => file'[f] = file[f]
        BY <1>1, <1>2, <1>10, <2>1, <2>3
    <2>6. \A g \in BackupFiles : file[g] # Absent => file'[g] # Absent
        BY <2>4, <2>5 DEF Files
    <2> QED
        BY <1>1, <1>4, <1>7, <1>10, <2>4, <2>5, <2>6, PruneLetsGo
<1> QED
    BY <1>8, <1>9, <1>10

LEMMA DeletionEnds ==
    ASSUME RetentionInv, NEW p \in Prunes, NEW x, x = prune[p], x.at \in HoldingSteps,
           NEW status \in {"none", "DELETED", "MISSING", "CHANGED", "FAILED"}, Result(p, status),
           hold' = [hold EXCEPT ![p] = Absent],
           UNCHANGED <<ledgerRows, touches, meddled>>,
           \/ x.at = "unlink" /\ UNCHANGED <<file, left>>
           \/ file' = file /\ left' = left \union {<<x.file, hold[p].content>>}
           \/ file' = [file EXCEPT ![x.file] = [hold[p] EXCEPT !.time = @ + 1]] /\ left' = left
    PROVE  RetentionInv'
<1>1. x \in PruneCalls /\ PruneFits(x, hold[p])
    BY PruneFacts
<1>2. x.at \in FileSteps
    BY DEF FileSteps
<1>3. PICK y : y = After(x, status)
    OBVIOUS
<1>4. y \in PruneCalls /\ PruneFits(y, Absent) /\ y.terminal = x.terminal
    BY <1>1, <1>2, <1>3, AfterFits
<1>5. prune' = [prune EXCEPT ![p] = y]
    BY <1>3 DEF Result
<1> QED
    BY <1>4, <1>5, QuarantineEmptied

\* A tree deleted in part: the loop goes on from what it counted as removed.
LEMMA TreeFailure ==
    ASSUME RetentionInv, NEW p \in Prunes, NEW gone \in {0, 1}, TreeFails(p, gone)
    PROVE  RetentionInv'
<1> SUFFICES ASSUME NEW x, x = prune[p] PROVE RetentionInv'
    OBVIOUS
<1>1. x \in PruneCalls /\ PruneFits(x, hold[p]) /\ Evidence \cap BackupFiles = {}
    BY PruneFacts
<1>2. /\ x.at = "unlink" /\ x.file \in Trees /\ UNCHANGED <<file, ledgerRows, touches, meddled>>
      /\ left' = left \union {<<x.file, hold[p].content>>} /\ hold' = [hold EXCEPT ![p] = Absent]
    BY DEF TreeFails
<1>3. x.removed \in Nat /\ x.removed + gone \in Nat
    BY <1>1 DEF PruneCalls
<1>4. PICK z : z = [x EXCEPT !.removed = x.removed + gone]
    OBVIOUS
<1>5. z \in PruneCalls /\ PruneFits(z, hold[p]) /\ z.terminal = x.terminal
      /\ z.at = "unlink" /\ z.file \in Trees
    <2>1. /\ z \in PruneCalls /\ z.terminal = x.terminal /\ z.at = x.at /\ z.file = x.file
          /\ z.todo = x.todo /\ z.matched = x.matched /\ z.inv = x.inv
        BY <1>1, <1>3, <1>4 DEF PruneCalls
    <2> QED
        BY <1>1, <1>2, <2>1 DEF PruneFits
<1>6. PICK y : y = After(z, "FAILED")
    OBVIOUS
<1>7. y \in PruneCalls /\ PruneFits(y, Absent) /\ y.terminal = x.terminal
    BY <1>5, <1>6, AfterFits DEF FileSteps, HoldingSteps
<1>8. y = AfterEvidence(z, "FAILED")
    BY <1>1, <1>5, <1>6, RetentionAssumption DEF After
<1>9. prune' = [prune EXCEPT ![p] = y]
    <2>1. prune' = [prune EXCEPT ![p] =
            AfterEvidence([prune[p] EXCEPT !.removed = @ + gone], "FAILED")]
        BY DEF TreeFails
    <2> QED
        BY <1>4, <1>8, <2>1
<1> QED
    BY <1>2, <1>7, <1>9, QuarantineEmptied DEF HoldingSteps

\* Putting a file under its quarantine name: the name is free from here on, and
\* a backup that other prunes relied on is now the one this prune holds.
LEMMA QuarantineMoves ==
    ASSUME RetentionInv, NEW p \in Prunes, Quarantine(p), file[prune[p].file] # Absent
    PROVE  RetentionInv'
<1> SUFFICES ASSUME NEW x, x = prune[p], NEW f, f = x.file PROVE RetentionInv'
    OBVIOUS
<1>1. /\ x \in PruneCalls /\ PruneFits(x, hold[p]) /\ \A r \in x.terminal : Ended(r)
      /\ file \in [Files -> Versions] /\ Evidence \cap BackupFiles = {} /\ NoFile \notin Files
    BY PruneFacts
<1>2. x.at = "rename" /\ f \in Files
    BY <1>1 DEF Quarantine, PruneFits, FileSteps
<1>3. file[f] \in Present /\ file[f].time \in Nat
    BY <1>1, <1>2, AbsentIsNoVersion DEF Present
<1>4. PICK v : v = [file[f] EXCEPT !.time = file[f].time + 1]
    OBVIOUS
<1>5. file[f].time + 1 \in Nat /\ file[f].time + 1 # 0
    BY <1>3
<1>6. v \in Versions /\ v # Absent
    BY <1>3, <1>4, <1>5 DEF Present, Versions, Absent
<1>7. PICK y : y = [x EXCEPT !.at = "post"]
    OBVIOUS
<1>8. /\ y \in PruneCalls /\ y.at = "post" /\ y.todo = x.todo /\ y.matched = x.matched
      /\ SameSubject(y, x)
    BY <1>1, <1>7 DEF PruneCalls, SameSubject
<1>9. PruneFits(y, v)
    BY <1>1, <1>2, <1>6, <1>8 DEF PruneFits, SameSubject, FileSteps, HoldingSteps
<1>10. /\ prune' = [prune EXCEPT ![p] = y] /\ hold' = [hold EXCEPT ![p] = v]
       /\ file' = [file EXCEPT ![f] = Absent] /\ meddled' = [meddled EXCEPT ![p] = FALSE]
       /\ UNCHANGED <<left, ledgerRows, touches>>
    BY <1>4, <1>7 DEF Quarantine, At
<1>11. /\ prune'[p] = y /\ \A q \in Prunes \ {p} : prune'[q] = prune[q]
       /\ hold'[p] = v /\ \A q \in Prunes \ {p} : hold'[q] = hold[q]
       /\ \A q \in Prunes \ {p} : meddled'[q] = meddled[q]
       /\ \A g \in Files : g # f => file'[g] = file[g]
    BY <1>10 DEF RetentionInv, RetentionTypeOK
<1>12. RetentionTypeOK'
    BY <1>6, <1>8, <1>10, AbsentIsNoVersion DEF RetentionInv, RetentionTypeOK, ledgerRows
<1>13. TerminalClosed'
    BY <1>1, <1>8, <1>10, <1>11 DEF RetentionInv, TerminalClosed, SameSubject, Ended, ledgerRows
<1>14. \A q \in Prunes : PruneFits(prune'[q], hold'[q])
    BY <1>9, <1>11 DEF RetentionInv
<1>15. SpareKept'
    <2> SUFFICES ASSUME NEW q \in Prunes, prune'[q].at = "unlink", prune'[q].file \in BackupFiles,
                        ~meddled'[q]
                 PROVE  SpareBackup'
        BY DEF SpareKept
    <2>1. q # p
        BY <1>8, <1>11
    <2>2. PICK g \in BackupFiles :
            \/ file[g] # Absent
            \/ \E s \in Prunes : prune[s].at \in HoldingSteps \ {"unlink"} /\ prune[s].file = g
            \/ \E c \in 0..MaxTouches : <<g, c>> \in left
        BY <1>11, <2>1 DEF RetentionInv, SpareKept, SpareBackup
    <2>3. CASE g = f
        <3>1. prune'[p].at \in HoldingSteps \ {"unlink"} /\ prune'[p].file = g
            BY <1>8, <1>11, <2>3 DEF SameSubject, HoldingSteps
        <3> QED
            BY <3>1 DEF SpareBackup
    <2>4. CASE g # f /\ file[g] # Absent
        BY <1>11, <2>4 DEF SpareBackup, Files
    <2>5. CASE \E c \in 0..MaxTouches : <<g, c>> \in left
        BY <1>10, <2>5 DEF SpareBackup
    <2>6. CASE \E s \in Prunes : prune[s].at \in HoldingSteps \ {"unlink"} /\ prune[s].file = g
        <3>1. PICK s \in Prunes : prune[s].at \in HoldingSteps \ {"unlink"} /\ prune[s].file = g
            BY <2>6
        <3>2. s # p
            BY <1>2, <3>1 DEF HoldingSteps
        <3> QED
            BY <1>11, <3>1, <3>2 DEF SpareBackup
    <2> QED
        BY <2>2, <2>3, <2>4, <2>5, <2>6
<1> QED
    BY <1>10, <1>12, <1>13, <1>14, <1>15, GateStays DEF RetentionInv

\* _delete_bound_artifact, every step of it.
LEMMA DeletionSteps ==
    ASSUME RetentionInv, NEW p \in Prunes,
           \/ Check(p) \/ Quarantine(p) \/ RenameFails(p) \/ Post(p) \/ Survivor(p)
           \/ Unlink(p) \/ UnlinkFails(p) \/ Restore(p) \/ Putback(p)
    PROVE  RetentionInv'
<1> SUFFICES ASSUME NEW x, x = prune[p] PROVE RetentionInv'
    OBVIOUS
<1>1. x \in PruneCalls /\ PruneFits(x, hold[p]) /\ prune \in [Prunes -> PruneCalls]
    BY PruneFacts DEF RetentionInv, RetentionTypeOK
<1>2. x.status \in {"none", "CHANGED", "FAILED"}
    BY SMTT(30), <1>1 DEF PruneCalls
<1>3. CASE Check(p)
    <2>1. /\ x.at = "check" /\ UNCHANGED <<file, hold, left, ledgerRows, touches, meddled>>
          /\ \/ At(p, "rename")
             \/ \E status \in {"none", "DELETED", "MISSING", "CHANGED", "FAILED"} : Result(p, status)
        BY <1>3 DEF Check, Binding
    <2> QED
        BY <2>1, DeletionGoesOn
<1>4. CASE Quarantine(p)
    <2>1. CASE file[x.file] # Absent
        BY SMTT(30), <1>4, <2>1, QuarantineMoves
    <2>2. CASE file[x.file] = Absent
        <3>1. /\ x.at = "rename" /\ UNCHANGED <<file, hold, left, ledgerRows, touches, meddled>>
              /\ Result(p, "MISSING")
            BY SMTT(30), <1>4, <2>2 DEF Quarantine
        <3> QED
            BY <3>1, DeletionGoesOn
    <2> QED
        BY <2>1, <2>2
<1>5. CASE RenameFails(p)
    <2>1. /\ x.at = "rename" /\ UNCHANGED <<file, hold, left, ledgerRows, touches, meddled>>
          /\ Result(p, "FAILED")
        BY SMTT(30), <1>5 DEF RenameFails
    <2> QED
        BY <2>1, DeletionGoesOn
<1>6. CASE Post(p)
    <2>1. x.at = "post" /\ UNCHANGED <<file, hold, left, ledgerRows, touches, meddled>>
        BY <1>6 DEF Post
    <2>2. \/ prune' = [prune EXCEPT ![p] = [x EXCEPT !.at = "restore", !.status = "CHANGED"]]
          \/ /\ hold[p].content = x.inv[x.file].content
             /\ \/ x.file \in BackupFiles /\ prune' = [prune EXCEPT ![p] = [x EXCEPT !.at = "survivor"]]
                \/ x.file \notin BackupFiles /\ prune' = [prune EXCEPT ![p] = [x EXCEPT !.at = "unlink"]]
        BY <1>6 DEF Post, SameAfterQuarantine
    <2> QED
        BY <2>1, <2>2, DeletionGoesOn DEF At
<1>7. CASE Survivor(p)
    <2>1. x.at = "survivor" /\ UNCHANGED <<file, hold, left, ledgerRows, touches, meddled>>
        BY <1>7 DEF Survivor
    <2>2. CASE ~SurvivorExists(p)
        <3>1. prune' = [prune EXCEPT ![p] = [x EXCEPT !.at = "restore", !.status = "CHANGED"]]
            BY SMTT(30), <1>7, <2>2 DEF Survivor
        <3> QED
            BY <2>1, <3>1, DeletionGoesOn
    <2>3. CASE SurvivorExists(p)
        <3>1. PICK g \in x.matched \ {x.file} : file[g] = x.inv[g]
            BY <2>3 DEF SurvivorExists
        <3>2. g \in BackupFiles /\ x.inv[g] # Absent
            BY <1>1, <2>1, <3>1 DEF PruneFits, FileSteps, HoldingSteps
        <3>3. At(p, "unlink")
            BY <1>7, <2>3 DEF Survivor, At
        <3> QED
            BY <2>1, <3>1, <3>2, <3>3, DeletionGoesOn
    <2> QED
        BY <2>2, <2>3
<1>8. CASE Unlink(p)
    <2>1. /\ x.at = "unlink" /\ UNCHANGED <<file, left, ledgerRows, touches, meddled>>
          /\ hold' = [hold EXCEPT ![p] = Absent] /\ Result(p, "DELETED")
        BY <1>8 DEF Unlink
    <2> QED
        BY <2>1, DeletionEnds DEF HoldingSteps
<1>9. CASE UnlinkFails(p)
    <2>1. /\ x.at = "unlink" /\ UNCHANGED <<file, hold, left, ledgerRows, touches, meddled>>
          /\ prune' = [prune EXCEPT ![p].at = "restore", ![p].status = "FAILED"]
        BY <1>9 DEF UnlinkFails
    <2>2. prune' = [prune EXCEPT ![p] = [x EXCEPT !.at = "restore", !.status = "FAILED"]]
        BY <1>1, <2>1
    <2> QED
        BY <2>1, <2>2, DeletionGoesOn
<1>10. CASE Restore(p)
    <2>1. x.at = "restore" /\ UNCHANGED <<file, ledgerRows, touches, meddled>>
        BY <1>10 DEF Restore
    <2>2. CASE file[x.file] = Absent
        <3>1. At(p, "putback") /\ UNCHANGED <<hold, left>>
            BY <1>10, <2>2 DEF Restore
        <3> QED
            BY <2>1, <3>1, DeletionGoesOn
    <2>3. CASE file[x.file] # Absent
        <3>1. /\ left' = left \union {<<x.file, hold[p].content>>}
              /\ hold' = [hold EXCEPT ![p] = Absent] /\ Result(p, x.status)
            BY <1>10, <2>3 DEF Restore
        <3> QED
            BY <1>2, <2>1, <3>1, DeletionEnds DEF HoldingSteps
    <2> QED
        BY <2>2, <2>3
<1>11. CASE Putback(p)
    <2>1. /\ x.at = "putback" /\ UNCHANGED <<left, ledgerRows, touches, meddled>>
          /\ file' = [file EXCEPT ![x.file] = [hold[p] EXCEPT !.time = @ + 1]]
          /\ hold' = [hold EXCEPT ![p] = Absent] /\ Result(p, x.status)
        BY <1>11 DEF Putback
    <2> QED
        BY <1>2, <2>1, DeletionEnds DEF HoldingSteps
<1> QED
    BY <1>3, <1>4, <1>5, <1>6, <1>7, <1>8, <1>9, <1>10, <1>11

\* A prune dies: what it held is left behind under the hidden name.
LEMMA DeathStep ==
    ASSUME RetentionInv, NEW p \in Prunes, Dies(p)
    PROVE  RetentionInv'
<1> SUFFICES ASSUME NEW x, x = prune[p] PROVE RetentionInv'
    OBVIOUS
<1>1. /\ x \in PruneCalls /\ PruneFits(x, hold[p])
      /\ (hold[p] = Absent <=> x.at \notin HoldingSteps) /\ hold[p] \in Versions
      /\ file \in [Files -> Versions] /\ NoFile \notin Files
    BY PruneFacts
<1>2. PICK y : y = [IdlePrune EXCEPT !.at = "dead"]
    OBVIOUS
<1>3. /\ y \in PruneCalls /\ y.at = "dead" /\ y.terminal = {} /\ y.todo = {} /\ y.matched = {}
      /\ y.file = NoFile
    BY <1>2, AbsentIsNoVersion DEF IdlePrune, PruneCalls
<1>4. PruneFits(y, Absent)
    BY <1>1, <1>3 DEF PruneFits, FileSteps, HoldingSteps, Files
<1>5. /\ prune' = [prune EXCEPT ![p] = y] /\ hold' = [hold EXCEPT ![p] = Absent]
      /\ UNCHANGED <<file, ledgerRows, touches, meddled>>
    BY <1>2 DEF Dies
<1>6. left \subseteq Files \X (0..MaxTouches)
    BY DEF RetentionInv, RetentionTypeOK
<1>7. CASE hold[p] = Absent
    <2>1. left' = left /\ x.at \notin HoldingSteps
        BY <1>1, <1>7 DEF Dies
    <2> QED
        BY <1>1, <1>3, <1>4, <1>5, <1>6, <2>1, PruneLetsGo
<1>8. CASE hold[p] # Absent
    <2>1. x.file \in Files
        BY <1>1, <1>8 DEF PruneFits, FileSteps
    <2>2. hold[p].content \in 0..MaxTouches
        BY <1>1, <1>8, AbsentIsNoVersion DEF Present
    <2>3. left' = left \union {<<x.file, hold[p].content>>}
        BY <1>8 DEF Dies
    <2>4. left' \subseteq Files \X (0..MaxTouches) /\ <<x.file, hold[p].content>> \in left'
        BY <1>6, <2>1, <2>2, <2>3
    <2> QED
        BY <1>1, <1>3, <1>4, <1>5, <2>2, <2>3, <2>4, PruneLetsGo
<1> QED
    BY <1>7, <1>8

\* Somebody else rewrites or removes a file: every prune that holds a backup
\* then knows of it, in meddled.
LEMMA MeddlingSteps ==
    ASSUME RetentionInv, NEW f \in Files, Rewrite(f) \/ Remove(f)
    PROVE  RetentionInv'
<1>1. /\ UNCHANGED <<hold, left, ledgerRows, prune>> /\ Meddle(f)
      /\ touches < MaxTouches /\ touches' = touches + 1
    BY DEF Rewrite, Remove
<1>2. touches \in 0..MaxTouches /\ MaxTouches \in Nat /\ file \in [Files -> Versions]
      /\ meddled \in [Prunes -> BOOLEAN]
    BY RetentionAssumption DEF RetentionInv, RetentionTypeOK
<1>3. touches' \in 0..MaxTouches
    BY <1>1, <1>2
<1>4. PICK v : file' = [file EXCEPT ![f] = v] /\ v \in Versions
    <2>1. CASE Rewrite(f)
        <3>1. file[f].time \in Nat
            <4>1. file[f] \in Versions
                BY <1>2
            <4> QED
                BY <4>1 DEF Versions, Present, Absent
        <3>2. PICK w : w = [content |-> touches + 1, time |-> file[f].time + 1]
            OBVIOUS
        <3>3. touches + 1 \in 0..MaxTouches
            BY <1>1, <1>3
        <3>4. file[f].time + 1 \in Nat
            BY <3>1
        <3>5. w \in Versions
            BY <3>2, <3>3, <3>4 DEF Versions, Present
        <3>6. file' = [file EXCEPT ![f] = w]
            BY <2>1, <3>2 DEF Rewrite
        <3> QED
            BY <3>5, <3>6
    <2>2. CASE Remove(f)
        BY <2>2, AbsentIsNoVersion DEF Remove
    <2> QED
        BY <2>1, <2>2
<1>5. meddled' \in [Prunes -> BOOLEAN]
      /\ \A q \in Prunes : meddled'[q] <=> (meddled[q] \/ (f \in BackupFiles /\ hold[q] # Absent))
    BY <1>1, <1>2 DEF Meddle
<1>6. RetentionTypeOK'
    BY <1>1, <1>2, <1>3, <1>4, <1>5 DEF RetentionInv, RetentionTypeOK, ledgerRows
<1>7. TerminalClosed' /\ \A q \in Prunes : PruneFits(prune'[q], hold'[q])
    BY <1>1 DEF RetentionInv, TerminalClosed, Ended, ledgerRows
<1>8. SpareKept'
    <2> SUFFICES ASSUME NEW q \in Prunes, prune[q].at = "unlink", prune[q].file \in BackupFiles,
                        ~meddled'[q]
                 PROVE  SpareBackup'
        BY <1>1 DEF SpareKept
    <2>1. hold[q] # Absent
        BY DEF RetentionInv, PruneFits, HoldingSteps
    <2>2. f \notin BackupFiles /\ ~meddled[q]
        BY <1>5, <2>1
    <2>3. SpareBackup
        BY <2>2 DEF RetentionInv, SpareKept
    <2>4. \A g \in BackupFiles : file'[g] = file[g]
        BY <1>2, <1>4, <2>2 DEF Files
    <2> QED
        BY <1>1, <2>3, <2>4 DEF SpareBackup
<1> QED
    BY <1>1, <1>6, <1>7, <1>8, GateStays DEF RetentionInv

\* The ledger moves on: a run that is over stays over or is revived, and who takes a
\* task to a gate waits for it.
LEMMA LedgerMoves ==
    ASSUME RetentionInv, NEW r \in EvidenceRuns, RunMoves(r)
    PROVE  RetentionInv'
<1>1. PICK t : t = TaskOf[r]
    OBVIOUS
<1>2. t \in EvidenceTasks /\ run \in [EvidenceRuns -> AttemptStates]
      /\ task \in [EvidenceTasks -> TaskStates]
      /\ verifying \subseteq EvidenceRuns /\ revived \subseteq EvidenceRuns
    BY <1>1 DEF EvidenceTasks, RetentionInv, RetentionTypeOK
<1>3. UNCHANGED <<file, hold, left, prune, touches, meddled>>
    BY DEF RunMoves, NextAttempt, VerifyReads, VerifyWrites, RunEnds
<1>4. /\ verifying' \subseteq EvidenceRuns /\ revived' \subseteq EvidenceRuns
      /\ revived \subseteq revived'
    BY <1>2 DEF RunMoves, NextAttempt, VerifyReads, VerifyWrites, RunEnds
<1>5. \/ UNCHANGED <<run, task>>
      \/ \E a \in AttemptStates, b \in TaskStates :
            /\ run' = [run EXCEPT ![r] = a] /\ task' = [task EXCEPT ![t] = b]
            /\ run[r] = "over" => a = "over" \/ r \in revived'
            /\ b = "gate" => a = "gate"
    <2>1. CASE NextAttempt(r)
        BY <1>1, <2>1 DEF NextAttempt, AttemptStates, TaskStates
    <2>2. CASE VerifyReads(r)
        BY <2>2 DEF VerifyReads
    <2>3. ASSUME NEW b \in BOOLEAN, VerifyWrites(r, b)
          PROVE  \E c \in AttemptStates, d \in TaskStates :
            /\ run' = [run EXCEPT ![r] = c] /\ task' = [task EXCEPT ![t] = d]
            /\ run[r] = "over" => c = "over" \/ r \in revived'
            /\ d = "gate" => c = "gate"
        <3>1. CASE b
            BY <1>1, <2>3, <3>1 DEF VerifyWrites, AttemptStates, TaskStates
        <3>2. CASE ~b
            BY <1>1, <2>3, <3>2 DEF VerifyWrites, AttemptStates, TaskStates
        <3> QED
            BY <2>3, <3>1, <3>2
    <2>4. ASSUME NEW b \in BOOLEAN, RunEnds(r, b)
          PROVE  \E c \in AttemptStates, d \in TaskStates :
            /\ run' = [run EXCEPT ![r] = c] /\ task' = [task EXCEPT ![t] = d]
            /\ run[r] = "over" => c = "over" \/ r \in revived'
            /\ d = "gate" => c = "gate"
        <3>1. CASE b
            BY <1>1, <2>4, <3>1 DEF RunEnds, AttemptStates, TaskStates
        <3>2. CASE ~b
            BY <1>1, <2>4, <3>2 DEF RunEnds, AttemptStates, TaskStates
        <3> QED
            BY <2>4, <3>1, <3>2
    <2> QED
        BY <2>1, <2>2, <2>3, <2>4 DEF RunMoves
<1>6. run' \in [EvidenceRuns -> AttemptStates] /\ task' \in [EvidenceTasks -> TaskStates]
    BY <1>2, <1>5
<1>7. RetentionTypeOK'
    BY <1>3, <1>4, <1>6 DEF RetentionInv, RetentionTypeOK
<1>8. \A q \in EvidenceRuns : Ended(q) => Ended(q)'
    BY <1>2, <1>4, <1>5 DEF Ended
<1>9. \A p \in Prunes : prune[p].terminal \subseteq EvidenceRuns
    BY DEF RetentionInv, RetentionTypeOK, PruneCalls
<1>10. TerminalClosed'
    BY <1>3, <1>8, <1>9 DEF RetentionInv, TerminalClosed
<1>11. SpareKept' /\ \A q \in Prunes : PruneFits(prune'[q], hold'[q])
    BY <1>3 DEF RetentionInv, SpareKept, SpareBackup
<1>12. GateHasRun'
    <2> SUFFICES ASSUME NEW u \in EvidenceTasks, task'[u] = "gate"
                 PROVE  \E q \in EvidenceRuns : AtGate(q, u)'
        BY DEF GateHasRun
    <2>1. CASE UNCHANGED <<run, task>>
        BY <2>1 DEF RetentionInv, GateHasRun, AtGate
    <2>2. ASSUME NEW a \in AttemptStates, NEW b \in TaskStates,
                 run' = [run EXCEPT ![r] = a], task' = [task EXCEPT ![t] = b],
                 b = "gate" => a = "gate"
          PROVE  \E q \in EvidenceRuns : AtGate(q, u)'
        <3>1. CASE u = t
            <4>1. AtGate(r, u)'
                BY <1>1, <1>2, <2>2, <3>1 DEF AtGate
            <4> QED
                BY <4>1
        <3>2. CASE u # t
            <4>1. PICK q \in EvidenceRuns : AtGate(q, u)
                BY <1>2, <2>2, <3>2 DEF RetentionInv, GateHasRun
            <4>2. q # r
                BY <1>1, <3>2, <4>1 DEF AtGate
            <4>3. AtGate(q, u)'
                BY <1>2, <2>2, <4>1, <4>2 DEF AtGate
            <4> QED
                BY <4>3
        <3> QED
            BY <3>1, <3>2
    <2> QED
        BY <1>5, <2>1, <2>2
<1> QED
    BY <1>7, <1>10, <1>11, <1>12 DEF RetentionInv

\* The inductive step.
LEMMA RetentionStep == RetentionInv /\ [RetentionNext]_retentionVars => RetentionInv'
<1> SUFFICES ASSUME RetentionInv, [RetentionNext]_retentionVars PROVE RetentionInv'
    OBVIOUS
<1>1. ASSUME NEW p \in Prunes, PruneStep(p) PROVE RetentionInv'
    <2>1. CASE InventoryRuns(p) \/ InventoryFiles(p)
        BY <2>1, InventorySteps
    <2>2. CASE \/ NextRun(p) \/ (\E f \in Evidence : Bind(p, f)) \/ Bound(p)
               \/ (\E f \in Evidence : DeleteNext(p, f)) \/ RunDeleted(p) \/ RunsDone(p)
        BY <2>2, EvidenceSteps
    <2>3. CASE \/ ScanStart(p) \/ (\E f \in BackupFiles : Scan(p, f)) \/ Scanned(p)
               \/ BackupsDone(p)
        BY <2>3, BackupLoopSteps
    <2>4. CASE \/ Check(p) \/ Quarantine(p) \/ RenameFails(p) \/ Post(p) \/ Survivor(p)
               \/ Unlink(p) \/ UnlinkFails(p) \/ Restore(p) \/ Putback(p)
        BY <2>4, DeletionSteps
    <2>5. CASE \E gone \in {0, 1} : TreeFails(p, gone)
        BY <2>5, TreeFailure
    <2> QED
        BY <1>1, <2>1, <2>2, <2>3, <2>4, <2>5 DEF PruneStep
<1>2. ASSUME NEW p \in Prunes, Dies(p) PROVE RetentionInv'
    BY <1>2, DeathStep
<1>3. ASSUME NEW f \in Files, Rewrite(f) \/ Remove(f) PROVE RetentionInv'
    BY <1>3, MeddlingSteps
<1>4. ASSUME NEW r \in EvidenceRuns, RunMoves(r) PROVE RetentionInv'
    BY <1>4, LedgerMoves
<1>5. CASE UNCHANGED retentionVars
    <2>1. RetentionTypeOK'
        BY <1>5 DEF RetentionInv, RetentionTypeOK, retentionVars, ledgerRows
    <2>2. GateHasRun'
        BY <1>5, GateStays DEF RetentionInv, retentionVars
    <2>3. TerminalClosed' /\ SpareKept' /\ \A q \in Prunes : PruneFits(prune'[q], hold'[q])
        BY <1>5 DEF RetentionInv, TerminalClosed, Ended, SpareKept, SpareBackup, retentionVars,
            ledgerRows
    <2> QED
        BY <2>1, <2>2, <2>3 DEF RetentionInv
<1> QED
    BY <1>1, <1>2, <1>3, <1>4, <1>5 DEF RetentionNext

\* A prune deletes only what it holds: an unlink all of it, a deletion of a tree that
\* fails a part.
LEMMA OnlyPrunesDelete ==
    ASSUME [RetentionNext]_retentionVars, NEW p \in Prunes, NEW f, NEW c,
           <<p, f, c>> \in unlinked' \ unlinked
    PROVE  /\ Unlink(p) \/ \E gone \in {0, 1} : TreeFails(p, gone)
           /\ f = prune[p].file /\ c = hold[p].content
<1>1. CASE \E q \in Prunes : Unlink(q) \/ \E gone \in {0, 1} : TreeFails(q, gone)
    <2>1. PICK q \in Prunes : Unlink(q) \/ \E gone \in {0, 1} : TreeFails(q, gone)
        BY <1>1
    <2>2. unlinked' \subseteq unlinked \union {<<q, prune[q].file, hold[q].content>>}
        BY <2>1 DEF Unlink, TreeFails
    <2>3. <<p, f, c>> = <<q, prune[q].file, hold[q].content>>
        BY <2>2
    <2> QED
        BY <2>1, <2>3
<1>2. CASE ~\E q \in Prunes : Unlink(q) \/ \E gone \in {0, 1} : TreeFails(q, gone)
    <2>1. ASSUME NEW q \in Prunes, PruneStep(q) PROVE unlinked' = unlinked
        <3>1. CASE InventoryRuns(q) \/ InventoryFiles(q) \/ NextRun(q) \/ Bound(q) \/ RunDeleted(q)
            BY <3>1 DEF InventoryRuns, InventoryFiles, NextRun, Bound, RunDeleted
        <3>2. CASE \E g \in Evidence : Bind(q, g) \/ DeleteNext(q, g)
            BY <3>2 DEF Bind, DeleteNext
        <3>3. CASE RunsDone(q) \/ ScanStart(q) \/ Scanned(q) \/ BackupsDone(q)
            BY <3>3 DEF RunsDone, ScanStart, Scanned, BackupsDone
        <3>4. CASE \E g \in BackupFiles : Scan(q, g)
            BY <3>4 DEF Scan
        <3>5. CASE Check(q) \/ Quarantine(q) \/ RenameFails(q) \/ Post(q) \/ Survivor(q)
            BY <3>5 DEF Check, Quarantine, RenameFails, Post, Survivor
        <3>6. CASE UnlinkFails(q) \/ Restore(q) \/ Putback(q)
            BY <3>6 DEF UnlinkFails, Restore, Putback
        <3> QED
            BY <1>2, <2>1, <3>1, <3>2, <3>3, <3>4, <3>5, <3>6 DEF PruneStep
    <2>2. ASSUME NEW r \in EvidenceRuns, RunMoves(r) PROVE unlinked' = unlinked
        BY <2>2 DEF RunMoves, NextAttempt, VerifyReads, VerifyWrites, RunEnds
    <2>3. unlinked' = unlinked
        BY <2>1, <2>2 DEF RetentionNext, Dies, Rewrite, Remove, retentionVars
    <2> QED
        BY <2>3
<1> QED
    BY <1>1, <1>2

\* What a prune deletes, all or in part, is what it inventoried, and evidence only of a
\* run that is over or was revived by a verify that wrote after its end: of
\* _delete_bound_artifact and the terminal runs of the inventory, however many prunes,
\* workers and operators touch the files and the ledger in between.
THEOREM DeletionsAreSafeHolds == RetentionSpec => DeletionsAreSafe
<1>1. RetentionInv /\ [RetentionNext]_retentionVars =>
        /\ RetentionTypeOK'
        /\ \A p \in Prunes, f \in Files, c \in 0..MaxTouches :
             <<p, f, c>> \in unlinked' \ unlinked =>
                 /\ prune[p].inv[f].content = c
                 /\ f \in Evidence => Over(OwnerOf[f]) \/ OwnerOf[f] \in revived
    <2> SUFFICES ASSUME RetentionInv, [RetentionNext]_retentionVars
                 PROVE  /\ RetentionTypeOK'
                        /\ \A p \in Prunes, f \in Files, c \in 0..MaxTouches :
                             <<p, f, c>> \in unlinked' \ unlinked =>
                                 /\ prune[p].inv[f].content = c
                                 /\ f \in Evidence => Over(OwnerOf[f]) \/ OwnerOf[f] \in revived
        OBVIOUS
    <2>1. RetentionTypeOK'
        BY RetentionStep DEF RetentionInv
    <2>2. ASSUME NEW p \in Prunes, NEW f \in Files, NEW c \in 0..MaxTouches,
                 <<p, f, c>> \in unlinked' \ unlinked
          PROVE  /\ prune[p].inv[f].content = c
                 /\ f \in Evidence => Over(OwnerOf[f]) \/ OwnerOf[f] \in revived
        <3>1. /\ prune[p].at = "unlink" /\ f = prune[p].file /\ c = hold[p].content
            BY <2>2, OnlyPrunesDelete DEF Unlink, TreeFails
        <3>2. PruneFits(prune[p], hold[p]) /\ \A r \in prune[p].terminal : Ended(r)
            BY DEF RetentionInv, TerminalClosed
        <3>3. prune[p].inv[f].content = c /\ (f \in Evidence => Ended(OwnerOf[f]))
            BY <3>1, <3>2 DEF PruneFits
        <3>4. ASSUME NEW r \in EvidenceRuns, run[r] = "over" PROVE Over(r)
            <4>1. TaskOf[r] \in EvidenceTasks
                BY DEF EvidenceTasks
            <4> QED
                BY <3>4, <4>1 DEF Over, RetentionInv, GateHasRun, AtGate
        <3>5. f \in Evidence => OwnerOf[f] \in EvidenceRuns
            BY RetentionAssumption
        <3> QED
            BY <3>3, <3>4, <3>5 DEF Ended
    <2> QED
        BY <2>1, <2>2
<1> QED
    BY <1>1, RetentionInitFits, RetentionStep, PTL DEF RetentionSpec, DeletionsAreSafe

\* Prunes together leave a backup, unless somebody else removed or rewrote one
\* behind the quarantining prune's back: of _bound_backup_survivor_exists_at
\* and of what a prune that stops leaves under the hidden names.
THEOREM LastBackupKeptHolds == RetentionSpec => LastBackupKept
<1>1. RetentionInv /\ [RetentionNext]_retentionVars =>
        \A p \in Prunes, f \in BackupFiles, c \in 0..MaxTouches :
            <<p, f, c>> \in unlinked' \ unlinked => OtherBackups(p) # {} \/ meddled[p]
    <2> SUFFICES ASSUME RetentionInv, [RetentionNext]_retentionVars,
                        NEW p \in Prunes, NEW f \in BackupFiles, NEW c \in 0..MaxTouches,
                        <<p, f, c>> \in unlinked' \ unlinked, ~meddled[p]
                 PROVE  OtherBackups(p) # {}
        OBVIOUS
    <2>1. prune[p].at = "unlink" /\ f = prune[p].file
        BY OnlyPrunesDelete DEF Unlink, TreeFails
    <2>2. SpareBackup
        BY <2>1 DEF RetentionInv, SpareKept
    <2>3. PICK g \in BackupFiles :
            \/ file[g] # Absent
            \/ \E q \in Prunes : prune[q].at \in HoldingSteps \ {"unlink"} /\ prune[q].file = g
            \/ \E d \in 0..MaxTouches : <<g, d>> \in left
        BY <2>2 DEF SpareBackup
    <2>4. \A q \in Prunes : prune[q].at \in HoldingSteps => hold[q] # Absent
        BY DEF RetentionInv, PruneFits
    <2>5. g \in OtherBackups(p)
        BY <2>1, <2>3, <2>4 DEF OtherBackups
    <2> QED
        BY <2>5
<1> QED
    BY <1>1, RetentionInitFits, RetentionStep, PTL DEF RetentionSpec, LastBackupKept
=============================================================================

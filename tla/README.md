# OrchKit in TLA+

OrchKit is a control plane for AI workers on one machine: an SQLite ledger of
tasks and runs, capability files that let a worker edit a workspace, checks,
reviews and approvals bound to snapshots, journalled Git publication, and a
local bridge through which a worker patches files and starts processes.
This directory holds TLA+ models of the parts that carry its promises, TLC
configurations that check them on small instances, and TLAPS proofs of the most
important properties for all instances. `PROJECT.json` lists every run, mutant,
mapped source line, finding, hazard and theorem.

## Inventory of the system

| part (src/orch) | state it keeps | operations | what makes it correct |
|---|---|---|---|
| ledger: core.py | tables plans, tasks, runs, snapshots, approvals, settings, events; capability files | load_plan, claim (ordinary, repair), submit, quiesce, verify, import_review, approve, complete, abort, pause/resume, cancel, readmit | one writer per key; tables agree; a gate covers exactly the bytes that are completed; closed runs stay closed |
| publication: core.py | journal row per run; Git index, branch, remote | publish, reconcile_publication | at most one commit lands; COMPLETE means published; every crash can be resumed |
| file patch: bridge_file_patch.py, bridge_patch_execution.py, bridge_operation_journal.py, bridge_patch_intent.py | intent journal; dispatch, publication and result records; scratch file; flock | apply, reconcile, require_execution_resolved | an id is applied at most once; receipts are true; a closed run has no effect in flight |
| owned processes: bridge_process*.py | dispatch and exit evidence in SQLite, the child, output ring | start, poll, terminate, supervise | no run is closed with a process unaccounted for |
| worker lifecycle: bridge_worker_lifecycle.py | grants and operation records | create/revoke grant, claim, context, checkpoint | a grant claims its one task once; a repeated operation id is answered, not repeated |
| local services and broker: bridge_local_*.py | sessions, peers, routes, budgets | accept, read, dispatch, write, retire | one peer per session, retired routes serve nothing, limits hold |
| file scope and reads: bridge_file_*.py | open descriptors | open, recheck, read, list | reads stay inside the task's allowed paths |
| authority: bridge_authorization.py, bridge_readonly_authority.py | session leases | open, require, close session | valid only while the run is RUNNING with its capability |
| home: state.py | backup archives, replacement journal, retention records | health, prune, backup, restore, replace home, reconcile replacement, prune retention | a home is never lost between two renames; nothing bound to a live artefact is deleted |
| readmission: core.py | TASK_READMITTED event, the new task and plan | readmit, replay, claim of the new task | work moves once, to the accepted commit, with its feedback and within its budget |
| registry, plan builder, queue commands: project.py, plan.py, cli.py | project files, plan files | project add/remove, queue enqueue, pause/resume | a plan file is loaded as written; no work without its project |
| readiness, overview, doctor | none | report | read-only |
| review adapter, git transport, dispatcher, route evidence | report files, none, prompt files, one write-once file per run | run_review; push; render; record | a report names the snapshot it judged |

Parts meet in three places. The ledger is shared by every process through SQLite
transactions (`BEGIN IMMEDIATE`), so each transaction is atomic and everything
between two of them is not. The runtime flock (`runtime_operation_lock`) is taken
by submit, quiesce, abort and the patch and process operations; it never waits.
The workspace and Git are shared with people and other programs, who take no lock.

The hard behaviours are therefore: `verify` and `claim` work for a long time
outside a transaction and then write by id; capability files are written and
removed after the commit that justifies it; publication has effects in Git that a
crash separates from its journal; a rename may have happened although its caller
died or got an error; workers retry with the same operation id; a supervisor thread,
a poll and a crash race for the end of a process; a home is replaced by several
renames with a journal beside them; backups and prunes read a live home without any
lock; commands read the registry and write the ledger, or the other way round.

## Modules

| module | models | composed with |
|---|---|---|
| `Ledger` | the run lifecycle of core.py | implements `WriterReservation` under a refinement mapping |
| `WriterReservation` | abstract: a holder takes a free key, keeps it, lets go, never holds it again | |
| `Publication` | publish and reconcile_publication against Git, one run | the coarse `Publish*` steps of `Ledger` stand for it |
| `FilePatch` | apply and reconcile of one target and the evidence stores, closing the run | `Resolved` is the guard `Ledger` uses for its effects |
| `OwnedProcess` | owners, children, supervisor threads and the durable process rows | the other effect behind that guard |
| `WorkerLifecycle` | grants, routes and the second way to claim | implements `WriterReservation` too |
| `LocalService` | the concurrent service with its broker contexts and credentials | |
| `HomeReplacement` | replace, reconcile and inspect of a home | implements `HomeKeeping` |
| `HomeKeeping` | abstract: homes are added, taken out of service, served, deleted behind another | |
| `Backup` | backup, verification and restore beside working workers | |
| `Retention` | prune_retention and its quarantine protocol | |
| `Readmission` | readmit and the claims around it | runs at the grain of `Ledger`'s outcomes |
| `ProjectQueue` | project registry, plan files, enqueue and removal | tasks at the grain of `Ledger`'s outcomes |
| `MC*` | one per component: scenarios, payloads, symmetry and fairness for TLC; `MCAdmission` holds `Readmission` and two instances of `ProjectQueue` | |
| `*Proofs` (8) | theorems about every concrete module: `LedgerProofs`, `PublicationProofs`, `FilePatchProofs`, `ProcessAndServiceProofs` (`OwnedProcess`, `LocalService`), `WorkerLifecycleProofs`, `HomeReplacementProofs`, `BackupProofs` (`Backup`, `Retention`), `AdmissionProofs` (`Readmission`, `ProjectQueue`) | |

### Ledger

A run is a pair of task and attempt. Variables follow the tables: `status`,
`queue_seq`, `attempts` and `trail` (the tail of the task's event log, which
repair admission reads) for tasks; `state`, `verify_status`, `claim_git_head`,
`receipt` and `snapshot` for runs; review report, imported verdict, approval and
publication; pause settings; capability files; the workspaces. A snapshot is the
set of files it covers and a generation number; contents are numbers, 0 for "as in
HEAD". Each transaction is one action. Outside a transaction, and therefore
actions of their own: writing the capability (`WriteCapability`, its failure,
`ClaimCrash`), unlinking it (`RevokeCapability`, `RevokeCrash`), and the steps of
verify (`VerifyStart`, `VerifyScope`, `VerifySnapshot`, `VerifyChecks`, then
`VerifyCommit` or `VerifyBlocked` and `VerifyRevoke`). `Edit` and `OutsideCommit`
are people and workers changing the workspace at any time. Check results,
authority and protected-path verdicts are nondeterministic.

The constant `Serialized` says whether operators wait for a claim or verify in
flight before they abort its run, and start one verify per run. The code enforces
neither. With `Serialized = FALSE` everything interleaves.

Left out: heartbeats and checkpoints (they only move timestamps and one
confirmation flag of abort), event payloads; readmission has a module of its own.

### Publication

One run that is VERIFIED. `row` is the journal, `index`, `branch`, `remote` and
`work` the Git side, with contents "base", "snap" (the snapshot) or "other". A
call moves through the phases of publish (journal INTENT, add, journal STAGED,
prepare the commit, guard, compare-and-swap of the ref, journal, push, readback,
finalize); `ReconcileEntry` is what reconcile_publication concludes from Git and
the journal. Every phase can raise or crash; a push can be done and reported
failed; `Interference` lets people edit, stage, commit and push. Two history variables
say what a property may assume: `overlapped` becomes true when two calls are in flight
at once, `disturbed` when people interfere.

### FilePatch

One home, run and target file. A file is an inode, a version (its times) and
data; the scratch file has the operation id as its inode, so a rename is visible in
the target. `intent` and `record` are append-once. `torn` holds operations whose
directory has a leftover (an empty directory or a temporary name), which makes the
census UNKNOWN for the whole home; `journal_torn` is the same for the intent
journal, where it refuses new intents and every acknowledgement. Each append can
fail before or after the record is linked, with or without a leftover. Other
programs of the user edit or replace the target, or remove scratch files.
Not modelled: capacity limits, extended attributes and ACLs, several runs in one
home, other programs writing into the evidence stores.

### OwnedProcess

`row`-like variables are durable (`dispatch`, `exitRow` in SQLite), `os` is what the
operating system knows, and `child`, `starting` and the request cache are the memory of
one owner per run, lost in a crash. The dispatch row is committed before the spawn
(`Dispatch`, then `Spawn` or `SpawnFailed`); the supervisor thread watches deadline,
stop requests, owner cleanup and the natural exit, signals twice and settles
(`Settle`) only when the process is reaped and its pipe closed. Poll and terminate answer
from cache, child or row. Another command may hold the from cache, child or row. Another command may hold the runtime lock. A supervisor whose
reads or signals fail kills what it can and makes the child unknown (`SupervisorFails`), as
it does when the pipe cannot be closed (`StreamFails`). Output bytes are
left out; deadlines and grace periods may pass at any time.

### WorkerLifecycle

Tasks, runs and capability files are kept as far as the lifecycle code reads them;
`grant`, `rec` (operation records) and `route` follow its tables. A claim is `Reserve`,
`Consume` (the run is committed), the publication of the capability and `MarkReady`; a
checkpoint is `Prepare` and `Checkpoint`. A route may give up or die between any two of
them, and several routes of one grant run at once. The `Native*` actions are the
operator's commands; removing a capability file is a step of its own after the commit that
justifies it (`NativeRevoke`), and may never happen. The publication of a capability checks
nothing of the run (`Publish`). Context and disposition requests only read.

### LocalService

One thread: `Setup`, then a loop of a maintenance pass (deadlines, retirement of routes
that lost their authority, the end conditions) and a batch of events (accept, hello,
read, dispatch, write in chunks), then cleanup. `route`, `peer` and `owned` are the
service's tables; `authority` belongs to other processes, who take it away and may give it
back (bounded by `MaxFlips`). Closing anything can fail, a connection included
(`ClosePeerFails`); a scope that is busy, or a session that cannot be closed, does not occur
while one thread serves every request (comment at `Closed`). A signal falls between steps
because the code defers it there.

### HomeReplacement and HomeKeeping

A home is an identity; `fs` says which home is at which of the five names of an
operation, `journal` is the replacement journal, `whole` the homes whose contents are
undamaged. A call holds the flags it read once (`Look`) and the effects it still has to
do, one file-system operation per step (`Effect`); `Decision` is the table of
reconcile, `Advice` that of inspect. The first journal write may replace the file and still
raise (`FirstWriteRaises`); the error path then deletes the restored copy if it is still
proven (`Cleanup`). Deleting a tree can stop half-way: `torn` holds the copies that were cut
short in the cleanup, with or without their receipt (`CleanupCutShort`), and `EmptyCutShort`
stops a finalize in the middle of a discard. A finalize empties a discard and then removes it;
in between the directory is in `emptied`, and `os.replace` may put another home in its
place (`Vacant`), which it never does to a directory with contents. `HomeKeeping` states what an operator counts on.

### Backup

`ledger`, `intents` and `execs` are the live home, written by workers at any time;
`copied` is a ghost with the instant of the database copy. A backup goes through health
check, first census, copy, listing, streaming, second census and publication; a restore
through two freezes, verification, staging, health and one rename. `Damage` and a second
backup change the archive in between.

### Retention

A prune takes an inventory of runs and files, marks what is over the limits and not
protected, and deletes with check, rename to quarantine, check and unlink, or renames
back. A file is a content and a change time; a review export is a directory whose deletion
can fail after a part of it is gone (`TreeFails`), and that part counts as deleted. Others
rewrite and remove files; a prune can die with a file in quarantine. Runs are attempts at
tasks: they are claimed, verified, aborted and retried, and verify writes by id
(`VerifyReads`, `VerifyWrites`), so that a run that is over can be before its reviewer again
(`revived`). As in the code, the status of its task protects a run as well.

### Readmission

Runs end as the other modules say (rejected, failed, aborted, completed). A readmission
and a claim are each one immediate transaction with two guards (`txn`); the workspaces
change between them. `admitted` is the TASK_READMITTED event, `answers` what operators were
told. Guards that compare retained evidence and identities can only refuse and are part
of `ReadmitRefuse`, which may therefore always happen. The review policy of a task is its mode
and `review_on_retry`; every other risk signal is a choice.

### ProjectQueue

Project files, plan files, the rows of plans and tasks and the pauses, and for every
command where it is (`cmd`). A command is a sequence of steps on different stores, and may
die after each (`Crash`): an enqueue reads the queue, the binding of an earlier file, the
registry with HEAD, whether the file exists and what it holds, each at another time, and
then writes, reads back and loads. A batch enqueue takes the same steps as a single one.
`LoadPlan` is `orch load-plan` on a file from anywhere, `Readmits` the cancelled and inserted
row of a readmission, `MakePlanWrite` the output of `project make-plan` when it falls on the
file of a revision. `strays` are tasks load-plan queued for a project that was not
registered, `replaced` the enqueued revisions make-plan wrote over. The history
variable `overlapped` becomes true when a command takes a step while another one is
inside; what the queue promises of registry and files it promises until then.

## Runs

A run is one TLC check of one `MC*` module and one cfg. Most `MC*` modules play
several *scenarios*: a variable that is chosen in the initial state and never changes
says which instance a behaviour belongs to, so that one run asks every question about a
component with bounds that fit each of them. A property that holds in one scenario only
names it, and its comment says why the others do not promise it.

| run | scenarios and bounds | shows |
|---|---|---|
| ledger | operators wait (`Serialized`). *repair*: 1 Git task with every gate, 2 attempts, 2 paths (one not allowed), 3 contents, 1 commit by others. *queue*: 2 plans and projects, a dependency, pauses. *writers*: 2 tasks of one key | `LedgerConsistent`: task and run rows fit together (`TablesAgree`), a completed run passed review and approval for its very snapshot (`GatesBindSnapshot`), dependencies stay done (`DependenciesStayDone`); `StartsCleanOrSentBack`: an attempt starts on a clean tree or on exactly the bytes sent back; `ImplementsReservation`: the refinement of `WriterReservation` |
| ledger_races | operators do not wait. *writers*: 2 tasks of one key, one with a retry. *reviews*: 1 task, 2 verifies at once, 2 snapshots | `OneEditor`: never two runs that may edit; `NoEffectOutlivesRun`; `GatesBindSnapshot` when snapshots are replaced under a reviewer |
| ledger_abort_during_verify | *writers* of ledger_races | violated: see Findings |
| publication | *serial*: 1 caller, 3 faults, 2 commits, people interfering. *races*: 2 callers, 1 fault, interference. *recovery*: 1 caller, 3 faults, 4 commits, fair | `OneCommitLands` everywhere; `JournalTruthful`: while calls never overlapped a COMPLETE journal is published, and without interference an abandoned one left no trace; `SerialJournalNeverRegresses`; without interference `QuietRecovers` |
| file_patch | *races*: 2 callers, 2 ids (one reused with other bytes), 1 edit, 2 faults. *recovery*: a patch and its inverse, 1 fault, fair | `AppliedAtMostOnce`; `ReceiptsTruthful`; `RefusalsDidNothing`; `ClosedRunUntouched`: nothing is written after closure; `Recovers` |
| home_replacement | 3 homes. *alone*: 1 operator, 2 archives, 2 crashes, errors or deletions cut short, fair. *races*: 2 operators, the same archive again, setup in the gap | `HomesAccountedFor`: every home in one place, an undamaged one left. Alone and with no restored copy left half deleted (`torn`) also `AdviceLeadsOn`: reconcile accepts what inspect advises, a journal without advice is COMPLETE or `Withdrawn` with a whole home in service, no debris is left; `EventuallySettled` in one of these ends; `ImplementsKeeping`, the refinement of `HomeKeeping` |
| owned_process | *pair*: 2 starts and a poll or terminate of one run, 1 crash. *owners*: 2 runs and one place left, taken by an orphan of a third. *deadline*: 1 process observed twice, fair | `StartsAreBounded`: one spawn per id, and the limits of a run and of all runs hold; `ExitIsProven`: an exit row is proof; `EndedRunsHaveNoProcess`; `SupervisorEnds` |
| worker_lifecycle | 2 grants, 2 routes, 2 operation ids. *retries*: 1 task, 2 attempts, 1 new plan revision. *tasks*: 2 tasks of one key | `DoneOnce`: a grant claims once and a checkpoint is applied once, however often its id is sent; `EffectsOnlyWhileWriter`; `ImplementsReservation`: both claim paths together implement `WriterReservation` |
| local_service | 2 routes, 2 places, 2 chunks per answer, 2 changes of authority. *answers*: from setup on, 2 connections. *ends*: one route retired before, 3 connections, fair | `PeersAccountedFor`: reservations agree with peers, places are bounded; `ReleasedOnce`: a descriptor is closed once, success means clean; `NoStrayAnswers`: a retired route answers nothing more and half a frame is never followed by another answer; `RetiredServiceEnds` |
| backup | 1 backup, 2 restores, 2 runs with an operation each | `ArchiveIsOneInstant`; `RestoredHomeIsSound`; `OneRestoreLands` |
| retention | *ledger*: 1 prune of logs and a review export of 2 attempts at one task, the first at work or over with a verify still to write, 2 touches by others. *evidence*: 2 prunes of the same files, 1 touch. *backups*: 2 prunes, 2 backups, 1 to keep, 2 touches | `DeletionsAreSafe`: nothing but what was inventoried is deleted, in whole or in part, and evidence of a run that is not over stays, unless its verify revived it; `LastBackupKept`: a backup stays unless someone else touched one |
| admission | *readmit*: 3 tasks, 3 attempts, 2 workspaces, 2 dependencies in a row, 2 edits or checkouts. *serial*: 1 command at a time, 2 names, 2 roots, 2 tasks, 2 revisions, 2 commits, 3 answers. *direct*: the same on 1 name with load-plan, make-plan and the rows of a readmission, 1 plan from elsewhere, 1 answer, no commits or crashes. *overlap*: 2 commands on one project, 2 tasks, 2 revisions | `ReadmissionSound`: readmissions form chains within the first budget, on the accepted commit; `RetriesKeepHistory`: with the latest feedback and the review a retry needs under the task's policy; `AnswersAgree`: replays agree; `QueueSound`: loaded rows are exactly what was loaded, one command at a time also no orphaned work but `strays`, one project per root, files kept but `replaced`; `LoadedIsFinal` |

The bounds suffice for the cases that matter: a second attempt exercises repair and
the attempt limit, a second task of the same key exercises the reservation, two
callers exercise the race for the lock, the ref, the journal or the destination, two
faults allow a crash in the recovery from a crash, a third connection or a process of a
third run meets a full table, three tasks make a chain of two readmissions, a second attempt at a task lets the first be revived
beside it, and two
contents with a foreign inode allow a file to change and to change back.
Symmetry is used for interchangeable names only, and never with liveness.

Deadlock is checked in worker_lifecycle, where a route can always ask again. Elsewhere
a stop is allowed (`CHECK_DEADLOCK FALSE`): a queue can be finished, a run can wait for
an operator for ever, a service ends, and the bounds end behaviours. What must not
stop there is stated as liveness.

The properties a run checks are sometimes conjunctions of the named invariants of one
question; the conjuncts are in the component's module with a comment each. Type
invariants are proved, or conjuncts of a property of their run, or both.

Every property has a mutant: a plausible error in one mapped definition (the
operator just above it, marked "Faulty variant") under which TLC finds the property
violated.

### Fairness

Fairness is stated in the `MC*` modules, for one scenario each; none is assumed of
people, faults, crashes, clients or processes, and faults are finitely many.

* publication, *recovery*: a running call goes on (the code has no waiting inside a
  call), a call that cannot go on raises, and the operator keeps running
  `publish-reconcile --resume` (strong fairness, because a resume is possible only
  between calls).
* file_patch, *recovery*: a running call goes on or returns, and the operator keeps
  reconciling an operation without a result (strong, for the same reason).
* home_replacement, *alone*: a running call takes its next effect; the operator who
  finds a journal with nobody at work follows inspect (strong). Calls that die, raise or
  are cut short are finitely many.
* owned_process, *deadline*: the supervisor thread runs, a spawn returns, nobody keeps the
  runtime lock for ever. The process itself may ignore a signal. The errors of the supervisor
  (`SupervisorFails`, `StreamFails`) may occur and are not counted on.
* local_service, *ends*: the service thread runs and its deadlines pass.

`Recovers` of file_patch starts from the publication record and excludes torn evidence
and `Overtaken` operations. Those are real dead ends of the code, in which it
answers UNKNOWN for ever and the run cannot be closed: a crash after the scratch
file was created and before the publication record ("unowned staging"); a leftover
in the evidence; a later operation that replaced the file an unresolved earlier one
wrote. The documents accept fail-closed answers of this kind.

## Findings

* `ledger_abort_during_verify` (code): verify's last transaction (core.py:3069-3094)
  writes run and task by id without reading their state again. Abort of a VERIFYING
  run during the checks, a new claim of the same writer key and then the old commit
  leave two runs holding the key. docs/multi-project-bridge.md:73 says "At most one
  active writer exists for a writer_key." The runs that may edit are still at most
  one (`OneEditor`, proved), since the revived run is past editing.

The same pattern, a check that nothing holds until it is used, was met elsewhere while
modelling. The models contain these steps, and the properties are stated so that they
say what remains true:

* quiesce commits VERIFYING and unlinks the capability afterwards (core.py:2563-2564),
  so verification can begin with the capability in place; docs/security-model.md:14 lists
  "capability revocation before verification".
* replace_home_from_backup reads the open tasks of the live home, restores the archive and
  then renames the home aside (state.py:2730-2798): a plan loaded in between is set
  aside with it.
* the supervisor gives up after a second of a busy runtime lock and makes the child unknown
  (bridge_process.py:530-539), also when a poll recorded the exit meanwhile; later polls
  answer UNKNOWN where docs/multi-project-bridge.md:768-769 promises the terminal state.
* backup_state refuses while a run is active and copies the database later
  (state.py:3776, 3795): a run claimed in between is in the archive, which restore then
  refuses (`RestoredHomeIsSound`).
* project remove guards on the ledger and unlinks the file with nothing held between
  (cli.py:590-594), and load_plan does not look at the registry: an overlapping enqueue
  leaves queued work of a project that is gone.
* a repeated enqueue of a bound plan reports base_binding from the queue alone
  (cli.py:730-734) and answers "dynamic_at_verify".

* atomic_write_bytes replaces the journal and then syncs the directory (config.py:146-185).
  When the first write of a replacement raises after it took effect, the error path deletes
  the restored copy (state.py:2787-2796) and leaves a PREPARED journal that names it: the old
  home is served, inspect reports an ambiguous state without a safe next step, reconcile
  answers BLOCKED, and every later replacement is refused until the file is removed by hand
  (`Withdrawn`). finalize that dies between writing COMPLETE and unlinking the journal leaves
  a file with the same effect.
* the same cleanup may be cut short (state.py:2794). What is left of the copy still counts as
  the restored home when its receipt is there, since `_restored_home_matches` looks at the
  receipt and not at the contents (state.py:2694-2708): a resume then puts a damaged home into
  service and finalize deletes the old one. The properties of a lone operator hold up to that
  point (`torn`), and `SomeHomeSurvives` names it.
* a run revived by a late verify is protected from prune only from then on: a prune that took
  its inventory while the run was ABORTED deletes the evidence it will be reviewed by.
* `decide_review` counts a retry as a signal only under `review_on_retry`
  (review_policy.py:79). With risk_based and false, the retries of a first task complete
  without review; a readmission requires review whatever the first policy was, so readmitted
  work is always reviewed (`RetriesAreReviewed`).
* load-plan never asks the registry (cli.py:826-827, core.py:1131-1230), so one command queues
  work of a project that is not registered, also of one removed a moment before
  (`NoOrphanWork` excepts it as `strays`).
* make-plan writes its output without looking (cli.py:564), also over the plan file of a
  revision that is queued; plans that came in by load-plan or readmit have no file under
  plans/ at all. The rows are frozen (`LoadedIsFinal`), so what suffers is the record the file
  is, and a repeated enqueue, which then conflicts (`PlanFileKept` excepts it as `replaced`).

* complete finalises a Git publication by run id (`PublishFinalize`). With two verify calls
  of one run in flight, the first can pass, the publication begin, the second fail and the
  publication then complete a run whose last verification failed. `GatesBindSnapshot` is
  therefore promised, and proved, when operators run one verify per run or nothing is
  published by Git.

Observed and not contradicted by any document: with two live callers
reconcile_publication can abandon a journal whose publisher is between INTENT and
`git add`, and the loser of two publishers can write an earlier phase over the
winner's journal, `OneCommitLands` holding in both cases; two operators reconciling one
home replacement can leave a journal that fits no directory state: a call that still has to
write NEW_ACTIVE overwrites what the other one recorded, and when it dies then, reconcile
answers BLOCKED to what inspect offers, all homes being kept (`AdviceLeadsOn` is therefore
stated of one operator); two overlapping registrations of one root under two names both succeed.

## Proofs

`tlapm` checks every theorem, for every value of the constants. The assumptions are those
on the constants (`LedgerAssumption`, `PublicationAssumption`, `FilePatchAssumption`,
`ProcessAssumption`, `NamesAssumption`, `LifecycleAssumption`, `LifecycleNames`,
`ServiceAssumption`, `BoundsAssumption`, `ArchivesAssumption`, `OperatorAssumption`,
`BackupAssumption`, `NoneAssumption`, `RetentionAssumption`, `ReadmissionAssumption`,
`QueueAssumption`: types, finiteness of connections, routes and evidence, and that the markers
are not values), evaluated by TLC in the runs, and where it is said `Serialized`. The
inductive invariants were checked by TLC before they were proved.

* `LedgerProofs`, in four parts.
  - `TypeCorrect`, `OneEditorHolds`, `NoEffectOutlivesRunHolds`, without
    `Serialized`. `OneEditor` alone is not inductive: a late claim, revoke or verify call
    writes by id. `LeaseInv` adds that rows of unclaimed attempts are blank, that a claim
    which still has to write its capability has no lease, that a dispatched effect
    belongs to a lease, and that calls in flight from verification on belong to runs
    that are no longer working (`LateCallsAfterWork`), so that their writes cannot make a
    run an editor.
  - `SingleWriterHolds`, `LedgerImplementsReservation`, `ClosedRunsStayHolds`, for
    `Serialized = TRUE`. `SerialInv` says that a verify in flight belongs to a run that
    still holds its key, one per run, that a claim in flight belongs to a RUNNING run, and
    that a journalled publication belongs to a VERIFIED one. Lemma `MovesStep` classifies
    every step as opening, advancing or closing one run; the refinement and the closed-run
    property follow from the classification.
  - `GatesBindSnapshotHolds`, under `Serialized` or with no task that publishes (see
    Findings). `GateInv` says for each state a run can be in which of checks, review and
    approval its present snapshot passed, a run being published included; `CommitsAside`
    is what the hypothesis buys: no verify call is about to replace the snapshot of such a
    run.
  - `LedgerConsistentHolds` and `StartsCleanOrSentBackHolds`, under `Serialized`.
    `StepTells` classifies every step by what it does to both tables (a row is inserted,
    a held task is settled with its run, a task without a run waits), and `TablesAgree` and
    `DependenciesStayDone` follow from that. For the second, `TrailTruthful` says that
    the verdict the tail of a task's event log names was imported for that attempt and that
    snapshot, and `SentBackInv` that a run whose checks passed and whose task waits for a fix
    was sent back for its present snapshot; so the manifest that repair admission compares
    with the workspace lists the bytes that were judged.
* `PublicationProofs`: `PublicationTypeCorrect`, `OneCommitLandsHolds`, for any number
  of overlapping callers with interference. `PublicationInv` adds that commit numbers in
  use are allocated and that once a commit landed the branch is off its base, so no second
  compare-and-swap from the base can succeed. `JournalTruthfulHolds` and
  `SerialJournalNeverRegressesHolds` speak of behaviours in which calls have not
  overlapped. `SoloInv` relates the journal to Git (`JournalFits`), the one call in
  flight to both (`CallFits`: what it still believes is true), and, while nobody interfered,
  index and branch to what was journalled (`QuietGit`).
* `FilePatchProofs`: `FilePatchTypeCorrect`, `AppliedAtMostOnceHolds`,
  `ReceiptsTruthfulHolds`, `ClosedRunUntouchedHolds`, `RefusalsDidNothingHolds`. `PatchInv`
  says that only the lock holder is inside a call, how records, scratch file and rename
  count of an operation relate at rest (`Ordered`), and what a call in each phase knows
  about its operation (`Knows`); the lock makes that knowledge stable. `AllHonest` says
  which phases come before the dispatch record.
* `ProcessAndServiceProofs`, in two parts.
  - `OwnedProcess`: `ExitIsProvenHolds`, `EndedRunsHaveNoProcessHolds`,
    `StartsAreBoundedHolds`. `RowInv` says that a process exists only behind a dispatch row
    and was spawned once (`DispatchedFirst`), that an exit is recorded or told only for a
    reaped one, that a start in progress holds the runtime lock, and that a run ends only
    with its rows resolved. `Counted` bounds the rows, which survive a crash, and the replies
    kept in memory with the room a start in progress has set aside; the bounds on what runs
    follow from it and not from counting processes.
  - `LocalService`: `PeersAccountedForHolds`, `ReleasedOnceHolds`, `NoStrayAnswersHolds`.
    `ServiceInv` says what state, route, buffered answer and descriptor of a peer go
    together in each phase of the loop (`PeersFit`), the same for the context of each route
    (`ContextsFit`), that a route and its peer name each other, and that an end reported as
    success released everything.
* `WorkerLifecycleProofs`: `LifecycleTypeCorrect`, `DoneOnceHolds`, `OneWriterHolds`,
  `RecordsAreForwardHolds`, `EffectsOnlyWhileWriterHolds`, and the refinement
  `LifecycleImplementsReservation`. `LifeInv`
  adds that an open route names an issued grant and a call in progress an operation
  (`RouteInv`), that an issued grant names a task and an attempt and a spent one its claim
  (`GrantInv`), and that the task of a writer is IN_PROGRESS (`WriterInv`), so that neither
  claim path finds it claimable. The refinement also needs `AttemptsInOrder`: both paths
  number an attempt by the count of rows, which is a fresh attempt only if the rows made
  so far are the first ones.
* `HomeReplacementProofs`, in two parts. `HomesAccountedForHolds` is for any number of overlapping
  replace and reconcile calls, crashes, setups in the gap and archives, the one a home came
  from included. Journals and their copies may be stale, so `HomeInv` does not say that a
  journal fits the directories. It says that a call about to empty a discard has bound a
  home which lies there as long as it is undamaged (`Held`), that a call about to remove one
  has emptied it, that a restore still to come has a name nobody else knows (`Fresh`), and, as long
  as no cleanup left a restored copy half deleted, that some undamaged home is not bound by any
  call about to empty (`Safe`). The step that needs
  it is the decision to finalize: lemma `EveryBlockDecides` shows for each status that a
  plan which begins with emptying was made with a proven home at the destination, and
  `ServedIsSafe` that this one is undamaged and lies at nobody's discard.

  `AdviceLeadsOnHolds` and `ImplementsKeepingHolds` are about one operator whose calls may end
  between any two effects or in the middle of a deletion, and whose first journal write may
  raise after it took effect, with any archives and any number of replacements, up to the first
  cleanup that leaves a restored copy half deleted (`torn`). Here the
  journal is what matters, and it is never stale. A *stage* is a journal status with the
  places of the old and the new home; `Rests` lists the stages in which a call may
  leave an operation. `LoneInv` says that journal, directories and receipts are those of such
  a stage, that a discard is bound when it is one, that nothing of an earlier operation is
  left but restored copies, and that the effects the call in flight still has to do form a
  `Script`: each leads from a resting stage to a resting stage, so the call may end before
  any of them. `EveryBlockLeads` shows, status by status, that what reconcile decides is such a script, and
  one lemma per effect that carrying it out uses up the script and is a step of
  `HomeKeeping` or a stutter. `NeverBlocked` and `AlwaysOffers` then compare the tables of
  reconcile and inspect stage by stage, and `GoneFacts` treats the one stage in which neither
  leads on: PREPARED with its copy withdrawn.
* `BackupProofs`, in two parts.
  - `Backup`: `BackupTypeCorrect`, `ArchiveIsOneInstantHolds`, `RestoredHomeIsSoundHolds`,
    `OneRestoreLandsHolds`, for any number of runs, operations, backups and restores. In
    `BackupInv`, `CallInv` says what a backup in each phase has read, against what is
    there now and what was there at the copy: the first census lies below the copied
    instant and that below the present, since journal and executions only grow, so an equal
    second census pins the instant. `RestoreInv` says what a restore has frozen, verified
    and staged; `LedgerInv` and `ArchiveInv` that recorded operations belong to known runs.
  - `Retention`: `DeletionsAreSafeHolds`, `LastBackupKeptHolds`, for any number of prunes,
    files and touches by others. `PruneFits` says what a prune in each step still relies on
    from its inventory, and that what it holds in quarantine when it unlinks has the content
    it inventoried, of which a part counts as all; `TerminalClosed` that a run seen as over is
    over still or was revived by its verify. The last backup needs
    `SpareKept`: when a prune is about to unlink a backup and nobody else touched one since,
    another one is in place, left in quarantine, or held by a prune that has not
    decided to unlink it.
* `AdmissionProofs`, in two parts.
  - `Readmission`: `ReadmissionSoundHolds`, `RetriesKeepHistoryHolds`, `AnswersAgreeHolds`, for
    any number of tasks, attempts and workspaces. `LedgerFits` relates tasks, runs, recorded
    admissions and trails; `TxnFits` says what a readmission or claim between its two guards
    still knows. `ChainBudget` bounds the runs of a chain of readmissions of any length.
    A chain is the least set closed under "readmitted from", so no induction over it is
    needed: a readmission puts a task without runs in front of a chain whose tasks are
    closed, and a claim adds one run to the chain it was checked against.
  - `ProjectQueue`: `QueueSoundHolds`, `LoadedIsFinalHolds`, for any number of commands,
    names, roots, tasks and revisions. `RowsFit` (rows and digests agree with what was
    loaded) holds however commands race; `AloneFits` (registry, plan files, answers, and what
    the one command inside has read) while they have not overlapped, and after any crash. A
    load-plan or readmission that commits while a command is inside counts as an overlap; make-plan
    is a command of its own.

Only model-checked: liveness (`QuietRecovers`, `Recovers`, `EventuallySettled`,
`SupervisorEnds`, `RetiredServiceEnds`), which is out of the prover's reach under fairness.
Every invariant and every other action property of the passing runs is a theorem.

## Plan

Every component with protocol state has a module, a run and theorems. What could follow: the
serial services and the transport of route evidence as modules of their own, should they come
to hold state across connections, and a composition of `Ledger` with `OwnedProcess` and
`FilePatch` in one state space in place of the guard they share.

## Abstractions a reader should know of

* `Claim` of `Ledger` is one step from the guards to the commit. Nothing but the workspace can
  change in between (the transaction is immediate), and an edit after the guard is for every
  property an edit after the claim. `Readmission` keeps the two guards apart.
* `Claim` of `Backup` lets any number of runs be active at once: writer keys are `Ledger`'s, and
  leaving them out allows more.
* `WorkerLifecycle` gives capability files to granted claims; those of native claims are
  `Ledger`'s. Its `Native*` actions are as coarse as one transaction.
* `MakePlanWrite` names plan files; an output elsewhere changes nothing any command reads unless
  load-plan is given it, which `LoadPlan` allows for any content.
* The guard of a publication compares names, so a foreign change under the names of the snapshot
  may pass it (`ForeignNames`); what it then compares are contents.

## Not modelled

* The serial local service and the patch, process and lifecycle services: they handle one
  connection at a time, in the order of steps of the concurrent one, and differ in the
  dispatch of a request, which is the operation of another module. The protocols are
  schemas, the clients keep no state.
* Plan, batch and configuration validation, review policy globs, framing codecs, archive
  encoding: data. Their outcome (accepted or refused) is a choice of the models.
* Readiness, overview, doctor, health and status reports: read-only.
* The dispatcher's prompts and the route evidence store (one write-once file per run), the
  rest of the command line: no protocol state.
* Extended attributes and ACLs of patched files, heartbeats, event payloads, output bytes
  of processes: no property tells them apart.

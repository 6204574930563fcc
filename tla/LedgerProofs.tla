---------------------------- MODULE LedgerProofs ----------------------------
(***************************************************************************)
(* Theorems about the run lifecycle of module Ledger, for every set of       *)
(* tasks, projects, writer keys, workspaces, plans and verify calls: whom a  *)
(* lease lets edit, and, when operators await a claim or a verify call       *)
(* before they abort its run and run one verify per run (Serialized), that   *)
(* the writer reservation is exclusive and implements WriterReservation, a   *)
(* closed run is never written again, the gates bind the published snapshot, *)
(* the tables agree, and a run starts on a clean or a sent-back workspace.   *)
(***************************************************************************)
EXTENDS Ledger, TLAPS

(* A run names a task of the plan and an attempt within max_attempts.         *)
LEMMA RunFacts ==
  ASSUME NEW r \in Runs
  PROVE  /\ Task(r) \in Tasks
         /\ Attempt(r) \in 1 .. Payload[Task(r)].max_attempts
         /\ r = <<Task(r), Attempt(r)>>
BY LedgerAssumption DEF Runs, Task, Attempt, PayloadType

(* A task with attempts left has a row for the next one.                       *)
LEMMA NextRun ==
  ASSUME NEW t \in Tasks, NEW n \in Nat, n < Payload[t].max_attempts
  PROVE  /\ <<t, n + 1>> \in Runs
         /\ Task(<<t, n + 1>>) = t /\ Attempt(<<t, n + 1>>) = n + 1
BY LedgerAssumption DEF Runs, Task, Attempt, PayloadType

(* The event tail stays a tail.                                                *)
LEMMA TrailFacts ==
  /\ Other \in Trails
  /\ \A a, g \in Nat : Fix(a, g) \in Trails
  /\ \A e \in Trails, p \in Paths : Dirty(e, p) \in Trails
BY LedgerAssumption DEF Other, Fix, Dirty, Trails

(* Recording the bytes of some paths makes a file map.                          *)
LEMMA FileMapFacts ==
  /\ NoFiles \in FileMaps
  /\ \A S \in SUBSET Paths : [S -> Contents] \subseteq FileMaps
<1>1. \A S \in SUBSET Paths : [S -> Contents] \subseteq FileMaps
  BY Zenon DEF FileMaps
<1>2. NoFiles \in [{} -> Contents]
  BY DEF NoFiles
<1>3. QED
  BY <1>1, <1>2

(* Every field of a verifier keeps its type when one of them is assigned.        *)
LEMMA VerifierFacts ==
  ASSUME NEW x \in VerifierType
  PROVE  /\ IdleVerifier \in VerifierType
         /\ \A r \in Runs : [IdleVerifier EXCEPT !.run = r, !.pc = "scope"] \in VerifierType
         /\ x.pc # "idle" =>
              /\ \A b \in BOOLEAN : [x EXCEPT !.pc = "commit", !.passed = b] \in VerifierType
              /\ [x EXCEPT !.pc = "revoke"] \in VerifierType
BY FileMapFacts DEF VerifierType, IdleVerifier

-----------------------------------------------------------------------------
(* Type correctness.                                                            *)

LEMMA TypeInit == Init => TypeOK
<1>. SUFFICES ASSUME Init PROVE TypeOK
  OBVIOUS
<1>1. NoSnapshot \in Snapshots
  BY FileMapFacts DEF NoSnapshot, Snapshots
<1>2. verifier \in [Verifiers -> VerifierType]
  BY FileMapFacts DEF Init, VerifierType, IdleVerifier
<1>3. QED
  BY <1>1, <1>2, TrailFacts, LedgerAssumption
  DEF Init, TypeOK, TaskStates, RunStates, READY_TASK_STATES

LEMMA TypeQueue == TypeOK /\ QueueStep => TypeOK'
<1>. SUFFICES ASSUME TypeOK, QueueStep PROVE TypeOK'
  OBVIOUS
<1>. USE DEF TypeOK, taskVars, runVars, gateVars, pauseVars, capVars, treeVars
<1>1. ASSUME NEW rev \in Revisions, LoadPlan(rev) PROVE TypeOK'
  <2>1. status' \in [Tasks -> TaskStates]
    BY <1>1 DEF LoadPlan, TaskStates, READY_TASK_STATES
  <2>2. queue_seq' \in [Tasks -> Nat]
    BY <1>1, LedgerAssumption DEF LoadPlan, PayloadType
  <2>3. QED
    BY <1>1, <2>1, <2>2 DEF LoadPlan
<1>2. CASE Pause
  BY <1>2 DEF Pause
<1>3. CASE Resume
  BY <1>3 DEF Resume
<1>4. ASSUME NEW p \in Projects, PauseProject(p) PROVE TypeOK'
  BY <1>4 DEF PauseProject
<1>5. ASSUME NEW p \in Projects, ResumeProject(p) PROVE TypeOK'
  BY <1>5 DEF ResumeProject
<1>6. ASSUME NEW t \in Tasks, CancelTask(t) PROVE TypeOK'
  BY <1>6, TrailFacts DEF CancelTask, TaskStates
<1>7. QED
  BY <1>1, <1>2, <1>3, <1>4, <1>5, <1>6 DEF QueueStep

(* The claimed row: attempts grows by one within its bound.                        *)
LEMMA TypeReserve ==
  ASSUME TypeOK, NEW t \in Tasks, ~AttemptsExhausted(t), Reserve(t)
  PROVE  /\ <<t, attempts[t] + 1>> \in Runs
         /\ attempts' \in [Tasks -> Nat]
         /\ state' \in [Runs -> RunStates]
         /\ claim_git_head' \in [Runs -> Nat]
         /\ claiming' \in SUBSET Runs
<1>1. attempts[t] \in Nat /\ attempts[t] < Payload[t].max_attempts
  BY LedgerAssumption DEF TypeOK, AttemptsExhausted, PayloadType
<1>2. <<t, attempts[t] + 1>> \in Runs
  BY <1>1, NextRun
<1>3. GitHead(t) \in Nat
  BY LedgerAssumption DEF GitHead, TypeOK, PayloadType
<1>4. attempts' \in [Tasks -> Nat]
  BY <1>1 DEF Reserve, TypeOK
<1>5. state' \in [Runs -> RunStates]
  BY <1>2 DEF Reserve, TypeOK, RunStates, WRITER_LOCK_RUN_STATES, ACTIVE_RUN_STATES
<1>6. claim_git_head' \in [Runs -> Nat] /\ claiming' \in SUBSET Runs
  BY <1>2, <1>3 DEF Reserve, TypeOK
<1>7. QED
  BY <1>2, <1>4, <1>5, <1>6

LEMMA TypeRecord ==
  ASSUME TypeOK, NEW r \in Runs, NEW s \in RunStates, NEW u \in TaskStates, NEW e \in Trails,
         Record(r, s, u, e)
  PROVE  /\ state' \in [Runs -> RunStates]
         /\ status' \in [Tasks -> TaskStates]
         /\ trail' \in [Tasks -> Trails]
BY RunFacts DEF Record, TypeOK

LEMMA StateNames ==
  /\ READY_TASK_STATES \subseteq TaskStates
  /\ {"IN_PROGRESS", "WAITING_REVIEW", "WAITING_OWNER", "READY_TO_PUBLISH", "BLOCKED",
      "DONE", "CANCELLED", "NEEDS_FIX"} \subseteq TaskStates
  /\ {"NONE", "RUNNING", "RESULT_SUBMITTED", "VERIFYING", "REVIEWING", "VERIFIED",
      "NEEDS_FIX", "BLOCKED", "ABORTED", "COMPLETE"} \subseteq RunStates
BY DEF TaskStates, READY_TASK_STATES, RunStates, WRITER_LOCK_RUN_STATES, ACTIVE_RUN_STATES,
       CLOSED_RUN_STATES

LEMMA TypeClaim == TypeOK /\ ClaimStep => TypeOK'
<1>. SUFFICES ASSUME TypeOK, ClaimStep PROVE TypeOK'
  OBVIOUS
<1>. USE DEF TypeOK, taskVars, runVars, gateVars, pauseVars, capVars, treeVars
<1>1. ASSUME NEW wanted \in ProjectFilters, ClaimNoWork(wanted) PROVE TypeOK'
  BY <1>1, TrailFacts, StateNames DEF ClaimNoWork
<1>2. ASSUME NEW wanted \in ProjectFilters, NEW t \in Tasks, ClaimBlocked(t, wanted) PROVE TypeOK'
  <2>1. status' \in [Tasks -> TaskStates]
    BY <1>2, StateNames DEF ClaimBlocked, BlockPassed
  <2>2. trail' \in [Tasks -> Trails]
    BY <1>2, TrailFacts DEF ClaimBlocked
  <2>3. QED
    BY <1>2, <2>1, <2>2 DEF ClaimBlocked
<1>3. ASSUME NEW wanted \in ProjectFilters, NEW t \in Tasks, Claim(t, wanted) PROVE TypeOK'
  <2>1. ~AttemptsExhausted(t) /\ Reserve(t)
    BY <1>3 DEF Claim, Selected, Selectable
  <2>2. status' \in [Tasks -> TaskStates]
    BY <1>3, StateNames DEF Claim, BlockPassed
  <2>3. trail' \in [Tasks -> Trails]
    BY <1>3, TrailFacts DEF Claim
  <2>4. QED
    BY <1>3, <2>1, <2>2, <2>3, TypeReserve DEF Claim
<1>4. ASSUME NEW r \in Runs, RepairClaim(r) PROVE TypeOK'
  <2>1. Task(r) \in Tasks /\ ~AttemptsExhausted(Task(r)) /\ Reserve(Task(r))
    BY <1>4, RunFacts DEF RepairClaim
  <2>2. QED
    BY <1>4, <2>1, TypeReserve, TrailFacts, StateNames DEF RepairClaim
<1>5. ASSUME NEW r \in Runs, WriteCapability(r) PROVE TypeOK'
  BY <1>5 DEF WriteCapability
<1>6. ASSUME NEW r \in Runs, WriteCapabilityFails(r) PROVE TypeOK'
  <2>1. capability' \in [Runs -> {"NONE", "LIVE", "GONE"}]
    BY <1>6 DEF WriteCapabilityFails
  <2>2. QED
    BY <1>6, <2>1, TypeRecord, TrailFacts, StateNames DEF WriteCapabilityFails
<1>7. ASSUME NEW r \in Runs, ClaimCrash(r) PROVE TypeOK'
  BY <1>7 DEF ClaimCrash
<1>8. QED
  BY <1>1, <1>2, <1>3, <1>4, <1>5, <1>6, <1>7 DEF ClaimStep

LEMMA TypeWorker == TypeOK /\ WorkerStep => TypeOK'
<1>. SUFFICES ASSUME TypeOK, WorkerStep PROVE TypeOK'
  OBVIOUS
<1>. USE DEF TypeOK, taskVars, runVars, gateVars, pauseVars, capVars, treeVars
<1>1. ASSUME NEW r \in Runs, Dispatch(r) PROVE TypeOK'
  BY <1>1 DEF Dispatch
<1>2. ASSUME NEW r \in Runs, ObserveExit(r) PROVE TypeOK'
  BY <1>2 DEF ObserveExit
<1>3. ASSUME NEW r \in Runs, Quiesce(r) PROVE TypeOK'
  BY <1>3, RunFacts, TrailFacts, StateNames DEF Quiesce
<1>4. ASSUME NEW r \in Runs, NEW changed \in SUBSET Paths, Submit(r, changed) PROVE TypeOK'
  BY <1>4, RunFacts, TrailFacts, StateNames DEF Submit
<1>5. ASSUME NEW r \in Runs, NEW retry \in BOOLEAN, Abort(r, retry) PROVE TypeOK'
  <2>1. CASE retry
    BY <1>5, <2>1, TypeRecord, TrailFacts, StateNames DEF Abort
  <2>2. CASE ~retry
    BY <1>5, <2>2, TypeRecord, TrailFacts, StateNames DEF Abort
  <2>3. QED
    BY <2>1, <2>2
<1>6. CASE RevokeCapability
  BY <1>6 DEF RevokeCapability, Unlinked
<1>7. CASE RevokeCrash
  BY <1>7 DEF RevokeCrash
<1>8. CASE PruneCapabilities
  BY <1>8 DEF PruneCapabilities
<1>9. QED
  BY <1>1, <1>2, <1>3, <1>4, <1>5, <1>6, <1>7, <1>8 DEF WorkerStep

LEMMA TypeVerify == TypeOK /\ VerifyStep => TypeOK'
<1>. SUFFICES ASSUME TypeOK, VerifyStep PROVE TypeOK'
  OBVIOUS
<1>. USE DEF TypeOK, taskVars, runVars, gateVars, pauseVars, capVars, treeVars
<1>. PICK v \in Verifiers :
       \/ \E r \in Runs : VerifyStart(v, r)
       \/ VerifyScope(v) \/ VerifySnapshot(v)
       \/ \E passed \in BOOLEAN : VerifyChecks(v, passed)
       \/ VerifyBlocked(v) \/ VerifyRevoke(v) \/ VerifyCrash(v) \/ VerifyCommit(v)
  BY DEF VerifyStep
<1>. DEFINE x == verifier[v]
<1>0. /\ x \in VerifierType
      /\ x.files \in FileMaps /\ x.git_head \in Nat /\ x.passed \in BOOLEAN
      /\ x.pc # "idle" => x.run \in Runs
  BY DEF VerifierType
<1>1. ASSUME NEW r \in Runs, VerifyStart(v, r) PROVE TypeOK'
  BY <1>0, <1>1, VerifierFacts DEF VerifyStart, VerifyUnchanged
<1>2. CASE VerifyScope(v)
  <2>1. GitHead(Task(x.run)) \in Nat
    BY <1>0, <1>2, RunFacts, LedgerAssumption DEF VerifyScope, GitHead, PayloadType
  <2>2. verifier' = [verifier EXCEPT ![v] = [x EXCEPT !.pc = "snapshot",
                                                     !.git_head = GitHead(Task(x.run))]]
    BY <1>2 DEF VerifyScope
  <2>3. [x EXCEPT !.pc = "snapshot", !.git_head = GitHead(Task(x.run))] \in VerifierType
    BY <1>0, <1>2, <2>1 DEF VerifyScope, VerifierType
  <2>4. verifier' \in [Verifiers -> VerifierType]
    BY <2>2, <2>3
  <2>5. QED
    BY <1>2, <2>4 DEF VerifyScope, VerifyUnchanged
<1>3. CASE VerifySnapshot(v)
  <2>. DEFINE f == [p \in receipt[x.run] |-> tree[Workspace(x.run)][p]]
  <2>1. f \in FileMaps
    <3>1. x.run \in Runs /\ Workspace(x.run) \in Workspaces
      BY <1>0, <1>3, RunFacts, LedgerAssumption DEF VerifySnapshot, Workspace, PayloadType
    <3>2. receipt[x.run] \in SUBSET Paths
      BY <3>1
    <3>3. f \in [receipt[x.run] -> Contents]
      BY <3>1, <3>2
    <3>4. QED
      BY <3>2, <3>3, FileMapFacts
  <2>2. verifier' = [verifier EXCEPT ![v] = [x EXCEPT !.pc = "checks", !.files = f]]
    BY <1>3 DEF VerifySnapshot
  <2>3. [x EXCEPT !.pc = "checks", !.files = f] \in VerifierType
    <3>. HIDE DEF f
    <3>. QED
      BY <1>0, <1>3, <2>1 DEF VerifySnapshot, VerifierType
  <2>4. verifier' \in [Verifiers -> VerifierType]
    BY <2>2, <2>3
  <2>5. QED
    BY <1>3, <2>4 DEF VerifySnapshot, VerifyUnchanged
<1>4. ASSUME NEW passed \in BOOLEAN, VerifyChecks(v, passed) PROVE TypeOK'
  <2>1. verifier' \in [Verifiers -> VerifierType]
    BY <1>0, <1>4, VerifierFacts DEF VerifyChecks
  <2>2. QED
    BY <1>4, <2>1 DEF VerifyChecks, VerifyUnchanged
<1>5. CASE VerifyBlocked(v)
  <2>1. verifier' \in [Verifiers -> VerifierType] /\ x.run \in Runs
    BY <1>0, <1>5, VerifierFacts DEF VerifyBlocked
  <2>2. QED
    BY <1>5, <2>1, TypeRecord, TrailFacts, StateNames DEF VerifyBlocked
<1>6. CASE VerifyRevoke(v)
  BY <1>0, <1>6, VerifierFacts DEF VerifyRevoke, Unlinked
<1>7. CASE VerifyCrash(v)
  BY <1>0, <1>7, VerifierFacts DEF VerifyCrash, VerifyUnchanged
<1>8. CASE VerifyCommit(v)
  <2>1. x.run \in Runs /\ verifier' \in [Verifiers -> VerifierType]
    BY <1>0, <1>8, VerifierFacts DEF VerifyCommit
  <2>2. snapshot' \in [Runs -> Snapshots]
    BY <1>0, <1>8, <2>1 DEF VerifyCommit, Snapshots
  <2>3. state' \in [Runs -> RunStates] /\ status' \in [Tasks -> TaskStates]
        /\ trail' \in [Tasks -> Trails]
    BY <1>8, <2>1, TypeRecord, TrailFacts, StateNames DEF VerifyCommit
  <2>4. verify_status' \in [Runs -> {"NONE", "PASS", "FAIL", "BLOCKED"}]
    BY <1>8, <2>1 DEF VerifyCommit
  <2>5. QED
    BY <1>8, <2>1, <2>2, <2>3, <2>4 DEF VerifyCommit
<1>9. QED
  BY <1>1, <1>2, <1>3, <1>4, <1>5, <1>6, <1>7, <1>8

LEMMA TypeGate == TypeOK /\ GateStep => TypeOK'
<1>. SUFFICES ASSUME TypeOK, NEW r \in Runs,
                     \/ WriteReport(r)
                     \/ \E verdict \in {"PASS", "NEEDS_FIX", "BLOCKED"} : ImportReview(r, verdict)
                     \/ Approve(r) \/ WaitOwner(r) \/ Complete(r)
                     \/ PublishIntent(r) \/ PublishRef(r) \/ PublishAbandon(r)
                     \/ PublishFinalize(r)
              PROVE  TypeOK'
  BY DEF GateStep
<1>. USE DEF TypeOK, taskVars, runVars, gateVars, pauseVars, capVars, treeVars
<1>0. snapshot[r].gen \in Nat /\ Task(r) \in Tasks /\ Attempt(r) \in Nat
  BY RunFacts, LedgerAssumption DEF Snapshots, PayloadType
<1>1. CASE WriteReport(r)
  BY <1>0, <1>1 DEF WriteReport
<1>2. ASSUME NEW verdict \in {"PASS", "NEEDS_FIX", "BLOCKED"}, ImportReview(r, verdict)
      PROVE  TypeOK'
  <2>1. /\ state' \in [Runs -> RunStates] /\ status' \in [Tasks -> TaskStates]
        /\ trail' \in [Tasks -> Trails]
    BY <1>0, <1>2, TypeRecord, TrailFacts, StateNames DEF ImportReview
  <2>2. QED
    BY <1>2, <2>1 DEF ImportReview
<1>3. CASE Approve(r)
  BY <1>0, <1>3, TypeRecord, TrailFacts, StateNames DEF Approve
<1>4. CASE WaitOwner(r)
  BY <1>0, <1>4, StateNames DEF WaitOwner
<1>5. CASE Complete(r)
  BY <1>5, TypeRecord, TrailFacts, StateNames DEF Complete
<1>6. CASE PublishIntent(r)
  BY <1>6 DEF PublishIntent, PublishUnchanged
<1>7. CASE PublishRef(r)
  <2>1. Workspace(r) \in Workspaces
    BY <1>0, LedgerAssumption DEF Workspace, PayloadType
  <2>2. tree' \in [Workspaces -> [Paths -> Contents]] /\ head' \in [Workspaces -> Nat]
    BY <1>7, <2>1, LedgerAssumption DEF PublishRef
  <2>3. QED
    BY <1>7, <2>2 DEF PublishRef, PublishUnchanged
<1>8. CASE PublishAbandon(r)
  BY <1>8 DEF PublishAbandon, PublishUnchanged
<1>9. CASE PublishFinalize(r)
  BY <1>9, TypeRecord, TrailFacts, StateNames DEF PublishFinalize, PublishUnchanged
<1>10. QED
  BY <1>1, <1>2, <1>3, <1>4, <1>5, <1>6, <1>7, <1>8, <1>9

LEMMA TypeWorkspace == TypeOK /\ WorkspaceStep => TypeOK'
<1>. SUFFICES ASSUME TypeOK, NEW w \in Workspaces,
                     (\E p \in Paths, c \in Contents : Edit(w, p, c)) \/ OutsideCommit(w)
              PROVE  TypeOK'
  BY DEF WorkspaceStep
<1>. USE DEF TypeOK, taskVars, runVars, gateVars, pauseVars, capVars, treeVars
<1>1. ASSUME NEW p \in Paths, NEW c \in Contents, Edit(w, p, c) PROVE TypeOK'
  BY <1>1 DEF Edit
<1>2. CASE OutsideCommit(w)
  BY <1>2, LedgerAssumption DEF OutsideCommit
<1>3. QED
  BY <1>1, <1>2

(* One step preserves the types of every table, file and call.                       *)
LEMMA TypeStep == TypeOK /\ [Next]_vars => TypeOK'
<1>1. TypeOK /\ UNCHANGED vars => TypeOK'
  BY DEF TypeOK, vars, taskVars, runVars, gateVars, pauseVars, capVars, treeVars
<1>2. QED
  BY <1>1, TypeQueue, TypeClaim, TypeWorker, TypeVerify, TypeGate, TypeWorkspace DEF Next

(* Type correctness: no operation of the ledger, in any interleaving, writes a state   *)
(* or a record outside the tables' vocabulary, nor a run beyond max_attempts.           *)
THEOREM TypeCorrect == Spec => []TypeOK
<1>1. QED
  BY TypeInit, TypeStep, PTL DEF Spec

-----------------------------------------------------------------------------
(* What every interleaving preserves.                                            *)

WORKING_RUN_STATES == {"NONE", "RUNNING", "RESULT_SUBMITTED"}

(* A row that is not inserted yet has no state, no capability and no claim call.  *)
UnclaimedRowsBlank ==
  \A r \in Runs : Attempt(r) > attempts[Task(r)] =>
    state[r] = "NONE" /\ capability[r] = "NONE" /\ r \notin claiming

(* The capability file is the last thing a claim writes, and dispatch needs it.   *)
ClaimingHasNoLease == \A r \in claiming : capability[r] = "NONE"
DispatchedHasLease == \A r \in unresolved : capability[r] # "NONE"

(* Verify calls and publications only ever concern runs whose worker is done.      *)
LateCallsAfterWork ==
  /\ \A v \in Verifiers : verifier[v].pc # "idle" =>
       state[verifier[v].run] \notin WORKING_RUN_STATES
  /\ \A r \in Runs : publication[r] \in {"PENDING", "COMMITTED"} =>
       state[r] \notin WORKING_RUN_STATES

LeaseInv ==
  /\ UnclaimedRowsBlank /\ ClaimingHasNoLease /\ DispatchedHasLease
  /\ LateCallsAfterWork
  /\ OneEditor /\ NoEffectOutlivesRun

(* The variables these invariants are about; steps that leave them alone preserve     *)
(* them.                                                                              *)
leaseVars == <<attempts, state, capability, claiming, unresolved, verifier, publication>>

LEMMA LeaseFrame == LeaseInv /\ UNCHANGED leaseVars => LeaseInv'
BY DEF LeaseInv, leaseVars, UnclaimedRowsBlank, ClaimingHasNoLease, DispatchedHasLease,
       LateCallsAfterWork, OneEditor, NoEffectOutlivesRun

LEMMA LeaseInit == Init => LeaseInv
BY RunFacts DEF Init, LeaseInv, UnclaimedRowsBlank, ClaimingHasNoLease, DispatchedHasLease,
       LateCallsAfterWork, OneEditor, NoEffectOutlivesRun, EDITING_RUN_STATES, IdleVerifier

(* Steps that only read the lease tables.                                               *)
LEMMA LeaseQuiet ==
  ASSUME TypeOK, LeaseInv, QueueStep \/ WorkspaceStep \/ UNCHANGED vars
  PROVE  UNCHANGED leaseVars
BY DEF QueueStep, LoadPlan, Pause, Resume, PauseProject, ResumeProject, CancelTask,
       WorkspaceStep, Edit, OutsideCommit, vars,
       taskVars, runVars, gateVars, pauseVars, capVars, treeVars, leaseVars

(* A new row is inserted only for a writer key nobody has reserved.                      *)
LEMMA LeaseReserve ==
  ASSUME TypeOK, LeaseInv, NEW t \in Tasks, ~AttemptsExhausted(t),
         ~WriterLocked(Payload[t].writer_key), Reserve(t),
         UNCHANGED <<capability, unresolved, verifier, publication>>
  PROVE  LeaseInv'
<1>. DEFINE n == <<t, attempts[t] + 1>>
<1>1. /\ n \in Runs /\ Task(n) = t /\ Attempt(n) = attempts[t] + 1 /\ attempts[t] \in Nat
      /\ WriterKey(n) = Payload[t].writer_key
  BY TypeReserve, NextRun, LedgerAssumption
  DEF TypeOK, AttemptsExhausted, PayloadType, WriterKey, Task, Attempt
<1>2. state[n] = "NONE" /\ capability[n] = "NONE"
  BY <1>1 DEF LeaseInv, UnclaimedRowsBlank
<1>3. /\ attempts' = [attempts EXCEPT ![t] = attempts[t] + 1]
      /\ state' = [state EXCEPT ![n] = "RUNNING"]
      /\ claiming' = claiming \cup {n}
  BY DEF Reserve
<1>. HIDE DEF n
<1>4. UnclaimedRowsBlank'
  BY <1>1, <1>3, RunFacts DEF LeaseInv, UnclaimedRowsBlank, TypeOK
<1>5. ClaimingHasNoLease' /\ DispatchedHasLease'
  BY <1>2, <1>3 DEF LeaseInv, ClaimingHasNoLease, DispatchedHasLease
<1>6. LateCallsAfterWork'
  BY <1>1, <1>2, <1>3 DEF LeaseInv, LateCallsAfterWork, TypeOK, VerifierType, WORKING_RUN_STATES
<1>7. OneEditor'
  BY <1>1, <1>3 DEF LeaseInv, OneEditor, TypeOK, WriterLocked, EDITING_RUN_STATES,
                    WRITER_LOCK_RUN_STATES, ACTIVE_RUN_STATES
<1>8. NoEffectOutlivesRun'
  BY <1>1, <1>3 DEF LeaseInv, NoEffectOutlivesRun, TypeOK
<1>9. QED
  BY <1>4, <1>5, <1>6, <1>7, <1>8 DEF LeaseInv

(* A run that has no unresolved effect moves on, with verify calls and publications   *)
(* only on runs that have left the worker.                                             *)
LEMMA LeaseMove ==
  ASSUME TypeOK, LeaseInv, NEW r \in Runs, NEW s,
         state' = [state EXCEPT ![r] = s], state[r] # "NONE", r \notin unresolved,
         \/ s = "RESULT_SUBMITTED" /\ state[r] = "RUNNING"
         \/ s \notin WORKING_RUN_STATES,
         UNCHANGED <<attempts, unresolved, capability, claiming>>,
         LateCallsAfterWork'
  PROVE  LeaseInv'
<1>1. UnclaimedRowsBlank'
  BY DEF LeaseInv, UnclaimedRowsBlank, TypeOK
<1>2. ClaimingHasNoLease' /\ DispatchedHasLease'
  BY DEF LeaseInv, ClaimingHasNoLease, DispatchedHasLease
<1>3. OneEditor'
  BY DEF LeaseInv, OneEditor, TypeOK, EDITING_RUN_STATES, WORKING_RUN_STATES
<1>4. NoEffectOutlivesRun'
  BY DEF LeaseInv, NoEffectOutlivesRun, TypeOK
<1>5. QED
  BY <1>1, <1>2, <1>3, <1>4 DEF LeaseInv

LEMMA LeaseClaim == TypeOK /\ LeaseInv /\ ClaimStep => LeaseInv'
<1>. SUFFICES ASSUME TypeOK, LeaseInv, ClaimStep PROVE LeaseInv'
  OBVIOUS
<1>. USE DEF taskVars, runVars, gateVars, pauseVars, capVars, treeVars
<1>1. ASSUME NEW wanted \in ProjectFilters, ClaimNoWork(wanted) PROVE LeaseInv'
  BY <1>1, LeaseFrame DEF ClaimNoWork, leaseVars
<1>2. ASSUME NEW wanted \in ProjectFilters, NEW t \in Tasks, ClaimBlocked(t, wanted) PROVE LeaseInv'
  BY <1>2, LeaseFrame DEF ClaimBlocked, leaseVars
<1>3. ASSUME NEW wanted \in ProjectFilters, NEW t \in Tasks, Claim(t, wanted) PROVE LeaseInv'
  BY <1>3, LeaseReserve DEF Claim, Selected, Selectable
<1>4. ASSUME NEW r \in Runs, RepairClaim(r) PROVE LeaseInv'
  BY <1>4, LeaseReserve, RunFacts DEF RepairClaim
<1>5. ASSUME NEW r \in Runs, WriteCapability(r) PROVE LeaseInv'
  BY <1>5 DEF WriteCapability, LeaseInv, UnclaimedRowsBlank, ClaimingHasNoLease,
    DispatchedHasLease, LateCallsAfterWork, OneEditor, NoEffectOutlivesRun, TypeOK
<1>6. ASSUME NEW r \in Runs, WriteCapabilityFails(r) PROVE LeaseInv'
  <2>1. r \notin unresolved /\ ~(Attempt(r) > attempts[Task(r)])
    BY <1>6 DEF WriteCapabilityFails, LeaseInv, ClaimingHasNoLease, DispatchedHasLease,
      UnclaimedRowsBlank
  <2>2. state' = [state EXCEPT ![r] = "ABORTED"]
    BY <1>6 DEF WriteCapabilityFails, Record
  <2>3. PICK left \in {"NONE", "LIVE"} : capability' = [capability EXCEPT ![r] = left]
    BY <1>6 DEF WriteCapabilityFails
  <2>4. UNCHANGED <<attempts, unresolved, verifier, publication>> /\ claiming' = claiming \ {r}
    BY <1>6 DEF WriteCapabilityFails
  <2>5. UnclaimedRowsBlank'
    BY <2>1, <2>2, <2>3, <2>4 DEF LeaseInv, UnclaimedRowsBlank, TypeOK
  <2>6. ClaimingHasNoLease' /\ DispatchedHasLease'
    BY <2>1, <2>3, <2>4 DEF LeaseInv, ClaimingHasNoLease, DispatchedHasLease, TypeOK
  <2>7. LateCallsAfterWork'
    BY <2>2, <2>4 DEF LeaseInv, LateCallsAfterWork, WORKING_RUN_STATES, TypeOK, VerifierType
  <2>8. OneEditor' /\ NoEffectOutlivesRun'
    BY <2>1, <2>2, <2>4 DEF LeaseInv, OneEditor, NoEffectOutlivesRun, EDITING_RUN_STATES, TypeOK
  <2>9. QED
    BY <2>5, <2>6, <2>7, <2>8 DEF LeaseInv
<1>7. ASSUME NEW r \in Runs, ClaimCrash(r) PROVE LeaseInv'
  BY <1>7 DEF ClaimCrash, LeaseInv, UnclaimedRowsBlank, ClaimingHasNoLease,
    DispatchedHasLease, LateCallsAfterWork, OneEditor, NoEffectOutlivesRun, TypeOK
<1>8. QED
  BY <1>1, <1>2, <1>3, <1>4, <1>5, <1>6, <1>7 DEF ClaimStep

LEMMA LeaseWorker == TypeOK /\ LeaseInv /\ WorkerStep => LeaseInv'
<1>. SUFFICES ASSUME TypeOK, LeaseInv, WorkerStep PROVE LeaseInv'
  OBVIOUS
<1>. USE DEF taskVars, runVars, gateVars, pauseVars, capVars, treeVars
<1>1. ASSUME NEW r \in Runs, Dispatch(r) PROVE LeaseInv'
  BY <1>1 DEF Dispatch, HoldsLease, LeaseInv, UnclaimedRowsBlank, ClaimingHasNoLease,
    DispatchedHasLease, LateCallsAfterWork, OneEditor, NoEffectOutlivesRun, TypeOK
<1>2. ASSUME NEW r \in Runs, ObserveExit(r) PROVE LeaseInv'
  BY <1>2 DEF ObserveExit, LeaseInv, UnclaimedRowsBlank, ClaimingHasNoLease,
    DispatchedHasLease, LateCallsAfterWork, OneEditor, NoEffectOutlivesRun, TypeOK
<1>3. ASSUME NEW r \in Runs, Quiesce(r) PROVE LeaseInv'
  <2>1. LateCallsAfterWork'
    BY <1>3 DEF Quiesce, LeaseInv, LateCallsAfterWork, WORKING_RUN_STATES, TypeOK, VerifierType
  <2>2. QED
    BY <1>3, <2>1, LeaseMove DEF Quiesce, Resolved, WORKING_RUN_STATES
<1>4. ASSUME NEW r \in Runs, NEW changed \in SUBSET Paths, Submit(r, changed) PROVE LeaseInv'
  <2>1. LateCallsAfterWork'
    BY <1>4 DEF Submit, LeaseInv, LateCallsAfterWork, WORKING_RUN_STATES, TypeOK, VerifierType
  <2>2. QED
    BY <1>4, <2>1, LeaseMove DEF Submit, Resolved
<1>5. ASSUME NEW r \in Runs, NEW retry \in BOOLEAN, Abort(r, retry) PROVE LeaseInv'
  <2>1. state' = [state EXCEPT ![r] = "ABORTED"] /\ state[r] # "NONE"
    BY <1>5 DEF Abort, Record, ACTIVE_RUN_STATES
  <2>2. LateCallsAfterWork'
    BY <1>5, <2>1 DEF Abort, LeaseInv, LateCallsAfterWork, WORKING_RUN_STATES, TypeOK, VerifierType
  <2>3. QED
    BY <1>5, <2>1, <2>2, LeaseMove DEF Abort, Resolved, WORKING_RUN_STATES
<1>6. CASE RevokeCapability
  BY <1>6 DEF RevokeCapability, Unlinked, LeaseInv, UnclaimedRowsBlank, ClaimingHasNoLease,
    DispatchedHasLease, LateCallsAfterWork, OneEditor, NoEffectOutlivesRun, TypeOK
<1>7. CASE RevokeCrash
  BY <1>7, LeaseFrame DEF RevokeCrash, leaseVars
<1>8. CASE PruneCapabilities
  BY <1>8 DEF PruneCapabilities, LeaseInv, UnclaimedRowsBlank, ClaimingHasNoLease,
    DispatchedHasLease, LateCallsAfterWork, OneEditor, NoEffectOutlivesRun, TypeOK
<1>9. QED
  BY <1>1, <1>2, <1>3, <1>4, <1>5, <1>6, <1>7, <1>8 DEF WorkerStep

(* A verify call between two of its transactions: the tables do not move.              *)
LEMMA LeaseVerifierOnly ==
  ASSUME TypeOK, LeaseInv, NEW v \in Verifiers, NEW x,
         verifier' = [verifier EXCEPT ![v] = x],
         \/ x.pc = "idle"
         \/ x.run \in Runs /\ state[x.run] \notin WORKING_RUN_STATES,
         UNCHANGED <<attempts, state, claiming, unresolved, publication>>,
         \/ UNCHANGED capability
         \/ \E r \in Runs : capability' = Unlinked(r)
  PROVE  LeaseInv'
<1>1. LateCallsAfterWork'
  BY DEF LeaseInv, LateCallsAfterWork, TypeOK
<1>2. \A r \in Runs : capability'[r] = "NONE" <=> capability[r] = "NONE"
  BY DEF Unlinked, TypeOK
<1>3. QED
  BY <1>1, <1>2 DEF LeaseInv, UnclaimedRowsBlank, ClaimingHasNoLease,
    DispatchedHasLease, OneEditor, NoEffectOutlivesRun, TypeOK

LEMMA LeaseVerify == TypeOK /\ LeaseInv /\ VerifyStep => LeaseInv'
<1>. SUFFICES ASSUME TypeOK, LeaseInv, NEW v \in Verifiers,
                     \/ \E r \in Runs : VerifyStart(v, r)
                     \/ VerifyScope(v) \/ VerifySnapshot(v)
                     \/ \E passed \in BOOLEAN : VerifyChecks(v, passed)
                     \/ VerifyBlocked(v) \/ VerifyRevoke(v) \/ VerifyCrash(v) \/ VerifyCommit(v)
              PROVE  LeaseInv'
  BY DEF VerifyStep
<1>. USE DEF taskVars, runVars, gateVars, pauseVars, capVars, treeVars
<1>0. verifier[v].pc # "idle" =>
        /\ verifier[v].run \in Runs /\ state[verifier[v].run] \notin WORKING_RUN_STATES
        /\ verifier[v].run \notin unresolved
  BY DEF TypeOK, VerifierType, LeaseInv, LateCallsAfterWork, NoEffectOutlivesRun,
         WORKING_RUN_STATES
<1>1. ASSUME NEW r \in Runs, VerifyStart(v, r) PROVE LeaseInv'
  <2>. DEFINE x == [IdleVerifier EXCEPT !.run = r, !.pc = "scope"]
  <2>1. x.run = r /\ state[r] \notin WORKING_RUN_STATES
    BY <1>1 DEF VerifyStart, WORKING_RUN_STATES, IdleVerifier
  <2>2. verifier' = [verifier EXCEPT ![v] = x]
    BY <1>1 DEF VerifyStart
  <2>. HIDE DEF x
  <2>3. QED
    BY <1>1, <2>1, <2>2, LeaseVerifierOnly DEF VerifyStart, VerifyUnchanged
<1>2. CASE VerifyScope(v) \/ VerifySnapshot(v) \/ \E passed \in BOOLEAN : VerifyChecks(v, passed)
  <2>1. PICK x : /\ verifier' = [verifier EXCEPT ![v] = x]
                 /\ x.run = verifier[v].run /\ verifier[v].pc # "idle"
    <3>1. CASE VerifyScope(v)
      BY ZenonT(40), <3>1 DEF VerifyScope, TypeOK, VerifierType
    <3>2. CASE VerifySnapshot(v)
      BY <3>2 DEF VerifySnapshot, TypeOK, VerifierType
    <3>3. ASSUME NEW passed \in BOOLEAN, VerifyChecks(v, passed)
          PROVE  \E x : /\ verifier' = [verifier EXCEPT ![v] = x]
                        /\ x.run = verifier[v].run /\ verifier[v].pc # "idle"
      BY <3>3 DEF VerifyChecks, TypeOK, VerifierType
    <3>4. QED
      BY <1>2, <3>1, <3>2, <3>3
  <2>2. VerifyUnchanged
    BY <1>2 DEF VerifyScope, VerifySnapshot, VerifyChecks
  <2>3. QED
    BY <1>0, <2>1, <2>2, LeaseVerifierOnly DEF VerifyUnchanged
<1>3. CASE VerifyBlocked(v)
  <2>. DEFINE r == verifier[v].run
  <2>1. r \in Runs /\ state[r] = "VERIFYING" /\ r \notin unresolved
    BY <1>0, <1>3 DEF VerifyBlocked
  <2>2. state' = [state EXCEPT ![r] = "BLOCKED"]
        /\ verifier' = [verifier EXCEPT ![v].pc = "revoke"]
    BY <1>3 DEF VerifyBlocked, Record
  <2>3. LateCallsAfterWork'
    BY <1>3, <2>1, <2>2 DEF VerifyBlocked, LeaseInv, LateCallsAfterWork, WORKING_RUN_STATES,
      TypeOK, VerifierType
  <2>4. QED
    BY <1>3, <2>1, <2>2, <2>3, LeaseMove DEF VerifyBlocked, WORKING_RUN_STATES
<1>4. CASE VerifyRevoke(v)
  BY <1>0, <1>4, LeaseVerifierOnly DEF VerifyRevoke, IdleVerifier
<1>5. CASE VerifyCrash(v)
  BY <1>5, LeaseVerifierOnly DEF VerifyCrash, VerifyUnchanged, IdleVerifier
<1>6. CASE VerifyCommit(v)
  <2>. DEFINE r == verifier[v].run
  <2>1. r \in Runs /\ state[r] # "NONE" /\ r \notin unresolved
    BY <1>0, <1>6 DEF VerifyCommit, WORKING_RUN_STATES
  <2>2. PICK s \in {"NEEDS_FIX", "REVIEWING", "VERIFIED"} : state' = [state EXCEPT ![r] = s]
    BY <1>6 DEF VerifyCommit, Record
  <2>3. LateCallsAfterWork'
    BY <1>6, <2>1, <2>2 DEF VerifyCommit, LeaseInv, LateCallsAfterWork, WORKING_RUN_STATES,
      TypeOK, VerifierType, IdleVerifier
  <2>4. QED
    BY <1>6, <2>1, <2>2, <2>3, LeaseMove DEF VerifyCommit, WORKING_RUN_STATES
<1>7. QED
  BY <1>1, <1>2, <1>3, <1>4, <1>5, <1>6

LEMMA LeaseGate == TypeOK /\ LeaseInv /\ GateStep => LeaseInv'
<1>. SUFFICES ASSUME TypeOK, LeaseInv, NEW r \in Runs,
                     \/ WriteReport(r)
                     \/ \E verdict \in {"PASS", "NEEDS_FIX", "BLOCKED"} : ImportReview(r, verdict)
                     \/ Approve(r) \/ WaitOwner(r) \/ Complete(r)
                     \/ PublishIntent(r) \/ PublishRef(r) \/ PublishAbandon(r)
                     \/ PublishFinalize(r)
              PROVE  LeaseInv'
  BY DEF GateStep
<1>. USE DEF taskVars, runVars, gateVars, pauseVars, capVars, treeVars
<1>1. CASE WriteReport(r) \/ WaitOwner(r)
  BY <1>1, LeaseFrame DEF WriteReport, WaitOwner, leaseVars
<1>2. CASE Approve(r)
  BY <1>2, LeaseFrame DEF Approve, Record, leaseVars, TypeOK
<1>3. ASSUME NEW verdict \in {"PASS", "NEEDS_FIX", "BLOCKED"}, ImportReview(r, verdict)
      PROVE  LeaseInv'
  <2>1. PICK s \in {"VERIFIED", "NEEDS_FIX"} : state' = [state EXCEPT ![r] = s]
    BY <1>3 DEF ImportReview, Record
  <2>2. state[r] = "REVIEWING" /\ r \notin unresolved
    BY <1>3 DEF ImportReview, LeaseInv, NoEffectOutlivesRun
  <2>3. LateCallsAfterWork'
    BY <1>3, <2>1 DEF ImportReview, LeaseInv, LateCallsAfterWork, WORKING_RUN_STATES, TypeOK,
      VerifierType
  <2>4. QED
    BY <1>3, <2>1, <2>2, <2>3, LeaseMove DEF ImportReview, WORKING_RUN_STATES
<1>4. CASE Complete(r)
  <2>1. state' = [state EXCEPT ![r] = "COMPLETE"] /\ state[r] = "VERIFIED" /\ r \notin unresolved
    BY <1>4 DEF Complete, Record, LeaseInv, NoEffectOutlivesRun
  <2>2. LateCallsAfterWork'
    BY <1>4, <2>1 DEF Complete, LeaseInv, LateCallsAfterWork, WORKING_RUN_STATES, TypeOK,
      VerifierType
  <2>3. QED
    BY <1>4, <2>1, <2>2, LeaseMove DEF Complete, WORKING_RUN_STATES
<1>5. CASE PublishIntent(r) \/ PublishRef(r) \/ PublishAbandon(r)
  <2>1. /\ UNCHANGED <<attempts, state, capability, claiming, unresolved, verifier>>
        /\ \E s \in {"PENDING", "COMMITTED", "ABANDONED"} :
             publication' = [publication EXCEPT ![r] = s]
        /\ state[r] \notin WORKING_RUN_STATES
    BY <1>5 DEF PublishIntent, PublishRef, PublishAbandon, PublishUnchanged, LeaseInv,
      LateCallsAfterWork, WORKING_RUN_STATES
  <2>2. LateCallsAfterWork'
    BY <2>1 DEF LeaseInv, LateCallsAfterWork, TypeOK
  <2>3. QED
    BY <2>1, <2>2 DEF LeaseInv, UnclaimedRowsBlank, ClaimingHasNoLease, DispatchedHasLease,
      OneEditor, NoEffectOutlivesRun
<1>6. CASE PublishFinalize(r)
  <2>1. /\ state' = [state EXCEPT ![r] = "COMPLETE"] /\ state[r] \notin WORKING_RUN_STATES
        /\ r \notin unresolved /\ publication' = [publication EXCEPT ![r] = "COMPLETE"]
    BY <1>6 DEF PublishFinalize, Record, LeaseInv, NoEffectOutlivesRun, LateCallsAfterWork,
      WORKING_RUN_STATES
  <2>2. LateCallsAfterWork'
    BY <1>6, <2>1 DEF PublishFinalize, PublishUnchanged, LeaseInv, LateCallsAfterWork,
      WORKING_RUN_STATES, TypeOK, VerifierType
  <2>3. QED
    BY <1>6, <2>1, <2>2, LeaseMove DEF PublishFinalize, PublishUnchanged, WORKING_RUN_STATES
<1>7. QED
  BY <1>1, <1>2, <1>3, <1>4, <1>5, <1>6

LEMMA LeaseStep == TypeOK /\ LeaseInv /\ [Next]_vars => LeaseInv'
<1>1. TypeOK /\ LeaseInv /\ (QueueStep \/ WorkspaceStep \/ UNCHANGED vars) => LeaseInv'
  BY LeaseQuiet, LeaseFrame
<1>2. QED
  BY <1>1, LeaseClaim, LeaseWorker, LeaseVerify, LeaseGate DEF Next

(* Whatever claims, aborts, verify calls and crashes interleave, two runs of one       *)
(* writer key are never both RUNNING or RESULT_SUBMITTED.                              *)
THEOREM OneEditorHolds == Spec => []OneEditor
<1>1. LeaseInv => OneEditor
  BY DEF LeaseInv
<1>2. QED
  BY <1>1, TypeInit, TypeStep, LeaseInit, LeaseStep, PTL DEF Spec

(* No run leaves RUNNING while a dispatched process or patch has no recorded outcome.   *)
THEOREM NoEffectOutlivesRunHolds == Spec => []NoEffectOutlivesRun
<1>1. LeaseInv => NoEffectOutlivesRun
  BY DEF LeaseInv
<1>2. QED
  BY <1>1, TypeInit, TypeStep, LeaseInit, LeaseStep, PTL DEF Spec

-----------------------------------------------------------------------------
(* The writer reservation.                                                   *)

VERIFIER_AT_WORK == {"scope", "snapshot", "checks", "commit"}

(* The final transaction of verify does not read the state again: these parts say    *)
(* that nobody has changed it meanwhile.                                             *)
VerifierHolds ==
  \A v \in Verifiers : verifier[v].pc \in VERIFIER_AT_WORK =>
    state[verifier[v].run] = "VERIFYING"
OneVerifierPerRun ==
  \A u, v \in Verifiers :
    verifier[u].pc # "idle" /\ verifier[v].pc # "idle" /\ verifier[u].run = verifier[v].run
    => u = v
(* Nor does the transaction that withdraws a claim whose capability failed, ...      *)
ClaimingRuns == \A r \in claiming : state[r] = "RUNNING"
(* ... nor the one that finalises a publication.                                     *)
PublishingVerified ==
  \A r \in Runs : publication[r] \in {"PENDING", "COMMITTED"} =>
    state[r] = "VERIFIED" /\ Payload[Task(r)].publication = "git"

SerialInv ==
  VerifierHolds /\ OneVerifierPerRun /\ ClaimingRuns /\ PublishingVerified /\ SingleWriter

(* How a run's state may move in one step, given the state everyone else is in.      *)
Opens(r) ==
  /\ state[r] = "NONE" /\ ~WriterLocked(WriterKey(r))
  /\ state' = [state EXCEPT ![r] = "RUNNING"]
Advances(r) ==
  /\ state[r] \in WRITER_LOCK_RUN_STATES
  /\ \E s \in WRITER_LOCK_RUN_STATES : state' = [state EXCEPT ![r] = s]
Closes(r) ==
  /\ state[r] \in WRITER_LOCK_RUN_STATES
  /\ \E s \in CLOSED_RUN_STATES : state' = [state EXCEPT ![r] = s]
Moves == state' = state \/ \E r \in Runs : Opens(r) \/ Advances(r) \/ Closes(r)

LEMMA RunStateNames ==
  /\ WRITER_LOCK_RUN_STATES = {"RUNNING", "RESULT_SUBMITTED", "QUIESCING", "VERIFYING",
                               "REVIEWING", "VERIFIED"}
  /\ CLOSED_RUN_STATES = {"NEEDS_FIX", "BLOCKED", "ABORTED", "COMPLETE"}
BY DEF WRITER_LOCK_RUN_STATES, ACTIVE_RUN_STATES, CLOSED_RUN_STATES

(* A claim reserves a key nobody holds, for a row that did not exist.                 *)
LEMMA ReserveOpens ==
  ASSUME TypeOK, LeaseInv, NEW t \in Tasks, ~AttemptsExhausted(t),
         ~WriterLocked(Payload[t].writer_key), Reserve(t)
  PROVE  \E r \in Runs : Opens(r) /\ r = <<t, attempts[t] + 1>>
<1>. DEFINE n == <<t, attempts[t] + 1>>
<1>1. /\ n \in Runs /\ Task(n) = t /\ Attempt(n) = attempts[t] + 1 /\ attempts[t] \in Nat
      /\ WriterKey(n) = Payload[t].writer_key
  BY TypeReserve, NextRun, LedgerAssumption
  DEF TypeOK, AttemptsExhausted, PayloadType, WriterKey, Task, Attempt
<1>2. state[n] = "NONE"
  BY <1>1 DEF LeaseInv, UnclaimedRowsBlank
<1>3. state' = [state EXCEPT ![n] = "RUNNING"]
  BY DEF Reserve
<1>4. QED
  BY <1>1, <1>2, <1>3 DEF Opens

LEMMA MovesClaim == TypeOK /\ LeaseInv /\ SerialInv /\ ClaimStep => Moves
<1>. SUFFICES ASSUME TypeOK, LeaseInv, SerialInv, ClaimStep PROVE Moves
  OBVIOUS
<1>. USE DEF taskVars, runVars, gateVars, pauseVars, capVars, treeVars
<1>1. ASSUME NEW wanted \in ProjectFilters, ClaimNoWork(wanted) PROVE Moves
  BY <1>1 DEF ClaimNoWork, Moves
<1>2. ASSUME NEW wanted \in ProjectFilters, NEW t \in Tasks, ClaimBlocked(t, wanted) PROVE Moves
  BY <1>2 DEF ClaimBlocked, Moves
<1>3. ASSUME NEW wanted \in ProjectFilters, NEW t \in Tasks, Claim(t, wanted) PROVE Moves
  BY <1>3, ReserveOpens DEF Claim, Selected, Selectable, Moves
<1>4. ASSUME NEW r \in Runs, RepairClaim(r) PROVE Moves
  BY <1>4, ReserveOpens, RunFacts DEF RepairClaim, Moves
<1>5. ASSUME NEW r \in Runs, WriteCapability(r) \/ ClaimCrash(r) PROVE Moves
  BY <1>5 DEF WriteCapability, ClaimCrash, Moves
<1>6. ASSUME NEW r \in Runs, WriteCapabilityFails(r) PROVE Moves
  <2>1. state[r] = "RUNNING" /\ state' = [state EXCEPT ![r] = "ABORTED"]
    BY <1>6 DEF WriteCapabilityFails, Record, SerialInv, ClaimingRuns
  <2>2. Closes(r)
    BY <2>1, RunStateNames DEF Closes
  <2>3. QED
    BY <2>2 DEF Moves
<1>7. QED
  BY <1>1, <1>2, <1>3, <1>4, <1>5, <1>6 DEF ClaimStep

LEMMA MovesWorker == TypeOK /\ LeaseInv /\ SerialInv /\ WorkerStep => Moves
<1>. SUFFICES ASSUME TypeOK, LeaseInv, SerialInv, WorkerStep PROVE Moves
  OBVIOUS
<1>. USE DEF taskVars, runVars, gateVars, pauseVars, capVars, treeVars
<1>1. ASSUME NEW r \in Runs, Dispatch(r) \/ ObserveExit(r) PROVE Moves
  BY <1>1 DEF Dispatch, ObserveExit, Moves
<1>2. ASSUME NEW r \in Runs, Quiesce(r) PROVE Moves
  <2>1. Advances(r)
    BY <1>2, RunStateNames DEF Quiesce, Advances
  <2>2. QED
    BY <2>1 DEF Moves
<1>3. ASSUME NEW r \in Runs, NEW changed \in SUBSET Paths, Submit(r, changed) PROVE Moves
  <2>1. Advances(r)
    BY <1>3, RunStateNames DEF Submit, Advances
  <2>2. QED
    BY <2>1 DEF Moves
<1>4. ASSUME NEW r \in Runs, NEW retry \in BOOLEAN, Abort(r, retry) PROVE Moves
  <2>1. Closes(r)
    BY <1>4, RunStateNames DEF Abort, Record, Closes, WRITER_LOCK_RUN_STATES
  <2>2. QED
    BY <2>1 DEF Moves
<1>5. CASE RevokeCapability \/ RevokeCrash \/ PruneCapabilities
  BY <1>5 DEF RevokeCapability, RevokeCrash, PruneCapabilities, Moves
<1>6. QED
  BY <1>1, <1>2, <1>3, <1>4, <1>5 DEF WorkerStep

LEMMA MovesVerify == TypeOK /\ LeaseInv /\ SerialInv /\ VerifyStep => Moves
<1>. SUFFICES ASSUME TypeOK, LeaseInv, SerialInv, NEW v \in Verifiers,
                     \/ \E r \in Runs : VerifyStart(v, r)
                     \/ VerifyScope(v) \/ VerifySnapshot(v)
                     \/ \E passed \in BOOLEAN : VerifyChecks(v, passed)
                     \/ VerifyBlocked(v) \/ VerifyRevoke(v) \/ VerifyCrash(v) \/ VerifyCommit(v)
              PROVE  Moves
  BY DEF VerifyStep
<1>. USE DEF taskVars, runVars, gateVars, pauseVars, capVars, treeVars
<1>. DEFINE r == verifier[v].run
<1>1. CASE VerifyBlocked(v) \/ VerifyCommit(v)
  <2>1. r \in Runs /\ state[r] = "VERIFYING"
    BY <1>1 DEF VerifyBlocked, VerifyCommit, TypeOK, VerifierType, SerialInv, VerifierHolds,
      VERIFIER_AT_WORK
  <2>2. \E s \in {"BLOCKED", "NEEDS_FIX", "REVIEWING", "VERIFIED"} : state' = [state EXCEPT ![r] = s]
    BY <1>1 DEF VerifyBlocked, VerifyCommit, Record
  <2>3. Advances(r) \/ Closes(r)
    BY <2>1, <2>2, RunStateNames DEF Advances, Closes
  <2>4. QED
    BY <2>1, <2>3 DEF Moves
<1>2. CASE ~(VerifyBlocked(v) \/ VerifyCommit(v))
  BY <1>2 DEF VerifyStart, VerifyScope, VerifySnapshot, VerifyChecks, VerifyRevoke, VerifyCrash,
    VerifyUnchanged, Moves
<1>3. QED
  BY <1>1, <1>2

LEMMA MovesGate == TypeOK /\ LeaseInv /\ SerialInv /\ GateStep => Moves
<1>. SUFFICES ASSUME TypeOK, LeaseInv, SerialInv, NEW r \in Runs,
                     \/ WriteReport(r)
                     \/ \E verdict \in {"PASS", "NEEDS_FIX", "BLOCKED"} : ImportReview(r, verdict)
                     \/ Approve(r) \/ WaitOwner(r) \/ Complete(r)
                     \/ PublishIntent(r) \/ PublishRef(r) \/ PublishAbandon(r)
                     \/ PublishFinalize(r)
              PROVE  Moves
  BY DEF GateStep
<1>. USE DEF taskVars, runVars, gateVars, pauseVars, capVars, treeVars
<1>1. CASE WriteReport(r) \/ WaitOwner(r) \/ PublishIntent(r) \/ PublishRef(r) \/ PublishAbandon(r)
  BY <1>1 DEF WriteReport, WaitOwner, PublishIntent, PublishRef, PublishAbandon, Moves
<1>2. ASSUME NEW verdict \in {"PASS", "NEEDS_FIX", "BLOCKED"}, ImportReview(r, verdict)
      PROVE  Moves
  <2>1. /\ state[r] = "REVIEWING"
        /\ \E s \in {"VERIFIED", "NEEDS_FIX"} : state' = [state EXCEPT ![r] = s]
    BY <1>2 DEF ImportReview, Record
  <2>2. Advances(r) \/ Closes(r)
    BY <2>1, RunStateNames DEF Advances, Closes
  <2>3. QED
    BY <2>2 DEF Moves
<1>3. CASE Approve(r)
  BY <1>3 DEF Approve, Record, Moves, TypeOK
<1>4. CASE Complete(r) \/ PublishFinalize(r)
  <2>1. state[r] = "VERIFIED" /\ state' = [state EXCEPT ![r] = "COMPLETE"]
    BY <1>4 DEF Complete, PublishFinalize, Record, SerialInv, PublishingVerified
  <2>2. Closes(r)
    BY <2>1, RunStateNames DEF Closes
  <2>3. QED
    BY <2>2 DEF Moves
<1>5. QED
  BY <1>1, <1>2, <1>3, <1>4

LEMMA MovesStep == TypeOK /\ LeaseInv /\ SerialInv /\ [Next]_vars => Moves
<1>1. TypeOK /\ LeaseInv /\ (QueueStep \/ WorkspaceStep \/ UNCHANGED vars) => Moves
  BY LeaseQuiet DEF leaseVars, Moves
<1>2. QED
  BY <1>1, MovesClaim, MovesWorker, MovesVerify, MovesGate DEF Next

(* Moves alone keeps the reservation exclusive.                                       *)
LEMMA MovesExclusive == TypeOK /\ SingleWriter /\ Moves => SingleWriter'
<1>. SUFFICES ASSUME TypeOK, SingleWriter, Moves PROVE SingleWriter'
  OBVIOUS
<1>1. CASE state' = state
  BY <1>1 DEF SingleWriter
<1>2. ASSUME NEW r \in Runs, Opens(r) PROVE SingleWriter'
  BY <1>2, RunStateNames DEF Opens, WriterLocked, SingleWriter, TypeOK
<1>3. ASSUME NEW r \in Runs, Advances(r) PROVE SingleWriter'
  BY <1>3 DEF Advances, SingleWriter, TypeOK
<1>4. ASSUME NEW r \in Runs, Closes(r) PROVE SingleWriter'
  BY <1>4, RunStateNames DEF Closes, SingleWriter, TypeOK
<1>5. QED
  BY <1>1, <1>2, <1>3, <1>4 DEF Moves

-----------------------------------------------------------------------------
(* The other parts, action by action.                                               *)

SerialParts == VerifierHolds /\ OneVerifierPerRun /\ ClaimingRuns /\ PublishingVerified

serialVars == <<state, claiming, verifier, publication>>

LEMMA SerialFrame == SerialParts /\ UNCHANGED serialVars => SerialParts'
BY DEF SerialParts, serialVars, VerifierHolds, OneVerifierPerRun, ClaimingRuns, PublishingVerified

(* The state of r changes and nothing but r is let go: no verify call is at work on it,  *)
(* no claim call and no publication depends on it.                                       *)
LEMMA SerialMove ==
  ASSUME TypeOK, SerialParts, NEW r \in Runs, NEW s, state' = [state EXCEPT ![r] = s],
         UNCHANGED <<verifier, publication>>, claiming' \subseteq claiming,
         \A v \in Verifiers : verifier[v].pc \in VERIFIER_AT_WORK => verifier[v].run # r,
         r \notin claiming',
         publication[r] \notin {"PENDING", "COMMITTED"}
  PROVE  SerialParts'
BY DEF TypeOK, VerifierType, SerialParts, VerifierHolds, OneVerifierPerRun, ClaimingRuns,
       PublishingVerified, VERIFIER_AT_WORK

LEMMA SerialReserve ==
  ASSUME TypeOK, LeaseInv, SerialParts, NEW t \in Tasks, ~AttemptsExhausted(t),
         ~WriterLocked(Payload[t].writer_key), Reserve(t),
         UNCHANGED <<verifier, publication>>
  PROVE  SerialParts'
<1>1. PICK n \in Runs : Opens(n) /\ n = <<t, attempts[t] + 1>>
  BY ReserveOpens
<1>2. state' = [state EXCEPT ![n] = "RUNNING"] /\ state[n] = "NONE" /\ claiming' = claiming \cup {n}
  BY <1>1 DEF Opens, Reserve
<1>3. QED
  BY <1>2 DEF TypeOK, VerifierType, SerialParts, VerifierHolds, OneVerifierPerRun, ClaimingRuns,
    PublishingVerified, VERIFIER_AT_WORK

LEMMA SerialClaim == Serialized /\ TypeOK /\ LeaseInv /\ SerialParts /\ ClaimStep => SerialParts'
<1>. SUFFICES ASSUME Serialized, TypeOK, LeaseInv, SerialParts, ClaimStep PROVE SerialParts'
  OBVIOUS
<1>. USE DEF taskVars, runVars, gateVars, pauseVars, capVars, treeVars
<1>1. ASSUME NEW wanted \in ProjectFilters, ClaimNoWork(wanted) PROVE SerialParts'
  BY <1>1, SerialFrame DEF ClaimNoWork, serialVars
<1>2. ASSUME NEW wanted \in ProjectFilters, NEW t \in Tasks, ClaimBlocked(t, wanted)
      PROVE  SerialParts'
  BY <1>2, SerialFrame DEF ClaimBlocked, serialVars
<1>3. ASSUME NEW wanted \in ProjectFilters, NEW t \in Tasks, Claim(t, wanted) PROVE SerialParts'
  BY <1>3, SerialReserve DEF Claim, Selected, Selectable
<1>4. ASSUME NEW r \in Runs, RepairClaim(r) PROVE SerialParts'
  BY <1>4, SerialReserve, RunFacts DEF RepairClaim
<1>5. ASSUME NEW r \in Runs, WriteCapability(r) \/ ClaimCrash(r) PROVE SerialParts'
  BY <1>5 DEF WriteCapability, ClaimCrash, SerialParts, VerifierHolds, OneVerifierPerRun,
    ClaimingRuns, PublishingVerified
<1>6. ASSUME NEW r \in Runs, WriteCapabilityFails(r) PROVE SerialParts'
  <2>1. state[r] = "RUNNING" /\ state' = [state EXCEPT ![r] = "ABORTED"]
    BY <1>6 DEF WriteCapabilityFails, Record, SerialParts, ClaimingRuns
  <2>2. /\ \A v \in Verifiers : verifier[v].pc \in VERIFIER_AT_WORK => verifier[v].run # r
        /\ publication[r] \notin {"PENDING", "COMMITTED"}
    BY <2>1 DEF SerialParts, VerifierHolds, PublishingVerified
  <2>3. QED
    BY <1>6, <2>1, <2>2, SerialMove DEF WriteCapabilityFails
<1>7. QED
  BY <1>1, <1>2, <1>3, <1>4, <1>5, <1>6 DEF ClaimStep

LEMMA SerialWorker == Serialized /\ TypeOK /\ LeaseInv /\ SerialParts /\ WorkerStep => SerialParts'
<1>. SUFFICES ASSUME Serialized, TypeOK, LeaseInv, SerialParts, WorkerStep PROVE SerialParts'
  OBVIOUS
<1>. USE DEF taskVars, runVars, gateVars, pauseVars, capVars, treeVars
<1>1. ASSUME NEW r \in Runs, Dispatch(r) \/ ObserveExit(r) PROVE SerialParts'
  BY <1>1, SerialFrame DEF Dispatch, ObserveExit, serialVars
<1>2. ASSUME NEW r \in Runs, NEW s, HoldsLease(r), state[r] \in {"RUNNING", "RESULT_SUBMITTED"},
             state' = [state EXCEPT ![r] = s], UNCHANGED <<verifier, publication, claiming>>
      PROVE  SerialParts'
  <2>1. /\ \A v \in Verifiers : verifier[v].pc \in VERIFIER_AT_WORK => verifier[v].run # r
        /\ publication[r] \notin {"PENDING", "COMMITTED"}
    BY <1>2 DEF SerialParts, VerifierHolds, PublishingVerified
  <2>2. r \notin claiming
    BY <1>2 DEF HoldsLease, LeaseInv, ClaimingHasNoLease
  <2>3. QED
    BY <1>2, <2>1, <2>2, SerialMove
<1>3. ASSUME NEW r \in Runs, Quiesce(r) PROVE SerialParts'
  BY <1>2, <1>3 DEF Quiesce
<1>4. ASSUME NEW r \in Runs, NEW changed \in SUBSET Paths, Submit(r, changed) PROVE SerialParts'
  BY <1>2, <1>4 DEF Submit
<1>5. ASSUME NEW r \in Runs, NEW retry \in BOOLEAN, Abort(r, retry) PROVE SerialParts'
  <2>1. /\ \A v \in Verifiers : verifier[v].run # r
        /\ r \notin claiming
        /\ publication[r] \notin {"PENDING", "COMMITTED"}
    BY <1>5 DEF Abort, InFlight, SerialParts, PublishingVerified, ACTIVE_RUN_STATES
  <2>2. state' = [state EXCEPT ![r] = "ABORTED"] /\ UNCHANGED <<verifier, publication, claiming>>
    BY <1>5 DEF Abort, Record
  <2>3. QED
    BY <2>1, <2>2, SerialMove
<1>6. CASE RevokeCapability \/ RevokeCrash \/ PruneCapabilities
  BY <1>6, SerialFrame DEF RevokeCapability, RevokeCrash, PruneCapabilities, serialVars
<1>7. QED
  BY <1>1, <1>3, <1>4, <1>5, <1>6 DEF WorkerStep

LEMMA SerialVerify == Serialized /\ TypeOK /\ LeaseInv /\ SerialParts /\ VerifyStep => SerialParts'
<1>. SUFFICES ASSUME Serialized, TypeOK, LeaseInv, SerialParts, NEW v \in Verifiers,
                     \/ \E r \in Runs : VerifyStart(v, r)
                     \/ VerifyScope(v) \/ VerifySnapshot(v)
                     \/ \E passed \in BOOLEAN : VerifyChecks(v, passed)
                     \/ VerifyBlocked(v) \/ VerifyRevoke(v) \/ VerifyCrash(v) \/ VerifyCommit(v)
              PROVE  SerialParts'
  BY DEF VerifyStep
<1>. USE DEF taskVars, runVars, gateVars, pauseVars, capVars, treeVars
<1>. DEFINE r == verifier[v].run
<1>1. ASSUME NEW q \in Runs, VerifyStart(v, q) PROVE SerialParts'
  <2>1. verifier' = [verifier EXCEPT ![v] = [IdleVerifier EXCEPT !.run = q, !.pc = "scope"]]
        /\ state[q] = "VERIFYING" /\ (\A u \in Verifiers : verifier[u].run # q)
    BY <1>1 DEF VerifyStart, InFlight
  <2>2. UNCHANGED <<state, claiming, publication>>
    BY <1>1 DEF VerifyStart, VerifyUnchanged
  <2>3. QED
    BY <2>1, <2>2 DEF TypeOK, IdleVerifier, SerialParts, VerifierHolds, OneVerifierPerRun,
      ClaimingRuns, PublishingVerified
<1>2. CASE VerifyScope(v) \/ VerifySnapshot(v) \/ \E passed \in BOOLEAN : VerifyChecks(v, passed)
  <2>1. PICK x : /\ verifier' = [verifier EXCEPT ![v] = x]
                 /\ x.run = r /\ verifier[v].pc \in VERIFIER_AT_WORK
    <3>1. CASE VerifyScope(v)
      BY ZenonT(40), <3>1 DEF VerifyScope, TypeOK, VerifierType, VERIFIER_AT_WORK
    <3>2. CASE VerifySnapshot(v)
      BY <3>2 DEF VerifySnapshot, TypeOK, VerifierType, VERIFIER_AT_WORK
    <3>3. ASSUME NEW passed \in BOOLEAN, VerifyChecks(v, passed)
          PROVE  \E x : /\ verifier' = [verifier EXCEPT ![v] = x]
                        /\ x.run = r /\ verifier[v].pc \in VERIFIER_AT_WORK
      BY <3>3 DEF VerifyChecks, TypeOK, VerifierType, VERIFIER_AT_WORK
    <3>4. QED
      BY <1>2, <3>1, <3>2, <3>3
  <2>2. UNCHANGED <<state, claiming, publication>>
    BY <1>2 DEF VerifyScope, VerifySnapshot, VerifyChecks, VerifyUnchanged
  <2>3. QED
    BY <2>1, <2>2 DEF TypeOK, SerialParts, VerifierHolds, OneVerifierPerRun,
      ClaimingRuns, PublishingVerified, VERIFIER_AT_WORK
<1>3. CASE VerifyBlocked(v) \/ VerifyCommit(v)
  <2>1. r \in Runs /\ state[r] = "VERIFYING" /\ verifier[v].pc # "idle"
    BY <1>3 DEF VerifyBlocked, VerifyCommit, TypeOK, VerifierType, SerialParts, VerifierHolds,
      VERIFIER_AT_WORK
  <2>2. PICK s : state' = [state EXCEPT ![r] = s]
    BY <1>3 DEF VerifyBlocked, VerifyCommit, Record
  <2>3. UNCHANGED <<claiming, publication>>
    BY <1>3 DEF VerifyBlocked, VerifyCommit
  <2>4. \/ verifier' = [verifier EXCEPT ![v].pc = "revoke"]
        \/ verifier' = [verifier EXCEPT ![v] = IdleVerifier]
    BY <1>3 DEF VerifyBlocked, VerifyCommit
  <2>5. \A u \in Verifiers : u # v => verifier'[u] = verifier[u]
    BY <2>4 DEF TypeOK
  <2>6. /\ verifier'[v].pc \notin VERIFIER_AT_WORK
        /\ verifier'[v].pc # "idle" => verifier'[v].run = r
    BY <2>4 DEF TypeOK, VerifierType, IdleVerifier, VERIFIER_AT_WORK
  <2>7. VerifierHolds'
    <3>. SUFFICES ASSUME NEW u \in Verifiers, verifier'[u].pc \in VERIFIER_AT_WORK
                  PROVE  state'[verifier'[u].run] = "VERIFYING"
      BY DEF VerifierHolds
    <3>1. u # v /\ verifier'[u] = verifier[u]
      BY <2>5, <2>6
    <3>2. verifier[u].pc # "idle" /\ verifier[u].run # r /\ state[verifier[u].run] = "VERIFYING"
      BY <2>1, <3>1 DEF SerialParts, OneVerifierPerRun, VerifierHolds, VERIFIER_AT_WORK
    <3>3. verifier[u].run \in Runs
      BY <3>2 DEF TypeOK, VerifierType
    <3>4. QED
      BY <2>2, <3>1, <3>2, <3>3 DEF TypeOK
  <2>8. OneVerifierPerRun'
    <3>. SUFFICES ASSUME NEW u \in Verifiers, NEW w \in Verifiers,
                         verifier'[u].pc # "idle", verifier'[w].pc # "idle",
                         verifier'[u].run = verifier'[w].run
                  PROVE  u = w
      BY DEF OneVerifierPerRun
    <3>1. \A x \in Verifiers : verifier'[x].pc # "idle" =>
            verifier[x].pc # "idle" /\ verifier[x].run = verifier'[x].run
      BY <2>1, <2>5, <2>6
    <3>2. QED
      BY <3>1 DEF SerialParts, OneVerifierPerRun
  <2>9. ClaimingRuns' /\ PublishingVerified'
    BY <2>1, <2>2, <2>3 DEF TypeOK, SerialParts, ClaimingRuns, PublishingVerified
  <2>10. QED
    BY <2>7, <2>8, <2>9 DEF SerialParts
<1>4. CASE VerifyRevoke(v) \/ VerifyCrash(v)
  <2>1. verifier' = [verifier EXCEPT ![v] = IdleVerifier] /\ UNCHANGED <<state, claiming, publication>>
    BY <1>4 DEF VerifyRevoke, VerifyCrash, VerifyUnchanged
  <2>2. QED
    BY <2>1 DEF TypeOK, IdleVerifier, SerialParts, VerifierHolds, OneVerifierPerRun,
      ClaimingRuns, PublishingVerified, VERIFIER_AT_WORK
<1>5. QED
  BY <1>1, <1>2, <1>3, <1>4

LEMMA SerialGate == Serialized /\ TypeOK /\ LeaseInv /\ SerialParts /\ GateStep => SerialParts'
<1>. SUFFICES ASSUME Serialized, TypeOK, LeaseInv, SerialParts, NEW r \in Runs,
                     \/ WriteReport(r)
                     \/ \E verdict \in {"PASS", "NEEDS_FIX", "BLOCKED"} : ImportReview(r, verdict)
                     \/ Approve(r) \/ WaitOwner(r) \/ Complete(r)
                     \/ PublishIntent(r) \/ PublishRef(r) \/ PublishAbandon(r)
                     \/ PublishFinalize(r)
              PROVE  SerialParts'
  BY DEF GateStep
<1>. USE DEF taskVars, runVars, gateVars, pauseVars, capVars, treeVars
<1>1. CASE WriteReport(r) \/ WaitOwner(r)
  BY <1>1, SerialFrame DEF WriteReport, WaitOwner, serialVars
<1>2. CASE Approve(r)
  BY <1>2, SerialFrame DEF Approve, Record, serialVars, TypeOK
<1>3. ASSUME NEW verdict \in {"PASS", "NEEDS_FIX", "BLOCKED"}, ImportReview(r, verdict)
      PROVE  SerialParts'
  <2>1. PICK s : state[r] = "REVIEWING" /\ state' = [state EXCEPT ![r] = s]
    BY <1>3 DEF ImportReview, Record
  <2>2. /\ \A v \in Verifiers : verifier[v].pc \in VERIFIER_AT_WORK => verifier[v].run # r
        /\ publication[r] \notin {"PENDING", "COMMITTED"} /\ r \notin claiming
    BY <2>1 DEF SerialParts, VerifierHolds, PublishingVerified, ClaimingRuns
  <2>3. QED
    BY <1>3, <2>1, <2>2, SerialMove DEF ImportReview
<1>4. CASE Complete(r)
  <2>1. state[r] = "VERIFIED" /\ state' = [state EXCEPT ![r] = "COMPLETE"]
        /\ Payload[Task(r)].publication = "none"
    BY <1>4 DEF Complete, Record
  <2>2. /\ \A v \in Verifiers : verifier[v].pc \in VERIFIER_AT_WORK => verifier[v].run # r
        /\ publication[r] \notin {"PENDING", "COMMITTED"} /\ r \notin claiming
    BY <2>1 DEF SerialParts, VerifierHolds, PublishingVerified, ClaimingRuns
  <2>3. QED
    BY <1>4, <2>1, <2>2, SerialMove DEF Complete
<1>5. CASE PublishIntent(r) \/ PublishRef(r) \/ PublishAbandon(r)
  <2>1. /\ UNCHANGED <<state, claiming, verifier>>
        /\ state[r] = "VERIFIED" /\ Payload[Task(r)].publication = "git"
        /\ \E s : publication' = [publication EXCEPT ![r] = s]
    BY <1>5 DEF PublishIntent, PublishRef, PublishAbandon, PublishUnchanged, SerialParts,
      PublishingVerified
  <2>2. QED
    BY <2>1 DEF TypeOK, SerialParts, VerifierHolds, OneVerifierPerRun, ClaimingRuns,
      PublishingVerified
<1>6. CASE PublishFinalize(r)
  <2>1. /\ state[r] = "VERIFIED" /\ state' = [state EXCEPT ![r] = "COMPLETE"]
        /\ publication' = [publication EXCEPT ![r] = "COMPLETE"]
        /\ UNCHANGED <<verifier, claiming>>
    BY <1>6 DEF PublishFinalize, PublishUnchanged, Record, SerialParts, PublishingVerified
  <2>2. QED
    BY <2>1 DEF TypeOK, VerifierType, SerialParts, VerifierHolds, OneVerifierPerRun, ClaimingRuns,
      PublishingVerified, VERIFIER_AT_WORK
<1>7. QED
  BY <1>1, <1>2, <1>3, <1>4, <1>5, <1>6

-----------------------------------------------------------------------------
LEMMA SerialInit == Init => SerialInv
BY DEF Init, SerialInv, VerifierHolds, OneVerifierPerRun, ClaimingRuns, PublishingVerified,
       SingleWriter, IdleVerifier, VERIFIER_AT_WORK, WRITER_LOCK_RUN_STATES, ACTIVE_RUN_STATES

LEMMA SerialStep ==
  ASSUME Serialized
  PROVE  TypeOK /\ LeaseInv /\ SerialInv /\ [Next]_vars => SerialInv'
<1>. SUFFICES ASSUME TypeOK, LeaseInv, SerialInv, [Next]_vars PROVE SerialInv'
  OBVIOUS
<1>1. SerialParts
  BY DEF SerialInv, SerialParts
<1>2. QueueStep \/ WorkspaceStep \/ UNCHANGED vars => SerialParts'
  BY <1>1, LeaseQuiet, SerialFrame DEF leaseVars, serialVars
<1>3. SerialParts'
  BY <1>1, <1>2, SerialClaim, SerialWorker, SerialVerify, SerialGate DEF Next
<1>4. SingleWriter'
  BY MovesStep, MovesExclusive DEF SerialInv
<1>5. QED
  BY <1>3, <1>4 DEF SerialInv, SerialParts

LEMMA SerialHolds ==
  ASSUME Serialized
  PROVE  Spec => [](TypeOK /\ LeaseInv /\ SerialInv)
<1>1. TypeOK /\ LeaseInv /\ SerialInv /\ [Next]_vars => SerialInv'
  BY SerialStep
<1>2. QED
  BY <1>1, TypeInit, TypeStep, LeaseInit, LeaseStep, SerialInit, PTL DEF Spec

(* "One active writer reservation per writer identity", for any number of projects,      *)
(* tasks and attempts, as long as an abort does not overtake a claim or a verify call.    *)
THEOREM SingleWriterHolds ==
  ASSUME Serialized
  PROVE  Spec => []SingleWriter
<1>1. SerialInv => SingleWriter
  BY DEF SerialInv
<1>2. QED
  BY <1>1, SerialHolds, PTL

(* The run table implements the abstract reservation: every transaction takes a free      *)
(* key for a new run, lets a key go for good, or leaves every reservation alone.           *)
THEOREM LedgerImplementsReservation ==
  ASSUME Serialized
  PROVE  Spec => ImplementsReservation
<1>. DEFINE Holding == {r \in Runs : state[r] \in WRITER_LOCK_RUN_STATES}
            Retired == {r \in Runs : state[r] \in CLOSED_RUN_STATES}
<1>1. Init => Reservation!Init
  BY RunStateNames DEF Init, Reservation!Init
<1>2. TypeOK /\ LeaseInv /\ SerialInv /\ [Next]_vars
      => [Reservation!Next]_(Reservation!reservationVars)
  <2>. SUFFICES ASSUME TypeOK, LeaseInv, SerialInv, [Next]_vars
                PROVE  [Reservation!Next]_(Reservation!reservationVars)
    OBVIOUS
  <2>1. Moves
    BY MovesStep
  <2>2. CASE state' = state
    BY <2>2 DEF Reservation!reservationVars
  <2>3. ASSUME NEW r \in Runs, Opens(r) PROVE Reservation!Next
    <3>1. Holding' = Holding \cup {r} /\ Retired' = Retired
      BY <2>3, RunStateNames DEF Opens, TypeOK
    <3>2. r \notin Holding \cup Retired
      BY <2>3, RunStateNames DEF Opens
    <3>3. \A g \in Holding : WriterKey(g) # WriterKey(r)
      BY <2>3 DEF Opens, WriterLocked
    <3>4. Reservation!Acquire(r)
      BY <3>1, <3>2, <3>3 DEF Reservation!Acquire
    <3>5. QED
      BY <3>4 DEF Reservation!Next
  <2>4. ASSUME NEW r \in Runs, Advances(r) PROVE UNCHANGED Reservation!reservationVars
    <3>1. Holding' = Holding /\ Retired' = Retired
      BY <2>4, RunStateNames DEF Advances, TypeOK
    <3>2. QED
      BY <3>1 DEF Reservation!reservationVars
  <2>5. ASSUME NEW r \in Runs, Closes(r) PROVE Reservation!Next
    <3>1. r \in Holding /\ Holding' = Holding \ {r} /\ Retired' = Retired \cup {r}
      BY <2>5, RunStateNames DEF Closes, TypeOK
    <3>2. Reservation!Release(r)
      BY <3>1 DEF Reservation!Release
    <3>3. QED
      BY <3>2 DEF Reservation!Next
  <2>6. QED
    BY <2>1, <2>2, <2>3, <2>4, <2>5 DEF Moves
<1>3. QED
  BY <1>1, <1>2, SerialHolds, PTL DEF Spec, ImplementsReservation, Reservation!Spec

(* Only the last transaction of verify writes a snapshot.                                  *)
LEMMA SnapshotWriters ==
  Next => UNCHANGED snapshot \/ \E v \in Verifiers : VerifyCommit(v)
<1>. USE DEF taskVars, runVars, gateVars, pauseVars, capVars, treeVars
<1>1. QueueStep => UNCHANGED snapshot
  BY DEF QueueStep, LoadPlan, Pause, Resume, PauseProject, ResumeProject, CancelTask
<1>2. ClaimStep => UNCHANGED snapshot
  BY DEF ClaimStep, ClaimNoWork, ClaimBlocked, Claim, RepairClaim, WriteCapability,
    WriteCapabilityFails, ClaimCrash
<1>3. WorkerStep => UNCHANGED snapshot
  BY SMTT(30) DEF WorkerStep, Dispatch, ObserveExit, Quiesce, Submit, Abort, RevokeCapability,
    RevokeCrash, PruneCapabilities
<1>4. VerifyStep => UNCHANGED snapshot \/ \E v \in Verifiers : VerifyCommit(v)
  BY DEF VerifyStep, VerifyStart, VerifyScope, VerifySnapshot, VerifyChecks, VerifyBlocked,
    VerifyRevoke, VerifyCrash, VerifyUnchanged
<1>5. GateStep => UNCHANGED snapshot
  BY DEF GateStep, WriteReport, ImportReview, Approve, WaitOwner, Complete, PublishIntent,
    PublishRef, PublishAbandon, PublishFinalize, PublishUnchanged
<1>6. WorkspaceStep => UNCHANGED snapshot
  BY DEF WorkspaceStep, Edit, OutsideCommit
<1>7. QED
  BY <1>1, <1>2, <1>3, <1>4, <1>5, <1>6 DEF Next

(* A closed run is history: neither its state nor the snapshot it was judged by is          *)
(* written again, by any late transaction.                                                  *)
THEOREM ClosedRunsStayHolds ==
  ASSUME Serialized
  PROVE  Spec => ClosedRunsStay
<1>. DEFINE Stay == \A r \in Runs : state[r] \in CLOSED_RUN_STATES
                                   => state'[r] = state[r] /\ snapshot'[r] = snapshot[r]
<1>1. TypeOK /\ LeaseInv /\ SerialInv /\ [Next]_vars => [Stay]_vars
  <2>. SUFFICES ASSUME TypeOK, LeaseInv, SerialInv, Next, NEW r \in Runs,
                       state[r] \in CLOSED_RUN_STATES
                PROVE  state'[r] = state[r] /\ snapshot'[r] = snapshot[r]
    OBVIOUS
  <2>1. state'[r] = state[r]
    <3>1. Moves
      BY MovesStep
    <3>2. QED
      BY <3>1, RunStateNames DEF Moves, Opens, Advances, Closes, TypeOK
  <2>2. snapshot'[r] = snapshot[r]
    <3>1. CASE UNCHANGED snapshot
      BY <3>1
    <3>2. ASSUME NEW v \in Verifiers, VerifyCommit(v) PROVE snapshot'[r] = snapshot[r]
      <4>1. verifier[v].run \in Runs /\ state[verifier[v].run] = "VERIFYING"
        BY <3>2 DEF VerifyCommit, SerialInv, VerifierHolds, VERIFIER_AT_WORK, TypeOK, VerifierType
      <4>2. verifier[v].run # r
        BY <4>1, RunStateNames
      <4>3. QED
        BY <3>2, <4>1, <4>2 DEF VerifyCommit, TypeOK
    <3>3. QED
      BY <3>1, <3>2, SnapshotWriters
  <2>3. QED
    BY <2>1, <2>2
<1>2. QED
  BY <1>1, SerialHolds, PTL DEF Spec, ClosedRunsStay

-----------------------------------------------------------------------------
(* The gates.  What a run has passed is known once it is VERIFIED, and stays known    *)
(* while it is published.                                                            *)

ReviewGatePasses(r) ==
  ReviewRequired(Task(r), Attempt(r), snapshot[r].files) =>
    review_status[r] = "PASS" /\ reviewed[r] = snapshot[r].gen

JUDGED_RUN_STATES == {"REVIEWING", "VERIFIED", "COMPLETE"}
PUBLISHING == {"PENDING", "COMMITTED"}

ChecksPassed == \A r \in Runs : state[r] \in JUDGED_RUN_STATES => verify_status[r] = "PASS"
ReviewPassed == \A r \in Runs : state[r] \in {"VERIFIED", "COMPLETE"} => ReviewGatePasses(r)
OwnerPassed ==
  \A r \in Runs : state[r] = "COMPLETE" \/ publication[r] \in PUBLISHING => OwnerGatePasses(r)

GateInv == ChecksPassed /\ ReviewPassed /\ OwnerPassed

(* No verify call is about to replace the snapshot of a run that is being published.   *)
CommitsAside ==
  \A v \in Verifiers : verifier[v].pc = "commit" => publication[verifier[v].run] \notin PUBLISHING

gateInvVars == <<state, verify_status, snapshot, reviewed, review_status, approval, publication>>

LEMMA GateInit == Init => GateInv
BY DEF Init, GateInv, ChecksPassed, ReviewPassed, OwnerPassed, JUDGED_RUN_STATES, PUBLISHING

LEMMA GateFrame == GateInv /\ UNCHANGED gateInvVars => GateInv'
BY DEF GateInv, gateInvVars, ChecksPassed, ReviewPassed, OwnerPassed, ReviewGatePasses,
       OwnerGatePasses

(* A run that is opened or closed otherwise than by completing it has nothing to show.  *)
LEMMA GateMove ==
  ASSUME TypeOK, GateInv, NEW r \in Runs, NEW s, s \notin JUDGED_RUN_STATES,
         state' = [state EXCEPT ![r] = s],
         UNCHANGED <<snapshot, reviewed, review_status, approval, publication>>,
         \A q \in Runs : q # r => verify_status'[q] = verify_status[q]
  PROVE  GateInv'
<1>1. ChecksPassed'
  BY DEF GateInv, ChecksPassed, TypeOK
<1>2. ReviewPassed'
  BY DEF GateInv, ReviewPassed, ReviewGatePasses, TypeOK, JUDGED_RUN_STATES
<1>3. OwnerPassed'
  BY DEF GateInv, OwnerPassed, OwnerGatePasses, TypeOK, JUDGED_RUN_STATES
<1>4. QED
  BY <1>1, <1>2, <1>3 DEF GateInv

LEMMA GateReserve ==
  ASSUME TypeOK, GateInv, NEW t \in Tasks, ~AttemptsExhausted(t), Reserve(t),
         UNCHANGED <<verify_status, snapshot, gateVars>>
  PROVE  GateInv'
<1>1. <<t, attempts[t] + 1>> \in Runs
  BY TypeReserve
<1>2. state' = [state EXCEPT ![<<t, attempts[t] + 1>>] = "RUNNING"]
  BY DEF Reserve
<1>3. QED
  BY <1>1, <1>2, GateMove DEF gateVars, JUDGED_RUN_STATES

LEMMA GateClaim == TypeOK /\ GateInv /\ ClaimStep => GateInv'
<1>. SUFFICES ASSUME TypeOK, GateInv, ClaimStep PROVE GateInv'
  OBVIOUS
<1>. USE DEF taskVars, runVars, gateVars, pauseVars, capVars, treeVars
<1>1. ASSUME NEW wanted \in ProjectFilters, ClaimNoWork(wanted) PROVE GateInv'
  BY <1>1, GateFrame DEF ClaimNoWork, gateInvVars
<1>2. ASSUME NEW wanted \in ProjectFilters, NEW t \in Tasks, ClaimBlocked(t, wanted) PROVE GateInv'
  BY <1>2, GateFrame DEF ClaimBlocked, gateInvVars
<1>3. ASSUME NEW wanted \in ProjectFilters, NEW t \in Tasks, Claim(t, wanted) PROVE GateInv'
  BY <1>3, GateReserve DEF Claim, Selected, Selectable
<1>4. ASSUME NEW r \in Runs, RepairClaim(r) PROVE GateInv'
  BY <1>4, GateReserve, RunFacts DEF RepairClaim
<1>5. ASSUME NEW r \in Runs, WriteCapability(r) \/ ClaimCrash(r) PROVE GateInv'
  BY <1>5, GateFrame DEF WriteCapability, ClaimCrash, gateInvVars
<1>6. ASSUME NEW r \in Runs, WriteCapabilityFails(r) PROVE GateInv'
  BY <1>6, GateMove DEF WriteCapabilityFails, Record, JUDGED_RUN_STATES
<1>7. QED
  BY <1>1, <1>2, <1>3, <1>4, <1>5, <1>6 DEF ClaimStep

LEMMA GateWorker == TypeOK /\ GateInv /\ WorkerStep => GateInv'
<1>. SUFFICES ASSUME TypeOK, GateInv, WorkerStep PROVE GateInv'
  OBVIOUS
<1>. USE DEF taskVars, runVars, gateVars, pauseVars, capVars, treeVars
<1>1. ASSUME NEW r \in Runs, Dispatch(r) \/ ObserveExit(r) PROVE GateInv'
  BY <1>1, GateFrame DEF Dispatch, ObserveExit, gateInvVars
<1>2. ASSUME NEW r \in Runs, Quiesce(r) PROVE GateInv'
  BY <1>2, GateMove DEF Quiesce, JUDGED_RUN_STATES
<1>3. ASSUME NEW r \in Runs, NEW changed \in SUBSET Paths, Submit(r, changed) PROVE GateInv'
  BY <1>3, GateMove DEF Submit, JUDGED_RUN_STATES
<1>4. ASSUME NEW r \in Runs, NEW retry \in BOOLEAN, Abort(r, retry) PROVE GateInv'
  BY <1>4, GateMove DEF Abort, Record, JUDGED_RUN_STATES
<1>5. CASE RevokeCapability \/ RevokeCrash \/ PruneCapabilities
  BY <1>5, GateFrame DEF RevokeCapability, RevokeCrash, PruneCapabilities, gateInvVars
<1>6. QED
  BY <1>1, <1>2, <1>3, <1>4, <1>5 DEF WorkerStep

LEMMA GateVerify == TypeOK /\ GateInv /\ CommitsAside /\ VerifyStep => GateInv'
<1>. SUFFICES ASSUME TypeOK, GateInv, CommitsAside, NEW v \in Verifiers,
                     \/ \E r \in Runs : VerifyStart(v, r)
                     \/ VerifyScope(v) \/ VerifySnapshot(v)
                     \/ \E passed \in BOOLEAN : VerifyChecks(v, passed)
                     \/ VerifyBlocked(v) \/ VerifyRevoke(v) \/ VerifyCrash(v) \/ VerifyCommit(v)
              PROVE  GateInv'
  BY DEF VerifyStep
<1>. USE DEF taskVars, runVars, gateVars, pauseVars, capVars, treeVars
<1>. DEFINE r == verifier[v].run
<1>1. CASE VerifyBlocked(v)
  <2>1. r \in Runs
    BY <1>1 DEF VerifyBlocked, TypeOK, VerifierType
  <2>2. state' = [state EXCEPT ![r] = "BLOCKED"]
        /\ verify_status' = [verify_status EXCEPT ![r] = "BLOCKED"]
    BY <1>1 DEF VerifyBlocked, Record
  <2>3. \A q \in Runs : q # r => verify_status'[q] = verify_status[q]
    BY <2>1, <2>2 DEF TypeOK
  <2>4. UNCHANGED <<snapshot, reviewed, review_status, approval, publication>>
    BY <1>1 DEF VerifyBlocked
  <2>5. QED
    BY <2>1, <2>2, <2>3, <2>4, GateMove DEF JUDGED_RUN_STATES
<1>2. CASE VerifyCommit(v)
  <2>. DEFINE x == verifier[v]
              y == IF x.passed THEN "PASS" ELSE "FAIL"
              z == [gen |-> snapshot[r].gen + 1, files |-> x.files, git_head |-> x.git_head]
  <2>1. r \in Runs /\ publication[r] \notin PUBLISHING
    BY <1>2 DEF VerifyCommit, TypeOK, VerifierType, CommitsAside
  <2>2. PICK s \in {"NEEDS_FIX", "REVIEWING", "VERIFIED"} :
          /\ state' = [state EXCEPT ![r] = s]
          /\ s # "NEEDS_FIX" => x.passed
          /\ s = "VERIFIED" => ~ReviewRequired(Task(r), Attempt(r), x.files)
    BY <1>2 DEF VerifyCommit, Record
  <2>3. /\ snapshot' = [snapshot EXCEPT ![r] = z]
        /\ verify_status' = [verify_status EXCEPT ![r] = y]
        /\ UNCHANGED <<reviewed, review_status, approval, publication>>
    BY <1>2 DEF VerifyCommit
  <2>4. z.files = x.files
    OBVIOUS
  <2>. HIDE DEF x, z
  <2>5. /\ snapshot'[r] = z /\ verify_status'[r] = y /\ state'[r] = s
        /\ \A q \in Runs : q # r => /\ snapshot'[q] = snapshot[q]
                                    /\ verify_status'[q] = verify_status[q]
                                    /\ state'[q] = state[q]
    BY <2>1, <2>2, <2>3 DEF TypeOK
  <2>6. ChecksPassed'
    BY <2>2, <2>5 DEF GateInv, ChecksPassed, JUDGED_RUN_STATES
  <2>7. ReviewPassed'
    <3>. SUFFICES ASSUME NEW q \in Runs, state'[q] \in {"VERIFIED", "COMPLETE"},
                         ReviewRequired(Task(q), Attempt(q), snapshot'[q].files)
                  PROVE  review_status'[q] = "PASS" /\ reviewed'[q] = snapshot'[q].gen
      BY DEF ReviewPassed, ReviewGatePasses
    <3>1. CASE q = r
      BY <2>2, <2>4, <2>5, <3>1
    <3>2. CASE q # r
      BY <2>3, <2>5, <3>2 DEF GateInv, ReviewPassed, ReviewGatePasses
    <3>3. QED
      BY <3>1, <3>2
  <2>8. OwnerPassed'
    BY <2>1, <2>2, <2>3, <2>5 DEF GateInv, OwnerPassed, OwnerGatePasses
  <2>9. QED
    BY <2>6, <2>7, <2>8 DEF GateInv
<1>3. CASE ~(VerifyBlocked(v) \/ VerifyCommit(v))
  BY <1>3, GateFrame DEF VerifyStart, VerifyScope, VerifySnapshot, VerifyChecks, VerifyRevoke,
    VerifyCrash, VerifyUnchanged, gateInvVars
<1>4. QED
  BY <1>1, <1>2, <1>3

LEMMA GateGate == TypeOK /\ GateInv /\ PublishingVerified /\ GateStep => GateInv'
<1>. SUFFICES ASSUME TypeOK, GateInv, PublishingVerified, NEW r \in Runs,
                     \/ WriteReport(r)
                     \/ \E verdict \in {"PASS", "NEEDS_FIX", "BLOCKED"} : ImportReview(r, verdict)
                     \/ Approve(r) \/ WaitOwner(r) \/ Complete(r)
                     \/ PublishIntent(r) \/ PublishRef(r) \/ PublishAbandon(r)
                     \/ PublishFinalize(r)
              PROVE  GateInv'
  BY DEF GateStep
<1>. USE DEF taskVars, runVars, gateVars, pauseVars, capVars, treeVars
<1>1. CASE WriteReport(r) \/ WaitOwner(r)
  BY <1>1, GateFrame DEF WriteReport, WaitOwner, gateInvVars
<1>2. ASSUME NEW verdict \in {"PASS", "NEEDS_FIX", "BLOCKED"}, ImportReview(r, verdict)
      PROVE  GateInv'
  <2>1. /\ state[r] = "REVIEWING" /\ report[r] = snapshot[r].gen
        /\ \E s \in {"VERIFIED", "NEEDS_FIX"} :
             state' = [state EXCEPT ![r] = s] /\ (s = "VERIFIED" => verdict = "PASS")
        /\ reviewed' = [reviewed EXCEPT ![r] = report[r]]
        /\ review_status' = [review_status EXCEPT ![r] = verdict]
        /\ UNCHANGED <<verify_status, snapshot, approval, publication>>
    BY <1>2 DEF ImportReview, Record, ReportCurrent
  <2>2. ChecksPassed'
    BY <2>1 DEF GateInv, ChecksPassed, JUDGED_RUN_STATES, TypeOK
  <2>3. ReviewPassed'
    BY <2>1 DEF GateInv, ReviewPassed, ReviewGatePasses, TypeOK
  <2>4. OwnerPassed'
    BY <2>1 DEF GateInv, OwnerPassed, OwnerGatePasses, TypeOK
  <2>5. QED
    BY <2>2, <2>3, <2>4 DEF GateInv
<1>3. CASE Approve(r)
  <2>1. /\ UNCHANGED <<state, verify_status, snapshot, reviewed, review_status, publication>>
        /\ approval' = [approval EXCEPT ![r] = snapshot[r].gen]
    BY <1>3 DEF Approve, Record, TypeOK
  <2>2. QED
    BY <2>1 DEF GateInv, ChecksPassed, ReviewPassed, OwnerPassed, ReviewGatePasses,
      OwnerGatePasses, TypeOK
<1>4. CASE Complete(r) \/ PublishFinalize(r)
  <2>1. /\ state[r] = "VERIFIED" /\ OwnerGatePasses(r)
        /\ state' = [state EXCEPT ![r] = "COMPLETE"]
        /\ publication' = publication \/ publication' = [publication EXCEPT ![r] = "COMPLETE"]
        /\ UNCHANGED <<verify_status, snapshot, reviewed, review_status, approval>>
    BY <1>4 DEF Complete, PublishFinalize, PublishUnchanged, Record, PublishingVerified,
      GateInv, OwnerPassed, PUBLISHING
  <2>2. ChecksPassed'
    BY <2>1 DEF GateInv, ChecksPassed, JUDGED_RUN_STATES, TypeOK
  <2>3. ReviewPassed'
    BY <2>1 DEF GateInv, ReviewPassed, ReviewGatePasses, TypeOK
  <2>4. OwnerPassed'
    BY <2>1 DEF GateInv, OwnerPassed, OwnerGatePasses, PUBLISHING, TypeOK
  <2>5. QED
    BY <2>2, <2>3, <2>4 DEF GateInv
<1>5. CASE PublishIntent(r) \/ PublishRef(r) \/ PublishAbandon(r)
  <2>1. /\ OwnerGatePasses(r)
        /\ \E s : publication' = [publication EXCEPT ![r] = s]
        /\ UNCHANGED <<state, verify_status, snapshot, reviewed, review_status, approval>>
    BY <1>5 DEF PublishIntent, PublishRef, PublishAbandon, PublishUnchanged, GateInv,
      OwnerPassed, PUBLISHING
  <2>2. QED
    BY <2>1 DEF GateInv, ChecksPassed, ReviewPassed, OwnerPassed, ReviewGatePasses,
      OwnerGatePasses, TypeOK
<1>6. QED
  BY <1>1, <1>2, <1>3, <1>4, <1>5

LEMMA GateStepHolds ==
  TypeOK /\ LeaseInv /\ GateInv /\ PublishingVerified /\ CommitsAside /\ [Next]_vars => GateInv'
<1>1. QueueStep \/ WorkspaceStep \/ UNCHANGED vars => UNCHANGED gateInvVars
  BY DEF QueueStep, LoadPlan, Pause, Resume, PauseProject, ResumeProject, CancelTask,
    WorkspaceStep, Edit, OutsideCommit, vars,
    taskVars, runVars, gateVars, pauseVars, capVars, treeVars, gateInvVars
<1>2. QED
  BY <1>1, GateFrame, GateClaim, GateWorker, GateVerify, GateGate DEF Next

LEMMA GatesFromInv == GateInv => GatesBindSnapshot
BY DEF GateInv, ChecksPassed, ReviewPassed, OwnerPassed, GatesBindSnapshot, ReviewGatePasses,
       OwnerGatePasses, JUDGED_RUN_STATES

(* Without publication nothing writes a closed run's row late but verify, which takes it    *)
(* back to a state before completion.                                                       *)
NothingPublished == \A r \in Runs : publication[r] \notin PUBLISHING

LEMMA NothingPublishedStep ==
  ASSUME \A t \in Tasks : Payload[t].publication = "none"
  PROVE  TypeOK /\ NothingPublished /\ [Next]_vars => NothingPublished'
<1>. SUFFICES ASSUME TypeOK, NothingPublished, [Next]_vars PROVE NothingPublished'
  OBVIOUS
<1>. USE DEF taskVars, runVars, gateVars, pauseVars, capVars, treeVars
<1>1. UNCHANGED publication => NothingPublished'
  BY DEF NothingPublished
<1>2. QueueStep \/ WorkspaceStep \/ UNCHANGED vars => UNCHANGED publication
  BY DEF QueueStep, LoadPlan, Pause, Resume, PauseProject, ResumeProject, CancelTask,
    WorkspaceStep, Edit, OutsideCommit, vars
<1>3. ClaimStep => UNCHANGED publication
  BY DEF ClaimStep, ClaimNoWork, ClaimBlocked, Claim, RepairClaim, WriteCapability,
    WriteCapabilityFails, ClaimCrash
<1>4. WorkerStep => UNCHANGED publication
  BY SMTT(30) DEF WorkerStep, Dispatch, ObserveExit, Quiesce, Submit, Abort, RevokeCapability,
    RevokeCrash, PruneCapabilities
<1>5. VerifyStep => UNCHANGED publication
  BY DEF VerifyStep, VerifyStart, VerifyScope, VerifySnapshot, VerifyChecks, VerifyBlocked,
    VerifyRevoke, VerifyCrash, VerifyCommit, VerifyUnchanged
<1>6. GateStep => UNCHANGED publication
  BY RunFacts DEF GateStep, WriteReport, ImportReview, Approve, WaitOwner, Complete,
    PublishIntent, PublishRef, PublishAbandon, PublishFinalize, NothingPublished, PUBLISHING
<1>7. QED
  BY <1>1, <1>2, <1>3, <1>4, <1>5, <1>6 DEF Next

(* A completed run passed its checks, and the review and the approval its policy asks for     *)
(* were given to the very snapshot that is completed: with operators who wait, whatever is    *)
(* published; and with operators who do not, as long as nothing is published by Git.           *)
THEOREM GatesBindSnapshotHolds ==
  ASSUME Serialized \/ \A t \in Tasks : Payload[t].publication = "none"
  PROVE  Spec => []GatesBindSnapshot
<1>1. CASE Serialized
  <2>1. TypeOK /\ SerialInv => PublishingVerified /\ CommitsAside
    BY DEF SerialInv, PublishingVerified, VerifierHolds, CommitsAside, VERIFIER_AT_WORK, PUBLISHING,
      TypeOK, VerifierType
  <2>2. QED
    BY <1>1, <2>1, SerialHolds, GateInit, GateStepHolds, GatesFromInv, PTL DEF Spec
<1>2. CASE \A t \in Tasks : Payload[t].publication = "none"
  <2>1. TypeOK /\ NothingPublished => PublishingVerified /\ CommitsAside
    BY DEF NothingPublished, PublishingVerified, CommitsAside, TypeOK, VerifierType, PUBLISHING
  <2>2. Init => NothingPublished
    BY DEF Init, NothingPublished, PUBLISHING
  <2>3. TypeOK /\ NothingPublished /\ [Next]_vars => NothingPublished'
    BY <1>2, NothingPublishedStep
  <2>4. QED
    BY <2>1, <2>2, <2>3, TypeInit, TypeStep, LeaseInit, LeaseStep, GateInit, GateStepHolds,
      GatesFromInv, PTL DEF Spec
<1>3. QED
  BY <1>1, <1>2

-----------------------------------------------------------------------------
(* Tasks and runs tell one story.  Every step inserts the next attempt of a task,     *)
(* settles the attempt that holds its key together with its task, or moves tasks that *)
(* no attempt holds.                                                                  *)

(* What verify and review recorded about q stays.                                     *)
JudgementKept(q) ==
  /\ verify_status'[q] = verify_status[q] /\ snapshot'[q] = snapshot[q]
  /\ reviewed'[q] = reviewed[q] /\ review_status'[q] = review_status[q]

(* A run sent back after its checks passed was sent back for its latest snapshot.     *)
SentBack(r) == review_status[r] = "NEEDS_FIX" /\ reviewed[r] = snapshot[r].gen

Inserts(t) ==
  /\ <<t, attempts[t] + 1>> \in Runs
  /\ attempts' = [attempts EXCEPT ![t] = attempts[t] + 1]
  /\ state' = [state EXCEPT ![<<t, attempts[t] + 1>>] = "RUNNING"]
  /\ DependenciesDone(t)
  /\ \A q \in Runs : Task(q) = t /\ Attempt(q) = attempts[t] =>
       state[q] \in {"NEEDS_FIX", "BLOCKED", "ABORTED"}
  /\ status'[t] = "IN_PROGRESS"
  /\ \A u \in Tasks : u # t =>
       status'[u] = status[u] \/ (status[u] \in READY_TASK_STATES /\ status'[u] = "BLOCKED")
  /\ \A q \in Runs : JudgementKept(q)

Settles(r) ==
  /\ state[r] \in WRITER_LOCK_RUN_STATES
  /\ \E s \in RunStates \ {"NONE"} : \E u \in TaskStatesOf(s) :
       /\ state' = [state EXCEPT ![r] = s]
       /\ status' = [status EXCEPT ![Task(r)] = u]
       /\ s = "NEEDS_FIX" /\ u = "NEEDS_FIX" /\ verify_status'[r] = "PASS" => SentBack(r)'
  /\ attempts' = attempts
  /\ \A q \in Runs : q # r => JudgementKept(q)

Waits ==
  /\ UNCHANGED <<attempts, state>>
  /\ \A t \in Tasks :
       \/ status'[t] = status[t]
       \/ status[t] = "ABSENT" /\ status'[t] = "PLANNED"
       \/ status[t] \in READY_TASK_STATES \cup {"BLOCKED"} /\ status'[t] \in {"BLOCKED", "CANCELLED"}
  /\ \A q \in Runs : JudgementKept(q)

LEMMA TaskStatesOfFacts ==
  /\ TaskStatesOf("RUNNING") = {"IN_PROGRESS"}
  /\ TaskStatesOf("RESULT_SUBMITTED") = {"IN_PROGRESS"}
  /\ TaskStatesOf("VERIFYING") = {"IN_PROGRESS"}
  /\ TaskStatesOf("REVIEWING") = {"WAITING_REVIEW"}
  /\ TaskStatesOf("VERIFIED") = {"READY_TO_PUBLISH", "WAITING_OWNER"}
  /\ TaskStatesOf("COMPLETE") = {"DONE"}
  /\ \A s \in {"NONE", "QUIESCING", "NEEDS_FIX", "BLOCKED", "ABORTED"} :
       TaskStatesOf(s) = {"NEEDS_FIX", "BLOCKED", "CANCELLED"}
BY DEF TaskStatesOf

(* Only a closed run leaves its task among the states a queue operation moves; only a  *)
(* completed one leaves it DONE.                                                        *)
LEMMA IdleStates ==
  \A s \in RunStates :
    /\ TaskStatesOf(s) \cap (READY_TASK_STATES \cup {"BLOCKED"}) # {} =>
         TaskStatesOf(s) = {"NEEDS_FIX", "BLOCKED", "CANCELLED"}
    /\ "DONE" \in TaskStatesOf(s) => s = "COMPLETE"
<1>1. \A s \in RunStates : s \in {"RUNNING", "RESULT_SUBMITTED", "VERIFYING", "REVIEWING",
        "VERIFIED", "COMPLETE", "NONE", "QUIESCING", "NEEDS_FIX", "BLOCKED", "ABORTED"}
  BY RunStateNames DEF RunStates
<1>2. QED
  BY <1>1, TaskStatesOfFacts DEF READY_TASK_STATES

(* The attempt that holds its key is the latest of its task.                          *)
LEMMA HeldIsLatest ==
  ASSUME TypeOK, TablesAgree, NEW r \in Runs, state[r] \in WRITER_LOCK_RUN_STATES
  PROVE  Attempt(r) = attempts[Task(r)] /\ status[Task(r)] \in TaskStatesOf(state[r])
<1>1. attempts[Task(r)] \in Nat /\ Attempt(r) \in Nat
  BY RunFacts, LedgerAssumption DEF TypeOK, PayloadType
<1>2. ~(Attempt(r) > attempts[Task(r)]) /\ ~(Attempt(r) < attempts[Task(r)])
  BY RunStateNames DEF TablesAgree
<1>3. QED
  BY <1>1, <1>2 DEF TablesAgree

(* A task with attempts has a row for the latest one.                                  *)
LEMMA LatestRun ==
  ASSUME TypeOK, TablesAgree, NEW t \in Tasks, attempts[t] # 0
  PROVE  /\ <<t, attempts[t]>> \in Runs
         /\ Task(<<t, attempts[t]>>) = t /\ Attempt(<<t, attempts[t]>>) = attempts[t]
         /\ state[<<t, attempts[t]>>] # "NONE"
         /\ status[t] \in TaskStatesOf(state[<<t, attempts[t]>>])
<1>1. attempts[t] \in Nat /\ attempts[t] <= Payload[t].max_attempts
      /\ Payload[t].max_attempts \in Nat
  BY LedgerAssumption DEF TypeOK, TablesAgree, PayloadType
<1>2. <<t, attempts[t]>> \in Runs
  BY <1>1 DEF Runs
<1>3. Task(<<t, attempts[t]>>) = t /\ Attempt(<<t, attempts[t]>>) = attempts[t]
  BY DEF Task, Attempt
<1>4. QED
  BY <1>1, <1>2, <1>3 DEF TablesAgree

-----------------------------------------------------------------------------
(* Every step is one of the three.                                                     *)

LEMMA ReserveInserts ==
  ASSUME TypeOK, NEW t \in Tasks, ~AttemptsExhausted(t), Reserve(t), DependenciesDone(t),
         \A q \in Runs : Task(q) = t /\ Attempt(q) = attempts[t] =>
           state[q] \in {"NEEDS_FIX", "BLOCKED", "ABORTED"},
         status'[t] = "IN_PROGRESS",
         \A u \in Tasks : u # t =>
           status'[u] = status[u] \/ (status[u] \in READY_TASK_STATES /\ status'[u] = "BLOCKED"),
         UNCHANGED <<verify_status, snapshot, gateVars>>
  PROVE  Inserts(t)
<1>1. <<t, attempts[t] + 1>> \in Runs
  BY TypeReserve
<1>2. QED
  BY <1>1 DEF Inserts, Reserve, JudgementKept, gateVars

LEMMA ClaimTells ==
  ASSUME TypeOK, TablesAgree, SerialInv, ClaimStep
  PROVE  (\E t \in Tasks : Inserts(t)) \/ (\E r \in Runs : Settles(r)) \/ Waits
<1>. USE DEF taskVars, runVars, gateVars, pauseVars, capVars, treeVars
<1>. DEFINE Goal == (\E t \in Tasks : Inserts(t)) \/ (\E r \in Runs : Settles(r)) \/ Waits
<1>1. ASSUME NEW wanted \in ProjectFilters, ClaimNoWork(wanted) PROVE Goal
  BY <1>1 DEF ClaimNoWork, Candidate, Waits, JudgementKept, TypeOK
<1>2. ASSUME NEW wanted \in ProjectFilters, NEW t \in Tasks, ClaimBlocked(t, wanted) PROVE Goal
  BY <1>2 DEF ClaimBlocked, BlockPassed, Passed, Selected, Selectable, Candidate, Waits,
    JudgementKept, TypeOK
<1>3. ASSUME NEW wanted \in ProjectFilters, NEW t \in Tasks, Claim(t, wanted) PROVE Goal
  <2>1. /\ ~AttemptsExhausted(t) /\ Reserve(t) /\ DependenciesDone(t)
        /\ ~WriterLocked(Payload[t].writer_key) /\ status[t] \in READY_TASK_STATES
        /\ status' = BlockPassed(wanted, queue_seq[t], t, "IN_PROGRESS")
        /\ UNCHANGED <<verify_status, snapshot, gateVars>>
    BY <1>3 DEF Claim, Selected, Selectable, Candidate
  <2>2. ASSUME NEW q \in Runs, Task(q) = t, Attempt(q) = attempts[t]
        PROVE  state[q] \in {"NEEDS_FIX", "BLOCKED", "ABORTED"}
    <3>1. state[q] \notin WRITER_LOCK_RUN_STATES
      BY <2>1, <2>2 DEF WriterLocked, WriterKey
    <3>2. status[t] \in TaskStatesOf(state[q])
      BY <2>2 DEF TablesAgree
    <3>3. state[q] # "NONE"
      BY <2>2, RunFacts DEF TablesAgree, TypeOK
    <3>4. state[q] # "COMPLETE"
      BY <2>1, <3>2, TaskStatesOfFacts DEF READY_TASK_STATES
    <3>5. QED
      BY <3>1, <3>3, <3>4, RunStateNames DEF TypeOK, RunStates
  <2>3. status'[t] = "IN_PROGRESS"
    BY <2>1 DEF BlockPassed
  <2>4. \A u \in Tasks : u # t =>
          status'[u] = status[u] \/ (status[u] \in READY_TASK_STATES /\ status'[u] = "BLOCKED")
    BY <2>1 DEF BlockPassed, Passed, Candidate
  <2>5. QED
    BY <2>1, <2>2, <2>3, <2>4, ReserveInserts
<1>4. ASSUME NEW r \in Runs, RepairClaim(r) PROVE Goal
  <2>. DEFINE t == Task(r)
  <2>1. /\ t \in Tasks /\ ~AttemptsExhausted(t) /\ Reserve(t) /\ DependenciesDone(t)
        /\ Attempt(r) = attempts[t] /\ state[r] = "NEEDS_FIX"
        /\ status' = [status EXCEPT ![t] = "IN_PROGRESS"]
        /\ UNCHANGED <<verify_status, snapshot, gateVars>>
    BY <1>4, RunFacts DEF RepairClaim, RepairGuard
  <2>2. \A q \in Runs : Task(q) = t /\ Attempt(q) = attempts[t] => q = r
    BY <2>1, RunFacts
  <2>3. QED
    BY <2>1, <2>2, ReserveInserts DEF TypeOK
<1>5. ASSUME NEW r \in Runs, WriteCapability(r) \/ ClaimCrash(r) PROVE Goal
  BY <1>5 DEF WriteCapability, ClaimCrash, Waits, JudgementKept
<1>6. ASSUME NEW r \in Runs, WriteCapabilityFails(r) PROVE Goal
  <2>1. state[r] \in WRITER_LOCK_RUN_STATES
    BY <1>6, RunStateNames DEF WriteCapabilityFails, SerialInv, ClaimingRuns
  <2>2. "ABORTED" \in RunStates \ {"NONE"} /\ "BLOCKED" \in TaskStatesOf("ABORTED")
    BY StateNames, TaskStatesOfFacts
  <2>3. QED
    BY <1>6, <2>1, <2>2 DEF WriteCapabilityFails, Record, Settles, JudgementKept
<1>7. QED
  BY <1>1, <1>2, <1>3, <1>4, <1>5, <1>6 DEF ClaimStep

LEMMA WorkerTells ==
  ASSUME TypeOK, TablesAgree, SerialInv, WorkerStep
  PROVE  (\E r \in Runs : Settles(r)) \/ Waits
<1>. USE DEF taskVars, runVars, gateVars, pauseVars, capVars, treeVars
<1>. DEFINE Goal == (\E r \in Runs : Settles(r)) \/ Waits
<1>1. ASSUME NEW r \in Runs, Dispatch(r) \/ ObserveExit(r) PROVE Goal
  BY <1>1 DEF Dispatch, ObserveExit, Waits, JudgementKept
<1>2. ASSUME NEW r \in Runs, NEW s \in {"RESULT_SUBMITTED", "VERIFYING"},
             state[r] \in {"RUNNING", "RESULT_SUBMITTED"}, state' = [state EXCEPT ![r] = s],
             UNCHANGED <<status, attempts, verify_status, snapshot, reviewed, review_status>>
      PROVE  Goal
  <2>1. state[r] \in WRITER_LOCK_RUN_STATES /\ s \in RunStates \ {"NONE"}
    BY <1>2, RunStateNames DEF RunStates
  <2>2. status[Task(r)] = "IN_PROGRESS" /\ "IN_PROGRESS" \in TaskStatesOf(s) /\ s # "NEEDS_FIX"
    BY <1>2, <2>1, HeldIsLatest, TaskStatesOfFacts
  <2>3. status' = [status EXCEPT ![Task(r)] = "IN_PROGRESS"]
    BY <1>2, <2>2, RunFacts DEF TypeOK
  <2>4. QED
    BY <1>2, <2>1, <2>2, <2>3 DEF Settles, JudgementKept
<1>3. ASSUME NEW r \in Runs, Quiesce(r) PROVE Goal
  BY <1>2, <1>3 DEF Quiesce
<1>4. ASSUME NEW r \in Runs, NEW changed \in SUBSET Paths, Submit(r, changed) PROVE Goal
  BY <1>2, <1>4 DEF Submit
<1>5. ASSUME NEW r \in Runs, NEW retry \in BOOLEAN, Abort(r, retry) PROVE Goal
  <2>1. state[r] \in WRITER_LOCK_RUN_STATES
    BY <1>5 DEF Abort, WRITER_LOCK_RUN_STATES
  <2>2. "ABORTED" \in RunStates \ {"NONE"} /\ {"BLOCKED", "NEEDS_FIX"} \subseteq TaskStatesOf("ABORTED")
    BY StateNames, TaskStatesOfFacts
  <2>3. PICK u \in {"BLOCKED", "NEEDS_FIX"} : /\ status' = [status EXCEPT ![Task(r)] = u]
                                              /\ state' = [state EXCEPT ![r] = "ABORTED"]
    BY <1>5 DEF Abort, Record
  <2>4. QED
    BY <1>5, <2>1, <2>2, <2>3 DEF Abort, Settles, JudgementKept
<1>6. CASE RevokeCapability \/ RevokeCrash \/ PruneCapabilities
  BY <1>6 DEF RevokeCapability, RevokeCrash, PruneCapabilities, Waits, JudgementKept
<1>7. QED
  BY <1>1, <1>3, <1>4, <1>5, <1>6 DEF WorkerStep

LEMMA VerifyTells ==
  ASSUME TypeOK, SerialInv, VerifyStep
  PROVE  (\E r \in Runs : Settles(r)) \/ Waits
<1>. USE DEF taskVars, runVars, gateVars, pauseVars, capVars, treeVars
<1>. PICK v \in Verifiers :
       \/ \E r \in Runs : VerifyStart(v, r)
       \/ VerifyScope(v) \/ VerifySnapshot(v)
       \/ \E passed \in BOOLEAN : VerifyChecks(v, passed)
       \/ VerifyBlocked(v) \/ VerifyRevoke(v) \/ VerifyCrash(v) \/ VerifyCommit(v)
  BY DEF VerifyStep
<1>. DEFINE r == verifier[v].run
<1>1. CASE VerifyBlocked(v) \/ VerifyCommit(v)
  <2>1. r \in Runs /\ state[r] \in WRITER_LOCK_RUN_STATES
    BY <1>1, RunStateNames DEF VerifyBlocked, VerifyCommit, TypeOK, VerifierType, SerialInv,
      VerifierHolds, VERIFIER_AT_WORK
  <2>2. PICK s \in RunStates \ {"NONE"} : \E u \in TaskStatesOf(s) :
          /\ state' = [state EXCEPT ![r] = s]
          /\ status' = [status EXCEPT ![Task(r)] = u]
          /\ s = "NEEDS_FIX" => verify_status' = [verify_status EXCEPT ![r] = "FAIL"]
    <3>1. CASE VerifyBlocked(v)
      <4>1. "BLOCKED" \in RunStates \ {"NONE"} /\ "BLOCKED" \in TaskStatesOf("BLOCKED")
        BY RunStateNames, TaskStatesOfFacts DEF RunStates
      <4>2. QED
        BY <3>1, <4>1 DEF VerifyBlocked, Record
    <3>2. CASE VerifyCommit(v)
      <4>1. \/ ~verifier[v].passed /\ Record(r, "NEEDS_FIX", "NEEDS_FIX", Other)
            \/ Record(r, "REVIEWING", "WAITING_REVIEW", Other)
            \/ Record(r, "VERIFIED", "READY_TO_PUBLISH", Other)
        BY <3>2 DEF VerifyCommit
      <4>2. ~verifier[v].passed => verify_status' = [verify_status EXCEPT ![r] = "FAIL"]
        BY <3>2 DEF VerifyCommit
      <4>3. {"NEEDS_FIX", "REVIEWING", "VERIFIED"} \subseteq RunStates \ {"NONE"}
        BY RunStateNames DEF RunStates
      <4>4. /\ "NEEDS_FIX" \in TaskStatesOf("NEEDS_FIX")
            /\ "WAITING_REVIEW" \in TaskStatesOf("REVIEWING")
            /\ "READY_TO_PUBLISH" \in TaskStatesOf("VERIFIED")
        BY TaskStatesOfFacts
      <4>5. CASE ~verifier[v].passed /\ Record(r, "NEEDS_FIX", "NEEDS_FIX", Other)
        BY <4>2, <4>3, <4>4, <4>5 DEF Record
      <4>6. CASE Record(r, "REVIEWING", "WAITING_REVIEW", Other)
        BY <4>3, <4>4, <4>6 DEF Record
      <4>7. CASE Record(r, "VERIFIED", "READY_TO_PUBLISH", Other)
        BY <4>3, <4>4, <4>7 DEF Record
      <4>8. QED
        BY <4>1, <4>5, <4>6, <4>7
    <3>3. QED
      BY <1>1, <3>1, <3>2
  <2>3. /\ attempts' = attempts
        /\ \E x : verify_status' = [verify_status EXCEPT ![r] = x]
        /\ snapshot' = snapshot \/ \E x : snapshot' = [snapshot EXCEPT ![r] = x]
        /\ UNCHANGED <<reviewed, review_status>>
    BY <1>1 DEF VerifyBlocked, VerifyCommit
  <2>4. \A q \in Runs : q # r => JudgementKept(q)
    BY <2>1, <2>3 DEF JudgementKept, TypeOK
  <2>5. s = "NEEDS_FIX" => verify_status'[r] # "PASS"
    BY <2>1, <2>2 DEF TypeOK
  <2>6. QED
    BY <2>1, <2>2, <2>3, <2>4, <2>5 DEF Settles
<1>2. CASE ~(VerifyBlocked(v) \/ VerifyCommit(v))
  BY <1>2 DEF VerifyStart, VerifyScope, VerifySnapshot, VerifyChecks, VerifyRevoke, VerifyCrash,
    VerifyUnchanged, Waits, JudgementKept
<1>3. QED
  BY <1>1, <1>2

LEMMA GateTells ==
  ASSUME TypeOK, SerialInv, GateStep
  PROVE  (\E r \in Runs : Settles(r)) \/ Waits
<1>. USE DEF taskVars, runVars, gateVars, pauseVars, capVars, treeVars
<1>. PICK r \in Runs :
       \/ WriteReport(r)
       \/ \E verdict \in {"PASS", "NEEDS_FIX", "BLOCKED"} : ImportReview(r, verdict)
       \/ Approve(r) \/ WaitOwner(r) \/ Complete(r)
       \/ PublishIntent(r) \/ PublishRef(r) \/ PublishAbandon(r)
       \/ PublishFinalize(r)
  BY DEF GateStep
<1>1. CASE WriteReport(r) \/ PublishIntent(r) \/ PublishRef(r) \/ PublishAbandon(r)
  BY <1>1 DEF WriteReport, PublishIntent, PublishRef, PublishAbandon, PublishUnchanged, Waits,
    JudgementKept
<1>2. ASSUME NEW verdict \in {"PASS", "NEEDS_FIX", "BLOCKED"}, ImportReview(r, verdict)
      PROVE  Settles(r)
  <2>1. state[r] \in WRITER_LOCK_RUN_STATES
    BY <1>2, RunStateNames DEF ImportReview
  <2>2. PICK s \in RunStates \ {"NONE"} : \E u \in TaskStatesOf(s) :
          /\ state' = [state EXCEPT ![r] = s]
          /\ status' = [status EXCEPT ![Task(r)] = u]
          /\ s = "NEEDS_FIX" /\ u = "NEEDS_FIX" => verdict = "NEEDS_FIX"
    BY <1>2, StateNames, TaskStatesOfFacts DEF ImportReview, Record
  <2>3. /\ reviewed' = [reviewed EXCEPT ![r] = snapshot[r].gen]
        /\ review_status' = [review_status EXCEPT ![r] = verdict]
        /\ UNCHANGED <<attempts, verify_status, snapshot>>
    BY <1>2 DEF ImportReview, ReportCurrent
  <2>4. reviewed'[r] = snapshot'[r].gen /\ review_status'[r] = verdict
    BY <2>3 DEF TypeOK
  <2>5. \A q \in Runs : q # r => JudgementKept(q)
    BY <2>3 DEF JudgementKept, TypeOK
  <2>6. QED
    BY <2>1, <2>2, <2>3, <2>4, <2>5 DEF Settles, SentBack
<1>3. CASE Approve(r) \/ WaitOwner(r)
  <2>1. /\ state[r] = "VERIFIED" /\ state' = [state EXCEPT ![r] = "VERIFIED"]
        /\ \E u \in {"READY_TO_PUBLISH", "WAITING_OWNER"} : status' = [status EXCEPT ![Task(r)] = u]
        /\ UNCHANGED <<attempts, verify_status, snapshot, reviewed, review_status>>
    BY <1>3 DEF Approve, WaitOwner, Record, TypeOK
  <2>2. state[r] \in WRITER_LOCK_RUN_STATES /\ "VERIFIED" \in RunStates \ {"NONE"}
    BY <2>1, RunStateNames, StateNames
  <2>3. QED
    BY <2>1, <2>2, TaskStatesOfFacts DEF Settles, JudgementKept
<1>4. CASE Complete(r) \/ PublishFinalize(r)
  <2>1. /\ state[r] = "VERIFIED" /\ state' = [state EXCEPT ![r] = "COMPLETE"]
        /\ status' = [status EXCEPT ![Task(r)] = "DONE"]
        /\ UNCHANGED <<attempts, verify_status, snapshot, reviewed, review_status>>
    BY <1>4 DEF Complete, PublishFinalize, PublishUnchanged, Record, SerialInv, PublishingVerified
  <2>2. state[r] \in WRITER_LOCK_RUN_STATES /\ "COMPLETE" \in RunStates \ {"NONE"}
    BY <2>1, RunStateNames, StateNames
  <2>3. QED
    BY <2>1, <2>2, TaskStatesOfFacts DEF Settles, JudgementKept
<1>5. QED
  BY <1>1, <1>2, <1>3, <1>4

LEMMA StepTells ==
  ASSUME TypeOK, TablesAgree, SerialInv, [Next]_vars
  PROVE  (\E t \in Tasks : Inserts(t)) \/ (\E r \in Runs : Settles(r)) \/ Waits
<1>1. QueueStep \/ WorkspaceStep \/ UNCHANGED vars => Waits
  BY DEF QueueStep, LoadPlan, Pause, Resume, PauseProject, ResumeProject, CancelTask, PlanTasks,
    WorkspaceStep, Edit, OutsideCommit, vars, Waits, JudgementKept, TypeOK,
    taskVars, runVars, gateVars, pauseVars, capVars, treeVars
<1>2. QED
  BY <1>1, ClaimTells, WorkerTells, VerifyTells, GateTells DEF Next

-----------------------------------------------------------------------------
(* The story holds: under each of the three the tables agree again, a task that is     *)
(* DONE stays DONE, and a claimed task keeps its dependencies.                          *)

LEMMA TablesInit == Init => TablesAgree /\ DependenciesStayDone
<1>1. \A r \in Runs : Attempt(r) > 0 /\ Task(r) \in Tasks
  BY RunFacts, LedgerAssumption DEF PayloadType
<1>2. \A t \in Tasks : 0 <= Payload[t].max_attempts
  BY LedgerAssumption DEF PayloadType
<1>3. QED
  BY <1>1, <1>2, RunFacts DEF Init, TablesAgree, DependenciesStayDone

LEMMA TablesInserted ==
  ASSUME TypeOK, TablesAgree, NEW t \in Tasks, Inserts(t)
  PROVE  TablesAgree'
<1>. DEFINE n == <<t, attempts[t] + 1>>
<1>1. /\ n \in Runs /\ Task(n) = t /\ Attempt(n) = attempts[t] + 1
      /\ attempts[t] \in Nat /\ attempts[t] + 1 <= Payload[t].max_attempts
      /\ Payload[t].max_attempts \in Nat
  <2>1. n \in Runs /\ Task(n) = t /\ Attempt(n) = attempts[t] + 1
    BY DEF Inserts, Task, Attempt
  <2>2. attempts[t] \in Nat /\ Payload[t].max_attempts \in Nat
    BY LedgerAssumption DEF TypeOK, PayloadType
  <2>3. attempts[t] + 1 \in 1 .. Payload[t].max_attempts
    BY <2>1, RunFacts
  <2>4. QED
    BY <2>1, <2>2, <2>3
<1>2. /\ attempts'[t] = attempts[t] + 1 /\ \A u \in Tasks : u # t => attempts'[u] = attempts[u]
      /\ state'[n] = "RUNNING" /\ \A q \in Runs : q # n => state'[q] = state[q]
  BY <1>1 DEF Inserts, TypeOK
<1>3. /\ status'[t] = "IN_PROGRESS"
      /\ \A u \in Tasks : u # t =>
           status'[u] = status[u] \/ (status[u] \in READY_TASK_STATES /\ status'[u] = "BLOCKED")
  BY DEF Inserts
<1>4. \A u \in Tasks : attempts'[u] <= Payload[u].max_attempts
  BY <1>1, <1>2 DEF TablesAgree
<1>5. \A u \in Tasks : attempts'[u] = 0 =>
        status'[u] \in {"ABSENT", "PLANNED", "BLOCKED", "CANCELLED"}
  BY <1>1, <1>2, <1>3 DEF TablesAgree
<1>6. ASSUME NEW q \in Runs
      PROVE  /\ Attempt(q) > attempts'[Task(q)] <=> state'[q] = "NONE"
             /\ Attempt(q) = attempts'[Task(q)] => status'[Task(q)] \in TaskStatesOf(state'[q])
             /\ Attempt(q) < attempts'[Task(q)] => state'[q] \in {"NEEDS_FIX", "BLOCKED", "ABORTED"}
  <2>1. /\ Task(q) \in Tasks /\ Attempt(q) \in Nat /\ attempts[Task(q)] \in Nat
        /\ q # n /\ Task(q) = t => Attempt(q) # attempts[t] + 1
    BY <1>1, RunFacts, LedgerAssumption DEF TypeOK, PayloadType
  <2>2. CASE q = n
    BY <1>1, <1>2, <1>3, <2>2, TaskStatesOfFacts
  <2>3. CASE q # n /\ Task(q) = t
    <3>1. state'[q] = state[q] /\ attempts'[Task(q)] = attempts[t] + 1
      BY <1>2, <2>3
    <3>2. Attempt(q) = attempts[t] => state[q] \in {"NEEDS_FIX", "BLOCKED", "ABORTED"}
      BY <2>3 DEF Inserts
    <3>3. Attempt(q) < attempts[t] => state[q] \in {"NEEDS_FIX", "BLOCKED", "ABORTED"}
      BY <2>3 DEF TablesAgree
    <3>4. Attempt(q) > attempts[t] <=> state[q] = "NONE"
      BY <2>3 DEF TablesAgree
    <3>5. QED
      BY <1>1, <2>1, <2>3, <3>1, <3>2, <3>3, <3>4
  <2>4. CASE Task(q) # t
    <3>1. q # n
      BY <1>1, <2>4
    <3>2. state'[q] = state[q] /\ attempts'[Task(q)] = attempts[Task(q)]
      BY <1>2, <2>1, <2>4, <3>1
    <3>3. CASE status'[Task(q)] = status[Task(q)]
      BY <3>2, <3>3 DEF TablesAgree
    <3>4. CASE status[Task(q)] \in READY_TASK_STATES /\ status'[Task(q)] = "BLOCKED"
      <4>1. ASSUME Attempt(q) = attempts[Task(q)] PROVE "BLOCKED" \in TaskStatesOf(state[q])
        BY <3>4, <4>1, IdleStates DEF TablesAgree, TypeOK
      <4>2. QED
        BY <3>2, <3>4, <4>1 DEF TablesAgree
    <3>5. QED
      BY <1>3, <2>1, <2>4, <3>3, <3>4
  <2>5. QED
    BY <2>2, <2>3, <2>4
<1>7. QED
  BY <1>4, <1>5, <1>6 DEF TablesAgree

LEMMA TablesSettled ==
  ASSUME TypeOK, TablesAgree, NEW r \in Runs, Settles(r)
  PROVE  TablesAgree'
<1>. DEFINE t == Task(r)
<1>0. PICK s \in RunStates \ {"NONE"} : \E u \in TaskStatesOf(s) :
        state' = [state EXCEPT ![r] = s] /\ status' = [status EXCEPT ![t] = u]
  BY DEF Settles
<1>1. PICK u \in TaskStatesOf(s) :
        state' = [state EXCEPT ![r] = s] /\ status' = [status EXCEPT ![t] = u]
  BY <1>0
<1>2. /\ t \in Tasks /\ attempts' = attempts /\ state[r] \in WRITER_LOCK_RUN_STATES
      /\ Attempt(r) = attempts[t]
  BY RunFacts, HeldIsLatest DEF Settles
<1>3. /\ state'[r] = s /\ \A q \in Runs : q # r => state'[q] = state[q]
      /\ status'[t] = u /\ \A x \in Tasks : x # t => status'[x] = status[x]
  BY <1>1, <1>2 DEF TypeOK
<1>4. \A x \in Tasks : attempts'[x] = 0 =>
        status'[x] \in {"ABSENT", "PLANNED", "BLOCKED", "CANCELLED"}
  <2>1. attempts[t] # 0
    BY <1>2, RunFacts, LedgerAssumption DEF PayloadType
  <2>2. QED
    BY <1>2, <1>3, <2>1 DEF TablesAgree
<1>5. ASSUME NEW q \in Runs
      PROVE  /\ Attempt(q) > attempts[Task(q)] <=> state'[q] = "NONE"
             /\ Attempt(q) = attempts[Task(q)] => status'[Task(q)] \in TaskStatesOf(state'[q])
             /\ Attempt(q) < attempts[Task(q)] => state'[q] \in {"NEEDS_FIX", "BLOCKED", "ABORTED"}
  <2>1. CASE q = r
    <3>1. attempts[t] \in Nat
      BY <1>2 DEF TypeOK
    <3>2. QED
      BY <1>1, <1>2, <1>3, <2>1, <3>1
  <2>2. CASE q # r
    <3>1. state'[q] = state[q]
      BY <1>3, <2>2
    <3>2. Attempt(q) = attempts[Task(q)] => Task(q) # t /\ Task(q) \in Tasks
      BY <1>2, <2>2, RunFacts
    <3>3. Attempt(q) = attempts[Task(q)] => status'[Task(q)] = status[Task(q)]
      BY <1>3, <3>2
    <3>4. QED
      BY <3>1, <3>3 DEF TablesAgree
  <2>3. QED
    BY <2>1, <2>2
<1>6. QED
  BY <1>2, <1>4, <1>5 DEF TablesAgree

LEMMA TablesWaited ==
  ASSUME TypeOK, TablesAgree, Waits
  PROVE  TablesAgree'
<1>1. attempts' = attempts /\ state' = state
  BY DEF Waits
<1>2. ASSUME NEW q \in Runs, Attempt(q) = attempts[Task(q)]
      PROVE  status'[Task(q)] \in TaskStatesOf(state[q])
  <2>1. Task(q) \in Tasks /\ status[Task(q)] \in TaskStatesOf(state[q])
    BY <1>2, RunFacts DEF TablesAgree
  <2>2. status[Task(q)] # "ABSENT" /\ status[Task(q)] # "PLANNED"
    BY ZenonT(40), <2>1, TaskStatesOfFacts DEF TypeOK, RunStates, WRITER_LOCK_RUN_STATES, ACTIVE_RUN_STATES,
      CLOSED_RUN_STATES
  <2>3. status[Task(q)] \in READY_TASK_STATES \cup {"BLOCKED"} =>
          TaskStatesOf(state[q]) = {"NEEDS_FIX", "BLOCKED", "CANCELLED"}
    BY <2>1, IdleStates DEF TypeOK
  <2>4. QED
    BY <2>1, <2>2, <2>3 DEF Waits
<1>3. \A t \in Tasks : attempts[t] = 0 =>
        status'[t] \in {"ABSENT", "PLANNED", "BLOCKED", "CANCELLED"}
  BY DEF Waits, TablesAgree
<1>4. QED
  BY <1>1, <1>2, <1>3 DEF TablesAgree

(* A DONE task has completed its latest run, and no step moves either.                   *)
LEMMA DoneStays ==
  ASSUME TypeOK, TablesAgree, NEW d \in Tasks, status[d] = "DONE",
         (\E t \in Tasks : Inserts(t)) \/ (\E r \in Runs : Settles(r)) \/ Waits
  PROVE  status'[d] = "DONE"
<1>1. attempts[d] # 0
  BY DEF TablesAgree
<1>. DEFINE l == <<d, attempts[d]>>
<1>2. l \in Runs /\ Task(l) = d /\ Attempt(l) = attempts[d] /\ state[l] = "COMPLETE"
  BY <1>1, LatestRun, IdleStates, TaskStatesOfFacts DEF TypeOK
<1>3. ASSUME NEW t \in Tasks, Inserts(t) PROVE status'[d] = "DONE"
  <2>1. d # t
    BY <1>2, <1>3 DEF Inserts
  <2>2. QED
    BY <1>3, <2>1 DEF Inserts, READY_TASK_STATES
<1>4. ASSUME NEW r \in Runs, Settles(r) PROVE status'[d] = "DONE"
  <2>1. state[r] \in WRITER_LOCK_RUN_STATES /\ Attempt(r) = attempts[Task(r)]
    BY <1>4, HeldIsLatest DEF Settles
  <2>2. r # l /\ Task(r) # d
    BY <1>2, <2>1, RunFacts, RunStateNames
  <2>3. QED
    BY <1>4, <2>2, RunFacts DEF Settles, TypeOK
<1>5. ASSUME Waits PROVE status'[d] = "DONE"
  BY <1>5 DEF Waits, READY_TASK_STATES
<1>6. QED
  BY <1>3, <1>4, <1>5

LEMMA DependenciesKept ==
  ASSUME TypeOK, TablesAgree, DependenciesStayDone,
         (\E t \in Tasks : Inserts(t)) \/ (\E r \in Runs : Settles(r)) \/ Waits
  PROVE  DependenciesStayDone'
<1>1. ASSUME NEW q \in Runs, state'[q] # "NONE", NEW d \in Payload[Task(q)].dependencies
      PROVE  status'[d] = "DONE"
  <2>1. Task(q) \in Tasks /\ d \in Tasks
    BY <1>1, RunFacts, LedgerAssumption DEF PayloadType
  <2>2. status[d] = "DONE"
    <3>1. CASE state[q] # "NONE"
      BY <1>1, <3>1 DEF DependenciesStayDone
    <3>2. CASE state[q] = "NONE"
      <4>1. PICK t \in Tasks : Inserts(t) /\ q = <<t, attempts[t] + 1>>
        BY ZenonT(40), <1>1, <3>2, RunStateNames DEF Inserts, Settles, Waits, TypeOK
      <4>2. Task(q) = t
        BY <4>1 DEF Task
      <4>3. QED
        BY <1>1, <4>1, <4>2 DEF Inserts, DependenciesDone
    <3>3. QED
      BY <3>1, <3>2
  <2>3. QED
    BY <2>1, <2>2, DoneStays
<1>2. QED
  BY <1>1 DEF DependenciesStayDone

LEMMA StoryStep ==
  ASSUME TypeOK, TablesAgree, DependenciesStayDone, SerialInv, [Next]_vars
  PROVE  TablesAgree' /\ DependenciesStayDone'
BY StepTells, TablesInserted, TablesSettled, TablesWaited, DependenciesKept

(* Whatever operators queue, claim, verify, review, abort and cancel, one call per run   *)
(* at a time (_set_task, _set_run): the task table and the run table agree, a claimed    *)
(* task keeps dependencies that are DONE, and a completed run passed every gate for its  *)
(* very snapshot.                                                                        *)
THEOREM LedgerConsistentHolds ==
  ASSUME Serialized
  PROVE  Spec => []LedgerConsistent
<1>1. Spec => []GatesBindSnapshot
  BY GatesBindSnapshotHolds
<1>2. Spec => [](TypeOK /\ LeaseInv /\ SerialInv)
  BY SerialHolds
<1>. DEFINE Story == TablesAgree /\ DependenciesStayDone
<1>4. TypeOK /\ SerialInv /\ Story /\ [Next]_vars => Story'
  BY StoryStep
<1>5. Init => Story
  BY TablesInit
<1>6. Spec => []Story
  <2>. HIDE DEF Story
  <2>1. QED
    BY <1>2, <1>4, <1>5, PTL DEF Spec
<1>7. TypeOK /\ Story /\ GatesBindSnapshot => LedgerConsistent
  BY DEF LedgerConsistent
<1>8. QED
  BY <1>1, <1>2, <1>6, <1>7, PTL

-----------------------------------------------------------------------------
(* What repair admission relies on.  The event tail it reads names a review that asked *)
(* for a fix, and a run that passed its checks and waits as NEEDS_FIX was sent back for *)
(* the snapshot that passed.                                                            *)

TrailTruthful ==
  \A t \in Tasks : trail[t].kind # "other" =>
    /\ <<t, trail[t].attempt>> \in Runs
    /\ review_status[<<t, trail[t].attempt>>] = "NEEDS_FIX"
    /\ reviewed[<<t, trail[t].attempt>>] = trail[t].gen

SentBackInv ==
  \A r \in Runs :
    /\ Attempt(r) = attempts[Task(r)] /\ state[r] = "NEEDS_FIX"
    /\ verify_status[r] = "PASS" /\ status[Task(r)] = "NEEDS_FIX"
    => SentBack(r)

(* The tail of t keeps the review it names, or names none.                              *)
TrailKept(t) ==
  \/ trail'[t].kind = "other"
  \/ /\ trail[t].kind # "other"
     /\ trail'[t].attempt = trail[t].attempt /\ trail'[t].gen = trail[t].gen

LEMMA TailFacts ==
  /\ Other.kind = "other"
  /\ \A e \in Trails, p \in Paths :
       \/ Dirty(e, p).kind = "other"
       \/ /\ e.kind # "other"
          /\ Dirty(e, p).attempt = e.attempt /\ Dirty(e, p).gen = e.gen
BY DEF Other, Dirty, Trails

LEMMA TailCleared ==
  ASSUME TypeOK, NEW u \in Tasks, trail' = [trail EXCEPT ![u] = Other]
  PROVE  \A t \in Tasks : TrailKept(t)
<1>1. ASSUME NEW t \in Tasks PROVE trail'[t] = Other \/ trail'[t] = trail[t]
  BY DEF TypeOK
<1>2. QED
  BY <1>1, TailFacts DEF TrailKept

LEMMA TailClaim ==
  ASSUME TypeOK, ClaimStep
  PROVE  UNCHANGED <<reviewed, review_status>> /\ \A t \in Tasks : TrailKept(t)
<1>. USE DEF taskVars, runVars, gateVars, pauseVars, capVars, treeVars
<1>. DEFINE Goal == UNCHANGED <<reviewed, review_status>> /\ \A t \in Tasks : TrailKept(t)
<1>1. ASSUME NEW wanted \in ProjectFilters, ClaimNoWork(wanted) PROVE Goal
  <2>1. \A t \in Tasks : trail'[t] = Other \/ trail'[t] = trail[t]
    BY <1>1 DEF ClaimNoWork
  <2>2. QED
    BY <1>1, <2>1, TailFacts DEF ClaimNoWork, TrailKept
<1>2. ASSUME NEW wanted \in ProjectFilters, NEW u \in Tasks, ClaimBlocked(u, wanted) PROVE Goal
  <2>1. PICK event \in {Other} \cup {Dirty(trail[u], p) : p \in Paths} :
          trail' = [x \in Tasks |-> IF x = u THEN event
                      ELSE IF Passed(x, wanted, queue_seq[u]) THEN Other ELSE trail[x]]
    BY <1>2 DEF ClaimBlocked
  <2>2. trail'[u] = event /\ \A x \in Tasks : x # u => trail'[x] = Other \/ trail'[x] = trail[x]
    BY <2>1
  <2>3. trail[u] \in Trails
    BY DEF TypeOK
  <2>4. TrailKept(u)
    BY <2>2, <2>3, TailFacts DEF TrailKept
  <2>5. \A x \in Tasks : x # u => TrailKept(x)
    BY <2>2, TailFacts DEF TrailKept
  <2>6. QED
    BY <1>2, <2>4, <2>5 DEF ClaimBlocked
<1>3. ASSUME NEW wanted \in ProjectFilters, NEW u \in Tasks, Claim(u, wanted) PROVE Goal
  <2>1. \A t \in Tasks : trail'[t] = Other \/ trail'[t] = trail[t]
    BY <1>3 DEF Claim
  <2>2. QED
    BY <1>3, <2>1, TailFacts DEF Claim, TrailKept
<1>4. ASSUME NEW r \in Runs, RepairClaim(r) \/ WriteCapabilityFails(r) PROVE Goal
  BY <1>4, RunFacts, TailCleared DEF RepairClaim, WriteCapabilityFails, Record
<1>5. ASSUME NEW r \in Runs, WriteCapability(r) \/ ClaimCrash(r) PROVE Goal
  BY <1>5 DEF WriteCapability, ClaimCrash, TrailKept
<1>6. QED
  BY <1>1, <1>2, <1>3, <1>4, <1>5 DEF ClaimStep

LEMMA TailWorker ==
  ASSUME TypeOK, WorkerStep
  PROVE  UNCHANGED <<reviewed, review_status>> /\ \A t \in Tasks : TrailKept(t)
<1>. USE DEF taskVars, runVars, gateVars, pauseVars, capVars, treeVars
<1>1. UNCHANGED <<reviewed, review_status>> /\
      (trail' = trail \/ \E u \in Tasks : trail' = [trail EXCEPT ![u] = Other])
  BY RunFacts DEF WorkerStep, Dispatch, ObserveExit, Quiesce, Submit, Abort, Record,
    RevokeCapability, RevokeCrash, PruneCapabilities
<1>2. QED
  BY <1>1, TailCleared DEF TrailKept

LEMMA TailVerify ==
  ASSUME TypeOK, VerifyStep
  PROVE  UNCHANGED <<reviewed, review_status>> /\ \A t \in Tasks : TrailKept(t)
<1>. USE DEF taskVars, runVars, gateVars, pauseVars, capVars, treeVars
<1>. PICK v \in Verifiers :
       \/ \E r \in Runs : VerifyStart(v, r)
       \/ VerifyScope(v) \/ VerifySnapshot(v)
       \/ \E passed \in BOOLEAN : VerifyChecks(v, passed)
       \/ VerifyBlocked(v) \/ VerifyRevoke(v) \/ VerifyCrash(v) \/ VerifyCommit(v)
  BY DEF VerifyStep
<1>1. CASE VerifyBlocked(v) \/ VerifyCommit(v)
  <2>1. Task(verifier[v].run) \in Tasks
    BY <1>1, RunFacts DEF VerifyBlocked, VerifyCommit, TypeOK, VerifierType
  <2>2. /\ UNCHANGED <<reviewed, review_status>>
        /\ trail' = [trail EXCEPT ![Task(verifier[v].run)] = Other]
    BY SMTT(30), <1>1 DEF VerifyBlocked, VerifyCommit, Record
  <2>3. QED
    BY <2>1, <2>2, TailCleared
<1>2. CASE ~(VerifyBlocked(v) \/ VerifyCommit(v))
  BY <1>2 DEF VerifyStart, VerifyScope, VerifySnapshot, VerifyChecks, VerifyRevoke, VerifyCrash,
    VerifyUnchanged, TrailKept
<1>3. QED
  BY <1>1, <1>2

LEMMA TrailReviewed ==
  ASSUME TypeOK, TrailTruthful, NEW r \in Runs,
         NEW verdict \in {"PASS", "NEEDS_FIX", "BLOCKED"}, ImportReview(r, verdict)
  PROVE  TrailTruthful'
<1>. DEFINE u == Task(r)
<1>1. /\ u \in Tasks /\ r = <<u, Attempt(r)>>
      /\ Attempt(r) \in Nat /\ snapshot[r].gen \in Nat
  BY RunFacts, LedgerAssumption DEF PayloadType, TypeOK, Snapshots
<1>2. /\ reviewed'[r] = snapshot[r].gen /\ review_status'[r] = verdict
      /\ \A q \in Runs : q # r =>
           reviewed'[q] = reviewed[q] /\ review_status'[q] = review_status[q]
  BY DEF ImportReview, ReportCurrent, TypeOK
<1>3. /\ \A t \in Tasks : t # u => trail'[t] = trail[t]
      /\ \/ trail'[u] = Other
         \/ verdict = "NEEDS_FIX" /\ trail'[u] = Fix(Attempt(r), snapshot[r].gen)
  BY <1>1 DEF ImportReview, Record, TypeOK
<1>4. ASSUME NEW t \in Tasks, trail'[t].kind # "other"
      PROVE  /\ <<t, trail'[t].attempt>> \in Runs
             /\ review_status'[<<t, trail'[t].attempt>>] = "NEEDS_FIX"
             /\ reviewed'[<<t, trail'[t].attempt>>] = trail'[t].gen
  <2>1. CASE t = u
    <3>1. verdict = "NEEDS_FIX" /\ trail'[u] = Fix(Attempt(r), snapshot[r].gen)
      BY <1>3, <1>4, <2>1, TailFacts
    <3>2. trail'[u].attempt = Attempt(r) /\ trail'[u].gen = snapshot[r].gen
      BY <3>1 DEF Fix
    <3>3. QED
      BY <1>1, <1>2, <2>1, <3>1, <3>2
  <2>2. CASE t # u
    <3>1. trail'[t] = trail[t]
      BY <1>3, <2>2
    <3>2. <<t, trail[t].attempt>> # r
      BY <1>1, <2>2
    <3>3. QED
      BY <1>2, <1>4, <3>1, <3>2 DEF TrailTruthful
  <2>3. QED
    BY <2>1, <2>2
<1>5. QED
  BY <1>4 DEF TrailTruthful

LEMMA TrailStep ==
  ASSUME TypeOK, TrailTruthful, [Next]_vars
  PROVE  TrailTruthful'
<1>. USE DEF taskVars, runVars, gateVars, pauseVars, capVars, treeVars
<1>1. ASSUME UNCHANGED <<reviewed, review_status>>, \A t \in Tasks : TrailKept(t)
      PROVE  TrailTruthful'
  BY <1>1 DEF TrailTruthful, TrailKept
<1>2. CASE QueueStep \/ WorkspaceStep \/ UNCHANGED vars
  <2>1. UNCHANGED <<reviewed, review_status>> /\
        (trail' = trail \/ \E u \in Tasks : trail' = [trail EXCEPT ![u] = Other])
    BY <1>2 DEF QueueStep, LoadPlan, Pause, Resume, PauseProject, ResumeProject, CancelTask,
      WorkspaceStep, Edit, OutsideCommit, vars
  <2>2. \A t \in Tasks : TrailKept(t)
    BY <2>1, TailCleared DEF TrailKept
  <2>3. QED
    BY <1>1, <2>1, <2>2
<1>3. CASE ClaimStep
  BY <1>1, <1>3, TailClaim
<1>4. CASE WorkerStep
  BY <1>1, <1>4, TailWorker
<1>5. CASE VerifyStep
  BY <1>1, <1>5, TailVerify
<1>6. ASSUME NEW r \in Runs,
             \/ WriteReport(r) \/ Approve(r) \/ WaitOwner(r) \/ Complete(r)
             \/ PublishIntent(r) \/ PublishRef(r) \/ PublishAbandon(r) \/ PublishFinalize(r)
      PROVE  TrailTruthful'
  <2>1. UNCHANGED <<reviewed, review_status>> /\
        (trail' = trail \/ \E u \in Tasks : trail' = [trail EXCEPT ![u] = Other])
    BY <1>6, RunFacts DEF WriteReport, Approve, WaitOwner, Complete, PublishIntent, PublishRef,
      PublishAbandon, PublishFinalize, PublishUnchanged, Record
  <2>2. \A t \in Tasks : TrailKept(t)
    BY <2>1, TailCleared DEF TrailKept
  <2>3. QED
    BY <1>1, <2>1, <2>2
<1>7. CASE GateStep
  BY <1>6, <1>7, TrailReviewed DEF GateStep
<1>8. QED
  BY <1>2, <1>3, <1>4, <1>5, <1>7 DEF Next

LEMMA SentBackStep ==
  ASSUME TypeOK, TablesAgree, SentBackInv,
         (\E t \in Tasks : Inserts(t)) \/ (\E r \in Runs : Settles(r)) \/ Waits
  PROVE  SentBackInv'
<1>1. SUFFICES ASSUME NEW q \in Runs, Attempt(q) = attempts'[Task(q)], state'[q] = "NEEDS_FIX",
                      verify_status'[q] = "PASS", status'[Task(q)] = "NEEDS_FIX"
               PROVE  SentBack(q)'
  BY DEF SentBackInv
<1>2. Task(q) \in Tasks
  BY RunFacts
<1>3. ASSUME Attempt(q) = attempts[Task(q)], state[q] = "NEEDS_FIX",
             status[Task(q)] = "NEEDS_FIX", JudgementKept(q)
      PROVE  SentBack(q)'
  BY <1>1, <1>3 DEF SentBackInv, SentBack, JudgementKept
<1>4. ASSUME NEW t \in Tasks, Inserts(t) PROVE SentBack(q)'
  <2>1. Task(q) # t
    BY <1>1, <1>4 DEF Inserts
  <2>2. attempts'[Task(q)] = attempts[Task(q)] /\ status[Task(q)] = "NEEDS_FIX"
    BY <1>1, <1>2, <1>4, <2>1 DEF Inserts, TypeOK
  <2>3. state[q] = "NEEDS_FIX"
    BY <1>1, <1>4 DEF Inserts, TypeOK
  <2>4. QED
    BY <1>1, <1>3, <1>4, <2>2, <2>3 DEF Inserts
<1>5. ASSUME NEW r \in Runs, Settles(r) PROVE SentBack(q)'
  <2>1. PICK s \in RunStates \ {"NONE"} : \E u \in TaskStatesOf(s) :
          /\ state' = [state EXCEPT ![r] = s]
          /\ status' = [status EXCEPT ![Task(r)] = u]
          /\ s = "NEEDS_FIX" /\ u = "NEEDS_FIX" /\ verify_status'[r] = "PASS" => SentBack(r)'
    BY <1>5 DEF Settles
  <2>2. CASE q = r
    BY <1>1, <1>2, <2>1, <2>2 DEF TypeOK
  <2>3. CASE q # r
    <3>1. attempts' = attempts /\ JudgementKept(q) /\ Attempt(r) = attempts[Task(r)]
      BY <1>5, <2>3, HeldIsLatest DEF Settles
    <3>2. Task(q) # Task(r)
      BY <1>1, <2>3, <3>1, RunFacts
    <3>3. state[q] = "NEEDS_FIX" /\ status[Task(q)] = "NEEDS_FIX"
      BY <1>1, <1>2, <2>1, <2>3, <3>2 DEF TypeOK
    <3>4. QED
      BY <1>1, <1>3, <3>1, <3>3
  <2>4. QED
    BY <2>2, <2>3
<1>6. ASSUME Waits PROVE SentBack(q)'
  BY <1>1, <1>2, <1>3, <1>6 DEF Waits
<1>7. QED
  BY <1>4, <1>5, <1>6

(* Only a claim or a repair claim starts an attempt.                                    *)
LEMMA Starters ==
  ASSUME TypeOK, [Next]_vars, NEW t \in Tasks, attempts'[t] # attempts[t]
  PROVE  \/ \E wanted \in ProjectFilters : Claim(t, wanted)
         \/ \E r \in Runs : Task(r) = t /\ RepairClaim(r)
<1>. USE DEF taskVars, runVars, gateVars, pauseVars, capVars, treeVars
<1>1. ~(QueueStep \/ WorkspaceStep \/ UNCHANGED vars)
  BY DEF QueueStep, LoadPlan, Pause, Resume, PauseProject, ResumeProject, CancelTask,
    WorkspaceStep, Edit, OutsideCommit, vars
<1>2. ~WorkerStep
  BY DEF WorkerStep, Dispatch, ObserveExit, Quiesce, Submit, Abort, RevokeCapability,
    RevokeCrash, PruneCapabilities
<1>3. ~VerifyStep
  BY DEF VerifyStep, VerifyStart, VerifyScope, VerifySnapshot, VerifyChecks, VerifyBlocked,
    VerifyRevoke, VerifyCrash, VerifyCommit, VerifyUnchanged
<1>4. ~GateStep
  BY DEF GateStep, WriteReport, ImportReview, Approve, WaitOwner, Complete, PublishIntent,
    PublishRef, PublishAbandon, PublishFinalize, PublishUnchanged
<1>5. ClaimStep
  BY <1>1, <1>2, <1>3, <1>4 DEF Next
<1>6. \/ \E wanted \in ProjectFilters, u \in Tasks : Claim(u, wanted)
      \/ \E r \in Runs : RepairClaim(r)
  BY <1>5 DEF ClaimStep, ClaimNoWork, ClaimBlocked, WriteCapability, WriteCapabilityFails, ClaimCrash
<1>7. ASSUME NEW u \in Tasks, Reserve(u) PROVE u = t
  BY <1>7 DEF Reserve, TypeOK
<1>8. QED
  BY <1>6, <1>7, RunFacts DEF Claim, RepairClaim

LEMMA StartsStep ==
  ASSUME TypeOK, TrailTruthful, SentBackInv, [Next]_vars, NEW t \in Tasks,
         attempts'[t] # attempts[t], Payload[t].workspace \in GitWorkspaces
  PROVE  LET prior == <<t, attempts[t]>>
             w == Payload[t].workspace
         IN  \/ Observed(w) = {}
             \/ /\ prior \in Runs
                /\ verify_status[prior] = "PASS"
                /\ review_status[prior] = "NEEDS_FIX"
                /\ reviewed[prior] = snapshot[prior].gen
                /\ snapshot[prior].git_head = head[w]
                /\ Observed(w) \subseteq DOMAIN snapshot[prior].files
                /\ \A p \in Observed(w) : tree[w][p] = snapshot[prior].files[p]
<1>. DEFINE prior == <<t, attempts[t]>>
            w == Payload[t].workspace
<1>1. ASSUME NEW wanted \in ProjectFilters, Claim(t, wanted) PROVE Observed(w) = {}
  BY <1>1 DEF Claim, ScopePasses
<1>2. ASSUME NEW r \in Runs, Task(r) = t, RepairClaim(r)
      PROVE  /\ prior \in Runs
             /\ verify_status[prior] = "PASS"
             /\ review_status[prior] = "NEEDS_FIX"
             /\ reviewed[prior] = snapshot[prior].gen
             /\ snapshot[prior].git_head = head[w]
             /\ Observed(w) \subseteq DOMAIN snapshot[prior].files
             /\ \A p \in Observed(w) : tree[w][p] = snapshot[prior].files[p]
  <2>1. RepairGuard(t, r)
    BY <1>2 DEF RepairClaim
  <2>2. r = prior
    BY <1>2, <2>1, RunFacts DEF RepairGuard
  <2>3. SentBack(r)
    <3>1. CASE status[t] = "NEEDS_FIX"
      BY <1>2, <2>1, <3>1 DEF RepairGuard, SentBackInv
    <3>2. CASE /\ trail[t].kind = "dirty" /\ trail[t].attempt = Attempt(r)
               /\ trail[t].gen = snapshot[r].gen
      <4>1. <<t, trail[t].attempt>> = r
        BY <1>2, <3>2, RunFacts
      <4>2. QED
        BY <3>2, <4>1 DEF TrailTruthful, SentBack
    <3>3. QED
      BY <2>1, <3>1, <3>2 DEF RepairGuard
  <2>4. snapshot[r].git_head = head[w]
    BY <2>1 DEF RepairGuard, GitHead
  <2>5. Observed(w) = DOMAIN snapshot[r].files
    BY <2>1 DEF RepairGuard, ScopePasses
  <2>6. \A p \in DOMAIN snapshot[r].files : tree[w][p] = snapshot[r].files[p]
    BY <2>1 DEF RepairGuard, ManifestCurrent
  <2>7. verify_status[r] = "PASS"
    BY <2>1 DEF RepairGuard
  <2>8. QED
    BY <1>2, <2>2, <2>3, <2>4, <2>5, <2>6, <2>7 DEF SentBack
<1>3. QED
  BY <1>1, <1>2, Starters

(* claim and _repair_claim_guard, for any plan: a run in a Git workspace starts on a     *)
(* clean tree, or on exactly the bytes and base of the latest attempt that passed its    *)
(* checks and was sent back for a fix of that very snapshot.                             *)
THEOREM StartsCleanOrSentBackHolds ==
  ASSUME Serialized
  PROVE  Spec => StartsCleanOrSentBack
<1>1. Spec => [](TypeOK /\ LeaseInv /\ SerialInv)
  BY SerialHolds
<1>2. Spec => []LedgerConsistent
  BY LedgerConsistentHolds
<1>3. LedgerConsistent => TablesAgree
  BY DEF LedgerConsistent
<1>. DEFINE Sent == TrailTruthful /\ SentBackInv
<1>4. Init => Sent
  BY TailFacts DEF Init, TrailTruthful, SentBackInv
<1>5. TypeOK /\ TablesAgree /\ SerialInv /\ Sent /\ [Next]_vars => Sent'
  BY StepTells, TrailStep, SentBackStep
<1>6. Spec => []Sent
  <2>. HIDE DEF Sent
  <2>1. QED
    BY <1>1, <1>2, <1>3, <1>4, <1>5, PTL DEF Spec
<1>. DEFINE Starts == \A t \in Tasks :
       attempts'[t] # attempts[t] /\ Payload[t].workspace \in GitWorkspaces
       => LET prior == <<t, attempts[t]>>
              w == Payload[t].workspace
          IN  \/ Observed(w) = {}
              \/ /\ prior \in Runs
                 /\ verify_status[prior] = "PASS"
                 /\ review_status[prior] = "NEEDS_FIX"
                 /\ reviewed[prior] = snapshot[prior].gen
                 /\ snapshot[prior].git_head = head[w]
                 /\ Observed(w) \subseteq DOMAIN snapshot[prior].files
                 /\ \A p \in Observed(w) : tree[w][p] = snapshot[prior].files[p]
<1>7. TypeOK /\ Sent /\ [Next]_vars => [Starts]_vars
  BY StartsStep
<1>8. Spec => [][Starts]_vars
  <2>. HIDE DEF Sent, Starts
  <2>1. QED
    BY <1>1, <1>6, <1>7, PTL DEF Spec
<1>9. QED
  BY <1>8 DEF StartsCleanOrSentBack
=============================================================================

------------------------------- MODULE Ledger -------------------------------
(***************************************************************************)
(* The run lifecycle of OrchKit's control plane (orch/core.py): plans are   *)
(* loaded into a queue, a worker claims the first eligible task, edits the  *)
(* shared workspace, submits and quiesces; the helper verifies, an optional *)
(* reviewer and owner gate the verified snapshot, and the run is completed  *)
(* or published.                                                            *)
(*                                                                          *)
(* Every SQLite transaction is one step.  What the code does outside a      *)
(* transaction (writing or unlinking a capability file, scanning the        *)
(* workspace, running checks) is a step of its own, so other operators,     *)
(* workspace edits and crashes interleave with it.                          *)
(***************************************************************************)
EXTENDS Integers, FiniteSets

CONSTANTS
  Tasks,        \* task ids
  Projects,     \* project ids
  WriterKeys,   \* writer identities (hash of the Git common dir or workspace)
  Workspaces,   \* registered workspace directories
  GitWorkspaces,\* the ones that are Git work trees
  Revisions,    \* plan revisions
  Paths,        \* workspace-relative paths, ordered as naturals
  Contents,     \* file contents relative to HEAD: 0 is "as in HEAD"
  Payload,      \* the immutable payload_json of each task
  Verifiers,    \* verify calls that may be in flight at once
  Serialized,   \* TRUE: operators await claim and verify before aborting
  CanPause,     \* whether operators pause and resume in this instance
  MaxHead,      \* bound on commits in one workspace
  MaxGen        \* bound on snapshots of one run

PayloadType ==
  [plan_revision : Revisions, ordinal : Nat, project_id : Projects,
   writer_key : WriterKeys, workspace : Workspaces,
   dependencies : SUBSET Tasks, allowed_paths : SUBSET Paths,
   max_attempts : Nat \ {0}, publication : {"none", "git"},
   owner_acceptance : BOOLEAN, review_mode : {"off", "required", "risk_based"},
   sensitive : SUBSET Paths, review_on_retry : BOOLEAN]

ASSUME LedgerAssumption ==
  /\ Paths \subseteq Nat
  /\ Contents \subseteq Nat /\ 0 \in Contents
  /\ GitWorkspaces \subseteq Workspaces
  /\ Payload \in [Tasks -> PayloadType]
  /\ \A t \in Tasks :
       /\ t \notin Payload[t].dependencies
       /\ Payload[t].publication = "git" => Payload[t].workspace \in GitWorkspaces
  /\ Serialized \in BOOLEAN /\ CanPause \in BOOLEAN
  /\ MaxHead \in Nat /\ MaxGen \in Nat

VARIABLES
  \* table tasks, and the tail of each task's event log
  status, queue_seq, attempts, trail,
  \* table runs, keyed by (task, attempt)
  state, verify_status, claim_git_head, receipt, snapshot,
  \* review report on disk, the snapshot and verdict last imported, approvals,
  \* publications
  report, reviewed, review_status, approval, publication,
  \* table settings
  paused, project_paused,
  \* capability files, claim calls that still have to write one, and the
  \* run whose quiesce or abort holds the runtime lock to unlink one
  capability, claiming, runtime_lock,
  \* runs with a dispatched worker effect whose outcome is not recorded
  unresolved,
  \* verify calls in flight
  verifier,
  \* the workspaces themselves
  tree, head

taskVars  == <<status, queue_seq, attempts, trail>>
runVars   == <<state, verify_status, claim_git_head, receipt, snapshot>>
gateVars  == <<report, reviewed, review_status, approval, publication>>
pauseVars == <<paused, project_paused>>
capVars   == <<capability, claiming, runtime_lock>>
treeVars  == <<tree, head>>
vars == <<taskVars, runVars, gateVars, pauseVars, capVars, unresolved,
          verifier, treeVars>>

(* Runs are named by task and attempt; the row exists once it is claimed.   *)
Runs == UNION {{t} \X (1 .. Payload[t].max_attempts) : t \in Tasks}
Task(r) == r[1]
Attempt(r) == r[2]
WriterKey(r) == Payload[Task(r)].writer_key
Workspace(r) == Payload[Task(r)].workspace
NoRun == <<>>

ACTIVE_RUN_STATES ==
  {"RUNNING", "RESULT_SUBMITTED", "QUIESCING", "VERIFYING", "REVIEWING"}
WRITER_LOCK_RUN_STATES == ACTIVE_RUN_STATES \cup {"VERIFIED"}
READY_TASK_STATES == {"PLANNED", "READY", "NEEDS_FIX"}
CLOSED_RUN_STATES == {"NEEDS_FIX", "BLOCKED", "ABORTED", "COMPLETE"}
RunStates == {"NONE"} \cup WRITER_LOCK_RUN_STATES \cup CLOSED_RUN_STATES
TaskStates == READY_TASK_STATES
              \cup {"ABSENT", "IN_PROGRESS", "WAITING_REVIEW", "WAITING_OWNER",
                    "READY_TO_PUBLISH", "BLOCKED", "DONE", "CANCELLED"}

-----------------------------------------------------------------------------
(* Snapshots, and the event tail that repair admission reads.               *)

FileMaps == UNION {[S -> Contents] : S \in SUBSET Paths}
NoFiles  == [p \in {} |-> 0]

(* A snapshot id is a hash over bytes, base and creation time: generation    *)
(* numbers tell two snapshots of one run apart.                              *)
Snapshots == [gen : Nat, files : FileMaps, git_head : Nat]
NoSnapshot == [gen |-> 0, files |-> NoFiles, git_head |-> 0]

(* "fix": the last event of the task is REVIEW_IMPORTED with NEEDS_FIX for    *)
(* that attempt and snapshot; "dirty": it is followed by exactly one          *)
(* TASK_BLOCKED_AT_CLAIM naming that path; "other": anything else.            *)
Trails == [kind : {"other", "fix", "dirty"}, attempt : Nat, gen : Nat, path : Nat]
Other == [kind |-> "other", attempt |-> 0, gen |-> 0, path |-> 0]
Fix(a, g) == [kind |-> "fix", attempt |-> a, gen |-> g, path |-> 0]
Dirty(e, p) == IF e.kind = "fix" THEN [e EXCEPT !.kind = "dirty", !.path = p]
               ELSE Other

VerifierType ==
  {x \in [run : Runs \cup {NoRun},
          pc : {"idle", "scope", "snapshot", "checks", "commit", "revoke"},
          files : FileMaps, git_head : Nat, passed : BOOLEAN] :
     x.pc # "idle" => x.run \in Runs}
IdleVerifier == [run |-> NoRun, pc |-> "idle", files |-> NoFiles,
                 git_head |-> 0, passed |-> FALSE]

-----------------------------------------------------------------------------
(* The workspace evidence the guards are built from.                        *)

(* Paths that differ from HEAD in a work tree.                              *)
Observed(w) == {p \in Paths : tree[w][p] # 0}

First(S, p) == p \in S /\ \A q \in S : p <= q

(* _workspace_scope_evidence: a directory that is not a work tree has no     *)
(* diff to compare and passes as NON_GIT_UNAVAILABLE.                        *)
ScopePasses(t, declared) ==
  LET w == Payload[t].workspace
  IN  w \in GitWorkspaces =>
        /\ Observed(w) = declared
        /\ Observed(w) \subseteq Payload[t].allowed_paths

(* _assert_manifest_current on the recorded files.                           *)
(* Faulty variant: the recorded paths are listed, their bytes not compared.     *)
ManifestListed(t, files) == DOMAIN files \subseteq Paths
ManifestCurrent(t, files) ==
  \A p \in DOMAIN files : tree[Payload[t].workspace][p] = files[p]

GitHead(t) == IF Payload[t].workspace \in GitWorkspaces
              THEN head[Payload[t].workspace] ELSE 0

(* decide_review                                                            *)
ReviewRequired(t, a, files) ==
  \/ Payload[t].review_mode = "required"
  \/ /\ Payload[t].review_mode = "risk_based"
     /\ \/ (DOMAIN files) \cap Payload[t].sensitive # {}
        \/ a > 1 /\ Payload[t].review_on_retry

(* Faulty variant: the approvals table is not consulted.                         *)
OwnerGateSkipped(r) == TRUE
OwnerGatePasses(r) ==
  Payload[Task(r)].owner_acceptance => approval[r] = snapshot[r].gen

-----------------------------------------------------------------------------
Init ==
  /\ status = [t \in Tasks |-> "ABSENT"]
  /\ queue_seq = [t \in Tasks |-> 0]
  /\ attempts = [t \in Tasks |-> 0]
  /\ trail = [t \in Tasks |-> Other]
  /\ state = [r \in Runs |-> "NONE"]
  /\ verify_status = [r \in Runs |-> "NONE"]
  /\ claim_git_head = [r \in Runs |-> 0]
  /\ receipt = [r \in Runs |-> {}]
  /\ snapshot = [r \in Runs |-> NoSnapshot]
  /\ report = [r \in Runs |-> 0]
  /\ reviewed = [r \in Runs |-> 0]
  /\ review_status = [r \in Runs |-> "NONE"]
  /\ approval = [r \in Runs |-> 0]
  /\ publication = [r \in Runs |-> "NONE"]
  /\ paused = FALSE
  /\ project_paused = {}
  /\ capability = [r \in Runs |-> "NONE"]
  /\ claiming = {}
  /\ runtime_lock = NoRun
  /\ unresolved = {}
  /\ verifier = [v \in Verifiers |-> IdleVerifier]
  /\ tree = [w \in Workspaces |-> [p \in Paths |-> 0]]
  /\ head = [w \in Workspaces |-> 0]

(* One transaction's update of a run row, its task row and the event tail.   *)
Record(r, run_state, task_status, event) ==
  /\ state' = [state EXCEPT ![r] = run_state]
  /\ status' = [status EXCEPT ![Task(r)] = task_status]
  /\ trail' = [trail EXCEPT ![Task(r)] = event]

-----------------------------------------------------------------------------
(* Queue: load_plan, pause and resume, cancel_task.                          *)

PlanTasks(rev) == {t \in Tasks : Payload[t].plan_revision = rev}

(* Replaying a loaded revision finds every task present and changes nothing. *)
LoadPlan(rev) ==
  /\ PlanTasks(rev) # {}
  /\ \A t \in PlanTasks(rev) :
       /\ status[t] = "ABSENT"
       /\ \A d \in Payload[t].dependencies :
            d \in PlanTasks(rev) \/ status[d] # "ABSENT"
  /\ \E top \in {0} \cup {queue_seq[t] : t \in Tasks} :
       /\ \A t \in Tasks : queue_seq[t] <= top
       /\ queue_seq' = [t \in Tasks |->
            IF t \in PlanTasks(rev) THEN top + 1 + Payload[t].ordinal ELSE queue_seq[t]]
  /\ status' = [t \in Tasks |-> IF t \in PlanTasks(rev) THEN "PLANNED" ELSE status[t]]
  /\ UNCHANGED <<attempts, trail, runVars, gateVars, pauseVars, capVars,
                 unresolved, verifier, treeVars>>

Pause ==
  /\ CanPause
  /\ paused' = TRUE
  /\ UNCHANGED <<taskVars, runVars, gateVars, project_paused, capVars,
                 unresolved, verifier, treeVars>>

Resume ==
  /\ paused' = FALSE
  /\ UNCHANGED <<taskVars, runVars, gateVars, project_paused, capVars,
                 unresolved, verifier, treeVars>>

PauseProject(p) ==
  /\ CanPause
  /\ \E t \in Tasks : Payload[t].project_id = p /\ status[t] # "ABSENT"
  /\ project_paused' = project_paused \cup {p}
  /\ UNCHANGED <<taskVars, runVars, gateVars, paused, capVars,
                 unresolved, verifier, treeVars>>

ResumeProject(p) ==
  /\ p \in project_paused
  /\ project_paused' = project_paused \ {p}
  /\ UNCHANGED <<taskVars, runVars, gateVars, paused, capVars,
                 unresolved, verifier, treeVars>>

CancelTask(t) ==
  /\ status[t] \in READY_TASK_STATES \cup {"BLOCKED"}
  /\ \A r \in Runs : Task(r) = t => state[r] \notin ACTIVE_RUN_STATES
  /\ status' = [status EXCEPT ![t] = "CANCELLED"]
  /\ trail' = [trail EXCEPT ![t] = Other]
  /\ UNCHANGED <<queue_seq, attempts, runVars, gateVars, pauseVars, capVars,
                 unresolved, verifier, treeVars>>

-----------------------------------------------------------------------------
(* claim: one transaction selects and reserves, then the capability file is  *)
(* written outside it.                                                       *)

DependenciesDone(t) == \A d \in Payload[t].dependencies : status[d] = "DONE"

(* _active_writer_locks                                                      *)
(* Faulty variants: a VERIFIED run no longer reserves its key; a run without a   *)
(* capability file (its claim crashed) does not.                                *)
WriterLockedByActive(k) ==
  \E r \in Runs : WriterKey(r) = k /\ state[r] \in ACTIVE_RUN_STATES
WriterLockedByCapability(k) ==
  \E r \in Runs : WriterKey(r) = k /\ capability[r] = "LIVE"
WriterLocked(k) ==
  \E r \in Runs : WriterKey(r) = k /\ state[r] \in WRITER_LOCK_RUN_STATES

(* The rows claim reaches in its scan of the queue; wanted is the project     *)
(* filter, all projects when the caller names none.                           *)
Candidate(t, wanted) ==
  /\ status[t] \in READY_TASK_STATES
  /\ Payload[t].project_id \in wanted
  /\ Payload[t].project_id \notin project_paused
  /\ DependenciesDone(t)

AttemptsExhausted(t) == attempts[t] >= Payload[t].max_attempts

Selectable(t, wanted) ==
  /\ Candidate(t, wanted)
  /\ ~AttemptsExhausted(t)
  /\ ~WriterLocked(Payload[t].writer_key)

Selected(t, wanted) ==
  /\ Selectable(t, wanted)
  /\ \A u \in Tasks : Selectable(u, wanted) => queue_seq[t] <= queue_seq[u]

(* Rows without attempts left that the scan passes on its way to row n.       *)
Passed(t, wanted, n) ==
  Candidate(t, wanted) /\ AttemptsExhausted(t) /\ queue_seq[t] < n

BlockPassed(wanted, n, u, s) ==
  [t \in Tasks |-> IF t = u THEN s
                   ELSE IF Passed(t, wanted, n) THEN "BLOCKED" ELSE status[t]]

ProjectFilters == {Projects} \cup {{p} : p \in Projects}

(* A named project that is paused is answered before the queue is read.        *)
ClaimOpen(wanted) == ~paused /\ (wanted = Projects \/ wanted \cap project_paused = {})

(* Nothing to reserve, but the exhausted tasks on the way are blocked.         *)
ClaimNoWork(wanted) ==
  /\ ClaimOpen(wanted)
  /\ \A t \in Tasks : ~Selectable(t, wanted)
  /\ \E t \in Tasks : Candidate(t, wanted) /\ AttemptsExhausted(t)
  /\ LET gone == {t \in Tasks : Candidate(t, wanted) /\ AttemptsExhausted(t)}
     IN  /\ status' = [t \in Tasks |-> IF t \in gone THEN "BLOCKED" ELSE status[t]]
         /\ trail' = [t \in Tasks |-> IF t \in gone THEN Other ELSE trail[t]]
  /\ UNCHANGED <<queue_seq, attempts, runVars, gateVars, pauseVars, capVars,
                 unresolved, verifier, treeVars>>

(* The guard refuses: event is Dirty for a dirty work tree, Other for a        *)
(* changed protected path, check authority, branch, base or context.           *)
ClaimBlocked(t, wanted) ==
  LET w == Payload[t].workspace
  IN
  /\ ClaimOpen(wanted)
  /\ Selected(t, wanted)
  /\ status' = BlockPassed(wanted, queue_seq[t], t, "BLOCKED")
  /\ \E event \in {Other} \cup {Dirty(trail[t], p) : p \in Paths} :
       /\ \/ event = Other
          \/ \E p \in Paths : /\ w \in GitWorkspaces /\ First(Observed(w), p)
                              /\ event = Dirty(trail[t], p)
       /\ trail' = [u \in Tasks |-> IF u = t THEN event
                       ELSE IF Passed(u, wanted, queue_seq[t]) THEN Other ELSE trail[u]]
  /\ UNCHANGED <<queue_seq, attempts, runVars, gateVars, pauseVars, capVars,
                 unresolved, verifier, treeVars>>

(* INSERT INTO runs, and the base the run is bound to.                         *)
Reserve(t) ==
  LET r == <<t, attempts[t] + 1>>
  IN  /\ attempts' = [attempts EXCEPT ![t] = @ + 1]
      /\ state' = [state EXCEPT ![r] = "RUNNING"]
      /\ claim_git_head' = [claim_git_head EXCEPT ![r] = GitHead(t)]
      /\ claiming' = claiming \cup {r}

(* The guards and the insertion are one write transaction, so no other ledger   *)
(* command falls between them.  People may edit meanwhile: a change that comes   *)
(* after the guard that would have seen it is, here, a change after the claim.   *)
Claim(t, wanted) ==
  /\ ClaimOpen(wanted)
  /\ Selected(t, wanted)
  /\ ScopePasses(t, {})
  /\ Reserve(t)
  /\ status' = BlockPassed(wanted, queue_seq[t], t, "IN_PROGRESS")
  /\ trail' = [u \in Tasks |-> IF u = t \/ Passed(u, wanted, queue_seq[t])
                               THEN Other ELSE trail[u]]
  /\ UNCHANGED <<queue_seq, verify_status, receipt, snapshot, gateVars,
                 pauseVars, capability, runtime_lock, unresolved, verifier, treeVars>>

CapabilityPresent(k) == \E r \in Runs : WriterKey(r) = k /\ capability[r] = "LIVE"
PublicationPending(k) ==
  \E r \in Runs : WriterKey(r) = k /\ publication[r] \in {"PENDING", "COMMITTED"}

(* _repair_claim_guard: the prior attempt was verified and sent back, and the   *)
(* workspace holds exactly the bytes and the base that were reviewed.           *)
RepairGuard(t, prior) ==
  /\ Attempt(prior) = attempts[t]
  /\ state[prior] = "NEEDS_FIX" /\ verify_status[prior] = "PASS"
  /\ Payload[t].workspace \in GitWorkspaces
  /\ claim_git_head[prior] = GitHead(t)
  /\ snapshot[prior].git_head = GitHead(t)
  /\ DOMAIN snapshot[prior].files = receipt[prior]
  /\ ManifestCurrent(t, snapshot[prior].files)
  /\ ScopePasses(t, receipt[prior])
  /\ ~CapabilityPresent(Payload[t].writer_key)
  /\ ~PublicationPending(Payload[t].writer_key)
  /\ \/ status[t] = "NEEDS_FIX"
     \/ /\ status[t] = "BLOCKED"
        /\ trail[t].kind = "dirty"
        /\ trail[t].attempt = Attempt(prior)
        /\ trail[t].gen = snapshot[prior].gen
        /\ First(receipt[prior], trail[t].path)

(* claim with repair_from_run_id; a refusal changes nothing.                     *)
RepairClaim(prior) ==
  LET t == Task(prior)
  IN
  /\ ~paused /\ Payload[t].project_id \notin project_paused
  /\ DependenciesDone(t)
  /\ ~AttemptsExhausted(t)
  /\ ~WriterLocked(Payload[t].writer_key)
  /\ RepairGuard(t, prior)
  /\ Reserve(t)
  /\ status' = [status EXCEPT ![t] = "IN_PROGRESS"]
  /\ trail' = [trail EXCEPT ![t] = Other]
  /\ UNCHANGED <<queue_seq, verify_status, receipt, snapshot, gateVars,
                 pauseVars, capability, runtime_lock, unresolved, verifier, treeVars>>

(* The end of the claim call: the capability file is created.                    *)
WriteCapability(r) ==
  /\ r \in claiming
  /\ claiming' = claiming \ {r}
  /\ capability' = [capability EXCEPT ![r] = "LIVE"]
  /\ UNCHANGED <<taskVars, runVars, gateVars, pauseVars, runtime_lock,
                 unresolved, verifier, treeVars>>

(* Creation failed: a second transaction withdraws the reservation, whatever     *)
(* the run and the task have become in between; the unlink may fail too.         *)
WriteCapabilityFails(r) ==
  /\ r \in claiming
  /\ claiming' = claiming \ {r}
  /\ \E left \in {"NONE", "LIVE"} : capability' = [capability EXCEPT ![r] = left]
  /\ Record(r, "ABORTED", "BLOCKED", Other)
  /\ UNCHANGED <<queue_seq, attempts, verify_status, claim_git_head, receipt, snapshot,
                 gateVars, pauseVars, runtime_lock, unresolved, verifier,
                 treeVars>>

(* The claim process dies between COMMIT and the file.                           *)
ClaimCrash(r) ==
  /\ r \in claiming
  /\ claiming' = claiming \ {r}
  /\ UNCHANGED <<taskVars, runVars, gateVars, pauseVars, capability, runtime_lock,
                 unresolved, verifier, treeVars>>

-----------------------------------------------------------------------------
(* The worker: dispatched effects, submit, quiesce; and abort.       *)

(* A lease token is known once its capability file has existed.                   *)
HoldsLease(r) == capability[r] # "NONE"

(* A process or patch is dispatched under the runtime lock: the run must be       *)
(* the latest of its task and the only writer of its key.                         *)
Dispatch(r) ==
  /\ runtime_lock = NoRun
  /\ HoldsLease(r)
  /\ state[r] = "RUNNING" /\ status[Task(r)] = "IN_PROGRESS"
  /\ Attempt(r) = attempts[Task(r)]
  /\ \A q \in Runs : (WriterKey(q) = WriterKey(r) /\ state[q] \in WRITER_LOCK_RUN_STATES)
                     => q = r
  /\ unresolved' = unresolved \cup {r}
  /\ UNCHANGED <<taskVars, runVars, gateVars, pauseVars, capVars, verifier, treeVars>>

ObserveExit(r) ==
  /\ runtime_lock = NoRun
  /\ r \in unresolved
  /\ unresolved' = unresolved \ {r}
  /\ UNCHANGED <<taskVars, runVars, gateVars, pauseVars, capVars, verifier, treeVars>>

(* Faulty variant: closing a run does not look for unresolved effects.              *)
ResolvedUnchecked(r) == TRUE
Resolved(r) == r \notin unresolved

Submit(r, changed) ==
  /\ runtime_lock = NoRun
  /\ HoldsLease(r) /\ state[r] = "RUNNING"
  /\ changed # {} /\ changed \subseteq Payload[Task(r)].allowed_paths
  /\ Resolved(r)
  /\ state' = [state EXCEPT ![r] = "RESULT_SUBMITTED"]
  /\ receipt' = [receipt EXCEPT ![r] = changed]
  /\ trail' = [trail EXCEPT ![Task(r)] = Other]
  /\ UNCHANGED <<status, queue_seq, attempts, verify_status, claim_git_head, snapshot,
                 gateVars, pauseVars, capVars, unresolved, verifier, treeVars>>

(* The runtime lock is kept from the commit until the capability is unlinked.      *)
Quiesce(r) ==
  /\ runtime_lock = NoRun
  /\ HoldsLease(r) /\ state[r] = "RESULT_SUBMITTED"
  /\ Resolved(r)
  /\ state' = [state EXCEPT ![r] = "VERIFYING"]
  /\ trail' = [trail EXCEPT ![Task(r)] = Other]
  /\ runtime_lock' = r
  /\ UNCHANGED <<status, queue_seq, attempts, verify_status, claim_git_head, receipt,
                 snapshot, gateVars, pauseVars, capability, claiming,
                 unresolved, verifier, treeVars>>

InFlight(r) == r \in claiming \/ \E v \in Verifiers : verifier[v].run = r

(* A checkpoint only adds an operator confirmation; the rest is unconditional.     *)
Abort(r, retry) ==
  /\ runtime_lock = NoRun
  /\ state[r] \in ACTIVE_RUN_STATES
  /\ Resolved(r)
  /\ Serialized => ~InFlight(r)
  /\ Record(r, "ABORTED", IF retry THEN "NEEDS_FIX" ELSE "BLOCKED", Other)
  /\ runtime_lock' = r
  /\ UNCHANGED <<queue_seq, attempts, verify_status, claim_git_head, receipt, snapshot,
                 gateVars, pauseVars, capability, claiming, unresolved,
                 verifier, treeVars>>

Unlinked(r) == [capability EXCEPT ![r] = IF @ = "LIVE" THEN "GONE" ELSE @]

RevokeCapability ==
  /\ runtime_lock # NoRun
  /\ capability' = Unlinked(runtime_lock)
  /\ runtime_lock' = NoRun
  /\ UNCHANGED <<taskVars, runVars, gateVars, pauseVars, claiming, unresolved, verifier,
                 treeVars>>

(* The process dies between COMMIT and unlink; flock is released with it.          *)
RevokeCrash ==
  /\ runtime_lock # NoRun
  /\ runtime_lock' = NoRun
  /\ UNCHANGED <<taskVars, runVars, gateVars, pauseVars, capability, claiming, unresolved,
                 verifier, treeVars>>

(* prune_capabilities: only with no active run, only files of closed runs.         *)
PruneCapabilities ==
  /\ \A r \in Runs : state[r] \notin ACTIVE_RUN_STATES
  /\ \E r \in Runs : capability[r] = "LIVE"
  /\ capability' = [r \in Runs |->
       IF state[r] \notin {"RUNNING", "RESULT_SUBMITTED"} /\ capability[r] = "LIVE"
       THEN "GONE" ELSE capability[r]]
  /\ UNCHANGED <<taskVars, runVars, gateVars, pauseVars, claiming, runtime_lock, unresolved,
                 verifier, treeVars>>

-----------------------------------------------------------------------------
(* verify: the state is read once, the evidence is gathered without any lock,    *)
(* and a last transaction records the result.                                    *)

VerifyUnchanged == UNCHANGED <<taskVars, runVars, gateVars, pauseVars, capVars,
                               unresolved, treeVars>>

VerifyStart(v, r) ==
  /\ verifier[v].pc = "idle"
  /\ state[r] = "VERIFYING"
  /\ Serialized => ~InFlight(r)
  /\ verifier' = [verifier EXCEPT ![v] = [IdleVerifier EXCEPT !.run = r, !.pc = "scope"]]
  /\ VerifyUnchanged

(* Scope evidence, and for Git publication the base the run was claimed on.       *)
VerifyScope(v) ==
  LET r == verifier[v].run
  IN
  /\ verifier[v].pc = "scope"
  /\ ScopePasses(Task(r), receipt[r])
  /\ Payload[Task(r)].publication = "git" => GitHead(Task(r)) = claim_git_head[r]
  /\ verifier' = [verifier EXCEPT ![v].pc = "snapshot", ![v].git_head = GitHead(Task(r))]
  /\ VerifyUnchanged

VerifySnapshot(v) ==
  LET r == verifier[v].run
  IN
  /\ verifier[v].pc = "snapshot"
  /\ verifier' = [verifier EXCEPT ![v].pc = "checks",
                    ![v].files = [p \in receipt[r] |-> tree[Workspace(r)][p]]]
  /\ VerifyUnchanged

(* The registered checks run, then the recorded bytes must still be on disk.      *)
VerifyChecks(v, passed) ==
  /\ verifier[v].pc = "checks"
  /\ ManifestCurrent(Task(verifier[v].run), verifier[v].files)
  /\ verifier' = [verifier EXCEPT ![v].pc = "commit", ![v].passed = passed]
  /\ VerifyUnchanged

(* _block_verification, from any evidence step: scope, base, check authority,     *)
(* protected path, unsafe file or stale manifest.  It re-reads the state.         *)
VerifyBlocked(v) ==
  LET r == verifier[v].run
  IN
  /\ verifier[v].pc \in {"scope", "snapshot", "checks"}
  /\ state[r] = "VERIFYING"
  /\ Record(r, "BLOCKED", "BLOCKED", Other)
  /\ verify_status' = [verify_status EXCEPT ![r] = "BLOCKED"]
  /\ verifier' = [verifier EXCEPT ![v].pc = "revoke"]
  /\ UNCHANGED <<queue_seq, attempts, claim_git_head, receipt, snapshot, 
                 gateVars, pauseVars, capVars, unresolved, treeVars>>

VerifyRevoke(v) ==
  /\ verifier[v].pc = "revoke"
  /\ capability' = Unlinked(verifier[v].run)
  /\ verifier' = [verifier EXCEPT ![v] = IdleVerifier]
  /\ UNCHANGED <<taskVars, runVars, gateVars, pauseVars, claiming, runtime_lock,
                 unresolved, treeVars>>

(* The process dies, or raises (run_not_verifying among others).                   *)
VerifyCrash(v) ==
  /\ verifier[v].pc # "idle"
  /\ verifier' = [verifier EXCEPT ![v] = IdleVerifier]
  /\ VerifyUnchanged

(* The last transaction writes by run id alone: the state is not read again.       *)
VerifyCommit(v) ==
  LET r == verifier[v].run
      t == Task(r)
  IN
  /\ verifier[v].pc = "commit"
  /\ snapshot[r].gen < MaxGen
  /\ snapshot' = [snapshot EXCEPT ![r] = [gen |-> @.gen + 1, files |-> verifier[v].files,
                                          git_head |-> verifier[v].git_head]]
  /\ verify_status' = [verify_status EXCEPT ![r] = IF verifier[v].passed THEN "PASS" ELSE "FAIL"]
  /\ \/ /\ ~verifier[v].passed
        /\ Record(r, "NEEDS_FIX", "NEEDS_FIX", Other)
     \/ /\ verifier[v].passed /\ ReviewRequired(t, Attempt(r), verifier[v].files)
        /\ Record(r, "REVIEWING", "WAITING_REVIEW", Other)
     \/ /\ verifier[v].passed /\ ~ReviewRequired(t, Attempt(r), verifier[v].files)
        /\ Record(r, "VERIFIED", "READY_TO_PUBLISH", Other)
  /\ verifier' = [verifier EXCEPT ![v] = IdleVerifier]
  /\ UNCHANGED <<queue_seq, attempts, claim_git_head, receipt, gateVars,
                 pauseVars, capVars, unresolved, treeVars>>

-----------------------------------------------------------------------------
(* The gates on a verified snapshot, and completion.                               *)

(* The reviewer leaves a report for the snapshot that is current when it is written. *)
WriteReport(r) ==
  /\ state[r] = "REVIEWING"
  /\ report' = [report EXCEPT ![r] = snapshot[r].gen]
  /\ UNCHANGED <<taskVars, runVars, reviewed, review_status, approval, publication, pauseVars, capVars,
                 unresolved, verifier, treeVars>>

(* Faulty variant: any report left for the run is accepted.                            *)
ReportPresent(r) == report[r] # 0
ReportCurrent(r) == report[r] # 0 /\ report[r] = snapshot[r].gen

ImportReview(r, verdict) ==
  /\ state[r] = "REVIEWING"
  /\ ReportCurrent(r)
  /\ \/ /\ verdict = "PASS"
        /\ Record(r, "VERIFIED", "READY_TO_PUBLISH", Other)
     \/ /\ verdict = "NEEDS_FIX"
        /\ Record(r, "NEEDS_FIX", "NEEDS_FIX", Fix(Attempt(r), snapshot[r].gen))
     \/ /\ verdict = "BLOCKED"
        /\ Record(r, "NEEDS_FIX", "BLOCKED", Other)
  /\ reviewed' = [reviewed EXCEPT ![r] = report[r]]
  /\ review_status' = [review_status EXCEPT ![r] = verdict]
  /\ UNCHANGED <<queue_seq, attempts, verify_status, claim_git_head, receipt, snapshot,
                 report, approval, publication, pauseVars, capVars, unresolved,
                 verifier, treeVars>>

SnapshotCurrent(r) == ManifestCurrent(Task(r), snapshot[r].files)

Approve(r) ==
  /\ state[r] = "VERIFIED"
  /\ Payload[Task(r)].owner_acceptance
  /\ SnapshotCurrent(r)
  /\ approval' = [approval EXCEPT ![r] = snapshot[r].gen]
  /\ Record(r, state[r], "READY_TO_PUBLISH", Other)
  /\ UNCHANGED <<queue_seq, attempts, verify_status, claim_git_head, receipt, snapshot,
                 report, reviewed, review_status, publication, pauseVars, capVars, unresolved,
                 verifier, treeVars>>

(* complete: the owner gate may send the task to wait; only kind "none" ends here.  *)
WaitOwner(r) ==
  /\ state[r] = "VERIFIED" /\ SnapshotCurrent(r)
  /\ ~OwnerGatePasses(r)
  /\ status' = [status EXCEPT ![Task(r)] = "WAITING_OWNER"]
  /\ UNCHANGED <<queue_seq, attempts, trail, runVars, gateVars, pauseVars, capVars,
                 unresolved, verifier, treeVars>>

Complete(r) ==
  /\ state[r] = "VERIFIED" /\ SnapshotCurrent(r)
  /\ OwnerGatePasses(r)
  /\ Payload[Task(r)].publication = "none"
  /\ Record(r, "COMPLETE", "DONE", Other)
  /\ UNCHANGED <<queue_seq, attempts, verify_status, claim_git_head, receipt, snapshot,
                 gateVars, pauseVars, capVars, unresolved, verifier, treeVars>>

(* publish and reconcile_publication at the grain of the ledger: intent, branch     *)
(* ref moved, finalised or abandoned (module Publication has the steps between).     *)
PublishReady(r) ==
  /\ SnapshotCurrent(r)
  /\ ScopePasses(Task(r), DOMAIN snapshot[r].files)
  /\ GitHead(Task(r)) = snapshot[r].git_head

PublishUnchanged == UNCHANGED <<queue_seq, attempts, verify_status, claim_git_head,
  receipt, snapshot, report, reviewed, review_status, approval, pauseVars, capVars,
  unresolved, verifier>>

PublishIntent(r) ==
  /\ state[r] = "VERIFIED"
  /\ publication[r] \in {"NONE", "ABANDONED"}
  /\ OwnerGatePasses(r)
  /\ Payload[Task(r)].publication = "git"
  /\ PublishReady(r)
  /\ publication' = [publication EXCEPT ![r] = "PENDING"]
  /\ PublishUnchanged /\ UNCHANGED <<status, trail, state, treeVars>>

PublishRef(r) ==
  LET w == Workspace(r)
  IN
  /\ publication[r] = "PENDING"
  /\ PublishReady(r)
  /\ head[w] < MaxHead
  /\ publication' = [publication EXCEPT ![r] = "COMMITTED"]
  /\ head' = [head EXCEPT ![w] = @ + 1]
  /\ tree' = [tree EXCEPT ![w] = [p \in Paths |-> IF p \in DOMAIN snapshot[r].files
                                                  THEN 0 ELSE @[p]]]
  /\ PublishUnchanged /\ UNCHANGED <<status, trail, state>>

PublishAbandon(r) ==
  /\ publication[r] = "PENDING"
  /\ publication' = [publication EXCEPT ![r] = "ABANDONED"]
  /\ PublishUnchanged /\ UNCHANGED <<status, trail, state, treeVars>>

(* _finalize_publication writes by run id alone.                                     *)
PublishFinalize(r) ==
  /\ publication[r] = "COMMITTED"
  /\ publication' = [publication EXCEPT ![r] = "COMPLETE"]
  /\ Record(r, "COMPLETE", "DONE", Other)
  /\ PublishUnchanged /\ UNCHANGED treeVars

-----------------------------------------------------------------------------
(* The workspace is a shared directory: workers, checks and people write to it at    *)
(* any time, and people commit.                                                      *)

Edit(w, p, c) ==
  /\ tree[w][p] # c
  /\ tree' = [tree EXCEPT ![w][p] = c]
  /\ UNCHANGED <<taskVars, runVars, gateVars, pauseVars, capVars, unresolved, verifier, head>>

OutsideCommit(w) ==
  /\ w \in GitWorkspaces /\ head[w] < MaxHead
  /\ head' = [head EXCEPT ![w] = @ + 1]
  /\ tree' = [tree EXCEPT ![w] = [p \in Paths |-> 0]]
  /\ UNCHANGED <<taskVars, runVars, gateVars, pauseVars, capVars, unresolved, verifier>>

-----------------------------------------------------------------------------
QueueStep ==
  \/ \E rev \in Revisions : LoadPlan(rev)
  \/ Pause \/ Resume
  \/ \E p \in Projects : PauseProject(p) \/ ResumeProject(p)
  \/ \E t \in Tasks : CancelTask(t)

ClaimStep ==
  \/ \E wanted \in ProjectFilters :
       \/ ClaimNoWork(wanted)
       \/ \E t \in Tasks : ClaimBlocked(t, wanted) \/ Claim(t, wanted)
  \/ \E r \in Runs : \/ RepairClaim(r) \/ WriteCapability(r)
                     \/ WriteCapabilityFails(r) \/ ClaimCrash(r)

WorkerStep ==
  \/ \E r \in Runs :
       \/ Dispatch(r) \/ ObserveExit(r) \/ Quiesce(r)
       \/ \E changed \in SUBSET Paths : Submit(r, changed)
       \/ \E retry \in BOOLEAN : Abort(r, retry)
  \/ RevokeCapability \/ RevokeCrash \/ PruneCapabilities

VerifyStep ==
  \E v \in Verifiers :
    \/ \E r \in Runs : VerifyStart(v, r)
    \/ VerifyScope(v) \/ VerifySnapshot(v)
    \/ \E passed \in BOOLEAN : VerifyChecks(v, passed)
    \/ VerifyBlocked(v) \/ VerifyRevoke(v) \/ VerifyCrash(v) \/ VerifyCommit(v)

GateStep ==
  \E r \in Runs :
    \/ WriteReport(r)
    \/ \E verdict \in {"PASS", "NEEDS_FIX", "BLOCKED"} : ImportReview(r, verdict)
    \/ Approve(r) \/ WaitOwner(r) \/ Complete(r)
    \/ PublishIntent(r) \/ PublishRef(r) \/ PublishAbandon(r) \/ PublishFinalize(r)

WorkspaceStep ==
  \E w \in Workspaces :
    \/ \E p \in Paths, c \in Contents : Edit(w, p, c)
    \/ OutsideCommit(w)

Next == QueueStep \/ ClaimStep \/ WorkerStep \/ VerifyStep \/ GateStep \/ WorkspaceStep

Spec == Init /\ [][Next]_vars

-----------------------------------------------------------------------------
TypeOK ==
  /\ status \in [Tasks -> TaskStates]
  /\ queue_seq \in [Tasks -> Nat]
  /\ attempts \in [Tasks -> Nat]
  /\ trail \in [Tasks -> Trails]
  /\ state \in [Runs -> RunStates]
  /\ verify_status \in [Runs -> {"NONE", "PASS", "FAIL", "BLOCKED"}]
  /\ claim_git_head \in [Runs -> Nat]
  /\ receipt \in [Runs -> SUBSET Paths]
  /\ snapshot \in [Runs -> Snapshots]
  /\ report \in [Runs -> Nat]
  /\ reviewed \in [Runs -> Nat]
  /\ review_status \in [Runs -> {"NONE", "PASS", "NEEDS_FIX", "BLOCKED"}]
  /\ approval \in [Runs -> Nat]
  /\ publication \in [Runs -> {"NONE", "PENDING", "COMMITTED", "COMPLETE", "ABANDONED"}]
  /\ paused \in BOOLEAN
  /\ project_paused \in SUBSET Projects
  /\ capability \in [Runs -> {"NONE", "LIVE", "GONE"}]
  /\ claiming \in SUBSET Runs
  /\ runtime_lock \in Runs \cup {NoRun}
  /\ unresolved \in SUBSET Runs
  /\ verifier \in [Verifiers -> VerifierType]
  /\ tree \in [Workspaces -> [Paths -> Contents]]
  /\ head \in [Workspaces -> Nat]

-----------------------------------------------------------------------------
(* Two runs of one writer key never both hold a lease their worker can still act   *)
(* on (RUNNING or RESULT_SUBMITTED): claim reserves the key in the transaction     *)
(* that inserts the run.  It holds whatever operators interleave.                  *)
EDITING_RUN_STATES == {"RUNNING", "RESULT_SUBMITTED"}
OneEditor ==
  \A q, r \in Runs :
    /\ WriterKey(q) = WriterKey(r)
    /\ state[q] \in EDITING_RUN_STATES /\ state[r] \in EDITING_RUN_STATES
    => q = r

(* "One active writer reservation per writer identity": at most one run of a       *)
(* writer key is in a WRITER_LOCK_RUN_STATES state.                                 *)
SingleWriter ==
  \A q, r \in Runs :
    /\ WriterKey(q) = WriterKey(r)
    /\ state[q] \in WRITER_LOCK_RUN_STATES /\ state[r] \in WRITER_LOCK_RUN_STATES
    => q = r

(* The reservation of a writer key, as module WriterReservation promises it: a run   *)
(* takes a free key once, keeps it until it is closed, and never takes it again.      *)
Reservation ==
  INSTANCE WriterReservation WITH
    Holders <- Runs, KeyOf <- WriterKey,
    holding <- {r \in Runs : state[r] \in WRITER_LOCK_RUN_STATES},
    retired <- {r \in Runs : state[r] \in CLOSED_RUN_STATES}
ImplementsReservation == Reservation!Spec

(* The task table tells the state of the latest attempt, older attempts hold        *)
(* nothing, and no attempt exists beyond max_attempts: queue_view, claim and        *)
(* cancel_task read one table to decide about the other.                            *)
TaskStatesOf(s) ==
  CASE s \in {"RUNNING", "RESULT_SUBMITTED", "VERIFYING"} -> {"IN_PROGRESS"}
    [] s = "REVIEWING" -> {"WAITING_REVIEW"}
    [] s = "VERIFIED" -> {"READY_TO_PUBLISH", "WAITING_OWNER"}
    [] s = "COMPLETE" -> {"DONE"}
    [] OTHER -> {"NEEDS_FIX", "BLOCKED", "CANCELLED"}
TablesAgree ==
  /\ \A t \in Tasks : attempts[t] <= Payload[t].max_attempts
  /\ \A t \in Tasks : attempts[t] = 0 =>
       status[t] \in {"ABSENT", "PLANNED", "BLOCKED", "CANCELLED"}
  /\ \A r \in Runs :
       /\ Attempt(r) > attempts[Task(r)] <=> state[r] = "NONE"
       /\ Attempt(r) = attempts[Task(r)] => status[Task(r)] \in TaskStatesOf(state[r])
       /\ Attempt(r) < attempts[Task(r)] => state[r] \in {"NEEDS_FIX", "BLOCKED", "ABORTED"}

(* A completed run passed its checks, and the review and the owner approval its     *)
(* policy asks for were given to the very snapshot that is completed.               *)
GatesBindSnapshot ==
  \A r \in Runs : state[r] = "COMPLETE" =>
    /\ verify_status[r] = "PASS"
    /\ ReviewRequired(Task(r), Attempt(r), snapshot[r].files) =>
         review_status[r] = "PASS" /\ reviewed[r] = snapshot[r].gen
    /\ Payload[Task(r)].owner_acceptance => approval[r] = snapshot[r].gen

(* A run only starts once its dependencies are DONE, and they stay DONE under it.   *)
DependenciesStayDone ==
  \A r \in Runs : state[r] # "NONE" =>
    \A d \in Payload[Task(r)].dependencies : status[d] = "DONE"

(* Whatever is claimed, verified, reviewed, aborted, paused and cancelled in whatever   *)
(* order: rows have their types, tasks and runs tell one story (_set_task, _set_run), a *)
(* task that was claimed keeps dependencies that are DONE, and a completed run          *)
(* passed its checks, its review and its approval for its very snapshot.                *)
LedgerConsistent == TypeOK /\ TablesAgree /\ DependenciesStayDone /\ GatesBindSnapshot

(* No run leaves RUNNING while an effect dispatched for it has no recorded          *)
(* outcome: submit, quiesce and abort all refuse under the runtime lock.            *)
NoEffectOutlivesRun == \A r \in unresolved : state[r] = "RUNNING"

(* A run in a Git workspace starts on a clean tree, or on exactly the bytes and     *)
(* base of the latest attempt that passed its checks and was sent back for a fix.   *)
StartsCleanOrSentBack ==
  [][\A t \in Tasks :
       attempts'[t] # attempts[t] /\ Payload[t].workspace \in GitWorkspaces
       => LET prior == <<t, attempts[t]>>
              w == Payload[t].workspace
          IN  \/ Observed(w) = {}
              \/ /\ prior \in Runs
                 /\ verify_status[prior] = "PASS"
                 /\ review_status[prior] = "NEEDS_FIX"
                 /\ reviewed[prior] = snapshot[prior].gen
                 /\ snapshot[prior].git_head = head[w]
                 /\ Observed(w) \subseteq DOMAIN snapshot[prior].files
                 /\ \A p \in Observed(w) : tree[w][p] = snapshot[prior].files[p]]_vars

(* A closed run is never reopened or rewritten: a new attempt is a new row.          *)
ClosedRunsStay ==
  [][\A r \in Runs : state[r] \in CLOSED_RUN_STATES
                     => state'[r] = state[r] /\ snapshot'[r] = snapshot[r]]_vars
=============================================================================

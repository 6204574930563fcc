----------------------------- MODULE Readmission -----------------------------
(****************************************************************************)
(* Readmitting a rejected run onto an accepted base (orch/core.py).          *)
(*                                                                          *)
(* A run that its review sent back may need infrastructure that another     *)
(* task has published since.  readmit cancels the run's task and inserts a  *)
(* new one, in another workspace whose HEAD is the published commit, with   *)
(* what is left of the attempts.  The whole request is one BEGIN IMMEDIATE   *)
(* transaction (txn), and so is a claim: between its two guards the ledger  *)
(* cannot change, the workspaces can.  A refusal rolls back, a crash too,    *)
(* and an answer may be lost, so the operator sends requests again.          *)
(*                                                                          *)
(* Runs are kept at the grain of this question: what happens to one between *)
(* its claim and its end is in module Ledger, what a publication does in     *)
(* Publication.  A dependency is a published task by its commit.  Guards     *)
(* on evidence that only can refuse (receipt, report, log and project        *)
(* identity, pauses) are part of ReadmitRefuse.                              *)
(****************************************************************************)
EXTENDS Integers, Sequences, FiniteSets

CONSTANTS Tasks, First,     \* First is the task an ordinary plan loaded
          Workspaces, Commits, Parent,
          Dependencies, CommitOf,
          MaxAttempts,      \* max_attempts of First
          MaxMoves,         \* bound: edits and checkouts made in the workspaces
          None

Modes == {"off", "risk_based", "required"}
Payloads == [workspace : Workspaces, max_attempts : 1 .. MaxAttempts, mode : Modes,
             review_on_retry : BOOLEAN]
Plans == [task : Tasks, payload : Payloads]   \* a one-task plan; its digest is itself
Proofs == [plan : Plans, dependency : Dependencies, commit : Commits, remaining : Nat]

ASSUME ReadmissionAssumption ==
  /\ First \in Tasks /\ None \notin Tasks /\ None \notin Payloads \cup Proofs
  /\ MaxAttempts \in Nat \ {0} /\ MaxMoves \in Nat
  /\ Parent \in [Commits -> Commits \cup {None}]
  /\ CommitOf \in [Dependencies -> Commits]

VARIABLES
  payload,     \* the frozen task payload, None before the plan is loaded
  status,      \* tasks.status
  dirty_claim, \* BLOCKED tasks whose refusal was the dirty tree of the rejected run
  runs,        \* the rows of runs, one sequence per task
  capability,  \* runs whose capability file exists
  published,   \* dependencies that are DONE with a COMPLETE publication
  admitted,    \* TASK_READMITTED: previous run |-> proof
  answers,     \* what operators were told: request and recorded result
  txn,         \* the open immediate transaction
  head, tree,  \* HEAD and the working tree of each workspace
  moves        \* workspace steps so far

ledger == <<payload, status, dirty_claim, runs, published, admitted>>
trees  == <<head, tree, moves>>
vars   == <<ledger, capability, answers, txn, trees>>

Level(m) == CASE m = "off" -> 0 [] m = "risk_based" -> 1 [] OTHER -> 2
Runs == Tasks \X (1 .. MaxAttempts)
NoRun == <<None, 0>>
Task(r) == r[1]
Run(r) == runs[Task(r)][r[2]]
Existing == {r \in Runs : r[2] <= Len(runs[Task(r)])}
RunRows == [state : {"ACTIVE", "NEEDS_FIX", "ABORTED", "COMPLETE"},
            verify_status : {"NONE", "FAIL", "PASS"},
            review_status : {"NONE", "NEEDS_FIX", "BLOCKED", "PASS"},
            claim_git_head : Commits,
            previous : Runs \cup {NoRun}]    \* previous_run_id of its context
Idle == [op |-> "none"]
Clean == <<None, 1>>
Edited == <<None, 2>>

READY_TASK_STATES == {"PLANNED", "READY", "NEEDS_FIX"}
At(t) == payload[t].workspace
Attempts(t) == Len(runs[t])
Latest(t) == <<t, Attempts(t)>>
Free(w) == \A r \in Existing : At(Task(r)) = w => Run(r).state # "ACTIVE"
CapabilityAt(w) == \E r \in capability : At(Task(r)) = w

Init ==
  /\ \E m \in {"risk_based", "required"}, b \in BOOLEAN, w \in Workspaces :
       payload = [t \in Tasks |-> IF t = First
         THEN [workspace |-> w, max_attempts |-> MaxAttempts, mode |-> m, review_on_retry |-> b]
         ELSE None]
  /\ status = [t \in Tasks |-> IF t = First THEN "PLANNED" ELSE "ABSENT"]
  /\ dirty_claim = {}
  /\ runs = [t \in Tasks |-> <<>>]
  /\ capability = {} /\ published = {}
  /\ admitted = [r \in Runs |-> None]
  /\ answers = {} /\ txn = Idle
  /\ head \in [Workspaces -> {c \in Commits : Parent[c] = None}]
  /\ tree = [w \in Workspaces |-> Clean] /\ moves = 0

-----------------------------------------------------------------------------
(* Claims.  A readmitted task may only be claimed on its dependency's commit.*)

ReadmittedAs(t) == {r \in Runs : admitted[r] # None /\ admitted[r].plan.task = t}

BaseMatches(t, h) == \A r \in ReadmittedAs(t) : admitted[r].commit = h

(* _build_context_pack: the feedback of the task's own latest rejected run, or,   *)
(* while it has none, of the run it was readmitted from.                         *)
WithFeedback(t) == {r \in Existing : Task(r) = t /\ Run(r).state = "NEEDS_FIX"}

PreviousRun(t) ==
  IF WithFeedback(t) # {} THEN CHOOSE r \in WithFeedback(t) : \A q \in WithFeedback(t) : q[2] <= r[2]
  ELSE IF ReadmittedAs(t) # {} THEN CHOOSE r \in ReadmittedAs(t) : TRUE
  ELSE NoRun

(* _repair_claim_guard: the latest run, rejected by review after passing its      *)
(* checks, whose snapshot is still what the workspace holds on its base.          *)
(* Faulty variant: the status of the task is not looked at.                         *)
RepairGuardAnyStatus(t, prior) ==
  /\ prior = Latest(t)
  /\ Run(prior).state = "NEEDS_FIX" /\ Run(prior).verify_status = "PASS"
  /\ head[At(t)] = Run(prior).claim_git_head
  /\ tree[At(t)] = prior
  /\ ~CapabilityAt(At(t))

RepairGuard(t, prior) ==
  /\ prior = Latest(t)
  /\ Run(prior).state = "NEEDS_FIX" /\ Run(prior).verify_status = "PASS"
  /\ head[At(t)] = Run(prior).claim_git_head
  /\ tree[At(t)] = prior
  /\ ~CapabilityAt(At(t))
  /\ status[t] = "NEEDS_FIX" \/ t \in dirty_claim

TreeGuard(t, prior) ==
  IF prior = NoRun THEN tree[At(t)] = Clean ELSE RepairGuard(t, prior)

Selectable(t, prior) ==
  /\ txn = Idle
  /\ IF prior = NoRun THEN status[t] \in READY_TASK_STATES ELSE Task(prior) = t
  /\ status[t] # "ABSENT"
  /\ Attempts(t) < payload[t].max_attempts
  /\ Free(At(t))

ClaimBegin(t, prior) ==
  /\ Selectable(t, prior)
  /\ TreeGuard(t, prior)
  /\ BaseMatches(t, head[At(t)])
  /\ txn' = [op |-> "claim", task |-> t, prior |-> prior, head |-> head[At(t)],
             previous |-> PreviousRun(t)]
  /\ UNCHANGED <<ledger, capability, answers, trees>>

(* An ordinary claim that its guards refuse blocks the task.                      *)
Block(t) ==
  /\ status' = [status EXCEPT ![t] = "BLOCKED"]
  /\ UNCHANGED <<payload, runs, capability, published, admitted, answers, trees>>

(* Only the first guard, finding the rejected run's own tree, leaves a trail that   *)
(* a repair or a readmission accepts.                                             *)
DirtyFrom(t) == /\ tree[At(t)] = Latest(t)
                /\ status[t] = "NEEDS_FIX"
                /\ Run(Latest(t)).review_status = "NEEDS_FIX"

ClaimBlocked(t) ==
  /\ Selectable(t, NoRun)
  /\ ~TreeGuard(t, NoRun) \/ ~BaseMatches(t, head[At(t)])
  /\ Block(t)
  /\ dirty_claim' = IF DirtyFrom(t) THEN dirty_claim \cup {t} ELSE dirty_claim
  /\ UNCHANGED txn

ClaimExhausted(t) ==
  /\ txn = Idle
  /\ status[t] \in READY_TASK_STATES
  /\ Attempts(t) >= payload[t].max_attempts
  /\ Block(t)
  /\ UNCHANGED <<dirty_claim, txn>>

GuardRepeats == /\ TreeGuard(txn.task, txn.prior)
                /\ head[At(txn.task)] = txn.head

(* The guards are run again after the context was prepared, before the insertion. *)
ClaimCommit ==
  /\ txn.op = "claim"
  /\ GuardRepeats
  /\ LET t == txn.task IN
       /\ runs' = [runs EXCEPT ![t] = Append(@,
            [state |-> "ACTIVE", verify_status |-> "NONE", review_status |-> "NONE",
             claim_git_head |-> txn.head, previous |-> txn.previous])]
       /\ status' = [status EXCEPT ![t] = "IN_PROGRESS"]
       /\ dirty_claim' = dirty_claim \ {t}
       /\ capability' = capability \cup {<<t, Attempts(t) + 1>>}
  /\ txn' = Idle
  /\ UNCHANGED <<payload, published, admitted, answers, trees>>

ClaimDrift ==
  /\ txn.op = "claim"
  /\ ~GuardRepeats
  /\ IF txn.prior = NoRun THEN Block(txn.task) /\ UNCHANGED dirty_claim
     ELSE UNCHANGED <<ledger, capability, answers, trees>>
  /\ txn' = Idle

-----------------------------------------------------------------------------
(* The end of a run.  Its capability is revoked after the record, so a crash      *)
(* may leave the file behind until it is pruned.                                 *)
End(r, run, task_status) ==
  /\ txn = Idle
  /\ runs' = [runs EXCEPT ![Task(r)][r[2]] = run]
  /\ status' = [status EXCEPT ![Task(r)] = task_status]
  /\ \/ capability' = capability \ {r}
     \/ UNCHANGED capability
  /\ UNCHANGED <<payload, dirty_claim, published, admitted, answers, txn>>

Active(r) == r \in Existing /\ Run(r).state = "ACTIVE"

(* decide_review: under "risk_based" any risk signal, and a retry if the policy says so. *)
ReviewRequired(t, attempt, signal) ==
  \/ payload[t].mode = "required"
  \/ /\ payload[t].mode = "risk_based"
     /\ signal \/ (payload[t].review_on_retry /\ attempt > 1)

(* import_review with NEEDS_FIX or BLOCKED, of the snapshot in the workspace.      *)
Reject(r, verdict) ==
  /\ Active(r)
  /\ \E signal \in BOOLEAN : ReviewRequired(Task(r), r[2], signal)
  /\ End(r, [Run(r) EXCEPT !.state = "NEEDS_FIX", !.verify_status = "PASS",
                           !.review_status = verdict], verdict)
  /\ tree' = [tree EXCEPT ![At(Task(r))] = r]
  /\ UNCHANGED <<head, moves>>

ChecksFail(r) ==
  /\ Active(r)
  /\ End(r, [Run(r) EXCEPT !.state = "NEEDS_FIX", !.verify_status = "FAIL"], "NEEDS_FIX")
  /\ tree' = [tree EXCEPT ![At(Task(r))] = Edited]
  /\ UNCHANGED <<head, moves>>

Abort(r, retry) ==
  /\ Active(r)
  /\ End(r, [Run(r) EXCEPT !.state = "ABORTED"], IF retry THEN "NEEDS_FIX" ELSE "BLOCKED")
  /\ UNCHANGED trees

Finish(r, signal) ==
  /\ Active(r)
  /\ End(r, [Run(r) EXCEPT !.state = "COMPLETE", !.verify_status = "PASS",
             !.review_status = IF ReviewRequired(Task(r), r[2], signal) THEN "PASS" ELSE @],
         "DONE")
  /\ UNCHANGED trees

CancelTask(t) ==
  /\ txn = Idle
  /\ status[t] \in READY_TASK_STATES \cup {"BLOCKED"}
  /\ status' = [status EXCEPT ![t] = "CANCELLED"]
  /\ dirty_claim' = dirty_claim \ {t}
  /\ UNCHANGED <<payload, runs, capability, published, admitted, answers, txn, trees>>

(* Refused while any run is active; what is left then belongs to no active run.     *)
PruneCapabilities ==
  /\ capability # {}
  /\ \A r \in Existing : Run(r).state # "ACTIVE"
  /\ capability' = {}
  /\ UNCHANGED <<ledger, answers, txn, trees>>

PublishDependency(d) ==
  /\ txn = Idle
  /\ d \notin published
  /\ published' = published \cup {d}
  /\ UNCHANGED <<payload, status, dirty_claim, runs, capability, admitted, answers, txn, trees>>

-----------------------------------------------------------------------------
(* Readmission.                                                                 *)

(* Faulty variant: the mode may stay risk based.                                    *)
ReviewLevels(old, new) == /\ Level(new.mode) >= Level(old.mode)
                          /\ old.review_on_retry => new.review_on_retry

(* _readmission_review_contract and the retry gate of _readmission_contract.      *)
ReviewContract(old, new) ==
  /\ Level(new.mode) >= Level(old.mode)
  /\ old.review_on_retry => new.review_on_retry
  /\ old.mode = "risk_based" => new.mode = "required"

Remaining(t) == payload[t].max_attempts - Attempts(t)

Contract(t, new) ==
  /\ new.max_attempts <= Remaining(t)
  /\ ReviewContract(payload[t], new)

Quiet(w) == Free(w) /\ ~CapabilityAt(w)

(* _readmission_retained_evidence: the verdict that receipt, logs, report and run     *)
(* agree on.                                                                       *)
SentBack(prev) == Run(prev).review_status = "NEEDS_FIX"

SourceGuard(prev) ==
  /\ Quiet(At(Task(prev)))
  /\ RepairGuard(Task(prev), prev)
  /\ SentBack(prev)

DependencyGuard(prev, d) ==
  /\ d \in published
  /\ Parent[CommitOf[d]] = Run(prev).claim_git_head

DestinationGuard(prev, d, new) ==
  /\ new.workspace # At(Task(prev))
  /\ Quiet(new.workspace)
  /\ head[new.workspace] = CommitOf[d]
  /\ tree[new.workspace] = Clean

Guard(prev, d, plan) ==
  /\ SourceGuard(prev)
  /\ DependencyGuard(prev, d)
  /\ Contract(Task(prev), plan.payload)
  /\ DestinationGuard(prev, d, plan.payload)

Proof(prev, d, plan) == [plan |-> plan, dependency |-> d, commit |-> CommitOf[d],
                         remaining |-> Remaining(Task(prev))]

NewPlans == {plan \in Plans : payload[plan.task] = None}

ReadmitBegin(prev, d) ==
  /\ txn = Idle
  /\ admitted[prev] = None
  /\ SourceGuard(prev)
  /\ \E plan \in NewPlans :
       /\ Guard(prev, d, plan)
       /\ txn' = [op |-> "readmit", prev |-> prev, proof |-> Proof(prev, d, plan)]
  /\ UNCHANGED <<ledger, capability, answers, trees>>

Answer(prev, d, plan, proof) ==
  answers' = answers \cup {[prev |-> prev, dependency |-> d, plan |-> plan, result |-> proof]}

ReadmitCommit ==
  /\ txn.op = "readmit"
  /\ LET plan == txn.proof.plan
         prev == txn.prev IN
       /\ Guard(prev, txn.proof.dependency, plan)
       /\ Proof(prev, txn.proof.dependency, plan) = txn.proof
       /\ payload' = [payload EXCEPT ![plan.task] = plan.payload]
       /\ status' = [status EXCEPT ![plan.task] = "PLANNED", ![Task(prev)] = "CANCELLED"]
       /\ dirty_claim' = dirty_claim \ {Task(prev)}
       /\ admitted' = [admitted EXCEPT ![prev] = txn.proof]
       /\ \/ Answer(prev, txn.proof.dependency, plan, txn.proof)
          \/ UNCHANGED answers                  \* the answer is lost
  /\ txn' = Idle
  /\ UNCHANGED <<runs, capability, published, trees>>

(* Refused by a guard, or the process died: the transaction rolls back.            *)
ReadmitRefuse ==
  /\ txn.op = "readmit"
  /\ txn' = Idle
  /\ UNCHANGED <<ledger, capability, answers, trees>>

(* The exact request again, whatever became of the new task since.                 *)
(* Faulty variant: the digest of the plan is not compared.                          *)
ReplaysAnyPlan(prev, d, plan) == admitted[prev].dependency = d

Replays(prev, d, plan) ==
  admitted[prev].plan = plan /\ admitted[prev].dependency = d

ReadmitReplay(prev, d) ==
  /\ txn = Idle
  /\ admitted[prev] # None
  /\ \E plan \in Plans : /\ Replays(prev, d, plan)
                         /\ Answer(prev, d, plan, admitted[prev])
  /\ UNCHANGED <<ledger, capability, txn, trees>>

-----------------------------------------------------------------------------
(* People and tools in the workspaces, at any time.                                *)
Rejected(w) == {r \in Existing : At(Task(r)) = w /\ Run(r).review_status = "NEEDS_FIX"}

Move == /\ moves < MaxMoves
        /\ moves' = moves + 1
        /\ UNCHANGED <<ledger, capability, answers, txn>>

Edit(w, content) ==
  /\ content \in {Edited} \cup Rejected(w)
  /\ tree' = [tree EXCEPT ![w] = content]
  /\ Move /\ UNCHANGED head

Checkout(w, c) ==
  /\ tree' = [tree EXCEPT ![w] = Clean]
  /\ head' = [head EXCEPT ![w] = c]
  /\ Move

ClaimStep == \/ \E t \in Tasks, prior \in Existing \cup {NoRun} : ClaimBegin(t, prior)
             \/ \E t \in Tasks : ClaimBlocked(t) \/ ClaimExhausted(t)
             \/ ClaimCommit \/ ClaimDrift

RunStep == \/ \E r \in Existing :
                \/ \E verdict \in {"NEEDS_FIX", "BLOCKED"} : Reject(r, verdict)
                \/ \E b \in BOOLEAN : Abort(r, b) \/ Finish(r, b)
                \/ ChecksFail(r)
           \/ \E t \in Tasks : CancelTask(t)
           \/ PruneCapabilities
           \/ \E d \in Dependencies : PublishDependency(d)

ReadmitStep == \/ \E prev \in Existing, d \in Dependencies :
                    ReadmitBegin(prev, d) \/ ReadmitReplay(prev, d)
               \/ ReadmitCommit \/ ReadmitRefuse

WorkspaceStep == \E w \in Workspaces :
  \/ \E content \in {Edited} \cup Existing : Edit(w, content)
  \/ \E c \in Commits : Checkout(w, c)

Next == ClaimStep \/ RunStep \/ ReadmitStep \/ WorkspaceStep

Spec == Init /\ [][Next]_vars

-----------------------------------------------------------------------------
(* The tables hold rows of their types.                                           *)
TypeOK ==
  /\ payload \in [Tasks -> Payloads \cup {None}]
  /\ status \in [Tasks -> {"ABSENT", "PLANNED", "IN_PROGRESS", "NEEDS_FIX", "BLOCKED",
                           "CANCELLED", "DONE"}]
  /\ \A t \in Tasks : status[t] = "ABSENT" <=> payload[t] = None
  /\ dirty_claim \subseteq Tasks
  /\ runs \in [Tasks -> Seq(RunRows)]
  /\ capability \subseteq Existing
  /\ published \subseteq Dependencies
  /\ admitted \in [Runs -> Proofs \cup {None}]
  /\ answers \subseteq [prev : Runs, dependency : Dependencies, plan : Plans, result : Proofs]
  /\ txn.op \in {"none", "claim", "readmit"}
  /\ head \in [Workspaces -> Commits]
  /\ tree \in [Workspaces -> Runs \cup {Clean, Edited}]
  /\ moves \in 0 .. MaxMoves

(* A task and the ones its work was readmitted from, however many steps back.         *)
Older(t) == {Task(r) : r \in ReadmittedAs(t)}
Chain(t) == {u \in Tasks : \A S \in SUBSET Tasks :
               t \in S /\ (\A v \in S : Older(v) \subseteq S) => u \in S}
ChainRuns(t) == LET chain == Chain(t) IN {r \in Existing : Task(r) \in chain}

(* _readmission_contract: however often work is readmitted, its chain of tasks      *)
(* never has more runs than the first task was given attempts.                     *)
ChainBudget ==
  \A t \in Tasks : Cardinality(ChainRuns(t)) <= payload[First].max_attempts

(* readmit: a run is readmitted at most once and was the last of its task; the      *)
(* task it leaves is cancelled for good, and no task continues two runs.            *)
ReadmissionsFormChains ==
  \A p \in Runs : admitted[p] # None =>
    /\ p = Latest(Task(p)) /\ status[Task(p)] = "CANCELLED"
    /\ payload[admitted[p].plan.task] = admitted[p].plan.payload
    /\ \A q \in Runs \ {p} : admitted[q] # None =>
         /\ Task(q) # Task(p)
         /\ admitted[q].plan.task # admitted[p].plan.task

(* claim of a readmitted task: every run of it stands on the accepted dependency's  *)
(* commit, whose parent is the base the rejected run was reviewed on.               *)
StandsOnDependency ==
  \A r \in Existing, p \in Runs :
    admitted[p] # None /\ admitted[p].plan.task = Task(r) =>
      /\ Run(r).claim_git_head = admitted[p].commit
      /\ Parent[Run(r).claim_git_head] = Run(p).claim_git_head

(* readmit: every answer about one run, replays after lost answers and after later  *)
(* work on the new task included, is the recorded admission and is about the plan   *)
(* and the dependency of its own request.                                          *)
AnswersAgree ==
  \A a \in answers : /\ admitted[a.prev] = a.result
                     /\ a.result.plan = a.plan /\ a.result.dependency = a.dependency

(* _build_context_pack: the context of a run carries the latest feedback of the      *)
(* whole chain, also when the runs since were aborted without feedback.             *)
Before(q, r) == \/ Task(q) = Task(r) /\ q[2] < r[2]
                \/ Task(q) # Task(r) /\ Task(q) \in Chain(Task(r))
CarriesLatestFeedback ==
  \A r \in Existing :
    LET earlier == {q \in Existing : Run(q).state = "NEEDS_FIX" /\ Before(q, r)} IN
      IF earlier = {} THEN Run(r).previous = NoRun
      ELSE /\ Run(r).previous \in earlier
           /\ \A q \in earlier \ {Run(r).previous} : Before(q, Run(r).previous)

(* _readmission_contract: the first task's retries are completed with a passing review  *)
(* when its policy reviews them; readmitted work always is, whatever that policy was,     *)
(* although the new task counts its attempts from one.                                  *)
ReviewsRetries == payload[First].mode = "required" \/ payload[First].review_on_retry

RetriesAreReviewed ==
  \A r \in Existing :
    /\ Run(r).state = "COMPLETE"
    /\ \E q \in Existing : Before(q, r)
    /\ Task(r) # First \/ ReviewsRetries
    => Run(r).review_status = "PASS"

(* readmit: work moves at most once from a run, its last, to a task of its own, and the  *)
(* task it leaves is cancelled for good; every run of the new task stands on the         *)
(* accepted dependency's commit; and however often work is readmitted, its chain of       *)
(* tasks never has more runs than the first task was given attempts.                     *)
ReadmissionSound ==
  TypeOK /\ ReadmissionsFormChains /\ StandsOnDependency /\ ChainBudget

(* readmit: a chain keeps its history.  The context of a run carries the latest           *)
(* feedback of the whole chain, also when the runs since were aborted, and no retry       *)
(* completes without a passing review, but those of a first task that asks for none.      *)
RetriesKeepHistory == CarriesLatestFeedback /\ RetriesAreReviewed
=============================================================================

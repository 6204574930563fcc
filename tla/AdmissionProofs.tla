--------------------------- MODULE AdmissionProofs ---------------------------
(****************************************************************************)
(* What the two ways into the queue promise, for any number of tasks,        *)
(* commands, workspaces and dependencies.                                    *)
(*                                                                          *)
(* Readmission: a chain of readmitted tasks never exceeds the budget of its   *)
(* first task, keeps its feedback and its reviews, and every answer is the    *)
(* recorded one.  A chain is a least closed set, so that only its closure is  *)
(* ever used and no induction on its length is needed: a readmission puts one  *)
(* task without runs in front of a chain whose tasks are cancelled for good.   *)
(*                                                                          *)
(* ProjectQueue: rows and digests agree however commands race; the registry,  *)
(* the files and the answers are right while commands do not overlap.         *)
(****************************************************************************)
EXTENDS Readmission, ProjectQueue, FiniteSetTheorems, SequenceTheorems, TLAPS

(* A run without a verdict is the last of a task in progress, and only a blocked task    *)
(* has the trail of a dirty claim.                                                     *)
ActiveIsLatest ==
  \A r \in Existing : Run(r).state = "ACTIVE" =>
    r = Latest(Task(r)) /\ status[Task(r)] = "IN_PROGRESS"
DirtyIsBlocked == \A t \in dirty_claim : status[t] = "BLOCKED"

(* Every loaded task is the first one or was readmitted, under a mode that reviews its  *)
(* retries, and stays within its attempts.                                             *)
TaskFits(t) ==
  /\ payload[t] = None => t # First /\ Attempts(t) = 0 /\ ReadmittedAs(t) = {}
  /\ payload[t] # None => /\ Attempts(t) <= payload[t].max_attempts
                          /\ payload[t].mode # "off"
  /\ t = First => ReadmittedAs(t) = {}
  /\ payload[t] # None /\ t # First => ReadmittedAs(t) # {} /\ payload[t].mode = "required"
TasksFit == \A t \in Tasks : TaskFits(t)

(* What a recorded admission says of the run it left, of its task and of the new one.    *)
AdmissionFits(p) ==
  /\ p \in Existing /\ p = Latest(Task(p))
  /\ status[Task(p)] = "CANCELLED" /\ Run(p).state = "NEEDS_FIX"
  /\ admitted[p].plan.task \in Tasks \ {Task(p)}
  /\ payload[admitted[p].plan.task] = admitted[p].plan.payload
  /\ admitted[p].commit \in Commits
  /\ Parent[admitted[p].commit] = Run(p).claim_git_head
  /\ \A q \in Runs \ {p} : admitted[q] # None =>
       Task(q) # Task(p) /\ admitted[q].plan.task # admitted[p].plan.task
AdmissionsFit == \A p \in Runs : admitted[p] # None => AdmissionFits(p)

(* Among the runs of a task that were sent back one is the last, since they end in order. *)
FeedbackHasLast ==
  \A t \in Tasks : WithFeedback(t) # {} =>
    \E q \in WithFeedback(t) : \A r \in WithFeedback(t) : r[2] <= q[2]

(* The runs a chain had and the ones its last task may still have.                      *)
BudgetLeft(t) ==
  /\ IsFiniteSet(ChainRuns(t))
  /\ payload[t] # None =>
       Cardinality(ChainRuns(t)) + payload[t].max_attempts - Attempts(t)
         <= payload[First].max_attempts
BudgetsKept == \A t \in Tasks : BudgetLeft(t)

(* An open transaction: the ledger is what its guards saw, only workspaces may differ.    *)
ClaimFits ==
  /\ txn.task \in Tasks /\ txn.prior \in Existing \cup {NoRun}
  /\ txn.head \in Commits /\ txn.previous = PreviousRun(txn.task)
  /\ BaseMatches(txn.task, txn.head)
  /\ payload[txn.task] # None
  /\ Attempts(txn.task) < payload[txn.task].max_attempts
  /\ status[txn.task] \in READY_TASK_STATES \cup {"BLOCKED"}
  /\ txn.prior = NoRun => status[txn.task] \in READY_TASK_STATES
ReadmitFits ==
  /\ txn.prev \in Existing /\ admitted[txn.prev] = None
  /\ txn.proof \in Proofs
  /\ payload[txn.proof.plan.task] = None
TxnFits == /\ txn.op = "claim" => ClaimFits
           /\ txn.op = "readmit" => ReadmitFits

LedgerFits ==
  /\ ActiveIsLatest /\ DirtyIsBlocked /\ TasksFit /\ AdmissionsFit
  /\ FeedbackHasLast /\ BudgetsKept
  /\ StandsOnDependency /\ CarriesLatestFeedback /\ RetriesAreReviewed

ReadmissionInv == TypeOK /\ LedgerFits /\ TxnFits /\ AnswersAgree

-----------------------------------------------------------------------------
(* Where a queue command is, with what it holds.                                     *)
ProjectSteps == [pc : {"add", "remove", "record"}, project : Projects]
Bindings == {"admission_head", "dynamic_at_verify"}
BuildSteps == [pc : {"binding", "build", "make"}, project : Projects, task : QueueTasks,
               revision : Revisions, unresolved : BOOLEAN, bind : BOOLEAN]
PlanSteps == [pc : {"exists", "examine", "write", "read", "output"}, revision : Revisions,
              content : Contents, created : BOOLEAN, binding : Bindings]
LoadSteps == [pc : {"load"}, revision : Revisions, content : Contents, created : BOOLEAN,
              binding : Bindings, loaded : Contents \cup {NoEntry}]
Steps == {NoCommand} \cup ProjectSteps \cup BuildSteps \cup PlanSteps \cup LoadSteps
Places == {"idle", "add", "remove", "record", "binding", "build", "exists", "examine",
           "write", "read", "load", "make", "output"}

RowsFit == QueueTypeOK /\ TasksMatchPlans /\ cmd \in [Commands -> Steps]

(* No answer depends on the plan file of the revision.                                 *)
Disposable(rev) == rev \in Enqueued => rev \in replaced

(* What a command that was never overlapped may still rely on from its earlier steps.     *)
CommandFits(c) ==
  /\ AtStep(c, "add") => \A q \in registry : Root(q) = Root(cmd[c].project) => q = cmd[c].project
  /\ AtStep(c, "remove") => Unresolved(cmd[c].project) = {}
  /\ cmd[c].pc \in {"exists", "examine", "write", "read", "load"} =>
       cmd[c].content.project \in registry
  /\ AtStep(c, "write") => Disposable(cmd[c].revision)
  /\ cmd[c].pc \in {"examine", "write", "read", "load"} /\ cmd[c].created =>
       Disposable(cmd[c].revision)
  /\ cmd[c].pc \in {"read", "load"} => files[cmd[c].revision] = cmd[c].content
  /\ AtStep(c, "load") => cmd[c].loaded = cmd[c].content

StoresAgree == NoOrphanWork /\ OneProjectPerRoot /\ EnqueuedIsQueued /\ PlanFileKept
OneAtATime == \A c, d \in Commands : c # d => AtStep(c, "idle") \/ AtStep(d, "idle")
AloneFits == StoresAgree /\ OneAtATime /\ \A c \in Commands : CommandFits(c)

QueueInv == RowsFit /\ (~overlapped => AloneFits)

-----------------------------------------------------------------------------
(* Chains, over the recorded admissions A.                                          *)
OlderIn(A, t) == {r[1] : r \in {p \in Runs : A[p] # None /\ A[p].plan.task = t}}
ClosedIn(A, S) == \A v \in S : OlderIn(A, v) \subseteq S
ChainIn(A, t) == {u \in Tasks : \A S \in SUBSET Tasks : t \in S /\ ClosedIn(A, S) => u \in S}

LEMMA ChainIsChainIn ==
  /\ \A t \in Tasks : Chain(t) = ChainIn(admitted, t)
  /\ \A t \in Tasks : Chain(t)' = ChainIn(admitted', t)
  <1>1. \A t \in Tasks : Older(t) = OlderIn(admitted, t)
    BY DEF Older, OlderIn, ReadmittedAs, Task
  <1>2. \A t \in Tasks : Older(t)' = OlderIn(admitted', t)
    BY DEF Older, OlderIn, ReadmittedAs, Task
  <1>3. \A S \in SUBSET Tasks :
          (\A v \in S : Older(v) \subseteq S) <=> ClosedIn(admitted, S)
    BY <1>1 DEF ClosedIn
  <1>4. \A S \in SUBSET Tasks :
          (\A v \in S : Older(v)' \subseteq S) <=> ClosedIn(admitted', S)
    BY <1>2 DEF ClosedIn
  <1>5. \A t \in Tasks : Chain(t) = ChainIn(admitted, t)
    BY <1>3, Zenon DEF Chain, ChainIn
  <1>6. \A t \in Tasks : Chain(t)' = ChainIn(admitted', t)
    BY <1>4, Zenon DEF Chain, ChainIn
  <1> QED
    BY <1>5, <1>6

(* A chain has its task, is closed, and is in every closed set that has its task.       *)
LEMMA ChainBasics ==
  ASSUME NEW A, NEW t \in Tasks
  PROVE  /\ t \in ChainIn(A, t) /\ ChainIn(A, t) \subseteq Tasks
         /\ ClosedIn(A, ChainIn(A, t))
         /\ \A S \in SUBSET Tasks : t \in S /\ ClosedIn(A, S) => ChainIn(A, t) \subseteq S
  <1>1. \A v : OlderIn(A, v) \subseteq Tasks
    BY DEF OlderIn, Runs
  <1>2. ASSUME NEW v \in ChainIn(A, t), NEW u \in OlderIn(A, v), NEW S \in SUBSET Tasks,
               t \in S, ClosedIn(A, S)
        PROVE  u \in S
    BY <1>2 DEF ChainIn, ClosedIn
  <1>3. ClosedIn(A, ChainIn(A, t))
    BY <1>1, <1>2 DEF ClosedIn, ChainIn
  <1> QED
    BY <1>3 DEF ChainIn

(* A task that continues nothing is its whole chain.                                *)
LEMMA ChainOfFirst ==
  ASSUME NEW A, NEW t \in Tasks, OlderIn(A, t) = {}
  PROVE  ChainIn(A, t) = {t}
  <1>1. ClosedIn(A, {t})
    BY DEF ClosedIn
  <1> QED
    BY <1>1, ChainBasics

(* The chain of a task that continues u is the task in front of the chain of u.          *)
LEMMA ChainOfNext ==
  ASSUME NEW A, NEW t \in Tasks, NEW u \in Tasks, OlderIn(A, t) = {u}
  PROVE  ChainIn(A, t) = {t} \cup ChainIn(A, u)
  <1>1. ClosedIn(A, {t} \cup ChainIn(A, u))
    BY ChainBasics DEF ClosedIn
  <1>2. ChainIn(A, t) \subseteq {t} \cup ChainIn(A, u)
    BY <1>1, ChainBasics
  <1>3. u \in ChainIn(A, t)
    BY ChainBasics DEF ClosedIn
  <1>4. ChainIn(A, u) \subseteq ChainIn(A, t)
    BY <1>3, ChainBasics
  <1> QED
    BY <1>2, <1>4, ChainBasics

(* A task further down a chain was left by an admission.                              *)
LEMMA ChainTail ==
  ASSUME NEW A, NEW t \in Tasks, NEW u \in ChainIn(A, t), u # t
  PROVE  \E p \in Runs : A[p] # None /\ p[1] = u
  <1> DEFINE S == {t} \cup {v \in Tasks : \E p \in Runs : A[p] # None /\ p[1] = v}
  <1>1. ClosedIn(A, S)
    BY DEF ClosedIn, OlderIn, Runs
  <1>2. S \in SUBSET Tasks /\ t \in S
    OBVIOUS
  <1>3. u \in S
    BY <1>1, <1>2, ChainBasics
  <1> QED
    BY <1>3

(* An admission into a task no chain has but its own changes no other chain.           *)
LEMMA ChainUntouched ==
  ASSUME NEW A, NEW B, NEW t \in Tasks, NEW n \in Tasks, n \notin ChainIn(A, t),
         \A v \in Tasks \ {n} : OlderIn(B, v) = OlderIn(A, v),
         OlderIn(A, n) \subseteq OlderIn(B, n)
  PROVE  ChainIn(B, t) = ChainIn(A, t)
  <1>1. ClosedIn(B, ChainIn(A, t))
    BY ChainBasics DEF ClosedIn
  <1>2. ClosedIn(A, ChainIn(B, t))
    BY ChainBasics DEF ClosedIn
  <1> QED
    BY <1>1, <1>2, ChainBasics
-----------------------------------------------------------------------------
(* The first plan alone is loaded and nothing ran.                                  *)
LEMMA ReadmissionInit == Init => ReadmissionInv
  <1> SUFFICES ASSUME Init PROVE ReadmissionInv
    OBVIOUS
  <1>1. /\ runs = [t \in Tasks |-> <<>>] /\ admitted = [r \in Runs |-> None]
        /\ dirty_claim = {} /\ answers = {} /\ txn = Idle /\ moves = 0
        /\ capability = {} /\ published = {}
    BY DEF Init
  <1>2. Existing = {}
    <2>1. \A r \in Runs : Len(runs[Task(r)]) = 0 /\ r[2] \in 1 .. MaxAttempts
      BY <1>1 DEF Runs, Task
    <2> QED
      BY <2>1, ReadmissionAssumption DEF Existing
  <1>3. \A t \in Tasks : ReadmittedAs(t) = {} /\ Attempts(t) = 0
    BY <1>1 DEF ReadmittedAs, Attempts
  <1>4. PICK m \in {"risk_based", "required"}, b \in BOOLEAN, w \in Workspaces :
          payload = [t \in Tasks |-> IF t = First
            THEN [workspace |-> w, max_attempts |-> MaxAttempts, mode |-> m,
                  review_on_retry |-> b] ELSE None]
    BY DEF Init
  <1>5. /\ payload[First] \in Payloads /\ payload[First] # None
        /\ payload[First].mode = m /\ payload[First].max_attempts = MaxAttempts
    BY <1>4, ReadmissionAssumption DEF Payloads, Modes
  <1>6. TypeOK
    <2>1. payload \in [Tasks -> Payloads \cup {None}]
      BY <1>4, <1>5
    <2>2. \A t \in Tasks : status[t] = "ABSENT" <=> payload[t] = None
      BY <1>4, <1>5 DEF Init
    <2>3. runs \in [Tasks -> Seq(RunRows)]
      BY <1>1
    <2>4. /\ head \in [Workspaces -> Commits]
          /\ tree \in [Workspaces -> Runs \cup {Clean, Edited}]
          /\ status \in [Tasks -> {"ABSENT", "PLANNED", "IN_PROGRESS", "NEEDS_FIX", "BLOCKED",
                                   "CANCELLED", "DONE"}]
      BY DEF Init
    <2> QED
      BY <1>1, <2>1, <2>2, <2>3, <2>4, ReadmissionAssumption DEF TypeOK, Idle
  <1>7. TasksFit
    BY <1>3, <1>4, <1>5, ReadmissionAssumption DEF TasksFit, TaskFits
  <1>8. BudgetsKept
    <2>1. \A t \in Tasks : ChainRuns(t) = {}
      BY <1>2 DEF ChainRuns
    <2>2. \A t \in Tasks : payload[t] # None => t = First
      BY <1>4
    <2>3. IsFiniteSet({}) /\ Cardinality({}) = 0
      BY FS_EmptySet
    <2>4. First \in Tasks /\ MaxAttempts \in Nat
      BY ReadmissionAssumption
    <2>5. ASSUME NEW t \in Tasks PROVE BudgetLeft(t)
      <3>1. ChainRuns(t) = {} /\ Attempts(t) = 0
        BY <1>3, <2>1
      <3>2. payload[t] # None => 0 + payload[t].max_attempts - 0 <= payload[First].max_attempts
        BY <1>5, <2>2, <2>4
      <3> QED
        BY <2>3, <3>1, <3>2 DEF BudgetLeft
    <2> QED
      BY <2>5 DEF BudgetsKept
  <1>9. AdmissionsFit /\ StandsOnDependency /\ AnswersAgree
    BY <1>1 DEF AdmissionsFit, StandsOnDependency, AnswersAgree
  <1>10. ActiveIsLatest /\ CarriesLatestFeedback /\ RetriesAreReviewed /\ FeedbackHasLast
    BY <1>2 DEF ActiveIsLatest, CarriesLatestFeedback, RetriesAreReviewed, FeedbackHasLast,
                WithFeedback
  <1>11. DirtyIsBlocked /\ TxnFits
    BY <1>1 DEF DirtyIsBlocked, TxnFits, Idle
  <1> QED
    BY <1>6, <1>7, <1>8, <1>9, <1>10, <1>11 DEF ReadmissionInv, LedgerFits

(* A chain and its runs change only with the admissions and the runs.                 *)
LEMMA ChainFrame ==
  ASSUME UNCHANGED <<runs, admitted>>
  PROVE  /\ Existing' = Existing
         /\ \A t \in Tasks : /\ Chain(t)' = Chain(t) /\ ChainRuns(t)' = ChainRuns(t)
                             /\ ReadmittedAs(t)' = ReadmittedAs(t)
                             /\ WithFeedback(t)' = WithFeedback(t)
  <1>1. Existing' = Existing
    BY DEF Existing, Task
  <1>2. \A t \in Tasks : Chain(t)' = Chain(t)
    BY ChainIsChainIn
  <1>3. \A t \in Tasks : ChainRuns(t)' = ChainRuns(t)
    BY <1>1, <1>2 DEF ChainRuns, Task
  <1>4. \A t \in Tasks : ReadmittedAs(t)' = ReadmittedAs(t)
    BY DEF ReadmittedAs
  <1>5. \A t \in Tasks : WithFeedback(t)' = WithFeedback(t)
    BY <1>1 DEF WithFeedback, Run, Task
  <1> QED
    BY <1>1, <1>2, <1>3, <1>4, <1>5

(* A step that leaves runs, admissions and payloads alone and at most takes a task that  *)
(* is neither in progress nor cancelled to another status.                            *)
LEMMA StatusKeeps ==
  ASSUME LedgerFits, UNCHANGED <<runs, admitted, payload>>, DirtyIsBlocked',
         \A t \in Tasks : status[t] \in {"IN_PROGRESS", "CANCELLED"} => status'[t] = status[t]
  PROVE  LedgerFits'
  <1>1. ActiveIsLatest'
    <2>1. \A r \in Existing : Run(r)' = Run(r) /\ Latest(Task(r))' = Latest(Task(r)) /\ Task(r) \in Tasks
      BY DEF Run, Latest, Attempts, Task, Existing, Runs
    <2> QED
      BY <2>1, ChainFrame DEF LedgerFits, ActiveIsLatest, Task
  <1>2. TasksFit'
    BY ChainFrame DEF LedgerFits, TasksFit, TaskFits, Attempts
  <1>3. AdmissionsFit'
    <2>1. SUFFICES ASSUME NEW p \in Runs, admitted[p] # None PROVE AdmissionFits(p)'
      BY DEF AdmissionsFit
    <2>2. AdmissionFits(p) /\ Task(p) \in Tasks
      BY <2>1 DEF LedgerFits, AdmissionsFit, Runs, Task
    <2> QED
      BY <2>2, ChainFrame DEF AdmissionFits, Latest, Attempts, Run, Task
  <1>4. FeedbackHasLast'
    BY ChainFrame DEF LedgerFits, FeedbackHasLast
  <1>5. BudgetsKept'
    BY ChainFrame, ReadmissionAssumption DEF LedgerFits, BudgetsKept, BudgetLeft, Attempts
  <1>6. StandsOnDependency'
    BY ChainFrame DEF LedgerFits, StandsOnDependency, Run, Task
  <1>7. \A q, r \in Existing : Before(q, r)' <=> Before(q, r)
    BY SMTT(30), ChainFrame DEF Before, Task, Existing, Runs
  <1>8. CarriesLatestFeedback'
    <2>1. \A q, r \in Existing : Run(r)' = Run(r) /\ (Before(q, r)' <=> Before(q, r))
      BY <1>7 DEF Run, Task
    <2> QED
      BY <2>1, ChainFrame DEF LedgerFits, CarriesLatestFeedback, Run, Task
  <1>9. RetriesAreReviewed'
    BY <1>7, ChainFrame DEF LedgerFits, RetriesAreReviewed, ReviewsRetries, Run, Task
  <1> QED
    BY <1>1, <1>2, <1>3, <1>4, <1>5, <1>6, <1>8, <1>9 DEF LedgerFits
-----------------------------------------------------------------------------
(* A task that was not left by a readmission is only in its own chain, and nothing comes  *)
(* after its latest run.                                                              *)
LEMMA OpenTask ==
  ASSUME TypeOK, AdmissionsFit, NEW t \in Tasks, status[t] # "CANCELLED"
  PROVE  /\ \A u \in Tasks : t \in Chain(u) => t = u
         /\ \A i \in Nat, q \in Existing : i >= Attempts(t) => ~Before(<<t, i>>, q)
  <1>1. \A p \in Runs : admitted[p] # None => p[1] # t
    BY DEF AdmissionsFit, AdmissionFits, Task
  <1>2. ASSUME NEW u \in Tasks, t \in Chain(u) PROVE t = u
    BY <1>1, <1>2, ChainIsChainIn, ChainTail
  <1>3. ASSUME NEW i \in Nat, NEW q \in Existing, i >= Attempts(t) PROVE ~Before(<<t, i>>, q)
    <2>1. /\ Task(q) \in Tasks /\ q[2] \in Nat /\ q[2] <= Attempts(Task(q))
          /\ Attempts(t) \in Nat /\ Task(<<t, i>>) = t /\ <<t, i>>[2] = i
      BY LenProperties DEF Existing, Runs, Task, Attempts, TypeOK
    <2> QED
      BY <1>2, <1>3, <2>1 DEF Before
  <1> QED
    BY <1>2, <1>3

(* The end of an active run.                                                       *)
LEMMA EndKeeps ==
  ASSUME TypeOK, LedgerFits,
         NEW r \in Existing, Run(r).state = "ACTIVE",
         NEW run \in RunRows, run.state # "ACTIVE",
         run.claim_git_head = Run(r).claim_git_head, run.previous = Run(r).previous,
         run.state = "COMPLETE" /\ (\E q \in Existing : Before(q, r))
           /\ (Task(r) # First \/ ReviewsRetries) => run.review_status = "PASS",
         NEW s \in {"NEEDS_FIX", "BLOCKED", "DONE"},
         runs' = [runs EXCEPT ![Task(r)][r[2]] = run],
         status' = [status EXCEPT ![Task(r)] = s],
         UNCHANGED <<payload, dirty_claim, admitted>>
  PROVE  LedgerFits' /\ runs' \in [Tasks -> Seq(RunRows)] /\ Existing' = Existing
  <1> DEFINE t == Task(r)
  <1>1. /\ t \in Tasks /\ r \in Runs /\ r = <<t, r[2]>> /\ runs[t] \in Seq(RunRows)
        /\ r[2] \in 1 .. Len(runs[t])
    BY LenProperties DEF Existing, Runs, Task, TypeOK
  <1>2. /\ runs'[t] \in Seq(RunRows) /\ Len(runs'[t]) = Len(runs[t])
        /\ \A j \in 1 .. Len(runs[t]) : runs'[t][j] = IF j = r[2] THEN run ELSE runs[t][j]
        /\ \A u \in Tasks \ {t} : runs'[u] = runs[u]
    BY <1>1, ExceptSeq DEF TypeOK
  <1>3. runs' \in [Tasks -> Seq(RunRows)]
    BY <1>1, <1>2 DEF TypeOK
  <1>4. \A u \in Tasks : Attempts(u)' = Attempts(u) /\ Latest(u)' = Latest(u)
    BY <1>2 DEF Attempts, Latest
  <1>5. Existing' = Existing
    BY <1>4 DEF Existing, Attempts, Task, Runs
  <1>6. ASSUME NEW q \in Existing PROVE Run(q)' = IF q = r THEN run ELSE Run(q)
    <2>1. /\ Task(q) \in Tasks /\ q = <<Task(q), q[2]>>
          /\ q[2] \in 1 .. Len(runs[Task(q)])
      BY LenProperties DEF Existing, Runs, Task, TypeOK
    <2> QED
      BY <1>1, <1>2, <2>1 DEF Run, Task
  <1>7. \A u \in Tasks : Chain(u)' = Chain(u) /\ ReadmittedAs(u)' = ReadmittedAs(u)
    BY ChainIsChainIn DEF ReadmittedAs
  <1>8. \A p, q \in Existing : Before(p, q)' <=> Before(p, q)
    BY <1>7 DEF Before, Existing, Runs, Task
  <1>9. /\ r = Latest(t) /\ status[t] = "IN_PROGRESS"
    BY DEF LedgerFits, ActiveIsLatest
  <1>10. \A q \in Existing : ~Before(r, q)
    <2>1. r = <<t, Attempts(t)>> /\ Attempts(t) \in Nat
      BY <1>1, <1>9 DEF Latest, Attempts
    <2> QED
      BY <1>1, <1>9, <2>1, OpenTask DEF LedgerFits
  <1>11. ActiveIsLatest'
    <2> SUFFICES ASSUME NEW q \in Existing, Run(q)'.state = "ACTIVE"
                 PROVE  q = Latest(Task(q)) /\ status'[Task(q)] = "IN_PROGRESS"
      BY <1>4, <1>5 DEF ActiveIsLatest, Task, Existing, Runs
    <2>1. q # r /\ Run(q).state = "ACTIVE" /\ Task(q) \in Tasks
      BY <1>6 DEF Existing, Runs, Task
    <2>2. q = Latest(Task(q)) /\ status[Task(q)] = "IN_PROGRESS"
      BY <2>1 DEF LedgerFits, ActiveIsLatest
    <2>3. Task(q) # t
      BY <1>9, <2>1, <2>2
    <2> QED
      BY <2>1, <2>2, <2>3 DEF TypeOK
  <1>12. DirtyIsBlocked'
    BY <1>1, <1>9 DEF LedgerFits, DirtyIsBlocked, TypeOK
  <1>13. TasksFit'
    BY <1>4, <1>7 DEF LedgerFits, TasksFit, TaskFits
  <1>14. AdmissionsFit'
    <2> SUFFICES ASSUME NEW p \in Runs, admitted[p] # None PROVE AdmissionFits(p)'
      BY DEF AdmissionsFit
    <2>1. AdmissionFits(p) /\ Task(p) \in Tasks
      BY DEF LedgerFits, AdmissionsFit, Runs, Task
    <2>2. p # r /\ Task(p) # t
      BY <1>9, <2>1 DEF AdmissionFits
    <2>3. Run(p)' = Run(p) /\ Latest(Task(p))' = Latest(Task(p)) /\ status'[Task(p)] = "CANCELLED"
      BY <1>4, <1>6, <2>1, <2>2 DEF AdmissionFits, TypeOK
    <2> QED
      BY <1>5, <2>1, <2>3 DEF AdmissionFits, Task
  <1>15. FeedbackHasLast'
    <2> SUFFICES ASSUME NEW u \in Tasks, WithFeedback(u)' # {}
                 PROVE  (\E q \in WithFeedback(u) : \A p \in WithFeedback(u) : p[2] <= q[2])'
      BY DEF FeedbackHasLast
    <2>1. \A q \in Existing : q # r => (q \in WithFeedback(u)' <=> q \in WithFeedback(u))
      BY <1>5, <1>6 DEF WithFeedback, Task
    <2>2. WithFeedback(u)' \subseteq Existing /\ WithFeedback(u) \subseteq Existing /\ r \notin WithFeedback(u)
      BY <1>5 DEF WithFeedback
    <2>3. CASE r \in WithFeedback(u)'
      <3>1. u = t
        BY <2>3 DEF WithFeedback, Task
      <3>2. \A p \in WithFeedback(u)' : p[2] <= r[2]
        <4>1. \A p \in WithFeedback(u)' : Task(p) = t /\ p \in Existing
          BY <1>5, <3>1 DEF WithFeedback, Task
        <4>2. \A p \in Existing : p[2] <= Attempts(Task(p))
          BY DEF Existing, Attempts, Task
        <4> QED
          BY <1>9, <4>1, <4>2 DEF Latest
      <3> QED
        BY <2>3, <3>2
    <2>4. CASE r \notin WithFeedback(u)'
      <3>1. WithFeedback(u)' = WithFeedback(u)
        BY <2>1, <2>2, <2>4
      <3> QED
        BY <3>1 DEF LedgerFits, FeedbackHasLast
    <2> QED
      BY <2>3, <2>4
  <1>16. BudgetsKept'
    <2>1. \A u \in Tasks : ChainRuns(u)' = ChainRuns(u)
      BY <1>5, <1>7 DEF ChainRuns, Task
    <2> QED
      BY <1>4, <2>1, ReadmissionAssumption DEF LedgerFits, BudgetsKept, BudgetLeft
  <1>17. StandsOnDependency'
    <2>1. \A q \in Existing : Run(q)'.claim_git_head = Run(q).claim_git_head
      BY <1>6
    <2>2. \A p \in Runs : admitted[p] # None => p \in Existing
      BY DEF LedgerFits, AdmissionsFit, AdmissionFits
    <2> QED
      BY <1>5, <2>1, <2>2 DEF LedgerFits, StandsOnDependency, Task
  <1>18. CarriesLatestFeedback'
    <2>1. \A q \in Existing : Run(q)'.previous = Run(q).previous
      BY <1>6
    <2>2. \A p, q \in Existing : Run(p)'.state = "NEEDS_FIX" /\ Before(p, q)'
             <=> Run(p).state = "NEEDS_FIX" /\ Before(p, q)
      BY <1>6, <1>8, <1>10
    <2> SUFFICES ASSUME NEW q \in Existing, NEW x, x = Run(q).previous
                 PROVE  LET later == {p \in Existing : Run(p)'.state = "NEEDS_FIX" /\ Before(p, q)'}
                        IN  IF later = {} THEN x = NoRun
                            ELSE x \in later /\ \A p \in later \ {x} : Before(p, x)'
      BY <1>5, <2>1 DEF CarriesLatestFeedback
    <2> DEFINE earlier == {p \in Existing : Run(p).state = "NEEDS_FIX" /\ Before(p, q)}
               later == {p \in Existing : Run(p)'.state = "NEEDS_FIX" /\ Before(p, q)'}
    <2>3. later = earlier
      BY <2>2
    <2>4. IF earlier = {} THEN x = NoRun
          ELSE x \in earlier /\ \A p \in earlier \ {x} : Before(p, x)
      BY DEF LedgerFits, CarriesLatestFeedback
    <2>5. earlier \subseteq Existing
      OBVIOUS
    <2> HIDE DEF earlier, later
    <2> QED
      BY <1>8, <2>3, <2>4, <2>5 DEF later
  <1>19. RetriesAreReviewed'
    <2> SUFFICES ASSUME NEW q \in Existing, Run(q)'.state = "COMPLETE",
                        NEW p \in Existing, Before(p, q), Task(q) # First \/ ReviewsRetries
                 PROVE  Run(q)'.review_status = "PASS"
      BY <1>5, <1>8 DEF RetriesAreReviewed, ReviewsRetries
    <2>1. CASE q = r
      BY <1>6, <2>1
    <2>2. CASE q # r
      BY <1>6, <2>2 DEF LedgerFits, RetriesAreReviewed
    <2> QED
      BY <2>1, <2>2
  <1> QED
    BY <1>3, <1>5, <1>11, <1>12, <1>13, <1>14, <1>15, <1>16, <1>17, <1>18, <1>19 DEF LedgerFits
(* The feedback a claim gathers: that of the last run sent back in the whole chain.       *)
LEMMA PreviousIsLast ==
  ASSUME TypeOK, LedgerFits, NEW t \in Tasks, NEW x, x = PreviousRun(t)
  PROVE  LET sent == {q \in Existing : Run(q).state = "NEEDS_FIX" /\ Task(q) \in Chain(t)}
         IN  IF sent = {} THEN x = NoRun
             ELSE x \in sent /\ \A q \in sent \ {x} : Before(q, x)
  <1> DEFINE sent == {q \in Existing : Run(q).state = "NEEDS_FIX" /\ Task(q) \in Chain(t)}
  <1>1. t \in Chain(t)
    BY ChainIsChainIn, ChainBasics
  <1>2. \A q \in Existing : /\ q = <<Task(q), q[2]>> /\ Task(q) \in Tasks /\ q[2] \in Nat
                           /\ q[2] <= Attempts(Task(q)) /\ Attempts(Task(q)) \in Nat
    BY LenProperties DEF Existing, Runs, Task, Attempts, TypeOK
  <1>3. CASE WithFeedback(t) # {}
    <2>1. x \in WithFeedback(t) /\ \A q \in WithFeedback(t) : q[2] <= x[2]
      BY <1>3 DEF PreviousRun, LedgerFits, FeedbackHasLast
    <2>2. x \in sent /\ Task(x) = t
      BY <1>1, <2>1 DEF WithFeedback
    <2>3. ASSUME NEW q \in sent, q # x PROVE Before(q, x)
      <3>1. CASE Task(q) = t
        <4>1. q[2] <= x[2]
          BY <2>1, <3>1 DEF WithFeedback
        <4>2. q[2] # x[2]
          BY <1>2, <2>2, <2>3, <3>1
        <4> QED
          BY <1>2, <2>2, <3>1, <4>1, <4>2 DEF Before
      <3>2. CASE Task(q) # t
        BY <2>2, <3>2 DEF Before
      <3> QED
        BY <3>1, <3>2
    <2> QED
      BY <2>2, <2>3
  <1>4. CASE WithFeedback(t) = {} /\ ReadmittedAs(t) # {}
    <2>1. x \in ReadmittedAs(t)
      BY <1>4, Zenon DEF PreviousRun
    <2>2. AdmissionFits(x) /\ admitted[x] # None /\ admitted[x].plan.task = t /\ x \in Runs
      BY <2>1 DEF LedgerFits, AdmissionsFit, ReadmittedAs
    <2>3. ReadmittedAs(t) = {x}
      BY <2>1, <2>2 DEF AdmissionFits, ReadmittedAs
    <2>4. Chain(t) = {t} \cup Chain(Task(x)) /\ Task(x) \in Chain(t) /\ Task(x) # t
      <3>1. OlderIn(admitted, t) = {Task(x)} /\ Task(x) \in Tasks
        BY <2>2, <2>3 DEF OlderIn, ReadmittedAs, Task, Runs
      <3> QED
        BY <2>2, <3>1, ChainOfNext, ChainIsChainIn, ChainBasics DEF AdmissionFits
    <2>5. x \in sent
      BY <2>2, <2>4 DEF AdmissionFits
    <2>6. ASSUME NEW q \in sent, q # x PROVE Before(q, x)
      <3>1. Task(q) # t /\ Task(q) \in Chain(Task(x))
        BY <1>4, <2>4 DEF WithFeedback
      <3>2. CASE Task(q) = Task(x)
        <4>1. q[2] <= x[2] /\ q[2] # x[2]
          BY <1>2, <2>2, <2>6, <3>2 DEF AdmissionFits, Latest
        <4> QED
          BY <1>2, <2>5, <3>2, <4>1 DEF Before
      <3>3. CASE Task(q) # Task(x)
        BY <3>1, <3>3 DEF Before
      <3> QED
        BY <3>2, <3>3
    <2> QED
      BY <2>5, <2>6
  <1>5. CASE WithFeedback(t) = {} /\ ReadmittedAs(t) = {}
    <2>1. Chain(t) = {t}
      <3>1. OlderIn(admitted, t) = {}
        BY <1>5 DEF OlderIn, ReadmittedAs
      <3> QED
        BY <3>1, ChainOfFirst, ChainIsChainIn
    <2>2. sent = {}
      BY <1>5, <2>1 DEF WithFeedback
    <2>3. x = NoRun
      BY <1>5 DEF PreviousRun
    <2> QED
      BY <2>2, <2>3
  <1> QED
    BY <1>3, <1>4, <1>5

(* The insertion of a run.                                                         *)
LEMMA ClaimCommitKeeps ==
  ASSUME TypeOK, LedgerFits, TxnFits, ClaimCommit,
         NEW t, t = txn.task, NEW n, n = Attempts(t), NEW r, r = <<t, n + 1>>
  PROVE  /\ LedgerFits' /\ runs' \in [Tasks -> Seq(RunRows)]
         /\ Existing' = Existing \cup {r}
  <1> SUFFICES ASSUME NEW row,
                 row = [state |-> "ACTIVE", verify_status |-> "NONE", review_status |-> "NONE",
                        claim_git_head |-> txn.head, previous |-> txn.previous]
               PROVE  /\ LedgerFits' /\ runs' \in [Tasks -> Seq(RunRows)]
                      /\ Existing' = Existing \cup {r}
    OBVIOUS
  <1>1. /\ runs' = [runs EXCEPT ![t] = Append(runs[t], row)]
        /\ status' = [status EXCEPT ![t] = "IN_PROGRESS"]
        /\ dirty_claim' = dirty_claim \ {t}
        /\ UNCHANGED <<payload, admitted>>
    BY DEF ClaimCommit
  <1>2. /\ ClaimFits /\ t \in Tasks /\ runs[t] \in Seq(RunRows) /\ n \in Nat
        /\ status[t] # "CANCELLED" /\ status[t] # "IN_PROGRESS"
    BY LenProperties DEF ClaimCommit, TxnFits, ClaimFits, TypeOK, READY_TASK_STATES, Attempts
  <1>3. r \in Runs /\ n + 1 <= payload[t].max_attempts /\ payload[t] \in Payloads
    BY <1>2, ReadmissionAssumption DEF ClaimFits, TypeOK, Payloads, Runs
  <1>4. row \in RunRows
    <2>1. txn.previous \in Runs \cup {NoRun}
      BY <1>2, PreviousIsLast DEF ClaimFits, Existing
    <2> QED
      BY <1>2, <2>1 DEF RunRows, ClaimFits
  <1>5. /\ Append(runs[t], row) \in Seq(RunRows) /\ Len(Append(runs[t], row)) = n + 1
        /\ \A j \in 1 .. n + 1 : Append(runs[t], row)[j] = IF j = n + 1 THEN row ELSE runs[t][j]
    BY <1>2, <1>4 DEF Attempts
  <1>6. runs' \in [Tasks -> Seq(RunRows)] /\ runs'[t] = Append(runs[t], row)
        /\ \A u \in Tasks \ {t} : runs'[u] = runs[u]
    BY <1>1, <1>2, <1>5 DEF TypeOK
  <1>7. /\ Attempts(t)' = n + 1 /\ \A u \in Tasks \ {t} : Attempts(u)' = Attempts(u)
    BY <1>5, <1>6 DEF Attempts
  <1>8. /\ Existing' = Existing \cup {r}
        /\ r \notin Existing
    <2>1. \A q \in Runs : q = <<Task(q), q[2]>> /\ Task(q) \in Tasks /\ q[2] \in Nat
      BY DEF Runs, Task
    <2>2. \A q \in Runs : q \in Existing <=> q[2] <= Attempts(Task(q))
      BY DEF Existing, Attempts
    <2>3. \A q \in Runs : q \in Existing' <=> q[2] <= Attempts(Task(q))'
      BY DEF Existing, Attempts, Task
    <2>4. \A q \in Runs : q \in Existing' <=> q \in Existing \cup {r}
      <3> SUFFICES ASSUME NEW q \in Runs PROVE q \in Existing' <=> q \in Existing \cup {r}
        OBVIOUS
      <3>1. CASE Task(q) = t
        <4>1. q = r <=> q[2] = n + 1
          BY <2>1, <3>1
        <4> QED
          BY <1>2, <1>7, <2>1, <2>2, <2>3, <3>1, <4>1 DEF Task
      <3>2. CASE Task(q) # t
        BY <1>7, <2>1, <2>2, <2>3, <3>2 DEF Task
      <3> QED
        BY <3>1, <3>2
    <2>5. Existing \subseteq Runs /\ Existing' \subseteq Runs
      BY DEF Existing
    <2>6. r \notin Existing
      BY <1>2, <1>3, <2>2 DEF Task
    <2> QED
      BY <1>3, <2>4, <2>5, <2>6
  <1>9. /\ Run(r)' = row
        /\ \A q \in Existing : Run(q)' = Run(q)
    <2>1. Run(r)' = row
      BY <1>2, <1>5, <1>6 DEF Run, Task
    <2>2. ASSUME NEW q \in Existing PROVE Run(q)' = Run(q)
      <3>1. Task(q) \in Tasks /\ q[2] \in 1 .. Len(runs[Task(q)])
        BY LenProperties DEF Existing, Runs, Task, TypeOK
      <3> QED
        BY <1>2, <1>5, <1>6, <3>1 DEF Run, Task, Attempts
    <2> QED
      BY <2>1, <2>2
  <1>10. \A u \in Tasks : Chain(u)' = Chain(u) /\ ReadmittedAs(u)' = ReadmittedAs(u)
    BY <1>1, ChainIsChainIn DEF ReadmittedAs
  <1>11. \A p, q \in Runs : Before(p, q)' <=> Before(p, q)
    BY <1>10 DEF Before, Runs, Task
  <1>12. \A q \in Existing : ~Before(r, q)
    BY <1>2, OpenTask DEF LedgerFits
  <1>13. ActiveIsLatest'
    <2> SUFFICES ASSUME NEW q \in Existing', Run(q)'.state = "ACTIVE"
                 PROVE  q = <<Task(q), Attempts(Task(q))'>> /\ status'[Task(q)] = "IN_PROGRESS"
      BY DEF ActiveIsLatest, Task, Latest, Attempts
    <2>1. CASE q = r
      BY <1>1, <1>2, <1>7, <2>1 DEF Task, TypeOK
    <2>2. CASE q # r
      <3>1. q \in Existing /\ Run(q).state = "ACTIVE" /\ Task(q) \in Tasks
        BY <1>8, <1>9, <2>2 DEF Existing, Runs, Task
      <3>2. q = Latest(Task(q)) /\ status[Task(q)] = "IN_PROGRESS"
        BY <3>1 DEF LedgerFits, ActiveIsLatest
      <3>3. Task(q) # t
        BY <1>2, <3>2
      <3> QED
        BY <1>1, <1>7, <3>1, <3>2, <3>3 DEF TypeOK, Latest
    <2> QED
      BY <2>1, <2>2
  <1>14. DirtyIsBlocked'
    BY <1>1 DEF LedgerFits, DirtyIsBlocked, TypeOK
  <1>15. TasksFit'
    <2> SUFFICES ASSUME NEW u \in Tasks PROVE TaskFits(u)'
      BY DEF TasksFit
    <2>1. TaskFits(u)
      BY DEF LedgerFits, TasksFit
    <2>2. CASE u = t
      BY <1>1, <1>2, <1>3, <1>7, <1>10, <2>1, <2>2 DEF TaskFits, ClaimFits
    <2>3. CASE u # t
      BY <1>1, <1>7, <1>10, <2>1, <2>3 DEF TaskFits
    <2> QED
      BY <2>2, <2>3
  <1>16. AdmissionsFit'
    <2> SUFFICES ASSUME NEW p \in Runs, admitted[p] # None PROVE AdmissionFits(p)'
      BY <1>1 DEF AdmissionsFit
    <2>1. AdmissionFits(p) /\ Task(p) \in Tasks /\ p \in Existing
      BY DEF LedgerFits, AdmissionsFit, AdmissionFits, Runs, Task
    <2>2. Task(p) # t
      BY <1>2, <2>1 DEF AdmissionFits
    <2>3. /\ Run(p)' = Run(p) /\ Latest(Task(p))' = Latest(Task(p))
          /\ status'[Task(p)] = "CANCELLED" /\ p \in Existing'
      BY <1>1, <1>7, <1>8, <1>9, <2>1, <2>2 DEF AdmissionFits, TypeOK, Latest, Task
    <2> QED
      BY <1>1, <2>1, <2>3 DEF AdmissionFits, Task
  <1>17. FeedbackHasLast'
    <2>1. \A u \in Tasks : WithFeedback(u)' = WithFeedback(u)
      BY <1>8, <1>9 DEF WithFeedback, Task
    <2> QED
      BY <2>1 DEF LedgerFits, FeedbackHasLast
  <1>18. BudgetsKept'
    <2> SUFFICES ASSUME NEW u \in Tasks PROVE BudgetLeft(u)'
      BY DEF BudgetsKept
    <2>1. BudgetLeft(u) /\ payload[First].max_attempts \in Nat
      BY ReadmissionAssumption DEF LedgerFits, BudgetsKept, TasksFit, TaskFits, TypeOK, Payloads
    <2>2. CASE u = t
      <3>1. t \in Chain(t)
        BY <1>2, ChainIsChainIn, ChainBasics
      <3>2. ChainRuns(t)' = ChainRuns(t) \cup {r} /\ r \notin ChainRuns(t)
        BY <1>2, <1>8, <1>10, <3>1 DEF ChainRuns, Task
      <3>3. /\ IsFiniteSet(ChainRuns(t)') /\ Cardinality(ChainRuns(t)') = Cardinality(ChainRuns(t)) + 1
            /\ Cardinality(ChainRuns(t)) \in Nat
        BY <2>1, <2>2, <3>2, FS_AddElement, FS_CardinalityType DEF BudgetLeft
      <3>4. payload[t].max_attempts \in Nat /\ payload[t] # None /\ Attempts(t) = n
        BY <1>2, <1>3 DEF Payloads, ClaimFits
      <3>5. Cardinality(ChainRuns(t)) + payload[t].max_attempts - n <= payload[First].max_attempts
        BY <2>1, <2>2, <3>4 DEF BudgetLeft
      <3>6. Cardinality(ChainRuns(t)') + payload[t].max_attempts - (n + 1) <= payload[First].max_attempts
        BY <1>2, <2>1, <3>3, <3>4, <3>5
      <3> QED
        BY <1>1, <1>7, <2>2, <3>3, <3>6 DEF BudgetLeft
    <2>3. CASE u # t
      <3>1. t \notin Chain(u)
        BY <1>2, <2>3, OpenTask DEF LedgerFits
      <3>2. ChainRuns(u)' = ChainRuns(u)
        BY <1>8, <1>10, <3>1 DEF ChainRuns, Task
      <3> QED
        BY <1>1, <1>7, <2>1, <2>3, <3>2 DEF BudgetLeft
    <2> QED
      BY <2>2, <2>3
  <1>19. StandsOnDependency'
    <2> SUFFICES ASSUME NEW q \in Existing', NEW p \in Runs, admitted[p] # None,
                        admitted[p].plan.task = Task(q)
                 PROVE  /\ Run(q)'.claim_git_head = admitted[p].commit
                        /\ Parent[Run(q)'.claim_git_head] = Run(p)'.claim_git_head
      BY <1>1 DEF StandsOnDependency, Task
    <2>1. AdmissionFits(p) /\ Run(p)' = Run(p)
      BY <1>9 DEF LedgerFits, AdmissionsFit, AdmissionFits
    <2>2. CASE q = r
      <3>1. p \in ReadmittedAs(t)
        BY <2>2 DEF ReadmittedAs, Task
      <3>2. Run(q)'.claim_git_head = admitted[p].commit
        BY <1>2, <1>9, <2>2, <3>1 DEF ClaimFits, BaseMatches
      <3> QED
        BY <2>1, <3>2 DEF AdmissionFits
    <2>3. CASE q # r
      BY <1>8, <1>9, <2>1, <2>3 DEF LedgerFits, StandsOnDependency
    <2> QED
      BY <2>2, <2>3
  <1>20. CarriesLatestFeedback'
    <2> SUFFICES ASSUME NEW q \in Existing', NEW x, x = Run(q)'.previous
                 PROVE  LET later == {p \in Existing' : Run(p)'.state = "NEEDS_FIX" /\ Before(p, q)'}
                        IN  IF later = {} THEN x = NoRun
                            ELSE x \in later /\ \A p \in later \ {x} : Before(p, x)'
      BY DEF CarriesLatestFeedback
    <2> DEFINE later == {p \in Existing' : Run(p)'.state = "NEEDS_FIX" /\ Before(p, q)'}
               earlier == {p \in Existing : Run(p).state = "NEEDS_FIX" /\ Before(p, q)}
    <2>1. Existing \subseteq Runs /\ q \in Runs /\ earlier \subseteq Runs
      BY DEF Existing
    <2>2. later = earlier
      BY <1>8, <1>9, <1>11, <2>1
    <2>3. IF earlier = {} THEN x = NoRun
          ELSE x \in earlier /\ \A p \in earlier \ {x} : Before(p, x)
      <3>1. CASE q \in Existing
        <4>1. x = Run(q).previous
          BY <1>9, <3>1
        <4> QED
          BY <3>1, <4>1 DEF LedgerFits, CarriesLatestFeedback
      <3>2. CASE q = r
        <4>1. x = PreviousRun(t)
          BY <1>2, <1>9, <3>2 DEF ClaimFits
        <4>2. ASSUME NEW p \in Existing PROVE Before(p, r) <=> Task(p) \in Chain(t)
          <5>1. Task(r) = t /\ r[2] = n + 1 /\ t \in Chain(t)
            BY <1>2, ChainIsChainIn, ChainBasics DEF Task
          <5>2. p[2] \in Nat /\ p[2] <= Attempts(Task(p))
            BY DEF Existing, Runs, Attempts
          <5> QED
            BY <1>2, <5>1, <5>2 DEF Before
        <4>3. earlier = {p \in Existing : Run(p).state = "NEEDS_FIX" /\ Task(p) \in Chain(t)}
          BY <3>2, <4>2
        <4> HIDE DEF earlier
        <4> QED
          BY <1>2, <4>1, <4>3, PreviousIsLast
      <3> QED
        BY <1>8, <3>1, <3>2
    <2> HIDE DEF earlier, later
    <2> QED
      BY <1>11, <2>1, <2>2, <2>3 DEF later
  <1>21. RetriesAreReviewed'
    <2> SUFFICES ASSUME NEW q \in Existing', Run(q)'.state = "COMPLETE",
                        NEW p \in Existing', Before(p, q)', Task(q) # First \/ ReviewsRetries
                 PROVE  Run(q)'.review_status = "PASS"
      BY <1>1 DEF RetriesAreReviewed, ReviewsRetries
    <2>1. q \in Existing /\ Run(q)' = Run(q)
      BY <1>8, <1>9
    <2>2. p \in Existing /\ Before(p, q)
      BY <1>3, <1>8, <1>11, <1>12, <2>1 DEF Existing
    <2> QED
      BY <2>1, <2>2 DEF LedgerFits, RetriesAreReviewed
  <1> QED
    BY <1>6, <1>8, <1>13, <1>14, <1>15, <1>16, <1>17, <1>18, <1>19, <1>20, <1>21 DEF LedgerFits

(* The readmission: the new task, without runs, goes in front of the chain of the old one. *)
LEMMA AdmitKeeps ==
  ASSUME TypeOK, LedgerFits, TxnFits, ReadmitCommit,
         NEW prev, prev = txn.prev, NEW proof, proof = txn.proof,
         NEW old, old = Task(prev), NEW new, new = proof.plan.task,
         NEW load, load = proof.plan.payload
  PROVE  /\ LedgerFits' /\ Existing' = Existing
         /\ old # new /\ new \in Tasks /\ old \in Tasks /\ load \in Payloads
         /\ prev \in Runs /\ proof \in Proofs /\ admitted[prev] = None
  <1>1. /\ payload' = [payload EXCEPT ![new] = load]
        /\ status' = [status EXCEPT ![new] = "PLANNED", ![old] = "CANCELLED"]
        /\ dirty_claim' = dirty_claim \ {old}
        /\ admitted' = [admitted EXCEPT ![prev] = proof]
        /\ UNCHANGED runs
        /\ Guard(prev, proof.dependency, proof.plan)
        /\ Proof(prev, proof.dependency, proof.plan) = proof
    BY DEF ReadmitCommit
  <1>2. /\ prev \in Existing /\ prev \in Runs /\ old \in Tasks
        /\ proof \in Proofs /\ new \in Tasks /\ load \in Payloads /\ load # None /\ proof # None
        /\ payload[new] = None /\ admitted[prev] = None
    BY ReadmissionAssumption DEF ReadmitCommit, TxnFits, ReadmitFits, Existing, Runs, Task, Proofs, Plans
  <1>3. /\ prev = Latest(old) /\ Run(prev).state = "NEEDS_FIX"
        /\ status[old] \in {"NEEDS_FIX", "BLOCKED"}
        /\ Parent[proof.commit] = Run(prev).claim_git_head
        /\ proof.commit \in Commits
    <2>1. RepairGuard(old, prev) /\ DependencyGuard(prev, proof.dependency)
      BY <1>1 DEF Guard, SourceGuard
    <2>2. proof.commit = CommitOf[proof.dependency] /\ proof.commit \in Commits
      BY <1>1, <1>2 DEF Proof, Proofs
    <2> QED
      BY <2>1, <2>2 DEF RepairGuard, DependencyGuard, LedgerFits, DirtyIsBlocked
  <1>4. /\ status[new] = "ABSENT" /\ old # new /\ new # First
        /\ Attempts(new) = 0 /\ ReadmittedAs(new) = {}
        /\ payload[old] # None /\ payload[old] \in Payloads
    <2>1. status[new] = "ABSENT"
      BY <1>2 DEF TypeOK
    <2>2. old # new
      BY <1>3, <2>1
    <2>3. payload[old] # None
      BY <1>2, <1>3 DEF TypeOK
    <2>4. TaskFits(new)
      BY <1>2 DEF LedgerFits, TasksFit
    <2> QED
      BY <1>2, <2>1, <2>2, <2>3, <2>4 DEF TaskFits, TypeOK
  <1>5. /\ load.max_attempts <= payload[old].max_attempts - Attempts(old)
        /\ load.mode = "required"
    <2>1. Contract(old, load)
      BY <1>1 DEF Guard
    <2>2. payload[old].mode \in {"risk_based", "required"}
      BY <1>2, <1>4 DEF LedgerFits, TasksFit, TaskFits, Payloads, Modes
    <2>3. load.mode \in Modes
      BY <1>2 DEF Payloads
    <2> QED
      BY <2>1, <2>2, <2>3 DEF Contract, ReviewContract, Remaining, Level, Modes
  <1>6. /\ Existing' = Existing /\ \A q : Run(q)' = Run(q)
        /\ \A u : Attempts(u)' = Attempts(u) /\ Latest(u)' = Latest(u)
    BY <1>1 DEF Existing, Run, Attempts, Latest, Task
  <1>7. /\ payload'[new] = load /\ status'[old] = "CANCELLED" /\ status'[new] = "PLANNED"
        /\ \A u \in Tasks \ {new} : payload'[u] = payload[u]
        /\ \A u \in Tasks \ {new, old} : status'[u] = status[u]
        /\ admitted'[prev] = proof /\ \A q \in Runs \ {prev} : admitted'[q] = admitted[q]
    BY <1>1, <1>2, <1>4 DEF TypeOK
  <1>8. /\ ReadmittedAs(new)' = {prev}
        /\ \A u \in Tasks \ {new} : ReadmittedAs(u)' = ReadmittedAs(u)
    <2>1. \A q \in Runs : q \in ReadmittedAs(new) <=> admitted[q] # None /\ admitted[q].plan.task = new
      BY DEF ReadmittedAs
    <2> QED
      BY <1>2, <1>4, <1>7, <2>1 DEF ReadmittedAs
  <1>9. /\ \A u \in Tasks \ {new} : Chain(u)' = Chain(u)
        /\ Chain(new)' = {new} \cup Chain(old)
    <2>1. \A u \in Tasks \ {new} : OlderIn(admitted', u) = OlderIn(admitted, u)
      BY <1>2, <1>7 DEF OlderIn
    <2>2. OlderIn(admitted, new) = {} /\ OlderIn(admitted', new) = {old}
      BY <1>2, <1>4, <1>8 DEF OlderIn, ReadmittedAs, Task
    <2>3. ASSUME NEW u \in Tasks \ {new} PROVE ChainIn(admitted', u) = ChainIn(admitted, u)
      <3>1. new \notin ChainIn(admitted, u)
        BY <1>2, <1>4, OpenTask, ChainIsChainIn DEF LedgerFits
      <3> QED
        BY <1>2, <2>1, <2>2, <3>1, ChainUntouched
    <2>4. ChainIn(admitted', new) = {new} \cup ChainIn(admitted', old)
      BY <1>2, <2>2, ChainOfNext
    <2> QED
      BY <1>2, <1>4, <2>3, <2>4, ChainIsChainIn
  <1>10. \A q \in Existing : Task(q) \in Tasks \ {new}
    <2> SUFFICES ASSUME NEW q \in Existing, Task(q) = new PROVE FALSE
      BY DEF Existing, Runs, Task
    <2>1. q[2] >= 1 /\ q[2] <= Attempts(new)
      BY DEF Existing, Runs, Attempts
    <2> QED
      BY <1>4, <2>1 DEF Existing, Runs
  <1>11. /\ \A u \in Tasks \ {new} : ChainRuns(u)' = ChainRuns(u)
         /\ ChainRuns(new)' = ChainRuns(old)
    BY <1>6, <1>9, <1>10 DEF ChainRuns, Task
  <1>12. \A p, q \in Existing : Before(p, q)' <=> Before(p, q)
    BY <1>9, <1>10 DEF Before, Task
  <1>13. ActiveIsLatest' /\ DirtyIsBlocked'
    <2>1. ASSUME NEW q \in Existing, Run(q).state = "ACTIVE"
          PROVE  q = Latest(Task(q)) /\ status'[Task(q)] = "IN_PROGRESS"
      <3>1. q = Latest(Task(q)) /\ status[Task(q)] = "IN_PROGRESS" /\ Task(q) \in Tasks \ {new}
        BY <1>10, <2>1 DEF LedgerFits, ActiveIsLatest
      <3> QED
        BY <1>3, <1>7, <3>1
    <2>2. ActiveIsLatest'
      BY <1>6, <2>1 DEF ActiveIsLatest, Task
    <2>3. \A u \in dirty_claim' : u \in Tasks \ {new, old} /\ status[u] = "BLOCKED"
      BY <1>1, <1>4 DEF LedgerFits, DirtyIsBlocked, TypeOK
    <2> QED
      BY <1>7, <2>2, <2>3 DEF DirtyIsBlocked
  <1>14. TasksFit'
    <2> SUFFICES ASSUME NEW u \in Tasks PROVE TaskFits(u)'
      BY DEF TasksFit
    <2>1. TaskFits(u)
      BY DEF LedgerFits, TasksFit
    <2>2. CASE u = new
      <3>1. Attempts(u)' = 0 /\ 0 <= load.max_attempts
        BY <1>2, <1>4, <1>6, <2>2 DEF Payloads
      <3> QED
        BY <1>2, <1>4, <1>5, <1>7, <1>8, <2>2, <3>1 DEF TaskFits
    <2>3. CASE u # new
      BY <1>6, <1>7, <1>8, <2>1, <2>3 DEF TaskFits
    <2> QED
      BY <2>2, <2>3
  <1>15. AdmissionsFit'
    <2>1. ASSUME NEW q \in Runs \ {prev}, admitted[q] # None
          PROVE  /\ AdmissionFits(q) /\ Task(q) # old /\ Task(q) \in Tasks \ {new}
                 /\ admitted[q].plan.task \in Tasks \ {new}
      <3>1. AdmissionFits(q) /\ Task(q) \in Tasks
        BY <2>1 DEF LedgerFits, AdmissionsFit, Runs, Task
      <3>2. Task(q) # old /\ Task(q) # new
        BY <1>3, <1>4, <3>1 DEF AdmissionFits
      <3>3. admitted[q].plan.payload # None
        BY <2>1, ReadmissionAssumption DEF TypeOK, Proofs, Plans
      <3> QED
        BY <1>2, <3>1, <3>2, <3>3 DEF AdmissionFits
    <2> SUFFICES ASSUME NEW p \in Runs, admitted'[p] # None PROVE AdmissionFits(p)'
      BY DEF AdmissionsFit
    <2>2. CASE p = prev
      <3>1. \A q \in Runs \ {p} : admitted'[q] # None =>
              Task(q) # Task(p) /\ admitted'[q].plan.task # admitted'[p].plan.task
        BY <1>7, <2>1, <2>2
      <3>2. p \in Existing /\ p = Latest(Task(p)) /\ status'[Task(p)] = "CANCELLED"
        BY <1>2, <1>3, <1>7, <2>2
      <3>3. /\ admitted'[p].plan.task = new /\ payload'[new] = admitted'[p].plan.payload
            /\ admitted'[p].commit = proof.commit
        BY <1>7, <2>2
      <3> QED
        BY <1>2, <1>3, <1>4, <1>6, <2>2, <3>1, <3>2, <3>3 DEF AdmissionFits, Task
    <2>3. CASE p # prev
      <3>1. admitted'[p] = admitted[p] /\ admitted[p] # None
        BY <1>7, <2>3
      <3>2. /\ AdmissionFits(p) /\ Task(p) # old /\ Task(p) \in Tasks \ {new}
            /\ admitted[p].plan.task \in Tasks \ {new}
        BY <2>1, <2>3, <3>1
      <3>3. \A q \in Runs \ {p} : admitted'[q] # None =>
              Task(q) # Task(p) /\ admitted'[q].plan.task # admitted'[p].plan.task
        <4> SUFFICES ASSUME NEW q \in Runs \ {p}, admitted'[q] # None
                     PROVE  Task(q) # Task(p) /\ admitted'[q].plan.task # admitted'[p].plan.task
          OBVIOUS
        <4>1. CASE q = prev
          BY <1>7, <3>1, <3>2, <4>1
        <4>2. CASE q # prev
          BY <1>7, <3>1, <3>2, <4>2 DEF AdmissionFits
        <4> QED
          BY <4>1, <4>2
      <3>4. /\ status'[Task(p)] = "CANCELLED"
            /\ payload'[admitted[p].plan.task] = payload[admitted[p].plan.task]
        BY <1>7, <3>2 DEF AdmissionFits
      <3> QED
        BY <1>6, <3>1, <3>2, <3>3, <3>4 DEF AdmissionFits, Task
    <2> QED
      BY <2>2, <2>3
  <1>16. FeedbackHasLast'
    <2>1. \A u \in Tasks : WithFeedback(u)' = WithFeedback(u)
      BY <1>6 DEF WithFeedback, Task
    <2> QED
      BY <2>1 DEF LedgerFits, FeedbackHasLast
  <1>17. BudgetsKept'
    <2> SUFFICES ASSUME NEW u \in Tasks PROVE BudgetLeft(u)'
      BY DEF BudgetsKept
    <2>1. First \in Tasks \ {new} /\ payload'[First] = payload[First]
      BY <1>4, <1>7, ReadmissionAssumption
    <2>2. CASE u = new
      <3>1. BudgetLeft(old) /\ payload[old] # None
        BY <1>2, <1>4 DEF LedgerFits, BudgetsKept
      <3>2. Attempts(u)' = 0 /\ payload'[u] = load /\ ChainRuns(u)' = ChainRuns(old)
        BY <1>4, <1>6, <1>7, <1>11, <2>2
      <3>3. /\ load.max_attempts \in Nat /\ payload[old].max_attempts \in Nat
            /\ payload[First].max_attempts \in Nat /\ Attempts(old) \in Nat
            /\ Cardinality(ChainRuns(old)) \in Nat
        <4>1. payload[First] \in Payloads
          BY <2>1 DEF LedgerFits, TasksFit, TaskFits, TypeOK
        <4>2. Attempts(old) \in Nat
          BY <1>2, LenProperties DEF Attempts, TypeOK
        <4> QED
          BY <1>2, <1>4, <3>1, <4>1, <4>2, FS_CardinalityType DEF Payloads, BudgetLeft
      <3>4. Cardinality(ChainRuns(old)) + load.max_attempts - 0 <= payload[First].max_attempts
        BY <1>5, <3>1, <3>3 DEF BudgetLeft
      <3> QED
        BY <2>1, <3>1, <3>2, <3>4 DEF BudgetLeft
    <2>3. CASE u # new
      <3>1. BudgetLeft(u) /\ payload'[u] = payload[u] /\ ChainRuns(u)' = ChainRuns(u)
        BY <1>7, <1>11, <2>3 DEF LedgerFits, BudgetsKept
      <3> QED
        BY <1>6, <2>1, <3>1 DEF BudgetLeft
    <2> QED
      BY <2>2, <2>3
  <1>18. StandsOnDependency'
    <2> SUFFICES ASSUME NEW q \in Existing, NEW p \in Runs, admitted'[p] # None,
                        admitted'[p].plan.task = Task(q)
                 PROVE  /\ Run(q).claim_git_head = admitted'[p].commit
                        /\ Parent[Run(q).claim_git_head] = Run(p).claim_git_head
      BY <1>6 DEF StandsOnDependency, Task
    <2>1. p # prev
      BY <1>7, <1>10
    <2> QED
      BY <1>7, <2>1 DEF LedgerFits, StandsOnDependency
  <1>19. CarriesLatestFeedback'
    <2> SUFFICES ASSUME NEW q \in Existing, NEW x, x = Run(q).previous
                 PROVE  LET later == {p \in Existing : Run(p).state = "NEEDS_FIX" /\ Before(p, q)'}
                        IN  IF later = {} THEN x = NoRun
                            ELSE x \in later /\ \A p \in later \ {x} : Before(p, x)'
      BY <1>6 DEF CarriesLatestFeedback
    <2> DEFINE earlier == {p \in Existing : Run(p).state = "NEEDS_FIX" /\ Before(p, q)}
               later == {p \in Existing : Run(p).state = "NEEDS_FIX" /\ Before(p, q)'}
    <2>1. later = earlier /\ earlier \subseteq Existing
      BY <1>12
    <2>2. IF earlier = {} THEN x = NoRun
          ELSE x \in earlier /\ \A p \in earlier \ {x} : Before(p, x)
      BY DEF LedgerFits, CarriesLatestFeedback
    <2> HIDE DEF earlier, later
    <2> QED
      BY <1>12, <2>1, <2>2 DEF later
  <1>20. RetriesAreReviewed'
    <2>1. ReviewsRetries' <=> ReviewsRetries
      BY <1>4, <1>7, ReadmissionAssumption DEF ReviewsRetries
    <2> SUFFICES ASSUME NEW q \in Existing, Run(q).state = "COMPLETE",
                        NEW p \in Existing, Before(p, q)', Task(q) # First \/ ReviewsRetries
                 PROVE  Run(q).review_status = "PASS"
      BY <1>6, <2>1 DEF RetriesAreReviewed
    <2> QED
      BY <1>12 DEF LedgerFits, RetriesAreReviewed
  <1> QED
    BY <1>2, <1>4, <1>6, <1>13, <1>14, <1>15, <1>16, <1>17, <1>18, <1>19, <1>20 DEF LedgerFits
-----------------------------------------------------------------------------
(* The feedback of a task depends on its rejected runs and on its readmission alone.     *)
LastOf(S) == CHOOSE r \in S : \A q \in S : q[2] <= r[2]
AnyOf(S) == CHOOSE r \in S : TRUE

LEMMA PreviousFrame ==
  ASSUME UNCHANGED <<runs, admitted>>, NEW t \in Tasks
  PROVE  PreviousRun(t)' = PreviousRun(t)
  <1>1. WithFeedback(t)' = WithFeedback(t) /\ ReadmittedAs(t)' = ReadmittedAs(t)
    BY ChainFrame
  <1>2. PreviousRun(t) = IF WithFeedback(t) # {} THEN LastOf(WithFeedback(t))
                         ELSE IF ReadmittedAs(t) # {} THEN AnyOf(ReadmittedAs(t)) ELSE NoRun
    BY DEF PreviousRun, LastOf, AnyOf
  <1>3. PreviousRun(t)' = IF WithFeedback(t)' # {} THEN LastOf(WithFeedback(t)')
                          ELSE IF ReadmittedAs(t)' # {} THEN AnyOf(ReadmittedAs(t)') ELSE NoRun
    BY DEF PreviousRun, LastOf, AnyOf
  <1> QED
    BY <1>1, <1>2, <1>3

(* While a transaction is open the ledger is what its guards saw.                     *)
LEMMA TxnFramed ==
  ASSUME TxnFits, UNCHANGED <<ledger, txn>>
  PROVE  TxnFits'
  <1>1. /\ Existing' = Existing
        /\ \A t \in Tasks : /\ ReadmittedAs(t)' = ReadmittedAs(t)
                            /\ WithFeedback(t)' = WithFeedback(t)
    BY ChainFrame DEF ledger
  <1>2. \A t \in Tasks : PreviousRun(t)' = PreviousRun(t) /\ Attempts(t)' = Attempts(t)
    BY PreviousFrame DEF ledger, Attempts
  <1>3. ClaimFits => ClaimFits'
    BY <1>1, <1>2 DEF ClaimFits, BaseMatches, ledger
  <1>4. ReadmitFits => ReadmitFits'
    BY <1>1 DEF ReadmitFits, ledger
  <1> QED
    BY <1>3, <1>4 DEF TxnFits, ledger

(* A step that leaves the ledger, the answers and the transaction alone.                *)
LEMMA LedgerFrame ==
  ASSUME ReadmissionInv, UNCHANGED <<ledger, answers>>, TypeOK', TxnFits'
  PROVE  ReadmissionInv'
  <1>1. LedgerFits'
    BY StatusKeeps DEF ReadmissionInv, ledger, LedgerFits, DirtyIsBlocked
  <1>2. AnswersAgree'
    BY DEF ReadmissionInv, AnswersAgree, ledger
  <1> QED
    BY <1>1, <1>2 DEF ReadmissionInv

(* A step outside transactions that takes tasks neither in progress nor cancelled to       *)
(* another status.                                                                    *)
LEMMA StatusFrame ==
  ASSUME ReadmissionInv,
         UNCHANGED <<payload, runs, capability, published, admitted, answers, trees>>,
         NEW t \in Tasks, status[t] \in READY_TASK_STATES \cup {"BLOCKED"},
         NEW s \in {"BLOCKED", "CANCELLED"}, status' = [status EXCEPT ![t] = s],
         dirty_claim' \subseteq dirty_claim \cup {t},
         s = "CANCELLED" => t \notin dirty_claim', txn' = Idle
  PROVE  ReadmissionInv'
  <1>1. status' \in [Tasks -> {"ABSENT", "PLANNED", "IN_PROGRESS", "NEEDS_FIX", "BLOCKED",
                              "CANCELLED", "DONE"}]
    BY DEF ReadmissionInv, TypeOK
  <1>2. Existing' = Existing
    BY ChainFrame
  <1>3. \A u \in Tasks : (status'[u] = "ABSENT" <=> payload'[u] = None)
    BY DEF ReadmissionInv, TypeOK, READY_TASK_STATES
  <1>4. TypeOK'
    BY <1>1, <1>2, <1>3 DEF ReadmissionInv, TypeOK, trees, Idle
  <1>5. DirtyIsBlocked'
    BY DEF ReadmissionInv, LedgerFits, DirtyIsBlocked, TypeOK
  <1>6. LedgerFits'
    BY <1>5, StatusKeeps DEF ReadmissionInv, TypeOK, READY_TASK_STATES
  <1>7. TxnFits' /\ AnswersAgree'
    BY DEF ReadmissionInv, TxnFits, Idle, AnswersAgree
  <1> QED
    BY <1>4, <1>6, <1>7 DEF ReadmissionInv

(* A claim, opened, refused or inserted.                                             *)
LEMMA ClaimSteps ==
  ASSUME ReadmissionInv, ClaimStep
  PROVE  ReadmissionInv'
  <1>1. ASSUME NEW t \in Tasks, NEW prior \in Existing \cup {NoRun}, ClaimBegin(t, prior)
        PROVE  ReadmissionInv'
    <2>1. /\ UNCHANGED <<ledger, capability, answers, trees>> /\ Selectable(t, prior)
          /\ TreeGuard(t, prior) /\ BaseMatches(t, head[At(t)])
          /\ txn' = [op |-> "claim", task |-> t, prior |-> prior, head |-> head[At(t)],
                     previous |-> PreviousRun(t)]
      BY <1>1 DEF ClaimBegin
    <2>2. Existing' = Existing /\ PreviousRun(t)' = PreviousRun(t)
      BY <2>1, ChainFrame, PreviousFrame DEF ledger
    <2>3. TypeOK'
      BY <2>1, <2>2 DEF ReadmissionInv, TypeOK, ledger, trees
    <2>4. payload[t] # None /\ payload[t] \in Payloads /\ head[At(t)] \in Commits
      BY <2>1 DEF ReadmissionInv, TypeOK, Selectable, At, Payloads
    <2>5. Attempts(t) < payload[t].max_attempts
      BY <2>1 DEF Selectable
    <2>6. prior = NoRun => status[t] \in READY_TASK_STATES
      BY <2>1 DEF Selectable
    <2>7. prior # NoRun => status[t] \in {"NEEDS_FIX", "BLOCKED"}
      BY <2>1 DEF TreeGuard, RepairGuard, ReadmissionInv, LedgerFits, DirtyIsBlocked
    <2>8. ClaimFits'
      <3>1. BaseMatches(t, head[At(t)])' /\ Attempts(t)' = Attempts(t)
        BY <2>1 DEF BaseMatches, ledger, ReadmittedAs, trees, At, Attempts
      <3>2. txn'.head = head[At(t)] /\ BaseMatches(t, txn.head)'
        BY <2>1, <3>1 DEF BaseMatches, ledger, trees, At, ReadmittedAs
      <3> QED
        BY <2>1, <2>2, <2>4, <2>5, <2>6, <2>7, <3>1, <3>2
           DEF ClaimFits, ledger, READY_TASK_STATES
    <2>9. TxnFits'
      BY <2>1, <2>8 DEF TxnFits
    <2> QED
      BY <2>1, <2>3, <2>9, LedgerFrame
  <1>2. ASSUME NEW t \in Tasks, ClaimBlocked(t) \/ ClaimExhausted(t)
        PROVE  ReadmissionInv'
    <2>1. /\ Block(t) /\ status[t] \in READY_TASK_STATES /\ txn' = Idle
          /\ dirty_claim' \subseteq dirty_claim \cup {t}
      BY <1>2 DEF ClaimBlocked, ClaimExhausted, Selectable
    <2> QED
      BY <2>1, StatusFrame DEF Block
  <1>3. ASSUME ClaimCommit
        PROVE  ReadmissionInv'
    <2> SUFFICES ASSUME NEW t, t = txn.task, NEW n, n = Attempts(t), NEW r, r = <<t, n + 1>>
                 PROVE  ReadmissionInv'
      OBVIOUS
    <2>1. /\ LedgerFits' /\ runs' \in [Tasks -> Seq(RunRows)] /\ Existing' = Existing \cup {r}
      BY <1>3, ClaimCommitKeeps DEF ReadmissionInv
    <2>2. /\ status' = [status EXCEPT ![t] = "IN_PROGRESS"] /\ dirty_claim' \subseteq dirty_claim
          /\ capability' = capability \cup {r} /\ txn' = Idle
          /\ UNCHANGED <<payload, published, admitted, answers, trees>>
      BY <1>3 DEF ClaimCommit
    <2>3. t \in Tasks /\ payload[t] # None
      BY <1>3 DEF ClaimCommit, ReadmissionInv, TxnFits, ClaimFits
    <2>4. TypeOK'
      BY <2>1, <2>2, <2>3 DEF ReadmissionInv, TypeOK, trees, Idle
    <2>5. TxnFits' /\ AnswersAgree'
      BY <2>2 DEF ReadmissionInv, TxnFits, Idle, AnswersAgree
    <2> QED
      BY <2>1, <2>4, <2>5 DEF ReadmissionInv
  <1>4. ASSUME ClaimDrift
        PROVE  ReadmissionInv'
    <2>1. CASE txn.prior = NoRun
      BY <1>4, <2>1, StatusFrame DEF ClaimDrift, ReadmissionInv, TxnFits, ClaimFits, Block
    <2>2. CASE txn.prior # NoRun
      <3>1. UNCHANGED <<ledger, capability, answers, trees>> /\ txn' = Idle
        BY <1>4, <2>2 DEF ClaimDrift
      <3>2. Existing' = Existing
        BY <3>1, ChainFrame DEF ledger
      <3>3. TypeOK' /\ TxnFits'
        BY <3>1, <3>2 DEF ReadmissionInv, TypeOK, ledger, trees, Idle, TxnFits
      <3> QED
        BY <3>1, <3>3, LedgerFrame
    <2> QED
      BY <2>1, <2>2
  <1> QED
    BY <1>1, <1>2, <1>3, <1>4 DEF ClaimStep

(* Another attempt at the first task, if its policy reviews retries, or an attempt at     *)
(* work a readmission continued, needs a review.                                        *)
LEMMA RetryNeedsReview ==
  ASSUME ReadmissionInv, NEW r \in Existing, NEW q \in Existing, Before(q, r),
         NEW signal \in BOOLEAN, Task(r) # First \/ ReviewsRetries
  PROVE  ReviewRequired(Task(r), r[2], signal)
  <1>1. /\ Task(r) \in Tasks /\ Task(q) \in Tasks /\ q[2] \in Nat \ {0} /\ r[2] \in Nat
        /\ Attempts(Task(r)) >= 1
    BY LenProperties DEF Existing, Runs, Task, Attempts, ReadmissionInv, TypeOK
  <1>2. TaskFits(Task(r)) /\ payload[Task(r)] # None /\ payload[Task(r)].mode \in {"risk_based", "required"}
    BY <1>1 DEF ReadmissionInv, LedgerFits, TasksFit, TaskFits, TypeOK, Payloads, Modes
  <1>3. CASE Task(q) = Task(r) /\ q[2] < r[2]
    <2>1. CASE Task(r) # First
      BY <1>2, <2>1 DEF TaskFits, ReviewRequired
    <2>2. CASE Task(r) = First
      BY <1>1, <1>2, <1>3, <2>2 DEF ReviewRequired, ReviewsRetries
    <2> QED
      BY <2>1, <2>2
  <1>4. CASE Task(q) # Task(r) /\ Task(q) \in Chain(Task(r))
    <2>1. Task(r) # First
      <3>1. SUFFICES ASSUME Task(r) = First PROVE FALSE
        OBVIOUS
      <3>2. ReadmittedAs(Task(r)) = {}
        BY <1>2, <3>1 DEF TaskFits
      <3>3. OlderIn(admitted, Task(r)) = {}
        BY <3>2 DEF OlderIn, ReadmittedAs
      <3> QED
        BY <1>1, <1>4, <3>3, ChainOfFirst, ChainIsChainIn
    <2> QED
      BY <1>2, <2>1 DEF TaskFits, ReviewRequired
  <1> QED
    BY <1>3, <1>4 DEF Before

LEMMA RunEnds ==
  ASSUME ReadmissionInv, NEW r \in Existing, Run(r).state = "ACTIVE",
         NEW run \in RunRows, run.state # "ACTIVE",
         run.claim_git_head = Run(r).claim_git_head, run.previous = Run(r).previous,
         run.state = "COMPLETE" /\ (\E q \in Existing : Before(q, r))
           /\ (Task(r) # First \/ ReviewsRetries) => run.review_status = "PASS",
         NEW s \in {"NEEDS_FIX", "BLOCKED", "DONE"}, End(r, run, s),
         UNCHANGED <<head, moves>>, tree' \in [Workspaces -> Runs \cup {Clean, Edited}]
  PROVE  ReadmissionInv'
  <1>1. /\ txn' = txn /\ txn = Idle /\ capability' \subseteq capability
        /\ runs' = [runs EXCEPT ![Task(r)][r[2]] = run]
        /\ status' = [status EXCEPT ![Task(r)] = s]
        /\ UNCHANGED <<payload, dirty_claim, published, admitted, answers>>
    BY DEF End
  <1>2. LedgerFits' /\ runs' \in [Tasks -> Seq(RunRows)] /\ Existing' = Existing
    BY <1>1, EndKeeps DEF ReadmissionInv
  <1>3. status[Task(r)] = "IN_PROGRESS" /\ Task(r) \in Tasks
    BY DEF ReadmissionInv, LedgerFits, ActiveIsLatest, Existing, Runs, Task
  <1>4. \A t \in Tasks : (status'[t] = "ABSENT" <=> payload'[t] = None)
    BY <1>1, <1>3 DEF ReadmissionInv, TypeOK
  <1>5. TypeOK'
    BY <1>1, <1>2, <1>4 DEF ReadmissionInv, TypeOK
  <1>6. TxnFits' /\ AnswersAgree'
    BY <1>1 DEF ReadmissionInv, TxnFits, Idle, AnswersAgree
  <1> QED
    BY <1>2, <1>5, <1>6 DEF ReadmissionInv

LEMMA RunSteps ==
  ASSUME ReadmissionInv, RunStep
  PROVE  ReadmissionInv'
  <1>1. ASSUME NEW r \in Existing PROVE Run(r) \in RunRows /\ r \in Runs
    BY LenProperties DEF Existing, Runs, Task, Run, ReadmissionInv, TypeOK
  <1>2. tree \in [Workspaces -> Runs \cup {Clean, Edited}]
    BY DEF ReadmissionInv, TypeOK
  <1>3. ASSUME NEW r \in Existing, NEW verdict \in {"NEEDS_FIX", "BLOCKED"}, Reject(r, verdict)
        PROVE  ReadmissionInv'
    <2>1. PICK run : run = [Run(r) EXCEPT !.state = "NEEDS_FIX", !.verify_status = "PASS",
                                          !.review_status = verdict]
      OBVIOUS
    <2>2. /\ run \in RunRows /\ run.state = "NEEDS_FIX"
          /\ run.claim_git_head = Run(r).claim_git_head /\ run.previous = Run(r).previous
      BY <1>1, <2>1 DEF RunRows
    <2>3. /\ End(r, run, verdict) /\ Run(r).state = "ACTIVE" /\ UNCHANGED <<head, moves>>
          /\ tree' = [tree EXCEPT ![At(Task(r))] = r]
      BY <1>3, <2>1 DEF Reject, Active
    <2> QED
      BY <1>1, <1>2, <2>2, <2>3, RunEnds
  <1>4. ASSUME NEW r \in Existing, ChecksFail(r)
        PROVE  ReadmissionInv'
    <2>1. PICK run : run = [Run(r) EXCEPT !.state = "NEEDS_FIX", !.verify_status = "FAIL"]
      OBVIOUS
    <2>2. /\ run \in RunRows /\ run.state = "NEEDS_FIX"
          /\ run.claim_git_head = Run(r).claim_git_head /\ run.previous = Run(r).previous
      BY <1>1, <2>1 DEF RunRows
    <2>3. /\ End(r, run, "NEEDS_FIX") /\ Run(r).state = "ACTIVE" /\ UNCHANGED <<head, moves>>
          /\ tree' = [tree EXCEPT ![At(Task(r))] = Edited]
      BY <1>4, <2>1 DEF ChecksFail, Active
    <2> QED
      BY <1>1, <1>2, <2>2, <2>3, RunEnds
  <1>5. ASSUME NEW r \in Existing, NEW retry \in BOOLEAN, Abort(r, retry)
        PROVE  ReadmissionInv'
    <2>1. PICK run : run = [Run(r) EXCEPT !.state = "ABORTED"]
      OBVIOUS
    <2>2. /\ run \in RunRows /\ run.state = "ABORTED"
          /\ run.claim_git_head = Run(r).claim_git_head /\ run.previous = Run(r).previous
      BY <1>1, <2>1 DEF RunRows
    <2>3. /\ End(r, run, IF retry THEN "NEEDS_FIX" ELSE "BLOCKED") /\ Run(r).state = "ACTIVE"
          /\ UNCHANGED <<head, tree, moves>>
      BY <1>5, <2>1 DEF Abort, Active, trees
    <2> QED
      BY <1>1, <1>2, <2>2, <2>3, RunEnds
  <1>6. ASSUME NEW r \in Existing, NEW signal \in BOOLEAN, Finish(r, signal)
        PROVE  ReadmissionInv'
    <2>1. PICK verdict : verdict = IF ReviewRequired(Task(r), r[2], signal) THEN "PASS"
                                   ELSE Run(r).review_status
      OBVIOUS
    <2>2. PICK run : run = [Run(r) EXCEPT !.state = "COMPLETE", !.verify_status = "PASS",
                                          !.review_status = verdict]
      OBVIOUS
    <2>3. verdict \in {"NONE", "NEEDS_FIX", "BLOCKED", "PASS"}
      BY <1>1, <2>1 DEF RunRows
    <2>4. /\ run \in RunRows /\ run.state = "COMPLETE" /\ run.review_status = verdict
          /\ run.claim_git_head = Run(r).claim_git_head /\ run.previous = Run(r).previous
      BY <1>1, <2>2, <2>3 DEF RunRows
    <2>5. /\ End(r, run, "DONE") /\ Run(r).state = "ACTIVE" /\ UNCHANGED <<head, tree, moves>>
      BY <1>6, <2>1, <2>2 DEF Finish, Active, trees
    <2>6. (\E q \in Existing : Before(q, r)) /\ (Task(r) # First \/ ReviewsRetries)
            => run.review_status = "PASS"
      BY <2>1, <2>4, RetryNeedsReview
    <2> QED
      BY <1>1, <1>2, <2>4, <2>5, <2>6, RunEnds
  <1>7. ASSUME NEW t \in Tasks, CancelTask(t)
        PROVE  ReadmissionInv'
    BY <1>7, StatusFrame DEF CancelTask
  <1>8. ASSUME PruneCapabilities
        PROVE  ReadmissionInv'
    <2>1. UNCHANGED <<ledger, answers, txn, trees>> /\ capability' = {}
      BY <1>8 DEF PruneCapabilities
    <2>2. TypeOK'
      BY <2>1, ChainFrame DEF ReadmissionInv, TypeOK, ledger, trees
    <2> QED
      BY <2>1, <2>2, TxnFramed, LedgerFrame DEF ReadmissionInv
  <1>9. ASSUME NEW d \in Dependencies, PublishDependency(d)
        PROVE  ReadmissionInv'
    <2>1. /\ UNCHANGED <<payload, status, dirty_claim, runs, capability, admitted, answers, txn, trees>>
          /\ published' = published \cup {d} /\ txn = Idle
      BY <1>9 DEF PublishDependency
    <2>2. LedgerFits'
      BY <2>1, StatusKeeps DEF ReadmissionInv, LedgerFits, DirtyIsBlocked
    <2>3. TypeOK'
      BY <2>1, ChainFrame DEF ReadmissionInv, TypeOK, trees
    <2>4. TxnFits' /\ AnswersAgree'
      BY <2>1 DEF ReadmissionInv, TxnFits, Idle, AnswersAgree
    <2> QED
      BY <2>2, <2>3, <2>4 DEF ReadmissionInv
  <1> QED
    BY <1>3, <1>4, <1>5, <1>6, <1>7, <1>8, <1>9 DEF RunStep

(* A readmission: checked, recorded, refused or answered again.                        *)
LEMMA ReadmitSteps ==
  ASSUME ReadmissionInv, ReadmitStep
  PROVE  ReadmissionInv'
  <1>1. ASSUME NEW prev \in Existing, NEW d \in Dependencies, ReadmitBegin(prev, d)
        PROVE  ReadmissionInv'
    <2>1. PICK plan \in NewPlans :
            /\ Guard(prev, d, plan)
            /\ txn' = [op |-> "readmit", prev |-> prev, proof |-> Proof(prev, d, plan)]
      BY <1>1 DEF ReadmitBegin
    <2>2. UNCHANGED <<ledger, capability, answers, trees>> /\ admitted[prev] = None
      BY <1>1 DEF ReadmitBegin
    <2>3. plan \in Plans /\ payload[plan.task] = None
      BY DEF NewPlans
    <2>4. Remaining(Task(prev)) \in Nat
      <3>1. prev[1] \in Tasks /\ prev = Latest(Task(prev)) /\ prev[2] >= 1 /\ Task(prev) = prev[1]
        BY <2>1 DEF Existing, Runs, Guard, SourceGuard, RepairGuard, Task
      <3>2. /\ TaskFits(Task(prev)) /\ Attempts(Task(prev)) \in Nat \ {0}
        BY <3>1, LenProperties DEF ReadmissionInv, LedgerFits, TasksFit, TypeOK, Attempts, Latest
      <3>3. payload[Task(prev)] \in Payloads
        BY <3>1, <3>2 DEF TaskFits, ReadmissionInv, TypeOK
      <3> QED
        BY <3>2, <3>3 DEF TaskFits, Payloads, Remaining
    <2>5. Proof(prev, d, plan) \in Proofs /\ Proof(prev, d, plan).plan = plan
      BY <2>3, <2>4, ReadmissionAssumption DEF Proof, Proofs
    <2>6. Existing' = Existing
      BY <2>2, ChainFrame DEF ledger
    <2>7. TypeOK'
      BY <2>1, <2>2, <2>6 DEF ReadmissionInv, TypeOK, ledger, trees
    <2>8. ReadmitFits'
      BY <2>1, <2>2, <2>3, <2>5, <2>6 DEF ReadmitFits, ledger
    <2>9. TxnFits'
      BY <2>1, <2>8 DEF TxnFits
    <2> QED
      BY <2>2, <2>7, <2>9, LedgerFrame
  <1>2. ASSUME ReadmitCommit
        PROVE  ReadmissionInv'
    <2> SUFFICES ASSUME NEW prev, prev = txn.prev, NEW proof, proof = txn.proof,
                        NEW old, old = Task(prev), NEW new, new = proof.plan.task,
                        NEW load, load = proof.plan.payload
                 PROVE  ReadmissionInv'
      OBVIOUS
    <2>1. /\ LedgerFits' /\ Existing' = Existing
          /\ old # new /\ new \in Tasks /\ old \in Tasks /\ load \in Payloads
          /\ prev \in Runs /\ proof \in Proofs /\ admitted[prev] = None
      BY <1>2, AdmitKeeps DEF ReadmissionInv
    <2>2. /\ payload' = [payload EXCEPT ![new] = load]
          /\ status' = [status EXCEPT ![new] = "PLANNED", ![old] = "CANCELLED"]
          /\ dirty_claim' \subseteq dirty_claim
          /\ admitted' = [admitted EXCEPT ![prev] = proof]
          /\ answers' \subseteq answers \cup
               {[prev |-> prev, dependency |-> proof.dependency, plan |-> proof.plan, result |-> proof]}
          /\ txn' = Idle /\ UNCHANGED <<runs, capability, published, trees>>
      BY <1>2 DEF ReadmitCommit, Answer
    <2>3. payload[old] # None /\ load # None
      <3>1. TaskFits(old) /\ prev \in Existing
        BY <1>2, <2>1 DEF ReadmissionInv, LedgerFits, TasksFit, TxnFits, ReadmitFits, ReadmitCommit
      <3>2. Attempts(old) # 0
        BY <3>1 DEF Existing, Runs, Attempts
      <3> QED
        BY <2>1, <3>1, <3>2, ReadmissionAssumption DEF TaskFits
    <2>4. \A t \in Tasks : (status'[t] = "ABSENT" <=> payload'[t] = None)
      BY <2>1, <2>2, <2>3 DEF ReadmissionInv, TypeOK
    <2>5. /\ admitted' \in [Runs -> Proofs \cup {None}]
          /\ answers' \subseteq [prev : Runs, dependency : Dependencies, plan : Plans, result : Proofs]
      BY <2>1, <2>2 DEF ReadmissionInv, TypeOK, Proofs
    <2>6. TypeOK'
      BY <2>1, <2>2, <2>4, <2>5 DEF ReadmissionInv, TypeOK, trees, Idle
    <2>7. AnswersAgree'
      <3> SUFFICES ASSUME NEW a \in answers'
                   PROVE  /\ admitted'[a.prev] = a.result
                          /\ a.result.plan = a.plan /\ a.result.dependency = a.dependency
        BY DEF AnswersAgree
      <3>1. CASE a \in answers
        <4>1. /\ admitted[a.prev] = a.result /\ a.result.plan = a.plan
              /\ a.result.dependency = a.dependency /\ a.result \in Proofs /\ a.prev \in Runs
          BY <3>1 DEF ReadmissionInv, AnswersAgree, TypeOK
        <4>2. a.prev # prev
          BY <2>1, <4>1, ReadmissionAssumption
        <4> QED
          BY <2>2, <4>1, <4>2 DEF ReadmissionInv, TypeOK
      <3>2. CASE a \notin answers
        <4>1. a = [prev |-> prev, dependency |-> proof.dependency, plan |-> proof.plan,
                   result |-> proof]
          BY <2>2, <3>2
        <4> QED
          BY <2>1, <2>2, <4>1 DEF ReadmissionInv, TypeOK
      <3> QED
        BY <3>1, <3>2
    <2>8. TxnFits'
      BY <2>2 DEF TxnFits, Idle
    <2> QED
      BY <2>1, <2>6, <2>7, <2>8 DEF ReadmissionInv
  <1>3. ASSUME ReadmitRefuse
        PROVE  ReadmissionInv'
    <2>1. UNCHANGED <<ledger, capability, answers, trees>> /\ txn' = Idle
      BY <1>3 DEF ReadmitRefuse
    <2>2. TypeOK' /\ TxnFits'
      BY <2>1, ChainFrame DEF ReadmissionInv, TypeOK, ledger, trees, Idle, TxnFits
    <2> QED
      BY <2>1, <2>2, LedgerFrame
  <1>4. ASSUME NEW prev \in Existing, NEW d \in Dependencies, ReadmitReplay(prev, d)
        PROVE  ReadmissionInv'
    <2>1. PICK plan \in Plans : /\ Replays(prev, d, plan)
                                /\ Answer(prev, d, plan, admitted[prev])
      BY <1>4 DEF ReadmitReplay
    <2>2. UNCHANGED <<ledger, capability, txn, trees>> /\ admitted[prev] # None
      BY <1>4 DEF ReadmitReplay
    <2>3. prev \in Runs /\ admitted[prev] \in Proofs
      BY <2>2 DEF ReadmissionInv, TypeOK, Existing
    <2>4. answers' = answers \cup {[prev |-> prev, dependency |-> d, plan |-> plan,
                                    result |-> admitted[prev]]}
      BY <2>1 DEF Answer
    <2>5. TypeOK'
      BY <2>2, <2>3, <2>4, ChainFrame DEF ReadmissionInv, TypeOK, ledger, trees
    <2>6. AnswersAgree'
      BY <2>1, <2>2, <2>4 DEF ReadmissionInv, AnswersAgree, Replays, ledger
    <2>7. LedgerFits'
      BY <2>2, StatusKeeps DEF ReadmissionInv, ledger, LedgerFits, DirtyIsBlocked
    <2> QED
      BY <2>2, <2>5, <2>6, <2>7, TxnFramed DEF ReadmissionInv
  <1> QED
    BY <1>1, <1>2, <1>3, <1>4 DEF ReadmitStep

LEMMA WorkspaceSteps ==
  ASSUME ReadmissionInv, WorkspaceStep
  PROVE  ReadmissionInv'
  <1>1. PICK w \in Workspaces :
          \/ \E content \in {Edited} \cup Existing : Edit(w, content)
          \/ \E c \in Commits : Checkout(w, c)
    BY DEF WorkspaceStep
  <1>2. /\ UNCHANGED <<ledger, capability, answers, txn>>
        /\ moves < MaxMoves /\ moves' = moves + 1
    BY <1>1 DEF Edit, Checkout, Move
  <1>3. tree' \in [Workspaces -> Runs \cup {Clean, Edited}] /\ head' \in [Workspaces -> Commits]
    BY <1>1 DEF Edit, Checkout, ReadmissionInv, TypeOK, Existing
  <1>4. moves' \in 0 .. MaxMoves
    BY <1>2, ReadmissionAssumption DEF ReadmissionInv, TypeOK
  <1>5. TypeOK'
    BY <1>2, <1>3, <1>4, ChainFrame DEF ReadmissionInv, TypeOK, ledger
  <1> QED
    BY <1>2, <1>5, TxnFramed, LedgerFrame DEF ReadmissionInv

LEMMA ReadmissionStep == ReadmissionInv /\ [Next]_vars => ReadmissionInv'
  <1> SUFFICES ASSUME ReadmissionInv, [Next]_vars PROVE ReadmissionInv'
    OBVIOUS
  <1>1. CASE Next
    BY <1>1, ClaimSteps, RunSteps, ReadmitSteps, WorkspaceSteps DEF Next
  <1>2. CASE UNCHANGED vars
    <2>1. UNCHANGED <<ledger, capability, answers, txn, trees>>
      BY <1>2 DEF vars
    <2>2. TypeOK'
      BY <2>1, ChainFrame DEF ReadmissionInv, TypeOK, ledger, trees
    <2> QED
      BY <2>1, <2>2, TxnFramed, LedgerFrame DEF ReadmissionInv
  <1> QED
    BY <1>1, <1>2

LEMMA ReadmissionInvariant == Spec => []ReadmissionInv
  <1> QED
    BY ReadmissionInit, ReadmissionStep, PTL DEF Spec

(* readmit: work moves at most once from a run, its last, to a task of its own; the task  *)
(* it leaves is cancelled for good, every run of the new task stands on the accepted       *)
(* commit, and a chain never has more runs than its first task was given attempts.        *)
THEOREM ReadmissionSoundHolds == Spec => []ReadmissionSound
  <1>1. ReadmissionInv => ReadmissionSound
    <2> SUFFICES ASSUME ReadmissionInv PROVE ReadmissionSound
      OBVIOUS
    <2>1. ReadmissionsFormChains
      BY DEF ReadmissionInv, LedgerFits, AdmissionsFit, AdmissionFits, ReadmissionsFormChains
    <2>2. ASSUME NEW t \in Tasks PROVE Cardinality(ChainRuns(t)) <= payload[First].max_attempts
      <3>1. BudgetLeft(t) /\ TaskFits(t) /\ First \in Tasks /\ TaskFits(First)
        BY ReadmissionAssumption DEF ReadmissionInv, LedgerFits, BudgetsKept, TasksFit
      <3>2. payload[First].max_attempts \in Nat \ {0} /\ Cardinality(ChainRuns(t)) \in Nat
        BY <3>1, FS_CardinalityType DEF TaskFits, BudgetLeft, ReadmissionInv, TypeOK, Payloads
      <3>3. CASE payload[t] # None
        <4>1. payload[t].max_attempts \in Nat /\ Attempts(t) \in Nat
              /\ Attempts(t) <= payload[t].max_attempts
          BY <3>1, <3>3, LenProperties DEF TaskFits, ReadmissionInv, TypeOK, Payloads, Attempts
        <4> QED
          BY <3>1, <3>2, <3>3, <4>1 DEF BudgetLeft
      <3>4. CASE payload[t] = None
        <4>1. ReadmittedAs(t) = {} /\ Attempts(t) = 0
          BY <3>1, <3>4 DEF TaskFits
        <4>2. Chain(t) = {t}
          <5>1. OlderIn(admitted, t) = {}
            BY <4>1 DEF OlderIn, ReadmittedAs
          <5> QED
            BY <5>1, ChainOfFirst, ChainIsChainIn
        <4>3. ChainRuns(t) = {}
          BY <4>1, <4>2 DEF ChainRuns, Existing, Runs, Attempts, Task
        <4> QED
          BY <3>2, <4>3, FS_EmptySet
      <3> QED
        BY <3>3, <3>4
    <2> QED
      BY <2>1, <2>2 DEF ReadmissionSound, ReadmissionInv, LedgerFits, ChainBudget
  <1> QED
    BY <1>1, ReadmissionInvariant, PTL

(* claim and import_review on readmitted work: the context of a run carries the latest     *)
(* feedback of its whole chain, no readmitted work completes without a passing review, and *)
(* no retry of the first task does if its policy reviews retries.                       *)
THEOREM RetriesKeepHistoryHolds == Spec => []RetriesKeepHistory
  <1>1. ReadmissionInv => RetriesKeepHistory
    BY DEF ReadmissionInv, LedgerFits, RetriesKeepHistory
  <1> QED
    BY <1>1, ReadmissionInvariant, PTL

(* readmit: every answer about a run, replays after lost answers included, is the recorded *)
(* admission and is about the plan and the dependency of its own request.                 *)
THEOREM AnswersAgreeHolds == Spec => []AnswersAgree
  <1>1. ReadmissionInv => AnswersAgree
    BY DEF ReadmissionInv
  <1> QED
    BY <1>1, ReadmissionInvariant, PTL
-----------------------------------------------------------------------------
(* Queue commands.  Nothing is registered, built or loaded yet.                         *)
LEMMA QueueInitFits == QueueInit => QueueInv
  <1> SUFFICES ASSUME QueueInit PROVE QueueInv
    OBVIOUS
  <1>1. /\ registry = {} /\ paused = {} /\ reports = {}
        /\ files = [v \in Revisions |-> NoEntry] /\ plans = [v \in Revisions |-> NoEntry]
        /\ tasks = [t \in QueueTasks |-> NoEntry] /\ root_head = [r \in Roots |-> 0]
        /\ cmd = [c \in Commands |-> NoCommand] /\ strays = {} /\ replaced = {}
    BY DEF QueueInit
  <1>2. QueueTypeOK
    BY <1>1, QueueAssumption DEF QueueTypeOK, NoCommand
  <1>3. RowsFit
    BY <1>1, <1>2 DEF RowsFit, TasksMatchPlans, Steps
  <1>4. StoresAgree
    BY <1>1 DEF StoresAgree, NoOrphanWork, OneProjectPerRoot, EnqueuedIsQueued, PlanFileKept,
                Unresolved, WorkOf
  <1>5. OneAtATime /\ \A c \in Commands : CommandFits(c)
    BY <1>1 DEF OneAtATime, CommandFits, AtStep, NoCommand
  <1> QED
    BY <1>3, <1>4, <1>5 DEF QueueInv, AloneFits

(* A step of a command: the others stay where they are, and are idle if it was alone.     *)
LEMMA GotoKeeps ==
  ASSUME cmd \in [Commands -> Steps], NEW c \in Commands, NEW to \in Steps, Goto(c, to)
  PROVE  /\ cmd' \in [Commands -> Steps] /\ cmd'[c] = to
         /\ \A d \in Commands \ {c} : cmd'[d] = cmd[d]
         /\ \A d \in Commands : cmd'[d].pc \in Places
         /\ ~overlapped' => /\ ~overlapped /\ OneAtATime'
                            /\ CommandFits(c)' => \A d \in Commands : CommandFits(d)'
  <1>1. /\ cmd' \in [Commands -> Steps] /\ cmd'[c] = to
        /\ \A d \in Commands \ {c} : cmd'[d] = cmd[d]
    BY DEF Goto
  <1>2. \A s \in Steps : s.pc \in Places
    BY DEF Steps, NoCommand, ProjectSteps, BuildSteps, PlanSteps, LoadSteps, Places
  <1>3. ASSUME ~overlapped'
        PROVE  ~overlapped /\ \A d \in Commands \ {c} : cmd'[d].pc = "idle"
    BY <1>1, <1>3 DEF Goto, Meets, AtStep
  <1>4. ~overlapped' => OneAtATime'
    BY <1>3 DEF OneAtATime, AtStep
  <1>5. ASSUME ~overlapped', CommandFits(c)', NEW d \in Commands PROVE CommandFits(d)'
    <2>1. CASE d = c
      BY <1>5, <2>1
    <2>2. CASE d # c
      BY <1>3, <1>5, <2>2 DEF CommandFits, AtStep
    <2> QED
      BY <2>1, <2>2
  <1> QED
    BY <1>1, <1>2, <1>3, <1>4, <1>5

(* A step of a command that leaves the rows of the ledger alone.                          *)
LEMMA RowsFrame ==
  ASSUME RowsFit, NEW c \in Commands, NEW to \in Steps, Goto(c, to),
         UNCHANGED <<root_head, plans, tasks, reports, strays>>,
         registry' \subseteq Projects, paused' \subseteq Projects, replaced' \subseteq Revisions,
         files' \in [Revisions -> Contents \cup {NoEntry}]
  PROVE  RowsFit'
  <1>1. /\ cmd' \in [Commands -> Steps]
        /\ \A d \in Commands : cmd'[d].pc \in Places
    BY GotoKeeps DEF RowsFit
  <1>2. QueueTypeOK'
    BY <1>1 DEF RowsFit, QueueTypeOK, Places
  <1>3. TasksMatchPlans'
    BY DEF RowsFit, TasksMatchPlans
  <1> QED
    BY <1>1, <1>2, <1>3 DEF RowsFit

(* The stores are read by the promises about serial commands, as are two histories.       *)
LEMMA StoresFrame ==
  ASSUME StoresAgree, UNCHANGED <<registry, plans, tasks, reports, files, histories>>
  PROVE  StoresAgree'
  BY DEF StoresAgree, NoOrphanWork, OneProjectPerRoot, EnqueuedIsQueued, PlanFileKept,
         Unresolved, WorkOf, histories

(* A revision that was answered for is loaded.                                          *)
LEMMA AnsweredIsLoaded ==
  ASSUME QueueInv, StoresAgree, NEW r \in reports
  PROVE  r.revision \in Revisions /\ r.task \in QueueTasks /\ plans[r.revision] # NoEntry
  BY DEF QueueInv, RowsFit, QueueTypeOK, Reports, StoresAgree, EnqueuedIsQueued

(* orch project add and remove.                                                        *)
LEMMA ProjectCommands ==
  ASSUME QueueInv, NEW c \in Commands, NEW p \in Projects,
         \/ \E b \in BOOLEAN : AddCheck(c, p, b)
         \/ RemoveGuard(c, p) \/ AddWrite(c) \/ RemoveUnlink(c) \/ RemoveRecord(c)
         \/ Crash(c)
  PROVE  QueueInv'
  <1>1. /\ cmd[c] \in Steps /\ cmd \in [Commands -> Steps]
        /\ registry \subseteq Projects /\ paused \subseteq Projects
        /\ files \in [Revisions -> Contents \cup {NoEntry}] /\ replaced \subseteq Revisions
    BY DEF QueueInv, RowsFit, QueueTypeOK
  <1>2. ASSUME cmd[c].pc \in {"add", "remove", "record"}
        PROVE  cmd[c] \in ProjectSteps /\ cmd[c].project \in Projects
    BY <1>1, <1>2 DEF Steps, NoCommand, ProjectSteps, BuildSteps, PlanSteps, LoadSteps
  <1>3. NoCommand \in Steps /\ NoCommand.pc = "idle"
    BY DEF Steps, NoCommand
  <1>4. ASSUME NEW b \in BOOLEAN, AddCheck(c, p, b)
        PROVE  QueueInv'
    <2>1. PICK to : to = [pc |-> "add", project |-> p]
      OBVIOUS
    <2>2. to \in Steps /\ to.pc = "add" /\ to.project = p
      BY <2>1 DEF Steps, ProjectSteps
    <2>3. /\ Goto(c, to) /\ UNCHANGED <<registry, root_head, files, queue_rows, reports, histories>>
          /\ ~RootTaken(p)
      BY <1>4, <2>1 DEF AddCheck
    <2>4. RowsFit'
      BY <1>1, <2>2, <2>3, RowsFrame DEF QueueInv, queue_rows, histories
    <2>5. StoresAgree => StoresAgree'
      BY <2>3, StoresFrame DEF queue_rows
    <2>6. CommandFits(c)'
      BY <1>1, <2>2, <2>3, GotoKeeps DEF CommandFits, AtStep, RootTaken
    <2> QED
      BY <1>1, <2>2, <2>3, <2>4, <2>5, <2>6, GotoKeeps DEF QueueInv, AloneFits
  <1>5. ASSUME RemoveGuard(c, p)
        PROVE  QueueInv'
    <2>1. PICK to : to = [pc |-> "remove", project |-> p]
      OBVIOUS
    <2>2. to \in Steps /\ to.pc = "remove" /\ to.project = p
      BY <2>1 DEF Steps, ProjectSteps
    <2>3. /\ Goto(c, to) /\ UNCHANGED <<registry, root_head, files, queue_rows, reports, histories>>
          /\ Unresolved(p) = {}
      BY <1>5, <2>1 DEF RemoveGuard, RemovalBlocked
    <2>4. RowsFit'
      BY <1>1, <2>2, <2>3, RowsFrame DEF QueueInv, queue_rows, histories
    <2>5. StoresAgree => StoresAgree'
      BY <2>3, StoresFrame DEF queue_rows
    <2>6. CommandFits(c)'
      BY <1>1, <2>2, <2>3, GotoKeeps DEF CommandFits, AtStep, Unresolved, WorkOf, queue_rows
    <2> QED
      BY <1>1, <2>2, <2>3, <2>4, <2>5, <2>6, GotoKeeps DEF QueueInv, AloneFits
  <1>6. ASSUME AddWrite(c)
        PROVE  QueueInv'
    <2>1. /\ Goto(c, NoCommand) /\ UNCHANGED <<root_head, files, queue_rows, reports, histories>>
          /\ registry' = registry \cup {cmd[c].project} /\ cmd[c].pc = "add"
          /\ cmd[c].project \in Projects
      BY <1>2, <1>6 DEF AddWrite, AtStep
    <2>2. RowsFit'
      BY <1>1, <1>3, <2>1, RowsFrame DEF QueueInv, queue_rows, histories
    <2>3. StoresAgree /\ CommandFits(c) => StoresAgree'
      BY <2>1 DEF StoresAgree, NoOrphanWork, OneProjectPerRoot, EnqueuedIsQueued, PlanFileKept,
                  Unresolved, WorkOf, queue_rows, histories, CommandFits, AtStep
    <2>4. CommandFits(c)'
      BY <1>1, <1>3, <2>1, GotoKeeps DEF CommandFits, AtStep
    <2> QED
      BY <1>1, <1>3, <2>1, <2>2, <2>3, <2>4, GotoKeeps DEF QueueInv, AloneFits
  <1>7. ASSUME RemoveUnlink(c), cmd[c].project \in registry
        PROVE  QueueInv'
    <2>1. PICK to : to = [cmd[c] EXCEPT !.pc = "record"]
      OBVIOUS
    <2>2. to \in Steps /\ to.pc = "record" /\ cmd[c].pc = "remove"
      BY <1>2, <1>7, <2>1 DEF RemoveUnlink, AtStep, Steps, ProjectSteps
    <2>3. /\ Goto(c, to) /\ UNCHANGED <<root_head, files, queue_rows, reports, histories>>
          /\ registry' = registry \ {cmd[c].project}
      BY <1>7, <2>1 DEF RemoveUnlink
    <2>4. RowsFit'
      BY <1>1, <2>2, <2>3, RowsFrame DEF QueueInv, queue_rows, histories
    <2>5. StoresAgree /\ CommandFits(c) => StoresAgree'
      <3>1. \A q : Unresolved(q)' = Unresolved(q)
        BY <2>3 DEF Unresolved, WorkOf, queue_rows
      <3> QED
        BY <2>2, <2>3, <3>1 DEF StoresAgree, NoOrphanWork, OneProjectPerRoot, EnqueuedIsQueued,
                                PlanFileKept, queue_rows, histories, CommandFits, AtStep
    <2>6. CommandFits(c)'
      BY <1>1, <2>2, <2>3, GotoKeeps DEF CommandFits, AtStep
    <2> QED
      BY <1>1, <2>2, <2>3, <2>4, <2>5, <2>6, GotoKeeps DEF QueueInv, AloneFits
  <1>8. ASSUME \/ RemoveUnlink(c) /\ cmd[c].project \notin registry
               \/ RemoveRecord(c) \/ Crash(c)
        PROVE  QueueInv'
    <2>1. /\ Goto(c, NoCommand)
          /\ UNCHANGED <<registry, root_head, files, plans, tasks, reports, histories>>
          /\ paused' \subseteq paused
      BY <1>8 DEF RemoveUnlink, RemoveRecord, Crash, queue_rows
    <2>2. RowsFit'
      BY <1>1, <1>3, <2>1, RowsFrame DEF QueueInv, histories
    <2>3. StoresAgree => StoresAgree'
      BY <2>1, StoresFrame
    <2>4. CommandFits(c)'
      BY <1>1, <1>3, <2>1, GotoKeeps DEF CommandFits, AtStep
    <2> QED
      BY <1>1, <1>3, <2>1, <2>2, <2>3, <2>4, GotoKeeps DEF QueueInv, AloneFits
  <1> QED
    BY <1>4, <1>5, <1>6, <1>7, <1>8

(* A command that goes on to a place where it relies on nothing, or on the project it     *)
(* found registered, and leaves the stores alone.                                      *)
LEMMA CommandMoves ==
  ASSUME QueueInv, NEW c \in Commands, NEW to \in Steps, Goto(c, to),
         UNCHANGED <<registry, root_head, files, queue_rows, reports, histories>>,
         \/ to.pc \in {"idle", "binding", "build", "make", "output"}
         \/ to.pc = "exists" /\ to.content.project \in registry
  PROVE  QueueInv' /\ LoadedStays
  <1>1. /\ cmd \in [Commands -> Steps] /\ registry \subseteq Projects /\ paused \subseteq Projects
        /\ files \in [Revisions -> Contents \cup {NoEntry}] /\ replaced \subseteq Revisions
    BY DEF QueueInv, RowsFit, QueueTypeOK
  <1>2. RowsFit'
    BY <1>1, RowsFrame DEF QueueInv, queue_rows, histories
  <1>3. StoresAgree => StoresAgree'
    BY StoresFrame DEF queue_rows
  <1>4. CommandFits(c)'
    BY <1>1, GotoKeeps DEF CommandFits, AtStep
  <1>5. LoadedStays
    BY DEF LoadedStays, queue_rows
  <1> QED
    BY <1>1, <1>2, <1>3, <1>4, <1>5, GotoKeeps DEF QueueInv, AloneFits

(* build_single_task_plan, in queue enqueue and in make-plan.                            *)
LEMMA PlanIsBuilt ==
  ASSUME QueueInv, NEW c \in Commands, cmd[c].pc \in {"build", "make"},
         NEW next \in {"exists", "output"}, Builds(c, cmd[c], next),
         UNCHANGED <<registry, root_head, files, queue_rows, reports, histories>>
  PROVE  QueueInv' /\ LoadedStays
  <1>1. cmd[c] \in BuildSteps
    BY DEF QueueInv, RowsFit, Steps, NoCommand, ProjectSteps, BuildSteps, PlanSteps, LoadSteps
  <1>2. PICK x : x = cmd[c]
    OBVIOUS
  <1>3. x \in BuildSteps /\ x.project \in Projects /\ x.task \in QueueTasks /\ x.revision \in Revisions
    BY <1>1, <1>2 DEF BuildSteps
  <1>4. root_head[Root(x.project)] \in 0 .. MaxHead
    BY <1>3 DEF QueueInv, RowsFit, QueueTypeOK, Root, Projects
  <1>5. PICK content : content = PlanFor(x)
    OBVIOUS
  <1>6. content \in Contents /\ content.project = x.project
    BY <1>3, <1>4, <1>5 DEF PlanFor, Contents
  <1>7. CASE x.project \notin registry
    <2>1. Goto(c, NoCommand) /\ NoCommand \in Steps /\ NoCommand.pc = "idle"
      BY <1>2, <1>7 DEF Builds, Steps, NoCommand
    <2> QED
      BY <2>1, CommandMoves
  <1>8. CASE x.project \in registry
    <2>1. PICK to : to = [pc |-> next, revision |-> x.revision, content |-> content,
                          created |-> FALSE,
                          binding |-> IF x.unresolved THEN "dynamic_at_verify" ELSE "admission_head"]
      OBVIOUS
    <2>2. to \in PlanSteps /\ to.pc = next /\ to.content = content
      BY <1>3, <1>6, <2>1 DEF PlanSteps, Bindings
    <2>3. Goto(c, to)
      BY <1>2, <1>5, <1>8, <2>1 DEF Builds
    <2> QED
      BY <1>6, <1>8, <2>2, <2>3, CommandMoves DEF Steps
  <1> QED
    BY <1>7, <1>8

(* orch queue enqueue and make-plan, up to their plan.                                   *)
LEMMA PlansBegin ==
  ASSUME QueueInv, NEW c \in Commands,
         \/ \E p \in Projects, t \in QueueTasks, rev \in Revisions :
              EnqueueBegin(c, p, t, rev) \/ MakePlanBegin(c, p, t, rev)
         \/ EnqueueBinding(c) \/ EnqueueBuild(c) \/ MakePlanBuild(c)
  PROVE  QueueInv' /\ LoadedStays
  <1>1. ASSUME NEW p \in Projects, NEW t \in QueueTasks, NEW rev \in Revisions,
               EnqueueBegin(c, p, t, rev) \/ MakePlanBegin(c, p, t, rev)
        PROVE  QueueInv' /\ LoadedStays
    <2>1. PICK pc \in {"binding", "make"} :
            Goto(c, [pc |-> pc, project |-> p, task |-> t, revision |-> rev,
                     unresolved |-> Unresolved(p) # {}, bind |-> Unresolved(p) = {}])
      BY <1>1 DEF EnqueueBegin, MakePlanBegin
    <2>2. PICK to : to = [pc |-> pc, project |-> p, task |-> t, revision |-> rev,
                          unresolved |-> Unresolved(p) # {}, bind |-> Unresolved(p) = {}]
      OBVIOUS
    <2>3. to \in Steps /\ to.pc = pc
      BY <2>2 DEF Steps, BuildSteps
    <2> QED
      BY <1>1, <2>1, <2>2, <2>3, CommandMoves DEF EnqueueBegin, MakePlanBegin
  <1>2. ASSUME EnqueueBinding(c)
        PROVE  QueueInv' /\ LoadedStays
    <2>1. cmd[c] \in BuildSteps
      BY <1>2 DEF EnqueueBinding, AtStep, QueueInv, RowsFit, Steps, NoCommand, ProjectSteps,
                  BuildSteps, PlanSteps, LoadSteps
    <2>2. PICK to : to = [cmd[c] EXCEPT !.pc = "build",
                            !.bind = IF files[cmd[c].revision] = NoEntry THEN cmd[c].bind
                                     ELSE files[cmd[c].revision].base # NoEntry]
      OBVIOUS
    <2>3. to \in BuildSteps /\ to.pc = "build"
      BY <2>1, <2>2 DEF BuildSteps
    <2>4. Goto(c, to)
      BY <1>2, <2>2 DEF EnqueueBinding
    <2> QED
      BY <1>2, <2>3, <2>4, CommandMoves DEF EnqueueBinding, Steps
  <1>3. ASSUME EnqueueBuild(c) \/ MakePlanBuild(c)
        PROVE  QueueInv' /\ LoadedStays
    BY <1>3, PlanIsBuilt DEF EnqueueBuild, MakePlanBuild, AtStep
  <1> QED
    BY <1>1, <1>2, <1>3

(* orch queue enqueue with its plan, up to the load, and the write of make-plan.           *)
LEMMA PlansAreWritten ==
  ASSUME QueueInv, NEW c \in Commands,
         \/ EnqueueExists(c) \/ EnqueueExamine(c) \/ EnqueueWrite(c) \/ EnqueueRead(c)
         \/ EnqueueFails(c) \/ MakePlanWrite(c)
  PROVE  QueueInv'
  <1>1. /\ cmd[c] \in Steps /\ cmd \in [Commands -> Steps]
        /\ registry \subseteq Projects /\ paused \subseteq Projects /\ replaced \subseteq Revisions
        /\ files \in [Revisions -> Contents \cup {NoEntry}]
        /\ plans \in [Revisions -> Contents \cup {NoEntry}]
        /\ NoEntry \notin Contents
    BY QueueAssumption DEF QueueInv, RowsFit, QueueTypeOK
  <1>2. ASSUME cmd[c].pc \in {"exists", "examine", "write", "read", "output"}
        PROVE  cmd[c] \in PlanSteps /\ cmd[c].revision \in Revisions /\ cmd[c].content \in Contents
    BY <1>1, <1>2 DEF Steps, NoCommand, ProjectSteps, BuildSteps, PlanSteps, LoadSteps
  <1>3. NoCommand \in Steps /\ NoCommand.pc = "idle"
    BY DEF Steps, NoCommand
  <1>4. \A rev \in Revisions : StoresAgree /\ files[rev] = NoEntry => Disposable(rev)
    BY AnsweredIsLoaded DEF StoresAgree, PlanFileKept, Disposable, Enqueued
  <1>5. ASSUME EnqueueExists(c)
        PROVE  QueueInv'
    <2>1. PICK to : to = [cmd[c] EXCEPT !.pc = "examine",
                                        !.created = files[cmd[c].revision] = NoEntry]
      OBVIOUS
    <2>2. /\ cmd[c].pc = "exists" /\ Goto(c, to)
          /\ UNCHANGED <<registry, root_head, files, queue_rows, reports, histories>>
      BY <1>5, <2>1 DEF EnqueueExists, AtStep
    <2>3. cmd[c] \in PlanSteps /\ cmd[c].revision \in Revisions
      BY <1>2, <2>2
    <2>4. /\ to \in Steps /\ to.pc = "examine" /\ to.revision = cmd[c].revision
          /\ to.content = cmd[c].content /\ (to.created <=> files[cmd[c].revision] = NoEntry)
      BY <2>1, <2>3 DEF Steps, PlanSteps
    <2>5. RowsFit'
      BY <1>1, <2>2, <2>4, RowsFrame DEF QueueInv, queue_rows, histories
    <2>6. StoresAgree /\ CommandFits(c) => CommandFits(c)'
      BY <1>1, <1>4, <2>2, <2>3, <2>4, GotoKeeps
         DEF CommandFits, AtStep, Disposable, Enqueued, histories
    <2> QED
      BY <1>1, <2>2, <2>4, <2>5, <2>6, GotoKeeps, StoresFrame DEF QueueInv, AloneFits, queue_rows
  <1>6. ASSUME EnqueueExamine(c)
        PROVE  QueueInv'
    <2>1. /\ cmd[c].pc = "examine"
          /\ UNCHANGED <<registry, root_head, files, queue_rows, reports, histories>>
          /\ \/ /\ files[cmd[c].revision] = NoEntry
                /\ Goto(c, [cmd[c] EXCEPT !.pc = "write"])
             \/ /\ files[cmd[c].revision] = cmd[c].content
                /\ Goto(c, [cmd[c] EXCEPT !.pc = "read", !.created = FALSE])
             \/ Goto(c, NoCommand)
      BY <1>6 DEF EnqueueExamine, ArtifactStatus, AtStep
    <2>2. PICK to : /\ Goto(c, to)
                    /\ \/ files[cmd[c].revision] = NoEntry /\ to = [cmd[c] EXCEPT !.pc = "write"]
                       \/ /\ files[cmd[c].revision] = cmd[c].content
                          /\ to = [cmd[c] EXCEPT !.pc = "read", !.created = FALSE]
                       \/ to = NoCommand
      BY <2>1
    <2>3. cmd[c] \in PlanSteps /\ cmd[c].revision \in Revisions
      BY <1>2, <2>1
    <2>4. to \in Steps
      BY <1>3, <2>2, <2>3 DEF Steps, PlanSteps
    <2>5. RowsFit'
      BY <1>1, <2>1, <2>2, <2>4, RowsFrame DEF QueueInv, queue_rows, histories
    <2>6. StoresAgree /\ CommandFits(c) => CommandFits(c)'
      <3> SUFFICES ASSUME StoresAgree, CommandFits(c), NEW next, next = cmd'[c] PROVE CommandFits(c)'
        OBVIOUS
      <3>1. next = to /\ UNCHANGED <<registry, files>>
        BY <1>1, <2>1, <2>2, <2>4, GotoKeeps
      <3>2. \A rev : Disposable(rev)' <=> Disposable(rev)
        BY <2>1 DEF Disposable, Enqueued, histories
      <3>3. CASE files[cmd[c].revision] = NoEntry /\ to = [cmd[c] EXCEPT !.pc = "write"]
        <4>1. Disposable(cmd[c].revision)
          BY <1>4, <2>3, <3>3
        <4>2. /\ next.pc = "write" /\ next.revision = cmd[c].revision
              /\ next.content = cmd[c].content
          BY <2>3, <3>1, <3>3 DEF PlanSteps
        <4> QED
          BY <2>1, <3>1, <3>2, <4>1, <4>2 DEF CommandFits, AtStep
      <3>4. CASE /\ files[cmd[c].revision] = cmd[c].content
                 /\ to = [cmd[c] EXCEPT !.pc = "read", !.created = FALSE]
        <4>1. /\ next.pc = "read" /\ next.revision = cmd[c].revision
              /\ next.content = cmd[c].content /\ next.created = FALSE
          BY <2>3, <3>1, <3>4 DEF PlanSteps
        <4> QED
          BY <2>1, <3>1, <3>4, <4>1 DEF CommandFits, AtStep
      <3>5. CASE to = NoCommand
        BY <1>3, <3>1, <3>5 DEF CommandFits, AtStep
      <3> QED
        BY <2>2, <3>3, <3>4, <3>5
    <2> QED
      BY <1>1, <2>1, <2>2, <2>4, <2>5, <2>6, GotoKeeps, StoresFrame DEF QueueInv, AloneFits, queue_rows
  <1>7. ASSUME EnqueueWrite(c)
        PROVE  QueueInv'
    <2>1. PICK to : to = [cmd[c] EXCEPT !.pc = "read"]
      OBVIOUS
    <2>2. /\ cmd[c].pc = "write" /\ Goto(c, to)
          /\ UNCHANGED <<registry, root_head, queue_rows, reports, histories>>
          /\ files' = [files EXCEPT ![cmd[c].revision] = cmd[c].content]
      BY <1>7, <2>1 DEF EnqueueWrite, AtStep
    <2>3. cmd[c] \in PlanSteps /\ cmd[c].revision \in Revisions /\ cmd[c].content \in Contents
      BY <1>2, <2>2
    <2>4. /\ to \in Steps /\ to.pc = "read" /\ to.revision = cmd[c].revision
          /\ to.content = cmd[c].content /\ to.created = cmd[c].created
      BY <2>1, <2>3 DEF Steps, PlanSteps
    <2>5. RowsFit'
      BY <1>1, <2>2, <2>3, <2>4, RowsFrame DEF QueueInv, queue_rows, histories
    <2>6. ASSUME StoresAgree, CommandFits(c)
          PROVE  StoresAgree' /\ CommandFits(c)'
      <3>1. Disposable(cmd[c].revision)
        BY <2>2, <2>6 DEF CommandFits, AtStep
      <3>2. PlanFileKept'
        BY <1>1, <2>2, <2>6, <3>1, AnsweredIsLoaded
           DEF StoresAgree, PlanFileKept, queue_rows, histories, Disposable, Enqueued
      <3>3. NoOrphanWork' /\ OneProjectPerRoot' /\ EnqueuedIsQueued'
        BY <2>2, <2>6 DEF StoresAgree, NoOrphanWork, OneProjectPerRoot, EnqueuedIsQueued,
                          Unresolved, WorkOf, queue_rows, histories
      <3>4. CommandFits(c)'
        BY <1>1, <2>2, <2>3, <2>4, <2>6, <3>1, GotoKeeps
           DEF CommandFits, AtStep, queue_rows, histories, Disposable, Enqueued
      <3> QED
        BY <3>2, <3>3, <3>4 DEF StoresAgree
    <2> QED
      BY <1>1, <2>2, <2>4, <2>5, <2>6, GotoKeeps DEF QueueInv, AloneFits
  <1>8. ASSUME EnqueueRead(c)
        PROVE  QueueInv'
    <2>1. PICK to : to = [pc |-> "load", revision |-> cmd[c].revision, content |-> cmd[c].content,
              created |-> cmd[c].created, binding |-> cmd[c].binding,
              loaded |-> files[cmd[c].revision]]
      OBVIOUS
    <2>2. /\ cmd[c].pc = "read" /\ Goto(c, to)
          /\ UNCHANGED <<registry, root_head, files, queue_rows, reports, histories>>
      BY <1>8, <2>1 DEF EnqueueRead, AtStep
    <2>3. cmd[c] \in PlanSteps /\ cmd[c].revision \in Revisions
      BY <1>2, <2>2
    <2>4. /\ to \in Steps /\ to.pc = "load" /\ to.revision = cmd[c].revision
          /\ to.content = cmd[c].content /\ to.created = cmd[c].created
          /\ to.loaded = files[cmd[c].revision]
      BY <1>1, <2>1, <2>3 DEF Steps, PlanSteps, LoadSteps
    <2>5. RowsFit'
      BY <1>1, <2>2, <2>4, RowsFrame DEF QueueInv, queue_rows, histories
    <2>6. CommandFits(c) => CommandFits(c)'
      BY <1>1, <2>2, <2>4, GotoKeeps DEF CommandFits, AtStep, histories, Disposable, Enqueued
    <2> QED
      BY <1>1, <2>2, <2>4, <2>5, <2>6, GotoKeeps, StoresFrame DEF QueueInv, AloneFits, queue_rows
  <1>9. ASSUME EnqueueFails(c)
        PROVE  QueueInv'
    <2>1. /\ cmd[c].pc = "load" /\ Goto(c, NoCommand)
          /\ UNCHANGED <<registry, root_head, queue_rows, reports, histories>>
          /\ files' = IF cmd[c].created THEN [files EXCEPT ![cmd[c].revision] = NoEntry] ELSE files
      BY <1>9 DEF EnqueueFails, AtStep
    <2>2. RowsFit'
      BY <1>1, <1>3, <2>1, RowsFrame DEF QueueInv, queue_rows, histories
    <2>3. CommandFits(c)'
      BY <1>1, <1>3, <2>1, GotoKeeps DEF CommandFits, AtStep
    <2>4. ASSUME StoresAgree, CommandFits(c)
          PROVE  StoresAgree'
      <3>1. cmd[c].created => Disposable(cmd[c].revision)
        BY <2>1, <2>4 DEF CommandFits
      <3>2. PlanFileKept'
        BY <1>1, <2>1, <2>4, <3>1, AnsweredIsLoaded
           DEF StoresAgree, PlanFileKept, queue_rows, histories, Disposable, Enqueued
      <3>3. NoOrphanWork' /\ OneProjectPerRoot' /\ EnqueuedIsQueued'
        BY <2>1, <2>4 DEF StoresAgree, NoOrphanWork, OneProjectPerRoot, EnqueuedIsQueued,
                          Unresolved, WorkOf, queue_rows, histories
      <3> QED
        BY <3>2, <3>3 DEF StoresAgree
    <2> QED
      BY <1>1, <1>3, <2>1, <2>2, <2>3, <2>4, GotoKeeps DEF QueueInv, AloneFits
  <1>10. ASSUME MakePlanWrite(c)
         PROVE  QueueInv'
    <2>1. /\ cmd[c].pc = "output" /\ Goto(c, NoCommand)
          /\ UNCHANGED <<registry, root_head, queue_rows, reports, strays>>
          /\ files' = [files EXCEPT ![cmd[c].revision] = cmd[c].content]
          /\ replaced' = replaced \cup ({cmd[c].revision} \cap Enqueued)
      BY <1>10 DEF MakePlanWrite, AtStep
    <2>2. cmd[c].revision \in Revisions /\ cmd[c].content \in Contents
      BY <1>2, <2>1
    <2>3. RowsFit'
      BY <1>1, <1>3, <2>1, <2>2, RowsFrame DEF QueueInv, queue_rows
    <2>4. CommandFits(c)'
      BY <1>1, <1>3, <2>1, GotoKeeps DEF CommandFits, AtStep
    <2>5. ASSUME StoresAgree
          PROVE  StoresAgree'
      <3>1. PlanFileKept'
        BY <1>1, <2>1, <2>2, <2>5, AnsweredIsLoaded
           DEF StoresAgree, PlanFileKept, queue_rows, Enqueued
      <3>2. NoOrphanWork' /\ OneProjectPerRoot' /\ EnqueuedIsQueued'
        BY <2>1, <2>5 DEF StoresAgree, NoOrphanWork, OneProjectPerRoot, EnqueuedIsQueued,
                          Unresolved, WorkOf, queue_rows
      <3> QED
        BY <3>1, <3>2 DEF StoresAgree
    <2> QED
      BY <1>1, <1>3, <2>1, <2>3, <2>4, <2>5, GotoKeeps DEF QueueInv, AloneFits
  <1> QED
    BY <1>5, <1>6, <1>7, <1>8, <1>9, <1>10

(* A plan enters the ledger: its digest under its revision, its task, and nothing that was *)
(* loaded before changes but for a task that is closed.                                 *)
Insertion(rev, content) ==
  /\ InsertPlan(rev, content) /\ plans[rev] \in {NoEntry, content}
  /\ tasks' \in [QueueTasks -> Rows \cup {NoEntry}]
  /\ tasks'[content.task] # NoEntry
  /\ tasks'[content.task].revision = rev /\ tasks'[content.task].content = content
  /\ \A t \in QueueTasks \ {content.task} : tasks'[t] = NoEntry <=> tasks[t] = NoEntry
  /\ \A t \in QueueTasks : tasks[t] # NoEntry =>
       /\ tasks'[t].revision = tasks[t].revision /\ tasks'[t].content = tasks[t].content
       /\ tasks[t].status = "CLOSED" => tasks'[t].status = "CLOSED"

(* What an insertion leaves of the stores, and what it adds to the work of projects.      *)
LEMMA InsertionKeeps ==
  ASSUME QueueInv, NEW rev \in Revisions, NEW content \in Contents, Insertion(rev, content)
  PROVE  /\ LoadedStays /\ TasksMatchPlans'
         /\ plans' \in [Revisions -> Contents \cup {NoEntry}] /\ plans'[rev] = content
         /\ \A t \in QueueTasks : tasks'[t] # NoEntry => plans'[tasks'[t].revision] # NoEntry
         /\ \A p : Unresolved(p)' \subseteq Unresolved(p) \cup
              {t \in {content.task} : tasks[t] = NoEntry /\ content.project = p}
  <1>1. /\ plans \in [Revisions -> Contents \cup {NoEntry}]
        /\ tasks \in [QueueTasks -> Rows \cup {NoEntry}]
        /\ NoEntry \notin Contents /\ NoEntry \notin Rows /\ content.task \in QueueTasks
    BY QueueAssumption DEF QueueInv, RowsFit, QueueTypeOK, Contents
  <1>2. /\ plans'[rev] = content /\ \A v \in Revisions \ {rev} : plans'[v] = plans[v]
        /\ plans' \in [Revisions -> Contents \cup {NoEntry}]
    BY <1>1 DEF Insertion, InsertPlan
  <1>3. \A v \in Revisions : plans[v] # NoEntry => plans'[v] = plans[v]
    BY <1>2 DEF Insertion
  <1>4. \A t \in QueueTasks : tasks[t] # NoEntry =>
          /\ plans[tasks[t].revision] = tasks[t].content /\ tasks[t].revision \in Revisions
          /\ tasks[t].content \in Contents
    BY <1>1 DEF QueueInv, RowsFit, TasksMatchPlans, Rows
  <1>5. \A t \in QueueTasks : tasks[t] # NoEntry => tasks'[t] # NoEntry
    BY DEF Insertion
  <1>6. LoadedStays
    BY <1>3, <1>5 DEF LoadedStays, Insertion
  <1>7. ASSUME NEW t \in QueueTasks, tasks'[t] # NoEntry
        PROVE  plans'[tasks'[t].revision] = tasks'[t].content /\ tasks'[t].content \in Contents
    <2>1. CASE t = content.task
      BY <1>2, <2>1 DEF Insertion
    <2>2. CASE t # content.task
      <3>1. tasks[t] # NoEntry
        BY <1>7, <2>2 DEF Insertion
      <3> QED
        BY <1>1, <1>3, <1>4, <3>1 DEF Insertion
    <2> QED
      BY <2>1, <2>2
  <1>8. ASSUME NEW v \in Revisions, plans'[v] # NoEntry
        PROVE  tasks'[plans'[v].task] # NoEntry /\ tasks'[plans'[v].task].revision = v
    <2>1. CASE v = rev
      BY <1>2, <2>1 DEF Insertion
    <2>2. CASE v # rev
      <3>1. plans'[v] = plans[v] /\ plans[v].task \in QueueTasks
        BY <1>1, <1>2, <1>8, <2>2 DEF Contents
      <3>2. tasks[plans[v].task] # NoEntry /\ tasks[plans[v].task].revision = v
        BY <1>8, <3>1 DEF QueueInv, RowsFit, TasksMatchPlans
      <3> QED
        BY <1>5, <3>1, <3>2 DEF Insertion
    <2> QED
      BY <2>1, <2>2
  <1>9. ASSUME NEW p, NEW t \in Unresolved(p)'
        PROVE  t \in Unresolved(p)
                 \/ (t = content.task /\ tasks[t] = NoEntry /\ content.project = p)
    <2>1. /\ t \in QueueTasks /\ tasks'[t] # NoEntry /\ tasks'[t].content.project = p
          /\ tasks'[t].status # "CLOSED"
      BY <1>9 DEF Unresolved, WorkOf
    <2>2. CASE tasks[t] = NoEntry
      BY <2>1, <2>2 DEF Insertion
    <2>3. CASE tasks[t] # NoEntry
      <3>1. tasks[t].content.project = p /\ tasks[t].status # "CLOSED"
        BY <2>1, <2>3 DEF Insertion
      <3> QED
        BY <2>1, <2>3, <3>1 DEF Unresolved, WorkOf
    <2> QED
      BY <2>2, <2>3
  <1> QED
    BY <1>1, <1>2, <1>6, <1>7, <1>8, <1>9 DEF TasksMatchPlans

(* load_plan inserts: the recorded digest, when there is one, is that of the plan it read. *)
LEMMA LoadInserts ==
  ASSUME QueueInv, NEW rev \in Revisions, NEW content \in Contents,
         ~DigestConflict(rev, content), ~TaskConflict(rev, content),
         InsertPlan(rev, content), InsertTask(rev, content)
  PROVE  Insertion(rev, content)
  <1>1. /\ plans \in [Revisions -> Contents \cup {NoEntry}]
        /\ tasks \in [QueueTasks -> Rows \cup {NoEntry}]
        /\ NoEntry \notin Contents /\ NoEntry \notin Rows /\ content.task \in QueueTasks
    BY QueueAssumption DEF QueueInv, RowsFit, QueueTypeOK, Contents
  <1>2. /\ plans[rev] \in {NoEntry, content}
        /\ tasks[content.task] # NoEntry => tasks[content.task].revision = rev
    BY DEF DigestConflict, TaskConflict
  <1>3. PICK row : row = [revision |-> rev, content |-> content, status |-> "READY"]
    OBVIOUS
  <1>4. /\ row \in Rows /\ row.revision = rev /\ row.content = content
        /\ tasks'[content.task] = IF tasks[content.task] = NoEntry THEN row ELSE tasks[content.task]
        /\ \A t \in QueueTasks \ {content.task} : tasks'[t] = tasks[t]
        /\ tasks' \in [QueueTasks -> Rows \cup {NoEntry}]
    BY <1>1, <1>3 DEF InsertTask, Rows
  <1>5. \A t \in QueueTasks : tasks[t] # NoEntry => tasks'[t] = tasks[t]
    BY <1>4
  <1>6. ASSUME tasks[content.task] # NoEntry
        PROVE  tasks[content.task].content = content
    <2>1. plans[rev] = tasks[content.task].content /\ tasks[content.task].content \in Contents
      BY <1>1, <1>2, <1>6 DEF QueueInv, RowsFit, TasksMatchPlans, Rows
    <2> QED
      BY <1>1, <1>2, <2>1
  <1> QED
    BY <1>1, <1>2, <1>4, <1>5, <1>6 DEF Insertion

(* readmit inserts a new plan and a new task, and closes the old one.                     *)
LEMMA ReadmitInserts ==
  ASSUME QueueInv, NEW o \in QueueTasks, NEW rev \in Revisions, NEW content \in Contents,
         Readmits(o, rev, content)
  PROVE  Insertion(rev, content)
  <1>1. /\ tasks \in [QueueTasks -> Rows \cup {NoEntry}]
        /\ NoEntry \notin Rows /\ content.task \in QueueTasks
    BY QueueAssumption DEF QueueInv, RowsFit, QueueTypeOK, Contents
  <1>2. /\ tasks[o] \in Rows /\ tasks[o] # NoEntry /\ tasks[content.task] = NoEntry
        /\ plans[rev] = NoEntry /\ o # content.task /\ InsertPlan(rev, content)
    BY <1>1 DEF Readmits
  <1>3. PICK row : row = [revision |-> rev, content |-> content, status |-> "READY"]
    OBVIOUS
  <1>4. PICK closed : closed = [tasks[o] EXCEPT !.status = "CLOSED"]
    OBVIOUS
  <1>5. /\ row \in Rows /\ row.revision = rev /\ row.content = content
        /\ closed \in Rows /\ closed.revision = tasks[o].revision
        /\ closed.content = tasks[o].content /\ closed.status = "CLOSED"
    BY <1>2, <1>3, <1>4 DEF Rows
  <1>6. tasks' = [tasks EXCEPT ![o] = closed, ![content.task] = row]
    BY <1>2, <1>3, <1>4 DEF Readmits
  <1>7. /\ tasks'[o] = closed /\ tasks'[content.task] = row
        /\ \A t \in QueueTasks \ {o, content.task} : tasks'[t] = tasks[t]
        /\ tasks' \in [QueueTasks -> Rows \cup {NoEntry}]
    BY <1>1, <1>2, <1>5, <1>6
  <1> QED
    BY <1>1, <1>2, <1>5, <1>7 DEF Insertion

(* load_plan at the end of an enqueue.                                                  *)
LEMMA EnqueueLoads ==
  ASSUME QueueInv, NEW c \in Commands, EnqueueLoad(c)
  PROVE  QueueInv' /\ LoadedStays
  <1> SUFFICES ASSUME NEW rev, rev = cmd[c].revision, NEW content, content = cmd[c].loaded,
                      NEW asked, asked = cmd[c].content, NEW binding, binding = cmd[c].binding
               PROVE  QueueInv' /\ LoadedStays
    OBVIOUS
  <1>1. cmd[c] \in Steps /\ cmd \in [Commands -> Steps] /\ cmd[c].pc = "load"
    BY DEF QueueInv, RowsFit, EnqueueLoad, AtStep
  <1>2. /\ rev \in Revisions /\ content \in Contents /\ asked \in Contents /\ binding \in Bindings
        /\ content.task \in QueueTasks
    <2>1. cmd[c] \in LoadSteps
      BY <1>1 DEF Steps, NoCommand, ProjectSteps, BuildSteps, PlanSteps, LoadSteps
    <2>2. content # NoEntry
      BY DEF EnqueueLoad, Refused
    <2> QED
      BY <2>1, <2>2 DEF LoadSteps, Contents
  <1>3. Insertion(rev, content)
    BY <1>2, LoadInserts DEF EnqueueLoad, Refused
  <1>4. /\ Goto(c, NoCommand) /\ UNCHANGED <<registry, root_head, files, paused, strays, replaced>>
        /\ reports' = reports \cup {[task |-> asked.task, project |-> asked.project,
                                     revision |-> rev, content |-> content, binding |-> binding]}
    BY DEF EnqueueLoad, histories
  <1>5. NoCommand \in Steps /\ NoCommand.pc = "idle"
    BY DEF Steps, NoCommand
  <1>6. RowsFit'
    <2>1. reports' \subseteq Reports
      <3>1. [task |-> asked.task, project |-> asked.project,
             revision |-> rev, content |-> content, binding |-> binding] \in Reports
        BY <1>2 DEF Reports, Contents, Bindings
      <3> QED
        BY <1>4, <3>1 DEF QueueInv, RowsFit, QueueTypeOK
    <2>2. cmd' \in [Commands -> Steps] /\ \A d \in Commands : cmd'[d].pc \in Places
      BY <1>1, <1>4, <1>5, GotoKeeps
    <2>3. QueueTypeOK'
      BY <1>2, <1>3, <1>4, <2>1, <2>2, InsertionKeeps
         DEF QueueInv, RowsFit, QueueTypeOK, Insertion, Places
    <2> QED
      BY <1>2, <1>3, <2>2, <2>3, InsertionKeeps DEF RowsFit
  <1>7. ASSUME StoresAgree, CommandFits(c)
        PROVE  StoresAgree'
    <2>1. content = asked /\ asked.project \in registry /\ files[rev] = asked
      BY <1>1, <1>7 DEF CommandFits, AtStep
    <2>2. NoOrphanWork'
      BY <1>2, <1>3, <1>4, <1>7, <2>1, InsertionKeeps DEF StoresAgree, NoOrphanWork
    <2>3. EnqueuedIsQueued'
      <3> SUFFICES ASSUME NEW r \in reports'
                   PROVE  /\ tasks'[r.task] # NoEntry /\ tasks'[r.task].revision = r.revision
                          /\ tasks'[r.task].content.project = r.project
        BY DEF EnqueuedIsQueued
      <3>1. CASE r \in reports
        <4>1. r.task \in QueueTasks /\ tasks[r.task] # NoEntry
          BY <1>7, <3>1, AnsweredIsLoaded DEF StoresAgree, EnqueuedIsQueued
        <4>2. tasks'[r.task] # NoEntry
          BY <4>1, <1>3 DEF Insertion
        <4> QED
          BY <1>3, <1>7, <3>1, <4>1, <4>2 DEF StoresAgree, EnqueuedIsQueued, Insertion
      <3>2. CASE r \notin reports
        <4>1. r.task = content.task /\ r.revision = rev /\ r.project = content.project
          BY <1>4, <2>1, <3>2
        <4> QED
          BY <1>3, <4>1 DEF Insertion
      <3> QED
        BY <3>1, <3>2
    <2>4. PlanFileKept'
      <3> SUFFICES ASSUME NEW r \in reports'
                   PROVE  files[r.revision] = plans'[r.revision] \/ r.revision \in replaced
        BY <1>4 DEF PlanFileKept
      <3>1. CASE r \in reports
        BY <1>2, <1>3, <1>7, <3>1, AnsweredIsLoaded, InsertionKeeps
           DEF StoresAgree, PlanFileKept, LoadedStays
      <3>2. CASE r \notin reports
        BY <1>2, <1>3, <1>4, <2>1, <3>2, InsertionKeeps
      <3> QED
        BY <3>1, <3>2
    <2>5. OneProjectPerRoot'
      BY <1>4, <1>7 DEF StoresAgree, OneProjectPerRoot
    <2> QED
      BY <2>2, <2>3, <2>4, <2>5 DEF StoresAgree
  <1>8. CommandFits(c)'
    BY <1>1, <1>4, <1>5, GotoKeeps DEF CommandFits, AtStep
  <1>9. LoadedStays
    BY <1>2, <1>3, InsertionKeeps
  <1> QED
    BY <1>1, <1>4, <1>5, <1>6, <1>7, <1>8, <1>9, GotoKeeps DEF QueueInv, AloneFits

(* orch load-plan and orch readmit, which run while no other command is inside or count as *)
(* overlapping it.                                                                      *)
LEMMA PlansFromElsewhere ==
  ASSUME QueueInv, NEW content \in Contents, Inserts(content)
  PROVE  QueueInv' /\ LoadedStays
  <1>1. PICK rev \in Revisions :
          LoadPlan(rev, content) \/ \E o \in QueueTasks : Readmits(o, rev, content)
    BY DEF Inserts
  <1>2. Insertion(rev, content)
    BY <1>1, LoadInserts, ReadmitInserts DEF LoadPlan
  <1>3. /\ Meets(Commands)
        /\ UNCHANGED <<registry, root_head, files, paused, cmd, reports, replaced>>
    BY <1>1 DEF LoadPlan, Readmits, histories
  <1>4. /\ strays' \subseteq strays \cup {content.task} /\ strays \subseteq strays'
        /\ content.project \notin registry /\ tasks[content.task] = NoEntry =>
             content.task \in strays'
    BY <1>1 DEF LoadPlan, Readmits, histories
  <1>5. RowsFit'
    <2>1. content.task \in QueueTasks
      BY DEF Contents
    <2>2. QueueTypeOK'
      BY <1>2, <1>3, <1>4, <2>1, InsertionKeeps DEF QueueInv, RowsFit, QueueTypeOK, Insertion
    <2> QED
      BY <1>2, <1>3, <2>2, InsertionKeeps DEF QueueInv, RowsFit
  <1>6. ASSUME StoresAgree PROVE StoresAgree'
    <2>1. NoOrphanWork'
      BY <1>2, <1>3, <1>4, <1>6, InsertionKeeps DEF StoresAgree, NoOrphanWork
    <2>2. EnqueuedIsQueued'
      <3> SUFFICES ASSUME NEW r \in reports
                   PROVE  /\ tasks'[r.task] # NoEntry /\ tasks'[r.task].revision = r.revision
                          /\ tasks'[r.task].content.project = r.project
        BY <1>3 DEF EnqueuedIsQueued
      <3>1. r.task \in QueueTasks /\ tasks[r.task] # NoEntry
        BY <1>6, AnsweredIsLoaded DEF StoresAgree, EnqueuedIsQueued
      <3>2. tasks'[r.task] # NoEntry
        BY <1>2, <3>1 DEF Insertion
      <3> QED
        BY <1>2, <1>6, <3>1, <3>2 DEF StoresAgree, EnqueuedIsQueued, Insertion
    <2>3. PlanFileKept'
      BY <1>2, <1>3, <1>6, AnsweredIsLoaded, InsertionKeeps
         DEF StoresAgree, PlanFileKept, LoadedStays
    <2>4. OneProjectPerRoot'
      BY <1>3, <1>6 DEF StoresAgree, OneProjectPerRoot
    <2> QED
      BY <2>1, <2>2, <2>3, <2>4 DEF StoresAgree
  <1>7. ASSUME ~overlapped'
        PROVE  ~overlapped /\ OneAtATime' /\ \A c \in Commands : CommandFits(c)'
    <2>1. ~overlapped /\ \A c \in Commands : cmd'[c].pc = "idle"
      BY <1>3, <1>7 DEF Meets, AtStep
    <2> QED
      BY <2>1 DEF OneAtATime, CommandFits, AtStep
  <1>8. LoadedStays
    BY <1>2, InsertionKeeps
  <1> QED
    BY <1>5, <1>6, <1>7, <1>8 DEF QueueInv, AloneFits

(* A queued task changes its status only; a closed one no longer does.                     *)
LEMMA StatusMoves ==
  ASSUME QueueInv, NEW t \in QueueTasks, tasks[t] # NoEntry, tasks[t].status # "CLOSED",
         NEW s \in {"READY", "BLOCKED", "ACTIVE", "CLOSED"}, MovesTo(t, s),
         root_head' \in [Roots -> 0 .. MaxHead]
  PROVE  QueueInv' /\ LoadedStays
  <1>1. /\ tasks' = [tasks EXCEPT ![t].status = s]
        /\ UNCHANGED <<registry, files, plans, paused, cmd, overlapped, reports, strays, replaced>>
    BY DEF MovesTo, commands, histories
  <1>2. tasks \in [QueueTasks -> Rows \cup {NoEntry}] /\ NoEntry \notin Rows
    BY QueueAssumption DEF QueueInv, RowsFit, QueueTypeOK
  <1>3. tasks[t] \in Rows
    BY <1>2
  <1>4. /\ tasks'[t] \in Rows /\ tasks'[t].revision = tasks[t].revision
        /\ tasks'[t].content = tasks[t].content /\ tasks'[t].status = s
        /\ \A u \in QueueTasks \ {t} : tasks'[u] = tasks[u]
    BY <1>1, <1>2, <1>3 DEF Rows
  <1>5. /\ tasks' \in [QueueTasks -> Rows \cup {NoEntry}]
        /\ \A u \in QueueTasks : tasks'[u] = NoEntry <=> tasks[u] = NoEntry
    BY <1>1, <1>2, <1>4
  <1>6. \A u \in QueueTasks : /\ tasks'[u].revision = tasks[u].revision
                             /\ tasks'[u].content = tasks[u].content
    BY <1>4
  <1>7. LoadedStays
    BY <1>1, <1>4, <1>5, <1>6 DEF LoadedStays
  <1>8. plans \in [Revisions -> Contents \cup {NoEntry}] /\ NoEntry \notin Contents
    BY QueueAssumption DEF QueueInv, RowsFit, QueueTypeOK
  <1>9. TasksMatchPlans'
    <2>1. \A v \in Revisions : plans[v] # NoEntry => plans[v].task \in QueueTasks
      BY <1>8 DEF Contents
    <2> QED
      BY <1>1, <1>5, <1>6, <2>1 DEF QueueInv, RowsFit, TasksMatchPlans
  <1>10. RowsFit'
    <2>1. QueueTypeOK'
      BY <1>1, <1>5, <1>6 DEF QueueInv, RowsFit, QueueTypeOK
    <2> QED
      BY <1>1, <1>9, <2>1 DEF QueueInv, RowsFit
  <1>11. \A p : Unresolved(p)' \subseteq Unresolved(p)
    <2> SUFFICES ASSUME NEW p, NEW u \in Unresolved(p)' PROVE u \in Unresolved(p)
      OBVIOUS
    <2>1. CASE u = t
      BY <1>4, <2>1 DEF Unresolved, WorkOf
    <2>2. CASE u # t
      BY <1>4, <2>2 DEF Unresolved, WorkOf
    <2> QED
      BY <2>1, <2>2
  <1>12. StoresAgree => StoresAgree'
    <2>1. \A r \in reports : r.task \in QueueTasks
      BY DEF QueueInv, RowsFit, QueueTypeOK, Reports
    <2> QED
      BY <1>1, <1>5, <1>6, <1>11, <2>1
         DEF StoresAgree, NoOrphanWork, OneProjectPerRoot, EnqueuedIsQueued, PlanFileKept
  <1>13. ASSUME NEW c \in Commands, CommandFits(c) PROVE CommandFits(c)'
    <2> SUFFICES ASSUME NEW p, p = cmd[c].project PROVE CommandFits(c)'
      OBVIOUS
    <2>1. AtStep(c, "remove") => Unresolved(p)' = {}
      BY <1>11, <1>13 DEF CommandFits
    <2>2. cmd'[c].project = p
      BY <1>1
    <2> QED
      BY <1>1, <1>13, <2>1, <2>2 DEF CommandFits, AtStep, Disposable, Enqueued
  <1>14. OneAtATime => OneAtATime'
    BY <1>1 DEF OneAtATime, AtStep
  <1> QED
    BY <1>1, <1>7, <1>10, <1>12, <1>13, <1>14 DEF QueueInv, AloneFits

(* A step that leaves the plans, the tasks and the commands alone.                          *)
LEMMA QueueFrame ==
  ASSUME QueueInv, UNCHANGED <<registry, root_head, files, plans, tasks, commands, reports, histories>>,
         paused' \subseteq Projects
  PROVE  QueueInv' /\ LoadedStays
  <1>1. UNCHANGED <<registry, root_head, files, plans, tasks, cmd, overlapped, reports,
                    strays, replaced>>
    BY DEF commands, histories
  <1>2. RowsFit'
    BY <1>1 DEF QueueInv, RowsFit, QueueTypeOK, TasksMatchPlans
  <1>3. StoresAgree => StoresAgree'
    BY <1>1, StoresFrame DEF histories
  <1>4. \A c \in Commands : CommandFits(c) => CommandFits(c)'
    BY <1>1 DEF CommandFits, AtStep, Unresolved, WorkOf, Disposable, Enqueued
  <1>5. OneAtATime => OneAtATime'
    BY <1>1 DEF OneAtATime, AtStep
  <1>6. LoadedStays
    BY <1>1 DEF LoadedStays
  <1> QED
    BY <1>1, <1>2, <1>3, <1>4, <1>5, <1>6 DEF QueueInv, AloneFits

LEMMA LedgerSteps ==
  ASSUME QueueInv, LedgerStep
  PROVE  QueueInv' /\ LoadedStays
  <1>1. ASSUME NEW t \in QueueTasks,
               Claim(t) \/ CancelQueued(t) \/ \E b \in BOOLEAN : AbortWork(t, b)
        PROVE  QueueInv' /\ LoadedStays
    <2>1. /\ tasks[t] # NoEntry /\ tasks[t].status # "CLOSED" /\ UNCHANGED root_head
          /\ \E s \in {"READY", "BLOCKED", "ACTIVE", "CLOSED"} : MovesTo(t, s)
      BY <1>1 DEF Claim, CancelQueued, AbortWork
    <2> QED
      BY <2>1, StatusMoves DEF QueueInv, RowsFit, QueueTypeOK
  <1>2. ASSUME NEW t \in QueueTasks, Publish(t)
        PROVE  QueueInv' /\ LoadedStays
    <2>1. /\ tasks[t] # NoEntry /\ tasks[t].status # "CLOSED" /\ MovesTo(t, "CLOSED")
      BY <1>2 DEF Publish
    <2>2. PICK r : /\ root_head[r] < MaxHead
                   /\ root_head' = [root_head EXCEPT ![r] = root_head[r] + 1]
      BY <1>2 DEF Publish
    <2>3. root_head \in [Roots -> 0 .. MaxHead] /\ MaxHead \in Nat
      BY QueueAssumption DEF QueueInv, RowsFit, QueueTypeOK
    <2>4. r \in Roots => root_head[r] + 1 \in 0 .. MaxHead
      BY <2>2, <2>3
    <2>5. root_head' \in [Roots -> 0 .. MaxHead]
      BY <2>2, <2>3, <2>4
    <2> QED
      BY <2>1, <2>5, StatusMoves
  <1>3. ASSUME NEW p \in Projects, PauseProject(p) \/ ResumeProject(p)
        PROVE  QueueInv' /\ LoadedStays
    BY <1>3, QueueFrame DEF PauseProject, ResumeProject, QueueInv, RowsFit, QueueTypeOK
  <1> QED
    BY <1>1, <1>2, <1>3 DEF LedgerStep

LEMMA QueueStep == QueueInv /\ [QueueNext]_queueVars => QueueInv' /\ LoadedStays
  <1> SUFFICES ASSUME QueueInv, [QueueNext]_queueVars PROVE QueueInv' /\ LoadedStays
    OBVIOUS
  <1>1. UNCHANGED <<plans, tasks>> => LoadedStays
    BY DEF LoadedStays
  <1>2. ASSUME NEW c \in Commands, NEW p \in Projects, Starts(c, p)
        PROVE  QueueInv' /\ LoadedStays
    <2>1. CASE (\E b \in BOOLEAN : AddCheck(c, p, b)) \/ RemoveGuard(c, p)
      <3>1. UNCHANGED <<plans, tasks>>
        BY <2>1 DEF AddCheck, RemoveGuard, queue_rows
      <3> QED
        BY <1>1, <2>1, <3>1, ProjectCommands
    <2>2. CASE \E t \in QueueTasks, rev \in Revisions :
                 EnqueueBegin(c, p, t, rev) \/ MakePlanBegin(c, p, t, rev)
      BY <2>2, PlansBegin
    <2> QED
      BY <1>2, <2>1, <2>2 DEF Starts
  <1>3. ASSUME NEW c \in Commands, Continues(c), ~AtStep(c, "idle")
        PROVE  QueueInv' /\ LoadedStays
    <2>1. PICK p : p \in Projects
      <3>1. cmd[c] \in ProjectSteps \cup BuildSteps \cup PlanSteps \cup LoadSteps
        BY <1>3 DEF QueueInv, RowsFit, AtStep, Steps, NoCommand
      <3> QED
        BY <3>1 DEF ProjectSteps, BuildSteps, PlanSteps, LoadSteps, Contents
    <2>2. CASE EnqueueLoad(c)
      BY <2>2, EnqueueLoads
    <2>3. CASE EnqueueBinding(c) \/ EnqueueBuild(c) \/ MakePlanBuild(c)
      BY <2>3, PlansBegin
    <2>4. CASE \/ EnqueueExists(c) \/ EnqueueExamine(c) \/ EnqueueWrite(c) \/ EnqueueRead(c)
               \/ EnqueueFails(c) \/ MakePlanWrite(c)
      <3>1. UNCHANGED <<plans, tasks>>
        BY <2>4 DEF EnqueueExists, EnqueueExamine, EnqueueWrite, EnqueueRead, EnqueueFails,
                    MakePlanWrite, queue_rows
      <3> QED
        BY <1>1, <2>4, <3>1, PlansAreWritten
    <2>5. CASE AddWrite(c) \/ RemoveUnlink(c) \/ RemoveRecord(c) \/ Crash(c)
      <3>1. UNCHANGED <<plans, tasks>>
        BY <2>5 DEF AddWrite, RemoveUnlink, RemoveRecord, Crash, queue_rows
      <3> QED
        BY <1>1, <2>1, <2>5, <3>1, ProjectCommands
    <2> QED
      BY <1>3, <2>2, <2>3, <2>4, <2>5 DEF Continues
  <1>4. \A c \in Commands : Continues(c) => ~AtStep(c, "idle")
    BY DEF Continues, AddWrite, RemoveUnlink, RemoveRecord, EnqueueBinding, EnqueueBuild,
           EnqueueExists, EnqueueExamine, EnqueueWrite, EnqueueRead, EnqueueLoad, EnqueueFails,
           MakePlanBuild, MakePlanWrite, Crash, AtStep
  <1>5. CASE UNCHANGED queueVars
    BY <1>5, QueueFrame DEF queueVars, queue_rows, QueueInv, RowsFit, QueueTypeOK
  <1> QED
    BY <1>2, <1>3, <1>4, <1>5, LedgerSteps, PlansFromElsewhere DEF QueueNext

LEMMA QueueInvariant == QueueSpec => []QueueInv
  <1> QED
    BY QueueInitFits, QueueStep, PTL DEF QueueSpec

(* load_plan: however many commands race, rows match the digest they were loaded from.       *)
(* While commands did not overlap, whichever step they died after, an unregistered project  *)
(* has no unresolved work but what load-plan queued for it, a root one project, an answer     *)
(* ENQUEUED is true, and the file of an enqueued revision is kept until make-plan writes     *)
(* over it.                                                                             *)
THEOREM QueueSoundHolds == QueueSpec => []QueueSound
  <1>1. QueueInv => QueueSound
    BY DEF QueueInv, RowsFit, AloneFits, StoresAgree, QueueSound
  <1> QED
    BY <1>1, QueueInvariant, PTL

(* load_plan and readmit: whoever runs beside them, a loaded plan and the payload of a queued *)
(* task never change, and no later plan queues a task again that was closed.              *)
THEOREM LoadedIsFinalHolds == QueueSpec => LoadedIsFinal
  <1>1. QueueInv /\ [QueueNext]_queueVars => [LoadedStays]_queueVars
    BY QueueStep
  <1> QED
    BY <1>1, QueueInvariant, PTL DEF QueueSpec, LoadedIsFinal
=============================================================================

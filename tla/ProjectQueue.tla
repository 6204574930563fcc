---------------------------- MODULE ProjectQueue ----------------------------
(****************************************************************************)
(* The project registry and the queue commands that go through it            *)
(* (orch/project.py, orch/plan.py, orch/cli.py, load_plan and the project     *)
(* operations of orch/core.py).                                              *)
(*                                                                          *)
(* A project is a file of the registry, its queued work is rows of the       *)
(* ledger, and a plan is a file that load_plan turns into rows.  Commands     *)
(* are processes: they read one store, then write another, with nothing held *)
(* between, so two of them interleave and each may die after any step.        *)
(*                                                                          *)
(* The project id is a slug of the name and a digest of the root, so it is   *)
(* the pair here.  A plan has one task without dependencies, of a project;    *)
(* its digest is its content.  expected_base is HEAD when the plan was built, *)
(* or None.  Plans also come from files outside plans/: orch load-plan and     *)
(* orch readmit insert them without leaving one there.                       *)
(* What a claimed task does is in module Ledger: here it is READY, BLOCKED,   *)
(* ACTIVE or CLOSED, and publishing it moves HEAD.                            *)
(****************************************************************************)
EXTENDS Integers, FiniteSets

CONSTANTS Names, Roots, QueueTasks, Revisions, Commands,
          MaxHead,       \* bound: commits made on a root's branch
          MaxReports,    \* bound: enqueue begins while fewer different answers were given
          NoEntry

Projects == Names \X Roots
Root(p) == p[2]
Contents == [task : QueueTasks, project : Projects, base : (0 .. MaxHead) \cup {NoEntry}]
Rows == [revision : Revisions, content : Contents, status : {"READY", "BLOCKED", "ACTIVE", "CLOSED"}]

ASSUME QueueAssumption ==
  MaxHead \in Nat /\ MaxReports \in Nat /\ NoEntry \notin Contents \cup Rows

VARIABLES
  registry,   \* projects whose file exists in projects/
  root_head,  \* HEAD of each root
  files,      \* plans/<revision>.json
  plans,      \* the plans table: revision |-> digest
  tasks,      \* the tasks table
  paused,     \* settings project_paused:<id>
  cmd,        \* where each command is
  reports,    \* what enqueue commands answered
  overlapped, \* history: a command took a step while another one was inside
  strays,     \* history: tasks that load-plan queued for a project nobody had registered
  replaced    \* history: enqueued revisions whose plan file make-plan wrote over

queue_rows == <<plans, tasks, paused>>
commands == <<cmd, overlapped>>
histories == <<strays, replaced>>
queueVars == <<registry, root_head, files, queue_rows, commands, reports, histories>>

Reports == [task : QueueTasks, project : Projects, revision : Revisions,
            content : Contents, binding : {"admission_head", "dynamic_at_verify"}]
NoCommand == [pc |-> "idle"]
AtStep(c, step) == cmd[c].pc = step
Meets(others) == overlapped' = (overlapped \/ \E d \in others : ~AtStep(d, "idle"))
Goto(c, to) == cmd' = [cmd EXCEPT ![c] = to] /\ Meets(Commands \ {c})

QueueInit ==
  /\ registry = {} /\ root_head = [r \in Roots |-> 0]
  /\ files = [v \in Revisions |-> NoEntry]
  /\ plans = [v \in Revisions |-> NoEntry]
  /\ tasks = [t \in QueueTasks |-> NoEntry]
  /\ paused = {} /\ reports = {} /\ overlapped = FALSE /\ strays = {} /\ replaced = {}
  /\ cmd = [c \in Commands |-> NoCommand]

WorkOf(p) == {t \in QueueTasks : tasks[t] # NoEntry /\ tasks[t].content.project = p}
Unresolved(p) == {t \in WorkOf(p) : tasks[t].status # "CLOSED"}

-----------------------------------------------------------------------------
(* orch project add: the registry is scanned, then the file is written.           *)
RootTaken(p) == \E q \in registry : q # p /\ Root(q) = Root(p)

AddCheck(c, p, replace) ==
  /\ AtStep(c, "idle")
  /\ p \in registry => replace
  /\ ~RootTaken(p)
  /\ Goto(c, [pc |-> "add", project |-> p])
  /\ UNCHANGED <<registry, root_head, files, queue_rows, reports, histories>>

AddWrite(c) ==
  /\ AtStep(c, "add")
  /\ registry' = registry \cup {cmd[c].project}
  /\ Goto(c, NoCommand)
  /\ UNCHANGED <<root_head, files, queue_rows, reports, histories>>

(* orch project remove: guard on the ledger, unlink of the file, then the record    *)
(* that also clears the project's pause.                                          *)
RemovalBlocked(p) == Unresolved(p) # {}

RemoveGuard(c, p) ==
  /\ AtStep(c, "idle")
  /\ p \in registry
  /\ ~RemovalBlocked(p)
  /\ Goto(c, [pc |-> "remove", project |-> p])
  /\ UNCHANGED <<registry, root_head, files, queue_rows, reports, histories>>

RemoveUnlink(c) ==
  /\ AtStep(c, "remove")
  /\ \/ /\ cmd[c].project \in registry
        /\ registry' = registry \ {cmd[c].project}
        /\ Goto(c, [cmd[c] EXCEPT !.pc = "record"])
     \/ /\ cmd[c].project \notin registry          \* unknown_project
        /\ Goto(c, NoCommand)
        /\ UNCHANGED registry
  /\ UNCHANGED <<root_head, files, queue_rows, reports, histories>>

RemoveRecord(c) ==
  /\ AtStep(c, "record")
  /\ paused' = paused \ {cmd[c].project}
  /\ Goto(c, NoCommand)
  /\ UNCHANGED <<registry, root_head, files, plans, tasks, reports, histories>>

-----------------------------------------------------------------------------
(* orch queue enqueue; enqueue-batch takes the same steps with a plan of several       *)
(* tasks.  The plan is built for a registered project; it is bound to HEAD when        *)
(* nothing of the project is unresolved, or as an earlier file of its revision was.     *)
EnqueueBegin(c, p, t, rev) ==
  /\ AtStep(c, "idle")
  /\ p \in registry
  /\ Cardinality(reports) < MaxReports
  /\ Goto(c, [pc |-> "binding", project |-> p, task |-> t, revision |-> rev,
              unresolved |-> Unresolved(p) # {}, bind |-> Unresolved(p) = {}])
  /\ UNCHANGED <<registry, root_head, files, queue_rows, reports, histories>>

EnqueueBinding(c) ==
  /\ AtStep(c, "binding")
  /\ LET earlier == files[cmd[c].revision] IN
       Goto(c, [cmd[c] EXCEPT !.pc = "build",
                              !.bind = IF earlier = NoEntry THEN @ ELSE earlier.base # NoEntry])
  /\ UNCHANGED <<registry, root_head, files, queue_rows, reports, histories>>

(* build_single_task_plan, of the registered project and its HEAD.                   *)
PlanFor(x) == [task |-> x.task, project |-> x.project,
               base |-> IF x.bind THEN root_head[Root(x.project)] ELSE NoEntry]

Builds(c, x, next) ==
  Goto(c, IF x.project \notin registry THEN NoCommand
          ELSE [pc |-> next, revision |-> x.revision, content |-> PlanFor(x), created |-> FALSE,
                binding |-> IF x.unresolved THEN "dynamic_at_verify" ELSE "admission_head"])

EnqueueBuild(c) ==
  /\ AtStep(c, "build")
  /\ Builds(c, cmd[c], "exists")
  /\ UNCHANGED <<registry, root_head, files, queue_rows, reports, histories>>

(* existed: created holds from here, until the file is found.                        *)
EnqueueExists(c) ==
  /\ AtStep(c, "exists")
  /\ Goto(c, [cmd[c] EXCEPT !.pc = "examine", !.created = files[cmd[c].revision] = NoEntry])
  /\ UNCHANGED <<registry, root_head, files, queue_rows, reports, histories>>

(* write_plan without replace: an equal file is used, another one is a conflict.      *)
ArtifactStatus(found, content) ==
  CASE found = NoEntry -> "ABSENT" [] found = content -> "EXISTS" [] OTHER -> "CONFLICT"

EnqueueExamine(c) ==
  /\ AtStep(c, "examine")
  /\ LET found == ArtifactStatus(files[cmd[c].revision], cmd[c].content) IN
       Goto(c, CASE found = "ABSENT" -> [cmd[c] EXCEPT !.pc = "write"]
                 [] found = "EXISTS" -> [cmd[c] EXCEPT !.pc = "read", !.created = FALSE]
                 [] OTHER -> NoCommand)
  /\ UNCHANGED <<registry, root_head, files, queue_rows, reports, histories>>

EnqueueWrite(c) ==
  /\ AtStep(c, "write")
  /\ files' = [files EXCEPT ![cmd[c].revision] = cmd[c].content]
  /\ Goto(c, [cmd[c] EXCEPT !.pc = "read"])
  /\ UNCHANGED <<registry, root_head, queue_rows, reports, histories>>

(* load_plan: the file is read, then one transaction compares and inserts.           *)
EnqueueRead(c) ==
  /\ AtStep(c, "read")
  /\ Goto(c, [pc |-> "load", revision |-> cmd[c].revision, content |-> cmd[c].content,
              created |-> cmd[c].created, binding |-> cmd[c].binding,
              loaded |-> files[cmd[c].revision]])
  /\ UNCHANGED <<registry, root_head, files, queue_rows, reports, histories>>

(* Faulty variant: a revision may be loaded again with another content.              *)
DigestUnchecked(rev, content) == FALSE

DigestConflict(rev, content) == plans[rev] # NoEntry /\ plans[rev] # content
TaskConflict(rev, content) ==
  tasks[content.task] # NoEntry /\ tasks[content.task].revision # rev

Refused(c) ==
  \/ cmd[c].loaded = NoEntry                          \* the file is gone
  \/ /\ cmd[c].loaded # NoEntry
     /\ \/ DigestConflict(cmd[c].revision, cmd[c].loaded)
        \/ TaskConflict(cmd[c].revision, cmd[c].loaded)

InsertPlan(rev, content) ==
  plans' = [plans EXCEPT ![rev] = IF @ = NoEntry THEN content ELSE @]

(* Faulty variant: a task that is already queued is queued afresh.                    *)
ReinsertTask(rev, content) ==
  tasks' = [tasks EXCEPT ![content.task] =
              [revision |-> rev, content |-> content, status |-> "READY"]]

InsertTask(rev, content) ==
  tasks' = [tasks EXCEPT ![content.task] = IF @ # NoEntry THEN @
              ELSE [revision |-> rev, content |-> content, status |-> "READY"]]

EnqueueLoad(c) ==
  /\ AtStep(c, "load")
  /\ ~Refused(c)
  /\ InsertPlan(cmd[c].revision, cmd[c].loaded)
  /\ InsertTask(cmd[c].revision, cmd[c].loaded)
  /\ reports' = reports \cup {[task |-> cmd[c].content.task, project |-> cmd[c].content.project,
                               revision |-> cmd[c].revision, content |-> cmd[c].loaded,
                               binding |-> cmd[c].binding]}
  /\ Goto(c, NoCommand)
  /\ UNCHANGED <<registry, root_head, files, paused, histories>>

(* A failed load removes the plan file this command created, whatever it holds now.   *)
EnqueueFails(c) ==
  /\ AtStep(c, "load")
  /\ Refused(c)
  /\ files' = IF cmd[c].created THEN [files EXCEPT ![cmd[c].revision] = NoEntry] ELSE files
  /\ Goto(c, NoCommand)
  /\ UNCHANGED <<registry, root_head, queue_rows, reports, histories>>

-----------------------------------------------------------------------------
(* orch project make-plan writes a plan over whatever its output path holds; outputs   *)
(* outside plans/, or there under another revision's name, touch nothing modelled here. *)
MakePlanBegin(c, p, t, rev) ==
  /\ AtStep(c, "idle")
  /\ p \in registry
  /\ Goto(c, [pc |-> "make", project |-> p, task |-> t, revision |-> rev,
              unresolved |-> Unresolved(p) # {}, bind |-> Unresolved(p) = {}])
  /\ UNCHANGED <<registry, root_head, files, queue_rows, reports, histories>>

MakePlanBuild(c) ==
  /\ AtStep(c, "make")
  /\ Builds(c, cmd[c], "output")
  /\ UNCHANGED <<registry, root_head, files, queue_rows, reports, histories>>

Enqueued == {r.revision : r \in reports}

MakePlanWrite(c) ==
  /\ AtStep(c, "output")
  /\ files' = [files EXCEPT ![cmd[c].revision] = cmd[c].content]
  /\ replaced' = replaced \cup ({cmd[c].revision} \cap Enqueued)
  /\ Goto(c, NoCommand)
  /\ UNCHANGED <<registry, root_head, queue_rows, reports, strays>>

(* orch load-plan: a plan file of any origin, loaded in one transaction; nobody asks    *)
(* the registry.                                                                     *)
LoadPlan(rev, content) ==
  /\ ~DigestConflict(rev, content) /\ ~TaskConflict(rev, content)
  /\ InsertPlan(rev, content)
  /\ InsertTask(rev, content)
  /\ strays' = strays \cup {t \in {content.task} : tasks[t] = NoEntry
                                                 /\ content.project \notin registry}
  /\ Meets(Commands)
  /\ UNCHANGED <<registry, root_head, files, paused, cmd, reports, replaced>>

Crash(c) ==
  /\ ~AtStep(c, "idle")
  /\ Goto(c, NoCommand)
  /\ UNCHANGED <<registry, root_head, files, queue_rows, reports, histories>>

-----------------------------------------------------------------------------
(* The rest of the ledger, as far as these commands see it.                         *)
Locked(r) == \E t \in QueueTasks : /\ tasks[t] # NoEntry /\ tasks[t].status = "ACTIVE"
                              /\ Root(tasks[t].content.project) = r

MovesTo(t, s) == /\ tasks' = [tasks EXCEPT ![t].status = s]
                 /\ UNCHANGED <<registry, files, plans, paused, commands, reports, histories>>

(* A task bound to a HEAD that has moved since is blocked by the claim.              *)
Claim(t) ==
  /\ tasks[t] # NoEntry /\ tasks[t].status = "READY"
  /\ LET p == tasks[t].content.project IN
       /\ p \notin paused
       /\ ~Locked(Root(p))
       /\ MovesTo(t, IF tasks[t].content.base \in {NoEntry, root_head[Root(p)]}
                      THEN "ACTIVE" ELSE "BLOCKED")
  /\ UNCHANGED root_head

Publish(t) ==
  /\ tasks[t] # NoEntry /\ tasks[t].status = "ACTIVE"
  /\ LET r == Root(tasks[t].content.project) IN
       root_head[r] < MaxHead /\ root_head' = [root_head EXCEPT ![r] = @ + 1]
  /\ MovesTo(t, "CLOSED")

AbortWork(t, retry) ==
  /\ tasks[t] # NoEntry /\ tasks[t].status = "ACTIVE"
  /\ MovesTo(t, IF retry THEN "READY" ELSE "BLOCKED")
  /\ UNCHANGED root_head

CancelQueued(t) ==
  /\ tasks[t] # NoEntry /\ tasks[t].status \in {"READY", "BLOCKED"}
  /\ MovesTo(t, "CLOSED")
  /\ UNCHANGED root_head

PauseProject(p) ==
  /\ WorkOf(p) # {} /\ p \notin paused
  /\ paused' = paused \cup {p}
  /\ UNCHANGED <<registry, root_head, files, plans, tasks, commands, reports, histories>>

ResumeProject(p) ==
  /\ p \in paused
  /\ paused' = paused \ {p}
  /\ UNCHANGED <<registry, root_head, files, plans, tasks, commands, reports, histories>>

(* orch readmit, as far as the queue goes: the rejected task o is cancelled and a plan  *)
(* from a file of the operator's is inserted for another registered project.          *)
Readmits(o, rev, content) ==
  LET old == tasks[o].content.project IN
  /\ tasks[o] # NoEntry /\ tasks[o].status \in {"READY", "BLOCKED"}
  /\ plans[rev] = NoEntry /\ tasks[content.task] = NoEntry
  /\ {old, content.project} \subseteq registry \ paused
  /\ Root(old) # Root(content.project)
  /\ ~Locked(Root(old)) /\ ~Locked(Root(content.project))
  /\ InsertPlan(rev, content)
  /\ tasks' = [tasks EXCEPT ![o].status = "CLOSED",
        ![content.task] = [revision |-> rev, content |-> content, status |-> "READY"]]
  /\ Meets(Commands)
  /\ UNCHANGED <<registry, root_head, files, paused, cmd, reports, histories>>

(* A command is started by its operator and then takes its own steps, or dies.       *)
Starts(c, p) == \/ \E b \in BOOLEAN : AddCheck(c, p, b)
                \/ RemoveGuard(c, p)
                \/ \E t \in QueueTasks, rev \in Revisions :
                     EnqueueBegin(c, p, t, rev) \/ MakePlanBegin(c, p, t, rev)

Continues(c) == \/ AddWrite(c) \/ RemoveUnlink(c) \/ RemoveRecord(c)
                \/ EnqueueBinding(c) \/ EnqueueBuild(c) \/ EnqueueExists(c)
                \/ EnqueueExamine(c) \/ EnqueueWrite(c) \/ EnqueueRead(c)
                \/ EnqueueLoad(c) \/ EnqueueFails(c)
                \/ MakePlanBuild(c) \/ MakePlanWrite(c)
                \/ Crash(c)

Inserts(content) == \E rev \in Revisions :
  LoadPlan(rev, content) \/ \E o \in QueueTasks : Readmits(o, rev, content)

LedgerStep == \/ \E t \in QueueTasks : \/ Claim(t) \/ Publish(t) \/ CancelQueued(t)
                                     \/ \E b \in BOOLEAN : AbortWork(t, b)
              \/ \E p \in Projects : PauseProject(p) \/ ResumeProject(p)

QueueNext == \/ \E c \in Commands : (\E p \in Projects : Starts(c, p)) \/ Continues(c)
             \/ \E content \in Contents : Inserts(content)
             \/ LedgerStep

QueueSpec == QueueInit /\ [][QueueNext]_queueVars

-----------------------------------------------------------------------------
(* Every store holds values of its type, and a task row refers to a plan row.          *)
QueueTypeOK ==
  /\ registry \subseteq Projects /\ paused \subseteq Projects
  /\ root_head \in [Roots -> 0 .. MaxHead]
  /\ files \in [Revisions -> Contents \cup {NoEntry}]
  /\ plans \in [Revisions -> Contents \cup {NoEntry}]
  /\ tasks \in [QueueTasks -> Rows \cup {NoEntry}]
  /\ \A t \in QueueTasks : tasks[t] # NoEntry => plans[tasks[t].revision] # NoEntry
  /\ \A c \in Commands : cmd[c].pc \in {"idle", "add", "remove", "record", "binding", "build",
                                        "exists", "examine", "write", "read", "load",
                                        "make", "output"}
  /\ reports \subseteq Reports /\ strays \subseteq QueueTasks /\ replaced \subseteq Revisions

(* load_plan: whichever commands race for a revision or a task id, the rows of a loaded  *)
(* revision are exactly what its recorded digest stands for.                          *)
TasksMatchPlans ==
  /\ \A t \in QueueTasks : tasks[t] # NoEntry => plans[tasks[t].revision] = tasks[t].content
  /\ \A v \in Revisions : plans[v] # NoEntry =>
       tasks[plans[v].task] # NoEntry /\ tasks[plans[v].task].revision = v

(* load_plan and readmit: a loaded plan and the payload of a queued task never change,   *)
(* and no later plan queues a task again that was closed.                             *)
LoadedStays ==
  /\ \A v \in Revisions : plans[v] # NoEntry => plans'[v] = plans[v]
  /\ \A t \in QueueTasks : tasks[t] # NoEntry =>
       /\ tasks'[t] # NoEntry /\ tasks'[t].content = tasks[t].content
       /\ tasks[t].status = "CLOSED" => tasks'[t].status = "CLOSED"

(* project remove: a project that is not registered has no unresolved work, but for the  *)
(* tasks that load-plan, which never asks the registry, queued while it was not.         *)
NoOrphanWork == \A p \in Projects \ registry : Unresolved(p) \subseteq strays

(* project add: one root is registered under at most one project id.                    *)
OneProjectPerRoot == \A p, q \in registry : Root(p) = Root(q) => p = q

(* queue enqueue: a command that answered ENQUEUED did queue the task it was given,       *)
(* for its project and under its revision.                                             *)
EnqueuedIsQueued ==
  \A r \in reports : LET row == tasks[r.task] IN
    row # NoEntry /\ row.revision = r.revision /\ row.content.project = r.project

(* queue enqueue: the plan file of an enqueued revision stays, with the content that was *)
(* loaded, also when later commands on the revision fail or die; only make-plan, which   *)
(* writes over what it finds, takes it away.                                           *)
PlanFileKept ==
  \A r \in reports : files[r.revision] = plans[r.revision] \/ r.revision \in replaced

(* load_plan: however many commands race, rows match the digest they were loaded        *)
(* from.  While commands did not overlap, whichever step they died after, an            *)
(* unregistered project has no unresolved work but what load-plan queued for it, a root  *)
(* has one project, an answer ENQUEUED is true, and the file of an enqueued revision is   *)
(* kept until make-plan writes over it.                                                *)
QueueSound ==
  /\ QueueTypeOK /\ TasksMatchPlans
  /\ ~overlapped => NoOrphanWork /\ OneProjectPerRoot /\ EnqueuedIsQueued /\ PlanFileKept

(* load_plan and readmit: a loaded plan and the payload of a queued task never change,   *)
(* and no later plan queues a task again that was closed.                             *)
LoadedIsFinal == [][LoadedStays]_queueVars
=============================================================================

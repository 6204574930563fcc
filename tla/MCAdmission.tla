----------------------------- MODULE MCAdmission -----------------------------
(****************************************************************************)
(* The ways a task enters the queue, one instance of each per part:          *)
(*   readmit   a chain of readmissions, history c0 - c1 - c2;                *)
(*   serial    one queue command at a time, dying anywhere, on two projects  *)
(*             and two roots;                                               *)
(*   direct    the same on one name, with plans from elsewhere: load-plan,    *)
(*             make-plan and the plan of a readmission;                     *)
(*   overlap   two queue commands at once on one project.                    *)
(* A behaviour plays one part; the variables of the other stay as they are.  *)
(****************************************************************************)
EXTENDS Readmission, ProjectQueue, TLC

CONSTANTS c0, c1, c2, d1, d2,
          n1, n2, r0, k1, k2     \* names, the root of "overlap", commands

MCParent == [c \in Commits |-> CASE c = c1 -> c0 [] c = c2 -> c1 [] OTHER -> None]
MCCommitOf == [d \in Dependencies |-> IF d = d1 THEN c1 ELSE c2]
MCNames == {n1, n2}
MCRoots == Workspaces \cup {r0}
MCQueueTasks == Tasks \ {First}
MCCommands == {k1, k2}
Symmetry == Permutations(Workspaces) \cup Permutations(Tasks \ {First})
            \cup Permutations(Revisions)

VARIABLE part
all == <<part, queueVars, vars>>

AdmissionInit ==
  /\ Init /\ QueueInit
  /\ payload[First].mode = "required" => payload[First].review_on_retry
  /\ \/ part = "readmit"
     \/ part \in {"serial", "direct", "overlap"} /\ payload[First].mode = "required"

Enters(steps) == \E c \in Commands : cmd'[c].pc \in steps

Serial ==
  /\ \/ \E p \in Names \X Workspaces : Starts(k1, p)
     \/ Continues(k1)
     \/ LedgerStep
  /\ ~Enters({"make"})

(* Bounds: no commit, pause or crash, one answer, at most one plan from elsewhere, made  *)
(* at HEAD.                                                                           *)
Direct ==
  /\ \/ \E p \in {n1} \X Workspaces : Starts(k1, p)
     \/ Continues(k1) /\ ~Crash(k1)
     \/ /\ \A v \in Revisions : plans[v] = NoEntry \/ v \in Enqueued
        /\ \E content \in [task : QueueTasks, project : {n1} \X Workspaces, base : {0}] :
             Inserts(content)
     \/ \E t \in QueueTasks : Claim(t) \/ CancelQueued(t)
  /\ reports # {} => ~Enters({"binding"})

(* Bounds: one commit, and no enqueue begins after the first answer.                   *)
Overlap ==
  /\ \/ \E c \in Commands : Starts(c, <<n1, r0>>)
     \/ \E c \in Commands : Continues(c)
     \/ LedgerStep
  /\ reports # {} => \A c \in Commands : cmd'[c].pc = "binding" => cmd[c].pc = "binding"
  /\ ~Enters({"make"})
  /\ root_head'[r0] <= 1

(* Bounds: a new task keeps the retry policy of the first, which its mode makes idle;    *)
(* one step of drift where every run is reviewed, none where no retry needs it.         *)
Drift == CASE ~payload[First].review_on_retry -> 0
           [] payload[First].mode = "required" -> 1
           [] OTHER -> MaxMoves

Readmit ==
  /\ Next
  /\ txn'.op = "readmit" =>
       txn'.proof.plan.payload.review_on_retry = payload[First].review_on_retry
  /\ moves' <= Drift

AdmissionNext ==
  \/ part = "readmit" /\ Readmit /\ UNCHANGED <<part, queueVars>>
  \/ part = "serial" /\ Serial /\ UNCHANGED <<part, vars>>
  \/ part = "direct" /\ Direct /\ UNCHANGED <<part, vars>>
  \/ part = "overlap" /\ Overlap /\ UNCHANGED <<part, vars>>

AdmissionSpec == AdmissionInit /\ [][AdmissionNext]_all
=============================================================================

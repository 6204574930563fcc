-------------------------- MODULE MCWorkerLifecycle --------------------------
(***************************************************************************)
(* WorkerLifecycle for TLC, with interchangeable routes, grants and        *)
(* operation ids.  A behaviour plays one scenario:                         *)
(*                                                                         *)
(*   retries  one task with two attempts that may be planned again;        *)
(*   tasks    two tasks with one attempt each, one writer key.             *)
(***************************************************************************)
EXTENDS WorkerLifecycle, TLC

CONSTANT t1

VARIABLE scenario

Within ==
    \/ scenario = "retries" /\ \A t \in Tasks \ {t1} :
          task'[t] = task[t] /\ run'[t] = run[t] /\ \A g \in Grants : grant'[g].task # t
    \/ scenario = "tasks" /\ \A t \in Tasks : task'[t].rev = 0 /\ run'[t][2] = NoRun

MCInit == Init /\ scenario \in {"retries", "tasks"}
MCNext == Next /\ Within /\ UNCHANGED scenario
MCSpec == MCInit /\ [][MCNext]_<<vars, scenario>>

Symmetry == Permutations(Routes) \cup Permutations(Ops) \cup Permutations(Grants)
=============================================================================

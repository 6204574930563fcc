--------------------------- MODULE MCOwnedProcess ---------------------------
(***************************************************************************)
(* OwnedProcess for TLC.  A behaviour plays one scenario:                  *)
(*                                                                         *)
(*   pair      one run whose worker starts two processes, polls and        *)
(*             terminates them; the owner may crash;                       *)
(*   owners    two runs that compete for the last place under the limit    *)
(*             over all runs: a process of a third run, whose owner died,  *)
(*             has no recorded exit;                                       *)
(*   deadline  one process, observed twice, its supervisor scheduled       *)
(*             fairly.                                                     *)
(***************************************************************************)
EXTENDS OwnedProcess

VARIABLE scenario

MCRunOf == [op \in Ops |-> CASE op \in {"s1", "s2"} -> "run1"
                             [] op = "s3" -> "run2"
                             [] op = "s0" -> "run0"]

OpsIn == [pair |-> {"s1", "s2"}, owners |-> {"s1", "s3"}, deadline |-> {"s1"}]
RunsIn == [pair |-> {"run1"}, owners |-> {"run1", "run2"}, deadline |-> {"run1"}]
IdsIn == [pair |-> {"q1"}, owners |-> {}, deadline |-> Ids]

\* The owner of run0 died after it had spawned s0.
OrphanInit ==
    /\ runOpen = [r \in Runs |-> TRUE]
    /\ authority = [r \in Runs |-> TRUE]
    /\ dispatched = {"s0"}
    /\ exitRow = [op \in Ops |-> None]
    /\ os = [op \in Ops |-> IF op = "s0" THEN "running" ELSE None]
    /\ spawned = [op \in Ops |-> IF op = "s0" THEN 1 ELSE 0]
    /\ child = [op \in Ops |-> NoChild]
    /\ cache = [r \in Runs |-> {}]
    /\ starting = [r \in Runs |-> None]
    /\ lock = None
    /\ closed = [r \in Runs |-> FALSE]
    /\ told = [op \in Ops |-> IF op = "s0" THEN "RUNNING" ELSE None]
    /\ crashes = 0

MCInit == \/ scenario \in {"pair", "deadline"} /\ Init
          \/ scenario = "owners" /\ OrphanInit

MCNext ==
    /\ \/ \E r \in RunsIn[scenario] :
             \/ \E op \in OpsIn[scenario] : Dispatch(r, op) \/ DispatchRefused(r, op)
             \/ Spawn(r) \/ SpawnFailed(r)
             \/ \E op \in OpsIn[scenario], id \in IdsIn[scenario] :
                   \/ \E terminate \in BOOLEAN : Observe(r, id, op, terminate)
                   \/ ObserveOrphan(r, id, op)
             \/ Denied(r) \/ Revoke(r) \/ Close(r) \/ Crash(r) \/ EndRun(r)
       \/ \E op \in OpsIn[scenario] : \/ Supervise(op) \/ SupervisorFails(op) \/ StreamFails(op)
                                      \/ Exit(op) \/ CloseKill(op)
       \/ scenario # "owners" /\ (TakeLock \/ ReleaseLock)
    /\ UNCHANGED scenario

\* Supervisor threads run, and nobody keeps the runtime lock for ever.
MCFairness ==
    /\ WF_vars(scenario = "deadline" /\ Supervise("s1"))
    /\ WF_vars(scenario = "deadline" /\ ReleaseLock)
    /\ WF_vars(scenario = "deadline" /\ (Spawn("run1") \/ SpawnFailed("run1")))

MCSpec == MCInit /\ [][MCNext]_<<vars, scenario>> /\ MCFairness

-----------------------------------------------------------------------------
\* A supervisor ends: whatever the process does, its deadline, the signals and
\* the grace periods bring the child to a recorded exit or to unknown.
SupervisorEnds ==
    scenario = "deadline" /\ Watching("s1") ~> child["s1"].watch \in {"gone", None}
=============================================================================

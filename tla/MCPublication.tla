--------------------------- MODULE MCPublication ---------------------------
(***************************************************************************)
(* Publication for TLC.  A behaviour plays one scenario:                    *)
(*                                                                          *)
(*   serial    the operator runs one call at a time; people edit, stage,    *)
(*             commit and push meanwhile;                                   *)
(*   races     two calls at once, with the same interference;               *)
(*   recovery  calls die or lose their answer, nobody interferes, and the   *)
(*             operator keeps running publish-reconcile --resume.           *)
(***************************************************************************)
EXTENDS Publication

CONSTANTS
  RaceFaults,    \* bound on crashes and errors where two calls race
  SerialCommits  \* bound on prepared commits outside "recovery"

VARIABLE scenario

Within ==
  /\ scenario # "races" => call'["c2"] = Idle
  /\ scenario = "races" => faults' <= RaceFaults
  /\ scenario # "recovery" => commits' <= SerialCommits

MCInit ==
  /\ Init
  /\ scenario \in {"serial", "races", "recovery"}
  /\ scenario = "races" => remote = 0

MCNext ==
  /\ \/ (\E c \in Callers : CallStep(c)) /\ UNCHANGED disturbed
     \/ scenario # "recovery" /\ Outsiders
  /\ Remember
  /\ Within
  /\ UNCHANGED scenario

(* In "recovery" a call that is running goes on (or raises when it cannot), and the     *)
(* operator keeps running publish-reconcile --resume, as the journal asks.                *)
Alone(step) == scenario = "recovery" /\ step /\ UNCHANGED disturbed /\ Remember
MCFairness ==
  /\ WF_vars(Alone(Work("c1")))
  /\ WF_vars(Alone(Raise("c1") /\ Stuck("c1")))
  /\ SF_vars(Alone(ReconcileStart("c1", TRUE)))

MCSpec == MCInit /\ [][MCNext]_<<vars, scenario>> /\ MCFairness

-----------------------------------------------------------------------------
(* When nobody interferes, what a crash or an error interrupts is brought to an end by     *)
(* publish-reconcile --resume.                                                             *)
QuietRecovers ==
  scenario = "recovery" /\ row.status \notin {"NONE", "ABANDONED", "COMPLETE"}
    ~> row.status \in {"ABANDONED", "COMPLETE"}
=============================================================================

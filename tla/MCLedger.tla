------------------------------ MODULE MCLedger ------------------------------
(***************************************************************************)
(* Instances of Ledger for TLC.  A behaviour plays one scenario: its tasks  *)
(* are the ones plans may load, and its bounds keep the others out of the   *)
(* product.                                                                 *)
(*                                                                          *)
(*   repair   one Git task with every gate and one retry, two paths, a      *)
(*            commit;                                                       *)
(*   queue    two plans and projects, a dependency, pauses;                 *)
(*   writers  two independent tasks of one writer key outside Git, the      *)
(*            first with a retry where operators race;                      *)
(*   reviews  one task whose snapshot needs a reviewer and the owner,       *)
(*            verified twice at once.                                       *)
(***************************************************************************)
EXTENDS Ledger, TLC

CONSTANT Scenarios

Base == [plan_revision |-> "rev1", ordinal |-> 0, project_id |-> "p1",
         writer_key |-> "k1", workspace |-> "w1", dependencies |-> {},
         allowed_paths |-> {1}, max_attempts |-> 1, publication |-> "none",
         owner_acceptance |-> FALSE, review_mode |-> "off", sensitive |-> {},
         review_on_retry |-> TRUE]

PayloadSerial ==
  "g" :> [Base EXCEPT !.plan_revision = "revg", !.writer_key = "kg", !.workspace = "wg",
            !.max_attempts = 2, !.publication = "git", !.owner_acceptance = TRUE,
            !.review_mode = "required"]
  @@ "t1" :> Base
  @@ "t2" :> [Base EXCEPT !.plan_revision = "rev2", !.project_id = "p2",
                !.dependencies = {"t1"}, !.review_mode = "risk_based", !.sensitive = {1}]
  @@ "t3" :> [Base EXCEPT !.plan_revision = "rev3"]

PayloadRaces ==
  "t1" :> [Base EXCEPT !.max_attempts = 2]
  @@ "t3" :> [Base EXCEPT !.ordinal = 1]
  @@ "r" :> [Base EXCEPT !.plan_revision = "revr", !.owner_acceptance = TRUE,
               !.review_mode = "required"]

PlansOf == [repair |-> {"revg"}, queue |-> {"rev1", "rev2"}, writers |-> {"rev1", "rev3"},
            reviews |-> {"revr"}]

VARIABLE scenario

(* Edits: two paths and three contents where Git compares them, one bit elsewhere.      *)
Edits == IF scenario = "repair" THEN {<<"wg", 1, 0>>, <<"wg", 1, 1>>, <<"wg", 1, 2>>,
                                      <<"wg", 2, 0>>, <<"wg", 2, 1>>}
         ELSE {<<"w1", 1, 0>>, <<"w1", 1, 1>>}

(* Calls of verify at once, and snapshots of one run, are varied in "reviews" alone.     *)
OneVerify ==
  /\ \A v \in Verifiers : v # "v1" => verifier'[v] = IdleVerifier
  /\ \A r \in Runs : snapshot'[r].gen <= 1

MCInit == Init /\ scenario \in Scenarios
MCNext ==
  /\ \/ \E rev \in PlansOf[scenario] \cap Revisions : LoadPlan(rev)
     \/ scenario = "queue" /\ (Pause \/ Resume)
     \/ scenario = "queue" /\ \E p \in Projects : PauseProject(p) \/ ResumeProject(p)
     \/ \E t \in Tasks : CancelTask(t)
     \/ ClaimStep \/ WorkerStep \/ GateStep
     \/ VerifyStep /\ (scenario = "reviews" \/ OneVerify)
     \/ \E e \in Edits : Edit(e[1], e[2], e[3])
     \/ scenario = "repair" /\ OutsideCommit("wg")
  /\ UNCHANGED scenario
MCSpec == MCInit /\ [][MCNext]_<<vars, scenario>>

=============================================================================

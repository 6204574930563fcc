---------------------------- MODULE MCRetention ----------------------------
(***************************************************************************)
(* Retention for TLC.  A behaviour plays one scenario:                     *)
(*                                                                         *)
(*   ledger    one prune of logs and a review export of two attempts at    *)
(*             one task, while the runs move on: the first is at work, or  *)
(*             over while its verify may still write, and the second has   *)
(*             not been claimed yet;                                       *)
(*   evidence  two prunes of the same files, both runs over, one touch;    *)
(*   backups   two prunes of two backups and no evidence.                  *)
(***************************************************************************)
EXTENDS Retention, TLC

CONSTANTS r1, r2, t, log1, tree1, log2, b1, b2

VARIABLE scenario

TwoRuns == <<r1, r2>>
TwoBackups == <<b1, b2>>
OwnerOfEach == (log1 :> r1) @@ (tree1 :> r2) @@ (log2 :> r2)
OneTask == (r1 :> t) @@ (r2 :> t)

Given == IF scenario = "backups" THEN BackupFiles ELSE Evidence

MCInit ==
    /\ scenario \in {"ledger", "evidence", "backups"}
    /\ run \in [EvidenceRuns -> AttemptStates]
    /\ verifying \in SUBSET {r1}
    /\ IF scenario = "ledger"
       THEN /\ run[r2] = "unclaimed"
            /\ run[r1] = "over" \/ (run[r1] = "working" /\ verifying = {})
       ELSE run = [r \in EvidenceRuns |-> "over"] /\ verifying = {}
    /\ file = [f \in Files |->
                 IF f \in Given /\ (f \in Evidence => run[OwnerOf[f]] # "unclaimed")
                 THEN [content |-> 0, time |-> 0] ELSE Absent]
    /\ hold = [p \in Prunes |-> Absent]
    /\ left = {}
    /\ task = [x \in EvidenceTasks |->
                 IF \E r \in EvidenceRuns : run[r] = "working" THEN "busy" ELSE "ready"]
    /\ revived = {}
    /\ prune = [p \in Prunes |-> IdlePrune]
    /\ touches = 0
    /\ unlinked = {}
    /\ meddled = [p \in Prunes |-> FALSE]

MCNext ==
    /\ \/ \E p \in Prunes : PruneStep(p) \/ Dies(p)
       \/ \E f \in Given : Rewrite(f) \/ Remove(f)
       \/ \E r \in EvidenceRuns : RunMoves(r)
    /\ scenario = "evidence" => touches' <= 1
    /\ scenario = "ledger" => Cardinality({p \in Prunes : prune'[p].at # "idle"}) <= 1
    /\ UNCHANGED scenario

MCSpec == MCInit /\ [][MCNext]_<<retentionVars, scenario>>

PruneSymmetry == Permutations(Prunes)
=============================================================================

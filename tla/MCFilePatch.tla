----------------------------- MODULE MCFilePatch -----------------------------
(***************************************************************************)
(* FilePatch for TLC.  A behaviour plays one scenario:                      *)
(*                                                                          *)
(*   races     two callers, a patch, its inverse under another id and the   *)
(*             first id reused for something else, edits and faults;        *)
(*   recovery  one caller, a patch and its inverse, a fault, no edits; the  *)
(*             operator reconciles what stays open.                         *)
(***************************************************************************)
EXTENDS FilePatch

CONSTANT RecoveryFaults  \* bound on faults in "recovery"

VARIABLE scenario

PatchAndInverse ==
  {[op |-> "a", base |-> "x", new |-> "y"], [op |-> "b", base |-> "y", new |-> "x"]}
PatchRequests == PatchAndInverse \cup {[op |-> "a", base |-> "y", new |-> "x"]}

MCInit == Init /\ scenario \in {"races", "recovery"}

Within ==
  scenario = "recovery" => /\ call'["c2"] = Idle /\ call'["c1"].req \in PatchAndInverse \cup {Idle.req}
                           /\ edits' = 0 /\ faults' <= RecoveryFaults
MCNext == Next /\ Within /\ UNCHANGED scenario

(* In "recovery" a running call goes on, and the operator reconciles what stays open.      *)
MCFairness ==
  /\ WF_vars(scenario = "recovery" /\ (Work("c1") \/ (Fail("c1") /\ UNCHANGED faults)))
  /\ \A q \in PatchAndInverse :
       SF_vars(scenario = "recovery" /\ ReconcileStart("c1", q) /\ record[q.op].result = "NONE")
MCSpec == MCInit /\ [][MCNext]_<<vars, scenario>> /\ MCFairness

-----------------------------------------------------------------------------
(* A crash or an error after the publication record is resolved by reconcile, unless it left *)
(* the evidence unreadable or a later operation has replaced the very file this one wrote     *)
(* (its original is the inode of o): apply accepts it although the first is unresolved, and   *)
(* reconcile then finds neither the original nor the staged file, for ever.                    *)
Overtaken(o) == \E p \in Ops : record[p].publication /\ record[p].original.ino = o
Recovers ==
  \A o \in Ops :
    scenario = "recovery" /\ record[o].publication
      ~> record[o].result # "NONE" \/ torn # {} \/ Overtaken(o)
=============================================================================

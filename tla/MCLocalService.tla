--------------------------- MODULE MCLocalService ---------------------------
(***************************************************************************)
(* LocalService for TLC.  A behaviour plays one scenario:                  *)
(*                                                                         *)
(*   answers  from setup on, two routes and two connections; the ledger    *)
(*            takes back and grants again the authority of one run;        *)
(*   ends     one of the two routes was retired before; three connections  *)
(*            compete for two places, and the service runs fairly.         *)
(***************************************************************************)
EXTENDS LocalService

VARIABLE scenario

\* The service in its loop after the run of r2 lost its authority.
OneRetired ==
    /\ pc = "top"
    /\ route = [r \in Routes |-> [retired |-> r = "r2", peer |-> NoOne, credential |-> r # "r2"]]
    /\ owned = [r \in Routes |->
         IF r = "r2" THEN [state |-> "released", scope |-> "none",
                           processes |-> "none", session |-> FALSE]
         ELSE [state |-> "open", scope |-> "held", processes |-> "held", session |-> TRUE]]
    /\ peer = [c \in Conns |-> [Gone EXCEPT !.state = "new"]]
    /\ batch = {} /\ writing = NoOne
    /\ native = [r \in Routes |-> r # "r2"]
    /\ socket = TRUE /\ idle = FALSE /\ failed = TRUE
    /\ flips = 1
    /\ fdCloses = [r \in Routes |-> IF r = "r2" THEN 1 ELSE 0]

MCInit == \/ scenario = "answers" /\ ServiceInit
          \/ scenario = "ends" /\ OneRetired

\* The third connection and the deadlines of peers belong to "ends"; there a stop
\* may fall anywhere, in "answers" while no answer is queued.
Within ==
    /\ native'["r2"] = native["r2"]
    /\ scenario = "answers" =>
         /\ peer'["c3"] = peer["c3"]
         /\ \A c \in Conns : ~peer'[c].late
         /\ pc' = "cleanup" => \A c \in Conns : peer[c].out = "none"

MCNext == ServiceNext /\ Within /\ UNCHANGED scenario

\* The service thread keeps running and the clock does not stop.
MCFairness ==
    /\ WF_serviceVars(scenario = "ends" /\ (Loop \/ Finish))
    /\ \A c \in Conns : WF_serviceVars(scenario = "ends" /\ PeerDeadline(c))
    /\ WF_serviceVars(scenario = "ends" /\ IdleDeadline)

MCSpec == MCInit /\ [][MCNext]_<<serviceVars, scenario>> /\ MCFairness

-----------------------------------------------------------------------------
\* Once every route is retired the service ends by itself: unauthenticated
\* peers cannot keep it up, and the refused ones only until their deadline.
RetiredServiceEnds ==
    scenario = "ends" /\ AllRetired /\ pc \in {"top", "events"} ~> pc = "ended"
=============================================================================

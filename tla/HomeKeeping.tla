----------------------------- MODULE HomeKeeping -----------------------------
(***************************************************************************)
(* What replacing a home promises, without journals, renames or side       *)
(* directories: a set of undamaged homes is kept, at most one of them is   *)
(* served, and a home is given up only while another one is served.        *)
(***************************************************************************)
CONSTANTS HomeId, First, Unserved

VARIABLES kept, served

kvars == <<kept, served>>

KInit == kept = {First} /\ served = First

\* A backup is restored beside the home being served.
Add(h) == /\ served # Unserved
          /\ h \in HomeId \ kept
          /\ kept' = kept \cup {h}
          /\ UNCHANGED served

\* The served home is taken out of service and kept.
Withdraw == /\ served # Unserved
            /\ served' = Unserved
            /\ UNCHANGED kept

\* A kept home goes into service.
Serve(h) == /\ served = Unserved
            /\ h \in kept
            /\ served' = h
            /\ UNCHANGED kept

\* A home that is not served is deleted, behind one that is.
Discard(h) == /\ served # Unserved
              /\ h \in kept \ {served}
              /\ kept' = kept \ {h}
              /\ UNCHANGED served

KNext == \/ Withdraw
         \/ \E h \in HomeId : Add(h) \/ Serve(h) \/ Discard(h)

KSpec == KInit /\ [][KNext]_kvars
=============================================================================

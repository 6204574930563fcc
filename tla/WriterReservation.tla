-------------------------- MODULE WriterReservation --------------------------
(***************************************************************************)
(* What the ledger promises about writer keys: a holder takes a key nobody   *)
(* holds, keeps it until it lets go, and never holds it again.               *)
(***************************************************************************)
CONSTANTS
  Holders,  \* runs
  KeyOf(_)  \* the key of each run

VARIABLES
  holding,  \* runs that hold their key
  retired   \* runs that have let go of it

reservationVars == <<holding, retired>>

Init == holding = {} /\ retired = {}

Acquire(h) ==
  /\ h \notin holding \cup retired
  /\ \A g \in holding : KeyOf(g) # KeyOf(h)
  /\ holding' = holding \cup {h}
  /\ UNCHANGED retired

Release(h) ==
  /\ h \in holding
  /\ holding' = holding \ {h}
  /\ retired' = retired \cup {h}

Next == \E h \in Holders : Acquire(h) \/ Release(h)

Spec == Init /\ [][Next]_reservationVars

(* No key has two holders, and who let go of a key does not hold it.                  *)
Exclusive ==
  /\ \A g, h \in holding : KeyOf(g) = KeyOf(h) => g = h
  /\ holding \cap retired = {}
=============================================================================

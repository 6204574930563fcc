------------------------- MODULE MCHomeReplacement -------------------------
(***************************************************************************)
(* HomeReplacement for TLC.  A behaviour plays one scenario:               *)
(*                                                                         *)
(*   alone  one operator, calls that die anywhere, two archives; the       *)
(*          operator follows inspect;                                      *)
(*   races  one operator replaces while another reconciles, the archive    *)
(*          may be the one the home came from, and `orch setup` may        *)
(*          initialise the destination in the gap.                         *)
(***************************************************************************)
EXTENDS HomeReplacement

CONSTANTS
    Operator,      \* who works alone, and who replaces in a race
    RaceArchives   \* what is restored in a race

ASSUME OperatorAssumption == Operator \in Callers /\ RaceArchives \subseteq Archives

VARIABLE scenario

MCInit == Init /\ scenario \in {"alone", "races"}

Alone ==
    /\ scenario = "alone"
    /\ \/ \E a \in Archives : ReplaceStart(Operator, a) /\ receipt[fs[Dest]] # a
       \/ \E m \in Modes : ReconcileStart(Operator, m)
       \/ Effect(Operator) \/ Fault(Operator)
       \/ LoadWork \/ FinishWork

Races ==
    /\ scenario = "races"
    /\ \/ \E a \in RaceArchives : ReplaceStart(Operator, a)
       \/ \E c \in Callers : (\E m \in Modes : ReconcileStart(c, m)) \/ Effect(c)
       \/ LoadWork \/ FinishWork \/ SetupHome

MCNext == (Alone \/ Races) /\ UNCHANGED scenario

\* A running call takes its next step, and an operator who finds a journal
\* with nobody working on it follows inspect.
MCSpec == /\ MCInit /\ [][MCNext]_<<vars, scenario>>
          /\ WF_vars(scenario = "alone" /\ Effect(Operator))
          /\ SF_vars(scenario = "alone" /\ FollowAdvice(Operator))

-----------------------------------------------------------------------------
\* The journal leads on.  inspect and reconcile read the same directories by two tables:
\* while one operator works alone and no cleanup left a restored copy half deleted, a
\* command that inspect offers is never refused by reconcile, a journal without one is
\* that of an operation completed or withdrawn with an undamaged home in service, and when
\* the journal is gone nothing but a restored copy whose call ended before the journal was
\* written is left beside the destination.
AdviceLeadsOn ==
    scenario = "alone" /\ torn = {} => AdviceIsSound /\ NeverStranded /\ NoJournalNoDebris

\* An interrupted replacement ends: an operator who follows inspect reaches the point where
\* the destination is served and the journal is gone, or is one of the two no command
\* removes: that of a completed operation, or of one withdrawn before it began.
Settled ==
    /\ fs[Dest] \in whole
    /\ journal = NoJournal \/ journal.status = "COMPLETE" \/ Withdrawn
EventuallySettled == scenario = "alone" /\ journal # NoJournal ~> Settled \/ torn # {}

\* Replacing, resuming, rolling back and finalizing a home, with a crash between any two
\* effects, never do anything but add a restored home, take the served one out of service,
\* serve a kept one, or delete one behind another, up to the first cleanup that leaves a
\* restored copy half deleted.
ImplementsKeeping ==
    /\ Keeping!KInit
    /\ [][scenario = "alone" /\ torn' = {} => [Keeping!KNext]_<<whole, fs[Dest]>>]_vars
=============================================================================

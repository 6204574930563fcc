-------------------------- MODULE PublicationProofs --------------------------
(***************************************************************************)
(* Theorems about module Publication, for any number of crashing and         *)
(* retried publish and publish-reconcile calls: its types, that the branch   *)
(* is moved to at most one commit for a run even when they overlap, and,     *)
(* while they do not, that the journal is true of Git and only moves on.     *)
(***************************************************************************)
EXTENDS Publication, TLAPS

Pcs == {"idle", "preflight", "intent", "add", "journal", "abandon", "prepare", "move",
        "cas", "inspect", "push", "confirm", "finalize", "failed"}
Phases == {"INTENT", "STAGED", "PREPARED", "COMMITTED", "PUSHED", "REMOTE_VERIFIED"}

(* A call past prepare knows its commit.  (Not implied by the types; the types of the    *)
(* branch history need it.)                                                              *)
CommitKnown ==
  \A c \in Callers :
    /\ call[c].pc \in {"move", "cas", "push", "inspect", "confirm", "finalize"} =>
         call[c].commit # 0
    /\ call[c].pc = "journal" =>
         call[c].phase # "INTENT" /\ (call[c].phase # "STAGED" => call[c].commit # 0)

(* The branch never returns to the base once it was moved, and it was moved once.        *)
LandedOnce == OneCommitLands /\ (landed # {} => branch # 0)

PublicationInv == TypeOK /\ CommitKnown /\ LandedOnce

LEMMA InvInit == Init => PublicationInv
<1>. SUFFICES ASSUME Init PROVE PublicationInv
  OBVIOUS
<1>1. overlapped \in BOOLEAN /\ disturbed \in BOOLEAN
  BY DEF Init
<1>2. TypeOK
  BY <1>1, PublicationAssumption DEF Init, TypeOK, Tips, JournalStates, CallType, Idle
<1>3. CommitKnown /\ LandedOnce
  BY DEF Init, CommitKnown, LandedOnce, OneCommitLands, Idle
<1>4. QED
  BY <1>2, <1>3 DEF PublicationInv

-----------------------------------------------------------------------------
(* What a step does to its own call record, once: the type and CommitKnown follow from    *)
(* the record alone.                                                                      *)
GoodCall(x) ==
  /\ x \in CallType
  /\ x.pc \in {"move", "cas", "push", "inspect", "confirm", "finalize"} => x.commit # 0
  /\ x.pc = "journal" => x.phase # "INTENT" /\ (x.phase # "STAGED" => x.commit # 0)

LEMMA CallUpdate ==
  ASSUME TypeOK, CommitKnown, NEW c \in Callers, NEW x, GoodCall(x),
         call' = [call EXCEPT ![c] = x]
  PROVE  call' \in [Callers -> CallType] /\ CommitKnown'
BY DEF TypeOK, CommitKnown, GoodCall

LEMMA GoodMoves ==
  ASSUME NEW x, GoodCall(x)
  PROVE  /\ GoodCall(Idle)
         /\ \A p \in {"idle", "preflight", "intent", "add", "abandon", "prepare", "failed"} :
              GoodCall([x EXCEPT !.pc = p])
         /\ x.commit # 0 =>
              /\ \A p \in Pcs \ {"journal"} : GoodCall([x EXCEPT !.pc = p])
              /\ \A f \in Phases \ {"INTENT"} : GoodCall([x EXCEPT !.pc = "journal", !.phase = f])
<1>1. GoodCall(Idle)
  BY PublicationAssumption DEF GoodCall, Idle, CallType
<1>2. ASSUME NEW p \in Pcs, p # "journal", x.commit # 0 \/ p \in {"idle", "preflight", "intent",
                   "add", "abandon", "prepare", "failed"}
      PROVE  GoodCall([x EXCEPT !.pc = p])
  BY <1>2 DEF GoodCall, CallType, Pcs
<1>3. ASSUME NEW f \in Phases \ {"INTENT"}, x.commit # 0
      PROVE  GoodCall([x EXCEPT !.pc = "journal", !.phase = f])
  BY <1>3 DEF GoodCall, CallType, Phases
<1>4. QED
  BY <1>1, <1>2, <1>3 DEF Pcs

(* A call that is not idle, with the fields its steps read.                                *)
LEMMA CallFacts ==
  ASSUME TypeOK, CommitKnown, NEW c \in Callers
  PROVE  /\ GoodCall(call[c])
         /\ call[c].phase \in Phases /\ call[c].commit \in 0 .. MaxCommits
         /\ row.status \in JournalStates /\ row.commit \in 0 .. MaxCommits
         /\ row.remote \in 0 .. MaxCommits
BY DEF TypeOK, CommitKnown, GoodCall, CallType, Phases

(* Where a call goes on after its journal entry.                                            *)
LEMMA AfterJournalFacts ==
  ASSUME NEW k, NEW f \in Phases \ {"INTENT"}
  PROVE  /\ f = "STAGED" => AfterJournal(k, f) = "prepare"
         /\ AfterJournal(k, f) \in {"prepare", "move", "finalize", "push", "inspect", "confirm"}
BY DEF AfterJournal, Phases

LEMMA WorkCall ==
  ASSUME TypeOK, CommitKnown, NEW c \in Callers, Work(c)
  PROVE  \E x : GoodCall(x) /\ call' = [call EXCEPT ![c] = x]
<1>0. /\ GoodCall(call[c]) /\ call \in [Callers -> CallType] /\ Idle.pc = "idle"
      /\ call[c].phase \in Phases /\ call[c].commit \in 0 .. MaxCommits
  BY CallFacts DEF TypeOK, Idle
<1>1. CASE Preflight(c) \/ Intent(c)
  <2>1. \E p \in {"intent", "add"} : call' = [call EXCEPT ![c].pc = p]
    BY <1>1 DEF Preflight, Intent, Goto
  <2>2. QED
    BY <1>0, <2>1, GoodMoves
<1>2. CASE Add(c)
  <2>. DEFINE x == [call[c] EXCEPT !.pc = IF branch = 0 /\ work = "snap" THEN "journal" ELSE "failed",
                        !.phase = IF branch = 0 /\ work = "snap" THEN "STAGED" ELSE @]
  <2>1. call' = [call EXCEPT ![c] = x]
    BY <1>0, <1>2 DEF Add
  <2>2. GoodCall(x)
    BY <1>0 DEF GoodCall, CallType
  <2>3. QED
    BY <2>1, <2>2
<1>3. CASE Prepare(c)
  <2>. DEFINE x == [call[c] EXCEPT !.pc = "journal", !.phase = "PREPARED", !.commit = commits + 1]
  <2>1. call' = [call EXCEPT ![c] = x]
    BY <1>0, <1>3 DEF Prepare
  <2>2. commits + 1 \in 0 .. MaxCommits /\ commits + 1 # 0
    BY <1>3, PublicationAssumption DEF Prepare, TypeOK
  <2>3. GoodCall(x)
    BY <1>0, <2>2 DEF GoodCall, CallType
  <2>4. QED
    BY <2>1, <2>3
<1>4. CASE Guard(c) \/ InspectPending(c)
  <2>1. /\ \E p \in {"cas", "push"} : call' = [call EXCEPT ![c].pc = p]
        /\ call[c].commit # 0
    BY <1>0, <1>4 DEF Guard, InspectPending, At, Goto, GoodCall
  <2>2. \A p \in {"cas", "push"} : GoodCall([call[c] EXCEPT !.pc = p])
    BY <1>0, <2>1, GoodMoves DEF Pcs
  <2>3. QED
    BY <1>0, <2>1, <2>2
<1>5. CASE MoveRef(c) \/ Push(c) \/ Confirm(c)
  <2>1. /\ \E f \in {"COMMITTED", "PUSHED", "REMOTE_VERIFIED"} :
             call' = [call EXCEPT ![c].pc = "journal", ![c].phase = f]
        /\ call[c].commit # 0
    BY <1>0, <1>5 DEF MoveRef, Push, Confirm, At, GoodCall
  <2>2. \A f \in {"COMMITTED", "PUSHED", "REMOTE_VERIFIED"} :
          GoodCall([call[c] EXCEPT !.pc = "journal", !.phase = f])
    BY <1>0, <2>1, GoodMoves DEF Phases
  <2>3. QED
    BY <1>0, <2>1, <2>2
<1>6. CASE Journal(c)
  <2>. DEFINE q == AfterJournal(call[c].kind, call[c].phase)
  <2>1. call[c].phase # "INTENT" /\ (call[c].phase # "STAGED" => call[c].commit # 0)
    BY <1>0, <1>6 DEF Journal, At, GoodCall
  <2>2. /\ call[c].phase = "STAGED" => q = "prepare"
        /\ q \in {"prepare", "move", "finalize", "push", "inspect", "confirm"}
    BY <1>0, <2>1, AfterJournalFacts
  <2>3. call' = [call EXCEPT ![c] = [call[c] EXCEPT !.pc = q]]
    BY <1>0, <1>6 DEF Journal, Goto
  <2>. HIDE DEF q
  <2>4. GoodCall([call[c] EXCEPT !.pc = q])
    BY <1>0, <2>1, <2>2, GoodMoves DEF Pcs
  <2>5. QED
    BY <2>3, <2>4
<1>7. CASE Finalize(c) \/ Abandon(c) \/ ReportOnly(c) \/ RecordError(c)
  <2>1. call' = [call EXCEPT ![c] = Idle]
    BY <1>7 DEF Finalize, Abandon, ReportOnly, RecordError, Return
  <2>2. QED
    BY <1>0, <2>1, GoodMoves
<1>8. QED
  BY <1>1, <1>2, <1>3, <1>4, <1>5, <1>6, <1>7 DEF Work

(* The calls' other steps.                                                                   *)
LEMMA StartCall ==
  ASSUME TypeOK, CommitKnown, NEW c \in Callers,
         \/ PublishStart(c) \/ ReconcileStart(c, TRUE) \/ ReconcileStart(c, FALSE)
         \/ PushLost(c) \/ Raise(c) \/ Crash(c)
  PROVE  \E x : GoodCall(x) /\ call' = [call EXCEPT ![c] = x]
<1>0. GoodCall(call[c]) /\ call \in [Callers -> CallType]
  BY CallFacts DEF TypeOK
<1>1. CASE PublishStart(c)
  <2>. DEFINE x == [kind |-> "publish", pc |-> "preflight", phase |-> "INTENT", commit |-> 0,
                    resume |-> TRUE]
  <2>2. 0 \in 0 .. MaxCommits
    BY PublicationAssumption
  <2>3. GoodCall(x)
    BY <2>2 DEF GoodCall, CallType
  <2>4. QED
    BY <1>1, <2>3 DEF PublishStart
<1>2. ASSUME NEW resume \in BOOLEAN, ReconcileStart(c, resume)
      PROVE  \E x : GoodCall(x) /\ call' = [call EXCEPT ![c] = x]
  <2>. DEFINE p == ReconcileEntry[1]
              n == ReconcileEntry[2]
              f == IF p = "journal" THEN "COMMITTED" ELSE IF p = "move" THEN "PREPARED" ELSE "STAGED"
              x == [kind |-> "reconcile", pc |-> p, phase |-> f, commit |-> n, resume |-> resume]
  <2>1. call' = [call EXCEPT ![c] = x] /\ p # "idle"
    BY <1>2 DEF ReconcileStart
  <2>2. /\ p \in {"journal", "prepare", "abandon", "move", "idle"}
        /\ n \in 0 .. MaxCommits
        /\ p \in {"journal", "move"} => n # 0
    <3>1. row.commit \in 0 .. MaxCommits
      BY CallFacts
    <3>2. \/ \E tip \in {branch, row.commit} : ReconcileEntry = <<"journal", tip>> /\ tip \in 1 .. MaxCommits
          \/ ReconcileEntry = <<"move", row.commit>> /\ row.commit # 0
          \/ ReconcileEntry \in {<<"prepare", 0>>, <<"abandon", 0>>, <<"idle", 0>>}
      BY <3>1, PublicationAssumption DEF ReconcileEntry, CommitMatches
    <3>3. QED
      BY <3>1, <3>2, PublicationAssumption
  <2>. HIDE DEF p, n
  <2>3. GoodCall(x)
    BY <2>1, <2>2 DEF GoodCall, CallType
  <2>4. QED
    BY <2>1, <2>3
<1>3. CASE PushLost(c) \/ Raise(c) \/ Crash(c)
  <2>1. \/ call' = [call EXCEPT ![c].pc = "failed"]
        \/ call' = [call EXCEPT ![c] = Idle]
    BY <1>3 DEF PushLost, Raise, Crash, Goto, Return
  <2>2. QED
    BY <1>0, <2>1, GoodMoves
<1>4. QED
  BY <1>1, <1>2, <1>3

(* A snapshot commit is a tip, and history grows within its type.                             *)
LEMMA TipTypes ==
  ASSUME NEW n \in 1 .. MaxCommits, NEW S \in SUBSET (1 .. MaxCommits)
  PROVE  n \in Tips /\ S \cup {n} \in SUBSET (1 .. MaxCommits)
BY PublicationAssumption DEF Tips

(* The rest of the state, typed.                                                             *)
LEMMA TypeStep ==
  ASSUME TypeOK, CommitKnown, [Next]_vars, call' \in [Callers -> CallType]
  PROVE  TypeOK'
<1>. USE PublicationAssumption DEF TypeOK
<1>0. overlapped' \in BOOLEAN /\ disturbed' \in BOOLEAN
  BY DEF Next, Remember, Outsiders, Overlapping, vars
<1>1. ASSUME NEW c \in Callers, Work(c) PROVE TypeOK'
  <2>0. /\ call[c].commit \in 0 .. MaxCommits
        /\ call[c].phase \in Phases
        /\ row.commit \in 0 .. MaxCommits /\ row.remote \in 0 .. MaxCommits
        /\ row.status \in JournalStates
        /\ call[c].pc \in {"cas", "push"} => call[c].commit \in 1 .. MaxCommits
    BY CallFacts DEF GoodCall
  <2>1. CASE Preflight(c) \/ Guard(c) \/ Confirm(c) \/ InspectPending(c) \/ ReportOnly(c)
    BY <1>0, <2>1 DEF Preflight, Guard, Confirm, InspectPending, ReportOnly
  <2>2. CASE Intent(c) \/ Abandon(c)
    BY <1>0, <2>0, <2>2 DEF Intent, Abandon, JournalStates
  <2>3. CASE Add(c)
    BY <1>0, <2>3 DEF Add
  <2>4. CASE Prepare(c)
    BY <1>0, <2>4 DEF Prepare
  <2>5. CASE MoveRef(c)
    BY <1>0, <2>0, <2>5, TipTypes DEF MoveRef, At
  <2>6. CASE Push(c)
    BY <1>0, <2>0, <2>6, TipTypes DEF Push, At
  <2>7. CASE Journal(c)
    <3>1. row' \in [status : JournalStates, commit : 0 .. MaxCommits, remote : 0 .. MaxCommits]
      BY <2>0, <2>7 DEF Journal, JournalStates, Phases
    <3>2. QED
      BY <1>0, <2>7, <3>1 DEF Journal
  <2>8. CASE Finalize(c)
    BY <1>0, <2>0, <2>8 DEF Finalize, JournalStates
  <2>9. CASE RecordError(c)
    BY <1>0, <2>0, <2>9 DEF RecordError, JournalStates, Phases
  <2>10. QED
    BY <1>1, <2>1, <2>2, <2>3, <2>4, <2>5, <2>6, <2>7, <2>8, <2>9 DEF Work
<1>2. ASSUME NEW c \in Callers,
             \/ PublishStart(c) \/ ReconcileStart(c, TRUE) \/ ReconcileStart(c, FALSE)
      PROVE  TypeOK'
  <2>1. row' \in [status : JournalStates, commit : 0 .. MaxCommits, remote : 0 .. MaxCommits]
    BY <1>2 DEF PublishStart, ReconcileStart, JournalStates
  <2>2. UNCHANGED <<run_state, commits, branch, landed, index, work, remote, remote_has, faults>>
    BY <1>2 DEF PublishStart, ReconcileStart
  <2>3. QED
    BY <1>0, <2>1, <2>2
<1>3. ASSUME NEW c \in Callers, PushLost(c) PROVE TypeOK'
  <2>1. call[c].commit \in 1 .. MaxCommits
    BY <1>3, CallFacts DEF GoodCall, PushLost, At
  <2>2. faults' \in 0 .. MaxFaults
    BY <1>3 DEF PushLost
  <2>3. remote' = call[c].commit /\ remote_has' = remote_has \cup {call[c].commit}
    BY <1>3 DEF PushLost
  <2>4. QED
    <3>1. remote' \in Tips /\ remote_has' \in SUBSET (1 .. MaxCommits)
      BY <2>1, <2>3, TipTypes
    <3>2. UNCHANGED <<run_state, row, commits, branch, landed, index, work>>
      BY <1>3 DEF PushLost
    <3>3. QED
      BY <1>0, <2>2, <3>1, <3>2
<1>4. ASSUME NEW c \in Callers, Raise(c) \/ Crash(c) PROVE TypeOK'
  <2>1. faults' \in 0 .. MaxFaults
    BY <1>4 DEF Raise, Crash
  <2>2. QED
    BY <1>0, <1>4, <2>1 DEF Raise, Crash
<1>5. CASE Outsiders
  BY <1>0, <1>5 DEF Outsiders, EditWork, Stage, HandCommit, ForeignPush, Tips, TipContent
<1>6. CASE UNCHANGED vars
  BY <1>0, <1>6 DEF vars
<1>7. QED
  BY <1>1, <1>2, <1>3, <1>4, <1>5, <1>6 DEF Next, CallStep

(* update-ref with the expected old value is the only way the ledger moves the branch, and   *)
(* nobody moves it back to the base.                                                          *)
LEMMA LandedStep ==
  ASSUME TypeOK, CommitKnown, LandedOnce, [Next]_vars
  PROVE  LandedOnce'
<1>1. ASSUME NEW c \in Callers, MoveRef(c) PROVE LandedOnce'
  <2>1. landed = {} /\ landed' = {call[c].commit} /\ branch' = call[c].commit
    BY <1>1 DEF MoveRef, CasApplies, LandedOnce
  <2>2. call[c].commit # 0
    BY <1>1 DEF MoveRef, At, CommitKnown
  <2>3. QED
    BY <2>1, <2>2 DEF LandedOnce, OneCommitLands
<1>2. CASE UNCHANGED <<landed, branch>>
  BY <1>2 DEF LandedOnce, OneCommitLands
<1>3. CASE Outsiders
  <2>1. UNCHANGED landed /\ (branch' = branch \/ branch' # 0)
    BY <1>3, PublicationAssumption DEF Outsiders, EditWork, Stage, HandCommit, ForeignPush, TypeOK,
      Foreign
  <2>2. QED
    BY <2>1 DEF LandedOnce, OneCommitLands
<1>4. QED
  BY ZenonT(40), <1>1, <1>2, <1>3 DEF Next, CallStep, vars, Work, Preflight, Intent, Add, Prepare, Guard, Journal, Push,
    Confirm, InspectPending, Finalize, Abandon, ReportOnly, RecordError, PublishStart,
    ReconcileStart, PushLost, Raise, Crash

LEMMA InvStep == PublicationInv /\ [Next]_vars => PublicationInv'
<1>. SUFFICES ASSUME PublicationInv, [Next]_vars PROVE PublicationInv'
  OBVIOUS
<1>0. TypeOK /\ CommitKnown /\ LandedOnce
  BY DEF PublicationInv
<1>1. call' \in [Callers -> CallType] /\ CommitKnown'
  <2>1. ASSUME NEW c \in Callers, NEW x, GoodCall(x), call' = [call EXCEPT ![c] = x]
        PROVE  call' \in [Callers -> CallType] /\ CommitKnown'
    BY <1>0, <2>1, CallUpdate
  <2>2. CASE Outsiders \/ UNCHANGED vars
    BY <1>0, <2>2 DEF Outsiders, vars, CommitKnown, TypeOK
  <2>3. QED
    BY <1>0, <2>1, <2>2, WorkCall, StartCall DEF Next, CallStep
<1>2. QED
  BY <1>0, <1>1, TypeStep, LandedStep DEF PublicationInv

(* Type correctness of the publication journal, the Git state and the calls.                  *)
THEOREM PublicationTypeCorrect == Spec => []TypeOK
<1>1. PublicationInv => TypeOK
  BY DEF PublicationInv
<1>2. QED
  BY <1>1, InvInit, InvStep, PTL DEF Spec

(* However many publish and publish-reconcile calls overlap, fail, crash and are retried,     *)
(* and whatever people do to the repository meanwhile, the run lands at most one commit on    *)
(* the branch.                                                                                 *)
THEOREM OneCommitLandsHolds == Spec => []OneCommitLands
<1>1. PublicationInv => OneCommitLands
  BY DEF PublicationInv, LandedOnce
<1>2. QED
  BY <1>1, InvInit, InvStep, PTL DEF Spec

-----------------------------------------------------------------------------
(* What holds while calls never overlapped.                                                   *)

(* Phases a call records once the branch has moved.                                           *)
Moved == {"COMMITTED", "PUSHED", "REMOTE_VERIFIED"}

(* The journal against Git: it names the commit that landed, it names none before a commit     *)
(* was prepared, and it only claims a move or a push that happened.                            *)
JournalFits ==
  /\ landed \subseteq {row.commit}
  /\ row.status \in {"NONE", "ABANDONED"} => row.commit = 0
  /\ row.status \in AfterRef => row.commit # 0 /\ branch # 0
  /\ run_state = "COMPLETE" <=> row.status = "COMPLETE"
  /\ row.status = "COMPLETE" /\ Kind = "git" =>
       row.commit \in remote_has /\ row.remote = row.commit

(* The call x in flight against the journal: how far x is bounds what the journal says, and    *)
(* the journal names no commit but the one x carries.                                          *)
CallFits(x) ==
  /\ x.pc # "idle" => row.status # "COMPLETE"
  /\ x.pc \in {"preflight", "intent"} => row.status = "NONE"
  /\ x.pc \in {"preflight", "intent", "add", "prepare", "abandon"} => x.phase \notin Moved
  /\ x.pc \in {"preflight", "intent", "add"} => x.commit = 0
  /\ x.pc \in {"add", "prepare", "abandon"} => row.commit = 0
  /\ x.pc \in {"move", "cas"} =>
       x.phase = "PREPARED" /\ row.commit = x.commit /\ row.status \notin AfterRef
  /\ x.pc = "journal" /\ x.phase \notin Moved => row.commit = 0 /\ x.phase # "INTENT"
  /\ x.pc = "journal" /\ x.phase = "STAGED" => x.commit = 0
  /\ x.pc = "journal" /\ x.phase \in Moved =>
       /\ branch # 0
       /\ row.commit = x.commit \/ (row.commit = 0 /\ x.kind = "reconcile")
  /\ x.pc \in {"push", "inspect", "confirm", "finalize"} =>
       x.phase \in Moved /\ row.commit = x.commit /\ row.status \in AfterRef
  /\ x.pc \in {"journal", "confirm"} /\ x.phase \in {"PUSHED", "REMOTE_VERIFIED"} =>
       x.commit \in remote_has
  /\ x.pc = "finalize" /\ Kind = "git" => x.commit \in remote_has
  /\ x.pc = "failed" =>
       IF x.phase \in Moved THEN row.commit # 0 /\ branch # 0 ELSE row.status \notin AfterRef

(* If nobody interfered, the branch is where publish left it, and a call that is about to       *)
(* abandon, or has abandoned, saw an untouched index.                                           *)
QuietGit ==
  /\ branch # 0 => branch \in landed
  /\ row.status = "ABANDONED" => landed = {} /\ index = "base"
QuietFits(x) ==
  /\ QuietGit
  /\ x.pc = "abandon" => landed = {} /\ index = "base"
  /\ row.status = "ABANDONED" => x.pc = "idle"

(* A snapshot commit at the remote tip is in the remote's history.                              *)
RemoteKnown == remote \in 1 .. MaxCommits => remote \in remote_has

SoloFits ==
  /\ ~Overlapping
  /\ JournalFits
  /\ \A c \in Callers : CallFits(call[c])
  /\ ~disturbed => QuietGit /\ \A c \in Callers : QuietFits(call[c])
SoloInv == ~overlapped => SoloFits

Fits(x) == JournalFits /\ CallFits(x) /\ (~disturbed => QuietFits(x))

LEMMA SoloInit == Init => SoloInv /\ RemoteKnown
<1>. SUFFICES ASSUME Init PROVE SoloInv /\ RemoteKnown
  OBVIOUS
<1>1. \A c \in Callers : call[c].pc = "idle"
  BY DEF Init, Idle
<1>2. JournalFits /\ RemoteKnown /\ ~Overlapping
  BY <1>1 DEF Init, JournalFits, RemoteKnown, Overlapping, AfterRef, Absent
<1>3. ASSUME NEW c \in Callers PROVE CallFits(call[c]) /\ QuietFits(call[c])
  BY <1>1 DEF Init, CallFits, QuietFits, QuietGit
<1>4. QuietGit
  BY DEF Init, QuietGit
<1>5. QED
  BY <1>2, <1>3, <1>4 DEF SoloInv, SoloFits

(* What a push leaves on the remote is in its history.                                          *)
LEMMA RemoteStep ==
  ASSUME TypeOK, RemoteKnown, [Next]_vars
  PROVE  RemoteKnown'
<1>1. CASE \E c \in Callers : Push(c) \/ PushLost(c)
  BY <1>1 DEF Push, PushLost, RemoteKnown
<1>2. CASE UNCHANGED <<remote, remote_has>>
  BY <1>2 DEF RemoteKnown
<1>3. CASE Outsiders
  BY <1>3 DEF Outsiders, EditWork, Stage, HandCommit, ForeignPush, RemoteKnown, Foreign
<1>4. QED
  BY ZenonT(40), <1>1, <1>2, <1>3 DEF Next, CallStep, vars, Work, Preflight, Intent, Add, Prepare, Guard, MoveRef,
    Journal, Confirm, InspectPending, Finalize, Abandon, ReportOnly, RecordError, PublishStart,
    ReconcileStart, Raise, Crash

(* What the lemmas below assume of the call that moves.                                          *)
Ready(c) == PublicationInv /\ RemoteKnown /\ Fits(call[c]) /\ UNCHANGED disturbed

LEMMA ReadyFacts ==
  ASSUME NEW c \in Callers, Ready(c)
  PROVE  /\ call \in [Callers -> CallType] /\ call[c] \in CallType
         /\ call[c].phase \in Phases /\ call[c].commit \in 0 .. MaxCommits
         /\ row.commit \in 0 .. MaxCommits /\ landed \in SUBSET (1 .. MaxCommits)
         /\ GoodCall(call[c]) /\ CallFits(call[c]) /\ JournalFits
         /\ ~disturbed => QuietFits(call[c])
         /\ landed # {} => branch # 0
         /\ disturbed' = disturbed
<1>1. TypeOK /\ CommitKnown /\ LandedOnce
  BY DEF Ready, PublicationInv
<1>2. GoodCall(call[c]) /\ call[c].phase \in Phases /\ call[c].commit \in 0 .. MaxCommits
      /\ row.commit \in 0 .. MaxCommits
  BY <1>1, CallFacts
<1>3. QED
  BY <1>1, <1>2 DEF Ready, Fits, TypeOK, LandedOnce

(* A step that only moves the call on, up to the point where it joins Git.                        *)
LEMMA FitsStart ==
  ASSUME NEW c \in Callers, Ready(c),
         PublishStart(c) \/ Preflight(c) \/ Intent(c)
  PROVE  Fits(call[c])'
<1>. USE ReadyFacts
<1>1. CASE PublishStart(c)
  <2>1. /\ call'[c].pc = "preflight" /\ call'[c].phase = "INTENT" /\ call'[c].commit = 0
        /\ row'.status = "NONE" /\ row'.commit = 0
        /\ UNCHANGED <<run_state, landed, branch, remote_has, index>>
        /\ run_state = "VERIFIED" /\ row.status \in {"NONE", "ABANDONED"}
    BY <1>1 DEF PublishStart
  <2>2. landed = {}
    BY <2>1 DEF JournalFits
  <2>3. JournalFits' /\ CallFits(call[c])'
    BY <2>1, <2>2 DEF JournalFits, CallFits, AfterRef, Moved
  <2>4. ~disturbed => QuietFits(call[c])'
    BY <2>1 DEF QuietFits, QuietGit
  <2>5. QED
    BY <2>3, <2>4 DEF Fits
<1>2. CASE Preflight(c)
  <2>1. /\ call[c].pc = "preflight" /\ call'[c].pc = "intent" /\ call'[c].phase = call[c].phase
        /\ call'[c].commit = call[c].commit
        /\ UNCHANGED <<run_state, row, landed, branch, remote_has, index>>
    BY <1>2 DEF Preflight, At, Goto, CallType
  <2>2. JournalFits' /\ CallFits(call[c])' /\ (~disturbed => QuietFits(call[c])')
    BY <2>1 DEF JournalFits, CallFits, QuietFits, QuietGit
  <2>3. QED
    BY <2>2 DEF Fits
<1>3. CASE Intent(c)
  <2>1. /\ call[c].pc = "intent" /\ call'[c].pc = "add" /\ call'[c].phase = call[c].phase
        /\ call'[c].commit = call[c].commit
        /\ row'.status = "INTENT" /\ row'.commit = row.commit
        /\ UNCHANGED <<run_state, landed, branch, remote_has, index>>
    BY <1>3 DEF Intent, At, Goto, CallType, Ready, PublicationInv, TypeOK
  <2>2. JournalFits' /\ CallFits(call[c])' /\ (~disturbed => QuietFits(call[c])')
    BY <2>1 DEF JournalFits, CallFits, QuietFits, QuietGit, AfterRef
  <2>3. QED
    BY <2>2 DEF Fits
<1>4. QED
  BY <1>1, <1>2, <1>3

(* Staging, the commit object and the guard before update-ref.                                   *)
LEMMA FitsPrepare ==
  ASSUME NEW c \in Callers, Ready(c),
         Add(c) \/ Prepare(c) \/ Guard(c)
  PROVE  Fits(call[c])'
<1>. USE ReadyFacts
<1>1. CASE Add(c)
  <2>1. /\ call[c].pc = "add"
        /\ \/ call'[c].pc = "journal" /\ call'[c].phase = "STAGED"
           \/ call'[c].pc = "failed" /\ call'[c].phase = call[c].phase
        /\ call'[c].commit = call[c].commit
        /\ UNCHANGED <<run_state, row, landed, branch, remote_has>>
    BY <1>1 DEF Add, At, CallType
  <2>2. JournalFits' /\ CallFits(call[c])'
    BY <2>1 DEF JournalFits, CallFits, AfterRef, Moved
  <2>3. ~disturbed => QuietFits(call[c])'
    BY <2>1 DEF QuietFits, QuietGit
  <2>4. QED
    BY <2>2, <2>3 DEF Fits
<1>2. CASE Prepare(c)
  <2>1. /\ call[c].pc = "prepare" /\ call'[c].pc = "journal" /\ call'[c].phase = "PREPARED"
        /\ UNCHANGED <<run_state, row, landed, branch, remote_has, index>>
    BY <1>2 DEF Prepare, At, CallType
  <2>2. JournalFits' /\ CallFits(call[c])' /\ (~disturbed => QuietFits(call[c])')
    BY <2>1 DEF JournalFits, CallFits, QuietFits, QuietGit, AfterRef, Moved
  <2>3. QED
    BY <2>2 DEF Fits
<1>3. CASE Guard(c)
  <2>1. /\ call[c].pc = "move" /\ call'[c].pc = "cas" /\ call'[c].phase = call[c].phase
        /\ call'[c].commit = call[c].commit
        /\ UNCHANGED <<run_state, row, landed, branch, remote_has, index>>
    BY <1>3 DEF Guard, At, Goto, CallType
  <2>2. JournalFits' /\ CallFits(call[c])' /\ (~disturbed => QuietFits(call[c])')
    BY <2>1 DEF JournalFits, CallFits, QuietFits, QuietGit, AfterRef
  <2>3. QED
    BY <2>2 DEF Fits
<1>4. QED
  BY <1>1, <1>2, <1>3

(* update-ref lands the commit the journal already names.                                        *)
LEMMA FitsMove ==
  ASSUME NEW c \in Callers, Ready(c), MoveRef(c)
  PROVE  Fits(call[c])'
<1>. USE ReadyFacts
<1>1. /\ call[c].pc = "cas" /\ call'[c].pc = "journal" /\ call'[c].phase = "COMMITTED"
      /\ call'[c].commit = call[c].commit
      /\ branch' = call[c].commit /\ landed' = landed \cup {call[c].commit}
      /\ UNCHANGED <<run_state, row, remote_has, index>>
  BY DEF MoveRef, At, CallType
<1>2. row.commit = call[c].commit /\ row.status \notin AfterRef /\ call[c].commit # 0
  BY <1>1 DEF CallFits, GoodCall
<1>3. JournalFits'
  BY <1>1, <1>2 DEF JournalFits
<1>4. CallFits(call[c])'
  BY <1>1, <1>2 DEF CallFits, AfterRef, Moved
<1>5. ~disturbed => QuietFits(call[c])'
  BY <1>1, <1>2 DEF QuietFits, QuietGit
<1>6. QED
  BY <1>3, <1>4, <1>5 DEF Fits

(* A journal entry names the commit the call carries.                                            *)
LEMMA FitsJournal ==
  ASSUME NEW c \in Callers, Ready(c), Journal(c)
  PROVE  Fits(call[c])'
<1>. USE ReadyFacts
<1>. DEFINE x == call[c]
            q == AfterJournal(x.kind, x.phase)
<1>1. /\ x.pc = "journal" /\ call'[c].pc = q /\ call'[c].phase = x.phase
      /\ call'[c].commit = x.commit
      /\ row.status # "NONE" /\ row'.status = x.phase
      /\ row'.commit = (IF x.commit # 0 THEN x.commit ELSE row.commit)
      /\ UNCHANGED <<run_state, landed, branch, remote_has, index>>
  BY DEF Journal, At, Goto, CallType
<1>2. /\ x.phase = "STAGED" => q = "prepare"
      /\ x.phase = "PREPARED" => q = "move"
      /\ x.phase = "COMMITTED" => q \in {"finalize", "push", "inspect"}
      /\ x.phase = "COMMITTED" /\ q = "finalize" => Kind # "git"
      /\ x.phase = "PUSHED" => q = "confirm"
      /\ x.phase = "REMOTE_VERIFIED" => q = "finalize"
  BY DEF AfterJournal
<1>3. x.phase # "INTENT" /\ (x.phase # "STAGED" => x.commit # 0)
  BY <1>1 DEF GoodCall
<1>. HIDE DEF q
<1>4. CASE x.phase = "STAGED"
  <2>1. row.commit = 0 /\ row'.commit = 0 /\ q = "prepare"
    BY <1>1, <1>2, <1>4 DEF CallFits, Moved
  <2>2. JournalFits' /\ CallFits(call[c])' /\ (~disturbed => QuietFits(call[c])')
    BY <1>1, <1>4, <2>1 DEF JournalFits, CallFits, QuietFits, QuietGit, AfterRef, Moved
  <2>3. QED
    BY <2>2 DEF Fits
<1>5. CASE x.phase = "PREPARED"
  <2>1. row.commit = 0 /\ row'.commit = x.commit /\ q = "move"
    BY <1>1, <1>2, <1>3, <1>5 DEF CallFits, Moved
  <2>2. JournalFits' /\ CallFits(call[c])' /\ (~disturbed => QuietFits(call[c])')
    BY <1>1, <1>5, <2>1 DEF JournalFits, CallFits, QuietFits, QuietGit, AfterRef, Moved
  <2>3. QED
    BY <2>2 DEF Fits
<1>6. CASE x.phase \in Moved
  <2>1. row.commit \in {0, x.commit} /\ row'.commit = x.commit /\ branch # 0 /\ x.commit # 0
        /\ q \in {"finalize", "push", "inspect", "confirm"}
        /\ row'.status \in AfterRef \ {"COMPLETE"} /\ row.status # "COMPLETE"
    BY <1>1, <1>2, <1>3, <1>6 DEF CallFits, Moved, AfterRef
  <2>2. JournalFits'
    BY <1>1, <2>1 DEF JournalFits, AfterRef
  <2>3. CallFits(call[c])'
    BY <1>1, <1>2, <1>6, <2>1 DEF CallFits, Moved
  <2>4. ~disturbed => QuietFits(call[c])'
    BY <1>1, <2>1 DEF QuietFits, QuietGit, AfterRef
  <2>5. QED
    BY <2>2, <2>3, <2>4 DEF Fits
<1>7. QED
  BY <1>3, <1>4, <1>5, <1>6 DEF Phases, Moved

(* The steps that talk to the remote.                                                            *)
LEMMA FitsRemote ==
  ASSUME NEW c \in Callers, Ready(c),
         Push(c) \/ PushLost(c) \/ Confirm(c) \/ InspectPending(c)
  PROVE  Fits(call[c])'
<1>. USE ReadyFacts
<1>1. CASE Push(c)
  <2>1. /\ call[c].pc = "push" /\ call'[c].pc = "journal" /\ call'[c].phase = "PUSHED"
        /\ call'[c].commit = call[c].commit
        /\ remote_has' = remote_has \cup {call[c].commit}
        /\ UNCHANGED <<run_state, row, landed, branch, index>>
    BY <1>1 DEF Push, At, CallType
  <2>2. JournalFits' /\ CallFits(call[c])' /\ (~disturbed => QuietFits(call[c])')
    BY <2>1 DEF JournalFits, CallFits, QuietFits, QuietGit, Moved
  <2>3. QED
    BY <2>2 DEF Fits
<1>2. CASE PushLost(c)
  <2>1. /\ call[c].pc = "push" /\ call'[c].pc = "failed" /\ call'[c].phase = call[c].phase
        /\ remote_has' = remote_has \cup {call[c].commit}
        /\ UNCHANGED <<run_state, row, landed, branch, index>>
    BY <1>2 DEF PushLost, At, Goto, CallType
  <2>2. JournalFits' /\ CallFits(call[c])' /\ (~disturbed => QuietFits(call[c])')
    BY <2>1 DEF JournalFits, CallFits, QuietFits, QuietGit
  <2>3. QED
    BY <2>2 DEF Fits
<1>3. CASE Confirm(c)
  <2>1. /\ call[c].pc \in {"confirm", "inspect"} /\ call'[c].pc = "journal"
        /\ call'[c].phase = "REMOTE_VERIFIED" /\ call'[c].commit = call[c].commit
        /\ remote = call[c].commit
        /\ UNCHANGED <<run_state, row, landed, branch, remote_has, index>>
    BY <1>3 DEF Confirm, ReadsCommit, CallType
  <2>2. call[c].commit \in remote_has
    BY <2>1, PublicationAssumption DEF GoodCall, Ready, RemoteKnown
  <2>3. JournalFits' /\ CallFits(call[c])' /\ (~disturbed => QuietFits(call[c])')
    BY <2>1, <2>2 DEF JournalFits, CallFits, QuietFits, QuietGit, Moved
  <2>4. QED
    BY <2>3 DEF Fits
<1>4. CASE InspectPending(c)
  <2>1. /\ call[c].pc = "inspect" /\ call'[c].pc = "push" /\ call'[c].phase = call[c].phase
        /\ call'[c].commit = call[c].commit
        /\ UNCHANGED <<run_state, row, landed, branch, remote_has, index>>
    BY <1>4 DEF InspectPending, At, Goto, CallType
  <2>2. JournalFits' /\ CallFits(call[c])' /\ (~disturbed => QuietFits(call[c])')
    BY <2>1 DEF JournalFits, CallFits, QuietFits, QuietGit
  <2>3. QED
    BY <2>2 DEF Fits
<1>5. QED
  BY <1>1, <1>2, <1>3, <1>4

(* The ends of a call: completed, abandoned, reported, refused or dead.                            *)
LEMMA FitsEnd ==
  ASSUME NEW c \in Callers, Ready(c),
         Finalize(c) \/ Abandon(c) \/ ReportOnly(c) \/ RecordError(c) \/ Crash(c)
  PROVE  Fits(call[c])'
<1>. USE ReadyFacts
<1>0. call'[c].pc = "idle" /\ UNCHANGED <<landed, branch, remote_has, index>>
  BY DEF Finalize, Abandon, ReportOnly, RecordError, Crash, Return, Idle
<1>1. CallFits(call[c])'
  BY <1>0 DEF CallFits
<1>2. CASE Finalize(c)
  <2>1. /\ call[c].pc = "finalize" /\ row'.status = "COMPLETE" /\ row'.commit = call[c].commit
        /\ Kind = "git" => row'.remote = call[c].commit
        /\ run_state' = "COMPLETE"
    BY <1>2 DEF Finalize, At
  <2>2. row.commit = call[c].commit /\ row.status \in AfterRef
        /\ (Kind = "git" => call[c].commit \in remote_has)
    BY <2>1 DEF CallFits
  <2>3. JournalFits'
    BY <1>0, <2>1, <2>2 DEF JournalFits
  <2>4. ~disturbed => QuietFits(call[c])'
    BY <1>0, <2>1 DEF QuietFits, QuietGit
  <2>5. QED
    BY <1>1, <2>3, <2>4 DEF Fits
<1>3. CASE Abandon(c)
  <2>1. /\ call[c].pc = "abandon" /\ row'.status = "ABANDONED" /\ row'.commit = row.commit
        /\ run_state' = run_state
    BY <1>3 DEF Abandon, At, Ready, PublicationInv, TypeOK
  <2>2. row.commit = 0 /\ row.status # "COMPLETE"
    BY <2>1 DEF CallFits
  <2>3. JournalFits'
    BY <1>0, <2>1, <2>2 DEF JournalFits, AfterRef
  <2>4. ~disturbed => QuietFits(call[c])'
    BY <1>0, <2>1 DEF QuietFits, QuietGit
  <2>5. QED
    BY <1>1, <2>3, <2>4 DEF Fits
<1>4. CASE ReportOnly(c) \/ Crash(c)
  <2>1. UNCHANGED <<run_state, row>>
    BY <1>4 DEF ReportOnly, Crash
  <2>2. JournalFits' /\ (~disturbed => QuietFits(call[c])')
    BY <1>0, <2>1 DEF JournalFits, QuietFits, QuietGit
  <2>3. QED
    BY <1>1, <2>2 DEF Fits
<1>5. CASE RecordError(c)
  <2>1. /\ call[c].pc = "failed" /\ run_state' = run_state
        /\ row' = row \/ (row'.status = call[c].phase /\ row'.commit = row.commit)
    BY <1>5 DEF RecordError, At, Ready, PublicationInv, TypeOK
  <2>2. row.status # "COMPLETE"
    BY <2>1 DEF CallFits
  <2>3. CASE row' = row
    <3>1. JournalFits' /\ (~disturbed => QuietFits(call[c])')
      BY <1>0, <2>1, <2>3 DEF JournalFits, QuietFits, QuietGit
    <3>2. QED
      BY <1>1, <3>1 DEF Fits
  <2>4. CASE row'.status = call[c].phase /\ row'.commit = row.commit
    <3>1. /\ row'.status \notin {"NONE", "ABANDONED", "COMPLETE"}
          /\ row'.status \in AfterRef => row.commit # 0 /\ branch # 0
      BY <2>1, <2>4 DEF CallFits, Phases, Moved, AfterRef
    <3>2. JournalFits'
      BY <1>0, <2>1, <2>2, <2>4, <3>1 DEF JournalFits
    <3>3. ~disturbed => QuietFits(call[c])'
      BY <1>0, <3>1 DEF QuietFits, QuietGit
    <3>4. QED
      BY <1>1, <3>2, <3>3 DEF Fits
  <2>5. QED
    BY <2>1, <2>3, <2>4
<1>6. QED
  BY <1>2, <1>3, <1>4, <1>5

(* A call that raises is about to journal the phase it reached, or is gone.                         *)
LEMMA FitsRaise ==
  ASSUME NEW c \in Callers, Ready(c), Raise(c)
  PROVE  Fits(call[c])'
<1>. USE ReadyFacts
<1>0. UNCHANGED <<run_state, row, landed, branch, remote_has, index>>
      /\ call[c].pc \notin {"idle", "failed"}
  BY DEF Raise
<1>1. JournalFits'
  BY <1>0 DEF JournalFits
<1>2. CASE ErrorJournalled(c)
  <2>1. call'[c].pc = "failed" /\ call'[c].phase = call[c].phase
    BY <1>2 DEF Raise, Goto, CallType
  <2>2. IF call[c].phase \in Moved THEN row.commit # 0 /\ branch # 0 ELSE row.status \notin AfterRef
    <3>1. CASE call[c].phase \in Moved
      <4>0. call[c].pc \in Pcs
        BY DEF CallType, Pcs
      <4>1. /\ call[c].pc \in {"journal", "push", "inspect", "confirm", "finalize"}
            /\ call[c].pc = "journal" => call[c].kind = "publish"
        <5>1. call[c].pc \notin {"preflight", "intent", "add", "prepare", "abandon", "move", "cas"}
          BY <3>1 DEF CallFits, Moved
        <5>2. call[c].pc = "journal" => call[c].kind = "publish"
          BY <1>2 DEF ErrorJournalled
        <5>3. QED
          BY <1>0, <4>0, <5>1, <5>2 DEF Pcs
      <4>2. row.commit = call[c].commit /\ branch # 0 /\ call[c].commit # 0
        BY <3>1, <4>1 DEF CallFits, JournalFits, GoodCall, Moved
      <4>3. QED
        BY <3>1, <4>2
    <3>2. CASE call[c].phase \notin Moved
      <4>1. row.commit = 0 \/ row.status \notin AfterRef
        BY <1>0, <3>2 DEF CallFits, AfterRef, CallType
      <4>2. QED
        BY <3>2, <4>1 DEF JournalFits
    <3>3. QED
      BY <3>1, <3>2
  <2>3. CallFits(call[c])' /\ (~disturbed => QuietFits(call[c])')
    BY <1>0, <2>1, <2>2 DEF CallFits, QuietFits, QuietGit
  <2>4. QED
    BY <1>1, <2>3 DEF Fits
<1>3. CASE ~ErrorJournalled(c)
  <2>1. call'[c].pc = "idle"
    BY <1>3 DEF Raise, Return, Idle
  <2>2. CallFits(call[c])' /\ (~disturbed => QuietFits(call[c])')
    BY <1>0, <2>1 DEF CallFits, QuietFits, QuietGit
  <2>3. QED
    BY <1>1, <2>2 DEF Fits
<1>4. QED
  BY <1>2, <1>3

(* publish-reconcile joins where the evidence says the publication stopped.                          *)
LEMMA FitsReconcile ==
  ASSUME NEW c \in Callers, Ready(c), NEW resume \in BOOLEAN, ReconcileStart(c, resume)
  PROVE  Fits(call[c])'
<1>. USE ReadyFacts
<1>. DEFINE p == ReconcileEntry[1]
            n == ReconcileEntry[2]
<1>1. /\ call'[c].pc = p /\ call'[c].commit = n /\ call'[c].kind = "reconcile"
      /\ call'[c].phase = (IF p = "journal" THEN "COMMITTED"
                           ELSE IF p = "move" THEN "PREPARED" ELSE "STAGED")
      /\ p # "idle" /\ row.status \notin {"NONE", "COMPLETE"}
      /\ UNCHANGED <<run_state, row, landed, branch, remote_has, index>>
  BY DEF ReconcileStart
<1>2. \/ p = "journal" /\ branch # 0 /\ (row.commit = 0 \/ row.commit = n)
      \/ p = "prepare" /\ row.commit = 0 /\ branch = 0 /\ index = "snap"
      \/ p = "abandon" /\ row.commit = 0 /\ branch = 0 /\ index = "base" /\ row.status = "INTENT"
      \/ p = "move" /\ row.commit = n /\ branch = 0 /\ n # 0
  <2>1. \/ ReconcileEntry = <<"journal", branch>> /\ row.commit = 0 /\ branch \in 1 .. MaxCommits
        \/ ReconcileEntry = <<"journal", row.commit>> /\ row.commit # 0 /\ branch = row.commit
        \/ ReconcileEntry = <<"prepare", 0>> /\ row.commit = 0 /\ branch = 0 /\ index = "snap"
        \/ ReconcileEntry = <<"abandon", 0>> /\ row.commit = 0 /\ branch = 0 /\ index = "base"
             /\ row.status = "INTENT"
        \/ ReconcileEntry = <<"move", row.commit>> /\ row.commit # 0 /\ branch = 0
        \/ ReconcileEntry = <<"idle", 0>>
    BY DEF ReconcileEntry, CommitMatches, StagedMatches, StagingEmpty, TipContent
  <2>2. QED
    BY <1>1, <2>1, PublicationAssumption
<1>. HIDE DEF p, n
<1>3. JournalFits'
  BY <1>1 DEF JournalFits
<1>4. CallFits(call[c])'
  BY <1>1, <1>2 DEF CallFits, JournalFits, Moved, AfterRef
<1>5. ~disturbed => QuietFits(call[c])'
  <2>. SUFFICES ASSUME ~disturbed PROVE QuietFits(call[c])'
    OBVIOUS
  <2>1. landed \subseteq {row.commit} /\ (branch # 0 => branch \in landed)
        /\ (row.status = "ABANDONED" => row.commit = 0 /\ landed = {} /\ index = "base")
    BY DEF QuietFits, QuietGit, JournalFits
  <2>2. row.commit = 0 => landed = {}
    BY <2>1
  <2>3. row.status # "ABANDONED"
    BY <1>1, <1>2, <2>1
  <2>4. QED
    BY <1>1, <1>2, <2>1, <2>2, <2>3 DEF QuietFits, QuietGit
<1>6. QED
  BY <1>3, <1>4, <1>5 DEF Fits

LEMMA FitsStep ==
  ASSUME NEW c \in Callers, Ready(c), CallStep(c)
  PROVE  Fits(call[c])'
BY FitsStart, FitsPrepare, FitsMove, FitsJournal, FitsRemote, FitsEnd, FitsRaise, FitsReconcile
DEF CallStep, Work

(* Whoever else edits, stages, commits or pushes does not touch the journal, and never moves the     *)
(* branch back to the base.                                                                           *)
LEMMA FitsOutsiders ==
  ASSUME PublicationInv, Outsiders, JournalFits, NEW x, CallFits(x), x \in CallType
  PROVE  JournalFits' /\ CallFits(x)'
<1>1. /\ UNCHANGED <<run_state, row, landed, remote_has>>
      /\ branch # 0 => branch' # 0
  BY PublicationAssumption DEF Outsiders, EditWork, Stage, HandCommit, ForeignPush, Foreign,
    PublicationInv, TypeOK
<1>2. JournalFits'
  BY <1>1 DEF JournalFits
<1>3. CallFits(x)'
  BY <1>1 DEF CallFits
<1>4. QED
  BY <1>2, <1>3

(* One call moves while no other is in flight.                                                        *)
LEMMA OthersIdle ==
  ASSUME PublicationInv, NEW c \in Callers, CallStep(c), ~Overlapping, ~Overlapping'
  PROVE  \A d \in Callers \ {c} : call[d].pc = "idle" /\ call'[d] = call[d]
<1>0. TypeOK /\ CommitKnown /\ call \in [Callers -> CallType]
  BY DEF PublicationInv, TypeOK
<1>1. PICK x : GoodCall(x) /\ call' = [call EXCEPT ![c] = x]
  BY <1>0, WorkCall, StartCall DEF CallStep
<1>2. \A d \in Callers \ {c} : call'[d] = call[d]
  BY <1>0, <1>1
<1>3. call[c].pc # "idle" \/ call'[c].pc # "idle"
  <2>1. CASE PublishStart(c)
    BY <1>0, <2>1 DEF PublishStart
  <2>2. ASSUME NEW resume \in BOOLEAN, ReconcileStart(c, resume) PROVE call'[c].pc # "idle"
    BY <1>0, <2>2 DEF ReconcileStart
  <2>3. CASE ~(PublishStart(c) \/ ReconcileStart(c, TRUE) \/ ReconcileStart(c, FALSE))
    BY <2>3 DEF CallStep, Work, PushLost, Raise, Crash, Preflight, Intent, Add, Prepare, Guard,
      MoveRef, Journal, Push, Confirm, InspectPending, Finalize, Abandon, ReportOnly, RecordError, At
  <2>4. QED
    BY <2>1, <2>2, <2>3
<1>4. QED
  BY <1>2, <1>3 DEF Overlapping

LEMMA SoloStep ==
  ASSUME PublicationInv, RemoteKnown, SoloInv, [Next]_vars
  PROVE  SoloInv'
<1>. SUFFICES ASSUME ~overlapped' PROVE SoloFits'
  BY DEF SoloInv
<1>1. ~overlapped
  BY DEF Next, Remember, vars
<1>2. /\ ~Overlapping /\ JournalFits
      /\ \A c \in Callers : CallFits(call[c])
      /\ ~disturbed => QuietGit /\ \A c \in Callers : QuietFits(call[c])
  BY <1>1 DEF SoloInv, SoloFits
<1>3. CASE UNCHANGED vars
  BY <1>2, <1>3 DEF vars, SoloFits, Overlapping, JournalFits, CallFits, QuietFits, QuietGit
<1>4. CASE Outsiders /\ Remember
  <2>1. ~Overlapping' /\ disturbed' /\ call' = call
    BY <1>4 DEF Remember, Outsiders
  <2>2. ASSUME NEW c \in Callers PROVE JournalFits' /\ CallFits(call[c])'
    <3>1. call[c] \in CallType
      BY DEF PublicationInv, TypeOK
    <3>2. QED
      BY <1>2, <1>4, <2>1, <3>1, FitsOutsiders
  <2>3. JournalFits'
    <3>1. Idle \in CallType /\ CallFits(Idle)
      BY PublicationAssumption DEF Idle, CallType, CallFits
    <3>2. QED
      BY <1>2, <1>4, <3>1, FitsOutsiders
  <2>4. QED
    BY <2>1, <2>2, <2>3 DEF SoloFits
<1>5. ASSUME NEW c \in Callers, CallStep(c), UNCHANGED disturbed, Remember
      PROVE  SoloFits'
  <2>1. ~Overlapping'
    BY <1>5 DEF Remember
  <2>2. Fits(call[c])'
    BY <1>2, <1>5, FitsStep DEF Ready, Fits
  <2>3. JournalFits' /\ CallFits(call[c])' /\ (~disturbed => QuietFits(call[c])')
    BY <1>5, <2>2 DEF Fits
  <2>4. ASSUME NEW d \in Callers, d # c
        PROVE  CallFits(call[d])' /\ (~disturbed => QuietFits(call[d])')
    <3>1. call'[d].pc = "idle"
      BY <1>2, <1>5, <2>1, <2>4, OthersIdle
    <3>2. QED
      BY <2>3, <3>1 DEF CallFits, QuietFits, QuietGit
  <2>5. ~disturbed => QuietGit'
    BY <2>3 DEF QuietFits
  <2>6. QED
    BY <1>5, <2>1, <2>3, <2>4, <2>5 DEF SoloFits
<1>6. QED
  BY <1>3, <1>4, <1>5 DEF Next

LEMMA SoloHolds == Spec => [](PublicationInv /\ RemoteKnown /\ SoloInv)
<1>1. Init => PublicationInv /\ RemoteKnown /\ SoloInv
  BY InvInit, SoloInit
<1>2. PublicationInv /\ RemoteKnown /\ SoloInv /\ [Next]_vars
        => (PublicationInv /\ RemoteKnown /\ SoloInv)'
  BY InvStep, SoloStep, RemoteStep DEF PublicationInv
<1>3. QED
  BY <1>1, <1>2, PTL DEF Spec

(* What the journal says at the end is true of Git, for any number of calls one after the other,     *)
(* with any number of commits, crashes, lost answers and reconciliations: a COMPLETE run names the   *)
(* commit on the branch and on the remote, whatever people did meanwhile, and if they did nothing an *)
(* ABANDONED one left nothing behind.                                                                 *)
THEOREM JournalTruthfulHolds == Spec => []JournalTruthful
<1>1. SoloInv => JournalTruthful
  <2>. SUFFICES ASSUME SoloInv, ~overlapped PROVE CompleteIsPublished /\ (~disturbed => AbandonedIsClean)
    BY DEF JournalTruthful
  <2>1. CompleteIsPublished
    BY DEF SoloInv, SoloFits, JournalFits, CompleteIsPublished, AfterRef
  <2>2. ~disturbed => AbandonedIsClean
    BY DEF SoloInv, SoloFits, QuietGit, AbandonedIsClean
  <2>3. QED
    BY <2>1, <2>2
<1>2. QED
  BY <1>1, SoloHolds, PTL

(* As long as calls do not overlap, once the journal says that the branch moved it never says an      *)
(* earlier phase again and never names another commit, whatever fails or is reconciled.                *)
THEOREM SerialJournalNeverRegressesHolds == Spec => SerialJournalNeverRegresses
<1>. DEFINE Keeps == ~overlapped' /\ row.status \in AfterRef =>
                       row'.status \in AfterRef /\ row'.commit = row.commit
<1>1. PublicationInv /\ SoloInv /\ [Next]_vars => [Keeps]_vars
  <2>. SUFFICES ASSUME PublicationInv, SoloInv, Next, ~overlapped', row.status \in AfterRef
                PROVE  row'.status \in AfterRef /\ row'.commit = row.commit
    BY DEF vars
  <2>1. /\ ~overlapped
        /\ JournalFits
        /\ \A c \in Callers : CallFits(call[c])
    BY DEF Next, Remember, SoloInv, SoloFits
  <2>2. row.commit # 0 /\ branch # 0
    BY <2>1 DEF JournalFits
  <2>3. CASE row' = row
    BY <2>3
  <2>4. ASSUME NEW c \in Callers, Journal(c) PROVE row'.status \in AfterRef /\ row'.commit = row.commit
    <3>1. GoodCall(call[c]) /\ CallFits(call[c]) /\ call[c].pc = "journal"
      BY <2>1, <2>4, CallFacts DEF Journal, At, PublicationInv
    <3>2. call[c].phase \in Moved /\ call[c].commit = row.commit
      BY <2>2, <3>1 DEF CallFits
    <3>3. QED
      BY <2>2, <2>4, <3>2 DEF Journal, Moved, AfterRef
  <2>5. ASSUME NEW c \in Callers, Finalize(c) PROVE row'.status \in AfterRef /\ row'.commit = row.commit
    BY <2>1, <2>5 DEF CallFits, Finalize, At, AfterRef
  <2>6. ASSUME NEW c \in Callers, RecordError(c)
        PROVE  row'.status \in AfterRef /\ row'.commit = row.commit
    <3>1. call[c].phase \in Moved
      BY <2>1, <2>6 DEF CallFits, RecordError, At
    <3>2. QED
      BY <2>6, <3>1 DEF RecordError, Moved, AfterRef, PublicationInv, TypeOK
  <2>7. ASSUME NEW c \in Callers, PublishStart(c) \/ Intent(c) \/ Abandon(c) PROVE FALSE
    BY <2>1, <2>2, <2>7 DEF PublishStart, Intent, Abandon, At, CallFits, AfterRef
  <2>8. QED
    BY ZenonT(40), <2>3, <2>4, <2>5, <2>6, <2>7 DEF Next, CallStep, Work, Outsiders, Preflight, Add, Prepare, Guard,
      MoveRef, Push, Confirm, InspectPending, ReportOnly, ReconcileStart, PushLost, Raise, Crash
<1>2. QED
  BY <1>1, SoloHolds, PTL DEF Spec, SerialJournalNeverRegresses
=============================================================================

----------------------------- MODULE Publication -----------------------------
(***************************************************************************)
(* Guarded Git publication of one verified run: Orchestrator.publish and    *)
(* reconcile_publication (orch/core.py).  Each call alternates between a    *)
(* Git side effect and a row of the publications table that journals it, so *)
(* a call may die, or another call may run, between any two of them.        *)
(*                                                                          *)
(* Contents are abstracted to "base" (as in the expected base), "snap" (the  *)
(* verified snapshot's bytes) and "other".  Commit ids are naturals: 0 is    *)
(* the expected base, 1, 2, ... are commits whose only parent is the base    *)
(* and whose content is exactly the snapshot, Foreign is any other commit.   *)
(***************************************************************************)
EXTENDS Integers, FiniteSets

CONSTANTS
  Callers,      \* publish and publish-reconcile processes
  Kind,         \* publication kind: "git" pushes, "git_local" does not
  Interference, \* TRUE: people edit, stage, commit and push meanwhile
  MaxCommits,   \* bound on prepared commits
  MaxFaults     \* bound on crashes and errors

ASSUME PublicationAssumption ==
  /\ Kind \in {"git", "git_local"}
  /\ Interference \in BOOLEAN
  /\ MaxCommits \in Nat /\ MaxFaults \in Nat

Foreign == -1   \* a branch or remote tip that is not the base nor a snapshot commit
Absent  == -2   \* the remote has no such ref
Tips    == (0 .. MaxCommits) \cup {Foreign}

VARIABLES
  run_state,    \* runs.state of the run: VERIFIED or COMPLETE
  row,          \* its row of table publications
  commits,      \* number of snapshot commit objects created so far
  branch,       \* tip of the publication branch (HEAD)
  landed,       \* snapshot commits that publish or reconcile moved the branch to
  index,        \* content of the Git index
  work,         \* content of the work tree
  remote,       \* tip of the remote ref
  remote_has,   \* snapshot commits in the remote ref's history
  call,         \* the calls in flight
  faults,       \* crashes and errors so far
  overlapped,   \* history: two calls have been in flight at once
  disturbed     \* history: people have interfered

vars == <<run_state, row, commits, branch, landed, index, work, remote, remote_has,
          call, faults, overlapped, disturbed>>

JournalStates == {"NONE", "INTENT", "STAGED", "PREPARED", "COMMITTED", "PUSHED",
                  "REMOTE_VERIFIED", "COMPLETE", "ABANDONED"}
(* States the journal only reaches after the branch moved.                       *)
AfterRef == {"COMMITTED", "PUSHED", "REMOTE_VERIFIED", "COMPLETE"}

Idle == [kind |-> "none", pc |-> "idle", phase |-> "INTENT", commit |-> 0, resume |-> FALSE]
CallType ==
  [kind : {"none", "publish", "reconcile"},
   pc : {"idle", "preflight", "intent", "add", "journal", "abandon", "prepare", "move",
         "cas", "inspect", "push", "confirm", "finalize", "failed"},
   phase : {"INTENT", "STAGED", "PREPARED", "COMMITTED", "PUSHED", "REMOTE_VERIFIED"},
   commit : 0 .. MaxCommits, resume : BOOLEAN]

Init ==
  /\ run_state = "VERIFIED"
  /\ row = [status |-> "NONE", commit |-> 0, remote |-> 0]
  /\ commits = 0
  /\ branch = 0 /\ landed = {}
  /\ index = "base" /\ work = "snap"
  /\ remote \in {0, Absent} /\ remote_has = {}
  /\ call = [c \in Callers |-> Idle]
  /\ faults = 0
  /\ overlapped = FALSE /\ disturbed = FALSE

(* Content of the branch tip, and the staging area against it.                    *)
TipContent == IF branch = 0 THEN "base" ELSE IF branch = Foreign THEN "other" ELSE "snap"
StagingEmpty == index = TipContent
(* _staged_matches_snapshot                                                       *)
StagedMatches == branch = 0 /\ index = "snap"
(* _commit_matches_snapshot: the commit has the base as its parent and exactly the *)
(* snapshot's changes.                                                            *)
CommitMatches(tip) == tip \in 1 .. MaxCommits
(* _publication_workspace_guard: the snapshot's bytes in the work tree and the base   *)
(* as HEAD.  Of the index it compares only names: it may refuse an index of other     *)
(* content, and may pass one that differs in the snapshot's own paths.                *)
WorkspaceGuard == work = "snap" /\ branch = 0
ForeignNames == index = "other"

At(c, pc) == call[c].pc = pc
Goto(c, pc) == call' = [call EXCEPT ![c].pc = pc]
Return(c) == call' = [call EXCEPT ![c] = Idle]

-----------------------------------------------------------------------------
(* publish, up to its journalled intent.                                          *)

PublishStart(c) ==
  /\ At(c, "idle")
  /\ run_state = "VERIFIED" /\ work = "snap"
  /\ row.status \in {"NONE", "ABANDONED"}
  /\ row' = [status |-> "NONE", commit |-> 0, remote |-> 0]
  /\ call' = [call EXCEPT ![c] = [kind |-> "publish", pc |-> "preflight", phase |-> "INTENT",
                                  commit |-> 0, resume |-> TRUE]]
  /\ UNCHANGED <<run_state, commits, branch, landed, index, work, remote, remote_has, faults>>

(* Branch on the expected base, nothing staged, workspace still the snapshot.       *)
Preflight(c) ==
  /\ At(c, "preflight")
  /\ branch = 0 /\ StagingEmpty /\ WorkspaceGuard
  /\ Goto(c, "intent")
  /\ UNCHANGED <<run_state, row, commits, branch, landed, index, work, remote, remote_has, faults>>

(* _publication_update inserts the row, or overwrites the status of one that        *)
(* appeared in between.                                                             *)
Intent(c) ==
  /\ At(c, "intent")
  /\ row' = [row EXCEPT !.status = "INTENT"]
  /\ Goto(c, "add")
  /\ UNCHANGED <<run_state, commits, branch, landed, index, work, remote, remote_has, faults>>

(* git add of the changed paths, then the staged blobs must be the snapshot.        *)
Add(c) ==
  /\ At(c, "add")
  /\ index' = work
  /\ call' = [call EXCEPT ![c].pc = IF branch = 0 /\ work = "snap" THEN "journal" ELSE "failed",
                          ![c].phase = IF branch = 0 /\ work = "snap" THEN "STAGED" ELSE @]
  /\ UNCHANGED <<run_state, row, commits, branch, landed, work, remote, remote_has, faults>>

-----------------------------------------------------------------------------
(* reconcile_publication reads journal, branch and staging, then joins the steps    *)
(* below where the evidence says the publication stopped.                           *)

(* Faulty variant: every reconciliation starts over from the staged snapshot.        *)
ReconcileEntryFromStaged == <<"prepare", 0>>

ReconcileEntry ==
  CASE row.commit = 0 /\ CommitMatches(branch) -> <<"journal", branch>>
    [] row.commit = 0 /\ branch = 0 /\ StagedMatches /\ WorkspaceGuard -> <<"prepare", 0>>
    [] row.commit = 0 /\ branch = 0 /\ ~StagedMatches /\ StagingEmpty
         /\ row.status = "INTENT" -> <<"abandon", 0>>
    [] row.commit # 0 /\ branch = 0 /\ StagedMatches /\ WorkspaceGuard -> <<"move", row.commit>>
    [] row.commit # 0 /\ branch = row.commit -> <<"journal", row.commit>>
    [] OTHER -> <<"idle", 0>>

ReconcileStart(c, resume) ==
  /\ At(c, "idle")
  /\ row.status \notin {"NONE", "COMPLETE"}
  /\ LET entry == ReconcileEntry
     IN  /\ entry[1] # "idle"
         /\ call' = [call EXCEPT ![c] = [kind |-> "reconcile", pc |-> entry[1],
                phase |-> IF entry[1] = "journal" THEN "COMMITTED"
                          ELSE IF entry[1] = "move" THEN "PREPARED" ELSE "STAGED",
                commit |-> entry[2], resume |-> resume]]
  /\ UNCHANGED <<run_state, row, commits, branch, landed, index, work, remote, remote_has, faults>>

(* SAFE_TO_RETRY: "no_git_side_effect_observed".                                    *)
Abandon(c) ==
  /\ At(c, "abandon")
  /\ row' = [row EXCEPT !.status = "ABANDONED"]
  /\ Return(c)
  /\ UNCHANGED <<run_state, commits, branch, landed, index, work, remote, remote_has, faults>>

(* Without --resume the call only reports before each new side effect.               *)
ReportOnly(c) ==
  /\ call[c].kind = "reconcile" /\ ~call[c].resume
  /\ call[c].pc \in {"prepare", "move", "push"}
  /\ Return(c)
  /\ UNCHANGED <<run_state, row, commits, branch, landed, index, work, remote, remote_has, faults>>

-----------------------------------------------------------------------------
(* The steps both calls share.                                                       *)

(* write-tree and commit-tree from the index; the object must match the snapshot.     *)
Prepare(c) ==
  /\ At(c, "prepare") /\ call[c].resume
  /\ index = "snap" /\ commits < MaxCommits
  /\ commits' = commits + 1
  /\ call' = [call EXCEPT ![c].pc = "journal", ![c].phase = "PREPARED", ![c].commit = commits + 1]
  /\ UNCHANGED <<run_state, row, branch, landed, index, work, remote, remote_has, faults>>

(* The guard is evaluated once more, then update-ref with the expected old value.      *)
Guard(c) ==
  /\ At(c, "move") /\ call[c].resume
  /\ WorkspaceGuard
  /\ Goto(c, "cas")
  /\ UNCHANGED <<run_state, row, commits, branch, landed, index, work, remote, remote_has, faults>>

(* Faulty variant: update-ref without the expected old value.                          *)
CasUnchecked == TRUE
CasApplies == branch = 0

MoveRef(c) ==
  /\ At(c, "cas")
  /\ CasApplies
  /\ branch' = call[c].commit
  /\ landed' = landed \cup {call[c].commit}
  /\ call' = [call EXCEPT ![c].pc = "journal", ![c].phase = "COMMITTED"]
  /\ UNCHANGED <<run_state, row, commits, index, work, remote, remote_has, faults>>

(* _publication_update: status, and the commit id once there is one.                  *)
AfterJournal(kind, phase) ==
  CASE phase = "STAGED" -> "prepare"
    [] phase = "PREPARED" -> "move"
    [] phase = "COMMITTED" -> IF Kind = "git_local" THEN "finalize"
                              ELSE IF kind = "publish" THEN "push" ELSE "inspect"
    [] phase = "PUSHED" -> "confirm"
    [] OTHER -> "finalize"

Journal(c) ==
  /\ At(c, "journal")
  /\ row.status # "NONE"
  /\ row' = [status |-> call[c].phase,
             commit |-> IF call[c].commit # 0 THEN call[c].commit ELSE row.commit,
             remote |-> IF call[c].phase = "REMOTE_VERIFIED" THEN call[c].commit ELSE row.remote]
  /\ Goto(c, AfterJournal(call[c].kind, call[c].phase))
  /\ UNCHANGED <<run_state, commits, branch, landed, index, work, remote, remote_has, faults>>

(* An ordinary push is accepted if the remote tip is an ancestor of the commit.        *)
(* Faulty variant: a ref that does not exist yet cannot be pushed.                     *)
FastforwardsExisting(c) == remote \in {0, call[c].commit}
Fastforwards(c) == remote \in {0, Absent, call[c].commit}

Push(c) ==
  /\ At(c, "push") /\ call[c].resume
  /\ Fastforwards(c)
  /\ remote' = call[c].commit
  /\ remote_has' = remote_has \cup {call[c].commit}
  /\ call' = [call EXCEPT ![c].pc = "journal", ![c].phase = "PUSHED"]
  /\ UNCHANGED <<run_state, row, commits, branch, landed, index, work, faults>>

(* The push went through but the client reports a failure or a timeout.                *)
PushLost(c) ==
  /\ At(c, "push") /\ call[c].resume
  /\ faults < MaxFaults /\ Fastforwards(c)
  /\ remote' = call[c].commit
  /\ remote_has' = remote_has \cup {call[c].commit}
  /\ Goto(c, "failed")
  /\ faults' = faults + 1
  /\ UNCHANGED <<run_state, row, commits, branch, landed, index, work>>

(* ls-remote readback: after the push by both, before it by reconcile alone.            *)
(* Faulty variant: any answer from the remote counts.                                   *)
ReadsAny(c) == remote # Absent
ReadsCommit(c) == remote = call[c].commit

Confirm(c) ==
  /\ call[c].pc \in {"confirm", "inspect"}
  /\ ReadsCommit(c)
  /\ call' = [call EXCEPT ![c].pc = "journal", ![c].phase = "REMOTE_VERIFIED"]
  /\ UNCHANGED <<run_state, row, commits, branch, landed, index, work, remote, remote_has, faults>>

(* The remote has no commit yet; a readback that errors is taken for the same answer.     *)
InspectPending(c) ==
  /\ At(c, "inspect")
  /\ \/ remote \in {0, Absent} /\ UNCHANGED faults
     \/ faults < MaxFaults /\ faults' = faults + 1
  /\ Goto(c, "push")
  /\ UNCHANGED <<run_state, row, commits, branch, landed, index, work, remote, remote_has>>

(* _finalize_publication: one transaction, by run id alone.                              *)
Finalize(c) ==
  /\ At(c, "finalize")
  /\ row.status # "NONE"
  /\ row' = [status |-> "COMPLETE", commit |-> call[c].commit,
             remote |-> IF Kind = "git" THEN call[c].commit ELSE 0]
  /\ run_state' = "COMPLETE"
  /\ Return(c)
  /\ UNCHANGED <<commits, branch, landed, index, work, remote, remote_has, faults>>

-----------------------------------------------------------------------------
(* Errors.  A guard that fails, a Git command or a remote that errors or times out.      *)

Stuck(c) ==
  \/ At(c, "preflight") /\ ~(branch = 0 /\ StagingEmpty /\ WorkspaceGuard)
  \/ At(c, "prepare") /\ index # "snap"
  \/ At(c, "move") /\ (~WorkspaceGuard \/ ForeignNames)
  \/ At(c, "cas") /\ ~CasApplies
  \/ At(c, "push") /\ ~Fastforwards(c)
  \/ At(c, "confirm") /\ ~ReadsCommit(c)
  \/ At(c, "inspect") /\ ~ReadsCommit(c) /\ remote \notin {0, Absent}
  \/ call[c].pc \in {"journal", "finalize"} /\ row.status = "NONE"

(* publish journals every error after its intent with the phase it reached, reconcile   *)
(* only a failed prepare or push.                                                       *)
ErrorJournalled(c) ==
  IF call[c].kind = "publish" THEN call[c].pc \notin {"preflight", "intent"}
  ELSE call[c].pc \in {"prepare", "push"}

Raise(c) ==
  /\ call[c].pc \notin {"idle", "failed"}
  /\ \/ Stuck(c) /\ UNCHANGED faults
     \/ faults < MaxFaults /\ faults' = faults + 1
  /\ IF ErrorJournalled(c) THEN Goto(c, "failed") ELSE Return(c)
  /\ UNCHANGED <<run_state, row, commits, branch, landed, index, work, remote, remote_has>>

RecordError(c) ==
  /\ At(c, "failed")
  /\ row' = IF row.status = "NONE" THEN row ELSE [row EXCEPT !.status = call[c].phase]
  /\ Return(c)
  /\ UNCHANGED <<run_state, commits, branch, landed, index, work, remote, remote_has, faults>>

Crash(c) ==
  /\ call[c].pc # "idle" /\ faults < MaxFaults
  /\ faults' = faults + 1
  /\ Return(c)
  /\ UNCHANGED <<run_state, row, commits, branch, landed, index, work, remote, remote_has>>

-----------------------------------------------------------------------------
(* People at work in the same repository: never a force push or a reset to the base.       *)

EditWork ==
  /\ work' \in {"snap", "other"} \ {work}
  /\ UNCHANGED <<index, branch, remote, commits>>
Stage ==
  /\ index' \in {TipContent, work} \ {index}
  /\ UNCHANGED <<work, branch, remote, commits>>
(* A hand-made commit of what is staged: exactly the snapshot, or something else.           *)
HandCommit ==
  /\ ~StagingEmpty
  /\ IF StagedMatches
     THEN commits < MaxCommits /\ commits' = commits + 1 /\ branch' = commits + 1
     ELSE branch' = Foreign /\ UNCHANGED commits
  /\ UNCHANGED <<work, index, remote>>
ForeignPush ==
  /\ remote # Foreign /\ remote' = Foreign
  /\ UNCHANGED <<work, index, branch, commits>>

Outsiders ==
  /\ Interference
  /\ EditWork \/ Stage \/ HandCommit \/ ForeignPush
  /\ disturbed' = TRUE
  /\ UNCHANGED <<run_state, row, landed, remote_has, call, faults>>

-----------------------------------------------------------------------------
Work(c) ==
  \/ Preflight(c) \/ Intent(c) \/ Add(c) \/ Prepare(c) \/ Guard(c) \/ MoveRef(c) \/ Journal(c)
  \/ Push(c) \/ Confirm(c) \/ InspectPending(c) \/ Finalize(c)
  \/ Abandon(c) \/ ReportOnly(c) \/ RecordError(c)

CallStep(c) ==
  \/ PublishStart(c) \/ ReconcileStart(c, TRUE) \/ ReconcileStart(c, FALSE)
  \/ Work(c) \/ PushLost(c) \/ Raise(c) \/ Crash(c)

Overlapping == \E c, d \in Callers : c # d /\ call[c].pc # "idle" /\ call[d].pc # "idle"
Remember == overlapped' = (overlapped \/ Overlapping')

Next ==
  /\ \/ (\E c \in Callers : CallStep(c)) /\ UNCHANGED disturbed
     \/ Outsiders
  /\ Remember

Spec == Init /\ [][Next]_vars

-----------------------------------------------------------------------------
TypeOK ==
  /\ run_state \in {"VERIFIED", "COMPLETE"}
  /\ row \in [status : JournalStates, commit : 0 .. MaxCommits, remote : 0 .. MaxCommits]
  /\ commits \in 0 .. MaxCommits
  /\ branch \in Tips
  /\ landed \in SUBSET (1 .. MaxCommits)
  /\ index \in {"base", "snap", "other"} /\ work \in {"snap", "other"}
  /\ remote \in Tips \cup {Absent}
  /\ remote_has \in SUBSET (1 .. MaxCommits)
  /\ call \in [Callers -> CallType]
  /\ faults \in 0 .. MaxFaults
  /\ overlapped \in BOOLEAN /\ disturbed \in BOOLEAN

(* However many publish and reconcile calls overlap, crash and are retried, the branch is   *)
(* moved to at most one commit for the run.                                                  *)
OneCommitLands == \A b, d \in landed : b = d

(* A COMPLETE run's journal names the commit that is on the branch and, for kind "git", on   *)
(* the remote.                                                                               *)
CompleteIsPublished ==
  run_state = "COMPLETE" =>
    /\ row.status = "COMPLETE"
    /\ row.commit # 0
    /\ landed \subseteq {row.commit}
    /\ Kind = "git" => row.commit \in remote_has /\ row.remote = row.commit

(* An ABANDONED journal (SAFE_TO_RETRY, "no_git_side_effect_observed") means that nothing     *)
(* was staged and nothing moved, whatever was interrupted before.                             *)
AbandonedIsClean == row.status = "ABANDONED" => landed = {} /\ index = "base"

(* What the journal says at the end is true of Git.  As long as calls never overlapped, a    *)
(* COMPLETE run's journal names the commit that is on the branch and on the remote, whatever *)
(* people did to either meanwhile.  If nobody interfered either, an ABANDONED journal         *)
(* (SAFE_TO_RETRY, "no_git_side_effect_observed") means that nothing was staged and           *)
(* nothing moved, whatever was interrupted before.                                            *)
JournalTruthful ==
  /\ ~overlapped => CompleteIsPublished
  /\ ~overlapped /\ ~disturbed => AbandonedIsClean

(* As long as calls never overlapped, once the journal says the branch moved it never says   *)
(* an earlier phase again, and never names another commit.                                    *)
SerialJournalNeverRegresses ==
  [][~overlapped' /\ row.status \in AfterRef =>
       row'.status \in AfterRef /\ row'.commit = row.commit]_vars
=============================================================================

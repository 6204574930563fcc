------------------------------ MODULE FilePatch ------------------------------
(***************************************************************************)
(* Bounded file replacement for a running worker (orch/bridge_file_patch.py) *)
(* on its two stores of immutable evidence: the intent journal               *)
(* (bridge_operation_journal.py) and the dispatch, publication and result    *)
(* records (bridge_patch_execution.py).  An operation id is applied at most  *)
(* once: apply writes a record before every effect, a call may die or fail   *)
(* between any two steps, and reconcile decides from the evidence, without    *)
(* ever writing the replacement bytes.                                       *)
(*                                                                           *)
(* One home, one run, one target file.  A file is its inode, a version       *)
(* (mtime and ctime) and its data; the scratch file of an operation has the  *)
(* operation's name as its inode.                                            *)
(***************************************************************************)
EXTENDS Naturals, FiniteSets

CONSTANTS
  Ops,        \* operation ids
  Data,       \* file contents
  Requests,   \* what workers ask: an id, the baseline and the replacement
  Initial,    \* data of the target when the run starts
  Callers,    \* local callers of apply and reconcile
  MaxEdits,   \* bound on edits by other programs of the same user
  MaxFaults   \* bound on crashes and errors

ASSUME FilePatchAssumption ==
  /\ Requests \subseteq [op : Ops, base : Data, new : Data]
  /\ Initial \in Data
  /\ "none" \notin Data /\ "unreadable" \notin Data
  /\ "original" \notin Ops /\ "foreign" \notin Ops /\ "none" \notin Callers
  /\ MaxEdits \in Nat /\ MaxFaults \in Nat

VARIABLES
  target,     \* the file under its name
  scratch,    \* the .orch-patch-*.tmp sibling of each operation
  renames,    \* how often each operation renamed its scratch over the target
  intent,     \* the intent journal
  record,     \* the execution records of each operation
  torn,       \* operations whose directory holds a leftover: empty, or a .tmp
  journal_torn, \* the intent journal holds a leftover .tmp
  run_open,   \* the run is RUNNING, its capability valid
  lock,       \* the caller that holds the runtime lock
  call,       \* the calls
  edits, faults

vars == <<target, scratch, renames, intent, record, torn, journal_torn, run_open, lock,
          call, edits, faults>>

Inodes == {"original", "foreign"} \cup Ops
Files == [ino : Inodes, version : Nat, data : Data]
NoFile == [ino |-> "original", version |-> 0, data |-> "none"]
Intents == [base : Data, new : Data]
NoIntent == [base |-> "none", new |-> "none"]
Unreadable == [base |-> "unreadable", new |-> "unreadable"]
NoRecord == [dispatch |-> FALSE, original |-> NoFile, publication |-> FALSE, result |-> "NONE"]
Dispositions == {"APPLIED", "NOT_APPLIED"}
Answers == Dispositions \cup {"NONE", "REFUSED", "CONFLICT", "UNKNOWN"}
NoRequest == [op |-> "none", base |-> "none", new |-> "none"]
Idle == [pc |-> "idle", req |-> NoRequest, original |-> NoFile, disposition |-> "NONE",
         dispatched |-> FALSE, answer |-> "NONE"]

RecordType == [dispatch : BOOLEAN, original : Files \cup {NoFile},
               publication : BOOLEAN, result : Dispositions \cup {"NONE"}]
CallType ==
  [pc : {"idle", "prepare", "inspect", "dispatch", "stage", "publication", "recheck",
         "replace", "readback", "cleanup", "result", "decide"},
   req : Requests \cup {NoRequest}, original : Files \cup {NoFile},
   disposition : Dispositions \cup {"NONE"}, dispatched : BOOLEAN, answer : Answers]

Init ==
  /\ target = [ino |-> "original", version |-> 0, data |-> Initial]
  /\ scratch = [o \in Ops |-> "none"]
  /\ renames = [o \in Ops |-> 0]
  /\ intent = [o \in Ops |-> NoIntent]
  /\ record = [o \in Ops |-> NoRecord]
  /\ torn = {} /\ journal_torn = FALSE
  /\ run_open = TRUE
  /\ lock = "none"
  /\ call = [c \in Callers |-> Idle]
  /\ edits = 0 /\ faults = 0

-----------------------------------------------------------------------------
(* What the code compares.                                                   *)

(* _same_material with stable=True: all but the times.                        *)
StableMatch(o, new) == target.ino = o /\ target.data = new
Op(c) == call[c].req.op
At(c, pc) == call[c].pc = pc
Goto(c, pc) == call' = [call EXCEPT ![c].pc = pc]

(* _authorized_recheck: the run is live and the name still leads to the file   *)
(* this call opened, unmodified.                                              *)
Unmoved(c) == run_open /\ target = call[c].original

(* The call answers and gives up the lock.                                    *)
Answer(c, answer) ==
  /\ call' = [call EXCEPT ![c] = [Idle EXCEPT !.answer = answer,
                                              !.dispatched = call[c].dispatched]]
  /\ lock' = "none"

(* runtime_operation_lock never waits: a second caller is told UNKNOWN.         *)
LockFree == lock = "none"

storeVars == <<intent, record, torn, journal_torn>>
fileVars == <<target, scratch, renames>>

-----------------------------------------------------------------------------
(* apply                                                                       *)

ApplyStart(c, q) ==
  /\ At(c, "idle") /\ LockFree /\ run_open
  /\ lock' = c
  /\ call' = [call EXCEPT ![c] = [Idle EXCEPT !.pc = "prepare", !.req = q]]
  /\ UNCHANGED <<fileVars, storeVars, run_open, edits, faults>>

(* LocalFilePatchIntentService.prepare: an id keeps the first intent recorded  *)
(* for it; a new one needs the baseline on disk and a clean journal.           *)
Prepare(c) ==
  LET o == Op(c)
      wanted == [base |-> call[c].req.base, new |-> call[c].req.new]
  IN
  /\ At(c, "prepare")
  /\ \/ /\ intent[o] = wanted
        /\ Goto(c, "inspect") /\ UNCHANGED <<intent, lock>>
     \/ /\ intent[o] \notin {NoIntent, Unreadable, wanted}
        /\ Answer(c, "CONFLICT") /\ UNCHANGED intent
     \/ /\ intent[o] = Unreadable
        /\ Answer(c, "UNKNOWN") /\ UNCHANGED intent
     \/ /\ intent[o] = NoIntent /\ target.data # wanted.base
        /\ Answer(c, "REFUSED") /\ UNCHANGED intent
     \/ /\ intent[o] = NoIntent /\ target.data = wanted.base /\ journal_torn
        /\ Answer(c, "UNKNOWN") /\ UNCHANGED intent
     \/ /\ intent[o] = NoIntent /\ target.data = wanted.base /\ ~journal_torn
        /\ intent' = [intent EXCEPT ![o] = wanted]
        /\ Goto(c, "inspect") /\ UNCHANGED lock
  /\ UNCHANGED <<fileVars, record, torn, journal_torn, run_open, edits, faults>>

(* OperationIntentJournal.create fails: before the link, after it, or with its   *)
(* temporary name left behind.                                                  *)
PrepareFails(c) ==
  LET o == Op(c)
      wanted == [base |-> call[c].req.base, new |-> call[c].req.new]
  IN
  /\ At(c, "prepare") /\ intent[o] = NoIntent /\ ~journal_torn
  /\ target.data = wanted.base
  /\ faults < MaxFaults /\ faults' = faults + 1
  /\ \/ intent' = [intent EXCEPT ![o] = wanted] /\ UNCHANGED journal_torn
     \/ intent' = [intent EXCEPT ![o] = Unreadable] /\ journal_torn' = TRUE
     \/ journal_torn' = TRUE /\ UNCHANGED intent
  /\ Answer(c, "UNKNOWN")
  /\ UNCHANGED <<fileVars, record, torn, run_open, edits>>

(* An id with records is never dispatched again, whatever its outcome.            *)
(* Faulty variant: only a terminal record closes an id.                           *)
RetriableId(o) == record[o].result = "NONE"
FreshId(o) == ~record[o].dispatch

(* Stored evidence counts once it has been synced and read again, which needs an   *)
(* intent journal without leftovers.                                              *)
Acknowledged == ~journal_torn
HistoricalAnswer(o) ==
  IF record[o].result # "NONE" /\ Acknowledged THEN record[o].result ELSE "UNKNOWN"

(* PatchExecutionStore.inspect, then the target is opened and captured.           *)
Inspect(c) ==
  LET o == Op(c)
  IN
  /\ At(c, "inspect")
  /\ \/ /\ o \in torn
        /\ Answer(c, "UNKNOWN")
     \/ /\ o \notin torn /\ ~FreshId(o)
        /\ Answer(c, HistoricalAnswer(o))
     \/ /\ o \notin torn /\ FreshId(o) /\ target.data # call[c].req.base
        /\ Answer(c, "REFUSED")
     \/ /\ o \notin torn /\ FreshId(o) /\ target.data = call[c].req.base
        /\ call' = [call EXCEPT ![c].pc = "dispatch", ![c].original = target]
        /\ UNCHANGED lock
  /\ UNCHANGED <<fileVars, storeVars, run_open, edits, faults>>

(* PatchExecutionStore.append: the complete census is clean, the record is linked   *)
(* under its final name once.                                                       *)
Appendable == torn = {}

AppendDispatch(c) ==
  /\ At(c, "dispatch") /\ Unmoved(c) /\ Appendable /\ Acknowledged
  /\ record' = [record EXCEPT ![Op(c)] = [NoRecord EXCEPT !.dispatch = TRUE,
                                                         !.original = call[c].original]]
  /\ call' = [call EXCEPT ![c].pc = "stage", ![c].dispatched = TRUE]
  /\ UNCHANGED <<fileVars, intent, torn, journal_torn, run_open, lock, edits, faults>>

(* apply's last resort: REFUSED only if the operation's directory is absent.          *)
(* Faulty variant: the directory is not inspected.                                    *)
AnswersUninspected(linked, left) == {"UNKNOWN", "REFUSED"}
AnswersAfterError(linked, left) ==
  IF linked \/ left THEN {"UNKNOWN"} ELSE {"UNKNOWN", "REFUSED"}

(* Not appendable, or an error: nothing written, an empty directory or a .tmp left    *)
(* (the record linked or not), or the record written and not acknowledged.            *)
DispatchFails(c) ==
  /\ At(c, "dispatch")
  /\ \/ /\ ~(Unmoved(c) /\ Appendable /\ Acknowledged)
        /\ Answer(c, IF Unmoved(c) THEN "UNKNOWN" ELSE "REFUSED")
        /\ UNCHANGED <<record, torn, faults>>
     \/ /\ Appendable /\ Acknowledged /\ faults < MaxFaults /\ faults' = faults + 1
        /\ \E linked \in BOOLEAN, left \in BOOLEAN :
             /\ record' = IF linked
                          THEN [record EXCEPT ![Op(c)] = [NoRecord EXCEPT !.dispatch = TRUE,
                                                          !.original = call[c].original]]
                          ELSE record
             /\ torn' = IF left THEN torn \cup {Op(c)} ELSE torn
             /\ \E answer \in AnswersAfterError(linked, left) :
                  call' = [call EXCEPT ![c] = [Idle EXCEPT !.answer = answer, !.dispatched = linked]]
        /\ lock' = "none"
  /\ UNCHANGED <<fileVars, intent, journal_torn, run_open, edits>>

(* The scratch file is created, filled, given the original's metadata and synced.       *)
Stage(c) ==
  /\ At(c, "stage")
  /\ scratch' = [scratch EXCEPT ![Op(c)] = "full"]
  /\ Goto(c, "publication")
  /\ UNCHANGED <<target, renames, storeVars, run_open, lock, edits, faults>>

StageFails(c) ==
  /\ At(c, "stage")
  /\ faults < MaxFaults /\ faults' = faults + 1
  /\ \E s \in {"none", "partial"} : scratch' = [scratch EXCEPT ![Op(c)] = s]
  /\ Goto(c, "cleanup")
  /\ UNCHANGED <<target, renames, storeVars, run_open, lock, edits>>

AppendPublication(c) ==
  /\ At(c, "publication") /\ Unmoved(c) /\ Appendable
  /\ record' = [record EXCEPT ![Op(c)].publication = TRUE]
  /\ Goto(c, "recheck")
  /\ UNCHANGED <<fileVars, intent, torn, journal_torn, run_open, lock, edits, faults>>

PublicationFails(c) ==
  /\ At(c, "publication")
  /\ \/ ~(Unmoved(c) /\ Appendable) /\ UNCHANGED <<record, torn, faults>>
     \/ /\ Appendable /\ faults < MaxFaults /\ faults' = faults + 1
        /\ \E linked \in BOOLEAN, left \in BOOLEAN :
             /\ record' = [record EXCEPT ![Op(c)].publication = linked]
             /\ torn' = IF left THEN torn \cup {Op(c)} ELSE torn
  /\ Goto(c, "cleanup")
  /\ UNCHANGED <<fileVars, intent, journal_torn, run_open, lock, edits>>

(* The last check before the rename: original and scratch are the recorded ones.          *)
Recheck(c) ==
  /\ At(c, "recheck")
  /\ \/ /\ Unmoved(c) /\ scratch[Op(c)] = "full"
        /\ Goto(c, "replace") /\ UNCHANGED lock
     \/ /\ ~(Unmoved(c) /\ scratch[Op(c)] = "full")
        /\ Answer(c, "UNKNOWN")
  /\ UNCHANGED <<fileVars, storeVars, run_open, edits, faults>>

(* os.replace: atomic, with no comparison against the file it replaces.                    *)
Rename(c) ==
  /\ target' = [ino |-> Op(c), version |-> edits, data |-> call[c].req.new]
  /\ scratch' = [scratch EXCEPT ![Op(c)] = "none"]
  /\ renames' = [renames EXCEPT ![Op(c)] = @ + 1]

Replace(c) ==
  /\ At(c, "replace") /\ scratch[Op(c)] = "full"
  /\ Rename(c)
  /\ Goto(c, "readback")
  /\ UNCHANGED <<storeVars, run_open, lock, edits, faults>>

(* A rename that reports an error may have taken place.                                     *)
ReplaceFails(c) ==
  /\ At(c, "replace")
  /\ \/ scratch[Op(c)] # "full" /\ UNCHANGED <<fileVars, faults>>
     \/ /\ scratch[Op(c)] = "full" /\ faults < MaxFaults /\ faults' = faults + 1
        /\ Rename(c) \/ UNCHANGED fileVars
  /\ Answer(c, "UNKNOWN")
  /\ UNCHANGED <<storeVars, run_open, edits>>

Readback(c) ==
  /\ At(c, "readback")
  /\ \/ /\ run_open /\ StableMatch(Op(c), call[c].req.new)
        /\ call' = [call EXCEPT ![c].pc = "result", ![c].disposition = "APPLIED"]
        /\ UNCHANGED lock
     \/ /\ ~(run_open /\ StableMatch(Op(c), call[c].req.new))
        /\ Answer(c, "UNKNOWN")
  /\ UNCHANGED <<fileVars, storeVars, run_open, edits, faults>>

(* A failure before the publication record: the scratch is removed and NOT_APPLIED        *)
(* recorded; with that record on disk, or unreadable evidence, nothing is touched.         *)
Unpublished(o) == o \notin torn /\ record[o].dispatch /\ ~record[o].publication

Cleanup(c) ==
  LET safe == Unpublished(Op(c)) /\ Unmoved(c)
  IN
  /\ At(c, "cleanup")
  /\ \/ /\ safe
        /\ scratch' = [scratch EXCEPT ![Op(c)] = "none"]
        /\ call' = [call EXCEPT ![c].pc = "result", ![c].disposition = "NOT_APPLIED"]
        /\ UNCHANGED lock
     \/ /\ ~safe
        /\ Answer(c, "UNKNOWN") /\ UNCHANGED scratch
  /\ UNCHANGED <<target, renames, storeVars, run_open, edits, faults>>

(* The check under which the result is linked: apply has read the new target back already,   *)
(* otherwise the file this call opened must still be there.                                  *)
ResultHolds(c) ==
  IF call[c].dispatched /\ call[c].disposition = "APPLIED" THEN run_open ELSE Unmoved(c)

AppendResult(c) ==
  /\ At(c, "result") /\ ResultHolds(c) /\ Appendable
  /\ record' = [record EXCEPT ![Op(c)].result = call[c].disposition]
  /\ Answer(c, call[c].disposition)
  /\ UNCHANGED <<fileVars, intent, torn, journal_torn, run_open, edits, faults>>

ResultFails(c) ==
  /\ At(c, "result")
  /\ \/ ~(ResultHolds(c) /\ Appendable) /\ UNCHANGED <<record, torn, faults>>
     \/ /\ ResultHolds(c) /\ Appendable /\ faults < MaxFaults /\ faults' = faults + 1
        /\ \E linked \in BOOLEAN, left \in BOOLEAN :
             /\ record' = [record EXCEPT ![Op(c)].result =
                             IF linked THEN call[c].disposition ELSE @]
             /\ torn' = IF left THEN torn \cup {Op(c)} ELSE torn
  /\ Answer(c, "UNKNOWN")
  /\ UNCHANGED <<fileVars, intent, journal_torn, run_open, edits>>

-----------------------------------------------------------------------------
(* reconcile: the stored request, the evidence and the files decide.                          *)

ReconcileStart(c, q) ==
  LET o == q.op
  IN
  /\ At(c, "idle") /\ LockFree /\ run_open
  /\ o \notin torn /\ record[o].dispatch /\ intent[o] = [base |-> q.base, new |-> q.new]
  /\ lock' = c
  /\ call' = [call EXCEPT ![c] = [Idle EXCEPT !.pc = "decide", !.req = q]]
  /\ UNCHANGED <<fileVars, storeVars, run_open, edits, faults>>

(* Faulty variant: the scratch file is still expected beside the renamed target.                *)
SeemsAppliedStaged(c) ==
  record[Op(c)].publication /\ StableMatch(Op(c), call[c].req.new) /\ scratch[Op(c)] = "full"
SeemsApplied(c) ==
  record[Op(c)].publication /\ StableMatch(Op(c), call[c].req.new) /\ scratch[Op(c)] = "none"
(* Faulty variant: without a publication record the scratch is not looked for.                 *)
SeemsUntouchedByRecord(c) ==
  /\ target = record[Op(c)].original
  /\ record[Op(c)].publication => scratch[Op(c)] = "full"
SeemsUntouched(c) ==
  /\ target = record[Op(c)].original
  /\ IF record[Op(c)].publication THEN scratch[Op(c)] = "full" ELSE scratch[Op(c)] = "none"

Decide(c) ==
  LET o == Op(c)
  IN
  /\ At(c, "decide")
  /\ \/ /\ record[o].result # "NONE"
        /\ Answer(c, HistoricalAnswer(o)) /\ UNCHANGED scratch
     \/ /\ record[o].result = "NONE" /\ SeemsApplied(c)
        /\ call' = [call EXCEPT ![c].pc = "result", ![c].disposition = "APPLIED",
                                ![c].original = target]
        /\ UNCHANGED <<scratch, lock>>
     \/ /\ record[o].result = "NONE" /\ SeemsUntouched(c)
        /\ scratch' = [scratch EXCEPT ![o] = IF record[o].publication THEN "none" ELSE @]
        /\ call' = [call EXCEPT ![c].pc = "result", ![c].disposition = "NOT_APPLIED",
                                ![c].original = target]
        /\ UNCHANGED lock
     \/ /\ record[o].result = "NONE" /\ ~SeemsApplied(c) /\ ~SeemsUntouched(c)
        /\ Answer(c, "UNKNOWN") /\ UNCHANGED scratch
  /\ UNCHANGED <<target, renames, storeVars, run_open, edits, faults>>

-----------------------------------------------------------------------------
(* The process dies; the kernel releases its flock.                                            *)
Crash(c) ==
  /\ ~At(c, "idle") /\ faults < MaxFaults
  /\ faults' = faults + 1
  /\ call' = [call EXCEPT ![c] = Idle]
  /\ lock' = "none"
  /\ UNCHANGED <<fileVars, storeVars, run_open, edits>>

(* submit, quiesce or abort: require_execution_resolved under the same lock.                     *)
(* Faulty variant: only the operations whose replacement was published count.                    *)
ResolvedPublished ==
  torn = {} /\ \A o \in Ops : record[o].publication => record[o].result # "NONE"
Resolved ==
  /\ torn = {}
  /\ \A o \in Ops : record[o].dispatch => record[o].result # "NONE"
  /\ (\E o \in Ops : record[o].dispatch) => ~journal_torn

Close ==
  /\ LockFree /\ run_open /\ Resolved
  /\ run_open' = FALSE
  /\ UNCHANGED <<fileVars, storeVars, lock, call, edits, faults>>

(* Programs of the same user edit the target in place, replace it, or clean scratch up.           *)
Outside ==
  /\ edits < MaxEdits /\ edits' = edits + 1
  /\ \/ /\ \E d \in Data, i \in {target.ino, "foreign"} :
             target' = [ino |-> i, version |-> edits + 1, data |-> d]
        /\ UNCHANGED scratch
     \/ /\ \E o \in Ops : scratch[o] # "none" /\ scratch' = [scratch EXCEPT ![o] = "none"]
        /\ UNCHANGED target
  /\ UNCHANGED <<renames, storeVars, run_open, lock, call, faults>>

-----------------------------------------------------------------------------
Work(c) ==
  \/ Prepare(c) \/ Inspect(c) \/ AppendDispatch(c) \/ Stage(c) \/ AppendPublication(c)
  \/ Recheck(c) \/ Replace(c) \/ Readback(c) \/ Cleanup(c) \/ AppendResult(c) \/ Decide(c)

Fail(c) ==
  \/ PrepareFails(c) \/ DispatchFails(c) \/ StageFails(c) \/ PublicationFails(c)
  \/ ReplaceFails(c) \/ ResultFails(c)

Next ==
  \/ \E c \in Callers :
       \/ \E q \in Requests : ApplyStart(c, q) \/ ReconcileStart(c, q)
       \/ Work(c) \/ Fail(c) \/ Crash(c)
  \/ Close \/ Outside

Spec == Init /\ [][Next]_vars

-----------------------------------------------------------------------------
TypeOK ==
  /\ target \in Files
  /\ scratch \in [Ops -> {"none", "partial", "full"}]
  /\ renames \in [Ops -> Nat]
  /\ intent \in [Ops -> Intents \cup {NoIntent, Unreadable}]
  /\ record \in [Ops -> RecordType]
  /\ torn \in SUBSET Ops /\ journal_torn \in BOOLEAN
  /\ run_open \in BOOLEAN
  /\ lock \in Callers \cup {"none"}
  /\ call \in [Callers -> CallType]
  /\ edits \in 0 .. MaxEdits /\ faults \in 0 .. MaxFaults

(* "One participating dispatch per ID": however often an id is applied again, after any crash,       *)
(* error or answer, its scratch is renamed over the target at most once.                              *)
AppliedAtMostOnce == \A o \in Ops : renames[o] <= 1

(* A result record tells what happened to the workspace: APPLIED only if the rename took place,        *)
(* NOT_APPLIED only if it did not and never will; either way the scratch file is gone.                 *)
ReceiptsTruthful ==
  \A o \in Ops : record[o].result # "NONE" =>
    /\ renames[o] = IF record[o].result = "APPLIED" THEN 1 ELSE 0
    /\ scratch[o] = "none"

(* What a finished call told the worker: REFUSED and CONFLICT only without a dispatch by that call.      *)
RefusalsDidNothing ==
  \A c \in Callers : call[c].answer \in {"REFUSED", "CONFLICT"} => ~call[c].dispatched

(* Once submit, quiesce or abort has closed the run, no patch of it touches the workspace, and no        *)
(* scratch file of it is left there.                                                                     *)
ClosedRunUntouched ==
  [][~run_open => /\ renames' = renames
                  /\ \A o \in Ops : scratch'[o] = "none"]_vars
=============================================================================

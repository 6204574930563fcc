--------------------------- MODULE FilePatchProofs ---------------------------
(***************************************************************************)
(* Theorems about module FilePatch: its types, that an operation id is       *)
(* applied at most once, that records and answers tell the truth, and that a *)
(* closed run is left alone, for any operations, callers, edits by others    *)
(* and sequence of crashes and errors.                                       *)
(***************************************************************************)
EXTENDS FilePatch, TLAPS

(* Only the caller that holds the runtime lock is inside apply or reconcile.       *)
LockHeld == \A c \in Callers : call[c].pc # "idle" => lock = c

(* What the records r of an operation, its scratch file s and the number n of its   *)
(* renames have to do with each other, whether or not a call is running: no effect  *)
(* without the record before it, and scratch file and rename exclude each other.    *)
Ordered(r, s, n) ==
  /\ ~r.dispatch => ~r.publication /\ r.result = "NONE" /\ s = "none"
  /\ ~r.publication => n = 0
  /\ n \in {0, 1}
  /\ n = 1 => s = "none"
  /\ r.result = "APPLIED" => n = 1
  /\ r.result = "NOT_APPLIED" => n = 0 /\ s = "none"

EvidenceOrdered ==
  \A o \in Ops : /\ Ordered(record[o], scratch[o], renames[o])
                 /\ target.ino = o => renames[o] = 1

(* What a running call x knows about its operation.                                 *)
Knows(x, r, s, n) ==
  /\ x.pc = "dispatch" => ~r.dispatch
  /\ x.pc \in {"stage", "publication", "recheck", "replace", "readback", "cleanup",
               "result", "decide"} => r.dispatch
  /\ x.pc \in {"stage", "publication", "recheck", "replace", "readback", "cleanup",
               "result"} => r.result = "NONE"
  /\ x.pc \in {"stage", "publication"} => ~r.publication
  /\ x.pc \in {"recheck", "replace", "readback"} => r.publication
  /\ x.pc \in {"recheck", "replace", "cleanup"} => n = 0
  /\ x.pc = "readback" => n = 1
  /\ x.pc = "result" => /\ x.disposition \in Dispositions
                        /\ s = "none"
                        /\ n = IF x.disposition = "APPLIED" THEN 1 ELSE 0

CallKnows ==
  \A c \in Callers : call[c].pc # "idle" =>
    /\ call[c].req \in Requests
    /\ Knows(call[c], record[Op(c)], scratch[Op(c)], renames[Op(c)])

PatchInv == TypeOK /\ LockHeld /\ EvidenceOrdered /\ CallKnows

Scratches == {"none", "partial", "full"}
Pcs == {"idle", "prepare", "inspect", "dispatch", "stage", "publication", "recheck",
        "replace", "readback", "cleanup", "result", "decide"}

-----------------------------------------------------------------------------
(* A step that changes the call alone.                                                    *)
LEMMA QuietStep ==
  ASSUME PatchInv,
         NEW c \in Callers, call[c].pc # "idle" \/ lock = "none",
         NEW x \in CallType, call' = [call EXCEPT ![c] = x],
         UNCHANGED <<target, scratch, renames, record>>,
         x.pc # "idle" =>
           /\ x.req \in Requests /\ lock' = c
           /\ Knows(x, record[x.req.op], scratch[x.req.op], renames[x.req.op])
  PROVE  /\ call' \in [Callers -> CallType] /\ LockHeld' /\ EvidenceOrdered' /\ CallKnows'
<1>1. /\ call \in [Callers -> CallType] /\ LockHeld /\ EvidenceOrdered /\ CallKnows
  BY DEF PatchInv, TypeOK
<1>2. \A d \in Callers \ {c} : call[d].pc = "idle"
  BY <1>1, FilePatchAssumption DEF LockHeld
<1>3. call'[c] = x /\ \A d \in Callers \ {c} : call'[d].pc = "idle"
  BY <1>1, <1>2
<1>4. LockHeld'
  BY <1>3 DEF LockHeld
<1>5. EvidenceOrdered'
  BY <1>1 DEF EvidenceOrdered
<1>6. CallKnows'
  BY <1>3 DEF CallKnows, Op
<1>7. QED
  BY <1>1, <1>4, <1>5, <1>6

(* The facts every step of a running call starts from.                                     *)
LEMMA Running ==
  ASSUME PatchInv, NEW c \in Callers, call[c].pc # "idle"
  PROVE  /\ call[c] \in CallType /\ call[c].req \in Requests /\ Op(c) \in Ops
         /\ call[c].req.new \in Data /\ call[c].req.base \in Data
         /\ record[Op(c)] \in RecordType /\ scratch[Op(c)] \in Scratches
         /\ renames[Op(c)] \in Nat
         /\ Ordered(record[Op(c)], scratch[Op(c)], renames[Op(c)])
         /\ Knows(call[c], record[Op(c)], scratch[Op(c)], renames[Op(c)])
         /\ lock = c
<1>1. call[c].req \in Requests
  BY DEF PatchInv, CallKnows
<1>2. Op(c) \in Ops /\ call[c].req.new \in Data /\ call[c].req.base \in Data
  BY <1>1, FilePatchAssumption DEF Op
<1>3. QED
  BY <1>1, <1>2 DEF PatchInv, TypeOK, EvidenceOrdered, CallKnows, LockHeld, Scratches

(* Answering leaves an idle call and the lock free.                                          *)
LEMMA AnswerCall ==
  ASSUME TypeOK, NEW c \in Callers, NEW a \in Answers, Answer(c, a)
  PROVE  \E x \in CallType : x.pc = "idle" /\ call' = [call EXCEPT ![c] = x]
<1>. DEFINE x == [Idle EXCEPT !.answer = a, !.dispatched = call[c].dispatched]
<1>1. call[c].dispatched \in BOOLEAN
  BY DEF TypeOK, CallType
<1>2. x \in CallType /\ x.pc = "idle"
  BY <1>1 DEF CallType, Idle
<1>3. QED
  BY <1>2 DEF Answer

-----------------------------------------------------------------------------
(* The variables the frame lemmas leave to the single actions.                                *)
RestType ==
  /\ target \in Files
  /\ intent \in [Ops -> Intents \cup {NoIntent, Unreadable}]
  /\ torn \in SUBSET Ops /\ journal_torn \in BOOLEAN
  /\ run_open \in BOOLEAN
  /\ lock \in Callers \cup {"none"}
  /\ edits \in 0 .. MaxEdits /\ faults \in 0 .. MaxFaults

LEMMA Assemble ==
  ASSUME RestType', call' \in [Callers -> CallType], record' \in [Ops -> RecordType],
         scratch' \in [Ops -> Scratches], renames' \in [Ops -> Nat],
         LockHeld', EvidenceOrdered', CallKnows'
  PROVE  PatchInv'
BY DEF PatchInv, TypeOK, RestType, Scratches

LEMMA InvInit == Init => PatchInv
<1>1. SUFFICES ASSUME Init PROVE PatchInv
  OBVIOUS
<1>2. TypeOK
  <2>1. target \in Files
    BY <1>1, FilePatchAssumption DEF Init, Files, Inodes
  <2>2. NoRecord \in RecordType /\ Idle \in CallType
    BY DEF RecordType, NoRecord, CallType, Idle, Answers
  <2>3. record \in [Ops -> RecordType] /\ call \in [Callers -> CallType]
    BY <1>1, <2>2 DEF Init
  <2>4. intent \in [Ops -> Intents \cup {NoIntent, Unreadable}]
    BY <1>1 DEF Init
  <2>5. edits \in 0 .. MaxEdits /\ faults \in 0 .. MaxFaults
    BY <1>1, FilePatchAssumption DEF Init
  <2>6. QED
    BY <1>1, <2>1, <2>3, <2>4, <2>5 DEF Init, TypeOK
<1>3. LockHeld /\ CallKnows
  BY <1>1 DEF Init, LockHeld, CallKnows, Idle
<1>4. EvidenceOrdered
  BY <1>1, FilePatchAssumption DEF Init, EvidenceOrdered, Ordered, NoRecord
<1>5. QED
  BY <1>2, <1>3, <1>4 DEF PatchInv

(* A call that answers and changes neither records nor files.                                  *)
LEMMA AnswerStep ==
  ASSUME PatchInv, NEW c \in Callers, call[c].pc # "idle",
         NEW a \in Answers, Answer(c, a),
         UNCHANGED <<target, scratch, renames, record>>,
         RestType'
  PROVE  PatchInv'
<1>1. PICK x \in CallType : x.pc = "idle" /\ call' = [call EXCEPT ![c] = x]
  BY AnswerCall DEF PatchInv
<1>2. call' \in [Callers -> CallType] /\ LockHeld' /\ EvidenceOrdered' /\ CallKnows'
  BY <1>1, QuietStep
<1>3. QED
  BY <1>2, Assemble DEF PatchInv, TypeOK, Scratches

(* A call that moves on and changes neither records nor files.                                  *)
LEMMA MoveStep ==
  ASSUME PatchInv, NEW c \in Callers, call[c].pc # "idle" \/ lock = "none",
         NEW x \in CallType, call' = [call EXCEPT ![c] = x],
         UNCHANGED <<target, scratch, renames, record>>,
         x.pc # "idle", x.req \in Requests, lock' = c,
         Knows(x, record[x.req.op], scratch[x.req.op], renames[x.req.op]),
         RestType'
  PROVE  PatchInv'
<1>1. call' \in [Callers -> CallType] /\ LockHeld' /\ EvidenceOrdered' /\ CallKnows'
  BY QuietStep
<1>2. QED
  BY <1>1, Assemble DEF PatchInv, TypeOK, Scratches

LEMMA ApplyStartStep ==
  ASSUME PatchInv, NEW c \in Callers, NEW q \in Requests, ApplyStart(c, q)
  PROVE  PatchInv'
<1>. DEFINE x == [Idle EXCEPT !.pc = "prepare", !.req = q]
<1>1. x \in CallType /\ x.pc = "prepare" /\ x.req = q
  BY DEF CallType, Idle, Answers
<1>2. Knows(x, record[x.req.op], scratch[x.req.op], renames[x.req.op])
  BY <1>1 DEF Knows
<1>3. RestType'
  BY DEF ApplyStart, fileVars, storeVars, PatchInv, TypeOK, RestType
<1>4. lock = "none" /\ lock' = c /\ call' = [call EXCEPT ![c] = x]
      /\ UNCHANGED <<target, scratch, renames, record>>
  BY DEF ApplyStart, LockFree, fileVars, storeVars
<1>5. QED
  BY <1>1, <1>2, <1>3, <1>4, MoveStep

LEMMA ReconcileStartStep ==
  ASSUME PatchInv, NEW c \in Callers, NEW q \in Requests, ReconcileStart(c, q)
  PROVE  PatchInv'
<1>. DEFINE x == [Idle EXCEPT !.pc = "decide", !.req = q]
<1>1. x \in CallType /\ x.pc = "decide" /\ x.req = q
  BY DEF CallType, Idle, Answers
<1>2. Knows(x, record[x.req.op], scratch[x.req.op], renames[x.req.op])
  BY <1>1 DEF Knows, ReconcileStart
<1>3. RestType'
  BY DEF ReconcileStart, fileVars, storeVars, PatchInv, TypeOK, RestType
<1>4. lock = "none" /\ lock' = c /\ call' = [call EXCEPT ![c] = x]
      /\ UNCHANGED <<target, scratch, renames, record>>
  BY DEF ReconcileStart, LockFree, fileVars, storeVars
<1>5. QED
  BY <1>1, <1>2, <1>3, <1>4, MoveStep

LEMMA PrepareStep ==
  ASSUME PatchInv, NEW c \in Callers, Prepare(c)
  PROVE  PatchInv'
<1>. DEFINE wanted == [base |-> call[c].req.base, new |-> call[c].req.new]
<1>1. call[c].pc = "prepare"
  BY DEF Prepare, At
<1>2. /\ call[c] \in CallType /\ call[c].req \in Requests /\ Op(c) \in Ops
      /\ wanted \in Intents /\ lock = c
  BY <1>1, Running DEF Intents
<1>3. UNCHANGED <<target, scratch, renames, record, torn, journal_torn, run_open, edits, faults>>
  BY DEF Prepare, fileVars
<1>4. intent' = intent \/ intent' = [intent EXCEPT ![Op(c)] = wanted]
  BY DEF Prepare
<1>5. lock' \in {c, "none"}
  BY <1>2 DEF Prepare, Answer
<1>6. RestType'
  BY <1>2, <1>3, <1>4, <1>5 DEF PatchInv, TypeOK, RestType
<1>7. CASE \E a \in Answers : Answer(c, a)
  BY <1>1, <1>3, <1>6, <1>7, AnswerStep
<1>8. CASE Goto(c, "inspect") /\ lock' = lock
  <2>. DEFINE x == [call[c] EXCEPT !.pc = "inspect"]
  <2>1. x \in CallType /\ x.pc = "inspect" /\ x.req = call[c].req
    BY <1>2 DEF CallType
  <2>2. Knows(x, record[x.req.op], scratch[x.req.op], renames[x.req.op])
    BY <2>1 DEF Knows
  <2>3. call' = [call EXCEPT ![c] = x]
    BY <1>8 DEF Goto
  <2>4. QED
    BY <1>1, <1>2, <1>3, <1>6, <1>8, <2>1, <2>2, <2>3, MoveStep
<1>9. QED
  BY <1>7, <1>8 DEF Prepare, Answers

LEMMA PrepareFailsStep ==
  ASSUME PatchInv, NEW c \in Callers, PrepareFails(c)
  PROVE  PatchInv'
<1>. DEFINE wanted == [base |-> call[c].req.base, new |-> call[c].req.new]
<1>1. call[c].pc = "prepare"
  BY DEF PrepareFails, At
<1>2. Op(c) \in Ops /\ wanted \in Intents
  BY <1>1, Running DEF Intents
<1>3. /\ UNCHANGED <<target, scratch, renames, record, torn, run_open, edits>>
      /\ Answer(c, "UNKNOWN") /\ faults < MaxFaults /\ faults' = faults + 1
  BY DEF PrepareFails, fileVars
<1>4. /\ intent' \in {intent, [intent EXCEPT ![Op(c)] = wanted],
                      [intent EXCEPT ![Op(c)] = Unreadable]}
      /\ journal_torn' \in {journal_torn, TRUE}
  BY DEF PrepareFails
<1>5. RestType'
  <2>1. intent' \in [Ops -> Intents \cup {NoIntent, Unreadable}] /\ journal_torn' \in BOOLEAN
    BY <1>2, <1>4 DEF PatchInv, TypeOK
  <2>2. faults' \in 0 .. MaxFaults
    BY <1>3, FilePatchAssumption DEF PatchInv, TypeOK
  <2>3. QED
    BY <1>3, <2>1, <2>2 DEF PatchInv, TypeOK, RestType, Answer
<1>6. QED
  BY <1>1, <1>3, <1>5, AnswerStep DEF Answers

LEMMA InspectStep ==
  ASSUME PatchInv, NEW c \in Callers, Inspect(c)
  PROVE  PatchInv'
<1>1. call[c].pc = "inspect"
  BY DEF Inspect, At
<1>2. /\ call[c] \in CallType /\ call[c].req \in Requests /\ Op(c) \in Ops /\ lock = c
      /\ record[Op(c)] \in RecordType
  BY <1>1, Running
<1>3. UNCHANGED <<target, scratch, renames, record, intent, torn, journal_torn, run_open, edits, faults>>
  BY DEF Inspect, fileVars, storeVars
<1>4. lock' \in {c, "none"}
  BY <1>2 DEF Inspect, Answer
<1>5. RestType'
  BY <1>3, <1>4 DEF PatchInv, TypeOK, RestType
<1>6. CASE \E a \in Answers : Answer(c, a)
  BY <1>1, <1>3, <1>5, <1>6, AnswerStep
<1>7. CASE /\ FreshId(Op(c)) /\ lock' = lock
           /\ call' = [call EXCEPT ![c].pc = "dispatch", ![c].original = target]
  <2>. DEFINE x == [call[c] EXCEPT !.pc = "dispatch", !.original = target]
  <2>1. x \in CallType /\ x.pc = "dispatch" /\ x.req = call[c].req
    BY <1>2 DEF CallType, PatchInv, TypeOK
  <2>2. Knows(x, record[x.req.op], scratch[x.req.op], renames[x.req.op])
    BY <1>7, <2>1 DEF Knows, FreshId, Op
  <2>3. call' = [call EXCEPT ![c] = x]
    BY <1>2, <1>7 DEF PatchInv, TypeOK, CallType
  <2>4. QED
    BY <1>1, <1>2, <1>3, <1>5, <1>7, <2>1, <2>2, <2>3, MoveStep
<1>8. /\ "UNKNOWN" \in Answers /\ "REFUSED" \in Answers
      /\ HistoricalAnswer(Op(c)) \in Answers
  BY <1>2 DEF RecordType, Answers, HistoricalAnswer
<1>9. QED
  BY <1>6, <1>7, <1>8 DEF Inspect

(* The frame of a step of a running call that writes records or files of its operation.         *)
LEMMA EffectStep ==
  ASSUME PatchInv, NEW c \in Callers, call[c].pc # "idle",
         NEW x \in CallType, NEW r \in RecordType, NEW s \in Scratches, NEW n \in Nat,
         call' = [call EXCEPT ![c] = x],
         record' = [record EXCEPT ![Op(c)] = r],
         scratch' = [scratch EXCEPT ![Op(c)] = s],
         renames' = [renames EXCEPT ![Op(c)] = n],
         x.pc # "idle" => x.req = call[c].req /\ Knows(x, r, s, n) /\ lock' = c,
         Ordered(r, s, n),
         \/ target'.ino = target.ino /\ n = renames[Op(c)]
         \/ target'.ino = Op(c) /\ n = 1,
         RestType'
  PROVE  PatchInv'
<1>1. /\ call \in [Callers -> CallType] /\ record \in [Ops -> RecordType]
      /\ scratch \in [Ops -> Scratches] /\ renames \in [Ops -> Nat]
      /\ LockHeld /\ EvidenceOrdered /\ CallKnows
  BY DEF PatchInv, TypeOK, Scratches
<1>2. Op(c) \in Ops /\ call[c].req \in Requests
  BY Running
<1>3. \A d \in Callers \ {c} : call[d].pc = "idle"
  BY <1>1, FilePatchAssumption DEF LockHeld
<1>4. /\ call'[c] = x /\ \A d \in Callers \ {c} : call'[d].pc = "idle"
      /\ record'[Op(c)] = r /\ scratch'[Op(c)] = s /\ renames'[Op(c)] = n
      /\ \A p \in Ops \ {Op(c)} : record'[p] = record[p] /\ scratch'[p] = scratch[p]
                                  /\ renames'[p] = renames[p]
  BY <1>1, <1>2, <1>3
<1>5. LockHeld'
  BY <1>4 DEF LockHeld
<1>6. EvidenceOrdered'
  BY <1>1, <1>2, <1>4 DEF EvidenceOrdered
<1>7. CallKnows'
  BY <1>2, <1>4 DEF CallKnows, Op
<1>8. /\ call' \in [Callers -> CallType] /\ record' \in [Ops -> RecordType]
      /\ scratch' \in [Ops -> Scratches] /\ renames' \in [Ops -> Nat]
  BY <1>1, <1>2
<1>9. QED
  BY <1>5, <1>6, <1>7, <1>8, Assemble

(* What stays as it is, in the form the frame asks for.                                          *)
LEMMA SameFiles ==
  ASSUME TypeOK, NEW o \in Ops
  PROVE  /\ record = [record EXCEPT ![o] = record[o]]
         /\ scratch = [scratch EXCEPT ![o] = scratch[o]]
         /\ renames = [renames EXCEPT ![o] = renames[o]]
BY DEF TypeOK

LEMMA AppendDispatchStep ==
  ASSUME PatchInv, NEW c \in Callers, AppendDispatch(c)
  PROVE  PatchInv'
<1>. DEFINE r == [NoRecord EXCEPT !.dispatch = TRUE, !.original = call[c].original]
            x == [call[c] EXCEPT !.pc = "stage", !.dispatched = TRUE]
<1>1. call[c].pc = "dispatch"
  BY DEF AppendDispatch, At
<1>2. /\ call[c] \in CallType /\ Op(c) \in Ops /\ lock = c
      /\ scratch[Op(c)] \in Scratches /\ renames[Op(c)] \in Nat
      /\ scratch[Op(c)] = "none" /\ renames[Op(c)] = 0
  BY <1>1, Running DEF Knows, Ordered
<1>3. r \in RecordType /\ r.dispatch /\ ~r.publication /\ r.result = "NONE"
  BY <1>2 DEF RecordType, NoRecord, CallType
<1>4. x \in CallType /\ x.pc = "stage" /\ x.req = call[c].req
  BY <1>2 DEF CallType
<1>5. /\ Ordered(r, scratch[Op(c)], renames[Op(c)])
      /\ Knows(x, r, scratch[Op(c)], renames[Op(c)])
  BY <1>2, <1>3, <1>4 DEF Ordered, Knows
<1>6. /\ record' = [record EXCEPT ![Op(c)] = r]
      /\ UNCHANGED <<target, scratch, renames, intent, torn, journal_torn, run_open, lock, edits, faults>>
  BY DEF AppendDispatch, fileVars
<1>7. call' = [call EXCEPT ![c] = x]
  BY <1>2 DEF AppendDispatch, PatchInv, TypeOK, CallType
<1>8. RestType'
  BY <1>6 DEF PatchInv, TypeOK, RestType
<1>9. /\ scratch' = [scratch EXCEPT ![Op(c)] = scratch[Op(c)]]
      /\ renames' = [renames EXCEPT ![Op(c)] = renames[Op(c)]]
  BY <1>2, <1>6, SameFiles DEF PatchInv
<1>10. QED
  <2>. HIDE DEF r, x
  <2>1. QED
    BY <1>1, <1>2, <1>3, <1>4, <1>5, <1>6, <1>7, <1>8, <1>9, EffectStep

(* A running call answers, whatever it did to the records and files of its operation.             *)
LEMMA AnswerEffect ==
  ASSUME PatchInv, NEW c \in Callers, call[c].pc # "idle",
         NEW x \in CallType, x.pc = "idle", call' = [call EXCEPT ![c] = x],
         NEW r \in RecordType, NEW n \in Nat, NEW s \in Scratches,
         record' = [record EXCEPT ![Op(c)] = r],
         scratch' = [scratch EXCEPT ![Op(c)] = s],
         renames' = [renames EXCEPT ![Op(c)] = n],
         Ordered(r, s, n),
         \/ target'.ino = target.ino /\ n = renames[Op(c)]
         \/ target'.ino = Op(c) /\ n = 1,
         RestType'
  PROVE  PatchInv'
BY EffectStep

LEMMA DispatchFailsStep ==
  ASSUME PatchInv, NEW c \in Callers, DispatchFails(c)
  PROVE  PatchInv'
<1>1. call[c].pc = "dispatch"
  BY DEF DispatchFails, At
<1>2. /\ call[c] \in CallType /\ Op(c) \in Ops /\ lock = c
      /\ record[Op(c)] \in RecordType
      /\ scratch[Op(c)] \in Scratches /\ renames[Op(c)] \in Nat
      /\ scratch[Op(c)] = "none" /\ renames[Op(c)] = 0
      /\ Ordered(record[Op(c)], scratch[Op(c)], renames[Op(c)])
  BY <1>1, Running DEF Knows, Ordered
<1>3. UNCHANGED <<target, scratch, renames, intent, journal_torn, run_open, edits>> /\ lock' = "none"
  BY DEF DispatchFails, fileVars, Answer
<1>4. CASE (\E a \in Answers : Answer(c, a)) /\ UNCHANGED <<record, torn, faults>>
  <2>1. RestType'
    BY <1>3, <1>4 DEF PatchInv, TypeOK, RestType
  <2>2. QED
    BY <1>1, <1>3, <1>4, <2>1, AnswerStep
<1>5. ASSUME NEW linked \in BOOLEAN, NEW left \in BOOLEAN, NEW a \in AnswersAfterError(linked, left),
             faults < MaxFaults, faults' = faults + 1,
             record' = IF linked
                       THEN [record EXCEPT ![Op(c)] = [NoRecord EXCEPT !.dispatch = TRUE,
                                                       !.original = call[c].original]]
                       ELSE record,
             torn' = IF left THEN torn \cup {Op(c)} ELSE torn,
             call' = [call EXCEPT ![c] = [Idle EXCEPT !.answer = a, !.dispatched = linked]]
      PROVE  PatchInv'
  <2>. DEFINE x == [Idle EXCEPT !.answer = a, !.dispatched = linked]
              r == IF linked THEN [NoRecord EXCEPT !.dispatch = TRUE, !.original = call[c].original]
                             ELSE record[Op(c)]
  <2>1. x \in CallType /\ x.pc = "idle"
    BY <1>5 DEF CallType, Idle, Answers, AnswersAfterError
  <2>2. r \in RecordType
    BY <1>2 DEF RecordType, NoRecord, CallType
  <2>3. Ordered(r, scratch[Op(c)], renames[Op(c)])
    BY <1>2 DEF Ordered, NoRecord
  <2>4. /\ record' = [record EXCEPT ![Op(c)] = r]
        /\ scratch' = [scratch EXCEPT ![Op(c)] = scratch[Op(c)]]
        /\ renames' = [renames EXCEPT ![Op(c)] = renames[Op(c)]]
    BY <1>2, <1>3, <1>5, SameFiles DEF PatchInv
  <2>5. torn' \in SUBSET Ops /\ faults' \in 0 .. MaxFaults
    BY <1>2, <1>5, FilePatchAssumption DEF PatchInv, TypeOK
  <2>6. RestType'
    BY <1>3, <2>5 DEF PatchInv, TypeOK, RestType
  <2>7. call' = [call EXCEPT ![c] = x]
    BY <1>5
  <2>. HIDE DEF r, x
  <2>8. QED
    BY <1>1, <1>2, <1>3, <2>1, <2>2, <2>3, <2>4, <2>6, <2>7, AnswerEffect
<1>6. (IF Unmoved(c) THEN "UNKNOWN" ELSE "REFUSED") \in Answers
  BY DEF Answers
<1>7. CASE ~(Unmoved(c) /\ Appendable /\ Acknowledged)
           /\ Answer(c, IF Unmoved(c) THEN "UNKNOWN" ELSE "REFUSED")
           /\ UNCHANGED <<record, torn, faults>>
  BY <1>4, <1>6, <1>7
<1>8. QED
  BY <1>5, <1>7 DEF DispatchFails

LEMMA StageStep ==
  ASSUME PatchInv, NEW c \in Callers, Stage(c) \/ StageFails(c)
  PROVE  PatchInv'
<1>1. call[c].pc = "stage"
  BY DEF Stage, StageFails, At
<1>2. /\ call[c] \in CallType /\ Op(c) \in Ops /\ lock = c
      /\ record[Op(c)] \in RecordType /\ renames[Op(c)] \in Nat
      /\ Ordered(record[Op(c)], scratch[Op(c)], renames[Op(c)])
      /\ Knows(call[c], record[Op(c)], scratch[Op(c)], renames[Op(c)])
  BY <1>1, Running
<1>3. /\ UNCHANGED <<target, renames, record, intent, torn, journal_torn, run_open, lock, edits>>
      /\ faults' \in {faults, faults + 1} /\ (faults' # faults => faults < MaxFaults)
  BY DEF Stage, StageFails, storeVars
<1>4. RestType'
  <2>1. faults' \in 0 .. MaxFaults
    BY <1>3, FilePatchAssumption DEF PatchInv, TypeOK
  <2>2. QED
    BY <1>3, <2>1 DEF PatchInv, TypeOK, RestType
<1>5. PICK pc \in {"publication", "cleanup"}, s \in Scratches :
        call' = [call EXCEPT ![c].pc = pc] /\ scratch' = [scratch EXCEPT ![Op(c)] = s]
  BY DEF Stage, StageFails, Goto, Scratches
<1>. DEFINE x == [call[c] EXCEPT !.pc = pc]
<1>6. x \in CallType /\ x.pc = pc /\ x.req = call[c].req /\ call' = [call EXCEPT ![c] = x]
  BY <1>2, <1>5 DEF CallType, PatchInv, TypeOK
<1>7. Ordered(record[Op(c)], s, renames[Op(c)]) /\ Knows(x, record[Op(c)], s, renames[Op(c)])
  BY <1>1, <1>2, <1>5, <1>6 DEF Ordered, Knows
<1>8. /\ record' = [record EXCEPT ![Op(c)] = record[Op(c)]]
      /\ renames' = [renames EXCEPT ![Op(c)] = renames[Op(c)]]
  BY <1>2, <1>3, SameFiles DEF PatchInv
<1>9. QED
  <2>. HIDE DEF x
  <2>1. QED
    BY <1>1, <1>2, <1>3, <1>4, <1>5, <1>6, <1>7, <1>8, EffectStep

LEMMA PublicationStep ==
  ASSUME PatchInv, NEW c \in Callers, AppendPublication(c) \/ PublicationFails(c)
  PROVE  PatchInv'
<1>1. call[c].pc = "publication"
  BY DEF AppendPublication, PublicationFails, At
<1>2. /\ call[c] \in CallType /\ Op(c) \in Ops /\ lock = c
      /\ record[Op(c)] \in RecordType /\ renames[Op(c)] \in Nat /\ scratch[Op(c)] \in Scratches
      /\ Ordered(record[Op(c)], scratch[Op(c)], renames[Op(c)])
      /\ Knows(call[c], record[Op(c)], scratch[Op(c)], renames[Op(c)])
  BY <1>1, Running
<1>3. /\ UNCHANGED <<target, scratch, renames, intent, journal_torn, run_open, lock, edits>>
      /\ faults' \in {faults, faults + 1} /\ (faults' # faults => faults < MaxFaults)
      /\ torn' \in {torn, torn \cup {Op(c)}}
  BY DEF AppendPublication, PublicationFails, fileVars
<1>4. RestType'
  <2>1. faults' \in 0 .. MaxFaults /\ torn' \in SUBSET Ops
    BY <1>2, <1>3, FilePatchAssumption DEF PatchInv, TypeOK
  <2>2. QED
    BY <1>3, <2>1 DEF PatchInv, TypeOK, RestType
<1>5. PICK pc \in {"recheck", "cleanup"}, linked \in BOOLEAN :
        /\ call' = [call EXCEPT ![c].pc = pc]
        /\ record' = [record EXCEPT ![Op(c)].publication = linked]
        /\ pc = "recheck" => linked
  <2>1. CASE AppendPublication(c)
    BY <2>1 DEF AppendPublication, Goto
  <2>2. CASE PublicationFails(c) /\ record' # record
    BY <2>2 DEF PublicationFails, Goto
  <2>3. CASE PublicationFails(c) /\ record' = record
    <3>1. record[Op(c)].publication = FALSE
      BY <1>1, <1>2 DEF Knows, RecordType
    <3>2. record = [record EXCEPT ![Op(c)].publication = FALSE]
      BY <1>2, <3>1 DEF PatchInv, TypeOK, RecordType
    <3>3. QED
      BY <2>3, <3>2 DEF PublicationFails, Goto
  <2>4. QED
    BY <2>1, <2>2, <2>3
<1>. DEFINE x == [call[c] EXCEPT !.pc = pc]
            r == [record[Op(c)] EXCEPT !.publication = linked]
<1>6. x \in CallType /\ x.pc = pc /\ x.req = call[c].req /\ call' = [call EXCEPT ![c] = x]
  BY <1>2, <1>5 DEF CallType, PatchInv, TypeOK
<1>7. /\ r \in RecordType /\ record' = [record EXCEPT ![Op(c)] = r]
      /\ r.dispatch = record[Op(c)].dispatch /\ r.publication = linked
      /\ r.result = record[Op(c)].result
  BY <1>2, <1>5 DEF RecordType, PatchInv, TypeOK
<1>8. Ordered(r, scratch[Op(c)], renames[Op(c)]) /\ Knows(x, r, scratch[Op(c)], renames[Op(c)])
  <2>. HIDE DEF r, x
  <2>1. QED
    BY <1>1, <1>2, <1>5, <1>6, <1>7 DEF Ordered, Knows
<1>9. /\ scratch' = [scratch EXCEPT ![Op(c)] = scratch[Op(c)]]
      /\ renames' = [renames EXCEPT ![Op(c)] = renames[Op(c)]]
  BY <1>2, <1>3, SameFiles DEF PatchInv
<1>10. QED
  <2>. HIDE DEF x, r
  <2>1. QED
    BY <1>1, <1>2, <1>3, <1>4, <1>6, <1>7, <1>8, <1>9, EffectStep

LEMMA RecheckStep ==
  ASSUME PatchInv, NEW c \in Callers, Recheck(c)
  PROVE  PatchInv'
<1>1. call[c].pc = "recheck"
  BY DEF Recheck, At
<1>2. /\ call[c] \in CallType /\ call[c].req \in Requests /\ lock = c
      /\ Knows(call[c], record[Op(c)], scratch[Op(c)], renames[Op(c)])
  BY <1>1, Running
<1>3. UNCHANGED <<target, scratch, renames, record, intent, torn, journal_torn, run_open, edits, faults>>
  BY DEF Recheck, fileVars, storeVars
<1>4. RestType'
  BY <1>2, <1>3 DEF PatchInv, TypeOK, RestType, Recheck, Answer
<1>5. CASE Answer(c, "UNKNOWN")
  BY <1>1, <1>3, <1>4, <1>5, AnswerStep DEF Answers
<1>6. CASE Goto(c, "replace") /\ lock' = lock
  <2>. DEFINE x == [call[c] EXCEPT !.pc = "replace"]
  <2>1. x \in CallType /\ x.pc = "replace" /\ x.req = call[c].req
    BY <1>2 DEF CallType
  <2>2. Knows(x, record[x.req.op], scratch[x.req.op], renames[x.req.op])
    BY <1>1, <1>2, <2>1 DEF Knows, Op
  <2>3. call' = [call EXCEPT ![c] = x]
    BY <1>6 DEF Goto
  <2>4. QED
    BY <1>1, <1>2, <1>3, <1>4, <1>6, <2>1, <2>2, <2>3, MoveStep
<1>7. QED
  BY <1>5, <1>6 DEF Recheck

(* The rename itself: the scratch file becomes the target.                                         *)
LEMMA RenameTypes ==
  ASSUME PatchInv, NEW c \in Callers, call[c].pc = "replace", scratch[Op(c)] = "full", Rename(c)
  PROVE  /\ target' \in Files /\ target'.ino = Op(c)
         /\ scratch' = [scratch EXCEPT ![Op(c)] = "none"]
         /\ renames' = [renames EXCEPT ![Op(c)] = 1]
         /\ Ordered(record[Op(c)], "none", 1)
<1>1. /\ Op(c) \in Ops /\ call[c].req.new \in Data /\ renames[Op(c)] = 0
      /\ Ordered(record[Op(c)], scratch[Op(c)], renames[Op(c)])
      /\ Knows(call[c], record[Op(c)], scratch[Op(c)], renames[Op(c)])
  BY Running DEF Knows
<1>2. target' \in Files /\ target'.ino = Op(c)
  BY <1>1, FilePatchAssumption DEF Rename, Files, Inodes, PatchInv, TypeOK
<1>3. renames' = [renames EXCEPT ![Op(c)] = 1]
  BY <1>1 DEF Rename
<1>4. Ordered(record[Op(c)], "none", 1)
  BY <1>1 DEF Ordered, Knows
<1>5. QED
  BY <1>2, <1>3, <1>4 DEF Rename

LEMMA ReplaceStep ==
  ASSUME PatchInv, NEW c \in Callers, Replace(c)
  PROVE  PatchInv'
<1>. DEFINE x == [call[c] EXCEPT !.pc = "readback"]
<1>1. call[c].pc = "replace" /\ scratch[Op(c)] = "full" /\ Rename(c)
  BY DEF Replace, At
<1>2. /\ call[c] \in CallType /\ Op(c) \in Ops /\ lock = c
      /\ record[Op(c)] \in RecordType
      /\ Knows(call[c], record[Op(c)], scratch[Op(c)], renames[Op(c)])
  BY <1>1, Running
<1>3. UNCHANGED <<record, intent, torn, journal_torn, run_open, lock, edits, faults>>
  BY DEF Replace, storeVars
<1>4. /\ target' \in Files /\ target'.ino = Op(c)
      /\ scratch' = [scratch EXCEPT ![Op(c)] = "none"]
      /\ renames' = [renames EXCEPT ![Op(c)] = 1]
      /\ Ordered(record[Op(c)], "none", 1)
  BY <1>1, RenameTypes
<1>5. RestType'
  BY <1>3, <1>4 DEF PatchInv, TypeOK, RestType
<1>6. x \in CallType /\ x.pc = "readback" /\ x.req = call[c].req /\ call' = [call EXCEPT ![c] = x]
  BY <1>2 DEF CallType, Replace, Goto
<1>7. Knows(x, record[Op(c)], "none", 1)
  BY <1>1, <1>2, <1>6 DEF Knows
<1>8. record' = [record EXCEPT ![Op(c)] = record[Op(c)]] /\ "none" \in Scratches /\ 1 \in Nat
  BY <1>2, <1>3, SameFiles DEF PatchInv, Scratches
<1>9. QED
  <2>. HIDE DEF x
  <2>1. QED
    BY <1>1, <1>2, <1>3, <1>4, <1>5, <1>6, <1>7, <1>8, EffectStep

LEMMA ReplaceFailsStep ==
  ASSUME PatchInv, NEW c \in Callers, ReplaceFails(c)
  PROVE  PatchInv'
<1>1. call[c].pc = "replace" /\ Answer(c, "UNKNOWN")
  BY DEF ReplaceFails, At
<1>2. /\ Op(c) \in Ops /\ lock' = "none" /\ record[Op(c)] \in RecordType
  BY <1>1, Running DEF Answer
<1>3. /\ UNCHANGED <<record, intent, torn, journal_torn, run_open, edits>>
      /\ faults' \in {faults, faults + 1} /\ (faults' # faults => faults < MaxFaults)
  BY DEF ReplaceFails, storeVars
<1>4. faults' \in 0 .. MaxFaults
  BY <1>3, FilePatchAssumption DEF PatchInv, TypeOK
<1>5. CASE UNCHANGED fileVars
  <2>1. RestType'
    BY <1>2, <1>3, <1>4, <1>5 DEF PatchInv, TypeOK, RestType, fileVars
  <2>2. QED
    BY <1>1, <1>3, <1>5, <2>1, AnswerStep DEF Answers, fileVars
<1>6. CASE scratch[Op(c)] = "full" /\ Rename(c)
  <2>1. /\ target' \in Files /\ target'.ino = Op(c)
        /\ scratch' = [scratch EXCEPT ![Op(c)] = "none"]
        /\ renames' = [renames EXCEPT ![Op(c)] = 1]
        /\ Ordered(record[Op(c)], "none", 1)
    BY <1>1, <1>6, RenameTypes
  <2>2. RestType'
    BY <1>2, <1>3, <1>4, <2>1 DEF PatchInv, TypeOK, RestType
  <2>3. PICK x \in CallType : x.pc = "idle" /\ call' = [call EXCEPT ![c] = x]
    BY <1>1, AnswerCall DEF PatchInv, Answers
  <2>4. record' = [record EXCEPT ![Op(c)] = record[Op(c)]] /\ "none" \in Scratches /\ 1 \in Nat
    BY <1>2, <1>3, SameFiles DEF PatchInv, Scratches
  <2>5. QED
    BY <1>1, <1>2, <2>1, <2>2, <2>3, <2>4, AnswerEffect
<1>7. QED
  BY <1>5, <1>6 DEF ReplaceFails, fileVars

LEMMA ReadbackStep ==
  ASSUME PatchInv, NEW c \in Callers, Readback(c)
  PROVE  PatchInv'
<1>1. call[c].pc = "readback"
  BY DEF Readback, At
<1>2. /\ call[c] \in CallType /\ call[c].req \in Requests /\ lock = c
      /\ Ordered(record[Op(c)], scratch[Op(c)], renames[Op(c)])
      /\ Knows(call[c], record[Op(c)], scratch[Op(c)], renames[Op(c)])
  BY <1>1, Running
<1>3. UNCHANGED <<target, scratch, renames, record, intent, torn, journal_torn, run_open, edits, faults>>
  BY DEF Readback, fileVars, storeVars
<1>4. RestType'
  BY <1>2, <1>3 DEF PatchInv, TypeOK, RestType, Readback, Answer
<1>5. CASE Answer(c, "UNKNOWN")
  BY <1>1, <1>3, <1>4, <1>5, AnswerStep DEF Answers
<1>6. CASE /\ call' = [call EXCEPT ![c].pc = "result", ![c].disposition = "APPLIED"]
           /\ lock' = lock
  <2>. DEFINE x == [call[c] EXCEPT !.pc = "result", !.disposition = "APPLIED"]
  <2>1. x \in CallType /\ x.pc = "result" /\ x.req = call[c].req /\ x.disposition = "APPLIED"
    BY <1>2 DEF CallType, Dispositions
  <2>2. Knows(x, record[x.req.op], scratch[x.req.op], renames[x.req.op])
    BY <1>1, <1>2, <2>1 DEF Knows, Ordered, Op, Dispositions
  <2>3. call' = [call EXCEPT ![c] = x]
    BY <1>2, <1>6 DEF PatchInv, TypeOK, CallType
  <2>4. QED
    BY <1>1, <1>2, <1>3, <1>4, <1>6, <2>1, <2>2, <2>3, MoveStep
<1>7. QED
  BY <1>5, <1>6 DEF Readback

LEMMA CleanupStep ==
  ASSUME PatchInv, NEW c \in Callers, Cleanup(c)
  PROVE  PatchInv'
<1>1. call[c].pc = "cleanup"
  BY DEF Cleanup, At
<1>2. /\ call[c] \in CallType /\ Op(c) \in Ops /\ lock = c
      /\ record[Op(c)] \in RecordType /\ renames[Op(c)] \in Nat
      /\ Ordered(record[Op(c)], scratch[Op(c)], renames[Op(c)])
      /\ Knows(call[c], record[Op(c)], scratch[Op(c)], renames[Op(c)])
  BY <1>1, Running
<1>3. UNCHANGED <<target, renames, record, intent, torn, journal_torn, run_open, edits, faults>>
  BY DEF Cleanup, storeVars
<1>4. RestType'
  BY <1>2, <1>3 DEF PatchInv, TypeOK, RestType, Cleanup, Answer
<1>5. CASE Answer(c, "UNKNOWN") /\ scratch' = scratch
  BY <1>1, <1>3, <1>4, <1>5, AnswerStep DEF Answers
<1>6. CASE /\ scratch' = [scratch EXCEPT ![Op(c)] = "none"]
           /\ call' = [call EXCEPT ![c].pc = "result", ![c].disposition = "NOT_APPLIED"]
           /\ lock' = lock
  <2>. DEFINE x == [call[c] EXCEPT !.pc = "result", !.disposition = "NOT_APPLIED"]
  <2>1. x \in CallType /\ x.pc = "result" /\ x.req = call[c].req /\ x.disposition = "NOT_APPLIED"
    BY <1>2 DEF CallType, Dispositions
  <2>2. Ordered(record[Op(c)], "none", renames[Op(c)]) /\ Knows(x, record[Op(c)], "none", renames[Op(c)])
    BY <1>1, <1>2, <2>1 DEF Knows, Ordered, Dispositions
  <2>3. call' = [call EXCEPT ![c] = x]
    BY <1>2, <1>6 DEF PatchInv, TypeOK, CallType
  <2>4. /\ record' = [record EXCEPT ![Op(c)] = record[Op(c)]] /\ "none" \in Scratches
        /\ renames' = [renames EXCEPT ![Op(c)] = renames[Op(c)]]
    BY <1>2, <1>3, SameFiles DEF PatchInv, Scratches
  <2>5. scratch' = [scratch EXCEPT ![Op(c)] = "none"] /\ lock' = c /\ target'.ino = target.ino
    BY <1>2, <1>3, <1>6
  <2>. HIDE DEF x
  <2>6. QED
    BY <1>1, <1>2, <1>4, <2>1, <2>2, <2>3, <2>4, <2>5, EffectStep
<1>7. QED
  BY <1>5, <1>6 DEF Cleanup

(* Appending the result is where the evidence becomes final: the call knows what it says is so.      *)
LEMMA ResultStep ==
  ASSUME PatchInv, NEW c \in Callers, AppendResult(c) \/ ResultFails(c)
  PROVE  PatchInv'
<1>1. call[c].pc = "result"
  BY DEF AppendResult, ResultFails, At
<1>2. /\ call[c] \in CallType /\ Op(c) \in Ops /\ lock = c
      /\ record[Op(c)] \in RecordType /\ renames[Op(c)] \in Nat /\ scratch[Op(c)] \in Scratches
      /\ Ordered(record[Op(c)], scratch[Op(c)], renames[Op(c)])
      /\ Knows(call[c], record[Op(c)], scratch[Op(c)], renames[Op(c)])
      /\ call[c].disposition \in Dispositions
  BY <1>1, Running DEF Knows
<1>3. /\ UNCHANGED <<target, scratch, renames, intent, journal_torn, run_open, edits>>
      /\ faults' \in {faults, faults + 1} /\ (faults' # faults => faults < MaxFaults)
      /\ torn' \in {torn, torn \cup {Op(c)}} /\ lock' = "none"
  BY DEF AppendResult, ResultFails, fileVars, Answer
<1>4. RestType'
  <2>1. faults' \in 0 .. MaxFaults /\ torn' \in SUBSET Ops
    BY <1>2, <1>3, FilePatchAssumption DEF PatchInv, TypeOK
  <2>2. QED
    BY <1>3, <2>1 DEF PatchInv, TypeOK, RestType
<1>5. PICK x \in CallType : x.pc = "idle" /\ call' = [call EXCEPT ![c] = x]
  <2>1. call[c].disposition \in Answers /\ "UNKNOWN" \in Answers
    BY <1>2 DEF Answers
  <2>2. QED
    BY <2>1, AnswerCall DEF AppendResult, ResultFails, PatchInv
<1>6. CASE record' = record
  <2>1. QED
    <3>1. \E a \in Answers : Answer(c, a)
      BY <1>2 DEF AppendResult, ResultFails, Answers
    <3>2. QED
      BY <1>1, <1>3, <1>4, <1>6, <3>1, AnswerStep
<1>7. CASE record' = [record EXCEPT ![Op(c)].result = call[c].disposition]
  <2>. DEFINE r == [record[Op(c)] EXCEPT !.result = call[c].disposition]
  <2>1. /\ r \in RecordType /\ record' = [record EXCEPT ![Op(c)] = r]
        /\ r.dispatch = record[Op(c)].dispatch /\ r.publication = record[Op(c)].publication
        /\ r.result = call[c].disposition
    BY <1>2, <1>7 DEF RecordType, PatchInv, TypeOK
  <2>2. Ordered(r, scratch[Op(c)], renames[Op(c)])
    <3>. HIDE DEF r
    <3>1. QED
      BY <1>1, <1>2, <2>1 DEF Ordered, Knows, Dispositions
  <2>3. /\ scratch' = [scratch EXCEPT ![Op(c)] = scratch[Op(c)]]
        /\ renames' = [renames EXCEPT ![Op(c)] = renames[Op(c)]]
    BY <1>2, <1>3, SameFiles DEF PatchInv
  <2>. HIDE DEF r
  <2>4. QED
    BY <1>1, <1>2, <1>3, <1>4, <1>5, <2>1, <2>2, <2>3, AnswerEffect
<1>8. record' = record \/ record' = [record EXCEPT ![Op(c)].result = call[c].disposition]
  <2>1. record = [record EXCEPT ![Op(c)].result = record[Op(c)].result]
    BY <1>2 DEF PatchInv, TypeOK, RecordType
  <2>2. QED
    BY <2>1 DEF AppendResult, ResultFails
<1>9. QED
  BY <1>6, <1>7, <1>8

LEMMA DecideStep ==
  ASSUME PatchInv, NEW c \in Callers, Decide(c)
  PROVE  PatchInv'
<1>1. call[c].pc = "decide"
  BY DEF Decide, At
<1>2. /\ call[c] \in CallType /\ Op(c) \in Ops /\ lock = c
      /\ record[Op(c)] \in RecordType /\ renames[Op(c)] \in Nat /\ scratch[Op(c)] \in Scratches
      /\ Ordered(record[Op(c)], scratch[Op(c)], renames[Op(c)])
      /\ Knows(call[c], record[Op(c)], scratch[Op(c)], renames[Op(c)])
  BY <1>1, Running
<1>3. UNCHANGED <<target, renames, record, intent, torn, journal_torn, run_open, edits, faults>>
  BY DEF Decide, storeVars
<1>4. RestType'
  BY <1>2, <1>3 DEF PatchInv, TypeOK, RestType, Decide, Answer
<1>5. /\ record' = [record EXCEPT ![Op(c)] = record[Op(c)]]
      /\ renames' = [renames EXCEPT ![Op(c)] = renames[Op(c)]]
      /\ scratch = [scratch EXCEPT ![Op(c)] = scratch[Op(c)]]
  BY <1>2, <1>3, SameFiles DEF PatchInv
<1>6. CASE (\E a \in Answers : Answer(c, a)) /\ scratch' = scratch
  BY <1>1, <1>3, <1>4, <1>6, AnswerStep
<1>7. ASSUME NEW d \in Dispositions, record[Op(c)].result = "NONE",
             renames[Op(c)] = IF d = "APPLIED" THEN 1 ELSE 0,
             scratch' = [scratch EXCEPT ![Op(c)] = "none"],
             call' = [call EXCEPT ![c].pc = "result", ![c].disposition = d, ![c].original = target],
             lock' = lock
      PROVE  PatchInv'
  <2>. DEFINE x == [call[c] EXCEPT !.pc = "result", !.disposition = d, !.original = target]
  <2>1. x \in CallType /\ x.pc = "result" /\ x.req = call[c].req /\ x.disposition = d
    BY <1>2 DEF CallType, PatchInv, TypeOK
  <2>2. Ordered(record[Op(c)], "none", renames[Op(c)]) /\ Knows(x, record[Op(c)], "none", renames[Op(c)])
    <3>. HIDE DEF x
    <3>1. QED
      BY <1>1, <1>2, <1>7, <2>1 DEF Knows, Ordered, Dispositions
  <2>3. call' = [call EXCEPT ![c] = x]
    BY <1>2, <1>7 DEF PatchInv, TypeOK, CallType
  <2>4. /\ scratch' = [scratch EXCEPT ![Op(c)] = "none"] /\ lock' = c
        /\ target'.ino = target.ino /\ "none" \in Scratches
    BY <1>2, <1>3, <1>7 DEF Scratches
  <2>. HIDE DEF x
  <2>5. QED
    BY <1>1, <1>2, <1>4, <1>5, <2>1, <2>2, <2>3, <2>4, EffectStep
<1>8. CASE /\ record[Op(c)].result = "NONE" /\ SeemsApplied(c)
           /\ call' = [call EXCEPT ![c].pc = "result", ![c].disposition = "APPLIED",
                                   ![c].original = target]
           /\ UNCHANGED <<scratch, lock>>
  <2>1. renames[Op(c)] = 1 /\ scratch[Op(c)] = "none"
    BY <1>2, <1>8 DEF SeemsApplied, StableMatch, PatchInv, EvidenceOrdered
  <2>2. scratch' = [scratch EXCEPT ![Op(c)] = "none"] /\ lock' = lock
    BY <1>5, <1>8, <2>1
  <2>3. "APPLIED" \in Dispositions
    BY DEF Dispositions
  <2>4. QED
    BY <1>7, <1>8, <2>1, <2>2, <2>3
<1>9. CASE /\ record[Op(c)].result = "NONE" /\ SeemsUntouched(c)
           /\ scratch' = [scratch EXCEPT ![Op(c)] = IF record[Op(c)].publication THEN "none" ELSE @]
           /\ call' = [call EXCEPT ![c].pc = "result", ![c].disposition = "NOT_APPLIED",
                                   ![c].original = target]
           /\ UNCHANGED lock
  <2>1. renames[Op(c)] = 0 /\ (~record[Op(c)].publication => scratch[Op(c)] = "none")
    BY <1>2, <1>9 DEF SeemsUntouched, Ordered
  <2>2. scratch' = [scratch EXCEPT ![Op(c)] = "none"]
    BY <1>5, <1>9, <2>1
  <2>3. "NOT_APPLIED" \in Dispositions
    BY DEF Dispositions
  <2>4. QED
    BY <1>7, <1>9, <2>1, <2>2, <2>3
<1>10. HistoricalAnswer(Op(c)) \in Answers
  BY <1>2 DEF RecordType, Answers, HistoricalAnswer
<1>11. "UNKNOWN" \in Answers
  BY DEF Answers
<1>12. QED
  BY <1>6, <1>8, <1>9, <1>10, <1>11 DEF Decide

LEMMA CrashStep ==
  ASSUME PatchInv, NEW c \in Callers, Crash(c)
  PROVE  PatchInv'
<1>1. call[c].pc # "idle"
  BY DEF Crash, At
<1>2. /\ UNCHANGED <<target, scratch, renames, record, intent, torn, journal_torn, run_open, edits>>
      /\ lock' = "none" /\ faults < MaxFaults /\ faults' = faults + 1
      /\ call' = [call EXCEPT ![c] = Idle]
  BY DEF Crash, fileVars, storeVars
<1>3. faults' \in 0 .. MaxFaults
  BY <1>2, FilePatchAssumption DEF PatchInv, TypeOK
<1>4. RestType'
  BY <1>2, <1>3 DEF PatchInv, TypeOK, RestType
<1>5. Idle \in CallType /\ Idle.pc = "idle"
  BY DEF CallType, Idle, Answers
<1>6. call' \in [Callers -> CallType] /\ LockHeld' /\ EvidenceOrdered' /\ CallKnows'
  BY <1>1, <1>2, <1>5, QuietStep
<1>7. QED
  BY <1>2, <1>4, <1>6, Assemble DEF PatchInv, TypeOK, Scratches

LEMMA CloseStep ==
  ASSUME PatchInv, Close
  PROVE  PatchInv'
<1>1. UNCHANGED <<target, scratch, renames, intent, record, torn, journal_torn, lock, call, edits, faults>>
      /\ run_open' = FALSE
  BY DEF Close, fileVars, storeVars
<1>2. TypeOK'
  BY <1>1 DEF PatchInv, TypeOK
<1>3. LockHeld' /\ EvidenceOrdered' /\ CallKnows'
  BY <1>1 DEF PatchInv, LockHeld, EvidenceOrdered, CallKnows, Op
<1>4. QED
  BY <1>2, <1>3 DEF PatchInv

(* Other programs can edit the file or take scratch away, not make up an operation's inode.            *)
LEMMA OutsideStep ==
  ASSUME PatchInv, Outside
  PROVE  PatchInv'
<1>1. /\ UNCHANGED <<renames, intent, record, torn, journal_torn, run_open, lock, call, faults>>
      /\ edits < MaxEdits /\ edits' = edits + 1
  BY DEF Outside, storeVars
<1>2. target' \in Files /\ (target'.ino = target.ino \/ target'.ino = "foreign")
  BY DEF Outside, PatchInv, TypeOK, Files, Inodes
<1>3. /\ scratch' \in [Ops -> Scratches]
      /\ \A o \in Ops : scratch'[o] = scratch[o] \/ scratch'[o] = "none"
  BY DEF Outside, PatchInv, TypeOK, Scratches
<1>4. edits' \in 0 .. MaxEdits
  BY <1>1, FilePatchAssumption DEF PatchInv, TypeOK
<1>5. TypeOK'
  BY <1>1, <1>2, <1>3, <1>4 DEF PatchInv, TypeOK, Scratches
<1>6. ASSUME NEW o \in Ops PROVE Ordered(record[o], scratch'[o], renames[o])
  <2>1. Ordered(record[o], scratch[o], renames[o])
    BY DEF PatchInv, EvidenceOrdered
  <2>2. QED
    BY <1>3, <2>1 DEF Ordered
<1>7. EvidenceOrdered'
  BY <1>1, <1>2, <1>6, FilePatchAssumption DEF PatchInv, EvidenceOrdered
<1>8. ASSUME NEW c \in Callers, call[c].pc # "idle"
      PROVE  Knows(call[c], record[Op(c)], scratch'[Op(c)], renames[Op(c)])
  BY <1>3, <1>8, Running DEF Knows
<1>9. LockHeld' /\ CallKnows'
  BY <1>1, <1>8 DEF PatchInv, LockHeld, CallKnows, Op
<1>10. QED
  BY <1>5, <1>7, <1>9 DEF PatchInv

-----------------------------------------------------------------------------
LEMMA InvNext == PatchInv /\ [Next]_vars => PatchInv'
<1>1. SUFFICES ASSUME PatchInv, [Next]_vars PROVE PatchInv'
  OBVIOUS
<1>2. ASSUME NEW c \in Callers, NEW q \in Requests, ApplyStart(c, q) \/ ReconcileStart(c, q)
      PROVE  PatchInv'
  BY <1>1, <1>2, ApplyStartStep, ReconcileStartStep
<1>3. ASSUME NEW c \in Callers, Work(c) PROVE PatchInv'
  BY <1>1, <1>3, PrepareStep, InspectStep, AppendDispatchStep, StageStep, PublicationStep,
     RecheckStep, ReplaceStep, ReadbackStep, CleanupStep, ResultStep, DecideStep DEF Work
<1>4. ASSUME NEW c \in Callers, Fail(c) PROVE PatchInv'
  BY <1>1, <1>4, PrepareFailsStep, DispatchFailsStep, StageStep, PublicationStep,
     ReplaceFailsStep, ResultStep DEF Fail
<1>5. ASSUME NEW c \in Callers, Crash(c) PROVE PatchInv'
  BY <1>1, <1>5, CrashStep
<1>6. CASE Close
  BY <1>1, <1>6, CloseStep
<1>7. CASE Outside
  BY <1>1, <1>7, OutsideStep
<1>8. CASE UNCHANGED vars
  <2>1. TypeOK'
    BY <1>1, <1>8 DEF vars, PatchInv, TypeOK
  <2>2. LockHeld' /\ EvidenceOrdered' /\ CallKnows'
    BY <1>1, <1>8 DEF vars, PatchInv, LockHeld, EvidenceOrdered, CallKnows, Op
  <2>3. QED
    BY <2>1, <2>2 DEF PatchInv
<1>9. QED
  BY <1>1, <1>2, <1>3, <1>4, <1>5, <1>6, <1>7, <1>8 DEF Next

LEMMA PatchInvHolds == Spec => []PatchInv
BY InvInit, InvNext, PTL DEF Spec

(* Every variable of the patch protocol stays in its type, whatever requests, edits and faults.         *)
THEOREM FilePatchTypeCorrect == Spec => []TypeOK
<1>1. PatchInv => TypeOK
  BY DEF PatchInv
<1>2. QED
  BY PatchInvHolds, <1>1, PTL

(* One rename per operation id, for any number of ids, callers, retries, crashes and foreign edits.      *)
THEOREM AppliedAtMostOnceHolds == Spec => []AppliedAtMostOnce
<1>1. PatchInv => AppliedAtMostOnce
  BY DEF PatchInv, EvidenceOrdered, Ordered, AppliedAtMostOnce
<1>2. QED
  BY PatchInvHolds, <1>1, PTL

(* A result record is true: APPLIED exactly when the rename took place, and no scratch file is left.      *)
THEOREM ReceiptsTruthfulHolds == Spec => []ReceiptsTruthful
<1>1. ASSUME PatchInv, NEW o \in Ops, record[o].result # "NONE"
      PROVE  /\ renames[o] = IF record[o].result = "APPLIED" THEN 1 ELSE 0
             /\ scratch[o] = "none"
  <2>1. Ordered(record[o], scratch[o], renames[o]) /\ record[o] \in RecordType
    BY <1>1 DEF PatchInv, EvidenceOrdered, TypeOK
  <2>2. record[o].result \in Dispositions
    BY <1>1, <2>1 DEF RecordType
  <2>3. QED
    BY <2>1, <2>2 DEF Ordered, Dispositions
<1>2. PatchInv => ReceiptsTruthful
  BY <1>1 DEF ReceiptsTruthful
<1>3. QED
  BY PatchInvHolds, <1>2, PTL

-----------------------------------------------------------------------------
(* Once the run is closed nobody is inside apply or reconcile, and no scratch file is left.               *)
ClosedQuiet ==
  ~run_open => /\ \A c \in Callers : call[c].pc = "idle"
               /\ \A o \in Ops : scratch[o] = "none"

(* A closed run stays closed, and the only steps it sees are those of other programs.                     *)
LEMMA ClosedSteps ==
  ASSUME PatchInv, ClosedQuiet, ~run_open, [Next]_vars
  PROVE  Outside \/ UNCHANGED vars
<1>1. \A c \in Callers : call[c].pc = "idle"
  BY DEF ClosedQuiet
<1>2. ASSUME NEW c \in Callers PROVE ~Work(c) /\ ~Fail(c) /\ ~Crash(c)
  BY <1>1 DEF Work, Fail, Crash, At, Prepare, Inspect, AppendDispatch, Stage, AppendPublication,
     Recheck, Replace, Readback, Cleanup, AppendResult, Decide, PrepareFails, DispatchFails,
     StageFails, PublicationFails, ReplaceFails, ResultFails
<1>3. ~Close /\ \A c \in Callers, q \in Requests : ~ApplyStart(c, q) /\ ~ReconcileStart(c, q)
  BY DEF Close, ApplyStart, ReconcileStart
<1>4. QED
  BY <1>2, <1>3 DEF Next

LEMMA ClosedQuietNext == PatchInv /\ ClosedQuiet /\ [Next]_vars => ClosedQuiet'
<1>1. SUFFICES ASSUME PatchInv, ClosedQuiet, [Next]_vars PROVE ClosedQuiet'
  OBVIOUS
<1>2. CASE ~run_open
  <2>1. CASE Outside
    BY <1>1, <1>2, <2>1 DEF ClosedQuiet, Outside, PatchInv, TypeOK
  <2>2. CASE UNCHANGED vars
    BY <1>1, <2>2 DEF ClosedQuiet, vars
  <2>3. QED
    BY <1>1, <1>2, <2>1, <2>2, ClosedSteps
<1>3. CASE run_open /\ Close
  <2>1. UNCHANGED <<call, scratch>> /\ lock = "none" /\ Resolved
    BY <1>3 DEF Close, fileVars, LockFree
  <2>2. \A c \in Callers : call[c].pc = "idle"
    BY <1>1, <2>1, FilePatchAssumption DEF PatchInv, LockHeld
  <2>3. ASSUME NEW o \in Ops PROVE scratch[o] = "none"
    <3>1. Ordered(record[o], scratch[o], renames[o]) /\ record[o] \in RecordType
      BY <1>1 DEF PatchInv, EvidenceOrdered, TypeOK
    <3>2. CASE ~record[o].dispatch
      BY <3>1, <3>2 DEF Ordered
    <3>3. CASE record[o].dispatch
      <4>1. record[o].result \in Dispositions
        BY <2>1, <3>1, <3>3 DEF Resolved, RecordType
      <4>2. QED
        BY <3>1, <4>1 DEF Ordered, Dispositions
    <3>4. QED
      BY <3>2, <3>3
  <2>4. QED
    BY <2>1, <2>2, <2>3 DEF ClosedQuiet
<1>4. CASE run_open /\ ~Close
  <2>1. run_open' = run_open
    BY ZenonT(40), <1>1, <1>4 DEF Next, vars, Work, Fail, Crash, ApplyStart, ReconcileStart, Outside,
       Prepare, Inspect, AppendDispatch, Stage, AppendPublication,
       Recheck, Replace, Readback, Cleanup, AppendResult, Decide, PrepareFails, DispatchFails,
       StageFails, PublicationFails, ReplaceFails, ResultFails
  <2>2. QED
    BY <1>4, <2>1 DEF ClosedQuiet
<1>5. QED
  BY <1>2, <1>3, <1>4

(* After submit, quiesce or abort has closed the run, no patch of it renames or leaves scratch.            *)
THEOREM ClosedRunUntouchedHolds == Spec => ClosedRunUntouched
<1>1. Init => ClosedQuiet
  BY DEF Init, ClosedQuiet
<1>2. ASSUME PatchInv, ClosedQuiet, ClosedQuiet', [Next]_vars, ~run_open
      PROVE  renames' = renames /\ \A o \in Ops : scratch'[o] = "none"
  <2>1. renames' = renames /\ run_open' = run_open
    BY <1>2, ClosedSteps DEF Outside, vars
  <2>2. QED
    BY <1>2, <2>1 DEF ClosedQuiet
<1>3. PatchInv /\ ClosedQuiet /\ ClosedQuiet' /\ [Next]_vars =>
        [~run_open => renames' = renames /\ \A o \in Ops : scratch'[o] = "none"]_vars
  BY <1>2
<1>4. QED
  BY <1>1, <1>3, PatchInvHolds, ClosedQuietNext, PTL DEF Spec, ClosedRunUntouched

-----------------------------------------------------------------------------
(* A refused call dispatched nothing.  For the induction: a call has no answer while it runs,      *)
(* and the steps that may refuse come before the dispatch record.                                   *)
Honest(x) ==
  /\ x.answer \in {"REFUSED", "CONFLICT"} => ~x.dispatched
  /\ x.pc # "idle" => x.answer = "NONE"
  /\ x.pc \in {"prepare", "inspect", "dispatch"} => ~x.dispatched
AllHonest == \A c \in Callers : Honest(call[c])

(* An answer, with what the call did.                                                               *)
LEMMA HonestAnswer ==
  ASSUME NEW c \in Callers, call \in [Callers -> CallType], NEW a, Answer(c, a),
         a \in {"REFUSED", "CONFLICT"} => ~call[c].dispatched
  PROVE  \E x : Honest(x) /\ call' = [call EXCEPT ![c] = x]
<1>. DEFINE x == [Idle EXCEPT !.answer = a, !.dispatched = call[c].dispatched]
<1>1. x.answer = a /\ x.dispatched = call[c].dispatched /\ x.pc = "idle"
  BY DEF Idle
<1>2. call' = [call EXCEPT ![c] = x]
  BY DEF Answer
<1>. HIDE DEF x
<1>3. Honest(x)
  BY <1>1 DEF Honest
<1>4. QED
  BY <1>2, <1>3

(* A step of a running call that goes on.                                                           *)
LEMMA HonestMove ==
  ASSUME NEW c \in Callers, call \in [Callers -> CallType], call[c].pc # "idle", Honest(call[c]),
         NEW x, call' = [call EXCEPT ![c] = x], x.answer = call[c].answer,
         x.pc \notin {"prepare", "inspect", "dispatch"} \/ ~x.dispatched
  PROVE  \E y : Honest(y) /\ call' = [call EXCEPT ![c] = y]
<1>1. Honest(x)
  BY DEF Honest
<1>2. QED
  BY <1>1

LEMMA HonestStep ==
  ASSUME PatchInv, AllHonest, NEW c \in Callers,
         \/ \E q \in Requests : ApplyStart(c, q) \/ ReconcileStart(c, q)
         \/ Work(c) \/ Fail(c) \/ Crash(c)
  PROVE  \E x : Honest(x) /\ call' = [call EXCEPT ![c] = x]
<1>0. /\ call \in [Callers -> CallType] /\ call[c] \in CallType /\ Honest(call[c])
      /\ \A o \in Ops : record[o].result \in Dispositions \cup {"NONE"}
      /\ call[c].disposition \in Dispositions \cup {"NONE"}
  BY DEF PatchInv, TypeOK, AllHonest, CallType, RecordType
<1>1. ASSUME NEW q \in Requests, ApplyStart(c, q) \/ ReconcileStart(c, q)
      PROVE  \E x : Honest(x) /\ call' = [call EXCEPT ![c] = x]
  <2>1. PICK p \in {"prepare", "decide"} :
          call' = [call EXCEPT ![c] = [Idle EXCEPT !.pc = p, !.req = q]]
    BY <1>1 DEF ApplyStart, ReconcileStart
  <2>2. Honest([Idle EXCEPT !.pc = p, !.req = q])
    BY DEF Honest, Idle
  <2>3. QED
    BY <2>1, <2>2
<1>2. CASE Crash(c)
  <2>1. Honest(Idle)
    BY DEF Honest, Idle
  <2>2. QED
    BY <1>2, <2>1 DEF Crash
(* A step that answers, or goes on to a pc with the record of the call otherwise kept.                *)
<1>3. ASSUME NEW a, Answer(c, a),
             a \notin {"REFUSED", "CONFLICT"} \/ call[c].pc \in {"prepare", "inspect", "dispatch"}
      PROVE  \E x : Honest(x) /\ call' = [call EXCEPT ![c] = x]
  BY <1>0, <1>3, HonestAnswer DEF Honest
<1>4. ASSUME NEW p, Goto(c, p), call[c].pc # "idle",
             p \notin {"prepare", "inspect", "dispatch"} \/ call[c].pc \in {"prepare", "inspect"}
      PROVE  \E x : Honest(x) /\ call' = [call EXCEPT ![c] = x]
  <2>. DEFINE x == [call[c] EXCEPT !.pc = p]
  <2>1. /\ call' = [call EXCEPT ![c] = x] /\ x.answer = call[c].answer /\ x.pc = p
        /\ x.dispatched = call[c].dispatched
    BY <1>0, <1>4 DEF Goto, CallType
  <2>. HIDE DEF x
  <2>2. p \notin {"prepare", "inspect", "dispatch"} \/ ~x.dispatched
    BY <1>0, <1>4, <2>1 DEF Honest
  <2>3. QED
    BY <1>0, <1>4, <2>1, <2>2, HonestMove
<1>5. CASE Prepare(c) \/ PrepareFails(c)
  <2>1. call[c].pc = "prepare"
    BY <1>5 DEF Prepare, PrepareFails, At
  <2>2. Goto(c, "inspect") \/ \E a : Answer(c, a)
    BY <1>5 DEF Prepare, PrepareFails
  <2>3. QED
    BY <1>3, <1>4, <2>1, <2>2
<1>6. CASE Inspect(c)
  <2>. DEFINE x == [call[c] EXCEPT !.pc = "dispatch", !.original = target]
  <2>1. call[c].pc = "inspect" /\ ~call[c].dispatched
    BY <1>0, <1>6 DEF Inspect, At, Honest
  <2>2. call' = [call EXCEPT ![c] = x] \/ \E a : Answer(c, a)
    BY <1>0, <1>6 DEF Inspect
  <2>3. x.answer = call[c].answer /\ ~x.dispatched
    BY <1>0, <2>1 DEF CallType
  <2>. HIDE DEF x
  <2>4. CASE call' = [call EXCEPT ![c] = x]
    BY <1>0, <2>1, <2>3, <2>4, HonestMove
  <2>5. QED
    BY <1>3, <2>1, <2>2, <2>4
<1>7. CASE AppendDispatch(c)
  <2>. DEFINE x == [call[c] EXCEPT !.pc = "stage", !.dispatched = TRUE]
  <2>1. call[c].pc = "dispatch" /\ call' = [call EXCEPT ![c] = x]
    BY <1>0, <1>7 DEF AppendDispatch, At
  <2>2. x.answer = call[c].answer /\ x.pc = "stage"
    BY <1>0 DEF CallType
  <2>. HIDE DEF x
  <2>3. QED
    BY <1>0, <2>1, <2>2, HonestMove
<1>8. CASE DispatchFails(c)
  <2>1. call[c].pc = "dispatch"
    BY <1>8 DEF DispatchFails, At
  <2>2. \/ \E a : Answer(c, a)
        \/ \E linked \in BOOLEAN, left \in BOOLEAN : \E answer \in AnswersAfterError(linked, left) :
             call' = [call EXCEPT ![c] = [Idle EXCEPT !.answer = answer, !.dispatched = linked]]
    BY <1>8 DEF DispatchFails
  <2>3. ASSUME NEW linked \in BOOLEAN, NEW left \in BOOLEAN,
               NEW answer \in AnswersAfterError(linked, left)
        PROVE  Honest([Idle EXCEPT !.answer = answer, !.dispatched = linked])
    <3>1. linked => answer = "UNKNOWN"
      BY DEF AnswersAfterError
    <3>2. QED
      BY <3>1 DEF Honest, Idle
  <2>4. QED
    BY <1>3, <2>1, <2>2, <2>3
<1>9. CASE \/ Stage(c) \/ StageFails(c) \/ AppendPublication(c) \/ PublicationFails(c) \/ Recheck(c)
           \/ Replace(c) \/ ReplaceFails(c)
  <2>1. call[c].pc # "idle"
    BY <1>9 DEF Stage, StageFails, AppendPublication, PublicationFails, Recheck, Replace, ReplaceFails, At
  <2>2. \/ \E p \in {"publication", "cleanup", "recheck", "replace", "readback"} : Goto(c, p)
        \/ Answer(c, "UNKNOWN")
    BY <1>9 DEF Stage, StageFails, AppendPublication, PublicationFails, Recheck, Replace, ReplaceFails
  <2>3. QED
    BY <1>3, <1>4, <2>1, <2>2
<1>10. CASE Readback(c) \/ Cleanup(c) \/ Decide(c)
  <2>1. call[c].pc # "idle" /\ Op(c) = call[c].req.op
    BY <1>10 DEF Readback, Cleanup, Decide, At, Op
  <2>. DEFINE kept(d) == [call[c] EXCEPT !.pc = "result", !.disposition = d]
              seen(d) == [call[c] EXCEPT !.pc = "result", !.disposition = d, !.original = target]
  <2>2. \/ \E d \in Dispositions : call' = [call EXCEPT ![c] = kept(d)]
        \/ \E d \in Dispositions : call' = [call EXCEPT ![c] = seen(d)]
        \/ \E a : Answer(c, a) /\ a \in {"UNKNOWN", HistoricalAnswer(Op(c))}
    <3>1. CASE Readback(c)
      <4>1. call' = [call EXCEPT ![c] = kept("APPLIED")] \/ Answer(c, "UNKNOWN")
        BY <1>0, <3>1 DEF Readback
      <4>2. QED
        BY <4>1 DEF Dispositions
    <3>2. CASE Cleanup(c)
      <4>1. call' = [call EXCEPT ![c] = kept("NOT_APPLIED")] \/ Answer(c, "UNKNOWN")
        BY <1>0, <3>2 DEF Cleanup
      <4>2. QED
        BY <4>1 DEF Dispositions
    <3>3. CASE Decide(c)
      <4>1. \/ call' = [call EXCEPT ![c] = seen("APPLIED")] \/ call' = [call EXCEPT ![c] = seen("NOT_APPLIED")]
            \/ Answer(c, "UNKNOWN") \/ Answer(c, HistoricalAnswer(Op(c)))
        BY <1>0, <3>3 DEF Decide
      <4>2. QED
        BY <4>1 DEF Dispositions
    <3>4. QED
      BY <1>10, <3>1, <3>2, <3>3
  <2>3. HistoricalAnswer(Op(c)) \notin {"REFUSED", "CONFLICT"}
    BY <1>0, <2>1, Running DEF HistoricalAnswer, Dispositions, PatchInv
  <2>4. ASSUME NEW d PROVE /\ kept(d).answer = call[c].answer /\ kept(d).pc = "result"
                           /\ seen(d).answer = call[c].answer /\ seen(d).pc = "result"
    BY <1>0 DEF CallType
  <2>. HIDE DEF kept, seen
  <2>5. ASSUME NEW d, call' = [call EXCEPT ![c] = kept(d)] \/ call' = [call EXCEPT ![c] = seen(d)]
        PROVE  \E x : Honest(x) /\ call' = [call EXCEPT ![c] = x]
    BY <1>0, <2>1, <2>4, <2>5, HonestMove
  <2>6. QED
    BY <1>3, <2>2, <2>3, <2>5
<1>11. CASE AppendResult(c) \/ ResultFails(c)
  <2>1. \E a : Answer(c, a) /\ a \in {"UNKNOWN", call[c].disposition}
    BY <1>11 DEF AppendResult, ResultFails
  <2>2. QED
    BY <1>0, <1>3, <2>1 DEF Dispositions
<1>12. QED
  BY <1>1, <1>2, <1>5, <1>6, <1>7, <1>8, <1>9, <1>10, <1>11 DEF Work, Fail

(* A worker that was told REFUSED or CONFLICT may try again with another id: the call that said so    *)
(* wrote no dispatch record, wherever it failed.                                                       *)
THEOREM RefusalsDidNothingHolds == Spec => []RefusalsDidNothing
<1>1. Init => AllHonest
  BY DEF Init, AllHonest, Honest, Idle
<1>2. PatchInv /\ AllHonest /\ [Next]_vars => AllHonest'
  <2>. SUFFICES ASSUME PatchInv, AllHonest, [Next]_vars PROVE AllHonest'
    OBVIOUS
  <2>1. ASSUME NEW c \in Callers, NEW x, Honest(x), call' = [call EXCEPT ![c] = x]
        PROVE  AllHonest'
    BY <2>1 DEF AllHonest, PatchInv, TypeOK
  <2>2. CASE call' = call
    BY <2>2 DEF AllHonest
  <2>3. QED
    BY <2>1, <2>2, HonestStep DEF Next, Close, Outside, vars
<1>3. AllHonest => RefusalsDidNothing
  BY DEF AllHonest, Honest, RefusalsDidNothing
<1>4. QED
  BY <1>1, <1>2, <1>3, PatchInvHolds, PTL DEF Spec
=============================================================================

----------------------- MODULE HomeReplacementProofs -----------------------
(***************************************************************************)
(* Theorems about HomeReplacement, for any number of overlapping replace   *)
(* and reconcile calls, crashes, archives and setups in the gap: every     *)
(* home that was not deleted is at exactly one path, and an undamaged one  *)
(* is left as long as no cleanup is cut short.  Journal copies may be      *)
(* stale, so the argument is not about the journal: it is about the homes  *)
(* the calls in flight are about to delete.                                *)
(*                                                                         *)
(* The second half is about one operator at a time, whose calls may end    *)
(* between any two effects: the journal then never is stale, inspect and   *)
(* reconcile agree, and the protocol implements HomeKeeping, up to the     *)
(* first cleanup that leaves a restored copy half deleted.                 *)
(***************************************************************************)
EXTENDS MCHomeReplacement, SequenceTheorems, TLAPS

Spots == Places \cup {"dest"}
CallRecords == [at : {"idle", "replace", "cleanup", "reconcile"}, mode : Modes,
                data : Journals \cup {NoJournal}, seen : Seen, todo : Seq(Steps)]

\* Calls that are past the decision to delete the directory they bound, calls that
\* have emptied it, and calls whose restored copy is not there yet.
Doomed(c) == call[c].todo # << >> /\ Head(call[c].todo).do = "empty"
Removes(c) == call[c].todo # << >> /\ Head(call[c].todo).do = "rmdir"
Awaits(c) == call[c].todo # << >> /\ Head(call[c].todo).do = "restore"

\* The directories: one path for each, numbered in the order of their creation; only
\* a discard is emptied; a directory that is neither whole nor emptied nor torn holds
\* nothing but a receipt, and nothing takes it for a new home.
OnePath == \A p, q \in Paths : fs[p] # Nothing /\ fs[p] = fs[q] => p = q
DirsFit ==
    /\ OnePath
    /\ \A h \in whole : h <= born /\ \E p \in Paths : fs[p] = h
    /\ \A h \in emptied \cup torn : h <= born /\ h \notin whole
    /\ \A p \in Paths : fs[p] <= born
    /\ \A p \in Paths : fs[p] \in emptied => p[1] = "discard"
    /\ \A p \in Paths : fs[p] # Nothing /\ receipt[fs[p]] # None => fs[p] \in whole \cup emptied \cup torn
    /\ \A h \in Homes : h > born => receipt[h] = None
    /\ \A k \in Homes : fs[<<"prepared", k>>] \in {Nothing, k}

\* A journal, or the copy of one in a call, names directories there are or were; the
\* old home was a home.
KnownIn(j, dirs, made, homes) ==
    j # NoJournal =>
        /\ j.op <= made /\ j.old <= made /\ j.bound <= made
        /\ \A p \in Paths : dirs[p] = j.old => j.old \in homes
Known(j) == KnownIn(j, fs, born, whole \cup emptied \cup torn)

\* What a call plans: no effect moves a directory out of a discard or into a prepared
\* name; only the first effect restores or empties; a directory is removed after that.
Plain(step) ==
    step.do = "rename" => /\ step.from \in {"dest", "prepared", "rollback", "failed"}
                          /\ step.to \in {"dest", "rollback", "discard", "failed"}
                          /\ step.from # step.to
Shaped(todo) ==
    /\ todo \in Seq(Steps)
    /\ \A i \in 1..Len(todo) : Plain(todo[i])
    /\ \A i \in 2..Len(todo) :
          /\ todo[i].do \notin {"restore", "empty"}
          /\ todo[i].do = "rmdir" => i = 2 /\ todo[1].do = "empty"

\* A home that waits to be restored is new to the directories and to everybody else.
FreshFor(k, j) == j.op # k /\ (j # NoJournal => j.bound # k)
FreshIn(k, dirs, homes) == k \notin homes /\ \A p \in Paths : dirs[p] # k
Fresh(c) ==
    LET k == call[c].data.op
    IN  /\ FreshIn(k, fs, whole \cup emptied \cup torn)
        /\ FreshFor(k, journal)
        /\ \A d \in Callers \ {c} : FreshFor(k, call[d].data)

\* A directory some call is about to empty stays at its discard as long as it is whole.
Held(c) == call[c].data.bound \in whole => fs[<<"discard", call[c].data.op>>] = call[c].data.bound
CallFits(c) ==
    /\ call[c].at \in {"idle", "cleanup"} => call[c].todo = << >>
    /\ call[c].at # "idle" => call[c].data # NoJournal
    /\ Shaped(call[c].todo)
    /\ Known(call[c].data)
    /\ Doomed(c) => Held(c)
    /\ Removes(c) => call[c].data.bound \in emptied
    /\ Awaits(c) => Fresh(c)

\* An undamaged home nobody is about to delete.
Safe(w) == w \in whole /\ \A c \in Callers : Doomed(c) => call[c].data.bound # w

HomeInv ==
    /\ TypeOK
    /\ DirsFit
    /\ Known(journal)
    /\ \A c \in Callers : CallFits(c)
    /\ torn = {} => \E w \in Homes : Safe(w)

-----------------------------------------------------------------------------
LEMMA TypeParts ==
    TypeOK <=> /\ fs \in [Paths -> Homes \cup {Nothing}]
               /\ born \in Homes
               /\ receipt \in [Homes -> Archives \cup {None}]
               /\ whole \subseteq Homes /\ work \subseteq Homes
               /\ emptied \subseteq Homes /\ bare \subseteq emptied /\ torn \subseteq Homes
               /\ journal \in Journals \cup {NoJournal}
               /\ call \in [Callers -> CallRecords]
               /\ stops \in 0..MaxStops
BY DEF TypeOK, CallRecords

LEMMA Numbers == \A h \in Homes : h \in Nat /\ h # Nothing
BY BoundsAssumption DEF Homes, Nothing

\* The paths of an operation.
LEMMA PathFacts ==
    ASSUME NEW j \in Journals
    PROVE  /\ j.op \in Homes /\ j.old \in Homes /\ j # NoJournal
           /\ j.bound \in Homes \cup {Nothing}
           /\ \A s \in Spots : Path(j, s) \in Paths
           /\ \A s, t \in Spots : s # t => Path(j, s) # Path(j, t)
           /\ Path(j, "dest") = Dest
           /\ \A s \in Places : Path(j, s) = <<s, j.op>>
<1>1. j.op \in Homes /\ j.old \in Homes /\ j.bound \in Homes \cup {Nothing}
  BY DEF Journals
<1>2. j # NoJournal
  BY <1>1, Numbers DEF NoJournal
<1>3. \A s \in Places : s # "dest" /\ <<s, j.op>> \in Paths /\ <<s, j.op>> # Dest
  BY <1>1, Numbers DEF Places, Paths, Dest, Nothing
<1>4. Dest \in Paths
  BY DEF Paths
<1>5. QED
  BY <1>1, <1>2, <1>3, <1>4 DEF Path, Spots, Places

\* What the effects of a plan carry.
LEMMA StepFacts ==
    ASSUME NEW e \in Steps
    PROVE  /\ e.do = "write" => e.from \in Statuses
           /\ e.do = "rename" => e.from \in Spots /\ e.to \in Spots
<1>1. CASE \E p, q \in Spots : e = Ren(p, q)
  BY <1>1 DEF Ren
<1>2. ASSUME NEW s \in Statuses, e = Wr(s)
      PROVE  e.do = "write" /\ e.from = s
  BY <1>2 DEF Wr
<1>3. ASSUME NEW f \in Effects, e = Do(f)
      PROVE  e.do \in Effects
  BY <1>3 DEF Do
<1>4. "write" \notin Effects /\ "rename" \notin Effects
  BY DEF Effects
<1>5. QED
  BY <1>1, <1>2, <1>3, <1>4 DEF Steps, Spots

\* What a caller knows.
LEMMA CallFacts ==
    ASSUME HomeInv, NEW c \in Callers
    PROVE  /\ call[c] \in CallRecords /\ CallFits(c)
           /\ call[c].at \in {"idle", "replace", "cleanup", "reconcile"} /\ call[c].mode \in Modes
           /\ call[c].data \in Journals \cup {NoJournal} /\ call[c].seen \in Seen
           /\ call[c].todo \in Seq(Steps)
           /\ call[c].at # "idle" \/ call[c].todo # << >> => call[c].data \in Journals
<1>1. call \in [Callers -> CallRecords]
  BY TypeParts DEF HomeInv
<1>2. call[c] \in CallRecords /\ CallFits(c)
  BY <1>1 DEF HomeInv
<1>3. QED
  BY <1>2 DEF CallRecords, CallFits

\* Effects leave the plan from its front.
LEMMA TailShaped ==
    ASSUME NEW t, Shaped(t), t # << >>
    PROVE  /\ Head(t) \in Steps /\ Plain(Head(t))
           /\ Shaped(Tail(t))
           /\ Tail(t) # << >> => /\ Head(Tail(t)).do \notin {"restore", "empty"}
                                 /\ Head(Tail(t)).do = "rmdir" => Head(t).do = "empty"
<1>1. t \in Seq(Steps) /\ Len(t) \in Nat /\ Len(t) >= 1 /\ Head(t) = t[1] /\ t[1] \in Steps
  BY DEF Shaped
<1>2. /\ Tail(t) \in Seq(Steps) /\ Len(Tail(t)) = Len(t) - 1
      /\ \A i \in 1..Len(Tail(t)) : Tail(t)[i] = t[i + 1]
  BY <1>1
<1>3. ASSUME NEW i \in 1..Len(Tail(t))
      PROVE  /\ Plain(Tail(t)[i]) /\ Tail(t)[i].do \notin {"restore", "empty"}
             /\ Tail(t)[i].do = "rmdir" => i = 1 /\ t[1].do = "empty"
  <2>1. i + 1 \in 2..Len(t) /\ i + 1 \in 1..Len(t) /\ Tail(t)[i] = t[i + 1]
    BY <1>1, <1>2
  <2>2. QED
    BY <2>1 DEF Shaped
<1>4. Shaped(Tail(t))
  <2>1. \A i \in 2..Len(Tail(t)) : i \in 1..Len(Tail(t)) /\ i # 1
    BY <1>1, <1>2
  <2>2. QED
    BY <1>2, <1>3, <2>1 DEF Shaped
<1>5. ASSUME Tail(t) # << >> PROVE Head(Tail(t)) = Tail(t)[1] /\ 1 \in 1..Len(Tail(t))
  BY <1>2, <1>5
<1>6. QED
  BY <1>1, <1>3, <1>4, <1>5 DEF Shaped

-----------------------------------------------------------------------------
\* What a step leaves to the calls it does not belong to.

LEMMA OneCall ==
    ASSUME call \in [Callers -> CallRecords], NEW c \in Callers, NEW x \in CallRecords,
           call' = [call EXCEPT ![c] = x]
    PROVE  /\ call' \in [Callers -> CallRecords] /\ call'[c] = x
           /\ \A d \in Callers \ {c} : call'[d] = call[d]
OBVIOUS

\* The directories of a step: they are numbered on, and what was neither whole nor
\* emptied nor torn at a path afterwards was so before.
Onward ==
    /\ born' \in Homes /\ born' >= born
    /\ emptied \subseteq emptied' /\ torn \subseteq torn'
    /\ \A p \in Paths : fs'[p] \in 1..born /\ fs'[p] \notin whole' \cup emptied' \cup torn' =>
          \E q \in Paths : fs[q] = fs'[p] /\ fs[q] \notin whole \cup emptied \cup torn

LEMMA KnownStays ==
    ASSUME HomeInv, Onward, NEW j \in Journals \cup {NoJournal}, Known(j)
    PROVE  KnownIn(j, fs', born', whole' \cup emptied' \cup torn')
<1>. SUFFICES ASSUME j # NoJournal
              PROVE  /\ j.op <= born' /\ j.old <= born' /\ j.bound <= born'
                     /\ \A p \in Paths : fs'[p] = j.old => j.old \in whole' \cup emptied' \cup torn'
  BY DEF KnownIn
<1>1. /\ j.op \in Nat /\ j.old \in Nat /\ j.bound \in Nat /\ born \in Nat /\ born' \in Nat
      /\ born' >= born
  BY PathFacts, Numbers, TypeParts DEF HomeInv, Onward, Nothing
<1>2. /\ j.op <= born /\ j.old <= born /\ j.bound <= born
      /\ \A p \in Paths : fs[p] = j.old => j.old \in whole \cup emptied \cup torn
  BY DEF Known, KnownIn
<1>3. j.old \in 1..born
  BY <1>1, <1>2, PathFacts, Numbers DEF Nothing, Homes
<1>4. QED
  BY <1>1, <1>2, <1>3 DEF Onward

\* A call of another process fits as before, if the directory it is about to empty and
\* the home it is about to restore are left alone.
LEMMA OtherFits ==
    ASSUME HomeInv, Onward, NEW d \in Callers, call'[d] = call[d],
           Doomed(d) => Held(d)', Awaits(d) => Fresh(d)'
    PROVE  CallFits(d)'
<1>1. CallFits(d) /\ call[d].data \in Journals \cup {NoJournal}
  BY CallFacts
<1>2. Known(call[d].data)'
  BY <1>1, KnownStays DEF CallFits, Known
<1>3. (Doomed(d)' <=> Doomed(d)) /\ (Removes(d)' <=> Removes(d)) /\ (Awaits(d)' <=> Awaits(d))
  BY DEF Doomed, Removes, Awaits
<1>4. Removes(d) => call'[d].data.bound \in emptied'
  BY <1>1 DEF CallFits, Onward
<1>5. QED
  BY <1>1, <1>2, <1>3, <1>4 DEF CallFits

\* A call that has just ended.
LEMMA IdleFits ==
    ASSUME NEW c \in Callers, call'[c] = Idle
    PROVE  CallFits(c)' /\ ~Doomed(c)'
<1>1. << >> \in Seq(Steps) /\ Len(<< >>) = 0
  OBVIOUS
<1>2. Shaped(<< >>)
  BY <1>1 DEF Shaped
<1>3. /\ call'[c].at = "idle" /\ call'[c].todo = << >> /\ call'[c].data = NoJournal
  BY DEF Idle
<1>4. QED
  BY <1>2, <1>3 DEF CallFits, Known, KnownIn, Doomed, Removes, Awaits

LEMMA IdleRecord == Idle \in CallRecords
BY DEF Idle, CallRecords, Modes, Seen, Blind, NoJournal

\* A call that has done the first of its effects.
LEMMA DoneFits ==
    ASSUME HomeInv, NEW c \in Callers, call[c].todo # << >>,
           call'[c].at = call[c].at, call'[c].todo = Tail(call[c].todo),
           KnownIn(call'[c].data, fs', born', whole' \cup emptied' \cup torn'),
           call'[c].data # NoJournal,
           Doomed(c) => call'[c].data.bound \in emptied'
    PROVE  CallFits(c)' /\ ~Doomed(c)'
<1>1. CallFits(c) /\ Shaped(call[c].todo) /\ call[c].at # "idle"
  BY CallFacts DEF CallFits
<1>2. /\ Shaped(call'[c].todo) /\ ~Doomed(c)' /\ ~Awaits(c)' /\ (Removes(c)' => Doomed(c))
  BY <1>1, TailShaped DEF Doomed, Awaits, Removes
<1>3. QED
  BY <1>1, <1>2 DEF CallFits, Known

\* The home that is safe stays so when no call decides to delete it.
LEMMA SafeStays ==
    ASSUME NEW c \in Callers, NEW w \in Homes, Safe(w), w \in whole', ~Doomed(c)',
           \A d \in Callers \ {c} : call'[d] = call[d]
    PROVE  Safe(w)'
<1>1. ASSUME NEW d \in Callers, Doomed(d)' PROVE call'[d].data.bound # w
  <2>1. d # c /\ call'[d] = call[d]
    BY <1>1
  <2>2. Doomed(d)
    BY <1>1, <2>1 DEF Doomed
  <2>3. QED
    BY <2>1, <2>2 DEF Safe
<1>2. QED
  BY <1>1 DEF Safe

-----------------------------------------------------------------------------
\* Steps of a call that leave the directories alone.

LEMMA QuietStep ==
    ASSUME HomeInv, NEW c \in Callers, NEW x \in CallRecords, call' = [call EXCEPT ![c] = x],
           UNCHANGED <<fs, receipt, whole, deleted, work>>,
           born' \in Homes, born' >= born, stops' \in 0..MaxStops,
           journal' \in Journals \cup {NoJournal},
           KnownIn(journal', fs, born', whole \cup emptied \cup torn),
           CallFits(c)',
           \A d \in Callers \ {c} : Awaits(d) =>
               FreshFor(call[d].data.op, journal') /\ FreshFor(call[d].data.op, x.data),
           ~Doomed(c)' \/ (torn = {} => \E w \in Homes : Safe(w)')
    PROVE  HomeInv'
<1>0. UNCHANGED <<emptied, bare, torn>>
  BY DEF deleted
<1>1. /\ call' \in [Callers -> CallRecords] /\ call'[c] = x
      /\ \A d \in Callers \ {c} : call'[d] = call[d]
  BY OneCall, TypeParts DEF HomeInv
<1>2. TypeOK'
  BY <1>0, <1>1, TypeParts DEF HomeInv, TypeOK, CallRecords
<1>3. born \in Nat /\ born' \in Nat /\ \A p \in Paths : fs[p] \in Nat
  BY Numbers, TypeParts DEF HomeInv, Nothing
<1>4. Onward
  BY <1>0, <1>3 DEF Onward
<1>5. DirsFit'
  <2>1. \A h \in Homes : h \in Nat
    BY Numbers
  <2>2. whole \subseteq Homes /\ emptied \subseteq Homes /\ torn \subseteq Homes
    BY TypeParts DEF HomeInv
  <2>3. QED
    BY <1>0, <1>3, <2>1, <2>2 DEF HomeInv, DirsFit, OnePath
<1>6. ASSUME NEW d \in Callers \ {c} PROVE CallFits(d)'
  <2>1. call'[d] = call[d] /\ CallFits(d)
    BY <1>1, CallFacts
  <2>2. Doomed(d) => Held(d)'
    BY <2>1 DEF CallFits, Held
  <2>3. ASSUME Awaits(d) PROVE Fresh(d)'
    <3>1. /\ FreshIn(call[d].data.op, fs, whole \cup emptied \cup torn)
          /\ \A e \in Callers \ {d} : FreshFor(call[d].data.op, call[e].data)
      BY <2>1, <2>3 DEF CallFits, Fresh
    <3>2. \A e \in Callers \ {d} : FreshFor(call[d].data.op, call'[e].data)
      BY <1>1, <2>3, <3>1
    <3>3. QED
      BY <1>0, <2>1, <2>3, <3>1, <3>2 DEF Fresh
  <2>4. QED
    BY <1>4, <2>1, <2>2, <2>3, OtherFits
<1>7. ASSUME torn' = {} PROVE \E w \in Homes : Safe(w)'
  <2>1. CASE ~Doomed(c)'
    <3>1. PICK w \in Homes : Safe(w)
      BY <1>0, <1>7 DEF HomeInv
    <3>2. w \in whole'
      BY <3>1 DEF Safe
    <3>3. Safe(w)'
      BY <1>1, <2>1, <3>1, <3>2, SafeStays
    <3>4. QED
      BY <3>3
  <2>2. QED
    BY <1>0, <1>7, <2>1
<1>8. KnownIn(journal', fs', born', whole' \cup emptied' \cup torn')
  BY <1>0
<1>9. QED
  BY <1>2, <1>5, <1>6, <1>7, <1>8 DEF HomeInv, Known

\* The journal and the calls of others do not name a home that waits to be restored.
LEMMA FreshFacts ==
    ASSUME HomeInv, NEW d \in Callers, Awaits(d)
    PROVE  /\ call[d].data \in Journals /\ call[d].data.op \in Homes
           /\ FreshFor(call[d].data.op, journal) /\ FreshFor(call[d].data.op, NoJournal)
           /\ \A e \in Callers \ {d} : FreshFor(call[d].data.op, call[e].data)
           /\ call[d].data.op <= born
           /\ \A p \in Paths : fs[p] # call[d].data.op
<1>1. call[d].data \in Journals /\ CallFits(d)
  BY CallFacts DEF Awaits
<1>2. call[d].data.op \in Homes /\ call[d].data # NoJournal
  BY <1>1, PathFacts
<1>3. FreshFor(call[d].data.op, NoJournal)
  BY <1>2, Numbers DEF FreshFor, NoJournal
<1>4. QED
  BY <1>1, <1>2, <1>3 DEF CallFits, Fresh, FreshIn, Known, KnownIn

\* A call ends: with its last effect, an answer, an exception or a crash.
LEMMA EndsKeeps ==
    ASSUME HomeInv, NEW c \in Callers, call' = [call EXCEPT ![c] = Idle],
           UNCHANGED <<fs, born, receipt, whole, deleted, work>>, stops' \in 0..MaxStops,
           journal' \in {journal, NoJournal}
    PROVE  HomeInv'
<1>1. call'[c] = Idle
  BY IdleRecord, OneCall, TypeParts DEF HomeInv
<1>2. CallFits(c)' /\ ~Doomed(c)'
  BY <1>1, IdleFits
<1>3. /\ born' \in Homes /\ born' >= born /\ journal' \in Journals \cup {NoJournal}
      /\ KnownIn(journal', fs, born', whole \cup emptied \cup torn)
  BY Numbers, TypeParts DEF HomeInv, Known, KnownIn
<1>4. \A d \in Callers \ {c} : Awaits(d) =>
         FreshFor(call[d].data.op, journal') /\ FreshFor(call[d].data.op, Idle.data)
  BY FreshFacts DEF Idle
<1>5. QED
  BY <1>2, <1>3, <1>4, IdleRecord, QuietStep

LEMMA ReconcileStartKeeps ==
    ASSUME HomeInv, NEW c \in Callers, NEW m \in Modes, ReconcileStart(c, m)
    PROVE  HomeInv'
<1>. DEFINE x == [at |-> "reconcile", mode |-> m, data |-> journal, seen |-> Look(journal),
                  todo |-> << >>]
<1>1. /\ journal \in Journals /\ call' = [call EXCEPT ![c] = x]
      /\ UNCHANGED <<fs, born, receipt, whole, deleted, work, journal, stops>>
  BY TypeParts DEF ReconcileStart, HomeInv
<1>2. Look(journal) \in Seen
  BY DEF Look, Seen, Exists, IsNew
<1>3. x \in CallRecords
  BY <1>1, <1>2 DEF CallRecords
<1>4. /\ x.at = "reconcile" /\ x.data = journal /\ x.todo = << >>
  OBVIOUS
<1>. HIDE DEF x
<1>5. call'[c] = x
  BY <1>1, <1>3, OneCall, TypeParts DEF HomeInv
<1>6. journal # NoJournal
  BY <1>1, PathFacts
<1>7. Shaped(<< >>)
  BY DEF Shaped
<1>8. CallFits(c)' /\ ~Doomed(c)'
  BY <1>1, <1>4, <1>5, <1>6, <1>7 DEF deleted, CallFits, HomeInv, Known, Doomed, Awaits, Removes
<1>9. \A d \in Callers \ {c} : Awaits(d) =>
         FreshFor(call[d].data.op, journal') /\ FreshFor(call[d].data.op, x.data)
  BY <1>1, <1>4, FreshFacts
<1>10. /\ born' \in Homes /\ born' >= born /\ stops' \in 0..MaxStops
       /\ journal' \in Journals \cup {NoJournal}
       /\ KnownIn(journal', fs, born', whole \cup emptied \cup torn)
  BY <1>1, Numbers, TypeParts DEF HomeInv, Known
<1>11. QED
  BY <1>1, <1>3, <1>8, <1>9, <1>10, QuietStep

\* The journal is replaced by the caller's copy of it.
LEMMA WriteKeeps ==
    ASSUME HomeInv, NEW c \in Callers, Write(c)
    PROVE  HomeInv'
<1>. DEFINE s == Head(call[c].todo).from
            j == [call[c].data EXCEPT !.status = s]
            x == [call[c] EXCEPT !.data = j, !.todo = Tail(@)]
<1>1. /\ call[c] \in CallRecords /\ call[c].data \in Journals /\ CallFits(c)
      /\ call[c].todo # << >> /\ Head(call[c].todo).do = "write"
  BY CallFacts DEF Write, Next1
<1>2. /\ Shaped(call[c].todo) /\ Head(call[c].todo) \in Steps /\ Tail(call[c].todo) \in Seq(Steps)
  BY <1>1, TailShaped DEF CallFits, Shaped
<1>3. s \in Statuses
  BY <1>1, <1>2, StepFacts
<1>4. journal' = j /\ call' = [call EXCEPT ![c] = x]
  BY <1>1, TypeParts DEF Write, HomeInv, CallRecords
<1>5. /\ j \in Journals /\ j.op = call[c].data.op /\ j.old = call[c].data.old
      /\ j.bound = call[c].data.bound
  BY <1>1, <1>3 DEF Journals
<1>. HIDE DEF s, j
<1>6. /\ x \in CallRecords /\ x.at = call[c].at /\ x.data = j /\ x.todo = Tail(call[c].todo)
  BY <1>1, <1>2, <1>5 DEF CallRecords
<1>. HIDE DEF x
<1>7. call'[c] = x
  BY <1>4, <1>6, OneCall, TypeParts DEF HomeInv
<1>8. call[c].data # NoJournal /\ j # NoJournal
  BY <1>1, <1>5, PathFacts
<1>9. UNCHANGED <<fs, born, receipt, whole, deleted, work, stops>>
  BY DEF Write
<1>10. KnownIn(j, fs, born, whole \cup emptied \cup torn)
  BY <1>1, <1>5, <1>8 DEF CallFits, Known, KnownIn
<1>11. CallFits(c)' /\ ~Doomed(c)'
  BY <1>1, <1>6, <1>7, <1>8, <1>9, <1>10, DoneFits DEF Doomed, deleted
<1>12. ASSUME NEW d \in Callers \ {c}, Awaits(d) PROVE FreshFor(call[d].data.op, j)
  <2>1. FreshFor(call[d].data.op, call[c].data)
    BY <1>12, FreshFacts
  <2>2. QED
    BY <1>5, <1>8, <2>1 DEF FreshFor
<1>13. /\ born' \in Homes /\ born' >= born /\ stops' \in 0..MaxStops
  BY <1>9, Numbers, TypeParts DEF HomeInv
<1>14. QED
  BY <1>4, <1>5, <1>6, <1>9, <1>10, <1>11, <1>12, <1>13, QuietStep

LEMMA LookAgainKeeps ==
    ASSUME HomeInv, NEW c \in Callers, LookAgain(c)
    PROVE  HomeInv'
<1>. DEFINE new == IsNew(call[c].data, "dest")
            seen == [call[c].seen EXCEPT !.new = new]
            x == [call[c] EXCEPT !.seen = seen, !.todo = Tail(@)]
<1>1. /\ call[c] \in CallRecords /\ call[c].data \in Journals /\ CallFits(c)
      /\ call[c].todo # << >> /\ Head(call[c].todo).do = "look"
  BY CallFacts DEF LookAgain, Next1
<1>2. Tail(call[c].todo) \in Seq(Steps)
  BY <1>1, TailShaped DEF CallFits, Shaped
<1>3. new \in BOOLEAN
  BY DEF IsNew, Exists
<1>4. call' = [call EXCEPT ![c] = x]
  BY <1>1, TypeParts DEF LookAgain, HomeInv, CallRecords
<1>. HIDE DEF new
<1>5. seen \in Seen
  BY <1>1, <1>3 DEF CallRecords, Seen
<1>. HIDE DEF seen
<1>6. /\ x \in CallRecords /\ x.at = call[c].at /\ x.data = call[c].data
      /\ x.todo = Tail(call[c].todo)
  BY <1>1, <1>2, <1>5 DEF CallRecords
<1>. HIDE DEF x
<1>7. call'[c] = x
  BY <1>4, <1>6, OneCall, TypeParts DEF HomeInv
<1>8. UNCHANGED <<fs, born, receipt, whole, deleted, work, journal, stops>>
  BY DEF LookAgain
<1>9. call[c].data # NoJournal /\ KnownIn(call[c].data, fs, born, whole \cup emptied \cup torn)
  BY <1>1, PathFacts DEF CallFits, Known
<1>10. CallFits(c)' /\ ~Doomed(c)'
  BY <1>1, <1>6, <1>7, <1>8, <1>9, DoneFits DEF Doomed, deleted
<1>11. \A d \in Callers \ {c} : Awaits(d) =>
         FreshFor(call[d].data.op, journal') /\ FreshFor(call[d].data.op, x.data)
  BY <1>6, <1>8, FreshFacts
<1>12. /\ born' \in Homes /\ born' >= born /\ stops' \in 0..MaxStops
       /\ journal' \in Journals \cup {NoJournal}
       /\ KnownIn(journal', fs, born', whole \cup emptied \cup torn)
  BY <1>8, Numbers, TypeParts DEF HomeInv, Known
<1>13. QED
  BY <1>4, <1>6, <1>8, <1>10, <1>11, <1>12, QuietStep

-----------------------------------------------------------------------------
\* What reconcile decides to do.

\* An effect that neither restores nor deletes.
Mild(e) == e \in Steps /\ Plain(e) /\ e.do \notin {"restore", "empty", "rmdir"}

LEMMA MildEffects ==
    /\ \A s \in Statuses : Mild(Wr(s))
    /\ Mild(Do("look")) /\ Mild(Do("receipt")) /\ Mild(Do("unlink"))
    /\ \A p \in {"dest", "prepared", "rollback", "failed"},
          q \in {"dest", "rollback", "discard", "failed"} : p # q => Mild(Ren(p, q))
<1>1. ASSUME NEW s \in Statuses PROVE Mild(Wr(s))
  <2>1. Wr(s) \in Steps
    BY DEF Steps
  <2>2. Wr(s).do = "write"
    BY DEF Wr
  <2>3. QED
    BY <2>1, <2>2 DEF Mild, Plain
<1>2. ASSUME NEW e \in {"look", "receipt", "unlink"} PROVE Mild(Do(e))
  <2>1. Do(e) \in Steps
    BY DEF Steps, Effects
  <2>2. Do(e).do = e
    BY DEF Do
  <2>3. QED
    BY <2>1, <2>2 DEF Mild, Plain
<1>3. ASSUME NEW p \in {"dest", "prepared", "rollback", "failed"},
             NEW q \in {"dest", "rollback", "discard", "failed"}, p # q
      PROVE  Mild(Ren(p, q))
  <2>1. Ren(p, q) \in Steps
    BY DEF Steps, Places
  <2>2. Ren(p, q).do = "rename" /\ Ren(p, q).from = p /\ Ren(p, q).to = q
    BY DEF Ren
  <2>3. QED
    BY <1>3, <2>1, <2>2 DEF Mild, Plain
<1>4. QED
  BY <1>1, <1>2, <1>3

LEMMA Shape1 ==
    ASSUME NEW a, Mild(a)
    PROVE  Shaped(<<a>>) /\ <<a>> # << >> /\ Head(<<a>>) = a
BY DEF Shaped, Mild
LEMMA Shape2 ==
    ASSUME NEW a, NEW b, Mild(a), Mild(b)
    PROVE  Shaped(<<a, b>>) /\ <<a, b>> # << >> /\ Head(<<a, b>>) = a
BY DEF Shaped, Mild
LEMMA Shape3 ==
    ASSUME NEW a, NEW b, NEW e, Mild(a), Mild(b), Mild(e)
    PROVE  Shaped(<<a, b, e>>) /\ <<a, b, e>> # << >> /\ Head(<<a, b, e>>) = a
BY DEF Shaped, Mild

\* What a call knows when it decides to delete: its discard is the directory it bound,
\* and the destination is the old home or a restored one.
Judged(j) ==
    /\ fs[<<"discard", j.op>>] = j.bound /\ j.bound # Nothing
    /\ fs[Dest] # Nothing
    /\ fs[Dest] = j.old \/ receipt[fs[Dest]] # None

\* What a block of reconcile may return for the journal copy j.
Decided(d, j) ==
    /\ d.data \in Journals /\ d.data.op = j.op /\ d.data.old = j.old
    /\ d.data.bound = j.bound \/ \E p \in Paths : fs[p] = d.data.bound
    /\ d.seen \in Seen
    /\ Shaped(d.todo)
    /\ d.todo # << >> => /\ Head(d.todo).do \notin {"restore", "rmdir"}
                         /\ Head(d.todo).do = "empty" => d.data = j /\ Judged(j)

LEMMA ReportDecided ==
    ASSUME NEW j \in Journals, NEW s \in Seen, NEW what
    PROVE  Decided(Report(j, s, what), j)
<1>1. Shaped(<< >>)
  BY DEF Shaped
<1>2. QED
  BY <1>1 DEF Report, Decided

LEMMA PlanDecided ==
    ASSUME NEW j \in Journals, NEW k \in Journals, NEW s \in Seen, NEW t, k.op = j.op, k.old = j.old,
           k.bound = j.bound \/ \E p \in Paths : fs[p] = k.bound,
           Shaped(t), t # << >>, Mild(Head(t))
    PROVE  Decided(Plan(k, s, t), j)
BY DEF Plan, Decided, Mild

LEMMA BindFacts ==
    ASSUME HomeInv, NEW j \in Journals, NEW place \in Spots, NEW role \in Roles
    PROVE  LET k == Bind(j, place, role)
           IN  /\ k \in Journals /\ k.op = j.op /\ k.old = j.old
               /\ \E p \in Paths : fs[p] = k.bound
<1>1. Path(j, place) \in Paths /\ fs[Path(j, place)] \in Homes \cup {Nothing}
  BY PathFacts, TypeParts DEF HomeInv
<1>2. QED
  BY <1>1 DEF Bind, At, Journals

\* Plans of one, two and three effects that are all mild.
LEMMA Plan1 ==
    ASSUME NEW j \in Journals, NEW s \in Seen, NEW a, Mild(a)
    PROVE  Decided(Plan(j, s, <<a>>), j)
BY Shape1, PlanDecided
LEMMA Plan2 ==
    ASSUME NEW j \in Journals, NEW s \in Seen, NEW a, NEW b, Mild(a), Mild(b)
    PROVE  Decided(Plan(j, s, <<a, b>>), j)
BY Shape2, PlanDecided
LEMMA Plan3 ==
    ASSUME NEW j \in Journals, NEW k \in Journals, NEW s \in Seen, NEW a, NEW b, NEW e,
           Mild(a), Mild(b), Mild(e), k.op = j.op, k.old = j.old,
           k.bound = j.bound \/ \E p \in Paths : fs[p] = k.bound
    PROVE  Decided(Plan(k, s, <<a, b, e>>), j)
BY Shape3, PlanDecided

LEMMA PreparedDecides ==
    ASSUME NEW j \in Journals, NEW s \in Seen, NEW m
    PROVE  Decided(AtPrepared(j, s, m), j)
<1>1. [s EXCEPT !.dest = FALSE, !.rollback = TRUE] \in Seen
  BY DEF Seen
<1>2. /\ Decided(Plan(j, s, <<Wr("OLD_MOVED")>>), j)
      /\ Decided(Plan(j, s, <<Wr("NEW_ACTIVE")>>), j)
  BY Plan1, MildEffects DEF Statuses
<1>3. Decided(Plan(j, [s EXCEPT !.dest = FALSE, !.rollback = TRUE],
                   <<Ren("dest", "rollback"), Wr("OLD_MOVED")>>), j)
  BY <1>1, Plan2, MildEffects DEF Statuses
<1>4. QED
  BY <1>2, <1>3, ReportDecided DEF AtPrepared

LEMMA OldMovedDecides ==
    ASSUME NEW j \in Journals, NEW s \in Seen, NEW m
    PROVE  Decided(AtOldMoved(j, s, m), j)
<1>1. [s EXCEPT !.dest = TRUE, !.prepared = FALSE] \in Seen
  BY DEF Seen
<1>2. Decided(Plan(j, s, <<Wr("NEW_ACTIVE")>>), j)
  BY Plan1, MildEffects DEF Statuses
<1>3. Decided(Plan(j, [s EXCEPT !.dest = TRUE, !.prepared = FALSE],
                   <<Ren("prepared", "dest"), Wr("NEW_ACTIVE"), Do("look")>>), j)
  BY <1>1, Plan3, MildEffects DEF Statuses
<1>4. QED
  BY <1>2, <1>3, ReportDecided DEF AtOldMoved

LEMMA NewActiveDecides ==
    ASSUME HomeInv, NEW j \in Journals, NEW s \in Seen, NEW m
    PROVE  Decided(AtNewActive(j, s, m), j)
<1>. DEFINE k == Bind(j, "rollback", "rollback_old")
<1>1. k \in Journals /\ k.op = j.op /\ k.old = j.old /\ \E p \in Paths : fs[p] = k.bound
  BY BindFacts DEF Spots, Places, Roles
<1>. HIDE DEF k
<1>2. /\ Decided(Plan(j, s, <<Wr("FINALIZE_PENDING_DELETE")>>), j)
      /\ Decided(Plan(j, s, <<Wr("ROLLBACK_PREPARED")>>), j)
  BY Plan1, MildEffects DEF Statuses
<1>3. Decided(Plan(k, s, <<Wr("NEW_ACTIVE"), Ren("rollback", "discard"),
                           Wr("FINALIZE_PENDING_DELETE")>>), j)
  BY <1>1, Plan3, MildEffects DEF Statuses
<1>4. QED
  BY <1>2, <1>3, ReportDecided DEF AtNewActive, k

LEMMA RollbackPreparedDecides ==
    ASSUME NEW j \in Journals, NEW s \in Seen, NEW m
    PROVE  Decided(AtRollbackPrepared(j, s, m), j)
<1>1. /\ Decided(Plan(j, s, <<Wr("ROLLBACK_NEW_MOVED")>>), j)
      /\ Decided(Plan(j, s, <<Wr("ROLLED_BACK")>>), j)
  BY Plan1, MildEffects DEF Statuses
<1>2. Decided(Plan(j, s, <<Ren("dest", "failed"), Wr("ROLLBACK_NEW_MOVED")>>), j)
  BY Plan2, MildEffects DEF Statuses
<1>3. QED
  BY <1>1, <1>2, ReportDecided DEF AtRollbackPrepared

LEMMA RollbackNewMovedDecides ==
    ASSUME NEW j \in Journals, NEW s \in Seen, NEW m
    PROVE  Decided(AtRollbackNewMoved(j, s, m), j)
<1>1. Decided(Plan(j, s, <<Wr("ROLLED_BACK")>>), j)
  BY Plan1, MildEffects DEF Statuses
<1>2. Decided(Plan(j, s, <<Ren("rollback", "dest"), Wr("ROLLED_BACK")>>), j)
  BY Plan2, MildEffects DEF Statuses
<1>3. QED
  BY <1>1, <1>2, ReportDecided DEF AtRollbackNewMoved

LEMMA RolledBackDecides ==
    ASSUME HomeInv, NEW j \in Journals, NEW s \in Seen, NEW m
    PROVE  Decided(AtRolledBack(j, s, m), j)
<1>. DEFINE k == Bind(j, "failed", "failed_new")
<1>1. k \in Journals /\ k.op = j.op /\ k.old = j.old /\ \E p \in Paths : fs[p] = k.bound
  BY BindFacts DEF Spots, Places, Roles
<1>. HIDE DEF k
<1>2. Decided(Plan(j, s, <<Wr("ROLLBACK_FINALIZE_PENDING_DELETE")>>), j)
  BY Plan1, MildEffects DEF Statuses
<1>3. Decided(Plan(k, s, <<Wr("ROLLED_BACK"), Ren("failed", "discard"),
                           Wr("ROLLBACK_FINALIZE_PENDING_DELETE")>>), j)
  BY <1>1, Plan3, MildEffects DEF Statuses
<1>4. QED
  BY <1>2, <1>3, ReportDecided DEF AtRolledBack, k

LEMMA Joined ==
    ASSUME NEW a, NEW b, NEW e, NEW f, NEW g
    PROVE  <<a, b>> \o <<e, f, g>> = <<a, b, e, f, g>>
<1>1. <<a, b>> \in Seq({a, b, e, f, g}) /\ <<e, f, g>> \in Seq({a, b, e, f, g})
  OBVIOUS
<1>2. \A i \in 1..5 : (<<a, b>> \o <<e, f, g>>)[i] = <<a, b, e, f, g>>[i]
  BY <1>1
<1>3. Len(<<a, b>> \o <<e, f, g>>) = 5 /\ Len(<<a, b, e, f, g>>) = 5
  BY <1>1
<1>4. <<a, b>> \o <<e, f, g>> \in Seq({a, b, e, f, g}) /\ <<a, b, e, f, g>> \in Seq({a, b, e, f, g})
  BY <1>1
<1>5. QED
  BY <1>2, <1>3, <1>4, SeqEqual

\* Only here a deletion is decided, behind a home at the destination.
LEMMA PendingDeleteDecides ==
    ASSUME HomeInv, NEW j \in Journals, NEW s \in Seen, NEW m
    PROVE  Decided(AtPendingDelete(j, s, m), j)
<1>. DEFINE closing == <<Do("receipt"), Wr("COMPLETE"), Do("unlink")>>
            deleting == <<Do("empty"), Do("rmdir"), Do("receipt"), Wr("COMPLETE"), Do("unlink")>>
<1>1. <<Do("empty"), Do("rmdir")>> \o closing = deleting
  BY Joined
<1>2. Decided(Plan(j, s, closing), j)
  BY Plan3, MildEffects DEF Statuses
<1>3. Shaped(deleting) /\ deleting # << >> /\ Head(deleting).do = "empty"
  <2>1. /\ Do("empty") \in Steps /\ Do("rmdir") \in Steps
        /\ Do("empty").do = "empty" /\ Do("rmdir").do = "rmdir"
    BY DEF Steps, Effects, Do
  <2>2. Mild(Do("receipt")) /\ Mild(Wr("COMPLETE")) /\ Mild(Do("unlink"))
    BY MildEffects DEF Statuses
  <2>. DEFINE a == Do("empty")
              b == Do("rmdir")
              e == Do("receipt")
              f == Wr("COMPLETE")
              g == Do("unlink")
  <2>. HIDE DEF a, b, e, f, g
  <2>3. Shaped(<<a, b, e, f, g>>) /\ <<a, b, e, f, g>> # << >> /\ Head(<<a, b, e, f, g>>) = a
    BY <2>1, <2>2 DEF Shaped, Mild, Plain, a, b, e, f, g
  <2>4. QED
    BY <2>1, <2>3 DEF a, b, e, f, g
<1>4. Judged(j) => Decided(Plan(j, s, deleting), j)
  BY <1>3 DEF Plan, Decided
<1>5. ASSUME Exists(j, "discard"), \E role \in Roles : DiscardBound(j, role),
             IsOld(j, "dest") \/ IsNew(j, "dest")
      PROVE  Judged(j)
  <2>1. j.archive \in Archives /\ j.archive # None /\ j.old # Nothing
    BY ArchivesAssumption, Numbers DEF Journals
  <2>2. Path(j, "dest") = Dest /\ Path(j, "discard") = <<"discard", j.op>>
    BY PathFacts DEF Places
  <2>3. QED
    BY <1>5, <2>1, <2>2 DEF Judged, DiscardBound, Exists, At, IsOld, IsNew
<1>. HIDE DEF closing, deleting
<1>6. QED
  BY <1>1, <1>2, <1>4, <1>5, ReportDecided DEF AtPendingDelete, closing, Roles

LEMMA EveryBlockDecides ==
    ASSUME HomeInv, NEW j \in Journals, NEW s \in Seen, NEW m
    PROVE  Decided(Decision(j, s, m), j)
BY PreparedDecides, OldMovedDecides, NewActiveDecides, RollbackPreparedDecides,
   RollbackNewMovedDecides, RolledBackDecides, PendingDeleteDecides, ReportDecided DEF Decision

-----------------------------------------------------------------------------
\* The home at the destination, when it is a restored one or one that was replaced, is
\* undamaged, and no call is about to delete it: what is deleted lies at a discard.
LEMMA ServedIsSafe ==
    ASSUME HomeInv, torn = {}, NEW j \in Journals, Known(j), fs[Dest] # Nothing,
           fs[Dest] = j.old \/ receipt[fs[Dest]] # None
    PROVE  Safe(fs[Dest]) /\ fs[Dest] \in Homes
<1>1. Dest \in Paths /\ fs[Dest] \in Homes /\ j # NoJournal
  BY PathFacts, TypeParts DEF HomeInv, Paths
<1>2. fs[Dest] \in whole \cup emptied \cup torn
  BY <1>1 DEF HomeInv, DirsFit, Known, KnownIn
<1>3. Dest[1] # "discard"
  BY DEF Dest
<1>4. fs[Dest] \in whole
  BY <1>1, <1>2, <1>3 DEF HomeInv, DirsFit
<1>5. ASSUME NEW d \in Callers, Doomed(d), call[d].data.bound = fs[Dest] PROVE FALSE
  <2>1. call[d].data \in Journals /\ CallFits(d)
    BY <1>5, CallFacts DEF Doomed
  <2>2. <<"discard", call[d].data.op>> \in Paths /\ <<"discard", call[d].data.op>> # Dest
    BY <2>1, PathFacts DEF Spots, Places
  <2>3. fs[<<"discard", call[d].data.op>>] = fs[Dest]
    BY <1>4, <1>5, <2>1 DEF CallFits, Held
  <2>4. QED
    BY <1>1, <2>2, <2>3, Numbers DEF HomeInv, DirsFit, OnePath
<1>6. QED
  BY <1>1, <1>4, <1>5 DEF Safe

LEMMA ReconcileKeeps ==
    ASSUME HomeInv, NEW c \in Callers, Reconcile(c)
    PROVE  HomeInv'
<1>. DEFINE j == call[c].data
            d == Decision(j, call[c].seen, call[c].mode)
            x == [call[c] EXCEPT !.data = d.data, !.seen = d.seen, !.todo = d.todo]
<1>0. /\ call[c] \in CallRecords /\ call[c].at = "reconcile" /\ j \in Journals
      /\ call[c].seen \in Seen /\ CallFits(c)
      /\ UNCHANGED <<fs, born, receipt, whole, deleted, work, journal, stops>>
  BY CallFacts DEF Reconcile
<1>1. call' = [call EXCEPT ![c] = IF d.todo = << >> THEN Idle ELSE x]
  BY DEF Reconcile
<1>2. Decided(d, j) /\ Known(j) /\ j # NoJournal
  BY <1>0, EveryBlockDecides, PathFacts DEF CallFits
<1>. HIDE DEF d
<1>3. CASE d.todo = << >>
  <2>1. call' = [call EXCEPT ![c] = Idle] /\ stops' \in 0..MaxStops
    BY <1>0, <1>1, <1>3, TypeParts DEF HomeInv
  <2>2. QED
    BY <1>0, <2>1, EndsKeeps
<1>4. CASE d.todo # << >>
  <2>1. d.data \in Journals /\ d.seen \in Seen /\ d.todo \in Seq(Steps)
    BY <1>2 DEF Decided, Shaped
  <2>2. /\ x \in CallRecords /\ x.at = "reconcile" /\ x.data = d.data /\ x.todo = d.todo
    BY <1>0, <2>1 DEF CallRecords
  <2>. HIDE DEF x
  <2>3. /\ call' = [call EXCEPT ![c] = x] /\ call'[c] = x
        /\ \A e \in Callers \ {c} : call'[e] = call[e]
    BY <1>1, <1>4, <2>2, OneCall, TypeParts DEF HomeInv
  <2>4. d.data # NoJournal /\ KnownIn(d.data, fs, born, whole \cup emptied \cup torn)
    <3>1. d.data.bound <= born
      BY <1>2 DEF Decided, Known, KnownIn, HomeInv, DirsFit
    <3>2. QED
      BY <1>2, <2>1, <3>1, PathFacts DEF Decided, Known, KnownIn
  <2>5. /\ Shaped(x.todo) /\ ~Awaits(c)' /\ ~Removes(c)'
        /\ Doomed(c)' => d.data = j /\ Judged(j)
    BY <1>2, <2>2, <2>3 DEF Decided, Awaits, Removes, Doomed
  <2>6. Doomed(c)' => Held(c)'
    BY <1>0, <2>2, <2>3, <2>5 DEF Held, Judged
  <2>7. CallFits(c)'
    BY <1>0, <2>2, <2>3, <2>4, <2>5, <2>6 DEF CallFits, Known, deleted
  <2>8. ASSUME NEW e \in Callers \ {c}, Awaits(e)
        PROVE  FreshFor(call[e].data.op, d.data)
    <3>1. FreshFor(call[e].data.op, j) /\ \A p \in Paths : fs[p] # call[e].data.op
      BY <2>8, FreshFacts
    <3>2. QED
      BY <1>2, <3>1 DEF Decided, FreshFor
  <2>9. ASSUME Doomed(c)', torn = {} PROVE \E w \in Homes : Safe(w)'
    <3>1. Judged(j) /\ d.data = j
      BY <2>5, <2>9
    <3>2. Safe(fs[Dest]) /\ fs[Dest] \in Homes
      BY <1>0, <1>2, <2>9, <3>1, ServedIsSafe DEF Judged
    <3>3. j.bound # fs[Dest]
      <4>1. /\ <<"discard", j.op>> \in Paths /\ <<"discard", j.op>> # Dest /\ Dest \in Paths
        BY <1>0, PathFacts DEF Spots, Places, Paths
      <4>2. QED
        BY <3>1, <4>1 DEF Judged, HomeInv, DirsFit, OnePath
    <3>4. ASSUME NEW e \in Callers, Doomed(e)' PROVE call'[e].data.bound # fs[Dest]
      <4>1. CASE e = c
        BY <2>2, <2>3, <3>1, <3>3, <4>1
      <4>2. CASE e # c
        BY <2>3, <3>2, <3>4, <4>2 DEF Doomed, Safe
      <4>3. QED
        BY <4>1, <4>2
    <3>5. PICK w \in Homes : w = fs[Dest]
      BY <3>2
    <3>6. Safe(w)'
      BY <1>0, <3>2, <3>4, <3>5 DEF Safe
    <3>7. QED
      BY <3>6
  <2>10. /\ born' \in Homes /\ born' >= born /\ stops' \in 0..MaxStops
         /\ journal' \in Journals \cup {NoJournal}
         /\ KnownIn(journal', fs, born', whole \cup emptied \cup torn)
    BY <1>0, Numbers, TypeParts DEF HomeInv, Known
  <2>11. \A e \in Callers \ {c} : Awaits(e) =>
           FreshFor(call[e].data.op, journal') /\ FreshFor(call[e].data.op, x.data)
    BY <1>0, <2>2, <2>8, FreshFacts
  <2>12. QED
    BY <1>0, <2>2, <2>3, <2>7, <2>9, <2>10, <2>11, QuietStep
<1>5. QED
  BY <1>3, <1>4

\* A replacement begins: it takes the next number for the home it will restore.
LEMMA ReplaceStartKeeps ==
    ASSUME HomeInv, NEW c \in Callers, NEW a \in Archives, ReplaceStart(c, a)
    PROVE  HomeInv'
<1>. DEFINE j == [op |-> born + 1, status |-> "PREPARED", old |-> fs[Dest],
                  archive |-> a, role |-> None, bound |-> Nothing]
            todo == <<Do("restore"), Wr("PREPARED"), Ren("dest", "rollback"), Wr("OLD_MOVED"),
                      Ren("prepared", "dest"), Wr("NEW_ACTIVE")>>
            x == [at |-> "replace", mode |-> "observe", seen |-> Blind, data |-> j, todo |-> todo]
<1>1. /\ journal = NoJournal /\ born < MaxHomes /\ fs[Dest] # Nothing /\ fs[Dest] \in whole
      /\ call' = [call EXCEPT ![c] = x] /\ born' = born + 1
      /\ UNCHANGED <<fs, receipt, whole, deleted, work, journal, stops>>
  BY DEF ReplaceStart
<1>2. /\ born \in Nat /\ born' \in Homes /\ born' >= born /\ born' > born
      /\ fs[Dest] \in Homes /\ fs[Dest] <= born /\ fs[Dest] \in Nat
  BY <1>1, Numbers, BoundsAssumption, TypeParts DEF HomeInv, DirsFit, Homes, Paths
<1>3. j \in Journals /\ j.op = born' /\ j.old = fs[Dest] /\ j.bound = Nothing
  BY <1>1, <1>2 DEF Journals, Statuses, Roles
<1>4. Shaped(todo) /\ todo # << >> /\ Head(todo).do = "restore"
  <2>1. Do("restore") \in Steps /\ Do("restore").do = "restore"
    BY DEF Steps, Effects, Do
  <2>2. /\ Mild(Wr("PREPARED")) /\ Mild(Wr("OLD_MOVED")) /\ Mild(Wr("NEW_ACTIVE"))
        /\ Mild(Ren("dest", "rollback")) /\ Mild(Ren("prepared", "dest"))
    BY MildEffects DEF Statuses
  <2>. DEFINE b1 == Do("restore")
              b2 == Wr("PREPARED")
              b3 == Ren("dest", "rollback")
              b4 == Wr("OLD_MOVED")
              b5 == Ren("prepared", "dest")
              b6 == Wr("NEW_ACTIVE")
  <2>3. Plain(b1) /\ b1 \in Steps /\ Mild(b2) /\ Mild(b3) /\ Mild(b4) /\ Mild(b5) /\ Mild(b6)
    BY <2>1, <2>2 DEF Plain
  <2>. HIDE DEF b1, b2, b3, b4, b5, b6
  <2>4. /\ Shaped(<<b1, b2, b3, b4, b5, b6>>) /\ <<b1, b2, b3, b4, b5, b6>> # << >>
        /\ Head(<<b1, b2, b3, b4, b5, b6>>) = b1
    BY <2>3 DEF Shaped, Mild
  <2>5. QED
    BY <2>1, <2>4 DEF b1, b2, b3, b4, b5, b6
<1>. HIDE DEF j, todo
<1>5. /\ x \in CallRecords /\ x.at = "replace" /\ x.data = j /\ x.todo = todo
  BY <1>3, <1>4 DEF CallRecords, Modes, Seen, Blind, Shaped
<1>. HIDE DEF x
<1>6. call'[c] = x /\ \A d \in Callers \ {c} : call'[d] = call[d]
  BY <1>1, <1>5, OneCall, TypeParts DEF HomeInv
<1>7. j # NoJournal /\ KnownIn(j, fs, born', whole \cup emptied \cup torn)
  BY <1>1, <1>2, <1>3, PathFacts, Numbers DEF KnownIn, Nothing
<1>8. \A i \in Journals \cup {NoJournal} : Known(i) => FreshFor(born', i)
  <2>1. ASSUME NEW i \in Journals, Known(i) PROVE FreshFor(born', i)
    <3>1. i # NoJournal /\ i.op \in Nat /\ i.bound \in Nat
      BY PathFacts, Numbers DEF Nothing
    <3>2. QED
      BY <1>2, <2>1, <3>1 DEF Known, KnownIn, FreshFor
  <2>2. FreshFor(born', NoJournal)
    BY <1>2, Numbers DEF FreshFor, NoJournal
  <2>3. QED
    BY <2>1, <2>2
<1>9. Fresh(c)'
  <2>1. born' \notin whole \cup emptied \cup torn /\ \A p \in Paths : fs[p] # born'
    <3>1. /\ \A h \in whole \cup emptied \cup torn : h \in Nat /\ h <= born
          /\ \A p \in Paths : fs[p] \in Nat /\ fs[p] <= born
      BY Numbers, TypeParts DEF HomeInv, DirsFit, Nothing
    <3>2. QED
      BY <1>2, <3>1
  <2>2. FreshFor(born', journal)
    BY <1>8, TypeParts DEF HomeInv
  <2>3. \A d \in Callers \ {c} : FreshFor(born', call[d].data)
    BY <1>8, CallFacts DEF CallFits
  <2>4. QED
    BY <1>1, <1>3, <1>5, <1>6, <2>1, <2>2, <2>3 DEF Fresh, FreshIn, deleted
<1>10. ~Doomed(c)' /\ ~Removes(c)'
  BY <1>4, <1>5, <1>6 DEF Doomed, Removes
<1>11. CallFits(c)'
  BY <1>1, <1>4, <1>5, <1>6, <1>7, <1>9, <1>10 DEF CallFits, Known, deleted
<1>12. ASSUME NEW d \in Callers \ {c}, Awaits(d)
       PROVE  FreshFor(call[d].data.op, journal') /\ FreshFor(call[d].data.op, j)
  <2>1. /\ FreshFor(call[d].data.op, journal) /\ call[d].data.op \in Homes
        /\ call[d].data.op <= born
    BY <1>12, FreshFacts
  <2>2. j.op # call[d].data.op /\ j.bound # call[d].data.op
    BY <1>2, <1>3, <2>1, Numbers
  <2>3. QED
    BY <1>1, <2>1, <2>2 DEF FreshFor
<1>13. KnownIn(journal', fs, born', whole \cup emptied \cup torn) /\ stops' \in 0..MaxStops
       /\ journal' \in Journals \cup {NoJournal}
  BY <1>1, TypeParts DEF HomeInv, KnownIn
<1>14. QED
  BY <1>1, <1>2, <1>5, <1>10, <1>11, <1>12, <1>13, QuietStep

-----------------------------------------------------------------------------
\* Steps that change the directories.

LEMMA DirStep ==
    ASSUME HomeInv, Onward, DirsFit',
           fs' \in [Paths -> Homes \cup {Nothing}], receipt' \in [Homes -> Archives \cup {None}],
           whole' \subseteq Homes, emptied' \subseteq Homes, bare' \subseteq emptied',
           torn' \subseteq Homes, work' = work, journal' = journal,
           stops' \in 0..MaxStops, call' \in [Callers -> CallRecords],
           \A d \in Callers : \/ call'[d] = call[d]
                              \/ /\ CallFits(d)' /\ ~Doomed(d)'
                                 /\ call'[d].data \in {call[d].data, NoJournal},
           \A d \in Callers : Doomed(d) /\ call[d].data.bound \in whole' =>
               call'[d] # call[d] \/ fs'[<<"discard", call[d].data.op>>] = call[d].data.bound,
           \A d \in Callers : Awaits(d) =>
               call'[d] # call[d] \/ FreshIn(call[d].data.op, fs', whole' \cup emptied' \cup torn'),
           torn' = {} => \E w \in Homes : Safe(w) /\ w \in whole'
    PROVE  HomeInv'
<1>1. TypeOK'
  BY TypeParts DEF HomeInv, TypeOK, CallRecords, Onward
<1>2. Known(journal)'
  BY KnownStays, TypeParts DEF HomeInv, Known
<1>3. ASSUME NEW d \in Callers PROVE CallFits(d)'
  <2>1. CASE call'[d] = call[d]
    <3>1. Doomed(d) => Held(d)'
      BY <2>1 DEF Held
    <3>2. ASSUME Awaits(d) PROVE Fresh(d)'
      <4>1. FreshIn(call[d].data.op, fs', whole' \cup emptied' \cup torn')
        BY <2>1, <3>2
      <4>2. ASSUME NEW e \in Callers \ {d} PROVE FreshFor(call[d].data.op, call'[e].data)
        BY <3>2, FreshFacts
      <4>3. FreshFor(call[d].data.op, journal)
        BY <3>2, FreshFacts
      <4>4. QED
        BY <2>1, <4>1, <4>2, <4>3 DEF Fresh
    <3>3. QED
      BY <2>1, <3>1, <3>2, OtherFits
  <2>2. QED
    BY <2>1
<1>4. ASSUME torn' = {} PROVE \E w \in Homes : Safe(w)'
  <2>1. PICK w \in Homes : Safe(w) /\ w \in whole'
    BY <1>4
  <2>2. ASSUME NEW d \in Callers, Doomed(d)' PROVE call'[d].data.bound # w
    <3>1. call'[d] = call[d] /\ Doomed(d)
      BY <2>2 DEF Doomed
    <3>2. QED
      BY <2>1, <3>1 DEF Safe
  <2>3. Safe(w)'
    BY <2>1, <2>2 DEF Safe
  <2>4. QED
    BY <2>3
<1>5. QED
  BY <1>1, <1>2, <1>3, <1>4 DEF HomeInv

LEMMA DoneCall ==
    ASSUME HomeInv, Onward, NEW c \in Callers, call[c].todo # << >>, call' = Done1(c),
           Doomed(c) => call[c].data.bound \in emptied'
    PROVE  /\ call' \in [Callers -> CallRecords]
           /\ \A d \in Callers \ {c} : call'[d] = call[d]
           /\ CallFits(c)' /\ ~Doomed(c)' /\ call'[c].data = call[c].data
           /\ call'[c] # call[c]
<1>. DEFINE x == [call[c] EXCEPT !.todo = Tail(@)]
<1>1. call[c] \in CallRecords /\ call[c].data \in Journals /\ CallFits(c)
  BY CallFacts
<1>2. Tail(call[c].todo) \in Seq(Steps) /\ call[c].todo \in Seq(Steps)
  BY <1>1, TailShaped DEF CallFits, Shaped
<1>3. call' = [call EXCEPT ![c] = x]
  BY DEF Done1
<1>4. /\ x \in CallRecords /\ x.at = call[c].at /\ x.data = call[c].data
      /\ x.todo = Tail(call[c].todo)
  BY <1>1, <1>2 DEF CallRecords
<1>5. Tail(call[c].todo) # call[c].todo
  <2>. DEFINE t == call[c].todo
              n == Len(t)
  <2>1. t \in Seq(Steps) /\ t # << >> /\ n \in Nat
    BY <1>2
  <2>2. Len(Tail(t)) = n - 1
    BY <2>1
  <2>. HIDE DEF t
  <2>3. ASSUME Tail(t) = t PROVE FALSE
    <3>1. n = n - 1
      BY <2>2, <2>3
    <3>. HIDE DEF n
    <3>2. QED
      BY <2>1, <3>1
  <2>4. QED
    BY <2>3 DEF t
<1>. HIDE DEF x
<1>6. /\ call' \in [Callers -> CallRecords] /\ call'[c] = x
      /\ \A d \in Callers \ {c} : call'[d] = call[d]
  BY <1>3, <1>4, OneCall, TypeParts DEF HomeInv
<1>7. call[c].data # NoJournal /\ KnownIn(call[c].data, fs', born', whole' \cup emptied' \cup torn')
  BY <1>1, PathFacts, KnownStays DEF CallFits
<1>8. CallFits(c)' /\ ~Doomed(c)'
  BY <1>4, <1>6, <1>7, DoneFits
<1>9. QED
  BY <1>4, <1>5, <1>6, <1>8

LEMMA EndedCall ==
    ASSUME HomeInv, NEW c \in Callers, call[c].at # "idle", call' = [call EXCEPT ![c] = Idle]
    PROVE  /\ call' \in [Callers -> CallRecords]
           /\ \A d \in Callers \ {c} : call'[d] = call[d]
           /\ CallFits(c)' /\ ~Doomed(c)' /\ call'[c].data = NoJournal
           /\ call'[c] # call[c]
<1>1. /\ call' \in [Callers -> CallRecords] /\ call'[c] = Idle
      /\ \A d \in Callers \ {c} : call'[d] = call[d]
  BY IdleRecord, OneCall, TypeParts DEF HomeInv
<1>2. CallFits(c)' /\ ~Doomed(c)'
  BY <1>1, IdleFits
<1>3. QED
  BY <1>1, <1>2 DEF Idle

\* The directories as the invariant knows them.
LEMMA DirFacts ==
    ASSUME HomeInv
    PROVE  /\ fs \in [Paths -> Homes \cup {Nothing}] /\ receipt \in [Homes -> Archives \cup {None}]
           /\ whole \subseteq Homes /\ emptied \subseteq Homes /\ torn \subseteq Homes
           /\ bare \subseteq emptied
           /\ born \in Homes /\ born \in Nat /\ stops \in 0..MaxStops
           /\ \A p \in Paths : fs[p] \in Homes \cup {Nothing} /\ fs[p] \in Nat
           /\ \A h \in Homes : h \in Nat /\ h # Nothing
           /\ Nothing \notin whole /\ Nothing \notin emptied /\ Nothing \notin torn
BY Numbers, TypeParts DEF HomeInv, Nothing

\* What doomed calls and calls that wait for their home say of the directories.
LEMMA OthersKnow ==
    ASSUME HomeInv, NEW d \in Callers
    PROVE  /\ Doomed(d) /\ call[d].data.bound \in whole =>
                 /\ <<"discard", call[d].data.op>> \in Paths
                 /\ fs[<<"discard", call[d].data.op>>] = call[d].data.bound
           /\ Doomed(d) \/ Removes(d) => call[d].data \in Journals
           /\ Awaits(d) => FreshIn(call[d].data.op, fs, whole \cup emptied \cup torn)
<1>1. CallFits(d) /\ (call[d].todo # << >> => call[d].data \in Journals)
  BY CallFacts
<1>2. call[d].data \in Journals => <<"discard", call[d].data.op>> \in Paths
  BY PathFacts DEF Spots, Places
<1>3. QED
  BY <1>1, <1>2 DEF CallFits, Held, Fresh, Doomed, Removes

LEMMA RestoreKeeps ==
    ASSUME HomeInv, NEW c \in Callers, Restore(c)
    PROVE  HomeInv'
<1>. DEFINE k == call[c].data.op
            P == <<"prepared", k>>
<1>1. Awaits(c) /\ call[c].todo # << >> /\ ~Doomed(c)
  BY DEF Restore, Next1, Awaits, Doomed
<1>2. /\ call[c].data \in Journals /\ k \in Homes /\ k <= born /\ \A p \in Paths : fs[p] # k
      /\ k \notin whole \cup emptied \cup torn /\ P \in Paths /\ Path(call[c].data, "prepared") = P
      /\ call[c].data.archive \in Archives
  BY <1>1, FreshFacts, OthersKnow, PathFacts DEF FreshIn, Spots, Places, Journals
<1>3. /\ fs' = [fs EXCEPT ![P] = k] /\ receipt' = [receipt EXCEPT ![k] = call[c].data.archive]
      /\ whole' = whole \cup {k} /\ call' = Done1(c)
      /\ UNCHANGED <<born, emptied, bare, torn, work, journal, stops>>
  BY <1>2 DEF Restore, deleted
<1>4. \A d \in Callers \ {c} : FreshFor(k, call[d].data)
  BY <1>1, FreshFacts
<1>5. ASSUME NEW d \in Callers \ {c}, Awaits(d) PROVE call[d].data.op # k
  <2>1. FreshFor(call[d].data.op, call[c].data)
    BY <1>5, FreshFacts
  <2>2. QED
    BY <2>1 DEF FreshFor
<1>. HIDE DEF k
<1>6. fs[P] = Nothing
  BY <1>2 DEF HomeInv, DirsFit
<1>7. fs'[P] = k /\ \A p \in Paths : p # P => fs'[p] = fs[p]
  BY <1>2, <1>3, DirFacts
<1>8. Onward
  BY <1>2, <1>3, <1>7, DirFacts DEF Onward
<1>9. DirsFit'
  <2>1. OnePath'
    BY <1>2, <1>7 DEF HomeInv, DirsFit, OnePath
  <2>2. \A h \in whole' : h <= born' /\ \E p \in Paths : fs'[p] = h
    <3>1. ASSUME NEW h \in whole PROVE h <= born /\ \E p \in Paths : fs'[p] = h
      BY <1>6, <1>7, DirFacts DEF HomeInv, DirsFit
    <3>2. QED
      BY <1>2, <1>3, <1>7, <3>1
  <2>3. \A h \in emptied' \cup torn' : h <= born' /\ h \notin whole'
    BY <1>2, <1>3 DEF HomeInv, DirsFit
  <2>4. \A p \in Paths : fs'[p] <= born' /\ (fs'[p] \in emptied' => p[1] = "discard")
    BY <1>2, <1>3, <1>7 DEF HomeInv, DirsFit
  <2>5. \A p \in Paths : fs'[p] # Nothing /\ receipt'[fs'[p]] # None
                         => fs'[p] \in whole' \cup emptied' \cup torn'
    BY <1>2, <1>3, <1>7, DirFacts DEF HomeInv, DirsFit
  <2>6. \A h \in Homes : h > born' => receipt'[h] = None
    BY <1>2, <1>3, DirFacts DEF HomeInv, DirsFit
  <2>7. \A i \in Homes : fs'[<<"prepared", i>>] \in {Nothing, i}
    <3>1. ASSUME NEW i \in Homes PROVE fs'[<<"prepared", i>>] \in {Nothing, i}
      <4>1. <<"prepared", i>> \in Paths /\ (<<"prepared", i>> = P => i = k)
        BY DEF Paths, Places
      <4>2. QED
        BY <1>7, <4>1 DEF HomeInv, DirsFit
    <3>2. QED
      BY <3>1
  <2>8. QED
    BY <2>1, <2>2, <2>3, <2>4, <2>5, <2>6, <2>7 DEF DirsFit
<1>10. /\ call' \in [Callers -> CallRecords] /\ \A d \in Callers \ {c} : call'[d] = call[d]
       /\ CallFits(c)' /\ ~Doomed(c)' /\ call'[c].data = call[c].data /\ call'[c] # call[c]
  BY <1>1, <1>3, <1>8, DoneCall
<1>11. ASSUME NEW d \in Callers \ {c}, Doomed(d), call[d].data.bound \in whole'
       PROVE  fs'[<<"discard", call[d].data.op>>] = call[d].data.bound
  <2>1. call[d].data.bound # k
    BY <1>4, <1>11, OthersKnow, PathFacts DEF FreshFor
  <2>2. call[d].data.bound \in whole /\ <<"discard", call[d].data.op>> # P
    BY <1>3, <1>11, <2>1
  <2>3. QED
    BY <1>7, <1>11, <2>2, OthersKnow
<1>12. ASSUME NEW d \in Callers \ {c}, Awaits(d)
       PROVE  FreshIn(call[d].data.op, fs', whole' \cup emptied' \cup torn')
  <2>1. call[d].data.op # k /\ FreshIn(call[d].data.op, fs, whole \cup emptied \cup torn)
    BY <1>5, <1>12, OthersKnow
  <2>2. QED
    BY <1>3, <1>7, <2>1 DEF FreshIn
<1>13. torn' = {} => \E w \in Homes : Safe(w) /\ w \in whole'
  BY <1>3 DEF HomeInv, Safe
<1>14. whole' \subseteq Homes
  BY <1>2, <1>3, DirFacts
<1>15. /\ fs' \in [Paths -> Homes \cup {Nothing}] /\ receipt' \in [Homes -> Archives \cup {None}]
  BY <1>2, <1>3, DirFacts
<1>16. QED
  BY <1>3, <1>8, <1>9, <1>10, <1>11, <1>12, <1>13, <1>14, <1>15, DirFacts, DirStep

\* A rename moves one directory, onto nothing or onto an emptied one.
LEMMA RenameKeeps ==
    ASSUME HomeInv, NEW c \in Callers, Rename(c)
    PROVE  HomeInv'
<1>. DEFINE j == call[c].data
            A == Path(j, Head(call[c].todo).from)
            B == Path(j, Head(call[c].todo).to)
<1>1. /\ call[c].todo # << >> /\ Head(call[c].todo).do = "rename"
      /\ fs[A] # Nothing /\ (fs[B] = Nothing \/ fs[B] \in emptied)
      /\ fs' = [fs EXCEPT ![B] = fs[A], ![A] = Nothing] /\ call' = Done1(c)
      /\ UNCHANGED <<born, receipt, whole, emptied, bare, torn, work, journal, stops>>
  BY DirFacts DEF Rename, Next1, Vacant, Exists, At, deleted
<1>2. j \in Journals /\ CallFits(c) /\ ~Doomed(c)
  BY <1>1, CallFacts DEF Doomed
<1>3. /\ A \in Paths /\ B \in Paths /\ A # B /\ A[1] # "discard" /\ B[1] # "prepared"
  <2>1. /\ Head(call[c].todo).from \in {"dest", "prepared", "rollback", "failed"}
        /\ Head(call[c].todo).to \in {"dest", "rollback", "discard", "failed"}
        /\ Head(call[c].todo).from # Head(call[c].todo).to
    BY <1>1, <1>2, TailShaped DEF CallFits, Plain
  <2>2. /\ Head(call[c].todo).from \in Spots /\ Head(call[c].todo).to \in Spots
    BY <2>1 DEF Spots, Places
  <2>3. A \in Paths /\ B \in Paths /\ A # B
    BY <1>2, <2>1, <2>2, PathFacts
  <2>4. A[1] = Head(call[c].todo).from /\ B[1] = Head(call[c].todo).to
    BY DEF Path, Dest
  <2>5. QED
    BY <2>1, <2>3, <2>4
<1>. HIDE DEF A, B
<1>4. /\ fs'[B] = fs[A] /\ fs'[A] = Nothing
      /\ \A p \in Paths : p # A /\ p # B => fs'[p] = fs[p]
  BY <1>1, <1>3, DirFacts
<1>5. /\ fs' \in [Paths -> Homes \cup {Nothing}] /\ receipt' \in [Homes -> Archives \cup {None}]
  BY <1>1, <1>3, DirFacts
<1>6. Onward
  BY <1>1, <1>3, <1>4, DirFacts DEF Onward, Nothing
<1>7. DirsFit'
  <2>1. OnePath'
    BY <1>3, <1>4 DEF HomeInv, DirsFit, OnePath
  <2>2. \A h \in whole' : h <= born' /\ \E p \in Paths : fs'[p] = h
    <3>1. ASSUME NEW h \in whole PROVE h <= born /\ \E p \in Paths : fs'[p] = h
      <4>1. PICK p \in Paths : fs[p] = h
        BY DEF HomeInv, DirsFit
      <4>2. p # B
        BY <1>1, <4>1, DirFacts DEF HomeInv, DirsFit
      <4>3. h <= born
        BY DEF HomeInv, DirsFit
      <4>4. QED
        BY <1>3, <1>4, <4>1, <4>2, <4>3
    <3>2. QED
      BY <1>1, <3>1
  <2>3. \A h \in emptied' \cup torn' : h <= born' /\ h \notin whole'
    BY <1>1 DEF HomeInv, DirsFit
  <2>4. \A p \in Paths : fs'[p] <= born' /\ (fs'[p] \in emptied' => p[1] = "discard")
    <3>1. ASSUME NEW p \in Paths
          PROVE  fs'[p] <= born /\ (fs'[p] \in emptied => p[1] = "discard")
      <4>1. CASE p = A
        BY <1>4, <4>1, DirFacts DEF Nothing
      <4>2. CASE p = B
        BY <1>3, <1>4, <4>2 DEF HomeInv, DirsFit
      <4>3. CASE p # A /\ p # B
        BY <1>4, <4>3 DEF HomeInv, DirsFit
      <4>4. QED
        BY <4>1, <4>2, <4>3
    <3>2. QED
      BY <1>1, <3>1
  <2>5. \A p \in Paths : fs'[p] # Nothing /\ receipt'[fs'[p]] # None
                         => fs'[p] \in whole' \cup emptied' \cup torn'
    <3>1. ASSUME NEW p \in Paths, fs'[p] # Nothing PROVE \E q \in Paths : fs'[p] = fs[q]
      <4>1. p # A
        BY <1>4, <3>1
      <4>2. QED
        BY <1>3, <1>4, <4>1
    <3>2. ASSUME NEW p \in Paths, fs'[p] # Nothing, receipt'[fs'[p]] # None
          PROVE  fs'[p] \in whole' \cup emptied' \cup torn'
      <4>1. PICK q \in Paths : fs'[p] = fs[q]
        BY <3>1, <3>2
      <4>2. fs[q] # Nothing /\ receipt[fs[q]] # None => fs[q] \in whole \cup emptied \cup torn
        BY DEF HomeInv, DirsFit
      <4>3. QED
        BY <1>1, <3>2, <4>1, <4>2
    <3>3. QED
      BY <3>2
  <2>6. \A h \in Homes : h > born' => receipt'[h] = None
    BY <1>1 DEF HomeInv, DirsFit
  <2>7. \A i \in Homes : fs'[<<"prepared", i>>] \in {Nothing, i}
    <3>1. ASSUME NEW i \in Homes PROVE fs'[<<"prepared", i>>] \in {Nothing, i}
      <4>1. <<"prepared", i>> \in Paths /\ <<"prepared", i>> # B
        BY <1>3 DEF Paths, Places
      <4>2. QED
        BY <1>4, <4>1 DEF HomeInv, DirsFit
    <3>2. QED
      BY <3>1
  <2>8. QED
    BY <2>1, <2>2, <2>3, <2>4, <2>5, <2>6, <2>7 DEF DirsFit
<1>8. /\ call' \in [Callers -> CallRecords] /\ \A d \in Callers \ {c} : call'[d] = call[d]
      /\ CallFits(c)' /\ ~Doomed(c)' /\ call'[c].data = call[c].data /\ call'[c] # call[c]
  BY <1>1, <1>2, <1>6, DoneCall
<1>9. ASSUME NEW d \in Callers \ {c}, Doomed(d), call[d].data.bound \in whole'
      PROVE  fs'[<<"discard", call[d].data.op>>] = call[d].data.bound
  <2>. DEFINE D == <<"discard", call[d].data.op>>
  <2>1. D \in Paths /\ fs[D] = call[d].data.bound /\ D[1] = "discard"
    BY <1>1, <1>9, OthersKnow
  <2>2. D # B
    BY <1>1, <1>9, <2>1, DirFacts DEF HomeInv, DirsFit
  <2>3. QED
    BY <1>3, <1>4, <2>1, <2>2
<1>10. ASSUME NEW d \in Callers \ {c}, Awaits(d)
       PROVE  FreshIn(call[d].data.op, fs', whole' \cup emptied' \cup torn')
  <2>1. FreshIn(call[d].data.op, fs, whole \cup emptied \cup torn) /\ call[d].data.op # Nothing
    BY <1>10, OthersKnow, FreshFacts, Numbers
  <2>2. QED
    BY <1>1, <1>3, <1>4, <2>1 DEF FreshIn
<1>11. torn' = {} => \E w \in Homes : Safe(w) /\ w \in whole'
  BY <1>1 DEF HomeInv, Safe
<1>12. /\ whole' \subseteq Homes /\ emptied' \subseteq Homes /\ stops' \in 0..MaxStops
       /\ bare' \subseteq emptied' /\ torn' \subseteq Homes
  BY <1>1, DirFacts
<1>13. QED
  BY <1>1, <1>5, <1>6, <1>7, <1>8, <1>9, <1>10, <1>11, <1>12, DirStep

\* A finalize empties the directory it bound, or some of it; that directory is not the
\* home that is safe.
LEMMA EmptyKeeps ==
    ASSUME HomeInv, NEW c \in Callers, Empty(c) \/ EmptyCutShort(c)
    PROVE  HomeInv'
<1>. DEFINE j == call[c].data
            b == j.bound
            D == <<"discard", j.op>>
<1>1. call[c].todo # << >> /\ Doomed(c) /\ j \in Journals
  BY CallFacts DEF Empty, EmptyCutShort, Next1, Doomed
<1>2. D \in Paths /\ Path(j, "discard") = D /\ D[1] = "discard"
  BY <1>1, PathFacts DEF Spots, Places
<1>3. /\ fs[D] = b /\ b # Nothing
      /\ whole' = whole \ {b} /\ emptied' = emptied \cup {b} /\ bare' \in {bare, bare \cup {b}}
      /\ call' \in {Done1(c), [call EXCEPT ![c] = Idle]}
      /\ UNCHANGED <<fs, born, receipt, torn, work, journal>>
  BY <1>2 DEF Empty, EmptyCutShort, DiscardBound, Exists, At
<1>20. stops' \in 0..MaxStops
  BY DirFacts, BoundsAssumption DEF Empty, EmptyCutShort
<1>. HIDE DEF j, b, D
<1>4. b \in Homes /\ b <= born
  BY <1>2, <1>3, DirFacts DEF HomeInv, DirsFit
<1>5. Onward
  BY <1>2, <1>3, <1>4, DirFacts DEF Onward
<1>6. DirsFit'
  <2>1. OnePath' /\ \A i \in Homes : fs'[<<"prepared", i>>] \in {Nothing, i}
    BY <1>3 DEF HomeInv, DirsFit, OnePath
  <2>2. \A h \in whole' : h <= born' /\ \E p \in Paths : fs'[p] = h
    BY <1>3 DEF HomeInv, DirsFit
  <2>3. \A h \in emptied' \cup torn' : h <= born' /\ h \notin whole'
    BY <1>3, <1>4 DEF HomeInv, DirsFit
  <2>4. ASSUME NEW p \in Paths, fs[p] \in emptied' PROVE p[1] = "discard"
    <3>1. CASE fs[p] = b
      BY <1>2, <1>3, <3>1 DEF HomeInv, DirsFit, OnePath
    <3>2. CASE fs[p] # b
      BY <1>3, <2>4, <3>2 DEF HomeInv, DirsFit
    <3>3. QED
      BY <3>1, <3>2
  <2>5. \A p \in Paths : fs'[p] <= born' /\ (fs'[p] \in emptied' => p[1] = "discard")
    BY <1>3, <2>4 DEF HomeInv, DirsFit
  <2>6. \A p \in Paths : fs'[p] # Nothing /\ receipt'[fs'[p]] # None
                         => fs'[p] \in whole' \cup emptied' \cup torn'
    BY <1>3 DEF HomeInv, DirsFit
  <2>7. \A h \in Homes : h > born' => receipt'[h] = None
    BY <1>3 DEF HomeInv, DirsFit
  <2>8. QED
    BY <2>1, <2>2, <2>3, <2>5, <2>6, <2>7 DEF DirsFit
<1>7. call[c].data.bound \in emptied'
  BY <1>3 DEF b, j
<1>8. /\ call' \in [Callers -> CallRecords] /\ \A d \in Callers \ {c} : call'[d] = call[d]
      /\ CallFits(c)' /\ ~Doomed(c)' /\ call'[c].data \in {call[c].data, NoJournal}
      /\ call'[c] # call[c]
  <2>1. call[c].at # "idle"
    BY <1>1, CallFacts DEF CallFits
  <2>2. CASE call' = Done1(c)
    BY <1>1, <1>5, <1>7, <2>2, DoneCall
  <2>3. CASE call' = [call EXCEPT ![c] = Idle]
    BY <2>1, <2>3, EndedCall
  <2>4. QED
    BY <1>3, <2>2, <2>3
<1>9. ASSUME NEW d \in Callers \ {c}, Doomed(d), call[d].data.bound \in whole'
      PROVE  fs'[<<"discard", call[d].data.op>>] = call[d].data.bound
  BY <1>3, <1>9, OthersKnow
<1>10. ASSUME NEW d \in Callers \ {c}, Awaits(d)
       PROVE  FreshIn(call[d].data.op, fs', whole' \cup emptied' \cup torn')
  BY <1>2, <1>3, <1>10, OthersKnow DEF FreshIn
<1>12. ASSUME torn' = {} PROVE \E w \in Homes : Safe(w) /\ w \in whole'
  <2>1. PICK w \in Homes : Safe(w)
    BY <1>3, <1>12 DEF HomeInv
  <2>2. w \in whole'
    BY <1>1, <1>3, <2>1 DEF Safe, b, j
  <2>3. QED
    BY <2>1, <2>2
<1>13. /\ whole' \subseteq Homes /\ emptied' \subseteq Homes
       /\ bare' \subseteq emptied' /\ torn' \subseteq Homes
       /\ fs' \in [Paths -> Homes \cup {Nothing}] /\ receipt' \in [Homes -> Archives \cup {None}]
  BY <1>3, <1>4, DirFacts
<1>14. QED
  BY <1>3, <1>20, <1>5, <1>6, <1>8, <1>9, <1>10, <1>12, <1>13, DirStep

\* A directory that is not, or no longer, an undamaged home goes.
LEMMA FewerDirs ==
    ASSUME HomeInv, NEW D \in Paths, fs'[D] = Nothing,
           \A p \in Paths : p # D => fs'[p] = fs[p],
           whole' = whole \ {fs[D]}, UNCHANGED <<born, receipt, deleted>>
    PROVE  DirsFit'
<1>0. UNCHANGED <<emptied, bare, torn>>
  BY DEF deleted
<1>1. OnePath'
  BY DEF HomeInv, DirsFit, OnePath
<1>2. \A h \in whole' : h <= born' /\ \E p \in Paths : fs'[p] = h
  BY DEF HomeInv, DirsFit
<1>3. \A h \in emptied' \cup torn' : h <= born' /\ h \notin whole'
  BY <1>0 DEF HomeInv, DirsFit
<1>4. ASSUME NEW p \in Paths
      PROVE  fs'[p] <= born /\ (fs'[p] \in emptied => p[1] = "discard")
  <2>1. CASE p = D
    BY <2>1, DirFacts DEF Nothing
  <2>2. CASE p # D
    BY <2>2 DEF HomeInv, DirsFit
  <2>3. QED
    BY <2>1, <2>2
<1>5. ASSUME NEW p \in Paths, fs'[p] # Nothing, receipt[fs'[p]] # None
      PROVE  fs'[p] \in whole' \cup emptied \cup torn
  <2>1. p # D /\ fs'[p] = fs[p]
    BY <1>5
  <2>2. fs[p] # fs[D]
    BY <1>5, <2>1 DEF HomeInv, DirsFit, OnePath
  <2>3. QED
    BY <1>5, <2>1, <2>2 DEF HomeInv, DirsFit
<1>6. \A h \in Homes : h > born' => receipt'[h] = None
  BY DEF HomeInv, DirsFit
<1>7. \A i \in Homes : fs'[<<"prepared", i>>] \in {Nothing, i}
  <2>1. ASSUME NEW i \in Homes PROVE fs'[<<"prepared", i>>] \in {Nothing, i}
    <3>1. <<"prepared", i>> \in Paths
      BY DEF Paths, Places
    <3>2. QED
      BY <3>1 DEF HomeInv, DirsFit
  <2>2. QED
    BY <2>1
<1>8. QED
  BY <1>0, <1>1, <1>2, <1>3, <1>4, <1>5, <1>6, <1>7 DEF DirsFit

\* ... and removes it: what it held was deleted before.
LEMMA RemoveRootKeeps ==
    ASSUME HomeInv, NEW c \in Callers, RemoveRoot(c)
    PROVE  HomeInv'
<1>. DEFINE j == call[c].data
            D == <<"discard", j.op>>
<1>1. call[c].todo # << >> /\ Removes(c) /\ ~Doomed(c) /\ j \in Journals /\ CallFits(c)
  BY CallFacts DEF RemoveRoot, Next1, Removes, Doomed
<1>2. D \in Paths /\ Path(j, "discard") = D
  BY <1>1, PathFacts DEF Spots, Places
<1>3. /\ fs[D] \in emptied /\ fs' = [fs EXCEPT ![D] = Nothing] /\ call' = Done1(c)
      /\ UNCHANGED <<born, receipt, whole, deleted, work, journal, stops>>
  BY <1>1, <1>2 DEF RemoveRoot, DiscardBound, Exists, At, CallFits
<1>. HIDE DEF j, D
<1>0. UNCHANGED <<emptied, bare, torn>>
  BY <1>3 DEF deleted
<1>4. fs'[D] = Nothing /\ \A p \in Paths : p # D => fs'[p] = fs[p]
  BY <1>2, <1>3, DirFacts
<1>5. /\ fs' \in [Paths -> Homes \cup {Nothing}] /\ receipt' \in [Homes -> Archives \cup {None}]
      /\ whole' \subseteq Homes /\ emptied' \subseteq Homes /\ stops' \in 0..MaxStops
      /\ bare' \subseteq emptied' /\ torn' \subseteq Homes
  BY <1>0, <1>2, <1>3, DirFacts
<1>6. Onward
  BY <1>0, <1>3, <1>4, DirFacts DEF Onward, Nothing
<1>7. DirsFit'
  <2>1. whole' = whole \ {fs[D]}
    BY <1>3 DEF HomeInv, DirsFit
  <2>2. QED
    BY <1>2, <1>3, <1>4, <2>1, FewerDirs
<1>8. /\ call' \in [Callers -> CallRecords] /\ \A d \in Callers \ {c} : call'[d] = call[d]
      /\ CallFits(c)' /\ ~Doomed(c)' /\ call'[c].data = call[c].data /\ call'[c] # call[c]
  BY <1>1, <1>3, <1>6, DoneCall
<1>9. ASSUME NEW d \in Callers \ {c}, Doomed(d), call[d].data.bound \in whole'
      PROVE  fs'[<<"discard", call[d].data.op>>] = call[d].data.bound
  <2>1. /\ <<"discard", call[d].data.op>> \in Paths
        /\ fs[<<"discard", call[d].data.op>>] = call[d].data.bound
    BY <1>3, <1>9, OthersKnow
  <2>2. <<"discard", call[d].data.op>> # D
    BY <1>3, <1>9, <2>1 DEF HomeInv, DirsFit
  <2>3. QED
    BY <1>4, <2>1, <2>2
<1>10. ASSUME NEW d \in Callers \ {c}, Awaits(d)
       PROVE  FreshIn(call[d].data.op, fs', whole' \cup emptied' \cup torn')
  <2>1. FreshIn(call[d].data.op, fs, whole \cup emptied \cup torn) /\ call[d].data.op # Nothing
    BY <1>10, OthersKnow, FreshFacts, Numbers
  <2>2. QED
    BY <1>0, <1>3, <1>4, <2>1 DEF FreshIn
<1>12. torn' = {} => \E w \in Homes : Safe(w) /\ w \in whole'
  BY <1>0, <1>3 DEF HomeInv, Safe
<1>13. QED
  BY <1>3, <1>5, <1>6, <1>7, <1>8, <1>9, <1>10, <1>12, DirStep

\* A new directory at the destination: the parent of a receipt, or a home of its own.
LEMMA NewAtDest ==
    ASSUME HomeInv, fs[Dest] = Nothing, born < MaxHomes,
           fs' = [fs EXCEPT ![Dest] = born + 1], born' = born + 1,
           whole' \in {whole, whole \cup {born + 1}},
           UNCHANGED <<receipt, deleted, work, journal, stops>>
    PROVE  /\ Onward /\ DirsFit'
           /\ fs' \in [Paths -> Homes \cup {Nothing}]
           /\ receipt' \in [Homes -> Archives \cup {None}]
           /\ whole \subseteq whole' /\ whole' \subseteq Homes /\ emptied' \subseteq Homes
           /\ bare' \subseteq emptied' /\ torn' \subseteq Homes
           /\ stops' \in 0..MaxStops
           /\ \A d \in Callers : Doomed(d) /\ call[d].data.bound \in whole' =>
                 fs'[<<"discard", call[d].data.op>>] = call[d].data.bound
           /\ \A d \in Callers : Awaits(d) => FreshIn(call[d].data.op, fs', whole' \cup emptied' \cup torn')
<1>0. UNCHANGED <<emptied, bare, torn>>
  BY DEF deleted
<1>. DEFINE n == born + 1
<1>1. /\ n \in Homes /\ n \in Nat /\ n > born /\ n # Nothing /\ born' = n /\ Dest \in Paths
      /\ Dest[1] = "dest"
  BY DirFacts, BoundsAssumption DEF Homes, Nothing, Paths, Dest
<1>2. fs' = [fs EXCEPT ![Dest] = n] /\ whole' \in {whole, whole \cup {n}}
  OBVIOUS
<1>. HIDE DEF n
<1>3. /\ n \notin whole /\ n \notin emptied /\ n \notin torn /\ receipt[n] = None
      /\ \A p \in Paths : fs[p] # n
  <2>1. \A h \in whole \cup (emptied \cup torn) : h <= born
    BY DEF HomeInv, DirsFit
  <2>2. ~(n <= born)
    BY <1>1, DirFacts
  <2>3. receipt[n] = None /\ \A p \in Paths : fs[p] # n
    BY <1>1, <2>2, DirFacts DEF HomeInv, DirsFit
  <2>4. QED
    BY <2>1, <2>2, <2>3
<1>4. fs'[Dest] = n /\ \A p \in Paths : p # Dest => fs'[p] = fs[p]
  BY <1>1, <1>2, DirFacts
<1>5. /\ fs' \in [Paths -> Homes \cup {Nothing}] /\ receipt' \in [Homes -> Archives \cup {None}]
      /\ whole \subseteq whole' /\ whole' \subseteq Homes /\ emptied' \subseteq Homes
      /\ bare' \subseteq emptied' /\ torn' \subseteq Homes /\ stops' \in 0..MaxStops
  BY <1>0, <1>1, <1>2, DirFacts
<1>6. Onward
  <2>1. ASSUME NEW p \in Paths, fs'[p] \in 1..born, fs'[p] \notin whole' \cup emptied' \cup torn'
        PROVE  \E q \in Paths : fs[q] = fs'[p] /\ fs[q] \notin whole \cup emptied \cup torn
    BY <1>0, <1>1, <1>4, <1>5, <2>1, DirFacts
  <2>2. QED
    BY <1>0, <1>1, <2>1, DirFacts DEF Onward
<1>7. DirsFit'
  <2>1. OnePath'
    BY <1>1, <1>3, <1>4 DEF HomeInv, DirsFit, OnePath
  <2>2. \A h \in whole' : h <= born' /\ \E p \in Paths : fs'[p] = h
    <3>1. ASSUME NEW h \in whole PROVE h <= n /\ \E p \in Paths : fs'[p] = h
      <4>1. h <= born /\ h \in Nat /\ h # Nothing /\ \E p \in Paths : fs[p] = h
        BY DirFacts DEF HomeInv, DirsFit
      <4>2. QED
        BY <1>1, <1>4, <4>1, DirFacts
    <3>2. n <= n
      BY <1>1
    <3>3. QED
      BY <1>1, <1>2, <1>4, <3>1, <3>2
  <2>3. \A h \in emptied' \cup torn' : h <= born' /\ h \notin whole'
    <3>1. ASSUME NEW h \in emptied \cup torn PROVE h <= n /\ h \notin whole'
      <4>1. h <= born /\ h \in Nat /\ h \notin whole
        BY DirFacts DEF HomeInv, DirsFit
      <4>2. QED
        BY <1>1, <1>2, <1>3, <4>1, DirFacts
    <3>2. QED
      BY <1>0, <1>1, <3>1
  <2>4. \A p \in Paths : fs'[p] <= born' /\ (fs'[p] \in emptied' => p[1] = "discard")
    <3>1. ASSUME NEW p \in Paths
          PROVE  fs'[p] <= n /\ (fs'[p] \in emptied => p[1] = "discard")
      <4>1. CASE p = Dest
        BY <1>1, <1>3, <1>4, <4>1
      <4>2. CASE p # Dest
        <5>1. fs'[p] = fs[p] /\ fs[p] <= born /\ fs[p] \in Nat
          BY <1>4, <4>2, DirFacts DEF HomeInv, DirsFit
        <5>2. fs[p] <= n
          BY <1>1, <5>1, DirFacts
        <5>3. QED
          BY <5>1, <5>2 DEF HomeInv, DirsFit
      <4>3. QED
        BY <4>1, <4>2
    <3>2. QED
      BY <1>0, <1>1, <3>1
  <2>5. \A p \in Paths : fs'[p] # Nothing /\ receipt'[fs'[p]] # None
                         => fs'[p] \in whole' \cup emptied' \cup torn'
    BY <1>0, <1>3, <1>4, <1>5 DEF HomeInv, DirsFit
  <2>6. \A h \in Homes : h > born' => receipt'[h] = None
    BY <1>1, DirFacts DEF HomeInv, DirsFit
  <2>7. \A i \in Homes : fs'[<<"prepared", i>>] \in {Nothing, i}
    <3>1. ASSUME NEW i \in Homes PROVE fs'[<<"prepared", i>>] \in {Nothing, i}
      <4>1. <<"prepared", i>> \in Paths /\ <<"prepared", i>> # Dest
        BY DEF Paths, Places, Dest
      <4>2. QED
        BY <1>4, <4>1 DEF HomeInv, DirsFit
    <3>2. QED
      BY <3>1
  <2>8. QED
    BY <2>1, <2>2, <2>3, <2>4, <2>5, <2>6, <2>7 DEF DirsFit
<1>8. ASSUME NEW d \in Callers, Doomed(d), call[d].data.bound \in whole'
      PROVE  fs'[<<"discard", call[d].data.op>>] = call[d].data.bound
  <2>1. call[d].data.bound # n
    <3>1. call[d].data \in Journals /\ CallFits(d)
      BY <1>8, CallFacts DEF Doomed
    <3>2. call[d].data.bound <= born /\ call[d].data.bound \in Nat
      BY <3>1, PathFacts, Numbers DEF CallFits, Known, KnownIn, Nothing
    <3>3. QED
      BY <1>1, <3>2, DirFacts
  <2>2. call[d].data.bound \in whole
    BY <1>2, <1>8, <2>1
  <2>3. /\ <<"discard", call[d].data.op>> \in Paths /\ <<"discard", call[d].data.op>> # Dest
        /\ fs[<<"discard", call[d].data.op>>] = call[d].data.bound
    BY <1>8, <2>2, OthersKnow DEF Dest
  <2>4. QED
    BY <1>4, <2>3
<1>9. ASSUME NEW d \in Callers, Awaits(d)
      PROVE  FreshIn(call[d].data.op, fs', whole' \cup emptied' \cup torn')
  <2>1. call[d].data.op \in Nat /\ call[d].data.op <= born
    BY <1>9, FreshFacts, Numbers
  <2>2. call[d].data.op # n
    BY <1>1, <2>1, DirFacts
  <2>3. FreshIn(call[d].data.op, fs, whole \cup emptied \cup torn)
    BY <1>9, OthersKnow
  <2>4. QED
    BY <1>0, <1>1, <1>2, <1>4, <2>2, <2>3 DEF FreshIn
<1>10. QED
  BY <1>5, <1>6, <1>7, <1>8, <1>9

LEMMA WriteReceiptKeeps ==
    ASSUME HomeInv, NEW c \in Callers, WriteReceipt(c)
    PROVE  HomeInv'
<1>1. /\ call[c].todo # << >> /\ ~Doomed(c) /\ call' = Done1(c)
      /\ UNCHANGED <<receipt, whole, deleted, work, journal, stops>>
  BY DEF WriteReceipt, Next1, Doomed
<1>0. UNCHANGED <<emptied, bare, torn>>
  BY <1>1 DEF deleted
<1>2. torn' = {} => \E w \in Homes : Safe(w) /\ w \in whole'
  BY <1>0, <1>1 DEF HomeInv, Safe
<1>3. CASE fs[Dest] # Nothing
  <2>1. UNCHANGED <<fs, born>>
    BY <1>3 DEF WriteReceipt
  <2>2. Onward
    BY <1>0, <1>1, <2>1, DirFacts DEF Onward
  <2>3. DirsFit'
    BY <1>0, <1>1, <2>1 DEF HomeInv, DirsFit, OnePath
  <2>4. /\ call' \in [Callers -> CallRecords] /\ \A d \in Callers \ {c} : call'[d] = call[d]
        /\ CallFits(c)' /\ ~Doomed(c)' /\ call'[c].data = call[c].data /\ call'[c] # call[c]
    BY <1>1, <2>2, DoneCall
  <2>5. QED
    BY <1>0, <1>1, <1>2, <2>1, <2>2, <2>3, <2>4, OthersKnow, DirFacts, DirStep
<1>4. CASE fs[Dest] = Nothing
  <2>1. born < MaxHomes /\ fs' = [fs EXCEPT ![Dest] = born + 1] /\ born' = born + 1
    BY <1>4 DEF WriteReceipt
  <2>2. /\ Onward /\ DirsFit'
        /\ fs' \in [Paths -> Homes \cup {Nothing}]
        /\ receipt' \in [Homes -> Archives \cup {None}]
        /\ whole \subseteq whole' /\ whole' \subseteq Homes /\ emptied' \subseteq Homes
        /\ bare' \subseteq emptied' /\ torn' \subseteq Homes
        /\ stops' \in 0..MaxStops
        /\ \A d \in Callers : Doomed(d) /\ call[d].data.bound \in whole' =>
              fs'[<<"discard", call[d].data.op>>] = call[d].data.bound
        /\ \A d \in Callers : Awaits(d) => FreshIn(call[d].data.op, fs', whole' \cup emptied' \cup torn')
    BY <1>1, <1>4, <2>1, NewAtDest
  <2>3. /\ call' \in [Callers -> CallRecords] /\ \A d \in Callers \ {c} : call'[d] = call[d]
        /\ CallFits(c)' /\ ~Doomed(c)' /\ call'[c].data = call[c].data /\ call'[c] # call[c]
    BY <1>1, <2>2, DoneCall
  <2>4. QED
    BY <1>1, <1>2, <2>2, <2>3, DirStep
<1>5. QED
  BY <1>3, <1>4

LEMMA SetupHomeKeeps ==
    ASSUME HomeInv, SetupHome
    PROVE  HomeInv'
<1>1. /\ fs[Dest] = Nothing /\ born < MaxHomes /\ fs' = [fs EXCEPT ![Dest] = born + 1]
      /\ born' = born + 1 /\ whole' = whole \cup {born + 1}
      /\ UNCHANGED <<receipt, deleted, work, journal, call, stops>>
  BY DEF SetupHome
<1>2. /\ Onward /\ DirsFit'
      /\ fs' \in [Paths -> Homes \cup {Nothing}]
      /\ receipt' \in [Homes -> Archives \cup {None}]
      /\ whole \subseteq whole' /\ whole' \subseteq Homes /\ emptied' \subseteq Homes
      /\ bare' \subseteq emptied' /\ torn' \subseteq Homes
      /\ stops' \in 0..MaxStops
      /\ \A d \in Callers : Doomed(d) /\ call[d].data.bound \in whole' =>
            fs'[<<"discard", call[d].data.op>>] = call[d].data.bound
      /\ \A d \in Callers : Awaits(d) => FreshIn(call[d].data.op, fs', whole' \cup emptied' \cup torn')
  BY <1>1, NewAtDest
<1>3. torn' = {} => \E w \in Homes : Safe(w) /\ w \in whole'
  BY <1>1, <1>2 DEF HomeInv, Safe, deleted
<1>4. call' \in [Callers -> CallRecords] /\ \A d \in Callers : call'[d] = call[d]
  BY <1>1, TypeParts DEF HomeInv
<1>5. QED
  BY <1>1, <1>2, <1>3, <1>4, DirStep

\* The first journal write raises; the journal is there or not.
LEMMA FirstWriteRaisesKeeps ==
    ASSUME HomeInv, NEW c \in Callers, FirstWriteRaises(c)
    PROVE  HomeInv'
<1>. DEFINE x == [call[c] EXCEPT !.at = "cleanup", !.todo = << >>]
<1>1. /\ call[c].todo # << >> /\ journal' \in {journal, call[c].data}
      /\ stops < MaxStops /\ stops' = stops + 1
      /\ UNCHANGED <<fs, born, receipt, whole, deleted, work>>
  BY DEF FirstWriteRaises
<1>2. call[c] \in CallRecords /\ CallFits(c) /\ call[c].data \in Journals
  BY <1>1, CallFacts
<1>3. call' = [call EXCEPT ![c] = x]
  BY <1>2, TypeParts DEF FirstWriteRaises, HomeInv, CallRecords
<1>4. << >> \in Seq(Steps) /\ Shaped(<< >>)
  BY DEF Shaped
<1>5. x \in CallRecords /\ x.at = "cleanup" /\ x.data = call[c].data /\ x.todo = << >>
  BY <1>2, <1>4 DEF CallRecords
<1>. HIDE DEF x
<1>6. call'[c] = x
  BY <1>3, <1>5, OneCall, TypeParts DEF HomeInv
<1>7. call[c].data # NoJournal /\ KnownIn(call[c].data, fs, born, whole \cup emptied \cup torn)
  BY <1>2, PathFacts DEF CallFits, Known
<1>8. KnownIn(call[c].data, fs', born', whole' \cup emptied' \cup torn')
  BY <1>1, <1>7 DEF deleted
<1>9. CallFits(c)' /\ ~Doomed(c)'
  BY <1>4, <1>5, <1>6, <1>7, <1>8 DEF CallFits, Known, Doomed, Awaits, Removes
<1>10. \A d \in Callers \ {c} : Awaits(d) =>
         FreshFor(call[d].data.op, journal') /\ FreshFor(call[d].data.op, x.data)
  BY <1>1, <1>5, FreshFacts
<1>11. /\ born' \in Homes /\ born' >= born /\ stops' \in 0..MaxStops
       /\ journal' \in Journals \cup {NoJournal}
  BY <1>1, <1>2, Numbers, BoundsAssumption, DirFacts, TypeParts DEF HomeInv
<1>12. KnownIn(journal', fs, born', whole \cup emptied \cup torn)
  BY <1>1, <1>7 DEF HomeInv, Known
<1>13. QED
  BY <1>1, <1>3, <1>5, <1>9, <1>10, <1>11, <1>12, QuietStep

\* What a cleanup is about to delete: the copy its call restored.
LEMMA ProvenFacts ==
    ASSUME HomeInv, NEW c \in Callers, call[c].at = "cleanup",
           NEW j, j = call[c].data, NEW D, D = <<"prepared", j.op>>
    PROVE  /\ j \in Journals /\ Known(j) /\ D \in Paths /\ Path(j, "prepared") = D
           /\ Dest \in Paths /\ Dest # D /\ j.op \in Homes /\ j.old \in Homes /\ j.op <= born
           /\ Proven(c) => /\ fs[D] = j.op /\ fs[Dest] = j.old
                           /\ receipt[fs[D]] # None /\ fs[D] # Nothing
<1>1. j \in Journals /\ CallFits(c)
  BY CallFacts
<1>2. Dest \in Paths /\ Dest # D
  BY DEF Dest, Paths
<1>3. /\ D \in Paths /\ Path(j, "prepared") = D /\ Path(j, "dest") = Dest
      /\ j.op \in Homes /\ j.old \in Homes /\ j # NoJournal
  BY <1>1, PathFacts DEF Spots, Places
<1>4. Known(j) /\ j.op <= born
  BY <1>1, <1>3 DEF CallFits, Known, KnownIn
<1>5. ASSUME Proven(c)
      PROVE  fs[D] = j.op /\ fs[Dest] = j.old /\ receipt[fs[D]] # None /\ fs[D] # Nothing
  <2>1. fs[D] # Nothing /\ receipt[fs[D]] = j.archive /\ fs[Dest] = j.old
    BY <1>3, <1>5 DEF Proven, IsNew, IsOld, Exists, At
  <2>2. fs[D] = j.op
    BY <1>3, <2>1 DEF HomeInv, DirsFit
  <2>3. j.archive # None
    BY <1>1, ArchivesAssumption DEF Journals
  <2>4. QED
    BY <2>1, <2>2, <2>3
<1>6. QED
  BY <1>1, <1>2, <1>3, <1>4, <1>5

\* The call whose first journal write raised removes the copy it restored; the home at
\* the destination is the one it was to replace, and stays.
LEMMA CleanupKeeps ==
    ASSUME HomeInv, NEW c \in Callers, Cleanup(c)
    PROVE  HomeInv'
<1>1. PICK j : j = call[c].data
  OBVIOUS
<1>2. PICK D : D = <<"prepared", j.op>>
  OBVIOUS
<1>3. /\ call[c].at = "cleanup" /\ call' = [call EXCEPT ![c] = Idle]
      /\ UNCHANGED <<born, receipt, deleted, work, journal, stops>>
  BY DEF Cleanup
<1>4. /\ j \in Journals /\ Known(j) /\ D \in Paths /\ Path(j, "prepared") = D
      /\ Dest \in Paths /\ Dest # D /\ j.op \in Homes /\ j.old \in Homes
      /\ Proven(c) => fs[D] = j.op /\ fs[Dest] = j.old /\ fs[D] # Nothing
  BY <1>1, <1>2, <1>3, ProvenFacts
<1>5. /\ fs' = [fs EXCEPT ![D] = IF Proven(c) THEN Nothing ELSE @]
      /\ whole' = whole \ (IF Proven(c) THEN {j.op} ELSE {})
  BY <1>1, <1>4 DEF Cleanup
<1>6. stops' \in 0..MaxStops /\ UNCHANGED <<emptied, bare, torn>>
  BY <1>3, DirFacts DEF deleted
<1>7. CASE ~Proven(c)
  <2>1. fs' = fs /\ whole' = whole
    BY <1>5, <1>7, DirFacts
  <2>2. QED
    BY <1>3, <1>6, <2>1, EndsKeeps
<1>8. CASE Proven(c)
  <2>1. fs' = [fs EXCEPT ![D] = Nothing] /\ whole' = whole \ {fs[D]}
    BY <1>4, <1>5, <1>8
  <2>2. fs'[D] = Nothing /\ \A p \in Paths : p # D => fs'[p] = fs[p]
    BY <1>4, <2>1, DirFacts
  <2>3. DirsFit'
    BY <1>3, <1>4, <2>1, <2>2, FewerDirs
  <2>4. Onward
    <3>1. ASSUME NEW p \in Paths, fs'[p] \in 1..born, fs'[p] \notin whole' \cup emptied' \cup torn'
          PROVE  fs[p] = fs'[p] /\ fs[p] \notin whole \cup emptied \cup torn
      <4>1. p # D /\ fs'[p] = fs[p]
        BY <2>2, <3>1 DEF Nothing
      <4>2. fs[p] # fs[D] /\ fs'[p] \notin emptied \cup torn
        BY <1>4, <1>6, <1>8, <3>1, <4>1 DEF HomeInv, DirsFit, OnePath
      <4>3. QED
        BY <2>1, <3>1, <4>1, <4>2
    <3>2. QED
      BY <1>3, <1>6, <3>1, DirFacts DEF Onward
  <2>5. /\ call' \in [Callers -> CallRecords] /\ \A d \in Callers \ {c} : call'[d] = call[d]
        /\ CallFits(c)' /\ ~Doomed(c)' /\ call'[c].data = NoJournal /\ call'[c] # call[c]
    BY <1>3, EndedCall
  <2>6. ASSUME NEW d \in Callers, Doomed(d), call[d].data.bound \in whole'
        PROVE  fs'[<<"discard", call[d].data.op>>] = call[d].data.bound
    <3>1. <<"discard", call[d].data.op>> # D
      BY <1>2
    <3>2. call[d].data.bound \in whole
      BY <2>1, <2>6
    <3>3. QED
      BY <2>2, <2>6, <3>1, <3>2, OthersKnow
  <2>7. ASSUME NEW d \in Callers, Awaits(d)
        PROVE  FreshIn(call[d].data.op, fs', whole' \cup emptied' \cup torn')
    <3>1. FreshIn(call[d].data.op, fs, whole \cup emptied \cup torn) /\ call[d].data.op # Nothing
      BY <2>7, OthersKnow, FreshFacts, Numbers
    <3>2. QED
      BY <1>6, <2>1, <2>2, <3>1 DEF FreshIn
  <2>8. ASSUME torn' = {} PROVE \E w \in Homes : Safe(w) /\ w \in whole'
    <3>1. Safe(fs[Dest]) /\ fs[Dest] \in Homes
      BY <1>4, <1>6, <1>8, <2>8, Numbers, ServedIsSafe
    <3>2. fs[Dest] \in whole'
      BY <1>4, <1>8, <2>1, <3>1 DEF Safe, HomeInv, DirsFit, OnePath
    <3>3. QED
      BY <3>1, <3>2
  <2>9. /\ fs' \in [Paths -> Homes \cup {Nothing}] /\ whole' \subseteq Homes
        /\ receipt' \in [Homes -> Archives \cup {None}] /\ emptied' \subseteq Homes
        /\ bare' \subseteq emptied' /\ torn' \subseteq Homes
    BY <1>3, <1>4, <1>6, <2>1, DirFacts
  <2>10. QED
    BY <1>3, <1>6, <2>3, <2>4, <2>5, <2>6, <2>7, <2>8, <2>9, DirStep
<1>9. QED
  BY <1>7, <1>8

\* A cleanup that stops half-way leaves the copy where it is.
LEMMA CleanupCutShortKeeps ==
    ASSUME HomeInv, NEW c \in Callers, CleanupCutShort(c)
    PROVE  HomeInv'
<1>1. PICK j : j = call[c].data
  OBVIOUS
<1>2. PICK D : D = <<"prepared", j.op>>
  OBVIOUS
<1>3. /\ call[c].at = "cleanup" /\ Proven(c) /\ call' = [call EXCEPT ![c] = Idle]
      /\ stops < MaxStops /\ stops' = stops + 1
      /\ whole' = whole \ {j.op} /\ torn' = torn \cup {j.op}
      /\ receipt' \in {receipt, [receipt EXCEPT ![j.op] = None]}
      /\ UNCHANGED <<fs, born, emptied, bare, work, journal>>
  BY <1>1 DEF CleanupCutShort, Proven
<1>4. j.op \in Homes /\ j.op <= born /\ D \in Paths /\ fs[D] = j.op
  BY <1>1, <1>2, <1>3, ProvenFacts
<1>5. stops' \in 0..MaxStops
  BY <1>3, DirFacts, BoundsAssumption
<1>6. Onward
  BY <1>3, DirFacts DEF Onward
<1>7. /\ receipt' \in [Homes -> Archives \cup {None}]
      /\ \A h \in Homes : receipt'[h] \in {receipt[h], None}
  BY <1>3, <1>4, DirFacts
<1>8. DirsFit'
  <2>1. OnePath' /\ \A k \in Homes : fs'[<<"prepared", k>>] \in {Nothing, k}
    BY <1>3 DEF HomeInv, DirsFit, OnePath
  <2>2. \A h \in whole' : h <= born' /\ \E p \in Paths : fs'[p] = h
    BY <1>3 DEF HomeInv, DirsFit
  <2>3. \A h \in emptied' \cup torn' : h <= born' /\ h \notin whole'
    BY <1>3, <1>4 DEF HomeInv, DirsFit
  <2>4. \A p \in Paths : fs'[p] <= born' /\ (fs'[p] \in emptied' => p[1] = "discard")
    BY <1>3 DEF HomeInv, DirsFit
  <2>5. ASSUME NEW p \in Paths, fs[p] # Nothing, receipt'[fs[p]] # None
        PROVE  fs[p] \in whole' \cup emptied' \cup torn'
    <3>1. receipt[fs[p]] # None
      BY <1>7, <2>5, DirFacts
    <3>2. QED
      BY <1>3, <2>5, <3>1 DEF HomeInv, DirsFit
  <2>6. \A h \in Homes : h > born' => receipt'[h] = None
    BY <1>3, <1>7 DEF HomeInv, DirsFit
  <2>7. QED
    BY <1>3, <2>1, <2>2, <2>3, <2>4, <2>5, <2>6 DEF DirsFit
<1>9. /\ call' \in [Callers -> CallRecords] /\ \A d \in Callers \ {c} : call'[d] = call[d]
      /\ CallFits(c)' /\ ~Doomed(c)' /\ call'[c].data = NoJournal /\ call'[c] # call[c]
  BY <1>3, EndedCall
<1>10. \A d \in Callers : Doomed(d) /\ call[d].data.bound \in whole' =>
          fs'[<<"discard", call[d].data.op>>] = call[d].data.bound
  BY <1>3, OthersKnow
<1>11. ASSUME NEW d \in Callers, Awaits(d)
       PROVE  FreshIn(call[d].data.op, fs', whole' \cup emptied' \cup torn')
  BY <1>3, <1>4, <1>11, OthersKnow DEF FreshIn
<1>12. torn' # {}
  BY <1>3
<1>13. /\ fs' \in [Paths -> Homes \cup {Nothing}] /\ whole' \subseteq Homes
       /\ emptied' \subseteq Homes /\ bare' \subseteq emptied' /\ torn' \subseteq Homes
  BY <1>3, <1>4, DirFacts
<1>14. QED
  BY <1>3, <1>5, <1>6, <1>7, <1>8, <1>9, <1>10, <1>11, <1>12, <1>13, DirStep

\* Calls that end, and what the home being served does meanwhile.
LEMMA EndingKeeps ==
    ASSUME HomeInv, NEW c \in Callers, Unlink(c) \/ Return(c) \/ Stop(c) \/ Raise(c)
    PROVE  HomeInv'
<1>1. /\ call' = [call EXCEPT ![c] = Idle]
      /\ UNCHANGED <<fs, born, receipt, whole, deleted, work>>
      /\ journal' \in {journal, NoJournal}
  BY DEF Unlink, Return, Stop, Raise
<1>2. stops' \in 0..MaxStops
  BY DirFacts, BoundsAssumption DEF Unlink, Return, Stop, Raise
<1>3. QED
  BY <1>1, <1>2, EndsKeeps

LEMMA ServingKeeps ==
    ASSUME HomeInv, work' \subseteq Homes,
           UNCHANGED <<fs, born, receipt, whole, deleted, journal, call, stops>>
    PROVE  HomeInv'
<1>0. UNCHANGED <<emptied, bare, torn>>
  BY DEF deleted
<1>1. TypeOK' /\ DirsFit' /\ Known(journal)'
  BY <1>0 DEF HomeInv, TypeOK, DirsFit, OnePath, Known, KnownIn
<1>2. ASSUME NEW c \in Callers PROVE CallFits(c)'
  <2>1. CallFits(c)
    BY DEF HomeInv
  <2>2. /\ (Doomed(c)' <=> Doomed(c)) /\ (Removes(c)' <=> Removes(c)) /\ (Awaits(c)' <=> Awaits(c))
        /\ (Held(c)' <=> Held(c)) /\ (Fresh(c)' <=> Fresh(c))
    BY <1>0 DEF Doomed, Removes, Awaits, Held, Fresh, FreshIn
  <2>3. QED
    BY <1>0, <2>1, <2>2 DEF CallFits, Known, KnownIn
<1>3. \A w \in Homes : Safe(w) => Safe(w)'
  BY DEF Safe, Doomed
<1>4. QED
  BY <1>0, <1>1, <1>2, <1>3 DEF HomeInv

LEMMA HomeInit ==
    ASSUME Init
    PROVE  HomeInv
<1>1. /\ fs = [p \in Paths |-> IF p = Dest THEN 1 ELSE Nothing] /\ born = 1
      /\ receipt = [h \in Homes |-> None] /\ whole = {1}
      /\ emptied = {} /\ bare = {} /\ torn = {} /\ work = {}
      /\ journal = NoJournal /\ call = [c \in Callers |-> Idle] /\ stops = 0
  BY DEF Init
<1>2. 1 \in Homes /\ Dest \in Paths /\ 0 \in 0..MaxStops
  BY BoundsAssumption DEF Homes, Paths
<1>3. fs[Dest] = 1 /\ \A p \in Paths : p # Dest => fs[p] = Nothing
  BY <1>1, <1>2
<1>4. TypeOK
  BY <1>1, <1>2, IdleRecord DEF TypeOK, CallRecords
<1>5. DirsFit
  <2>1. OnePath /\ \A h \in whole : h <= born /\ \E p \in Paths : fs[p] = h
    BY <1>1, <1>2, <1>3 DEF OnePath, Nothing
  <2>2. \A p \in Paths : fs[p] <= born /\ fs[p] \notin emptied
    BY <1>1, <1>3 DEF Nothing
  <2>3. \A h \in Homes : receipt[h] = None
    BY <1>1
  <2>4. \A p \in Paths : fs[p] # Nothing => fs[p] \in whole
    BY <1>1, <1>3
  <2>5. \A k \in Homes : fs[<<"prepared", k>>] \in {Nothing, k}
    <3>1. ASSUME NEW k \in Homes PROVE fs[<<"prepared", k>>] = Nothing
      <4>1. <<"prepared", k>> \in Paths /\ <<"prepared", k>> # Dest
        BY DEF Paths, Places, Dest
      <4>2. QED
        BY <1>3, <4>1
    <3>2. QED
      BY <3>1
  <2>6. QED
    BY <1>1, <2>1, <2>2, <2>3, <2>4, <2>5 DEF DirsFit
<1>6. Known(journal)
  BY <1>1 DEF Known, KnownIn
<1>7. ASSUME NEW c \in Callers PROVE CallFits(c) /\ ~Doomed(c)
  <2>1. call[c].at = "idle" /\ call[c].todo = << >> /\ call[c].data = NoJournal
    BY <1>1 DEF Idle
  <2>2. << >> \in Seq(Steps) /\ Len(<< >>) = 0
    OBVIOUS
  <2>3. Shaped(<< >>)
    BY <2>2 DEF Shaped
  <2>4. QED
    BY <2>1, <2>3 DEF CallFits, Known, KnownIn, Doomed, Removes, Awaits
<1>8. Safe(1)
  BY <1>1, <1>7 DEF Safe
<1>9. QED
  BY <1>2, <1>4, <1>5, <1>6, <1>7, <1>8 DEF HomeInv

LEMMA HomeNext ==
    ASSUME HomeInv, [Next]_vars
    PROVE  HomeInv'
<1>1. CASE UNCHANGED vars
  <2>1. work' \subseteq Homes /\ UNCHANGED <<fs, born, receipt, whole, deleted, journal, call, stops>>
    BY <1>1, TypeParts DEF vars, HomeInv
  <2>2. QED
    BY <2>1, ServingKeeps
<1>2. ASSUME NEW c \in Callers, NEW a \in Archives, ReplaceStart(c, a) PROVE HomeInv'
  BY <1>2, ReplaceStartKeeps
<1>3. ASSUME NEW c \in Callers, NEW m \in Modes, ReconcileStart(c, m) PROVE HomeInv'
  BY <1>3, ReconcileStartKeeps
<1>4. ASSUME NEW c \in Callers, Effect(c) PROVE HomeInv'
  BY <1>4, ReconcileKeeps, RestoreKeeps, RenameKeeps, WriteKeeps, LookAgainKeeps, EmptyKeeps,
     RemoveRootKeeps, WriteReceiptKeeps, EndingKeeps, CleanupKeeps DEF Effect
<1>5. ASSUME NEW c \in Callers, Fault(c) PROVE HomeInv'
  BY <1>5, FirstWriteRaisesKeeps, CleanupCutShortKeeps, EmptyKeeps, EndingKeeps DEF Fault
<1>6. CASE LoadWork
  <2>1. work' = work \cup {fs[Dest]} /\ fs[Dest] \in whole
    BY <1>6 DEF LoadWork
  <2>2. work' \subseteq Homes
    BY <2>1, TypeParts DEF HomeInv
  <2>3. QED
    BY <1>6, <2>2, ServingKeeps DEF LoadWork
<1>7. CASE FinishWork
  <2>1. work' \subseteq Homes
    BY <1>7, TypeParts DEF FinishWork, HomeInv
  <2>2. QED
    BY <1>7, <2>1, ServingKeeps DEF FinishWork
<1>8. CASE SetupHome
  BY <1>8, SetupHomeKeeps
<1>9. QED
  BY <1>1, <1>2, <1>3, <1>4, <1>5, <1>6, <1>7, <1>8 DEF Next

\* Whatever replacements, reconciliations, crashes and setups in the gap do to each
\* other, however stale the journal copies they work on are: no rename puts a home on
\* top of an undamaged one or duplicates it, every home whose contents were not deleted
\* is at exactly one path, and an undamaged home is left unless a cleanup left a restored
\* copy half deleted (_replacement_rename, _delete_bound_replacement_discard, the proofs
\* before every finalize, the cleanup after a failed first journal write).
THEOREM HomesAccountedForHolds == Spec => []HomesAccountedFor
<1>1. Init => HomeInv
  BY HomeInit
<1>2. HomeInv /\ [Next]_vars => HomeInv'
  BY HomeNext
<1>3. HomeInv => HomesAccountedFor
  BY DEF HomeInv, HomesAccountedFor, EveryHomeInOnePlace, SomeHomeSurvives, DirsFit, OnePath, Safe
<1>4. QED
  BY <1>1, <1>2, <1>3, PTL DEF Spec

-----------------------------------------------------------------------------
(***************************************************************************)
(* One operator at a time.  The journal is then never stale: it says in    *)
(* which stage the operation is, and the effects a call still has to do    *)
(* lead through stages in which the call may also end.                     *)
(***************************************************************************)

\* A stage of an operation: what the journal says, "none" being no journal, and where
\* the old and the new home are.
Stages == [status : Statuses \cup {None}, old : Spots \cup {"gone"}, new : Spots \cup {"gone"}]
Holds(a, spot) == a.old = spot \/ a.new = spot

\* The stages in which a call may leave an operation.
Rests(a) ==
    \/ a.status = None /\ a.old = "dest" /\ a.new \in {"gone", "prepared"}
    \/ a.status = "PREPARED" /\ a.old \in {"dest", "rollback"} /\ a.new = "prepared"
    \/ a.status = "PREPARED" /\ a.old = "dest" /\ a.new = "gone"
    \/ a.status = "OLD_MOVED" /\ a.old = "rollback" /\ a.new \in {"prepared", "dest"}
    \/ a.status = "NEW_ACTIVE" /\ a.old \in {"rollback", "discard"} /\ a.new = "dest"
    \/ a.status = "FINALIZE_PENDING_DELETE" /\ a.old \in {"discard", "gone"} /\ a.new = "dest"
    \/ a.status = "ROLLBACK_PREPARED" /\ a.old = "rollback" /\ a.new \in {"dest", "failed"}
    \/ a.status = "ROLLBACK_NEW_MOVED" /\ a.old \in {"rollback", "dest"} /\ a.new = "failed"
    \/ a.status = "ROLLED_BACK" /\ a.old = "dest" /\ a.new \in {"failed", "discard"}
    \/ /\ a.status = "ROLLBACK_FINALIZE_PENDING_DELETE"
       /\ a.old = "dest" /\ a.new \in {"discard", "gone"}
    \/ a.status \in {"COMPLETE", None} /\ a.old = "gone" /\ a.new = "dest"
    \/ a.status = "COMPLETE" /\ a.old = "dest" /\ a.new = "gone"

\* A directory goes to a discard, and is deleted there, only when it is bound.
Bound(j, a) ==
    /\ a.old = "discard" \/ a.status = "FINALIZE_PENDING_DELETE" =>
          j.role = "rollback_old" /\ j.bound = j.old
    /\ a.new = "discard" \/ a.status = "ROLLBACK_FINALIZE_PENDING_DELETE" =>
          j.role = "failed_new" /\ j.bound = j.op

\* The directories and the receipts are those of the stage.
Stands(j, a) ==
    /\ \A s \in Spots : At(j, s) = IF a.old = s THEN j.old
                                   ELSE IF a.new = s THEN j.op ELSE Nothing
    /\ j.op # j.old /\ receipt[j.old] # j.archive
    /\ a.new # "gone" => receipt[j.op] = j.archive

\* What an effect makes of a stage.
Moved(spot, from, to) == IF spot = from THEN to ELSE spot
Moves(a, e, b) ==
    /\ e.do \in {"restore", "rename", "write", "look", "empty", "rmdir", "receipt", "unlink"}
    /\ e.do = "restore" => /\ a.status = None /\ a.new = "gone"
                           /\ b = [a EXCEPT !.new = "prepared"]
    /\ e.do = "rename" => /\ Holds(a, e.from) /\ ~Holds(a, e.to)
                          /\ b = [status |-> a.status, old |-> Moved(a.old, e.from, e.to),
                                  new |-> Moved(a.new, e.from, e.to)]
    /\ e.do = "write" => /\ a.status = None <=> e.from = "PREPARED"
                         /\ b = [a EXCEPT !.status = e.from]
    /\ e.do \in {"look", "receipt"} => Holds(a, "dest") /\ b = a
    /\ e.do = "empty" => Holds(a, "dest") /\ Holds(a, "discard") /\ b = a
    /\ e.do = "rmdir" => /\ Holds(a, "discard")
                         /\ b = [status |-> a.status, old |-> Moved(a.old, "discard", "gone"),
                                 new |-> Moved(a.new, "discard", "gone")]
    /\ e.do = "unlink" => a.status = "COMPLETE" /\ b = [a EXCEPT !.status = None]

\* The effects t lead through the stages w, of the operation with the copy j.
Script(j, t, w) ==
    /\ w \in Seq(Stages) /\ Len(w) = Len(t) + 1
    /\ \A i \in 1..Len(w) : Rests(w[i]) /\ Bound(j, w[i])
    /\ \A i \in 1..Len(t) : Moves(w[i], t[i], w[i + 1]) /\ (t[i].do = "look" => i = Len(t))

\* The flags a call works with describe the stage in which it decides next.
Agrees(s, b, t) ==
    b.status \in {"PREPARED", "OLD_MOVED", "NEW_ACTIVE"} =>
        /\ (s.dest <=> Holds(b, "dest")) /\ (s.prepared <=> Holds(b, "prepared"))
        /\ (s.rollback <=> Holds(b, "rollback")) /\ (s.discard <=> Holds(b, "discard"))
        /\ (s.new <=> b.new = "dest") \/ (t # << >> /\ t[Len(t)].do = "look")

\* Two copies of the journal of one operation, which may differ in what they bind.
SameOperation(j, k) ==
    j.op = k.op /\ j.old = k.old /\ j.archive = k.archive /\ j.status = k.status

Recorded == IF journal = NoJournal THEN None ELSE journal.status
WorkFits(k, w) ==
    /\ Script(k.data, k.todo, w)
    /\ w[1].status = Recorded /\ Stands(k.data, w[1])
    /\ k.at = "reconcile" => journal # NoJournal /\ Agrees(k.seen, w[Len(w)], k.todo)
    /\ journal = NoJournal => k.data.status = "PREPARED"
    /\ journal # NoJournal =>
          /\ SameOperation(journal, k.data)
          /\ journal = k.data \/ (k.todo # << >> /\ Head(k.todo).do = "write")
JournalFits(a) == Rests(a) /\ a.status = journal.status /\ Bound(journal, a) /\ Stands(journal, a)

LoneInv ==
    /\ HomeInv
    /\ torn = {}
    /\ \A c \in Callers \ {Operator} : call[c].at = "idle"
    /\ \A p \in Paths \ {Dest} : p[1] # "prepared" /\ fs[p] # Nothing =>
          journal # NoJournal /\ p[2] = journal.op
    /\ journal = NoJournal => fs[Dest] \in whole
    /\ journal # NoJournal => \E a \in Stages : JournalFits(a)
    /\ call[Operator].at # "idle" => \E w \in Seq(Stages) : WorkFits(call[Operator], w)

LEMMA StageFacts ==
    ASSUME NEW a \in Stages, Rests(a)
    PROVE  /\ a.old # a.new
           /\ a.status = None => \/ a.old = "dest" /\ a.new \in {"gone", "prepared"}
                                 \/ a.old = "gone" /\ a.new = "dest"
           /\ a.status = None => /\ Holds(a, "dest")
                                 /\ \A s \in {"rollback", "discard", "failed"} : ~Holds(a, s)
BY DEF Rests, Holds, None, Spots, Places

\* What a caller finds in a stage.
LEMMA StageTells ==
    ASSUME HomeInv, torn = {}, NEW j \in Journals, Known(j), NEW a \in Stages, Rests(a), Stands(j, a)
    PROVE  /\ \A s \in Spots : /\ Exists(j, s) <=> Holds(a, s)
                               /\ IsOld(j, s) <=> a.old = s
                               /\ IsNew(j, s) <=> a.new = s
                               /\ Holds(a, s) /\ s # "discard" => At(j, s) \in whole
           /\ Bound(j, a) /\ a.old = "discard" => DiscardBound(j, "rollback_old")
           /\ Bound(j, a) /\ a.new = "discard" => DiscardBound(j, "failed_new")
<1>1. /\ j.op \in Homes /\ j.old \in Homes /\ j.op # Nothing /\ j.old # Nothing
      /\ j.archive \in Archives /\ j.archive # None
      /\ \A s \in Spots : Path(j, s) \in Paths /\ At(j, s) = fs[Path(j, s)]
      /\ "gone" \notin Spots /\ "discard" \in Spots
  BY PathFacts, Numbers, ArchivesAssumption DEF Journals, At, Spots, Places
<1>2. \A s \in Spots : At(j, s) = IF a.old = s THEN j.old
                                  ELSE IF a.new = s THEN j.op ELSE Nothing
  BY DEF Stands
<1>3. j.op # j.old /\ receipt[j.old] # j.archive /\ (a.new # "gone" => receipt[j.op] = j.archive)
  BY DEF Stands
<1>4. a.old # a.new
  BY StageFacts
<1>5. ASSUME NEW s \in Spots
      PROVE  /\ Exists(j, s) <=> Holds(a, s)
             /\ IsOld(j, s) <=> a.old = s
             /\ IsNew(j, s) <=> a.new = s
  <2>1. CASE a.old = s
    BY <1>1, <1>2, <1>3, <1>4, <2>1 DEF Exists, Holds, IsOld, IsNew
  <2>2. CASE a.old # s /\ a.new = s
    BY <1>1, <1>2, <1>3, <1>4, <2>2 DEF Exists, Holds, IsOld, IsNew
  <2>3. CASE a.old # s /\ a.new # s
    BY <1>1, <1>2, <1>3, <1>4, <2>3 DEF Exists, Holds, IsOld, IsNew
  <2>4. QED
    BY <2>1, <2>2, <2>3
<1>6. ASSUME NEW s \in Spots, Holds(a, s), s # "discard" PROVE At(j, s) \in whole
  <2>1. Path(j, s) \in Paths /\ Path(j, s)[1] # "discard" /\ fs[Path(j, s)] = At(j, s)
    BY <1>1, <1>6 DEF Path, Dest
  <2>2. fs[Path(j, s)] \notin emptied
    BY <2>1 DEF HomeInv, DirsFit
  <2>3. CASE a.old = s
    BY <1>1, <1>2, <2>1, <2>2, <2>3, PathFacts DEF Known, KnownIn
  <2>4. CASE a.old # s
    <3>1. At(j, s) = j.op /\ receipt[j.op] = j.archive
      BY <1>1, <1>2, <1>3, <1>6, <2>4 DEF Holds
    <3>2. QED
      BY <1>1, <2>1, <2>2, <3>1 DEF HomeInv, DirsFit
  <2>5. QED
    BY <2>3, <2>4
<1>7. Bound(j, a) /\ a.old = "discard" => DiscardBound(j, "rollback_old")
  BY <1>1, <1>2 DEF Bound, DiscardBound, Exists
<1>8. Bound(j, a) /\ a.new = "discard" => DiscardBound(j, "failed_new")
  BY <1>1, <1>2, <1>4 DEF Bound, DiscardBound, Exists
<1>9. QED
  BY <1>5, <1>6, <1>7, <1>8

\* The effects and their stages are used up from the front.
LEMMA ScriptTail ==
    ASSUME NEW j, NEW t \in Seq(Steps), t # << >>, NEW w \in Seq(Stages), Script(j, t, w)
    PROVE  /\ Tail(w) \in Seq(Stages) /\ Script(j, Tail(t), Tail(w))
           /\ w[1] \in Stages /\ w[2] \in Stages /\ Tail(w)[1] = w[2]
           /\ Moves(w[1], Head(t), w[2]) /\ (Head(t).do = "look" => Tail(t) = << >>)
           /\ Rests(w[1]) /\ Bound(j, w[1]) /\ Rests(w[2]) /\ Bound(j, w[2])
           /\ Tail(w)[Len(Tail(w))] = w[Len(w)]
           /\ Tail(t) # << >> => Tail(t)[Len(Tail(t))] = t[Len(t)]
<1>1. /\ Len(t) \in Nat /\ Len(t) >= 1 /\ Head(t) = t[1] /\ Len(w) = Len(t) + 1
      /\ w[1] \in Stages /\ w[2] \in Stages /\ w # << >>
  BY DEF Script
<1>2. /\ Tail(t) \in Seq(Steps) /\ Len(Tail(t)) = Len(t) - 1
      /\ \A i \in 1..Len(Tail(t)) : Tail(t)[i] = t[i + 1]
  BY <1>1
<1>3. /\ Tail(w) \in Seq(Stages) /\ Len(Tail(w)) = Len(w) - 1
      /\ \A i \in 1..Len(Tail(w)) : Tail(w)[i] = w[i + 1]
  BY <1>1
<1>4. \A i \in 1..Len(Tail(w)) : Rests(Tail(w)[i]) /\ Bound(j, Tail(w)[i])
  <2>1. ASSUME NEW i \in 1..Len(Tail(w)) PROVE i + 1 \in 1..Len(w)
    BY <1>1, <1>3
  <2>2. QED
    BY <1>3, <2>1 DEF Script
<1>5. ASSUME NEW i \in 1..Len(Tail(t))
      PROVE  /\ Moves(Tail(w)[i], Tail(t)[i], Tail(w)[i + 1])
             /\ Tail(t)[i].do = "look" => i = Len(Tail(t))
  <2>1. /\ i + 1 \in 1..Len(t) /\ i \in 1..Len(Tail(w)) /\ i + 1 \in 1..Len(Tail(w))
        /\ i + 1 = Len(t) => i = Len(Tail(t))
    <3>. DEFINE m == Len(t)
    <3>1. m \in Nat /\ Len(Tail(t)) = m - 1 /\ Len(Tail(w)) = m /\ i \in 1..(m - 1)
      BY <1>1, <1>2, <1>3
    <3>. HIDE DEF m
    <3>2. i + 1 \in 1..m /\ i \in 1..m /\ (i + 1 = m => i = m - 1)
      BY SMTT(30), <3>1
    <3>3. QED
      BY <3>1, <3>2 DEF m
  <2>2. Tail(t)[i] = t[i + 1] /\ Tail(w)[i] = w[i + 1] /\ Tail(w)[i + 1] = w[(i + 1) + 1]
    BY <1>2, <1>3, <2>1
  <2>3. /\ Moves(w[i + 1], t[i + 1], w[(i + 1) + 1])
        /\ t[i + 1].do = "look" => i + 1 = Len(t)
    BY <2>1 DEF Script
  <2>4. QED
    BY SMTT(30), <2>1, <2>2, <2>3
<1>6. Script(j, Tail(t), Tail(w))
  <2>1. Len(Tail(w)) = Len(Tail(t)) + 1
    BY <1>1, <1>2, <1>3
  <2>2. QED
    BY <1>3, <1>4, <1>5, <2>1 DEF Script
<1>7. /\ Moves(w[1], t[1], w[2]) /\ (t[1].do = "look" => Len(t) = 1)
      /\ Rests(w[1]) /\ Bound(j, w[1]) /\ Rests(w[2]) /\ Bound(j, w[2])
  <2>1. 1 \in 1..Len(t) /\ 1 \in 1..Len(w) /\ 2 \in 1..Len(w) /\ 1 + 1 = 2
    BY <1>1
  <2>2. QED
    BY <2>1 DEF Script
<1>8. Len(t) = 1 => Tail(t) = << >>
  <2>. DEFINE u == Tail(t)
  <2>1. u \in Seq(Steps) /\ (Len(t) = 1 => Len(u) = 0)
    BY <1>1, <1>2
  <2>. HIDE DEF u
  <2>2. Len(u) = 0 => u = << >>
    BY <2>1, EmptySeq
  <2>3. QED
    BY <2>1, <2>2 DEF u
<1>9. Tail(w)[1] = w[2] /\ Tail(w)[Len(Tail(w))] = w[Len(w)]
  BY <1>1, <1>3
<1>10. Tail(t) # << >> => Tail(t)[Len(Tail(t))] = t[Len(t)]
  BY <1>1, <1>2
<1>11. QED
  BY <1>1, <1>3, <1>6, <1>7, <1>8, <1>9, <1>10

-----------------------------------------------------------------------------
\* What a script and a stage say of a journal does not depend on its status.
SameBinding(j, k) ==
    j.op = k.op /\ j.old = k.old /\ j.archive = k.archive /\ j.role = k.role /\ j.bound = k.bound

LEMMA SamePlace ==
    ASSUME NEW j, NEW k, j.op = k.op
    PROVE  \A s : Path(j, s) = Path(k, s) /\ At(j, s) = At(k, s) /\ At(j, s)' = At(k, s)'
BY DEF Path, At

LEMMA SameStands ==
    ASSUME NEW j, NEW k, j.op = k.op, j.old = k.old, j.archive = k.archive, NEW a
    PROVE  (Stands(j, a) <=> Stands(k, a)) /\ (Stands(j, a)' <=> Stands(k, a)')
<1>1. \A s : At(j, s) = At(k, s) /\ At(j, s)' = At(k, s)'
  BY SamePlace
<1>2. Stands(j, a) <=> Stands(k, a)
  BY <1>1 DEF Stands
<1>3. Stands(j, a)' <=> Stands(k, a)'
  BY <1>1 DEF Stands
<1>4. QED
  BY <1>2, <1>3

LEMMA SameBound ==
    ASSUME NEW j, NEW k, SameBinding(j, k)
    PROVE  /\ \A a : Bound(j, a) <=> Bound(k, a)
           /\ \A t, w : Script(j, t, w) <=> Script(k, t, w)
<1>1. \A a : Bound(j, a) <=> Bound(k, a)
  BY DEF SameBinding, Bound
<1>2. QED
  BY <1>1 DEF Script

\* The lone operator's call has done the first of its effects, and the operation is in the
\* stage the script says.
LEMMA EffectLone ==
    ASSUME LoneInv, HomeInv', torn' = {},
           NEW k, k = call[Operator], k.at # "idle", k.todo # << >>,
           NEW w \in Seq(Stages), WorkFits(k, w),
           NEW x, call'[Operator] = x, x.todo = Tail(k.todo),
           \A c \in Callers \ {Operator} : call'[c] = call[c],
           SameBinding(x.data, k.data),
           \A p \in Paths : fs'[p] = fs[p] \/ \E s \in Spots : p = Path(k.data, s),
           Stands(k.data, w[2])',
           journal' # NoJournal => journal' = x.data /\ journal'.status = w[2].status,
           journal' = NoJournal => /\ journal = NoJournal /\ w[2].status = None
                                   /\ fs'[Dest] \in whole' /\ x.data.status = k.data.status,
           x.at = "reconcile" => journal' # NoJournal /\ Agrees(x.seen, w[Len(w)], x.todo)
    PROVE  LoneInv'
<1>1. Operator \in Callers
  BY OperatorAssumption
<1>2. k.data \in Journals /\ k.todo \in Seq(Steps) /\ HomeInv
  BY <1>1, CallFacts DEF LoneInv
<1>3. /\ Tail(w) \in Seq(Stages) /\ Script(k.data, x.todo, Tail(w))
      /\ w[2] \in Stages /\ Tail(w)[1] = w[2] /\ Tail(w)[Len(Tail(w))] = w[Len(w)]
      /\ Rests(w[2]) /\ Bound(k.data, w[2])
  BY <1>2, ScriptTail DEF WorkFits
<1>4. /\ x.data.op = k.data.op /\ x.data.old = k.data.old /\ x.data.archive = k.data.archive
      /\ Script(x.data, x.todo, Tail(w)) /\ Bound(x.data, w[2]) /\ Stands(x.data, w[2])'
  BY <1>3, SameBound, SameStands DEF SameBinding
<1>5. Recorded' = w[2].status
  BY DEF Recorded
<1>6. WorkFits(x, Tail(w))'
  BY <1>3, <1>4, <1>5 DEF WorkFits, SameOperation
<1>7. ASSUME journal' # NoJournal PROVE JournalFits(w[2])'
  BY <1>3, <1>4, <1>7 DEF JournalFits
<1>8. ASSUME NEW p \in Paths \ {Dest}, p[1] # "prepared", fs'[p] # Nothing
      PROVE  journal' # NoJournal /\ p[2] = journal'.op
  <2>1. CASE fs'[p] = fs[p]
    <3>1. journal # NoJournal /\ p[2] = journal.op
      BY <1>8, <2>1 DEF LoneInv
    <3>2. journal.op = k.data.op
      BY <3>1 DEF WorkFits, SameOperation
    <3>3. QED
      BY <1>4, <3>1, <3>2
  <2>2. ASSUME NEW s \in Spots, p = Path(k.data, s) PROVE journal' # NoJournal /\ p[2] = journal'.op
    <3>1. s \in Places /\ p = <<s, k.data.op>> /\ s \in {"rollback", "discard", "failed"}
      BY <1>2, <1>8, <2>2, PathFacts DEF Spots, Places
    <3>2. fs'[p] = At(k.data, s)'
      BY <2>2 DEF At, Path
    <3>3. Holds(w[2], s)
      BY <1>8, <2>2, <3>2 DEF Stands, Holds
    <3>4. journal' # NoJournal
      BY <1>3, <3>1, <3>3, StageFacts
    <3>5. QED
      BY <1>4, <3>1, <3>4
  <2>3. QED
    BY <2>1, <2>2
<1>9. \A c \in Callers \ {Operator} : call'[c].at = "idle"
  BY DEF LoneInv
<1>10. QED
  BY <1>3, <1>6, <1>7, <1>8, <1>9 DEF LoneInv

\* What the effect a lone call does next does to the stage.
LEMMA NextEffect ==
    ASSUME LoneInv, NEW k, k = call[Operator], k.at # "idle", k.todo # << >>,
           NEW w \in Seq(Stages), WorkFits(k, w)
    PROVE  /\ Operator \in Callers /\ k \in CallRecords /\ k.data \in Journals /\ Known(k.data)
           /\ k.todo \in Seq(Steps) /\ Head(k.todo) \in Steps /\ Plain(Head(k.todo))
           /\ w[1] \in Stages /\ Rests(w[1]) /\ Bound(k.data, w[1]) /\ Stands(k.data, w[1])
           /\ w[2] \in Stages /\ Rests(w[2]) /\ Moves(w[1], Head(k.todo), w[2])
           /\ w[1].status = None <=> journal = NoJournal
           /\ Head(k.todo).do # "look" /\ k.at = "reconcile" =>
                 Agrees(k.seen, w[Len(w)], Tail(k.todo))
           /\ Head(k.todo).do # "write" /\ journal # NoJournal =>
                 journal = k.data /\ journal.status = w[1].status
<1>1. Operator \in Callers /\ HomeInv
  BY OperatorAssumption DEF LoneInv
<1>2. /\ k \in CallRecords /\ CallFits(Operator) /\ k.data \in Journals /\ k.todo \in Seq(Steps)
  BY <1>1, CallFacts
<1>3. Known(k.data) /\ Head(k.todo) \in Steps /\ Plain(Head(k.todo))
  BY <1>2, TailShaped DEF CallFits
<1>4. /\ w[1] \in Stages /\ Rests(w[1]) /\ Bound(k.data, w[1]) /\ Stands(k.data, w[1])
      /\ w[2] \in Stages /\ Rests(w[2]) /\ Moves(w[1], Head(k.todo), w[2])
      /\ Tail(k.todo) # << >> => Tail(k.todo)[Len(Tail(k.todo))] = k.todo[Len(k.todo)]
      /\ Tail(k.todo) = << >> => k.todo[Len(k.todo)] = Head(k.todo)
  <2>1. Tail(k.todo) = << >> => k.todo[Len(k.todo)] = Head(k.todo)
    <3>1. Len(k.todo) \in Nat /\ Len(k.todo) >= 1 /\ Head(k.todo) = k.todo[1]
          /\ Len(Tail(k.todo)) = Len(k.todo) - 1
      BY <1>2
    <3>2. Tail(k.todo) = << >> => Len(Tail(k.todo)) = 0
      OBVIOUS
    <3>3. Tail(k.todo) = << >> => Len(k.todo) = 1
      BY <3>1, <3>2
    <3>4. QED
      BY <3>1, <3>3
  <2>2. QED
    BY <1>2, <2>1, ScriptTail DEF WorkFits
<1>5. w[1].status = None <=> journal = NoJournal
  <2>1. journal # NoJournal => journal.status \in Statuses
    BY <1>1, TypeParts DEF HomeInv, Journals
  <2>2. None \notin Statuses
    BY DEF None, Statuses
  <2>3. QED
    BY <2>1, <2>2 DEF WorkFits, Recorded
<1>6. ASSUME Head(k.todo).do # "look", k.at = "reconcile"
      PROVE  Agrees(k.seen, w[Len(w)], Tail(k.todo))
  <2>1. Agrees(k.seen, w[Len(w)], k.todo)
    BY <1>6 DEF WorkFits
  <2>2. QED
    BY <1>4, <1>6, <2>1 DEF Agrees
<1>7. Head(k.todo).do # "write" /\ journal # NoJournal =>
          journal = k.data /\ journal.status = w[1].status
  BY DEF WorkFits, Recorded
<1>8. QED
  BY <1>1, <1>2, <1>3, <1>4, <1>5, <1>6, <1>7

\* A call in progress has a script.
LEMMA HasScript ==
    ASSUME LoneInv, call[Operator].at # "idle" \/ call[Operator].todo # << >>
    PROVE  call[Operator].at # "idle" /\ \E w \in Seq(Stages) : WorkFits(call[Operator], w)
<1>1. call[Operator].at # "idle"
  BY CallFacts, OperatorAssumption DEF LoneInv, CallFits
<1>2. QED
  BY <1>1 DEF LoneInv

\* The record of a call after an effect.
LEMMA DoneRecord ==
    ASSUME HomeInv, NEW c \in Callers, call' = Done1(c)
    PROVE  /\ call'[c].at = call[c].at /\ call'[c].mode = call[c].mode
           /\ call'[c].data = call[c].data /\ call'[c].seen = call[c].seen
           /\ call'[c].todo = Tail(call[c].todo)
           /\ \A d \in Callers \ {c} : call'[d] = call[d]
<1>1. call \in [Callers -> CallRecords] /\ call[c] \in CallRecords
  BY TypeParts DEF HomeInv
<1>2. call'[c] = [call[c] EXCEPT !.todo = Tail(call[c].todo)]
  BY <1>1 DEF Done1
<1>3. QED
  BY <1>1, <1>2 DEF Done1, CallRecords

\* Nothing but the call has changed.
LEMMA QuietLone ==
    ASSUME LoneInv, HomeInv', torn' = {}, UNCHANGED <<fs, receipt, whole, journal>>,
           NEW x, x = call'[Operator],
           x.at # "idle" => x = call[Operator] \/ \E w \in Seq(Stages) : WorkFits(x, w),
           \A c \in Callers \ {Operator} : call'[c] = call[c]
    PROVE  LoneInv'
<1>1. \A j, a : Stands(j, a)' <=> Stands(j, a)
  BY DEF Stands, At, Path
<1>2. \A a : JournalFits(a)' <=> JournalFits(a)
  BY <1>1 DEF JournalFits
<1>3. \A k, w : WorkFits(k, w)' <=> WorkFits(k, w)
  BY <1>1 DEF WorkFits, Recorded
<1>4. x.at # "idle" => \E w \in Seq(Stages) : WorkFits(x, w)'
  BY <1>3 DEF LoneInv
<1>5. QED
  BY <1>2, <1>4 DEF LoneInv

\* An effect that leaves the journal alone.
LEMMA EffectDone ==
    ASSUME LoneInv, HomeInv', torn' = {}, NEW k, k = call[Operator], NEW j, j = k.data,
           k.at # "idle", k.todo # << >>, Head(k.todo).do \notin {"look", "write"},
           NEW w \in Seq(Stages), WorkFits(k, w),
           call' = Done1(Operator), journal' = journal,
           \A p \in Paths : fs'[p] = fs[p] \/ \E s \in Spots : p = Path(j, s),
           Stands(j, w[2])', w[2].status = w[1].status,
           journal = NoJournal => fs'[Dest] \in whole'
    PROVE  LoneInv'
<1>1. /\ Operator \in Callers /\ HomeInv
      /\ w[1].status = None <=> journal = NoJournal
      /\ k.at = "reconcile" => Agrees(k.seen, w[Len(w)], Tail(k.todo))
      /\ journal # NoJournal => journal = k.data /\ journal.status = w[1].status
  BY NextEffect DEF LoneInv
<1>2. PICK x : x = call'[Operator]
  OBVIOUS
<1>3. /\ x.at = k.at /\ x.data = k.data /\ x.seen = k.seen /\ x.todo = Tail(k.todo)
      /\ \A c \in Callers \ {Operator} : call'[c] = call[c]
  BY <1>1, <1>2, DoneRecord
<1>4. SameBinding(x.data, k.data)
  BY <1>3 DEF SameBinding
<1>5. /\ journal' # NoJournal => journal' = x.data /\ journal'.status = w[2].status
      /\ journal' = NoJournal => /\ journal = NoJournal /\ w[2].status = None
                                 /\ fs'[Dest] \in whole' /\ x.data.status = k.data.status
  BY <1>1, <1>3
<1>6. x.at = "reconcile" => journal' # NoJournal /\ Agrees(x.seen, w[Len(w)], x.todo)
  BY <1>1, <1>3 DEF WorkFits
<1>7. Stands(k.data, w[2])' /\ \A p \in Paths : fs'[p] = fs[p] \/ \E s \in Spots : p = Path(k.data, s)
  OBVIOUS
<1>8. QED
  BY <1>2, <1>3, <1>4, <1>5, <1>6, <1>7, EffectLone

LEMMA RestoreLone ==
    ASSUME LoneInv, HomeInv', torn' = {}, Restore(Operator),
           NEW k, k = call[Operator], NEW j, j = k.data, k.at # "idle",
           NEW w \in Seq(Stages), WorkFits(k, w)
    PROVE  LoneInv' /\ Keeping!KNext
<1>1. k.todo # << >> /\ Head(k.todo).do = "restore"
  BY DEF Restore, Next1
<1>3. /\ Operator \in Callers /\ j \in Journals /\ Known(j)
      /\ w[1] \in Stages /\ Rests(w[1]) /\ Stands(j, w[1])
      /\ w[1].status = None /\ w[1].new = "gone" /\ w[2] = [w[1] EXCEPT !.new = "prepared"]
      /\ journal = NoJournal
      /\ k.at = "reconcile" => Agrees(k.seen, w[Len(w)], Tail(k.todo))
  BY <1>1, NextEffect DEF Moves
<1>4. w[1].old = "dest" /\ w[2].old = "dest" /\ w[2].new = "prepared" /\ w[2].status = None
  BY <1>3 DEF Rests, Stages, None
<1>5. k.at # "reconcile"
  BY <1>3 DEF WorkFits
<1>6. /\ fs' = [fs EXCEPT ![Path(j, "prepared")] = j.op]
      /\ receipt' = [receipt EXCEPT ![j.op] = j.archive]
      /\ whole' = whole \cup {j.op} /\ journal' = journal /\ call' = Done1(Operator)
  BY DEF Restore
<1>7. /\ fs \in [Paths -> Homes \cup {Nothing}] /\ receipt \in [Homes -> Archives \cup {None}]
      /\ HomeInv /\ whole \subseteq Homes
  BY TypeParts DEF LoneInv, HomeInv
<1>8. /\ j.op \in Homes /\ j.old \in Homes /\ j.old # Nothing
      /\ \A s \in Spots : Path(j, s) \in Paths /\ (s # "prepared" => Path(j, s) # Path(j, "prepared"))
      /\ "prepared" \in Spots /\ "dest" \in Spots /\ Path(j, "dest") = Dest
  BY <1>3, PathFacts, Numbers DEF Spots, Places
<1>9. Stands(j, w[2])'
  <2>1. \A s \in Spots : At(j, s)' = IF s = "prepared" THEN j.op ELSE At(j, s)
    BY <1>6, <1>7, <1>8 DEF At, Path
  <2>2. \A s \in Spots : At(j, s) = IF "dest" = s THEN j.old ELSE Nothing
    BY <1>3, <1>4, <1>8 DEF Stands, Spots, Places
  <2>3. \A s \in Spots : At(j, s)' = IF w[2].old = s THEN j.old ELSE IF w[2].new = s THEN j.op ELSE Nothing
    BY <1>4, <2>1, <2>2
  <2>4. /\ j.op # j.old /\ receipt[j.old] # j.archive
        /\ receipt'[j.old] # j.archive /\ receipt'[j.op] = j.archive
    BY <1>3, <1>6, <1>7, <1>8 DEF Stands
  <2>5. QED
    BY <1>4, <2>3, <2>4 DEF Stands
<1>10. fs'[Dest] = fs[Dest] /\ fs[Dest] = j.old /\ fs[Dest] \in whole
  <2>1. fs[Dest] = At(j, "dest") /\ At(j, "dest") = j.old
    BY <1>3, <1>4, <1>8 DEF Stands, At
  <2>2. fs'[Dest] = fs[Dest]
    BY <1>6, <1>7, <1>8 DEF Spots, Places
  <2>3. QED
    BY <1>3, <2>1, <2>2 DEF LoneInv
<1>11. LoneInv'
  <2>1. \A p \in Paths : fs'[p] = fs[p] \/ \E s \in Spots : p = Path(j, s)
    BY <1>6, <1>7, <1>8
  <2>2. Head(k.todo).do \notin {"look", "write"} /\ w[2].status = w[1].status
    BY <1>1, <1>3, <1>4
  <2>3. fs'[Dest] \in whole'
    BY <1>6, <1>10
  <2>4. QED
    BY <1>1, <1>6, <1>9, <2>1, <2>2, <2>3, EffectDone
<1>12. Keeping!Add(j.op)
  <2>1. j.op \notin whole
    <3>1. CallFits(Operator) /\ Awaits(Operator)
      BY <1>1, <1>3, <1>7, CallFacts DEF Awaits
    <3>2. QED
      BY <3>1 DEF CallFits, Fresh, FreshIn
  <2>2. QED
    BY <1>6, <1>8, <1>10, <2>1 DEF Keeping!Add
<1>13. QED
  BY <1>8, <1>11, <1>12 DEF Keeping!KNext

LEMMA RenameLone ==
    ASSUME LoneInv, HomeInv', torn' = {}, Rename(Operator),
           NEW k, k = call[Operator], NEW j, j = k.data, k.at # "idle",
           NEW w \in Seq(Stages), WorkFits(k, w)
    PROVE  LoneInv' /\ [Keeping!KNext]_<<whole, fs[Dest]>>
<1>1. k.todo # << >> /\ Head(k.todo).do = "rename"
  BY DEF Rename, Next1
<1>2. PICK e : e = Head(k.todo)
  OBVIOUS
<1>3. PICK a : a = w[1]
  OBVIOUS
<1>4. PICK b : b = w[2]
  OBVIOUS
<1>5. /\ Operator \in Callers /\ j \in Journals /\ Known(j) /\ e \in Steps /\ e.do = "rename" /\ Plain(e)
      /\ a \in Stages /\ Rests(a) /\ Stands(j, a) /\ b \in Stages /\ Rests(b)
      /\ a.status = None <=> journal = NoJournal
      /\ Holds(a, e.from) /\ ~Holds(a, e.to)
      /\ b = [status |-> a.status, old |-> Moved(a.old, e.from, e.to),
              new |-> Moved(a.new, e.from, e.to)]
  BY <1>1, <1>2, <1>3, <1>4, NextEffect DEF Moves
<1>6. /\ e.from \in Spots /\ e.to \in Spots /\ e.from # e.to /\ e.from # "discard" /\ e.to # "prepared"
  BY <1>5, StepFacts DEF Plain
<1>7. /\ fs' = [fs EXCEPT ![Path(j, e.to)] = At(j, e.from), ![Path(j, e.from)] = Nothing]
      /\ call' = Done1(Operator)
      /\ receipt' = receipt /\ whole' = whole /\ journal' = journal
  BY <1>2 DEF Rename
<1>8. /\ fs \in [Paths -> Homes \cup {Nothing}] /\ HomeInv
  BY TypeParts DEF LoneInv, HomeInv
<1>9. /\ \A s \in Spots : Path(j, s) \in Paths
      /\ \A s, t \in Spots : s # t => Path(j, s) # Path(j, t)
      /\ Path(j, "dest") = Dest /\ "dest" \in Spots
  BY <1>5, PathFacts DEF Spots, Places
<1>10. \A s \in Spots : At(j, s)' = IF s = e.from THEN Nothing
                                    ELSE IF s = e.to THEN At(j, e.from) ELSE At(j, s)
  BY <1>6, <1>7, <1>8, <1>9 DEF At, Path
<1>11. /\ \A s \in Spots : At(j, s) = IF a.old = s THEN j.old ELSE IF a.new = s THEN j.op ELSE Nothing
       /\ j.op # j.old /\ receipt[j.old] # j.archive
       /\ a.new # "gone" => receipt[j.op] = j.archive
  BY <1>5 DEF Stands
<1>12. /\ b.old = Moved(a.old, e.from, e.to) /\ b.new = Moved(a.new, e.from, e.to)
       /\ b.status = a.status /\ a.old # a.new /\ "gone" \notin Spots
  BY <1>5, StageFacts DEF Spots, Places
<1>13. Stands(j, b)'
  <2>1. ASSUME NEW s \in Spots
        PROVE  At(j, s)' = IF b.old = s THEN j.old ELSE IF b.new = s THEN j.op ELSE Nothing
    <3>1. CASE s = e.from
      BY <1>6, <1>10, <1>12, <3>1 DEF Moved
    <3>2. CASE s = e.to
      BY <1>5, <1>6, <1>10, <1>11, <1>12, <3>2 DEF Moved, Holds
    <3>3. CASE s # e.from /\ s # e.to
      BY <1>6, <1>10, <1>11, <1>12, <3>3 DEF Moved
    <3>4. QED
      BY <3>1, <3>2, <3>3
  <2>2. b.new # "gone" => a.new # "gone"
    BY <1>6, <1>12 DEF Moved
  <2>3. QED
    BY <1>7, <1>11, <2>1, <2>2 DEF Stands
<1>14. journal # NoJournal
  <2>1. SUFFICES ASSUME a.status = None PROVE FALSE
    BY <1>5
  <2>2. (a.old = "dest" /\ a.new \in {"gone", "prepared"}) \/ (a.old = "gone" /\ a.new = "dest")
    BY <1>5, <2>1, StageFacts
  <2>3. (b.old = "dest" /\ b.new \in {"gone", "prepared"}) \/ (b.old = "gone" /\ b.new = "dest")
    BY <1>5, <1>12, <2>1, StageFacts
  <2>4. QED
    BY <1>5, <1>6, <1>12, <2>2, <2>3 DEF Moved, Holds
<1>15. LoneInv'
  <2>1. \A p \in Paths : fs'[p] = fs[p] \/ \E s \in Spots : p = Path(j, s)
    BY <1>6, <1>7, <1>8, <1>9
  <2>2. Head(k.todo).do \notin {"look", "write"} /\ w[2].status = w[1].status /\ Stands(j, w[2])'
    BY <1>1, <1>3, <1>4, <1>12, <1>13
  <2>3. call' = Done1(Operator) /\ journal' = journal
    BY <1>7
  <2>4. QED
    BY <1>1, <1>14, <2>1, <2>2, <2>3, EffectDone
<1>16. /\ fs[Dest] = At(j, "dest")
       /\ fs'[Dest] = IF e.from = "dest" THEN Nothing
                      ELSE IF e.to = "dest" THEN At(j, e.from) ELSE fs[Dest]
  <2>1. fs[Dest] = At(j, "dest") /\ fs'[Dest] = At(j, "dest")'
    BY <1>9 DEF At, Path
  <2>2. QED
    BY <1>9, <1>10, <2>1
<1>17. At(j, e.from) \in whole
  BY <1>5, <1>6, <1>8, StageTells DEF LoneInv
<1>18. 0 \notin whole /\ whole \subseteq Homes
  BY <1>8, TypeParts, Numbers DEF HomeInv, Nothing
<1>19. [Keeping!KNext]_<<whole, fs[Dest]>>
  <2>1. CASE e.from = "dest"
    <3>1. fs[Dest] # Nothing /\ fs'[Dest] = Nothing
      BY <1>16, <1>17, <1>18, <2>1 DEF Nothing
    <3>2. Keeping!Withdraw
      BY <1>7, <3>1 DEF Keeping!Withdraw
    <3>3. QED
      BY <3>2 DEF Keeping!KNext
  <2>2. CASE e.to = "dest"
    <3>1. fs[Dest] = Nothing
      BY <1>5, <1>9, <1>11, <1>16, <2>2 DEF Holds
    <3>2. fs'[Dest] = At(j, e.from)
      BY <1>6, <1>16, <2>2
    <3>3. Keeping!Serve(At(j, e.from))
      BY <1>7, <1>17, <3>1, <3>2 DEF Keeping!Serve
    <3>4. At(j, e.from) \in Homes
      BY <1>17, <1>18
    <3>5. QED
      BY <3>3, <3>4 DEF Keeping!KNext
  <2>3. CASE e.from # "dest" /\ e.to # "dest"
    BY <1>7, <1>16, <2>3
  <2>4. QED
    BY <2>1, <2>2, <2>3
<1>20. QED
  BY <1>15, <1>19

LEMMA WriteLone ==
    ASSUME LoneInv, HomeInv', torn' = {}, Write(Operator),
           NEW k, k = call[Operator], k.at # "idle", NEW w \in Seq(Stages), WorkFits(k, w)
    PROVE  LoneInv' /\ UNCHANGED <<whole, fs[Dest]>>
<1>1. k.todo # << >> /\ Head(k.todo).do = "write"
  BY DEF Write, Next1
<1>2. /\ Operator \in Callers /\ k \in CallRecords /\ k.data \in Journals
      /\ w[1] \in Stages /\ Stands(k.data, w[1])
      /\ w[2] = [w[1] EXCEPT !.status = Head(k.todo).from]
      /\ Head(k.todo) \in Steps
      /\ k.at = "reconcile" => Agrees(k.seen, w[Len(w)], Tail(k.todo))
  BY <1>1, NextEffect DEF Moves
<1>3. PICK e : e = Head(k.todo)
  OBVIOUS
<1>4. PICK d : d = [k.data EXCEPT !.status = e.from]
  OBVIOUS
<1>5. PICK x : x = [k EXCEPT !.data = d, !.todo = Tail(k.todo)]
  OBVIOUS
<1>6. /\ e.from \in Statuses /\ d \in Journals /\ d.status = e.from /\ SameBinding(d, k.data)
      /\ d # NoJournal
  <2>1. e.from \in Statuses
    BY <1>1, <1>2, <1>3, StepFacts
  <2>2. d \in Journals /\ d.status = e.from /\ SameBinding(d, k.data)
    BY <1>2, <1>4, <2>1 DEF Journals, SameBinding
  <2>3. QED
    BY <2>1, <2>2, PathFacts
<1>7. /\ journal' = d /\ call' = [call EXCEPT ![Operator] = x]
      /\ UNCHANGED <<fs, receipt, whole>>
  <2>1. /\ journal' = d /\ UNCHANGED <<fs, receipt, whole>>
        /\ call' = [call EXCEPT ![Operator].data.status = e.from, ![Operator].todo = Tail(@)]
    BY <1>3, <1>4 DEF Write
  <2>2. call \in [Callers -> CallRecords]
    BY TypeParts DEF LoneInv, HomeInv
  <2>3. call' = [call EXCEPT ![Operator] = x]
    BY <1>2, <1>4, <1>5, <2>1, <2>2 DEF CallRecords
  <2>4. QED
    BY <2>1, <2>3
<1>8. /\ x.at = k.at /\ x.data = d /\ x.seen = k.seen /\ x.todo = Tail(k.todo)
  BY <1>2, <1>5 DEF CallRecords
<1>9. call'[Operator] = x /\ \A c \in Callers \ {Operator} : call'[c] = call[c]
  <2>1. call \in [Callers -> CallRecords]
    BY TypeParts DEF LoneInv, HomeInv
  <2>2. QED
    BY <1>2, <1>7, <2>1
<1>10. /\ w[2].status = e.from /\ w[2].old = w[1].old /\ w[2].new = w[1].new
  BY <1>2, <1>3 DEF Stages
<1>11. Stands(k.data, w[2])'
  <2>1. \A s : At(k.data, s)' = At(k.data, s)
    BY <1>7 DEF At, Path
  <2>2. QED
    BY <1>2, <1>7, <1>10, <2>1 DEF Stands
<1>12. \A p \in Paths : fs'[p] = fs[p]
  BY <1>7
<1>13. LoneInv'
  BY <1>1, <1>2, <1>6, <1>7, <1>8, <1>9, <1>10, <1>11, <1>12, EffectLone
<1>14. QED
  BY <1>7, <1>13

\* Effects that leave directories and journal alone.
LEMMA SameStage ==
    ASSUME UNCHANGED <<fs, receipt>>, NEW j, NEW a, Stands(j, a)
    PROVE  Stands(j, a)'
<1>1. \A s : At(j, s)' = At(j, s)
  BY DEF At, Path
<1>2. QED
  BY <1>1 DEF Stands

LEMMA LookAgainLone ==
    ASSUME LoneInv, HomeInv', torn' = {}, LookAgain(Operator),
           NEW k, k = call[Operator], k.at # "idle", NEW w \in Seq(Stages), WorkFits(k, w)
    PROVE  LoneInv' /\ UNCHANGED <<whole, fs[Dest]>>
<1>1. k.todo # << >> /\ Head(k.todo).do = "look"
  BY DEF LookAgain, Next1
<1>2. /\ Operator \in Callers /\ k \in CallRecords /\ k.data \in Journals /\ Known(k.data)
      /\ w[1] \in Stages /\ Rests(w[1]) /\ Stands(k.data, w[1]) /\ w[2] = w[1]
      /\ k.todo \in Seq(Steps)
      /\ w[1].status = None <=> journal = NoJournal
      /\ journal # NoJournal => journal = k.data /\ journal.status = w[1].status
  BY <1>1, NextEffect DEF Moves
<1>3. Tail(k.todo) = << >> /\ Tail(w)[Len(Tail(w))] = w[Len(w)] /\ Script(k.data, Tail(k.todo), Tail(w))
      /\ Tail(w)[1] = w[2]
  BY <1>1, <1>2, ScriptTail DEF WorkFits
<1>4. w[Len(w)] = w[1]
  <2>1. Len(Tail(w)) = 1
    <3>1. Script(k.data, << >>, Tail(w)) /\ Len(<< >>) = 0
      BY <1>3
    <3>2. QED
      BY <3>1 DEF Script
  <2>2. QED
    BY <1>2, <1>3, <2>1
<1>5. PICK n : n = IsNew(k.data, "dest")
  OBVIOUS
<1>6. PICK x : x = [k EXCEPT !.seen.new = n, !.todo = Tail(k.todo)]
  OBVIOUS
<1>7. /\ call \in [Callers -> CallRecords] /\ UNCHANGED <<fs, receipt, whole, journal>>
      /\ call' = [call EXCEPT ![Operator].seen.new = n, ![Operator].todo = Tail(@)]
  BY <1>5, TypeParts DEF LoneInv, HomeInv, LookAgain
<1>8. call'[Operator] = x /\ \A c \in Callers \ {Operator} : call'[c] = call[c]
  BY <1>2, <1>6, <1>7 DEF CallRecords
<1>9. /\ x.at = k.at /\ x.data = k.data /\ x.todo = Tail(k.todo)
      /\ x.seen = [k.seen EXCEPT !.new = n]
  BY <1>2, <1>6 DEF CallRecords
<1>10. n <=> w[1].new = "dest"
  BY <1>2, <1>5, StageTells DEF LoneInv, Spots
<1>11. k.at = "reconcile" => Agrees(x.seen, w[Len(w)], x.todo)
  <2>1. k.at = "reconcile" => Agrees(k.seen, w[Len(w)], k.todo)
    BY DEF WorkFits
  <2>2. k.seen \in Seen
    BY <1>2 DEF CallRecords
  <2>3. /\ x.seen.dest = k.seen.dest /\ x.seen.prepared = k.seen.prepared
        /\ x.seen.rollback = k.seen.rollback /\ x.seen.discard = k.seen.discard
        /\ x.seen.new = n
    BY <1>9, <2>2 DEF Seen
  <2>4. QED
    BY <1>4, <1>10, <2>1, <2>3 DEF Agrees
<1>12. SameBinding(x.data, k.data) /\ Stands(k.data, w[2])'
  BY <1>2, <1>7, <1>9, SameStage DEF SameBinding
<1>13. /\ journal' # NoJournal => journal' = x.data /\ journal'.status = w[2].status
       /\ journal' = NoJournal => /\ journal = NoJournal /\ w[2].status = None /\ fs'[Dest] \in whole'
  BY <1>2, <1>7, <1>9 DEF LoneInv
<1>14. x.at = "reconcile" => journal' # NoJournal /\ Agrees(x.seen, w[Len(w)], x.todo)
  BY <1>7, <1>9, <1>11 DEF WorkFits
<1>15. \A p \in Paths : fs'[p] = fs[p]
  BY <1>7
<1>16. LoneInv'
  BY <1>1, <1>8, <1>9, <1>12, <1>13, <1>14, <1>15, EffectLone
<1>17. QED
  BY <1>7, <1>16

LEMMA EmptyLone ==
    ASSUME LoneInv, HomeInv', torn' = {}, Empty(Operator),
           NEW k, k = call[Operator], NEW j, j = k.data, k.at # "idle",
           NEW w \in Seq(Stages), WorkFits(k, w)
    PROVE  LoneInv' /\ [Keeping!KNext]_<<whole, fs[Dest]>>
<1>1. k.todo # << >> /\ Head(k.todo).do = "empty"
  BY DEF Empty, Next1
<1>2. /\ j \in Journals /\ Known(j) /\ w[1] \in Stages /\ Rests(w[1]) /\ Stands(j, w[1])
      /\ w[1].status = None <=> journal = NoJournal
      /\ Holds(w[1], "dest") /\ Holds(w[1], "discard") /\ w[2] = w[1]
  BY <1>1, NextEffect DEF Moves
<1>3. PICK h : h = At(j, "discard")
  OBVIOUS
<1>4. /\ UNCHANGED <<fs, receipt, journal>> /\ whole' = whole \ {h} /\ call' = Done1(Operator)
  BY <1>3 DEF Empty
<1>5. HomeInv /\ torn = {} /\ journal # NoJournal /\ "dest" \in Spots /\ "discard" \in Spots
  BY <1>2, StageFacts DEF LoneInv, Spots, Places
<1>6. LoneInv'
  <2>1. Stands(j, w[2])'
    BY <1>2, <1>4, SameStage
  <2>2. \A p \in Paths : fs'[p] = fs[p]
    BY <1>4
  <2>3. Head(k.todo).do \notin {"look", "write"} /\ w[2].status = w[1].status
    BY <1>1, <1>2
  <2>4. call' = Done1(Operator) /\ journal' = journal
    BY <1>4
  <2>5. QED
    BY <1>1, <1>5, <2>1, <2>2, <2>3, <2>4, EffectDone
<1>7. fs[Dest] \in whole /\ fs[Dest] # h
  <2>1. fs[Dest] = At(j, "dest") /\ At(j, "dest") \in whole
    BY <1>2, <1>5, StageTells DEF At, Path
  <2>2. At(j, "dest") # At(j, "discard")
    BY <1>2, <1>5 DEF Stands, Holds
  <2>3. QED
    BY <1>3, <2>1, <2>2
<1>8. whole \subseteq Homes /\ Nothing \notin Homes
  BY <1>5, TypeParts, Numbers DEF HomeInv
<1>9. [Keeping!KNext]_<<whole, fs[Dest]>>
  <2>1. CASE h \in whole
    <3>1. Keeping!Discard(h)
      BY <1>4, <1>7, <1>8, <2>1 DEF Keeping!Discard
    <3>2. QED
      BY <1>8, <2>1, <3>1 DEF Keeping!KNext
  <2>2. CASE h \notin whole
    BY <1>4, <2>2
  <2>3. QED
    BY <2>1, <2>2
<1>10. QED
  BY <1>6, <1>9

\* A deletion that stops half-way ends the call in the stage it was in.
LEMMA EmptyCutShortLone ==
    ASSUME LoneInv, HomeInv', torn' = {}, EmptyCutShort(Operator),
           NEW k, k = call[Operator], NEW j, j = k.data, k.at # "idle",
           NEW w \in Seq(Stages), WorkFits(k, w)
    PROVE  LoneInv' /\ [Keeping!KNext]_<<whole, fs[Dest]>>
<1>1. k.todo # << >> /\ Head(k.todo).do = "empty"
  BY DEF EmptyCutShort, Next1
<1>2. /\ Operator \in Callers /\ j \in Journals /\ Known(j)
      /\ w[1] \in Stages /\ Rests(w[1]) /\ Bound(j, w[1]) /\ Stands(j, w[1])
      /\ w[1].status = None <=> journal = NoJournal
      /\ Holds(w[1], "dest") /\ Holds(w[1], "discard")
      /\ journal # NoJournal => journal = j /\ journal.status = w[1].status
  BY <1>1, NextEffect DEF Moves
<1>3. PICK h : h = At(j, "discard")
  OBVIOUS
<1>4. /\ UNCHANGED <<fs, receipt, journal>> /\ whole' = whole \ {h}
      /\ call' = [call EXCEPT ![Operator] = Idle]
  BY <1>3 DEF EmptyCutShort
<1>5. HomeInv /\ torn = {} /\ journal # NoJournal /\ "dest" \in Spots /\ "discard" \in Spots
  BY <1>2, StageFacts DEF LoneInv, Spots, Places
<1>6. /\ call'[Operator].at = "idle" /\ \A c \in Callers \ {Operator} : call'[c].at = "idle"
  <2>1. call \in [Callers -> CallRecords]
    BY <1>5, TypeParts DEF HomeInv
  <2>2. QED
    BY <1>2, <1>4, <2>1 DEF LoneInv, Idle
<1>7. JournalFits(w[1])'
  <2>1. Stands(j, w[1])'
    BY <1>2, <1>4, SameStage
  <2>2. QED
    BY <1>2, <1>4, <1>5, <2>1 DEF JournalFits
<1>8. LoneInv'
  BY <1>2, <1>4, <1>5, <1>6, <1>7 DEF LoneInv
<1>9. fs[Dest] \in whole /\ fs[Dest] # h
  <2>1. fs[Dest] = At(j, "dest") /\ At(j, "dest") \in whole
    BY <1>2, <1>5, StageTells DEF At, Path
  <2>2. At(j, "dest") # At(j, "discard")
    BY <1>2, <1>5 DEF Stands, Holds
  <2>3. QED
    BY <1>3, <2>1, <2>2
<1>10. whole \subseteq Homes /\ Nothing \notin Homes
  BY <1>5, TypeParts, Numbers DEF HomeInv
<1>11. [Keeping!KNext]_<<whole, fs[Dest]>>
  <2>1. CASE h \in whole
    <3>1. Keeping!Discard(h)
      BY <1>4, <1>9, <1>10, <2>1 DEF Keeping!Discard
    <3>2. QED
      BY <1>10, <2>1, <3>1 DEF Keeping!KNext
  <2>2. CASE h \notin whole
    BY <1>4, <2>2
  <2>3. QED
    BY <2>1, <2>2
<1>12. QED
  BY <1>8, <1>11

LEMMA RemoveRootLone ==
    ASSUME LoneInv, HomeInv', torn' = {}, RemoveRoot(Operator),
           NEW k, k = call[Operator], NEW j, j = k.data, k.at # "idle",
           NEW w \in Seq(Stages), WorkFits(k, w)
    PROVE  LoneInv' /\ UNCHANGED <<whole, fs[Dest]>>
<1>1. k.todo # << >> /\ Head(k.todo).do = "rmdir"
  BY DEF RemoveRoot, Next1
<1>2. PICK a : a = w[1]
  OBVIOUS
<1>3. PICK b : b = w[2]
  OBVIOUS
<1>4. /\ j \in Journals /\ a \in Stages /\ Rests(a) /\ Stands(j, a)
      /\ a.status = None <=> journal = NoJournal
      /\ Holds(a, "discard")
      /\ b = [status |-> a.status, old |-> Moved(a.old, "discard", "gone"),
              new |-> Moved(a.new, "discard", "gone")]
  BY <1>1, <1>2, <1>3, NextEffect DEF Moves
<1>5. /\ fs' = [fs EXCEPT ![Path(j, "discard")] = Nothing] /\ call' = Done1(Operator)
      /\ UNCHANGED <<receipt, whole, journal>>
  BY DEF RemoveRoot
<1>6. fs \in [Paths -> Homes \cup {Nothing}] /\ journal # NoJournal
  BY <1>4, StageFacts, TypeParts DEF LoneInv, HomeInv
<1>7. /\ \A s \in Spots : /\ Path(j, s) \in Paths
                          /\ s # "discard" => Path(j, s) # Path(j, "discard")
      /\ Path(j, "dest") = Dest /\ "dest" \in Spots /\ "discard" \in Spots /\ "gone" \notin Spots
  BY <1>4, PathFacts DEF Spots, Places
<1>8. \A s \in Spots : At(j, s)' = IF s = "discard" THEN Nothing ELSE At(j, s)
  BY <1>5, <1>6, <1>7 DEF At, Path
<1>9. /\ b.old = Moved(a.old, "discard", "gone") /\ b.new = Moved(a.new, "discard", "gone")
      /\ b.status = a.status
  BY <1>4
<1>10. Stands(j, b)'
  <2>1. /\ \A s \in Spots : At(j, s) = IF a.old = s THEN j.old ELSE IF a.new = s THEN j.op ELSE Nothing
        /\ j.op # j.old /\ receipt[j.old] # j.archive
        /\ a.new # "gone" => receipt[j.op] = j.archive
    BY <1>4 DEF Stands
  <2>2. ASSUME NEW s \in Spots
        PROVE  At(j, s)' = IF b.old = s THEN j.old ELSE IF b.new = s THEN j.op ELSE Nothing
    <3>1. CASE s = "discard"
      BY <1>7, <1>8, <1>9, <3>1 DEF Moved
    <3>2. CASE s # "discard"
      BY <1>7, <1>8, <1>9, <2>1, <3>2 DEF Moved
    <3>3. QED
      BY <3>1, <3>2
  <2>3. b.new # "gone" => a.new # "gone"
    BY <1>9 DEF Moved
  <2>4. QED
    BY <1>5, <2>1, <2>2, <2>3 DEF Stands
<1>11. LoneInv'
  <2>1. \A p \in Paths : fs'[p] = fs[p] \/ \E s \in Spots : p = Path(j, s)
    BY <1>5, <1>6, <1>7
  <2>2. Head(k.todo).do \notin {"look", "write"} /\ w[2].status = w[1].status /\ Stands(j, w[2])'
    BY <1>1, <1>2, <1>3, <1>9, <1>10
  <2>3. call' = Done1(Operator) /\ journal' = journal
    BY <1>5
  <2>4. QED
    BY <1>1, <1>6, <2>1, <2>2, <2>3, EffectDone
<1>12. fs'[Dest] = fs[Dest]
  BY <1>5, <1>6, <1>7
<1>13. QED
  BY <1>5, <1>11, <1>12

LEMMA WriteReceiptLone ==
    ASSUME LoneInv, HomeInv', torn' = {}, WriteReceipt(Operator),
           NEW k, k = call[Operator], NEW j, j = k.data, k.at # "idle",
           NEW w \in Seq(Stages), WorkFits(k, w)
    PROVE  LoneInv' /\ UNCHANGED <<whole, fs[Dest]>>
<1>1. k.todo # << >> /\ Head(k.todo).do = "receipt"
  BY DEF WriteReceipt, Next1
<1>2. /\ j \in Journals /\ Known(j) /\ w[1] \in Stages /\ Rests(w[1]) /\ Stands(j, w[1])
      /\ Holds(w[1], "dest") /\ w[2] = w[1]
  BY <1>1, NextEffect DEF Moves
<1>3. fs[Dest] # Nothing
  <2>1. Exists(j, "dest")
    BY <1>2, StageTells DEF LoneInv, Spots
  <2>2. QED
    BY <2>1 DEF Exists, At, Path
<1>4. /\ UNCHANGED <<fs, receipt, journal, whole>> /\ call' = Done1(Operator)
  BY <1>3 DEF WriteReceipt
<1>5. Stands(j, w[2])'
  BY <1>2, <1>4, SameStage
<1>6. \A p \in Paths : fs'[p] = fs[p]
  BY <1>4
<1>7. Head(k.todo).do \notin {"look", "write"} /\ w[2].status = w[1].status
  BY <1>1, <1>2
<1>8. /\ call' = Done1(Operator) /\ journal' = journal
      /\ journal = NoJournal => fs'[Dest] \in whole'
  BY <1>4 DEF LoneInv
<1>9. LoneInv'
  BY <1>1, <1>5, <1>6, <1>7, <1>8, EffectDone
<1>10. QED
  BY <1>4, <1>9

\* The journal goes when the operation is complete.
LEMMA UnlinkLone ==
    ASSUME LoneInv, HomeInv', torn' = {}, Unlink(Operator),
           NEW k, k = call[Operator], NEW j, j = k.data, k.at # "idle",
           NEW w \in Seq(Stages), WorkFits(k, w)
    PROVE  LoneInv' /\ UNCHANGED <<whole, fs[Dest]>>
<1>1. k.todo # << >> /\ Head(k.todo).do = "unlink"
  BY DEF Unlink, Next1
<1>2. /\ Operator \in Callers /\ j \in Journals /\ Known(j)
      /\ w[1] \in Stages /\ Rests(w[1]) /\ Stands(j, w[1]) /\ w[1].status = "COMPLETE"
  BY <1>1, NextEffect DEF Moves
<1>3. /\ UNCHANGED <<fs, receipt, whole>> /\ journal' = NoJournal /\ journal # NoJournal
      /\ call' = [call EXCEPT ![Operator] = Idle]
  BY DEF Unlink
<1>4. \/ w[1].old = "dest" /\ w[1].new = "gone"
      \/ w[1].old = "gone" /\ w[1].new = "dest"
  BY <1>2 DEF Rests, None
<1>5. fs[Dest] \in whole
  <2>1. At(j, "dest") \in whole
    BY <1>2, <1>4, StageTells DEF LoneInv, Spots, Holds
  <2>2. QED
    BY <2>1 DEF At, Path
<1>6. ASSUME NEW p \in Paths \ {Dest}, p[1] # "prepared" PROVE fs[p] = Nothing
  <2>1. SUFFICES ASSUME fs[p] # Nothing PROVE FALSE
    OBVIOUS
  <2>2. p[2] = journal.op /\ journal.op = j.op
    BY <1>3, <1>6, <2>1 DEF LoneInv, WorkFits, SameOperation
  <2>3. p[1] \in Places /\ p = <<p[1], p[2]>> /\ p[1] # "dest"
    BY <1>6 DEF Paths, Places
  <2>4. p = Path(j, p[1])
    BY <2>2, <2>3 DEF Path
  <2>5. At(j, p[1]) = Nothing
    BY <1>2, <1>4, <2>3 DEF Stands, Spots, Places
  <2>6. QED
    BY <2>1, <2>4, <2>5 DEF At
<1>7. /\ call'[Operator].at = "idle"
      /\ \A c \in Callers \ {Operator} : call'[c].at = "idle"
  <2>1. call \in [Callers -> CallRecords]
    BY TypeParts DEF LoneInv, HomeInv
  <2>2. QED
    BY <1>2, <1>3, <2>1 DEF LoneInv, Idle
<1>8. LoneInv'
  BY <1>3, <1>5, <1>6, <1>7 DEF LoneInv
<1>9. QED
  BY <1>3, <1>8

\* A call that ends leaves a stage to rest in.
LEMMA EndingLone ==
    ASSUME LoneInv, HomeInv', torn' = {}, Return(Operator) \/ Raise(Operator) \/ Stop(Operator)
    PROVE  LoneInv' /\ UNCHANGED <<whole, fs[Dest]>>
<1>1. /\ UNCHANGED <<fs, receipt, whole, journal>>
      /\ call' = [call EXCEPT ![Operator] = Idle]
  BY DEF Return, Raise, Stop
<1>2. /\ call'[Operator] = Idle /\ Idle.at = "idle"
      /\ \A c \in Callers \ {Operator} : call'[c] = call[c]
  <2>1. call \in [Callers -> CallRecords] /\ Operator \in Callers
    BY TypeParts, OperatorAssumption DEF LoneInv, HomeInv
  <2>2. QED
    BY <1>1, <2>1 DEF Idle
<1>3. LoneInv'
  BY <1>1, <1>2, QuietLone
<1>4. QED
  BY <1>1, <1>3

\* The first journal write of a replacement raises.
LEMMA FirstWriteRaisesLone ==
    ASSUME LoneInv, HomeInv', torn' = {}, FirstWriteRaises(Operator),
           NEW k, k = call[Operator], NEW j, j = k.data, k.at # "idle",
           NEW w \in Seq(Stages), WorkFits(k, w)
    PROVE  LoneInv' /\ UNCHANGED <<whole, fs[Dest]>>
<1>1. k.todo # << >> /\ Head(k.todo).do = "write" /\ Head(k.todo).from = "PREPARED"
  <2>1. k.todo # << >> /\ Head(k.todo) = Wr("PREPARED")
    BY DEF FirstWriteRaises
  <2>2. Wr("PREPARED").do = "write" /\ Wr("PREPARED").from = "PREPARED"
    BY DEF Wr
  <2>3. QED
    BY <2>1, <2>2
<1>2. /\ Operator \in Callers /\ k \in CallRecords /\ j \in Journals
      /\ k.todo \in Seq(Steps)
      /\ w[1] \in Stages /\ w[2] \in Stages /\ Stands(j, w[1])
      /\ w[1].status = None /\ journal = NoJournal
      /\ w[2] = [w[1] EXCEPT !.status = "PREPARED"]
      /\ Rests(w[1]) /\ Rests(w[2])
  <2>1. /\ Operator \in Callers /\ k \in CallRecords /\ j \in Journals
        /\ k.todo \in Seq(Steps)
        /\ w[1] \in Stages /\ w[2] \in Stages /\ Stands(j, w[1])
        /\ w[1].status = None <=> journal = NoJournal
        /\ Rests(w[1]) /\ Rests(w[2])
    BY <1>1, NextEffect
  <2>2. Moves(w[1], Head(k.todo), w[2])
    BY <1>1, NextEffect
  <2>3. w[1].status = None /\ w[2] = [w[1] EXCEPT !.status = "PREPARED"]
    BY <1>1, <2>2 DEF Moves
  <2>4. QED
    BY <2>1, <2>3
<1>3. Bound(j, w[1]) /\ Bound(j, w[2])
  BY <1>1, <1>2, ScriptTail DEF WorkFits
<1>4. PICK x : x = [k EXCEPT !.at = "cleanup", !.todo = << >>]
  OBVIOUS
<1>5. /\ UNCHANGED <<fs, receipt, whole>> /\ journal' \in {NoJournal, j}
      /\ call \in [Callers -> CallRecords]
      /\ call' = [call EXCEPT ![Operator].at = "cleanup", ![Operator].todo = << >>]
  BY <1>2, TypeParts DEF FirstWriteRaises, LoneInv, HomeInv
<1>6. /\ call'[Operator] = x /\ \A c \in Callers \ {Operator} : call'[c] = call[c]
      /\ x.at = "cleanup" /\ x.data = j /\ x.todo = << >>
  BY <1>2, <1>4, <1>5 DEF CallRecords
<1>7. j # NoJournal /\ j.status = "PREPARED"
  <2>1. j # NoJournal
    BY <1>2, PathFacts
  <2>2. k.at = "replace"
    BY DEF FirstWriteRaises
  <2>3. QED
    BY <1>2, <2>1, <2>2 DEF LoneInv, WorkFits
<1>8. PICK i \in {1, 2} : i = IF journal' = NoJournal THEN 1 ELSE 2
  OBVIOUS
<1>9. PICK a : a = w[i]
  OBVIOUS
<1>10. /\ a \in Stages /\ Rests(a) /\ Bound(j, a) /\ a.old = w[1].old /\ a.new = w[1].new
       /\ a.status = Recorded'
  BY <1>2, <1>3, <1>5, <1>7, <1>8, <1>9 DEF Recorded, Stages
<1>11. Stands(j, a)'
  <2>1. Stands(j, a)
    BY <1>2, <1>10 DEF Stands
  <2>2. QED
    BY <1>5, <2>1, SameStage
<1>12. PICK v : v = <<a>>
  OBVIOUS
<1>13. v \in Seq(Stages) /\ Len(v) = 1 /\ v[1] = a /\ Len(<< >>) = 0
  BY <1>10, <1>12
<1>14. Script(j, << >>, v)
  BY <1>10, <1>13 DEF Script
<1>15. WorkFits(x, v)'
  BY <1>5, <1>6, <1>7, <1>10, <1>11, <1>13, <1>14 DEF WorkFits, SameOperation
<1>16. journal' # NoJournal => JournalFits(a)'
  BY <1>5, <1>10, <1>11 DEF JournalFits, Recorded
<1>17. LoneInv'
  BY <1>2, <1>5, <1>6, <1>10, <1>13, <1>15, <1>16 DEF LoneInv
<1>18. QED
  BY <1>5, <1>17

\* It removes what it restored; a journal that was written names what is gone.
LEMMA CleanupLone ==
    ASSUME LoneInv, HomeInv', torn' = {}, Cleanup(Operator),
           NEW k, k = call[Operator], NEW j, j = k.data, k.at # "idle",
           NEW w \in Seq(Stages), WorkFits(k, w)
    PROVE  LoneInv' /\ [Keeping!KNext]_<<whole, fs[Dest]>>
<1>1. Operator \in Callers /\ HomeInv /\ torn = {} /\ k.at = "cleanup" /\ k.todo = << >>
  BY CallFacts, OperatorAssumption DEF Cleanup, LoneInv, CallFits
<1>2. PICK a : a = w[1]
  OBVIOUS
<1>3. /\ j \in Journals /\ Known(j) /\ a \in Stages /\ Rests(a) /\ Bound(j, a) /\ Stands(j, a)
      /\ a.status = Recorded /\ (journal = NoJournal => j.status = "PREPARED")
      /\ journal # NoJournal => journal = j
  <2>1. Script(j, << >>, w) /\ Len(<< >>) = 0
    BY <1>1 DEF WorkFits
  <2>2. /\ w \in Seq(Stages) /\ Len(w) = 1
        /\ \A i \in 1..Len(w) : Rests(w[i]) /\ Bound(j, w[i])
    BY <2>1 DEF Script
  <2>3. 1 \in 1..Len(w)
    BY <2>2
  <2>4. w[1] \in Stages
    BY <2>2, <2>3, SMTT(30)
  <2>5. Rests(w[1]) /\ Bound(j, w[1])
    BY <2>2, <2>3, ZenonT(30)
  <2>6. j \in Journals /\ Known(j)
    BY <1>1, CallFacts DEF CallFits
  <2>7. QED
    BY <1>1, <1>2, <2>4, <2>5, <2>6 DEF WorkFits
<1>4. PICK proven : proven = Proven(Operator)
  OBVIOUS
<1>5. /\ fs' = [fs EXCEPT ![Path(j, "prepared")] = IF proven THEN Nothing ELSE @]
      /\ whole' = whole \ (IF proven THEN {j.op} ELSE {})
      /\ call' = [call EXCEPT ![Operator] = Idle] /\ UNCHANGED <<journal, receipt>>
  BY <1>4 DEF Cleanup
<1>6. /\ fs \in [Paths -> Homes \cup {Nothing}] /\ call \in [Callers -> CallRecords]
      /\ whole \subseteq Homes
  BY <1>1, TypeParts DEF HomeInv
<1>7. /\ \A s \in Spots : Path(j, s) \in Paths /\ (s # "prepared" => Path(j, s) # Path(j, "prepared"))
      /\ Path(j, "dest") = Dest /\ j.op \in Homes /\ Nothing \notin Homes
      /\ "prepared" \in Spots /\ "dest" \in Spots /\ "gone" \notin Spots /\ Dest \in Paths
  BY <1>3, PathFacts, Numbers DEF Spots, Places
<1>8. /\ fs'[Dest] = fs[Dest]
      /\ \A p \in Paths : fs'[p] # Nothing => fs[p] # Nothing
  BY <1>5, <1>6, <1>7
<1>9. /\ call'[Operator].at = "idle"
      /\ \A c \in Callers \ {Operator} : call'[c].at = "idle"
  BY <1>1, <1>5, <1>6 DEF LoneInv, Idle
<1>10. \A p \in Paths \ {Dest} : p[1] # "prepared" /\ fs'[p] # Nothing =>
          journal' # NoJournal /\ p[2] = journal'.op
  BY <1>5, <1>8 DEF LoneInv
<1>11. CASE ~proven
  <2>1. fs' = fs /\ whole' = whole
    BY <1>5, <1>6, <1>7, <1>11
  <2>2. Stands(j, a)'
    BY <1>3, <1>5, <2>1, SameStage
  <2>3. ASSUME journal # NoJournal PROVE JournalFits(a)'
    BY <1>3, <1>5, <2>2, <2>3 DEF JournalFits, Recorded
  <2>4. LoneInv'
    BY <1>3, <1>5, <1>9, <1>10, <2>1, <2>3 DEF LoneInv
  <2>5. QED
    BY <1>8, <2>1, <2>4
<1>12. CASE proven
  <2>1. IsNew(j, "prepared") /\ IsOld(j, "dest")
    BY <1>4, <1>12 DEF Proven
  <2>2. a.new = "prepared" /\ a.old = "dest"
    BY <1>1, <1>3, <1>7, <2>1, StageTells
  <2>3. /\ At(j, "prepared") = j.op /\ At(j, "prepared") \in whole
        /\ At(j, "dest") = j.old /\ At(j, "dest") \in whole
    BY <1>1, <1>3, <1>7, <2>2, StageTells DEF Stands, Holds
  <2>4. j.op \in whole /\ fs[Dest] = j.old /\ fs[Dest] \in whole /\ j.op # j.old /\ fs[Dest] # Nothing
    BY <1>3, <1>6, <1>7, <2>3 DEF Stands, At
  <2>5. PICK b : b = [a EXCEPT !.new = "gone"]
    OBVIOUS
  <2>6. /\ b \in Stages /\ b.status = a.status /\ b.old = "dest" /\ b.new = "gone"
        /\ a.status \in {None, "PREPARED"}
    BY <1>3, <2>2, <2>5 DEF Stages, Rests, Spots, Places
  <2>7. Rests(b) /\ Bound(j, b)
    BY <2>6 DEF Rests, Bound, None
  <2>8. Stands(j, b)'
    <3>1. \A s \in Spots : At(j, s)' = IF s = "prepared" THEN Nothing ELSE At(j, s)
      BY <1>5, <1>6, <1>7, <1>12 DEF At, Path
    <3>2. \A s \in Spots : At(j, s) = IF "dest" = s THEN j.old
                                      ELSE IF "prepared" = s THEN j.op ELSE Nothing
      BY <1>3, <2>2 DEF Stands
    <3>3. \A s \in Spots : At(j, s)' = IF b.old = s THEN j.old ELSE IF b.new = s THEN j.op ELSE Nothing
      BY <1>7, <2>6, <3>1, <3>2
    <3>4. receipt'[j.old] # j.archive
      BY <1>3, <1>5 DEF Stands
    <3>5. QED
      BY <2>4, <2>6, <3>3, <3>4 DEF Stands
  <2>9. ASSUME journal # NoJournal PROVE JournalFits(b)'
    BY <1>3, <1>5, <2>6, <2>7, <2>8, <2>9 DEF JournalFits, Recorded
  <2>10. whole' = whole \ {j.op} /\ fs'[Dest] \in whole'
    BY <1>5, <1>8, <1>12, <2>4
  <2>11. LoneInv'
    BY <1>5, <1>9, <1>10, <2>6, <2>9, <2>10 DEF LoneInv
  <2>12. Keeping!Discard(j.op)
    BY <1>8, <2>4, <2>10 DEF Keeping!Discard
  <2>13. QED
    BY <1>7, <2>11, <2>12 DEF Keeping!KNext
<1>13. QED
  BY <1>11, <1>12

-----------------------------------------------------------------------------
\* What a lone call decides.

St(status, old, new) == [status |-> status, old |-> old, new |-> new]
Stays(j, a) == a \in Stages /\ Rests(a) /\ Bound(j, a)

LEMMA StageOf == \A a \in Stages : a = St(a.status, a.old, a.new)
BY DEF Stages, St

\* Effects between stages written out.
LEMMA WriteMoves ==
    ASSUME NEW x, NEW y, NEW o, NEW n, x = None <=> y = "PREPARED"
    PROVE  Moves(St(x, o, n), Wr(y), St(y, o, n)) /\ Wr(y).do = "write"
BY DEF Moves, St, Wr

LEMMA RenameMoves ==
    ASSUME NEW x, NEW o, NEW n, NEW to, o # n, to # o, to # n
    PROVE  /\ Moves(St(x, o, n), Ren(o, to), St(x, to, n))
           /\ Moves(St(x, n, o), Ren(o, to), St(x, n, to))
           /\ Ren(o, to).do = "rename"
<1>1. Ren(o, to).do = "rename" /\ Ren(o, to).from = o /\ Ren(o, to).to = to
  BY DEF Ren
<1>2. Moves(St(x, o, n), Ren(o, to), St(x, to, n))
  BY <1>1 DEF Moves, St, Holds, Moved
<1>3. Moves(St(x, n, o), Ren(o, to), St(x, n, to))
  BY <1>1 DEF Moves, St, Holds, Moved
<1>4. QED
  BY <1>1, <1>2, <1>3

\* A decision leads on from a stage: it ends the call or has a script.
Leads(d, j, a) ==
    d.todo # << >> =>
        /\ SameOperation(j, d.data)
        /\ j = d.data \/ Head(d.todo).do = "write"
        /\ \E w \in Seq(Stages) : /\ Script(d.data, d.todo, w) /\ w[1] = a
                                  /\ Agrees(d.seen, w[Len(w)], d.todo)

LEMMA ReportLeads == \A j, s, what, a : Leads(Report(j, s, what), j, a)
BY DEF Leads, Report

LEMMA Lead1 ==
    ASSUME NEW j, NEW s, NEW e, e.do # "look", NEW a, NEW b, Stays(j, a), Stays(j, b),
           Moves(a, e, b), Agrees(s, b, << >>)
    PROVE  Leads(Plan(j, s, <<e>>), j, a)
<1>. DEFINE t == <<e>>
            w == <<a, b>>
<1>1. w \in Seq(Stages) /\ Len(w) = 2 /\ Len(t) = 1 /\ w[1] = a /\ w[2] = b /\ t[1] = e
  BY DEF Stays
<1>2. \A i \in 1..2 : w[i] = a \/ w[i] = b
  BY <1>1
<1>. HIDE DEF t, w
<1>3. Script(j, t, w)
  BY <1>1, <1>2 DEF Script, Stays
<1>4. Agrees(s, w[Len(w)], t)
  BY <1>1 DEF Agrees
<1>5. Leads(Plan(j, s, t), j, a)
  BY <1>1, <1>3, <1>4 DEF Leads, Plan, SameOperation
<1>6. QED
  BY <1>5 DEF t

LEMMA Lead2 ==
    ASSUME NEW j, NEW s, NEW e, NEW f, e.do # "look", f.do # "look",
           NEW a, NEW b, NEW c, Stays(j, a), Stays(j, b), Stays(j, c),
           Moves(a, e, b), Moves(b, f, c), Agrees(s, c, << >>)
    PROVE  Leads(Plan(j, s, <<e, f>>), j, a)
<1>. DEFINE t == <<e, f>>
            w == <<a, b, c>>
<1>1. /\ w \in Seq(Stages) /\ Len(w) = 3 /\ w[1] = a /\ w[2] = b /\ w[3] = c
      /\ Len(t) = 2 /\ t[1] = e /\ t[2] = f
  BY DEF Stays
<1>2. \A i \in 1..3 : w[i] = a \/ w[i] = b \/ w[i] = c
  BY <1>1
<1>. HIDE DEF t, w
<1>3. Script(j, t, w)
  <2>1. ASSUME NEW i \in 1..2
        PROVE  Moves(w[i], t[i], w[i + 1]) /\ (t[i].do = "look" => i = 2)
    <3>1. CASE i = 1
      BY <1>1, <3>1
    <3>2. CASE i = 2
      BY <1>1, <3>2
    <3>3. QED
      BY <3>1, <3>2
  <2>2. QED
    BY <1>1, <1>2, <2>1 DEF Script, Stays
<1>4. Agrees(s, w[Len(w)], t)
  BY <1>1 DEF Agrees
<1>5. Leads(Plan(j, s, t), j, a)
  BY <1>1, <1>3, <1>4 DEF Leads, Plan, SameOperation
<1>6. QED
  BY <1>5 DEF t

LEMMA Lead3 ==
    ASSUME NEW j, NEW k, SameOperation(j, k), NEW s, NEW e, NEW f, NEW g,
           j = k \/ e.do = "write", e.do # "look", f.do # "look",
           NEW a, NEW b, NEW c, NEW d, Stays(k, a), Stays(k, b), Stays(k, c), Stays(k, d),
           Moves(a, e, b), Moves(b, f, c), Moves(c, g, d), Agrees(s, d, <<g>>)
    PROVE  Leads(Plan(k, s, <<e, f, g>>), j, a)
<1>. DEFINE t == <<e, f, g>>
            w == <<a, b, c, d>>
<1>1. /\ w \in Seq(Stages) /\ Len(w) = 4 /\ w[1] = a /\ w[2] = b /\ w[3] = c /\ w[4] = d
      /\ Len(t) = 3 /\ t[1] = e /\ t[2] = f /\ t[3] = g /\ t # << >> /\ Head(t) = e
  BY DEF Stays
<1>2. \A i \in 1..4 : w[i] = a \/ w[i] = b \/ w[i] = c \/ w[i] = d
  BY <1>1
<1>3. Len(<<g>>) = 1 /\ <<g>>[1] = g
  OBVIOUS
<1>. HIDE DEF t, w
<1>4. Script(k, t, w)
  <2>1. ASSUME NEW i \in 1..3
        PROVE  Moves(w[i], t[i], w[i + 1]) /\ (t[i].do = "look" => i = 3)
    <3>1. CASE i = 1
      BY <1>1, <3>1
    <3>2. CASE i = 2
      BY <1>1, <3>2
    <3>3. CASE i = 3
      BY <1>1, <3>3
    <3>4. QED
      BY <3>1, <3>2, <3>3
  <2>2. QED
    BY <1>1, <1>2, <2>1 DEF Script, Stays
<1>5. Agrees(s, w[Len(w)], t)
  BY <1>1, <1>3 DEF Agrees
<1>6. Leads(Plan(k, s, t), j, a)
  BY <1>1, <1>4, <1>5 DEF Leads, Plan
<1>7. QED
  BY <1>6 DEF t

\* What StageTells says of the stage in which a call decides.
Tells(j, a) ==
    /\ \A s \in Spots : /\ Exists(j, s) <=> Holds(a, s)
                        /\ IsOld(j, s) <=> a.old = s
                        /\ IsNew(j, s) <=> a.new = s
                        /\ Holds(a, s) /\ s # "discard" => At(j, s) \in whole
    /\ a.old = "discard" => DiscardBound(j, "rollback_old")
    /\ a.new = "discard" => DiscardBound(j, "failed_new")

LEMMA PreparedLeads ==
    ASSUME NEW j, NEW s \in Seen, NEW m, NEW a, a.status = "PREPARED", Stays(j, a), Agrees(s, a, << >>)
    PROVE  Leads(AtPrepared(j, s, m), j, a)
<1>. DEFINE s2 == [s EXCEPT !.dest = FALSE, !.rollback = TRUE]
<1>0. CASE a.new = "gone"
  <2>1. ~s.prepared /\ ~s.new /\ ~s.rollback
    BY <1>0 DEF Stays, Rests, Agrees, Holds, None
  <2>2. QED
    BY <2>1, ReportLeads DEF AtPrepared
<1>1. ASSUME a.new # "gone"
      PROVE  /\ a = St("PREPARED", a.old, "prepared") /\ a.old \in {"dest", "rollback"}
             /\ s.dest <=> a.old = "dest"
             /\ s.rollback <=> a.old = "rollback"
             /\ s.prepared /\ ~s.discard /\ ~s.new
  BY <1>1, StageOf DEF Stays, Rests, Agrees, Holds, None
<1>2. /\ Stays(j, St("PREPARED", "rollback", "prepared"))
      /\ Stays(j, St("OLD_MOVED", "rollback", "prepared"))
  BY DEF Stays, St, Stages, Rests, Bound, Statuses, Spots, Places
<1>3. "PREPARED" # None /\ "OLD_MOVED" # None
  BY DEF None
<1>4. CASE a.new # "gone" /\ a.old = "rollback"
  <2>1. Agrees(s, St("OLD_MOVED", "rollback", "prepared"), << >>)
    BY <1>1, <1>4 DEF Agrees, St, Holds
  <2>2. Leads(Plan(j, s, <<Wr("OLD_MOVED")>>), j, a)
    BY <1>1, <1>2, <1>3, <1>4, <2>1, WriteMoves, Lead1
  <2>3. QED
    BY <1>1, <1>4, <2>2 DEF AtPrepared
<1>5. CASE a.new # "gone" /\ a.old = "dest"
  <2>1. Agrees(s2, St("OLD_MOVED", "rollback", "prepared"), << >>)
    BY <1>1, <1>5 DEF Agrees, St, Holds, Seen
  <2>. HIDE DEF s2
  <2>2. /\ Moves(a, Ren("dest", "rollback"), St("PREPARED", "rollback", "prepared"))
        /\ Ren("dest", "rollback").do = "rename"
    BY <1>1, <1>5, RenameMoves
  <2>3. /\ Moves(St("PREPARED", "rollback", "prepared"), Wr("OLD_MOVED"),
                 St("OLD_MOVED", "rollback", "prepared"))
        /\ Wr("OLD_MOVED").do = "write"
    BY <1>3, WriteMoves
  <2>4. Leads(Plan(j, s2, <<Ren("dest", "rollback"), Wr("OLD_MOVED")>>), j, a)
    BY <1>2, <2>1, <2>2, <2>3, Lead2
  <2>5. QED
    BY <1>1, <1>5, <2>4, ReportLeads DEF AtPrepared, s2
<1>6. QED
  BY <1>0, <1>1, <1>4, <1>5

LEMMA OldMovedLeads ==
    ASSUME NEW j, NEW s \in Seen, NEW m, NEW a, a.status = "OLD_MOVED", Stays(j, a), Agrees(s, a, << >>)
    PROVE  Leads(AtOldMoved(j, s, m), j, a)
<1>. DEFINE s2 == [s EXCEPT !.dest = TRUE, !.prepared = FALSE]
<1>1. /\ a = St("OLD_MOVED", "rollback", a.new) /\ a.new \in {"prepared", "dest"}
      /\ s.dest <=> a.new = "dest"
      /\ s.new <=> a.new = "dest"
      /\ s.prepared <=> a.new = "prepared"
      /\ s.rollback /\ ~s.discard
  BY StageOf DEF Stays, Rests, Agrees, Holds, None
<1>2. /\ Stays(j, St("OLD_MOVED", "rollback", "dest"))
      /\ Stays(j, St("NEW_ACTIVE", "rollback", "dest"))
  BY DEF Stays, St, Stages, Rests, Bound, Statuses, Spots, Places
<1>3. /\ Moves(St("OLD_MOVED", "rollback", "dest"), Wr("NEW_ACTIVE"),
               St("NEW_ACTIVE", "rollback", "dest"))
      /\ Wr("NEW_ACTIVE").do = "write"
  BY WriteMoves DEF None
<1>4. CASE a.new = "dest"
  <2>1. Agrees(s, St("NEW_ACTIVE", "rollback", "dest"), << >>)
    BY <1>1, <1>4 DEF Agrees, St, Holds
  <2>2. Leads(Plan(j, s, <<Wr("NEW_ACTIVE")>>), j, a)
    BY <1>1, <1>2, <1>3, <1>4, <2>1, Lead1
  <2>3. QED
    BY <1>1, <1>4, <2>2 DEF AtOldMoved
<1>5. CASE a.new = "prepared"
  <2>1. Do("look").do = "look" /\ Len(<<Do("look")>>) = 1 /\ <<Do("look")>>[1] = Do("look")
    BY DEF Do
  <2>2. Agrees(s2, St("NEW_ACTIVE", "rollback", "dest"), <<Do("look")>>)
    BY <1>1, <1>5, <2>1 DEF Agrees, St, Holds, Seen
  <2>. HIDE DEF s2
  <2>3. /\ Moves(a, Ren("prepared", "dest"), St("OLD_MOVED", "rollback", "dest"))
        /\ Ren("prepared", "dest").do = "rename"
    BY <1>1, <1>5, RenameMoves
  <2>4. Moves(St("NEW_ACTIVE", "rollback", "dest"), Do("look"), St("NEW_ACTIVE", "rollback", "dest"))
    BY DEF Moves, St, Holds, Do
  <2>5. Leads(Plan(j, s2, <<Ren("prepared", "dest"), Wr("NEW_ACTIVE"), Do("look")>>), j, a)
    BY <1>2, <1>3, <2>2, <2>3, <2>4, Lead3 DEF SameOperation
  <2>6. QED
    BY <1>1, <1>5, <2>5, ReportLeads DEF AtOldMoved, s2
<1>6. QED
  BY <1>1, <1>4, <1>5

LEMMA NewActiveLeads ==
    ASSUME NEW j \in Journals, NEW s \in Seen, NEW m, NEW a, a.status = "NEW_ACTIVE",
           j.status = "NEW_ACTIVE", Stays(j, a), Agrees(s, a, << >>), Tells(j, a), Stands(j, a)
    PROVE  Leads(AtNewActive(j, s, m), j, a)
<1>. DEFINE k == Bind(j, "rollback", "rollback_old")
<1>1. /\ a = St("NEW_ACTIVE", a.old, "dest") /\ a.old \in {"rollback", "discard"}
      /\ s.new /\ (s.discard <=> a.old = "discard")
  BY StageOf DEF Stays, Rests, Agrees, Holds, None
<1>2. /\ Exists(j, "rollback") <=> a.old = "rollback"
      /\ ~Exists(j, "prepared")
      /\ Exists(j, "discard") <=> a.old = "discard"
  BY <1>1 DEF Tells, Holds, St, Spots, Places
<1>3. Stays(j, St("NEW_ACTIVE", "rollback", "dest"))
  BY DEF Stays, St, Stages, Rests, Bound, Statuses, Spots, Places
<1>4. CASE a.old = "discard"
  <2>1. Stays(j, St("FINALIZE_PENDING_DELETE", "discard", "dest"))
    BY <1>1, <1>4 DEF Stays, St, Stages, Rests, Bound, Statuses, Spots, Places
  <2>2. /\ Moves(a, Wr("FINALIZE_PENDING_DELETE"), St("FINALIZE_PENDING_DELETE", "discard", "dest"))
        /\ Wr("FINALIZE_PENDING_DELETE").do = "write"
    BY <1>1, <1>4, WriteMoves DEF None
  <2>3. Agrees(s, St("FINALIZE_PENDING_DELETE", "discard", "dest"), << >>)
    BY DEF Agrees, St
  <2>4. Leads(Plan(j, s, <<Wr("FINALIZE_PENDING_DELETE")>>), j, a)
    BY <2>1, <2>2, <2>3, Lead1
  <2>5. QED
    BY <1>1, <1>2, <1>4, <2>4, ReportLeads DEF AtNewActive
<1>5. CASE a.old = "rollback"
  <2>1. Leads(Plan(j, s, <<Wr("ROLLBACK_PREPARED")>>), j, a)
    <3>1. Stays(j, St("ROLLBACK_PREPARED", "rollback", "dest"))
      BY DEF Stays, St, Stages, Rests, Bound, Statuses, Spots, Places
    <3>2. /\ Moves(a, Wr("ROLLBACK_PREPARED"), St("ROLLBACK_PREPARED", "rollback", "dest"))
          /\ Wr("ROLLBACK_PREPARED").do = "write"
      BY <1>1, <1>5, WriteMoves DEF None
    <3>3. Agrees(s, St("ROLLBACK_PREPARED", "rollback", "dest"), << >>)
      BY DEF Agrees, St
    <3>4. QED
      BY <3>1, <3>2, <3>3, Lead1
  <2>2. At(j, "rollback") = j.old
    BY <1>5 DEF Stands, Spots, Places
  <2>3. /\ SameOperation(j, k) /\ k.role = "rollback_old" /\ k.bound = k.old
    BY <2>2 DEF Bind, SameOperation, Journals
  <2>. HIDE DEF k
  <2>4. /\ Stays(k, St("NEW_ACTIVE", "rollback", "dest"))
        /\ Stays(k, St("NEW_ACTIVE", "discard", "dest"))
        /\ Stays(k, St("FINALIZE_PENDING_DELETE", "discard", "dest"))
    BY <2>3 DEF Stays, St, Stages, Rests, Bound, Statuses, Spots, Places
  <2>5. Leads(Plan(k, s, <<Wr("NEW_ACTIVE"), Ren("rollback", "discard"),
                           Wr("FINALIZE_PENDING_DELETE")>>), j, a)
    <3>1. /\ Moves(a, Wr("NEW_ACTIVE"), St("NEW_ACTIVE", "rollback", "dest"))
          /\ Wr("NEW_ACTIVE").do = "write"
      BY <1>1, <1>5, WriteMoves DEF None
    <3>2. /\ Moves(St("NEW_ACTIVE", "rollback", "dest"), Ren("rollback", "discard"),
                   St("NEW_ACTIVE", "discard", "dest"))
          /\ Ren("rollback", "discard").do = "rename"
      BY RenameMoves
    <3>3. Moves(St("NEW_ACTIVE", "discard", "dest"), Wr("FINALIZE_PENDING_DELETE"),
                St("FINALIZE_PENDING_DELETE", "discard", "dest"))
      BY WriteMoves DEF None
    <3>4. Agrees(s, St("FINALIZE_PENDING_DELETE", "discard", "dest"),
                 <<Wr("FINALIZE_PENDING_DELETE")>>)
      BY DEF Agrees, St
    <3>5. Stays(k, a)
      BY <1>1, <1>5, <2>4
    <3>6. QED
      BY <2>3, <2>4, <3>1, <3>2, <3>3, <3>4, <3>5, Lead3
  <2>6. QED
    BY <1>1, <1>2, <1>5, <2>1, <2>5, ReportLeads DEF AtNewActive, k
<1>6. QED
  BY <1>1, <1>4, <1>5

LEMMA RollbackPreparedLeads ==
    ASSUME NEW j \in Journals, NEW s \in Seen, NEW m, NEW a, a.status = "ROLLBACK_PREPARED",
           Stays(j, a), Tells(j, a)
    PROVE  Leads(AtRollbackPrepared(j, s, m), j, a)
<1>1. a = St("ROLLBACK_PREPARED", "rollback", a.new) /\ a.new \in {"dest", "failed"}
  BY StageOf DEF Stays, Rests, None
<1>2. /\ Stays(j, St("ROLLBACK_PREPARED", "rollback", "failed"))
      /\ Stays(j, St("ROLLBACK_NEW_MOVED", "rollback", "failed"))
  BY DEF Stays, St, Stages, Rests, Bound, Statuses, Spots, Places
<1>3. Agrees(s, St("ROLLBACK_NEW_MOVED", "rollback", "failed"), << >>)
  BY DEF Agrees, St
<1>4. /\ Moves(St("ROLLBACK_PREPARED", "rollback", "failed"), Wr("ROLLBACK_NEW_MOVED"),
               St("ROLLBACK_NEW_MOVED", "rollback", "failed"))
      /\ Wr("ROLLBACK_NEW_MOVED").do = "write"
  BY WriteMoves DEF None
<1>5. Exists(j, "rollback") /\ ~OldRestored(j)
  BY <1>1 DEF Tells, Holds, St, OldRestored, Spots, Places
<1>6. CASE a.new = "failed"
  <2>1. Leads(Plan(j, s, <<Wr("ROLLBACK_NEW_MOVED")>>), j, a)
    BY <1>1, <1>2, <1>3, <1>4, <1>6, Lead1
  <2>2. ~IsNew(j, "dest")
    BY <1>6 DEF Tells, Spots
  <2>3. QED
    BY <1>5, <2>1, <2>2, ReportLeads DEF AtRollbackPrepared
<1>7. CASE a.new = "dest"
  <2>1. /\ Moves(a, Ren("dest", "failed"), St("ROLLBACK_PREPARED", "rollback", "failed"))
        /\ Ren("dest", "failed").do = "rename"
    BY <1>1, <1>7, RenameMoves
  <2>2. Leads(Plan(j, s, <<Ren("dest", "failed"), Wr("ROLLBACK_NEW_MOVED")>>), j, a)
    BY <1>2, <1>3, <1>4, <2>1, Lead2
  <2>3. Exists(j, "dest")
    BY <1>7 DEF Tells, Holds, Spots
  <2>4. QED
    BY <1>5, <2>2, <2>3, ReportLeads DEF AtRollbackPrepared
<1>8. QED
  BY <1>1, <1>6, <1>7

LEMMA RollbackNewMovedLeads ==
    ASSUME NEW j \in Journals, NEW s \in Seen, NEW m, NEW a, a.status = "ROLLBACK_NEW_MOVED",
           Stays(j, a), Tells(j, a)
    PROVE  Leads(AtRollbackNewMoved(j, s, m), j, a)
<1>1. a = St("ROLLBACK_NEW_MOVED", a.old, "failed") /\ a.old \in {"rollback", "dest"}
  BY StageOf DEF Stays, Rests, None
<1>2. /\ Stays(j, St("ROLLBACK_NEW_MOVED", "dest", "failed"))
      /\ Stays(j, St("ROLLED_BACK", "dest", "failed"))
  BY DEF Stays, St, Stages, Rests, Bound, Statuses, Spots, Places
<1>3. Agrees(s, St("ROLLED_BACK", "dest", "failed"), << >>)
  BY DEF Agrees, St
<1>4. /\ Moves(St("ROLLBACK_NEW_MOVED", "dest", "failed"), Wr("ROLLED_BACK"),
               St("ROLLED_BACK", "dest", "failed"))
      /\ Wr("ROLLED_BACK").do = "write"
  BY WriteMoves DEF None
<1>5. CASE a.old = "dest"
  <2>1. Leads(Plan(j, s, <<Wr("ROLLED_BACK")>>), j, a)
    BY <1>1, <1>2, <1>3, <1>4, <1>5, Lead1
  <2>2. Exists(j, "dest")
    BY <1>5 DEF Tells, Holds, Spots
  <2>3. QED
    BY <2>1, <2>2, ReportLeads DEF AtRollbackNewMoved
<1>6. CASE a.old = "rollback"
  <2>1. /\ Moves(a, Ren("rollback", "dest"), St("ROLLBACK_NEW_MOVED", "dest", "failed"))
        /\ Ren("rollback", "dest").do = "rename"
    BY <1>1, <1>6, RenameMoves
  <2>2. Leads(Plan(j, s, <<Ren("rollback", "dest"), Wr("ROLLED_BACK")>>), j, a)
    BY <1>2, <1>3, <1>4, <2>1, Lead2
  <2>3. ~OldRestored(j)
    BY <1>6 DEF Tells, OldRestored, Spots
  <2>4. QED
    BY <2>2, <2>3, ReportLeads DEF AtRollbackNewMoved
<1>7. QED
  BY <1>1, <1>5, <1>6

LEMMA RolledBackLeads ==
    ASSUME NEW j \in Journals, NEW s \in Seen, NEW m, NEW a, a.status = "ROLLED_BACK",
           j.status = "ROLLED_BACK", Stays(j, a), Tells(j, a), Stands(j, a)
    PROVE  Leads(AtRolledBack(j, s, m), j, a)
<1>. DEFINE k == Bind(j, "failed", "failed_new")
<1>1. a = St("ROLLED_BACK", "dest", a.new) /\ a.new \in {"failed", "discard"}
  BY StageOf DEF Stays, Rests, None
<1>2. /\ IsOld(j, "dest") /\ ~Exists(j, "rollback")
      /\ Exists(j, "failed") <=> a.new = "failed"
      /\ Exists(j, "discard") <=> a.new = "discard"
  BY <1>1 DEF Tells, Holds, St, Spots, Places
<1>3. CASE a.new = "discard"
  <2>1. Stays(j, St("ROLLBACK_FINALIZE_PENDING_DELETE", "dest", "discard"))
    BY <1>1, <1>3 DEF Stays, St, Stages, Rests, Bound, Statuses, Spots, Places
  <2>2. /\ Moves(a, Wr("ROLLBACK_FINALIZE_PENDING_DELETE"),
                 St("ROLLBACK_FINALIZE_PENDING_DELETE", "dest", "discard"))
        /\ Wr("ROLLBACK_FINALIZE_PENDING_DELETE").do = "write"
    BY <1>1, <1>3, WriteMoves DEF None
  <2>3. Agrees(s, St("ROLLBACK_FINALIZE_PENDING_DELETE", "dest", "discard"), << >>)
    BY DEF Agrees, St
  <2>4. Leads(Plan(j, s, <<Wr("ROLLBACK_FINALIZE_PENDING_DELETE")>>), j, a)
    BY <2>1, <2>2, <2>3, Lead1
  <2>5. QED
    BY <1>2, <1>3, <2>4, ReportLeads DEF AtRolledBack
<1>4. CASE a.new = "failed"
  <2>1. At(j, "failed") = j.op
    BY <1>1, <1>4 DEF Stands, St, Spots, Places
  <2>2. SameOperation(j, k) /\ k.role = "failed_new" /\ k.bound = k.op
    BY <2>1 DEF Bind, SameOperation, Journals
  <2>. HIDE DEF k
  <2>3. /\ Stays(k, St("ROLLED_BACK", "dest", "failed"))
        /\ Stays(k, St("ROLLED_BACK", "dest", "discard"))
        /\ Stays(k, St("ROLLBACK_FINALIZE_PENDING_DELETE", "dest", "discard"))
    BY <2>2 DEF Stays, St, Stages, Rests, Bound, Statuses, Spots, Places
  <2>4. Leads(Plan(k, s, <<Wr("ROLLED_BACK"), Ren("failed", "discard"),
                           Wr("ROLLBACK_FINALIZE_PENDING_DELETE")>>), j, a)
    <3>1. /\ Moves(a, Wr("ROLLED_BACK"), St("ROLLED_BACK", "dest", "failed"))
          /\ Wr("ROLLED_BACK").do = "write"
      BY <1>1, <1>4, WriteMoves DEF None
    <3>2. /\ Moves(St("ROLLED_BACK", "dest", "failed"), Ren("failed", "discard"),
                   St("ROLLED_BACK", "dest", "discard"))
          /\ Ren("failed", "discard").do = "rename"
      BY RenameMoves
    <3>3. Moves(St("ROLLED_BACK", "dest", "discard"), Wr("ROLLBACK_FINALIZE_PENDING_DELETE"),
                St("ROLLBACK_FINALIZE_PENDING_DELETE", "dest", "discard"))
      BY WriteMoves DEF None
    <3>4. Agrees(s, St("ROLLBACK_FINALIZE_PENDING_DELETE", "dest", "discard"),
                 <<Wr("ROLLBACK_FINALIZE_PENDING_DELETE")>>)
      BY DEF Agrees, St
    <3>5. Stays(k, a)
      BY <1>1, <1>4, <2>3
    <3>6. QED
      BY <2>2, <2>3, <3>1, <3>2, <3>3, <3>4, <3>5, Lead3
  <2>5. QED
    BY <1>2, <1>4, <2>4, ReportLeads DEF AtRolledBack, k
<1>5. QED
  BY <1>1, <1>3, <1>4

\* The effects of a deletion, between stages written out.
LEMMA DeleteMoves ==
    ASSUME NEW x \in Statuses, NEW o, NEW n, o # n
    PROVE  /\ o = "dest" \/ n = "dest" => Moves(St(x, o, n), Do("receipt"), St(x, o, n))
           /\ (o = "dest" \/ n = "dest") /\ (o = "discard" \/ n = "discard") =>
                 Moves(St(x, o, n), Do("empty"), St(x, o, n))
           /\ Moves(St(x, "discard", n), Do("rmdir"), St(x, "gone", Moved(n, "discard", "gone")))
           /\ Moves(St(x, o, "discard"), Do("rmdir"), St(x, Moved(o, "discard", "gone"), "gone"))
           /\ Moves(St("COMPLETE", o, n), Do("unlink"), St(None, o, n))
           /\ \A e \in {"receipt", "empty", "rmdir", "unlink"} : Do(e).do = e
<1>1. \A e : Do(e).do = e
  BY DEF Do
<1>2. o = "dest" \/ n = "dest" => Moves(St(x, o, n), Do("receipt"), St(x, o, n))
  BY <1>1 DEF Moves, St, Holds
<1>3. (o = "dest" \/ n = "dest") /\ (o = "discard" \/ n = "discard") =>
          Moves(St(x, o, n), Do("empty"), St(x, o, n))
  BY <1>1 DEF Moves, St, Holds
<1>4. Moves(St(x, "discard", n), Do("rmdir"), St(x, "gone", Moved(n, "discard", "gone")))
  BY <1>1 DEF Moves, St, Holds, Moved
<1>5. Moves(St(x, o, "discard"), Do("rmdir"), St(x, Moved(o, "discard", "gone"), "gone"))
  BY <1>1 DEF Moves, St, Holds, Moved
<1>6. Moves(St("COMPLETE", o, n), Do("unlink"), St(None, o, n))
  BY <1>1 DEF Moves, St
<1>7. QED
  BY <1>1, <1>2, <1>3, <1>4, <1>5, <1>6

LEMMA Lead5 ==
    ASSUME NEW j, NEW s, NEW e, NEW f, NEW g, NEW h, NEW i,
           e.do # "look", f.do # "look", g.do # "look", h.do # "look",
           NEW a, NEW b, NEW c, NEW d, NEW l, NEW n,
           Stays(j, a), Stays(j, b), Stays(j, c), Stays(j, d), Stays(j, l), Stays(j, n),
           Moves(a, e, b), Moves(b, f, c), Moves(c, g, d), Moves(d, h, l), Moves(l, i, n),
           Agrees(s, n, << >>)
    PROVE  Leads(Plan(j, s, <<e, f, g, h, i>>), j, a)
<1>. DEFINE t == <<e, f, g, h, i>>
            w == <<a, b, c, d, l, n>>
<1>1. /\ w \in Seq(Stages) /\ Len(w) = 6
      /\ w[1] = a /\ w[2] = b /\ w[3] = c /\ w[4] = d /\ w[5] = l /\ w[6] = n
      /\ Len(t) = 5 /\ t[1] = e /\ t[2] = f /\ t[3] = g /\ t[4] = h /\ t[5] = i
  BY DEF Stays
<1>2. \A r \in 1..6 : Stays(j, w[r])
  <2>1. \A r \in 1..6 : r = 1 \/ r = 2 \/ r = 3 \/ r = 4 \/ r = 5 \/ r = 6
    OBVIOUS
  <2>. HIDE DEF w
  <2>2. QED
    BY <1>1, <2>1
<1>. HIDE DEF t, w
<1>3. Script(j, t, w)
  <2>1. ASSUME NEW r \in 1..5
        PROVE  Moves(w[r], t[r], w[r + 1]) /\ (t[r].do = "look" => r = 5)
    <3>1. CASE r = 1
      BY <1>1, <3>1
    <3>2. CASE r = 2
      BY <1>1, <3>2
    <3>3. CASE r = 3
      BY <1>1, <3>3
    <3>4. CASE r = 4
      BY <1>1, <3>4
    <3>5. CASE r = 5
      BY <1>1, <3>5
    <3>6. QED
      BY <3>1, <3>2, <3>3, <3>4, <3>5
  <2>2. QED
    BY <1>1, <1>2, <2>1 DEF Script, Stays
<1>4. Agrees(s, w[Len(w)], t)
  BY <1>1 DEF Agrees
<1>5. Leads(Plan(j, s, t), j, a)
  BY <1>1, <1>3, <1>4 DEF Leads, Plan, SameOperation
<1>6. QED
  BY <1>5 DEF t

\* Closing an operation.
LEMMA Closes ==
    ASSUME NEW j, NEW s, NEW x \in Statuses, x # "PREPARED", NEW o, NEW n,
           (o = "gone" /\ n = "dest") \/ (o = "dest" /\ n = "gone")
    PROVE  /\ Stays(j, St("COMPLETE", o, n)) /\ Stays(j, St(None, o, n))
           /\ Moves(St(x, o, n), Do("receipt"), St(x, o, n))
           /\ Moves(St(x, o, n), Wr("COMPLETE"), St("COMPLETE", o, n))
           /\ Moves(St("COMPLETE", o, n), Do("unlink"), St(None, o, n))
           /\ Do("receipt").do = "receipt" /\ Wr("COMPLETE").do = "write"
           /\ Agrees(s, St(None, o, n), << >>)
<1>1. Stays(j, St("COMPLETE", o, n)) /\ Stays(j, St(None, o, n))
  BY DEF Stays, St, Stages, Rests, Bound, Statuses, Spots, Places, None
<1>2. Moves(St(x, o, n), Wr("COMPLETE"), St("COMPLETE", o, n)) /\ Wr("COMPLETE").do = "write"
  <2>1. x # None
    BY DEF Statuses, None
  <2>2. QED
    BY <2>1, WriteMoves
<1>3. Agrees(s, St(None, o, n), << >>)
  BY DEF Agrees, St, None
<1>4. QED
  BY <1>1, <1>2, <1>3, DeleteMoves

\* Deciding to delete, or to close after a deletion.
LEMMA DeletesOrCloses ==
    ASSUME NEW j, NEW s, NEW x \in Statuses, x # "PREPARED", NEW o, NEW n, NEW o2, NEW n2,
           o # n, Stays(j, St(x, o, n)), Stays(j, St(x, o2, n2)),
           \/ o \in {"discard", "gone"} /\ n = "dest" /\ o2 = "gone" /\ n2 = "dest"
           \/ o = "dest" /\ n \in {"discard", "gone"} /\ o2 = "dest" /\ n2 = "gone"
    PROVE  LET closing == <<Do("receipt"), Wr("COMPLETE"), Do("unlink")>>
           IN  /\ o # "discard" /\ n # "discard" => Leads(Plan(j, s, closing), j, St(x, o, n))
               /\ o = "discard" \/ n = "discard" =>
                     Leads(Plan(j, s, <<Do("empty"), Do("rmdir")>> \o closing), j, St(x, o, n))
<1>1. /\ Stays(j, St("COMPLETE", o2, n2)) /\ Stays(j, St(None, o2, n2))
      /\ Moves(St(x, o2, n2), Do("receipt"), St(x, o2, n2))
      /\ Moves(St(x, o2, n2), Wr("COMPLETE"), St("COMPLETE", o2, n2))
      /\ Moves(St("COMPLETE", o2, n2), Do("unlink"), St(None, o2, n2))
      /\ Do("receipt").do # "look" /\ Wr("COMPLETE").do # "look"
      /\ Agrees(s, St(None, o2, n2), << >>)
  BY Closes
<1>2. Agrees(s, St(None, o2, n2), <<Do("unlink")>>)
  BY DEF Agrees, St, None
<1>3. ASSUME o # "discard", n # "discard"
      PROVE  Leads(Plan(j, s, <<Do("receipt"), Wr("COMPLETE"), Do("unlink")>>), j, St(x, o, n))
  <2>1. o = o2 /\ n = n2
    BY <1>3
  <2>2. QED
    BY <1>1, <1>2, <2>1, Lead3 DEF SameOperation
<1>4. ASSUME o = "discard" \/ n = "discard"
      PROVE  Leads(Plan(j, s, <<Do("empty"), Do("rmdir"), Do("receipt"), Wr("COMPLETE"),
                               Do("unlink")>>), j, St(x, o, n))
  <2>1. Moves(St(x, o, n), Do("empty"), St(x, o, n)) /\ Do("empty").do = "empty"
    BY <1>4, DeleteMoves
  <2>2. Moves(St(x, o, n), Do("rmdir"), St(x, o2, n2)) /\ Do("rmdir").do = "rmdir"
    BY <1>4, DeleteMoves DEF Moved
  <2>3. QED
    BY <1>1, <2>1, <2>2, Lead5
<1>5. QED
  BY <1>3, <1>4, Joined

LEMMA PendingDeleteLeads ==
    ASSUME NEW j \in Journals, NEW s \in Seen, NEW m, NEW a,
           a.status \in {"FINALIZE_PENDING_DELETE", "ROLLBACK_FINALIZE_PENDING_DELETE"},
           j.status = a.status, Stays(j, a), Tells(j, a)
    PROVE  Leads(AtPendingDelete(j, s, m), j, a)
<1>. DEFINE closing == <<Do("receipt"), Wr("COMPLETE"), Do("unlink")>>
            deleting == <<Do("empty"), Do("rmdir")>> \o closing
<1>1. /\ a = St(a.status, a.old, a.new) /\ a.old # a.new
      /\ \/ /\ a.status = "FINALIZE_PENDING_DELETE"
            /\ a.old \in {"discard", "gone"} /\ a.new = "dest"
         \/ /\ a.status = "ROLLBACK_FINALIZE_PENDING_DELETE"
            /\ a.old = "dest" /\ a.new \in {"discard", "gone"}
  BY StageOf DEF Stays, Rests, None
<1>2. Exists(j, "discard") <=> a.old = "discard" \/ a.new = "discard"
  BY DEF Tells, Holds, Spots, Places
<1>3. /\ a.old # "discard" /\ a.new # "discard" => Leads(Plan(j, s, closing), j, a)
      /\ a.old = "discard" \/ a.new = "discard" => Leads(Plan(j, s, deleting), j, a)
  <2>1. a.status \in Statuses /\ a.status # "PREPARED"
    BY <1>1 DEF Statuses
  <2>2. CASE a.new = "dest"
    <3>1. Stays(j, St(a.status, "gone", "dest"))
      BY <1>1, <2>2 DEF Stays, St, Stages, Rests, Bound, Statuses, Spots, Places
    <3>2. QED
      BY <1>1, <2>1, <2>2, <3>1, DeletesOrCloses
  <2>3. CASE a.old = "dest"
    <3>1. Stays(j, St(a.status, "dest", "gone"))
      BY <1>1, <2>3 DEF Stays, St, Stages, Rests, Bound, Statuses, Spots, Places
    <3>2. QED
      BY <1>1, <2>1, <2>3, <3>1, DeletesOrCloses
  <2>4. QED
    BY <1>1, <2>2, <2>3
<1>. HIDE DEF closing, deleting
<1>4. QED
  BY <1>2, <1>3, ReportLeads DEF AtPendingDelete, closing, deleting

\* Every decision of a lone call leads on from the stage it is made in.
LEMMA EveryBlockLeads ==
    ASSUME NEW j \in Journals, NEW s \in Seen, NEW m, NEW a, a.status = j.status,
           Stays(j, a), Agrees(s, a, << >>), Tells(j, a), Stands(j, a)
    PROVE  Leads(Decision(j, s, m), j, a)
<1>1. CASE j.status = "PREPARED"
  BY <1>1, PreparedLeads DEF Decision
<1>2. CASE j.status = "OLD_MOVED"
  BY <1>2, OldMovedLeads DEF Decision
<1>3. CASE j.status = "NEW_ACTIVE"
  BY <1>3, NewActiveLeads DEF Decision
<1>4. CASE j.status = "ROLLBACK_PREPARED"
  BY <1>4, RollbackPreparedLeads DEF Decision
<1>5. CASE j.status = "ROLLBACK_NEW_MOVED"
  BY <1>5, RollbackNewMovedLeads DEF Decision
<1>6. CASE j.status = "ROLLED_BACK"
  BY <1>6, RolledBackLeads DEF Decision
<1>7. CASE j.status = "COMPLETE"
  BY <1>7, ReportLeads DEF Decision
<1>8. CASE j.status \in {"FINALIZE_PENDING_DELETE", "ROLLBACK_FINALIZE_PENDING_DELETE"}
  <2>1. Decision(j, s, m) = AtPendingDelete(j, s, m)
    BY <1>8 DEF Decision
  <2>2. QED
    BY <1>8, <2>1, PendingDeleteLeads
<1>9. j.status \in Statuses
  BY DEF Journals
<1>10. QED
  BY <1>1, <1>2, <1>3, <1>4, <1>5, <1>6, <1>7, <1>8, <1>9 DEF Statuses

-----------------------------------------------------------------------------
\* Starting and deciding.

LEMMA LookAgrees ==
    ASSUME NEW j, NEW a, Stays(j, a), Tells(j, a)
    PROVE  Look(j) \in Seen /\ Agrees(Look(j), a, << >>)
<1>1. \A s \in Spots : Exists(j, s) <=> Holds(a, s)
  BY DEF Tells
<1>2. IsNew(j, "dest") <=> a.new = "dest"
  BY DEF Tells, Spots
<1>3. Look(j) \in Seen
  BY DEF Look, Seen, Exists, IsNew
<1>4. Agrees(Look(j), a, << >>)
  BY <1>1, <1>2 DEF Look, Agrees, Spots, Places
<1>5. QED
  BY <1>3, <1>4

\* The stage an operation rests in.
LEMMA AtRest ==
    ASSUME LoneInv, NEW a \in Stages, JournalFits(a), journal # NoJournal
    PROVE  /\ journal \in Journals /\ Known(journal) /\ Stays(journal, a) /\ Tells(journal, a)
           /\ Stands(journal, a) /\ a.status = journal.status
<1>1. journal \in Journals /\ Known(journal)
  BY TypeParts DEF LoneInv, HomeInv
<1>2. QED
  BY <1>1, StageTells DEF LoneInv, JournalFits, Stays, Tells

LEMMA ReconcileStartLone ==
    ASSUME LoneInv, HomeInv', torn' = {}, NEW m \in Modes, ReconcileStart(Operator, m)
    PROVE  LoneInv' /\ UNCHANGED <<whole, fs[Dest]>>
<1>1. PICK x : x = [at |-> "reconcile", mode |-> m, data |-> journal, seen |-> Look(journal),
                    todo |-> << >>]
  OBVIOUS
<1>2. /\ journal # NoJournal /\ call' = [call EXCEPT ![Operator] = x]
      /\ UNCHANGED <<fs, receipt, whole, journal>>
  BY <1>1 DEF ReconcileStart
<1>3. x = call'[Operator] /\ \A c \in Callers \ {Operator} : call'[c] = call[c]
  <2>1. call \in [Callers -> CallRecords] /\ Operator \in Callers
    BY TypeParts, OperatorAssumption DEF LoneInv, HomeInv
  <2>2. QED
    BY <1>2, <2>1
<1>4. PICK a \in Stages : JournalFits(a)
  BY <1>2 DEF LoneInv
<1>5. Stays(journal, a) /\ Tells(journal, a) /\ Stands(journal, a) /\ a.status = journal.status
  BY <1>2, <1>4, AtRest
<1>6. PICK w : w = <<a>>
  OBVIOUS
<1>7. w \in Seq(Stages) /\ Len(w) = 1 /\ w[1] = a /\ Len(<< >>) = 0
  BY <1>6
<1>8. Script(journal, << >>, w)
  BY <1>5, <1>7 DEF Script, Stays
<1>9. Agrees(Look(journal), w[Len(w)], << >>)
  BY <1>5, <1>7, LookAgrees
<1>10. WorkFits(x, w)
  BY <1>1, <1>2, <1>5, <1>7, <1>8, <1>9 DEF WorkFits, Recorded, SameOperation
<1>11. LoneInv'
  BY <1>2, <1>3, <1>7, <1>10, QuietLone
<1>12. QED
  BY <1>2, <1>11

LEMMA ReconcileLone ==
    ASSUME LoneInv, HomeInv', torn' = {}, Reconcile(Operator)
    PROVE  LoneInv' /\ UNCHANGED <<whole, fs[Dest]>>
<1>1. PICK k : k = call[Operator]
  OBVIOUS
<1>2. k.at = "reconcile" /\ k.todo = << >>
  BY <1>1 DEF Reconcile
<1>3. /\ Operator \in Callers /\ HomeInv /\ k \in CallRecords /\ k.data \in Journals
      /\ k.seen \in Seen /\ Known(k.data)
  BY <1>1, <1>2, CallFacts, OperatorAssumption DEF LoneInv, CallFits
<1>4. PICK w \in Seq(Stages) : WorkFits(k, w)
  BY <1>1, <1>2 DEF LoneInv
<1>5. /\ Len(w) = 1 /\ w[1] \in Stages /\ Rests(w[1]) /\ Bound(k.data, w[1])
      /\ journal # NoJournal /\ journal = k.data /\ Stands(k.data, w[1])
      /\ w[1].status = k.data.status /\ Agrees(k.seen, w[1], << >>)
  <2>1. Script(k.data, << >>, w) /\ Len(<< >>) = 0
    BY <1>2, <1>4 DEF WorkFits
  <2>2. Len(w) = 1 /\ w[1] \in Stages /\ Rests(w[1]) /\ Bound(k.data, w[1])
    <3>1. Len(w) = 1 /\ 1 \in 1..1
      BY <2>1 DEF Script
    <3>2. w[1] \in Stages
      BY <3>1
    <3>3. QED
      BY <2>1, <3>1, <3>2 DEF Script
  <2>3. /\ journal # NoJournal /\ journal = k.data /\ Stands(k.data, w[1])
        /\ w[1].status = k.data.status /\ Agrees(k.seen, w[Len(w)], << >>)
    BY <1>2, <1>4 DEF WorkFits, Recorded
  <2>4. QED
    BY <2>2, <2>3
<1>6. PICK d : d = Decision(k.data, k.seen, k.mode)
  OBVIOUS
<1>7. Leads(d, k.data, w[1])
  <2>1. Stays(k.data, w[1]) /\ Tells(k.data, w[1])
    BY <1>3, <1>5, StageTells DEF Stays, Tells, LoneInv
  <2>2. QED
    BY <1>3, <1>5, <1>6, <2>1, EveryBlockLeads
<1>8. /\ UNCHANGED <<fs, receipt, whole, journal>>
      /\ call' = [call EXCEPT ![Operator] =
              IF d.todo = << >> THEN Idle
              ELSE [@ EXCEPT !.data = d.data, !.seen = d.seen, !.todo = d.todo]]
  BY <1>1, <1>6 DEF Reconcile
<1>9. PICK x : x = IF d.todo = << >> THEN Idle
                   ELSE [k EXCEPT !.data = d.data, !.seen = d.seen, !.todo = d.todo]
  OBVIOUS
<1>10. x = call'[Operator] /\ \A c \in Callers \ {Operator} : call'[c] = call[c]
  <2>1. call \in [Callers -> CallRecords]
    BY TypeParts DEF LoneInv, HomeInv
  <2>2. QED
    BY <1>1, <1>3, <1>8, <1>9, <2>1
<1>11. x.at # "idle" => \E v \in Seq(Stages) : WorkFits(x, v)
  <2>1. SUFFICES ASSUME x.at # "idle" PROVE \E v \in Seq(Stages) : WorkFits(x, v)
    OBVIOUS
  <2>2. d.todo # << >>
    BY <1>9, <2>1 DEF Idle
  <2>3. x.at = "reconcile" /\ x.data = d.data /\ x.seen = d.seen /\ x.todo = d.todo
    BY <1>2, <1>3, <1>9, <2>2 DEF CallRecords
  <2>4. PICK v \in Seq(Stages) : /\ Script(d.data, d.todo, v) /\ v[1] = w[1]
                                 /\ Agrees(d.seen, v[Len(v)], d.todo)
    BY <1>7, <2>2 DEF Leads
  <2>5. /\ SameOperation(k.data, d.data)
        /\ k.data = d.data \/ Head(d.todo).do = "write"
    BY <1>7, <2>2 DEF Leads
  <2>6. Stands(d.data, v[1])
    BY <1>5, <2>4, <2>5, SameStands DEF SameOperation
  <2>7. WorkFits(x, v)
    BY <1>5, <2>2, <2>3, <2>4, <2>5, <2>6 DEF WorkFits, Recorded
  <2>8. QED
    BY <2>7
<1>12. LoneInv'
  BY <1>8, <1>10, <1>11, QuietLone
<1>13. QED
  BY <1>8, <1>12

\* The script of a replacement.
LEMMA ReplaceScript ==
    ASSUME NEW j, j.role = None
    PROVE  \E w \in Seq(Stages) :
              /\ w[1] = St(None, "dest", "gone")
              /\ Script(j, <<Do("restore"), Wr("PREPARED"),
                             Ren("dest", "rollback"), Wr("OLD_MOVED"),
                             Ren("prepared", "dest"), Wr("NEW_ACTIVE")>>, w)
<1>. DEFINE a1 == St(None, "dest", "gone")
            a2 == St(None, "dest", "prepared")
            a3 == St("PREPARED", "dest", "prepared")
            a4 == St("PREPARED", "rollback", "prepared")
            a5 == St("OLD_MOVED", "rollback", "prepared")
            a6 == St("OLD_MOVED", "rollback", "dest")
            a7 == St("NEW_ACTIVE", "rollback", "dest")
            t == <<Do("restore"), Wr("PREPARED"), Ren("dest", "rollback"), Wr("OLD_MOVED"),
                   Ren("prepared", "dest"), Wr("NEW_ACTIVE")>>
            w == <<a1, a2, a3, a4, a5, a6, a7>>
<1>1. /\ Stays(j, a1) /\ Stays(j, a2) /\ Stays(j, a3) /\ Stays(j, a4) /\ Stays(j, a5)
      /\ Stays(j, a6) /\ Stays(j, a7)
  BY DEF Stays, St, Stages, Rests, Bound, Statuses, Spots, Places, None
<1>2. /\ Moves(a1, t[1], a2) /\ t[1].do = "restore"
  <2>1. t[1] = Do("restore") /\ Do("restore").do = "restore"
    BY DEF Do
  <2>2. Moves(a1, Do("restore"), a2)
    BY <2>1 DEF Moves, St
  <2>3. QED
    BY <2>1, <2>2
<1>3. /\ Moves(a2, t[2], a3) /\ t[2].do = "write" /\ Moves(a4, t[4], a5) /\ t[4].do = "write"
      /\ Moves(a6, t[6], a7) /\ t[6].do = "write"
  BY WriteMoves DEF None
<1>4. /\ Moves(a3, t[3], a4) /\ t[3].do = "rename" /\ Moves(a5, t[5], a6) /\ t[5].do = "rename"
  BY RenameMoves
<1>5. Len(t) = 6
  OBVIOUS
<1>. HIDE DEF a1, a2, a3, a4, a5, a6, a7, t
<1>6. /\ w \in Seq(Stages) /\ Len(w) = 7 /\ w[1] = a1 /\ w[2] = a2 /\ w[3] = a3 /\ w[4] = a4
      /\ w[5] = a5 /\ w[6] = a6 /\ w[7] = a7
  BY <1>1 DEF Stays
<1>. HIDE DEF w
<1>7. ASSUME NEW r \in 1..6 PROVE Moves(w[r], t[r], w[r + 1]) /\ t[r].do # "look"
  <2>1. CASE r = 1
    BY <1>2, <1>6, <2>1
  <2>2. CASE r = 2
    BY <1>3, <1>6, <2>2
  <2>3. CASE r = 3
    BY <1>4, <1>6, <2>3
  <2>4. CASE r = 4
    BY <1>3, <1>6, <2>4
  <2>5. CASE r = 5
    BY <1>4, <1>6, <2>5
  <2>6. CASE r = 6
    BY <1>3, <1>6, <2>6
  <2>7. QED
    BY <2>1, <2>2, <2>3, <2>4, <2>5, <2>6
<1>8. ASSUME NEW r \in 1..7 PROVE Stays(j, w[r])
  <2>1. r = 1 \/ r = 2 \/ r = 3 \/ r = 4 \/ r = 5 \/ r = 6 \/ r = 7
    OBVIOUS
  <2>2. QED
    BY <1>1, <1>6, <2>1
<1>9. Script(j, t, w)
  BY <1>5, <1>6, <1>7, <1>8 DEF Script, Stays
<1>10. QED
  BY <1>6, <1>9 DEF a1, t

LEMMA ReplaceStartLone ==
    ASSUME LoneInv, HomeInv', torn' = {}, NEW a \in Archives, ReplaceStart(Operator, a), receipt[fs[Dest]] # a
    PROVE  LoneInv' /\ UNCHANGED <<whole, fs[Dest]>>
<1>1. PICK j : j = [op |-> born + 1, status |-> "PREPARED", old |-> fs[Dest],
                    archive |-> a, role |-> None, bound |-> Nothing]
  OBVIOUS
<1>2. PICK x : x = [at |-> "replace", mode |-> "observe", seen |-> Blind, data |-> j,
                    todo |-> <<Do("restore"), Wr("PREPARED"),
                               Ren("dest", "rollback"), Wr("OLD_MOVED"),
                               Ren("prepared", "dest"), Wr("NEW_ACTIVE")>>]
  OBVIOUS
<1>3. /\ journal = NoJournal /\ fs[Dest] # Nothing /\ born < MaxHomes
      /\ call' = [call EXCEPT ![Operator] = x]
      /\ UNCHANGED <<fs, receipt, whole, journal>>
  BY <1>1, <1>2 DEF ReplaceStart
<1>4. x = call'[Operator] /\ \A c \in Callers \ {Operator} : call'[c] = call[c]
  <2>1. call \in [Callers -> CallRecords] /\ Operator \in Callers
    BY TypeParts, OperatorAssumption DEF LoneInv, HomeInv
  <2>2. QED
    BY <1>3, <2>1
<1>5. /\ born \in Nat /\ born + 1 \in Homes /\ fs[Dest] \in Homes /\ fs[Dest] <= born
      /\ \A p \in Paths : fs[p] \in Nat /\ fs[p] <= born
      /\ Dest \in Paths
  <2>1. HomeInv
    BY DEF LoneInv
  <2>2. born \in Nat /\ Dest \in Paths /\ \A p \in Paths : fs[p] \in Homes \cup {Nothing} /\ fs[p] <= born
    BY <2>1, TypeParts, Numbers DEF HomeInv, DirsFit, Paths
  <2>3. born + 1 \in Homes
    BY <1>3, <2>2, BoundsAssumption DEF Homes
  <2>4. QED
    BY <1>3, <2>2, <2>3, Numbers DEF Nothing
<1>6. /\ j.op = born + 1 /\ j.old = fs[Dest] /\ j.archive = a /\ j.role = None
      /\ j.status = "PREPARED"
  BY <1>1
<1>7. ASSUME NEW s \in Places PROVE fs[<<s, born + 1>>] = Nothing
  <2>1. <<s, born + 1>> \in Paths \ {Dest}
    BY <1>5, Numbers DEF Paths, Dest, Nothing
  <2>2. CASE s = "prepared"
    <3>1. fs[<<"prepared", born + 1>>] \in {Nothing, born + 1}
      BY <1>5 DEF LoneInv, HomeInv, DirsFit
    <3>2. fs[<<s, born + 1>>] # born + 1
      BY <1>5, <2>1
    <3>3. QED
      BY <2>2, <3>1, <3>2
  <2>3. CASE s # "prepared"
    BY <1>3, <2>1, <2>3 DEF LoneInv
  <2>4. QED
    BY <2>2, <2>3
<1>8. Stands(j, St(None, "dest", "gone"))
  <2>1. \A s \in Spots : At(j, s) = IF s = "dest" THEN j.old ELSE Nothing
    BY <1>6, <1>7 DEF At, Path, Spots, Places
  <2>2. j.op # j.old /\ receipt[j.old] # j.archive
    BY <1>5, <1>6
  <2>3. QED
    BY <2>1, <2>2 DEF Stands, St, Spots, Places
<1>9. PICK w \in Seq(Stages) : w[1] = St(None, "dest", "gone") /\ Script(j, x.todo, w)
  BY <1>2, <1>6, ReplaceScript
<1>10. x.at = "replace" /\ x.data = j
  BY <1>2
<1>11. WorkFits(x, w)
  BY <1>3, <1>6, <1>8, <1>9, <1>10 DEF WorkFits, Recorded, St
<1>12. LoneInv'
  BY <1>3, <1>4, <1>11, QuietLone
<1>13. QED
  BY <1>3, <1>12

-----------------------------------------------------------------------------
\* What inspect and reconcile say in a stage in which a call may have ended.

Clear(d) == d.says # "BLOCKED"

LEMMA Says ==
    \A j, s, what, todo : Clear(Plan(j, s, todo)) /\ (what # "BLOCKED" => Clear(Report(j, s, what)))
BY DEF Report, Plan, Clear

\* The directories in words.
LEMMA TellsEach ==
    ASSUME NEW j, NEW a, Tells(j, a)
    PROVE  /\ Exists(j, "dest") <=> a.old = "dest" \/ a.new = "dest"
           /\ Exists(j, "prepared") <=> a.old = "prepared" \/ a.new = "prepared"
           /\ Exists(j, "rollback") <=> a.old = "rollback" \/ a.new = "rollback"
           /\ Exists(j, "discard") <=> a.old = "discard" \/ a.new = "discard"
           /\ Exists(j, "failed") <=> a.old = "failed" \/ a.new = "failed"
           /\ IsOld(j, "dest") <=> a.old = "dest"
           /\ IsOld(j, "rollback") <=> a.old = "rollback"
           /\ IsNew(j, "dest") <=> a.new = "dest"
           /\ IsNew(j, "prepared") <=> a.new = "prepared"
           /\ IsNew(j, "failed") <=> a.new = "failed"
           /\ a.old = "rollback" => Standalone(j, "rollback")
<1>1. {"dest", "prepared", "rollback", "discard", "failed"} \subseteq Spots
  BY DEF Spots, Places
<1>3. a.old = "rollback" => Standalone(j, "rollback")
  BY <1>1 DEF Tells, Holds, Standalone
<1>4. QED
  BY <1>1, <1>3 DEF Tells, Holds

\* The flags a call reads first.
LEMMA LookEach ==
    ASSUME NEW j
    PROVE  /\ (Look(j).dest <=> Exists(j, "dest")) /\ (Look(j).new <=> IsNew(j, "dest"))
           /\ Look(j).prepared <=> Exists(j, "prepared")
           /\ Look(j).rollback <=> Exists(j, "rollback")
           /\ Look(j).discard <=> Exists(j, "discard")
BY DEF Look

\* The journal of an operation that was withdrawn: nothing is offered.
Gone(a) == a.status = "PREPARED" /\ a.new = "gone"

LEMMA GoneFacts ==
    ASSUME NEW a, Rests(a), Gone(a), journal # NoJournal, a.status = journal.status,
           Tells(journal, a)
    PROVE  Withdrawn /\ fs[Dest] \in whole /\ \A m \in Modes : ~Offers(journal, m)
<1>1. a.old = "dest" /\ a.new = "gone" /\ journal.status = "PREPARED"
  BY DEF Rests, Gone, None
<1>2. /\ IsOld(journal, "dest") /\ ~Exists(journal, "prepared") /\ ~Exists(journal, "rollback")
      /\ ~IsNew(journal, "dest") /\ ~IsNew(journal, "prepared") /\ Exists(journal, "dest")
  BY <1>1, TellsEach
<1>3. fs[Dest] \in whole
  <2>1. At(journal, "dest") \in whole
    BY <1>1 DEF Tells, Holds, Spots
  <2>2. QED
    BY <2>1 DEF At, Path
<1>4. \A m \in Modes : ~Offers(journal, m)
  BY <1>1, <1>2 DEF Offers
<1>5. QED
  BY <1>1, <1>2, <1>3, <1>4 DEF Withdrawn

\* No other stage looks ambiguous to reconcile, whatever it is asked to do.
LEMMA NeverBlocked ==
    ASSUME NEW j \in Journals, NEW a, a.status = j.status, Stays(j, a), Tells(j, a),
           ~Gone(a), NEW m \in Modes
    PROVE  Clear(Decision(j, Look(j), m))
<1>. DEFINE s == Look(j)
<1>1. Rests(a) /\ a.status # None
  BY DEF Stays, Journals, Statuses, None
<1>2. CASE j.status = "PREPARED"
  <2>1. a.old \in {"dest", "rollback"} /\ a.new = "prepared"
    BY <1>1, <1>2 DEF Rests, Gone
  <2>2. Clear(AtPrepared(j, s, m))
    BY <2>1, TellsEach, LookEach, Says DEF AtPrepared
  <2>3. QED
    BY <1>2, <2>2 DEF Decision
<1>3. CASE j.status = "OLD_MOVED"
  <2>1. a.old = "rollback" /\ a.new \in {"prepared", "dest"}
    BY <1>1, <1>3 DEF Rests
  <2>2. Clear(AtOldMoved(j, s, m))
    BY <2>1, TellsEach, LookEach, Says DEF AtOldMoved
  <2>3. QED
    BY <1>3, <2>2 DEF Decision
<1>4. CASE j.status = "NEW_ACTIVE"
  <2>1. a.old \in {"rollback", "discard"} /\ a.new = "dest"
    BY <1>1, <1>4 DEF Rests
  <2>2. Clear(AtNewActive(j, s, m))
    <3>1. CASE a.old = "rollback"
      BY <2>1, <3>1, TellsEach, LookEach, Says DEF AtNewActive, Modes
    <3>2. CASE a.old = "discard"
      <4>1. DiscardBound(j, "rollback_old")
        BY <3>2 DEF Tells
      <4>2. QED
        BY <2>1, <3>2, <4>1, TellsEach, LookEach, Says DEF AtNewActive
    <3>3. QED
      BY <2>1, <3>1, <3>2
  <2>3. QED
    BY <1>4, <2>2 DEF Decision
<1>5. CASE j.status = "ROLLBACK_PREPARED"
  <2>1. a.old = "rollback" /\ a.new \in {"dest", "failed"}
    BY <1>1, <1>5 DEF Rests
  <2>2. Clear(AtRollbackPrepared(j, s, m))
    BY <2>1, TellsEach, Says DEF AtRollbackPrepared, OldRestored
  <2>3. QED
    BY <1>5, <2>2 DEF Decision
<1>6. CASE j.status = "ROLLBACK_NEW_MOVED"
  <2>1. a.old \in {"rollback", "dest"} /\ a.new = "failed"
    BY <1>1, <1>6 DEF Rests
  <2>2. Clear(AtRollbackNewMoved(j, s, m))
    BY <2>1, TellsEach, Says DEF AtRollbackNewMoved, OldRestored
  <2>3. QED
    BY <1>6, <2>2 DEF Decision
<1>7. CASE j.status = "ROLLED_BACK"
  <2>1. a.old = "dest" /\ a.new \in {"failed", "discard"}
    BY <1>1, <1>7 DEF Rests
  <2>2. Clear(AtRolledBack(j, s, m))
    <3>1. CASE a.new = "failed"
      BY <2>1, <3>1, TellsEach, Says DEF AtRolledBack, OldRestored
    <3>2. CASE a.new = "discard"
      <4>1. DiscardBound(j, "failed_new")
        BY <3>2 DEF Tells
      <4>2. QED
        BY <2>1, <3>2, <4>1, TellsEach, Says DEF AtRolledBack
    <3>3. QED
      BY <2>1, <3>1, <3>2
  <2>3. QED
    BY <1>7, <2>2 DEF Decision
<1>8. CASE j.status = "COMPLETE"
  BY <1>8, Says DEF Decision
<1>9. CASE j.status = "FINALIZE_PENDING_DELETE"
  <2>1. a.old \in {"discard", "gone"} /\ a.new = "dest"
    BY <1>1, <1>9 DEF Rests
  <2>2. a.old = "discard" => DiscardBound(j, "rollback_old")
    BY DEF Tells
  <2>3. Clear(AtPendingDelete(j, s, m))
    BY <1>9, <2>1, <2>2, TellsEach, Says DEF AtPendingDelete
  <2>4. QED
    BY <1>9, <2>3 DEF Decision
<1>10. CASE j.status = "ROLLBACK_FINALIZE_PENDING_DELETE"
  <2>1. a.old = "dest" /\ a.new \in {"discard", "gone"}
    BY <1>1, <1>10 DEF Rests
  <2>2. a.new = "discard" => DiscardBound(j, "failed_new")
    BY DEF Tells
  <2>3. Clear(AtPendingDelete(j, s, m))
    BY <1>10, <2>1, <2>2, TellsEach, Says DEF AtPendingDelete
  <2>4. QED
    BY <1>10, <2>3 DEF Decision
<1>11. j.status \in Statuses
  BY DEF Journals
<1>12. QED
  BY <1>2, <1>3, <1>4, <1>5, <1>6, <1>7, <1>8, <1>9, <1>10, <1>11 DEF Statuses

\* In every other stage but the last inspect offers a command.
LEMMA AlwaysOffers ==
    ASSUME NEW j \in Journals, j.status # "COMPLETE", NEW a, a.status = j.status,
           Stays(j, a), Tells(j, a), ~Gone(a)
    PROVE  \E m \in Modes : Offers(j, m)
<1>1. Rests(a) /\ a.status # None
  BY DEF Stays, Journals, Statuses, None
<1>2. CASE j.status = "PREPARED"
  <2>1. a.old \in {"dest", "rollback"} /\ a.new = "prepared"
    BY <1>1, <1>2 DEF Rests, Gone
  <2>2. Offers(j, "resume")
    BY <1>2, <2>1, TellsEach DEF Offers
  <2>3. QED
    BY <2>2 DEF Modes
<1>3. CASE j.status = "OLD_MOVED"
  <2>1. a.old = "rollback" /\ a.new \in {"prepared", "dest"}
    BY <1>1, <1>3 DEF Rests
  <2>2. a.new = "prepared" => Offers(j, "resume")
    BY <1>3, <2>1, TellsEach DEF Offers
  <2>3. a.new = "dest" => Offers(j, "observe")
    BY <1>3, <2>1, TellsEach DEF Offers
  <2>4. QED
    BY <2>1, <2>2, <2>3 DEF Modes
<1>4. CASE j.status = "NEW_ACTIVE"
  <2>1. a.old \in {"rollback", "discard"} /\ a.new = "dest"
    BY <1>1, <1>4 DEF Rests
  <2>2. Offers(j, "finalize")
    BY <1>4, <2>1, TellsEach DEF Offers
  <2>3. QED
    BY <2>2 DEF Modes
<1>5. CASE j.status = "ROLLBACK_PREPARED"
  <2>1. a.old = "rollback" /\ a.new \in {"dest", "failed"}
    BY <1>1, <1>5 DEF Rests
  <2>2. Offers(j, "rollback")
    BY <1>5, <2>1, TellsEach DEF Offers
  <2>3. QED
    BY <2>2 DEF Modes
<1>6. CASE j.status = "ROLLBACK_NEW_MOVED"
  <2>1. a.old \in {"rollback", "dest"} /\ a.new = "failed"
    BY <1>1, <1>6 DEF Rests
  <2>2. a.old = "rollback" => Offers(j, "rollback")
    BY <1>6, <2>1, TellsEach DEF Offers
  <2>3. a.old = "dest" => Offers(j, "observe")
    BY <1>6, <2>1, TellsEach DEF Offers, OldRestored
  <2>4. QED
    BY <2>1, <2>2, <2>3 DEF Modes
<1>7. CASE j.status = "ROLLED_BACK"
  <2>1. a.old = "dest" /\ a.new \in {"failed", "discard"}
    BY <1>1, <1>7 DEF Rests
  <2>2. Offers(j, "finalize")
    BY <1>7, <2>1, TellsEach DEF Offers, OldRestored
  <2>3. QED
    BY <2>2 DEF Modes
<1>8. CASE j.status = "FINALIZE_PENDING_DELETE"
  <2>1. a.old \in {"discard", "gone"} /\ a.new = "dest"
    BY <1>1, <1>8 DEF Rests
  <2>2. Offers(j, "finalize")
    BY <1>8, <2>1, TellsEach DEF Offers
  <2>3. QED
    BY <2>2 DEF Modes
<1>9. CASE j.status = "ROLLBACK_FINALIZE_PENDING_DELETE"
  <2>1. a.old = "dest" /\ a.new \in {"discard", "gone"}
    BY <1>1, <1>9 DEF Rests
  <2>2. Offers(j, "finalize")
    BY <1>9, <2>1, TellsEach DEF Offers
  <2>3. QED
    BY <2>2 DEF Modes
<1>10. j.status \in Statuses
  BY DEF Journals
<1>11. QED
  BY <1>2, <1>3, <1>4, <1>5, <1>6, <1>7, <1>8, <1>9, <1>10 DEF Statuses

LEMMA JournalLeadsOn ==
    ASSUME LoneInv
    PROVE  AdviceIsSound /\ NeverStranded /\ NoJournalNoDebris
<1>1. ASSUME journal # NoJournal
      PROVE  /\ \A m \in Advice : Clear(Decision(journal, Look(journal), m))
             /\ Advice = {} => /\ fs[Dest] \in whole
                               /\ journal.status = "COMPLETE" \/ Withdrawn
  <2>1. PICK a \in Stages : JournalFits(a)
    BY <1>1 DEF LoneInv
  <2>2. /\ journal \in Journals /\ Stays(journal, a) /\ Tells(journal, a)
        /\ a.status = journal.status /\ Rests(a)
    BY <1>1, <2>1, AtRest DEF Stays
  <2>3. Advice = {m \in Modes : Offers(journal, m)}
    BY <1>1 DEF Advice
  <2>4. CASE Gone(a)
    <3>1. Withdrawn /\ fs[Dest] \in whole /\ \A m \in Modes : ~Offers(journal, m)
      BY <1>1, <2>2, <2>4, GoneFacts
    <3>2. QED
      BY <2>3, <3>1
  <2>5. CASE ~Gone(a)
    <3>1. \A m \in Modes : Clear(Decision(journal, Look(journal), m))
      BY <2>2, <2>5, NeverBlocked
    <3>2. journal.status # "COMPLETE" => \E m \in Modes : Offers(journal, m)
      BY <2>2, <2>5, AlwaysOffers
    <3>3. ASSUME journal.status = "COMPLETE" PROVE fs[Dest] \in whole
      <4>1. a.old = "dest" \/ a.new = "dest"
        BY <2>2, <3>3 DEF Rests, None
      <4>2. At(journal, "dest") \in whole
        BY <2>2, <4>1 DEF Tells, Holds, Spots
      <4>3. QED
        BY <4>2 DEF At, Path
    <3>4. QED
      BY <2>3, <3>1, <3>2, <3>3
  <2>6. QED
    BY <2>4, <2>5
<1>2. AdviceIsSound
  <2>1. \A m \in Advice : journal # NoJournal
    BY DEF Advice
  <2>2. QED
    BY <1>1, <2>1 DEF AdviceIsSound, Clear
<1>3. NeverStranded
  BY <1>1 DEF NeverStranded
<1>4. NoJournalNoDebris
  BY DEF LoneInv, NoJournalNoDebris, Debris
<1>5. QED
  BY <1>2, <1>3, <1>4

-----------------------------------------------------------------------------
\* One operator at a time: the steps together.

LEMMA LoneInit ==
    ASSUME Init
    PROVE  LoneInv
<1>1. HomeInv
  BY HomeInit
<1>2. /\ fs = [p \in Paths |-> IF p = Dest THEN 1 ELSE Nothing] /\ whole = {1}
      /\ journal = NoJournal /\ call = [c \in Callers |-> Idle] /\ torn = {}
  BY DEF Init
<1>3. Dest \in Paths /\ fs[Dest] = 1 /\ \A p \in Paths \ {Dest} : fs[p] = Nothing
  BY <1>2 DEF Paths
<1>4. \A c \in Callers : call[c].at = "idle"
  BY <1>2 DEF Idle
<1>5. QED
  BY <1>1, <1>2, <1>3, <1>4, OperatorAssumption DEF LoneInv

\* Whatever the served home is used for.
LEMMA ServingLone ==
    ASSUME LoneInv, HomeInv', torn' = {}, UNCHANGED <<fs, receipt, whole, journal, call>>
    PROVE  LoneInv' /\ UNCHANGED <<whole, fs[Dest]>>
<1>1. PICK x : x = call[Operator]
  OBVIOUS
<1>2. x = call'[Operator] /\ \A c \in Callers \ {Operator} : call'[c] = call[c]
  BY <1>1
<1>3. LoneInv'
  BY <1>1, <1>2, QuietLone
<1>4. QED
  BY <1>3

LEMMA EffectsLone ==
    ASSUME LoneInv, HomeInv', torn' = {}, Effect(Operator)
    PROVE  LoneInv' /\ [Keeping!KNext]_<<whole, fs[Dest]>>
<1>1. PICK k : k = call[Operator]
  OBVIOUS
<1>2. PICK j : j = k.data
  OBVIOUS
<1>3. ASSUME k.todo # << >>
      PROVE  k.at # "idle" /\ \E w \in Seq(Stages) : WorkFits(k, w)
  BY <1>1, <1>3, HasScript
<1>4. CASE Reconcile(Operator)
  BY <1>4, ReconcileLone
<1>5. CASE Restore(Operator)
  <2>1. k.todo # << >>
    BY <1>1, <1>5 DEF Restore, Next1
  <2>2. PICK w \in Seq(Stages) : WorkFits(k, w)
    BY <1>3, <2>1
  <2>3. QED
    BY <1>1, <1>2, <1>3, <1>5, <2>1, <2>2, RestoreLone
<1>6. CASE Rename(Operator)
  <2>1. k.todo # << >>
    BY <1>1, <1>6 DEF Rename, Next1
  <2>2. PICK w \in Seq(Stages) : WorkFits(k, w)
    BY <1>3, <2>1
  <2>3. QED
    BY <1>1, <1>2, <1>3, <1>6, <2>1, <2>2, RenameLone
<1>7. CASE Write(Operator)
  <2>1. k.todo # << >>
    BY <1>1, <1>7 DEF Write, Next1
  <2>2. PICK w \in Seq(Stages) : WorkFits(k, w)
    BY <1>3, <2>1
  <2>3. QED
    BY <1>1, <1>3, <1>7, <2>1, <2>2, WriteLone
<1>8. CASE LookAgain(Operator)
  <2>1. k.todo # << >>
    BY <1>1, <1>8 DEF LookAgain, Next1
  <2>2. PICK w \in Seq(Stages) : WorkFits(k, w)
    BY <1>3, <2>1
  <2>3. QED
    BY <1>1, <1>3, <1>8, <2>1, <2>2, LookAgainLone
<1>9. CASE Empty(Operator)
  <2>1. k.todo # << >>
    BY <1>1, <1>9 DEF Empty, Next1
  <2>2. PICK w \in Seq(Stages) : WorkFits(k, w)
    BY <1>3, <2>1
  <2>3. QED
    BY <1>1, <1>2, <1>3, <1>9, <2>1, <2>2, EmptyLone
<1>10. CASE RemoveRoot(Operator)
  <2>1. k.todo # << >>
    BY <1>1, <1>10 DEF RemoveRoot, Next1
  <2>2. PICK w \in Seq(Stages) : WorkFits(k, w)
    BY <1>3, <2>1
  <2>3. QED
    BY <1>1, <1>2, <1>3, <1>10, <2>1, <2>2, RemoveRootLone
<1>11. CASE WriteReceipt(Operator)
  <2>1. k.todo # << >>
    BY <1>1, <1>11 DEF WriteReceipt, Next1
  <2>2. PICK w \in Seq(Stages) : WorkFits(k, w)
    BY <1>3, <2>1
  <2>3. QED
    BY <1>1, <1>2, <1>3, <1>11, <2>1, <2>2, WriteReceiptLone
<1>12. CASE Unlink(Operator)
  <2>1. k.todo # << >>
    BY <1>1, <1>12 DEF Unlink, Next1
  <2>2. PICK w \in Seq(Stages) : WorkFits(k, w)
    BY <1>3, <2>1
  <2>3. QED
    BY <1>1, <1>2, <1>3, <1>12, <2>1, <2>2, UnlinkLone
<1>13. CASE Return(Operator) \/ Raise(Operator)
  BY <1>13, EndingLone
<1>14. CASE Cleanup(Operator)
  <2>1. k.at # "idle"
    BY <1>1, <1>14 DEF Cleanup
  <2>2. PICK w \in Seq(Stages) : WorkFits(k, w)
    BY <1>1, <2>1, HasScript
  <2>3. QED
    BY <1>1, <1>2, <1>14, <2>1, <2>2, CleanupLone
<1>15. QED
  BY <1>4, <1>5, <1>6, <1>7, <1>8, <1>9, <1>10, <1>11, <1>12, <1>13, <1>14 DEF Effect

\* A call that goes wrong, up to the first cleanup that leaves a copy half deleted.
LEMMA FaultsLone ==
    ASSUME LoneInv, HomeInv', torn' = {}, Fault(Operator)
    PROVE  LoneInv' /\ [Keeping!KNext]_<<whole, fs[Dest]>>
<1>1. PICK k : k = call[Operator]
  OBVIOUS
<1>2. PICK j : j = k.data
  OBVIOUS
<1>3. ASSUME k.todo # << >>
      PROVE  k.at # "idle" /\ \E w \in Seq(Stages) : WorkFits(k, w)
  BY <1>1, <1>3, HasScript
<1>4. CASE FirstWriteRaises(Operator)
  <2>1. k.todo # << >>
    BY <1>1, <1>4 DEF FirstWriteRaises
  <2>2. PICK w \in Seq(Stages) : WorkFits(k, w)
    BY <1>3, <2>1
  <2>3. QED
    BY <1>1, <1>2, <1>3, <1>4, <2>1, <2>2, FirstWriteRaisesLone
<1>5. CASE CleanupCutShort(Operator)
  BY <1>5 DEF CleanupCutShort
<1>6. CASE EmptyCutShort(Operator)
  <2>1. k.todo # << >>
    BY <1>1, <1>6 DEF EmptyCutShort, Next1
  <2>2. PICK w \in Seq(Stages) : WorkFits(k, w)
    BY <1>3, <2>1
  <2>3. QED
    BY <1>1, <1>2, <1>3, <1>6, <2>1, <2>2, EmptyCutShortLone
<1>7. CASE Stop(Operator)
  BY <1>7, EndingLone
<1>8. QED
  BY <1>4, <1>5, <1>6, <1>7 DEF Fault

LEMMA AloneKeeps ==
    ASSUME LoneInv, HomeInv', torn' = {}, Alone
    PROVE  LoneInv' /\ [Keeping!KNext]_<<whole, fs[Dest]>>
<1>1. CASE \E a \in Archives : ReplaceStart(Operator, a) /\ receipt[fs[Dest]] # a
  BY <1>1, ReplaceStartLone
<1>2. CASE \E m \in Modes : ReconcileStart(Operator, m)
  BY <1>2, ReconcileStartLone
<1>3. CASE Effect(Operator)
  BY <1>3, EffectsLone
<1>4. CASE Fault(Operator)
  BY <1>4, FaultsLone
<1>6. CASE LoadWork \/ FinishWork
  <2>1. UNCHANGED <<fs, receipt, whole, journal, call>>
    BY <1>6 DEF LoadWork, FinishWork
  <2>2. QED
    BY <2>1, ServingLone
<1>7. QED
  BY <1>1, <1>2, <1>3, <1>4, <1>6 DEF Alone

\* A copy that is half deleted stays half deleted.
LEMMA TornStays ==
    ASSUME [Next]_vars
    PROVE  torn \subseteq torn'
<1>1. CASE UNCHANGED vars
  BY <1>1 DEF vars, deleted
<1>2. ASSUME NEW c \in Callers, \/ \E a \in Archives : ReplaceStart(c, a)
                                \/ \E m \in Modes : ReconcileStart(c, m)
      PROVE  torn \subseteq torn'
  BY <1>2 DEF ReplaceStart, ReconcileStart, deleted
<1>3. ASSUME NEW c \in Callers, Effect(c) PROVE torn \subseteq torn'
  BY <1>3 DEF Effect, Reconcile, Restore, Rename, Write, LookAgain, Empty, RemoveRoot,
              WriteReceipt, Unlink, Return, Cleanup, Raise, deleted
<1>4. ASSUME NEW c \in Callers, Fault(c) PROVE torn \subseteq torn'
  BY <1>4 DEF Fault, FirstWriteRaises, CleanupCutShort, EmptyCutShort, Stop, deleted
<1>5. CASE LoadWork \/ FinishWork \/ SetupHome
  BY <1>5 DEF LoadWork, FinishWork, SetupHome, deleted
<1>6. QED
  BY <1>1, <1>2, <1>3, <1>4, <1>5 DEF Next

\* What holds whichever scenario a behaviour plays.
MCInv == HomeInv /\ (scenario = "alone" /\ torn = {} => LoneInv)

LEMMA MCStep ==
    ASSUME MCInv, [MCNext]_<<vars, scenario>>
    PROVE  MCInv' /\ (scenario = "alone" /\ torn' = {} => [Keeping!KNext]_<<whole, fs[Dest]>>)
<1>1. HomeInv' /\ torn \subseteq torn'
  <2>1. [Next]_vars
    BY OperatorAssumption DEF MCNext, Alone, Races, Next
  <2>2. QED
    BY <2>1, HomeNext, TornStays DEF MCInv
<1>2. scenario' = scenario
  BY DEF MCNext
<1>3. ASSUME scenario = "alone", torn' = {}
      PROVE  LoneInv' /\ [Keeping!KNext]_<<whole, fs[Dest]>>
  <2>1. LoneInv
    BY <1>1, <1>3 DEF MCInv
  <2>2. CASE UNCHANGED vars
    <3>1. UNCHANGED <<fs, receipt, whole, journal, call>>
      BY <2>2 DEF vars
    <3>2. QED
      BY <1>1, <1>3, <2>1, <3>1, ServingLone
  <2>3. CASE Alone
    BY <1>1, <1>3, <2>1, <2>3, AloneKeeps
  <2>4. QED
    BY <1>3, <2>2, <2>3 DEF MCNext, Races, vars
<1>4. QED
  BY <1>1, <1>2, <1>3 DEF MCInv

\* While one operator works alone, whatever archives are restored and wherever calls die or
\* their first journal write raises, and as long as no cleanup leaves a restored copy half
\* deleted: reconcile refuses no command that inspect offers, a journal without such a
\* command is that of a completed operation or of one withdrawn before it touched the home
\* being served, which is whole in both, and when the journal is gone nothing but a restored
\* copy is left beside the destination (inspect_home_replacement,
\* reconcile_home_replacement, replace_home_from_backup).
THEOREM AdviceLeadsOnHolds == MCSpec => []AdviceLeadsOn
<1>1. MCInit => MCInv
  BY HomeInit, LoneInit DEF MCInit, MCInv
<1>2. MCInv /\ [MCNext]_<<vars, scenario>> => MCInv'
  BY MCStep
<1>3. MCInv => AdviceLeadsOn
  BY JournalLeadsOn DEF MCInv, AdviceLeadsOn
<1>4. QED
  BY <1>1, <1>2, <1>3, PTL DEF MCSpec

\* The steps of a lone operator, with calls that die between any two effects, implement
\* the keeping of homes up to the first cleanup that leaves a restored copy half deleted: an
\* undamaged home is added, taken out of service, put into service, or given up behind one
\* that is served, and nothing else ever happens to one (replace_home_from_backup,
\* reconcile_home_replacement).
THEOREM ImplementsKeepingHolds == MCSpec => ImplementsKeeping
<1>1. MCInit => MCInv /\ Keeping!KInit
  <2>1. Init => fs[Dest] = 1 /\ whole = {1}
    BY DEF Init, Paths
  <2>2. QED
    BY <2>1, HomeInit, LoneInit DEF MCInit, MCInv, Keeping!KInit
<1>2. MCInv /\ [MCNext]_<<vars, scenario>> => MCInv'
  BY MCStep
<1>3. MCInv /\ [MCNext]_<<vars, scenario>> =>
          [scenario = "alone" /\ torn' = {} => [Keeping!KNext]_<<whole, fs[Dest]>>]_vars
  BY MCStep
<1>4. QED
  BY <1>1, <1>2, <1>3, PTL DEF MCSpec, ImplementsKeeping

=============================================================================

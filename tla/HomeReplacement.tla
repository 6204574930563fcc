--------------------------- MODULE HomeReplacement ---------------------------
(***************************************************************************)
(* Replacing a live ORCH home by a restored backup, and reconciling the    *)
(* replacement after a crash: replace_home_from_backup,                    *)
(* reconcile_home_replacement and inspect_home_replacement of              *)
(* src/orch/state.py.                                                      *)
(*                                                                         *)
(* A home is a directory with an identity (its device and inode) and,      *)
(* when it came out of a backup, a restore receipt naming the archive.     *)
(* One operation owns four sibling names besides the destination:          *)
(* prepared, rollback, discard and failed.  The journal beside the         *)
(* destination says how far the operation got; every rename and every      *)
(* journal write is a step of its own, a call may end between any two of   *)
(* them, and nothing stops two calls from running at the same time.        *)
(***************************************************************************)
EXTENDS Naturals, Sequences, FiniteSets

CONSTANTS
    Callers,      \* processes running orch state replace-backup / replace-reconcile
    Archives,     \* verified backup archives
    MaxHomes,     \* bound: home directories ever created
    MaxStops,     \* bound: calls that end early (an exception or a crash)
    SameArchive,  \* may a home restored from an archive be replaced from it again
    SetupInGap    \* may `orch setup` initialise the destination while it is missing

ASSUME BoundsAssumption ==
    /\ MaxHomes \in Nat \ {0}    \* there is the home the system starts with
    /\ MaxStops \in Nat
    /\ SameArchive \in BOOLEAN
    /\ SetupInGap \in BOOLEAN

None == "none"
ASSUME ArchivesAssumption == None \notin Archives

Homes == 1..MaxHomes        \* 1 is the home the system starts with
Nothing == 0                \* no directory at a path
Places == {"prepared", "rollback", "discard", "failed"}
Dest == <<"dest", 0>>
Paths == {Dest} \cup (Places \X Homes)   \* an operation is named by the home it restores

Statuses == {"PREPARED", "OLD_MOVED", "NEW_ACTIVE", "ROLLBACK_PREPARED",
             "ROLLBACK_NEW_MOVED", "ROLLED_BACK", "FINALIZE_PENDING_DELETE",
             "ROLLBACK_FINALIZE_PENDING_DELETE", "COMPLETE"}
Roles == {None, "rollback_old", "failed_new"}
Modes == {"observe", "resume", "rollback", "finalize"}

\* The journal file, and the copy of it (`data`) a call works on.
Journals == [op : Homes, status : Statuses, old : Homes, archive : Archives,
             role : Roles, bound : Homes \cup {Nothing}]
NoJournal == [op |-> Nothing]

\* What a call still has to do, one file-system effect at a time.
Effects == {"restore", "look", "empty", "rmdir", "receipt", "unlink"}
Ren(from, to) == [do |-> "rename", from |-> from, to |-> to]
Wr(status) == [do |-> "write", from |-> status, to |-> ""]
Do(effect) == [do |-> effect, from |-> "", to |-> ""]
Steps == {Ren(p, q) : p \in Places \cup {"dest"}, q \in Places \cup {"dest"}}
         \cup {Wr(s) : s \in Statuses} \cup {Do(e) : e \in Effects}

\* The directory flags reconcile reads once, when it loads the journal.
Seen == [dest : BOOLEAN, new : BOOLEAN, prepared : BOOLEAN, rollback : BOOLEAN,
         discard : BOOLEAN]
Blind == [dest |-> FALSE, new |-> FALSE, prepared |-> FALSE, rollback |-> FALSE,
          discard |-> FALSE]

VARIABLES
    fs,        \* fs[p]: the home directory at path p
    born,      \* number of home directories created so far
    receipt,   \* receipt[h]: the archive h was restored from
    whole,     \* homes on disk none of whose contents has been deleted
    emptied,   \* homes a finalize has begun to delete; the directory may still be there
    bare,      \* those of them of which at most the empty directory is left
    torn,      \* restored copies a cleanup has begun to delete and left half deleted
    work,      \* homes whose ledger holds a task neither DONE nor CANCELLED
    journal,   \* the replacement journal, or NoJournal
    call,      \* call[c]: the command caller c is running
    stops      \* calls that ended early

deleted == <<emptied, bare, torn>>
vars == <<fs, born, receipt, whole, deleted, work, journal, call, stops>>

Idle == [at |-> "idle", mode |-> "observe", data |-> NoJournal, seen |-> Blind,
         todo |-> << >>]

TypeOK ==
    /\ fs \in [Paths -> Homes \cup {Nothing}]
    /\ born \in Homes
    /\ receipt \in [Homes -> Archives \cup {None}]
    /\ whole \subseteq Homes
    /\ emptied \subseteq Homes /\ bare \subseteq emptied /\ torn \subseteq Homes
    /\ work \subseteq Homes
    /\ journal \in Journals \cup {NoJournal}
    /\ call \in [Callers -> [at : {"idle", "replace", "cleanup", "reconcile"}, mode : Modes,
                             data : Journals \cup {NoJournal}, seen : Seen,
                             todo : Seq(Steps)]]
    /\ stops \in 0..MaxStops

Init ==
    /\ fs = [p \in Paths |-> IF p = Dest THEN 1 ELSE Nothing]
    /\ born = 1
    /\ receipt = [h \in Homes |-> None]
    /\ whole = {1}
    /\ emptied = {} /\ bare = {} /\ torn = {}
    /\ work = {}
    /\ journal = NoJournal
    /\ call = [c \in Callers |-> Idle]
    /\ stops = 0

-----------------------------------------------------------------------------
\* What a call can observe of the directories, for the operation of journal j.

Path(j, place) == IF place = "dest" THEN Dest ELSE <<place, j.op>>
At(j, place) == fs[Path(j, place)]
Exists(j, place) == At(j, place) # Nothing

\* _old_home_identity_matches: device and inode are those of the home replaced.
IsOld(j, place) == At(j, place) = j.old

\* _restored_home_matches: the receipt in the directory names this archive.
IsNew(j, place) == Exists(j, place) /\ receipt[At(j, place)] = j.archive

\* _standalone_home_inventory: only ORCH's own entries, and the database.
Standalone(j, place) == Exists(j, place) /\ At(j, place) \in whole

\* _replacement_discard_identity_matches
DiscardBound(j, role) ==
    j.role = role /\ Exists(j, "discard") /\ At(j, "discard") = j.bound

\* _bind_replacement_discard
Bind(j, place, role) == [j EXCEPT !.role = role, !.bound = At(j, place)]

-----------------------------------------------------------------------------
\* replace_home_from_backup

\* Everything the function checks before it touches a directory.
ReplaceStart(c, a) ==
    /\ call[c].at = "idle"
    /\ journal = NoJournal
    /\ born < MaxHomes
    /\ fs[Dest] # Nothing
    /\ fs[Dest] \in whole            \* standalone, READY, reconcile and recovery CLEAN
    /\ fs[Dest] \notin work          \* no task is open
    /\ SameArchive \/ receipt[fs[Dest]] # a
    /\ call' = [call EXCEPT ![c] =
          [at |-> "replace", mode |-> "observe", seen |-> Blind,
           data |-> [op |-> born + 1, status |-> "PREPARED", old |-> fs[Dest],
                     archive |-> a, role |-> None, bound |-> Nothing],
           todo |-> <<Do("restore"), Wr("PREPARED"),
                      Ren("dest", "rollback"), Wr("OLD_MOVED"),
                      Ren("prepared", "dest"), Wr("NEW_ACTIVE")>>]]
    /\ born' = born + 1              \* the operation's fresh identifier
    /\ UNCHANGED <<fs, receipt, whole, deleted, work, journal, stops>>

\* The first journal write raises: before the journal is there, or after, since the
\* directory is synced once the file is in place (atomic_write_bytes).
FirstWriteRaises(c) ==
    /\ call[c].at = "replace"
    /\ call[c].todo # << >>
    /\ Head(call[c].todo) = Wr("PREPARED")
    /\ stops < MaxStops
    /\ journal' \in {journal, call[c].data}
    /\ call' = [call EXCEPT ![c].at = "cleanup", ![c].todo = << >>]
    /\ stops' = stops + 1
    /\ UNCHANGED <<fs, born, receipt, whole, deleted, work>>

\* The restored copy is removed again, whether or not the journal names it, when it is
\* still proven and the destination is still the home that was checked.
Proven(c) == call[c].at = "cleanup" /\ IsNew(call[c].data, "prepared") /\ IsOld(call[c].data, "dest")

Cleanup(c) ==
    /\ call[c].at = "cleanup"
    /\ LET j == call[c].data
       IN  /\ fs' = [fs EXCEPT ![Path(j, "prepared")] = IF Proven(c) THEN Nothing ELSE @]
           /\ whole' = whole \ (IF Proven(c) THEN {j.op} ELSE {})
    /\ call' = [call EXCEPT ![c] = Idle]
    /\ UNCHANGED <<born, receipt, deleted, work, journal, stops>>

\* shutil.rmtree fails or dies half-way; the receipt may be gone or still be there.
CleanupCutShort(c) ==
    /\ Proven(c)
    /\ stops < MaxStops
    /\ LET j == call[c].data
       IN  /\ whole' = whole \ {j.op}
           /\ torn' = torn \cup {j.op}
           /\ receipt' \in {receipt, [receipt EXCEPT ![j.op] = None]}
    /\ call' = [call EXCEPT ![c] = Idle]
    /\ stops' = stops + 1
    /\ UNCHANGED <<fs, born, emptied, bare, work, journal>>

-----------------------------------------------------------------------------
(***************************************************************************)
(* reconcile_home_replacement.  A call loads the journal, reads the        *)
(* directory flags once, and then walks down the statuses: each block      *)
(* either returns or plans effects that end in a journal write, after      *)
(* which the block of the new status is next.                              *)
(***************************************************************************)

\* The flags read right after the journal was loaded.
Look(j) == [dest |-> Exists(j, "dest"), new |-> IsNew(j, "dest"),
            prepared |-> Exists(j, "prepared"), rollback |-> Exists(j, "rollback"),
            discard |-> Exists(j, "discard")]

\* A block returns with a report, or plans effects over the journal copy.
Report(j, s, what) == [says |-> what, data |-> j, seen |-> s, todo |-> << >>]
Plan(j, s, todo) == [says |-> "", data |-> j, seen |-> s, todo |-> todo]

AtPrepared(j, s, m) ==
    CASE ~s.dest /\ s.rollback /\ s.prepared -> Plan(j, s, <<Wr("OLD_MOVED")>>)
      [] s.new /\ s.rollback /\ ~s.prepared -> Plan(j, s, <<Wr("NEW_ACTIVE")>>)
      [] s.dest /\ s.prepared /\ ~s.rollback ->
            IF m = "resume"
            THEN Plan(j, [s EXCEPT !.dest = FALSE, !.rollback = TRUE],
                      <<Ren("dest", "rollback"), Wr("OLD_MOVED")>>)
            ELSE Report(j, s, "PREPARED")
      [] OTHER -> Report(j, s, "BLOCKED")

\* Faulty variant: the journal runs ahead of the rename it announces.
AtOldMovedAhead(j, s, m) ==
    CASE s.new /\ s.rollback /\ ~s.prepared -> Plan(j, s, <<Wr("NEW_ACTIVE")>>)
      [] ~s.dest /\ s.rollback /\ s.prepared ->
            IF m = "resume"
            THEN Plan(j, [s EXCEPT !.dest = TRUE, !.prepared = FALSE],
                      <<Wr("NEW_ACTIVE"), Ren("prepared", "dest"), Do("look")>>)
            ELSE Report(j, s, "OLD_MOVED")
      [] OTHER -> Report(j, s, "BLOCKED")

AtOldMoved(j, s, m) ==
    CASE s.new /\ s.rollback /\ ~s.prepared -> Plan(j, s, <<Wr("NEW_ACTIVE")>>)
      [] ~s.dest /\ s.rollback /\ s.prepared ->
            IF m = "resume"
            THEN Plan(j, [s EXCEPT !.dest = TRUE, !.prepared = FALSE],
                      <<Ren("prepared", "dest"), Wr("NEW_ACTIVE"), Do("look")>>)
            ELSE Report(j, s, "OLD_MOVED")
      [] OTHER -> Report(j, s, "BLOCKED")

AtNewActive(j, s, m) ==
    LET adopted == s.new /\ ~Exists(j, "prepared") /\ ~Exists(j, "rollback") /\ s.discard
        proven == /\ IsNew(j, "dest") /\ Exists(j, "rollback")
                  /\ ~Exists(j, "prepared") /\ ~Exists(j, "discard")
        oldProven == Standalone(j, "rollback") /\ IsOld(j, "rollback")
    IN  CASE adopted /\ DiscardBound(j, "rollback_old") ->
                Plan(j, s, <<Wr("FINALIZE_PENDING_DELETE")>>)
          [] ~adopted /\ proven /\ m = "rollback" /\ oldProven /\ ~Exists(j, "failed") ->
                Plan(j, s, <<Wr("ROLLBACK_PREPARED")>>)
          [] ~adopted /\ proven /\ m = "finalize" /\ oldProven ->
                Plan(Bind(j, "rollback", "rollback_old"), s,
                     <<Wr("NEW_ACTIVE"), Ren("rollback", "discard"),
                       Wr("FINALIZE_PENDING_DELETE")>>)
          [] ~adopted /\ proven /\ m \in {"observe", "resume"} ->
                Report(j, s, "REPLACED_ROLLBACK_AVAILABLE")
          [] OTHER -> Report(j, s, "BLOCKED")

\* The old home is back at the destination and the new one is at `failed`.
OldRestored(j) == /\ IsOld(j, "dest") /\ ~Exists(j, "rollback")
                  /\ IsNew(j, "failed")

\* Faulty variant: the new home is deleted at once instead of being kept.
AtRollbackPreparedDeletes(j, s, m) ==
    CASE OldRestored(j) -> Plan(j, s, <<Wr("ROLLED_BACK")>>)
      [] IsNew(j, "dest") /\ IsOld(j, "rollback") /\ m = "rollback" ->
            Plan(Bind(j, "dest", "failed_new"), s,
                 <<Ren("dest", "discard"), Do("empty"), Wr("ROLLBACK_NEW_MOVED")>>)
      [] OTHER -> Report(j, s, "BLOCKED")

AtRollbackPrepared(j, s, m) ==
    CASE ~Exists(j, "dest") /\ IsOld(j, "rollback") /\ IsNew(j, "failed") ->
            Plan(j, s, <<Wr("ROLLBACK_NEW_MOVED")>>)
      [] OldRestored(j) -> Plan(j, s, <<Wr("ROLLED_BACK")>>)
      [] /\ IsNew(j, "dest") /\ IsOld(j, "rollback")
         /\ ~Exists(j, "failed") /\ ~Exists(j, "discard") /\ ~Exists(j, "prepared") ->
            IF m = "rollback"
            THEN Plan(j, s, <<Ren("dest", "failed"), Wr("ROLLBACK_NEW_MOVED")>>)
            ELSE Report(j, s, "ROLLBACK_PREPARED")
      [] OTHER -> Report(j, s, "BLOCKED")

AtRollbackNewMoved(j, s, m) ==
    CASE OldRestored(j) -> Plan(j, s, <<Wr("ROLLED_BACK")>>)
      [] /\ ~Exists(j, "dest") /\ IsOld(j, "rollback") /\ IsNew(j, "failed")
         /\ ~Exists(j, "discard") ->
            IF m = "rollback"
            THEN Plan(j, s, <<Ren("rollback", "dest"), Wr("ROLLED_BACK")>>)
            ELSE Report(j, s, "ROLLBACK_NEW_MOVED")
      [] OTHER -> Report(j, s, "BLOCKED")

\* Faulty variant: a discard renamed by an interrupted finalize is not adopted.
AtRolledBackAfresh(j, s, m) ==
    IF OldRestored(j) /\ ~Exists(j, "discard") /\ ~Exists(j, "prepared")
    THEN IF m = "finalize"
         THEN Plan(Bind(j, "failed", "failed_new"), s,
                   <<Wr("ROLLED_BACK"), Ren("failed", "discard"),
                     Wr("ROLLBACK_FINALIZE_PENDING_DELETE")>>)
         ELSE Report(j, s, "ROLLED_BACK_FORWARD_COPY_AVAILABLE")
    ELSE Report(j, s, "BLOCKED")

AtRolledBack(j, s, m) ==
    LET adopted == /\ IsOld(j, "dest") /\ ~Exists(j, "rollback")
                   /\ ~Exists(j, "failed") /\ Exists(j, "discard")
    IN  CASE adopted /\ DiscardBound(j, "failed_new") ->
                Plan(j, s, <<Wr("ROLLBACK_FINALIZE_PENDING_DELETE")>>)
          [] ~adopted /\ OldRestored(j) /\ ~Exists(j, "discard") /\ ~Exists(j, "prepared") ->
                IF m = "finalize"
                THEN Plan(Bind(j, "failed", "failed_new"), s,
                          <<Wr("ROLLED_BACK"), Ren("failed", "discard"),
                            Wr("ROLLBACK_FINALIZE_PENDING_DELETE")>>)
                ELSE Report(j, s, "ROLLED_BACK_FORWARD_COPY_AVAILABLE")
          [] OTHER -> Report(j, s, "BLOCKED")

\* Both finalizing blocks: delete the bound directory if it is still there,
\* leave the receipt in the surviving home, complete and drop the journal.
AtPendingDelete(j, s, m) ==
    LET rolledBack == j.status = "ROLLBACK_FINALIZE_PENDING_DELETE"
        role == IF rolledBack THEN "failed_new" ELSE "rollback_old"
        proven == /\ ~Exists(j, "rollback") /\ ~Exists(j, "prepared")
                  /\ IF rolledBack THEN IsOld(j, "dest") /\ ~Exists(j, "failed")
                                   ELSE IsNew(j, "dest")
        closing == <<Do("receipt"), Wr("COMPLETE"), Do("unlink")>>
    IN  CASE ~proven -> Report(j, s, "BLOCKED")
          [] proven /\ Exists(j, "discard") /\ ~DiscardBound(j, role) ->
                Report(j, s, "BLOCKED")
          [] proven /\ (Exists(j, "discard") => DiscardBound(j, role)) ->
                IF m # "finalize" THEN Report(j, s, j.status)
                ELSE IF Exists(j, "discard")
                     THEN Plan(j, s, <<Do("empty"), Do("rmdir")>> \o closing)
                     ELSE Plan(j, s, closing)

Decision(j, s, m) ==
    CASE j.status = "PREPARED" -> AtPrepared(j, s, m)
      [] j.status = "OLD_MOVED" -> AtOldMoved(j, s, m)
      [] j.status = "NEW_ACTIVE" -> AtNewActive(j, s, m)
      [] j.status = "ROLLBACK_PREPARED" -> AtRollbackPrepared(j, s, m)
      [] j.status = "ROLLBACK_NEW_MOVED" -> AtRollbackNewMoved(j, s, m)
      [] j.status = "ROLLED_BACK" -> AtRolledBack(j, s, m)
      [] j.status = "COMPLETE" -> Report(j, s, "COMPLETE")
      [] OTHER -> AtPendingDelete(j, s, m)

ReconcileStart(c, m) ==
    /\ call[c].at = "idle"
    /\ journal # NoJournal
    /\ call' = [call EXCEPT ![c] =
          [at |-> "reconcile", mode |-> m, data |-> journal, seen |-> Look(journal),
           todo |-> << >>]]
    /\ UNCHANGED <<fs, born, receipt, whole, deleted, work, journal, stops>>

Reconcile(c) ==
    /\ call[c].at = "reconcile"
    /\ call[c].todo = << >>
    /\ LET d == Decision(call[c].data, call[c].seen, call[c].mode)
       IN  call' = [call EXCEPT ![c] =
              IF d.todo = << >> THEN Idle
              ELSE [@ EXCEPT !.data = d.data, !.seen = d.seen, !.todo = d.todo]]
    /\ UNCHANGED <<fs, born, receipt, whole, deleted, work, journal, stops>>

-----------------------------------------------------------------------------
\* The effects, one at a time.

Next1(c, effect) == call[c].todo # << >> /\ Head(call[c].todo).do = effect
Done1(c) == [call EXCEPT ![c].todo = Tail(@)]

\* restore_backup_archive published the new home under its prepared name.
Restore(c) ==
    /\ Next1(c, "restore")
    /\ LET j == call[c].data
       IN  /\ fs' = [fs EXCEPT ![Path(j, "prepared")] = j.op]
           /\ receipt' = [receipt EXCEPT ![j.op] = j.archive]
           /\ whole' = whole \cup {j.op}
    /\ call' = Done1(c)
    /\ UNCHANGED <<born, deleted, work, journal, stops>>

\* Faulty variant: a plain rename, which puts the directory in place of another.
RenameReplaces(c) ==
    /\ Next1(c, "rename")
    /\ LET j == call[c].data
           from == Head(call[c].todo).from
           to == Head(call[c].todo).to
       IN  /\ Exists(j, from)
           /\ fs' = [fs EXCEPT ![Path(j, to)] = At(j, from), ![Path(j, from)] = Nothing]
    /\ call' = Done1(c)
    /\ UNCHANGED <<born, receipt, whole, deleted, work, journal, stops>>

\* _replacement_rename (os.replace): a directory replaces no other directory, unless
\* that one is empty, as between the two steps of a deletion.
Vacant(j, place) == ~Exists(j, place) \/ At(j, place) \in bare

Rename(c) ==
    /\ Next1(c, "rename")
    /\ LET j == call[c].data
           from == Head(call[c].todo).from
           to == Head(call[c].todo).to
       IN  /\ Exists(j, from) /\ Vacant(j, to)
           /\ fs' = [fs EXCEPT ![Path(j, to)] = At(j, from), ![Path(j, from)] = Nothing]
    /\ call' = Done1(c)
    /\ UNCHANGED <<born, receipt, whole, deleted, work, journal, stops>>

\* _replacement_write: the copy, with its new status, replaces the journal.
Write(c) ==
    /\ Next1(c, "write")
    /\ journal' = [call[c].data EXCEPT !.status = Head(call[c].todo).from]
    /\ call' = [call EXCEPT ![c].data.status = Head(call[c].todo).from,
                            ![c].todo = Tail(@)]
    /\ UNCHANGED <<fs, born, receipt, whole, deleted, work, stops>>

\* After activating the new home reconcile reads its receipt again.
LookAgain(c) ==
    /\ Next1(c, "look")
    /\ call' = [call EXCEPT ![c].seen.new = IsNew(call[c].data, "dest"),
                            ![c].todo = Tail(@)]
    /\ UNCHANGED <<fs, born, receipt, whole, deleted, work, journal, stops>>

\* _delete_bound_replacement_discard opens the directory, proves its identity
\* and deletes what is in it ...
Empty(c) ==
    /\ Next1(c, "empty")
    /\ DiscardBound(call[c].data, call[c].data.role)
    /\ LET gone == {At(call[c].data, "discard")}
       IN  whole' = whole \ gone /\ emptied' = emptied \cup gone /\ bare' = bare \cup gone
    /\ call' = Done1(c)
    /\ UNCHANGED <<fs, born, receipt, torn, work, journal, stops>>

\* ... but may stop after some of it, and with it the call.
EmptyCutShort(c) ==
    /\ Next1(c, "empty")
    /\ stops < MaxStops
    /\ DiscardBound(call[c].data, call[c].data.role)
    /\ LET gone == {At(call[c].data, "discard")}
       IN  whole' = whole \ gone /\ emptied' = emptied \cup gone
    /\ call' = [call EXCEPT ![c] = Idle]
    /\ stops' = stops + 1
    /\ UNCHANGED <<fs, born, receipt, bare, torn, work, journal>>

\* ... and removes the directory itself.
RemoveRoot(c) ==
    /\ Next1(c, "rmdir")
    /\ DiscardBound(call[c].data, call[c].data.role)
    /\ fs' = [fs EXCEPT ![Path(call[c].data, "discard")] = Nothing]
    /\ call' = Done1(c)
    /\ UNCHANGED <<born, receipt, whole, deleted, work, journal, stops>>

\* atomic_write_json creates the parent directory when it is missing.
WriteReceipt(c) ==
    /\ Next1(c, "receipt")
    /\ IF fs[Dest] # Nothing
       THEN UNCHANGED <<fs, born>>
       ELSE /\ born < MaxHomes
            /\ fs' = [fs EXCEPT ![Dest] = born + 1]   \* a directory, not a home
            /\ born' = born + 1
    /\ call' = Done1(c)
    /\ UNCHANGED <<receipt, whole, deleted, work, journal, stops>>

Unlink(c) ==
    /\ Next1(c, "unlink")
    /\ journal # NoJournal
    /\ journal' = NoJournal
    /\ call' = [call EXCEPT ![c] = Idle]
    /\ UNCHANGED <<fs, born, receipt, whole, deleted, work, stops>>

\* replace_home_from_backup returns after its last write.
Return(c) ==
    /\ call[c].at = "replace"
    /\ call[c].todo = << >>
    /\ call' = [call EXCEPT ![c] = Idle]
    /\ UNCHANGED <<fs, born, receipt, whole, deleted, work, journal, stops>>

\* An effect raises, or the process dies: the call is over, what is on disk stays.
Stop(c) ==
    /\ call[c].at # "idle"
    /\ stops < MaxStops
    /\ call' = [call EXCEPT ![c] = Idle]
    /\ stops' = stops + 1
    /\ UNCHANGED <<fs, born, receipt, whole, deleted, work, journal>>

\* An effect that cannot succeed raises: the rename of a directory that is not
\* there or onto one that is, the deletion of another directory than the bound
\* one, the removal of a journal another call removed.
CannotSucceed(c) ==
    LET j == call[c].data
        e == Head(call[c].todo)
    IN  \/ e.do = "rename" /\ (~Exists(j, e.from) \/ ~Vacant(j, e.to))
        \/ e.do \in {"empty", "rmdir"} /\ ~DiscardBound(j, j.role)
        \/ e.do = "unlink" /\ journal = NoJournal
        \/ e.do = "receipt" /\ fs[Dest] = Nothing /\ born = MaxHomes

Raise(c) ==
    /\ call[c].todo # << >>
    /\ CannotSucceed(c)
    /\ call' = [call EXCEPT ![c] = Idle]
    /\ UNCHANGED <<fs, born, receipt, whole, deleted, work, journal, stops>>

-----------------------------------------------------------------------------
\* The rest of the system, at the destination.

\* A plan is loaded, or the last open task ends, in the home being served.
LoadWork ==
    /\ fs[Dest] \in whole \ work
    /\ work' = work \cup {fs[Dest]}
    /\ UNCHANGED <<fs, born, receipt, whole, deleted, journal, call, stops>>

FinishWork ==
    /\ fs[Dest] \in work
    /\ work' = work \ {fs[Dest]}
    /\ UNCHANGED <<fs, born, receipt, whole, deleted, journal, call, stops>>

\* `orch setup` creates a missing home without looking for a journal.
SetupHome ==
    /\ SetupInGap
    /\ fs[Dest] = Nothing
    /\ born < MaxHomes
    /\ fs' = [fs EXCEPT ![Dest] = born + 1]
    /\ whole' = whole \cup {born + 1}
    /\ born' = born + 1
    /\ UNCHANGED <<receipt, deleted, work, journal, call, stops>>

-----------------------------------------------------------------------------
\* inspect_home_replacement: the commands it offers as safe next steps.
Offers(j, m) ==
    LET newServes == IsNew(j, "dest") /\ IsOld(j, "rollback") /\ ~Exists(j, "prepared")
        gap == ~Exists(j, "dest") /\ IsOld(j, "rollback") /\ IsNew(j, "prepared")
        newMoved == ~Exists(j, "dest") /\ IsOld(j, "rollback") /\ IsNew(j, "failed")
    IN  \/ /\ j.status = "PREPARED" /\ m = "resume"
           /\ Exists(j, "dest") /\ ~IsNew(j, "dest")
           /\ IsNew(j, "prepared") /\ ~Exists(j, "rollback")
        \/ j.status \in {"PREPARED", "OLD_MOVED"} /\ gap /\ m = "resume"
        \/ /\ j.status \in {"PREPARED", "OLD_MOVED"} /\ newServes
           /\ m \in {"observe", "rollback", "finalize"}
        \/ /\ j.status = "NEW_ACTIVE" /\ m \in {"rollback", "finalize"}
           /\ newServes /\ ~Exists(j, "discard") /\ ~Exists(j, "failed")
        \/ /\ j.status = "NEW_ACTIVE" /\ m = "finalize"
           /\ IsNew(j, "dest") /\ ~Exists(j, "rollback") /\ Exists(j, "discard")
        \/ /\ j.status = "FINALIZE_PENDING_DELETE" /\ m = "finalize"
           /\ IsNew(j, "dest") /\ ~Exists(j, "rollback") /\ ~Exists(j, "prepared")
        \/ /\ j.status = "ROLLBACK_PREPARED" /\ m = "rollback"
           /\ IsNew(j, "dest") /\ IsOld(j, "rollback") /\ ~Exists(j, "failed")
        \/ /\ j.status \in {"ROLLBACK_PREPARED", "ROLLBACK_NEW_MOVED"}
           /\ \/ newMoved /\ m = "rollback"
              \/ OldRestored(j) /\ m \in {"observe", "finalize"}
        \/ /\ j.status = "ROLLED_BACK" /\ m = "finalize"
           /\ \/ OldRestored(j) /\ ~Exists(j, "discard")
              \/ /\ IsOld(j, "dest") /\ ~Exists(j, "rollback")
                 /\ ~Exists(j, "failed") /\ Exists(j, "discard")
        \/ /\ j.status = "ROLLBACK_FINALIZE_PENDING_DELETE" /\ m = "finalize"
           /\ IsOld(j, "dest") /\ ~Exists(j, "rollback") /\ ~Exists(j, "failed")

Advice == IF journal = NoJournal THEN {} ELSE {m \in Modes : Offers(journal, m)}

\* An operator acts on what inspect offers, or on a choice of its own.
FollowAdvice(c) == \E m \in Advice : ReconcileStart(c, m)

Effect(c) ==
    \/ Reconcile(c) \/ Restore(c) \/ Rename(c) \/ Write(c) \/ LookAgain(c)
    \/ Empty(c) \/ RemoveRoot(c) \/ WriteReceipt(c) \/ Unlink(c) \/ Return(c)
    \/ Cleanup(c) \/ Raise(c)

\* What goes wrong by itself: a call ends early, or is half through a deletion.
Fault(c) ==
    \/ FirstWriteRaises(c) \/ CleanupCutShort(c) \/ EmptyCutShort(c) \/ Stop(c)

Next ==
    \/ \E c \in Callers :
          \/ \E a \in Archives : ReplaceStart(c, a)
          \/ \E m \in Modes : ReconcileStart(c, m)
          \/ Effect(c)
          \/ Fault(c)
    \/ LoadWork
    \/ FinishWork
    \/ SetupHome

Spec == Init /\ [][Next]_vars

-----------------------------------------------------------------------------
\* A rename never puts one home on top of another and never duplicates one:
\* every home whose contents were not deleted is at exactly one path, whatever
\* the calls do to each other (_replacement_rename, the deletion of a discard).
EveryHomeInOnePlace ==
    /\ \A h \in whole : \E p \in Paths : fs[p] = h
    /\ \A p, q \in Paths : fs[p] # Nothing /\ fs[p] = fs[q] => p = q

\* Whatever calls, crashes and races occur, an undamaged home is left at the destination
\* or beside it: finalizing never deletes the last one.  The exception is a restored copy
\* that a cleanup left half deleted: a journal may name it, and nothing but its receipt is
\* looked at before it is put in service and the old home is deleted.
SomeHomeSurvives == torn = {} => whole # {}

\* Whatever calls, crashes, races and setups do, every home whose contents were
\* not deleted is at exactly one path, and an undamaged one is left as far as
\* SomeHomeSurvives promises.
HomesAccountedFor == TypeOK /\ EveryHomeInOnePlace /\ SomeHomeSurvives

\* Nobody is inside a call.
Quiet == \A c \in Callers : call[c].at = "idle"

\* What an operation left of its side directories.
Debris == {p \in Paths \ {Dest} : fs[p] # Nothing}

\* When the journal is gone nothing of the operation is left beside the
\* destination, except a restored copy whose call died before it wrote the
\* journal: no finalize forgets a rollback, failed or discard directory.
NoJournalNoDebris ==
    Quiet /\ journal = NoJournal =>
        /\ fs[Dest] \in whole
        /\ \A p \in Debris : p[1] = "prepared"

\* A command inspect offers as a safe next step is never refused by reconcile.
AdviceIsSound ==
    Quiet => \A m \in Advice :
        Decision(journal, Look(journal), m).says # "BLOCKED"

\* The restored copy is gone again although the journal names it.
Withdrawn ==
    /\ journal # NoJournal /\ journal.status = "PREPARED"
    /\ IsOld(journal, "dest")
    /\ ~Exists(journal, "prepared") /\ ~Exists(journal, "rollback")

\* A journal without a next step that inspect offers is of one of two kinds, and an
\* undamaged home is served in both: the operation was completed, or it was withdrawn
\* before a directory was touched.  No command removes either journal.
NeverStranded ==
    Quiet /\ journal # NoJournal /\ Advice = {} =>
        /\ fs[Dest] \in whole
        /\ journal.status = "COMPLETE" \/ Withdrawn

\* With one operator at a time the detailed protocol implements HomeKeeping:
\* what is at the destination is served, the undamaged homes are kept.
Keeping == INSTANCE HomeKeeping WITH
    HomeId <- Homes, First <- 1, Unserved <- Nothing, kept <- whole, served <- fs[Dest]
=============================================================================

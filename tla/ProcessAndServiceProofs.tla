----------------------- MODULE ProcessAndServiceProofs -----------------------
(***************************************************************************)
(* Theorems about the two components that answer worker runs while they      *)
(* hold processes and connections for them.                                  *)
(*                                                                         *)
(* OwnedProcess, for any number of runs, operations and crashes: an          *)
(* operation starts at most one process, an exit is only recorded or told    *)
(* for a process that was reaped, a run that ended has none left, and the    *)
(* limits hold over durable rows and kept replies.                           *)
(*                                                                         *)
(* LocalService, for any number of routes and connections and any response   *)
(* length: the reservations, the connections and the descriptors of the      *)
(* concurrent service, and what may follow on the wire.                      *)
(***************************************************************************)
EXTENDS OwnedProcess, LocalService, FiniteSetTheorems, TLAPS

-----------------------------------------------------------------------------
(* OwnedProcess. *)

(* A process is only created for a dispatched operation, and a child is only retained  *)
(* for a process that was created.                                                     *)
DispatchedFirst ==
  \A op \in Ops :
    /\ spawned[op] = IF os[op] = None THEN 0 ELSE 1
    /\ os[op] # None => op \in dispatched
    /\ child[op].watch # None => os[op] # None
    /\ child[op].watch = None => child[op] = NoChild

(* Everything that speaks of an exit rests on a reaped process: the row, the settled    *)
(* child whose reason the row copies, the recorded child and the reply.                 *)
ReapedOnly ==
  \A op \in Ops :
    /\ exitRow[op] # None => os[op] = "exited"
    /\ child[op].settled => os[op] = "exited" /\ child[op].reason # None
    /\ child[op].recorded => exitRow[op] # None
    /\ told[op] = "EXITED" => exitRow[op] # None

(* Between dispatch and spawn the call keeps the runtime lock, and the row it committed *)
(* is unresolved: nobody else dispatches and the run cannot end.                         *)
StartHolds ==
  \A r \in Runs : starting[r] # None =>
    /\ lock = r /\ RunOf[starting[r]] = r
    /\ starting[r] \in dispatched /\ os[starting[r]] = None

EndedResolved == \A op \in dispatched : runOpen[RunOf[op]] \/ exitRow[op] # None

RowInv == TypeOK /\ DispatchedFirst /\ ReapedOnly /\ StartHolds /\ EndedResolved

(* The limits over durable rows, which a crash does not forget, and over kept replies;   *)
(* a start in progress has set the room for its own replies aside.                       *)
Counted ==
  /\ IsFiniteSet(dispatched) /\ \A r \in Runs : IsFiniteSet(cache[r])
  /\ Cardinality(Unresolved) <= MaxTotal
  /\ \A r \in Runs : /\ Cardinality(Unresolved \cap OpsOf(r)) <= MaxPerRun
                     /\ Occupied(r) <= MaxCache
                     /\ starting[r] # None => Occupied(r) + 3 <= MaxCache

ProcessInv == RowInv /\ Counted

-----------------------------------------------------------------------------
(* Steps of a child.                                                                    *)

ChildKept(op, ch) ==
  /\ ch \in ChildStates
  /\ ch.watch # None
  /\ ch.terminateReserved = child[op].terminateReserved
  /\ ch.terminalReserved = child[op].terminalReserved
  /\ ch.recorded = child[op].recorded
  /\ ch.settled => os[op] = "exited" /\ ch.reason # None

(* The rows stay as they are, and children that are retained move on.                    *)
Supervises ==
  /\ UNCHANGED <<ledger, spawned, cache, starting, lock, told>>
  /\ authority' \in [Runs -> BOOLEAN] /\ closed' \in [Runs -> BOOLEAN]
  /\ crashes' = crashes
  /\ child' \in [Ops -> ChildStates]
  /\ \A op \in Ops : child'[op] = child[op] \/ (child[op].watch # None /\ ChildKept(op, child'[op]))
  /\ os' \in [Ops -> {None, "running", "exited"}]
  /\ \A op \in Ops : os'[op] = os[op] \/ (os[op] = "running" /\ os'[op] = "exited")

LEMMA ChildFacts ==
  /\ NoChild \in ChildStates /\ NewChild \in ChildStates
  /\ NoChild.watch = None /\ ~NoChild.settled /\ ~NoChild.recorded
  /\ ~NoChild.terminateReserved /\ ~NoChild.terminalReserved
  /\ NewChild.watch = "watching" /\ ~NewChild.settled /\ ~NewChild.recorded
BY DEF NoChild, NewChild, ChildStates, Stops, Signals, Reasons, None

LEMMA UpdateSupervises ==
  ASSUME TypeOK, NEW op \in Ops, child[op].watch # None,
         NEW ch, ChildKept(op, ch), Update(op, ch),
         UNCHANGED <<ledger, authority, spawned, cache, starting, lock, closed, told, crashes>>,
         os' = os \/ (os[op] = "running" /\ os' = [os EXCEPT ![op] = "exited"])
  PROVE  Supervises
<1>1. ch \in ChildStates
  BY DEF ChildKept
<1>2. child' \in [Ops -> ChildStates] /\ child'[op] = ch
      /\ \A q \in Ops : q # op => child'[q] = child[q]
  BY <1>1 DEF Update, TypeOK
<1>3. os' \in [Ops -> {None, "running", "exited"}]
      /\ \A q \in Ops : os'[q] = os[q] \/ (os[q] = "running" /\ os'[q] = "exited")
  BY DEF TypeOK
<1>4. QED
  BY <1>2, <1>3 DEF Supervises, TypeOK

LEMMA SuperviseSupervises ==
  ASSUME RowInv, NEW op \in Ops,
         Deadline(op) \/ Signal(op) \/ GiveUp(op) \/ EndOfFile(op) \/ Settle(op)
         \/ SuperviseExpire(op) \/ CloseKill(op) \/ SupervisorFails(op) \/ StreamFails(op)
  PROVE  Supervises
<1>. DEFINE old == child[op]
<1>0. /\ old \in ChildStates /\ TypeOK
      /\ old.settled => os[op] = "exited" /\ old.reason # None
  BY DEF RowInv, TypeOK, ReapedOnly
<1>. USE DEF ledger
<1>1. CASE Deadline(op)
  <2>1. ChildKept(op, [old EXCEPT !.stop = "deadline"]) /\ old.watch # None
    BY <1>0, <1>1 DEF Deadline, Watching, ChildKept, ChildStates, Stops, None
  <2>2. QED
    BY <1>0, <1>1, <2>1, UpdateSupervises DEF Deadline
<1>2. CASE Signal(op)
  <2>1. /\ old.watch # None
        /\ old.stop # None => ChildKept(op, [old EXCEPT !.signal = "term", !.reason = old.stop])
        /\ ChildKept(op, [old EXCEPT !.signal = "kill"])
    BY <1>0, <1>2 DEF Signal, Watching, ChildKept, ChildStates, Stops, Reasons, Signals, None
  <2>2. QED
    BY <1>0, <1>2, <2>1, UpdateSupervises DEF Signal
<1>3. CASE GiveUp(op) \/ SuperviseExpire(op)
  <2>1. ChildKept(op, [old EXCEPT !.unknown = TRUE, !.watch = "gone"]) /\ old.watch # None
    BY <1>0, <1>3 DEF GiveUp, SuperviseExpire, Watching, ChildKept, ChildStates, None
  <2>2. QED
    BY <1>0, <1>3, <2>1, UpdateSupervises DEF GiveUp, SuperviseExpire
<1>4. CASE EndOfFile(op)
  <2>1. ChildKept(op, [old EXCEPT !.eof = TRUE]) /\ old.watch # None
    BY <1>0, <1>4 DEF EndOfFile, Watching, ChildKept, ChildStates, None
  <2>2. QED
    BY <1>0, <1>4, <2>1, UpdateSupervises DEF EndOfFile
<1>5. CASE Settle(op)
  <2>. DEFINE ch == [old EXCEPT !.settled = TRUE, !.watch = "recording",
                       !.reason = IF @ = None THEN "exited" ELSE @]
  <2>1. ChildKept(op, ch) /\ old.watch # None
    BY <1>0, <1>5 DEF Settle, Watching, ChildKept, ChildStates, Reasons, Stops, None
  <2>2. Update(op, ch) /\ UNCHANGED <<ledger, authority, os, spawned, cache, starting, lock,
                                       closed, told, crashes>>
    BY <1>5 DEF Settle
  <2>. HIDE DEF ch
  <2>3. QED
    BY <1>0, <2>1, <2>2, UpdateSupervises
<1>6. CASE CloseKill(op)
  <2>1. /\ old.watch # None
        /\ ChildKept(op, [old EXCEPT !.signal = "kill"])
        /\ ChildKept(op, [old EXCEPT !.signal = "kill", !.unknown = TRUE])
    BY <1>0, <1>6 DEF CloseKill, ChildKept, ChildStates, Signals, None
  <2>2. QED
    BY <1>0, <1>6, <2>1, UpdateSupervises DEF CloseKill
<1>7. CASE SupervisorFails(op)
  <2>1. ChildKept(op, [old EXCEPT !.unknown = TRUE, !.watch = "gone"]) /\ old.watch # None
    BY <1>0, <1>7 DEF SupervisorFails, Watching, ChildKept, ChildStates, None
  <2>2. QED
    BY <1>0, <1>7, <2>1, UpdateSupervises DEF SupervisorFails
<1>8. CASE StreamFails(op)
  <2>1. ChildKept(op, [old EXCEPT !.unknown = TRUE]) /\ old.watch # None
    BY <1>0, <1>8 DEF StreamFails, ChildKept, ChildStates, None
  <2>2. QED
    BY <1>0, <1>8, <2>1, UpdateSupervises DEF StreamFails
<1>9. QED
  BY <1>1, <1>2, <1>3, <1>4, <1>5, <1>6, <1>7, <1>8

(* A cleanup asks the retained children of one owner to stop.                             *)
LEMMA CleanupKeeps ==
  ASSUME RowInv, NEW r \in Runs
  PROVE  /\ CleanedUp(r) \in [Ops -> ChildStates]
         /\ \A op \in Ops : \/ CleanedUp(r)[op] = child[op]
                            \/ child[op].watch # None /\ ChildKept(op, CleanedUp(r)[op])
<1>1. ASSUME NEW op \in Ops
      PROVE  /\ CleanedUp(r)[op] \in ChildStates
             /\ \/ CleanedUp(r)[op] = child[op]
                \/ child[op].watch # None /\ ChildKept(op, CleanedUp(r)[op])
  <2>. DEFINE old == child[op]
  <2>1. /\ old \in ChildStates
        /\ old.settled => os[op] = "exited" /\ old.reason # None
    BY DEF RowInv, TypeOK, ReapedOnly
  <2>2. CleanedUp(r)[op] = old \/ (old.watch # None /\ CleanedUp(r)[op] = [old EXCEPT !.stop = "owner_cleanup"])
    BY DEF CleanedUp, Stopped
  <2>3. old.watch # None => ChildKept(op, [old EXCEPT !.stop = "owner_cleanup"])
    BY <2>1 DEF ChildKept, ChildStates, Stops, None
  <2>4. QED
    BY <2>1, <2>2, <2>3 DEF ChildKept
<1>2. QED
  BY <1>1 DEF CleanedUp

LEMMA QuietSupervises ==
  ASSUME RowInv,
         \/ \E r \in Runs : Denied(r) \/ Revoke(r) \/ Close(r)
         \/ \E op \in Ops : Exit(op)
         \/ UNCHANGED vars
  PROVE  Supervises
<1>0. TypeOK
  BY DEF RowInv
<1>1. ASSUME NEW r \in Runs, Denied(r) \/ Close(r) PROVE Supervises
  BY <1>0, <1>1, CleanupKeeps DEF Denied, Close, Supervises, TypeOK, ledger
<1>2. ASSUME NEW r \in Runs, Revoke(r) PROVE Supervises
  BY <1>0, <1>2 DEF Revoke, Supervises, TypeOK, ledger
<1>3. ASSUME NEW op \in Ops, Exit(op) PROVE Supervises
  BY <1>0, <1>3 DEF Exit, Supervises, TypeOK, ledger
<1>4. ASSUME UNCHANGED vars PROVE Supervises
  BY <1>0, <1>4 DEF vars, Supervises, TypeOK, ledger
<1>5. QED
  BY <1>1, <1>2, <1>3, <1>4

-----------------------------------------------------------------------------
(* The rows under every step.                                                            *)

LEMMA RowsSupervised == RowInv /\ Supervises => RowInv'
<1>. SUFFICES ASSUME RowInv, Supervises PROVE RowInv'
  OBVIOUS
<1>1. TypeOK'
  BY DEF RowInv, TypeOK, Supervises, ledger
<1>2. DispatchedFirst' /\ ReapedOnly'
  BY DEF RowInv, TypeOK, Supervises, ledger, DispatchedFirst, ReapedOnly, ChildKept, None
<1>3. StartHolds' /\ EndedResolved'
  BY DEF RowInv, TypeOK, Supervises, ledger, StartHolds, EndedResolved, None
<1>4. QED
  BY <1>1, <1>2, <1>3 DEF RowInv

LEMMA RowsInit == Init => RowInv
BY ChildFacts, ProcessAssumption DEF Init, RowInv, TypeOK, DispatchedFirst, ReapedOnly, StartHolds,
  EndedResolved, None, Reasons, Stops

LEMMA FreeLock ==
  ASSUME RowInv, lock \notin Runs
  PROVE  \A r \in Runs : starting[r] = None
BY DEF RowInv, StartHolds

LEMMA RowsDispatch ==
  ASSUME RowInv, NEW r \in Runs, NEW op \in Ops, Dispatch(r, op) \/ DispatchRefused(r, op)
  PROVE  RowInv'
<1>0. /\ TypeOK /\ lock = None /\ Live(r) /\ RunOf[op] = r
      /\ UNCHANGED <<runOpen, authority, exitRow, os, spawned, child, closed, told, crashes>>
      /\ op \notin dispatched => os[op] = None
      /\ dispatched' = dispatched \/ dispatched' = dispatched \cup {op}
  BY DEF RowInv, Dispatch, DispatchRefused, Admitted, DispatchedFirst
<1>1. \A q \in Runs : starting[q] = None
  BY <1>0, FreeLock, NamesAssumption
<1>2. \/ UNCHANGED <<starting, lock>>
      \/ /\ starting' = [starting EXCEPT ![r] = op] /\ lock' = r
         /\ op \notin dispatched /\ dispatched' = dispatched \cup {op}
  BY <1>0 DEF Dispatch, DispatchRefused
<1>3. TypeOK'
  BY <1>0, <1>2, ProcessAssumption DEF TypeOK, Dispatch, DispatchRefused, Keep
<1>4. DispatchedFirst' /\ ReapedOnly'
  BY <1>0 DEF RowInv, DispatchedFirst, ReapedOnly
<1>5. StartHolds'
  BY <1>0, <1>1, <1>2 DEF StartHolds, TypeOK
<1>6. EndedResolved'
  BY <1>0 DEF RowInv, EndedResolved, Live
<1>7. QED
  BY <1>3, <1>4, <1>5, <1>6 DEF RowInv

LEMMA RowsSpawn ==
  ASSUME RowInv, NEW r \in Runs, Spawn(r)
  PROVE  RowInv'
<1>. DEFINE op == starting[r]
<1>0. /\ TypeOK /\ op \in Ops /\ op \in dispatched /\ os[op] = None /\ spawned[op] = 0
      /\ exitRow[op] = None /\ told[op] # "EXITED" /\ lock = r
  BY DEF RowInv, TypeOK, Spawn, StartHolds, DispatchedFirst, ReapedOnly, None
<1>1. PICK dead \in {"running", "exited"}, ch \in ChildStates, said \in {"RUNNING", "UNKNOWN"} :
        /\ os' = [os EXCEPT ![op] = dead] /\ child' = [child EXCEPT ![op] = ch]
        /\ told' = [told EXCEPT ![op] = said]
        /\ ch.watch # None /\ ~ch.settled /\ ~ch.recorded
  <2>. DEFINE lost == [NewChild EXCEPT !.watch = "gone", !.unknown = TRUE, !.signal = "kill"]
  <2>1. /\ lost \in ChildStates /\ lost.watch = "gone" /\ ~lost.settled /\ ~lost.recorded
    BY DEF NewChild, NoChild, ChildStates, Stops, Signals, Reasons, None
  <2>2. \/ /\ os' = [os EXCEPT ![op] = "running"]
           /\ child' = [child EXCEPT ![op] = NewChild] /\ told' = [told EXCEPT ![op] = "RUNNING"]
        \/ /\ \E dead \in {"running", "exited"} : os' = [os EXCEPT ![op] = dead]
           /\ child' = [child EXCEPT ![op] = lost] /\ told' = [told EXCEPT ![op] = "UNKNOWN"]
    BY DEF Spawn
  <2>. HIDE DEF lost
  <2>3. QED
    BY <2>1, <2>2, ChildFacts DEF None
<1>2. /\ spawned' = [spawned EXCEPT ![op] = 1]
      /\ starting' = [starting EXCEPT ![r] = None] /\ lock' = None
      /\ cache' = [cache EXCEPT ![r] = cache[r] \cup {op}]
      /\ UNCHANGED <<runOpen, authority, dispatched, exitRow, closed, crashes>>
  BY <1>0 DEF Spawn, Keep, TypeOK
<1>3. /\ os'[op] = dead /\ child'[op] = ch /\ told'[op] = said /\ spawned'[op] = 1
      /\ \A q \in Ops : q # op => /\ os'[q] = os[q] /\ child'[q] = child[q] /\ told'[q] = told[q]
                                  /\ spawned'[q] = spawned[q]
  BY <1>0, <1>1, <1>2 DEF TypeOK
<1>4. TypeOK'
  BY <1>0, <1>1, <1>2 DEF TypeOK
<1>5. DispatchedFirst'
  BY <1>0, <1>1, <1>2, <1>3 DEF RowInv, DispatchedFirst, None
<1>6. ReapedOnly'
  BY <1>0, <1>1, <1>2, <1>3 DEF RowInv, ReapedOnly, None
<1>7. StartHolds'
  <2>1. \A q \in Runs : q # r => starting[q] = None
    BY <1>0 DEF RowInv, StartHolds
  <2>2. QED
    BY <1>0, <1>2, <2>1 DEF StartHolds, TypeOK
<1>8. EndedResolved'
  BY <1>2 DEF RowInv, EndedResolved
<1>9. QED
  BY <1>4, <1>5, <1>6, <1>7, <1>8 DEF RowInv

LEMMA RowsSpawnFailed ==
  ASSUME RowInv, NEW r \in Runs, SpawnFailed(r)
  PROVE  RowInv'
<1>0. /\ TypeOK /\ lock = r /\ starting[r] \in Ops
      /\ starting' = [starting EXCEPT ![r] = None] /\ lock' = None
      /\ cache' = [cache EXCEPT ![r] = cache[r] \cup {starting[r]}]
      /\ UNCHANGED <<runOpen, authority, dispatched, exitRow, os, spawned, closed, told, crashes>>
  BY DEF RowInv, StartHolds, SpawnFailed, Keep, TypeOK
<1>1. /\ child' \in [Ops -> ChildStates]
      /\ \A op \in Ops : \/ child'[op] = child[op]
                         \/ child[op].watch # None /\ ChildKept(op, child'[op])
  BY <1>0, CleanupKeeps DEF SpawnFailed, TypeOK
<1>2. TypeOK'
  BY <1>0, <1>1 DEF TypeOK
<1>3. DispatchedFirst' /\ ReapedOnly'
  BY <1>0, <1>1 DEF RowInv, DispatchedFirst, ReapedOnly, ChildKept
<1>4. \A q \in Runs : starting'[q] = None
  BY <1>0 DEF RowInv, StartHolds, TypeOK
<1>5. QED
  BY <1>0, <1>2, <1>3, <1>4 DEF RowInv, StartHolds, EndedResolved

-----------------------------------------------------------------------------
(* Recording an exit.                                                                     *)

LEMMA RecordingFacts ==
  ASSUME RowInv, NEW op \in Ops, NEW rec \in Recordings(op)
  PROVE  /\ rec[1] \in ChildStates /\ rec[2] \in [Ops -> Reasons \cup {None}]
         /\ \A q \in Ops : q # op => rec[2][q] = exitRow[q]
         /\ exitRow[op] # None => rec[2][op] # None
         /\ rec[2][op] # None => os[op] = "exited"
         /\ rec[1].recorded => rec[2][op] # None
         /\ rec[1].settled => os[op] = "exited" /\ rec[1].reason # None
         /\ rec[1].watch = child[op].watch
         /\ rec[1].terminateReserved = child[op].terminateReserved
         /\ rec[1].terminalReserved = child[op].terminalReserved
<1>. DEFINE ch == child[op]
            tried == [ch EXCEPT !.attempted = TRUE]
            row == [exitRow EXCEPT ![op] = ch.reason]
            done == [tried EXCEPT !.recorded = TRUE]
            lost == [tried EXCEPT !.unknown = TRUE]
            Kept(x) == /\ x \in ChildStates /\ x.watch = ch.watch /\ x.settled = ch.settled
                       /\ x.reason = ch.reason
                       /\ x.terminateReserved = ch.terminateReserved
                       /\ x.terminalReserved = ch.terminalReserved
<1>1. /\ ch \in ChildStates /\ exitRow \in [Ops -> Reasons \cup {None}]
      /\ exitRow[op] # None => os[op] = "exited"
      /\ ch.settled => os[op] = "exited" /\ ch.reason # None
      /\ ch.recorded => exitRow[op] # None
  BY DEF RowInv, TypeOK, ReapedOnly
<1>2. \/ rec[1] = ch /\ rec[2] = exitRow
      \/ CanRecord(ch) /\ rec[1] = done /\ rec[2] = row
      \/ CanRecord(ch) /\ rec[1] = lost /\ rec[2] \in {exitRow, row}
  BY DEF Recordings
<1>3. Kept(ch) /\ Kept(done) /\ Kept(lost) /\ (lost.recorded = ch.recorded)
  BY <1>1 DEF ChildStates
<1>4. CanRecord(ch) => /\ os[op] = "exited" /\ ch.reason # None /\ ch.reason \in Reasons
                       /\ row \in [Ops -> Reasons \cup {None}] /\ row[op] = ch.reason
                       /\ \A q \in Ops : q # op => row[q] = exitRow[q]
  BY <1>1 DEF CanRecord, ChildStates
<1>. HIDE DEF done, lost, row
<1>5. QED
  BY <1>1, <1>2, <1>3, <1>4

(* The reply reserved for a child is spent at most, and nothing else of it is touched.    *)
Asked(ch, terminate) == IF terminate THEN Stopped(ch, "terminated") ELSE ch
Spent(ch, terminate) ==
  [Asked(ch, terminate) EXCEPT
     !.terminateReserved = @ /\ ~(terminate /\ Says(Asked(ch, terminate)) # "UNKNOWN"),
     !.terminalReserved = @ /\ ~(~terminate /\ Says(Asked(ch, terminate)) = "EXITED")]

LEMMA AskedFacts ==
  ASSUME NEW ch \in ChildStates, NEW terminate \in BOOLEAN
  PROVE  LET a == Asked(ch, terminate)
         IN  /\ a \in ChildStates /\ a.watch = ch.watch /\ a.settled = ch.settled
             /\ a.reason = ch.reason /\ a.recorded = ch.recorded /\ a.unknown = ch.unknown
             /\ a.terminateReserved = ch.terminateReserved
             /\ a.terminalReserved = ch.terminalReserved
             /\ Says(a) = Says(ch)
<1>1. Asked(ch, terminate) = ch \/ Asked(ch, terminate) = [ch EXCEPT !.stop = "terminated"]
  BY DEF Asked, Stopped
<1>2. CASE Asked(ch, terminate) = ch
  BY <1>2
<1>3. CASE Asked(ch, terminate) = [ch EXCEPT !.stop = "terminated"]
  BY <1>3 DEF ChildStates, Stops, Says
<1>4. QED
  BY <1>1, <1>2, <1>3

LEMMA SpentFacts ==
  ASSUME NEW ch \in ChildStates, NEW terminate \in BOOLEAN
  PROVE  LET s == Spent(ch, terminate)
         IN  /\ s \in ChildStates /\ s.watch = ch.watch /\ s.settled = ch.settled
             /\ s.reason = ch.reason /\ s.recorded = ch.recorded
             /\ s.terminateReserved =
                  (ch.terminateReserved /\ ~(terminate /\ Says(ch) # "UNKNOWN"))
             /\ s.terminalReserved =
                  (ch.terminalReserved /\ ~(~terminate /\ Says(ch) = "EXITED"))
<1>. DEFINE a == Asked(ch, terminate)
            x == a.terminateReserved /\ ~(terminate /\ Says(a) # "UNKNOWN")
            y == a.terminalReserved /\ ~(~terminate /\ Says(a) = "EXITED")
<1>1. /\ a \in ChildStates /\ a.watch = ch.watch /\ a.settled = ch.settled
      /\ a.reason = ch.reason /\ a.recorded = ch.recorded
      /\ a.terminateReserved = ch.terminateReserved
      /\ a.terminalReserved = ch.terminalReserved
      /\ Says(a) = Says(ch)
  BY AskedFacts
<1>2. Spent(ch, terminate) = [a EXCEPT !.terminateReserved = x, !.terminalReserved = y]
  BY DEF Spent
<1>3. x \in BOOLEAN /\ y \in BOOLEAN
  BY <1>1 DEF ChildStates
<1>4. /\ x = (ch.terminateReserved /\ ~(terminate /\ Says(ch) # "UNKNOWN"))
      /\ y = (ch.terminalReserved /\ ~(~terminate /\ Says(ch) = "EXITED"))
  BY <1>1
<1>. HIDE DEF a, x, y
<1>5. QED
  BY ZenonT(40), <1>1, <1>2, <1>3, <1>4 DEF ChildStates

(* What an observation does: a recording, and a reply that is kept or refused.             *)
LEMMA ObserveTells ==
  ASSUME RowInv, NEW r \in Runs, NEW id \in Ids, NEW op \in Ops, NEW terminate \in BOOLEAN,
         Observe(r, id, op, terminate)
  PROVE  \E rec \in Recordings(op) :
           /\ exitRow' = rec[2]
           /\ \/ child' = [child EXCEPT ![op] = rec[1]] /\ UNCHANGED <<cache, told>>
              \/ /\ \/ Occupied(r) < MaxCache
                    \/ /\ terminate => rec[1].terminateReserved /\ Says(rec[1]) # "UNKNOWN"
                       /\ ~terminate => rec[1].terminalReserved /\ Says(rec[1]) = "EXITED"
                 /\ child' = [child EXCEPT ![op] = Spent(rec[1], terminate)]
                 /\ cache' = Keep(r, id)
                 /\ told' = [told EXCEPT ![op] = Says(rec[1])]
<1>1. PICK rec \in Recordings(op) :
        /\ exitRow' = rec[2]
        /\ IF /\ ~(Occupied(r) < MaxCache)
              /\ rec[1].unknown \/ (~terminate /\ Says(rec[1]) # "EXITED")
           THEN child' = [child EXCEPT ![op] = rec[1]] /\ UNCHANGED <<cache, told>>
           ELSE /\ child' = [child EXCEPT ![op] = Spent(rec[1], terminate)]
                /\ cache' = Keep(r, id)
                /\ told' = [told EXCEPT ![op] = Says(Asked(rec[1], terminate))]
  BY Zenon DEF Observe, Spent, Asked
<1>2. \/ Occupied(r) < MaxCache
      \/ IF terminate THEN child[op].terminateReserved ELSE child[op].terminalReserved
  BY DEF Observe
<1>3. /\ rec[1] \in ChildStates
      /\ rec[1].terminateReserved = child[op].terminateReserved
      /\ rec[1].terminalReserved = child[op].terminalReserved
  BY RecordingFacts
<1>4. Says(Asked(rec[1], terminate)) = Says(rec[1])
  BY <1>3, AskedFacts
<1>5. ~rec[1].unknown => Says(rec[1]) # "UNKNOWN"
  BY DEF Says
<1>6. QED
  BY <1>1, <1>2, <1>3, <1>4, <1>5

(* The rows after the exit of op was recorded, tried or left alone.                        *)
LEMMA RowsRecorded ==
  ASSUME RowInv, NEW op \in Ops, child[op].watch # None, NEW rec \in Recordings(op),
         NEW ch \in ChildStates, ch.watch # None, ch.recorded => rec[1].recorded,
         ch.settled = rec[1].settled, ch.reason = rec[1].reason,
         exitRow' = rec[2], child' = [child EXCEPT ![op] = ch],
         told' = told \/ \E says \in {"RUNNING", "EXITED", "UNKNOWN"} :
                           /\ told' = [told EXCEPT ![op] = says]
                           /\ says = "EXITED" => rec[1].recorded,
         cache' \in [Runs -> SUBSET (Ops \cup Ids)],
         UNCHANGED <<runOpen, authority, dispatched, os, spawned, starting, lock, closed, crashes>>
  PROVE  RowInv'
<1>0. /\ TypeOK
      /\ rec[1] \in ChildStates /\ rec[2] \in [Ops -> Reasons \cup {None}]
      /\ \A q \in Ops : q # op => rec[2][q] = exitRow[q]
      /\ exitRow[op] # None => rec[2][op] # None
      /\ rec[2][op] # None => os[op] = "exited"
      /\ rec[1].recorded => rec[2][op] # None
      /\ rec[1].settled => os[op] = "exited" /\ rec[1].reason # None
  BY RecordingFacts DEF RowInv
<1>1. child'[op] = ch /\ \A q \in Ops : q # op => child'[q] = child[q]
  BY <1>0 DEF TypeOK
<1>2. /\ \A q \in Ops : q # op => told'[q] = told[q]
      /\ told'[op] = "EXITED" => told[op] = "EXITED" \/ rec[1].recorded
  BY <1>0 DEF TypeOK
<1>3. TypeOK'
  BY <1>0 DEF TypeOK
<1>4. DispatchedFirst'
  BY <1>1 DEF RowInv, DispatchedFirst
<1>5. ReapedOnly'
  BY <1>0, <1>1, <1>2 DEF RowInv, ReapedOnly
<1>6. StartHolds' /\ EndedResolved'
  BY <1>0 DEF RowInv, StartHolds, EndedResolved, TypeOK
<1>7. QED
  BY <1>3, <1>4, <1>5, <1>6 DEF RowInv

LEMMA RowsObserve ==
  ASSUME RowInv, NEW r \in Runs, NEW id \in Ids, NEW op \in Ops, NEW terminate \in BOOLEAN,
         Observe(r, id, op, terminate)
  PROVE  RowInv'
<1>1. PICK rec \in Recordings(op) :
           /\ exitRow' = rec[2]
           /\ \/ child' = [child EXCEPT ![op] = rec[1]] /\ UNCHANGED <<cache, told>>
              \/ /\ child' = [child EXCEPT ![op] = Spent(rec[1], terminate)]
                 /\ cache' = Keep(r, id)
                 /\ told' = [told EXCEPT ![op] = Says(rec[1])]
  BY ObserveTells
<1>2. /\ rec[1] \in ChildStates /\ rec[1].watch = child[op].watch /\ child[op].watch # None
      /\ UNCHANGED <<runOpen, authority, dispatched, os, spawned, starting, lock, closed, crashes>>
  BY RecordingFacts DEF Observe, Retained
<1>3. cache' \in [Runs -> SUBSET (Ops \cup Ids)]
  BY <1>1 DEF RowInv, TypeOK, Keep
<1>4. /\ Says(rec[1]) \in {"RUNNING", "EXITED", "UNKNOWN"}
      /\ Says(rec[1]) = "EXITED" => rec[1].recorded
  BY DEF Says
<1>5. CASE child' = [child EXCEPT ![op] = rec[1]] /\ UNCHANGED <<cache, told>>
  BY <1>1, <1>2, <1>3, <1>5, RowsRecorded
<1>6. CASE child' = [child EXCEPT ![op] = Spent(rec[1], terminate)]
           /\ told' = [told EXCEPT ![op] = Says(rec[1])]
  <2>. DEFINE ch == Spent(rec[1], terminate)
  <2>1. /\ ch \in ChildStates /\ ch.watch # None /\ ch.recorded = rec[1].recorded
        /\ ch.settled = rec[1].settled /\ ch.reason = rec[1].reason
    BY <1>2, SpentFacts
  <2>2. child' = [child EXCEPT ![op] = ch]
    BY <1>6
  <2>3. \E says \in {"RUNNING", "EXITED", "UNKNOWN"} :
          told' = [told EXCEPT ![op] = says] /\ (says = "EXITED" => rec[1].recorded)
    BY <1>4, <1>6
  <2>. HIDE DEF ch
  <2>4. QED
    BY <1>1, <1>2, <1>3, <2>1, <2>2, <2>3, RowsRecorded
<1>7. QED
  BY <1>1, <1>5, <1>6

LEMMA RowsSuperviseRecord ==
  ASSUME RowInv, NEW op \in Ops, SuperviseRecord(op)
  PROVE  RowInv'
<1>1. PICK rec \in Recordings(op) :
        child' = [child EXCEPT ![op] = [rec[1] EXCEPT !.watch = "gone"]] /\ exitRow' = rec[2]
  BY DEF SuperviseRecord, Update
<1>. DEFINE ch == [rec[1] EXCEPT !.watch = "gone"]
<1>2. rec[1] \in ChildStates
  BY RecordingFacts
<1>3. /\ ch \in ChildStates /\ ch.watch # None /\ ch.recorded = rec[1].recorded
      /\ ch.settled = rec[1].settled /\ ch.reason = rec[1].reason
  BY <1>2 DEF ChildStates, None
<1>4. /\ child[op].watch # None /\ cache' \in [Runs -> SUBSET (Ops \cup Ids)]
      /\ UNCHANGED <<runOpen, authority, dispatched, os, spawned, starting, lock, closed, told, crashes>>
  BY DEF SuperviseRecord, None, RowInv, TypeOK
<1>. HIDE DEF ch
<1>5. QED
  BY <1>1, <1>3, <1>4, RowsRecorded DEF ch

LEMMA RowsElse ==
  ASSUME RowInv,
         \/ \E r \in Runs : Crash(r) \/ EndRun(r)
         \/ \E r \in Runs, op \in Ops, id \in Ids : ObserveOrphan(r, id, op)
         \/ TakeLock \/ ReleaseLock
  PROVE  RowInv'
<1>0. TypeOK
  BY DEF RowInv
<1>1. ASSUME NEW r \in Runs, Crash(r) PROVE RowInv'
  <2>1. TypeOK'
    BY <1>0, <1>1, ChildFacts, ProcessAssumption DEF TypeOK, Crash, ledger
  <2>2. DispatchedFirst' /\ ReapedOnly'
    BY <1>0, <1>1, ChildFacts DEF RowInv, DispatchedFirst, ReapedOnly, Crash, ledger, TypeOK
  <2>3. StartHolds' /\ EndedResolved'
    BY <1>0, <1>1 DEF RowInv, StartHolds, EndedResolved, Crash, ledger, TypeOK
  <2>4. QED
    BY <2>1, <2>2, <2>3 DEF RowInv
<1>2. ASSUME NEW r \in Runs, EndRun(r) PROVE RowInv'
  <2>1. TypeOK' /\ DispatchedFirst' /\ ReapedOnly' /\ StartHolds'
    BY <1>0, <1>2 DEF RowInv, TypeOK, DispatchedFirst, ReapedOnly, StartHolds, EndRun
  <2>2. \A op \in dispatched : RunOf[op] = r => exitRow[op] # None
    BY <1>0, <1>2 DEF EndRun, Unresolved, OpsOf, TypeOK
  <2>3. EndedResolved'
    BY <1>0, <1>2, <2>2, ProcessAssumption DEF RowInv, EndedResolved, EndRun, TypeOK
  <2>4. QED
    BY <2>1, <2>3 DEF RowInv
<1>3. ASSUME NEW r \in Runs, NEW op \in Ops, NEW id \in Ids, ObserveOrphan(r, id, op) PROVE RowInv'
  BY <1>0, <1>3 DEF RowInv, TypeOK, DispatchedFirst, ReapedOnly, StartHolds, EndedResolved,
    ObserveOrphan, Keep
<1>4. ASSUME TakeLock \/ ReleaseLock PROVE RowInv'
  <2>1. lock \notin Runs /\ lock' \in {None, Other}
    BY <1>4, NamesAssumption DEF TakeLock, ReleaseLock
  <2>2. \A r \in Runs : starting[r] = None
    BY <2>1, FreeLock
  <2>3. QED
    BY <1>0, <1>4, <2>1, <2>2 DEF RowInv, TypeOK, DispatchedFirst, ReapedOnly, StartHolds,
      EndedResolved, TakeLock, ReleaseLock, ledger
<1>5. QED
  BY <1>1, <1>2, <1>3, <1>4

LEMMA RowsStep == RowInv /\ [Next]_vars => RowInv'
BY QuietSupervises, SuperviseSupervises, RowsSupervised, RowsDispatch, RowsSpawn, RowsSpawnFailed,
  RowsObserve, RowsSuperviseRecord, RowsElse
DEF Next, Supervise

(* An exit row, and a reply that says EXITED, exist only for a process that was reaped      *)
(* (_supervise, _record_exit), over every crash, lost lock and failed write.                *)
THEOREM ExitIsProvenHolds == Spec => []ExitIsProven
<1>1. RowInv => ExitIsProven
  BY DEF RowInv, ReapedOnly, ExitIsProven
<1>2. QED
  BY <1>1, RowsInit, RowsStep, PTL DEF Spec

(* A run that was submitted, quiesced or aborted (require_processes_resolved) has no         *)
(* process running and none about to be spawned, whatever became of its owner.               *)
THEOREM EndedRunsHaveNoProcessHolds == Spec => []EndedRunsHaveNoProcess
<1>1. RowInv => EndedRunsHaveNoProcess
  <2>1. SUFFICES ASSUME RowInv, NEW op \in Ops, ~runOpen[RunOf[op]]
                 PROVE  os[op] # "running" /\ starting[RunOf[op]] # op
    BY DEF EndedRunsHaveNoProcess
  <2>2. op \in dispatched => os[op] = "exited"
    BY <2>1 DEF RowInv, EndedResolved, ReapedOnly
  <2>3. os[op] # None => op \in dispatched
    BY <2>1 DEF RowInv, DispatchedFirst
  <2>4. RunOf[op] \in Runs /\ op # None
    BY ProcessAssumption, NamesAssumption
  <2>5. starting[RunOf[op]] = op => op \in dispatched /\ os[op] = None
    BY <2>1, <2>4 DEF RowInv, StartHolds
  <2>6. QED
    BY <2>2, <2>3, <2>5 DEF None
<1>2. QED
  BY <1>1, RowsInit, RowsStep, PTL DEF Spec

-----------------------------------------------------------------------------
(* The limits.                                                                               *)

TerminateReplies(r) == {op \in OpsOf(r) : child[op].terminateReserved}
TerminalReplies(r) == {op \in OpsOf(r) : child[op].terminalReserved}

LEMMA OccupiedIs ==
  ASSUME NEW r
  PROVE  Occupied(r) = Cardinality(cache[r]) + Cardinality(TerminateReplies(r))
                       + Cardinality(TerminalReplies(r))
BY DEF Occupied, TerminateReplies, TerminalReplies

(* Retained children are dispatched, so everything counted is finite.                         *)
LEMMA CountsFinite ==
  ASSUME RowInv, Counted, NEW r \in Runs
  PROVE  /\ IsFiniteSet(cache[r]) /\ IsFiniteSet(TerminateReplies(r))
         /\ IsFiniteSet(TerminalReplies(r)) /\ IsFiniteSet(Unresolved)
         /\ Cardinality(cache[r]) \in Nat /\ Cardinality(TerminateReplies(r)) \in Nat
         /\ Cardinality(TerminalReplies(r)) \in Nat /\ Cardinality(Unresolved) \in Nat
         /\ Occupied(r) \in Nat
<1>1. IsFiniteSet(dispatched) /\ IsFiniteSet(cache[r])
  BY DEF Counted
<1>2. TerminateReplies(r) \in SUBSET dispatched /\ TerminalReplies(r) \in SUBSET dispatched
  BY ChildFacts DEF RowInv, DispatchedFirst, TerminateReplies, TerminalReplies, OpsOf
<1>3. Unresolved \in SUBSET dispatched
  BY DEF Unresolved
<1>4. IsFiniteSet(TerminateReplies(r)) /\ IsFiniteSet(TerminalReplies(r)) /\ IsFiniteSet(Unresolved)
  BY <1>1, <1>2, <1>3, FS_Subset
<1>5. QED
  BY <1>1, <1>4, FS_CardinalityType, OccupiedIs

(* Smaller sets keep the counts down.                                                         *)
LEMMA RowsFewer ==
  ASSUME RowInv, Counted, Unresolved' \subseteq Unresolved
  PROVE  /\ Cardinality(Unresolved') <= MaxTotal
         /\ \A r \in Runs : Cardinality(Unresolved' \cap OpsOf(r)) <= MaxPerRun
<1>1. ASSUME NEW S, IsFiniteSet(S), NEW T, T \subseteq S, NEW n \in Nat, Cardinality(S) <= n
      PROVE  Cardinality(T) <= n
  <2>1. T \in SUBSET S
    BY <1>1
  <2>2. IsFiniteSet(T) /\ Cardinality(T) <= Cardinality(S)
    BY <1>1, <2>1, FS_Subset
  <2>3. Cardinality(T) \in Nat /\ Cardinality(S) \in Nat
    BY <1>1, <2>2, FS_CardinalityType
  <2>4. QED
    BY <1>1, <2>2, <2>3
<1>2. Unresolved \in SUBSET dispatched /\ IsFiniteSet(dispatched)
  BY DEF Unresolved, Counted
<1>3. IsFiniteSet(Unresolved)
  BY <1>2, FS_Subset
<1>4. Cardinality(Unresolved') <= MaxTotal
  BY <1>1, <1>3, ProcessAssumption DEF Counted
<1>5. ASSUME NEW r \in Runs PROVE Cardinality(Unresolved' \cap OpsOf(r)) <= MaxPerRun
  <2>1. Unresolved \cap OpsOf(r) \in SUBSET Unresolved
    OBVIOUS
  <2>2. IsFiniteSet(Unresolved \cap OpsOf(r))
    BY <1>3, <2>1, FS_Subset
  <2>3. Unresolved' \cap OpsOf(r) \subseteq Unresolved \cap OpsOf(r)
    OBVIOUS
  <2>4. QED
    BY <1>1, <2>2, <2>3, ProcessAssumption DEF Counted
<1>6. QED
  BY <1>4, <1>5

(* The replies of r are as many as before.                                                     *)
LEMMA OccupiedSame ==
  ASSUME NEW r \in Runs, cache'[r] = cache[r],
         \A op \in OpsOf(r) : /\ child'[op].terminateReserved = child[op].terminateReserved
                              /\ child'[op].terminalReserved = child[op].terminalReserved
  PROVE  Occupied(r)' = Occupied(r)
BY DEF Occupied, OpsOf

LEMMA CountedSame ==
  ASSUME RowInv, Counted, dispatched' = dispatched, Unresolved' \subseteq Unresolved,
         \A r \in Runs : \/ cache'[r] = cache[r] /\ Occupied(r)' = Occupied(r)
                         \/ IsFiniteSet(cache'[r]) /\ Occupied(r)' <= MaxCache /\ starting'[r] = None,
         \A r \in Runs : starting'[r] = starting[r] \/ starting'[r] = None
  PROVE  Counted'
<1>1. /\ Cardinality(Unresolved') <= MaxTotal
      /\ \A r \in Runs : Cardinality(Unresolved' \cap OpsOf(r)) <= MaxPerRun
  BY RowsFewer
<1>2. IsFiniteSet(dispatched') /\ \A r \in Runs : IsFiniteSet(cache'[r])
  BY DEF Counted
<1>3. \A r \in Runs : Occupied(r)' <= MaxCache /\ (starting'[r] # None => Occupied(r)' + 3 <= MaxCache)
  <2>1. SUFFICES ASSUME NEW r \in Runs
                 PROVE  Occupied(r)' <= MaxCache /\ (starting'[r] # None => Occupied(r)' + 3 <= MaxCache)
    OBVIOUS
  <2>2. Occupied(r) <= MaxCache /\ (starting[r] # None => Occupied(r) + 3 <= MaxCache)
    BY DEF Counted
  <2>3. \/ Occupied(r)' = Occupied(r)
        \/ Occupied(r)' <= MaxCache /\ starting'[r] = None
    OBVIOUS
  <2>4. starting'[r] = starting[r] \/ starting'[r] = None
    OBVIOUS
  <2>5. QED
    BY <2>2, <2>3, <2>4
<1>4. \A r \in Runs : OpsOf(r)' = OpsOf(r)
  BY DEF OpsOf
<1>5. QED
  BY <1>1, <1>2, <1>3, <1>4 DEF Counted

LEMMA OneMore ==
  ASSUME NEW S, IsFiniteSet(S), NEW x, NEW T, T \subseteq S \cup {x}
  PROVE  /\ IsFiniteSet(T) /\ Cardinality(T) \in Nat /\ Cardinality(S) \in Nat
         /\ Cardinality(T) <= Cardinality(S) + 1
<1>1. IsFiniteSet(S \cup {x}) /\ Cardinality(S \cup {x}) \in Nat /\ Cardinality(S) \in Nat
      /\ Cardinality(S \cup {x}) <= Cardinality(S) + 1
  BY FS_AddElement, FS_CardinalityType
<1>2. T \in SUBSET (S \cup {x})
  OBVIOUS
<1>3. IsFiniteSet(T) /\ Cardinality(T) <= Cardinality(S \cup {x})
  BY <1>1, <1>2, FS_Subset
<1>4. Cardinality(T) \in Nat
  BY <1>3, FS_CardinalityType
<1>5. QED
  BY <1>1, <1>3, <1>4

LEMMA NoMore ==
  ASSUME NEW S, IsFiniteSet(S), NEW T, T \subseteq S
  PROVE  /\ IsFiniteSet(T) /\ Cardinality(T) \in Nat /\ Cardinality(S) \in Nat
         /\ Cardinality(T) <= Cardinality(S)
<1>1. T \in SUBSET S
  OBVIOUS
<1>2. QED
  BY <1>1, FS_Subset, FS_CardinalityType

LEMMA OneLess ==
  ASSUME NEW S, IsFiniteSet(S), NEW x \in S, NEW T, T \subseteq S \ {x}
  PROVE  /\ IsFiniteSet(T) /\ Cardinality(T) \in Nat /\ Cardinality(S) \in Nat
         /\ Cardinality(T) + 1 <= Cardinality(S)
<1>1. IsFiniteSet(S \ {x}) /\ Cardinality(S \ {x}) = Cardinality(S) - 1
  BY FS_RemoveElement
<1>2. Cardinality(S) \in Nat
  BY FS_CardinalityType
<1>3. IsFiniteSet(T) /\ Cardinality(T) \in Nat /\ Cardinality(T) <= Cardinality(S \ {x})
  BY <1>1, NoMore
<1>4. QED
  BY <1>1, <1>2, <1>3

(* The limits are checked in the transaction that inserts the row.                              *)
LEMMA RowsOneMore ==
  ASSUME RowInv, Counted, NEW r \in Runs, NEW op \in Ops, RunOf[op] = r, HasCapacity(r),
         Unresolved' \subseteq Unresolved \cup {op}
  PROVE  /\ Cardinality(Unresolved') <= MaxTotal
         /\ \A q \in Runs : Cardinality(Unresolved' \cap OpsOf(q)) <= MaxPerRun
<1>1. IsFiniteSet(dispatched) /\ Unresolved \subseteq dispatched
  BY DEF Counted, Unresolved
<1>2. IsFiniteSet(Unresolved)
  BY <1>1, NoMore
<1>3. Cardinality(Unresolved') <= MaxTotal
  <2>1. /\ Cardinality(Unresolved') \in Nat /\ Cardinality(Unresolved) \in Nat
        /\ Cardinality(Unresolved') <= Cardinality(Unresolved) + 1
    BY <1>2, OneMore
  <2>2. QED
    BY <2>1, ProcessAssumption DEF HasCapacity
<1>4. ASSUME NEW q \in Runs PROVE Cardinality(Unresolved' \cap OpsOf(q)) <= MaxPerRun
  <2>1. IsFiniteSet(Unresolved \cap OpsOf(q)) /\ Cardinality(Unresolved \cap OpsOf(q)) <= MaxPerRun
    BY <1>2, NoMore DEF Counted
  <2>2. CASE q = r
    <3>1. Unresolved' \cap OpsOf(q) \subseteq (Unresolved \cap OpsOf(q)) \cup {op}
      OBVIOUS
    <3>2. /\ Cardinality(Unresolved' \cap OpsOf(q)) \in Nat
          /\ Cardinality(Unresolved \cap OpsOf(q)) \in Nat
          /\ Cardinality(Unresolved' \cap OpsOf(q)) <= Cardinality(Unresolved \cap OpsOf(q)) + 1
      BY <2>1, <3>1, OneMore
    <3>3. QED
      BY <2>2, <3>2, ProcessAssumption DEF HasCapacity
  <2>3. CASE q # r
    <3>1. Unresolved' \cap OpsOf(q) \subseteq Unresolved \cap OpsOf(q)
      BY <2>3 DEF OpsOf
    <3>2. /\ Cardinality(Unresolved' \cap OpsOf(q)) \in Nat
          /\ Cardinality(Unresolved \cap OpsOf(q)) \in Nat
          /\ Cardinality(Unresolved' \cap OpsOf(q)) <= Cardinality(Unresolved \cap OpsOf(q))
      BY <2>1, <3>1, NoMore
    <3>3. QED
      BY <2>1, <3>2, ProcessAssumption
  <2>4. QED
    BY <2>2, <2>3
<1>5. QED
  BY <1>3, <1>4

(* Each kept outcome takes one place.                                                            *)
LEMMA OccupiedOneMore ==
  ASSUME RowInv, Counted, NEW r \in Runs, NEW id, cache'[r] \subseteq cache[r] \cup {id},
         TerminateReplies(r)' \subseteq TerminateReplies(r),
         TerminalReplies(r)' \subseteq TerminalReplies(r)
  PROVE  /\ IsFiniteSet(cache'[r]) /\ Occupied(r)' \in Nat /\ Occupied(r) \in Nat
         /\ Occupied(r)' <= Occupied(r) + 1
<1>1. /\ IsFiniteSet(cache[r]) /\ IsFiniteSet(TerminateReplies(r))
      /\ IsFiniteSet(TerminalReplies(r))
  BY CountsFinite
<1>2. /\ IsFiniteSet(cache'[r]) /\ Cardinality(cache'[r]) \in Nat /\ Cardinality(cache[r]) \in Nat
      /\ Cardinality(cache'[r]) <= Cardinality(cache[r]) + 1
  BY <1>1, OneMore
<1>3. /\ Cardinality(TerminateReplies(r)') \in Nat /\ Cardinality(TerminateReplies(r)) \in Nat
      /\ Cardinality(TerminateReplies(r)') <= Cardinality(TerminateReplies(r))
  BY <1>1, NoMore
<1>4. /\ Cardinality(TerminalReplies(r)') \in Nat /\ Cardinality(TerminalReplies(r)) \in Nat
      /\ Cardinality(TerminalReplies(r)') <= Cardinality(TerminalReplies(r))
  BY <1>1, NoMore
<1>5. Occupied(r)' = Cardinality(cache'[r]) + Cardinality(TerminateReplies(r)')
                     + Cardinality(TerminalReplies(r)')
  BY DEF Occupied, TerminateReplies, TerminalReplies
<1>6. QED
  BY <1>2, <1>3, <1>4, <1>5, OccupiedIs

LEMMA CountedSupervised ==
  ASSUME RowInv, Counted, Supervises
  PROVE  Counted'
<1>1. dispatched' = dispatched /\ Unresolved' = Unresolved /\ cache' = cache /\ starting' = starting
  BY DEF Supervises, ledger, Unresolved
<1>2. ASSUME NEW r \in Runs PROVE Occupied(r)' = Occupied(r)
  BY <1>1, OccupiedSame DEF Supervises, ChildKept, OpsOf
<1>3. QED
  BY <1>1, <1>2, CountedSame

LEMMA CountedInit == Init => Counted
<1>. SUFFICES ASSUME Init PROVE Counted
  OBVIOUS
<1>1. dispatched = {} /\ Unresolved = {} /\ \A r \in Runs : cache[r] = {} /\ starting[r] = None
  BY DEF Init, Unresolved
<1>2. \A r \in Runs : TerminateReplies(r) = {} /\ TerminalReplies(r) = {}
  BY ChildFacts DEF Init, TerminateReplies, TerminalReplies, OpsOf
<1>3. \A r \in Runs : Occupied(r) = 0
  BY <1>1, <1>2, OccupiedIs, FS_EmptySet
<1>4. \A r \in Runs : Unresolved \cap OpsOf(r) = {}
  BY <1>1
<1>5. QED
  BY <1>1, <1>3, <1>4, FS_EmptySet, ProcessAssumption DEF Counted

LEMMA CountedDispatch ==
  ASSUME RowInv, Counted, NEW r \in Runs, NEW op \in Ops, Dispatch(r, op) \/ DispatchRefused(r, op)
  PROVE  Counted'
<1>0. /\ RunOf[op] = r /\ lock = None /\ Occupied(r) + 3 <= MaxCache
      /\ UNCHANGED <<exitRow, child>>
      /\ dispatched' = dispatched \/ (HasCapacity(r) /\ dispatched' = dispatched \cup {op})
  BY DEF Dispatch, DispatchRefused, Admitted
<1>1. \A q \in Runs : starting[q] = None
  BY <1>0, FreeLock, NamesAssumption
<1>2. IsFiniteSet(dispatched')
  BY <1>0, FS_AddElement DEF Counted
<1>3. /\ Cardinality(Unresolved') <= MaxTotal
      /\ \A q \in Runs : Cardinality(Unresolved' \cap OpsOf(q)) <= MaxPerRun
  <2>1. CASE dispatched' = dispatched
    <3>1. Unresolved' \subseteq Unresolved
      BY <1>0, <2>1 DEF Unresolved
    <3>2. QED
      BY <3>1, RowsFewer
  <2>2. CASE HasCapacity(r) /\ dispatched' = dispatched \cup {op}
    <3>1. Unresolved' \subseteq Unresolved \cup {op}
      BY <1>0, <2>2 DEF Unresolved
    <3>2. QED
      BY <1>0, <2>2, <3>1, RowsOneMore
  <2>3. QED
    BY <1>0, <2>1, <2>2
<1>4. CASE Dispatch(r, op)
  <2>1. cache' = cache /\ starting' = [starting EXCEPT ![r] = op]
    BY <1>4 DEF Dispatch
  <2>2. \A q \in Runs : Occupied(q)' = Occupied(q)
    BY <1>0, <2>1, OccupiedSame
  <2>3. \A q \in Runs : starting'[q] # None => q = r
    BY <1>1, <2>1 DEF RowInv, TypeOK
  <2>4. QED
    BY <1>0, <1>2, <1>3, <2>1, <2>2, <2>3 DEF Counted, OpsOf
<1>5. CASE DispatchRefused(r, op)
  <2>1. cache' = [cache EXCEPT ![r] = cache[r] \cup {op}] /\ starting' = starting
    BY <1>5 DEF DispatchRefused, Keep
  <2>2. cache'[r] = cache[r] \cup {op} /\ \A q \in Runs : q # r => cache'[q] = cache[q]
    BY <2>1 DEF RowInv, TypeOK
  <2>3. /\ IsFiniteSet(cache'[r]) /\ Occupied(r)' \in Nat /\ Occupied(r) \in Nat
        /\ Occupied(r)' <= Occupied(r) + 1
    <3>1. /\ TerminateReplies(r)' \subseteq TerminateReplies(r)
          /\ TerminalReplies(r)' \subseteq TerminalReplies(r)
      BY <1>0 DEF TerminateReplies, TerminalReplies
    <3>2. QED
      BY <2>2, <3>1, OccupiedOneMore
  <2>4. Occupied(r)' <= MaxCache
    BY <1>0, <2>3, ProcessAssumption
  <2>5. \A q \in Runs : q # r => Occupied(q)' = Occupied(q)
    BY <1>0, <2>2, OccupiedSame
  <2>6. QED
    BY <1>1, <1>2, <1>3, <2>1, <2>2, <2>3, <2>4, <2>5 DEF Counted, OpsOf
<1>6. QED
  BY <1>4, <1>5

(* The reservation of a start is turned into an outcome and two replies.                          *)
LEMMA CountedSpawn ==
  ASSUME RowInv, Counted, NEW r \in Runs, Spawn(r)
  PROVE  Counted'
<1>. DEFINE op == starting[r]
<1>0. /\ op \in Ops /\ RunOf[op] = r /\ Occupied(r) + 3 <= MaxCache
      /\ UNCHANGED <<dispatched, exitRow>>
      /\ cache'[r] = cache[r] \cup {op} /\ \A q \in Runs : q # r => cache'[q] = cache[q]
      /\ \A q \in Ops : q # op => child'[q] = child[q]
      /\ starting'[r] = None /\ \A q \in Runs : q # r => starting'[q] = starting[q]
  BY DEF Spawn, RowInv, StartHolds, Counted, TypeOK, Keep
<1>1. Unresolved' = Unresolved
  BY <1>0 DEF Unresolved
<1>2. /\ IsFiniteSet(cache[r]) /\ IsFiniteSet(TerminateReplies(r))
      /\ IsFiniteSet(TerminalReplies(r))
  BY CountsFinite
<1>3. /\ IsFiniteSet(cache'[r]) /\ Cardinality(cache'[r]) \in Nat /\ Cardinality(cache[r]) \in Nat
      /\ Cardinality(cache'[r]) <= Cardinality(cache[r]) + 1
  BY <1>0, <1>2, OneMore
<1>4. /\ Cardinality(TerminateReplies(r)') \in Nat /\ Cardinality(TerminateReplies(r)) \in Nat
      /\ Cardinality(TerminateReplies(r)') <= Cardinality(TerminateReplies(r)) + 1
  <2>1. TerminateReplies(r)' \subseteq TerminateReplies(r) \cup {op}
    BY <1>0 DEF TerminateReplies, OpsOf
  <2>2. QED
    BY <1>2, <2>1, OneMore
<1>5. /\ Cardinality(TerminalReplies(r)') \in Nat /\ Cardinality(TerminalReplies(r)) \in Nat
      /\ Cardinality(TerminalReplies(r)') <= Cardinality(TerminalReplies(r)) + 1
  <2>1. TerminalReplies(r)' \subseteq TerminalReplies(r) \cup {op}
    BY <1>0 DEF TerminalReplies, OpsOf
  <2>2. QED
    BY <1>2, <2>1, OneMore
<1>6. Occupied(r)' = Cardinality(cache'[r]) + Cardinality(TerminateReplies(r)')
                     + Cardinality(TerminalReplies(r)')
  BY DEF Occupied, TerminateReplies, TerminalReplies
<1>7. Occupied(r)' <= MaxCache
  BY <1>0, <1>3, <1>4, <1>5, <1>6, OccupiedIs, ProcessAssumption
<1>8. ASSUME NEW q \in Runs, q # r PROVE Occupied(q)' = Occupied(q)
  BY <1>0, <1>8, OccupiedSame DEF OpsOf
<1>9. QED
  BY <1>0, <1>1, <1>3, <1>7, <1>8, CountedSame

LEMMA CountedSpawnFailed ==
  ASSUME RowInv, Counted, NEW r \in Runs, SpawnFailed(r)
  PROVE  Counted'
<1>0. /\ Occupied(r) + 3 <= MaxCache
      /\ UNCHANGED <<dispatched, exitRow>>
      /\ cache'[r] = cache[r] \cup {starting[r]} /\ \A q \in Runs : q # r => cache'[q] = cache[q]
      /\ starting'[r] = None /\ \A q \in Runs : q # r => starting'[q] = starting[q]
  BY DEF SpawnFailed, RowInv, Counted, TypeOK, Keep
<1>1. \A op \in Ops : /\ child'[op].terminateReserved = child[op].terminateReserved
                      /\ child'[op].terminalReserved = child[op].terminalReserved
  BY CleanupKeeps DEF SpawnFailed, ChildKept
<1>2. Unresolved' = Unresolved
  BY <1>0 DEF Unresolved
<1>3. /\ IsFiniteSet(cache'[r]) /\ Occupied(r)' \in Nat /\ Occupied(r) \in Nat
      /\ Occupied(r)' <= Occupied(r) + 1
  <2>1. /\ TerminateReplies(r)' \subseteq TerminateReplies(r)
        /\ TerminalReplies(r)' \subseteq TerminalReplies(r)
    BY <1>1 DEF TerminateReplies, TerminalReplies, OpsOf
  <2>2. QED
    BY <1>0, <2>1, OccupiedOneMore
<1>4. Occupied(r)' <= MaxCache
  BY <1>0, <1>3, ProcessAssumption
<1>5. ASSUME NEW q \in Runs, q # r PROVE Occupied(q)' = Occupied(q)
  BY <1>0, <1>1, <1>5, OccupiedSame DEF OpsOf
<1>6. QED
  BY <1>0, <1>2, <1>3, <1>4, <1>5, CountedSame

(* A reply that finds the cache full takes the place that was reserved for it.                    *)
LEMMA CountedObserve ==
  ASSUME RowInv, Counted, NEW r \in Runs, NEW id \in Ids, NEW op \in Ops, NEW terminate \in BOOLEAN,
         Observe(r, id, op, terminate)
  PROVE  Counted'
<1>1. PICK rec \in Recordings(op) :
           /\ exitRow' = rec[2]
           /\ \/ child' = [child EXCEPT ![op] = rec[1]] /\ UNCHANGED <<cache, told>>
              \/ /\ \/ Occupied(r) < MaxCache
                    \/ /\ terminate => rec[1].terminateReserved /\ Says(rec[1]) # "UNKNOWN"
                       /\ ~terminate => rec[1].terminalReserved /\ Says(rec[1]) = "EXITED"
                 /\ child' = [child EXCEPT ![op] = Spent(rec[1], terminate)]
                 /\ cache' = Keep(r, id)
  BY ObserveTells
<1>2. /\ rec[1] \in ChildStates
      /\ \A q \in Ops : q # op => rec[2][q] = exitRow[q]
      /\ exitRow[op] # None => rec[2][op] # None
      /\ rec[1].terminateReserved = child[op].terminateReserved
      /\ rec[1].terminalReserved = child[op].terminalReserved
  BY RecordingFacts
<1>3. /\ RunOf[op] = r /\ lock = None /\ UNCHANGED <<dispatched, starting>>
      /\ TypeOK /\ dispatched \subseteq Ops
  BY DEF Observe, RowInv, TypeOK
<1>4. \A q \in Runs : starting[q] = None
  BY <1>3, FreeLock, NamesAssumption
<1>5. Unresolved' \subseteq Unresolved
  BY <1>1, <1>2, <1>3 DEF Unresolved
<1>6. CASE child' = [child EXCEPT ![op] = rec[1]] /\ UNCHANGED <<cache, told>>
  <2>1. \A q \in Ops : /\ child'[q].terminateReserved = child[q].terminateReserved
                       /\ child'[q].terminalReserved = child[q].terminalReserved
    BY <1>2, <1>3, <1>6 DEF TypeOK
  <2>2. \A q \in Runs : Occupied(q)' = Occupied(q)
    BY <1>6, <2>1, OccupiedSame DEF OpsOf
  <2>3. QED
    BY <1>3, <1>5, <1>6, <2>2, CountedSame
<1>7. CASE /\ \/ Occupied(r) < MaxCache
              \/ /\ terminate => rec[1].terminateReserved /\ Says(rec[1]) # "UNKNOWN"
                 /\ ~terminate => rec[1].terminalReserved /\ Says(rec[1]) = "EXITED"
           /\ child' = [child EXCEPT ![op] = Spent(rec[1], terminate)]
           /\ cache' = Keep(r, id)
  <2>. DEFINE ch == Spent(rec[1], terminate)
  <2>1. /\ ch.terminateReserved =
             (child[op].terminateReserved /\ ~(terminate /\ Says(rec[1]) # "UNKNOWN"))
        /\ ch.terminalReserved =
             (child[op].terminalReserved /\ ~(~terminate /\ Says(rec[1]) = "EXITED"))
    BY <1>2, SpentFacts
  <2>2. child'[op] = ch /\ \A q \in Ops : q # op => child'[q] = child[q]
    BY <1>3, <1>7 DEF TypeOK
  <2>3. cache'[r] = cache[r] \cup {id} /\ \A q \in Runs : q # r => cache'[q] = cache[q]
    BY <1>3, <1>7 DEF TypeOK, Keep
  <2>. HIDE DEF ch
  <2>4. /\ TerminateReplies(r)' \subseteq TerminateReplies(r)
        /\ TerminalReplies(r)' \subseteq TerminalReplies(r)
    BY <2>1, <2>2 DEF TerminateReplies, TerminalReplies, OpsOf
  <2>5. /\ IsFiniteSet(cache'[r]) /\ Occupied(r)' \in Nat /\ Occupied(r) \in Nat
        /\ Occupied(r)' <= Occupied(r) + 1
    BY <2>3, <2>4, OccupiedOneMore
  <2>6. /\ IsFiniteSet(cache[r]) /\ IsFiniteSet(TerminateReplies(r))
        /\ IsFiniteSet(TerminalReplies(r))
    BY CountsFinite
  <2>7. /\ Cardinality(cache'[r]) \in Nat /\ Cardinality(cache[r]) \in Nat
        /\ Cardinality(cache'[r]) <= Cardinality(cache[r]) + 1
    BY <2>3, <2>6, OneMore
  <2>8. Occupied(r)' = Cardinality(cache'[r]) + Cardinality(TerminateReplies(r)')
                       + Cardinality(TerminalReplies(r)')
    BY DEF Occupied, TerminateReplies, TerminalReplies
  <2>9. Occupied(r) <= MaxCache
    BY DEF Counted
  <2>10. Occupied(r)' <= MaxCache
    <3>1. CASE Occupied(r) < MaxCache
      BY <2>5, <3>1, ProcessAssumption
    <3>2. CASE terminate /\ rec[1].terminateReserved /\ Says(rec[1]) # "UNKNOWN"
      <4>1. op \in TerminateReplies(r) /\ op \notin TerminateReplies(r)'
        BY <1>2, <1>3, <2>1, <2>2, <3>2 DEF TerminateReplies, OpsOf
      <4>2. TerminateReplies(r)' \subseteq TerminateReplies(r) \ {op}
        BY <2>4, <4>1
      <4>3. /\ Cardinality(TerminateReplies(r)') \in Nat /\ Cardinality(TerminateReplies(r)) \in Nat
            /\ Cardinality(TerminateReplies(r)') + 1 <= Cardinality(TerminateReplies(r))
        BY <2>6, <4>1, <4>2, OneLess
      <4>4. /\ Cardinality(TerminalReplies(r)') \in Nat /\ Cardinality(TerminalReplies(r)) \in Nat
            /\ Cardinality(TerminalReplies(r)') <= Cardinality(TerminalReplies(r))
        BY <2>4, <2>6, NoMore
      <4>5. QED
        BY <2>7, <2>8, <2>9, <4>3, <4>4, OccupiedIs, ProcessAssumption
    <3>3. CASE ~terminate /\ rec[1].terminalReserved /\ Says(rec[1]) = "EXITED"
      <4>1. op \in TerminalReplies(r) /\ op \notin TerminalReplies(r)'
        BY <1>2, <1>3, <2>1, <2>2, <3>3 DEF TerminalReplies, OpsOf
      <4>2. TerminalReplies(r)' \subseteq TerminalReplies(r) \ {op}
        BY <2>4, <4>1
      <4>3. /\ Cardinality(TerminalReplies(r)') \in Nat /\ Cardinality(TerminalReplies(r)) \in Nat
            /\ Cardinality(TerminalReplies(r)') + 1 <= Cardinality(TerminalReplies(r))
        BY <2>6, <4>1, <4>2, OneLess
      <4>4. /\ Cardinality(TerminateReplies(r)') \in Nat /\ Cardinality(TerminateReplies(r)) \in Nat
            /\ Cardinality(TerminateReplies(r)') <= Cardinality(TerminateReplies(r))
        BY <2>4, <2>6, NoMore
      <4>5. QED
        BY <2>7, <2>8, <2>9, <4>3, <4>4, OccupiedIs, ProcessAssumption
    <3>4. QED
      BY <1>7, <3>1, <3>2, <3>3
  <2>11. ASSUME NEW q \in Runs, q # r PROVE Occupied(q)' = Occupied(q)
    <3>1. \A x \in OpsOf(q) : child'[x] = child[x]
      BY <1>3, <2>2, <2>11 DEF OpsOf
    <3>2. QED
      BY <2>3, <2>11, <3>1, OccupiedSame
  <2>12. QED
    BY <1>3, <1>4, <1>5, <2>3, <2>5, <2>10, <2>11, CountedSame
<1>8. QED
  BY <1>1, <1>6, <1>7

LEMMA CountedElse ==
  ASSUME RowInv, Counted,
         \/ \E r \in Runs : Crash(r) \/ EndRun(r)
         \/ \E r \in Runs, op \in Ops, id \in Ids : ObserveOrphan(r, id, op)
         \/ \E op \in Ops : SuperviseRecord(op)
         \/ TakeLock \/ ReleaseLock
  PROVE  Counted'
<1>0. TypeOK
  BY DEF RowInv
<1>1. ASSUME NEW r \in Runs, Crash(r) PROVE Counted'
  <2>1. /\ UNCHANGED <<dispatched, exitRow>> /\ cache'[r] = {} /\ starting'[r] = None
        /\ \A q \in Runs : q # r => cache'[q] = cache[q] /\ starting'[q] = starting[q]
        /\ \A op \in OpsOf(r) : child'[op] = NoChild
        /\ \A op \in Ops : op \notin OpsOf(r) => child'[op] = child[op]
    BY <1>0, <1>1 DEF Crash, ledger, TypeOK, OpsOf
  <2>2. Unresolved' = Unresolved
    BY <2>1 DEF Unresolved
  <2>3. Occupied(r)' = 0
    <3>1. TerminateReplies(r)' = {} /\ TerminalReplies(r)' = {}
      BY <2>1, ChildFacts DEF TerminateReplies, TerminalReplies, OpsOf
    <3>2. Occupied(r)' = Cardinality(cache'[r]) + Cardinality(TerminateReplies(r)')
                         + Cardinality(TerminalReplies(r)')
      BY DEF Occupied, TerminateReplies, TerminalReplies
    <3>3. QED
      BY <2>1, <3>1, <3>2, FS_EmptySet
  <2>4. ASSUME NEW q \in Runs, q # r PROVE Occupied(q)' = Occupied(q)
    BY <2>1, <2>4, OccupiedSame DEF OpsOf
  <2>5. QED
    <3>1. IsFiniteSet(cache'[r]) /\ Occupied(r)' <= MaxCache
      BY <2>1, <2>3, FS_EmptySet, ProcessAssumption
    <3>2. QED
      BY <2>1, <2>2, <2>4, <3>1, CountedSame
<1>2. ASSUME UNCHANGED <<dispatched, exitRow, child, cache, starting>> PROVE Counted'
  <2>1. Unresolved' = Unresolved /\ \A r \in Runs : Occupied(r)' = Occupied(r)
    BY <1>2, OccupiedSame DEF Unresolved
  <2>2. QED
    BY <1>2, <2>1, CountedSame
<1>3. ASSUME NEW r \in Runs, NEW op \in Ops, NEW id \in Ids, ObserveOrphan(r, id, op) PROVE Counted'
  <2>1. /\ UNCHANGED <<dispatched, exitRow, child, starting>> /\ lock = None
        /\ Occupied(r) < MaxCache
        /\ cache'[r] = cache[r] \cup {id} /\ \A q \in Runs : q # r => cache'[q] = cache[q]
    BY <1>0, <1>3 DEF ObserveOrphan, Keep, TypeOK
  <2>2. Unresolved' = Unresolved
    BY <2>1 DEF Unresolved
  <2>3. /\ IsFiniteSet(cache'[r]) /\ Occupied(r)' \in Nat /\ Occupied(r) \in Nat
        /\ Occupied(r)' <= Occupied(r) + 1
    <3>1. /\ TerminateReplies(r)' \subseteq TerminateReplies(r)
          /\ TerminalReplies(r)' \subseteq TerminalReplies(r)
      BY <2>1 DEF TerminateReplies, TerminalReplies
    <3>2. QED
      BY <2>1, <3>1, OccupiedOneMore
  <2>4. Occupied(r)' <= MaxCache
    BY <2>1, <2>3, ProcessAssumption
  <2>5. ASSUME NEW q \in Runs, q # r PROVE Occupied(q)' = Occupied(q)
    BY <2>1, <2>5, OccupiedSame
  <2>6. \A q \in Runs : starting[q] = None
    BY <2>1, FreeLock, NamesAssumption
  <2>7. QED
    BY <2>1, <2>2, <2>3, <2>4, <2>5, <2>6, CountedSame
<1>4. ASSUME NEW op \in Ops, SuperviseRecord(op) PROVE Counted'
  <2>1. PICK rec \in Recordings(op) :
          child' = [child EXCEPT ![op] = [rec[1] EXCEPT !.watch = "gone"]] /\ exitRow' = rec[2]
    BY <1>4 DEF SuperviseRecord, Update
  <2>2. /\ rec[1] \in ChildStates
        /\ \A q \in Ops : q # op => rec[2][q] = exitRow[q]
        /\ exitRow[op] # None => rec[2][op] # None
        /\ rec[1].terminateReserved = child[op].terminateReserved
        /\ rec[1].terminalReserved = child[op].terminalReserved
    BY RecordingFacts
  <2>3. UNCHANGED <<dispatched, cache, starting>> /\ dispatched \subseteq Ops
    BY <1>0, <1>4 DEF SuperviseRecord, TypeOK
  <2>4. Unresolved' \subseteq Unresolved
    BY <2>1, <2>2, <2>3 DEF Unresolved
  <2>5. \A q \in Ops : /\ child'[q].terminateReserved = child[q].terminateReserved
                       /\ child'[q].terminalReserved = child[q].terminalReserved
    <3>. DEFINE ch == [rec[1] EXCEPT !.watch = "gone"]
    <3>1. ch.terminateReserved = child[op].terminateReserved /\ ch.terminalReserved = child[op].terminalReserved
      BY <2>2 DEF ChildStates
    <3>2. child' = [child EXCEPT ![op] = ch]
      BY <2>1
    <3>. HIDE DEF ch
    <3>3. QED
      BY <1>0, <3>1, <3>2 DEF TypeOK
  <2>6. \A q \in Runs : Occupied(q)' = Occupied(q)
    BY <2>3, <2>5, OccupiedSame DEF OpsOf
  <2>7. QED
    BY <2>3, <2>4, <2>6, CountedSame
<1>5. QED
  BY <1>1, <1>2, <1>3, <1>4 DEF EndRun, TakeLock, ReleaseLock, ledger

LEMMA CountedStep == RowInv /\ Counted /\ [Next]_vars => Counted'
BY QuietSupervises, SuperviseSupervises, CountedSupervised, CountedDispatch, CountedSpawn,
  CountedSpawnFailed, CountedObserve, CountedElse
DEF Next, Supervise

(* "Existing dispatch IDs never permit another spawn" (docs/multi-project-bridge.md:743): one     *)
(* start operation creates at most one process, and running processes and kept replies stay      *)
(* within their limits, for any number of runs, operations and crashes.                          *)
THEOREM StartsAreBoundedHolds == Spec => []StartsAreBounded
<1>1. RowInv /\ Counted => StartsAreBounded
  <2>. SUFFICES ASSUME RowInv, Counted PROVE StartsAreBounded
    OBVIOUS
  <2>. DEFINE running == {op \in Ops : os[op] = "running"}
  <2>1. running \subseteq Unresolved
    BY DEF RowInv, DispatchedFirst, ReapedOnly, Unresolved, None
  <2>2. IsFiniteSet(Unresolved)
    BY NoMore DEF Counted, Unresolved
  <2>3. Cardinality(running) <= MaxTotal
    <3>1. /\ Cardinality(running) \in Nat /\ Cardinality(Unresolved) \in Nat
          /\ Cardinality(running) <= Cardinality(Unresolved)
      BY <2>1, <2>2, NoMore
    <3>2. QED
      BY <3>1, ProcessAssumption DEF Counted
  <2>4. ASSUME NEW r \in Runs PROVE Cardinality({op \in OpsOf(r) : os[op] = "running"}) <= MaxPerRun
    <3>. DEFINE mine == {op \in OpsOf(r) : os[op] = "running"}
    <3>1. mine \subseteq Unresolved \cap OpsOf(r)
      BY <2>1 DEF OpsOf
    <3>2. IsFiniteSet(Unresolved \cap OpsOf(r))
      BY <2>2, NoMore
    <3>3. /\ Cardinality(mine) \in Nat /\ Cardinality(Unresolved \cap OpsOf(r)) \in Nat
          /\ Cardinality(mine) <= Cardinality(Unresolved \cap OpsOf(r))
      BY <3>1, <3>2, NoMore
    <3>4. QED
      BY <3>3, ProcessAssumption DEF Counted
  <2>5. SpawnedOnce
    BY DEF RowInv, DispatchedFirst, SpawnedOnce
  <2>6. QED
    BY <2>3, <2>4, <2>5 DEF StartsAreBounded, WithinLimits, RowInv, Counted
<1>2. QED
  BY <1>1, RowsInit, RowsStep, CountedInit, CountedStep, PTL DEF Spec

-----------------------------------------------------------------------------
(* LocalService. *)

(* A peer's buffer: only an open peer has an answer or a route, a success is owed to a route, and *)
(* an answer has a part left to send.                                                              *)
PeerFits(x) ==
  /\ x.state # "open" => x.out = "none" /\ x.route = NoOne
  /\ x.out = "none" => x.sent = 0
  /\ x.out # "none" => x.sent < x.len
  /\ x.out = "success" => x.route # NoOne
PeersFit == \A c \in Conns : PeerFits(peer[c])

(* A route's context: what it pins belongs to an open one, whose descriptor was never closed, and   *)
(* a retired route has none.                                                                        *)
OwnedFits(x, n, retired) ==
  /\ x.scope = "held" \/ x.session => x.state = "open"
  /\ x.state \in {"absent", "open"} => n = 0
  /\ n <= 1
  /\ retired => x.state \in {"closed", "released"}
ContextsFit == \A r \in Routes : OwnedFits(owned[r], fdCloses[r], route[r].retired)

ServiceInv ==
  /\ ServiceTypeOK /\ PeersFit /\ ContextsFit
  /\ ReservationsAgree /\ PeersBounded /\ CleanExit

RouteType == [Routes -> [retired : BOOLEAN, peer : Conns \union {NoOne}, credential : BOOLEAN]]
OwnedType == [Routes -> [state : {"absent", "open", "closed", "released"},
                         scope : {"none", "held", "ambiguous"},
                         processes : {"none", "held"}, session : BOOLEAN]]
RestType ==
  /\ pc \in {"contexts", "bind", "publish", "top", "events", "cleanup", "ended"}
  /\ batch \subseteq Conns \union {Listener}
  /\ writing \in Conns \union {NoOne}
  /\ native \in [Routes -> BOOLEAN]
  /\ socket \in BOOLEAN /\ idle \in BOOLEAN /\ failed \in BOOLEAN
  /\ flips \in 0..MaxFlips

LEMMA TypeParts ==
  ServiceTypeOK <=> /\ RestType /\ route \in RouteType /\ owned \in OwnedType
             /\ peer \in [Conns -> PeerRecords] /\ fdCloses \in [Routes -> Nat]
BY DEF ServiceTypeOK, RestType, RouteType, OwnedType

LEMMA GoneFits == Gone \in PeerRecords /\ PeerFits(Gone) /\ Gone.state = "gone" /\ Gone.route = NoOne
BY ServiceAssumption DEF Gone, PeerRecords, PeerFits

LEMMA InvInit == ServiceInit => ServiceInv
<1>. SUFFICES ASSUME ServiceInit PROVE ServiceInv
  OBVIOUS
<1>1. peer = [c \in Conns |-> [Gone EXCEPT !.state = "new"]]
  BY DEF ServiceInit
<1>2. /\ [Gone EXCEPT !.state = "new"] \in PeerRecords
      /\ PeerFits([Gone EXCEPT !.state = "new"])
      /\ [Gone EXCEPT !.state = "new"].state = "new" /\ [Gone EXCEPT !.state = "new"].route = NoOne
  <2>1. Gone \in PeerRecords /\ PeerFits(Gone) /\ Gone.route = NoOne /\ Gone.out = "none"
    BY GoneFits DEF Gone
  <2>2. QED
    BY <2>1 DEF PeerRecords, PeerFits
<1>3. peer \in [Conns -> PeerRecords] /\ PeersFit
  BY <1>1, <1>2 DEF PeersFit
<1>4. \A c \in Conns : peer[c].state = "new" /\ peer[c].route = NoOne
  BY <1>1, <1>2
<1>5. Peers = {}
  BY <1>4 DEF Peers
<1>6. PeersBounded
  BY <1>5, FS_EmptySet, ServiceAssumption DEF PeersBounded
<1>7. route \in RouteType /\ owned \in OwnedType /\ fdCloses \in [Routes -> Nat] /\ ContextsFit
  BY DEF ServiceInit, RouteType, OwnedType, ContextsFit, OwnedFits
<1>8. ReservationsAgree
  BY <1>4, ServiceAssumption DEF ServiceInit, ReservationsAgree
<1>9. RestType
  <2>1. native \in [Routes -> BOOLEAN] /\ socket \in BOOLEAN /\ idle \in BOOLEAN /\ failed \in BOOLEAN
    BY DEF ServiceInit
  <2>2. flips \in 0..MaxFlips
    BY ServiceAssumption DEF ServiceInit
  <2>3. QED
    BY <2>1, <2>2 DEF ServiceInit, RestType
<1>10. CleanExit
  BY DEF ServiceInit, CleanExit
<1>11. QED
  BY <1>3, <1>6, <1>7, <1>8, <1>9, <1>10, TypeParts DEF ServiceInv

-----------------------------------------------------------------------------
(* The peers.  What a step may do to one of them: the two action properties, peer by peer.          *)
Mute(c) ==
  /\ peer[c].out = "success" /\ peer'[c].state = "open"
  /\ peer'[c].out = "none" \/ peer'[c].sent > peer[c].sent
  => ~route[peer[c].route].retired
Half(c) ==
  peer[c].sent > 0 =>
    \/ peer'[c].state = "gone"
    \/ peer'[c].out = "none" /\ peer[c].sent + 1 = peer[c].len
    \/ peer'[c].out = peer[c].out /\ peer'[c].len = peer[c].len
       /\ peer'[c].sent \in {peer[c].sent, peer[c].sent + 1}
Goes(c) == peer'[c] \in PeerRecords /\ PeerFits(peer'[c]) /\ Mute(c) /\ Half(c)
PeersGo == peer' \in [Conns -> PeerRecords] /\ \A c \in Conns : Goes(c)

(* With the reservations: no connection is added, and routes and peers still name each other.         *)
PeerSide == PeersGo /\ route' \in RouteType /\ ReservationsAgree' /\ Peers' \subseteq Peers

LEMMA PeerFacts ==
  ASSUME ServiceInv, NEW c \in Conns
  PROVE  /\ peer \in [Conns -> PeerRecords] /\ route \in RouteType /\ owned \in OwnedType
         /\ peer[c] \in PeerRecords /\ PeerFits(peer[c])
         /\ peer[c].state \in {"new", "open", "gone"} /\ peer[c].route \in Routes \union {NoOne}
         /\ peer[c].sent \in Nat /\ peer[c].len \in Nat /\ peer[c].sent <= MaxChunks
         /\ peer[c].len <= MaxChunks
<1>1. peer \in [Conns -> PeerRecords] /\ route \in RouteType /\ owned \in OwnedType
  BY TypeParts DEF ServiceInv
<1>2. peer[c] \in PeerRecords /\ PeerFits(peer[c])
  BY <1>1 DEF ServiceInv, PeersFit
<1>3. QED
  BY <1>1, <1>2, ServiceAssumption DEF PeerRecords

LEMMA KeptGoes ==
  ASSUME ServiceInv, NEW c \in Conns, peer'[c] = peer[c]
  PROVE  Goes(c)
BY PeerFacts DEF Goes, Mute, Half

LEMMA GoneGoes ==
  ASSUME ServiceInv, NEW c \in Conns, peer'[c] = Gone
  PROVE  Goes(c)
BY GoneFits DEF Goes, Mute, Half

LEMMA OneGoes ==
  ASSUME ServiceInv, NEW c \in Conns, NEW x, peer' = [peer EXCEPT ![c] = x], Goes(c)
  PROVE  PeersGo
<1>1. peer \in [Conns -> PeerRecords]
  BY PeerFacts
<1>2. ASSUME NEW d \in Conns PROVE Goes(d)
  <2>1. CASE d = c
    BY <2>1
  <2>2. CASE d # c
    BY <1>1, <2>2, KeptGoes
  <2>3. QED
    BY <2>1, <2>2
<1>3. peer' \in [Conns -> PeerRecords]
  BY <1>1, <1>2 DEF Goes
<1>4. QED
  BY <1>2, <1>3 DEF PeersGo

(* Nothing about who holds which route changes.                                                       *)
LEMMA SameReservations ==
  ASSUME ServiceInv, PeersGo, route' \in RouteType,
         \A r \in Routes : route'[r].peer = route[r].peer,
         \A c \in Conns : peer'[c].state = peer[c].state /\ peer'[c].route = peer[c].route
  PROVE  PeerSide
<1>1. ReservationsAgree'
  BY DEF ServiceInv, ReservationsAgree
<1>2. Peers' \subseteq Peers
  BY DEF Peers
<1>3. QED
  BY <1>1, <1>2 DEF PeerSide

LEMMA KeptSide ==
  ASSUME ServiceInv, UNCHANGED <<peer, route>>
  PROVE  PeerSide
<1>1. peer \in [Conns -> PeerRecords] /\ route \in RouteType
  BY TypeParts DEF ServiceInv
<1>2. \A c \in Conns : Goes(c)
  BY KeptGoes
<1>3. QED
  BY <1>1, <1>2, SameReservations DEF PeersGo

LEMMA CloseSide ==
  ASSUME ServiceInv, NEW C \in SUBSET Conns, ClosePeers(C)
  PROVE  PeerSide /\ \A r \in Routes : route'[r].retired = route[r].retired
<1>0. peer \in [Conns -> PeerRecords] /\ route \in RouteType
  BY TypeParts DEF ServiceInv
<1>1. /\ peer' = [c \in Conns |-> IF c \in C THEN Gone ELSE peer[c]]
      /\ route' = [r \in Routes |-> IF route[r].peer \in C
                                    THEN [route[r] EXCEPT !.peer = NoOne] ELSE route[r]]
  BY DEF ClosePeers
<1>2. ASSUME NEW c \in Conns PROVE Goes(c)
  <2>1. peer'[c] = Gone \/ peer'[c] = peer[c]
    BY <1>1
  <2>2. QED
    BY <2>1, GoneGoes, KeptGoes
<1>3. PeersGo
  BY <1>1, <1>2 DEF PeersGo, Goes
<1>4. ASSUME NEW r \in Routes
      PROVE  /\ route'[r].retired = route[r].retired
             /\ route'[r] \in [retired : BOOLEAN, peer : Conns \union {NoOne}, credential : BOOLEAN]
             /\ route'[r].peer = IF route[r].peer \in C THEN NoOne ELSE route[r].peer
  BY <1>0, <1>1 DEF RouteType
<1>5. route' \in RouteType
  BY <1>1, <1>4 DEF RouteType
<1>6. ASSUME NEW r \in Routes, NEW c \in Conns
      PROVE  route'[r].peer = c <=> (peer'[c].state = "open" /\ peer'[c].route = r)
  <2>1. route[r].peer = c <=> (peer[c].state = "open" /\ peer[c].route = r)
    BY DEF ServiceInv, ReservationsAgree
  <2>2. CASE c \in C
    BY <1>1, <1>4, <2>2, GoneFits, ServiceAssumption
  <2>3. CASE c \notin C
    <3>1. peer'[c] = peer[c]
      BY <1>1, <2>3
    <3>2. route'[r].peer = c <=> route[r].peer = c
      BY <1>4, <2>3, ServiceAssumption
    <3>3. QED
      BY <2>1, <3>1, <3>2
  <2>4. QED
    BY <2>2, <2>3
<1>7. Peers' \subseteq Peers
  BY <1>1, GoneFits DEF Peers
<1>8. QED
  BY <1>3, <1>4, <1>5, <1>6, <1>7 DEF PeerSide, ReservationsAgree

LEMMA QueueSide ==
  ASSUME ServiceInv, NEW c \in Conns, NEW out \in {"success", "refusal"}, NEW n \in 1..MaxChunks,
         NEW closeAfter \in BOOLEAN, NEW timely \in BOOLEAN,
         Queue(c, out, n, closeAfter, timely),
         peer[c].state = "open", peer[c].sent = 0, out = "success" => peer[c].route # NoOne
  PROVE  /\ PeersGo
         /\ \A d \in Conns : peer'[d].state = peer[d].state /\ peer'[d].route = peer[d].route
<1>0. peer \in [Conns -> PeerRecords] /\ peer[c] \in PeerRecords
  BY PeerFacts
<1>. DEFINE late == IF timely THEN FALSE ELSE peer[c].late
            x == [peer[c] EXCEPT !.out = out, !.len = n, !.sent = 0, !.closeAfter = closeAfter,
                                 !.late = late]
<1>1. peer' = [peer EXCEPT ![c] = x]
  BY <1>0 DEF Queue
<1>2. late \in BOOLEAN
  BY <1>0 DEF PeerRecords
<1>. HIDE DEF late
<1>3. n \in 0..MaxChunks /\ 0 \in 0..MaxChunks
  BY ServiceAssumption
<1>4. /\ x \in PeerRecords /\ x.state = peer[c].state /\ x.route = peer[c].route
      /\ x.out = out /\ x.len = n /\ x.sent = 0
  BY <1>0, <1>2, <1>3 DEF PeerRecords
<1>. HIDE DEF x
<1>5. peer'[c] = x /\ \A d \in Conns \ {c} : peer'[d] = peer[d]
  BY <1>0, <1>1
<1>6. PeerFits(x) /\ Mute(c) /\ Half(c)
  BY <1>4, <1>5, PeerFacts DEF PeerFits, Mute, Half
<1>7. PeersGo
  BY <1>1, <1>4, <1>5, <1>6, OneGoes DEF Goes
<1>8. QED
  BY <1>4, <1>5, <1>7

(* A retirement keeps every reservation.                                                              *)
LEMMA RetiredRouteFacts ==
  ASSUME route \in RouteType, NEW r \in Routes, NEW removed \in BOOLEAN
  PROVE  /\ RetiredRoute(r, removed) \in RouteType
         /\ \A q \in Routes : RetiredRoute(r, removed)[q].peer = route[q].peer
         /\ \A q \in Routes \ {r} : RetiredRoute(r, removed)[q] = route[q]
<1>. DEFINE kept == route[r].credential /\ ~removed
            x == [route[r] EXCEPT !.retired = TRUE, !.credential = kept]
<1>1. kept \in BOOLEAN
  OBVIOUS
<1>2. RetiredRoute(r, removed) = [route EXCEPT ![r] = x]
  BY DEF RetiredRoute, RouteType
<1>. HIDE DEF kept
<1>3. /\ x \in [retired : BOOLEAN, peer : Conns \union {NoOne}, credential : BOOLEAN]
      /\ x.peer = route[r].peer
  BY <1>1 DEF RouteType
<1>. HIDE DEF x
<1>4. QED
  BY <1>2, <1>3 DEF RouteType

(* One connection takes a free route.                                                                 *)
LEMMA ReserveSide ==
  ASSUME ServiceInv, NEW c \in Conns, NEW r \in Routes, PeersGo,
         NEW x, peer' = [peer EXCEPT ![c] = x], x.state = "open", x.route = r,
         peer[c].state = "open", peer[c].route = NoOne, route[r].peer = NoOne,
         route' \in RouteType, route'[r].peer = c,
         \A q \in Routes \ {r} : route'[q].peer = route[q].peer
  PROVE  PeerSide
<1>1. peer \in [Conns -> PeerRecords] /\ NoOne \notin Conns /\ NoOne \notin Routes
  BY PeerFacts, ServiceAssumption
<1>2. peer'[c] = x /\ \A d \in Conns \ {c} : peer'[d] = peer[d]
  BY <1>1
<1>3. ASSUME NEW q \in Routes, NEW d \in Conns
      PROVE  route'[q].peer = d <=> (peer'[d].state = "open" /\ peer'[d].route = q)
  <2>1. route[q].peer = d <=> (peer[d].state = "open" /\ peer[d].route = q)
    BY DEF ServiceInv, ReservationsAgree
  <2>2. CASE q = r /\ d = c
    BY <1>2, <2>2
  <2>3. CASE q = r /\ d # c
    BY <1>1, <1>2, <2>1, <2>3
  <2>4. CASE q # r /\ d = c
    BY <1>1, <1>2, <2>1, <2>4
  <2>5. CASE q # r /\ d # c
    BY <1>2, <2>1, <2>5
  <2>6. QED
    BY <2>2, <2>3, <2>4, <2>5
<1>4. Peers' \subseteq Peers
  BY <1>2 DEF Peers
<1>5. QED
  BY <1>3, <1>4 DEF PeerSide, ReservationsAgree

(* One connection with route r is cut off.                                                            *)
LEMMA CutSide ==
  ASSUME ServiceInv, NEW c \in Conns, NEW r \in Routes, peer[c].state = "open", peer[c].route = r,
         peer' = [peer EXCEPT ![c] = Gone],
         route' \in RouteType, route'[r].peer = NoOne,
         \A q \in Routes \ {r} : route'[q].peer = route[q].peer
  PROVE  PeerSide
<1>1. peer \in [Conns -> PeerRecords] /\ NoOne \notin Conns /\ NoOne \notin Routes
  BY PeerFacts, ServiceAssumption
<1>2. peer'[c] = Gone /\ \A d \in Conns \ {c} : peer'[d] = peer[d]
  BY <1>1
<1>3. PeersGo
  BY <1>2, GoneGoes, OneGoes
<1>4. ASSUME NEW q \in Routes, NEW d \in Conns
      PROVE  route'[q].peer = d <=> (peer'[d].state = "open" /\ peer'[d].route = q)
  <2>1. \A e \in Conns : route[q].peer = e <=> (peer[e].state = "open" /\ peer[e].route = q)
    BY DEF ServiceInv, ReservationsAgree
  <2>2. CASE d = c
    BY <1>1, <1>2, <2>1, <2>2, GoneFits
  <2>3. CASE d # c
    <3>1. CASE q = r
      BY <1>1, <1>2, <2>1, <2>3, <3>1
    <3>2. CASE q # r
      BY <1>2, <2>1, <2>3, <3>2
    <3>3. QED
      BY <3>1, <3>2
  <2>4. QED
    BY <2>2, <2>3
<1>5. Peers' \subseteq Peers
  BY <1>2, GoneFits DEF Peers
<1>6. QED
  BY <1>3, <1>4, <1>5 DEF PeerSide, ReservationsAgree

-----------------------------------------------------------------------------
(* The contexts.                                                                                      *)
OwnedSide == owned' \in OwnedType /\ fdCloses' \in [Routes -> Nat] /\ ContextsFit'

LEMMA OwnedFacts ==
  ASSUME ServiceInv, NEW r \in Routes
  PROVE  /\ owned \in OwnedType /\ fdCloses \in [Routes -> Nat]
         /\ OwnedFits(owned[r], fdCloses[r], route[r].retired)
BY TypeParts DEF ServiceInv, ContextsFit

LEMMA KeptOwned ==
  ASSUME ServiceInv, UNCHANGED <<owned, fdCloses>>,
         \A r \in Routes : route'[r].retired = route[r].retired
  PROVE  OwnedSide
<1>1. owned \in OwnedType /\ fdCloses \in [Routes -> Nat] /\ ContextsFit
  BY TypeParts DEF ServiceInv
<1>2. QED
  BY <1>1 DEF OwnedSide, ContextsFit, OwnedFits

(* __close_owned, whatever of it fails: the descriptor is closed if it was pinned, and never again.   *)
ContextRecords == [state : {"absent", "open", "closed", "released"},
                   scope : {"none", "held", "ambiguous"},
                   processes : {"none", "held"}, session : BOOLEAN]
LEMMA ClosedFits ==
  ASSUME NEW x \in ContextRecords, NEW n \in Nat, NEW killed \in BOOLEAN, NEW unpinned \in BOOLEAN,
         x.scope = "held" => n = 0, n <= 1
  PROVE  /\ Closed(x, killed, unpinned) \in ContextRecords
         /\ n + ClosesFd(x) \in Nat
         /\ \A retired : OwnedFits(Closed(x, killed, unpinned), n + ClosesFd(x), retired)
         /\ Closed(x, killed, unpinned).state \in {"closed", "released"}
         /\ Closed(x, killed, unpinned).session = FALSE
<1>. DEFINE y == Closed(x, killed, unpinned)
            m == n + ClosesFd(x)
<1>1. y \in ContextRecords /\ y.state \in {"closed", "released"} /\ y.session = FALSE
      /\ y.scope # "held"
  BY DEF Closed, ContextRecords
<1>2. m \in Nat /\ m <= 1
  BY DEF ClosesFd
<1>. HIDE DEF y, m
<1>3. ASSUME NEW retired PROVE OwnedFits(y, m, retired)
  BY <1>1, <1>2 DEF OwnedFits
<1>4. QED
  BY <1>1, <1>2, <1>3 DEF y, m

(* One context is closed.                                                                             *)
LEMMA CloseOwned ==
  ASSUME ServiceInv, NEW r \in Routes, NEW x \in ContextRecords,
         NEW killed \in BOOLEAN, NEW unpinned \in BOOLEAN,
         x.scope = "held" => fdCloses[r] = 0,
         owned' = [owned EXCEPT ![r] = Closed(x, killed, unpinned)],
         fdCloses' = [fdCloses EXCEPT ![r] = @ + ClosesFd(x)],
         \A q \in Routes \ {r} : route'[q].retired = route[q].retired
  PROVE  OwnedSide
<1>1. owned \in OwnedType /\ fdCloses \in [Routes -> Nat] /\ fdCloses[r] \in Nat /\ fdCloses[r] <= 1
  BY OwnedFacts DEF OwnedFits
<1>2. /\ Closed(x, killed, unpinned) \in ContextRecords /\ fdCloses[r] + ClosesFd(x) \in Nat
      /\ \A b : OwnedFits(Closed(x, killed, unpinned), fdCloses[r] + ClosesFd(x), b)
  BY <1>1, ClosedFits
<1>3. ASSUME NEW q \in Routes PROVE OwnedFits(owned'[q], fdCloses'[q], route'[q].retired)
  <2>1. CASE q = r
    BY <1>1, <1>2, <2>1 DEF OwnedType
  <2>2. CASE q # r
    <3>1. /\ owned'[q] = owned[q] /\ fdCloses'[q] = fdCloses[q]
          /\ route'[q].retired = route[q].retired
      BY <1>1, <2>2 DEF OwnedType
    <3>2. QED
      BY <3>1, OwnedFacts
  <2>3. QED
    BY <2>1, <2>2
<1>4. owned' \in OwnedType /\ fdCloses' \in [Routes -> Nat]
  BY <1>1, <1>2 DEF OwnedType, ContextRecords
<1>5. QED
  BY <1>3, <1>4 DEF OwnedSide, ContextsFit

LEMMA RetireSide ==
  ASSUME ServiceInv, NEW r \in Routes, NEW killed \in BOOLEAN, NEW unpinned \in BOOLEAN,
         Retire(r, killed, unpinned),
         \A q \in Routes \ {r} : route'[q].retired = route[q].retired
  PROVE  OwnedSide
<1>1. owned[r] \in ContextRecords /\ (owned[r].scope = "held" => fdCloses[r] = 0)
  BY OwnedFacts DEF OwnedType, ContextRecords, OwnedFits
<1>2. /\ owned' = [owned EXCEPT ![r] = Closed(owned[r], killed, unpinned)]
      /\ fdCloses' = [fdCloses EXCEPT ![r] = @ + ClosesFd(owned[r])]
  BY DEF Retire
<1>3. QED
  BY <1>1, <1>2, CloseOwned

(* authority_denied: the route is retired, if it was not, and the peer is refused or cut off.          *)
LEMMA DeniedSide ==
  ASSUME ServiceInv, NEW c \in Conns, peer[c].state = "open", peer[c].route # NoOne,
         AuthorityDenied(c)
  PROVE  PeerSide /\ OwnedSide
<1>. DEFINE r == peer[c].route
<1>0. r \in Routes /\ route \in RouteType
  BY PeerFacts
<1>1. PICK killed \in BOOLEAN, unpinned \in BOOLEAN, removed \in BOOLEAN, tooLarge \in BOOLEAN :
        /\ IF route[r].retired THEN UNCHANGED <<owned, fdCloses, failed>>
           ELSE Retire(r, killed, unpinned)
        /\ LET kept == IF route[r].retired THEN route ELSE RetiredRoute(r, removed)
           IN IF peer[c].sent > 0 \/ tooLarge
              THEN /\ peer' = [peer EXCEPT ![c] = Gone]
                   /\ route' = [kept EXCEPT ![r].peer = NoOne]
                   /\ idle' = IF Peers = {c} THEN FALSE ELSE idle
              ELSE /\ Queue(c, "refusal", 1, TRUE, peer[c].out = "none")
                   /\ route' = kept
                   /\ UNCHANGED idle
  BY DEF AuthorityDenied
<1>. HIDE DEF r
<1>. DEFINE kept == IF route[r].retired THEN route ELSE RetiredRoute(r, removed)
<1>2. /\ kept \in RouteType
      /\ \A q \in Routes : kept[q].peer = route[q].peer
      /\ \A q \in Routes \ {r} : kept[q] = route[q]
      /\ route[r].retired => kept = route
  BY <1>0, RetiredRouteFacts
<1>3. \/ peer' = [peer EXCEPT ![c] = Gone] /\ route' = [kept EXCEPT ![r].peer = NoOne]
      \/ /\ peer[c].sent = 0 /\ Queue(c, "refusal", 1, TRUE, peer[c].out = "none")
         /\ route' = kept
  <2>1. peer[c].sent > 0 \/ peer[c].sent = 0
    BY PeerFacts
  <2>2. QED
    BY <1>1, <2>1
<1>. HIDE DEF kept
<1>4. /\ \A q \in Routes \ {r} : route'[q].retired = route[q].retired
      /\ route[r].retired => route'[r].retired = route[r].retired
  BY ZenonT(40), <1>0, <1>2, <1>3 DEF RouteType
<1>5. OwnedSide
  <2>1. CASE route[r].retired
    <3>1. UNCHANGED <<owned, fdCloses>> /\ \A q \in Routes : route'[q].retired = route[q].retired
      BY <1>1, <1>4, <2>1
    <3>2. QED
      BY <3>1, KeptOwned
  <2>2. CASE ~route[r].retired
    BY <1>0, <1>1, <1>4, <2>2, RetireSide
  <2>3. QED
    BY <2>1, <2>2
<1>6. PeerSide
  <2>1. CASE peer' = [peer EXCEPT ![c] = Gone] /\ route' = [kept EXCEPT ![r].peer = NoOne]
    <3>1. /\ route' \in RouteType /\ route'[r].peer = NoOne
          /\ \A q \in Routes \ {r} : route'[q].peer = route[q].peer
      BY <1>0, <1>2, <2>1 DEF RouteType
    <3>2. QED
      BY <1>0, <2>1, <3>1, CutSide DEF r
  <2>2. CASE /\ peer[c].sent = 0 /\ Queue(c, "refusal", 1, TRUE, peer[c].out = "none")
             /\ route' = kept
    <3>1. 1 \in 1..MaxChunks /\ (peer[c].out = "none") \in BOOLEAN
      BY ServiceAssumption
    <3>2. /\ PeersGo
          /\ \A d \in Conns : peer'[d].state = peer[d].state /\ peer'[d].route = peer[d].route
      BY <2>2, <3>1, QueueSide
    <3>3. QED
      BY <1>2, <2>2, <3>2, SameReservations
  <2>3. QED
    BY <1>3, <2>1, <2>2
<1>7. QED
  BY <1>5, <1>6

-----------------------------------------------------------------------------
(* Action by action.                                                                                  *)
Served == PeerSide /\ OwnedSide /\ RestType' /\ pc' # "ended"

LEMMA RestFacts == ServiceInv => RestType
BY TypeParts DEF ServiceInv

LEMMA SetupStep ==
  ASSUME ServiceInv, Setup
  PROVE  Served
<1>0. RestType /\ route \in RouteType
  BY RestFacts, TypeParts DEF ServiceInv
<1>1. RestType' /\ pc' # "ended"
  <2>1. /\ pc' \in {"contexts", "bind", "publish", "top", "cleanup"}
        /\ socket' \in BOOLEAN /\ failed' \in BOOLEAN
        /\ UNCHANGED <<batch, writing, native, idle, flips>>
    BY <1>0 DEF Setup, SetupFails, OpenContext, OpenContextFails, ContextsOpen, Bind, BindFails,
      Publish, PublishFails, Serve, RestType
  <2>2. QED
    BY <1>0, <2>1 DEF RestType
<1>2. ASSUME NEW r \in Routes, OpenContext(r) PROVE PeerSide /\ OwnedSide
  <2>1. PeerSide
    BY <1>2, KeptSide DEF OpenContext
  <2>2. ASSUME NEW q \in Routes PROVE OwnedFits(owned'[q], fdCloses'[q], route'[q].retired)
    <3>1. OwnedFits(owned[q], fdCloses[q], route[q].retired) /\ owned \in OwnedType
      BY OwnedFacts
    <3>2. CASE q = r
      <4>1. owned[q].state = "absent" /\ UNCHANGED <<route, fdCloses>>
            /\ owned'[q].state = "open"
        BY <1>2, <3>1, <3>2 DEF OpenContext, OwnedType
      <4>2. QED
        BY <3>1, <4>1 DEF OwnedFits
    <3>3. CASE q # r
      BY <1>2, <3>1, <3>3 DEF OpenContext, OwnedType
    <3>4. QED
      BY <3>2, <3>3
  <2>3. owned' \in OwnedType /\ fdCloses' \in [Routes -> Nat]
    BY <1>2, OwnedFacts DEF OpenContext, OwnedType
  <2>4. QED
    BY <2>1, <2>2, <2>3 DEF OwnedSide, ContextsFit
<1>3. ASSUME NEW r \in Routes, NEW pinned \in BOOLEAN, NEW unpinned \in BOOLEAN,
             OpenContextFails(r, pinned, unpinned)
      PROVE  PeerSide /\ OwnedSide
  <2>. DEFINE x == [state |-> "closed", scope |-> IF pinned THEN "held" ELSE "none",
                    processes |-> "none", session |-> TRUE]
  <2>1. PeerSide /\ UNCHANGED route
    BY <1>3, KeptSide DEF OpenContextFails, SetupFails
  <2>2. /\ owned' = [owned EXCEPT ![r] = Closed(x, TRUE, unpinned)]
        /\ fdCloses' = [fdCloses EXCEPT ![r] = @ + ClosesFd(x)]
        /\ owned[r].state = "absent"
    BY <1>3 DEF OpenContextFails
  <2>3. x \in ContextRecords /\ fdCloses[r] = 0
    BY <2>2, OwnedFacts DEF ContextRecords, OwnedFits
  <2>. HIDE DEF x
  <2>4. OwnedSide
    BY <2>1, <2>2, <2>3, CloseOwned
  <2>5. QED
    BY <2>1, <2>4
<1>4. ASSUME NEW r \in Routes, NEW b \in BOOLEAN, route' = [route EXCEPT ![r].credential = b],
             UNCHANGED <<peer, owned, fdCloses>>
      PROVE  PeerSide /\ OwnedSide
  <2>1. /\ route' \in RouteType
        /\ \A q \in Routes : route'[q].peer = route[q].peer /\ route'[q].retired = route[q].retired
    BY <1>0, <1>4 DEF RouteType
  <2>2. PeersGo
    BY <1>4, KeptGoes, TypeParts DEF PeersGo, ServiceInv
  <2>3. QED
    BY <1>4, <2>1, <2>2, SameReservations, KeptOwned
<1>5. ASSUME UNCHANGED <<peer, route, owned, fdCloses>> PROVE PeerSide /\ OwnedSide
  BY <1>5, KeptSide, KeptOwned
<1>6. PeerSide /\ OwnedSide
  <2>1. ASSUME NEW r \in Routes, Publish(r) PROVE PeerSide /\ OwnedSide
    BY <1>4, <2>1 DEF Publish
  <2>2. ASSUME NEW r \in Routes, NEW removed \in BOOLEAN, PublishFails(r, removed)
        PROVE  PeerSide /\ OwnedSide
    BY <1>4, <2>2 DEF PublishFails, SetupFails
  <2>3. CASE ContextsOpen \/ Bind \/ Serve \/ \E bound \in BOOLEAN : BindFails(bound)
    BY <1>5, <2>3 DEF ContextsOpen, Bind, BindFails, SetupFails, Serve
  <2>4. QED
    BY <1>2, <1>3, <2>1, <2>2, <2>3 DEF Setup
<1>7. QED
  BY <1>1, <1>6 DEF Served

(* A readable peer: open, with nothing queued.                                                         *)
LEMMA ReadFacts ==
  ASSUME ServiceInv, NEW c \in Conns, Reads(c)
  PROVE  /\ peer[c].state = "open" /\ peer[c].out = "none" /\ peer[c].sent = 0 /\ pc = "events"
         /\ c \in Peers
BY PeerFacts DEF Reads, Peers, PeerFits

(* What a read or a write leaves of the loop's own variables.                                          *)
LEMMA LoopRest ==
  ASSUME ServiceInv, NEW c \in Conns, pc = "events",
         idle' \in BOOLEAN, failed' \in BOOLEAN, batch' \subseteq batch, writing' \in {c, writing, NoOne},
         UNCHANGED <<pc, native, socket, flips>>
  PROVE  RestType' /\ pc' # "ended"
BY RestFacts DEF RestType

LEMMA ReadRest ==
  ASSUME ServiceInv, NEW c \in Conns, pc = "events", ThenWrite(c),
         idle' \in BOOLEAN, failed' \in BOOLEAN
  PROVE  RestType' /\ pc' # "ended"
<1>1. /\ batch' \subseteq batch /\ writing' \in {c, writing, NoOne}
      /\ UNCHANGED <<pc, native, socket, flips>>
  BY DEF ThenWrite, Handled
<1>2. QED
  BY <1>1, LoopRest

LEMMA Booleans ==
  ASSUME ServiceInv
  PROVE  /\ idle \in BOOLEAN /\ failed \in BOOLEAN
         /\ \A C \in SUBSET Conns : ClosePeers(C) => idle' \in BOOLEAN
         /\ \A c \in Conns : AuthorityDenied(c) => idle' \in BOOLEAN /\ failed' \in BOOLEAN
<1>1. idle \in BOOLEAN /\ failed \in BOOLEAN
  BY RestFacts DEF RestType
<1>2. ASSUME NEW C \in SUBSET Conns, ClosePeers(C) PROVE idle' \in BOOLEAN
  BY <1>1, <1>2 DEF ClosePeers
<1>3. ASSUME NEW c \in Conns, AuthorityDenied(c) PROVE idle' \in BOOLEAN /\ failed' \in BOOLEAN
  BY <1>1, <1>3 DEF AuthorityDenied, Retire
<1>4. QED
  BY <1>1, <1>2, <1>3

LEMMA HelloStep ==
  ASSUME ServiceInv, NEW c \in Conns, NEW r \in Routes, Hello(c, r)
  PROVE  Served
<1>0. /\ Reads(c) /\ peer[c].route = NoOne /\ ~route[r].retired /\ ThenWrite(c)
      /\ peer[c].state = "open" /\ peer[c].out = "none" /\ peer[c].sent = 0 /\ pc = "events"
      /\ peer \in [Conns -> PeerRecords] /\ peer[c] \in PeerRecords /\ route \in RouteType
      /\ 1 \in 0..MaxChunks /\ 0 \in 0..MaxChunks
  BY ReadFacts, PeerFacts, ServiceAssumption DEF Hello
<1>1. CASE route[r].peer # NoOne
  <2>1. ClosePeers({c}) /\ UNCHANGED <<owned, failed, fdCloses>>
    BY <1>1 DEF Hello
  <2>2. PeerSide /\ \A q \in Routes : route'[q].retired = route[q].retired
    BY <2>1, CloseSide
  <2>3. OwnedSide
    BY <2>1, <2>2, KeptOwned
  <2>4. QED
    BY <1>0, <2>1, <2>2, <2>3, ReadRest, Booleans DEF Served
<1>2. CASE route[r].peer = NoOne /\ Status(r)
  <2>. DEFINE x == [peer[c] EXCEPT !.route = r, !.out = "success", !.len = 1, !.sent = 0,
                                   !.closeAfter = FALSE]
  <2>1. /\ peer' = [peer EXCEPT ![c] = x] /\ route' = [route EXCEPT ![r].peer = c]
        /\ UNCHANGED <<owned, idle, failed, fdCloses>>
    BY <1>0, <1>2 DEF Hello
  <2>2. /\ x \in PeerRecords /\ x.state = "open" /\ x.route = r
        /\ x.out = "success" /\ x.len = 1 /\ x.sent = 0
    BY <1>0 DEF PeerRecords
  <2>. HIDE DEF x
  <2>3. Goes(c)
    <3>1. peer'[c] = x
      BY <1>0, <2>1
    <3>2. QED
      BY <1>0, <2>2, <3>1, ServiceAssumption DEF Goes, PeerFits, Mute, Half
  <2>4. /\ route' \in RouteType /\ route'[r].peer = c
        /\ \A q \in Routes : route'[q].retired = route[q].retired
        /\ \A q \in Routes \ {r} : route'[q].peer = route[q].peer
    BY <1>0, <2>1 DEF RouteType
  <2>5. PeerSide
    BY <1>0, <1>2, <2>1, <2>2, <2>3, <2>4, OneGoes, ReserveSide
  <2>6. OwnedSide
    BY <2>1, <2>4, KeptOwned
  <2>7. QED
    BY <1>0, <2>1, <2>5, <2>6, ReadRest, Booleans DEF Served
<1>3. CASE route[r].peer = NoOne /\ ~Status(r)
  <2>. DEFINE x == [peer[c] EXCEPT !.route = r, !.out = "refusal", !.len = 1, !.closeAfter = TRUE]
  <2>1. PICK killed \in BOOLEAN, unpinned \in BOOLEAN, removed \in BOOLEAN :
          /\ Retire(r, killed, unpinned)
          /\ peer' = [peer EXCEPT ![c] = x]
          /\ route' = [RetiredRoute(r, removed) EXCEPT ![r].peer = c]
          /\ UNCHANGED idle
    BY <1>0, <1>3 DEF Hello
  <2>2. /\ x \in PeerRecords /\ x.state = "open" /\ x.route = r
        /\ x.out = "refusal" /\ x.len = 1 /\ x.sent = 0
    BY <1>0 DEF PeerRecords
  <2>. HIDE DEF x
  <2>3. Goes(c)
    <3>1. peer'[c] = x
      BY <1>0, <2>1
    <3>2. QED
      BY <1>0, <2>2, <3>1, ServiceAssumption DEF Goes, PeerFits, Mute, Half
  <2>4. /\ route' \in RouteType /\ route'[r].peer = c
        /\ \A q \in Routes \ {r} : route'[q].retired = route[q].retired
        /\ \A q \in Routes \ {r} : route'[q].peer = route[q].peer
    <3>. DEFINE kept == RetiredRoute(r, removed)
    <3>1. /\ kept \in RouteType /\ \A q \in Routes : kept[q].peer = route[q].peer
          /\ \A q \in Routes \ {r} : kept[q] = route[q]
      BY <1>0, RetiredRouteFacts
    <3>2. route' = [kept EXCEPT ![r].peer = c]
      BY <2>1
    <3>. HIDE DEF kept
    <3>3. QED
      BY <3>1, <3>2 DEF RouteType
  <2>5. PeerSide
    BY <1>0, <1>3, <2>1, <2>2, <2>3, <2>4, OneGoes, ReserveSide
  <2>6. OwnedSide
    BY <2>1, <2>4, RetireSide
  <2>7. failed' \in BOOLEAN /\ idle' \in BOOLEAN
    BY <2>1, Booleans DEF Retire
  <2>8. QED
    BY <1>0, <2>5, <2>6, <2>7, ReadRest DEF Served
<1>4. QED
  BY <1>1, <1>2, <1>3

LEMMA ReadStep ==
  ASSUME ServiceInv, NEW c \in Conns, ReadEvent(c)
  PROVE  Served
<1>0. route \in RouteType
  BY PeerFacts
<1>1. ASSUME ClosePeers({c}), UNCHANGED <<owned, fdCloses>>
      PROVE  PeerSide /\ OwnedSide
  BY <1>1, CloseSide, KeptOwned
<1>2. ASSUME NEW out \in {"success", "refusal"}, NEW n \in 1..MaxChunks, NEW closeAfter \in BOOLEAN,
             Reads(c), Queue(c, out, n, closeAfter, TRUE), out = "success" => peer[c].route # NoOne,
             UNCHANGED <<route, owned, fdCloses>>
      PROVE  PeerSide /\ OwnedSide
  <2>1. peer[c].state = "open" /\ peer[c].sent = 0
    BY <1>2, ReadFacts
  <2>2. /\ PeersGo
        /\ \A d \in Conns : peer'[d].state = peer[d].state /\ peer'[d].route = peer[d].route
    BY <1>2, <2>1, QueueSide
  <2>3. QED
    BY <1>0, <1>2, <2>2, SameReservations, KeptOwned
<1>3. CASE Hangup(c)
  <2>1. /\ ClosePeers({c}) /\ UNCHANGED <<pc, owned, writing, native, socket, failed, flips, fdCloses>>
        /\ batch' \subseteq batch /\ pc = "events"
    BY <1>3 DEF Hangup, Handled
  <2>2. QED
    BY <1>1, <2>1, LoopRest, Booleans DEF Served
<1>4. CASE ReadPart(c)
  <2>1. /\ UNCHANGED <<pc, route, owned, peer, writing, native, socket, idle, failed, flips, fdCloses>>
        /\ batch' \subseteq batch /\ pc = "events"
    BY <1>4 DEF ReadPart, Handled
  <2>2. QED
    BY <2>1, KeptSide, KeptOwned, LoopRest, Booleans DEF Served
<1>5. CASE ReadRefused(c)
  <2>1. /\ Reads(c) /\ ThenWrite(c) /\ UNCHANGED <<owned, failed, fdCloses>> /\ pc = "events"
        /\ \/ Queue(c, "refusal", 1, TRUE, TRUE) /\ UNCHANGED <<route, idle>>
           \/ ClosePeers({c})
    BY <1>5 DEF ReadRefused, Refuse, Reads
  <2>2. PeerSide /\ OwnedSide
    <3>1. CASE Queue(c, "refusal", 1, TRUE, TRUE) /\ UNCHANGED <<route, idle>>
      <4>1. 1 \in 1..MaxChunks
        BY ServiceAssumption
      <4>2. QED
        BY <1>2, <2>1, <3>1, <4>1
    <3>2. CASE ClosePeers({c})
      BY <1>1, <2>1, <3>2
    <3>3. QED
      BY <2>1, <3>1, <3>2
  <2>3. QED
    BY <2>1, <2>2, ReadRest, Booleans DEF Served
<1>6. ASSUME NEW out \in {"success", "refusal"}, NEW n \in 1..MaxChunks, Request(c, out, n)
      PROVE  Served
  <2>1. /\ Reads(c) /\ ThenWrite(c) /\ UNCHANGED <<route, owned, idle, failed, fdCloses>>
        /\ pc = "events" /\ Queue(c, out, n, FALSE, TRUE) /\ peer[c].route # NoOne
    BY <1>6 DEF Request, Reads
  <2>2. PeerSide /\ OwnedSide
    BY <1>2, <2>1
  <2>3. QED
    BY <2>1, <2>2, ReadRest, Booleans DEF Served
<1>7. CASE RequestDenied(c)
  <2>1. /\ Reads(c) /\ ThenWrite(c) /\ AuthorityDenied(c) /\ peer[c].route # NoOne
        /\ pc = "events" /\ peer[c].state = "open"
    BY <1>7, ReadFacts DEF RequestDenied
  <2>2. PeerSide /\ OwnedSide
    BY <2>1, DeniedSide
  <2>3. QED
    BY <2>1, <2>2, ReadRest, Booleans DEF Served
<1>8. QED
  BY <1>3, <1>4, <1>5, <1>6, <1>7, HelloStep DEF ReadEvent

LEMMA WriteStep ==
  ASSUME ServiceInv, NEW c \in Conns, WriteEvent(c)
  PROVE  Served
<1>0. /\ route \in RouteType /\ peer \in [Conns -> PeerRecords] /\ peer[c] \in PeerRecords
      /\ PeerFits(peer[c]) /\ peer[c].sent \in Nat /\ peer[c].len \in Nat /\ peer[c].len <= MaxChunks
      /\ peer[c].route \in Routes \union {NoOne}
  BY PeerFacts
<1>1. /\ Writes(c) /\ Wrote(c) /\ pc = "events" /\ peer[c].state = "open" /\ peer[c].out # "none"
  BY DEF WriteEvent, WriteDenied, WriteChunk, WriteFails, WriteBlocks, Writes
<1>2. ASSUME idle' \in BOOLEAN, failed' \in BOOLEAN PROVE RestType' /\ pc' # "ended"
  <2>1. /\ batch' \subseteq batch /\ writing' = NoOne /\ UNCHANGED <<pc, native, socket, flips>>
    BY <1>1 DEF Wrote
  <2>2. QED
    BY <1>1, <1>2, <2>1, LoopRest
<1>3. CASE WriteDenied(c)
  <2>1. AuthorityDenied(c) /\ peer[c].route # NoOne
    BY <1>0, <1>3 DEF WriteDenied, PeerFits
  <2>2. QED
    BY <1>1, <1>2, <2>1, DeniedSide, Booleans DEF Served
<1>4. ASSUME ClosePeers({c}), UNCHANGED <<owned, failed, fdCloses>> PROVE Served
  BY <1>2, <1>4, CloseSide, KeptOwned, Booleans DEF Served
<1>5. CASE WriteChunk(c)
  <2>0. peer[c].out = "success" => ~route[peer[c].route].retired
    <3>. SUFFICES ASSUME peer[c].out = "success" PROVE ~route[peer[c].route].retired
      OBVIOUS
    <3>1. peer[c].route \in Routes /\ owned[peer[c].route].state = "open"
      BY <1>0, <1>5 DEF WriteChunk, Status, PeerFits
    <3>2. QED
      BY <3>1, OwnedFacts DEF OwnedFits
  <2>1. CASE peer[c].sent + 1 < peer[c].len
    <3>. DEFINE x == [peer[c] EXCEPT !.sent = peer[c].sent + 1]
    <3>1. peer' = [peer EXCEPT ![c] = x] /\ UNCHANGED <<route, idle, owned, failed, fdCloses>>
      BY <1>0, <1>5, <2>1 DEF WriteChunk
    <3>2. peer[c].sent + 1 \in 0..MaxChunks
      BY <1>0, <2>1, ServiceAssumption
    <3>3. /\ x \in PeerRecords /\ x.state = peer[c].state /\ x.route = peer[c].route
          /\ x.out = peer[c].out /\ x.len = peer[c].len /\ x.sent = peer[c].sent + 1
      BY <1>0, <3>2 DEF PeerRecords
    <3>. HIDE DEF x
    <3>4. peer'[c] = x /\ \A d \in Conns \ {c} : peer'[d] = peer[d]
      BY <1>0, <3>1
    <3>5. Goes(c)
      BY <1>0, <1>1, <2>0, <2>1, <3>3, <3>4 DEF Goes, PeerFits, Mute, Half
    <3>6. PeerSide
      BY <1>0, <3>1, <3>3, <3>4, <3>5, OneGoes, SameReservations
    <3>7. QED
      BY <1>2, <3>1, <3>6, KeptOwned, Booleans DEF Served
  <2>2. CASE ~(peer[c].sent + 1 < peer[c].len) /\ peer[c].closeAfter
    BY <1>4, <1>5, <2>2 DEF WriteChunk
  <2>3. CASE ~(peer[c].sent + 1 < peer[c].len) /\ ~peer[c].closeAfter
    <3>. DEFINE x == [peer[c] EXCEPT !.out = "none", !.sent = 0, !.len = 0, !.late = FALSE]
    <3>1. peer' = [peer EXCEPT ![c] = x] /\ UNCHANGED <<route, idle, owned, failed, fdCloses>>
      BY <1>0, <1>5, <2>3 DEF WriteChunk
    <3>2. 0 \in 0..MaxChunks
      BY ServiceAssumption
    <3>3. /\ x \in PeerRecords /\ x.state = peer[c].state /\ x.route = peer[c].route
          /\ x.out = "none" /\ x.sent = 0
      BY <1>0, <3>2 DEF PeerRecords
    <3>. HIDE DEF x
    <3>4. peer'[c] = x /\ \A d \in Conns \ {c} : peer'[d] = peer[d]
      BY <1>0, <3>1
    <3>5. peer[c].sent + 1 = peer[c].len
      BY <1>0, <1>1, <2>3 DEF PeerFits
    <3>6. Goes(c)
      BY <1>0, <1>1, <2>0, <3>3, <3>4, <3>5 DEF Goes, PeerFits, Mute, Half
    <3>7. PeerSide
      BY <1>0, <3>1, <3>3, <3>4, <3>6, OneGoes, SameReservations
    <3>8. QED
      BY <1>2, <3>1, <3>7, KeptOwned, Booleans DEF Served
  <2>4. QED
    BY <2>1, <2>2, <2>3
<1>6. CASE WriteFails(c)
  BY <1>4, <1>6 DEF WriteFails
<1>7. CASE WriteBlocks(c)
  BY <1>2, <1>7, KeptSide, KeptOwned, Booleans DEF Served, WriteBlocks
<1>8. QED
  BY <1>3, <1>5, <1>6, <1>7 DEF WriteEvent

(* accept: the only step that adds a connection.                                                       *)
LEMMA AcceptStep ==
  ASSUME ServiceInv, NEW c \in Conns, Accept(c) \/ AcceptFails(c)
  PROVE  /\ PeersGo /\ route' \in RouteType /\ ReservationsAgree' /\ PeersBounded'
         /\ OwnedSide /\ RestType' /\ pc' # "ended"
<1>0. /\ peer \in [Conns -> PeerRecords] /\ route \in RouteType /\ peer[c].state = "new"
      /\ peer[c].out = "none" /\ peer[c].sent = 0 /\ NoOne \notin Conns \union Routes
      /\ UNCHANGED <<route, owned, fdCloses>>
  BY PeerFacts, ServiceAssumption DEF PeerFits, Accept, AcceptFails
<1>1. \E x \in {Gone, Fresh} : peer' = [peer EXCEPT ![c] = x]
  BY DEF Accept, AcceptFails
<1>2. /\ Fresh \in PeerRecords /\ PeerFits(Fresh) /\ Fresh.route = NoOne /\ Fresh.state = "open"
  <2>1. Gone.out = "none" /\ Gone.sent = 0
    BY DEF Gone
  <2>2. QED
    BY <2>1, GoneFits DEF Fresh, PeerRecords, PeerFits
<1>3. PICK x : /\ peer' = [peer EXCEPT ![c] = x] /\ x \in PeerRecords /\ PeerFits(x)
               /\ x.route = NoOne
  BY <1>1, <1>2, GoneFits
<1>4. peer'[c] = x /\ \A d \in Conns \ {c} : peer'[d] = peer[d]
  BY <1>0, <1>3
<1>5. PeersGo
  <2>1. Goes(c)
    BY <1>0, <1>3, <1>4 DEF Goes, Mute, Half
  <2>2. QED
    BY <1>3, <2>1, OneGoes
<1>6. ASSUME NEW q \in Routes, NEW d \in Conns
      PROVE  route'[q].peer = d <=> (peer'[d].state = "open" /\ peer'[d].route = q)
  <2>1. route[q].peer = d <=> (peer[d].state = "open" /\ peer[d].route = q)
    BY DEF ServiceInv, ReservationsAgree
  <2>2. QED
    BY <1>0, <1>3, <1>4, <2>1
<1>7. PeersBounded'
  <2>0. /\ IsFiniteSet(Peers) /\ Cardinality(Peers) \in Nat /\ Cardinality(Peers) <= MaxPeers
    <3>1. Peers \subseteq Conns
      BY DEF Peers
    <3>2. QED
      BY <3>1, FS_Subset, FS_CardinalityType, ServiceAssumption DEF ServiceInv, PeersBounded
  <2>1. CASE x.state # "open"
    <3>1. Peers' = Peers
      BY <1>0, <1>4, <2>1 DEF Peers
    <3>2. QED
      BY <2>0, <3>1 DEF PeersBounded
  <2>2. CASE x.state = "open"
    <3>1. Peers' = Peers \union {c} /\ c \notin Peers
      BY <1>0, <1>4, <2>2 DEF Peers
    <3>2. ~(Cardinality(Peers) >= MaxPeers)
      <4>1. peer' # [peer EXCEPT ![c] = Gone]
        BY <1>0, <1>4, <2>2, GoneFits
      <4>2. QED
        BY <4>1 DEF Accept, AcceptFails
    <3>3. Cardinality(Peers \union {c}) = Cardinality(Peers) + 1
      BY <2>0, <3>1, FS_AddElement
    <3>4. QED
      BY <2>0, <3>1, <3>2, <3>3, ServiceAssumption DEF PeersBounded
  <2>3. QED
    BY <2>1, <2>2
<1>8. OwnedSide
  BY <1>0, KeptOwned
<1>9. RestType' /\ pc' # "ended"
  <2>1. /\ batch' \subseteq batch /\ idle' \in BOOLEAN /\ failed' \in BOOLEAN
        /\ pc' \in {"events", "cleanup"} /\ UNCHANGED <<writing, native, socket, flips>>
    BY Booleans DEF Accept, AcceptFails, Handled
  <2>2. QED
    BY <2>1, RestFacts DEF RestType
<1>10. QED
  BY <1>0, <1>5, <1>6, <1>7, <1>8, <1>9 DEF ReservationsAgree

(* The loop around the events, the clocks and the other processes.                                      *)
LEMMA AroundStep ==
  ASSUME ServiceInv,
         \/ \E ready \in SUBSET Peers : Turn(ready)
         \/ EndTurn \/ AcceptNothing \/ Stop \/ IdleDeadline \/ ClosePeerFails
         \/ \E r \in Routes : Grant(r)
         \/ \E c \in Conns : PeerDeadline(c)
  PROVE  Served
<1>0. RestType /\ route \in RouteType
  BY RestFacts, TypeParts DEF ServiceInv
<1>1. ASSUME NEW ready \in SUBSET Peers, Turn(ready) PROVE Served
  <2>1. Expired \subseteq Conns /\ ready \subseteq Conns
    BY DEF Expired, Peers
  <2>2. /\ ClosePeers(Expired) /\ UNCHANGED <<owned, fdCloses, writing, native, socket, failed, flips>>
        /\ pc' \in {"events", "cleanup"} /\ batch' \subseteq Conns \union {Listener}
    BY <1>1, <2>1 DEF Turn
  <2>3. PeerSide /\ OwnedSide
    BY <2>1, <2>2, CloseSide, KeptOwned
  <2>4. idle' \in BOOLEAN
    BY <2>1, <2>2, Booleans
  <2>5. RestType' /\ pc' # "ended"
    BY <1>0, <2>2, <2>4 DEF RestType
  <2>6. QED
    BY <2>3, <2>5 DEF Served
<1>2. CASE EndTurn \/ AcceptNothing \/ Stop \/ IdleDeadline \/ \E r \in Routes : Grant(r)
  <2>1. UNCHANGED <<peer, route, owned, fdCloses>>
    BY <1>2 DEF EndTurn, AcceptNothing, Stop, IdleDeadline, Grant
  <2>2. PeerSide /\ OwnedSide
    BY <2>1, KeptSide, KeptOwned
  <2>3. CASE EndTurn \/ AcceptNothing \/ Stop \/ IdleDeadline
    <3>1. /\ pc' \in {"top", "events", "cleanup"} /\ batch' \subseteq batch /\ idle' \in BOOLEAN
          /\ UNCHANGED <<writing, native, socket, failed, flips>>
      BY <2>3, Booleans DEF EndTurn, AcceptNothing, Stop, IdleDeadline, Handled
    <3>2. RestType' /\ pc' # "ended"
      BY <1>0, <3>1 DEF RestType
    <3>3. QED
      BY <2>2, <3>2 DEF Served
  <2>4. ASSUME NEW r \in Routes, Grant(r) PROVE Served
    <3>1. native' \in [Routes -> BOOLEAN]
      BY <1>0, <2>4 DEF Grant, RestType
    <3>2. flips' \in 0..MaxFlips
      BY <1>0, <2>4, ServiceAssumption DEF Grant, RestType
    <3>3. UNCHANGED <<pc, batch, writing, socket, idle, failed>> /\ pc # "ended"
      BY <2>4 DEF Grant
    <3>4. RestType' /\ pc' # "ended"
      BY <1>0, <3>1, <3>2, <3>3 DEF RestType
    <3>5. QED
      BY <2>2, <3>4 DEF Served
  <2>5. QED
    BY <1>2, <2>3, <2>4
<1>3. ASSUME NEW c \in Conns, PeerDeadline(c) PROVE Served
  <2>. DEFINE x == [peer[c] EXCEPT !.late = TRUE]
  <2>0. peer \in [Conns -> PeerRecords] /\ peer[c] \in PeerRecords /\ PeerFits(peer[c])
        /\ peer[c].sent \in Nat
    BY PeerFacts
  <2>1. /\ peer' = [peer EXCEPT ![c] = x] /\ pc \in {"top", "events"}
        /\ UNCHANGED <<pc, route, owned, batch, writing, native, socket, idle, failed, flips, fdCloses>>
    BY <1>3, <2>0 DEF PeerDeadline
  <2>2. /\ x \in PeerRecords /\ x.state = peer[c].state /\ x.route = peer[c].route
        /\ x.out = peer[c].out /\ x.len = peer[c].len /\ x.sent = peer[c].sent
    BY <2>0 DEF PeerRecords
  <2>. HIDE DEF x
  <2>3. peer'[c] = x /\ \A d \in Conns \ {c} : peer'[d] = peer[d]
    BY <2>0, <2>1
  <2>4. Goes(c)
    BY <2>0, <2>2, <2>3 DEF Goes, PeerFits, Mute, Half
  <2>5. PeerSide
    BY <1>0, <2>1, <2>2, <2>3, <2>4, OneGoes, SameReservations
  <2>6. RestType' /\ pc' # "ended"
    BY <1>0, <2>1 DEF RestType
  <2>7. QED
    BY <2>1, <2>5, <2>6, KeptOwned DEF Served
<1>4. CASE ClosePeerFails
  <2>1. /\ UNCHANGED <<peer, route, owned, fdCloses>>
        /\ UNCHANGED <<pc, batch, writing, native, socket, idle, flips>>
        /\ failed' = TRUE /\ pc # "ended"
    BY <1>4 DEF ClosePeerFails
  <2>2. PeerSide /\ OwnedSide
    BY <2>1, KeptSide, KeptOwned
  <2>3. RestType' /\ pc' # "ended"
    BY <1>0, <2>1 DEF RestType
  <2>4. QED
    BY <2>2, <2>3 DEF Served
<1>5. QED
  BY <1>1, <1>2, <1>3, <1>4

(* The finally block.                                                                                    *)
LEMMA FinishStep ==
  ASSUME ServiceInv, Finish
  PROVE  PeerSide /\ OwnedSide /\ RestType' /\ CleanExit'
<1>0. /\ RestType /\ route \in RouteType /\ owned \in OwnedType /\ fdCloses \in [Routes -> Nat]
      /\ peer \in [Conns -> PeerRecords] /\ NoOne \notin Conns
  BY RestFacts, TypeParts, ServiceAssumption DEF ServiceInv
<1>1. PICK K \in SUBSET Routes, U \in SUBSET Routes, R \in SUBSET Routes, unlinked \in BOOLEAN :
        Cleanup(K, U, R, unlinked)
  BY DEF Finish
<1>2. \A c \in Conns : peer'[c] = (IF c \in Peers THEN Gone ELSE peer[c])
  BY <1>1 DEF Cleanup
<1>3. \A c \in Conns : peer'[c].state # "open"
  BY <1>2, GoneFits DEF Peers
<1>4. PeersGo
  <2>1. ASSUME NEW c \in Conns PROVE Goes(c)
    BY <1>2, GoneGoes, KeptGoes
  <2>2. peer' \in [Conns -> PeerRecords]
    BY <1>1, <2>1 DEF Cleanup, Goes
  <2>3. QED
    BY <2>1, <2>2 DEF PeersGo
<1>5. ASSUME NEW r \in Routes
      PROVE  /\ route'[r] \in [retired : BOOLEAN, peer : Conns \union {NoOne}, credential : BOOLEAN]
             /\ route'[r].peer = NoOne /\ route'[r].retired = route[r].retired
  <2>. DEFINE kept == route[r].credential /\ r \notin R
  <2>1. kept \in BOOLEAN
    OBVIOUS
  <2>2. route'[r] = [route[r] EXCEPT !.peer = NoOne, !.credential = kept]
    BY <1>1 DEF Cleanup
  <2>. HIDE DEF kept
  <2>3. QED
    BY ZenonT(40), <1>0, <2>1, <2>2 DEF RouteType
<1>6. route' \in RouteType
  BY <1>1, <1>5 DEF Cleanup, RouteType
<1>7. PeerSide
  BY <1>0, <1>3, <1>4, <1>5, <1>6 DEF PeerSide, ReservationsAgree, Peers
<1>8. ASSUME NEW r \in Routes
      PROVE  /\ owned'[r] \in ContextRecords /\ fdCloses'[r] \in Nat
             /\ OwnedFits(owned'[r], fdCloses'[r], route'[r].retired)
             /\ owned'[r].state # "open"
  <2>0. /\ owned[r] \in ContextRecords /\ fdCloses[r] \in Nat
        /\ OwnedFits(owned[r], fdCloses[r], route[r].retired)
        /\ fdCloses'[r] = fdCloses[r] + ClosesFd(owned[r])
    BY <1>0, <1>1, OwnedFacts DEF OwnedType, ContextRecords, Cleanup
  <2>1. CASE owned[r].state \in {"open", "closed"}
    <3>. DEFINE killed == r \in K
                unpinned == r \in U
    <3>1. owned'[r] = Closed(owned[r], killed, unpinned)
      BY <1>1, <2>1 DEF Cleanup
    <3>2. killed \in BOOLEAN /\ unpinned \in BOOLEAN
      OBVIOUS
    <3>. HIDE DEF killed, unpinned
    <3>3. (owned[r].scope = "held" => fdCloses[r] = 0) /\ fdCloses[r] <= 1
      BY <2>0 DEF OwnedFits
    <3>4. /\ Closed(owned[r], killed, unpinned) \in ContextRecords
          /\ fdCloses[r] + ClosesFd(owned[r]) \in Nat
          /\ \A retired : OwnedFits(Closed(owned[r], killed, unpinned),
                                   fdCloses[r] + ClosesFd(owned[r]), retired)
          /\ Closed(owned[r], killed, unpinned).state \in {"closed", "released"}
      BY <2>0, <3>2, <3>3, ClosedFits
    <3>5. QED
      BY <2>0, <3>1, <3>4
  <2>2. CASE owned[r].state \notin {"open", "closed"}
    <3>1. owned'[r] = owned[r] /\ owned[r].scope # "held"
      BY <1>1, <2>0, <2>2 DEF Cleanup, OwnedFits
    <3>2. fdCloses'[r] = fdCloses[r]
      BY <2>0, <3>1 DEF ClosesFd
    <3>3. QED
      BY <1>5, <2>0, <2>2, <3>1, <3>2
  <2>3. QED
    BY <2>1, <2>2
<1>9. OwnedSide
  <2>1. owned' \in OwnedType /\ fdCloses' \in [Routes -> Nat]
    BY <1>1, <1>8 DEF Cleanup, OwnedType, ContextRecords
  <2>2. QED
    BY <1>8, <2>1 DEF OwnedSide, ContextsFit
<1>10. RestType'
  <2>1. socket' \in BOOLEAN /\ failed' \in BOOLEAN
    BY <1>1 DEF Cleanup
  <2>2. /\ pc' = "ended" /\ batch' = {} /\ writing' = NoOne /\ UNCHANGED <<native, idle, flips>>
    BY <1>1 DEF Cleanup
  <2>3. QED
    BY <1>0, <2>1, <2>2 DEF RestType
<1>11. CleanExit'
  <2>. SUFFICES ASSUME ~failed'
                PROVE  /\ ~socket' /\ Peers' = {}
                       /\ \A r \in Routes : /\ ~route'[r].credential
                                            /\ owned'[r].state \in {"absent", "released"}
                                            /\ ~owned'[r].session
    BY SMTT(30) DEF CleanExit
  <2>1. ~socket' /\ \A r \in Routes : owned'[r].state # "closed" /\ ~route'[r].credential
    BY <1>1 DEF Cleanup
  <2>2. Peers' = {}
    BY <1>3 DEF Peers
  <2>3. ASSUME NEW r \in Routes
        PROVE  owned'[r].state \in {"absent", "released"} /\ ~owned'[r].session
    BY <1>8, <2>1 DEF ContextRecords, OwnedFits
  <2>4. QED
    BY <2>1, <2>2, <2>3
<1>12. QED
  BY <1>7, <1>9, <1>10, <1>11

-----------------------------------------------------------------------------
LEMMA PeersStay ==
  ASSUME ServiceInv, Peers' \subseteq Peers
  PROVE  PeersBounded'
<1>1. Peers \subseteq Conns
  BY DEF Peers
<1>2. IsFiniteSet(Peers) /\ Cardinality(Peers) \in Nat
  BY <1>1, FS_Subset, FS_CardinalityType, ServiceAssumption
<1>3. Cardinality(Peers') <= Cardinality(Peers) /\ Cardinality(Peers') \in Nat
  BY <1>2, FS_Subset, FS_CardinalityType
<1>4. QED
  BY <1>2, <1>3, ServiceAssumption DEF ServiceInv, PeersBounded

LEMMA InvStep ==
  ASSUME ServiceInv, ServiceNext
  PROVE  ServiceInv' /\ PeersGo
<1>1. ASSUME PeersGo, route' \in RouteType, ReservationsAgree', PeersBounded', OwnedSide, RestType',
             CleanExit'
      PROVE  ServiceInv' /\ PeersGo
  <2>1. ServiceTypeOK'
    BY <1>1 DEF PeersGo, OwnedSide, ServiceTypeOK, RestType, RouteType, OwnedType
  <2>2. PeersFit'
    BY <1>1 DEF PeersGo, Goes, PeersFit
  <2>3. QED
    BY <1>1, <2>1, <2>2 DEF ServiceInv, OwnedSide
<1>2. ASSUME Served PROVE ServiceInv' /\ PeersGo
  <2>1. CleanExit'
    BY <1>2 DEF Served, CleanExit
  <2>2. QED
    BY <1>1, <1>2, <2>1, PeersStay DEF Served, PeerSide
<1>3. ASSUME NEW c \in Conns, Accept(c) \/ AcceptFails(c) PROVE ServiceInv' /\ PeersGo
  <2>1. /\ PeersGo /\ route' \in RouteType /\ ReservationsAgree' /\ PeersBounded'
        /\ OwnedSide /\ RestType' /\ pc' # "ended"
    BY <1>3, AcceptStep
  <2>2. CleanExit'
    BY <2>1 DEF CleanExit
  <2>3. QED
    BY <1>1, <2>1, <2>2
<1>4. CASE Finish
  BY <1>1, <1>4, FinishStep, PeersStay DEF PeerSide
<1>5. CASE Setup
  BY <1>2, <1>5, SetupStep
<1>6. ASSUME NEW c \in Conns, ReadEvent(c) \/ WriteEvent(c) PROVE ServiceInv' /\ PeersGo
  BY <1>2, <1>6, ReadStep, WriteStep
<1>7. CASE \/ \E ready \in SUBSET Peers : Turn(ready)
           \/ EndTurn \/ AcceptNothing \/ Stop \/ Clock \/ ClosePeerFails
           \/ \E r \in Routes : Grant(r)
  BY <1>2, <1>7, AroundStep DEF Clock
<1>8. QED
  BY <1>3, <1>4, <1>5, <1>6, <1>7 DEF ServiceNext, Loop

LEMMA InvHolds == ServiceSpec => []ServiceInv
<1>1. ServiceInv /\ [ServiceNext]_serviceVars => ServiceInv'
  <2>. SUFFICES ASSUME ServiceInv, [ServiceNext]_serviceVars PROVE ServiceInv'
    OBVIOUS
  <2>1. CASE UNCHANGED serviceVars
    BY <2>1 DEF serviceVars, ServiceInv, ServiceTypeOK, PeersFit, ContextsFit, ReservationsAgree, PeersBounded,
      CleanExit, Peers
  <2>2. QED
    BY <2>1, InvStep
<1>2. QED
  BY <1>1, InvInit, PTL DEF ServiceSpec

(* Wherever dispatch, retire, close_peer, accept and the deadlines have been, a route and its peer    *)
(* name each other and at most _MAX_PEERS connections are held: no closed connection keeps a run       *)
(* reserved, for any number of routes and connections.                                                 *)
THEOREM PeersAccountedForHolds == ServiceSpec => []PeersAccountedFor
<1>1. ServiceInv => PeersAccountedFor
  BY DEF ServiceInv, PeersAccountedFor
<1>2. QED
  BY <1>1, InvHolds, PTL

(* Whichever close, unlink or admission fails and whenever a stop arrives, a pinned descriptor is       *)
(* closed at most once, and a service that reports success left nothing behind.                         *)
THEOREM ReleasedOnceHolds == ServiceSpec => []ReleasedOnce
<1>1. ServiceInv => ReleasedOnce
  BY DEF ServiceInv, ReleasedOnce, ContextsFit, OwnedFits, DescriptorClosedOnce
<1>2. QED
  BY <1>1, InvHolds, PTL

(* A retired route lets no further chunk of a success out, even when the ledger grants its run again   *)
(* (write() looks at the context alone), and half a frame on the wire is followed by its rest or by     *)
(* the end of the connection, however long the response.                                                *)
THEOREM NoStrayAnswersHolds == ServiceSpec => NoStrayAnswers
<1>1. ServiceInv /\ [ServiceNext]_serviceVars => [RetiredRouteMute /\ HalfFrameNotAnswered]_serviceVars
  <2>. SUFFICES ASSUME ServiceInv, ServiceNext PROVE RetiredRouteMute /\ HalfFrameNotAnswered
    OBVIOUS
  <2>1. \A c \in Conns : Mute(c) /\ Half(c)
    BY InvStep DEF PeersGo, Goes
  <2>2. QED
    BY <2>1 DEF Mute, Half, RetiredRouteMute, HalfFrameNotAnswered
<1>2. QED
  BY <1>1, InvHolds, PTL DEF ServiceSpec, NoStrayAnswers
=============================================================================

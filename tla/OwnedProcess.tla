----------------------------- MODULE OwnedProcess -----------------------------
(***************************************************************************)
(* Owned child processes: LocalOwnedProcessOperations and its supervisor   *)
(* threads (src/orch/bridge_process.py) over the process rows of the       *)
(* ledger (src/orch/bridge_process_store.py).                              *)
(*                                                                         *)
(* A worker of a run starts a process under a start operation, polls it    *)
(* and terminates it.  The dispatch row is committed before the process    *)
(* is spawned and the exit row only after it was reaped and its output     *)
(* reached end of file.  One owner per run holds the children in memory;   *)
(* it can crash, lose its authority or be closed while children run, and   *)
(* another command can hold the runtime lock.  Output bytes, cursors and   *)
(* clocks are abstracted: a deadline or a grace period may be over at any  *)
(* time.                                                                   *)
(***************************************************************************)
EXTENDS Naturals, FiniteSets

CONSTANTS
    Runs,        \* runs with a process owner
    Ops,         \* start operations; an operation also names its handle
    RunOf,       \* RunOf[op]: the run op is bound to
    Ids,         \* operation ids of poll and terminate requests
    MaxCache,    \* _MAX_CACHE: outcomes an owner keeps
    MaxPerRun,   \* max_processes_per_run
    MaxTotal,    \* max_processes_total
    MaxCrashes   \* bound: owner crashes

ASSUME ProcessAssumption ==
    /\ RunOf \in [Ops -> Runs]
    /\ Ops \cap Ids = {}
    /\ MaxCache \in Nat /\ MaxPerRun \in Nat /\ MaxTotal \in Nat /\ MaxCrashes \in Nat

None == "none"
Other == "other command"
ASSUME NamesAssumption == {None, Other} \cap (Runs \cup Ops \cup Ids) = {}

Stops == {"terminated", "deadline", "owner_cleanup"}
Reasons == Stops \cup {"exited"}
Signals == {None, "term", "kill"}

\* _OwnedChild: watch is where its supervisor is (drain the pipe and watch the
\* process, record the exit, or gone).
ChildStates ==
    [watch : {None, "watching", "recording", "gone"}, stop : Stops \cup {None},
     signal : Signals, reason : Reasons \cup {None}, eof : BOOLEAN,
     settled : BOOLEAN, unknown : BOOLEAN, attempted : BOOLEAN, recorded : BOOLEAN,
     terminateReserved : BOOLEAN, terminalReserved : BOOLEAN]
NoChild == [watch |-> None, stop |-> None, signal |-> None, reason |-> None,
            eof |-> FALSE, settled |-> FALSE, unknown |-> FALSE, attempted |-> FALSE,
            recorded |-> FALSE, terminateReserved |-> FALSE, terminalReserved |-> FALSE]
NewChild == [NoChild EXCEPT !.watch = "watching", !.terminateReserved = TRUE,
                            !.terminalReserved = TRUE]

VARIABLES
    runOpen,     \* runOpen[r]: the run is RUNNING, its task IN_PROGRESS
    authority,   \* authority[r]: session, capability and project still admit r
    dispatched,  \* operations with a PROCESS_DISPATCH_INTENT row
    exitRow,     \* exitRow[op]: the reason in its PROCESS_EXIT_OBSERVED row
    os,          \* os[op]: what the operating system knows of op's process
    spawned,     \* spawned[op]: processes created for op
    child,       \* child[op]: the retained Popen of op's owner
    cache,       \* cache[r]: operation ids whose outcome the owner keeps
    starting,    \* starting[r]: operation dispatched but not yet spawned
    lock,        \* holder of runtime_operation_lock
    closed,      \* closed[r]: the owner was closed
    told,        \* told[op]: process states replied to the worker
    crashes

ledger == <<runOpen, dispatched, exitRow>>
vars == <<runOpen, authority, dispatched, exitRow, os, spawned, child, cache, starting,
          lock, closed, told, crashes>>

TypeOK ==
    /\ runOpen \in [Runs -> BOOLEAN]
    /\ authority \in [Runs -> BOOLEAN]
    /\ dispatched \subseteq Ops
    /\ exitRow \in [Ops -> Reasons \cup {None}]
    /\ os \in [Ops -> {None, "running", "exited"}]
    /\ spawned \in [Ops -> 0..2]
    /\ child \in [Ops -> ChildStates]
    /\ cache \in [Runs -> SUBSET (Ops \cup Ids)]
    /\ starting \in [Runs -> Ops \cup {None}]
    /\ lock \in Runs \cup {None, Other}
    /\ closed \in [Runs -> BOOLEAN]
    /\ told \in [Ops -> {None, "RUNNING", "EXITED", "UNKNOWN"}]
    /\ crashes \in 0..MaxCrashes

Init ==
    /\ runOpen = [r \in Runs |-> TRUE]
    /\ authority = [r \in Runs |-> TRUE]
    /\ dispatched = {}
    /\ exitRow = [op \in Ops |-> None]
    /\ os = [op \in Ops |-> None]
    /\ spawned = [op \in Ops |-> 0]
    /\ child = [op \in Ops |-> NoChild]
    /\ cache = [r \in Runs |-> {}]
    /\ starting = [r \in Runs |-> None]
    /\ lock = None
    /\ closed = [r \in Runs |-> FALSE]
    /\ told = [op \in Ops |-> None]
    /\ crashes = 0

-----------------------------------------------------------------------------
OpsOf(r) == {op \in Ops : RunOf[op] = r}
Retained(r) == {op \in OpsOf(r) : child[op].watch # None}
\* Faulty variant: only processes an owner still retains are looked at.
UnresolvedRetained == {op \in dispatched : exitRow[op] = None /\ child[op].watch # None}

Unresolved == {op \in dispatched : exitRow[op] = None}

\* _live: the owner may act for the worker.
Live(r) == authority[r] /\ runOpen[r] /\ ~closed[r]

\* _occupied: kept outcomes and the replies reserved for retained children.
Occupied(r) ==
    Cardinality(cache[r])
    + Cardinality({op \in OpsOf(r) : child[op].terminateReserved})
    + Cardinality({op \in OpsOf(r) : child[op].terminalReserved})

Keep(r, id) == [cache EXCEPT ![r] = @ \cup {id}]

\* stop: a reason to stop, unless the child settled or another came first.
Stopped(ch, reason) ==
    IF ch.watch # None /\ ~ch.settled /\ ch.stop = None
    THEN [ch EXCEPT !.stop = reason] ELSE ch

\* _cleanup_requests
CleanedUp(r) ==
    [op \in Ops |-> IF RunOf[op] = r THEN Stopped(child[op], "owner_cleanup")
                                     ELSE child[op]]

-----------------------------------------------------------------------------
(***************************************************************************)
(* start.  The call holds the owner's lock and the runtime lock throughout; *)
(* the dispatch commits first, authority is checked once more, and then    *)
(* the process is spawned.                                                 *)
(***************************************************************************)

\* What a fresh start operation passes before it reaches the store.
Admitted(r, op) ==
    /\ RunOf[op] = r
    /\ lock = None /\ Live(r)
    /\ op \notin cache[r]
    /\ Occupied(r) + 3 <= MaxCache

\* ProcessOperationStore.dispatch: the limits, over durable unresolved rows.
HasCapacity(r) ==
    /\ Cardinality(Unresolved \cap OpsOf(r)) < MaxPerRun
    /\ Cardinality(Unresolved) < MaxTotal

\* Faulty variant: the durable row is not consulted, only the owner's cache.
DispatchCached(r, op) ==
    /\ Admitted(r, op)
    /\ HasCapacity(r)
    /\ dispatched' = dispatched \cup {op}
    /\ starting' = [starting EXCEPT ![r] = op]
    /\ lock' = r
    /\ UNCHANGED <<runOpen, authority, exitRow, os, spawned, child, cache, closed, told,
                   crashes>>

Dispatch(r, op) ==
    /\ Admitted(r, op)
    /\ op \notin dispatched
    /\ HasCapacity(r)
    /\ dispatched' = dispatched \cup {op}
    /\ starting' = [starting EXCEPT ![r] = op]
    /\ lock' = r
    /\ UNCHANGED <<runOpen, authority, exitRow, os, spawned, child, cache, closed, told,
                   crashes>>

\* The row exists already, or the limits are reached, or the store failed
\* before or after its commit: the outcome is kept and nothing is spawned.
DispatchRefused(r, op) ==
    /\ Admitted(r, op)
    /\ \/ op \in dispatched /\ UNCHANGED dispatched
       \/ op \notin dispatched /\ ~HasCapacity(r) /\ UNCHANGED dispatched
       \/ op \notin dispatched /\ HasCapacity(r)
          /\ dispatched' \in {dispatched, dispatched \cup {op}}
    /\ cache' = Keep(r, op)
    /\ UNCHANGED <<runOpen, authority, exitRow, os, spawned, child, starting, lock, closed,
                   told, crashes>>

\* The process was created and its supervisor runs, or could not be launched.
Spawn(r) ==
    /\ starting[r] # None /\ Live(r)
    /\ LET op == starting[r]
       IN  /\ spawned' = [spawned EXCEPT ![op] = @ + 1]
           /\ cache' = Keep(r, op)
           /\ \/ /\ os' = [os EXCEPT ![op] = "running"]
                 /\ child' = [child EXCEPT ![op] = NewChild]
                 /\ told' = [told EXCEPT ![op] = "RUNNING"]
              \/ /\ \E dead \in {"running", "exited"} : os' = [os EXCEPT ![op] = dead]
                 /\ child' = [child EXCEPT ![op] = [NewChild EXCEPT !.watch = "gone",
                                                    !.unknown = TRUE, !.signal = "kill"]]
                 /\ told' = [told EXCEPT ![op] = "UNKNOWN"]
    /\ starting' = [starting EXCEPT ![r] = None]
    /\ lock' = None
    /\ UNCHANGED <<runOpen, authority, dispatched, exitRow, closed, crashes>>

\* Authority was lost meanwhile, or the spawn itself failed.
SpawnFailed(r) ==
    /\ starting[r] # None
    /\ child' = IF Live(r) THEN child ELSE CleanedUp(r)
    /\ cache' = Keep(r, starting[r])
    /\ starting' = [starting EXCEPT ![r] = None]
    /\ lock' = None
    /\ UNCHANGED <<runOpen, authority, dispatched, exitRow, os, spawned, closed, told, crashes>>

-----------------------------------------------------------------------------
(***************************************************************************)
(* Recording an exit.  _record_exit claims the one append before it calls  *)
(* the store; an error, even after the commit, leaves the child unknown    *)
(* and is never retried.                                                   *)
(***************************************************************************)
CanRecord(ch) == ch.settled /\ ~ch.unknown /\ ~ch.attempted

\* The states _record_exit can leave the child of op and its exit row in.
Recordings(op) ==
    LET ch == child[op]
        tried == [ch EXCEPT !.attempted = TRUE]
        row == [exitRow EXCEPT ![op] = ch.reason]
    IN  IF ~CanRecord(ch) THEN {<<ch, exitRow>>}
        ELSE {<<[tried EXCEPT !.recorded = TRUE], row>>}
             \cup {<<[tried EXCEPT !.unknown = TRUE], e>> : e \in {exitRow, row}}

\* _envelope: what a reply about the child says.
Says(ch) == IF ch.unknown THEN "UNKNOWN"
            ELSE IF ch.settled /\ ch.recorded THEN "EXITED" ELSE "RUNNING"

\* A poll or a terminate with a new operation id that fits the cache, or that
\* may use the reply reserved for this child.
Observe(r, id, op, terminate) ==
    LET ordinary == Occupied(r) < MaxCache
        reserved == IF terminate THEN child[op].terminateReserved
                                 ELSE child[op].terminalReserved
    IN  /\ RunOf[op] = r /\ op \in Retained(r)
        /\ lock = None /\ Live(r)
        /\ id \in Ids \ cache[r]
        /\ ordinary \/ reserved
        /\ \E rec \in Recordings(op) :
             LET ch == rec[1]
                 asked == IF terminate THEN Stopped(ch, "terminated") ELSE ch
                 refused == ~ordinary /\ (ch.unknown \/ (~terminate /\ Says(ch) # "EXITED"))
                 spent == [asked EXCEPT
                    !.terminateReserved = @ /\ ~(terminate /\ Says(asked) # "UNKNOWN"),
                    !.terminalReserved = @ /\ ~(~terminate /\ Says(asked) = "EXITED")]
             IN  /\ exitRow' = rec[2]
                 /\ IF refused
                    THEN /\ child' = [child EXCEPT ![op] = ch]
                         /\ UNCHANGED <<cache, told>>
                    ELSE /\ child' = [child EXCEPT ![op] = spent]
                         /\ cache' = Keep(r, id)
                         /\ told' = [told EXCEPT ![op] = Says(asked)]
        /\ UNCHANGED <<runOpen, authority, dispatched, os, spawned, starting, lock, closed,
                       crashes>>

\* The owner restarted since: the row is known, its process is not.
ObserveOrphan(r, id, op) ==
    /\ RunOf[op] = r /\ op \in dispatched /\ op \notin Retained(r)
    /\ lock = None /\ Live(r)
    /\ id \in Ids \ cache[r]
    /\ Occupied(r) < MaxCache
    /\ cache' = Keep(r, id)
    /\ told' = [told EXCEPT ![op] = "UNKNOWN"]
    /\ UNCHANGED <<runOpen, authority, dispatched, exitRow, os, spawned, child, starting, lock,
                   closed, crashes>>

\* Any call of a worker whose authority is gone only asks for a cleanup.
Denied(r) ==
    /\ lock = None /\ ~Live(r)
    /\ child' = CleanedUp(r)
    /\ UNCHANGED <<runOpen, authority, dispatched, exitRow, os, spawned, cache, starting, lock,
                   closed, told, crashes>>

-----------------------------------------------------------------------------
(***************************************************************************)
(* _supervise, one thread per child.  Each turn runs under the child's     *)
(* lock; a signal, a grace period or the deadline may be due at any turn.  *)
(***************************************************************************)
Watching(op) == child[op].watch = "watching"

Update(op, ch) == child' = [child EXCEPT ![op] = ch]

\* The deadline passed before anybody asked for a stop.
Deadline(op) ==
    /\ Watching(op) /\ os[op] = "running" /\ child[op].stop = None
    /\ Update(op, [child[op] EXCEPT !.stop = "deadline"])
    /\ UNCHANGED <<ledger, authority, os, spawned, cache, starting, lock, closed, told, crashes>>

\* Faulty variant: a process that ignores the first signal is never killed.
SignalOnce(op) ==
    /\ Watching(op) /\ os[op] = "running"
    /\ child[op].stop # None /\ child[op].signal = None
    /\ Update(op, [child[op] EXCEPT !.signal = "term", !.reason = child[op].stop])
    /\ UNCHANGED <<ledger, authority, os, spawned, cache, starting, lock, closed, told, crashes>>

\* terminate the process, and kill it after the grace period.
Signal(op) ==
    /\ Watching(op) /\ os[op] = "running"
    /\ \/ /\ child[op].stop # None /\ child[op].signal = None
          /\ Update(op, [child[op] EXCEPT !.signal = "term", !.reason = child[op].stop])
       \/ /\ child[op].signal = "term"
          /\ Update(op, [child[op] EXCEPT !.signal = "kill"])
    /\ UNCHANGED <<ledger, authority, os, spawned, cache, starting, lock, closed, told, crashes>>

\* A killed process that is not reaped, or a reaped one whose pipe stays open,
\* is given up as unknown; the thread ends without recording anything.
GiveUp(op) ==
    /\ Watching(op)
    /\ \/ os[op] = "running" /\ child[op].signal = "kill"
       \/ os[op] = "exited" /\ ~child[op].eof
    /\ Update(op, [child[op] EXCEPT !.unknown = TRUE, !.watch = "gone"])
    /\ UNCHANGED <<ledger, authority, os, spawned, cache, starting, lock, closed, told, crashes>>

\* The pipe or the process raised an error: the child is killed if it still runs,
\* and waited for; the kill and the wait may fail too.
SupervisorFails(op) ==
    /\ Watching(op)
    /\ Update(op, [child[op] EXCEPT !.unknown = TRUE, !.watch = "gone"])
    /\ os' = os \/ (os[op] = "running" /\ os' = [os EXCEPT ![op] = "exited"])
    /\ UNCHANGED <<ledger, authority, spawned, cache, starting, lock, closed, told, crashes>>

\* The pipe of a settled child does not close: its exit is not recorded any more.
StreamFails(op) ==
    /\ child[op].watch = "recording"
    /\ Update(op, [child[op] EXCEPT !.unknown = TRUE])
    /\ UNCHANGED <<ledger, authority, os, spawned, cache, starting, lock, closed, told, crashes>>

\* The pipe reached end of file; a child may close its output before it exits.
EndOfFile(op) ==
    /\ Watching(op) /\ ~child[op].eof
    /\ Update(op, [child[op] EXCEPT !.eof = TRUE])
    /\ UNCHANGED <<ledger, authority, os, spawned, cache, starting, lock, closed, told, crashes>>

\* Faulty variant: a killed process counts as reaped.
SettleOnKill(op) ==
    /\ Watching(op) /\ child[op].eof
    /\ os[op] = "exited" \/ child[op].signal = "kill"
    /\ Update(op, [child[op] EXCEPT !.settled = TRUE, !.watch = "recording",
                      !.reason = IF @ = None THEN "exited" ELSE @])
    /\ UNCHANGED <<ledger, authority, os, spawned, cache, starting, lock, closed, told, crashes>>

\* poll() reaped the process and nothing more can arrive.
Settle(op) ==
    /\ Watching(op) /\ os[op] = "exited" /\ child[op].eof
    /\ Update(op, [child[op] EXCEPT !.settled = TRUE, !.watch = "recording",
                      !.reason = IF @ = None THEN "exited" ELSE @])
    /\ UNCHANGED <<ledger, authority, os, spawned, cache, starting, lock, closed, told, crashes>>

\* The supervisor takes the owner's lock and the runtime lock and records.
SuperviseRecord(op) ==
    /\ child[op].watch = "recording"
    /\ lock = None
    /\ \E rec \in Recordings(op) :
          /\ Update(op, [rec[1] EXCEPT !.watch = "gone"])
          /\ exitRow' = rec[2]
    /\ UNCHANGED <<runOpen, dispatched, authority, os, spawned, cache, starting, lock, closed,
                   told, crashes>>

\* The runtime lock stayed busy for a second: the thread gives up.
SuperviseExpire(op) ==
    /\ child[op].watch = "recording"
    /\ lock # None
    /\ Update(op, [child[op] EXCEPT !.unknown = TRUE, !.watch = "gone"])
    /\ UNCHANGED <<ledger, authority, os, spawned, cache, starting, lock, closed, told, crashes>>

-----------------------------------------------------------------------------
\* The operating system, the operator and the other commands of the home.

Exit(op) ==
    /\ os[op] = "running"
    /\ os' = [os EXCEPT ![op] = "exited"]
    /\ UNCHANGED <<ledger, authority, spawned, child, cache, starting, lock, closed, told,
                   crashes>>

\* The session is closed, the capability revoked or the project changed.
Revoke(r) ==
    /\ authority[r]
    /\ authority' = [authority EXCEPT ![r] = FALSE]
    /\ UNCHANGED <<ledger, os, spawned, child, cache, starting, lock, closed, told, crashes>>

\* close asks every child to stop ...
Close(r) ==
    /\ ~closed[r] /\ starting[r] = None
    /\ closed' = [closed EXCEPT ![r] = TRUE]
    /\ child' = CleanedUp(r)
    /\ UNCHANGED <<ledger, authority, os, spawned, cache, starting, lock, told, crashes>>

\* ... and after joining its thread kills one that is still running.
CloseKill(op) ==
    /\ closed[RunOf[op]]
    /\ child[op].watch # None /\ os[op] = "running"
    /\ \/ /\ os' = [os EXCEPT ![op] = "exited"]
          /\ Update(op, [child[op] EXCEPT !.signal = "kill"])
       \/ /\ Update(op, [child[op] EXCEPT !.signal = "kill", !.unknown = TRUE])
          /\ UNCHANGED os
    /\ UNCHANGED <<ledger, authority, spawned, cache, starting, lock, closed, told, crashes>>

\* The owner's process dies: its children run on without an owner.
Crash(r) ==
    /\ crashes < MaxCrashes
    /\ crashes' = crashes + 1
    /\ child' = [op \in Ops |-> IF RunOf[op] = r THEN NoChild ELSE child[op]]
    /\ cache' = [cache EXCEPT ![r] = {}]
    /\ starting' = [starting EXCEPT ![r] = None]
    /\ lock' = IF lock = r THEN None ELSE lock
    /\ closed' = [closed EXCEPT ![r] = FALSE]      \* the next owner of the run
    /\ UNCHANGED <<ledger, authority, os, spawned, told>>

\* submit, quiesce or abort: require_processes_resolved acknowledges every
\* exit in the transaction that ends the run's writing.
EndRun(r) ==
    /\ runOpen[r]
    /\ Unresolved \cap OpsOf(r) = {}
    /\ runOpen' = [runOpen EXCEPT ![r] = FALSE]
    /\ UNCHANGED <<authority, dispatched, exitRow, os, spawned, child, cache, starting, lock,
                   closed, told, crashes>>

TakeLock ==
    /\ lock = None
    /\ lock' = Other
    /\ UNCHANGED <<ledger, authority, os, spawned, child, cache, starting, closed, told, crashes>>

ReleaseLock ==
    /\ lock = Other
    /\ lock' = None
    /\ UNCHANGED <<ledger, authority, os, spawned, child, cache, starting, closed, told, crashes>>

\* What a supervisor does; its faults are not part of it, nothing makes them occur.
Supervise(op) ==
    \/ Deadline(op) \/ Signal(op) \/ GiveUp(op) \/ EndOfFile(op) \/ Settle(op)
    \/ SuperviseRecord(op) \/ SuperviseExpire(op)

Next ==
    \/ \E r \in Runs :
          \/ \E op \in Ops : Dispatch(r, op) \/ DispatchRefused(r, op)
          \/ Spawn(r) \/ SpawnFailed(r)
          \/ \E op \in Ops, id \in Ids :
                \/ \E terminate \in BOOLEAN : Observe(r, id, op, terminate)
                \/ ObserveOrphan(r, id, op)
          \/ Denied(r) \/ Revoke(r) \/ Close(r) \/ Crash(r) \/ EndRun(r)
    \/ \E op \in Ops : \/ Supervise(op) \/ SupervisorFails(op) \/ StreamFails(op)
                       \/ Exit(op) \/ CloseKill(op)
    \/ TakeLock \/ ReleaseLock

Spec == Init /\ [][Next]_vars

-----------------------------------------------------------------------------
\* "Existing dispatch IDs never permit another spawn, including a visible record
\* after ambiguous commit or a restart before spawn" (docs/multi-project-bridge.md:743):
\* one start operation creates at most one process, over every crash and retry.
SpawnedOnce == \A op \in Ops : spawned[op] <= 1

\* An exit row, and a reply that says EXITED, exist only for a process the
\* system has really reaped: no signal, timeout, lost owner or failed write is
\* taken for an exit.
ExitIsProven ==
    \A op \in Ops :
        /\ exitRow[op] # None => os[op] = "exited"
        /\ told[op] = "EXITED" => exitRow[op] # None

\* A run that was submitted, quiesced or aborted has no process of its own left
\* running: not one whose owner died, nor one dispatched and not yet spawned.
EndedRunsHaveNoProcess ==
    \A op \in Ops : ~runOpen[RunOf[op]] => os[op] # "running" /\ starting[RunOf[op]] # op

\* The limits hold over crashes and replaced owners: running processes never
\* exceed the durable limits, and kept outcomes with the replies reserved for
\* retained children never exceed the cache.
WithinLimits ==
    /\ Cardinality({op \in Ops : os[op] = "running"}) <= MaxTotal
    /\ \A r \in Runs : /\ Cardinality({op \in OpsOf(r) : os[op] = "running"}) <= MaxPerRun
                       /\ Occupied(r) <= MaxCache

\* "Existing dispatch IDs never permit another spawn": one operation starts at
\* most one process, and running processes and kept replies stay within their
\* limits, over crashes, retries and owners that compete for the last place.
StartsAreBounded == TypeOK /\ SpawnedOnce /\ WithinLimits
=============================================================================

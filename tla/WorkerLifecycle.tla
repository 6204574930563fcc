--------------------------- MODULE WorkerLifecycle ---------------------------
(***************************************************************************)
(* Lifecycle grants: the second way a run is claimed                       *)
(* (src/orch/bridge_worker_lifecycle.py).  An operator issues a grant for  *)
(* one attempt of one task; a worker opens a route for the grant, claims   *)
(* the run, records checkpoints and asks for the disposition of earlier    *)
(* operations.  A claim takes three transactions with a file publication   *)
(* between them; routes of one grant run concurrently, crash between any   *)
(* two steps, and the operator claims, ends and re-plans runs meanwhile    *)
(* through the native commands of core.py, which appear here only by what  *)
(* the lifecycle code reads of them.                                       *)
(***************************************************************************)
EXTENDS Naturals, FiniteSets

CONSTANTS
    Tasks,           \* tasks; every one belongs to the same writer key
    Grants, Routes, Ops,
    MaxAttempts,     \* max_attempts of the tasks
    MaxCheckpoints,  \* _CHECKPOINT_MAX
    MaxRevisions     \* bound: re-plans of a task

ASSUME LifecycleAssumption ==
    /\ MaxAttempts \in Nat /\ MaxCheckpoints \in Nat /\ MaxRevisions \in Nat

None == "none"
Native == "native"
ASSUME LifecycleNames == {None, Native} \cap (Tasks \cup Grants \cup Routes \cup Ops) = {}

Attempts == 1..MaxAttempts
Phases == {None, "PREPARED", "PENDING", "READY", "REFUSED", "DONE"}

VARIABLES
    task,       \* task[t]: "READY", "IN_PROGRESS" or "DONE", and its revision
    run,        \* run[t][n]: the state and the grant (or Native) of attempt n
    cap,        \* capability files, by task and attempt
    paused,     \* the ledger is paused
    grant,      \* grant[g]: the b10:v1:grant record
    rec,        \* rec[g][op]: the b10:v1:op record
    route,      \* route[r]: a worker's route object and where its call is
    applied     \* applied[g][op]: checkpoint rows written for the operation

vars == <<task, run, cap, paused, grant, rec, route, applied>>

NoGrant == [status |-> None, task |-> None, attempt |-> 0, rev |-> 0, claim |-> None,
            checks |-> {}]
NoRecord == [phase |-> None, kind |-> None]
NoRun == [state |-> None, by |-> None]
Shut == [at |-> "shut", grant |-> None, op |-> None, bound |-> FALSE]

Init ==
    /\ task = [t \in Tasks |-> [status |-> "READY", rev |-> 0]]
    /\ run = [t \in Tasks |-> [n \in Attempts |-> NoRun]]
    /\ cap = {}
    /\ paused = FALSE
    /\ grant = [g \in Grants |-> NoGrant]
    /\ rec = [g \in Grants |-> [op \in Ops |-> NoRecord]]
    /\ route = [r \in Routes |-> Shut]
    /\ applied = [g \in Grants |-> [op \in Ops |-> 0]]

TypeOK ==
    /\ task \in [Tasks -> [status : {"READY", "IN_PROGRESS", "DONE"}, rev : 0..MaxRevisions]]
    /\ run \in [Tasks -> [Attempts -> [state : {None, "RUNNING", "held", "ended"},
                                       by : Grants \cup {None, Native}]]]
    /\ cap \subseteq Tasks \X Attempts
    /\ paused \in BOOLEAN
    /\ grant \in [Grants -> [status : {None, "ISSUED", "REVOKED", "RESERVED", "CONSUMED"},
                             task : Tasks \cup {None}, attempt : 0..MaxAttempts,
                             rev : 0..MaxRevisions, claim : Ops \cup {None},
                             checks : SUBSET Ops]]
    /\ rec \in [Grants -> [Ops -> [phase : Phases, kind : {None, "claim", "checkpoint"}]]]
    /\ route \in [Routes -> [at : {"shut", "idle", "reserved", "pending", "published",
                                   "prepared"},
                             grant : Grants \cup {None}, op : Ops \cup {None},
                             bound : BOOLEAN]]
    /\ applied \in [Grants -> [Ops -> 0..2]]

-----------------------------------------------------------------------------
\* What the ledger says of a task and of a grant.

Made(t) == {n \in Attempts : run[t][n].state # None}

\* WRITER_LOCK_RUN_STATES: a run keeps its writer key until it ends.
Writers == {x \in Tasks \X Attempts : run[x[1]][x[2]].state \in {"RUNNING", "held"}}

\* _matches: the task is still the one the grant was issued for.
Matches(g) == task[grant[g].task].rev = grant[g].rev

\* The run a grant's claim names, and whether it may still write.
RunOf(g) == <<grant[g].task, grant[g].attempt>>
Claim(g) == rec[g][grant[g].claim]

\* Faulty variant: only the rows of the run are looked at, not its capability.
ValidRows(g) ==
    LET t == grant[g].task
        n == grant[g].attempt
    IN  /\ Matches(g) /\ task[t].status = "IN_PROGRESS"
        /\ run[t][n].by = g
        /\ \A m \in Made(t) : m <= n

\* __validate_native: under the transaction, against the native rows.
ValidNative(g) ==
    LET t == grant[g].task
        n == grant[g].attempt
    IN  /\ Matches(g) /\ task[t].status = "IN_PROGRESS"
        /\ run[t][n] = [state |-> "RUNNING", by |-> g]
        /\ \A m \in Made(t) : m <= n
        /\ RunOf(g) \in cap
        /\ Writers = {RunOf(g)}

\* status: the checks around every worker call.
StatusOK(r) ==
    LET g == route[r].grant
    IN  /\ route[r].at # "shut"
        /\ grant[g].status # "REVOKED"
        /\ IF grant[g].status \in {"RESERVED", "CONSUMED"}
           THEN IF route[r].bound
                THEN Claim(g).phase = "READY" /\ ValidNative(g)
                ELSE Claim(g).phase # "READY"
           ELSE ~route[r].bound

-----------------------------------------------------------------------------
\* The operator: LifecycleAuthority.

CreateGrant(g, t) ==
    /\ grant[g].status = None
    /\ task[t].status = "READY"
    /\ Cardinality(Made(t)) < MaxAttempts
    /\ grant' = [grant EXCEPT ![g] =
          [NoGrant EXCEPT !.status = "ISSUED", !.task = t, !.rev = task[t].rev,
                          !.attempt = Cardinality(Made(t)) + 1]]
    /\ UNCHANGED <<task, run, cap, paused, rec, route, applied>>

RevokeGrant(g) ==
    /\ grant[g].status = "ISSUED"
    /\ grant' = [grant EXCEPT ![g].status = "REVOKED"]
    /\ UNCHANGED <<task, run, cap, paused, rec, route, applied>>

\* open_route and _admit: a claim that is READY is taken up again only with
\* the native capability; one still uncertain is not.
OpenRoute(r, g) ==
    /\ route[r].at = "shut"
    /\ grant[g].status \notin {None, "REVOKED"}
    /\ LET ready == grant[g].status = "CONSUMED" /\ Claim(g).phase = "READY"
       IN  /\ ready => ValidNative(g)
           /\ route' = [route EXCEPT ![r] =
                 [at |-> "idle", grant |-> g, op |-> None, bound |-> ready]]
    /\ UNCHANGED <<task, run, cap, paused, grant, rec, applied>>

\* The route is closed, or its process dies in the middle of a call.
CloseRoute(r) ==
    /\ route[r].at # "shut"
    /\ route' = [route EXCEPT ![r] = Shut]
    /\ UNCHANGED <<task, run, cap, paused, grant, rec, applied>>

-----------------------------------------------------------------------------
\* claim

\* Faulty variant: an operation id that was used before is taken again.
ReserveAgain(r, op) ==
    LET g == route[r].grant
    IN  /\ route[r].at = "idle" /\ StatusOK(r)
        /\ grant[g].status \in {"ISSUED", "RESERVED", "CONSUMED"}
        /\ grant' = [grant EXCEPT ![g].status = "RESERVED", ![g].claim = op]
        /\ rec' = [rec EXCEPT ![g][op] = [phase |-> "PREPARED", kind |-> "claim"]]
        /\ route' = [route EXCEPT ![r].at = "reserved", ![r].op = op]
        /\ UNCHANGED <<task, run, cap, paused, applied>>

\* First transaction: reserve the grant and the operation id.
Reserve(r, op) ==
    LET g == route[r].grant
    IN  /\ route[r].at = "idle" /\ StatusOK(r)
        /\ rec[g][op].phase = None
        /\ grant[g].status = "ISSUED"
        /\ grant' = [grant EXCEPT ![g].status = "RESERVED", ![g].claim = op]
        /\ rec' = [rec EXCEPT ![g][op] = [phase |-> "PREPARED", kind |-> "claim"]]
        /\ route' = [route EXCEPT ![r].at = "reserved", ![r].op = op]
        /\ UNCHANGED <<task, run, cap, paused, applied>>

\* Faulty variant: the attempt the grant was issued for is not compared again.
ClaimableAnyAttempt(g) ==
    LET t == grant[g].task
    IN  /\ Matches(g) /\ task[t].status = "READY"
        /\ ~paused
        /\ Cardinality(Made(t)) < MaxAttempts
        /\ Writers = {}

\* Second transaction: everything a native claim checks, then the run.
Claimable(g) ==
    LET t == grant[g].task
    IN  /\ Matches(g) /\ task[t].status = "READY"
        /\ Cardinality(Made(t)) + 1 = grant[g].attempt
        /\ ~paused
        /\ Cardinality(Made(t)) < MaxAttempts
        /\ Writers = {}

StillReserved(r) ==
    LET g == route[r].grant
    IN  /\ grant[g].status = "RESERVED" /\ grant[g].claim = route[r].op
        /\ rec[g][route[r].op] = [phase |-> "PREPARED", kind |-> "claim"]

Consume(r) ==
    LET g == route[r].grant
    IN  /\ route[r].at = "reserved" /\ StillReserved(r)
        /\ Claimable(g)
        /\ grant' = [grant EXCEPT ![g].status = "CONSUMED"]
        /\ run' = [run EXCEPT ![grant[g].task][grant[g].attempt] =
                       [state |-> "RUNNING", by |-> g]]
        /\ task' = [task EXCEPT ![grant[g].task].status = "IN_PROGRESS"]
        /\ rec' = [rec EXCEPT ![g][route[r].op].phase = "PENDING"]
        /\ route' = [route EXCEPT ![r].at = "pending"]
        /\ UNCHANGED <<cap, paused, applied>>

\* Not claimable, or the workspace preflight refused: the grant is spent.
Refuse(r) ==
    LET g == route[r].grant
    IN  /\ route[r].at = "reserved" /\ StillReserved(r)
        /\ grant' = [grant EXCEPT ![g].status = "CONSUMED"]
        /\ rec' = [rec EXCEPT ![g][route[r].op].phase = "REFUSED"]
        /\ route' = [route EXCEPT ![r].at = "idle", ![r].op = None]
        /\ UNCHANGED <<task, run, cap, paused, applied>>

\* _publish_capability creates the file exclusively and asks nothing of the run,
\* which may have ended since; the session opens on it.
Publish(r) ==
    LET g == route[r].grant
        x == RunOf(g)
    IN  /\ route[r].at = "pending"
        /\ x \notin cap
        /\ cap' = cap \cup {x}
        /\ route' = [route EXCEPT ![r].at = "published"]
        /\ UNCHANGED <<task, run, paused, grant, rec, applied>>

\* Third transaction: validate against the native rows and mark it READY.
MarkReady(r) ==
    LET g == route[r].grant
    IN  /\ route[r].at = "published"
        /\ ValidNative(g)
        /\ rec[g][route[r].op].phase = "PENDING"
        /\ rec' = [rec EXCEPT ![g][route[r].op].phase = "READY"]
        /\ route' = [route EXCEPT ![r].at = "idle", ![r].op = None, ![r].bound = TRUE]
        /\ UNCHANGED <<task, run, cap, paused, grant, applied>>

\* An exception anywhere after the reservation: the answer is UNKNOWN and what
\* was committed stays.
GiveUp(r) ==
    /\ route[r].at \in {"reserved", "pending", "published", "prepared"}
    /\ route' = [route EXCEPT ![r].at = "idle", ![r].op = None]
    /\ UNCHANGED <<task, run, cap, paused, grant, rec, applied>>

-----------------------------------------------------------------------------
\* checkpoint

Prepare(r, op) ==
    LET g == route[r].grant
    IN  /\ route[r].at = "idle" /\ route[r].bound /\ StatusOK(r)
        /\ rec[g][op].phase = None
        /\ op \notin grant[g].checks
        /\ Cardinality(grant[g].checks) < MaxCheckpoints
        /\ grant' = [grant EXCEPT ![g].checks = @ \cup {op}]
        /\ rec' = [rec EXCEPT ![g][op] = [phase |-> "PREPARED", kind |-> "checkpoint"]]
        /\ route' = [route EXCEPT ![r].at = "prepared", ![r].op = op]
        /\ UNCHANGED <<task, run, cap, paused, applied>>

Checkpoint(r) ==
    LET g == route[r].grant
        op == route[r].op
    IN  /\ route[r].at = "prepared"
        /\ rec[g][op] = [phase |-> "PREPARED", kind |-> "checkpoint"]
        /\ op \in grant[g].checks /\ Claim(g).phase = "READY"
        /\ ValidNative(g)
        /\ applied' = [applied EXCEPT ![g][op] = @ + 1]
        /\ rec' = [rec EXCEPT ![g][op].phase = "DONE"]
        /\ route' = [route EXCEPT ![r].at = "idle", ![r].op = None]
        /\ UNCHANGED <<task, run, cap, paused, grant>>

-----------------------------------------------------------------------------
\* The native commands of core.py, by what they do to these rows: an operator
\* gives one at a time.

\* The capability file of a native run is written after the commit and read by
\* nothing here: `cap` holds those of the runs claimed through a grant.
NativeClaim(t) ==
    /\ task[t].status = "READY" /\ ~paused
    /\ Cardinality(Made(t)) < MaxAttempts
    /\ Writers = {}
    /\ LET n == Cardinality(Made(t)) + 1
       IN  run' = [run EXCEPT ![t][n] = [state |-> "RUNNING", by |-> Native]]
    /\ task' = [task EXCEPT ![t].status = "IN_PROGRESS"]
    /\ UNCHANGED <<cap, paused, grant, rec, route, applied>>

\* The worker submits: the run no longer writes and still holds the key.
NativeSubmit(t) ==
    /\ \E n \in Attempts :
          /\ run[t][n].state = "RUNNING"
          /\ run' = [run EXCEPT ![t][n].state = "held"]
    /\ UNCHANGED <<task, cap, paused, grant, rec, route, applied>>

\* A run is aborted (the task is ready again) or completed.
NativeEnd(t, status) ==
    /\ \E n \in Attempts :
          /\ run[t][n].state \in {"RUNNING", "held"}
          /\ run' = [run EXCEPT ![t][n].state = "ended"]
    /\ task' = [task EXCEPT ![t].status = status]
    /\ UNCHANGED <<cap, paused, grant, rec, route, applied>>

\* _revoke_capability, after the commit that confirmed the worker's quiescence,
\* blocked the verification or aborted the run.  The command may die before it, or
\* find the file not published yet.
NativeRevoke(t) ==
    /\ \E n \in Attempts :
          /\ run[t][n].state \in {"held", "ended"}
          /\ cap' = cap \ {<<t, n>>}
    /\ UNCHANGED <<task, run, paused, grant, rec, route, applied>>

NativeReplan(t) ==
    /\ task[t].status = "READY" /\ task[t].rev < MaxRevisions
    /\ task' = [task EXCEPT ![t].rev = @ + 1]
    /\ UNCHANGED <<run, cap, paused, grant, rec, route, applied>>

NativePause ==
    /\ paused' = ~paused
    /\ UNCHANGED <<task, run, cap, grant, rec, route, applied>>

Next ==
    \/ \E g \in Grants, t \in Tasks : CreateGrant(g, t)
    \/ \E g \in Grants : RevokeGrant(g)
    \/ \E r \in Routes, g \in Grants : OpenRoute(r, g)
    \/ \E r \in Routes, op \in Ops : Reserve(r, op) \/ Prepare(r, op)
    \/ \E r \in Routes : \/ CloseRoute(r) \/ Consume(r) \/ Refuse(r) \/ Publish(r)
                         \/ MarkReady(r) \/ GiveUp(r) \/ Checkpoint(r)
    \/ \E t \in Tasks : \/ NativeClaim(t) \/ NativeSubmit(t) \/ NativeReplan(t)
                        \/ NativeRevoke(t)
                        \/ \E s \in {"READY", "DONE"} : NativeEnd(t, s)
    \/ NativePause

Spec == Init /\ [][Next]_vars

-----------------------------------------------------------------------------
RunsBy(g) == {x \in Tasks \X Attempts : run[x[1]][x[2]].by = g}

\* One grant claims at most one run, the attempt of the task it was issued for,
\* however often routes retry, crash or run at the same time; a grant that was
\* revoked, or whose claim is still only reserved or refused, claimed none.
GrantClaimsOnce ==
    \A g \in Grants :
        /\ RunsBy(g) \subseteq {RunOf(g)}
        /\ RunsBy(g) # {} => /\ grant[g].status = "CONSUMED"
                             /\ Claim(g).phase \in {"PENDING", "READY"}

\* The two claim paths together never leave two runs holding the writer key,
\* nor one that holds it for a task that is not IN_PROGRESS.
OneWriter ==
    /\ Cardinality(Writers) <= 1
    /\ \A x \in Writers : task[x[1]].status = "IN_PROGRESS"

\* A checkpoint operation writes its row at most once, exactly when its record
\* says DONE: a retry after an UNKNOWN answer writes nothing.
CheckpointOnce ==
    \A g \in Grants, op \in Ops :
        applied[g][op] = (IF rec[g][op].phase = "DONE" THEN 1 ELSE 0)

\* Whatever is retried, over whichever route and after whatever crash, is done
\* once: a grant's claim and each of its checkpoints.
DoneOnce == GrantClaimsOnce /\ CheckpointOnce

\* A checkpoint, or a claim becoming READY, happens only while the run it is
\* for is the single running writer and the task is the one the grant names:
\* a route that outlived its run, its revision or its capability does nothing.
EffectsOnlyWhileWriter ==
    [][\A g \in Grants, op \in Ops :
          \/ rec'[g][op].phase = rec[g][op].phase
          \/ rec'[g][op].phase \notin {"READY", "DONE"}
          \/ /\ Writers = {RunOf(g)} /\ RunOf(g) \in cap /\ Matches(g)
             /\ run[grant[g].task][grant[g].attempt] = [state |-> "RUNNING", by |-> g]]_vars

\* An operation's recorded phase only moves forward, and its kind never changes:
\* an answer given for an operation id is never taken back.
RecordsAreForward ==
    [][\A g \in Grants, op \in Ops :
          \/ rec'[g][op] = rec[g][op]
          \/ rec[g][op].phase = None
          \/ /\ rec'[g][op].kind = rec[g][op].kind
             /\ <<rec[g][op].phase, rec'[g][op].phase>> \in
                   {<<"PREPARED", "PENDING">>, <<"PREPARED", "REFUSED">>,
                    <<"PENDING", "READY">>, <<"PREPARED", "DONE">>}]_vars

\* The reservation of the writer key as module WriterReservation promises it, and
\* as Ledger implements it for the native commands alone: with the lifecycle claim
\* as a second way in, a run still takes a key nobody holds, in an attempt that was
\* never used before, and lets it go once.
Reservation ==
    INSTANCE WriterReservation WITH
        Holders <- Tasks \X Attempts,
        KeyOf <- LAMBDA x : "key",
        holding <- Writers,
        retired <- {x \in Tasks \X Attempts : run[x[1]][x[2]].state = "ended"}

ImplementsReservation == Reservation!Spec
=============================================================================

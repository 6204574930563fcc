------------------------ MODULE WorkerLifecycleProofs ------------------------
(***************************************************************************)
(* Proofs about WorkerLifecycle, for any tasks, grants, routes, operations *)
(* and bounds.  The safety properties are inductive once every route is    *)
(* known to name an issued grant and every call in progress an operation   *)
(* (RouteInv), and every issued grant a task and an attempt (GrantInv);    *)
(* the refinement needs that attempts are used in order (AttemptsInOrder). *)
(***************************************************************************)
EXTENDS WorkerLifecycle, FiniteSetTheorems, TLAPS

RunRecords == [state : {None, "RUNNING", "held", "ended"}, by : Grants \cup {None, Native}]
GrantRecords == [status : {None, "ISSUED", "REVOKED", "RESERVED", "CONSUMED"},
                 task : Tasks \cup {None}, attempt : 0..MaxAttempts,
                 rev : 0..MaxRevisions, claim : Ops \cup {None}, checks : SUBSET Ops]
OpRecords == [phase : Phases, kind : {None, "claim", "checkpoint"}]
RouteRecords == [at : {"shut", "idle", "reserved", "pending", "published", "prepared"},
                 grant : Grants \cup {None}, op : Ops \cup {None}, bound : BOOLEAN]
TaskRecords == [status : {"READY", "IN_PROGRESS", "DONE"}, rev : 0..MaxRevisions]

Busy == {"reserved", "pending", "published", "prepared"}

RouteInv(r) ==
    /\ route[r].at # "shut" => /\ route[r].grant \in Grants
                               /\ grant[route[r].grant].status # None
    /\ route[r].at \in Busy => route[r].op \in Ops

GrantInv(g) ==
    /\ grant[g].status # None => grant[g].task \in Tasks /\ grant[g].attempt \in Attempts
    /\ grant[g].status \in {"RESERVED", "CONSUMED"} => grant[g].claim \in Ops

WriterInv ==
    /\ \A x, y \in Writers : x = y
    /\ \A x \in Writers : task[x[1]].status = "IN_PROGRESS"

LifeInv ==
    /\ TypeOK
    /\ \A r \in Routes : RouteInv(r)
    /\ \A g \in Grants : GrantInv(g)
    /\ WriterInv
    /\ GrantClaimsOnce
    /\ CheckpointOnce

-----------------------------------------------------------------------------
\* The parts of TypeOK, one per variable.
LEMMA TypeParts ==
    TypeOK <=> /\ task \in [Tasks -> TaskRecords]
               /\ run \in [Tasks -> [Attempts -> RunRecords]]
               /\ cap \subseteq Tasks \X Attempts
               /\ paused \in BOOLEAN
               /\ grant \in [Grants -> GrantRecords]
               /\ rec \in [Grants -> [Ops -> OpRecords]]
               /\ route \in [Routes -> RouteRecords]
               /\ applied \in [Grants -> [Ops -> 0..2]]
BY DEF TypeOK, TaskRecords, RunRecords, GrantRecords, OpRecords, RouteRecords

LEMMA TypePartsNext ==
    TypeOK' <=> /\ task' \in [Tasks -> TaskRecords]
                /\ run' \in [Tasks -> [Attempts -> RunRecords]]
                /\ cap' \subseteq Tasks \X Attempts
                /\ paused' \in BOOLEAN
                /\ grant' \in [Grants -> GrantRecords]
                /\ rec' \in [Grants -> [Ops -> OpRecords]]
                /\ route' \in [Routes -> RouteRecords]
                /\ applied' \in [Grants -> [Ops -> 0..2]]
BY DEF TypeOK, TaskRecords, RunRecords, GrantRecords, OpRecords, RouteRecords

\* The number of attempts made (make_run_id counts rows) is a number.
LEMMA MadeCard ==
    ASSUME NEW t \in Tasks
    PROVE  Cardinality(Made(t)) \in Nat
<1>1. IsFiniteSet(1..MaxAttempts)
  BY FS_Interval, LifecycleAssumption
<1>2. Made(t) \subseteq 1..MaxAttempts
  BY DEF Made, Attempts
<1> QED BY <1>1, <1>2, FS_Subset, FS_CardinalityType

\* An open route names an issued grant, and a call in progress an operation.
LEMMA Acting ==
    ASSUME LifeInv, NEW r \in Routes, route[r].at # "shut"
    PROVE  /\ route[r].grant \in Grants
           /\ grant[route[r].grant].status # None
           /\ grant[route[r].grant].task \in Tasks
           /\ grant[route[r].grant].attempt \in Attempts
           /\ route[r].at \in Busy => route[r].op \in Ops
BY DEF LifeInv, RouteInv, GrantInv

\* The next attempt of a task with attempts left is one of its attempts.
LEMMA NextAttempt ==
    ASSUME NEW t \in Tasks, Cardinality(Made(t)) < MaxAttempts
    PROVE  Cardinality(Made(t)) + 1 \in Attempts
BY MadeCard, LifecycleAssumption DEF Attempts

LEMMA LifeInit == Init => LifeInv
<1> SUFFICES ASSUME Init PROVE LifeInv
  OBVIOUS
<1>a. task \in [Tasks -> TaskRecords]
  BY LifecycleAssumption DEF Init, TaskRecords
<1>g. cap \subseteq Tasks \X Attempts
  BY DEF Init
<1>h. paused \in BOOLEAN
  BY DEF Init
<1>b. run \in [Tasks -> [Attempts -> RunRecords]]
  BY DEF Init, NoRun, RunRecords
<1>c. grant \in [Grants -> GrantRecords]
  BY LifecycleAssumption DEF Init, NoGrant, GrantRecords
<1>d. rec \in [Grants -> [Ops -> OpRecords]]
  BY DEF Init, NoRecord, OpRecords, Phases
<1>e. route \in [Routes -> RouteRecords]
  BY DEF Init, Shut, RouteRecords
<1>f. applied \in [Grants -> [Ops -> 0..2]]
  BY DEF Init
<1>1. TypeOK
  BY <1>a, <1>b, <1>c, <1>d, <1>e, <1>f, <1>g, <1>h, TypeParts
<1>2. \A r \in Routes : RouteInv(r)
  BY DEF Init, RouteInv, Shut, Busy
<1>3. \A g \in Grants : GrantInv(g)
  BY DEF Init, GrantInv, NoGrant, None
<1>4. Writers = {}
  BY DEF Init, Writers, NoRun, None
<1>5. WriterInv
  BY <1>4 DEF WriterInv
<1>6. \A g \in Grants : RunsBy(g) = {}
  BY LifecycleNames DEF Init, RunsBy, NoRun
<1>7. GrantClaimsOnce
  BY <1>6 DEF GrantClaimsOnce
<1>8. CheckpointOnce
  BY DEF Init, CheckpointOnce, NoRecord, None
<1> QED BY <1>1, <1>2, <1>3, <1>5, <1>7, <1>8 DEF LifeInv

-----------------------------------------------------------------------------
\* What a step that leaves a part of the state alone preserves.

LEMMA RoutesFrame ==
    ASSUME LifeInv, NEW r \in Routes, RouteInv(r)',
           \A x \in Routes \ {r} : route'[x] = route[x],
           \A g \in Grants : grant[g].status # None => grant'[g].status # None
    PROVE  \A x \in Routes : RouteInv(x)'
<1> SUFFICES ASSUME NEW x \in Routes, x # r PROVE RouteInv(x)'
  OBVIOUS
<1>1. RouteInv(x) /\ route'[x] = route[x]
  BY DEF LifeInv
<1> QED BY <1>1 DEF RouteInv

LEMMA SameRoutes ==
    ASSUME LifeInv, route' = route,
           \A g \in Grants : grant[g].status # None => grant'[g].status # None
    PROVE  \A x \in Routes : RouteInv(x)'
<1> SUFFICES ASSUME NEW x \in Routes PROVE RouteInv(x)'
  OBVIOUS
<1>1. RouteInv(x)
  BY DEF LifeInv
<1> QED BY <1>1 DEF RouteInv

LEMMA GrantsFrame ==
    ASSUME LifeInv, NEW g \in Grants, GrantInv(g)',
           \A x \in Grants \ {g} : grant'[x] = grant[x]
    PROVE  \A x \in Grants : GrantInv(x)'
<1> SUFFICES ASSUME NEW x \in Grants, x # g PROVE GrantInv(x)'
  OBVIOUS
<1>1. GrantInv(x) /\ grant'[x] = grant[x]
  BY DEF LifeInv
<1> QED BY <1>1 DEF GrantInv

LEMMA SameGrants ==
    ASSUME LifeInv, grant' = grant
    PROVE  \A x \in Grants : GrantInv(x)'
BY DEF LifeInv, GrantInv

LEMMA SameWriters ==
    ASSUME LifeInv, run' = run, \A t \in Tasks : task'[t].status = task[t].status
    PROVE  WriterInv'
<1>1. Writers' = Writers
  BY DEF Writers
<1>2. \A x \in Writers : x[1] \in Tasks
  BY DEF Writers
<1> QED BY <1>1, <1>2 DEF LifeInv, WriterInv

LEMMA ClaimsFrame ==
    ASSUME LifeInv, run' = run,
           \A g \in Grants : RunsBy(g) # {} =>
               /\ grant'[g].task = grant[g].task
               /\ grant'[g].attempt = grant[g].attempt
               /\ grant'[g].status = grant[g].status
               /\ grant'[g].claim = grant[g].claim
               /\ rec'[g][grant[g].claim].phase \in {"PENDING", "READY"}
    PROVE  GrantClaimsOnce'
<1> SUFFICES ASSUME NEW g \in Grants
             PROVE  /\ RunsBy(g)' \subseteq {RunOf(g)'}
                    /\ RunsBy(g)' # {} => /\ grant'[g].status = "CONSUMED"
                                          /\ Claim(g)'.phase \in {"PENDING", "READY"}
  BY DEF GrantClaimsOnce
<1>1. RunsBy(g)' = RunsBy(g)
  BY DEF RunsBy
<1>2. CASE RunsBy(g) = {}
  BY <1>1, <1>2
<1>3. CASE RunsBy(g) # {}
  <2>1. RunOf(g)' = RunOf(g)
    BY <1>3 DEF RunOf
  <2>2. RunsBy(g) \subseteq {RunOf(g)} /\ grant[g].status = "CONSUMED"
    BY <1>3 DEF LifeInv, GrantClaimsOnce
  <2>3. Claim(g)'.phase \in {"PENDING", "READY"}
    BY <1>3 DEF Claim
  <2> QED BY <1>1, <1>3, <2>1, <2>2, <2>3
<1> QED BY <1>2, <1>3

LEMMA ChecksFrame ==
    ASSUME LifeInv, applied' = applied,
           \A g \in Grants, op \in Ops :
               rec'[g][op].phase = "DONE" <=> rec[g][op].phase = "DONE"
    PROVE  CheckpointOnce'
BY DEF LifeInv, CheckpointOnce

\* A grant that is not CONSUMED, or whose claim is in another phase, has no run.
LEMMA Unclaimed ==
    ASSUME LifeInv, NEW g \in Grants,
           \/ grant[g].status # "CONSUMED"
           \/ Claim(g).phase \notin {"PENDING", "READY"}
    PROVE  RunsBy(g) = {}
BY DEF LifeInv, GrantClaimsOnce

\* The operation a grant with a run claimed by is in phase PENDING or READY.
LEMMA Claimed ==
    ASSUME LifeInv, NEW g \in Grants, RunsBy(g) # {}
    PROVE  /\ grant[g].status = "CONSUMED"
           /\ grant[g].claim \in Ops
           /\ rec[g][grant[g].claim].phase \in {"PENDING", "READY"}
BY DEF LifeInv, GrantClaimsOnce, GrantInv, Claim

-----------------------------------------------------------------------------
\* One lemma per action.

LEMMA CreateGrantKeeps ==
    ASSUME LifeInv, NEW g \in Grants, NEW t \in Tasks, CreateGrant(g, t)
    PROVE  LifeInv'
<1> DEFINE n == Cardinality(Made(t)) + 1
           v == [NoGrant EXCEPT !.status = "ISSUED", !.task = t, !.rev = task[t].rev,
                                !.attempt = n]
<1>1. n \in Attempts /\ n \in 0..MaxAttempts
  BY NextAttempt DEF CreateGrant, Attempts
<1>2. task[t].rev \in 0..MaxRevisions
  BY TypeParts DEF LifeInv, TaskRecords
<1>3. /\ grant' = [grant EXCEPT ![g] = v]
      /\ grant[g].status = None
      /\ UNCHANGED <<task, run, cap, paused, rec, route, applied>>
  BY DEF CreateGrant
<1> HIDE DEF n
<1>4. v \in GrantRecords /\ v.status = "ISSUED" /\ v.task = t /\ v.attempt = n
  BY <1>1, <1>2 DEF GrantRecords, NoGrant
<1> HIDE DEF v
<1>5. grant \in [Grants -> GrantRecords]
  BY TypeParts DEF LifeInv
<1>6. grant' \in [Grants -> GrantRecords]
  BY <1>3, <1>4, <1>5
<1>15. TypeOK'
  BY <1>3, <1>6, TypeParts, TypePartsNext DEF LifeInv
<1>7. grant'[g].status = "ISSUED" /\ grant'[g].task = t /\ grant'[g].attempt = n
  BY <1>3, <1>4, <1>5
<1>8. \A x \in Grants \ {g} : grant'[x] = grant[x]
  BY <1>3, <1>5
<1>9. \A x \in Grants : grant[x].status # None => grant'[x].status # None
  BY <1>3, <1>8
<1>10. \A x \in Routes : RouteInv(x)'
  BY <1>3, <1>9, SameRoutes
<1>11. \A x \in Grants : GrantInv(x)'
  BY <1>1, <1>7, <1>8, GrantsFrame DEF GrantInv
<1>12. WriterInv'
  BY <1>3, SameWriters
<1>13. GrantClaimsOnce'
  BY <1>3, <1>8, Claimed, ClaimsFrame DEF None
<1>14. CheckpointOnce'
  BY <1>3, ChecksFrame
<1> QED BY <1>15, <1>10, <1>11, <1>12, <1>13, <1>14 DEF LifeInv

LEMMA RevokeGrantKeeps ==
    ASSUME LifeInv, NEW g \in Grants, RevokeGrant(g)
    PROVE  LifeInv'
<1>1. grant \in [Grants -> GrantRecords]
  BY TypeParts DEF LifeInv
<1>2. /\ grant[g].status = "ISSUED"
      /\ grant' = [grant EXCEPT ![g].status = "REVOKED"]
      /\ UNCHANGED <<task, run, cap, paused, rec, route, applied>>
  BY DEF RevokeGrant
<1>3. grant' \in [Grants -> GrantRecords]
  BY <1>1, <1>2 DEF GrantRecords
<1>4. TypeOK'
  BY <1>2, <1>3, TypeParts, TypePartsNext DEF LifeInv
<1>5. \A x \in Grants \ {g} : grant'[x] = grant[x]
  BY <1>1, <1>2
<1>6. /\ grant'[g].status = "REVOKED" /\ grant'[g].task = grant[g].task
      /\ grant'[g].attempt = grant[g].attempt
  BY <1>1, <1>2 DEF GrantRecords
<1>7. \A x \in Grants : grant[x].status # None => grant'[x].status # None
  BY <1>5, <1>6 DEF None
<1>8. \A x \in Routes : RouteInv(x)'
  BY <1>2, <1>7, SameRoutes
<1>9. GrantInv(g)'
  BY <1>2, <1>6 DEF LifeInv, GrantInv, None
<1>10. \A x \in Grants : GrantInv(x)'
  BY <1>5, <1>9, GrantsFrame
<1>11. WriterInv'
  BY <1>2, SameWriters
<1>12. GrantClaimsOnce'
  BY <1>2, <1>5, Claimed, ClaimsFrame
<1>13. CheckpointOnce'
  BY <1>2, ChecksFrame
<1> QED BY <1>4, <1>8, <1>10, <1>11, <1>12, <1>13 DEF LifeInv

\* A step that changes nothing but one route, to one that keeps RouteInv.
LEMMA RouteOnlyKeeps ==
    ASSUME LifeInv, NEW r \in Routes,
           route' \in [Routes -> RouteRecords],
           \A x \in Routes \ {r} : route'[x] = route[x],
           RouteInv(r)',
           UNCHANGED <<task, run, cap, paused, grant, rec, applied>>
    PROVE  LifeInv'
<1>1. TypeOK'
  BY TypeParts, TypePartsNext DEF LifeInv
<1>2. \A x \in Routes : RouteInv(x)'
  BY RoutesFrame
<1>3. GrantClaimsOnce'
  BY Claimed, ClaimsFrame
<1> QED BY <1>1, <1>2, <1>3, SameGrants, SameWriters, ChecksFrame DEF LifeInv

LEMMA OpenRouteKeeps ==
    ASSUME LifeInv, NEW r \in Routes, NEW g \in Grants, OpenRoute(r, g)
    PROVE  LifeInv'
<1> DEFINE ready == grant[g].status = "CONSUMED" /\ Claim(g).phase = "READY"
           v == [at |-> "idle", grant |-> g, op |-> None, bound |-> ready]
<1>1. /\ route' = [route EXCEPT ![r] = v] /\ grant[g].status # None
      /\ UNCHANGED <<task, run, cap, paused, grant, rec, applied>>
  BY DEF OpenRoute
<1>2. v \in RouteRecords /\ v.at = "idle" /\ v.grant = g
  BY DEF RouteRecords
<1> HIDE DEF v
<1>3. route \in [Routes -> RouteRecords]
  BY TypeParts DEF LifeInv
<1>4. route' \in [Routes -> RouteRecords] /\ route'[r] = v
  BY <1>1, <1>2, <1>3
<1>5. \A x \in Routes \ {r} : route'[x] = route[x]
  BY <1>1, <1>3
<1>6. RouteInv(r)'
  BY <1>1, <1>2, <1>4 DEF RouteInv, Busy
<1> QED BY <1>1, <1>4, <1>5, <1>6, RouteOnlyKeeps

LEMMA CloseRouteKeeps ==
    ASSUME LifeInv, NEW r \in Routes, CloseRoute(r)
    PROVE  LifeInv'
<1>1. Shut \in RouteRecords /\ Shut.at = "shut"
  BY DEF RouteRecords, Shut
<1>2. route \in [Routes -> RouteRecords]
  BY TypeParts DEF LifeInv
<1>3. /\ route' = [route EXCEPT ![r] = Shut]
      /\ UNCHANGED <<task, run, cap, paused, grant, rec, applied>>
  BY DEF CloseRoute
<1>4. route' \in [Routes -> RouteRecords] /\ route'[r] = Shut
  BY <1>1, <1>2, <1>3
<1>5. \A x \in Routes \ {r} : route'[x] = route[x]
  BY <1>2, <1>3
<1>6. RouteInv(r)'
  BY <1>1, <1>4 DEF RouteInv, Busy
<1> QED BY <1>3, <1>4, <1>5, <1>6, RouteOnlyKeeps

LEMMA GiveUpKeeps ==
    ASSUME LifeInv, NEW r \in Routes, GiveUp(r)
    PROVE  LifeInv'
<1>1. route \in [Routes -> RouteRecords]
  BY TypeParts DEF LifeInv
<1>2. /\ route' = [route EXCEPT ![r].at = "idle", ![r].op = None]
      /\ UNCHANGED <<task, run, cap, paused, grant, rec, applied>>
      /\ route[r].at # "shut"
  BY DEF GiveUp
<1>3. route' \in [Routes -> RouteRecords]
  BY ZenonT(40), <1>1, <1>2 DEF RouteRecords
<1>4. route'[r].at = "idle" /\ route'[r].grant = route[r].grant
  BY <1>1, <1>2 DEF RouteRecords
<1>5. \A x \in Routes \ {r} : route'[x] = route[x]
  BY <1>1, <1>2
<1>6. RouteInv(r)'
  BY <1>2, <1>4, Acting DEF RouteInv, Busy
<1> QED BY <1>2, <1>3, <1>5, <1>6, RouteOnlyKeeps

LEMMA NativePauseKeeps ==
    ASSUME LifeInv, NativePause
    PROVE  LifeInv'
<1>1. paused' \in BOOLEAN /\ UNCHANGED <<task, run, cap, grant, rec, route, applied>>
  BY TypeParts DEF NativePause, LifeInv
<1>2. TypeOK'
  BY <1>1, TypeParts, TypePartsNext DEF LifeInv
<1>3. GrantClaimsOnce'
  BY <1>1, Claimed, ClaimsFrame
<1> QED BY <1>1, <1>2, <1>3, SameRoutes, SameGrants, SameWriters, ChecksFrame DEF LifeInv

\* The updates of one route and of one operation record keep their types.
LEMMA RouteUpdate ==
    ASSUME route \in [Routes -> RouteRecords], NEW r \in Routes,
           NEW a \in {"idle", "reserved", "pending", "published", "prepared"},
           NEW o \in Ops \cup {None},
           route' = [route EXCEPT ![r].at = a, ![r].op = o]
    PROVE  route' \in [Routes -> RouteRecords]
<1>1. [[route[r] EXCEPT !.at = a] EXCEPT !.op = o] \in RouteRecords
  BY DEF RouteRecords
<1> QED BY <1>1

LEMMA RecUpdate ==
    ASSUME rec \in [Grants -> [Ops -> OpRecords]], NEW g \in Grants, NEW op \in Ops,
           NEW p \in Phases, rec' = [rec EXCEPT ![g][op].phase = p]
    PROVE  rec' \in [Grants -> [Ops -> OpRecords]]
<1>1. [rec[g][op] EXCEPT !.phase = p] \in OpRecords
  BY DEF OpRecords
<1>2. [rec[g] EXCEPT ![op] = [rec[g][op] EXCEPT !.phase = p]] \in [Ops -> OpRecords]
  BY <1>1
<1>3. rec' = [rec EXCEPT ![g] = [rec[g] EXCEPT ![op] = [rec[g][op] EXCEPT !.phase = p]]]
  OBVIOUS
<1> QED BY <1>2, <1>3

\* A step of a worker's call that leaves the native rows alone: it changes one
\* route, its grant and one operation record of that grant.
LEMMA CallStepKeeps ==
    ASSUME LifeInv, NEW r \in Routes, NEW g \in Grants, NEW op \in Ops,
           UNCHANGED <<task, run, cap, paused>>,
           route' \in [Routes -> RouteRecords],
           grant' \in [Grants -> GrantRecords],
           rec' \in [Grants -> [Ops -> OpRecords]],
           applied' \in [Grants -> [Ops -> 0..2]],
           \A x \in Routes \ {r} : route'[x] = route[x],
           \A x \in Grants \ {g} : grant'[x] = grant[x],
           \A x \in Grants, o \in Ops : x # g \/ o # op => rec'[x][o] = rec[x][o],
           grant'[g].status # None,
           RouteInv(r)', GrantInv(g)', CheckpointOnce',
           RunsBy(g) # {} =>
               /\ grant'[g].task = grant[g].task
               /\ grant'[g].attempt = grant[g].attempt
               /\ grant'[g].status = grant[g].status
               /\ grant'[g].claim = grant[g].claim
               /\ rec'[g][grant[g].claim].phase \in {"PENDING", "READY"}
    PROVE  LifeInv'
<1>1. TypeOK'
  BY TypeParts, TypePartsNext DEF LifeInv
<1>2. \A x \in Grants : grant[x].status # None => grant'[x].status # None
  OBVIOUS
<1>3. \A x \in Routes : RouteInv(x)'
  BY <1>2, RoutesFrame
<1>4. \A x \in Grants : GrantInv(x)'
  BY GrantsFrame
<1>5. \A x \in Grants : RunsBy(x) # {} =>
          /\ grant'[x].task = grant[x].task
          /\ grant'[x].attempt = grant[x].attempt
          /\ grant'[x].status = grant[x].status
          /\ grant'[x].claim = grant[x].claim
          /\ rec'[x][grant[x].claim].phase \in {"PENDING", "READY"}
  BY Claimed
<1>6. GrantClaimsOnce'
  BY <1>5, ClaimsFrame
<1> QED BY <1>1, <1>3, <1>4, <1>6, SameWriters DEF LifeInv

LEMMA ReserveKeeps ==
    ASSUME LifeInv, NEW r \in Routes, NEW op \in Ops, Reserve(r, op)
    PROVE  LifeInv'
<1> PICK g \in Grants : g = route[r].grant
  BY Acting DEF Reserve
<1>1. /\ route[r].at = "idle" /\ rec[g][op].phase = None /\ grant[g].status = "ISSUED"
      /\ UNCHANGED <<task, run, cap, paused, applied>>
  BY DEF Reserve
<1>a. grant' = [grant EXCEPT ![g].status = "RESERVED", ![g].claim = op]
  BY DEF Reserve
<1>b. rec' = [rec EXCEPT ![g][op] = [phase |-> "PREPARED", kind |-> "claim"]]
  BY DEF Reserve
<1>c. route' = [route EXCEPT ![r].at = "reserved", ![r].op = op]
  BY DEF Reserve
<1>2. /\ g \in Grants /\ grant[g].task \in Tasks /\ grant[g].attempt \in Attempts
  BY <1>1, Acting
<1>r. route \in [Routes -> RouteRecords]
  BY TypeParts DEF LifeInv
<1>g. grant \in [Grants -> GrantRecords]
  BY TypeParts DEF LifeInv
<1>o. rec \in [Grants -> [Ops -> OpRecords]]
  BY TypeParts DEF LifeInv
<1>p. applied \in [Grants -> [Ops -> 0..2]]
  BY TypeParts DEF LifeInv
<1>4. route'[r].grant = g /\ route'[r].op = op
  BY <1>c, <1>r DEF RouteRecords
<1>5. route' \in [Routes -> RouteRecords]
  BY <1>c, <1>r, RouteUpdate
<1>13. \A x \in Routes \ {r} : route'[x] = route[x]
  BY <1>c, <1>r
<1>6. grant' \in [Grants -> GrantRecords]
  BY <1>a, <1>g DEF GrantRecords
<1>14. \A x \in Grants \ {g} : grant'[x] = grant[x]
  BY <1>a, <1>g
<1>7. /\ grant'[g].status = "RESERVED" /\ grant'[g].claim = op
      /\ grant'[g].task = grant[g].task /\ grant'[g].attempt = grant[g].attempt
  BY <1>1, <1>a, <1>g DEF GrantRecords
<1>8. rec' \in [Grants -> [Ops -> OpRecords]]
  BY <1>b, <1>o DEF OpRecords, Phases
<1>15. /\ rec'[g][op].phase = "PREPARED"
       /\ \A x \in Grants, o \in Ops : x # g \/ o # op => rec'[x][o] = rec[x][o]
  BY <1>b, <1>o DEF OpRecords
<1>9. RouteInv(r)' /\ GrantInv(g)'
  BY <1>2, <1>4, <1>7 DEF RouteInv, GrantInv, None
<1>10. CheckpointOnce'
  BY <1>1, <1>2, <1>15, ChecksFrame DEF None
<1>11. RunsBy(g) = {}
  BY <1>1, <1>2, Unclaimed
<1>12. applied' \in [Grants -> [Ops -> 0..2]] /\ grant'[g].status # None
  BY <1>1, <1>p, <1>7 DEF None
<1> QED BY ZenonT(40), <1>1, <1>2, <1>5, <1>6, <1>8, <1>9, <1>10, <1>11, <1>12, <1>13, <1>14, <1>15,
           CallStepKeeps

LEMMA RefuseKeeps ==
    ASSUME LifeInv, NEW r \in Routes, Refuse(r)
    PROVE  LifeInv'
<1> PICK g \in Grants, op \in Ops : g = route[r].grant /\ op = route[r].op
  BY Acting DEF Refuse, Busy
<1>1. /\ route[r].at = "reserved" /\ grant[g].status = "RESERVED" /\ grant[g].claim = op
      /\ rec[g][op] = [phase |-> "PREPARED", kind |-> "claim"]
      /\ UNCHANGED <<task, run, cap, paused, applied>>
  BY DEF Refuse, StillReserved
<1>a. grant' = [grant EXCEPT ![g].status = "CONSUMED"]
  BY DEF Refuse, StillReserved
<1>b. rec' = [rec EXCEPT ![g][op].phase = "REFUSED"]
  BY DEF Refuse, StillReserved
<1>c. route' = [route EXCEPT ![r].at = "idle", ![r].op = None]
  BY DEF Refuse, StillReserved
<1>2. /\ g \in Grants /\ op \in Ops /\ grant[g].task \in Tasks /\ grant[g].attempt \in Attempts
  BY <1>1, Acting DEF Busy
<1>r. route \in [Routes -> RouteRecords]
  BY TypeParts DEF LifeInv
<1>g. grant \in [Grants -> GrantRecords]
  BY TypeParts DEF LifeInv
<1>o. rec \in [Grants -> [Ops -> OpRecords]]
  BY TypeParts DEF LifeInv
<1>p. applied \in [Grants -> [Ops -> 0..2]]
  BY TypeParts DEF LifeInv
<1>4. route'[r].grant = g /\ route'[r].at = "idle"
  BY <1>c, <1>r DEF RouteRecords
<1>5. route' \in [Routes -> RouteRecords]
  BY <1>c, <1>r, RouteUpdate
<1>13. \A x \in Routes \ {r} : route'[x] = route[x]
  BY <1>c, <1>r
<1>6. grant' \in [Grants -> GrantRecords]
  BY <1>a, <1>g DEF GrantRecords
<1>14. \A x \in Grants \ {g} : grant'[x] = grant[x]
  BY <1>a, <1>g
<1>7. /\ grant'[g].status = "CONSUMED" /\ grant'[g].claim = op
      /\ grant'[g].task = grant[g].task /\ grant'[g].attempt = grant[g].attempt
  BY SMTT(30), <1>1, <1>a, <1>g DEF GrantRecords
<1>8. rec' \in [Grants -> [Ops -> OpRecords]]
  BY <1>b, <1>o, RecUpdate DEF Phases
<1>15. /\ rec'[g][op].phase = "REFUSED"
       /\ \A x \in Grants, o \in Ops : x # g \/ o # op => rec'[x][o] = rec[x][o]
  BY <1>b, <1>o DEF OpRecords
<1>9. RouteInv(r)' /\ GrantInv(g)'
  BY <1>2, <1>4, <1>7 DEF RouteInv, GrantInv, None, Busy
<1>10. CheckpointOnce'
  BY <1>1, <1>2, <1>15, ChecksFrame
<1>11. RunsBy(g) = {}
  BY <1>1, <1>2, Unclaimed
<1>12. applied' \in [Grants -> [Ops -> 0..2]] /\ grant'[g].status # None
  BY <1>1, <1>p, <1>7 DEF None
<1> QED BY ZenonT(40), <1>1, <1>2, <1>5, <1>6, <1>8, <1>9, <1>10, <1>11, <1>12, <1>13, <1>14, <1>15,
           CallStepKeeps

LEMMA PrepareKeeps ==
    ASSUME LifeInv, NEW r \in Routes, NEW op \in Ops, Prepare(r, op)
    PROVE  LifeInv'
<1> PICK g \in Grants : g = route[r].grant
  BY Acting DEF Prepare
<1>1. /\ route[r].at = "idle" /\ rec[g][op].phase = None
      /\ UNCHANGED <<task, run, cap, paused, applied>>
  BY DEF Prepare
<1>a. grant' = [grant EXCEPT ![g].checks = @ \cup {op}]
  BY DEF Prepare
<1>b. rec' = [rec EXCEPT ![g][op] = [phase |-> "PREPARED", kind |-> "checkpoint"]]
  BY DEF Prepare
<1>c. route' = [route EXCEPT ![r].at = "prepared", ![r].op = op]
  BY DEF Prepare
<1>2. /\ g \in Grants /\ grant[g].status # None
  BY <1>1, Acting
<1>r. route \in [Routes -> RouteRecords]
  BY TypeParts DEF LifeInv
<1>g. grant \in [Grants -> GrantRecords]
  BY TypeParts DEF LifeInv
<1>o. rec \in [Grants -> [Ops -> OpRecords]]
  BY TypeParts DEF LifeInv
<1>p. applied \in [Grants -> [Ops -> 0..2]]
  BY TypeParts DEF LifeInv
<1>4. route'[r].grant = g /\ route'[r].op = op
  BY <1>c, <1>r DEF RouteRecords
<1>5. route' \in [Routes -> RouteRecords]
  BY <1>c, <1>r, RouteUpdate
<1>13. \A x \in Routes \ {r} : route'[x] = route[x]
  BY <1>c, <1>r
<1>6. grant' \in [Grants -> GrantRecords]
  BY <1>a, <1>g DEF GrantRecords
<1>14. \A x \in Grants \ {g} : grant'[x] = grant[x]
  BY <1>a, <1>g
<1>7. /\ grant'[g].status = grant[g].status /\ grant'[g].claim = grant[g].claim
      /\ grant'[g].task = grant[g].task /\ grant'[g].attempt = grant[g].attempt
  BY <1>1, <1>a, <1>g DEF GrantRecords
<1>8. rec' \in [Grants -> [Ops -> OpRecords]]
  BY <1>b, <1>o DEF OpRecords, Phases
<1>15. /\ rec'[g][op].phase = "PREPARED"
       /\ \A x \in Grants, o \in Ops : x # g \/ o # op => rec'[x][o] = rec[x][o]
  BY <1>b, <1>o DEF OpRecords
<1>9. RouteInv(r)' /\ GrantInv(g)'
  BY <1>2, <1>4, <1>7 DEF LifeInv, RouteInv, GrantInv
<1>10. CheckpointOnce'
  BY <1>1, <1>2, <1>15, ChecksFrame DEF None
<1>11. RunsBy(g) # {} => rec'[g][grant[g].claim].phase \in {"PENDING", "READY"}
  BY <1>1, <1>2, <1>15, Claimed DEF None
<1>12. applied' \in [Grants -> [Ops -> 0..2]] /\ grant'[g].status # None
  BY <1>1, <1>2, <1>p, <1>7
<1> QED BY <1>1, <1>2, <1>5, <1>6, <1>7, <1>8, <1>9, <1>10, <1>11, <1>12, <1>13, <1>14, <1>15,
           CallStepKeeps

LEMMA MarkReadyKeeps ==
    ASSUME LifeInv, NEW r \in Routes, MarkReady(r)
    PROVE  LifeInv'
<1> PICK g \in Grants, op \in Ops : g = route[r].grant /\ op = route[r].op
  BY Acting DEF MarkReady, Busy
<1>1. /\ route[r].at = "published" /\ rec[g][op].phase = "PENDING"
      /\ UNCHANGED <<task, run, cap, paused, grant, applied>>
  BY DEF MarkReady
<1>b. rec' = [rec EXCEPT ![g][op].phase = "READY"]
  BY DEF MarkReady
<1>c. route' = [route EXCEPT ![r].at = "idle", ![r].op = None, ![r].bound = TRUE]
  BY DEF MarkReady
<1>2. grant[g].status # None
  BY <1>1, Acting
<1>r. route \in [Routes -> RouteRecords]
  BY TypeParts DEF LifeInv
<1>g. grant \in [Grants -> GrantRecords]
  BY TypeParts DEF LifeInv
<1>o. rec \in [Grants -> [Ops -> OpRecords]]
  BY TypeParts DEF LifeInv
<1>p. applied \in [Grants -> [Ops -> 0..2]]
  BY TypeParts DEF LifeInv
<1>3. [[[route[r] EXCEPT !.at = "idle"] EXCEPT !.op = None] EXCEPT !.bound = TRUE] \in RouteRecords
  BY <1>r DEF RouteRecords
<1>4. route' \in [Routes -> RouteRecords]
  BY <1>c, <1>r, <1>3
<1>5. route'[r].at = "idle" /\ route'[r].grant = g
  BY <1>c, <1>r DEF RouteRecords
<1>6. \A x \in Routes \ {r} : route'[x] = route[x]
  BY <1>c, <1>r
<1>7. rec' \in [Grants -> [Ops -> OpRecords]]
  BY <1>b, <1>o, RecUpdate DEF Phases
<1>8. /\ rec'[g][op].phase = "READY"
      /\ \A x \in Grants, o \in Ops : x # g \/ o # op => rec'[x][o] = rec[x][o]
  BY <1>b, <1>o DEF OpRecords
<1>9. RouteInv(r)' /\ GrantInv(g)'
  BY <1>1, <1>2, <1>5, SameGrants DEF RouteInv, Busy
<1>10. CheckpointOnce'
  BY <1>1, <1>8, ChecksFrame
<1>11. RunsBy(g) # {} => rec'[g][grant[g].claim].phase \in {"PENDING", "READY"}
  BY <1>8, Claimed
<1>12. /\ grant' \in [Grants -> GrantRecords] /\ applied' \in [Grants -> [Ops -> 0..2]]
       /\ grant'[g].status # None
  BY <1>1, <1>2, <1>g, <1>p
<1> QED BY <1>1, <1>4, <1>6, <1>7, <1>8, <1>9, <1>10, <1>11, <1>12, CallStepKeeps

LEMMA CheckpointKeeps ==
    ASSUME LifeInv, NEW r \in Routes, Checkpoint(r)
    PROVE  LifeInv'
<1> PICK g \in Grants, op \in Ops : g = route[r].grant /\ op = route[r].op
  BY Acting DEF Checkpoint, Busy
<1>1. /\ route[r].at = "prepared" /\ rec[g][op].phase = "PREPARED"
      /\ UNCHANGED <<task, run, cap, paused, grant>>
  BY DEF Checkpoint
<1>a. applied' = [applied EXCEPT ![g][op] = @ + 1]
  BY DEF Checkpoint
<1>b. rec' = [rec EXCEPT ![g][op].phase = "DONE"]
  BY DEF Checkpoint
<1>c. route' = [route EXCEPT ![r].at = "idle", ![r].op = None]
  BY DEF Checkpoint
<1>2. grant[g].status # None
  BY <1>1, Acting
<1>r. route \in [Routes -> RouteRecords]
  BY TypeParts DEF LifeInv
<1>g. grant \in [Grants -> GrantRecords]
  BY TypeParts DEF LifeInv
<1>o. rec \in [Grants -> [Ops -> OpRecords]]
  BY TypeParts DEF LifeInv
<1>p. applied \in [Grants -> [Ops -> 0..2]]
  BY TypeParts DEF LifeInv
<1>4. route' \in [Routes -> RouteRecords]
  BY <1>c, <1>r, RouteUpdate
<1>5. route'[r].at = "idle" /\ route'[r].grant = g
  BY SMTT(30), <1>c, <1>r DEF RouteRecords
<1>6. \A x \in Routes \ {r} : route'[x] = route[x]
  BY <1>c, <1>r
<1>7. rec' \in [Grants -> [Ops -> OpRecords]]
  BY <1>b, <1>o, RecUpdate DEF Phases
<1>8. /\ rec'[g][op].phase = "DONE"
      /\ \A x \in Grants, o \in Ops : x # g \/ o # op => rec'[x][o] = rec[x][o]
  BY <1>b, <1>o DEF OpRecords
<1>9. RouteInv(r)' /\ GrantInv(g)'
  BY <1>1, <1>2, <1>5, SameGrants DEF RouteInv, Busy
<1>10. applied[g][op] = 0
  BY <1>1 DEF LifeInv, CheckpointOnce
<1>11. applied' \in [Grants -> [Ops -> 0..2]] /\ applied'[g][op] = 1
  BY <1>a, <1>p, <1>10
<1>12. \A x \in Grants, o \in Ops : x # g \/ o # op => applied'[x][o] = applied[x][o]
  BY <1>a, <1>p
<1>13. CheckpointOnce'
  BY <1>8, <1>11, <1>12 DEF LifeInv, CheckpointOnce
<1>14. RunsBy(g) # {} => rec'[g][grant[g].claim].phase \in {"PENDING", "READY"}
  BY <1>1, <1>8, Claimed
<1>15. grant' \in [Grants -> GrantRecords] /\ grant'[g].status # None
  BY <1>1, <1>2, <1>g
<1> QED BY <1>1, <1>4, <1>6, <1>7, <1>8, <1>9, <1>11, <1>13, <1>14, <1>15, CallStepKeeps

LEMMA PublishKeeps ==
    ASSUME LifeInv, NEW r \in Routes, Publish(r)
    PROVE  LifeInv'
<1>1. /\ route[r].at = "pending" /\ cap' = cap \cup {RunOf(route[r].grant)}
      /\ route' = [route EXCEPT ![r].at = "published"]
      /\ UNCHANGED <<task, run, paused, grant, rec, applied>>
  BY DEF Publish
<1>2. /\ route[r].grant \in Grants /\ grant[route[r].grant].status # None
      /\ RunOf(route[r].grant) \in Tasks \X Attempts /\ route[r].op \in Ops
  BY <1>1, Acting DEF RunOf, Busy
<1>r. route \in [Routes -> RouteRecords]
  BY TypeParts DEF LifeInv
<1>3. [route[r] EXCEPT !.at = "published"] \in RouteRecords
  BY <1>r DEF RouteRecords
<1>4. route' \in [Routes -> RouteRecords]
  BY <1>1, <1>r, <1>3
<1>5. /\ route'[r].at = "published" /\ route'[r].grant = route[r].grant
      /\ route'[r].op = route[r].op
  BY <1>1, <1>r DEF RouteRecords
<1>6. \A x \in Routes \ {r} : route'[x] = route[x]
  BY <1>1, <1>r
<1>7. RouteInv(r)'
  BY <1>1, <1>2, <1>5 DEF RouteInv
<1>8. cap' \subseteq Tasks \X Attempts
  BY <1>1, <1>2, TypeParts DEF LifeInv
<1>9. TypeOK'
  BY <1>1, <1>4, <1>8, TypeParts, TypePartsNext DEF LifeInv
<1>10. \A x \in Routes : RouteInv(x)'
  BY <1>1, <1>6, <1>7, RoutesFrame
<1>11. GrantClaimsOnce'
  BY <1>1, Claimed, ClaimsFrame
<1> QED BY <1>1, <1>9, <1>10, <1>11, SameGrants, SameWriters, ChecksFrame DEF LifeInv

-----------------------------------------------------------------------------
\* Steps that change the row of one run.

\* The only run that changed is <<t, n>>.
OnlyRun(t, n) ==
    \A x \in Tasks \X Attempts : x # <<t, n>> => run'[x[1]][x[2]] = run[x[1]][x[2]]

LEMMA RunUpdate ==
    ASSUME run \in [Tasks -> [Attempts -> RunRecords]], NEW t \in Tasks, NEW n \in Attempts,
           NEW v \in RunRecords, run' = [run EXCEPT ![t][n] = v]
    PROVE  /\ run' \in [Tasks -> [Attempts -> RunRecords]]
           /\ run'[t][n] = v
           /\ OnlyRun(t, n)
<1>1. [run[t] EXCEPT ![n] = v] \in [Attempts -> RunRecords]
  OBVIOUS
<1>2. run' \in [Tasks -> [Attempts -> RunRecords]]
  BY <1>1
<1>3. run'[t][n] = v
  OBVIOUS
<1>4. ASSUME NEW x \in Tasks \X Attempts, x # <<t, n>>
      PROVE  run'[x[1]][x[2]] = run[x[1]][x[2]]
  <2>1. x[1] \in Tasks /\ x[2] \in Attempts /\ x = <<x[1], x[2]>>
    BY <1>4
  <2>2. CASE x[1] # t
    BY <2>1, <2>2
  <2>3. CASE x[1] = t /\ x[2] # n
    BY <2>1, <2>3
  <2> QED BY <1>4, <2>1, <2>2, <2>3
<1> QED BY <1>2, <1>3, <1>4 DEF OnlyRun

LEMMA StateUpdate ==
    ASSUME run \in [Tasks -> [Attempts -> RunRecords]], NEW t \in Tasks, NEW n \in Attempts,
           NEW s \in {"held", "ended"}, run' = [run EXCEPT ![t][n].state = s]
    PROVE  /\ run' \in [Tasks -> [Attempts -> RunRecords]]
           /\ run'[t][n].state = s /\ run'[t][n].by = run[t][n].by
           /\ OnlyRun(t, n)
<1>0. run[t] \in [Attempts -> RunRecords] /\ run[t][n] \in RunRecords
  OBVIOUS
<1>1. [run[t][n] EXCEPT !.state = s] \in RunRecords
  BY <1>0 DEF RunRecords
<1>2. PICK v \in RunRecords : v = [run[t][n] EXCEPT !.state = s]
  BY <1>1
<1>3. v.state = s /\ v.by = run[t][n].by
  BY <1>0, <1>2 DEF RunRecords
<1>4. run' = [run EXCEPT ![t][n] = v]
  BY <1>2
<1>5. /\ run' \in [Tasks -> [Attempts -> RunRecords]] /\ run'[t][n] = v /\ OnlyRun(t, n)
  BY <1>4, RunUpdate, ZenonT(60)
<1> QED BY <1>3, <1>5

\* The first run that holds the key: both claim paths find no writer.
LEMMA WriterOpens ==
    ASSUME LifeInv, NEW t \in Tasks, NEW n \in Attempts, Writers = {}, OnlyRun(t, n),
           task'[t].status = "IN_PROGRESS"
    PROVE  WriterInv'
<1>1. \A x \in Writers' : x = <<t, n>>
  BY DEF Writers, OnlyRun
<1> QED BY <1>1 DEF WriterInv

\* A step after which a writer held the key before it.
LEMMA WriterStays ==
    ASSUME LifeInv, NEW t \in Tasks, NEW n \in Attempts, <<t, n>> \in Writers, OnlyRun(t, n),
           task' = task
    PROVE  WriterInv'
<1>1. Writers' \subseteq Writers
  BY DEF Writers, OnlyRun
<1> QED BY <1>1 DEF LifeInv, WriterInv

\* The end of the one writer.
LEMMA WriterEnds ==
    ASSUME LifeInv, NEW t \in Tasks, NEW n \in Attempts, <<t, n>> \in Writers, OnlyRun(t, n),
           run'[t][n].state = "ended"
    PROVE  WriterInv'
<1>1. \A x \in Writers : x = <<t, n>>
  BY DEF LifeInv, WriterInv
<1>2. Writers' = {}
  BY <1>1 DEF Writers, OnlyRun
<1> QED BY <1>2 DEF WriterInv

\* A native step gives no grant a run.
LEMMA NativeClaims ==
    ASSUME LifeInv, NEW t \in Tasks, NEW n \in Attempts, OnlyRun(t, n),
           run'[t][n].by \in {run[t][n].by, Native}, grant' = grant, rec' = rec
    PROVE  GrantClaimsOnce'
<1> SUFFICES ASSUME NEW g \in Grants
             PROVE  /\ RunsBy(g)' \subseteq {RunOf(g)'}
                    /\ RunsBy(g)' # {} => /\ grant'[g].status = "CONSUMED"
                                          /\ Claim(g)'.phase \in {"PENDING", "READY"}
  BY DEF GrantClaimsOnce
<1>1. g # Native
  BY LifecycleNames
<1>2. RunsBy(g)' \subseteq RunsBy(g)
  BY <1>1 DEF RunsBy, OnlyRun
<1>3. RunOf(g)' = RunOf(g) /\ Claim(g)' = Claim(g)
  BY DEF RunOf, Claim
<1> QED BY <1>2, <1>3 DEF LifeInv, GrantClaimsOnce

LEMMA NativeClaimKeeps ==
    ASSUME LifeInv, NEW t \in Tasks, NativeClaim(t)
    PROVE  LifeInv'
<1> PICK n \in Attempts : n = Cardinality(Made(t)) + 1
  BY NextAttempt DEF NativeClaim
<1> DEFINE v == [state |-> "RUNNING", by |-> Native]
<1>1. Writers = {} /\ UNCHANGED <<cap, paused, grant, rec, route, applied>>
  BY DEF NativeClaim
<1>2. run' = [run EXCEPT ![t][n] = v]
  BY DEF NativeClaim
<1>3. task' = [task EXCEPT ![t].status = "IN_PROGRESS"]
  BY DEF NativeClaim
<1>4. v \in RunRecords /\ v.by = Native
  BY DEF RunRecords
<1> HIDE DEF v
<1>5. run \in [Tasks -> [Attempts -> RunRecords]]
  BY TypeParts DEF LifeInv
<1>6. /\ run' \in [Tasks -> [Attempts -> RunRecords]] /\ run'[t][n] = v /\ OnlyRun(t, n)
  BY <1>2, <1>4, <1>5, RunUpdate
<1>7. task \in [Tasks -> TaskRecords]
  BY TypeParts DEF LifeInv
<1>8. task' \in [Tasks -> TaskRecords] /\ task'[t].status = "IN_PROGRESS"
  BY <1>3, <1>7 DEF TaskRecords
<1>9. cap' \subseteq Tasks \X Attempts
  BY <1>1, TypeParts DEF LifeInv
<1>10. TypeOK'
  BY <1>1, <1>6, <1>8, <1>9, TypeParts, TypePartsNext DEF LifeInv
<1>11. WriterInv'
  BY <1>1, <1>6, <1>8, WriterOpens
<1>12. GrantClaimsOnce'
  BY <1>1, <1>4, <1>6, NativeClaims
<1> QED BY <1>1, <1>10, <1>11, <1>12, SameRoutes, SameGrants, ChecksFrame DEF LifeInv

LEMMA NativeSubmitKeeps ==
    ASSUME LifeInv, NEW t \in Tasks, NativeSubmit(t)
    PROVE  LifeInv'
<1>1. PICK n \in Attempts : /\ run[t][n].state = "RUNNING"
                            /\ run' = [run EXCEPT ![t][n].state = "held"]
  BY DEF NativeSubmit
<1>2. UNCHANGED <<task, cap, paused, grant, rec, route, applied>>
  BY DEF NativeSubmit
<1>3. run \in [Tasks -> [Attempts -> RunRecords]]
  BY TypeParts DEF LifeInv
<1>4. /\ run' \in [Tasks -> [Attempts -> RunRecords]]
      /\ run'[t][n].by = run[t][n].by /\ OnlyRun(t, n)
  BY <1>1, <1>3, StateUpdate
<1>5. <<t, n>> \in Writers
  BY <1>1 DEF Writers
<1>6. TypeOK'
  BY <1>2, <1>4, TypeParts, TypePartsNext DEF LifeInv
<1>7. WriterInv'
  BY <1>2, <1>4, <1>5, WriterStays
<1>8. GrantClaimsOnce'
  BY <1>2, <1>4, NativeClaims
<1> QED BY <1>2, <1>6, <1>7, <1>8, SameRoutes, SameGrants, ChecksFrame DEF LifeInv

LEMMA NativeEndKeeps ==
    ASSUME LifeInv, NEW t \in Tasks, NEW s \in {"READY", "DONE"}, NativeEnd(t, s)
    PROVE  LifeInv'
<1>1. PICK n \in Attempts : /\ run[t][n].state \in {"RUNNING", "held"}
                            /\ run' = [run EXCEPT ![t][n].state = "ended"]
  BY DEF NativeEnd
<1>2. /\ task' = [task EXCEPT ![t].status = s]
      /\ UNCHANGED <<cap, paused, grant, rec, route, applied>>
  BY DEF NativeEnd
<1>3. run \in [Tasks -> [Attempts -> RunRecords]]
  BY TypeParts DEF LifeInv
<1>4. /\ run' \in [Tasks -> [Attempts -> RunRecords]] /\ run'[t][n].state = "ended"
      /\ run'[t][n].by = run[t][n].by /\ OnlyRun(t, n)
  BY <1>1, <1>3, StateUpdate
<1>5. <<t, n>> \in Writers
  BY <1>1 DEF Writers
<1>6. task \in [Tasks -> TaskRecords]
  BY TypeParts DEF LifeInv
<1>7. task' \in [Tasks -> TaskRecords]
  BY <1>2, <1>6 DEF TaskRecords
<1>8. cap' \subseteq Tasks \X Attempts
  BY <1>2, TypeParts DEF LifeInv
<1>9. TypeOK'
  BY <1>2, <1>4, <1>7, <1>8, TypeParts, TypePartsNext DEF LifeInv
<1>10. WriterInv'
  BY <1>4, <1>5, WriterEnds
<1>11. GrantClaimsOnce'
  BY <1>2, <1>4, NativeClaims
<1> QED BY <1>2, <1>9, <1>10, <1>11, SameRoutes, SameGrants, ChecksFrame DEF LifeInv

LEMMA NativeRevokeKeeps ==
    ASSUME LifeInv, NEW t \in Tasks, NativeRevoke(t)
    PROVE  LifeInv'
<1>1. cap' \subseteq cap /\ UNCHANGED <<task, run, paused, grant, rec, route, applied>>
  BY DEF NativeRevoke
<1>2. TypeOK'
  BY <1>1, TypeParts, TypePartsNext DEF LifeInv
<1>3. WriterInv'
  BY <1>1, SameWriters
<1>4. GrantClaimsOnce'
  BY <1>1, Claimed, ClaimsFrame
<1> QED BY <1>1, <1>2, <1>3, <1>4, SameRoutes, SameGrants, ChecksFrame DEF LifeInv

LEMMA NativeReplanKeeps ==
    ASSUME LifeInv, NEW t \in Tasks, NativeReplan(t)
    PROVE  LifeInv'
<1>1. /\ task[t].rev < MaxRevisions /\ task' = [task EXCEPT ![t].rev = @ + 1]
      /\ UNCHANGED <<run, cap, paused, grant, rec, route, applied>>
  BY DEF NativeReplan
<1>2. task \in [Tasks -> TaskRecords]
  BY TypeParts DEF LifeInv
<1>3. task' \in [Tasks -> TaskRecords]
  BY <1>1, <1>2, LifecycleAssumption DEF TaskRecords
<1>4. \A x \in Tasks : task'[x].status = task[x].status
  BY <1>1, <1>2 DEF TaskRecords
<1>5. TypeOK'
  BY <1>1, <1>3, TypeParts, TypePartsNext DEF LifeInv
<1>6. WriterInv'
  BY <1>1, <1>4, SameWriters
<1>7. GrantClaimsOnce'
  BY <1>1, Claimed, ClaimsFrame
<1> QED BY <1>1, <1>5, <1>6, <1>7, SameRoutes, SameGrants, ChecksFrame DEF LifeInv

LEMMA ConsumeKeeps ==
    ASSUME LifeInv, NEW r \in Routes, Consume(r)
    PROVE  LifeInv'
<1> PICK g \in Grants, op \in Ops : g = route[r].grant /\ op = route[r].op
  BY Acting DEF Consume, Busy
<1>x. /\ route[r].at = "reserved" /\ StillReserved(r) /\ Claimable(g)
      /\ UNCHANGED <<cap, paused, applied>>
  BY DEF Consume
<1>y. /\ grant[g].status = "RESERVED" /\ grant[g].claim = op
      /\ rec[g][op] = [phase |-> "PREPARED", kind |-> "claim"]
  BY <1>x DEF StillReserved
<1>1. /\ route[r].at = "reserved" /\ Writers = {}
      /\ grant[g].status = "RESERVED" /\ grant[g].claim = op
      /\ rec[g][op].phase = "PREPARED"
      /\ UNCHANGED <<cap, paused, applied>>
  BY <1>x, <1>y DEF Claimable
<1>2. PICK t \in Tasks, n \in Attempts : t = grant[g].task /\ n = grant[g].attempt
  BY <1>1, Acting
<1>3. PICK v \in RunRecords : v = [state |-> "RUNNING", by |-> g]
  BY DEF RunRecords
<1>4. v.by = g
  BY <1>3
<1>a. grant' = [grant EXCEPT ![g].status = "CONSUMED"]
  BY DEF Consume
<1>b. rec' = [rec EXCEPT ![g][op].phase = "PENDING"]
  BY SMTT(30) DEF Consume
<1>c. route' = [route EXCEPT ![r].at = "pending"]
  BY SMTT(30) DEF Consume
<1>d. run' = [run EXCEPT ![t][n] = v]
  BY SMTT(30), <1>2, <1>3 DEF Consume
<1>e. task' = [task EXCEPT ![t].status = "IN_PROGRESS"]
  BY <1>2 DEF Consume
<1>r. route \in [Routes -> RouteRecords]
  BY TypeParts DEF LifeInv
<1>g. grant \in [Grants -> GrantRecords]
  BY TypeParts DEF LifeInv
<1>o. rec \in [Grants -> [Ops -> OpRecords]]
  BY TypeParts DEF LifeInv
<1>t. task \in [Tasks -> TaskRecords]
  BY TypeParts DEF LifeInv
<1>5. [route[r] EXCEPT !.at = "pending"] \in RouteRecords
  BY <1>r DEF RouteRecords
<1>6. route' \in [Routes -> RouteRecords]
  BY <1>c, <1>r, <1>5
<1>7. route'[r].grant = g /\ route'[r].op = op
  BY <1>c, <1>r DEF RouteRecords
<1>8. \A x \in Routes \ {r} : route'[x] = route[x]
  BY <1>c, <1>r
<1>9. grant' \in [Grants -> GrantRecords]
  BY <1>a, <1>g DEF GrantRecords
<1>10. \A x \in Grants \ {g} : grant'[x] = grant[x]
  BY <1>a, <1>g
<1>11. /\ grant'[g].status = "CONSUMED" /\ grant'[g].claim = op
       /\ grant'[g].task = t /\ grant'[g].attempt = n
  BY SMTT(30), <1>1, <1>2, <1>a, <1>g DEF GrantRecords
<1>12. rec' \in [Grants -> [Ops -> OpRecords]]
  BY <1>b, <1>o, RecUpdate DEF Phases
<1>13. /\ rec'[g][op].phase = "PENDING"
       /\ \A x \in Grants, o \in Ops : x # g \/ o # op => rec'[x][o] = rec[x][o]
  BY <1>b, <1>o DEF OpRecords
<1>14. run \in [Tasks -> [Attempts -> RunRecords]]
  BY TypeParts DEF LifeInv
<1>15. run' \in [Tasks -> [Attempts -> RunRecords]] /\ run'[t][n] = v /\ OnlyRun(t, n)
  BY <1>d, <1>14, RunUpdate, ZenonT(60)
<1>16. task' \in [Tasks -> TaskRecords] /\ task'[t].status = "IN_PROGRESS"
  BY <1>e, <1>t DEF TaskRecords
<1>17. TypeOK'
  BY <1>1, <1>6, <1>9, <1>12, <1>15, <1>16, TypeParts, TypePartsNext DEF LifeInv
<1>18. \A x \in Grants : grant[x].status # None => grant'[x].status # None
  BY <1>10, <1>11 DEF None
<1>19. RouteInv(r)' /\ GrantInv(g)'
  BY <1>7, <1>11 DEF RouteInv, GrantInv, None
<1>20. \A x \in Routes : RouteInv(x)'
  BY <1>8, <1>18, <1>19, RoutesFrame
<1>21. \A x \in Grants : GrantInv(x)'
  BY <1>10, <1>19, GrantsFrame
<1>22. WriterInv'
  BY <1>1, <1>15, <1>16, WriterOpens
<1>23. CheckpointOnce'
  BY <1>1, <1>13, ChecksFrame
<1>24. ASSUME NEW h \in Grants
       PROVE  /\ RunsBy(h)' \subseteq {RunOf(h)'}
              /\ RunsBy(h)' # {} => /\ grant'[h].status = "CONSUMED"
                                    /\ Claim(h)'.phase \in {"PENDING", "READY"}
  <2>1. CASE h = g
    <3>1. RunsBy(g) = {}
      BY <1>1, Unclaimed
    <3>2. RunsBy(g)' \subseteq {<<t, n>>}
      BY <3>1, <1>15 DEF RunsBy, OnlyRun
    <3>3. RunOf(g)' = <<t, n>> /\ Claim(g)'.phase = "PENDING"
      BY <1>11, <1>13 DEF RunOf, Claim
    <3> QED BY <2>1, <3>2, <3>3, <1>11
  <2>2. CASE h # g
    <3>1. RunsBy(h)' \subseteq RunsBy(h)
      BY <2>2, <1>4, <1>15 DEF RunsBy, OnlyRun
    <3>2. grant'[h] = grant[h]
      BY <2>2, <1>10
    <3>3. RunOf(h)' = RunOf(h)
      BY <3>2 DEF RunOf
    <3>4. CASE RunsBy(h) = {}
      BY <3>1, <3>4
    <3>5. CASE RunsBy(h) # {}
      <4>1. Claim(h)' = Claim(h)
        BY <2>2, <3>2, <3>5, <1>13, Claimed DEF Claim
      <4> QED BY <3>1, <3>2, <3>3, <4>1 DEF LifeInv, GrantClaimsOnce
    <3> QED BY <3>4, <3>5
  <2> QED BY <2>1, <2>2
<1>25. GrantClaimsOnce'
  BY <1>24 DEF GrantClaimsOnce
<1> QED BY <1>17, <1>20, <1>21, <1>22, <1>23, <1>25 DEF LifeInv

-----------------------------------------------------------------------------
LEMMA LifeNext == LifeInv /\ [Next]_vars => LifeInv'
<1> SUFFICES ASSUME LifeInv, [Next]_vars PROVE LifeInv'
  OBVIOUS
<1>1. ASSUME NEW g \in Grants, NEW t \in Tasks, CreateGrant(g, t) PROVE LifeInv'
  BY <1>1, CreateGrantKeeps
<1>2. ASSUME NEW g \in Grants, RevokeGrant(g) PROVE LifeInv'
  BY <1>2, RevokeGrantKeeps
<1>3. ASSUME NEW r \in Routes, NEW g \in Grants, OpenRoute(r, g) PROVE LifeInv'
  BY <1>3, OpenRouteKeeps
<1>4. ASSUME NEW r \in Routes, NEW op \in Ops, Reserve(r, op) PROVE LifeInv'
  BY <1>4, ReserveKeeps
<1>5. ASSUME NEW r \in Routes, NEW op \in Ops, Prepare(r, op) PROVE LifeInv'
  BY <1>5, PrepareKeeps
<1>6. ASSUME NEW r \in Routes, CloseRoute(r) PROVE LifeInv'
  BY <1>6, CloseRouteKeeps
<1>7. ASSUME NEW r \in Routes, Consume(r) PROVE LifeInv'
  BY <1>7, ConsumeKeeps
<1>8. ASSUME NEW r \in Routes, Refuse(r) PROVE LifeInv'
  BY <1>8, RefuseKeeps
<1>9. ASSUME NEW r \in Routes, Publish(r) PROVE LifeInv'
  BY <1>9, PublishKeeps
<1>10. ASSUME NEW r \in Routes, MarkReady(r) PROVE LifeInv'
  BY <1>10, MarkReadyKeeps
<1>11. ASSUME NEW r \in Routes, GiveUp(r) PROVE LifeInv'
  BY <1>11, GiveUpKeeps
<1>12. ASSUME NEW r \in Routes, Checkpoint(r) PROVE LifeInv'
  BY <1>12, CheckpointKeeps
<1>13. ASSUME NEW t \in Tasks, NativeClaim(t) PROVE LifeInv'
  BY <1>13, NativeClaimKeeps
<1>14. ASSUME NEW t \in Tasks, NativeSubmit(t) PROVE LifeInv'
  BY <1>14, NativeSubmitKeeps
<1>15. ASSUME NEW t \in Tasks, NativeReplan(t) PROVE LifeInv'
  BY <1>15, NativeReplanKeeps
<1>16. ASSUME NEW t \in Tasks, NEW s \in {"READY", "DONE"}, NativeEnd(t, s) PROVE LifeInv'
  BY <1>16, NativeEndKeeps
<1>17. ASSUME NEW t \in Tasks, NativeRevoke(t) PROVE LifeInv'
  BY <1>17, NativeRevokeKeeps
<1>18. CASE NativePause
  BY <1>18, NativePauseKeeps
<1>19. CASE UNCHANGED vars
  <2>1. UNCHANGED <<task, run, cap, paused, grant, rec, route, applied>>
    BY <1>19 DEF vars
  <2>2. TypeOK'
    BY <2>1, TypeParts, TypePartsNext DEF LifeInv
  <2>3. GrantClaimsOnce'
    BY <2>1, Claimed, ClaimsFrame
  <2> QED BY <2>1, <2>2, <2>3, SameRoutes, SameGrants, SameWriters, ChecksFrame DEF LifeInv
<1> QED BY <1>1, <1>2, <1>3, <1>4, <1>5, <1>6, <1>7, <1>8, <1>9, <1>10, <1>11, <1>12, <1>13,
           <1>14, <1>15, <1>16, <1>17, <1>18, <1>19 DEF Next

LEMMA LifeInvariant == Spec => []LifeInv
BY LifeInit, LifeNext, PTL DEF Spec

\* Type correctness of the lifecycle grants, records, routes and native rows.
THEOREM LifecycleTypeCorrect == Spec => []TypeOK
<1>1. LifeInv => TypeOK
  BY DEF LifeInv
<1> QED BY <1>1, LifeInvariant, PTL

\* claim and checkpoint in bridge_worker_lifecycle.py: however routes retry, crash
\* and overlap, one grant claims at most the one run it was issued for, and an
\* operation writes its checkpoint at most once, exactly when its record says DONE.
THEOREM DoneOnceHolds == Spec => []DoneOnce
<1>1. LifeInv => DoneOnce
  BY DEF LifeInv, DoneOnce
<1> QED BY <1>1, LifeInvariant, PTL

\* claim and the native claim together: at most one run holds the writer key,
\* and its task is IN_PROGRESS.
THEOREM OneWriterHolds == Spec => []OneWriter
<1>1. ASSUME LifeInv PROVE OneWriter
  <2>1. CASE Writers = {}
    <3>1. Cardinality(Writers) = 0
      BY <2>1, FS_EmptySet
    <3> QED BY <2>1, <3>1 DEF OneWriter
  <2>2. CASE Writers # {}
    <3>1. PICK x \in Writers : TRUE
      BY <2>2
    <3>2. Writers = {x}
      BY <1>1, <3>1 DEF LifeInv, WriterInv
    <3>3. Cardinality(Writers) = 1
      BY <3>2, FS_Singleton
    <3> QED BY <1>1, <3>3 DEF OneWriter, LifeInv, WriterInv
  <2> QED BY <2>1, <2>2
<1>2. LifeInv => OneWriter
  BY <1>1
<1> QED BY <1>2, LifeInvariant, PTL

-----------------------------------------------------------------------------
\* What a step may do to an operation record: the effects a worker can rely on
\* (READY, DONE) are recorded only by a step that validated the native rows.
RecordStep(g, op) ==
    \/ rec'[g][op] = rec[g][op]
    \/ rec[g][op].phase = None /\ rec'[g][op].phase = "PREPARED"
    \/ /\ rec'[g][op].kind = rec[g][op].kind
       /\ rec[g][op].phase = "PREPARED" /\ rec'[g][op].phase \in {"PENDING", "REFUSED"}
    \/ /\ rec'[g][op].kind = rec[g][op].kind /\ ValidNative(g)
       /\ \/ rec[g][op].phase = "PENDING" /\ rec'[g][op].phase = "READY"
          \/ rec[g][op].phase = "PREPARED" /\ rec'[g][op].phase = "DONE"

\* The phase of one record moves, its kind and all other records stay.
LEMMA PhaseMove ==
    ASSUME rec \in [Grants -> [Ops -> OpRecords]], NEW g \in Grants, NEW op \in Ops,
           NEW p, rec' = [rec EXCEPT ![g][op].phase = p]
    PROVE  /\ rec'[g][op].phase = p /\ rec'[g][op].kind = rec[g][op].kind
           /\ \A x \in Grants, o \in Ops : x # g \/ o # op => rec'[x][o] = rec[x][o]
BY DEF OpRecords

LEMMA RecordSteps ==
    ASSUME LifeInv, [Next]_vars, NEW h \in Grants, NEW o \in Ops
    PROVE  RecordStep(h, o)
<1>o. rec \in [Grants -> [Ops -> OpRecords]]
  BY TypeParts DEF LifeInv
<1>1. CASE rec' = rec
  BY <1>1 DEF RecordStep
<1>2. ASSUME NEW r \in Routes, NEW op \in Ops, Reserve(r, op) \/ Prepare(r, op)
      PROVE  RecordStep(h, o)
  <2>1. PICK g \in Grants : g = route[r].grant
    BY <1>2, Acting DEF Reserve, Prepare
  <2>2. PICK k : rec' = [rec EXCEPT ![g][op] = [phase |-> "PREPARED", kind |-> k]]
    BY <1>2, <2>1 DEF Reserve, Prepare
  <2>3. rec[g][op].phase = None
    BY <1>2, <2>1 DEF Reserve, Prepare
  <2>4. /\ rec'[g][op].phase = "PREPARED"
        /\ \A x \in Grants, y \in Ops : x # g \/ y # op => rec'[x][y] = rec[x][y]
    BY <1>o, <2>2
  <2> QED BY <2>3, <2>4 DEF RecordStep
<1>3. ASSUME NEW r \in Routes, Consume(r) \/ Refuse(r)
      PROVE  RecordStep(h, o)
  <2>1. PICK g \in Grants, op \in Ops : g = route[r].grant /\ op = route[r].op
    BY <1>3, Acting DEF Consume, Refuse, Busy
  <2>2. PICK p \in {"PENDING", "REFUSED"} : rec' = [rec EXCEPT ![g][op].phase = p]
    BY <1>3, <2>1 DEF Consume, Refuse
  <2>4. StillReserved(r)
    BY <1>3 DEF Consume, Refuse
  <2>3. rec[g][op].phase = "PREPARED"
    BY <2>1, <2>4 DEF StillReserved
  <2> QED BY SMTT(30), <1>o, <2>2, <2>3, PhaseMove DEF RecordStep
<1>4. ASSUME NEW r \in Routes, MarkReady(r)
      PROVE  RecordStep(h, o)
  <2>1. PICK g \in Grants, op \in Ops : g = route[r].grant /\ op = route[r].op
    BY <1>4, Acting DEF MarkReady, Busy
  <2>2. rec' = [rec EXCEPT ![g][op].phase = "READY"]
    BY <1>4, <2>1 DEF MarkReady
  <2>3. rec[g][op].phase = "PENDING" /\ ValidNative(g)
    BY <1>4, <2>1 DEF MarkReady
  <2> QED BY <1>o, <2>2, <2>3, PhaseMove DEF RecordStep
<1>5. ASSUME NEW r \in Routes, Checkpoint(r)
      PROVE  RecordStep(h, o)
  <2>1. PICK g \in Grants, op \in Ops : g = route[r].grant /\ op = route[r].op
    BY <1>5, Acting DEF Checkpoint, Busy
  <2>2. rec' = [rec EXCEPT ![g][op].phase = "DONE"]
    BY <1>5, <2>1 DEF Checkpoint
  <2>3. rec[g][op].phase = "PREPARED" /\ ValidNative(g)
    BY <1>5, <2>1 DEF Checkpoint
  <2> QED BY <1>o, <2>2, <2>3, PhaseMove DEF RecordStep
<1>6. CASE \/ \E g \in Grants, t \in Tasks : CreateGrant(g, t)
           \/ \E g \in Grants : RevokeGrant(g)
           \/ \E r \in Routes, g \in Grants : OpenRoute(r, g)
           \/ \E r \in Routes : CloseRoute(r) \/ Publish(r) \/ GiveUp(r)
  <2>2. ASSUME NEW r \in Routes, NEW g \in Grants, OpenRoute(r, g) PROVE rec' = rec
    BY <2>2 DEF OpenRoute
  <2>3. ASSUME NEW g \in Grants, NEW t \in Tasks, CreateGrant(g, t) PROVE rec' = rec
    BY <2>3 DEF CreateGrant
  <2>4. ASSUME NEW g \in Grants, RevokeGrant(g) PROVE rec' = rec
    BY <2>4 DEF RevokeGrant
  <2>5. ASSUME NEW r \in Routes, CloseRoute(r) \/ Publish(r) \/ GiveUp(r) PROVE rec' = rec
    BY <2>5 DEF CloseRoute, Publish, GiveUp
  <2>1. rec' = rec
    BY <1>6, <2>2, <2>3, <2>4, <2>5
  <2> QED BY <1>1, <2>1
<1>7. CASE \/ \E t \in Tasks : \/ NativeClaim(t) \/ NativeSubmit(t) \/ NativeReplan(t)
                               \/ NativeRevoke(t)
                               \/ \E s \in {"READY", "DONE"} : NativeEnd(t, s)
           \/ NativePause
           \/ UNCHANGED vars
  <2>2. ASSUME NEW t \in Tasks,
               NativeClaim(t) \/ NativeSubmit(t) \/ NativeReplan(t) \/ NativeRevoke(t)
        PROVE  rec' = rec
    BY <2>2 DEF NativeClaim, NativeSubmit, NativeReplan, NativeRevoke
  <2>3. ASSUME NEW t \in Tasks, NEW s \in {"READY", "DONE"}, NativeEnd(t, s)
        PROVE  rec' = rec
    BY <2>3 DEF NativeEnd
  <2>1. rec' = rec
    BY <1>7, <2>2, <2>3 DEF NativePause, vars
  <2> QED BY <1>1, <2>1
<1> QED BY <1>2, <1>3, <1>4, <1>5, <1>6, <1>7 DEF Next

\* A recorded answer is never taken back, and an operation never changes kind.
THEOREM RecordsAreForwardHolds == Spec => RecordsAreForward
<1>1. ASSUME LifeInv, [Next]_vars, NEW g \in Grants, NEW op \in Ops
      PROVE  \/ rec'[g][op] = rec[g][op]
             \/ rec[g][op].phase = None
             \/ /\ rec'[g][op].kind = rec[g][op].kind
                /\ <<rec[g][op].phase, rec'[g][op].phase>> \in
                      {<<"PREPARED", "PENDING">>, <<"PREPARED", "REFUSED">>,
                       <<"PENDING", "READY">>, <<"PREPARED", "DONE">>}
  BY <1>1, RecordSteps DEF RecordStep
<1> DEFINE Forward == \A g \in Grants, op \in Ops :
             \/ rec'[g][op] = rec[g][op]
             \/ rec[g][op].phase = None
             \/ /\ rec'[g][op].kind = rec[g][op].kind
                /\ <<rec[g][op].phase, rec'[g][op].phase>> \in
                      {<<"PREPARED", "PENDING">>, <<"PREPARED", "REFUSED">>,
                       <<"PENDING", "READY">>, <<"PREPARED", "DONE">>}
<1>2. LifeInv /\ [Next]_vars => [Forward]_vars
  BY <1>1
<1> QED BY <1>2, LifeInvariant, PTL DEF Spec, RecordsAreForward

\* A claim becomes READY, and a checkpoint DONE, only while the grant's run is
\* the single running writer with its capability, for the revision granted.
THEOREM EffectsOnlyWhileWriterHolds == Spec => EffectsOnlyWhileWriter
<1> DEFINE Rightful(g, op) ==
             \/ rec'[g][op].phase = rec[g][op].phase
             \/ rec'[g][op].phase \notin {"READY", "DONE"}
             \/ /\ Writers = {RunOf(g)} /\ RunOf(g) \in cap /\ Matches(g)
                /\ run[grant[g].task][grant[g].attempt] = [state |-> "RUNNING", by |-> g]
<1>1. ASSUME LifeInv, [Next]_vars, NEW g \in Grants, NEW op \in Ops
      PROVE  Rightful(g, op)
  BY <1>1, RecordSteps DEF RecordStep, ValidNative
<1>2. LifeInv /\ [Next]_vars => [\A g \in Grants, op \in Ops : Rightful(g, op)]_vars
  BY <1>1
<1> QED BY <1>2, LifeInvariant, PTL DEF Spec, EffectsOnlyWhileWriter

-----------------------------------------------------------------------------
\* The refinement.  The attempts of a task are made in order without gaps, so that
\* the number of rows, which both claim paths take for the next attempt, names an
\* attempt nobody used.  LifeInv does not say so, and without it a claim could open
\* an attempt that has ended.
AttemptsInOrder == \A t \in Tasks : \E k \in 0..MaxAttempts : Made(t) = 1..k

\* What a step does to the runs: it opens the next attempt of a task while nobody
\* writes, advances a run that writes, or ends it.
Opens(t, n) ==
    /\ Writers = {} /\ n = Cardinality(Made(t)) + 1
    /\ run'[t][n].state = "RUNNING" /\ OnlyRun(t, n)
Advances(t, n) ==
    /\ run[t][n].state = "RUNNING" /\ run'[t][n].state = "held" /\ OnlyRun(t, n)
Ends(t, n) ==
    /\ run[t][n].state \in {"RUNNING", "held"} /\ run'[t][n].state = "ended" /\ OnlyRun(t, n)
RunMoves ==
    \/ run' = run
    \/ \E t \in Tasks, n \in Attempts : Opens(t, n) \/ Advances(t, n) \/ Ends(t, n)

LEMMA RunSteps ==
    ASSUME LifeInv, [Next]_vars
    PROVE  RunMoves
<1>0. run \in [Tasks -> [Attempts -> RunRecords]]
  BY TypeParts DEF LifeInv
<1>1. CASE run' = run
  BY <1>1 DEF RunMoves
<1>2. ASSUME NEW r \in Routes, Consume(r) PROVE RunMoves
  <2>1. PICK g \in Grants : g = route[r].grant
    BY SMTT(30), <1>2, Acting DEF Consume
  <2>2. grant[g].status = "RESERVED" /\ Writers = {}
        /\ Cardinality(Made(grant[g].task)) + 1 = grant[g].attempt
    BY <1>2, <2>1 DEF Consume, StillReserved, Claimable
  <2>3. PICK t \in Tasks, n \in Attempts : t = grant[g].task /\ n = grant[g].attempt
    <3>1. GrantInv(g)
      BY DEF LifeInv
    <3>2. grant[g].status # None
      BY <2>2 DEF None
    <3>3. grant[g].task \in Tasks /\ grant[g].attempt \in Attempts
      BY <3>1, <3>2 DEF GrantInv
    <3>4. QED
      BY <3>3
  <2>4. PICK v \in RunRecords : v = [state |-> "RUNNING", by |-> g]
    BY DEF RunRecords
  <2>5. run' = [run EXCEPT ![t][n] = v] /\ v.state = "RUNNING"
    BY <1>2, <2>1, <2>3, <2>4 DEF Consume
  <2>6. run'[t][n] = v /\ OnlyRun(t, n)
    BY <1>0, <2>5, RunUpdate, ZenonT(60)
  <2>7. Opens(t, n)
    BY <2>2, <2>3, <2>5, <2>6 DEF Opens
  <2> QED BY SMTT(30), <2>7 DEF RunMoves
<1>3. ASSUME NEW t \in Tasks, NativeClaim(t) PROVE RunMoves
  <2>1. PICK n \in Attempts : n = Cardinality(Made(t)) + 1
    BY <1>3, NextAttempt DEF NativeClaim
  <2>2. PICK v \in RunRecords : v = [state |-> "RUNNING", by |-> Native]
    BY DEF RunRecords
  <2>3. run' = [run EXCEPT ![t][n] = v] /\ v.state = "RUNNING" /\ Writers = {}
    BY <1>3, <2>1, <2>2 DEF NativeClaim
  <2>4. run'[t][n] = v /\ OnlyRun(t, n)
    BY <1>0, <2>3, RunUpdate, ZenonT(60)
  <2>5. Opens(t, n)
    BY <2>1, <2>3, <2>4 DEF Opens
  <2> QED BY <2>5 DEF RunMoves
<1>4. ASSUME NEW t \in Tasks, NativeSubmit(t) PROVE RunMoves
  <2>1. PICK n \in Attempts :
           run[t][n].state = "RUNNING" /\ run' = [run EXCEPT ![t][n].state = "held"]
    BY <1>4 DEF NativeSubmit
  <2>2. run'[t][n].state = "held" /\ OnlyRun(t, n)
    BY <1>0, <2>1, StateUpdate
  <2>3. Advances(t, n)
    BY <2>1, <2>2 DEF Advances
  <2> QED BY <2>3 DEF RunMoves
<1>5. ASSUME NEW t \in Tasks, NEW s \in {"READY", "DONE"}, NativeEnd(t, s) PROVE RunMoves
  <2>1. PICK n \in Attempts :
           /\ run[t][n].state \in {"RUNNING", "held"}
           /\ run' = [run EXCEPT ![t][n].state = "ended"]
    BY <1>5 DEF NativeEnd
  <2>2. run'[t][n].state = "ended" /\ OnlyRun(t, n)
    BY <1>0, <2>1, StateUpdate
  <2>3. Ends(t, n)
    BY <2>1, <2>2 DEF Ends
  <2> QED BY <2>3 DEF RunMoves
<1>6. ASSUME NEW r \in Routes,
             \/ CloseRoute(r) \/ Refuse(r) \/ Publish(r) \/ MarkReady(r) \/ GiveUp(r)
             \/ Checkpoint(r) \/ \E g \in Grants : OpenRoute(r, g)
             \/ \E op \in Ops : Reserve(r, op) \/ Prepare(r, op)
      PROVE  run' = run
  BY <1>6 DEF CloseRoute, Refuse, Publish, MarkReady, GiveUp, Checkpoint, OpenRoute, Reserve,
    Prepare
<1>7. ASSUME NEW t \in Tasks, NativeReplan(t) \/ NativeRevoke(t) PROVE run' = run
  BY <1>7 DEF NativeReplan, NativeRevoke
<1>8. ASSUME NEW g \in Grants, RevokeGrant(g) \/ \E t \in Tasks : CreateGrant(g, t)
      PROVE  run' = run
  BY <1>8 DEF RevokeGrant, CreateGrant
<1>9. NativePause \/ UNCHANGED vars => run' = run
  BY DEF NativePause, vars
<1> QED BY <1>1, <1>2, <1>3, <1>4, <1>5, <1>6, <1>7, <1>8, <1>9 DEF Next

\* The next attempt by number is the first one that was not made.
LEMMA NextIsNew ==
    ASSUME NEW t \in Tasks, NEW k \in 0..MaxAttempts, Made(t) = 1..k
    PROVE  Cardinality(Made(t)) = k
<1>1. k \in Int /\ 1 \in Int /\ k >= 0
  BY LifecycleAssumption
<1>2. Cardinality(1..k) = IF 1 > k THEN 0 ELSE k - 1 + 1
  BY <1>1, FS_Interval
<1> QED BY <1>1, <1>2

LEMMA OrderInit == Init => AttemptsInOrder
<1> SUFFICES ASSUME Init, NEW t \in Tasks PROVE \E k \in 0..MaxAttempts : Made(t) = 1..k
  BY DEF AttemptsInOrder
<1>1. Made(t) = 1..0
  BY DEF Init, Made, NoRun
<1>2. 0 \in 0..MaxAttempts
  BY LifecycleAssumption
<1> QED BY <1>1, <1>2

LEMMA OrderNext ==
    ASSUME LifeInv, AttemptsInOrder, [Next]_vars
    PROVE  AttemptsInOrder'
<1> SUFFICES ASSUME NEW s \in Tasks PROVE \E k \in 0..MaxAttempts : Made(s)' = 1..k
  BY DEF AttemptsInOrder
<1>1. PICK k \in 0..MaxAttempts : Made(s) = 1..k
  BY DEF AttemptsInOrder
<1>2. ASSUME \A n \in Attempts : (run'[s][n].state = None) <=> (run[s][n].state = None)
      PROVE  Made(s)' = Made(s)
  BY <1>2 DEF Made
<1>3. ASSUME NEW t \in Tasks, NEW n \in Attempts, OnlyRun(t, n)
      PROVE  \A m \in Attempts : s # t \/ m # n => run'[s][m] = run[s][m]
  <2>1. ASSUME NEW m \in Attempts, s # t \/ m # n PROVE run'[s][m] = run[s][m]
    <3>1. <<s, m>> \in Tasks \X Attempts /\ <<s, m>> # <<t, n>>
      BY <2>1
    <3>2. <<s, m>>[1] = s /\ <<s, m>>[2] = m
      OBVIOUS
    <3> QED BY <1>3, <3>1, <3>2 DEF OnlyRun
  <2> QED BY <2>1
<1>4. CASE run' = run
  BY <1>1, <1>2, <1>4
<1>5. ASSUME NEW t \in Tasks, NEW n \in Attempts, Advances(t, n) \/ Ends(t, n)
      PROVE  Made(s)' = Made(s)
  <2>1. \A m \in Attempts : s # t \/ m # n => run'[s][m] = run[s][m]
    BY <1>3, <1>5 DEF Advances, Ends
  <2>2. run[t][n].state # None /\ run'[t][n].state # None
    BY <1>5 DEF Advances, Ends, None
  <2> QED BY <1>2, <2>1, <2>2
<1>6. ASSUME NEW t \in Tasks, NEW n \in Attempts, Opens(t, n)
      PROVE  \E j \in 0..MaxAttempts : Made(s)' = 1..j
  <2>1. \A m \in Attempts : s # t \/ m # n => run'[s][m] = run[s][m]
    BY <1>3, <1>6 DEF Opens
  <2>2. CASE s # t
    <3>1. Made(s)' = Made(s)
      BY <1>2, <2>1, <2>2
    <3> QED BY <1>1, <3>1
  <2>3. CASE s = t
    <3>1. n = k + 1 /\ run'[s][n].state = "RUNNING"
      BY <1>1, <1>6, <2>3, NextIsNew DEF Opens
    <3>2. Made(s)' = Made(s) \cup {n}
      BY <2>1, <3>1 DEF Made, None
    <3>3. 1..(k + 1) = 1..k \cup {k + 1} /\ k + 1 \in 0..MaxAttempts
      BY <3>1, LifecycleAssumption DEF Attempts
    <3> QED BY <1>1, <3>1, <3>2, <3>3
  <2> QED BY <2>2, <2>3
<1> QED BY <1>1, <1>4, <1>5, <1>6, RunSteps DEF RunMoves

\* The lifecycle claim and the native claim together implement the reservation that
\* Ledger promises for the native claim alone: a run takes a key nobody holds, in an
\* attempt that was never used, keeps it until it ends and never takes it back.
THEOREM LifecycleImplementsReservation == Spec => ImplementsReservation
<1> DEFINE Retired == {x \in Tasks \X Attempts : run[x[1]][x[2]].state = "ended"}
<1>1. Init => Reservation!Init
  BY DEF Init, NoRun, None, Writers, Reservation!Init
<1>2. LifeInv /\ AttemptsInOrder /\ [Next]_vars
      => [Reservation!Next]_(Reservation!reservationVars)
  <2> SUFFICES ASSUME LifeInv, AttemptsInOrder, [Next]_vars
               PROVE  [Reservation!Next]_(Reservation!reservationVars)
    OBVIOUS
  <2>1. CASE run' = run
    <3>1. Writers' = Writers /\ Retired' = Retired
      BY <2>1 DEF Writers
    <3> QED BY <3>1 DEF Reservation!reservationVars
  <2>2. ASSUME NEW t \in Tasks, NEW n \in Attempts, Opens(t, n) PROVE Reservation!Next
    <3>1. PICK k \in 0..MaxAttempts : Made(t) = 1..k
      BY DEF AttemptsInOrder
    <3>2. n \notin Made(t)
      BY <2>2, <3>1, NextIsNew DEF Opens
    <3>3. run[t][n].state = None /\ Writers = {}
      BY <2>2, <3>2 DEF Made, Opens
    <3>4. <<t, n>> \in Tasks \X Attempts /\ <<t, n>> \notin Writers \cup Retired
      BY <3>3 DEF Writers, None
    <3>5. Writers' = Writers \cup {<<t, n>>} /\ Retired' = Retired
      BY <2>2, <3>3 DEF Opens, OnlyRun, Writers, None
    <3>6. Reservation!Acquire(<<t, n>>)
      BY <3>3, <3>4, <3>5 DEF Reservation!Acquire
    <3> QED BY <3>4, <3>6 DEF Reservation!Next
  <2>3. ASSUME NEW t \in Tasks, NEW n \in Attempts, Advances(t, n)
        PROVE  UNCHANGED Reservation!reservationVars
    <3>1. Writers' = Writers /\ Retired' = Retired
      BY <2>3 DEF Advances, OnlyRun, Writers
    <3> QED BY <3>1 DEF Reservation!reservationVars
  <2>4. ASSUME NEW t \in Tasks, NEW n \in Attempts, Ends(t, n) PROVE Reservation!Next
    <3>1. <<t, n>> \in Tasks \X Attempts /\ <<t, n>> \in Writers
      BY <2>4 DEF Ends, Writers
    <3>2. Writers' = Writers \ {<<t, n>>} /\ Retired' = Retired \cup {<<t, n>>}
      BY <2>4, <3>1 DEF Ends, OnlyRun, Writers
    <3>3. Reservation!Release(<<t, n>>)
      BY <3>1, <3>2 DEF Reservation!Release
    <3> QED BY <3>1, <3>3 DEF Reservation!Next
  <2> QED BY <2>1, <2>2, <2>3, <2>4, RunSteps DEF RunMoves
<1>3. LifeInv /\ AttemptsInOrder /\ [Next]_vars => AttemptsInOrder'
  BY OrderNext
<1> QED BY <1>1, <1>2, <1>3, OrderInit, LifeInvariant, PTL
    DEF Spec, ImplementsReservation, Reservation!Spec
=============================================================================

---------------------------- MODULE LocalService ----------------------------
(***************************************************************************)
(* The concurrent local bridge service: one thread, one selector, one to   *)
(* three sealed routes, at most MaxPeers connections.                      *)
(* (bridge_local_concurrent_service.py: _Transport, _serve_concurrent;     *)
(* bridge_local_broker.py: LocalRunBroker; bridge_local_service.py:        *)
(* _publish_credential, _cleanup_owned, _DeferredStop.)                    *)
(*                                                                         *)
(* Native authority for a route belongs to other processes: they take it   *)
(* away, and may give it back, between any two steps of the service.  The  *)
(* service may not let a byte of a result leave for a run that has lost    *)
(* its authority, and a route it retired once stays retired.               *)
(*                                                                         *)
(* A frame is a number of chunks (_IO_CHUNK); what is in it is a success   *)
(* or a refusal.  Time is one flag per peer, "late", which the clock sets  *)
(* at will and a fresh deadline clears.  A partial read changes nothing    *)
(* that a property can see and is a stutter.  Every defer() block is one   *)
(* step, so a stop signal falls between steps.                             *)
(***************************************************************************)
EXTENDS Integers, FiniteSets

CONSTANTS Routes,     \* the admitted worker runs, at most three
          Conns,      \* connections that clients ever make
          MaxPeers,   \* _MAX_PEERS
          MaxChunks,  \* the longest response, in chunks
          MaxFlips,   \* bound on changes of native authority
          Listener,   \* the selector key whose data is None
          NoOne

ASSUME ServiceAssumption ==
    /\ IsFiniteSet(Routes) /\ IsFiniteSet(Conns)
    /\ MaxPeers \in Nat \ {0} /\ MaxChunks \in Nat \ {0} /\ MaxFlips \in Nat
    /\ NoOne \notin Conns \union Routes
    /\ Listener \notin Conns

VARIABLES
    pc,         \* where the service is: setup, loop, cleanup
    route,      \* _Route: retired, peer, and whether its credential file exists
    owned,      \* _OwnedContext of each route
    peer,       \* _Peer of each connection
    batch,      \* selector events of this turn not yet handled
    writing,    \* the peer whose answer is written right after it was read
    native,     \* does the ledger still grant this run its authority
    socket,     \* the socket path exists and is ours
    idle,       \* the idle deadline has passed
    failed,     \* _Transport.failed or result = 1
    flips,      \* changes of native authority so far
    fdCloses    \* ghost: how often a route's pinned root descriptor was closed

serviceVars == <<pc, route, owned, peer, batch, writing, native, socket, idle, failed,
          flips, fdCloses>>

Gone == [state |-> "gone", route |-> NoOne, out |-> "none", len |-> 0,
         sent |-> 0, closeAfter |-> FALSE, late |-> FALSE]

Fresh == [Gone EXCEPT !.state = "open"]

PeerRecords == [state : {"new", "open", "gone"}, route : Routes \union {NoOne},
                out : {"none", "success", "refusal"}, len : 0..MaxChunks,
                sent : 0..MaxChunks, closeAfter : BOOLEAN, late : BOOLEAN]

ServiceTypeOK ==
    /\ pc \in {"contexts", "bind", "publish", "top", "events", "cleanup", "ended"}
    /\ route \in [Routes -> [retired : BOOLEAN, peer : Conns \union {NoOne},
                             credential : BOOLEAN]]
    /\ owned \in [Routes -> [state : {"absent", "open", "closed", "released"},
                             scope : {"none", "held", "ambiguous"},
                             processes : {"none", "held"},
                             session : BOOLEAN]]
    /\ peer \in [Conns -> PeerRecords]
    /\ batch \subseteq Conns \union {Listener}
    /\ writing \in Conns \union {NoOne}
    /\ native \in [Routes -> BOOLEAN]
    /\ socket \in BOOLEAN /\ idle \in BOOLEAN /\ failed \in BOOLEAN
    /\ flips \in 0..MaxFlips
    /\ fdCloses \in [Routes -> Nat]

ServiceInit ==
    /\ pc = "contexts"
    /\ route = [r \in Routes |-> [retired |-> FALSE, peer |-> NoOne, credential |-> FALSE]]
    /\ owned = [r \in Routes |-> [state |-> "absent", scope |-> "none",
                                  processes |-> "none", session |-> FALSE]]
    /\ peer = [c \in Conns |-> [Gone EXCEPT !.state = "new"]]
    /\ batch = {} /\ writing = NoOne
    /\ native = [r \in Routes |-> TRUE]
    /\ socket = FALSE /\ idle = FALSE /\ failed = FALSE
    /\ flips = 0
    /\ fdCloses = [r \in Routes |-> 0]

-----------------------------------------------------------------------------
(* The broker.                                                             *)

Peers == {c \in Conns : peer[c].state = "open"}

\* context.status(): the context is still routed and the ledger still grants
\* the run.
Status(r) == owned[r].state = "open" /\ native[r]

\* __close_owned: processes, scope and session are released independently.
\* A process owner whose close failed is retried by the next call; a scope
\* whose close failed is ambiguous, because the descriptor number may already
\* be somebody else's, and is never closed again.  No scope is busy: the
\* handles of this one thread unwind before a context is closed; and a session in
\* the broker's list is one the authority still knows.
Closed(x, killed, unpinned) ==
    LET processes == IF killed THEN "none" ELSE x.processes
        scope == IF x.scope # "held" THEN x.scope
                 ELSE IF unpinned THEN "none" ELSE "ambiguous"
    IN [state     |-> IF processes = "none" /\ scope = "none" THEN "released" ELSE "closed",
        processes |-> processes, scope |-> scope, session |-> FALSE]

\* Faulty variant: a descriptor whose close failed is closed again.
ClosesFdAgain(x) == IF x.scope # "none" THEN 1 ELSE 0

ClosesFd(x) == IF x.scope = "held" THEN 1 ELSE 0

-----------------------------------------------------------------------------
(* Setup: contexts, then the socket, then the credentials.                 *)

SetupFails ==
    /\ failed' = TRUE /\ pc' = "cleanup"
    /\ UNCHANGED <<peer, batch, writing, native, idle, flips>>

\* open_context: the session is registered first; a context whose construction
\* fails is closed by the same code that closes it later.
OpenContext(r) ==
    /\ pc = "contexts" /\ owned[r].state = "absent"
    /\ native[r]
    /\ owned' = [owned EXCEPT ![r] = [state |-> "open", scope |-> "held",
                                      processes |-> "held", session |-> TRUE]]
    /\ UNCHANGED <<pc, route, peer, batch, writing, native, socket, idle, failed,
                   flips, fdCloses>>

OpenContextFails(r, pinned, unpinned) ==
    /\ pc = "contexts" /\ owned[r].state = "absent"
    /\ LET x == [state |-> "closed", scope |-> IF pinned THEN "held" ELSE "none",
                 processes |-> "none", session |-> TRUE]
       IN /\ owned' = [owned EXCEPT ![r] = Closed(x, TRUE, unpinned)]
          /\ fdCloses' = [fdCloses EXCEPT ![r] = @ + ClosesFd(x)]
    /\ SetupFails
    /\ UNCHANGED <<route, socket>>

ContextsOpen ==
    /\ pc = "contexts" /\ \A r \in Routes : owned[r].state = "open"
    /\ pc' = "bind"
    /\ UNCHANGED <<route, owned, peer, batch, writing, native, socket, idle,
                   failed, flips, fdCloses>>

Bind ==
    /\ pc = "bind"
    /\ socket' = TRUE /\ pc' = "publish"
    /\ UNCHANGED <<route, owned, peer, batch, writing, native, idle, failed,
                   flips, fdCloses>>

\* bind itself fails, or the check of the bound socket does.
BindFails(bound) ==
    /\ pc = "bind"
    /\ socket' = bound
    /\ SetupFails
    /\ UNCHANGED <<route, owned, fdCloses>>

\* _publish_credential: the identity is recorded in the block that creates the
\* file, and a failed publication removes the file it created.
Publish(r) ==
    /\ pc = "publish" /\ ~route[r].credential
    /\ route' = [route EXCEPT ![r].credential = TRUE]
    /\ UNCHANGED <<pc, owned, peer, batch, writing, native, socket, idle, failed,
                   flips, fdCloses>>

PublishFails(r, removed) ==
    /\ pc = "publish" /\ ~route[r].credential
    /\ route' = [route EXCEPT ![r].credential = ~removed]
    /\ SetupFails
    /\ UNCHANGED <<owned, socket, fdCloses>>

Serve ==
    /\ pc = "publish" /\ \A r \in Routes : route[r].credential
    /\ pc' = "top"
    /\ UNCHANGED <<route, owned, peer, batch, writing, native, socket, idle,
                   failed, flips, fdCloses>>

-----------------------------------------------------------------------------
(* Peers.                                                                  *)

\* Faulty variant: the reservation of the route outlives the connection.
ClosePeersOnly(C) ==
    /\ peer' = [c \in Conns |-> IF c \in C THEN Gone ELSE peer[c]]
    /\ route' = route
    /\ idle' = IF C # {} /\ Peers \subseteq C THEN FALSE ELSE idle

\* close_peer of every peer of C: the reservation is released with the object,
\* and the idle clock starts when the last one is gone.
ClosePeers(C) ==
    /\ peer' = [c \in Conns |-> IF c \in C THEN Gone ELSE peer[c]]
    /\ route' = [r \in Routes |-> IF route[r].peer \in C
                                  THEN [route[r] EXCEPT !.peer = NoOne] ELSE route[r]]
    /\ idle' = IF C # {} /\ Peers \subseteq C THEN FALSE ELSE idle

\* The selector does not let go of a connection, or its socket does not close: the
\* peer is gone all the same, and only the exit status tells.
ClosePeerFails ==
    /\ pc \in {"top", "events", "cleanup"}
    /\ \E c \in Conns : peer[c].state # "new"
    /\ ~failed /\ failed' = TRUE
    /\ UNCHANGED <<pc, route, owned, peer, batch, writing, native, socket, idle, flips,
                   fdCloses>>

\* queue: one frame of n chunks; "timely" renews the deadline.
Queue(c, out, n, closeAfter, timely) ==
    peer' = [peer EXCEPT ![c].out = out, ![c].len = n, ![c].sent = 0,
                         ![c].closeAfter = closeAfter,
                         ![c].late = IF timely THEN FALSE ELSE @]

\* refuse: a refusal closes the connection when it is out.  A refusal larger
\* than the request's own budget closes it at once.
Refuse(c, timely) ==
    \/ /\ Queue(c, "refusal", 1, TRUE, timely)
       /\ UNCHANGED <<route, idle>>
    \/ ClosePeers({c})

\* retire: permanent, whatever the ledger says later.  The context is closed
\* and the credential removed, and neither failure stops the retirement.
Retire(r, killed, unpinned) ==
    /\ owned' = [owned EXCEPT ![r] = Closed(@, killed, unpinned)]
    /\ fdCloses' = [fdCloses EXCEPT ![r] = @ + ClosesFd(owned[r])]
    /\ failed' = TRUE

RetiredRoute(r, removed) ==
    [route EXCEPT ![r].retired = TRUE, ![r].credential = @ /\ ~removed]

\* Faulty variant: the refusal is queued whatever has been sent already.
AuthorityDeniedAnyway(c) ==
    LET r == peer[c].route
    IN \E killed, unpinned, removed \in BOOLEAN :
        /\ IF route[r].retired
           THEN UNCHANGED <<owned, fdCloses, failed>>
           ELSE Retire(r, killed, unpinned)
        /\ Queue(c, "refusal", 1, TRUE, peer[c].out = "none")
        /\ route' = IF route[r].retired THEN route ELSE RetiredRoute(r, removed)
        /\ UNCHANGED idle

\* authority_denied: retire the route, then refuse; half a success frame can
\* only be cut off.
AuthorityDenied(c) ==
    LET r == peer[c].route
    IN \E killed, unpinned, removed, tooLarge \in BOOLEAN :
        /\ IF route[r].retired
           THEN UNCHANGED <<owned, fdCloses, failed>>
           ELSE Retire(r, killed, unpinned)
        /\ LET kept == IF route[r].retired THEN route ELSE RetiredRoute(r, removed)
           IN IF peer[c].sent > 0 \/ tooLarge
              THEN /\ peer' = [peer EXCEPT ![c] = Gone]
                   /\ route' = [kept EXCEPT ![r].peer = NoOne]
                   /\ idle' = IF Peers = {c} THEN FALSE ELSE idle
              ELSE /\ Queue(c, "refusal", 1, TRUE, peer[c].out = "none")
                   /\ route' = kept
                   /\ UNCHANGED idle

Handled(x) == batch' = batch \ {x}

\* accept: past the limit the raw socket is closed and nothing is kept.
Accept(c) ==
    /\ pc = "events" /\ writing = NoOne /\ Listener \in batch
    /\ peer[c].state = "new"
    /\ peer' = [peer EXCEPT ![c] = IF Cardinality(Peers) >= MaxPeers THEN Gone ELSE Fresh]
    /\ \/ Handled(Listener)                  \* nothing more in the backlog
       \/ UNCHANGED batch                    \* _ACCEPT_BUDGET allows another
    /\ UNCHANGED <<pc, route, owned, writing, native, socket, idle, failed, flips, fdCloses>>

\* The connection is gone by the time it is accepted.
AcceptNothing ==
    /\ pc = "events" /\ writing = NoOne /\ Listener \in batch
    /\ Handled(Listener)
    /\ UNCHANGED <<pc, route, owned, peer, writing, native, socket, idle, failed,
                   flips, fdCloses>>

\* Any other failure of accept, setblocking or register ends the service.
AcceptFails(c) ==
    /\ pc = "events" /\ writing = NoOne /\ Listener \in batch
    /\ peer[c].state = "new"
    /\ peer' = [peer EXCEPT ![c] = Gone]
    /\ failed' = TRUE /\ pc' = "cleanup"
    /\ idle' = IF Peers = {} THEN FALSE ELSE idle
    /\ UNCHANGED <<route, owned, batch, writing, native, socket, flips, fdCloses>>

-----------------------------------------------------------------------------
(* Reading and dispatch.  Reads(c) is the guard of a readable peer's event; *)
(* a late peer is closed by the loop before its event is looked at.        *)

Reads(c) ==
    /\ pc = "events" /\ writing = NoOne
    /\ c \in batch \cap Peers
    /\ peer[c].out = "none" /\ ~peer[c].late

\* run: after the read, a pending answer gets one write at once.
ThenWrite(c) ==
    /\ Handled(c)
    /\ writing' = IF peer'[c].state = "open" /\ peer'[c].out # "none" THEN c ELSE NoOne
    /\ UNCHANGED <<pc, native, socket, flips>>

\* EOF, a socket error, or a deadline that passed while the loop was busy.
Hangup(c) ==
    /\ pc = "events" /\ writing = NoOne
    /\ c \in batch \cap Peers
    /\ ClosePeers({c})
    /\ Handled(c)
    /\ UNCHANGED <<pc, owned, writing, native, socket, failed, flips, fdCloses>>

\* Nothing to read yet: part of a frame, or a would-block.
ReadPart(c) ==
    /\ pc = "events" /\ writing = NoOne
    /\ c \in batch \cap Peers
    /\ ~peer[c].late
    /\ Handled(c)
    /\ UNCHANGED <<pc, route, owned, peer, writing, native, socket, idle, failed,
                   flips, fdCloses>>

\* A frame that is no hello, a token of no open route, a malformed request or
\* one for another session: refused without touching any authority.
ReadRefused(c) ==
    /\ Reads(c)
    /\ Refuse(c, TRUE)
    /\ ThenWrite(c)
    /\ UNCHANGED <<owned, failed, fdCloses>>

\* dispatch of a hello: the token selects the route; the reservation is made
\* before the answer is built.
Hello(c, r) ==
    /\ Reads(c) /\ peer[c].route = NoOne
    /\ ~route[r].retired
    /\ IF route[r].peer # NoOne
       THEN ClosePeers({c}) /\ UNCHANGED <<owned, failed, fdCloses>>
       ELSE IF Status(r)
       THEN /\ peer' = [peer EXCEPT ![c].route = r, ![c].out = "success", ![c].len = 1,
                                    ![c].sent = 0, ![c].closeAfter = FALSE]
            /\ route' = [route EXCEPT ![r].peer = c]
            /\ UNCHANGED <<owned, idle, failed, fdCloses>>
       ELSE \E killed, unpinned, removed \in BOOLEAN :
            /\ Retire(r, killed, unpinned)
            /\ peer' = [peer EXCEPT ![c].route = r, ![c].out = "refusal", ![c].len = 1,
                                    ![c].closeAfter = TRUE]
            /\ route' = [RetiredRoute(r, removed) EXCEPT ![r].peer = c]
            /\ UNCHANGED idle
    /\ ThenWrite(c)

\* dispatch of a request whose authority held before and after the native call:
\* its result, or the adapter's own refusal, which keeps the connection.
Request(c, out, n) ==
    /\ Reads(c) /\ peer[c].route # NoOne
    /\ Status(peer[c].route)
    /\ Queue(c, out, n, FALSE, TRUE)
    /\ ThenWrite(c)
    /\ UNCHANGED <<route, owned, idle, failed, fdCloses>>

RequestDenied(c) ==
    /\ Reads(c) /\ peer[c].route # NoOne
    /\ ~Status(peer[c].route)
    /\ AuthorityDenied(c)
    /\ ThenWrite(c)

-----------------------------------------------------------------------------
(* Writing.                                                                *)

Writes(c) ==
    /\ pc = "events"
    /\ \/ writing = c
       \/ writing = NoOne /\ c \in batch /\ ~peer[c].late
    /\ peer[c].state = "open" /\ peer[c].out # "none"

Wrote(c) ==
    /\ batch' = batch \ {c} /\ writing' = NoOne
    /\ UNCHANGED <<pc, native, socket, flips>>

\* write: the authority of a success is checked again before every chunk.
WriteDenied(c) ==
    /\ Writes(c)
    /\ peer[c].out = "success" /\ ~Status(peer[c].route)
    /\ AuthorityDenied(c)
    /\ Wrote(c)

\* One chunk goes out; the last one returns the peer to reading, or ends it.
WriteChunk(c) ==
    /\ Writes(c) /\ ~peer[c].late
    /\ peer[c].out = "success" => Status(peer[c].route)
    /\ IF peer[c].sent + 1 < peer[c].len
       THEN peer' = [peer EXCEPT ![c].sent = @ + 1] /\ UNCHANGED <<route, idle>>
       ELSE IF peer[c].closeAfter
       THEN ClosePeers({c})
       ELSE /\ peer' = [peer EXCEPT ![c].out = "none", ![c].sent = 0, ![c].len = 0,
                                    ![c].late = FALSE]
            /\ UNCHANGED <<route, idle>>
    /\ Wrote(c)
    /\ UNCHANGED <<owned, failed, fdCloses>>

\* The deadline passed during the check, or the socket failed.
WriteFails(c) ==
    /\ Writes(c)
    /\ peer[c].out = "success" => Status(peer[c].route)
    /\ ClosePeers({c})
    /\ Wrote(c)
    /\ UNCHANGED <<owned, failed, fdCloses>>

WriteBlocks(c) ==
    /\ Writes(c) /\ ~peer[c].late
    /\ peer[c].out = "success" => Status(peer[c].route)
    /\ Wrote(c)
    /\ UNCHANGED <<route, owned, peer, idle, failed, fdCloses>>

-----------------------------------------------------------------------------
(* The loop.                                                               *)

AllRetired == \A r \in Routes : route[r].retired

\* Faulty variant: nobody looks at the deadlines of authenticated peers.
ExpiredUnauthenticated == {c \in Peers : AllRetired /\ peer[c].route = NoOne}

\* What the top of the loop closes: peers past their deadline and, once no
\* hello can succeed any more, peers that have not said theirs.
Expired ==
    {c \in Peers : peer[c].late \/ (AllRetired /\ peer[c].route = NoOne)}

Turn(ready) ==
    /\ pc = "top"
    /\ ready \subseteq Peers \ Expired
    /\ ClosePeers(Expired)
    /\ IF Peers = Expired /\ (AllRetired \/ (Expired = {} /\ idle))
       THEN pc' = "cleanup" /\ batch' = {}
       ELSE /\ pc' = "events"
            /\ batch' \in {ready, ready \union {Listener}}
    /\ UNCHANGED <<owned, writing, native, socket, failed, flips, fdCloses>>

EndTurn ==
    /\ pc = "events" /\ writing = NoOne /\ batch = {}
    /\ pc' = "top"
    /\ UNCHANGED <<route, owned, peer, batch, writing, native, socket, idle, failed,
                   flips, fdCloses>>

\* SIGINT or SIGTERM, between any two steps of setup or of the loop.
Stop ==
    /\ pc \notin {"cleanup", "ended"}
    /\ pc' = "cleanup"
    /\ UNCHANGED <<route, owned, peer, batch, writing, native, socket, idle, failed,
                   flips, fdCloses>>

\* The finally block: every resource gets its own attempt.  K are the contexts
\* whose processes are reaped, U the ones whose scope closes, R the credentials
\* that are removed; every failure is reported by the exit status.
Cleanup(K, U, R, unlinked) ==
    /\ pc = "cleanup" /\ pc' = "ended"
    /\ peer' = [c \in Conns |-> IF c \in Peers THEN Gone ELSE peer[c]]
    /\ owned' = [r \in Routes |-> IF owned[r].state \in {"open", "closed"}
                                  THEN Closed(owned[r], r \in K, r \in U) ELSE owned[r]]
    /\ fdCloses' = [r \in Routes |-> fdCloses[r] + ClosesFd(owned[r])]
    /\ route' = [r \in Routes |-> [route[r] EXCEPT !.peer = NoOne,
                                                   !.credential = @ /\ r \notin R]]
    /\ socket' = (socket /\ ~unlinked)
    /\ failed' = \/ failed
                 \/ \E r \in Routes : owned'[r].state = "closed" \/ route'[r].credential
                 \/ socket'
    /\ batch' = {} /\ writing' = NoOne
    /\ UNCHANGED <<native, idle, flips>>

-----------------------------------------------------------------------------
(* The world: other processes change the ledger, clocks run.               *)

Grant(r) ==
    /\ flips < MaxFlips /\ flips' = flips + 1
    /\ pc # "ended"
    /\ native' = [native EXCEPT ![r] = ~@]
    /\ UNCHANGED <<pc, route, owned, peer, batch, writing, socket, idle, failed, fdCloses>>

PeerDeadline(c) ==
    /\ pc \in {"top", "events"}
    /\ c \in Peers /\ ~peer[c].late
    /\ peer' = [peer EXCEPT ![c].late = TRUE]
    /\ UNCHANGED <<pc, route, owned, batch, writing, native, socket, idle, failed,
                   flips, fdCloses>>

IdleDeadline ==
    /\ pc \in {"top", "events"} /\ Peers = {} /\ ~idle
    /\ idle' = TRUE
    /\ UNCHANGED <<pc, route, owned, peer, batch, writing, native, socket, failed,
                   flips, fdCloses>>

Setup ==
    \/ \E r \in Routes : OpenContext(r)
    \/ \E r \in Routes, pinned, unpinned \in BOOLEAN : OpenContextFails(r, pinned, unpinned)
    \/ ContextsOpen
    \/ Bind
    \/ \E bound \in BOOLEAN : BindFails(bound)
    \/ \E r \in Routes : Publish(r)
    \/ \E r \in Routes, removed \in BOOLEAN : PublishFails(r, removed)
    \/ Serve

ReadEvent(c) ==
    \/ Hangup(c)
    \/ ReadPart(c)
    \/ ReadRefused(c)
    \/ \E r \in Routes : Hello(c, r)
    \/ \E out \in {"success", "refusal"}, n \in 1..MaxChunks : Request(c, out, n)
    \/ RequestDenied(c)

WriteEvent(c) ==
    \/ WriteDenied(c)
    \/ WriteChunk(c)
    \/ WriteFails(c)
    \/ WriteBlocks(c)

Loop ==
    \/ \E ready \in SUBSET Peers : Turn(ready)
    \/ EndTurn
    \/ AcceptNothing
    \/ \E c \in Conns : Accept(c) \/ AcceptFails(c) \/ ReadEvent(c) \/ WriteEvent(c)

Finish ==
    \E K \in SUBSET {r \in Routes : owned[r].processes = "held"},
       U \in SUBSET {r \in Routes : owned[r].scope = "held"},
       R \in SUBSET {r \in Routes : route[r].credential},
       unlinked \in BOOLEAN : Cleanup(K, U, R, unlinked)

Clock ==
    \/ \E c \in Conns : PeerDeadline(c)
    \/ IdleDeadline

ServiceNext ==
    \/ Setup
    \/ Loop
    \/ ClosePeerFails
    \/ Stop
    \/ Finish
    \/ Clock
    \/ \E r \in Routes : Grant(r)

ServiceSpec == ServiceInit /\ [][ServiceNext]_serviceVars

-----------------------------------------------------------------------------
(* Properties.                                                             *)

\* Wherever dispatch, retire, close_peer and accept have been, a route's
\* reservation and its peer name each other, so two connections never answer
\* for one run and a closed connection never keeps a run reserved.
ReservationsAgree ==
    \A r \in Routes, c \in Conns :
        route[r].peer = c <=> (peer[c].state = "open" /\ peer[c].route = r)

\* A route that was retired never lets another chunk of a success out, even
\* when the ledger grants its run again and although write() looks only at the
\* status of the context, never at the retired flag.
RetiredRouteMute ==
    \A c \in Conns :
        /\ peer[c].out = "success" /\ peer'[c].state = "open"
        /\ peer'[c].out = "none" \/ peer'[c].sent > peer[c].sent
        => ~route[peer[c].route].retired

\* Once part of a frame is on the wire, the peer gets the rest of that frame or
\* the end of the connection, never the start of another frame (the comment in
\* authority_denied: "A partial success frame cannot be followed by a refusal
\* frame").
HalfFrameNotAnswered ==
    \A c \in Conns :
        peer[c].sent > 0 =>
            \/ peer'[c].state = "gone"
            \/ peer'[c].out = "none" /\ peer[c].sent + 1 = peer[c].len
            \/ peer'[c].out = peer[c].out /\ peer'[c].len = peer[c].len
               /\ peer'[c].sent \in {peer[c].sent, peer[c].sent + 1}

\* retire, the failed admission and the final broker.close() together close a
\* route's pinned descriptor at most once, because after an ambiguous close the
\* number may name somebody else's file.
DescriptorClosedOnce ==
    \A r \in Routes : fdCloses[r] <= 1

\* A service that reports success left nothing behind: no socket, credential,
\* peer, session, descriptor or process owner.
CleanExit ==
    (pc = "ended" /\ ~failed) =>
        /\ ~socket
        /\ Peers = {}
        /\ \A r \in Routes : /\ ~route[r].credential
                             /\ owned[r].state \in {"absent", "released"}
                             /\ ~owned[r].session

\* _MAX_PEERS bounds the connections that hold buffers, whatever clients do.
PeersBounded == Cardinality(Peers) <= MaxPeers

\* A route's reservation and its peer name each other and at most _MAX_PEERS
\* connections hold buffers, wherever dispatch, retire, close_peer and accept
\* have been: no closed connection keeps a run reserved or a place taken.
PeersAccountedFor == ServiceTypeOK /\ ReservationsAgree /\ PeersBounded

\* Whatever fails and whenever a stop arrives, a pinned descriptor is closed at
\* most once, since after an ambiguous close its number may name another file,
\* and a service that reports success left nothing behind.
ReleasedOnce == DescriptorClosedOnce /\ CleanExit

\* A retired route lets no further chunk of a success out, even when its run is
\* granted again, and half a frame is followed by its rest or by the end of the
\* connection, never by another frame (the comment in authority_denied).
NoStrayAnswers == [][RetiredRouteMute /\ HalfFrameNotAnswered]_serviceVars
=============================================================================

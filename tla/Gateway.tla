------------------------------- MODULE Gateway -------------------------------
(***************************************************************************)
(* The WebSocket gateway of one API process (apps/api/src/gateway/index.ts) *)
(* and the web client that talks to it (apps/web/src/lib/gateway-client.ts):*)
(* HELLO, IDENTIFY, RESUME, numbered dispatches, the per-connection replay  *)
(* buffer, orphaned sessions and the asynchronous fan-out of events.        *)
(*                                                                          *)
(* A handler that awaits the database is split at the await.  A Node `Map`  *)
(* is iterated live and in insertion order, so sockets are numbered in the  *)
(* order in which they are opened.  A frame reaches the browser in the step *)
(* that sends it, unless the browser has already dropped the socket: frames *)
(* lost in transit are those the server sends after ClientClose.            *)
(***************************************************************************)
EXTENDS Naturals, Sequences, FiniteSets

CONSTANTS
    Device,       \* GatewayClient objects: one per signed-in browser tab
    User,         \* accounts
    UserOf,       \* the account a device is signed in to
    MaxConns,     \* bound: sockets opened in one behaviour
    MaxEvents,    \* bound: events published in one behaviour
    BufferMax     \* BUFFER_MAX: replay entries kept per connection

ASSUME GatewayAssumption ==
    /\ Device # {}
    /\ UserOf \in [Device -> User]
    /\ MaxConns \in Nat \ {0}
    /\ MaxEvents \in Nat
    /\ BufferMax \in Nat \ {0}

VARIABLES
    conn,       \* conn[c]: the server's Client record of socket c
    heap,       \* heap[c]: the replay array allocated with socket c
    orphans,    \* orphanedSessions: closed session ids and what they left
    userConns,  \* userConnections: socket ids registered per user
    fan,        \* fan-outs in flight, each awaiting shouldDeliver for a socket
    published,  \* events published so far; event e is the e-th
    serverRow,  \* the server row READY carries, as the event that last changed it
    up,         \* the handshake request the browser has sent on a socket
    dev,        \* dev[d]: the GatewayClient object of a device
    knows,      \* events a device was told of, and the server rows it was given
    shows       \* the server row a device displays

vars == <<conn, heap, orphans, userConns, fan, published, serverRow, up, dev, knows, shows>>

-----------------------------------------------------------------------------
Conn == 1..MaxConns
NoConn == 0
Event == 1..MaxEvents
Version == 0..MaxEvents  \* of the server row; 0 until an event changes it

NoRequest == [op |-> "none", sid |-> NoConn, last |-> 0]
Identify == [op |-> "IDENTIFY", sid |-> NoConn, last |-> 0]
Request == {NoRequest, Identify} \cup [op : {"RESUME"}, sid : Conn, last : Nat]
FanOut == [ev : Event, row : BOOLEAN, at : Conn]

\* A DISPATCH: of an event, which hands over the server row if it is a
\* SERVER_UPDATE, or READY, which hands over the row its query has read.
Frame == [s : Nat, ready : BOOLEAN, ev : Version, row : BOOLEAN]
NoOrphan == [live |-> FALSE]
Orphan == [live : {TRUE}, user : User, seq : Nat, buf : Conn, floor : Nat]

Client == [phase : {"unused", "open", "closing", "closed"}, dev : Device, identified : BOOLEAN,
           seq : Nat, buf : Conn, floor : Nat, task : {"idle", "query", "ready"}, snap : Version,
           since : 0..MaxEvents]  \* since: history, `published` when `identified` was set
GatewayClient == [sock : Conn \cup {NoConn}, resume : Conn \cup {NoConn}, last : Nat,
                  status : {"idle", "connecting", "ready", "reconnecting"}]

\* A socket that has not been opened yet.
Unused(c) ==
    [phase |-> "unused", dev |-> CHOOSE d \in Device : TRUE, identified |-> FALSE,
     seq |-> 0, buf |-> c, floor |-> 0, task |-> "idle", snap |-> 0, since |-> 0]

Open(c) == conn[c].phase \in {"open", "closing"}  \* c is in the `clients` map
Attached(c) == dev[conn[c].dev].sock = c          \* the browser still holds c
Reachable(c) == conn[c].phase = "open" /\ Attached(c)
UserOn(c) == UserOf[conn[c].dev]

-----------------------------------------------------------------------------
(* The replay buffer.                                                        *)

\* `buffer.push(..)`, then `shift()` when it exceeds BUFFER_MAX.
Pushed(buf, entry) ==
    LET grown == Append(buf, entry)
    IN  IF Len(grown) > BufferMax THEN Tail(grown) ELSE grown

\* Mutant: the floor is set to the dropped number instead of the one after it.
FloorAfterOffByOne(buf, floor, s) ==
    IF Len(buf) + 1 > BufferMax THEN Head(buf).s
    ELSE IF Len(buf) = 0 THEN s ELSE floor

\* `bufferFloor` after the push of the entry numbered s.
FloorAfter(buf, floor, s) ==
    IF Len(buf) + 1 > BufferMax THEN Head(buf).s + 1
    ELSE IF Len(buf) = 0 THEN s ELSE floor

(* Sending.                                                                 *)

Latest(at) == CHOOSE i \in at : \A j \in at : j <= i

\* handlePayload on the DISPATCHes `at` of `frames`, in order: remember the last
\* number, hand over the events.  READY and SERVER_UPDATE alike put the row they
\* carry in place of the one displayed, whichever is the newer; no other data is
\* fetched or dropped.
OnDispatch(d, frames, at) ==
    LET rows == {i \in at : frames[i].row} IN
    /\ dev' = [dev EXCEPT ![d].last = frames[Latest(at)].s,
                          ![d].status = IF \E i \in at : frames[i].ready THEN "ready" ELSE @]
    /\ knows' = [knows EXCEPT ![d] = @ \cup {frames[i].ev : i \in at}]
    /\ shows' = [shows EXCEPT ![d] = IF rows = {} THEN @ ELSE frames[Latest(rows)].ev]

\* sendRaw of a DISPATCH: nothing once the socket is closing; a slow consumer
\* is evicted instead of sent to; otherwise the browser gets the frame.
SendRaw(c, frame, slow) ==
    IF Reachable(c) /\ ~slow THEN OnDispatch(conn[c].dev, <<frame>>, {1})
    ELSE UNCHANGED <<dev, knows, shows>>
Evicted(phase, slow) == IF phase = "open" /\ slow THEN "closing" ELSE phase

\* sendDispatch on socket c, whose Client record is `client`: number the frame,
\* buffer it, send it.
SendDispatch(c, client, ready, ev, isRow, slow) ==
    LET s == client.seq + 1
        frame == [s |-> s, ready |-> ready, ev |-> ev, row |-> isRow]
        buf == heap[client.buf]
    IN  /\ heap' = [heap EXCEPT ![client.buf] = Pushed(buf, frame)]
        /\ conn' = [conn EXCEPT ![c] =
              [client EXCEPT !.seq = s, !.floor = FloorAfter(buf, client.floor, s),
                             !.phase = Evicted(client.phase, slow)]]
        /\ SendRaw(c, frame, slow)

\* Mutant: the iteration passes over a socket whose READY is still being built.
NextTargetSkipsHandshake(c) ==
    LET ahead == {k \in Conn : k > c /\ Open(k) /\ conn[k].identified /\ conn[k].task = "idle"}
    IN  IF ahead = {} THEN NoConn ELSE CHOOSE k \in ahead : \A j \in ahead : k <= j

\* The next socket the live iteration over `clients` stops at, after socket c.
NextTarget(c) ==
    LET ahead == {k \in Conn : k > c /\ Open(k) /\ conn[k].identified}
    IN  IF ahead = {} THEN NoConn ELSE CHOOSE k \in ahead : \A j \in ahead : k <= j

-----------------------------------------------------------------------------
Init ==
    /\ conn = [c \in Conn |-> Unused(c)]
    /\ heap = [c \in Conn |-> <<>>]
    /\ orphans = [c \in Conn |-> NoOrphan]
    /\ userConns = [u \in User |-> {}]
    /\ fan = {}
    /\ published = 0
    /\ serverRow = 0
    /\ up = [c \in Conn |-> NoRequest]
    /\ dev = [d \in Device |-> [sock |-> NoConn, status |-> "idle", last |-> 0, resume |-> NoConn]]
    /\ knows = [d \in Device |-> {}]
    /\ shows = [d \in Device |-> 0]

(* -- the browser ---------------------------------------------------------- *)

\* HELLO: RESUME the previous session if there is one, else IDENTIFY.
HelloReply(d) ==
    IF dev[d].resume # NoConn /\ dev[d].last > 0
    THEN [op |-> "RESUME", sid |-> dev[d].resume, last |-> dev[d].last]
    ELSE Identify

\* connect(), by the application or by the reconnect timer: the server accepts
\* the socket and says HELLO, the client answers.
Connect(d, c) ==
    /\ dev[d].sock = NoConn
    /\ conn[c].phase = "unused"
    /\ \A k \in Conn : k < c => conn[k].phase # "unused"
    /\ up' = [up EXCEPT ![c] = HelloReply(d)]
    /\ dev' = [dev EXCEPT ![d].sock = c, ![d].resume = c,
                          ![d].status = IF HelloReply(d).op = "RESUME" THEN "ready" ELSE "connecting"]
    /\ conn' = [conn EXCEPT ![c].phase = "open", ![c].dev = d]
    /\ UNCHANGED <<heap, orphans, userConns, fan, published, serverRow, knows, shows>>

\* The browser's 'close' event: cleanupSocket and scheduleReconnect.
ClientClose(d) ==
    /\ dev[d].sock # NoConn
    /\ dev' = [dev EXCEPT ![d].sock = NoConn, ![d].status = "reconnecting"]
    /\ UNCHANGED <<conn, heap, orphans, userConns, fan, published, serverRow, up, knows, shows>>

(* -- the server: handshake ------------------------------------------------ *)

\* INVALID_SESSION is sent on c: the browser, if it is still there, forgets its
\* place in the stream and IDENTIFYs on the same socket.
Invalidated(c) ==
    /\ dev' = IF Reachable(c) THEN [dev EXCEPT ![conn[c].dev].last = 0, ![conn[c].dev].resume = c] ELSE dev
    /\ up' = [up EXCEPT ![c] = IF Reachable(c) THEN Identify ELSE NoRequest]

\* The token or session checks fail: INVALID_SESSION, then close 4401.
AuthFails(c) ==
    /\ up[c].op # "none"
    /\ Invalidated(c)
    /\ conn' = [conn EXCEPT ![c].phase = IF @ = "open" THEN "closing" ELSE @]
    /\ UNCHANGED <<heap, orphans, userConns, fan, published, serverRow, knows, shows>>

RegisterReplacesSet(c) ==   \* Mutant: a new Set for every socket.
    userConns' = [userConns EXCEPT ![UserOn(c)] = {c}]
RegisterUserConnection(c) ==
    userConns' = [userConns EXCEPT ![UserOn(c)] = @ \cup {c}]

\* The synchronous part after the awaits of the session checks, which IDENTIFY
\* and RESUME share: it runs even if the socket closed during the awaits.
Handle(c, op) ==
    /\ up[c].op = op
    /\ conn[c].task = "idle"
    /\ RegisterUserConnection(c)
    /\ UNCHANGED <<fan, published, serverRow>>

\* The Client record with `identified` set, awaiting what `task` says.
Registered(c, task) ==
    [conn[c] EXCEPT !.identified = TRUE, !.task = task,
                    !.since = IF conn[c].identified THEN @ ELSE published]

\* IDENTIFY, up to `await buildReadyPayload`.
HandleIdentify(c) ==
    /\ Handle(c, "IDENTIFY")
    /\ conn' = [conn EXCEPT ![c] = Registered(c, "query")]
    /\ up' = [up EXCEPT ![c] = NoRequest]
    /\ UNCHANGED <<heap, orphans, dev, knows, shows>>

\* The orphan a RESUME may adopt: present, of the same user, and not expired
\* (an expired one is removed by OrphanExpires).
Adoptable(c) ==
    /\ up[c].op = "RESUME"
    /\ orphans[up[c].sid].live
    /\ orphans[up[c].sid].user = UserOn(c)

ReachesBack(c) == orphans[up[c].sid].floor <= up[c].last + 1

\* Mutant: the adopted orphan is left in the map.
ResumeAdoptKeepsOrphan(c) ==
    LET o == orphans[up[c].sid] IN
    /\ Adoptable(c)
    /\ ReachesBack(c)
    /\ Handle(c, "RESUME")
    /\ conn' = [conn EXCEPT ![c] =
          [Registered(c, "idle") EXCEPT !.seq = o.seq, !.buf = o.buf, !.floor = o.floor]]
    /\ up' = [up EXCEPT ![c] = NoRequest]
    /\ UNCHANGED <<heap, orphans, dev, knows, shows>>

\* Of the entries `due`, those up to the n-th of the array reach the browser.
Replay(c, buf, due, n) ==
    LET replayed == {i \in due : i <= n} IN
    IF Reachable(c) /\ replayed # {} THEN OnDispatch(conn[c].dev, buf, replayed)
    ELSE UNCHANGED <<dev, knows, shows>>

\* RESUME with an orphan that reaches back far enough: adopt the array and
\* replay.  The socket may turn out slow before the replay is through.
ResumeAdopt(c) ==
    LET o == orphans[up[c].sid]
        buf == heap[o.buf]
        due == {i \in 1..Len(buf) : buf[i].s > up[c].last}
    IN
    /\ Adoptable(c)
    /\ ReachesBack(c)
    /\ Handle(c, "RESUME")
    /\ orphans' = [orphans EXCEPT ![up[c].sid] = NoOrphan]
    /\ \E n \in due \cup {0} :
          /\ Replay(c, buf, due, n)
          /\ conn' = [conn EXCEPT ![c] =
                [Registered(c, "idle") EXCEPT !.seq = o.seq, !.buf = o.buf, !.floor = o.floor,
                    !.phase = Evicted(@, \E i \in due : i > n)]]
    /\ up' = [up EXCEPT ![c] = NoRequest]
    /\ UNCHANGED heap

\* Mutant: a RESUME that cannot be replayed gets no INVALID_SESSION.
ResumeGapSilent(c) ==
    /\ Adoptable(c)
    /\ ~ReachesBack(c)
    /\ Handle(c, "RESUME")
    /\ orphans' = [orphans EXCEPT ![up[c].sid] = NoOrphan]
    /\ conn' = [conn EXCEPT ![c] = Registered(c, "idle")]
    /\ up' = [up EXCEPT ![c] = NoRequest]
    /\ UNCHANGED <<heap, dev, knows, shows>>

\* RESUME with an orphan that no longer reaches back: BUFFER_GAP.
ResumeGap(c) ==
    /\ Adoptable(c)
    /\ ~ReachesBack(c)
    /\ Handle(c, "RESUME")
    /\ orphans' = [orphans EXCEPT ![up[c].sid] = NoOrphan]
    /\ conn' = [conn EXCEPT ![c] = Registered(c, "idle")]
    /\ Invalidated(c)
    /\ UNCHANGED <<heap, knows, shows>>

\* RESUME without an orphan: fall back to a fresh READY.
ResumeFresh(c) ==
    /\ Handle(c, "RESUME")
    /\ ~Adoptable(c)
    /\ conn' = [conn EXCEPT ![c] = Registered(c, "query")]
    /\ up' = [up EXCEPT ![c] = NoRequest]
    /\ UNCHANGED <<heap, orphans, dev, knows, shows>>

\* buildReadyPayload reads the user's server rows, and nothing else ...
ReadyQuery(c) ==
    /\ conn[c].task = "query"
    /\ conn' = [conn EXCEPT ![c].task = "ready", ![c].snap = serverRow]
    /\ UNCHANGED <<heap, orphans, userConns, fan, published, serverRow, up, dev, knows, shows>>

\* ... and READY is dispatched when its queries have returned.
ReadySend(c, slow) ==
    /\ conn[c].task = "ready"
    /\ SendDispatch(c, [conn[c] EXCEPT !.task = "idle", !.snap = 0], TRUE, conn[c].snap, TRUE, slow)
    /\ UNCHANGED <<orphans, userConns, fan, published, serverRow, up>>

(* -- the server: fan-out -------------------------------------------------- *)

\* A route writes and publishes an event, of the server row READY carries
\* (SERVER_UPDATE) or of anything else: the broker calls the gateway's
\* subscriber, which runs fanout up to its first await.
Publish(isRow) ==
    /\ published < MaxEvents
    /\ published' = published + 1
    /\ serverRow' = IF isRow THEN published' ELSE serverRow
    /\ fan' = IF NextTarget(NoConn) = NoConn THEN fan
              ELSE fan \cup {[ev |-> published', row |-> isRow, at |-> NextTarget(NoConn)]}
    /\ UNCHANGED <<conn, heap, orphans, userConns, up, dev, knows, shows>>

\* shouldDeliver resolves for the socket a fan-out waits on: dispatch to it,
\* open or not, and go on to the next identified socket.
Deliver(f, slow) ==
    /\ SendDispatch(f.at, conn[f.at], FALSE, f.ev, f.row, slow)
    /\ fan' = (fan \ {f}) \cup
              (IF NextTarget(f.at) = NoConn THEN {} ELSE {[f EXCEPT !.at = NextTarget(f.at)]})
    /\ UNCHANGED <<orphans, userConns, published, serverRow, up>>

(* -- the server: disconnection -------------------------------------------- *)

\* The server's 'close' event: leave the map, stash the buffer, untrack.  A
\* request in flight from the browser may or may not have been read by then.
ServerClose(c) ==
    LET me == conn[c] IN
    /\ Open(c)
    /\ ~Reachable(c)
    /\ conn' = [conn EXCEPT ![c].phase = "closed"]
    /\ orphans' = IF me.identified /\ heap[me.buf] # <<>>
                  THEN [orphans EXCEPT ![c] = [live |-> TRUE, user |-> UserOn(c), seq |-> me.seq,
                                               buf |-> me.buf, floor |-> me.floor]]
                  ELSE orphans
    /\ userConns' = IF me.identified THEN [userConns EXCEPT ![UserOn(c)] = @ \ {c}] ELSE userConns
    /\ up' \in {up, [up EXCEPT ![c] = NoRequest]}
    /\ UNCHANGED <<heap, fan, published, serverRow, dev, knows, shows>>

\* The heartbeat sweeper or the IDENTIFY timeout starts to close a socket.
SweepSocket(c) ==
    /\ conn[c].phase = "open"
    /\ conn' = [conn EXCEPT ![c].phase = "closing"]
    /\ UNCHANGED <<heap, orphans, userConns, fan, published, serverRow, up, dev, knows, shows>>

\* ORPHAN_BUFFER_TTL_MS passes.
OrphanExpires(c) ==
    /\ orphans[c].live
    /\ orphans' = [orphans EXCEPT ![c] = NoOrphan]
    /\ UNCHANGED <<conn, heap, userConns, fan, published, serverRow, up, dev, knows, shows>>

-----------------------------------------------------------------------------
Handshake(c) ==
    \/ HandleIdentify(c)
    \/ ResumeAdopt(c)
    \/ ResumeGap(c)
    \/ ResumeFresh(c)
    \/ ReadyQuery(c)
    \/ \E slow \in BOOLEAN : ReadySend(c, slow)

Next ==
    \/ \E d \in Device : ClientClose(d) \/ \E c \in Conn : Connect(d, c)
    \/ \E c \in Conn : \/ Handshake(c)
                       \/ AuthFails(c)
                       \/ ServerClose(c)
                       \/ SweepSocket(c)
                       \/ OrphanExpires(c)
    \/ \E isRow \in BOOLEAN : Publish(isRow)
    \/ \E f \in fan, slow \in BOOLEAN : Deliver(f, slow)

Spec == Init /\ [][Next]_vars

-----------------------------------------------------------------------------
(* Properties.                                                               *)

TypeOK ==
    /\ conn \in [Conn -> Client]
    /\ heap \in [Conn -> Seq(Frame)]
    /\ \A c \in Conn : Len(heap[c]) <= BufferMax
    /\ orphans \in [Conn -> Orphan \cup {NoOrphan}]
    /\ userConns \in [User -> SUBSET Conn]
    /\ fan \subseteq FanOut
    /\ published \in 0..MaxEvents
    /\ serverRow \in Version
    /\ up \in [Conn -> Request]
    /\ dev \in [Device -> GatewayClient]
    /\ knows \in [Device -> SUBSET Version]
    /\ shows \in [Device -> Version]

\* Device d has a working socket and nothing that concerns it is in flight.
Settled(d) ==
    LET c == dev[d].sock IN
    /\ c # NoConn
    /\ conn[c].phase = "open" /\ conn[c].identified /\ conn[c].task = "idle"
    /\ up[c].op = "none"
    /\ fan = {}

\* The stream on socket c was started by a READY and not taken over by RESUME.
OwnStream(c) == c # NoConn /\ conn[c].buf = c

\* The device was told of whatever was published since its socket was registered
\* and, unless its stream was taken over, of the present server row.
UpToDate(d) ==
    LET c == dev[d].sock IN
    /\ conn[c].identified
    /\ (conn[c].since + 1)..published \subseteq knows[d]
    /\ OwnStream(c) => serverRow \in knows[d]

\* The stream of a registered socket has no hole, through the building of READY,
\* a replay or a BUFFER_GAP: every event published since is told, and a stream
\* that began with READY includes the present server row, either in READY or as
\* an event that followed its query.  It rests on `identified` being set before
\* the READY query (gateway/index.ts:287-295) and on the live iteration in
\* fanout (389).
StreamMissesNothing == \A d \in Device : Settled(d) => UpToDate(d)

\* Until a RESUME takes it over, the buffer of an open socket is exactly the
\* run bufferFloor..seq, so the BUFFER_GAP test of RESUME decides correctly
\* whether it can replay (sendDispatch, 431-449; RESUME, 329).
RingExact ==
    \A c \in Conn :
        Open(c) /\ OwnStream(c) /\ heap[c] # <<>> =>
            /\ \A i \in 1..Len(heap[c]) : heap[c][i].s = conn[c].floor + i - 1
            /\ heap[c][Len(heap[c])].s = conn[c].seq

\* A replay buffer has one owner: no two open sockets, and no open socket and
\* orphaned session, dispatch into the same array (RESUME deletes the orphan
\* before it adopts the array, 324 and 343).
BufferHasOneOwner ==
    /\ \A c1, c2 \in Conn : Open(c1) /\ Open(c2) /\ conn[c1].buf = conn[c2].buf => c1 = c2
    /\ \A c, o \in Conn : Open(c) /\ orphans[o].live => conn[c].buf # orphans[o].buf
    /\ \A o1, o2 \in Conn :
           orphans[o1].live /\ orphans[o2].live /\ orphans[o1].buf = orphans[o2].buf => o1 = o2

\* The last-connection cleanup (voice states, presence) never runs under a user
\* who still has an identified open socket: every such socket is registered
\* (registerUserConnection, 451; the close handler, 251-264).
OpenSocketIsTracked ==
    \A c \in Conn : Open(c) /\ conn[c].identified => c \in userConns[UserOn(c)]

\* Scheduling: the event loop runs every ready continuation, and each side
\* eventually notices a socket the other one has closed.
Fairness ==
    /\ \A c \in Conn : WF_vars(Handshake(c)) /\ WF_vars(ServerClose(c))
    /\ WF_vars(\E f \in fan, slow \in BOOLEAN : Deliver(f, slow))

FairSpec == Spec /\ Fairness

\* A client that keeps its socket is eventually registered and told of what is
\* published from then on, and of the present server row unless it adopted an
\* orphan, whatever mixture of RESUME, BUFFER_GAP and IDENTIFY its handshake goes
\* through.
EventuallyUpToDate ==
    \A d \in Device :
        []<>(\/ dev[d].sock = NoConn
             \/ conn[dev[d].sock].phase # "open"
             \/ UpToDate(d))

(* What the comments promise of RESUME, of READY and of the connection set.  *)

\* The device was told of everything published since it first registered a socket.
CaughtUp(d) ==
    \A c \in Conn : conn[c].dev = d /\ conn[c].identified =>
        (conn[c].since + 1)..published \subseteq knows[d]

\* gateway/index.ts:72-74: a reconnect within the TTL can "splice the orphaned
\* buffer onto its new socket and catch up without a full state refetch".
ResumeCatchesUp ==
    \A d \in Device : Settled(d) /\ ~OwnStream(dev[d].sock) => CaughtUp(d)

\* gateway/index.ts:353: without an orphan, RESUME falls back "to a fresh READY so
\* the client repopulates from scratch".
ReadyRepopulates ==
    \A d \in Device : Settled(d) /\ OwnStream(dev[d].sock) => CaughtUp(d)

\* The client puts the row of READY and of every SERVER_UPDATE in place of the one
\* it displays (realtime.ts:140-172, 215) as if it were the present one: what a
\* settled client displays is the present row.
ServerRowIsLatest ==
    \A d \in Device : Settled(d) /\ OwnStream(dev[d].sock) => shows[d] = serverRow

\* gateway/index.ts:326-328: a client that cannot be brought back consistent is
\* forced to IDENTIFY "instead of silently dropping events between READY and
\* their next dispatch": the position of a settled client is one its stream has
\* reached.
ClientNotAheadOfStream ==
    \A d \in Device :
        LET buf == heap[conn[dev[d].sock].buf]
        IN  Settled(d) /\ buf # <<>> => dev[d].last <= buf[Len(buf)].s

\* gateway/index.ts:14: "each DISPATCH includes a monotonic sequence number":
\* the dispatches buffered for an open socket have increasing numbers.
MonotonicSequence ==
    \A c \in Conn : Open(c) =>
        \A i, j \in 1..Len(heap[conn[c].buf]) :
            i < j => heap[conn[c].buf][i].s < heap[conn[c].buf][j].s

\* gateway/index.ts:89-93: userConnections "lets the gateway know when the last
\* tab/socket for a user has closed": it holds open sockets only.
ClosedSocketIsUntracked ==
    \A u \in User : \A c \in userConns[u] : Open(c)

=============================================================================

---------------------------- MODULE GatewayProofs ----------------------------
(***************************************************************************)
(* Proofs about Gateway, for any number of tabs, accounts, sockets and       *)
(* events and any buffer size: types, the replay buffers and their owners,   *)
(* the tracking of sockets, and that the stream of a socket has no hole; and *)
(* about Presence, which counts its sockets, for any number of handlers,      *)
(* sockets, statuses and writes: types, the socket count, and that            *)
(* debouncing loses no state.                                                *)
(***************************************************************************)
EXTENDS Gateway, Presence, WellFoundedInduction, FiniteSetTheorems, TLAPS

\* A socket that has not been opened has left no trace.
UnusedIsBlank ==
    \A c \in Conn : conn[c].phase = "unused" =>
        /\ conn[c].buf = c /\ heap[c] = <<>>
        /\ ~conn[c].identified /\ conn[c].task = "idle" /\ up[c].op = "none"

\* The socket a device holds was opened by it, and only identified sockets are
\* sent events.
SocketsBelong ==
    /\ \A d \in Device : dev[d].sock # NoConn =>
           conn[dev[d].sock].dev = d /\ conn[dev[d].sock].phase # "unused"
    /\ \A f \in fan : conn[f.at].identified

\* Nothing tells of an event before it is published.
NothingFromTheFuture ==
    /\ \A f \in fan : f.ev \in 1..published
    /\ serverRow \in 0..published
    /\ \A c \in Conn : conn[c].snap \in 0..published

\* Until its socket closes, nobody else has the array allocated with a socket.
OwnArray ==
    \A c \in Conn : conn[c].phase # "closed" =>
        /\ \A k \in Conn : conn[k].buf = c => k = c
        /\ \A o \in Conn : orphans[o].live => orphans[o].buf # c

\* Event e will reach socket c: a fan-out of it has not passed c yet.
Coming(c, e) == \E f \in fan : f.ev = e /\ f.at <= c

\* Event or row e is told to the browser that holds socket c, or will be.
Told(c, e) == e \in knows[conn[c].dev] \/ Coming(c, e)

\* The present row is told to it, or READY is on the way and will tell it.
RowTold(c) ==
    \/ conn[c].task = "idle" /\ up[c].op # "none"
    \/ conn[c].task = "query"
    \/ conn[c].task = "ready" /\ conn[c].snap = serverRow
    \/ Told(c, serverRow)

\* What was published since a socket was registered and its browser was not told
\* is coming to it, and so is the present row if its stream began with READY.
NothingIsMissed ==
    \A c \in Conn : Reachable(c) /\ conn[c].identified =>
        /\ \A e \in (conn[c].since + 1)..published : Told(c, e)
        /\ OwnStream(c) => RowTold(c)

-----------------------------------------------------------------------------
(* Lemmas.                                                                   *)

\* A set of numbers has a least one.
LEMMA LeastExists == ASSUME NEW T \in SUBSET Nat, T # {} PROVE \E x \in T : \A y \in T : x <= y
<1> DEFINE R == {ss \in Nat \X Nat : ss[1] < ss[2]}
<1>1. IsWellFoundedOn(R, Nat)
  BY NatLessThanWellFounded DEF OpToRel
<1>2. PICK x \in T : \A y \in T : ~(<<y, x>> \in R)
  <2> HIDE DEF R
  <2> QED
    BY <1>1, WFMin
<1>3. \A y \in T : ~ (y < x)
  BY <1>2
<1>4. QED
  BY <1>3

\* The live iteration over `clients` stops at no socket before the next that is
\* identified and open, and passes over none.
LEMMA NextTargetResult ==
    ASSUME NEW c \in Conn \cup {NoConn}
    PROVE  /\ NextTarget(c) \in Conn \cup {NoConn}
           /\ NextTarget(c) # NoConn => conn[NextTarget(c)].identified
           /\ \A k \in Conn : k > c /\ Open(k) /\ conn[k].identified =>
                  NextTarget(c) # NoConn /\ NextTarget(c) <= k
<1> DEFINE ahead == {k \in Conn : k > c /\ Open(k) /\ conn[k].identified}
<1>1. NoConn \notin Conn
  BY DEF Conn, NoConn
<1>2. CASE ahead = {}
  BY <1>2 DEF NextTarget
<1>3. CASE ahead # {}
  <2>1. \E x \in ahead : \A y \in ahead : x <= y
    <3>1. ahead \in SUBSET Nat
      BY DEF Conn
    <3> HIDE DEF ahead
    <3>2. QED
      BY <1>3, <3>1, LeastExists
  <2>2. NextTarget(c) = CHOOSE k \in ahead : \A j \in ahead : k <= j
    BY <1>3 DEF NextTarget
  <2>3. NextTarget(c) \in ahead /\ \A y \in ahead : NextTarget(c) <= y
    <3> HIDE DEF ahead
    <3>1. QED
      BY <2>1, <2>2
  <2>4. QED
    BY <1>1, <2>3
<1>4. QED
  BY <1>2, <1>3

\* buffer.push and shift: the array never exceeds BUFFER_MAX, and ends in the
\* entry that was pushed.
LEMMA PushedResult ==
    ASSUME NEW S, NEW buf \in Seq(S), Len(buf) <= BufferMax, NEW x \in S
    PROVE  /\ Pushed(buf, x) \in Seq(S)
           /\ Len(Pushed(buf, x)) = IF Len(buf) + 1 > BufferMax THEN Len(buf) ELSE Len(buf) + 1
           /\ Len(Pushed(buf, x)) \in 1..BufferMax
           /\ Pushed(buf, x)[Len(Pushed(buf, x))] = x
           /\ \A i \in 1..(Len(Pushed(buf, x)) - 1) :
                  Pushed(buf, x)[i] = IF Len(buf) + 1 > BufferMax THEN buf[i + 1] ELSE buf[i]
<1>1. BufferMax \in Nat \ {0} /\ Len(buf) \in Nat
  BY GatewayAssumption
<1> DEFINE grown == Append(buf, x)
<1>2. /\ grown \in Seq(S) /\ Len(grown) = Len(buf) + 1 /\ grown[Len(buf) + 1] = x
      /\ \A i \in 1..Len(buf) : grown[i] = buf[i]
  OBVIOUS
<1>3. CASE Len(buf) + 1 > BufferMax
  <2>1. Pushed(buf, x) = Tail(grown)
    BY <1>2, <1>3 DEF Pushed
  <2> HIDE DEF grown
  <2>2. grown # <<>>
    BY <1>1, <1>2
  <2>3. /\ Tail(grown) \in Seq(S) /\ Len(Tail(grown)) = Len(buf)
        /\ \A i \in 1..Len(buf) : Tail(grown)[i] = grown[i + 1]
    BY <1>1, <1>2, <2>2
  <2>4. QED
    BY <1>1, <1>2, <1>3, <2>1, <2>3
<1>4. CASE ~(Len(buf) + 1 > BufferMax)
  <2>1. Pushed(buf, x) = grown
    BY <1>2, <1>4 DEF Pushed
  <2> HIDE DEF grown
  <2>2. QED
    BY <1>1, <1>2, <1>4, <2>1
<1>5. QED
  BY <1>3, <1>4

\* The latest of some positions in a sequence is one of them.
LEMMA LatestResult ==
    ASSUME NEW n \in Nat, NEW at \in SUBSET (1..n), at # {}
    PROVE  Latest(at) \in at /\ \A j \in at : j <= Latest(at)
<1> DEFINE T == {n - i : i \in at}
<1>1. T \in SUBSET Nat /\ T # {}
  <2>1. \A i \in at : n - i \in Nat
    OBVIOUS
  <2>2. PICK i \in at : TRUE
    OBVIOUS
  <2>3. n - i \in T
    OBVIOUS
  <2>4. QED
    BY <2>1, <2>3
<1>2. PICK x \in T : \A y \in T : x <= y
  <2> HIDE DEF T
  <2>1. QED
    BY <1>1, LeastExists
<1>3. PICK i \in at : x = n - i
  BY <1>2
<1>4. \A j \in at : n - i <= n - j
  BY <1>2, <1>3
<1>5. \A j \in at : j <= i
  BY <1>4
<1>6. QED
  BY <1>5 DEF Latest

\* DISPATCHes change what the device was told and shows, and its place in the
\* stream, only.
LEMMA OnDispatchResult ==
    ASSUME TypeOK, NEW d \in Device, NEW frames \in Seq(Frame), NEW at \in SUBSET (1..Len(frames)), at # {},
           OnDispatch(d, frames, at)
    PROVE  /\ dev' \in [Device -> GatewayClient]
           /\ knows' \in [Device -> SUBSET Version] /\ shows' \in [Device -> Version]
           /\ \A x \in Device : dev'[x].sock = dev[x].sock
           /\ \A x \in Device : knows[x] \subseteq knows'[x]
           /\ \A i \in at : frames[i].ev \in knows'[d]
<1>1. /\ dev \in [Device -> GatewayClient] /\ knows \in [Device -> SUBSET Version] /\ shows \in [Device -> Version]
      /\ dev[d] \in GatewayClient
  BY DEF TypeOK
<1>2. Len(frames) \in Nat /\ \A i \in at : frames[i] \in Frame
  OBVIOUS
<1>3. Latest(at) \in at
  BY <1>2, LatestResult
<1> DEFINE n == frames[Latest(at)].s
           ready == \E i \in at : frames[i].ready
           g == [dev[d] EXCEPT !.last = n, !.status = IF ready THEN "ready" ELSE @]
<1>4. n \in Nat
  BY <1>2, <1>3 DEF Frame
<1>5. g \in GatewayClient /\ g.sock = dev[d].sock
  <2> HIDE DEF n, ready
  <2>1. QED
    BY <1>1, <1>4 DEF GatewayClient
<1>6. dev' = [dev EXCEPT ![d] = g]
  BY <1>1 DEF OnDispatch
<1> HIDE DEF g
<1>7. dev' \in [Device -> GatewayClient] /\ \A x \in Device : dev'[x].sock = dev[x].sock
  BY <1>1, <1>5, <1>6
<1>8. /\ knows' \in [Device -> SUBSET Version]
      /\ \A x \in Device : knows[x] \subseteq knows'[x]
      /\ \A i \in at : frames[i].ev \in knows'[d]
  <2> DEFINE evs == {frames[i].ev : i \in at}
  <2>1. evs \subseteq Version /\ \A i \in at : frames[i].ev \in evs
    BY <1>2 DEF Frame
  <2>2. knows' = [knows EXCEPT ![d] = @ \cup evs]
    BY DEF OnDispatch
  <2> HIDE DEF evs
  <2>3. QED
    BY <1>1, <2>1, <2>2
<1>9. shows' \in [Device -> Version]
  <2> DEFINE rows == {i \in at : frames[i].row}
             v == IF rows = {} THEN shows[d] ELSE frames[Latest(rows)].ev
  <2>1. v \in Version
    <3>1. CASE rows = {}
      BY <1>1, <3>1
    <3>2. CASE rows # {}
      <4>1. Latest(rows) \in rows
        BY <1>2, <3>2, LatestResult
      <4>2. Latest(rows) \in at
        BY <4>1
      <4>3. frames[Latest(rows)].ev \in Version
        BY <1>2, <4>2 DEF Frame
      <4>4. QED
        BY <3>2, <4>3
    <3>3. QED
      BY <3>1, <3>2
  <2>2. shows' = [shows EXCEPT ![d] = v]
    BY <1>1 DEF OnDispatch
  <2> HIDE DEF v
  <2>3. QED
    BY <1>1, <2>1, <2>2
<1>10. QED
  BY <1>7, <1>8, <1>9

\* What the dispatch of a frame does to the Client record, which is h before it is
\* sent, to the array and to the browser.
Dispatched(c, h, frame) ==
    /\ conn' \in [Conn -> Client]
    /\ \A k \in Conn : k # c => conn'[k] = conn[k]
    /\ conn'[c].dev = h.dev /\ conn'[c].buf = h.buf /\ conn'[c].identified = h.identified
    /\ conn'[c].task = h.task /\ conn'[c].snap = h.snap /\ conn'[c].since = h.since
    /\ conn'[c].seq = frame.s
    /\ conn'[c].floor = FloorAfter(heap[h.buf], h.floor, frame.s)
    /\ conn'[c].phase = h.phase \/ (h.phase = "open" /\ conn'[c].phase = "closing")
    /\ heap' \in [Conn -> Seq(Frame)]
    /\ \A k \in Conn : Len(heap'[k]) <= BufferMax
    /\ \A k \in Conn : k # h.buf => heap'[k] = heap[k]
    /\ heap'[h.buf] = Pushed(heap[h.buf], frame)
    /\ dev' \in [Device -> GatewayClient]
    /\ knows' \in [Device -> SUBSET Version] /\ shows' \in [Device -> Version]
    /\ \A x \in Device : dev'[x].sock = dev[x].sock
    /\ \A x \in Device : knows[x] \subseteq knows'[x]
    /\ Reachable(c) /\ h.phase = "open" /\ conn'[c].phase = "open" => frame.ev \in knows'[conn[c].dev]

LEMMA SendDispatchResult ==
    ASSUME TypeOK, NEW c \in Conn, NEW h \in Client, NEW ready \in BOOLEAN, NEW ev \in Version,
           NEW isRow \in BOOLEAN, NEW slow \in BOOLEAN, SendDispatch(c, h, ready, ev, isRow, slow)
    PROVE  Dispatched(c, h, [s |-> h.seq + 1, ready |-> ready, ev |-> ev, row |-> isRow])
<1> DEFINE buf == heap[h.buf]
           frame == [s |-> h.seq + 1, ready |-> ready, ev |-> ev, row |-> isRow]
           floor == FloorAfter(buf, h.floor, h.seq + 1)
           phase == Evicted(h.phase, slow)
           after == [h EXCEPT !.seq = h.seq + 1, !.floor = floor, !.phase = phase]
<1>1. /\ h.buf \in Conn /\ h.seq \in Nat /\ h.floor \in Nat
      /\ h.phase \in {"unused", "open", "closing", "closed"}
  BY DEF Client
<1>2. /\ conn \in [Conn -> Client] /\ heap \in [Conn -> Seq(Frame)]
      /\ conn[c] \in Client /\ buf \in Seq(Frame) /\ Len(buf) <= BufferMax
      /\ dev \in [Device -> GatewayClient] /\ knows \in [Device -> SUBSET Version] /\ shows \in [Device -> Version]
  BY <1>1 DEF TypeOK
<1>3. frame \in Frame
  BY <1>1 DEF Frame
<1>4. Pushed(buf, frame) \in Seq(Frame) /\ Len(Pushed(buf, frame)) <= BufferMax
  <2>1. Len(Pushed(buf, frame)) \in 1..BufferMax /\ Pushed(buf, frame) \in Seq(Frame)
    <3> HIDE DEF frame, buf
    <3>1. QED
      BY <1>2, <1>3, PushedResult
  <2> HIDE DEF frame, buf
  <2>2. QED
    BY <2>1, GatewayAssumption
<1>5. floor \in Nat
  <2> HIDE DEF buf
  <2>1. CASE Len(buf) + 1 > BufferMax
    <3>1. buf # <<>> /\ Head(buf) \in Frame
      BY <1>2, <2>1, GatewayAssumption
    <3>2. QED
      BY <2>1, <3>1 DEF FloorAfter, Frame
  <2>2. CASE ~(Len(buf) + 1 > BufferMax)
    BY <1>1, <2>2 DEF FloorAfter
  <2>3. QED
    BY <2>1, <2>2
<1>6. /\ phase \in {"unused", "open", "closing", "closed"}
      /\ phase = h.phase \/ (h.phase = "open" /\ phase = "closing")
      /\ h.phase = "open" /\ phase = "open" => ~slow
  BY <1>1 DEF Evicted
<1> HIDE DEF floor, phase
<1>7. /\ after \in Client
      /\ after.dev = h.dev /\ after.buf = h.buf /\ after.identified = h.identified
      /\ after.task = h.task /\ after.snap = h.snap /\ after.since = h.since /\ after.seq = h.seq + 1
      /\ after.floor = floor /\ after.phase = phase
  <2> DEFINE n == h.seq + 1
  <2>1. n \in Nat
    BY <1>1
  <2> HIDE DEF n
  <2>2. [h EXCEPT !.seq = n, !.floor = floor, !.phase = phase] \in Client
    BY <1>5, <1>6, <2>1 DEF Client
  <2>3. QED
    BY <2>2 DEF Client, n
<1>8. conn' = [conn EXCEPT ![c] = after] /\ heap' = [heap EXCEPT ![h.buf] = Pushed(buf, frame)]
  BY DEF SendDispatch, floor, phase
<1>9. conn' \in [Conn -> Client] /\ conn'[c] = after /\ \A k \in Conn : k # c => conn'[k] = conn[k]
  <2> HIDE DEF after
  <2>1. QED
    BY <1>2, <1>7, <1>8
<1>10. /\ heap' \in [Conn -> Seq(Frame)] /\ heap'[h.buf] = Pushed(buf, frame)
       /\ \A k \in Conn : k # h.buf => heap'[k] = heap[k]
       /\ \A k \in Conn : Len(heap'[k]) <= BufferMax
  <2>1. \A k \in Conn : Len(heap[k]) <= BufferMax
    BY DEF TypeOK
  <2> HIDE DEF buf, frame
  <2>2. QED
    BY <1>1, <1>2, <1>4, <1>8, <2>1
<1>11. /\ dev' \in [Device -> GatewayClient] /\ knows' \in [Device -> SUBSET Version] /\ shows' \in [Device -> Version]
       /\ \A x \in Device : dev'[x].sock = dev[x].sock
       /\ \A x \in Device : knows[x] \subseteq knows'[x]
       /\ Reachable(c) /\ ~slow => ev \in knows'[conn[c].dev]
  <2>1. SendRaw(c, frame, slow)
    BY DEF SendDispatch
  <2>2. CASE Reachable(c) /\ ~slow
    <3>1. OnDispatch(conn[c].dev, <<frame>>, {1})
      BY <2>1, <2>2 DEF SendRaw
    <3>2. conn[c].dev \in Device
      BY <1>2 DEF Client
    <3>3. /\ <<frame>> \in Seq(Frame) /\ {1} \in SUBSET (1..Len(<<frame>>)) /\ {1} # {}
          /\ <<frame>>[1].ev = ev
      <4> frame.ev = ev
        OBVIOUS
      <4> HIDE DEF frame
      <4> QED
        BY <1>3
    <3> DEFINE frames == <<frame>>
    <3>4. frames[1].ev = ev
      BY <3>3
    <3> HIDE DEF frames
    <3>5. /\ dev' \in [Device -> GatewayClient]
          /\ knows' \in [Device -> SUBSET Version] /\ shows' \in [Device -> Version]
          /\ \A x \in Device : dev'[x].sock = dev[x].sock
          /\ \A x \in Device : knows[x] \subseteq knows'[x]
          /\ \A i \in {1} : frames[i].ev \in knows'[conn[c].dev]
      <4>1. /\ OnDispatch(conn[c].dev, frames, {1}) /\ frames \in Seq(Frame)
            /\ {1} \in SUBSET (1..Len(frames)) /\ {1} # {}
        BY <3>1, <3>3 DEF frames
      <4>2. QED
        BY <3>2, <4>1, OnDispatchResult
    <3>6. QED
      BY <2>2, <3>4, <3>5
  <2>3. CASE ~(Reachable(c) /\ ~slow)
    <3>1. dev' = dev /\ knows' = knows /\ shows' = shows
      BY <2>1, <2>3 DEF SendRaw
    <3>2. QED
      BY <1>2, <2>3, <3>1
  <2>4. QED
    BY <2>2, <2>3
<1>12. QED
  BY <1>6, <1>7, <1>9, <1>10, <1>11 DEF floor, Dispatched

\* One socket's Client record is replaced.
LEMMA ConnStep ==
    ASSUME TypeOK, NEW c \in Conn, NEW h \in Client, conn' = [conn EXCEPT ![c] = h]
    PROVE  conn' \in [Conn -> Client] /\ conn'[c] = h /\ \A k \in Conn : k # c => conn'[k] = conn[k]
<1>1. conn \in [Conn -> Client]
  BY DEF TypeOK
<1>2. QED
  BY <1>1

\* A step of the handshake or of the close timers: it concerns one opened socket,
\* writes no array, forgets orphans at most, and leaves a client that must be
\* brought up to date with something under way.
QuietStep(c) ==
    /\ heap' = heap /\ fan' = fan /\ published' = published /\ serverRow' = serverRow /\ knows' = knows /\ shows' = shows
    /\ \A k \in Conn \ {c} : conn'[k] = conn[k] /\ up'[k] = up[k]
    /\ conn[c].phase # "unused"
    /\ \/ conn'[c].phase = conn[c].phase
       \/ conn[c].phase = "open" /\ conn'[c].phase = "closing"
    /\ conn'[c].dev = conn[c].dev /\ conn'[c].buf = conn[c].buf
    /\ conn'[c].seq = conn[c].seq /\ conn'[c].floor = conn[c].floor
    /\ conn'[c].snap \in 0..published
    /\ conn[c].identified => conn'[c].identified
    /\ conn'[c].identified => conn'[c].since = IF conn[c].identified THEN conn[c].since ELSE published
    /\ \A x \in Device : dev'[x].sock = dev[x].sock
    /\ \A o \in Conn : orphans'[o] = orphans[o] \/ orphans'[o] = NoOrphan
    /\ \A u \in User : userConns[u] \subseteq userConns'[u]
    /\ conn'[c].identified => conn[c].identified \/ c \in userConns'[UserOn(c)]
    /\ \/ ~Reachable(c)
       \/ conn'[c].phase # "open"
       \/ conn'[c].task = "idle" /\ up'[c].op # "none"
       \/ conn'[c].task = "query"
       \/ conn'[c].task = "ready" /\ conn'[c].snap = serverRow

\* The parts of the inductive invariant.
IInv ==
    /\ TypeOK
    /\ UnusedIsBlank
    /\ SocketsBelong
    /\ NothingFromTheFuture
    /\ OwnArray
    /\ BufferHasOneOwner
    /\ RingExact
    /\ OpenSocketIsTracked
    /\ NothingIsMissed

-----------------------------------------------------------------------------
(* What the actions do.                                                      *)

\* INVALID_SESSION leaves the socket with the browser that holds it.
LEMMA InvalidatedResult ==
    ASSUME TypeOK, NEW c \in Conn, Invalidated(c)
    PROVE  /\ dev' \in [Device -> GatewayClient] /\ \A x \in Device : dev'[x].sock = dev[x].sock
           /\ up' \in [Conn -> Request] /\ \A k \in Conn \ {c} : up'[k] = up[k]
           /\ Reachable(c) => up'[c].op # "none"
<1>1. /\ dev \in [Device -> GatewayClient] /\ up \in [Conn -> Request]
      /\ conn[c].dev \in Device
  BY DEF TypeOK, Client
<1>2. Identify \in Request /\ Identify.op # "none" /\ NoRequest \in Request
  BY DEF Identify, NoRequest, Request, NoConn
<1>3. up' \in [Conn -> Request] /\ (\A k \in Conn \ {c} : up'[k] = up[k]) /\ (Reachable(c) => up'[c].op # "none")
  BY <1>1, <1>2 DEF Invalidated
<1>4. dev' \in [Device -> GatewayClient] /\ \A x \in Device : dev'[x].sock = dev[x].sock
  <2> DEFINE d == conn[c].dev
             g == [dev[d] EXCEPT !.last = 0, !.resume = c]
  <2>1. dev[d] \in GatewayClient
    BY <1>1
  <2>2. g \in GatewayClient /\ g.sock = dev[d].sock
    BY <2>1 DEF GatewayClient
  <2>3. dev' = [dev EXCEPT ![d] = g] \/ dev' = dev
    BY <1>1 DEF Invalidated
  <2> HIDE DEF d, g
  <2>4. QED
    BY <1>1, <2>2, <2>3 DEF d
<1>5. QED
  BY <1>3, <1>4

\* The Client record of a registered socket.
LEMMA RegisteredResult ==
    ASSUME TypeOK, NEW c \in Conn, NEW task \in {"idle", "query", "ready"}
    PROVE  /\ Registered(c, task) \in Client
           /\ Registered(c, task).identified /\ Registered(c, task).task = task
           /\ Registered(c, task).phase = conn[c].phase /\ Registered(c, task).dev = conn[c].dev
           /\ Registered(c, task).buf = conn[c].buf /\ Registered(c, task).snap = conn[c].snap
           /\ Registered(c, task).seq = conn[c].seq /\ Registered(c, task).floor = conn[c].floor
           /\ Registered(c, task).since = IF conn[c].identified THEN conn[c].since ELSE published
<1>1. conn[c] \in Client /\ published \in 0..MaxEvents
  BY DEF TypeOK
<1> DEFINE n == IF conn[c].identified THEN conn[c].since ELSE published
<1>2. n \in 0..MaxEvents
  BY <1>1 DEF Client
<1>3. Registered(c, task) = [conn[c] EXCEPT !.identified = TRUE, !.task = task, !.since = n]
  BY <1>1 DEF Registered, Client
<1> HIDE DEF n
<1>4. [conn[c] EXCEPT !.identified = TRUE, !.task = task, !.since = n] \in Client
  BY <1>1, <1>2 DEF Client
<1>5. QED
  BY <1>1, <1>3, <1>4 DEF Client, n

\* Registering a connection adds it to its user's set.
LEMMA HandleResult ==
    ASSUME TypeOK, UnusedIsBlank, NEW c \in Conn, NEW op \in {"IDENTIFY", "RESUME"}, Handle(c, op)
    PROVE  /\ userConns' \in [User -> SUBSET Conn]
           /\ \A u \in User : userConns[u] \subseteq userConns'[u]
           /\ c \in userConns'[UserOn(c)]
           /\ conn[c].phase # "unused"
           /\ fan' = fan /\ published' = published /\ serverRow' = serverRow
<1>1. userConns \in [User -> SUBSET Conn] /\ UserOn(c) \in User
  BY GatewayAssumption DEF TypeOK, UserOn, Client
<1>2. QED
  BY <1>1 DEF Handle, RegisterUserConnection, UnusedIsBlank

\* The types after a step that replaces one Client record and writes no array.
LEMMA QuietTypes ==
    ASSUME TypeOK, NEW c \in Conn, NEW h \in Client, conn' = [conn EXCEPT ![c] = h],
           heap' = heap, fan' = fan, published' = published, serverRow' = serverRow,
           knows' = knows /\ shows' = shows,
           up' \in [Conn -> Request], dev' \in [Device -> GatewayClient],
           orphans' \in [Conn -> Orphan \cup {NoOrphan}], userConns' \in [User -> SUBSET Conn]
    PROVE  TypeOK'
<1>1. conn' \in [Conn -> Client]
  BY ConnStep
<1>2. QED
  BY <1>1 DEF TypeOK

LEMMA AuthFailsIsQuiet ==
    ASSUME TypeOK, UnusedIsBlank, NothingFromTheFuture, NEW c \in Conn, AuthFails(c)
    PROVE  TypeOK' /\ QuietStep(c)
<1> DEFINE h == [conn[c] EXCEPT !.phase = IF @ = "open" THEN "closing" ELSE @]
<1>1. conn[c] \in Client /\ conn \in [Conn -> Client]
  BY DEF TypeOK
<1>2. /\ h \in Client /\ h.dev = conn[c].dev /\ h.buf = conn[c].buf /\ h.seq = conn[c].seq
      /\ h.floor = conn[c].floor /\ h.snap = conn[c].snap /\ h.since = conn[c].since /\ h.identified = conn[c].identified
      /\ h.phase = IF conn[c].phase = "open" THEN "closing" ELSE conn[c].phase
  BY <1>1 DEF Client
<1>3. conn' = [conn EXCEPT ![c] = h]
  BY <1>1 DEF AuthFails
<1> HIDE DEF h
<1>4. conn'[c] = h /\ \A k \in Conn : k # c => conn'[k] = conn[k]
  BY <1>2, <1>3, ConnStep
<1>5. /\ dev' \in [Device -> GatewayClient] /\ \A x \in Device : dev'[x].sock = dev[x].sock
      /\ up' \in [Conn -> Request] /\ \A k \in Conn \ {c} : up'[k] = up[k]
  BY InvalidatedResult DEF AuthFails
<1>6. TypeOK'
  <2>1. /\ heap' = heap /\ fan' = fan /\ published' = published /\ serverRow' = serverRow /\ knows' = knows /\ shows' = shows
        /\ orphans' = orphans /\ userConns' = userConns
    BY DEF AuthFails
  <2>2. orphans' \in [Conn -> Orphan \cup {NoOrphan}] /\ userConns' \in [User -> SUBSET Conn]
    BY <2>1 DEF TypeOK
  <2>3. QED
    BY <1>2, <1>3, <1>5, <2>1, <2>2, QuietTypes
<1>7. conn[c].phase # "unused" /\ conn[c].snap \in 0..published
  BY DEF AuthFails, UnusedIsBlank, NothingFromTheFuture
<1>8. h.phase # "open"
  BY <1>2
<1>9. QED
  BY <1>2, <1>4, <1>5, <1>6, <1>7, <1>8 DEF QuietStep, AuthFails

LEMMA HandleIdentifyIsQuiet ==
    ASSUME TypeOK, UnusedIsBlank, NothingFromTheFuture, NEW c \in Conn, HandleIdentify(c)
    PROVE  TypeOK' /\ QuietStep(c)
<1> DEFINE h == Registered(c, "query")
<1>1. /\ h \in Client /\ h.identified /\ h.task = "query" /\ h.phase = conn[c].phase
      /\ h.dev = conn[c].dev /\ h.buf = conn[c].buf /\ h.snap = conn[c].snap
      /\ h.seq = conn[c].seq /\ h.floor = conn[c].floor
      /\ h.since = IF conn[c].identified THEN conn[c].since ELSE published
  BY RegisteredResult
<1>2. conn' = [conn EXCEPT ![c] = h]
  BY DEF HandleIdentify
<1> HIDE DEF h
<1>3. conn'[c] = h /\ \A k \in Conn : k # c => conn'[k] = conn[k]
  BY <1>1, <1>2, ConnStep
<1>4. /\ userConns' \in [User -> SUBSET Conn] /\ \A u \in User : userConns[u] \subseteq userConns'[u]
      /\ c \in userConns'[UserOn(c)] /\ conn[c].phase # "unused"
      /\ fan' = fan /\ published' = published /\ serverRow' = serverRow
  BY HandleResult DEF HandleIdentify
<1>5. up' \in [Conn -> Request] /\ \A k \in Conn \ {c} : up'[k] = up[k]
  BY DEF HandleIdentify, TypeOK, NoRequest, Request
<1>6. TypeOK'
  BY <1>1, <1>2, <1>4, <1>5, QuietTypes DEF HandleIdentify, TypeOK
<1>7. conn[c].snap \in 0..published
  BY DEF NothingFromTheFuture
<1>8. QED
  BY <1>1, <1>3, <1>4, <1>5, <1>6, <1>7 DEF QuietStep, HandleIdentify

LEMMA ResumeFreshIsQuiet ==
    ASSUME TypeOK, UnusedIsBlank, NothingFromTheFuture, NEW c \in Conn, ResumeFresh(c)
    PROVE  TypeOK' /\ QuietStep(c)
<1> DEFINE h == Registered(c, "query")
<1>1. /\ h \in Client /\ h.identified /\ h.task = "query" /\ h.phase = conn[c].phase
      /\ h.dev = conn[c].dev /\ h.buf = conn[c].buf /\ h.snap = conn[c].snap
      /\ h.seq = conn[c].seq /\ h.floor = conn[c].floor
      /\ h.since = IF conn[c].identified THEN conn[c].since ELSE published
  BY RegisteredResult
<1>2. conn' = [conn EXCEPT ![c] = h]
  BY DEF ResumeFresh
<1> HIDE DEF h
<1>3. conn'[c] = h /\ \A k \in Conn : k # c => conn'[k] = conn[k]
  BY <1>1, <1>2, ConnStep
<1>4. /\ userConns' \in [User -> SUBSET Conn] /\ \A u \in User : userConns[u] \subseteq userConns'[u]
      /\ c \in userConns'[UserOn(c)] /\ conn[c].phase # "unused"
      /\ fan' = fan /\ published' = published /\ serverRow' = serverRow
  BY HandleResult DEF ResumeFresh
<1>5. up' \in [Conn -> Request] /\ \A k \in Conn \ {c} : up'[k] = up[k]
  BY DEF ResumeFresh, TypeOK, NoRequest, Request
<1>6. TypeOK'
  BY <1>1, <1>2, <1>4, <1>5, QuietTypes DEF ResumeFresh, TypeOK
<1>7. conn[c].snap \in 0..published
  BY DEF NothingFromTheFuture
<1>8. QED
  BY <1>1, <1>3, <1>4, <1>5, <1>6, <1>7 DEF QuietStep, ResumeFresh

LEMMA ResumeGapIsQuiet ==
    ASSUME TypeOK, UnusedIsBlank, NothingFromTheFuture, NEW c \in Conn, ResumeGap(c)
    PROVE  TypeOK' /\ QuietStep(c)
<1> DEFINE h == Registered(c, "idle")
<1>1. /\ h \in Client /\ h.identified /\ h.task = "idle" /\ h.phase = conn[c].phase
      /\ h.dev = conn[c].dev /\ h.buf = conn[c].buf /\ h.snap = conn[c].snap
      /\ h.seq = conn[c].seq /\ h.floor = conn[c].floor
      /\ h.since = IF conn[c].identified THEN conn[c].since ELSE published
  BY RegisteredResult
<1>2. conn' = [conn EXCEPT ![c] = h]
  BY DEF ResumeGap
<1> HIDE DEF h
<1>3. conn'[c] = h /\ \A k \in Conn : k # c => conn'[k] = conn[k]
  BY <1>1, <1>2, ConnStep
<1>4. /\ userConns' \in [User -> SUBSET Conn] /\ \A u \in User : userConns[u] \subseteq userConns'[u]
      /\ c \in userConns'[UserOn(c)] /\ conn[c].phase # "unused"
      /\ fan' = fan /\ published' = published /\ serverRow' = serverRow
  BY HandleResult DEF ResumeGap
<1>5. /\ dev' \in [Device -> GatewayClient] /\ \A x \in Device : dev'[x].sock = dev[x].sock
      /\ up' \in [Conn -> Request] /\ \A k \in Conn \ {c} : up'[k] = up[k]
      /\ Reachable(c) => up'[c].op # "none"
  BY InvalidatedResult DEF ResumeGap
<1>6. /\ orphans' \in [Conn -> Orphan \cup {NoOrphan}]
      /\ \A o \in Conn : orphans'[o] = orphans[o] \/ orphans'[o] = NoOrphan
  <2>1. orphans \in [Conn -> Orphan \cup {NoOrphan}] /\ orphans' = [orphans EXCEPT ![up[c].sid] = NoOrphan]
    BY DEF TypeOK, ResumeGap
  <2>2. QED
    BY <2>1
<1>7. TypeOK'
  BY <1>1, <1>2, <1>4, <1>5, <1>6, QuietTypes DEF ResumeGap, TypeOK
<1>8. conn[c].snap \in 0..published
  BY DEF NothingFromTheFuture
<1>9. QED
  BY <1>1, <1>3, <1>4, <1>5, <1>6, <1>7, <1>8 DEF QuietStep, ResumeGap

LEMMA ReadyQueryIsQuiet ==
    ASSUME TypeOK, UnusedIsBlank, NothingFromTheFuture, NEW c \in Conn, ReadyQuery(c)
    PROVE  TypeOK' /\ QuietStep(c)
<1> DEFINE h == [conn[c] EXCEPT !.task = "ready", !.snap = serverRow]
<1>1. conn[c] \in Client /\ conn \in [Conn -> Client] /\ serverRow \in 0..MaxEvents /\ serverRow \in 0..published
  BY DEF TypeOK, Version, NothingFromTheFuture
<1>2. /\ h \in Client /\ h.dev = conn[c].dev /\ h.buf = conn[c].buf /\ h.seq = conn[c].seq
      /\ h.floor = conn[c].floor /\ h.snap = serverRow /\ h.since = conn[c].since /\ h.identified = conn[c].identified
      /\ h.phase = conn[c].phase /\ h.task = "ready"
  BY <1>1 DEF Client, Version
<1>3. conn' = [conn EXCEPT ![c] = h]
  BY <1>1 DEF ReadyQuery
<1> HIDE DEF h
<1>4. conn'[c] = h /\ \A k \in Conn : k # c => conn'[k] = conn[k]
  BY <1>2, <1>3, ConnStep
<1>5. TypeOK'
  <2>1. /\ heap' = heap /\ fan' = fan /\ published' = published /\ serverRow' = serverRow /\ knows' = knows /\ shows' = shows /\ up' = up
        /\ dev' = dev /\ orphans' = orphans /\ userConns' = userConns
    BY DEF ReadyQuery
  <2>2. /\ orphans' \in [Conn -> Orphan \cup {NoOrphan}] /\ userConns' \in [User -> SUBSET Conn]
        /\ up' \in [Conn -> Request] /\ dev' \in [Device -> GatewayClient]
    BY <2>1 DEF TypeOK
  <2>3. QED
    BY <1>2, <1>3, <2>1, <2>2, QuietTypes
<1>6. conn[c].phase # "unused" /\ serverRow \in 0..published
  BY <1>1 DEF ReadyQuery, UnusedIsBlank
<1>7. QED
  BY <1>2, <1>4, <1>5, <1>6 DEF QuietStep, ReadyQuery

LEMMA SweepSocketIsQuiet ==
    ASSUME TypeOK, NothingFromTheFuture, NEW c \in Conn, SweepSocket(c)
    PROVE  TypeOK' /\ QuietStep(c)
<1> DEFINE h == [conn[c] EXCEPT !.phase = "closing"]
<1>1. conn[c] \in Client /\ conn \in [Conn -> Client]
  BY DEF TypeOK
<1>2. /\ h \in Client /\ h.dev = conn[c].dev /\ h.buf = conn[c].buf /\ h.seq = conn[c].seq
      /\ h.floor = conn[c].floor /\ h.snap = conn[c].snap /\ h.since = conn[c].since /\ h.identified = conn[c].identified
      /\ h.phase = "closing"
  BY <1>1 DEF Client
<1>3. conn' = [conn EXCEPT ![c] = h]
  BY <1>1 DEF SweepSocket
<1> HIDE DEF h
<1>4. conn'[c] = h /\ \A k \in Conn : k # c => conn'[k] = conn[k]
  BY <1>2, <1>3, ConnStep
<1>5. TypeOK'
  BY <1>2, <1>3, QuietTypes DEF SweepSocket, TypeOK
<1>6. conn[c].snap \in 0..published
  BY DEF NothingFromTheFuture
<1>7. QED
  BY <1>2, <1>4, <1>5, <1>6 DEF QuietStep, SweepSocket

-----------------------------------------------------------------------------
(* Each kind of step keeps the inductive invariant.                          *)

\* A step that touches no array and no field of a stream: sockets may open or
\* close and orphans may go.
StreamsKept ==
    /\ heap' = heap
    /\ \A k \in Conn : /\ conn'[k].buf = conn[k].buf
                       /\ conn'[k].seq = conn[k].seq /\ conn'[k].floor = conn[k].floor
                       /\ conn'[k].phase # "closed" => conn[k].phase # "closed"
    /\ \A o \in Conn : orphans'[o] = orphans[o] \/ orphans'[o] = NoOrphan

\* A socket that a step leaves alone, and its browser, miss nothing by it.
MissesNothing(k) ==
    Reachable(k) /\ conn[k].identified =>
        /\ \A e \in (conn[k].since + 1)..published : Told(k, e)
        /\ OwnStream(k) => RowTold(k)

LEMMA BystanderMissesNothing ==
    ASSUME IInv, NEW k \in Conn, conn'[k] = conn[k], up'[k] = up[k], fan' = fan, published' = published,
           serverRow' = serverRow, \A d \in Device : knows[d] \subseteq knows'[d],
           Reachable(k)' => Reachable(k)
    PROVE  MissesNothing(k)'
<1> SUFFICES ASSUME Reachable(k)', conn'[k].identified PROVE MissesNothing(k)'
  BY DEF MissesNothing
<1>1. conn[k].dev \in Device
  BY DEF IInv, TypeOK, Client
<1>2. \A e : Told(k, e) => Told(k, e)'
  BY <1>1 DEF Told, Coming
<1>3. \A e \in (conn[k].since + 1)..published : Told(k, e)
  BY DEF IInv, NothingIsMissed
<1>4. OwnStream(k) => RowTold(k)
  BY DEF IInv, NothingIsMissed
<1>5. RowTold(k) => RowTold(k)'
  BY <1>2 DEF RowTold
<1>6. OwnStream(k)' => OwnStream(k)
  BY DEF OwnStream
<1>7. QED
  BY <1>2, <1>3, <1>4, <1>5, <1>6 DEF MissesNothing

LEMMA StreamsKeptKeeps ==
    ASSUME TypeOK, UnusedIsBlank, OwnArray, BufferHasOneOwner, RingExact, StreamsKept, TypeOK'
    PROVE  OwnArray' /\ BufferHasOneOwner' /\ RingExact'
<1>1. \A k \in Conn : Open(k)' => Open(k) \/ conn[k].phase = "unused"
  BY DEF TypeOK, Client, Open, StreamsKept
<1>2. \A o \in Conn : orphans'[o].live => orphans'[o] = orphans[o]
  BY DEF StreamsKept, NoOrphan
<1>3. OwnArray'
  BY <1>2 DEF OwnArray, StreamsKept
<1>4. BufferHasOneOwner'
  <2>1. \A k \in Conn : Open(k)' => Open(k) \/ (conn[k].buf = k /\ conn[k].phase # "closed")
    BY <1>1 DEF UnusedIsBlank
  <2>2. \A c1, c2 \in Conn : Open(c1)' /\ Open(c2)' /\ conn'[c1].buf = conn'[c2].buf => c1 = c2
    BY <2>1 DEF BufferHasOneOwner, OwnArray, StreamsKept
  <2>3. \A c, o \in Conn : Open(c)' /\ orphans'[o].live => conn'[c].buf # orphans'[o].buf
    BY <1>2, <2>1 DEF BufferHasOneOwner, OwnArray, StreamsKept
  <2>4. \A o1, o2 \in Conn : orphans'[o1].live /\ orphans'[o2].live /\ orphans'[o1].buf = orphans'[o2].buf => o1 = o2
    BY <1>2 DEF BufferHasOneOwner
  <2>5. QED
    BY <2>2, <2>3, <2>4 DEF BufferHasOneOwner
<1>5. RingExact'
  <2> SUFFICES ASSUME NEW c \in Conn, Open(c)', conn'[c].buf = c, heap'[c] # <<>>
               PROVE  /\ \A i \in 1..Len(heap'[c]) : heap'[c][i].s = conn'[c].floor + i - 1
                      /\ heap'[c][Len(heap'[c])].s = conn'[c].seq
    BY DEF RingExact, OwnStream
  <2>1. Open(c) /\ heap[c] # <<>>
    BY <1>1 DEF UnusedIsBlank, StreamsKept
  <2>2. OwnStream(c)
    BY DEF StreamsKept, OwnStream, Conn, NoConn
  <2>3. QED
    BY <2>1, <2>2 DEF RingExact, StreamsKept
<1>6. QED
  BY <1>3, <1>4, <1>5

LEMMA QuietKeeps ==
    ASSUME IInv, NEW c \in Conn, QuietStep(c), TypeOK'
    PROVE  IInv'
<1> USE DEF IInv
<1>1. \A k \in Conn : /\ conn'[k].dev = conn[k].dev /\ conn'[k].buf = conn[k].buf
                      /\ conn'[k].seq = conn[k].seq /\ conn'[k].floor = conn[k].floor
                      /\ conn'[k].phase = "unused" => k # c /\ conn[k].phase = "unused"
                      /\ conn'[k].phase # "closed" => conn[k].phase # "closed"
                      /\ conn[k].phase # "unused" => conn'[k].phase # "unused"
                      /\ conn[k].identified => conn'[k].identified
                      /\ Open(k)' => Open(k)
                      /\ conn'[k].phase = "open" => conn[k].phase = "open"
  BY DEF QuietStep, Open
<1>2. UnusedIsBlank'
  BY <1>1 DEF UnusedIsBlank, QuietStep
<1>3. SocketsBelong'
  <2>1. \A d \in Device : dev[d].sock \in Conn \cup {NoConn}
    BY DEF TypeOK, GatewayClient
  <2>2. \A f \in fan : f.at \in Conn
    BY DEF TypeOK, FanOut
  <2>3. QED
    BY <1>1, <2>1, <2>2 DEF SocketsBelong, QuietStep
<1>4. NothingFromTheFuture'
  BY DEF NothingFromTheFuture, QuietStep
<1>5. OwnArray' /\ BufferHasOneOwner' /\ RingExact'
  <2>1. StreamsKept
    BY <1>1 DEF StreamsKept, QuietStep
  <2>2. QED
    BY <2>1, StreamsKeptKeeps
<1>6. OpenSocketIsTracked'
  <2>1. \A k \in Conn : UserOn(k) \in User /\ UserOn(k)' = UserOn(k)
    BY <1>1, GatewayAssumption DEF UserOn, TypeOK, Client
  <2>2. \A k \in Conn : Open(k)' /\ conn'[k].identified => k \in userConns'[UserOn(k)]
    BY <1>1, <2>1 DEF OpenSocketIsTracked, QuietStep
  <2>3. QED
    BY <2>1, <2>2 DEF OpenSocketIsTracked
<1>7. NothingIsMissed'
  <2> SUFFICES ASSUME NEW k \in Conn PROVE MissesNothing(k)'
    BY DEF NothingIsMissed, MissesNothing
  <2>1. Reachable(k)' => Reachable(k)
    <3>1. conn[k].dev \in Device
      BY DEF TypeOK, Client
    <3>2. QED
      BY <1>1, <3>1 DEF Reachable, Attached, QuietStep
  <2>2. CASE k = c
    <3> SUFFICES ASSUME Reachable(c)', conn'[c].identified PROVE MissesNothing(c)'
      BY <2>2 DEF MissesNothing
    <3>1. conn'[c].phase = "open" /\ Reachable(c) /\ published' = published /\ serverRow' = serverRow
      BY <2>1, <2>2 DEF Reachable, QuietStep
    <3>2. RowTold(c)'
      BY <3>1 DEF QuietStep, RowTold
    <3>3. ASSUME NEW e \in (conn'[c].since + 1)..published PROVE Told(c, e)'
      <4>1. conn[c].identified /\ conn'[c].since = conn[c].since
        <5>1. published \in Nat
          BY GatewayAssumption DEF TypeOK
        <5>2. CASE ~conn[c].identified
          BY <3>3, <5>1, <5>2 DEF QuietStep
        <5>3. QED
          BY <5>2 DEF QuietStep
      <4>2. Told(c, e)
        BY <3>1, <3>3, <4>1 DEF NothingIsMissed
      <4>3. QED
        BY <1>1, <4>2 DEF Told, Coming, QuietStep
    <3>4. QED
      BY <3>1, <3>2, <3>3 DEF MissesNothing
  <2>3. CASE k # c
    BY <2>1, <2>3, BystanderMissesNothing DEF QuietStep
  <2>4. QED
    BY <2>2, <2>3
<1>8. QED
  BY <1>2, <1>3, <1>4, <1>5, <1>6, <1>7

\* connect() opens the next unused socket.
LEMMA ConnectKeeps ==
    ASSUME IInv, NEW d \in Device, NEW c \in Conn, Connect(d, c)
    PROVE  IInv'
<1> USE DEF IInv
<1> DEFINE h == [conn[c] EXCEPT !.phase = "open", !.dev = d]
           g == [dev[d] EXCEPT !.sock = c, !.resume = c,
                               !.status = IF HelloReply(d).op = "RESUME" THEN "ready" ELSE "connecting"]
<1>1. /\ conn \in [Conn -> Client] /\ conn[c] \in Client /\ dev \in [Device -> GatewayClient]
      /\ dev[d] \in GatewayClient /\ up \in [Conn -> Request] /\ NoConn \notin Conn
  BY DEF TypeOK, Conn, NoConn
<1>2. /\ h \in Client /\ h.dev = d /\ h.buf = conn[c].buf /\ h.seq = conn[c].seq
      /\ h.floor = conn[c].floor /\ h.snap = conn[c].snap /\ h.since = conn[c].since /\ h.identified = conn[c].identified
      /\ h.phase = "open"
  BY <1>1 DEF Client
<1>3. g \in GatewayClient /\ g.sock = c
  BY <1>1 DEF GatewayClient
<1>4. conn' = [conn EXCEPT ![c] = h] /\ dev' = [dev EXCEPT ![d] = g]
  BY <1>1 DEF Connect
<1> HIDE DEF h, g
<1>5. conn' \in [Conn -> Client] /\ conn'[c] = h /\ \A k \in Conn : k # c => conn'[k] = conn[k]
  BY <1>2, <1>4, ConnStep
<1>6. /\ dev' \in [Device -> GatewayClient] /\ dev'[d].sock = c
      /\ \A x \in Device : x # d => dev'[x].sock = dev[x].sock
  BY <1>1, <1>3, <1>4
<1>7. up' \in [Conn -> Request] /\ \A k \in Conn : k # c => up'[k] = up[k]
  <2>1. HelloReply(d) \in Request
    BY <1>1 DEF HelloReply, Identify, Request, GatewayClient, NoConn
  <2>2. QED
    BY <1>1, <2>1 DEF Connect
<1>8. /\ heap' = heap /\ orphans' = orphans /\ userConns' = userConns /\ fan' = fan
      /\ published' = published /\ serverRow' = serverRow /\ knows' = knows /\ shows' = shows
      /\ dev[d].sock = NoConn /\ conn[c].phase = "unused"
  BY DEF Connect
<1>9. TypeOK'
  BY <1>5, <1>6, <1>7, <1>8 DEF TypeOK
<1>10. UnusedIsBlank'
  BY <1>2, <1>5, <1>7, <1>8 DEF UnusedIsBlank
<1>11. SocketsBelong'
  <2>1. \A x \in Device : x # d => dev[x].sock # c
    BY <1>1, <1>8 DEF SocketsBelong
  <2>2. \A x \in Device : dev[x].sock \in Conn \cup {NoConn}
    BY <1>1 DEF GatewayClient
  <2>3. \A x \in Device : dev'[x].sock # NoConn =>
             conn'[dev'[x].sock].dev = x /\ conn'[dev'[x].sock].phase # "unused"
    BY <1>2, <1>5, <1>6, <2>1, <2>2 DEF SocketsBelong
  <2>4. \A f \in fan : f.at \in Conn
    BY DEF TypeOK, FanOut
  <2>5. QED
    BY <1>2, <1>5, <1>8, <2>3, <2>4 DEF SocketsBelong
<1>12. NothingFromTheFuture'
  BY <1>2, <1>5, <1>8 DEF NothingFromTheFuture
<1>13. OwnArray' /\ BufferHasOneOwner' /\ RingExact'
  <2>1. StreamsKept
    BY <1>2, <1>5, <1>8 DEF StreamsKept
  <2>2. QED
    BY <1>9, <2>1, StreamsKeptKeeps
<1>14. OpenSocketIsTracked'
  <2>1. ~conn'[c].identified
    BY <1>2, <1>5, <1>8 DEF UnusedIsBlank
  <2>2. QED
    BY <1>5, <1>8, <2>1 DEF OpenSocketIsTracked, Open, UserOn
<1>15. NothingIsMissed'
  <2> SUFFICES ASSUME NEW k \in Conn PROVE MissesNothing(k)'
    BY DEF NothingIsMissed, MissesNothing
  <2>1. CASE k = c
    BY <1>2, <1>5, <1>8, <2>1 DEF UnusedIsBlank, MissesNothing
  <2>2. CASE k # c
    <3>1. conn'[k] = conn[k] /\ up'[k] = up[k] /\ conn[k].dev \in Device
      BY <1>1, <1>5, <1>7, <2>2 DEF Client
    <3>2. Reachable(k)' => Reachable(k)
      BY <1>6, <2>2, <3>1 DEF Reachable, Attached
    <3>3. QED
      BY <1>8, <3>1, <3>2, BystanderMissesNothing
  <2>3. QED
    BY <2>1, <2>2
<1>16. QED
  BY <1>9, <1>10, <1>11, <1>12, <1>13, <1>14, <1>15

\* The browser lets go of its socket.
LEMMA ClientCloseKeeps ==
    ASSUME IInv, NEW d \in Device, ClientClose(d)
    PROVE  IInv'
<1> USE DEF IInv
<1> DEFINE g == [dev[d] EXCEPT !.sock = NoConn, !.status = "reconnecting"]
<1>1. dev \in [Device -> GatewayClient] /\ dev[d] \in GatewayClient /\ NoConn \notin Conn
  BY DEF TypeOK, Conn, NoConn
<1>2. g \in GatewayClient /\ g.sock = NoConn
  BY <1>1 DEF GatewayClient
<1>3. dev' = [dev EXCEPT ![d] = g]
  BY <1>1 DEF ClientClose
<1> HIDE DEF g
<1>4. /\ dev' \in [Device -> GatewayClient] /\ dev'[d].sock = NoConn
      /\ \A x \in Device : x # d => dev'[x].sock = dev[x].sock
  BY <1>1, <1>2, <1>3
<1>5. /\ conn' = conn /\ heap' = heap /\ orphans' = orphans /\ userConns' = userConns
      /\ fan' = fan /\ published' = published /\ serverRow' = serverRow /\ up' = up /\ knows' = knows /\ shows' = shows
  BY DEF ClientClose
<1>6. TypeOK'
  BY <1>4, <1>5 DEF TypeOK
<1>7. UnusedIsBlank' /\ NothingFromTheFuture'
  BY <1>5 DEF UnusedIsBlank, NothingFromTheFuture
<1>8. SocketsBelong'
  BY <1>4, <1>5 DEF SocketsBelong
<1>9. OwnArray' /\ BufferHasOneOwner' /\ RingExact'
  <2>1. StreamsKept
    BY <1>5 DEF StreamsKept
  <2>2. QED
    BY <1>6, <2>1, StreamsKeptKeeps
<1>10. OpenSocketIsTracked'
  BY <1>5 DEF OpenSocketIsTracked, Open, UserOn
<1>11. NothingIsMissed'
  <2>1. \A k \in Conn : Reachable(k)' => Reachable(k)
    <3>1. \A k \in Conn : conn[k].dev \in Device
      BY DEF TypeOK, Client
    <3>2. QED
      BY <1>1, <1>4, <1>5, <3>1 DEF Reachable, Attached
  <2>2. QED
    BY <1>5, <2>1, BystanderMissesNothing DEF NothingIsMissed, MissesNothing
<1>12. QED
  BY <1>6, <1>7, <1>8, <1>9, <1>10, <1>11

\* An orphaned session is forgotten.
LEMMA OrphanExpiresKeeps ==
    ASSUME IInv, NEW c \in Conn, OrphanExpires(c)
    PROVE  IInv'
<1> USE DEF IInv
<1>1. /\ orphans' \in [Conn -> Orphan \cup {NoOrphan}]
      /\ \A o \in Conn : orphans'[o] = orphans[o] \/ orphans'[o] = NoOrphan
  BY DEF TypeOK, OrphanExpires
<1>2. /\ conn' = conn /\ heap' = heap /\ userConns' = userConns /\ fan' = fan
      /\ published' = published /\ serverRow' = serverRow /\ up' = up /\ dev' = dev /\ knows' = knows /\ shows' = shows
  BY DEF OrphanExpires
<1>3. TypeOK'
  BY <1>1, <1>2 DEF TypeOK
<1>4. UnusedIsBlank' /\ SocketsBelong' /\ NothingFromTheFuture' /\ OpenSocketIsTracked'
  BY <1>2 DEF UnusedIsBlank, SocketsBelong, NothingFromTheFuture, OpenSocketIsTracked, Open, UserOn
<1>5. OwnArray' /\ BufferHasOneOwner' /\ RingExact'
  <2>1. StreamsKept
    BY <1>1, <1>2 DEF StreamsKept
  <2>2. QED
    BY <1>3, <2>1, StreamsKeptKeeps
<1>6. NothingIsMissed'
  BY <1>2 DEF NothingIsMissed, Reachable, Attached, OwnStream, Coming, Told, RowTold
<1>7. QED
  BY <1>3, <1>4, <1>5, <1>6

\* The server sees a socket close: it leaves the map and its array to an orphan.
LEMMA ServerCloseKeeps ==
    ASSUME IInv, NEW c \in Conn, ServerClose(c)
    PROVE  IInv'
<1> USE DEF IInv
<1> DEFINE h == [conn[c] EXCEPT !.phase = "closed"]
           o == [live |-> TRUE, user |-> UserOn(c), seq |-> conn[c].seq,
                 buf |-> conn[c].buf, floor |-> conn[c].floor]
<1>1. /\ conn \in [Conn -> Client] /\ conn[c] \in Client /\ UserOn(c) \in User
      /\ orphans \in [Conn -> Orphan \cup {NoOrphan}] /\ userConns \in [User -> SUBSET Conn]
      /\ up \in [Conn -> Request]
  BY GatewayAssumption DEF TypeOK, Client, UserOn
<1>2. /\ h \in Client /\ h.dev = conn[c].dev /\ h.buf = conn[c].buf /\ h.seq = conn[c].seq
      /\ h.floor = conn[c].floor /\ h.snap = conn[c].snap /\ h.since = conn[c].since /\ h.identified = conn[c].identified
      /\ h.phase = "closed"
  BY <1>1 DEF Client
<1>3. o \in Orphan /\ o.buf = conn[c].buf
  BY <1>1 DEF Orphan, Client
<1>4. conn' = [conn EXCEPT ![c] = h]
  BY <1>1 DEF ServerClose
<1>5. orphans' = [orphans EXCEPT ![c] = o] \/ orphans' = orphans
  BY DEF ServerClose
<1> HIDE DEF h, o
<1>6. conn' \in [Conn -> Client] /\ conn'[c] = h /\ \A k \in Conn : k # c => conn'[k] = conn[k]
  BY <1>2, <1>4, ConnStep
<1>7. /\ orphans' \in [Conn -> Orphan \cup {NoOrphan}]
      /\ \A k \in Conn : k # c => orphans'[k] = orphans[k]
      /\ orphans'[c] = orphans[c] \/ orphans'[c].buf = conn[c].buf
  BY <1>1, <1>3, <1>5
<1>8. /\ userConns' \in [User -> SUBSET Conn]
      /\ \A u \in User : \A k \in userConns[u] : k # c => k \in userConns'[u]
  BY <1>1 DEF ServerClose
<1>9. up' \in [Conn -> Request] /\ (\A k \in Conn : k # c => up'[k] = up[k])
  BY <1>1 DEF ServerClose, NoRequest, Request
<1>10. /\ heap' = heap /\ fan' = fan /\ published' = published /\ serverRow' = serverRow /\ dev' = dev /\ knows' = knows /\ shows' = shows
       /\ Open(c)
  BY DEF ServerClose
<1>11. TypeOK'
  BY <1>6, <1>7, <1>8, <1>9, <1>10 DEF TypeOK
<1>12. \A k \in Conn : /\ conn'[k].dev = conn[k].dev /\ conn'[k].buf = conn[k].buf
                       /\ conn'[k].seq = conn[k].seq /\ conn'[k].floor = conn[k].floor
                       /\ conn'[k].identified = conn[k].identified
                       /\ conn'[k].snap = conn[k].snap
                       /\ k = c => conn'[k].phase = "closed"
  BY <1>2, <1>6
<1>13. UnusedIsBlank'
  BY <1>6, <1>9, <1>10, <1>12 DEF UnusedIsBlank
<1>14. SocketsBelong'
  <2>1. \A d \in Device : dev[d].sock \in Conn \cup {NoConn}
    BY DEF TypeOK, GatewayClient
  <2>2. \A f \in fan : f.at \in Conn
    BY DEF TypeOK, FanOut
  <2>3. QED
    BY <1>6, <1>10, <1>12, <2>1, <2>2 DEF SocketsBelong
<1>15. NothingFromTheFuture'
  BY <1>10, <1>12 DEF NothingFromTheFuture
<1>16. OwnArray'
  <2> SUFFICES ASSUME NEW x \in Conn, conn'[x].phase # "closed"
               PROVE  /\ \A k \in Conn : conn'[k].buf = x => k = x
                      /\ \A k \in Conn : orphans'[k].live => orphans'[k].buf # x
    BY DEF OwnArray
  <2>1. x # c /\ conn[x].phase # "closed"
    BY <1>6, <1>12
  <2>2. \A k \in Conn : conn'[k].buf = x => k = x
    BY <1>12, <2>1 DEF OwnArray
  <2>3. conn[c].buf # x
    BY <2>1 DEF OwnArray
  <2>4. QED
    BY <1>7, <2>1, <2>2, <2>3 DEF OwnArray
<1>17. BufferHasOneOwner'
  <2>1. \A k \in Conn : Open(k)' => k # c /\ Open(k)
    BY <1>6, <1>12 DEF Open
  <2>2. \A k \in Conn : Open(k) /\ k # c => conn[k].buf # conn[c].buf
    BY <1>10 DEF BufferHasOneOwner
  <2>3. \A k \in Conn : orphans[k].live => orphans[k].buf # conn[c].buf
    BY <1>10 DEF BufferHasOneOwner
  <2>4. \A c1, c2 \in Conn : Open(c1)' /\ Open(c2)' /\ conn'[c1].buf = conn'[c2].buf => c1 = c2
    BY <1>12, <2>1 DEF BufferHasOneOwner
  <2>5. \A k, x \in Conn : Open(k)' /\ orphans'[x].live => conn'[k].buf # orphans'[x].buf
    BY <1>7, <1>12, <2>1, <2>2 DEF BufferHasOneOwner
  <2>6. \A o1, o2 \in Conn : orphans'[o1].live /\ orphans'[o2].live /\ orphans'[o1].buf = orphans'[o2].buf => o1 = o2
    BY <1>7, <2>3 DEF BufferHasOneOwner
  <2>7. QED
    BY <2>4, <2>5, <2>6 DEF BufferHasOneOwner
<1>18. RingExact'
  <2>1. \A k \in Conn : Open(k)' => k # c /\ Open(k)
    BY <1>6, <1>12 DEF Open
  <2>2. QED
    BY <1>6, <1>10, <2>1 DEF RingExact, OwnStream
<1>19. OpenSocketIsTracked'
  <2>1. \A k \in Conn : Open(k)' => k # c /\ Open(k)
    BY <1>6, <1>12 DEF Open
  <2>2. \A k \in Conn : UserOn(k) \in User /\ UserOn(k)' = UserOn(k)
    BY <1>12, GatewayAssumption DEF UserOn, TypeOK, Client
  <2>3. QED
    BY <1>8, <1>12, <2>1, <2>2 DEF OpenSocketIsTracked
<1>20. NothingIsMissed'
  <2> SUFFICES ASSUME NEW k \in Conn PROVE MissesNothing(k)'
    BY DEF NothingIsMissed, MissesNothing
  <2>1. CASE k = c
    BY <1>2, <1>6, <2>1 DEF MissesNothing, Reachable
  <2>2. CASE k # c
    <3>1. conn'[k] = conn[k] /\ up'[k] = up[k]
      BY <1>6, <1>9, <2>2
    <3>2. Reachable(k)' => Reachable(k)
      BY <1>10, <3>1 DEF Reachable, Attached
    <3>3. QED
      BY <1>10, <3>1, <3>2, BystanderMissesNothing
  <2>3. QED
    BY <2>1, <2>2
<1>21. QED
  BY <1>11, <1>13, <1>14, <1>15, <1>16, <1>17, <1>18, <1>19, <1>20

\* An event is published and its fan-out starts at the first identified socket.
LEMMA PublishKeeps ==
    ASSUME IInv, NEW isRow \in BOOLEAN, Publish(isRow)
    PROVE  IInv'
<1> USE DEF IInv
<1> DEFINE t == NextTarget(NoConn)
           g == [ev |-> published + 1, row |-> isRow, at |-> t]
<1>1. /\ published \in 0..MaxEvents /\ published < MaxEvents /\ published' = published + 1
      /\ MaxEvents \in Nat /\ serverRow' \in {serverRow, published + 1} /\ serverRow \in 0..published
  BY GatewayAssumption DEF TypeOK, NothingFromTheFuture, Publish
<1>2. /\ conn' = conn /\ heap' = heap /\ orphans' = orphans /\ userConns' = userConns
      /\ up' = up /\ dev' = dev /\ knows' = knows /\ shows' = shows
  BY DEF Publish
<1>3. /\ t \in Conn \cup {NoConn}
      /\ t # NoConn => conn[t].identified
      /\ \A k \in Conn : Open(k) /\ conn[k].identified => t # NoConn /\ t <= k
  <2>1. \A k \in Conn : k > NoConn
    BY DEF Conn, NoConn
  <2>2. QED
    BY <2>1, NextTargetResult
<1>4. IF t = NoConn THEN fan' = fan ELSE fan' = fan \cup {g}
  BY <1>1 DEF Publish
<1>5. fan \subseteq fan' /\ \A f \in fan' : f \in fan \/ (f = g /\ t # NoConn)
  BY <1>4
<1>6. g.ev = published + 1 /\ g.at = t
  OBVIOUS
<1>7. published + 1 \in Event
  BY <1>1 DEF Event
<1>8. t # NoConn => g \in FanOut
  BY <1>3, <1>7 DEF FanOut
<1> HIDE DEF t, g
<1>9. TypeOK'
  <2>1. fan' \subseteq FanOut
    BY <1>5, <1>8 DEF TypeOK
  <2>2. serverRow' \in Version
    BY <1>1 DEF Version
  <2>3. QED
    BY <1>1, <1>2, <2>1, <2>2 DEF TypeOK
<1>10. UnusedIsBlank' /\ OpenSocketIsTracked'
  BY <1>2 DEF UnusedIsBlank, OpenSocketIsTracked, Open, UserOn
<1>11. SocketsBelong'
  <2>1. \A f \in fan' : conn'[f.at].identified
    BY <1>2, <1>3, <1>5, <1>6 DEF SocketsBelong
  <2>2. QED
    BY <1>2, <2>1 DEF SocketsBelong
<1>12. NothingFromTheFuture'
  <2>1. 1..published \subseteq 1..published' /\ 0..published \subseteq 0..published'
    BY <1>1
  <2>2. \A f \in fan' : f.ev \in 1..published'
    BY <1>1, <1>5, <1>6, <2>1 DEF NothingFromTheFuture
  <2> HIDE DEF IInv
  <2>3. NothingFromTheFuture
    BY DEF IInv
  <2>4. serverRow' \in 0..published'
    BY <1>1, <2>1
  <2>5. QED
    BY <1>2, <2>1, <2>2, <2>3, <2>4 DEF NothingFromTheFuture
<1>13. OwnArray' /\ BufferHasOneOwner' /\ RingExact'
  <2>1. StreamsKept
    BY <1>2 DEF StreamsKept
  <2>2. QED
    BY <1>9, <2>1, StreamsKeptKeeps
<1>14. NothingIsMissed'
  <2> SUFFICES ASSUME NEW k \in Conn, Reachable(k)', conn'[k].identified
               PROVE  MissesNothing(k)'
    BY DEF NothingIsMissed, MissesNothing
  <2>1. Reachable(k) /\ conn[k].identified /\ Open(k) /\ conn[k].since \in Nat
    BY <1>1, <1>2 DEF Reachable, Attached, Open, TypeOK, Client
  <2>2. \A e : Told(k, e) => Told(k, e)'
    BY <1>2, <1>5 DEF Told, Coming
  <2>3. \A e : e = published + 1 => Told(k, e)'
    <3>1. g \in fan' /\ g.ev = published + 1 /\ g.at <= k
      BY <1>3, <1>4, <1>6, <2>1
    <3>2. QED
      BY <3>1 DEF Told, Coming
  <2>4. ASSUME NEW e \in (conn'[k].since + 1)..published' PROVE Told(k, e)'
    <3>1. e \in (conn[k].since + 1)..published \/ e = published + 1
      BY <1>1, <1>2, <2>1
    <3>2. e \in (conn[k].since + 1)..published => Told(k, e)
      BY <2>1 DEF NothingIsMissed
    <3>3. QED
      BY <2>2, <2>3, <3>1, <3>2
  <2>5. OwnStream(k)' => RowTold(k)'
    <3>1. CASE serverRow' = serverRow
      BY <1>2, <2>1, <2>2, <3>1 DEF NothingIsMissed, OwnStream, RowTold
    <3>2. CASE serverRow' = published + 1
      <4>1. Told(k, serverRow)'
        BY <2>3, <3>2 DEF Told, Coming
      <4>2. QED
        BY <4>1 DEF RowTold
    <3>3. QED
      BY <1>1, <3>1, <3>2
  <2>6. QED
    BY <2>4, <2>5 DEF MissesNothing
<1>15. QED
  BY <1>9, <1>10, <1>11, <1>12, <1>13, <1>14

\* The array a RESUME may adopt is one that a closed socket has left.
LEMMA ResumeAdoptResult ==
    ASSUME IInv, NEW c \in Conn, ResumeAdopt(c)
    PROVE  \E sid \in Conn, h \in Client :
             LET o == orphans[sid] IN
             /\ o.live /\ o \in Orphan /\ conn[o.buf].phase = "closed"
             /\ orphans' = [orphans EXCEPT ![sid] = NoOrphan]
             /\ conn' = [conn EXCEPT ![c] = h]
             /\ h.buf = o.buf /\ h.dev = conn[c].dev /\ h.snap = conn[c].snap /\ h.identified
             /\ h.since = IF conn[c].identified THEN conn[c].since ELSE published
             /\ \/ h.phase = conn[c].phase
                \/ conn[c].phase = "open" /\ h.phase = "closing"
             /\ dev' \in [Device -> GatewayClient] /\ \A x \in Device : dev'[x].sock = dev[x].sock
             /\ knows' \in [Device -> SUBSET Version] /\ shows' \in [Device -> Version]
             /\ \A x \in Device : knows[x] \subseteq knows'[x]
<1> USE DEF IInv
<1> DEFINE sid == up[c].sid
           o == orphans[sid]
           buf == heap[o.buf]
           due == {i \in 1..Len(buf) : buf[i].s > up[c].last}
<1>1. up \in [Conn -> Request] /\ up[c].op = "RESUME" /\ o.live /\ up[c].last \in Nat /\ sid \in Conn
  <2>1. up \in [Conn -> Request] /\ up[c] \in Request
    BY DEF TypeOK
  <2>2. up[c].op = "RESUME" /\ o.live
    BY DEF ResumeAdopt, Adoptable
  <2>3. up[c] \in [op : {"RESUME"}, sid : Conn, last : Nat]
    BY <2>1, <2>2 DEF Request, NoRequest, Identify
  <2>4. QED
    BY <2>1, <2>2, <2>3
<1>2. orphans \in [Conn -> Orphan \cup {NoOrphan}] /\ o \in Orphan
  BY <1>1 DEF TypeOK, NoOrphan
<1>3. o.buf \in Conn /\ conn[o.buf].phase = "closed"
  BY <1>1, <1>2 DEF OwnArray, Orphan
<1>4. buf \in Seq(Frame)
  BY <1>3 DEF TypeOK
<1>5. PICK n \in due \cup {0} :
        /\ Replay(c, buf, due, n)
        /\ conn' = [conn EXCEPT ![c] =
              [Registered(c, "idle") EXCEPT !.seq = o.seq, !.buf = o.buf, !.floor = o.floor,
                  !.phase = Evicted(@, \E i \in due : i > n)]]
  BY DEF ResumeAdopt
<1> DEFINE r == Registered(c, "idle")
           phase == Evicted(r.phase, \E i \in due : i > n)
           h == [r EXCEPT !.seq = o.seq, !.buf = o.buf, !.floor = o.floor, !.phase = phase]
           replayed == {i \in due : i <= n}
<1>6. /\ r \in Client /\ r.identified /\ r.phase = conn[c].phase /\ r.dev = conn[c].dev /\ r.snap = conn[c].snap
      /\ r.since = IF conn[c].identified THEN conn[c].since ELSE published
  BY RegisteredResult
<1>7. h \in Client /\ h.buf = o.buf /\ h.dev = r.dev /\ h.snap = r.snap /\ h.since = r.since /\ h.identified = r.identified /\ h.phase = phase
  <2>1. phase \in {"unused", "open", "closing", "closed"} /\ o.seq \in Nat /\ o.floor \in Nat
    BY <1>2, <1>6 DEF Evicted, Client, Orphan
  <2> HIDE DEF r, phase, o
  <2>2. QED
    BY <1>3, <1>6, <2>1 DEF Client
<1>8. phase = conn[c].phase \/ (conn[c].phase = "open" /\ phase = "closing")
  BY <1>6 DEF Evicted
<1>9. conn' = [conn EXCEPT ![c] = h]
  BY <1>5, <1>6
<1>10. /\ dev' \in [Device -> GatewayClient] /\ (\A x \in Device : dev'[x].sock = dev[x].sock)
       /\ knows' \in [Device -> SUBSET Version] /\ shows' \in [Device -> Version]
       /\ \A x \in Device : knows[x] \subseteq knows'[x]
  <2>1. CASE Reachable(c) /\ replayed # {}
    <3>1. OnDispatch(conn[c].dev, buf, replayed)
      BY <1>5, <2>1 DEF Replay
    <3>2. conn[c].dev \in Device
      BY DEF TypeOK, Client
    <3> DEFINE d == conn[c].dev
    <3>3. /\ d \in Device /\ OnDispatch(d, buf, replayed) /\ TypeOK
          /\ replayed \in SUBSET (1..Len(buf)) /\ replayed # {}
      BY <2>1, <3>1, <3>2 DEF IInv
    <3> HIDE DEF IInv, d, replayed, buf, h, r, phase, sid, due, o
    <3>4. QED
      BY <1>4, <3>3, OnDispatchResult
  <2>2. CASE ~(Reachable(c) /\ replayed # {})
    <3>1. dev' = dev /\ knows' = knows /\ shows' = shows
      BY <1>5, <2>2 DEF Replay
    <3>2. QED
      BY <3>1 DEF TypeOK
  <2>3. QED
    BY <2>1, <2>2
<1>11. orphans' = [orphans EXCEPT ![sid] = NoOrphan]
  BY DEF ResumeAdopt
<1> HIDE DEF h, r, phase, sid, replayed, due
<1>12. QED
  BY <1>1, <1>2, <1>3, <1>6, <1>7, <1>8, <1>9, <1>10, <1>11

\* RESUME moves an orphan's array to the socket, open or closed by now.
LEMMA ResumeAdoptKeeps ==
    ASSUME IInv, NEW c \in Conn, ResumeAdopt(c)
    PROVE  IInv'
<1> USE DEF IInv
<1>1. PICK sid \in Conn, h \in Client :
        LET o == orphans[sid] IN
        /\ o.live /\ o \in Orphan /\ conn[o.buf].phase = "closed"
        /\ orphans' = [orphans EXCEPT ![sid] = NoOrphan]
        /\ conn' = [conn EXCEPT ![c] = h]
        /\ h.buf = o.buf /\ h.dev = conn[c].dev /\ h.snap = conn[c].snap /\ h.identified
        /\ h.since = IF conn[c].identified THEN conn[c].since ELSE published
        /\ \/ h.phase = conn[c].phase
           \/ conn[c].phase = "open" /\ h.phase = "closing"
        /\ dev' \in [Device -> GatewayClient] /\ \A x \in Device : dev'[x].sock = dev[x].sock
        /\ knows' \in [Device -> SUBSET Version] /\ shows' \in [Device -> Version]
        /\ \A x \in Device : knows[x] \subseteq knows'[x]
  BY ResumeAdoptResult
<1> DEFINE o == orphans[sid]
<1>2. conn' \in [Conn -> Client] /\ conn'[c] = h /\ \A k \in Conn : k # c => conn'[k] = conn[k]
  BY <1>1, ConnStep
<1>3. /\ userConns' \in [User -> SUBSET Conn] /\ \A u \in User : userConns[u] \subseteq userConns'[u]
      /\ c \in userConns'[UserOn(c)] /\ conn[c].phase # "unused"
      /\ fan' = fan /\ published' = published /\ serverRow' = serverRow
  BY HandleResult DEF ResumeAdopt
<1>4. up' \in [Conn -> Request] /\ \A k \in Conn : k # c => up'[k] = up[k]
  BY DEF ResumeAdopt, TypeOK, NoRequest, Request
<1>5. /\ orphans' \in [Conn -> Orphan \cup {NoOrphan}]
      /\ \A x \in Conn : orphans'[x].live => x # sid /\ orphans'[x] = orphans[x]
  BY <1>1 DEF TypeOK, NoOrphan
<1>6. heap' = heap /\ o.live /\ o.buf \in Conn /\ h.buf = o.buf
  BY <1>1 DEF ResumeAdopt, Orphan
<1>7. TypeOK'
  BY <1>1, <1>2, <1>3, <1>4, <1>5, <1>6 DEF TypeOK
<1>8. \A k \in Conn : /\ conn'[k].dev = conn[k].dev /\ conn'[k].snap = conn[k].snap
                      /\ conn'[k].phase = "unused" => k # c /\ conn[k].phase = "unused"
                      /\ conn'[k].phase # "closed" => conn[k].phase # "closed"
                      /\ conn[k].phase # "unused" => conn'[k].phase # "unused"
                      /\ conn[k].identified => conn'[k].identified
                      /\ Open(k)' => Open(k)
                      /\ conn'[k].phase = "open" => conn[k].phase = "open"
  BY <1>1, <1>2, <1>3 DEF Open
<1>9. UnusedIsBlank'
  BY <1>2, <1>4, <1>6, <1>8 DEF UnusedIsBlank
<1>10. SocketsBelong'
  <2>1. \A d \in Device : dev[d].sock \in Conn \cup {NoConn}
    BY DEF TypeOK, GatewayClient
  <2>2. \A f \in fan : f.at \in Conn
    BY DEF TypeOK, FanOut
  <2>3. QED
    BY <1>1, <1>3, <1>8, <2>1, <2>2 DEF SocketsBelong
<1>11. NothingFromTheFuture'
  BY <1>3, <1>8 DEF NothingFromTheFuture
<1>12. OwnArray'
  <2> SUFFICES ASSUME NEW x \in Conn, conn'[x].phase # "closed"
               PROVE  /\ \A k \in Conn : conn'[k].buf = x => k = x
                      /\ \A k \in Conn : orphans'[k].live => orphans'[k].buf # x
    BY DEF OwnArray
  <2>1. conn[x].phase # "closed" /\ o.buf # x
    BY <1>6, <1>8 DEF OwnArray
  <2>2. QED
    BY <1>2, <1>5, <1>6, <2>1 DEF OwnArray
<1>13. BufferHasOneOwner'
  <2>1. \A k \in Conn : Open(k) => conn[k].buf # o.buf
    BY <1>6 DEF BufferHasOneOwner
  <2>2. \A x \in Conn : orphans'[x].live => orphans'[x].buf # o.buf
    BY <1>5, <1>6 DEF BufferHasOneOwner
  <2>3. \A c1, c2 \in Conn : Open(c1)' /\ Open(c2)' /\ conn'[c1].buf = conn'[c2].buf => c1 = c2
    BY <1>2, <1>6, <1>8, <2>1 DEF BufferHasOneOwner
  <2>4. \A k, x \in Conn : Open(k)' /\ orphans'[x].live => conn'[k].buf # orphans'[x].buf
    BY <1>2, <1>5, <1>6, <1>8, <2>2 DEF BufferHasOneOwner
  <2>5. \A o1, o2 \in Conn : orphans'[o1].live /\ orphans'[o2].live /\ orphans'[o1].buf = orphans'[o2].buf => o1 = o2
    BY <1>5 DEF BufferHasOneOwner
  <2>6. QED
    BY <2>3, <2>4, <2>5 DEF BufferHasOneOwner
<1>14. Open(c)' => ~OwnStream(c)'
  BY <1>2, <1>6, <1>8 DEF OwnArray, OwnStream, Open
<1>15. RingExact'
  BY <1>2, <1>6, <1>8, <1>14 DEF RingExact, OwnStream
<1>16. OpenSocketIsTracked'
  <2>1. \A k \in Conn : UserOn(k) \in User /\ UserOn(k)' = UserOn(k)
    BY <1>8, GatewayAssumption DEF UserOn, TypeOK, Client
  <2>2. \A k \in Conn : Open(k)' /\ conn'[k].identified => k \in userConns'[UserOn(k)]
    BY <1>2, <1>3, <1>8, <2>1 DEF OpenSocketIsTracked
  <2>3. QED
    BY <2>1, <2>2 DEF OpenSocketIsTracked
<1>17. NothingIsMissed'
  <2> SUFFICES ASSUME NEW k \in Conn, Reachable(k)', conn'[k].identified
               PROVE  MissesNothing(k)'
    BY DEF NothingIsMissed, MissesNothing
  <2>1. Reachable(k) /\ conn[k].dev \in Device
    <3>1. conn[k].dev \in Device
      BY DEF TypeOK, Client
    <3>2. QED
      BY <1>1, <1>8, <3>1 DEF Reachable, Attached
  <2>2. CASE k = c
    <3>1. ASSUME NEW e \in (conn'[c].since + 1)..published' PROVE Told(c, e)'
      <4>1. conn[c].identified /\ conn'[c].since = conn[c].since
        <5>1. published \in Nat
          BY GatewayAssumption DEF TypeOK
        <5>2. QED
          BY <1>1, <1>2, <1>3, <3>1, <5>1
      <4>2. Told(c, e)
        BY <1>3, <2>1, <2>2, <3>1, <4>1 DEF NothingIsMissed
      <4>3. QED
        BY <1>1, <1>3, <1>8, <2>1, <2>2, <4>2 DEF Told, Coming
    <3>2. ~OwnStream(c)'
      BY <1>14, <2>2 DEF Reachable, Open
    <3>3. QED
      BY <2>2, <3>1, <3>2 DEF MissesNothing
  <2>3. CASE k # c
    BY <1>1, <1>2, <1>3, <1>4, <2>1, <2>3, BystanderMissesNothing
  <2>4. QED
    BY <2>2, <2>3
<1>18. QED
  BY <1>7, <1>9, <1>10, <1>11, <1>12, <1>13, <1>15, <1>16, <1>17

-----------------------------------------------------------------------------
(* Dispatches.                                                               *)

\* The exact run floor..seq stays one when the next number is pushed.
LEMMA RingGrows ==
    ASSUME NEW buf \in Seq(Frame), Len(buf) <= BufferMax, NEW floor \in Nat, NEW seq \in Nat, NEW x \in Frame,
           x.s = seq + 1,
           buf # <<>> => (\A i \in 1..Len(buf) : buf[i].s = floor + i - 1) /\ buf[Len(buf)].s = seq
    PROVE  LET new == Pushed(buf, x) IN
           /\ \A i \in 1..Len(new) : new[i].s = FloorAfter(buf, floor, seq + 1) + i - 1
           /\ new[Len(new)].s = seq + 1
<1> DEFINE new == Pushed(buf, x)
<1>1. /\ Len(new) = IF Len(buf) + 1 > BufferMax THEN Len(buf) ELSE Len(buf) + 1
      /\ Len(new) \in 1..BufferMax
      /\ new[Len(new)] = x
      /\ \A i \in 1..(Len(new) - 1) : new[i] = IF Len(buf) + 1 > BufferMax THEN buf[i + 1] ELSE buf[i]
  BY PushedResult
<1>2. BufferMax \in Nat \ {0} /\ Len(buf) \in Nat
  BY GatewayAssumption
<1>3. new[Len(new)].s = seq + 1
  BY <1>1
<1> HIDE DEF new
<1>4. CASE Len(buf) + 1 > BufferMax
  <2>1. buf # <<>> /\ Head(buf) = buf[1]
    BY <1>2, <1>4
  <2>2. seq = floor + Len(buf) - 1 /\ buf[1].s = floor
    <3>1. 1 \in 1..Len(buf) /\ Len(buf) \in 1..Len(buf)
      BY <1>2, <1>4
    <3>2. buf[1].s = floor + 1 - 1 /\ buf[Len(buf)].s = floor + Len(buf) - 1
      BY <2>1, <3>1
    <3>3. QED
      BY <1>2, <2>1, <3>2
  <2>3. FloorAfter(buf, floor, seq + 1) = floor + 1
    BY <1>4, <2>1, <2>2 DEF FloorAfter
  <2>4. \A i \in 1..(Len(new) - 1) : new[i].s = (floor + 1) + i - 1
    BY <1>1, <1>2, <1>4, <2>1
  <2>5. \A i \in 1..Len(new) : new[i].s = (floor + 1) + i - 1
    <3>1. Len(new) = Len(buf) /\ new[Len(new)].s = (floor + 1) + Len(new) - 1
      BY <1>1, <1>2, <1>3, <1>4, <2>2
    <3>2. \A i \in 1..Len(new) : i = Len(new) \/ i \in 1..(Len(new) - 1)
      BY <1>2, <3>1
    <3>3. QED
      BY <2>4, <3>1, <3>2
  <2>6. QED
    BY <1>3, <2>3, <2>5 DEF new
<1>5. CASE ~(Len(buf) + 1 > BufferMax) /\ buf = <<>>
  <2>1. FloorAfter(buf, floor, seq + 1) = seq + 1
    BY <1>2, <1>5 DEF FloorAfter
  <2>2. \A i \in 1..Len(new) : new[i].s = (seq + 1) + i - 1
    BY <1>1, <1>2, <1>3, <1>5
  <2>3. QED
    BY <1>3, <2>1, <2>2 DEF new
<1>6. CASE ~(Len(buf) + 1 > BufferMax) /\ buf # <<>>
  <2>1. Len(buf) # 0
    BY <1>6
  <2>2. FloorAfter(buf, floor, seq + 1) = floor
    BY <1>2, <1>6, <2>1 DEF FloorAfter
  <2>3. seq = floor + Len(buf) - 1
    BY <1>2, <1>6, <2>1
  <2>4. \A i \in 1..(Len(new) - 1) : new[i].s = floor + i - 1
    BY <1>1, <1>2, <1>6
  <2>5. \A i \in 1..Len(new) : new[i].s = floor + i - 1
    <3>1. Len(new) = Len(buf) + 1 /\ new[Len(new)].s = floor + Len(new) - 1
      BY <1>1, <1>2, <1>3, <1>6, <2>3
    <3>2. \A i \in 1..Len(new) : i = Len(new) \/ i \in 1..(Len(new) - 1)
      BY <1>2, <3>1
    <3>3. QED
      BY <2>4, <3>1, <3>2
  <2>6. QED
    BY <1>3, <2>2, <2>5 DEF new
<1>7. QED
  BY <1>4, <1>5, <1>6

\* A dispatch of published events to an identified socket, of READY or of an
\* event, keeps the invariant if what was coming to a client and has gone is in it.
LEMMA DispatchKeeps ==
    ASSUME IInv, NEW c \in Conn, NEW h \in Client, NEW frame \in Frame,
           Dispatched(c, h, frame), frame.s = h.seq + 1,
           conn[c].phase # "unused", h.identified = conn[c].identified,
           h.phase = conn[c].phase, h.dev = conn[c].dev, h.since = conn[c].since,
           h.buf = conn[c].buf, h.seq = conn[c].seq, h.floor = conn[c].floor,
           h.snap \in 0..published,
           \/ h.task = conn[c].task /\ h.snap = conn[c].snap
           \/ conn[c].task = "ready" /\ frame.ev = conn[c].snap,
           orphans' = orphans, userConns' = userConns, published' = published, serverRow' = serverRow, up' = up,
           \A f \in fan' : f \in FanOut /\ conn[f.at].identified /\ f.ev \in 1..published,
           \A k \in Conn, e \in Version : Open(k) /\ conn[k].identified /\ Coming(k, e) =>
               Coming(k, e)' \/ (k = c /\ e = frame.ev)
    PROVE  IInv'
<1>1. /\ conn' \in [Conn -> Client]
      /\ \A k \in Conn : k # c => conn'[k] = conn[k]
      /\ conn'[c].dev = h.dev /\ conn'[c].buf = h.buf /\ conn'[c].identified = h.identified
      /\ conn'[c].task = h.task /\ conn'[c].snap = h.snap /\ conn'[c].since = h.since
      /\ conn'[c].seq = h.seq + 1
      /\ conn'[c].floor = FloorAfter(heap[h.buf], h.floor, h.seq + 1)
      /\ conn'[c].phase = h.phase \/ (h.phase = "open" /\ conn'[c].phase = "closing")
  BY DEF Dispatched
<1>2. /\ heap' \in [Conn -> Seq(Frame)]
      /\ \A k \in Conn : Len(heap'[k]) <= BufferMax
      /\ \A k \in Conn : k # h.buf => heap'[k] = heap[k]
      /\ heap'[h.buf] = Pushed(heap[h.buf], frame)
  BY DEF Dispatched
<1>3. /\ dev' \in [Device -> GatewayClient]
      /\ knows' \in [Device -> SUBSET Version] /\ shows' \in [Device -> Version]
      /\ \A x \in Device : dev'[x].sock = dev[x].sock
      /\ \A x \in Device : knows[x] \subseteq knows'[x]
      /\ Reachable(c) /\ h.phase = "open" /\ conn'[c].phase = "open" => frame.ev \in knows'[conn[c].dev]
  BY DEF Dispatched
<1> USE DEF IInv
<1>5. \A k \in Conn : /\ conn'[k].dev = conn[k].dev /\ conn'[k].buf = conn[k].buf
                      /\ conn'[k].snap \in 0..published /\ conn'[k].since = conn[k].since
                      /\ conn'[k].phase = "unused" => k # c /\ conn[k].phase = "unused"
                      /\ conn'[k].phase # "closed" => conn[k].phase # "closed"
                      /\ conn[k].phase # "unused" => conn'[k].phase # "unused"
                      /\ conn'[k].identified = conn[k].identified
                      /\ Open(k)' => Open(k)
                      /\ conn'[k].phase = "open" => conn[k].phase = "open"
  BY <1>1 DEF Open, NothingFromTheFuture
<1>6. TypeOK'
  <2>1. fan' \subseteq FanOut
    OBVIOUS
  <2>2. QED
    BY <1>1, <1>2, <1>3, <2>1 DEF TypeOK
<1>7. \A k \in Conn : conn[k].phase # "closed" /\ k # c => heap'[k] = heap[k]
  BY <1>2 DEF OwnArray
<1>8. UnusedIsBlank'
  BY <1>1, <1>5, <1>7 DEF UnusedIsBlank
<1>9. SocketsBelong'
  <2>1. \A d \in Device : dev[d].sock \in Conn \cup {NoConn}
    BY DEF TypeOK, GatewayClient
  <2>2. \A d \in Device : dev'[d].sock # NoConn =>
             conn'[dev'[d].sock].dev = d /\ conn'[dev'[d].sock].phase # "unused"
    BY <1>3, <1>5, <2>1 DEF SocketsBelong
  <2>3. \A f \in fan' : f.at \in Conn /\ conn[f.at].identified
    BY DEF FanOut
  <2>4. QED
    BY <1>5, <2>2, <2>3 DEF SocketsBelong
<1>10. NothingFromTheFuture'
  BY <1>5 DEF NothingFromTheFuture
<1>11. OwnArray'
  BY <1>5 DEF OwnArray
<1>12. BufferHasOneOwner'
  BY <1>5 DEF BufferHasOneOwner
<1>13. RingExact'
  <2> SUFFICES ASSUME NEW k \in Conn, Open(k)', conn'[k].buf = k
               PROVE  heap'[k] # <<>> =>
                      /\ \A i \in 1..Len(heap'[k]) : heap'[k][i].s = conn'[k].floor + i - 1
                      /\ heap'[k][Len(heap'[k])].s = conn'[k].seq
    BY DEF RingExact, OwnStream
  <2>1. Open(k) /\ OwnStream(k) /\ conn[k].phase # "closed"
    BY <1>5 DEF Open, OwnStream, Conn, NoConn
  <2>2. CASE k # c
    BY <1>1, <1>7, <2>1, <2>2 DEF RingExact
  <2>3. CASE k = c
    <3> DEFINE old == heap[c]
    <3>1. h.buf = c /\ h.floor \in Nat /\ h.seq \in Nat
      BY <2>1, <2>3 DEF OwnStream, Client
    <3>2. old \in Seq(Frame) /\ Len(old) <= BufferMax
      BY DEF TypeOK
    <3>3. old # <<>> => (\A i \in 1..Len(old) : old[i].s = h.floor + i - 1) /\ old[Len(old)].s = h.seq
      BY <2>1, <2>3 DEF RingExact
    <3>4. heap'[c] = Pushed(old, frame)
      BY <1>2, <3>1
    <3> HIDE DEF old
    <3>5. /\ \A i \in 1..Len(Pushed(old, frame)) : Pushed(old, frame)[i].s = FloorAfter(old, h.floor, h.seq + 1) + i - 1
          /\ Pushed(old, frame)[Len(Pushed(old, frame))].s = h.seq + 1
      BY <3>1, <3>2, <3>3, RingGrows
    <3>6. conn'[c].floor = FloorAfter(old, h.floor, h.seq + 1) /\ conn'[c].seq = h.seq + 1
      BY <1>1, <3>1 DEF old
    <3>7. QED
      BY <2>3, <3>4, <3>5, <3>6
  <2>4. QED
    BY <2>2, <2>3
<1>14. OpenSocketIsTracked'
  <2>1. \A k \in Conn : UserOn(k) \in User /\ UserOn(k)' = UserOn(k)
    BY <1>5, GatewayAssumption DEF UserOn, TypeOK, Client
  <2>2. QED
    BY <1>5, <2>1 DEF OpenSocketIsTracked
<1>15. NothingIsMissed'
  <2> SUFFICES ASSUME NEW k \in Conn, Reachable(k)', conn'[k].identified
               PROVE  MissesNothing(k)'
    BY DEF NothingIsMissed, MissesNothing
  <2>1. /\ Reachable(k) /\ Open(k) /\ conn[k].identified /\ conn[k].dev \in Device
        /\ k = c => h.phase = "open" /\ conn'[c].phase = "open"
    <3>1. conn[k].dev \in Device
      BY DEF TypeOK, Client
    <3>2. QED
      BY <1>3, <1>5, <3>1 DEF Reachable, Attached, Open
  <2>2. k = c => frame.ev \in knows'[conn'[k].dev]
    BY <1>3, <1>5, <2>1
  <2>3. ASSUME NEW e \in Version, Told(k, e) PROVE Told(k, e)'
    <3>1. e \in knows[conn[k].dev] => e \in knows'[conn'[k].dev]
      BY <1>3, <1>5, <2>1
    <3>2. Coming(k, e) => Coming(k, e)' \/ e \in knows'[conn'[k].dev]
      BY <2>1, <2>2
    <3>3. QED
      BY <2>3, <3>1, <3>2 DEF Told
  <2>4. ASSUME NEW e \in (conn'[k].since + 1)..published' PROVE Told(k, e)'
    <3>1. e \in Version
      <4>1. conn'[k].since \in 0..MaxEvents /\ published' \in 0..MaxEvents
        BY <1>1, GatewayAssumption DEF TypeOK, Client
      <4>2. QED
        BY <2>4, <4>1, GatewayAssumption DEF Version
    <3>2. Told(k, e)
      BY <1>5, <2>1, <2>4 DEF NothingIsMissed
    <3>3. QED
      BY <2>3, <3>1, <3>2
  <2>5. OwnStream(k)' => RowTold(k)'
    <3> SUFFICES ASSUME OwnStream(k)' PROVE RowTold(k)'
      OBVIOUS
    <3>1. RowTold(k) /\ serverRow \in Version
      BY <1>5, <2>1 DEF NothingIsMissed, OwnStream, TypeOK
    <3>2. Told(k, serverRow) => RowTold(k)'
      BY <2>3, <3>1 DEF RowTold
    <3>3. CASE k # c
      BY <1>1, <3>1, <3>2, <3>3 DEF RowTold
    <3>4. CASE k = c /\ h.task = conn[c].task /\ h.snap = conn[c].snap
      BY <1>1, <3>1, <3>2, <3>4 DEF RowTold
    <3>5. CASE k = c /\ conn[c].task = "ready" /\ frame.ev = conn[c].snap
      <4>1. conn[c].snap = serverRow => Told(c, serverRow)'
        BY <2>2, <3>5 DEF Told
      <4>2. QED
        BY <3>1, <3>2, <3>5, <4>1 DEF RowTold
    <3>6. QED
      BY <3>3, <3>4, <3>5
  <2>6. QED
    BY <2>4, <2>5 DEF MissesNothing
<1>16. QED
  BY <1>6, <1>8, <1>9, <1>10, <1>11, <1>12, <1>13, <1>14, <1>15

\* READY is sent: it tells what its query has read.
LEMMA ReadySendKeeps ==
    ASSUME IInv, NEW c \in Conn, NEW slow \in BOOLEAN, ReadySend(c, slow)
    PROVE  IInv'
<1> DEFINE h == [conn[c] EXCEPT !.task = "idle", !.snap = 0]
           ev == conn[c].snap
<1>1. TypeOK /\ NothingFromTheFuture /\ SocketsBelong
  BY DEF IInv
<1>2. conn[c] \in Client /\ published \in 0..MaxEvents /\ MaxEvents \in Nat
  BY <1>1, GatewayAssumption DEF TypeOK
<1>3. /\ h \in Client /\ h.dev = conn[c].dev /\ h.buf = conn[c].buf /\ h.seq = conn[c].seq
      /\ h.floor = conn[c].floor /\ h.snap = 0 /\ h.since = conn[c].since
      /\ h.identified = conn[c].identified /\ h.phase = conn[c].phase /\ h.task = "idle"
  <2>1. 0 \in Version
    BY <1>2 DEF Version
  <2>2. h \in Client
    BY <1>2, <2>1 DEF Client
  <2>3. QED
    BY <1>2, <2>2 DEF Client
<1>4. conn[c].task = "ready" /\ SendDispatch(c, h, TRUE, ev, TRUE, slow) /\ ev \in Version
  BY <1>2 DEF ReadySend, Client
<1>5. /\ orphans' = orphans /\ userConns' = userConns /\ fan' = fan /\ published' = published
      /\ serverRow' = serverRow /\ up' = up
  BY DEF ReadySend
<1>6. conn[c].phase # "unused"
  BY <1>4 DEF IInv, UnusedIsBlank
<1>7. \A f \in fan' : f \in FanOut /\ conn[f.at].identified /\ f.ev \in 1..published
  BY <1>1, <1>5 DEF TypeOK, SocketsBelong, NothingFromTheFuture
<1> DEFINE frame == [s |-> h.seq + 1, ready |-> TRUE, ev |-> ev, row |-> TRUE]
<1>8. \A k \in Conn, e \in Version : Open(k) /\ conn[k].identified /\ Coming(k, e) =>
          Coming(k, e)' \/ (k = c /\ e = frame.ev)
  BY <1>5 DEF Coming
<1>9. 0 \in 0..published
  BY <1>2
<1>10. Dispatched(c, h, frame) /\ frame \in Frame /\ frame.s = h.seq + 1 /\ frame.ev = conn[c].snap
  <2>1. frame.ev = conn[c].snap
    OBVIOUS
  <2> HIDE DEF h, ev
  <2>2. h.seq + 1 \in Nat
    BY <1>3 DEF Client
  <2>3. Dispatched(c, h, frame)
    BY <1>1, <1>3, <1>4, SendDispatchResult
  <2>4. QED
    BY <1>4, <2>1, <2>2, <2>3 DEF Frame
<1>11. conn[c].task = "ready"
  BY <1>4
<1> HIDE DEF h, ev, frame
<1>12. QED
  BY <1>3, <1>5, <1>6, <1>7, <1>8, <1>9, <1>10, <1>11, DispatchKeeps

\* A fan-out dispatches its event and goes on to the next socket.
LEMMA DeliverKeeps ==
    ASSUME IInv, NEW f \in fan, NEW slow \in BOOLEAN, Deliver(f, slow)
    PROVE  IInv'
<1> DEFINE c == f.at
           t == NextTarget(c)
           g == [f EXCEPT !.at = t]
<1>1. TypeOK /\ NothingFromTheFuture /\ SocketsBelong
  BY DEF IInv
<1>2. /\ f \in FanOut /\ c \in Conn /\ f.ev \in Event /\ conn[c] \in Client
      /\ conn[c].phase # "unused" /\ f.ev \in 1..published /\ conn[c].snap \in 0..published
  <2>1. f \in FanOut
    BY <1>1 DEF TypeOK
  <2>2. c \in Conn /\ f.ev \in Event
    BY <2>1 DEF FanOut
  <2>3. conn[c] \in Client
    BY <1>1, <2>2 DEF TypeOK
  <2>4. conn[c].identified
    BY <1>1 DEF SocketsBelong
  <2>5. conn[c].phase # "unused"
    BY <2>2, <2>4 DEF IInv, UnusedIsBlank
  <2>6. f.ev \in 1..published /\ conn[c].snap \in 0..published
    BY <1>1, <2>2 DEF NothingFromTheFuture
  <2>7. QED
    BY <2>1, <2>2, <2>3, <2>5, <2>6
<1>3. /\ t \in Conn \cup {NoConn}
      /\ t # NoConn => conn[t].identified
      /\ \A k \in Conn : k > c /\ Open(k) /\ conn[k].identified => t # NoConn /\ t <= k
  BY <1>2, NextTargetResult
<1>4. SendDispatch(c, conn[c], FALSE, f.ev, f.row, slow) /\ f.row \in BOOLEAN /\ f.ev \in Version
  <2>1. SendDispatch(c, conn[c], FALSE, f.ev, f.row, slow)
    BY DEF Deliver
  <2>2. f.row \in BOOLEAN
    BY <1>2, Zenon DEF FanOut
  <2>3. f.ev \in Version
    BY <1>2, GatewayAssumption DEF Event, Version
  <2>4. QED
    BY <2>1, <2>2, <2>3
<1>5. orphans' = orphans /\ userConns' = userConns /\ published' = published /\ serverRow' = serverRow /\ up' = up
  BY DEF Deliver
<1>6. fan' = (fan \ {f}) \cup (IF t = NoConn THEN {} ELSE {g})
  BY DEF Deliver
<1>7. g.ev = f.ev /\ g.at = t /\ (t # NoConn => g \in FanOut)
  BY <1>2, <1>3 DEF FanOut
<1> HIDE DEF g, t
<1>9. \A x \in fan' : x \in FanOut /\ conn[x.at].identified /\ x.ev \in 1..published
  BY <1>1, <1>2, <1>3, <1>6, <1>7 DEF TypeOK, SocketsBelong, NothingFromTheFuture
<1>10. \A k \in Conn, e \in Version : Open(k) /\ conn[k].identified /\ Coming(k, e) =>
          Coming(k, e)' \/ (k = c /\ e = f.ev)
  <2> SUFFICES ASSUME NEW k \in Conn, NEW e \in Version, Open(k), conn[k].identified,
                      NEW x \in fan, x.ev = e, x.at <= k
               PROVE  Coming(k, e)' \/ (k = c /\ e = f.ev)
    BY DEF Coming
  <2>1. CASE x # f
    BY <1>6, <2>1 DEF Coming
  <2>2. CASE x = f /\ k = c
    BY <2>2
  <2>3. CASE x = f /\ k # c
    <3>1. k > c
      BY <1>2, <2>3 DEF Conn
    <3>2. t # NoConn /\ t <= k
      BY <1>3, <3>1
    <3>3. g \in fan' /\ g.ev = e /\ g.at <= k
      BY <1>6, <1>7, <2>3, <3>2
    <3>4. QED
      BY <3>3 DEF Coming
  <2>4. QED
    BY <2>1, <2>2, <2>3
<1> DEFINE h == conn[c]
           frame == [s |-> h.seq + 1, ready |-> FALSE, ev |-> f.ev, row |-> f.row]
<1>11. /\ Dispatched(c, h, frame) /\ frame \in Frame
       /\ frame.s = h.seq + 1 /\ frame.ev = f.ev
  <2>1. h.seq + 1 \in Nat
    BY <1>2 DEF Client
  <2>2. Dispatched(c, h, frame)
    BY <1>1, <1>2, <1>4, SendDispatchResult
  <2>3. QED
    BY <1>4, <2>1, <2>2 DEF Frame
<1>12. h = conn[c]
  OBVIOUS
<1> HIDE DEF h, c, frame
<1>13. QED
  BY <1>2, <1>5, <1>9, <1>10, <1>11, <1>12, DispatchKeeps

-----------------------------------------------------------------------------
(* Theorems.                                                                 *)

LEMMA InitIInv == Init => IInv
<1> SUFFICES ASSUME Init PROVE IInv
  OBVIOUS
<1>1. \A c \in Conn : /\ Unused(c) \in Client
                      /\ Unused(c).phase = "unused" /\ Unused(c).buf = c /\ ~Unused(c).identified
                      /\ Unused(c).task = "idle" /\ Unused(c).snap = 0
  <2> SUFFICES ASSUME NEW c \in Conn
               PROVE  /\ Unused(c) \in Client
                      /\ Unused(c).phase = "unused" /\ Unused(c).buf = c /\ ~Unused(c).identified
                      /\ Unused(c).task = "idle" /\ Unused(c).snap = 0
    OBVIOUS
  <2>1. (CHOOSE d \in Device : TRUE) \in Device
    BY GatewayAssumption
  <2>2. QED
    BY <2>1, GatewayAssumption DEF Unused, Client, Version
<1>2. /\ conn \in [Conn -> Client]
      /\ \A c \in Conn : conn[c].phase = "unused" /\ conn[c].buf = c /\ ~conn[c].identified
                         /\ conn[c].task = "idle" /\ conn[c].snap = 0
  BY <1>1 DEF Init
<1>3. /\ heap \in [Conn -> Seq(Frame)] /\ \A c \in Conn : heap[c] = <<>>
  BY DEF Init
<1>4. /\ orphans \in [Conn -> Orphan \cup {NoOrphan}] /\ \A c \in Conn : ~orphans[c].live
  BY DEF Init, NoOrphan
<1>5. /\ dev \in [Device -> GatewayClient] /\ \A d \in Device : dev[d].sock = NoConn
  BY DEF Init, GatewayClient
<1>6. /\ up \in [Conn -> Request] /\ \A c \in Conn : up[c].op = "none"
  BY DEF Init, Request, NoRequest
<1>7. /\ fan = {} /\ published = 0 /\ serverRow = 0 /\ serverRow \in Version /\ knows \in [Device -> SUBSET Version] /\ shows \in [Device -> Version]
      /\ userConns \in [User -> SUBSET Conn]
  BY GatewayAssumption DEF Init, Version
<1>8. TypeOK
  <2>1. userConns \in [User -> SUBSET Conn]
    BY DEF Init
  <2>2. \A c \in Conn : Len(heap[c]) <= BufferMax
    BY <1>3, GatewayAssumption
  <2>3. published \in 0..MaxEvents
    BY <1>7, GatewayAssumption
  <2>4. QED
    BY <1>2, <1>3, <1>4, <1>5, <1>6, <1>7, <2>1, <2>2, <2>3 DEF TypeOK
<1>9. UnusedIsBlank /\ SocketsBelong
  BY <1>2, <1>3, <1>5, <1>6, <1>7 DEF UnusedIsBlank, SocketsBelong
<1>10. NothingFromTheFuture
  BY <1>2, <1>3, <1>7 DEF NothingFromTheFuture
<1>11. OwnArray /\ BufferHasOneOwner /\ RingExact /\ OpenSocketIsTracked /\ NothingIsMissed
  BY <1>2, <1>4 DEF OwnArray, BufferHasOneOwner, RingExact, OpenSocketIsTracked, NothingIsMissed,
                    Open, Reachable
<1>12. QED
  BY <1>8, <1>9, <1>10, <1>11 DEF IInv

LEMMA NextIInv == IInv /\ [Next]_vars => IInv'
<1> SUFFICES ASSUME IInv, [Next]_vars PROVE IInv'
  OBVIOUS
<1>1. TypeOK /\ UnusedIsBlank /\ NothingFromTheFuture
  BY DEF IInv
<1>2. ASSUME NEW c \in Conn, NEW d \in Device, Connect(d, c) PROVE IInv'
  BY <1>2, ConnectKeeps
<1>3. ASSUME NEW d \in Device, ClientClose(d) PROVE IInv'
  BY <1>3, ClientCloseKeeps
<1>4. ASSUME NEW c \in Conn, HandleIdentify(c) PROVE IInv'
  BY <1>1, <1>4, HandleIdentifyIsQuiet, QuietKeeps
<1>5. ASSUME NEW c \in Conn, ResumeAdopt(c) PROVE IInv'
  BY <1>5, ResumeAdoptKeeps
<1>6. ASSUME NEW c \in Conn, ResumeGap(c) PROVE IInv'
  BY <1>1, <1>6, ResumeGapIsQuiet, QuietKeeps
<1>7. ASSUME NEW c \in Conn, ResumeFresh(c) PROVE IInv'
  BY <1>1, <1>7, ResumeFreshIsQuiet, QuietKeeps
<1>8. ASSUME NEW c \in Conn, ReadyQuery(c) PROVE IInv'
  BY <1>1, <1>8, ReadyQueryIsQuiet, QuietKeeps
<1>9. ASSUME NEW c \in Conn, NEW slow \in BOOLEAN, ReadySend(c, slow) PROVE IInv'
  BY <1>9, ReadySendKeeps
<1>10. ASSUME NEW c \in Conn, AuthFails(c) PROVE IInv'
  BY <1>1, <1>10, AuthFailsIsQuiet, QuietKeeps
<1>11. ASSUME NEW c \in Conn, ServerClose(c) PROVE IInv'
  BY <1>11, ServerCloseKeeps
<1>12. ASSUME NEW c \in Conn, SweepSocket(c) PROVE IInv'
  BY <1>1, <1>12, SweepSocketIsQuiet, QuietKeeps
<1>13. ASSUME NEW c \in Conn, OrphanExpires(c) PROVE IInv'
  BY <1>13, OrphanExpiresKeeps
<1>14. ASSUME NEW isRow \in BOOLEAN, Publish(isRow) PROVE IInv'
  BY <1>14, PublishKeeps
<1>15. ASSUME NEW f \in fan, NEW slow \in BOOLEAN, Deliver(f, slow) PROVE IInv'
  BY <1>15, DeliverKeeps
<1>16. CASE UNCHANGED vars
  BY <1>16 DEF IInv, vars, TypeOK, UnusedIsBlank, SocketsBelong, NothingFromTheFuture, OwnArray,
               BufferHasOneOwner, RingExact, OpenSocketIsTracked, NothingIsMissed, Open, OwnStream,
               UserOn, Reachable, Attached, Coming, Told, RowTold
<1>17. QED
  BY <1>2, <1>3, <1>4, <1>5, <1>6, <1>7, <1>8, <1>9, <1>10, <1>11, <1>12, <1>13, <1>14, <1>15, <1>16
     DEF Next, Handshake

LEMMA Invariant == Spec => []IInv
<1>1. Init => IInv
  BY InitIInv
<1>2. IInv /\ [Next]_vars => IInv'
  BY NextIInv
<1>3. QED
  BY <1>1, <1>2, PTL DEF Spec

\* The variables of the gateway and of the web client have their types; no
\* replay array exceeds BUFFER_MAX.
THEOREM GatewayTypes == Spec => []TypeOK
<1>1. IInv => TypeOK
  BY DEF IInv
<1>2. QED
  BY <1>1, Invariant, PTL

\* The BUFFER_GAP test of RESUME reads an exact picture of the array: until a
\* RESUME takes it over it is the run bufferFloor..seq (index.ts 431-449, 329).
THEOREM RingIsExact == Spec => []RingExact
<1>1. IInv => RingExact
  BY DEF IInv
<1>2. QED
  BY <1>1, Invariant, PTL

\* No two open sockets or orphaned sessions dispatch into one array, though an
\* array changes hands at every RESUME (index.ts 324, 343).
THEOREM OneOwner == Spec => []BufferHasOneOwner
<1>1. IInv => BufferHasOneOwner
  BY DEF IInv
<1>2. QED
  BY <1>1, Invariant, PTL

\* Every identified open socket is in its user's connection set, whatever order
\* sockets register, close and are closed in (index.ts 251-264, 451).
THEOREM Tracked == Spec => []OpenSocketIsTracked
<1>1. IInv => OpenSocketIsTracked
  BY DEF IInv
<1>2. QED
  BY <1>1, Invariant, PTL

\* The stream of a registered socket has no hole: a settled client was told of
\* all that was published since its socket was registered and, if its stream
\* began with READY, of the present server row (index.ts 287-295, 389).
THEOREM StreamHasNoHole == Spec => []StreamMissesNothing
<1>1. IInv => StreamMissesNothing
  <2> SUFFICES ASSUME IInv, NEW d \in Device, Settled(d)
               PROVE  UpToDate(d)
    BY DEF StreamMissesNothing
  <2> DEFINE c == dev[d].sock
  <2>1. /\ c \in Conn /\ conn[c].dev = d /\ conn[c].phase = "open" /\ conn[c].identified
        /\ conn[c].task = "idle" /\ up[c].op = "none" /\ fan = {}
    BY DEF IInv, TypeOK, GatewayClient, SocketsBelong, Settled
  <2>2. Reachable(c)
    BY <2>1 DEF Reachable, Attached
  <2>3. \A e : Told(c, e) => e \in knows[d]
    BY <2>1 DEF Told, Coming
  <2>4. \A e \in (conn[c].since + 1)..published : e \in knows[d]
    BY <2>1, <2>2, <2>3 DEF IInv, NothingIsMissed
  <2>5. OwnStream(c) => serverRow \in knows[d]
    BY <2>1, <2>2, <2>3 DEF IInv, NothingIsMissed, RowTold
  <2>6. QED
    BY <2>1, <2>4, <2>5 DEF UpToDate
<1>2. QED
  BY <1>1, Invariant, PTL

-----------------------------------------------------------------------------
(* Presence.                                                                 *)

\* PresenceTypeOK without the upper bound of the count.
Types ==
    /\ socket \in [Socket -> {"new", "open", "closed"}]
    /\ count \in Nat
    /\ active \in {"unset", "yes", "no"}
    /\ row \in UserRow
    /\ shown \in [presence : PresenceValue, status : Status]
    /\ call \in [Call -> Handler]
    /\ timer \in BOOLEAN
    /\ emits \subseteq 0..MaxWrites
    /\ sent \subseteq 0..MaxWrites
    /\ restarts \in 0..MaxRestarts

\* Every open socket has been counted, and nothing has been counted twice.
UsedSockets == {k \in Socket : socket[k] # "new"}
Counted == Cardinality(OpenSockets) <= count /\ count <= Cardinality(UsedSockets)

-----------------------------------------------------------------------------
LEMMA IdleType == Idle \in Handler
BY PresenceAssumption DEF Idle, Handler, PresenceValue

LEMMA ComputeType ==
    ASSUME NEW n, NEW flag, NEW dnd PROVE Compute(n, flag, dnd) \in PresenceValue
BY DEF Compute, PresenceValue

LEMMA ReadRowType ==
    ASSUME Types, NEW r \in Call, NEW next \in PresenceValue, ReadRow(r, next)
    PROVE  call' \in [Call -> Handler]
<1>1. row.status \in Status
  BY DEF Types, UserRow
<1>2. [Idle EXCEPT !.pc = "write", !.next = next, !.status = row.status] \in Handler
  BY <1>1, IdleType DEF Idle, Handler
<1>3. QED
  BY <1>2, IdleType DEF ReadRow, Types

LEMMA TypesInit == PresenceInit => Types
<1> SUFFICES ASSUME PresenceInit PROVE Types
  OBVIOUS
<1>1. row \in UserRow /\ shown \in [presence : PresenceValue, status : Status]
  BY PresenceAssumption DEF PresenceInit, UserRow, PresenceValue
<1>2. call \in [Call -> Handler]
  BY IdleType DEF PresenceInit
<1>3. timer \in BOOLEAN /\ active \in {"unset", "yes", "no"}
  BY DEF PresenceInit
<1>4. QED
  BY <1>1, <1>2, <1>3, PresenceAssumption DEF PresenceInit, Types

LEMMA TypesNext == Types /\ [PresenceNext]_presenceVars => Types'
<1> SUFFICES ASSUME Types, [PresenceNext]_presenceVars PROVE Types'
  OBVIOUS
<1> USE PresenceAssumption
<1>1. ASSUME NEW r \in Call, NEW h \in Handler, call' = [call EXCEPT ![r] = h]
      PROVE  call' \in [Call -> Handler]
  BY <1>1 DEF Types
<1>2. row.dnd \in BOOLEAN /\ row.version \in 0..MaxWrites /\ row.status \in Status
  BY DEF Types, UserRow
<1>3. ASSUME NEW dnd \in BOOLEAN
      PROVE  [Idle EXCEPT !.pc = "compute", !.dnd = dnd] \in Handler
  BY IdleType DEF Idle, Handler
<1>4. \A r \in Call : call[r] \in Handler
  BY DEF Types
<1>5. ASSUME NEW r \in Call, NEW pc \in {"publish", "announce"}
      PROVE  [call[r] EXCEPT !.pc = pc] \in Handler
  BY <1>4 DEF Handler
<1>6. ASSUME NEW immediate, ScheduleFanOut(immediate)
      PROVE  timer' \in BOOLEAN /\ emits' \subseteq 0..MaxWrites /\ sent' = sent
  BY <1>2, <1>6 DEF ScheduleFanOut, Types
<1>7. ASSUME NEW r \in Call, NEW k \in Socket, MarkConnected(r, k) PROVE Types'
  <2>1. call' \in [Call -> Handler]
    BY <1>1, <1>2, <1>3, <1>7 DEF MarkConnected
  <2>2. socket' \in [Socket -> {"new", "open", "closed"}] /\ count' \in Nat
    BY <1>7 DEF MarkConnected, Types
  <2>3. active' \in {"unset", "yes", "no"}
    BY <1>7 DEF MarkConnected, Types
  <2>4. QED
    BY <1>7, <2>1, <2>2, <2>3 DEF MarkConnected, Types, fanout
<1>8. ASSUME NEW r \in Call, NEW k \in Socket, CloseLast(r, k) PROVE Types'
  <2>1. call' \in [Call -> Handler]
    BY <1>8, ReadRowType DEF CloseLast, PresenceValue, Types
  <2>2. count' \in Nat
    BY <1>8 DEF CloseLast, Types
  <2>3. active' \in {"unset", "yes", "no"}
    BY <1>8 DEF CloseLast, Types
  <2>4. QED
    BY <1>8, <2>1, <2>2, <2>3 DEF CloseLast, Types, fanout
<1>9. ASSUME NEW r \in Call, NEW flag \in {"yes", "no"}, ReportActivity(r, flag) PROVE Types'
  BY <1>1, <1>2, <1>3, <1>9 DEF ReportActivity, Types, fanout
<1>10. ASSUME NEW r \in Call, NEW dnd \in BOOLEAN, SetManualDnd(r, dnd) PROVE Types'
  <2>1. row' \in UserRow
    BY <1>10 DEF SetManualDnd, Types, UserRow
  <2>2. QED
    BY <1>1, <1>3, <1>10, <2>1 DEF SetManualDnd, Types, memory, fanout
<1>11. ASSUME NEW r \in Call, NEW status \in Status, SetCustomStatus(r, status) PROVE Types'
  <2>1. [Idle EXCEPT !.pc = "status", !.dnd = row.dnd, !.status = status] \in Handler
    BY <1>2, IdleType DEF Idle, Handler
  <2>2. QED
    BY <1>1, <1>11, <2>1 DEF SetCustomStatus, Types, memory, fanout
<1>12. ASSUME NEW r \in Call, ComputeNext(r) PROVE Types'
  BY <1>12, ReadRowType, ComputeType DEF ComputeNext, Types, memory, fanout
<1>13. ASSUME NEW r \in Call, WritePresence(r) PROVE Types'
  <2>1. row' \in UserRow
    <3>1. call[r].next \in PresenceValue
      BY <1>4 DEF Handler
    <3>2. row.version + 1 \in 0..MaxWrites /\ row \in UserRow
      BY <1>2, <1>13 DEF WritePresence, Types
    <3>3. QED
      BY <1>13, <3>1, <3>2 DEF WritePresence, UserRow
  <2>2. call' \in [Call -> Handler]
    BY <1>1, <1>5, <1>13 DEF WritePresence, Types
  <2>3. QED
    BY <1>13, <2>1, <2>2 DEF WritePresence, Types, memory, fanout
<1>14. ASSUME NEW r \in Call, WriteStatus(r) PROVE Types'
  <2>1. row' \in UserRow
    <3>1. call[r].status \in Status
      BY <1>4 DEF Handler
    <3>2. row.version + 1 \in 0..MaxWrites /\ row \in UserRow
      BY <1>2, <1>14 DEF WriteStatus, Types
    <3>3. QED
      BY <1>14, <3>1, <3>2 DEF WriteStatus, UserRow
  <2>2. call' \in [Call -> Handler]
    BY <1>1, <1>5, <1>14 DEF WriteStatus, Types
  <2>3. QED
    BY <1>14, <2>1, <2>2 DEF WriteStatus, Types, memory, fanout
<1>15. ASSUME NEW r \in Call, Broadcast(r) PROVE Types'
  <2>1. shown' \in [presence : PresenceValue, status : Status]
    BY <1>4, <1>15 DEF Broadcast, Handler
  <2>2. call' \in [Call -> Handler]
    BY <1>1, <1>15, IdleType DEF Broadcast, Finish
  <2>3. timer' \in BOOLEAN /\ emits' \subseteq 0..MaxWrites /\ sent' = sent
    BY <1>6, <1>15 DEF Broadcast
  <2>4. QED
    BY <1>15, <2>1, <2>2, <2>3 DEF Broadcast, Types, memory
<1>16. ASSUME NEW r \in Call, Announce(r) PROVE Types'
  <2>1. shown' \in [presence : PresenceValue, status : Status]
    BY <1>4, <1>16, ComputeType DEF Announce, Handler
  <2>2. call' \in [Call -> Handler]
    BY <1>1, <1>16, IdleType DEF Announce, Finish
  <2>3. timer' \in BOOLEAN /\ emits' \subseteq 0..MaxWrites /\ sent' = sent
    BY <1>6, <1>16 DEF Announce
  <2>4. QED
    BY <1>16, <2>1, <2>2, <2>3 DEF Announce, Types, memory
<1>17. ASSUME NEW k \in Socket, CloseOne(k) PROVE Types'
  BY <1>17 DEF CloseOne, Types, fanout
<1>18. CASE TimerFires
  BY <1>2, <1>18 DEF TimerFires, Types, memory
<1>19. ASSUME NEW v \in emits, Emit(v) PROVE Types'
  BY <1>19 DEF Emit, Types, memory
<1>20. CASE Restart
  <2>1. socket' \in [Socket -> {"new", "open", "closed"}] /\ count' \in Nat
    BY <1>20 DEF Restart, Types
  <2>2. call' \in [Call -> Handler]
    BY <1>20, IdleType DEF Restart
  <2>3. restarts' \in 0..MaxRestarts
    BY <1>20 DEF Restart, Types
  <2>4. timer' \in BOOLEAN /\ active' \in {"unset", "yes", "no"} /\ emits' \subseteq 0..MaxWrites
    BY <1>20 DEF Restart
  <2>5. QED
    BY <1>20, <2>1, <2>2, <2>3, <2>4 DEF Restart, Types
<1>21. CASE UNCHANGED presenceVars
  BY <1>21 DEF presenceVars, Types, memory, fanout
<1>22. QED
  BY <1>7, <1>8, <1>9, <1>10, <1>11, <1>12, <1>13, <1>14, <1>15, <1>16, <1>17, <1>18, <1>19,
     <1>20, <1>21 DEF PresenceNext

-----------------------------------------------------------------------------
(* The socket count.                                                         *)

LEMMA SocketSetsFinite ==
    /\ IsFiniteSet(OpenSockets) /\ IsFiniteSet(UsedSockets)
    /\ Cardinality(OpenSockets) \in Nat /\ Cardinality(UsedSockets) \in Nat
    /\ Cardinality(UsedSockets) <= Cardinality(Socket)
<1>1. OpenSockets \subseteq Socket /\ UsedSockets \subseteq Socket
  BY DEF OpenSockets, UsedSockets
<1>2. QED
  BY <1>1, PresenceAssumption, FS_Subset, FS_CardinalityType

LEMMA CountedInit == PresenceInit => Counted
<1> SUFFICES ASSUME PresenceInit PROVE Counted
  OBVIOUS
<1>1. OpenSockets = {} /\ UsedSockets = {}
  BY DEF PresenceInit, OpenSockets, UsedSockets
<1>2. QED
  BY <1>1, FS_EmptySet DEF PresenceInit, Counted

LEMMA CountedNext == Types /\ Counted /\ [PresenceNext]_presenceVars => Counted'
<1> SUFFICES ASSUME Types, Counted, [PresenceNext]_presenceVars PROVE Counted'
  OBVIOUS
<1>0. count \in Nat /\ Cardinality(OpenSockets) \in Nat /\ Cardinality(UsedSockets) \in Nat
  BY SocketSetsFinite DEF Types
<1>1. CASE socket' = socket /\ count' = count
  BY <1>1 DEF Counted, OpenSockets, UsedSockets
<1>2. ASSUME NEW r \in Call, NEW k \in Socket, MarkConnected(r, k) PROVE Counted'
  <2>1. k \notin OpenSockets /\ OpenSockets' = OpenSockets \cup {k}
    BY <1>2 DEF MarkConnected, Types, OpenSockets
  <2>2. k \notin UsedSockets /\ UsedSockets' = UsedSockets \cup {k}
    BY <1>2 DEF MarkConnected, Types, UsedSockets
  <2>3. /\ Cardinality(OpenSockets') = Cardinality(OpenSockets) + 1
        /\ Cardinality(UsedSockets') = Cardinality(UsedSockets) + 1
    BY <2>1, <2>2, SocketSetsFinite, FS_AddElement
  <2>4. QED
    BY <1>0, <1>2, <2>3 DEF MarkConnected, Counted
<1>3. ASSUME NEW k \in Socket, CloseOne(k) PROVE Counted'
  <2>1. k \in OpenSockets /\ OpenSockets' = OpenSockets \ {k}
    BY <1>3 DEF CloseOne, Types, OpenSockets
  <2>2. UsedSockets' = UsedSockets
    BY <1>3 DEF CloseOne, Types, UsedSockets
  <2>3. Cardinality(OpenSockets') = Cardinality(OpenSockets) - 1
    BY <2>1, SocketSetsFinite, FS_RemoveElement
  <2>4. QED
    BY <1>0, <1>3, <2>2, <2>3 DEF CloseOne, Counted
<1>4. ASSUME NEW r \in Call, NEW k \in Socket, CloseLast(r, k) PROVE Counted'
  <2>1. OpenSockets' = {}
    BY <1>4 DEF CloseLast, Types, OpenSockets
  <2>2. UsedSockets' = UsedSockets
    BY <1>4 DEF CloseLast, Types, OpenSockets, UsedSockets
  <2>3. Cardinality(OpenSockets') = 0
    BY <2>1, FS_EmptySet
  <2>4. count' \in Nat /\ count' <= count
    BY <1>0, <1>4 DEF CloseLast
  <2>5. QED
    BY <1>0, <2>2, <2>3, <2>4 DEF Counted
<1>5. CASE Restart
  <2>1. OpenSockets' = {}
    BY <1>5 DEF Restart, OpenSockets
  <2>2. UsedSockets' = UsedSockets
    BY <1>5 DEF Restart, Types, UsedSockets
  <2>3. Cardinality(OpenSockets') = 0
    BY <2>1, FS_EmptySet
  <2>4. QED
    BY <1>0, <1>5, <2>2, <2>3 DEF Restart, Counted
<1>6. \/ socket' = socket /\ count' = count
      \/ \E r \in Call, k \in Socket : MarkConnected(r, k) \/ CloseLast(r, k)
      \/ \E k \in Socket : CloseOne(k)
      \/ Restart
  BY DEF PresenceNext, presenceVars, memory, ReportActivity, SetManualDnd, SetCustomStatus, ComputeNext,
         WritePresence, Broadcast, WriteStatus, Announce, TimerFires, Emit
<1>7. QED
  BY <1>1, <1>2, <1>3, <1>4, <1>5, <1>6

LEMMA TypesCounted == PresenceSpec => [](Types /\ Counted)
<1>1. PresenceInit => Types /\ Counted
  BY TypesInit, CountedInit
<1>2. (Types /\ Counted) /\ [PresenceNext]_presenceVars => (Types /\ Counted)'
  BY TypesNext, CountedNext
<1>3. QED
  BY <1>1, <1>2, PTL DEF PresenceSpec

\* Every variable keeps its type; in particular no socket is ever counted twice.
THEOREM PresenceTypes == PresenceSpec => []PresenceTypeOK
<1>1. Types /\ Counted => PresenceTypeOK
  <2> SUFFICES ASSUME Types, Counted PROVE PresenceTypeOK
    OBVIOUS
  <2>1. count \in 0..Cardinality(Socket)
    <3>1. Cardinality(Socket) \in Nat
      BY PresenceAssumption, FS_CardinalityType
    <3>2. QED
      BY <3>1, SocketSetsFinite DEF Types, Counted
  <2>2. QED
    BY <2>1 DEF Types, PresenceTypeOK
<1>2. QED
  BY <1>1, TypesCounted, PTL

\* With any number of tabs opening and closing, and restarts, the count is at
\* least the number of open sockets.
THEOREM CountNeverTooLow == PresenceSpec => []CountCoversOpenSockets
<1>1. Types /\ Counted => CountCoversOpenSockets
  BY SocketSetsFinite DEF Types, Counted, CountCoversOpenSockets
<1>2. QED
  BY <1>1, TypesCounted, PTL

-----------------------------------------------------------------------------
(* The debounced fan-out.                                                    *)

\* Whoever has written the current version has not scheduled its fan-out yet,
\* or has left it to the timer, or a running fan-out carries it.
Owes(r) == At(r, "publish") \/ At(r, "announce")

FanOutOwed ==
    \/ restarts > 0
    \/ row.version = 0
    \/ row.version \in sent
    \/ timer
    \/ row.version \in emits
    \/ \E r \in Call : Owes(r)

LEMMA FanOutInit == PresenceInit => FanOutOwed
BY DEF PresenceInit, FanOutOwed

\* A write puts its writer into the owing state; every later step hands the
\* debt on until the version is sent.
LEMMA FanOutNext ==
    ASSUME Types, FanOutOwed, [PresenceNext]_presenceVars
    PROVE  FanOutOwed'
<1>0. call \in [Call -> Handler]
  BY DEF Types
<1>1. ASSUME row'.version = row.version, timer' = timer, emits' = emits, sent' = sent,
             restarts' = restarts, \A q \in Call : Owes(q) => Owes(q)'
      PROVE  FanOutOwed'
  BY <1>1 DEF FanOutOwed
<1>2. ASSUME NEW r \in Call, NEW h, ~Owes(r), call' = [call EXCEPT ![r] = h]
      PROVE  \A q \in Call : Owes(q) => Owes(q)'
  BY <1>0, <1>2 DEF Owes, At
<1>3. ASSUME NEW r \in Call, NEW next, ~Owes(r), ReadRow(r, next)
      PROVE  \A q \in Call : Owes(q) => Owes(q)'
  BY <1>2, <1>3 DEF ReadRow
<1>4. ASSUME NEW r \in Call, NEW k \in Socket, MarkConnected(r, k) PROVE FanOutOwed'
  BY <1>1, <1>2, <1>4 DEF MarkConnected, At, Owes, fanout
<1>5. ASSUME NEW r \in Call, NEW k \in Socket, CloseLast(r, k) PROVE FanOutOwed'
  <2>1. /\ ~Owes(r) /\ row' = row /\ restarts' = restarts
        /\ timer' = timer /\ emits' = emits /\ sent' = sent
    BY <1>5 DEF CloseLast, At, Owes, fanout
  <2>2. ReadRow(r, "offline") \/ call' = call
    BY <1>5 DEF CloseLast
  <2>3. \A q \in Call : Owes(q) => Owes(q)'
    BY <1>3, <2>1, <2>2 DEF Owes, At
  <2>4. QED
    BY <1>1, <2>1, <2>3
<1>6. ASSUME NEW r \in Call, NEW flag, ReportActivity(r, flag) PROVE FanOutOwed'
  BY <1>1, <1>2, <1>6 DEF ReportActivity, At, Owes, fanout
<1>7. ASSUME NEW r \in Call, NEW dnd, SetManualDnd(r, dnd) PROVE FanOutOwed'
  <2>1. row'.version = row.version
    BY <1>7 DEF SetManualDnd, Types, UserRow
  <2>2. timer' = timer /\ emits' = emits /\ sent' = sent /\ restarts' = restarts
    BY <1>7 DEF SetManualDnd, fanout
  <2>3. \A q \in Call : Owes(q) => Owes(q)'
    BY <1>2, <1>7 DEF SetManualDnd, At, Owes
  <2>4. QED
    BY <1>1, <2>1, <2>2, <2>3
<1>8. ASSUME NEW r \in Call, NEW status, SetCustomStatus(r, status) PROVE FanOutOwed'
  BY <1>1, <1>2, <1>8 DEF SetCustomStatus, At, Owes, fanout
<1>9. ASSUME NEW r \in Call, ComputeNext(r) PROVE FanOutOwed'
  BY <1>1, <1>3, <1>9 DEF ComputeNext, At, Owes, fanout
<1>10. ASSUME NEW r \in Call, WritePresence(r) \/ WriteStatus(r) PROVE FanOutOwed'
  <2>1. call[r] \in Handler /\ \E pc \in {"publish", "announce"} : call'[r] = [call[r] EXCEPT !.pc = pc]
    BY <1>0, <1>10 DEF WritePresence, WriteStatus
  <2>2. Owes(r)'
    BY <2>1 DEF Owes, At, Handler
  <2>3. QED
    BY <2>2 DEF FanOutOwed
<1>11. ASSUME NEW immediate, ScheduleFanOut(immediate), row' = row PROVE FanOutOwed'
  BY <1>11 DEF ScheduleFanOut, FanOutOwed
<1>12. ASSUME NEW r \in Call, Broadcast(r) \/ Announce(r) PROVE FanOutOwed'
  BY <1>11, <1>12 DEF Broadcast, Announce
<1>13. ASSUME NEW k \in Socket, CloseOne(k) PROVE FanOutOwed'
  BY <1>1, <1>13 DEF CloseOne, Owes, At, fanout
<1>14. CASE TimerFires
  BY <1>14 DEF TimerFires, FanOutOwed
<1>15. ASSUME NEW v \in emits, Emit(v) PROVE FanOutOwed'
  BY <1>15 DEF Emit, FanOutOwed, Owes, At
<1>16. CASE Restart
  BY <1>16 DEF Restart, Types, FanOutOwed
<1>17. CASE UNCHANGED presenceVars
  BY <1>17, <1>1 DEF presenceVars, memory, fanout, Owes, At
<1>18. QED
  BY <1>4, <1>5, <1>6, <1>7, <1>8, <1>9, <1>10, <1>12, <1>13, <1>14, <1>15, <1>16, <1>17
  DEF PresenceNext

\* While the process does not restart, the state that is current when handlers,
\* timer and fan-outs have come to rest has been handed to the outbox.
THEOREM DebounceLosesNothing == PresenceSpec => []FanOutCoversLatest
<1>1. PresenceInit => Types /\ FanOutOwed
  BY TypesInit, FanOutInit
<1>2. (Types /\ FanOutOwed) /\ [PresenceNext]_presenceVars => (Types /\ FanOutOwed)'
  BY TypesNext, FanOutNext
<1>3. Types /\ FanOutOwed => FanOutCoversLatest
  BY DEF Types, UserRow, FanOutOwed, FanOutCoversLatest, Quiet, Owes, At
<1>4. QED
  BY <1>1, <1>2, <1>3, PTL DEF PresenceSpec

-----------------------------------------------------------------------------
(* One presence handler at a time: what overlaps do is all that goes wrong.  *)

\* While a socket is open the one handler there is has not written "offline"
\* and is not about to.
ShownOnline ==
    OpenSockets # {} =>
        \A r \in Call : IF At(r, "write") THEN call[r].next # "offline"
                        ELSE At(r, "compute") \/ row.presence # "offline"

\* A status that has been read, or written and not announced, is still the row's;
\* otherwise the audience has it.
StatusKnown ==
    restarts = 0 =>
        \A r \in Call : /\ call[r].pc \in {"write", "publish", "announce"} => call[r].status = row.status
                        /\ ~At(r, "announce") => shown.status = row.status

LEMMA OpenIsCounted == ASSUME Types, Counted, OpenSockets # {} PROVE count # 0
<1>1. Cardinality(OpenSockets) # 0
  BY SocketSetsFinite, FS_EmptySet
<1>2. QED
  BY <1>1, SocketSetsFinite DEF Types, Counted

LEMMA HandlerSet ==
    ASSUME NEW slot, Call = {slot}, Types, NEW h, call' = [call EXCEPT ![slot] = h]
    PROVE  call'[slot] = h
BY DEF Types

\* The stages a handler begins in, moves on to and ends in.
LEMMA Stages ==
    ASSUME NEW slot, Call = {slot}, Types
    PROVE  /\ (\E k \in Socket : MarkConnected(slot, k)) \/ (\E f : ReportActivity(slot, f)) \/ (\E d : SetManualDnd(slot, d))
              => call'[slot].pc = "compute"
           /\ \A status : SetCustomStatus(slot, status) => call'[slot].pc = "status"
           /\ Broadcast(slot) \/ Announce(slot) => call'[slot].pc = "idle"
           /\ WritePresence(slot) =>
                call'[slot].pc = "publish" /\ call'[slot].status = call[slot].status
           /\ WriteStatus(slot) =>
                call'[slot].pc = "announce" /\ call'[slot].status = call[slot].status
<1>1. call \in [Call -> Handler] /\ call[slot] \in Handler
  BY DEF Types
<1>2. ASSUME NEW d, call' = [call EXCEPT ![slot] = [Idle EXCEPT !.pc = "compute", !.dnd = d]]
      PROVE  call'[slot].pc = "compute"
  <2>1. call'[slot] = [Idle EXCEPT !.pc = "compute", !.dnd = d]
    BY <1>2, HandlerSet
  <2>2. QED
    BY <2>1 DEF Idle
<1>3. ASSUME NEW k \in Socket, MarkConnected(slot, k) PROVE call'[slot].pc = "compute"
  BY <1>2, <1>3 DEF MarkConnected
<1>4. ASSUME NEW f, ReportActivity(slot, f) PROVE call'[slot].pc = "compute"
  BY <1>2, <1>4 DEF ReportActivity
<1>5. ASSUME NEW d, SetManualDnd(slot, d) PROVE call'[slot].pc = "compute"
  BY <1>2, <1>5 DEF SetManualDnd
<1>6. ASSUME NEW status, SetCustomStatus(slot, status) PROVE call'[slot].pc = "status"
  <2>1. call' = [call EXCEPT ![slot] = [Idle EXCEPT !.pc = "status", !.dnd = row.dnd, !.status = status]]
    BY <1>6 DEF SetCustomStatus
  <2>2. call'[slot] = [Idle EXCEPT !.pc = "status", !.dnd = row.dnd, !.status = status]
    BY <2>1, HandlerSet
  <2>3. QED
    BY <2>2 DEF Idle
<1>7. ASSUME Broadcast(slot) \/ Announce(slot) PROVE call'[slot].pc = "idle"
  <2>1. call' = [call EXCEPT ![slot] = Idle]
    BY <1>7 DEF Broadcast, Announce, Finish
  <2>2. call'[slot] = Idle
    BY <2>1, HandlerSet
  <2>3. QED
    BY <2>2 DEF Idle
<1>8. ASSUME NEW pc, call' = [call EXCEPT ![slot].pc = pc]
      PROVE  call'[slot].pc = pc /\ call'[slot].status = call[slot].status
  <2>1. call'[slot] = [call[slot] EXCEPT !.pc = pc]
    BY <1>1, <1>8
  <2>2. QED
    BY <1>1, <2>1 DEF Handler
<1>9. WritePresence(slot) => call'[slot].pc = "publish" /\ call'[slot].status = call[slot].status
  BY <1>8 DEF WritePresence
<1>10. WriteStatus(slot) => call'[slot].pc = "announce" /\ call'[slot].status = call[slot].status
  BY <1>8 DEF WriteStatus
<1>11. QED
  BY <1>3, <1>4, <1>5, <1>6, <1>7, <1>9, <1>10

\* What reading the row leaves the handler with.
LEMMA ReadRowResult ==
    ASSUME NEW slot, Call = {slot}, Types, NEW next, ReadRow(slot, next)
    PROVE  \/ row.presence = next /\ call'[slot].pc = "idle"
           \/ call'[slot].pc = "write" /\ call'[slot].next = next /\ call'[slot].status = row.status
<1>1. CASE row.presence = next
  <2>1. call'[slot] = Idle
    BY <1>1, HandlerSet DEF ReadRow
  <2>2. QED
    BY <1>1, <2>1 DEF Idle
<1>2. CASE row.presence # next
  <2>1. call'[slot] = [Idle EXCEPT !.pc = "write", !.next = next, !.status = row.status]
    BY <1>2, HandlerSet DEF ReadRow
  <2>2. QED
    BY <2>1 DEF Idle
<1>3. QED
  BY <1>1, <1>2

LEMMA ShownOnlineNext ==
    ASSUME NEW slot, Call = {slot}, Types, Counted, ShownOnline, [PresenceNext]_presenceVars
    PROVE  ShownOnline'
<1>0. row \in UserRow
  BY DEF Types
<1>1. CASE UNCHANGED <<row, call>> /\ OpenSockets' \subseteq OpenSockets
  BY <1>1 DEF ShownOnline, At
<1>2. ASSUME OpenSockets' = {} PROVE ShownOnline'
  BY <1>2 DEF ShownOnline
<1>3. ASSUME row'.presence = row.presence, ~ At(slot, "compute"), ~ At(slot, "write"), ~ At(slot, "write")',
             OpenSockets' = OpenSockets
      PROVE  ShownOnline'
  BY <1>3 DEF ShownOnline
<1>4. ASSUME call'[slot].pc = "compute" PROVE ShownOnline'
  BY <1>4 DEF ShownOnline, At
<1>5. ASSUME NEW k \in Socket, MarkConnected(slot, k) PROVE ShownOnline'
  BY <1>4, <1>5, Stages
<1>6. ASSUME NEW k \in Socket, CloseLast(slot, k) PROVE ShownOnline'
  <2>1. OpenSockets' = {}
    BY <1>6 DEF CloseLast, Types, OpenSockets
  <2>2. QED
    BY <1>2, <2>1
<1>7. ASSUME NEW flag, ReportActivity(slot, flag) PROVE ShownOnline'
  BY <1>4, <1>7, Stages
<1>8. ASSUME NEW dnd, SetManualDnd(slot, dnd) PROVE ShownOnline'
  BY <1>4, <1>8, Stages
<1>9. ASSUME NEW status, SetCustomStatus(slot, status) PROVE ShownOnline'
  <2>1. call'[slot].pc = "status"
    BY <1>9, Stages
  <2>2. UNCHANGED <<row, socket>> /\ At(slot, "idle")
    BY <1>9 DEF SetCustomStatus, memory
  <2>3. QED
    BY <1>3, <2>1, <2>2 DEF At, OpenSockets
<1>10. ASSUME ComputeNext(slot) PROVE ShownOnline'
  <2> DEFINE next == Compute(count, active, call[slot].dnd)
  <2>1. UNCHANGED <<row, socket>> /\ ReadRow(slot, next)
    BY <1>10 DEF ComputeNext, memory
  <2>2. OpenSockets' = OpenSockets
    BY <2>1 DEF OpenSockets
  <2>3. OpenSockets # {} => next # "offline"
    BY OpenIsCounted DEF Compute
  <2> HIDE DEF next
  <2>4. QED
    BY <2>1, <2>2, <2>3, ReadRowResult DEF ShownOnline, At
<1>11. ASSUME WritePresence(slot) PROVE ShownOnline'
  <2>1. row'.presence = call[slot].next /\ socket' = socket /\ At(slot, "write")
    BY <1>0, <1>11 DEF WritePresence, memory, UserRow
  <2>2. call'[slot].pc = "publish"
    BY <1>11, Stages
  <2>3. QED
    BY <2>1, <2>2 DEF ShownOnline, At, OpenSockets
<1>12. ASSUME WriteStatus(slot) PROVE ShownOnline'
  <2>1. row'.presence = row.presence /\ socket' = socket /\ At(slot, "status")
    BY <1>0, <1>12 DEF WriteStatus, memory, UserRow
  <2>2. call'[slot].pc = "announce"
    BY <1>12, Stages
  <2>3. QED
    BY <1>3, <2>1, <2>2 DEF At, OpenSockets
<1>13. ASSUME Broadcast(slot) \/ Announce(slot) PROVE ShownOnline'
  <2>1. UNCHANGED <<row, socket>> /\ (At(slot, "publish") \/ At(slot, "announce"))
    BY <1>13 DEF Broadcast, Announce, memory
  <2>2. call'[slot].pc = "idle"
    BY <1>13, Stages
  <2>3. QED
    BY <1>3, <2>1, <2>2 DEF At, OpenSockets
<1>14. ASSUME NEW k \in Socket, CloseOne(k) PROVE ShownOnline'
  <2>1. OpenSockets' \subseteq OpenSockets
    BY <1>14 DEF CloseOne, Types, OpenSockets
  <2>2. QED
    BY <1>1, <1>14, <2>1 DEF CloseOne
<1>15. CASE Restart
  <2>1. OpenSockets' = {}
    BY <1>15 DEF Restart, OpenSockets
  <2>2. QED
    BY <1>2, <2>1
<1>16. CASE TimerFires \/ (\E v \in emits : Emit(v)) \/ UNCHANGED presenceVars
  <2>1. UNCHANGED <<row, call, socket>>
    BY <1>16 DEF TimerFires, Emit, presenceVars, memory
  <2>2. QED
    BY <1>1, <2>1 DEF OpenSockets
<1>17. QED
  BY <1>5, <1>6, <1>7, <1>8, <1>9, <1>10, <1>11, <1>12, <1>13, <1>14, <1>15, <1>16 DEF PresenceNext

LEMMA StatusKnownNext ==
    ASSUME NEW slot, Call = {slot}, Types, StatusKnown, [PresenceNext]_presenceVars
    PROVE  StatusKnown'
<1>0. row \in UserRow /\ restarts \in 0..MaxRestarts
  BY DEF Types
<1>1. ASSUME UNCHANGED <<shown, restarts>>, row'.status = row.status,
             ~ At(slot, "announce"), ~ At(slot, "announce")',
             call'[slot].pc \in {"write", "publish"} => call'[slot].status = row.status
      PROVE  StatusKnown'
  BY <1>1 DEF StatusKnown, At
<1>2. CASE UNCHANGED <<row, call, shown, restarts>>
  BY <1>2 DEF StatusKnown, At
<1>3. ASSUME NEW k \in Socket, MarkConnected(slot, k) PROVE StatusKnown'
  <2>1. call'[slot].pc = "compute"
    BY <1>3, Stages
  <2>2. QED
    BY <1>1, <1>3, <2>1 DEF MarkConnected, At
<1>4. ASSUME NEW k \in Socket, CloseLast(slot, k) PROVE StatusKnown'
  <2>1. UNCHANGED <<row, shown, restarts>> /\ At(slot, "idle")
    BY <1>4 DEF CloseLast
  <2>2. CASE call' = call
    BY <1>2, <2>1, <2>2
  <2>3. CASE ReadRow(slot, "offline")
    BY <1>1, <2>1, <2>3, ReadRowResult DEF At
  <2>4. QED
    BY <1>4, <2>2, <2>3 DEF CloseLast
<1>5. ASSUME NEW flag, ReportActivity(slot, flag) PROVE StatusKnown'
  <2>1. call'[slot].pc = "compute"
    BY <1>5, Stages
  <2>2. QED
    BY <1>1, <1>5, <2>1 DEF ReportActivity, At
<1>6. ASSUME NEW dnd, SetManualDnd(slot, dnd) PROVE StatusKnown'
  <2>1. call'[slot].pc = "compute"
    BY <1>6, Stages
  <2>2. row'.status = row.status
    BY <1>0, <1>6 DEF SetManualDnd, UserRow
  <2>3. QED
    BY <1>1, <1>6, <2>1, <2>2 DEF SetManualDnd, At
<1>7. ASSUME NEW status, SetCustomStatus(slot, status) PROVE StatusKnown'
  <2>1. call'[slot].pc = "status"
    BY <1>7, Stages
  <2>2. QED
    BY <1>1, <1>7, <2>1 DEF SetCustomStatus, At
<1>8. ASSUME ComputeNext(slot) PROVE StatusKnown'
  <2> DEFINE next == Compute(count, active, call[slot].dnd)
  <2>1. UNCHANGED <<row, shown, restarts>> /\ ReadRow(slot, next) /\ At(slot, "compute")
    BY <1>8 DEF ComputeNext
  <2> HIDE DEF next
  <2>2. QED
    BY <1>1, <2>1, ReadRowResult DEF At
<1>9. ASSUME WritePresence(slot) PROVE StatusKnown'
  <2>1. row'.status = row.status /\ UNCHANGED <<shown, restarts>> /\ At(slot, "write")
    BY <1>0, <1>9 DEF WritePresence, UserRow
  <2>2. call'[slot].pc = "publish" /\ call'[slot].status = call[slot].status
    BY <1>9, Stages
  <2>3. QED
    BY <2>1, <2>2 DEF StatusKnown, At
<1>10. ASSUME WriteStatus(slot) PROVE StatusKnown'
  <2>1. row'.status = call[slot].status
    BY <1>0, <1>10 DEF WriteStatus, UserRow
  <2>2. call'[slot].pc = "announce" /\ call'[slot].status = call[slot].status
    BY <1>10, Stages
  <2>3. QED
    BY <2>1, <2>2 DEF StatusKnown, At
<1>11. ASSUME Broadcast(slot) \/ Announce(slot) PROVE StatusKnown'
  <2>1. /\ UNCHANGED <<row, restarts>> /\ shown'.status = call[slot].status
        /\ call[slot].pc \in {"publish", "announce"}
    <3>1. CASE Broadcast(slot)
      BY <3>1 DEF Broadcast, At
    <3>2. CASE Announce(slot)
      BY <3>2 DEF Announce, At
    <3>3. QED
      BY <1>11, <3>1, <3>2
  <2>2. call'[slot].pc = "idle"
    BY <1>11, Stages
  <2>3. QED
    BY <2>1, <2>2 DEF StatusKnown, At
<1>12. CASE Restart
  BY <1>0, <1>12 DEF Restart, StatusKnown
<1>13. CASE TimerFires \/ (\E v \in emits : Emit(v)) \/ (\E k \in Socket : CloseOne(k)) \/ UNCHANGED presenceVars
  BY <1>2, <1>13 DEF TimerFires, Emit, CloseOne, presenceVars, memory
<1>14. QED
  BY <1>3, <1>4, <1>5, <1>6, <1>7, <1>8, <1>9, <1>10, <1>11, <1>12, <1>13 DEF PresenceNext

\* When one presence handler runs at a time, a user with an open tab is not left
\* offline, and (until a restart) the audience is left with the status the row
\* has: both sentences of presence-service.ts are false of overlaps alone.
THEOREM SerialPresenceIsRight ==
    ASSUME NEW slot, Call = {slot}
    PROVE  PresenceSpec => [](OpenIsNotOffline /\ (restarts = 0 => AudienceSeesLiveStatus))
<1> DEFINE SerialInv == Types /\ Counted /\ ShownOnline /\ StatusKnown
<1>1. PresenceInit => SerialInv
  <2> SUFFICES ASSUME PresenceInit PROVE SerialInv
    OBVIOUS
  <2>1. OpenSockets = {} /\ call[slot].pc = "idle" /\ shown.status = row.status
    BY DEF PresenceInit, OpenSockets, Idle
  <2>2. QED
    BY <2>1, TypesInit, CountedInit DEF ShownOnline, StatusKnown, At
<1>2. SerialInv /\ [PresenceNext]_presenceVars => SerialInv'
  BY TypesNext, CountedNext, ShownOnlineNext, StatusKnownNext
<1>3. SerialInv => OpenIsNotOffline /\ (restarts = 0 => AudienceSeesLiveStatus)
  BY DEF ShownOnline, StatusKnown, OpenIsNotOffline, AudienceSeesLiveStatus, Quiet, At
<1>4. QED
  BY <1>1, <1>2, <1>3, PTL DEF PresenceSpec
=============================================================================

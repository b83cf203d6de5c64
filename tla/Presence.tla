------------------------------- MODULE Presence -------------------------------
(***************************************************************************)
(* The presence of one user (apps/api/src/services/presence-service.ts):    *)
(* the socket count and activity flag kept in memory, the row in Postgres,  *)
(* the PRESENCE_UPDATE broadcasts, and the debounced fan-out to federation  *)
(* peers.  Sockets are what gateway/index.ts registers and closes.          *)
(*                                                                          *)
(* A handler runs in a slot of Call and is split at its awaits: a step is   *)
(* the code after an await together with the next database statement.       *)
(* A peer the enqueue of which throws is logged and skipped, a user may opt *)
(* out of federated presence: neither is modelled.                          *)
(***************************************************************************)
EXTENDS Naturals, FiniteSets

CONSTANTS
    Call,          \* slots for the handlers running at the same time
    Socket,        \* gateway sockets of the user
    Status,        \* custom statuses
    NoStatus,      \* a cleared custom status
    MaxWrites,     \* bound: writes of the row in one behaviour
    MaxRestarts    \* bound: restarts of the API process

ASSUME PresenceAssumption ==
    /\ IsFiniteSet(Socket)
    /\ NoStatus \in Status
    /\ MaxWrites \in Nat
    /\ MaxRestarts \in Nat

VARIABLES
    socket,     \* socket[k]: "new", "open" (identified) or "closed"
    count,      \* openSocketsByUser
    active,     \* clientActiveByUser: "unset", "yes" or "no"
    row,        \* the user row; `version` stands for presenceUpdatedAt
    shown,      \* the last PRESENCE_UPDATE the user's audience was sent
    call,       \* call[r]: the handler running in slot r
    timer,      \* debouncedFanOut has an entry
    emits,      \* fan-outs in flight, by the version they have read
    sent,       \* versions that have been handed to the outbox
    restarts    \* restarts so far

presenceVars == <<socket, count, active, row, shown, call, timer, emits, sent, restarts>>
memory == <<socket, count, active>>
fanout == <<timer, emits, sent>>

-----------------------------------------------------------------------------
OpenSockets == {k \in Socket : socket[k] = "open"}
PresenceValue == {"active", "idle", "dnd", "offline"}
UserRow == [presence : PresenceValue, dnd : BOOLEAN, status : Status, version : 0..MaxWrites]
Handler == [pc : {"idle", "compute", "write", "publish", "status", "announce"},
            dnd : BOOLEAN, next : PresenceValue, status : Status]

Idle == [pc |-> "idle", dnd |-> FALSE, next |-> "offline", status |-> NoStatus]
At(r, pc) == call[r].pc = pc
Finish(r) == call' = [call EXCEPT ![r] = Idle]

\* compute: the effective presence.
Compute(n, flag, dnd) ==
    IF n = 0 THEN "offline"
    ELSE IF dnd THEN "dnd"
    ELSE IF flag = "no" THEN "idle" ELSE "active"

\* persistAndBroadcast reads the row: nothing to do if it already says `next`.
ReadRow(r, next) ==
    call' = [call EXCEPT ![r] =
                IF row.presence = next THEN Idle
                ELSE [Idle EXCEPT !.pc = "write", !.next = next, !.status = row.status]]

PresenceInit ==
    /\ socket = [k \in Socket |-> "new"]
    /\ count = 0
    /\ active = "unset"
    /\ row = [presence |-> "offline", dnd |-> FALSE, status |-> NoStatus, version |-> 0]
    /\ shown = [presence |-> "offline", status |-> NoStatus]
    /\ call = [r \in Call |-> Idle]
    /\ timer = FALSE
    /\ emits = {}
    /\ sent = {}
    /\ restarts = 0

-----------------------------------------------------------------------------
(* -- the gateway's calls -------------------------------------------------- *)

\* Mutant: the entry is created but an existing one is not incremented.
MarkConnectedUncounted(r, k) ==
    /\ At(r, "idle")
    /\ socket[k] = "new"
    /\ socket' = [socket EXCEPT ![k] = "open"]
    /\ count' = IF count = 0 THEN 1 ELSE count
    /\ active' = IF active = "unset" THEN "yes" ELSE active
    /\ call' = [call EXCEPT ![r] = [Idle EXCEPT !.pc = "compute", !.dnd = row.dnd]]
    /\ UNCHANGED <<row, shown, fanout, restarts>>

\* IDENTIFY or RESUME registers a socket and runs markConnected.
MarkConnected(r, k) ==
    /\ At(r, "idle")
    /\ socket[k] = "new"
    /\ socket' = [socket EXCEPT ![k] = "open"]
    /\ count' = count + 1
    /\ active' = IF active = "unset" THEN "yes" ELSE active
    /\ call' = [call EXCEPT ![r] = [Idle EXCEPT !.pc = "compute", !.dnd = row.dnd]]
    /\ UNCHANGED <<row, shown, fanout, restarts>>

\* The socket closes and others remain: the service is not told.
CloseOne(k) ==
    /\ socket[k] = "open"
    /\ OpenSockets # {k}
    /\ socket' = [socket EXCEPT ![k] = "closed"]
    /\ UNCHANGED <<count, active, row, shown, call, fanout, restarts>>

\* The last socket closes: markDisconnected.
CloseLast(r, k) ==
    /\ At(r, "idle")
    /\ OpenSockets = {k}
    /\ socket' = [socket EXCEPT ![k] = "closed"]
    /\ count' = IF count = 0 THEN 0 ELSE count - 1
    /\ IF count' = 0
       THEN active' = "unset" /\ ReadRow(r, "offline")
       ELSE UNCHANGED <<active, call>>
    /\ UNCHANGED <<row, shown, fanout, restarts>>

(* -- PATCH /api/me/presence ----------------------------------------------- *)

\* reportActivity.
ReportActivity(r, flag) ==
    /\ At(r, "idle")
    /\ active' = flag
    /\ call' = [call EXCEPT ![r] = [Idle EXCEPT !.pc = "compute", !.dnd = row.dnd]]
    /\ UNCHANGED <<socket, count, row, shown, fanout, restarts>>

\* setManualDnd.
SetManualDnd(r, dnd) ==
    /\ At(r, "idle")
    /\ row' = [row EXCEPT !.dnd = dnd]
    /\ call' = [call EXCEPT ![r] = [Idle EXCEPT !.pc = "compute", !.dnd = dnd]]
    /\ UNCHANGED <<memory, shown, fanout, restarts>>

\* setCustomStatus, and clearCustomStatus with NoStatus: read manualDnd ...
SetCustomStatus(r, status) ==
    /\ At(r, "idle")
    /\ call' = [call EXCEPT ![r] = [Idle EXCEPT !.pc = "status", !.dnd = row.dnd, !.status = status]]
    /\ UNCHANGED <<memory, row, shown, fanout, restarts>>

\* ... then write the status.
WriteStatus(r) ==
    /\ At(r, "status")
    /\ row.version < MaxWrites
    /\ row' = [row EXCEPT !.status = call[r].status, !.version = @ + 1]
    /\ call' = [call EXCEPT ![r].pc = "announce"]
    /\ UNCHANGED <<memory, shown, fanout, restarts>>

(* -- federation fan-out --------------------------------------------------- *)

\* Mutant: a fan-out that is still running counts as scheduled.
ScheduleUnlessEmitting(immediate) ==
    /\ UNCHANGED sent
    /\ IF immediate THEN timer' = FALSE /\ emits' = emits \cup {row.version}
       ELSE timer' = (emits = {}) /\ UNCHANGED emits

\* scheduleFanOut: at once, superseding the timer, or debounced.
ScheduleFanOut(immediate) ==
    /\ UNCHANGED sent
    /\ IF immediate THEN timer' = FALSE /\ emits' = emits \cup {row.version}
       ELSE timer' = TRUE /\ UNCHANGED emits

\* The debounce window ends: emitFanOut reads the row.
TimerFires ==
    /\ timer
    /\ timer' = FALSE
    /\ emits' = emits \cup {row.version}
    /\ UNCHANGED <<memory, row, shown, call, sent, restarts>>

\* The peers have been looked up: one envelope each is enqueued.
Emit(v) ==
    /\ v \in emits
    /\ emits' = emits \ {v}
    /\ sent' = sent \cup {v}
    /\ UNCHANGED <<memory, row, shown, call, timer, restarts>>

(* -- the rest of the handlers --------------------------------------------- *)

\* compute, and the read of persistAndBroadcast.
ComputeNext(r) ==
    /\ At(r, "compute")
    /\ ReadRow(r, Compute(count, active, call[r].dnd))
    /\ UNCHANGED <<memory, row, shown, fanout, restarts>>

\* persistAndBroadcast updates the row ...
WritePresence(r) ==
    /\ At(r, "write")
    /\ row.version < MaxWrites
    /\ row' = [row EXCEPT !.presence = call[r].next, !.version = @ + 1]
    /\ call' = [call EXCEPT ![r].pc = "publish"]
    /\ UNCHANGED <<memory, shown, fanout, restarts>>

\* ... broadcasts what it wrote and the status it had read, and schedules the
\* fan-out, at once if the user went offline.
Broadcast(r) ==
    /\ At(r, "publish")
    /\ shown' = [presence |-> call[r].next, status |-> call[r].status]
    /\ ScheduleFanOut(call[r].next = "offline")
    /\ Finish(r)
    /\ UNCHANGED <<memory, row, restarts>>

\* setCustomStatus broadcasts the status it wrote.
Announce(r) ==
    /\ At(r, "announce")
    /\ shown' = [presence |-> Compute(count, active, call[r].dnd), status |-> call[r].status]
    /\ ScheduleFanOut(TRUE)
    /\ Finish(r)
    /\ UNCHANGED <<memory, row, restarts>>

\* The API process restarts: sockets break, memory and handlers are gone.
Restart ==
    /\ restarts < MaxRestarts
    /\ restarts' = restarts + 1
    /\ socket' = [k \in Socket |-> IF socket[k] = "open" THEN "closed" ELSE socket[k]]
    /\ count' = 0
    /\ active' = "unset"
    /\ call' = [r \in Call |-> Idle]
    /\ timer' = FALSE
    /\ emits' = {}
    /\ UNCHANGED <<row, shown, sent>>

-----------------------------------------------------------------------------
PresenceNext ==
    \/ \E r \in Call :
        \/ \E k \in Socket : MarkConnected(r, k) \/ CloseLast(r, k)
        \/ \E flag \in {"yes", "no"} : ReportActivity(r, flag)
        \/ \E dnd \in BOOLEAN : SetManualDnd(r, dnd)
        \/ \E status \in Status : SetCustomStatus(r, status)
        \/ ComputeNext(r) \/ WritePresence(r) \/ Broadcast(r)
        \/ WriteStatus(r) \/ Announce(r)
    \/ \E k \in Socket : CloseOne(k)
    \/ TimerFires
    \/ \E v \in emits : Emit(v)
    \/ Restart

PresenceSpec == PresenceInit /\ [][PresenceNext]_presenceVars

-----------------------------------------------------------------------------
(* Properties.                                                               *)

PresenceTypeOK ==
    /\ socket \in [Socket -> {"new", "open", "closed"}]
    /\ count \in 0..Cardinality(Socket)
    /\ active \in {"unset", "yes", "no"}
    /\ row \in UserRow
    /\ shown \in [presence : PresenceValue, status : Status]
    /\ call \in [Call -> Handler]
    /\ timer \in BOOLEAN
    /\ emits \subseteq 0..MaxWrites
    /\ sent \subseteq 0..MaxWrites
    /\ restarts \in 0..MaxRestarts

\* No handler is running.
Quiet == \A r \in Call : At(r, "idle")

\* The count never falls below the number of open sockets, so `compute` never
\* says offline while a tab is open (markConnected, 267-268; markDisconnected,
\* 287-295, as gateway/index.ts:251-264 calls it).
CountCoversOpenSockets == count >= Cardinality(OpenSockets)

\* Debouncing loses nothing: once handlers, timer and fan-outs are done, the
\* version of the row that is current has been handed to the outbox, however
\* flaps, immediate fan-outs and slow peer lookups overlap (83-109, 257-259),
\* unless the process restarts.
FanOutCoversLatest ==
    Quiet /\ ~timer /\ emits = {} /\ row.version > 0 /\ restarts = 0 => row.version \in sent

\* "All sockets closed -> `offline`" (18), once nothing is in flight.
AllClosedIsOffline ==
    Quiet /\ OpenSockets = {} => row.presence = "offline"

\* "At least one socket open AND ..." (19-21): never offline then.
OpenIsNotOffline ==
    Quiet /\ OpenSockets # {} => row.presence # "offline"

\* "every PRESENCE_UPDATE we publish reflects the LIVE custom-status" (235): the
\* audience is left with the status the row has.
AudienceSeesLiveStatus == Quiet => shown.status = row.status
=============================================================================

------------------------------- MODULE WebStore -------------------------------
(***************************************************************************)
(* What one tab of the web client shows (apps/web/src/lib/store.ts), kept by *)
(* two sources that nothing orders: answers to GET requests, and dispatches  *)
(* of the gateway (lib/realtime.ts).  Two lists are modelled, of one server  *)
(* and of one text channel; a behaviour follows one of them, `view`:          *)
(*   "members"   the roster, fetched by ensureMembers, which the sidebars     *)
(*               share; MEMBER_REMOVE is spliced in, MEMBER_ADD refetches;     *)
(*   "messages"  the messages, fetched by MessageList each time the channel   *)
(*               is shown; MESSAGE_CREATE, UPDATE and DELETE are applied.     *)
(*                                                                          *)
(* The API commits a change in its handler and publishes it afterwards, so   *)
(* the events of two handlers may cross.  The connection is up throughout    *)
(* (Gateway models it) and everything fits on one page of messages.  Thread  *)
(* panels fetch and apply as MessageList does.                               *)
(***************************************************************************)
EXTENDS Integers, Sequences, FiniteSets

CONSTANTS
    Item,           \* the users, or the messages
    MaxChanges,     \* bound: changes committed by the API
    MaxReplies,     \* bound: rebroadcasts of a message whose thread got a reply
    MaxOpens,       \* bound: times a component asks for the list
    MaxFailures     \* bound: GET requests that fail

ASSUME WebStoreAssumption ==
    MaxChanges \in Nat /\ MaxReplies \in Nat /\ MaxOpens \in Nat /\ MaxFailures \in Nat

VARIABLES
    view,       \* the list this behaviour is about
    rows,       \* rows[x]: the API's row of x
    late,       \* events of committed changes, not yet written to the socket
    stream,     \* dispatches on their way to the tab, oldest first
    list,       \* list[x]: what the tab shows of x
    cached,     \* the store has a list, which may be empty
    load,       \* membersLoadByServer, or the state of MessageList's last GET
    gets,       \* the GET requests in flight
    chained,    \* forced fetches that wait for the one in flight
    shown,      \* MessageList is mounted for the channel
    seen,       \* history: seen[x]: the newest change of x that was dispatched
    overtaken,  \* history: items a dispatch was about that the answer at hand does not know
    stale,      \* history: what a word that came too late has made wrong
    changes, replies, opens, failures   \* counts for the bounds; changes number the events

storeVars == <<view, rows, late, stream, list, cached, load, gets, chained, shown, seen, overtaken,
          stale, changes, replies, opens, failures>>
api == <<rows, late, changes, replies>>
tab == <<list, cached, shown, seen, overtaken, stale>>

-----------------------------------------------------------------------------
\* A row is known by the number of the change that wrote it.
Absent == 0
Gone == -1      \* a deleted message
Row == -1..MaxChanges
Nothing == [x \in Item |-> Absent]
Event == [kind : {"put", "remove"}, item : Item, number : 0..MaxChanges]
Get == [id : Nat, phase : {"asked", "answered"}, list : [Item -> Row], upto : 0..MaxChanges,
        cancelled : BOOLEAN]

StoreInit ==
    /\ view \in {"members", "messages"}
    /\ rows = Nothing
    /\ late = {}
    /\ stream = <<>>
    /\ list = Nothing
    /\ cached = FALSE
    /\ load = "idle"
    /\ gets = {}
    /\ chained = 0
    /\ shown = FALSE
    /\ seen = [x \in Item |-> 0]
    /\ overtaken = {}
    /\ stale = {}
    /\ changes = 0
    /\ replies = 0
    /\ opens = 0
    /\ failures = 0

-----------------------------------------------------------------------------
(* -- the API: commit, then publish ----------------------------------------- *)

Commit(x, kind, row) ==
    /\ changes < MaxChanges
    /\ changes' = changes + 1
    /\ rows' = [rows EXCEPT ![x] = row]
    /\ late' = late \cup {[kind |-> kind, item |-> x, number |-> changes + 1]}
    /\ UNCHANGED <<view, stream, tab, load, gets, chained, replies, opens, failures>>

\* A user joins, a message is posted.
Add(x) ==
    /\ rows[x] = Absent
    /\ Commit(x, "put", changes + 1)

Edit(x) ==
    /\ view = "messages"
    /\ rows[x] > 0
    /\ Commit(x, "put", changes + 1)

\* A user leaves or is removed, and may join again; a message is deleted for good.
Remove(x) ==
    /\ rows[x] > 0
    /\ Commit(x, "remove", IF view = "members" THEN Absent ELSE Gone)

\* A reply in a message's thread: the root is read, and published as an update.
Rebroadcast(x) ==
    /\ view = "messages"
    /\ rows[x] > 0
    /\ replies < MaxReplies
    /\ replies' = replies + 1
    /\ late' = late \cup {[kind |-> "put", item |-> x, number |-> rows[x]]}
    /\ UNCHANGED <<view, rows, changes, stream, tab, load, gets, chained, opens, failures>>

\* Handlers publish, and fan-outs reach the socket, in any order.
Publish(e) ==
    /\ late' = late \ {e}
    /\ stream' = Append(stream, e)
    /\ UNCHANGED <<view, rows, changes, replies, tab, load, gets, chained, opens, failures>>

\* A GET is answered with the rows at that moment.
Answer(g) ==
    /\ g.phase = "asked"
    /\ gets' = (gets \ {g}) \cup
         {[g EXCEPT !.phase = "answered", !.upto = changes,
                    !.list = [x \in Item |-> IF rows[x] > 0 THEN rows[x] ELSE Absent]]}
    /\ overtaken' = IF g.cancelled THEN overtaken ELSE {}
    /\ UNCHANGED <<view, api, stream, list, cached, shown, seen, stale, load, chained,
                   opens, failures>>

-----------------------------------------------------------------------------
(* -- requests of the tab --------------------------------------------------- *)

Asked == [id |-> CHOOSE i \in 1..(Cardinality(gets) + 1) : \A g \in gets : g.id # i,
          phase |-> "asked", list |-> Nothing, upto |-> 0, cancelled |-> FALSE]

\* membersInFlight holds a promise.
InFlight == gets # {} \/ chained > 0

\* ensureMembers: nothing when loaded, or when a fetch is in flight already; a
\* forced fetch runs whatever is loaded, after the one in flight.
EnsureMembers(force) ==
    IF ~force /\ (load = "loaded" \/ InFlight)
    THEN UNCHANGED <<load, gets, chained>>
    ELSE /\ load' = "loading"
         /\ IF InFlight
            THEN chained' = chained + 1 /\ UNCHANGED gets
            ELSE gets' = gets \cup {Asked} /\ UNCHANGED chained

\* A sidebar mounts.
OpenRoster ==
    /\ view = "members"
    /\ opens < MaxOpens
    /\ opens' = opens + 1
    /\ EnsureMembers(FALSE)
    /\ UNCHANGED <<view, api, stream, tab, failures>>

\* MessageList mounts for the channel: it fetches whatever is in the store.
ShowRoom ==
    /\ view = "messages"
    /\ ~shown
    /\ opens < MaxOpens
    /\ opens' = opens + 1
    /\ shown' = TRUE
    /\ load' = "loading"
    /\ gets' = gets \cup {Asked}
    /\ UNCHANGED <<view, api, stream, list, cached, chained, seen, overtaken, stale,
                   failures>>

\* Mutant: the effect has no cleanup.
HideRoomKeepsFetch ==
    /\ shown
    /\ shown' = FALSE
    /\ load' = "idle"
    /\ UNCHANGED <<view, api, stream, list, cached, gets, chained, seen, overtaken, stale,
                   opens, failures>>

\* It unmounts, or moves to another channel: the cleanup cancels its fetch.
HideRoom ==
    /\ shown
    /\ shown' = FALSE
    /\ load' = "idle"
    /\ gets' = {[g EXCEPT !.cancelled = TRUE] : g \in gets}
    /\ UNCHANGED <<view, api, stream, list, cached, chained, seen, overtaken, stale,
                   opens, failures>>

\* The fetch is over, and a chained one begins.
Settled(g) ==
    LET others == gets \ {g} IN
    /\ gets' = IF chained > 0
               THEN others \cup {[Asked EXCEPT !.id = g.id]}
               ELSE others
    /\ chained' = IF chained > 0 THEN chained - 1 ELSE 0

\* The answer replaces the list; what was dispatched after it was read is undone.
Apply(g) ==
    /\ g.phase = "answered"
    /\ Settled(g)
    /\ IF g.cancelled
       THEN UNCHANGED <<list, cached, load, stale>>
       ELSE /\ list' = g.list
            /\ cached' = TRUE
            /\ load' = "loaded"
            /\ stale' = overtaken
    /\ UNCHANGED <<view, api, stream, shown, seen, overtaken, opens, failures>>

\* Mutant: the load state is left as it was.
FailSilently(g) ==
    /\ failures < MaxFailures
    /\ failures' = failures + 1
    /\ Settled(g)
    /\ UNCHANGED <<view, api, stream, tab, load, opens>>

\* The GET fails: the list stays as it is.
Fail(g) ==
    /\ failures < MaxFailures
    /\ failures' = failures + 1
    /\ Settled(g)
    /\ load' = IF g.cancelled THEN load ELSE "error"
    /\ UNCHANGED <<view, api, stream, tab, opens>>

-----------------------------------------------------------------------------
(* -- dispatches ------------------------------------------------------------ *)

\* Mutant: the refetch is not forced, so a loaded roster is kept.
OnMemberAddUnforced(e) ==
    /\ IF cached /\ load # "loading"
       THEN EnsureMembers(FALSE)
       ELSE UNCHANGED <<load, gets, chained>>
    /\ UNCHANGED <<list, cached>>

\* MEMBER_ADD says who joined, not what to show: an open roster is fetched again,
\* unless a fetch is running.
OnMemberAdd(e) ==
    /\ IF cached /\ load # "loading"
       THEN EnsureMembers(TRUE)
       ELSE UNCHANGED <<load, gets, chained>>
    /\ UNCHANGED <<list, cached>>

\* removeMember, removeMessage.
OnRemove(e) ==
    /\ list' = [list EXCEPT ![e.item] = Absent]
    /\ cached' = (cached \/ view = "messages")
    /\ UNCHANGED <<load, gets, chained>>

\* upsertMessage: by id, whichever of the two is newer.
OnMessage(e) ==
    /\ list' = [list EXCEPT ![e.item] = e.number]
    /\ cached' = TRUE
    /\ UNCHANGED <<load, gets, chained>>

\* The history.  A live answer was read before e's change and is not applied yet.
Overtakes(e) == \E g \in gets : g.phase = "answered" /\ ~g.cancelled /\ e.number > g.upto
\* e comes after a newer event of its item and takes the list back, or brings it forward;
\* MEMBER_ADD does neither.
Judged(e) ==
    /\ overtaken' = IF Overtakes(e) THEN overtaken \cup {e.item} ELSE overtaken
    /\ seen' = [seen EXCEPT ![e.item] = IF e.number > @ THEN e.number ELSE @]
    /\ stale' = IF view = "members" /\ e.kind = "put" THEN stale
                ELSE IF e.number < seen[e.item] THEN stale \cup {e.item} ELSE stale \ {e.item}

Dispatch ==
    /\ stream # <<>>
    /\ stream' = Tail(stream)
    /\ LET e == Head(stream) IN
       /\ Judged(e)
       /\ IF e.kind = "remove" THEN OnRemove(e)
          ELSE IF view = "members" THEN OnMemberAdd(e) ELSE OnMessage(e)
    /\ UNCHANGED <<view, api, shown, opens, failures>>

StoreNext ==
    \/ \E x \in Item : Add(x) \/ Edit(x) \/ Remove(x) \/ Rebroadcast(x)
    \/ \E e \in late : Publish(e)
    \/ \E g \in gets : Answer(g) \/ Apply(g) \/ Fail(g)
    \/ OpenRoster
    \/ ShowRoom
    \/ HideRoom
    \/ Dispatch

StoreSpec == StoreInit /\ [][StoreNext]_storeVars

\* Requests end, answered or failed.
StoreFairSpec == StoreSpec /\ WF_storeVars(\E g \in gets : Answer(g)) /\ WF_storeVars(\E g \in gets : Apply(g))

-----------------------------------------------------------------------------
(* -- properties ------------------------------------------------------------ *)

\* Types of the tab's state and of what is under way.
StoreTypeOK ==
    /\ rows \in [Item -> Row]
    /\ list \in [Item -> Row]
    /\ late \subseteq Event
    /\ stream \in Seq(Event)
    /\ gets \subseteq Get
    /\ load \in {"idle", "loading", "loaded", "error"}
    /\ chained \in Nat
    /\ seen \in [Item -> 0..MaxChanges]
    /\ stale \subseteq Item
    /\ overtaken \subseteq Item

\* Nothing is under way to the tab.
AtRest == late = {} /\ stream = <<>> /\ \A g \in gets : g.cancelled

\* A loaded roster is the server's, but for a user whose join or removal was dispatched
\* between the reading and the applying of the last answer, or whose removal was
\* published after a later return.
RosterIsCurrent ==
    view = "members" /\ AtRest /\ load = "loaded" =>
        \A x \in Item \ stale : list[x] > 0 <=> rows[x] > 0

\* The messages on screen are those of the channel in their last version, but for one
\* changed between the reading and the applying of the last answer, or whose last
\* two events crossed.
RoomIsCurrent ==
    view = "messages" /\ AtRest /\ load = "loaded" =>
        \A x \in Item \ stale :
            list[x] = IF rows[x] > 0 THEN rows[x] ELSE Absent

\* A spinner ends, whether the request fails, is cancelled or is answered.
LoadingEnds == load = "loading" ~> load # "loading"

=============================================================================

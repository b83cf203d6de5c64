------------------------------ MODULE FederatedDm ------------------------------
(***************************************************************************)
(* A direct message channel between two users of two instances: each end     *)
(* opens it with POST /dms/direct (routes/dms.ts, services/dm-service.ts),   *)
(* tells the other with dm.create and sends dm.message.create through the    *)
(* outbox; federation-inbound.ts applies both.  The two ends never agree on  *)
(* an id: the first one a row is inserted under wins on its instance, by the *)
(* unique pair key.                                                          *)
(*                                                                          *)
(* Both instances advertise the dms capability and each user's mirror exists *)
(* and shares a tavern.  Group DMs do not federate.  Edits and deletes of DM *)
(* messages are in FederatedMessage.                                         *)
(***************************************************************************)
EXTENDS Naturals

CONSTANTS
    Instance,       \* the two instances
    Attempts,       \* attempts of an outbox job (queues.ts)
    MaxOpens,       \* bound: open requests
    MaxPosts,       \* bound: messages
    MaxToggles,     \* bound: changes of acceptsFederatedDms
    MaxFailures,    \* bound: attempts that end without an answer
    MaxCrashes      \* bound: crashes of an API process

ASSUME FederatedDmAssumption ==
    /\ \E i, j \in Instance : i # j /\ Instance = {i, j}
    /\ Attempts \in Nat \ {0}
    /\ {MaxOpens, MaxPosts, MaxToggles, MaxFailures, MaxCrashes} \subseteq Nat

VARIABLES
    channels,    \* channels[i]: ids of the DmChannel rows of the pair at i
    messages,    \* messages[i]: the message rows at i
    accepts,     \* accepts[i]: acceptsFederatedDms of the user at i
    opens,       \* POST /dms/direct handlers past their gates
    fanouts,     \* posted messages whose dm.message.create is not enqueued yet
    outbox,      \* outbox jobs, finished ones included
    net,         \* envelopes on their way or being handled
    answered,    \* history: the ids each instance answered its user's opens with
    cut,         \* history: instances whose process died over an open
    opened, posted, toggles, failures, crashes    \* counts for the bounds

vars == <<channels, messages, accepts, opens, fanouts, outbox, net, answered, cut,
          opened, posted, toggles, failures, crashes>>
counts == <<opened, posted, toggles, failures, crashes>>
rows == <<channels, messages, accepts>>

-----------------------------------------------------------------------------
\* A channel id is the ULID its open minted; message 0 stands for dm.create.
Id == Instance \X (1..MaxOpens)
Message == [n : 1..MaxPosts, author : Instance, chan : Id]
Open == [at : Instance, n : 1..MaxOpens, step : {"lookup", "insert", "tell"}, id : Id]
Job == [from : Instance, chan : Id, msg : 0..MaxPosts,
        state : {"waiting", "active", "completed", "failed"}, tries : 0..Attempts]
Envelope == [from : Instance, chan : Id, msg : 0..MaxPosts, attempt : 0..Attempts,
             checked : BOOLEAN]

Other(i) == CHOOSE j \in Instance : j # i
Row(m) == [n |-> m.msg, author |-> m.from, chan |-> m.chan]
SameJob(j, k) == <<j.from, j.chan, j.msg>> = <<k.from, k.chan, k.msg>>
Carries(m, j) == SameJob(m, j) /\ j.state = "active" /\ j.tries = m.attempt

\* BullMQ ignores a job whose id it still has, waiting or finished.
Enqueue(i, chan, msg) ==
    LET job == [from |-> i, chan |-> chan, msg |-> msg, state |-> "waiting", tries |-> 0] IN
    outbox' = IF \E k \in outbox : SameJob(job, k) THEN outbox ELSE outbox \cup {job}

Init ==
    /\ channels = [i \in Instance |-> {}]
    /\ messages = [i \in Instance |-> {}]
    /\ accepts \in [Instance -> BOOLEAN]
    /\ opens = {} /\ fanouts = {} /\ outbox = {} /\ net = {}
    /\ answered = [i \in Instance |-> {}]
    /\ cut = {}
    /\ opened = 0 /\ posted = 0 /\ toggles = 0 /\ failures = 0 /\ crashes = 0

-----------------------------------------------------------------------------
(* -- POST /dms/direct -------------------------------------------------------- *)

\* The gates have passed; the handler mints its id when it needs one.
OpenStart(i) ==
    /\ opened < MaxOpens
    /\ opened' = opened + 1
    /\ opens' = opens \cup {[at |-> i, n |-> opened', step |-> "lookup", id |-> <<i, opened'>>]}
    /\ UNCHANGED <<rows, fanouts, outbox, net, answered, cut, posted, toggles, failures, crashes>>

Moves(o, step, id) == opens' = (opens \ {o}) \cup {[o EXCEPT !.step = step, !.id = id]}

\* findOrCreateDirectDm: the row of the pair key, if there is one ...
OpenLookup(o) ==
    /\ o \in opens /\ o.step = "lookup"
    /\ \/ \E id \in channels[o.at] : Moves(o, "tell", id)
       \/ channels[o.at] = {} /\ Moves(o, "insert", o.id)
    /\ UNCHANGED <<rows, fanouts, outbox, net, answered, cut, counts>>

\* Mutant: the unique violation is swallowed and the minted id is kept.
OpenInsertKeepsOwnId(o) ==
    /\ o \in opens /\ o.step = "insert"
    /\ Moves(o, "tell", o.id)
    /\ channels' = [channels EXCEPT ![o.at] = IF @ = {} THEN {o.id} ELSE @]
    /\ UNCHANGED <<messages, accepts, fanouts, outbox, net, answered, cut, counts>>

\* ... else a new row; a unique violation (P2002) fetches the winner.
OpenInsert(o) ==
    /\ o \in opens /\ o.step = "insert"
    /\ \/ /\ channels[o.at] = {}
          /\ channels' = [channels EXCEPT ![o.at] = {o.id}]
          /\ Moves(o, "tell", o.id)
       \/ /\ \E id \in channels[o.at] : Moves(o, "tell", id)
          /\ UNCHANGED channels
    /\ UNCHANGED <<messages, accepts, fanouts, outbox, net, answered, cut, counts>>

\* Mutant: dm.create is sent only by the open that created the row.
OpenTellOnce(o) ==
    /\ o \in opens /\ o.step = "tell"
    /\ opens' = opens \ {o}
    /\ IF o.id = <<o.at, o.n>> THEN Enqueue(o.at, o.id, 0) ELSE UNCHANGED outbox
    /\ answered' = [answered EXCEPT ![o.at] = @ \cup {o.id}]
    /\ cut' = cut \ {o.at}
    /\ UNCHANGED <<rows, fanouts, net, counts>>

\* Mutant: the peer is told the minted id, not the channel's.
OpenTellsMintedId(o) ==
    /\ o \in opens /\ o.step = "tell"
    /\ opens' = opens \ {o}
    /\ Enqueue(o.at, <<o.at, o.n>>, 0)
    /\ answered' = [answered EXCEPT ![o.at] = @ \cup {o.id}]
    /\ cut' = cut \ {o.at}
    /\ UNCHANGED <<rows, fanouts, net, counts>>

\* DM_CHANNEL_CREATE, fanOutDmCreate under the job id dmChannelId, the answer.
OpenTell(o) ==
    /\ o \in opens /\ o.step = "tell"
    /\ opens' = opens \ {o}
    /\ Enqueue(o.at, o.id, 0)
    /\ answered' = [answered EXCEPT ![o.at] = @ \cup {o.id}]
    /\ cut' = cut \ {o.at}
    /\ UNCHANGED <<rows, fanouts, net, counts>>

(* -- POST /dms/:id/messages --------------------------------------------------- *)

\* The member posts to the channel; the fan-out follows the commit.
Post(i, chan) ==
    /\ chan \in channels[i]
    /\ posted < MaxPosts
    /\ posted' = posted + 1
    /\ messages' = [messages EXCEPT ![i] = @ \cup {[n |-> posted', author |-> i, chan |-> chan]}]
    /\ fanouts' = fanouts \cup {[n |-> posted', author |-> i, chan |-> chan]}
    /\ UNCHANGED <<channels, accepts, opens, outbox, net, answered, cut, opened, toggles, failures, crashes>>

\* fanOutDmMessageCreate under the job id messageId.
FanOut(f) ==
    /\ f \in fanouts
    /\ fanouts' = fanouts \ {f}
    /\ Enqueue(f.author, f.chan, f.n)
    /\ UNCHANGED <<rows, opens, net, answered, cut, counts>>

\* PATCH of the profile: the user changes acceptsFederatedDms.
Toggle(i) ==
    /\ toggles < MaxToggles
    /\ toggles' = toggles + 1
    /\ accepts' = [accepts EXCEPT ![i] = ~@]
    /\ UNCHANGED <<channels, messages, opens, fanouts, outbox, net, answered, cut, opened, posted, failures, crashes>>

(* -- the outbox worker --------------------------------------------------------- *)

\* Up to four jobs are dispatched at a time, in any order.
Dispatch(j) ==
    /\ j \in outbox /\ j.state = "waiting"
    /\ outbox' = (outbox \ {j}) \cup {[j EXCEPT !.state = "active"]}
    /\ net' = net \cup {[from |-> j.from, chan |-> j.chan, msg |-> j.msg,
                         attempt |-> j.tries, checked |-> FALSE]}
    /\ UNCHANGED <<rows, opens, fanouts, answered, cut, counts>>

\* A timeout, a network error or a 5xx; the peer may handle the envelope still.
NoAnswer(j, dropped) ==
    LET tries == j.tries + 1 IN
    /\ j \in outbox /\ j.state = "active"
    /\ failures < MaxFailures
    /\ failures' = failures + 1
    /\ outbox' = (outbox \ {j}) \cup
        {[j EXCEPT !.tries = tries, !.state = IF tries < Attempts THEN "waiting" ELSE "failed"]}
    /\ net' = IF dropped THEN {m \in net : ~Carries(m, j)} ELSE net
    /\ UNCHANGED <<rows, opens, fanouts, answered, cut, opened, posted, toggles, crashes>>

(* -- POST /_federation/event ----------------------------------------------------- *)

\* 2xx completes the job, 4xx fails it for good.
Answer(m, state) ==
    /\ net' = net \ {m}
    /\ outbox' = {IF Carries(m, j) THEN [j EXCEPT !.state = state] ELSE j : j \in outbox}

\* Mutant: a message needs no channel.
RefusedNeedsNoChannel(m) ==
    LET to == Other(m.from) IN m.msg = 0 /\ (~accepts[to] \/ channels[to] \ {m.chan} # {})

\* 403 recipient_refuses_federated_dms and 409 dm_channel_conflict; 404
\* unknown_dm_channel.
Refused(m) ==
    LET to == Other(m.from) IN
    IF m.msg = 0 THEN ~accepts[to] \/ channels[to] \ {m.chan} # {}
    ELSE m.chan \notin channels[to]

\* The channel, or the message, is there: 200, deduplicated.
Known(m) ==
    LET to == Other(m.from) IN
    IF m.msg = 0 THEN m.chan \in channels[to]
    ELSE \E row \in messages[to] : row.n = m.msg

\* Mutant: the envelope is acknowledged before the row is written.
ReceiveAcksEarly(m) ==
    /\ m \in net /\ ~m.checked
    /\ IF Refused(m) THEN Answer(m, "failed")
       ELSE IF Known(m) THEN Answer(m, "completed")
       ELSE /\ net' = (net \ {m}) \cup {[m EXCEPT !.checked = TRUE]}
            /\ outbox' = {IF Carries(m, j) THEN [j EXCEPT !.state = "completed"] ELSE j : j \in outbox}
    /\ UNCHANGED <<rows, opens, fanouts, answered, cut, counts>>

\* The reads of handleDmCreate and handleDmMessageCreate.
Receive(m) ==
    /\ m \in net /\ ~m.checked
    /\ IF Refused(m) THEN Answer(m, "failed")
       ELSE IF Known(m) THEN Answer(m, "completed")
       ELSE net' = (net \ {m}) \cup {[m EXCEPT !.checked = TRUE]} /\ UNCHANGED outbox
    /\ UNCHANGED <<rows, opens, fanouts, answered, cut, counts>>

\* The channel and its members are inserted under the peer's id; the pair key is
\* unique, so a row inserted since the check makes it a 409.
CommitCreate(m) ==
    LET to == Other(m.from) IN
    /\ m \in net /\ m.checked /\ m.msg = 0
    /\ IF channels[to] # {} THEN Answer(m, "failed") /\ UNCHANGED channels
       ELSE channels' = [channels EXCEPT ![to] = {m.chan}] /\ Answer(m, "completed")
    /\ UNCHANGED <<messages, accepts, opens, fanouts, answered, cut, counts>>

\* The message is inserted under the author's id and broadcast.
CommitMessage(m) ==
    LET to == Other(m.from) IN
    /\ m \in net /\ m.checked /\ m.msg # 0
    /\ IF \E row \in messages[to] : row.n = m.msg
       THEN Answer(m, "failed") /\ UNCHANGED messages
       ELSE /\ messages' = [messages EXCEPT ![to] = @ \cup {Row(m)}]
            /\ Answer(m, "completed")
    /\ UNCHANGED <<channels, accepts, opens, fanouts, answered, cut, counts>>

\* The API process of i dies: its handlers and fan-outs with it.
Crash(i) ==
    /\ crashes < MaxCrashes
    /\ crashes' = crashes + 1
    /\ opens' = {o \in opens : o.at # i}
    /\ fanouts' = {f \in fanouts : f.author # i}
    /\ cut' = IF \E o \in opens : o.at = i THEN cut \cup {i} ELSE cut
    /\ UNCHANGED <<rows, outbox, net, answered, opened, posted, toggles, failures>>

-----------------------------------------------------------------------------
Handle(o) == OpenLookup(o) \/ OpenInsert(o) \/ OpenTell(o)
Apply(m) == Receive(m) \/ CommitCreate(m) \/ CommitMessage(m)

Next ==
    \/ \E i \in Instance : OpenStart(i) \/ Toggle(i) \/ Crash(i)
    \/ \E i \in Instance, chan \in Id : Post(i, chan)
    \/ \E o \in opens : Handle(o)
    \/ \E f \in fanouts : FanOut(f)
    \/ \E j \in outbox : Dispatch(j) \/ \E dropped \in BOOLEAN : NoAnswer(j, dropped)
    \/ \E m \in net : Apply(m)

Spec == Init /\ [][Next]_vars

\* Handlers run to their end, the worker drains its queue, requests arrive.
Fairness ==
    /\ WF_vars(\E o \in opens : Handle(o))
    /\ WF_vars(\E f \in fanouts : FanOut(f))
    /\ WF_vars(\E j \in outbox : Dispatch(j))
    /\ WF_vars(\E m \in net : Apply(m))

FairSpec == Spec /\ Fairness

-----------------------------------------------------------------------------
(* Properties.                                                               *)

TypeOK ==
    /\ channels \in [Instance -> SUBSET Id]
    /\ messages \in [Instance -> SUBSET Message]
    /\ accepts \in [Instance -> BOOLEAN]
    /\ opens \subseteq Open
    /\ fanouts \subseteq Message
    /\ outbox \subseteq Job
    /\ net \subseteq Envelope
    /\ answered \in [Instance -> SUBSET Id]
    /\ cut \subseteq Instance
    /\ opened \in 0..MaxOpens
    /\ posted \in 0..MaxPosts
    /\ toggles \in 0..MaxToggles
    /\ failures \in 0..MaxFailures
    /\ crashes \in 0..MaxCrashes

\* "a race between two simultaneous starts ... we recover from by fetching
\* whichever side won": every open of the pair is answered with the one channel
\* there is, however the opens, and a dm.create of the peer, overlap
\* (dm-service.ts 109-113, 168-197).
OneConversation ==
    \A i \in Instance :
        /\ answered[i] \subseteq channels[i]
        /\ \A a, b \in channels[i] : a = b

\* A channel under the peer's id is the peer's own channel: the two ends disagree
\* only when each opened the conversation itself (dm-service.ts 115-120).
SplitOnlyByCrossing ==
    \A i \in Instance : \A id \in channels[i] : id[1] # i => id \in channels[Other(i)]

\* A message that arrived lies in a channel both ends have and is the one its
\* author posted, whatever was retried, handled twice or overtaken (3378-3452).
ArrivedBelongs ==
    \A i \in Instance : \A row \in messages[i] :
        /\ row.chan \in channels[i] \cap channels[row.author]
        /\ row \in messages[row.author]

\* What the peer acknowledged it has stored: the channel under our id, or the
\* message (3223-3240, 3432-3476).
AcknowledgedIsStored ==
    \A j \in outbox : j.state = "completed" =>
        IF j.msg = 0 THEN j.chan \in channels[Other(j.from)]
        ELSE [n |-> j.msg, author |-> j.from, chan |-> j.chan] \in messages[Other(j.from)]

Dead(i) == \E j \in outbox : j.from = i /\ j.msg = 0 /\ j.state = "failed"

\* Someone who opens a conversation gets through: in the end the peer has the
\* channel too, or has refused it, or the API process died over the last open
\* and the user has not opened it again (routes/dms.ts 153-230).
OpenGetsThrough ==
    \A i \in Instance :
        channels[i] # {} ~> channels[Other(i)] # {} \/ Dead(i) \/ i \in cut

\* "409 so the peer can reconcile" (3248): when nothing is left to do and
\* nothing was lost, the two ends have the same channel.
Rest == opens = {} /\ fanouts = {} /\ net = {} /\ \A j \in outbox : j.state \in {"completed", "failed"}
Reconciled ==
    Rest /\ failures = 0 /\ crashes = 0 /\ toggles = 0 /\ (\A i \in Instance : accepts[i]) =>
        \A i, j \in Instance : channels[i] = channels[j]
=============================================================================

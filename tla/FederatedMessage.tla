--------------------------- MODULE FederatedMessage ---------------------------
(***************************************************************************)
(* One message of a federated room or DM: the author's instance writes it,   *)
(* edits and deletes it (apps/api/src/routes/messages.ts), fans each change  *)
(* out through the outbox queue (services/federation-outbox.ts, queues.ts,   *)
(* the dispatcher and worker of packages/federation and apps/worker), and    *)
(* the other instances apply the envelopes (services/federation-inbound.ts). *)
(* In a room the author of a mirror sends to the home only, and the home     *)
(* relays.                                                                   *)
(*                                                                          *)
(* All instances are peered, have members in the room and federate it.       *)
(* Signatures, attachments, reactions and moderator deletes, which do not    *)
(* leave the instance, are not modelled, nor is the queue without Redis.  A  *)
(* timed-out request may still be handled later; a retry is a new envelope.  *)
(* BullMQ keeps the last 1000 finished jobs; none is forgotten here.         *)
(***************************************************************************)
EXTENDS Naturals

CONSTANTS
    Instance,       \* the instances that have a copy of the room
    Home,           \* the instance the room belongs to
    Author,         \* the author's instance
    FreshNonces,    \* dm.message.*: each change has its own job id
    Attempts,       \* attempts of a job (queues.ts)
    MaxEdits,       \* bound: edits
    MaxFailures,    \* bound: attempts that fail without an answer
    MaxCrashes      \* bound: crashes of an API process

ASSUME FederatedMessageAssumption ==
    /\ Home \in Instance
    /\ Author \in Instance
    /\ FreshNonces \in BOOLEAN
    /\ Attempts \in Nat \ {0}
    /\ MaxEdits \in Nat
    /\ MaxFailures \in Nat
    /\ MaxCrashes \in Nat

VARIABLES
    copy,        \* copy[i]: the message row of instance i
    local,       \* the author's PATCH and DELETE requests past their checks
    fanouts,     \* committed changes whose fan-out has not been enqueued
    outbox,      \* the outbox jobs, finished ones included
    net,         \* envelopes on their way or being handled
    announced,   \* history: MESSAGE_CREATE broadcasts of each instance
    written,     \* history: the texts the author's row has had
    edits, failures, crashes    \* counts for the bounds

vars == <<copy, local, fanouts, outbox, net, announced, written, edits, failures, crashes>>
counts == <<edits, failures, crashes>>

-----------------------------------------------------------------------------
\* A text is 0 when empty, 1 as posted, k + 1 after the k-th edit.
Text == 0..(MaxEdits + 1)
Kind == {"create", "update", "delete"}
Change == [kind : Kind, text : Text]
Job == [from : Instance, to : Instance, kind : Kind, nonce : Text, text : Text,
        state : {"waiting", "active", "completed", "failed"}, tries : 0..Attempts]
Envelope == [from : Instance, to : Instance, kind : Kind, nonce : Text, text : Text,
             attempt : 0..Attempts, checked : BOOLEAN]

Others(i) == Instance \ {i}

\* findFanOutTargetsForChannel: the home's other peers, or the home.
Targets == IF Author = Home THEN Others(Home) ELSE {Home}

\* The custom job id: peer, event type and nonce.  Room changes pass no nonce.
Nonce(change) == IF FreshNonces /\ change.kind # "create" THEN change.text ELSE 0
SameJob(j, k) == <<j.from, j.to, j.kind, j.nonce>> = <<k.from, k.to, k.kind, k.nonce>>

\* m is the envelope of the attempt that job j is waiting for.
Carries(m, j) == SameJob(m, j) /\ j.state = "active" /\ j.tries = m.attempt

Init ==
    /\ copy = [i \in Instance |-> [status |-> "none", text |-> 0]]
    /\ local = {}
    /\ fanouts = {}
    /\ outbox = {}
    /\ net = {}
    /\ announced = [i \in Instance |-> 0]
    /\ written = {}
    /\ edits = 0
    /\ failures = 0
    /\ crashes = 0

-----------------------------------------------------------------------------
(* -- the author's requests ------------------------------------------------- *)

Committed(i, kind, text, to) ==
    fanouts' = fanouts \cup {[at |-> i, kind |-> kind, text |-> text, to |-> to]}

\* POST: the message is created and broadcast.
Post ==
    /\ copy[Author].status = "none"
    /\ copy' = [copy EXCEPT ![Author] = [status |-> "live", text |-> 1]]
    /\ announced' = [announced EXCEPT ![Author] = @ + 1]
    /\ written' = written \cup {1}
    /\ Committed(Author, "create", 1, Targets)
    /\ UNCHANGED <<local, outbox, net, counts>>

\* Mutant: the request fans its change out before it has written the row.
RequestFansOutFirst(kind) ==
    /\ copy[Author].status = "live"
    /\ IF kind = "update"
       THEN /\ edits < MaxEdits
            /\ edits' = edits + 1
            /\ local' = local \cup {[kind |-> kind, text |-> edits + 2]}
            /\ Committed(Author, kind, edits + 2, Targets)
       ELSE /\ UNCHANGED edits
            /\ local' = local \cup {[kind |-> kind, text |-> 0]}
            /\ Committed(Author, kind, 0, Targets)
    /\ UNCHANGED <<copy, outbox, net, announced, written, failures, crashes>>

\* PATCH and DELETE read the message, which must not be deleted ...
Request(kind) ==
    /\ copy[Author].status = "live"
    /\ IF kind = "update"
       THEN /\ edits < MaxEdits
            /\ edits' = edits + 1
            /\ local' = local \cup {[kind |-> kind, text |-> edits + 2]}
       ELSE /\ UNCHANGED edits
            /\ local' = local \cup {[kind |-> kind, text |-> 0]}
    /\ UNCHANGED <<copy, fanouts, outbox, net, announced, written, failures, crashes>>

\* ... and then write it, whatever it is by now.
Apply(i, kind, text) ==
    copy' = [copy EXCEPT ![i] =
                [status |-> IF kind = "delete" THEN "deleted" ELSE @.status, text |-> text]]

RequestWrites(change) ==
    /\ change \in local
    /\ local' = local \ {change}
    /\ Apply(Author, change.kind, change.text)
    /\ written' = written \cup {change.text}
    /\ Committed(Author, change.kind, change.text, Targets)
    /\ UNCHANGED <<outbox, net, announced, counts>>

(* -- the outbox ------------------------------------------------------------ *)

\* Mutant: the relay goes to every peer.
FanOutEchoes(f) ==
    LET new == {[from |-> f.at, to |-> i, kind |-> f.kind, nonce |-> Nonce(f), text |-> f.text,
                 state |-> "waiting", tries |-> 0] : i \in Others(f.at)}
    IN
    /\ f \in fanouts
    /\ fanouts' = fanouts \ {f}
    /\ outbox' = outbox \cup {j \in new : ~\E k \in outbox : SameJob(j, k)}
    /\ UNCHANGED <<copy, local, net, announced, written, counts>>

\* One job per peer is enqueued; BullMQ ignores a job whose id it still has,
\* waiting or finished.
FanOut(f) ==
    LET new == {[from |-> f.at, to |-> i, kind |-> f.kind, nonce |-> Nonce(f), text |-> f.text,
                 state |-> "waiting", tries |-> 0] : i \in f.to}
    IN
    /\ f \in fanouts
    /\ fanouts' = fanouts \ {f}
    /\ outbox' = outbox \cup {j \in new : ~\E k \in outbox : SameJob(j, k)}
    /\ UNCHANGED <<copy, local, net, announced, written, counts>>

\* The worker dispatches a job; up to four run at a time, in any order.
Dispatch(j) ==
    /\ j \in outbox /\ j.state = "waiting"
    /\ outbox' = (outbox \ {j}) \cup {[j EXCEPT !.state = "active"]}
    /\ net' = net \cup {[from |-> j.from, to |-> j.to, kind |-> j.kind, nonce |-> j.nonce,
                         text |-> j.text, attempt |-> j.tries, checked |-> FALSE]}
    /\ UNCHANGED <<copy, local, fanouts, announced, written, counts>>

\* Mutant: the last attempt is not made.
NoAnswerGivesUpEarly(j, dropped) ==
    LET tries == j.tries + 1 IN
    /\ j \in outbox /\ j.state = "active"
    /\ failures < MaxFailures
    /\ failures' = failures + 1
    /\ outbox' = (outbox \ {j}) \cup
        {[j EXCEPT !.tries = tries, !.state = IF tries + 1 < Attempts THEN "waiting" ELSE "failed"]}
    /\ net' = IF dropped THEN {m \in net : ~Carries(m, j)} ELSE net
    /\ UNCHANGED <<copy, local, fanouts, announced, written, edits, crashes>>

\* A network error, a 5xx or the timeout: retried until the attempts are used
\* up.  The peer may handle the envelope all the same.
NoAnswer(j, dropped) ==
    LET tries == j.tries + 1 IN
    /\ j \in outbox /\ j.state = "active"
    /\ failures < MaxFailures
    /\ failures' = failures + 1
    /\ outbox' = (outbox \ {j}) \cup
        {[j EXCEPT !.tries = tries, !.state = IF tries < Attempts THEN "waiting" ELSE "failed"]}
    /\ net' = IF dropped THEN {m \in net : ~Carries(m, j)} ELSE net
    /\ UNCHANGED <<copy, local, fanouts, announced, written, edits, crashes>>

(* -- POST /_federation/event ------------------------------------------------ *)

\* The answer to m: 2xx completes the job, 4xx fails it for good.
Answer(m, state) ==
    /\ net' = net \ {m}
    /\ outbox' = {IF Carries(m, j) THEN [j EXCEPT !.state = state] ELSE j : j \in outbox}

\* The handler's reads: 404 for a message that is missing or, for an update,
\* deleted; 200 for a create that is known and a delete that is done.
Receive(m) ==
    LET status == copy[m.to].status
        refused == \/ m.kind = "update" /\ status # "live"
                   \/ m.kind = "delete" /\ status = "none"
        done == \/ m.kind = "create" /\ status # "none"
                \/ m.kind = "delete" /\ status = "deleted"
    IN
    /\ m \in net /\ ~m.checked
    /\ IF refused THEN Answer(m, "failed")
       ELSE IF done THEN Answer(m, "completed")
       ELSE net' = (net \ {m}) \cup {[m EXCEPT !.checked = TRUE]} /\ UNCHANGED outbox
    /\ UNCHANGED <<copy, local, fanouts, announced, written, counts>>

\* Mutant: a create that finds the row overwrites it.
CommitCreateUpserts(m) ==
    /\ m \in net /\ m.checked /\ m.kind = "create"
    /\ copy' = [copy EXCEPT ![m.to] = [status |-> "live", text |-> m.text]]
    /\ announced' = [announced EXCEPT ![m.to] = @ + 1]
    /\ Answer(m, "completed")
    /\ IF m.to = Home THEN Committed(Home, "create", m.text, Instance \ {Home, m.from})
       ELSE UNCHANGED fanouts
    /\ UNCHANGED <<local, written, counts>>

\* handleMessageCreate inserts the row and broadcasts, and the home relays; a
\* row inserted since the check is a unique violation, answered 409.
CommitCreate(m) ==
    /\ m \in net /\ m.checked /\ m.kind = "create"
    /\ IF copy[m.to].status # "none"
       THEN Answer(m, "failed") /\ UNCHANGED <<copy, announced, fanouts>>
       ELSE /\ copy' = [copy EXCEPT ![m.to] = [status |-> "live", text |-> m.text]]
            /\ announced' = [announced EXCEPT ![m.to] = @ + 1]
            /\ Answer(m, "completed")
            /\ IF m.to = Home THEN Committed(Home, "create", m.text, Instance \ {Home, m.from})
               ELSE UNCHANGED fanouts
    /\ UNCHANGED <<local, written, counts>>

\* handleMessageUpdate and handleMessageDelete write the row.
CommitChange(m) ==
    /\ m \in net /\ m.checked /\ m.kind # "create"
    /\ Apply(m.to, m.kind, m.text)
    /\ Answer(m, "completed")
    /\ UNCHANGED <<local, fanouts, announced, written, counts>>

\* The API process of i dies between a commit and its fan-out.
Crash(i) ==
    /\ crashes < MaxCrashes
    /\ crashes' = crashes + 1
    /\ fanouts' = {f \in fanouts : f.at # i}
    /\ local' = IF i = Author THEN {} ELSE local
    /\ UNCHANGED <<copy, outbox, net, announced, written, edits, failures>>

-----------------------------------------------------------------------------
Next ==
    \/ Post
    \/ \E kind \in {"update", "delete"} : Request(kind)
    \/ \E change \in local : RequestWrites(change)
    \/ \E f \in fanouts : FanOut(f)
    \/ \E j \in outbox : Dispatch(j) \/ \E dropped \in BOOLEAN : NoAnswer(j, dropped)
    \/ \E m \in net : Receive(m) \/ CommitCreate(m) \/ CommitChange(m)
    \/ \E i \in Instance : Crash(i)

Spec == Init /\ [][Next]_vars

-----------------------------------------------------------------------------
(* Properties.                                                               *)

TypeOK ==
    /\ copy \in [Instance -> [status : {"none", "live", "deleted"}, text : Text]]
    /\ local \subseteq Change
    /\ fanouts \subseteq [at : Instance, kind : Kind, text : Text, to : SUBSET Instance]
    /\ outbox \subseteq Job
    /\ net \subseteq Envelope
    /\ announced \in [Instance -> Nat]
    /\ written \subseteq Text
    /\ edits \in 0..MaxEdits
    /\ failures \in 0..MaxFailures
    /\ crashes \in 0..MaxCrashes

\* Nothing is left to do.
Rest ==
    /\ local = {} /\ fanouts = {} /\ net = {}
    /\ \A j \in outbox : j.state \in {"completed", "failed"}
NothingFailed == failures = 0 /\ crashes = 0

\* The clients of an instance are told of the message once, however often the
\* envelope is retried, handled twice at the same time or relayed (1260-1275).
AnnouncedOnce == \A i \in Instance : announced[i] <= 1

\* A message that is deleted on an instance never comes back there: not by a
\* late create, a retry or an edit that was checked before (1415-1440, 1640-1670).
DeletedStaysDeleted ==
    [][\A i \in Instance : copy[i].status = "deleted" => copy'[i].status = "deleted"]_vars

\* "each peer learns each event exactly once per relay step": only the author's
\* instance and the home send, and nothing is sent back to the author (320-360).
NothingEchoes ==
    \A j \in outbox : j.to # Author /\ j.from \in {Author, Home} /\ j.to # j.from

\* What federation promises of a message: see ReplicatedMessage.
Abstract == INSTANCE ReplicatedMessage WITH Empty <- 0

\* However changes are delayed, reordered, retried, relayed or lost, an instance
\* shows only texts the author's row has had, and drops the message only after
\* the author's instance did (every fan-out
\* follows the commit it tells of: messages.ts 704-830, federation-inbound.ts
\* 1415-1440, 1640-1670).
Replicates == Abstract!Spec

\* The message reaches every instance, relays included, unless a job has used up
\* its attempts or an API process died between commit and enqueue.
CreateReachesAll ==
    Rest /\ crashes = 0 /\ (\A j \in outbox : j.tries < Attempts) /\ copy[Author].status # "none" =>
        \A i \in Instance : copy[i].status # "none"

\* "Messages, edits, deletes ... cross instances reliably with eventual
\* consistency": when all was delivered and nothing refused, the text that is
\* left everywhere is the author's.
EditsConverge ==
    Rest /\ NothingFailed /\ (\A j \in outbox : j.state = "completed") =>
        \A i \in Instance : copy[i].status = "live" => copy[i].text = copy[Author].text

\* "deletes in mirror channels go to the home; home relays": when all was
\* delivered and nothing refused, a deleted message is deleted everywhere.
DeletesReachAll ==
    Rest /\ NothingFailed /\ (\A j \in outbox : j.state = "completed") =>
        (copy[Author].status = "deleted" => \A i \in Instance : copy[i].status = "deleted")

\* "we 404 and let the peer retry once the ordering settles": if no attempt went
\* unanswered, no job ends up failed.
OvertakingIsRetried == Rest /\ NothingFailed => \A j \in outbox : j.state = "completed"

\* "tombstone the row (deletedAt + empty content)": no deleted row has a text.
TombstonesAreEmpty == \A i \in Instance : copy[i].status = "deleted" => copy[i].text = 0
=============================================================================

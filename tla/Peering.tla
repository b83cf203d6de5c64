-------------------------------- MODULE Peering --------------------------------
(***************************************************************************)
(* The peering handshake between Tavern instances                           *)
(* (apps/api/src/services/federation-peering.ts and the routes              *)
(* federation-peering.ts and admin-federation.ts): the RemoteInstance row    *)
(* each instance keeps about each other one, its admins' initiate, approve   *)
(* and revoke, and the envelopes they post to /_federation/peering.          *)
(*                                                                          *)
(* A handler is split where another one may run between its read of the row *)
(* and its write.  An envelope is posted once: it arrives or is lost.  Keys, *)
(* signatures and the nonce log are not modelled (an envelope is what its    *)
(* sender sent, once); nothing in the code writes the status `blocked`.      *)
(***************************************************************************)
EXTENDS Naturals

CONSTANTS
    Instance,          \* the instances, each its own admins and database
    Capability,        \* CAPABILITIES
    Advertised,        \* Advertised[i]: localCapabilities of instance i
    MaxInitiations,    \* bound: initiations by all admins
    MaxRevocations,    \* bound: revocations by all admins
    MaxLost            \* bound: envelopes that do not arrive

ASSUME PeeringAssumption ==
    /\ Advertised \in [Instance -> SUBSET Capability]
    /\ MaxInitiations \in Nat
    /\ MaxRevocations \in Nat
    /\ MaxLost \in Nat

VARIABLES
    row,          \* row[i][j]: the RemoteInstance row of i about j
    running,      \* handlers between their read and their write
    net,          \* envelopes on their way
    asked,        \* history: <<i, j>> where an admin of i has initiated with j
    approved,     \* history: <<i, j>> where an admin of i has approved j
    initiations, revocations, lost    \* counts for the bounds

vars == <<row, running, net, asked, approved, initiations, revocations, lost>>
history == <<asked, approved>>
counts == <<initiations, revocations, lost>>

-----------------------------------------------------------------------------
Status == {"none", "pending_inbound", "pending_outbound", "peered", "revoked"}
Row == [status : Status, caps : SUBSET Capability]
Envelope == [type : {"request", "accept", "revoke"}, from : Instance, to : Instance,
             caps : SUBSET Capability]
\* at: where it runs; peer: whose row; found: the row it read existed.  settle:
\* an accept whose transaction has read the row again.
Handler == [op : {"request", "accept", "settle", "initiate", "approve"}, at : Instance,
            peer : Instance, caps : SUBSET Capability, found : BOOLEAN]

StatusOf(i, j) == row[i][j].status
SetRow(i, j, status, caps) == row' = [row EXCEPT ![i][j] = [status |-> status, caps |-> caps]]

Run(op, i, j, caps) ==
    running' = running \cup
        {[op |-> op, at |-> i, peer |-> j, caps |-> caps, found |-> StatusOf(i, j) # "none"]}
Finish(h) == running' = running \ {h}
Send(type, i, j, caps) ==
    net' = net \cup {[type |-> type, from |-> i, to |-> j, caps |-> caps]}
Arrives(m, type) == m \in net /\ m.type = type /\ net' = net \ {m}

Init ==
    /\ row = [i \in Instance |-> [j \in Instance |-> [status |-> "none", caps |-> {}]]]
    /\ running = {}
    /\ net = {}
    /\ asked = {}
    /\ approved = {}
    /\ initiations = 0
    /\ revocations = 0
    /\ lost = 0

-----------------------------------------------------------------------------
(* -- the admin of i -------------------------------------------------------- *)

\* initiatePeering reads the row, after the peer's discovery document.
Initiate(i, j, requested) ==
    /\ i # j
    /\ initiations < MaxInitiations
    /\ initiations' = initiations + 1
    /\ Run("initiate", i, j, requested)
    /\ UNCHANGED <<row, net, history, revocations, lost>>

\* initiatePeering creates or updates the row, whatever its status, and posts
\* the request; creating a row that exists by now throws.
InitiateWrites(h) ==
    LET i == h.at
        j == h.peer
    IN
    /\ h \in running /\ h.op = "initiate"
    /\ Finish(h)
    /\ IF ~h.found /\ StatusOf(i, j) # "none"
       THEN UNCHANGED <<row, net, asked>>
       ELSE /\ SetRow(i, j, "pending_outbound", Advertised[i] \cap h.caps \cap Advertised[j])
            /\ Send("request", i, j, h.caps)
            /\ asked' = asked \cup {<<i, j>>}
    /\ UNCHANGED <<approved, counts>>

\* Mutant: a peering that was initiated here can be approved here.
ApproveAnyPending(i, j) ==
    /\ StatusOf(i, j) \in {"pending_inbound", "pending_outbound"}
    /\ Run("approve", i, j, row[i][j].caps)
    /\ UNCHANGED <<row, net, history, counts>>

\* approvePeer reads the row, which must be pending_inbound.
Approve(i, j) ==
    /\ StatusOf(i, j) = "pending_inbound"
    /\ Run("approve", i, j, row[i][j].caps)
    /\ UNCHANGED <<row, net, history, counts>>

\* Mutant: the peer is not told.
ApproveSilently(h) ==
    /\ h \in running /\ h.op = "approve"
    /\ Finish(h)
    /\ SetRow(h.at, h.peer, "peered", row[h.at][h.peer].caps)
    /\ approved' = approved \cup {<<h.at, h.peer>>}
    /\ UNCHANGED <<net, asked, counts>>

\* approvePeer updates the status, whatever it is now, and posts the accept
\* with the capabilities it had read.
ApproveWrites(h) ==
    /\ h \in running /\ h.op = "approve"
    /\ Finish(h)
    /\ SetRow(h.at, h.peer, "peered", row[h.at][h.peer].caps)
    /\ Send("accept", h.at, h.peer, h.caps)
    /\ approved' = approved \cup {<<h.at, h.peer>>}
    /\ UNCHANGED <<asked, counts>>

\* revokePeer, with any row.
Revoke(i, j) ==
    /\ StatusOf(i, j) # "none"
    /\ revocations < MaxRevocations
    /\ revocations' = revocations + 1
    /\ SetRow(i, j, "revoked", row[i][j].caps)
    /\ Send("revoke", i, j, {})
    /\ UNCHANGED <<running, history, initiations, lost>>

(* -- POST /_federation/peering --------------------------------------------- *)

\* recordInboundRequest reads the row; 403 for a revoked peer.
ReceiveRequest(m) ==
    /\ Arrives(m, "request")
    /\ IF StatusOf(m.to, m.from) = "revoked"
       THEN UNCHANGED running
       ELSE Run("request", m.to, m.from, Advertised[m.to] \cap m.caps)
    /\ UNCHANGED <<row, history, counts>>

\* recordInboundRequest creates the row, or updates its capabilities and leaves
\* its status; creating a row that exists by now throws.
RequestWrites(h) ==
    /\ h \in running /\ h.op = "request"
    /\ Finish(h)
    /\ \/ h.found /\ SetRow(h.at, h.peer, StatusOf(h.at, h.peer), h.caps)
       \/ ~h.found /\ IF StatusOf(h.at, h.peer) = "none"
                      THEN SetRow(h.at, h.peer, "pending_inbound", h.caps)
                      ELSE UNCHANGED row
    /\ UNCHANGED <<net, history, counts>>

\* recordInboundAccept reads the row before it fetches the discovery document.
ReceiveAccept(m) ==
    /\ Arrives(m, "accept")
    /\ IF StatusOf(m.to, m.from) \in {"none", "revoked"}
       THEN UNCHANGED running
       ELSE Run("accept", m.to, m.from, Advertised[m.to] \cap m.caps)
    /\ UNCHANGED <<row, history, counts>>

\* Mutant: the status read before the discovery request decides.
AcceptSkipsReread(h) ==
    /\ h \in running /\ h.op = "accept"
    /\ running' = (running \ {h}) \cup {[h EXCEPT !.op = "settle"]}
    /\ UNCHANGED <<row, net, history, counts>>

\* recordInboundAccept's transaction reads the row again, without locking it;
\* a status it cannot accept throws.
AcceptRereads(h) ==
    /\ h \in running /\ h.op = "accept"
    /\ IF StatusOf(h.at, h.peer) \in {"pending_outbound", "peered"}
       THEN running' = (running \ {h}) \cup {[h EXCEPT !.op = "settle"]}
       ELSE Finish(h)
    /\ UNCHANGED <<row, net, history, counts>>

\* The transaction's update has no condition on the status.
AcceptWrites(h) ==
    /\ h \in running /\ h.op = "settle"
    /\ Finish(h)
    /\ SetRow(h.at, h.peer, "peered", h.caps)
    /\ UNCHANGED <<net, history, counts>>

\* The route has no case for peering.revoke: 400.
ReceiveRevoke(m) ==
    /\ Arrives(m, "revoke")
    /\ UNCHANGED <<row, running, history, counts>>

\* The post fails.  Only initiatePeering's caller sees it; the row stays.
Lose(m) ==
    /\ m \in net
    /\ lost < MaxLost
    /\ lost' = lost + 1
    /\ net' = net \ {m}
    /\ UNCHANGED <<row, running, history, initiations, revocations>>

-----------------------------------------------------------------------------
Deliver == \E m \in net : ReceiveRequest(m) \/ ReceiveAccept(m) \/ ReceiveRevoke(m)
Write == \E h \in running :
    InitiateWrites(h) \/ ApproveWrites(h) \/ RequestWrites(h)
        \/ AcceptRereads(h) \/ AcceptWrites(h)

Next ==
    \/ \E i, j \in Instance :
        \/ \E requested \in SUBSET Capability : Initiate(i, j, requested)
        \/ Approve(i, j)
        \/ Revoke(i, j)
    \/ Deliver
    \/ Write
    \/ \E m \in net : Lose(m)

Spec == Init /\ [][Next]_vars

\* Handlers run on; an envelope that is not lost arrives.  Admins need not act.
FairSpec == Spec /\ WF_vars(Deliver) /\ WF_vars(Write)

-----------------------------------------------------------------------------
(* Properties.                                                               *)

TypeOK ==
    /\ row \in [Instance -> [Instance -> Row]]
    /\ running \subseteq Handler
    /\ net \subseteq Envelope
    /\ asked \subseteq Instance \X Instance
    /\ approved \subseteq Instance \X Instance
    /\ initiations \in 0..MaxInitiations
    /\ revocations \in 0..MaxRevocations
    /\ lost \in 0..MaxLost

Quiet == net = {} /\ running = {}

\* An instance takes another one for peered only if an admin of one of the two
\* has asked and an admin of the other has approved: no race between crossing
\* requests, repeated handshakes and revocations lets one admin peer alone
\* (approvePeer's status check, 442; recordInboundAccept's, 298).
PeeredTakesTwoAdmins ==
    \A i, j \in Instance : StatusOf(i, j) = "peered" =>
        \/ <<i, j>> \in approved /\ <<j, i>> \in asked
        \/ <<i, j>> \in asked /\ <<j, i>> \in approved

\* What a row grants the peer is at any time something this instance
\* advertises: "the intersection MUST happen at storage time" (127-131).
GrantsOnlyAdvertised ==
    \A i, j \in Instance : row[i][j].caps \subseteq Advertised[i]

\* Past its last look at the row: the statement left to run is an update that
\* sets the status whatever it is.
PastItsCheck(h) == h.op \in {"approve", "settle"}

\* A revocation that no handler can write over any more.
RevokedForGood(i, j) ==
    /\ StatusOf(i, j) = "revoked"
    /\ ~\E h \in running : h.at = i /\ h.peer = j /\ PastItsCheck(h)

StaysRevoked(i, j) ==
    \/ RevokedForGood(i, j)'
    \/ \E h \in running \ running' : h.at = i /\ h.peer = j /\ h.op = "initiate"

\* Such a revocation holds until this instance's own admin initiates again: no
\* request or accept undoes it, in whatever order envelopes and their slow
\* discovery requests meet it (recordInboundRequest's 403;
\* recordInboundAccept's second read, 285-299).
RevocationHolds ==
    [][\A i, j \in Instance : RevokedForGood(i, j) => StaysRevoked(i, j)]_vars

\* "To close the window we re-read the row inside a transaction" (270-278): no
\* accept undoes a revocation, even one that it is being handled with.
NoAcceptReopens ==
    [][\A i, j \in Instance :
        StatusOf(i, j) = "revoked" /\ StatusOf(i, j)' # "revoked" =>
            \E h \in running \ running' :
                h.at = i /\ h.peer = j /\ h.op \in {"initiate", "approve"}]_vars

\* A single handshake of which nothing is lost: when one side is peered so will
\* the other be, unless an admin revokes (docs/federation-operations.md:96).
HandshakeCompletes ==
    \A i, j \in Instance :
        (StatusOf(i, j) = "peered")
            ~> (\/ StatusOf(j, i) = "peered"
                \/ "revoked" \in {StatusOf(i, j), StatusOf(j, i)}
                \/ lost > 0 \/ initiations > 1)

\* "A picks it up on the next poll cycle": the peer of a peered instance is
\* peered in the end although the accept is lost, when no admin revokes.
LostAcceptIsPickedUp ==
    \A i, j \in Instance : (StatusOf(i, j) = "peered") ~> (StatusOf(j, i) = "peered")

\* "The remote instance is notified and marks the local instance `revoked`": at
\* rest, with nothing lost, the peer of a revoking instance is not peered.
RevocationIsMutual ==
    \A i, j \in Instance :
        ~(Quiet /\ StatusOf(i, j) = "revoked" /\ StatusOf(j, i) = "peered")

\* "There is no un-revoke": a revoked row becomes peered only through a new
\* handshake, never directly.
NoUnrevoke ==
    [][\A i, j \in Instance :
        StatusOf(i, j) = "revoked" => StatusOf(i, j)' # "peered"]_vars

\* "start the handshake over from scratch": at rest, with nothing lost, an
\* instance that waits for approval is not waiting for one that, being peered,
\* cannot approve.
HandshakeCanStartOver ==
    \A i, j \in Instance :
        ~(Quiet /\ StatusOf(i, j) = "pending_outbound" /\ StatusOf(j, i) = "peered")

\* "both sides converge on the same symmetric capability list": at rest, with
\* nothing lost, two peered instances grant each other the same.
CapabilitiesAreSymmetric ==
    \A i, j \in Instance :
        Quiet /\ StatusOf(i, j) = "peered" /\ StatusOf(j, i) = "peered" =>
            row[i][j].caps = row[j][i].caps
=============================================================================

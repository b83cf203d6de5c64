---------------------------- MODULE FederatedRoster ----------------------------
(***************************************************************************)
(* A federated server and its mirror on one peer.  The home tells the peer  *)
(* of changes to the server, its channels and its members through the       *)
(* outbox (services/federation-outbox.ts); the peer's handlers              *)
(* (services/federation-inbound.ts) believe only the owner's signature.     *)
(* The peer's own users join by a synchronous request to the home           *)
(* (routes/federation-invites-accept.ts) and leave by another               *)
(* (routes/federation-leave-mirror.ts); the last one to leave takes the     *)
(* mirror down (services/federation-mirror.ts).                             *)
(*                                                                          *)
(* A route commits and then, in memory, looks up the peers and enqueues:    *)
(* two steps.  The dispatcher runs several jobs at a time; one that gets no *)
(* answer is retried, and the peer may still handle the attempt.  A request *)
(* of a guest's that is not answered in ten seconds has failed for the      *)
(* guest, and the home may still handle it.  An update of a channel is read *)
(* and merged by the peer in one step and written in another, and a leave   *)
(* deletes and counts in one and commits in another, as READ COMMITTED lets *)
(* them.                                                                    *)
(***************************************************************************)
EXTENDS Naturals

CONSTANTS
    Den,          \* the Server row
    Field,        \* fields of a row that a change may carry or not
    Channel,      \* ids of text channels
    Other,        \* users of the home or of a third instance
    Guest,        \* the peer's users
    Owner, Staff, \* the server's owner, and a moderator and instance admin
    Attempts,     \* tries of an outbox job
    MaxEvents,    \* bound: changes at the home and requests of guests in one behaviour
    MaxFaults     \* bound: dispatches without an answer, and crashes of the home's API

Member == Other \cup Guest
Object == {Den} \cup Channel \cup Member

ASSUME RosterAssumption ==
    /\ Den \notin Channel \cup Member
    /\ Channel \cap Member = {}
    /\ Other \cap Guest = {}
    /\ {Owner, Staff} \cap Object = {}
    /\ Owner # Staff
    /\ Field # {}
    /\ Attempts \in Nat \ {0}
    /\ MaxEvents \in Nat \ {0}
    /\ MaxFaults \in Nat

VARIABLES
    at,        \* home: at[o][f]: the change that wrote the field; 0s, no row
    pending,   \* home: committed changes whose fan-out is still to run
    outbox,    \* jobs for the peer
    late,      \* attempts whose answer nobody waits for any more
    mirror,    \* peer: is there a Server row, and its rows as in `at`
    merges,    \* peer: updates of a channel, with the row read, to be written
    leave,     \* leave[g]: where the guest's request to leave is
    accept,    \* accept[g]: and their request to join
    strayJoins, strayLeaves, \* requests that failed here and are on their way
    faults,    \* dispatches without an answer, and crashes, so far
    made, asked, \* changes, and guests' requests, so far
    last,      \* history: last[o][f]: the last change of the field
    seen,      \* history: seen[o][f]: the newest change of it the peer applied
    missed,    \* history: changes that were not sent, were given up or refused
    overtaken, \* history: overtaken[o]: fields whose older value was written last
    told,      \* history: told[g]: what the guest's last request is or was answered
    revived,   \* history: guests whose stray join the home took since it let them go
    crossed    \* history: the transactions of two leaves overlapped

home == <<at, pending, made, last>>
wire == <<outbox, late>>
requests == <<leave, accept, strayJoins, strayLeaves, revived, asked, told, crossed>>
applied == <<mirror, merges, seen, overtaken>>
vars == <<home, wire, requests, applied, missed, faults>>

-----------------------------------------------------------------------------
Op == {"server", "create", "update", "delete", "add", "remove"}
Change == [op : Op, about : Object, fields : SUBSET Field, n : 1..MaxEvents,
           signer : {Owner, Staff} \cup Other]
Job == [change : Change, left : 1..Attempts]

Blank == [f \in Field |-> 0]
\* The row with some fields written by change n.
Over(row, fields, n) == [f \in Field |-> IF f \in fields THEN n ELSE row[f]]
\* A guest's row, which no change is numbered for.
Admitted == Over(Blank, Field, 1)

\* Some guests are members and the mirror is as the first of them got it.
Init ==
    /\ \E first \in SUBSET (Channel \cup Guest) :
          /\ first \cap Guest # {}
          /\ at = [o \in Object |-> IF o \in first THEN Admitted ELSE Blank]
    /\ mirror = [live |-> TRUE, at |-> at]
    /\ pending = {} /\ outbox = {} /\ late = {} /\ merges = {}
    /\ leave = [g \in Guest |-> "idle"]
    /\ accept = [g \in Guest |-> "idle"]
    /\ strayJoins = [g \in Guest |-> 0] /\ strayLeaves = strayJoins
    /\ faults = 0 /\ asked = 0 /\ made = 1
    /\ last = at /\ seen = at
    /\ missed = {} /\ revived = {}
    /\ overtaken = [o \in Object |-> {}]
    /\ told = [g \in Guest |-> "none"]
    /\ crossed = FALSE

-----------------------------------------------------------------------------
(* -- changes at the home ---------------------------------------------------- *)

\* The row is written; the route, still running, is to announce it.
Commit(op, o, fields, signer) ==
    /\ made + asked < MaxEvents
    /\ made' = made + 1
    /\ at' = [at EXCEPT ![o] = IF op \in {"delete", "remove"} THEN Blank
                                                             ELSE Over(@, fields, made + 1)]
    /\ last' = [last EXCEPT ![o] = Over(@, fields, made + 1)]
    /\ pending' = pending \cup {[op |-> op, about |-> o, fields |-> fields, n |-> made + 1,
                                 signer |-> signer]}

\* A PATCH writes, and its envelope carries, the fields it names.
Patch == SUBSET Field \ {{}}

UpdateServer(fields) ==
    /\ Commit("server", Den, fields, Owner)
    /\ UNCHANGED <<wire, requests, applied, missed, faults>>

\* Channel ids are fresh, so one is created once; the fan-out of channel
\* changes is signed for the owner, whoever made them.
CreateChannel(c) ==
    /\ last[c] = Blank
    /\ Commit("create", c, Field, Owner)
    /\ UNCHANGED <<wire, requests, applied, missed, faults>>

UpdateChannel(c, fields) ==
    /\ at[c] # Blank
    /\ Commit("update", c, fields, Owner)
    /\ UNCHANGED <<wire, requests, applied, missed, faults>>

DeleteChannel(c) ==
    /\ at[c] # Blank
    /\ Commit("delete", c, Field, Owner)
    /\ UNCHANGED <<wire, requests, applied, missed, faults>>

\* A local user by invite, or a third instance's by join request: the envelope
\* is signed with the joiner's key.
Join(u) ==
    /\ at[u] = Blank
    /\ Commit("add", u, Field, u)
    /\ UNCHANGED <<wire, requests, applied, missed, faults>>

\* POST /api/admin/servers/:id/remote-members; the user's own instance is left
\* out of the fan-out.
AdminAdd(u, admin) ==
    /\ at[u] = Blank
    /\ IF u \in Guest
       THEN /\ at' = [at EXCEPT ![u] = Admitted]
            /\ told' = [told EXCEPT ![u] = "none"]
            /\ UNCHANGED <<made, last, pending>>
       ELSE Commit("add", u, Field, admin) /\ UNCHANGED told
    /\ UNCHANGED <<wire, leave, accept, strayJoins, strayLeaves, revived, asked, crossed,
                   applied, missed, faults>>

\* Kick, or ban of a member, signed by whoever did it.
Remove(u, moderator) ==
    /\ at[u] # Blank
    /\ Commit("remove", u, Field, moderator)
    /\ UNCHANGED <<wire, requests, applied, missed, faults>>

-----------------------------------------------------------------------------
(* -- the outbox -------------------------------------------------------------- *)

\* findPeersWithRemoteMembers, as the rows are when the fan-out runs.
HasGuest == \E g \in Guest : at[g] # Blank
\* A removed user's instance is told too.
Addressed(c) == HasGuest \/ (c.op = "remove" /\ c.about \in Guest)

FanOut(c) ==
    /\ c \in pending
    /\ pending' = pending \ {c}
    /\ IF Addressed(c)
       THEN outbox' = outbox \cup {[change |-> c, left |-> Attempts]} /\ UNCHANGED missed
       ELSE missed' = missed \cup {c.n} /\ UNCHANGED outbox
    /\ UNCHANGED <<at, made, last, late, requests, applied, faults>>

Crash ==
    /\ faults < MaxFaults
    /\ faults' = faults + 1
    /\ missed' = missed \cup {c.n : c \in pending}
    /\ pending' = {}
    /\ UNCHANGED <<at, made, last, wire, requests, applied>>

\* handleChannelUpdate answers 404 for a channel that is not there.
Known(c) == c.op = "update" => mirror.at[c.about] # Blank
\* resolveMirrorOwner names the mirror's owner, whose key must have signed.  What is
\* refused is answered 4xx, which the dispatcher does not retry.
Accepts(c) == mirror.live /\ c.signer = Owner /\ Known(c)

\* Mutant: a field that an update does not carry is reset.
RowAfterReset(c, read) ==
    IF c.op \in {"delete", "remove"}
    THEN IF c.about \in Guest THEN read ELSE Blank
    ELSE Over(Blank, c.fields, c.n)

\* What upsertMirrorChannel, deleteMirrorChannel, updateMirrorServer, addMirrorMember
\* and removeMirrorMember make of the row the handler read.  The last finds the user by
\* remoteUserId, which the peer's own users have not.
RowAfter(c, read) ==
    IF c.op \in {"delete", "remove"}
    THEN IF c.about \in Guest THEN read ELSE Blank
    ELSE Over(read, c.fields, c.n)

\* The fields that are left older than they were: their change is, or what was read is.
Outdated(c, read) ==
    {f \in Field : IF f \in c.fields THEN c.n < seen[c.about][f]
                                     ELSE read[f] # mirror.at[c.about][f]}

Write(c, read) ==
    /\ mirror' = [mirror EXCEPT !.at[c.about] = RowAfter(c, read)]
    /\ seen' = [seen EXCEPT ![c.about] = [f \in Field |->
                   IF f \in c.fields /\ c.n > @[f] THEN c.n ELSE @[f]]]
    /\ overtaken' = [overtaken EXCEPT ![c.about] = (@ \ c.fields) \cup Outdated(c, read)]
    /\ missed' = missed \ {c.n}

Refuse(c) ==
    /\ missed' = missed \cup {c.n}
    /\ UNCHANGED <<mirror, seen, overtaken>>

\* An update of a channel is read here, and merged and written by Merge.
Handle(j) ==
    LET c == j.change IN
    \/ ~ Accepts(c) /\ Refuse(c) /\ UNCHANGED merges
    \/ /\ Accepts(c) /\ c.op # "update"
       /\ Write(c, mirror.at[c.about])
       /\ UNCHANGED merges
    \/ /\ Accepts(c) /\ c.op = "update"
       /\ merges' = merges \cup {[job |-> j, read |-> mirror.at[c.about]]}
       /\ UNCHANGED <<mirror, seen, overtaken, missed>>

\* handleChannelUpdate upserts the merged row, whatever became of the one it read; a
\* Server row that is gone fails it.
Merge(m) ==
    /\ m \in merges
    /\ merges' = merges \ {m}
    /\ IF mirror.live THEN Write(m.job.change, m.read) ELSE Refuse(m.job.change)
    /\ UNCHANGED <<home, wire, requests, faults>>

Dispatch(j) ==
    /\ j \in outbox
    /\ outbox' = outbox \ {j}
    /\ Handle(j)
    /\ UNCHANGED <<home, late, requests, faults>>

\* No answer: the job is tried again, under a new nonce, or given up.
TimesOut(j) ==
    /\ j \in outbox
    /\ faults < MaxFaults
    /\ faults' = faults + 1
    /\ late' = late \cup {j}
    /\ IF j.left > 1
       THEN outbox' = (outbox \ {j}) \cup {[j EXCEPT !.left = @ - 1]} /\ UNCHANGED missed
       ELSE outbox' = outbox \ {j} /\ missed' = missed \cup {j.change.n}
    /\ UNCHANGED <<home, requests, applied>>

HandleLate(j) ==
    /\ j \in late
    /\ late' = late \ {j}
    /\ Handle(j)
    /\ UNCHANGED <<home, outbox, requests, faults>>

NeverArrives(j) ==
    /\ j \in late
    /\ late' = late \ {j}
    /\ UNCHANGED <<home, outbox, requests, applied, missed, faults>>

-----------------------------------------------------------------------------
(* -- the peer's users join ----------------------------------------------------- *)

Asks == made + asked < MaxEvents /\ asked' = asked + 1

AcceptAsk(g) ==
    /\ accept[g] = "idle"
    /\ accept' = [accept EXCEPT ![g] = "asked"]
    /\ Asks
    /\ told' = [told EXCEPT ![g] = IF leave[g] = "idle" THEN "joining" ELSE "none"]
    /\ UNCHANGED <<home, wire, leave, strayJoins, strayLeaves, revived, crossed, applied, missed,
                   faults>>

\* handleMemberJoinRequest at the home; invites and bans are Membership's.
Admit(g) ==
    /\ accept[g] = "asked"
    /\ accept' = [accept EXCEPT ![g] = "admitted"]
    /\ at' = [at EXCEPT ![g] = Admitted]
    /\ UNCHANGED <<pending, made, last, wire, leave, strayJoins, strayLeaves, revived, asked, told,
                   crossed, applied, missed, faults>>

\* 4xx, or 502 when ten seconds have gone by: the answer may be on its way, or the
\* request.
AcceptFails(g) ==
    /\ accept[g] \in {"asked", "admitted"}
    /\ accept' = [accept EXCEPT ![g] = "idle"]
    /\ strayJoins' = [strayJoins EXCEPT ![g] = IF accept[g] = "asked" THEN @ + 1 ELSE @]
    /\ told' = [told EXCEPT ![g] = "none"]
    /\ UNCHANGED <<home, wire, leave, strayLeaves, revived, asked, crossed, applied, missed, faults>>

\* The home admits a guest who was told that it cannot be reached.
AdmitLate(g) ==
    /\ strayJoins[g] > 0
    /\ strayJoins' = [strayJoins EXCEPT ![g] = @ - 1]
    /\ at' = [at EXCEPT ![g] = Admitted]
    /\ revived' = revived \cup {g}
    /\ UNCHANGED <<pending, made, last, wire, leave, accept, strayLeaves, asked, told, crossed,
                   applied, missed, faults>>

\* A transaction has counted no one and is about to delete the mirror.
TearingDown == \E g \in Guest : leave[g] = "last"

\* A mirror that is there gains a row, and nothing else of the snapshot is used;
\* a new one cannot be made of a snapshot that names the joiner (see Membership).
AcceptMirror(g) ==
    /\ accept[g] = "admitted"
    /\ accept' = [accept EXCEPT ![g] = "idle"]
    /\ mirror' = IF mirror.live THEN [mirror EXCEPT !.at[g] = Admitted] ELSE mirror
    /\ told' = [told EXCEPT ![g] = IF @ = "joining" /\ mirror.live /\ ~ TearingDown
                                   THEN "joined" ELSE "none"]
    /\ UNCHANGED <<home, wire, leave, strayJoins, strayLeaves, revived, asked, crossed, merges, seen,
                   overtaken, missed, faults>>

-----------------------------------------------------------------------------
(* -- and leave ------------------------------------------------------------------ *)

LeaveAsk(g) ==
    /\ leave[g] = "idle"
    /\ mirror.live /\ mirror.at[g] # Blank
    /\ Asks
    /\ leave' = [leave EXCEPT ![g] = "asked"]
    /\ told' = [told EXCEPT ![g] = IF accept[g] = "idle" THEN "leaving" ELSE "none"]
    /\ UNCHANGED <<home, wire, accept, strayJoins, strayLeaves, revived, crossed, applied, missed,
                   faults>>

\* handleMemberLeave: acknowledged whether or not there was a row; the leaver's
\* instance is left out of the fan-out.
HomeLets(g) ==
    /\ leave[g] = "asked"
    /\ leave' = [leave EXCEPT ![g] = "gone"]
    /\ at' = [at EXCEPT ![g] = Blank]
    /\ revived' = revived \ {g}
    /\ UNCHANGED <<pending, made, last, wire, accept, strayJoins, strayLeaves, asked, told, crossed,
                   applied, missed, faults>>

\* Mutant: a home that does not answer is taken to have let the user go.
LeaveFailsLocally(g) ==
    /\ leave[g] \in {"asked", "gone"}
    /\ leave' = [leave EXCEPT ![g] = "others"]
    /\ UNCHANGED <<home, wire, accept, strayJoins, strayLeaves, revived, asked, told, crossed, applied,
                   missed, faults>>

\* 4xx or 502, with the home's row deleted, or not, or not yet: nothing is changed here.
LeaveFails(g) ==
    /\ leave[g] \in {"asked", "gone"}
    /\ leave' = [leave EXCEPT ![g] = "idle"]
    /\ strayLeaves' = [strayLeaves EXCEPT ![g] = IF leave[g] = "asked" THEN @ + 1 ELSE @]
    /\ told' = [told EXCEPT ![g] = "none"]
    /\ UNCHANGED <<home, wire, accept, strayJoins, revived, asked, crossed, applied, missed, faults>>

\* The home lets go a guest who was told that it cannot be reached.
HomeLetsLate(g) ==
    /\ strayLeaves[g] > 0
    /\ strayLeaves' = [strayLeaves EXCEPT ![g] = @ - 1]
    /\ at' = [at EXCEPT ![g] = Blank]
    /\ UNCHANGED <<pending, made, last, wire, leave, accept, strayJoins, revived, asked, told, crossed,
                   applied, missed, faults>>

\* Mutant: members are counted with the leaver's row still there.
LeaveTxCountsLeaver(g) ==
    /\ leave[g] = "gone"
    /\ leave' = [leave EXCEPT ![g] = IF \E h \in Guest : mirror.at[h] # Blank THEN "others" ELSE "last"]
    /\ crossed' = (crossed \/ \E h \in Guest \ {g} : leave[h] \in {"last", "others"})
    /\ UNCHANGED <<home, wire, accept, strayJoins, strayLeaves, revived, asked, told, applied, missed,
                   faults>>

\* Mutant: the mirror is taken down with whoever leaves.
LeaveTxNoCount(g) ==
    /\ leave[g] = "gone"
    /\ leave' = [leave EXCEPT ![g] = "last"]
    /\ crossed' = (crossed \/ \E h \in Guest \ {g} : leave[h] \in {"last", "others"})
    /\ UNCHANGED <<home, wire, accept, strayJoins, strayLeaves, revived, asked, told, applied, missed,
                   faults>>

\* The row is deleted, uncommitted, and the committed rows of the peer's other
\* users are counted.
LeaveTx(g) ==
    /\ leave[g] = "gone"
    /\ leave' = [leave EXCEPT ![g] = IF \E h \in Guest \ {g} : mirror.at[h] # Blank
                                     THEN "others" ELSE "last"]
    /\ crossed' = (crossed \/ \E h \in Guest \ {g} : leave[h] \in {"last", "others"})
    /\ UNCHANGED <<home, wire, accept, strayJoins, strayLeaves, revived, asked, told, applied, missed,
                   faults>>

\* Rows go with the Server row.
LeaveCommit(g) ==
    /\ leave[g] \in {"last", "others"}
    /\ leave' = [leave EXCEPT ![g] = "idle"]
    /\ mirror' = IF leave[g] = "last" THEN [live |-> FALSE, at |-> [o \in Object |-> Blank]]
                                      ELSE [mirror EXCEPT !.at[g] = Blank]
    /\ told' = [told EXCEPT ![g] = IF @ = "leaving" THEN "left" ELSE "none"]
    /\ UNCHANGED <<home, wire, accept, strayJoins, strayLeaves, revived, asked, crossed, merges, seen,
                   overtaken, missed, faults>>

-----------------------------------------------------------------------------
Next ==
    \/ \E fields \in Patch : UpdateServer(fields) \/ \E c \in Channel : UpdateChannel(c, fields)
    \/ \E c \in Channel : CreateChannel(c) \/ DeleteChannel(c)
    \/ \E u \in Other : Join(u)
    \/ \E u \in Member, s \in {Owner, Staff} : AdminAdd(u, s) \/ Remove(u, s)
    \/ \E c \in pending : FanOut(c)
    \/ Crash
    \/ \E j \in outbox : Dispatch(j) \/ TimesOut(j)
    \/ \E j \in late : HandleLate(j) \/ NeverArrives(j)
    \/ \E m \in merges : Merge(m)
    \/ \E g \in Guest : \/ AcceptAsk(g) \/ Admit(g) \/ AcceptFails(g) \/ AdmitLate(g)
                        \/ AcceptMirror(g)
                        \/ LeaveAsk(g) \/ HomeLets(g) \/ LeaveFails(g) \/ HomeLetsLate(g)
                        \/ LeaveTx(g) \/ LeaveCommit(g)

Spec == Init /\ [][Next]_vars

-----------------------------------------------------------------------------
Row == [Object -> [Field -> 0..MaxEvents]]

\* Types; a job has a try left.
TypeOK ==
    /\ at \in Row /\ last \in Row /\ seen \in Row
    /\ pending \subseteq Change
    /\ outbox \subseteq Job /\ late \subseteq Job
    /\ merges \subseteq [job : Job, read : [Field -> 0..MaxEvents]]
    /\ mirror \in [live : BOOLEAN, at : Row]
    /\ leave \in [Guest -> {"idle", "asked", "gone", "last", "others"}]
    /\ accept \in [Guest -> {"idle", "asked", "admitted"}]
    /\ strayJoins \in [Guest -> Nat] /\ strayLeaves \in [Guest -> Nat]
    /\ faults \in 0..MaxFaults
    /\ made \in 1..MaxEvents /\ asked \in 0..MaxEvents
    /\ missed \subseteq 1..MaxEvents
    /\ overtaken \in [Object -> SUBSET Field]
    /\ told \in [Guest -> {"none", "joining", "joined", "leaving", "left"}]
    /\ crossed \in BOOLEAN /\ revived \subseteq Guest

\* Nothing is on its way to the peer.
Quiet == pending = {} /\ outbox = {} /\ late = {} /\ merges = {}
\* Members have no content: a row is there or not.
Same(o, f) == IF o \in Member THEN (at[o][f] = 0) <=> (mirror.at[o][f] = 0)
                             ELSE at[o][f] = mirror.at[o][f]

\* Once everything sent has arrived, been refused or been given up, every field of the
\* mirror's rows is as at the home, unless the last change of that field never got there
\* (the home crashed before the fan-out, had no member of the peer to address, gave up,
\* or was refused: a later create's update, a change the owner did not sign) or an older
\* value was written after a newer one (an older change arrived later, or a merge wrote
\* back what it had read).  A later change of another field repairs nothing, and spoils
\* nothing.
MirrorIsCurrent ==
    Quiet /\ mirror.live =>
        \A o \in Object \ Guest, f \in Field :
            Same(o, f) \/ last[o][f] \in missed \/ f \in overtaken[o]

\* A user told that they have left is not on the mirror, and not on the home's roster
\* unless a join of theirs that had failed reached the home after the leave; but for
\* requests to join made while leaving, or since.
LeftIsGone == \A g \in Guest :
    told[g] = "left" => mirror.at[g] = Blank /\ (at[g] = Blank \/ g \in revived)

\* A user told that they have joined finds the mirror, with their row on it, unless
\* another user's leave was taking it down at the time.
JoinedIsOnMirror == \A g \in Guest : told[g] = "joined" => mirror.live /\ mirror.at[g] # Blank

\* A mirror outlives its last user only if two leaves ran at once, each counting
\* the other's row.
NoOrphanMirror ==
    mirror.live => \/ \E g \in Guest : mirror.at[g] # Blank
                   \/ crossed
=============================================================================

------------------------------ MODULE Membership ------------------------------
(***************************************************************************)
(* Who is in one server, and how: bans (apps/api/src/services/              *)
(* ban-service.ts), one invite that local users join and register with      *)
(* (routes/invites.ts, auth-service.ts) and that users of a peer instance   *)
(* accept (federation-inbound.ts, federation-invites-accept.ts), kicks and  *)
(* the admin's remote members.                                              *)
(*                                                                          *)
(* A handler runs in a slot and is split where it rests on what it read     *)
(* before.  Transactions run at READ COMMITTED: each is a step for its      *)
(* check and a step for its conditional update, insert and commit, which    *)
(* row locks make one.                                                      *)
(***************************************************************************)
EXTENDS Naturals

CONSTANTS
    User,      \* user names, of this instance and of the peer
    Owner,     \* the server's owner
    Remote,    \* the users whose home is the peer
    Slot,      \* handlers running at the same time
    MaxUses,   \* the invite's maxUses
    MaxLost    \* bound: answers to the peer that are lost in one behaviour

ASSUME MembershipAssumption ==
    /\ Owner \in User
    /\ Remote \subseteq User \ {Owner}
    /\ MaxUses \in Nat
    /\ MaxLost \in Nat

VARIABLES
    account,   \* users with a User row here; a peer's user has a synthetic one
    member,    \* ServerMember rows
    ban,       \* ban[u]: the ServerBan row
    open,      \* the invite is neither revoked nor expired
    uses,      \* the invite's use count
    task,      \* task[s]: the handler in slot s
    mirror,    \* the peer's ServerMember rows of its mirror; {}: it has none
    lost,      \* answers lost so far
    excused    \* history: an admission and a ban of the user overlapped, or an admin added the user

vars == <<account, member, ban, open, uses, task, mirror, lost, excused>>

-----------------------------------------------------------------------------
Op == {"none", "list", "prune", "join", "admit", "register", "accept", "answer", "ban"}
\* `present`: what the handler read of the target's membership; `pruned`: its
\* transaction deletes the expired ban; `users`: the expired bans it read, or
\* the roster of the snapshot.
Task == [op : Op, user : User, present : BOOLEAN, pruned : BOOLEAN, users : SUBSET User]
Idle == [op |-> "none", user |-> Owner, present |-> FALSE, pruned |-> FALSE, users |-> {}]

Is(s, op) == task[s].op = op
Hold(s, op, u, present, pruned, users) ==
    task' = [task EXCEPT ![s] = [op |-> op, user |-> u, present |-> present,
                                 pruned |-> pruned, users |-> users]]
Finish(s) == task' = [task EXCEPT ![s] = Idle]

Redeemable == open /\ uses < MaxUses
Expired == {u \in User : ban[u] = "expired"}

\* delete({ where: serverId, userId }): by key, whatever the row now says.
Lifted(users) == [u \in User |-> IF u \in users THEN "none" ELSE ban[u]]

\* An admission of u has passed its ban check and not committed.
Admitting(u) == \E s \in Slot : /\ task[s].op \in {"admit", "accept"}
                                /\ task[s].user = u
                                /\ ~ task[s].present
\* A ban of u has read that u is no member and not committed.
Banning(u) == \E s \in Slot : Is(s, "ban") /\ task[s].user = u /\ ~ task[s].present
Excuse(users) == excused' = excused \cup users

Init ==
    /\ account = {Owner}
    /\ member = {Owner}
    /\ ban = [u \in User |-> "none"]
    /\ open = TRUE
    /\ uses = 0
    /\ task = [s \in Slot |-> Idle]
    /\ mirror = {}
    /\ lost = 0
    /\ excused = {}

-----------------------------------------------------------------------------
(* -- local admissions ------------------------------------------------------ *)

\* One use of the invite and one row, or neither: updateMany on the open invite
\* with uses < maxUses, then the insert, which a row with that key rolls back.
Admit(u, pruned) ==
    /\ uses' = uses + 1
    /\ member' = member \cup {u}
    /\ ban' = IF pruned THEN Lifted({u}) ELSE ban
    /\ Excuse(IF Banning(u) THEN {u} ELSE {})

\* The checks before the transaction; isBanned finds an expired ban to delete.
Join(s, u) ==
    /\ u \in account \ (Remote \cup member)
    /\ Redeemable
    /\ ban[u] # "active"
    /\ Is(s, "none")
    /\ Hold(s, IF ban[u] = "expired" THEN "prune" ELSE "join", u, FALSE, FALSE, {})
    /\ UNCHANGED <<account, member, ban, open, uses, mirror, lost, excused>>

JoinPrune(s) ==
    /\ Is(s, "prune")
    /\ ban' = Lifted({task[s].user})
    /\ Hold(s, "join", task[s].user, FALSE, FALSE, {})
    /\ UNCHANGED <<account, member, open, uses, mirror, lost, excused>>

\* Mutant: the transaction relies on the ban check made before it.
JoinWithoutRecheck(s) ==
    /\ Is(s, "join")
    /\ Hold(s, "admit", task[s].user, FALSE, FALSE, {})
    /\ UNCHANGED <<account, member, ban, open, uses, mirror, lost, excused>>

\* The ban is read again in the transaction.
JoinCheck(s) ==
    LET u == task[s].user IN
    /\ Is(s, "join")
    /\ IF ban[u] = "active" THEN Finish(s)
                            ELSE Hold(s, "admit", u, FALSE, ban[u] = "expired", {})
    /\ UNCHANGED <<account, member, ban, open, uses, mirror, lost, excused>>

\* Mutant: the use count is only checked before the transaction.
JoinCommitUnbounded(s) ==
    /\ Is(s, "admit")
    /\ IF open /\ task[s].user \notin member
       THEN Admit(task[s].user, task[s].pruned)
       ELSE UNCHANGED <<member, ban, uses, excused>>
    /\ Finish(s)
    /\ UNCHANGED <<account, open, mirror, lost>>

JoinCommit(s) ==
    /\ Is(s, "admit")
    /\ IF Redeemable /\ task[s].user \notin member
       THEN Admit(task[s].user, task[s].pruned)
       ELSE UNCHANGED <<member, ban, uses, excused>>
    /\ Finish(s)
    /\ UNCHANGED <<account, open, mirror, lost>>

\* register: the pre-flight checks, then the password is hashed.
Register(s, u) ==
    /\ u \notin account \cup Remote
    /\ Redeemable
    /\ Is(s, "none")
    /\ Hold(s, "register", u, FALSE, FALSE, {})
    /\ UNCHANGED <<account, member, ban, open, uses, mirror, lost, excused>>

RegisterCommit(s) ==
    LET u == task[s].user IN
    /\ Is(s, "register")
    /\ IF Redeemable /\ u \notin account
       THEN account' = account \cup {u} /\ Admit(u, FALSE)
       ELSE UNCHANGED <<account, member, ban, uses, excused>>
    /\ Finish(s)
    /\ UNCHANGED <<open, mirror, lost>>

-----------------------------------------------------------------------------
(* -- admissions from the peer ---------------------------------------------- *)

\* member.join_request: the gates on the invite, the ban check and the read of
\* the membership, in one transaction.
Accept(s, u) ==
    /\ u \in Remote
    /\ Is(s, "none")
    /\ Redeemable
    /\ ban[u] # "active"
    /\ Hold(s, "accept", u, u \in member, ban[u] = "expired", {})
    /\ UNCHANGED <<account, member, ban, open, uses, mirror, lost, excused>>

\* Mutant: a use is taken from the invite although the user is in already.
AcceptCommitChargesAll(s) ==
    LET u == task[s].user IN
    /\ Is(s, "accept")
    /\ IF Redeemable /\ (task[s].present \/ u \notin member)
       THEN /\ uses' = uses + 1
            /\ member' = IF task[s].present THEN member ELSE member \cup {u}
            /\ ban' = IF task[s].pruned THEN Lifted({u}) ELSE ban
            /\ Excuse(IF Banning(u) /\ ~ task[s].present THEN {u} ELSE {})
            /\ account' = account \cup {u}
            /\ Hold(s, "answer", u, FALSE, FALSE, member')
       ELSE UNCHANGED <<account, member, ban, uses, excused>> /\ Finish(s)
    /\ UNCHANGED <<open, mirror, lost>>

\* The insert and the use, for a user who was not in; then the snapshot, which
\* goes back in the signed answer.  An insert that meets a row ends in 409.
AcceptCommit(s) ==
    LET u == task[s].user IN
    /\ Is(s, "accept")
    /\ IF task[s].present \/ (Redeemable /\ u \notin member)
       THEN /\ IF task[s].present
               THEN /\ ban' = IF task[s].pruned THEN Lifted({u}) ELSE ban
                    /\ UNCHANGED <<member, uses, excused>>
               ELSE Admit(u, task[s].pruned)
            /\ account' = account \cup {u}
            /\ Hold(s, "answer", u, FALSE, FALSE, member')
       ELSE UNCHANGED <<account, member, ban, uses, excused>> /\ Finish(s)
    /\ UNCHANGED <<open, mirror, lost>>

\* A timeout or a broken connection: 502, and the peer stores nothing.
AnswerLost(s) ==
    /\ Is(s, "answer")
    /\ lost < MaxLost
    /\ lost' = lost + 1
    /\ Finish(s)
    /\ UNCHANGED <<account, member, ban, open, uses, mirror, excused>>

\* The answer arrives at the peer.  A mirror gains the user's row.  To make one,
\* every member of the snapshot is resolved as a remote user: the peer's own
\* users have no RemoteUser row there and its own host is none of its peers, so
\* one of them rolls the transaction back.
Mirror(s) ==
    /\ Is(s, "answer")
    /\ mirror' = IF mirror # {} THEN mirror \cup {task[s].user}
                 ELSE IF task[s].users \cap Remote = {} THEN task[s].users \cup {task[s].user}
                 ELSE {}
    /\ Finish(s)
    /\ UNCHANGED <<account, member, ban, open, uses, lost, excused>>

\* POST /api/admin/servers/:id/remote-members: no invite and no ban check.
AdminAdd(u) ==
    /\ u \in Remote
    /\ account' = account \cup {u}
    /\ member' = member \cup {u}
    /\ Excuse({u})
    /\ UNCHANGED <<ban, open, uses, task, mirror, lost>>

-----------------------------------------------------------------------------
(* -- removals and bans ----------------------------------------------------- *)

Kick(u) ==
    /\ u \in member \ {Owner}
    /\ member' = member \ {u}
    /\ UNCHANGED <<account, ban, open, uses, task, mirror, lost, excused>>

\* banMember reads the server and the target's membership..
Ban(s, u) ==
    /\ u \in account \ {Owner}
    /\ Is(s, "none")
    /\ Hold(s, "ban", u, u \in member, FALSE, {})
    /\ UNCHANGED <<account, member, ban, open, uses, mirror, lost, excused>>

\* ..and upserts the ban and deletes the membership it read; one that is gone
\* by then fails the transaction, and the ban with it.
BanCommit(s) ==
    LET u == task[s].user IN
    /\ Is(s, "ban")
    /\ IF task[s].present /\ u \notin member
       THEN UNCHANGED <<member, ban, excused>>
       ELSE /\ ban' = [ban EXCEPT ![u] = "active"]
            /\ member' = IF task[s].present THEN member \ {u} ELSE member
            /\ Excuse(IF Admitting(u) THEN {u} ELSE {})
    /\ Finish(s)
    /\ UNCHANGED <<account, open, uses, mirror, lost>>

Unban(u) ==
    /\ ban[u] # "none"
    /\ ban' = Lifted({u})
    /\ UNCHANGED <<account, member, open, uses, task, mirror, lost, excused>>

\* expiresAt passes.
BanExpires(u) ==
    /\ ban[u] = "active"
    /\ ban' = [ban EXCEPT ![u] = "expired"]
    /\ UNCHANGED <<account, member, open, uses, task, mirror, lost, excused>>

\* listBans reads the rows and then deletes, by key, those it found expired.
ListBans(s) ==
    /\ Is(s, "none")
    /\ Expired # {}
    /\ Hold(s, "list", Owner, FALSE, FALSE, Expired)
    /\ UNCHANGED <<account, member, ban, open, uses, mirror, lost, excused>>

ListPrune(s) ==
    /\ Is(s, "list")
    /\ ban' = Lifted(task[s].users)
    /\ Finish(s)
    /\ UNCHANGED <<account, member, open, uses, mirror, lost, excused>>

\* The invite is revoked or expires.
InviteCloses ==
    /\ open
    /\ open' = FALSE
    /\ UNCHANGED <<account, member, ban, uses, task, mirror, lost, excused>>

-----------------------------------------------------------------------------
Next ==
    \/ \E s \in Slot, u \in User : Join(s, u) \/ Register(s, u) \/ Accept(s, u) \/ Ban(s, u)
    \/ \E s \in Slot :
          \/ JoinPrune(s) \/ JoinCheck(s) \/ JoinCommit(s) \/ RegisterCommit(s)
          \/ AcceptCommit(s) \/ AnswerLost(s) \/ Mirror(s)
          \/ BanCommit(s) \/ ListBans(s) \/ ListPrune(s)
    \/ \E u \in User : AdminAdd(u) \/ Kick(u) \/ Unban(u) \/ BanExpires(u)
    \/ InviteCloses

Spec == Init /\ [][Next]_vars

-----------------------------------------------------------------------------
\* Types; the owner is in and not banned, and whoever is in or banned has a row.
TypeOK ==
    /\ Owner \in member
    /\ ban[Owner] = "none"
    /\ account \subseteq User
    /\ member \subseteq account
    /\ ban \in [User -> {"none", "active", "expired"}]
    /\ \A u \in User \ account : ban[u] = "none"
    /\ open \in BOOLEAN
    /\ uses \in Nat
    /\ task \in [Slot -> Task]
    /\ mirror \subseteq User
    /\ lost \in 0..MaxLost
    /\ excused \subseteq User

\* However many joins, registrations and accepts race for the last use, the
\* invite admits no more than maxUses ("RACE: atomic check-and-increment",
\* invites.ts; "the classic check-then-act race", auth-service.ts).
InviteIsBounded == uses <= MaxUses

\* A use is taken exactly when someone comes in: a lost race, a repeated accept
\* or a rolled-back insert costs nothing, and nobody but an admin's guest comes
\* in for free.
UsePerAdmission ==
    [][/\ uses' # uses => uses' = uses + 1 /\ \E u \in User : member' \ member = {u}
       /\ uses' = uses => member' \subseteq member \/ \E u \in User : AdminAdd(u)]_vars

\* A banned user is a member only when the ban and an admission overlapped or an
\* admin added the user: a ban that committed before the admission's own check
\* in the transaction keeps the user out, and one that saw the row removes it.
BannedMemberIsExcused == \A u \in member : ban[u] = "active" => u \in excused

-----------------------------------------------------------------------------
(* What the repository says and the runs refute.                             *)

\* Without an admin's help a banned user is no member.
BannedIsNotMember == \A u \in member \ Remote : ban[u] # "active"

\* Only time and a moderator end a ban: the cleanup of expired rows does not.
CleanupSparesBans ==
    [][\A s \in Slot, u \in User : (JoinPrune(s) \/ ListPrune(s)) /\ ban[u] = "active" => ban'[u] = "active"]_vars

\* A member.joined answer that reaches the peer gives it a mirror with the user in it.
AnsweredJoinIsMirrored == [][\A s \in Slot : Mirror(s) => task[s].user \in mirror']_vars
=============================================================================

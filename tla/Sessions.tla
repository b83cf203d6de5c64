------------------------------- MODULE Sessions -------------------------------
(***************************************************************************)
(* The sessions of one account (apps/api/src/services/auth-service.ts and   *)
(* the session routes of apps/api/src/routes/account.ts): login in one step *)
(* or two, refresh with rotation and reuse detection, logout, password      *)
(* change and reset, and the cap on active sessions.                        *)
(*                                                                          *)
(* Every handler runs in a slot of Request and is split at each awaited     *)
(* statement, so handlers interleave between a read and the write that      *)
(* rests on it; a statement or a $transaction is one step, as in Postgres.  *)
(* Sessions are numbered by createdAt.  Tokens that have expired or do not  *)
(* match are refused with nothing written, and are left out.                *)
(***************************************************************************)
EXTENDS Naturals, FiniteSets, SequencesExt

CONSTANTS
    Request,       \* slots for the handlers running at the same time
    ResetToken,    \* bound: password-reset links minted in one behaviour
    MaxSessions,   \* bound: sessions created in one behaviour
    MaxPasswords,  \* bound: passwords the account has had
    SecondFactor,  \* whether the account may have two-factor authentication on
    Cap            \* MAX_ACTIVE_SESSIONS_PER_USER

ASSUME SessionsAssumption ==
    /\ MaxSessions \in Nat
    /\ MaxPasswords \in Nat \ {0}
    /\ Cap \in Nat
    /\ SecondFactor \in BOOLEAN

VARIABLES
    sess,      \* sess[s]: the Session row numbered s
    made,      \* sessions created so far
    password,  \* number of the password that passwordHash holds
    resets,    \* resets[t]: the PasswordReset row of link t
    lapsed,    \* scheduledDeleteAt is in the past
    req,       \* req[r]: the handler running in slot r
    tickets,   \* staged tokens: the passwords they were handed out for
    lost,      \* history: a prune failed and no session was created since
    swept      \* history: sessions there were when all had to go, and what carries them on

vars == <<sess, made, password, resets, lapsed, req, tickets, lost, swept>>

-----------------------------------------------------------------------------
Session == 1..MaxSessions
None == 0

\* `ended` is "no" while revokedAt is null.  History, not columns of the row:
\* whether it was revoke-others that ended it, the session its lineage started
\* with, and the password that one was started with.
Row == [ended : {"unmade", "no", "revoked", "others"}, line : Session \cup {None}, pw : 0..MaxPasswords]
Unmade == [ended |-> "unmade", line |-> None, pw |-> 0]

Active(s) == sess[s].ended = "no"
ActiveSessions == {s \in Session : Active(s)}

\* updateMany({ where: .. revokedAt: null, id in set }).
Ended(set, cause) ==
    [s \in Session |-> IF s \in set /\ Active(s) THEN [sess[s] EXCEPT !.ended = cause] ELSE sess[s]]

Idle == [pc |-> "idle", sid |-> None, line |-> None, pw |-> 0, tok |-> "none",
         overflow |-> 0, victims |-> {}, swept |-> FALSE]
Pc == {"idle", "stage", "reuse", "user", "lapsed", "rotate", "issue", "change", "reset",
       "count", "pick", "prune"}
Handler == [pc : Pc, sid : Session \cup {None}, line : Session \cup {None},
            pw : 0..MaxPasswords, tok : ResetToken \cup {"none"},
            overflow : Nat, victims : SUBSET Session, swept : BOOLEAN]

At(r, pc) == req[r].pc = pc
Goto(r, pc) == req' = [req EXCEPT ![r].pc = pc]
Finish(r) == req' = [req EXCEPT ![r] = Idle]

Init ==
    /\ sess = [s \in Session |-> Unmade]
    /\ made = 0
    /\ password = 1
    /\ resets = [t \in ResetToken |-> "unmade"]
    /\ lapsed = FALSE
    /\ req = [r \in Request |-> Idle]
    /\ tickets = {}
    /\ lost = FALSE
    /\ swept = {}

\* updateMany over all sessions of the user that are not revoked.
EndAll(cause) ==
    /\ sess' = Ended(Session, cause)
    /\ swept' = 1..made

-----------------------------------------------------------------------------
(* login, register, WebAuthn: the credential is checked against the user row *)
(* that was read, and a session is issued later.  With two-factor on in that *)
(* row, login answers with a staged token instead.                           *)
Login(r) ==
    /\ At(r, "idle")
    /\ \E pc \in {"issue", "stage"} :
        /\ pc = "stage" => SecondFactor
        /\ req' = [req EXCEPT ![r] = [Idle EXCEPT !.pc = pc, !.pw = password]]
    /\ UNCHANGED <<sess, made, password, resets, lapsed, tickets, lost, swept>>

\* signStagedTotpToken names the user and the time it expires, not the password.
LoginStages(r) ==
    /\ At(r, "stage")
    /\ tickets' = tickets \cup {req[r].pw}
    /\ Finish(r)
    /\ UNCHANGED <<sess, made, password, resets, lapsed, lost, swept>>

\* loginTotp with the right code: the signature and the expiry are all it asks of
\* the token, which stays good for another code.
LoginTotp(r, pw) ==
    /\ At(r, "idle")
    /\ pw \in tickets
    /\ req' = [req EXCEPT ![r] = [Idle EXCEPT !.pc = "issue", !.pw = pw]]
    /\ UNCHANGED <<sess, made, password, resets, lapsed, tickets, lost, swept>>

StagedExpires(pw) ==
    /\ pw \in tickets
    /\ tickets' = tickets \ {pw}
    /\ UNCHANGED <<sess, made, password, resets, lapsed, req, lost, swept>>

(* -- refresh -------------------------------------------------------------- *)

\* The session row is read; a revoked one trips the reuse detection.
RefreshRead(r, s) ==
    /\ At(r, "idle")
    /\ s <= made
    /\ req' = [req EXCEPT ![r] = [Idle EXCEPT !.pc = IF Active(s) THEN "user" ELSE "reuse",
                                              !.sid = s, !.line = sess[s].line, !.pw = sess[s].pw]]
    /\ UNCHANGED <<sess, made, password, resets, lapsed, tickets, lost, swept>>

\* Reuse detection: every active session is revoked.
RefreshReuse(r) ==
    /\ At(r, "reuse")
    /\ EndAll("revoked")
    /\ Finish(r)
    /\ UNCHANGED <<made, password, resets, lapsed, tickets, lost>>

\* The user row is read for scheduledDeleteAt.
RefreshUser(r) ==
    /\ At(r, "user")
    /\ Goto(r, IF lapsed THEN "lapsed" ELSE "rotate")
    /\ UNCHANGED <<sess, made, password, resets, lapsed, tickets, lost, swept>>

\* Past the grace window: the session is burnt.
RefreshLapsed(r) ==
    /\ At(r, "lapsed")
    /\ sess' = Ended({req[r].sid}, "revoked")
    /\ Finish(r)
    /\ UNCHANGED <<made, password, resets, lapsed, tickets, lost, swept>>

\* The refresh goes on to create the successor of its session.
CarryOn(r) == req' = [req EXCEPT ![r].pc = "issue", ![r].swept = req[r].sid \in swept]

\* Mutant: an unconditional update, which every concurrent refresh wins.
RotateUnconditionally(r) ==
    /\ At(r, "rotate")
    /\ sess' = Ended({req[r].sid}, "revoked")
    /\ CarryOn(r)
    /\ UNCHANGED <<made, password, resets, lapsed, tickets, lost, swept>>

\* Mutant: the rotated session is not revoked.
RotateKeepsOld(r) ==
    /\ At(r, "rotate")
    /\ IF Active(req[r].sid) THEN CarryOn(r) ELSE Finish(r)
    /\ UNCHANGED <<sess, made, password, resets, lapsed, tickets, lost, swept>>

\* updateMany where revokedAt is null: the loser is rejected.
RefreshRotate(r) ==
    /\ At(r, "rotate")
    /\ sess' = Ended({req[r].sid}, "revoked")
    /\ IF Active(req[r].sid) THEN CarryOn(r) ELSE Finish(r)
    /\ UNCHANGED <<made, password, resets, lapsed, tickets, lost, swept>>

(* -- issueSession and the detached pruneOldestSessions -------------------- *)

\* Mutant: the session that was just created is not counted.
IssueSessionUncounted(r) ==
    LET s == made + 1 IN
    /\ At(r, "issue")
    /\ made < MaxSessions
    /\ made' = s
    /\ sess' = [sess EXCEPT ![s] = [ended |-> "no", line |-> s, pw |-> req[r].pw]]
    /\ Finish(r)
    /\ lost' = FALSE
    /\ UNCHANGED <<password, resets, lapsed, tickets, swept>>

\* session.create; the response is sent and the prune starts.
IssueSession(r) ==
    LET s == made + 1 IN
    /\ At(r, "issue")
    /\ made < MaxSessions
    /\ made' = s
    /\ sess' = [sess EXCEPT ![s] =
                   [ended |-> "no", line |-> IF req[r].line = None THEN s ELSE req[r].line,
                    pw |-> req[r].pw]]
    /\ req' = [req EXCEPT ![r] = [Idle EXCEPT !.pc = "count"]]
    /\ swept' = IF req[r].swept THEN swept \cup {s} ELSE swept
    /\ lost' = FALSE
    /\ UNCHANGED <<password, resets, lapsed, tickets>>

\* session.count.
PruneCount(r) ==
    LET n == Cardinality(ActiveSessions) IN
    /\ At(r, "count")
    /\ IF n <= Cap THEN Finish(r)
       ELSE req' = [req EXCEPT ![r].pc = "pick", ![r].overflow = n - Cap]
    /\ UNCHANGED <<sess, made, password, resets, lapsed, tickets, lost, swept>>

\* The n oldest sessions that are active.
Oldest(n) == {s \in ActiveSessions : Cardinality({o \in ActiveSessions : o < s}) < n}

\* findMany, oldest first, `take: overflow`.
PrunePick(r) ==
    /\ At(r, "pick")
    /\ IF ActiveSessions = {} THEN Finish(r)
       ELSE req' = [req EXCEPT ![r].pc = "prune", ![r].victims = Oldest(req[r].overflow)]
    /\ UNCHANGED <<sess, made, password, resets, lapsed, tickets, lost, swept>>

\* updateMany on the ids that were picked.
PruneRevoke(r) ==
    /\ At(r, "prune")
    /\ sess' = Ended(req[r].victims, "revoked")
    /\ Finish(r)
    /\ UNCHANGED <<made, password, resets, lapsed, tickets, lost, swept>>

\* A statement of the prune fails: `.catch(() => undefined)`.
PruneFails(r) ==
    /\ req[r].pc \in {"count", "pick", "prune"}
    /\ Finish(r)
    /\ lost' = TRUE
    /\ UNCHANGED <<sess, made, password, resets, lapsed, tickets, swept>>

(* -- revocations ---------------------------------------------------------- *)

\* logout, and DELETE /api/me/sessions/:id.
Logout(r, s) ==
    /\ At(r, "idle")
    /\ s <= made
    /\ sess' = Ended({s}, "revoked")
    /\ UNCHANGED <<made, password, resets, lapsed, req, tickets, lost, swept>>

\* POST /api/me/sessions/revoke-others.
RevokeOthers(r) ==
    /\ At(r, "idle")
    /\ EndAll("others")
    /\ UNCHANGED <<made, password, resets, lapsed, req, tickets, lost>>

(* -- passwords ------------------------------------------------------------ *)

\* changePassword verifies the current password against the row it read ...
ChangeRead(r) ==
    /\ At(r, "idle")
    /\ password < MaxPasswords
    /\ Goto(r, "change")
    /\ UNCHANGED <<sess, made, password, resets, lapsed, tickets, lost, swept>>

\* The new hash and the revocation of every session commit together.  Staged
\* tokens are stored nowhere and stay good.
NewPassword ==
    /\ password < MaxPasswords
    /\ password' = password + 1
    /\ EndAll("revoked")

\* ... and commits the transaction.
ChangeCommit(r) ==
    /\ At(r, "change")
    /\ NewPassword
    /\ Finish(r)
    /\ UNCHANGED <<made, resets, lapsed, tickets, lost>>

\* forgotPassword.  The cooldown may or may not have run out, and concurrent
\* calls do not see each other's rows: a live link never prevents a new one.
ForgotPassword(t) ==
    /\ resets[t] = "unmade"
    /\ resets' = [resets EXCEPT ![t] = "live"]
    /\ UNCHANGED <<sess, made, password, lapsed, req, tickets, lost, swept>>

\* resetPassword checks the link ...
ResetRead(r, t) ==
    /\ At(r, "idle")
    /\ resets[t] = "live"
    /\ req' = [req EXCEPT ![r] = [Idle EXCEPT !.pc = "reset", !.tok = t]]
    /\ UNCHANGED <<sess, made, password, resets, lapsed, tickets, lost, swept>>

\* ... and commits: hash, sessions, and every link that is still live.
ResetCommit(r) ==
    /\ At(r, "reset")
    /\ NewPassword
    /\ resets' = [t \in ResetToken |-> IF resets[t] = "live" THEN "used" ELSE resets[t]]
    /\ Finish(r)
    /\ UNCHANGED <<made, lapsed, tickets, lost>>

\* scheduledDeleteAt passes.
Lapse ==
    /\ ~lapsed
    /\ lapsed' = TRUE
    /\ UNCHANGED <<sess, made, password, resets, req, tickets, lost, swept>>

-----------------------------------------------------------------------------
Next ==
    \/ \E r \in Request :
        \/ Login(r) \/ LoginStages(r)
        \/ \E pw \in tickets : LoginTotp(r, pw)
        \/ RefreshReuse(r) \/ RefreshUser(r) \/ RefreshLapsed(r) \/ RefreshRotate(r)
        \/ IssueSession(r)
        \/ PruneCount(r) \/ PrunePick(r) \/ PruneRevoke(r) \/ PruneFails(r)
        \/ RevokeOthers(r)
        \/ ChangeRead(r) \/ ChangeCommit(r)
        \/ ResetCommit(r)
        \/ \E s \in Session : RefreshRead(r, s) \/ Logout(r, s)
        \/ \E t \in ResetToken : ResetRead(r, t)
    \/ \E t \in ResetToken : ForgotPassword(t)
    \/ \E pw \in tickets : StagedExpires(pw)
    \/ Lapse

Spec == Init /\ [][Next]_vars

-----------------------------------------------------------------------------
(* Properties.                                                               *)

\* Types; rows exist exactly for the sessions that were created.
TypeOK ==
    /\ sess \in [Session -> Row]
    /\ made \in 0..MaxSessions
    /\ \A s \in Session : sess[s].ended = "unmade" <=> s > made
    /\ password \in 1..MaxPasswords
    /\ resets \in [ResetToken -> {"unmade", "live", "used"}]
    /\ lapsed \in BOOLEAN
    /\ req \in [Request -> Handler]
    /\ tickets \subseteq 0..MaxPasswords
    /\ lost \in BOOLEAN
    /\ swept \subseteq 1..made

\* A refresh token has one successor, so a lineage never forks: of all the
\* sessions that descend from one login at most one is active, whatever
\* refreshes race (the conditional updateMany, auth-service.ts:596-610).
LineageHasOneActive ==
    \A s, t \in Session :
        Active(s) /\ Active(t) /\ sess[s].line = sess[t].line => s = t

\* Once no handler runs, at most Cap sessions are active, or a prune has failed
\* since the last session was created (issueSession, 850-854).
CapHoldsWhenQuiet ==
    (\A r \in Request : At(r, "idle")) /\ ~lost => Cardinality(ActiveSessions) <= Cap

\* "Revoke any sessions for this user beyond the cap" (867): a prune leaves the
\* newest Cap sessions alone.
PruneKeepsCap ==
    [][\A r \in Request : PruneRevoke(r) =>
          \A s \in Session : sess'[s] # sess[s] =>
              Cardinality({t \in ActiveSessions : t > s}) >= Cap]_vars

\* After revoke-others "the caller will be re-issued one on the next /refresh"
\* (account.ts:133): a session ended that way is no reuse.
RevokeOthersIsNoReuse ==
    \A r \in Request : At(r, "reuse") => sess[req[r].sid].ended # "others"

\* "the caller must re-authenticate after a successful change" (779): no active
\* session descends from a login with an earlier password.
ActiveSessionKnowsPassword ==
    \A s \in Session : Active(s) => sess[s].pw = password

\* A new password, revoke-others and the reuse detection end every session there
\* is, with whatever carries it on: once one of them has committed, no refresh
\* that had yet to rotate brings a session of before back, at whatever point it
\* was overtaken (changePassword, 805-814; the conditional rotation, 596-610).
\* It is silent on who was past that point: a refresh that has rotated, a login
\* that has checked the password, and a staged token.
RevocationEndsSessions ==
    \A s \in swept : ~Active(s)

\* What an account's sessions promise: see AccountSessions.  A lineage is good for
\* the sessions of it that are active, and passed on by a refresh that has
\* rotated and not yet created the successor.
Held == [l \in Session |-> {s \in Session : Active(s) /\ sess[s].line = l}]
Passing == {l \in Session : \E r \in Request : At(r, "issue") /\ req[r].line = l}
Abstract == INSTANCE AccountSessions WITH held <- Held, passing <- Passing

\* However handlers interleave, the account's sessions change only as that says: a
\* refresh spends the one good session of its lineage and issues one successor,
\* and nothing but a login starts a lineage (548-624, 827-864).
KeepsSessionsApart == Abstract!Spec

\* "The token is single-use" (routes/auth.ts:232): a reset commits only on a
\* link that no earlier reset has consumed or burnt.
ResetLinkSingleUse ==
    [][\A r \in Request : ResetCommit(r) => resets[req[r].tok] = "live"]_vars
=============================================================================

---------------------------- MODULE SessionsProofs ----------------------------
(***************************************************************************)
(* Proofs about Sessions, for any number of concurrent handlers, sessions,  *)
(* links and passwords: types, lineages, what a revocation ends, that       *)
(* Sessions implements AccountSessions, and the cap; and what holds without *)
(* exception when handlers do not overlap.                                  *)
(***************************************************************************)
EXTENDS Sessions, FiniteSetTheorems, TLAPS

\* The strengthening that makes LineageHasOneActive inductive.  A lineage is
\* held either by its one active session or by the one refresh that has rotated
\* a session of it and not yet created the successor.
LinesExist ==
    /\ \A s \in Session : s <= made => sess[s].line \in 1..made
    /\ \A r \in Request : req[r].line \in 0..made

RefreshKnowsLine ==
    \A r \in Request : req[r].pc \in {"user", "rotate"} =>
        /\ req[r].sid \in 1..made
        /\ sess[req[r].sid].line = req[r].line

Holder(r) == At(r, "issue") /\ req[r].line # None

SuccessorIsOnlyHolder ==
    /\ \A r \in Request, s \in Session :
           Holder(r) /\ Active(s) => sess[s].line # req[r].line
    /\ \A q, r \in Request :
           Holder(q) /\ Holder(r) /\ req[q].line = req[r].line => q = r

LineageInv == LinesExist /\ RefreshKnowsLine /\ SuccessorIsOnlyHolder /\ LineageHasOneActive

IInv == TypeOK /\ LineageInv

-----------------------------------------------------------------------------
(* Lemmas.                                                                   *)

\* A statement that sets revokedAt (updateMany where revokedAt is null) keeps
\* the rows' types, lineages and passwords and activates nothing.
LEMMA EndedRevokes ==
    ASSUME TypeOK, NEW set, NEW cause \in {"revoked", "others"}, sess' = Ended(set, cause)
    PROVE  /\ sess' \in [Session -> Row]
           /\ \A s \in Session : /\ sess'[s].line = sess[s].line /\ sess'[s].pw = sess[s].pw
                                 /\ sess'[s].ended = "no" => sess[s].ended = "no"
                                 /\ sess'[s].ended = "unmade" <=> sess[s].ended = "unmade"
                                 /\ s \in set => sess'[s].ended # "no"
<1>1. ASSUME NEW s \in Session
      PROVE  /\ sess'[s] \in Row
             /\ sess'[s].line = sess[s].line /\ sess'[s].pw = sess[s].pw
             /\ sess'[s].ended = "no" => sess[s].ended = "no"
             /\ sess'[s].ended = "unmade" <=> sess[s].ended = "unmade"
             /\ s \in set => sess'[s].ended # "no"
  <2>1. CASE s \in set /\ Active(s)
    <3>1. sess'[s] = [sess[s] EXCEPT !.ended = cause]
      BY <2>1 DEF Ended
    <3>2. QED
      BY <2>1, <3>1 DEF TypeOK, Row, Active
  <2>2. CASE ~(s \in set /\ Active(s))
    <3>1. sess'[s] = sess[s]
      BY <2>2 DEF Ended
    <3>2. QED
      BY <2>2, <3>1 DEF TypeOK, Active
  <2>3. QED
    BY <2>1, <2>2
<1>2. sess' \in [Session -> Row]
  BY <1>1 DEF Ended
<1>3. QED
  BY <1>1, <1>2

\* The number of active sessions is a natural number.
LEMMA ActiveFinite == ASSUME TypeOK PROVE Cardinality(ActiveSessions) \in Nat
<1>1. IsFiniteSet(Session)
  BY SessionsAssumption, FS_Interval DEF Session
<1>2. IsFiniteSet(ActiveSessions)
  BY <1>1, FS_Subset DEF ActiveSessions
<1>3. QED
  BY <1>2, FS_CardinalityType

-----------------------------------------------------------------------------
(* Type correctness.                                                         *)

LEMMA TypeInit == Init => TypeOK
<1> SUFFICES ASSUME Init PROVE TypeOK
  OBVIOUS
<1>1. Unmade \in Row
  BY SessionsAssumption DEF Unmade, Row, None
<1>2. Idle \in Handler
  BY SessionsAssumption DEF Idle, Handler, Pc, None
<1>3. sess \in [Session -> Row] /\ req \in [Request -> Handler]
  BY <1>1, <1>2 DEF Init
<1>4. made \in 0..MaxSessions /\ password \in 1..MaxPasswords
  BY SessionsAssumption DEF Init
<1>5. \A s \in Session : sess[s].ended = "unmade" <=> s > made
  BY DEF Init, Session, Unmade
<1>6. resets \in [ResetToken -> {"unmade", "live", "used"}] /\ lapsed \in BOOLEAN /\ lost \in BOOLEAN
      /\ tickets \subseteq 0..MaxPasswords /\ swept \subseteq 1..made
  BY DEF Init
<1>7. QED
  BY <1>3, <1>4, <1>5, <1>6 DEF TypeOK

LEMMA TypeNext == TypeOK /\ [Next]_vars => TypeOK'
<1> SUFFICES ASSUME TypeOK, [Next]_vars PROVE TypeOK'
  OBVIOUS
<1> USE SessionsAssumption
<1>0. Idle \in Handler
  BY DEF Idle, Handler, Pc, None
<1>1. ASSUME NEW r \in Request, Finish(r) PROVE req' \in [Request -> Handler]
  BY <1>1, <1>0 DEF Finish, TypeOK
<1>2. ASSUME NEW r \in Request, NEW pc \in Pc, Goto(r, pc) PROVE req' \in [Request -> Handler]
  <2>1. req' = [req EXCEPT ![r].pc = pc] /\ req \in [Request -> Handler]
    BY <1>2 DEF Goto, TypeOK
  <2>2. [req[r] EXCEPT !.pc = pc] \in Handler
    BY <2>1 DEF Handler
  <2>3. QED
    BY <2>1, <2>2
<1>3. ASSUME NEW set, NEW cause \in {"revoked", "others"}, sess' = Ended(set, cause), made' = made
      PROVE  /\ sess' \in [Session -> Row]
             /\ \A s \in Session : sess'[s].ended = "unmade" <=> s > made'
  BY <1>3, EndedRevokes DEF TypeOK
<1>B. ASSUME NEW cause \in {"revoked", "others"}, EndAll(cause), made' = made
      PROVE  /\ sess' \in [Session -> Row]
             /\ \A s \in Session : sess'[s].ended = "unmade" <=> s > made'
             /\ swept' \subseteq 1..made'
  BY <1>B, <1>3 DEF EndAll
<1>4. ASSUME NEW r \in Request, Login(r) PROVE TypeOK'
  <2>1. password \in 0..MaxPasswords
    BY DEF TypeOK
  <2>2. \A pc \in {"issue", "stage"} : [Idle EXCEPT !.pc = pc, !.pw = password] \in Handler
    BY <1>0, <2>1 DEF Idle, Handler, Pc
  <2>3. QED
    BY <1>4, <2>2 DEF Login, TypeOK
<1>4a. ASSUME NEW r \in Request, LoginStages(r) PROVE TypeOK'
  <2>1. req[r] \in Handler
    BY DEF TypeOK
  <2>2. tickets' \subseteq 0..MaxPasswords
    BY <1>4a, <2>1 DEF LoginStages, TypeOK, Handler
  <2>3. QED
    BY <1>4a, <2>2, <1>1 DEF LoginStages, TypeOK
<1>4b. ASSUME NEW r \in Request, NEW pw \in tickets, LoginTotp(r, pw) PROVE TypeOK'
  <2>1. pw \in 0..MaxPasswords
    BY DEF TypeOK
  <2>2. [Idle EXCEPT !.pc = "issue", !.pw = pw] \in Handler
    BY <1>0, <2>1 DEF Idle, Handler, Pc
  <2>3. QED
    BY <1>4b, <2>2 DEF LoginTotp, TypeOK
<1>4c. ASSUME NEW pw \in tickets, StagedExpires(pw) PROVE TypeOK'
  BY <1>4c DEF StagedExpires, TypeOK
<1>5. ASSUME NEW r \in Request, NEW s \in Session, RefreshRead(r, s) PROVE TypeOK'
  <2>1. sess[s] \in Row
    BY DEF TypeOK
  <2>2. [Idle EXCEPT !.pc = IF Active(s) THEN "user" ELSE "reuse",
                     !.sid = s, !.line = sess[s].line, !.pw = sess[s].pw] \in Handler
    BY <1>0, <2>1 DEF Idle, Handler, Row, Pc
  <2>3. QED
    BY <1>5, <2>2 DEF RefreshRead, TypeOK
<1>6. ASSUME NEW r \in Request, RefreshReuse(r) PROVE TypeOK'
  BY <1>6, <1>1, <1>B DEF RefreshReuse, TypeOK
<1>7. ASSUME NEW r \in Request, RefreshUser(r) PROVE TypeOK'
  BY <1>7, <1>2 DEF RefreshUser, TypeOK, Pc
<1>8. ASSUME NEW r \in Request, RefreshLapsed(r) PROVE TypeOK'
  BY <1>8, <1>1, <1>3 DEF RefreshLapsed, TypeOK
<1>9. ASSUME NEW r \in Request, RefreshRotate(r) PROVE TypeOK'
  <2>1. req[r] \in Handler
    BY DEF TypeOK
  <2> DEFINE b == req[r].sid \in swept
  <2> HIDE DEF b
  <2>b. b \in BOOLEAN
    BY DEF b
  <2>2. [req[r] EXCEPT !.pc = "issue", !.swept = b] \in Handler
    BY <2>1, <2>b DEF Handler, Pc
  <2> USE DEF b
  <2>3. req' \in [Request -> Handler]
    BY <1>9, <1>1, <2>2 DEF RefreshRotate, CarryOn, TypeOK
  <2>4. QED
    BY <1>9, <2>3, <1>3 DEF RefreshRotate, TypeOK
<1>10. ASSUME NEW r \in Request, IssueSession(r) PROVE TypeOK'
  <2>1. made + 1 \in Session /\ req[r] \in Handler
    BY <1>10 DEF IssueSession, TypeOK, Session
  <2>2. [ended |-> "no", line |-> IF req[r].line = None THEN made + 1 ELSE req[r].line,
         pw |-> req[r].pw] \in Row
    BY <2>1 DEF Row, Handler
  <2>3. sess' \in [Session -> Row]
    BY <1>10, <2>1, <2>2 DEF IssueSession, TypeOK
  <2>4. \A s \in Session : sess'[s].ended = "unmade" <=> s > made'
    BY <1>10, <2>1, <2>2 DEF IssueSession, TypeOK, Session
  <2>5. [Idle EXCEPT !.pc = "count"] \in Handler
    BY <1>0 DEF Idle, Handler, Pc
  <2>6. req' \in [Request -> Handler]
    BY <1>10, <2>5 DEF IssueSession, TypeOK
  <2>7. lost' \in BOOLEAN
    BY <1>10 DEF IssueSession
  <2>8. made' \in 0..MaxSessions
    BY <1>10 DEF IssueSession, TypeOK
  <2>9. swept' \subseteq 1..made'
    BY <1>10 DEF IssueSession, TypeOK
  <2>10. QED
    BY <1>10, <2>3, <2>4, <2>6, <2>7, <2>8, <2>9 DEF IssueSession, TypeOK
<1>11. ASSUME NEW r \in Request, PruneCount(r) PROVE TypeOK'
  <2> DEFINE n == Cardinality(ActiveSessions)
  <2>1. n \in Nat
    BY ActiveFinite
  <2>2. CASE n <= Cap
    BY <1>11, <2>2, <1>1 DEF PruneCount, TypeOK
  <2>3. CASE ~(n <= Cap)
    <3>1. n - Cap \in Nat
      BY <2>1, <2>3
    <3>2. req' = [req EXCEPT ![r].pc = "pick", ![r].overflow = n - Cap]
      BY <1>11, <2>3 DEF PruneCount
    <3>3. req[r] \in Handler
      BY DEF TypeOK
    <3> HIDE DEF n
    <3>4. [req[r] EXCEPT !.pc = "pick", !.overflow = n - Cap] \in Handler
      BY <3>1, <3>3 DEF Handler, Pc
    <3>5. req' \in [Request -> Handler]
      BY <3>2, <3>4 DEF TypeOK
    <3>6. QED
      BY <1>11, <3>5 DEF PruneCount, TypeOK
  <2>4. QED
    BY <2>2, <2>3
<1>12. ASSUME NEW r \in Request, PrunePick(r) PROVE TypeOK'
  <2>1. Oldest(req[r].overflow) \subseteq Session
    BY DEF Oldest, ActiveSessions
  <2>2. req[r] \in Handler
    BY DEF TypeOK
  <2>3. [req[r] EXCEPT !.pc = "prune", !.victims = Oldest(req[r].overflow)] \in Handler
    BY <2>1, <2>2 DEF Handler, Pc
  <2>4. req' \in [Request -> Handler]
    BY <1>12, <2>3, <1>1 DEF PrunePick, TypeOK
  <2>5. QED
    BY <1>12, <2>4 DEF PrunePick, TypeOK
<1>13. ASSUME NEW r \in Request, PruneRevoke(r) PROVE TypeOK'
  BY <1>13, <1>1, <1>3 DEF PruneRevoke, TypeOK
<1>14. ASSUME NEW r \in Request, PruneFails(r) PROVE TypeOK'
  BY <1>14, <1>1 DEF PruneFails, TypeOK
<1>15. ASSUME NEW r \in Request, NEW s \in Session, Logout(r, s) PROVE TypeOK'
  BY <1>15, <1>3 DEF Logout, TypeOK
<1>16. ASSUME NEW r \in Request, RevokeOthers(r) PROVE TypeOK'
  BY <1>16, <1>B DEF RevokeOthers, TypeOK
<1>17. ASSUME NEW r \in Request, ChangeRead(r) PROVE TypeOK'
  BY <1>17, <1>2 DEF ChangeRead, TypeOK, Pc
<1>P. ASSUME NewPassword, made' = made
      PROVE  /\ sess' \in [Session -> Row]
             /\ \A s \in Session : sess'[s].ended = "unmade" <=> s > made'
             /\ password' \in 1..MaxPasswords
             /\ swept' \subseteq 1..made'
  <2>1. password' \in 1..MaxPasswords
    BY <1>P DEF NewPassword, TypeOK
  <2>2. QED
    BY <1>P, <1>B, <2>1 DEF NewPassword
<1>18. ASSUME NEW r \in Request, ChangeCommit(r) PROVE TypeOK'
  BY <1>18, <1>1, <1>P DEF ChangeCommit, TypeOK
<1>19. ASSUME NEW r \in Request, NEW t \in ResetToken, ResetRead(r, t) PROVE TypeOK'
  <2>1. [Idle EXCEPT !.pc = "reset", !.tok = t] \in Handler
    BY <1>0 DEF Idle, Handler, Pc
  <2>2. QED
    BY <1>19, <2>1 DEF ResetRead, TypeOK
<1>20. ASSUME NEW r \in Request, ResetCommit(r) PROVE TypeOK'
  BY <1>20, <1>1, <1>P DEF ResetCommit, TypeOK
<1>21. ASSUME NEW t \in ResetToken, ForgotPassword(t) PROVE TypeOK'
  BY <1>21 DEF ForgotPassword, TypeOK
<1>22. CASE Lapse
  BY <1>22 DEF Lapse, TypeOK
<1>23. CASE UNCHANGED vars
  BY <1>23 DEF vars, TypeOK
<1>24. QED
  BY <1>4, <1>4a, <1>4b, <1>4c, <1>5, <1>6, <1>7, <1>8, <1>9, <1>10, <1>11, <1>12, <1>13, <1>14,
     <1>15, <1>16, <1>17, <1>18, <1>19, <1>20, <1>21, <1>22, <1>23 DEF Next

\* Rows, handlers and links keep their types in every behaviour, and a row
\* exists exactly for the sessions that issueSession has created.
THEOREM TypeCorrect == Spec => []TypeOK
<1>1. QED
  BY TypeInit, TypeNext, PTL DEF Spec

-----------------------------------------------------------------------------
(* A lineage never forks.                                                    *)

\* Steps that activate no session and make no handler a holder.
LEMMA NoNewHolder ==
    ASSUME IInv, made' = made,
           \A s \in Session : /\ sess'[s].line = sess[s].line
                              /\ sess'[s].ended = "no" => sess[s].ended = "no",
           \A r \in Request :
               /\ req'[r].line \in 0..made
               /\ Holder(r)' => Holder(r) /\ req'[r].line = req[r].line
               /\ req'[r].pc \in {"user", "rotate"} =>
                      /\ req[r].pc \in {"user", "rotate"}
                      /\ req'[r].sid = req[r].sid
                      /\ req'[r].line = req[r].line
    PROVE  LineageInv'
<1>0. made \in 0..MaxSessions
  BY DEF IInv, TypeOK
<1>1. LinesExist'
  BY DEF IInv, LineageInv, LinesExist
<1>2. RefreshKnowsLine'
  BY <1>0, SessionsAssumption DEF IInv, LineageInv, RefreshKnowsLine, Session
<1>3. SuccessorIsOnlyHolder'
  BY DEF IInv, LineageInv, SuccessorIsOnlyHolder, Active
<1>4. LineageHasOneActive'
  BY DEF IInv, LineageInv, LineageHasOneActive, Active
<1>5. QED
  BY <1>1, <1>2, <1>3, <1>4 DEF LineageInv

\* A step that only takes handler r to a statement outside a refresh.
LEMMA LeavesRefresh ==
    ASSUME IInv, made' = made, NEW r \in Request, NEW h,
           \A s \in Session : /\ sess'[s].line = sess[s].line
                              /\ sess'[s].ended = "no" => sess[s].ended = "no",
           req' = [req EXCEPT ![r] = h],
           h.line \in 0..made,
           h.pc \notin {"user", "rotate"},
           h.pc = "issue" => h.line = None
    PROVE  LineageInv'
<1>1. ASSUME NEW q \in Request
      PROVE  /\ req'[q].line \in 0..made
             /\ Holder(q)' => Holder(q) /\ req'[q].line = req[q].line
             /\ req'[q].pc \in {"user", "rotate"} =>
                    /\ req[q].pc \in {"user", "rotate"}
                    /\ req'[q].sid = req[q].sid
                    /\ req'[q].line = req[q].line
  <2>1. req \in [Request -> Handler] /\ req[q].line \in 0..made
    BY DEF IInv, TypeOK, LineageInv, LinesExist
  <2>2. CASE q = r
    <3>1. req'[q] = h
      BY <2>1, <2>2
    <3>2. QED
      BY <3>1 DEF Holder, At
  <2>3. CASE q # r
    <3>1. req'[q] = req[q]
      BY <2>1, <2>3
    <3>2. QED
      BY <2>1, <3>1 DEF Holder, At
  <2>4. QED
    BY <2>2, <2>3
<1>2. QED
  BY <1>1, NoNewHolder

LEMMA LineageInit == Init => LineageInv
BY SessionsAssumption DEF Init, LineageInv, LinesExist, RefreshKnowsLine, SuccessorIsOnlyHolder,
   LineageHasOneActive, Holder, At, Active, Idle, Unmade, Session, None

LEMMA LineageNext == IInv /\ [Next]_vars => LineageInv'
<1> SUFFICES ASSUME IInv, [Next]_vars PROVE LineageInv'
  OBVIOUS
<1> USE SessionsAssumption
<1>0. TypeOK /\ made \in 0..MaxSessions /\ req \in [Request -> Handler]
  BY DEF IInv, TypeOK
<1>1. Idle.line \in 0..made /\ Idle.pc = "idle"
  BY <1>0 DEF Idle, None
<1>2. ASSUME NEW set, NEW cause \in {"revoked", "others"}, sess' = Ended(set, cause)
      PROVE  \A s \in Session : /\ sess'[s].line = sess[s].line
                                /\ sess'[s].ended = "no" => sess[s].ended = "no"
  BY <1>0, <1>2, EndedRevokes
<1>3. ASSUME NEW r \in Request, Finish(r), made' = made,
             \A s \in Session : /\ sess'[s].line = sess[s].line
                                /\ sess'[s].ended = "no" => sess[s].ended = "no"
      PROVE  LineageInv'
  BY <1>1, <1>3, LeavesRefresh DEF Finish
<1>4. ASSUME made' = made, req' = req,
             \A s \in Session : /\ sess'[s].line = sess[s].line
                                /\ sess'[s].ended = "no" => sess[s].ended = "no"
      PROVE  LineageInv'
  BY <1>4, NoNewHolder DEF IInv, LineageInv, LinesExist, Holder, At
<1>C. ASSUME NEW r \in Request, NEW pc \in {"issue", "stage"}, NEW pw,
             req' = [req EXCEPT ![r] = [Idle EXCEPT !.pc = pc, !.pw = pw]],
             UNCHANGED <<sess, made>>
      PROVE  LineageInv'
  <2>1. [Idle EXCEPT !.pc = pc, !.pw = pw].line = None
    BY DEF Idle
  <2>2. [Idle EXCEPT !.pc = pc, !.pw = pw].pc = pc
    BY DEF Idle
  <2>3. 0 \in 0..made
    BY <1>0
  <2>4. QED
    BY <1>C, <2>1, <2>2, <2>3, LeavesRefresh DEF None
<1>5. ASSUME NEW r \in Request, Login(r) PROVE LineageInv'
  BY <1>5, <1>C DEF Login
<1>5a. ASSUME NEW r \in Request, LoginStages(r) PROVE LineageInv'
  BY <1>5a, <1>3 DEF LoginStages
<1>5b. ASSUME NEW r \in Request, NEW pw \in tickets, LoginTotp(r, pw) PROVE LineageInv'
  BY <1>5b, <1>C DEF LoginTotp
<1>5c. ASSUME NEW pw \in tickets, StagedExpires(pw) PROVE LineageInv'
  BY <1>5c, <1>4 DEF StagedExpires
<1>6. ASSUME NEW r \in Request, NEW s \in Session, RefreshRead(r, s) PROVE LineageInv'
  <2>1. sess[s].line \in 1..made /\ s \in 1..made
    BY <1>6, <1>0 DEF RefreshRead, IInv, LineageInv, LinesExist, Session
  <2>2. sess' = sess /\ made' = made
    BY <1>6 DEF RefreshRead
  <2>3. req'[r].sid = s /\ req'[r].line = sess[s].line /\ req'[r].pc \in {"user", "reuse"}
    BY <1>6, <1>0 DEF RefreshRead, Idle
  <2>4. \A q \in Request : q # r => req'[q] = req[q]
    BY <1>6, <1>0 DEF RefreshRead
  <2>5. \A q \in Request : Holder(q)' => Holder(q) /\ req'[q].line = req[q].line
    BY <2>3, <2>4 DEF Holder, At
  <2>6. LinesExist' /\ RefreshKnowsLine'
    BY <2>1, <2>2, <2>3, <2>4 DEF IInv, LineageInv, LinesExist, RefreshKnowsLine
  <2>7. SuccessorIsOnlyHolder' /\ LineageHasOneActive'
    BY <2>2, <2>5 DEF IInv, LineageInv, SuccessorIsOnlyHolder, LineageHasOneActive, Active
  <2>8. QED
    BY <2>6, <2>7 DEF LineageInv
<1>7. ASSUME NEW r \in Request, RefreshReuse(r) PROVE LineageInv'
  BY <1>7, <1>2, <1>3 DEF RefreshReuse, EndAll
<1>8. ASSUME NEW r \in Request, RefreshUser(r) PROVE LineageInv'
  <2>1. ASSUME NEW q \in Request
        PROVE  /\ req'[q].line \in 0..made
               /\ Holder(q)' => Holder(q) /\ req'[q].line = req[q].line
               /\ req'[q].pc \in {"user", "rotate"} =>
                      /\ req[q].pc \in {"user", "rotate"}
                      /\ req'[q].sid = req[q].sid
                      /\ req'[q].line = req[q].line
    <3>1. req[q].line \in 0..made
      BY DEF IInv, LineageInv, LinesExist
    <3>2. req[q] \in Handler
      BY <1>0
    <3>3. CASE q = r
      <4>1. req[q].pc = "user"
        BY <1>8, <3>3 DEF RefreshUser, At
      <4>2. \E pc \in {"lapsed", "rotate"} : req'[q] = [req[q] EXCEPT !.pc = pc]
        BY <1>8, <1>0, <3>3 DEF RefreshUser, Goto
      <4>3. req'[q].sid = req[q].sid /\ req'[q].line = req[q].line /\ req'[q].pc # "issue"
        BY <3>2, <4>2 DEF Handler
      <4>4. QED
        BY <3>1, <4>1, <4>3 DEF Holder, At
    <3>4. CASE q # r
      <4>1. req'[q] = req[q]
        BY <1>8, <1>0, <3>4 DEF RefreshUser, Goto
      <4>2. QED
        BY <3>1, <4>1 DEF Holder, At
    <3>5. QED
      BY <3>3, <3>4
  <2>2. QED
    BY <1>8, <2>1, NoNewHolder DEF RefreshUser
<1>9. ASSUME NEW r \in Request, RefreshLapsed(r) PROVE LineageInv'
  BY <1>9, <1>2, <1>3 DEF RefreshLapsed
<1>10. ASSUME NEW r \in Request, RefreshRotate(r) PROVE LineageInv'
  <2> DEFINE p == req[r].sid
  <2>1. p \in Session /\ p <= made /\ sess[p].line = req[r].line
    BY <1>10, <1>0 DEF RefreshRotate, At, IInv, LineageInv, RefreshKnowsLine, Session
  <2>2. made' = made /\ \A s \in Session : /\ sess'[s].line = sess[s].line
                                           /\ sess'[s].ended = "no" => sess[s].ended = "no"
    BY <1>10, <1>2 DEF RefreshRotate
  <2>3. ~ (sess'[p].ended = "no")
    BY <1>10, <1>0, <2>1, EndedRevokes DEF RefreshRotate
  <2>4. CASE ~Active(p)
    BY <1>10, <2>2, <2>4, <1>3 DEF RefreshRotate
  <2>5. CASE Active(p)
    <3>1. CarryOn(r)
      BY <1>10, <2>5 DEF RefreshRotate
    <3>2. req[r] \in Handler
      BY <1>0
    <3>3. req'[r].line = sess[p].line /\ req'[r].pc = "issue"
      BY <1>0, <2>1, <3>1, <3>2 DEF CarryOn, Handler
    <3>4. \A q \in Request : q # r => req'[q] = req[q]
      BY <1>0, <3>1 DEF CarryOn
    <3>5. sess[p].line \in 1..made
      BY <2>1 DEF IInv, LineageInv, LinesExist
    <3>6. \A s \in Session : Active(s)' => sess'[s].line # sess[p].line
      BY <2>1, <2>2, <2>3, <2>5 DEF IInv, LineageInv, LineageHasOneActive, Active
    <3>7. \A q \in Request : Holder(q) => req[q].line # sess[p].line
      BY <2>1, <2>5 DEF IInv, LineageInv, SuccessorIsOnlyHolder
    <3>8. LinesExist'
      BY <2>2, <3>3, <3>4, <3>5 DEF IInv, LineageInv, LinesExist
    <3>9. RefreshKnowsLine'
      BY <1>0, <2>2, <3>3, <3>4 DEF IInv, LineageInv, RefreshKnowsLine, Session
    <3>10. \A q \in Request, s \in Session :
             Holder(q)' /\ Active(s)' => sess'[s].line # req'[q].line
      BY <2>2, <3>3, <3>4, <3>6
      DEF IInv, LineageInv, SuccessorIsOnlyHolder, Holder, At, Active
    <3>11. \A q1, q2 \in Request :
             Holder(q1)' /\ Holder(q2)' /\ req'[q1].line = req'[q2].line => q1 = q2
      BY <3>3, <3>4, <3>7 DEF IInv, LineageInv, SuccessorIsOnlyHolder, Holder, At
    <3>12. LineageHasOneActive'
      BY <2>2 DEF IInv, LineageInv, LineageHasOneActive, Active
    <3>13. QED
      BY <3>8, <3>9, <3>10, <3>11, <3>12 DEF LineageInv, SuccessorIsOnlyHolder
  <2>6. QED
    BY <2>4, <2>5
<1>11. ASSUME NEW r \in Request, IssueSession(r) PROVE LineageInv'
  <2> DEFINE n == made + 1
             line == IF req[r].line = None THEN n ELSE req[r].line
  <2>1. n \in Session /\ made' = n /\ made < n
    BY <1>11, <1>0 DEF IssueSession, Session
  <2>2. req[r].line \in 0..made /\ line \in 1..n
    BY <1>0 DEF IInv, LineageInv, LinesExist, None
  <2>3. sess'[n].line = line /\ sess'[n].ended = "no" /\ ~Active(n)
    BY <1>11, <1>0, <2>1 DEF IssueSession, TypeOK, Active
  <2>4. \A s \in Session : s # n => sess'[s] = sess[s]
    BY <1>11, <1>0 DEF IssueSession, TypeOK
  <2>5. req'[r].line = None /\ req'[r].pc = "count"
    BY <1>11, <1>0 DEF IssueSession, Idle
  <2>6. \A q \in Request : q # r => req'[q] = req[q]
    BY <1>11, <1>0 DEF IssueSession
  <2>7. \A s \in Session : Active(s) => s <= made /\ sess[s].line \in 1..made
    BY <1>0 DEF TypeOK, Active, Session, IInv, LineageInv, LinesExist
  <2>8. \A s \in Session : Active(s) => sess[s].line # line
    BY <1>11, <1>0, <2>2, <2>7
    DEF IssueSession, IInv, LineageInv, SuccessorIsOnlyHolder, Holder
  <2>9. \A q \in Request : q # r /\ Holder(q) => req[q].line # line
    <3>1. CASE req[r].line = None
      BY <1>0, <3>1 DEF IInv, LineageInv, LinesExist
    <3>2. CASE req[r].line # None
      BY <1>11, <3>2 DEF IssueSession, IInv, LineageInv, SuccessorIsOnlyHolder, Holder
    <3>3. QED
      BY <3>1, <3>2
  <2> HIDE DEF line
  <2>10. LinesExist'
    <3>1. \A s \in Session : s <= n => sess'[s].line \in 1..n
      BY <1>0, <2>1, <2>2, <2>3, <2>4 DEF IInv, LineageInv, LinesExist, Session
    <3>2. \A q \in Request : req'[q].line \in 0..n
      BY <1>0, <2>5, <2>6 DEF IInv, LineageInv, LinesExist, None
    <3>3. QED
      BY <2>1, <3>1, <3>2 DEF LinesExist
  <2>11. RefreshKnowsLine'
    <3>1. ASSUME NEW q \in Request, req'[q].pc \in {"user", "rotate"}
          PROVE  req'[q].sid \in 1..n /\ sess'[req'[q].sid].line = req'[q].line
      <4>1. q # r /\ req'[q] = req[q]
        BY <3>1, <2>5, <2>6
      <4>2. req[q].sid \in 1..made /\ sess[req[q].sid].line = req[q].line
        BY <3>1, <4>1 DEF IInv, LineageInv, RefreshKnowsLine
      <4>3. req[q].sid # n /\ req[q].sid \in Session
        BY <1>0, <4>2 DEF Session
      <4>4. QED
        BY <1>0, <2>4, <4>1, <4>2, <4>3
    <3>2. QED
      BY <2>1, <3>1 DEF RefreshKnowsLine
  <2>12. \A q \in Request : Holder(q)' => q # r /\ Holder(q) /\ req'[q] = req[q]
    BY <2>5, <2>6 DEF Holder, At
  <2>13. SuccessorIsOnlyHolder'
    <3>1. \A q \in Request, s \in Session :
             Holder(q)' /\ Active(s)' => sess'[s].line # req'[q].line
      BY <2>3, <2>4, <2>9, <2>12 DEF IInv, LineageInv, SuccessorIsOnlyHolder, Active
    <3>2. \A q1, q2 \in Request :
             Holder(q1)' /\ Holder(q2)' /\ req'[q1].line = req'[q2].line => q1 = q2
      BY <2>12 DEF IInv, LineageInv, SuccessorIsOnlyHolder
    <3>3. QED
      BY <3>1, <3>2 DEF SuccessorIsOnlyHolder
  <2>14. LineageHasOneActive'
    BY <2>3, <2>4, <2>8 DEF IInv, LineageInv, LineageHasOneActive, Active
  <2>15. QED
    BY <2>10, <2>11, <2>13, <2>14 DEF LineageInv
<1>12. ASSUME NEW r \in Request, PruneCount(r) \/ PrunePick(r) PROVE LineageInv'
  <2>1. sess' = sess /\ made' = made
    BY <1>12 DEF PruneCount, PrunePick
  <2>2. CASE Finish(r)
    BY <2>1, <2>2, <1>3
  <2>3. CASE ~Finish(r)
    <3>1. PICK h : /\ req' = [req EXCEPT ![r] = h]
                   /\ h.line = req[r].line
                   /\ h.pc \in {"pick", "prune"}
      <4> DEFINE picking == [req[r] EXCEPT !.pc = "pick",
                                !.overflow = Cardinality(ActiveSessions) - Cap]
                 pruning == [req[r] EXCEPT !.pc = "prune", !.victims = Oldest(req[r].overflow)]
      <4>1. req[r] \in Handler
        BY <1>0
      <4>2. /\ picking.line = req[r].line /\ picking.pc = "pick"
            /\ pruning.line = req[r].line /\ pruning.pc = "prune"
        BY <4>1 DEF Handler
      <4>3. req' = [req EXCEPT ![r] = picking] \/ req' = [req EXCEPT ![r] = pruning]
        BY <1>0, <1>12, <2>3 DEF PruneCount, PrunePick
      <4> HIDE DEF picking, pruning
      <4>4. QED
        BY <4>2, <4>3
    <3>2. req[r].line \in 0..made
      BY DEF IInv, LineageInv, LinesExist
    <3>3. QED
      BY <2>1, <3>1, <3>2, LeavesRefresh
  <2>4. QED
    BY <2>2, <2>3
<1>13. ASSUME NEW r \in Request, PruneRevoke(r) PROVE LineageInv'
  BY <1>13, <1>2, <1>3 DEF PruneRevoke
<1>14. ASSUME NEW r \in Request, PruneFails(r) PROVE LineageInv'
  BY <1>14, <1>3 DEF PruneFails
<1>15. ASSUME NEW r \in Request, NEW s \in Session, Logout(r, s) PROVE LineageInv'
  BY <1>15, <1>2, <1>4 DEF Logout
<1>16. ASSUME NEW r \in Request, RevokeOthers(r) PROVE LineageInv'
  BY <1>16, <1>2, <1>4 DEF RevokeOthers, EndAll
<1>17. ASSUME NEW r \in Request, ChangeRead(r) PROVE LineageInv'
  <2>1. req[r] \in Handler /\ req[r].line \in 0..made
    BY <1>0 DEF IInv, LineageInv, LinesExist
  <2>2. req' = [req EXCEPT ![r] = [req[r] EXCEPT !.pc = "change"]]
    BY <1>0, <1>17 DEF ChangeRead, Goto
  <2>3. /\ [req[r] EXCEPT !.pc = "change"].line = req[r].line
        /\ [req[r] EXCEPT !.pc = "change"].pc = "change"
    BY <2>1 DEF Handler
  <2>4. QED
    BY <1>17, <2>1, <2>2, <2>3, LeavesRefresh DEF ChangeRead
<1>18. ASSUME NEW r \in Request, ChangeCommit(r) PROVE LineageInv'
  BY <1>18, <1>2, <1>3 DEF ChangeCommit, NewPassword, EndAll
<1>19. ASSUME NEW r \in Request, NEW t \in ResetToken, ResetRead(r, t) PROVE LineageInv'
  <2>1. /\ [Idle EXCEPT !.pc = "reset", !.tok = t].line = None
        /\ [Idle EXCEPT !.pc = "reset", !.tok = t].pc = "reset"
    BY DEF Idle
  <2>2. 0 \in 0..made
    BY <1>0
  <2>3. QED
    BY <1>19, <2>1, <2>2, LeavesRefresh DEF ResetRead, None
<1>20. ASSUME NEW r \in Request, ResetCommit(r) PROVE LineageInv'
  BY <1>20, <1>2, <1>3 DEF ResetCommit, NewPassword, EndAll
<1>21. ASSUME NEW t \in ResetToken, ForgotPassword(t) PROVE LineageInv'
  BY <1>21, <1>4 DEF ForgotPassword
<1>22. CASE Lapse
  BY <1>22, <1>4 DEF Lapse
<1>23. CASE UNCHANGED vars
  BY <1>23, <1>4 DEF vars
<1>24. QED
  BY <1>5, <1>5a, <1>5b, <1>5c, <1>6, <1>7, <1>8, <1>9, <1>10, <1>11, <1>12, <1>13, <1>14, <1>15,
     <1>16, <1>17, <1>18, <1>19, <1>20, <1>21, <1>22, <1>23 DEF Next

\* However many handlers interleave, of the sessions that descend from one login
\* at most one is active: a refresh token has one successor.
THEOREM LineageNeverForks == Spec => []LineageHasOneActive
<1>1. Init => IInv
  BY TypeInit, LineageInit DEF IInv
<1>2. IInv /\ [Next]_vars => IInv'
  BY TypeNext, LineageNext DEF IInv
<1>3. IInv => LineageHasOneActive
  BY DEF IInv, LineageInv
<1>4. QED
  BY <1>1, <1>2, <1>3, PTL DEF Spec

-----------------------------------------------------------------------------
(* What a revocation ends stays ended.                                       *)

\* The strengthening that makes RevocationEndsSessions inductive: no handler that
\* is about to create a session carries a session on that had to go.
NothingCarriedOn == \A r \in Request : At(r, "issue") => ~req[r].swept

RevocationInv == RevocationEndsSessions /\ NothingCarriedOn

\* A step that ends sessions at most and takes no handler to the creation of one.
LEMMA RevocationKept ==
    ASSUME TypeOK, RevocationInv, swept' = swept,
           \A s \in Session : sess'[s].ended = "no" => sess[s].ended = "no",
           \A r \in Request : req'[r].pc = "issue" => req'[r] = req[r] \/ ~req'[r].swept
    PROVE  RevocationInv'
<1>1. swept \subseteq Session
  BY SessionsAssumption DEF TypeOK, Session
<1>2. RevocationEndsSessions'
  BY <1>1 DEF RevocationInv, RevocationEndsSessions, Active
<1>3. NothingCarriedOn'
  BY DEF RevocationInv, NothingCarriedOn, At
<1>4. QED
  BY <1>2, <1>3 DEF RevocationInv

\* A step of one handler that ends sessions at most.
LEMMA RevocationKeptBy ==
    ASSUME TypeOK, RevocationInv, swept' = swept,
           \A s \in Session : sess'[s].ended = "no" => sess[s].ended = "no",
           NEW r \in Request, NEW h, req' = [req EXCEPT ![r] = h],
           h.pc = "issue" => ~h.swept
    PROVE  RevocationInv'
<1>1. \A q \in Request : req'[q] = IF q = r THEN h ELSE req[q]
  BY DEF TypeOK
<1>2. QED
  BY <1>1, RevocationKept

\* Ending every session there is.
LEMMA RevocationEnds ==
    ASSUME TypeOK, RevocationInv, NEW cause \in {"revoked", "others"}, EndAll(cause),
           NEW r \in Request, req' = req \/ Finish(r)
    PROVE  RevocationInv'
<1>1. \A s \in Session : ~Active(s)'
  BY EndedRevokes DEF EndAll, Active
<1>2. swept' \subseteq Session
  BY SessionsAssumption DEF EndAll, TypeOK, Session
<1>3. NothingCarriedOn'
  BY DEF Finish, Idle, TypeOK, RevocationInv, NothingCarriedOn, At
<1>4. QED
  BY <1>1, <1>2, <1>3 DEF RevocationInv, RevocationEndsSessions

LEMMA RevocationInit == Init => RevocationInv
BY DEF Init, RevocationInv, RevocationEndsSessions, NothingCarriedOn, At, Idle

LEMMA RevocationNext == IInv /\ RevocationInv /\ [Next]_vars => RevocationInv'
<1> SUFFICES ASSUME IInv, RevocationInv, [Next]_vars PROVE RevocationInv'
  OBVIOUS
<1> USE SessionsAssumption
<1>0. TypeOK /\ made \in 0..MaxSessions /\ req \in [Request -> Handler]
  BY DEF IInv, TypeOK
<1>1. Idle.pc = "idle" /\ Idle.swept = FALSE
  BY DEF Idle
<1>2. ASSUME NEW set, NEW cause \in {"revoked", "others"}, sess' = Ended(set, cause)
      PROVE  \A s \in Session : sess'[s].ended = "no" => sess[s].ended = "no"
  BY <1>0, <1>2, EndedRevokes
<1>3. ASSUME NEW r \in Request, Finish(r), swept' = swept,
             \A s \in Session : sess'[s].ended = "no" => sess[s].ended = "no"
      PROVE  RevocationInv'
  BY <1>0, <1>1, <1>3, RevocationKeptBy DEF Finish
<1>4. ASSUME req' = req, swept' = swept,
             \A s \in Session : sess'[s].ended = "no" => sess[s].ended = "no"
      PROVE  RevocationInv'
  BY <1>0, <1>4, RevocationKept
<1>5. ASSUME NEW r \in Request, NEW pc \in Pc \ {"issue"}, Goto(r, pc), UNCHANGED <<sess, swept>>
      PROVE  RevocationInv'
  <2>1. req' = [req EXCEPT ![r] = [req[r] EXCEPT !.pc = pc]] /\ req[r] \in Handler
    BY <1>0, <1>5 DEF Goto
  <2>2. [req[r] EXCEPT !.pc = pc].pc = pc
    BY <2>1 DEF Handler
  <2>3. QED
    BY <1>0, <1>5, <2>1, <2>2, RevocationKeptBy
<1>6. ASSUME NEW r \in Request, Login(r) PROVE RevocationInv'
  <2>1. \A pc \in {"issue", "stage"} : ~[Idle EXCEPT !.pc = pc, !.pw = password].swept
    BY DEF Idle
  <2>2. QED
    BY <1>0, <1>6, <2>1, RevocationKeptBy DEF Login
<1>7. ASSUME NEW r \in Request, LoginStages(r) PROVE RevocationInv'
  BY <1>3, <1>7 DEF LoginStages
<1>8. ASSUME NEW r \in Request, NEW pw \in tickets, LoginTotp(r, pw) PROVE RevocationInv'
  <2>1. ~[Idle EXCEPT !.pc = "issue", !.pw = pw].swept
    BY DEF Idle
  <2>2. QED
    BY <1>0, <1>8, <2>1, RevocationKeptBy DEF LoginTotp
<1>9. ASSUME NEW pw \in tickets, StagedExpires(pw) PROVE RevocationInv'
  BY <1>4, <1>9 DEF StagedExpires
<1>10. ASSUME NEW r \in Request, NEW s \in Session, RefreshRead(r, s) PROVE RevocationInv'
  <2> DEFINE h == [Idle EXCEPT !.pc = IF Active(s) THEN "user" ELSE "reuse",
                               !.sid = s, !.line = sess[s].line, !.pw = sess[s].pw]
  <2>1. h.pc # "issue"
    BY DEF Idle
  <2>2. req' = [req EXCEPT ![r] = h] /\ UNCHANGED <<sess, swept>>
    BY <1>10 DEF RefreshRead
  <2> HIDE DEF h
  <2>3. QED
    BY <1>0, <2>1, <2>2, RevocationKeptBy
<1>11. ASSUME NEW r \in Request, RefreshReuse(r) PROVE RevocationInv'
  BY <1>0, <1>11, RevocationEnds DEF RefreshReuse
<1>12. ASSUME NEW r \in Request, RefreshUser(r) PROVE RevocationInv'
  BY <1>5, <1>12 DEF RefreshUser, Pc
<1>13. ASSUME NEW r \in Request, RefreshLapsed(r) PROVE RevocationInv'
  BY <1>2, <1>3, <1>13 DEF RefreshLapsed
<1>14. ASSUME NEW r \in Request, RefreshRotate(r) PROVE RevocationInv'
  <2> DEFINE h == [req[r] EXCEPT !.pc = "issue", !.swept = req[r].sid \in swept]
  <2>1. \A s \in Session : sess'[s].ended = "no" => sess[s].ended = "no"
    BY <1>2, <1>14 DEF RefreshRotate
  <2>2. CASE ~Active(req[r].sid)
    BY <1>3, <1>14, <2>1, <2>2 DEF RefreshRotate
  <2>3. CASE Active(req[r].sid)
    <3>1. req[r].sid \notin swept
      BY <2>3 DEF RevocationInv, RevocationEndsSessions
    <3>2. req[r] \in Handler /\ req' = [req EXCEPT ![r] = h] /\ swept' = swept
      BY <1>0, <1>14, <2>3 DEF RefreshRotate, CarryOn
    <3>3. ~h.swept
      BY <3>1, <3>2 DEF Handler
    <3> HIDE DEF h
    <3>4. QED
      BY <1>0, <2>1, <3>2, <3>3, RevocationKeptBy
  <2>4. QED
    BY <2>2, <2>3
<1>15. ASSUME NEW r \in Request, IssueSession(r) PROVE RevocationInv'
  <2>1. swept' = swept
    BY <1>15 DEF IssueSession, RevocationInv, NothingCarriedOn
  <2>2. made + 1 \notin swept /\ swept \subseteq Session
    BY <1>0 DEF TypeOK, Session
  <2>3. \A s \in Session : s # made + 1 => sess'[s] = sess[s]
    BY <1>0, <1>15 DEF IssueSession, TypeOK
  <2>4. RevocationEndsSessions'
    BY <2>1, <2>2, <2>3 DEF RevocationInv, RevocationEndsSessions, Active
  <2>5. [Idle EXCEPT !.pc = "count"].pc = "count"
    BY DEF Idle
  <2>6. \A q \in Request : req'[q].pc = "issue" => req'[q] = req[q]
    BY <1>0, <1>15, <2>5 DEF IssueSession
  <2>7. NothingCarriedOn'
    BY <2>6 DEF RevocationInv, NothingCarriedOn, At
  <2>8. QED
    BY <2>4, <2>7 DEF RevocationInv
<1>16. ASSUME NEW r \in Request, PruneCount(r) \/ PrunePick(r) PROVE RevocationInv'
  <2>1. UNCHANGED <<sess, swept>>
    BY <1>16 DEF PruneCount, PrunePick
  <2>2. CASE Finish(r)
    BY <1>3, <2>1, <2>2
  <2>3. CASE ~Finish(r)
    <3> DEFINE picking == [req[r] EXCEPT !.pc = "pick",
                              !.overflow = Cardinality(ActiveSessions) - Cap]
               pruning == [req[r] EXCEPT !.pc = "prune", !.victims = Oldest(req[r].overflow)]
    <3>1. req[r] \in Handler
      BY <1>0
    <3>2. picking.pc = "pick" /\ pruning.pc = "prune"
      BY <3>1 DEF Handler
    <3>3. req' = [req EXCEPT ![r] = picking] \/ req' = [req EXCEPT ![r] = pruning]
      BY <1>0, <1>16, <2>3 DEF PruneCount, PrunePick
    <3> HIDE DEF picking, pruning
    <3>4. QED
      BY <1>0, <2>1, <3>2, <3>3, RevocationKeptBy
  <2>4. QED
    BY <2>2, <2>3
<1>17. ASSUME NEW r \in Request, PruneRevoke(r) PROVE RevocationInv'
  BY <1>2, <1>3, <1>17 DEF PruneRevoke
<1>18. ASSUME NEW r \in Request, PruneFails(r) PROVE RevocationInv'
  BY <1>3, <1>18 DEF PruneFails
<1>19. ASSUME NEW r \in Request, NEW s \in Session, Logout(r, s) PROVE RevocationInv'
  BY <1>2, <1>4, <1>19 DEF Logout
<1>20. ASSUME NEW r \in Request, RevokeOthers(r) PROVE RevocationInv'
  BY <1>0, <1>20, RevocationEnds DEF RevokeOthers
<1>21. ASSUME NEW r \in Request, ChangeRead(r) PROVE RevocationInv'
  BY <1>5, <1>21 DEF ChangeRead, Pc
<1>22. ASSUME NEW r \in Request, ChangeCommit(r) \/ ResetCommit(r) PROVE RevocationInv'
  BY <1>0, <1>22, RevocationEnds DEF ChangeCommit, ResetCommit, NewPassword
<1>23. ASSUME NEW r \in Request, NEW t \in ResetToken, ResetRead(r, t) PROVE RevocationInv'
  <2>1. [Idle EXCEPT !.pc = "reset", !.tok = t].pc = "reset"
    BY DEF Idle
  <2>2. QED
    BY <1>0, <1>23, <2>1, RevocationKeptBy DEF ResetRead
<1>24. ASSUME NEW t \in ResetToken, ForgotPassword(t) PROVE RevocationInv'
  BY <1>4, <1>24 DEF ForgotPassword
<1>25. CASE Lapse
  BY <1>4, <1>25 DEF Lapse
<1>26. CASE UNCHANGED vars
  BY <1>4, <1>26 DEF vars
<1>27. QED
  BY <1>6, <1>7, <1>8, <1>9, <1>10, <1>11, <1>12, <1>13, <1>14, <1>15, <1>16, <1>17, <1>18,
     <1>19, <1>20, <1>21, <1>22, <1>23, <1>24, <1>25, <1>26 DEF Next

\* At whatever point a refresh is overtaken by a new password, by revoke-others or
\* by the reuse detection, it brings no session of before back unless it had
\* rotated already.
THEOREM RevocationsHold == Spec => []RevocationEndsSessions
<1>1. Init => IInv /\ RevocationInv
  BY TypeInit, LineageInit, RevocationInit DEF IInv
<1>2. IInv /\ RevocationInv /\ [Next]_vars => IInv' /\ RevocationInv'
  BY TypeNext, LineageNext, RevocationNext DEF IInv
<1>3. RevocationInv => RevocationEndsSessions
  BY DEF RevocationInv
<1>4. QED
  BY <1>1, <1>2, <1>3, PTL DEF Spec

-----------------------------------------------------------------------------
(* The sessions implement AccountSessions.                                   *)

\* The sessions a lineage holds are its active ones.
LEMMA HeldBy ==
    ASSUME NEW l \in Session, NEW s \in Session
    PROVE  s \in Held[l] <=> Active(s) /\ sess[s].line = l
BY DEF Held

\* A step that creates no session and changes neither the password nor what
\* refreshes pass on ends the lineages it ends: of the sessions of one there is at
\* most one it could have ended.
LEMMA EndsLineages ==
    ASSUME IInv, made' = made, password' = password, Passing' = Passing,
           \A s \in Session : /\ sess'[s].line = sess[s].line
                              /\ sess'[s].ended = "no" => sess[s].ended = "no"
    PROVE  Abstract!Next
<1> DEFINE ended == {l \in Session : Held'[l] = {}}
<1>1. ASSUME NEW l \in Session PROVE Held'[l] = {} \/ Held'[l] = Held[l]
  <2>1. \A s \in Held'[l] : s \in Session /\ Active(s)' /\ sess'[s].line = l
    BY DEF Held
  <2>2. \A s \in Held'[l] : s \in Held[l]
    BY <2>1 DEF Held, Active
  <2>3. \A s, t \in Held[l] : s = t
    BY DEF Held, IInv, LineageInv, LineageHasOneActive
  <2>4. QED
    BY <2>2, <2>3
<1>2. Held' = [l \in Session |-> Held'[l]]
  BY DEF Held
<1>3. Held' = [l \in Session |-> IF l \in ended THEN {} ELSE Held[l]]
  <2>1. \A l \in Session : Held'[l] = IF l \in ended THEN {} ELSE Held[l]
    BY <1>1
  <2>2. QED
    BY <1>2, <2>1
<1>4. ended \in SUBSET Session
  OBVIOUS
<1> HIDE DEF ended
<1>5. Abstract!Session = Session
  BY DEF Abstract!Session, Session
<1>6. Abstract!End(ended)
  BY <1>3, <1>5 DEF Abstract!End
<1>7. QED
  BY <1>4, <1>5, <1>6 DEF Abstract!Next

\* A step of one handler that neither starts nor ends as a holder leaves what
\* refreshes pass on.
LEMMA PassingKept ==
    ASSUME TypeOK, NEW r \in Request, NEW h, req' = [req EXCEPT ![r] = h],
           ~Holder(r), h.pc = "issue" => h.line = None
    PROVE  Passing' = Passing
<1>1. \A q \in Request : req'[q] = IF q = r THEN h ELSE req[q]
  BY DEF TypeOK
<1>2. \A l \in Session : l # None
  BY SessionsAssumption DEF Session, None
<1>3. \A l \in Session, q \in Request :
         At(q, "issue")' /\ req'[q].line = l <=> At(q, "issue") /\ req[q].line = l
  BY <1>1, <1>2 DEF Holder, At
<1>4. QED
  BY <1>3 DEF Passing

LEMMA InitImplements == Init => Abstract!Init
<1> SUFFICES ASSUME Init PROVE Abstract!Init
  OBVIOUS
<1>1. \A s \in Session : ~Active(s)
  BY DEF Init, Active, Unmade
<1>2. \A r \in Request : ~At(r, "issue")
  BY DEF Init, At, Idle
<1>3. Held = [l \in Session |-> {}]
  BY <1>1 DEF Held
<1>4. Passing = {}
  BY <1>2 DEF Passing
<1>5. Abstract!Session = Session
  BY DEF Abstract!Session, Session
<1>6. QED
  BY <1>3, <1>4, <1>5 DEF Init, Abstract!Init

LEMMA NextImplements == IInv /\ [Next]_vars => [Abstract!Next]_(Abstract!vars)
<1> SUFFICES ASSUME IInv, [Next]_vars PROVE Abstract!Next \/ UNCHANGED Abstract!vars
  OBVIOUS
<1> USE SessionsAssumption
<1>0. TypeOK /\ made \in 0..MaxSessions /\ req \in [Request -> Handler]
  BY DEF IInv, TypeOK
<1>S. Abstract!Session = Session
  BY DEF Abstract!Session, Session
<1>1. Idle.pc = "idle"
  BY DEF Idle
<1>2. ASSUME NEW set, NEW cause \in {"revoked", "others"}, sess' = Ended(set, cause)
      PROVE  \A s \in Session : /\ sess'[s].line = sess[s].line
                                /\ sess'[s].ended = "no" => sess[s].ended = "no"
  BY <1>0, <1>2, EndedRevokes
<1>3. ASSUME NEW r \in Request, Finish(r), ~At(r, "issue"), made' = made, password' = password,
             \A s \in Session : /\ sess'[s].line = sess[s].line
                                /\ sess'[s].ended = "no" => sess[s].ended = "no"
      PROVE  Abstract!Next
  <2>1. Passing' = Passing
    BY <1>0, <1>1, <1>3, PassingKept DEF Finish, Holder
  <2>2. QED
    BY <1>3, <2>1, EndsLineages
<1>4. ASSUME req' = req, made' = made, password' = password,
             \A s \in Session : /\ sess'[s].line = sess[s].line
                                /\ sess'[s].ended = "no" => sess[s].ended = "no"
      PROVE  Abstract!Next
  <2>1. Passing' = Passing
    BY <1>4 DEF Passing, At
  <2>2. QED
    BY <1>4, <2>1, EndsLineages
<1>5. ASSUME NEW r \in Request, NEW h, req' = [req EXCEPT ![r] = h], ~At(r, "issue"),
             h.pc = "issue" => h.line = None, UNCHANGED <<sess, made, password>>
      PROVE  Abstract!Next
  <2>1. Passing' = Passing
    BY <1>0, <1>5, PassingKept DEF Holder
  <2>2. QED
    BY <1>5, <2>1, EndsLineages
<1>6. ASSUME NEW r \in Request, NEW pc \in Pc \ {"issue"}, Goto(r, pc), ~At(r, "issue"),
             UNCHANGED <<sess, made, password>>
      PROVE  Abstract!Next
  <2>1. req' = [req EXCEPT ![r] = [req[r] EXCEPT !.pc = pc]] /\ req[r] \in Handler
    BY <1>0, <1>6 DEF Goto
  <2>2. [req[r] EXCEPT !.pc = pc].pc = pc
    BY <2>1 DEF Handler
  <2>3. QED
    BY <1>5, <1>6, <2>1, <2>2
<1>7. ASSUME NEW r \in Request, Login(r) PROVE Abstract!Next
  <2>1. \A pc \in {"issue", "stage"} : [Idle EXCEPT !.pc = pc, !.pw = password].line = None
    BY DEF Idle
  <2>2. QED
    BY <1>5, <1>7, <2>1 DEF Login, At
<1>7a. ASSUME NEW r \in Request, LoginStages(r) PROVE Abstract!Next
  BY <1>7a, <1>3 DEF LoginStages, At
<1>7b. ASSUME NEW r \in Request, NEW pw \in tickets, LoginTotp(r, pw) PROVE Abstract!Next
  <2>1. [Idle EXCEPT !.pc = "issue", !.pw = pw].line = None
    BY DEF Idle
  <2>2. QED
    BY <1>5, <1>7b, <2>1 DEF LoginTotp, At
<1>7c. ASSUME NEW pw \in tickets, StagedExpires(pw) PROVE Abstract!Next
  BY <1>7c, <1>4 DEF StagedExpires
<1>8. ASSUME NEW r \in Request, NEW s \in Session, RefreshRead(r, s) PROVE Abstract!Next
  <2> DEFINE h == [Idle EXCEPT !.pc = IF Active(s) THEN "user" ELSE "reuse",
                               !.sid = s, !.line = sess[s].line, !.pw = sess[s].pw]
  <2>1. h.pc # "issue"
    BY DEF Idle
  <2>2. req' = [req EXCEPT ![r] = h] /\ ~At(r, "issue") /\ UNCHANGED <<sess, made, password>>
    BY <1>8 DEF RefreshRead, At
  <2> HIDE DEF h
  <2>3. QED
    BY <1>5, <2>1, <2>2
<1>9. ASSUME NEW r \in Request, RefreshReuse(r) PROVE Abstract!Next
  BY <1>9, <1>2, <1>3 DEF RefreshReuse, EndAll, At
<1>10. ASSUME NEW r \in Request, RefreshUser(r) PROVE Abstract!Next
  BY <1>10, <1>6 DEF RefreshUser, At, Pc
<1>11. ASSUME NEW r \in Request, RefreshLapsed(r) PROVE Abstract!Next
  BY <1>11, <1>2, <1>3 DEF RefreshLapsed, At
<1>12. ASSUME NEW r \in Request, RefreshRotate(r) PROVE Abstract!Next
  <2> DEFINE p == req[r].sid
             l == sess[p].line
  <2>1. p \in Session /\ req[r].line = l /\ p <= made
    BY <1>12, <1>0 DEF RefreshRotate, At, IInv, LineageInv, RefreshKnowsLine, Session
  <2>2. \A s \in Session : /\ sess'[s].line = sess[s].line
                           /\ sess'[s].ended = "no" => sess[s].ended = "no"
                           /\ s # p => sess'[s] = sess[s]
    BY <1>12, <1>2 DEF RefreshRotate, Ended
  <2>3. sess'[p].ended # "no"
    BY <1>12, <1>0, <2>1, EndedRevokes DEF RefreshRotate
  <2>4. CASE ~Active(p)
    BY <1>12, <1>3, <2>2, <2>4 DEF RefreshRotate, At
  <2>5. CASE Active(p)
    <3>1. l \in Session
      BY <1>0, <2>1 DEF IInv, LineageInv, LinesExist, Session
    <3>2. CarryOn(r) /\ req[r] \in Handler
      BY <1>0, <1>12, <2>5 DEF RefreshRotate
    <3>3. req'[r].pc = "issue" /\ req'[r].line = l /\ req[r].pc = "rotate"
      BY <1>0, <1>12, <2>1, <3>2 DEF CarryOn, Handler, RefreshRotate, At
    <3>4. \A q \in Request : q # r => req'[q] = req[q]
      BY <1>0, <3>2 DEF CarryOn
    <3>5. Passing' = Passing \cup {l}
      BY <3>1, <3>3, <3>4 DEF Passing, At
    <3>6. p \in Held[l]
      BY <2>1, <2>5, <3>1, HeldBy
    <3>7. l \notin Passing
      <4>1. ASSUME NEW q \in Request, At(q, "issue"), req[q].line = l PROVE FALSE
        <5>1. Holder(q)
          BY <3>1, <4>1 DEF Holder, Session, None
        <5>2. QED
          BY <2>1, <2>5, <4>1, <5>1 DEF IInv, LineageInv, SuccessorIsOnlyHolder
      <4>2. QED
        BY <4>1 DEF Passing
    <3>8. Held' = [Held EXCEPT ![l] = {}]
      <4>1. ASSUME NEW k \in Session, k # l PROVE Held'[k] = Held[k]
        <5>1. \A s \in Session : Active(s)' /\ sess'[s].line = k <=> Active(s) /\ sess[s].line = k
          BY <2>1, <2>2, <4>1 DEF Active
        <5>2. QED
          BY <5>1 DEF Held
      <4>2. Held'[l] = {}
        <5>1. ASSUME NEW s \in Session, Active(s)', sess'[s].line = l PROVE FALSE
          <6>1. Active(s) /\ sess[s].line = l
            BY <2>2, <5>1 DEF Active
          <6>2. s = p
            BY <2>1, <2>5, <6>1 DEF IInv, LineageInv, LineageHasOneActive
          <6>3. QED
            BY <2>3, <5>1, <6>2 DEF Active
        <5>2. QED
          BY <3>1, <5>1 DEF Held
      <4>3. Held' = [k \in Session |-> Held'[k]] /\ Held = [k \in Session |-> Held[k]]
        BY DEF Held
      <4>4. Held' = [k \in Session |-> IF k = l THEN {} ELSE Held[k]]
        BY <4>1, <4>2, <4>3
      <4>5. QED
        BY <4>3, <4>4
    <3>9. UNCHANGED <<made, password>>
      BY <1>12 DEF RefreshRotate
    <3> HIDE DEF l
    <3>10. Abstract!Spend(l)
      BY <3>5, <3>6, <3>7, <3>8, <3>9 DEF Abstract!Spend
    <3>11. QED
      BY <1>S, <3>1, <3>10 DEF Abstract!Next
  <2>6. QED
    BY <2>4, <2>5
<1>13. ASSUME NEW r \in Request, IssueSession(r) PROVE Abstract!Next
  <2> DEFINE n == made + 1
             l == IF req[r].line = None THEN n ELSE req[r].line
  <2>1. n \in Session /\ made' = n /\ made < MaxSessions /\ n \notin 1..made
    BY <1>13, <1>0 DEF IssueSession, Session
  <2>2. req[r].line \in 0..made /\ l \in Session
    <3>1. req[r].line \in 0..made
      BY DEF IInv, LineageInv, LinesExist
    <3>2. QED
      BY <1>0, <2>1, <3>1 DEF None, Session
  <2>3. sess'[n].line = l /\ sess'[n].ended = "no" /\ ~Active(n)
    BY <1>13, <1>0, <2>1 DEF IssueSession, TypeOK, Active
  <2>4. \A s \in Session : s # n => sess'[s] = sess[s]
    BY <1>13, <1>0 DEF IssueSession, TypeOK
  <2>5. \A s \in Session : Active(s) => sess[s].line # l
    <3>1. \A s \in Session : Active(s) => sess[s].line \in 1..made
      BY <1>0 DEF TypeOK, Active, Session, IInv, LineageInv, LinesExist
    <3>2. CASE req[r].line = None
      BY <2>1, <3>1, <3>2
    <3>3. CASE req[r].line # None
      BY <1>13, <3>3 DEF IssueSession, Holder, IInv, LineageInv, SuccessorIsOnlyHolder
    <3>4. QED
      BY <3>2, <3>3
  <2>6. req'[r].pc = "count" /\ \A q \in Request : q # r => req'[q] = req[q]
    BY <1>13, <1>0 DEF IssueSession, Idle
  <2>7. At(r, "issue") /\ password' = password
    BY <1>13 DEF IssueSession
  <2> HIDE DEF l
  <2>8. Held' = [Held EXCEPT ![l] = {n}]
    <3>1. ASSUME NEW k \in Session, k # l PROVE Held'[k] = Held[k]
      <4>1. \A s \in Session : Active(s)' /\ sess'[s].line = k <=> Active(s) /\ sess[s].line = k
        BY <2>3, <2>4, <3>1 DEF Active
      <4>2. QED
        BY <4>1 DEF Held
    <3>2. Held'[l] = {n}
      <4>1. \A s \in Session : Active(s)' /\ sess'[s].line = l <=> s = n
        BY <2>1, <2>3, <2>4, <2>5 DEF Active
      <4>2. QED
        BY <2>1, <2>2, <4>1 DEF Held
    <3>3. Held' = [k \in Session |-> Held'[k]] /\ Held = [k \in Session |-> Held[k]]
      BY DEF Held
    <3>4. Held' = [k \in Session |-> IF k = l THEN {n} ELSE Held[k]]
      BY <3>1, <3>2, <3>3
    <3>5. QED
      BY <3>3, <3>4
  <2>9. Abstract!Create(l)
    BY <2>1, <2>8 DEF Abstract!Create
  <2>10. Passing' = Passing \ {req[r].line}
    <3>1. ASSUME NEW k \in Session
          PROVE  k \in Passing' <=> k \in Passing /\ k # req[r].line
      <4>1. k # None
        BY DEF Session, None
      <4>2. ASSUME NEW q \in Request, q # r, At(q, "issue"), req[q].line = k
            PROVE  k # req[r].line
        BY <2>7, <4>1, <4>2 DEF Holder, IInv, LineageInv, SuccessorIsOnlyHolder
      <4>3. QED
        BY <2>6, <2>7, <4>2 DEF Passing, At
    <3>2. Passing' \subseteq Session /\ Passing \subseteq Session
      BY DEF Passing
    <3>3. QED
      BY <3>1, <3>2
  <2>11. CASE req[r].line = None
    <3>1. l = n /\ None \notin Passing
      BY <2>11 DEF l, Passing, Session, None
    <3>2. Passing' = Passing
      BY <2>10, <2>11, <3>1
    <3>3. Abstract!Start
      BY <2>7, <2>9, <3>1, <3>2 DEF Abstract!Start
    <3>4. QED
      BY <3>3 DEF Abstract!Next
  <2>12. CASE req[r].line # None
    <3>1. l = req[r].line
      BY <2>12 DEF l
    <3>2. l \in Passing
      BY <2>2, <2>7, <3>1 DEF Passing
    <3>3. Abstract!Issue(l)
      BY <2>7, <2>9, <2>10, <3>1, <3>2 DEF Abstract!Issue
    <3>4. QED
      BY <1>S, <2>2, <3>3 DEF Abstract!Next
  <2>13. QED
    BY <2>11, <2>12
<1>14. ASSUME NEW r \in Request, PruneCount(r) \/ PrunePick(r) PROVE Abstract!Next
  <2>1. UNCHANGED <<sess, made, password>> /\ ~At(r, "issue")
    BY <1>14 DEF PruneCount, PrunePick, At
  <2>2. CASE Finish(r)
    BY <2>1, <2>2, <1>3
  <2>3. CASE ~Finish(r)
    <3> DEFINE picking == [req[r] EXCEPT !.pc = "pick",
                              !.overflow = Cardinality(ActiveSessions) - Cap]
               pruning == [req[r] EXCEPT !.pc = "prune", !.victims = Oldest(req[r].overflow)]
    <3>1. req[r] \in Handler
      BY <1>0
    <3>2. picking.pc = "pick" /\ pruning.pc = "prune"
      BY <3>1 DEF Handler
    <3>3. req' = [req EXCEPT ![r] = picking] \/ req' = [req EXCEPT ![r] = pruning]
      BY <1>0, <1>14, <2>3 DEF PruneCount, PrunePick
    <3> HIDE DEF picking, pruning
    <3>4. QED
      BY <1>5, <2>1, <3>2, <3>3
  <2>4. QED
    BY <2>2, <2>3
<1>15. ASSUME NEW r \in Request, PruneRevoke(r) PROVE Abstract!Next
  BY <1>15, <1>2, <1>3 DEF PruneRevoke, At
<1>16. ASSUME NEW r \in Request, PruneFails(r) PROVE Abstract!Next
  BY <1>16, <1>3 DEF PruneFails, At
<1>17. ASSUME NEW r \in Request, NEW s \in Session, Logout(r, s) PROVE Abstract!Next
  BY <1>17, <1>2, <1>4 DEF Logout
<1>18. ASSUME NEW r \in Request, RevokeOthers(r) PROVE Abstract!Next
  BY <1>18, <1>2, <1>4 DEF RevokeOthers, EndAll
<1>19. ASSUME NEW r \in Request, ChangeRead(r) PROVE Abstract!Next
  BY <1>19, <1>6 DEF ChangeRead, At, Pc
<1>20. ASSUME NEW r \in Request, NewPassword, Finish(r), ~At(r, "issue"), made' = made
       PROVE  Abstract!Next
  <2>1. Passing' = Passing
    BY <1>0, <1>1, <1>20, PassingKept DEF Finish, Holder
  <2>2. \A s \in Session : ~Active(s)'
    BY <1>0, <1>20, EndedRevokes DEF NewPassword, EndAll, Active
  <2>3. Held' = [l \in Session |-> {}]
    BY <2>2 DEF Held
  <2>4. Abstract!Change
    BY <1>20, <1>S, <2>1, <2>3 DEF NewPassword, Abstract!Change
  <2>5. QED
    BY <2>4 DEF Abstract!Next
<1>21. ASSUME NEW r \in Request, ChangeCommit(r) \/ ResetCommit(r) PROVE Abstract!Next
  BY <1>20, <1>21 DEF ChangeCommit, ResetCommit, At
<1>22. ASSUME NEW r \in Request, NEW t \in ResetToken, ResetRead(r, t) PROVE Abstract!Next
  <2>1. [Idle EXCEPT !.pc = "reset", !.tok = t].pc = "reset"
    BY DEF Idle
  <2>2. QED
    BY <1>22, <1>5, <2>1 DEF ResetRead, At
<1>23. ASSUME NEW t \in ResetToken, ForgotPassword(t) PROVE Abstract!Next
  BY <1>23, <1>4 DEF ForgotPassword
<1>24. CASE Lapse
  BY <1>24, <1>4 DEF Lapse
<1>25. CASE UNCHANGED vars
  BY <1>25, <1>4 DEF vars
<1>26. QED
  BY <1>7, <1>7a, <1>7b, <1>7c, <1>8, <1>9, <1>10, <1>11, <1>12, <1>13, <1>14, <1>15, <1>16, <1>17,
     <1>18, <1>19, <1>21, <1>22, <1>23, <1>24, <1>25 DEF Next

\* The handlers of an account implement what AccountSessions promises, for any
\* number of them: a refresh spends the one good session of its lineage and issues
\* one successor, logins alone start lineages, all else only ends sessions.
THEOREM SessionsImplement == Spec => KeepsSessionsApart
<1>1. Init => IInv /\ Abstract!Init
  BY TypeInit, LineageInit, InitImplements DEF IInv
<1>2. IInv /\ [Next]_vars => IInv'
  BY TypeNext, LineageNext DEF IInv
<1>3. IInv /\ [Next]_vars => [Abstract!Next]_(Abstract!vars)
  BY NextImplements
<1>4. QED
  BY <1>1, <1>2, <1>3, PTL DEF Spec, KeepsSessionsApart, Abstract!Spec

-----------------------------------------------------------------------------
(* The cap on active sessions.                                               *)

\* A prune that is running and, whatever is revoked meanwhile, leaves at most Cap
\* sessions active: it has not counted yet, or it counted at least as many too
\* many as there are, or the sessions it picked not are few enough.
WillHoldCap(r) ==
    \/ At(r, "count")
    \/ At(r, "pick") /\ Cardinality(ActiveSessions) <= req[r].overflow + Cap
    \/ At(r, "prune") /\ Cardinality(ActiveSessions \ req[r].victims) <= Cap

\* The strengthening that makes CapHoldsWhenQuiet inductive: sessions above the
\* cap have such a prune.
PruneOwed ==
    \/ lost
    \/ Cardinality(ActiveSessions) <= Cap
    \/ \E r \in Request : WillHoldCap(r)

\* Of a finite set of numbers, taking the n lowest leaves all but n of them.
LEMMA LowestTaken ==
    ASSUME NEW S \in SUBSET Nat, IsFiniteSet(S), NEW n \in Nat, NEW c \in Nat,
           Cardinality(S) <= n + c
    PROVE  Cardinality(S \ {s \in S : Cardinality({o \in S : o < s}) < n}) <= c
<1> DEFINE below(s) == {o \in S : o < s}
           R == S \ {s \in S : Cardinality(below(s)) < n}
           f == [s \in R |-> Cardinality(below(s))]
           T == n .. (Cardinality(S) - 1)
<1>1. Cardinality(S) \in Nat
  BY FS_CardinalityType
<1>2. ASSUME NEW s \in S
      PROVE  /\ IsFiniteSet(below(s)) /\ Cardinality(below(s)) \in Nat
             /\ Cardinality(below(s)) < Cardinality(S)
  <2>1. below(s) \in SUBSET S /\ s \notin below(s)
    OBVIOUS
  <2>2. /\ IsFiniteSet(below(s)) /\ Cardinality(below(s)) <= Cardinality(S)
        /\ Cardinality(below(s)) # Cardinality(S)
    BY <2>1, FS_Subset
  <2>3. QED
    BY <1>1, <2>2, FS_CardinalityType
<1>3. ASSUME NEW x \in S, NEW y \in S, x < y
      PROVE  Cardinality(below(x)) # Cardinality(below(y))
  <2>1. \A o \in S : o \in Nat
    OBVIOUS
  <2>2. below(x) \in SUBSET below(y) /\ x \in below(y) /\ x \notin below(x)
    <3>1. x \in Nat /\ y \in Nat
      BY <2>1
    <3>2. \A o \in S : o < x => o < y
      BY <1>3, <2>1, <3>1
    <3>3. x \in below(y) /\ x \notin below(x)
      BY <1>3, <3>1
    <3>4. QED
      BY <3>2, <3>3
  <2>3. IsFiniteSet(below(y))
    BY <1>2
  <2> HIDE DEF below
  <2>4. QED
    BY <2>2, <2>3, FS_Subset
<1>4. IsFiniteSet(R)
  BY FS_Subset
<1>5. IsFiniteSet(T) /\ Cardinality(T) <= c
  <2> DEFINE last == Cardinality(S) - 1
  <2>1. n \in Int /\ last \in Int /\ last - n + 1 <= c
    BY <1>1
  <2> HIDE DEF last
  <2>2. IsFiniteSet(n .. last) /\ Cardinality(n .. last) = IF n > last THEN 0 ELSE last - n + 1
    BY <2>1, FS_Interval
  <2>3. QED
    BY <2>1, <2>2 DEF last
<1>6. f \in [R -> T]
  <2>1. \A s \in R : Cardinality(below(s)) \in T
    BY <1>1, <1>2
  <2>2. QED
    BY <2>1
<1>7. \A x, y \in R : x # y => f[x] # f[y]
  <2>1. R \in SUBSET S
    OBVIOUS
  <2>2. \A x, y \in R : x < y \/ y < x \/ x = y
    BY <2>1
  <2>3. \A x \in R : f[x] = Cardinality(below(x))
    OBVIOUS
  <2> HIDE DEF below, R, f
  <2>4. QED
    BY <1>3, <2>1, <2>2, <2>3
<1>8. Cardinality(R) \in Nat /\ Cardinality(T) \in Nat
  BY <1>4, <1>5, FS_CardinalityType
<1> HIDE DEF R, f, T
<1>9. ~ (Cardinality(T) < Cardinality(R))
  BY <1>4, <1>5, <1>6, <1>7, FS_PigeonHole
<1>10. Cardinality(R) <= c
  BY <1>5, <1>8, <1>9
<1>11. QED
  BY <1>10 DEF R

\* The active sessions are a finite set, and so are those a prune leaves.
LEMMA ActiveIsFinite ==
    ASSUME TypeOK
    PROVE  /\ ActiveSessions \in SUBSET Nat
           /\ \A X : IsFiniteSet(ActiveSessions \ X)
<1>1. IsFiniteSet(Session)
  BY SessionsAssumption, FS_Interval DEF Session
<1>2. ActiveSessions \in SUBSET Session
  BY DEF ActiveSessions
<1>3. ASSUME NEW X PROVE IsFiniteSet(ActiveSessions \ X)
  <2>1. ActiveSessions \ X \in SUBSET Session
    BY <1>2
  <2>2. QED
    BY <1>1, <2>1, FS_Subset
<1>4. ActiveSessions \in SUBSET Nat
  BY <1>2 DEF Session
<1>5. QED
  BY <1>3, <1>4

\* A step that activates no session leaves no more of them active, within any set.
LEMMA FewerActive ==
    ASSUME TypeOK, \A s \in Session : sess'[s].ended = "no" => sess[s].ended = "no"
    PROVE  \A X : Cardinality((ActiveSessions \ X)') <= Cardinality(ActiveSessions \ X)
<1>1. ASSUME NEW X PROVE Cardinality(ActiveSessions' \ X) <= Cardinality(ActiveSessions \ X)
  <2>1. ActiveSessions' \ X \in SUBSET (ActiveSessions \ X)
    BY DEF ActiveSessions, Active
  <2>2. IsFiniteSet(ActiveSessions \ X)
    BY ActiveIsFinite
  <2>3. QED
    BY <2>1, <2>2, FS_Subset
<1>2. QED
  BY <1>1

LEMMA PruneOwedNext == TypeOK /\ PruneOwed /\ [Next]_vars => PruneOwed'
<1> SUFFICES ASSUME TypeOK, PruneOwed, [Next]_vars PROVE PruneOwed'
  OBVIOUS
<1> USE SessionsAssumption
<1>0. req \in [Request -> Handler] /\ lost \in BOOLEAN
  BY DEF TypeOK
<1>1. ASSUME \A s \in Session : sess'[s].ended = "no" => sess[s].ended = "no",
             lost' = lost,
             \A r \in Request : WillHoldCap(r) => req'[r] = req[r]
      PROVE  PruneOwed'
  <2> DEFINE few == Cardinality(ActiveSessions) <= Cap
  <2>1. \A X : /\ Cardinality((ActiveSessions \ X)') <= Cardinality(ActiveSessions \ X)
               /\ Cardinality((ActiveSessions \ X)') \in Nat
               /\ Cardinality(ActiveSessions \ X) \in Nat
    <3>1. \A X : Cardinality((ActiveSessions \ X)') <= Cardinality(ActiveSessions \ X)
      BY <1>1, FewerActive
    <3>2. \A X : IsFiniteSet((ActiveSessions \ X)') /\ IsFiniteSet(ActiveSessions \ X)
      <4>1. TypeOK'
        BY TypeNext
      <4>2. \A X : IsFiniteSet(ActiveSessions \ X)
        BY ActiveIsFinite
      <4>3. \A X : IsFiniteSet((ActiveSessions \ X)')
        <5>1. ASSUME NEW X PROVE IsFiniteSet(ActiveSessions' \ X)
          <6>1. ActiveSessions' \ X \in SUBSET (ActiveSessions \ X)
            BY <1>1 DEF ActiveSessions, Active
          <6>2. QED
            BY <4>2, <6>1, FS_Subset
        <5>2. QED
          BY <5>1
      <4>4. QED
        BY <4>2, <4>3
    <3>3. QED
      BY <3>1, <3>2, FS_CardinalityType
  <2>2. ActiveSessions \ {} = ActiveSessions /\ (ActiveSessions \ {})' = ActiveSessions'
    OBVIOUS
  <2>3. /\ Cardinality(ActiveSessions') <= Cardinality(ActiveSessions)
        /\ Cardinality(ActiveSessions') \in Nat /\ Cardinality(ActiveSessions) \in Nat
    BY <2>1, <2>2
  <2>4. CASE lost
    BY <1>1, <2>4 DEF PruneOwed
  <2>5. CASE few
    BY <2>3, <2>5 DEF PruneOwed
  <2>6. ASSUME NEW r \in Request, WillHoldCap(r) PROVE PruneOwed'
    <3>1. req'[r] = req[r] /\ req[r].overflow \in Nat
      BY <1>0, <1>1, <2>6 DEF Handler
    <3>2. CASE At(r, "count")
      BY <3>1, <3>2 DEF PruneOwed, WillHoldCap, At
    <3>3. CASE At(r, "pick") /\ Cardinality(ActiveSessions) <= req[r].overflow + Cap
      <4>1. Cardinality(ActiveSessions') <= req'[r].overflow + Cap
        BY <2>3, <3>1, <3>3
      <4>2. QED
        BY <3>1, <3>3, <4>1 DEF PruneOwed, WillHoldCap, At
    <3>4. CASE At(r, "prune") /\ Cardinality(ActiveSessions \ req[r].victims) <= Cap
      <4> DEFINE X == req[r].victims
      <4>a. /\ Cardinality(ActiveSessions' \ X) <= Cardinality(ActiveSessions \ X)
            /\ Cardinality(ActiveSessions' \ X) \in Nat /\ Cardinality(ActiveSessions \ X) \in Nat
        BY <2>1
      <4>1. Cardinality(ActiveSessions' \ req'[r].victims) <= Cap
        BY <3>1, <3>4, <4>a
      <4>2. QED
        BY <3>1, <3>4, <4>1 DEF PruneOwed, WillHoldCap, At
    <3>5. QED
      BY <2>6, <3>2, <3>3, <3>4 DEF WillHoldCap
  <2>7. QED
    BY <2>4, <2>5, <2>6 DEF PruneOwed
<1>2. ASSUME NEW set, NEW cause \in {"revoked", "others"}, sess' = Ended(set, cause)
      PROVE  \A s \in Session : sess'[s].ended = "no" => sess[s].ended = "no"
  BY <1>2, EndedRevokes
<1>3. ASSUME NEW r \in Request, NEW h, ~WillHoldCap(r), req' = [req EXCEPT ![r] = h]
      PROVE  \A q \in Request : WillHoldCap(q) => req'[q] = req[q]
  BY <1>0, <1>3
<1>4. ASSUME NEW r \in Request, Finish(r), lost' = lost, req[r].pc \notin {"count", "pick", "prune"},
             \A s \in Session : sess'[s].ended = "no" => sess[s].ended = "no"
      PROVE  PruneOwed'
  <2>1. ~WillHoldCap(r)
    BY <1>4 DEF WillHoldCap, At
  <2>2. QED
    BY <1>1, <1>3, <1>4, <2>1 DEF Finish
<1>5. ASSUME NEW r \in Request, NEW pc \in Pc, Goto(r, pc), lost' = lost, sess' = sess,
             req[r].pc \notin {"count", "pick", "prune"}
      PROVE  PruneOwed'
  <2>1. ~WillHoldCap(r)
    BY <1>5 DEF WillHoldCap, At
  <2>2. \A q \in Request : q # r => req'[q] = req[q]
    BY <1>0, <1>5 DEF Goto
  <2>3. QED
    BY <1>1, <1>5, <2>1, <2>2
<1>6. ASSUME NEW r \in Request, Login(r) PROVE PruneOwed'
  BY <1>0, <1>1, <1>6 DEF Login, WillHoldCap, At
<1>6a. ASSUME NEW r \in Request, LoginStages(r) PROVE PruneOwed'
  BY <1>4, <1>6a DEF LoginStages, At
<1>6b. ASSUME NEW r \in Request, NEW pw \in tickets, LoginTotp(r, pw) PROVE PruneOwed'
  BY <1>0, <1>1, <1>6b DEF LoginTotp, WillHoldCap, At
<1>6c. ASSUME NEW pw \in tickets, StagedExpires(pw) PROVE PruneOwed'
  BY <1>1, <1>6c DEF StagedExpires
<1>7. ASSUME NEW r \in Request, NEW s \in Session, RefreshRead(r, s) PROVE PruneOwed'
  BY <1>0, <1>1, <1>7 DEF RefreshRead, WillHoldCap, At
<1>8. ASSUME NEW r \in Request, RefreshReuse(r) PROVE PruneOwed'
  BY <1>2, <1>4, <1>8 DEF RefreshReuse, EndAll, At
<1>9. ASSUME NEW r \in Request, RefreshUser(r) PROVE PruneOwed'
  BY <1>5, <1>9 DEF RefreshUser, At, Pc
<1>10. ASSUME NEW r \in Request, RefreshLapsed(r) PROVE PruneOwed'
  BY <1>2, <1>4, <1>10 DEF RefreshLapsed, At
<1>11. ASSUME NEW r \in Request, RefreshRotate(r) PROVE PruneOwed'
  <2>1. ~WillHoldCap(r)
    BY <1>11 DEF RefreshRotate, WillHoldCap, At
  <2>2. \A q \in Request : q # r => req'[q] = req[q]
    BY <1>0, <1>11 DEF RefreshRotate, CarryOn, Finish
  <2>3. QED
    BY <1>1, <1>2, <1>11, <2>1, <2>2 DEF RefreshRotate
<1>12. ASSUME NEW r \in Request, IssueSession(r) PROVE PruneOwed'
  <2>1. req'[r].pc = "count"
    BY <1>0, <1>12 DEF IssueSession, Idle
  <2>2. QED
    BY <2>1 DEF PruneOwed, WillHoldCap, At
<1>13. ASSUME NEW r \in Request, PruneCount(r) PROVE PruneOwed'
  <2> DEFINE n == Cardinality(ActiveSessions)
  <2>1. n \in Nat /\ ActiveSessions' = ActiveSessions
    BY <1>13, ActiveFinite DEF PruneCount, ActiveSessions, Active
  <2>2. CASE n <= Cap
    BY <2>1, <2>2 DEF PruneOwed
  <2>3. CASE ~(n <= Cap)
    <3>1. req' = [req EXCEPT ![r].pc = "pick", ![r].overflow = n - Cap]
      BY <1>13, <2>3 DEF PruneCount
    <3>2. req[r] \in Handler
      BY <1>0
    <3> HIDE DEF n
    <3>3. req'[r].pc = "pick" /\ req'[r].overflow = n - Cap
      BY <1>0, <3>1, <3>2 DEF Handler
    <3>4. n <= req'[r].overflow + Cap
      BY <2>1, <3>3
    <3>5. Cardinality(ActiveSessions') <= req'[r].overflow + Cap
      BY <2>1, <3>4 DEF n
    <3>6. QED
      BY <3>3, <3>5 DEF PruneOwed, WillHoldCap, At
  <2>4. QED
    BY <2>2, <2>3
<1>14. ASSUME NEW r \in Request, PrunePick(r) PROVE PruneOwed'
  <2>1. ActiveSessions' = ActiveSessions /\ lost' = lost
    BY <1>14 DEF PrunePick, ActiveSessions, Active
  <2>2. req[r] \in Handler /\ req[r].overflow \in Nat /\ req[r].pc = "pick"
    BY <1>0, <1>14 DEF Handler, PrunePick, At
  <2>3. CASE WillHoldCap(r)
    <3>1. Cardinality(ActiveSessions) <= req[r].overflow + Cap
      BY <2>2, <2>3 DEF WillHoldCap, At
    <3>2. CASE ActiveSessions = {}
      <4>1. Cardinality(ActiveSessions) = 0
        BY <3>2, FS_EmptySet
      <4>2. QED
        BY <2>1, <4>1 DEF PruneOwed
    <3>3. CASE ActiveSessions # {}
      <4>1. ActiveSessions \in SUBSET Nat /\ IsFiniteSet(ActiveSessions)
        <5>1. ActiveSessions \ {} = ActiveSessions
          OBVIOUS
        <5>2. QED
          BY <5>1, ActiveIsFinite
      <4>2. Cardinality(ActiveSessions \ Oldest(req[r].overflow)) <= Cap
        BY <2>2, <3>1, <4>1, LowestTaken DEF Oldest
      <4>3. req'[r].pc = "prune" /\ req'[r].victims = Oldest(req[r].overflow)
        BY <1>0, <1>14, <2>2, <3>3 DEF PrunePick, Handler
      <4>4. QED
        BY <2>1, <4>2, <4>3 DEF PruneOwed, WillHoldCap, At
    <3>4. QED
      BY <3>2, <3>3
  <2>4. CASE ~WillHoldCap(r)
    <3>1. \A q \in Request : q # r => req'[q] = req[q]
      BY <1>0, <1>14 DEF PrunePick, Finish
    <3>2. QED
      BY <1>1, <1>14, <2>4, <3>1 DEF PrunePick
  <2>5. QED
    BY <2>3, <2>4
<1>15. ASSUME NEW r \in Request, PruneRevoke(r) PROVE PruneOwed'
  <2>1. \A s \in Session : sess'[s].ended = "no" => sess[s].ended = "no" /\ s \notin req[r].victims
    BY <1>15, EndedRevokes DEF PruneRevoke
  <2>2. CASE WillHoldCap(r)
    <3>1. Cardinality(ActiveSessions \ req[r].victims) <= Cap
      BY <1>15, <2>2 DEF WillHoldCap, PruneRevoke, At
    <3>2. ActiveSessions' \in SUBSET (ActiveSessions \ req[r].victims)
      BY <2>1 DEF ActiveSessions, Active
    <3>3. IsFiniteSet(ActiveSessions \ req[r].victims)
      BY ActiveIsFinite
    <3>4. /\ Cardinality(ActiveSessions') <= Cardinality(ActiveSessions \ req[r].victims)
          /\ Cardinality(ActiveSessions') \in Nat
          /\ Cardinality(ActiveSessions \ req[r].victims) \in Nat
      BY <3>2, <3>3, FS_Subset, FS_CardinalityType
    <3>5. QED
      BY <3>1, <3>4 DEF PruneOwed
  <2>3. CASE ~WillHoldCap(r)
    <3>1. \A q \in Request : q # r => req'[q] = req[q]
      BY <1>0, <1>15 DEF PruneRevoke, Finish
    <3>2. QED
      BY <1>1, <1>15, <2>1, <2>3, <3>1 DEF PruneRevoke
  <2>4. QED
    BY <2>2, <2>3
<1>16. ASSUME NEW r \in Request, PruneFails(r) PROVE PruneOwed'
  BY <1>16 DEF PruneFails, PruneOwed
<1>17. ASSUME NEW r \in Request, NEW s \in Session, Logout(r, s) PROVE PruneOwed'
  BY <1>1, <1>2, <1>17 DEF Logout
<1>18. ASSUME NEW r \in Request, RevokeOthers(r) PROVE PruneOwed'
  BY <1>1, <1>2, <1>18 DEF RevokeOthers, EndAll
<1>19. ASSUME NEW r \in Request, ChangeRead(r) PROVE PruneOwed'
  BY <1>5, <1>19 DEF ChangeRead, At, Pc
<1>20. ASSUME NEW r \in Request, ChangeCommit(r) PROVE PruneOwed'
  BY <1>2, <1>4, <1>20 DEF ChangeCommit, NewPassword, EndAll, At
<1>21. ASSUME NEW r \in Request, NEW t \in ResetToken, ResetRead(r, t) PROVE PruneOwed'
  BY <1>0, <1>1, <1>21 DEF ResetRead, WillHoldCap, At
<1>22. ASSUME NEW r \in Request, ResetCommit(r) PROVE PruneOwed'
  BY <1>2, <1>4, <1>22 DEF ResetCommit, NewPassword, EndAll, At
<1>23. ASSUME NEW t \in ResetToken, ForgotPassword(t) PROVE PruneOwed'
  BY <1>1, <1>23 DEF ForgotPassword
<1>24. CASE Lapse
  BY <1>1, <1>24 DEF Lapse
<1>25. CASE UNCHANGED vars
  BY <1>1, <1>25 DEF vars
<1>26. QED
  BY <1>6, <1>6a, <1>6b, <1>6c, <1>7, <1>8, <1>9, <1>10, <1>11, <1>12, <1>13, <1>14, <1>15, <1>16,
     <1>17, <1>18, <1>19, <1>20, <1>21, <1>22, <1>23, <1>24, <1>25 DEF Next

\* However many logins and refreshes interleave with each other's detached prunes:
\* once no handler runs, at most MAX_ACTIVE_SESSIONS_PER_USER sessions of the
\* account are active, or a prune has failed since the last was created.
THEOREM CapHolds == Spec => []CapHoldsWhenQuiet
<1>1. Init => PruneOwed
  <2> SUFFICES ASSUME Init PROVE PruneOwed
    OBVIOUS
  <2>1. ActiveSessions = {}
    BY DEF Init, ActiveSessions, Active, Unmade
  <2>2. QED
    BY <2>1, FS_EmptySet, SessionsAssumption DEF PruneOwed
<1>2. PruneOwed => CapHoldsWhenQuiet
  BY DEF PruneOwed, WillHoldCap, CapHoldsWhenQuiet, At
<1>3. QED
  BY <1>1, <1>2, TypeInit, TypeNext, PruneOwedNext, PTL DEF Spec

-----------------------------------------------------------------------------
(* One handler at a time: what the documents say of a password, of a reset   *)
(* link and of the cap is false only of handlers that overlap.               *)

\* A prune that has counted knows how many sessions are above the cap, and one that
\* has picked has picked that many of the oldest.
PruneIsCurrent ==
    \A r \in Request :
        /\ At(r, "pick") => Cardinality(ActiveSessions) = req[r].overflow + Cap
        /\ At(r, "prune") => \E n \in Nat : /\ Cardinality(ActiveSessions) = n + Cap
                                            /\ req[r].victims = Oldest(n)

\* A reset that has checked its link finds it live when it commits.
LinkIsLive == \A r \in Request : At(r, "reset") => resets[req[r].tok] = "live"

\* The account has no second factor, so nothing keeps a checked password over; a
\* refresh that has yet to rotate carries the password its session was started
\* with, and a handler about to create a session the current one.
NothingStaged == SecondFactor = FALSE /\ tickets = {} /\ \A r \in Request : ~At(r, "stage")

RefreshKnowsPassword ==
    \A r \in Request : req[r].pc \in {"user", "rotate"} => sess[req[r].sid].pw = req[r].pw

IssuesKnownPassword == \A r \in Request : At(r, "issue") => req[r].pw = password

PasswordInv ==
    NothingStaged /\ RefreshKnowsPassword /\ IssuesKnownPassword /\ ActiveSessionKnowsPassword

\* Steps that activate no session, change no password and take no handler into a
\* refresh or to the creation of a session.
LEMMA PasswordQuiet ==
    ASSUME IInv, PasswordInv, password' = password, tickets' = tickets,
           \A s \in Session : /\ sess'[s].pw = sess[s].pw
                              /\ sess'[s].ended = "no" => sess[s].ended = "no",
           \A r \in Request :
               \/ req'[r].pc \notin {"user", "rotate", "issue", "stage"}
               \/ req'[r].pc = "issue" /\ req[r].pc = "issue" /\ req'[r].pw = req[r].pw
               \/ /\ {req[r].pc, req'[r].pc} \subseteq {"user", "rotate"}
                  /\ req'[r].sid = req[r].sid /\ req'[r].pw = req[r].pw
    PROVE  PasswordInv'
<1>1. \A r \in Request : req[r].pc \in {"user", "rotate"} => req[r].sid \in Session
  BY SessionsAssumption DEF IInv, TypeOK, LineageInv, RefreshKnowsLine, Session
<1>2. RefreshKnowsPassword'
  BY <1>1 DEF PasswordInv, RefreshKnowsPassword
<1>3. IssuesKnownPassword'
  BY DEF PasswordInv, IssuesKnownPassword, At
<1>4. ActiveSessionKnowsPassword'
  BY DEF PasswordInv, ActiveSessionKnowsPassword, Active
<1>5. NothingStaged'
  BY DEF PasswordInv, NothingStaged, At
<1>6. QED
  BY <1>2, <1>3, <1>4, <1>5 DEF PasswordInv

\* A step that takes one handler to a statement outside both.
LEMMA PasswordLeft ==
    ASSUME IInv, PasswordInv, password' = password, tickets' = tickets,
           \A s \in Session : /\ sess'[s].pw = sess[s].pw
                              /\ sess'[s].ended = "no" => sess[s].ended = "no",
           NEW r \in Request, NEW h, req' = [req EXCEPT ![r] = h],
           h.pc \notin {"user", "rotate", "issue", "stage"}
    PROVE  PasswordInv'
<1>1. \A q \in Request : req'[q] = IF q = r THEN h ELSE req[q]
  BY DEF IInv, TypeOK
<1>2. \A q \in Request :
         \/ req'[q].pc \notin {"user", "rotate", "issue", "stage"}
         \/ req'[q].pc = "issue" /\ req[q].pc = "issue" /\ req'[q].pw = req[q].pw
         \/ /\ {req[q].pc, req'[q].pc} \subseteq {"user", "rotate"}
            /\ req'[q].sid = req[q].sid /\ req'[q].pw = req[q].pw
  BY <1>1 DEF PasswordInv, NothingStaged, At
<1>3. QED
  BY <1>2, PasswordQuiet

LEMMA PasswordInit == Init /\ SecondFactor = FALSE => PasswordInv
BY DEF Init, PasswordInv, NothingStaged, RefreshKnowsPassword, IssuesKnownPassword, ActiveSessionKnowsPassword, At, Active,
   Idle, Unmade

LEMMA PasswordNext ==
    ASSUME NEW slot, Request = {slot}, IInv, PasswordInv, [Next]_vars
    PROVE  PasswordInv'
<1> USE SessionsAssumption
<1>0. TypeOK /\ made \in 0..MaxSessions /\ req \in [Request -> Handler]
  BY DEF IInv, TypeOK
<1>1. Idle.pc = "idle"
  BY DEF Idle
<1>2. ASSUME NEW set, NEW cause \in {"revoked", "others"}, sess' = Ended(set, cause)
      PROVE  \A s \in Session : /\ sess'[s].pw = sess[s].pw
                                /\ sess'[s].ended = "no" => sess[s].ended = "no"
  BY <1>0, <1>2, EndedRevokes
<1>3. ASSUME NEW r \in Request, Finish(r), password' = password, tickets' = tickets,
             \A s \in Session : /\ sess'[s].pw = sess[s].pw
                                /\ sess'[s].ended = "no" => sess[s].ended = "no"
      PROVE  PasswordInv'
  BY <1>1, <1>3, PasswordLeft DEF Finish
<1>4. ASSUME req' = req, password' = password, tickets' = tickets,
             \A s \in Session : /\ sess'[s].pw = sess[s].pw
                                /\ sess'[s].ended = "no" => sess[s].ended = "no"
      PROVE  PasswordInv'
  BY <1>4, PasswordQuiet DEF PasswordInv, NothingStaged, At
<1>5. ASSUME NEW r \in Request, Login(r) PROVE PasswordInv'
  <2>1. \A q \in Request : q # r => req'[q] = req[q]
    BY <1>0, <1>5 DEF Login
  <2>2. req'[r].pc = "issue" /\ req'[r].pw = password
    BY <1>0, <1>5 DEF Login, Idle, PasswordInv, NothingStaged
  <2>3. UNCHANGED <<sess, password, tickets>>
    BY <1>5 DEF Login
  <2>4. RefreshKnowsPassword'
    BY <2>1, <2>2, <2>3 DEF PasswordInv, RefreshKnowsPassword
  <2>5. IssuesKnownPassword' /\ ActiveSessionKnowsPassword'
    BY <2>1, <2>2, <2>3 DEF PasswordInv, IssuesKnownPassword, ActiveSessionKnowsPassword, Active, At
  <2>6. NothingStaged'
    BY <2>1, <2>2, <2>3 DEF PasswordInv, NothingStaged, At
  <2>7. QED
    BY <2>4, <2>5, <2>6 DEF PasswordInv
<1>5a. ASSUME NEW r \in Request, LoginStages(r) PROVE PasswordInv'
  BY <1>5a DEF LoginStages, PasswordInv, NothingStaged
<1>5b. ASSUME NEW pw \in tickets PROVE PasswordInv'
  BY <1>5b DEF PasswordInv, NothingStaged
<1>6. ASSUME NEW r \in Request, NEW s \in Session, RefreshRead(r, s) PROVE PasswordInv'
  <2>1. \A q \in Request : q # r => req'[q] = req[q]
    BY <1>0, <1>6 DEF RefreshRead
  <2>2. req'[r].pc \notin {"issue", "stage"} /\ req'[r].sid = s /\ req'[r].pw = sess[s].pw
    BY <1>0, <1>6 DEF RefreshRead, Idle
  <2>3. UNCHANGED <<sess, password, tickets>>
    BY <1>6 DEF RefreshRead
  <2>4. RefreshKnowsPassword'
    BY <2>1, <2>2, <2>3 DEF PasswordInv, RefreshKnowsPassword
  <2>5. IssuesKnownPassword' /\ ActiveSessionKnowsPassword'
    BY <2>1, <2>2, <2>3 DEF PasswordInv, IssuesKnownPassword, ActiveSessionKnowsPassword, Active, At
  <2>6. NothingStaged'
    BY <2>1, <2>2, <2>3 DEF PasswordInv, NothingStaged, At
  <2>7. QED
    BY <2>4, <2>5, <2>6 DEF PasswordInv
<1>7. ASSUME NEW r \in Request, RefreshReuse(r) PROVE PasswordInv'
  BY <1>7, <1>2, <1>3 DEF RefreshReuse, EndAll
<1>8. ASSUME NEW r \in Request, RefreshUser(r) PROVE PasswordInv'
  <2>1. \A q \in Request : q # r => req'[q] = req[q]
    BY <1>0, <1>8 DEF RefreshUser, Goto
  <2>2. req[r].pc = "user" /\ req[r] \in Handler
    BY <1>0, <1>8 DEF RefreshUser, At
  <2>3. \E pc \in {"lapsed", "rotate"} : req'[r] = [req[r] EXCEPT !.pc = pc]
    BY <1>0, <1>8 DEF RefreshUser, Goto
  <2>4. req'[r].pc \in {"lapsed", "rotate"} /\ req'[r].sid = req[r].sid /\ req'[r].pw = req[r].pw
    BY <2>2, <2>3 DEF Handler
  <2>5. UNCHANGED <<sess, password, tickets>>
    BY <1>8 DEF RefreshUser
  <2>6. RefreshKnowsPassword'
    BY <2>1, <2>2, <2>4, <2>5 DEF PasswordInv, RefreshKnowsPassword
  <2>7. IssuesKnownPassword' /\ ActiveSessionKnowsPassword'
    BY <2>1, <2>4, <2>5 DEF PasswordInv, IssuesKnownPassword, ActiveSessionKnowsPassword, Active, At
  <2>8. NothingStaged'
    BY <2>1, <2>4, <2>5 DEF PasswordInv, NothingStaged, At
  <2>9. QED
    BY <2>6, <2>7, <2>8 DEF PasswordInv
<1>9. ASSUME NEW r \in Request, RefreshLapsed(r) PROVE PasswordInv'
  BY <1>9, <1>2, <1>3 DEF RefreshLapsed
<1>10. ASSUME NEW r \in Request, RefreshRotate(r) PROVE PasswordInv'
  <2> DEFINE p == req[r].sid
  <2>1. p \in Session /\ sess[p].pw = req[r].pw
    BY <1>10, <1>0 DEF RefreshRotate, At, IInv, LineageInv, RefreshKnowsLine, Session, PasswordInv,
       RefreshKnowsPassword
  <2>2. UNCHANGED <<password, tickets>>
    BY <1>10 DEF RefreshRotate
  <2>3. \A s \in Session : sess'[s].pw = sess[s].pw /\ (sess'[s].ended = "no" => sess[s].ended = "no")
    BY <1>10, <1>2 DEF RefreshRotate
  <2>4. CASE ~Active(p)
    BY <1>10, <1>3, <2>2, <2>3, <2>4 DEF RefreshRotate
  <2>5. CASE Active(p)
    <3>1. CarryOn(r) /\ req[r] \in Handler
      BY <1>0, <1>10, <2>5 DEF RefreshRotate
    <3>2. req'[r].pc = "issue" /\ req'[r].pw = sess[p].pw
      BY <1>0, <2>1, <3>1 DEF CarryOn, Handler
    <3>3. \A q \in Request : q # r => req'[q] = req[q]
      BY <1>0, <3>1 DEF CarryOn
    <3>4. sess[p].pw = password
      BY <2>1, <2>5 DEF PasswordInv, ActiveSessionKnowsPassword
    <3>5. \A q \in Request : req[q].pc \in {"user", "rotate"} => req[q].sid \in Session
      BY <1>0 DEF IInv, LineageInv, RefreshKnowsLine, Session
    <3>6. RefreshKnowsPassword'
      BY <2>3, <3>2, <3>3, <3>5 DEF PasswordInv, RefreshKnowsPassword
    <3>7. IssuesKnownPassword'
      BY <2>2, <3>2, <3>3, <3>4 DEF PasswordInv, IssuesKnownPassword, At
    <3>8. ActiveSessionKnowsPassword'
      BY <2>2, <2>3 DEF PasswordInv, ActiveSessionKnowsPassword, Active
    <3>9. NothingStaged'
      BY <2>2, <3>2, <3>3 DEF PasswordInv, NothingStaged, At
    <3>10. QED
      BY <3>6, <3>7, <3>8, <3>9 DEF PasswordInv
  <2>6. QED
    BY <2>4, <2>5
<1>11. ASSUME NEW r \in Request, IssueSession(r) PROVE PasswordInv'
  <2> DEFINE n == made + 1
  <2>1. n \in Session /\ n \notin 1..made
    BY <1>11, <1>0 DEF IssueSession, Session
  <2>2. sess'[n].pw = req[r].pw /\ \A s \in Session : s # n => sess'[s] = sess[s]
    BY <1>11, <1>0, <2>1 DEF IssueSession, TypeOK
  <2>3. req[r].pw = password
    BY <1>11 DEF IssueSession, PasswordInv, IssuesKnownPassword
  <2>4. req'[r].pc = "count" /\ \A q \in Request : q # r => req'[q] = req[q]
    BY <1>11, <1>0 DEF IssueSession, Idle
  <2>5. UNCHANGED <<password, tickets>>
    BY <1>11 DEF IssueSession
  <2>6. \A q \in Request : req[q].pc \in {"user", "rotate"} => req[q].sid \in Session /\ req[q].sid # n
    BY <1>0, <2>1 DEF IInv, LineageInv, RefreshKnowsLine, Session
  <2> HIDE DEF n
  <2>7. RefreshKnowsPassword'
    BY <2>2, <2>4, <2>6 DEF PasswordInv, RefreshKnowsPassword
  <2>8. IssuesKnownPassword'
    BY <2>4, <2>5 DEF PasswordInv, IssuesKnownPassword, At
  <2>9. ActiveSessionKnowsPassword'
    BY <2>2, <2>3, <2>5 DEF PasswordInv, ActiveSessionKnowsPassword, Active
  <2>10. NothingStaged'
    BY <2>4, <2>5 DEF PasswordInv, NothingStaged, At
  <2>11. QED
    BY <2>7, <2>8, <2>9, <2>10 DEF PasswordInv
<1>12. ASSUME NEW r \in Request, PruneCount(r) \/ PrunePick(r) PROVE PasswordInv'
  <2>1. UNCHANGED <<sess, password, tickets>>
    BY <1>12 DEF PruneCount, PrunePick
  <2>2. CASE Finish(r)
    BY <2>1, <2>2, <1>3
  <2>3. CASE ~Finish(r)
    <3> DEFINE picking == [req[r] EXCEPT !.pc = "pick",
                              !.overflow = Cardinality(ActiveSessions) - Cap]
               pruning == [req[r] EXCEPT !.pc = "prune", !.victims = Oldest(req[r].overflow)]
    <3>1. req[r] \in Handler
      BY <1>0
    <3>2. picking.pc = "pick" /\ pruning.pc = "prune"
      BY <3>1 DEF Handler
    <3>3. req' = [req EXCEPT ![r] = picking] \/ req' = [req EXCEPT ![r] = pruning]
      BY <1>0, <1>12, <2>3 DEF PruneCount, PrunePick
    <3> HIDE DEF picking, pruning
    <3>4. QED
      BY <2>1, <3>2, <3>3, PasswordLeft
  <2>4. QED
    BY <2>2, <2>3
<1>13. ASSUME NEW r \in Request, PruneRevoke(r) PROVE PasswordInv'
  BY <1>13, <1>2, <1>3 DEF PruneRevoke
<1>14. ASSUME NEW r \in Request, PruneFails(r) PROVE PasswordInv'
  BY <1>14, <1>3 DEF PruneFails
<1>15. ASSUME NEW r \in Request, NEW s \in Session, Logout(r, s) PROVE PasswordInv'
  BY <1>15, <1>2, <1>4 DEF Logout
<1>16. ASSUME NEW r \in Request, RevokeOthers(r) PROVE PasswordInv'
  BY <1>16, <1>2, <1>4 DEF RevokeOthers, EndAll
<1>17. ASSUME NEW r \in Request, ChangeRead(r) PROVE PasswordInv'
  <2>1. req' = [req EXCEPT ![r] = [req[r] EXCEPT !.pc = "change"]] /\ req[r] \in Handler
    BY <1>0, <1>17 DEF ChangeRead, Goto
  <2>2. [req[r] EXCEPT !.pc = "change"].pc = "change"
    BY <2>1 DEF Handler
  <2>3. QED
    BY <1>17, <2>1, <2>2, PasswordLeft DEF ChangeRead
<1>18. ASSUME NEW r \in Request, NewPassword, Finish(r), tickets' = tickets PROVE PasswordInv'
  <2>1. \A s \in Session : sess'[s].ended # "no" /\ sess'[s].pw = sess[s].pw
    BY <1>0, <1>18, EndedRevokes DEF NewPassword, EndAll
  <2>2. \A q \in Request : q # r => req'[q] = req[q]
    BY <1>0, <1>18 DEF Finish
  <2>3. req'[r].pc = "idle"
    BY <1>0, <1>1, <1>18 DEF Finish
  <2>4. \A q \in Request : req[q].pc \in {"user", "rotate"} => req[q].sid \in Session
    BY <1>0 DEF IInv, LineageInv, RefreshKnowsLine, Session
  <2>5. NothingStaged'
    BY <1>18, <2>2, <2>3 DEF PasswordInv, NothingStaged, At
  <2>6. RefreshKnowsPassword'
    BY <2>1, <2>2, <2>3, <2>4 DEF PasswordInv, RefreshKnowsPassword
  <2>7. IssuesKnownPassword'
    BY <2>3 DEF IssuesKnownPassword, At
  <2>8. ActiveSessionKnowsPassword'
    BY <2>1 DEF ActiveSessionKnowsPassword, Active
  <2>9. QED
    BY <2>5, <2>6, <2>7, <2>8 DEF PasswordInv
<1>19. ASSUME NEW r \in Request, ChangeCommit(r) \/ ResetCommit(r) PROVE PasswordInv'
  BY <1>18, <1>19 DEF ChangeCommit, ResetCommit
<1>20. ASSUME NEW r \in Request, NEW t \in ResetToken, ResetRead(r, t) PROVE PasswordInv'
  <2>1. [Idle EXCEPT !.pc = "reset", !.tok = t].pc = "reset"
    BY DEF Idle
  <2>2. QED
    BY <1>20, <2>1, PasswordLeft DEF ResetRead
<1>21. ASSUME NEW t \in ResetToken, ForgotPassword(t) PROVE PasswordInv'
  BY <1>21, <1>4 DEF ForgotPassword
<1>22. CASE Lapse
  BY <1>22, <1>4 DEF Lapse
<1>23. CASE UNCHANGED vars
  BY <1>23, <1>4 DEF vars
<1>24. QED
  BY <1>5, <1>5a, <1>5b, <1>6, <1>7, <1>8, <1>9, <1>10, <1>11, <1>12, <1>13, <1>14, <1>15, <1>16, <1>17,
     <1>19, <1>20, <1>21, <1>22, <1>23 DEF Next

LEMMA SerialNext ==
    ASSUME NEW r \in Request, Request = {r}, IInv, LinkIsLive, [Next]_vars
    PROVE  /\ LinkIsLive'
           /\ ResetCommit(r) => resets[req[r].tok] = "live"
<1>0. req \in [Request -> Handler]
  BY DEF IInv, TypeOK
<1>3. ASSUME ~ (req'[r].pc = "reset") PROVE LinkIsLive'
  BY <1>3 DEF LinkIsLive, At
<1>4. ASSUME UNCHANGED <<req, resets>> PROVE LinkIsLive'
  BY <1>4 DEF LinkIsLive, At
<1>5. ASSUME Finish(r) PROVE LinkIsLive'
  BY <1>0, <1>3, <1>5 DEF Finish, Idle
<1>6. ASSUME NEW pc \in Pc \ {"reset"}, Goto(r, pc) PROVE LinkIsLive'
  <2>1. req'[r] = [req[r] EXCEPT !.pc = pc] /\ req[r] \in Handler
    BY <1>0, <1>6 DEF Goto
  <2>2. req'[r].pc = pc
    BY <2>1 DEF Handler
  <2>3. QED
    BY <1>3, <2>2
<1>7. ASSUME Login(r) \/ \E pw \in tickets : LoginTotp(r, pw) PROVE LinkIsLive'
  BY <1>0, <1>3, <1>7 DEF Login, LoginTotp, Idle
<1>8. ASSUME NEW s \in Session, RefreshRead(r, s) PROVE LinkIsLive'
  BY <1>0, <1>3, <1>8 DEF RefreshRead, Idle
<1>9. ASSUME \/ RefreshReuse(r) \/ RefreshLapsed(r) \/ PruneRevoke(r) \/ PruneFails(r)
              \/ LoginStages(r) \/ ChangeCommit(r) \/ ResetCommit(r)
       PROVE  LinkIsLive'
  BY <1>5, <1>9 DEF RefreshReuse, RefreshLapsed, PruneRevoke, PruneFails, LoginStages, ChangeCommit,
     ResetCommit
<1>C. ASSUME CarryOn(r) PROVE LinkIsLive'
  <2>1. req'[r] = [req[r] EXCEPT !.pc = "issue", !.swept = req[r].sid \in swept] /\ req[r] \in Handler
    BY <1>0, <1>C DEF CarryOn
  <2>2. req'[r].pc = "issue"
    BY <2>1 DEF Handler
  <2>3. QED
    BY <1>3, <2>2
<1>10. ASSUME RefreshUser(r) \/ RefreshRotate(r) \/ ChangeRead(r) PROVE LinkIsLive'
  BY <1>5, <1>6, <1>C, <1>10 DEF RefreshUser, RefreshRotate, ChangeRead, Pc
<1>11. ASSUME IssueSession(r) PROVE LinkIsLive'
  BY <1>0, <1>3, <1>11 DEF IssueSession, Idle
<1>12. ASSUME PruneCount(r) \/ PrunePick(r) PROVE LinkIsLive'
  <2>1. req[r] \in Handler /\ ~(req[r].pc = "reset")
    BY <1>0, <1>12 DEF PruneCount, PrunePick, At
  <2>2. CASE Finish(r)
    BY <1>5, <2>2
  <2>3. CASE ~Finish(r)
    <3> DEFINE picking == [req[r] EXCEPT !.pc = "pick",
                              !.overflow = Cardinality(ActiveSessions) - Cap]
               pruning == [req[r] EXCEPT !.pc = "prune", !.victims = Oldest(req[r].overflow)]
    <3>1. picking.pc = "pick" /\ pruning.pc = "prune"
      BY <2>1 DEF Handler
    <3>2. req' = [req EXCEPT ![r] = picking] \/ req' = [req EXCEPT ![r] = pruning]
      BY <1>0, <1>12, <2>3 DEF PruneCount, PrunePick
    <3> HIDE DEF picking, pruning
    <3>3. QED
      BY <1>0, <1>3, <3>1, <3>2
  <2>4. QED
    BY <2>2, <2>3
<1>13. ASSUME NEW s \in Session, Logout(r, s) PROVE LinkIsLive'
  BY <1>4, <1>13 DEF Logout
<1>14. ASSUME RevokeOthers(r) PROVE LinkIsLive'
  BY <1>4, <1>14 DEF RevokeOthers
<1>15. ASSUME NEW t \in ResetToken, ResetRead(r, t) PROVE LinkIsLive'
  <2>1. req'[r].tok = t /\ resets'[t] = "live"
    BY <1>0, <1>15 DEF ResetRead, Idle
  <2>2. QED
    BY <2>1 DEF LinkIsLive
<1>16. ASSUME NEW t \in ResetToken, ForgotPassword(t) PROVE LinkIsLive'
  BY <1>16 DEF ForgotPassword, LinkIsLive, At, IInv, TypeOK
<1>17. ASSUME Lapse \/ \E pw \in tickets : StagedExpires(pw) PROVE LinkIsLive'
  BY <1>4, <1>17 DEF Lapse, StagedExpires
<1>18. ASSUME UNCHANGED vars PROVE LinkIsLive'
  BY <1>4, <1>18 DEF vars
<1>19. LinkIsLive'
  BY <1>7, <1>8, <1>9, <1>10, <1>11, <1>12, <1>13, <1>14, <1>15, <1>16, <1>17, <1>18 DEF Next
<1>20. ResetCommit(r) => resets[req[r].tok] = "live"
  BY DEF ResetCommit, LinkIsLive
<1>21. QED
  BY <1>19, <1>20

\* The elements of a finite set of numbers are those below one of them, that one,
\* and those above it.
LEMMA BelowAndAbove ==
    ASSUME NEW S \in SUBSET Nat, IsFiniteSet(S), NEW s \in S, NEW n \in Nat, NEW c \in Nat,
           Cardinality(S) = n + c, Cardinality({o \in S : o < s}) < n
    PROVE  Cardinality({t \in S : t > s}) >= c
<1> DEFINE below == {o \in S : o < s}
           above == {t \in S : t > s}
<1>1. below \in SUBSET S /\ above \in SUBSET S
  OBVIOUS
<1>2. IsFiniteSet(below) /\ IsFiniteSet(above)
  BY <1>1, FS_Subset
<1>3. S = (below \cup above) \cup {s} /\ below \cap above = {} /\ s \notin below \cup above
  <2>1. \A x \in S : x \in Nat
    OBVIOUS
  <2>2. \A x \in S : x < s \/ x > s \/ x = s
    BY <2>1
  <2>3. \A x \in S : ~(x < s /\ x > s) /\ ~(s < s) /\ ~(s > s)
    BY <2>1
  <2>4. QED
    BY <2>2, <2>3
<1> HIDE DEF below, above
<1>4. IsFiniteSet(below \cup above)
  BY <1>2, FS_Union
<1>5. Cardinality(below \cup above) = Cardinality(below) + Cardinality(above) - Cardinality(below \cap above)
  BY <1>2, FS_Union
<1>6. Cardinality(below \cap above) = 0
  BY <1>3, FS_EmptySet
<1>7. Cardinality(S) = Cardinality(below \cup above) + 1
  BY <1>3, <1>4, FS_AddElement
<1>8. Cardinality(below) \in Nat /\ Cardinality(above) \in Nat
  BY <1>2, FS_CardinalityType
<1>9. Cardinality(below) < n
  BY DEF below
<1>10. Cardinality(above) >= c
  BY <1>5, <1>6, <1>7, <1>8, <1>9
<1>11. QED
  BY <1>10 DEF above

LEMMA SerialPrune ==
    ASSUME NEW r \in Request, Request = {r}, IInv, PruneIsCurrent, [Next]_vars
    PROVE  /\ PruneIsCurrent'
           /\ PruneRevoke(r) => \A s \in Session : sess'[s] # sess[s] =>
                  Cardinality({t \in ActiveSessions : t > s}) >= Cap
<1>0. TypeOK /\ req \in [Request -> Handler] /\ Cardinality(ActiveSessions) \in Nat
  BY ActiveFinite DEF IInv, TypeOK
<1>1. ASSUME req'[r].pc \notin {"pick", "prune"} PROVE PruneIsCurrent'
  BY <1>1 DEF PruneIsCurrent, At
<1>2. ASSUME UNCHANGED <<req, sess>> PROVE PruneIsCurrent'
  <2>1. ActiveSessions' = ActiveSessions
    BY <1>2 DEF ActiveSessions, Active
  <2>2. \A n \in Nat : Oldest(n)' = Oldest(n)
    BY <2>1 DEF Oldest
  <2>3. QED
    BY <1>2, <2>1, <2>2 DEF PruneIsCurrent, At
<1>3. ASSUME Finish(r) PROVE PruneIsCurrent'
  BY <1>0, <1>1, <1>3 DEF Finish, Idle
<1>4. ASSUME NEW pc \in Pc \ {"pick", "prune"}, Goto(r, pc) PROVE PruneIsCurrent'
  <2>1. req'[r] = [req[r] EXCEPT !.pc = pc] /\ req[r] \in Handler
    BY <1>0, <1>4 DEF Goto
  <2>2. req'[r].pc = pc
    BY <2>1 DEF Handler
  <2>3. QED
    BY <1>1, <2>2
<1>5. ASSUME UNCHANGED req, At(r, "idle") PROVE PruneIsCurrent'
  BY <1>1, <1>5 DEF At
<1>6. ASSUME \/ Login(r) \/ (\E pw \in tickets : LoginTotp(r, pw)) \/ IssueSession(r)
             \/ (\E s \in Session : RefreshRead(r, s)) \/ (\E t \in ResetToken : ResetRead(r, t))
      PROVE  PruneIsCurrent'
  <2>1. CASE Login(r) \/ \E pw \in tickets : LoginTotp(r, pw)
    BY <1>0, <1>1, <2>1 DEF Login, LoginTotp, Idle
  <2>2. CASE IssueSession(r)
    BY <1>0, <1>1, <2>2 DEF IssueSession, Idle
  <2>3. ASSUME NEW s \in Session, RefreshRead(r, s) PROVE PruneIsCurrent'
    BY <1>0, <1>1, <2>3 DEF RefreshRead, Idle
  <2>4. ASSUME NEW t \in ResetToken, ResetRead(r, t) PROVE PruneIsCurrent'
    BY <1>0, <1>1, <2>4 DEF ResetRead, Idle
  <2>5. QED
    BY <1>6, <2>1, <2>2, <2>3, <2>4
<1>7. ASSUME \/ RefreshReuse(r) \/ RefreshLapsed(r) \/ PruneRevoke(r) \/ PruneFails(r)
             \/ LoginStages(r) \/ ChangeCommit(r) \/ ResetCommit(r)
      PROVE  PruneIsCurrent'
  BY <1>3, <1>7 DEF RefreshReuse, RefreshLapsed, PruneRevoke, PruneFails, LoginStages, ChangeCommit,
     ResetCommit
<1>C. ASSUME CarryOn(r) PROVE PruneIsCurrent'
  <2>1. req'[r] = [req[r] EXCEPT !.pc = "issue", !.swept = req[r].sid \in swept] /\ req[r] \in Handler
    BY <1>0, <1>C DEF CarryOn
  <2>2. req'[r].pc = "issue"
    BY <2>1 DEF Handler
  <2>3. QED
    BY <1>1, <2>2
<1>8. ASSUME RefreshUser(r) \/ RefreshRotate(r) \/ ChangeRead(r) PROVE PruneIsCurrent'
  BY <1>3, <1>4, <1>C, <1>8 DEF RefreshUser, RefreshRotate, ChangeRead, Pc
<1>9. ASSUME RevokeOthers(r) \/ \E s \in Session : Logout(r, s) PROVE PruneIsCurrent'
  BY <1>5, <1>9 DEF RevokeOthers, Logout
<1>10. ASSUME PruneCount(r) PROVE PruneIsCurrent'
  <2> DEFINE n == Cardinality(ActiveSessions)
  <2>1. CASE n <= Cap
    BY <1>3, <1>10, <2>1 DEF PruneCount
  <2>2. CASE ~(n <= Cap)
    <3>1. req' = [req EXCEPT ![r].pc = "pick", ![r].overflow = n - Cap] /\ req[r] \in Handler
      BY <1>0, <1>10, <2>2 DEF PruneCount
    <3>2. ActiveSessions' = ActiveSessions
      BY <1>10 DEF PruneCount, ActiveSessions, Active
    <3> HIDE DEF n
    <3>3. req'[r].pc = "pick" /\ req'[r].overflow = n - Cap
      BY <1>0, <3>1 DEF Handler
    <3>4. n = req'[r].overflow + Cap
      BY <1>0, <3>3, SessionsAssumption DEF n
    <3>5. Cardinality(ActiveSessions') = req'[r].overflow + Cap
      BY <3>2, <3>4 DEF n
    <3>6. QED
      BY <3>3, <3>5 DEF PruneIsCurrent, At
  <2>3. QED
    BY <2>1, <2>2
<1>11. ASSUME PrunePick(r) PROVE PruneIsCurrent'
  <2>1. CASE ActiveSessions = {}
    BY <1>3, <1>11, <2>1 DEF PrunePick
  <2>2. CASE ActiveSessions # {}
    <3> DEFINE n == req[r].overflow
    <3>1. req[r] \in Handler /\ n \in Nat /\ Cardinality(ActiveSessions) = n + Cap
      BY <1>0, <1>11 DEF PrunePick, PruneIsCurrent, Handler
    <3>2. req'[r].pc = "prune" /\ req'[r].victims = Oldest(n)
      BY <1>0, <1>11, <2>2, <3>1 DEF PrunePick, Handler
    <3>3. ActiveSessions' = ActiveSessions
      BY <1>11 DEF PrunePick, ActiveSessions, Active
    <3>4. PICK m \in Nat : m = n
      BY <3>1
    <3>5. Oldest(m)' = Oldest(m)
      BY <3>3 DEF Oldest
    <3>6. QED
      BY <3>1, <3>2, <3>3, <3>4, <3>5 DEF PruneIsCurrent, At
  <2>3. QED
    BY <2>1, <2>2
<1>12. ASSUME \/ Lapse \/ (\E t \in ResetToken : ForgotPassword(t))
              \/ (\E pw \in tickets : StagedExpires(pw)) \/ UNCHANGED vars
       PROVE  PruneIsCurrent'
  BY <1>2, <1>12 DEF Lapse, ForgotPassword, StagedExpires, vars
<1>13. PruneIsCurrent'
  BY <1>6, <1>7, <1>8, <1>9, <1>10, <1>11, <1>12 DEF Next
<1>14. ASSUME PruneRevoke(r), NEW s \in Session, sess'[s] # sess[s]
       PROVE  Cardinality({t \in ActiveSessions : t > s}) >= Cap
  <2>1. PICK n \in Nat : Cardinality(ActiveSessions) = n + Cap /\ req[r].victims = Oldest(n)
    BY <1>14 DEF PruneRevoke, PruneIsCurrent
  <2>2. s \in Oldest(n)
    BY <1>14, <2>1 DEF PruneRevoke, Ended
  <2>3. s \in ActiveSessions /\ Cardinality({o \in ActiveSessions : o < s}) < n
    BY <2>2 DEF Oldest
  <2>4. ActiveSessions \in SUBSET Nat /\ IsFiniteSet(ActiveSessions)
    <3>1. ActiveSessions \ {} = ActiveSessions
      OBVIOUS
    <3>2. QED
      BY <1>0, <3>1, ActiveIsFinite
  <2>5. QED
    BY <2>1, <2>3, <2>4, BelowAndAbove, SessionsAssumption
<1>15. QED
  BY <1>13, <1>14

\* When handlers run one at a time, no reset link takes effect twice, a prune leaves
\* the newest Cap sessions alone, and no session outlives the password its login used
\* unless the account has a second factor: the sentences of auth-service.ts:867 and of
\* routes/auth.ts:232 fail only of handlers that overlap, that of auth-service.ts:779
\* of those and of a staged token.
THEOREM SerialHandlersKeepTheirWord ==
    ASSUME NEW slot, Request = {slot}
    PROVE  /\ SecondFactor = FALSE => (Spec => []ActiveSessionKnowsPassword)
           /\ Spec => ResetLinkSingleUse
           /\ Spec => PruneKeepsCap
<1> DEFINE Inv == IInv /\ LinkIsLive /\ PruneIsCurrent
           Keeps == \A r \in Request : PruneRevoke(r) =>
                       \A s \in Session : sess'[s] # sess[s] =>
                           Cardinality({t \in ActiveSessions : t > s}) >= Cap
<1>1. Init => Inv
  <2>1. Init => LinkIsLive /\ PruneIsCurrent
    BY DEF Init, LinkIsLive, PruneIsCurrent, At, Idle
  <2>2. QED
    BY <2>1, TypeInit, LineageInit DEF IInv
<1>2. IInv /\ [Next]_vars => IInv'
  BY TypeNext, LineageNext DEF IInv
<1>3. Inv /\ [Next]_vars => Inv'
  <2>1. IInv /\ LinkIsLive /\ [Next]_vars => LinkIsLive'
    BY SerialNext
  <2>2. IInv /\ PruneIsCurrent /\ [Next]_vars => PruneIsCurrent'
    BY SerialPrune
  <2>3. QED
    BY <1>2, <2>1, <2>2
<1>4. Inv => [\A r \in Request : ResetCommit(r) => resets[req[r].tok] = "live"]_vars
  BY DEF LinkIsLive, ResetCommit
<1>5. Inv /\ [Next]_vars => [Keeps]_vars
  <2>1. ASSUME IInv, PruneIsCurrent, [Next]_vars PROVE Keeps
    BY <2>1, SerialPrune
  <2>2. QED
    BY <2>1
<1>6. ASSUME SecondFactor = FALSE PROVE Spec => []ActiveSessionKnowsPassword
  <2>1. Init => IInv /\ PasswordInv
    BY <1>6, TypeInit, LineageInit, PasswordInit DEF IInv
  <2>2. IInv /\ PasswordInv /\ [Next]_vars => PasswordInv'
    BY PasswordNext
  <2>3. PasswordInv => ActiveSessionKnowsPassword
    BY DEF PasswordInv
  <2>4. QED
    BY <1>2, <2>1, <2>2, <2>3, PTL DEF Spec
<1>7. Spec => ResetLinkSingleUse
  BY <1>1, <1>3, <1>4, PTL DEF Spec, ResetLinkSingleUse
<1>8. Spec => PruneKeepsCap
  BY <1>1, <1>3, <1>5, PTL DEF Spec, PruneKeepsCap
<1>9. QED
  BY <1>6, <1>7, <1>8

=============================================================================

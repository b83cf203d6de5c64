--------------------------- MODULE MembershipProofs ---------------------------
(***************************************************************************)
(* Proofs about Membership, for any users, slots and use limit: types, the  *)
(* use limit, what a use pays for, and who can be banned and a member; and   *)
(* about WebStore, for any items and bounds: types, and that a list the tab  *)
(* shows, a roster among them, is the API's once nothing is under way.       *)
(***************************************************************************)
EXTENDS Membership, WebStore, FiniteSetTheorems, TLAPS

\* A ban that was committed, or is about to be, next to an admission of the user
\* has left its mark, and only those with a row are banned.
RacesExcused ==
    /\ \A s \in Slot : task[s].op \in {"admit", "accept"} /\ ~ task[s].present
          => (ban[task[s].user] = "active" => task[s].user \in excused)
    /\ \A s \in Slot : task[s].op = "ban" /\ ~ task[s].present
          => (task[s].user \in member => task[s].user \in excused)

\* Joins and bans aim at users with a row, a ban never at the owner, and a join
\* commits for someone whom it read to be no member.
Targets ==
    \A s \in Slot : /\ task[s].op \in {"prune", "join", "admit", "ban"} => task[s].user \in account
                    /\ task[s].op = "ban" => task[s].user # Owner
                    /\ task[s].op = "admit" => ~ task[s].present

IInv == TypeOK /\ Targets /\ InviteIsBounded /\ RacesExcused /\ BannedMemberIsExcused

-----------------------------------------------------------------------------
LEMMA HoldType ==
    ASSUME task \in [Slot -> Task], NEW s \in Slot, NEW op \in Op, NEW u \in User,
           NEW present \in BOOLEAN, NEW pruned \in BOOLEAN, NEW users \in SUBSET User,
           task' = [task EXCEPT ![s] = [op |-> op, user |-> u, present |-> present,
                                        pruned |-> pruned, users |-> users]]
    PROVE  task' \in [Slot -> Task]
<1>1. [op |-> op, user |-> u, present |-> present, pruned |-> pruned, users |-> users] \in Task
  BY DEF Task
<1>2. QED
  BY <1>1

LEMMA FinishType ==
    ASSUME task \in [Slot -> Task], NEW s \in Slot, Finish(s)
    PROVE  task' \in [Slot -> Task]
<1>1. Idle \in Task
  BY MembershipAssumption DEF Idle, Task, Op
<1>2. QED
  BY <1>1 DEF Finish

LEMMA TaskFields ==
    ASSUME TypeOK, NEW s \in Slot
    PROVE  /\ task[s].op \in Op
           /\ task[s].user \in User
           /\ task[s].present \in BOOLEAN
           /\ task[s].pruned \in BOOLEAN
           /\ task[s].users \in SUBSET User
BY DEF TypeOK, Task

LEMMA LiftedType ==
    ASSUME TypeOK, NEW users \in SUBSET User
    PROVE  /\ Lifted(users) \in [User -> {"none", "active", "expired"}]
           /\ \A u \in User : ban[u] = "none" => Lifted(users)[u] = "none"
           /\ \A u \in User : Lifted(users)[u] = "active" => ban[u] = "active"
BY DEF TypeOK, Lifted

LEMMA TypesInit == Init => TypeOK /\ Targets
<1> SUFFICES ASSUME Init PROVE TypeOK /\ Targets
  OBVIOUS
<1>1. task \in [Slot -> Task]
  BY MembershipAssumption DEF Init, Idle, Task, Op
<1>2. \A s \in Slot : task[s].op = "none"
  BY DEF Init, Idle
<1>3. TypeOK
  BY <1>1, MembershipAssumption DEF Init, TypeOK
<1>4. Targets
  BY <1>2 DEF Targets
<1>5. QED
  BY <1>3, <1>4

\* An admission keeps types, and gives the user a row in both tables.
LEMMA AdmitType ==
    ASSUME TypeOK, NEW u \in User, NEW pruned \in BOOLEAN, Admit(u, pruned),
           account' = account \/ account' = account \cup {u}, u \in account'
    PROVE  /\ Owner \in member' /\ ban'[Owner] = "none"
           /\ member' \subseteq account' /\ account' \subseteq User
           /\ ban' \in [User -> {"none", "active", "expired"}]
           /\ \A v \in User \ account' : ban'[v] = "none"
           /\ uses' \in Nat
           /\ excused' \subseteq User
<1>1. ban' \in [User -> {"none", "active", "expired"}] /\ \A v \in User : ban[v] = "none" => ban'[v] = "none"
  BY LiftedType DEF Admit, TypeOK
<1>2. QED
  BY <1>1, MembershipAssumption DEF Admit, Excuse, TypeOK

\* A step that only fills or frees a slot.
LEMMA SlotStepTypes ==
    ASSUME TypeOK, task' \in [Slot -> Task], lost' \in 0..MaxLost,
           UNCHANGED <<account, member, ban, open, uses, mirror, excused>>
    PROVE  TypeOK'
BY DEF TypeOK

LEMMA TypesNext == TypeOK /\ Targets /\ [Next]_vars => TypeOK'
<1> SUFFICES ASSUME TypeOK, Targets, [Next]_vars PROVE TypeOK'
  OBVIOUS
<1>t. task \in [Slot -> Task] /\ lost \in 0..MaxLost
  BY DEF TypeOK
<1>1. ASSUME NEW s \in Slot, NEW u \in User, Join(s, u) PROVE TypeOK'
  <2>1. [op |-> IF ban[u] = "expired" THEN "prune" ELSE "join", user |-> u, present |-> FALSE, pruned |-> FALSE, users |-> {}] \in Task
    BY MembershipAssumption DEF Task, Op, Expired
  <2>2. task' \in [Slot -> Task]
    BY <1>t, <1>1, <2>1 DEF Join, Hold
  <2>3. QED
    BY <1>t, <1>1, <2>2, SlotStepTypes DEF Join
<1>2. ASSUME NEW s \in Slot, NEW u \in User, Register(s, u) PROVE TypeOK'
  <2>1. [op |-> "register", user |-> u, present |-> FALSE, pruned |-> FALSE, users |-> {}] \in Task
    BY MembershipAssumption DEF Task, Op, Expired
  <2>2. task' \in [Slot -> Task]
    BY <1>t, <1>2, <2>1 DEF Register, Hold
  <2>3. QED
    BY <1>t, <1>2, <2>2, SlotStepTypes DEF Register
<1>3. ASSUME NEW s \in Slot, NEW u \in User, Accept(s, u) PROVE TypeOK'
  <2>1. [op |-> "accept", user |-> u, present |-> u \in member, pruned |-> ban[u] = "expired", users |-> {}] \in Task
    BY MembershipAssumption DEF Task, Op, Expired
  <2>2. task' \in [Slot -> Task]
    BY <1>t, <1>3, <2>1 DEF Accept, Hold
  <2>3. QED
    BY <1>t, <1>3, <2>2, SlotStepTypes DEF Accept
<1>4. ASSUME NEW s \in Slot, NEW u \in User, Ban(s, u) PROVE TypeOK'
  <2>1. [op |-> "ban", user |-> u, present |-> u \in member, pruned |-> FALSE, users |-> {}] \in Task
    BY MembershipAssumption DEF Task, Op, Expired
  <2>2. task' \in [Slot -> Task]
    BY <1>t, <1>4, <2>1 DEF Ban, Hold
  <2>3. QED
    BY <1>t, <1>4, <2>2, SlotStepTypes DEF Ban
<1>5. ASSUME NEW s \in Slot, ListBans(s) PROVE TypeOK'
  <2>1. [op |-> "list", user |-> Owner, present |-> FALSE, pruned |-> FALSE, users |-> Expired] \in Task
    BY MembershipAssumption DEF Task, Op, Expired
  <2>2. task' \in [Slot -> Task]
    BY <1>t, <1>5, <2>1 DEF ListBans, Hold
  <2>3. QED
    BY <1>t, <1>5, <2>2, SlotStepTypes DEF ListBans
<1>6. ASSUME NEW s \in Slot, JoinPrune(s) PROVE TypeOK'
  <2>1. [op |-> "join", user |-> task[s].user, present |-> FALSE, pruned |-> FALSE, users |-> {}] \in Task
    BY MembershipAssumption, TaskFields DEF Task, Op, Expired
  <2>2. task' \in [Slot -> Task]
    BY <1>t, <1>6, <2>1 DEF JoinPrune, Hold
  <2>3. QED
    BY <1>6, <2>2, TaskFields, LiftedType DEF JoinPrune, TypeOK
<1>7. ASSUME NEW s \in Slot, JoinCheck(s) PROVE TypeOK'
  <2>1. [op |-> "admit", user |-> task[s].user, present |-> FALSE,
         pruned |-> ban[task[s].user] = "expired", users |-> {}] \in Task
    BY TaskFields DEF Task, Op
  <2>2. task' \in [Slot -> Task]
    BY <1>t, <1>7, <2>1, FinishType DEF JoinCheck, Hold
  <2>3. QED
    BY <1>t, <1>7, <2>2, SlotStepTypes DEF JoinCheck
<1>8. ASSUME NEW s \in Slot, JoinCommit(s) PROVE TypeOK'
  <2>a. task[s].op = "admit"
    BY <1>8 DEF JoinCommit, Is
  <2>0. task[s].user \in account
    BY <2>a DEF Targets
  <2>1. task' \in [Slot -> Task] /\ task[s].user \in account
    BY <1>t, <1>8, <2>0, FinishType DEF JoinCommit
  <2>2. CASE Admit(task[s].user, task[s].pruned)
    BY <1>8, <2>1, <2>2, AdmitType, TaskFields DEF JoinCommit, TypeOK
  <2>3. CASE UNCHANGED <<member, ban, uses, excused>>
    BY <1>8, <2>1, <2>3 DEF JoinCommit, TypeOK
  <2>4. QED
    BY <1>8, <2>2, <2>3 DEF JoinCommit
<1>9. ASSUME NEW s \in Slot, RegisterCommit(s) PROVE TypeOK'
  <2>1. task' \in [Slot -> Task]
    BY <1>t, <1>9, FinishType DEF RegisterCommit
  <2>2. CASE account' = account \cup {task[s].user} /\ Admit(task[s].user, FALSE)
    BY <1>9, <2>1, <2>2, AdmitType, TaskFields DEF RegisterCommit, TypeOK
  <2>3. CASE UNCHANGED <<account, member, ban, uses, excused>>
    BY <1>9, <2>1, <2>3 DEF RegisterCommit, TypeOK
  <2>4. QED
    BY <1>9, <2>2, <2>3 DEF RegisterCommit
<1>10. ASSUME NEW s \in Slot, AcceptCommit(s) PROVE TypeOK'
  <2> DEFINE u == task[s].user
             commits == task[s].present \/ (Redeemable /\ u \notin member)
  <2>1. CASE commits /\ task[s].present
    <3>1. ban' \in [User -> {"none", "active", "expired"}] /\ \A v \in User : ban[v] = "none" => ban'[v] = "none"
      BY <1>10, <2>1, TaskFields, LiftedType DEF AcceptCommit, TypeOK
    <3>2. [op |-> "answer", user |-> u, present |-> FALSE, pruned |-> FALSE, users |-> member'] \in Task
      BY <1>10, <2>1, TaskFields DEF AcceptCommit, Task, Op, TypeOK
    <3>3. task' \in [Slot -> Task]
      BY <1>t, <1>10, <2>1, <3>2 DEF AcceptCommit, Hold
    <3>4. QED
      BY <1>10, <2>1, <3>1, <3>3, TaskFields, MembershipAssumption DEF AcceptCommit, TypeOK
  <2>2. CASE commits /\ ~ task[s].present
    <3>1. Admit(u, task[s].pruned) /\ account' = account \cup {u} /\ UNCHANGED <<open, mirror, lost>>
      BY <1>10, <2>2 DEF AcceptCommit
    <3>2. [op |-> "answer", user |-> u, present |-> FALSE, pruned |-> FALSE, users |-> member'] \in Task
      BY <3>1, TaskFields DEF Admit, Task, Op, TypeOK
    <3>3. task' \in [Slot -> Task]
      BY <1>t, <1>10, <2>2, <3>2 DEF AcceptCommit, Hold
    <3>4. QED
      BY <3>1, <3>3, TaskFields, AdmitType DEF TypeOK
  <2>3. CASE ~ commits
    <3>1. task' \in [Slot -> Task]
      BY <1>t, <1>10, <2>3, FinishType DEF AcceptCommit
    <3>2. QED
      BY <1>10, <2>3, <3>1 DEF AcceptCommit, TypeOK
  <2>4. QED
    BY <2>1, <2>2, <2>3
<1>11. ASSUME NEW s \in Slot, AnswerLost(s) PROVE TypeOK'
  <2>2. task' \in [Slot -> Task] /\ lost' \in 0..MaxLost
    BY <1>t, <1>11, FinishType, MembershipAssumption DEF AnswerLost
  <2>3. QED
    BY <1>11, <2>2, SlotStepTypes DEF AnswerLost
<1>12. ASSUME NEW s \in Slot, Mirror(s) PROVE TypeOK'
  <2>2. task' \in [Slot -> Task]
    BY <1>t, <1>12, FinishType DEF Mirror
  <2>3. QED
    BY <1>12, <2>2, TaskFields DEF Mirror, TypeOK
<1>13. ASSUME NEW s \in Slot, BanCommit(s) PROVE TypeOK'
  <2>a. task[s].op = "ban"
    BY <1>13 DEF BanCommit, Is
  <2>0. task[s].user \in account /\ task[s].user # Owner
    BY <2>a DEF Targets
  <2>1. task' \in [Slot -> Task] /\ task[s].user \in account /\ task[s].user # Owner
    BY <1>t, <1>13, <2>0, FinishType DEF BanCommit
  <2>2. QED
    BY <1>13, <2>1, TaskFields DEF BanCommit, Excuse, TypeOK
<1>14. ASSUME NEW s \in Slot, ListPrune(s) PROVE TypeOK'
  <2>2. task' \in [Slot -> Task]
    BY <1>t, <1>14, FinishType DEF ListPrune
  <2>3. QED
    BY <1>14, <2>2, TaskFields, LiftedType DEF ListPrune, TypeOK
<1>15. ASSUME NEW u \in User, AdminAdd(u) PROVE TypeOK'
  BY <1>15, MembershipAssumption DEF AdminAdd, Excuse, TypeOK
<1>16. ASSUME NEW u \in User, Kick(u) PROVE TypeOK'
  BY <1>16 DEF Kick, TypeOK
<1>17. ASSUME NEW u \in User, Unban(u) PROVE TypeOK'
  BY <1>17, LiftedType DEF Unban, TypeOK
<1>18. ASSUME NEW u \in User, BanExpires(u) PROVE TypeOK'
  BY <1>18 DEF BanExpires, TypeOK
<1>19. ASSUME InviteCloses PROVE TypeOK'
  BY <1>19 DEF InviteCloses, TypeOK
<1>20. ASSUME UNCHANGED vars PROVE TypeOK'
  BY <1>20 DEF vars, TypeOK
<1>21. QED
  BY <1>1, <1>2, <1>3, <1>4, <1>5, <1>6, <1>7, <1>8, <1>9, <1>10, <1>11, <1>12, <1>13, <1>14, <1>15, <1>16, <1>17, <1>18, <1>19, <1>20 DEF Next

-----------------------------------------------------------------------------
LEMMA TargetsNext == TypeOK /\ Targets /\ [Next]_vars => Targets'
<1> SUFFICES ASSUME TypeOK, Targets, [Next]_vars PROVE Targets'
  OBVIOUS
<1>a. ASSUME NEW s \in Slot, NEW h, task' = [task EXCEPT ![s] = h], account \subseteq account',
             h.op \in {"prune", "join", "admit", "ban"} => h.user \in account,
             h.op = "ban" => h.user # Owner,
             h.op = "admit" => ~ h.present
      PROVE  Targets'
  BY <1>a DEF TypeOK, Targets
<1>b. ASSUME NEW s \in Slot, Finish(s), account \subseteq account' PROVE Targets'
  BY <1>a, <1>b DEF Finish, Idle
<1>c. ASSUME task' = task, account \subseteq account' PROVE Targets'
  BY <1>c DEF Targets
<1>1. ASSUME NEW s \in Slot, NEW u \in User, Join(s, u) PROVE Targets'
  <2>1. PICK h : h = [op |-> IF ban[u] = "expired" THEN "prune" ELSE "join", user |-> u,
                      present |-> FALSE, pruned |-> FALSE, users |-> {}]
    OBVIOUS
  <2>2. h.user \in account /\ h.op \in {"prune", "join"}
    BY <1>1, <2>1 DEF Join
  <2>3. QED
    BY <1>1, <1>a, <2>1, <2>2 DEF Join, Hold
<1>2. ASSUME NEW s \in Slot, NEW u \in User, Accept(s, u) PROVE Targets'
  <2>1. PICK h : h = [op |-> "accept", user |-> u, present |-> u \in member,
                      pruned |-> ban[u] = "expired", users |-> {}]
    OBVIOUS
  <2>2. h.op = "accept" /\ task' = [task EXCEPT ![s] = h]
    BY <1>2, <2>1 DEF Accept, Hold
  <2>3. QED
    BY <1>2, <1>a, <2>2 DEF Accept
<1>3. ASSUME NEW s \in Slot, NEW u \in User, Register(s, u) PROVE Targets'
  BY <1>3, <1>a DEF Register, Hold
<1>4. ASSUME NEW s \in Slot, NEW u \in User, Ban(s, u) PROVE Targets'
  BY <1>4, <1>a DEF Ban, Hold
<1>5. ASSUME NEW s \in Slot, JoinPrune(s) PROVE Targets'
  <2>1. task[s].user \in account
    BY <1>5 DEF JoinPrune, Is, Targets
  <2>2. QED
    BY <1>5, <1>a, <1>b, <2>1 DEF JoinPrune, Hold
<1>6. ASSUME NEW s \in Slot, JoinCheck(s) PROVE Targets'
  <2>1. task[s].user \in account
    BY <1>6 DEF JoinCheck, Is, Targets
  <2>2. QED
    BY <1>6, <1>a, <1>b, <2>1 DEF JoinCheck, Hold
<1>7. ASSUME NEW s \in Slot, JoinCommit(s) PROVE Targets'
  BY <1>7, <1>b DEF JoinCommit
<1>8. ASSUME NEW s \in Slot, RegisterCommit(s) PROVE Targets'
  BY <1>8, <1>b DEF RegisterCommit
<1>9. ASSUME NEW s \in Slot, AcceptCommit(s) PROVE Targets'
  BY <1>9, <1>a, <1>b DEF AcceptCommit, Hold
<1>10. ASSUME NEW s \in Slot, AnswerLost(s) PROVE Targets'
  BY <1>10, <1>b DEF AnswerLost
<1>11. ASSUME NEW s \in Slot, Mirror(s) PROVE Targets'
  BY <1>11, <1>b DEF Mirror
<1>12. ASSUME NEW s \in Slot, BanCommit(s) PROVE Targets'
  BY <1>12, <1>b DEF BanCommit
<1>13. ASSUME NEW s \in Slot, ListBans(s) PROVE Targets'
  BY <1>13, <1>a DEF ListBans, Hold
<1>14. ASSUME NEW s \in Slot, ListPrune(s) PROVE Targets'
  BY <1>14, <1>b DEF ListPrune
<1>15. ASSUME NEW u \in User, AdminAdd(u) PROVE Targets'
  BY <1>15, <1>c DEF AdminAdd
<1>16. ASSUME NEW u \in User, Kick(u) PROVE Targets'
  BY <1>16, <1>c DEF Kick
<1>17. ASSUME NEW u \in User, Unban(u) PROVE Targets'
  BY <1>17, <1>c DEF Unban
<1>18. ASSUME NEW u \in User, BanExpires(u) PROVE Targets'
  BY <1>18, <1>c DEF BanExpires
<1>19. ASSUME InviteCloses PROVE Targets'
  BY <1>19, <1>c DEF InviteCloses
<1>20. ASSUME UNCHANGED vars PROVE Targets'
  BY <1>20, <1>c DEF vars
<1>21. QED
  BY <1>1, <1>2, <1>3, <1>4, <1>5, <1>6, <1>7, <1>8, <1>9, <1>10, <1>11, <1>12, <1>13, <1>14, <1>15, <1>16, <1>17, <1>18, <1>19, <1>20 DEF Next

LEMMA BoundedNext == TypeOK /\ InviteIsBounded /\ [Next]_vars => InviteIsBounded'
<1> SUFFICES ASSUME TypeOK, InviteIsBounded, [Next]_vars PROVE InviteIsBounded'
  OBVIOUS
<1>1. CASE uses' = uses
  BY <1>1 DEF InviteIsBounded
<1>2. ASSUME NEW s \in Slot, JoinCommit(s) \/ RegisterCommit(s) \/ AcceptCommit(s) PROVE InviteIsBounded'
  <2>1. uses' = uses \/ (uses < MaxUses /\ uses' = uses + 1)
    BY <1>2 DEF JoinCommit, RegisterCommit, AcceptCommit, Admit, Redeemable
  <2>2. QED
    BY <2>1, MembershipAssumption DEF TypeOK, InviteIsBounded
<1>3. QED
  BY <1>1, <1>2 DEF Next, vars, Join, Register, Accept, Ban, JoinPrune, JoinCheck, AnswerLost, Mirror,
                    BanCommit, ListBans, ListPrune, AdminAdd, Kick, Unban, BanExpires, InviteCloses

-----------------------------------------------------------------------------
\* What the steps leave of the two relations between bans, members and handlers.
LEMMA RacesNext ==
    TypeOK /\ Targets /\ RacesExcused /\ BannedMemberIsExcused /\ [Next]_vars
       => RacesExcused' /\ BannedMemberIsExcused'
<1> DEFINE Goal == RacesExcused /\ BannedMemberIsExcused
           Harmless(h) == \/ h.op \notin {"admit", "accept", "ban"}
                          \/ h.op \in {"admit", "accept"} /\ ban[h.user] # "active"
                          \/ h.op = "ban" /\ (h.present \/ h.user \notin member)
<1> SUFFICES ASSUME TypeOK, Targets, RacesExcused, BannedMemberIsExcused, [Next]_vars
             PROVE  Goal'
  OBVIOUS
<1>t. /\ task \in [Slot -> Task] /\ account \subseteq User /\ member \subseteq account
      /\ ban \in [User -> {"none", "active", "expired"}]
  BY DEF TypeOK
<1>u. \A s \in Slot : task[s].user \in User
  BY TaskFields
\* No new member, no new ban, and no handler that starts out wrong.
<1>a. ASSUME excused \subseteq excused', member' \subseteq member,
             \A u \in User : ban'[u] = "active" => ban[u] = "active",
             \A s \in Slot : task'[s] = task[s] \/ (task'[s].user \in User /\ Harmless(task'[s]))
      PROVE  Goal'
  <2>1. BannedMemberIsExcused'
    BY <1>t, <1>a DEF BannedMemberIsExcused
  <2>2. ASSUME NEW s \in Slot, task'[s].op \in {"admit", "accept"}, ~ task'[s].present,
               ban'[task'[s].user] = "active"
        PROVE  task'[s].user \in excused'
    BY <1>u, <1>a, <2>2 DEF RacesExcused
  <2>3. ASSUME NEW s \in Slot, task'[s].op = "ban", ~ task'[s].present, task'[s].user \in member'
        PROVE  task'[s].user \in excused'
    BY <1>u, <1>a, <2>3 DEF RacesExcused
  <2>4. QED
    BY <2>1, <2>2, <2>3 DEF RacesExcused
\* A slot takes a harmless task, the rest is as before.
<1>b. ASSUME NEW s \in Slot, NEW h, task' = [task EXCEPT ![s] = h], h.user \in User, Harmless(h),
             UNCHANGED <<member, excused>>, \A u \in User : ban'[u] = "active" => ban[u] = "active"
      PROVE  Goal'
  <2>1. \A t \in Slot : task'[t] = task[t] \/ (task'[t].user \in User /\ Harmless(task'[t]))
    BY <1>t, <1>b
  <2>2. QED
    BY <1>a, <1>b, <2>1
<1>c. ASSUME NEW s \in Slot, Finish(s), UNCHANGED <<member, excused>>,
             \A u \in User : ban'[u] = "active" => ban[u] = "active"
      PROVE  Goal'
  <2>1. Idle.op = "none" /\ Idle.user \in User
    BY MembershipAssumption DEF Idle
  <2>2. Harmless(Idle)
    BY <2>1
  <2>3. QED
    BY <1>b, <1>c, <2>1, <2>2 DEF Finish
\* An admission of a user whose ban, if any, is excused.
<1>d. ASSUME NEW u \in User, NEW pruned \in BOOLEAN, Admit(u, pruned), ban[u] = "active" => u \in excused,
             \A t \in Slot : task'[t] = task[t] \/ task'[t].op \in {"none", "answer"}
      PROVE  Goal'
  <2>1. \A v \in User : ban'[v] = "active" => ban[v] = "active"
    BY <1>d, <1>t DEF Admit, Lifted
  <2>2. excused \subseteq excused' /\ member' = member \cup {u}
    BY <1>d DEF Admit, Excuse
  <2>3. BannedMemberIsExcused'
    BY <1>t, <1>d, <2>1, <2>2 DEF BannedMemberIsExcused
  <2>4. ASSUME NEW s \in Slot, task'[s].op \in {"admit", "accept"}, ~ task'[s].present,
               ban'[task'[s].user] = "active"
        PROVE  task'[s].user \in excused'
    BY <1>u, <1>d, <2>1, <2>2, <2>4 DEF RacesExcused
  <2>5. ASSUME NEW s \in Slot, task'[s].op = "ban", ~ task'[s].present, task'[s].user \in member'
        PROVE  task'[s].user \in excused'
    <3>1. task'[s] = task[s]
      BY <1>d, <2>5
    <3>2. CASE task[s].user = u
      <4>1. Banning(u)
        BY <2>5, <3>1, <3>2 DEF Banning, Is
      <4>2. QED
        BY <1>d, <3>1, <3>2, <4>1 DEF Admit, Excuse
    <3>3. CASE task[s].user # u
      BY <2>2, <2>5, <3>1, <3>3 DEF RacesExcused
    <3>4. QED
      BY <3>2, <3>3
  <2>6. QED
    BY <2>3, <2>4, <2>5 DEF RacesExcused
<1>e. ASSUME NEW s \in Slot, Finish(s)
      PROVE  \A t \in Slot : task'[t] = task[t] \/ task'[t].op \in {"none", "answer"}
  BY <1>t, <1>e DEF Finish, Idle
<1>1. ASSUME NEW s \in Slot, NEW u \in User, Join(s, u) PROVE Goal'
  <2>1. PICK h : h = [op |-> IF ban[u] = "expired" THEN "prune" ELSE "join", user |-> u, present |-> FALSE,
                      pruned |-> FALSE, users |-> {}]
    OBVIOUS
  <2>2. task' = [task EXCEPT ![s] = h] /\ UNCHANGED <<member, excused>>
    BY <1>1, <2>1 DEF Join, Hold
  <2>3. h.user \in User /\ Harmless(h)
    BY <1>1, <1>t, <1>u, <2>1, MembershipAssumption DEF Join
  <2>4. QED
    BY <1>1, <1>b, <2>2, <2>3 DEF Join
<1>2. ASSUME NEW s \in Slot, NEW u \in User, Register(s, u) PROVE Goal'
  <2>1. PICK h : h = [op |-> "register", user |-> u, present |-> FALSE,
                      pruned |-> FALSE, users |-> {}]
    OBVIOUS
  <2>2. task' = [task EXCEPT ![s] = h] /\ UNCHANGED <<member, excused>>
    BY <1>2, <2>1 DEF Register, Hold
  <2>3. h.user \in User /\ Harmless(h)
    BY <1>2, <1>t, <1>u, <2>1, MembershipAssumption DEF Register
  <2>4. QED
    BY <1>2, <1>b, <2>2, <2>3 DEF Register
<1>3. ASSUME NEW s \in Slot, NEW u \in User, Accept(s, u) PROVE Goal'
  <2>1. PICK h : h = [op |-> "accept", user |-> u, present |-> u \in member,
                      pruned |-> ban[u] = "expired", users |-> {}]
    OBVIOUS
  <2>2. task' = [task EXCEPT ![s] = h] /\ UNCHANGED <<member, excused>>
    BY <1>3, <2>1 DEF Accept, Hold
  <2>3. h.user \in User /\ Harmless(h)
    BY <1>3, <1>t, <1>u, <2>1, MembershipAssumption DEF Accept
  <2>4. QED
    BY <1>3, <1>b, <2>2, <2>3 DEF Accept
<1>4. ASSUME NEW s \in Slot, NEW u \in User, Ban(s, u) PROVE Goal'
  <2>1. PICK h : h = [op |-> "ban", user |-> u, present |-> u \in member,
                      pruned |-> FALSE, users |-> {}]
    OBVIOUS
  <2>2. task' = [task EXCEPT ![s] = h] /\ UNCHANGED <<member, excused>>
    BY <1>4, <2>1 DEF Ban, Hold
  <2>3. h.user \in User /\ Harmless(h)
    BY <1>4, <1>t, <1>u, <2>1, MembershipAssumption DEF Ban
  <2>4. QED
    BY <1>4, <1>b, <2>2, <2>3 DEF Ban
<1>5. ASSUME NEW s \in Slot, JoinPrune(s) PROVE Goal'
  <2>1. PICK h : h = [op |-> "join", user |-> task[s].user, present |-> FALSE,
                      pruned |-> FALSE, users |-> {}]
    OBVIOUS
  <2>2. task' = [task EXCEPT ![s] = h] /\ UNCHANGED <<member, excused>>
    BY <1>5, <2>1 DEF JoinPrune, Hold
  <2>3. h.user \in User /\ Harmless(h)
    BY <1>5, <1>t, <1>u, <2>1, MembershipAssumption DEF JoinPrune
  <2>4. QED
    BY <1>5, <1>b, <2>2, <2>3 DEF JoinPrune, Lifted
<1>6. ASSUME NEW s \in Slot, ListBans(s) PROVE Goal'
  <2>1. PICK h : h = [op |-> "list", user |-> Owner, present |-> FALSE,
                      pruned |-> FALSE, users |-> Expired]
    OBVIOUS
  <2>2. task' = [task EXCEPT ![s] = h] /\ UNCHANGED <<member, excused>>
    BY <1>6, <2>1 DEF ListBans, Hold
  <2>3. h.user \in User /\ Harmless(h)
    BY <1>6, <1>t, <1>u, <2>1, MembershipAssumption DEF ListBans
  <2>4. QED
    BY <1>6, <1>b, <2>2, <2>3 DEF ListBans
<1>7. ASSUME NEW s \in Slot, JoinCheck(s) PROVE Goal'
  <2>1. CASE ban[task[s].user] = "active"
    BY <1>7, <1>c, <2>1 DEF JoinCheck
  <2>2. CASE ban[task[s].user] # "active"
    <3>1. PICK h : h = [op |-> "admit", user |-> task[s].user, present |-> FALSE,
                        pruned |-> ban[task[s].user] = "expired", users |-> {}]
      OBVIOUS
    <3>2. task' = [task EXCEPT ![s] = h] /\ UNCHANGED <<member, ban, excused>>
      BY <1>7, <2>2, <3>1 DEF JoinCheck, Hold
    <3>3. h.user \in User /\ Harmless(h)
      BY <1>u, <2>2, <3>1
    <3>4. QED
      BY <1>b, <3>2, <3>3
  <2>3. QED
    BY <2>1, <2>2
<1>8. ASSUME NEW s \in Slot, JoinCommit(s) PROVE Goal'
  <2>1. Finish(s)
    BY <1>8 DEF JoinCommit
  <2>2. CASE Admit(task[s].user, task[s].pruned)
    <3>1. task[s].op = "admit"
      BY <1>8 DEF JoinCommit, Is
    <3>2. ban[task[s].user] = "active" => task[s].user \in excused
      BY <3>1 DEF RacesExcused, Targets
    <3>3. QED
      BY <1>d, <1>e, <1>u, <2>1, <2>2, <3>2, TaskFields
  <2>3. CASE UNCHANGED <<member, ban, uses, excused>>
    BY <1>c, <2>1, <2>3
  <2>4. QED
    BY <1>8, <2>2, <2>3 DEF JoinCommit
<1>9. ASSUME NEW s \in Slot, RegisterCommit(s) PROVE Goal'
  <2>1. Finish(s)
    BY <1>9 DEF RegisterCommit
  <2>2. CASE task[s].user \notin account /\ Admit(task[s].user, FALSE)
    <3>1. ban[task[s].user] = "none"
      BY <1>u, <2>2 DEF TypeOK
    <3>2. QED
      BY <1>d, <1>e, <1>u, <2>1, <2>2, <3>1
  <2>3. CASE UNCHANGED <<member, ban, uses, excused>>
    BY <1>c, <2>1, <2>3
  <2>4. QED
    BY <1>9, <2>2, <2>3 DEF RegisterCommit
<1>10. ASSUME NEW s \in Slot, AcceptCommit(s) PROVE Goal'
  <2> DEFINE u == task[s].user
             commits == task[s].present \/ (Redeemable /\ u \notin member)
  <2>1. PICK h : h = [op |-> "answer", user |-> u, present |-> FALSE, pruned |-> FALSE, users |-> member']
    OBVIOUS
  <2>2. CASE commits /\ task[s].present
    <3>1. task' = [task EXCEPT ![s] = h] /\ UNCHANGED <<member, excused>>
      BY <1>10, <2>1, <2>2 DEF AcceptCommit, Hold
    <3>2. \A v \in User : ban'[v] = "active" => ban[v] = "active"
      BY <1>10, <1>t, <2>2 DEF AcceptCommit, Lifted
    <3>3. h.user \in User /\ Harmless(h)
      BY <1>u, <2>1
    <3>4. QED
      BY <1>b, <3>1, <3>2, <3>3
  <2>3. CASE commits /\ ~ task[s].present
    <3>1. Admit(u, task[s].pruned) /\ task' = [task EXCEPT ![s] = h]
      BY <1>10, <2>1, <2>3 DEF AcceptCommit, Hold
    <3>2. task[s].op = "accept"
      BY <1>10 DEF AcceptCommit, Is
    <3>3. ban[u] = "active" => u \in excused
      BY <2>3, <3>2 DEF RacesExcused
    <3>4. \A t \in Slot : task'[t] = task[t] \/ task'[t].op \in {"none", "answer"}
      BY <1>t, <2>1, <3>1
    <3>5. QED
      BY <1>d, <1>u, <3>1, <3>3, <3>4, TaskFields
  <2>4. CASE ~ commits
    BY <1>10, <1>c, <2>4 DEF AcceptCommit
  <2>5. QED
    BY <2>2, <2>3, <2>4
<1>11. ASSUME NEW s \in Slot, BanCommit(s) PROVE Goal'
  <2> DEFINE u == task[s].user
  <2>1. Finish(s)
    BY <1>11 DEF BanCommit
  <2>2. CASE task[s].present /\ u \notin member
    BY <1>11, <1>c, <2>1, <2>2 DEF BanCommit
  <2>3. CASE ~ (task[s].present /\ u \notin member)
    <3>1. /\ ban' = [ban EXCEPT ![u] = "active"]
          /\ member' = IF task[s].present THEN member \ {u} ELSE member
          /\ excused' = excused \cup (IF Admitting(u) THEN {u} ELSE {})
      BY <1>11, <2>3 DEF BanCommit, Excuse
    <3>2. \A t \in Slot : task'[t] = task[t] \/ task'[t].op = "none"
      BY <1>t, <2>1 DEF Finish, Idle
    <3>3. BannedMemberIsExcused'
      <4>1. task[s].op = "ban"
        BY <1>11 DEF BanCommit, Is
      <4>2. u \in member' => u \in excused
        BY <3>1, <4>1 DEF RacesExcused
      <4>3. QED
        BY <1>t, <1>u, <3>1, <4>2 DEF BannedMemberIsExcused
    <3>4. ASSUME NEW t \in Slot, task'[t].op \in {"admit", "accept"}, ~ task'[t].present,
                 ban'[task'[t].user] = "active"
          PROVE  task'[t].user \in excused'
      <4>1. task'[t] = task[t]
        BY <3>2, <3>4
      <4>2. CASE task[t].user = u
        BY <3>1, <3>4, <4>1, <4>2 DEF Admitting
      <4>3. CASE task[t].user # u
        BY <1>t, <1>u, <3>1, <3>4, <4>1, <4>3 DEF RacesExcused
      <4>4. QED
        BY <4>2, <4>3
    <3>5. ASSUME NEW t \in Slot, task'[t].op = "ban", ~ task'[t].present, task'[t].user \in member'
          PROVE  task'[t].user \in excused'
      BY <3>1, <3>2, <3>5 DEF RacesExcused
    <3>6. QED
      BY <3>3, <3>4, <3>5 DEF RacesExcused
  <2>4. QED
    BY <2>2, <2>3
<1>12. ASSUME NEW s \in Slot, AnswerLost(s) PROVE Goal'
  BY <1>12, <1>c DEF AnswerLost
<1>13. ASSUME NEW s \in Slot, Mirror(s) PROVE Goal'
  BY <1>13, <1>c DEF Mirror
<1>14. ASSUME NEW s \in Slot, ListPrune(s) PROVE Goal'
  BY <1>14, <1>c, <1>t DEF ListPrune, Lifted
<1>15. ASSUME NEW u \in User, AdminAdd(u) PROVE Goal'
  BY <1>15, <1>t, <1>u DEF AdminAdd, Excuse, RacesExcused, BannedMemberIsExcused
<1>16. ASSUME NEW u \in User, Kick(u) PROVE Goal'
  BY <1>16, <1>a, <1>t DEF Kick
<1>17. ASSUME NEW u \in User, Unban(u) PROVE Goal'
  BY <1>17, <1>a, <1>t DEF Unban, Lifted
<1>18. ASSUME NEW u \in User, BanExpires(u) PROVE Goal'
  BY <1>18, <1>a, <1>t DEF BanExpires
<1>19. ASSUME InviteCloses PROVE Goal'
  BY <1>19, <1>a DEF InviteCloses
<1>20. ASSUME UNCHANGED vars PROVE Goal'
  BY <1>20, <1>a DEF vars
<1>21. QED
  BY <1>1, <1>2, <1>3, <1>4, <1>5, <1>6, <1>7, <1>8, <1>9, <1>10, <1>11, <1>12, <1>13, <1>14, <1>15, <1>16, <1>17, <1>18, <1>19, <1>20 DEF Next

-----------------------------------------------------------------------------
LEMMA IInvInit == Init => IInv
<1> SUFFICES ASSUME Init PROVE IInv
  OBVIOUS
<1>1. TypeOK /\ Targets
  BY TypesInit
<1>2. \A s \in Slot : task[s].op = "none"
  BY DEF Init, Idle
<1>3. RacesExcused
  BY <1>2 DEF RacesExcused
<1>4. InviteIsBounded /\ BannedMemberIsExcused
  BY MembershipAssumption DEF Init, InviteIsBounded, BannedMemberIsExcused
<1>5. QED
  BY <1>1, <1>3, <1>4 DEF IInv

LEMMA IInvNext == IInv /\ [Next]_vars => IInv'
BY TypesNext, TargetsNext, BoundedNext, RacesNext DEF IInv

LEMMA Inductive == Spec => []IInv
BY IInvInit, IInvNext, PTL DEF Spec

\* Rows, bans and handlers keep their types, the owner stays in and is never
\* banned, and only users with a row are in or banned.
THEOREM TypeCorrect == Spec => []TypeOK
<1>1. IInv => TypeOK
  BY DEF IInv
<1>2. QED
  BY <1>1, Inductive, PTL

\* For any users and any number of handlers in flight, the invite's uses never
\* pass maxUses: the conditional update in each transaction is enough.
THEOREM InviteBounded == Spec => []InviteIsBounded
<1>1. IInv => InviteIsBounded
  BY DEF IInv
<1>2. QED
  BY <1>1, Inductive, PTL

\* Whoever is banned and a member got there through a ban that overlapped the
\* admission, or through an admin: the check in the transaction leaves no other way.
THEOREM BansHold == Spec => []BannedMemberIsExcused
<1>1. IInv => BannedMemberIsExcused
  BY DEF IInv
<1>2. QED
  BY <1>1, Inductive, PTL

LEMMA AdmitUses ==
    ASSUME TypeOK, NEW u \in User \ member, NEW pruned, Admit(u, pruned)
    PROVE  uses' = uses + 1 /\ uses' # uses /\ member' \ member = {u}
BY DEF Admit, TypeOK

\* A use is taken exactly when the invite lets someone in who was not.
THEOREM UsesAdmit == Spec => UsePerAdmission
<1> DEFINE Paid == /\ uses' # uses => uses' = uses + 1 /\ \E u \in User : member' \ member = {u}
                   /\ uses' = uses => member' \subseteq member \/ \E u \in User : AdminAdd(u)
<1>1. TypeOK /\ [Next]_vars => [Paid]_vars
  <2> SUFFICES ASSUME TypeOK, [Next]_vars PROVE Paid
    OBVIOUS
  <2>1. CASE uses' = uses /\ member' \subseteq member
    BY <2>1
  <2>2. ASSUME NEW u \in User, AdminAdd(u) PROVE Paid
    BY <2>2 DEF AdminAdd
  <2>3. ASSUME NEW u \in User \ member, NEW pruned, Admit(u, pruned) PROVE Paid
    BY <2>3, AdmitUses
  <2>4. ASSUME NEW s \in Slot, JoinCommit(s) PROVE Paid
    BY <2>1, <2>3, <2>4, TaskFields DEF JoinCommit
  <2>5. ASSUME NEW s \in Slot, RegisterCommit(s) PROVE Paid
    <3>1. member \subseteq account
      BY DEF TypeOK
    <3>2. QED
      BY <2>1, <2>3, <2>5, <3>1, TaskFields DEF RegisterCommit
  <2>6. ASSUME NEW s \in Slot, AcceptCommit(s) PROVE Paid
    BY <2>1, <2>3, <2>6, TaskFields DEF AcceptCommit
  <2>7. ASSUME NEW s \in Slot, BanCommit(s) PROVE Paid
    BY <2>1, <2>7 DEF BanCommit
  <2>8. QED
    BY <2>1, <2>2, <2>4, <2>5, <2>6, <2>7 DEF Next, vars, Join, Register, Accept, Ban, JoinPrune, JoinCheck,
       AnswerLost, Mirror, ListBans, ListPrune, Kick, Unban, BanExpires, InviteCloses
<1>2. QED
  BY <1>1, TypeCorrect, PTL DEF Spec, UsePerAdmission

-----------------------------------------------------------------------------
(* One handler at a time: with nothing to overlap, only an admin lets a      *)
(* banned user in, and the cleanup of expired bans finds what it read.       *)

OnlyGuestsExcused == excused \subseteq Remote

\* What a cleanup is about to delete is still the ban that it read, or none.
PrunesNoBan ==
    \A s \in Slot :
        /\ Is(s, "prune") => ban[task[s].user] # "active"
        /\ Is(s, "list") => \A u \in task[s].users : ban[u] # "active"

LEMMA SerialExcuse ==
    ASSUME NEW slot, Slot = {slot}, OnlyGuestsExcused, [Next]_vars
    PROVE  OnlyGuestsExcused'
<1>1. CASE UNCHANGED excused
  BY <1>1 DEF OnlyGuestsExcused
<1>2. ASSUME NEW u \in User, AdminAdd(u) PROVE OnlyGuestsExcused'
  BY <1>2 DEF AdminAdd, Excuse, OnlyGuestsExcused
<1>3. ASSUME NEW u, NEW pruned, Admit(u, pruned), ~ Is(slot, "ban") PROVE UNCHANGED excused
  BY <1>3 DEF Admit, Banning, Excuse
<1>4. ASSUME JoinCommit(slot) PROVE UNCHANGED excused
  BY <1>3, <1>4 DEF JoinCommit, Is
<1>5. ASSUME RegisterCommit(slot) PROVE UNCHANGED excused
  BY <1>3, <1>5 DEF RegisterCommit, Is
<1>6. ASSUME AcceptCommit(slot) PROVE UNCHANGED excused
  BY <1>3, <1>6 DEF AcceptCommit, Is
<1>7. ASSUME BanCommit(slot) PROVE UNCHANGED excused
  <2>1. ~ Admitting(task[slot].user)
    BY <1>7 DEF BanCommit, Admitting, Is
  <2>2. QED
    BY <1>7, <2>1 DEF BanCommit, Excuse
<1>8. QED
  BY <1>1, <1>2, <1>4, <1>5, <1>6, <1>7 DEF Next, vars, Join, Register, Accept, Ban, JoinPrune, JoinCheck,
     AnswerLost, Mirror, ListBans, ListPrune, Kick, Unban, BanExpires, InviteCloses

\* Only the commit of a ban makes one active, and it needs the slot.
LEMMA SerialPrunes ==
    ASSUME NEW slot, Slot = {slot}, TypeOK, PrunesNoBan, [Next]_vars
    PROVE  PrunesNoBan'
<1>1. task \in [Slot -> Task] /\ ban \in [User -> {"none", "active", "expired"}]
  BY DEF TypeOK
<1>k. ASSUME NEW op \in Op, NEW u \in User, NEW present, NEW pruned, NEW users,
             Hold(slot, op, u, present, pruned, users)
      PROVE  task'[slot].op = op /\ task'[slot].user = u /\ task'[slot].users = users
  BY <1>1, <1>k DEF Hold
<1>f. Finish(slot) => task'[slot].op = "none"
  BY <1>1 DEF Finish, Idle
<1>h. ASSUME task'[slot].op \notin {"prune", "list"} PROVE PrunesNoBan'
  BY <1>h DEF PrunesNoBan, Is
<1>2. ASSUME UNCHANGED task, \A u \in User : ban'[u] = "active" => ban[u] = "active" PROVE PrunesNoBan'
  BY <1>1, <1>2 DEF PrunesNoBan, Is, Task
<1>3. ASSUME NEW u \in User, Join(slot, u) PROVE PrunesNoBan'
  <2>1. UNCHANGED ban /\ ban[u] # "active"
    BY <1>3 DEF Join
  <2>2. task'[slot].op \in {"prune", "join"} /\ task'[slot].user = u
    <3>1. Hold(slot, IF ban[u] = "expired" THEN "prune" ELSE "join", u, FALSE, FALSE, {})
      BY <1>3 DEF Join
    <3>2. QED
      BY <1>1, <3>1 DEF Hold
  <2>3. QED
    BY <2>1, <2>2 DEF PrunesNoBan, Is
<1>4. ASSUME ListBans(slot) PROVE PrunesNoBan'
  <2>1. task'[slot].op = "list" /\ task'[slot].users = Expired /\ UNCHANGED ban
    <3>1. Owner \in User
      BY MembershipAssumption
    <3>2. Hold(slot, "list", Owner, FALSE, FALSE, Expired) /\ UNCHANGED ban
      BY <1>4 DEF ListBans
    <3>3. QED
      BY <1>1, <3>1, <3>2 DEF Hold
  <2>2. QED
    BY <2>1 DEF PrunesNoBan, Is, Expired
<1>5. ASSUME NEW u \in User, Register(slot, u) \/ Accept(slot, u) \/ Ban(slot, u) PROVE PrunesNoBan'
  BY <1>5, <1>h, <1>k DEF Register, Accept, Ban, Op
<1>6. task[slot].user \in User
  BY <1>1 DEF Task
<1>7. ASSUME JoinPrune(slot) PROVE PrunesNoBan'
  BY <1>6, <1>7, <1>h, <1>k DEF JoinPrune, Op
<1>8. ASSUME JoinCheck(slot) PROVE PrunesNoBan'
  BY <1>6, <1>8, <1>h, <1>k, <1>f DEF JoinCheck, Op
<1>9. ASSUME AcceptCommit(slot) PROVE PrunesNoBan'
  BY <1>6, <1>9, <1>h, <1>k, <1>f DEF AcceptCommit, Op
<1>10. ASSUME JoinCommit(slot) \/ RegisterCommit(slot) \/ AnswerLost(slot) \/ Mirror(slot)
              \/ BanCommit(slot) \/ ListPrune(slot)
       PROVE  PrunesNoBan'
  BY <1>10, <1>h, <1>f DEF JoinCommit, RegisterCommit, AnswerLost, Mirror, BanCommit, ListPrune
<1>11. ASSUME NEW u \in User, AdminAdd(u) \/ Kick(u) \/ Unban(u) \/ BanExpires(u) PROVE PrunesNoBan'
  BY <1>1, <1>2, <1>11 DEF AdminAdd, Kick, Unban, BanExpires, Lifted
<1>12. CASE InviteCloses \/ UNCHANGED vars
  BY <1>2, <1>12 DEF InviteCloses, vars
<1>13. QED
  BY <1>3, <1>4, <1>5, <1>7, <1>8, <1>9, <1>10, <1>11, <1>12 DEF Next

LEMMA SerialCleanup ==
    ASSUME TypeOK, PrunesNoBan, NEW s \in Slot, NEW u \in User, JoinPrune(s) \/ ListPrune(s), ban[u] = "active"
    PROVE  ban'[u] = "active"
<1>1. CASE JoinPrune(s)
  BY <1>1 DEF JoinPrune, Lifted, PrunesNoBan
<1>2. CASE ListPrune(s)
  BY <1>2 DEF ListPrune, Lifted, PrunesNoBan
<1>3. QED
  BY <1>1, <1>2

\* When one handler runs at a time nobody who is banned is a member unless an
\* admin added them, and the cleanup spares every ban that holds: both sentences
\* of the repository are false of overlapping handlers alone.
THEOREM SerialHandlersKeepBans ==
    ASSUME NEW slot, Slot = {slot}
    PROVE  Spec => []BannedIsNotMember /\ CleanupSparesBans
<1> DEFINE SerialInv == IInv /\ OnlyGuestsExcused /\ PrunesNoBan
           Spared == \A s \in Slot, u \in User : (JoinPrune(s) \/ ListPrune(s)) /\ ban[u] = "active" => ban'[u] = "active"
<1>1. Init => SerialInv
  BY IInvInit DEF Init, Idle, Is, OnlyGuestsExcused, PrunesNoBan
<1>2. SerialInv /\ [Next]_vars => SerialInv'
  <2>1. IInv => TypeOK
    BY DEF IInv
  <2>2. QED
    BY <2>1, IInvNext, SerialExcuse, SerialPrunes
<1>3. SerialInv => BannedIsNotMember
  BY DEF IInv, BannedMemberIsExcused, OnlyGuestsExcused, BannedIsNotMember
<1>4. SerialInv /\ [Next]_vars => [Spared]_vars
  BY SerialCleanup DEF IInv
<1>5. Spec => []BannedIsNotMember
  BY <1>1, <1>2, <1>3, PTL DEF Spec
<1>6. Spec => CleanupSparesBans
  BY <1>1, <1>2, <1>4, PTL DEF Spec, CleanupSparesBans
<1>7. QED
  BY <1>5, <1>6

-----------------------------------------------------------------------------
(* -- WebStore -------------------------------------------------------------- *)
(*                                                                          *)
(* Whatever crosses on the way, each item that lost no race is shown as the *)
(* API has it, or has a newer event on its way: so it is with an answer at  *)
(* hand and with the loaded list, and at rest nothing is on its way.        *)

\* Events that are on their way to the tab.
Pending == late \cup {stream[i] : i \in 1..Len(stream)}

\* What an answer says of the row.
Readable(x) == IF rows[x] > 0 THEN rows[x] ELSE Absent

\* Changes are numbered as they are committed: nothing is ahead of the count.
NumbersAreSpent ==
    /\ changes \in 0..MaxChanges
    /\ \A x \in Item : rows[x] <= changes /\ seen[x] <= changes
    /\ \A e \in Pending : e.number <= changes
    /\ \A g \in gets : g.upto <= changes

\* The newest event of an item, if it is still to be dispatched, agrees with the row.
NewestAgrees ==
    \A w \in Pending :
        /\ \A v \in Pending : v.item = w.item => v.number <= w.number
        /\ seen[w.item] <= w.number
        => IF w.kind = "put" THEN rows[w.item] = w.number ELSE rows[w.item] <= 0

\* At most one request in flight may still be applied, and none for a roster is
\* ever cancelled.
OneLiveGet ==
    /\ \A g, h \in gets : ~g.cancelled /\ ~h.cancelled => g = h
    /\ view = "members" => ~shown /\ \A g \in gets : ~g.cancelled
    /\ view = "messages" => chained = 0 /\ (~shown => \A g \in gets : g.cancelled)

\* An item has changed since the change numbered n, and that is still to be dispatched.
ChangedSince(x, n) == \E w \in Pending : w.item = x /\ w.number > n

\* What a live answer says of an item that no newer dispatch was about is what the
\* API has, or will be put right by a dispatch.
AnswersAreCurrent ==
    \A g \in gets : g.phase = "answered" /\ ~g.cancelled =>
        \A x \in Item \ overtaken :
            /\ seen[x] <= g.upto
            /\ g.list[x] = Readable(x) \/ ChangedSince(x, g.upto)

\* So it is with the list once it is loaded.
ListIsCurrent ==
    load = "loaded" =>
        /\ cached
        /\ \A x \in Item \ stale : list[x] = Readable(x) \/ ChangedSince(x, seen[x])

StoreInv ==
    /\ StoreTypeOK
    /\ view \in {"members", "messages"}
    /\ IsFiniteSet(gets)
    /\ NumbersAreSpent
    /\ NewestAgrees
    /\ OneLiveGet
    /\ AnswersAreCurrent
    /\ ListIsCurrent

-----------------------------------------------------------------------------
(* Lemmas on WebStore.                                                       *)

\* A new request gets an id of its own, so there is one to choose.
LEMMA AskedResult ==
    ASSUME IsFiniteSet(gets)
    PROVE  /\ Asked \in Get
           /\ Asked.phase = "asked" /\ ~Asked.cancelled /\ Asked.upto = 0
<1> DEFINE n == Cardinality(gets)
           fresh(i) == \A g \in gets : g.id # i
<1>1. n \in Nat
  BY FS_CardinalityType
<1>2. \E i \in 1..(n + 1) : fresh(i)
  <2> SUFFICES ASSUME \A i \in 1..(n + 1) : ~fresh(i) PROVE FALSE
    OBVIOUS
  <2> DEFINE f == [i \in 1..(n + 1) |-> CHOOSE g \in gets : g.id = i]
  <2>1. \A i \in 1..(n + 1) : f[i] \in gets /\ f[i].id = i
    OBVIOUS
  <2>2. f \in [1..(n + 1) -> gets]
    BY <2>1
  <2>3. IsFiniteSet(1..(n + 1)) /\ Cardinality(1..(n + 1)) = n + 1
    BY <1>1, FS_Interval
  <2> HIDE DEF f
  <2>4. \E i, j \in 1..(n + 1) : i # j /\ f[i] = f[j]
    BY <1>1, <2>2, <2>3, FS_PigeonHole
  <2>5. QED
    BY <2>1, <2>4
<1>3. (CHOOSE i \in 1..(n + 1) : fresh(i)) \in Nat
  <2>1. (CHOOSE i \in 1..(n + 1) : fresh(i)) \in 1..(n + 1)
    BY <1>2
  <2>2. QED
    BY <1>1, <2>1
<1>4. Nothing \in [Item -> Row] /\ 0 \in 0..MaxChanges
  BY WebStoreAssumption DEF Nothing, Absent, Row
<1>5. QED
  BY <1>3, <1>4 DEF Asked, Get

\* Pending events are events.
LEMMA PendingType == ASSUME StoreTypeOK PROVE Pending \subseteq Event
  BY DEF StoreTypeOK, Pending

\* A dispatch takes one event, and others that are like it perhaps.
LEMMA HeadIsPending ==
    ASSUME StoreTypeOK, stream # <<>>, stream' = Tail(stream), late' = late
    PROVE  /\ Head(stream) \in Pending /\ Head(stream) \in Event
           /\ Pending' \subseteq Pending
           /\ \A w \in Pending : w = Head(stream) \/ w \in Pending'
           /\ stream' \in Seq(Event)
<1>1. stream \in Seq(Event) /\ Len(stream) \in Nat /\ Len(stream) # 0
  BY DEF StoreTypeOK
<1>2. /\ Head(stream) = stream[1] /\ 1 \in 1..Len(stream)
      /\ Tail(stream) \in Seq(Event) /\ Len(Tail(stream)) = Len(stream) - 1
      /\ \A i \in 1..(Len(stream) - 1) : Tail(stream)[i] = stream[i + 1]
  BY <1>1
<1>3. \A i \in 1..Len(stream) : i = 1 \/ (i - 1 \in 1..(Len(stream) - 1) /\ Tail(stream)[i - 1] = stream[i])
  BY <1>1, <1>2
<1>4. \A i \in 1..Len(stream) : i = 1 \/ \E j \in 1..Len(Tail(stream)) : Tail(stream)[j] = stream[i]
  BY <1>1, <1>2, <1>3
<1>5. \A j \in 1..Len(Tail(stream)) : \E i \in 1..Len(stream) : Tail(stream)[j] = stream[i]
  BY <1>1, <1>2
<1>6. QED
  BY <1>1, <1>2, <1>4, <1>5 DEF Pending

\* A committed change joins the events, a published one stays among them.
LEMMA PendingGrows ==
    ASSUME StoreTypeOK, NEW e, late' = late \cup {e}, stream' = stream
    PROVE  Pending' = Pending \cup {e}
  BY DEF Pending

LEMMA PendingStays ==
    ASSUME StoreTypeOK, NEW e \in late, Publish(e)
    PROVE  Pending' = Pending /\ stream' \in Seq(Event)
<1>1. stream \in Seq(Event) /\ Len(stream) \in Nat /\ e \in Event
  BY DEF StoreTypeOK
<1>2. /\ stream' \in Seq(Event) /\ Len(stream') = Len(stream) + 1 /\ stream'[Len(stream) + 1] = e
      /\ \A i \in 1..Len(stream) : stream'[i] = stream[i]
      /\ late' = late \ {e}
  BY <1>1 DEF Publish
<1>3. \A i \in 1..Len(stream') : stream'[i] = e \/ \E j \in 1..Len(stream) : stream'[i] = stream[j]
  BY <1>1, <1>2
<1>4. \A j \in 1..Len(stream) : \E i \in 1..Len(stream') : stream'[i] = stream[j]
  BY <1>1, <1>2
<1>5. Len(stream) + 1 \in 1..Len(stream')
  BY <1>1, <1>2
<1>6. Pending' \subseteq Pending
  BY <1>2, <1>3 DEF Pending
<1>7. Pending \subseteq Pending'
  BY <1>2, <1>4, <1>5 DEF Pending
<1>8. QED
  BY <1>2, <1>6, <1>7

-----------------------------------------------------------------------------
(* WebStore: the API.                                                        *)

LEMMA CommitKeeps ==
    ASSUME StoreInv, NEW x \in Item, NEW kind \in {"put", "remove"}, NEW row \in Row,
           IF kind = "put" THEN row = changes + 1 ELSE row <= 0,
           Commit(x, kind, row)
    PROVE  StoreInv'
<1> USE DEF StoreInv
<1> DEFINE e == [kind |-> kind, item |-> x, number |-> changes + 1]
<1>1. changes \in Nat /\ changes < MaxChanges /\ MaxChanges \in Nat /\ changes' = changes + 1
  BY WebStoreAssumption DEF NumbersAreSpent, Commit
<1>2. e \in Event /\ e.kind = kind /\ e.item = x /\ e.number = changes + 1
  BY <1>1 DEF Event
<1>3. /\ late' = late \cup {e} /\ stream' = stream /\ rows' = [rows EXCEPT ![x] = row]
      /\ view' = view /\ list' = list /\ cached' = cached /\ shown' = shown /\ seen' = seen
      /\ overtaken' = overtaken /\ stale' = stale /\ load' = load /\ gets' = gets /\ chained' = chained
  BY DEF Commit, tab
<1> HIDE DEF e
<1>4. Pending' = Pending \cup {e} /\ Pending \subseteq Event
  BY <1>3, PendingGrows, PendingType
<1>5. /\ rows' \in [Item -> Row] /\ rows'[x] = row
      /\ \A y \in Item : y # x => rows'[y] = rows[y]
  BY <1>3 DEF StoreTypeOK
<1>6. StoreTypeOK'
  BY <1>2, <1>3, <1>5 DEF StoreTypeOK
<1>7. NumbersAreSpent'
  <2>1. \A y \in Item : rows[y] \in Int /\ seen[y] \in Int
    BY DEF StoreTypeOK, Row
  <2>2. \A y \in Item : rows'[y] <= changes' /\ seen'[y] <= changes'
    <3>1. row \in Int /\ row <= changes + 1
      BY <1>1 DEF Row
    <3>2. \A y \in Item : rows[y] <= changes /\ seen[y] <= changes
      BY DEF NumbersAreSpent
    <3>3. \A y \in Item : rows'[y] <= changes' /\ seen'[y] = seen[y]
      BY <1>1, <1>3, <1>5, <2>1, <3>1, <3>2
    <3>4. QED
      BY <1>1, <2>1, <3>2, <3>3
  <2>3. \A v \in Pending : v.number \in Int
    BY <1>4 DEF Event
  <2>4. \A v \in Pending' : v.number <= changes'
    BY <1>1, <1>2, <1>4, <2>3 DEF NumbersAreSpent
  <2>5. \A g \in gets : g.upto \in Int
    BY DEF StoreTypeOK, Get
  <2>6. \A g \in gets' : g.upto <= changes'
    BY <1>1, <1>3, <2>5 DEF NumbersAreSpent
  <2>7. QED
    BY <1>1, <2>2, <2>4, <2>6 DEF NumbersAreSpent
<1>8. NewestAgrees'
  <2> SUFFICES ASSUME NEW w \in Pending',
                      \A v \in Pending' : v.item = w.item => v.number <= w.number,
                      seen'[w.item] <= w.number
               PROVE  IF w.kind = "put" THEN rows'[w.item] = w.number ELSE rows'[w.item] <= 0
    BY DEF NewestAgrees
  <2>1. CASE w = e
    BY <1>2, <1>5, <2>1
  <2>2. CASE w # e
    <3>1. w \in Pending /\ w.item \in Item /\ w.number \in Int /\ w.number <= changes
      BY <1>4, <2>2 DEF Event, NumbersAreSpent
    <3>2. w.item # x
      BY <1>1, <1>2, <1>4, <3>1
    <3>3. IF w.kind = "put" THEN rows[w.item] = w.number ELSE rows[w.item] <= 0
      BY <1>3, <1>4, <3>1 DEF NewestAgrees
    <3>4. QED
      BY <1>5, <3>1, <3>2, <3>3
  <2>3. QED
    BY <2>1, <2>2
<1>9. OneLiveGet'
  BY <1>3 DEF OneLiveGet
<1>10. \A y \in Item, n \in Int : ChangedSince(y, n) => ChangedSince(y, n)'
  BY <1>4 DEF ChangedSince
<1>11. \A n \in Int : n <= changes => ChangedSince(x, n)'
  BY <1>1, <1>2, <1>4 DEF ChangedSince
<1>12. \A y \in Item : y # x => Readable(y)' = Readable(y)
  BY <1>5 DEF Readable
<1>13. AnswersAreCurrent'
  <2> SUFFICES ASSUME NEW g \in gets, g.phase = "answered", ~g.cancelled, NEW y \in Item \ overtaken
               PROVE  seen[y] <= g.upto /\ (g.list[y] = Readable(y)' \/ ChangedSince(y, g.upto)')
    BY <1>3 DEF AnswersAreCurrent
  <2>1. g.upto \in Int /\ g.upto <= changes
    BY DEF StoreTypeOK, Get, NumbersAreSpent
  <2>2. QED
    BY <1>10, <1>11, <1>12, <2>1 DEF AnswersAreCurrent
<1>14. ListIsCurrent'
  <2>1. \A y \in Item : seen[y] \in Int /\ seen[y] <= changes
    BY DEF StoreTypeOK, NumbersAreSpent
  <2>2. QED
    BY <1>3, <1>10, <1>11, <1>12, <2>1 DEF ListIsCurrent
<1>15. QED
  BY <1>3, <1>6, <1>7, <1>8, <1>9, <1>13, <1>14

\* An event like one that was published already, of the row as it is.
LEMMA RebroadcastKeeps ==
    ASSUME StoreInv, NEW x \in Item, Rebroadcast(x)
    PROVE  StoreInv'
<1> USE DEF StoreInv
<1> DEFINE e == [kind |-> "put", item |-> x, number |-> rows[x]]
<1>1. /\ changes' = changes /\ late' = late \cup {e} /\ stream' = stream /\ rows' = rows
      /\ view' = view /\ list' = list /\ cached' = cached /\ shown' = shown /\ seen' = seen
      /\ overtaken' = overtaken /\ stale' = stale /\ load' = load /\ gets' = gets /\ chained' = chained
  BY DEF Rebroadcast, tab
<1>2. rows[x] \in 0..MaxChanges /\ rows[x] <= changes
  BY WebStoreAssumption DEF StoreTypeOK, Row, Rebroadcast, NumbersAreSpent
<1>3. e \in Event /\ e.kind = "put" /\ e.item = x /\ e.number = rows[x]
  BY <1>2 DEF Event
<1> HIDE DEF e
<1>4. Pending' = Pending \cup {e}
  BY <1>1, PendingGrows
<1>5. StoreTypeOK'
  BY <1>1, <1>3 DEF StoreTypeOK
<1>6. NumbersAreSpent'
  BY <1>1, <1>2, <1>3, <1>4 DEF NumbersAreSpent
<1>7. NewestAgrees'
  BY <1>1, <1>3, <1>4 DEF NewestAgrees
<1>8. OneLiveGet'
  BY <1>1 DEF OneLiveGet
<1>9. \A y \in Item, n \in Int : ChangedSince(y, n) => ChangedSince(y, n)'
  BY <1>4 DEF ChangedSince
<1>10. \A y \in Item : Readable(y)' = Readable(y)
  BY <1>1 DEF Readable
<1>11. AnswersAreCurrent'
  <2>1. \A g \in gets : g.upto \in Int
    BY DEF StoreTypeOK, Get
  <2>2. QED
    BY <1>1, <1>9, <1>10, <2>1 DEF AnswersAreCurrent
<1>12. ListIsCurrent'
  <2>1. \A y \in Item : seen[y] \in Int
    BY DEF StoreTypeOK
  <2>2. QED
    BY <1>1, <1>9, <1>10, <2>1 DEF ListIsCurrent
<1>13. QED
  BY <1>1, <1>5, <1>6, <1>7, <1>8, <1>11, <1>12

LEMMA PublishKeeps ==
    ASSUME StoreInv, NEW e \in late, Publish(e)
    PROVE  StoreInv'
<1> USE DEF StoreInv
<1>1. /\ changes' = changes /\ rows' = rows /\ late' \subseteq late
      /\ view' = view /\ list' = list /\ cached' = cached /\ shown' = shown /\ seen' = seen
      /\ overtaken' = overtaken /\ stale' = stale /\ load' = load /\ gets' = gets /\ chained' = chained
  BY DEF Publish, tab
<1>2. Pending' = Pending /\ stream' \in Seq(Event)
  BY PendingStays
<1>3. StoreTypeOK'
  BY <1>1, <1>2 DEF StoreTypeOK
<1>4. NumbersAreSpent' /\ NewestAgrees' /\ OneLiveGet'
  BY <1>1, <1>2 DEF NumbersAreSpent, NewestAgrees, OneLiveGet
<1>5. AnswersAreCurrent' /\ ListIsCurrent'
  BY <1>1, <1>2 DEF AnswersAreCurrent, ListIsCurrent, ChangedSince, Readable
<1>6. QED
  BY <1>1, <1>3, <1>4, <1>5

-----------------------------------------------------------------------------
(* WebStore: the requests.                                                   *)

\* A step of the requests that answers none: the events and what is shown of
\* the items stay, and what is live remains of what was, or is new.
Requested ==
    /\ view' = view /\ rows' = rows /\ late' = late /\ stream' = stream /\ changes' = changes
    /\ seen' = seen /\ overtaken' = overtaken
    /\ gets' \subseteq Get /\ IsFiniteSet(gets')
    /\ load' \in {"idle", "loading", "loaded", "error"} /\ chained' \in Nat
    /\ \A g \in gets' : g \in gets \/ g.cancelled \/ g.phase = "asked"
    /\ \A g \in gets' : g.upto <= changes

LEMMA RequestedKeeps ==
    ASSUME StoreInv, Requested, OneLiveGet',
           \/ list' = list /\ cached' = cached /\ stale' = stale /\ (load' = "loaded" => load = "loaded")
           \/ \E g \in gets : /\ g.phase = "answered" /\ ~g.cancelled
                              /\ list' = g.list /\ cached' /\ stale' = overtaken
    PROVE  StoreInv'
<1> USE DEF StoreInv
<1>1. Pending' = Pending
  BY DEF Requested, Pending
<1>2. list' \in [Item -> Row] /\ stale' \subseteq Item
  BY DEF StoreTypeOK, Get
<1>3. StoreTypeOK'
  BY <1>2 DEF Requested, StoreTypeOK
<1>4. NumbersAreSpent' /\ NewestAgrees'
  BY <1>1 DEF Requested, NumbersAreSpent, NewestAgrees
<1>5. \A x \in Item : Readable(x)' = Readable(x)
  BY DEF Requested, Readable
<1>6. \A x, n : ChangedSince(x, n) <=> ChangedSince(x, n)'
  BY <1>1 DEF ChangedSince
<1>7. AnswersAreCurrent'
  BY <1>5, <1>6 DEF AnswersAreCurrent, Requested
<1>8. ListIsCurrent'
  <2>1. CASE list' = list /\ cached' = cached /\ stale' = stale /\ (load' = "loaded" => load = "loaded")
    BY <1>5, <1>6, <2>1 DEF ListIsCurrent, Requested
  <2>2. ASSUME NEW g \in gets, g.phase = "answered", ~g.cancelled,
               list' = g.list, cached', stale' = overtaken
        PROVE  ListIsCurrent'
    <3> SUFFICES ASSUME NEW x \in Item \ overtaken
                 PROVE  list'[x] = Readable(x) \/ ChangedSince(x, seen[x])
      BY <1>5, <1>6, <2>2 DEF ListIsCurrent, Requested
    <3>1. seen[x] <= g.upto /\ (g.list[x] = Readable(x) \/ ChangedSince(x, g.upto))
      BY <2>2 DEF AnswersAreCurrent
    <3>2. seen[x] \in Int /\ g.upto \in Int /\ \A w \in Pending : w.number \in Int
      BY PendingType DEF StoreTypeOK, Get, Event
    <3>3. ChangedSince(x, g.upto) => ChangedSince(x, seen[x])
      BY <3>1, <3>2 DEF ChangedSince
    <3>4. QED
      BY <2>2, <3>1, <3>3
  <2>3. QED
    BY <2>1, <2>2
<1>9. QED
  BY <1>3, <1>4, <1>7, <1>8 DEF Requested

\* One more request, not cancelled.
LEMMA AskKeepsRequests ==
    ASSUME StoreInv
    PROVE  /\ gets \cup {Asked} \subseteq Get /\ IsFiniteSet(gets \cup {Asked})
           /\ \A g \in gets \cup {Asked} : g \in gets \/ g.phase = "asked"
           /\ \A g \in gets \cup {Asked} : g.upto <= changes
<1>1. Asked \in Get /\ Asked.phase = "asked" /\ Asked.upto = 0
  BY AskedResult DEF StoreInv
<1>2. gets \subseteq Get /\ IsFiniteSet(gets) /\ changes \in Nat /\ \A g \in gets : g.upto <= changes
  BY DEF StoreInv, StoreTypeOK, NumbersAreSpent
<1>3. QED
  BY <1>1, <1>2, FS_AddElement

LEMMA EnsureMembersKeeps ==
    ASSUME StoreInv, NEW force \in BOOLEAN, EnsureMembers(force), view = "members",
           view' = view, shown' = shown
    PROVE  /\ OneLiveGet'
           /\ gets' \subseteq Get /\ IsFiniteSet(gets')
           /\ load' \in {load, "loading"} /\ chained' \in Nat
           /\ \A g \in gets' : g \in gets \/ g.phase = "asked"
           /\ \A g \in gets' : g.upto <= changes
<1> USE DEF StoreInv
<1>1. gets \subseteq Get /\ IsFiniteSet(gets) /\ chained \in Nat /\ \A g \in gets : g.upto <= changes
  BY DEF StoreTypeOK, NumbersAreSpent
<1>2. \/ gets' = gets /\ chained' = chained /\ load' = load
      \/ gets' = gets /\ chained' = chained + 1 /\ load' = "loading"
      \/ gets = {} /\ gets' = gets \cup {Asked} /\ chained' = chained /\ load' = "loading"
  BY DEF EnsureMembers, InFlight
<1>3. ~Asked.cancelled
  BY AskedResult
<1>4. OneLiveGet'
  BY <1>2, <1>3 DEF OneLiveGet
<1>5. /\ gets \cup {Asked} \subseteq Get /\ IsFiniteSet(gets \cup {Asked})
      /\ \A g \in gets \cup {Asked} : g \in gets \/ g.phase = "asked"
      /\ \A g \in gets \cup {Asked} : g.upto <= changes
  BY AskKeepsRequests
<1> HIDE DEF StoreInv
<1>6. CASE gets' = gets /\ chained' \in {chained, chained + 1} /\ load' \in {load, "loading"}
  BY <1>1, <1>4, <1>6
<1>7. CASE gets' = gets \cup {Asked} /\ chained' = chained /\ load' = "loading"
  BY <1>1, <1>4, <1>5, <1>7
<1>8. QED
  BY <1>2, <1>6, <1>7

LEMMA OpenRosterKeeps ==
    ASSUME StoreInv, OpenRoster
    PROVE  StoreInv'
<1>1. EnsureMembers(FALSE) /\ view = "members" /\ view' = view /\ shown' = shown
  BY DEF OpenRoster, tab
<1>2. /\ OneLiveGet'
      /\ gets' \subseteq Get /\ IsFiniteSet(gets')
      /\ load' \in {load, "loading"} /\ chained' \in Nat
      /\ \A g \in gets' : g \in gets \/ g.phase = "asked"
      /\ \A g \in gets' : g.upto <= changes
  BY <1>1, EnsureMembersKeeps
<1>3. Requested
  BY <1>2 DEF OpenRoster, Requested, api, tab, StoreInv, StoreTypeOK
<1>4. list' = list /\ cached' = cached /\ stale' = stale /\ (load' = "loaded" => load = "loaded")
  BY <1>2 DEF OpenRoster, tab
<1>5. QED
  BY <1>2, <1>3, <1>4, RequestedKeeps

LEMMA ShowRoomKeeps ==
    ASSUME StoreInv, ShowRoom
    PROVE  StoreInv'
<1>1. /\ gets' \subseteq Get /\ IsFiniteSet(gets')
      /\ \A g \in gets' : g \in gets \/ g.phase = "asked"
      /\ \A g \in gets' : g.upto <= changes
  BY AskKeepsRequests DEF ShowRoom
<1>2. OneLiveGet'
  BY DEF OneLiveGet, StoreInv, ShowRoom
<1>3. Requested
  BY <1>1 DEF ShowRoom, Requested, api, StoreInv, StoreTypeOK
<1>4. list' = list /\ cached' = cached /\ stale' = stale /\ (load' = "loaded" => load = "loaded")
  BY DEF ShowRoom
<1>5. QED
  BY <1>2, <1>3, <1>4, RequestedKeeps

\* Cancelling changes no answer.
LEMMA HideRoomKeeps ==
    ASSUME StoreInv, HideRoom
    PROVE  StoreInv'
<1> DEFINE cut(g) == [g EXCEPT !.cancelled = TRUE]
           f == [g \in gets |-> cut(g)]
<1>1. gets \subseteq Get /\ IsFiniteSet(gets) /\ \A g \in gets : g.upto <= changes
  BY DEF StoreInv, StoreTypeOK, NumbersAreSpent
<1>2. \A g \in gets : cut(g) \in Get /\ cut(g).cancelled /\ cut(g).upto = g.upto
  BY <1>1 DEF Get
<1>3. gets' = {cut(g) : g \in gets}
  BY DEF HideRoom
<1>4. f \in Surjection(gets, gets')
  BY <1>3 DEF Surjection
<1> HIDE DEF f
<1>5. IsFiniteSet(gets')
  BY <1>1, <1>4, FS_Surjection
<1> HIDE DEF cut
<1>6. gets' \subseteq Get /\ \A g \in gets' : g.cancelled /\ g.upto <= changes
  BY <1>1, <1>2, <1>3
<1>7. OneLiveGet'
  BY <1>6 DEF OneLiveGet, StoreInv, HideRoom
<1>8. Requested
  BY <1>5, <1>6 DEF HideRoom, Requested, api, StoreInv, StoreTypeOK
<1>9. list' = list /\ cached' = cached /\ stale' = stale /\ (load' = "loaded" => load = "loaded")
  BY DEF HideRoom
<1>10. QED
  BY <1>7, <1>8, <1>9, RequestedKeeps

\* A fetch is over: a chained one, which only a roster has, takes its place.
LEMMA SettledKeeps ==
    ASSUME StoreInv, NEW g \in gets, Settled(g), view' = view, shown' = shown
    PROVE  /\ OneLiveGet'
           /\ gets' \subseteq Get /\ IsFiniteSet(gets') /\ chained' \in Nat
           /\ \A h \in gets' : h \in gets \/ h.phase = "asked"
           /\ \A h \in gets' : h.upto <= changes
<1>1. /\ gets \subseteq Get /\ IsFiniteSet(gets) /\ chained \in Nat /\ OneLiveGet
      /\ view \in {"members", "messages"}
      /\ changes \in Nat /\ \A h \in gets : h.upto <= changes
  BY DEF StoreInv, StoreTypeOK, NumbersAreSpent
<1>2. CASE chained > 0
  <2> DEFINE next == [Asked EXCEPT !.id = g.id]
  <2>1. view = "members" /\ gets = {g} /\ ~shown
    BY <1>1, <1>2 DEF OneLiveGet
  <2>2. Asked \in Get /\ Asked.phase = "asked" /\ ~Asked.cancelled /\ Asked.upto = 0
    BY <1>1, AskedResult
  <2>3. next \in Get /\ next.phase = "asked" /\ ~next.cancelled /\ next.upto = 0
    BY <1>1, <2>2 DEF Get
  <2> HIDE DEF next
  <2>4. gets' = {next} /\ chained' = chained - 1
    BY <1>2, <2>1 DEF Settled, next
  <2>5. IsFiniteSet(gets')
    BY <2>4, FS_Singleton
  <2>6. OneLiveGet'
    BY <2>1, <2>3, <2>4 DEF OneLiveGet
  <2>7. QED
    BY <1>1, <1>2, <2>3, <2>4, <2>5, <2>6
<1>3. CASE ~(chained > 0)
  <2>1. gets' = gets \ {g} /\ chained' = 0
    BY <1>3 DEF Settled
  <2>2. IsFiniteSet(gets')
    BY <1>1, <2>1, FS_RemoveElement
  <2>3. OneLiveGet'
    BY <1>1, <2>1 DEF OneLiveGet
  <2>4. QED
    BY <1>1, <2>1, <2>2, <2>3
<1>4. QED
  BY <1>2, <1>3

LEMMA ApplyKeeps ==
    ASSUME StoreInv, NEW g \in gets, Apply(g)
    PROVE  StoreInv'
<1>1. Settled(g) /\ view' = view /\ shown' = shown
  BY DEF Apply
<1>2. /\ OneLiveGet'
      /\ gets' \subseteq Get /\ IsFiniteSet(gets') /\ chained' \in Nat
      /\ \A h \in gets' : h \in gets \/ h.phase = "asked"
      /\ \A h \in gets' : h.upto <= changes
  BY <1>1, SettledKeeps
<1>3. load' \in {"idle", "loading", "loaded", "error"}
  BY DEF Apply, StoreInv, StoreTypeOK
<1>4. Requested
  BY <1>2, <1>3 DEF Apply, Requested, api
<1>5. CASE g.cancelled
  <2>1. list' = list /\ cached' = cached /\ stale' = stale /\ load' = load
    BY <1>5 DEF Apply
  <2>2. QED
    BY <1>2, <1>4, <2>1, RequestedKeeps
<1>6. CASE ~g.cancelled
  <2>1. g.phase = "answered" /\ list' = g.list /\ cached' = TRUE /\ stale' = overtaken
    BY <1>6 DEF Apply
  <2>2. QED
    BY <1>2, <1>4, <1>6, <2>1, RequestedKeeps
<1>7. QED
  BY <1>5, <1>6

LEMMA FailKeeps ==
    ASSUME StoreInv, NEW g \in gets, Fail(g)
    PROVE  StoreInv'
<1>1. Settled(g) /\ view' = view /\ shown' = shown
  BY DEF Fail, tab
<1>2. /\ OneLiveGet'
      /\ gets' \subseteq Get /\ IsFiniteSet(gets') /\ chained' \in Nat
      /\ \A h \in gets' : h \in gets \/ h.phase = "asked"
      /\ \A h \in gets' : h.upto <= changes
  BY <1>1, SettledKeeps
<1>3. load' \in {load, "error"} /\ load \in {"idle", "loading", "loaded", "error"}
  BY DEF Fail, StoreInv, StoreTypeOK
<1>4. Requested
  BY <1>2, <1>3 DEF Fail, Requested, api, tab
<1>5. list' = list /\ cached' = cached /\ stale' = stale /\ (load' = "loaded" => load = "loaded")
  BY <1>3 DEF Fail, tab
<1>6. QED
  BY <1>2, <1>4, <1>5, RequestedKeeps

\* The API answers with what is in the rows: of a live request this is, at that
\* moment, current for every item.
LEMMA AnswerKeeps ==
    ASSUME StoreInv, NEW g \in gets, Answer(g)
    PROVE  StoreInv'
<1> DEFINE a == [g EXCEPT !.phase = "answered", !.upto = changes,
                          !.list = [x \in Item |-> IF rows[x] > 0 THEN rows[x] ELSE Absent]]
<1> USE DEF StoreInv
<1>1. /\ gets' = (gets \ {g}) \cup {a} /\ overtaken' = IF g.cancelled THEN overtaken ELSE {}
      /\ view' = view /\ rows' = rows /\ late' = late /\ stream' = stream /\ changes' = changes
      /\ list' = list /\ cached' = cached /\ shown' = shown /\ seen' = seen /\ stale' = stale
      /\ load' = load /\ chained' = chained
  BY DEF Answer, api
<1>2. [x \in Item |-> IF rows[x] > 0 THEN rows[x] ELSE Absent] \in [Item -> Row]
  <2>1. \A x \in Item : rows[x] \in Row
    BY DEF StoreTypeOK
  <2>2. Absent \in Row
    BY WebStoreAssumption DEF Absent, Row
  <2>3. QED
    BY <2>1, <2>2
<1>3. g \in Get /\ gets \subseteq Get /\ IsFiniteSet(gets) /\ changes \in 0..MaxChanges
  BY DEF StoreTypeOK, NumbersAreSpent
<1>4. /\ a \in Get /\ a.phase = "answered" /\ a.upto = changes /\ a.cancelled = g.cancelled
      /\ a.list = [x \in Item |-> IF rows[x] > 0 THEN rows[x] ELSE Absent]
  BY <1>2, <1>3 DEF Get
<1> HIDE DEF a
<1>5. \A x \in Item : a.list[x] = Readable(x)
  BY <1>4 DEF Readable
<1>6. IsFiniteSet(gets')
  BY <1>1, <1>3, FS_AddElement, FS_RemoveElement
<1>7. Pending' = Pending
  BY <1>1 DEF Pending
<1>8. StoreTypeOK'
  BY <1>1, <1>3, <1>4 DEF StoreTypeOK
<1>9. NumbersAreSpent'
  BY <1>1, <1>3, <1>4, <1>7 DEF NumbersAreSpent
<1>10. NewestAgrees'
  BY <1>1, <1>7 DEF NewestAgrees
<1>11. OneLiveGet'
  BY <1>1, <1>4 DEF OneLiveGet
<1>12. AnswersAreCurrent'
  <2> SUFFICES ASSUME NEW h \in gets', h.phase = "answered", ~h.cancelled,
                      NEW x \in Item \ overtaken'
               PROVE  seen[x] <= h.upto /\ (h.list[x] = Readable(x) \/ ChangedSince(x, h.upto))
    BY <1>1, <1>7 DEF AnswersAreCurrent, Readable, ChangedSince
  <2>1. CASE h = a
    BY <1>4, <1>5, <2>1 DEF NumbersAreSpent
  <2>2. CASE h # a
    <3>1. h \in gets /\ h # g
      BY <1>1, <2>2
    <3>2. g.cancelled
      BY <3>1 DEF OneLiveGet
    <3>3. overtaken' = overtaken
      BY <1>1, <3>2
    <3>4. QED
      BY <3>1, <3>3 DEF AnswersAreCurrent
  <2>3. QED
    BY <2>1, <2>2
<1>13. ListIsCurrent'
  BY <1>1, <1>7 DEF ListIsCurrent, Readable, ChangedSince
<1>14. QED
  BY <1>1, <1>6, <1>8, <1>9, <1>10, <1>11, <1>12, <1>13

-----------------------------------------------------------------------------
(* WebStore: the dispatches.                                                 *)

\* A dispatch asks for at most one more list.
LEMMA DispatchAsks ==
    ASSUME StoreInv, Dispatch
    PROVE  /\ OneLiveGet'
           /\ gets' \subseteq Get /\ IsFiniteSet(gets')
           /\ load' \in {load, "loading"} /\ chained' \in Nat
           /\ \A g \in gets' : g \in gets \/ g.phase = "asked"
           /\ \A g \in gets' : g.upto <= changes
<1>1. view' = view /\ shown' = shown
  BY DEF Dispatch
<1>2. CASE EnsureMembers(TRUE) /\ view = "members"
  BY <1>1, <1>2, EnsureMembersKeeps
<1>3. CASE gets' = gets /\ load' = load /\ chained' = chained
  BY <1>1, <1>3 DEF StoreInv, StoreTypeOK, NumbersAreSpent, OneLiveGet
<1>4. QED
  BY <1>2, <1>3 DEF Dispatch, OnRemove, OnMemberAdd, OnMessage

\* A dispatched event of the newest number is the last word on its item.
LEMMA NewestIsCurrent ==
    ASSUME StoreInv, NEW e \in Pending, seen[e.item] <= e.number,
           ~ChangedSince(e.item, e.number)
    PROVE  Readable(e.item) = IF e.kind = "put" THEN e.number ELSE Absent
<1>1. e.item \in Item /\ e.number \in Nat /\ rows[e.item] \in Int /\ MaxChanges \in Nat
      /\ \A w \in Pending : w.number \in Int
  BY PendingType, WebStoreAssumption DEF StoreInv, StoreTypeOK, Event, Row
<1>2. \A w \in Pending : w.item = e.item => w.number <= e.number
  BY <1>1 DEF ChangedSince
<1>3. IF e.kind = "put" THEN rows[e.item] = e.number ELSE rows[e.item] <= 0
  BY <1>2 DEF StoreInv, NewestAgrees
<1>4. QED
  BY <1>1, <1>3 DEF Readable, Absent

\* What a dispatch leaves in the list: the word of e on its item, or, for a join,
\* a roster that is asked for again.
LEMMA DispatchShows ==
    ASSUME StoreInv, Dispatch, load' = "loaded"
    PROVE  LET e == Head(stream) IN
           /\ load = "loaded" /\ cached'
           /\ list' = [list EXCEPT ![e.item] = IF e.kind = "put" THEN e.number ELSE Absent]
           /\ stale' = IF e.number < seen[e.item] THEN stale \cup {e.item} ELSE stale \ {e.item}
<1> DEFINE e == Head(stream)
<1>1. load = "loaded"
  BY DispatchAsks
<1>2. cached
  BY <1>1 DEF StoreInv, ListIsCurrent
<1>3. e \in Event
  BY HeadIsPending DEF Dispatch, StoreInv, api
<1>4. e.kind \in {"put", "remove"}
  BY <1>3 DEF Event
<1>5. ~(view = "members" /\ e.kind = "put")
  BY <1>1, <1>2 DEF Dispatch, OnMemberAdd, EnsureMembers
<1>6. list' = [list EXCEPT ![e.item] = IF e.kind = "put" THEN e.number ELSE Absent] /\ cached'
  BY <1>2, <1>4, <1>5 DEF Dispatch, OnRemove, OnMessage
<1>7. stale' = IF e.number < seen[e.item] THEN stale \cup {e.item} ELSE stale \ {e.item}
  BY <1>5 DEF Dispatch, Judged
<1>8. QED
  BY <1>1, <1>6, <1>7

LEMMA DispatchKeeps ==
    ASSUME StoreInv, Dispatch
    PROVE  StoreInv'
<1> DEFINE e == Head(stream)
           Later(x, n) == \E w \in Pending' : w.item = x /\ w.number > n
<1>1. /\ stream # <<>> /\ stream' = Tail(stream) /\ late' = late /\ view' = view
      /\ rows' = rows /\ changes' = changes /\ Judged(e)
  BY DEF Dispatch, api
<1>2. /\ e \in Pending /\ e \in Event /\ Pending' \subseteq Pending
      /\ \A w \in Pending : w = e \/ w \in Pending'
      /\ stream' \in Seq(Event)
  BY <1>1, HeadIsPending DEF StoreInv
<1>3. /\ e.item \in Item /\ e.number \in 0..MaxChanges /\ e.kind \in {"put", "remove"}
      /\ e.number <= changes /\ changes \in 0..MaxChanges
  BY <1>2 DEF Event, StoreInv, NumbersAreSpent
<1> HIDE DEF e
<1>4. \A w \in Pending : w.number \in Int
  BY PendingType DEF StoreInv, Event
<1>5. \A x \in Item : seen[x] \in 0..MaxChanges
  BY DEF StoreInv, StoreTypeOK
<1>6. /\ seen' \in [Item -> 0..MaxChanges] /\ e.number <= seen'[e.item]
      /\ \A x \in Item : seen[x] <= seen'[x] /\ seen'[x] <= changes
      /\ \A x \in Item : x # e.item => seen'[x] = seen[x]
      /\ seen'[e.item] \in {seen[e.item], e.number}
      /\ seen[e.item] <= e.number => seen'[e.item] = e.number
  <2>1. \A x \in Item : seen[x] <= changes
    BY DEF StoreInv, NumbersAreSpent
  <2>2. seen \in [Item -> 0..MaxChanges]
    BY DEF StoreInv, StoreTypeOK
  <2>3. seen' = [seen EXCEPT ![e.item] = IF e.number > seen[e.item] THEN e.number ELSE seen[e.item]]
    BY <1>1 DEF Judged
  <2>4. QED
    BY <1>3, <1>5, <2>1, <2>2, <2>3
<1>7. overtaken \subseteq overtaken' /\ overtaken' \subseteq Item
      /\ (e.item \notin overtaken' => ~Overtakes(e)) /\ stale' \subseteq Item
  BY <1>1, <1>3 DEF Judged, StoreInv, StoreTypeOK
<1>8. /\ OneLiveGet'
      /\ gets' \subseteq Get /\ IsFiniteSet(gets')
      /\ load' \in {load, "loading"} /\ chained' \in Nat
      /\ \A g \in gets' : g \in gets \/ g.phase = "asked"
      /\ \A g \in gets' : g.upto <= changes
  BY DispatchAsks
<1>9. \A x \in Item, n \in Int : ChangedSince(x, n) /\ (x # e.item \/ e.number <= n) => Later(x, n)
  BY <1>2, <1>3 DEF ChangedSince
<1>10. \A x : Readable(x)' = Readable(x)
  BY <1>1 DEF Readable
<1>11. StoreTypeOK'
  <2>1. list \in [Item -> Row] /\ Absent \in Row /\ e.number \in Row
    BY <1>3, WebStoreAssumption DEF Absent, Row, StoreInv, StoreTypeOK
  <2>2. \/ list' = list
        \/ list' = [list EXCEPT ![e.item] = Absent]
        \/ list' = [list EXCEPT ![e.item] = e.number]
    BY DEF e, Dispatch, OnRemove, OnMemberAdd, OnMessage
  <2>3. list' \in [Item -> Row]
    BY <2>1, <2>2
  <2>4. QED
    BY <1>1, <1>2, <1>6, <1>7, <1>8, <2>3 DEF StoreInv, StoreTypeOK
<1>12. NumbersAreSpent'
  BY <1>1, <1>2, <1>6, <1>8 DEF StoreInv, NumbersAreSpent
<1>13. NewestAgrees'
  <2> SUFFICES ASSUME NEW w \in Pending',
                      \A v \in Pending' : v.item = w.item => v.number <= w.number,
                      seen'[w.item] <= w.number
               PROVE  IF w.kind = "put" THEN rows[w.item] = w.number ELSE rows[w.item] <= 0
    BY <1>1 DEF NewestAgrees
  <2>1. w \in Pending /\ w.item \in Item /\ w.number \in Int
    BY <1>2, <1>4, PendingType DEF StoreInv, Event
  <2>2. seen[w.item] <= w.number
    BY <1>3, <1>5, <1>6, <2>1
  <2>3. \A v \in Pending : v.item = w.item => v.number <= w.number
    BY <1>2, <1>3, <1>5, <1>6, <2>1
  <2>4. QED
    BY <2>1, <2>2, <2>3 DEF StoreInv, NewestAgrees
<1>14. AnswersAreCurrent'
  <2> SUFFICES ASSUME NEW h \in gets', h.phase = "answered", ~h.cancelled,
                      NEW x \in Item \ overtaken'
               PROVE  seen'[x] <= h.upto /\ (h.list[x] = Readable(x) \/ Later(x, h.upto))
    BY <1>10 DEF AnswersAreCurrent, ChangedSince
  <2>1. h \in gets /\ x \notin overtaken /\ h.upto \in Int
    BY <1>7, <1>8 DEF Get
  <2>2. seen[x] <= h.upto /\ (h.list[x] = Readable(x) \/ ChangedSince(x, h.upto))
    BY <2>1 DEF StoreInv, AnswersAreCurrent
  <2>3. x = e.item => e.number <= h.upto
    BY <1>3, <1>7, <2>1 DEF Overtakes
  <2>4. QED
    BY <1>6, <1>9, <2>1, <2>2, <2>3
<1>15. ListIsCurrent'
  <2> SUFFICES ASSUME load' = "loaded"
               PROVE  /\ cached'
                      /\ \A x \in Item \ stale' : list'[x] = Readable(x) \/ Later(x, seen'[x])
    BY <1>10 DEF ListIsCurrent, ChangedSince
  <2>1. /\ load = "loaded" /\ cached'
        /\ list' = [list EXCEPT ![e.item] = IF e.kind = "put" THEN e.number ELSE Absent]
        /\ stale' = IF e.number < seen[e.item] THEN stale \cup {e.item} ELSE stale \ {e.item}
    BY DispatchShows DEF e
  <2>2. list \in [Item -> Row]
    BY DEF StoreInv, StoreTypeOK
  <2>3. ASSUME NEW x \in Item \ stale', x # e.item
        PROVE  list'[x] = Readable(x) \/ Later(x, seen'[x])
    <3>1. x \notin stale /\ list'[x] = list[x] /\ seen'[x] = seen[x]
      BY <1>6, <2>1, <2>2, <2>3
    <3>2. list[x] = Readable(x) \/ ChangedSince(x, seen[x])
      BY <2>1, <3>1 DEF StoreInv, ListIsCurrent
    <3>3. QED
      BY <1>5, <1>9, <2>3, <3>1, <3>2
  <2>4. ASSUME e.item \notin stale'
        PROVE  list'[e.item] = Readable(e.item) \/ Later(e.item, seen'[e.item])
    <3>1. seen[e.item] <= e.number /\ seen'[e.item] = e.number
      BY <1>3, <1>5, <1>6, <2>1, <2>4
    <3>2. list'[e.item] = IF e.kind = "put" THEN e.number ELSE Absent
      BY <1>3, <2>1, <2>2
    <3>3. ChangedSince(e.item, e.number) => Later(e.item, e.number)
      BY <1>3, <1>9
    <3>4. QED
      BY <1>2, <3>1, <3>2, <3>3, NewestIsCurrent
  <2>5. QED
    BY <2>1, <2>3, <2>4
<1>16. QED
  BY <1>1, <1>8, <1>11, <1>12, <1>13, <1>14, <1>15 DEF StoreInv

-----------------------------------------------------------------------------
LEMMA StoreInitInv == StoreInit => StoreInv
<1> SUFFICES ASSUME StoreInit PROVE StoreInv
  OBVIOUS
<1>1. Nothing \in [Item -> Row] /\ \A x \in Item : Nothing[x] = 0
  BY WebStoreAssumption DEF Nothing, Absent, Row
<1>2. Pending = {}
  BY DEF StoreInit, Pending
<1>3. StoreTypeOK /\ IsFiniteSet(gets)
  BY <1>1, FS_EmptySet, WebStoreAssumption DEF StoreInit, StoreTypeOK
<1>4. NumbersAreSpent /\ NewestAgrees
  BY <1>1, <1>2, WebStoreAssumption DEF StoreInit, NumbersAreSpent, NewestAgrees
<1>5. OneLiveGet /\ AnswersAreCurrent /\ ListIsCurrent
  BY DEF StoreInit, OneLiveGet, AnswersAreCurrent, ListIsCurrent
<1>6. QED
  BY <1>3, <1>4, <1>5 DEF StoreInit, StoreInv

LEMMA StoreStep == StoreInv /\ [StoreNext]_storeVars => StoreInv'
<1> SUFFICES ASSUME StoreInv, [StoreNext]_storeVars PROVE StoreInv'
  OBVIOUS
<1>1. changes \in 0..MaxChanges /\ MaxChanges \in Nat
  BY WebStoreAssumption DEF StoreInv, NumbersAreSpent
<1>2. ASSUME NEW x \in Item, Add(x) \/ Edit(x) PROVE StoreInv'
  <2>1. Commit(x, "put", changes + 1) /\ changes + 1 \in Row
    BY <1>1, <1>2 DEF Add, Edit, Commit, Row
  <2>2. QED
    BY <2>1, CommitKeeps
<1>3. ASSUME NEW x \in Item, Remove(x) PROVE StoreInv'
  <2> DEFINE row == IF view = "members" THEN Absent ELSE Gone
  <2>1. Commit(x, "remove", row) /\ row \in Row /\ row <= 0
    BY <1>1, <1>3 DEF Remove, Row, Absent, Gone
  <2> HIDE DEF row
  <2>2. QED
    BY <2>1, CommitKeeps
<1>4. ASSUME NEW x \in Item, Rebroadcast(x) PROVE StoreInv'
  BY <1>4, RebroadcastKeeps
<1>5. ASSUME NEW e \in late, Publish(e) PROVE StoreInv'
  BY <1>5, PublishKeeps
<1>6. ASSUME NEW g \in gets, Answer(g) PROVE StoreInv'
  BY <1>6, AnswerKeeps
<1>7. ASSUME NEW g \in gets, Apply(g) PROVE StoreInv'
  BY <1>7, ApplyKeeps
<1>8. ASSUME NEW g \in gets, Fail(g) PROVE StoreInv'
  BY <1>8, FailKeeps
<1>9. CASE OpenRoster
  BY <1>9, OpenRosterKeeps
<1>10. CASE ShowRoom
  BY <1>10, ShowRoomKeeps
<1>11. CASE HideRoom
  BY <1>11, HideRoomKeeps
<1>12. CASE Dispatch
  BY <1>12, DispatchKeeps
<1>13. CASE UNCHANGED storeVars
  BY <1>13 DEF storeVars, StoreInv, StoreTypeOK, NumbersAreSpent, NewestAgrees, OneLiveGet,
               AnswersAreCurrent, ListIsCurrent, ChangedSince, Readable, Pending
<1>14. QED
  BY <1>2, <1>3, <1>4, <1>5, <1>6, <1>7, <1>8, <1>9, <1>10, <1>11, <1>12, <1>13 DEF StoreNext

LEMMA StoreInvariant == StoreSpec => []StoreInv
<1>1. StoreInit => StoreInv
  BY StoreInitInv
<1>2. StoreInv /\ [StoreNext]_storeVars => StoreInv'
  BY StoreStep
<1>3. QED
  BY <1>1, <1>2, PTL DEF StoreSpec

\* The tab's state, the requests in flight and the events on their way have their
\* types: in particular at most MaxChanges changes are ever numbered.
THEOREM StoreTypes == StoreSpec => []StoreTypeOK
<1>1. StoreInv => StoreTypeOK
  BY DEF StoreInv
<1>2. QED
  BY <1>1, StoreInvariant, PTL

\* Once nothing is under way to the tab, no change is either, so a loaded list says
\* of an item that did not lose a race what the API has.
LEMMA RestIsCurrent ==
    StoreInv /\ AtRest /\ load = "loaded" =>
        \A x \in Item \ stale : list[x] = IF rows[x] > 0 THEN rows[x] ELSE Absent
<1> SUFFICES ASSUME StoreInv, AtRest, load = "loaded", NEW x \in Item \ stale
             PROVE  list[x] = IF rows[x] > 0 THEN rows[x] ELSE Absent
  OBVIOUS
<1>1. Pending = {}
  BY DEF AtRest, Pending
<1>2. ~ChangedSince(x, seen[x])
  BY <1>1 DEF ChangedSince
<1>3. QED
  BY <1>2 DEF StoreInv, ListIsCurrent, Readable

\* ensureMembers, MEMBER_REMOVE and the refetch on MEMBER_ADD keep a loaded roster
\* the server's, whatever crossed on the way, but for the users that lost a race.
THEOREM RosterHolds == StoreSpec => []RosterIsCurrent
<1>1. StoreInv => RosterIsCurrent
  <2> SUFFICES ASSUME StoreInv, AtRest, load = "loaded", NEW x \in Item \ stale
               PROVE  list[x] > 0 <=> rows[x] > 0
    BY DEF RosterIsCurrent
  <2>1. list[x] = IF rows[x] > 0 THEN rows[x] ELSE Absent
    BY RestIsCurrent
  <2>2. QED
    BY <2>1 DEF Absent
<1>2. QED
  BY <1>1, StoreInvariant, PTL

\* MessageList's fetch and the three message events leave on screen the last version
\* of each message of the channel, but for those that lost a race.
THEOREM RoomHolds == StoreSpec => []RoomIsCurrent
<1>1. StoreInv => RoomIsCurrent
  BY RestIsCurrent DEF RoomIsCurrent
<1>2. QED
  BY <1>1, StoreInvariant, PTL

=============================================================================

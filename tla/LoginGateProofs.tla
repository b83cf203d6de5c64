--------------------------- MODULE LoginGateProofs ---------------------------
(***************************************************************************)
(* Proofs about LoginGate: types, single use of codes, exact counting and   *)
(* usable enrolment, for any number of concurrent handlers; and what holds  *)
(* without exception when handlers do not overlap.                          *)
(***************************************************************************)
EXTENDS LoginGate, TLAPS

\* What makes single use inductive: a slot that logged in is not above the
\* stored counter, a code that logged in is off the list and never comes back,
\* and a handler about to write holds a code its read allowed.
SpentStaysSpent ==
    /\ \A c \in Slot : admitted.slot[c] > 0 => c <= row.last
    /\ \A b \in BackupCode : admitted.code[b] > 0 => b \notin row.codes /\ b[1] <= made.sets
    /\ \A b \in row.codes : b[1] <= made.sets
    /\ \A r \in Request :
         /\ req[r].at = "advance" => req[r].slot > req[r].saw.last
         /\ req[r].at = "consume" => req[r].code \subseteq req[r].saw.codes

\* What makes usable enrolment inductive: what each route read before it writes.
EnrolmentReads ==
    \A r \in Request :
        /\ req[r].at = "setup" => ~req[r].saw.enabled
        /\ req[r].at = "verify" => req[r].saw.secret \in confirmed
        /\ req[r].at = "regenerate" => req[r].saw.enabled

SpendInv  == SpentStaysSpent /\ CodeLogsInOnce
EnrolInv  == EnrolmentReads /\ EnrolledIsUsable

Reads == {"password", "slot", "code", "enrolment"}

-----------------------------------------------------------------------------
(* Lemmas.                                                                   *)

\* A step of one handler leaves every other handler's record alone.
LEMMA OthersKeep ==
    ASSUME TypeOK, NEW r \in Request, NEW h \in Handler, Run(r, h)
    PROVE  /\ req' \in [Request -> Handler]
           /\ req'[r] = h
           /\ \A q \in Request : q # r => req'[q] = req[q]
BY DEF Run, TypeOK

LEMMA IdleHandler == FreshRow \in Row /\ Idle \in Handler
<1>1. FreshRow \in Row
  BY LoginGateAssumption DEF FreshRow, Row, NoSecret, Slot
<1>2. QED
  BY <1>1, LoginGateAssumption DEF Idle, Handler, Step, Slot

\* The record a handler keeps of its read has the row's type.
LEMMA SawRow == ASSUME TypeOK, NEW use \in Reads PROVE Saw(use) \in Row
<1> USE IdleHandler
<1>1. CASE use = "password"
  BY <1>1 DEF Saw, TypeOK, Row
<1>2. CASE use = "slot"
  BY <1>2 DEF Saw, TypeOK, Row
<1>3. CASE use = "code"
  BY <1>3 DEF Saw, TypeOK, Row
<1>4. CASE use = "enrolment"
  BY <1>4 DEF Saw, TypeOK, Row
<1>5. QED
  BY <1>1, <1>2, <1>3, <1>4 DEF Reads

\* What beginning a handler does to the counters and to the handlers.
LEMMA Begun ==
    ASSUME TypeOK, NEW r \in Request, NEW h \in Handler, Begin(r, h)
    PROVE  /\ req' \in [Request -> Handler]
           /\ req'[r] = h
           /\ \A q \in Request : q # r => req'[q] = req[q]
           /\ made' \in [handlers: 0..MaxHandlers, secrets: 0..MaxSecrets, sets: 0..MaxSets]
           /\ made'.sets = made.sets
<1>1. made' = [made EXCEPT !.handlers = @ + 1] /\ made.handlers < MaxHandlers
  BY DEF Begin
<1>2. made' \in [handlers: 0..MaxHandlers, secrets: 0..MaxSecrets, sets: 0..MaxSets] /\ made'.sets = made.sets
  BY <1>1, LoginGateAssumption DEF TypeOK
<1>3. QED
  BY <1>2, OthersKeep DEF Begin

\* Rows with the columns of one step changed.
LEMMA PasswordColumns ==
    ASSUME TypeOK, NEW n \in 0..MaxFails, NEW l \in BOOLEAN
    PROVE  [row EXCEPT !.fails = n, !.locked = l] \in Row
BY DEF TypeOK, Row

LEMMA TotpColumns ==
    ASSUME TypeOK, NEW n \in 0..MaxFails, NEW l \in BOOLEAN, NEW c \in Slot, NEW set \in SUBSET BackupCode
    PROVE  /\ [row EXCEPT !.totpFails = n, !.totpLocked = l] \in Row
           /\ [row EXCEPT !.last = c, !.totpFails = n, !.totpLocked = l] \in Row
           /\ [row EXCEPT !.codes = set, !.totpFails = n, !.totpLocked = l] \in Row
<1>1. [row EXCEPT !.totpFails = n, !.totpLocked = l] \in Row
  BY DEF TypeOK, Row
<1>2. [row EXCEPT !.last = c, !.totpFails = n, !.totpLocked = l] \in Row
  BY DEF TypeOK, Row
<1>3. [row EXCEPT !.codes = set, !.totpFails = n, !.totpLocked = l] \in Row
  BY DEF TypeOK, Row
<1>4. QED
  BY <1>1, <1>2, <1>3

LEMMA FreshCodesType ==
    ASSUME TypeOK, made.sets < MaxSets
    PROVE  FreshCodes \subseteq BackupCode /\ \A b \in FreshCodes : b[1] = made.sets + 1
<1>1. made.sets + 1 \in 1..MaxSets
  BY LoginGateAssumption DEF TypeOK
<1>2. QED
  BY <1>1 DEF FreshCodes, BackupCode

-----------------------------------------------------------------------------
(* Type correctness.                                                         *)

LEMMA TypeInit == Init => TypeOK
<1> SUFFICES ASSUME Init PROVE TypeOK
  OBVIOUS
<1>1. row \in Row /\ req \in [Request -> Handler]
  BY IdleHandler DEF Init
<1>2. made \in [handlers: 0..MaxHandlers, secrets: 0..MaxSecrets, sets: 0..MaxSets]
  <2>1. 0 \in 0..MaxHandlers /\ 0 \in 0..MaxSecrets /\ 0 \in 0..MaxSets
    BY LoginGateAssumption
  <2>2. QED
    BY <2>1 DEF Init
<1>3. admitted \in [slot: [Slot -> Nat], code: [BackupCode -> Nat]]
  BY DEF Init
<1>4. streak \in [password: 0..MaxFails, totp: 0..MaxFails, unwritten: Nat]
  BY LoginGateAssumption DEF Init
<1>5. now \in 1..(MaxSlot + 1)
  BY LoginGateAssumption DEF Init
<1>6. staged \in BOOLEAN /\ confirmed \subseteq 1..MaxSecrets /\ raced \subseteq {"password", "totp", "enrolment"}
  BY DEF Init
<1>7. QED
  BY <1>1, <1>2, <1>3, <1>4, <1>5, <1>6 DEF TypeOK

\* Clearing the second step's counts keeps the type of the history.
LEMMA Cleared ==
    ASSUME NEW s \in [password: 0..MaxFails, totp: 0..MaxFails, unwritten: Nat]
    PROVE  [s EXCEPT !.totp = 0, !.unwritten = 0] \in [password: 0..MaxFails, totp: 0..MaxFails, unwritten: Nat]
<1>1. 0 \in 0..MaxFails
  BY LoginGateAssumption
<1>2. [s EXCEPT !.totp = 0] \in [password: 0..MaxFails, totp: 0..MaxFails, unwritten: Nat]
  BY <1>1
<1>3. QED
  BY <1>2

LEMMA TypeNext == TypeOK /\ [Next]_vars => TypeOK'
<1> SUFFICES ASSUME TypeOK, [Next]_vars PROVE TypeOK'
  OBVIOUS
<1> USE LoginGateAssumption
<1>0. ASSUME NEW group \in {"password", "totp", "enrolment"}, NEW outdated \in BOOLEAN, Race(group, outdated)
      PROVE  raced' \subseteq {"password", "totp", "enrolment"}
  BY <1>0 DEF Race, TypeOK
<1>1. ASSUME NEW r \in Request, Finish(r) PROVE req' \in [Request -> Handler]
  BY <1>1, IdleHandler, OthersKeep DEF Finish
<1>2. ASSUME NEW r \in Request, LoginRead(r) PROVE TypeOK'
  <2>1. [Idle EXCEPT !.at = "password", !.saw = Saw("password")] \in Handler
    BY IdleHandler, SawRow DEF Handler, Step, Reads
  <2>2. QED
    BY <1>2, <2>1, Begun DEF LoginRead, TypeOK
<1>3. ASSUME NEW r \in Request, LoginWrong(r) PROVE TypeOK'
  <2>1. req[r].saw \in Row
    BY DEF TypeOK, Handler
  <2>2. row' \in Row
    <3>1. req[r].saw.fails + 1 \in 0..MaxFails
      BY <1>3, <2>1 DEF LoginWrong, Row
    <3>2. (req[r].saw.fails + 1 >= LoginLimit) \in BOOLEAN
      OBVIOUS
    <3>3. QED
      BY <1>3, <3>1, <3>2, PasswordColumns DEF LoginWrong
  <2>3. streak' \in [password: 0..MaxFails, totp: 0..MaxFails, unwritten: Nat]
    BY <1>3 DEF LoginWrong, TypeOK
  <2>4. QED
    BY <1>3, <1>1, <2>2, <2>3 DEF LoginWrong, TypeOK, Race
<1>4. ASSUME NEW r \in Request, LoginRight(r) PROVE TypeOK'
  <2>1. row' \in Row
    <3>1. 0 \in 0..MaxFails
      OBVIOUS
    <3>2. [row EXCEPT !.fails = 0, !.locked = FALSE] \in Row
      BY <3>1, PasswordColumns
    <3>3. QED
      BY <1>4, <3>2 DEF LoginRight, TypeOK
  <2>2. streak' \in [password: 0..MaxFails, totp: 0..MaxFails, unwritten: Nat]
    BY <1>4 DEF LoginRight, TypeOK
  <2>3. staged' \in BOOLEAN
    BY <1>4 DEF LoginRight, TypeOK, Handler, Row
  <2>4. QED
    BY <1>4, <1>1, <2>1, <2>2, <2>3 DEF LoginRight, TypeOK, Race
<1>5. CASE PasswordReset
  <2>1. 0 \in 0..MaxFails
    OBVIOUS
  <2>2. row' \in Row
    BY <1>5, <2>1, PasswordColumns DEF PasswordReset
  <2>3. streak' \in [password: 0..MaxFails, totp: 0..MaxFails, unwritten: Nat]
    BY <1>5 DEF PasswordReset, TypeOK
  <2>4. QED
    BY <1>5, <2>2, <2>3 DEF PasswordReset, TypeOK
<1>6. ASSUME NEW r \in Request, NEW c \in Slot, TotpReadCode(r, c) PROVE TypeOK'
  <2>1. [Idle EXCEPT !.at = IF c <= row.last THEN "fail" ELSE "advance",
                     !.saw = Saw("slot"), !.slot = c] \in Handler
    BY IdleHandler, SawRow DEF Handler, Step, Reads
  <2>2. QED
    BY <1>6, <2>1, Begun DEF TotpReadCode, TypeOK
<1>7. ASSUME NEW r \in Request, NEW b \in BackupCode, TotpReadBackup(r, b) PROVE TypeOK'
  <2>1. [Idle EXCEPT !.at = IF b \in row.codes THEN "consume" ELSE "fail",
                     !.saw = Saw("code"), !.code = {b}] \in Handler
    BY IdleHandler, SawRow DEF Handler, Step, Reads
  <2>2. QED
    BY <1>7, <2>1, Begun DEF TotpReadBackup, TypeOK
<1>8. ASSUME NEW r \in Request, [req[r] EXCEPT !.at = "fail"] \in Handler, TotpAdvance(r) PROVE TypeOK'
  <2>1. req[r].slot \in Slot
    BY DEF TypeOK, Handler
  <2>2. row' \in Row
    <3>1. 0 \in 0..MaxFails /\ {} \in SUBSET BackupCode
      OBVIOUS
    <3>2. [row EXCEPT !.last = req[r].slot, !.totpFails = 0, !.totpLocked = FALSE] \in Row
      BY <2>1, <3>1, TotpColumns
    <3>3. QED
      BY <1>8, <3>2 DEF TotpAdvance, TypeOK
  <2>3. admitted' \in [slot: [Slot -> Nat], code: [BackupCode -> Nat]]
    BY <1>8, <2>1 DEF TotpAdvance, TypeOK
  <2>4. streak' \in [password: 0..MaxFails, totp: 0..MaxFails, unwritten: Nat]
    <3>1. streak \in [password: 0..MaxFails, totp: 0..MaxFails, unwritten: Nat]
      BY DEF TypeOK
    <3>2. [streak EXCEPT !.totp = 0, !.unwritten = 0] \in [password: 0..MaxFails, totp: 0..MaxFails, unwritten: Nat]
      BY <3>1, Cleared
    <3>3. QED
      BY <1>8, <3>1, <3>2 DEF TotpAdvance
  <2>5. req' \in [Request -> Handler]
    BY <1>8, <1>1, OthersKeep DEF TotpAdvance
  <2>6. QED
    BY <1>8, <2>2, <2>3, <2>4, <2>5 DEF TotpAdvance, TypeOK
<1>9. ASSUME NEW r \in Request, [req[r] EXCEPT !.at = "fail"] \in Handler, TotpConsume(r) PROVE TypeOK'
  <2>1. row' \in Row
    <3>1. 0 \in 0..MaxFails /\ row.last \in Slot /\ row.codes \ req[r].code \in SUBSET BackupCode
      BY DEF TypeOK, Row
    <3>2. [row EXCEPT !.codes = row.codes \ req[r].code, !.totpFails = 0, !.totpLocked = FALSE] \in Row
      BY <3>1, TotpColumns
    <3>3. QED
      BY <1>9, <3>2 DEF TotpConsume, TypeOK
  <2>2. admitted' \in [slot: [Slot -> Nat], code: [BackupCode -> Nat]]
    BY <1>9 DEF TotpConsume, TypeOK
  <2>3. streak' \in [password: 0..MaxFails, totp: 0..MaxFails, unwritten: Nat]
    <3>1. streak \in [password: 0..MaxFails, totp: 0..MaxFails, unwritten: Nat]
      BY DEF TypeOK
    <3>2. [streak EXCEPT !.totp = 0, !.unwritten = 0] \in [password: 0..MaxFails, totp: 0..MaxFails, unwritten: Nat]
      BY <3>1, Cleared
    <3>3. QED
      BY <1>9, <3>1, <3>2 DEF TotpConsume
  <2>4. req' \in [Request -> Handler]
    BY <1>9, <1>1, OthersKeep DEF TotpConsume
  <2>5. QED
    BY <1>9, <2>1, <2>2, <2>3, <2>4 DEF TotpConsume, TypeOK
<1>10. ASSUME NEW r \in Request, TotpFail(r) PROVE TypeOK'
  <2>1. req[r].saw \in Row
    BY DEF TypeOK, Handler
  <2>2. row' \in Row
    <3>1. req[r].saw.totpFails + 1 \in 0..MaxFails
      BY <1>10, <2>1 DEF TotpFail, Row
    <3>2. (row.totpLocked \/ req[r].saw.totpFails + 1 >= TotpLimit) \in BOOLEAN
      OBVIOUS
    <3>3. row.last \in Slot /\ {} \in SUBSET BackupCode
      BY DEF TypeOK, Row
    <3>4. QED
      BY <1>10, <3>1, <3>2, <3>3, TotpColumns DEF TotpFail
  <2>3. streak' \in [password: 0..MaxFails, totp: 0..MaxFails, unwritten: Nat]
    BY <1>10 DEF TotpFail, TypeOK
  <2>4. QED
    BY <1>10, <1>1, <2>2, <2>3 DEF TotpFail, TypeOK, Race
<1>11. ASSUME NEW r \in Request, TotpFailSwallowed(r) PROVE TypeOK'
  <2>1. streak' \in [password: 0..MaxFails, totp: 0..MaxFails, unwritten: Nat]
    <3>1. streak \in [password: 0..MaxFails, totp: 0..MaxFails, unwritten: Nat]
      BY DEF TypeOK
    <3>2. streak.unwritten + 1 \in Nat /\ streak.totp + 1 \in 0..MaxFails
      BY <1>11, <3>1 DEF TotpFailSwallowed
    <3>3. QED
      BY <1>11, <3>1, <3>2 DEF TotpFailSwallowed
  <2>2. QED
    BY <1>11, <1>1, <2>1 DEF TotpFailSwallowed, TypeOK
<1>12. ASSUME NEW r \in Request, NEW step \in {"setup", "verify", "disable", "regenerate"}
       PROVE  [Idle EXCEPT !.at = step, !.saw = Saw("enrolment")] \in Handler
  BY <1>12, IdleHandler, SawRow DEF Handler, Step, Reads
<1>13. ASSUME NEW r \in Request, SetupRead(r) PROVE TypeOK'
  BY <1>13, <1>12, Begun DEF SetupRead, TypeOK
<1>14. ASSUME NEW r \in Request, SetupWrite(r) PROVE TypeOK'
  <2>1. row' \in Row /\ made' \in [handlers: 0..MaxHandlers, secrets: 0..MaxSecrets, sets: 0..MaxSets]
    BY <1>14 DEF SetupWrite, TypeOK, Row
  <2>2. QED
    BY <1>14, <1>1, <2>1 DEF SetupWrite, TypeOK, Race
<1>15. ASSUME NEW r \in Request, VerifyRead(r) PROVE TypeOK'
  <2>1. confirmed' \subseteq 1..MaxSecrets
    BY <1>15 DEF VerifyRead, TypeOK, Row, NoSecret
  <2>2. QED
    BY <1>15, <1>12, <2>1, Begun DEF VerifyRead, TypeOK
<1>16. ASSUME NEW r \in Request, VerifyWrite(r) PROVE TypeOK'
  <2>1. made' \in [handlers: 0..MaxHandlers, secrets: 0..MaxSecrets, sets: 0..MaxSets]
    BY <1>16 DEF VerifyWrite, TypeOK
  <2>2. row' \in Row
    BY <1>16, FreshCodesType DEF VerifyWrite, TypeOK, Row
  <2>3. QED
    BY <1>16, <1>1, <2>1, <2>2 DEF VerifyWrite, TypeOK, Race
<1>17. ASSUME NEW r \in Request, DisableRead(r) PROVE TypeOK'
  BY <1>17, <1>12, Begun DEF DisableRead, TypeOK
<1>18. ASSUME NEW r \in Request, DisableWrite(r) PROVE TypeOK'
  <2>1. row' \in Row
    <3>1. NoSecret \in 0..MaxSecrets /\ {} \in SUBSET BackupCode
      BY DEF NoSecret
    <3>2. row' = [row EXCEPT !.secret = NoSecret, !.enabled = FALSE, !.codes = {}]
      BY <1>18 DEF DisableWrite
    <3>3. QED
      BY <3>1, <3>2 DEF TypeOK, Row
  <2>2. QED
    BY <1>18, <1>1, <2>1 DEF DisableWrite, TypeOK, Race
<1>19. ASSUME NEW r \in Request, RegenerateRead(r) PROVE TypeOK'
  BY <1>19, <1>12, Begun DEF RegenerateRead, TypeOK
<1>20. ASSUME NEW r \in Request, RegenerateWrite(r) PROVE TypeOK'
  <2>1. made' \in [handlers: 0..MaxHandlers, secrets: 0..MaxSecrets, sets: 0..MaxSets]
    BY <1>20 DEF RegenerateWrite, TypeOK
  <2>2. row' \in Row
    BY <1>20, FreshCodesType DEF RegenerateWrite, TypeOK, Row
  <2>3. QED
    BY <1>20, <1>1, <2>1, <2>2 DEF RegenerateWrite, TypeOK, Race
<1>21. CASE Tick
  BY <1>21 DEF Tick, TypeOK
<1>22. CASE LockEnds
  <2>1. row \in Row
    BY DEF TypeOK
  <2>2. [row EXCEPT !.locked = FALSE] \in Row /\ [row EXCEPT !.totpLocked = FALSE] \in Row
    BY <2>1 DEF Row
  <2>3. row' \in Row
    BY <1>22, <2>2 DEF LockEnds
  <2>4. QED
    BY <1>22, <2>3 DEF LockEnds, TypeOK
<1>23. CASE StagedExpires
  BY <1>23 DEF StagedExpires, TypeOK
<1>24. CASE UNCHANGED vars
  BY <1>24 DEF vars, TypeOK
<1>25. \A r \in Request : [req[r] EXCEPT !.at = "fail"] \in Handler
  <2>1. \A r \in Request : req[r] \in Handler
    BY DEF TypeOK
  <2>2. QED
    BY <2>1 DEF Handler, Step
<1>26. QED
  BY <1>2, <1>3, <1>4, <1>5, <1>6, <1>7, <1>8, <1>9, <1>10, <1>11, <1>13, <1>14, <1>15, <1>16,
     <1>17, <1>18, <1>19, <1>20, <1>21, <1>22, <1>23, <1>24, <1>25 DEF Next

\* Rows, handlers and counters keep their types.
THEOREM TypeCorrect == Spec => []TypeOK
BY TypeInit, TypeNext, PTL DEF Spec

-----------------------------------------------------------------------------
(* Single use of codes.                                                      *)

LEMMA SpendInit == Init => SpendInv
BY DEF Init, SpendInv, SpentStaysSpent, CodeLogsInOnce, FreshRow, Idle

\* A step that touches neither the counter nor the list nor what was admitted,
\* and leaves no handler about to spend a code, keeps the invariant.
LEMMA SpendKept ==
    ASSUME TypeOK, SpendInv,
           row'.last = row.last, row'.codes \subseteq row.codes, admitted' = admitted,
           made'.sets = made.sets,
           \A r \in Request :
               \/ req'[r] = req[r]
               \/ /\ req'[r].at = "advance" => req'[r].slot > req'[r].saw.last
                  /\ req'[r].at = "consume" => req'[r].code \subseteq req'[r].saw.codes
    PROVE  SpendInv'
<1>1. \A c \in Slot : admitted'.slot[c] > 0 => c <= row'.last
  BY DEF SpendInv, SpentStaysSpent
<1>2. \A b \in BackupCode : admitted'.code[b] > 0 => b \notin row'.codes /\ b[1] <= made'.sets
  BY DEF SpendInv, SpentStaysSpent
<1>3. \A b \in row'.codes : b[1] <= made'.sets
  BY DEF SpendInv, SpentStaysSpent
<1>4. \A r \in Request : /\ req'[r].at = "advance" => req'[r].slot > req'[r].saw.last
                         /\ req'[r].at = "consume" => req'[r].code \subseteq req'[r].saw.codes
  BY DEF SpendInv, SpentStaysSpent
<1>5. CodeLogsInOnce'
  BY DEF SpendInv, CodeLogsInOnce
<1>6. QED
  BY <1>1, <1>2, <1>3, <1>4, <1>5 DEF SpendInv, SpentStaysSpent

\* A new set of codes is numbered above every code that ever logged in.
LEMMA SpendFresh ==
    ASSUME TypeOK, SpendInv, NEW r \in Request, made.sets < MaxSets, Finish(r),
           row'.last = row.last, row'.codes = FreshCodes, admitted' = admitted,
           made'.sets = made.sets + 1
    PROVE  SpendInv'
<1> USE LoginGateAssumption
<1>0. made.sets \in Nat
  BY DEF TypeOK
<1>1. \A c \in Slot : admitted'.slot[c] > 0 => c <= row'.last
  BY DEF SpendInv, SpentStaysSpent
<1>2. \A b \in BackupCode : b[1] \in Int
  BY DEF BackupCode
<1>3. \A b \in BackupCode : admitted'.code[b] > 0 => b \notin row'.codes /\ b[1] <= made'.sets
  BY <1>0, <1>2, FreshCodesType DEF SpendInv, SpentStaysSpent
<1>4. \A b \in row'.codes : b[1] <= made'.sets
  BY <1>0, FreshCodesType
<1>5. \A q \in Request : /\ req'[q].at = "advance" => req'[q].slot > req'[q].saw.last
                         /\ req'[q].at = "consume" => req'[q].code \subseteq req'[q].saw.codes
  <2>1. req'[r] = Idle /\ \A q \in Request : q # r => req'[q] = req[q]
    BY IdleHandler, OthersKeep DEF Finish
  <2>2. QED
    BY <2>1 DEF Idle, SpendInv, SpentStaysSpent
<1>6. CodeLogsInOnce'
  BY DEF SpendInv, CodeLogsInOnce
<1>7. QED
  BY <1>1, <1>3, <1>4, <1>5, <1>6 DEF SpendInv, SpentStaysSpent

LEMMA SpendNext == TypeOK /\ SpendInv /\ [Next]_vars => SpendInv'
<1> SUFFICES ASSUME TypeOK, SpendInv, [Next]_vars PROVE SpendInv'
  OBVIOUS
<1> USE LoginGateAssumption
<1>1. ASSUME NEW r \in Request, Finish(r)
      PROVE  \A q \in Request : \/ req'[q] = req[q]
                                \/ /\ req'[q].at = "advance" => req'[q].slot > req'[q].saw.last
                                   /\ req'[q].at = "consume" => req'[q].code \subseteq req'[q].saw.codes
  <2>1. req'[r] = Idle /\ \A q \in Request : q # r => req'[q] = req[q]
    BY <1>1, IdleHandler, OthersKeep DEF Finish
  <2>2. QED
    BY <2>1 DEF Idle
<1>2. ASSUME NEW r \in Request, NEW h \in Handler, h.at \notin {"advance", "consume"}, Begin(r, h)
      PROVE  /\ made'.sets = made.sets
             /\ \A q \in Request : \/ req'[q] = req[q]
                                   \/ /\ req'[q].at = "advance" => req'[q].slot > req'[q].saw.last
                                      /\ req'[q].at = "consume" => req'[q].code \subseteq req'[q].saw.codes
  BY <1>2, Begun
<1>3. ASSUME NEW r \in Request, NEW step \in {"setup", "verify", "disable", "regenerate"},
             Begin(r, [Idle EXCEPT !.at = step, !.saw = Saw("enrolment")]),
             row' = row, admitted' = admitted
      PROVE  SpendInv'
  <2>1. [Idle EXCEPT !.at = step, !.saw = Saw("enrolment")] \in Handler
    BY IdleHandler, SawRow DEF Handler, Step, Reads
  <2>2. [Idle EXCEPT !.at = step, !.saw = Saw("enrolment")].at \notin {"advance", "consume"}
    BY DEF Idle
  <2>3. QED
    BY <1>2, <1>3, <2>1, <2>2, SpendKept
<1>4. ASSUME NEW r \in Request, LoginRead(r) PROVE SpendInv'
  <2>1. [Idle EXCEPT !.at = "password", !.saw = Saw("password")] \in Handler
    BY IdleHandler, SawRow DEF Handler, Step, Reads
  <2>2. [Idle EXCEPT !.at = "password", !.saw = Saw("password")].at \notin {"advance", "consume"}
    BY DEF Idle
  <2>3. QED
    BY <1>2, <1>4, <2>1, <2>2, SpendKept DEF LoginRead
<1>5. ASSUME NEW r \in Request, LoginWrong(r) PROVE SpendInv'
  <2>1. row'.last = row.last /\ row'.codes = row.codes
    BY <1>5 DEF LoginWrong, TypeOK, Row
  <2>2. QED
    BY <1>1, <1>5, <2>1, SpendKept DEF LoginWrong
<1>6. ASSUME NEW r \in Request, LoginRight(r) PROVE SpendInv'
  <2>1. row'.last = row.last /\ row'.codes = row.codes
    BY <1>6 DEF LoginRight, TypeOK, Row
  <2>2. QED
    BY <1>1, <1>6, <2>1, SpendKept DEF LoginRight
<1>7. CASE PasswordReset
  <2>1. row'.last = row.last /\ row'.codes = row.codes
    BY <1>7 DEF PasswordReset, TypeOK, Row
  <2>2. QED
    BY <1>7, <2>1, SpendKept DEF PasswordReset
<1>8. ASSUME NEW r \in Request, NEW c \in Slot, TotpReadCode(r, c) PROVE SpendInv'
  <2> DEFINE h == [Idle EXCEPT !.at = IF c <= row.last THEN "fail" ELSE "advance",
                               !.saw = Saw("slot"), !.slot = c]
  <2>1. h \in Handler
    BY IdleHandler, SawRow DEF Handler, Step, Reads
  <2>2. h.slot = c /\ h.saw.last = row.last /\ h.at \in {"fail", "advance"} /\ (h.at = "advance" => ~(c <= row.last))
    BY DEF Idle, Saw, FreshRow
  <2>3. c \in Int /\ row.last \in Int
    BY DEF TypeOK, Row, Slot
  <2>4. Begin(r, h) /\ row' = row /\ admitted' = admitted
    BY <1>8 DEF TotpReadCode
  <2> HIDE DEF h
  <2>5. h.at = "advance" => h.slot > h.saw.last
    BY <2>2, <2>3
  <2>6. QED
    BY <2>1, <2>2, <2>4, <2>5, Begun, SpendKept
<1>9. ASSUME NEW r \in Request, NEW b \in BackupCode, TotpReadBackup(r, b) PROVE SpendInv'
  <2> DEFINE h == [Idle EXCEPT !.at = IF b \in row.codes THEN "consume" ELSE "fail",
                               !.saw = Saw("code"), !.code = {b}]
  <2>1. h \in Handler
    BY IdleHandler, SawRow DEF Handler, Step, Reads
  <2>2. h.code = {b} /\ h.saw.codes = row.codes /\ h.at \in {"fail", "consume"} /\ (h.at = "consume" => b \in row.codes)
    BY DEF Idle, Saw, FreshRow
  <2>3. Begin(r, h) /\ row' = row /\ admitted' = admitted
    BY <1>9 DEF TotpReadBackup
  <2> HIDE DEF h
  <2>4. QED
    BY <2>1, <2>2, <2>3, Begun, SpendKept
<1>10. ASSUME NEW r \in Request, TotpAdvance(r) PROVE SpendInv'
  <2>0. [req[r] EXCEPT !.at = "fail"] \in Handler /\ [req[r] EXCEPT !.at = "fail"].at = "fail"
    <3>1. req[r] \in Handler
      BY DEF TypeOK
    <3>2. QED
      BY <3>1 DEF Handler, Step
  <2>1. CASE row.last # req[r].saw.last
    <3>1. Run(r, [req[r] EXCEPT !.at = "fail"]) /\ row' = row /\ admitted' = admitted /\ made' = made
      BY <1>10, <2>1 DEF TotpAdvance
    <3>2. QED
      BY <2>0, <3>1, OthersKeep, SpendKept
  <2>2. CASE row.last = req[r].saw.last
    <3>1. /\ row' = [row EXCEPT !.last = req[r].slot, !.totpFails = 0, !.totpLocked = FALSE]
          /\ admitted' = [admitted EXCEPT !.slot[req[r].slot] = @ + 1]
          /\ Finish(r) /\ made' = made
      BY <1>10, <2>2 DEF TotpAdvance
    <3>2. req[r].slot \in Slot /\ row.last \in Slot /\ \A c \in Slot : c \in Int
      <4>1. req[r].slot \in Slot
        BY DEF TypeOK, Handler
      <4>2. row.last \in Slot
        BY DEF TypeOK, Row
      <4>3. QED
        BY <4>1, <4>2 DEF Slot
    <3>3. req[r].slot > row.last
      BY <1>10, <2>2 DEF SpendInv, SpentStaysSpent, TotpAdvance
    <3>4. row'.last = req[r].slot /\ row'.codes = row.codes
      BY <3>1 DEF TypeOK, Row
    <3>5. /\ admitted'.code = admitted.code
          /\ \A c \in Slot : admitted'.slot[c] = IF c = req[r].slot THEN admitted.slot[c] + 1 ELSE admitted.slot[c]
      BY <3>1, <3>2 DEF TypeOK
    <3>6. \A c \in Slot : admitted.slot[c] \in Nat
      BY DEF TypeOK
    <3>7. admitted.slot[req[r].slot] = 0
      BY <3>2, <3>3, <3>6 DEF SpendInv, SpentStaysSpent
    <3>8. \A c \in Slot : admitted'.slot[c] <= 1 /\ (admitted'.slot[c] > 0 => c <= row'.last)
      <4> SUFFICES ASSUME NEW c \in Slot
                   PROVE  admitted'.slot[c] <= 1 /\ (admitted'.slot[c] > 0 => c <= row'.last)
        OBVIOUS
      <4>1. CASE c = req[r].slot
        BY <4>1, <3>2, <3>4, <3>5, <3>7
      <4>2. CASE c # req[r].slot
        <5>1. admitted'.slot[c] = admitted.slot[c]
          BY <4>2, <3>5
        <5>2. admitted.slot[c] <= 1 /\ (admitted.slot[c] > 0 => c <= row.last)
          BY DEF SpendInv, SpentStaysSpent, CodeLogsInOnce
        <5>3. QED
          BY <5>1, <5>2, <3>2, <3>3, <3>4
      <4>3. QED
        BY <4>1, <4>2
    <3>9. req'[r] = Idle /\ \A q \in Request : q # r => req'[q] = req[q]
      BY <3>1, IdleHandler, OthersKeep DEF Finish
    <3>10. \A q \in Request : /\ req'[q].at = "advance" => req'[q].slot > req'[q].saw.last
                              /\ req'[q].at = "consume" => req'[q].code \subseteq req'[q].saw.codes
      BY <3>9 DEF Idle, SpendInv, SpentStaysSpent
    <3>11. QED
      BY <3>1, <3>4, <3>5, <3>8, <3>10 DEF SpendInv, SpentStaysSpent, CodeLogsInOnce
  <2>3. QED
    BY <2>1, <2>2
<1>11. ASSUME NEW r \in Request, TotpConsume(r) PROVE SpendInv'
  <2>0. [req[r] EXCEPT !.at = "fail"] \in Handler /\ [req[r] EXCEPT !.at = "fail"].at = "fail"
    <3>1. req[r] \in Handler
      BY DEF TypeOK
    <3>2. QED
      BY <3>1 DEF Handler, Step
  <2>1. CASE row.codes # req[r].saw.codes
    <3>1. Run(r, [req[r] EXCEPT !.at = "fail"]) /\ row' = row /\ admitted' = admitted /\ made' = made
      BY <1>11, <2>1 DEF TotpConsume
    <3>2. QED
      BY <2>0, <3>1, OthersKeep, SpendKept
  <2>2. CASE row.codes = req[r].saw.codes
    <3>1. /\ row' = [row EXCEPT !.codes = @ \ req[r].code, !.totpFails = 0, !.totpLocked = FALSE]
          /\ admitted' = [admitted EXCEPT !.code = [b \in BackupCode |->
                               IF b \in req[r].code THEN admitted.code[b] + 1 ELSE admitted.code[b]]]
          /\ Finish(r) /\ made' = made
      BY <1>11, <2>2 DEF TotpConsume
    <3>2. row'.last = row.last /\ row'.codes = row.codes \ req[r].code
      BY <3>1 DEF TypeOK, Row
    <3>3. /\ admitted'.slot = admitted.slot
          /\ \A b \in BackupCode : admitted'.code[b] =
                 IF b \in req[r].code THEN admitted.code[b] + 1 ELSE admitted.code[b]
      BY <3>1 DEF TypeOK
    <3>4. \A b \in BackupCode : admitted.code[b] \in Nat
      BY DEF TypeOK
    <3>5. req[r].code \subseteq row.codes
      BY <1>11, <2>2 DEF SpendInv, SpentStaysSpent, TotpConsume
    <3>6. \A b \in BackupCode : /\ admitted'.code[b] <= 1
                                /\ admitted'.code[b] > 0 => b \notin row'.codes /\ b[1] <= made.sets
      BY <3>2, <3>3, <3>4, <3>5 DEF SpendInv, SpentStaysSpent, CodeLogsInOnce
    <3>7. req'[r] = Idle /\ \A q \in Request : q # r => req'[q] = req[q]
      BY <3>1, IdleHandler, OthersKeep DEF Finish
    <3>8. \A q \in Request : /\ req'[q].at = "advance" => req'[q].slot > req'[q].saw.last
                             /\ req'[q].at = "consume" => req'[q].code \subseteq req'[q].saw.codes
      BY <3>7 DEF Idle, SpendInv, SpentStaysSpent
    <3>9. QED
      BY <3>1, <3>2, <3>3, <3>6, <3>8 DEF SpendInv, SpentStaysSpent, CodeLogsInOnce
  <2>3. QED
    BY <2>1, <2>2
<1>12. ASSUME NEW r \in Request, TotpFail(r) PROVE SpendInv'
  <2>1. row'.last = row.last /\ row'.codes = row.codes
    BY <1>12 DEF TotpFail, TypeOK, Row
  <2>2. QED
    BY <1>1, <1>12, <2>1, SpendKept DEF TotpFail
<1>13. ASSUME NEW r \in Request, TotpFailSwallowed(r) PROVE SpendInv'
  BY <1>1, <1>13, SpendKept DEF TotpFailSwallowed
<1>14. ASSUME NEW r \in Request, SetupRead(r) PROVE SpendInv'
  BY <1>3, <1>14 DEF SetupRead
<1>15. ASSUME NEW r \in Request, SetupWrite(r) PROVE SpendInv'
  <2>1. row'.last = row.last /\ row'.codes = row.codes /\ made'.sets = made.sets
    BY <1>15 DEF SetupWrite, TypeOK, Row
  <2>2. QED
    BY <1>1, <1>15, <2>1, SpendKept DEF SetupWrite
<1>16. ASSUME NEW r \in Request, VerifyRead(r) PROVE SpendInv'
  BY <1>3, <1>16 DEF VerifyRead
<1>17. ASSUME NEW r \in Request, VerifyWrite(r) PROVE SpendInv'
  <2>1. row'.last = row.last /\ row'.codes = FreshCodes /\ made'.sets = made.sets + 1
    BY <1>17 DEF VerifyWrite, TypeOK, Row
  <2>2. QED
    BY <1>17, <2>1, SpendFresh DEF VerifyWrite
<1>18. ASSUME NEW r \in Request, DisableRead(r) PROVE SpendInv'
  BY <1>3, <1>18 DEF DisableRead
<1>19. ASSUME NEW r \in Request, DisableWrite(r) PROVE SpendInv'
  <2>1. row'.last = row.last /\ row'.codes = {}
    BY <1>19 DEF DisableWrite, TypeOK, Row
  <2>2. QED
    BY <1>1, <1>19, <2>1, SpendKept DEF DisableWrite
<1>20. ASSUME NEW r \in Request, RegenerateRead(r) PROVE SpendInv'
  BY <1>3, <1>20 DEF RegenerateRead
<1>21. ASSUME NEW r \in Request, RegenerateWrite(r) PROVE SpendInv'
  <2>1. row'.last = row.last /\ row'.codes = FreshCodes /\ made'.sets = made.sets + 1
    BY <1>21 DEF RegenerateWrite, TypeOK, Row
  <2>2. QED
    BY <1>21, <2>1, SpendFresh DEF RegenerateWrite
<1>22. CASE LockEnds
  <2>1. row'.last = row.last /\ row'.codes = row.codes
    BY <1>22 DEF LockEnds, TypeOK, Row
  <2>2. QED
    BY <1>22, <2>1, SpendKept DEF LockEnds
<1>23. CASE Tick \/ StagedExpires \/ UNCHANGED vars
  BY <1>23, SpendKept DEF Tick, StagedExpires, vars
<1>24. QED
  BY <1>4, <1>5, <1>6, <1>7, <1>8, <1>9, <1>10, <1>11, <1>12, <1>13, <1>14, <1>15, <1>16, <1>17,
     <1>18, <1>19, <1>20, <1>21, <1>22, <1>23 DEF Next

\* However many second steps run at once, each slot's code and each backup code
\* ends in at most one session.
THEOREM CodesAreSingleUse == Spec => []CodeLogsInOnce
<1>1. Init => TypeOK /\ SpendInv
  BY TypeInit, SpendInit
<1>2. TypeOK /\ SpendInv /\ [Next]_vars => (TypeOK /\ SpendInv)'
  BY TypeNext, SpendNext
<1>3. SpendInv => CodeLogsInOnce
  BY DEF SpendInv
<1>4. QED
  BY <1>1, <1>2, <1>3, PTL DEF Spec

-----------------------------------------------------------------------------
(* Counting of failures.                                                     *)

LEMMA CountInit == Init => FailuresAreCounted
BY DEF Init, FailuresAreCounted, FreshRow

\* A step that leaves the counters alone keeps them exact, whatever else it does;
\* a lock may only have ended.
LEMMA CountKept ==
    ASSUME FailuresAreCounted, raced \subseteq raced', streak' = streak,
           row'.fails = row.fails, row'.totpFails = row.totpFails,
           row'.locked => row.locked, row'.totpLocked => row.totpLocked
    PROVE  FailuresAreCounted'
BY DEF FailuresAreCounted

LEMMA CountNext == TypeOK /\ FailuresAreCounted /\ [Next]_vars => FailuresAreCounted'
<1> SUFFICES ASSUME TypeOK, FailuresAreCounted, [Next]_vars PROVE FailuresAreCounted'
  OBVIOUS
<1> USE LoginGateAssumption
<1>0. row \in Row
  BY DEF TypeOK
<1>1. ASSUME NEW r \in Request, LoginRead(r) PROVE FailuresAreCounted'
  BY <1>1, CountKept DEF LoginRead
<1>2. ASSUME NEW r \in Request, LoginWrong(r) PROVE FailuresAreCounted'
  <2> DEFINE next == req[r].saw.fails + 1
  <2>1. /\ row'.fails = next /\ row'.locked = (next >= LoginLimit)
        /\ row'.totpFails = row.totpFails /\ row'.totpLocked = row.totpLocked
    BY <1>2 DEF LoginWrong, TypeOK, Row
  <2>2. streak'.password = streak.password + 1 /\ streak'.totp = streak.totp /\ streak'.unwritten = streak.unwritten
    BY <1>2 DEF LoginWrong, TypeOK
  <2>3. /\ "totp" \in raced' <=> "totp" \in raced
        /\ "password" \notin raced' => "password" \notin raced /\ row.fails = req[r].saw.fails
    BY <1>2 DEF LoginWrong, Race
  <2> HIDE DEF next
  <2>4. "password" \notin raced' => next = streak.password + 1
    BY <2>3 DEF next, FailuresAreCounted
  <2>5. QED
    BY <2>1, <2>2, <2>3, <2>4 DEF FailuresAreCounted
<1>3. ASSUME NEW r \in Request, LoginRight(r) PROVE FailuresAreCounted'
  <2>1. row'.totpFails = row.totpFails /\ row'.totpLocked = row.totpLocked
    BY <1>3 DEF LoginRight, TypeOK, Row
  <2>2. streak'.password = 0 /\ streak'.totp = streak.totp /\ streak'.unwritten = streak.unwritten
    BY <1>3 DEF LoginRight, TypeOK
  <2>3. /\ "totp" \in raced' <=> "totp" \in raced
        /\ "password" \notin raced' => row'.fails = 0 /\ ~row'.locked
    <3>1. CASE req[r].saw.fails > 0
      BY <1>3, <3>1 DEF LoginRight, Race, TypeOK, Row
    <3>2. CASE ~(req[r].saw.fails > 0)
      BY <1>3, <3>2 DEF LoginRight, Race
    <3>3. QED
      BY <3>1, <3>2
  <2>4. QED
    BY <2>1, <2>2, <2>3 DEF FailuresAreCounted
<1>4. CASE PasswordReset
  <2>1. row'.fails = 0 /\ ~row'.locked /\ row'.totpFails = row.totpFails /\ row'.totpLocked = row.totpLocked
    BY <1>4 DEF PasswordReset, TypeOK, Row
  <2>2. streak'.password = 0 /\ streak'.totp = streak.totp /\ streak'.unwritten = streak.unwritten /\ raced' = raced
    BY <1>4 DEF PasswordReset, TypeOK
  <2>3. QED
    BY <2>1, <2>2 DEF FailuresAreCounted
<1>5. ASSUME NEW r \in Request, NEW c \in Slot, TotpReadCode(r, c) PROVE FailuresAreCounted'
  BY <1>5, CountKept DEF TotpReadCode
<1>6. ASSUME NEW r \in Request, NEW b \in BackupCode, TotpReadBackup(r, b) PROVE FailuresAreCounted'
  BY <1>6, CountKept DEF TotpReadBackup
<1>7. ASSUME row'.fails = row.fails, row'.locked = row.locked, row'.totpFails = 0, ~row'.totpLocked,
             streak' = [streak EXCEPT !.totp = 0, !.unwritten = 0], raced' = raced
      PROVE  FailuresAreCounted'
  <2>1. streak'.totp = 0 /\ streak'.unwritten = 0 /\ streak'.password = streak.password
    BY <1>7 DEF TypeOK
  <2>2. QED
    BY <1>7, <2>1 DEF FailuresAreCounted
<1>8. ASSUME NEW r \in Request, TotpAdvance(r) PROVE FailuresAreCounted'
  <2>1. CASE row.last = req[r].saw.last
    <3>1. row'.fails = row.fails /\ row'.locked = row.locked /\ row'.totpFails = 0 /\ ~row'.totpLocked
      <4>1. row' = [row EXCEPT !.last = req[r].slot, !.totpFails = 0, !.totpLocked = FALSE]
        BY <1>8, <2>1 DEF TotpAdvance
      <4>2. QED
        BY <1>0, <4>1 DEF Row
    <3>2. QED
      BY <1>7, <1>8, <2>1, <3>1 DEF TotpAdvance
  <2>2. CASE row.last # req[r].saw.last
    BY <1>8, <2>2, CountKept DEF TotpAdvance
  <2>3. QED
    BY <2>1, <2>2
<1>9. ASSUME NEW r \in Request, TotpConsume(r) PROVE FailuresAreCounted'
  <2>1. CASE row.codes = req[r].saw.codes
    <3>1. row'.fails = row.fails /\ row'.locked = row.locked /\ row'.totpFails = 0 /\ ~row'.totpLocked
      <4>1. row' = [row EXCEPT !.codes = @ \ req[r].code, !.totpFails = 0, !.totpLocked = FALSE]
        BY <1>9, <2>1 DEF TotpConsume
      <4>2. QED
        BY <1>0, <4>1 DEF Row
    <3>2. QED
      BY <1>7, <1>9, <2>1, <3>1 DEF TotpConsume
  <2>2. CASE row.codes # req[r].saw.codes
    BY <1>9, <2>2, CountKept DEF TotpConsume
  <2>3. QED
    BY <2>1, <2>2
<1>10. ASSUME NEW r \in Request, TotpFail(r) PROVE FailuresAreCounted'
  <2> DEFINE next == req[r].saw.totpFails + 1
  <2>0. req[r].saw.totpFails \in Int
    BY DEF TypeOK, Handler, Row
  <2>1. /\ row'.totpFails = next /\ row'.totpLocked = (row.totpLocked \/ next >= TotpLimit)
        /\ row'.fails = row.fails /\ row'.locked = row.locked
    BY <1>10 DEF TotpFail, TypeOK, Row
  <2>2. streak'.totp = streak.totp + 1 /\ streak'.password = streak.password /\ streak'.unwritten = streak.unwritten
    BY <1>10 DEF TotpFail, TypeOK
  <2>3. /\ "password" \in raced' <=> "password" \in raced
        /\ "totp" \notin raced' => "totp" \notin raced /\ row.totpFails = req[r].saw.totpFails
    BY <1>10 DEF TotpFail, Race
  <2>4. "totp" \notin raced' => row'.totpFails + streak'.unwritten = streak'.totp
    <3>1. row.totpFails \in Nat /\ streak.unwritten \in Nat /\ streak.totp \in Nat
      BY DEF TypeOK, Row
    <3>2. "totp" \notin raced' =>
             req[r].saw.totpFails = row.totpFails /\ row.totpFails + streak.unwritten = streak.totp
      BY <2>3 DEF FailuresAreCounted
    <3>3. QED
      BY <2>1, <2>2, <3>1, <3>2
  <2>5. "totp" \notin raced' => (row'.totpLocked => row'.totpFails >= TotpLimit)
    <3>1. row'.totpLocked => row.totpLocked \/ row'.totpFails >= TotpLimit
      BY <2>1
    <3>2. ASSUME "totp" \notin raced', row.totpLocked PROVE row'.totpFails >= TotpLimit
      <4>1. req[r].saw.totpFails >= TotpLimit
        BY <2>3, <3>2 DEF FailuresAreCounted
      <4>2. QED
        BY <2>0, <2>1, <4>1
    <3>3. QED
      BY <3>1, <3>2
  <2>6. QED
    BY <2>1, <2>2, <2>3, <2>4, <2>5 DEF FailuresAreCounted
<1>11. ASSUME NEW r \in Request, TotpFailSwallowed(r) PROVE FailuresAreCounted'
  <2>1. /\ streak'.totp = streak.totp + 1 /\ streak'.unwritten = streak.unwritten + 1
        /\ streak'.password = streak.password
    BY <1>11 DEF TotpFailSwallowed, TypeOK
  <2>2. row.totpFails \in Nat /\ streak.unwritten \in Nat /\ streak.totp \in Nat
    BY DEF TypeOK, Row
  <2>3. row.totpFails + streak.unwritten = streak.totp =>
           row.totpFails + streak'.unwritten = streak'.totp
    BY <2>1, <2>2
  <2>4. UNCHANGED <<row, raced>>
    BY <1>11 DEF TotpFailSwallowed
  <2>5. QED
    BY <2>1, <2>3, <2>4 DEF FailuresAreCounted
<1>12. ASSUME NEW r \in Request, SetupRead(r) \/ VerifyRead(r) \/ DisableRead(r) \/ RegenerateRead(r)
       PROVE  FailuresAreCounted'
  BY <1>12, CountKept DEF SetupRead, VerifyRead, DisableRead, RegenerateRead
<1>13. ASSUME NEW r \in Request, SetupWrite(r) \/ VerifyWrite(r) \/ DisableWrite(r) \/ RegenerateWrite(r)
       PROVE  FailuresAreCounted'
  <2>1. /\ row'.fails = row.fails /\ row'.totpFails = row.totpFails
        /\ row'.locked = row.locked /\ row'.totpLocked = row.totpLocked
    <3>1. CASE SetupWrite(r)
      <4>1. row' = [row EXCEPT !.secret = made.secrets + 1]
        BY <3>1 DEF SetupWrite
      <4>2. QED
        BY <1>0, <4>1 DEF Row
    <3>2. CASE VerifyWrite(r)
      <4>1. row' = [row EXCEPT !.enabled = TRUE, !.codes = FreshCodes]
        BY <3>2 DEF VerifyWrite
      <4>2. QED
        BY <1>0, <4>1 DEF Row
    <3>3. CASE DisableWrite(r)
      <4>1. row' = [row EXCEPT !.secret = NoSecret, !.enabled = FALSE, !.codes = {}]
        BY <3>3 DEF DisableWrite
      <4>2. QED
        BY <1>0, <4>1 DEF Row
    <3>4. CASE RegenerateWrite(r)
      <4>1. row' = [row EXCEPT !.codes = FreshCodes]
        BY <3>4 DEF RegenerateWrite
      <4>2. QED
        BY <1>0, <4>1 DEF Row
    <3>5. QED
      BY <1>13, <3>1, <3>2, <3>3, <3>4
  <2>2. raced \subseteq raced' /\ streak' = streak
    BY <1>13 DEF SetupWrite, VerifyWrite, DisableWrite, RegenerateWrite, Race
  <2>3. QED
    BY <2>1, <2>2, CountKept
<1>14. CASE LockEnds
  <2>1. /\ row'.fails = row.fails /\ row'.totpFails = row.totpFails
        /\ (row'.locked => row.locked)
        /\ (row'.totpLocked => row.totpLocked)
    BY <1>14 DEF LockEnds, TypeOK, Row
  <2>2. QED
    BY <1>14, <2>1, CountKept DEF LockEnds
<1>15. CASE Tick \/ StagedExpires \/ UNCHANGED vars
  BY <1>15, CountKept DEF Tick, StagedExpires, vars
<1>16. QED
  BY <1>1, <1>2, <1>3, <1>4, <1>5, <1>6, <1>8, <1>9, <1>10, <1>11, <1>12, <1>13, <1>14, <1>15 DEF Next

\* As long as no counter was written from an outdated read, both counters count
\* every failure since they were cleared but those whose own write failed, and a
\* lock stands only at its threshold.
THEOREM CountersAreExact == Spec => []FailuresAreCounted
<1>1. Init => TypeOK /\ FailuresAreCounted
  BY TypeInit, CountInit
<1>2. TypeOK /\ FailuresAreCounted /\ [Next]_vars => (TypeOK /\ FailuresAreCounted)'
  BY TypeNext, CountNext
<1>3. QED
  BY <1>1, <1>2, PTL DEF Spec

-----------------------------------------------------------------------------
(* Enrolment.                                                                *)

LEMMA EnrolInit == Init => EnrolInv
BY DEF Init, EnrolInv, EnrolmentReads, EnrolledIsUsable, FreshRow, Idle

\* A step that leaves the enrolment columns alone, or only spends backup codes.
LEMMA EnrolKept ==
    ASSUME EnrolInv, raced \subseteq raced', confirmed \subseteq confirmed',
           row'.enabled = row.enabled, row'.secret = row.secret, row'.codes \subseteq row.codes,
           \A r \in Request :
               \/ req'[r] = req[r]
               \/ /\ req'[r].at = "setup" => ~req'[r].saw.enabled
                  /\ req'[r].at = "verify" => req'[r].saw.secret \in confirmed'
                  /\ req'[r].at = "regenerate" => req'[r].saw.enabled
    PROVE  EnrolInv'
<1>1. EnrolmentReads'
  BY DEF EnrolInv, EnrolmentReads
<1>2. EnrolledIsUsable'
  BY DEF EnrolInv, EnrolledIsUsable
<1>3. QED
  BY <1>1, <1>2 DEF EnrolInv

LEMMA EnrolNext == TypeOK /\ EnrolInv /\ [Next]_vars => EnrolInv'
<1> SUFFICES ASSUME TypeOK, EnrolInv, [Next]_vars PROVE EnrolInv'
  OBVIOUS
<1> USE LoginGateAssumption
<1> DEFINE Good(q) == /\ req'[q].at = "setup" => ~req'[q].saw.enabled
                      /\ req'[q].at = "verify" => req'[q].saw.secret \in confirmed'
                      /\ req'[q].at = "regenerate" => req'[q].saw.enabled
<1>1. ASSUME NEW r \in Request, Finish(r) PROVE \A q \in Request : req'[q] = req[q] \/ Good(q)
  <2>1. req'[r] = Idle /\ \A q \in Request : q # r => req'[q] = req[q]
    BY <1>1, IdleHandler, OthersKeep DEF Finish
  <2>2. QED
    BY <2>1 DEF Idle
<1>2. ASSUME NEW r \in Request, NEW h \in Handler, h.at \notin {"setup", "verify", "regenerate"}, Run(r, h)
      PROVE  \A q \in Request : req'[q] = req[q] \/ Good(q)
  BY <1>2, OthersKeep
<1>3. ASSUME NEW r \in Request, LoginRead(r) PROVE EnrolInv'
  <2> DEFINE h == [Idle EXCEPT !.at = "password", !.saw = Saw("password")]
  <2>1. h \in Handler
    BY IdleHandler, SawRow DEF Handler, Step, Reads
  <2>2. h.at = "password" /\ Run(r, h)
    BY <1>3 DEF Idle, LoginRead, Begin
  <2>3. QED
    BY <1>2, <1>3, <2>1, <2>2, EnrolKept DEF LoginRead
<1>4. ASSUME NEW r \in Request, NEW c \in Slot, TotpReadCode(r, c) PROVE EnrolInv'
  <2> DEFINE h == [Idle EXCEPT !.at = IF c <= row.last THEN "fail" ELSE "advance",
                               !.saw = Saw("slot"), !.slot = c]
  <2>1. h \in Handler
    BY IdleHandler, SawRow DEF Handler, Step, Reads
  <2>2. h.at \in {"fail", "advance"} /\ Run(r, h)
    BY <1>4 DEF Idle, TotpReadCode, Begin
  <2>3. QED
    BY <1>2, <1>4, <2>1, <2>2, EnrolKept DEF TotpReadCode
<1>5. ASSUME NEW r \in Request, NEW b \in BackupCode, TotpReadBackup(r, b) PROVE EnrolInv'
  <2> DEFINE h == [Idle EXCEPT !.at = IF b \in row.codes THEN "consume" ELSE "fail",
                               !.saw = Saw("code"), !.code = {b}]
  <2>1. h \in Handler
    BY IdleHandler, SawRow DEF Handler, Step, Reads
  <2>2. h.at \in {"fail", "consume"} /\ Run(r, h)
    BY <1>5 DEF Idle, TotpReadBackup, Begin
  <2>3. QED
    BY <1>2, <1>5, <2>1, <2>2, EnrolKept DEF TotpReadBackup
<1>6. ASSUME NEW r \in Request, LoginWrong(r) \/ LoginRight(r) \/ TotpFail(r) \/ TotpFailSwallowed(r)
      PROVE  EnrolInv'
  <2>1. row'.enabled = row.enabled /\ row'.secret = row.secret /\ row'.codes = row.codes
    <3>1. CASE LoginWrong(r)
      BY <3>1 DEF LoginWrong, TypeOK, Row
    <3>2. CASE LoginRight(r)
      BY <3>2 DEF LoginRight, TypeOK, Row
    <3>3. CASE TotpFail(r)
      BY <3>3 DEF TotpFail, TypeOK, Row
    <3>4. QED
      BY <1>6, <3>1, <3>2, <3>3 DEF TotpFailSwallowed
  <2>2. raced \subseteq raced' /\ confirmed' = confirmed /\ Finish(r)
    BY <1>6 DEF LoginWrong, LoginRight, TotpFail, TotpFailSwallowed, Race
  <2>3. QED
    BY <1>1, <2>1, <2>2, EnrolKept
<1>7. ASSUME NEW r \in Request, TotpAdvance(r) \/ TotpConsume(r) PROVE EnrolInv'
  <2>1. row'.enabled = row.enabled /\ row'.secret = row.secret /\ row'.codes \subseteq row.codes
    <3>1. CASE TotpAdvance(r)
      <4>1. row' = row \/ row' = [row EXCEPT !.last = req[r].slot, !.totpFails = 0, !.totpLocked = FALSE]
        BY <3>1 DEF TotpAdvance
      <4>2. row \in Row
        BY DEF TypeOK
      <4>3. QED
        BY <4>1, <4>2 DEF Row
    <3>2. CASE TotpConsume(r)
      <4>1. row' = row \/ row' = [row EXCEPT !.codes = @ \ req[r].code, !.totpFails = 0, !.totpLocked = FALSE]
        BY <3>2 DEF TotpConsume
      <4>2. CASE row' = [row EXCEPT !.codes = @ \ req[r].code, !.totpFails = 0, !.totpLocked = FALSE]
        <5>1. row'.enabled = row.enabled /\ row'.secret = row.secret
          BY <4>2 DEF TypeOK, Row
        <5>2. row'.codes = row.codes \ req[r].code
          BY <4>2 DEF TypeOK, Row
        <5>3. QED
          BY <5>1, <5>2
      <4>3. QED
        BY <4>1, <4>2
    <3>3. QED
      BY <1>7, <3>1, <3>2
  <2>2. [req[r] EXCEPT !.at = "fail"] \in Handler /\ [req[r] EXCEPT !.at = "fail"].at = "fail"
    <3>1. req[r] \in Handler
      BY DEF TypeOK
    <3>2. QED
      BY <3>1 DEF Handler, Step
  <2>3. \A q \in Request : req'[q] = req[q] \/ Good(q)
    <3>1. Finish(r) \/ Run(r, [req[r] EXCEPT !.at = "fail"])
      BY <1>7 DEF TotpAdvance, TotpConsume
    <3>2. QED
      BY <1>1, <1>2, <2>2, <3>1
  <2>4. raced' = raced /\ confirmed' = confirmed
    BY <1>7 DEF TotpAdvance, TotpConsume
  <2>5. QED
    BY <2>1, <2>3, <2>4, EnrolKept
<1>8. ASSUME NEW r \in Request, SetupRead(r) PROVE EnrolInv'
  <2> DEFINE h == [Idle EXCEPT !.at = "setup", !.saw = Saw("enrolment")]
  <2>1. h \in Handler
    BY IdleHandler, SawRow DEF Handler, Step, Reads
  <2>2. h.at = "setup" /\ h.saw.enabled = row.enabled /\ ~row.enabled /\ Run(r, h)
    BY <1>8 DEF Idle, Saw, FreshRow, SetupRead, Begin
  <2>3. \A q \in Request : req'[q] = req[q] \/ Good(q)
    BY <2>1, <2>2, OthersKeep
  <2>4. QED
    BY <1>8, <2>3, EnrolKept DEF SetupRead
<1>9. ASSUME NEW r \in Request, VerifyRead(r) PROVE EnrolInv'
  <2> DEFINE h == [Idle EXCEPT !.at = "verify", !.saw = Saw("enrolment")]
  <2>1. h \in Handler
    BY IdleHandler, SawRow DEF Handler, Step, Reads
  <2>2. h.at = "verify" /\ h.saw.secret = row.secret /\ row.secret \in confirmed' /\ Run(r, h)
    BY <1>9 DEF Idle, Saw, FreshRow, VerifyRead, Begin
  <2>3. \A q \in Request : req'[q] = req[q] \/ Good(q)
    BY <2>1, <2>2, OthersKeep
  <2>4. QED
    BY <1>9, <2>3, EnrolKept DEF VerifyRead
<1>10. ASSUME NEW r \in Request, DisableRead(r) PROVE EnrolInv'
  <2> DEFINE h == [Idle EXCEPT !.at = "disable", !.saw = Saw("enrolment")]
  <2>1. h \in Handler
    BY IdleHandler, SawRow DEF Handler, Step, Reads
  <2>2. h.at = "disable" /\ Run(r, h)
    BY <1>10 DEF Idle, DisableRead, Begin
  <2>3. QED
    BY <1>2, <1>10, <2>1, <2>2, EnrolKept DEF DisableRead
<1>11. ASSUME NEW r \in Request, RegenerateRead(r) PROVE EnrolInv'
  <2> DEFINE h == [Idle EXCEPT !.at = "regenerate", !.saw = Saw("enrolment")]
  <2>1. h \in Handler
    BY IdleHandler, SawRow DEF Handler, Step, Reads
  <2>2. h.at = "regenerate" /\ h.saw.enabled = row.enabled /\ row.enabled /\ Run(r, h)
    BY <1>11 DEF Idle, Saw, FreshRow, RegenerateRead, Begin
  <2>3. \A q \in Request : req'[q] = req[q] \/ Good(q)
    BY <2>1, <2>2, OthersKeep
  <2>4. QED
    BY <1>11, <2>3, EnrolKept DEF RegenerateRead
<1>12. ASSUME NEW r \in Request, Finish(r), confirmed' = confirmed PROVE EnrolmentReads'
  BY <1>1, <1>12 DEF EnrolInv, EnrolmentReads
<1>13. ASSUME NEW r \in Request, Race("enrolment", Outdated(r)), "enrolment" \notin raced'
       PROVE  row.enabled = req[r].saw.enabled /\ row.secret = req[r].saw.secret /\ "enrolment" \notin raced
  BY <1>13 DEF Race, Outdated
<1>14. ASSUME NEW r \in Request, SetupWrite(r) PROVE EnrolInv'
  <2>1. row'.enabled = row.enabled /\ row'.codes = row.codes
    BY <1>14 DEF SetupWrite, TypeOK, Row
  <2>2. ~req[r].saw.enabled
    BY <1>14 DEF SetupWrite, EnrolInv, EnrolmentReads
  <2>3. EnrolledIsUsable'
    BY <1>13, <1>14, <2>1, <2>2 DEF SetupWrite, EnrolInv, EnrolledIsUsable
  <2>4. QED
    BY <1>12, <1>14, <2>3 DEF SetupWrite, EnrolInv
<1>15. ASSUME NEW r \in Request, VerifyWrite(r) PROVE EnrolInv'
  <2>1. row'.enabled /\ row'.secret = row.secret
    BY <1>15 DEF VerifyWrite, TypeOK, Row
  <2>2. req[r].saw.secret \in confirmed
    BY <1>15 DEF VerifyWrite, EnrolInv, EnrolmentReads
  <2>3. EnrolledIsUsable'
    BY <1>13, <1>15, <2>1, <2>2 DEF VerifyWrite, EnrolledIsUsable
  <2>4. QED
    BY <1>12, <1>15, <2>3 DEF VerifyWrite, EnrolInv
<1>16. ASSUME NEW r \in Request, DisableWrite(r) PROVE EnrolInv'
  <2>1. ~row'.enabled /\ row'.codes = {}
    BY <1>16 DEF DisableWrite, TypeOK, Row
  <2>2. EnrolledIsUsable'
    BY <2>1 DEF EnrolledIsUsable
  <2>3. QED
    BY <1>12, <1>16, <2>2 DEF DisableWrite, EnrolInv
<1>17. ASSUME NEW r \in Request, RegenerateWrite(r) PROVE EnrolInv'
  <2>1. row'.enabled = row.enabled /\ row'.secret = row.secret
    BY <1>17 DEF RegenerateWrite, TypeOK, Row
  <2>2. req[r].saw.enabled
    BY <1>17 DEF RegenerateWrite, EnrolInv, EnrolmentReads
  <2>3. EnrolledIsUsable'
    BY <1>13, <1>17, <2>1, <2>2 DEF RegenerateWrite, EnrolInv, EnrolledIsUsable
  <2>4. QED
    BY <1>12, <1>17, <2>3 DEF RegenerateWrite, EnrolInv
<1>18. CASE PasswordReset \/ LockEnds
  <2>1. row'.enabled = row.enabled /\ row'.secret = row.secret /\ row'.codes = row.codes
    <3>1. CASE PasswordReset
      <4>1. row' = [row EXCEPT !.fails = 0, !.locked = FALSE]
        BY <3>1 DEF PasswordReset
      <4>2. QED
        BY <4>1 DEF TypeOK, Row
    <3>2. CASE LockEnds
      <4>1. row' = [row EXCEPT !.locked = FALSE] \/ row' = [row EXCEPT !.totpLocked = FALSE]
        BY <3>2 DEF LockEnds
      <4>2. QED
        BY <4>1 DEF TypeOK, Row
    <3>3. QED
      BY <1>18, <3>1, <3>2
  <2>2. QED
    BY <1>18, <2>1, EnrolKept DEF PasswordReset, LockEnds
<1>19. CASE Tick \/ StagedExpires \/ UNCHANGED vars
  BY <1>19, EnrolKept DEF Tick, StagedExpires, vars
<1>20. QED
  BY <1>3, <1>4, <1>5, <1>6, <1>7, <1>8, <1>9, <1>10, <1>11, <1>14, <1>15, <1>16, <1>17, <1>18, <1>19 DEF Next

\* As long as no enrolment route overlapped another, two-factor is on only with a
\* confirmed secret, and backup codes exist only while it is on.
THEOREM EnrolmentIsUsable == Spec => []EnrolledIsUsable
<1>1. Init => TypeOK /\ EnrolInv
  BY TypeInit, EnrolInit
<1>2. TypeOK /\ EnrolInv /\ [Next]_vars => (TypeOK /\ EnrolInv)'
  BY TypeNext, EnrolNext
<1>3. EnrolInv => EnrolledIsUsable
  BY DEF EnrolInv
<1>4. QED
  BY <1>1, <1>2, <1>3, PTL DEF Spec

-----------------------------------------------------------------------------
(* One handler at a time: what it read is what it meets when it writes.      *)

\* What the one handler there is has read is still so when it writes; only a
\* password reset clears a counter meanwhile.
ReadsStand ==
    /\ raced \subseteq {"password"}
    /\ \A r \in Request :
        /\ req[r].at = "password" => row.fails <= req[r].saw.fails
        /\ req[r].at \in {"advance", "consume", "fail"} => row.totpFails = req[r].saw.totpFails
        /\ req[r].at \in {"setup", "verify", "disable", "regenerate"} => ~ Outdated(r)

LEMMA SawColumns ==
    ASSUME TypeOK
    PROVE  /\ Saw("password").fails = row.fails
           /\ Saw("slot").totpFails = row.totpFails
           /\ Saw("code").totpFails = row.totpFails
           /\ Saw("enrolment").enabled = row.enabled /\ Saw("enrolment").secret = row.secret
<1>1. Saw("password").fails = row.fails
  BY DEF Saw, FreshRow
<1>2. Saw("slot").totpFails = row.totpFails
  BY DEF Saw, FreshRow
<1>3. Saw("code").totpFails = row.totpFails
  BY DEF Saw, FreshRow
<1>4. Saw("enrolment").enabled = row.enabled /\ Saw("enrolment").secret = row.secret
  BY DEF Saw, FreshRow
<1>5. QED
  BY <1>1, <1>2, <1>3, <1>4

LEMMA RunSet ==
    ASSUME NEW slot, Request = {slot}, TypeOK, NEW h, Run(slot, h)
    PROVE  req'[slot] = h
BY DEF Run, TypeOK

LEMMA ReadsStandNext ==
    ASSUME NEW slot, Request = {slot}, TypeOK, ReadsStand, [Next]_vars
    PROVE  ReadsStand'
<1>0. row \in Row /\ req[slot] \in Handler
  BY DEF TypeOK
\* A read keeps the columns as they are.
<1>1. ASSUME NEW h, Run(slot, h), UNCHANGED <<row, raced>>,
             h.at = "password" => h.saw.fails = row.fails,
             h.at \in {"advance", "consume", "fail"} => h.saw.totpFails = row.totpFails,
             h.at \in {"setup", "verify", "disable", "regenerate"} =>
                h.saw.enabled = row.enabled /\ h.saw.secret = row.secret
      PROVE  ReadsStand'
  <2>1. req'[slot] = h
    BY <1>1, RunSet
  <2>2. row.fails <= row.fails
    BY <1>0 DEF Row
  <2>3. QED
    BY <1>1, <2>1, <2>2 DEF ReadsStand, Outdated
\* A handler that ends leaves nothing that could be outdated.
<1>2. ASSUME Finish(slot), raced' \subseteq {"password"} PROVE ReadsStand'
  <2>1. req'[slot] = Idle
    BY <1>2, RunSet DEF Finish
  <2>2. QED
    BY <1>2, <2>1 DEF ReadsStand, Idle
\* A step that is no handler's keeps the columns that a handler will compare.
<1>3. ASSUME UNCHANGED <<req, raced>>, row'.fails \in {0, row.fails}, row'.totpFails = row.totpFails,
             row'.enabled = row.enabled, row'.secret = row.secret
      PROVE  ReadsStand'
  <2>1. req[slot].saw.fails \in Nat
    BY <1>0, LoginGateAssumption DEF Handler, Row
  <2>2. req[slot].at = "password" => row'.fails <= req[slot].saw.fails
    BY <1>3, <2>1 DEF ReadsStand
  <2>3. QED
    BY <1>3, <2>2 DEF ReadsStand, Outdated
<1>4. ASSUME LoginRead(slot) PROVE ReadsStand'
  <2> DEFINE h == [Idle EXCEPT !.at = "password", !.saw = Saw("password")]
  <2>1. Run(slot, h) /\ UNCHANGED <<row, raced>>
    BY <1>4 DEF LoginRead, Begin
  <2>2. h.at = "password" /\ h.saw = Saw("password")
    BY DEF Idle
  <2> HIDE DEF h
  <2>3. QED
    BY <1>1, <2>1, <2>2, SawColumns
<1>5. ASSUME NEW c \in Slot, TotpReadCode(slot, c) PROVE ReadsStand'
  <2> DEFINE at == IF c <= row.last THEN "fail" ELSE "advance"
             h == [Idle EXCEPT !.at = at, !.saw = Saw("slot"), !.slot = c]
  <2>1. Run(slot, h) /\ UNCHANGED <<row, raced>>
    BY <1>5 DEF TotpReadCode, Begin
  <2>2. h.at \in {"fail", "advance"} /\ h.saw = Saw("slot")
    BY DEF Idle
  <2> HIDE DEF h
  <2>3. QED
    BY <1>1, <2>1, <2>2, SawColumns
<1>6. ASSUME NEW b \in BackupCode, TotpReadBackup(slot, b) PROVE ReadsStand'
  <2> DEFINE at == IF b \in row.codes THEN "consume" ELSE "fail"
             h == [Idle EXCEPT !.at = at, !.saw = Saw("code"), !.code = {b}]
  <2>1. Run(slot, h) /\ UNCHANGED <<row, raced>>
    BY <1>6 DEF TotpReadBackup, Begin
  <2>2. h.at \in {"fail", "consume"} /\ h.saw = Saw("code")
    BY DEF Idle
  <2> HIDE DEF h
  <2>3. QED
    BY <1>1, <2>1, <2>2, SawColumns
<1>7. ASSUME SetupRead(slot) \/ VerifyRead(slot) \/ DisableRead(slot) \/ RegenerateRead(slot) PROVE ReadsStand'
  <2>1. PICK at \in {"setup", "verify", "disable", "regenerate"} :
            Run(slot, [Idle EXCEPT !.at = at, !.saw = Saw("enrolment")]) /\ UNCHANGED <<row, raced>>
    <3>1. CASE SetupRead(slot)
      BY <3>1 DEF SetupRead, Begin
    <3>2. CASE VerifyRead(slot)
      BY <3>2 DEF VerifyRead, Begin
    <3>3. CASE DisableRead(slot)
      BY <3>3 DEF DisableRead, Begin
    <3>4. CASE RegenerateRead(slot)
      BY <3>4 DEF RegenerateRead, Begin
    <3>5. QED
      BY <1>7, <3>1, <3>2, <3>3, <3>4
  <2> DEFINE h == [Idle EXCEPT !.at = at, !.saw = Saw("enrolment")]
  <2>2. h.at = at /\ h.saw = Saw("enrolment")
    BY DEF Idle
  <2>3. Run(slot, h) /\ UNCHANGED <<row, raced>>
    BY <2>1
  <2> HIDE DEF h
  <2>4. QED
    BY <1>1, <2>1, <2>2, <2>3, SawColumns
<1>8. ASSUME LoginWrong(slot) \/ LoginRight(slot) PROVE ReadsStand'
  BY <1>2, <1>8 DEF LoginWrong, LoginRight, Race, ReadsStand
\* The loser of a race is about to count a failure, from the same read.
<1>9. ASSUME Run(slot, [req[slot] EXCEPT !.at = "fail"]), UNCHANGED <<row, raced>>,
             req[slot].at \in {"advance", "consume"}
      PROVE  ReadsStand'
  <2> DEFINE h == [req[slot] EXCEPT !.at = "fail"]
  <2>1. h.at = "fail" /\ h.saw = req[slot].saw
    BY <1>0 DEF Handler
  <2>2. req[slot].saw.totpFails = row.totpFails
    BY <1>9 DEF ReadsStand
  <2>3. Run(slot, h)
    BY <1>9
  <2> HIDE DEF h
  <2>4. QED
    BY <1>1, <1>9, <2>1, <2>2, <2>3
<1>10. ASSUME TotpAdvance(slot) PROVE ReadsStand'
  <2>1. raced' \subseteq {"password"}
    BY <1>10 DEF TotpAdvance, ReadsStand
  <2>2. QED
    BY <1>2, <1>9, <1>10, <2>1 DEF TotpAdvance
<1>11. ASSUME TotpConsume(slot) PROVE ReadsStand'
  <2>1. raced' \subseteq {"password"}
    BY <1>11 DEF TotpConsume, ReadsStand
  <2>2. QED
    BY <1>2, <1>9, <1>11, <2>1 DEF TotpConsume
<1>12. ASSUME TotpFail(slot) PROVE ReadsStand'
  <2>1. row.totpFails = req[slot].saw.totpFails
    BY <1>12 DEF TotpFail, ReadsStand
  <2>2. raced' = raced /\ Finish(slot)
    BY <1>12, <2>1 DEF TotpFail, Race
  <2>3. QED
    BY <1>2, <2>2 DEF ReadsStand
<1>13. ASSUME TotpFailSwallowed(slot) PROVE ReadsStand'
  BY <1>2, <1>13 DEF TotpFailSwallowed, ReadsStand
<1>14. ASSUME SetupWrite(slot) \/ VerifyWrite(slot) \/ DisableWrite(slot) \/ RegenerateWrite(slot) PROVE ReadsStand'
  <2>1. req[slot].at \in {"setup", "verify", "disable", "regenerate"} /\ Race("enrolment", Outdated(slot)) /\ Finish(slot)
    BY <1>14 DEF SetupWrite, VerifyWrite, DisableWrite, RegenerateWrite
  <2>2. ~ Outdated(slot)
    BY <2>1 DEF ReadsStand
  <2>3. raced' = raced
    BY <2>1, <2>2 DEF Race
  <2>4. QED
    BY <1>2, <2>1, <2>3 DEF ReadsStand
<1>15. CASE PasswordReset
  <2>1. row' = [row EXCEPT !.fails = 0, !.locked = FALSE] /\ UNCHANGED <<req, raced>>
    BY <1>15 DEF PasswordReset
  <2>2. /\ row'.fails = 0 /\ row'.totpFails = row.totpFails
        /\ row'.enabled = row.enabled /\ row'.secret = row.secret
    BY <1>0, <2>1 DEF Row
  <2>3. QED
    BY <1>3, <2>1, <2>2
<1>16. CASE LockEnds
  <2>1. /\ row'.fails = row.fails /\ row'.totpFails = row.totpFails
        /\ row'.enabled = row.enabled /\ row'.secret = row.secret
    BY <1>0, <1>16 DEF LockEnds, Row
  <2>2. QED
    BY <1>3, <1>16, <2>1 DEF LockEnds
<1>17. CASE Tick \/ StagedExpires \/ UNCHANGED vars
  <2>1. UNCHANGED <<row, req, raced>>
    BY <1>17 DEF Tick, StagedExpires, vars
  <2>2. QED
    BY <1>3, <2>1
<1>18. QED
  BY <1>4, <1>5, <1>6, <1>7, <1>8, <1>10, <1>11, <1>12, <1>13, <1>14, <1>15, <1>16, <1>17 DEF Next

\* Only the wrong password's write counts, and it starts from what the row says
\* or, after a reset, from more.
LEMMA SerialCounterRises ==
    ASSUME NEW slot, Request = {slot}, TypeOK, ReadsStand, [Next]_vars, streak'.password > streak.password
    PROVE  row'.fails > row.fails
<1>0. row \in Row /\ req[slot] \in Handler /\ streak \in [password: 0..MaxFails, totp: 0..MaxFails, unwritten: Nat]
  BY DEF TypeOK
<1>1. CASE LoginWrong(slot)
  <2>1. row' = [row EXCEPT !.fails = req[slot].saw.fails + 1, !.locked = req[slot].saw.fails + 1 >= LoginLimit]
    BY <1>1 DEF LoginWrong
  <2>2. row'.fails = req[slot].saw.fails + 1
    BY <1>0, <2>1 DEF Row
  <2>3. row.fails \in Int /\ req[slot].saw.fails \in Int
    BY <1>0 DEF Row, Handler
  <2>4. row.fails <= req[slot].saw.fails
    BY <1>1 DEF LoginWrong, ReadsStand
  <2>5. QED
    BY <2>2, <2>3, <2>4
<1>2. CASE streak' = streak
  BY <1>0, <1>2
<1>3. CASE streak' = [streak EXCEPT !.password = 0]
  <2>1. streak'.password = 0
    BY <1>0, <1>3
  <2>2. QED
    BY <1>0, <2>1
<1>4. ASSUME NEW n, NEW u, streak' = [streak EXCEPT !.totp = n, !.unwritten = u] PROVE FALSE
  <2>1. streak'.password = streak.password
    BY <1>0, <1>4
  <2>2. QED
    BY <1>0, <2>1
<1>5. \/ LoginWrong(slot) \/ streak' = streak \/ streak' = [streak EXCEPT !.password = 0]
      \/ \E n, u : streak' = [streak EXCEPT !.totp = n, !.unwritten = u]
  <2>1. CASE TotpAdvance(slot) \/ TotpConsume(slot) \/ TotpFail(slot) \/ TotpFailSwallowed(slot)
    <3>1. TotpAdvance(slot) \/ TotpConsume(slot) =>
             streak' = streak \/ streak' = [streak EXCEPT !.totp = 0, !.unwritten = 0]
      BY DEF TotpAdvance, TotpConsume
    <3>2. TotpFail(slot) => streak' = [streak EXCEPT !.totp = streak.totp + 1]
      BY DEF TotpFail
    <3>3. [streak EXCEPT !.totp = streak.totp + 1]
             = [streak EXCEPT !.totp = streak.totp + 1, !.unwritten = streak.unwritten]
      BY <1>0
    <3>4. TotpFailSwallowed(slot) =>
             streak' = [streak EXCEPT !.totp = streak.totp + 1, !.unwritten = streak.unwritten + 1]
      BY DEF TotpFailSwallowed
    <3>5. QED
      BY <2>1, <3>1, <3>2, <3>3, <3>4
  <2>2. CASE ~(TotpAdvance(slot) \/ TotpConsume(slot) \/ TotpFail(slot) \/ TotpFailSwallowed(slot))
    BY <2>2 DEF Next, vars, LoginRead, LoginRight, PasswordReset, TotpReadCode, TotpReadBackup,
       SetupRead, SetupWrite, VerifyRead, VerifyWrite, DisableRead, DisableWrite, RegenerateRead, RegenerateWrite,
       Tick, LockEnds, StagedExpires
  <2>3. QED
    BY <2>1, <2>2
<1>6. QED
  BY <1>1, <1>2, <1>3, <1>4, <1>5

\* When one handler runs at a time a failed login never lowers its counter, the
\* second step's counter lacks exactly the failures whose write failed, and an
\* enrolled account is usable: no exception for overlaps is needed.
THEOREM SerialHandlersCountExactly ==
    ASSUME NEW slot, Request = {slot}
    PROVE  Spec => /\ []( /\ row.totpFails + streak.unwritten = streak.totp
                          /\ row.enabled => row.secret \in confirmed
                          /\ row.codes # {} => row.enabled )
                   /\ FailureNeverLowersCounter
<1> DEFINE SerialInv == TypeOK /\ FailuresAreCounted /\ EnrolInv /\ ReadsStand
           Exact == /\ row.totpFails + streak.unwritten = streak.totp
                    /\ row.enabled => row.secret \in confirmed
                    /\ row.codes # {} => row.enabled
           Raises == streak'.password > streak.password => row'.fails > row.fails
<1>1. Init => SerialInv
  <2>1. Init => ReadsStand
    BY DEF Init, ReadsStand, Idle
  <2>2. QED
    BY <2>1, TypeInit, CountInit, EnrolInit
<1>2. SerialInv /\ [Next]_vars => SerialInv'
  BY TypeNext, CountNext, EnrolNext, ReadsStandNext
<1>3. SerialInv => Exact
  BY DEF ReadsStand, FailuresAreCounted, EnrolInv, EnrolledIsUsable
<1>4. SerialInv /\ [Next]_vars => [Raises]_vars
  BY SerialCounterRises
<1>5. Spec => []Exact
  BY <1>1, <1>2, <1>3, PTL DEF Spec
<1>6. Spec => FailureNeverLowersCounter
  BY <1>1, <1>2, <1>4, PTL DEF Spec, FailureNeverLowersCounter
<1>7. QED
  BY <1>5, <1>6
=============================================================================

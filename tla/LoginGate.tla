------------------------------ MODULE LoginGate ------------------------------
(* The gate in front of a session: AuthService.login and loginTotp (services/auth-service.ts) and  *)
(* the two-factor routes (routes/totp.ts), for one account.  Every handler reads the user row, does *)
(* slow work, and writes columns of that row in a later statement; only loginTotp writes under a    *)
(* condition.  The session a login ends in is the matter of Sessions.                               *)
EXTENDS Integers, FiniteSets

CONSTANTS
    Request,        \* the HTTP handlers that may be running at once
    LoginLimit,     \* FAILED_LOGIN_LOCKOUT_THRESHOLD
    TotpLimit,      \* FAILED_TOTP_LOCKOUT_THRESHOLD
    CodesPerSet,    \* backup codes generated at once
    MaxSlot,        \* bound: the last 30-second slot
    MaxSecrets,     \* bound: secrets generated
    MaxSets,        \* bound: sets of backup codes generated
    MaxFails,       \* bound: failures counted in a row
    MaxHandlers     \* bound: handlers begun

ASSUME LoginGateAssumption ==
    /\ LoginLimit \in Nat \ {0} /\ TotpLimit \in Nat \ {0} /\ CodesPerSet \in Nat
    /\ MaxSlot \in Nat /\ MaxSecrets \in Nat /\ MaxSets \in Nat /\ MaxFails \in Nat
    /\ MaxHandlers \in Nat

VARIABLES
    row,            \* the columns of the user row these handlers touch
    req,            \* what each handler is about to write, and the row it read
    now,            \* the current 30-second slot
    staged,         \* a staged token of the password step is still valid
    made,           \* how many handlers were begun, secrets and sets of codes generated
    admitted,       \* history: how often each slot and each backup code ended in a session
    streak,         \* history: failures answered since the counter was last cleared, per step, and
                    \* how many failures of the second step were answered but never written
    confirmed,      \* history: the secrets an authenticator proved knowledge of at verify
    raced           \* history: the groups of columns some handler wrote from an outdated read

vars == <<row, req, now, staged, made, admitted, streak, confirmed, raced>>

-----------------------------------------------------------------------------
NoSecret   == 0
Slot       == 0..(MaxSlot + 1)
BackupCode == (1..MaxSets) \X (1..CodesPerSet)
Step       == {"idle", "password", "advance", "consume", "fail", "setup", "verify", "disable", "regenerate"}

Row == [fails: 0..MaxFails, locked: BOOLEAN, enabled: BOOLEAN, secret: 0..MaxSecrets, last: Slot,
        codes: SUBSET BackupCode, totpFails: 0..MaxFails, totpLocked: BOOLEAN]

FreshRow == [fails |-> 0, locked |-> FALSE, enabled |-> FALSE, secret |-> NoSecret, last |-> 0,
             codes |-> {}, totpFails |-> 0, totpLocked |-> FALSE]

(* The columns of the row a handler keeps for its write; the others do not matter to it. *)
Saw(use) ==
    CASE use = "password"  -> [FreshRow EXCEPT !.fails = row.fails, !.enabled = row.enabled]
      [] use = "slot"      -> [FreshRow EXCEPT !.last = row.last, !.totpFails = row.totpFails]
      [] use = "code"      -> [FreshRow EXCEPT !.codes = row.codes, !.totpFails = row.totpFails]
      [] use = "enrolment" -> [FreshRow EXCEPT !.enabled = row.enabled, !.secret = row.secret]

(* What a handler knows: the row it read, and the code its caller sent (0 when there is none). *)
Handler == [at: Step, saw: Row, slot: Slot, code: SUBSET BackupCode]
Idle    == [at |-> "idle", saw |-> FreshRow, slot |-> 0, code |-> {}]

(* verifyTotpWithCounter accepts the code of the slot before, the current and the next one. *)
InWindow == {c \in Slot : c # 0 /\ c >= now - 1 /\ c <= now + 1}

FreshCodes == {made.sets + 1} \X (1..CodesPerSet)

Run(r, h)  == req' = [req EXCEPT ![r] = h]
Finish(r)  == Run(r, Idle)
Begin(r, h) ==
    /\ req[r].at = "idle" /\ made.handlers < MaxHandlers
    /\ made' = [made EXCEPT !.handlers = @ + 1]
    /\ Run(r, h)
Race(group, outdated) == raced' = IF outdated THEN raced \cup {group} ELSE raced

Init ==
    /\ row = FreshRow
    /\ req = [r \in Request |-> Idle]
    /\ now = 1
    /\ staged = FALSE
    /\ made = [handlers |-> 0, secrets |-> 0, sets |-> 0]
    /\ admitted = [slot |-> [c \in Slot |-> 0], code |-> [b \in BackupCode |-> 0]]
    /\ streak = [password |-> 0, totp |-> 0, unwritten |-> 0]
    /\ confirmed = {}
    /\ raced = {}

-----------------------------------------------------------------------------
(* The password step. *)

(* login reads the user row; a locked account is refused before the password is looked at. *)
LoginRead(r) ==
    /\ ~row.locked
    /\ Begin(r, [Idle EXCEPT !.at = "password", !.saw = Saw("password")])
    /\ UNCHANGED <<row, now, staged, admitted, streak, confirmed, raced>>

(* A wrong password: the counter and the lock are written from the row read before the hashing. *)
LoginWrong(r) ==
    LET next == req[r].saw.fails + 1 IN
    /\ req[r].at = "password"
    /\ next <= MaxFails /\ streak.password < MaxFails
    /\ row' = [row EXCEPT !.fails = next, !.locked = next >= LoginLimit]
    /\ streak' = [streak EXCEPT !.password = @ + 1]
    /\ Race("password", row.fails # req[r].saw.fails \/ row.locked)
    /\ Finish(r)
    /\ UNCHANGED <<now, staged, made, admitted, confirmed>>

\* Mutant: a success of the password step forgets to clear the counter.
LoginRightKeepsCounter(r) ==
    /\ req[r].at = "password"
    /\ streak' = [streak EXCEPT !.password = 0]
    /\ staged' = (staged \/ req[r].saw.enabled)
    /\ Finish(r)
    /\ UNCHANGED <<row, now, made, admitted, confirmed, raced>>

(* The right password clears a counter the handler saw raised, and is answered with a staged token *)
(* when the row it read had two-factor on (with a session otherwise).                               *)
LoginRight(r) ==
    LET clears == req[r].saw.fails > 0 IN
    /\ req[r].at = "password"
    /\ row' = IF clears THEN [row EXCEPT !.fails = 0, !.locked = FALSE] ELSE row
    /\ streak' = [streak EXCEPT !.password = 0]
    /\ Race("password", ~clears /\ (row.fails # 0 \/ row.locked))
    /\ staged' = (staged \/ req[r].saw.enabled)
    /\ Finish(r)
    /\ UNCHANGED <<now, made, admitted, confirmed>>

(* The transaction of resetPassword clears the counter and the lock of the password step. *)
PasswordReset ==
    /\ row' = [row EXCEPT !.fails = 0, !.locked = FALSE]
    /\ streak' = [streak EXCEPT !.password = 0]
    /\ UNCHANGED <<req, now, staged, made, admitted, confirmed, raced>>

-----------------------------------------------------------------------------
(* The second step, loginTotp. *)

TotpOpen == staged /\ row.enabled /\ row.secret # NoSecret /\ ~row.totpLocked

(* An authenticator code of a slot in the window: a slot at or below the last accepted one is a    *)
(* replay, any other goes on to advance the counter.                                                *)
TotpReadCode(r, c) ==
    /\ TotpOpen /\ c \in InWindow
    /\ Begin(r, [Idle EXCEPT !.at = IF c <= row.last THEN "fail" ELSE "advance", !.saw = Saw("slot"), !.slot = c])
    /\ UNCHANGED <<row, now, staged, admitted, streak, confirmed, raced>>

(* A backup code, on the stored list or not; the latter stands for every wrong code as well. *)
TotpReadBackup(r, b) ==
    /\ TotpOpen
    /\ Begin(r, [Idle EXCEPT !.at = IF b \in row.codes THEN "consume" ELSE "fail", !.saw = Saw("code"), !.code = {b}])
    /\ UNCHANGED <<row, now, staged, admitted, streak, confirmed, raced>>

\* Mutant: the counter advances without the predicate on the value read.
TotpAdvanceBlindly(r) ==
    /\ req[r].at = "advance"
    /\ row' = [row EXCEPT !.last = req[r].slot, !.totpFails = 0, !.totpLocked = FALSE]
    /\ admitted' = [admitted EXCEPT !.slot[req[r].slot] = @ + 1]
    /\ streak' = [streak EXCEPT !.totp = 0, !.unwritten = 0]
    /\ Finish(r)
    /\ UNCHANGED <<now, staged, made, confirmed, raced>>

(* The counter advances only from the value the handler read; the loser of a race is a failure. *)
TotpAdvance(r) ==
    /\ req[r].at = "advance"
    /\ IF row.last = req[r].saw.last
         THEN /\ row' = [row EXCEPT !.last = req[r].slot, !.totpFails = 0, !.totpLocked = FALSE]
              /\ admitted' = [admitted EXCEPT !.slot[req[r].slot] = @ + 1]
              /\ streak' = [streak EXCEPT !.totp = 0, !.unwritten = 0]
              /\ Finish(r)
         ELSE /\ Run(r, [req[r] EXCEPT !.at = "fail"])
              /\ UNCHANGED <<row, admitted, streak>>
    /\ UNCHANGED <<now, staged, made, confirmed, raced>>

(* A backup code is struck off only when the stored list is still the one the handler read. *)
TotpConsume(r) ==
    /\ req[r].at = "consume"
    /\ IF row.codes = req[r].saw.codes
         THEN /\ row' = [row EXCEPT !.codes = @ \ req[r].code, !.totpFails = 0, !.totpLocked = FALSE]
              /\ admitted' = [admitted EXCEPT !.code =
                                [b \in BackupCode |-> IF b \in req[r].code THEN @[b] + 1 ELSE @[b]]]
              /\ streak' = [streak EXCEPT !.totp = 0, !.unwritten = 0]
              /\ Finish(r)
         ELSE /\ Run(r, [req[r] EXCEPT !.at = "fail"])
              /\ UNCHANGED <<row, admitted, streak>>
    /\ UNCHANGED <<now, staged, made, confirmed, raced>>

(* recordFailedTotpAttempt writes from the count the handler read; below the threshold the lock is *)
(* left as it is.                                                                                   *)
TotpFail(r) ==
    LET next == req[r].saw.totpFails + 1 IN
    /\ req[r].at = "fail"
    /\ next <= MaxFails /\ streak.totp < MaxFails
    /\ row' = [row EXCEPT !.totpFails = next, !.totpLocked = @ \/ next >= TotpLimit]
    /\ streak' = [streak EXCEPT !.totp = @ + 1]
    /\ Race("totp", row.totpFails # req[r].saw.totpFails)
    /\ Finish(r)
    /\ UNCHANGED <<now, staged, made, admitted, confirmed>>

(* The write of a failed attempt is best effort: an error in it is swallowed, and the failure is   *)
(* answered all the same.                                                                           *)
TotpFailSwallowed(r) ==
    /\ req[r].at = "fail"
    /\ streak.totp < MaxFails
    /\ streak' = [streak EXCEPT !.totp = @ + 1, !.unwritten = @ + 1]
    /\ Finish(r)
    /\ UNCHANGED <<row, now, staged, made, admitted, confirmed, raced>>

-----------------------------------------------------------------------------
(* Enrolment: each route checks what it read and then writes unconditionally. *)

Outdated(r) == <<row.enabled, row.secret>> # <<req[r].saw.enabled, req[r].saw.secret>>

SetupRead(r) ==
    /\ ~row.enabled
    /\ Begin(r, [Idle EXCEPT !.at = "setup", !.saw = Saw("enrolment")])
    /\ UNCHANGED <<row, now, staged, admitted, streak, confirmed, raced>>

SetupWrite(r) ==
    /\ req[r].at = "setup" /\ made.secrets < MaxSecrets
    /\ made' = [made EXCEPT !.secrets = @ + 1]
    /\ row' = [row EXCEPT !.secret = made.secrets + 1]
    /\ Race("enrolment", Outdated(r))
    /\ Finish(r)
    /\ UNCHANGED <<now, staged, admitted, streak, confirmed>>

(* The caller proves its authenticator holds the secret that was read. *)
VerifyRead(r) ==
    /\ row.secret # NoSecret /\ ~row.enabled
    /\ Begin(r, [Idle EXCEPT !.at = "verify", !.saw = Saw("enrolment")])
    /\ confirmed' = confirmed \cup {row.secret}
    /\ UNCHANGED <<row, now, staged, admitted, streak, raced>>

VerifyWrite(r) ==
    /\ req[r].at = "verify" /\ made.sets < MaxSets
    /\ made' = [made EXCEPT !.sets = @ + 1]
    /\ row' = [row EXCEPT !.enabled = TRUE, !.codes = FreshCodes]
    /\ Race("enrolment", Outdated(r))
    /\ Finish(r)
    /\ UNCHANGED <<now, staged, admitted, streak, confirmed>>

(* disable takes an authenticator code when there is a secret, and a backup code in any case. *)
DisableRead(r) ==
    /\ row.enabled
    /\ row.secret # NoSecret \/ row.codes # {}
    /\ Begin(r, [Idle EXCEPT !.at = "disable", !.saw = Saw("enrolment")])
    /\ UNCHANGED <<row, now, staged, admitted, streak, confirmed, raced>>

\* Mutant: disable forgets the backup codes.
DisableKeepsCodes(r) ==
    /\ req[r].at = "disable"
    /\ row' = [row EXCEPT !.secret = NoSecret, !.enabled = FALSE]
    /\ Race("enrolment", Outdated(r))
    /\ Finish(r)
    /\ UNCHANGED <<now, staged, made, admitted, streak, confirmed>>

DisableWrite(r) ==
    /\ req[r].at = "disable"
    /\ row' = [row EXCEPT !.secret = NoSecret, !.enabled = FALSE, !.codes = {}]
    /\ Race("enrolment", Outdated(r))
    /\ Finish(r)
    /\ UNCHANGED <<now, staged, made, admitted, streak, confirmed>>

RegenerateRead(r) ==
    /\ row.enabled /\ row.secret # NoSecret
    /\ Begin(r, [Idle EXCEPT !.at = "regenerate", !.saw = Saw("enrolment")])
    /\ UNCHANGED <<row, now, staged, admitted, streak, confirmed, raced>>

RegenerateWrite(r) ==
    /\ req[r].at = "regenerate" /\ made.sets < MaxSets
    /\ made' = [made EXCEPT !.sets = @ + 1]
    /\ row' = [row EXCEPT !.codes = FreshCodes]
    /\ Race("enrolment", Outdated(r))
    /\ Finish(r)
    /\ UNCHANGED <<now, staged, admitted, streak, confirmed>>

-----------------------------------------------------------------------------
(* Time: slots pass, locks end, the staged token expires. *)

Tick ==
    /\ now < MaxSlot
    /\ now' = now + 1
    /\ UNCHANGED <<row, req, staged, made, admitted, streak, confirmed, raced>>

LockEnds ==
    /\ row.locked \/ row.totpLocked
    /\ row' \in {[row EXCEPT !.locked = FALSE], [row EXCEPT !.totpLocked = FALSE]} \ {row}
    /\ UNCHANGED <<req, now, staged, made, admitted, streak, confirmed, raced>>

StagedExpires ==
    /\ staged
    /\ staged' = FALSE
    /\ UNCHANGED <<row, req, now, made, admitted, streak, confirmed, raced>>

Next ==
    \/ \E r \in Request :
        \/ LoginRead(r) \/ LoginWrong(r) \/ LoginRight(r)
        \/ \E c \in Slot : TotpReadCode(r, c)
        \/ \E b \in BackupCode : TotpReadBackup(r, b)
        \/ TotpAdvance(r) \/ TotpConsume(r) \/ TotpFail(r) \/ TotpFailSwallowed(r)
        \/ SetupRead(r) \/ SetupWrite(r) \/ VerifyRead(r) \/ VerifyWrite(r)
        \/ DisableRead(r) \/ DisableWrite(r) \/ RegenerateRead(r) \/ RegenerateWrite(r)
    \/ PasswordReset \/ Tick \/ LockEnds \/ StagedExpires

Spec == Init /\ [][Next]_vars

-----------------------------------------------------------------------------
(* Properties. *)

(* Every column, handler and counter keeps its type. *)
TypeOK ==
    /\ row \in Row
    /\ req \in [Request -> Handler]
    /\ now \in 1..(MaxSlot + 1)
    /\ staged \in BOOLEAN
    /\ made \in [handlers: 0..MaxHandlers, secrets: 0..MaxSecrets, sets: 0..MaxSets]
    /\ admitted \in [slot: [Slot -> Nat], code: [BackupCode -> Nat]]
    /\ streak \in [password: 0..MaxFails, totp: 0..MaxFails, unwritten: Nat]
    /\ confirmed \subseteq 1..MaxSecrets
    /\ raced \subseteq {"password", "totp", "enrolment"}

(* However many second steps run at once, and across disabling and enrolling again, the code of    *)
(* one 30-second slot ends in at most one session, and so does each backup code (loginTotp: the    *)
(* counter is compared with what was read before it advances, the list before it shrinks).          *)
CodeLogsInOnce ==
    /\ \A c \in Slot : admitted.slot[c] <= 1
    /\ \A b \in BackupCode : admitted.code[b] <= 1

(* Unless a handler wrote a counter it had read before another handler moved it, each counter is   *)
(* the number of failures since it was last cleared, but for those of the second step whose write  *)
(* failed; and a lock stands only at the threshold.  Resets, replayed codes, lost compare-and-swaps *)
(* and lapsed locks lose no failure and clear none.                                                 *)
FailuresAreCounted ==
    /\ "password" \notin raced =>
         row.fails = streak.password /\ (row.locked => row.fails >= LoginLimit)
    /\ "totp" \notin raced =>
         row.totpFails + streak.unwritten = streak.totp /\ (row.totpLocked => row.totpFails >= TotpLimit)

(* Unless two enrolment routes overlapped, two-factor is on only with a secret an authenticator    *)
(* has proved to hold, and backup codes exist only while it is on.                                  *)
EnrolledIsUsable ==
    "enrolment" \notin raced =>
        /\ row.enabled => row.secret \in confirmed
        /\ row.codes # {} => row.enabled

(* What the comment at auth-service.ts:394-399 promises of the counter: a failed login never       *)
(* lowers it ("monotonically increasing through threshold breaches").                               *)
FailureNeverLowersCounter ==
    [][streak'.password > streak.password => row'.fails > row.fails]_vars

=============================================================================

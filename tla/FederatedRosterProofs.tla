------------------------- MODULE FederatedRosterProofs -------------------------
(* Theorems about FederatedRoster, for any channels, fields, users, guests,  *)
(* changes, requests and faults.                                             *)
EXTENDS FederatedRoster, TLAPS

\* What the routes announce: channel changes of channels, and so on; the first
\* change gets number 2.
Numbers == 2..MaxEvents
Announced ==
    [op : {"server"}, about : {Den}, fields : Patch, n : Numbers, signer : {Owner}]
    \cup [op : {"update"}, about : Channel, fields : Patch, n : Numbers, signer : {Owner}]
    \cup [op : {"create", "delete"}, about : Channel, fields : {Field}, n : Numbers, signer : {Owner}]
    \cup [op : {"add"}, about : Other, fields : {Field}, n : Numbers, signer : {Owner, Staff} \cup Other]
    \cup [op : {"remove"}, about : Member, fields : {Field}, n : Numbers, signer : {Owner, Staff}]

Line == [Field -> 0..MaxEvents]

\* The changes that are on their way, one way or another.
Envelopes == pending \cup {j.change : j \in outbox} \cup {j.change : j \in late}
                     \cup {m.job.change : m \in merges}

Typed == TypeOK /\ Envelopes \subseteq Announced /\ \A m \in merges : m.job.change.op = "update"

\* An announced change is of the type of changes.
LEMMA AnnouncedTypes ==
    /\ Announced \subseteq Change
    /\ \A c \in Announced : /\ c.n \in 2..MaxEvents /\ c.about \in Object /\ c.n \in 0..MaxEvents
                            /\ c.fields \subseteq Field
                            /\ c.about \in Guest => c.op = "remove"
                            /\ c.op = "update" => c.about \in Channel /\ c.about \notin Guest
                            /\ c.op \in {"delete", "remove"} => c.fields = Field
<1> USE RosterAssumption DEF Announced, Numbers, Object, Member
<1>1. ASSUME NEW c \in Announced
      PROVE  /\ c.n \in 2..MaxEvents /\ c.about \in Object /\ c.n \in 0..MaxEvents
             /\ c.about \in Guest => c.op = "remove"
             /\ c.op = "update" => c.about \in Channel /\ c.about \notin Guest
  OBVIOUS
<1>2. ASSUME NEW c \in Announced
      PROVE  c.fields \subseteq Field /\ (c.op \in {"delete", "remove"} => c.fields = Field)
  BY DEF Patch
<1>3. Announced \subseteq Change
  BY DEF Patch, Change, Op
<1>4. QED
  BY <1>1, <1>2, <1>3

\* The rows that are written have values for the fields.
LEMMA LineTypes ==
    /\ Blank \in Line /\ Admitted \in Line
    /\ \A row \in Line, fields \in SUBSET Field, n \in 0..MaxEvents :
          /\ Over(row, fields, n) \in Line
          /\ \A f \in Field : Over(row, fields, n)[f] = IF f \in fields THEN n ELSE row[f]
    /\ Admitted # Blank
    /\ \A f \in Field : Blank[f] = 0
<1>1. 0 \in 0..MaxEvents /\ 1 \in 0..MaxEvents
  BY RosterAssumption
<1>2. Blank \in Line /\ \A f \in Field : Blank[f] = 0
  BY <1>1 DEF Blank, Line
<1>3. \A row \in Line, fields \in SUBSET Field, n \in 0..MaxEvents :
          /\ Over(row, fields, n) \in Line
          /\ \A f \in Field : Over(row, fields, n)[f] = IF f \in fields THEN n ELSE row[f]
  BY DEF Over, Line
<1>4. Admitted \in Line /\ \A f \in Field : Admitted[f] = 1
  BY <1>1, <1>2, <1>3 DEF Admitted
<1>5. Admitted # Blank
  BY <1>2, <1>4, RosterAssumption
<1>6. QED
  BY <1>2, <1>3, <1>4, <1>5

\* A row of the mirror can be set without touching the rest.
LEMMA MirrorRow ==
    ASSUME mirror \in [live : BOOLEAN, at : Row], NEW o \in Object, NEW v \in Line
    PROVE  /\ [mirror EXCEPT !.at[o] = v] \in [live : BOOLEAN, at : Row]
           /\ [mirror EXCEPT !.at[o] = v].live = mirror.live
           /\ [mirror EXCEPT !.at[o] = v].at = [mirror.at EXCEPT ![o] = v]
BY DEF Row, Line

\* The actions that make a change, as one.
Announce(op, o, fields, signer) ==
    /\ [op |-> op, about |-> o, fields |-> fields, n |-> made + 1, signer |-> signer] \in Announced
    /\ Commit(op, o, fields, signer)
    /\ UNCHANGED <<wire, requests, applied, missed, faults>>

Announces == \E op \in Op, o \in Object, fields \in SUBSET Field, signer \in {Owner, Staff} \cup Other :
    Announce(op, o, fields, signer)

\* The routes that change the server are announcements.
LEMMA Announcements ==
    ASSUME TypeOK,
           \/ \E fields \in Patch : UpdateServer(fields) \/ \E c \in Channel : UpdateChannel(c, fields)
           \/ \E c \in Channel : CreateChannel(c) \/ DeleteChannel(c)
           \/ \E u \in Other : Join(u)
           \/ \E u \in Other, s \in {Owner, Staff} : AdminAdd(u, s)
           \/ \E u \in Member, s \in {Owner, Staff} : Remove(u, s)
    PROVE  Announces
<1> USE RosterAssumption DEF Announce
<1>0. made + asked < MaxEvents => made + 1 \in Numbers
  BY DEF TypeOK, Numbers
<1>f. Field \in SUBSET Field /\ Patch \subseteq SUBSET Field
  BY DEF Patch
<1>1. ASSUME NEW fields \in Patch, UpdateServer(fields)
      PROVE  Announce("server", Den, fields, Owner)
  <2>1. [op |-> "server", about |-> Den, fields |-> fields, n |-> made + 1, signer |-> Owner] \in Announced
    BY <1>0, <1>1 DEF Announced, UpdateServer, Commit
  <2>2. QED
    BY <1>1, <2>1 DEF UpdateServer
<1>u. ASSUME NEW c \in Channel, NEW fields \in Patch, UpdateChannel(c, fields)
      PROVE  Announce("update", c, fields, Owner)
  <2>1. [op |-> "update", about |-> c, fields |-> fields, n |-> made + 1, signer |-> Owner] \in Announced
    BY <1>0, <1>u DEF Announced, UpdateChannel, Commit
  <2>2. QED
    BY <1>u, <2>1 DEF UpdateChannel
<1>2. ASSUME NEW c \in Channel, CreateChannel(c) \/ DeleteChannel(c)
      PROVE  \E op \in {"create", "delete"} : Announce(op, c, Field, Owner)
  <2>1. made + asked < MaxEvents
    BY <1>2 DEF CreateChannel, DeleteChannel, Commit
  <2>2. \A op \in {"create", "delete"} :
          [op |-> op, about |-> c, fields |-> Field, n |-> made + 1, signer |-> Owner] \in Announced
    BY <1>0, <2>1 DEF Announced
  <2>3. QED
    BY <1>2, <2>2 DEF CreateChannel, DeleteChannel
<1>3. ASSUME NEW u \in Other, NEW s \in {Owner, Staff} \cup Other, (Join(u) /\ s = u) \/ AdminAdd(u, s)
      PROVE  Announce("add", u, Field, s)
  <2>1. Commit("add", u, Field, s) /\ UNCHANGED <<wire, requests, applied, missed, faults>>
    BY <1>3 DEF Join, AdminAdd, requests
  <2>2. [op |-> "add", about |-> u, fields |-> Field, n |-> made + 1, signer |-> s] \in Announced
    BY <1>0, <2>1 DEF Announced, Commit
  <2>3. QED
    BY <2>1, <2>2
<1>4. ASSUME NEW u \in Member, NEW s \in {Owner, Staff}, Remove(u, s)
      PROVE  Announce("remove", u, Field, s)
  <2>1. [op |-> "remove", about |-> u, fields |-> Field, n |-> made + 1, signer |-> s] \in Announced
    BY <1>0, <1>4 DEF Announced, Remove, Commit
  <2>2. QED
    BY <1>4, <2>1 DEF Remove
<1> HIDE DEF Announce
<1> USE DEF Announces
<1>5. CASE \E fields \in Patch : UpdateServer(fields) \/ \E c \in Channel : UpdateChannel(c, fields)
  BY <1>1, <1>u, <1>f, <1>5 DEF Op, Object
<1>6. CASE \E c \in Channel : CreateChannel(c) \/ DeleteChannel(c)
  BY <1>2, <1>f, <1>6 DEF Op, Object
<1>7. CASE \E u \in Other : Join(u)
  <2>1. PICK u \in Other : Join(u)
    BY <1>7
  <2>2. Announce("add", u, Field, u)
    BY <1>3, <2>1
  <2>3. QED
    BY <1>f, <2>2 DEF Op, Object, Member
<1>8. CASE \E u \in Other, s \in {Owner, Staff} : AdminAdd(u, s)
  <2>1. PICK u \in Other, s \in {Owner, Staff} : AdminAdd(u, s)
    BY <1>8
  <2>2. Announce("add", u, Field, s)
    BY <1>3, <2>1
  <2>3. QED
    BY <1>f, <2>2 DEF Op, Object, Member
<1>9. CASE \E u \in Member, s \in {Owner, Staff} : Remove(u, s)
  BY <1>4, <1>f, <1>9 DEF Op, Object
<1>10. QED
  BY <1>5, <1>6, <1>7, <1>8, <1>9

-----------------------------------------------------------------------------
\* What an announcement does to the rows and to what is on its way.
LEMMA AnnounceTypes ==
    ASSUME Typed, NEW op \in Op, NEW o \in Object, NEW fields \in SUBSET Field, NEW signer,
           Announce(op, o, fields, signer)
    PROVE  Typed'
<1> DEFINE c == [op |-> op, about |-> o, fields |-> fields, n |-> made + 1, signer |-> signer]
<1>1. c \in Announced /\ c \in Change
  BY AnnouncedTypes DEF Announce
<1>2. pending' = pending \cup {c} /\ UNCHANGED <<outbox, late, merges>>
  BY DEF Announce, Commit, wire, applied
<1>3. Envelopes' \subseteq Announced /\ \A m \in merges' : m.job.change.op = "update"
  BY <1>1, <1>2 DEF Typed, Envelopes
<1>4. made + 1 \in 1..MaxEvents /\ made + 1 \in 0..MaxEvents /\ made' = made + 1
  BY RosterAssumption DEF Announce, Commit, Typed, TypeOK
<1>5. at \in [Object -> Line] /\ last \in [Object -> Line]
  BY DEF Typed, TypeOK, Row, Line
<1>6. Over(at[o], fields, made + 1) \in Line /\ Over(last[o], fields, made + 1) \in Line /\ Blank \in Line
  BY <1>4, <1>5, LineTypes
<1>7. at' \in [Object -> Line] /\ last' \in [Object -> Line]
  BY <1>5, <1>6 DEF Announce, Commit
<1>8. at' \in Row /\ last' \in Row
  BY <1>7 DEF Row, Line
<1>9. pending' \subseteq Change
  BY <1>1, <1>2 DEF Typed, TypeOK
<1>10. QED
  BY <1>2, <1>3, <1>4, <1>8, <1>9 DEF Announce, Typed, TypeOK, wire, requests, applied

\* What is written leaves the mirror and the histories well typed.
LEMMA WriteTypes ==
    ASSUME Typed, NEW c \in Announced, NEW read \in Line, Write(c, read)
    PROVE  /\ mirror' \in [live : BOOLEAN, at : Row] /\ seen' \in Row
           /\ overtaken' \in [Object -> SUBSET Field] /\ missed' \subseteq 1..MaxEvents
<1>1. c.about \in Object /\ c.n \in 0..MaxEvents /\ c.fields \subseteq Field
  BY AnnouncedTypes
<1>2. RowAfter(c, read) \in Line
  BY <1>1, LineTypes DEF RowAfter
<1>3. mirror' \in [live : BOOLEAN, at : Row]
  BY <1>1, <1>2, MirrorRow DEF Write, Typed, TypeOK
<1>4. seen' \in Row
  <2>1. seen[c.about] \in Line
    BY <1>1 DEF Typed, TypeOK, Row, Line
  <2>2. [f \in Field |-> IF f \in c.fields /\ c.n > seen[c.about][f] THEN c.n ELSE seen[c.about][f]] \in Line
    BY <1>1, <2>1 DEF Line
  <2>3. QED
    BY <1>1, <2>2 DEF Write, Typed, TypeOK, Row, Line
<1>5. overtaken' \in [Object -> SUBSET Field]
  BY <1>1 DEF Write, Outdated, Typed, TypeOK
<1>6. QED
  BY <1>3, <1>4, <1>5 DEF Write, Typed, TypeOK

LEMMA HandleTypes ==
    ASSUME Typed, NEW j \in Job, j.change \in Announced, Handle(j)
    PROVE  /\ mirror' \in [live : BOOLEAN, at : Row] /\ seen' \in Row
           /\ overtaken' \in [Object -> SUBSET Field] /\ missed' \subseteq 1..MaxEvents
           /\ merges' \subseteq [job : Job, read : Line]
           /\ \A m \in merges' : m \in merges \/ (m.job = j /\ j.change.op = "update")
<1>1. j.change.about \in Object /\ j.change.n \in 1..MaxEvents
  BY AnnouncedTypes
<1>2. mirror.at[j.change.about] \in Line /\ merges \subseteq [job : Job, read : Line]
  BY <1>1 DEF Typed, TypeOK, Row, Line
<1>3. CASE Refuse(j.change) /\ UNCHANGED merges
  BY <1>1, <1>2, <1>3 DEF Refuse, Typed, TypeOK
<1>4. CASE Write(j.change, mirror.at[j.change.about]) /\ UNCHANGED merges
  BY <1>2, <1>4, WriteTypes
<1>5. CASE /\ j.change.op = "update"
           /\ merges' = merges \cup {[job |-> j, read |-> mirror.at[j.change.about]]}
           /\ UNCHANGED <<mirror, seen, overtaken, missed>>
  BY <1>2, <1>5 DEF Typed, TypeOK
<1>6. QED
  BY <1>3, <1>4, <1>5 DEF Handle

LEMMA TypeInit == Init => Typed
<1> SUFFICES ASSUME Init PROVE Typed
  OBVIOUS
<1>1. 1 \in 1..MaxEvents /\ 0 \in 0..MaxEvents /\ 0 \in 0..MaxFaults
  BY RosterAssumption
<1>2. at \in [Object -> Line]
  BY LineTypes DEF Init
<1>3. at \in Row /\ mirror \in [live : BOOLEAN, at : Row]
  BY <1>2 DEF Init, Row, Line
<1>4. Envelopes = {} /\ merges = {}
  BY DEF Init, Envelopes
<1>5. strayJoins \in [Guest -> Nat] /\ strayLeaves \in [Guest -> Nat]
  BY DEF Init
<1>6. QED
  BY <1>1, <1>3, <1>4, <1>5 DEF Init, Typed, TypeOK

LEMMA TypeInductive == Typed /\ [Next]_vars => Typed'
<1> SUFFICES ASSUME Typed, [Next]_vars PROVE Typed'
  OBVIOUS
<1>0. /\ TypeOK /\ Envelopes \subseteq Announced
      /\ \A m \in merges : m.job.change.op = "update"
      /\ merges \subseteq [job : Job, read : Line]
  BY DEF Typed, TypeOK, Line
<1> DEFINE Same4 == UNCHANGED <<pending, outbox, late, merges>>
<1>a. Same4 => Envelopes' = Envelopes
  BY DEF Envelopes
<1>b. Blank \in Line /\ Admitted \in Line
  BY LineTypes
<1>c. ASSUME NEW g \in Guest, NEW v \in {Blank, Admitted}
      PROVE  /\ [at EXCEPT ![g] = v] \in Row
             /\ [mirror EXCEPT !.at[g] = v] \in [live : BOOLEAN, at : Row]
  <2>1. g \in Object /\ v \in Line
    BY <1>b DEF Object, Member
  <2>2. QED
    BY <1>0, <2>1, MirrorRow DEF TypeOK, Row, Line
<1>1. CASE Announces
  BY <1>1, AnnounceTypes DEF Announces
<1>2. ASSUME NEW u \in Guest, NEW s, AdminAdd(u, s) PROVE Typed'
  <2>1. at' \in Row
    BY <1>2, <1>c DEF AdminAdd
  <2>2. Same4
    BY <1>2 DEF AdminAdd, wire, applied
  <2>3. QED
    BY <1>0, <1>2, <1>a, <2>1, <2>2 DEF AdminAdd, Typed, TypeOK, applied
<1>3. ASSUME NEW c \in pending, FanOut(c) PROVE Typed'
  <2>1. c \in Announced /\ c \in Change /\ c.n \in 1..MaxEvents
    BY <1>0, AnnouncedTypes DEF Envelopes
  <2>2. [change |-> c, left |-> Attempts] \in Job /\ [change |-> c, left |-> Attempts].change = c
    BY <2>1, RosterAssumption DEF Job
  <2>3. outbox' \subseteq Job /\ (\A j \in outbox' : j \in outbox \/ j.change = c)
    BY <1>0, <1>3, <2>2 DEF FanOut, TypeOK
  <2>4. Envelopes' \subseteq Envelopes
    BY <1>3, <2>3 DEF FanOut, Envelopes, applied
  <2>5. missed' \subseteq 1..MaxEvents
    BY <1>0, <1>3, <2>1 DEF FanOut, TypeOK
  <2>6. QED
    BY <1>0, <1>3, <2>3, <2>4, <2>5 DEF FanOut, Typed, TypeOK, requests, applied
<1>4. CASE Crash
  <2>0. \A c \in pending : c.n \in 1..MaxEvents
    BY <1>0, AnnouncedTypes DEF Envelopes
  <2>1. missed' \subseteq 1..MaxEvents
    <3>1. missed \subseteq 1..MaxEvents
      BY <1>0 DEF TypeOK
    <3>2. missed' = missed \cup {c.n : c \in pending}
      BY <1>4 DEF Crash
    <3>3. QED
      BY <2>0, <3>1, <3>2
  <2>2. faults' \in 0..MaxFaults
    BY <1>0, <1>4, RosterAssumption DEF Crash, TypeOK
  <2>3. Envelopes' \subseteq Envelopes /\ pending' = {}
    BY <1>4 DEF Crash, Envelopes, wire, applied
  <2>4. QED
    BY <1>0, <1>4, <2>1, <2>2, <2>3 DEF Crash, Typed, TypeOK, wire, requests, applied
<1>5. ASSUME NEW j \in outbox \cup late, (j \in outbox /\ Dispatch(j)) \/ (j \in late /\ HandleLate(j))
      PROVE  Typed'
  <2>1. j \in Job /\ j.change \in Announced /\ Handle(j)
    BY <1>0, <1>5 DEF Envelopes, TypeOK, Dispatch, HandleLate
  <2>2. /\ merges' \subseteq [job : Job, read : Line]
        /\ \A m \in merges' : m \in merges \/ (m.job = j /\ j.change.op = "update")
    BY <2>1, HandleTypes
  <2>3. outbox' \subseteq outbox /\ late' \subseteq late /\ UNCHANGED pending
    BY <1>5 DEF Dispatch, HandleLate, home
  <2>4. Envelopes' \subseteq Envelopes
    BY <1>5, <2>2, <2>3 DEF Envelopes
  <2>5. \A m \in merges' : m.job.change.op = "update"
    BY <1>0, <2>2
  <2>6. QED
    BY <1>0, <1>5, <2>1, <2>2, <2>3, <2>4, <2>5, HandleTypes
    DEF Dispatch, HandleLate, Typed, TypeOK, home, requests, Line
<1>6. ASSUME NEW j \in outbox, TimesOut(j) PROVE Typed'
  <2>1. j \in Job /\ j.change \in Announced /\ j.change.n \in 1..MaxEvents
    BY <1>0, AnnouncedTypes DEF Envelopes, TypeOK
  <2>2. j.left > 1 => /\ [j EXCEPT !.left = @ - 1] \in Job
                     /\ [j EXCEPT !.left = @ - 1].change = j.change
    BY <1>0, RosterAssumption DEF TypeOK, Job
  <2>3. outbox' \subseteq Job /\ (\A k \in outbox' : k \in outbox \/ k.change = j.change)
    BY <1>0, <1>6, <2>2 DEF TimesOut, TypeOK
  <2>4. Envelopes' \subseteq Envelopes
    BY <1>6, <2>3 DEF TimesOut, Envelopes, home, applied
  <2>5. missed' \subseteq 1..MaxEvents
    BY <1>0, <1>6, <2>1 DEF TimesOut, TypeOK
  <2>6. faults' \in 0..MaxFaults
    BY <1>0, <1>6, RosterAssumption DEF TimesOut, TypeOK
  <2>7. late' \subseteq Job
    BY <1>0, <1>6, <2>1 DEF TimesOut, TypeOK
  <2>8. QED
    BY <1>0, <1>6, <2>3, <2>4, <2>5, <2>6, <2>7 DEF TimesOut, Typed, TypeOK, home, requests, applied
<1>7. ASSUME NEW m \in merges, Merge(m) PROVE Typed'
  <2>1. /\ m.job.change \in Announced /\ m.read \in Line /\ m.job.change.n \in 1..MaxEvents
        /\ merges' = merges \ {m}
    BY <1>0, <1>7, AnnouncedTypes DEF Envelopes, Merge
  <2>2. Envelopes' \subseteq Envelopes
    BY <1>7 DEF Merge, Envelopes, home, wire
  <2>3. /\ mirror' \in [live : BOOLEAN, at : Row] /\ seen' \in Row
        /\ overtaken' \in [Object -> SUBSET Field] /\ missed' \subseteq 1..MaxEvents
    <3>1. CASE Write(m.job.change, m.read)
      BY <2>1, <3>1, WriteTypes
    <3>2. CASE Refuse(m.job.change)
      BY <1>0, <2>1, <3>2 DEF Refuse, TypeOK
    <3>3. QED
      BY <1>7, <3>1, <3>2 DEF Merge
  <2>4. QED
    BY <1>0, <1>7, <2>1, <2>2, <2>3 DEF Merge, Typed, TypeOK, home, wire, requests
<1>8. ASSUME NEW j \in late, NeverArrives(j) PROVE Typed'
  <2>1. Envelopes' \subseteq Envelopes
    BY <1>8 DEF NeverArrives, Envelopes, home, applied
  <2>2. QED
    BY <1>0, <1>8, <2>1 DEF NeverArrives, Typed, TypeOK, home, requests, applied
<1>e. made + asked < MaxEvents => asked + 1 \in 0..MaxEvents
  BY <1>0, RosterAssumption DEF TypeOK
<1>9. ASSUME NEW g \in Guest,
             AcceptAsk(g) \/ Admit(g) \/ AcceptFails(g) \/ AdmitLate(g) \/ AcceptMirror(g)
      PROVE  Typed'
  <2> USE DEF AcceptAsk, Admit, AcceptFails, AdmitLate, AcceptMirror
  <2>1. Same4
    BY <1>9 DEF home, wire, applied
  <2>2. at' \in Row
    BY <1>0, <1>9, <1>c DEF home, TypeOK
  <2>3. mirror' \in [live : BOOLEAN, at : Row]
    BY <1>0, <1>9, <1>c DEF applied, TypeOK
  <2>4. asked' \in 0..MaxEvents
    BY <1>0, <1>9, <1>e DEF Asks, TypeOK
  <2>5. accept' \in [Guest -> {"idle", "asked", "admitted"}]
    BY <1>0, <1>9 DEF TypeOK
  <2>6. told' \in [Guest -> {"none", "joining", "joined", "leaving", "left"}]
    BY <1>0, <1>9 DEF TypeOK
  <2>7. strayJoins' \in [Guest -> Nat] /\ strayLeaves' \in [Guest -> Nat]
    <3>1. strayJoins \in [Guest -> Nat] /\ strayJoins[g] \in Nat
      BY <1>0 DEF TypeOK
    <3>2. strayJoins[g] > 0 => strayJoins[g] - 1 \in Nat
      BY <3>1
    <3>3. QED
      BY <1>0, <1>9, <3>1, <3>2 DEF TypeOK
  <2>8. UNCHANGED <<made, last, seen, leave, faults, missed, overtaken, crossed>> /\ revived' \subseteq Guest
    BY <1>0, <1>9 DEF home, wire, applied, TypeOK
  <2> HIDE DEF AcceptAsk, Admit, AcceptFails, AdmitLate, AcceptMirror
  <2>9. QED
    BY <1>0, <1>a, <2>1, <2>2, <2>3, <2>4, <2>5, <2>6, <2>7, <2>8 DEF Typed, TypeOK
<1>10. ASSUME NEW g \in Guest, \/ LeaveAsk(g) \/ HomeLets(g) \/ LeaveFails(g) \/ HomeLetsLate(g)
                               \/ LeaveTx(g) \/ LeaveCommit(g)
       PROVE  Typed'
  <2> USE DEF LeaveAsk, HomeLets, LeaveFails, HomeLetsLate, LeaveTx, LeaveCommit
  <2>1. Same4
    BY <1>10 DEF home, wire, applied
  <2>2. at' \in Row
    BY <1>0, <1>10, <1>c DEF home, TypeOK
  <2>3. mirror' \in [live : BOOLEAN, at : Row]
    <3>1. [live |-> FALSE, at |-> [o \in Object |-> Blank]] \in [live : BOOLEAN, at : Row]
      BY <1>b DEF Row, Line
    <3>2. QED
      BY <1>0, <1>10, <1>c, <3>1 DEF applied, TypeOK
  <2>4. asked' \in 0..MaxEvents
    BY <1>0, <1>10, <1>e DEF Asks, TypeOK
  <2>5. leave' \in [Guest -> {"idle", "asked", "gone", "last", "others"}]
    BY <1>0, <1>10 DEF TypeOK
  <2>6. told' \in [Guest -> {"none", "joining", "joined", "leaving", "left"}]
    BY <1>0, <1>10 DEF TypeOK
  <2>7. crossed' \in BOOLEAN /\ revived' \subseteq Guest
    BY <1>0, <1>10 DEF TypeOK
  <2>8. strayJoins' \in [Guest -> Nat] /\ strayLeaves' \in [Guest -> Nat]
    <3>1. strayLeaves \in [Guest -> Nat] /\ strayLeaves[g] \in Nat
      BY <1>0 DEF TypeOK
    <3>2. strayLeaves[g] > 0 => strayLeaves[g] - 1 \in Nat
      BY <3>1
    <3>3. QED
      BY <1>0, <1>10, <3>1, <3>2 DEF TypeOK
  <2>9. UNCHANGED <<made, last, seen, accept, faults, missed, overtaken>>
    BY <1>10 DEF home, wire, applied
  <2> HIDE DEF LeaveAsk, HomeLets, LeaveFails, HomeLetsLate, LeaveTx, LeaveCommit
  <2>10. QED
    BY <1>0, <1>a, <2>1, <2>2, <2>3, <2>4, <2>5, <2>6, <2>7, <2>8, <2>9 DEF Typed, TypeOK
<1>11. CASE UNCHANGED vars
  BY <1>0, <1>11, <1>a DEF vars, home, wire, requests, applied, Typed, TypeOK
<1>12. QED
  BY <1>0, <1>1, <1>2, <1>3, <1>4, <1>5, <1>6, <1>7, <1>8, <1>9, <1>10, <1>11, Announcements DEF Next, Member

\* At every moment all variables have their types.
THEOREM TypeCorrect == Spec => []TypeOK
<1>1. Typed => TypeOK
  BY DEF Typed
<1>2. QED
  BY <1>1, TypeInit, TypeInductive, PTL DEF Spec

-----------------------------------------------------------------------------
\* A user told that they joined is not leaving, and nobody's leave is about to take
\* the mirror down; one whose join is under way is not leaving either.
Joins == \A g \in Guest :
    /\ told[g] = "joined" => mirror.live /\ mirror.at[g] # Blank /\ leave[g] = "idle" /\ ~ TearingDown
    /\ told[g] = "joining" => leave[g] = "idle"

\* A user told that they left has no request under way, and one whose leave the home
\* has granted no row there, but for a join that arrived after it.
Leaves == \A g \in Guest :
    /\ told[g] = "left" => /\ at[g] = Blank \/ g \in revived
                           /\ mirror.at[g] = Blank /\ accept[g] = "idle" /\ leave[g] = "idle"
    /\ told[g] = "leaving" => /\ accept[g] = "idle" /\ leave[g] # "idle"
                              /\ leave[g] \in {"gone", "last", "others"} =>
                                    at[g] = Blank \/ g \in revived

\* While no two transactions overlapped, only one is open, and the user it found
\* beside the leaver is still there.
Inhabited == mirror.live /\ ~ crossed =>
    /\ \E g \in Guest : mirror.at[g] # Blank
    /\ \A g \in Guest : leave[g] = "others" => \E h \in Guest \ {g} : mirror.at[h] # Blank
    /\ \A g, h \in Guest : leave[g] \in {"last", "others"} /\ leave[h] \in {"last", "others"} => g = h

Requests == Joins /\ Leaves /\ Inhabited

\* No envelope touches the rows of the peer's own users.
LEMMA WriteSparesGuests ==
    ASSUME Typed, NEW c \in Announced, NEW read \in Line, Write(c, read),
           c.about \in Guest => read = mirror.at[c.about]
    PROVE  mirror'.live = mirror.live /\ \A g \in Guest : mirror'.at[g] = mirror.at[g]
<1>1. c.about \in Object /\ c.n \in 0..MaxEvents /\ c.fields \subseteq Field
      /\ (c.about \in Guest => c.op = "remove")
  BY AnnouncedTypes
<1>2. RowAfter(c, read) \in Line /\ (c.about \in Guest => RowAfter(c, read) = mirror.at[c.about])
  BY <1>1, LineTypes DEF RowAfter
<1>3. mirror' = [mirror EXCEPT !.at[c.about] = RowAfter(c, read)]
  BY DEF Write
<1>4. mirror'.live = mirror.live /\ mirror'.at = [mirror.at EXCEPT ![c.about] = RowAfter(c, read)]
  BY <1>1, <1>2, <1>3, MirrorRow DEF Typed, TypeOK
<1>5. mirror.at \in [Object -> Line] /\ \A g \in Guest : g \in Object
  BY DEF Typed, TypeOK, Row, Line, Object, Member
<1>6. QED
  BY <1>2, <1>4, <1>5

LEMMA HandleSparesGuests ==
    ASSUME Typed, NEW j \in Job, j.change \in Announced, Handle(j)
    PROVE  mirror'.live = mirror.live /\ \A g \in Guest : mirror'.at[g] = mirror.at[g]
<1>1. mirror.at[j.change.about] \in Line
  BY AnnouncedTypes DEF Typed, TypeOK, Row, Line
<1>2. CASE Write(j.change, mirror.at[j.change.about])
  BY <1>1, <1>2, WriteSparesGuests
<1>3. CASE UNCHANGED mirror
  BY <1>3
<1>4. QED
  BY <1>2, <1>3 DEF Handle, Refuse

\* A step that leaves the requests and the guests' rows of the mirror alone, and at
\* the home at most takes a guest's row away.
Aside ==
    /\ UNCHANGED requests
    /\ mirror'.live = mirror.live
    /\ \A g \in Guest : mirror'.at[g] = mirror.at[g] /\ (at[g] = Blank => at'[g] = Blank)

LEMMA RequestsAside == Requests /\ Aside => Requests'
<1> SUFFICES ASSUME Requests, Aside PROVE Requests'
  OBVIOUS
<1> USE DEF Requests, Aside, requests
<1>1. Joins'
  BY DEF Joins, TearingDown
<1>2. Leaves'
  BY DEF Leaves
<1>3. Inhabited'
  BY DEF Inhabited
<1>4. QED
  BY <1>1, <1>2, <1>3

\* An announcement removes a guest at most.
LEMMA AnnounceAside ==
    ASSUME Typed, NEW op \in Op, NEW o \in Object, NEW fields \in SUBSET Field, NEW signer,
           Announce(op, o, fields, signer)
    PROVE  Aside
<1> DEFINE c == [op |-> op, about |-> o, fields |-> fields, n |-> made + 1, signer |-> signer]
<1>1. c \in Announced /\ c.op = op /\ c.about = o
  BY DEF Announce
<1>2. o \in Guest => op = "remove"
  BY <1>1, AnnouncedTypes
<1>3. \A g \in Guest : g \in Object
  BY DEF Object, Member
<1>4. \A g \in Guest : at[g] = Blank => at'[g] = Blank
  BY <1>2, <1>3 DEF Announce, Commit, Typed, TypeOK, Row
<1>5. QED
  BY <1>4 DEF Aside, Announce, applied

LEMMA RequestsInit == Init => Requests
<1> SUFFICES ASSUME Init PROVE Requests
  OBVIOUS
<1>1. \A g \in Guest : told[g] = "none" /\ leave[g] = "idle"
  BY DEF Init
<1>2. \E g \in Guest : mirror.at[g] # Blank
  <2>1. PICK first \in SUBSET (Channel \cup Guest) :
            /\ first \cap Guest # {}
            /\ at = [o \in Object |-> IF o \in first THEN Admitted ELSE Blank]
    BY DEF Init
  <2>2. PICK g \in Guest : g \in first
    BY <2>1
  <2>3. at[g] # Blank
    BY <2>1, <2>2, LineTypes DEF Object, Member
  <2>4. mirror.at = at
    BY DEF Init
  <2>5. QED
    BY <2>3, <2>4
<1>3. QED
  BY <1>1, <1>2 DEF Requests, Joins, Leaves, Inhabited

LEMMA RequestsInductive == Typed /\ Requests /\ [Next]_vars => Requests'
<1> SUFFICES ASSUME Typed, Requests, [Next]_vars PROVE Requests'
  OBVIOUS
<1>0. /\ TypeOK /\ Envelopes \subseteq Announced
      /\ Joins /\ Leaves /\ Inhabited
      /\ mirror \in [live : BOOLEAN, at : Row]
      /\ mirror.at \in [Object -> Line]
      /\ \A g \in Guest : g \in Object
  BY DEF Typed, TypeOK, Requests, Object, Member, Row, Line
<1>b. Blank \in Line /\ Admitted \in Line /\ Admitted # Blank
  BY LineTypes
<1>m. ASSUME NEW g \in Guest, NEW v \in Line, mirror' = [mirror EXCEPT !.at[g] = v]
      PROVE  /\ mirror'.live = mirror.live
             /\ \A h \in Guest : mirror'.at[h] = IF h = g THEN v ELSE mirror.at[h]
  <2>1. mirror'.live = mirror.live /\ mirror'.at = [mirror.at EXCEPT ![g] = v]
    BY <1>0, <1>m, MirrorRow
  <2>2. QED
    BY <1>0, <2>1
<1>1. CASE Announces
  BY <1>1, AnnounceAside, RequestsAside DEF Announces
<1>2. ASSUME NEW u \in Guest, NEW s, AdminAdd(u, s) PROVE Requests'
  <2>1. UNCHANGED <<mirror, leave, accept, crossed, revived>>
    BY <1>2 DEF AdminAdd, applied
  <2>2. at' = [at EXCEPT ![u] = Admitted] /\ told' = [told EXCEPT ![u] = "none"]
    BY <1>2 DEF AdminAdd
  <2>3. \A g \in Guest : told'[g] = IF g = u THEN "none" ELSE told[g]
    BY <1>0, <2>2 DEF TypeOK
  <2>4. \A g \in Guest : g # u => at'[g] = at[g]
    BY <1>0, <2>2 DEF TypeOK, Row
  <2>5. Joins'
    BY <1>0, <2>1, <2>3 DEF Joins, TearingDown
  <2>6. Leaves'
    BY <1>0, <2>1, <2>3, <2>4 DEF Leaves
  <2>7. Inhabited'
    BY <1>0, <2>1 DEF Inhabited
  <2>8. QED
    BY <2>5, <2>6, <2>7 DEF Requests
<1>3. ASSUME NEW c \in pending, FanOut(c) PROVE Requests'
  BY <1>3, RequestsAside DEF Aside, FanOut, applied
<1>4. CASE Crash
  BY <1>4, RequestsAside DEF Aside, Crash, applied
<1>5. ASSUME NEW j \in outbox \cup late, (j \in outbox /\ Dispatch(j)) \/ (j \in late /\ HandleLate(j))
      PROVE  Requests'
  <2>1. j \in Job /\ j.change \in Announced /\ Handle(j)
    BY <1>0, <1>5 DEF Envelopes, TypeOK, Dispatch, HandleLate
  <2>2. UNCHANGED <<home, requests>>
    BY <1>5 DEF Dispatch, HandleLate
  <2>3. QED
    BY <2>1, <2>2, HandleSparesGuests, RequestsAside DEF Aside, home
<1>6. ASSUME NEW j \in outbox, TimesOut(j) PROVE Requests'
  BY <1>6, RequestsAside DEF Aside, TimesOut, applied, home
<1>7. ASSUME NEW m \in merges, Merge(m) PROVE Requests'
  <2>1. m.job.change \in Announced /\ m.job.change.about \notin Guest /\ m.read \in Line
    BY <1>0, AnnouncedTypes DEF Envelopes, Typed, TypeOK, Line
  <2>2. Write(m.job.change, m.read) \/ UNCHANGED mirror
    BY <1>7 DEF Merge, Refuse
  <2>3. mirror'.live = mirror.live /\ \A g \in Guest : mirror'.at[g] = mirror.at[g]
    BY <2>1, <2>2, WriteSparesGuests
  <2>4. QED
    BY <1>7, <2>3, RequestsAside DEF Aside, Merge, home
<1>8. ASSUME NEW j \in late, NeverArrives(j) PROVE Requests'
  BY <1>8, RequestsAside DEF Aside, NeverArrives, applied, home
<1>9. ASSUME NEW g \in Guest, AcceptAsk(g) PROVE Requests'
  <2>1. UNCHANGED <<at, mirror, leave, crossed, revived>>
    BY <1>9 DEF AcceptAsk, applied, home
  <2>2. \A h \in Guest :
          /\ told'[h] = IF h = g THEN IF leave[g] = "idle" THEN "joining" ELSE "none" ELSE told[h]
          /\ h # g => accept'[h] = accept[h]
    BY <1>0, <1>9 DEF AcceptAsk, TypeOK
  <2>3. QED
    BY <1>0, <2>1, <2>2 DEF Requests, Joins, Leaves, Inhabited, TearingDown
<1>10. ASSUME NEW g \in Guest, Admit(g) PROVE Requests'
  <2>1. UNCHANGED <<mirror, leave, crossed, told, revived>> /\ accept[g] = "asked"
    BY <1>10 DEF Admit, applied
  <2>2. \A h \in Guest : h # g => at'[h] = at[h] /\ accept'[h] = accept[h]
    BY <1>0, <1>10 DEF Admit, TypeOK, Row
  <2>3. told[g] # "left" /\ told[g] # "leaving"
    BY <1>0, <2>1 DEF Leaves
  <2>4. QED
    BY <1>0, <2>1, <2>2, <2>3 DEF Requests, Joins, Leaves, Inhabited, TearingDown
<1>11. ASSUME NEW g \in Guest, AcceptFails(g) PROVE Requests'
  <2>1. UNCHANGED <<at, mirror, leave, crossed, revived>>
    BY <1>11 DEF AcceptFails, applied, home
  <2>2. \A h \in Guest :
          /\ told'[h] = IF h = g THEN "none" ELSE told[h]
          /\ h # g => accept'[h] = accept[h]
    BY <1>0, <1>11 DEF AcceptFails, TypeOK
  <2>3. QED
    BY <1>0, <2>1, <2>2 DEF Requests, Joins, Leaves, Inhabited, TearingDown
<1>12. ASSUME NEW g \in Guest, AdmitLate(g) PROVE Requests'
  <2>1. UNCHANGED <<mirror, leave, accept, crossed, told>> /\ revived' = revived \cup {g}
    BY <1>12 DEF AdmitLate, applied
  <2>2. \A h \in Guest : h # g => at'[h] = at[h]
    BY <1>0, <1>12 DEF AdmitLate, TypeOK, Row
  <2>3. QED
    BY <1>0, <2>1, <2>2 DEF Requests, Joins, Leaves, Inhabited, TearingDown
<1>13. ASSUME NEW g \in Guest, AcceptMirror(g) PROVE Requests'
  <2>1. UNCHANGED <<at, leave, crossed, revived>>
    BY <1>13 DEF AcceptMirror, home
  <2>2. \A h \in Guest : h # g => told'[h] = told[h] /\ accept'[h] = accept[h]
    BY <1>0, <1>13 DEF AcceptMirror, TypeOK
  <2>3. \/ told'[g] = "none"
        \/ told'[g] = "joined" /\ told[g] = "joining" /\ mirror.live /\ ~ TearingDown
    BY <1>0, <1>13 DEF AcceptMirror, TypeOK
  <2>4. /\ mirror'.live = mirror.live /\ \A h \in Guest : h # g => mirror'.at[h] = mirror.at[h]
        /\ mirror.live => mirror'.at[g] # Blank
    <3>1. CASE mirror.live
      <4>1. mirror' = [mirror EXCEPT !.at[g] = Admitted]
        BY <1>13, <3>1 DEF AcceptMirror
      <4>2. QED
        BY <1>b, <1>m, <4>1
    <3>2. CASE ~ mirror.live
      BY <1>13, <3>2 DEF AcceptMirror
    <3>3. QED
      BY <3>1, <3>2
  <2>5. Joins'
    BY <1>0, <2>1, <2>2, <2>3, <2>4 DEF Joins, TearingDown
  <2>6. Leaves'
    BY <1>0, <2>1, <2>2, <2>3, <2>4 DEF Leaves
  <2>7. Inhabited'
    <3>1. \A h \in Guest : mirror.live /\ mirror.at[h] # Blank => mirror'.at[h] # Blank
      BY <2>4
    <3>2. QED
      BY <1>0, <2>1, <2>4, <3>1 DEF Inhabited
  <2>8. QED
    BY <2>5, <2>6, <2>7 DEF Requests
<1>14. ASSUME NEW g \in Guest, LeaveAsk(g) PROVE Requests'
  <2>1. UNCHANGED <<at, mirror, accept, crossed, revived>>
    BY <1>14 DEF LeaveAsk, home, applied
  <2>2. \A h \in Guest :
          /\ told'[h] = IF h = g THEN IF accept[g] = "idle" THEN "leaving" ELSE "none" ELSE told[h]
          /\ leave'[h] = IF h = g THEN "asked" ELSE leave[h]
    BY <1>0, <1>14 DEF LeaveAsk, TypeOK
  <2>3. QED
    BY <1>0, <2>1, <2>2 DEF Requests, Joins, Leaves, Inhabited, TearingDown
<1>15. ASSUME NEW g \in Guest, HomeLets(g) PROVE Requests'
  <2>1. UNCHANGED <<mirror, accept, told, crossed>> /\ leave[g] = "asked" /\ revived' = revived \ {g}
    BY <1>15 DEF HomeLets, applied
  <2>2. \A h \in Guest :
          /\ leave'[h] = IF h = g THEN "gone" ELSE leave[h]
          /\ at'[h] = IF h = g THEN Blank ELSE at[h]
    BY <1>0, <1>15 DEF HomeLets, TypeOK, Row
  <2>3. QED
    BY <1>0, <2>1, <2>2 DEF Requests, Joins, Leaves, Inhabited, TearingDown
<1>16. ASSUME NEW g \in Guest, LeaveFails(g) PROVE Requests'
  <2>1. UNCHANGED <<at, mirror, accept, crossed, revived>> /\ leave[g] \in {"asked", "gone"}
    BY <1>16 DEF LeaveFails, home, applied
  <2>2. \A h \in Guest :
          /\ told'[h] = IF h = g THEN "none" ELSE told[h]
          /\ leave'[h] = IF h = g THEN "idle" ELSE leave[h]
    BY <1>0, <1>16 DEF LeaveFails, TypeOK
  <2>3. QED
    BY <1>0, <2>1, <2>2 DEF Requests, Joins, Leaves, Inhabited, TearingDown
<1>17. ASSUME NEW g \in Guest, HomeLetsLate(g) PROVE Requests'
  <2>1. UNCHANGED <<mirror, leave, accept, revived, told, crossed>>
    BY <1>17 DEF HomeLetsLate, applied
  <2>2. \A h \in Guest : at'[h] = IF h = g THEN Blank ELSE at[h]
    BY <1>0, <1>17 DEF HomeLetsLate, TypeOK, Row
  <2>3. QED
    BY <1>0, <2>1, <2>2 DEF Requests, Joins, Leaves, Inhabited, TearingDown
<1>18. ASSUME NEW g \in Guest, LeaveTx(g) PROVE Requests'
  <2>1. UNCHANGED <<at, mirror, accept, told, revived>> /\ leave[g] = "gone"
    BY <1>18 DEF LeaveTx, home, applied
  <2>2. \A h \in Guest :
          leave'[h] = IF h = g THEN IF \E k \in Guest \ {g} : mirror.at[k] # Blank THEN "others" ELSE "last"
                               ELSE leave[h]
    BY <1>0, <1>18 DEF LeaveTx, TypeOK
  <2>3. crossed' = (crossed \/ \E h \in Guest \ {g} : leave[h] \in {"last", "others"})
    BY <1>18 DEF LeaveTx
  <2>4. Joins'
    BY <1>0, <2>1, <2>2 DEF Joins, TearingDown
  <2>5. Leaves'
    BY <1>0, <2>1, <2>2 DEF Leaves
  <2>6. Inhabited'
    BY <1>0, <2>1, <2>2, <2>3 DEF Inhabited
  <2>7. QED
    BY <2>4, <2>5, <2>6 DEF Requests
<1>19. ASSUME NEW g \in Guest, LeaveCommit(g) PROVE Requests'
  <2>1. UNCHANGED <<at, accept, crossed, revived>> /\ leave[g] \in {"last", "others"}
    BY <1>19 DEF LeaveCommit, home
  <2>2. \A h \in Guest :
          /\ told'[h] = IF h = g THEN IF told[g] = "leaving" THEN "left" ELSE "none" ELSE told[h]
          /\ leave'[h] = IF h = g THEN "idle" ELSE leave[h]
    BY <1>0, <1>19 DEF LeaveCommit, TypeOK
  <2>3. /\ mirror'.at[g] = Blank
        /\ \A h \in Guest \ {g} : mirror'.at[h] = IF leave[g] = "last" THEN Blank ELSE mirror.at[h]
        /\ mirror'.live = (mirror.live /\ leave[g] # "last")
    <3>1. CASE leave[g] = "last"
      BY <1>0, <1>19, <3>1 DEF LeaveCommit
    <3>2. CASE leave[g] # "last"
      <4>1. mirror' = [mirror EXCEPT !.at[g] = Blank]
        BY <1>19, <3>2 DEF LeaveCommit
      <4>2. mirror.live \in BOOLEAN
        BY <1>0
      <4>3. QED
        BY <1>b, <1>m, <3>2, <4>1, <4>2
    <3>3. QED
      BY <3>1, <3>2
  <2>4. Joins'
    BY <1>0, <2>1, <2>2, <2>3 DEF Joins, TearingDown
  <2>5. Leaves'
    BY <1>0, <2>1, <2>2, <2>3 DEF Leaves
  <2>6. Inhabited'
    <3>1. SUFFICES ASSUME mirror'.live, ~ crossed' PROVE
            /\ \E h \in Guest : mirror'.at[h] # Blank
            /\ \A h \in Guest : leave'[h] \notin {"last", "others"}
      BY DEF Inhabited
    <3>2. mirror.live /\ ~ crossed /\ leave[g] = "others"
      BY <2>1, <2>3, <3>1
    <3>3. PICK h \in Guest \ {g} : mirror.at[h] # Blank
      BY <1>0, <3>2 DEF Inhabited
    <3>4. mirror'.at[h] # Blank
      BY <2>3, <3>2, <3>3
    <3>5. \A k \in Guest : leave[k] \in {"last", "others"} => k = g
      BY <1>0, <3>2 DEF Inhabited
    <3>6. QED
      BY <2>2, <3>4, <3>5
  <2>7. QED
    BY <2>4, <2>5, <2>6 DEF Requests
<1>20. CASE UNCHANGED vars
  BY <1>20, RequestsAside DEF Aside, vars, home, applied
<1>21. QED
  BY <1>1, <1>2, <1>3, <1>4, <1>5, <1>6, <1>7, <1>8, <1>9, <1>10, <1>11, <1>12, <1>13, <1>14, <1>15,
     <1>16, <1>17, <1>18, <1>19, <1>20, <1>0, Announcements DEF Next, Member

\* A user told that they joined is on the mirror, whatever the other users of the peer
\* do, unless a leave was about to take it down when their row was added.
THEOREM JoinsHold == Spec => []JoinedIsOnMirror
<1>1. Requests => JoinedIsOnMirror
  BY DEF Requests, Joins, JoinedIsOnMirror
<1>2. QED
  BY <1>1, TypeInit, TypeInductive, RequestsInit, RequestsInductive, PTL DEF Spec

\* Until they ask to join, or an admin adds them, a user told that they left is not on
\* the mirror, and on the home's roster only by a join that had failed for them and
\* that the home took after it let them go.
THEOREM LeavesHold == Spec => []LeftIsGone
<1>1. Requests => LeftIsGone
  BY DEF Requests, Leaves, LeftIsGone
<1>2. QED
  BY <1>1, TypeInit, TypeInductive, RequestsInit, RequestsInductive, PTL DEF Spec

\* A mirror without users of the peer takes two leaves whose transactions overlapped.
THEOREM MirrorsHaveUsers == Spec => []NoOrphanMirror
<1>1. Requests => NoOrphanMirror
  BY DEF Requests, Inhabited, NoOrphanMirror
<1>2. QED
  BY <1>1, TypeInit, TypeInductive, RequestsInit, RequestsInductive, PTL DEF Spec

-----------------------------------------------------------------------------
Copied == Object \ Guest

\* The field of the home's row is what the change wrote.
Written(c, f) == at[c.about][f] = (IF c.op \in {"delete", "remove"} THEN 0 ELSE c.n)

\* An envelope is about the fields its number says, and no newer than their last change;
\* the last change is what the row says.
InOrder(c) ==
    /\ \A f \in c.fields : /\ c.n <= last[c.about][f]
                           /\ c.about \in Copied /\ c.n = last[c.about][f] => Written(c, f)
    /\ \A o \in Object, f \in Field : c.n = last[o][f] => c.about = o /\ f \in c.fields
Numbered ==
    /\ \A o \in Object, f \in Field : last[o][f] <= made
    /\ \A c \in Envelopes : c.n <= made /\ InOrder(c)

\* The changes that the peer will still be sent, or is writing.
Waiting == pending \cup {j.change : j \in outbox} \cup {m.job.change : m \in merges}
Owed(o, f) == last[o][f] \in missed \/ \E c \in Waiting : c.about = o /\ c.n = last[o][f]

\* A change the peer has not seen is on its way or was missed, and a field at which the
\* last change was applied last is as at the home.
Follows(o, f) ==
    /\ seen[o][f] <= last[o][f]
    /\ seen[o][f] < last[o][f] => Owed(o, f)
    /\ mirror.live /\ f \notin overtaken[o] /\ seen[o][f] = last[o][f] => Same(o, f)
Tracked == \A o \in Copied, f \in Field : Follows(o, f)

Copies == Numbered /\ Tracked

\* A step that touches no copied row and nothing on its way, or takes the mirror down.
Apart ==
    /\ UNCHANGED <<pending, outbox, late, merges, last, made, seen, missed, overtaken>>
    /\ \A o \in Copied : at'[o] = at[o]
    /\ mirror'.live => mirror.live /\ \A o \in Copied : mirror'.at[o] = mirror.at[o]

LEMMA CopiesApart == Copies /\ Apart => Copies'
<1> SUFFICES ASSUME Copies, Apart PROVE Copies'
  OBVIOUS
<1>1. Envelopes' = Envelopes /\ Waiting' = Waiting
  BY DEF Apart, Envelopes, Waiting
<1>2. Numbered'
  BY <1>1 DEF Copies, Apart, Numbered, InOrder, Written
<1>3. \A o \in Copied, f \in Field : Owed(o, f) => Owed(o, f)'
  BY <1>1 DEF Apart, Owed
<1>4. Tracked'
  BY <1>3 DEF Copies, Apart, Tracked, Follows, Same
<1>5. QED
  BY <1>2, <1>4 DEF Copies

\* Nothing is handled, and what is no longer sent is missed.
LEMMA TrackedWithout ==
    ASSUME Tracked, UNCHANGED <<at, last, mirror, seen, overtaken>>,
           missed \subseteq missed',
           \A c \in Waiting : c \in Waiting' \/ c.n \in missed'
    PROVE  Tracked'
<1>1. \A o \in Copied, f \in Field : Owed(o, f) => Owed(o, f)'
  BY DEF Owed
<1>2. QED
  BY <1>1 DEF Tracked, Follows, Same

\* What is written brings its fields up to date, or is older than what was applied.
LEMMA WriteTracks ==
    ASSUME Typed, Copies, NEW c \in Envelopes, NEW read \in Line, Write(c, read), UNCHANGED <<at, last>>,
           \A d \in Waiting : d \in Waiting' \/ d = c
    PROVE  Tracked'
<1>0. /\ c \in Announced /\ c.about \in Object /\ c.n \in Nat /\ c.fields \subseteq Field
      /\ c.n \in 0..MaxEvents
      /\ c.op \in {"delete", "remove"} => c.fields = Field
      /\ InOrder(c)
  BY AnnouncedTypes DEF Typed, Copies, Numbered
<1>1. /\ mirror \in [live : BOOLEAN, at : Row] /\ mirror.at \in [Object -> Line]
      /\ seen \in [Object -> Line] /\ last \in [Object -> Line]
      /\ overtaken \in [Object -> SUBSET Field]
      /\ \A o \in Object, f \in Field : seen[o][f] \in Nat /\ last[o][f] \in Nat
  BY DEF Typed, TypeOK, Row, Line
<1>2. RowAfter(c, read) \in Line
  BY <1>0, LineTypes DEF RowAfter
<1>3. mirror'.live = mirror.live /\ mirror'.at = [mirror.at EXCEPT ![c.about] = RowAfter(c, read)]
  BY <1>0, <1>1, <1>2, MirrorRow DEF Write
<1>4. /\ missed' = missed \ {c.n}
      /\ overtaken' = [overtaken EXCEPT ![c.about] = (@ \ c.fields) \cup Outdated(c, read)]
  BY DEF Write
<1>5. \A f \in Field : seen'[c.about][f] = IF f \in c.fields /\ c.n > seen[c.about][f] THEN c.n
                                           ELSE seen[c.about][f]
  BY <1>0, <1>1 DEF Write
<1>6. \A o \in Object \ {c.about} :
         seen'[o] = seen[o] /\ mirror'.at[o] = mirror.at[o] /\ overtaken'[o] = overtaken[o]
  BY <1>0, <1>1, <1>3, <1>4 DEF Write
<1>7. ASSUME NEW o \in Copied, NEW f \in Field, o # c.about \/ f \notin c.fields, Owed(o, f)
      PROVE  Owed(o, f)'
  <2>1. c.n # last[o][f]
    BY <1>0, <1>7 DEF InOrder, Copied
  <2>2. CASE last[o][f] \in missed
    BY <1>4, <2>1, <2>2 DEF Owed
  <2>3. CASE \E d \in Waiting : d.about = o /\ d.n = last[o][f]
    BY <2>1, <2>3 DEF Owed
  <2>4. QED
    BY <1>7, <2>2, <2>3 DEF Owed
<1>8. ASSUME NEW o \in Copied, NEW f \in Field, o # c.about PROVE Follows(o, f)'
  <2>1. o \in Object \ {c.about}
    BY <1>8 DEF Copied
  <2>2. Same(o, f) => Same(o, f)'
    BY <1>6, <2>1 DEF Same
  <2>3. Follows(o, f)
    BY DEF Copies, Tracked
  <2>4. QED
    BY <1>3, <1>6, <1>7, <1>8, <2>1, <2>2, <2>3 DEF Follows
<1>9. ASSUME c.about \in Copied, NEW f \in Field, f \notin c.fields PROVE Follows(c.about, f)'
  <2>1. seen'[c.about][f] = seen[c.about][f]
    BY <1>5, <1>9
  <2>2. mirror'.at[c.about][f] = read[f]
    <3>1. RowAfter(c, read)[f] = read[f]
      BY <1>0, <1>9, LineTypes DEF RowAfter
    <3>2. QED
      BY <1>0, <1>1, <1>3, <3>1
  <2>3. f \notin overtaken'[c.about] => f \notin overtaken[c.about] /\ read[f] = mirror.at[c.about][f]
    BY <1>0, <1>1, <1>4, <1>9 DEF Outdated
  <2>4. f \notin overtaken'[c.about] /\ Same(c.about, f) => Same(c.about, f)'
    BY <2>2, <2>3 DEF Same
  <2>5. Follows(c.about, f)
    BY <1>9 DEF Copies, Tracked
  <2>6. QED
    BY <1>3, <1>7, <1>9, <2>1, <2>3, <2>4, <2>5 DEF Follows
<1>10. ASSUME c.about \in Copied, NEW f \in c.fields PROVE Follows(c.about, f)'
  <2> DEFINE o == c.about
  <2>1. Follows(o, f) /\ f \in Field
    BY <1>0, <1>10 DEF Copies, Tracked
  <2>2. seen[o][f] \in Nat /\ last[o][f] \in Nat /\ c.n <= last[o][f]
    BY <1>0, <1>1, <2>1 DEF InOrder
  <2>3. seen'[o][f] = IF c.n > seen[o][f] THEN c.n ELSE seen[o][f]
    BY <1>5, <2>1
  <2>4. seen'[o][f] <= last'[o][f]
    BY <1>0, <2>1, <2>2, <2>3 DEF Follows
  <2>5. ASSUME seen'[o][f] < last'[o][f] PROVE Owed(o, f)'
    <3>1. c.n # last[o][f] /\ seen[o][f] < last[o][f]
      BY <1>0, <2>2, <2>3, <2>5
    <3>2. Owed(o, f)
      BY <2>1, <3>1 DEF Follows
    <3>3. QED
      BY <1>4, <3>1, <3>2 DEF Owed
  <2>6. ASSUME f \notin overtaken'[o], seen'[o][f] = last'[o][f] PROVE Same(o, f)'
    <3>1. f \notin Outdated(c, read)
      BY <1>0, <1>1, <1>4, <2>6
    <3>2. ~ (c.n < seen[o][f])
      BY <2>1, <3>1 DEF Outdated
    <3>3. c.n = last[o][f]
      BY <1>0, <2>2, <2>3, <2>6, <3>2
    <3>4. at[o][f] = (IF c.op \in {"delete", "remove"} THEN 0 ELSE c.n)
      BY <1>0, <1>10, <3>3 DEF InOrder, Written
    <3>5. mirror'.at[o][f] = (IF c.op \in {"delete", "remove"} THEN 0 ELSE c.n)
      <4>1. RowAfter(c, read)[f] = (IF c.op \in {"delete", "remove"} THEN 0 ELSE c.n)
        BY <1>0, <1>10, <2>1, LineTypes DEF RowAfter, Copied
      <4>2. QED
        BY <1>0, <1>1, <1>3, <4>1
    <3>6. QED
      BY <3>4, <3>5 DEF Same
  <2>7. QED
    BY <2>4, <2>5, <2>6 DEF Follows
<1>11. QED
  BY <1>8, <1>9, <1>10 DEF Tracked

\* What is refused is missed.
LEMMA RefuseTracks ==
    ASSUME Tracked, NEW c, Refuse(c), UNCHANGED <<at, last>>,
           \A d \in Waiting : d \in Waiting' \/ d = c
    PROVE  Tracked'
<1>1. UNCHANGED <<mirror, seen, overtaken>> /\ missed' = missed \cup {c.n}
  BY DEF Refuse
<1>2. \A d \in Waiting : d \in Waiting' \/ d.n \in missed'
  BY <1>1
<1>3. QED
  BY <1>1, <1>2, TrackedWithout

\* With fewer envelopes on their way the numbering holds as it did.
LEMMA NumberedShrinks ==
    ASSUME Numbered, Envelopes' \subseteq Envelopes, UNCHANGED <<at, last, made>>
    PROVE  Numbered'
BY DEF Numbered, InOrder, Written

LEMMA AnnounceCopies ==
    ASSUME Typed, Copies, NEW op \in Op, NEW o \in Object, NEW fields \in SUBSET Field, NEW signer,
           Announce(op, o, fields, signer)
    PROVE  Copies'
<1>0. PICK c : c = [op |-> op, about |-> o, fields |-> fields, n |-> made + 1, signer |-> signer]
  OBVIOUS
<1>1. /\ c.op = op /\ c.about = o /\ c.n = made + 1 /\ c.fields = fields
      /\ c \in Announced /\ (op \in {"delete", "remove"} => fields = Field)
  <2>1. c.op = op /\ c.about = o /\ c.n = made + 1 /\ c.fields = fields /\ c \in Announced
    BY <1>0 DEF Announce
  <2>2. QED
    BY <2>1, AnnouncedTypes
<1>2. /\ pending' = pending \cup {c}
      /\ UNCHANGED <<outbox, late, merges, mirror, seen, overtaken, missed>>
      /\ made' = made + 1 /\ made \in Nat
  BY <1>0 DEF Announce, Commit, wire, applied, Typed, TypeOK
<1>3. Envelopes' = Envelopes \cup {c} /\ Waiting' = Waiting \cup {c}
  BY <1>2 DEF Envelopes, Waiting
<1>t. /\ at \in [Object -> Line] /\ last \in [Object -> Line] /\ seen \in [Object -> Line]
      /\ made + 1 \in 0..MaxEvents
      /\ \A p \in Object, f \in Field : last[p][f] \in Nat /\ seen[p][f] \in Nat /\ last[p][f] <= made
  <2>1. /\ at \in [Object -> Line] /\ last \in [Object -> Line] /\ seen \in [Object -> Line]
    BY DEF Typed, TypeOK, Row, Line
  <2>2. \A p \in Object, f \in Field : last[p][f] \in Nat /\ seen[p][f] \in Nat
    BY <2>1 DEF Line
  <2>3. made + 1 \in 0..MaxEvents
    BY <1>1, AnnouncedTypes
  <2>4. QED
    BY <2>1, <2>2, <2>3 DEF Copies, Numbered
<1>4. /\ \A f \in Field : last'[o][f] = IF f \in fields THEN made + 1 ELSE last[o][f]
      /\ \A f \in fields : at'[o][f] = IF op \in {"delete", "remove"} THEN 0 ELSE made + 1
      /\ \A f \in Field \ fields : at'[o][f] = at[o][f]
      /\ \A p \in Object \ {o} : at'[p] = at[p] /\ last'[p] = last[p]
  <2>1. last' = [last EXCEPT ![o] = Over(last[o], fields, made + 1)]
    BY DEF Announce, Commit
  <2>2. at' = [at EXCEPT ![o] = IF op \in {"delete", "remove"} THEN Blank ELSE Over(at[o], fields, made + 1)]
    BY DEF Announce, Commit
  <2>3. at[o] \in Line /\ last[o] \in Line
    BY <1>t
  <2>4. /\ \A f \in Field : Over(last[o], fields, made + 1)[f] = IF f \in fields THEN made + 1 ELSE last[o][f]
        /\ \A f \in Field : Over(at[o], fields, made + 1)[f] = IF f \in fields THEN made + 1 ELSE at[o][f]
        /\ \A f \in Field : Blank[f] = 0
    BY <1>t, <2>3, LineTypes
  <2>5. \A f \in Field : last'[o][f] = IF f \in fields THEN made + 1 ELSE last[o][f]
    BY <1>t, <2>1, <2>4
  <2>6. \A p \in Object \ {o} : at'[p] = at[p] /\ last'[p] = last[p]
    BY <1>t, <2>1, <2>2
  <2>7. at'[o] = IF op \in {"delete", "remove"} THEN Blank ELSE Over(at[o], fields, made + 1)
    BY <1>t, <2>2
  <2>8. QED
    BY <1>1, <2>4, <2>5, <2>6, <2>7
<1>6. \A d \in Envelopes : /\ d.n \in Nat /\ d.about \in Object /\ d.n <= made /\ InOrder(d)
                           /\ d.fields \subseteq Field
  BY AnnouncedTypes DEF Typed, Copies, Numbered
<1>8. Numbered'
  <2>1. \A p \in Object, f \in Field : last'[p][f] <= made'
    BY <1>2, <1>4, <1>t
  <2>2. \A p \in Object, f \in Field : c.n = last'[p][f] => c.about = p /\ f \in c.fields
    BY <1>1, <1>2, <1>4, <1>t
  <2>3. \A f \in fields : c.n <= last'[o][f] /\ (at'[o][f] = IF op \in {"delete", "remove"} THEN 0 ELSE c.n)
    BY <1>1, <1>2, <1>4
  <2>4. \A e : e = c => InOrder(e)'
    BY <1>1, <2>2, <2>3 DEF InOrder, Written
  <2>5. ASSUME NEW d \in Envelopes PROVE d.n <= made' /\ InOrder(d)'
    <3>1. d.n # made + 1 /\ d.n <= made'
      BY <1>2, <1>6
    <3>2. \A f \in d.fields : d.n <= last'[d.about][f]
      BY <1>2, <1>4, <1>6, <1>t DEF InOrder
    <3>3. \A p \in Object, f \in Field : d.n = last'[p][f] => d.about = p /\ f \in d.fields
      BY <1>4, <1>6, <3>1 DEF InOrder
    <3>4. ASSUME NEW f \in d.fields, d.about \in Copied, d.n = last'[d.about][f] PROVE Written(d, f)'
      <4>1. d.n = last[d.about][f] /\ at'[d.about][f] = at[d.about][f]
        BY <1>4, <1>6, <3>1, <3>4
      <4>2. Written(d, f)
        BY <1>6, <3>4, <4>1 DEF InOrder
      <4>3. QED
        BY <4>1, <4>2 DEF Written
    <3>5. QED
      BY <3>1, <3>2, <3>3, <3>4 DEF InOrder
  <2>6. c.n <= made'
    BY <1>1, <1>2
  <2>7. QED
    BY <1>3, <2>1, <2>4, <2>5, <2>6 DEF Numbered
<1>9. ASSUME NEW p \in Copied, NEW f \in Field PROVE Follows(p, f)'
  <2>1. p \in Object /\ Follows(p, f)
    BY DEF Copied, Copies, Tracked
  <2>2. CASE p # o \/ f \notin fields
    <3>1. last'[p][f] = last[p][f] /\ at'[p][f] = at[p][f]
      BY <1>4, <2>1, <2>2
    <3>2. Owed(p, f) => Owed(p, f)'
      BY <1>2, <1>3, <3>1 DEF Owed
    <3>3. Same(p, f) => Same(p, f)'
      BY <1>2, <3>1 DEF Same
    <3>4. QED
      BY <1>2, <2>1, <3>1, <3>2, <3>3 DEF Follows
  <2>3. CASE p = o /\ f \in fields
    <3>1. last'[p][f] = made + 1 /\ seen'[p][f] = seen[p][f]
      BY <1>2, <1>4, <2>3
    <3>2. c \in Waiting' /\ c.about = p /\ c.n = last'[p][f]
      BY <1>1, <1>3, <2>3, <3>1
    <3>3. Owed(p, f)'
      BY <3>2 DEF Owed
    <3>4. seen[p][f] \in Nat /\ seen[p][f] <= made
      BY <1>2, <1>t, <2>1 DEF Follows
    <3>5. QED
      BY <1>2, <3>1, <3>3, <3>4 DEF Follows
  <2>4. QED
    BY <2>2, <2>3
<1>10. QED
  BY <1>8, <1>9 DEF Copies, Tracked

LEMMA CopiesInit == Init => Copies
<1> SUFFICES ASSUME Init PROVE Copies
  OBVIOUS
<1>1. Envelopes = {} /\ Waiting = {}
  BY DEF Init, Envelopes, Waiting
<1>2. /\ last = at /\ seen = at /\ mirror.at = at /\ made = 1
      /\ \A o \in Object : at[o] \in {Blank, Admitted}
  BY DEF Init
<1>3. \A f \in Field : Blank[f] = 0 /\ Admitted[f] = 1
  BY LineTypes, RosterAssumption DEF Blank, Admitted, Over
<1>4. \A o \in Object, f \in Field : at[o][f] \in {0, 1}
  BY <1>2, <1>3
<1>5. Numbered
  BY <1>1, <1>2, <1>4 DEF Numbered
<1>6. Tracked
  BY <1>1, <1>2, <1>4 DEF Tracked, Follows, Same, Copied
<1>7. QED
  BY <1>5, <1>6 DEF Copies

LEMMA CopiesInductive == Typed /\ Copies /\ [Next]_vars => Copies'
<1> SUFFICES ASSUME Typed, Copies, [Next]_vars PROVE Copies'
  OBVIOUS
<1>0. /\ TypeOK /\ Envelopes \subseteq Announced
      /\ Numbered /\ Tracked
      /\ mirror \in [live : BOOLEAN, at : Row] /\ mirror.at \in [Object -> Line]
      /\ \A g \in Guest : g \in Object
      /\ \A o \in Copied : o \in Object /\ o \notin Guest
  BY DEF Typed, TypeOK, Copies, Object, Member, Copied, Row, Line
<1>a. ASSUME NEW g \in Guest, NEW v, at' = [at EXCEPT ![g] = v]
      PROVE  \A o \in Copied : at'[o] = at[o]
  BY <1>0, <1>a DEF TypeOK, Row
<1>b. Blank \in Line /\ Admitted \in Line
  BY LineTypes
<1>m. ASSUME NEW g \in Guest, NEW v \in Line, mirror' = [mirror EXCEPT !.at[g] = v]
      PROVE  mirror'.live = mirror.live /\ \A o \in Copied : mirror'.at[o] = mirror.at[o]
  <2>1. mirror'.live = mirror.live /\ mirror'.at = [mirror.at EXCEPT ![g] = v]
    BY <1>0, <1>m, MirrorRow
  <2>2. QED
    BY <1>0, <2>1
<1>1. CASE Announces
  BY <1>1, AnnounceCopies DEF Announces
<1>2. ASSUME NEW u \in Guest, NEW s, AdminAdd(u, s) PROVE Copies'
  BY <1>a, <1>2, CopiesApart DEF Apart, AdminAdd, wire, applied
<1>3. ASSUME NEW c \in pending, FanOut(c) PROVE Copies'
  <2>1. UNCHANGED <<at, last, made, late, merges, mirror, seen, overtaken>> /\ pending' = pending \ {c}
    BY <1>3 DEF FanOut, applied
  <2>2. \/ outbox' = outbox \cup {[change |-> c, left |-> Attempts]} /\ missed' = missed
        \/ outbox' = outbox /\ missed' = missed \cup {c.n}
    BY <1>3 DEF FanOut
  <2>3. Envelopes' \subseteq Envelopes
    BY <1>3, <2>1, <2>2 DEF Envelopes
  <2>4. missed \subseteq missed'
    BY <2>2
  <2>5. \A d \in Waiting : d \in Waiting' \/ d.n \in missed'
    <3>1. CASE outbox' = outbox \cup {[change |-> c, left |-> Attempts]}
      <4>1. [change |-> c, left |-> Attempts] \in outbox' /\ [change |-> c, left |-> Attempts].change = c
        BY <3>1
      <4>2. c \in Waiting'
        BY <4>1 DEF Waiting
      <4>3. QED
        BY <2>1, <3>1, <4>2 DEF Waiting
    <3>2. CASE outbox' = outbox /\ missed' = missed \cup {c.n}
      BY <2>1, <3>2 DEF Waiting
    <3>3. QED
      BY <2>2, <3>1, <3>2
  <2>6. QED
    BY <1>0, <2>1, <2>3, <2>4, <2>5, NumberedShrinks, TrackedWithout DEF Copies
<1>4. CASE Crash
  <2>1. UNCHANGED <<at, last, made, outbox, late, merges, mirror, seen, overtaken>>
    BY <1>4 DEF Crash, wire, applied
  <2>2. pending' = {} /\ missed' = missed \cup {c.n : c \in pending}
    BY <1>4 DEF Crash
  <2>3. Envelopes' \subseteq Envelopes
    BY <2>1, <2>2 DEF Envelopes
  <2>4. \A d \in Waiting : d \in Waiting' \/ d.n \in missed'
    BY <2>1, <2>2 DEF Waiting
  <2>5. QED
    BY <1>0, <2>1, <2>2, <2>3, <2>4, NumberedShrinks, TrackedWithout DEF Copies
<1>5. ASSUME NEW j \in outbox \cup late, (j \in outbox /\ Dispatch(j)) \/ (j \in late /\ HandleLate(j))
      PROVE  Copies'
  <2>1. UNCHANGED <<at, last, made, pending>> /\ Handle(j)
    BY <1>5 DEF Dispatch, HandleLate, home
  <2>2. outbox' = outbox \ {j} \/ outbox' = outbox
    BY <1>5 DEF Dispatch, HandleLate
  <2>3. outbox' \subseteq outbox /\ late' \subseteq late /\ j.change \in Envelopes /\ j.change \in Announced
    BY <1>0, <1>5 DEF Dispatch, HandleLate, Envelopes
  <2>4. mirror.at[j.change.about] \in Line
    BY <1>0, <2>3, AnnouncedTypes
  <2>5. \/ merges' = merges
        \/ merges' = merges \cup {[job |-> j, read |-> mirror.at[j.change.about]]}
    BY <2>1 DEF Handle
  <2>6. Envelopes' \subseteq Envelopes
    BY <1>5, <2>1, <2>3, <2>5 DEF Envelopes
  <2>7. Numbered'
    BY <1>0, <2>1, <2>6, NumberedShrinks
  <2>8. \A d \in Waiting : d \in Waiting' \/ d = j.change
    BY <2>1, <2>2, <2>5 DEF Waiting
  <2>9. Tracked'
    <3>1. CASE Refuse(j.change)
      BY <1>0, <2>1, <2>8, <3>1, RefuseTracks
    <3>2. CASE Write(j.change, mirror.at[j.change.about])
      BY <2>1, <2>3, <2>4, <2>8, <3>2, WriteTracks
    <3>3. CASE /\ merges' = merges \cup {[job |-> j, read |-> mirror.at[j.change.about]]}
               /\ UNCHANGED <<mirror, seen, overtaken, missed>>
      <4>1. [job |-> j, read |-> mirror.at[j.change.about]] \in merges'
        BY <3>3
      <4>2. j.change \in {m.job.change : m \in merges'}
        BY <4>1
      <4>3. \A d \in Waiting : d \in Waiting'
        BY <2>8, <4>2 DEF Waiting
      <4>4. QED
        BY <1>0, <2>1, <3>3, <4>3, TrackedWithout
    <3>4. QED
      BY <2>1, <3>1, <3>2, <3>3 DEF Handle
  <2>10. QED
    BY <2>7, <2>9 DEF Copies
<1>6. ASSUME NEW j \in outbox, TimesOut(j) PROVE Copies'
  <2>1. /\ UNCHANGED <<at, last, made, pending, merges, mirror, seen, overtaken>>
        /\ late' = late \cup {j}
    BY <1>6 DEF TimesOut, home, applied
  <2>2. \/ outbox' = (outbox \ {j}) \cup {[j EXCEPT !.left = @ - 1]} /\ missed' = missed
        \/ outbox' = outbox \ {j} /\ missed' = missed \cup {j.change.n}
    BY <1>6 DEF TimesOut
  <2>3. [j EXCEPT !.left = @ - 1].change = j.change
    BY <1>0 DEF TypeOK, Job
  <2>4. Envelopes' \subseteq Envelopes
    BY <2>1, <2>2, <2>3 DEF Envelopes
  <2>5. \A d \in Waiting : d \in Waiting' \/ d.n \in missed'
    <3>1. CASE outbox' = (outbox \ {j}) \cup {[j EXCEPT !.left = @ - 1]}
      BY <2>1, <2>3, <3>1 DEF Waiting
    <3>2. CASE outbox' = outbox \ {j} /\ missed' = missed \cup {j.change.n}
      BY <2>1, <3>2 DEF Waiting
    <3>3. QED
      BY <2>2, <3>1, <3>2
  <2>6. missed \subseteq missed'
    BY <2>2
  <2>7. QED
    BY <1>0, <2>1, <2>4, <2>5, <2>6, NumberedShrinks, TrackedWithout DEF Copies
<1>7. ASSUME NEW m \in merges, Merge(m) PROVE Copies'
  <2>1. UNCHANGED <<at, last, made, pending, outbox, late>> /\ merges' = merges \ {m}
    BY <1>7 DEF Merge, home, wire
  <2>2. m.job.change \in Envelopes /\ Envelopes' \subseteq Envelopes /\ m.read \in Line
    BY <1>0, <2>1 DEF Envelopes, TypeOK, Line
  <2>3. \A d \in Waiting : d \in Waiting' \/ d = m.job.change
    BY <2>1 DEF Waiting
  <2>4. Numbered'
    BY <1>0, <2>1, <2>2, NumberedShrinks
  <2>5. Tracked'
    <3>1. CASE Write(m.job.change, m.read)
      BY <2>1, <2>2, <2>3, <3>1, WriteTracks
    <3>2. CASE Refuse(m.job.change)
      BY <1>0, <2>1, <2>3, <3>2, RefuseTracks
    <3>3. QED
      BY <1>7, <3>1, <3>2 DEF Merge
  <2>6. QED
    BY <2>4, <2>5 DEF Copies
<1>8. ASSUME NEW j \in late, NeverArrives(j) PROVE Copies'
  <2>1. /\ UNCHANGED <<at, last, made, pending, outbox, merges, mirror, seen, overtaken, missed>>
        /\ late' = late \ {j}
    BY <1>8 DEF NeverArrives, home, applied
  <2>2. Envelopes' \subseteq Envelopes /\ Waiting' = Waiting
    BY <2>1 DEF Envelopes, Waiting
  <2>3. QED
    BY <1>0, <2>1, <2>2, NumberedShrinks, TrackedWithout DEF Copies
<1>9. ASSUME NEW g \in Guest, AcceptAsk(g) \/ AcceptFails(g) \/ LeaveAsk(g) \/ LeaveFails(g) \/ LeaveTx(g)
      PROVE  Copies'
  <2>1. UNCHANGED <<home, wire, applied, missed>>
    BY <1>9 DEF AcceptAsk, AcceptFails, LeaveAsk, LeaveFails, LeaveTx
  <2>2. QED
    BY <2>1, CopiesApart DEF Apart, home, wire, applied
<1>10. ASSUME NEW g \in Guest, Admit(g) \/ AdmitLate(g) \/ HomeLets(g) \/ HomeLetsLate(g)
       PROVE  Copies'
  <2>1. /\ UNCHANGED <<pending, made, last, wire, applied, missed>>
        /\ at' = [at EXCEPT ![g] = Admitted] \/ at' = [at EXCEPT ![g] = Blank]
    BY <1>10 DEF Admit, AdmitLate, HomeLets, HomeLetsLate
  <2>2. \A o \in Copied : at'[o] = at[o]
    BY <1>a, <2>1
  <2>3. QED
    BY <2>1, <2>2, CopiesApart DEF Apart, wire, applied
<1>11. ASSUME NEW g \in Guest, AcceptMirror(g) PROVE Copies'
  <2>1. mirror' = mirror \/ mirror' = [mirror EXCEPT !.at[g] = Admitted]
    BY <1>11 DEF AcceptMirror
  <2>2. mirror'.live = mirror.live /\ \A o \in Copied : mirror'.at[o] = mirror.at[o]
    BY <1>b, <1>m, <2>1
  <2>3. QED
    BY <1>11, <2>2, CopiesApart DEF Apart, AcceptMirror, home, wire
<1>12. ASSUME NEW g \in Guest, LeaveCommit(g) PROVE Copies'
  <2>1. \/ mirror' = [live |-> FALSE, at |-> [o \in Object |-> Blank]]
        \/ mirror' = [mirror EXCEPT !.at[g] = Blank]
    BY <1>12 DEF LeaveCommit
  <2>2. mirror'.live => mirror.live /\ \A o \in Copied : mirror'.at[o] = mirror.at[o]
    <3>1. CASE mirror' = [live |-> FALSE, at |-> [o \in Object |-> Blank]]
      BY <3>1
    <3>2. CASE mirror' = [mirror EXCEPT !.at[g] = Blank]
      BY <1>b, <1>m, <3>2
    <3>3. QED
      BY <2>1, <3>1, <3>2
  <2>3. QED
    BY <1>12, <2>2, CopiesApart DEF Apart, LeaveCommit, home, wire
<1>13. CASE UNCHANGED vars
  BY <1>13, CopiesApart DEF Apart, vars, home, wire, applied
<1>14. QED
  BY <1>1, <1>2, <1>3, <1>4, <1>5, <1>6, <1>7, <1>8, <1>9, <1>10, <1>11, <1>12, <1>13, <1>0,
     Announcements DEF Next, Member

\* When nothing is on its way, the mirror differs from the home only in fields whose
\* last change was never applied, or over which an older value was written: a change
\* that is applied in order leaves its fields as the home has them and the others as
\* they were, however often it was sent and whatever else was lost.
THEOREM MirrorConverges == Spec => []MirrorIsCurrent
<1>1. Typed /\ Copies => MirrorIsCurrent
  <2> SUFFICES ASSUME Typed, Copies, Quiet, mirror.live, NEW o \in Object \ Guest, NEW f \in Field
               PROVE  Same(o, f) \/ last[o][f] \in missed \/ f \in overtaken[o]
    BY DEF MirrorIsCurrent
  <2>1. Waiting = {}
    BY DEF Quiet, Waiting
  <2>2. o \in Copied /\ o \in Object
    BY DEF Copied
  <2>3. seen[o][f] \in Nat /\ last[o][f] \in Nat
    BY <2>2 DEF Typed, TypeOK, Row
  <2>4. Follows(o, f)
    BY <2>2 DEF Copies, Tracked
  <2>5. CASE seen[o][f] < last[o][f]
    BY <2>1, <2>4, <2>5 DEF Follows, Owed
  <2>6. CASE seen[o][f] = last[o][f]
    BY <2>4, <2>6 DEF Follows
  <2>7. QED
    BY <2>3, <2>4, <2>5, <2>6 DEF Follows
<1>2. QED
  BY <1>1, TypeInit, TypeInductive, CopiesInit, CopiesInductive, PTL DEF Spec
=============================================================================

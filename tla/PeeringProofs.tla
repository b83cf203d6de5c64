---------------------------- MODULE PeeringProofs ----------------------------
(***************************************************************************)
(* For any number of instances, any capabilities and any bounds: types, that *)
(* no instance is peered on one admin's word, that rows grant only what is   *)
(* advertised, and that a revocation which met no late write holds.          *)
(***************************************************************************)
EXTENDS Peering, TLAPS

\* What an envelope on its way implies about the admins.
EnvelopeBacked(m) ==
    /\ m.type = "request" => <<m.from, m.to>> \in asked
    /\ m.type = "accept" => <<m.from, m.to>> \in approved /\ <<m.to, m.from>> \in asked

\* What a running handler implies, whatever has happened to the row since.
HandlerBacked(h) ==
    /\ h.op \in {"request", "approve"} => <<h.peer, h.at>> \in asked
    /\ h.op \in {"accept", "settle"} =>
        <<h.peer, h.at>> \in approved /\ <<h.at, h.peer>> \in asked
    /\ h.op \in {"request", "accept", "settle"} => h.caps \subseteq Advertised[h.at]

\* What a row implies.
RowBacked(i, j) ==
    /\ StatusOf(i, j) = "pending_inbound" => <<j, i>> \in asked
    /\ StatusOf(i, j) = "peered" =>
        \/ <<i, j>> \in approved /\ <<j, i>> \in asked
        \/ <<i, j>> \in asked /\ <<j, i>> \in approved
    /\ row[i][j].caps \subseteq Advertised[i]

Backed ==
    /\ \A m \in net : EnvelopeBacked(m)
    /\ \A h \in running : HandlerBacked(h)
    /\ \A i, j \in Instance : RowBacked(i, j)

IInv == TypeOK /\ Backed

-----------------------------------------------------------------------------
\* A new row for one pair keeps the table's type and every other row.
LEMMA SetRowResult ==
    ASSUME TypeOK, NEW i \in Instance, NEW j \in Instance,
           NEW status \in Status, NEW caps \in SUBSET Capability,
           SetRow(i, j, status, caps)
    PROVE  /\ row' \in [Instance -> [Instance -> Row]]
           /\ row'[i][j] = [status |-> status, caps |-> caps]
           /\ \A x, y \in Instance : <<x, y>> # <<i, j>> => row'[x][y] = row[x][y]
<1> DEFINE r == [status |-> status, caps |-> caps]
           line == [row[i] EXCEPT ![j] = r]
<1>1. r \in Row
  BY DEF Row
<1>2. row \in [Instance -> [Instance -> Row]]
  BY DEF TypeOK
<1>3. row[i] \in [Instance -> Row]
  BY <1>2
<1>4. line \in [Instance -> Row]
  BY <1>1, <1>3
<1>5. row' = [row EXCEPT ![i] = line]
  BY <1>2, <1>3 DEF SetRow
<1>6. line[j] = r /\ \A y \in Instance : y # j => line[y] = row[i][y]
  BY <1>3
<1> HIDE DEF r, line
<1>7. row' \in [Instance -> [Instance -> Row]]
  BY <1>2, <1>4, <1>5
<1>8. row'[i] = line /\ \A x \in Instance : x # i => row'[x] = row[x]
  BY <1>2, <1>5
<1>9. row'[i][j] = [status |-> status, caps |-> caps]
  BY <1>6, <1>8 DEF r
<1>10. \A x, y \in Instance : <<x, y>> # <<i, j>> => row'[x][y] = row[x][y]
  BY <1>6, <1>8
<1>11. QED
  BY <1>7, <1>9, <1>10

\* The rows have a type.
LEMMA RowTyped ==
    ASSUME TypeOK, NEW i \in Instance, NEW j \in Instance
    PROVE  /\ row[i][j] \in Row
           /\ StatusOf(i, j) \in Status
           /\ row[i][j].caps \in SUBSET Capability
<1>1. row[i] \in [Instance -> Row]
  BY DEF TypeOK
<1>2. row[i][j] \in Row
  BY <1>1
<1>3. QED
  BY <1>2 DEF Row, StatusOf

\* Rows, envelopes and handlers stay backed when the admins' history grows.
LEMMA HistoryGrows ==
    ASSUME Backed, asked \subseteq asked', approved \subseteq approved',
           \A m \in net' : m \in net \/ EnvelopeBacked(m)',
           \A h \in running' : h \in running \/ HandlerBacked(h)',
           \A i, j \in Instance : row'[i][j] = row[i][j] \/ RowBacked(i, j)'
    PROVE  Backed'
<1>1. \A m \in net' : EnvelopeBacked(m)'
  BY DEF Backed, EnvelopeBacked
<1>2. \A h \in running' : HandlerBacked(h)'
  BY DEF Backed, HandlerBacked
<1>3. ASSUME NEW i \in Instance, NEW j \in Instance PROVE RowBacked(i, j)'
  <2>1. CASE row'[i][j] = row[i][j]
    BY <2>1 DEF Backed, RowBacked, StatusOf
  <2>2. QED
    BY <2>1
<1>4. QED
  BY <1>1, <1>2, <1>3 DEF Backed
-----------------------------------------------------------------------------
LEMMA InitIInv == Init => IInv
<1> SUFFICES ASSUME Init PROVE IInv
  OBVIOUS
<1>1. [status |-> "none", caps |-> {}] \in Row
  BY DEF Row, Status
<1>2. \A i, j \in Instance : row[i][j] = [status |-> "none", caps |-> {}]
  BY DEF Init
<1>3. TypeOK
  <2>1. row \in [Instance -> [Instance -> Row]]
    BY <1>1 DEF Init
  <2>2. QED
    BY <2>1, PeeringAssumption DEF Init, TypeOK
<1>4. \A i, j \in Instance : RowBacked(i, j)
  BY <1>2 DEF RowBacked, StatusOf
<1>5. QED
  BY <1>3, <1>4 DEF IInv, Backed, Init

\* The invariant survives every step.
LEMMA NextIInv == IInv /\ [Next]_vars => IInv'
<1> SUFFICES ASSUME IInv, [Next]_vars PROVE IInv'
  OBVIOUS
<1> USE PeeringAssumption DEF IInv
<1>1. ASSUME NEW i \in Instance, NEW j \in Instance, NEW requested \in SUBSET Capability,
             Initiate(i, j, requested)
      PROVE  IInv'
  <2>1. PICK h : h = [op |-> "initiate", at |-> i, peer |-> j, caps |-> requested,
                     found |-> StatusOf(i, j) # "none"]
    OBVIOUS
  <2>1h. h \in Handler
    BY <2>1 DEF Handler
  <2>2. running' = running \cup {h}
    BY <1>1, <2>1 DEF Initiate, Run
  <2>3. HandlerBacked(h)'
    BY <2>1 DEF HandlerBacked
  <2>4. TypeOK'
    BY <1>1, <2>1h, <2>2 DEF Initiate, TypeOK, history
  <2>5. Backed'
    BY <1>1, <2>2, <2>3, HistoryGrows DEF Initiate, history
  <2>6. QED
    BY <2>4, <2>5
<1>2. ASSUME NEW i \in Instance, NEW j \in Instance, Approve(i, j)
      PROVE  IInv'
  <2>1. PICK h : h = [op |-> "approve", at |-> i, peer |-> j, caps |-> row[i][j].caps,
                     found |-> StatusOf(i, j) # "none"]
    OBVIOUS
  <2>1h. h \in Handler
    BY <2>1, RowTyped DEF Handler
  <2>2. running' = running \cup {h}
    BY <1>2, <2>1 DEF Approve, Run
  <2>3. <<j, i>> \in asked
    BY <1>2 DEF Approve, Backed, RowBacked
  <2>4. HandlerBacked(h)'
    BY <1>2, <2>1, <2>3 DEF HandlerBacked, Approve, history
  <2>5. TypeOK'
    BY <1>2, <2>1h, <2>2 DEF Approve, TypeOK, history, counts
  <2>6. Backed'
    BY <1>2, <2>2, <2>4, HistoryGrows DEF Approve, history
  <2>7. QED
    BY <2>5, <2>6
<1>3. ASSUME NEW i \in Instance, NEW j \in Instance, Revoke(i, j)
      PROVE  IInv'
  <2> DEFINE m == [type |-> "revoke", from |-> i, to |-> j, caps |-> {}]
  <2>1. m \in Envelope
    BY DEF Envelope
  <2>2. net' = net \cup {m}
    BY <1>3 DEF Revoke, Send
  <2>3. EnvelopeBacked(m)'
    BY DEF EnvelopeBacked
  <2> HIDE DEF m
  <2>4. row[i][j].caps \in SUBSET Capability
    BY RowTyped
  <2>5. /\ row' \in [Instance -> [Instance -> Row]]
        /\ row'[i][j] = [status |-> "revoked", caps |-> row[i][j].caps]
        /\ \A x, y \in Instance : <<x, y>> # <<i, j>> => row'[x][y] = row[x][y]
    BY <1>3, <2>4, SetRowResult DEF Revoke, Status
  <2>6. RowBacked(i, j)'
    <3>1. row[i][j].caps \subseteq Advertised[i]
      BY DEF Backed, RowBacked
    <3>2. QED
      BY <2>5, <3>1 DEF RowBacked, StatusOf
  <2>7. TypeOK'
    BY <1>3, <2>1, <2>2, <2>5 DEF Revoke, TypeOK, history
  <2>8. \A x, y \in Instance : row'[x][y] = row[x][y] \/ RowBacked(x, y)'
    BY <2>5, <2>6
  <2>9. Backed'
    BY <1>3, <2>2, <2>3, <2>8, HistoryGrows DEF Revoke, history
  <2>10. QED
    BY <2>7, <2>9
<1>4. ASSUME NEW m \in net, ReceiveRequest(m)
      PROVE  IInv'
  <2>1. m \in Envelope
    BY DEF TypeOK
  <2>2. PICK h : h = [op |-> "request", at |-> m.to, peer |-> m.from,
                     caps |-> Advertised[m.to] \cap m.caps,
                     found |-> StatusOf(m.to, m.from) # "none"]
    OBVIOUS
  <2>2h. h \in Handler
    BY <2>2, <2>1, <2>1 DEF Handler, Envelope
  <2>3. running' = running \/ running' = running \cup {h}
    BY <1>4, <2>2 DEF ReceiveRequest, Run
  <2>4. HandlerBacked(h)'
    BY <1>4, <2>1, <2>2 DEF HandlerBacked, ReceiveRequest, Arrives, history, Backed, EnvelopeBacked
  <2>5. TypeOK'
    BY <1>4, <2>2h, <2>3 DEF ReceiveRequest, Arrives, TypeOK, history, counts
  <2>6. Backed'
    BY <1>4, <2>3, <2>4, HistoryGrows DEF ReceiveRequest, Arrives, history
  <2>7. QED
    BY <2>5, <2>6
<1>5. ASSUME NEW m \in net, ReceiveAccept(m)
      PROVE  IInv'
  <2>1. m \in Envelope
    BY DEF TypeOK
  <2>2. PICK h : h = [op |-> "accept", at |-> m.to, peer |-> m.from,
                     caps |-> Advertised[m.to] \cap m.caps,
                     found |-> StatusOf(m.to, m.from) # "none"]
    OBVIOUS
  <2>2h. h \in Handler
    BY <2>2, <2>1, <2>1 DEF Handler, Envelope
  <2>3. running' = running \/ running' = running \cup {h}
    BY <1>5, <2>2 DEF ReceiveAccept, Run
  <2>4. HandlerBacked(h)'
    BY <1>5, <2>1, <2>2 DEF HandlerBacked, ReceiveAccept, Arrives, history, Backed, EnvelopeBacked
  <2>5. TypeOK'
    BY <1>5, <2>2h, <2>3 DEF ReceiveAccept, Arrives, TypeOK, history, counts
  <2>6. Backed'
    BY <1>5, <2>3, <2>4, HistoryGrows DEF ReceiveAccept, Arrives, history
  <2>7. QED
    BY <2>5, <2>6
<1>6. ASSUME NEW m \in net, ReceiveRevoke(m) \/ Lose(m)
      PROVE  IInv'
  <2>1. /\ net' = net \ {m}
        /\ UNCHANGED <<row, running, asked, approved, initiations, revocations>>
        /\ lost' \in 0..MaxLost
    BY <1>6 DEF ReceiveRevoke, Lose, Arrives, history, counts, TypeOK
  <2>2. TypeOK'
    BY <2>1 DEF TypeOK
  <2>3. Backed'
    BY <2>1, HistoryGrows
  <2>4. QED
    BY <2>2, <2>3
<1>7. ASSUME NEW h \in running, InitiateWrites(h)
      PROVE  IInv'
  <2> DEFINE i == h.at
             j == h.peer
             m == [type |-> "request", from |-> i, to |-> j, caps |-> h.caps]
             caps == Advertised[i] \cap h.caps \cap Advertised[j]
  <2>1. h \in Handler
    BY DEF TypeOK
  <2>2. i \in Instance /\ j \in Instance /\ caps \in SUBSET Capability /\ m \in Envelope
    BY <2>1 DEF Handler, Envelope
  <2>3. CASE UNCHANGED <<row, net, asked>>
    <3>1. TypeOK'
      BY <1>7, <2>3 DEF InitiateWrites, Finish, TypeOK, counts
    <3>2. Backed'
      BY <1>7, <2>3, HistoryGrows DEF InitiateWrites, Finish
    <3>3. QED
      BY <3>1, <3>2
  <2>4. CASE /\ SetRow(i, j, "pending_outbound", caps)
             /\ Send("request", i, j, h.caps)
             /\ asked' = asked \cup {<<i, j>>}
    <3>1. net' = net \cup {m}
      BY <2>4 DEF Send
    <3>2. EnvelopeBacked(m)'
      BY <2>4 DEF EnvelopeBacked
    <3>3. caps \subseteq Advertised[i]
      OBVIOUS
    <3> HIDE DEF i, j, m, caps
    <3>4. /\ row' \in [Instance -> [Instance -> Row]]
          /\ row'[i][j] = [status |-> "pending_outbound", caps |-> caps]
          /\ \A x, y \in Instance : <<x, y>> # <<i, j>> => row'[x][y] = row[x][y]
      BY <2>2, <2>4, SetRowResult DEF Status
    <3>5. RowBacked(i, j)'
      BY <3>3, <3>4 DEF RowBacked, StatusOf
    <3>6. TypeOK'
      BY <1>7, <2>2, <2>4, <3>1, <3>4 DEF InitiateWrites, Finish, TypeOK, counts
    <3>7. \A x, y \in Instance : row'[x][y] = row[x][y] \/ RowBacked(x, y)'
      BY <3>4, <3>5
    <3>8. Backed'
      BY <1>7, <2>4, <3>1, <3>2, <3>7, HistoryGrows DEF InitiateWrites, Finish
    <3>9. QED
      BY <3>6, <3>8
  <2>5. QED
    BY <1>7, <2>3, <2>4 DEF InitiateWrites
<1>8. ASSUME NEW h \in running, ApproveWrites(h)
      PROVE  IInv'
  <2> DEFINE i == h.at
             j == h.peer
             m == [type |-> "accept", from |-> i, to |-> j, caps |-> h.caps]
  <2>1. h \in Handler
    BY DEF TypeOK
  <2>2. i \in Instance /\ j \in Instance /\ m \in Envelope
    BY <2>1 DEF Handler, Envelope
  <2>3. <<j, i>> \in asked
    BY <1>8 DEF ApproveWrites, Backed, HandlerBacked
  <2>4. /\ net' = net \cup {m}
        /\ approved' = approved \cup {<<i, j>>}
        /\ SetRow(i, j, "peered", row[i][j].caps)
    BY <1>8 DEF ApproveWrites, Send
  <2>5. EnvelopeBacked(m)'
    BY <1>8, <2>3, <2>4 DEF EnvelopeBacked, ApproveWrites
  <2> HIDE DEF i, j, m
  <2>6. row[i][j].caps \in SUBSET Capability
    BY <2>2, RowTyped
  <2>7. /\ row' \in [Instance -> [Instance -> Row]]
        /\ row'[i][j] = [status |-> "peered", caps |-> row[i][j].caps]
        /\ \A x, y \in Instance : <<x, y>> # <<i, j>> => row'[x][y] = row[x][y]
    BY <2>2, <2>4, <2>6, SetRowResult DEF Status
  <2>8. row[i][j].caps \subseteq Advertised[i]
    BY <2>2 DEF Backed, RowBacked
  <2>9. RowBacked(i, j)'
    BY <1>8, <2>3, <2>4, <2>7, <2>8 DEF RowBacked, StatusOf, ApproveWrites
  <2>10. TypeOK'
    BY <1>8, <2>2, <2>4, <2>7 DEF ApproveWrites, Finish, TypeOK, counts
  <2>11. \A x, y \in Instance : row'[x][y] = row[x][y] \/ RowBacked(x, y)'
    BY <2>7, <2>9
  <2>12. Backed'
    BY <1>8, <2>4, <2>5, <2>11, HistoryGrows DEF ApproveWrites, Finish
  <2>13. QED
    BY <2>10, <2>12
<1>9. ASSUME NEW h \in running, RequestWrites(h)
      PROVE  IInv'
  <2> DEFINE i == h.at
             j == h.peer
  <2>1. h \in Handler
    BY DEF TypeOK
  <2>2. i \in Instance /\ j \in Instance /\ h.caps \in SUBSET Capability
    BY <2>1 DEF Handler
  <2>3. <<j, i>> \in asked /\ h.caps \subseteq Advertised[i]
    BY <1>9 DEF RequestWrites, Backed, HandlerBacked
  <2>4. CASE UNCHANGED row
    <3>1. TypeOK'
      BY <1>9, <2>4 DEF RequestWrites, Finish, TypeOK, history, counts
    <3>2. Backed'
      BY <1>9, <2>4, HistoryGrows DEF RequestWrites, Finish, history
    <3>3. QED
      BY <3>1, <3>2
  <2>5. ASSUME NEW status \in Status, SetRow(i, j, status, h.caps),
               status \in {StatusOf(i, j), "pending_inbound"}
        PROVE  IInv'
    <3> HIDE DEF i, j
    <3>1. /\ row' \in [Instance -> [Instance -> Row]]
          /\ row'[i][j] = [status |-> status, caps |-> h.caps]
          /\ \A x, y \in Instance : <<x, y>> # <<i, j>> => row'[x][y] = row[x][y]
      BY <2>2, <2>5, SetRowResult
    <3>2. UNCHANGED <<asked, approved>> /\ RowBacked(i, j)
      BY <1>9, <2>2 DEF RequestWrites, history, Backed
    <3>3. RowBacked(i, j)'
      BY <2>3, <2>5, <3>1, <3>2 DEF RowBacked, StatusOf
    <3>4. TypeOK'
      BY <1>9, <3>1 DEF RequestWrites, Finish, TypeOK, history, counts
    <3>5. \A x, y \in Instance : row'[x][y] = row[x][y] \/ RowBacked(x, y)'
      BY <3>1, <3>3
    <3>6. Backed'
      BY <1>9, <3>5, HistoryGrows DEF RequestWrites, Finish, history
    <3>7. QED
      BY <3>4, <3>6
  <2>6. StatusOf(i, j) \in Status /\ "pending_inbound" \in Status
    BY <2>2, RowTyped DEF Status
  <2>7. \/ UNCHANGED row
        \/ SetRow(i, j, StatusOf(i, j), h.caps)
        \/ SetRow(i, j, "pending_inbound", h.caps)
    BY <1>9 DEF RequestWrites
  <2> HIDE DEF i, j
  <2>8. QED
    BY <2>4, <2>5, <2>6, <2>7
<1>10. ASSUME NEW h \in running, AcceptRereads(h)
       PROVE  IInv'
  <2>1. h \in Handler /\ HandlerBacked(h)
    BY DEF TypeOK, Backed
  <2>2. PICK g : g = [h EXCEPT !.op = "settle"]
    OBVIOUS
  <2>3. /\ g \in Handler /\ g.op = "settle"
        /\ g.at = h.at /\ g.peer = h.peer /\ g.caps = h.caps
    BY <2>1, <2>2 DEF Handler
  <2>4. running' \subseteq running \cup {g}
    BY <1>10, <2>2 DEF AcceptRereads, Finish
  <2>5. HandlerBacked(g)'
    BY <1>10, <2>1, <2>3 DEF HandlerBacked, AcceptRereads, history
  <2>6. TypeOK'
    BY <1>10, <2>3, <2>4 DEF AcceptRereads, TypeOK, history, counts
  <2>7. Backed'
    BY <1>10, <2>4, <2>5, HistoryGrows DEF AcceptRereads, history
  <2>8. QED
    BY <2>6, <2>7
<1>11. ASSUME NEW h \in running, AcceptWrites(h)
       PROVE  IInv'
  <2> DEFINE i == h.at
             j == h.peer
  <2>1. h \in Handler
    BY DEF TypeOK
  <2>2. i \in Instance /\ j \in Instance /\ h.caps \in SUBSET Capability
    BY <2>1 DEF Handler
  <2>3. <<j, i>> \in approved /\ <<i, j>> \in asked /\ h.caps \subseteq Advertised[i]
    BY <1>11 DEF AcceptWrites, Backed, HandlerBacked
  <2>4. SetRow(i, j, "peered", h.caps)
    BY <1>11 DEF AcceptWrites
  <2> HIDE DEF i, j
  <2>5. /\ row' \in [Instance -> [Instance -> Row]]
        /\ row'[i][j] = [status |-> "peered", caps |-> h.caps]
        /\ \A x, y \in Instance : <<x, y>> # <<i, j>> => row'[x][y] = row[x][y]
    BY <2>2, <2>4, SetRowResult DEF Status
  <2>6. RowBacked(i, j)'
    BY <1>11, <2>3, <2>5 DEF RowBacked, StatusOf, AcceptWrites, history
  <2>7. TypeOK'
    BY <1>11, <2>5 DEF AcceptWrites, Finish, TypeOK, history, counts
  <2>8. \A x, y \in Instance : row'[x][y] = row[x][y] \/ RowBacked(x, y)'
    BY <2>5, <2>6
  <2>9. Backed'
    BY <1>11, <2>8, HistoryGrows DEF AcceptWrites, Finish, history
  <2>10. QED
    BY <2>7, <2>9
<1>12. CASE UNCHANGED vars
  <2>1. TypeOK'
    BY <1>12 DEF vars, TypeOK
  <2>2. Backed'
    BY <1>12, HistoryGrows DEF vars
  <2>3. QED
    BY <2>1, <2>2
<1>13. QED
  BY <1>1, <1>2, <1>3, <1>4, <1>5, <1>6, <1>7, <1>8, <1>9, <1>10, <1>11, <1>12
     DEF Next, Deliver, Write

LEMMA Invariance == Spec => []IInv
  BY InitIInv, NextIInv, PTL DEF Spec

-----------------------------------------------------------------------------
\* Types, for any instances and bounds; no status but those of the handshake is
\* ever stored.
THEOREM TypeCorrect == Spec => []TypeOK
  BY Invariance, PTL DEF IInv

\* No instance is peered unless an admin of one side has asked and an admin of
\* the other has approved, however handshakes and revocations cross.
THEOREM NobodyPeersAlone == Spec => []PeeredTakesTwoAdmins
<1>1. IInv => PeeredTakesTwoAdmins
  BY DEF IInv, Backed, RowBacked, PeeredTakesTwoAdmins
<1>2. QED
  BY <1>1, Invariance, PTL

\* A row never grants a peer what its own instance does not advertise.
THEOREM GrantsAreAdvertised == Spec => []GrantsOnlyAdvertised
<1>1. IInv => GrantsOnlyAdvertised
  BY DEF IInv, Backed, RowBacked, GrantsOnlyAdvertised
<1>2. QED
  BY <1>1, Invariance, PTL

\* A revocation that nobody past its check can write over holds until this
\* instance's own admin initiates again: no request, no accept and no approval
\* can become such a writer or change the row.
THEOREM EnvelopesDoNotReopen == Spec => RevocationHolds
<1> DEFINE ByAdmin(i, j) == \E h \in running \ running' :
                               h.at = i /\ h.peer = j /\ h.op = "initiate"
<1>1. ASSUME TypeOK, [Next]_vars, NEW i \in Instance, NEW j \in Instance,
             RevokedForGood(i, j), ~ByAdmin(i, j)
      PROVE  RevokedForGood(i, j)'
  <2>1. StatusOf(i, j) = "revoked"
    BY <1>1 DEF RevokedForGood
  <2>2. \A h \in running : h.at = i /\ h.peer = j => ~PastItsCheck(h)
    BY <1>1 DEF RevokedForGood
  \* What the steps below establish, each in its own way.
  <2>3. ASSUME StatusOf(i, j)' = "revoked",
               \A h \in running' : h \in running \/ h.at # i \/ h.peer # j \/ ~PastItsCheck(h)
        PROVE  RevokedForGood(i, j)'
    BY <2>2, <2>3 DEF RevokedForGood, PastItsCheck
  <2>4. ASSUME NEW x \in Instance, NEW y \in Instance, NEW requested \in SUBSET Capability,
               Initiate(x, y, requested)
        PROVE  RevokedForGood(i, j)'
    BY <2>1, <2>3, <2>4 DEF Initiate, Run, StatusOf, PastItsCheck
  <2>5. ASSUME NEW x \in Instance, NEW y \in Instance, Approve(x, y)
        PROVE  RevokedForGood(i, j)'
    <3>1. <<x, y>> # <<i, j>>
      BY <2>1, <2>5 DEF Approve
    <3>2. QED
      BY <2>1, <2>3, <2>5, <3>1 DEF Approve, Run, StatusOf
  <2>6. ASSUME NEW x \in Instance, NEW y \in Instance, Revoke(x, y)
        PROVE  RevokedForGood(i, j)'
    <3>1. row[x][y].caps \in SUBSET Capability
      BY <1>1, RowTyped
    <3>2. /\ row'[x][y] = [status |-> "revoked", caps |-> row[x][y].caps]
          /\ \A u, v \in Instance : <<u, v>> # <<x, y>> => row'[u][v] = row[u][v]
      BY <1>1, <2>6, <3>1, SetRowResult DEF Revoke, Status
    <3>3. StatusOf(i, j)' = "revoked"
      BY <2>1, <3>2 DEF StatusOf
    <3>4. QED
      BY <2>3, <2>6, <3>3 DEF Revoke
  <2>7. ASSUME NEW m \in net,
               ReceiveRequest(m) \/ ReceiveAccept(m) \/ ReceiveRevoke(m) \/ Lose(m)
        PROVE  RevokedForGood(i, j)'
    <3>1. UNCHANGED row
      BY <2>7 DEF ReceiveRequest, ReceiveAccept, ReceiveRevoke, Lose
    <3>2. \A h \in running' : h \in running \/ h.op \in {"request", "accept"}
      BY <2>7 DEF ReceiveRequest, ReceiveAccept, ReceiveRevoke, Lose, Run
    <3>3. QED
      BY <2>1, <2>3, <3>1, <3>2 DEF StatusOf, PastItsCheck
  <2>8. ASSUME NEW h \in running, AcceptRereads(h)
        PROVE  RevokedForGood(i, j)'
    <3>1. h \in Handler /\ UNCHANGED row
      BY <1>1, <2>8 DEF TypeOK, AcceptRereads
    <3>2. CASE running' = running \ {h}
      BY <2>1, <2>3, <3>1, <3>2 DEF StatusOf
    <3>3. CASE /\ StatusOf(h.at, h.peer) \in {"pending_outbound", "peered"}
               /\ running' = (running \ {h}) \cup {[h EXCEPT !.op = "settle"]}
      <4>1. PICK g : g = [h EXCEPT !.op = "settle"]
        OBVIOUS
      <4>2. g.at = h.at /\ g.peer = h.peer
        BY <3>1, <4>1 DEF Handler
      <4>3. g.at # i \/ g.peer # j
        BY <2>1, <3>3, <4>2
      <4>4. QED
        BY <2>1, <2>3, <3>1, <3>3, <4>1, <4>3 DEF StatusOf
    <3>4. QED
      BY <2>8, <3>2, <3>3 DEF AcceptRereads, Finish
  <2>9. ASSUME NEW h \in running,
               InitiateWrites(h) \/ ApproveWrites(h) \/ RequestWrites(h) \/ AcceptWrites(h)
        PROVE  RevokedForGood(i, j)'
    <3>1. h \in Handler /\ h \in running /\ running' = running \ {h}
      BY <1>1, <2>9 DEF TypeOK, InitiateWrites, ApproveWrites, RequestWrites, AcceptWrites, Finish
    <3>2. h.at \in Instance /\ h.peer \in Instance /\ h.caps \in SUBSET Capability
      BY <3>1 DEF Handler
    <3>3. SUFFICES StatusOf(i, j)' = "revoked"
      BY <2>3, <3>1
    <3>4. CASE UNCHANGED row
      BY <2>1, <3>4 DEF StatusOf
    <3>5. ASSUME NEW status \in Status, NEW caps \in SUBSET Capability,
                 SetRow(h.at, h.peer, status, caps),
                 <<h.at, h.peer>> # <<i, j>> \/ status = "revoked"
          PROVE  StatusOf(i, j)' = "revoked"
      <4>1. /\ row'[h.at][h.peer] = [status |-> status, caps |-> caps]
            /\ \A u, v \in Instance : <<u, v>> # <<h.at, h.peer>> => row'[u][v] = row[u][v]
        BY <1>1, <3>2, <3>5, SetRowResult
      <4>2. QED
        BY <2>1, <3>2, <3>5, <4>1 DEF StatusOf
    <3>6. {"pending_outbound", "pending_inbound", "peered", "revoked"} \subseteq Status
      BY DEF Status
    <3>7. StatusOf(h.at, h.peer) \in Status /\ row[h.at][h.peer].caps \in SUBSET Capability
      BY <1>1, <3>2, RowTyped
    <3>8. CASE h.op \in {"initiate", "approve", "settle"}
      <4>1. <<h.at, h.peer>> # <<i, j>>
        BY <1>1, <2>2, <3>1, <3>8 DEF PastItsCheck
      <4>2. Advertised[h.at] \cap h.caps \cap Advertised[h.peer] \in SUBSET Capability
        BY <3>2
      <4>3. \/ UNCHANGED row
            \/ SetRow(h.at, h.peer, "pending_outbound",
                      Advertised[h.at] \cap h.caps \cap Advertised[h.peer])
            \/ SetRow(h.at, h.peer, "peered", row[h.at][h.peer].caps)
            \/ SetRow(h.at, h.peer, "peered", h.caps)
        BY <2>9, <3>8 DEF InitiateWrites, ApproveWrites, RequestWrites, AcceptWrites
      <4>4. QED
        BY <3>2, <3>4, <3>5, <3>6, <3>7, <4>1, <4>2, <4>3
    <3>9. CASE h.op = "request"
      <4>1. \/ UNCHANGED row
            \/ SetRow(h.at, h.peer, StatusOf(h.at, h.peer), h.caps)
            \/ /\ StatusOf(h.at, h.peer) = "none"
               /\ SetRow(h.at, h.peer, "pending_inbound", h.caps)
        BY <2>9, <3>9 DEF InitiateWrites, ApproveWrites, RequestWrites, AcceptWrites
      <4>2. <<h.at, h.peer>> # <<i, j>> \/ StatusOf(h.at, h.peer) = "revoked"
        BY <2>1
      <4>3. QED
        BY <2>1, <3>2, <3>4, <3>5, <3>6, <3>7, <4>1, <4>2
    <3>10. QED
      BY <2>9, <3>8, <3>9 DEF InitiateWrites, ApproveWrites, RequestWrites, AcceptWrites
  <2>10. CASE UNCHANGED vars
    BY <2>1, <2>3, <2>10 DEF vars, StatusOf
  <2>11. QED
    BY <1>1, <2>4, <2>5, <2>6, <2>7, <2>8, <2>9, <2>10 DEF Next, Deliver, Write
<1>2. TypeOK /\ [Next]_vars =>
        [\A i, j \in Instance : RevokedForGood(i, j) => StaysRevoked(i, j)]_vars
  BY <1>1 DEF StaysRevoked
<1>3. QED
  BY <1>2, TypeCorrect, PTL DEF Spec, RevocationHolds
=============================================================================

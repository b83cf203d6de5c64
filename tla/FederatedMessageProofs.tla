------------------------ MODULE FederatedMessageProofs ------------------------
(***************************************************************************)
(* FederatedMessage, for any number of instances, edits, failures and        *)
(* crashes: types, that a message is announced once on each instance and     *)
(* reaches each, that a deleted one stays deleted there, that no envelope    *)
(* goes back to the author, and the refinement of ReplicatedMessage.         *)
(* Then Uploads, for any attachments, slots and restarts: the types, the   *)
(* line of the governor, the claims of messages, the scan jobs, and the icon *)
(* that follows a scan, whose invariant alone rests on another, the jobs'. *)
(***************************************************************************)
EXTENDS FederatedMessage, Uploads, FiniteSetTheorems, TLAPS

CopyRow == [status : {"none", "live", "deleted"}, text : Text]
FanOutItem == [at : Instance, kind : Kind, text : Text, to : SUBSET Instance]

\* Jobs and envelopes leave the author or the home and never go to the author.
Outward(x) == x.to # Author /\ x.from \in {Author, Home} /\ x.to # x.from

\* Such a job, with an attempt left while it waits or is active.
Sendable(j) ==
    /\ Outward(j)
    /\ j.state \in {"waiting", "active"} => j.tries < Attempts

Routed ==
    /\ \A f \in fanouts : f.at \in {Author, Home} /\ Author \notin f.to /\ f.at \notin f.to
    /\ \A j \in outbox : Sendable(j)
    /\ \A m \in net : Outward(m)

\* An instance has announced the message iff it has a row, and whatever is past
\* its checks has seen a row.
Counted ==
    /\ \A i \in Instance : announced[i] = IF copy[i].status = "none" THEN 0 ELSE 1
    /\ local # {} => copy[Author].status # "none"
    /\ \A m \in net : m.checked /\ m.kind # "create" => copy[m.to].status # "none"

IInv == TypeOK /\ Routed /\ Counted

-----------------------------------------------------------------------------
\* A job that only changes its state stays a job of the same route.
LEMMA StateChanged ==
    ASSUME NEW j \in Job, NEW state \in {"waiting", "active", "completed", "failed"},
           NEW k, k = [j EXCEPT !.state = state]
    PROVE  /\ k \in Job
           /\ k.from = j.from /\ k.to = j.to
           /\ k.state = state /\ k.tries = j.tries
  BY DEF Job

\* An answer removes the envelope and keeps the jobs' type and routes.
LEMMA AnswerResult ==
    ASSUME TypeOK, Routed, NEW m \in net, NEW state \in {"completed", "failed"},
           Answer(m, state)
    PROVE  /\ net' = net \ {m}
           /\ outbox' \subseteq Job
           /\ \A j \in outbox' : Sendable(j)
<1>1. ASSUME NEW k \in outbox' PROVE k \in Job /\ Sendable(k)
  <2>1. PICK j \in outbox : k = IF Carries(m, j) THEN [j EXCEPT !.state = state] ELSE j
    BY <1>1 DEF Answer
  <2>2. j \in Job /\ Sendable(j)
    BY DEF TypeOK, Routed
  <2>3. CASE k = j
    BY <2>2, <2>3
  <2>4. CASE k = [j EXCEPT !.state = state]
    <3>1. k \in Job /\ k.from = j.from /\ k.to = j.to /\ k.state = state
      BY <2>2, <2>4, StateChanged
    <3>2. QED
      BY <2>2, <3>1 DEF Sendable, Outward
  <2>5. QED
    BY <2>1, <2>3, <2>4
<1>2. QED
  BY <1>1 DEF Answer

\* Writing a row that exists keeps the table's type and makes no row appear or
\* disappear.
LEMMA ApplyResult ==
    ASSUME TypeOK, NEW i \in Instance, NEW kind \in Kind, NEW text \in Text,
           copy[i].status # "none", Apply(i, kind, text)
    PROVE  /\ copy' \in [Instance -> CopyRow]
           /\ \A x \in Instance : (copy'[x].status = "none") <=> (copy[x].status = "none")
           /\ \A x \in Instance : copy[x].status = "deleted" => copy'[x].status = "deleted"
<1> DEFINE r == [status |-> IF kind = "delete" THEN "deleted" ELSE copy[i].status, text |-> text]
<1>1. copy \in [Instance -> CopyRow]
  BY DEF TypeOK, CopyRow
<1>2. copy[i] \in CopyRow
  BY <1>1
<1>3. copy[i].status \in {"none", "live", "deleted"}
  BY <1>2 DEF CopyRow
<1>4. r \in CopyRow
  BY <1>3 DEF CopyRow
<1>5. /\ r.status # "none"
      /\ copy[i].status = "deleted" => r.status = "deleted"
  OBVIOUS
<1>6. copy' = [copy EXCEPT ![i] = r]
  BY DEF Apply
<1> HIDE DEF r
<1>7. QED
  BY <1>1, <1>4, <1>5, <1>6

\* The row a create inserts.
LEMMA InsertResult ==
    ASSUME TypeOK, Counted, NEW i \in Instance, NEW text \in Text,
           copy' = [copy EXCEPT ![i] = [status |-> "live", text |-> text]],
           announced' = [announced EXCEPT ![i] = @ + 1],
           copy[i].status = "none"
    PROVE  /\ copy' \in [Instance -> CopyRow]
           /\ announced' \in [Instance -> Nat]
           /\ \A x \in Instance : announced'[x] = IF copy'[x].status = "none" THEN 0 ELSE 1
           /\ \A x \in Instance : copy[x].status # "none" => copy'[x] = copy[x]
<1> DEFINE r == [status |-> "live", text |-> text]
<1>1. copy \in [Instance -> CopyRow] /\ announced \in [Instance -> Nat]
  BY DEF TypeOK, CopyRow
<1>2. r \in CopyRow /\ r.status = "live"
  BY DEF CopyRow
<1> HIDE DEF r
<1>3. copy' = [copy EXCEPT ![i] = r]
  BY DEF r
<1>4. announced[i] = 0
  BY DEF Counted
<1>5. /\ copy' \in [Instance -> CopyRow]
      /\ copy'[i] = r
      /\ \A x \in Instance : x # i => copy'[x] = copy[x]
  BY <1>1, <1>2, <1>3
<1>6. /\ announced' \in [Instance -> Nat]
      /\ announced'[i] = 1
      /\ \A x \in Instance : x # i => announced'[x] = announced[x]
  BY <1>1, <1>4
<1>7. QED
  BY <1>2, <1>5, <1>6 DEF Counted
-----------------------------------------------------------------------------
LEMMA InitIInv == Init => IInv
<1> SUFFICES ASSUME Init PROVE IInv
  OBVIOUS
<1> USE FederatedMessageAssumption
<1>1. 0 \in Text
  BY DEF Text
<1>2. copy \in [Instance -> CopyRow]
  BY <1>1 DEF Init, CopyRow
<1>3. TypeOK
  BY <1>2 DEF Init, TypeOK, CopyRow
<1>4. Counted
  BY DEF Init, Counted
<1>5. QED
  BY <1>3, <1>4 DEF Init, IInv, Routed

LEMMA NextIInv == IInv /\ [Next]_vars => IInv'
<1> SUFFICES ASSUME IInv, [Next]_vars PROVE IInv'
  OBVIOUS
<1> USE FederatedMessageAssumption
<1>0. TypeOK /\ Routed /\ Counted
  BY DEF IInv
<1>T. copy \in [Instance -> CopyRow]
  BY <1>0 DEF TypeOK, CopyRow
<1>1. CASE Post
  <2>1. 1 \in Text /\ copy[Author].status = "none"
    BY <1>1 DEF Post, Text
  <2>2. /\ copy' \in [Instance -> CopyRow]
        /\ announced' \in [Instance -> Nat]
        /\ \A x \in Instance : announced'[x] = IF copy'[x].status = "none" THEN 0 ELSE 1
        /\ \A x \in Instance : copy[x].status # "none" => copy'[x] = copy[x]
    BY <1>0, <1>1, <2>1, InsertResult DEF Post
  <2>3. Targets \in SUBSET Instance /\ Author \notin Targets
    BY DEF Targets, Others
  <2>4. [at |-> Author, kind |-> "create", text |-> 1, to |-> Targets] \in FanOutItem
    BY <2>1, <2>3 DEF FanOutItem, Kind
  <2>5. TypeOK'
    BY <1>0, <1>1, <2>2, <2>4 DEF Post, Committed, TypeOK, CopyRow, FanOutItem, counts
  <2>6. Routed'
    BY <1>0, <1>1, <2>3 DEF Post, Committed, Routed
  <2>7. local = {}
    BY <1>0, <2>1 DEF Counted
  <2>8. \A m \in net : m.to \in Instance
    BY <1>0 DEF TypeOK, Envelope
  <2>9. Counted'
    BY <1>0, <1>1, <2>2, <2>7, <2>8 DEF Post, Counted
  <2>10. QED
    BY <2>5, <2>6, <2>9 DEF IInv
<1>2. ASSUME NEW kind \in {"update", "delete"}, Request(kind)
      PROVE  IInv'
  <2>1. /\ UNCHANGED <<copy, fanouts, outbox, net, announced, written, failures, crashes>>
        /\ copy[Author].status # "none"
    BY <1>2 DEF Request
  <2>2. edits' \in 0..MaxEdits /\ local' \subseteq Change
    <3>1. CASE kind = "update"
      <4>1. edits + 2 \in Text /\ edits + 1 \in 0..MaxEdits
        BY <1>0, <1>2, <3>1 DEF Request, TypeOK, Text
      <4>2. [kind |-> "update", text |-> edits + 2] \in Change
        BY <4>1 DEF Change, Kind
      <4>3. QED
        BY <1>0, <1>2, <3>1, <4>1, <4>2 DEF Request, TypeOK
    <3>2. CASE kind = "delete"
      <4>1. [kind |-> "delete", text |-> 0] \in Change
        BY DEF Change, Kind, Text
      <4>2. QED
        BY <1>0, <1>2, <3>2, <4>1 DEF Request, TypeOK
    <3>3. QED
      BY <3>1, <3>2
  <2>3. TypeOK'
    BY <1>0, <2>1, <2>2 DEF TypeOK
  <2>4. QED
    BY <1>0, <2>1, <2>3 DEF IInv, Routed, Counted
<1>3. ASSUME NEW change \in local, RequestWrites(change)
      PROVE  IInv'
  <2>1. change.kind \in Kind /\ change.text \in Text /\ copy[Author].status # "none"
    BY <1>0 DEF TypeOK, Change, Counted
  <2>2. /\ copy' \in [Instance -> CopyRow]
        /\ \A x \in Instance : (copy'[x].status = "none") <=> (copy[x].status = "none")
    BY <1>0, <1>3, <2>1, ApplyResult DEF RequestWrites
  <2>3. Targets \in SUBSET Instance /\ Author \notin Targets
    BY DEF Targets, Others
  <2>4. [at |-> Author, kind |-> change.kind, text |-> change.text, to |-> Targets] \in FanOutItem
    BY <2>1, <2>3 DEF FanOutItem
  <2>5. TypeOK'
    BY <1>0, <1>3, <2>2, <2>4 DEF RequestWrites, Committed, TypeOK, CopyRow, FanOutItem, counts
  <2>6. Routed'
    BY <1>0, <1>3, <2>3 DEF RequestWrites, Committed, Routed
  <2>7. \A m \in net : m.to \in Instance
    BY <1>0 DEF TypeOK, Envelope
  <2>8. Counted'
    BY <1>0, <1>3, <2>1, <2>2, <2>7 DEF RequestWrites, Counted
  <2>9. QED
    BY <2>5, <2>6, <2>8 DEF IInv
<1>4. ASSUME NEW f \in fanouts, FanOut(f)
      PROVE  IInv'
  <2> DEFINE job(i) == [from |-> f.at, to |-> i, kind |-> f.kind, nonce |-> Nonce(f),
                        text |-> f.text, state |-> "waiting", tries |-> 0]
  <2>1. f \in FanOutItem
    BY <1>0 DEF TypeOK, FanOutItem
  <2>2. Nonce(f) \in Text
    BY <2>1 DEF Nonce, FanOutItem, Text
  <2>3. \A i \in f.to : job(i) \in Job /\ Sendable(job(i))
    BY <1>0, <2>1, <2>2 DEF FanOutItem, Job, Sendable, Outward, Routed
  <2>4. \A j \in outbox' : j \in outbox \/ \E i \in f.to : j = job(i)
    BY <1>4 DEF FanOut
  <2> HIDE DEF job
  <2>5. outbox' \subseteq Job /\ \A j \in outbox' : Sendable(j)
    BY <1>0, <2>3, <2>4 DEF TypeOK, Routed
  <2>6. fanouts' \subseteq fanouts /\ UNCHANGED <<copy, local, net, announced, written, counts>>
    BY <1>4 DEF FanOut
  <2>7. TypeOK'
    BY <1>0, <2>5, <2>6 DEF TypeOK, counts
  <2>8. Routed'
    BY <1>0, <2>5, <2>6 DEF Routed
  <2>9. Counted'
    BY <1>0, <2>6 DEF Counted
  <2>10. QED
    BY <2>7, <2>8, <2>9 DEF IInv
<1>5. ASSUME NEW j \in outbox, Dispatch(j)
      PROVE  IInv'
  <2> DEFINE m == [from |-> j.from, to |-> j.to, kind |-> j.kind, nonce |-> j.nonce,
                   text |-> j.text, attempt |-> j.tries, checked |-> FALSE]
             k == [j EXCEPT !.state = "active"]
  <2>1. j \in Job /\ Sendable(j)
    BY <1>0 DEF TypeOK, Routed
  <2>2. m \in Envelope /\ Outward(m) /\ ~m.checked
    BY <2>1 DEF Job, Envelope, Sendable, Outward
  <2>3. k = [j EXCEPT !.state = "active"]
    OBVIOUS
  <2>4. k \in Job /\ k.from = j.from /\ k.to = j.to /\ k.tries = j.tries
    BY <2>1, <2>3, StateChanged
  <2>5. Sendable(k)
    BY <1>5, <2>1, <2>4 DEF Sendable, Outward, Dispatch
  <2>6. outbox' = (outbox \ {j}) \cup {k} /\ net' = net \cup {m}
    BY <1>5 DEF Dispatch
  <2> HIDE DEF m, k
  <2>7. UNCHANGED <<copy, local, fanouts, announced, written, counts>>
    BY <1>5 DEF Dispatch
  <2>8. TypeOK'
    BY <1>0, <2>2, <2>4, <2>6, <2>7 DEF TypeOK, counts
  <2>9. Routed'
    BY <1>0, <2>2, <2>5, <2>6, <2>7 DEF Routed
  <2>10. Counted'
    BY <1>0, <2>2, <2>6, <2>7 DEF Counted
  <2>11. QED
    BY <2>8, <2>9, <2>10 DEF IInv
<1>6. ASSUME NEW j \in outbox, NEW dropped \in BOOLEAN, NoAnswer(j, dropped)
      PROVE  IInv'
  <2>1. j \in Job /\ Sendable(j)
    BY <1>0 DEF TypeOK, Routed
  <2> DEFINE next == IF j.tries + 1 < Attempts THEN "waiting" ELSE "failed"
  <2>a. PICK state : state = next
    OBVIOUS
  <2>b. PICK tries : tries = j.tries + 1
    OBVIOUS
  <2>c. PICK k : k = [j EXCEPT !.tries = tries, !.state = state]
    OBVIOUS
  <2>2. outbox' = (outbox \ {j}) \cup {k}
    BY <1>6, <2>a, <2>b, <2>c DEF NoAnswer
  <2>3. failures' \in 0..MaxFailures /\ net' \subseteq net
    BY <1>0, <1>6 DEF NoAnswer, TypeOK
  <2>4. UNCHANGED <<copy, local, fanouts, announced, written, edits, crashes>>
    BY <1>6 DEF NoAnswer
  <2>5. tries \in 0..Attempts /\ state \in {"waiting", "active", "completed", "failed"}
    BY <1>6, <2>1, <2>a, <2>b DEF NoAnswer, Sendable, Job
  <2>6. /\ k \in Job /\ k.from = j.from /\ k.to = j.to
        /\ k.state = state /\ k.tries = tries
    BY <2>1, <2>c, <2>5 DEF Job
  <2>7. Sendable(k)
    BY <2>1, <2>a, <2>b, <2>6 DEF Sendable, Outward
  <2>8. TypeOK'
    BY <1>0, <2>2, <2>3, <2>4, <2>6 DEF TypeOK
  <2>9. Routed'
    BY <1>0, <2>2, <2>3, <2>4, <2>7 DEF Routed
  <2>10. Counted'
    BY <1>0, <2>3, <2>4 DEF Counted
  <2>11. QED
    BY <2>8, <2>9, <2>10 DEF IInv
<1>7. ASSUME NEW m \in net, Receive(m)
      PROVE  IInv'
  <2> DEFINE n == [m EXCEPT !.checked = TRUE]
  <2>1. m \in Envelope /\ Outward(m)
    BY <1>0 DEF TypeOK, Routed
  <2>2. UNCHANGED <<copy, local, fanouts, announced, written, counts>>
    BY <1>7 DEF Receive
  <2>3. CASE Answer(m, "failed") \/ Answer(m, "completed")
    <3>1. net' = net \ {m} /\ outbox' \subseteq Job /\ \A j \in outbox' : Sendable(j)
      BY <1>0, <2>3, AnswerResult
    <3>2. TypeOK'
      BY <1>0, <2>2, <3>1 DEF TypeOK, counts
    <3>3. QED
      BY <1>0, <2>2, <3>1, <3>2 DEF IInv, Routed, Counted
  <2>4. CASE /\ net' = (net \ {m}) \cup {n}
             /\ UNCHANGED outbox
             /\ m.kind # "create" => copy[m.to].status # "none"
    <3>1. n \in Envelope /\ n.to = m.to /\ n.from = m.from /\ n.kind = m.kind
      BY <2>1 DEF Envelope
    <3>2. Outward(n)
      BY <2>1, <3>1 DEF Outward
    <3> HIDE DEF n
    <3>3. TypeOK'
      BY <1>0, <2>2, <2>4, <3>1 DEF TypeOK, counts
    <3>4. Routed'
      BY <1>0, <2>2, <2>4, <3>2 DEF Routed
    <3>5. Counted'
      BY <1>0, <2>2, <2>4, <3>1 DEF Counted
    <3>6. QED
      BY <3>3, <3>4, <3>5 DEF IInv
  <2>5. m.kind \in Kind
    BY <2>1 DEF Envelope
  <2>6. QED
    BY <1>7, <2>3, <2>4, <2>5 DEF Receive, Kind
<1>8. ASSUME NEW m \in net, CommitCreate(m)
      PROVE  IInv'
  <2>1. /\ m \in Envelope /\ Outward(m)
        /\ m.to \in Instance /\ m.from \in Instance /\ m.text \in Text
    BY <1>0 DEF TypeOK, Routed, Envelope
  <2>2. \A n \in net : n.to \in Instance
    BY <1>0 DEF TypeOK, Envelope
  <2>3. UNCHANGED <<local, written, counts>>
    BY <1>8 DEF CommitCreate
  <2>4. CASE copy[m.to].status # "none"
    <3>1. Answer(m, "failed") /\ UNCHANGED <<copy, announced, fanouts>>
      BY <1>8, <2>4 DEF CommitCreate
    <3>2. net' = net \ {m} /\ outbox' \subseteq Job /\ \A j \in outbox' : Sendable(j)
      BY <1>0, <3>1, AnswerResult
    <3>3. TypeOK'
      BY <1>0, <2>3, <3>1, <3>2 DEF TypeOK, counts
    <3>4. QED
      BY <1>0, <2>3, <3>1, <3>2, <3>3 DEF IInv, Routed, Counted
  <2>5. CASE copy[m.to].status = "none"
    <3>1. /\ copy' = [copy EXCEPT ![m.to] = [status |-> "live", text |-> m.text]]
          /\ announced' = [announced EXCEPT ![m.to] = @ + 1]
          /\ Answer(m, "completed")
      BY <1>8, <2>5 DEF CommitCreate
    <3>2. /\ copy' \in [Instance -> CopyRow]
          /\ announced' \in [Instance -> Nat]
          /\ \A x \in Instance : announced'[x] = IF copy'[x].status = "none" THEN 0 ELSE 1
          /\ \A x \in Instance : copy[x].status # "none" => copy'[x] = copy[x]
      BY <1>0, <2>1, <2>5, <3>1, InsertResult
    <3>3. net' = net \ {m} /\ outbox' \subseteq Job /\ \A j \in outbox' : Sendable(j)
      BY <1>0, <3>1, AnswerResult
    <3>4. /\ fanouts' \subseteq FanOutItem
          /\ \A f \in fanouts' : f.at \in {Author, Home} /\ Author \notin f.to /\ f.at \notin f.to
      <4>1. /\ fanouts \subseteq FanOutItem
            /\ \A f \in fanouts : f.at \in {Author, Home} /\ Author \notin f.to /\ f.at \notin f.to
        BY <1>0 DEF TypeOK, FanOutItem, Routed
      <4>2. CASE m.to = Home
        <5> DEFINE f == [at |-> Home, kind |-> "create", text |-> m.text,
                         to |-> Instance \ {Home, m.from}]
        <5>1. m.from = Author
          BY <2>1, <4>2 DEF Outward
        <5>2. f \in FanOutItem
          BY <2>1 DEF FanOutItem, Kind
        <5>3. f.at = Home /\ Author \notin f.to /\ Home \notin f.to
          BY <5>1
        <5>4. fanouts' = fanouts \cup {f}
          BY <1>8, <2>5, <4>2 DEF CommitCreate, Committed
        <5> HIDE DEF f
        <5>5. QED
          BY <4>1, <5>2, <5>3, <5>4
      <4>3. CASE m.to # Home
        BY <1>8, <2>5, <4>1, <4>3 DEF CommitCreate
      <4>4. QED
        BY <4>2, <4>3
    <3>5. TypeOK'
      BY <1>0, <2>3, <3>2, <3>3, <3>4 DEF TypeOK, counts, CopyRow, FanOutItem
    <3>6. Routed'
      BY <1>0, <3>3, <3>4 DEF Routed
    <3>7. Counted'
      BY <1>0, <2>2, <2>3, <3>2, <3>3 DEF Counted
    <3>8. QED
      BY <3>5, <3>6, <3>7 DEF IInv
  <2>6. QED
    BY <2>4, <2>5
<1>9. ASSUME NEW m \in net, CommitChange(m)
      PROVE  IInv'
  <2>1. m.to \in Instance /\ m.kind \in Kind /\ m.text \in Text /\ copy[m.to].status # "none"
    BY <1>0, <1>9 DEF TypeOK, Envelope, Counted, CommitChange
  <2>2. \A n \in net : n.to \in Instance
    BY <1>0 DEF TypeOK, Envelope
  <2>3. /\ copy' \in [Instance -> CopyRow]
        /\ \A x \in Instance : (copy'[x].status = "none") <=> (copy[x].status = "none")
    BY <1>0, <1>9, <2>1, ApplyResult DEF CommitChange
  <2>4. net' = net \ {m} /\ outbox' \subseteq Job /\ \A j \in outbox' : Sendable(j)
    BY <1>0, <1>9, AnswerResult DEF CommitChange
  <2>5. UNCHANGED <<local, fanouts, announced, written, counts>>
    BY <1>9 DEF CommitChange
  <2>6. TypeOK'
    BY <1>0, <2>3, <2>4, <2>5 DEF TypeOK, counts, CopyRow
  <2>7. Routed'
    BY <1>0, <2>4, <2>5 DEF Routed
  <2>8. Counted'
    BY <1>0, <2>2, <2>3, <2>4, <2>5 DEF Counted
  <2>9. QED
    BY <2>6, <2>7, <2>8 DEF IInv
<1>10. ASSUME NEW i \in Instance, Crash(i)
       PROVE  IInv'
  <2>1. /\ fanouts' \subseteq fanouts /\ local' \subseteq local
        /\ UNCHANGED <<copy, outbox, net, announced, written, edits, failures>>
        /\ crashes' \in 0..MaxCrashes
    BY <1>0, <1>10 DEF Crash, TypeOK
  <2>2. TypeOK'
    BY <1>0, <2>1 DEF TypeOK
  <2>3. QED
    BY <1>0, <2>1, <2>2 DEF IInv, Routed, Counted
<1>11. CASE UNCHANGED vars
  <2>1. TypeOK' /\ Routed' /\ Counted'
    BY <1>0, <1>11 DEF vars, TypeOK, Routed, Counted
  <2>2. QED
    BY <2>1 DEF IInv
<1>12. QED
  BY <1>1, <1>2, <1>3, <1>4, <1>5, <1>6, <1>7, <1>8, <1>9, <1>10, <1>11 DEF Next

LEMMA Invariance == Spec => []IInv
  BY InitIInv, NextIInv, PTL DEF Spec

-----------------------------------------------------------------------------
\* Types, for any instances and bounds.
THEOREM TypeCorrect == Spec => []TypeOK
  BY Invariance, PTL DEF IInv

\* Timeouts, retries and relays never make an instance announce the message
\* twice.
THEOREM AnnouncedAtMostOnce == Spec => []AnnouncedOnce
<1>1. ASSUME Counted, NEW i \in Instance PROVE announced[i] <= 1
  <2>1. announced[i] = IF copy[i].status = "none" THEN 0 ELSE 1
    BY <1>1 DEF Counted
  <2>2. QED
    BY <2>1
<1>2. IInv => AnnouncedOnce
  BY <1>1 DEF IInv, AnnouncedOnce
<1>3. QED
  BY <1>2, Invariance, PTL

\* Fan-outs and relays never send the message back, and mirrors never send it on.
THEOREM RelayHasNoEcho == Spec => []NothingEchoes
<1>1. IInv => NothingEchoes
  BY DEF IInv, Routed, Sendable, Outward, NothingEchoes
<1>2. QED
  BY <1>1, Invariance, PTL

\* No late create, retry or edit brings a deleted message back on an instance.
THEOREM DeletionIsFinal == Spec => DeletedStaysDeleted
<1> DEFINE Stays == \A i \in Instance : copy[i].status = "deleted" => copy'[i].status = "deleted"
<1>1. ASSUME IInv, [Next]_vars PROVE Stays
  <2>1. TypeOK /\ Counted /\ copy \in [Instance -> CopyRow]
    BY <1>1 DEF IInv, TypeOK, CopyRow
  <2>2. CASE Post
    BY <2>1, <2>2, FederatedMessageAssumption DEF Post
  <2>3. ASSUME NEW change \in local, RequestWrites(change) PROVE Stays
    <3>1. change.kind \in Kind /\ change.text \in Text /\ copy[Author].status # "none"
      BY <2>1 DEF TypeOK, Change, Counted
    <3>2. QED
      BY <2>1, <2>3, <3>1, ApplyResult, FederatedMessageAssumption DEF RequestWrites
  <2>4. ASSUME NEW m \in net, CommitCreate(m) PROVE Stays
    <3>1. CASE copy[m.to].status # "none"
      BY <2>4, <3>1 DEF CommitCreate
    <3>2. CASE copy[m.to].status = "none"
      <4>1. m.to \in Instance
        BY <2>1 DEF TypeOK, Envelope
      <4>2. \A x \in Instance : x # m.to => copy'[x] = copy[x]
        BY <2>1, <2>4, <3>2, <4>1 DEF CommitCreate
      <4>3. QED
        BY <3>2, <4>2
    <3>3. QED
      BY <3>1, <3>2
  <2>5. ASSUME NEW m \in net, CommitChange(m) PROVE Stays
    <3>1. m.to \in Instance /\ m.kind \in Kind /\ m.text \in Text /\ copy[m.to].status # "none"
      BY <2>1, <2>5 DEF TypeOK, Envelope, Counted, CommitChange
    <3>2. QED
      BY <2>1, <2>5, <3>1, ApplyResult DEF CommitChange
  <2>6. CASE UNCHANGED copy
    BY <2>6
  <2>7. \/ Post
        \/ \E change \in local : RequestWrites(change)
        \/ \E m \in net : CommitCreate(m) \/ CommitChange(m)
        \/ UNCHANGED copy
    <3>1. CASE UNCHANGED vars
      BY <3>1 DEF vars
    <3>2. CASE Next
      <4>1. ASSUME NEW kind \in {"update", "delete"}, Request(kind) PROVE UNCHANGED copy
        BY <4>1 DEF Request
      <4>2. ASSUME NEW f \in fanouts, FanOut(f) PROVE UNCHANGED copy
        BY <4>2 DEF FanOut
      <4>3. ASSUME NEW j \in outbox, Dispatch(j) PROVE UNCHANGED copy
        BY <4>3 DEF Dispatch
      <4>4. ASSUME NEW j \in outbox, NEW dropped \in BOOLEAN, NoAnswer(j, dropped)
            PROVE  UNCHANGED copy
        BY <4>4 DEF NoAnswer
      <4>5. ASSUME NEW m \in net, Receive(m) PROVE UNCHANGED copy
        BY <4>5 DEF Receive
      <4>6. ASSUME NEW i \in Instance, Crash(i) PROVE UNCHANGED copy
        BY <4>6 DEF Crash
      <4>7. QED
        BY <3>2, <4>1, <4>2, <4>3, <4>4, <4>5, <4>6 DEF Next
    <3>3. QED
      BY <1>1, <3>1, <3>2
  <2>8. QED
    BY <2>2, <2>3, <2>4, <2>5, <2>6, <2>7
<1>2. IInv /\ [Next]_vars => [Stays]_vars
  BY <1>1
<1>3. QED
  BY <1>2, Invariance, PTL DEF Spec, DeletedStaysDeleted

-----------------------------------------------------------------------------
(* FederatedMessage implements ReplicatedMessage.                            *)

\* A change on its way carries a text the author's row has had, and tells of a
\* deletion only after the author's row was deleted.
Told(x) ==
    /\ x.text \in written
    /\ x.kind = "delete" => x.text = 0 /\ copy[Author].status = "deleted"

Sourced ==
    /\ \A change \in local : change.kind = "delete" => change.text = 0
    /\ \A f \in fanouts : Told(f)
    /\ \A j \in outbox : Told(j)
    /\ \A m \in net : Told(m)

Deleted(i) == copy[i].status = "deleted"

LEMMA InitSourced == Init => Sourced
BY DEF Init, Sourced

\* While nothing is unwritten and the author's deletion is kept, what was told
\* stays true.
LEMMA ToldKept ==
    ASSUME NEW x, Told(x), written \subseteq written', Deleted(Author) => Deleted(Author)'
    PROVE  /\ x.text \in written'
           /\ x.kind = "delete" => x.text = 0 /\ copy'[Author].status = "deleted"
BY DEF Told, Deleted

\* An answer changes no job's text or kind.
LEMMA AnswerTells ==
    ASSUME TypeOK, NEW m \in net, NEW state \in {"completed", "failed"}, Answer(m, state)
    PROVE  /\ net' \subseteq net
           /\ \A k \in outbox' : \E j \in outbox : k.text = j.text /\ k.kind = j.kind
<1>1. ASSUME NEW k \in outbox' PROVE \E j \in outbox : k.text = j.text /\ k.kind = j.kind
  <2>1. PICK j \in outbox : k = IF Carries(m, j) THEN [j EXCEPT !.state = state] ELSE j
    BY <1>1 DEF Answer
  <2>2. j \in Job
    BY DEF TypeOK
  <2>3. k.text = j.text /\ k.kind = j.kind
    BY <2>1, <2>2 DEF Job
  <2>4. QED
    BY <2>3
<1>2. QED
  BY <1>1 DEF Answer

\* A step that writes no row and only moves what was told about keeps Sourced.
LEMMA SourcedMoved ==
    ASSUME Sourced, written' = written, copy' = copy, local' \subseteq local, fanouts' \subseteq fanouts,
           \A k \in outbox' : \/ \E j \in outbox : k.text = j.text /\ k.kind = j.kind
                              \/ \E f \in fanouts : k.text = f.text /\ k.kind = f.kind,
           \A n \in net' : \/ \E m \in net : n.text = m.text /\ n.kind = m.kind
                           \/ \E j \in outbox : n.text = j.text /\ n.kind = j.kind
    PROVE  Sourced'
<1>1. \A f \in fanouts' : Told(f)'
  BY DEF Sourced, Told
<1>2. \A k \in outbox' : Told(k)'
  BY DEF Sourced, Told
<1>3. \A n \in net' : Told(n)'
  BY DEF Sourced, Told
<1>4. \A change \in local' : change.kind = "delete" => change.text = 0
  BY DEF Sourced
<1>5. QED
  BY <1>1, <1>2, <1>3, <1>4 DEF Sourced

\* What was told of stays told of when rows change without unwriting anything.
LEMMA SourcedWritten ==
    ASSUME TypeOK, Sourced, written \subseteq written', Deleted(Author) => Deleted(Author)',
           local' \subseteq local,
           \A f \in fanouts' : f \in fanouts \/ (f.text \in written' /\ (f.kind = "delete" => f.text = 0 /\ Deleted(Author)')),
           \A k \in outbox' : \E j \in outbox : k.text = j.text /\ k.kind = j.kind,
           net' \subseteq net
    PROVE  Sourced'
<1>1. \A f \in fanouts' : Told(f)'
  BY DEF Sourced, Told, Deleted
<1>2. \A k \in outbox' : Told(k)'
  BY DEF Sourced, Told, Deleted
<1>3. \A n \in net' : Told(n)'
  BY DEF Sourced, Told, Deleted
<1>4. \A change \in local' : change.kind = "delete" => change.text = 0
  BY DEF Sourced
<1>5. QED
  BY <1>1, <1>2, <1>3, <1>4 DEF Sourced

\* The initial states map to initial states.
LEMMA InitImplements == Init => Abstract!Init
BY DEF Init, Abstract!Init

\* Every step keeps Sourced and maps to a step of the abstract message or to a
\* stutter.
LEMMA NextImplements ==
    ASSUME IInv, Sourced, [Next]_vars
    PROVE  Sourced' /\ [Abstract!Next]_(Abstract!vars)
<1> USE FederatedMessageAssumption
<1>0. TypeOK /\ Routed /\ Counted /\ copy \in [Instance -> CopyRow] /\ written \subseteq Text
  BY DEF IInv, TypeOK, CopyRow
<1>S. ASSUME copy' = copy, written' = written PROVE [Abstract!Next]_(Abstract!vars)
  BY <1>S DEF Abstract!vars
<1>1. CASE Post
  <2>1. /\ copy' = [copy EXCEPT ![Author] = [status |-> "live", text |-> 1]]
        /\ copy[Author].status = "none" /\ written' = written \cup {1} /\ 1 \in Text
    BY <1>1 DEF Post, Text
  <2>2. Abstract!Post(1)
    BY <2>1 DEF Abstract!Post, Abstract!Exists
  <2>3. Abstract!Next
    BY <2>1, <2>2 DEF Abstract!Next
  <2>4. Sourced'
    <3>1. local' = local /\ outbox' = outbox /\ net' = net
          /\ fanouts' = fanouts \cup {[at |-> Author, kind |-> "create", text |-> 1, to |-> Targets]}
      BY <1>1 DEF Post, Committed
    <3>2. ~Deleted(Author)
      BY <2>1 DEF Deleted
    <3>3. \A f \in fanouts' : f \in fanouts \/ (f.text \in written' /\ (f.kind = "delete" => f.text = 0 /\ Deleted(Author)'))
      BY <2>1, <3>1
    <3>4. QED
      BY <1>0, <2>1, <3>1, <3>2, <3>3, SourcedWritten
  <2>5. QED
    BY <2>3, <2>4
<1>2. ASSUME NEW kind \in {"update", "delete"}, Request(kind)
      PROVE  Sourced' /\ [Abstract!Next]_(Abstract!vars)
  <2>1. UNCHANGED <<copy, fanouts, outbox, net, written>>
    BY <1>2 DEF Request
  <2>2. \A change \in local' : change \in local \/ (change.kind = "delete" => change.text = 0)
    <3>1. CASE kind = "update"
      BY <1>2, <3>1 DEF Request
    <3>2. CASE kind = "delete"
      BY <1>2, <3>2 DEF Request
    <3>3. QED
      BY <3>1, <3>2
  <2>3. Sourced'
    BY <2>1, <2>2 DEF Sourced, Told
  <2>4. QED
    BY <1>S, <2>1, <2>3
<1>3. ASSUME NEW change \in local, RequestWrites(change)
      PROVE  Sourced' /\ [Abstract!Next]_(Abstract!vars)
  <2>1. /\ change.kind \in Kind /\ change.text \in Text /\ copy[Author].status # "none"
        /\ change.kind = "delete" => change.text = 0
    BY <1>0 DEF TypeOK, Change, Counted, Sourced
  <2>2. /\ copy' = [copy EXCEPT ![Author] = [status |-> IF change.kind = "delete" THEN "deleted" ELSE @.status,
                                            text |-> change.text]]
        /\ written' = written \cup {change.text} /\ local' \subseteq local
        /\ outbox' = outbox /\ net' = net
        /\ fanouts' = fanouts \cup {[at |-> Author, kind |-> change.kind, text |-> change.text, to |-> Targets]}
    BY <1>3 DEF RequestWrites, Apply, Committed
  <2>3. Deleted(Author) => Deleted(Author)'
    BY <1>0, <2>2 DEF Deleted
  <2>4. change.kind = "delete" => Deleted(Author)'
    BY <1>0, <2>2 DEF Deleted
  <2>5. \A f \in fanouts' : f \in fanouts \/ (f.text \in written' /\ (f.kind = "delete" => f.text = 0 /\ Deleted(Author)'))
    BY <2>1, <2>2, <2>4
  <2>6. Sourced'
    BY <1>0, <2>2, <2>3, <2>5, SourcedWritten
  <2>7. Abstract!Next
    <3>1. CASE change.kind = "delete"
      <4>1. Abstract!Delete
        BY <2>1, <2>2, <3>1 DEF Abstract!Delete, Abstract!Exists
      <4>2. QED
        BY <4>1 DEF Abstract!Next
    <3>2. CASE change.kind # "delete"
      <4>1. Abstract!Edit(change.text)
        BY <2>1, <2>2, <3>2 DEF Abstract!Edit, Abstract!Exists
      <4>2. QED
        BY <2>1, <4>1 DEF Abstract!Next
    <3>3. QED
      BY <3>1, <3>2
  <2>8. QED
    BY <2>6, <2>7
<1>4. ASSUME NEW f \in fanouts, FanOut(f)
      PROVE  Sourced' /\ [Abstract!Next]_(Abstract!vars)
  <2>1. UNCHANGED <<copy, written, local, net>> /\ fanouts' \subseteq fanouts
    BY <1>4 DEF FanOut
  <2>2. \A k \in outbox' : \/ \E j \in outbox : k.text = j.text /\ k.kind = j.kind
                           \/ \E g \in fanouts : k.text = g.text /\ k.kind = g.kind
    BY <1>4 DEF FanOut
  <2>3. Sourced'
    BY <2>1, <2>2, SourcedMoved
  <2>4. QED
    BY <1>S, <2>1, <2>3
<1>5. ASSUME NEW j \in outbox, Dispatch(j)
      PROVE  Sourced' /\ [Abstract!Next]_(Abstract!vars)
  <2>1. UNCHANGED <<copy, written, local, fanouts>>
    BY <1>5 DEF Dispatch
  <2>2. j \in Job
    BY <1>0 DEF TypeOK
  <2>3. \A k \in outbox' : \E l \in outbox : k.text = l.text /\ k.kind = l.kind
    BY <1>5, <2>2 DEF Dispatch, Job
  <2>4. \A n \in net' : \/ \E m \in net : n.text = m.text /\ n.kind = m.kind
                        \/ \E k \in outbox : n.text = k.text /\ n.kind = k.kind
    BY <1>5 DEF Dispatch
  <2>5. Sourced'
    BY <2>1, <2>3, <2>4, SourcedMoved
  <2>6. QED
    BY <1>S, <2>1, <2>5
<1>6. ASSUME NEW j \in outbox, NEW dropped \in BOOLEAN, NoAnswer(j, dropped)
      PROVE  Sourced' /\ [Abstract!Next]_(Abstract!vars)
  <2>1. UNCHANGED <<copy, written, local, fanouts>> /\ net' \subseteq net
    BY <1>6 DEF NoAnswer
  <2>2. j \in Job
    BY <1>0 DEF TypeOK
  <2>3. \A k \in outbox' : \E l \in outbox : k.text = l.text /\ k.kind = l.kind
    BY <1>6, <2>2 DEF NoAnswer, Job
  <2>4. Sourced'
    BY <2>1, <2>3, SourcedMoved
  <2>5. QED
    BY <1>S, <2>1, <2>4
<1>7. ASSUME NEW m \in net, Receive(m)
      PROVE  Sourced' /\ [Abstract!Next]_(Abstract!vars)
  <2>1. UNCHANGED <<copy, written, local, fanouts>>
    BY <1>7 DEF Receive
  <2>2. m \in Envelope
    BY <1>0 DEF TypeOK
  <2>3. ASSUME Answer(m, "failed") \/ Answer(m, "completed") PROVE Sourced'
    <3>1. net' \subseteq net /\ \A k \in outbox' : \E l \in outbox : k.text = l.text /\ k.kind = l.kind
      BY <1>0, <2>3, AnswerTells
    <3>2. QED
      BY <2>1, <3>1, SourcedMoved
  <2>4. ASSUME net' = (net \ {m}) \cup {[m EXCEPT !.checked = TRUE]}, UNCHANGED outbox
        PROVE  Sourced'
    <3>1. \A n \in net' : \E o \in net : n.text = o.text /\ n.kind = o.kind
      BY <2>2, <2>4 DEF Envelope
    <3>2. QED
      BY <2>1, <2>4, <3>1, SourcedMoved
  <2>5. Sourced'
    BY <1>7, <2>3, <2>4 DEF Receive
  <2>6. QED
    BY <1>S, <2>1, <2>5
<1>8. ASSUME NEW m \in net, CommitCreate(m)
      PROVE  Sourced' /\ [Abstract!Next]_(Abstract!vars)
  <2>1. /\ m.to \in Instance /\ m.to # Author /\ m.text \in written /\ m.text \in Text
    BY <1>0 DEF TypeOK, Envelope, Routed, Outward, Sourced, Told
  <2>2. UNCHANGED <<local, written>>
    BY <1>8 DEF CommitCreate
  <2>3. CASE copy[m.to].status # "none"
    <3>1. Answer(m, "failed") /\ UNCHANGED <<copy, fanouts>>
      BY <1>8, <2>3 DEF CommitCreate
    <3>2. net' \subseteq net /\ \A k \in outbox' : \E l \in outbox : k.text = l.text /\ k.kind = l.kind
      BY <1>0, <3>1, AnswerTells
    <3>3. Sourced'
      BY <2>2, <3>1, <3>2, SourcedMoved
    <3>4. QED
      BY <1>S, <2>2, <3>1, <3>3
  <2>4. CASE copy[m.to].status = "none"
    <3>1. /\ copy' = [copy EXCEPT ![m.to] = [status |-> "live", text |-> m.text]]
          /\ Answer(m, "completed")
      BY <1>8, <2>4 DEF CommitCreate
    <3>2. net' \subseteq net /\ \A k \in outbox' : \E l \in outbox : k.text = l.text /\ k.kind = l.kind
      BY <1>0, <3>1, AnswerTells
    <3>3. Deleted(Author) => Deleted(Author)'
      BY <1>0, <2>1, <3>1 DEF Deleted
    <3>4. \A f \in fanouts' : f \in fanouts \/ (f.text \in written' /\ (f.kind = "delete" => f.text = 0 /\ Deleted(Author)'))
      BY <1>8, <2>1, <2>2, <2>4 DEF CommitCreate, Committed
    <3>5. Sourced'
      BY <1>0, <2>2, <3>2, <3>3, <3>4, SourcedWritten
    <3>6. Abstract!Learn(m.to, m.text)
      BY <2>1, <2>2, <2>4, <3>1 DEF Abstract!Learn, Abstract!Exists
    <3>7. Abstract!Next
      BY <2>1, <3>6 DEF Abstract!Next
    <3>8. QED
      BY <3>5, <3>7
  <2>5. QED
    BY <2>3, <2>4
<1>9. ASSUME NEW m \in net, CommitChange(m)
      PROVE  Sourced' /\ [Abstract!Next]_(Abstract!vars)
  <2>1. /\ m.to \in Instance /\ m.to # Author /\ m.text \in written /\ m.text \in Text
        /\ m.kind = "delete" => m.text = 0 /\ copy[Author].status = "deleted"
    BY <1>0 DEF TypeOK, Envelope, Routed, Outward, Sourced, Told
  <2>2. copy[m.to].status # "none"
    BY <1>0, <1>9 DEF Counted, CommitChange
  <2>3. /\ copy' = [copy EXCEPT ![m.to] = [status |-> IF m.kind = "delete" THEN "deleted" ELSE @.status,
                                          text |-> m.text]]
        /\ UNCHANGED <<local, fanouts, written>>
    BY <1>9 DEF CommitChange, Apply
  <2>4. net' \subseteq net /\ \A k \in outbox' : \E l \in outbox : k.text = l.text /\ k.kind = l.kind
    BY <1>0, <1>9, AnswerTells DEF CommitChange
  <2>5. Deleted(Author) => Deleted(Author)'
    BY <1>0, <2>1, <2>3 DEF Deleted
  <2>6. Sourced'
    BY <1>0, <2>3, <2>4, <2>5, SourcedWritten
  <2>7. Abstract!Next
    <3>1. CASE m.kind = "delete"
      <4>1. Abstract!Drop(m.to)
        BY <2>1, <2>2, <2>3, <3>1 DEF Abstract!Drop, Abstract!Exists
      <4>2. QED
        BY <2>1, <4>1 DEF Abstract!Next
    <3>2. CASE m.kind # "delete"
      <4>1. Abstract!Follow(m.to, m.text)
        BY <2>1, <2>2, <2>3, <3>2 DEF Abstract!Follow, Abstract!Exists
      <4>2. QED
        BY <2>1, <4>1 DEF Abstract!Next
    <3>3. QED
      BY <3>1, <3>2
  <2>8. QED
    BY <2>6, <2>7
<1>10. ASSUME NEW i \in Instance, Crash(i)
       PROVE  Sourced' /\ [Abstract!Next]_(Abstract!vars)
  <2>1. UNCHANGED <<copy, written, outbox, net>> /\ fanouts' \subseteq fanouts /\ local' \subseteq local
    BY <1>10 DEF Crash
  <2>2. Sourced'
    BY <2>1, SourcedMoved
  <2>3. QED
    BY <1>S, <2>1, <2>2
<1>11. CASE UNCHANGED vars
  <2>1. UNCHANGED <<copy, written, local, fanouts, outbox, net>>
    BY <1>11 DEF vars
  <2>2. QED
    BY <1>S, <2>1, SourcedMoved
<1>12. QED
  BY <1>1, <1>2, <1>3, <1>4, <1>5, <1>6, <1>7, <1>8, <1>9, <1>10, <1>11 DEF Next

\* For any instances, edits, failures and crashes, the federated message implements
\* the replicated one: what another instance shows, the author's instance has had.
THEOREM Implements == Spec => Replicates
<1>1. Init => IInv /\ Sourced /\ Abstract!Init
  BY InitIInv, InitSourced, InitImplements
<1>2. IInv /\ Sourced /\ [Next]_vars => (IInv /\ Sourced)'
  BY NextIInv, NextImplements
<1>3. IInv /\ Sourced /\ [Next]_vars => [Abstract!Next]_(Abstract!vars)
  BY NextImplements
<1>4. QED
  BY <1>1, <1>2, <1>3, PTL DEF Spec, Replicates, Abstract!Spec
-----------------------------------------------------------------------------
(* The message reaches every instance.                                       *)

\* BullMQ holds at most one job of an id.
OneJobEach == \A j, k \in outbox : SameJob(j, k) => j = k

\* A create job that waits for an answer has an envelope that will bring one,
\* and a finished one has delivered the message or used up its attempts.
CreateJobsLive ==
    \A j \in outbox : j.kind = "create" =>
        /\ j.state = "active" => \E m \in net : Carries(m, j)
        /\ j.state \in {"completed", "failed"} => copy[j.to].status # "none" \/ j.tries >= Attempts

\* Nothing is under way, and no instance has the message, before its author does.
NothingEarlier ==
    copy[Author].status = "none" =>
        /\ local = {} /\ fanouts = {} /\ outbox = {} /\ net = {}
        /\ \A i \in Instance : copy[i].status = "none"

\* A fan-out or a job is to bring the message to instance i.
Enqueued(i) ==
    \/ \E f \in fanouts : f.kind = "create" /\ i \in f.to
    \/ \E j \in outbox : j.kind = "create" /\ j.to = i

\* An instance without the message has it coming, from the author or, once the
\* home has it, from the home.
Covered ==
    crashes = 0 /\ copy[Author].status # "none" =>
        \A i \in Instance : copy[i].status = "none" =>
            Enqueued(i) \/ (i # Home /\ copy[Home].status = "none")

DeliveryInv == OneJobEach /\ CreateJobsLive /\ NothingEarlier /\ Covered

\* No step takes a row away.
RowsKept == \A i \in Instance : copy[i].status # "none" => copy'[i].status # "none"

\* Jobs and envelopes left alone stay live while no row goes.
LEMMA QueueUnchanged ==
    ASSUME TypeOK, OneJobEach, CreateJobsLive, RowsKept, outbox' = outbox, net' = net
    PROVE  OneJobEach' /\ CreateJobsLive'
<1>1. \A j \in outbox : j.to \in Instance
  BY DEF TypeOK, Job
<1>2. OneJobEach'
  BY DEF OneJobEach, SameJob
<1>3. CreateJobsLive'
  BY <1>1 DEF CreateJobsLive, RowsKept, Carries, SameJob
<1>4. QED
  BY <1>2, <1>3

\* One job that changes its state or its tries keeps the ids apart.
LEMMA JobMoved ==
    ASSUME OneJobEach, NEW j \in outbox, NEW k, SameJob(k, j), outbox' = (outbox \ {j}) \cup {k}
    PROVE  OneJobEach'
<1>1. \A x \in outbox : x # j => ~SameJob(x, j) /\ ~SameJob(j, x)
  BY DEF OneJobEach
<1>2. \A x \in outbox : x # j => ~SameJob(x, k) /\ ~SameJob(k, x)
  BY <1>1 DEF SameJob
<1>3. QED
  BY <1>2 DEF OneJobEach

\* An answer finishes the job it belongs to, and no other; an answered create
\* leaves a row behind.
LEMMA AnswerDelivers ==
    ASSUME TypeOK, OneJobEach, CreateJobsLive, RowsKept,
           NEW m \in net, NEW state \in {"completed", "failed"}, Answer(m, state),
           m.kind = "create" => copy'[m.to].status # "none"
    PROVE  /\ OneJobEach' /\ CreateJobsLive'
           /\ \A j \in outbox : \E k \in outbox' : k.kind = j.kind /\ k.to = j.to
<1> DEFINE after(j) == IF Carries(m, j) THEN [j EXCEPT !.state = state] ELSE j
<1>1. outbox' = {after(j) : j \in outbox} /\ net' = net \ {m}
  BY DEF Answer
<1>2. ASSUME NEW j \in outbox
      PROVE  /\ SameJob(after(j), j) /\ after(j).kind = j.kind /\ after(j).to = j.to
             /\ after(j).tries = j.tries
             /\ after(j).state = IF Carries(m, j) THEN state ELSE j.state
  <2>1. j \in Job
    BY DEF TypeOK
  <2>2. QED
    BY <2>1 DEF Job, SameJob
<1>3. \A j \in outbox : ~Carries(m, j) => after(j) = j
  OBVIOUS
<1> HIDE DEF after
<1>4. OneJobEach'
  <2>1. ASSUME NEW x \in outbox, NEW y \in outbox, SameJob(after(x), after(y)) PROVE x = y
    <3>1. SameJob(x, y)
      BY <1>2, <2>1 DEF SameJob
    <3>2. QED
      BY <3>1 DEF OneJobEach
  <2>2. QED
    BY <1>1, <2>1 DEF OneJobEach
<1>5. CreateJobsLive'
  <2>1. ASSUME NEW j \in outbox, j.kind = "create"
        PROVE  /\ after(j).state = "active" => \E n \in net' : Carries(n, after(j))
               /\ after(j).state \in {"completed", "failed"} =>
                    copy'[j.to].status # "none" \/ j.tries >= Attempts
    <3>1. CASE Carries(m, j)
      <4>1. m.kind = "create" /\ m.to = j.to
        BY <2>1, <3>1 DEF Carries, SameJob
      <4>2. QED
        BY <1>2, <3>1, <4>1
    <3>2. CASE ~Carries(m, j)
      <4>1. j.to \in Instance
        BY DEF TypeOK, Job
      <4>2. after(j) = j
        BY <1>3, <3>2
      <4>3. j.state = "active" => \E n \in net' : Carries(n, j)
        BY <1>1, <2>1, <3>2 DEF CreateJobsLive
      <4>4. QED
        BY <2>1, <4>1, <4>2, <4>3 DEF CreateJobsLive, RowsKept
    <3>3. QED
      BY <3>1, <3>2
  <2>2. ASSUME NEW k \in outbox', k.kind = "create"
        PROVE  /\ k.state = "active" => \E n \in net' : Carries(n, k)
               /\ k.state \in {"completed", "failed"} =>
                    copy'[k.to].status # "none" \/ k.tries >= Attempts
    <3>1. PICK j \in outbox : k = after(j)
      BY <1>1, <2>2
    <3>2. j.kind = "create" /\ k.to = j.to /\ k.tries = j.tries
      BY <1>2, <2>2, <3>1
    <3>3. QED
      BY <2>1, <3>1, <3>2
  <2>3. QED
    BY <2>2 DEF CreateJobsLive, Carries, SameJob
<1>6. QED
  BY <1>1, <1>2, <1>4, <1>5

\* While nothing that is enqueued is given up and the home keeps to its relay, no
\* instance is forgotten.
LEMMA CoveredKept ==
    ASSUME Covered, RowsKept, crashes' = crashes, copy[Author].status # "none",
           \A i \in Instance : Enqueued(i) => Enqueued(i)',
           \/ copy'[Home].status = copy[Home].status
           \/ \A i \in Instance : i # Home /\ copy'[i].status = "none" => Enqueued(i)'
    PROVE  Covered'
BY DEF Covered, RowsKept

LEMMA NextKeepsRows == IInv /\ [Next]_vars => RowsKept
<1> SUFFICES ASSUME IInv, [Next]_vars PROVE RowsKept
  OBVIOUS
<1>1. IInv'
  BY NextIInv
<1>2. \A i \in Instance : /\ announced[i] = IF copy[i].status = "none" THEN 0 ELSE 1
                          /\ announced'[i] = IF copy'[i].status = "none" THEN 0 ELSE 1
  BY <1>1 DEF IInv, Counted
<1>3. \A i \in Instance : announced'[i] = announced[i] \/ announced'[i] = announced[i] + 1
  <2>1. announced \in [Instance -> Nat] /\ \A m \in net : m.to \in Instance
    BY DEF IInv, TypeOK, Envelope
  <2>2. CASE Post
    BY <2>1, <2>2, FederatedMessageAssumption DEF Post
  <2>3. ASSUME NEW m \in net, CommitCreate(m)
        PROVE  \A i \in Instance : announced'[i] = announced[i] \/ announced'[i] = announced[i] + 1
    BY <2>1, <2>3 DEF CommitCreate
  <2>4. CASE announced' = announced
    BY <2>4
  <2>5. QED
    BY <2>2, <2>3, <2>4
    DEF Next, vars, Request, RequestWrites, FanOut, Dispatch, NoAnswer, Receive, CommitChange, Crash
<1>4. QED
  BY <1>2, <1>3 DEF RowsKept

LEMMA InitDelivery == Init => DeliveryInv
BY FederatedMessageAssumption
DEF Init, DeliveryInv, OneJobEach, CreateJobsLive, NothingEarlier, Covered

LEMMA NextDelivery == IInv /\ DeliveryInv /\ [Next]_vars => DeliveryInv'
<1> SUFFICES ASSUME IInv, DeliveryInv, [Next]_vars PROVE DeliveryInv'
  OBVIOUS
<1> USE FederatedMessageAssumption
<1>0. /\ TypeOK /\ Routed /\ Counted /\ RowsKept
      /\ OneJobEach /\ CreateJobsLive /\ NothingEarlier /\ Covered
  BY NextKeepsRows DEF IInv, DeliveryInv
<1>T. copy \in [Instance -> CopyRow] /\ outbox \subseteq Job /\ net \subseteq Envelope
  BY <1>0 DEF TypeOK, CopyRow
<1>A. copy[Author].status # "none" => NothingEarlier'
  BY <1>0 DEF RowsKept, NothingEarlier
<1>B. ASSUME OneJobEach', CreateJobsLive', copy[Author].status # "none", copy' = copy,
             crashes' = crashes, \A i \in Instance : Enqueued(i) => Enqueued(i)'
      PROVE  DeliveryInv'
  BY <1>0, <1>A, <1>B, CoveredKept DEF DeliveryInv
<1>1. CASE Post
  <2>1. /\ copy[Author].status = "none" /\ outbox' = outbox /\ net' = net
        /\ \A i \in Instance : copy[i].status = "none"
        /\ copy' = [copy EXCEPT ![Author] = [status |-> "live", text |-> 1]]
    BY <1>0, <1>1 DEF Post, NothingEarlier
  <2>2. /\ copy'[Author].status # "none"
        /\ \A i \in Instance : i # Author => copy'[i].status = "none"
    BY <1>T, <2>1
  <2>3. \E f \in fanouts' : f.kind = "create" /\ f.to = Targets
    <3>1. [at |-> Author, kind |-> "create", text |-> 1, to |-> Targets] \in fanouts'
      BY <1>1 DEF Post, Committed
    <3>2. PICK f : f = [at |-> Author, kind |-> "create", text |-> 1, to |-> Targets]
      OBVIOUS
    <3>3. f.kind = "create" /\ f.to = Targets
      BY <3>2
    <3>4. QED
      BY <3>1, <3>2, <3>3
  <2>4. \A i \in Instance \ {Author} : Enqueued(i)' \/ (i # Home /\ copy'[Home].status = "none")
    BY <2>2, <2>3 DEF Enqueued, Targets, Others
  <2>5. OneJobEach' /\ CreateJobsLive'
    BY <1>0, <2>1, QueueUnchanged
  <2>6. NothingEarlier' /\ Covered'
    BY <2>2, <2>4 DEF NothingEarlier, Covered
  <2>7. QED
    BY <2>5, <2>6 DEF DeliveryInv
<1>2. ASSUME NEW kind \in {"update", "delete"}, Request(kind) PROVE DeliveryInv'
  <2>1. /\ UNCHANGED <<copy, fanouts, outbox, net, crashes>>
        /\ copy[Author].status # "none"
    BY <1>2 DEF Request
  <2>2. OneJobEach' /\ CreateJobsLive'
    BY <1>0, <2>1, QueueUnchanged
  <2>3. \A i \in Instance : Enqueued(i) => Enqueued(i)'
    BY <2>1 DEF Enqueued
  <2>4. QED
    BY <1>B, <2>1, <2>2, <2>3
<1>3. ASSUME NEW change \in local, RequestWrites(change) PROVE DeliveryInv'
  <2>1. UNCHANGED <<outbox, net, crashes>> /\ fanouts \subseteq fanouts'
    BY <1>3 DEF RequestWrites, Committed, counts
  <2>2. copy[Author].status # "none"
    BY <1>0 DEF Counted
  <2>3. OneJobEach' /\ CreateJobsLive'
    BY <1>0, <2>1, QueueUnchanged
  <2>4. \A i \in Instance : Enqueued(i) => Enqueued(i)'
    BY <2>1 DEF Enqueued
  <2>5. copy'[Home].status = "none" <=> copy[Home].status = "none"
    <3>1. change.kind \in Kind /\ change.text \in Text
      BY <1>0 DEF TypeOK, Change
    <3>2. QED
      BY <1>0, <1>3, <2>2, <3>1, ApplyResult DEF RequestWrites
  <2>6. Covered'
    BY <1>0, <2>1, <2>2, <2>4, <2>5 DEF Covered, RowsKept
  <2>7. QED
    BY <1>A, <2>2, <2>3, <2>6 DEF DeliveryInv
<1>4. ASSUME NEW f \in fanouts, FanOut(f) PROVE DeliveryInv'
  <2> DEFINE job(i) == [from |-> f.at, to |-> i, kind |-> f.kind, nonce |-> Nonce(f),
                        text |-> f.text, state |-> "waiting", tries |-> 0]
             fresh(i) == ~\E k \in outbox : SameJob(job(i), k)
  <2>1. /\ fanouts' = fanouts \ {f}
        /\ outbox' = outbox \cup {job(i) : i \in {x \in f.to : fresh(x)}}
        /\ UNCHANGED <<copy, net, crashes>>
    BY <1>4 DEF FanOut, counts
  <2>2. \A i : job(i).state = "waiting" /\ job(i).to = i /\ job(i).kind = f.kind
    OBVIOUS
  <2>3. \A i, x : SameJob(job(i), job(x)) => i = x
    BY DEF SameJob
  <2>4. \A i, k : SameJob(k, job(i)) => SameJob(job(i), k) /\ k.to = i /\ k.kind = f.kind
    BY DEF SameJob
  <2>5. \A i, k : SameJob(job(i), k) => SameJob(k, job(i))
    BY DEF SameJob
  <2>6. \A k \in outbox' : k \in outbox \/ \E i \in f.to : fresh(i) /\ k = job(i)
    BY <2>1
  <2> HIDE DEF job
  <2>7. OneJobEach'
    BY <1>0, <2>3, <2>4, <2>6 DEF OneJobEach
  <2>8. CreateJobsLive'
    <3>1. \A k \in outbox' : k.state = "waiting" \/ k \in outbox
      BY <2>2, <2>6
    <3>2. QED
      BY <1>0, <2>1, <3>1 DEF CreateJobsLive, Carries, SameJob
  <2>9. ASSUME NEW i \in Instance, Enqueued(i) PROVE Enqueued(i)'
    <3>1. CASE f.kind = "create" /\ i \in f.to
      <4>1. CASE fresh(i)
        BY <2>1, <2>2, <3>1, <4>1 DEF Enqueued
      <4>2. CASE ~fresh(i)
        BY <2>1, <2>4, <2>5, <3>1, <4>2 DEF Enqueued
      <4>3. QED
        BY <4>1, <4>2
    <3>2. CASE ~(f.kind = "create" /\ i \in f.to)
      BY <2>1, <2>9, <3>2 DEF Enqueued
    <3>3. QED
      BY <3>1, <3>2
  <2>10. copy[Author].status # "none"
    BY <1>0 DEF NothingEarlier
  <2>11. QED
    BY <1>B, <2>1, <2>7, <2>8, <2>9, <2>10
<1>5. ASSUME NEW j \in outbox, Dispatch(j) PROVE DeliveryInv'
  <2> DEFINE m == [from |-> j.from, to |-> j.to, kind |-> j.kind, nonce |-> j.nonce,
                   text |-> j.text, attempt |-> j.tries, checked |-> FALSE]
             k == [j EXCEPT !.state = "active"]
  <2>1. /\ outbox' = (outbox \ {j}) \cup {k} /\ net' = net \cup {m}
        /\ UNCHANGED <<copy, fanouts, crashes>>
    BY <1>5 DEF Dispatch, counts
  <2>2. /\ SameJob(k, j) /\ k.kind = j.kind /\ k.to = j.to /\ k.state = "active"
        /\ Carries(m, k)
    BY <1>T DEF Job, SameJob, Carries
  <2> HIDE DEF m, k
  <2>3. OneJobEach'
    BY <1>0, <2>1, <2>2, JobMoved
  <2>4. CreateJobsLive'
    BY <1>0, <2>1, <2>2 DEF CreateJobsLive, Carries, SameJob
  <2>5. \A i \in Instance : Enqueued(i) => Enqueued(i)'
    BY <2>1, <2>2 DEF Enqueued
  <2>6. copy[Author].status # "none"
    BY <1>0 DEF NothingEarlier
  <2>7. QED
    BY <1>B, <2>1, <2>3, <2>4, <2>5, <2>6
<1>6. ASSUME NEW j \in outbox, NEW dropped \in BOOLEAN, NoAnswer(j, dropped) PROVE DeliveryInv'
  <2>1. PICK k : k = [j EXCEPT !.tries = j.tries + 1,
                               !.state = IF j.tries + 1 < Attempts THEN "waiting" ELSE "failed"]
    OBVIOUS
  <2>2. /\ outbox' = (outbox \ {j}) \cup {k}
        /\ \A m \in net : m \notin net' => Carries(m, j)
        /\ UNCHANGED <<copy, fanouts, crashes>>
    BY <1>6, <2>1 DEF NoAnswer
  <2>3. /\ SameJob(k, j) /\ k.kind = j.kind /\ k.to = j.to
        /\ k.state = "waiting" \/ (k.state = "failed" /\ k.tries >= Attempts)
    <3>1. j \in Job
      BY <1>T
    <3>2. j.tries \in Nat
      BY <3>1 DEF Job
    <3>3. /\ SameJob(k, j) /\ k.kind = j.kind /\ k.to = j.to /\ k.tries = j.tries + 1
          /\ k.state = IF j.tries + 1 < Attempts THEN "waiting" ELSE "failed"
      BY <2>1, <3>1 DEF Job, SameJob
    <3>4. QED
      BY <3>2, <3>3
  <2>4. OneJobEach'
    BY <1>0, <2>2, <2>3, JobMoved
  <2>5. CreateJobsLive'
    <3>1. \A x \in outbox, m \in net : x # j /\ Carries(m, x) => m \in net'
      BY <1>0, <2>2 DEF Carries, OneJobEach, SameJob
    <3>2. \A x \in outbox' : x = k \/ (x \in outbox /\ x # j)
      BY <2>2
    <3>3. QED
      BY <1>0, <2>2, <2>3, <3>1, <3>2 DEF CreateJobsLive, Carries, SameJob
  <2>6. \A i \in Instance : Enqueued(i) => Enqueued(i)'
    BY <2>2, <2>3 DEF Enqueued
  <2>7. copy[Author].status # "none"
    BY <1>0 DEF NothingEarlier
  <2>8. QED
    BY <1>B, <2>2, <2>4, <2>5, <2>6, <2>7
<1>7. ASSUME NEW m \in net, Receive(m) PROVE DeliveryInv'
  <2> DEFINE n == [m EXCEPT !.checked = TRUE]
  <2>1. UNCHANGED <<copy, fanouts, crashes>> /\ copy[Author].status # "none"
    BY <1>0, <1>7 DEF Receive, counts, NothingEarlier
  <2>2. CASE \E state \in {"completed", "failed"} :
                Answer(m, state) /\ (m.kind = "create" => copy[m.to].status # "none")
    <3>1. /\ OneJobEach' /\ CreateJobsLive'
          /\ \A j \in outbox : \E k \in outbox' : k.kind = j.kind /\ k.to = j.to
      BY <1>0, <2>1, <2>2, AnswerDelivers
    <3>2. \A i \in Instance : Enqueued(i) => Enqueued(i)'
      BY <2>1, <3>1 DEF Enqueued
    <3>3. QED
      BY <1>B, <2>1, <3>1, <3>2
  <2>3. CASE net' = (net \ {m}) \cup {n} /\ outbox' = outbox
    <3>1. \A j : Carries(m, j) => Carries(n, j)
      BY <1>T DEF Envelope, Carries, SameJob
    <3> HIDE DEF n
    <3>2. OneJobEach' /\ CreateJobsLive'
      BY <1>0, <2>1, <2>3, <3>1 DEF OneJobEach, CreateJobsLive, Carries, SameJob
    <3>3. \A i \in Instance : Enqueued(i) => Enqueued(i)'
      BY <2>1, <2>3 DEF Enqueued
    <3>4. QED
      BY <1>B, <2>1, <3>2, <3>3
  <2>4. QED
    BY <1>7, <2>2, <2>3 DEF Receive
<1>8. ASSUME NEW m \in net, CommitCreate(m) PROVE DeliveryInv'
  <2>1. /\ m.to \in Instance /\ Outward(m) /\ m.kind = "create" /\ crashes' = crashes
        /\ copy[Author].status # "none"
    BY <1>0, <1>T, <1>8 DEF CommitCreate, counts, NothingEarlier, Routed, Envelope
  <2>2. CASE copy[m.to].status # "none"
    <3>1. Answer(m, "failed") /\ UNCHANGED <<copy, fanouts>>
      BY <1>8, <2>2 DEF CommitCreate
    <3>2. /\ OneJobEach' /\ CreateJobsLive'
          /\ \A j \in outbox : \E k \in outbox' : k.kind = j.kind /\ k.to = j.to
      BY <1>0, <2>2, <3>1, AnswerDelivers
    <3>3. \A i \in Instance : Enqueued(i) => Enqueued(i)'
      BY <3>1, <3>2 DEF Enqueued
    <3>4. QED
      BY <1>B, <2>1, <3>1, <3>2, <3>3
  <2>3. CASE copy[m.to].status = "none"
    <3>1. /\ Answer(m, "completed")
          /\ copy' = [copy EXCEPT ![m.to] = [status |-> "live", text |-> m.text]]
      BY <1>8, <2>3 DEF CommitCreate
    <3>2. copy'[m.to].status # "none" /\ \A i \in Instance : i # m.to => copy'[i] = copy[i]
      BY <1>T, <2>1, <3>1
    <3>3. /\ OneJobEach' /\ CreateJobsLive'
          /\ \A j \in outbox : \E k \in outbox' : k.kind = j.kind /\ k.to = j.to
      BY <1>0, <3>1, <3>2, AnswerDelivers
    <3>4. fanouts \subseteq fanouts'
      BY <1>8, <2>3 DEF CommitCreate, Committed
    <3>5. \A i \in Instance : Enqueued(i) => Enqueued(i)'
      BY <3>3, <3>4 DEF Enqueued
    <3>6. CASE m.to = Home
      <4>1. m.from = Author /\ copy'[Author].status # "none"
        BY <1>0, <2>1, <3>6 DEF Outward, RowsKept
      <4>2. \E f \in fanouts' : f.kind = "create" /\ f.to = Instance \ {Home, m.from}
        <5>1. PICK f : f = [at |-> Home, kind |-> "create", text |-> m.text,
                            to |-> Instance \ {Home, m.from}]
          OBVIOUS
        <5>2. f \in fanouts'
          BY <1>8, <2>3, <3>6, <5>1 DEF CommitCreate, Committed
        <5>3. f.kind = "create" /\ f.to = Instance \ {Home, m.from}
          BY <5>1
        <5>4. QED
          BY <5>2, <5>3
      <4>3. \A i \in Instance : i # Home /\ copy'[i].status = "none" => Enqueued(i)'
        BY <4>1, <4>2 DEF Enqueued
      <4>4. Covered'
        BY <1>0, <2>1, <3>5, <4>3, CoveredKept
      <4>5. QED
        BY <1>A, <2>1, <3>3, <4>4 DEF DeliveryInv
    <3>7. CASE m.to # Home
      <4>1. copy'[Home].status = copy[Home].status
        BY <3>2, <3>7
      <4>2. Covered'
        BY <1>0, <2>1, <3>5, <4>1, CoveredKept
      <4>3. QED
        BY <1>A, <2>1, <3>3, <4>2 DEF DeliveryInv
    <3>8. QED
      BY <3>6, <3>7
  <2>4. QED
    BY <2>2, <2>3
<1>9. ASSUME NEW m \in net, CommitChange(m) PROVE DeliveryInv'
  <2>1. /\ m.to \in Instance /\ m.kind \in Kind /\ m.text \in Text /\ m.kind # "create"
        /\ copy[m.to].status # "none" /\ copy[Author].status # "none"
        /\ fanouts' = fanouts /\ crashes' = crashes
    BY <1>0, <1>T, <1>9 DEF CommitChange, counts, NothingEarlier, Counted, Envelope
  <2>2. copy'[Home].status = "none" <=> copy[Home].status = "none"
    BY <1>0, <1>9, <2>1, ApplyResult DEF CommitChange
  <2>3. /\ OneJobEach' /\ CreateJobsLive'
        /\ \A j \in outbox : \E k \in outbox' : k.kind = j.kind /\ k.to = j.to
    BY <1>0, <1>9, <2>1, AnswerDelivers DEF CommitChange
  <2>4. \A i \in Instance : Enqueued(i) => Enqueued(i)'
    BY <2>1, <2>3 DEF Enqueued
  <2>5. Covered'
    BY <1>0, <2>1, <2>2, <2>4 DEF Covered, RowsKept
  <2>6. QED
    BY <1>A, <2>1, <2>3, <2>5 DEF DeliveryInv
<1>10. ASSUME NEW i \in Instance, Crash(i) PROVE DeliveryInv'
  <2>1. /\ UNCHANGED <<copy, outbox, net>> /\ crashes' # 0
        /\ fanouts' \subseteq fanouts /\ local' \subseteq local
    BY <1>0, <1>10 DEF Crash, TypeOK
  <2>2. OneJobEach' /\ CreateJobsLive'
    BY <1>0, <2>1, QueueUnchanged
  <2>3. NothingEarlier' /\ Covered'
    BY <1>0, <2>1 DEF NothingEarlier, Covered
  <2>4. QED
    BY <2>2, <2>3 DEF DeliveryInv
<1>11. CASE UNCHANGED vars
  BY <1>0, <1>11
  DEF vars, counts, DeliveryInv, OneJobEach, SameJob, CreateJobsLive, Carries, NothingEarlier, Covered, Enqueued
<1>12. QED
  BY <1>1, <1>2, <1>3, <1>4, <1>5, <1>6, <1>7, <1>8, <1>9, <1>10, <1>11 DEF Next

\* However envelopes are delayed, repeated, reordered or lost, the message ends up
\* on every instance, through the relay of the home too, unless a job used up its
\* attempts or an API process died between a commit and its enqueue.
THEOREM CreateIsDelivered == Spec => []CreateReachesAll
<1>1. IInv /\ DeliveryInv => CreateReachesAll
  <2> SUFFICES ASSUME IInv, DeliveryInv, Rest, crashes = 0,
                      \A j \in outbox : j.tries < Attempts, copy[Author].status # "none"
               PROVE  \A i \in Instance : copy[i].status # "none"
    BY DEF CreateReachesAll
  <2>1. \A j \in outbox : j.tries \in Nat /\ Attempts \in Nat
    BY FederatedMessageAssumption DEF IInv, TypeOK, Job
  <2>2. \A j \in outbox : j.kind = "create" => copy[j.to].status # "none"
    BY <2>1 DEF DeliveryInv, CreateJobsLive, Rest
  <2>3. \A i \in Instance : Enqueued(i) => copy[i].status # "none"
    BY <2>2 DEF Enqueued, Rest
  <2>4. copy[Home].status # "none"
    BY <2>3, FederatedMessageAssumption DEF DeliveryInv, Covered
  <2>5. QED
    BY <2>3, <2>4 DEF DeliveryInv, Covered
<1>2. QED
  BY <1>1, Invariance, InitDelivery, NextDelivery, PTL DEF Spec

-----------------------------------------------------------------------------
(* -- Uploads: the line of the governor ---------------------------------------- *)

Puts(stage) == {a \in Attachment : put[a] = stage}

PutTypes ==
    /\ bad \subseteq Followed /\ stored \subseteq Attachment
    /\ link \in [Attachment -> {"none", "direct", "ticket", "used"}]
    /\ put \in [Attachment -> {"none", "waiting", "woken", "sending"}]
    /\ waiters \in Seq(Attachment)
    /\ activeUploads \in Nat

\* The line holds each upload that waits exactly once, and only those.
LineIsKept ==
    /\ \A i \in 1..Len(waiters) : put[waiters[i]] = "waiting"
    /\ \A i, j \in 1..Len(waiters) : waiters[i] = waiters[j] => i = j
    /\ \A a \in Puts("waiting") : \E i \in 1..Len(waiters) : waiters[i] = a
    /\ Len(waiters) = Cardinality(Puts("waiting"))
    /\ IsFiniteSet(Puts("waiting")) /\ IsFiniteSet(Puts("woken")) /\ IsFiniteSet(Puts("sending"))

\* SlotsAreUsed, of the sets above.
SlotsAreCounted ==
    /\ activeUploads = Cardinality(Puts("sending"))
    /\ activeUploads <= MaxConcurrent
    /\ Puts("waiting") # {} => activeUploads + Cardinality(Puts("woken")) >= MaxConcurrent

LineInv == PutTypes /\ LineIsKept /\ SlotsAreCounted

\* An upload that is not in line takes a slot, or the end of the line.
LEMMA AcquireKeeps ==
    ASSUME LineInv, NEW a \in Attachment, put[a] \in {"none", "woken"}, AcquireSlot(a)
    PROVE  /\ put' \in [Attachment -> {"none", "waiting", "woken", "sending"}]
           /\ waiters' \in Seq(Attachment) /\ activeUploads' \in Nat
           /\ LineIsKept' /\ SlotsAreCounted'
<1> DEFINE stages == {"none", "waiting", "woken", "sending"}
<1>1. /\ PutTypes /\ put \in [Attachment -> stages] /\ waiters \in Seq(Attachment)
      /\ activeUploads \in Nat /\ MaxConcurrent \in Nat
  BY UploadsAssumption DEF LineInv, PutTypes
<1>2. /\ IsFiniteSet(Puts("waiting")) /\ IsFiniteSet(Puts("woken")) /\ IsFiniteSet(Puts("sending"))
      /\ Cardinality(Puts("waiting")) \in Nat /\ Cardinality(Puts("woken")) \in Nat
      /\ Cardinality(Puts("sending")) \in Nat
  BY FS_CardinalityType DEF LineInv, LineIsKept
<1>3. a \notin Puts("waiting") /\ a \notin Puts("sending")
  BY DEF Puts
<1>4. Len(waiters) \in Nat /\ \A i \in 1..Len(waiters) : waiters[i] # a /\ waiters[i] \in Attachment
  BY <1>1 DEF LineInv, LineIsKept
<1>5. CASE activeUploads >= MaxConcurrent
  <2>1. /\ waiters' = Append(waiters, a) /\ put' = [put EXCEPT ![a] = "waiting"]
        /\ activeUploads' = activeUploads
    BY <1>5 DEF AcquireSlot
  <2>2. /\ Puts("waiting")' = Puts("waiting") \cup {a} /\ Puts("woken")' = Puts("woken") \ {a}
        /\ Puts("sending")' = Puts("sending") /\ put' \in [Attachment -> stages]
    BY <1>1, <1>3, <2>1 DEF Puts
  <2>3. /\ IsFiniteSet(Puts("waiting")') /\ IsFiniteSet(Puts("woken")') /\ IsFiniteSet(Puts("sending")')
        /\ Cardinality(Puts("waiting")') = Cardinality(Puts("waiting")) + 1
        /\ Cardinality(Puts("woken")') \in Nat
    BY <1>2, <1>3, <2>2, FS_AddElement, FS_RemoveElement, FS_CardinalityType
  <2>4. /\ waiters' \in Seq(Attachment) /\ Len(waiters') = Len(waiters) + 1
        /\ waiters'[Len(waiters) + 1] = a
        /\ \A i \in 1..Len(waiters) : waiters'[i] = waiters[i]
    BY <1>1, <2>1
  <2>5. \A i \in 1..Len(waiters') : i = Len(waiters) + 1 \/ i \in 1..Len(waiters)
    BY <1>4, <2>4
  <2>6. \A i \in 1..Len(waiters') : put'[waiters'[i]] = "waiting"
    BY <1>1, <1>4, <2>1, <2>4, <2>5 DEF LineInv, LineIsKept
  <2>7. \A i, j \in 1..Len(waiters') : waiters'[i] = waiters'[j] => i = j
    BY <1>4, <2>4, <2>5 DEF LineInv, LineIsKept
  <2>8. \A b \in Puts("waiting")' : \E i \in 1..Len(waiters') : waiters'[i] = b
    <3>1. 1..Len(waiters) \subseteq 1..Len(waiters') /\ Len(waiters) + 1 \in 1..Len(waiters')
      BY <1>4, <2>4
    <3>2. QED
      BY <2>2, <2>4, <3>1 DEF LineInv, LineIsKept
  <2>9. LineIsKept'
    BY <2>3, <2>4, <2>6, <2>7, <2>8 DEF LineInv, LineIsKept
  <2>10. SlotsAreCounted'
    BY <1>1, <1>5, <2>1, <2>2, <2>3 DEF LineInv, SlotsAreCounted
  <2>11. QED
    BY <1>1, <2>1, <2>2, <2>4, <2>9, <2>10
<1>6. CASE ~(activeUploads >= MaxConcurrent)
  <2>1. /\ waiters' = waiters /\ put' = [put EXCEPT ![a] = "sending"]
        /\ activeUploads' = activeUploads + 1
    BY <1>6 DEF AcquireSlot
  <2>2. /\ Puts("waiting")' = Puts("waiting") /\ Puts("woken")' = Puts("woken") \ {a}
        /\ Puts("sending")' = Puts("sending") \cup {a} /\ put' \in [Attachment -> stages]
    BY <1>1, <1>3, <2>1 DEF Puts
  <2>3. /\ IsFiniteSet(Puts("woken")') /\ IsFiniteSet(Puts("sending")')
        /\ Cardinality(Puts("sending")') = Cardinality(Puts("sending")) + 1
        /\ Cardinality(Puts("woken")') \in Nat
        /\ Cardinality(Puts("woken")') >= Cardinality(Puts("woken")) - 1
    <3>1. /\ IsFiniteSet(Puts("woken") \ {a})
          /\ Cardinality(Puts("woken") \ {a}) \in {Cardinality(Puts("woken")), Cardinality(Puts("woken")) - 1}
      BY <1>2, FS_RemoveElement
    <3>2. Cardinality(Puts("woken") \ {a}) \in Nat
      BY <3>1, FS_CardinalityType
    <3>3. /\ IsFiniteSet(Puts("sending") \cup {a})
          /\ Cardinality(Puts("sending") \cup {a}) = Cardinality(Puts("sending")) + 1
      BY <1>2, <1>3, FS_AddElement
    <3>4. Cardinality(Puts("woken") \ {a}) >= Cardinality(Puts("woken")) - 1
      BY <1>2, <3>1
    <3>5. QED
      BY <2>2, <3>1, <3>2, <3>3, <3>4
  <2>4. \A i \in 1..Len(waiters) : put'[waiters[i]] = "waiting"
    BY <1>1, <1>4, <2>1 DEF LineInv, LineIsKept
  <2>5. LineIsKept'
    BY <2>1, <2>2, <2>3, <2>4 DEF LineInv, LineIsKept
  <2>6. SlotsAreCounted'
    BY <1>1, <1>2, <1>6, <2>1, <2>2, <2>3 DEF LineInv, SlotsAreCounted
  <2>7. QED
    BY <1>1, <2>1, <2>2, <2>5, <2>6
<1>7. QED
  BY <1>5, <1>6

\* A slot that is freed goes to nobody, or wakes the first in line.
LEMMA ReleaseKeeps ==
    ASSUME LineInv, NEW a \in Attachment, put[a] = "sending", Release(a)
    PROVE  /\ put' \in [Attachment -> {"none", "waiting", "woken", "sending"}]
           /\ waiters' \in Seq(Attachment) /\ activeUploads' \in Nat
           /\ LineIsKept' /\ SlotsAreCounted'
<1> DEFINE stages == {"none", "waiting", "woken", "sending"}
<1>1. /\ PutTypes /\ put \in [Attachment -> stages] /\ waiters \in Seq(Attachment)
      /\ activeUploads \in Nat /\ MaxConcurrent \in Nat /\ Len(waiters) \in Nat
  BY UploadsAssumption DEF LineInv, PutTypes
<1>2. /\ IsFiniteSet(Puts("waiting")) /\ IsFiniteSet(Puts("woken")) /\ IsFiniteSet(Puts("sending"))
      /\ Cardinality(Puts("waiting")) \in Nat /\ Cardinality(Puts("woken")) \in Nat
      /\ Cardinality(Puts("sending")) \in Nat
  BY FS_CardinalityType DEF LineInv, LineIsKept
<1>3. a \notin Puts("waiting") /\ a \notin Puts("woken") /\ a \in Puts("sending")
  BY DEF Puts
<1>4. /\ IsFiniteSet(Puts("sending") \ {a})
      /\ Cardinality(Puts("sending") \ {a}) = Cardinality(Puts("sending")) - 1
  BY <1>2, <1>3, FS_RemoveElement
<1>5. activeUploads' = activeUploads - 1 /\ activeUploads = Cardinality(Puts("sending"))
  BY DEF Release, LineInv, SlotsAreCounted
<1>6. activeUploads' \in Nat /\ activeUploads' = Cardinality(Puts("sending") \ {a})
  BY <1>2, <1>4, <1>5, FS_CardinalityType
<1>7. CASE waiters = <<>>
  <2>1. waiters' = waiters /\ put' = [put EXCEPT ![a] = "none"]
    BY <1>7 DEF Release
  <2>2. /\ Puts("waiting")' = Puts("waiting") /\ Puts("woken")' = Puts("woken")
        /\ Puts("sending")' = Puts("sending") \ {a} /\ put' \in [Attachment -> stages]
    BY <1>1, <1>3, <2>1 DEF Puts
  <2>3. Len(waiters) = 0
    BY <1>7
  <2>4. \A b : b \notin Puts("waiting")
    BY <2>3 DEF LineInv, LineIsKept
  <2>5. LineIsKept'
    <3>1. Len(waiters) = Cardinality(Puts("waiting"))
      BY DEF LineInv, LineIsKept
    <3>2. \A i : i \notin 1..Len(waiters)
      BY <2>3
    <3>3. IsFiniteSet(Puts("waiting")') /\ IsFiniteSet(Puts("woken")') /\ IsFiniteSet(Puts("sending")')
      BY <1>2, <1>4, <2>2
    <3>4. Len(waiters') = Cardinality(Puts("waiting")')
      BY <2>1, <2>2, <3>1
    <3>5. QED
      BY <2>1, <2>2, <2>4, <3>2, <3>3, <3>4 DEF LineIsKept
  <2>6. activeUploads' <= MaxConcurrent
    BY <1>1, <1>5 DEF LineInv, SlotsAreCounted
  <2>7. SlotsAreCounted'
    BY <1>6, <2>2, <2>4, <2>6 DEF SlotsAreCounted
  <2>8. QED
    BY <1>1, <1>6, <2>1, <2>2, <2>5, <2>7
<1>8. CASE waiters # <<>>
  <2> DEFINE h == Head(waiters)
  <2>1. waiters' = Tail(waiters) /\ put' = [put EXCEPT ![a] = "none", ![h] = "woken"]
    BY <1>8 DEF Release
  <2>2. /\ h = waiters[1] /\ 1 \in 1..Len(waiters) /\ h \in Attachment
        /\ waiters' \in Seq(Attachment) /\ Len(waiters') = Len(waiters) - 1
        /\ \A i \in 1..Len(waiters') : i + 1 \in 1..Len(waiters) /\ waiters'[i] = waiters[i + 1]
    BY <1>1, <1>8, <2>1
  <2>3. put[h] = "waiting" /\ h # a
    BY <2>2 DEF LineInv, LineIsKept
  <2> HIDE DEF h
  <2>4. /\ put' \in [Attachment -> stages] /\ put'[h] = "woken" /\ put'[a] = "none"
        /\ \A b \in Attachment \ {a, h} : put'[b] = put[b]
    BY <1>1, <2>1, <2>2, <2>3
  <2>5. /\ Puts("waiting")' = Puts("waiting") \ {h} /\ Puts("woken")' = Puts("woken") \cup {h}
        /\ Puts("sending")' = Puts("sending") \ {a}
        /\ h \in Puts("waiting") /\ h \notin Puts("woken")
    BY <2>2, <2>3, <2>4 DEF Puts
  <2>6. /\ IsFiniteSet(Puts("waiting")') /\ IsFiniteSet(Puts("woken")') /\ IsFiniteSet(Puts("sending")')
        /\ Cardinality(Puts("waiting")') = Cardinality(Puts("waiting")) - 1
        /\ Cardinality(Puts("woken")') = Cardinality(Puts("woken")) + 1
    <3>1. /\ IsFiniteSet(Puts("waiting") \ {h})
          /\ Cardinality(Puts("waiting") \ {h}) = Cardinality(Puts("waiting")) - 1
      BY <1>2, <2>5, FS_RemoveElement
    <3>2. /\ IsFiniteSet(Puts("woken") \cup {h})
          /\ Cardinality(Puts("woken") \cup {h}) = Cardinality(Puts("woken")) + 1
      BY <1>2, <2>5, FS_AddElement
    <3>3. QED
      BY <1>4, <2>5, <3>1, <3>2
  <2>7. \A i \in 1..Len(waiters') : waiters'[i] # h /\ waiters'[i] # a /\ waiters'[i] \in Attachment
    <3> SUFFICES ASSUME NEW i \in 1..Len(waiters')
                 PROVE  waiters'[i] # h /\ waiters'[i] # a /\ waiters'[i] \in Attachment
      OBVIOUS
    <3>1. i + 1 \in 1..Len(waiters) /\ waiters'[i] = waiters[i + 1] /\ i + 1 # 1
      BY <2>2
    <3>2. put[waiters[i + 1]] = "waiting" /\ (waiters[i + 1] = waiters[1] => i + 1 = 1)
      BY <2>2, <3>1 DEF LineInv, LineIsKept
    <3>3. QED
      BY <1>1, <2>2, <3>1, <3>2
  <2>8. \A i \in 1..Len(waiters') : put'[waiters'[i]] = "waiting"
    BY <2>2, <2>4, <2>7 DEF LineInv, LineIsKept
  <2>9. \A i, j \in 1..Len(waiters') : waiters'[i] = waiters'[j] => i = j
    BY <2>2 DEF LineInv, LineIsKept
  <2>10. \A b \in Puts("waiting")' : \E i \in 1..Len(waiters') : waiters'[i] = b
    <3> SUFFICES ASSUME NEW b \in Puts("waiting") \ {h}
                 PROVE  \E i \in 1..Len(waiters') : waiters'[i] = b
      BY <2>5
    <3>1. PICK j \in 1..Len(waiters) : waiters[j] = b
      BY DEF LineInv, LineIsKept
    <3>2. j # 1
      BY <2>2, <3>1
    <3>3. j - 1 \in 1..Len(waiters') /\ (j - 1) + 1 = j
      BY <1>1, <2>2, <3>2
    <3>4. waiters'[j - 1] = waiters[j]
      BY <2>2, <3>3
    <3>5. QED
      BY <3>1, <3>3, <3>4
  <2>11. LineIsKept'
    BY <2>2, <2>6, <2>8, <2>9, <2>10 DEF LineInv, LineIsKept
  <2>12. activeUploads' <= MaxConcurrent
    BY <1>1, <1>5 DEF LineInv, SlotsAreCounted
  <2>13. activeUploads + Cardinality(Puts("woken")) >= MaxConcurrent
    BY <2>5 DEF LineInv, SlotsAreCounted
  <2>14. activeUploads' + Cardinality(Puts("woken")') >= MaxConcurrent
    BY <1>1, <1>2, <1>5, <2>6, <2>13
  <2>15. SlotsAreCounted'
    BY <1>6, <2>5, <2>12, <2>14 DEF SlotsAreCounted
  <2>16. QED
    BY <1>6, <2>2, <2>4, <2>11, <2>15
<1>9. QED
  BY <1>7, <1>8

LEMMA LineStep == LineInv /\ [UploadsNext]_uploadsVars => LineInv'
<1> SUFFICES ASSUME LineInv, [UploadsNext]_uploadsVars PROVE LineInv'
  OBVIOUS
<1>1. ASSUME UNCHANGED <<put, waiters, activeUploads>> PROVE LineIsKept' /\ SlotsAreCounted'
  BY <1>1 DEF LineInv, LineIsKept, SlotsAreCounted, Puts
<1>2. ASSUME NEW a \in Attachment, RequestUpload(a) PROVE LineInv'
  <2>1. UNCHANGED <<put, waiters, activeUploads>> /\ PutTypes'
    BY <1>2 DEF RequestUpload, LineInv, PutTypes
  <2>2. QED
    BY <1>1, <2>1 DEF LineInv
<1>3. ASSUME NEW a \in Attachment, PutStraight(a) PROVE LineInv'
  <2>1. UNCHANGED <<put, waiters, activeUploads>> /\ PutTypes'
    BY <1>3 DEF PutStraight, LineInv, PutTypes
  <2>2. QED
    BY <1>1, <2>1 DEF LineInv
<1>4. ASSUME NEW a \in Attachment, PutArrives(a) PROVE LineInv'
  <2>1. /\ put' \in [Attachment -> {"none", "waiting", "woken", "sending"}]
        /\ waiters' \in Seq(Attachment) /\ activeUploads' \in Nat
        /\ LineIsKept' /\ SlotsAreCounted'
    BY <1>4, AcquireKeeps DEF PutArrives
  <2>2. PutTypes'
    BY <1>4, <2>1 DEF PutArrives, LineInv, PutTypes
  <2>3. QED
    BY <2>1, <2>2 DEF LineInv
<1>5. ASSUME NEW a \in Attachment, WaiterResumes(a) PROVE LineInv'
  <2>1. /\ put' \in [Attachment -> {"none", "waiting", "woken", "sending"}]
        /\ waiters' \in Seq(Attachment) /\ activeUploads' \in Nat
        /\ LineIsKept' /\ SlotsAreCounted'
    BY <1>5, AcquireKeeps DEF WaiterResumes
  <2>2. PutTypes'
    BY <1>5, <2>1 DEF WaiterResumes, LineInv, PutTypes
  <2>3. QED
    BY <2>1, <2>2 DEF LineInv
<1>6. ASSUME NEW a \in Attachment, PutEnds(a) PROVE LineInv'
  <2>1. /\ put' \in [Attachment -> {"none", "waiting", "woken", "sending"}]
        /\ waiters' \in Seq(Attachment) /\ activeUploads' \in Nat
        /\ LineIsKept' /\ SlotsAreCounted'
    BY <1>6, ReleaseKeeps DEF PutEnds
  <2>2. PutTypes'
    BY <1>6, <2>1 DEF PutEnds, LineInv, PutTypes
  <2>3. QED
    BY <2>1, <2>2 DEF LineInv
<1>7. ASSUME NEW a \in Attachment, ScanEnds(a) PROVE LineInv'
  <2>1. UNCHANGED <<put, waiters, activeUploads>> /\ PutTypes'
    BY <1>7 DEF ScanEnds, upload, LineInv, PutTypes
  <2>2. QED
    BY <1>1, <2>1 DEF LineInv
<1>8. CASE RestartApi
  <2>1. /\ put' = [a \in Attachment |-> "none"] /\ waiters' = <<>> /\ activeUploads' = 0
        /\ bad' = bad /\ stored' = stored
        /\ link' = [a \in Attachment |-> IF link[a] = "ticket" THEN "used" ELSE link[a]]
    BY <1>8 DEF RestartApi
  <2>2. link' \in [Attachment -> {"none", "direct", "ticket", "used"}]
    BY <2>1 DEF LineInv, PutTypes
  <2>3. put' \in [Attachment -> {"none", "waiting", "woken", "sending"}]
    BY <2>1
  <2>4. waiters' \in Seq(Attachment) /\ Len(waiters') = 0
    BY <2>1
  <2>5. PutTypes'
    BY <2>1, <2>2, <2>3, <2>4 DEF LineInv, PutTypes
  <2>6. Puts("waiting")' = {} /\ Puts("woken")' = {} /\ Puts("sending")' = {}
    BY <2>1 DEF Puts
  <2>7. /\ IsFiniteSet(Puts("waiting")') /\ IsFiniteSet(Puts("woken")') /\ IsFiniteSet(Puts("sending")')
        /\ Cardinality(Puts("waiting")') = 0 /\ Cardinality(Puts("sending")') = 0
    BY <2>6, FS_EmptySet
  <2>8. LineIsKept'
    BY <2>4, <2>6, <2>7 DEF LineIsKept
  <2>9. SlotsAreCounted'
    BY <2>1, <2>6, <2>7, UploadsAssumption DEF SlotsAreCounted
  <2>10. QED
    BY <2>5, <2>8, <2>9 DEF LineInv
<1>9. ASSUME UNCHANGED <<stored, upload>> PROVE LineInv'
  BY <1>1, <1>9 DEF upload, LineInv, PutTypes
<1>10. QED
  BY <1>2, <1>3, <1>4, <1>5, <1>6, <1>7, <1>8, <1>9
  DEF UploadsNext, uploadsVars, CompleteChecks, CompleteWrites, Enqueue, ScanStarts, ScanMarks,
      BackfillReads, BackfillWrites, PatchReads, PatchWrites, PostChecks, PostCommits, RestartWorker

-----------------------------------------------------------------------------
(* -- Uploads: the claims of messages ------------------------------------------ *)

PostTypes ==
    /\ post \in [Message -> [stage : {"unused", "checked", "posted", "refused"},
                             of : Attachment \cup {None}]]
    /\ messageId \in [Attachment -> Message \cup {None}]
    /\ crossed \subseteq Attachment

\* A message that has checked an attachment someone claimed since is one of two that
\* claimed it at once.
ClaimsAreMarked ==
    \A m \in Message :
        /\ post[m].stage \in {"checked", "posted"} => post[m].of \in Attachment
        /\ post[m].stage = "checked" => messageId[post[m].of] = None \/ post[m].of \in crossed

ClaimInv == PostTypes /\ ClaimsAreMarked /\ PostedKeepsFile

LEMMA PostChecksKeeps ==
    ASSUME ClaimInv, NEW m \in Message, NEW a \in Attachment, PostChecks(m, a)
    PROVE  ClaimInv'
<1>1. /\ post' = [post EXCEPT ![m] = [stage |-> "checked", of |-> a]]
      /\ messageId[a] = None /\ messageId' = messageId /\ crossed' = crossed
  BY DEF PostChecks
<1>2. post \in [Message -> [stage : {"unused", "checked", "posted", "refused"},
                            of : Attachment \cup {None}]]
  BY DEF ClaimInv, PostTypes
<1>3. /\ post'[m].stage = "checked" /\ post'[m].of = a
      /\ \A n \in Message \ {m} : post'[n] = post[n]
  BY <1>1, <1>2
<1>4. PostTypes'
  BY <1>1, <1>2 DEF ClaimInv, PostTypes
<1>5. ClaimsAreMarked'
  BY <1>1, <1>3 DEF ClaimInv, ClaimsAreMarked
<1>6. PostedKeepsFile'
  BY <1>1, <1>3 DEF ClaimInv, PostedKeepsFile
<1>7. QED
  BY <1>4, <1>5, <1>6 DEF ClaimInv

LEMMA PostCommitsKeeps ==
    ASSUME ClaimInv, NEW m \in Message, PostCommits(m)
    PROVE  ClaimInv'
<1> DEFINE a == post[m].of
<1>1. post \in [Message -> [stage : {"unused", "checked", "posted", "refused"},
                            of : Attachment \cup {None}]]
  BY DEF ClaimInv, PostTypes
<1>2. post[m].stage = "checked" /\ a \in Attachment /\ (messageId[a] = None \/ a \in crossed)
  BY DEF PostCommits, ClaimInv, ClaimsAreMarked
<1>3. /\ post' = [post EXCEPT ![m].stage = "posted"]
      /\ messageId' = [messageId EXCEPT ![a] = m]
      /\ crossed \subseteq crossed' /\ crossed' \subseteq crossed \cup {a}
      /\ (\E n \in Message \ {m} : post[n] = [stage |-> "checked", of |-> a]) => a \in crossed'
  BY DEF PostCommits
<1>4. /\ post'[m].stage = "posted" /\ post'[m].of = a
      /\ \A n \in Message \ {m} : post'[n] = post[n]
  BY <1>1, <1>3
<1>5. \A n \in Message \ {m} : post[n].stage = "checked" /\ post[n].of = a => a \in crossed'
  <2> SUFFICES ASSUME NEW n \in Message \ {m}, post[n].stage = "checked", post[n].of = a
               PROVE  a \in crossed'
    OBVIOUS
  <2> HIDE DEF a
  <2>1. post[n] = [stage |-> "checked", of |-> a]
    BY <1>1
  <2>2. QED
    BY <1>3, <2>1
<1> HIDE DEF a
<1>6. /\ messageId' \in [Attachment -> Message \cup {None}] /\ messageId'[a] = m
      /\ \A b \in Attachment \ {a} : messageId'[b] = messageId[b]
  BY <1>2, <1>3 DEF ClaimInv, PostTypes
<1>7. PostTypes'
  BY <1>1, <1>2, <1>3, <1>6 DEF ClaimInv, PostTypes
<1>8. ClaimsAreMarked'
  <2> SUFFICES ASSUME NEW n \in Message
               PROVE  /\ post'[n].stage \in {"checked", "posted"} => post'[n].of \in Attachment
                      /\ post'[n].stage = "checked" =>
                            messageId'[post'[n].of] = None \/ post'[n].of \in crossed'
    BY DEF ClaimsAreMarked
  <2>1. CASE n = m
    BY <1>2, <1>4, <2>1
  <2>2. CASE n # m
    BY <1>3, <1>4, <1>5, <1>6, <2>2 DEF ClaimInv, ClaimsAreMarked
  <2>3. QED
    BY <2>1, <2>2
<1>9. PostedKeepsFile'
  <2> SUFFICES ASSUME NEW n \in Message, post'[n].stage = "posted"
               PROVE  messageId'[post'[n].of] = n \/ post'[n].of \in crossed'
    BY DEF PostedKeepsFile
  <2>1. CASE n = m
    BY <1>4, <1>6, <2>1
  <2>2. CASE n # m
    <3>1. /\ post[n].stage = "posted" /\ post'[n].of = post[n].of /\ post[n].of \in Attachment
          /\ messageId[post[n].of] = n \/ post[n].of \in crossed
      BY <1>4, <2>2 DEF ClaimInv, ClaimsAreMarked, PostedKeepsFile
    <3>2. n # None
      BY UploadsAssumption
    <3>3. QED
      BY <1>2, <1>3, <1>6, <3>1, <3>2
  <2>3. QED
    BY <2>1, <2>2
<1>10. QED
  BY <1>7, <1>8, <1>9 DEF ClaimInv

LEMMA ClaimStep == ClaimInv /\ [UploadsNext]_uploadsVars => ClaimInv'
<1> SUFFICES ASSUME ClaimInv, [UploadsNext]_uploadsVars PROVE ClaimInv'
  OBVIOUS
<1>1. ASSUME NEW m \in Message, NEW a \in Attachment, PostChecks(m, a) PROVE ClaimInv'
  BY <1>1, PostChecksKeeps
<1>2. ASSUME NEW m \in Message, PostCommits(m) PROVE ClaimInv'
  BY <1>2, PostCommitsKeeps
<1>3. CASE RestartApi
  <2>1. /\ post' = [m \in Message |-> IF post[m].stage = "checked"
                                      THEN [stage |-> "refused", of |-> None] ELSE post[m]]
        /\ messageId' = messageId /\ crossed' = crossed
    BY <1>3 DEF RestartApi
  <2>2. post \in [Message -> [stage : {"unused", "checked", "posted", "refused"},
                              of : Attachment \cup {None}]]
    BY DEF ClaimInv, PostTypes
  <2>3. \A m \in Message : \/ post'[m].stage = "refused"
                           \/ post'[m] = post[m] /\ post[m].stage # "checked"
    BY <2>1
  <2>4. PostTypes'
    BY <2>1, <2>2 DEF ClaimInv, PostTypes
  <2>5. ClaimsAreMarked'
    BY <2>1, <2>3 DEF ClaimInv, ClaimsAreMarked
  <2>6. PostedKeepsFile'
    BY <2>1, <2>3 DEF ClaimInv, PostedKeepsFile
  <2>7. QED
    BY <2>4, <2>5, <2>6 DEF ClaimInv
<1>4. ASSUME UNCHANGED posts PROVE ClaimInv'
  BY <1>4 DEF posts, ClaimInv, PostTypes, ClaimsAreMarked, PostedKeepsFile
<1>5. QED
  BY <1>1, <1>2, <1>3, <1>4
  DEF UploadsNext, uploadsVars, RequestUpload, PutStraight, PutArrives, WaiterResumes, PutEnds,
      CompleteChecks, CompleteWrites, Enqueue, ScanStarts, ScanMarks, ScanEnds,
      BackfillReads, BackfillWrites, PatchReads, PatchWrites, RestartWorker

-----------------------------------------------------------------------------
(* -- Uploads: scan jobs and what they report ----------------------------------- *)

Kinds == {"asked", "url", "null"}
Status == Verdicts \cup {"absent", "pending", "uploaded", "processing"}

JobTypes ==
    /\ status \in [Attachment -> Status]
    /\ completing \in [Attachment -> Nat] /\ enqueuing \in [Attachment -> Nat]
    /\ queued \in [Attachment -> Nat] /\ checked \in [Attachment -> Nat]
    /\ scanning \in [Attachment -> Nat]
    /\ backfill \in [Attachment -> [Kinds -> Nat]]
    /\ known \subseteq Attachment /\ twice \subseteq Attachment
    /\ reopened \subseteq Attachment /\ cut \subseteq Attachment
    /\ completes \in 0..MaxCompletes

\* Jobs of a that have yet to begin, and backfills of a that are under way.
Unscanned(a) == enqueuing[a] + queued[a] + checked[a]
Reports(a) == backfill[a]["asked"] + backfill[a]["url"] + backfill[a]["null"]

\* Every job and every report of a goes back to a complete of its own.
JobsAreAsked(a) == completing[a] + Unscanned(a) + scanning[a] + Reports(a) <= completes

\* An attachment completed once, and not cut short, is under one job or one report,
\* which its status tells.
JobsAreInStep(a) ==
    a \notin twice \cup cut =>
        /\ Unscanned(a) + scanning[a] + Reports(a) <= 1
        /\ Unscanned(a) > 0 => status[a] = "uploaded"
        /\ scanning[a] > 0 => status[a] = "processing"
        /\ Reports(a) > 0 => status[a] \in Verdicts
        /\ backfill[a]["url"] > 0 => status[a] = "ready"
        /\ backfill[a]["null"] > 0 => status[a] # "ready"

JobInv == JobTypes /\ \A a \in Attachment : JobsAreAsked(a) /\ JobsAreInStep(a)

\* A step that is no business of b's.
Untouched(b) ==
    /\ status'[b] = status[b]
    /\ completing'[b] = completing[b] /\ enqueuing'[b] = enqueuing[b]
    /\ queued'[b] = queued[b] /\ checked'[b] = checked[b] /\ scanning'[b] = scanning[b]
    /\ backfill'[b] = backfill[b]
    /\ b \in twice \cup cut => b \in twice' \cup cut'

\* A step in the life of a that keeps it, and leaves the others alone.
JobMove(a) ==
    /\ JobTypes' /\ JobsAreAsked(a)' /\ JobsAreInStep(a)'
    /\ completes' >= completes
    /\ \A b \in Attachment \ {a} : Untouched(b)

LEMMA JobCounts ==
    ASSUME JobTypes, NEW a \in Attachment
    PROVE  /\ completing[a] \in Nat /\ enqueuing[a] \in Nat /\ queued[a] \in Nat
           /\ checked[a] \in Nat /\ scanning[a] \in Nat /\ backfill[a] \in [Kinds -> Nat]
           /\ backfill[a]["asked"] \in Nat /\ backfill[a]["url"] \in Nat
           /\ backfill[a]["null"] \in Nat /\ status[a] \in Status
           /\ completes \in Nat /\ MaxCompletes \in Nat
  BY UploadsAssumption DEF JobTypes, Kinds

LEMMA UntouchedKeeps ==
    ASSUME JobInv, NEW b \in Attachment, Untouched(b), completes' \in Nat, completes' >= completes
    PROVE  JobsAreAsked(b)' /\ JobsAreInStep(b)'
<1>1. JobsAreAsked(b) /\ JobsAreInStep(b) /\ JobTypes
  BY DEF JobInv
<1>2. JobsAreAsked(b)'
  BY <1>1, JobCounts DEF Untouched, JobsAreAsked, Unscanned, Reports
<1>3. JobsAreInStep(b)'
  BY <1>1 DEF Untouched, JobsAreInStep, Unscanned, Reports
<1>4. QED
  BY <1>2, <1>3

LEMMA JobMoveKeeps ==
    ASSUME JobInv, NEW a \in Attachment, JobMove(a)
    PROVE  JobInv'
<1>1. JobTypes' /\ completes' >= completes /\ completes' \in Nat
  BY DEF JobMove, JobTypes
<1>2. ASSUME NEW b \in Attachment PROVE JobsAreAsked(b)' /\ JobsAreInStep(b)'
  <2>1. CASE b = a
    BY <2>1 DEF JobMove
  <2>2. CASE b # a
    <3>1. Untouched(b)
      BY <2>2 DEF JobMove
    <3>2. QED
      BY <1>1, <3>1, UntouchedKeeps
  <2>3. QED
    BY <2>1, <2>2
<1>3. QED
  BY <1>1, <1>2 DEF JobInv

LEMMA PlusResult ==
    ASSUME NEW f \in [Attachment -> Nat], NEW a \in Attachment
    PROVE  /\ Plus(f, a) \in [Attachment -> Nat] /\ Plus(f, a)[a] = f[a] + 1
           /\ \A b \in Attachment \ {a} : Plus(f, a)[b] = f[b]
  BY DEF Plus

LEMMA MinusResult ==
    ASSUME NEW f \in [Attachment -> Nat], NEW a \in Attachment, f[a] > 0
    PROVE  /\ Minus(f, a) \in [Attachment -> Nat] /\ Minus(f, a)[a] = f[a] - 1
           /\ \A b \in Attachment \ {a} : Minus(f, a)[b] = f[b]
  BY DEF Minus

\* What a server or a PATCH holds is what the attachment resolves to, or a backfill
\* is about to say so.
Shows(a, url) ==
    IF a = None THEN url = None
    ELSE a \in twice \cup cut \/ Reports(a) > 0 \/ url = Resolved(a)

StillShows(a) == \A url : Shows(a, url) => Shows(a, url)'

LEMMA RequestMoves ==
    ASSUME JobInv, NEW a \in Attachment, RequestUpload(a)
    PROVE  JobMove(a) /\ StillShows(a)
<1>1. /\ status[a] = "absent" /\ status' = [status EXCEPT ![a] = "pending"]
      /\ UNCHANGED <<completing, scans, backfill, twice, reopened, cut, completes>>
  BY DEF RequestUpload
<1>2. JobTypes /\ JobsAreAsked(a) /\ JobsAreInStep(a)
  BY DEF JobInv
<1>3. /\ status' \in [Attachment -> Status] /\ status'[a] = "pending"
      /\ \A b \in Attachment \ {a} : status'[b] = status[b]
  BY <1>1, <1>2 DEF JobTypes, Status
<1>4. JobTypes'
  BY <1>1, <1>2, <1>3 DEF JobTypes, scans
<1>5. JobsAreAsked(a)'
  BY <1>1, <1>2 DEF JobsAreAsked, Unscanned, Reports, scans
<1>6. JobsAreInStep(a)'
  BY <1>1, <1>2, <1>3, JobCounts DEF JobsAreInStep, Unscanned, Reports, scans, Verdicts
<1>7. \A b \in Attachment \ {a} : Untouched(b)
  BY <1>1, <1>3 DEF Untouched, scans
<1>8. StillShows(a)
  BY <1>1, <1>3 DEF StillShows, Shows, Resolved, Reports
<1>9. QED
  BY <1>1, <1>2, <1>4, <1>5, <1>6, <1>7, <1>8, JobCounts DEF JobMove

LEMMA ChecksMoves ==
    ASSUME JobInv, NEW a \in Attachment, CompleteChecks(a)
    PROVE  JobMove(a) /\ StillShows(a)
<1>1. /\ completes < MaxCompletes /\ completes' = completes + 1
      /\ completing' = Plus(completing, a)
      /\ UNCHANGED <<status, scans, backfill, twice, reopened, cut>>
  BY DEF CompleteChecks
<1>2. JobTypes /\ JobsAreAsked(a) /\ JobsAreInStep(a)
  BY DEF JobInv
<1>3. /\ completing' \in [Attachment -> Nat] /\ completing'[a] = completing[a] + 1
      /\ \A b \in Attachment \ {a} : completing'[b] = completing[b]
  <2>1. completing \in [Attachment -> Nat]
    BY <1>2 DEF JobTypes
  <2>2. QED
    BY <1>1, <2>1, PlusResult
<1>4. JobTypes'
  BY <1>1, <1>2, <1>3, UploadsAssumption DEF JobTypes, scans
<1>5. JobsAreAsked(a)'
  BY <1>1, <1>2, <1>3, JobCounts DEF JobsAreAsked, Unscanned, Reports, scans
<1>6. JobsAreInStep(a)'
  BY <1>1, <1>2 DEF JobsAreInStep, Unscanned, Reports, scans
<1>7. \A b \in Attachment \ {a} : Untouched(b)
  BY <1>1, <1>3 DEF Untouched, scans
<1>8. StillShows(a)
  BY <1>1 DEF StillShows, Shows, Resolved, Reports
<1>9. QED
  BY <1>1, <1>2, <1>4, <1>5, <1>6, <1>7, <1>8, JobCounts DEF JobMove

\* A second complete writes a row that is no longer pending, and marks it.
LEMMA WritesMoves ==
    ASSUME JobInv, NEW a \in Attachment, CompleteWrites(a)
    PROVE  JobMove(a) /\ StillShows(a)
<1>1. /\ completing[a] > 0 /\ completing' = Minus(completing, a)
      /\ enqueuing' = Plus(enqueuing, a) /\ status' = [status EXCEPT ![a] = "uploaded"]
      /\ twice' = IF status[a] = "pending" THEN twice ELSE twice \cup {a}
      /\ reopened' = IF status[a] \in Verdicts THEN reopened \cup {a} ELSE reopened
      /\ UNCHANGED <<known, queued, checked, scanning, backfill, cut, completes>>
  BY DEF CompleteWrites
<1>2. JobTypes /\ JobsAreAsked(a) /\ JobsAreInStep(a)
  BY DEF JobInv
<1>3. /\ completing' \in [Attachment -> Nat] /\ completing'[a] = completing[a] - 1
      /\ \A b \in Attachment \ {a} : completing'[b] = completing[b]
  BY <1>1, <1>2, MinusResult DEF JobTypes
<1>4. /\ enqueuing' \in [Attachment -> Nat] /\ enqueuing'[a] = enqueuing[a] + 1
      /\ \A b \in Attachment \ {a} : enqueuing'[b] = enqueuing[b]
  <2>1. enqueuing \in [Attachment -> Nat]
    BY <1>2 DEF JobTypes
  <2>2. QED
    BY <1>1, <2>1, PlusResult
<1>5. /\ status' \in [Attachment -> Status] /\ status'[a] = "uploaded"
      /\ \A b \in Attachment \ {a} : status'[b] = status[b]
  BY <1>1, <1>2 DEF JobTypes, Status
<1>6. JobTypes'
  BY <1>1, <1>2, <1>3, <1>4, <1>5 DEF JobTypes
<1>7. JobsAreAsked(a)'
  <2>1. Reports(a)' = Reports(a) /\ Reports(a) \in Nat
    BY <1>1, <1>2, JobCounts DEF Reports
  <2>2. Unscanned(a)' = Unscanned(a) + 1 /\ Unscanned(a) \in Nat
    BY <1>1, <1>2, <1>4, JobCounts DEF Unscanned
  <2>3. QED
    BY <1>1, <1>2, <1>3, <2>1, <2>2, JobCounts DEF JobsAreAsked
<1>8. a \notin twice' \cup cut' => status[a] = "pending" /\ a \notin twice \cup cut
  BY <1>1
<1>9. JobsAreInStep(a)'
  BY <1>1, <1>2, <1>4, <1>5, <1>8, JobCounts DEF JobsAreInStep, Unscanned, Reports, Verdicts
<1>10. \A b \in Attachment \ {a} : Untouched(b)
  BY <1>1, <1>3, <1>4, <1>5 DEF Untouched
<1>11. StillShows(a)
  BY <1>1, <1>5, <1>8 DEF StillShows, Shows, Resolved, Reports
<1>12. QED
  BY <1>1, <1>2, <1>6, <1>7, <1>9, <1>10, <1>11, JobCounts DEF JobMove

LEMMA EnqueueMoves ==
    ASSUME JobInv, NEW a \in Attachment, Enqueue(a)
    PROVE  JobMove(a) /\ StillShows(a)
<1>1. /\ enqueuing[a] > 0 /\ enqueuing' = Minus(enqueuing, a)
      /\ queued' = queued \/ queued' = Plus(queued, a)
      /\ known' = known \cup {a}
      /\ UNCHANGED <<status, completing, checked, scanning, backfill, twice, reopened, cut, completes>>
  BY DEF Enqueue
<1>2. JobTypes /\ JobsAreAsked(a) /\ JobsAreInStep(a)
  BY DEF JobInv
<1>3. /\ enqueuing' \in [Attachment -> Nat] /\ enqueuing'[a] = enqueuing[a] - 1
      /\ \A b \in Attachment \ {a} : enqueuing'[b] = enqueuing[b]
  <2>1. enqueuing \in [Attachment -> Nat]
    BY <1>2 DEF JobTypes
  <2>2. QED
    BY <1>1, <2>1, MinusResult
<1>4. /\ queued' \in [Attachment -> Nat] /\ queued'[a] \in {queued[a], queued[a] + 1}
      /\ \A b \in Attachment \ {a} : queued'[b] = queued[b]
  <2>1. queued \in [Attachment -> Nat]
    BY <1>2 DEF JobTypes
  <2>2. CASE queued' = queued
    BY <2>1, <2>2
  <2>3. CASE queued' = Plus(queued, a)
    BY <2>1, <2>3, PlusResult
  <2>4. QED
    BY <1>1, <2>2, <2>3
<1>5. JobTypes'
  BY <1>1, <1>2, <1>3, <1>4 DEF JobTypes
<1>6. JobsAreAsked(a)'
  BY <1>1, <1>2, <1>3, <1>4, JobCounts DEF JobsAreAsked, Unscanned, Reports
<1>7. JobsAreInStep(a)'
  BY <1>1, <1>2, <1>3, <1>4, JobCounts DEF JobsAreInStep, Unscanned, Reports
<1>8. \A b \in Attachment \ {a} : Untouched(b)
  BY <1>1, <1>3, <1>4 DEF Untouched
<1>9. StillShows(a)
  BY <1>1 DEF StillShows, Shows, Resolved, Reports
<1>10. QED
  BY <1>1, <1>2, <1>5, <1>6, <1>7, <1>8, <1>9, JobCounts DEF JobMove

LEMMA StartsMoves ==
    ASSUME JobInv, NEW a \in Attachment, ScanStarts(a)
    PROVE  JobMove(a) /\ StillShows(a)
<1>1. /\ queued[a] > 0 /\ queued' = Minus(queued, a)
      /\ checked' = checked \/ checked' = Plus(checked, a)
      /\ UNCHANGED <<status, completing, enqueuing, known, scanning, backfill, twice, reopened,
                     cut, completes>>
  BY DEF ScanStarts
<1>2. JobTypes /\ JobsAreAsked(a) /\ JobsAreInStep(a)
  BY DEF JobInv
<1>3. /\ queued' \in [Attachment -> Nat] /\ queued'[a] = queued[a] - 1
      /\ \A b \in Attachment \ {a} : queued'[b] = queued[b]
  BY <1>1, <1>2, MinusResult DEF JobTypes
<1>4. /\ checked' \in [Attachment -> Nat] /\ checked'[a] \in {checked[a], checked[a] + 1}
      /\ \A b \in Attachment \ {a} : checked'[b] = checked[b]
  <2>1. checked \in [Attachment -> Nat] /\ checked[a] \in Nat
    BY <1>2 DEF JobTypes
  <2>2. CASE checked' = checked
    BY <2>1, <2>2
  <2>3. CASE checked' = Plus(checked, a)
    BY <2>1, <2>3, PlusResult
  <2>4. QED
    BY <1>1, <2>2, <2>3
<1>5. JobTypes'
  BY <1>1, <1>2, <1>3, <1>4 DEF JobTypes
<1>6. JobsAreAsked(a)'
  BY <1>1, <1>2, <1>3, <1>4, JobCounts DEF JobsAreAsked, Unscanned, Reports
<1>7. JobsAreInStep(a)'
  <2>1. Unscanned(a)' <= Unscanned(a) /\ Unscanned(a)' \in Nat /\ Unscanned(a) \in Nat /\ Reports(a) \in Nat
    BY <1>1, <1>2, <1>3, <1>4, JobCounts DEF Unscanned, Reports
  <2>2. Reports(a)' = Reports(a)
    BY <1>1 DEF Reports
  <2>3. QED
    BY <1>1, <1>2, <2>1, <2>2, JobCounts DEF JobsAreInStep
<1>8. \A b \in Attachment \ {a} : Untouched(b)
  BY <1>1, <1>3, <1>4 DEF Untouched
<1>9. StillShows(a)
  BY <1>1 DEF StillShows, Shows, Resolved, Reports
<1>10. QED
  BY <1>1, <1>2, <1>5, <1>6, <1>7, <1>8, <1>9, JobCounts DEF JobMove

\* Only an uploaded row is under a job that has yet to begin.
LEMMA MarksMoves ==
    ASSUME JobInv, NEW a \in Attachment, ScanMarks(a)
    PROVE  JobMove(a) /\ StillShows(a)
<1>1. /\ checked[a] > 0 /\ checked' = Minus(checked, a) /\ scanning' = Plus(scanning, a)
      /\ status' = [status EXCEPT ![a] = "processing"]
      /\ UNCHANGED <<completing, enqueuing, known, queued, backfill, twice, reopened,
                     cut, completes>>
  BY DEF ScanMarks
<1>2. JobTypes /\ JobsAreAsked(a) /\ JobsAreInStep(a)
  BY DEF JobInv
<1>3. /\ checked' \in [Attachment -> Nat] /\ checked'[a] = checked[a] - 1
      /\ \A b \in Attachment \ {a} : checked'[b] = checked[b]
  BY <1>1, <1>2, MinusResult DEF JobTypes
<1>4. /\ scanning' \in [Attachment -> Nat] /\ scanning'[a] = scanning[a] + 1
      /\ \A b \in Attachment \ {a} : scanning'[b] = scanning[b]
  BY <1>1, <1>2, PlusResult DEF JobTypes
<1>5. /\ status' \in [Attachment -> Status] /\ status'[a] = "processing"
      /\ \A b \in Attachment \ {a} : status'[b] = status[b]
  BY <1>1, <1>2 DEF JobTypes, Status
<1>6. JobTypes'
  BY <1>1, <1>2, <1>3, <1>4, <1>5 DEF JobTypes
<1>7. JobsAreAsked(a)'
  BY <1>1, <1>2, <1>3, <1>4, JobCounts DEF JobsAreAsked, Unscanned, Reports
<1>8. JobsAreInStep(a)'
  BY <1>1, <1>2, <1>3, <1>4, <1>5, JobCounts DEF JobsAreInStep, Unscanned, Reports
<1>9. \A b \in Attachment \ {a} : Untouched(b)
  BY <1>1, <1>3, <1>4, <1>5 DEF Untouched
<1>10. a \notin twice \cup cut => status[a] = "uploaded"
  BY <1>1, <1>2, JobCounts DEF JobsAreInStep, Unscanned
<1>11. StillShows(a)
  BY <1>1, <1>5, <1>10 DEF StillShows, Shows, Resolved, Reports
<1>12. QED
  BY <1>1, <1>2, <1>6, <1>7, <1>8, <1>9, <1>11, JobCounts DEF JobMove

\* A verdict is followed by a report.
LEMMA EndsMoves ==
    ASSUME JobInv, NEW a \in Attachment, ScanEnds(a)
    PROVE  JobMove(a) /\ StillShows(a)
<1>1. /\ scanning[a] > 0 /\ scanning' = Minus(scanning, a)
      /\ \E v \in Verdicts : status' = [status EXCEPT ![a] = v]
      /\ backfill' = [backfill EXCEPT ![a]["asked"] = @ + 1]
      /\ UNCHANGED <<completing, enqueuing, known, queued, checked, twice, reopened,
                     cut, completes>>
  BY DEF ScanEnds, Outcomes, Verdicts
<1>2. JobTypes /\ JobsAreAsked(a) /\ JobsAreInStep(a)
  BY DEF JobInv
<1>3. /\ scanning' \in [Attachment -> Nat] /\ scanning'[a] = scanning[a] - 1
      /\ \A b \in Attachment \ {a} : scanning'[b] = scanning[b]
  BY <1>1, <1>2, MinusResult DEF JobTypes
<1>4. /\ backfill' \in [Attachment -> [Kinds -> Nat]]
      /\ backfill'[a]["asked"] = backfill[a]["asked"] + 1
      /\ backfill'[a]["url"] = backfill[a]["url"] /\ backfill'[a]["null"] = backfill[a]["null"]
      /\ \A b \in Attachment \ {a} : backfill'[b] = backfill[b]
  BY <1>1, <1>2 DEF JobTypes, Kinds
<1>5. /\ status' \in [Attachment -> Status] /\ status'[a] \in Verdicts
      /\ \A b \in Attachment \ {a} : status'[b] = status[b]
  BY <1>1, <1>2 DEF JobTypes, Status
<1>6. JobTypes'
  BY <1>1, <1>2, <1>3, <1>4, <1>5 DEF JobTypes
<1>7. JobsAreAsked(a)'
  BY <1>1, <1>2, <1>3, <1>4, JobCounts DEF JobsAreAsked, Unscanned, Reports
<1>8. JobsAreInStep(a)'
  BY <1>1, <1>2, <1>3, <1>4, <1>5, JobCounts DEF JobsAreInStep, Unscanned, Reports
<1>9. \A b \in Attachment \ {a} : Untouched(b)
  BY <1>1, <1>3, <1>4, <1>5 DEF Untouched
<1>10. Reports(a)' > 0
  BY <1>2, <1>4, JobCounts DEF Reports
<1>11. StillShows(a)
  BY <1>1, <1>10 DEF StillShows, Shows
<1>12. QED
  BY <1>1, <1>2, <1>6, <1>7, <1>8, <1>9, <1>11, JobCounts DEF JobMove

\* What a backfill reads of an attachment in step is its verdict.
LEMMA ReadsMoves ==
    ASSUME JobInv, NEW a \in Attachment, BackfillReads(a)
    PROVE  JobMove(a) /\ StillShows(a)
<1> DEFINE found == IF Resolved(a) = a THEN "url" ELSE "null"
<1>1. /\ backfill[a]["asked"] > 0
      /\ backfill' = [backfill EXCEPT ![a]["asked"] = @ - 1, ![a][found] = @ + 1]
      /\ UNCHANGED <<status, completing, scans, twice, reopened, cut, completes>>
  BY DEF BackfillReads
<1>2. JobTypes /\ JobsAreAsked(a) /\ JobsAreInStep(a)
  BY DEF JobInv
<1>3. found \in {"url", "null"} /\ (found = "url" <=> status[a] = "ready")
  BY UploadsAssumption DEF Resolved
<1> HIDE DEF found
<1>4. /\ backfill' \in [Attachment -> [Kinds -> Nat]]
      /\ backfill'[a]["asked"] = backfill[a]["asked"] - 1
      /\ backfill'[a]["url"] = IF found = "url" THEN backfill[a]["url"] + 1 ELSE backfill[a]["url"]
      /\ backfill'[a]["null"] = IF found = "url" THEN backfill[a]["null"] ELSE backfill[a]["null"] + 1
      /\ \A b \in Attachment \ {a} : backfill'[b] = backfill[b]
  <2>1. backfill \in [Attachment -> [Kinds -> Nat]]
    BY <1>2 DEF JobTypes
  <2>2. /\ backfill' \in [Attachment -> [Kinds -> Nat]]
        /\ backfill'[a]["asked"] = backfill[a]["asked"] - 1
        /\ backfill'[a][found] = backfill[a][found] + 1
    BY <1>1, <1>3, <2>1 DEF Kinds
  <2>3. \A k \in Kinds \ {"asked", found} : backfill'[a][k] = backfill[a][k]
    BY <1>1, <1>3, <2>1 DEF Kinds
  <2>4. \A b \in Attachment \ {a} : backfill'[b] = backfill[b]
    BY <1>1, <1>3, <2>1 DEF Kinds
  <2>5. QED
    BY <1>3, <2>2, <2>3, <2>4 DEF Kinds
<1>5. JobTypes'
  BY <1>1, <1>2, <1>4 DEF JobTypes, scans
<1>6. Reports(a)' = Reports(a)
  <2>1. backfill[a]["asked"] \in Nat /\ backfill[a]["url"] \in Nat /\ backfill[a]["null"] \in Nat
    BY <1>2, JobCounts
  <2>2. /\ backfill'[a]["asked"] = backfill[a]["asked"] - 1
        /\ \/ /\ backfill'[a]["url"] = backfill[a]["url"] + 1
              /\ backfill'[a]["null"] = backfill[a]["null"]
           \/ /\ backfill'[a]["url"] = backfill[a]["url"]
              /\ backfill'[a]["null"] = backfill[a]["null"] + 1
    BY <1>4
  <2>3. QED
    BY <2>1, <2>2 DEF Reports
<1>7. JobsAreAsked(a)'
  BY <1>1, <1>2, <1>6 DEF JobsAreAsked, Unscanned, scans
<1>8. JobsAreInStep(a)'
  <2> SUFFICES ASSUME a \notin twice \cup cut PROVE JobsAreInStep(a)'
    BY <1>1 DEF JobsAreInStep
  <2>1. Reports(a) > 0 /\ backfill[a]["url"] = 0 /\ backfill[a]["null"] = 0
    BY <1>1, <1>2, JobCounts DEF JobsAreInStep, Unscanned, Reports
  <2>2. QED
    BY <1>1, <1>2, <1>3, <1>4, <1>6, <2>1 DEF JobsAreInStep, Unscanned, scans
<1>9. \A b \in Attachment \ {a} : Untouched(b)
  BY <1>1, <1>4 DEF Untouched, scans
<1>10. StillShows(a)
  BY <1>1, <1>6 DEF StillShows, Shows, Resolved
<1>11. QED
  BY <1>1, <1>2, <1>5, <1>7, <1>8, <1>9, <1>10, JobCounts DEF JobMove

\* A backfill that is written is over.
LEMMA BackfillMoves ==
    ASSUME JobInv, NEW a \in Attachment, NEW found \in {"url", "null"}, BackfillWrites(a, found)
    PROVE  JobMove(a)
<1>1. /\ backfill[a][found] > 0
      /\ backfill' = [backfill EXCEPT ![a][found] = @ - 1]
      /\ UNCHANGED <<status, completing, scans, twice, reopened, cut, completes>>
  BY DEF BackfillWrites
<1>2. JobTypes /\ JobsAreAsked(a) /\ JobsAreInStep(a)
  BY DEF JobInv
<1>3. /\ backfill' \in [Attachment -> [Kinds -> Nat]]
      /\ backfill'[a][found] = backfill[a][found] - 1
      /\ \A k \in Kinds \ {found} : backfill'[a][k] = backfill[a][k]
      /\ \A b \in Attachment \ {a} : backfill'[b] = backfill[b]
  BY <1>1, <1>2 DEF JobTypes, Kinds
<1>4. /\ backfill'[a]["asked"] = backfill[a]["asked"]
      /\ \/ /\ backfill'[a]["url"] = backfill[a]["url"] - 1
            /\ backfill'[a]["null"] = backfill[a]["null"] /\ backfill[a]["url"] > 0
         \/ /\ backfill'[a]["url"] = backfill[a]["url"]
            /\ backfill'[a]["null"] = backfill[a]["null"] - 1 /\ backfill[a]["null"] > 0
  BY <1>1, <1>3 DEF Kinds
<1>5. JobTypes'
  BY <1>1, <1>2, <1>3 DEF JobTypes, scans
<1>6. Reports(a)' = Reports(a) - 1 /\ Reports(a) \in Nat /\ Reports(a) > 0
  BY <1>2, <1>4, JobCounts DEF Reports
<1>7. JobsAreAsked(a)'
  <2>1. Unscanned(a)' = Unscanned(a) /\ Unscanned(a) \in Nat
    BY <1>1, <1>2, JobCounts DEF Unscanned, scans
  <2>2. QED
    BY <1>1, <1>2, <1>6, <2>1, JobCounts DEF JobsAreAsked, scans
<1>8. JobsAreInStep(a)'
  <2>1. Unscanned(a)' = Unscanned(a) /\ Unscanned(a) \in Nat
    BY <1>1, <1>2, JobCounts DEF Unscanned, scans
  <2>2. QED
    BY <1>1, <1>2, <1>4, <1>6, <2>1, JobCounts DEF JobsAreInStep, scans
<1>9. \A b \in Attachment \ {a} : Untouched(b)
  BY <1>1, <1>3 DEF Untouched, scans
<1>10. QED
  BY <1>1, <1>2, <1>5, <1>7, <1>8, <1>9, JobCounts DEF JobMove

LEMMA BackfillingCounts ==
    ASSUME NEW r \in [Kinds -> Nat]
    PROVE  (\E s \in DOMAIN r : r[s] > 0) <=> r["asked"] + r["url"] + r["null"] > 0
  BY DEF Kinds

\* A restart forgets jobs, and marks those whose end it has taken away; the jobs
\* of a worker begin anew.
RestartMoves(b) ==
    /\ status'[b] = status[b]
    /\ completing'[b] + Unscanned(b)' + scanning'[b] + Reports(b)'
            <= completing[b] + Unscanned(b) + scanning[b] + Reports(b)
    /\ b \in twice \cup cut => b \in twice' \cup cut'
    /\ b \notin twice' \cup cut' =>
        /\ Unscanned(b)' <= Unscanned(b) /\ scanning'[b] <= scanning[b]
        /\ Reports(b)' = Reports(b)
        /\ backfill'[b]["url"] <= backfill[b]["url"] /\ backfill'[b]["null"] <= backfill[b]["null"]

LEMMA RestartKeeps ==
    ASSUME JobInv, JobTypes', completes' = completes, \A b \in Attachment : RestartMoves(b)
    PROVE  JobInv'
<1> SUFFICES ASSUME NEW b \in Attachment PROVE JobsAreAsked(b)' /\ JobsAreInStep(b)'
  BY DEF JobInv
<1>1. JobTypes /\ JobsAreAsked(b) /\ JobsAreInStep(b) /\ RestartMoves(b)
  BY DEF JobInv
<1>2. /\ completing'[b] \in Nat /\ scanning'[b] \in Nat /\ Unscanned(b)' \in Nat /\ Reports(b)' \in Nat
      /\ backfill'[b]["url"] \in Nat /\ backfill'[b]["null"] \in Nat
  BY DEF JobTypes, Unscanned, Reports, Kinds
<1>3. Unscanned(b) \in Nat /\ Reports(b) \in Nat
  BY <1>1, JobCounts DEF Unscanned, Reports
<1>4. JobsAreAsked(b)'
  BY <1>1, <1>2, <1>3, JobCounts DEF RestartMoves, JobsAreAsked
<1>5. JobsAreInStep(b)'
  BY <1>1, <1>2, <1>3, JobCounts DEF RestartMoves, JobsAreInStep
<1>6. QED
  BY <1>4, <1>5

\* Without leaves no report.
LEMMA WithoutReports ==
    ASSUME JobTypes, backfill' = Without(backfill)
    PROVE  /\ backfill' \in [Attachment -> [Kinds -> Nat]]
           /\ \A b \in Attachment : /\ Reports(b)' = 0
                                    /\ backfill'[b]["url"] = 0 /\ backfill'[b]["null"] = 0
<1>1. backfill \in [Attachment -> [Kinds -> Nat]]
  BY DEF JobTypes
<1>2. backfill' = [b \in Attachment |-> [s \in Kinds |-> 0]]
  BY <1>1 DEF Without
<1>3. QED
  BY <1>2 DEF Reports, Kinds

LEMMA RestartApiMoves ==
    ASSUME JobInv, RestartApi
    PROVE  JobTypes' /\ completes' = completes /\ \A b \in Attachment : RestartMoves(b)
<1>1. /\ completing' = Zero /\ enqueuing' = Zero
      /\ UNCHANGED <<status, known, twice, reopened, completes>>
      /\ \/ /\ queued' = Zero /\ checked' = Zero /\ scanning' = Zero
            /\ backfill' = Without(backfill) /\ mode = "memory"
         \/ UNCHANGED <<queued, checked, scanning, backfill>>
      /\ cut \subseteq cut' /\ cut' \subseteq cut \cup Attachment
      /\ mode = "memory" => \A b \in Attachment :
            queued[b] + checked[b] + scanning[b] > 0 \/ Backfilling(b) => b \in cut'
  BY DEF RestartApi
<1>2. JobTypes
  BY DEF JobInv
<1>3. Zero \in [Attachment -> Nat] /\ \A b \in Attachment : Zero[b] = 0
  BY DEF Zero
<1>4. CASE UNCHANGED <<queued, checked, scanning, backfill>>
  <2>1. JobTypes'
    BY <1>1, <1>2, <1>3, <1>4 DEF JobTypes
  <2>2. ASSUME NEW b \in Attachment PROVE RestartMoves(b)
    <3>1. completing'[b] = 0 /\ enqueuing'[b] = 0
      BY <1>1, <1>3
    <3>2. Reports(b)' = Reports(b) /\ Reports(b) \in Nat
      BY <1>2, <1>4, JobCounts DEF Reports
    <3>3. Unscanned(b)' <= Unscanned(b) /\ Unscanned(b)' \in Nat /\ Unscanned(b) \in Nat
      BY <1>2, <1>4, <3>1, JobCounts DEF Unscanned
    <3>4. QED
      BY <1>1, <1>2, <1>4, <3>1, <3>2, <3>3, JobCounts DEF RestartMoves
  <2>3. QED
    BY <1>1, <2>1, <2>2
<1>5. CASE /\ queued' = Zero /\ checked' = Zero /\ scanning' = Zero
           /\ backfill' = Without(backfill) /\ mode = "memory"
  <2>1. backfill' \in [Attachment -> [Kinds -> Nat]]
    BY <1>2, <1>5, WithoutReports
  <2>2. JobTypes'
    BY <1>1, <1>2, <1>3, <1>5, <2>1 DEF JobTypes
  <2>3. ASSUME NEW b \in Attachment PROVE RestartMoves(b)
    <3>1. completing'[b] = 0 /\ Unscanned(b)' = 0 /\ scanning'[b] = 0
      BY <1>1, <1>3, <1>5 DEF Unscanned
    <3>2. Reports(b)' = 0 /\ backfill'[b]["url"] = 0 /\ backfill'[b]["null"] = 0
      BY <1>2, <1>5, WithoutReports
    <3>3. Unscanned(b) \in Nat /\ Reports(b) \in Nat
      BY <1>2, JobCounts DEF Unscanned, Reports
    <3>4. b \notin cut' => Reports(b) = 0
      BY <1>1, <1>2, <1>5, <3>3, JobCounts, BackfillingCounts DEF Backfilling, Reports
    <3>5. QED
      BY <1>1, <1>2, <3>1, <3>2, <3>3, <3>4, JobCounts DEF RestartMoves
  <2>4. QED
    BY <1>1, <2>2, <2>3
<1>6. QED
  BY <1>1, <1>4, <1>5

LEMMA RestartWorkerMoves ==
    ASSUME JobInv, RestartWorker
    PROVE  JobTypes' /\ completes' = completes /\ \A b \in Attachment : RestartMoves(b)
<1>1. /\ queued' = [a \in Attachment |-> queued[a] + checked[a] + scanning[a]]
      /\ checked' = Zero /\ scanning' = Zero /\ backfill' = Without(backfill)
      /\ UNCHANGED <<status, completing, enqueuing, known, twice, reopened, completes>>
      /\ cut \subseteq cut' /\ cut' \subseteq cut \cup Attachment
      /\ \A b \in Attachment : scanning[b] > 0 \/ Backfilling(b) => b \in cut'
  BY DEF RestartWorker
<1>2. JobTypes
  BY DEF JobInv
<1>3. Zero \in [Attachment -> Nat] /\ \A b \in Attachment : Zero[b] = 0
  BY DEF Zero
<1>4. backfill' \in [Attachment -> [Kinds -> Nat]]
  BY <1>1, <1>2, WithoutReports
<1>5. queued' \in [Attachment -> Nat]
  BY <1>1, <1>2, JobCounts
<1>6. JobTypes'
  BY <1>1, <1>2, <1>3, <1>4, <1>5 DEF JobTypes
<1>7. ASSUME NEW b \in Attachment PROVE RestartMoves(b)
  <2>1. scanning'[b] = 0 /\ Unscanned(b)' = Unscanned(b) + scanning[b] /\ Unscanned(b) \in Nat
    BY <1>1, <1>2, <1>3, JobCounts DEF Unscanned
  <2>2. Reports(b)' = 0 /\ backfill'[b]["url"] = 0 /\ backfill'[b]["null"] = 0 /\ Reports(b) \in Nat
    BY <1>1, <1>2, WithoutReports, JobCounts DEF Reports
  <2>3. b \notin cut' => Reports(b) = 0 /\ scanning[b] = 0
    BY <1>1, <1>2, <2>2, JobCounts, BackfillingCounts DEF Backfilling, Reports
  <2>4. QED
    BY <1>1, <1>2, <2>1, <2>2, <2>3, JobCounts DEF RestartMoves
<1>8. QED
  BY <1>1, <1>6, <1>7

LEMMA JobStep == JobInv /\ [UploadsNext]_uploadsVars => JobInv'
<1> SUFFICES ASSUME JobInv, [UploadsNext]_uploadsVars PROVE JobInv'
  OBVIOUS
<1>1. ASSUME NEW a \in Attachment,
             \/ RequestUpload(a) \/ CompleteChecks(a) \/ CompleteWrites(a) \/ Enqueue(a)
             \/ ScanStarts(a) \/ ScanMarks(a) \/ ScanEnds(a) \/ BackfillReads(a)
             \/ \E found \in {"url", "null"} : BackfillWrites(a, found)
      PROVE  JobInv'
  <2>1. JobMove(a)
    BY <1>1, RequestMoves, ChecksMoves, WritesMoves, EnqueueMoves, StartsMoves, MarksMoves,
       EndsMoves, ReadsMoves, BackfillMoves
  <2>2. QED
    BY <2>1, JobMoveKeeps
<1>2. CASE RestartApi
  BY <1>2, RestartApiMoves, RestartKeeps
<1>3. CASE RestartWorker
  BY <1>3, RestartWorkerMoves, RestartKeeps
<1>4. ASSUME UNCHANGED <<status, completing, scans, backfill, twice, reopened, cut, completes>>
      PROVE  JobInv'
  BY <1>4 DEF scans, JobInv, JobTypes, JobsAreAsked, JobsAreInStep, Unscanned, Reports
<1>5. QED
  BY <1>1, <1>2, <1>3, <1>4
  DEF UploadsNext, uploadsVars, PutStraight, PutArrives, WaiterResumes, PutEnds,
      PatchReads, PatchWrites, PostChecks, PostCommits

-----------------------------------------------------------------------------
(* -- Uploads: the icon ---------------------------------------------------------- *)

IconTypes ==
    /\ icon \in Attachment \cup {None} /\ iconUrl \in Attachment \cup {None}
    /\ patch \in [Patch -> [stage : {"unused", "read", "done"}, to : Attachment \cup {None},
                            url : Attachment \cup {None}, overtaken : BOOLEAN]]
    /\ outrun \in BOOLEAN

\* What is stored, and what a PATCH is about to store, shows the attachment, unless a
\* backfill has come between the PATCH's read and its write.
UrlsAreCurrent ==
    /\ ~outrun => Shows(icon, iconUrl)
    /\ \A p \in Patch :
        patch[p].stage = "read" /\ ~patch[p].overtaken => Shows(patch[p].to, patch[p].url)

IconInv == IconTypes /\ UrlsAreCurrent

\* What does not touch an attachment shows it as before.
LEMMA UntouchedShows ==
    ASSUME NEW b \in Attachment, Untouched(b)
    PROVE  StillShows(b)
  BY DEF Untouched, StillShows, Shows, Reports, Resolved

LEMMA JobMoveShows ==
    ASSUME NEW a \in Attachment, JobMove(a), StillShows(a), NEW b \in Attachment \cup {None}
    PROVE  StillShows(b)
<1>1. CASE b = None
  BY <1>1 DEF StillShows, Shows
<1>2. CASE b = a
  BY <1>2
<1>3. CASE b \in Attachment \ {a}
  BY <1>3, UntouchedShows DEF JobMove
<1>4. QED
  BY <1>1, <1>2, <1>3

\* A step that leaves the server and the PATCHes alone.
LEMMA IconUntouched ==
    ASSUME IconInv, UNCHANGED icons, \A b \in Attachment \cup {None} : StillShows(b)
    PROVE  IconInv'
<1>1. icon' = icon /\ iconUrl' = iconUrl /\ patch' = patch /\ outrun' = outrun
  BY DEF icons
<1>2. IconTypes'
  BY <1>1 DEF IconInv, IconTypes
<1>3. \A p \in Patch : patch[p].to \in Attachment \cup {None}
  BY DEF IconInv, IconTypes
<1>4. UrlsAreCurrent'
  <2>1. ~outrun => Shows(icon, iconUrl)'
    BY <1>1 DEF IconInv, IconTypes, UrlsAreCurrent, StillShows
  <2>2. ASSUME NEW p \in Patch, patch[p].stage = "read", ~patch[p].overtaken
        PROVE  Shows(patch[p].to, patch[p].url)'
    BY <1>1, <1>3, <2>2 DEF IconInv, UrlsAreCurrent, StillShows
  <2>3. QED
    BY <1>1, <2>1, <2>2 DEF UrlsAreCurrent
<1>5. QED
  BY <1>2, <1>4 DEF IconInv

\* The report of an attachment in step is its verdict, so what it writes is right.
LEMMA BackfillShows ==
    ASSUME JobInv, IconInv, NEW a \in Attachment, NEW found \in {"url", "null"},
           BackfillWrites(a, found)
    PROVE  IconInv'
<1>1. /\ backfill[a][found] > 0
      /\ iconUrl' = IF icon # a THEN iconUrl ELSE IF found = "url" THEN a ELSE None
      /\ patch' = [p \in Patch |-> [patch[p] EXCEPT !.overtaken = @ \/ patch[p].to = a]]
      /\ icon' = icon /\ outrun' = outrun
      /\ UNCHANGED <<status, twice, cut>>
  BY DEF BackfillWrites
<1>2. JobMove(a)
  BY BackfillMoves
<1>3. \A b \in (Attachment \cup {None}) \ {a} : StillShows(b)
  <2> SUFFICES ASSUME NEW b \in (Attachment \cup {None}) \ {a} PROVE StillShows(b)
    OBVIOUS
  <2>1. CASE b = None
    BY <2>1 DEF StillShows, Shows
  <2>2. CASE b \in Attachment \ {a}
    BY <1>2, <2>2, UntouchedShows DEF JobMove
  <2>3. QED
    BY <2>1, <2>2
<1>4. patch \in [Patch -> [stage : {"unused", "read", "done"}, to : Attachment \cup {None},
                           url : Attachment \cup {None}, overtaken : BOOLEAN]]
  BY DEF IconInv, IconTypes
<1>5. \A p \in Patch : /\ patch'[p].stage = patch[p].stage /\ patch'[p].to = patch[p].to
                       /\ patch'[p].url = patch[p].url
                       /\ ~patch'[p].overtaken => ~patch[p].overtaken /\ patch[p].to # a
  BY <1>1, <1>4
<1>6. IconTypes'
  <2>1. patch' \in [Patch -> [stage : {"unused", "read", "done"}, to : Attachment \cup {None},
                              url : Attachment \cup {None}, overtaken : BOOLEAN]]
    BY <1>1, <1>4
  <2>2. QED
    BY <1>1, <2>1 DEF IconInv, IconTypes
<1>7. ~outrun' => Shows(icon, iconUrl)'
  <2>1. CASE icon = a
    <3>1. a \notin twice \cup cut => (status[a] = "ready" <=> found = "url")
      BY <1>1 DEF JobInv, JobsAreInStep
    <3>2. a \notin twice \cup cut => iconUrl' = IF status[a] = "ready" THEN a ELSE None
      BY <1>1, <2>1, <3>1
    <3>3. a # None
      BY UploadsAssumption
    <3>4. QED
      BY <1>1, <2>1, <3>2, <3>3 DEF Shows, Resolved
  <2>2. CASE icon # a
    BY <1>1, <1>3, <2>2 DEF IconInv, IconTypes, UrlsAreCurrent, StillShows
  <2>3. QED
    BY <2>1, <2>2
<1>8. ASSUME NEW p \in Patch, patch'[p].stage = "read", ~patch'[p].overtaken
      PROVE  Shows(patch[p].to, patch[p].url)'
  <2>1. patch[p].to \in (Attachment \cup {None}) \ {a} /\ Shows(patch[p].to, patch[p].url)
    BY <1>4, <1>5, <1>8 DEF IconInv, UrlsAreCurrent
  <2>2. QED
    BY <1>3, <1>5, <2>1 DEF StillShows
<1>9. UrlsAreCurrent'
  BY <1>1, <1>7, <1>8 DEF UrlsAreCurrent
<1>10. QED
  BY <1>6, <1>9 DEF IconInv

LEMMA PatchReadsShows ==
    ASSUME IconInv, NEW p \in Patch, NEW a \in Followed \cup {None}, PatchReads(p, a)
    PROVE  IconInv'
<1>1. /\ patch' = [patch EXCEPT ![p] =
                     [stage |-> "read", to |-> a, url |-> Resolved(a), overtaken |-> FALSE]]
      /\ UNCHANGED <<status, backfill, icon, iconUrl, outrun, twice, cut>>
  BY DEF PatchReads
<1>2. a \in Attachment \cup {None} /\ Resolved(a) \in Attachment \cup {None}
  BY UploadsAssumption DEF Resolved
<1>3. patch \in [Patch -> [stage : {"unused", "read", "done"}, to : Attachment \cup {None},
                           url : Attachment \cup {None}, overtaken : BOOLEAN]]
  BY DEF IconInv, IconTypes
<1>4. /\ patch'[p].to = a /\ patch'[p].url = Resolved(a)
      /\ \A q \in Patch \ {p} : patch'[q] = patch[q]
  BY <1>1, <1>3
<1>5. IconTypes'
  BY <1>1, <1>2, <1>3 DEF IconInv, IconTypes
<1>6. Shows(a, Resolved(a))
  BY DEF Shows, Resolved
<1>7. UrlsAreCurrent'
  <2>1. ~outrun' => Shows(icon, iconUrl)'
    BY <1>1 DEF IconInv, UrlsAreCurrent, Shows, Reports, Resolved
  <2>2. ASSUME NEW q \in Patch, patch'[q].stage = "read", ~patch'[q].overtaken
        PROVE  Shows(patch[q].to, patch[q].url)'
    <3>1. Shows(patch'[q].to, patch'[q].url)
      BY <1>4, <1>6, <2>2 DEF IconInv, UrlsAreCurrent
    <3>2. QED
      BY <1>1, <3>1 DEF Shows, Reports, Resolved
  <2>3. QED
    BY <2>1, <2>2 DEF UrlsAreCurrent
<1>8. QED
  BY <1>5, <1>7 DEF IconInv

LEMMA PatchWritesShows ==
    ASSUME IconInv, NEW p \in Patch, PatchWrites(p)
    PROVE  IconInv'
<1>1. /\ patch[p].stage = "read"
      /\ patch' = [patch EXCEPT ![p] =
                     [stage |-> "done", to |-> None, url |-> None, overtaken |-> FALSE]]
      /\ icon' = patch[p].to /\ iconUrl' = patch[p].url /\ outrun' = patch[p].overtaken
      /\ UNCHANGED <<status, backfill, twice, cut>>
  BY DEF PatchWrites
<1>2. patch \in [Patch -> [stage : {"unused", "read", "done"}, to : Attachment \cup {None},
                           url : Attachment \cup {None}, overtaken : BOOLEAN]]
  BY DEF IconInv, IconTypes
<1>3. /\ patch'[p].stage = "done"
      /\ \A q \in Patch \ {p} : patch'[q] = patch[q]
  BY <1>1, <1>2
<1>4. IconTypes'
  <2>1. patch' \in [Patch -> [stage : {"unused", "read", "done"}, to : Attachment \cup {None},
                              url : Attachment \cup {None}, overtaken : BOOLEAN]]
    BY <1>1, <1>2
  <2>2. QED
    BY <1>1, <1>2, <2>1 DEF IconTypes
<1>5. UrlsAreCurrent'
  <2>1. ASSUME ~outrun' PROVE Shows(icon, iconUrl)'
    <3>1. Shows(icon', iconUrl')
      BY <1>1, <2>1 DEF IconInv, UrlsAreCurrent
    <3>2. QED
      BY <1>1, <3>1 DEF Shows, Reports, Resolved
  <2>2. ASSUME NEW q \in Patch, patch'[q].stage = "read", ~patch'[q].overtaken
        PROVE  Shows(patch[q].to, patch[q].url)'
    <3>1. Shows(patch'[q].to, patch'[q].url)
      BY <1>3, <2>2 DEF IconInv, UrlsAreCurrent
    <3>2. QED
      BY <1>1, <3>1 DEF Shows, Reports, Resolved
  <2>3. QED
    BY <2>1, <2>2 DEF UrlsAreCurrent
<1>6. QED
  BY <1>4, <1>5 DEF IconInv

\* Where a restart takes a report away, it says so.
LEMMA RestartShows ==
    ASSUME \A b \in Attachment : RestartMoves(b), NEW b \in Attachment \cup {None}
    PROVE  StillShows(b)
<1>1. CASE b = None
  BY <1>1 DEF StillShows, Shows
<1>2. CASE b \in Attachment
  BY <1>2 DEF RestartMoves, StillShows, Shows, Resolved
<1>3. QED
  BY <1>1, <1>2

LEMMA RestartApiShows ==
    ASSUME IconInv, RestartApi, \A b \in Attachment \cup {None} : StillShows(b)
    PROVE  IconInv'
<1>1. /\ icon' = icon /\ iconUrl' = iconUrl /\ outrun' = outrun
      /\ patch' = [p \in Patch |-> [patch[p] EXCEPT !.stage = IF @ = "read" THEN "done" ELSE @,
                                       !.to = None, !.url = None, !.overtaken = FALSE]]
  BY DEF RestartApi
<1>2. patch \in [Patch -> [stage : {"unused", "read", "done"}, to : Attachment \cup {None},
                           url : Attachment \cup {None}, overtaken : BOOLEAN]]
  BY DEF IconInv, IconTypes
<1>3. \A p \in Patch : patch'[p].stage # "read"
  BY <1>1, <1>2
<1>4. IconTypes'
  <2>1. patch' \in [Patch -> [stage : {"unused", "read", "done"}, to : Attachment \cup {None},
                              url : Attachment \cup {None}, overtaken : BOOLEAN]]
    BY <1>1, <1>2
  <2>2. QED
    BY <1>1, <2>1 DEF IconInv, IconTypes
<1>5. ~outrun => Shows(icon, iconUrl)'
  BY <1>1 DEF IconInv, IconTypes, UrlsAreCurrent, StillShows
<1>6. QED
  BY <1>1, <1>3, <1>4, <1>5 DEF IconInv, UrlsAreCurrent

LEMMA IconStep == JobInv /\ IconInv /\ [UploadsNext]_uploadsVars => IconInv'
<1> SUFFICES ASSUME JobInv, IconInv, [UploadsNext]_uploadsVars PROVE IconInv'
  OBVIOUS
<1>1. ASSUME NEW a \in Attachment,
             \/ RequestUpload(a) \/ CompleteChecks(a) \/ CompleteWrites(a) \/ Enqueue(a)
             \/ ScanStarts(a) \/ ScanMarks(a) \/ ScanEnds(a) \/ BackfillReads(a)
      PROVE  IconInv'
  <2>1. JobMove(a) /\ StillShows(a)
    BY <1>1, RequestMoves, ChecksMoves, WritesMoves, EnqueueMoves, StartsMoves, MarksMoves,
       EndsMoves, ReadsMoves
  <2>2. UNCHANGED icons
    BY <1>1 DEF RequestUpload, CompleteChecks, CompleteWrites, Enqueue, ScanStarts, ScanMarks,
                ScanEnds, BackfillReads
  <2>3. QED
    BY <2>1, <2>2, JobMoveShows, IconUntouched
<1>2. ASSUME NEW a \in Attachment, NEW found \in {"url", "null"}, BackfillWrites(a, found)
      PROVE  IconInv'
  BY <1>2, BackfillShows
<1>3. ASSUME NEW p \in Patch, NEW a \in Followed \cup {None}, PatchReads(p, a) PROVE IconInv'
  BY <1>3, PatchReadsShows
<1>4. ASSUME NEW p \in Patch, PatchWrites(p) PROVE IconInv'
  BY <1>4, PatchWritesShows
<1>5. CASE RestartApi
  BY <1>5, RestartApiMoves, RestartShows, RestartApiShows
<1>6. CASE RestartWorker
  <2>1. UNCHANGED icons
    BY <1>6 DEF RestartWorker
  <2>2. QED
    BY <1>6, <2>1, RestartWorkerMoves, RestartShows, IconUntouched
<1>7. ASSUME UNCHANGED <<status, backfill, twice, cut, icons>> PROVE IconInv'
  <2>1. \A b \in Attachment \cup {None} : StillShows(b)
    BY <1>7 DEF StillShows, Shows, Reports, Resolved
  <2>2. QED
    BY <1>7, <2>1, IconUntouched
<1>8. QED
  BY <1>1, <1>2, <1>3, <1>4, <1>5, <1>6, <1>7
  DEF UploadsNext, uploadsVars, PutStraight, PutArrives, WaiterResumes, PutEnds,
      PostChecks, PostCommits

-----------------------------------------------------------------------------
(* -- Uploads: theorems ------------------------------------------------------------ *)

RestTypes ==
    /\ view \in {"line", "file"} /\ mode \in {"redis", "memory"}
    /\ restarts \in 0..MaxRestarts

UploadsInv == RestTypes /\ LineInv /\ ClaimInv /\ JobInv /\ IconInv

LEMMA UploadsInitInv == UploadsInit => UploadsInv
<1> SUFFICES ASSUME UploadsInit PROVE UploadsInv
  OBVIOUS
<1>1. Zero \in [Attachment -> Nat] /\ \A a \in Attachment : Zero[a] = 0
  BY DEF Zero
<1>2. RestTypes
  BY UploadsAssumption DEF UploadsInit, RestTypes
<1>3. LineInv
  <2>1. PutTypes /\ Len(waiters) = 0
    BY DEF UploadsInit, PutTypes
  <2>2. Puts("waiting") = {} /\ Puts("woken") = {} /\ Puts("sending") = {}
    BY DEF UploadsInit, Puts
  <2>3. /\ IsFiniteSet(Puts("waiting")) /\ IsFiniteSet(Puts("woken")) /\ IsFiniteSet(Puts("sending"))
        /\ Cardinality(Puts("waiting")) = 0 /\ Cardinality(Puts("sending")) = 0
    BY <2>2, FS_EmptySet
  <2>4. LineIsKept
    BY <2>1, <2>2, <2>3 DEF LineIsKept
  <2>5. SlotsAreCounted
    BY <2>2, <2>3, UploadsAssumption DEF UploadsInit, SlotsAreCounted
  <2>6. QED
    BY <2>1, <2>4, <2>5 DEF LineInv
<1>4. ClaimInv
  BY DEF UploadsInit, ClaimInv, PostTypes, ClaimsAreMarked, PostedKeepsFile
<1>5. JobTypes
  BY <1>1, UploadsAssumption DEF UploadsInit, JobTypes, Status, Kinds
<1>6. \A a \in Attachment : Unscanned(a) = 0 /\ scanning[a] = 0 /\ Reports(a) = 0
                            /\ backfill[a]["url"] = 0 /\ backfill[a]["null"] = 0
  BY <1>1 DEF UploadsInit, Unscanned, Reports
<1>7. JobInv
  BY <1>1, <1>5, <1>6 DEF UploadsInit, JobInv, JobsAreAsked, JobsAreInStep
<1>8. IconInv
  BY DEF UploadsInit, IconInv, IconTypes, UrlsAreCurrent, Shows
<1>9. QED
  BY <1>2, <1>3, <1>4, <1>7, <1>8 DEF UploadsInv

LEMMA RestStep == RestTypes /\ [UploadsNext]_uploadsVars => RestTypes'
<1> SUFFICES ASSUME RestTypes, [UploadsNext]_uploadsVars PROVE RestTypes'
  OBVIOUS
<1>1. view' = view /\ mode' = mode
  BY DEF UploadsNext, uploadsVars, RequestUpload, PutStraight, PutArrives, WaiterResumes, PutEnds,
      CompleteChecks, CompleteWrites, Enqueue, ScanStarts, ScanMarks, ScanEnds, BackfillReads,
      BackfillWrites, PatchReads, PatchWrites, PostChecks, PostCommits, RestartApi, RestartWorker
<1>2. restarts' = restarts \/ (restarts < MaxRestarts /\ restarts' = restarts + 1)
  BY DEF UploadsNext, uploadsVars, RequestUpload, PutStraight, PutArrives, WaiterResumes, PutEnds,
      CompleteChecks, CompleteWrites, Enqueue, ScanStarts, ScanMarks, ScanEnds, BackfillReads,
      BackfillWrites, PatchReads, PatchWrites, PostChecks, PostCommits, RestartApi, RestartWorker
<1>3. QED
  BY <1>1, <1>2, UploadsAssumption DEF RestTypes

LEMMA UploadsInvariant == UploadsSpec => []UploadsInv
<1>1. UploadsInit => UploadsInv
  BY UploadsInitInv
<1>2. UploadsInv /\ [UploadsNext]_uploadsVars => UploadsInv'
  BY RestStep, LineStep, ClaimStep, JobStep, IconStep DEF UploadsInv
<1>3. QED
  BY <1>1, <1>2, PTL DEF UploadsSpec

\* Rows, handlers, jobs and the governor's line keep their types: no count of a scan
\* passes the number of completes, and an upload that waits is in line once.
THEOREM UploadsTypes == UploadsSpec => []UploadsTypeOK
<1>1. UploadsInv => UploadsTypeOK
  <2> SUFFICES ASSUME UploadsInv PROVE UploadsTypeOK
    OBVIOUS
  <2> DEFINE Bound == 0..(MaxCompletes + 1)
  <2>1. RestTypes /\ PutTypes /\ LineIsKept /\ PostTypes /\ JobTypes /\ IconTypes
    BY DEF UploadsInv, LineInv, ClaimInv, JobInv, IconInv
  <2>2. \A a \in Attachment :
            /\ completing[a] \in Bound /\ enqueuing[a] \in Bound /\ queued[a] \in Bound
            /\ checked[a] \in Bound /\ scanning[a] \in Bound
            /\ \A k \in Kinds : backfill[a][k] \in Bound
    <3> SUFFICES ASSUME NEW a \in Attachment
                 PROVE  /\ completing[a] \in Bound /\ enqueuing[a] \in Bound /\ queued[a] \in Bound
                        /\ checked[a] \in Bound /\ scanning[a] \in Bound
                        /\ \A k \in Kinds : backfill[a][k] \in Bound
      OBVIOUS
    <3>1. JobsAreAsked(a) /\ completes \in 0..MaxCompletes
      BY <2>1 DEF UploadsInv, JobInv, JobTypes
    <3>2. QED
      BY <2>1, <3>1, JobCounts DEF JobsAreAsked, Unscanned, Reports, Kinds
  <2>3. {completing, enqueuing, queued, checked, scanning} \subseteq [Attachment -> Bound]
    BY <2>1, <2>2 DEF JobTypes
  <2>4. backfill \in [Attachment -> [{"asked", "url", "null"} -> Bound]]
    BY <2>1, <2>2 DEF JobTypes, Kinds
  <2>5. /\ Len(waiters) = Cardinality({a \in Attachment : put[a] = "waiting"})
        /\ \A a \in Attachment : put[a] = "waiting" => \E i \in DOMAIN waiters : waiters[i] = a
    BY <2>1 DEF LineIsKept, Puts, PutTypes
  <2>6. /\ status \in [Attachment -> Verdicts \cup {"absent", "pending", "uploaded", "processing"}]
        /\ known \subseteq Attachment /\ {twice, reopened, cut} \subseteq SUBSET Attachment
        /\ completes \in 0..MaxCompletes
    BY <2>1 DEF JobTypes, Status
  <2>7. /\ bad \subseteq Followed /\ stored \subseteq Attachment
        /\ link \in [Attachment -> {"none", "direct", "ticket", "used"}]
        /\ put \in [Attachment -> {"none", "waiting", "woken", "sending"}]
        /\ waiters \in Seq(Attachment) /\ activeUploads \in Nat
    BY <2>1 DEF PutTypes
  <2>8. /\ post \in [Message -> [stage : {"unused", "checked", "posted", "refused"},
                                 of : Attachment \cup {None}]]
        /\ messageId \in [Attachment -> Message \cup {None}] /\ crossed \subseteq Attachment
    BY <2>1 DEF PostTypes
  <2>9. /\ {icon, iconUrl} \subseteq Attachment \cup {None} /\ outrun \in BOOLEAN
        /\ patch \in [Patch -> [stage : {"unused", "read", "done"}, to : Attachment \cup {None},
                                url : Attachment \cup {None}, overtaken : BOOLEAN]]
    BY <2>1 DEF IconTypes
  <2>10. /\ view \in {"line", "file"} /\ mode \in {"redis", "memory"} /\ restarts \in 0..MaxRestarts
    BY <2>1 DEF RestTypes
  <2>11. {twice, reopened, cut, crossed} \subseteq SUBSET Attachment
    BY <2>6, <2>8
  <2>12. QED
    BY <2>3, <2>4, <2>5, <2>6, <2>7, <2>8, <2>9, <2>10, <2>11 DEF UploadsTypeOK
<1>2. QED
  BY <1>1, UploadsInvariant, PTL

\* UploadGovernor's slots: however uploads arrive, end, are woken and overtaken by
\* newcomers, no slot is exceeded, lost, or idle while somebody waits.
THEOREM SlotsHold == UploadsSpec => []SlotsAreUsed
<1>1. UploadsInv => SlotsAreUsed
  BY DEF UploadsInv, LineInv, SlotsAreCounted, SlotsAreUsed, Puts
<1>2. QED
  BY <1>1, UploadsInvariant, PTL

\* A posted message keeps its attachment unless two messages passed the check of it
\* before either claimed it.
THEOREM ClaimsHold == UploadsSpec => []PostedKeepsFile
<1>1. UploadsInv => PostedKeepsFile
  BY DEF UploadsInv, ClaimInv
<1>2. QED
  BY <1>1, UploadsInvariant, PTL

\* A server shows its icon exactly when it is ready, whichever came first, the PATCH
\* or the scan, but for the overlaps and restarts the property names.
THEOREM IconHolds == UploadsSpec => []IconFollowsScan
<1>1. UploadsInv => IconFollowsScan
  <2> SUFFICES ASSUME UploadsInv, ~outrun,
                      icon # None => ~Backfilling(icon) /\ icon \notin cut \cup twice
               PROVE  iconUrl = Resolved(icon)
    BY DEF IconFollowsScan
  <2>1. Shows(icon, iconUrl) /\ icon \in Attachment \cup {None} /\ JobTypes
    BY DEF UploadsInv, IconInv, IconTypes, UrlsAreCurrent, JobInv
  <2>2. CASE icon = None
    BY <2>1, <2>2 DEF Shows, Resolved
  <2>3. CASE icon \in Attachment
    <3>1. backfill[icon] \in [Kinds -> Nat]
      BY <2>1, <2>3 DEF JobTypes
    <3>2. ~(Reports(icon) > 0)
      BY <2>3, <3>1, BackfillingCounts, UploadsAssumption DEF Backfilling, Reports
    <3>3. QED
      BY <2>1, <2>3, <3>2, UploadsAssumption DEF Shows
  <2>4. QED
    BY <2>1, <2>2, <2>3
<1>2. QED
  BY <1>1, UploadsInvariant, PTL

=============================================================================

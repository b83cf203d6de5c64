--------------------------- MODULE FederatedDmProofs ---------------------------
(* Theorems about FederatedDm, for every number of opens, messages, toggles, *)
(* failures and crashes.                                                     *)
EXTENDS FederatedDm, TLAPS

\* There are two instances: the other one, and the other of that.
LEMMA OtherFacts ==
    ASSUME NEW i \in Instance
    PROVE  /\ Other(i) \in Instance
           /\ Other(i) # i
           /\ Other(Other(i)) = i
           /\ \A j \in Instance : j = i \/ j = Other(i)
<1>1. PICK a, b \in Instance : a # b /\ Instance = {a, b}
  BY FederatedDmAssumption
<1>2. \A k \in Instance : \E j \in Instance : j # k
  BY <1>1
<1>3. \A k \in Instance : Other(k) \in Instance /\ Other(k) # k
  BY <1>2 DEF Other
<1>4. Other(Other(i)) \in Instance /\ Other(Other(i)) # Other(i)
  BY <1>3
<1>5. QED
  BY <1>1, <1>3, <1>4

-----------------------------------------------------------------------------
\* A job that is not finished has an attempt left.
TriesLeft == \A j \in outbox : j.state \in {"waiting", "active"} => j.tries < Attempts

\* An enqueued job has the type of a job.
LEMMA EnqueueTypes ==
    ASSUME NEW i \in Instance, NEW chan \in Id, NEW msg \in 0..MaxPosts,
           outbox \subseteq Job, TriesLeft, Enqueue(i, chan, msg)
    PROVE  outbox' \subseteq Job /\ TriesLeft'
<1> DEFINE job == [from |-> i, chan |-> chan, msg |-> msg, state |-> "waiting", tries |-> 0]
<1>1. job \in Job
  BY FederatedDmAssumption DEF Job
<1>2. outbox' = outbox \/ outbox' = outbox \cup {job}
  BY DEF Enqueue
<1>3. QED
  BY <1>1, <1>2, FederatedDmAssumption DEF TriesLeft

\* So do the jobs after an answer.
LEMMA AnswerTypes ==
    ASSUME NEW m, NEW state \in {"completed", "failed"},
           outbox \subseteq Job, net \subseteq Envelope, TriesLeft, Answer(m, state)
    PROVE  outbox' \subseteq Job /\ net' \subseteq Envelope /\ TriesLeft'
<1>1. \A j \in outbox : [j EXCEPT !.state = state] \in Job /\ [j EXCEPT !.state = state].state = state
  BY DEF Job
<1>2. \A j \in outbox' : j \in outbox \/ (j \in Job /\ j.state = state)
  BY <1>1 DEF Answer
<1>3. QED
  BY <1>2 DEF Answer, TriesLeft

Typed == TypeOK /\ TriesLeft

\* TypeOK, with the attempts left, is inductive.
LEMMA TypeInductive == Typed /\ [Next]_vars => Typed'
<1> SUFFICES ASSUME TypeOK, TriesLeft, [Next]_vars PROVE TypeOK' /\ TriesLeft'
  BY DEF Typed
<1> USE FederatedDmAssumption DEF TypeOK, rows, counts
<1>1. ASSUME NEW i \in Instance, OpenStart(i) PROVE TypeOK' /\ TriesLeft'
  <2>1. opened' \in 1..MaxOpens
    BY <1>1 DEF OpenStart
  <2>2. [at |-> i, n |-> opened', step |-> "lookup", id |-> <<i, opened'>>] \in Open
    BY <2>1 DEF Open, Id
  <2>3. QED
    BY <1>1, <2>1, <2>2 DEF OpenStart, TriesLeft
<1>2. ASSUME NEW o \in opens, OpenLookup(o) PROVE TypeOK' /\ TriesLeft'
  <2>1. \A id \in Id, step \in {"tell", "insert"} : [o EXCEPT !.step = step, !.id = id] \in Open
    BY DEF Open
  <2>2. o.at \in Instance /\ o.id \in Id
    BY DEF Open
  <2>3. channels[o.at] \subseteq Id
    BY <2>2
  <2>4. \E id \in Id, step \in {"tell", "insert"} : Moves(o, step, id)
    BY <1>2, <2>2, <2>3 DEF OpenLookup
  <2>6. opens' \subseteq Open
    BY <2>1, <2>4 DEF Moves
  <2>5. QED
    BY <1>2, <2>6 DEF OpenLookup, TriesLeft
<1>3. ASSUME NEW o \in opens, OpenInsert(o) PROVE TypeOK' /\ TriesLeft'
  <2>1. \A id \in Id : [o EXCEPT !.step = "tell", !.id = id] \in Open
    BY DEF Open
  <2>2. o.at \in Instance /\ o.id \in Id
    BY DEF Open
  <2>3. channels[o.at] \subseteq Id
    BY <2>2
  <2>7. \E id \in Id : Moves(o, "tell", id)
    BY <1>3, <2>2, <2>3 DEF OpenInsert
  <2>4. opens' \subseteq Open
    BY <2>1, <2>7 DEF Moves
  <2>5. channels' \in [Instance -> SUBSET Id]
    BY <1>3, <2>2 DEF OpenInsert
  <2>6. QED
    BY <1>3, <2>4, <2>5 DEF OpenInsert, TriesLeft
<1>4. ASSUME NEW o \in opens, OpenTell(o) PROVE TypeOK' /\ TriesLeft'
  <2>1. o.at \in Instance /\ o.id \in Id
    BY DEF Open
  <2>2. 0 \in 0..MaxPosts
    OBVIOUS
  <2>3. outbox' \subseteq Job /\ TriesLeft'
    BY <1>4, <2>1, <2>2, EnqueueTypes DEF OpenTell
  <2>4. answered' \in [Instance -> SUBSET Id]
    BY <1>4, <2>1 DEF OpenTell
  <2>5. QED
    BY <1>4, <2>3, <2>4 DEF OpenTell
<1>5. ASSUME NEW i \in Instance, NEW chan \in Id, Post(i, chan) PROVE TypeOK' /\ TriesLeft'
  <2>1. posted' \in 1..MaxPosts
    BY <1>5 DEF Post
  <2>2. [n |-> posted', author |-> i, chan |-> chan] \in Message
    BY <2>1 DEF Message
  <2>3. messages' \in [Instance -> SUBSET Message]
    BY <1>5, <2>2 DEF Post
  <2>4. QED
    BY <1>5, <2>1, <2>2, <2>3 DEF Post, TriesLeft
<1>6. ASSUME NEW f \in fanouts, FanOut(f) PROVE TypeOK' /\ TriesLeft'
  <2>1. f.author \in Instance /\ f.chan \in Id /\ f.n \in 0..MaxPosts
    BY DEF Message
  <2>2. outbox' \subseteq Job /\ TriesLeft'
    BY <1>6, <2>1, EnqueueTypes DEF FanOut
  <2>3. QED
    BY <1>6, <2>2 DEF FanOut
<1>7. ASSUME NEW i \in Instance, Toggle(i) PROVE TypeOK' /\ TriesLeft'
  BY <1>7 DEF Toggle, TriesLeft
<1>8. ASSUME NEW j \in outbox, Dispatch(j) PROVE TypeOK' /\ TriesLeft'
  <2>1. [j EXCEPT !.state = "active"] \in Job
    BY DEF Job
  <2>2. [from |-> j.from, chan |-> j.chan, msg |-> j.msg, attempt |-> j.tries, checked |-> FALSE] \in Envelope
    BY DEF Job, Envelope
  <2>3. TriesLeft'
    BY <1>8, <2>1 DEF Dispatch, TriesLeft, Job
  <2>4. QED
    BY <1>8, <2>1, <2>2, <2>3 DEF Dispatch
<1>9. ASSUME NEW j \in outbox, NEW dropped \in BOOLEAN, NoAnswer(j, dropped)
      PROVE  TypeOK' /\ TriesLeft'
  <2>1. j.tries + 1 \in 0..Attempts /\ j.tries \in Nat /\ j.tries < Attempts
    BY <1>9 DEF Job, NoAnswer, TriesLeft
  <2>2. \A s \in {"waiting", "failed"} : [j EXCEPT !.tries = j.tries + 1, !.state = s] \in Job
    BY <2>1 DEF Job
  <2>5. outbox' \subseteq Job /\ net' \subseteq Envelope
    BY <1>9, <2>2 DEF NoAnswer
  <2>6. TriesLeft'
    BY <1>9, <2>1 DEF NoAnswer, TriesLeft, Job
  <2>3. outbox' \subseteq Job /\ net' \subseteq Envelope /\ TriesLeft'
    BY <2>5, <2>6
  <2>4. QED
    BY <1>9, <2>3 DEF NoAnswer
<1>10. ASSUME NEW m \in net, Receive(m) PROVE TypeOK' /\ TriesLeft'
  <2>1. [m EXCEPT !.checked = TRUE] \in Envelope
    BY DEF Envelope
  <2>2. CASE Refused(m) \/ Known(m)
    BY <1>10, <2>2, AnswerTypes DEF Receive
  <2>4. CASE ~Refused(m) /\ ~Known(m)
    BY <1>10, <2>1, <2>4 DEF Receive, TriesLeft
  <2>3. QED
    BY <1>10, <2>2, <2>4 DEF Receive
<1>11. ASSUME NEW m \in net, CommitCreate(m) PROVE TypeOK' /\ TriesLeft'
  <2>1. m.from \in Instance /\ m.chan \in Id
    BY DEF Envelope
  <2>2. channels' \in [Instance -> SUBSET Id]
    BY <1>11, <2>1 DEF CommitCreate
  <2>3. outbox' \subseteq Job /\ net' \subseteq Envelope /\ TriesLeft'
    BY <1>11, AnswerTypes DEF CommitCreate
  <2>4. QED
    BY <1>11, <2>2, <2>3 DEF CommitCreate
<1>12. ASSUME NEW m \in net, CommitMessage(m) PROVE TypeOK' /\ TriesLeft'
  <2>1. Row(m) \in Message
    BY <1>12 DEF Envelope, Message, Row, CommitMessage
  <2>2. messages' \in [Instance -> SUBSET Message]
    BY <1>12, <2>1 DEF CommitMessage
  <2>3. outbox' \subseteq Job /\ net' \subseteq Envelope /\ TriesLeft'
    BY <1>12, AnswerTypes DEF CommitMessage
  <2>4. QED
    BY <1>12, <2>2, <2>3 DEF CommitMessage
<1>13. ASSUME NEW i \in Instance, Crash(i) PROVE TypeOK' /\ TriesLeft'
  BY <1>13 DEF Crash, TriesLeft
<1>14. CASE UNCHANGED vars
  BY <1>14 DEF vars, TriesLeft
<1>15. QED
  BY <1>1, <1>2, <1>3, <1>4, <1>5, <1>6, <1>7, <1>8, <1>9, <1>10, <1>11, <1>12, <1>13, <1>14
     DEF Next, Handle, Apply

\* Rows, handlers, jobs and envelopes keep their types (bounds included).
THEOREM TypeCorrect == Spec => []TypeOK
<1>1. Init => Typed
  <2> SUFFICES ASSUME Init PROVE TypeOK /\ TriesLeft
    BY DEF Typed
  <2>1. TriesLeft
    BY DEF Init, TriesLeft
  <2>2. QED
    BY <2>1, FederatedDmAssumption DEF Init, TypeOK
<1>2. Typed => TypeOK
  BY DEF Typed
<1>3. QED
  BY <1>1, <1>2, TypeInductive, PTL DEF Spec

-----------------------------------------------------------------------------
(* The strengthening: everything that speaks of a channel or a message is     *)
(* backed by a row that is there and stays there.                            *)

\* An open that is about to answer has a channel; one that is not has its own id.
OpensBacked ==
    \A o \in opens :
        IF o.step = "tell" THEN o.id \in channels[o.at] ELSE o.id[1] = o.at

\* A job or envelope speaks of a row of its sender.
Backed(x) ==
    IF x.msg = 0 THEN x.chan \in channels[x.from] ELSE Row(x) \in messages[x.from]
JobsBacked == \A j \in outbox : Backed(j)
NetBacked ==
    \A m \in net :
        /\ Backed(m)
        /\ m.checked /\ m.msg # 0 => m.chan \in channels[Other(m.from)]
FanoutsBacked == \A f \in fanouts : f \in messages[f.author]

\* A number belongs to one message.
OneNumber ==
    \A i, j \in Instance : \A r \in messages[i], s \in messages[j] :
        r.n <= posted /\ (r.n = s.n => r = s)

Inv ==
    /\ OneConversation
    /\ OpensBacked
    /\ JobsBacked
    /\ NetBacked
    /\ FanoutsBacked
    /\ OneNumber
    /\ ArrivedBelongs
    /\ SplitOnlyByCrossing
    /\ AcknowledgedIsStored

\* Channels and messages are never removed.
RowsGrow ==
    \A i \in Instance : channels[i] \subseteq channels'[i] /\ messages[i] \subseteq messages'[i]

\* What is backed stays backed when the rows grow.
LEMMA BackedStays ==
    ASSUME RowsGrow, NEW x, x.from \in Instance, Backed(x)
    PROVE  Backed(x)'
  BY DEF RowsGrow, Backed, Row

\* The jobs after an answer are the old ones, or completed copies of them.
LEMMA AnswerJobs ==
    ASSUME NEW m, NEW state, Answer(m, state), NEW j \in outbox'
    PROVE  \E k \in outbox :
              \/ j = k
              \/ Carries(m, k) /\ j = [k EXCEPT !.state = state]
  BY DEF Answer

-----------------------------------------------------------------------------
\* Each action preserves the strengthening.
LEMMA OpenSteps ==
    ASSUME Typed, Inv, NEW o \in opens, Handle(o)
    PROVE  Inv'
<1> USE FederatedDmAssumption DEF TypeOK, Typed, Inv, rows, counts
<1>1. o.at \in Instance /\ o.id \in Id /\ o \in Open
  BY DEF Open
<1>2. ASSUME OpenLookup(o) PROVE Inv'
  <2>1. OpensBacked'
    <3>1. PICK step \in {"tell", "insert"}, id \in Id :
            /\ Moves(o, step, id)
            /\ IF step = "tell" THEN id \in channels[o.at] ELSE id = o.id
      BY <1>1, <1>2 DEF OpenLookup
    <3>2. [o EXCEPT !.step = step, !.id = id].at = o.at /\ [o EXCEPT !.step = step, !.id = id].step = step
          /\ [o EXCEPT !.step = step, !.id = id].id = id
      BY <1>1 DEF Open
    <3>3. o.step = "lookup"
      BY <1>2 DEF OpenLookup
    <3>4. o.id[1] = o.at
      BY <3>3 DEF OpensBacked
    <3>5. opens' = (opens \ {o}) \cup {[o EXCEPT !.step = step, !.id = id]} /\ channels' = channels
      BY <1>2, <3>1 DEF Moves, OpenLookup
    <3>6. QED
      BY <3>1, <3>2, <3>4, <3>5 DEF OpensBacked
  <2>2. QED
    BY <1>2, <2>1 DEF OpenLookup, OneConversation, JobsBacked, NetBacked, Backed, FanoutsBacked,
       OneNumber, ArrivedBelongs, SplitOnlyByCrossing, AcknowledgedIsStored
<1>3. ASSUME OpenInsert(o) PROVE Inv'
  <2>1. RowsGrow
    BY <1>1, <1>3 DEF OpenInsert, RowsGrow
  <2>2. PICK id \in Id : Moves(o, "tell", id) /\ id \in channels'[o.at]
    BY <1>1, <1>3 DEF OpenInsert
  <2>3. OpensBacked'
    <3>1. /\ [o EXCEPT !.step = "tell", !.id = id].at = o.at
          /\ [o EXCEPT !.step = "tell", !.id = id].step = "tell"
          /\ [o EXCEPT !.step = "tell", !.id = id].id = id
      BY <1>1 DEF Open
    <3>2. \A p \in opens : p.at \in Instance
      BY DEF Open
    <3>3. ASSUME NEW p \in opens'
          PROVE  IF p.step = "tell" THEN p.id \in channels'[p.at] ELSE p.id[1] = p.at
      <4>1. p = [o EXCEPT !.step = "tell", !.id = id] \/ p \in opens
        BY <2>2, <3>3 DEF Moves
      <4>2. CASE p = [o EXCEPT !.step = "tell", !.id = id]
        BY <2>2, <3>1, <4>2
      <4>3. CASE p \in opens
        <5>1. IF p.step = "tell" THEN p.id \in channels[p.at] ELSE p.id[1] = p.at
          BY <4>3 DEF OpensBacked
        <5>2. channels[p.at] \subseteq channels'[p.at]
          BY <2>1, <3>2, <4>3 DEF RowsGrow
        <5>3. QED
          BY <5>1, <5>2
      <4>4. QED
        BY <4>1, <4>2, <4>3
    <3>4. QED
      BY <3>3 DEF OpensBacked
  <2>4. OneConversation'
    BY <1>1, <1>3 DEF OneConversation, OpenInsert
  <2>5. SplitOnlyByCrossing'
    <3>1. o.id[1] = o.at
      BY <1>3 DEF OpensBacked, OpenInsert
    <3>2. \A i \in Instance : Other(i) \in Instance
      BY OtherFacts
    <3>3. QED
      BY <1>1, <1>3, <2>1, <3>1, <3>2 DEF SplitOnlyByCrossing, OpenInsert, RowsGrow
  <2>6. JobsBacked' /\ NetBacked' /\ AcknowledgedIsStored'
    BY <1>3, <2>1, BackedStays, OtherFacts DEF OpenInsert, JobsBacked, NetBacked, AcknowledgedIsStored, Job, Envelope, RowsGrow
  <2>7. ArrivedBelongs'
    BY <1>3, <2>1 DEF OpenInsert, ArrivedBelongs, RowsGrow, Message
  <2>8. QED
    BY <1>3, <2>3, <2>4, <2>5, <2>6, <2>7 DEF OpenInsert, FanoutsBacked, OneNumber
<1>4. ASSUME OpenTell(o) PROVE Inv'
  <2>1. o.id \in channels[o.at]
    BY <1>4 DEF OpensBacked, OpenTell
  <2>2. \A j \in outbox' : j \in outbox \/ (j.from = o.at /\ j.chan = o.id /\ j.msg = 0 /\ j.state = "waiting")
    BY <1>4 DEF OpenTell, Enqueue
  <2>3. JobsBacked' /\ AcknowledgedIsStored'
    BY <1>4, <2>1, <2>2 DEF OpenTell, JobsBacked, Backed, Row, AcknowledgedIsStored
  <2>4. OneConversation'
    BY <1>1, <1>4, <2>1 DEF OpenTell, OneConversation
  <2>5. OpensBacked' /\ NetBacked'
    BY <1>4 DEF OpenTell, OpensBacked, NetBacked, Backed
  <2>6. QED
    BY <1>4, <2>3, <2>4, <2>5 DEF OpenTell, FanoutsBacked, OneNumber, ArrivedBelongs, SplitOnlyByCrossing
<1>5. QED
  BY <1>2, <1>3, <1>4 DEF Handle

LEMMA PostSteps ==
    ASSUME Typed, Inv, NEW i \in Instance, NEW chan \in Id, Post(i, chan)
    PROVE  Inv'
<1> USE FederatedDmAssumption DEF TypeOK, Typed, Inv, rows, counts
<1> DEFINE new == [n |-> posted', author |-> i, chan |-> chan]
<1>1. RowsGrow /\ channels' = channels /\ posted' = posted + 1
  BY DEF Post, RowsGrow
<1>2. \A k \in Instance : \A r \in messages'[k] : r \in messages[k] \/ (r = new /\ k = i)
  BY DEF Post
<1>3. new \in messages'[i]
  BY DEF Post
<1>4. OneNumber'
  <2>1. \A k \in Instance : \A r \in messages[k] : r.n \in Nat /\ r.n <= posted
    BY DEF OneNumber, Message
  <2>2. new.n = posted + 1 /\ posted \in Nat
    BY <1>1
  <2>3. QED
    BY <1>1, <1>2, <2>1, <2>2 DEF OneNumber
<1>5. ArrivedBelongs'
  BY <1>1, <1>2, <1>3 DEF Post, ArrivedBelongs, RowsGrow, Message
<1>6. JobsBacked' /\ NetBacked' /\ AcknowledgedIsStored'
  BY <1>1, BackedStays, OtherFacts DEF Post, JobsBacked, NetBacked, AcknowledgedIsStored, Job, Envelope, RowsGrow
<1>7. FanoutsBacked'
  BY <1>1, <1>3 DEF Post, FanoutsBacked, RowsGrow, Message
<1>8. QED
  BY <1>1, <1>4, <1>5, <1>6, <1>7 DEF Post, OneConversation, OpensBacked, SplitOnlyByCrossing

LEMMA WorkerSteps ==
    ASSUME Typed, Inv,
           \/ \E f \in fanouts : FanOut(f)
           \/ \E j \in outbox : Dispatch(j) \/ \E dropped \in BOOLEAN : NoAnswer(j, dropped)
    PROVE  Inv'
<1> USE FederatedDmAssumption DEF TypeOK, Typed, Inv, rows, counts
<1>1. ASSUME NEW f \in fanouts, FanOut(f) PROVE Inv'
  <2>1. f.n # 0 /\ f \in messages[f.author] /\ f = [n |-> f.n, author |-> f.author, chan |-> f.chan]
    BY DEF Message, FanoutsBacked
  <2>2. \A j \in outbox' : j \in outbox \/ (j.from = f.author /\ j.chan = f.chan /\ j.msg = f.n /\ j.state = "waiting")
    BY <1>1 DEF FanOut, Enqueue
  <2>3. JobsBacked' /\ AcknowledgedIsStored'
    BY <1>1, <2>1, <2>2 DEF FanOut, JobsBacked, Backed, Row, AcknowledgedIsStored
  <2>4. NetBacked'
    BY <1>1 DEF FanOut, NetBacked, Backed
  <2>5. QED
    BY <1>1, <2>3, <2>4 DEF FanOut, FanoutsBacked, OneConversation, OpensBacked, OneNumber, ArrivedBelongs, SplitOnlyByCrossing
<1>2. ASSUME NEW j \in outbox, Dispatch(j) PROVE Inv'
  <2>1. Backed(j)
    BY DEF JobsBacked
  <2>2. [j EXCEPT !.state = "active"].from = j.from /\ [j EXCEPT !.state = "active"].chan = j.chan
        /\ [j EXCEPT !.state = "active"].msg = j.msg /\ [j EXCEPT !.state = "active"].state = "active"
    BY DEF Job
  <2>3. JobsBacked' /\ AcknowledgedIsStored'
    BY <1>2, <2>1, <2>2 DEF Dispatch, JobsBacked, Backed, Row, AcknowledgedIsStored
  <2>4. NetBacked'
    <3>1. \A m \in net' : m \in net \/ (m.from = j.from /\ m.chan = j.chan /\ m.msg = j.msg /\ ~m.checked)
      BY <1>2 DEF Dispatch
    <3>2. \A m \in net' : Backed(m)
      BY <2>1, <3>1 DEF NetBacked, Backed, Row
    <3>3. UNCHANGED <<channels, messages>>
      BY <1>2 DEF Dispatch
    <3>4. QED
      BY <3>1, <3>2, <3>3 DEF NetBacked, Backed
  <2>5. QED
    BY <1>2, <2>3, <2>4 DEF Dispatch, FanoutsBacked, OneConversation, OpensBacked, OneNumber, ArrivedBelongs, SplitOnlyByCrossing
<1>3. ASSUME NEW j \in outbox, NEW dropped \in BOOLEAN, NoAnswer(j, dropped) PROVE Inv'
  <2>1. Backed(j)
    BY DEF JobsBacked
  <2>2. PICK new : /\ outbox' = (outbox \ {j}) \cup {new}
                   /\ new.from = j.from /\ new.chan = j.chan /\ new.msg = j.msg
                   /\ new.state \in {"waiting", "failed"}
    <3> DEFINE st == IF j.tries + 1 < Attempts THEN "waiting" ELSE "failed"
    <3> DEFINE new == [j EXCEPT !.tries = j.tries + 1, !.state = st]
    <3>1. outbox' = (outbox \ {j}) \cup {new}
      BY <1>3 DEF NoAnswer
    <3>2. new.from = j.from /\ new.chan = j.chan /\ new.msg = j.msg /\ new.state = st
      BY DEF Job
    <3>3. st \in {"waiting", "failed"}
      OBVIOUS
    <3> HIDE DEF new, st
    <3>4. QED
      BY <3>1, <3>2, <3>3
  <2>3. JobsBacked' /\ AcknowledgedIsStored'
    BY <1>3, <2>1, <2>2 DEF NoAnswer, JobsBacked, Backed, Row, AcknowledgedIsStored
  <2>4. NetBacked'
    BY <1>3 DEF NoAnswer, NetBacked, Backed
  <2>5. UNCHANGED <<channels, messages, opens, fanouts, answered, posted>>
    BY <1>3 DEF NoAnswer
  <2>6. QED
    BY <2>3, <2>4, <2>5 DEF FanoutsBacked, OneConversation, OpensBacked, OneNumber, ArrivedBelongs, SplitOnlyByCrossing
<1>4. QED
  BY <1>1, <1>2, <1>3

\* What an answer completes is stored, if the envelope's subject is.
LEMMA AnswerKeeps ==
    ASSUME Typed, Inv, RowsGrow, NEW m \in net, NEW state \in {"completed", "failed"}, Answer(m, state),
           state = "completed" =>
               IF m.msg = 0 THEN m.chan \in channels'[Other(m.from)]
               ELSE Row(m) \in messages'[Other(m.from)]
    PROVE  JobsBacked' /\ AcknowledgedIsStored' /\ NetBacked'
<1>3. \A j \in outbox' : \E k \in outbox : j = k \/ (Carries(m, k) /\ j = [k EXCEPT !.state = state])
  BY AnswerJobs
<1> USE DEF Typed, TypeOK, Inv
<1>1. ASSUME NEW j \in outbox'
      PROVE  /\ Backed(j)'
             /\ j.state = "completed" =>
                  IF j.msg = 0 THEN j.chan \in channels'[Other(j.from)]
                  ELSE [n |-> j.msg, author |-> j.from, chan |-> j.chan] \in messages'[Other(j.from)]
  <2>1. PICK k \in outbox : j = k \/ (Carries(m, k) /\ j = [k EXCEPT !.state = state])
    BY <1>3
  <2>2. k.from \in Instance /\ Backed(k) /\ Other(k.from) \in Instance
    BY OtherFacts DEF Job, JobsBacked
  <2>3. Backed(k)'
    BY <2>2, BackedStays
  <2>4. CASE j = k
    BY <2>2, <2>3, <2>4 DEF AcknowledgedIsStored, RowsGrow
  <2>5. CASE Carries(m, k) /\ j = [k EXCEPT !.state = state]
    <3>1. j.from = k.from /\ j.chan = k.chan /\ j.msg = k.msg /\ j.state = state
      BY <2>5 DEF Job
    <3>2. m.from = j.from /\ m.chan = j.chan /\ m.msg = j.msg
      BY <2>5, <3>1 DEF Carries, SameJob
    <3>3. Backed(j)'
      BY <2>3, <3>1 DEF Backed, Row
    <3>4. QED
      BY <3>1, <3>2, <3>3 DEF Row
  <2>6. QED
    BY <2>1, <2>4, <2>5
<1>2. NetBacked'
  BY BackedStays, OtherFacts DEF Answer, NetBacked, Envelope, RowsGrow
<1>4. QED
  BY <1>1, <1>2 DEF JobsBacked, AcknowledgedIsStored

\* A refusal, or any failure, completes nothing.
LEMMA ReceiveSteps ==
    ASSUME Typed, Inv, NEW m \in net, Receive(m)
    PROVE  Inv'
<1> USE DEF Typed, TypeOK, rows, counts
<1>1. RowsGrow /\ UNCHANGED <<channels, messages, opens, fanouts, answered, posted>>
  BY DEF Receive, RowsGrow
<1>2. m.from \in Instance /\ Other(m.from) \in Instance /\ m \in Envelope
  BY OtherFacts DEF Envelope
<1>3. JobsBacked' /\ AcknowledgedIsStored' /\ NetBacked'
  <2>1. CASE Refused(m)
    BY <1>1, <2>1, AnswerKeeps DEF Receive
  <2>2. CASE ~Refused(m) /\ Known(m)
    <3>1. IF m.msg = 0 THEN m.chan \in channels[Other(m.from)] ELSE Row(m) \in messages[Other(m.from)]
      <4>1. CASE m.msg = 0
        BY <2>2, <4>1 DEF Known
      <4>2. CASE m.msg # 0
        <5>1. PICK row \in messages[Other(m.from)] : row.n = m.msg
          BY <2>2, <4>2 DEF Known
        <5>2. Row(m) \in messages[m.from] /\ Row(m).n = m.msg
          BY <4>2 DEF Inv, NetBacked, Backed, Row
        <5>3. Row(m) = row
          BY <1>2, <5>1, <5>2 DEF Inv, OneNumber
        <5>4. QED
          BY <4>2, <5>1, <5>3
      <4>3. QED
        BY <4>1, <4>2
    <3>2. Answer(m, "completed")
      BY <2>2 DEF Receive
    <3>3. IF m.msg = 0 THEN m.chan \in channels'[Other(m.from)] ELSE Row(m) \in messages'[Other(m.from)]
      BY <1>1, <3>1
    <3>4. QED
      BY <1>1, <3>2, <3>3, AnswerKeeps
  <2>3. CASE ~Refused(m) /\ ~Known(m)
    <3>1. outbox' = outbox /\ net' = (net \ {m}) \cup {[m EXCEPT !.checked = TRUE]}
      BY <2>3 DEF Receive
    <3>2. /\ [m EXCEPT !.checked = TRUE].from = m.from
          /\ [m EXCEPT !.checked = TRUE].chan = m.chan
          /\ [m EXCEPT !.checked = TRUE].msg = m.msg
      BY <1>2 DEF Envelope
    <3>3. m.msg # 0 => m.chan \in channels[Other(m.from)]
      BY <2>3 DEF Refused
    <3>4. NetBacked'
      BY <1>1, <3>1, <3>2, <3>3 DEF Inv, NetBacked, Backed, Row
    <3>5. QED
      BY <1>1, <3>1, <3>4 DEF Inv, JobsBacked, Backed, AcknowledgedIsStored
  <2>4. QED
    BY <2>1, <2>2, <2>3
<1>4. QED
  BY <1>1, <1>3 DEF Inv, FanoutsBacked, OneConversation, OpensBacked, OneNumber, ArrivedBelongs, SplitOnlyByCrossing

LEMMA CommitSteps ==
    ASSUME Typed, Inv, NEW m \in net, CommitCreate(m) \/ CommitMessage(m)
    PROVE  Inv'
<1> USE DEF Typed, TypeOK, rows, counts
<1> DEFINE to == Other(m.from)
<1>1. m.from \in Instance /\ to \in Instance /\ Other(to) = m.from /\ to # m.from /\ m \in Envelope
  BY OtherFacts DEF Envelope
<1>2. ASSUME CommitCreate(m) PROVE Inv'
  <2>1. UNCHANGED <<messages, opens, fanouts, answered, posted>> /\ m.msg = 0
    BY <1>2 DEF CommitCreate
  <2>2. CASE channels[to] # {}
    <3>1. RowsGrow /\ channels' = channels /\ Answer(m, "failed")
      BY <1>2, <2>1, <2>2 DEF CommitCreate, RowsGrow
    <3>2. JobsBacked' /\ AcknowledgedIsStored' /\ NetBacked'
      BY <3>1, AnswerKeeps
    <3>3. QED
      BY <2>1, <3>1, <3>2 DEF Inv, FanoutsBacked, OneConversation, OpensBacked, OneNumber, ArrivedBelongs, SplitOnlyByCrossing
  <2>3. CASE channels[to] = {}
    <3>1. channels' = [channels EXCEPT ![to] = {m.chan}] /\ Answer(m, "completed")
      BY <1>2, <2>3 DEF CommitCreate
    <3>2. RowsGrow /\ m.chan \in channels'[to]
      BY <1>1, <2>1, <2>3, <3>1 DEF RowsGrow
    <3>3. JobsBacked' /\ AcknowledgedIsStored' /\ NetBacked'
      BY <2>1, <3>1, <3>2, AnswerKeeps
    <3>4. OneConversation'
      BY <1>1, <2>1, <2>3, <3>1 DEF Inv, OneConversation
    <3>5. SplitOnlyByCrossing'
      <4>1. m.chan \in channels[m.from]
        BY <2>1 DEF Inv, NetBacked, Backed
      <4>2. \A i \in Instance : Other(i) \in Instance
        BY OtherFacts
      <4>3. QED
        BY <1>1, <3>1, <3>2, <4>1, <4>2 DEF Inv, SplitOnlyByCrossing, RowsGrow
    <3>6. OpensBacked'
      BY <2>1, <3>2 DEF Inv, OpensBacked, RowsGrow, Open
    <3>7. ArrivedBelongs'
      BY <2>1, <3>2 DEF Inv, ArrivedBelongs, RowsGrow, Message
    <3>8. QED
      BY <2>1, <3>3, <3>4, <3>5, <3>6, <3>7 DEF Inv, FanoutsBacked, OneNumber
  <2>4. QED
    BY <2>2, <2>3
<1>3. ASSUME CommitMessage(m) PROVE Inv'
  <2>1. UNCHANGED <<channels, opens, fanouts, answered, posted>> /\ m.msg # 0 /\ m.checked
    BY <1>3 DEF CommitMessage
  <2>2. CASE \E row \in messages[to] : row.n = m.msg
    <3>1. RowsGrow /\ messages' = messages /\ Answer(m, "failed")
      BY <1>3, <2>1, <2>2 DEF CommitMessage, RowsGrow
    <3>2. JobsBacked' /\ AcknowledgedIsStored' /\ NetBacked'
      BY <3>1, AnswerKeeps
    <3>3. QED
      BY <2>1, <3>1, <3>2 DEF Inv, FanoutsBacked, OneConversation, OpensBacked, OneNumber, ArrivedBelongs, SplitOnlyByCrossing
  <2>3. CASE ~\E row \in messages[to] : row.n = m.msg
    <3>1. messages' = [messages EXCEPT ![to] = @ \cup {Row(m)}] /\ Answer(m, "completed")
      BY <1>3, <2>3 DEF CommitMessage
    <3>2. RowsGrow /\ Row(m) \in messages'[to]
      BY <1>1, <2>1, <3>1 DEF RowsGrow
    <3>3. JobsBacked' /\ AcknowledgedIsStored' /\ NetBacked'
      BY <2>1, <3>1, <3>2, AnswerKeeps
    <3>4. Row(m) \in messages[m.from] /\ m.chan \in channels[to]
      BY <2>1 DEF Inv, NetBacked, Backed
    <3>5. \A i \in Instance : \A r \in messages'[i] : r \in messages[i] \/ (r = Row(m) /\ i = to)
      <4>1. \A i \in Instance : messages'[i] = IF i = to THEN messages[to] \cup {Row(m)} ELSE messages[i]
        BY <1>1, <3>1
      <4>2. QED
        BY <4>1
    <3>6. OneNumber'
      BY <1>1, <2>1, <3>4, <3>5 DEF Inv, OneNumber
    <3>7. ArrivedBelongs'
      <4>1. Row(m).chan = m.chan /\ Row(m).author = m.from
        BY DEF Row
      <4>2. m.chan \in channels[m.from]
        BY <1>1, <3>4, <4>1 DEF Inv, ArrivedBelongs
      <4>3. \A i \in Instance : \A r \in messages[i] : r.author \in Instance
        BY DEF Message
      <4>4. QED
        BY <1>1, <2>1, <3>2, <3>4, <3>5, <4>1, <4>2, <4>3 DEF Inv, ArrivedBelongs, RowsGrow
    <3>8. FanoutsBacked'
      BY <2>1, <3>2 DEF Inv, FanoutsBacked, RowsGrow, Message
    <3>9. QED
      BY <2>1, <3>3, <3>6, <3>7, <3>8 DEF Inv, OneConversation, OpensBacked, SplitOnlyByCrossing
  <2>4. QED
    BY <2>2, <2>3
<1>4. QED
  BY <1>2, <1>3

LEMMA Inductive == Typed /\ Inv /\ [Next]_vars => Inv'
<1> SUFFICES ASSUME Typed, Inv, [Next]_vars PROVE Inv'
  OBVIOUS
<1>1. ASSUME \/ \E i \in Instance : OpenStart(i)
             PROVE Inv'
  <2>1. PICK i \in Instance : OpenStart(i)
    BY <1>1
  <2>2. OpensBacked'
    BY <2>1 DEF OpenStart, Inv, OpensBacked, rows
  <2>3. QED
    BY <2>1, <2>2 DEF OpenStart, Inv, OneConversation, JobsBacked, NetBacked, Backed, FanoutsBacked,
       OneNumber, ArrivedBelongs, SplitOnlyByCrossing, AcknowledgedIsStored, rows
<1>2. ASSUME NEW i \in Instance, Toggle(i) \/ Crash(i) PROVE Inv'
  BY <1>2 DEF Toggle, Crash, Inv, OpensBacked, OneConversation, JobsBacked, NetBacked, Backed, FanoutsBacked,
     OneNumber, ArrivedBelongs, SplitOnlyByCrossing, AcknowledgedIsStored, rows
<1>3. CASE UNCHANGED vars
  BY <1>3 DEF vars, Inv, OpensBacked, OneConversation, JobsBacked, NetBacked, Backed, FanoutsBacked,
     OneNumber, ArrivedBelongs, SplitOnlyByCrossing, AcknowledgedIsStored
<1>4. QED
  BY <1>1, <1>2, <1>3, OpenSteps, PostSteps, WorkerSteps, ReceiveSteps, CommitSteps DEF Next, Apply

LEMMA Inductively == Spec => [](Typed /\ Inv)
<1>1. Init => Typed
  <2> SUFFICES ASSUME Init PROVE TypeOK /\ TriesLeft
    BY DEF Typed
  <2>1. TriesLeft
    BY DEF Init, TriesLeft
  <2>2. QED
    BY <2>1, FederatedDmAssumption DEF Init, TypeOK
<1>2. Init => Inv
  BY DEF Init, Inv, OpensBacked, OneConversation, JobsBacked, NetBacked, FanoutsBacked,
     OneNumber, ArrivedBelongs, SplitOnlyByCrossing, AcknowledgedIsStored
<1>3. QED
  BY <1>1, <1>2, TypeInductive, Inductive, PTL DEF Spec

\* However opens race, each end has one channel and answers with it.
THEOREM OneChannelPerEnd == Spec => []OneConversation
<1>1. Inv => OneConversation
  BY DEF Inv
<1>2. QED
  BY <1>1, Inductively, PTL

\* The ends differ only when both opened the conversation.
THEOREM EndsAgreeUnlessCrossed == Spec => []SplitOnlyByCrossing
<1>1. Inv => SplitOnlyByCrossing
  BY DEF Inv
<1>2. QED
  BY <1>1, Inductively, PTL

\* A message is shown only where both ends have its channel, and as it was posted.
THEOREM ArrivalsBelong == Spec => []ArrivedBelongs
<1>1. Inv => ArrivedBelongs
  BY DEF Inv
<1>2. QED
  BY <1>1, Inductively, PTL

\* An acknowledged envelope is stored, for any retries, failures and crashes.
THEOREM AcknowledgedStays == Spec => []AcknowledgedIsStored
<1>1. Inv => AcknowledgedIsStored
  BY DEF Inv
<1>2. QED
  BY <1>1, Inductively, PTL
=============================================================================

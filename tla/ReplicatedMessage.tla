-------------------------- MODULE ReplicatedMessage --------------------------
(***************************************************************************)
(* What federation promises of one message, whatever carries it: only the   *)
(* author's instance writes it, every other instance shows a text that was  *)
(* written there, drops the message only once the author's instance has,    *)
(* and never takes it back.  FederatedMessage implements this.              *)
(***************************************************************************)
CONSTANTS
    Instance,       \* the instances that have a copy
    Author,         \* the author's instance
    Text,           \* what a message may say
    Empty           \* the text of a deleted message

VARIABLES
    copy,           \* the row of each instance: its status and its text
    written         \* the texts the author's row has had

vars == <<copy, written>>

Exists(i) == copy[i].status # "none"

Init ==
    /\ copy = [i \in Instance |-> [status |-> "none", text |-> Empty]]
    /\ written = {}

\* The author's instance creates the message, ...
Post(t) ==
    /\ ~Exists(Author)
    /\ copy' = [copy EXCEPT ![Author] = [status |-> "live", text |-> t]]
    /\ written' = written \cup {t}

\* ... edits it (an edit that overlaps a delete leaves its text on the tombstone) ...
Edit(t) ==
    /\ Exists(Author)
    /\ copy' = [copy EXCEPT ![Author] = [status |-> @.status, text |-> t]]
    /\ written' = written \cup {t}

\* ... and deletes it.
Delete ==
    /\ Exists(Author)
    /\ copy' = [copy EXCEPT ![Author] = [status |-> "deleted", text |-> Empty]]
    /\ written' = written \cup {Empty}

\* Another instance learns of the message, takes over a text or drops it.
Learn(i, t) ==
    /\ i # Author /\ ~Exists(i) /\ t \in written
    /\ copy' = [copy EXCEPT ![i] = [status |-> "live", text |-> t]]
    /\ UNCHANGED written

Follow(i, t) ==
    /\ i # Author /\ Exists(i) /\ t \in written
    /\ copy' = [copy EXCEPT ![i] = [status |-> @.status, text |-> t]]
    /\ UNCHANGED written

Drop(i) ==
    /\ i # Author /\ Exists(i) /\ copy[Author].status = "deleted"
    /\ copy' = [copy EXCEPT ![i] = [status |-> "deleted", text |-> Empty]]
    /\ UNCHANGED written

Next ==
    \/ \E t \in Text : Post(t) \/ Edit(t)
    \/ Delete
    \/ \E i \in Instance : Drop(i) \/ \E t \in Text : Learn(i, t) \/ Follow(i, t)

Spec == Init /\ [][Next]_vars
=============================================================================

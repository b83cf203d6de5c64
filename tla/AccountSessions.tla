---------------------------- MODULE AccountSessions ----------------------------
(***************************************************************************)
(* What an account's sessions promise, whatever handlers interleave.  A     *)
(* login starts a lineage.  A lineage has at most one session that is good; *)
(* a refresh spends it and later issues its successor, and nothing else     *)
(* continues a lineage.  Every other operation only ends sessions, and a    *)
(* new password ends all there are.  Sessions implements this.              *)
(***************************************************************************)
EXTENDS Naturals

CONSTANTS
    MaxSessions,    \* bound: sessions created in one behaviour
    MaxPasswords    \* bound: passwords the account has had

VARIABLES
    held,           \* held[l]: the good sessions of the lineage that session l started
    passing,        \* the lineages a refresh has spent and not yet reissued
    made,           \* sessions created so far
    password        \* number of the current password

vars == <<held, passing, made, password>>

Session == 1..MaxSessions

Init ==
    /\ held = [l \in Session |-> {}]
    /\ passing = {}
    /\ made = 0
    /\ password = 1

\* The session created next is the only good one of lineage l.
Create(l) ==
    /\ made < MaxSessions
    /\ made' = made + 1
    /\ held' = [held EXCEPT ![l] = {made + 1}]

\* A login starts a lineage ...
Start ==
    /\ Create(made + 1)
    /\ UNCHANGED <<passing, password>>

\* ... the one good session of which a refresh spends, ...
Spend(l) ==
    /\ held[l] # {} /\ l \notin passing
    /\ held' = [held EXCEPT ![l] = {}]
    /\ passing' = passing \cup {l}
    /\ UNCHANGED <<made, password>>

\* ... to issue its successor, once.
Issue(l) ==
    /\ l \in passing
    /\ Create(l)
    /\ passing' = passing \ {l}
    /\ UNCHANGED password

\* A logout, a revocation, a prune or the reuse detection ends whole lineages
\* that no refresh is passing on.
End(ended) ==
    /\ held' = [l \in Session |-> IF l \in ended THEN {} ELSE held[l]]
    /\ UNCHANGED <<passing, made, password>>

\* A new password ends every good session.
Change ==
    /\ password < MaxPasswords
    /\ password' = password + 1
    /\ held' = [l \in Session |-> {}]
    /\ UNCHANGED <<passing, made>>

Next ==
    \/ Start
    \/ \E l \in Session : Spend(l) \/ Issue(l)
    \/ \E ended \in SUBSET Session : End(ended)
    \/ Change

Spec == Init /\ [][Next]_vars
=============================================================================

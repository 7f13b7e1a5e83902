---------------------------- MODULE MCAdmission ----------------------------
(***************************************************************************)
(* Small instances of Admission for TLC: a child, its mother, and one      *)
(* plan.                                                                   *)
(***************************************************************************)
EXTENDS AdmissionInvariant, TLC

CONSTANTS child, mother, other, monthly

Somebody(name) == [email |-> name, rut |-> name]

\* The mother as she came before, or somebody with the email she has now.
MCArrivals == {[person |-> [email |-> mother, rut |-> other], tutors |-> {}]}

\* The child with its mother, and with nobody though it is not an adult; the
\* mother for herself.
MCApplications ==
    {[pupil |-> Somebody(child), guardian |-> Somebody(mother), plan |-> monthly],
     [pupil |-> Somebody(child), guardian |-> Somebody(None), plan |-> monthly],
     [pupil |-> Somebody(mother), guardian |-> None, plan |-> monthly]}

MCChanges == {[email |-> other, rut |-> None]}

\* The mother, or who has her email, for herself or for any user.
MCOrders == {[email |-> mother, student |-> u, plan |-> monthly] : u \in Users \cup {None}}

NoChanges == {}

\* Bounds: what has left its first state at a time, and whom requests name.
Gone == {u \in Users : users[u] # None /\ (~users[u].active \/ users[u].email = other)}
        \cup {p \in Plans : ~plans[p]}
        \cup {s \in Subscriptions : subs[s] # None /\ ~subs[s].open}
Bounded == Cardinality(Gone) <= 1 /\ Cardinality(named) <= 2

Symmetric ==
    Permutations(Users) \cup Permutations(Subscriptions) \cup Permutations(Requests)
=============================================================================

------------------------------- MODULE Ledger -------------------------------
(***************************************************************************)
(* What the billing of a school promises, with no requests, awaits or      *)
(* failures: accounts (subscriptions) and entries (payments), each written *)
(* in one step, on the evidence of what has happened at the gateway.       *)
(***************************************************************************)
CONSTANTS Accounts, Entries, Charges, Contracts, None

VARIABLES
    account,    \* the status of each account that was opened
    entry,      \* the account, status and charge of each entry that was booked
    charge,     \* the charges: what each is for, and the states it has had
    contract,  \* the agreements to charge regularly, likewise
    asked       \* the accounts somebody asked to close

ledger == <<account, entry>>
evidence == <<charge, contract, asked>>

Init ==
    /\ account = [s \in Accounts |-> None]
    /\ entry = [p \in Entries |-> None]
    /\ charge = [c \in Charges |-> None]
    /\ contract = [a \in Contracts |-> None]
    /\ asked = {}

(***************************************************************************)
(* The evidence.                                                           *)
(***************************************************************************)
\* The states of a charge that a status of an entry stands for.
Means(status) ==
    CASE status = "COMPLETED" -> {"approved"}
      [] status = "FAILED" -> {"rejected", "cancelled"}
      [] status = "PENDING" -> {"pending", "in_process", "refunded"}

EntriesOf(s) == {p \in Entries : entry[p] # None /\ entry[p].account = s}

\* One of these charges was once in one of these states.
Ever(objects, references, states) ==
    \E c \in DOMAIN objects : /\ objects[c] # None
                              /\ objects[c].reference \in references
                              /\ objects[c].seen \cap states # {}

IsRecorded(s) == \E p \in EntriesOf(s) : entry[p].charge # None

\* Why an account may take a status.  Nothing makes it PENDING again.
MayBecome(s, status) ==
    CASE status = "ACTIVE" ->
           \/ Ever(contract, {s}, {"authorized"})
           \/ IsRecorded(s) /\ Ever(charge, {s} \cup EntriesOf(s), {"approved"})
      [] status = "PAST_DUE" ->
           IsRecorded(s) /\ Ever(charge, {s}, {"rejected", "cancelled"})
      [] status = "CANCELLED" ->
           s \in asked \/ \E a \in Contracts : contract[a] # None /\ contract[a].reference = s

(***************************************************************************)
(* The steps.                                                              *)
(***************************************************************************)
Accumulates(objects, later) ==
    \A c \in DOMAIN objects : objects[c] # None =>
        /\ later[c] # None
        /\ later[c].reference = objects[c].reference
        /\ objects[c].seen \subseteq later[c].seen

\* Something happens outside; nothing that happened is undone.
Happen ==
    /\ Accumulates(charge, charge')
    /\ Accumulates(contract, contract')
    /\ asked \subseteq asked'
    /\ UNCHANGED ledger

Open(s) ==
    /\ account[s] = None
    /\ account' = [account EXCEPT ![s] = "PENDING"]
    /\ UNCHANGED <<entry, evidence>>

\* Unpaid entries are added to an account, all at once.
Book(s) ==
    /\ account[s] # None
    /\ \E new \in SUBSET {p \in Entries : entry[p] = None} :
         entry' = [p \in Entries |->
                     IF p \in new
                     THEN [account |-> s, status |-> "PENDING", charge |-> None]
                     ELSE entry[p]]
    /\ UNCHANGED <<account, evidence>>

\* An entry records a charge made for it or for its account, in a state the
\* charge has had.
Settle(p, c) ==
    /\ entry[p] # None
    /\ charge[c] # None
    /\ charge[c].reference \in {p, entry[p].account}
    /\ \E status \in {"PENDING", "COMPLETED", "FAILED"} :
         /\ charge[c].seen \cap Means(status) # {}
         /\ entry' = [entry EXCEPT ![p] = [account |-> @.account, status |-> status, charge |-> c]]
    /\ UNCHANGED <<account, evidence>>

Mark(s) ==
    /\ account[s] # None
    /\ \E status \in {"ACTIVE", "PAST_DUE", "CANCELLED"} :
         /\ MayBecome(s, status)
         /\ account' = [account EXCEPT ![s] = status]
    /\ UNCHANGED <<entry, evidence>>

Next ==
    \/ Happen
    \/ \E s \in Accounts : Open(s) \/ Book(s) \/ Mark(s)
    \/ \E p \in Entries, c \in Charges : Settle(p, c)

Spec == Init /\ [][Next]_<<ledger, evidence>>
=============================================================================

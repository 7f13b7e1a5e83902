---------------------------- MODULE BillingLedger ----------------------------
(***************************************************************************)
(* The tables of Billing, read as a Ledger: payers, dates, links and the   *)
(* requests in flight are forgotten.                                       *)
(***************************************************************************)
EXTENDS BillingInvariant

AccountOf(row) == IF row = None THEN None ELSE row.status

EntryOf(row) ==
    IF row = None THEN None
    ELSE [account |-> row.subscription, status |-> row.status, charge |-> row.externalId]

EvidenceOf(object) ==
    IF object = None THEN None ELSE [reference |-> object.reference, seen |-> object.seen]

\* null is not a status, an entry or a piece of evidence.
ASSUME LedgerNullAssumption ==
    /\ None \notin SubscriptionStatus
    /\ None \notin [account : Subscriptions, status : PaymentStatus, charge : Charges \cup {None}]
    /\ None \notin [reference : Payments \cup Subscriptions, seen : SUBSET ChargeStatus]
    /\ None \notin [reference : Subscriptions, seen : SUBSET PreStatus]

accountOf == [s \in Subscriptions |-> AccountOf(subs[s])]
entryOf == [p \in Payments |-> EntryOf(pays[p])]
chargeOf == [c \in Charges |-> EvidenceOf(charges[c])]
contractOf == [a \in Preapprovals |-> EvidenceOf(preapprovals[a])]

L == INSTANCE Ledger WITH
       Accounts <- Subscriptions, Entries <- Payments, Contracts <- Preapprovals,
       account <- accountOf, entry <- entryOf, charge <- chargeOf, contract <- contractOf,
       asked <- cancelAsked

\* The tables are a ledger: whatever interleaves and wherever it stops, each
\* write of a row is one step of the ledger, made on evidence that holds by
\* then, and nothing that was written or that happened is lost.
KeepsLedger == L!Spec
=============================================================================

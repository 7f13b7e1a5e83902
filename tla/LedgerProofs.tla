---------------------------- MODULE LedgerProofs ----------------------------
(***************************************************************************)
(* Billing implements Ledger: the invariant of Billing says what the       *)
(* ledger asks of each write, and every action is one step of the ledger   *)
(* or none.                                                                *)
(***************************************************************************)
EXTENDS BillingLedger, BillingProofs

\* A row or an object that is there is seen as one by the ledger.
LEMMA Views ==
    /\ \A row \in SubscriptionRow \cup {None} :
         /\ AccountOf(row) = None <=> row = None
         /\ row # None => AccountOf(row) = row.status
    /\ \A row \in PaymentRow \cup {None} :
         /\ EntryOf(row) = None <=> row = None
         /\ row # None => /\ EntryOf(row).account = row.subscription
                          /\ EntryOf(row).status = row.status
                          /\ EntryOf(row).charge = row.externalId
    /\ \A object \in ChargeObject \cup PreapprovalObject \cup {None} :
         /\ EvidenceOf(object) = None <=> object = None
         /\ object # None => /\ EvidenceOf(object).reference = object.reference
                             /\ EvidenceOf(object).seen = object.seen
<1> USE LedgerNullAssumption
<1>1. ASSUME NEW row \in SubscriptionRow \cup {None}
      PROVE  /\ AccountOf(row) = None <=> row = None
             /\ row # None => AccountOf(row) = row.status
  BY DEF AccountOf, SubscriptionRow
<1>2. ASSUME NEW row \in PaymentRow \cup {None}
      PROVE  /\ EntryOf(row) = None <=> row = None
             /\ row # None => /\ EntryOf(row).account = row.subscription
                              /\ EntryOf(row).status = row.status
                              /\ EntryOf(row).charge = row.externalId
  BY DEF EntryOf, PaymentRow
<1>3. ASSUME NEW object \in ChargeObject \cup PreapprovalObject \cup {None}
      PROVE  /\ EvidenceOf(object) = None <=> object = None
             /\ object # None => /\ EvidenceOf(object).reference = object.reference
                                 /\ EvidenceOf(object).seen = object.seen
  BY DEF EvidenceOf, ChargeObject, PreapprovalObject
<1>4. QED BY <1>1, <1>2, <1>3

\* What a step leaves alone looks the same to the ledger.
LEMMA SameViews ==
    /\ subs' = subs => accountOf' = accountOf
    /\ pays' = pays => entryOf' = entryOf
    /\ charges' = charges => chargeOf' = chargeOf
    /\ preapprovals' = preapprovals => contractOf' = contractOf
BY DEF accountOf, entryOf, chargeOf, contractOf

\* A step that writes no row is something that happens outside, or nothing.
LEMMA OutsideHappens ==
    ASSUME TypeOK, TypeOK', Grows, UNCHANGED tables
    PROVE  L!Happen
<1>1. UNCHANGED <<accountOf, entryOf>>
  BY SameViews DEF tables
<1>2. ASSUME NEW c \in Charges, chargeOf[c] # None
      PROVE  /\ chargeOf'[c] # None
             /\ chargeOf'[c].reference = chargeOf[c].reference
             /\ chargeOf[c].seen \subseteq chargeOf'[c].seen
  <2>1. /\ chargeOf[c] = EvidenceOf(charges[c]) /\ chargeOf'[c] = EvidenceOf(charges'[c])
        /\ charges[c] \in ChargeObject \cup {None} /\ charges'[c] \in ChargeObject \cup {None}
    BY DEF chargeOf, TypeOK
  <2>2. QED BY <1>2, <2>1, Views DEF Grows
<1>3. ASSUME NEW a \in Preapprovals, contractOf[a] # None
      PROVE  /\ contractOf'[a] # None
             /\ contractOf'[a].reference = contractOf[a].reference
             /\ contractOf[a].seen \subseteq contractOf'[a].seen
  <2>1. /\ contractOf[a] = EvidenceOf(preapprovals[a])
        /\ contractOf'[a] = EvidenceOf(preapprovals'[a])
        /\ preapprovals[a] \in PreapprovalObject \cup {None}
        /\ preapprovals'[a] \in PreapprovalObject \cup {None}
    BY DEF contractOf, TypeOK
  <2>2. QED BY <1>3, <2>1, Views DEF Grows
<1>4. DOMAIN chargeOf = Charges /\ DOMAIN contractOf = Preapprovals
  BY DEF chargeOf, contractOf
<1>5. cancelAsked \subseteq cancelAsked'
  BY DEF Grows
<1>6. QED BY <1>1, <1>2, <1>3, <1>4, <1>5 DEF L!Happen, L!Accumulates, L!ledger

-----------------------------------------------------------------------------
\* A row of one subscription is written: the ledger sees one account change.
LEMMA AccountWritten ==
    ASSUME NEW s \in Subscriptions, \A t \in Subscriptions : t # s => subs'[t] = subs[t]
    PROVE  accountOf' = [accountOf EXCEPT ![s] = AccountOf(subs'[s])]
BY DEF accountOf

LEMMA EntryWritten ==
    ASSUME NEW p \in Payments, \A q \in Payments : q # p => pays'[q] = pays[q]
    PROVE  entryOf' = [entryOf EXCEPT ![p] = EntryOf(pays'[p])]
BY DEF entryOf

\* A row of subscription s as it is created: to be paid, by no transaction.
IsUnpaid(s, row) == row.subscription = s /\ row.status = "PENDING" /\ row.externalId = None

\* Rows that are created so are booked.
LEMMA UnpaidAreBooked ==
    ASSUME TypeOK, TypeOK', NEW s \in Subscriptions, subs[s] # None,
           UNCHANGED <<subs, charges, preapprovals, cancelAsked>>,
           \A p \in Payments : pays'[p] # pays[p] =>
             pays[p] = None /\ pays'[p] # None /\ IsUnpaid(s, pays'[p])
    PROVE  L!Book(s)
<1> DEFINE new == {p \in Payments : pays'[p] # pays[p]}
           blank == [account |-> s, status |-> "PENDING", charge |-> None]
<1>1. \A p \in new : entryOf[p] = None /\ entryOf'[p] = blank
  BY DEF entryOf, EntryOf, IsUnpaid
<1>2. \A p \in Payments \ new : entryOf'[p] = entryOf[p]
  BY DEF entryOf
<1>3. entryOf' = [p \in Payments |-> IF p \in new THEN blank ELSE entryOf[p]]
  BY <1>1, <1>2 DEF entryOf
<1>4. new \in SUBSET {p \in Payments : entryOf[p] = None}
  BY <1>1
<1>5. accountOf[s] # None
  BY Views DEF accountOf, TypeOK
<1>6. QED BY <1>3, <1>4, <1>5, SameViews DEF L!Book, L!evidence

\* The reasons Billing has for a status are those the ledger asks for.
LEMMA ReasonsAgree ==
    ASSUME TypeOK, NEW s \in Subscriptions, NEW st \in {"ACTIVE", "PAST_DUE", "CANCELLED"},
           Justifies(s, st)
    PROVE  L!MayBecome(s, st)
<1>1. \A p \in Payments : /\ entryOf[p] = EntryOf(pays[p])
                          /\ pays[p] \in PaymentRow \cup {None}
  BY DEF TypeOK, entryOf
<1>2. \A c \in Charges : /\ chargeOf[c] = EvidenceOf(charges[c])
                         /\ charges[c] \in ChargeObject \cup {None}
  BY DEF TypeOK, chargeOf
<1>3. \A a \in Preapprovals : /\ contractOf[a] = EvidenceOf(preapprovals[a])
                              /\ preapprovals[a] \in PreapprovalObject \cup {None}
  BY DEF TypeOK, contractOf
<1>4. DOMAIN chargeOf = Charges /\ DOMAIN contractOf = Preapprovals
  BY DEF chargeOf, contractOf
<1>5. L!EntriesOf(s) = PaymentsOf(s)
  BY <1>1, Views DEF L!EntriesOf, PaymentsOf
<1>6. HasRecord(s) => L!IsRecorded(s)
  BY <1>1, <1>5, Views DEF HasRecord, L!IsRecorded, PaymentsOf
<1>7. HasPaid(s) => L!Ever(chargeOf, {s} \cup L!EntriesOf(s), {"approved"})
  BY <1>2, <1>4, <1>5, Views DEF HasPaid, ChargesFor, L!Ever
<1>8. HasFailed(s) => L!Ever(chargeOf, {s}, {"rejected", "cancelled"})
  BY <1>2, <1>4, Views DEF HasFailed, L!Ever
<1>9. WasAuthorized(s) => L!Ever(contractOf, {s}, {"authorized"})
  BY <1>3, <1>4, Views DEF WasAuthorized, Agreements, L!Ever
<1>10. Agreements(s) # {} =>
         \E a \in Preapprovals : contractOf[a] # None /\ contractOf[a].reference = s
  BY <1>3, Views DEF Agreements
<1>11. QED BY <1>6, <1>7, <1>8, <1>9, <1>10 DEF Justifies, L!MayBecome

\* A status with a reason after a step that only wrote it had one before.
LEMMA StatusMarked ==
    ASSUME IInv, IInv', NEW s \in Subscriptions, subs[s] # None,
           \A t \in Subscriptions : t # s => subs'[t] = subs[t],
           UNCHANGED <<pays, charges, preapprovals, cancelAsked>>,
           NEW st \in {"ACTIVE", "PAST_DUE", "CANCELLED"}, subs'[s] # None, subs'[s].status = st
    PROVE  L!Mark(s)
<1>1. Justifies(s, st)
  <2>1. Justifies(s, subs[s].status)'
    BY DEF IInv, StatusIsJustified, IsRow
  <2>2. QED
    BY <2>1 DEF Justifies, HasPaid, HasFailed, HasRecord, WasAuthorized, ChargesFor,
                Agreements, PaymentsOf
<1>2. L!MayBecome(s, st)
  BY <1>1, ReasonsAgree DEF IInv
<1>3. accountOf[s] # None
  BY Views DEF accountOf, IInv, TypeOK
<1>4. accountOf' = [accountOf EXCEPT ![s] = st]
  <2>1. AccountOf(subs'[s]) = st
    BY Views DEF IInv, TypeOK
  <2>2. QED BY <2>1, AccountWritten
<1>5. QED BY <1>2, <1>3, <1>4, SameViews DEF L!Mark, L!evidence

-----------------------------------------------------------------------------
\* Every step of Billing is one step of the ledger, or none.
LEMMA LedgerStep == ASSUME IInv, IInv', Next PROVE [L!Next]_<<L!ledger, L!evidence>>
<1> USE DEF gateway
<1> TypeOK /\ TypeOK' BY DEF IInv
<1> Grows BY GrowStep
<1>1. CASE UNCHANGED tables
  BY <1>1, OutsideHappens DEF L!Next
<1>2. ASSUME NEW r \in Requests, WriteSubscription(r)
      PROVE  [L!Next]_<<L!ledger, L!evidence>>
  <2>1. CASE request[r].sub # None
    <3>1. PICK s \in Subscriptions : s = request[r].sub /\ subs[s] \in SubscriptionRow
      BY <1>2, <2>1, EnrolHandler DEF WriteSubscription
    <3>2. PICK row : row = TakenOver(subs[s], request[r].ask.payer)
      OBVIOUS
    <3>3. row \in SubscriptionRow /\ row.status = subs[s].status
      <4>1. request[r].ask.payer \in Users
        BY <1>2, EnrolHandler DEF WriteSubscription, Checkout
      <4>2. QED BY <3>1, <3>2, <4>1 DEF TakenOver, SubscriptionRow
    <3>4. AccountOf(subs'[s]) = AccountOf(subs[s]) /\ \A t \in Subscriptions : t # s => subs'[t] = subs[t]
      <4>1. subs' = [subs EXCEPT ![s] = row]
        BY <1>2, <2>1, <3>1, <3>2 DEF WriteSubscription
      <4>2. QED BY <3>1, <3>3, <4>1, NullAssumption DEF AccountOf, TypeOK
    <3>5. accountOf' = accountOf
      BY <3>4 DEF accountOf
    <3>6. QED BY <1>2, <3>5, SameViews DEF WriteSubscription, L!ledger, L!evidence
  <2>2. CASE request[r].sub = None
    <3>1. PICK s \in Subscriptions :
            subs[s] = None /\ subs' = [subs EXCEPT ![s] = NewSubscription(request[r].ask)]
      BY <1>2, <2>2 DEF WriteSubscription
    <3>2. AccountOf(NewSubscription(request[r].ask)) = "PENDING"
      <4>1. NewSubscription(request[r].ask) \in SubscriptionRow
        BY <1>2, EnrolHandler DEF WriteSubscription, NewSubscription, SubscriptionRow,
                                  SubscriptionStatus, Checkout
      <4>2. QED BY <4>1, NullAssumption DEF AccountOf, NewSubscription
    <3>3. subs'[s] = NewSubscription(request[r].ask) /\ \A t \in Subscriptions : t # s => subs'[t] = subs[t]
      BY <3>1 DEF TypeOK
    <3>4. accountOf' = [accountOf EXCEPT ![s] = "PENDING"]
      BY <3>2, <3>3, AccountWritten
    <3>5. accountOf[s] = None
      BY <3>1 DEF accountOf, AccountOf
    <3>6. L!Open(s)
      BY <1>2, <3>4, <3>5, SameViews DEF WriteSubscription, L!Open, L!evidence
    <3>7. QED BY <3>6 DEF L!Next
  <2>3. QED BY <2>1, <2>2
<1>3. ASSUME NEW r \in Requests, GeneratePayments(r)
      PROVE  \E s \in Subscriptions : L!Book(s)
  <2> DEFINE s == request[r].sub
             months == 0 .. Duration[request[r].ask.plan] - 1
  <2>1. s \in Subscriptions /\ subs[s] # None
    BY <1>3, EnrolHandler, NullAssumption DEF GeneratePayments, At
  <2>2. PICK start \in Starts, rows \in Schedules(Duration[request[r].ask.plan]) :
          pays' = [p \in Payments |->
                     IF \E i \in months : rows[i] = p
                     THEN Installment(s, request[r].ask.payer, start,
                                      CHOOSE i \in months : rows[i] = p)
                     ELSE pays[p]]
    BY <1>3 DEF GeneratePayments
  <2>3. \A p \in Payments : (\E i \in months : rows[i] = p) => pays[p] = None
    BY <2>2 DEF Schedules
  <2>4. ASSUME NEW p \in Payments, pays'[p] # pays[p]
        PROVE  pays[p] = None /\ pays'[p] # None /\ IsUnpaid(s, pays'[p])
    <3>1. PICK i \in months : pays'[p] = Installment(s, request[r].ask.payer, start, i) /\ pays[p] = None
      BY <2>2, <2>3, <2>4
    <3>2. pays'[p] # None
      <4>1. pays'[p] \in PaymentRow \cup {None}
        BY DEF TypeOK
      <4>2. QED BY <1>3, <2>4, <3>1
    <3>3. QED BY <3>1, <3>2 DEF Installment, Unpaid, IsUnpaid
  <2>5. QED BY <1>3, <2>1, <2>4, UnpaidAreBooked DEF GeneratePayments
<1>4. ASSUME NEW r \in Requests, CreatePayment(r)
      PROVE  \E s \in Subscriptions : L!Book(s)
  <2>1. PICK p \in Payments, s \in Subscriptions, u \in Users, due \in LinkDues :
          pays[p] = None /\ subs[s] # None /\ pays' = [pays EXCEPT ![p] = Unpaid(s, u, due, None)]
    BY <1>4 DEF CreatePayment
  <2>2. ASSUME NEW q \in Payments, pays'[q] # pays[q]
        PROVE  pays[q] = None /\ pays'[q] # None /\ IsUnpaid(s, pays'[q])
    BY <2>1, <2>2 DEF Unpaid, IsUnpaid, TypeOK
  <2>3. QED BY <1>4, <2>1, <2>2, UnpaidAreBooked DEF CreatePayment
<1>5. ASSUME NEW r \in Requests, RecordPayment(r)
      PROVE  \E p \in Payments, c \in Charges : L!Settle(p, c)
  <2> DEFINE st == MapMercadoPagoStatus(request[r].raw)
  <2>1. PICK p \in Payments, c \in Charges :
          /\ p = request[r].pay /\ c = request[r].external
          /\ pays[p] \in PaymentRow
          /\ charges[c] \in ChargeObject
          /\ request[r].raw \in charges[c].seen
          /\ charges[c].reference \in {p, pays[p].subscription}
    BY <1>5, PaymentHandler DEF RecordPayment, Reference, At, TypeOK
  <2>2. st \in PaymentStatus /\ charges[c].seen \cap L!Means(st) # {}
    <3>1. request[r].raw \in ChargeStatus
      BY <2>1 DEF ChargeObject
    <3>2. QED BY <2>1, <3>1 DEF MapMercadoPagoStatus, PaymentStatus, L!Means, ChargeStatus
  <2>3. /\ pays'[p] \in PaymentRow
        /\ pays'[p].subscription = pays[p].subscription
        /\ pays'[p].externalId = c
        /\ pays'[p].status = st
    BY <1>5, <2>1, <2>2, RecordedTyped DEF RecordPayment, TypeOK
  <2>4. \A q \in Payments : q # p => pays'[q] = pays[q]
    BY <1>5, <2>1 DEF RecordPayment, TypeOK
  <2>5. entryOf' = [entryOf EXCEPT ![p] = [account |-> @.account, status |-> st, charge |-> c]]
    <3>1. entryOf[p] = [account |-> pays[p].subscription, status |-> pays[p].status,
                        charge |-> pays[p].externalId]
      BY <2>1, NullAssumption DEF entryOf, EntryOf
    <3>2. EntryOf(pays'[p]) = [account |-> pays[p].subscription, status |-> st, charge |-> c]
      BY <2>3, NullAssumption DEF EntryOf
    <3>3. entryOf' = [entryOf EXCEPT ![p] = EntryOf(pays'[p])]
      BY <2>4, EntryWritten
    <3>4. QED BY <3>1, <3>2, <3>3
  <2>6. entryOf[p] # None /\ entryOf[p].account = pays[p].subscription
    BY <2>1, Views, NullAssumption DEF entryOf
  <2>7. chargeOf[c] # None /\ chargeOf[c].reference = charges[c].reference /\ chargeOf[c].seen = charges[c].seen
    BY <2>1, Views, NullAssumption DEF chargeOf
  <2>8. L!Settle(p, c)
    BY <1>5, <2>1, <2>2, <2>5, <2>6, <2>7, SameViews
       DEF RecordPayment, L!Settle, L!evidence, PaymentStatus
  <2>9. QED BY <2>8
<1>6. ASSUME NEW r \in Requests, CancelRow(r)
      PROVE  \E s \in Subscriptions : L!Mark(s)
  <2>1. PICK s \in Subscriptions : s = request[r].sub /\ subs[s] \in SubscriptionRow
    BY <1>6, CancelHandler, IdAssumption
       DEF CancelRow, IInv, InFlight, RequestFacts, CancelFacts, At, TypeOK, RequestState
  <2>2. subs'[s] = [subs[s] EXCEPT !.status = "CANCELLED"] /\ \A t \in Subscriptions : t # s => subs'[t] = subs[t]
    BY <1>6, <2>1 DEF CancelRow, TypeOK
  <2>3. subs'[s] # None /\ subs'[s].status = "CANCELLED"
    <3>1. [subs[s] EXCEPT !.status = "CANCELLED"] \in SubscriptionRow
      BY <2>1, SubscriptionUpdates DEF SubscriptionStatus
    <3>2. QED BY <2>1, <2>2, <3>1, NullAssumption DEF SubscriptionRow
  <2>4. QED BY <1>6, <2>1, <2>2, <2>3, StatusMarked, NullAssumption DEF CancelRow
<1>7. ASSUME NEW r \in Requests, MarkSubscription(r)
      PROVE  \E s \in Subscriptions : L!Mark(s)
  <2> DEFINE st == StatusAfterPayment(MapMercadoPagoStatus(request[r].raw))
  <2>1. PICK s \in Subscriptions : s = pays[request[r].pay].subscription /\ subs[s] \in SubscriptionRow
    BY <1>7, PaymentHandler, SubscriptionOfPayment DEF MarkSubscription, At
  <2>2. st \in {"ACTIVE", "PAST_DUE", "CANCELLED"}
    BY DEF StatusAfterPayment
  <2>3. subs'[s] = [subs[s] EXCEPT !.status = st] /\ \A t \in Subscriptions : t # s => subs'[t] = subs[t]
    BY <1>7, <2>1 DEF MarkSubscription, TypeOK
  <2>4. subs'[s] # None /\ subs'[s].status = st
    <3>1. [subs[s] EXCEPT !.status = st] \in SubscriptionRow
      BY <2>1, <2>2, SubscriptionUpdates DEF SubscriptionStatus
    <3>2. QED BY <2>1, <2>3, <3>1, NullAssumption DEF SubscriptionRow
  <2>5. QED BY <1>7, <2>1, <2>2, <2>3, <2>4, StatusMarked, NullAssumption DEF MarkSubscription
<1>8. ASSUME NEW r \in Requests, SyncSubscription(r)
      PROVE  \E s \in Subscriptions : L!Mark(s)
  <2> DEFINE st == StatusAfterPreapproval(request[r].raw)
             a == request[r].external
  <2>1. a \in Preapprovals
    BY <1>8, PreapprovalHandler DEF SyncSubscription
  <2>2. PICK s \in Subscriptions : s = preapprovals[a].reference /\ subs[s] \in SubscriptionRow
    BY <1>8, PreapprovalHandler DEF SyncSubscription
  <2>3. st \in {"ACTIVE", "PAST_DUE", "CANCELLED"}
    BY DEF StatusAfterPreapproval
  <2>4. /\ subs'[s] = [subs[s] EXCEPT !.status = st, !.externalId = a]
        /\ \A t \in Subscriptions : t # s => subs'[t] = subs[t]
    BY <1>8, <2>2 DEF SyncSubscription, TypeOK
  <2>5. subs'[s] # None /\ subs'[s].status = st
    <3>1. [subs[s] EXCEPT !.status = st, !.externalId = a] \in SubscriptionRow
      BY <2>1, <2>2, <2>3 DEF SubscriptionStatus, SubscriptionRow
    <3>2. QED BY <2>2, <2>4, <3>1, NullAssumption DEF SubscriptionRow
  <2>6. QED BY <1>8, <2>2, <2>3, <2>4, <2>5, StatusMarked, NullAssumption DEF SyncSubscription
<1>9. QED
  BY <1>1, <1>2, <1>3, <1>4, <1>5, <1>6, <1>7, <1>8
     DEF Next, EnrollingStep, WebhookStep, GatewayStep, FindSubscription, CountPayments,
         OpenPreapproval, OpenLink, FindCancelled, CancelPreapproval, FetchCharge,
         LocatePayment, FetchPreapproval, Abort, Stop, PayLink, ChargePreapproval, MoveCharge,
         MovePreapproval, tables, L!Next

\* For every value of the constants, Billing implements Ledger.
THEOREM LedgerIsKept == Spec => KeepsLedger
<1>1. Init => L!Init
  BY DEF Init, L!Init, accountOf, entryOf, chargeOf, contractOf, AccountOf, EntryOf, EvidenceOf
<1>2. IInv /\ IInv' /\ [Next]_vars => [L!Next]_<<L!ledger, L!evidence>>
  <2>1. ASSUME UNCHANGED vars PROVE UNCHANGED <<L!ledger, L!evidence>>
    BY <2>1, SameViews DEF vars, L!ledger, L!evidence
  <2>2. QED BY <2>1, LedgerStep
<1>3. QED BY <1>1, <1>2, Invariance, PTL DEF Spec, KeepsLedger, L!Spec
=============================================================================

--------------------------- MODULE BillingProofs ---------------------------
(***************************************************************************)
(* Billing keeps IInv, and so its safety properties, for every value of    *)
(* the constants.  The proof has three parts.  A step keeps types (given   *)
(* what the requests in flight rely on); a step only adds rows, objects    *)
(* and history (Grows); and from Grows each conjunct of IInv follows for   *)
(* what the step leaves alone, so that only the writers need an argument.  *)
(***************************************************************************)
EXTENDS BillingInvariant, TLAPS

-----------------------------------------------------------------------------
(***************************************************************************)
(* What a schedule of monthly dates can look like, for every start and     *)
(* every length.                                                           *)
(***************************************************************************)
LEMMA MonthLengths == \A month \in Nat : DaysIn(month) \in {28, 29, 30, 31}
  BY DEF DaysIn

LEMMA StampRange ==
  ASSUME NEW date \in [month : Nat, day : 1 .. 31]
  PROVE  Stamp(date) \in Nat /\ MonthOf(Stamp(date)) = date.month
  BY DEF Stamp, MonthOf

\* setMonth always gives a date that exists.
THEOREM SetMonthIsADate == \A date \in Dates, n \in Nat : SetMonth(date, n) \in Dates
<1> SUFFICES ASSUME NEW date \in Dates, NEW n \in Nat PROVE SetMonth(date, n) \in Dates
  OBVIOUS
<1> DEFINE month == date.month + n
<1>1. month \in Nat /\ month + 1 \in Nat /\ date.day \in 1 .. 31
  BY DEF Dates
<1>2. DaysIn(month) \in {28, 29, 30, 31} /\ DaysIn(month + 1) \in {28, 29, 30, 31}
  BY <1>1, MonthLengths
<1> QED
  BY <1>1, <1>2 DEF SetMonth, Dates

\* A start that every month has gives exactly one date in each month.
THEOREM OneDateAMonth ==
  ASSUME NEW date \in Dates, date.day <= 28, NEW n \in Nat
  PROVE  MonthOf(Stamp(SetMonth(date, n))) = date.month + n
<1>1. date.month + n \in Nat /\ date.day \in 1 .. 31
  BY DEF Dates
<1>2. date.day <= DaysIn(date.month + n)
  BY <1>1, MonthLengths
<1>3. SetMonth(date, n) = [month |-> date.month + n, day |-> date.day]
  BY <1>2 DEF SetMonth
<1> QED
  BY <1>1, <1>3, StampRange

\* A start late in the month spills into the first three days of the month
\* after, and no further.
THEOREM SpillIsShort ==
  ASSUME NEW date \in Dates, NEW n \in Nat, SetMonth(date, n).month # date.month + n
  PROVE  /\ date.day > 28
         /\ SetMonth(date, n).month = date.month + n + 1
         /\ SetMonth(date, n).day <= 3
<1>1. date.month + n \in Nat /\ date.day \in 1 .. 31
  BY DEF Dates
<1>2. DaysIn(date.month + n) \in {28, 29, 30, 31}
  BY <1>1, MonthLengths
<1> QED
  BY <1>1, <1>2 DEF SetMonth

\* The dates of a schedule never go back, nor fall on the same day.
THEOREM DatesAdvance ==
  ASSUME NEW date \in Dates, NEW i \in Nat, NEW j \in Nat, i < j
  PROVE  Stamp(SetMonth(date, i)) < Stamp(SetMonth(date, j))
<1> DEFINE m == date.month + i
           k == date.month + j
<1>1. /\ m \in Nat /\ k \in Nat /\ m + 1 <= k
      /\ date.day \in 1 .. 31
  BY DEF Dates
<1>2. DaysIn(m) \in {28, 29, 30, 31} /\ DaysIn(k) \in {28, 29, 30, 31}
  BY <1>1, MonthLengths
<1>3. date.day - DaysIn(m) < date.day /\ date.day - DaysIn(k) >= 1 - 31
  BY <1>1, <1>2
<1>4. \/ SetMonth(date, i) = [month |-> m, day |-> date.day]
      \/ SetMonth(date, i) = [month |-> m + 1, day |-> date.day - DaysIn(m)] /\ date.day > DaysIn(m)
  BY <1>1, <1>2 DEF SetMonth
<1>5. \/ SetMonth(date, j) = [month |-> k, day |-> date.day] /\ date.day <= DaysIn(k)
      \/ SetMonth(date, j) = [month |-> k + 1, day |-> date.day - DaysIn(k)] /\ date.day > DaysIn(k)
  BY <1>1, <1>2 DEF SetMonth
<1>6. CASE SetMonth(date, i) = [month |-> m, day |-> date.day]
  BY <1>1, <1>2, <1>5, <1>6 DEF Stamp
<1>7. CASE SetMonth(date, i) = [month |-> m + 1, day |-> date.day - DaysIn(m)] /\ date.day > DaysIn(m)
  BY <1>1, <1>2, <1>5, <1>7 DEF Stamp
<1> QED
  BY <1>4, <1>6, <1>7

-----------------------------------------------------------------------------
\* A slot with nothing to do is a request state.
LEMMA IdleIsARequest == Idle \in RequestState
BY DEF Idle, RequestState, Waits

\* Moving one request to a request state keeps the type of `request`.
LEMMA BecomeTyped ==
    ASSUME request \in [Requests -> RequestState], NEW r \in Requests,
           NEW state \in RequestState, Become(r, state)
    PROVE  request' \in [Requests -> RequestState]
BY DEF Become

\* So does moving it to another await,
LEMMA GoToTyped ==
    ASSUME request \in [Requests -> RequestState], NEW r \in Requests,
           NEW place \in Waits, GoTo(r, place)
    PROVE  request' \in [Requests -> RequestState]
<1>1. [request[r] EXCEPT !.at = place] \in RequestState
  BY DEF RequestState
<1>2. QED BY <1>1, BecomeTyped DEF GoTo

\* and ending it.
LEMMA FinishTyped ==
    ASSUME request \in [Requests -> RequestState], NEW r \in Requests, Finish(r)
    PROVE  request' \in [Requests -> RequestState]
BY IdleIsARequest, BecomeTyped DEF Finish

\* Reported keeps the reference of an object of the gateway and adds to its history.
LEMMA ReportedTyped ==
    /\ \A o \in ChargeObject, st \in ChargeStatus :
         /\ Reported(o, st) \in ChargeObject
         /\ Reported(o, st).reference = o.reference
         /\ Reported(o, st).status = st
         /\ Reported(o, st).seen = o.seen \cup {st}
    /\ \A o \in PreapprovalObject, st \in PreStatus :
         /\ Reported(o, st) \in PreapprovalObject
         /\ Reported(o, st).reference = o.reference
         /\ Reported(o, st).status = st
         /\ Reported(o, st).seen = o.seen \cup {st}
BY DEF Reported, ChargeObject, PreapprovalObject

\* Recorded keeps the subscription of a payment and sets the other three columns.
LEMMA RecordedTyped ==
    \A row \in PaymentRow, st \in PaymentStatus, c \in Charges :
        /\ Recorded(row, st, c) \in PaymentRow
        /\ Recorded(row, st, c).subscription = row.subscription
        /\ Recorded(row, st, c).status = st
        /\ Recorded(row, st, c).externalId = c
        /\ Recorded(row, st, c).paidAt # None <=> st = "COMPLETED"
<1> TAKE row \in PaymentRow, st \in PaymentStatus, c \in Charges
<1> DEFINE t == IF st = "COMPLETED" THEN "set" ELSE None
<1>1. t \in {None, "set"} /\ (t # None <=> st = "COMPLETED")
  BY NullAssumption
<1> HIDE DEF t
<1>2. PICK new : new = [row EXCEPT !.status = st, !.externalId = c, !.paidAt = t]
  OBVIOUS
<1>3. /\ new \in PaymentRow
      /\ new.subscription = row.subscription
      /\ new.status = st /\ new.externalId = c /\ new.paidAt = t
  BY <1>1, <1>2 DEF PaymentRow
<1>4. new = Recorded(row, st, c)
  BY <1>2 DEF Recorded, t
<1>5. QED BY <1>1, <1>3, <1>4

\* subscription.update({status}) keeps the type of the table.
LEMMA StatusTyped ==
    ASSUME subs \in [Subscriptions -> SubscriptionRow \cup {None}],
           NEW s \in Subscriptions, subs[s] # None, NEW st \in SubscriptionStatus
    PROVE  [subs EXCEPT ![s].status = st] \in [Subscriptions -> SubscriptionRow \cup {None}]
<1>1. subs[s] \in SubscriptionRow
  OBVIOUS
<1>2. [subs[s] EXCEPT !.status = st] \in SubscriptionRow
  BY <1>1 DEF SubscriptionRow
<1>3. QED BY <1>2

\* Every step keeps the types: what it updates is there, as InFlight says.
LEMMA TypeStep == ASSUME IInv, Next PROVE TypeOK'
<1> USE DEF IInv, tables, gateway
<1>0. request \in [Requests -> RequestState]
  BY DEF TypeOK
<1>1. ASSUME NEW r \in Requests, FindSubscription(r) PROVE TypeOK'
  <2>1. PICK ask \in Checkouts, found \in Subscriptions \cup {None} :
            Become(r, [Idle EXCEPT !.at = "write", !.ask = ask, !.sub = found])
    BY <1>1 DEF FindSubscription, Current
  <2>2. [Idle EXCEPT !.at = "write", !.ask = ask, !.sub = found] \in RequestState
    BY AskAssumption DEF Idle, RequestState, Waits
  <2>3. QED BY <1>0, <1>1, <2>1, <2>2, BecomeTyped DEF FindSubscription, TypeOK
<1>2. ASSUME NEW r \in Requests, WriteSubscription(r) PROVE TypeOK'
  <2>1. request[r].ask \in Checkout /\ "count" \in Waits
    BY <1>2, AskAssumption
       DEF WriteSubscription, TakenOver, At, InFlight, RequestFacts, EnrolFacts, Enrolling, Waits
  <2>2. CASE request[r].sub # None
    <3>1. request[r].sub \in Subscriptions /\ subs[request[r].sub] \in SubscriptionRow
      BY <1>2, <2>2
         DEF WriteSubscription, TakenOver, At, InFlight, RequestFacts, EnrolFacts, Enrolling, TypeOK, RequestState
    <3>2. [subs[request[r].sub] EXCEPT !.payer = request[r].ask.payer] \in SubscriptionRow
      BY <2>1, <3>1 DEF SubscriptionRow, Checkout
    <3>3. QED BY <1>0, <1>2, <2>1, <2>2, <3>1, <3>2, GoToTyped DEF WriteSubscription, TakenOver, TypeOK
  <2>3. CASE request[r].sub = None
    <3>1. NewSubscription(request[r].ask) \in SubscriptionRow
      BY <2>1 DEF NewSubscription, SubscriptionRow, SubscriptionStatus, Checkout
    <3>2. \A s \in Subscriptions : [request[r] EXCEPT !.at = "count", !.sub = s] \in RequestState
      BY <1>0, <2>1 DEF RequestState
    <3>3. QED BY <1>0, <1>2, <2>3, <3>1, <3>2, BecomeTyped DEF WriteSubscription, TakenOver, TypeOK
  <2>4. QED BY <2>2, <2>3
<1>3. ASSUME NEW r \in Requests, CountPayments(r) PROVE TypeOK'
  <2>1. AfterCount(request[r].sub) \in Waits
    BY DEF AfterCount, Waits
  <2>2. QED BY <1>0, <1>3, <2>1, GoToTyped DEF CountPayments, TypeOK
<1>4. ASSUME NEW r \in Requests, GeneratePayments(r) PROVE TypeOK'
  <2>1. request' \in [Requests -> RequestState]
    <3>1. "preapprove" \in Waits BY DEF Waits
    <3>2. QED BY <1>0, <1>4, <3>1, GoToTyped DEF GeneratePayments
  <2>2. pays' \in [Payments -> PaymentRow \cup {None}]
    <3> DEFINE months == 0 .. Duration[request[r].ask.plan] - 1
    <3>1. request[r].ask \in Checkout /\ request[r].sub \in Subscriptions
      BY <1>4, AskAssumption
         DEF GeneratePayments, At, InFlight, RequestFacts, EnrolFacts, Enrolling, TypeOK, RequestState
    <3>2. months \subseteq Nat
      BY <3>1, DurationAssumption DEF Checkout
    <3>3. \A start \in Starts, i \in months :
            Installment(request[r].sub, request[r].ask.payer, start, i) \in PaymentRow
      <4> SUFFICES ASSUME NEW start \in Starts, NEW i \in months
                   PROVE  Installment(request[r].sub, request[r].ask.payer, start, i) \in PaymentRow
        OBVIOUS
      <4>1. i \in Nat /\ Stamp(SetMonth(start, i)) \in Nat
        BY <3>2, AskAssumption, SetMonthIsADate, StampRange DEF Dates
      <4>2. QED BY <3>1, <4>1 DEF Installment, Unpaid, PaymentRow, PaymentStatus, Checkout
    <3>4. PICK start \in Starts, rows \in Schedules(Duration[request[r].ask.plan]) :
            pays' = [p \in Payments |->
                       IF \E i \in months : rows[i] = p
                       THEN Installment(request[r].sub, request[r].ask.payer, start,
                                        CHOOSE i \in months : rows[i] = p)
                       ELSE pays[p]]
      BY <1>4 DEF GeneratePayments
    <3>5. ASSUME NEW p \in Payments PROVE pays'[p] \in PaymentRow \cup {None}
      <4>1. CASE \E i \in months : rows[i] = p
        <5>1. (CHOOSE i \in months : rows[i] = p) \in months
          BY <4>1
        <5>2. QED BY <3>3, <3>4, <4>1, <5>1
      <4>2. CASE ~ \E i \in months : rows[i] = p
        BY <3>4, <4>2 DEF TypeOK
      <4>3. QED BY <4>1, <4>2
    <3>6. QED BY <3>4, <3>5
  <2>3. QED BY <1>4, <2>1, <2>2 DEF GeneratePayments, TypeOK
<1>5. ASSUME NEW r \in Requests, OpenPreapproval(r) PROVE TypeOK'
  <2>1. request' \in [Requests -> RequestState]
    BY <1>0, <1>5, FinishTyped DEF OpenPreapproval
  <2>2. QED
  BY <1>5, <2>1
     DEF OpenPreapproval, TypeOK, At, RequestState, PreapprovalObject, PreStatus, InFlight, RequestFacts, EnrolFacts, Enrolling
<1>6. ASSUME NEW r \in Requests, CreatePayment(r) PROVE TypeOK'
  <2>1. PICK p \in Payments, s \in Subscriptions, u \in Users, due \in LinkDues :
             /\ pays' = [pays EXCEPT ![p] = Unpaid(s, u, due, None)]
             /\ Become(r, [Idle EXCEPT !.at = "link", !.pay = p])
    BY <1>6 DEF CreatePayment
  <2>2. [Idle EXCEPT !.at = "link", !.pay = p] \in RequestState
    BY DEF Idle, RequestState, Waits
  <2>3. Unpaid(s, u, due, None) \in PaymentRow
    BY AskAssumption DEF Unpaid, PaymentRow, PaymentStatus
  <2>4. QED BY <1>0, <1>6, <2>1, <2>2, <2>3, BecomeTyped DEF CreatePayment, TypeOK
<1>7. ASSUME NEW r \in Requests, OpenLink(r) PROVE TypeOK'
  BY <1>0, <1>7, FinishTyped
     DEF OpenLink, TypeOK, At, RequestState, InFlight, RequestFacts, EnrolFacts, Enrolling
<1>8. ASSUME NEW r \in Requests, FindCancelled(r) PROVE TypeOK'
  <2>1. PICK s \in Subscriptions :
             /\ subs[s] # None
             /\ cancelAsked' = cancelAsked \cup {s}
             /\ Become(r, [Idle EXCEPT !.at = CancelRoute(subs[s].externalId),
                                       !.sub = s, !.external = subs[s].externalId])
    BY <1>8 DEF FindCancelled
  <2>2. CancelRoute(subs[s].externalId) \in Waits
    BY DEF CancelRoute, Waits
  <2>3. subs[s].externalId \in Preapprovals \cup {None}
    BY <2>1 DEF TypeOK, SubscriptionRow
  <2>4. [Idle EXCEPT !.at = CancelRoute(subs[s].externalId),
                     !.sub = s, !.external = subs[s].externalId] \in RequestState
    BY <2>2, <2>3 DEF Idle, RequestState
  <2>5. QED BY <1>0, <1>8, <2>1, <2>4, BecomeTyped DEF FindCancelled, TypeOK
<1>9. ASSUME NEW r \in Requests, CancelPreapproval(r) PROVE TypeOK'
  <2>1. request' \in [Requests -> RequestState]
    <3>1. "cancelrow" \in Waits BY DEF Waits
    <3>2. QED BY <1>0, <1>9, <3>1, GoToTyped, FinishTyped DEF CancelPreapproval
  <2>2. preapprovals' \in [Preapprovals -> PreapprovalObject \cup {None}]
    <3>1. "cancelled" \in PreStatus BY DEF PreStatus
    <3>2. QED BY <1>9, <3>1, ReportedTyped
       DEF CancelPreapproval, At, TypeOK, InFlight, RequestFacts, CancelFacts
  <2>3. QED BY <1>9, <2>1, <2>2 DEF CancelPreapproval, TypeOK
<1>10. ASSUME NEW r \in Requests, CancelRow(r) PROVE TypeOK'
  <2>1. request[r].sub \in Subscriptions /\ subs[request[r].sub] # None /\ "CANCELLED" \in SubscriptionStatus
    BY <1>10 DEF CancelRow, At, InFlight, RequestFacts, CancelFacts, TypeOK, RequestState, SubscriptionStatus
  <2>2. QED BY <1>0, <1>10, <2>1, FinishTyped, StatusTyped DEF CancelRow, TypeOK
<1>11. ASSUME NEW r \in Requests, FetchCharge(r) PROVE TypeOK'
  <2>1. PICK c \in Charges :
             /\ charges[c] # None
             /\ Become(r, [Idle EXCEPT !.at = "locate", !.external = c, !.raw = charges[c].status])
    BY <1>11 DEF FetchCharge
  <2>2. charges[c].status \in ChargeStatus
    BY <2>1 DEF TypeOK, ChargeObject
  <2>3. [Idle EXCEPT !.at = "locate", !.external = c, !.raw = charges[c].status] \in RequestState
    BY <2>2 DEF Idle, RequestState, Waits
  <2>4. QED BY <1>0, <1>11, <2>1, <2>3, BecomeTyped DEF FetchCharge, TypeOK
<1>12. ASSUME NEW r \in Requests, LocatePayment(r) PROVE TypeOK'
  <2>1. \/ Finish(r)
        \/ \E p \in Payments : Become(r, [request[r] EXCEPT !.at = "record", !.pay = p])
    BY <1>12 DEF LocatePayment, IsSingle, OldestPending, PaymentsOf
  <2>2. \A q \in RequestState, p \in Payments : [q EXCEPT !.at = "record", !.pay = p] \in RequestState
    BY DEF RequestState, Waits
  <2>3. QED BY <1>0, <1>12, <2>1, <2>2, BecomeTyped, FinishTyped DEF LocatePayment, TypeOK
<1>13. ASSUME NEW r \in Requests, RecordPayment(r) PROVE TypeOK'
  <2>1. request' \in [Requests -> RequestState]
    <3>1. "mark" \in Waits BY DEF Waits
    <3>2. QED BY <1>0, <1>13, <3>1, GoToTyped, FinishTyped DEF RecordPayment
  <2>2. MapMercadoPagoStatus(request[r].raw) \in PaymentStatus
    BY DEF MapMercadoPagoStatus, PaymentStatus
  <2>4. request[r].pay \in Payments /\ pays[request[r].pay] \in PaymentRow /\ request[r].external \in Charges
    BY <1>13 DEF RecordPayment, At, InFlight, RequestFacts, ChargeFacts, TypeOK, RequestState
  <2>5. QED BY <1>13, <2>1, <2>2, <2>4, RecordedTyped DEF RecordPayment, TypeOK
<1>14. ASSUME NEW r \in Requests, MarkSubscription(r) PROVE TypeOK'
  <2>1. request[r].pay \in Payments /\ pays[request[r].pay] \in PaymentRow
    BY <1>14 DEF MarkSubscription, At, InFlight, RequestFacts, ChargeFacts, TypeOK, RequestState
  <2>2. /\ pays[request[r].pay].subscription \in Subscriptions
        /\ subs[pays[request[r].pay].subscription] # None
    BY <1>14, <2>1 DEF MarkSubscription, At, InFlight, RequestFacts, ChargeFacts, Referential, IsRow, PaymentRow
  <2>3. StatusAfterPayment(MapMercadoPagoStatus(request[r].raw)) \in SubscriptionStatus
    BY DEF StatusAfterPayment, SubscriptionStatus
  <2>4. QED BY <1>0, <1>14, <2>2, <2>3, FinishTyped, StatusTyped DEF MarkSubscription, TypeOK
<1>15. ASSUME NEW r \in Requests, FetchPreapproval(r) PROVE TypeOK'
  <2>1. PICK a \in Preapprovals :
             /\ preapprovals[a] # None
             /\ Become(r, [Idle EXCEPT !.at = "sync", !.external = a, !.raw = preapprovals[a].status])
    BY <1>15 DEF FetchPreapproval
  <2>2. preapprovals[a].status \in PreStatus
    BY <2>1 DEF TypeOK, PreapprovalObject
  <2>3. [Idle EXCEPT !.at = "sync", !.external = a, !.raw = preapprovals[a].status] \in RequestState
    BY <2>2 DEF Idle, RequestState, Waits
  <2>4. QED BY <1>0, <1>15, <2>1, <2>3, BecomeTyped DEF FetchPreapproval, TypeOK
<1>16. ASSUME NEW r \in Requests, SyncSubscription(r) PROVE TypeOK'
  <2>1. \A row \in SubscriptionRow, st \in SubscriptionStatus, a \in Preapprovals :
            [row EXCEPT !.status = st, !.externalId = a] \in SubscriptionRow
    BY DEF SubscriptionRow
  <2>2. StatusAfterPreapproval(request[r].raw) \in SubscriptionStatus
    BY DEF StatusAfterPreapproval, SubscriptionStatus
  <2>3. /\ request[r].external \in Preapprovals
        /\ preapprovals[request[r].external].reference \in Subscriptions
        /\ subs[preapprovals[request[r].external].reference] \in SubscriptionRow
    BY <1>16
       DEF SyncSubscription, At, InFlight, RequestFacts, PreapprovalFacts, Referential, TypeOK, PreapprovalObject
  <2>4. QED BY <1>0, <1>16, <2>1, <2>2, <2>3, FinishTyped DEF SyncSubscription, TypeOK
<1>17. ASSUME NEW r \in Requests, Abort(r) PROVE TypeOK'
  BY <1>0, <1>17, FinishTyped DEF Abort, TypeOK
<1>18. ASSUME NEW c \in Charges, NEW p \in Payments, PayLink(c, p) PROVE TypeOK'
  BY <1>18 DEF PayLink, NewCharge, TypeOK, ChargeObject, ChargeStatus
<1>19. ASSUME NEW c \in Charges, NEW a \in Preapprovals, ChargePreapproval(c, a) PROVE TypeOK'
  BY <1>19 DEF ChargePreapproval, NewCharge, TypeOK, ChargeObject, ChargeStatus, PreapprovalObject
<1>20. ASSUME NEW c \in Charges, MoveCharge(c) PROVE TypeOK'
  BY <1>20, ChargeMovesAssumption, ReportedTyped DEF MoveCharge, TypeOK
<1>21. ASSUME NEW a \in Preapprovals, MovePreapproval(a) PROVE TypeOK'
  BY <1>21, PreMovesAssumption, ReportedTyped DEF MovePreapproval, TypeOK
<1>22. CASE Stop
  BY <1>0, <1>22, IdleIsARequest DEF Stop, TypeOK
<1>23. QED
  BY <1>1, <1>2, <1>3, <1>4, <1>5, <1>6, <1>7, <1>8, <1>9, <1>10, <1>11, <1>12,
     <1>13, <1>14, <1>15, <1>16, <1>17, <1>18, <1>19, <1>20, <1>21, <1>22
     DEF Next, EnrollingStep, WebhookStep, GatewayStep

-----------------------------------------------------------------------------
(***************************************************************************)
(* What no step takes away.  Requests rely on it over their awaits.        *)
(***************************************************************************)
Grows ==
    /\ \A s \in Subscriptions : subs[s] # None => subs'[s] # None
    /\ \A p \in Payments : pays[p] # None =>
         /\ pays'[p] # None
         /\ pays'[p].subscription = pays[p].subscription
         /\ pays[p].externalId # None => pays'[p].externalId # None
    /\ \A c \in Charges : charges[c] # None =>
         /\ charges'[c] # None
         /\ charges'[c].reference = charges[c].reference
         /\ charges[c].seen \subseteq charges'[c].seen
    /\ \A a \in Preapprovals : preapprovals[a] # None =>
         /\ preapprovals'[a] # None
         /\ preapprovals'[a].reference = preapprovals[a].reference
         /\ preapprovals[a].seen \subseteq preapprovals'[a].seen
         /\ preapprovals[a].status = "cancelled" => preapprovals'[a].status = "cancelled"
    /\ cancelAsked \subseteq cancelAsked'

\* A step that touches no row and no object takes nothing away,
LEMMA StutterGrows ==
    ASSUME UNCHANGED <<subs, pays, charges, preapprovals>>, cancelAsked \subseteq cancelAsked'
    PROVE  Grows
BY DEF Grows

\* nor does one that only rewrites or adds subscriptions.
LEMMA SubsGrow ==
    ASSUME UNCHANGED <<pays, charges, preapprovals, cancelAsked>>,
           \A s \in Subscriptions : subs[s] # None => subs'[s] # None
    PROVE  Grows
BY DEF Grows

\* The three updates of a Subscription row give a row.
LEMMA SubscriptionUpdates ==
    \A row \in SubscriptionRow :
        /\ \A u \in Users : [row EXCEPT !.payer = u] \in SubscriptionRow
        /\ \A st \in SubscriptionStatus :
             /\ [row EXCEPT !.status = st] \in SubscriptionRow
             /\ \A a \in Preapprovals :
                  [row EXCEPT !.status = st, !.externalId = a] \in SubscriptionRow
BY DEF SubscriptionRow

\* The requests at work on a row know that it is there.
LEMMA SubscriptionOfPayment ==
    ASSUME IInv, NEW p \in Payments, pays[p] # None
    PROVE  /\ pays[p] \in PaymentRow
           /\ pays[p].subscription \in Subscriptions
           /\ subs[pays[p].subscription] \in SubscriptionRow
<1>1. pays[p] \in PaymentRow
  BY DEF IInv, TypeOK
<1>2. pays[p].subscription \in Subscriptions /\ subs[pays[p].subscription] # None
  BY <1>1 DEF IInv, Referential, IsRow, PaymentRow
<1>3. QED BY <1>1, <1>2 DEF IInv, TypeOK

\* What a payment handler knows after its fetch, and after it located the payment.
LEMMA PaymentHandler ==
    ASSUME IInv, NEW r \in Requests, At(r, "locate") \/ At(r, "record") \/ At(r, "mark")
    PROVE  /\ request[r].external \in Charges
           /\ charges[request[r].external] \in ChargeObject
           /\ request[r].raw \in charges[request[r].external].seen
           /\ ~At(r, "locate") => /\ request[r].pay \in Payments
                                  /\ pays[request[r].pay] # None
                                  /\ Reference(r) \in {request[r].pay, pays[request[r].pay].subscription}
BY DEF IInv, At, InFlight, RequestFacts, ChargeFacts, TypeOK, RequestState, Reference

\* What a preapproval handler knows after its fetch.
LEMMA PreapprovalHandler ==
    ASSUME IInv, NEW r \in Requests, At(r, "sync")
    PROVE  /\ request[r].external \in Preapprovals
           /\ preapprovals[request[r].external] \in PreapprovalObject
           /\ request[r].raw \in preapprovals[request[r].external].seen
           /\ preapprovals[request[r].external].reference \in Subscriptions
           /\ subs[preapprovals[request[r].external].reference] \in SubscriptionRow
<1>1. /\ request[r].external \in Preapprovals
      /\ preapprovals[request[r].external] \in PreapprovalObject
      /\ request[r].raw \in preapprovals[request[r].external].seen
  BY DEF IInv, At, InFlight, RequestFacts, PreapprovalFacts, TypeOK
<1>2. /\ preapprovals[request[r].external].reference \in Subscriptions
      /\ subs[preapprovals[request[r].external].reference] # None
  BY <1>1, NullAssumption DEF IInv, Referential, PreapprovalObject
<1>3. QED BY <1>1, <1>2 DEF IInv, TypeOK

\* What cancelSubscription knows after its findUnique.
LEMMA CancelHandler ==
    ASSUME IInv, NEW r \in Requests, At(r, "cancelpre") \/ At(r, "cancelrow")
    PROVE  /\ request[r].sub \in cancelAsked
           /\ subs[request[r].sub] \in SubscriptionRow
           /\ At(r, "cancelpre") => /\ request[r].external \in Preapprovals
                                    /\ preapprovals[request[r].external] \in PreapprovalObject
BY DEF IInv, At, InFlight, RequestFacts, CancelFacts, TypeOK

\* What createSubscription knows at each of its awaits.
LEMMA EnrolHandler ==
    ASSUME IInv, NEW r \in Requests,
           At(r, "write") \/ At(r, "count") \/ At(r, "generate") \/ At(r, "preapprove")
    PROVE  /\ request[r].ask \in Checkouts
           /\ request[r].ask \in Checkout
           /\ ~At(r, "write") \/ request[r].sub # None =>
                request[r].sub \in Subscriptions /\ subs[request[r].sub] \in SubscriptionRow
BY AskAssumption DEF IInv, At, InFlight, RequestFacts, EnrolFacts, Enrolling, TypeOK, RequestState

\* No step deletes a row or an object, or rewrites a reference or the past.
LEMMA GrowStep == ASSUME IInv, Next PROVE Grows
<1> USE NullAssumption DEF tables, gateway
<1> TypeOK BY DEF IInv
<1>1. ASSUME NEW r \in Requests, FindSubscription(r) PROVE Grows
  BY <1>1, StutterGrows DEF FindSubscription
<1>2. ASSUME NEW r \in Requests, WriteSubscription(r) PROVE Grows
  <2>1. request[r].sub # None => [subs[request[r].sub] EXCEPT !.payer = request[r].ask.payer] # None
    <3>1. At(r, "write") BY <1>2 DEF WriteSubscription, TakenOver
    <3>2. request[r].ask.payer \in Users
      BY <3>1, EnrolHandler DEF Checkout
    <3>3. request[r].sub # None => subs[request[r].sub] \in SubscriptionRow
      BY <3>1, EnrolHandler
    <3>4. QED BY <3>2, <3>3, SubscriptionUpdates
  <2>2. \A s \in Subscriptions : subs[s] # None => subs'[s] # None
    BY <1>2, <2>1 DEF WriteSubscription, TakenOver, TypeOK
  <2>3. QED BY <1>2, <2>2, SubsGrow DEF WriteSubscription, TakenOver
<1>3. ASSUME NEW r \in Requests, CountPayments(r) PROVE Grows
  BY <1>3, StutterGrows DEF CountPayments
<1>4. ASSUME NEW r \in Requests, GeneratePayments(r) PROVE Grows
  BY <1>4 DEF GeneratePayments, Schedules, Grows, TypeOK
<1>5. ASSUME NEW r \in Requests, OpenPreapproval(r) PROVE Grows
  BY <1>5 DEF OpenPreapproval, Grows, TypeOK
<1>6. ASSUME NEW r \in Requests, CreatePayment(r) PROVE Grows
  BY <1>6 DEF CreatePayment, Grows, TypeOK
<1>7. ASSUME NEW r \in Requests, OpenLink(r) PROVE Grows
  BY <1>7, StutterGrows DEF OpenLink
<1>8. ASSUME NEW r \in Requests, FindCancelled(r) PROVE Grows
  BY <1>8, StutterGrows DEF FindCancelled
<1>9. ASSUME NEW r \in Requests, CancelPreapproval(r) PROVE Grows
  BY <1>9, CancelHandler, ReportedTyped DEF CancelPreapproval, PreStatus, Grows, TypeOK
<1>10. ASSUME NEW r \in Requests, CancelRow(r) PROVE Grows
  <2>1. [subs[request[r].sub] EXCEPT !.status = "CANCELLED"] # None
    <3>1. subs[request[r].sub] \in SubscriptionRow /\ "CANCELLED" \in SubscriptionStatus
      BY <1>10, CancelHandler DEF CancelRow, SubscriptionStatus
    <3>2. QED BY <3>1, SubscriptionUpdates
  <2>2. QED BY <1>10, <2>1, SubsGrow DEF CancelRow, TypeOK
<1>11. ASSUME NEW r \in Requests, FetchCharge(r) PROVE Grows
  BY <1>11, StutterGrows DEF FetchCharge
<1>12. ASSUME NEW r \in Requests, LocatePayment(r) PROVE Grows
  BY <1>12, StutterGrows DEF LocatePayment
<1>13. ASSUME NEW r \in Requests, RecordPayment(r) PROVE Grows
  <2> DEFINE p == request[r].pay
  <2>1. p \in Payments /\ pays[p] \in PaymentRow /\ request[r].external \in Charges
    BY <1>13, PaymentHandler DEF RecordPayment, At, TypeOK
  <2>2. MapMercadoPagoStatus(request[r].raw) \in PaymentStatus
    BY DEF MapMercadoPagoStatus, PaymentStatus
  <2>3. /\ pays'[p] \in PaymentRow
        /\ pays'[p].subscription = pays[p].subscription
        /\ pays'[p].externalId = request[r].external
    BY <1>13, <2>1, <2>2, RecordedTyped DEF RecordPayment, TypeOK
  <2>4. \A q \in Payments : q # p => pays'[q] = pays[q]
    BY <1>13 DEF RecordPayment, TypeOK
  <2>5. request[r].external # None
    BY <2>1, IdAssumption
  <2>6. QED BY <1>13, <2>3, <2>4, <2>5 DEF RecordPayment, Grows
<1>14. ASSUME NEW r \in Requests, MarkSubscription(r) PROVE Grows
  <2> DEFINE s == pays[request[r].pay].subscription
             st == StatusAfterPayment(MapMercadoPagoStatus(request[r].raw))
  <2>1. subs[s] \in SubscriptionRow
    BY <1>14, PaymentHandler, SubscriptionOfPayment DEF MarkSubscription, At
  <2>2. st \in SubscriptionStatus
    BY DEF StatusAfterPayment, SubscriptionStatus
  <2>3. [subs[s] EXCEPT !.status = st] # None
    BY <2>1, <2>2, SubscriptionUpdates
  <2>4. QED BY <1>14, <2>3, SubsGrow DEF MarkSubscription, TypeOK
<1>15. ASSUME NEW r \in Requests, FetchPreapproval(r) PROVE Grows
  BY <1>15, StutterGrows DEF FetchPreapproval
<1>16. ASSUME NEW r \in Requests, SyncSubscription(r) PROVE Grows
  <2> DEFINE a == request[r].external
             s == preapprovals[a].reference
             st == StatusAfterPreapproval(request[r].raw)
  <2>1. st \in SubscriptionStatus
    BY DEF StatusAfterPreapproval, SubscriptionStatus
  <2>2. [subs[s] EXCEPT !.status = st, !.externalId = a] # None
    <3>1. a \in Preapprovals /\ subs[s] \in SubscriptionRow
      BY <1>16, PreapprovalHandler DEF SyncSubscription
    <3>2. [subs[s] EXCEPT !.status = st, !.externalId = a] \in SubscriptionRow
      BY <2>1, <3>1, SubscriptionUpdates, Zenon
    <3>3. QED BY <3>2
  <2>3. QED BY <1>16, <2>2, SubsGrow DEF SyncSubscription, TypeOK
<1>17. ASSUME NEW r \in Requests, Abort(r) PROVE Grows
  BY <1>17, StutterGrows DEF Abort
<1>18. ASSUME NEW c \in Charges, NEW p \in Payments, PayLink(c, p) PROVE Grows
  BY <1>18 DEF PayLink, Grows, TypeOK
<1>19. ASSUME NEW c \in Charges, NEW a \in Preapprovals, ChargePreapproval(c, a) PROVE Grows
  BY <1>19 DEF ChargePreapproval, Grows, TypeOK
<1>20. ASSUME NEW c \in Charges, MoveCharge(c) PROVE Grows
  <2>1. PICK move \in ChargeMoves : charges' = [charges EXCEPT ![c] = Reported(@, move[2])]
    BY <1>20 DEF MoveCharge
  <2>2. charges[c] \in ChargeObject /\ move[2] \in ChargeStatus
    BY <1>20, <2>1, ChargeMovesAssumption DEF MoveCharge, TypeOK
  <2>3. QED BY <1>20, <2>1, <2>2, ReportedTyped DEF MoveCharge, Grows, TypeOK
<1>21. ASSUME NEW a \in Preapprovals, MovePreapproval(a) PROVE Grows
  <2>1. PICK move \in PreMoves :
          /\ preapprovals[a].status = move[1]
          /\ preapprovals' = [preapprovals EXCEPT ![a] = Reported(@, move[2])]
    BY <1>21 DEF MovePreapproval
  <2>2. preapprovals[a] \in PreapprovalObject /\ move[2] \in PreStatus /\ move[1] # "cancelled"
    BY <1>21, <2>1, PreMovesAssumption DEF MovePreapproval, TypeOK
  <2>3. QED BY <1>21, <2>1, <2>2, ReportedTyped DEF MovePreapproval, Grows, TypeOK
<1>22. CASE Stop
  BY <1>22, StutterGrows DEF Stop
<1>23. QED
  BY <1>1, <1>2, <1>3, <1>4, <1>5, <1>6, <1>7, <1>8, <1>9, <1>10, <1>11, <1>12,
     <1>13, <1>14, <1>15, <1>16, <1>17, <1>18, <1>19, <1>20, <1>21, <1>22
     DEF Next, EnrollingStep, WebhookStep, GatewayStep

\* Rewriting subscriptions keeps the foreign keys if externalIds exist.
LEMMA ReferentialOfSubs ==
    ASSUME IInv, Grows, UNCHANGED <<pays, links, charges, preapprovals>>,
           \A s \in Subscriptions :
             subs'[s] # None /\ subs'[s].externalId # None
               => preapprovals[subs'[s].externalId] # None
    PROVE  Referential'
BY DEF IInv, Grows, Referential, IsRow, TypeOK, PaymentRow, PreapprovalObject

\* Every step keeps the foreign keys and the histories.
LEMMA ReferentialStep == ASSUME IInv, TypeOK', Grows, Next PROVE Referential'
<1> USE NullAssumption DEF tables, gateway, IsRow
<1> TypeOK /\ Referential BY DEF IInv
<1>1. ASSUME NEW r \in Requests, FindSubscription(r) PROVE Referential'
  BY <1>1 DEF FindSubscription, Referential
<1>2. ASSUME NEW r \in Requests, WriteSubscription(r) PROVE Referential'
  <2>1. ASSUME NEW s \in Subscriptions, subs'[s] # None, subs'[s].externalId # None
        PROVE  subs[s] # None /\ subs'[s].externalId = subs[s].externalId
    <3>1. CASE request[r].sub # None
      <4>1. request[r].sub \in Subscriptions /\ subs[request[r].sub] \in SubscriptionRow
        BY <1>2, <3>1, EnrolHandler DEF WriteSubscription, TakenOver
      <4>2. [subs[request[r].sub] EXCEPT !.payer = request[r].ask.payer].externalId
              = subs[request[r].sub].externalId
        BY <4>1 DEF SubscriptionRow
      <4>3. QED BY <1>2, <2>1, <3>1, <4>1, <4>2 DEF WriteSubscription, TakenOver, TypeOK
    <3>2. CASE request[r].sub = None
      <4>1. PICK n \in Subscriptions : subs' = [subs EXCEPT ![n] = NewSubscription(request[r].ask)]
        BY <1>2, <3>2 DEF WriteSubscription, TakenOver
      <4>2. NewSubscription(request[r].ask).externalId = None
        BY DEF NewSubscription
      <4>3. QED BY <2>1, <4>1, <4>2 DEF TypeOK
    <3>3. QED BY <3>1, <3>2
  <2>2. QED BY <1>2, <2>1, ReferentialOfSubs DEF WriteSubscription, TakenOver, Referential, IInv
<1>3. ASSUME NEW r \in Requests, CountPayments(r) PROVE Referential'
  BY <1>3 DEF CountPayments, Referential
<1>4. ASSUME NEW r \in Requests, GeneratePayments(r) PROVE Referential'
  <2>1. subs[request[r].sub] # None
    BY <1>4, EnrolHandler DEF GeneratePayments, At
  <2>2. \A p \in Payments : pays'[p] # None => pays'[p] = pays[p] \/ pays'[p].subscription = request[r].sub
    BY <1>4 DEF GeneratePayments, Installment, Unpaid
  <2>3. QED BY <1>4, <2>1, <2>2 DEF GeneratePayments, Grows, Referential, TypeOK
<1>5. ASSUME NEW r \in Requests, OpenPreapproval(r) PROVE Referential'
  <2>1. subs[request[r].sub] # None
    BY <1>5, EnrolHandler DEF OpenPreapproval, At
  <2>2. QED BY <1>5, <2>1 DEF OpenPreapproval, Grows, Referential, TypeOK, SubscriptionRow
<1>6. ASSUME NEW r \in Requests, CreatePayment(r) PROVE Referential'
  <2>1. PICK p \in Payments, s \in Subscriptions, u \in Users, due \in LinkDues :
             /\ subs[s] # None
             /\ pays' = [pays EXCEPT ![p] = Unpaid(s, u, due, None)]
    BY <1>6 DEF CreatePayment
  <2>2. Unpaid(s, u, due, None).subscription = s
    BY DEF Unpaid
  <2>3. QED BY <1>6, <2>1, <2>2 DEF CreatePayment, Grows, Referential, TypeOK
<1>7. ASSUME NEW r \in Requests, OpenLink(r) PROVE Referential'
  <2>1. pays[request[r].pay] # None
    BY <1>7 DEF OpenLink, At, IInv, InFlight, RequestFacts, EnrolFacts, Enrolling
  <2>2. QED BY <1>7, <2>1 DEF OpenLink, Referential
<1>8. ASSUME NEW r \in Requests, FindCancelled(r) PROVE Referential'
  BY <1>8 DEF FindCancelled, Referential
<1>9. ASSUME NEW r \in Requests, CancelPreapproval(r) PROVE Referential'
  <2> DEFINE b == request[r].external
  <2>1. b \in Preapprovals /\ preapprovals[b] \in PreapprovalObject /\ "cancelled" \in PreStatus
    BY <1>9, CancelHandler DEF CancelPreapproval, PreStatus, At
  <2>2. /\ preapprovals'[b] # None
        /\ preapprovals'[b].reference = preapprovals[b].reference
        /\ preapprovals'[b].status \in preapprovals'[b].seen
        /\ \A a \in Preapprovals : a # b => preapprovals'[a] = preapprovals[a]
    BY <1>9, <2>1, ReportedTyped DEF CancelPreapproval, TypeOK
  <2>3. QED BY <1>9, <2>1, <2>2 DEF CancelPreapproval, Grows, Referential, TypeOK, SubscriptionRow
<1>10. ASSUME NEW r \in Requests, CancelRow(r) PROVE Referential'
  <2>1. subs[request[r].sub] \in SubscriptionRow
    BY <1>10, CancelHandler DEF CancelRow
  <2>2. [subs[request[r].sub] EXCEPT !.status = "CANCELLED"].externalId = subs[request[r].sub].externalId
    BY <2>1 DEF SubscriptionRow
  <2>3. \A s \in Subscriptions : subs'[s] # None => subs[s] # None /\ subs'[s].externalId = subs[s].externalId
    BY <1>10, <2>1, <2>2 DEF CancelRow, TypeOK
  <2>4. QED BY <1>10, <2>3, ReferentialOfSubs DEF CancelRow, Referential
<1>11. ASSUME NEW r \in Requests, FetchCharge(r) PROVE Referential'
  BY <1>11 DEF FetchCharge, Referential
<1>12. ASSUME NEW r \in Requests, LocatePayment(r) PROVE Referential'
  BY <1>12 DEF LocatePayment, Referential
<1>13. ASSUME NEW r \in Requests, RecordPayment(r) PROVE Referential'
  <2>1. \A p \in Payments : pays'[p] # None => pays[p] # None
    BY <1>13, PaymentHandler DEF RecordPayment, At, TypeOK
  <2>2. QED BY <1>13, <2>1 DEF RecordPayment, Grows, Referential, TypeOK
<1>14. ASSUME NEW r \in Requests, MarkSubscription(r) PROVE Referential'
  <2> DEFINE s == pays[request[r].pay].subscription
             st == StatusAfterPayment(MapMercadoPagoStatus(request[r].raw))
  <2>1. subs[s] \in SubscriptionRow
    BY <1>14, PaymentHandler, SubscriptionOfPayment DEF MarkSubscription, At
  <2>2. [subs[s] EXCEPT !.status = st].externalId = subs[s].externalId
    BY <2>1 DEF SubscriptionRow
  <2>3. \A t \in Subscriptions : subs'[t] # None => subs[t] # None /\ subs'[t].externalId = subs[t].externalId
    BY <1>14, <2>1, <2>2 DEF MarkSubscription, TypeOK
  <2>4. QED BY <1>14, <2>3, ReferentialOfSubs DEF MarkSubscription, Referential
<1>15. ASSUME NEW r \in Requests, FetchPreapproval(r) PROVE Referential'
  BY <1>15 DEF FetchPreapproval, Referential
<1>16. ASSUME NEW r \in Requests, SyncSubscription(r) PROVE Referential'
  <2> DEFINE a == request[r].external
             s == preapprovals[a].reference
             st == StatusAfterPreapproval(request[r].raw)
  <2>1. a \in Preapprovals /\ preapprovals[a] # None /\ subs[s] \in SubscriptionRow
    BY <1>16, PreapprovalHandler DEF SyncSubscription
  <2>2. [subs[s] EXCEPT !.status = st, !.externalId = a].externalId = a
    BY <2>1 DEF SubscriptionRow
  <2>3. \A t \in Subscriptions : subs'[t] # None =>
          /\ subs[t] # None
          /\ subs'[t].externalId = subs[t].externalId \/ subs'[t].externalId = a
    BY <1>16, <2>1, <2>2 DEF SyncSubscription, TypeOK
  <2>4. QED BY <1>16, <2>1, <2>3, ReferentialOfSubs DEF SyncSubscription, Referential
<1>17. ASSUME NEW r \in Requests, Abort(r) PROVE Referential'
  BY <1>17 DEF Abort, Referential
<1>18. ASSUME NEW c \in Charges, NEW p \in Payments, PayLink(c, p) PROVE Referential'
  BY <1>18, IdAssumption DEF PayLink, NewCharge, Referential, TypeOK
<1>19. ASSUME NEW c \in Charges, NEW a \in Preapprovals, ChargePreapproval(c, a) PROVE Referential'
  BY <1>19, IdAssumption DEF ChargePreapproval, NewCharge, Referential, TypeOK, PreapprovalObject
<1>20. ASSUME NEW c \in Charges, MoveCharge(c) PROVE Referential'
  <2>1. /\ charges'[c].reference = charges[c].reference
        /\ charges'[c].status \in charges'[c].seen
        /\ \A d \in Charges : d # c => charges'[d] = charges[d]
    BY <1>20, ChargeMovesAssumption, ReportedTyped DEF MoveCharge, TypeOK
  <2>2. QED BY <1>20, <2>1 DEF MoveCharge, Referential, TypeOK
<1>21. ASSUME NEW a \in Preapprovals, MovePreapproval(a) PROVE Referential'
  <2>1. /\ preapprovals'[a].reference = preapprovals[a].reference
        /\ preapprovals'[a].status \in preapprovals'[a].seen
        /\ \A b \in Preapprovals : b # a => preapprovals'[b] = preapprovals[b]
    BY <1>21, PreMovesAssumption, ReportedTyped DEF MovePreapproval, TypeOK
  <2>2. QED BY <1>21, <2>1 DEF MovePreapproval, Grows, Referential, TypeOK, SubscriptionRow
<1>22. CASE Stop
  BY <1>22 DEF Stop, Referential
<1>23. QED
  BY <1>1, <1>2, <1>3, <1>4, <1>5, <1>6, <1>7, <1>8, <1>9, <1>10, <1>11, <1>12,
     <1>13, <1>14, <1>15, <1>16, <1>17, <1>18, <1>19, <1>20, <1>21, <1>22
     DEF Next, EnrollingStep, WebhookStep, GatewayStep

-----------------------------------------------------------------------------
(***************************************************************************)
(* What a request in flight relies on.  First: no step of another request  *)
(* or of the gateway takes it away.                                        *)
(***************************************************************************)
\* A fact a request relies on survives any growth,
LEMMA FactsKept ==
    ASSUME IInv, Grows, NEW q \in RequestState, RequestFacts(q)
    PROVE  RequestFacts(q)'
<1> USE DEF IInv, TypeOK, Grows, RequestState
<1>1. EnrolFacts(q)'
  BY DEF RequestFacts, EnrolFacts, Enrolling
<1>2. CancelFacts(q)'
  BY DEF RequestFacts, CancelFacts
<1>3. ChargeFacts(q)'
  BY DEF RequestFacts, ChargeFacts, MapMercadoPagoStatus, PaymentRow
<1>4. PreapprovalFacts(q)'
  BY DEF RequestFacts, PreapprovalFacts
<1>5. QED BY <1>1, <1>2, <1>3, <1>4 DEF RequestFacts

\* hence the facts of a request that does not move survive a step.
LEMMA OthersKept ==
    ASSUME IInv, Grows, NEW x \in Requests, request'[x] = request[x]
    PROVE  RequestFacts(request[x])'
<1>1. PICK q \in RequestState : q = request[x]
  BY DEF IInv, TypeOK
<1>2. RequestFacts(q)'
  BY <1>1, FactsKept DEF IInv, InFlight
<1>3. q = request'[x]
  BY <1>1
<1>4. QED BY <1>2, <1>3 DEF RequestFacts, EnrolFacts, Enrolling, CancelFacts, ChargeFacts, PreapprovalFacts

\* It is enough to look at the request that moves,
LEMMA InFlightBecomes ==
    ASSUME IInv, Grows, NEW r \in Requests, NEW q, Become(r, q), RequestFacts(q)'
    PROVE  InFlight'
<1> SUFFICES ASSUME NEW x \in Requests PROVE RequestFacts(request[x])'
  BY DEF InFlight
<1>1. CASE x # r
  BY <1>1, OthersKept DEF Become, IInv, TypeOK
<1>2. CASE x = r
  <2>1. request'[x] = q
    BY <1>2 DEF Become, IInv, TypeOK
  <2>2. QED BY <2>1 DEF RequestFacts, EnrolFacts, Enrolling, CancelFacts, ChargeFacts, PreapprovalFacts
<1>3. QED BY <1>1, <1>2

\* which needs nothing when it ends,
LEMMA InFlightFinish ==
    ASSUME IInv, Grows, NEW r \in Requests, Finish(r)
    PROVE  InFlight'
<1>1. PICK q : q = Idle
  OBVIOUS
<1>2. RequestFacts(q)'
  BY <1>1 DEF Idle, RequestFacts, EnrolFacts, Enrolling, CancelFacts, ChargeFacts, PreapprovalFacts
<1>3. QED BY <1>1, <1>2, InFlightBecomes DEF Finish, Become

\* and at none when no request moves.
LEMMA InFlightUnchanged ==
    ASSUME IInv, Grows, UNCHANGED request
    PROVE  InFlight'
BY OthersKept DEF InFlight
\* Every step keeps what the requests rely on.
LEMMA InFlightStep == ASSUME IInv, Grows, Next PROVE InFlight'
<1> USE DEF tables, gateway, IsRow
<1> TypeOK /\ Referential /\ InFlight BY DEF IInv
<1>1. ASSUME NEW r \in Requests, FindSubscription(r) PROVE InFlight'
  <2>1. PICK ask \in Checkouts, found \in Subscriptions \cup {None} :
           /\ found # None => subs[found] # None
           /\ Become(r, [Idle EXCEPT !.at = "write", !.ask = ask, !.sub = found])
    BY <1>1 DEF FindSubscription, Current
  <2>2. PICK q : q = [Idle EXCEPT !.at = "write", !.ask = ask, !.sub = found]
    OBVIOUS
  <2>3. RequestFacts(q)'
    BY <2>1, <2>2
       DEF Idle, Grows, RequestFacts, EnrolFacts, Enrolling, CancelFacts, ChargeFacts, PreapprovalFacts
  <2>4. QED BY <2>1, <2>2, <2>3, InFlightBecomes
<1>2. ASSUME NEW r \in Requests, WriteSubscription(r) PROVE InFlight'
  <2>1. request[r] \in RequestState /\ request[r].ask \in Checkouts
    BY <1>2, EnrolHandler DEF WriteSubscription, TakenOver, TypeOK
  <2>2. PICK s \in Subscriptions :
           /\ subs'[s] # None
           /\ \E q : Become(r, q) /\ q.at = "count" /\ q.ask = request[r].ask /\ q.sub = s
    <3>1. CASE request[r].sub # None
      <4>1. request[r].sub \in Subscriptions /\ subs[request[r].sub] # None
        BY <1>2, <3>1, EnrolHandler, NullAssumption DEF WriteSubscription, TakenOver
      <4>2. subs'[request[r].sub] # None
        BY <4>1 DEF Grows
      <4>3. PICK q : q = [request[r] EXCEPT !.at = "count"]
        OBVIOUS
      <4>4. q.at = "count" /\ q.ask = request[r].ask /\ q.sub = request[r].sub
        BY <2>1, <4>3 DEF RequestState
      <4>5. Become(r, q)
        BY <1>2, <3>1, <4>3 DEF WriteSubscription, TakenOver, GoTo
      <4>6. QED BY <4>1, <4>2, <4>4, <4>5
    <3>2. CASE request[r].sub = None
      <4>1. PICK s \in Subscriptions :
               /\ subs' = [subs EXCEPT ![s] = NewSubscription(request[r].ask)]
               /\ Become(r, [request[r] EXCEPT !.at = "count", !.sub = s])
        BY <1>2, <3>2 DEF WriteSubscription, TakenOver
      <4>2. NewSubscription(request[r].ask) \in SubscriptionRow
        BY <2>1, AskAssumption DEF NewSubscription, SubscriptionRow, SubscriptionStatus, Checkout
      <4>3. subs'[s] # None
        BY <4>1, <4>2, NullAssumption DEF TypeOK
      <4>4. PICK q : q = [request[r] EXCEPT !.at = "count", !.sub = s]
        OBVIOUS
      <4>5. q.at = "count" /\ q.ask = request[r].ask /\ q.sub = s
        BY <2>1, <4>4 DEF RequestState
      <4>6. QED BY <4>1, <4>3, <4>4, <4>5
    <3>3. QED BY <3>1, <3>2
  <2>3. s # None
    BY IdAssumption
  <2>4. PICK q : Become(r, q) /\ q.at = "count" /\ q.ask = request[r].ask /\ q.sub = s
    BY <2>2
  <2>5. RequestFacts(q)'
    BY <2>1, <2>2, <2>3, <2>4
       DEF RequestFacts, EnrolFacts, Enrolling, CancelFacts, ChargeFacts, PreapprovalFacts
  <2>6. QED BY <2>5, <2>4, InFlightBecomes
<1>3. ASSUME NEW r \in Requests, CountPayments(r) PROVE InFlight'
  <2>1. PICK q \in RequestState :
           /\ Become(r, q)
           /\ q.at \in {"generate", "preapprove"} /\ q.ask = request[r].ask /\ q.sub = request[r].sub
    <3>1. request[r] \in RequestState /\ AfterCount(request[r].sub) \in {"generate", "preapprove"}
      BY DEF AfterCount, TypeOK
    <3>2. [request[r] EXCEPT !.at = AfterCount(request[r].sub)] \in RequestState
      BY <3>1 DEF RequestState, Waits
    <3>3. QED BY <1>3, <3>1, <3>2 DEF CountPayments, GoTo, RequestState
  <2>2. request[r].ask \in Checkouts /\ request[r].sub # None /\ subs[request[r].sub] # None
    BY <1>3 DEF CountPayments, At, InFlight, RequestFacts, EnrolFacts, Enrolling
  <2>3. RequestFacts(q)'
    BY <2>1, <2>2
       DEF CountPayments, RequestState, Grows, RequestFacts, EnrolFacts, Enrolling, CancelFacts, ChargeFacts, PreapprovalFacts
  <2>4. QED BY <2>1, <2>3, InFlightBecomes
<1>4. ASSUME NEW r \in Requests, GeneratePayments(r) PROVE InFlight'
  <2>1. PICK q \in RequestState :
           /\ Become(r, q)
           /\ q.at = "preapprove" /\ q.ask = request[r].ask /\ q.sub = request[r].sub
    <3>1. request[r] \in RequestState
      BY DEF TypeOK
    <3>2. [request[r] EXCEPT !.at = "preapprove"] \in RequestState
      BY <3>1 DEF RequestState, Waits
    <3>3. QED BY <1>4, <3>1, <3>2 DEF GeneratePayments, GoTo, RequestState
  <2>2. request[r].ask \in Checkouts /\ request[r].sub # None /\ subs[request[r].sub] # None
    BY <1>4 DEF GeneratePayments, At, InFlight, RequestFacts, EnrolFacts, Enrolling
  <2>3. RequestFacts(q)'
    BY <2>1, <2>2
       DEF RequestState, Grows, RequestFacts, EnrolFacts, Enrolling, CancelFacts, ChargeFacts, PreapprovalFacts
  <2>4. QED BY <2>1, <2>3, InFlightBecomes
<1>5. ASSUME NEW r \in Requests, OpenPreapproval(r) PROVE InFlight'
  BY <1>5, InFlightFinish DEF OpenPreapproval
<1>6. ASSUME NEW r \in Requests, CreatePayment(r) PROVE InFlight'
  <2>1. PICK p \in Payments, s \in Subscriptions, u \in Users, due \in LinkDues :
             /\ pays' = [pays EXCEPT ![p] = Unpaid(s, u, due, None)]
             /\ Become(r, [Idle EXCEPT !.at = "link", !.pay = p])
    BY <1>6 DEF CreatePayment
  <2>2. PICK q : q = [Idle EXCEPT !.at = "link", !.pay = p]
    OBVIOUS
  <2>3. Unpaid(s, u, due, None) \in PaymentRow
    BY AskAssumption DEF Unpaid, PaymentRow, PaymentStatus
  <2>4. pays'[p] # None /\ p # None
    BY <2>1, <2>3, NullAssumption, IdAssumption DEF TypeOK
  <2>5. RequestFacts(q)'
    BY <2>2, <2>4 DEF Idle, RequestFacts, EnrolFacts, Enrolling, CancelFacts, ChargeFacts, PreapprovalFacts
  <2>6. QED BY <2>1, <2>2, <2>5, InFlightBecomes
<1>7. ASSUME NEW r \in Requests, OpenLink(r) PROVE InFlight'
  BY <1>7, InFlightFinish DEF OpenLink
<1>8. ASSUME NEW r \in Requests, FindCancelled(r) PROVE InFlight'
  <2>1. PICK s \in Subscriptions :
             /\ subs[s] # None
             /\ cancelAsked' = cancelAsked \cup {s}
             /\ Become(r, [Idle EXCEPT !.at = CancelRoute(subs[s].externalId),
                                       !.sub = s, !.external = subs[s].externalId])
    BY <1>8 DEF FindCancelled
  <2>2. PICK q : q = [Idle EXCEPT !.at = CancelRoute(subs[s].externalId),
                                  !.sub = s, !.external = subs[s].externalId]
    OBVIOUS
  <2>3. /\ q.external # None => q.external \in Preapprovals /\ preapprovals[q.external] # None
        /\ q.at = IF q.external # None THEN "cancelpre" ELSE "cancelrow"
        /\ q.sub = s
    BY <2>1, <2>2 DEF Idle, CancelRoute, TypeOK, Referential, SubscriptionRow
  <2>4. s # None /\ s \in cancelAsked' /\ subs'[s] # None
    BY <2>1, IdAssumption DEF Grows
  <2>5. RequestFacts(q)'
    BY <2>3, <2>4 DEF Grows, RequestFacts, EnrolFacts, Enrolling, CancelFacts, ChargeFacts, PreapprovalFacts
  <2>6. QED BY <2>1, <2>2, <2>5, InFlightBecomes
<1>9. ASSUME NEW r \in Requests, CancelPreapproval(r) PROVE InFlight'
  <2>1. CASE Finish(r)
    BY <2>1, InFlightFinish
  <2>2. CASE GoTo(r, "cancelrow")
    <3>1. PICK q : /\ Become(r, q)
                   /\ q.at = "cancelrow" /\ q.sub = request[r].sub /\ q.external = request[r].external
      <4>1. request[r] \in RequestState
        BY DEF TypeOK
      <4>2. QED BY <2>2, <4>1 DEF GoTo, RequestState
    <3>2. /\ q.external \in Preapprovals /\ preapprovals[q.external] \in PreapprovalObject
          /\ q.sub # None /\ subs[q.sub] # None /\ q.sub \in cancelAsked
          /\ q.sub \in Subscriptions
      BY <1>9, <3>1, NullAssumption
         DEF CancelPreapproval, At, TypeOK, InFlight, RequestFacts, CancelFacts, RequestState
    <3>3. preapprovals'[q.external] # None /\ preapprovals'[q.external].status = "cancelled"
      BY <1>9, <3>1, <3>2, ReportedTyped, NullAssumption DEF CancelPreapproval, TypeOK, PreStatus
    <3>4. RequestFacts(q)'
      BY <3>1, <3>2, <3>3
         DEF Grows, RequestFacts, EnrolFacts, Enrolling, CancelFacts, ChargeFacts, PreapprovalFacts
    <3>5. QED BY <3>1, <3>4, InFlightBecomes
  <2>3. QED BY <1>9, <2>1, <2>2 DEF CancelPreapproval
<1>10. ASSUME NEW r \in Requests, CancelRow(r) PROVE InFlight'
  BY <1>10, InFlightFinish DEF CancelRow
<1>11. ASSUME NEW r \in Requests, FetchCharge(r) PROVE InFlight'
  <2>1. PICK c \in Charges :
             /\ charges[c] # None
             /\ Become(r, [Idle EXCEPT !.at = "locate", !.external = c, !.raw = charges[c].status])
    BY <1>11 DEF FetchCharge
  <2>2. PICK q : q = [Idle EXCEPT !.at = "locate", !.external = c, !.raw = charges[c].status]
    OBVIOUS
  <2>3. q.at = "locate" /\ q.external = c /\ q.raw \in charges[c].seen
    BY <2>1, <2>2 DEF Idle, Referential
  <2>4. RequestFacts(q)'
    BY <2>1, <2>3 DEF Grows, RequestFacts, EnrolFacts, Enrolling, CancelFacts, ChargeFacts, PreapprovalFacts
  <2>5. QED BY <2>1, <2>2, <2>4, InFlightBecomes
<1>12. ASSUME NEW r \in Requests, LocatePayment(r) PROVE InFlight'
  <2>1. CASE Finish(r)
    BY <2>1, InFlightFinish
  <2>2. CASE \E p \in Payments :
               /\ pays[p] # None
               /\ Reference(r) \in {p, pays[p].subscription}
               /\ Become(r, [request[r] EXCEPT !.at = "record", !.pay = p])
    <3>1. PICK p \in Payments :
               /\ pays[p] # None
               /\ Reference(r) \in {p, pays[p].subscription}
               /\ Become(r, [request[r] EXCEPT !.at = "record", !.pay = p])
      BY <2>2
    <3>2. PICK q : /\ Become(r, q)
                   /\ q.at = "record" /\ q.pay = p
                   /\ q.external = request[r].external /\ q.raw = request[r].raw
      <4>1. request[r] \in RequestState
        BY DEF TypeOK
      <4>2. PICK q : q = [request[r] EXCEPT !.at = "record", !.pay = p]
        OBVIOUS
      <4>3. /\ q.at = "record" /\ q.pay = p
            /\ q.external = request[r].external /\ q.raw = request[r].raw
        BY <4>1, <4>2 DEF RequestState
      <4>4. QED BY <3>1, <4>2, <4>3
    <3>3. /\ q.external \in Charges /\ charges[q.external] # None
          /\ q.raw \in charges[q.external].seen
          /\ charges[q.external].reference \in {p, pays[p].subscription}
          /\ p # None
      BY <1>12, <3>1, <3>2, PaymentHandler, NullAssumption, IdAssumption DEF LocatePayment, Reference
    <3>4. RequestFacts(q)'
      BY <3>1, <3>2, <3>3
         DEF Grows, RequestFacts, EnrolFacts, Enrolling, CancelFacts, ChargeFacts, PreapprovalFacts
    <3>5. QED BY <3>2, <3>4, InFlightBecomes
  <2>3. IsSingle(Reference(r)) => pays[Reference(r)] # None
    BY <1>12, PaymentHandler, NullAssumption DEF LocatePayment, IsSingle, Reference, Referential
  <2>4. \A p \in OldestPending(Reference(r)) :
           p \in Payments /\ pays[p] # None /\ pays[p].subscription = Reference(r)
    BY DEF OldestPending, PaymentsOf
  <2>5. QED BY <1>12, <2>1, <2>2, <2>3, <2>4 DEF LocatePayment, IsSingle
<1>13. ASSUME NEW r \in Requests, RecordPayment(r) PROVE InFlight'
  <2> DEFINE st == MapMercadoPagoStatus(request[r].raw)
             p == request[r].pay
  <2>1. CASE Finish(r)
    BY <2>1, InFlightFinish
  <2>2. CASE GoTo(r, "mark") /\ AfterRecord(Reference(r), st) = "mark"
    <3>1. PICK q : /\ Become(r, q)
                   /\ q.at = "mark" /\ q.pay = p
                   /\ q.external = request[r].external /\ q.raw = request[r].raw
      <4>1. request[r] \in RequestState
        BY DEF TypeOK
      <4>2. QED BY <2>2, <4>1 DEF GoTo, RequestState
    <3>2. /\ q.external \in Charges /\ charges[q.external] # None
          /\ q.raw \in charges[q.external].seen
          /\ p \in Payments /\ pays[p] # None /\ p # None
          /\ charges[q.external].reference \in {p, pays[p].subscription}
      BY <1>13, <3>1, PaymentHandler, NullAssumption, IdAssumption DEF RecordPayment, Reference, At
    <3>3. st \in PaymentStatus
      BY DEF MapMercadoPagoStatus, PaymentStatus
    <3>4. pays'[p].externalId = q.external /\ q.external # None
      BY <1>13, <3>1, <3>2, <3>3, RecordedTyped, IdAssumption DEF RecordPayment, TypeOK
    <3>5. \/ MapMercadoPagoStatus(q.raw) = "COMPLETED"
          \/ /\ MapMercadoPagoStatus(q.raw) = "FAILED"
             /\ charges[q.external].reference = pays[p].subscription
      BY <2>2, <3>1, <3>2 DEF AfterRecord, IsSingle, Reference
    <3>6. RequestFacts(q)'
      BY <3>1, <3>2, <3>4, <3>5
        
            DEF Grows, RequestFacts, EnrolFacts, Enrolling, CancelFacts, ChargeFacts, PreapprovalFacts, MapMercadoPagoStatus
    <3>7. QED BY <3>1, <3>6, InFlightBecomes
  <2>3. QED BY <1>13, <2>1, <2>2 DEF RecordPayment
<1>14. ASSUME NEW r \in Requests, MarkSubscription(r) PROVE InFlight'
  BY <1>14, InFlightFinish DEF MarkSubscription
<1>15. ASSUME NEW r \in Requests, FetchPreapproval(r) PROVE InFlight'
  <2>1. PICK a \in Preapprovals :
             /\ preapprovals[a] # None
             /\ Become(r, [Idle EXCEPT !.at = "sync", !.external = a, !.raw = preapprovals[a].status])
    BY <1>15 DEF FetchPreapproval
  <2>2. PICK q : q = [Idle EXCEPT !.at = "sync", !.external = a, !.raw = preapprovals[a].status]
    OBVIOUS
  <2>3. q.at = "sync" /\ q.external = a /\ q.raw \in preapprovals[a].seen
    BY <2>1, <2>2 DEF Idle, Referential
  <2>4. RequestFacts(q)'
    BY <2>1, <2>3 DEF Grows, RequestFacts, EnrolFacts, Enrolling, CancelFacts, ChargeFacts, PreapprovalFacts
  <2>5. QED BY <2>1, <2>2, <2>4, InFlightBecomes
<1>16. ASSUME NEW r \in Requests, SyncSubscription(r) PROVE InFlight'
  BY <1>16, InFlightFinish DEF SyncSubscription
<1>17. ASSUME NEW r \in Requests, Abort(r) PROVE InFlight'
  BY <1>17, InFlightFinish DEF Abort
<1>18. ASSUME GatewayStep PROVE InFlight'
  BY <1>18, InFlightUnchanged
     DEF GatewayStep, PayLink, ChargePreapproval, MoveCharge, MovePreapproval
<1>19. CASE Stop
  BY <1>19
     DEF Stop, Idle, InFlight, RequestFacts, EnrolFacts, Enrolling, CancelFacts, ChargeFacts, PreapprovalFacts
<1>20. QED
  BY <1>1, <1>2, <1>3, <1>4, <1>5, <1>6, <1>7, <1>8, <1>9, <1>10, <1>11, <1>12,
     <1>13, <1>14, <1>15, <1>16, <1>17, <1>18, <1>19
     DEF Next, EnrollingStep, WebhookStep
-----------------------------------------------------------------------------
\* A payment that is not written stays backed.
LEMMA BackedKept ==
    ASSUME IInv, Grows, NEW p \in Payments, pays[p] # None, pays'[p] = pays[p],
           pays[p].externalId # None
    PROVE  Backs(pays[p].externalId, p)'
<1>1. pays[p].externalId \in Charges /\ Backs(pays[p].externalId, p)
  BY DEF IInv, TypeOK, PaymentRow, PaymentIsBacked, IsRow
<1>2. QED BY <1>1 DEF Backs, Grows

\* Rows are either as they were or new and not yet paid, except for the one a
\* handler records.
LEMMA PaymentsKept ==
    ASSUME IInv, Grows,
           \A p \in Payments : pays'[p] # None =>
             \/ pays[p] # None /\ pays'[p] = pays[p]
             \/ pays'[p].externalId = None /\ pays'[p].status = "PENDING" /\ pays'[p].paidAt = None
    PROVE  PaymentIsBacked'
<1> SUFFICES ASSUME NEW p \in Payments, pays'[p] # None
             PROVE  /\ pays'[p].paidAt # None <=> pays'[p].status = "COMPLETED"
                    /\ pays'[p].externalId = None => pays'[p].status = "PENDING"
                    /\ pays'[p].externalId # None => Backs(pays[p].externalId, p)'
  BY DEF PaymentIsBacked, IsRow
<1>1. CASE pays[p] # None /\ pays'[p] = pays[p]
  BY <1>1, BackedKept DEF IInv, PaymentIsBacked, IsRow
<1>2. CASE pays'[p].externalId = None /\ pays'[p].status = "PENDING" /\ pays'[p].paidAt = None
  BY <1>2
<1>3. QED BY <1>1, <1>2

\* Every step keeps the payments backed.
LEMMA PaymentStep == ASSUME IInv, Grows, Next PROVE PaymentIsBacked'
<1> USE DEF tables, gateway
<1> TypeOK BY DEF IInv
<1>1. CASE UNCHANGED pays
  BY <1>1, PaymentsKept
<1>2. ASSUME NEW r \in Requests, GeneratePayments(r) PROVE PaymentIsBacked'
  BY <1>2, PaymentsKept DEF GeneratePayments, Installment, Unpaid
<1>3. ASSUME NEW r \in Requests, CreatePayment(r) PROVE PaymentIsBacked'
  BY <1>3, PaymentsKept DEF CreatePayment, Unpaid, TypeOK
<1>4. ASSUME NEW r \in Requests, RecordPayment(r) PROVE PaymentIsBacked'
  <2> DEFINE st == MapMercadoPagoStatus(request[r].raw)
  <2>1. PICK p \in Payments, c \in Charges :
          /\ p = request[r].pay /\ c = request[r].external
          /\ pays[p] \in PaymentRow
          /\ charges[c] \in ChargeObject
          /\ request[r].raw \in charges[c].seen
          /\ charges[c].reference \in {p, pays[p].subscription}
    BY <1>4, PaymentHandler DEF RecordPayment, Reference, At, TypeOK
  <2>2. st \in PaymentStatus /\ request[r].raw \in ChargeStatus
    BY <2>1 DEF MapMercadoPagoStatus, PaymentStatus, ChargeObject
  <2>3. /\ pays'[p].subscription = pays[p].subscription
        /\ pays'[p].externalId = c
        /\ pays'[p].status = st
        /\ pays'[p].paidAt # None <=> st = "COMPLETED"
    BY <1>4, <2>1, <2>2, RecordedTyped DEF RecordPayment, TypeOK
  <2>4. Backs(c, p)'
    <3>1. charges' = charges /\ charges[c] # None
      BY <1>4, <2>1, NullAssumption DEF RecordPayment
    <3>2. \/ st = "COMPLETED" /\ "approved" \in charges[c].seen
          \/ st = "FAILED" /\ charges[c].seen \cap {"rejected", "cancelled"} # {}
          \/ st = "PENDING" /\ charges[c].seen \cap {"pending", "in_process", "refunded"} # {}
      BY <2>1, <2>2 DEF MapMercadoPagoStatus, ChargeStatus
    <3>3. QED BY <2>1, <2>3, <3>1, <3>2 DEF Backs
  <2>5. \A q \in Payments : q # p => pays'[q] = pays[q]
    BY <1>4, <2>1 DEF RecordPayment, TypeOK
  <2> SUFFICES ASSUME NEW q \in Payments, pays'[q] # None
               PROVE  /\ pays'[q].paidAt # None <=> pays'[q].status = "COMPLETED"
                      /\ pays'[q].externalId = None => pays'[q].status = "PENDING"
                      /\ pays'[q].externalId # None => Backs(pays[q].externalId, q)'
    BY DEF PaymentIsBacked, IsRow
  <2>6. CASE q = p
    BY <2>3, <2>4, <2>6, IdAssumption DEF Backs
  <2>7. CASE q # p
    BY <2>5, <2>7, BackedKept DEF IInv, PaymentIsBacked, IsRow
  <2>8. QED BY <2>6, <2>7
<1>5. QED
  BY <1>1, <1>2, <1>3, <1>4
     DEF Next, EnrollingStep, WebhookStep, GatewayStep, FindSubscription, WriteSubscription,
         CountPayments, OpenPreapproval, OpenLink, FindCancelled, CancelPreapproval, CancelRow,
         FetchCharge, LocatePayment, MarkSubscription, FetchPreapproval, SyncSubscription, Abort,
         Stop, PayLink, ChargePreapproval, MoveCharge, MovePreapproval

-----------------------------------------------------------------------------
\* The reasons for a status are history: they stay.
LEMMA JustifiesKept ==
    ASSUME IInv, Grows, NEW s \in Subscriptions, NEW st, Justifies(s, st)
    PROVE  Justifies(s, st)'
<1> USE DEF Grows
<1>1. HasPaid(s) => HasPaid(s)'
  BY DEF HasPaid, ChargesFor, PaymentsOf, IInv, TypeOK
<1>2. HasRecord(s) => HasRecord(s)'
  BY DEF HasRecord, PaymentsOf
<1>3. WasAuthorized(s) => WasAuthorized(s)'
  BY DEF WasAuthorized, Agreements
<1>4. HasFailed(s) => HasFailed(s)'
  BY DEF HasFailed
<1>5. Agreements(s) # {} => Agreements(s)' # {}
  BY DEF Agreements
<1>6. s \in cancelAsked => s \in cancelAsked'
  OBVIOUS
<1>7. QED
  BY <1>1, <1>2, <1>3, <1>4, <1>5, <1>6 DEF Justifies

\* Statuses with a reason before the step have one after it.
LEMMA StatusKept ==
    ASSUME IInv, Grows,
           \A s \in Subscriptions : subs'[s] # None =>
             \E st : subs'[s].status = st /\ Justifies(s, st)
    PROVE  StatusIsJustified'
<1> SUFFICES ASSUME NEW s \in Subscriptions, subs'[s] # None
             PROVE  Justifies(s, subs[s].status)'
  BY DEF StatusIsJustified, IsRow
<1>1. PICK st : subs'[s].status = st /\ Justifies(s, st)
  OBVIOUS
<1>2. Justifies(s, st)'
  BY <1>1, JustifiesKept
<1>3. QED BY <1>1, <1>2 DEF Justifies

\* The writer of a status has its reason; the other rows keep theirs.
LEMMA StatusWritten ==
    ASSUME IInv, Grows, NEW s \in Subscriptions, NEW row, row # None,
           subs' = [subs EXCEPT ![s] = row], Justifies(s, row.status)
    PROVE  StatusIsJustified'
<1>1. ASSUME NEW t \in Subscriptions, subs'[t] # None
      PROVE  \E st : subs'[t].status = st /\ Justifies(t, st)
  <2>1. CASE t = s
    BY <2>1 DEF IInv, TypeOK
  <2>2. CASE t # s
    <3>1. subs'[t] = subs[t] /\ subs[t] # None
      BY <1>1, <2>2 DEF IInv, TypeOK
    <3>2. Justifies(t, subs[t].status)
      BY <3>1 DEF IInv, StatusIsJustified, IsRow
    <3>3. QED BY <3>1, <3>2
  <2>3. QED BY <2>1, <2>2
<1>2. QED BY <1>1, StatusKept

\* Every step leaves each subscription with a reason for its status.
LEMMA StatusStep == ASSUME IInv, Grows, Next PROVE StatusIsJustified'
<1> USE DEF tables, gateway
<1> TypeOK BY DEF IInv
<1>1. CASE UNCHANGED subs
  BY <1>1, StatusKept DEF IInv, StatusIsJustified, IsRow
<1>2. ASSUME NEW r \in Requests, WriteSubscription(r) PROVE StatusIsJustified'
  <2>1. CASE request[r].sub # None
    <3>1. PICK s \in Subscriptions : s = request[r].sub /\ subs[s] \in SubscriptionRow
      BY <1>2, <2>1, EnrolHandler DEF WriteSubscription, TakenOver
    <3>2. PICK row : row = [subs[s] EXCEPT !.payer = request[r].ask.payer]
      OBVIOUS
    <3>3. row.status = subs[s].status /\ row # None
      <4>1. At(r, "write") BY <1>2 DEF WriteSubscription, TakenOver
      <4>2. request[r].ask.payer \in Users
        BY <4>1, EnrolHandler DEF Checkout
      <4>3. row \in SubscriptionRow
        BY <3>1, <3>2, <4>2, SubscriptionUpdates
      <4>4. row.status = subs[s].status
        BY <3>1, <3>2 DEF SubscriptionRow
      <4>5. QED BY <4>3, <4>4, NullAssumption
    <3>4. Justifies(s, row.status)
      BY <3>1, <3>3, NullAssumption DEF IInv, StatusIsJustified, IsRow
    <3>5. subs' = [subs EXCEPT ![s] = row]
      BY <1>2, <2>1, <3>1, <3>2 DEF WriteSubscription, TakenOver
    <3>6. QED BY <3>3, <3>4, <3>5, StatusWritten
  <2>2. CASE request[r].sub = None
    <3>1. PICK s \in Subscriptions, row \in {NewSubscription(request[r].ask)} :
            subs' = [subs EXCEPT ![s] = row]
      BY <1>2, <2>2 DEF WriteSubscription, TakenOver
    <3>2. row.status = "PENDING" /\ Justifies(s, row.status)
      BY <3>1 DEF NewSubscription, Justifies
    <3>3. row # None
      <4>1. request[r].ask \in Checkout
        BY <1>2, EnrolHandler DEF WriteSubscription, TakenOver
      <4>2. row \in SubscriptionRow
        BY <3>1, <4>1 DEF NewSubscription, SubscriptionRow, SubscriptionStatus, Checkout
      <4>3. QED BY <4>2, NullAssumption
    <3>4. QED BY <3>1, <3>2, <3>3, StatusWritten
  <2>3. QED BY <2>1, <2>2
<1>3. ASSUME NEW r \in Requests, CancelRow(r) PROVE StatusIsJustified'
  <2>1. PICK s \in Subscriptions : s = request[r].sub /\ subs[s] \in SubscriptionRow /\ s \in cancelAsked
    BY <1>3, CancelHandler, IdAssumption
       DEF CancelRow, IInv, InFlight, RequestFacts, CancelFacts, At, TypeOK, RequestState
  <2>2. PICK row : row = [subs[s] EXCEPT !.status = "CANCELLED"]
    OBVIOUS
  <2>3. row \in SubscriptionRow /\ row.status = "CANCELLED"
    BY <2>1, <2>2 DEF SubscriptionRow, SubscriptionStatus
  <2>4. row # None /\ Justifies(s, row.status)
    BY <2>1, <2>3, NullAssumption DEF Justifies
  <2>5. subs' = [subs EXCEPT ![s] = row]
    BY <1>3, <2>1, <2>2 DEF CancelRow
  <2>6. QED BY <2>4, <2>5, StatusWritten
<1>4. ASSUME NEW r \in Requests, MarkSubscription(r) PROVE StatusIsJustified'
  <2>1. PICK p \in Payments, c \in Charges :
          /\ p = request[r].pay /\ c = request[r].external
          /\ pays[p] # None
          /\ charges[c] # None
          /\ request[r].raw \in charges[c].seen
          /\ charges[c].reference \in {p, pays[p].subscription}
    BY <1>4, PaymentHandler, NullAssumption DEF MarkSubscription, Reference, At
  <2>2. PICK s \in Subscriptions : s = pays[p].subscription /\ subs[s] \in SubscriptionRow
    BY <2>1, SubscriptionOfPayment
  <2>3. HasRecord(s)
    BY <1>4, <2>1, <2>2
       DEF HasRecord, PaymentsOf, IInv, InFlight, RequestFacts, ChargeFacts, MarkSubscription, At
  <2>4. c \in ChargesFor(s)
    BY <2>1, <2>2 DEF ChargesFor, PaymentsOf
  <2>5. PICK st : st = StatusAfterPayment(MapMercadoPagoStatus(request[r].raw))
    OBVIOUS
  <2>6. Justifies(s, st)
    <3>1. CASE MapMercadoPagoStatus(request[r].raw) = "COMPLETED"
      <4>1. request[r].raw = "approved"
        BY <3>1 DEF MapMercadoPagoStatus
      <4>2. HasPaid(s)
        BY <2>1, <2>4, <4>1 DEF HasPaid
      <4>3. st = "ACTIVE"
        BY <2>5, <3>1 DEF StatusAfterPayment
      <4>4. QED BY <2>3, <4>2, <4>3 DEF Justifies
    <3>2. CASE /\ MapMercadoPagoStatus(request[r].raw) = "FAILED"
               /\ charges[c].reference = s
      <4>1. request[r].raw \in {"rejected", "cancelled"}
        BY <3>2 DEF MapMercadoPagoStatus
      <4>2. HasFailed(s)
        BY <2>1, <3>2, <4>1 DEF HasFailed
      <4>3. st = "PAST_DUE"
        BY <2>5, <3>2 DEF StatusAfterPayment
      <4>4. QED BY <2>3, <4>2, <4>3 DEF Justifies
    <3>3. QED
      BY <1>4, <2>1, <2>2, <3>1, <3>2
         DEF MarkSubscription, At, IInv, InFlight, RequestFacts, ChargeFacts
  <2>7. PICK row : row = [subs[s] EXCEPT !.status = st]
    OBVIOUS
  <2>8. row # None /\ row.status = st
    <3>1. st \in SubscriptionStatus
      BY <2>5 DEF StatusAfterPayment, SubscriptionStatus
    <3>2. row \in SubscriptionRow
      BY <2>2, <2>7, <3>1, SubscriptionUpdates
    <3>3. QED BY <2>2, <2>7, <3>2, NullAssumption DEF SubscriptionRow
  <2>9. subs' = [subs EXCEPT ![s] = row]
    BY <1>4, <2>1, <2>2, <2>5, <2>7 DEF MarkSubscription
  <2>10. QED BY <2>6, <2>8, <2>9, StatusWritten
<1>5. ASSUME NEW r \in Requests, SyncSubscription(r) PROVE StatusIsJustified'
  <2>1. PICK a \in Preapprovals :
          /\ a = request[r].external
          /\ preapprovals[a] # None
          /\ request[r].raw \in preapprovals[a].seen
    BY <1>5, PreapprovalHandler, NullAssumption DEF SyncSubscription
  <2>2. PICK s \in Subscriptions : s = preapprovals[a].reference /\ subs[s] \in SubscriptionRow
    BY <1>5, <2>1, PreapprovalHandler DEF SyncSubscription
  <2>3. PICK st : st = StatusAfterPreapproval(request[r].raw)
    OBVIOUS
  <2>4. Justifies(s, st)
    BY <2>1, <2>2, <2>3 DEF Justifies, StatusAfterPreapproval, WasAuthorized, Agreements
  <2>5. PICK row : row = [subs[s] EXCEPT !.status = st, !.externalId = a]
    OBVIOUS
  <2>6. row # None /\ row.status = st
    <3>1. st \in SubscriptionStatus
      BY <2>3 DEF StatusAfterPreapproval, SubscriptionStatus
    <3>2. row \in SubscriptionRow
      BY <2>2, <2>5, <3>1 DEF SubscriptionRow
    <3>3. QED BY <2>2, <2>5, <3>2, NullAssumption DEF SubscriptionRow
  <2>7. subs' = [subs EXCEPT ![s] = row]
    BY <1>5, <2>1, <2>2, <2>3, <2>5 DEF SyncSubscription
  <2>8. QED BY <2>4, <2>6, <2>7, StatusWritten
<1>6. QED
  BY <1>1, <1>2, <1>3, <1>4, <1>5
     DEF Next, EnrollingStep, WebhookStep, GatewayStep, FindSubscription,
         CountPayments, GeneratePayments, OpenPreapproval, CreatePayment, OpenLink, FindCancelled,
         CancelPreapproval, FetchCharge, LocatePayment, RecordPayment, FetchPreapproval, Abort,
         Stop, PayLink, ChargePreapproval, MoveCharge, MovePreapproval
-----------------------------------------------------------------------------
\* The empty tables satisfy the invariant.
LEMMA InitInvariant == ASSUME Init PROVE IInv
<1>1. TypeOK
  BY IdleIsARequest DEF Init, TypeOK
<1>2. InFlight
  BY DEF Init, InFlight, RequestFacts, EnrolFacts, Enrolling, CancelFacts, ChargeFacts, PreapprovalFacts, Idle
<1>3. QED
  BY <1>1, <1>2 DEF Init, IInv, Referential, PaymentIsBacked, StatusIsJustified, IsRow

\* The invariant is about the variables and nothing else.
LEMMA StutterInvariant == ASSUME IInv, UNCHANGED vars PROVE IInv'
<1> USE DEF IInv, vars
<1>1. TypeOK' BY DEF TypeOK
<1>2. Referential' BY DEF Referential
<1>3. InFlight'
  BY DEF InFlight, RequestFacts, EnrolFacts, Enrolling, CancelFacts, ChargeFacts, PreapprovalFacts
<1>4. PaymentIsBacked' BY DEF PaymentIsBacked, Backs
<1>5. StatusIsJustified'
  BY DEF StatusIsJustified, Justifies, HasPaid, HasFailed, HasRecord, WasAuthorized,
         ChargesFor, Agreements, PaymentsOf
<1>6. QED BY <1>1, <1>2, <1>3, <1>4, <1>5

\* One step keeps it.
LEMMA StepInvariant == ASSUME IInv, [Next]_vars PROVE IInv'
<1>1. ASSUME Next PROVE IInv'
  <2>1. TypeOK' BY <1>1, TypeStep
  <2>2. Grows BY <1>1, GrowStep
  <2>3. Referential' BY <1>1, <2>1, <2>2, ReferentialStep
  <2>4. InFlight' BY <1>1, <2>2, InFlightStep
  <2>5. PaymentIsBacked' BY <1>1, <2>2, PaymentStep
  <2>6. StatusIsJustified' BY <1>1, <2>2, StatusStep
  <2>7. QED BY <2>1, <2>3, <2>4, <2>5, <2>6 DEF IInv
<1>2. QED BY <1>1, StutterInvariant

\* IInv holds in every reachable state, whatever the number of users, rows,
\* requests and transactions, and whatever the gateway does to them.
THEOREM Invariance == Spec => []IInv
<1>1. Init => IInv
  BY InitInvariant
<1>2. IInv /\ [Next]_vars => IInv'
  BY StepInvariant
<1>3. QED BY <1>1, <1>2, PTL DEF Spec

\* The tables, the requests and the gateway's objects always have their types;
\* in particular no UPDATE ever meets a missing row.
THEOREM TypeCorrect == Spec => []TypeOK
<1>1. IInv => TypeOK BY DEF IInv
<1>2. QED BY <1>1, Invariance, PTL

\* No payment is COMPLETED, or FAILED, unless MercadoPago has said so of a
\* transaction made for it.
THEOREM PaymentsAreBacked == Spec => []PaymentIsBacked
<1>1. IInv => PaymentIsBacked BY DEF IInv
<1>2. QED BY <1>1, Invariance, PTL

\* No subscription is ACTIVE that nobody paid for or agreed to pay for.
THEOREM ActiveSubscriptionsAreBacked == Spec => []ActiveIsBacked
<1>1. IInv => ActiveIsBacked
  BY DEF IInv, StatusIsJustified, Justifies, ActiveIsBacked
<1>2. QED BY <1>1, Invariance, PTL

\* No subscription is in arrears, or cancelled, without a cause.
THEOREM ArrearsHaveACause == Spec => []ArrearsAreBacked
<1>1. IInv => ArrearsAreBacked
  BY DEF IInv, StatusIsJustified, Justifies, ArrearsAreBacked
<1>2. QED BY <1>1, Invariance, PTL

\* A handler never marks a subscription before its payment is recorded.
THEOREM PaymentsAreRecordedFirst == Spec => []RecordedBeforeMarked
<1>1. IInv => RecordedBeforeMarked
  BY DEF IInv, StatusIsJustified, Justifies, RecordedBeforeMarked
<1>2. QED BY <1>1, Invariance, PTL

\* When cancelSubscription writes CANCELLED, the preapproval it had found is
\* already cancelled at the gateway, and stays so.
THEOREM GatewayIsToldFirst == Spec => CancelTellsGatewayFirst
<1> DEFINE Told ==
      \A r \in Requests :
         /\ At(r, "cancelrow")
         /\ request[r].external # None
         /\ subs'[request[r].sub] # subs[request[r].sub]
         => preapprovals'[request[r].external].status = "cancelled"
<1>1. IInv /\ [Next]_vars => [Told]_vars
  <2>1. ASSUME IInv, Next PROVE Told
    <3>1. Grows BY <2>1, GrowStep
    <3>2. QED
      BY <2>1, <3>1 DEF Grows, IInv, InFlight, RequestFacts, CancelFacts, At
  <2>2. QED BY <2>1
<1>2. QED BY <1>1, Invariance, PTL DEF Spec, CancelTellsGatewayFirst
=============================================================================

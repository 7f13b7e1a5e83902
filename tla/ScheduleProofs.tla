--------------------------- MODULE ScheduleProofs ---------------------------
(***************************************************************************)
(* The schedules of Billing in every interleaving (ScheduleInv).           *)
(***************************************************************************)
EXTENDS BillingProofs

SameCourse(new, old) == new.student = old.student /\ new.plan = old.plan

\* What a schedule is made of never changes once it is written.
Kept ==
    /\ \A s \in Subscriptions : subs[s] # None =>
         subs'[s] # None /\ SameCourse(subs'[s], subs[s])
    /\ \A p \in Payments : pays[p] # None =>
         /\ pays'[p] # None
         /\ pays'[p].subscription = pays[p].subscription
         /\ pays'[p].origin = pays[p].origin
         /\ pays'[p].due = pays[p].due

\* The updates of a Subscription row leave its student and its plan alone,
LEMMA CourseKept ==
    \A row \in SubscriptionRow :
        /\ \A u \in Users : SameCourse(TakenOver(row, u), row)
        /\ \A st : SameCourse([row EXCEPT !.status = st], row)
        /\ \A st, a : SameCourse([row EXCEPT !.status = st, !.externalId = a], row)
BY DEF SubscriptionRow, TakenOver, SameCourse

\* and that of a Payment row its subscription, its due date and its origin.
LEMMA RecordedKeeps ==
    \A row \in PaymentRow : \A st, c :
        /\ Recorded(row, st, c).subscription = row.subscription
        /\ Recorded(row, st, c).origin = row.origin
        /\ Recorded(row, st, c).due = row.due
BY DEF PaymentRow, Recorded

LEMMA KeptStep == ASSUME IInv, IInv', Next PROVE Kept
<1> USE NullAssumption DEF tables, gateway, SameCourse
<1> TypeOK /\ TypeOK' BY DEF IInv
<1>0. Grows BY GrowStep
<1>1. CASE UNCHANGED tables
  BY <1>1 DEF Kept
<1>2. ASSUME NEW r \in Requests, WriteSubscription(r) PROVE Kept
  <2>1. CASE request[r].sub # None
    <3>1. PICK s \in Subscriptions : s = request[r].sub /\ subs[s] \in SubscriptionRow
      BY <1>2, <2>1, EnrolHandler DEF WriteSubscription
    <3>2. request[r].ask.payer \in Users
      BY <1>2, EnrolHandler DEF WriteSubscription, Checkout
    <3>3. subs' = [subs EXCEPT ![s] = TakenOver(subs[s], request[r].ask.payer)]
      BY <1>2, <2>1, <3>1 DEF WriteSubscription
    <3>4. SameCourse(subs'[s], subs[s])
      BY <3>1, <3>2, <3>3, CourseKept DEF TypeOK
    <3>5. \A t \in Subscriptions : t # s => subs'[t] = subs[t]
      BY <3>3 DEF TypeOK
    <3>6. QED BY <1>0, <1>2, <3>4, <3>5 DEF WriteSubscription, Kept, Grows, SameCourse
  <2>2. CASE request[r].sub = None
    BY <1>0, <1>2, <2>2 DEF WriteSubscription, Kept, Grows, TypeOK
  <2>3. QED BY <2>1, <2>2
<1>3. ASSUME NEW r \in Requests, GeneratePayments(r) PROVE Kept
  BY <1>0, <1>3 DEF GeneratePayments, Schedules, Kept, Grows
<1>4. ASSUME NEW r \in Requests, CreatePayment(r) PROVE Kept
  BY <1>0, <1>4 DEF CreatePayment, Kept, Grows, TypeOK
<1>5. ASSUME NEW r \in Requests, RecordPayment(r) PROVE Kept
  <2>1. PICK p \in Payments : p = request[r].pay /\ pays[p] \in PaymentRow
    BY <1>5, PaymentHandler DEF RecordPayment, At, TypeOK
  <2>2. PICK st : pays' = [pays EXCEPT ![p] = Recorded(@, st, request[r].external)]
    BY <1>5, <2>1 DEF RecordPayment
  <2>3. QED BY <1>0, <1>5, <2>1, <2>2, RecordedKeeps DEF RecordPayment, Kept, Grows, TypeOK
<1>6. ASSUME NEW r \in Requests, CancelRow(r) PROVE Kept
  <2>1. subs[request[r].sub] \in SubscriptionRow
    BY <1>6, CancelHandler DEF CancelRow
  <2>2. QED BY <1>0, <1>6, <2>1, CourseKept DEF CancelRow, Kept, Grows, TypeOK
<1>7. ASSUME NEW r \in Requests, MarkSubscription(r) PROVE Kept
  <2>1. PICK s \in Subscriptions : s = pays[request[r].pay].subscription /\ subs[s] \in SubscriptionRow
    BY <1>7, PaymentHandler, SubscriptionOfPayment DEF MarkSubscription, At
  <2>2. PICK st : subs' = [subs EXCEPT ![s].status = st]
    BY <1>7, <2>1 DEF MarkSubscription
  <2>3. SameCourse(subs'[s], subs[s]) /\ \A t \in Subscriptions : t # s => subs'[t] = subs[t]
    BY <2>1, <2>2, CourseKept DEF TypeOK
  <2>4. QED BY <1>0, <1>7, <2>3 DEF MarkSubscription, Kept, Grows
<1>8. ASSUME NEW r \in Requests, SyncSubscription(r) PROVE Kept
  <2>1. subs[preapprovals[request[r].external].reference] \in SubscriptionRow
    BY <1>8, PreapprovalHandler DEF SyncSubscription
  <2>2. QED BY <1>0, <1>8, <2>1, CourseKept DEF SyncSubscription, Kept, Grows, TypeOK
<1>9. QED
  BY <1>1, <1>2, <1>3, <1>4, <1>5, <1>6, <1>7, <1>8
     DEF Next, EnrollingStep, WebhookStep, GatewayStep, FindSubscription, CountPayments,
         OpenPreapproval, OpenLink, FindCancelled, CancelPreapproval, FetchCharge,
         LocatePayment, FetchPreapproval, Abort, Stop, PayLink, ChargePreapproval, MoveCharge,
         MovePreapproval

\* A complete schedule stays complete, and what is ready stays ready.
LEMMA FullKept ==
    ASSUME Kept, NEW s \in Subscriptions, subs[s] # None
    PROVE  /\ FullyScheduled(s) => FullyScheduled(s)'
           /\ IsReady(s) => IsReady(s)'
<1>1. \A p \in PaymentsOf(s) :
        /\ p \in PaymentsOf(s)'
        /\ pays'[p].origin = pays[p].origin
        /\ IsScheduled(p)' <=> IsScheduled(p)
  BY DEF Kept, PaymentsOf, IsScheduled
<1>2. Duration[subs'[s].plan] = Duration[subs[s].plan]
  BY DEF Kept, SameCourse
<1>3. FullyScheduled(s) => FullyScheduled(s)'
  BY <1>1, <1>2 DEF FullyScheduled
<1>4. QED BY <1>1, <1>3 DEF IsReady

-----------------------------------------------------------------------------
(***************************************************************************)
(* Every interleaving.                                                     *)
(***************************************************************************)
\* The rows a step adds.
Added == {p \in Payments : pays[p] = None /\ pays'[p] # None}

\* The rows createMany adds: all the installments of the plan of s, with their
\* dates.
LEMMA GeneratedRows ==
    ASSUME IInv, IInv', NEW r \in Requests, GeneratePayments(r)
    PROVE  LET s == request[r].sub
               months == 0 .. Duration[request[r].ask.plan] - 1
           IN \E start \in Starts, rows \in [months -> Payments] :
                /\ \A i \in months :
                     /\ rows[i] \in Added
                     /\ pays'[rows[i]].subscription = s
                     /\ pays'[rows[i]].origin = [start |-> start, number |-> i]
                     /\ pays'[rows[i]].due = Stamp(SetMonth(start, i))
                /\ \A p \in Added : \E i \in months : rows[i] = p
                /\ \A p \in Payments \ Added : pays'[p] = pays[p]
<1> DEFINE s == request[r].sub
           months == 0 .. Duration[request[r].ask.plan] - 1
<1>1. PICK start \in Starts, rows \in Schedules(Duration[request[r].ask.plan]) :
        pays' = [p \in Payments |->
                   IF \E i \in months : rows[i] = p
                   THEN Installment(s, request[r].ask.payer, start,
                                    CHOOSE i \in months : rows[i] = p)
                   ELSE pays[p]]
  BY DEF GeneratePayments
<1>2. /\ rows \in [months -> Payments]
      /\ \A i \in months : pays[rows[i]] = None
      /\ \A i, j \in months : rows[i] = rows[j] => i = j
  BY DEF Schedules
<1>3. ASSUME NEW i \in months
      PROVE  /\ pays'[rows[i]] = Installment(s, request[r].ask.payer, start, i)
             /\ pays'[rows[i]] # None
  <2>1. rows[i] \in Payments /\ (CHOOSE j \in months : rows[j] = rows[i]) = i
    BY <1>2
  <2>2. pays'[rows[i]] = Installment(s, request[r].ask.payer, start, i)
    BY <1>1, <2>1
  <2>3. Installment(s, request[r].ask.payer, start, i) \in PaymentRow
    <3>1. /\ s \in Subscriptions /\ request[r].ask.payer \in Users
      BY EnrolHandler DEF GeneratePayments, At, Checkout
    <3>2. pays'[rows[i]] \in PaymentRow \cup {None}
      BY <2>1 DEF IInv, TypeOK
    <3>3. i \in Nat /\ start \in Dates
      <4>1. Duration[request[r].ask.plan] \in Nat
        BY DurationAssumption, EnrolHandler DEF GeneratePayments, At, Checkout
      <4>2. QED BY <4>1, AskAssumption
    <3>4. Stamp(SetMonth(start, i)) \in Nat
      BY <3>3, SetMonthIsADate, StampRange DEF Dates
    <3>5. QED
      BY <3>1, <3>3, <3>4 DEF Installment, Unpaid, PaymentRow, PaymentStatus
  <2>4. QED BY <2>2, <2>3, NullAssumption
<1>4. \A p \in Payments : (~\E i \in months : rows[i] = p) => pays'[p] = pays[p]
  BY <1>1
<1>5. \A i \in months : rows[i] \in Added
  BY <1>2, <1>3 DEF Added
<1>6. \A p \in Added : \E i \in months : rows[i] = p
  BY <1>4 DEF Added
<1>7. \A p \in Payments \ Added : pays'[p] = pays[p]
  BY <1>4, <1>5
<1>8. ASSUME NEW i \in months
      PROVE  /\ pays'[rows[i]].subscription = s
             /\ pays'[rows[i]].origin = [start |-> start, number |-> i]
             /\ pays'[rows[i]].due = Stamp(SetMonth(start, i))
  <2>1. pays'[rows[i]] = Unpaid(s, request[r].ask.payer, Stamp(SetMonth(start, i)),
                                [start |-> start, number |-> i])
    BY <1>3 DEF Installment
  <2> HIDE DEF s
  <2>2. QED BY <2>1 DEF Unpaid
<1>9. /\ \A i \in months :
           /\ rows[i] \in Added
           /\ pays'[rows[i]].subscription = s
           /\ pays'[rows[i]].origin = [start |-> start, number |-> i]
           /\ pays'[rows[i]].due = Stamp(SetMonth(start, i))
      /\ \A p \in Added : \E i \in months : rows[i] = p
      /\ \A p \in Payments \ Added : pays'[p] = pays[p]
  BY <1>5, <1>6, <1>7, <1>8
<1>10. rows \in [months -> Payments]
  BY <1>2
<1> HIDE DEF s, months
<1>11. QED BY <1>9, <1>10 DEF s, months

\* The subscription a request is enrolling in, and its course.
LEMMA EnrolledCourse ==
    ASSUME IInv, ScheduleInv, NEW r \in Requests,
           At(r, "count") \/ At(r, "generate") \/ At(r, "preapprove")
    PROVE  /\ request[r].sub \in Subscriptions /\ subs[request[r].sub] # None
           /\ SameCourse(subs[request[r].sub], request[r].ask)
<1>1. request[r].sub \in Subscriptions /\ subs[request[r].sub] # None
  BY EnrolHandler, NullAssumption DEF At
<1>2. request[r].sub # None
  BY <1>1, IdAssumption
<1>3. QED BY <1>1, <1>2 DEF ScheduleInv, EnrolsInCourse, Enrolling, At, SameCourse

\* createMany leaves its subscription with the whole schedule.
LEMMA GeneratedFully ==
    ASSUME IInv, IInv', ScheduleInv, Kept, NEW r \in Requests, GeneratePayments(r),
           NEW s \in Subscriptions, s = request[r].sub
    PROVE  FullyScheduled(s)'
<1> DEFINE months == 0 .. Duration[request[r].ask.plan] - 1
<1>1. subs[s] # None /\ subs[s].plan = request[r].ask.plan
  BY EnrolledCourse DEF GeneratePayments, SameCourse
<1>2. subs'[s].plan = request[r].ask.plan
  BY <1>1 DEF Kept, SameCourse
<1>3. PICK start \in Starts, rows \in [months -> Payments] :
        \A i \in months : /\ rows[i] \in Added
                          /\ pays'[rows[i]].subscription = s
                          /\ pays'[rows[i]].origin = [start |-> start, number |-> i]
  BY GeneratedRows
<1>4. \A i \in months : /\ rows[i] \in PaymentsOf(s)'
                        /\ IsScheduled(rows[i])'
                        /\ pays'[rows[i]].origin.number = i
  <2> TAKE i \in months
  <2>1. rows[i] \in Payments /\ pays'[rows[i]] # None
    BY <1>3 DEF Added
  <2>2. i \in Nat
    <3>1. Duration[request[r].ask.plan] \in Nat
      BY DurationAssumption, EnrolHandler DEF GeneratePayments, At, Checkout
    <3>2. QED BY <3>1
  <2>3. PICK p \in Payments : p = rows[i]
    BY <2>1
  <2>4. [start |-> start, number |-> i] # None
    BY <2>2, NullAssumption
  <2>5. pays'[p].origin = [start |-> start, number |-> i] /\ pays'[p].subscription = s
    BY <1>3, <2>3
  <2>6. p \in PaymentsOf(s)' /\ IsScheduled(p)'
    BY <2>1, <2>3, <2>4, <2>5 DEF PaymentsOf, IsScheduled
  <2>7. pays'[p].origin.number = i
    BY <2>5
  <2>8. QED BY <2>3, <2>6, <2>7 DEF IsScheduled
<1>5. QED BY <1>2, <1>4 DEF FullyScheduled

\* Only createMany and payment.create add rows, and the latter adds a single one.
LEMMA AddedRows ==
    ASSUME IInv, Next
    PROVE  \/ \E r \in Requests : GeneratePayments(r)
           \/ \A p \in Added : ~IsScheduled(p)'
<1> USE DEF tables, gateway
<1>1. CASE UNCHANGED pays
  BY <1>1 DEF Added
<1>2. ASSUME NEW r \in Requests, CreatePayment(r) PROVE \A p \in Added : ~IsScheduled(p)'
  BY <1>2 DEF CreatePayment, Added, IsScheduled, Unpaid, IInv, TypeOK
<1>3. ASSUME NEW r \in Requests, RecordPayment(r) PROVE Added = {}
  BY <1>3, PaymentHandler DEF RecordPayment, At, Added, IInv, TypeOK
<1>4. QED
  BY <1>1, <1>2, <1>3
     DEF Next, EnrollingStep, WebhookStep, GatewayStep, FindSubscription, WriteSubscription,
         CountPayments, OpenPreapproval, OpenLink, FindCancelled, CancelPreapproval, CancelRow,
         FetchCharge, LocatePayment, MarkSubscription, FetchPreapproval, SyncSubscription, Abort, Stop,
         PayLink, ChargePreapproval, MoveCharge, MovePreapproval

LEMMA AllOrNoneStep ==
    ASSUME IInv, IInv', ScheduleInv, Kept, Next PROVE AllOrNone'
<1> SUFFICES ASSUME NEW p \in Payments, pays'[p] # None, IsScheduled(p)'
             PROVE  FullyScheduled(pays[p].subscription)'
  BY DEF AllOrNone, IsRow
<1>1. CASE pays[p] # None
  <2>1. /\ pays'[p].subscription = pays[p].subscription
        /\ IsScheduled(p)
        /\ pays[p].subscription \in Subscriptions
        /\ subs[pays[p].subscription] # None
    BY <1>1, SubscriptionOfPayment, NullAssumption DEF Kept, IsScheduled
  <2>2. FullyScheduled(pays[p].subscription)
    BY <1>1, <2>1 DEF ScheduleInv, AllOrNone, IsRow
  <2>3. QED BY <2>1, <2>2, FullKept DEF FullyScheduled, PaymentsOf, IsScheduled
<1>2. CASE pays[p] = None
  <2>1. PICK r \in Requests : GeneratePayments(r)
    BY <1>2, AddedRows DEF Added
  <2>2. PICK s \in Subscriptions : s = request[r].sub
    BY <2>1, EnrolledCourse DEF GeneratePayments
  <2>3. pays'[p].subscription = s
    <3>1. p \in Added
      BY <1>2 DEF Added
    <3>2. PICK start \in Starts, rows \in [0 .. Duration[request[r].ask.plan] - 1 -> Payments] :
            /\ \A i \in 0 .. Duration[request[r].ask.plan] - 1 : pays'[rows[i]].subscription = s
            /\ \A q \in Added : \E i \in 0 .. Duration[request[r].ask.plan] - 1 : rows[i] = q
      BY <2>1, <2>2, GeneratedRows
    <3>3. QED BY <3>1, <3>2
  <2>4. FullyScheduled(s)'
    BY <2>1, <2>2, GeneratedFully
  <2>5. QED BY <2>3, <2>4 DEF FullyScheduled, PaymentsOf, IsScheduled
<1>3. QED BY <1>1, <1>2

LEMMA DueStep ==
    ASSUME IInv, IInv', ScheduleInv, Kept, Next PROVE DueByCalendar'
<1> SUFFICES ASSUME NEW p \in Payments, pays'[p] # None, IsScheduled(p)'
             PROVE  pays'[p].due = Stamp(SetMonth(pays'[p].origin.start, pays'[p].origin.number))
  BY DEF DueByCalendar, IsRow, Stamp, SetMonth
<1>1. CASE pays[p] # None
  BY <1>1 DEF Kept, ScheduleInv, DueByCalendar, IsRow, IsScheduled
<1>2. CASE pays[p] = None
  <2>1. PICK r \in Requests : GeneratePayments(r)
    BY <1>2, AddedRows DEF Added
  <2>2. PICK start \in Starts, i \in 0 .. Duration[request[r].ask.plan] - 1 :
          /\ pays'[p].origin = [start |-> start, number |-> i]
          /\ pays'[p].due = Stamp(SetMonth(start, i))
    <3>1. p \in Added
      BY <1>2 DEF Added
    <3>2. PICK start \in Starts, rows \in [0 .. Duration[request[r].ask.plan] - 1 -> Payments] :
            /\ \A i \in 0 .. Duration[request[r].ask.plan] - 1 :
                 /\ pays'[rows[i]].origin = [start |-> start, number |-> i]
                 /\ pays'[rows[i]].due = Stamp(SetMonth(start, i))
            /\ \A q \in Added : \E i \in 0 .. Duration[request[r].ask.plan] - 1 : rows[i] = q
      BY <2>1, GeneratedRows
    <3>3. QED BY <3>1, <3>2
  <2>3. QED BY <2>2
<1>3. QED BY <1>1, <1>2

\* The actions that are not part of createSubscription's four awaits take their
\* request away from them; and the action that leads to another await is known.
LEMMA Elsewhere ==
    ASSUME TypeOK, NEW r \in Requests,
           \/ OpenPreapproval(r) \/ CreatePayment(r) \/ OpenLink(r)
           \/ FindCancelled(r) \/ CancelPreapproval(r) \/ CancelRow(r)
           \/ WebhookStep(r) \/ Abort(r)
    PROVE  /\ request'[r].at \notin Enrolling
           /\ request'[r].at = "locate" => FetchCharge(r)
           /\ request'[r].at = "record" => LocatePayment(r)
           /\ request'[r].at \in {"cancelpre", "cancelrow"} => FindCancelled(r) \/ CancelPreapproval(r)
           /\ \A q \in Requests : q # r => request'[q] = request[q]
<1> DEFINE Cancelling == {"cancelpre", "cancelrow"}
           Free == Waits \ (Enrolling \cup Cancelling \cup {"locate", "record"})
           Leaves == \E state : Become(r, state) /\ state.at \in Free
<1> USE DEF Waits, Enrolling
<1>1. request \in [Requests -> RequestState]
  BY DEF TypeOK
<1>2. ASSUME NEW state, Become(r, state)
      PROVE  request'[r] = state /\ \A q \in Requests : q # r => request'[q] = request[q]
  BY <1>1, <1>2 DEF Become
<1>3. ASSUME NEW place \in Free, GoTo(r, place) PROVE Leaves
  <2>1. [request[r] EXCEPT !.at = place].at = place
    BY <1>1 DEF RequestState
  <2>2. QED BY <1>3, <2>1 DEF GoTo
<1>4. ASSUME Finish(r) PROVE Leaves
  BY <1>4 DEF Finish, Idle
<1>5. ASSUME OpenPreapproval(r) \/ OpenLink(r) \/ CancelRow(r) \/ MarkSubscription(r)
             \/ SyncSubscription(r) \/ Abort(r)
      PROVE  Leaves
  BY <1>4, <1>5 DEF OpenPreapproval, OpenLink, CancelRow, MarkSubscription, SyncSubscription, Abort
<1>6. ASSUME CreatePayment(r) PROVE Leaves
  <2>1. \A p : [Idle EXCEPT !.at = "link", !.pay = p].at \in Free
    BY DEF Idle
  <2>2. QED BY <1>6, <2>1, Zenon DEF CreatePayment
<1>7. ASSUME FindCancelled(r) PROVE \E state : Become(r, state) /\ state.at \in Cancelling
  <2>1. \A place, s, a : place \in Cancelling =>
          [Idle EXCEPT !.at = place, !.sub = s, !.external = a].at \in Cancelling
    BY DEF Idle
  <2>2. \A a : CancelRoute(a) \in Cancelling
    BY DEF CancelRoute
  <2> HIDE DEF Cancelling
  <2>3. QED BY <1>7, <2>1, <2>2, Zenon DEF FindCancelled
<1>8. ASSUME FetchPreapproval(r) PROVE Leaves
  <2>1. \A a, raw : [Idle EXCEPT !.at = "sync", !.external = a, !.raw = raw].at \in Free
    BY DEF Idle
  <2>2. QED BY <1>8, <2>1, Zenon DEF FetchPreapproval
<1>9. ASSUME CancelPreapproval(r)
      PROVE  Leaves \/ \E state : Become(r, state) /\ state.at \in Cancelling
  <2>1. [request[r] EXCEPT !.at = "cancelrow"].at = "cancelrow"
    BY <1>1 DEF RequestState
  <2>2. QED BY <1>4, <1>9, <2>1 DEF CancelPreapproval, GoTo
<1>10. ASSUME RecordPayment(r) PROVE Leaves
  BY <1>3, <1>4, <1>10 DEF RecordPayment
<1>11. ASSUME FetchCharge(r) PROVE \E state : Become(r, state) /\ state.at = "locate"
  <2>1. \A c, raw : [Idle EXCEPT !.at = "locate", !.external = c, !.raw = raw].at = "locate"
    BY DEF Idle
  <2>2. QED BY <1>11, <2>1, Zenon DEF FetchCharge
<1>12. ASSUME LocatePayment(r)
       PROVE  Leaves \/ \E state : Become(r, state) /\ state.at = "record"
  <2>1. \A p : [request[r] EXCEPT !.at = "record", !.pay = p].at = "record"
    BY <1>1 DEF RequestState
  <2>2. QED BY <1>4, <1>12, <2>1 DEF LocatePayment
<1>13. CASE Leaves
  BY <1>2, <1>13
<1>14. QED
  BY <1>2, <1>5, <1>6, <1>7, <1>8, <1>9, <1>10, <1>11, <1>12, <1>13 DEF WebhookStep

\* A request that does not move still enrols in its plan.
LEMMA EnrolKept ==
    ASSUME IInv, ScheduleInv, Kept, NEW r \in Requests, request'[r] = request[r]
    PROVE  EnrolsInCourse(request[r])'
<1>1. CASE request[r].at \notin Enrolling
  BY <1>1 DEF EnrolsInCourse, Enrolling
<1>2. CASE request[r].at \in Enrolling
  <2>1. request[r].sub # None => request[r].sub \in Subscriptions /\ subs[request[r].sub] # None
    BY <1>2, EnrolHandler, NullAssumption DEF Enrolling, At
  <2>2. request[r].at = "preapprove" => request[r].sub \in Subscriptions /\ subs[request[r].sub] # None
    BY EnrolHandler, NullAssumption DEF At
  <2>3. PICK q : q = request[r]
    OBVIOUS
  <2>4. EnrolsInCourse(q)
    BY <2>3 DEF ScheduleInv
  <2>5. q.at = "preapprove" => IsReady(q.sub)'
    BY <2>2, <2>3, <2>4, FullKept DEF EnrolsInCourse
  <2>6. q.at \in Enrolling /\ q.sub # None => SameCourse(subs'[q.sub], q.ask)
    BY <2>1, <2>3, <2>4 DEF Kept, EnrolsInCourse, Enrolling, SameCourse
  <2>7. QED BY <2>3, <2>5, <2>6 DEF EnrolsInCourse, Enrolling, SameCourse, IsReady, FullyScheduled, PaymentsOf, IsScheduled
<1>3. QED BY <1>1, <1>2

LEMMA EnrolStep ==
    ASSUME IInv, IInv', ScheduleInv, Kept, Next
    PROVE  \A r \in Requests : EnrolsInCourse(request[r])'
<1> USE NullAssumption DEF tables, gateway, Enrolling, SameCourse
<1> TypeOK /\ TypeOK' BY DEF IInv
<1> request \in [Requests -> RequestState] BY DEF TypeOK
<1> SUFFICES ASSUME NEW q \in Requests PROVE EnrolsInCourse(request[q])'
  OBVIOUS
<1>0. CASE request'[q] = request[q]
  BY <1>0, EnrolKept
<1>1. CASE request'[q].at \notin Enrolling
  BY <1>1 DEF EnrolsInCourse, Enrolling
<1>2. ASSUME FindSubscription(q) PROVE EnrolsInCourse(request[q])'
  <2>1. PICK ask \in Checkouts, found \in Subscriptions \cup {None} :
          /\ Become(q, [Idle EXCEPT !.at = "write", !.ask = ask, !.sub = found])
          /\ found # None => SameCourse(subs[found], ask)
    BY <1>2 DEF FindSubscription, Current, SameCourse
  <2>2. PICK state : state = [Idle EXCEPT !.at = "write", !.ask = ask, !.sub = found]
    OBVIOUS
  <2>3. state.at = "write" /\ state.ask = ask /\ state.sub = found
    BY <2>2 DEF Idle
  <2>4. request'[q] = state
    BY <2>1, <2>2 DEF Become
  <2>5. QED BY <1>2, <2>1, <2>3, <2>4 DEF FindSubscription, EnrolsInCourse
<1>3. ASSUME WriteSubscription(q) PROVE EnrolsInCourse(request[q])'
  <2>1. request[q].ask \in Checkout
    BY <1>3, EnrolHandler DEF WriteSubscription
  <2>2. CASE request[q].sub # None
    <3>1. PICK s \in Subscriptions : s = request[q].sub /\ subs[s] # None
      BY <1>3, <2>2, EnrolHandler DEF WriteSubscription
    <3>2. SameCourse(subs[s], request[q].ask)
      BY <1>3, <2>2, <3>1 DEF WriteSubscription, At, ScheduleInv, EnrolsInCourse
    <3>3. request'[q] = [request[q] EXCEPT !.at = "count"]
      BY <1>3, <2>2 DEF WriteSubscription, GoTo, Become
    <3>4. request'[q].at = "count" /\ request'[q].sub = s /\ request'[q].ask = request[q].ask
      BY <3>1, <3>3 DEF RequestState
    <3>5. QED BY <3>1, <3>2, <3>4 DEF Kept, EnrolsInCourse
  <2>3. CASE request[q].sub = None
    <3>1. PICK s \in Subscriptions :
            /\ subs' = [subs EXCEPT ![s] = NewSubscription(request[q].ask)]
            /\ Become(q, [request[q] EXCEPT !.at = "count", !.sub = s])
      BY <1>3, <2>3 DEF WriteSubscription
    <3>2. PICK state : state = [request[q] EXCEPT !.at = "count", !.sub = s]
      OBVIOUS
    <3>3. state.at = "count" /\ state.sub = s /\ state.ask = request[q].ask
      BY <3>2 DEF RequestState
    <3>4. request'[q] = state
      BY <3>1, <3>2 DEF Become
    <3>5. SameCourse(subs'[s], request[q].ask)
      BY <3>1 DEF NewSubscription, TypeOK
    <3>6. QED BY <3>3, <3>4, <3>5 DEF EnrolsInCourse
  <2>4. QED BY <2>2, <2>3
<1>4. ASSUME CountPayments(q) PROVE EnrolsInCourse(request[q])'
  <2>1. PICK s \in Subscriptions : s = request[q].sub /\ subs[s] # None /\ SameCourse(subs[s], request[q].ask)
    BY <1>4, EnrolledCourse DEF CountPayments
  <2>2. request'[q] = [request[q] EXCEPT !.at = AfterCount(s)]
    BY <1>4, <2>1 DEF CountPayments, GoTo, Become
  <2>3. request'[q].at = AfterCount(s) /\ request'[q].sub = s /\ request'[q].ask = request[q].ask
    BY <2>1, <2>2 DEF RequestState
  <2>4. AfterCount(s) = "preapprove" => IsReady(s)
    <3>1. ASSUME NEW p \in PaymentsOf(s), IsScheduled(p) PROVE FullyScheduled(s)
      BY <3>1 DEF PaymentsOf, ScheduleInv, AllOrNone, IsRow
    <3>2. QED BY <3>1 DEF AfterCount, IsReady
  <2>5. AfterCount(s) = "preapprove" => IsReady(s)'
    BY <2>1, <2>4, FullKept
  <2>6. SameCourse(subs'[s], request[q].ask)
    BY <2>1 DEF Kept
  <2>7. QED BY <2>3, <2>5, <2>6 DEF EnrolsInCourse, IsReady, FullyScheduled, PaymentsOf, IsScheduled
<1>5. ASSUME GeneratePayments(q) PROVE EnrolsInCourse(request[q])'
  <2>1. PICK s \in Subscriptions : s = request[q].sub /\ subs[s] # None /\ SameCourse(subs[s], request[q].ask)
    BY <1>5, EnrolledCourse DEF GeneratePayments
  <2>2. request'[q] = [request[q] EXCEPT !.at = "preapprove"]
    BY <1>5 DEF GeneratePayments, GoTo, Become
  <2>3. request'[q].at = "preapprove" /\ request'[q].sub = s /\ request'[q].ask = request[q].ask
    BY <2>1, <2>2 DEF RequestState
  <2>4. IsReady(s)'
    BY <1>5, <2>1, GeneratedFully DEF IsReady
  <2>5. SameCourse(subs'[s], request[q].ask)
    BY <2>1 DEF Kept
  <2>6. QED BY <2>3, <2>4, <2>5 DEF EnrolsInCourse, IsReady, FullyScheduled, PaymentsOf, IsScheduled
<1>6. ASSUME NEW r \in Requests, r # q,
             FindSubscription(r) \/ WriteSubscription(r) \/ CountPayments(r) \/ GeneratePayments(r)
      PROVE  request'[q] = request[q]
  BY <1>6 DEF FindSubscription, WriteSubscription, CountPayments, GeneratePayments, GoTo, Become
<1>7. ASSUME NEW r \in Requests,
             \/ OpenPreapproval(r) \/ CreatePayment(r) \/ OpenLink(r)
             \/ FindCancelled(r) \/ CancelPreapproval(r) \/ CancelRow(r)
             \/ WebhookStep(r) \/ Abort(r)
      PROVE  EnrolsInCourse(request[q])'
  BY <1>0, <1>1, <1>7, Elsewhere
<1>8. CASE GatewayStep
  BY <1>0, <1>8 DEF GatewayStep, PayLink, ChargePreapproval, MoveCharge, MovePreapproval
<1>9. CASE Stop
  BY <1>1, <1>9 DEF Stop, Idle
<1>10. QED BY <1>0, <1>2, <1>3, <1>4, <1>5, <1>6, <1>7, <1>8, <1>9 DEF Next, EnrollingStep

LEMMA ReadyStep ==
    ASSUME IInv, IInv', ScheduleInv, Kept, Next PROVE ScheduleBeforePreapproval'
<1> SUFFICES ASSUME NEW s \in Subscriptions, NEW a \in Preapprovals,
                    preapprovals'[a] # None, preapprovals'[a].reference = s
             PROVE  IsReady(s)'
  BY DEF ScheduleBeforePreapproval, Agreements, IsReady
<1>1. CASE preapprovals[a] # None
  <2>1. Grows BY GrowStep
  <2>2. preapprovals[a].reference = s /\ subs[s] # None
    BY <1>1, <2>1 DEF Grows, IInv, Referential
  <2>3. IsReady(s)
    BY <1>1, <2>2 DEF ScheduleInv, ScheduleBeforePreapproval, Agreements, IsReady
  <2>4. QED BY <2>2, <2>3, FullKept
<1>2. CASE preapprovals[a] = None
  <2>1. PICK r \in Requests : OpenPreapproval(r) /\ s = request[r].sub
    <3>1. preapprovals' # preapprovals
      BY <1>2
    <3>2. ASSUME NEW r \in Requests, CancelPreapproval(r) PROVE FALSE
      BY <1>2, <3>2, CancelHandler, NullAssumption DEF CancelPreapproval, IInv, TypeOK
    <3>3. ASSUME NEW b \in Preapprovals, MovePreapproval(b) PROVE FALSE
      BY <1>2, <3>3 DEF MovePreapproval, IInv, TypeOK
    <3>4. PICK r \in Requests : OpenPreapproval(r)
      BY <3>1, <3>2, <3>3
         DEF Next, EnrollingStep, WebhookStep, GatewayStep, FindSubscription, WriteSubscription,
             CountPayments, GeneratePayments, CreatePayment, OpenLink, FindCancelled, CancelRow,
             FetchCharge, LocatePayment, RecordPayment, MarkSubscription, FetchPreapproval,
             SyncSubscription, Abort, Stop, PayLink, ChargePreapproval, MoveCharge, gateway
    <3>5. PICK b \in Preapprovals :
            preapprovals' = [preapprovals EXCEPT
                               ![b] = [reference |-> request[r].sub,
                                       status |-> "pending", seen |-> {"pending"}]]
      BY <3>4 DEF OpenPreapproval
    <3>6. a = b
      BY <1>2, <3>5 DEF IInv, TypeOK
    <3>7. preapprovals'[a].reference = request[r].sub
      BY <3>5, <3>6 DEF IInv, TypeOK
    <3>8. QED BY <3>4, <3>7
  <2>2. subs[s] # None /\ IsReady(s)
    BY <2>1, EnrolledCourse DEF OpenPreapproval, At, ScheduleInv, EnrolsInCourse
  <2>3. QED BY <2>2, FullKept
<1>3. QED BY <1>1, <1>2

LEMMA ScheduleInit == ASSUME Init PROVE ScheduleInv
BY DEF Init, Idle, ScheduleInv, AllOrNone, EnrolsInCourse, DueByCalendar, ScheduleBeforePreapproval,
       Agreements, IsRow

LEMMA ScheduleStep == ASSUME IInv, IInv', ScheduleInv, [Next]_vars PROVE ScheduleInv'
<1>1. CASE Next
  <2>1. Kept BY <1>1, KeptStep
  <2>2. QED
    BY <1>1, <2>1, AllOrNoneStep, EnrolStep, DueStep, ReadyStep DEF ScheduleInv
<1>2. CASE UNCHANGED vars
  <2>1. AllOrNone'
    BY <1>2 DEF vars, ScheduleInv, AllOrNone, FullyScheduled, IsScheduled, PaymentsOf, IsRow
  <2>2. ASSUME NEW r \in Requests PROVE EnrolsInCourse(request[r])'
    BY <1>2 DEF vars, ScheduleInv, EnrolsInCourse, IsReady, FullyScheduled, IsScheduled, PaymentsOf, IsRow
  <2>3. DueByCalendar'
    BY <1>2 DEF vars, ScheduleInv, DueByCalendar, IsScheduled, IsRow, Stamp, SetMonth
  <2>4. ScheduleBeforePreapproval'
    BY <1>2 DEF vars, ScheduleInv, ScheduleBeforePreapproval, FullyScheduled, IsScheduled, PaymentsOf,
                Agreements, IsRow
  <2>5. QED BY <2>1, <2>2, <2>3, <2>4 DEF ScheduleInv
<1>3. QED BY <1>1, <1>2

\* What schedules are in every reachable state.
THEOREM SchedulesHold == Spec => []ScheduleInv
<1>1. Init => ScheduleInv
  BY ScheduleInit
<1>2. IInv /\ IInv' /\ ScheduleInv /\ [Next]_vars => ScheduleInv'
  BY ScheduleStep
<1>3. QED BY <1>1, <1>2, Invariance, PTL DEF Spec

\* A payer is never asked to agree to charges before there is something to book
\* them on, whatever the length of the plan and however requests interleave.
THEOREM SchedulesComeFirst == Spec => []ScheduleBeforePreapproval
<1>1. ScheduleInv => ScheduleBeforePreapproval BY DEF ScheduleInv
<1>2. QED BY <1>1, SchedulesHold, PTL

\* The installments of a schedule fall due in order, one a month when every
\* month has their day, from whatever day and over whatever number of months.
THEOREM InstallmentsAreMonthly == Spec => []DueMonthly
<1>1. IInv /\ ScheduleInv => DueMonthly
  <2> SUFFICES ASSUME IInv, ScheduleInv, NEW p \in Payments, NEW q \in Payments,
                      IsRow(pays[p]), IsRow(pays[q]), IsScheduled(p), IsScheduled(q),
                      pays[p].origin.start = pays[q].origin.start,
                      pays[p].origin.number < pays[q].origin.number
               PROVE  /\ pays[p].due < pays[q].due
                      /\ pays[p].origin.start.day <= 28 =>
                           MonthOf(pays[q].due) - MonthOf(pays[p].due) =
                             pays[q].origin.number - pays[p].origin.number
    BY DEF DueMonthly
  <2> DEFINE i == pays[p].origin.number
             j == pays[q].origin.number
             start == pays[p].origin.start
  <2>1. i \in Nat /\ j \in Nat /\ start \in Dates
    BY AskAssumption DEF IInv, TypeOK, IsRow, IsScheduled, PaymentRow
  <2>2. pays[p].due = Stamp(SetMonth(start, i)) /\ pays[q].due = Stamp(SetMonth(start, j))
    BY DEF ScheduleInv, DueByCalendar
  <2> HIDE DEF i, j, start
  <2>3. pays[p].due < pays[q].due
    BY <2>1, <2>2, DatesAdvance DEF i, j
  <2>4. ASSUME start.day <= 28
        PROVE  MonthOf(pays[q].due) - MonthOf(pays[p].due) = j - i
    <3>1. MonthOf(pays[p].due) = start.month + i /\ MonthOf(pays[q].due) = start.month + j
      BY <2>1, <2>2, <2>4, OneDateAMonth
    <3>2. start.month \in Nat
      BY <2>1 DEF Dates
    <3>3. QED BY <2>1, <3>1, <3>2
  <2>5. QED BY <2>3, <2>4 DEF i, j, start
<1>2. QED BY <1>1, Invariance, SchedulesHold, PTL

=============================================================================

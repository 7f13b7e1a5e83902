---------------------------- MODULE ApartProofs ----------------------------
(***************************************************************************)
(* What Billing and Delivery keep as long as requests about one course do  *)
(* not overlap, for any number of courses and of requests at a time.  What *)
(* a request writes belongs to the course it is about (WritesSubs and      *)
(* WritesPays), so what another one has read is still so when that one     *)
(* writes (StillTrue).                                                     *)
(***************************************************************************)
EXTENDS Delivery, ScheduleProofs

\* A request takes a step of its own or fails.
Acts(q) == EnrollingStep(q) \/ WebhookStep(q) \/ Abort(q)

LEMMA OneMoves == Next => (\E q \in Requests : Acts(q)) \/ Stop \/ GatewayStep
BY DEF Next, Acts

\* Where the steps of createSubscription take their request.
LEMMA EnrollingMoves ==
    ASSUME TypeOK, NEW r \in Requests,
           FindSubscription(r) \/ WriteSubscription(r) \/ CountPayments(r) \/ GeneratePayments(r)
    PROVE  /\ request'[r].at \in Enrolling
           /\ request'[r].at = "write" => FindSubscription(r)
           /\ request'[r].at = "generate" => CountPayments(r)
           /\ \A q \in Requests : q # r => request'[q] = request[q]
<1>1. request \in [Requests -> RequestState]
  BY DEF TypeOK
<1>2. ASSUME FindSubscription(r) PROVE request'[r].at = "write"
  <2>1. \A ask, s : [Idle EXCEPT !.at = "write", !.ask = ask, !.sub = s].at = "write"
    BY DEF Idle
  <2>2. \E state : Become(r, state) /\ state.at = "write"
    BY <1>2, <2>1, Zenon DEF FindSubscription
  <2>3. QED BY <1>1, <2>2 DEF Become
<1>3. ASSUME NEW place, GoTo(r, place) PROVE request'[r].at = place
  <2>1. [request[r] EXCEPT !.at = place].at = place
    BY <1>1 DEF RequestState
  <2>2. QED BY <1>1, <1>3, <2>1 DEF GoTo, Become
<1>4. ASSUME WriteSubscription(r) PROVE request'[r].at = "count"
  <2>1. \A s : [request[r] EXCEPT !.at = "count", !.sub = s].at = "count"
    BY <1>1 DEF RequestState
  <2>2. ASSUME NEW s, Become(r, [request[r] EXCEPT !.at = "count", !.sub = s])
        PROVE  request'[r].at = "count"
    BY <1>1, <2>1, <2>2 DEF Become
  <2>3. QED BY <1>3, <1>4, <2>2 DEF WriteSubscription
<1>5. ASSUME CountPayments(r) PROVE request'[r].at \in {"generate", "preapprove"}
  BY <1>3, <1>5 DEF CountPayments, AfterCount
<1>6. ASSUME GeneratePayments(r) PROVE request'[r].at = "preapprove"
  BY <1>3, <1>6 DEF GeneratePayments
<1>7. \A q \in Requests : q # r => request'[q] = request[q]
  BY DEF FindSubscription, WriteSubscription, CountPayments, GeneratePayments, GoTo, Become, TypeOK
<1>8. QED BY <1>2, <1>4, <1>5, <1>6, <1>7 DEF Enrolling

\* The action that led a request where it is, and that the others stay.
LEMMA ComesFrom ==
    ASSUME TypeOK, NEW q \in Requests, Acts(q)
    PROVE  /\ request'[q].at = "write" => FindSubscription(q)
           /\ request'[q].at = "generate" => CountPayments(q)
           /\ request'[q].at = "locate" => FetchCharge(q)
           /\ request'[q].at = "record" => LocatePayment(q)
           /\ request'[q].at \in {"cancelpre", "cancelrow"} => FindCancelled(q) \/ CancelPreapproval(q)
           /\ \A r \in Requests : r # q => request'[r] = request[r]
<1>1. CASE FindSubscription(q) \/ WriteSubscription(q) \/ CountPayments(q) \/ GeneratePayments(q)
  BY <1>1, EnrollingMoves DEF Enrolling
<1>2. CASE ~(FindSubscription(q) \/ WriteSubscription(q) \/ CountPayments(q) \/ GeneratePayments(q))
  BY <1>2, Elsewhere DEF Acts, EnrollingStep, Enrolling
<1>3. QED BY <1>1, <1>2

-----------------------------------------------------------------------------
(***************************************************************************)
(* Courses.                                                                *)
(***************************************************************************)
CourseOf(p) == Course(pays[p].subscription)
Asked(r) == <<request[r].ask.student, request[r].ask.plan>>

\* What a request is about, now
LEMMA MatterNow ==
    ASSUME NEW r \in Requests
    PROVE  /\ request[r].at \in Enrolling => Matter(r) = {Asked(r)}
           /\ request[r].at \in {"cancelpre", "cancelrow"} => Matter(r) = {Course(request[r].sub)}
           /\ request[r].at \in {"locate", "record", "mark"} => Matter(r) = {Course(Billed(Reference(r)))}
           /\ request[r].at = "sync" => Matter(r) = {Course(preapprovals[request[r].external].reference)}
BY DEF Matter, Enrolling, Asked

\* and after a step.
LEMMA MatterThen ==
    ASSUME NEW r \in Requests
    PROVE  /\ request'[r].at \in Enrolling => Matter(r)' = {Asked(r)'}
           /\ request'[r].at = "link" => Matter(r)' = {CourseOf(request[r].pay)'}
           /\ request'[r].at \in {"locate", "record", "mark"} => Matter(r)' = {Course(Billed(Reference(r)))'}
BY DEF Matter, Enrolling, Asked, CourseOf

\* The course of a subscription never changes.
LEMMA CourseStays ==
    ASSUME Kept, NEW s \in Subscriptions, subs[s] # None
    PROVE  Course(s)' = Course(s)
BY DEF Kept, SameCourse, Course

\* A payment handler is about the subscription of the payment it found.
LEMMA BilledFound ==
    ASSUME IInv, NEW r \in Requests, At(r, "record") \/ At(r, "mark")
    PROVE  /\ Billed(Reference(r)) = pays[request[r].pay].subscription
           /\ Billed(Reference(r)) \in Subscriptions
           /\ subs[Billed(Reference(r))] \in SubscriptionRow
           /\ ~IsSingle(Reference(r)) => Reference(r) = pays[request[r].pay].subscription
<1>1. PICK p \in Payments : /\ p = request[r].pay
                            /\ pays[p] # None
                            /\ Reference(r) \in {p, pays[p].subscription}
  BY PaymentHandler DEF At
<1>2. pays[p].subscription \in Subscriptions /\ pays[p].subscription \notin Payments
      /\ subs[pays[p].subscription] \in SubscriptionRow
  BY <1>1, SubscriptionOfPayment, IdAssumption
<1>3. QED BY <1>1, <1>2 DEF Billed, IsSingle

\* A request enrols in the course it was asked for.
LEMMA EnrolsAsked ==
    ASSUME IInv, ScheduleInv, NEW r \in Requests, request[r].at \in Enrolling, request[r].sub # None
    PROVE  /\ request[r].sub \in Subscriptions
           /\ subs[request[r].sub] # None
           /\ Course(request[r].sub) = Asked(r)
<1>1. request[r].sub \in Subscriptions /\ subs[request[r].sub] # None
  BY EnrolHandler, NullAssumption DEF Enrolling, At
<1>2. QED BY <1>1 DEF ScheduleInv, EnrolsInCourse, Course, Asked

\* Only the gateway and stops act without a request, and they touch no row.
LEMMA NoRowTouched ==
    ASSUME Stop \/ GatewayStep
    PROVE  UNCHANGED tables
BY DEF Stop, GatewayStep, PayLink, ChargePreapproval, MoveCharge, MovePreapproval, tables

\* A request that writes a subscription is about its course.
LEMMA WritesSubs ==
    ASSUME IInv, ScheduleInv, Kept, NEW q \in Requests, Acts(q),
           NEW s \in Subscriptions, subs'[s] # subs[s]
    PROVE  Course(s)' \in Matter(q)
<1> TypeOK BY DEF IInv
<1>1. CASE WriteSubscription(q)
  <2>1. request[q].at \in Enrolling
    BY <1>1 DEF WriteSubscription, At, Enrolling
  <2>2. CASE request[q].sub # None
    <3>1. s = request[q].sub
      BY <1>1, <2>2 DEF WriteSubscription, TypeOK
    <3>2. QED BY <2>1, <2>2, <3>1, EnrolsAsked, MatterNow, CourseStays
  <2>3. CASE request[q].sub = None
    <3>1. subs'[s] = NewSubscription(request[q].ask)
      BY <1>1, <2>3 DEF WriteSubscription, TypeOK
    <3>2. Course(s)' = Asked(q)
      BY <3>1 DEF NewSubscription, Course, Asked
    <3>3. QED BY <2>1, <3>2, MatterNow
  <2>4. QED BY <2>2, <2>3
<1>2. CASE CancelRow(q)
  <2>1. s = request[q].sub /\ At(q, "cancelrow") /\ subs[s] # None
    BY <1>2, CancelHandler, NullAssumption DEF CancelRow, TypeOK
  <2>2. QED BY <2>1, CourseStays, MatterNow DEF At
<1>3. CASE MarkSubscription(q)
  <2>1. At(q, "mark") /\ s = Billed(Reference(q)) /\ subs[s] # None
    BY <1>3, BilledFound, NullAssumption DEF MarkSubscription, TypeOK
  <2>2. QED BY <2>1, CourseStays, MatterNow DEF At
<1>4. CASE SyncSubscription(q)
  <2>1. At(q, "sync") /\ s = preapprovals[request[q].external].reference /\ subs[s] # None
    BY <1>4, PreapprovalHandler, NullAssumption DEF SyncSubscription, TypeOK
  <2>2. QED BY <2>1, CourseStays, MatterNow DEF At
<1>5. QED
  BY <1>1, <1>2, <1>3, <1>4
     DEF Acts, EnrollingStep, WebhookStep, FindSubscription, CountPayments, GeneratePayments,
         OpenPreapproval, CreatePayment, OpenLink, FindCancelled, CancelPreapproval, FetchCharge,
         LocatePayment, RecordPayment, FetchPreapproval, Abort, tables

\* The rows that createMany adds are for the subscription of the request.
LEMMA AddedToAsked ==
    ASSUME IInv, IInv', NEW r \in Requests, GeneratePayments(r), NEW p \in Added
    PROVE  pays'[p].subscription = request[r].sub
<1> DEFINE months == 0 .. Duration[request[r].ask.plan] - 1
<1>1. PICK start \in Starts, rows \in [months -> Payments] :
        /\ \A i \in months : pays'[rows[i]].subscription = request[r].sub
        /\ \A t \in Added : \E i \in months : rows[i] = t
  BY GeneratedRows
<1>2. QED BY <1>1

\* A request that writes a payment is about the course it is for, before the
\* step or after it.
LEMMA WritesPays ==
    ASSUME IInv, IInv', ScheduleInv, Kept, NEW q \in Requests, Acts(q),
           NEW p \in Payments, pays'[p] # pays[p]
    PROVE  CourseOf(p)' \in Matter(q) \cup Matter(q)'
<1> TypeOK BY DEF IInv
<1>1. CASE GeneratePayments(q)
  <2>1. PICK s \in Subscriptions : s = request[q].sub /\ subs[s] # None
    BY <1>1, EnrolledCourse DEF GeneratePayments
  <2>2. pays'[p].subscription = s
    <3>1. pays[p] = None
      BY <1>1 DEF GeneratePayments, Schedules
    <3>2. QED BY <1>1, <2>1, <3>1, AddedToAsked DEF Added
  <2>3. request[q].at \in Enrolling
    BY <1>1 DEF GeneratePayments, At, Enrolling
  <2>4. Course(s)' = Asked(q)
    BY <2>1, <2>3, EnrolsAsked, CourseStays, IdAssumption
  <2>5. CourseOf(p)' = Course(s)'
    BY <2>2 DEF CourseOf, Course
  <2>6. QED BY <2>3, <2>4, <2>5, MatterNow
<1>2. CASE CreatePayment(q)
  <2>1. PICK t \in Payments :
          /\ \E row : pays' = [pays EXCEPT ![t] = row]
          /\ Become(q, [Idle EXCEPT !.at = "link", !.pay = t])
    BY <1>2 DEF CreatePayment
  <2>2. t = p
    BY <2>1 DEF TypeOK
  <2>3. request'[q] = [Idle EXCEPT !.at = "link", !.pay = p]
    BY <2>1, <2>2 DEF Become, TypeOK
  <2>4. request'[q].at = "link" /\ request'[q].pay = p
    BY <2>3 DEF Idle
  <2>5. CourseOf(request[q].pay)' = CourseOf(p)'
    BY <2>4 DEF CourseOf, Course
  <2>6. QED BY <2>4, <2>5, MatterThen
<1>3. CASE RecordPayment(q)
  <2>1. At(q, "record") /\ p = request[q].pay /\ pays[p] # None
    BY <1>3, PaymentHandler DEF RecordPayment, TypeOK, At
  <2>2. PICK s \in Subscriptions : s = pays[p].subscription /\ s = Billed(Reference(q)) /\ subs[s] # None
    BY <2>1, BilledFound, NullAssumption
  <2>3. pays'[p].subscription = s
    BY <2>1, <2>2 DEF Kept
  <2>4. CourseOf(p)' = Course(s)'
    BY <2>3 DEF CourseOf, Course
  <2>5. QED BY <2>1, <2>2, <2>4, CourseStays, MatterNow DEF At
<1>4. QED
  BY <1>1, <1>2, <1>3
     DEF Acts, EnrollingStep, WebhookStep, FindSubscription, WriteSubscription, CountPayments,
         OpenPreapproval, OpenLink, FindCancelled, CancelPreapproval, CancelRow, FetchCharge,
         LocatePayment, MarkSubscription, FetchPreapproval, SyncSubscription, Abort, tables

-----------------------------------------------------------------------------
(***************************************************************************)
(* What a request has read is still so when it writes.                     *)
(***************************************************************************)
\* Nothing that a request relies on is written by another one.
LEMMA Undisturbed ==
    ASSUME IInv, IInv', ScheduleInv, Kept, Next, Apart, Apart', NEW r \in Requests, StillTrue(r),
           NEW q \in Requests, Acts(q), q # r
    PROVE  StillTrue(r)'
<1> TypeOK BY DEF IInv
<1>1. request'[r] = request[r] /\ Matter(r) \cap Matter(q) = {} /\ Matter(r)' \cap Matter(q)' = {}
  BY ComesFrom DEF Apart
<1>2. ASSUME At(r, "write"), request[r].sub = None PROVE Current(request[r].ask)' = {}
  <2> SUFFICES ASSUME NEW s \in Subscriptions, subs'[s] # None,
                      subs'[s].student = request[r].ask.student,
                      subs'[s].plan = request[r].ask.plan,
                      subs'[s].status \in {"PENDING", "ACTIVE"}
               PROVE  FALSE
    BY <1>1 DEF Current
  <2>1. Current(request[r].ask) = {}
    BY <1>2 DEF StillTrue
  <2>2. subs'[s] # subs[s]
    BY <2>1 DEF Current
  <2>3. Course(s)' = Asked(r)
    BY DEF Course, Asked
  <2>4. Asked(r) \in Matter(r)
    BY <1>2, MatterNow DEF At, Enrolling
  <2>5. QED BY <1>1, <2>2, <2>3, <2>4, WritesSubs
<1>3. ASSUME At(r, "generate") PROVE PaymentsOf(request[r].sub)' = {}
  <2>1. PICK s \in Subscriptions : s = request[r].sub /\ subs[s] # None /\ Course(s) = Asked(r)
    BY <1>3, EnrolledCourse, EnrolsAsked, IdAssumption DEF At, Enrolling
  <2> SUFFICES ASSUME NEW p \in Payments, pays'[p] # None, pays'[p].subscription = s
               PROVE  FALSE
    BY <1>1, <2>1 DEF PaymentsOf
  <2>2. pays'[p] # pays[p]
    BY <1>3, <2>1 DEF StillTrue, PaymentsOf
  <2>3. CourseOf(p)' = Course(s) /\ Asked(r)' = Asked(r)
    BY <1>1, <2>1, CourseStays DEF CourseOf, Course, Asked
  <2>4. Matter(r) = {Course(s)} /\ Matter(r)' = {Course(s)}
    BY <1>1, <1>3, <2>1, <2>3, MatterNow, MatterThen DEF At, Enrolling
  <2>5. QED BY <1>1, <2>2, <2>3, <2>4, WritesPays
<1>4. ASSUME At(r, "record"), ~IsSingle(Reference(r))' PROVE pays'[request[r].pay].status = "PENDING"
  <2>1. PICK p \in Payments : p = request[r].pay /\ pays[p] # None
    BY <1>4, PaymentHandler DEF At
  <2>2. Reference(r)' = Reference(r)
    BY <1>1, <1>4, GrowStep, PaymentHandler, NullAssumption DEF Grows, Reference
  <2>3. ~IsSingle(Reference(r))
    BY <1>4, <2>2 DEF IsSingle
  <2>4. pays[p].status = "PENDING"
    BY <1>4, <2>1, <2>3 DEF StillTrue
  <2>5. PICK s \in Subscriptions : s = pays[p].subscription /\ s = Billed(Reference(r)) /\ subs[s] # None
    BY <1>4, <2>1, BilledFound, NullAssumption
  <2>6. CourseOf(p)' = Course(s)
    BY <2>1, <2>5, CourseStays DEF CourseOf, Course, Kept
  <2>7. Course(Billed(Reference(r)))' = Course(s)
    <3>1. Billed(Reference(r))' = s
      BY <2>2, <2>3, <2>5 DEF Billed, IsSingle
    <3>2. Course(Billed(Reference(r)))' = Course(s)'
      BY <3>1 DEF Course
    <3>3. QED BY <2>5, <3>2, CourseStays
  <2>8. Matter(r) = {Course(s)} /\ Matter(r)' = {Course(s)}
    BY <1>1, <1>4, <2>5, <2>7, MatterNow, MatterThen DEF At
  <2>9. pays'[p] = pays[p]
    BY <1>1, <2>6, <2>8, WritesPays
  <2>10. QED BY <2>1, <2>4, <2>9
<1>5. ASSUME At(r, "cancelpre") \/ At(r, "cancelrow")
      PROVE  request[r].external = subs'[request[r].sub].externalId
  <2>1. PICK s \in Subscriptions : s = request[r].sub /\ subs[s] # None
    BY <1>5, CancelHandler, NullAssumption DEF IInv, TypeOK
  <2>2. Course(s)' \in Matter(r)
    BY <1>5, <2>1, MatterNow, CourseStays DEF At
  <2>3. subs'[s] = subs[s]
    BY <1>1, <2>2, WritesSubs
  <2>4. QED BY <1>5, <2>1, <2>3 DEF StillTrue
<1>6. QED BY <1>1, <1>2, <1>3, <1>4, <1>5 DEF StillTrue, At

\* What a request reads is so when it reads it.
LEMMA ReadsTrue ==
    ASSUME IInv, IInv', NEW r \in Requests, StillTrue(r), Acts(r)
    PROVE  StillTrue(r)'
<1> TypeOK BY DEF IInv
<1> request \in [Requests -> RequestState] BY DEF TypeOK
<1>1. ASSUME request'[r].at = "write", request'[r].sub = None PROVE Current(request[r].ask)' = {}
  <2>1. FindSubscription(r)
    BY <1>1, ComesFrom
  <2>2. PICK ask \in Checkouts, found \in Subscriptions \cup {None} :
          /\ Become(r, [Idle EXCEPT !.at = "write", !.ask = ask, !.sub = found])
          /\ found = None => Current(ask) = {}
    <3>1. PICK ask \in Checkouts : \E found \in IF Current(ask) = {} THEN {None} ELSE Current(ask) :
            Become(r, [Idle EXCEPT !.at = "write", !.ask = ask, !.sub = found])
      BY <2>1 DEF FindSubscription
    <3>2. Current(ask) \subseteq Subscriptions
      BY DEF Current
    <3>3. QED BY <3>1, <3>2, IdAssumption
  <2>3. PICK state : state = [Idle EXCEPT !.at = "write", !.ask = ask, !.sub = found]
    OBVIOUS
  <2>4. state.ask = ask /\ state.sub = found
    BY <2>3 DEF Idle
  <2>5. request'[r] = state
    BY <2>2, <2>3 DEF Become
  <2>6. Current(ask) = {}
    BY <1>1, <2>2, <2>4, <2>5
  <2>7. request'[r].ask = ask /\ UNCHANGED subs
    BY <2>1, <2>4, <2>5 DEF FindSubscription, tables
  <2>8. QED BY <2>6, <2>7 DEF Current
<1>2. ASSUME request'[r].at = "generate" PROVE PaymentsOf(request[r].sub)' = {}
  <2>1. CountPayments(r)
    BY <1>2, ComesFrom
  <2>2. request'[r] = [request[r] EXCEPT !.at = AfterCount(request[r].sub)] /\ UNCHANGED pays
    BY <2>1 DEF CountPayments, GoTo, Become, tables
  <2>3. request'[r].at = AfterCount(request[r].sub) /\ request'[r].sub = request[r].sub
    BY <2>2 DEF RequestState
  <2>4. PaymentsOf(request[r].sub)' = PaymentsOf(request[r].sub)
    BY <2>2, <2>3 DEF PaymentsOf
  <2>5. QED BY <1>2, <2>3, <2>4 DEF AfterCount
<1>3. ASSUME request'[r].at = "record", ~IsSingle(Reference(r))' PROVE pays'[request'[r].pay].status = "PENDING"
  <2>1. LocatePayment(r) /\ UNCHANGED <<pays, charges>>
    BY <1>3, ComesFrom DEF LocatePayment, tables, gateway
  <2>2. ASSUME NEW p, Become(r, [request[r] EXCEPT !.at = "record", !.pay = p])
        PROVE  request'[r].pay = p /\ request'[r].external = request[r].external
    <3>1. [request[r] EXCEPT !.at = "record", !.pay = p].pay = p
      BY DEF RequestState
    <3>2. [request[r] EXCEPT !.at = "record", !.pay = p].external = request[r].external
      BY DEF RequestState
    <3>3. QED BY <2>2, <3>1, <3>2 DEF Become
  <2>3. ~Finish(r)
    BY <1>3 DEF Finish, Become, Idle
  <2>4. CASE IsSingle(Reference(r)) /\ Become(r, [request[r] EXCEPT !.at = "record", !.pay = Reference(r)])
    BY <1>3, <2>1, <2>2, <2>4 DEF Reference, IsSingle
  <2>5. ASSUME NEW p \in OldestPending(Reference(r)), Become(r, [request[r] EXCEPT !.at = "record", !.pay = p])
        PROVE  pays'[request'[r].pay].status = "PENDING"
    BY <2>1, <2>2, <2>5 DEF OldestPending
  <2>6. QED BY <2>1, <2>3, <2>4, <2>5 DEF LocatePayment
<1>4. ASSUME request'[r].at \in {"cancelpre", "cancelrow"}
      PROVE  request'[r].external = subs'[request'[r].sub].externalId
  <2>1. CASE FindCancelled(r)
    <3>1. PICK s \in Subscriptions :
            Become(r, [Idle EXCEPT !.at = CancelRoute(subs[s].externalId),
                                   !.sub = s, !.external = subs[s].externalId])
      BY <2>1 DEF FindCancelled
    <3>2. \A at, a, t : LET state == [Idle EXCEPT !.at = at, !.sub = t, !.external = a]
                        IN  state.sub = t /\ state.external = a
      BY DEF Idle
    <3>3. request'[r] = [Idle EXCEPT !.at = CancelRoute(subs[s].externalId),
                                   !.sub = s, !.external = subs[s].externalId]
      BY <3>1 DEF Become
    <3>4. request'[r].sub = s /\ request'[r].external = subs[s].externalId
      BY <3>2, <3>3
    <3>5. QED BY <2>1, <3>4 DEF FindCancelled, tables
  <2>2. CASE CancelPreapproval(r)
    <3>1. ~Finish(r)
      BY <1>4 DEF Finish, Become, Idle
    <3>2. request'[r] = [request[r] EXCEPT !.at = "cancelrow"]
      BY <2>2, <3>1 DEF CancelPreapproval, GoTo, Become
    <3>3. request'[r].sub = request[r].sub /\ request'[r].external = request[r].external
      BY <3>2 DEF RequestState
    <3>4. QED BY <2>2, <3>3 DEF CancelPreapproval, StillTrue, tables
  <2>3. QED BY <1>4, <2>1, <2>2, ComesFrom
<1>5. QED BY <1>1, <1>2, <1>3, <1>4 DEF StillTrue, At

LEMMA StillTrueStep ==
    ASSUME IInv, IInv', ScheduleInv, Kept, Next, Apart, Apart', NEW r \in Requests, StillTrue(r)
    PROVE  StillTrue(r)'
<1>1. CASE GatewayStep
  <2>1. UNCHANGED <<subs, pays, request>>
    BY <1>1 DEF GatewayStep, PayLink, ChargePreapproval, MoveCharge, MovePreapproval, tables
  <2>2. At(r, "record") => Reference(r)' = Reference(r)
    BY <2>1, GrowStep, PaymentHandler, NullAssumption DEF Grows, Reference
  <2>3. QED BY <2>1, <2>2 DEF StillTrue, At, IsSingle, PaymentsOf, Current
<1>2. CASE Stop
  BY <1>2 DEF Stop, StillTrue, At, Idle
<1>3. QED BY <1>1, <1>2, OneMoves, Undisturbed, ReadsTrue

-----------------------------------------------------------------------------
(***************************************************************************)
(* The theorems about Billing.                                             *)
(***************************************************************************)
\* A recorded payment names the transaction of the handler.
LEMMA RecordedExternal == \A row \in PaymentRow : \A st, c : Recorded(row, st, c).externalId = c
BY DEF PaymentRow, Recorded

\* Only RecordPayment rewrites a row of Payment.
LEMMA RowsKept ==
    ASSUME TypeOK, NEW r \in Requests, Acts(r), ~RecordPayment(r)
    PROVE  \A p \in Payments : pays[p] # None => pays'[p] = pays[p]
<1> USE DEF tables
<1>1. CASE GeneratePayments(r)
  BY <1>1 DEF GeneratePayments, Schedules
<1>2. CASE CreatePayment(r)
  BY <1>2 DEF CreatePayment, TypeOK
<1>3. QED
  BY <1>1, <1>2
     DEF Acts, EnrollingStep, WebhookStep, FindSubscription, WriteSubscription, CountPayments,
         OpenPreapproval, OpenLink, FindCancelled, CancelPreapproval, CancelRow, FetchCharge,
         LocatePayment, MarkSubscription, FetchPreapproval, SyncSubscription, Abort

LEMMA RowsRewritten ==
    ASSUME IInv, Next
    PROVE  \/ \E r \in Requests : RecordPayment(r)
           \/ \A p \in Payments : pays[p] # None => pays'[p] = pays[p]
BY OneMoves, NoRowTouched, RowsKept DEF IInv, tables

LEMMA OneScheduleStep ==
    ASSUME IInv, IInv', ScheduleInv, ApartInv, Kept, Next PROVE OneSchedule'
<1> SUFFICES ASSUME NEW p \in Payments, NEW q \in Payments,
                    pays'[p] # None, pays'[q] # None, IsScheduled(p)', IsScheduled(q)',
                    pays'[p].subscription = pays'[q].subscription,
                    pays'[p].origin.number = pays'[q].origin.number
             PROVE  p = q
  BY DEF OneSchedule, IsRow
<1>1. CASE pays[p] # None /\ pays[q] # None
  BY <1>1 DEF Kept, ApartInv, OneSchedule, IsRow, IsScheduled
<1>2. CASE pays[p] = None \/ pays[q] = None
  <2>1. PICK r \in Requests : GeneratePayments(r)
    BY <1>2, AddedRows DEF Added
  <2> DEFINE months == 0 .. Duration[request[r].ask.plan] - 1
  <2>2. PICK s \in Subscriptions : s = request[r].sub
    BY <2>1, EnrolledCourse DEF GeneratePayments
  <2>3. PICK start \in Starts, rows \in [months -> Payments] :
          /\ \A i \in months : /\ pays'[rows[i]].subscription = s
                               /\ pays'[rows[i]].origin = [start |-> start, number |-> i]
          /\ \A t \in Added : \E i \in months : rows[i] = t
    BY <2>1, <2>2, GeneratedRows
  <2>4. PaymentsOf(s) = {}
    BY <2>1, <2>2 DEF ApartInv, StillTrue, GeneratePayments
  <2>5. \A t \in Added : pays'[t].subscription = s
    BY <2>3
  <2>6. pays'[p].subscription = s /\ pays'[q].subscription = s
    BY <1>2, <2>5 DEF Added
  <2>7. ASSUME NEW t \in Payments, pays[t] # None PROVE pays'[t].subscription # s
    BY <2>4, <2>7 DEF PaymentsOf, Kept
  <2>8. p \in Added /\ q \in Added
    BY <2>6, <2>7 DEF Added
  <2>9. PICK i \in months, j \in months : rows[i] = p /\ rows[j] = q
    BY <2>3, <2>8
  <2>10. pays'[p].origin = [start |-> start, number |-> i] /\ pays'[q].origin = [start |-> start, number |-> j]
    BY <2>3, <2>9
  <2>11. QED BY <2>9, <2>10
<1>3. QED BY <1>1, <1>2

\* Only WriteSubscription makes a row of Subscription.
LEMMA RowsMade ==
    ASSUME IInv, Next, NEW s \in Subscriptions, subs[s] = None, subs'[s] # None
    PROVE  \E r \in Requests : WriteSubscription(r)
<1> USE DEF tables
<1> TypeOK BY DEF IInv
<1>1. ASSUME NEW r \in Requests, CancelRow(r) PROVE FALSE
  BY <1>1, CancelHandler, NullAssumption DEF CancelRow, TypeOK
<1>2. ASSUME NEW r \in Requests, MarkSubscription(r) PROVE FALSE
  <2>1. subs[pays[request[r].pay].subscription] # None
    BY <1>2, PaymentHandler, SubscriptionOfPayment, NullAssumption DEF MarkSubscription, At
  <2>2. QED BY <1>2, <2>1 DEF MarkSubscription, TypeOK
<1>3. ASSUME NEW r \in Requests, SyncSubscription(r) PROVE FALSE
  BY <1>3, PreapprovalHandler, NullAssumption DEF SyncSubscription, TypeOK
<1>4. QED
  BY <1>1, <1>2, <1>3, NoRowTouched
     DEF Next, EnrollingStep, WebhookStep, FindSubscription, CountPayments, GeneratePayments,
         OpenPreapproval, CreatePayment, OpenLink, FindCancelled, CancelPreapproval, FetchCharge,
         LocatePayment, RecordPayment, FetchPreapproval, Abort

\* With requests about one course kept apart, what one has read holds until it
\* writes, and a subscription has one schedule at most.
LEMMA ApartInvInit == ASSUME Init PROVE ApartInv
BY DEF Init, ApartInv, OneSchedule, StillTrue, At, Idle, IsRow

LEMMA ApartInvStep ==
    ASSUME IInv, IInv', ScheduleInv, ApartInv, Apart, [Next /\ Apart']_vars
    PROVE  ApartInv'
<1>1. CASE Next /\ Apart'
  <2>1. Kept BY <1>1, KeptStep
  <2>2. QED BY <1>1, <2>1, OneScheduleStep, StillTrueStep DEF ApartInv
<1>2. CASE UNCHANGED vars
  BY <1>2 DEF vars, ApartInv, OneSchedule, StillTrue, At, IsSingle, Reference, PaymentsOf, Current,
              IsRow, IsScheduled
<1>3. QED BY <1>1, <1>2

\* No request is about anything when the system starts.
LEMMA ApartInit == ASSUME Init PROVE Apart
BY DEF Init, Apart, Matter, Idle, Enrolling

LEMMA ApartStep == ASSUME Apart, [Next /\ Apart']_vars PROVE Apart'
<1>1. CASE UNCHANGED vars
  <2>1. \A r \in Requests : Matter(r)' = Matter(r)
    BY <1>1 DEF vars, Matter, Reference, Billed, Course, IsSingle
  <2>2. QED BY <2>1 DEF Apart
<1>2. QED BY <1>1

\* What is proved of every interleaving holds of these.
LEMMA ApartIsBilling == ApartSpec => Spec
<1>1. [Next /\ Apart']_vars => [Next]_vars
  OBVIOUS
<1>2. QED BY <1>1, PTL DEF ApartSpec, Spec

\* Whatever the number of requests at a time and of courses, as long as no two
\* requests are about the same course, what one has read holds until it writes.
THEOREM RequestsApartAreRight == ApartSpec => [](Apart /\ ApartInv)
<1>1. Init => Apart /\ ApartInv
  BY ApartInit, ApartInvInit
<1>2. IInv /\ IInv' /\ ScheduleInv /\ Apart /\ ApartInv /\ [Next /\ Apart']_vars
        => (Apart /\ ApartInv)'
  BY ApartStep, ApartInvStep
<1>3. QED BY <1>1, <1>2, ApartIsBilling, Invariance, SchedulesHold, PTL DEF ApartSpec

\* Then a subscription never gets a second schedule, however often it is asked
\* for and wherever the requests for it stopped.
THEOREM SchedulesAreSingle == ApartSpec => []OneSchedule
<1>1. ApartInv => OneSchedule BY DEF ApartInv
<1>2. QED BY <1>1, RequestsApartAreRight, PTL

\* And a recurring charge never overwrites what was recorded of another.
THEOREM SettledPaymentsAreKept == ApartSpec => SettledKept
<1> DEFINE Booked ==
      \A p \in Payments :
         /\ IsRow(pays[p])
         /\ pays[p].status # "PENDING"
         /\ pays'[p] # pays[p]
         => IsSingle(charges[pays'[p].externalId].reference)
<1>1. IInv /\ ApartInv /\ [Next]_vars => [Booked]_vars
  <2>1. ASSUME IInv, ApartInv, Next PROVE Booked
    <3> SUFFICES ASSUME NEW p \in Payments, pays[p] # None, pays[p].status # "PENDING",
                        pays'[p] # pays[p]
                 PROVE  IsSingle(charges[pays'[p].externalId].reference)
      BY DEF IsRow
    <3>1. PICK r \in Requests : RecordPayment(r)
      BY <2>1, RowsRewritten
    <3>2. p = request[r].pay
      BY <2>1, <3>1 DEF RecordPayment, IInv, TypeOK
    <3>3. pays'[p].externalId = request[r].external
      BY <2>1, <3>1, <3>2, RecordedExternal DEF RecordPayment, IInv, TypeOK
    <3>4. IsSingle(Reference(r))
      BY <2>1, <3>1, <3>2 DEF ApartInv, StillTrue, RecordPayment
    <3>5. QED BY <3>3, <3>4 DEF Reference
  <2>2. QED BY <2>1
<1>2. QED BY <1>1, ApartIsBilling, Invariance, RequestsApartAreRight, PTL DEF Spec, SettledKept

\* A subscription is made only when none is alive for its course.
THEOREM EnrolmentsAreSingle == ApartSpec => EnrolledOnce
<1> DEFINE Once ==
      \A s \in Subscriptions : subs[s] = None /\ subs'[s] # None =>
         \A t \in Subscriptions :
             IsRow(subs[t]) /\ subs[t].status \in {"PENDING", "ACTIVE"} =>
                 Course(t) # Course(s)'
<1>1. IInv /\ ApartInv /\ [Next]_vars => [Once]_vars
  <2>1. ASSUME IInv, ApartInv, Next PROVE Once
    <3> TypeOK BY <2>1 DEF IInv
    <3> SUFFICES ASSUME NEW s \in Subscriptions, subs[s] = None, subs'[s] # None,
                        NEW t \in Subscriptions, subs[t] # None,
                        subs[t].status \in {"PENDING", "ACTIVE"}
                 PROVE  Course(t) # Course(s)'
      BY DEF IsRow
    <3>1. PICK r \in Requests : WriteSubscription(r)
      BY <2>1, RowsMade
    <3>2. request[r].sub = None
      BY <2>1, <3>1, EnrolHandler, NullAssumption DEF WriteSubscription, TypeOK
    <3>3. subs'[s] = NewSubscription(request[r].ask)
      BY <3>1, <3>2 DEF WriteSubscription, TypeOK
    <3>4. Course(s)' = Asked(r)
      BY <3>3 DEF NewSubscription, Course, Asked
    <3>5. t \notin Current(request[r].ask)
      BY <2>1, <3>1, <3>2 DEF ApartInv, StillTrue, WriteSubscription
    <3>6. QED BY <3>4, <3>5 DEF Current, Course, Asked
  <2>2. QED BY <2>1
<1>2. QED BY <1>1, ApartIsBilling, Invariance, RequestsApartAreRight, PTL DEF Spec, EnrolledOnce

\* A cancellation that writes CANCELLED has cancelled the preapproval that the
\* subscription has then, not only the one it had when the request began.
THEOREM CancellationsReachTheGateway == ApartSpec => CancelReachesGateway
<1> DEFINE Reached ==
      \A r \in Requests :
         LET s == request[r].sub
         IN /\ At(r, "cancelrow")
            /\ subs' # subs
            /\ subs'[s].status = "CANCELLED"
            /\ ~(request'[r].at = "cancelrow")
            /\ subs[s].externalId # None
            => preapprovals[subs[s].externalId].status = "cancelled"
<1>1. IInv /\ ApartInv /\ [Next]_vars => [Reached]_vars
  <2>1. ASSUME IInv, ApartInv, NEW r \in Requests, At(r, "cancelrow"),
               subs[request[r].sub].externalId # None
        PROVE  preapprovals[subs[request[r].sub].externalId].status = "cancelled"
    <3>1. request[r].external = subs[request[r].sub].externalId
      BY <2>1 DEF ApartInv, StillTrue
    <3>2. CancelFacts(request[r])
      BY <2>1 DEF IInv, InFlight, RequestFacts
    <3>3. QED BY <2>1, <3>1, <3>2 DEF CancelFacts, At
  <2>2. QED BY <2>1
<1>2. QED BY <1>1, ApartIsBilling, Invariance, RequestsApartAreRight, PTL DEF Spec, CancelReachesGateway


-----------------------------------------------------------------------------
(***************************************************************************)
(* A charge that is approved once.                                         *)
(***************************************************************************)
\* The rows that say a charge was paid are backed by its approval.
LEMMA PaidWasApproved ==
    ASSUME IInv, NEW p \in Payments, pays[p] # None, pays[p].status = "COMPLETED",
           NEW c \in Charges, pays[p].externalId = c
    PROVE  charges[c] # None /\ "approved" \in charges[c].seen
BY IdAssumption DEF IInv, PaymentIsBacked, Backs, IsRow

LEMMA ChargesStep ==
    ASSUME IInv, NEW Early, NeverReapproved(Early), PastApproval(Early), Next,
           NEW c \in Charges, charges'[c] # None, "approved" \in charges'[c].seen,
           charges'[c].status # "approved"
    PROVE  charges'[c].status \notin Early
<1> USE DEF gateway
<1> TypeOK BY DEF IInv
<1>1. CASE charges'[c] = charges[c]
  BY <1>1 DEF PastApproval
<1>2. ASSUME NEW b \in Charges, NEW ref, charges[b] = None,
             charges' = [charges EXCEPT ![b] = NewCharge(ref)]
      PROVE  c # b /\ charges'[c] = charges[c]
  BY <1>2 DEF NewCharge, TypeOK
<1>3. ASSUME NEW b \in Charges, MoveCharge(b), b = c PROVE charges'[c].status \notin Early
  <2>1. PICK move \in ChargeMoves :
          charges[c].status = move[1] /\ charges'[c] = Reported(charges[c], move[2])
    BY <1>3 DEF MoveCharge, TypeOK
  <2>2. charges[c] \in ChargeObject /\ move[2] \in ChargeStatus
    BY <1>3, <2>1, ChargeMovesAssumption DEF MoveCharge, TypeOK
  <2>3. charges'[c].status = move[2] /\ charges'[c].seen = charges[c].seen \cup {move[2]}
    BY <2>1, <2>2, ReportedTyped
  <2>4. "approved" \in charges[c].seen
    BY <2>3
  <2>5. move[1] = "approved" \/ move[1] \notin Early
    BY <2>1, <2>2, <2>4, NullAssumption DEF PastApproval
  <2>6. QED BY <2>3, <2>5 DEF NeverReapproved
<1>4. ASSUME NEW b \in Charges, MoveCharge(b), b # c PROVE charges'[c] = charges[c]
  BY <1>4 DEF MoveCharge
<1>5. CASE GatewayStep
  <2>1. ASSUME NEW b \in Charges, NEW p \in Payments, PayLink(b, p) PROVE charges'[c] = charges[c]
    BY <1>2, <2>1 DEF PayLink
  <2>2. ASSUME NEW b \in Charges, NEW a \in Preapprovals, ChargePreapproval(b, a)
        PROVE  charges'[c] = charges[c]
    BY <1>2, <2>2 DEF ChargePreapproval
  <2>3. ASSUME NEW a \in Preapprovals, MovePreapproval(a) PROVE charges'[c] = charges[c]
    BY <2>3 DEF MovePreapproval
  <2>4. QED BY <1>1, <1>3, <1>4, <1>5, <2>1, <2>2, <2>3 DEF GatewayStep
<1>6. CASE UNCHANGED charges
  BY <1>1, <1>6
<1>7. QED
  BY <1>5, <1>6
     DEF Next, EnrollingStep, WebhookStep, FindSubscription, WriteSubscription,
         CountPayments, GeneratePayments, OpenPreapproval, CreatePayment, OpenLink, FindCancelled,
         CancelPreapproval, CancelRow, FetchCharge, LocatePayment, RecordPayment,
         MarkSubscription, FetchPreapproval, SyncSubscription, Abort, Stop

\* A charge that was approved once and is not now is not approved by a step.
LEMMA StaysUnapproved ==
    ASSUME IInv, NEW Early, NeverReapproved(Early), PastApproval(Early), GatewayStep,
           NEW c \in Charges, charges[c] # None, "approved" \in charges[c].seen,
           charges[c].status # "approved"
    PROVE  charges'[c].status # "approved"
<1> TypeOK BY DEF IInv
<1>1. charges[c].status \notin Early
  BY DEF PastApproval
<1>2. ASSUME NEW b \in Charges, MoveCharge(b) PROVE charges'[c].status # "approved"
  <2>1. CASE b = c
    <3>1. PICK move \in ChargeMoves :
            charges[c].status = move[1] /\ charges'[c] = Reported(charges[c], move[2])
      BY <1>2, <2>1 DEF MoveCharge, TypeOK
    <3>2. charges[c] \in ChargeObject /\ move[2] \in ChargeStatus
      BY <3>1, ChargeMovesAssumption DEF TypeOK
    <3>3. charges'[c].status = move[2]
      BY <3>1, <3>2, ReportedTyped
    <3>4. QED BY <1>1, <3>1, <3>3 DEF NeverReapproved
  <2>2. CASE b # c
    BY <1>2, <2>2 DEF MoveCharge
  <2>3. QED BY <2>1, <2>2
<1>3. ASSUME NEW b \in Charges, NEW p \in Payments, PayLink(b, p) PROVE charges'[c] = charges[c]
  BY <1>3 DEF PayLink
<1>4. ASSUME NEW b \in Charges, NEW a \in Preapprovals, ChargePreapproval(b, a)
      PROVE  charges'[c] = charges[c]
  BY <1>4 DEF ChargePreapproval
<1>5. ASSUME NEW a \in Preapprovals, MovePreapproval(a) PROVE charges'[c] = charges[c]
  BY <1>5 DEF MovePreapproval
<1>6. QED BY <1>2, <1>3, <1>4, <1>5 DEF GatewayStep

\* Of the steps that change a payment to COMPLETED, or change one that is, only
\* RecordPayment does: the other ones make payments that are PENDING.
LEMMA PaidByRecord ==
    ASSUME IInv, IInv', NEW q \in Requests, Acts(q), NEW p \in Payments, pays'[p] # pays[p],
           pays'[p].status = "COMPLETED"
    PROVE  RecordPayment(q)
<1> USE DEF tables
<1> TypeOK BY DEF IInv
<1>1. \A s, u, due, origin : Unpaid(s, u, due, origin).status = "PENDING"
  BY DEF Unpaid
<1>2. ASSUME GeneratePayments(q) PROVE FALSE
  <2>1. PICK start, rows :
          pays' = [t \in Payments |->
                     IF \E i \in 0 .. Duration[request[q].ask.plan] - 1 : rows[i] = t
                     THEN Installment(request[q].sub, request[q].ask.payer, start,
                            CHOOSE i \in 0 .. Duration[request[q].ask.plan] - 1 : rows[i] = t)
                     ELSE pays[t]]
    BY <1>2 DEF GeneratePayments
  <2>2. pays'[p] = Installment(request[q].sub, request[q].ask.payer, start,
                     CHOOSE i \in 0 .. Duration[request[q].ask.plan] - 1 : rows[i] = p)
    BY <2>1
  <2>3. QED BY <1>1, <2>2 DEF Installment
<1>3. ASSUME CreatePayment(q) PROVE FALSE
  BY <1>1, <1>3 DEF CreatePayment, TypeOK
<1>4. QED
  BY <1>2, <1>3
     DEF Acts, EnrollingStep, WebhookStep, FindSubscription, WriteSubscription, CountPayments,
         OpenPreapproval, OpenLink, FindCancelled, CancelPreapproval, CancelRow, FetchCharge,
         LocatePayment, MarkSubscription, FetchPreapproval, SyncSubscription, Abort

LEMMA PastApprovalStep ==
    ASSUME Apart, IInv, IInv', NEW Early, NeverReapproved(Early), PastApproval(Early), Next
    PROVE  PastApproval(Early)'
<1> USE DEF tables, gateway
<1> TypeOK BY DEF IInv
<1> request \in [Requests -> RequestState] BY DEF TypeOK
<1>1. ASSUME NEW c \in Charges, charges'[c] # None, "approved" \in charges'[c].seen,
             charges'[c].status # "approved"
      PROVE  charges'[c].status \notin Early
  BY <1>1, ChargesStep
<1>2. ASSUME NEW r \in Requests, NEW p \in Payments,
             request'[r].at \in {"locate", "record"}, request'[r].raw # "approved",
             pays'[p] # None, pays'[p].status = "COMPLETED",
             pays'[p].externalId = request'[r].external
      PROVE  charges'[request'[r].external].status # "approved"
  <2>1. CASE FetchCharge(r)
    <3>1. PICK c \in Charges :
            Become(r, [Idle EXCEPT !.at = "locate", !.external = c, !.raw = charges[c].status])
      BY <2>1 DEF FetchCharge
    <3>2. [Idle EXCEPT !.at = "locate", !.external = c, !.raw = charges[c].status].external = c
      BY DEF Idle
    <3>3. [Idle EXCEPT !.at = "locate", !.external = c, !.raw = charges[c].status].raw = charges[c].status
      BY DEF Idle
    <3>4. request'[r].external = c /\ request'[r].raw = charges[c].status
      BY <3>1, <3>2, <3>3 DEF Become
    <3>5. QED BY <1>2, <2>1, <3>4 DEF FetchCharge
  <2>2. CASE LocatePayment(r)
    <3>1. request'[r].external = request[r].external /\ request'[r].raw = request[r].raw
      <4>1. \A q : [request[r] EXCEPT !.at = "record", !.pay = q].external = request[r].external
        BY DEF RequestState
      <4>2. \A q : [request[r] EXCEPT !.at = "record", !.pay = q].raw = request[r].raw
        BY DEF RequestState
      <4>3. ~Finish(r)
        BY <1>2 DEF Finish, Become, Idle
      <4>4. PICK q : Become(r, [request[r] EXCEPT !.at = "record", !.pay = q])
        BY <2>2, <4>3 DEF LocatePayment
      <4>5. QED BY <4>1, <4>2, <4>4 DEF Become
    <3>2. At(r, "locate") /\ UNCHANGED <<pays, charges>>
      BY <2>2 DEF LocatePayment
    <3>3. QED BY <1>2, <3>1, <3>2 DEF PastApproval, IsRow
  <2>3. CASE GatewayStep
    <3>1. UNCHANGED <<pays, request>>
      BY <2>3 DEF GatewayStep, PayLink, ChargePreapproval, MoveCharge, MovePreapproval
    <3>2. At(r, "locate") \/ At(r, "record")
      BY <1>2, <3>1 DEF At
    <3>3. PICK c \in Charges : c = request[r].external
      BY <3>2, PaymentHandler
    <3>4. charges[c].status # "approved"
      BY <1>2, <3>1, <3>2, <3>3 DEF PastApproval, IsRow
    <3>5. charges[c] # None /\ "approved" \in charges[c].seen
      BY <1>2, <3>1, <3>3, PaidWasApproved
    <3>6. QED BY <2>3, <3>1, <3>3, <3>4, <3>5, StaysUnapproved
  <2>4. ASSUME NEW q \in Requests, Acts(q), q # r
        PROVE  charges'[request'[r].external].status # "approved"
    <3>1. request'[r] = request[r] /\ (At(r, "locate") \/ At(r, "record"))
      BY <1>2, <2>4, ComesFrom DEF At
    <3>2. CASE pays'[p] = pays[p]
      <4>1. charges[request[r].external].status # "approved"
        BY <1>2, <3>1, <3>2 DEF PastApproval, IsRow
      <4>2. UNCHANGED charges
        BY <2>4
           DEF Acts, EnrollingStep, WebhookStep, FindSubscription, WriteSubscription, CountPayments,
               GeneratePayments, OpenPreapproval, CreatePayment, OpenLink, FindCancelled,
               CancelPreapproval, CancelRow, FetchCharge, LocatePayment, RecordPayment,
               MarkSubscription, FetchPreapproval, SyncSubscription, Abort
      <4>3. QED BY <3>1, <4>1, <4>2
    <3>3. CASE pays'[p] # pays[p]
      <4>1. RecordPayment(q)
        BY <1>2, <2>4, <3>3, PaidByRecord
      <4>2. p = request[q].pay
        BY <3>3, <4>1 DEF RecordPayment
      <4>3. request[q].external = request[r].external
        <5>1. pays[p] \in PaymentRow
          BY <4>1, <4>2, PaymentHandler DEF RecordPayment, At, TypeOK
        <5>2. pays'[p].externalId = request[q].external
          BY <4>1, <4>2, <5>1, RecordedExternal DEF RecordPayment, TypeOK
        <5>3. QED BY <1>2, <3>1, <5>2
      <4>4. Reference(q) = Reference(r)
        BY <4>3 DEF Reference
      <4>5. Matter(q) = {Course(Billed(Reference(q)))} /\ Matter(r) = {Course(Billed(Reference(r)))}
        BY <3>1, <4>1, MatterNow DEF RecordPayment, At
      <4>6. QED BY <2>4, <4>4, <4>5 DEF Apart
    <3>4. QED BY <3>2, <3>3
  <2>5. ~Stop
    BY <1>2 DEF Stop, Idle
  <2>6. QED BY <1>2, <2>1, <2>2, <2>3, <2>4, <2>5, OneMoves, ComesFrom
<1>3. QED BY <1>1, <1>2 DEF PastApproval, At, IsRow

\* With requests about one course kept apart, and charges that are approved
\* once, what is recorded of a transaction never goes back in time.
THEOREM RecordsDoNotRegress ==
    ASSUME NEW Early, NeverReapproved(Early)
    PROVE  ApartSpec => NoRegress
<1> DEFINE Forward ==
      \A p \in Payments :
         /\ IsRow(pays[p])
         /\ pays[p].status = "COMPLETED"
         /\ pays'[p].status # "COMPLETED"
         /\ pays'[p].externalId = pays[p].externalId
         => charges[pays[p].externalId].status # "approved"
<1>1. Init => PastApproval(Early)
  BY DEF Init, PastApproval, At, Idle, IsRow
<1>2. IInv /\ IInv' /\ Apart /\ PastApproval(Early) /\ [Next]_vars => PastApproval(Early)'
  <2>1. ASSUME PastApproval(Early), UNCHANGED vars PROVE PastApproval(Early)'
    BY <2>1 DEF vars, PastApproval, At, IsRow
  <2>2. QED BY <2>1, PastApprovalStep
<1>3. IInv /\ PastApproval(Early) /\ [Next]_vars => [Forward]_vars
  <2>1. ASSUME IInv, PastApproval(Early), Next PROVE Forward
    <3> SUFFICES ASSUME NEW p \in Payments, pays[p] # None, pays[p].status = "COMPLETED",
                        pays'[p].status # "COMPLETED",
                        pays'[p].externalId = pays[p].externalId
                 PROVE  charges[pays[p].externalId].status # "approved"
      BY DEF IsRow
    <3>1. PICK r \in Requests : RecordPayment(r)
      BY <2>1, RowsRewritten
    <3>2. p = request[r].pay
      BY <2>1, <3>1 DEF RecordPayment, IInv, TypeOK
    <3>3. pays'[p] = Recorded(pays[p], MapMercadoPagoStatus(request[r].raw), request[r].external)
      BY <2>1, <3>1, <3>2 DEF RecordPayment, IInv, TypeOK
    <3>4. MapMercadoPagoStatus(request[r].raw) \in PaymentStatus /\ request[r].external \in Charges
      BY <2>1, <3>1, PaymentHandler DEF RecordPayment, At, MapMercadoPagoStatus, PaymentStatus
    <3>5. /\ pays'[p].externalId = request[r].external
          /\ pays'[p].status = MapMercadoPagoStatus(request[r].raw)
      BY <2>1, <3>3, <3>4, RecordedTyped DEF IInv, TypeOK
    <3>6. request[r].raw # "approved"
      BY <3>5 DEF MapMercadoPagoStatus
    <3>7. QED
      BY <2>1, <3>1, <3>5, <3>6 DEF PastApproval, RecordPayment, At, IsRow
  <2>2. QED BY <2>1
<1>4. QED
  BY <1>1, <1>2, <1>3, ApartIsBilling, Invariance, RequestsApartAreRight, PTL DEF Spec, NoRegress

-----------------------------------------------------------------------------
(***************************************************************************)
(* One request at a time is a special case.                                *)
(***************************************************************************)
OneSlot == \A r, q \in Requests : r = q

\* A server that takes one request after the other keeps all of them apart.
THEOREM OneSlotIsApart == OneSlot => (Spec => ApartSpec)
<1> SUFFICES ASSUME OneSlot PROVE Spec => ApartSpec
  OBVIOUS
<1>1. [Next]_vars => [Next /\ Apart']_vars
  BY DEF OneSlot, Apart
<1>2. QED BY <1>1, PTL DEF Spec, ApartSpec

-----------------------------------------------------------------------------
(***************************************************************************)
(* Delivery.  Every step is one of Billing, so its invariant holds; what   *)
(* is left is to follow each transaction of a single payment from the      *)
(* notification to the row (Remembered).                                   *)
(***************************************************************************)
\* Request r is going to write what the gateway said of charge c.
Brings(r, c) == (At(r, "locate") \/ At(r, "record")) /\ request[r].external = c

\* The payment that charge c was made for is recorded, and if c was the last to
\* be recorded then as c stands now.
Says(c) ==
    LET row == pays[charges[c].reference]
    IN /\ row.externalId # None
       /\ row.externalId = c => row.status = MapMercadoPagoStatus(charges[c].status)

Remembered(c) ==
    \/ c \in undelivered \cup swallowed
    \/ \E r \in Requests : Brings(r, c)
    \/ Says(c)

\* An answer that a request still holds is the present, or there is a newer one.
Fresh(r) ==
    At(r, "locate") \/ At(r, "record") =>
        \/ request[r].raw = charges[request[r].external].status
        \/ request[r].external \in undelivered

IsForSingle(c) == charges[c] # None /\ IsSingle(charges[c].reference)

DeliveryInv ==
    /\ \A r \in Requests : Fresh(r)
    /\ \A c \in Charges : IsForSingle(c) => Remembered(c)

-----------------------------------------------------------------------------
\* Delivering notifications adds no step to Billing.
LEMMA StepsOfBilling ==
    ASSUME [DeliveryNext]_dvars
    PROVE  [Next]_vars
<1>1. CASE UNCHANGED dvars
  BY <1>1 DEF dvars
<1>2. ASSUME NEW r \in Requests, Receive(r) \/ Proceed(r) \/ Begin(r) \/ Fail(r) PROVE Next
  BY <1>2 DEF Receive, Proceed, Begin, Fail, Next, WebhookStep
<1>3. CASE Owe
  BY <1>3 DEF Owe, Next
<1>4. CASE Crash
  BY <1>4 DEF Crash, Next
<1>5. QED BY <1>1, <1>2, <1>3, <1>4 DEF DeliveryNext

-----------------------------------------------------------------------------
\* The write of payment.update: the row found names the transaction and has the
\* status the request carried; the other rows stay.
LEMMA RecordEffect ==
    ASSUME IInv, NEW r \in Requests, RecordPayment(r)
    PROVE  \E p \in Payments :
             /\ IsSingle(Reference(r)) => Reference(r) = p
             /\ pays'[p].externalId = request[r].external
             /\ pays'[p].status = MapMercadoPagoStatus(request[r].raw)
             /\ \A q \in Payments : q # p => pays'[q] = pays[q]
             /\ UNCHANGED charges
<1> DEFINE st == MapMercadoPagoStatus(request[r].raw)
           c == request[r].external
<1>1. PICK p \in Payments : /\ p = request[r].pay
                            /\ pays[p] \in PaymentRow
                            /\ Reference(r) \in {p, pays[p].subscription}
  BY PaymentHandler DEF RecordPayment, At, IInv, TypeOK
<1>2. pays[p].subscription \notin Payments
  BY <1>1, IdAssumption DEF PaymentRow
<1>3. pays' = [pays EXCEPT ![p] = Recorded(@, st, c)] /\ UNCHANGED charges
  BY <1>1 DEF RecordPayment, gateway
<1>4. \A row \in PaymentRow : \A s, d : Recorded(row, s, d).externalId = d /\ Recorded(row, s, d).status = s
  BY DEF PaymentRow, Recorded
<1>5. pays'[p] = Recorded(pays[p], st, c) /\ \A q \in Payments : q # p => pays'[q] = pays[q]
  BY <1>3 DEF IInv, TypeOK
<1>6. QED BY <1>1, <1>2, <1>3, <1>4, <1>5 DEF IsSingle

\* The row of a transaction of a single payment is there; what it says is kept
\* by the steps that rewrite no row.
LEMMA SaysKept ==
    ASSUME IInv, NEW c \in Charges, IsForSingle(c), charges'[c] = charges[c],
           \A p \in Payments : pays[p] # None => pays'[p] = pays[p], Says(c)
    PROVE  Says(c)'
<1>1. charges[c].reference \in Payments /\ pays[charges[c].reference] # None
  BY DEF IsForSingle, IsSingle, IInv, Referential
<1>2. QED BY <1>1 DEF Says

\* After it is recorded, and unless there is news, a transaction and its payment
\* agree; another transaction of the same payment is not the last one any more.
LEMMA SaysAfterRecord ==
    ASSUME IInv, NEW r \in Requests, RecordPayment(r), Fresh(r),
           NEW c \in Charges, IsForSingle(c), Says(c) \/ request[r].external = c
    PROVE  c \in undelivered \/ Says(c)'
<1>1. PICK p \in Payments :
             /\ IsSingle(Reference(r)) => Reference(r) = p
             /\ pays'[p].externalId = request[r].external
             /\ pays'[p].status = MapMercadoPagoStatus(request[r].raw)
             /\ \A q \in Payments : q # p => pays'[q] = pays[q]
             /\ UNCHANGED charges
  BY RecordEffect
<1>2. request[r].external \in Charges /\ request[r].external # None
  BY PaymentHandler, IdAssumption DEF RecordPayment
<1>3. charges[c].reference \in Payments
  BY DEF IsForSingle, IsSingle
<1>4. CASE request[r].external = c
  <2>1. charges[c].reference = p
    BY <1>1, <1>3, <1>4 DEF Reference, IsSingle
  <2>2. request[r].raw = charges[c].status \/ c \in undelivered
    BY <1>4 DEF Fresh, RecordPayment
  <2>3. QED BY <1>1, <1>2, <1>4, <2>1, <2>2 DEF Says
<1>5. CASE request[r].external # c
  BY <1>1, <1>2, <1>3, <1>5 DEF Says
<1>6. QED BY <1>4, <1>5

\* Where a request that looks a payment up goes.
LEMMA LocateMoves ==
    ASSUME TypeOK, NEW r \in Requests, LocatePayment(r)
    PROVE  \/ /\ At(r, "record")'
              /\ request'[r].external = request[r].external
              /\ request'[r].raw = request[r].raw
           \/ At(r, "idle")' /\ ~IsSingle(Reference(r))
<1>1. request \in [Requests -> RequestState]
  BY DEF TypeOK
<1>2. ASSUME NEW p, Become(r, [request[r] EXCEPT !.at = "record", !.pay = p])
      PROVE  /\ At(r, "record")'
             /\ request'[r].external = request[r].external
             /\ request'[r].raw = request[r].raw
  <2>1. LET next == [request[r] EXCEPT !.at = "record", !.pay = p]
        IN  next.at = "record" /\ next.external = request[r].external /\ next.raw = request[r].raw
    BY <1>1 DEF RequestState
  <2>2. QED BY <1>1, <1>2, <2>1 DEF Become, At
<1>3. ASSUME Finish(r) PROVE At(r, "idle")'
  BY <1>1, <1>3 DEF Finish, Become, At, Idle
<1>4. QED BY <1>2, <1>3 DEF LocatePayment

-----------------------------------------------------------------------------
\* MercadoPago notifies what it changes.
LEMMA OweKeeps == ASSUME IInv, DeliveryInv, Owe PROVE DeliveryInv'
<1>1. UNCHANGED <<pays, request, swallowed>> /\ undelivered \subseteq undelivered'
  BY DEF Owe, GatewayStep, PayLink, ChargePreapproval, MoveCharge, MovePreapproval, tables
<1>2. \A c \in Charges : c \in undelivered' \/ charges'[c] = charges[c]
  BY DEF Owe
<1>3. ASSUME NEW r \in Requests PROVE Fresh(r)'
  <2>1. At(r, "locate") \/ At(r, "record") => request[r].external \in Charges
    BY PaymentHandler
  <2>2. QED BY <1>1, <1>2, <2>1 DEF DeliveryInv, Fresh, At
<1>4. ASSUME NEW c \in Charges, IsForSingle(c)' PROVE Remembered(c)'
  BY <1>1, <1>2, <1>4 DEF DeliveryInv, Remembered, Says, Brings, At, IsForSingle
<1>5. QED BY <1>3, <1>4 DEF DeliveryInv

\* A request that ends in an error has its notification counted as swallowed.
LEMMA FailKeeps ==
    ASSUME IInv, DeliveryInv, NEW r \in Requests, Fail(r)
    PROVE  DeliveryInv'
<1> request \in [Requests -> RequestState] BY DEF IInv, TypeOK
<1>1. /\ UNCHANGED <<pays, charges, undelivered>>
      /\ request'[r] = Idle
      /\ \A q \in Requests : q # r => request'[q] = request[q]
  BY DEF Fail, Abort, Finish, Become, tables, gateway
<1>2. \A q \in Requests : Fresh(q)'
  BY <1>1 DEF DeliveryInv, Fresh, At, Idle
<1>3. ASSUME NEW c \in Charges, Brings(r, c) PROVE c \in swallowed'
  BY <1>3 DEF Brings, Fail, Serving
<1>4. swallowed \subseteq swallowed'
  BY DEF Fail
<1>5. ASSUME NEW c \in Charges, IsForSingle(c)' PROVE Remembered(c)'
  <2>1. IsForSingle(c) /\ Remembered(c)
    BY <1>1, <1>5 DEF DeliveryInv, IsForSingle
  <2>2. ASSUME NEW q \in Requests, q # r, Brings(q, c) PROVE Brings(q, c)'
    BY <1>1, <2>2 DEF Brings, At
  <2>3. QED BY <1>1, <1>3, <1>4, <2>1, <2>2 DEF Remembered, Says
<1>6. QED BY <1>2, <1>5 DEF DeliveryInv

\* One that the end of the process stops has it repeated.
LEMMA CrashKeeps == ASSUME IInv, DeliveryInv, Crash PROVE DeliveryInv'
<1>1. UNCHANGED <<pays, charges, swallowed>> /\ \A q \in Requests : request'[q] = Idle
  BY DEF Crash, Stop, tables, gateway
<1>2. \A q \in Requests : Fresh(q)'
  BY <1>1 DEF Fresh, At, Idle
<1>3. ASSUME NEW q \in Requests, NEW c \in Charges, Brings(q, c) PROVE c \in undelivered'
  BY <1>3 DEF Brings, Crash, Serving
<1>4. undelivered \subseteq undelivered'
  BY DEF Crash
<1>5. ASSUME NEW c \in Charges, IsForSingle(c)' PROVE Remembered(c)'
  BY <1>1, <1>3, <1>4, <1>5 DEF DeliveryInv, Remembered, Says, IsForSingle
<1>6. QED BY <1>2, <1>5 DEF DeliveryInv

\* A handler that starts takes the notification over, with the present status.
LEMMA ReceiveKeeps ==
    ASSUME Apart', IInv, DeliveryInv, NEW r \in Requests, Receive(r)
    PROVE  DeliveryInv'
<1> request \in [Requests -> RequestState] BY DEF IInv, TypeOK
<1>1. /\ UNCHANGED <<pays, charges, swallowed>> /\ At(r, "idle")
      /\ \A q \in Requests : q # r => request'[q] = request[q]
  BY DEF Receive, FetchCharge, Become, tables, gateway
<1>2. PICK d \in Charges : /\ request'[r].at = "locate"
                           /\ request'[r].external = d
                           /\ request'[r].raw = charges[d].status
  <2>1. \A d, raw : LET next == [Idle EXCEPT !.at = "locate", !.external = d, !.raw = raw]
                    IN  next.at = "locate" /\ next.external = d /\ next.raw = raw
    BY DEF Idle
  <2>2. PICK d \in Charges :
          Become(r, [Idle EXCEPT !.at = "locate", !.external = d, !.raw = charges[d].status])
    BY DEF Receive, FetchCharge
  <2>3. request'[r] = [Idle EXCEPT !.at = "locate", !.external = d, !.raw = charges[d].status]
    BY <2>2 DEF Become
  <2>4. QED BY <2>1, <2>3
<1>3. undelivered' = undelivered \ {d}
  BY <1>2 DEF Receive
<1>4. ASSUME NEW q \in Requests PROVE Fresh(q)'
  <2>1. CASE q = r
    BY <1>1, <1>2, <2>1 DEF Fresh
  <2>2. CASE q # r /\ request[q].external # d
    BY <1>1, <1>3, <2>2 DEF DeliveryInv, Fresh, At
  <2>3. CASE q # r /\ request[q].external = d /\ (At(q, "locate") \/ At(q, "record"))
    <3>1. request'[q].at \in {"locate", "record"} /\ request'[q].external = d
      BY <1>1, <2>3 DEF At
    <3>2. Course(Billed(Reference(q)))' = Course(Billed(Reference(r)))'
      BY <1>2, <3>1 DEF Reference, Billed, Course, IsSingle
    <3>3. Matter(q)' = Matter(r)' /\ Matter(q)' # {}
      BY <1>2, <3>1, <3>2, MatterThen
    <3>4. QED BY <2>3, <3>3 DEF Apart
  <2>4. QED BY <1>1, <2>1, <2>2, <2>3 DEF Fresh, At
<1>5. ASSUME NEW c \in Charges, IsForSingle(c)' PROVE Remembered(c)'
  <2>1. Brings(r, d)'
    BY <1>2 DEF Brings, At
  <2>2. \A q \in Requests : Brings(q, c) => Brings(q, c)'
    BY <1>1 DEF Brings, At
  <2>3. IsForSingle(c) /\ Remembered(c)
    BY <1>1, <1>5 DEF DeliveryInv, IsForSingle
  <2>4. CASE c # d
    BY <1>1, <1>3, <2>2, <2>3, <2>4 DEF Remembered, Says
  <2>5. QED BY <2>1, <2>4 DEF Remembered
<1>6. QED BY <1>4, <1>5 DEF DeliveryInv

\* A handler that looks its payment up keeps what it was told, unless the
\* transaction is not one of a single payment.
LEMMA LocateKeeps ==
    ASSUME IInv, DeliveryInv, NEW r \in Requests, LocatePayment(r), UNCHANGED delivery
    PROVE  DeliveryInv'
<1> TypeOK BY DEF IInv
<1>1. /\ UNCHANGED <<pays, charges, undelivered, swallowed>> /\ At(r, "locate")
      /\ \A q \in Requests : q # r => request'[q] = request[q]
  BY ComesFrom DEF LocatePayment, Acts, WebhookStep, tables, gateway, delivery
<1>2. CASE /\ At(r, "record")'
           /\ request'[r].external = request[r].external
           /\ request'[r].raw = request[r].raw
  <2>1. \A q \in Requests : Fresh(q)'
    BY <1>1, <1>2 DEF DeliveryInv, Fresh, At
  <2>2. \A q \in Requests, c \in Charges : Brings(q, c) => Brings(q, c)'
    BY <1>1, <1>2 DEF Brings, At
  <2>3. ASSUME NEW c \in Charges, IsForSingle(c)' PROVE Remembered(c)'
    BY <1>1, <2>2, <2>3 DEF DeliveryInv, Remembered, Says, IsForSingle
  <2>4. QED BY <2>1, <2>3 DEF DeliveryInv
<1>3. CASE At(r, "idle")' /\ ~IsSingle(Reference(r))
  <2>1. \A q \in Requests : Fresh(q)'
    BY <1>1, <1>3 DEF DeliveryInv, Fresh, At
  <2>2. \A q \in Requests, c \in Charges : Brings(q, c) /\ IsForSingle(c) => Brings(q, c)'
    BY <1>1, <1>3 DEF Brings, At, IsForSingle, Reference
  <2>3. ASSUME NEW c \in Charges, IsForSingle(c)' PROVE Remembered(c)'
    BY <1>1, <2>2, <2>3 DEF DeliveryInv, Remembered, Says, IsForSingle
  <2>4. QED BY <2>1, <2>3 DEF DeliveryInv
<1>4. QED BY <1>2, <1>3, LocateMoves

\* A handler that records brings its transaction and its payment together.
LEMMA RecordKeeps ==
    ASSUME IInv, DeliveryInv, NEW r \in Requests, RecordPayment(r), UNCHANGED delivery
    PROVE  DeliveryInv'
<1> TypeOK BY DEF IInv
<1>1. /\ UNCHANGED <<charges, undelivered, swallowed>> /\ At(r, "record")
      /\ \A q \in Requests : q # r => request'[q] = request[q]
  BY ComesFrom DEF RecordPayment, Acts, WebhookStep, gateway, delivery
<1>2. request'[r].at \notin {"locate", "record"}
  <2>1. [request[r] EXCEPT !.at = "mark"].at = "mark" /\ Idle.at = "idle"
    BY DEF TypeOK, RequestState, Idle
  <2>2. QED BY <2>1 DEF RecordPayment, GoTo, Finish, Become, TypeOK
<1>3. \A q \in Requests : Fresh(q)'
  BY <1>1, <1>2 DEF DeliveryInv, Fresh, At
<1>4. ASSUME NEW c \in Charges, IsForSingle(c)' PROVE Remembered(c)'
  <2>1. IsForSingle(c) /\ Remembered(c) /\ Fresh(r)
    BY <1>1, <1>4 DEF DeliveryInv, IsForSingle
  <2>2. CASE c \in undelivered \cup swallowed
    BY <1>1, <2>2 DEF Remembered
  <2>3. CASE Says(c) \/ request[r].external = c
    BY <1>1, <2>1, <2>3, SaysAfterRecord DEF Remembered
  <2>4. ASSUME NEW q \in Requests, q # r, Brings(q, c) PROVE Remembered(c)'
    <3>1. Brings(q, c)'
      BY <1>1, <2>4 DEF Brings, At
    <3>2. QED BY <3>1 DEF Remembered
  <2>5. QED BY <2>1, <2>2, <2>3, <2>4 DEF Remembered, Brings
<1>5. QED BY <1>3, <1>4 DEF DeliveryInv

\* Of the requests that begin, only a payment handler asks for a charge.
LEMMA BeginMoves ==
    ASSUME TypeOK, NEW r \in Requests, Begin(r)
    PROVE  request'[r].at # "locate"
<1>1. ASSUME NEW state, Become(r, state), state.at # "locate" PROVE request'[r].at # "locate"
  BY <1>1 DEF Become, TypeOK
<1>2. CASE FindSubscription(r)
  BY <1>2, EnrollingMoves DEF Enrolling
<1>3. CASE CreatePayment(r)
  <2>1. \A p : [Idle EXCEPT !.at = "link", !.pay = p].at # "locate"
    BY DEF Idle
  <2>2. QED BY <1>1, <1>3, <2>1, Zenon DEF CreatePayment
<1>4. CASE FindCancelled(r)
  <2>1. \A a, s, x : [Idle EXCEPT !.at = CancelRoute(a), !.sub = s, !.external = x].at # "locate"
    BY DEF Idle, CancelRoute
  <2>2. QED BY <1>1, <1>4, <2>1, Zenon DEF FindCancelled
<1>5. CASE FetchPreapproval(r)
  <2>1. \A a, raw : [Idle EXCEPT !.at = "sync", !.external = a, !.raw = raw].at # "locate"
    BY DEF Idle
  <2>2. QED BY <1>1, <1>5, <2>1, Zenon DEF FetchPreapproval
<1>6. QED
  BY <1>2, <1>3, <1>4, <1>5
     DEF Begin, EnrollingStep, WriteSubscription, CountPayments, GeneratePayments,
         OpenPreapproval, OpenLink, CancelPreapproval, CancelRow, At

\* The other requests neither carry a status nor touch a row that is there.
LEMMA OthersKeep ==
    ASSUME IInv, DeliveryInv, NEW r \in Requests, EnrollingStep(r) \/ WebhookStep(r),
           request'[r].at # "locate", ~LocatePayment(r), ~RecordPayment(r), UNCHANGED delivery
    PROVE  DeliveryInv'
<1> TypeOK BY DEF IInv
<1>1. /\ UNCHANGED charges
      /\ ~At(r, "locate") /\ ~At(r, "record")
  BY DEF EnrollingStep, WebhookStep, FindSubscription, WriteSubscription, CountPayments,
         GeneratePayments, OpenPreapproval, CreatePayment, OpenLink, FindCancelled,
         CancelPreapproval, CancelRow, FetchCharge, MarkSubscription, FetchPreapproval,
         SyncSubscription, At, gateway
<1>2. /\ request'[r].at \notin {"locate", "record"}
      /\ \A q \in Requests : q # r => request'[q] = request[q]
  BY ComesFrom DEF Acts
<1>3. \A p \in Payments : pays[p] # None => pays'[p] = pays[p]
  BY RowsKept DEF Acts
<1>4. \A q \in Requests : Fresh(q)'
  BY <1>1, <1>2 DEF DeliveryInv, Fresh, At, delivery
<1>5. \A q \in Requests, c \in Charges : Brings(q, c) => Brings(q, c)'
  BY <1>1, <1>2 DEF Brings, At
<1>6. ASSUME NEW c \in Charges, IsForSingle(c)' PROVE Remembered(c)'
  <2>1. IsForSingle(c) /\ Remembered(c)
    BY <1>1, <1>6 DEF DeliveryInv, IsForSingle
  <2>2. QED BY <1>1, <1>3, <1>5, <2>1, SaysKept DEF Remembered, delivery
<1>7. QED BY <1>4, <1>6 DEF DeliveryInv

LEMMA DeliveryStep ==
    ASSUME Apart', IInv, DeliveryInv, [DeliveryNext]_dvars
    PROVE  DeliveryInv'
<1>1. CASE UNCHANGED dvars
  BY <1>1 DEF dvars, vars, delivery, DeliveryInv, Fresh, Remembered, Brings, Says, IsForSingle, At
<1>2. ASSUME NEW r \in Requests, Receive(r) PROVE DeliveryInv'
  BY <1>2, ReceiveKeeps
<1>3. ASSUME NEW r \in Requests, Fail(r) PROVE DeliveryInv'
  BY <1>3, FailKeeps
<1>4. ASSUME NEW r \in Requests, Proceed(r) \/ Begin(r) PROVE DeliveryInv'
  <2> TypeOK BY DEF IInv
  <2>1. (EnrollingStep(r) \/ WebhookStep(r)) /\ UNCHANGED delivery
    BY <1>4 DEF Proceed, Begin, WebhookStep
  <2>2. CASE LocatePayment(r) \/ RecordPayment(r)
    BY <2>1, <2>2, LocateKeeps, RecordKeeps
  <2>3. request'[r].at # "locate" \/ LocatePayment(r) \/ RecordPayment(r)
    <3>1. CASE Begin(r)
      BY <3>1, BeginMoves
    <3>2. CASE Proceed(r)
      BY <2>1, <3>2, ComesFrom DEF Proceed, Acts, FetchCharge
    <3>3. QED BY <1>4, <3>1, <3>2
  <2>4. QED BY <2>1, <2>2, <2>3, OthersKeep
<1>5. QED BY <1>1, <1>2, <1>3, <1>4, OweKeeps, CrashKeeps DEF DeliveryNext

LEMMA DeliveryTypeStep ==
    ASSUME TypeOK, DeliveryTypeOK, [DeliveryNext]_dvars
    PROVE  /\ undelivered' \in SUBSET Charges
           /\ swallowed' \in SUBSET Charges
           /\ crashes' \in 0 .. MaxCrashes
<1> USE DEF DeliveryTypeOK, Serving
<1>1. CASE UNCHANGED delivery
  BY <1>1 DEF delivery
<1>2. ASSUME NEW r \in Requests, Receive(r) \/ Fail(r)
      PROVE  /\ undelivered' \in SUBSET Charges
             /\ swallowed' \in SUBSET Charges
             /\ UNCHANGED crashes
  BY <1>2 DEF Receive, Fail
<1>3. CASE Owe
  BY <1>3 DEF Owe
<1>4. CASE Crash
  BY <1>4, CrashAssumption DEF Crash
<1>5. QED BY <1>1, <1>2, <1>3, <1>4 DEF DeliveryNext, dvars, Proceed, Begin

-----------------------------------------------------------------------------
\* Every behaviour with notifications owed, errors swallowed and stops of the
\* process is one of Billing: all that is proved of Billing holds of it.
THEOREM DeliveryIsBilling == DeliverySpec => Spec
<1>1. DeliveryInit => Init
  BY DEF DeliveryInit
<1>2. [DeliveryNext]_dvars => [Next]_vars
  BY StepsOfBilling
<1>3. QED BY <1>1, <1>2, PTL DEF DeliverySpec, Spec

\* What is owed, swallowed and counted is of its type.
THEOREM DeliveryTypeCorrect == DeliverySpec => []DeliveryTypeOK
<1>1. DeliveryInit /\ TypeOK => DeliveryTypeOK
  BY CrashAssumption DEF DeliveryInit, DeliveryTypeOK
<1>2. TypeOK /\ TypeOK' /\ DeliveryTypeOK /\ [DeliveryNext]_dvars => DeliveryTypeOK'
  BY DeliveryTypeStep DEF DeliveryTypeOK
<1>3. QED BY <1>1, <1>2, DeliveryIsBilling, TypeCorrect, PTL DEF DeliverySpec

\* What is proved of requests kept apart holds when notifications are owed too.
\* With requests about one course kept apart, billing with delivery is one of the
\* behaviours the theorems above are about.
THEOREM DeliveryIsApart == DeliverySpec /\ []Apart => ApartSpec
<1>1. [Next]_vars /\ Apart' => [Next /\ Apart']_vars
  OBVIOUS
<1>2. QED BY <1>1, DeliveryIsBilling, PTL DEF Spec, ApartSpec

LEMMA DeliveryInvariance == DeliverySpec /\ []Apart => []DeliveryInv
<1>1. DeliveryInit => DeliveryInv
  BY DEF DeliveryInit, Init, DeliveryInv, Fresh, At, Idle, IsForSingle
<1>2. IInv /\ Apart' /\ DeliveryInv /\ [DeliveryNext]_dvars => DeliveryInv'
  BY DeliveryStep
<1>3. QED BY <1>1, <1>2, DeliveryIsBilling, Invariance, PTL DEF DeliverySpec

\* With requests about one course kept apart, no notification of a single payment
\* is taken from the gateway and then forgotten: not by a stop of the process, not
\* by a late answer, not by another transaction of the same payment.  Only an
\* error that is answered OK loses one.
THEOREM NoNotificationIsForgotten == DeliverySpec /\ []Apart => []NothingForgotten
<1>1. ASSUME IInv, DeliveryInv PROVE NothingForgotten
  <2> SUFFICES ASSUME NEW p \in Payments,
                      OwnCharges(p) \cap (undelivered \cup UNION {Serving(r) : r \in Requests}) = {}
               PROVE  UpToDate(p)
    BY DEF NothingForgotten
  <2> SUFFICES ASSUME OwnCharges(p) # {}, OwnCharges(p) \cap swallowed = {}
               PROVE  /\ pays[p].externalId # None
                      /\ pays[p].externalId \in OwnCharges(p) =>
                           pays[p].status = MapMercadoPagoStatus(charges[pays[p].externalId].status)
    BY DEF UpToDate
  <2>1. ASSUME NEW c \in OwnCharges(p) PROVE Says(c)
    <3>1. c \in Charges /\ IsForSingle(c)
      BY DEF OwnCharges, IsForSingle, IsSingle
    <3>2. ~\E r \in Requests : Brings(r, c)
      BY <3>1 DEF Brings, Serving
    <3>3. QED BY <1>1, <3>1, <3>2 DEF DeliveryInv, Remembered
  <2>2. \A c \in OwnCharges(p) : charges[c].reference = p
    BY DEF OwnCharges
  <2>3. QED BY <2>1, <2>2 DEF Says
<1>2. QED BY <1>1, DeliveryInvariance, DeliveryIsBilling, Invariance, PTL
=============================================================================

------------------------------ MODULE Billing ------------------------------
(***************************************************************************)
(* The billing system: enrolment and cancellation requests, webhook        *)
(* handlers and the gateway, in every interleaving, and what they promise. *)
(***************************************************************************)
EXTENDS Enrolling, Webhook, Gateway

(***************************************************************************)
(* A request ends at one of its awaits: the database or the gateway        *)
(* answers with an error or not in time.  What it wrote stays: no          *)
(* transaction spans two awaits.                                           *)
(***************************************************************************)
Abort(r) ==
    /\ ~At(r, "idle")
    /\ Finish(r)
    /\ UNCHANGED <<tables, gateway, cancelAsked>>

\* The process stops, and every request ends where it is.
Stop ==
    /\ \E r \in Requests : ~At(r, "idle")
    /\ request' = [r \in Requests |-> Idle]
    /\ UNCHANGED <<tables, gateway, cancelAsked>>

Next ==
    \/ \E r \in Requests : EnrollingStep(r) \/ WebhookStep(r) \/ Abort(r)
    \/ Stop
    \/ GatewayStep

Spec == Init /\ [][Next]_vars

-----------------------------------------------------------------------------
(***************************************************************************)
(* Safety                                                                  *)
(***************************************************************************)
IsRow(row) == row # None

\* Charge c was made for payment p or for its subscription, and has been in a
\* state that the status of p stands for.
Backs(c, p) ==
    /\ charges[c] # None
    /\ charges[c].reference \in {p, pays[p].subscription}
    /\ \/ pays[p].status = "COMPLETED" /\ "approved" \in charges[c].seen
       \/ pays[p].status = "FAILED" /\ charges[c].seen \cap {"rejected", "cancelled"} # {}
       \/ pays[p].status = "PENDING" /\ charges[c].seen \cap {"pending", "in_process", "refunded"} # {}

\* What a payment says happened did happen at the gateway: a payment that
\* names a transaction names one made for it, or for its subscription, and has
\* a status which that transaction has had; paidAt is set exactly when it is
\* COMPLETED; and one that names no transaction is still to be paid.
PaymentIsBacked ==
    \A p \in Payments : IsRow(pays[p]) =>
        /\ pays[p].paidAt # None <=> pays[p].status = "COMPLETED"
        /\ pays[p].externalId = None => pays[p].status = "PENDING"
        /\ pays[p].externalId # None => Backs(pays[p].externalId, p)

\* The transactions made for subscription s or for one of its payments.
ChargesFor(s) ==
    {c \in Charges : /\ charges[c] # None
                     /\ \/ charges[c].reference = s
                        \/ charges[c].reference \in PaymentsOf(s)}

Agreements(s) ==
    {a \in Preapprovals : preapprovals[a] # None /\ preapprovals[a].reference = s}

HasPaid(s) == \E c \in ChargesFor(s) : "approved" \in charges[c].seen
HasFailed(s) ==
    \E c \in Charges : /\ charges[c] # None
                       /\ charges[c].reference = s
                       /\ charges[c].seen \cap {"rejected", "cancelled"} # {}
WasAuthorized(s) == \E a \in Agreements(s) : "authorized" \in preapprovals[a].seen
HasRecord(s) == \E p \in PaymentsOf(s) : pays[p].externalId # None

\* Nobody trains for free: a subscription is ACTIVE only if a charge for it was
\* approved or a preapproval of it was authorised, however the handlers of
\* different notifications interleave and wherever they stop.
ActiveIsBacked ==
    \A s \in Subscriptions : IsRow(subs[s]) /\ subs[s].status = "ACTIVE" =>
        HasPaid(s) \/ WasAuthorized(s)

\* A subscription is in arrears only if a recurring charge of its own failed,
\* and CANCELLED only if someone asked for it or it has an agreement at the
\* gateway (which reported something other than 'authorized').
ArrearsAreBacked ==
    \A s \in Subscriptions : IsRow(subs[s]) =>
        /\ subs[s].status = "PAST_DUE" => HasFailed(s)
        /\ subs[s].status = "CANCELLED" => s \in cancelAsked \/ Agreements(s) # {}

\* The payment is recorded before the subscription is marked, so a handler
\* that stops between the two can leave a paid payment under a subscription
\* not yet activated, but never the other way round.
RecordedBeforeMarked ==
    \A s \in Subscriptions :
        /\ IsRow(subs[s])
        /\ \/ subs[s].status = "PAST_DUE"
           \/ subs[s].status = "ACTIVE" /\ ~WasAuthorized(s)
        => HasRecord(s)

\* A row of a schedule, not a single payment.
IsScheduled(p) == pays[p].origin # None

FullyScheduled(s) ==
    \A i \in 0 .. Duration[subs[s].plan] - 1 :
        \E p \in PaymentsOf(s) : IsScheduled(p) /\ pays[p].origin.number = i

\* No payer can agree to recurring charges with nothing to book them on: when a
\* preapproval exists its subscription has all the installments of its plan,
\* unless a single payment had been created before they were.
ScheduleBeforePreapproval ==
    \A s \in Subscriptions : Agreements(s) # {} =>
        \/ FullyScheduled(s)
        \/ \E p \in PaymentsOf(s) : ~IsScheduled(p)

\* "dueDate mensual": the installments of a schedule follow each other in order,
\* and, if every month has the day it starts on, one falls in each month.
DueMonthly ==
    \A p, q \in Payments :
        /\ IsRow(pays[p]) /\ IsRow(pays[q])
        /\ IsScheduled(p) /\ IsScheduled(q)
        /\ pays[p].origin.start = pays[q].origin.start
        /\ pays[p].origin.number < pays[q].origin.number
        => /\ pays[p].due < pays[q].due
           /\ pays[p].origin.start.day <= 28 =>
                MonthOf(pays[q].due) - MonthOf(pays[p].due) =
                    pays[q].origin.number - pays[p].origin.number

\* A cancellation that knew of a preapproval writes CANCELLED only after the
\* gateway has stopped that preapproval.
CancelTellsGatewayFirst ==
    [][\A r \in Requests :
         /\ At(r, "cancelrow")
         /\ request[r].external # None
         /\ subs'[request[r].sub] # subs[request[r].sub]
         => preapprovals'[request[r].external].status = "cancelled"]_vars

-----------------------------------------------------------------------------
(***************************************************************************)
(* What the code keeps as long as requests about the same course, which is *)
(* a student in a plan, do not overlap.  Nothing in the code sees to that. *)
(***************************************************************************)
Course(s) == <<subs[s].student, subs[s].plan>>

\* The subscription that a transaction is charged for.
Billed(ref) == IF IsSingle(ref) THEN pays[ref].subscription ELSE ref

\* The awaits of createSubscription.
Enrolling == {"write", "count", "generate", "preapprove"}

\* The course that a request is about: none or one.
Matter(r) ==
    LET q == request[r]
    IN CASE q.at \in Enrolling -> {<<q.ask.student, q.ask.plan>>}
         [] q.at = "link" -> {Course(pays[q.pay].subscription)}
         [] q.at \in {"cancelpre", "cancelrow"} -> {Course(q.sub)}
         [] q.at \in {"locate", "record", "mark"} -> {Course(Billed(Reference(r)))}
         [] q.at = "sync" -> {Course(preapprovals[q.external].reference)}
         [] OTHER -> {}

Apart == \A r, q \in Requests : r # q => Matter(r) \cap Matter(q) = {}

ApartSpec == Init /\ [][Next /\ Apart']_vars

\* "una suscripcion activa o pendiente para este estudiante y plan" is used again:
\* no subscription is made beside one that is alive.  (One in arrears is not
\* looked for; when it is paid after all, two are alive.)
EnrolledOnce ==
    [][\A s \in Subscriptions : subs[s] = None /\ subs'[s] # None =>
         \A t \in Subscriptions :
             IsRow(subs[t]) /\ subs[t].status \in {"PENDING", "ACTIVE"} =>
                 Course(t) # Course(s)']_vars

\* "Plan de 6 meses -> 6 Payment": a subscription never has two installments
\* for the same month, whichever requests were repeated and wherever they
\* stopped.
OneSchedule ==
    \A p, q \in Payments :
        /\ IsRow(pays[p]) /\ IsRow(pays[q])
        /\ IsScheduled(p) /\ IsScheduled(q)
        /\ pays[p].subscription = pays[q].subscription
        /\ pays[p].origin.number = pays[q].origin.number
        => p = q

\* A recurring charge is booked on an installment still to be paid: it never
\* overwrites what was recorded of an earlier one.
SettledKept ==
    [][\A p \in Payments :
         /\ IsRow(pays[p])
         /\ pays[p].status # "PENDING"
         /\ pays'[p] # pays[p]
         => IsSingle(charges[pays'[p].externalId].reference)]_vars

\* What is recorded of one transaction never goes back in time: a payment stays
\* COMPLETED for as long as its own transaction stays approved.
NoRegress ==
    [][\A p \in Payments :
         /\ IsRow(pays[p])
         /\ pays[p].status = "COMPLETED"
         /\ pays'[p].status # "COMPLETED"
         /\ pays'[p].externalId = pays[p].externalId
         => charges[pays[p].externalId].status # "approved"]_vars

-----------------------------------------------------------------------------
(***************************************************************************)
(* What the comments and the documents say, and the code does not keep.    *)
(***************************************************************************)
\* A payment records one transaction (README.md): a transaction settles one
\* payment, not several.
OneInstallmentPerCharge ==
    \A p, q \in Payments :
        /\ IsRow(pays[p]) /\ IsRow(pays[q])
        /\ pays[p].externalId # None
        /\ pays[p].externalId = pays[q].externalId
        /\ pays[p].status = "COMPLETED" /\ pays[q].status = "COMPLETED"
        => p = q

\* createSubscription looks for "una suscripcion activa o pendiente para este
\* estudiante y plan" before it makes one: there are never two.
OneLiveSubscription ==
    \A s, t \in Subscriptions :
        /\ IsRow(subs[s]) /\ IsRow(subs[t])
        /\ subs[s].status \in {"PENDING", "ACTIVE"} /\ subs[t].status \in {"PENDING", "ACTIVE"}
        /\ subs[s].student = subs[t].student
        /\ subs[s].plan = subs[t].plan
        => s = t

\* "Si la suscripcion tiene un externalId de MercadoPago, la cancelamos alla":
\* a subscription that has one when cancelSubscription writes CANCELLED has its
\* preapproval cancelled.
CancelReachesGateway ==
    [][\A r \in Requests :
         LET s == request[r].sub
         IN /\ At(r, "cancelrow")
            /\ subs' # subs
            /\ subs'[s].status = "CANCELLED"
            /\ ~(request'[r].at = "cancelrow")
            /\ subs[s].externalId # None
            => preapprovals[subs[s].externalId].status = "cancelled"]_vars

\* getSubscriptionStatus reports "'authorized' o 'cancelled'": a subscription is
\* CANCELLED only when someone asked for it or a preapproval of it was cancelled.
CancelledOnlyWhenEnded ==
    \A s \in Subscriptions :
        IsRow(subs[s]) /\ subs[s].status = "CANCELLED" =>
            \/ s \in cancelAsked
            \/ \E a \in Agreements(s) : "cancelled" \in preapprovals[a].seen
=============================================================================

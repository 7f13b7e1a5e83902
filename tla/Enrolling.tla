----------------------------- MODULE Enrolling -----------------------------
(***************************************************************************)
(* createSubscription, createPayment and cancelSubscription of             *)
(* src/src/payments/payments.service.ts, one action per awaited call.      *)
(* The lookups of the payer and of the plan come first and only reject the *)
(* request; they are folded into the first action, whose inputs are the    *)
(* requests they let through.                                              *)
(***************************************************************************)
EXTENDS BillingData

(***************************************************************************)
(* createSubscription                                                      *)
(***************************************************************************)
\* Mutant of Current: a subscription that was paid is not looked for.
CurrentUnpaid(ask) ==
    {s \in Subscriptions :
        /\ subs[s] # None
        /\ subs[s].student = ask.student
        /\ subs[s].plan = ask.plan
        /\ subs[s].status = "PENDING"}

\* subscription.findFirst({studentId, planId, status in [PENDING, ACTIVE]})
Current(ask) ==
    {s \in Subscriptions :
        /\ subs[s] # None
        /\ subs[s].student = ask.student
        /\ subs[s].plan = ask.plan
        /\ subs[s].status \in {"PENDING", "ACTIVE"}}

FindSubscription(r) ==
    /\ At(r, "idle")
    /\ \E ask \in Checkouts :
         \E found \in IF Current(ask) = {} THEN {None} ELSE Current(ask) :
           Become(r, [Idle EXCEPT !.at = "write", !.ask = ask, !.sub = found])
    /\ UNCHANGED <<tables, gateway, cancelAsked>>

NewSubscription(ask) ==
    [student |-> ask.student, payer |-> ask.payer, plan |-> ask.plan,
     status |-> "PENDING", externalId |-> None]

\* Mutant of TakenOver: starts the subscription again.
StartedAgain(row, payer) == [row EXCEPT !.payer = payer, !.status = "PENDING"]

\* What subscription.update({payerId}) writes: the status stays.
TakenOver(row, payer) == [row EXCEPT !.payer = payer]

\* That if a subscription was found, else subscription.create
WriteSubscription(r) ==
    /\ At(r, "write")
    /\ \/ /\ request[r].sub # None
          /\ subs' = [subs EXCEPT ![request[r].sub] = TakenOver(@, request[r].ask.payer)]
          /\ GoTo(r, "count")
       \/ /\ request[r].sub = None
          /\ \E s \in Subscriptions :
               /\ subs[s] = None
               /\ subs' = [subs EXCEPT ![s] = NewSubscription(request[r].ask)]
               /\ Become(r, [request[r] EXCEPT !.at = "count", !.sub = s])
    /\ UNCHANGED <<pays, gateway, cancelAsked>>

\* Mutants of AfterCount: the test the wrong way round; counts what is pending.
GenerateIfSome(s) == IF PaymentsOf(s) = {} THEN "preapprove" ELSE "generate"
GenerateIfSettled(s) ==
    IF {p \in PaymentsOf(s) : pays[p].status = "PENDING"} = {} THEN "generate" ELSE "preapprove"

\* if (existingPaymentsCount === 0)
AfterCount(s) == IF PaymentsOf(s) = {} THEN "generate" ELSE "preapprove"

CountPayments(r) ==
    /\ At(r, "count")
    /\ GoTo(r, AfterCount(request[r].sub))
    /\ UNCHANGED <<tables, gateway, cancelAsked>>

Unpaid(s, payer, due, origin) ==
    [subscription |-> s, payer |-> payer, due |-> due, status |-> "PENDING",
     externalId |-> None, paidAt |-> None, origin |-> origin]

\* Mutant of Installment: setDate, a day for every month.
InstallmentDaily(s, payer, start, i) ==
    Unpaid(s, payer, Stamp([start EXCEPT !.day = @ + i]), [start |-> start, number |-> i])

\* Installment number i of a schedule that starts on a date.
Installment(s, payer, start, i) ==
    Unpaid(s, payer, Stamp(SetMonth(start, i)), [start |-> start, number |-> i])

\* The free ids createMany can give its rows, one per month of the plan.
Schedules(n) ==
    {rows \in [0 .. n - 1 -> Payments] :
        /\ \A i \in 0 .. n - 1 : pays[rows[i]] = None
        /\ \A i, j \in 0 .. n - 1 : rows[i] = rows[j] => i = j}

\* payment.createMany: one statement, all the installments or none.
GeneratePayments(r) ==
    LET ask == request[r].ask
        months == 0 .. Duration[ask.plan] - 1
    IN /\ At(r, "generate")
       /\ \E start \in Starts, rows \in Schedules(Duration[ask.plan]) :
            pays' = [p \in Payments |->
                       IF \E i \in months : rows[i] = p
                       THEN Installment(request[r].sub, ask.payer, start,
                                        CHOOSE i \in months : rows[i] = p)
                       ELSE pays[p]]
       /\ GoTo(r, "preapprove")
       /\ UNCHANGED <<subs, gateway, cancelAsked>>

\* preApproval.create with status 'pending'.  A timeout after the gateway has
\* created it, and an answer with no init_point, leave the same state: the
\* request ends either way.
OpenPreapproval(r) ==
    /\ At(r, "preapprove")
    /\ \E a \in Preapprovals :
         /\ preapprovals[a] = None
         /\ preapprovals' = [preapprovals EXCEPT
                               ![a] = [reference |-> request[r].sub,
                                       status |-> "pending", seen |-> {"pending"}]]
    /\ Finish(r)
    /\ UNCHANGED <<tables, links, charges, cancelAsked>>

(***************************************************************************)
(* createPayment.  Neither the owner nor the status of the subscription is *)
(* looked at; payment.create only needs it to exist.                       *)
(***************************************************************************)
CreatePayment(r) ==
    /\ At(r, "idle")
    /\ \E p \in Payments, s \in Subscriptions, u \in Users, due \in LinkDues :
         /\ pays[p] = None
         /\ subs[s] # None
         /\ pays' = [pays EXCEPT ![p] = Unpaid(s, u, due, None)]
         /\ Become(r, [Idle EXCEPT !.at = "link", !.pay = p])
    /\ UNCHANGED <<subs, gateway, cancelAsked>>

OpenLink(r) ==
    /\ At(r, "link")
    /\ links' = links \cup {request[r].pay}
    /\ Finish(r)
    /\ UNCHANGED <<tables, charges, preapprovals, cancelAsked>>

(***************************************************************************)
(* cancelSubscription                                                      *)
(***************************************************************************)
\* Mutant of CancelRoute: never tells the gateway.
CancelLocally(preapproval) == "cancelrow"

\* if (subscription.externalId)
CancelRoute(preapproval) == IF preapproval # None THEN "cancelpre" ELSE "cancelrow"

FindCancelled(r) ==
    /\ At(r, "idle")
    /\ \E s \in Subscriptions :
         /\ subs[s] # None
         /\ cancelAsked' = cancelAsked \cup {s}
         /\ Become(r, [Idle EXCEPT !.at = CancelRoute(subs[s].externalId),
                                 !.sub = s, !.external = subs[s].externalId])
    /\ UNCHANGED <<tables, gateway>>

\* preApproval.update({status: 'cancelled'}).  "Already cancelled" is not an
\* error.  The answer may be lost: then the request fails after the fact.
CancelPreapproval(r) ==
    /\ At(r, "cancelpre")
    /\ preapprovals' = [preapprovals EXCEPT ![request[r].external] = Reported(@, "cancelled")]
    /\ GoTo(r, "cancelrow") \/ Finish(r)
    /\ UNCHANGED <<tables, links, charges, cancelAsked>>

CancelRow(r) ==
    /\ At(r, "cancelrow")
    /\ subs' = [subs EXCEPT ![request[r].sub].status = "CANCELLED"]
    /\ Finish(r)
    /\ UNCHANGED <<pays, gateway, cancelAsked>>

EnrollingStep(r) ==
    \/ FindSubscription(r)
    \/ WriteSubscription(r)
    \/ CountPayments(r)
    \/ GeneratePayments(r)
    \/ OpenPreapproval(r)
    \/ CreatePayment(r)
    \/ OpenLink(r)
    \/ FindCancelled(r)
    \/ CancelPreapproval(r)
    \/ CancelRow(r)
=============================================================================

-------------------------- MODULE BillingInvariant --------------------------
(***************************************************************************)
(* The inductive invariant behind the safety properties of Billing.  None  *)
(* of them is inductive alone: a handler writes what it read some awaits   *)
(* ago, so the invariant has to say what a request in flight may rely on.  *)
(***************************************************************************)
EXTENDS Billing

\* Foreign keys, and the history of the gateway's objects.  A row, a charge or
\* a preapproval is never deleted, and what it refers to exists.
Referential ==
    /\ \A s \in Subscriptions :
         IsRow(subs[s]) /\ subs[s].externalId # None => preapprovals[subs[s].externalId] # None
    /\ \A p \in Payments : IsRow(pays[p]) => subs[pays[p].subscription] # None
    /\ \A p \in links : pays[p] # None
    /\ \A c \in Charges : charges[c] # None =>
         /\ charges[c].status \in charges[c].seen
         /\ charges[c].reference \in Payments => pays[charges[c].reference] # None
         /\ charges[c].reference \in Subscriptions => subs[charges[c].reference] # None
    /\ \A a \in Preapprovals : preapprovals[a] # None =>
         /\ preapprovals[a].status \in preapprovals[a].seen
         /\ subs[preapprovals[a].reference] # None

\* createSubscription knows what it was asked, and a subscription once it has one.
EnrolFacts(q) ==
    /\ q.at \in Enrolling => q.ask \in Checkouts
    /\ q.at = "write" => (q.sub # None => subs[q.sub] # None)
    /\ q.at \in {"count", "generate", "preapprove"} => q.sub # None /\ subs[q.sub] # None
    /\ q.at = "link" => q.pay # None /\ pays[q.pay] # None

\* cancelSubscription holds the preapproval it found; when it comes to write
\* the row the gateway has cancelled that one for good.
CancelFacts(q) ==
    /\ q.at \in {"cancelpre", "cancelrow"} =>
         q.sub # None /\ subs[q.sub] # None /\ q.sub \in cancelAsked
    /\ q.at = "cancelpre" => q.external \in Preapprovals /\ preapprovals[q.external] # None
    /\ q.at = "cancelrow" /\ q.external # None =>
         /\ q.external \in Preapprovals
         /\ preapprovals[q.external] # None
         /\ preapprovals[q.external].status = "cancelled"

\* A payment handler's snapshot was true once, and the payment it found is one
\* its charge is about; it marks the subscription only after it has recorded.
ChargeFacts(q) ==
    /\ q.at \in {"locate", "record", "mark"} =>
         /\ q.external \in Charges
         /\ charges[q.external] # None
         /\ q.raw \in charges[q.external].seen
    /\ q.at \in {"record", "mark"} =>
         /\ q.pay # None
         /\ pays[q.pay] # None
         /\ charges[q.external].reference \in {q.pay, pays[q.pay].subscription}
    /\ q.at = "mark" =>
         /\ pays[q.pay].externalId # None
         /\ \/ MapMercadoPagoStatus(q.raw) = "COMPLETED"
            \/ /\ MapMercadoPagoStatus(q.raw) = "FAILED"
               /\ charges[q.external].reference = pays[q.pay].subscription

PreapprovalFacts(q) ==
    q.at = "sync" =>
        /\ q.external \in Preapprovals
        /\ preapprovals[q.external] # None
        /\ q.raw \in preapprovals[q.external].seen

RequestFacts(q) ==
    /\ EnrolFacts(q)
    /\ CancelFacts(q)
    /\ ChargeFacts(q)
    /\ PreapprovalFacts(q)

InFlight == \A r \in Requests : RequestFacts(request[r])

\* What has happened by the time a subscription takes a status.
Justifies(s, status) ==
    /\ status = "ACTIVE" => (HasPaid(s) /\ HasRecord(s)) \/ WasAuthorized(s)
    /\ status = "PAST_DUE" => HasFailed(s) /\ HasRecord(s)
    /\ status = "CANCELLED" => s \in cancelAsked \/ Agreements(s) # {}

StatusIsJustified ==
    \A s \in Subscriptions : IsRow(subs[s]) => Justifies(s, subs[s].status)

\* Everything a request in flight relies on stays true whatever the others do,
\* and what it writes is then backed by the gateway.
IInv ==
    /\ TypeOK
    /\ Referential
    /\ InFlight
    /\ PaymentIsBacked
    /\ StatusIsJustified

(***************************************************************************)
(* Schedules: what IInv is strengthened with for them.                     *)
(***************************************************************************)
\* Something to book a recurring charge of s on.
IsReady(s) == FullyScheduled(s) \/ \E p \in PaymentsOf(s) : ~IsScheduled(p)

\* createMany writes all installments or none, those of the plan that the
\* subscription has and keeps.
AllOrNone ==
    \A p \in Payments : IsRow(pays[p]) /\ IsScheduled(p) => FullyScheduled(pays[p].subscription)

\* A request enrols in the course of its subscription, and asks the payer to
\* agree only when there is something to book the charges on.
EnrolsInCourse(q) ==
    /\ q.at \in Enrolling /\ q.sub # None =>
         /\ subs[q.sub].student = q.ask.student
         /\ subs[q.sub].plan = q.ask.plan
    /\ q.at = "preapprove" => IsReady(q.sub)

DueByCalendar ==
    \A p \in Payments : IsRow(pays[p]) /\ IsScheduled(p) =>
        pays[p].due = Stamp(SetMonth(pays[p].origin.start, pays[p].origin.number))

ScheduleInv ==
    /\ AllOrNone
    /\ \A r \in Requests : EnrolsInCourse(request[r])
    /\ DueByCalendar
    /\ ScheduleBeforePreapproval

(***************************************************************************)
(* Requests about one course kept apart: what a request has read is still  *)
(* so when it writes.                                                      *)
(***************************************************************************)
StillTrue(r) ==
    /\ At(r, "write") /\ request[r].sub = None => Current(request[r].ask) = {}
    /\ At(r, "generate") => PaymentsOf(request[r].sub) = {}
    /\ At(r, "record") /\ ~IsSingle(Reference(r)) => pays[request[r].pay].status = "PENDING"
    /\ At(r, "cancelpre") \/ At(r, "cancelrow") =>
         request[r].external = subs[request[r].sub].externalId

ApartInv == OneSchedule /\ \A r \in Requests : StillTrue(r)

\* MercadoPago never approves a charge a second time: the states before the
\* approval (Early) are not entered again.
NeverReapproved(Early) ==
    /\ "approved" \notin Early
    /\ \A move \in ChargeMoves : move[2] \in Early \cup {"approved"} => move[1] \in Early

\* So a handler that was told "not approved" of a charge that is recorded as
\* paid was told of its present, and of its future.
PastApproval(Early) ==
    /\ \A c \in Charges :
         /\ charges[c] # None
         /\ "approved" \in charges[c].seen
         /\ charges[c].status # "approved"
         => charges[c].status \notin Early
    /\ \A r \in Requests, p \in Payments :
         /\ At(r, "locate") \/ At(r, "record")
         /\ request[r].raw # "approved"
         /\ IsRow(pays[p])
         /\ pays[p].status = "COMPLETED"
         /\ pays[p].externalId = request[r].external
         => charges[request[r].external].status # "approved"
=============================================================================

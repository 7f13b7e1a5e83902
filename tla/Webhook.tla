------------------------------ MODULE Webhook ------------------------------
(***************************************************************************)
(* handleWebhook of src/src/payments/payments.service.ts and the two       *)
(* functions it calls.  MercadoPago notifies every change, at least once,  *)
(* in any order and after any delay, and the handler does not use what the *)
(* notification says but asks the gateway for the present status: so a     *)
(* handler may start for any charge or preapproval at any time.  What      *)
(* fails inside it is caught and logged, and the answer is OK all the      *)
(* same: a failed handler is a request that ends (Abort in Billing).       *)
(***************************************************************************)
EXTENDS BillingData

\* Mutants of MapMercadoPagoStatus: an unknown status counts as paid; a rejected
\* payment keeps the word of the gateway.
MapUnknownIsPaid(raw) ==
    IF raw \in {"rejected", "cancelled"} THEN "FAILED" ELSE "COMPLETED"
MapKeepsTheWord(raw) ==
    CASE raw = "approved" -> "COMPLETED"
      [] raw = "rejected" -> "REJECTED"
      [] raw = "cancelled" -> "FAILED"
      [] OTHER -> "PENDING"

\* mapMercadoPagoStatus: "refunded" and what else there is fall to the default.
MapMercadoPagoStatus(raw) ==
    CASE raw = "approved" -> "COMPLETED"
      [] raw \in {"rejected", "cancelled"} -> "FAILED"
      [] OTHER -> "PENDING"

\* Mutant of FetchCharge: believes a notification, however old, instead of asking.
TrustNotification(r) ==
    /\ At(r, "idle")
    /\ \E c \in Charges :
         /\ charges[c] # None
         /\ \E raw \in charges[c].seen :
              Become(r, [Idle EXCEPT !.at = "locate", !.external = c, !.raw = raw])
    /\ UNCHANGED <<tables, gateway, cancelAsked>>

\* getPaymentStatus: a snapshot of the charge, carried over the next awaits.
FetchCharge(r) ==
    /\ At(r, "idle")
    /\ \E c \in Charges :
         /\ charges[c] # None
         /\ Become(r, [Idle EXCEPT !.at = "locate", !.external = c,
                                 !.raw = charges[c].status])
    /\ UNCHANGED <<tables, gateway, cancelAsked>>

\* The external_reference of the charge a handler is working on never changes.
Reference(r) == charges[request[r].external].reference

\* "Caso 1": the reference is the id of a payment.
IsSingle(ref) == ref \in Payments

\* Mutant of OldestPending: forgets the status in the where clause.
OldestPayment(s) ==
    {p \in PaymentsOf(s) : \A q \in PaymentsOf(s) : pays[p].due <= pays[q].due}

\* payment.findFirst({subscriptionId, status: PENDING}, orderBy dueDate asc)
OldestPending(s) ==
    LET pending == {p \in PaymentsOf(s) : pays[p].status = "PENDING"}
    IN {p \in pending : \A q \in pending : pays[p].due <= pays[q].due}

\* Mutant of LocatePayment: a single payment that was paid is not looked at again.
LocateUnpaid(r) ==
    /\ At(r, "locate")
    /\ \/ /\ IsSingle(Reference(r))
          /\ IF pays[Reference(r)].status = "COMPLETED"
             THEN Finish(r)
             ELSE Become(r, [request[r] EXCEPT !.at = "record", !.pay = Reference(r)])
       \/ /\ ~IsSingle(Reference(r))
          /\ \E p \in OldestPending(Reference(r)) :
               Become(r, [request[r] EXCEPT !.at = "record", !.pay = p])
       \/ /\ ~IsSingle(Reference(r))
          /\ OldestPending(Reference(r)) = {}
          /\ Finish(r)
    /\ UNCHANGED <<tables, gateway, cancelAsked>>

\* payment.findUnique, and in "Caso 2" payment.findFirst: payments are never
\* deleted, so the answer of the first is known from the reference alone.
LocatePayment(r) ==
    /\ At(r, "locate")
    /\ \/ /\ IsSingle(Reference(r))
          /\ Become(r, [request[r] EXCEPT !.at = "record", !.pay = Reference(r)])
       \/ /\ ~IsSingle(Reference(r))
          /\ \E p \in OldestPending(Reference(r)) :
               Become(r, [request[r] EXCEPT !.at = "record", !.pay = p])
       \/ /\ ~IsSingle(Reference(r))
          /\ OldestPending(Reference(r)) = {}
          /\ Finish(r)
    /\ UNCHANGED <<tables, gateway, cancelAsked>>

\* Mutant of AfterRecord: a single payment that fails marks the subscription too.
MarkOnAnyFailure(ref, status) == IF status = "PENDING" THEN "idle" ELSE "mark"

\* The subscription is written only when the payment is approved, or, for a
\* recurring charge, when it failed.
AfterRecord(ref, status) ==
    IF \/ status = "COMPLETED"
       \/ status = "FAILED" /\ ~IsSingle(ref)
    THEN "mark" ELSE "idle"

\* Mutant of Recorded: forgets externalId.
RecordedWithoutId(row, status, charge) ==
    [row EXCEPT !.status = status, !.paidAt = IF status = "COMPLETED" THEN "set" ELSE None]

\* What payment.update writes in a row.
Recorded(row, status, charge) ==
    [row EXCEPT !.status = status, !.externalId = charge,
                !.paidAt = IF status = "COMPLETED" THEN "set" ELSE None]

\* payment.update({status, externalId, paidAt})
RecordPayment(r) ==
    LET status == MapMercadoPagoStatus(request[r].raw)
        p == request[r].pay
    IN /\ At(r, "record")
       /\ pays' = [pays EXCEPT ![p] = Recorded(@, status, request[r].external)]
       /\ IF AfterRecord(Reference(r), status) = "mark"
          THEN GoTo(r, "mark")
          ELSE Finish(r)
       /\ UNCHANGED <<subs, gateway, cancelAsked>>

StatusAfterPayment(status) == IF status = "COMPLETED" THEN "ACTIVE" ELSE "PAST_DUE"

\* subscription.update({status}) of the subscription of the payment.
MarkSubscription(r) ==
    /\ At(r, "mark")
    /\ subs' = [subs EXCEPT ![pays[request[r].pay].subscription].status =
                  StatusAfterPayment(MapMercadoPagoStatus(request[r].raw))]
    /\ Finish(r)
    /\ UNCHANGED <<pays, gateway, cancelAsked>>

\* getSubscriptionStatus: a snapshot of the preapproval.
FetchPreapproval(r) ==
    /\ At(r, "idle")
    /\ \E a \in Preapprovals :
         /\ preapprovals[a] # None
         /\ Become(r, [Idle EXCEPT !.at = "sync", !.external = a,
                                 !.raw = preapprovals[a].status])
    /\ UNCHANGED <<tables, gateway, cancelAsked>>

\* Mutant of StatusAfterPreapproval: tests for the end instead of the start.
ActiveUnlessCancelled(raw) == IF raw = "cancelled" THEN "CANCELLED" ELSE "ACTIVE"

StatusAfterPreapproval(raw) == IF raw = "authorized" THEN "ACTIVE" ELSE "CANCELLED"

\* processSubscriptionStatusUpdate
SyncSubscription(r) ==
    LET a == request[r].external
    IN /\ At(r, "sync")
       /\ subs' = [subs EXCEPT
                     ![preapprovals[a].reference] =
                       [@ EXCEPT !.status = StatusAfterPreapproval(request[r].raw),
                                 !.externalId = a]]
       /\ Finish(r)
       /\ UNCHANGED <<pays, gateway, cancelAsked>>

WebhookStep(r) ==
    \/ FetchCharge(r)
    \/ LocatePayment(r)
    \/ RecordPayment(r)
    \/ MarkSubscription(r)
    \/ FetchPreapproval(r)
    \/ SyncSubscription(r)
=============================================================================

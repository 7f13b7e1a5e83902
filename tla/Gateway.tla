------------------------------ MODULE Gateway ------------------------------
(***************************************************************************)
(* MercadoPago, as src/src/payments/mercadopago.service.ts uses it: payers *)
(* pay links, preapprovals are authorised, paused and cancelled, charges   *)
(* change status.  The gateway moves whenever it likes.                    *)
(***************************************************************************)
EXTENDS BillingData

NewCharge(ref) == [reference |-> ref, status |-> "pending", seen |-> {"pending"}]

\* A payer opens the link of a payment and starts to pay it.  Links stay open:
\* one may be paid more than once.
PayLink(c, p) ==
    /\ charges[c] = None
    /\ p \in links
    /\ charges' = [charges EXCEPT ![c] = NewCharge(p)]
    /\ UNCHANGED <<tables, request, links, preapprovals, cancelAsked>>

\* The monthly charge of an authorised preapproval; it carries the reference
\* of the preapproval.
ChargePreapproval(c, a) ==
    /\ charges[c] = None
    /\ preapprovals[a] # None
    /\ preapprovals[a].status = "authorized"
    /\ charges' = [charges EXCEPT ![c] = NewCharge(preapprovals[a].reference)]
    /\ UNCHANGED <<tables, request, links, preapprovals, cancelAsked>>

MoveCharge(c) ==
    /\ charges[c] # None
    /\ \E move \in ChargeMoves :
         /\ charges[c].status = move[1]
         /\ charges' = [charges EXCEPT ![c] = Reported(@, move[2])]
    /\ UNCHANGED <<tables, request, links, preapprovals, cancelAsked>>

MovePreapproval(a) ==
    /\ preapprovals[a] # None
    /\ \E move \in PreMoves :
         /\ preapprovals[a].status = move[1]
         /\ preapprovals' = [preapprovals EXCEPT ![a] = Reported(@, move[2])]
    /\ UNCHANGED <<tables, request, links, charges, cancelAsked>>

GatewayStep ==
    \/ \E c \in Charges :
         \/ \E p \in Payments : PayLink(c, p)
         \/ \E a \in Preapprovals : ChargePreapproval(c, a)
         \/ MoveCharge(c)
    \/ \E a \in Preapprovals : MovePreapproval(a)
=============================================================================

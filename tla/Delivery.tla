------------------------------ MODULE Delivery ------------------------------
(***************************************************************************)
(* Billing with the notifications MercadoPago owes.  It notifies every     *)
(* change of a charge and repeats a notification until it gets an answer.  *)
(* The handler (handleWebhook of src/src/payments/payments.service.ts)     *)
(* answers OK once it has run, also when an error ended it: such a         *)
(* notification does not come again.  Only a process that stops leaves it  *)
(* without an answer.                                                      *)
(***************************************************************************)
EXTENDS Billing

CONSTANT MaxCrashes  \* bound: times the process stops

ASSUME CrashAssumption == MaxCrashes \in Nat

VARIABLES
    undelivered,  \* charges with a change that no handler has asked for since
    swallowed,    \* charges of handlers that an error ended: answered OK
    crashes

delivery == <<undelivered, swallowed, crashes>>
dvars == <<vars, delivery>>

DeliveryInit ==
    /\ Init
    /\ undelivered = {}
    /\ swallowed = {}
    /\ crashes = 0

\* The charges whose notification a request is serving.
Serving(r) == {request[r].external} \cap Charges

Owe ==
    /\ GatewayStep
    /\ undelivered' = undelivered \cup {c \in Charges : charges'[c] # charges[c]}
    /\ UNCHANGED <<swallowed, crashes>>

\* A handler asks for the charge: all its changes so far are in the answer.  It
\* may also start for a notification that was served before.
Receive(r) ==
    /\ FetchCharge(r)
    /\ undelivered' = undelivered \ {request'[r].external}
    /\ UNCHANGED <<swallowed, crashes>>

\* A request that has begun goes on, with everything an await can lead to except
\* an error.
Proceed(r) ==
    /\ ~At(r, "idle")
    /\ EnrollingStep(r) \/ WebhookStep(r)
    /\ UNCHANGED delivery

\* The other requests a client, or a notification of a preapproval, begins.
Begin(r) ==
    /\ At(r, "idle")
    /\ EnrollingStep(r) \/ FetchPreapproval(r)
    /\ UNCHANGED delivery

\* catch (error) { this.logger.error(...) }, and { status: 'OK' }.
Fail(r) ==
    /\ Abort(r)
    /\ swallowed' = swallowed \cup Serving(r)
    /\ UNCHANGED <<undelivered, crashes>>

\* The process stops: every request ends, and its notification comes again.
Crash ==
    /\ crashes < MaxCrashes
    /\ Stop
    /\ undelivered' = undelivered \cup UNION {Serving(r) : r \in Requests}
    /\ crashes' = crashes + 1
    /\ UNCHANGED swallowed

DeliveryNext ==
    \/ \E r \in Requests : Receive(r) \/ Proceed(r) \/ Begin(r) \/ Fail(r)
    \/ Owe
    \/ Crash

(***************************************************************************)
(* Fairness.  The event loop brings every request to its end: by its own   *)
(* steps or, when a call does not come back, by the error of a timeout.    *)
(* MercadoPago repeats a notification until it is taken, and the server is *)
(* not always busy with something else.  Nothing is asked of payers,       *)
(* clients or of the gateway's charges.                                    *)
(***************************************************************************)
TakeNotification(r) == Receive(r) /\ request'[r].external \in undelivered

DeliverySpec ==
    /\ DeliveryInit
    /\ [][DeliveryNext]_dvars
    /\ \A r \in Requests : WF_dvars(Proceed(r) \/ Fail(r))
    /\ SF_dvars(\E r \in Requests : TakeNotification(r))

-----------------------------------------------------------------------------
DeliveryTypeOK ==
    /\ TypeOK
    /\ undelivered \in SUBSET Charges
    /\ swallowed \in SUBSET Charges
    /\ crashes \in 0 .. MaxCrashes

\* The transactions made for payment p itself, through its link.
OwnCharges(p) == {c \in Charges : charges[c] # None /\ charges[c].reference = p}

\* The row of p says what its own transaction says, unless the notification of
\* one of them was answered OK without having been served.
UpToDate(p) ==
    OwnCharges(p) # {} /\ OwnCharges(p) \cap swallowed = {} =>
        /\ pays[p].externalId # None
        /\ pays[p].externalId \in OwnCharges(p) =>
             pays[p].status = MapMercadoPagoStatus(charges[pays[p].externalId].status)

\* A payment that does not say what its transaction says has a notification on
\* its way or being served: with requests about the same course kept apart, none
\* is taken from the gateway and then forgotten, wherever the process stops.
NothingForgotten ==
    \A p \in Payments :
        \/ UpToDate(p)
        \/ OwnCharges(p) \cap (undelivered \cup UNION {Serving(r) : r \in Requests}) # {}

(***************************************************************************)
(* Liveness                                                                *)
(***************************************************************************)
\* With requests one at a time every single payment comes to agree with
\* MercadoPago and stays so, however late, repeated or reordered the
\* notifications are and whether or not the process stops meanwhile; only an
\* error in the handler, which is answered OK, can keep it from that.
Converges == \A p \in Payments : <>[]UpToDate(p)

\* The payment is recorded as approved by its own transaction, its subscription
\* still waits.
Unactivated(p) ==
    /\ pays[p] # None
    /\ pays[p].status = "COMPLETED"
    /\ pays[p].externalId \in OwnCharges(p)
    /\ subs[pays[p].subscription].status = "PENDING"

\* A subscription whose single payment was made does not stay PENDING: a handler
\* stopped between the two writes is run again and writes both, unless its error
\* was answered OK or the transaction is no longer approved.
PaidIsActivated ==
    \A p \in Payments :
        Unactivated(p) ~> \/ ~Unactivated(p)
                          \/ pays[p].externalId \in swallowed
                          \/ charges[pays[p].externalId].status # "approved"
=============================================================================

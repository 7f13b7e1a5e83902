---------------------------- MODULE BillingData ----------------------------
(***************************************************************************)
(* The billing state of one school: the Subscription and Payment tables,   *)
(* the requests being served, and what MercadoPago holds about them.       *)
(*                                                                         *)
(* A request is an async function of PaymentsService.  Between two awaits  *)
(* it runs alone; at an await any other request may run.  So each awaited  *)
(* call (one SQL statement, one HTTP call to the gateway) is one action,   *)
(* and what the function carries over the await is kept in `request`.      *)
(***************************************************************************)
EXTENDS Calendar, FiniteSets

CONSTANTS
    Users,          \* ids of the users that pay or are taught
    Plans,          \* ids of the active plans
    Subscriptions,  \* ids a Subscription row can get
    Payments,       \* ids a Payment row can get
    Requests,       \* slots of requests being served at the same time
    Charges,        \* ids of MercadoPago payments (transactions)
    Preapprovals,   \* ids of MercadoPago preapprovals (recurring agreements)
    Duration,       \* plan.durationMonths || 1, by plan
    Checkouts,      \* the (payer, student, plan) a client may ask to subscribe
    Starts,         \* the dates at which createSubscription may run
    LinkDues,       \* the due dates a client may give to a single payment
    ChargeMoves,    \* the changes of status MercadoPago makes to a charge
    PreMoves,       \* the changes of status MercadoPago makes to a preapproval
    None            \* null

(***************************************************************************)
(* Raw states of the gateway, as its API reports them.                     *)
(***************************************************************************)
ChargeStatus ==
    {"pending", "in_process", "approved", "rejected", "cancelled", "refunded"}
PreStatus == {"pending", "authorized", "paused", "cancelled"}

Checkout == [payer : Users, student : Users, plan : Plans]

ASSUME DurationAssumption == Duration \in [Plans -> Nat \ {0}]
ASSUME AskAssumption ==
    /\ Checkouts \subseteq Checkout
    /\ Starts \subseteq Dates
    /\ LinkDues \subseteq Nat
\* Ids are UUIDs: a payment, a subscription and null are never the same.
ASSUME IdAssumption ==
    /\ Payments \cap Subscriptions = {}
    /\ None \notin Payments \cup Subscriptions \cup Charges \cup Preapprovals
    /\ None \notin ChargeStatus \cup PreStatus
ASSUME ChargeMovesAssumption == ChargeMoves \subseteq ChargeStatus \X ChargeStatus
\* MercadoPago never reopens a cancelled preapproval.
ASSUME PreMovesAssumption ==
    /\ PreMoves \subseteq PreStatus \X PreStatus
    /\ \A move \in PreMoves : move[1] # "cancelled"

VARIABLES
    subs,          \* table Subscription
    pays,          \* table Payment
    request,       \* what each request being served carries over its awaits
    links,         \* gateway: the payments that have a payment link (Preference)
    charges,       \* gateway: its payments
    preapprovals,  \* gateway: its preapprovals
    cancelAsked    \* history: subscriptions whose cancellation was requested

tables == <<subs, pays>>
gateway == <<links, charges, preapprovals>>
vars == <<subs, pays, request, links, charges, preapprovals, cancelAsked>>

(***************************************************************************)
(* Rows.  `due` is the Stamp of a date and paidAt is null or set.  `origin` *)
(* (history) says which installment of which schedule the row is; it is    *)
(* None in a single payment.                                               *)
(***************************************************************************)
SubscriptionStatus == {"PENDING", "ACTIVE", "PAST_DUE", "CANCELLED"}
PaymentStatus == {"PENDING", "COMPLETED", "FAILED"}

SubscriptionRow ==
    [student : Users, payer : Users, plan : Plans,
     status : SubscriptionStatus, externalId : Preapprovals \cup {None}]

PaymentRow ==
    [subscription : Subscriptions, payer : Users, due : Nat,
     status : PaymentStatus, externalId : Charges \cup {None},
     paidAt : {None, "set"}, origin : [start : Starts, number : Nat] \cup {None}]

(***************************************************************************)
(* The gateway's objects.  external_reference is what this system gave it; *)
(* `seen` (history) holds every status the object has had.                 *)
(***************************************************************************)
ChargeObject ==
    [reference : Payments \cup Subscriptions, status : ChargeStatus,
     seen : SUBSET ChargeStatus]

PreapprovalObject ==
    [reference : Subscriptions, status : PreStatus, seen : SUBSET PreStatus]

\* null is not a row, not an object and not a time.
ASSUME NullAssumption ==
    /\ None \notin SubscriptionRow \cup PaymentRow
    /\ None \notin ChargeObject \cup PreapprovalObject
    /\ None # "set"
    /\ None \notin [start : Starts, number : Nat]

(***************************************************************************)
(* A request: where it waits, and its local variables.                     *)
(***************************************************************************)
Waits ==
    {"idle",
     "write", "count", "generate", "preapprove",  \* createSubscription
     "link",                                      \* createPayment
     "cancelpre", "cancelrow",                    \* cancelSubscription
     "locate", "record", "mark",                  \* handleWebhook, payment
     "sync"}                                      \* handleWebhook, preapproval

RequestState ==
    [at : Waits, ask : Checkout \cup {None},
     sub : Subscriptions \cup {None}, pay : Payments \cup {None},
     external : Charges \cup Preapprovals \cup {None},
     raw : ChargeStatus \cup PreStatus \cup {None}]

Idle == [at |-> "idle", ask |-> None, sub |-> None, pay |-> None,
         external |-> None, raw |-> None]

TypeOK ==
    /\ subs \in [Subscriptions -> SubscriptionRow \cup {None}]
    /\ pays \in [Payments -> PaymentRow \cup {None}]
    /\ request \in [Requests -> RequestState]
    /\ links \in SUBSET Payments
    /\ charges \in [Charges -> ChargeObject \cup {None}]
    /\ preapprovals \in [Preapprovals -> PreapprovalObject \cup {None}]
    /\ cancelAsked \in SUBSET Subscriptions

Init ==
    /\ subs = [s \in Subscriptions |-> None]
    /\ pays = [p \in Payments |-> None]
    /\ request = [r \in Requests |-> Idle]
    /\ links = {}
    /\ charges = [c \in Charges |-> None]
    /\ preapprovals = [a \in Preapprovals |-> None]
    /\ cancelAsked = {}

(***************************************************************************)
(* How a request moves on and how it ends.                                 *)
(***************************************************************************)
At(r, place) == request[r].at = place
Become(r, state) == request' = [request EXCEPT ![r] = state]
GoTo(r, place) == Become(r, [request[r] EXCEPT !.at = place])
Finish(r) == Become(r, Idle)

\* An object of the gateway takes a new status.
Reported(object, status) ==
    [object EXCEPT !.status = status, !.seen = @ \cup {status}]

PaymentsOf(s) == {p \in Payments : pays[p] # None /\ pays[p].subscription = s}
=============================================================================

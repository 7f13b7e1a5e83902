------------------------------- MODULE Alerts -------------------------------
(***************************************************************************)
(* TasksService (src/src/tasks/tasks.service.ts): the alerts on unpaid     *)
(* installments of one school.  Every morning, and whenever someone posts  *)
(* trigger-alerts, handleCron starts checkUpcomingPayments and             *)
(* checkOverduePayments side by side, whatever runs are still under way.   *)
(* Each queries the payments once, then sends and marks one after another; *)
(* a query, a sending and a marking are one awaited call each.  Schools    *)
(* are served independently, so one stands for all.                        *)
(*                                                                         *)
(* Time is counted in ticks, Day to the day, tick 0 at a local midnight.   *)
(***************************************************************************)
EXTENDS Integers, FiniteSets

CONSTANTS
    Payments,         \* the installments
    Dues,             \* the times they may be due
    Admins,           \* the administrators of the school
    Jobs,             \* slots of runs of the two checks under way
    Day,              \* ticks in a day
    PreDueAlertDays,  \* school.preDueAlertDays
    MoraAlertDays,    \* school.moraAlertDays
    MaxTime,          \* bound: the last tick
    MaxLost,          \* bound: runs that stop between a sending and its marking
    None              \* null

ASSUME TimeAssumption ==
    /\ Day \in Nat \ {0}
    /\ {PreDueAlertDays, MoraAlertDays, MaxTime, MaxLost} \subseteq Nat
    /\ Dues \subseteq Int
ASSUME SetsAssumption == IsFiniteSet(Jobs) /\ None \notin Payments \cup Int
ASSUME KindsAssumption == None \notin {"upcoming", "overdue"}

VARIABLES
    pays,     \* table Payment: due date, status and lastAlertSentAt
    job,      \* the runs under way
    now,      \* the clock
    preDue,   \* history: pre-due reminders sent for each payment
    peak,     \* history: the most checks of upcoming payments under way at once
    lost      \* history: runs that stopped after a reminder and before its mark

vars == <<pays, job, now, preDue, peak, lost>>

\* COMPLETED and FAILED are the same to this module.
PaymentRow ==
    [due : Dues, status : {"PENDING", "settled"},
     lastAlert : Int \cup {None}]

\* `owed` and `since` are history: what the query was about, and when.
JobState ==
    [at : {"idle", "upcoming", "overdue", "tell", "mark"},
     kind : {"upcoming", "overdue", None},
     queue : SUBSET Payments, pay : Payments \cup {None},
     toTell : SUBSET Admins, owed : SUBSET Payments, since : Int]

Idle == [at |-> "idle", kind |-> None, queue |-> {}, pay |-> None,
         toTell |-> {}, owed |-> {}, since |-> 0]

TypeOK ==
    /\ pays \in [Payments -> PaymentRow]
    /\ job \in [Jobs -> JobState]
    /\ \A j \in Jobs : /\ job[j].pay # None <=> job[j].at \in {"tell", "mark"}
                       /\ job[j].toTell # {} <=> job[j].at = "tell"
    /\ now \in 0 .. MaxTime
    /\ preDue \in [Payments -> Nat]
    /\ peak \in Nat
    /\ lost \in [Payments -> 0 .. MaxLost]

Init ==
    /\ pays \in [Payments -> [due : Dues, status : {"PENDING"}, lastAlert : {None}]]
    /\ job = [j \in Jobs |-> Idle]
    /\ now = 0
    /\ preDue = [p \in Payments |-> 0]
    /\ peak = 0
    /\ lost = [p \in Payments |-> 0]

Become(j, state) == job' = [job EXCEPT ![j] = state]

\* setDate(getDate() + days); setHours(0, 0, 0, 0)
MidnightIn(days) == (now \div Day + days) * Day

(***************************************************************************)
(* checkUpcomingPayments                                                   *)
(***************************************************************************)
\* Mutant of Upcoming: forgets that lastAlertSentAt must be null.
UpcomingAgain ==
    {p \in Payments :
        /\ pays[p].status = "PENDING"
        /\ pays[p].due >= MidnightIn(PreDueAlertDays)
        /\ pays[p].due < MidnightIn(PreDueAlertDays) + Day}

\* Due in the day that is preDueAlertDays ahead, and never alerted.
Upcoming ==
    {p \in Payments :
        /\ pays[p].status = "PENDING"
        /\ pays[p].due >= MidnightIn(PreDueAlertDays)
        /\ pays[p].due < MidnightIn(PreDueAlertDays) + Day
        /\ pays[p].lastAlert = None}

Reminding == {j \in Jobs : job[j].kind = "upcoming"}

StartUpcoming(j) ==
    /\ job[j].at = "idle"
    /\ Become(j, [Idle EXCEPT !.at = "upcoming", !.kind = "upcoming",
                              !.queue = Upcoming, !.owed = Upcoming, !.since = now])
    /\ peak' = IF Cardinality(Reminding) < peak THEN peak ELSE Cardinality(Reminding) + 1
    /\ UNCHANGED <<pays, now, preDue, lost>>

\* sendPreDueAlert.  A mail that fails is logged and counts as sent.
SendPreDue(j) ==
    /\ job[j].at = "upcoming"
    /\ \E p \in job[j].queue :
         /\ Become(j, [job[j] EXCEPT !.at = "mark", !.pay = p, !.queue = @ \ {p}])
         /\ preDue' = [preDue EXCEPT ![p] = @ + 1]
    /\ UNCHANGED <<pays, now, peak, lost>>

(***************************************************************************)
(* checkOverduePayments                                                    *)
(***************************************************************************)
Owed ==
    {p \in Payments :
        pays[p].status = "PENDING" /\ pays[p].due <= MidnightIn(-MoraAlertDays)}

\* Mutant of Overdue: forgets those that were never alerted.
OverdueAgain ==
    {p \in Owed : pays[p].lastAlert # None /\ pays[p].lastAlert < now - 2 * Day}

\* Never alerted, or more than two days ago.
Overdue ==
    {p \in Owed : pays[p].lastAlert = None \/ pays[p].lastAlert < now - 2 * Day}

StartOverdue(j) ==
    /\ job[j].at = "idle"
    /\ Become(j, [Idle EXCEPT !.at = "overdue", !.kind = "overdue", !.queue = Overdue,
                              !.owed = Owed, !.since = now])
    /\ UNCHANGED <<pays, now, preDue, peak, lost>>

\* The next payment of the queue: nobody to tell, or one administrator after another.
TakeOverdue(j) ==
    /\ job[j].at = "overdue"
    /\ \E p \in job[j].queue :
         Become(j, [job[j] EXCEPT !.at = IF Admins = {} THEN "mark" ELSE "tell",
                                  !.pay = p, !.queue = @ \ {p}, !.toTell = Admins])
    /\ UNCHANGED <<pays, now, preDue, peak, lost>>

\* sendMoraAlert
SendMora(j) ==
    /\ job[j].at = "tell"
    /\ \E admin \in job[j].toTell :
         Become(j, [job[j] EXCEPT !.at = IF job[j].toTell = {admin} THEN "mark" ELSE "tell",
                                  !.toTell = @ \ {admin}])
    /\ UNCHANGED <<pays, now, preDue, peak, lost>>

(***************************************************************************)
(* Both: payment.update({lastAlertSentAt: new Date()}), and the end.       *)
(***************************************************************************)
\* Mutant of Mark: goes on with the payment it has marked.
MarkAndStay(j) ==
    /\ job[j].at = "mark"
    /\ pays' = [pays EXCEPT ![job[j].pay].lastAlert = now]
    /\ Become(j, [job[j] EXCEPT !.at = job[j].kind])
    /\ UNCHANGED <<now, preDue, peak, lost>>

Mark(j) ==
    /\ job[j].at = "mark"
    /\ pays' = [pays EXCEPT ![job[j].pay].lastAlert = now]
    /\ Become(j, [job[j] EXCEPT !.at = job[j].kind, !.pay = None])
    /\ UNCHANGED <<now, preDue, peak, lost>>

\* How long before it began a run takes a payment for alerted.
Grace(s) == IF s.kind = "overdue" THEN 2 * Day ELSE 0

Done(j) == job[j].at \in {"upcoming", "overdue"} /\ job[j].queue = {}

EndJob(j) ==
    /\ Done(j)
    /\ Become(j, Idle)
    /\ UNCHANGED <<pays, now, preDue, peak, lost>>

\* A statement fails, or the process stops: the rest of the queue is dropped.
Abort(j) ==
    /\ job[j].at # "idle"
    /\ ~Done(j)
    /\ IF job[j].at = "mark" /\ job[j].kind = "upcoming"
       THEN /\ lost[job[j].pay] < MaxLost
            /\ lost' = [lost EXCEPT ![job[j].pay] = @ + 1]
       ELSE UNCHANGED lost
    /\ Become(j, Idle)
    /\ UNCHANGED <<pays, now, preDue, peak>>

(***************************************************************************)
(* Around it: the webhook settles payments, and time passes.               *)
(***************************************************************************)
Settle(p) ==
    /\ \E status \in {"PENDING", "settled"} :
         /\ status # pays[p].status
         /\ pays' = [pays EXCEPT ![p].status = status]
    /\ UNCHANGED <<job, now, preDue, peak, lost>>

Tick ==
    /\ now < MaxTime
    /\ now' = now + 1
    /\ UNCHANGED <<pays, job, preDue, peak, lost>>

Next ==
    \/ \E j \in Jobs :
         \/ StartUpcoming(j)
         \/ SendPreDue(j)
         \/ StartOverdue(j)
         \/ TakeOverdue(j)
         \/ SendMora(j)
         \/ Mark(j)
         \/ EndJob(j)
         \/ Abort(j)
    \/ \E p \in Payments : Settle(p)
    \/ Tick

Spec == Init /\ [][Next]_vars

-----------------------------------------------------------------------------
(***************************************************************************)
(* Properties                                                              *)
(***************************************************************************)
\* A payment gets no more pre-due reminders than checks of upcoming payments
\* have been under way at once, and one more for each run that stopped between
\* the mail and the mark, whatever checks of overdue payments mark meanwhile:
\* runs that follow one another never remind of a payment again.
RemindersBounded ==
    \A p \in Payments : preDue[p] <= peak + lost[p]

\* A check that comes to its end leaves none out.  Each payment that was owed
\* when a check of overdue payments began has been alerted in the two days before
\* it began, or since, and each that was coming up when a check of upcoming
\* payments began has been alerted since, whatever other runs did.
NoneLeftOut ==
    [][\A j \in Jobs : Done(j) /\ job'[j].at = "idle" =>
         \A p \in job[j].owed :
             /\ pays[p].lastAlert # None
             /\ pays[p].lastAlert >= job[j].since - Grace(job[j])]_vars
=============================================================================

# Clubit back end: formal models

TLA+ modules, TLC configurations and TLAPS proofs kept beside the code of the
Clubit API (NestJS, Prisma/PostgreSQL, MercadoPago). Paths below are relative to
the repository.

## 1. The system

| Part | State it keeps | Operations | Talks to |
|---|---|---|---|
| `payments/payments.service.ts` | tables `Subscription`, `Payment` | createSubscription, createPayment, cancelSubscription, adminEnrollStudent, handleWebhook | database, gateway, users |
| `payments/mercadopago.service.ts` | none of its own; MercadoPago keeps preferences, preapprovals and charges | create link, create / read / cancel preapproval, read charge | MercadoPago, over HTTP, 5 s timeout |
| `tasks/tasks.service.ts` | `Payment.lastAlertSentAt` | daily cron and `POST payments/trigger-alerts`: reminders before the due date, alerts after it | database, notifications |
| `notifications/` | templates (read only) | three kinds of mail | Resend |
| `lessons/lessons.service.ts` | tables `Lesson`, `LessonEnrollment` | create, update, remove, enrol, unenrol | database |
| `attendance/` | `AttendanceSession`, `AttendanceRecord` | submit a session, in one transaction | database |
| `users/`, `plans/` | tables `User`, `UserTutor`, `Plan` | create, read, update, hide | database |
| `schools/`, `sports/`, `facilities/`, `prisma/seed.ts` | tables `School`, `Sport`, `SchoolSport`, `Facility` | create, rename and hide a school; offer, configure and take off a sport; add and delete a facility; the seed script upserts a school, a sport and its offer | database |
| `auth/`, `upload/`, `common/`, `prisma/` | none | sign in, guards, files, errors | |

Everything runs in one Node process (or several copies of it) over one
database. A handler is an async function: it runs alone between two awaits, and
at every await any other handler may run. Outside `attendance` no handler uses
a transaction, and besides primary keys only `@@unique` keys protect a table
(there is none on subscriptions, payments or lesson times). So what is hard is
always the same: a value is read, the function waits, and it writes as if the
value still held; or it stops between two writes. MercadoPago adds a second
writer: it notifies every change at least once, in any order, after any delay;
the handler answers OK whatever happens inside it.

What makes each part correct:

* **billing**: what the tables say was paid was paid; a subscription is active
  only if something was paid or agreed; each installment is charged once; a
  repeated enrolment completes the first one instead of doubling it; cancelling
  here cancels there;
* **alerts**: one reminder before the due date, and no unpaid installment
  forgotten after it;
* **lessons**: a facility has one lesson at a time; a lesson has no more students
  than places;
* **users, plans**: one user per email and rut in a school; who pays for a student
  was named for it, and repeating an enrolment admits nobody twice;
* **schools, sports, facilities**: a slug leads to one school; a school has one
  association with a sport, found again after it was taken off, and a form for every
  sport it shows; a lesson has a place to be given at. The form itself is not safe
  from the seed, which writes the fields of its school over what the school has set
  (`prisma/seed.ts:63`);
* **attendance**: a session is stored with all its records or not at all.

`PROJECT.json` lists the hazards one by one, each at its line.

## 2. Modules

| Module | Models |
|---|---|
| `BillingData` | tables, requests in flight, objects of the gateway; types, `Init` |
| `Gateway` | MercadoPago (external): payers pay links, preapprovals are authorised and charged, charges and preapprovals change status, whenever they like |
| `Enrolling` | createSubscription, createPayment, cancelSubscription |
| `Webhook` | handleWebhook, processPaymentStatusUpdate, processSubscriptionStatusUpdate, mapMercadoPagoStatus |
| `Calendar` | `setMonth` of a JavaScript Date, which gives the due dates of a schedule |
| `Billing` | `Enrolling`, `Webhook` and `Gateway` together, failures, and the properties |
| `Delivery` | `Billing` with the notifications MercadoPago owes and repeats, errors answered OK, and a process that stops; fairness and the liveness properties |
| `Ledger` | abstract: accounts and entries, each written in one step on evidence that exists |
| `BillingLedger` | the refinement mapping from `Billing` to `Ledger` |
| `BillingInvariant` | the inductive invariants of `Billing` |
| `BillingProofs`, `ScheduleProofs`, `LedgerProofs` | the proofs of what holds whatever overlaps; `BillingProofs` begins with the theorems on `Calendar` |
| `ApartProofs` | the proofs of what holds when requests about the same student and plan do not overlap, with those on `Delivery` |
| `Admission` | UsersService, PlansService.remove, adminEnrollStudent, and createSubscription up to the row it writes; the properties |
| `AdmissionInvariant`, `AdmissionProofs` | its inductive invariant, the proof, and the theorems |
| `Lessons` | LessonsService, with its properties |
| `LessonsInvariant`, `LessonsProofs` | its inductive invariant, the proof, and the theorems |
| `Alerts` | TasksService and the sending of alerts, with its properties |
| `AlertsInvariant`, `AlertsProofs` | its inductive invariant, the proof, and the theorems |
| `Catalogue` | SchoolsService, SportsService, FacilitiesService, `prisma/seed.ts`, and where lessons refer to facilities |
| `Attendance` | AttendanceService beside the catalogue, failures, and the properties of both |
| `AttendanceInvariant`, `AttendanceProofs` | its inductive invariant, the proof, and the theorems |
| `MCBilling`, `MCDelivery`, `MCAdmission`, `MCLessons`, `MCAlerts`, `MCAttendance` | values for TLC |

`Billing` composes `Enrolling`, `Webhook` and `Gateway` over the state of
`BillingData`. `Lessons` and `Alerts` stand alone: lessons share no table with
billing, and alerts touch one column of `Payment` nobody else writes
(`Alerts!Settle` stands for the webhook). `Admission` and `Billing` meet in
createSubscription: `Billing` takes payer and plan as given and follows the
request to the gateway; `Admission` follows how the payer, the student and the
plan are found, among users and plans that change, and stops at the row. There
a subscription is only open or not: `SwitchSubscription` is all that `Billing` can do to
it, closing it by a cancellation or a notification, or opening it again by a
notification that comes late. No property of either module reads what it leaves to
the other. `Delivery` adds to the steps of `Billing` what makes them happen: its steps
are those of `Billing`, a process that stops (`Stop`) among them. `Attendance` composes its transaction with `Catalogue`; of a lesson
both see only the facility and whether it is hidden, which is what `Lessons`
leaves out (it takes the facilities as given), and `Lessons` has what they leave out.

### How code becomes actions

One action is what runs between two awaits, ending in the awaited statement:
`request[r].at` is the await a request stands at, and the other fields of
`request[r]` are the local variables it carries over. For example
createSubscription is `FindSubscription` (findFirst), `WriteSubscription`
(create or update), `CountPayments`, `GeneratePayments` (createMany, one
statement: all rows or none) and `OpenPreapproval`. Statements that only read
rows nobody changes, and can only reject the request (the lookups of payer and
plan), are folded into the first action, whose inputs are the requests they let
through. A request refused before it has written anything is not a step.

`Abort` ends a request at any await: the database or the gateway fails or does not
answer in time. `Stop` ends them all: the process stops. A call to the gateway whose answer is
lost after it took effect is the effect followed by the end of the request
(`OpenPreapproval` ends it anyway; `CancelPreapproval` may).

In `Admission` the hash of the password is an await of its own, between the check
of `UsersService.create` (`CheckTutor`, `CheckStudent`; for an adult or a user
added by hand it is part of the first action) and the insert (`InsertTutor`,
`InsertStudent`, `InsertUser`), where the unique keys of the table decide
(`Refused`). A PATCH of a user is one statement (`ChangeUser`): the hash that may
precede it reads nothing that can change.

A notification carries only an id and the handler asks for the present status,
so lost, repeated, late and reordered notifications are all covered by: a
handler may start for any charge or preapproval at any time (`FetchCharge`,
`FetchPreapproval`), and need not.

In `Catalogue` and `Attendance` the operations of one statement are one action each
and need no request; a check of the timetable, which `Lessons` models, is here
only the time between choosing a facility (`AskLesson`) and writing the lesson.
A request submits a sheet in three awaited statements; what the first two write is
seen by nobody before the commit, so it stays in `task[r]` (`OpenSession`,
`InsertRecords`) and `Commit` writes both tables; `Abort` forgets it. Unique and
foreign keys are guards (`SlugTaken`, `OfferOf`, `InUse`, `OnePerStudent`). The
script `prisma/seed.ts` is one more process, at most one run at a time, that may
stop after any of its statements and start again, with other fields if it was
edited meanwhile.

Abstractions: one school, except in `Catalogue`; amounts, names, mails and
provider left out; `due` is a number that orders dates (`Stamp`) and `origin`, a
history variable, the date a schedule started from (any of `Starts`) and the
number of the installment; the time of day, and so the zone, is left out; a charge or preapproval status the code does not
name (charged back, in mediation...) is represented by `refunded`, which takes
the same default branch; a charge without an external reference, which the
handler ignores, is left out; the `test-webhook` door is left out. Some
variables are history, written by the model and read only by properties
(`cancelAsked`, `seen`, `origin` in billing; `changed`, `suspect`, `capacities`,
`rush` in lessons; `news`, `named`, `suspect`, `admitted` in admissions; `preDue`,
`peak`, `lost`, `owed`, `since` in alerts; the sheet of a session in attendance;
`swallowed` and `crashes` in delivery).

In `Admission`, passwords, names, roles, profiles and the kind of relation are left
out, and a plan is only active or not: nothing the modelled code decides depends
on them. A user added by hand may come with any tutors, which must exist when it is
inserted; the links of a student never change afterwards, as no code of the
repository writes them. A form has no guardian if it says `isAdult`, because then no
tutor field is read. Otherwise every field of the guardian may be missing, as in the
DTO: without an email the lookup of the tutor filters by the school alone and may
return any of its users (`FoundBy`), and if it returns none the tutor cannot be
created (`CheckTutor`). A missing rut stands for any other field left out.

A sheet of attendance is a list, so an entry has the number of its line: a student
who is named twice is refused, with the same status or another.

In `Lessons`, an enrolment id is fresh if no row has it and no request holds
it, which is what a UUID gives, with a finite set of ids. In `Alerts`, the two
checks of handleCron may start at any time and in any number: the cron, a posted
trigger and a second copy of the process do the same.

## 3. Runs

Each property also has a mutant in `PROJECT.json`: a plausible mistake in a
definition that translates code, with which TLC finds the property violated. The
mutated operators stand in the modules just before the ones they replace.

| Run | Shows | Bounds |
|---|---|---|
| `Webhooks` | `PaymentIsBacked`; `ActiveIsBacked`; `ArrearsAreBacked`; `RecordedBeforeMarked`; `ScheduleBeforePreapproval`; `DueMonthly`; `CancelTellsGatewayFirst`; the refinement `KeepsLedger` | 2 requests, 1 subscription of 2 months, 2 payments (a schedule, or single ones), 2 charges, 1 preapproval |
| `PerEnrolment` | `OneSchedule`; `SettledKept`; `CancelReachesGateway`; `EnrolledOnce`: what holds when requests about the same student and plan do not overlap (`Apart`), whatever others do | 2 requests, 2 students of one plan of 1 month, 2 subscriptions, 2 payments, 2 charges, 1 preapproval |
| `OneAtATime` | `NothingForgotten`; `NoRegress`; the liveness of `Converges` and `PaidIsActivated`: requests that do not overlap but may fail, stop with the process and be repeated | 1 request, 1 subscription of 1 month, 2 payments (room for a second schedule, and for a single payment due later), 1 charge with a refund, 1 preapproval, 1 stop of the process; no symmetry |
| `Admissions` | `OneUserPerKey`; `PayerWasNamed`; `AdmittedOnce` | 2 requests, 3 users, 3 emails and ruts, 1 plan, 2 subscriptions; a child with its mother or with nobody, the mother for herself, or as she was before (by hand, without tutors); orders by the mother's email for any user; one change of email. `Bounded`: at a time one user is hidden or has changed its email, or the plan is withdrawn, or one subscription is closed, and at most two pairs of a payer and a student are named |
| `Timetable` | `DoubleBookingExplained`; `OverbookingBounded` | 2 requests, 2 lessons on one facility and 2 days, 3 enrolments, 3 students; patches of the day, of the end, of the places and of `active`. `OneAtStake`: students enrol while there is only one lesson |
| `Reminders` | `RemindersBounded`; `NoneLeftOut` | 2 runs at a time, 2 payments, 5 days of one tick, at most 1 lost mark per payment |
| `Courses` | `OneSchoolPerSlug`; `OneFormPerSport`; `LessonsHaveAPlace`; `SheetsAreWhole` | 2 requests, 2 schools, 2 slugs, 1 sport with 2 choices of fields, 2 offers, 1 facility, 1 lesson, 2 students, 2 sessions; a sheet with two students, and two that name a student twice, with another status and with the same |
| `ChargeBookedTwice` | violated: one charge settles one payment | |
| `SubscribedTwice` | violated: one live subscription per student and plan | |
| `CancelRace` | violated: a cancelled subscription has its preapproval cancelled | |
| `PendingAgreement` | violated: nobody's new subscription is cancelled by itself | |
| `StrangerBilled` | violated: nobody pays for a student without having been named for it | as `Admissions`, without changes of email |

Why these bounds: every race in this code is between two requests (a third
only repeats one of them), so two slots show them all; in `PerEnrolment` two
courses are what it takes for two requests to overlap at all; two charges are what it
takes to confuse one with another; two installments, to take the wrong one. In
`OneAtATime` the interesting repetitions are of one charge (notified before and
after the process stops, approved and then refunded), so one charge suffices. In
`Courses` two schools can collide on a slug, two offers be one too many, and the
seed works on one of the slugs that requests use too. The
patches of `Timetable` are those that combine: the first lesson has room beside the
second on another day, or for an hour longer, but not for both, and its places can be
made fewer than the students it has. A roll concerns one lesson and the timetable no
roll, so nothing is lost by `OneAtStake`. In `Admissions` three users are a child, its mother, and a stranger
who takes an email that was given up, the least it takes to bill the wrong
person. Sets of ids are symmetric. The number of steps is bounded by the ids,
by the moves given to the gateway and, in `Alerts`, by `MaxTime` and `MaxLost`;
deadlock is checked everywhere.

The safety properties say what remains true under every interleaving. Some
promises one would like only hold when requests about the same course, a student
in a plan, do not overlap: `Apart`, which says what a lock per student and plan
(held from the first await that knows them to the last write) would give. Nothing
in the code sees to it; `ApartSpec` is `Billing` under that condition, checked in
`PerEnrolment`, and with a single request, which is a special case, in `OneAtATime`.
It is meant to be as small as it can be: the rest overlaps as before.
`Lessons` and `Alerts` measure the overlap instead, in history variables, so that
their properties say at once what holds with and without it: `DoubleBookingExplained`
excepts a lesson only when another was put in the way of its request (`changed`)
or nobody checked; `OverbookingBounded` allows for the requests that have been about to
enrol in that lesson at once (`rush`), which is none too many when there was one;
`RemindersBounded` for the checks of upcoming payments that have been under way at
once (`peak`), and for each run that stopped between the mail and the mark (`lost`).
What a comment or document promises without that condition, and the code does not
keep, is in section 5, with the violation runs that show some of it. Three races have
no such run: the schedule that two requests create twice (`payments.service.ts:113`),
the installment that two charges overwrite (`:387`) and the facility given twice
(`lessons.service.ts:17`). The conditions of `OneSchedule` and `SettledKept` exclude
the first two, and `DoubleBookingExplained` excepts the third.

`SetMonthAssumption`, evaluated with every run of `MCBilling`, compares `SetMonth`
with the definition ECMAScript gives (count days from an epoch), for every date of
two years, one of them a leap year, and up to twelve months on.

### Fairness

Only `DeliverySpec` assumes any:

* a request that has begun goes on or ends in an error (weak fairness, per
  request): the event loop runs every continuation, and a call that does not
  come back ends in the timeout of the client or the connection;
* a notification that is owed is taken again and again, not always refused
  (strong fairness of `Receive` for charges in `undelivered`): MercadoPago repeats a
  notification until it gets an answer, and other requests leave room for it. In
  fact MercadoPago gives up after some days; the assumption is that the server is
  back by then.

Nothing is assumed of clients, payers, charges or preapprovals. An error in the
handler is answered OK, so its notification is not repeated: such charges are in
`swallowed`, and the liveness properties except them, because they are lost. Only
a stop of the process, which leaves the notification unanswered, is made good.
With two requests at a time `Converges` does not hold: a handler that asked earlier
may write later, and nothing comes after it to correct the row (the hazard at
`payments.service.ts:320`). Liveness is therefore checked with one request at a time.

## 4. Proofs

`BillingProofs` proves, for every set of users, plans, subscriptions, payments,
requests, charges and preapprovals, every plan duration and every behaviour of
the gateway allowed by the assumptions of `BillingData`:

* `Invariance`: `Spec => []IInv`;
* `TypeCorrect`, `PaymentsAreBacked`, `ActiveSubscriptionsAreBacked`,
  `ArrearsHaveACause`, `PaymentsAreRecordedFirst`, `GatewayIsToldFirst`: the
  properties of the runs that hold whatever overlaps.

None of the properties is inductive: a handler writes what it read some awaits
ago. `IInv` therefore says what a request in flight may rely on (`InFlight`): a
handler that is about to record holds a status its charge has had (`seen` only
grows) and a payment that charge is about (references never change, rows are
never deleted); one that is about to mark the subscription has recorded; a
cancellation that is about to write the row has seen its preapproval cancelled,
and MercadoPago never reopens one (`PreMovesAssumption`). To this it adds
`Referential` (what is referred to exists), `PaymentIsBacked`, and
`StatusIsJustified`, which joins the properties of subscriptions. The proof has
one lemma per conjunct and, in it, one step per action; the lemmas `Grows...`
say that rows, charges and agreements only accumulate, so that facts about
requests that do not move are kept.

Assumptions used: durations are positive, ids of payments and subscriptions
differ (UUIDs) and null is none of them, MercadoPago does not reopen cancelled
preapprovals.

`LessonsProofs` proves `LessonsTypeCorrect`, `DoubleBookingsAreExplained` and
`OverbookingIsBounded` for every set of lessons, students, facilities and times,
and finite sets of requests and enrolment ids. `IInv` of `LessonsInvariant` says
what a request still knows when it writes: a lesson that did not conflict at the
check conflicts now only with lessons placed since, and only those of them that
overlap it, or are the lesson itself, are news to the request (`changed`): a write
without news is right, and one that has some marks the lesson `suspect` until it is
placed again after a check. The bound on overbooking is not inductive in its own
form, because a request that found room has not taken it yet: the invariant
counts the students enrolled together with the requests about to enrol one
(`Pending`), against some capacity the lesson has had (0, no limit, included) and the
most requests that have been about to enrol in it at once (`rush`). The lemmas on
cardinalities say what one more or one fewer element does to those two sets.

`AdmissionProofs` proves `AdmissionTypeCorrect`, `UsersAreUnique`,
`PayersWereNamed` and `StudentsAreAdmittedOnce`, for every set of users,
emails, plans, subscriptions, requests and forms. The invariant (`IInv` of
`AdmissionInvariant`) carries facts about the users a request has found or
created: they exist (rows are only hidden), the student has the links the request
gave it, and, until the user it holds gets a new email (`news`), the mail at which the
request will look for the payer is that of the person its form named (`named`), if it
named one. With `OneUserPerKey`, proved along with it, that lookup can then only find
this person. Forms that name no tutor are not assumed away: the subscriptions they
write are `suspect`. For `AdmittedOnce` it adds that the student of an enrolment under
way is nobody else's: the insert would have been refused. The lemmas `...IsGentle` and
`...Stays` say which steps leave these facts about other requests alone.

Assumptions used there: inputs have their types and null is none of the values.

`ScheduleProofs` strengthens the invariant with `ScheduleInv` (a schedule is there as
a whole or not at all, a request enrols in the plan of its subscription, due dates
come from `SetMonth`) for `SchedulesComeFirst` and `InstallmentsAreMonthly`, the latter
on the theorems about `Calendar` in `BillingProofs`: a setMonth forward gives a date, in the month
meant if that month has the day (`OneDateAMonth`), else in the first three days of
the next (`SpillIsShort`), and later for more months (`DatesAdvance`).

`ApartProofs` proves what `ApartSpec` keeps, for any number of courses and of requests
at a time: `SchedulesAreSingle`, `SettledPaymentsAreKept`, `EnrolmentsAreSingle` and
`CancellationsReachTheGateway`. The invariant (`ApartInv`: `OneSchedule`, and `StillTrue` of
each request) says that what a request has looked up still holds when it writes:
a student without a live subscription has none, a subscription counted without
installments has none, the installment found PENDING is so, the `externalId` is as
read. One lemma per table says that a step writes only rows of its own course
(`WritesSubs`, `WritesPays`); as no other request is about that course (`Matter`), the
facts of the others are left alone (`Undisturbed`), and for the request that moves
`ReadsTrue` compares what it reads with what it keeps.

`RecordsDoNotRegress` also needs `NeverReapproved(Early)`: some set of charge states
before the approval is not entered again once left, so what a handler heard of a
charge that is not approved stays true of one that was. The state of the gateway
changes while a handler waits, so being apart is not enough by itself.

`OneSlotIsApart` makes one request at a time a special case: with one slot every
behaviour of `Spec` is one of `ApartSpec`.

For `Delivery` it proves, without any condition, that it adds no behaviour to `Billing`
(`DeliveryIsBilling`) and has its types (`DeliveryTypeCorrect`), so that every theorem on
`Spec` holds with stops and repeated notifications too; and, while requests are apart
(`DeliveryIsApart`), `NoNotificationIsForgotten` for any number of requests,
transactions, payments and stops. `NothingForgotten` speaks of payments and is not
inductive. The invariant follows each transaction made for a single payment
(`Remembered`): its notification is owed or was swallowed, or a request brings it, or
its payment is recorded and, if this transaction was the last recorded, agrees
with it. Besides (`Fresh`), an answer that a request holds is the present status
unless a newer notification is owed: nobody else can take that one before this
request has written, because it would be about the same course. Only this step
needs `Apart`.

`LedgerProofs` proves `Spec => KeepsLedger`: every initial state of `Billing` maps to the
initial state of `Ledger`, and every step to a step or a stutter. Steps of the
gateway and of requests to cancel are `Happen`; `WriteSubscription` is `Open`, or a stutter
when it takes a subscription over; `GeneratePayments` and `CreatePayment` are `Book`,
`RecordPayment` is `Settle`; `MarkSubscription`, `SyncSubscription` and `CancelRow` are `Mark`,
and the invariant supplies the evidence `Ledger` asks for.

`AlertsProofs` proves `RemindersAreBounded` and `NobodyIsLeftOut` for any payments,
administrators and deadlines and any finite number of runs at a time. A count
of reminders is not inductive: as long as a payment is not marked, every reminder
of it was lost or is in the hand of a run about to mark it (`Marking`); from the
first mark on no new run takes it, and those that still have it in their queue
(`Holding`) and those that had it in hand are among the checks of upcoming payments
under way, `peak` at most (`Slots`, `PeakKept`). For
`NobodyIsLeftOut` the invariant follows each payment a check found: in the queue, in
hand, or alerted.

`AttendanceProofs` proves the safety properties of `Courses` for all sets of schools,
sports, offers, facilities, lessons, requests and sheets. The invariant says that
open transactions hold different sessions that nobody can see, that the seed holds
a school once it has begun, and that an offer, like the step of the seed that makes
one, is about a sport that exists.

Only model-checked: the liveness properties. Out of the
provers' reach: liveness, and anything about what a recursive definition computes
(so ECMAScript's count of days is compared by TLC only).

## 5. What the code does not keep

* A repeated notification of a recurring charge completes the next installment
  too (`payments.service.ts:387`): the handler never asks whether the charge is
  already recorded.
* Two simultaneous enrolments both create a subscription (`:81`).
* A cancellation that overtakes the first preapproval notification leaves the
  agreement charging (`:273`).
* The notification of a preapproval that is still pending cancels the
  subscription (`:432`).
* A minor enrolled without `tutorEmail` is linked to any user of the school, who is
  billed for it (`payments.service.ts:175`, `:203`, `:209`): the tutor fields are
  "required if not adult" (`dto/admin-enrollment.dto.ts:26`) in the comment only.
* Installments that start on the 29th to 31st: `setMonth` goes on into the next
  month when the one meant is too short, so a schedule "mensual" (`:64`) started on
  31 January has two installments in March and none in February. `DueMonthly`
  excepts these starts; `SpillIsShort` says how far they go.

Besides these, which the runs show: the exceptions in `RemindersBounded` are real. Two
overlapping runs of the alerts, or one that stopped before the mark and the next,
both send a reminder marked "Solo enviar una vez" (`tasks.service.ts:45`). The
exception in `DoubleBookingExplained` is real: two requests find the same hour of a
facility free and both write their lesson there, though each was told to
"Validar conflicto" (`lessons.service.ts:15`); and a patch of `active` alone brings a
lesson back without looking. And one of the exceptions in `PayerWasNamed` is the form
of `StrangerBilled`; the other is real too. adminEnrollStudent holds the payer's row
and passes on its email; if that email is changed and taken by somebody else
before createSubscription looks it up, the stranger becomes the payer. And when
the plan is withdrawn, or a statement fails, after the student was created, the
form cannot be submitted again: only `create-subscription` completes the enrolment.

Two more that no property is about, because nothing promises otherwise. When the
process stops between the record of a recurring charge and the mark of its
subscription, the repeated notification takes the next PENDING installment; if
there is none the handler returns early and the subscription stays PENDING. And
attendance cannot be stored through its controller: it passes `req.user.id`, which the
JWT strategy does not set, and the column `coachId` is required; through the service,
a sheet submitted again after a lost answer is stored as a second session.

## 6. Plan

Done: every part that keeps state, each with an inductive invariant and its
theorems; the refinement of `Billing` to `Ledger`; liveness of single payments.

Left: liveness of `Delivery` with two requests kept apart (its safety is proved for any
number, but the instance is too large for TLC); the alerts under a daily run, once
something promises one.

Not modelled, and not planned:

* authentication, guards and strategies: stateless; a token is signed and checked,
  a role compared;
* uploads (a school's logo included), filters, interceptors, bootstrap: input,
  output and wiring;
* `sendManualLink`, mail templates and logging: they change no state, and wording is
  no property of the system;
* `test-webhook` and `scripts/simulate-webhook.js`: a door for tests, past the gateway;
* columns nothing decides on (names, contact data, prices, notes, dates of
  attendance), so also the update of a facility and the creation and update of
  plans, and the superadmin the seed creates.

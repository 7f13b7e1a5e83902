----------------------------- MODULE MCBilling -----------------------------
(***************************************************************************)
(* Small instances of Billing for TLC.                                     *)
(***************************************************************************)
EXTENDS BillingLedger, TLC

CONSTANTS student, tutor, monthly

\* createSubscription runs on the 1st of January 2026; a single payment is due
\* before (0) or later that month.
NewYear == [month |-> 12 * 2026, day |-> 1]
MCNewYear == {NewYear}
MCLater == {Stamp([NewYear EXCEPT !.day = 20])}

\* setMonth by its definition in ECMAScript: a date is a number of days, and
\* day d of a month is d - 1 days after its first, whatever the month's length.
FirstOf[month \in 12 * 2023 .. 12 * 2027] ==
    IF month = 12 * 2023 THEN 0 ELSE FirstOf[month - 1] + DaysIn(month - 1)
DayNumber(date) == FirstOf[date.month] + date.day - 1
MakeDay(month, day) == FirstOf[month] + day - 1

ASSUME SetMonthAssumption ==
    \A month \in 12 * 2023 .. 12 * 2024 + 11, n \in 0 .. 12 :
        \A day \in 1 .. DaysIn(month) :
            DayNumber(SetMonth([month |-> month, day |-> day], n)) = MakeDay(month + n, day)

MCOneMonth == [p \in Plans |-> 1]
MCTwoMonths == [p \in Plans |-> 2]

\* The tutor subscribes the student; or the student, an adult, does it alone.
MCTutorOnly == {[payer |-> tutor, student |-> student, plan |-> monthly]}
MCAdult == {[payer |-> student, student |-> student, plan |-> monthly]}
MCTwoPayers == {[payer |-> u, student |-> student, plan |-> monthly] : u \in {student, tutor}}

\* Each of the student and the tutor enrols alone: two courses.
MCEachAlone == {[payer |-> u, student |-> u, plan |-> monthly] : u \in {student, tutor}}

MCChargeMoves ==
    {<<"pending", "approved">>, <<"pending", "rejected">>, <<"approved", "refunded">>}
MCChargeEnds == {<<"pending", "approved">>, <<"pending", "rejected">>}
MCPreAuthorize == {<<"pending", "authorized">>}
MCPreMoves ==
    {<<"pending", "authorized">>, <<"authorized", "cancelled">>}

Symmetric ==
    Permutations(Requests) \cup Permutations(Subscriptions) \cup Permutations(Payments)
    \cup Permutations(Charges) \cup Permutations(Preapprovals)
=============================================================================

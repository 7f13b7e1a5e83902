------------------------------ MODULE Calendar ------------------------------
(***************************************************************************)
(* The dates createSubscription computes (src/src/payments/                *)
(* payments.service.ts): setMonth of a JavaScript Date, which keeps the    *)
(* number of the day and, in a month too short for it, goes on into the    *)
(* next.  The time of day and the zone are left out.                       *)
(***************************************************************************)
EXTENDS Integers

\* A month is counted from January of the year 0.
Year(month) == month \div 12
IsLeap(year) == year % 4 = 0 /\ (year % 100 # 0 \/ year % 400 = 0)

DaysIn(month) ==
    CASE month % 12 = 1 -> IF IsLeap(Year(month)) THEN 29 ELSE 28
      [] month % 12 \in {3, 5, 8, 10} -> 30
      [] OTHER -> 31

Dates == {date \in [month : Nat, day : 1 .. 31] : date.day <= DaysIn(date.month)}

\* dueDate.setMonth(dueDate.getMonth() + n)
SetMonth(date, n) ==
    LET month == date.month + n
    IN IF date.day <= DaysIn(month)
       THEN [month |-> month, day |-> date.day]
       ELSE [month |-> month + 1, day |-> date.day - DaysIn(month)]

\* A number that orders dates as the database orders them, and its month.
Stamp(date) == 32 * date.month + date.day
MonthOf(stamp) == stamp \div 32
=============================================================================

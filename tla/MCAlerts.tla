----------------------------- MODULE MCAlerts -----------------------------
(***************************************************************************)
(* Small instances of Alerts for TLC: days of one tick, the morning run.   *)
(***************************************************************************)
EXTENDS Alerts, TLC

\* Installments due on the day after the first: reminded one day before (tick 0),
\* alerted on the days that follow.
MCDues == {1}

Symmetric == Permutations(Payments) \cup Permutations(Jobs) \cup Permutations(Admins)
=============================================================================

---------------------------- MODULE MCAttendance ----------------------------
(***************************************************************************)
(* A small instance of Attendance for TLC.                                 *)
(***************************************************************************)
EXTENDS Attendance, TLC

CONSTANTS ana, bea

Line(n, student, status) == [line |-> n, student |-> student, status |-> status]

\* A sheet as it should be; one that contradicts itself; and one that says the
\* same twice.
MCSheets ==
    {{Line(1, ana, "PRESENT"), Line(2, bea, "ABSENT")},
     {Line(1, ana, "PRESENT"), Line(2, ana, "ABSENT")},
     {Line(1, ana, "PRESENT"), Line(2, ana, "PRESENT")}}

Symmetric ==
    Permutations(Requests) \cup Permutations(Schools) \cup Permutations(Offers)
    \cup Permutations(Facilities) \cup Permutations(Lessons) \cup Permutations(Sessions)
=============================================================================

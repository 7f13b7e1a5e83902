----------------------------- MODULE MCLessons -----------------------------
(***************************************************************************)
(* A small instance of Lessons for TLC: one facility, two days, and the    *)
(* hours from 10 to 12.                                                    *)
(***************************************************************************)
EXTENDS LessonsInvariant, TLC

CONSTANTS court, monday, tuesday

Lesson(day, start, end, max) ==
    [facility |-> court, day |-> day, start |-> start, end |-> end,
     max |-> max, status |-> "active"]

NoChange == [facility |-> None, day |-> None, start |-> None, end |-> None,
             max |-> None, status |-> None]

MCTimes == {600, 660, 720}
MCNewLessons == {Lesson(monday, 600, 660, 2), Lesson(tuesday, 660, 720, 1)}

\* Another day; an hour longer: the first lesson has room for either beside the
\* second, and not for both.  One place, where two may be taken.  Come back.
MCPatches ==
    {[NoChange EXCEPT !.day = tuesday],
     [NoChange EXCEPT !.end = 720],
     [NoChange EXCEPT !.max = 1],
     [NoChange EXCEPT !.status = "active"]}

\* Students enrol where the first lesson is the only one: what is said of a roll
\* is about one lesson, and what is said of the timetable about no roll.
OneAtStake ==
    (\E l \in Lessons : rush[l] > 0) => Cardinality({l \in Lessons : Exists(l)}) = 1

Symmetric ==
    Permutations(Lessons) \cup Permutations(Enrolments)
    \cup Permutations(Students) \cup Permutations(Requests)
=============================================================================

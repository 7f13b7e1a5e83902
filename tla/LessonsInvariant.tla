-------------------------- MODULE LessonsInvariant --------------------------
(***************************************************************************)
(* The inductive invariant behind the properties of Lessons: what a        *)
(* request between its check and its write may still rely on.              *)
(***************************************************************************)
EXTENDS Lessons

\* Where a request has a row, it is one it has checked or is about to check.
PlaceHolders == {"create", "conflict", "update"}

\* create: as long as there is no news the checked place is free.
CreateFacts(r) ==
    At(r, "create") =>
        /\ request[r].row # None
        /\ changed[r] = {} => Conflicts(request[r].row, None) = {}

\* update: as long as others leave the lesson alone, the patch puts it in the
\* place the request has computed; with no news at all that place is free.
UpdateFacts(r) ==
    LET l == request[r].lesson
        row == request[r].row
    IN /\ At(r, "conflict") \/ At(r, "update") =>
            /\ l # None /\ request[r].patch # None
            /\ Exists(l)
            /\ row # None /\ l \notin changed[r] =>
                 SamePlace(Patched(lessons[l], request[r].patch), row)
       /\ At(r, "conflict") => row # None
       /\ At(r, "update") /\ row # None /\ changed[r] = {} => Conflicts(row, l) = {}

InFlight ==
    \A r \in Requests :
        /\ request[r].row # None => request[r].at \in PlaceHolders
        /\ CreateFacts(r)
        /\ UpdateFacts(r)

SeatFacts ==
    /\ \A l \in Lessons : Exists(l) => lessons[l].max \in capacities[l]
    /\ \A r \in Requests :
         /\ At(r, "enroll") => request[r].lesson # None /\ request[r].student # None
         /\ At(r, "unenroll") => request[r].seat # None

\* A request finds room when fewer are pending than at the height of the rush;
\* from then on a pending request only turns into an enrolment.
SeatsBounded ==
    \A l \in Lessons : Roll(l) # {} \/ Pending(l) # {} =>
        \E m \in capacities[l] :
            \/ m = 0
            \/ Cardinality(Roll(l)) + Cardinality(Pending(l)) < m + rush[l]

IInv ==
    /\ TypeOK
    /\ InFlight
    /\ DoubleBookingExplained
    /\ SeatFacts
    /\ SeatsBounded
=============================================================================

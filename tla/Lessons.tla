------------------------------ MODULE Lessons ------------------------------
(***************************************************************************)
(* LessonsService (src/src/lessons/lessons.service.ts) of one school: the  *)
(* weekly lessons on its facilities and the students enrolled in them.     *)
(* As in BillingData, a request runs alone between two awaits, and each    *)
(* awaited statement is one action.  Nothing is locked between the check   *)
(* of a request and its write, and no transaction covers both.             *)
(***************************************************************************)
EXTENDS Naturals, FiniteSets

CONSTANTS
    Lessons,     \* ids a Lesson row can get
    Enrolments,  \* ids a LessonEnrollment row can get
    Students,
    Requests,    \* slots of requests being served at the same time
    Facilities,
    Days,
    Times,       \* minutes since midnight
    NewLessons,  \* the lessons clients ask to create
    Patches,     \* the changes clients ask for
    None         \* null, or a field that a patch does not give

Status == {"active", "removed"}

LessonRow ==
    [facility : Facilities, day : Days, start : Times, end : Times,
     max : Nat, status : Status]

Patch ==
    [facility : Facilities \cup {None}, day : Days \cup {None},
     start : Times \cup {None}, end : Times \cup {None},
     max : Nat \cup {None}, status : Status \cup {None}]

EnrolmentRow == [lesson : Lessons, student : Students]

ASSUME TimesAssumption == Times \subseteq Nat
\* CreateLessonDto: maxStudents is at least 1.  A PATCH body has no DTO.
ASSUME InputAssumption ==
    /\ NewLessons \subseteq LessonRow
    /\ \A row \in NewLessons : row.max > 0
    /\ Patches \subseteq Patch
ASSUME FiniteAssumption == IsFiniteSet(Requests) /\ IsFiniteSet(Enrolments)
ASSUME NoneAssumption ==
    /\ None \notin LessonRow \cup EnrolmentRow \cup Patch
    /\ None \notin Lessons \cup Students \cup Enrolments
    /\ None \notin Facilities \cup Days \cup Nat \cup Status

VARIABLES
    lessons,     \* table Lesson
    enrolments,  \* table LessonEnrollment
    request,     \* what each request being served carries over its awaits
    changed,     \* history: lessons others have put in a request's way since its check
    suspect,     \* history: lessons placed without a check that still held
    capacities,  \* history: every maxStudents a lesson has had
    rush         \* history: the most requests about to enrol in a lesson at once

vars == <<lessons, enrolments, request, changed, suspect, capacities, rush>>
history == <<changed, suspect, capacities, rush>>

Waits ==
    {"idle",
     "create",              \* create
     "conflict", "update",  \* update
     "enroll",              \* enrollStudent
     "unenroll"}            \* unenrollStudent

RequestState ==
    [at : Waits, lesson : Lessons \cup {None}, row : LessonRow \cup {None},
     patch : Patch \cup {None}, student : Students \cup {None},
     seat : Enrolments \cup {None}]

Idle == [at |-> "idle", lesson |-> None, row |-> None, patch |-> None,
         student |-> None, seat |-> None]

TypeOK ==
    /\ lessons \in [Lessons -> LessonRow \cup {None}]
    /\ enrolments \in [Enrolments -> EnrolmentRow \cup {None}]
    /\ request \in [Requests -> RequestState]
    /\ changed \in [Requests -> SUBSET Lessons]
    /\ suspect \in SUBSET Lessons
    /\ capacities \in [Lessons -> SUBSET Nat]
    /\ rush \in [Lessons -> Nat]

Init ==
    /\ lessons = [l \in Lessons |-> None]
    /\ enrolments = [e \in Enrolments |-> None]
    /\ request = [r \in Requests |-> Idle]
    /\ changed = [r \in Requests |-> {}]
    /\ suspect = {}
    /\ capacities = [l \in Lessons |-> {}]
    /\ rush = [l \in Lessons |-> 0]

At(r, place) == request[r].at = place
Become(r, state) == request' = [request EXCEPT ![r] = state]
GoTo(r, place) == Become(r, [request[r] EXCEPT !.at = place])
Finish(r) == Become(r, Idle)

Exists(l) == lessons[l] # None
IsActive(l) == Exists(l) /\ lessons[l].status = "active"
Roll(l) == {e \in Enrolments : enrolments[e] # None /\ enrolments[e].lesson = l}

\* An id is a UUID: a new row never has one that a request still holds.
Fresh(e) == enrolments[e] = None /\ \A r \in Requests : request[r].seat # e

-----------------------------------------------------------------------------
(***************************************************************************)
(* The place a lesson takes in the week.                                   *)
(***************************************************************************)
SamePlace(a, b) ==
    a.facility = b.facility /\ a.day = b.day /\ a.start = b.start /\ a.end = b.end

\* "(StartMin1 < EndMin2) AND (EndMin1 > StartMin2)"
Overlap(a, b) ==
    /\ a.facility = b.facility
    /\ a.day = b.day
    /\ a.start < b.end
    /\ a.end > b.start

\* Mutant of Conflicts: looks at the lessons of the same start only.
ConflictsAtStart(row, self) ==
    {l \in Lessons \ {self} : IsActive(l) /\ Overlap(row, lessons[l]) /\ lessons[l].start = row.start}

\* The lessons checkScheduleConflict reports; an update does not see itself.
Conflicts(row, self) ==
    {l \in Lessons \ {self} : IsActive(l) /\ Overlap(row, lessons[l])}

\* Mutant of Given: a field that the patch does not give becomes null.
GivenOrNull(new, old) == new

Given(new, old) == IF new = None THEN old ELSE new

Patched(row, p) ==
    [facility |-> Given(p.facility, row.facility), day |-> Given(p.day, row.day),
     start |-> Given(p.start, row.start), end |-> Given(p.end, row.end),
     max |-> Given(p.max, row.max), status |-> Given(p.status, row.status)]

\* if (facilityId || dayOfWeek || startTime || endTime)
Reschedules(p) ==
    p.facility # None \/ p.day # None \/ p.start # None \/ p.end # None

(***************************************************************************)
(* A row is written.  History: a lesson that takes a new place, or comes   *)
(* back, is news to a request that is about that lesson or has checked a   *)
(* place it overlaps.  It is suspect unless its own request has checked    *)
(* the place and has no news since.                                        *)
(***************************************************************************)
Places(l, row) ==
    \/ ~Exists(l)
    \/ ~SamePlace(lessons[l], row)
    \/ ~IsActive(l) /\ row.status = "active"

IsNews(q, l, row) ==
    /\ request[q].row # None
    /\ \/ request[q].lesson = l
       \/ row.status = "active" /\ Overlap(request[q].row, row)

HasChecked(r) == request[r].row # None /\ changed[r] = {}

Write(r, l, row) ==
    /\ lessons' = [lessons EXCEPT ![l] = row]
    /\ capacities' = [capacities EXCEPT ![l] = @ \cup {row.max}]
    /\ IF Places(l, row)
       THEN /\ changed' = [q \in Requests |->
                             CASE q = r -> {}
                               [] q # r /\ IsNews(q, l, row) -> changed[q] \cup {l}
                               [] OTHER -> changed[q]]
            /\ suspect' = IF HasChecked(r) THEN suspect \ {l} ELSE suspect \cup {l}
       ELSE changed' = [changed EXCEPT ![r] = {}] /\ UNCHANGED suspect
    /\ Finish(r)
    /\ UNCHANGED <<enrolments, rush>>

(***************************************************************************)
(* create                                                                  *)
(***************************************************************************)
AskCreate(r) ==
    /\ At(r, "idle")
    /\ \E row \in NewLessons :
         /\ Conflicts(row, None) = {}
         /\ Become(r, [Idle EXCEPT !.at = "create", !.row = row])
    /\ UNCHANGED <<lessons, enrolments, history>>

CreateLesson(r) ==
    /\ At(r, "create")
    /\ \E l \in Lessons : ~Exists(l) /\ Write(r, l, request[r].row)

(***************************************************************************)
(* update: findOne, findMany of the conflicts, update.  A patch that names *)
(* no place is written without a check.                                    *)
(***************************************************************************)
AskUpdate(r) ==
    /\ At(r, "idle")
    /\ \E l \in Lessons, p \in Patches :
         /\ Exists(l)
         /\ \/ /\ Reschedules(p)
               /\ Become(r, [Idle EXCEPT !.at = "conflict", !.lesson = l, !.patch = p,
                                         !.row = Patched(lessons[l], p)])
            \/ /\ ~Reschedules(p)
               /\ Become(r, [Idle EXCEPT !.at = "update", !.lesson = l, !.patch = p])
    /\ UNCHANGED <<lessons, enrolments, history>>

\* What the others have done to the lesson itself since findOne stays unseen.
CheckConflict(r) ==
    /\ At(r, "conflict")
    /\ IF Conflicts(request[r].row, request[r].lesson) = {}
       THEN /\ GoTo(r, "update")
            /\ changed' = [changed EXCEPT ![r] = @ \cap {request[r].lesson}]
       ELSE /\ Finish(r)
            /\ changed' = [changed EXCEPT ![r] = {}]
    /\ UNCHANGED <<lessons, enrolments, suspect, capacities, rush>>

UpdateLesson(r) ==
    LET l == request[r].lesson
    IN At(r, "update") /\ Write(r, l, Patched(lessons[l], request[r].patch))

\* remove: the lesson is only hidden, and its enrolments stay.
RemoveLesson(r) ==
    /\ At(r, "idle")
    /\ \E l \in Lessons :
         /\ Exists(l)
         /\ lessons' = [lessons EXCEPT ![l].status = "removed"]
    /\ UNCHANGED <<enrolments, request, history>>

(***************************************************************************)
(* enrollStudent: findFirst with the count, then create; a student already *)
(* enrolled is refused by the unique key.                                  *)
(***************************************************************************)
\* Mutant of HasRoom: off by one.
HasRoomForOneMore(l) ==
    lessons[l].max = 0 \/ Cardinality(Roll(l)) <= lessons[l].max

\* maxStudents 0 means no limit; a lesson that was removed takes students too.
HasRoom(l) == lessons[l].max = 0 \/ Cardinality(Roll(l)) < lessons[l].max

\* The requests that have found room in lesson l and will enrol a student.
Pending(l) == {r \in Requests : At(r, "enroll") /\ request[r].lesson = l}

AskEnroll(r) ==
    /\ At(r, "idle")
    /\ \E l \in Lessons, s \in Students :
         /\ Exists(l)
         /\ HasRoom(l)
         /\ Become(r, [Idle EXCEPT !.at = "enroll", !.lesson = l, !.student = s])
         /\ rush' = [rush EXCEPT ![l] = IF Cardinality(Pending(l)) < @ THEN @
                                        ELSE Cardinality(Pending(l)) + 1]
    /\ UNCHANGED <<lessons, enrolments, changed, suspect, capacities>>

EnrollStudent(r) ==
    LET row == [lesson |-> request[r].lesson, student |-> request[r].student]
    IN /\ At(r, "enroll")
       /\ \/ /\ \E e \in Enrolments : enrolments[e] = row
             /\ UNCHANGED enrolments
          \/ /\ \A e \in Enrolments : enrolments[e] # row
             /\ \E e \in Enrolments :
                  Fresh(e) /\ enrolments' = [enrolments EXCEPT ![e] = row]
       /\ Finish(r)
       /\ UNCHANGED <<lessons, history>>

\* unenrollStudent: findFirst, then delete by id; a row deleted meanwhile is an error.
AskUnenroll(r) ==
    /\ At(r, "idle")
    /\ \E e \in Enrolments :
         enrolments[e] # None /\ Become(r, [Idle EXCEPT !.at = "unenroll", !.seat = e])
    /\ UNCHANGED <<lessons, enrolments, history>>

UnenrollStudent(r) ==
    /\ At(r, "unenroll")
    /\ enrolments' = [enrolments EXCEPT ![request[r].seat] = None]
    /\ Finish(r)
    /\ UNCHANGED <<lessons, history>>

\* The process stops or a statement fails: what was written stays.
Abort(r) ==
    /\ ~At(r, "idle")
    /\ Finish(r)
    /\ changed' = [changed EXCEPT ![r] = {}]
    /\ UNCHANGED <<lessons, enrolments, suspect, capacities, rush>>

Next ==
    \E r \in Requests :
        \/ AskCreate(r)
        \/ CreateLesson(r)
        \/ AskUpdate(r)
        \/ CheckConflict(r)
        \/ UpdateLesson(r)
        \/ RemoveLesson(r)
        \/ AskEnroll(r)
        \/ EnrollStudent(r)
        \/ AskUnenroll(r)
        \/ UnenrollStudent(r)
        \/ Abort(r)

Spec == Init /\ [][Next]_vars

-----------------------------------------------------------------------------
(***************************************************************************)
(* Properties                                                              *)
(***************************************************************************)
\* "Validar conflicto si hay cancha y horario definido", and what that is worth:
\* two active lessons share a facility at the same time only if one of them was
\* last placed by a request in whose way another had put a lesson since its
\* check, or had moved its own, or through a patch that is not checked.  Requests
\* about other hours, days and facilities do not matter, however they interleave.
DoubleBookingExplained ==
    \A a, b \in Lessons \ suspect :
        a # b /\ IsActive(a) /\ IsActive(b) => ~Overlap(lessons[a], lessons[b])

\* A lesson is overbooked by less than the number of requests that have been
\* about to enrol in it at once, however enrolments, withdrawals and changes of
\* the limit interleave: where requests for a lesson come one after another it
\* never has more students than the largest number of places it has had.
OverbookingBounded ==
    \A l \in Lessons : Roll(l) # {} =>
        \E m \in capacities[l] : m = 0 \/ Cardinality(Roll(l)) < m + rush[l]
=============================================================================

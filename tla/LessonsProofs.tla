--------------------------- MODULE LessonsProofs ---------------------------
(***************************************************************************)
(* The properties of Lessons for any number of lessons, enrolments,        *)
(* students and requests, and any lessons and patches clients ask for.     *)
(***************************************************************************)
EXTENDS LessonsInvariant, FiniteSetTheorems, TLAPS

-----------------------------------------------------------------------------
(***************************************************************************)
(* Types                                                                   *)
(***************************************************************************)
\* What a patch makes of a row is a row.
LEMMA PatchedType ==
    ASSUME NEW row \in LessonRow, NEW p \in Patch
    PROVE  Patched(row, p) \in LessonRow
BY NoneAssumption DEF Patched, Given, Patch, LessonRow

\* A write of a row keeps the types.
LEMMA WriteType ==
    ASSUME TypeOK, NEW r \in Requests, NEW l \in Lessons, NEW row \in LessonRow,
           Write(r, l, row)
    PROVE  TypeOK'
<1>1. lessons' \in [Lessons -> LessonRow \cup {None}]
    BY DEF TypeOK, Write
<1>2. capacities' \in [Lessons -> SUBSET Nat]
    BY DEF TypeOK, Write, LessonRow
<1>3. changed' \in [Requests -> SUBSET Lessons]
    BY DEF TypeOK, Write
<1>4. suspect' \in SUBSET Lessons
    BY DEF TypeOK, Write
<1>5. request' \in [Requests -> RequestState]
    BY DEF TypeOK, Write, Finish, Become, Idle, RequestState, Waits
<1> QED
    BY <1>1, <1>2, <1>3, <1>4, <1>5 DEF TypeOK, Write

\* The rolls and the pending requests can be counted.
LEMMA Countable ==
    ASSUME NEW l
    PROVE  /\ IsFiniteSet(Roll(l)) /\ Cardinality(Roll(l)) \in Nat
           /\ IsFiniteSet(Pending(l)) /\ Cardinality(Pending(l)) \in Nat
<1>1. Roll(l) \subseteq Enrolments /\ Pending(l) \subseteq Requests
    BY DEF Roll, Pending
<1> QED
    BY <1>1, FiniteAssumption, FS_Subset, FS_CardinalityType

\* The rush for a lesson only grows.
LEMMA RushKept ==
    ASSUME TypeOK, [Next]_vars
    PROVE  rush' \in [Lessons -> Nat] /\ \A l \in Lessons : rush[l] <= rush'[l]
<1>1. CASE UNCHANGED rush
    BY <1>1 DEF TypeOK
<1>2. ASSUME NEW r \in Requests, AskEnroll(r)
      PROVE  rush' \in [Lessons -> Nat] /\ \A l \in Lessons : rush[l] <= rush'[l]
    <2>1. PICK l \in Lessons :
             rush' = [rush EXCEPT ![l] = IF Cardinality(Pending(l)) < @ THEN @
                                         ELSE Cardinality(Pending(l)) + 1]
        BY <1>2 DEF AskEnroll
    <2>2. rush \in [Lessons -> Nat] /\ Cardinality(Pending(l)) \in Nat
        BY Countable DEF TypeOK
    <2>3. rush'[l] \in Nat /\ rush[l] <= rush'[l] /\ \A k \in Lessons : k # l => rush'[k] = rush[k]
        BY <2>1, <2>2
    <2> QED
        BY <2>1, <2>2, <2>3
<1> QED
    BY <1>1, <1>2
    DEF Next, vars, history, AskCreate, CreateLesson, AskUpdate, CheckConflict, UpdateLesson, RemoveLesson,
        EnrollStudent, AskUnenroll, UnenrollStudent, Abort, Write

LEMMA InitType == Init => TypeOK
BY DEF Init, TypeOK, RequestState, Waits, Idle

LEMMA TypeKept ==
    ASSUME TypeOK, InFlight, SeatFacts, [Next]_vars
    PROVE  TypeOK'
<1>1. CASE UNCHANGED vars
    BY <1>1 DEF TypeOK, vars
<1>2. ASSUME NEW r \in Requests, AskCreate(r)
      PROVE  TypeOK'
    <2>1. PICK row \in NewLessons : Become(r, [Idle EXCEPT !.at = "create", !.row = row])
        BY <1>2 DEF AskCreate
    <2>2. row \in LessonRow
        BY InputAssumption
    <2>3. request' \in [Requests -> RequestState]
        BY <2>1, <2>2 DEF TypeOK, Become, Idle, RequestState, Waits
    <2> QED
        BY <1>2, <2>3 DEF TypeOK, AskCreate, history
<1>3. ASSUME NEW r \in Requests, CreateLesson(r)
      PROVE  TypeOK'
    <2>1. request[r].row \in LessonRow
        BY <1>3 DEF CreateLesson, InFlight, CreateFacts, TypeOK, RequestState
    <2> QED
        BY <1>3, <2>1, WriteType DEF CreateLesson
<1>4. ASSUME NEW r \in Requests, AskUpdate(r)
      PROVE  TypeOK'
    <2>1. PICK l \in Lessons, p \in Patches :
            /\ Exists(l)
            /\ \/ Become(r, [Idle EXCEPT !.at = "conflict", !.lesson = l, !.patch = p,
                                         !.row = Patched(lessons[l], p)])
               \/ Become(r, [Idle EXCEPT !.at = "update", !.lesson = l, !.patch = p])
        BY <1>4 DEF AskUpdate
    <2>2. p \in Patch /\ Patched(lessons[l], p) \in LessonRow
        BY <2>1, InputAssumption, PatchedType DEF Exists, TypeOK
    <2>3. PICK state \in RequestState : Become(r, state)
        <3>1. [Idle EXCEPT !.at = "conflict", !.lesson = l, !.patch = p,
                           !.row = Patched(lessons[l], p)] \in RequestState
            BY <2>2 DEF Idle, RequestState, Waits
        <3>2. [Idle EXCEPT !.at = "update", !.lesson = l, !.patch = p] \in RequestState
            BY <2>2 DEF Idle, RequestState, Waits
        <3> QED
            BY <2>1, <3>1, <3>2
    <2> QED
        BY <1>4, <2>3 DEF TypeOK, AskUpdate, Become, history
<1>5. ASSUME NEW r \in Requests, CheckConflict(r)
      PROVE  TypeOK'
    <2>1. request' \in [Requests -> RequestState]
        BY <1>5 DEF CheckConflict, TypeOK, GoTo, Finish, Become, Idle, RequestState, Waits
    <2>2. changed' \in [Requests -> SUBSET Lessons]
        BY <1>5 DEF CheckConflict, TypeOK
    <2> QED
        BY <1>5, <2>1, <2>2 DEF TypeOK, CheckConflict
<1>6. ASSUME NEW r \in Requests, UpdateLesson(r)
      PROVE  TypeOK'
    <2> DEFINE l == request[r].lesson
    <2>1. l \in Lessons /\ Exists(l) /\ request[r].patch \in Patch
        BY <1>6 DEF UpdateLesson, InFlight, UpdateFacts, TypeOK, RequestState
    <2>2. Patched(lessons[l], request[r].patch) \in LessonRow
        BY <2>1, PatchedType DEF Exists, TypeOK
    <2> QED
        BY <1>6, <2>1, <2>2, WriteType DEF UpdateLesson
<1>7. ASSUME NEW r \in Requests, RemoveLesson(r)
      PROVE  TypeOK'
    <2>1. lessons' \in [Lessons -> LessonRow \cup {None}]
        BY <1>7 DEF RemoveLesson, TypeOK, Exists, LessonRow, Status
    <2> QED
        BY <1>7, <2>1 DEF TypeOK, RemoveLesson, history
<1>8. ASSUME NEW r \in Requests, AskEnroll(r)
      PROVE  TypeOK'
    <2>1. PICK l \in Lessons, s \in Students :
            Become(r, [Idle EXCEPT !.at = "enroll", !.lesson = l, !.student = s])
        BY <1>8 DEF AskEnroll
    <2>2. request' \in [Requests -> RequestState]
        BY <2>1 DEF TypeOK, Become, Idle, RequestState, Waits
    <2>3. rush' \in [Lessons -> Nat]
        BY <1>8, RushKept DEF Next
    <2> QED
        BY <1>8, <2>2, <2>3 DEF TypeOK, AskEnroll
<1>9. ASSUME NEW r \in Requests, EnrollStudent(r)
      PROVE  TypeOK'
    <2>1. request' \in [Requests -> RequestState]
        BY <1>9 DEF EnrollStudent, TypeOK, Finish, Become, Idle, RequestState, Waits
    <2>2. request[r].lesson \in Lessons /\ request[r].student \in Students
        BY <1>9 DEF EnrollStudent, SeatFacts, TypeOK, RequestState
    <2>3. enrolments' \in [Enrolments -> EnrolmentRow \cup {None}]
        BY <1>9, <2>2 DEF EnrollStudent, TypeOK, EnrolmentRow
    <2> QED
        BY <1>9, <2>1, <2>3 DEF TypeOK, EnrollStudent, history
<1>10. ASSUME NEW r \in Requests, AskUnenroll(r)
       PROVE  TypeOK'
    <2>1. PICK e \in Enrolments : Become(r, [Idle EXCEPT !.at = "unenroll", !.seat = e])
        BY <1>10 DEF AskUnenroll
    <2>2. request' \in [Requests -> RequestState]
        BY <2>1 DEF TypeOK, Become, Idle, RequestState, Waits
    <2> QED
        BY <1>10, <2>2 DEF TypeOK, AskUnenroll, history
<1>11. ASSUME NEW r \in Requests, UnenrollStudent(r)
       PROVE  TypeOK'
    <2>1. request' \in [Requests -> RequestState]
        BY <1>11 DEF UnenrollStudent, TypeOK, Finish, Become, Idle, RequestState, Waits
    <2>2. enrolments' \in [Enrolments -> EnrolmentRow \cup {None}]
        BY <1>11 DEF UnenrollStudent, TypeOK
    <2> QED
        BY <1>11, <2>1, <2>2 DEF TypeOK, UnenrollStudent, history
<1>12. ASSUME NEW r \in Requests, Abort(r)
       PROVE  TypeOK'
    <2>1. request' \in [Requests -> RequestState]
        BY <1>12 DEF Abort, TypeOK, Finish, Become, Idle, RequestState, Waits
    <2>2. changed' \in [Requests -> SUBSET Lessons]
        BY <1>12 DEF Abort, TypeOK
    <2> QED
        BY <1>12, <2>1, <2>2 DEF TypeOK, Abort
<1> QED
    BY <1>1, <1>2, <1>3, <1>4, <1>5, <1>6, <1>7, <1>8, <1>9, <1>10, <1>11, <1>12 DEF Next

-----------------------------------------------------------------------------
(***************************************************************************)
(* Places                                                                  *)
(***************************************************************************)
\* The step gives no lesson a new place and brings none back.
Steady ==
    \A l \in Lessons :
        \/ ~Exists(l) /\ ~Exists(l)'
        \/ /\ Exists(l) /\ Exists(l)'
           /\ SamePlace(lessons[l], lessons'[l])
           /\ IsActive(l)' => IsActive(l)

\* A patch leads from the same place to the same place.
LEMMA PatchedPlace ==
    ASSUME NEW a \in LessonRow, NEW b \in LessonRow, NEW p \in Patch, SamePlace(a, b)
    PROVE  SamePlace(Patched(a, p), Patched(b, p))
BY DEF SamePlace, Patched, Given

\* A steady step makes no new conflict.
LEMMA SteadyConflicts ==
    ASSUME TypeOK, TypeOK', Steady, NEW row \in LessonRow, NEW self \in Lessons \cup {None},
           Conflicts(row, self) = {}
    PROVE  \A l \in Lessons \ {self} : IsActive(l)' => ~Overlap(row, lessons'[l])
BY DEF Steady, Conflicts, Overlap, SamePlace, IsActive, Exists

\* A request that does not move, and has no news, keeps its facts over a steady step.
LEMMA SteadyFacts ==
    ASSUME TypeOK, TypeOK', Steady, InFlight, NEW q \in Requests,
           request'[q] = request[q], changed[q] \subseteq changed'[q]
    PROVE  /\ request'[q].row # None => request'[q].at \in PlaceHolders
           /\ CreateFacts(q)'
           /\ UpdateFacts(q)'
<1>1. request'[q].row # None => request'[q].at \in PlaceHolders
    BY DEF InFlight
<1>2. CreateFacts(q)'
    <2> SUFFICES ASSUME At(q, "create")'
                 PROVE  /\ request'[q].row # None
                        /\ changed'[q] = {} => Conflicts(request[q].row, None)' = {}
        BY DEF CreateFacts
    <2>1. At(q, "create") /\ request[q].row # None /\ request[q].row \in LessonRow
        BY DEF At, InFlight, CreateFacts, TypeOK, RequestState
    <2>2. ASSUME changed'[q] = {}
          PROVE  Conflicts(request[q].row, None)' = {}
        <3>1. Conflicts(request[q].row, None) = {}
            BY <2>1, <2>2 DEF InFlight, CreateFacts
        <3> QED
            BY <2>1, <3>1, SteadyConflicts DEF Conflicts
    <2> QED
        BY <2>1, <2>2
<1>3. UpdateFacts(q)'
    <2> DEFINE l == request[q].lesson
               row == request[q].row
               p == request[q].patch
    <2> SUFFICES ASSUME At(q, "conflict")' \/ At(q, "update")'
                 PROVE  /\ l # None /\ p # None
                        /\ Exists(l)'
                        /\ row # None /\ l \notin changed'[q] => SamePlace(Patched(lessons'[l], p), row)
                        /\ At(q, "conflict") => row # None
                        /\ At(q, "update") /\ row # None /\ changed'[q] = {} =>
                             \A k \in Lessons \ {l} : IsActive(k)' => ~Overlap(row, lessons'[k])
        BY DEF UpdateFacts, At, Exists, Conflicts
    <2>1. At(q, "conflict") \/ At(q, "update")
        BY DEF At
    <2>2. l # None /\ p # None /\ Exists(l)
        BY <2>1 DEF InFlight, UpdateFacts
    <2>3. l \in Lessons /\ p \in Patch /\ (row # None => row \in LessonRow)
        BY <2>2 DEF TypeOK, RequestState
    <2>4. Exists(l)' /\ SamePlace(lessons[l], lessons'[l])
        BY <2>2, <2>3 DEF Steady
    <2>5. lessons[l] \in LessonRow /\ lessons'[l] \in LessonRow
        BY <2>2, <2>3, <2>4 DEF TypeOK, Exists
    <2>6. ASSUME row # None, l \notin changed'[q]
          PROVE  SamePlace(Patched(lessons'[l], p), row)
        <3>1. SamePlace(Patched(lessons[l], p), row)
            BY <2>1, <2>6 DEF InFlight, UpdateFacts
        <3>2. SamePlace(Patched(lessons[l], p), Patched(lessons'[l], p))
            BY <2>3, <2>4, <2>5, PatchedPlace
        <3> QED
            BY <3>1, <3>2 DEF SamePlace
    <2>7. At(q, "conflict") => row # None
        BY DEF InFlight, UpdateFacts
    <2>8. ASSUME At(q, "update"), row # None, changed'[q] = {}
          PROVE  \A k \in Lessons \ {l} : IsActive(k)' => ~Overlap(row, lessons'[k])
        <3>1. Conflicts(row, l) = {}
            BY <2>8 DEF InFlight, UpdateFacts
        <3> QED
            BY <2>3, <2>8, <3>1, SteadyConflicts
    <2> QED
        BY <2>2, <2>4, <2>6, <2>7, <2>8
<1> QED
    BY <1>1, <1>2, <1>3

\* A steady step makes no double booking.
LEMMA SteadyBooking ==
    ASSUME TypeOK, TypeOK', Steady, DoubleBookingExplained, suspect \subseteq suspect'
    PROVE  DoubleBookingExplained'
<1> SUFFICES ASSUME NEW a \in Lessons \ suspect', NEW b \in Lessons \ suspect', a # b,
                    IsActive(a)', IsActive(b)'
             PROVE  ~Overlap(lessons'[a], lessons'[b])
    BY DEF DoubleBookingExplained
<1>1. IsActive(a) /\ IsActive(b) /\ SamePlace(lessons[a], lessons'[a]) /\ SamePlace(lessons[b], lessons'[b])
    BY DEF Steady, IsActive
<1>2. ~Overlap(lessons[a], lessons[b])
    BY <1>1 DEF DoubleBookingExplained
<1> QED
    BY <1>1, <1>2 DEF Overlap, SamePlace

\* A write that gives a lesson a new place: it is news to whom it is in the way of,
\* and leaves what the others have checked.
LEMMA PlacingFacts ==
    ASSUME TypeOK, TypeOK', InFlight, NEW r \in Requests, NEW l \in Lessons,
           NEW row \in LessonRow, Write(r, l, row), Places(l, row), NEW q \in Requests
    PROVE  /\ request'[q].row # None => request'[q].at \in PlaceHolders
           /\ CreateFacts(q)'
           /\ UpdateFacts(q)'
<1>1. CASE q = r
    <2>1. request'[q] = Idle
        BY <1>1 DEF Write, Finish, Become, TypeOK
    <2> QED
        BY <2>1 DEF Idle, CreateFacts, UpdateFacts, At
<1>2. CASE q # r
    <2>1. request'[q] = request[q]
        BY <1>2 DEF Write, Finish, Become, TypeOK
    <2>2. changed'[q] = IF IsNews(q, l, row) THEN changed[q] \cup {l} ELSE changed[q]
        BY <1>2 DEF Write, TypeOK
    <2>3. lessons'[l] = row /\ \A k \in Lessons : k # l => lessons'[k] = lessons[k]
        BY DEF Write, TypeOK
    <2>4. \A k \in Lessons : Exists(k) => Exists(k)'
        BY NoneAssumption DEF Write, TypeOK, Exists
    <2>5. request'[q].row # None => request'[q].at \in PlaceHolders
        BY <2>1 DEF InFlight
    <2>a. ASSUME NEW self, request[q].row # None, changed'[q] = {}, Conflicts(request[q].row, self) = {},
                 NEW k \in Lessons \ {self}, IsActive(k)'
          PROVE  ~Overlap(request[q].row, lessons'[k])
        <3>1. ~(row.status = "active" /\ Overlap(request[q].row, row))
            BY <2>2, <2>a DEF IsNews
        <3>2. CASE k = l
            BY <2>3, <2>a, <3>1, <3>2 DEF IsActive
        <3>3. CASE k # l
            <4>1. IsActive(k) /\ lessons'[k] = lessons[k]
                BY <2>3, <2>a, <3>3 DEF IsActive, Exists
            <4> QED
                BY <2>a, <4>1 DEF Conflicts
        <3> QED
            BY <3>2, <3>3
    <2>6. CreateFacts(q)'
        <3> SUFFICES ASSUME At(q, "create")'
                     PROVE  /\ request[q].row # None
                            /\ changed'[q] = {} =>
                                 \A k \in Lessons \ {None} :
                                    IsActive(k)' => ~Overlap(request[q].row, lessons'[k])
            BY <2>1 DEF CreateFacts, Conflicts
        <3>1. /\ request[q].row # None
              /\ changed[q] = {} => Conflicts(request[q].row, None) = {}
            BY <2>1 DEF CreateFacts, InFlight, At
        <3> QED
            BY <2>2, <2>a, <3>1
    <2>7. UpdateFacts(q)'
        <3> DEFINE k == request[q].lesson
        <3>1. ASSUME At(q, "conflict")' \/ At(q, "update")'
              PROVE  /\ k # None /\ request[q].patch # None
                     /\ Exists(k)'
                     /\ request[q].row # None /\ k \notin changed'[q] =>
                          SamePlace(Patched(lessons'[k], request[q].patch), request[q].row)
            <4>1. At(q, "conflict") \/ At(q, "update")
                BY <2>1, <3>1 DEF At
            <4>2. k \in Lessons /\ k # None /\ request[q].patch # None /\ Exists(k)
                BY <4>1 DEF InFlight, UpdateFacts, TypeOK, RequestState
            <4>3. ASSUME request[q].row # None, k \notin changed'[q]
                  PROVE  SamePlace(Patched(lessons'[k], request[q].patch), request[q].row)
                <5>1. k # l /\ k \notin changed[q]
                    BY <2>2, <4>3 DEF IsNews
                <5>2. SamePlace(Patched(lessons[k], request[q].patch), request[q].row)
                    BY <4>1, <4>3, <5>1 DEF InFlight, UpdateFacts
                <5> QED
                    BY <2>3, <4>2, <5>1, <5>2
            <4> QED
                BY <2>1, <2>4, <4>2, <4>3 DEF Exists
        <3>2. At(q, "conflict")' => request[q].row # None
            BY <2>1 DEF InFlight, UpdateFacts, At
        <3>3. ASSUME At(q, "update"), request[q].row # None, changed'[q] = {}
              PROVE  \A i \in Lessons \ {k} : IsActive(i)' => ~Overlap(request[q].row, lessons'[i])
            <4>1. Conflicts(request[q].row, k) = {}
                BY <2>2, <3>3 DEF InFlight, UpdateFacts
            <4> QED
                BY <2>a, <3>3, <4>1
        <3> QED
            BY <2>1, <3>1, <3>2, <3>3 DEF UpdateFacts, At, Exists, Conflicts
    <2> QED
        BY <2>5, <2>6, <2>7
<1> QED
    BY <1>1, <1>2

\* A write keeps the facts and the bookings, if its request checked the place
\* whenever it thinks it did.
LEMMA WritePlaces ==
    ASSUME TypeOK, TypeOK', InFlight, DoubleBookingExplained,
           NEW r \in Requests, NEW l \in Lessons, NEW row \in LessonRow, Write(r, l, row),
           HasChecked(r) => Conflicts(row, l) = {}
    PROVE  InFlight' /\ DoubleBookingExplained'
<1>1. CASE Places(l, row)
    <2>1. InFlight'
        BY <1>1, PlacingFacts DEF InFlight
    <2>2. ASSUME NEW a \in Lessons, NEW b \in Lessons, a # b,
                 a \notin suspect', b \notin suspect', IsActive(a)', IsActive(b)'
          PROVE  ~Overlap(lessons'[a], lessons'[b])
        <3>1. suspect \ {l} \subseteq suspect' /\ (~HasChecked(r) => l \in suspect')
            BY <1>1 DEF Write
        <3>2. lessons'[l] = row /\ \A k \in Lessons : k # l => lessons'[k] = lessons[k]
            BY DEF Write, TypeOK
        <3>3. CASE a # l /\ b # l
            BY <2>2, <3>1, <3>2, <3>3 DEF DoubleBookingExplained, IsActive, Exists
        <3>4. ASSUME NEW k \in Lessons, k # l, l \notin suspect', IsActive(k)'
              PROVE  ~Overlap(row, lessons[k])
            <4>1. Conflicts(row, l) = {}
                BY <3>1, <3>4
            <4>2. IsActive(k)
                BY <3>2, <3>4 DEF IsActive, Exists
            <4> QED
                BY <3>4, <4>1, <4>2 DEF Conflicts
        <3>5. CASE a = l
            <4>1. ~Overlap(row, lessons[b])
                BY <2>2, <3>4, <3>5
            <4> QED
                BY <2>2, <3>2, <3>5, <4>1
        <3>6. CASE b = l
            <4>1. ~Overlap(row, lessons[a])
                BY <2>2, <3>4, <3>6
            <4> QED
                BY <2>2, <3>2, <3>6, <4>1 DEF Overlap
        <3> QED
            BY <3>3, <3>5, <3>6
    <2> QED
        BY <2>1, <2>2 DEF DoubleBookingExplained
<1>2. CASE ~Places(l, row)
    <2>1. Steady
        <3> SUFFICES ASSUME NEW k \in Lessons
                     PROVE  \/ ~Exists(k) /\ ~Exists(k)'
                            \/ /\ Exists(k) /\ Exists(k)'
                               /\ SamePlace(lessons[k], lessons'[k])
                               /\ IsActive(k)' => IsActive(k)
            BY DEF Steady
        <3>1. CASE k = l
            <4>1. lessons'[k] = row /\ row # None
                BY <3>1, NoneAssumption DEF Write, TypeOK
            <4> QED
                BY <1>2, <3>1, <4>1 DEF Places, Exists, IsActive
        <3>2. CASE k # l
            <4>1. lessons'[k] = lessons[k]
                BY <3>2 DEF Write, TypeOK
            <4> QED
                BY <4>1 DEF Exists, IsActive, SamePlace
        <3> QED
            BY <3>1, <3>2
    <2>2. DoubleBookingExplained'
        BY <1>2, <2>1, SteadyBooking DEF Write
    <2>3. ASSUME NEW q \in Requests
          PROVE  /\ request'[q].row # None => request'[q].at \in PlaceHolders
                 /\ CreateFacts(q)'
                 /\ UpdateFacts(q)'
        <3>1. CASE q = r
            <4>1. request'[q] = Idle
                BY <3>1 DEF Write, Finish, Become, TypeOK
            <4> QED
                BY <4>1 DEF Idle, CreateFacts, UpdateFacts, At
        <3>2. CASE q # r
            <4>1. request'[q] = request[q] /\ changed'[q] = changed[q]
                BY <1>2, <3>2 DEF Write, Finish, Become, TypeOK
            <4> QED
                BY <2>1, <4>1, SteadyFacts
        <3> QED
            BY <3>1, <3>2
    <2> QED
        BY <2>2, <2>3 DEF InFlight
<1> QED
    BY <1>1, <1>2

\* A step that moves no lesson and one request at most, to a place without a row.
LEMMA QuietFacts ==
    ASSUME TypeOK, TypeOK', Steady, InFlight, DoubleBookingExplained, NEW r \in Requests,
           UNCHANGED suspect,
           \A q \in Requests \ {r} : request'[q] = request[q] /\ changed'[q] = changed[q],
           request'[r].row = None /\ request'[r].at \notin PlaceHolders
    PROVE  InFlight' /\ DoubleBookingExplained'
<1>1. DoubleBookingExplained'
    BY SteadyBooking
<1>2. ASSUME NEW q \in Requests
      PROVE  /\ request'[q].row # None => request'[q].at \in PlaceHolders
             /\ CreateFacts(q)'
             /\ UpdateFacts(q)'
    <2>1. CASE q = r
        BY <2>1 DEF CreateFacts, UpdateFacts, At, PlaceHolders
    <2>2. CASE q # r
        BY <2>2, SteadyFacts
    <2> QED
        BY <2>1, <2>2
<1> QED
    BY <1>1, <1>2 DEF InFlight

LEMMA UnchangedSteady ==
    ASSUME UNCHANGED lessons
    PROVE  Steady
BY DEF Steady, Exists, IsActive, SamePlace

\* A request that stays out of the way of the others: they keep their facts.
LEMMA OthersKept ==
    ASSUME TypeOK, TypeOK', UNCHANGED lessons, InFlight, NEW r \in Requests,
           \A q \in Requests \ {r} : request'[q] = request[q] /\ changed'[q] = changed[q]
    PROVE  \A q \in Requests \ {r} :
                /\ request'[q].row # None => request'[q].at \in PlaceHolders
                /\ CreateFacts(q)'
                /\ UpdateFacts(q)'
BY UnchangedSteady, SteadyFacts

LEMMA PlacesKept ==
    ASSUME TypeOK, TypeOK', InFlight, DoubleBookingExplained, SeatFacts, [Next]_vars
    PROVE  InFlight' /\ DoubleBookingExplained'
<1>1. CASE UNCHANGED vars
    <2>1. Steady /\ suspect' = suspect
        BY <1>1, UnchangedSteady DEF vars
    <2>2. \A q \in Requests : request'[q] = request[q] /\ changed'[q] = changed[q]
        BY <1>1 DEF vars
    <2> QED
        BY <2>1, <2>2, SteadyFacts, SteadyBooking DEF InFlight
<1>2. ASSUME NEW r \in Requests, AskCreate(r)
      PROVE  InFlight' /\ DoubleBookingExplained'
    <2>1. PICK row \in NewLessons :
            /\ Conflicts(row, None) = {}
            /\ Become(r, [Idle EXCEPT !.at = "create", !.row = row])
        BY <1>2 DEF AskCreate
    <2>2. request'[r] = [Idle EXCEPT !.at = "create", !.row = row] /\ row # None
        BY <2>1, InputAssumption, NoneAssumption DEF Become, TypeOK
    <2>3. \A q \in Requests \ {r} : request'[q] = request[q] /\ changed'[q] = changed[q]
        BY <1>2, <2>1 DEF AskCreate, Become, TypeOK, history
    <2>4. UNCHANGED lessons /\ UNCHANGED suspect
        BY <1>2 DEF AskCreate, history
    <2>5. /\ request'[r].row # None => request'[r].at \in PlaceHolders
          /\ CreateFacts(r)'
          /\ UpdateFacts(r)'
        BY <2>1, <2>2, <2>4
        DEF Idle, CreateFacts, UpdateFacts, At, PlaceHolders, Conflicts, IsActive, Exists
    <2>6. DoubleBookingExplained'
        BY <2>4, UnchangedSteady, SteadyBooking
    <2> QED
        BY <2>3, <2>4, <2>5, <2>6, OthersKept DEF InFlight
<1>3. ASSUME NEW r \in Requests, CreateLesson(r)
      PROVE  InFlight' /\ DoubleBookingExplained'
    <2> DEFINE row == request[r].row
    <2>1. row # None /\ row \in LessonRow /\ (changed[r] = {} => Conflicts(row, None) = {})
        BY <1>3 DEF CreateLesson, InFlight, CreateFacts, TypeOK, RequestState
    <2>2. PICK l \in Lessons : ~Exists(l) /\ Write(r, l, row)
        BY <1>3 DEF CreateLesson
    <2>3. HasChecked(r) => Conflicts(row, l) = {}
        BY <2>1, NoneAssumption DEF HasChecked, Conflicts
    <2> QED
        BY <2>1, <2>2, <2>3, WritePlaces
<1>4. ASSUME NEW r \in Requests, AskUpdate(r)
      PROVE  InFlight' /\ DoubleBookingExplained'
    <2>1. PICK l \in Lessons, p \in Patches :
            /\ Exists(l)
            /\ \/ Become(r, [Idle EXCEPT !.at = "conflict", !.lesson = l, !.patch = p,
                                         !.row = Patched(lessons[l], p)])
               \/ Become(r, [Idle EXCEPT !.at = "update", !.lesson = l, !.patch = p])
        BY <1>4 DEF AskUpdate
    <2>2. l # None /\ p # None /\ Patched(lessons[l], p) \in LessonRow /\ Patched(lessons[l], p) # None
        BY <2>1, InputAssumption, NoneAssumption, PatchedType DEF Exists, TypeOK
    <2>3. \A q \in Requests \ {r} : request'[q] = request[q] /\ changed'[q] = changed[q]
        BY <1>4, <2>1 DEF AskUpdate, Become, TypeOK, history
    <2>4. UNCHANGED lessons /\ UNCHANGED suspect
        BY <1>4 DEF AskUpdate, history
    <2>5. \/ request'[r] = [Idle EXCEPT !.at = "conflict", !.lesson = l, !.patch = p,
                                        !.row = Patched(lessons[l], p)]
          \/ request'[r] = [Idle EXCEPT !.at = "update", !.lesson = l, !.patch = p]
        BY <2>1 DEF Become, TypeOK
    <2>6. /\ request'[r].row # None => request'[r].at \in PlaceHolders
          /\ CreateFacts(r)'
          /\ UpdateFacts(r)'
        <3>1. CASE request'[r] = [Idle EXCEPT !.at = "conflict", !.lesson = l, !.patch = p,
                                              !.row = Patched(lessons[l], p)]
            <4>1. SamePlace(Patched(lessons[l], p), Patched(lessons[l], p))
                BY DEF SamePlace
            <4> QED
                BY <2>1, <2>2, <2>4, <3>1, <4>1
                DEF Idle, CreateFacts, UpdateFacts, At, PlaceHolders, Exists
        <3>2. CASE request'[r] = [Idle EXCEPT !.at = "update", !.lesson = l, !.patch = p]
            BY <2>1, <2>2, <2>4, <3>2 DEF Idle, CreateFacts, UpdateFacts, At, PlaceHolders, Exists
        <3> QED
            BY <2>5, <3>1, <3>2
    <2>7. DoubleBookingExplained'
        BY <2>4, UnchangedSteady, SteadyBooking
    <2> QED
        BY <2>3, <2>4, <2>6, <2>7, OthersKept DEF InFlight
<1>5. ASSUME NEW r \in Requests, CheckConflict(r)
      PROVE  InFlight' /\ DoubleBookingExplained'
    <2> DEFINE l == request[r].lesson
               row == request[r].row
    <2>1. UNCHANGED lessons /\ UNCHANGED suspect
        BY <1>5 DEF CheckConflict
    <2>2. \A q \in Requests \ {r} : request'[q] = request[q] /\ changed'[q] = changed[q]
        BY <1>5 DEF CheckConflict, GoTo, Finish, Become, TypeOK
    <2>3. At(r, "conflict") /\ l # None /\ request[r].patch # None /\ Exists(l) /\ row # None
        BY <1>5 DEF CheckConflict, InFlight, UpdateFacts
    <2>4. CASE Conflicts(row, l) = {}
        <3>1. request'[r] = [request[r] EXCEPT !.at = "update"] /\ changed'[r] = changed[r] \cap {l}
            BY <1>5, <2>4 DEF CheckConflict, GoTo, Become, TypeOK
        <3>2. request'[r].at = "update" /\ request'[r].row = row /\ request'[r].lesson = l
              /\ request'[r].patch = request[r].patch
            BY <3>1 DEF TypeOK, RequestState
        <3>3. l \notin changed'[r] => l \notin changed[r]
            BY <3>1
        <3>4. l \notin changed[r] => SamePlace(Patched(lessons[l], request[r].patch), row)
            BY <2>3 DEF InFlight, UpdateFacts
        <3>5. Conflicts(request[r].row, request[r].lesson)' = {}
            BY <2>1, <2>4, <3>2 DEF Conflicts, IsActive, Exists
        <3>6. CreateFacts(r)' /\ UpdateFacts(r)'
            BY <2>1, <2>3, <3>2, <3>3, <3>4, <3>5 DEF CreateFacts, UpdateFacts, At, Exists
        <3> QED
            BY <2>1, <2>2, <3>2, <3>6, OthersKept, UnchangedSteady, SteadyBooking DEF InFlight, PlaceHolders
    <2>5. CASE Conflicts(row, l) # {}
        <3>1. request'[r] = Idle
            BY <1>5, <2>5 DEF CheckConflict, Finish, Become, TypeOK
        <3> QED
            BY <2>1, <2>2, <3>1, UnchangedSteady, QuietFacts DEF Idle, PlaceHolders
    <2> QED
        BY <2>4, <2>5
<1>6. ASSUME NEW r \in Requests, UpdateLesson(r)
      PROVE  InFlight' /\ DoubleBookingExplained'
    <2> DEFINE l == request[r].lesson
               row == Patched(lessons[l], request[r].patch)
    <2>1. l \in Lessons /\ Exists(l) /\ request[r].patch \in Patch
        BY <1>6 DEF UpdateLesson, InFlight, UpdateFacts, TypeOK, RequestState
    <2>2. row \in LessonRow
        BY <2>1, PatchedType DEF Exists, TypeOK
    <2>3. ASSUME HasChecked(r)
          PROVE  Conflicts(row, l) = {}
        <3>1. Conflicts(request[r].row, l) = {} /\ SamePlace(row, request[r].row)
            BY <1>6, <2>3 DEF UpdateLesson, HasChecked, InFlight, UpdateFacts
        <3> QED
            BY <3>1 DEF Conflicts, Overlap, SamePlace
    <2>4. Write(r, l, row)
        BY <1>6 DEF UpdateLesson
    <2> QED
        BY <2>1, <2>2, <2>3, <2>4, WritePlaces
<1>7. ASSUME NEW r \in Requests, RemoveLesson(r)
      PROVE  InFlight' /\ DoubleBookingExplained'
    <2>1. Steady
        BY <1>7, NoneAssumption DEF RemoveLesson, Steady, TypeOK, Exists, IsActive, SamePlace, LessonRow, Status
    <2>2. \A q \in Requests : request'[q] = request[q] /\ changed'[q] = changed[q]
        BY <1>7 DEF RemoveLesson, history
    <2>3. suspect' = suspect
        BY <1>7 DEF RemoveLesson, history
    <2> QED
        BY <2>1, <2>2, <2>3, SteadyFacts, SteadyBooking DEF InFlight
<1>8. ASSUME NEW r \in Requests, AskEnroll(r)
      PROVE  InFlight' /\ DoubleBookingExplained'
    <2>1. PICK l \in Lessons, s \in Students :
            Become(r, [Idle EXCEPT !.at = "enroll", !.lesson = l, !.student = s])
        BY <1>8 DEF AskEnroll
    <2>2. request'[r].row = None /\ request'[r].at = "enroll"
        BY <2>1 DEF Become, TypeOK, Idle
    <2>3. \A q \in Requests \ {r} : request'[q] = request[q] /\ changed'[q] = changed[q]
        BY <1>8, <2>1 DEF AskEnroll, Become, TypeOK, history
    <2> QED
        BY <1>8, <2>2, <2>3, UnchangedSteady, QuietFacts DEF AskEnroll, PlaceHolders, history
<1>9. ASSUME NEW r \in Requests, EnrollStudent(r) \/ UnenrollStudent(r) \/ Abort(r)
      PROVE  InFlight' /\ DoubleBookingExplained'
    <2>1. request' = [request EXCEPT ![r] = Idle] /\ UNCHANGED <<lessons, suspect>>
        BY <1>9 DEF EnrollStudent, UnenrollStudent, Abort, Finish, Become, history
    <2>2. request'[r].row = None /\ request'[r].at = "idle"
        BY <2>1 DEF TypeOK, Idle
    <2>3. \A q \in Requests \ {r} : request'[q] = request[q] /\ changed'[q] = changed[q]
        BY <1>9, <2>1 DEF EnrollStudent, UnenrollStudent, Abort, TypeOK, history
    <2> QED
        BY <2>1, <2>2, <2>3, UnchangedSteady, QuietFacts DEF PlaceHolders
<1>10. ASSUME NEW r \in Requests, AskUnenroll(r)
       PROVE  InFlight' /\ DoubleBookingExplained'
    <2>1. PICK e \in Enrolments : Become(r, [Idle EXCEPT !.at = "unenroll", !.seat = e])
        BY <1>10 DEF AskUnenroll
    <2>2. request'[r].row = None /\ request'[r].at = "unenroll"
        BY <2>1 DEF Become, TypeOK, Idle
    <2>3. \A q \in Requests \ {r} : request'[q] = request[q] /\ changed'[q] = changed[q]
        BY <1>10, <2>1 DEF AskUnenroll, Become, TypeOK, history
    <2> QED
        BY <1>10, <2>2, <2>3, UnchangedSteady, QuietFacts DEF AskUnenroll, PlaceHolders, history
<1> QED
    BY <1>1, <1>2, <1>3, <1>4, <1>5, <1>6, <1>7, <1>8, <1>9, <1>10 DEF Next

-----------------------------------------------------------------------------
(***************************************************************************)
(* Seats                                                                   *)
(***************************************************************************)
\* Where the roll and the pending requests only shrink, the bound stays.
LEMMA SeatsShrink ==
    ASSUME TypeOK, SeatsBounded, NEW l \in Lessons,
           Roll(l)' \subseteq Roll(l), Pending(l)' \subseteq Pending(l),
           capacities[l] \subseteq capacities'[l], rush'[l] \in Nat, rush[l] <= rush'[l],
           Roll(l)' # {} \/ Pending(l)' # {}
    PROVE  \E m \in capacities'[l] :
                \/ m = 0
                \/ Cardinality(Roll(l)') + Cardinality(Pending(l)') < m + rush'[l]
<1>1. PICK m \in capacities[l] :
        \/ m = 0
        \/ Cardinality(Roll(l)) + Cardinality(Pending(l)) < m + rush[l]
    BY DEF SeatsBounded
<1>2. m \in Nat /\ rush[l] \in Nat
    BY DEF TypeOK
<1>3. /\ Cardinality(Roll(l)') \in Nat /\ Cardinality(Roll(l)') <= Cardinality(Roll(l))
      /\ Cardinality(Pending(l)') \in Nat /\ Cardinality(Pending(l)') <= Cardinality(Pending(l))
    BY Countable, FS_Subset, FS_CardinalityType
<1>4. CASE m = 0
    BY <1>4
<1>5. CASE Cardinality(Roll(l)) + Cardinality(Pending(l)) < m + rush[l]
    <2>1. Cardinality(Roll(l)') + Cardinality(Pending(l)') < m + rush'[l]
        BY <1>2, <1>3, <1>5, Countable
    <2> QED
        BY <2>1
<1> QED
    BY <1>1, <1>4, <1>5

\* The facts of requests about seats need no more than types and a look at the step.
LEMMA SeatFactsKept ==
    ASSUME TypeOK, InFlight, SeatFacts, [Next]_vars
    PROVE  SeatFacts'
<1>1. \A l \in Lessons : Exists(l)' => lessons'[l].max \in capacities'[l]
    <2>1. CASE UNCHANGED <<lessons, capacities>>
        BY <2>1 DEF SeatFacts, Exists
    <2>2. ASSUME NEW r \in Requests, NEW l \in Lessons, NEW row, Write(r, l, row)
          PROVE  \A k \in Lessons : Exists(k)' => lessons'[k].max \in capacities'[k]
        BY <2>2 DEF Write, TypeOK, SeatFacts, Exists
    <2>3. ASSUME NEW r \in Requests, RemoveLesson(r)
          PROVE  \A k \in Lessons : Exists(k)' => lessons'[k].max \in capacities'[k]
        BY <2>3 DEF RemoveLesson, TypeOK, SeatFacts, Exists, LessonRow, history
    <2>4. ASSUME NEW r \in Requests, UpdateLesson(r)
          PROVE  \A k \in Lessons : Exists(k)' => lessons'[k].max \in capacities'[k]
        <3>1. request[r].lesson \in Lessons
            BY <2>4 DEF UpdateLesson, InFlight, UpdateFacts, TypeOK, RequestState
        <3> QED
            BY <2>2, <2>4, <3>1 DEF UpdateLesson
    <2>5. ASSUME NEW r \in Requests, CreateLesson(r)
          PROVE  \A k \in Lessons : Exists(k)' => lessons'[k].max \in capacities'[k]
        BY <2>2, <2>5 DEF CreateLesson
    <2> QED
        BY <2>1, <2>3, <2>4, <2>5
        DEF Next, vars, history, AskCreate, AskUpdate, CheckConflict, AskEnroll, EnrollStudent,
            AskUnenroll, UnenrollStudent, Abort
<1>2. ASSUME NEW q \in Requests
      PROVE  /\ At(q, "enroll")' => request'[q].lesson # None /\ request'[q].student # None
             /\ At(q, "unenroll")' => request'[q].seat # None
    <2> DEFINE Good(state) ==
                 /\ state.at = "enroll" => state.lesson # None /\ state.student # None
                 /\ state.at = "unenroll" => state.seat # None
    <2>1. Good(request[q]) /\ Good(Idle)
        BY DEF SeatFacts, At, Idle
    <2>2. CASE request'[q] = request[q]
        BY <2>1, <2>2 DEF At
    <2>3. ASSUME NEW r \in Requests, NEW state, Become(r, state), Good(state)
          PROVE  Good(request'[q])
        BY <2>1, <2>3 DEF Become, TypeOK
    <2>4. ASSUME NEW r \in Requests, AskCreate(r)
          PROVE  Good(request'[q])
        <3>1. PICK row \in NewLessons : Become(r, [Idle EXCEPT !.at = "create", !.row = row])
            BY <2>4 DEF AskCreate
        <3>2. Good([Idle EXCEPT !.at = "create", !.row = row])
            BY DEF Idle
        <3> QED
            BY <2>3, <3>1, <3>2
    <2>5. ASSUME NEW r \in Requests, AskUpdate(r)
          PROVE  Good(request'[q])
        <3>1. PICK l \in Lessons, p \in Patches :
                \/ Become(r, [Idle EXCEPT !.at = "conflict", !.lesson = l, !.patch = p,
                                          !.row = Patched(lessons[l], p)])
                \/ Become(r, [Idle EXCEPT !.at = "update", !.lesson = l, !.patch = p])
            BY <2>5 DEF AskUpdate
        <3>2. Good([Idle EXCEPT !.at = "conflict", !.lesson = l, !.patch = p,
                                !.row = Patched(lessons[l], p)])
            BY DEF Idle
        <3>3. Good([Idle EXCEPT !.at = "update", !.lesson = l, !.patch = p])
            BY DEF Idle
        <3> QED
            BY <2>3, <3>1, <3>2, <3>3
    <2>6. ASSUME NEW r \in Requests, CheckConflict(r)
          PROVE  Good(request'[q])
        <3>1. Good([request[r] EXCEPT !.at = "update"])
            BY DEF TypeOK, RequestState
        <3> QED
            BY <2>1, <2>3, <2>6, <3>1 DEF CheckConflict, GoTo, Finish
    <2>7. ASSUME NEW r \in Requests, AskEnroll(r)
          PROVE  Good(request'[q])
        <3>1. PICK l \in Lessons, s \in Students :
                Become(r, [Idle EXCEPT !.at = "enroll", !.lesson = l, !.student = s])
            BY <2>7 DEF AskEnroll
        <3>2. Good([Idle EXCEPT !.at = "enroll", !.lesson = l, !.student = s])
            BY NoneAssumption DEF Idle
        <3> QED
            BY <2>3, <3>1, <3>2
    <2>8. ASSUME NEW r \in Requests, AskUnenroll(r)
          PROVE  Good(request'[q])
        <3>1. PICK e \in Enrolments : Become(r, [Idle EXCEPT !.at = "unenroll", !.seat = e])
            BY <2>8 DEF AskUnenroll
        <3>2. Good([Idle EXCEPT !.at = "unenroll", !.seat = e])
            BY NoneAssumption DEF Idle
        <3> QED
            BY <2>3, <3>1, <3>2
    <2>9. ASSUME NEW r \in Requests, Finish(r)
          PROVE  Good(request'[q])
        BY <2>1, <2>3, <2>9 DEF Finish
    <2>10. Good(request'[q]) \/ request'[q] = request[q]
        BY <2>4, <2>5, <2>6, <2>7, <2>8, <2>9
        DEF Next, vars, CreateLesson, UpdateLesson, RemoveLesson, EnrollStudent, UnenrollStudent,
            Abort, Write
    <2> QED
        BY <2>2, <2>10 DEF At
<1> QED
    BY <1>1, <1>2 DEF SeatFacts

\* A step that makes nobody pending and enrols nobody keeps the bound.
LEMMA QuietSeats ==
    ASSUME TypeOK, SeatsBounded, NEW r \in Requests,
           \A q \in Requests \ {r} : request'[q] = request[q],
           request'[r].at # "enroll",
           \A e \in Enrolments : enrolments'[e] \in {enrolments[e], None},
           \A l \in Lessons : capacities[l] \subseteq capacities'[l], UNCHANGED rush
    PROVE  SeatsBounded'
<1> SUFFICES ASSUME NEW l \in Lessons, Roll(l)' # {} \/ Pending(l)' # {}
             PROVE  \E m \in capacities'[l] :
                        \/ m = 0
                        \/ Cardinality(Roll(l)') + Cardinality(Pending(l)') < m + rush'[l]
    BY DEF SeatsBounded
<1>1. Roll(l)' \subseteq Roll(l)
    BY DEF Roll
<1>2. Pending(l)' \subseteq Pending(l)
    BY DEF Pending, At
<1>3. rush'[l] \in Nat /\ rush[l] <= rush'[l]
    BY DEF TypeOK
<1> QED
    BY <1>1, <1>2, <1>3, SeatsShrink

LEMMA SeatsKept ==
    ASSUME TypeOK, SeatFacts, SeatsBounded, [Next]_vars
    PROVE  SeatsBounded'
<1>1. CASE UNCHANGED vars
    BY <1>1 DEF vars, SeatsBounded, Roll, Pending, At
<1>2. ASSUME NEW r \in Requests, AskEnroll(r)
      PROVE  SeatsBounded'
    <2>1. PICK l \in Lessons, s \in Students :
            /\ Exists(l)
            /\ HasRoom(l)
            /\ Become(r, [Idle EXCEPT !.at = "enroll", !.lesson = l, !.student = s])
            /\ rush' = [rush EXCEPT ![l] = IF Cardinality(Pending(l)) < @ THEN @
                                           ELSE Cardinality(Pending(l)) + 1]
        BY <1>2 DEF AskEnroll
    <2>2. At(r, "idle") /\ UNCHANGED <<enrolments, capacities>>
        BY <1>2 DEF AskEnroll
    <2>3. \A k \in Lessons : Roll(k)' = Roll(k)
        BY <2>2 DEF Roll
    <2>4. /\ request'[r].at = "enroll" /\ request'[r].lesson = l
          /\ \A q \in Requests \ {r} : request'[q] = request[q]
        BY <2>1 DEF Become, TypeOK, Idle
    <2>5. \A k \in Lessons : k # l => Pending(k)' = Pending(k)
        BY <2>2, <2>4 DEF Pending, At
    <2>6. \E m \in capacities'[l] :
            \/ m = 0
            \/ Cardinality(Roll(l)') + Cardinality(Pending(l)') < m + rush'[l]
        <3>1. lessons[l].max \in capacities[l] /\ lessons[l].max \in Nat
            BY <2>1 DEF SeatFacts, TypeOK, Exists, LessonRow
        <3>2. Pending(l)' = Pending(l) \cup {r} /\ r \notin Pending(l)
            BY <2>2, <2>4 DEF Pending, At
        <3>3. Cardinality(Pending(l)') = Cardinality(Pending(l)) + 1
            BY <3>2, Countable, FS_AddElement
        <3>a. rush'[l] \in Nat /\ Cardinality(Pending(l)) + 1 <= rush'[l]
            <4>1. rush \in [Lessons -> Nat] /\ Cardinality(Pending(l)) \in Nat
                BY Countable DEF TypeOK
            <4> QED
                BY <2>1, <4>1
        <3>4. lessons[l].max = 0 \/ Cardinality(Roll(l)) < lessons[l].max
            BY <2>1 DEF HasRoom
        <3>5. \/ lessons[l].max = 0
              \/ Cardinality(Roll(l)') + Cardinality(Pending(l)') < lessons[l].max + rush'[l]
            BY <2>3, <3>1, <3>3, <3>a, <3>4, Countable
        <3> QED
            BY <2>2, <3>1, <3>5
    <2>7. ASSUME NEW k \in Lessons, Roll(k)' # {} \/ Pending(k)' # {}
          PROVE  \E m \in capacities'[k] :
                    \/ m = 0
                    \/ Cardinality(Roll(k)') + Cardinality(Pending(k)') < m + rush'[k]
        <3>1. rush'[k] \in Nat /\ rush[k] <= rush'[k]
            BY <1>2, RushKept DEF Next
        <3> QED
            BY <2>2, <2>3, <2>5, <2>6, <2>7, <3>1, SeatsShrink
    <2> QED
        BY <2>7 DEF SeatsBounded
<1>3. ASSUME NEW r \in Requests, EnrollStudent(r)
      PROVE  SeatsBounded'
    <2>1. PICK l \in Lessons : l = request[r].lesson /\ r \in Pending(l)
        BY <1>3 DEF EnrollStudent, SeatFacts, TypeOK, RequestState, Pending
    <2> DEFINE row == [lesson |-> request[r].lesson, student |-> request[r].student]
    <2>2. /\ request'[r].at = "idle"
          /\ \A q \in Requests \ {r} : request'[q] = request[q]
          /\ UNCHANGED <<capacities, rush>>
        BY <1>3 DEF EnrollStudent, Finish, Become, TypeOK, Idle, history
    <2>3. CASE enrolments' = enrolments
        BY <2>2, <2>3, QuietSeats DEF TypeOK
    <2>4. CASE \E e \in Enrolments : Fresh(e) /\ enrolments' = [enrolments EXCEPT ![e] = row]
        <3>1. PICK e \in Enrolments : Fresh(e) /\ enrolments' = [enrolments EXCEPT ![e] = row]
            BY <2>4
        <3>2. \A k \in Lessons : k # l => Roll(k)' = Roll(k)
            BY <2>1, <3>1 DEF Roll, TypeOK, Fresh
        <3>3. Roll(l)' \subseteq Roll(l) \cup {e}
            BY <3>1 DEF Roll, TypeOK
        <3>4. \A k \in Lessons : k # l => Pending(k)' = Pending(k)
            BY <2>1, <2>2 DEF Pending, At
        <3>5. Pending(l)' = Pending(l) \ {r}
            BY <2>1, <2>2 DEF Pending, At
        <3>6. Cardinality(Pending(l)') = Cardinality(Pending(l)) - 1
            BY <2>1, <3>5, Countable, FS_RemoveElement
        <3>7. Cardinality(Roll(l)') \in Nat /\ Cardinality(Roll(l)') <= Cardinality(Roll(l)) + 1
            <4>1. IsFiniteSet(Roll(l) \cup {e}) /\ Cardinality(Roll(l) \cup {e}) <= Cardinality(Roll(l)) + 1
                <5>1. Cardinality(Roll(l) \cup {e}) \in {Cardinality(Roll(l)), Cardinality(Roll(l)) + 1}
                    BY Countable, FS_AddElement
                <5>2. IsFiniteSet(Roll(l) \cup {e})
                    BY Countable, FS_AddElement
                <5> QED
                    BY <5>1, <5>2, Countable
            <4>2. Cardinality(Roll(l) \cup {e}) \in Nat
                BY <4>1, FS_CardinalityType
            <4>3. Cardinality(Roll(l)') <= Cardinality(Roll(l) \cup {e}) /\ Cardinality(Roll(l)') \in Nat
                BY <3>3, <4>1, FS_Subset, FS_CardinalityType
            <4> QED
                BY <4>1, <4>2, <4>3, Countable
        <3>8. PICK m \in capacities[l] :
                \/ m = 0
                \/ Cardinality(Roll(l)) + Cardinality(Pending(l)) < m + rush[l]
            BY <2>1 DEF SeatsBounded
        <3>9. m \in Nat /\ \A k \in Lessons : rush'[k] \in Nat /\ rush[k] <= rush'[k]
            BY <2>1, <2>2 DEF TypeOK
        <3>10. m = 0 \/ Cardinality(Roll(l)') + Cardinality(Pending(l)') < m + rush'[l]
            BY <2>2, <3>6, <3>7, <3>8, <3>9, Countable
        <3>11. ASSUME NEW k \in Lessons, Roll(k)' # {} \/ Pending(k)' # {}
               PROVE  \E n \in capacities'[k] :
                        \/ n = 0
                        \/ Cardinality(Roll(k)') + Cardinality(Pending(k)') < n + rush'[k]
            <4>1. CASE k = l
                BY <2>2, <3>10, <4>1
            <4>2. CASE k # l
                BY <2>2, <3>2, <3>4, <3>9, <3>11, <4>2, SeatsShrink
            <4> QED
                BY <4>1, <4>2
        <3> QED
            BY <3>11 DEF SeatsBounded
    <2> QED
        BY <1>3, <2>3, <2>4 DEF EnrollStudent
<1>4. ASSUME NEW r \in Requests,
             \/ CreateLesson(r) \/ UpdateLesson(r) \/ UnenrollStudent(r) \/ Abort(r)
      PROVE  SeatsBounded'
    <2>1. request' = [request EXCEPT ![r] = Idle]
        BY <1>4 DEF CreateLesson, UpdateLesson, UnenrollStudent, Abort, Write, Finish, Become
    <2>2. request'[r].at # "enroll" /\ \A q \in Requests \ {r} : request'[q] = request[q]
        BY <2>1 DEF TypeOK, Idle
    <2>3. \A e \in Enrolments : enrolments'[e] \in {enrolments[e], None}
        BY <1>4 DEF CreateLesson, UpdateLesson, UnenrollStudent, Abort, Write, TypeOK
    <2>4. \A l \in Lessons : capacities[l] \subseteq capacities'[l]
        BY <1>4 DEF CreateLesson, UpdateLesson, UnenrollStudent, Abort, Write, TypeOK, history
    <2>5. UNCHANGED rush
        BY <1>4 DEF CreateLesson, UpdateLesson, UnenrollStudent, Abort, Write, history
    <2> QED
        BY <2>2, <2>3, <2>4, <2>5, QuietSeats
<1>5. ASSUME NEW r \in Requests, RemoveLesson(r)
      PROVE  SeatsBounded'
    BY <1>5 DEF RemoveLesson, SeatsBounded, Roll, Pending, At, history
<1>6. ASSUME NEW r \in Requests,
             AskCreate(r) \/ AskUpdate(r) \/ CheckConflict(r) \/ AskUnenroll(r)
      PROVE  SeatsBounded'
    <2>1. UNCHANGED <<enrolments, capacities, rush>>
        BY <1>6 DEF AskCreate, AskUpdate, CheckConflict, AskUnenroll, history
    <2>2. \E state : Become(r, state) /\ state.at # "enroll"
        <3>1. CASE AskCreate(r)
            <4>1. PICK row \in NewLessons : Become(r, [Idle EXCEPT !.at = "create", !.row = row])
                BY <3>1 DEF AskCreate
            <4>2. [Idle EXCEPT !.at = "create", !.row = row].at = "create"
                BY DEF Idle
            <4> QED
                BY <4>1, <4>2
        <3>2. CASE AskUpdate(r)
            <4>1. PICK l \in Lessons, p \in Patches :
                    \/ Become(r, [Idle EXCEPT !.at = "conflict", !.lesson = l, !.patch = p,
                                              !.row = Patched(lessons[l], p)])
                    \/ Become(r, [Idle EXCEPT !.at = "update", !.lesson = l, !.patch = p])
                BY <3>2 DEF AskUpdate
            <4>2. [Idle EXCEPT !.at = "conflict", !.lesson = l, !.patch = p,
                               !.row = Patched(lessons[l], p)].at = "conflict"
                BY DEF Idle
            <4>3. [Idle EXCEPT !.at = "update", !.lesson = l, !.patch = p].at = "update"
                BY DEF Idle
            <4> QED
                BY <4>1, <4>2, <4>3
        <3>3. CASE CheckConflict(r)
            <4>1. [request[r] EXCEPT !.at = "update"].at = "update" /\ Idle.at = "idle"
                BY DEF TypeOK, RequestState, Idle
            <4> QED
                BY <3>3, <4>1 DEF CheckConflict, GoTo, Finish
        <3>4. CASE AskUnenroll(r)
            <4>1. PICK e \in Enrolments : Become(r, [Idle EXCEPT !.at = "unenroll", !.seat = e])
                BY <3>4 DEF AskUnenroll
            <4>2. [Idle EXCEPT !.at = "unenroll", !.seat = e].at = "unenroll"
                BY DEF Idle
            <4> QED
                BY <4>1, <4>2
        <3> QED
            BY <1>6, <3>1, <3>2, <3>3, <3>4
    <2>3. request'[r].at # "enroll" /\ \A q \in Requests \ {r} : request'[q] = request[q]
        BY <2>2 DEF Become, TypeOK
    <2> QED
        BY <2>1, <2>3, QuietSeats
<1> QED
    BY <1>1, <1>2, <1>3, <1>4, <1>5, <1>6 DEF Next

-----------------------------------------------------------------------------
(***************************************************************************)
(* The theorems                                                            *)
(***************************************************************************)
LEMMA InitIInv == Init => IInv
<1> SUFFICES ASSUME Init
             PROVE  IInv
    OBVIOUS
<1>1. \A l : Roll(l) = {} \/ l \notin Lessons
    BY DEF Init, Roll
<1>2. \A l : Pending(l) = {}
    BY DEF Init, Pending, At, Idle
<1>3. InFlight /\ DoubleBookingExplained
    BY DEF Init, InFlight, CreateFacts, UpdateFacts, At, Idle, DoubleBookingExplained, IsActive, Exists
<1>4. SeatFacts
    BY DEF Init, SeatFacts, At, Idle, Exists
<1> QED
    BY <1>1, <1>2, <1>3, <1>4, InitType DEF IInv, SeatsBounded

\* IInv is inductive: what the requests in flight rely on survives every step of
\* every other request.
THEOREM LessonsInvariance == Spec => []IInv
<1>1. IInv /\ [Next]_vars => IInv'
    <2> SUFFICES ASSUME IInv, [Next]_vars
                 PROVE  IInv'
        OBVIOUS
    <2>1. TypeOK'
        BY TypeKept DEF IInv
    <2>2. InFlight' /\ DoubleBookingExplained'
        BY <2>1, PlacesKept DEF IInv
    <2>3. SeatFacts' /\ SeatsBounded'
        BY SeatFactsKept, SeatsKept DEF IInv
    <2> QED
        BY <2>1, <2>2, <2>3 DEF IInv
<1> QED
    BY <1>1, InitIInv, PTL DEF Spec

\* The tables of lessons and what requests carry have the types of the schema.
THEOREM LessonsTypeCorrect == Spec => []TypeOK
<1>1. IInv => TypeOK
    BY DEF IInv
<1> QED
    BY <1>1, LessonsInvariance, PTL

\* Two lessons hold the same facility at the same time only after a request was
\* overtaken, between its check and its write, by one that concerned it, or after
\* an unchecked patch (create and update of LessonsService).
THEOREM DoubleBookingsAreExplained == Spec => []DoubleBookingExplained
<1>1. IInv => DoubleBookingExplained
    BY DEF IInv
<1> QED
    BY <1>1, LessonsInvariance, PTL

\* Requests that race for the last places of a lesson overbook it by less than
\* their number (enrollStudent).
THEOREM OverbookingIsBounded == Spec => []OverbookingBounded
<1>1. IInv => OverbookingBounded
    <2> SUFFICES ASSUME IInv, NEW l \in Lessons, Roll(l) # {}
                 PROVE  \E m \in capacities[l] :
                            m = 0 \/ Cardinality(Roll(l)) < m + rush[l]
        BY DEF OverbookingBounded
    <2>1. PICK m \in capacities[l] :
            \/ m = 0
            \/ Cardinality(Roll(l)) + Cardinality(Pending(l)) < m + rush[l]
        BY DEF IInv, SeatsBounded
    <2>2. m \in Nat /\ rush[l] \in Nat
        BY DEF IInv, TypeOK
    <2>3. m = 0 \/ Cardinality(Roll(l)) < m + rush[l]
        BY <2>1, <2>2, Countable
    <2> QED
        BY <2>3
<1> QED
    BY <1>1, LessonsInvariance, PTL
=============================================================================

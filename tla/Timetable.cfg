SPECIFICATION Spec
CONSTANTS
    None = None
    court = court
    monday = monday
    tuesday = tuesday
    Lessons = {l1, l2}
    Enrolments = {e1, e2, e3}
    Students = {s1, s2, s3}
    Requests = {r1, r2}
    Facilities = {court}
    Days = {monday, tuesday}
    Times <- MCTimes
    NewLessons <- MCNewLessons
    Patches <- MCPatches
SYMMETRY Symmetric
CONSTRAINT OneAtStake
INVARIANTS
    TypeOK
    DoubleBookingExplained
    OverbookingBounded

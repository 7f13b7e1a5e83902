SPECIFICATION ApartSpec
CONSTANTS
    None = None
    student = student
    tutor = tutor
    monthly = monthly
    Users = {student, tutor}
    Plans = {monthly}
    Subscriptions = {s1, s2}
    Payments = {p1, p2}
    Requests = {r1, r2}
    Charges = {c1, c2}
    Preapprovals = {a1}
    Duration <- MCOneMonth
    Checkouts <- MCEachAlone
    Starts <- MCNewYear
    LinkDues = {}
    ChargeMoves <- MCChargeEnds
    PreMoves <- MCPreMoves
SYMMETRY Symmetric
INVARIANTS
    OneSchedule
PROPERTIES
    SettledKept
    CancelReachesGateway
    EnrolledOnce

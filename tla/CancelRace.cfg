SPECIFICATION Spec
CONSTANTS
    None = None
    student = student
    tutor = tutor
    monthly = monthly
    Users = {student}
    Plans = {monthly}
    Subscriptions = {s1}
    Payments = {p1, p2}
    Requests = {r1, r2}
    Charges = {}
    Preapprovals = {a1}
    Duration <- MCOneMonth
    Checkouts <- MCAdult
    Starts <- MCNewYear
    LinkDues = {}
    ChargeMoves <- MCChargeMoves
    PreMoves <- MCPreMoves
SYMMETRY Symmetric
PROPERTIES
    CancelReachesGateway

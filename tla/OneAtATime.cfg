SPECIFICATION DeliverySpec
CONSTANTS
    None = None
    student = student
    tutor = tutor
    monthly = monthly
    Users = {student}
    Plans = {monthly}
    Subscriptions = {s1}
    Payments = {p1, p2}
    Requests = {r1}
    Charges = {c1}
    Preapprovals = {a1}
    MaxCrashes = 1
    Duration <- MCOneMonth
    Checkouts <- MCAdult
    Starts <- MCNewYear
    LinkDues <- MCLater
    ChargeMoves <- MCChargeMoves
    PreMoves <- MCPreMoves
INVARIANTS
    DeliveryTypeOK
    NothingForgotten
PROPERTIES
    Converges
    PaidIsActivated
    NoRegress

SPECIFICATION Spec
CONSTANTS
    None = None
    student = student
    tutor = tutor
    monthly = monthly
    Users = {student}
    Plans = {monthly}
    Subscriptions = {s1}
    Payments = {p1, p2}
    Requests = {r1, r2}
    Charges = {c1, c2}
    Preapprovals = {a1}
    Duration <- MCTwoMonths
    Checkouts <- MCAdult
    Starts <- MCNewYear
    LinkDues = {0}
    ChargeMoves <- MCChargeEnds
    PreMoves <- MCPreAuthorize
SYMMETRY Symmetric
INVARIANTS
    TypeOK
    PaymentIsBacked
    ActiveIsBacked
    ArrearsAreBacked
    RecordedBeforeMarked
    ScheduleBeforePreapproval
    DueMonthly
PROPERTIES
    CancelTellsGatewayFirst
    KeepsLedger

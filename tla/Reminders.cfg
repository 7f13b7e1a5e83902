SPECIFICATION Spec
CONSTANTS
    None = None
    Payments = {p1, p2}
    Dues <- MCDues
    Admins = {admin}
    Jobs = {j1, j2}
    Day = 1
    PreDueAlertDays = 1
    MoraAlertDays = 0
    MaxTime = 4
    MaxLost = 1
SYMMETRY Symmetric
INVARIANTS
    TypeOK
    RemindersBounded
PROPERTIES
    NoneLeftOut

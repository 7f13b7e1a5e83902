SPECIFICATION Spec
CONSTANTS
    None = None
    child = child
    mother = mother
    other = other
    monthly = monthly
    Users = {u1, u2, u3}
    Emails = {child, mother, other}
    Ruts = {child, mother, other}
    Plans = {monthly}
    Subscriptions = {s1, s2}
    Requests = {r1, r2}
    Arrivals <- MCArrivals
    Applications <- MCApplications
    Changes <- MCChanges
    Orders <- MCOrders
CONSTRAINT Bounded
SYMMETRY Symmetric
INVARIANTS
    TypeOK
    OneUserPerKey
    PayerWasNamed
    AdmittedOnce

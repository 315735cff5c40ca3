\* Two payments, three owners, any callbacks.
SPECIFICATION Spec
CONSTANTS
    Payment = {p1, p2}
    Staff = {s1, s2, s3}
    Customer = {c1}
    Nobody = Nobody
    Abandon = 0
    Day = 1
    MaxDeposits = 1
    MaxItems = 1
    MaxCallbacks = 1
    MaxActions = 1
    MaxClock = 2
\* Every payment may be final.
CHECK_DEADLOCK FALSE
SYMMETRY ProcessSymmetry
INVARIANTS IInv CreditIsProven CreditsWithinLimit

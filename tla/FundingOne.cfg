\* One payment, conflicting callbacks, two decisions; and one nobody answers.
SPECIFICATION FairSpec
CONSTANTS
    Payment = {p1}
    Staff = {s1, s2, s3}
    Customer = {c1}
    Nobody = Nobody
    Abandon = 0
    Day = 1
    MaxDeposits = 1
    MaxItems = 1
    MaxCallbacks = 2
    MaxActions = 2
    MaxClock = 2
\* Every payment may be final.
CHECK_DEADLOCK FALSE
PROPERTIES KeepsPromise ProgressEnds

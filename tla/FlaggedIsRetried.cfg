\* A settlement that failed is not retried.
SPECIFICATION FairSpec
CONSTANTS
    a1 = a1  a2 = a2  b1 = b1  b2 = b2  b3 = b3  NoBuy = NoBuy  w1 = w1  w2 = w2  v1 = v1
    Account = {a1}
    Buy = {b1, b2}
    Worker = {w1}
    Staff = {}
    Orders <- BusyAccountOrders
    SampleDigits = {4}
    Margin = 35
    MaxDelay = 1
    Batch = 2
    FeedLag = 2
    MaxOpen = 2
    MaxRate = 3
    MaxLiability = 1000
    MinStake = 100
    OpeningCredit = 1000
    MaxClock = 4
    MaxCrash = 0
PROPERTIES FlaggedIsRetried

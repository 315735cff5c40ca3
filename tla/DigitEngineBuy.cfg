\* Two purchases, of one account or of two that share an exposure row, against the
\* tick generator; two seeds per tick.
SPECIFICATION Spec
CONSTANTS
    a1 = a1  a2 = a2  b1 = b1  b2 = b2  b3 = b3  NoBuy = NoBuy  w1 = w1  w2 = w2  v1 = v1
    Account = {a1, a2}
    Buy = {b1, b2}
    Worker = {w1}
    Staff = {}
    Orders <- PurchaseOrders
    SampleDigits = {4, 7}
    Margin = 35
    MaxDelay = 1
    Batch = 2
    FeedLag = 2
    MaxOpen = 2
    MaxRate = 3
    MaxLiability = 300
    MinStake = 100
    OpeningCredit = 500
    MaxClock = 4
    MaxCrash = 0
INVARIANTS NoOverdraft OneContractPerKey ReservedIsOpenStakes
    ExposureAccountsForPurchases SettledByItsTick MoneyInv
PROPERTIES BetsOnTheFuture

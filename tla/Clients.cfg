\* One program at a time, from its start.
SPECIFICATION FairSpec
CONSTANTS
    Feed <- FeedValues
    Trade <- TradeValues
    Shell <- ShellValues
    Inbox <- InboxValues
    Deposit <- DepositValues
    Desk <- DeskValues
    Console <- ConsoleValues
    Spot <- SpotValues
    Cookies <- CookiesValues
    Quotes <- QuotesValues
    Entrance <- EntranceValues
    Tailoring <- TailoringValues
    Contact <- ContactValues
    StaffSends <- StaffSendsValues
    Coach <- CoachValues
    Toast <- ToastValues
    Digits <- DigitsValues
    Block <- DigitBlock
    E12 = 10
    ZScale = 2
    ZMax = 2
    Variance <- SquaredSigma
    Day = 4
    Interval = 2
    Seeds <- SomeSeeds
    Anchor = 40
    MinUnits = 5
    MaxUnits = 600
    Vol = 1
    Kappa = 1
    Providers = {"digicert", "sectigo"}
    Flawed = "sectigo"
    LastTick = 5
    ResumeDay = 2
    MaxAlterations = 1
\* Every program may come to rest.
CHECK_DEADLOCK FALSE
INVARIANTS ClientsTypeOK ResultsToldOnce  HeedsItsUser
    AsksSparingly GeneratedVerifies VerifiedIsTrue
PROPERTIES ListsAreRight FeedCatchesUp RetriesDoItOnce DraftsAreKept StoredAsAsked

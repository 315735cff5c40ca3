\* One index through outages, a cutover to version 3, a rescale and a purchase.
SPECIFICATION FairSpec
CONSTANTS
    TicksPerDay = 5
    Ahead = 1
    Lead = 1
    GiveUp = 1
    PauseLead = 3
    RevealDelay = 1
    Batch = 2
    MaxLag = 2
    Buy = {b1}
    Breaches = {{}, {2}}
    MaxClock = 6
    MaxFaults = 1
    MaxResumes = 1
INVARIANTS IInv SeedSecretWhileNeeded ContractsHaveTicks
PROPERTIES KeepsTickLog MissedOnlyAfterOutage FeedCatchesUp

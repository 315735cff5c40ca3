\* A purchase over two days, outages of any length.
SPECIFICATION FairSpec
CONSTANTS
    Buy = {b1}
    MaxCount = 2
    TicksPerDay = 4
    Batch = 4
    FeedLag = 0
    Grace = 1
    TxnLimit = 1
    Retention = 3
    MaxClock = 9
INVARIANTS IInv EvidenceKept
PROPERTIES KeepsCommitReveal EpochsRevealed

\* The list of contracts fails right after an order was filled.
SPECIFICATION Spec
CONSTANTS
    Accounts = {"demo", "real"}
    Preview = {}
    Orders = {"o1", "o2"}
    Results = {"LOST"}
    StopLoss = 1
    MaxBuys = 2
    MaxSwitches = 2
    MaxFailures = 1
CHECK_DEADLOCK FALSE
INVARIANT NotPlacedIsTrue

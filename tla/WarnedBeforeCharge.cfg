\* A number is added while the sheet already shows a quote.
SPECIFICATION Spec
CONSTANTS
    Quotes = {1}
    MaxRequests = 2
    MaxFaults = 1
    MaxSaves = 1
CHECK_DEADLOCK FALSE
INVARIANT WarnedBeforeCharge

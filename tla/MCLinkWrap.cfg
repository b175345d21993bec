\* Counters that are wider than the two bytes of a block number.
CONSTANTS
    CountMod = 4
    WireMod = 2
    MaxErrors = 2
    Patience = 0
    Prompt = TRUE
    Late = FALSE
    Requests <- MCCalls
    Faults <- MCNoFaults
    MaxBlocks = 5
    MaxFaults = 0
SPECIFICATION Spec
CHECK_DEADLOCK FALSE
INVARIANTS AckedDelivered

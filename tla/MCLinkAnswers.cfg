\* Two answers are lost.
CONSTANTS
    CountMod = 3
    WireMod = 3
    MaxErrors = 2
    Patience = 2
    Prompt = TRUE
    Late = FALSE
    Requests <- MCCalls
    Faults <- MCAnswerFaults
    MaxBlocks = 3
    MaxFaults = 2
SPECIFICATION Spec
CHECK_DEADLOCK FALSE
INVARIANTS AckedDelivered

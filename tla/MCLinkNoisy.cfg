\* Any faults, programs that stay away from the line, sides that give up.
CONSTANTS
    CountMod = 3
    WireMod = 3
    MaxErrors = 2
    Patience = 2
    Prompt = FALSE
    Late = TRUE
    Requests <- RequestKinds
    Faults <- FaultKinds
    MaxBlocks = 4
    MaxFaults = 2
SPECIFICATION Spec
\* A failed client, or two sides that wait for each other, stop.
CHECK_DEADLOCK FALSE
INVARIANTS InOrderOnce RepeatsAcks
PROPERTIES RepliesMatch

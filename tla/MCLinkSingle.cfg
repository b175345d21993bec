\* One fault of the line at a time, programs that are back within a second.
CONSTANTS
    CountMod = 3
    WireMod = 3
    MaxErrors = 2
    Patience = 0
    Prompt = TRUE
    Late = TRUE
    Requests <- RequestKinds
    Faults <- FaultKinds
    MaxBlocks = 5
    MaxFaults = 1
SPECIFICATION FairSpec
INVARIANTS LinkTypeOK AckedDelivered
PROPERTIES RequestsComplete ImplementsReliableLink

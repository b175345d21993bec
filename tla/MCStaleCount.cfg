\* A binary file grown to a whole number of records.
CONSTANTS
    byteA = byteA
    byteB = byteB
    CtrlZ = CtrlZ
    Junk = Junk
    fileA = fileA
    fileB = fileB
    Names <- MCNames
    Sect = 2
    NRecs = 2
    Bytes <- MCBytes
    DiskMax = 2
    HasLrbc = TRUE
    Usage <- MCNone
    OpenModes <- MCBinModes
    Buffers <- MCBuffers
    ReadLens <- MCLens
    Offsets <- MCOffsets
    MaxPos = 5
SPECIFICATION Spec
INVARIANTS WholeRecordsNeedNoCount

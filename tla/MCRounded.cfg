\* A binary file that this library wrote and closed.
CONSTANTS
    byteA = byteA
    byteB = byteB
    CtrlZ = CtrlZ
    Junk = Junk
    fileA = fileA
    fileB = fileB
    Names <- MCNames
    Sect = 2
    NRecs = 2
    Bytes <- MCBytes
    DiskMax = 2
    HasLrbc = TRUE
    Usage <- MCNone
    OpenModes <- MCBinModes
    Buffers <- MCOne
    ReadLens <- MCOneLen
    Offsets <- MCNone
    MaxPos = 1
SPECIFICATION Spec
INVARIANTS BinaryReadsBackRounded

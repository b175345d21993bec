\* A writer and readers of text files whose records take turns in the one buffer.
CONSTANTS
    byteA = byteA
    byteB = byteB
    CtrlZ = CtrlZ
    Junk = Junk
    fileA = fileA
    fileB = fileB
    Names <- MCTwo
    Sect = 2
    NRecs = 1
    Bytes <- MCBytes
    DiskMax = 2
    HasLrbc = TRUE
    Usage = {"shared"}
    OpenModes <- MCSharedModes
    Buffers <- MCEach
    ReadLens <- MCOneLen
    Offsets <- MCZero
    MaxPos = 1
SPECIFICATION Spec
SYMMETRY MCSymmetry
INVARIANTS CacheCoherent ReadsMatch
PROPERTIES AppendNeverOverwrites ReadersFollow

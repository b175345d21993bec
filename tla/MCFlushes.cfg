\* One "w" and one "r" handle on the same file.
CONSTANTS
    byteA = byteA
    byteB = byteB
    CtrlZ = CtrlZ
    Junk = Junk
    fileA = fileA
    fileB = fileB
    Names <- MCNames
    Sect = 2
    NRecs = 1
    Bytes <- MCBytes
    DiskMax = 2
    HasLrbc = TRUE
    Usage <- MCSharing
    OpenModes <- MCWriteRead
    Buffers <- MCOne
    ReadLens <- MCOneLen
    Offsets <- MCZero
    MaxPos = 1
SPECIFICATION Spec
PROPERTIES FlushedBytesSeen

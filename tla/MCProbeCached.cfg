\* A status probe while a record is cached.
CONSTANTS
    byteA = byteA
    byteB = byteB
    CtrlZ = CtrlZ
    Junk = Junk
    fileA = fileA
    fileB = fileB
    Names <- MCNames
    Sect = 2
    NRecs = 2
    Bytes <- MCBytes
    DiskMax = 2
    HasLrbc = TRUE
    Usage = {"probe_cached"}
    OpenModes <- MCBinModes
    Buffers <- MCBuffers
    ReadLens <- MCLens
    Offsets <- MCOffsets
    MaxPos = 5
SPECIFICATION Spec
INVARIANTS CacheCoherent

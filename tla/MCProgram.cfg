\* Programs with redirected standard files, one after the other.
CONSTANTS
    byteA = byteA
    byteB = byteB
    CtrlZ = CtrlZ
    Junk = Junk
    fileA = fileA
    fileB = fileB
    Names <- MCTwo
    Sect = 2
    NRecs = 1
    Bytes <- MCBytes
    DiskMax = 2
    HasLrbc = TRUE
    Usage = {"redirect", "exit"}
    OpenModes <- MCNone
    Buffers <- MCOne
    ReadLens <- MCLens
    Offsets <- MCOffsets
    MaxPos = 5
SPECIFICATION FairSpec
INVARIANTS TableConsistent
PROPERTIES ReturnCommits CallsReturn

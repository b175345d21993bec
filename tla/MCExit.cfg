\* A program that ends by exit() with its output redirected.
CONSTANTS
    byteA = byteA
    byteB = byteB
    CtrlZ = CtrlZ
    Junk = Junk
    fileA = fileA
    fileB = fileB
    Names <- MCNames
    Sect = 2
    NRecs = 2
    Bytes <- MCBytes
    DiskMax = 2
    HasLrbc = TRUE
    Usage = {"redirect", "exit"}
    OpenModes <- MCNone
    Buffers <- MCBuffers
    ReadLens <- MCLens
    Offsets <- MCOffsets
    MaxPos = 5
SPECIFICATION Spec
INVARIANTS ExitCommits

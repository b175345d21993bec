\* Calls on names while the files are open, and their purged handles.
CONSTANTS
    byteA = byteA
    byteB = byteB
    CtrlZ = CtrlZ
    Junk = Junk
    fileA = fileA
    fileB = fileB
    Names <- MCTwo
    Sect = 2
    NRecs = 1
    Bytes <- MCBytes
    DiskMax = 2
    HasLrbc = TRUE
    Usage = {"purge_open", "chmod_open"}
    OpenModes <- MCTruncate
    Buffers <- MCOne
    ReadLens <- MCTwoLen
    Offsets <- MCZero
    MaxPos = 1
SPECIFICATION Spec
SYMMETRY MCSymmetry
INVARIANTS ContentOnDisk ReadsMatch

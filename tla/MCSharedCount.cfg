\* A reader of a binary file to which another handle appends.
CONSTANTS
    byteA = byteA
    byteB = byteB
    CtrlZ = CtrlZ
    Junk = Junk
    fileA = fileA
    fileB = fileB
    Names <- MCNames
    Sect = 2
    NRecs = 1
    Bytes <- MCBytes
    DiskMax = 2
    HasLrbc = TRUE
    Usage <- MCSharing
    OpenModes <- MCBinShared
    Buffers <- MCOne
    ReadLens <- MCOneLen
    Offsets <- MCZero
    MaxPos = 1
SPECIFICATION Spec
PROPERTIES ReadersFollow

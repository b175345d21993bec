\* A reader of a binary file that another handle updates and closes.
CONSTANTS
    byteA = byteA
    byteB = byteB
    CtrlZ = CtrlZ
    Junk = Junk
    fileA = fileA
    fileB = fileB
    Names <- MCNames
    Sect = 2
    NRecs = 1
    Bytes <- MCBytes
    DiskMax = 2
    HasLrbc = TRUE
    Usage <- MCSharing
    OpenModes <- MCBinUpdate
    Buffers <- MCOne
    ReadLens <- MCOneLen
    Offsets <- MCNone
    MaxPos = 1
SPECIFICATION Spec
PROPERTIES ReadersFollow

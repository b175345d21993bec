\* Plain CP/M-86: text files, and binary files known to the record.
CONSTANTS
    byteA = byteA
    byteB = byteB
    CtrlZ = CtrlZ
    Junk = Junk
    fileA = fileA
    fileB = fileB
    Names <- MCNames
    Sect = 2
    NRecs = 2
    Bytes <- MCBytes
    DiskMax = 1
    HasLrbc = FALSE
    Usage = {"chmod", "console", "gap"}
    OpenModes <- MCPlainModes
    Buffers <- MCOne
    ReadLens <- MCThree
    Offsets <- MCForward
    MaxPos = 3
SPECIFICATION Spec
INVARIANTS ContentOnDisk LengthDurable

\* Binary files, one handle at a time, an OS that keeps a byte count.
CONSTANTS
    byteA = byteA
    byteB = byteB
    CtrlZ = CtrlZ
    Junk = Junk
    fileA = fileA
    fileB = fileB
    Names <- MCNames
    Sect = 2
    NRecs = 2
    Bytes <- MCBytes
    DiskMax = 1
    HasLrbc = TRUE
    Usage = {"exit"}
    OpenModes <- MCBinModes
    Buffers <- MCBinBuffers
    ReadLens <- MCLens
    Offsets <- MCOffsets
    MaxPos = 5
SPECIFICATION Spec
INVARIANTS TypeOK CacheCoherent ContentOnDisk LengthTracked LengthDurable
PROPERTIES AppendNeverOverwrites ShortReadsOnlyAtEnd

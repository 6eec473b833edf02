\* Where the data of an FDRI packet may be cut in two.
CONSTANTS
    WordsPerFrame = 3
    IdCode = 5
    Parts <- SmallParts
    PacketStreams = {}
    Prologues <- SmallPrologues
    FdriData <- SmallData
SPECIFICATION BothSpec
INVARIANTS
    SplitWhereFramesStart
CHECK_DEADLOCK FALSE

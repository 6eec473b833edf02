\* InitWithPackets on every stream of up to three packets, some of four, and
\* longer streams of the packets that decide where bursts start.
CONSTANTS
    WordsPerFrame = 2
    IdCode = 5
    Parts <- TwoParts
    PacketStreams <- Streams
SPECIFICATION Spec
INVARIANTS
    TypeOK
    KnownAddresses
    WholeFrames
    OnlyForThisPart
PROPERTIES
    BurstAscends
    BurstOrigin
CHECK_DEADLOCK FALSE

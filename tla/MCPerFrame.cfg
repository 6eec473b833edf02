CONSTANTS
    WordsPerFrame = 2
    WordBits = 2
    EccOf <- CopyEcc
    Chips <- SmallChips
    Tiles <- SmallTiles
    TextFiles <- SmallTextFiles
    BitsFiles <- SmallBitsFiles
    AuxFiles <- SmallAuxFiles
    StrayBits <- Strays
    Parts <- SmallParts
    FrameLists <- NoListOrAll
    BurstFrames <- SmallBursts
SPECIFICATION FairSpec
INVARIANTS
    CrcsMatchExactlyWhenCountedOnce
    WritesTheBits
    AssemblesHarnessAndDesign
    ReadsExactlyWhenContiguous
    OneBehindUnlessInhibited
    DumpsAlongTheList
PROPERTIES
    EndsUnlessEndless
CHECK_DEADLOCK FALSE

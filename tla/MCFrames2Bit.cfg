\* The round trip on every small part, walkable or not, and from bitstreams
\* that end at any byte.
CONSTANTS
    WordsPerFrame = 2
    Word <- Words
    Ecc <- FirstWordEcc
    Parts <- SmallParts
    FrmFiles <- SmallFiles
    IdCode = 5
    FileHeader <- Tlv
    Rooms <- Scarce
SPECIFICATION FairSpec
INVARIANTS
    IntactBeforeUnwalked
    AllFramesOrNone
    LosslessExactlyWhenWalked
PROPERTIES
    TransfersFrames
    TransferEnds
CHECK_DEADLOCK FALSE

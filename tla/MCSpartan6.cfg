\* Frames of every small part written and read back, with last words that look
\* like packets, frames of other lengths, and files that end at any byte.
CONSTANTS
    WordsPerFrame = 2
    IdCode <- Id
    Parts <- SmallParts
    FrameMaps <- SmallMaps
    Rooms <- Scarce
SPECIFICATION Spec
INVARIANTS
    LosslessExactlyWhenHarmless
    AllButTailOrNone
    WholeFileIsRead
CHECK_DEADLOCK FALSE

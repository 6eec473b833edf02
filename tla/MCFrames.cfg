\* addMissingFrames over every small part, and readFrames over every file of
\* up to three lines.
CONSTANTS
    WordsPerFrame = 2
    Word <- Words
    Ecc <- FirstWordEcc
    Parts <- AllParts
    FrmFiles <- ShortFiles
SPECIFICATION Spec
INVARIANTS
    TypeOK
    CompleteExactlyWhenWalkable
    FirstLineWins
    NothingLostNothingForeign
PROPERTIES
    WalkAscends
CHECK_DEADLOCK FALSE

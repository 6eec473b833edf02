\* Patches of whole and of partial base bitstreams.
CONSTANTS
    WordsPerFrame = 2
    Word <- Words
    Ecc <- FirstWordEcc
    Parts <- TwoParts
    FrmFiles <- ShortFiles
    IdCode = 5
    Bases <- SmallBases
SPECIFICATION Spec
INVARIANTS
    WritesOverlay
    PatchedExactlyWhenBaseWhole
CHECK_DEADLOCK FALSE

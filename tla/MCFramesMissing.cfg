\* The comment of frames.h on parts built from noncontiguous addresses.
CONSTANTS
    WordsPerFrame = 2
    Word <- Words
    Ecc <- FirstWordEcc
    Parts <- SeenParts
    FrmFiles <- NoFile
SPECIFICATION Spec
INVARIANTS
    AddsEveryMissingFrame
CHECK_DEADLOCK FALSE

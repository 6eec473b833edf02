\* segmatch and correlate_segdata of the same files.
SPECIFICATION SolversSpec
CONSTANTS
    WordBits = 4
    Inputs <- MCInputs
    Flags <- MCFlags
INVARIANTS
    TrueCandidates
    SolvesTheFiles
    LeavesBitsToImplied
    SolversAgree
PROPERTIES
    BothEnd
CHECK_DEADLOCK FALSE

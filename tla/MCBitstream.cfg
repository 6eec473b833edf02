\* Every package of up to three packets in a file that has room for it, and
\* some in files that end at any byte.
CONSTANTS
    AddressSize = 2
    ReservedSize = 2
    CountSize = 2
    FileHeader <- Tlv
    Headers <- DummiesAndSync
    Rooms <- Scarce
    Packages <- AllPackages
SPECIFICATION FairSpec
INVARIANTS
    ReadsWhatWasWritten
    ReadsFirstPart
PROPERTIES
    Ends
CHECK_DEADLOCK FALSE

\* Packages with padding between packets.
CONSTANTS
    AddressSize = 2
    ReservedSize = 2
    CountSize = 2
    FileHeader <- Tlv
    Headers <- DummiesAndSync
    Rooms <- Ample
    Packages <- PaddedPackages
SPECIFICATION Spec
INVARIANTS
    PaddingIsConsumed
CHECK_DEADLOCK FALSE

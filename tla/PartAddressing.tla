--------------------------- MODULE PartAddressing ---------------------------
(***************************************************************************)
(* The frame address space of a part: which frame addresses exist and      *)
(* which address follows a given one.                                      *)
(*                                                                         *)
(* Part, GlobalClockRegion, Row, ConfigurationBus and ConfigurationColumn  *)
(* are nested std::maps in the code.  Here the columns of a part are one   *)
(* function from their keys (block type, half, row, column) to their frame *)
(* counts, and a map of the code is the set of keys that the function has  *)
(* at that level.  The ArchType parameter of the templates is kept with    *)
(* the part, since every tool decides for both at once.                    *)
(*                                                                         *)
(* An absl::optional<FrameAddress> is a set of at most one address.        *)
(***************************************************************************)
EXTENDS Integers, FiniteSetsExt

(***************************************************************************)
(* Series-7 splits a part into two clock regions (halves).  UltraScale and *)
(* UltraScale+ have one map of rows whose top bit is the half; their row   *)
(* number is 32 * half + row.  UltraScale+ has one more bit of minor.  The *)
(* code for Spartan-6 is that of Series-7 with addresses that are never in *)
(* the bottom half.                                                        *)
(***************************************************************************)
Architectures == {"Series7", "UltraScale", "UltraScalePlus", "Spartan6"}

-----------------------------------------------------------------------------

CLB_IO_CLK == 0
BLOCK_RAM  == 1
CFG_CLB    == 2 \* IOB on Spartan-6

\* The minors a column may have, by the width of the minor field.
MinorCount(arch) ==
    CASE arch = "UltraScalePlus" -> 256
      [] arch = "Spartan6"       -> 1024
      [] OTHER                   -> 128

\* The fields of the 32-bit address, each as wide as in any architecture.
FrameAddress == [block : 0..15, half : 0..1, row : 0..31,
                 column : 0..1023, minor : 0..1023]

ColumnKey == [block : 0..15, half : 0..1, row : 0..31, column : 0..1023]

\* A number that orders addresses as std::map<FrameAddress, ...> does.
Packed(a) ==
    (((a.block * 2 + a.half) * 32 + a.row) * 1024 + a.column) * 1024 + a.minor

Address(block, half, row, column, minor) ==
    [block |-> block, half |-> half, row |-> row,
     column |-> column, minor |-> minor]

\* operator uint32_t: the word that is written for an address.
AddressWord(arch, a) ==
    (((a.block * 2 + a.half) * 32 + a.row) * 1024 + a.column) * MinorCount(arch)
        + a.minor

\* Mutant of Unpacked: row and column taken from each other's bits.
UnpackedSwapped(arch, word) ==
    LET key == word \div MinorCount(arch)
    IN Address((key \div 65536) % 8, (key \div 32768) % 2, key % 1024,
               (key \div 1024) % 32, word % MinorCount(arch))

\* FrameAddress(uint32_t): the fields of an address word.  Bits above the
\* block type, which are zero in every address the tools write, are dropped.
Unpacked(arch, word) ==
    LET key == word \div MinorCount(arch)
    IN Address((key \div 65536) % 8, (key \div 32768) % 2, (key \div 1024) % 32,
               key % 1024, word % MinorCount(arch))

ColumnOf(a) == [block |-> a.block, half |-> a.half,
                row |-> a.row, column |-> a.column]

\* FrameAddress(0), where every walk over the addresses starts.
ZeroAddress == Address(0, 0, 0, 0, 0)

\* Equal block_type(), is_bottom_half_rows() and row().
SameRow(a, b) == a.block = b.block /\ a.half = b.half /\ a.row = b.row

\* Whether two frames of padding separate a from its successor, if any.
CrossesRow(a, next) == \E b \in next : ~SameRow(a, b)

\* A part.  A frame count that the minor field cannot address does not make
\* one, nor do columns in the bottom half of a Spartan-6, where the constructor
\* never puts any.
IsPart(part) ==
    /\ part.arch \in Architectures
    /\ DOMAIN part.columns \subseteq ColumnKey
    /\ \A k \in DOMAIN part.columns :
          /\ part.columns[k] \in 0..MinorCount(part.arch)
          /\ part.arch = "Spartan6" => k.half = 0

\* The Part constructor: a column spans minor 0 up to the largest minor given.
PartFromAddresses(arch, addresses) ==
    [arch    |-> arch,
     columns |-> [k \in {ColumnOf(a) : a \in addresses} |->
         Max({a.minor : a \in {b \in addresses : ColumnOf(b) = k}}) + 1]]

-----------------------------------------------------------------------------

\* ++it on a std::map with these keys, from the position of key x.
Following(keys, x) == {y \in keys : y > x /\ \A z \in keys : z > x => y <= z}

\* "if (first) return first;" before the alternative.
FirstOf(first, second) == IF first # {} THEN first ELSE second

IsValidFrameAddress(part, a) ==
    ColumnOf(a) \in DOMAIN part.columns /\ a.minor < part.columns[ColumnOf(a)]

\* The address wrapped as an optional that is present only when it is valid.
IfValid(part, a) == IF IsValidFrameAddress(part, a) THEN {a} ELSE {}

\* Mutant of ColumnNext: one minor too many.
ColumnNextInclusive(part, a) ==
    IF IsValidFrameAddress(part, a) /\ a.minor + 1 <= part.columns[ColumnOf(a)]
    THEN {[a EXCEPT !.minor = @ + 1]}
    ELSE {}

ColumnNext(part, a) ==
    IF IsValidFrameAddress(part, a) /\ a.minor + 1 < part.columns[ColumnOf(a)]
    THEN {[a EXCEPT !.minor = @ + 1]}
    ELSE {}

BusNext(part, a) ==
    LET columns ==
            {k.column : k \in {c \in DOMAIN part.columns : SameRow(c, a)}}
    IN IF a.column \notin columns
       THEN {}
       ELSE FirstOf(ColumnNext(part, a),
                    UNION {IfValid(part,
                                   Address(a.block, a.half, a.row, c, 0)) :
                              c \in Following(columns, a.column)})

\* A row whose buses lack the block type, or whose bus is exhausted, punts.
RowNext(part, a) ==
    IF \E k \in DOMAIN part.columns : SameRow(k, a)
    THEN BusNext(part, a) ELSE {}

\* The next row of the same half, whatever block types that row has.
GlobalClockRegionNext(part, a) ==
    LET rows == {k.row : k \in {c \in DOMAIN part.columns : c.half = a.half}}
    IN IF a.row \notin rows
       THEN {}
       ELSE FirstOf(RowNext(part, a),
                    UNION {IfValid(part,
                                   Address(a.block, a.half, r, 0, 0)) :
                              r \in Following(rows, a.row)})

\* UltraScale: the rows of the whole part are one map.
NumberedRow(k) == 32 * k.half + k.row

RowsNext(part, a) ==
    LET rows == {NumberedRow(k) : k \in DOMAIN part.columns}
    IN FirstOf(RowNext(part, a),
               UNION {IfValid(part,
                              Address(a.block, r \div 32, r % 32, 0, 0)) :
                         r \in Following(rows, NumberedRow(a))})

\* From the top half to the start of the bottom half.
BottomHalfNext(part, a) ==
    IF a.half = 0 THEN IfValid(part, Address(a.block, 1, 0, 0, 0)) ELSE {}

\* Mutants of BlockTypeNext: "<" written as "<=", and the second block type
\* forgotten.
BlockTypeNextInclusive(part, a) ==
    FirstOf(IF a.block <= BLOCK_RAM
            THEN IfValid(part, Address(BLOCK_RAM, 0, 0, 0, 0)) ELSE {},
            IF a.block < CFG_CLB
            THEN IfValid(part, Address(CFG_CLB, 0, 0, 0, 0)) ELSE {})

BlockTypeNextBramOnly(part, a) ==
    IF a.block < BLOCK_RAM
    THEN IfValid(part, Address(BLOCK_RAM, 0, 0, 0, 0)) ELSE {}

\* Block types are next numerically.
BlockTypeNext(part, a) ==
    FirstOf(IF a.block < BLOCK_RAM
            THEN IfValid(part, Address(BLOCK_RAM, 0, 0, 0, 0)) ELSE {},
            IF a.block < CFG_CLB
            THEN IfValid(part, Address(CFG_CLB, 0, 0, 0, 0)) ELSE {})

Series7Next(part, a) ==
    FirstOf(GlobalClockRegionNext(part, a),
            FirstOf(BottomHalfNext(part, a), BlockTypeNext(part, a)))

UltraScaleNext(part, a) ==
    IF NumberedRow(a) \notin {NumberedRow(k) : k \in DOMAIN part.columns}
    THEN {}
    ELSE FirstOf(RowsNext(part, a), BlockTypeNext(part, a))

\* Spartan-6 has no bit for the half: the address made for the start of the
\* bottom half is one of the top half.
Spartan6BottomNext(part, a) ==
    IF IsValidFrameAddress(part, Address(a.block, 1, 0, 0, 0))
    THEN {Address(a.block, 0, 0, 0, 0)} ELSE {}

Spartan6Next(part, a) ==
    FirstOf(GlobalClockRegionNext(part, a),
            FirstOf(Spartan6BottomNext(part, a), BlockTypeNext(part, a)))

GetNextFrameAddress(part, a) ==
    CASE part.arch = "Series7"  -> Series7Next(part, a)
      [] part.arch = "Spartan6" -> Spartan6Next(part, a)
      [] OTHER                  -> UltraScaleNext(part, a)

-----------------------------------------------------------------------------

\* The addresses a part has.
ValidAddresses(part) ==
    UNION {{Address(k.block, k.half, k.row, k.column, m) :
               m \in 0..part.columns[k] - 1} : k \in DOMAIN part.columns}

\* The addresses that the walk from address zero comes by.
WalkedAddresses(part) ==
    LET Further(before) ==
            before \union UNION {GetNextFrameAddress(part, a) : a \in before}
        walked[n \in Nat] ==
            IF n = 0 THEN {ZeroAddress}
            ELSE UNION {Further(before) : before \in {walked[n - 1]}}
    IN walked[Cardinality(ValidAddresses(part))]

=============================================================================

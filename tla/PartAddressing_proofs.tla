------------------------ MODULE PartAddressing_proofs ------------------------
(***************************************************************************)
(* What GetNextFrameAddress returns, for every part and every address.     *)
(***************************************************************************)
EXTENDS PartAddressing, FiniteSetTheorems, WellFoundedInduction, TLAPS

-----------------------------------------------------------------------------
(***************************************************************************)
(* The numeric order of addresses is the lexicographic order of the fields *)
(* block type, numbered row (half and row), column and minor.              *)
(***************************************************************************)
Precedes(a, b) ==
    \/ a.block < b.block
    \/ a.block = b.block /\ NumberedRow(a) < NumberedRow(b)
    \/ /\ a.block = b.block /\ NumberedRow(a) = NumberedRow(b)
       /\ a.column < b.column
    \/ /\ a.block = b.block /\ NumberedRow(a) = NumberedRow(b)
       /\ a.column = b.column /\ a.minor < b.minor

\* An address that precedes another one is less as a word.
LEMMA PackedOrder ==
    ASSUME NEW a \in FrameAddress, NEW b \in FrameAddress, Precedes(a, b)
    PROVE  Packed(a) < Packed(b)
<1> DEFINE b1 == a.block  h1 == a.half  w1 == a.row
           c1 == a.column  m1 == a.minor
           b2 == b.block  h2 == b.half  w2 == b.row
           c2 == b.column  m2 == b.minor
<1>1. /\ b1 \in 0..15 /\ h1 \in 0..1 /\ w1 \in 0..31
      /\ c1 \in 0..1023 /\ m1 \in 0..1023
  BY SMT DEF FrameAddress
<1>2. /\ b2 \in 0..15 /\ h2 \in 0..1 /\ w2 \in 0..31
      /\ c2 \in 0..1023 /\ m2 \in 0..1023
  BY SMT DEF FrameAddress
<1>3. \/ b1 < b2
      \/ b1 = b2 /\ 32 * h1 + w1 < 32 * h2 + w2
      \/ b1 = b2 /\ 32 * h1 + w1 = 32 * h2 + w2 /\ c1 < c2
      \/ b1 = b2 /\ 32 * h1 + w1 = 32 * h2 + w2 /\ c1 = c2 /\ m1 < m2
  BY DEF Precedes, NumberedRow
<1>4. /\ Packed(a) = (((b1 * 2 + h1) * 32 + w1) * 1024 + c1) * 1024 + m1
      /\ Packed(b) = (((b2 * 2 + h2) * 32 + w2) * 1024 + c2) * 1024 + m2
  BY DEF Packed
<1> HIDE DEF b1, h1, w1, c1, m1, b2, h2, w2, c2, m2
<1>5. (((b1 * 2 + h1) * 32 + w1) * 1024 + c1) * 1024 + m1
          < (((b2 * 2 + h2) * 32 + w2) * 1024 + c2) * 1024 + m2
  BY <1>1, <1>2, <1>3, SMT
<1>6. QED
  BY <1>4, <1>5

-----------------------------------------------------------------------------

\* What every optional address returned below satisfies.
Follows(part, a, n) ==
    /\ n \in FrameAddress
    /\ IsValidFrameAddress(part, n)
    /\ Precedes(a, n)

\* The next address in the column or in the next column follows.
LEMMA ColumnNextFollows ==
    ASSUME NEW part, IsPart(part), NEW a \in FrameAddress,
           NEW n \in ColumnNext(part, a)
    PROVE  Follows(part, a, n)
<1>1. /\ ColumnOf(a) \in DOMAIN part.columns
      /\ a.minor + 1 < part.columns[ColumnOf(a)]
      /\ n = [a EXCEPT !.minor = a.minor + 1]
  BY DEF ColumnNext, IsValidFrameAddress
<1>0. a.minor + 1 < part.columns[ColumnOf(a)]
  BY <1>1
<1>2. part.columns[ColumnOf(a)] \in 0..MinorCount(part.arch)
  BY <1>1 DEF IsPart
<1>3. MinorCount(part.arch) \in {128, 256, 1024}
  BY DEF MinorCount
<1>4. n \in FrameAddress
  <2> DEFINE minor == a.minor
             count == part.columns[ColumnOf(a)]
             limit == MinorCount(part.arch)
  <2>1. minor \in 0..1023
    BY SMT DEF FrameAddress
  <2>2. count \in 0..limit /\ limit \in {128, 256, 1024} /\ minor + 1 < count
    BY <1>0, <1>2, <1>3
  <2>3. n = [a EXCEPT !.minor = minor + 1]
    BY <1>1
  <2> HIDE DEF minor, count, limit
  <2>4. minor + 1 \in 0..1023
    BY <2>1, <2>2, SMT
  <2>5. QED
    BY <2>3, <2>4, SMT DEF FrameAddress
<1>5. ColumnOf(n) = ColumnOf(a) /\ n.minor = a.minor + 1
  BY <1>1 DEF ColumnOf, FrameAddress
<1>6. Precedes(a, n)
  BY <1>1, <1>3 DEF Precedes, NumberedRow, FrameAddress
<1>7. QED
  BY <1>1, <1>4, <1>5, <1>6 DEF Follows, IsValidFrameAddress

\* The next address in the bus follows.
LEMMA BusNextFollows ==
    ASSUME NEW part, IsPart(part), NEW a \in FrameAddress,
           NEW n \in BusNext(part, a)
    PROVE  Follows(part, a, n)
<1> DEFINE columns ==
      {k.column : k \in {c \in DOMAIN part.columns : SameRow(c, a)}}
<1>1. \/ n \in ColumnNext(part, a)
      \/ \E c \in Following(columns, a.column) :
            n \in IfValid(part, Address(a.block, a.half, a.row, c, 0))
  BY DEF BusNext, FirstOf
<1>2. CASE n \in ColumnNext(part, a)
  BY <1>2, ColumnNextFollows
<1>3. ASSUME NEW c \in Following(columns, a.column),
             n \in IfValid(part, Address(a.block, a.half, a.row, c, 0))
      PROVE  Follows(part, a, n)
  <2>1. /\ n = Address(a.block, a.half, a.row, c, 0)
        /\ IsValidFrameAddress(part, n)
    BY <1>3 DEF IfValid
  <2>2. c \in 0..1023 /\ c > a.column
    BY DEF Following, IsPart, ColumnKey
  <2>3. 0 \in 0..1023
    OBVIOUS
  <2>4. n \in FrameAddress
    BY <2>1, <2>2, <2>3 DEF Address, FrameAddress
  <2>5. /\ n.block = a.block /\ n.half = a.half /\ n.row = a.row
        /\ n.column = c
    BY <2>1 DEF Address
  <2>6. Precedes(a, n)
    <3>1. n.column > a.column
      BY <2>2, <2>5
    <3>2. NumberedRow(n) = NumberedRow(a)
      BY <2>5 DEF NumberedRow
    <3>3. QED
      BY <2>5, <3>1, <3>2, a.column < n.column DEF Precedes
  <2>7. QED
    BY <2>1, <2>4, <2>6 DEF Follows
<1>4. QED
  BY <1>1, <1>2, <1>3

\* The next address in the row follows.
LEMMA RowNextFollows ==
    ASSUME NEW part, IsPart(part), NEW a \in FrameAddress,
           NEW n \in RowNext(part, a)
    PROVE  Follows(part, a, n)
BY BusNextFollows DEF RowNext

\* An address at the start of a row, a half or a block type.
LEMMA StartFollows ==
    ASSUME NEW part, NEW a \in FrameAddress,
           NEW block \in 0..15, NEW half \in 0..1, NEW row \in 0..31,
           NEW n \in IfValid(part, Address(block, half, row, 0, 0)),
           \/ block > a.block
           \/ block = a.block /\ 32 * half + row > NumberedRow(a)
    PROVE  Follows(part, a, n)
<1>1. /\ n = Address(block, half, row, 0, 0)
      /\ IsValidFrameAddress(part, n)
  BY DEF IfValid
<1>2. 0 \in 0..1023
  OBVIOUS
<1>3. n \in FrameAddress
  BY <1>1, <1>2 DEF Address, FrameAddress
<1>4. n.block = block /\ n.half = half /\ n.row = row
  BY <1>1 DEF Address
<1>5. Precedes(a, n)
  BY <1>4 DEF Precedes, NumberedRow
<1>6. QED
  BY <1>1, <1>3, <1>5 DEF Follows

\* The next address in the half of the part follows.
LEMMA GlobalClockRegionNextFollows ==
    ASSUME NEW part, IsPart(part), NEW a \in FrameAddress,
           NEW n \in GlobalClockRegionNext(part, a)
    PROVE  Follows(part, a, n)
<1> DEFINE rows == {k.row : k \in {c \in DOMAIN part.columns : c.half = a.half}}
<1>1. \/ n \in RowNext(part, a)
      \/ \E r \in Following(rows, a.row) :
            n \in IfValid(part, Address(a.block, a.half, r, 0, 0))
  BY DEF GlobalClockRegionNext, FirstOf
<1>2. CASE n \in RowNext(part, a)
  BY <1>2, RowNextFollows
<1>3. ASSUME NEW r \in Following(rows, a.row),
             n \in IfValid(part, Address(a.block, a.half, r, 0, 0))
      PROVE  Follows(part, a, n)
  <2>1. r \in 0..31 /\ r > a.row
    BY DEF Following, IsPart, ColumnKey
  <2>2. /\ a.block \in 0..15 /\ a.half \in 0..1 /\ a.row \in 0..31
        /\ 32 * a.half + r > NumberedRow(a)
    BY <2>1 DEF FrameAddress, NumberedRow
  <2>3. QED
    BY <1>3, <2>1, <2>2, StartFollows
<1>4. QED
  BY <1>1, <1>2, <1>3

\* The next address in the rows follows.
LEMMA RowsNextFollows ==
    ASSUME NEW part, IsPart(part), NEW a \in FrameAddress,
           NEW n \in RowsNext(part, a)
    PROVE  Follows(part, a, n)
<1> DEFINE rows == {NumberedRow(k) : k \in DOMAIN part.columns}
<1>1. \/ n \in RowNext(part, a)
      \/ \E r \in Following(rows, NumberedRow(a)) :
            n \in IfValid(part, Address(a.block, r \div 32, r % 32, 0, 0))
  BY DEF RowsNext, FirstOf
<1>2. CASE n \in RowNext(part, a)
  BY <1>2, RowNextFollows
<1>3. ASSUME NEW r \in Following(rows, NumberedRow(a)),
             n \in IfValid(part, Address(a.block, r \div 32, r % 32, 0, 0))
      PROVE  Follows(part, a, n)
  <2>1. r > NumberedRow(a)
    BY DEF Following
  <2>2. PICK k \in ColumnKey : r = NumberedRow(k)
    BY DEF Following, IsPart
  <2>3. PICK h \in 0..1, q \in 0..31 : k.half = h /\ k.row = q
    BY DEF ColumnKey
  <2>4. r = 32 * h + q
    BY <2>2, <2>3 DEF NumberedRow
  <2>5. r \div 32 = h /\ r % 32 = q
    <3>1. CASE h = 0
      BY <2>4, <3>1
    <3>2. CASE h = 1
      BY <2>4, <3>2
    <3>3. QED
      BY <3>1, <3>2
  <2>6. a.block \in 0..15
    BY DEF FrameAddress
  <2>7. n \in IfValid(part, Address(a.block, h, q, 0, 0))
    BY <1>3, <2>5
  <2>8. 32 * h + q > NumberedRow(a)
    BY <2>1, <2>4
  <2>9. QED
    BY <2>6, <2>7, <2>8, StartFollows
<1>4. QED
  BY <1>1, <1>2, <1>3

\* The next address of the block type follows.
LEMMA BlockTypeNextFollows ==
    ASSUME NEW part, NEW a \in FrameAddress,
           NEW n \in BlockTypeNext(part, a)
    PROVE  Follows(part, a, n)
<1>1. \/ a.block < 1 /\ n \in IfValid(part, Address(1, 0, 0, 0, 0))
      \/ a.block < 2 /\ n \in IfValid(part, Address(2, 0, 0, 0, 0))
  BY DEF BlockTypeNext, FirstOf, BLOCK_RAM, CFG_CLB
<1>2. 0 \in 0..1 /\ 0 \in 0..31 /\ 1 \in 0..15 /\ 2 \in 0..15
  OBVIOUS
<1>3. a.block \in 0..15
  BY DEF FrameAddress
<1>4. CASE a.block < 1 /\ n \in IfValid(part, Address(1, 0, 0, 0, 0))
  <2> DEFINE block == 1
  <2>1. block \in 0..15 /\ block > a.block
    BY <1>3, <1>4
  <2>2. n \in IfValid(part, Address(block, 0, 0, 0, 0))
    BY <1>4
  <2> HIDE DEF block
  <2>3. QED
    BY <1>2, <2>1, <2>2, StartFollows
<1>5. CASE a.block < 2 /\ n \in IfValid(part, Address(2, 0, 0, 0, 0))
  <2> DEFINE block == 2
  <2>1. block \in 0..15 /\ block > a.block
    BY <1>3, <1>5
  <2>2. n \in IfValid(part, Address(block, 0, 0, 0, 0))
    BY <1>5
  <2> HIDE DEF block
  <2>3. QED
    BY <1>2, <2>1, <2>2, StartFollows
<1>6. QED
  BY <1>1, <1>4, <1>5

\* A Spartan-6 part has no bottom half to go on in, so that the walk is not
\* sent back to the start of the block type.
LEMMA NoBottomOnSpartan6 ==
    ASSUME NEW part, IsPart(part), part.arch = "Spartan6", NEW a
    PROVE  Spartan6BottomNext(part, a) = {}
<1> DEFINE start == Address(a.block, 1, 0, 0, 0)
<1>1. ColumnOf(start).half = 1
  BY DEF Address, ColumnOf
<1>2. ColumnOf(start) \notin DOMAIN part.columns
  BY <1>1 DEF IsPart
<1>3. QED
  BY <1>2 DEF Spartan6BottomNext, IsValidFrameAddress

(***************************************************************************)
(* The address GetNextFrameAddress returns is one the part has, and it is  *)
(* numerically greater than the address asked about, whether or not that   *)
(* one is in the part.  Every loop of the tools that follows next          *)
(* addresses (addMissingFrames, the FDRI loop) rests on this.              *)
(***************************************************************************)
THEOREM NextIsValidAndGreater ==
    ASSUME NEW part, IsPart(part), NEW a \in FrameAddress,
           NEW n \in GetNextFrameAddress(part, a)
    PROVE  /\ n \in FrameAddress
           /\ IsValidFrameAddress(part, n)
           /\ Packed(a) < Packed(n)
<1>1. Follows(part, a, n)
  <2>1. CASE part.arch = "Series7"
    <3>1. \/ n \in GlobalClockRegionNext(part, a)
          \/ n \in BottomHalfNext(part, a)
          \/ n \in BlockTypeNext(part, a)
      BY <2>1 DEF GetNextFrameAddress, Series7Next, FirstOf
    <3>2. CASE n \in BottomHalfNext(part, a)
      <4>1. /\ a.half = 0 /\ a.block \in 0..15 /\ a.row \in 0..31
            /\ n \in IfValid(part, Address(a.block, 1, 0, 0, 0))
        BY <3>2 DEF BottomHalfNext, FrameAddress
      <4>2. 1 \in 0..1 /\ 0 \in 0..31 /\ 32 * 1 + 0 > NumberedRow(a)
        BY <4>1 DEF NumberedRow
      <4>3. QED
        BY <4>1, <4>2, StartFollows
    <3>3. QED
      BY <3>1, <3>2, GlobalClockRegionNextFollows, BlockTypeNextFollows
  <2>2. CASE part.arch = "Spartan6"
    <3>1. Spartan6BottomNext(part, a) = {}
      BY <2>2, NoBottomOnSpartan6
    <3>2. GetNextFrameAddress(part, a) = Spartan6Next(part, a)
      BY <2>2 DEF GetNextFrameAddress
    <3>3. n \in GlobalClockRegionNext(part, a) \/ n \in BlockTypeNext(part, a)
      BY <3>1, <3>2 DEF Spartan6Next, FirstOf
    <3>4. QED
      BY <3>3, GlobalClockRegionNextFollows, BlockTypeNextFollows
  <2>3. CASE part.arch \notin {"Series7", "Spartan6"}
    <3>1. n \in RowsNext(part, a) \/ n \in BlockTypeNext(part, a)
      BY <2>3 DEF GetNextFrameAddress, UltraScaleNext, FirstOf
    <3>2. QED
      BY <3>1, RowsNextFollows, BlockTypeNextFollows
  <2>4. QED
    BY <2>1, <2>2, <2>3
<1>2. QED
  BY <1>1, PackedOrder DEF Follows

-----------------------------------------------------------------------------

\* Address zero is a frame address.
LEMMA ZeroIsAddress == ZeroAddress \in FrameAddress
<1>2. 0 \in 0..15 /\ 0 \in 0..1 /\ 0 \in 0..31 /\ 0 \in 0..1023
  OBVIOUS
<1>3. 0 \in 0..1023
  OBVIOUS
<1>4. QED
  BY <1>2, <1>3 DEF ZeroAddress, Address, FrameAddress

\* A set that is an optional.
IsOptional(set) == \A x \in set, y \in set : x = y

\* What the walk is made of gives at most one address.
LEMMA OptionalOperators ==
    ASSUME NEW part, NEW a, NEW first, NEW second
    PROVE  /\ IsOptional(IfValid(part, a))
           /\ IsOptional(first) /\ IsOptional(second) =>
                  IsOptional(FirstOf(first, second))
           /\ IsOptional({})
  BY DEF IsOptional, IfValid, FirstOf

\* There is at most one least key after a number.
LEMMA FollowingIsOptional ==
    ASSUME NEW keys \in SUBSET Int, NEW x \in Int
    PROVE  IsOptional(Following(keys, x))
<1>1. SUFFICES ASSUME NEW y \in Following(keys, x), NEW z \in Following(keys, x)
               PROVE  y = z
  BY DEF IsOptional
<1>2. y \in Int /\ z \in Int /\ y <= z /\ z <= y
  BY DEF Following
<1>3. QED
  BY <1>2

\* The row gives at most one address.
LEMMA RowNextIsOptional ==
    ASSUME NEW part, IsPart(part), NEW a \in FrameAddress
    PROVE  IsOptional(RowNext(part, a))
<1> DEFINE columns ==
      {k.column : k \in {c \in DOMAIN part.columns : SameRow(c, a)}}
<1>1. columns \in SUBSET Int /\ a.column \in Int
  <2>1. \A k \in DOMAIN part.columns : k \in ColumnKey
    BY Zenon DEF IsPart
  <2>2. \A k \in ColumnKey : k.column \in Int
    BY SMT DEF ColumnKey
  <2>3. \A k \in DOMAIN part.columns : k.column \in Int
    BY <2>1, <2>2, Zenon
  <2>4. a.column \in Int
    BY SMT DEF FrameAddress
  <2>5. QED
    BY <2>3, <2>4, Zenon
<1>2. IsOptional(Following(columns, a.column))
  BY <1>1, FollowingIsOptional
<1> HIDE DEF columns
<1>3. IsOptional(UNION {IfValid(part, Address(a.block, a.half, a.row, c, 0)) :
                           c \in Following(columns, a.column)})
  BY <1>2, OptionalOperators DEF IsOptional
<1>4. IsOptional(ColumnNext(part, a))
  BY DEF IsOptional, ColumnNext
<1>5. IsOptional(FirstOf(ColumnNext(part, a),
          UNION {IfValid(part, Address(a.block, a.half, a.row, c, 0)) :
                    c \in Following(columns, a.column)}))
  BY <1>3, <1>4, OptionalOperators
<1>6. IsOptional(BusNext(part, a))
  BY <1>5, OptionalOperators DEF BusNext, columns
<1>7. QED
  BY <1>6, OptionalOperators DEF RowNext

\* The half of the part gives at most one address.
LEMMA GlobalClockRegionNextIsOptional ==
    ASSUME NEW part, IsPart(part), NEW a \in FrameAddress
    PROVE  IsOptional(GlobalClockRegionNext(part, a))
<1> DEFINE rows == {k.row : k \in {c \in DOMAIN part.columns : c.half = a.half}}
<1>1. rows \in SUBSET Int /\ a.row \in Int
  BY DEF IsPart, ColumnKey, FrameAddress
<1>2. IsOptional(Following(rows, a.row))
  BY <1>1, FollowingIsOptional
<1> HIDE DEF rows
<1>3. IsOptional(UNION {IfValid(part, Address(a.block, a.half, r, 0, 0)) :
                           r \in Following(rows, a.row)})
  BY <1>2, OptionalOperators DEF IsOptional
<1>4. IsOptional(FirstOf(RowNext(part, a),
          UNION {IfValid(part, Address(a.block, a.half, r, 0, 0)) :
                    r \in Following(rows, a.row)}))
  BY <1>3, RowNextIsOptional, OptionalOperators
<1>5. QED
  BY <1>4, OptionalOperators DEF GlobalClockRegionNext, rows

\* The rows give at most one address.
LEMMA RowsNextIsOptional ==
    ASSUME NEW part, IsPart(part), NEW a \in FrameAddress
    PROVE  IsOptional(RowsNext(part, a))
<1> DEFINE rows == {NumberedRow(k) : k \in DOMAIN part.columns}
<1>1. rows \in SUBSET Int /\ NumberedRow(a) \in Int
  BY DEF IsPart, ColumnKey, FrameAddress, NumberedRow
<1>2. IsOptional(Following(rows, NumberedRow(a)))
  BY <1>1, FollowingIsOptional
<1> HIDE DEF rows
<1>3. IsOptional(UNION {IfValid(part, Address(a.block, r \div 32, r % 32, 0, 0)) :
                           r \in Following(rows, NumberedRow(a))})
  BY <1>2, OptionalOperators DEF IsOptional
<1>4. QED
  BY <1>3, RowNextIsOptional, OptionalOperators DEF RowsNext, rows

(***************************************************************************)
(* GetNextFrameAddress returns an optional: at most one address.           *)
(***************************************************************************)
THEOREM NextIsOptional ==
    ASSUME NEW part, IsPart(part), NEW a \in FrameAddress
    PROVE  IsOptional(GetNextFrameAddress(part, a))
<1>1. IsOptional(BlockTypeNext(part, a))
  BY OptionalOperators DEF BlockTypeNext
<1>2. IsOptional(BottomHalfNext(part, a))
  BY OptionalOperators DEF BottomHalfNext
<1>3. IsOptional(Series7Next(part, a))
  <2>1. IsOptional(FirstOf(BottomHalfNext(part, a), BlockTypeNext(part, a)))
    BY <1>1, <1>2, OptionalOperators
  <2>2. QED
    BY <2>1, GlobalClockRegionNextIsOptional, OptionalOperators DEF Series7Next
<1>4. IsOptional(UltraScaleNext(part, a))
  BY <1>1, RowsNextIsOptional, OptionalOperators DEF UltraScaleNext
<1>5. IsOptional(Spartan6Next(part, a))
  <2>1. IsOptional(Spartan6BottomNext(part, a))
    BY DEF Spartan6BottomNext, IsOptional
  <2>2. IsOptional(FirstOf(Spartan6BottomNext(part, a), BlockTypeNext(part, a)))
    BY <1>1, <2>1, OptionalOperators
  <2>3. QED
    BY <2>2, GlobalClockRegionNextIsOptional, OptionalOperators DEF Spartan6Next
<1>6. QED
  <2>1. \/ GetNextFrameAddress(part, a) = Series7Next(part, a)
        \/ GetNextFrameAddress(part, a) = Spartan6Next(part, a)
        \/ GetNextFrameAddress(part, a) = UltraScaleNext(part, a)
    BY DEF GetNextFrameAddress
  <2>2. QED
    BY <1>3, <1>4, <1>5, <2>1

-----------------------------------------------------------------------------

\* The addresses of a part, listed and tested.
LEMMA ListedIsValid ==
    ASSUME NEW chip, IsPart(chip), NEW a \in FrameAddress
    PROVE  a \in ValidAddresses(chip) <=> IsValidFrameAddress(chip, a)
<1>1. ASSUME IsValidFrameAddress(chip, a) PROVE a \in ValidAddresses(chip)
  <2>1. /\ ColumnOf(a) \in DOMAIN chip.columns
        /\ a.minor < chip.columns[ColumnOf(a)]
    BY <1>1 DEF IsValidFrameAddress
  <2>2. /\ chip.columns[ColumnOf(a)] \in 0..MinorCount(chip.arch)
        /\ a.minor \in 0..1023
    BY <2>1 DEF IsPart, FrameAddress
  <2>3. MinorCount(chip.arch) \in {128, 256, 1024}
    BY DEF MinorCount
  <2>4. a.minor \in 0..chip.columns[ColumnOf(a)] - 1
    <3> DEFINE count == chip.columns[ColumnOf(a)]
               limit == MinorCount(chip.arch)
               minor == a.minor
    <3>1. /\ count \in 0..limit /\ limit \in {128, 256, 1024}
          /\ minor \in 0..1023 /\ minor < count
      BY <2>1, <2>2, <2>3
    <3> HIDE DEF count, limit, minor
    <3>2. minor \in 0..count - 1
      BY <3>1, SMT
    <3>3. QED
      BY <3>2 DEF count, minor
  <2>5. a = Address(ColumnOf(a).block, ColumnOf(a).half, ColumnOf(a).row,
                    ColumnOf(a).column, a.minor)
    BY DEF FrameAddress, Address, ColumnOf
  <2>6. QED
    BY <2>1, <2>4, <2>5 DEF ValidAddresses
<1>2. ASSUME a \in ValidAddresses(chip) PROVE IsValidFrameAddress(chip, a)
  <2>1. PICK k \in DOMAIN chip.columns : \E m \in 0..chip.columns[k] - 1 :
          a = Address(k.block, k.half, k.row, k.column, m)
    BY <1>2 DEF ValidAddresses
  <2>2. PICK m \in 0..chip.columns[k] - 1 :
          a = Address(k.block, k.half, k.row, k.column, m)
    BY <2>1
  <2>3. /\ k \in ColumnKey
        /\ chip.columns[k] \in 0..MinorCount(chip.arch)
        /\ MinorCount(chip.arch) \in Nat
    BY DEF IsPart, MinorCount
  <2>4. ColumnOf(a) = k /\ a.minor = m
    BY <2>2, <2>3 DEF Address, ColumnOf, ColumnKey
  <2>5. m < chip.columns[k]
    BY <2>3
  <2>6. QED
    BY <2>4, <2>5 DEF IsValidFrameAddress
<1>3. QED
  BY <1>1, <1>2

\* The addresses of a part are addresses.
LEMMA ValidAreAddresses ==
    ASSUME NEW chip, IsPart(chip)
    PROVE  ValidAddresses(chip) \subseteq FrameAddress
<1>1. SUFFICES
        ASSUME NEW k \in DOMAIN chip.columns, NEW m \in 0..chip.columns[k] - 1
        PROVE  Address(k.block, k.half, k.row, k.column, m) \in FrameAddress
  BY DEF ValidAddresses
<1>2. /\ k \in ColumnKey
      /\ chip.columns[k] \in 0..MinorCount(chip.arch)
      /\ MinorCount(chip.arch) \in {128, 256, 1024}
  BY DEF IsPart, MinorCount
<1> DEFINE count == chip.columns[k]
           limit == MinorCount(chip.arch)
<1>3. m \in 0..1023
  <2>1. count \in 0..limit /\ limit \in {128, 256, 1024} /\ m \in 0..count - 1
    BY <1>2
  <2> HIDE DEF count, limit
  <2> QED
    BY <2>1
<1> QED
  BY <1>2, <1>3 DEF ColumnKey, Address, FrameAddress

-----------------------------------------------------------------------------

\* A set of numbers has a least one.
LEMMA NatLeast ==
    ASSUME NEW T, T \subseteq Nat, T # {}
    PROVE  \E x \in T : \A y \in T : x <= y
<1> DEFINE R == OpToRel(<, Nat)
<1>1. \E x \in T : \A y \in T : ~ (<<y, x>> \in R)
  <2>1. IsWellFoundedOn(R, Nat)
    BY NatLessThanWellFounded
  <2> HIDE DEF R
  <2>2. QED
    BY <2>1, WFMin
<1>2. \A x, y \in Nat : x < y => <<x, y>> \in R
  BY DEF OpToRel
<1> HIDE DEF R
<1>3. PICK x \in T : \A y \in T : ~ (<<y, x>> \in R)
  BY <1>1
<1>4. ASSUME NEW y \in T PROVE x <= y
  <2>1. x \in Nat /\ y \in Nat
    OBVIOUS
  <2>2. ~(y < x)
    BY <1>2, <1>3, <2>1
  <2>3. QED
    BY <2>1, <2>2
<1>5. QED
  BY <1>4

\* The fields of an address, and its number in the order of the rows.
LEMMA Fields ==
    ASSUME NEW a \in FrameAddress
    PROVE  /\ a.block \in 0..15 /\ a.half \in 0..1 /\ a.row \in 0..31
           /\ a.column \in 0..1023 /\ a.minor \in 0..1023
           /\ NumberedRow(a) = 32 * a.half + a.row
           /\ NumberedRow(a) \in 0..63
<1>1. /\ a.block \in 0..15 /\ a.half \in 0..1 /\ a.row \in 0..31
      /\ a.column \in 0..1023 /\ a.minor \in 0..1023
  BY DEF FrameAddress
<1>2. NumberedRow(a) = 32 * a.half + a.row
  BY DEF NumberedRow
<1>3. \A h \in 0..1, r \in 0..31 : 32 * h + r \in 0..63
  OBVIOUS
<1>4. NumberedRow(a) \in 0..63
  BY <1>1, <1>2, <1>3
<1> QED
  BY <1>1, <1>2, <1>4

\* The fields are numbers.
LEMMA FieldsAreNat ==
    ASSUME NEW a \in FrameAddress
    PROVE  /\ a.block \in Nat /\ a.half \in Nat /\ a.row \in Nat
           /\ a.column \in Nat /\ a.minor \in Nat /\ NumberedRow(a) \in Nat
<1> DEFINE b == a.block  h == a.half  r == a.row  c == a.column  m == a.minor
           n == NumberedRow(a)
<1>1. /\ b \in 0..15 /\ h \in 0..1 /\ r \in 0..31
      /\ c \in 0..1023 /\ m \in 0..1023 /\ n \in 0..63
  BY Fields
<1> HIDE DEF b, h, r, c, m, n
<1>2. b \in Nat /\ h \in Nat /\ r \in Nat /\ c \in Nat /\ m \in Nat /\ n \in Nat
  BY <1>1
<1> QED
  BY <1>2 DEF b, h, r, c, m, n

\* Two addresses with the same fields are one.
LEMMA SameFields ==
    ASSUME NEW a \in FrameAddress, NEW b \in FrameAddress,
           SameRow(a, b), a.column = b.column, a.minor = b.minor
    PROVE  a = b
BY DEF FrameAddress, SameRow

\* Rows with the same number are one.
LEMMA SameNumber ==
    ASSUME NEW a \in FrameAddress, NEW b \in FrameAddress,
           NumberedRow(a) = NumberedRow(b)
    PROVE  a.half = b.half /\ a.row = b.row
<1>1. \A h1, h2 \in 0..1, r1, r2 \in 0..31 :
         32 * h1 + r1 = 32 * h2 + r2 => h1 = h2 /\ r1 = r2
  OBVIOUS
<1> QED
  BY <1>1, Fields

\* Of two addresses one precedes the other.
LEMMA PrecedesIsTotal ==
    ASSUME NEW a \in FrameAddress, NEW b \in FrameAddress, a # b
    PROVE  Precedes(a, b) \/ Precedes(b, a)
<1>1. \/ a.block # b.block \/ NumberedRow(a) # NumberedRow(b)
      \/ a.column # b.column \/ a.minor # b.minor
  BY SameFields, SameNumber DEF SameRow
<1>2. /\ a.block \in Nat /\ b.block \in Nat
      /\ NumberedRow(a) \in Nat /\ NumberedRow(b) \in Nat
      /\ a.column \in Nat /\ b.column \in Nat
      /\ a.minor \in Nat /\ b.minor \in Nat
  BY FieldsAreNat, Zenon
<1> DEFINE b1 == a.block  n1 == NumberedRow(a)  c1 == a.column  m1 == a.minor
           b2 == b.block  n2 == NumberedRow(b)  c2 == b.column  m2 == b.minor
<1>3. /\ b1 \in Nat /\ b2 \in Nat /\ n1 \in Nat /\ n2 \in Nat
      /\ c1 \in Nat /\ c2 \in Nat /\ m1 \in Nat /\ m2 \in Nat
      /\ b1 # b2 \/ n1 # n2 \/ c1 # c2 \/ m1 # m2
  BY <1>1, <1>2
<1>4. /\ Precedes(a, b) <=>
             \/ b1 < b2
             \/ b1 = b2 /\ n1 < n2
             \/ b1 = b2 /\ n1 = n2 /\ c1 < c2
             \/ b1 = b2 /\ n1 = n2 /\ c1 = c2 /\ m1 < m2
      /\ Precedes(b, a) <=>
             \/ b2 < b1
             \/ b2 = b1 /\ n2 < n1
             \/ b2 = b1 /\ n2 = n1 /\ c2 < c1
             \/ b2 = b1 /\ n2 = n1 /\ c2 = c1 /\ m2 < m1
  BY DEF Precedes
<1> HIDE DEF b1, n1, c1, m1, b2, n2, c2, m2
<1> QED
  BY <1>3, <1>4

\* An address is a number.
LEMMA PackedIsNat ==
    ASSUME NEW a \in FrameAddress
    PROVE  Packed(a) \in Nat /\ Packed(a) <= 16 * 2 * 32 * 1024 * 1024
<1> DEFINE b == a.block  h == a.half  r == a.row  c == a.column  m == a.minor
<1>1. /\ b \in 0..15 /\ h \in 0..1 /\ r \in 0..31
      /\ c \in 0..1023 /\ m \in 0..1023
  BY Fields
<1>2. Packed(a) = (((b * 2 + h) * 32 + r) * 1024 + c) * 1024 + m
  BY DEF Packed
<1> HIDE DEF b, h, r, c, m
<1> QED
  BY <1>1, <1>2

\* The words order the addresses as their fields do.
LEMMA PackedPrecedes ==
    ASSUME NEW a \in FrameAddress, NEW b \in FrameAddress
    PROVE  Precedes(a, b) <=> Packed(a) < Packed(b)
<1>1. Precedes(a, b) => Packed(a) < Packed(b)
  BY PackedOrder
<1>2. Precedes(b, a) => Packed(b) < Packed(a)
  BY PackedOrder
<1>3. Packed(a) \in Nat /\ Packed(b) \in Nat
  BY PackedIsNat
<1> QED
  BY <1>1, <1>2, <1>3, PrecedesIsTotal

\* Different addresses are different words.
LEMMA PackedIsOne ==
    ASSUME NEW a \in FrameAddress, NEW b \in FrameAddress, Packed(a) = Packed(b)
    PROVE  a = b
<1>1. Packed(a) \in Nat /\ Packed(b) \in Nat
  BY PackedIsNat
<1>2. ~(Packed(a) < Packed(b)) /\ ~(Packed(b) < Packed(a))
  BY <1>1
<1>3. QED
  BY <1>2, PrecedesIsTotal, PackedPrecedes

\* Some set of addresses has a first one.
LEMMA FirstAddress ==
    ASSUME NEW S, S \subseteq FrameAddress, S # {}
    PROVE  \E a \in S : \A b \in S : ~Precedes(b, a)
<1> DEFINE T == {Packed(a) : a \in S}
<1>1. T \subseteq Nat /\ T # {}
  BY PackedIsNat
<1> HIDE DEF T
<1>2. PICK x \in T : \A y \in T : x <= y
  BY <1>1, NatLeast
<1> USE DEF T
<1>3. PICK a \in S : x = Packed(a)
  BY <1>2
<1>4. ASSUME NEW b \in S PROVE ~Precedes(b, a)
  <2>1. Packed(a) <= Packed(b) /\ Packed(a) \in Nat /\ Packed(b) \in Nat
    BY <1>2, <1>3, PackedIsNat
  <2> QED
    BY <2>1, PackedPrecedes
<1> QED
  BY <1>4

\* Those before an address have a last one.
LEMMA LastAddress ==
    ASSUME NEW S, S \subseteq FrameAddress, S # {}
    PROVE  \E a \in S : \A b \in S : ~Precedes(a, b)
<1> DEFINE top == 16 * 2 * 32 * 1024 * 1024
           T == {top - Packed(a) : a \in S}
<1>1. \A a \in FrameAddress : Packed(a) <= top
  BY PackedIsNat
<1>2. top \in Nat
  OBVIOUS
<1> HIDE DEF top
<1>3. T \subseteq Nat /\ T # {}
  <2>1. \A a \in S : top - Packed(a) \in Nat
    BY <1>1, <1>2, PackedIsNat
  <2> QED
    BY <2>1
<1> HIDE DEF T
<1>4. PICK x \in T : \A y \in T : x <= y
  BY <1>3, NatLeast
<1> USE DEF T
<1>5. PICK a \in S : x = top - Packed(a)
  BY <1>4
<1>6. ASSUME NEW b \in S PROVE ~Precedes(a, b)
  <2>1. /\ top - Packed(a) <= top - Packed(b)
        /\ Packed(a) \in Nat /\ Packed(b) \in Nat
    BY <1>4, <1>5, PackedIsNat
  <2> QED
    BY <2>1, <1>2, PackedPrecedes
<1> QED
  BY <1>6

\* No address precedes address zero.
LEMMA ZeroIsFirst ==
    ASSUME NEW a \in FrameAddress PROVE ~Precedes(a, ZeroAddress)
<1>1. /\ a.block \in Nat /\ NumberedRow(a) \in Nat
      /\ a.column \in Nat /\ a.minor \in Nat
  BY FieldsAreNat
<1>2. /\ ZeroAddress.block = 0 /\ NumberedRow(ZeroAddress) = 0
      /\ ZeroAddress.column = 0 /\ ZeroAddress.minor = 0
  BY DEF ZeroAddress, Address, NumberedRow
<1> QED
  BY <1>1, <1>2 DEF Precedes

-----------------------------------------------------------------------------

\* A set of addresses and those next to them.
Further(part, before) ==
    before \union UNION {GetNextFrameAddress(part, a) : a \in before}

\* The walk takes these steps from address zero.
IsWalk(part, w, last) ==
    /\ w[0] = {ZeroAddress}
    /\ \A i \in Nat : i < last => w[i + 1] = Further(part, w[i])

\* Walks agree as far as both go.
LEMMA WalksAgree ==
    ASSUME NEW part, NEW v, NEW w, NEW last \in Nat,
           IsWalk(part, v, last), IsWalk(part, w, last)
    PROVE  \A i \in Nat : i <= last => v[i] = w[i]
<1> DEFINE T == {i \in Nat : i <= last /\ v[i] # w[i]}
<1>1. SUFFICES ASSUME T # {} PROVE FALSE
  OBVIOUS
<1>2. PICK x \in T : \A y \in T : x <= y
  BY <1>1, NatLeast
<1>3. x # 0
  BY DEF IsWalk
<1>4. /\ x - 1 \in Nat /\ x - 1 < last /\ (x - 1) + 1 = x
  BY <1>3
<1>5. v[x - 1] = w[x - 1]
  BY <1>2, <1>4
<1>6. v[x] = Further(part, v[x - 1]) /\ w[x] = Further(part, w[x - 1])
  BY <1>4 DEF IsWalk
<1>7. QED
  BY <1>5, <1>6

\* There is a walk of every length.
LEMMA WalksExist ==
    ASSUME NEW part, NEW last \in Nat PROVE \E w : IsWalk(part, w, last)
<1> DEFINE T == {n \in Nat : ~ \E w : IsWalk(part, w, n)}
<1>1. SUFFICES ASSUME T # {} PROVE FALSE
  OBVIOUS
<1>2. PICK x \in T : \A y \in T : x <= y
  BY <1>1, NatLeast
<1>3. x # 0
  <2>1. IsWalk(part, [i \in Nat |-> {ZeroAddress}], 0)
    BY DEF IsWalk
  <2>2. QED
    BY <2>1
<1>4. PICK w : IsWalk(part, w, x - 1)
  BY <1>2, <1>3
<1> DEFINE v == [i \in Nat |-> IF i = x THEN Further(part, w[x - 1]) ELSE w[i]]
<1>5. IsWalk(part, v, x)
  <2>1. v[0] = {ZeroAddress}
    BY <1>3, <1>4 DEF IsWalk
  <2>2. ASSUME NEW i \in Nat, i < x PROVE v[i + 1] = Further(part, v[i])
    <3>1. v[i] = w[i]
      BY <2>2
    <3>2. CASE i + 1 = x
      BY <3>1, <3>2
    <3>3. CASE i + 1 # x
      <4>1. i < x - 1
        BY <2>2, <3>3
      <4>2. w[i + 1] = Further(part, w[i])
        BY <1>4, <4>1 DEF IsWalk
      <4>3. v[i + 1] = w[i + 1]
        BY <3>3
      <4>4. QED
        BY <3>1, <4>2, <4>3
    <3>4. QED
      BY <3>2, <3>3
  <2>3. QED
    BY <2>1, <2>2 DEF IsWalk
<1>6. QED
  BY <1>5

\* The recursion in WalkedAddresses defines a walk without end.
LEMMA WalkedIsWalk ==
    ASSUME NEW part
    PROVE  \E w : /\ \A last \in Nat : IsWalk(part, w, last)
                  /\ WalkedAddresses(part) = w[Cardinality(ValidAddresses(part))]
<1> DEFINE body(g) ==
      [n \in Nat |->
          IF n = 0 THEN {ZeroAddress}
          ELSE UNION {before \union UNION {GetNextFrameAddress(part, a) :
                                              a \in before} :
                         before \in {g[n - 1]}}]
           walked == CHOOSE g : g = body(g)
           some(n) == CHOOSE w : IsWalk(part, w, n)
           all == [n \in Nat |-> some(n)[n]]
<1>1. \A n \in Nat : IsWalk(part, some(n), n)
  BY WalksExist
<1> HIDE DEF some
<1>2. all[0] = {ZeroAddress}
  BY <1>1 DEF IsWalk
<1>3. ASSUME NEW n \in Nat PROVE all[n + 1] = Further(part, all[n])
  <2>1. IsWalk(part, some(n + 1), n) /\ n + 1 \in Nat
    <3>1. IsWalk(part, some(n + 1), n + 1)
      BY <1>1
    <3>2. QED
      BY <3>1 DEF IsWalk
  <2>2. some(n + 1)[n] = some(n)[n]
    <3>1. IsWalk(part, some(n), n)
      BY <1>1
    <3>2. \A i \in Nat : i <= n => some(n + 1)[i] = some(n)[i]
      BY <2>1, <3>1, WalksAgree
    <3>3. QED
      BY <3>2
  <2>3. some(n + 1)[n + 1] = Further(part, some(n + 1)[n])
    <3>1. IsWalk(part, some(n + 1), n + 1)
      BY <1>1
    <3>2. QED
      BY <3>1 DEF IsWalk
  <2>4. QED
    BY <2>1, <2>2, <2>3
<1>4. ASSUME NEW n \in Nat PROVE body(all)[n] = all[n]
  <2>1. CASE n = 0
    BY <1>2, <2>1
  <2>2. CASE n # 0
    <3>1. n - 1 \in Nat /\ (n - 1) + 1 = n
      BY <2>2
    <3> HIDE DEF all
    <3>2. all[n] = Further(part, all[n - 1])
      BY <1>3, <3>1
    <3>3. body(all)[n] = all[n - 1] \union
              UNION {GetNextFrameAddress(part, a) : a \in all[n - 1]}
      BY <2>2
    <3>4. QED
      BY <3>2, <3>3 DEF Further
  <2>3. QED
    BY <2>1, <2>2
<1>5. all = body(all)
  BY <1>4
<1> HIDE DEF all
<1>6. walked = body(walked)
  <2> HIDE DEF body
  <2>1. QED
    BY <1>5
<1>7. WalkedAddresses(part) = walked[Cardinality(ValidAddresses(part))]
  BY Zenon DEF WalkedAddresses
<1> HIDE DEF walked
<1>8. walked[0] = {ZeroAddress}
  BY <1>6
<1>9. ASSUME NEW n \in Nat PROVE walked[n + 1] = Further(part, walked[n])
  <2>1. n + 1 \in Nat /\ n + 1 # 0 /\ (n + 1) - 1 = n
    OBVIOUS
  <2>2. body(walked)[n + 1] = walked[n] \union
            UNION {GetNextFrameAddress(part, a) : a \in walked[n]}
    BY <2>1
  <2> HIDE DEF body
  <2>3. QED
    BY <1>6, <2>2 DEF Further
<1>10. QED
  BY <1>7, <1>8, <1>9 DEF IsWalk

-----------------------------------------------------------------------------

\* The number of an address is a natural number, and there are finitely many.
LEMMA FinitelyManyAddresses == IsFiniteSet(FrameAddress)
<1>1. PICK top \in Nat : \A a \in FrameAddress : Packed(a) <= top
  <2> DEFINE limit == 16 * 2 * 32 * 1024 * 1024
  <2>1. limit \in Nat
    OBVIOUS
  <2>2. \A a \in FrameAddress : Packed(a) <= limit
    BY PackedIsNat
  <2> HIDE DEF limit
  <2>3. QED
    BY <2>1, <2>2
<1> DEFINE f == [a \in FrameAddress |-> Packed(a)]
<1>2. f \in [FrameAddress -> 0..top]
  BY <1>1, PackedIsNat
<1>3. \A a, b \in FrameAddress : f[a] = f[b] => a = b
  BY PackedIsOne
<1>4. IsFiniteSet(0..top)
  BY FS_Interval
<1> HIDE DEF f
<1>5. f \in Injection(FrameAddress, 0..top)
  BY <1>2, <1>3 DEF Injection, IsInjective
<1>6. QED
  BY <1>4, <1>5, FS_Injection

\* A walk stays among the addresses of the part and address zero, and does
\* not lose an address.
LEMMA WalkStays ==
    ASSUME NEW part, IsPart(part), NEW w, \A last \in Nat : IsWalk(part, w, last),
           NEW n \in Nat
    PROVE  /\ w[n] \subseteq w[n + 1]
           /\ w[n] \subseteq ValidAddresses(part) \union {ZeroAddress}
<1> DEFINE all == ValidAddresses(part) \union {ZeroAddress}
           T == {i \in Nat : ~(w[i] \subseteq all)}
<1>1. \A i \in Nat : w[i + 1] = Further(part, w[i])
  <2>1. ASSUME NEW i \in Nat PROVE w[i + 1] = Further(part, w[i])
    <3>1. IsWalk(part, w, i + 1) /\ i < i + 1
      OBVIOUS
    <3>2. QED
      BY <3>1 DEF IsWalk
  <2>2. QED
    BY <2>1
<1>2. w[0] = {ZeroAddress}
  BY DEF IsWalk
<1>3. all \subseteq FrameAddress
  BY ValidAreAddresses, ZeroIsAddress
<1>4. ASSUME T # {} PROVE FALSE
  <2>1. PICK x \in T : \A y \in T : x <= y
    BY <1>4, NatLeast
  <2>2. x # 0
    BY <1>2
  <2>3. x - 1 \in Nat /\ (x - 1) + 1 = x /\ x - 1 \notin T
    BY <2>1, <2>2
  <2>4. w[x - 1] \subseteq all /\ w[x] = Further(part, w[x - 1])
    BY <1>1, <2>3
  <2>5. ASSUME NEW a \in w[x - 1], NEW b \in GetNextFrameAddress(part, a)
        PROVE  b \in all
    <3>1. a \in FrameAddress
      BY <1>3, <2>4
    <3>2. QED
      BY <3>1, NextIsValidAndGreater, ListedIsValid
  <2>6. QED
    BY <2>1, <2>4, <2>5 DEF Further
<1>5. w[n] \subseteq w[n + 1]
  BY <1>1 DEF Further
<1>6. QED
  BY <1>4, <1>5

\* A walk that has stopped to grow has come to its end: while it grows, it
\* has more addresses than steps.
LEMMA WalkGrows ==
    ASSUME NEW part, IsPart(part), NEW w, \A last \in Nat : IsWalk(part, w, last),
           NEW n \in Nat, w[n + 1] # w[n]
    PROVE  /\ IsFiniteSet(w[n + 1])
           /\ Cardinality(w[n + 1]) > n + 1
<1>1. \A i \in Nat : IsFiniteSet(w[i]) /\ w[i] \subseteq w[i + 1]
  BY WalkStays, ValidAreAddresses, ZeroIsAddress, FinitelyManyAddresses, FS_Subset
<1>2. \A i \in Nat : w[i + 1] = Further(part, w[i])
  <2>1. ASSUME NEW i \in Nat PROVE w[i + 1] = Further(part, w[i])
    <3>1. IsWalk(part, w, i + 1) /\ i < i + 1
      OBVIOUS
    <3>2. QED
      BY <3>1 DEF IsWalk
  <2>2. QED
    BY <2>1
<1>3. ASSUME NEW i \in Nat, w[i + 2] # w[i + 1] PROVE w[i + 1] # w[i]
  <2>1. i + 1 \in Nat /\ (i + 1) + 1 = i + 2
    OBVIOUS
  <2>2. w[i + 2] = Further(part, w[i + 1]) /\ w[i + 1] = Further(part, w[i])
    BY <1>2, <2>1
  <2>3. QED
    BY <1>3, <2>2
<1>4. ASSUME NEW i \in Nat, w[i + 1] # w[i]
      PROVE  /\ Cardinality(w[i]) \in Nat /\ Cardinality(w[i + 1]) \in Nat
             /\ Cardinality(w[i]) < Cardinality(w[i + 1])
  <2>1. /\ IsFiniteSet(w[i]) /\ IsFiniteSet(w[i + 1])
        /\ w[i] \in SUBSET w[i + 1]
    BY <1>1
  <2>2. /\ Cardinality(w[i]) \in Nat /\ Cardinality(w[i + 1]) \in Nat
    BY <2>1, FS_CardinalityType
  <2>3. /\ Cardinality(w[i]) <= Cardinality(w[i + 1])
        /\ Cardinality(w[i + 1]) = Cardinality(w[i]) => w[i + 1] = w[i]
    BY <2>1, FS_Subset
  <2>4. QED
    BY <1>4, <2>2, <2>3
<1> DEFINE T == {i \in Nat : w[i + 1] # w[i] /\ ~(Cardinality(w[i + 1]) > i + 1)}
<1>5. ASSUME T # {} PROVE FALSE
  <2>1. PICK x \in T : \A y \in T : x <= y
    BY <1>5, NatLeast
  <2>2. CASE x = 0
    <3>1. w[0] = {ZeroAddress} /\ Cardinality(w[0]) = 1
      BY FS_Singleton DEF IsWalk
    <3>2. Cardinality(w[0]) < Cardinality(w[0 + 1]) /\ Cardinality(w[0 + 1]) \in Nat
      BY <1>4, <2>1, <2>2
    <3>3. QED
      BY <2>1, <2>2, <3>1, <3>2
  <2>3. CASE x # 0
    <3>1. x - 1 \in Nat /\ (x - 1) + 1 = x /\ (x - 1) + 2 = x + 1
      BY <2>3
    <3>2. w[(x - 1) + 1] # w[x - 1] /\ x - 1 \notin T
      BY <1>3, <2>1, <3>1
    <3>3. Cardinality(w[x]) > x
      BY <3>1, <3>2
    <3>4. /\ Cardinality(w[x]) < Cardinality(w[x + 1])
          /\ Cardinality(w[x]) \in Nat /\ Cardinality(w[x + 1]) \in Nat
      BY <1>4, <2>1
    <3>5. QED
      BY <2>1, <3>3, <3>4
  <2>4. QED
    BY <2>2, <2>3
<1>6. n + 1 \in Nat
  OBVIOUS
<1>7. QED
  BY <1>1, <1>5, <1>6

(***************************************************************************)
(* The addresses that the walk comes by are address zero and, with each,   *)
(* the next one: taking as many steps as the part has addresses is enough. *)
(***************************************************************************)
LEMMA WalkedIsClosed ==
    ASSUME NEW part, IsPart(part)
    PROVE  /\ WalkedAddresses(part) \subseteq ValidAddresses(part) \union {ZeroAddress}
           /\ WalkedAddresses(part) \subseteq FrameAddress
           /\ ZeroAddress \in WalkedAddresses(part)
           /\ Further(part, WalkedAddresses(part)) = WalkedAddresses(part)
<1> DEFINE valid == ValidAddresses(part)
           n == Cardinality(valid)
<1>1. PICK w : (\A last \in Nat : IsWalk(part, w, last)) /\ WalkedAddresses(part) = w[n]
  BY WalkedIsWalk
<1>2. /\ IsFiniteSet(valid) /\ n \in Nat
      /\ IsFiniteSet(valid \union {ZeroAddress})
      /\ Cardinality(valid \union {ZeroAddress}) <= n + 1
      /\ valid \union {ZeroAddress} \subseteq FrameAddress
  <2>1. valid \in SUBSET FrameAddress /\ ZeroAddress \in FrameAddress
    BY ValidAreAddresses, ZeroIsAddress
  <2> HIDE DEF valid
  <2>2. IsFiniteSet(valid) /\ n \in Nat
    BY <2>1, FinitelyManyAddresses, FS_Subset, FS_CardinalityType
  <2> HIDE DEF n
  <2>3. /\ IsFiniteSet(valid \union {ZeroAddress})
        /\ \/ Cardinality(valid \union {ZeroAddress}) = Cardinality(valid)
           \/ Cardinality(valid \union {ZeroAddress}) = Cardinality(valid) + 1
    BY ONLY <2>2, FS_AddElement
  <2>4. Cardinality(valid) = n
    BY DEF n
  <2>5. Cardinality(valid \union {ZeroAddress}) <= n + 1
    BY ONLY <2>2, <2>3, <2>4
  <2>6. QED
    BY ONLY <2>1, <2>2, <2>3, <2>5
<1> HIDE DEF n
<1>3. w[n + 1] = w[n]
  <2>1. SUFFICES ASSUME w[n + 1] # w[n] PROVE FALSE
    OBVIOUS
  <2>2. IsFiniteSet(w[n + 1]) /\ Cardinality(w[n + 1]) > n + 1
    BY <1>1, <1>2, <2>1, WalkGrows
  <2>3. w[n + 1] \in SUBSET (valid \union {ZeroAddress})
    <3>1. n + 1 \in Nat
      BY <1>2
    <3>2. QED
      BY <1>1, <3>1, WalkStays
  <2> HIDE DEF valid
  <2>4. Cardinality(w[n + 1]) <= Cardinality(valid \union {ZeroAddress})
    BY <1>2, <2>3, FS_Subset
  <2>5. /\ Cardinality(w[n + 1]) \in Nat
        /\ Cardinality(valid \union {ZeroAddress}) \in Nat
    BY <1>2, <2>2, FS_CardinalityType
  <2>6. QED
    BY <1>2, <2>2, <2>4, <2>5
<1>4. w[n + 1] = Further(part, w[n])
  <2>1. IsWalk(part, w, n + 1) /\ n < n + 1
    BY <1>1, <1>2
  <2>2. QED
    BY <1>2, <2>1 DEF IsWalk
<1>5. w[n] \subseteq valid \union {ZeroAddress}
  BY <1>1, <1>2, WalkStays
<1>6. ZeroAddress \in w[n]
  <2> DEFINE T == {i \in Nat : ZeroAddress \notin w[i]}
  <2>1. ASSUME T # {} PROVE FALSE
    <3>1. PICK x \in T : \A y \in T : x <= y
      BY <2>1, NatLeast
    <3>2. x # 0
      BY <1>1 DEF IsWalk
    <3>3. x - 1 \in Nat /\ (x - 1) + 1 = x /\ x - 1 \notin T
      BY <3>1, <3>2
    <3>4. w[x - 1] \subseteq w[(x - 1) + 1]
      BY <1>1, <3>3, WalkStays
    <3>5. QED
      BY <3>1, <3>3, <3>4
  <2>2. QED
    BY <1>2, <2>1
<1>7. QED
  BY <1>1, <1>2, <1>3, <1>4, <1>5, <1>6

\* No set that has address zero and the next address of each of its own
\* leaves out an address that the walk comes by.
LEMMA WalkedIsLeast ==
    ASSUME NEW part, NEW S, ZeroAddress \in S,
           \A a \in S : GetNextFrameAddress(part, a) \subseteq S,
           Cardinality(ValidAddresses(part)) \in Nat
    PROVE  WalkedAddresses(part) \subseteq S
<1> DEFINE n == Cardinality(ValidAddresses(part))
<1>1. PICK w : (\A last \in Nat : IsWalk(part, w, last)) /\ WalkedAddresses(part) = w[n]
  BY WalkedIsWalk
<1> DEFINE T == {i \in Nat : ~(w[i] \subseteq S)}
<1>2. ASSUME T # {} PROVE FALSE
  <2>1. PICK x \in T : \A y \in T : x <= y
    BY <1>2, NatLeast
  <2>2. x # 0
    BY <1>1 DEF IsWalk
  <2>3. x - 1 \in Nat /\ (x - 1) + 1 = x /\ x - 1 < x /\ x - 1 \notin T
    BY <2>1, <2>2
  <2>4. w[x] = Further(part, w[x - 1]) /\ w[x - 1] \subseteq S
    <3>1. IsWalk(part, w, x)
      BY <1>1
    <3>2. w[(x - 1) + 1] = Further(part, w[x - 1])
      BY <2>3, <3>1 DEF IsWalk
    <3>3. QED
      BY <2>3, <3>2
  <2>5. w[x] \subseteq S
    BY <2>4 DEF Further
  <2>6. QED
    BY <2>1, <2>5
<1>3. n \in Nat
  OBVIOUS
<1>4. QED
  BY <1>1, <1>2, <1>3

\* The part has a number of addresses.
LEMMA CountIsNat ==
    ASSUME NEW part, IsPart(part) PROVE Cardinality(ValidAddresses(part)) \in Nat
<1>1. ValidAddresses(part) \in SUBSET FrameAddress
  BY ValidAreAddresses
<1>2. QED
  BY <1>1, FinitelyManyAddresses, FS_Subset, FS_CardinalityType

\* The walk comes by an address from the one before it.
LEMMA WalkedIsNext ==
    ASSUME NEW part, IsPart(part), NEW b \in WalkedAddresses(part), b # ZeroAddress
    PROVE  \E a \in WalkedAddresses(part) : b \in GetNextFrameAddress(part, a)
<1> DEFINE W == WalkedAddresses(part)
           S == {c \in W : \/ c = ZeroAddress
                           \/ \E a \in W : c \in GetNextFrameAddress(part, a)}
<1>1. ZeroAddress \in W /\ Further(part, W) = W
  BY WalkedIsClosed
<1> HIDE DEF W
<1>2. \A a \in S : GetNextFrameAddress(part, a) \subseteq S
  BY <1>1 DEF Further
<1>3. ZeroAddress \in S
  BY <1>1
<1> HIDE DEF S
<1>4. W \subseteq S
  BY <1>2, <1>3, CountIsNat, WalkedIsLeast DEF W
<1>5. QED
  BY <1>4 DEF W, S

(***************************************************************************)
(* The walk goes by its addresses in order and leaves none of them out:    *)
(* between an address and the next one there is no other.                  *)
(***************************************************************************)
LEMMA WalkedInOrder ==
    ASSUME NEW part, IsPart(part), NEW a \in WalkedAddresses(part),
           NEW b \in WalkedAddresses(part), Packed(a) < Packed(b)
    PROVE  \E n \in GetNextFrameAddress(part, a) : Packed(n) <= Packed(b)
<1> DEFINE W == WalkedAddresses(part)
           Skips(x, y) == /\ Packed(x) < Packed(y)
                          /\ ~ \E n \in GetNextFrameAddress(part, x) :
                                  Packed(n) <= Packed(y)
           T == {Packed(y) : y \in {z \in W : \E x \in W : Skips(x, z)}}
<1>1. W \subseteq FrameAddress
  BY WalkedIsClosed
<1>2. \A x \in W : Packed(x) \in Nat
  BY <1>1, PackedIsNat
<1>3. \A y \in W : y # ZeroAddress =>
          \E x \in W : y \in GetNextFrameAddress(part, x)
  BY WalkedIsNext
<1>4. \A x \in W : ~(Packed(x) < Packed(ZeroAddress))
  BY <1>1, ZeroIsFirst, ZeroIsAddress, PackedPrecedes
<1>5. \A x, y \in W : y \in GetNextFrameAddress(part, x) => Packed(x) < Packed(y)
  BY <1>1, NextIsValidAndGreater
<1>6. \A x, y \in W : Packed(x) = Packed(y) => x = y
  BY <1>1, PackedIsOne
<1> HIDE DEF W
<1>7. ASSUME T # {} PROVE FALSE
  <2>1. T \subseteq Nat
    BY <1>2
  <2>2. PICK t \in T : \A u \in T : t <= u
    BY <1>7, <2>1, NatLeast
  <2>3. PICK y \in W : t = Packed(y) /\ \E x \in W : Skips(x, y)
    OBVIOUS
  <2>4. PICK x \in W : Skips(x, y)
    BY <2>3
  <2>5. \A z \in W : Packed(z) < Packed(y) => ~ \E v \in W : Skips(v, z)
    <3>1. SUFFICES ASSUME NEW z \in W, Packed(z) < Packed(y), \E v \in W : Skips(v, z)
                   PROVE  FALSE
      BY Zenon
    <3>2. Packed(z) \in T
      BY <3>1
    <3>3. t <= Packed(z) /\ Packed(z) \in Nat /\ Packed(y) \in Nat
      BY <1>2, <2>2, <3>2
    <3>4. QED
      BY <2>3, <3>1, <3>3
  <2>6. y # ZeroAddress
    BY <1>4, <2>4
  <2>7. PICK c \in W : y \in GetNextFrameAddress(part, c)
    BY <1>3, <2>6
  <2>8. Packed(c) < Packed(y) /\ Packed(x) < Packed(y)
    BY <1>5, <2>4, <2>7
  <2>9. Packed(c) \in Nat /\ Packed(x) \in Nat /\ Packed(y) \in Nat
    BY <1>2
  <2>10. CASE c = x
    BY <2>4, <2>7, <2>9, <2>10
  <2>11. CASE Packed(c) < Packed(x)
    <3>1. ~ Skips(c, x)
      BY <2>5, <2>8
    <3>2. PICK n \in GetNextFrameAddress(part, c) : Packed(n) <= Packed(x)
      BY <2>11, <3>1
    <3>3. n = y
      <4>1. IsOptional(GetNextFrameAddress(part, c))
        BY <1>1, NextIsOptional
      <4>2. QED
        BY <2>7, <3>2, <4>1 DEF IsOptional
    <3>4. QED
      BY <2>8, <2>9, <3>2, <3>3
  <2>12. CASE Packed(x) < Packed(c)
    <3>1. ~ Skips(x, c)
      BY <2>5, <2>8
    <3>2. PICK n \in GetNextFrameAddress(part, x) : Packed(n) <= Packed(c)
      BY <2>12, <3>1
    <3>3. Packed(n) \in Nat
      BY <1>1, NextIsValidAndGreater, PackedIsNat
    <3>4. Packed(n) <= Packed(y)
      BY <2>8, <2>9, <3>2, <3>3
    <3>5. QED
      BY <2>4, <3>4
  <2>13. QED
    BY <1>6, <2>9, <2>10, <2>11, <2>12
<1>8. ~ Skips(a, b)
  BY <1>7 DEF W
<1>9. QED
  BY <1>8

\* The addresses that the walk comes by before address a.
Before(part, a) == {b \in WalkedAddresses(part) : Packed(b) < Packed(a)}

\* The walk goes on from an address, or comes to its end there.
LEMMA WalkStep ==
    ASSUME NEW part, IsPart(part), NEW a \in WalkedAddresses(part)
    PROVE  /\ a \in FrameAddress
           /\ \A n \in GetNextFrameAddress(part, a) :
                 /\ n \in WalkedAddresses(part)
                 /\ Packed(a) < Packed(n)
                 /\ Before(part, n) = Before(part, a) \union {a}
           /\ GetNextFrameAddress(part, a) = {} =>
                 WalkedAddresses(part) = Before(part, a) \union {a}
<1> DEFINE W == WalkedAddresses(part)
<1>1. W \subseteq FrameAddress /\ Further(part, W) = W
  BY WalkedIsClosed
<1>2. \A x \in W : Packed(x) \in Nat
  BY <1>1, PackedIsNat
<1>3. \A x, y \in W : Packed(x) = Packed(y) => x = y
  BY <1>1, PackedIsOne
<1>4. \A y \in W : Packed(a) < Packed(y) =>
          \E n \in GetNextFrameAddress(part, a) : Packed(n) <= Packed(y)
  BY WalkedInOrder
<1>5. \A n \in GetNextFrameAddress(part, a) :
          Packed(a) < Packed(n) /\ n \in W
  BY <1>1, NextIsValidAndGreater DEF Further
<1>6. \A m, n \in GetNextFrameAddress(part, a) : m = n
  BY <1>1, NextIsOptional DEF IsOptional
<1>7. a \in W
  OBVIOUS
<1> HIDE DEF W
<1>8. ASSUME NEW n \in GetNextFrameAddress(part, a)
      PROVE  {b \in W : Packed(b) < Packed(n)} =
                 {b \in W : Packed(b) < Packed(a)} \union {a}
  <2>1. ASSUME NEW b \in W PROVE Packed(b) < Packed(n) <=> Packed(b) < Packed(a) \/ b = a
    <3>1. /\ Packed(a) \in Nat /\ Packed(b) \in Nat /\ Packed(n) \in Nat
          /\ Packed(a) < Packed(n)
      BY <1>2, <1>5, <1>7
    <3>2. Packed(a) < Packed(b) => Packed(n) <= Packed(b)
      BY <1>4, <1>6
    <3>3. Packed(a) = Packed(b) => a = b
      BY <1>3, <1>7
    <3>4. QED
      BY <3>1, <3>2, <3>3
  <2>2. QED
    BY <1>7, <2>1
<1>9. ASSUME GetNextFrameAddress(part, a) = {}
      PROVE  W = {b \in W : Packed(b) < Packed(a)} \union {a}
  <2>1. ASSUME NEW b \in W PROVE Packed(b) < Packed(a) \/ b = a
    <3>1. Packed(a) \in Nat /\ Packed(b) \in Nat
      BY <1>2, <1>7
    <3>2. ~(Packed(a) < Packed(b))
      BY <1>4, <1>9
    <3>3. QED
      BY <1>3, <1>7, <3>1, <3>2
  <2>2. QED
    BY <1>7, <2>1
<1>10. QED
  BY <1>1, <1>5, <1>7, <1>8, <1>9 DEF W, Before

\* Address zero is the first that the walk comes by.
LEMMA NothingBeforeZero ==
    ASSUME NEW part, IsPart(part)
    PROVE  ZeroAddress \in WalkedAddresses(part) /\ Before(part, ZeroAddress) = {}
<1>1. WalkedAddresses(part) \subseteq FrameAddress /\ ZeroAddress \in WalkedAddresses(part)
  BY WalkedIsClosed
<1>2. \A a \in FrameAddress : ~(Packed(a) < Packed(ZeroAddress))
  BY ZeroIsFirst, ZeroIsAddress, PackedPrecedes
<1>3. QED
  BY <1>1, <1>2 DEF Before

=============================================================================

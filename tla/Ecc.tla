-------------------------------- MODULE Ecc --------------------------------
(***************************************************************************)
(* The error correcting code in every frame of Series-7, UltraScale and    *)
(* UltraScale+: the library computes and verifies it, bits2rbt and         *)
(* assemble compute it with code of their own.                             *)
(*                                                                         *)
(* The words of a frame are the set of its bits, <<word, bit>>, and an ECC *)
(* value is the set of its bits; ^= is the symmetric difference.           *)
(***************************************************************************)
EXTENDS Integers, FiniteSetsExt

CONSTANTS
    Frames(_),     \* the frames of an architecture that are given an ECC
    FirstUpsets(_) \* the bits of one of which may flip before any other does

VARIABLES
    arch,
    tool,     \* who computes the ECC
    data,     \* the frame
    loaded,   \* the frame before it had an ECC
    upsets,   \* the bits that have flipped since
    verified, \* what verifyECC returned
    pc        \* "loaded", "written", "verified"

vars == <<arch, tool, data, loaded, upsets, verified, pc>>

-----------------------------------------------------------------------------

WordsPerFrame(a) ==
    CASE a = "Series7" -> 101 [] a = "UltraScale" -> 123
      [] a = "UltraScalePlus" -> 93

AllBits(a) == (0..WordsPerFrame(a) - 1) \X (0..31)

\* The bits of a value that is written from this word on.
Field(word, value) == {<<word + (i \div 32), i % 32>> : i \in value}

Xor(s, t) == (s \ t) \union (t \ s)

BitsOf(n, width) == {i \in 0..width - 1 : (n \div 2^i) % 2 = 1}

IsOdd(s) == Cardinality(s) % 2 = 1

\* "ecc ^= offset" for every bit that has one, in any order.
XorAll(offset) ==
    FoldSet(LAMBDA b, ecc : Xor(ecc, offset[b]), {}, DOMAIN offset)

-----------------------------------------------------------------------------

\* The library, which has a file of code for each architecture.

kECCFrameNumber(a) ==
    CASE a = "Series7" -> 50 [] a = "UltraScale" -> 60
      [] a = "UltraScalePlus" -> 45

ECCField(a) ==
    Field(kECCFrameNumber(a), 0..IF a = "Series7" THEN 12 ELSE 47)

\* Mutant of icap_offset: the powers of two are not avoided.
icap_offsetPlain(idx, bit) == BitsOf(idx * 32 + 4896 + bit, 13)

\* val + i of icap_ecc: offsets that avoid 0x400 and 0x800.
icap_offset(idx, bit) ==
    BitsOf(idx * 32 + bit
               + IF idx > 37 THEN 4960 ELSE IF idx > 6 THEN 4928 ELSE 4896, 13)

\* With the parity of the first 12 bits as the last one.
icap_ecc(bits) ==
    LET ecc == XorAll([b \in bits \ ECCField("Series7") |->
                          icap_offset(b[1], b[2])])
    IN IF IsOdd(ecc \ {12}) THEN Xor(ecc, {12}) ELSE ecc

\* The word and the nibble, made odd by a 12th bit, with each bit expanded to a
\* nibble and shifted by the bit's place in its nibble.
calculate_us_ecc(a, word, bit) ==
    LET last   == IF a = "UltraScale" THEN 122 ELSE 92
        offset == BitsOf((word + 255 - last) * 8 + (bit \div 4), 11)
        odd    == IF IsOdd(offset) THEN offset ELSE offset \union {11}
    IN {4 * i + (bit % 4) : i \in odd}

calculateECC(a, bits) ==
    IF a = "Series7" THEN icap_ecc(bits)
    ELSE XorAll([b \in bits \ ECCField(a) |-> calculate_us_ecc(a, b[1], b[2])])

\* Mutant of updateECC: the new ECC is added to the old one.
updateECCOver(a, bits) ==
    bits \union Field(kECCFrameNumber(a), calculateECC(a, bits))

updateECC(a, bits) ==
    (bits \ ECCField(a)) \union Field(kECCFrameNumber(a), calculateECC(a, bits))

verifyECC(a, bits) ==
    bits \intersect ECCField(a) = Field(kECCFrameNumber(a), calculateECC(a, bits))

-----------------------------------------------------------------------------

\* bits2rbt, which has tables by the name of the architecture.

ecc_word(a) ==
    CASE a = "Series7" -> 50 [] a = "UltraScale" -> 60
      [] a = "UltraScalePlus" -> 45

\* In Series-7, 13 bits of one word; else a word and half of the next one.
MaskedBits(a) ==
    IF a = "Series7" THEN {ecc_word(a)} \X (0..12)
    ELSE ({ecc_word(a)} \X (0..31)) \union ({ecc_word(a) + 1} \X (0..15))

GetSeries7WordEcc(bits) ==
    LET start(idx) == IF idx > 37 THEN 4960 ELSE IF idx > 6 THEN 4928 ELSE 4896
        ecc == XorAll([b \in bits \ MaskedBits("Series7") |->
                          BitsOf(start(b[1]) + b[1] * 32 + b[2], 13)])
        v   == ecc \intersect (0..11)
    IN Xor(ecc, IF IsOdd(v) THEN {12} ELSE {})

\* Mutant of GetUSEccFrameOffset: one number for both architectures, as in a
\* program that is for one of them.
GetUSEccFrameOffsetFixed(a, word, bit) ==
    LET offset == BitsOf((word + 255 - 92) * 8 + (bit \div 4), 11)
    IN {4 * i + (bit % 4) : i \in Xor(offset, IF IsOdd(offset) THEN {} ELSE {11})}

GetUSEccFrameOffset(a, word, bit) ==
    LET first  == 255 - (WordsPerFrame(a) - 1)
        offset == BitsOf((word + first) * 8 + (bit \div 4), 11)
    IN {4 * i + (bit % 4) : i \in Xor(offset, IF IsOdd(offset) THEN {} ELSE {11})}

CalculateECC(a, bits) ==
    IF a = "Series7" THEN GetSeries7WordEcc(bits)
    ELSE XorAll([b \in bits \ MaskedBits(a) |->
                    GetUSEccFrameOffset(a, b[1], b[2])])

UpdateFrameECC(a, bits) ==
    (bits \ MaskedBits(a)) \union Field(ecc_word(a), CalculateECC(a, bits))

-----------------------------------------------------------------------------

\* assemble, for UltraScale+ alone.

get_ecc_value(word, bit) ==
    LET offset == BitsOf((word + 163) * 8 + (bit \div 4), 11)
    IN {4 * i + (bit % 4) :
           i \in offset \union {j \in {11} : Cardinality(offset) % 2 = 0}}

\* The loop clears the old ECC's bits as it comes by them.
add_frame_ecc(bits) ==
    LET kept == {b \in bits : b[1] # 45 /\ (b[1] = 46 => b[2] >= 16)}
    IN kept \union Field(45, XorAll([b \in kept |-> get_ecc_value(b[1], b[2])]))

-----------------------------------------------------------------------------

\* The programs that compute an ECC for an architecture.
ToolsOf(a) ==
    {"library", "bits2rbt"}
        \union IF a = "UltraScalePlus" THEN {"assemble"} ELSE {}

UpdatedBy(program, a, bits) ==
    CASE program = "library"  -> updateECC(a, bits)
      [] program = "bits2rbt" -> UpdateFrameECC(a, bits)
      [] program = "assemble" -> add_frame_ecc(bits)

Init ==
    /\ arch \in {"Series7", "UltraScale", "UltraScalePlus"}
    /\ tool \in ToolsOf(arch)
    /\ loaded \in Frames(arch)
    /\ data = loaded
    /\ upsets = {}
    /\ verified = FALSE
    /\ pc = "loaded"

Update ==
    /\ pc = "loaded"
    /\ data' = UpdatedBy(tool, arch, data)
    /\ pc' = "written"
    /\ UNCHANGED <<arch, tool, loaded, upsets, verified>>

\* One bit of the frame flips, and perhaps a second one.
Upset ==
    /\ pc = "written"
    /\ \/ upsets = {}
       \/ upsets \subseteq FirstUpsets(arch) /\ Cardinality(upsets) = 1
    /\ \E b \in AllBits(arch) \ upsets :
          /\ upsets' = upsets \union {b}
          /\ data' = Xor(data, {b})
    /\ UNCHANGED <<arch, tool, loaded, verified, pc>>

Verify ==
    /\ pc = "written"
    /\ verified' = verifyECC(arch, data)
    /\ pc' = "verified"
    /\ UNCHANGED <<arch, tool, data, loaded, upsets>>

Next == Update \/ Upset \/ Verify

Spec == Init /\ [][Next]_vars

-----------------------------------------------------------------------------

(***************************************************************************)
(* A frame that any of the programs has given an ECC verifies, whatever    *)
(* its ECC bits were before, and stops verifying when any one or two of    *)
(* its bits, of the data or of the ECC, have flipped.                      *)
(***************************************************************************)
DetectsUpsets == pc = "verified" => (verified <=> upsets = {})

(***************************************************************************)
(* The three programs, each with tables, masks and offsets of its own,     *)
(* give every bit of a frame and every frame the same ECC, leave all bits  *)
(* but the ECC's alone, and give a blank frame none.                       *)
(***************************************************************************)
ToolsAgree ==
    /\ pc = "loaded" /\ loaded = {} =>
           \A other \in ToolsOf(arch), b \in AllBits(arch) :
               UpdatedBy(tool, arch, {b}) = UpdatedBy(other, arch, {b})
    /\ pc = "written" /\ upsets = {} =>
           /\ \A other \in ToolsOf(arch) : data = UpdatedBy(other, arch, loaded)
           /\ data \ ECCField(arch) = loaded \ ECCField(arch)
           /\ loaded = {} => data = {}

\* No two bits of a frame have the same offset, and no data bit has that of an
\* ECC bit, so that a bit that has flipped can be told from every other one.
Syndrome(a, b) ==
    IF b \in ECCField(a) THEN {i \in 0..47 : Field(kECCFrameNumber(a), {i}) = {b}}
    ELSE calculateECC(a, {b})

UpsetsAreLocated ==
    pc = "loaded" /\ loaded = {} /\ tool = "library" =>
        Cardinality({Syndrome(arch, b) : b \in AllBits(arch)}) =
            Cardinality(AllBits(arch))

=============================================================================

----------------------------- MODULE MCSpartan6 -----------------------------
(***************************************************************************)
(* Small parts, frames and cut files for Spartan6.                         *)
(***************************************************************************)
EXTENDS Spartan6

Key(block, row, column) ==
    [block |-> block, half |-> 0, row |-> row, column |-> column]

Part(columns) == [arch |-> "Spartan6", columns |-> columns]

\* Two rows and IOB frames; and a row that the walk does not come by.
SmallParts ==
    {Part([k \in {Key(0, 0, 0), Key(0, 1, 0), Key(2, 0, 0)} |->
              IF k.row = 0 THEN 1 + k.block ELSE 1]),
     Part([k \in {Key(0, 0, 0), Key(0, 1, 1)} |-> 1])}

\* Headers of packets that write no, one and two words of FDRI, two of IDCODE,
\* one of CMD and of FAR_MIN, a NOP, a type 2 and an unknown header, zero and
\* seven.
Words ==
    {12384, 12385, 12386, 12738, 12449, 12353, 8192, 20576, 65535, 0, 7}

\* The words that the last frame may have.
Tails ==
    {<<x>> : x \in Words} \union {<<x, y>> : x \in Words, y \in Words}
        \union {<<3, 7, x>> : x \in Words}

Numbered(a) == 1 + a.block + 3 * a.row + 8 * a.minor

LastOf(addresses) == CHOOSE a \in addresses : \A b \in addresses : Packed(b) <= Packed(a)

\* Frames of two words of which the second is w, and a last frame.
Map(addresses, w, tail) ==
    [a \in addresses |->
        IF a = LastOf(addresses) THEN tail ELSE <<Numbered(a), w>>]

\* Any last frame; the word before a last frame of one word is any as well.
UniformMaps(addresses) ==
    {Map(addresses, 9, tail) : tail \in Tails}
        \union {Map(addresses, w, <<x>>) : w \in Words, x \in Words}

\* A frame of another length before the last.
UnevenMaps(addresses) ==
    {[a \in addresses |->
        IF a = ZeroAddress THEN first ELSE <<Numbered(a), 9>>] :
            first \in {<<4>>, <<4, 5, 6>>, <<4, 5, 6, 8>>}}

SmallMaps(chip) ==
    {<<>>} \union
    UNION {UniformMaps(s) \union UnevenMaps(s) :
              s \in {t \in SUBSET ValidAddresses(chip) : t # {}}}

\* Frames whose last two words do no harm, or overwrite, on all of the part;
\* the last frame has one of them or both.
CutMaps(chip) ==
    {Map(ValidAddresses(chip), 9, tail) :
        tail \in {<<0, 0>>, <<12385, 7>>, <<12738, 7>>, <<7>>, <<12385>>}}
    \union {Map(ValidAddresses(chip), 12385, <<7>>)}

\* A file that ends at any byte, in some cases, and one that does not end.
Scarce(map) ==
    {10000} \union IF \E chip \in SmallParts : map \in CutMaps(chip)
                   THEN 0..300 ELSE {}

\* An IDCODE that the last word and the NOP after it may match.
Id == <<7, 8192>>
=============================================================================

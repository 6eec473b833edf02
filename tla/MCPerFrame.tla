----------------------------- MODULE MCPerFrame -----------------------------
(***************************************************************************)
(* Small inputs for PerFrame: frames of two words of two bits, the second  *)
(* word for the ECC.                                                       *)
(***************************************************************************)
EXTENDS PerFrame

Key(block, half, row, column) ==
    [block |-> block, half |-> half, row |-> row, column |-> column]

\* The ECC of a frame is a copy of its first word.
CopyEcc(words) == words[1]

\* Rows of two frames, of one frame and of one frame of another block type.
Frame1 == Address(0, 0, 0, 0, 0)
Frame2 == Address(0, 0, 0, 0, 1)
Frame3 == Address(0, 0, 1, 0, 0)
Frame4 == Address(1, 0, 0, 0, 0)

LastAddress == Address(7, 1, 31, 0, 0)

ChipFrames == {Frame1, Frame2, Frame3, Frame4, LastAddress}

\* Chips whose rows do not start at column zero, so that the walk ends before
\* them; with a frame missing in a row; and with one missing where a row starts.
GapChips ==
    {{Frame1, Address(0, 0, 1, 1, 0), LastAddress},
     {Frame1, Address(0, 0, 1, 1, 0), Frame4},
     {Frame1, Address(0, 0, 0, 0, 2), Frame3},
     {Frame1, Address(0, 0, 1, 0, 1)}}

SmallChips == {ChipFrames} \union GapChips

\* Every part over these columns, and a part with one more frame in each.
PartOf(arch, keys) ==
    [arch |-> arch,
     columns |-> [k \in keys |-> IF k.row = 0 /\ k.block = 0 THEN 2 ELSE 1]]

SmallParts ==
    {PartOf("UltraScalePlus", {Key(0, 0, 0, 0)}),
     PartOf("UltraScale", {Key(0, 0, 0, 0), Key(0, 0, 1, 0)})}
        \union {PartOf(arch, {Key(0, 0, 0, 0), Key(0, 0, 1, 0), Key(1, 0, 0, 0)}) :
                  arch \in {"Series7", "UltraScalePlus"}}

BitLine(a, i, j) == [valid |-> TRUE, bit |-> <<a, i, j>>]

BitLines ==
    {BitLine(Frame1, 1, 0), BitLine(Frame2, 1, 1), BitLine(Frame3, 1, 1),
     [valid |-> FALSE, bit |-> <<Frame1, 1, 0>>], BitLine(Frame4, 3, 0)}

SmallBitsFiles == UNION {[1..n -> BitLines] : n \in 0..2}

Strays == {<<Frame1, 1, 1>>, <<Frame2, 3, 0>>}

\* Commands with and without bit 21 of CTL1, and with a second reset.
Heads ==
    {<<CMD("RCRC")>>,
     <<Write("TIMER", <<0>>), CMD("RCRC"), Write("IDCODE", <<77963411>>),
       Write("MASK", <<2097152>>), Write("CTL1", <<2097152>>)>>,
     <<CMD("RCRC"), Write("MASK", <<2097152>>), Write("CTL1", <<2097152>>),
       CMD("RCRC")>>}

\* Commands that leave bit 21 of CTL1, and that clear it.
LeavingTail == <<CMD("NOP"), WriteCRC(<<<<"CMD", 0>>>>), CMD("DESYNC")>>

ClearingTail ==
    <<Write("MASK", <<2097152>>), Write("CTL1", <<0>>),
      WriteCRC(<<<<"MASK", 2097152>>, <<"CTL1", 0>>>>), CMD("DESYNC")>>

Lists == SUBSET {Frame2, Frame3, Frame4}

SmallAuxFiles ==
    [head : Heads, tail : {LeavingTail}, addresses : Lists]
        \union [head : Heads, tail : {ClearingTail}, addresses : {{Frame2, Frame3}}]

\* The list of the chip's frames, or none.
NoListOrAll(writer) ==
    {<<>>} \union IF writer = "bits2rbt" THEN {} ELSE
        {<<AddressWord("UltraScalePlus", Frame1),
           AddressWord("UltraScalePlus", Frame2),
           AddressWord("UltraScalePlus", Frame3),
           AddressWord("UltraScalePlus", Frame4), 133955584>>}

TextOf(text) == [kind |-> "text", text |-> text]

Spaces == [kind |-> "spaces"]

Empty == [kind |-> "empty"]

Files(texts, most) ==
    [lines : UNION {[1..n -> texts] : n \in 0..most}, terminated : BOOLEAN]

HarnessBit(a, i, j) == TextOf([frame |-> a, word |-> i, bit |-> j])

\* A frame that the chip does not have, and one that is nowhere.
Foreign == Address(0, 0, 0, 1, 0)
Nowhere == Address(0, 0, 2, 0, 0)

\* Bits of the ECC, and the bit that the feature H sets in another frame.
HarnessLines ==
    {<<HarnessBit(Frame1, 1, 0)>>, <<HarnessBit(Frame3, 0, 1)>>,
     <<HarnessBit(Frame1, 1, 0), HarnessBit(Frame1, 0, 1)>>}

Feature(name) == TextOf([tile |-> "T", feature |-> name])

ChipFiles ==
    [roi : Files({Empty, TextOf({Frame2}), TextOf({Foreign}), TextOf({})}, 1),
     harness : Files({Spaces, HarnessBit(Frame1, 0, 1), HarnessBit(Frame2, 0, 0),
                      HarnessBit(Nowhere, 0, 0)}, 2)
               \union [lines : HarnessLines, terminated : {TRUE}],
     fasm : Files({Feature("F"), Feature("G"), Feature("H"), Feature("I")}, 1)]

\* The harness has bits in up to two frames of the chip, and no features.
GapFiles(chip) ==
    [roi : [lines : {<<>>, <<TextOf({Frame1})>>, <<TextOf({Foreign})>>},
            terminated : {TRUE}],
     harness : [lines : UNION {[1..n -> {HarnessBit(a, 0, 1) :
                                           a \in chip \ {LastAddress}}] : n \in 0..2},
                terminated : {TRUE}],
     fasm : [lines : {<<>>}, terminated : {TRUE}]]

SmallTextFiles(chip) == IF chip = ChipFrames THEN ChipFiles ELSE GapFiles(chip)

\* The bits of the tile are in three frames; there is no feature I, and no
\* bit 4.
SmallTiles ==
    [T \in {"T"} |->
        [bits |-> <<[frame |-> Frame2, offset |-> 1, size |-> 1],
                    [frame |-> Frame4, offset |-> 0, size |-> 2],
                    [frame |-> Foreign, offset |-> 1, size |-> 1]>>,
         features |-> [F |-> {0, 2}, G |-> {4}, H |-> {3}]]]

SmallBursts(chip) ==
    [ValidAddresses(chip) -> {<<0, 0>>, <<2, 2>>}]

=============================================================================

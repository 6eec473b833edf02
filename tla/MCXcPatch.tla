------------------------------ MODULE MCXcPatch ------------------------------
(***************************************************************************)
(* Small parts, base bitstreams and .frm files for XcPatch.                *)
(***************************************************************************)
EXTENDS XcPatch

Key(block, half, row, column) ==
    [block |-> block, half |-> half, row |-> row, column |-> column]

\* Two rows and a second block type; and a part whose second row has no
\* column 0.
TwoParts ==
    {[arch |-> "Series7", columns |-> columns] : columns \in
        {[k \in {Key(0, 0, 0, 0), Key(0, 0, 1, 0), Key(1, 0, 0, 0)} |->
             IF k.block = 0 THEN 2 ELSE 1],
         [k \in {Key(0, 0, 0, 0), Key(0, 0, 1, 1)} |-> 2]}}

\* Base bitstreams with frames at any of the addresses of the two parts.
AllAddresses == UNION {ValidAddresses(p) : p \in TwoParts}

SmallBases ==
    {[a \in s |-> <<1 + a.minor, 1>>] : s \in SUBSET AllAddresses}

FrameLine(a, words) == [kind |-> "frame", address |-> a, words |-> words]

FileLines ==
    {FrameLine(Address(0, 0, 0, 0, 1), <<2, 0>>),
     FrameLine(Address(0, 0, 0, 0, 1), <<1, 0>>),
     FrameLine(Address(0, 0, 1, 0, 1), <<2, 0>>),
     FrameLine(Address(0, 0, 1, 1, 0), <<2, 0>>)}

ShortFiles(chip) == UNION {[1..n -> FileLines] : n \in 0..2}

Words == 0..2

FirstWordEcc(words) == words[1]
=============================================================================

------------------------------ MODULE MCFrames ------------------------------
(***************************************************************************)
(* Small parts and small .frm files for Frames.                            *)
(***************************************************************************)
EXTENDS Frames

Key(block, half, row, column) ==
    [block |-> block, half |-> half, row |-> row, column |-> column]

\* Every part with columns among keys; column 1 has two frames, others one.
PartsOver(arch, keys) ==
    {[arch |-> arch,
      columns |-> [k \in s |-> IF k.column = 1 THEN 2 ELSE 1]] :
        s \in SUBSET keys}

Grid(halves) ==
    {Key(b, h, r, c) : b \in {0, 1}, h \in halves, r \in {0, 1}, c \in {0, 1}}

\* Two block types, both halves and two rows, of two columns in the first.
GridParts(arch) ==
    PartsOver(arch, Grid({0, 1}) \ {Key(1, h, r, 1) : h \in {0, 1}, r \in {0, 1}})

\* Three block types and three rows, one column wide.
TallParts(arch) ==
    PartsOver(arch,
              {Key(b, 0, r, 0) : b \in {0, 1, 2}, r \in {0, 1, 2}}
              \union {Key(b, 1, 0, 0) : b \in {0, 1, 2}})

\* Columns that have no frames, and a block type that no walk comes to.
SparseParts(arch) ==
    {[arch |-> arch, columns |-> columns] :
        columns \in UNION {[s -> {0, 1}] : s \in
            SUBSET ({Key(0, 0, r, c) : r \in {0, 1}, c \in {0, 1}}
                    \union {Key(0, 0, 0, 2), Key(3, 0, 0, 0)})}}

SomeAddresses ==
    {Address(0, 0, 0, 0, 0), Address(0, 0, 0, 0, 2), Address(0, 0, 1, 1, 0),
     Address(1, 0, 0, 0, 1)}

\* Built as gen_part_base_yaml does, from the addresses it has seen.
SeenParts ==
    {PartFromAddresses(arch, s) :
        arch \in {"Series7", "Spartan6"}, s \in SUBSET SomeAddresses}

\* Spartan-6 has the top half only.
AllParts ==
    UNION {GridParts("Series7"), GridParts("UltraScale"), TallParts("Series7"),
           SparseParts("Series7"), SparseParts("UltraScale"),
           PartsOver("Spartan6", Grid({0}) \union {Key(2, 0, 0, 0)}), SeenParts}

NoFile(chip) == {<<>>}

FrameLine(a, words) == [kind |-> "frame", address |-> a, words |-> words]

FileLines ==
    {[kind |-> "comment"], [kind |-> "malformed"],
     FrameLine(Address(0, 0, 0, 0, 0), <<1, 0>>),
     FrameLine(Address(0, 0, 0, 0, 0), <<2, 1>>),
     FrameLine(Address(0, 0, 0, 0, 1), <<1>>),
     FrameLine(Address(0, 0, 0, 0, 1), <<2, 2>>),
     FrameLine(Address(1, 0, 0, 0, 1), <<1, 0>>),
     FrameLine(Address(0, 0, 1, 1, 0), <<1, 1>>),
     FrameLine(Address(0, 0, 0, 0, 2), <<NotHex, 1>>)}

\* Every file of up to three lines for the parts that hold their addresses.
ShortFiles(chip) ==
    IF chip \in SeenParts THEN UNION {[1..n -> FileLines] : n \in 0..3}
    ELSE {<<>>}

Words == 0..2

FirstWordEcc(words) == words[1]
=============================================================================

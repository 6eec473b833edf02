---------------------------- MODULE MCFrames2Bit ----------------------------
(***************************************************************************)
(* Small parts and .frm files for Frames2Bit.                              *)
(***************************************************************************)
EXTENDS Frames2Bit

Key(block, half, row, column) ==
    [block |-> block, half |-> half, row |-> row, column |-> column]

\* Parts that have every one of the columns of a list up to some point.
Prefixes(arch, keys) ==
    {[arch |-> arch,
      columns |-> [k \in {keys[i] : i \in 1..n} |->
                      IF k.column = 0 THEN 2 ELSE 1]] : n \in DOMAIN keys}

\* Columns in the order of their addresses, rows and blocks contiguous.
WalkableParts(arch) ==
    Prefixes(arch,
             <<Key(0, 0, 0, 0), Key(0, 0, 0, 1), Key(0, 0, 1, 0),
               Key(0, 1, 0, 0), Key(0, 1, 0, 3), Key(1, 0, 0, 0),
               Key(1, 0, 1, 0), Key(2, 0, 0, 0)>>)

\* Every part over a few columns.
AnyParts ==
    {[arch |-> "Series7",
      columns |-> [k \in s |-> IF k.row = 1 THEN 2 ELSE 1]] :
        s \in SUBSET {Key(0, 0, 0, 0), Key(0, 0, 1, 0), Key(0, 0, 1, 1),
                      Key(0, 0, 2, 0), Key(0, 1, 0, 0), Key(1, 0, 1, 0)}}

FrameLine(a, data) == [kind |-> "frame", address |-> a, words |-> data]

FileLines ==
    {[kind |-> "malformed"],
     FrameLine(Address(0, 0, 0, 0, 0), <<1, 0>>),
     FrameLine(Address(0, 0, 1, 0, 1), <<2, 0>>),
     FrameLine(Address(0, 1, 0, 0, 0), <<1, 2>>),
     FrameLine(Address(1, 0, 0, 0, 0), <<2, 2>>)}

\* Nothing is read after a malformed line, and the order of the lines is
\* forgotten by the container (HoldsItsLines, in the run frames).
InOrder(file) ==
    \A i \in 1..(Len(file) - 1) :
        /\ file[i].kind = "frame"
        /\ file[i + 1].kind = "frame" =>
               Packed(file[i].address) <= Packed(file[i + 1].address)

FilesOf(lengths) ==
    {file \in UNION {[1..n -> FileLines] : n \in lengths} : InOrder(file)}

Words == 0..2

FirstWordEcc(data) == data[1]

\* An empty field for the length is all there is of the file header.
Tlv == <<101, 0, 0, 0, 0>>

\* A part of two rows, and a file of a frame of its second row: their
\* bitstream is cut off at any byte.
RowsPart ==
    [arch |-> "Series7",
     columns |-> [k \in {Key(0, 0, 0, 0), Key(0, 0, 1, 0)} |-> k.row + 1]]

RowsFile == <<FrameLine(Address(0, 0, 1, 0, 1), <<2, 1>>)>>

Scarce(chip, lines) ==
    IF chip = RowsPart /\ lines = RowsFile THEN 0..400 ELSE {10000}

SmallParts ==
    AnyParts \union WalkableParts("Series7") \union {RowsPart}
        \union WalkableParts("UltraScale") \union WalkableParts("UltraScalePlus")

\* Files of two lines for the parts with gaps.
SmallFiles(chip) ==
    IF chip = RowsPart THEN {RowsFile}
    ELSE FilesOf(IF chip \in AnyParts THEN 0..2 ELSE 0..1)
=============================================================================

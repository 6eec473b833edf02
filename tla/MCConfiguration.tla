--------------------------- MODULE MCConfiguration ---------------------------
(***************************************************************************)
(* Short packet streams and small parts for Configuration.                 *)
(***************************************************************************)
EXTENDS Configuration

Key(block, half, row, column) ==
    [block |-> block, half |-> half, row |-> row, column |-> column]

\* Two rows of which the first has two frames, and a block RAM row.
RowsPart ==
    [arch |-> "Series7",
     columns |-> [k \in {Key(0, 0, 0, 0), Key(0, 0, 1, 0), Key(1, 0, 0, 0)} |->
                     IF k.row = 0 THEN 2 ELSE 1]]

\* A part without address zero.
NoZeroPart ==
    [arch |-> "Series7",
     columns |-> [k \in {Key(0, 0, 1, 0), Key(0, 1, 0, 0)} |-> 2]]

TwoParts == {RowsPart, NoZeroPart}

Write(register, data) ==
    [opcode |-> "Write", address |-> register, data |-> data]

Increasing(n) == [i \in 1..n |-> i]

\* One packet of each kind the interpreter tells apart.
ControlPackets ==
    {Write("CMD", <<WCFG>>), Write("CMD", <<7>>), Write("CMD", <<>>),
     Write("MASK", <<2^21>>), Write("CTL1", <<2^21>>), Write("CTL1", <<0>>),
     Write("FAR", <<AddressWord("Series7", Address(0, 0, 1, 0, 0))>>),
     Write("FAR", <<AddressWord("Series7", Address(2, 1, 3, 40, 5))>>),
     Write("IDCODE", <<5>>), Write("IDCODE", <<6>>),
     Write("COR0", <<5>>),
     [opcode |-> "Read", address |-> "FDRI", data |-> <<>>]}

\* Words for no frame, one, one and a half, for the frames of a row with its
\* padding and the first of the next, and that from address zero or with the
\* row's second frame cut off; and one word more than whole frames.
DataPackets == {Write("FDRI", Increasing(n)) : n \in {0, 2, 3, 6, 7, 8, 10}}

AnyPackets == ControlPackets \union DataPackets

\* Every stream of up to three packets, and the streams that move FAR first
\* and go on with any two.
ShortStreams ==
    UNION {[1..n -> AnyPackets] : n \in 0..3}
        \union {<<Write("CMD", <<WCFG>>),
                  Write("FAR", <<AddressWord("Series7", Address(0, 0, 1, 0, 0))>>), p, q>> :
                    p \in AnyPackets, q \in AnyPackets}

\* Longer streams of the packets that decide where a burst starts.
MarkerPackets ==
    {Write("CMD", <<WCFG>>), Write("MASK", <<2^21>>), Write("CTL1", <<2^21>>),
     Write("FAR", <<AddressWord("Series7", Address(0, 0, 1, 0, 0))>>), Write("FDRI", Increasing(2))}

MarkerStreams == UNION {[1..n -> MarkerPackets] : n \in 5..6}

Streams == ShortStreams \union MarkerStreams
=============================================================================

---------------------------- MODULE MCBitstream ----------------------------
(***************************************************************************)
(* Small fields and packets for Bitstream: two registers, counts of up to  *)
(* one word in type 1 and up to seven in type 2 packets.                   *)
(***************************************************************************)
EXTENDS Bitstream

\* Five bytes, so that the sync word is not at a multiple of four.
Tlv == <<101, 0, 0, 0, 0>>

\* One dummy word, or two, and the sync word.
Dummies(n) == [i \in 1..n |-> <<255, 255, 255, 255>>]

DummiesAndSync == {Dummies(n) \o <<<<170, 153, 85, 102>>>> : n \in 1..2}

Padding == Packet(NONE, NOP, CRC, <<>>)

\* Data that reads as padding, as a type 1 packet without data, as a type 2
\* packet of one word and as an unknown header, if it is taken for a header.
Lookalikes == {0, 48, 73, 200}

Type1Packets ==
    {Packet(TYPE1, 2, address, data) :
        address \in {0, 1}, data \in {<<>>} \union {<<w>> : w \in Lookalikes}}

Type2Packets ==
    {Packet(TYPE2, 2, 1, data) :
        data \in {<<>>} \union {<<w, 48>> : w \in Lookalikes}}

\* Packets that do not fit: counts that wrap, and padding with a payload.
Overlong ==
    {Packet(TYPE1, 2, 1, <<48, 0>>), Packet(TYPE1, 2, 1, <<48, 48, 48>>),
     Packet(TYPE2, 2, 1, [i \in 1..8 |-> 48]), Packet(NONE, NOP, CRC, <<48>>)}

ListsOf(packetset, lengths) == UNION {[1..n -> packetset] : n \in lengths}

\* Packages to cut off: a few packets of each type.
CutPackages ==
    ListsOf({Padding, Packet(TYPE1, 2, 1, <<>>), Packet(TYPE1, 2, 0, <<48>>),
             Packet(TYPE2, 2, 1, <<48, 73>>), Packet(TYPE2, 2, 1, <<0, 0, 48>>)},
            1..3)

AllPackages ==
    CutPackages \union
    ListsOf({Padding} \union Type1Packets \union Type2Packets \union Overlong,
            0..3)

PaddedPackages ==
    ListsOf({Padding, Packet(TYPE1, 2, 1, <<>>), Packet(TYPE2, 2, 1, <<48>>)},
            0..3)

\* Room for all, and for some packages for every number of bytes less.
Ample(package) == {1000}

Scarce(package) == IF package \in CutPackages THEN 0..60 \union {1000} ELSE {1000}
=============================================================================

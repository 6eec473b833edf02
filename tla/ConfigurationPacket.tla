------------------------- MODULE ConfigurationPacket -------------------------
(***************************************************************************)
(* The words of a configuration packet of the 32-bit architectures:        *)
(* packet2header makes the header word, InitWithWords takes a packet off   *)
(* the front of a span of words.                                           *)
(*                                                                         *)
(* A header word has, from the top, 3 bits of header type and 2 of opcode. *)
(* A type 1 header goes on with the address of a register, reserved bits   *)
(* and the number of data words; in a type 2 header all the bits below the *)
(* opcode are the number of data words.  The sizes of the fields are       *)
(* constants, so that small ones can be exhausted.                         *)
(***************************************************************************)
EXTENDS Integers, Sequences

CONSTANTS
    AddressSize,  \* 2^14, bits 26 to 13
    ReservedSize, \* 2^2, bits 12 to 11
    CountSize     \* 2^11, bits 10 to 0

ASSUME ConfigurationPacketAssumption ==
    /\ AddressSize \in Nat \ {0}
    /\ ReservedSize \in Nat \ {0}
    /\ CountSize \in Nat \ {0}

\* The values of a type 2 packet's number of words: 2^27, bits 26 to 0.
LongCountSize == AddressSize * (ReservedSize * CountSize)

\* ConfigurationPacketType.
NONE  == 0
TYPE1 == 1
TYPE2 == 2

\* Opcode::NOP and the register CRC.
NOP == 0
CRC == 0

ConfigurationPacket ==
    [header_type : {NONE, TYPE1, TYPE2}, opcode : 0..3,
     address : 0..AddressSize - 1, data : Seq(Nat)]

-----------------------------------------------------------------------------

\* Header words by their fields; bit_field_set drops the bits of a value that
\* its field has no room for.
Header(header_type, opcode, low) ==
    (header_type * 4 + opcode) * LongCountSize + low

ShortFields(address, count) ==
    address * (ReservedSize * CountSize) + (count % CountSize)

LongFields(count) == count % LongCountSize

packet2header(packet) ==
    CASE packet.header_type = NONE -> 0
      [] packet.header_type = TYPE1 ->
            Header(TYPE1, packet.opcode,
                   ShortFields(packet.address, Len(packet.data)))
      [] packet.header_type = TYPE2 ->
            Header(TYPE2, packet.opcode, LongFields(Len(packet.data)))

\* bit_field_get, field by field.
HeaderType(word) == (word \div (4 * LongCountSize)) % 8

OpcodeOf(word) == (word \div LongCountSize) % 4

AddressOf(word) == (word \div (ReservedSize * CountSize)) % AddressSize

ShortCount(word) == word % CountSize

LongCount(word) == word % LongCountSize

-----------------------------------------------------------------------------

\* A ParseResult: the words that are left, and at most one packet.
Result(words, packets) == [first |-> words, second |-> packets]

Packet(header_type, opcode, address, data) ==
    [header_type |-> header_type, opcode |-> opcode,
     address |-> address, data |-> data]

\* The words after a header and its data, and the data.
After(words, count) == SubSeq(words, count + 2, Len(words))

DataOf(words, count) == SubSeq(words, 2, count + 1)

\* "If the full packet has not been received, return as though no valid
\* packet was found."
HasAll(words, count) == count <= Len(words) - 1

\* Type 0 is padding; a NOP stands for it.
ParsePadding(words) == Result(Tail(words), {Packet(NONE, NOP, CRC, <<>>)})

ParseType1(words) ==
    LET header == Head(words)
        count  == ShortCount(header)
    IN IF HasAll(words, count)
       THEN Result(After(words, count),
                   {Packet(TYPE1, OpcodeOf(header), AddressOf(header),
                           DataOf(words, count))})
       ELSE Result(words, {})

\* Mutants of ParseType2: only a type 1 packet counts as the previous one; the
\* words that have arrived are taken for the data.
ParseType2AfterType1(words, previous) ==
    LET header == Head(words)
        count  == LongCount(header)
    IN IF HasAll(words, count)
       THEN Result(After(words, count),
                   {Packet(TYPE2, OpcodeOf(header), p.address,
                           DataOf(words, count)) :
                       p \in {q \in previous : q.header_type = TYPE1}})
       ELSE Result(words, {})

ParseType2Partial(words, previous) ==
    LET header == Head(words)
        count  == IF HasAll(words, LongCount(header)) THEN LongCount(header)
                  ELSE Len(words) - 1
    IN Result(After(words, count),
              {Packet(TYPE2, OpcodeOf(header), p.address, DataOf(words, count)) :
                  p \in previous})

\* A type 2 packet is for the register of the previous packet; without one,
\* its words are consumed all the same.
ParseType2(words, previous) ==
    LET header == Head(words)
        count  == LongCount(header)
    IN IF HasAll(words, count)
       THEN Result(After(words, count),
                   {Packet(TYPE2, OpcodeOf(header), p.address,
                           DataOf(words, count)) : p \in previous})
       ELSE Result(words, {})

\* An unknown header type swallows all the words.
InitWithWords(words, previous) ==
    IF words = <<>> THEN Result(words, {})
    ELSE CASE HeaderType(Head(words)) = NONE  -> ParsePadding(words)
           [] HeaderType(Head(words)) = TYPE1 -> ParseType1(words)
           [] HeaderType(Head(words)) = TYPE2 -> ParseType2(words, previous)
           [] OTHER -> Result(<<>>, {})

=============================================================================

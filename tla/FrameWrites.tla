----------------------------- MODULE FrameWrites -----------------------------
(***************************************************************************)
(* What the two writers of bitstreams with a CRC after every frame share:  *)
(* bits2rbt, for Series-7, UltraScale and UltraScale+, and assemble, for   *)
(* UltraScale+.                                                            *)
(*                                                                         *)
(* A CRC stands for what it is computed from, the words written since the  *)
(* last reset and the registers they were written to: two CRCs agree only  *)
(* if they come from the same writes.                                      *)
(***************************************************************************)
EXTENDS PartAddressing, ConfigurationRegister, Sequences

CONSTANTS
    WordsPerFrame, \* 101, 123 or 93
    EccOf(_)       \* the last word of a frame, which stands for the ECC

ASSUME FrameWritesAssumption ==
    /\ WordsPerFrame \in Nat \ {0}
    /\ EccOf([i \in 1..WordsPerFrame |-> 0]) = 0

\* A packet that writes words to a register; crc is what a CRC packet carries.
Write(register, data) ==
    [header_type |-> 1, opcode |-> "Write", address |-> register,
     data |-> data, crc |-> <<>>]

WriteCRC(crc) ==
    [header_type |-> 1, opcode |-> "Write", address |-> "CRC",
     data |-> <<0>>, crc |-> crc]

CMD(name) == Write("CMD", <<Command[name]>>)

FAR(arch, a) == Write("FAR", <<AddressWord(arch, a)>>)

\* Words written one after the other to one register.
icap_crc(register, data, crc) ==
    crc \o [i \in DOMAIN data |-> <<register, data[i]>>]

\* The CRC after these writes.
CrcAfter(writes, crc) ==
    LET after[n \in 0..Len(writes)] ==
            IF n = 0 THEN crc
            ELSE icap_crc(writes[n].address, writes[n].data, after[n - 1])
    IN after[Len(writes)]

ZeroFrame == [i \in 1..WordsPerFrame |-> 0]

Bit(word, bit) == (word \div 2^bit) % 2 = 1

SetBitOf(word, bit) == IF Bit(word, bit) THEN word ELSE word + 2^bit

\* The ECC bits of a frame are what they have to be, whatever was in them.
WithEcc(data) ==
    [data EXCEPT ![WordsPerFrame] = EccOf([data EXCEPT ![WordsPerFrame] = 0])]

\* ++it on a std::map with these keys, from the position of a.
NextKey(keys, a) ==
    {b \in keys : Packed(b) > Packed(a) /\
                  \A c \in keys : Packed(c) > Packed(a) => Packed(b) <= Packed(c)}

First(keys) == CHOOSE a \in keys : \A b \in keys : Packed(a) <= Packed(b)

=============================================================================

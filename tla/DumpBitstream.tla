---------------------------- MODULE DumpBitstream ----------------------------
(***************************************************************************)
(* dump_bitstream: the set bits of the frames in an UltraScale+ bitstream, *)
(* by the FAR packets and by a list of frames, which it goes on along when *)
(* a CRC packet or the end of a frame comes.                               *)
(***************************************************************************)
EXTENDS Integers, Sequences

CONSTANTS
    WordsPerFrame, \* 93
    WordBits       \* 32

VARIABLES
    stream,     \* the packets of the bitstream
    dump_next,  \* next_frame, on address words
    ptr,        \* the number of packets taken
    frame, word,
    curr_crc,
    data,       \* the words of an FDRI packet that are still to be processed
    printed,    \* the lines printed, <<frame, word, bit>>
    crc_errors, \* the number of "*****" comments
    dump_pc     \* "reading", "done"

dump_vars ==
    <<dump_next, ptr, frame, word, curr_crc, data, printed, crc_errors, dump_pc>>

-----------------------------------------------------------------------------

Bit(value, bit) == (value \div 2^bit) % 2 = 1

\* The words written, with the register they go to.
icap_crc(register, values, crc) ==
    crc \o [i \in DOMAIN values |-> <<register, values[i]>>]

InitDump ==
    /\ ptr = 0
    /\ frame = 0
    /\ word = 0
    /\ curr_crc = <<>>
    /\ data = <<>>
    /\ printed = {}
    /\ crc_errors = 0
    /\ dump_pc = "reading"

\* frame = next_frame.at(frame), if it has one.
Advanced == IF frame \in DOMAIN dump_next THEN dump_next[frame] ELSE frame

Taken == stream[ptr + 1]

TakePacket ==
    /\ dump_pc = "reading"
    /\ data = <<>>
    /\ ptr < Len(stream)
    /\ ptr' = ptr + 1
    /\ UNCHANGED <<stream, dump_next, dump_pc>>

\* Type 1 packets that write this register; a type 2 packet has no cases but
\* for FDRI.
Writes(register) ==
    /\ TakePacket
    /\ Taken.opcode = "Write"
    /\ Taken.address = register
    /\ Taken.header_type = 1 \/ register = "FDRI"

SkipPacket ==
    /\ TakePacket
    /\ Taken.opcode # "Write"
    /\ UNCHANGED <<frame, word, curr_crc, data, printed, crc_errors>>

WriteFAR ==
    /\ Writes("FAR")
    /\ frame' = Taken.data[1]
    /\ word' = 0
    /\ curr_crc' = icap_crc("FAR", Taken.data, curr_crc)
    /\ UNCHANGED <<data, printed, crc_errors>>

\* Mutant of WriteCRC: the frame stays.
WriteCRCInPlace ==
    /\ Writes("CRC")
    /\ crc_errors' = crc_errors + IF Taken.crc = curr_crc THEN 0 ELSE 1
    /\ curr_crc' = <<>>
    /\ UNCHANGED <<frame, word, data, printed>>

\* The frame goes on, the word counter does not.
WriteCRC ==
    /\ Writes("CRC")
    /\ crc_errors' = crc_errors + IF Taken.crc = curr_crc THEN 0 ELSE 1
    /\ curr_crc' = <<>>
    /\ frame' = Advanced
    /\ UNCHANGED <<word, data, printed>>

WriteCMD ==
    /\ Writes("CMD")
    /\ curr_crc' = IF Taken.data # <<>> /\ Taken.data[Len(Taken.data)] = 7
                   THEN <<>> ELSE icap_crc("CMD", Taken.data, curr_crc)
    /\ UNCHANGED <<frame, word, data, printed, crc_errors>>

WriteFDRI ==
    /\ Writes("FDRI")
    /\ data' = Taken.data
    /\ curr_crc' = icap_crc("FDRI", Taken.data, curr_crc)
    /\ UNCHANGED <<frame, word, printed, crc_errors>>

\* process_word: the bits of the word but for those of the ECC.  The word
\* counter goes on past the end of a frame; the last word stands for the ECC.
ProcessWord ==
    /\ data # <<>>
    /\ printed' = printed \union
           {<<frame, word, j>> :
               j \in {i \in 0..WordBits - 1 :
                         Bit(Head(data), i) /\ word # WordsPerFrame - 1}}
    /\ word' = word + 1
    /\ frame' = IF word' >= WordsPerFrame THEN Advanced ELSE frame
    /\ data' = Tail(data)
    /\ UNCHANGED <<stream, dump_next, ptr, curr_crc, crc_errors, dump_pc>>

WriteOther ==
    /\ TakePacket
    /\ Taken.opcode = "Write"
    /\ \/ Taken.address \notin {"FAR", "CRC", "CMD", "FDRI"}
       \/ Taken.header_type # 1 /\ Taken.address # "FDRI"
    /\ curr_crc' = icap_crc(Taken.address, Taken.data, curr_crc)
    /\ UNCHANGED <<frame, word, data, printed, crc_errors>>

EndOfData ==
    /\ dump_pc = "reading"
    /\ data = <<>>
    /\ ptr = Len(stream)
    /\ dump_pc' = "done"
    /\ UNCHANGED <<stream, dump_next, ptr, frame, word, curr_crc, data, printed,
                   crc_errors>>

parse_bitstream ==
    \/ SkipPacket \/ WriteFAR \/ WriteCRC \/ WriteCMD \/ WriteFDRI
    \/ ProcessWord \/ WriteOther \/ EndOfData

=============================================================================

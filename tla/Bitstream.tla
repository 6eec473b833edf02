------------------------------ MODULE Bitstream ------------------------------
(***************************************************************************)
(* A bitstream file between the tool that writes it and a tool that reads  *)
(* it: BitstreamWriter and BitstreamReader over the same bytes.  The file  *)
(* may end early, where the writer ran out of room.                        *)
(***************************************************************************)
EXTENDS ConfigurationPacket

CONSTANTS
    FileHeader, \* BitstreamWriter
    Headers,    \* the fixed headers of the architectures
    Packages,   \* the lists of packets that are written
    Rooms(_)    \* the bytes there may be room for, by the packets

ASSUME BitstreamAssumption ==
    /\ FileHeader \in Seq(0..255)
    /\ Len(FileHeader) >= 4
    /\ \A header \in Headers : header \in Seq([1..4 -> 0..255]) /\ header # <<>>
    /\ \A package \in Packages :
           package \in Seq(ConfigurationPacket) /\ Rooms(package) \subseteq Nat

VARIABLES
    header_, packets, room, out_file, good, itr_header, itr_packets, state,
    itr_data, status,                     \* BitstreamWriter
    words, packet, position, yielded, pc  \* BitstreamReader

writer_vars == <<header_, packets, room, out_file, good, itr_header, itr_packets,
                 state, itr_data, status>>

reader_vars == <<words, packet, position, yielded, pc>>

vars == <<writer_vars, reader_vars>>

Writer == INSTANCE BitstreamWriter

Reader == INSTANCE BitstreamReader WITH bitstream <- out_file

\* The largest file, in bytes.
LargestFile == 2147483647

(***************************************************************************)
(* What comes before the sync word is not taken for it.  The names in the  *)
(* file header do not contain it.  Before the length, the file header ends *)
(* in the time of day, a zero and an "e"; the length is zero at first, and *)
(* less than 2^31 then.  Of the fixed header only the last word has any of *)
(* the bytes of the sync word, and it is the sync word.                    *)
(***************************************************************************)
ASSUME SyncAssumption ==
    /\ \A i \in 1..Len(FileHeader) - 3 :
           SubSeq(FileHeader, i, i + 3) # Reader!kSyncWord
    /\ \A i \in DOMAIN FileHeader :
           i > Len(FileHeader) - 7 => FileHeader[i] # 170
    /\ \A header \in Headers :
           /\ \A i \in 1..Len(header) - 1, b \in 1..4 :
                  header[i][b] \notin {170, 153, 85, 102}
           /\ header[Len(header)] = Reader!kSyncWord
    /\ \A package \in Packages : \A n \in Rooms(package) : n <= LargestFile

-----------------------------------------------------------------------------

Init ==
    /\ header_ \in Headers
    /\ packets \in Packages
    /\ room \in Rooms(packets)
    /\ Writer!InitWriter
    /\ Reader!InitReader

WriteFile == Writer!writeBitstream /\ UNCHANGED <<header_, reader_vars>>

ReadFile ==
    /\ status = "written"
    /\ Reader!ReaderNext
    /\ UNCHANGED writer_vars

Next == WriteFile \/ ReadFile

Spec == Init /\ [][Next]_vars

\* Each program is one thread that runs until it returns.
FairSpec == Spec /\ WF_vars(Next)

-----------------------------------------------------------------------------

(***************************************************************************)
(* The packets that the words can say: padding is nothing but padding, a   *)
(* type 2 packet is for the register of the packet before it, and the      *)
(* counts fit their fields.                                                *)
(***************************************************************************)
Sayable(package) ==
    \A i \in DOMAIN package :
        LET p == package[i]
        IN CASE p.header_type = NONE -> p = Packet(NONE, NOP, CRC, <<>>)
             [] p.header_type = TYPE1 -> Len(p.data) < CountSize
             [] p.header_type = TYPE2 ->
                    /\ Len(p.data) < LongCountSize
                    /\ i > 1 /\ package[i - 1].address = p.address

\* A file that was written to its end is read as the packets that were
\* written exactly when the words can say them.
ReadsWhatWasWritten ==
    pc = "done" /\ good => (yielded = packets <=> Sayable(packets))

\* Wherever a file of such packets ends, what is read of it is a first part
\* of the packets: no packet is read shortened or in the place of another.
ReadsFirstPart ==
    Sayable(packets) =>
        /\ Len(yielded) <= Len(packets)
        /\ yielded = SubSeq(packets, 1, Len(yielded))

\* Writing and reading end, and reading does not end in an exception unless
\* the file was cut off.
Ends ==
    <>(\/ status = "unopened"
       \/ pc \in {"unsynced", "done"}
       \/ pc = "aborted" /\ ~good)

(***************************************************************************)
(* "Just consume the bytes without generating a packet": what the comment  *)
(* in InitWithWords says of type 0 words.  The packets among such words    *)
(* would then be read as if the words were not there.                      *)
(***************************************************************************)
IsNotPadding(p) == p.header_type # NONE

Unpadded(package) == SelectSeq(package, IsNotPadding)

PaddingIsConsumed ==
    pc = "done" /\ good /\ Sayable(Unpadded(packets)) =>
        Unpadded(yielded) = Unpadded(packets)

=============================================================================

----------------------------- MODULE Frames2Bit -----------------------------
(***************************************************************************)
(* xcframes2bit: the Frames container and the writers of packets and of    *)
(* the file; and reading the file back, as xcpatch and bitread do, by the  *)
(* parser and the interpreter of packets.  Each hands what it has made to  *)
(* the next when it is done.                                               *)
(***************************************************************************)
EXTENDS PartAddressing, ConfigurationRegister, Sequences

CONSTANTS
    WordsPerFrame, Word, Ecc(_), Parts, FrmFiles(_), IdCode,
    FileHeader, \* BitstreamWriter
    Rooms(_, _) \* the bytes there may be room for, by the part and the file

VARIABLES
    part,
    frm_file, line, frames_data, current, frames_pc, \* Frames
    remaining, packet_data, packets, writer_pc,      \* ConfigurationWriter
    room, out_file, good, itr_header, itr_packets, state, itr_data,
    status,                                          \* BitstreamWriter
    words, packet, position, yielded, parser_pc,     \* BitstreamReader
    pos, command_register, frame_address_register, mask_register,
    ctl1_register, start_new_write, current_frame_address, ii,
    read_back, reader_pc                             \* Configuration

container_vars == <<frm_file, line, frames_data, current, frames_pc>>

writer_vars == <<remaining, packet_data, packets, writer_pc>>

file_vars == <<room, out_file, good, itr_header, itr_packets, state, itr_data,
               status>>

parser_vars == <<words, packet, position, yielded, parser_pc>>

reader_vars == <<pos, command_register, frame_address_register, mask_register,
                 ctl1_register, start_new_write, current_frame_address, ii,
                 read_back, reader_pc>>

vars == <<part, container_vars, writer_vars, file_vars, parser_vars, reader_vars>>

-----------------------------------------------------------------------------

Dummies(n) == [i \in 1..n |-> <<255, 255, 255, 255>>]

\* 0x000000BB and 0x11220044, two dummy words and the sync word.
BusWidthAndSync ==
    <<<<0, 0, 0, 187>>, <<17, 34, 0, 68>>>> \o Dummies(2)
        \o <<<<170, 153, 85, 102>>>>

\* BitstreamWriter<ArchType>::header_.
header_ ==
    Dummies(CASE part.arch = "Series7" -> 8
              [] part.arch = "UltraScale" -> 1
              [] part.arch = "UltraScalePlus" -> 16) \o BusWidthAndSync

\* Opcodes and registers as the bits of a header word, and back.
Numbered(package) ==
    [i \in DOMAIN package |->
        [package[i] EXCEPT !.opcode = OpcodeNumber[@],
                           !.address = RegisterNumber[@]]]

Named(package) ==
    [i \in DOMAIN package |->
        [opcode |-> OpcodeName[package[i].opcode],
         address |-> RegisterOf(package[i].address),
         data |-> package[i].data]]

-----------------------------------------------------------------------------

Container == INSTANCE Frames

Writer == INSTANCE ConfigurationWriter WITH frames <- frames_data

\* The sizes of the fields of a header word, as in the code: 14 bits, 2 and 11.
AddressSize  == 16384
ReservedSize == 4
CountSize    == 2048

File == INSTANCE BitstreamWriter WITH packets <- Numbered(packets)

Parser == INSTANCE BitstreamReader
              WITH bitstream <- out_file, pc <- parser_pc

Reader == INSTANCE Configuration
              WITH packets <- Named(yielded), frames <- read_back,
                   pc <- reader_pc, PacketStreams <- {}

\* The largest file, in bytes.
LargestFile == 2147483647

(***************************************************************************)
(* Spartan-6 has writers and a reader of its own.  The words of the frames *)
(* of a part, with padding behind every frame and two frames at the end,   *)
(* can be counted in a type 2 header, which drops the bits of a count that *)
(* it has no room for.  The file header is bytes in which no sync word is, *)
(* not even with what comes after them: it ends in the time of day, a      *)
(* zero, an "e" and the length.                                            *)
(***************************************************************************)
ASSUME Frames2BitAssumption ==
    /\ Container!FramesConstants
    /\ IdCode \in Nat
    /\ \A p \in Parts :
          /\ p.arch # "Spartan6"
          /\ (3 * Cardinality(ValidAddresses(p)) + 5) * WordsPerFrame
                 < File!LongCountSize
          /\ \A lines \in FrmFiles(p) : Rooms(p, lines) \subseteq 0..LargestFile
    /\ FileHeader \in Seq(0..255) /\ Len(FileHeader) >= 4
    /\ \A i \in 1..Len(FileHeader) - 3 :
           SubSeq(FileHeader, i, i + 3) # Parser!kSyncWord
    /\ \A i \in DOMAIN FileHeader :
           i > Len(FileHeader) - 7 => FileHeader[i] # 170

-----------------------------------------------------------------------------

Init ==
    /\ Container!Init
    /\ room \in Rooms(part, frm_file)
    /\ Writer!InitWriter
    /\ File!InitWriter
    /\ Parser!InitReader
    /\ Reader!InitRegisters

CollectFrames ==
    /\ Container!Next
    /\ UNCHANGED <<writer_vars, file_vars, parser_vars, reader_vars>>

\* An invalid .frm file ends the program before anything is written.
MakePackets ==
    /\ frames_pc = "complete"
    /\ Writer!WriterNext
    /\ UNCHANGED <<container_vars, file_vars, parser_vars, reader_vars>>

\* The program returns 0 whether the file could be written or not.
WriteFile ==
    /\ writer_pc = "packaged"
    /\ UNCHANGED <<part, container_vars, writer_vars, parser_vars, reader_vars>>
    /\ File!writeBitstream

\* Any of the tools that read a bitstream.
ReadPackets ==
    /\ status = "written"
    /\ Parser!ReaderNext
    /\ UNCHANGED <<part, container_vars, writer_vars, file_vars, reader_vars>>

Interpret ==
    /\ parser_pc = "done"
    /\ UNCHANGED <<container_vars, writer_vars, file_vars, parser_vars>>
    /\ Reader!Next

Next ==
    CollectFrames \/ MakePackets \/ WriteFile \/ ReadPackets \/ Interpret

Spec == Init /\ [][Next]_vars

\* Each program is one thread that runs until it returns.
FairSpec == Spec /\ WF_vars(Next)

-----------------------------------------------------------------------------

(***************************************************************************)
(* The round trip transfers the frames as FrameTransfer promises: every    *)
(* frame of the file and every missing frame arrives, in order and         *)
(* unchanged, and nothing else does, up to the first frame whose address   *)
(* the walk from address zero does not come by; an invalid file transfers  *)
(* nothing.                                                                *)
(***************************************************************************)
Keyed(map) ==
    [key \in {Packed(a) : a \in DOMAIN map} |->
        map[CHOOSE a \in DOMAIN map : Packed(a) = key]]

Displacing == DOMAIN frames_data \ WalkedAddresses(part)

Transfer ==
    INSTANCE FrameTransfer WITH
        sent    <- Keyed(frames_data),
        arrived <- Keyed(read_back),
        astray  <- {Packed(a) : a \in Displacing},
        phase   <- IF frames_pc \in {"aborted", "invalid"} THEN "abandoned"
                   ELSE IF frames_pc = "complete" THEN "transferring"
                   ELSE "collecting"

TransfersFrames == Transfer!Spec

\* A .frm file is found invalid, or the bitstream cannot be opened or is cut
\* off, or every frame arrives if the walk comes by it.
TransferEnds ==
    <>(\/ frames_pc \in {"aborted", "invalid"}
       \/ status = "unopened"
       \/ parser_pc \in {"unsynced", "aborted"} /\ ~good
       \/ reader_pc = "accepted" /\ (good /\ Displacing = {} => Transfer!Complete))

(***************************************************************************)
(* A frame of an address that the walk from zero does not reach is not     *)
(* read back where it was written, and displaces all that follow it.  The  *)
(* frames before the first such frame are read back intact, unless the     *)
(* bitstream was cut off.                                                  *)
(***************************************************************************)
IntactBeforeUnwalked ==
    reader_pc = "accepted" /\ good =>
        \A a \in DOMAIN frames_data :
            (\A u \in Displacing : Packed(a) < Packed(u)) =>
                a \in DOMAIN read_back /\ read_back[a] = frames_data[a]

\* What is read back is what was written exactly when the walk from address
\* zero reaches every frame that was written.
LosslessExactlyWhenWalked ==
    reader_pc = "accepted" /\ good => (read_back = frames_data <=> Displacing = {})

(***************************************************************************)
(* All frames travel in one type 2 packet, and a packet that is not there  *)
(* to its last word is not read.  So from a bitstream that was cut off,    *)
(* wherever that was, all the frames are read or none, never some, on the  *)
(* parts on which all are read from a whole one.                           *)
(***************************************************************************)
AllFramesOrNone ==
    reader_pc = "accepted" /\ Displacing = {} =>
        read_back = <<>> \/ read_back = frames_data

=============================================================================

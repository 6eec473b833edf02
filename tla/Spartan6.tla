------------------------------ MODULE Spartan6 ------------------------------
(***************************************************************************)
(* Frames of a Spartan-6 written to a bitstream and read back: its         *)
(* createType2ConfigurationPacketData, createConfigurationPackage, the     *)
(* words of the file, the iterator over packets and InitWithPackets.       *)
(*                                                                         *)
(* Nothing separates the rows.  The interpreter cuts the data every        *)
(* WordsPerFrame words, while the frames of a .frm file may have any       *)
(* number of words.                                                        *)
(***************************************************************************)
EXTENDS PartAddressing, Spartan6Packet, Bitwise

CONSTANTS
    WordsPerFrame, \* ArchType::words_per_frame
    IdCode,        \* part.idcode() in two words
    Parts,         \* the parts a .yaml file may hold
    FrameMaps(_),  \* the maps of frames written for a part
    Rooms(_)       \* the bytes there may be room for, by the frames

ASSUME Spartan6Assumption ==
    /\ WordsPerFrame \in Nat \ {0}
    /\ IdCode \in (0..65535) \X (0..65535)
    /\ \A part \in Parts :
          /\ IsPart(part) /\ part.arch = "Spartan6"
          /\ \A frames \in FrameMaps(part) :
                /\ DOMAIN frames \subseteq FrameAddress
                /\ \A a \in DOMAIN frames : frames[a] \in Seq(0..65535)
                /\ Rooms(frames) \subseteq Nat

VARIABLES
    part,
    frames,      \* the frames to write, by address
    remaining,   \* the addresses the loop over the frames has still to visit
    packet_data, \* the words laid out so far
    file,        \* the words of the packets
    room,        \* the bytes of the file after the text header
    words,       \* the words that the iterator over packets has before it
    packet,      \* the packet that is interpreted
    frame_address_register, \* major and minor word
    start_new_write,
    current_frame_address,
    ii,          \* the offset of the next frame in an FDRI packet
    read_back,   \* the frames read
    pc           \* "packing", "packed", "packaged", "parsing", "interpreting", "burst";
                 \* "accepted", "rejected", "unsynced", "aborted"

input == <<part, frames, room>>

writer_vars == <<remaining, packet_data, file>>

parser_vars == <<words, packet>>

far_state == <<frame_address_register, start_new_write>>

burst_state == <<current_frame_address, ii, read_back>>

vars == <<input, writer_vars, parser_vars, far_state, burst_state, pc>>

Init ==
    /\ part \in Parts
    /\ frames \in FrameMaps(part)
    /\ room \in Rooms(frames)
    /\ remaining = DOMAIN frames
    /\ packet_data = <<>>
    /\ file = <<>>
    /\ words = <<>>
    /\ packet = Packet(0, NoOperation, 0, <<>>)
    /\ frame_address_register = [major |-> 0, minor |-> 0]
    /\ start_new_write = FALSE
    /\ current_frame_address = ZeroAddress
    /\ ii = 0
    /\ read_back = <<>>
    /\ pc = "packing"

-----------------------------------------------------------------------------

\* One turn of the loop over the std::map of frames, in address order.
PackFrame ==
    /\ pc = "packing"
    /\ \E a \in remaining :
          /\ \A b \in remaining : Packed(a) <= Packed(b)
          /\ packet_data' = packet_data \o frames[a]
          /\ remaining' = remaining \ {a}
    /\ UNCHANGED <<input, file, parser_vars, far_state, burst_state, pc>>

\* The two words of size() - 2, which is below zero for an unsigned number
\* when there is less than two words.  Data are less than 2^16 words here.
PayloadLength ==
    LET n == Len(packet_data)
    IN IF n >= 2 THEN <<0, n - 2>> ELSE <<65535, 65534 + n>>

EndPacking ==
    /\ pc = "packing"
    /\ remaining = {}
    /\ packet_data' = PayloadLength \o packet_data
    /\ pc' = "packed"
    /\ UNCHANGED <<input, remaining, file, parser_vars, far_state, burst_state>>

createType2ConfigurationPacketData == PackFrame \/ EndPacking

-----------------------------------------------------------------------------

Write(register, data) ==
    <<Packet(1, WriteOperation, Register[register], data)>>

CMD(name) == Write("CMD", <<Command[name]>>)

NOPs(n) == [i \in 1..n |-> Packet(1, NoOperation, 0, <<>>)]

Control(mask) == Write("MASK", <<mask>>) \o Write("CTL", <<129>>)

\* Mutant of Identification: the halves of the IDCODE are swapped.
IdentificationSwapped ==
    CMD("RCRC") \o NOPs(1) \o Write("FLR", <<896>>) \o Write("COR1", <<15624>>)
        \o Write("COR2", <<2542>>) \o Write("IDCODE", <<IdCode[2], IdCode[1]>>)
        \o Control(207) \o NOPs(17)

Identification ==
    CMD("RCRC") \o NOPs(1) \o Write("FLR", <<896>>) \o Write("COR1", <<15624>>)
        \o Write("COR2", <<2542>>) \o Write("IDCODE", IdCode) \o Control(207)
        \o NOPs(17)

Options ==
    Write("CCLK_FREQ", <<15560>>) \o Write("PWRDN_REG", <<2177>>)
        \o Write("EYE_MASK", <<0>>) \o Write("HC_OPT_REG", <<31>>)
        \o Write("CWDT", <<65535>>) \o Write("PU_GWE", <<5>>)
        \o Write("PU_GTS", <<4>>) \o Write("MODE_REG", <<256>>)
        \o Write("GENERAL1", <<0>>) \o Write("GENERAL2", <<0>>)
        \o Write("GENERAL3", <<0>>) \o Write("GENERAL4", <<0>>)
        \o Write("GENERAL5", <<0>>) \o Write("SEU_OPT", <<7138>>)
        \o Write("EXP_SIGN", <<0, 0>>) \o NOPs(2)

FrameWrite ==
    Write("FAR_MAJ", <<0, 0>>) \o CMD("WCFG")
        \o <<Packet(2, WriteOperation, Register["FDRI"], packet_data)>>
        \o NOPs(24)

Finalization ==
    CMD("GRESTORE") \o CMD("LFRM") \o NOPs(4) \o CMD("GRESTORE")
        \o CMD("START") \o Control(255) \o Write("CRC", <<57, 58403>>)
        \o CMD("DESYNC") \o NOPs(14)

Package == Identification \o Options \o FrameWrite \o Finalization

\* The header word and the data of each packet.
PacketWords(package) ==
    LET first[n \in 0..Len(package)] ==
            IF n = 0 THEN <<>>
            ELSE first[n - 1] \o <<packet2header(package[n])>> \o package[n].data
    IN first[Len(package)]

\* The packets are kept as the words that the file will have of them.
createConfigurationPackage ==
    /\ pc = "packed"
    /\ file' = PacketWords(Package)
    /\ pc' = "packaged"
    /\ UNCHANGED <<input, remaining, packet_data, parser_vars, far_state,
                   burst_state>>

\* Eight dummy words and the sync word in two halves.
header_ == [i \in 1..8 |-> 65535] \o <<43673, 21862>>

\* The bytes of the packets that the file has.
PayloadBytes == room - 2 * Len(header_)

Whole == PayloadBytes >= 2 * Len(file)

\* writeBitstream, and InitWithBytes on the file it leaves.
WriteFile ==
    /\ pc = "packaged"
    /\ PayloadBytes >= 0
    /\ Whole \/ PayloadBytes % 2 = 0
    /\ words' = SubSeq(file, 1, Min({PayloadBytes \div 2, Len(file)}))
    /\ pc' = "parsing"
    /\ UNCHANGED <<input, writer_vars, packet, far_state, burst_state>>

\* There is no whole sync word, or half a word at the end.
FailToRead ==
    /\ pc = "packaged"
    /\ ~Whole
    /\ \/ PayloadBytes < 0 /\ pc' = "unsynced"
       \/ PayloadBytes >= 0 /\ PayloadBytes % 2 = 1 /\ pc' = "aborted"
    /\ UNCHANGED <<input, writer_vars, parser_vars, far_state, burst_state>>

-----------------------------------------------------------------------------

\* The loop takes the next packet.
ParsePacket ==
    /\ pc = "parsing"
    /\ \E result \in InitWithWords(words) :
          words' = result.first /\ packet' = result.second
    /\ ii' = 0
    /\ pc' = "interpreting"
    /\ UNCHANGED <<input, writer_vars, far_state, current_frame_address,
                   read_back>>

EndOfPackets ==
    /\ pc = "parsing"
    /\ GivesNothing(words)
    /\ pc' = "accepted"
    /\ UNCHANGED <<input, writer_vars, parser_vars, far_state, burst_state>>

AbortOnShortPacket ==
    /\ pc = "parsing"
    /\ Throws(words)
    /\ pc' = "aborted"
    /\ UNCHANGED <<input, writer_vars, parser_vars, far_state, burst_state>>

\* The packet writes a register and has this many words for it.
Loads(register, count) ==
    /\ packet.opcode = WriteOperation
    /\ packet.address = Register[register]
    /\ Len(packet.data) >= count

Interpret ==
    /\ pc = "interpreting"
    /\ UNCHANGED <<input, writer_vars, parser_vars>>

\* MASK and CTL are stored and never looked at.
SkipPacket ==
    /\ Interpret
    /\ ~Loads("CMD", 1) /\ ~Loads("IDCODE", 2)
    /\ ~Loads("FAR_MAJ", 1) /\ ~Loads("FAR_MIN", 1) /\ ~Loads("FDRI", 0)
    /\ pc' = "parsing"
    /\ UNCHANGED <<far_state, burst_state>>

WriteCMD ==
    /\ Interpret
    /\ Loads("CMD", 1)
    /\ start_new_write' = (start_new_write \/ packet.data[1] = Command["WCFG"])
    /\ pc' = "parsing"
    /\ UNCHANGED <<frame_address_register, burst_state>>

WriteIDCODE ==
    /\ Interpret
    /\ Loads("IDCODE", 2)
    /\ pc' = IF SubSeq(packet.data, 1, 2) = IdCode THEN "parsing" ELSE "rejected"
    /\ UNCHANGED <<far_state, burst_state>>

\* assert(packet_size < 3) is not there in a release build.
WriteFAR_MAJ ==
    /\ Interpret
    /\ Loads("FAR_MAJ", 1)
    /\ frame_address_register' =
           [major |-> packet.data[1],
            minor |-> IF Len(packet.data) >= 2 THEN packet.data[2] ELSE 0]
    /\ pc' = "parsing"
    /\ UNCHANGED <<start_new_write, burst_state>>

WriteFAR_MIN ==
    /\ Interpret
    /\ Loads("FAR_MIN", 1)
    /\ frame_address_register' =
           [frame_address_register EXCEPT !.minor = @ | (packet.data[1] % 1024)]
    /\ pc' = "parsing"
    /\ UNCHANGED <<start_new_write, burst_state>>

\* FrameAddress(uint32_t); the bits between the minor and the column, which
\* are zero wherever an FDRI packet starts, are left out.
AddressInFAR ==
    LET major == frame_address_register.major
    IN Address(major \div 4096, 0, (major \div 256) % 16, major % 256,
               frame_address_register.minor % 1024)

BeginFDRI ==
    /\ Interpret
    /\ Loads("FDRI", 0)
    /\ current_frame_address' =
           IF start_new_write THEN AddressInFAR ELSE current_frame_address
    /\ start_new_write' = FALSE
    /\ pc' = "burst"
    /\ UNCHANGED <<frame_address_register, ii, read_back>>

\* packet.data().subspan(ii, words_per_frame), cut off at the end.
Frame ==
    SubSeq(packet.data, ii + 1, Min({ii + WordsPerFrame, Len(packet.data)}))

\* One turn of the loop over the data of an FDRI packet.
StoreFrame ==
    /\ pc = "burst"
    /\ ii < Len(packet.data)
    /\ read_back' = [a \in DOMAIN read_back \union {current_frame_address} |->
                        IF a = current_frame_address THEN Frame
                        ELSE read_back[a]]
    /\ LET next == GetNextFrameAddress(part, current_frame_address)
       IN \/ /\ next = {}
             /\ pc' = "parsing"
             /\ UNCHANGED <<current_frame_address, ii>>
          \/ /\ current_frame_address' \in next
             /\ ii' = ii + WordsPerFrame
             /\ UNCHANGED pc
    /\ UNCHANGED <<input, writer_vars, parser_vars, far_state>>

EndFDRI ==
    /\ pc = "burst"
    /\ ii >= Len(packet.data)
    /\ pc' = "parsing"
    /\ UNCHANGED <<input, writer_vars, parser_vars, far_state, burst_state>>

InitWithPackets ==
    \/ ParsePacket
    \/ EndOfPackets
    \/ AbortOnShortPacket
    \/ SkipPacket
    \/ WriteCMD
    \/ WriteIDCODE
    \/ WriteFAR_MAJ
    \/ WriteFAR_MIN
    \/ BeginFDRI
    \/ StoreFrame
    \/ EndFDRI

Next ==
    \/ createType2ConfigurationPacketData
    \/ createConfigurationPackage
    \/ WriteFile
    \/ FailToRead
    \/ InitWithPackets

Spec == Init /\ [][Next]_vars

-----------------------------------------------------------------------------

LastFrame == {a \in DOMAIN frames : \A b \in DOMAIN frames : Packed(b) <= Packed(a)}

\* Every frame before the last is of the length that the reader cuts off.
Aligned ==
    /\ \A a \in DOMAIN frames \ LastFrame : Len(frames[a]) = WordsPerFrame
    /\ \A a \in LastFrame : Len(frames[a]) \in 1..WordsPerFrame

\* The walk from address zero comes by the frames in their order.
Walked ==
    \A a \in WalkedAddresses(part) :
        a \notin DOMAIN frames => \A b \in DOMAIN frames : Packed(b) < Packed(a)

Reached == Walked /\ DOMAIN frames \subseteq WalkedAddresses(part)

\* What the parser goes on with after the data: their last two words again,
\* unless there are not that many, and the packets behind.
Behind ==
    SubSeq(packet_data, Len(packet_data) - 1, Len(packet_data))
        \o PacketWords(NOPs(24) \o Finalization)

\* The words read again that are taken for headers: the second is one unless
\* the first takes it for its data or ends the loop over packets.
Headers ==
    {1} \union
        IF \/ HeaderType(Behind) = 0
           \/ HeaderType(Behind) = 1 /\ ShortCount(Behind) = 0
        THEN {2} ELSE {}

\* What a packet with its header there has for data.
Reread(i) == SubSeq(Behind, i + 1, i + ShortCount(<<Behind[i]>>))

\* A word that is taken for the header of a write to a register.
SeemsToWrite(i, register, count) ==
    LET word == <<Behind[i]>>
    IN /\ HeaderType(word) = 1
       /\ OpcodeOf(word) = WriteOperation
       /\ AddressOf(word) = Register[register]
       /\ ShortCount(word) >= count

\* It names another part.
NamesAnother(i) ==
    SeemsToWrite(i, "IDCODE", 2) /\ SubSeq(Reread(i), 1, 2) # IdCode

\* It loads a frame after the last, or over the last and differing from it.
LoadsAnother(i) ==
    /\ SeemsToWrite(i, "FDRI", 1)
    /\ \E a \in LastFrame :
          \/ GetNextFrameAddress(part, a) # {}
          \/ frames[a] # SubSeq(Reread(i), 1, Min({WordsPerFrame, Len(Reread(i))}))

Harmless == \A i \in Headers : ~NamesAnother(i) /\ ~LoadsAnother(i)

\* The words that are written after a frame.
WordsAfter(a) ==
    MapThenSumSet(LAMBDA b : Len(frames[b]),
                  {b \in DOMAIN frames : Packed(b) > Packed(a)})

Finished == pc \in {"accepted", "rejected", "unsynced", "aborted"}

(***************************************************************************)
(* From a whole file the frames are read back as they were written exactly *)
(* when there are two words of them, the walk comes by them in order, only *)
(* the last is not WordsPerFrame long, and its last two words, which are   *)
(* parsed a second time as packets, neither name another part nor load     *)
(* frames other than the last as it is.                                    *)
(***************************************************************************)
LosslessExactlyWhenHarmless ==
    Finished /\ Whole =>
        (pc = "accepted" /\ read_back = frames
             <=> \/ frames = <<>>
                 \/ /\ Len(packet_data) >= 4
                    /\ Aligned /\ Reached /\ Harmless)

(***************************************************************************)
(* Wherever the file ends and whatever the last two words are taken for,   *)
(* of frames that the walk comes by all that end before these two words    *)
(* are read intact or none are: the length check of the parser leaves out  *)
(* two words, so that only the frames that have them can be cut short.     *)
(***************************************************************************)
AllButTailOrNone ==
    pc = "accepted" /\ Aligned /\ Reached =>
        \/ read_back = <<>>
        \/ \A a \in DOMAIN frames :
               WordsAfter(a) >= 2 =>
                   a \in DOMAIN read_back /\ read_back[a] = frames[a]

\* A whole file is never the cause of an exception, and is refused exactly if
\* words read again are taken for the IDCODE of another part.
WholeFileIsRead ==
    Finished /\ Whole =>
        /\ pc \in {"accepted", "rejected"}
        /\ pc = "rejected" <=> \E i \in Headers : NamesAnother(i)

=============================================================================

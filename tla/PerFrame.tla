------------------------------ MODULE PerFrame ------------------------------
(***************************************************************************)
(* Bitstreams made frame by frame, and their readers.  One of bits2rbt,    *)
(* assemble and, for comparison, the library's writer of packets makes a   *)
(* bitstream; dump_bitstream reads it, and computes its CRCs as a device   *)
(* does; then the library's interpreter reads it.                          *)
(***************************************************************************)
EXTENDS FrameWrites

CONSTANTS
    WordBits, Chips, Tiles, TextFiles(_),  \* Assemble
    BitsFiles, AuxFiles, StrayBits,        \* Bits2Rbt
    Parts,       \* the parts bits2rbt and the library write for
    FrameLists(_), \* the lists of address words dump_bitstream may be given
    BurstFrames(_) \* the frames the library may write for a part

ASSUME PerFrameAssumption ==
    /\ WordBits \in Nat \ {0}
    /\ Chips \subseteq (SUBSET FrameAddress) \ {{}}
    /\ \A aux_file \in AuxFiles :
          \A i \in DOMAIN aux_file.head : aux_file.head[i].address # "FDRI"
    /\ \A aux_file \in AuxFiles :
          \A i \in DOMAIN aux_file.tail : aux_file.tail[i].address # "FDRI"

VARIABLES
    tool, part, frames, out,
    bits_file, aux, bits_line, iterator, bits_pc,             \* Bits2Rbt
    input, file, line, roi_frames, next_frame, curr_crc, current,
    assemble_pc,                                              \* Assemble
    remaining, packet_data, writer_pc,               \* ConfigurationWriter
    dump_next, ptr, frame, word, read_crc, data, printed, crc_errors,
    dump_pc,                                                 \* DumpBitstream
    pos, command_register, frame_address_register, mask_register,
    ctl1_register, start_new_write, current_frame_address, ii,
    read_back, reader_pc                                     \* Configuration

made == <<tool, part, frames, out>>

bits_vars == <<bits_file, aux, bits_line, iterator, bits_pc>>

assemble_vars ==
    <<input, file, line, roi_frames, next_frame, curr_crc, current, assemble_pc>>

writer_vars == <<remaining, packet_data, writer_pc>>

dump_vars ==
    <<dump_next, ptr, frame, word, read_crc, data, printed, crc_errors, dump_pc>>

reader_vars == <<pos, command_register, frame_address_register, mask_register,
                 ctl1_register, start_new_write, current_frame_address, ii,
                 read_back, reader_pc>>

vars == <<made, bits_vars, assemble_vars, writer_vars, dump_vars, reader_vars>>

-----------------------------------------------------------------------------

\* The IDCODE that assemble writes.
IdCode == 77963411

B2R == INSTANCE Bits2Rbt WITH arch <- part.arch

Asm == INSTANCE Assemble

Library == INSTANCE ConfigurationWriter WITH packets <- out

Dump == INSTANCE DumpBitstream WITH stream <- out, curr_crc <- read_crc

Reader == INSTANCE Configuration
              WITH packets <- out, frames <- read_back, pc <- reader_pc,
                   PacketStreams <- {}

InitBits2Rbt ==
    /\ tool = "bits2rbt"
    /\ part \in Parts
    /\ B2R!InitFromFile
    /\ Asm!InitIdle
    /\ remaining = {} /\ packet_data = <<>> /\ writer_pc = "none"

InitAssemble ==
    /\ tool = "assemble"
    /\ Asm!SetupBaseFrames
    /\ part = PartFromAddresses("UltraScalePlus", DOMAIN frames)
    /\ B2R!InitIdle
    /\ remaining = {} /\ packet_data = <<>> /\ writer_pc = "none"

InitLibrary ==
    /\ tool = "library"
    /\ part \in Parts
    /\ frames \in BurstFrames(part)
    /\ B2R!InitIdle
    /\ Asm!InitIdle
    /\ remaining = {} /\ packet_data = <<>> /\ writer_pc = "idle"
    /\ out = <<>>

\* next_frame, from the lines of a list in the order of the file.
NextInList(list) ==
    [v \in {list[i] : i \in 1..Len(list) - 1} |->
        list[Max({i \in 1..Len(list) - 1 : list[i] = v}) + 1]]

Init ==
    /\ InitBits2Rbt \/ InitAssemble \/ InitLibrary
    /\ dump_next \in {NextInList(list) : list \in FrameLists(tool)}
    /\ Dump!InitDump
    /\ Reader!InitRegisters

Bits2Rbt ==
    /\ UNCHANGED <<tool, part, assemble_vars, writer_vars, dump_vars, reader_vars>>
    /\ B2R!ConvertBits

Assemble ==
    /\ Asm!AssembleNext
    /\ UNCHANGED <<tool, part, bits_vars, writer_vars, dump_vars, reader_vars>>

WriteBurst ==
    /\ Library!WriterNext
    /\ UNCHANGED <<tool, bits_vars, assemble_vars, dump_vars, reader_vars>>

Written ==
    bits_pc = "written" \/ assemble_pc = "written" \/ writer_pc = "packaged"

DumpBitstream ==
    /\ Written
    /\ UNCHANGED <<made, bits_vars, assemble_vars, writer_vars, reader_vars>>
    /\ Dump!parse_bitstream

Interpret ==
    /\ dump_pc = "done"
    /\ UNCHANGED <<made, bits_vars, assemble_vars, writer_vars, dump_vars>>
    /\ Reader!Next

Next == Bits2Rbt \/ Assemble \/ WriteBurst \/ DumpBitstream \/ Interpret

Spec == Init /\ [][Next]_vars

\* Each program is one thread that runs until it returns.
FairSpec == Spec /\ WF_vars(Next)

-----------------------------------------------------------------------------

\* The FDRI packets that carry frame a, by the FAR packet that follows.
Carriers(a) ==
    {i \in DOMAIN out : /\ out[i].address = "FDRI"
                        /\ out[i + 1] = FAR(part.arch, a)}

\* The commands before the frames have one RCRC.
ResetsOnce ==
    Cardinality({i \in DOMAIN aux.head : aux.head[i] = CMD("RCRC")}) = 1

FirstFrameOnce ==
    \/ Cardinality(Carriers(First(DOMAIN frames))) = 1
    \/ B2R!GetFpgaConfigurationCRC = <<>>

(***************************************************************************)
(* The CRCs of a bitstream are those a device computes: always in what     *)
(* assemble writes; in what bits2rbt writes exactly when the commands      *)
(* before the frames reset the CRC once, and the first frame is not alone  *)
(* in its row, so that it is written only once, or there is nothing but    *)
(* the reset before it.                                                    *)
(***************************************************************************)
CrcsMatchExactlyWhenCountedOnce ==
    dump_pc = "done" /\ frames # <<>> =>
        (crc_errors = 0 <=>
            (tool = "bits2rbt" => ResetsOnce /\ FirstFrameOnce))

RowGoesOn(a) == \E b \in NextKey(DOMAIN frames, a) : SameRow(a, b)

\* The frame that ends a row is overwritten by the empty one that assemble
\* writes after it, if the part has no address after it.
Expected ==
    [a \in DOMAIN frames |->
        IF tool = "assemble" /\ ~RowGoesOn(a) /\ GetNextFrameAddress(part, a) = {}
        THEN ZeroFrame ELSE frames[a]]

\* The packets that write frames.
FdriPackets == {i \in DOMAIN out : out[i].address = "FDRI"}

\* Bit 21 of CTL1 is set, under its mask, while frames are written, whatever
\* the commands after the frames do to it.
Inhibited == \A i \in FdriPackets : Reader!Inhibited(i)

NeverInhibited == \A i \in FdriPackets : ~Reader!Inhibited(i)

\* Frame a is followed by a second one without a new address; bits2rbt gives
\* the address again of a frame that is alone in its row.
Repeated(a) ==
    /\ Cardinality(Carriers(a)) = 2
    /\ ~(tool = "bits2rbt" /\ B2R!IsNewRow(a))

Contiguous ==
    \A a \in DOMAIN frames :
        IF RowGoesOn(a)
        THEN GetNextFrameAddress(part, a) = NextKey(DOMAIN frames, a)
        ELSE Repeated(a) => GetNextFrameAddress(part, a) \subseteq DOMAIN frames

\* assemble has no frames but those of the chip, from which next_frame is made.
OfTheChip ==
    tool = "assemble" =>
        \A a \in DOMAIN frames : \A b \in NextKey(DOMAIN frames, a) :
            a \in DOMAIN next_frame /\ next_frame[a] = b

(***************************************************************************)
(* When bit 21 of CTL1 is set, the interpreter reads the frames that were  *)
(* written exactly if the next frame of each row is the next address of    *)
(* the part, and the frame that is given twice at the end of a row is      *)
(* followed, in the part, by a frame that is written too or by nothing.    *)
(* If it is followed by nothing, the break at configuration.h:300 leaves   *)
(* the address where it was: what assemble wrote there is lost to the      *)
(* empty frame after it, be it the end of the part or of any row.          *)
(***************************************************************************)
ReadsExactlyWhenContiguous ==
    reader_pc = "accepted" /\ tool # "library" /\ Inhibited /\ OfTheChip =>
        (read_back = Expected <=> Contiguous)

(***************************************************************************)
(* If the commands before the frames do not set bit 21 of CTL1, the FAR    *)
(* packet after a frame starts a new write there: every frame is read with *)
(* the data of the one that follows it in its row.                         *)
(***************************************************************************)
OneBehindUnlessInhibited ==
    reader_pc = "accepted" /\ tool = "bits2rbt" /\ NeverInhibited =>
        \A a \in DOMAIN frames : RowGoesOn(a) =>
            read_back[a] = frames[First(NextKey(DOMAIN frames, a))]

\* The bits of the lines of the file, when all of them are valid.
BitsSet(a, i) ==
    {b[3] : b \in {c \in {bits_file[n].bit : n \in DOMAIN bits_file} :
                      c[1] = a /\ c[2] = i}}

(***************************************************************************)
(* The frames that bits2rbt writes are those it has bits for and those     *)
(* listed, and each has the bits of the file and the ECC for them; it      *)
(* fails exactly when a bit is beyond the frame.                           *)
(***************************************************************************)
WritesTheBits ==
    tool = "bits2rbt" /\ (\A n \in DOMAIN bits_file : bits_file[n].valid) =>
        /\ bits_pc = "aborted" =>
               bits_file[bits_line].bit[2] \notin 1..WordsPerFrame
        /\ bits_pc \in {"head", "frames", "written"} =>
            /\ \A n \in DOMAIN bits_file :
                   bits_file[n].bit[2] \in 1..WordsPerFrame
            /\ DOMAIN frames = aux.addresses \union
                   {bits_file[n].bit[1] : n \in DOMAIN bits_file}
            /\ \A a \in DOMAIN frames :
                /\ frames[a] = WithEcc(frames[a])
                /\ \A i \in 1..WordsPerFrame - 1, j \in 0..WordBits - 1 :
                       Bit(frames[a][i], j) <=> j \in BitsSet(a, i)

\* The texts of a file that assemble reads, all of them at the end.
Texts(name) ==
    {input[name].lines[n].text :
        n \in {i \in DOMAIN input[name].lines : input[name].lines[i].kind = "text"}}

HarnessBits ==
    {<<t.frame, t.word, t.bit>> :
        t \in {h \in Texts("harness") : h.frame \notin UNION Texts("roi")}}

FeatureBits ==
    UNION {UNION {{<<p[1], p[2] \div WordBits, p[2] % WordBits>> :
                      p \in Asm!PlaceOf(t.tile, b)} :
                  b \in Tiles[t.tile].features[t.feature]} :
           t \in Texts("fasm")}

\* The bits of the frames that are not the ECC's.
FrameBits ==
    {<<a, i, j>> \in
         (DOMAIN frames) \X (0..WordsPerFrame - 2) \X (0..WordBits - 1) :
        Bit(frames[a][i + 1], j)}

\* The bits of the frames are those of the harness outside the region of
\* interest and those of the features of the design; whatever the harness sets
\* in the ECC word of a frame, the ECC of its other words takes its place
\* (parse_harness, set_tile_bit, add_frame_ecc).
AssemblesHarnessAndDesign ==
    /\ assemble_pc \in {"head", "options", "frames", "written"} =>
           FrameBits =
               {b \in HarnessBits \union FeatureBits : b[2] # WordsPerFrame - 1}
    /\ assemble_pc \in {"options", "frames", "written"} =>
           \A a \in DOMAIN frames : frames[a] = WithEcc(frames[a])

\* Where the dump goes on after the frame at a: at the address that a FAR
\* packet gives after the end of a row, or along the list.
DumpedAfter(a) ==
    IF a \in DOMAIN next_frame /\ Asm!EndsRow(a)
    THEN AddressWord(part.arch, next_frame[a])
    ELSE LET address == AddressWord(part.arch, a)
         IN IF address \in DOMAIN dump_next THEN dump_next[address] ELSE address

DumpedAt(b) ==
    IF b = First(DOMAIN frames) THEN AddressWord(part.arch, b)
    ELSE DumpedAfter(CHOOSE a \in DOMAIN frames : NextKey(DOMAIN frames, a) = {b})

DumpedBits == {<<DumpedAt(b[1]), b[2], b[3]>> : b \in FrameBits}

(***************************************************************************)
(* The dump of what assemble writes has the bits of each frame, and no     *)
(* others, at the address to which the list, or a FAR packet at the end of *)
(* a row, leads from the frame before it: its own, where they lead there.  *)
(* Of a bitstream with all the frames in one packet only the first can be  *)
(* dumped, since the word counter goes on: the others must be empty.       *)
(***************************************************************************)
DumpsAlongTheList ==
    dump_pc = "done" =>
        /\ tool = "assemble" => printed = DumpedBits
        /\ tool = "library" =>
               (printed = DumpedBits
                  <=> \A a \in DOMAIN frames \ {First(DOMAIN frames)} :
                          frames[a] = ZeroFrame)

\* The last line is text that is not terminated.
Endless(f) ==
    f.lines # <<>> /\ f.lines[Len(f.lines)].kind = "text" /\ ~f.terminated

EndlessInput == \E name \in DOMAIN input : Endless(input[name])

(***************************************************************************)
(* Each of the programs ends, but for assemble if one of its files ends in *)
(* a line of text that is not terminated: it reads that line for ever,     *)
(* unless it fails before, and writes nothing.                             *)
(***************************************************************************)
EndsUnlessEndless ==
    /\ <>(\/ EndlessInput
          \/ reader_pc = "accepted" \/ bits_pc = "aborted"
          \/ assemble_pc \in {"aborted", "unopened"})
    /\ [](EndlessInput => assemble_pc # "head")

=============================================================================

------------------------------ MODULE Assemble ------------------------------
(***************************************************************************)
(* assemble: the frames of a chip, the bits of a harness outside the       *)
(* region of interest and the bits of a design's features become an        *)
(* UltraScale+ bitstream with a CRC after every frame.                     *)
(***************************************************************************)
EXTENDS FrameWrites

CONSTANTS
    WordBits,  \* 32
    Chips,     \* what chip.all_frames may be
    Tiles,     \* chip.tiles and their databases: records [bits, features] by
               \* name, of <<[frame, offset, size], ...>> and, by name, of sets
               \* of bits of the tile
    TextFiles(_) \* records [roi, harness, fasm] of text files for a chip

VARIABLES
    input,       \* the three text files
    file,        \* the one that is read, or "none"
    line,        \* the lines std::getline has returned of it
    roi_frames,
    frames,
    next_frame,
    curr_crc,
    out,         \* the packets written
    current,     \* the frame to write, unless at the end
    assemble_pc

assemble_vars ==
    <<input, file, line, roi_frames, next_frame, curr_crc, current, assemble_pc>>

Reader == INSTANCE LineReader

-----------------------------------------------------------------------------

\* 0x07FC0000, past every frame.
LastFAR == Address(7, 1, 31, 0, 0)

NoFile == [lines |-> <<>>, terminated |-> TRUE]

InitIdle ==
    /\ input = [roi |-> NoFile, harness |-> NoFile, fasm |-> NoFile]
    /\ file = "none"
    /\ line = 0
    /\ roi_frames = {}
    /\ next_frame = <<>>
    /\ curr_crc = <<>>
    /\ current = {}
    /\ assemble_pc = "idle"

\* setup_base_frames, over the std::set of addresses in their order.
SetupBaseFrames ==
    /\ \E all_frames \in Chips :
          /\ input \in TextFiles(all_frames)
          /\ frames = [a \in all_frames \ {LastFAR} |-> ZeroFrame]
    /\ file = "roi"
    /\ line = 0
    /\ roi_frames = {}
    /\ next_frame =
           [a \in {b \in DOMAIN frames : NextKey(DOMAIN frames, b) # {}} |->
               First(NextKey(DOMAIN frames, a))]
    /\ curr_crc = <<>>
    /\ out = <<>>
    /\ current = {}
    /\ assemble_pc = "reading"

-----------------------------------------------------------------------------

Reading(name) == assemble_pc = "reading" /\ file = name

\* The body of a loop over a text file gets this line.
TakeLine(name) ==
    /\ Reading(name)
    /\ line' \in Reader!Yielded(input[name], line)
    /\ UNCHANGED <<input, file, next_frame, curr_crc, current, out>>

Text == input[file].lines[line'].text

SkipLine ==
    /\ assemble_pc = "reading"
    /\ Reader!Skips(input[file], line)
    /\ line' = line + 1
    /\ UNCHANGED <<input, file, roi_frames, frames, next_frame, curr_crc,
                   current, out, assemble_pc>>

AbortOnSpaces ==
    /\ assemble_pc = "reading"
    /\ Reader!Throws(input[file], line)
    /\ assemble_pc' = "aborted"
    /\ UNCHANGED <<input, file, line, roi_frames, frames, next_frame, curr_crc,
                   current, out>>

\* A text file cannot be opened, which throws; the output file cannot.
FailToOpen ==
    /\ \/ /\ assemble_pc = "reading"
          /\ line = 0
          /\ assemble_pc' = "aborted"
       \/ /\ assemble_pc = "head"
          /\ assemble_pc' = "unopened"
    /\ UNCHANGED <<input, file, line, roi_frames, frames, next_frame, curr_crc,
                   current, out>>

\* parse_frames, next parse_harness, next read_quasi_fasm.
EndOfFile ==
    /\ assemble_pc = "reading"
    /\ Reader!AtEnd(input[file], line)
    /\ line' = 0
    /\ file' = IF file = "roi" THEN "harness"
               ELSE IF file = "harness" THEN "fasm" ELSE "none"
    /\ assemble_pc' = IF file = "fasm" THEN "head" ELSE "reading"
    /\ UNCHANGED <<input, roi_frames, frames, next_frame, curr_crc, current, out>>

\* parse_frames: a line without a number is skipped; a frame that the chip
\* does not have is made.
ParseFrame ==
    /\ TakeLine("roi")
    /\ roi_frames' = roi_frames \union Text
    /\ frames' = [a \in DOMAIN frames \union Text |->
                     IF a \in Text THEN ZeroFrame ELSE frames[a]]
    /\ UNCHANGED assemble_pc

\* frames.at(a).at(offset) = true, if there is such a bit.
HasBit(a, offset) ==
    a \in DOMAIN frames /\ offset < WordsPerFrame * WordBits

WithBit(a, offset) ==
    [frames EXCEPT ![a] =
        [@ EXCEPT ![offset \div WordBits + 1] = SetBitOf(@, offset % WordBits)]]

SetOrAbort(a, offset) ==
    IF HasBit(a, offset)
    THEN frames' = WithBit(a, offset) /\ UNCHANGED assemble_pc
    ELSE assemble_pc' = "aborted" /\ UNCHANGED frames

\* Mutant of ParseHarness: the region of interest is not left out.
ParseHarnessEverywhere ==
    /\ TakeLine("harness")
    /\ SetOrAbort(Text.frame, Text.word * WordBits + Text.bit)
    /\ UNCHANGED roi_frames

\* A harness bit of a frame that is nowhere else makes an empty frame, on which
\* at() throws.
ParseHarness ==
    /\ TakeLine("harness")
    /\ IF Text.frame \in roi_frames
       THEN UNCHANGED <<frames, assemble_pc>>
       ELSE SetOrAbort(Text.frame, Text.word * WordBits + Text.bit)
    /\ UNCHANGED roi_frames

\* Where set_tile_bit finds bit b of a tile: the first mapping whose range of
\* bits has it.
SizeBefore(tile, i) ==
    LET size[j \in 0..Len(Tiles[tile].bits)] ==
            IF j = 0 THEN 0 ELSE size[j - 1] + Tiles[tile].bits[j].size
    IN size[i - 1]

MappingOf(tile, b) ==
    {i \in DOMAIN Tiles[tile].bits :
        /\ b >= SizeBefore(tile, i)
        /\ b < SizeBefore(tile, i) + Tiles[tile].bits[i].size}

PlaceOf(tile, b) ==
    {<<Tiles[tile].bits[i].frame,
       Tiles[tile].bits[i].offset + (b - SizeBefore(tile, i))>> :
          i \in MappingOf(tile, b)}

Placed(tile, b) == \E p \in PlaceOf(tile, b) : HasBit(p[1], p[2])

\* The frames with bits set, given by frame and offset.
WithBits(places) ==
    [a \in DOMAIN frames |->
        [i \in 1..WordsPerFrame |->
            LET set == {j \in 0..WordBits - 1 :
                           \/ Bit(frames[a][i], j)
                           \/ <<a, (i - 1) * WordBits + j>> \in places}
            IN FoldSet(LAMBDA j, sum : sum + 2^j, 0, set)]]

\* set_feature: a tile, a feature or a place that is not known throws, uncaught.
SetFeature ==
    /\ TakeLine("fasm")
    /\ LET tile == Text.tile
           known == /\ tile \in DOMAIN Tiles
                    /\ Text.feature \in DOMAIN Tiles[tile].features
           bits == Tiles[tile].features[Text.feature]
       IN IF known /\ \A b \in bits : Placed(tile, b)
          THEN /\ frames' = WithBits(UNION {PlaceOf(tile, b) : b \in bits})
               /\ UNCHANGED assemble_pc
          ELSE assemble_pc' = "aborted" /\ UNCHANGED frames
    /\ UNCHANGED roi_frames

ReadInputs ==
    \/ FailToOpen \/ SkipLine \/ AbortOnSpaces \/ EndOfFile
    \/ ParseFrame \/ ParseHarness \/ SetFeature

-----------------------------------------------------------------------------

\* write_short_packet and write_crc, one after the other.
Emit(writes) ==
    LET running[n \in 0..Len(writes)] ==
            IF n = 0 THEN curr_crc
            ELSE IF writes[n].address = "CRC" THEN <<>>
            ELSE icap_crc(writes[n].address, writes[n].data, running[n - 1])
    IN /\ out' = out \o [i \in DOMAIN writes |->
                            IF writes[i].address = "CRC"
                            THEN WriteCRC(running[i - 1]) ELSE writes[i]]
       /\ curr_crc' = running[Len(writes)]

Arch == "UltraScalePlus"

\* Bit 21, of MASK and CTL1.
Inhibit == 2097152

CRCPacket == <<WriteCRC(<<>>)>>

\* add_frame_ecc and the commands up to RCRC, after which the CRC is zero.
AddFrameEcc ==
    /\ assemble_pc = "head"
    /\ frames' = [a \in DOMAIN frames |-> WithEcc(frames[a])]
    /\ out' = <<Write("TIMER", <<0>>), Write("WBSTAR", <<0>>), CMD("NOP"),
                CMD("RCRC")>>
    /\ curr_crc' = <<>>
    /\ assemble_pc' = "options"
    /\ UNCHANGED <<input, file, line, roi_frames, next_frame, current>>

\* From FAR to the first WCFG, and FAR with the first frame.
WriteOptions ==
    /\ assemble_pc = "options"
    /\ Emit(<<Write("FAR", <<0>>), Write("UNKNOWN", <<0>>),
              Write("COR0", <<939540453>>), Write("COR1", <<4194304>>),
              Write("IDCODE", <<77963411>>), CMD("SWITCH"),
              Write("MASK", <<1>>), Write("CTL0", <<257>>),
              Write("MASK", <<Inhibit>>), Write("CTL1", <<Inhibit>>),
              CMD("WCFG"), FAR(Arch, First(DOMAIN frames))>>)
    /\ current' = {First(DOMAIN frames)}
    /\ assemble_pc' = "frames"
    /\ UNCHANGED <<input, file, line, roi_frames, frames, next_frame>>

\* next_frame, if any, is in another row.
EndsRow(a) == a \in DOMAIN next_frame => ~SameRow(next_frame[a], a)

NextRow(a) ==
    IF a \in DOMAIN next_frame
    THEN <<CMD("WCFG"), FAR(Arch, next_frame[a])>> ELSE <<>>

\* After the last frame of a row comes an empty one, and the address of the
\* next frame.
RowEnd(a) ==
    <<Write("FDRI", ZeroFrame), FAR(Arch, a)>> \o CRCPacket \o NextRow(a)

\* Mutant of WriteFrame: no empty frame after the last one of a row.
WriteFrameOnly ==
    /\ assemble_pc = "frames"
    /\ \E a \in current :
          /\ Emit(<<Write("FDRI", frames[a]), FAR(Arch, a)>> \o CRCPacket
                      \o IF EndsRow(a) THEN NextRow(a) ELSE <<>>)
          /\ current' = NextKey(DOMAIN frames, a)
    /\ UNCHANGED <<input, file, line, roi_frames, frames, next_frame, assemble_pc>>

WriteFrame ==
    /\ assemble_pc = "frames"
    /\ \E a \in current :
          /\ Emit(<<Write("FDRI", frames[a]), FAR(Arch, a)>> \o CRCPacket
                      \o IF EndsRow(a) THEN RowEnd(a) ELSE <<>>)
          /\ current' = NextKey(DOMAIN frames, a)
    /\ UNCHANGED <<input, file, line, roi_frames, frames, next_frame, assemble_pc>>

WriteEnd ==
    /\ assemble_pc = "frames"
    /\ current = {}
    /\ Emit(<<CMD("NOP"), Write("MASK", <<Inhibit>>), Write("CTL1", <<0>>)>>
                \o CRCPacket
                \o <<CMD("GRESTORE"), CMD("LFRM"), CMD("START"),
                     FAR(Arch, LastFAR), Write("MASK", <<257>>),
                     Write("CTL0", <<257>>)>>
                \o CRCPacket \o <<CMD("DESYNC")>>)
    /\ assemble_pc' = "written"
    /\ UNCHANGED <<input, file, line, roi_frames, frames, next_frame, current>>

write_bitstream == AddFrameEcc \/ WriteOptions \/ WriteFrame \/ WriteEnd

AssembleNext == ReadInputs \/ write_bitstream

=============================================================================

------------------------------ MODULE Bits2Rbt ------------------------------
(***************************************************************************)
(* bits2rbt: a file of set bits and a file of auxiliary data, which lists  *)
(* what a device is configured with before and after the frames and the    *)
(* frames there are, become a bitstream with a CRC after every frame.      *)
(***************************************************************************)
EXTENDS FrameWrites

CONSTANTS
    BitsFiles, \* sequences of lines [valid, bit], bit = <<address, word, bit>>
    AuxFiles,  \* records [head, tail, addresses]
    StrayBits  \* the bits an invalid line may set

VARIABLES
    arch,        \* architecture_
    bits_file, aux,
    bits_line,   \* the number of lines SetBits has taken
    frames,      \* configuration_data_packets_
    iterator,    \* of WriteConfiguration: the frame to write, unless at the end
    out,         \* the packets written
    bits_pc

bits_vars == <<bits_file, aux, bits_line, iterator, bits_pc>>

-----------------------------------------------------------------------------

InitIdle ==
    /\ bits_file = <<>>
    /\ aux = [head |-> <<>>, tail |-> <<>>, addresses |-> {}]
    /\ bits_line = 0
    /\ iterator = {}
    /\ bits_pc = "idle"

InitFromFile ==
    /\ bits_file \in BitsFiles
    /\ aux \in AuxFiles
    /\ bits_line = 0
    /\ iterator = {}
    /\ bits_pc = "bits"
    /\ frames = <<>>
    /\ out = <<>>

FrameIn(map, a) == IF a \in DOMAIN map THEN map[a] ELSE ZeroFrame

Assign(map, a, data) == [k \in DOMAIN map \union {a} |->
                            IF k = a THEN data ELSE map[k]]

\* The result of sscanf is not looked at: a line it cannot read sets the bit
\* of whatever is in the variables.  A word out of range throws, uncaught.
SetBit ==
    /\ bits_pc = "bits"
    /\ bits_line < Len(bits_file)
    /\ bits_line' = bits_line + 1
    /\ \E b \in IF bits_file[bits_line'].valid
                THEN {bits_file[bits_line'].bit} ELSE StrayBits :
          LET data == FrameIn(frames, b[1])
          IN IF b[2] \in DOMAIN data
             THEN /\ frames' = Assign(frames, b[1],
                         [data EXCEPT ![b[2]] = SetBitOf(@, b[3])])
                  /\ bits_pc' = bits_pc
             ELSE /\ frames' = Assign(frames, b[1], data)
                  /\ bits_pc' = "aborted"
    /\ UNCHANGED <<arch, bits_file, aux, iterator, out>>

UpdateECCs ==
    /\ bits_pc = "bits"
    /\ bits_line = Len(bits_file)
    /\ frames' = [a \in DOMAIN frames |-> WithEcc(frames[a])]
    /\ bits_pc' = "aux"
    /\ UNCHANGED <<arch, bits_file, aux, bits_line, iterator, out>>

\* Mutant of InitializeConfigurationData: operator[] without the search.
InitializeAllData ==
    /\ bits_pc = "aux"
    /\ frames' = [a \in DOMAIN frames \union aux.addresses |->
                     IF a \in aux.addresses THEN ZeroFrame ELSE frames[a]]
    /\ bits_pc' = "head"
    /\ UNCHANGED <<arch, bits_file, aux, bits_line, iterator, out>>

InitializeConfigurationData ==
    /\ bits_pc = "aux"
    /\ frames' = [a \in DOMAIN frames \union aux.addresses |-> FrameIn(frames, a)]
    /\ bits_pc' = "head"
    /\ UNCHANGED <<arch, bits_file, aux, bits_line, iterator, out>>

-----------------------------------------------------------------------------

\* WriteFpgaConfiguration(out, fpga_configuration_head_).
WriteHead ==
    /\ bits_pc = "head"
    /\ out' = aux.head
    /\ iterator' = IF frames = <<>> THEN {} ELSE {First(DOMAIN frames)}
    /\ bits_pc' = "frames"
    /\ UNCHANGED <<arch, bits_file, aux, bits_line, frames>>

\* The row is bits 17 (18 for UltraScale+) to 26 of an address.
IsDifferentRow(a, b) == ~SameRow(a, b)

\* std::search finds the first RCRC command; what follows it is one register
\* write after the other, another RCRC like any.
GetFpgaConfigurationCRC ==
    LET rcrc == {i \in DOMAIN aux.head : aux.head[i] = CMD("RCRC")}
    IN CrcAfter(SubSeq(aux.head, Min(rcrc) + 1, Len(aux.head)), <<>>)

IsNewRow(a) ==
    \A b \in DOMAIN frames : NextKey(DOMAIN frames, b) = {a} => IsDifferentRow(a, b)

RowHead(a) == IF IsNewRow(a) THEN <<CMD("WCFG"), FAR(arch, a)>> ELSE <<>>

\* Mutant of GetCRC: the FAR packet after the data is not counted.
GetCRCOfData(a) ==
    CrcAfter(RowHead(a) \o <<Write("FDRI", frames[a])>>,
             IF a = First(DOMAIN frames) THEN GetFpgaConfigurationCRC ELSE <<>>)

GetCRC(a) ==
    CrcAfter(RowHead(a) \o <<Write("FDRI", frames[a]), FAR(arch, a)>>,
             IF a = First(DOMAIN frames) THEN GetFpgaConfigurationCRC ELSE <<>>)

\* Mutant of WritePacket: no FAR packet after the data.
WritePacketUnmarked(a) ==
    RowHead(a) \o <<Write("FDRI", frames[a]), WriteCRC(GetCRC(a))>>

WritePacket(a) ==
    RowHead(a) \o <<Write("FDRI", frames[a]), FAR(arch, a), WriteCRC(GetCRC(a))>>

\* One turn of the loop.  The frame is written again at the end of its row;
\* for the last frame, the next one is the end of the map, and what is read
\* there is anything.
WriteConfiguration ==
    /\ bits_pc = "frames"
    /\ \E a \in iterator :
          LET next == NextKey(DOMAIN frames, a)
          IN /\ \E again \in IF next = {} THEN BOOLEAN
                             ELSE {\E b \in next : IsDifferentRow(a, b)} :
                   out' = out \o WritePacket(a)
                              \o IF again THEN WritePacket(a) ELSE <<>>
             /\ iterator' = next
    /\ UNCHANGED <<arch, bits_file, aux, bits_line, frames, bits_pc>>

\* WriteFpgaConfiguration(out, fpga_configuration_tail_).
WriteTail ==
    /\ bits_pc = "frames"
    /\ iterator = {}
    /\ out' = out \o aux.tail
    /\ bits_pc' = "written"
    /\ UNCHANGED <<arch, bits_file, aux, bits_line, iterator, frames>>

ConvertBits ==
    \/ SetBit \/ UpdateECCs \/ InitializeConfigurationData
    \/ WriteHead \/ WriteConfiguration \/ WriteTail

=============================================================================

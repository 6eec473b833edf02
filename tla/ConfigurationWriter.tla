------------------------- MODULE ConfigurationWriter -------------------------
(***************************************************************************)
(* The two steps that turn a map of frames into configuration packets:     *)
(* createType2ConfigurationPacketData lays the frames out in one sequence  *)
(* of words, with padding between rows, and createConfigurationPackage     *)
(* wraps the words in the packets that program a device.                   *)
(***************************************************************************)
EXTENDS PartAddressing, ConfigurationRegister, Sequences

CONSTANTS
    WordsPerFrame, \* ArchType::words_per_frame
    IdCode         \* part.idcode()

VARIABLES
    part,        \* the part
    frames,      \* the frames to write, by address
    remaining,   \* the addresses the loop over the frames has still to visit
    packet_data, \* the words laid out so far
    packets,     \* out_packets
    writer_pc    \* "idle", "packing", "packed", "packaged"

writer_vars == <<remaining, packet_data, packets, writer_pc>>

-----------------------------------------------------------------------------

InitWriter ==
    /\ remaining = {}
    /\ packet_data = <<>>
    /\ packets = <<>>
    /\ writer_pc = "idle"

\* Two zero frames, kZeroFramesSeparatorWords words.
Separator == [i \in 1..2 * WordsPerFrame |-> 0]

\* Mutant of SeparatorAfter: padding only where the block type or the half
\* changes.
SeparatorAfterHalf(a) ==
    LET next == GetNextFrameAddress(part, a)
    IN IF \E b \in next : b.block # a.block \/ b.half # a.half
       THEN Separator ELSE <<>>

SeparatorAfter(a) ==
    IF CrossesRow(a, GetNextFrameAddress(part, a)) THEN Separator ELSE <<>>

BeginPacking ==
    /\ writer_pc = "idle"
    /\ remaining' = DOMAIN frames
    /\ writer_pc' = "packing"
    /\ UNCHANGED <<part, frames, packet_data, packets>>

\* One turn of the loop over the std::map of frames, in address order.
PackFrame ==
    /\ writer_pc = "packing"
    /\ \E a \in remaining :
          /\ \A b \in remaining : Packed(a) <= Packed(b)
          /\ packet_data' = packet_data \o frames[a] \o SeparatorAfter(a)
          /\ remaining' = remaining \ {a}
    /\ UNCHANGED <<part, frames, packets, writer_pc>>

EndPacking ==
    /\ writer_pc = "packing"
    /\ remaining = {}
    /\ packet_data' = packet_data \o Separator
    /\ writer_pc' = "packed"
    /\ UNCHANGED <<part, frames, remaining, packets>>

createType2ConfigurationPacketData == BeginPacking \/ PackFrame \/ EndPacking

-----------------------------------------------------------------------------

\* A type 1 packet with a payload of its own.
Write(register, data) ==
    <<[header_type |-> 1, opcode |-> "Write", address |-> register,
       data |-> data]>>

\* A run of NOPs.
NOPs == <<[header_type |-> 1, opcode |-> "NOP", address |-> "CRC",
           data |-> <<>>]>>

CMD(name) == Write("CMD", <<Command[name]>>)

\* ConfigurationOptions0Value of Series-7: a pipeline stage for DONE_IN, DONE
\* released in phase 4, no wait for DCI and MMCM, GTS and GWE in 5 and 6.
Series7Options == 2^25 + 3 * 2^12 + 7 * 2^9 + 7 * 2^6 + 4 * 2^3 + 5

Series7Initialization ==
    NOPs \o Write("TIMER", <<0>>) \o Write("WBSTAR", <<0>>) \o CMD("NOP")
        \o NOPs \o CMD("RCRC") \o NOPs \o Write("UNKNOWN", <<0>>)
        \o Write("COR0", <<Series7Options>>) \o Write("COR1", <<0>>)
        \o Write("IDCODE", <<IdCode>>) \o CMD("SWITCH") \o NOPs

\* UltraScale and UltraScale+ also set FAR before the options.
UltraScaleInitialization ==
    NOPs \o Write("TIMER", <<0>>) \o Write("WBSTAR", <<0>>) \o CMD("NOP")
        \o NOPs \o CMD("RCRC") \o NOPs \o Write("FAR", <<0>>)
        \o Write("UNKNOWN", <<0>>) \o Write("COR0", <<939540453>>)
        \o Write("COR1", <<4194304>>)
        \o Write("IDCODE", <<IdCode>>) \o CMD("SWITCH") \o NOPs

\* CTL0 under its mask, and CTL1 under an empty one, which clears it.
Control(mask, ctl0) ==
    Write("MASK", <<mask>>) \o Write("CTL0", <<ctl0>>)
        \o Write("MASK", <<0>>) \o Write("CTL1", <<0>>) \o NOPs

\* An empty type 1 packet, then the type 2 packet with all the words.
FrameWrite ==
    Write("FAR", <<0>>) \o CMD("WCFG") \o NOPs \o Write("FDRI", <<>>)
        \o <<[header_type |-> 2, opcode |-> "Write", address |-> "FDRI",
              data |-> packet_data]>>

\* FAR 0x3be0000 is past every frame of a device.
Finalization(mask, ctl0) ==
    CMD("RCRC") \o NOPs \o CMD("GRESTORE") \o NOPs \o CMD("LFRM") \o NOPs
        \o CMD("START") \o NOPs \o Write("FAR", <<62783488>>)
        \o Write("MASK", <<mask>>) \o Write("CTL0", <<ctl0>>)
        \o CMD("RCRC") \o NOPs \o CMD("DESYNC") \o NOPs

\* Series-7 writes 0x401, 0x501 and then 0x501; the others 0x1 and 0x101.
Series7Package ==
    Series7Initialization \o Control(1025, 1281) \o FrameWrite
        \o Finalization(1281, 1281)

UltraScalePackage ==
    UltraScaleInitialization \o Control(1, 257) \o FrameWrite
        \o Finalization(257, 257)

createConfigurationPackage ==
    /\ writer_pc = "packed"
    /\ packets' = IF part.arch = "Series7"
                THEN Series7Package ELSE UltraScalePackage
    /\ writer_pc' = "packaged"
    /\ UNCHANGED <<part, frames, remaining, packet_data>>

WriterNext == createType2ConfigurationPacketData \/ createConfigurationPackage

=============================================================================

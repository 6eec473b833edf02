---------------------------- MODULE Configuration ----------------------------
(***************************************************************************)
(* Configuration<ArchType>::InitWithPackets: the interpreter that turns a  *)
(* stream of configuration packets back into a map of frames (Series-7,    *)
(* UltraScale and UltraScale+; Spartan-6 has an interpreter of its own).   *)
(*                                                                         *)
(* A packet has an opcode, the register it addresses and its data words.   *)
(* Of a MASK or CTL1 word only bit 21 is looked at.                        *)
(***************************************************************************)
EXTENDS PartAddressing, ConfigurationRegister, Sequences

CONSTANTS
    WordsPerFrame, \* ArchType::words_per_frame
    IdCode,        \* part.idcode()
    Parts,         \* the parts a .yaml file may hold
    PacketStreams  \* the streams of packets that are interpreted

Packet ==
    [opcode : Opcodes, address : Registers, data : Seq(Nat)]

ASSUME ConfigurationAssumption ==
    /\ WordsPerFrame \in Nat \ {0}
    /\ IdCode \in Nat
    /\ \A p \in Parts : IsPart(p)
    /\ \A s \in PacketStreams : s \in Seq(Packet)

VARIABLES
    part,    \* part_: the part the frames belong to
    packets, \* the stream
    pos,     \* the number of packets taken from it
    command_register,
    frame_address_register,
    mask_register, \* bit 21 of it
    ctl1_register, \* bit 21 of it
    start_new_write,
    current_frame_address,
    ii,      \* the offset of the next frame in an FDRI packet
    frames,
    pc       \* "fetch", "burst" (in an FDRI packet), "accepted", "rejected"

stream == <<part, packets>>

far_state == <<frame_address_register, start_new_write>>

burst_state == <<current_frame_address, ii, frames>>

vars == <<stream, pos, command_register, mask_register, ctl1_register,
          far_state, burst_state, pc>>

-----------------------------------------------------------------------------

\* Command::WCFG.
WCFG == 1

Bit21(word) == (word \div 2097152) % 2 = 1

\* frames[key] = value on a std::map.
Assign(map, key, value) == [k \in DOMAIN map \union {key} |->
                               IF k = key THEN value ELSE map[k]]

\* Mutant of Frame: one word short.
FrameShort(data, offset) == SubSeq(data, offset + 1, offset + WordsPerFrame - 1)

\* packet.data().subspan(offset, words_per_frame), cut off at the end.
Frame(data, offset) ==
    SubSeq(data, offset + 1,
           IF offset + WordsPerFrame <= Len(data)
           THEN offset + WordsPerFrame ELSE Len(data))

InitRegisters ==
    /\ pos = 0
    /\ command_register = 0
    /\ frame_address_register = ZeroAddress
    /\ mask_register = FALSE
    /\ ctl1_register = FALSE
    /\ start_new_write = FALSE
    /\ current_frame_address = ZeroAddress
    /\ ii = 0
    /\ frames = <<>>
    /\ pc = "fetch"

Init ==
    /\ part \in Parts
    /\ packets \in PacketStreams
    /\ InitRegisters

\* The packet the loop takes next.
Fetched == packets[pos + 1]

Fetch ==
    /\ pc = "fetch"
    /\ pos < Len(packets)
    /\ pos' = pos + 1
    /\ UNCHANGED stream

\* The registers that the switch has a case for.
Interpreted == {"MASK", "CTL1", "CMD", "IDCODE", "FAR", "FDRI"}

\* The loop takes a packet that writes a register with a data word.
Loads(register) ==
    /\ Fetch
    /\ Fetched.opcode = "Write"
    /\ Fetched.address = register
    /\ Fetched.data # <<>>

SkipPacket ==
    /\ Fetch
    /\ \/ Fetched.opcode # "Write"
       \/ Fetched.address \notin Interpreted
       \/ Fetched.address # "FDRI" /\ Fetched.data = <<>>
    /\ UNCHANGED <<command_register, mask_register, ctl1_register, far_state,
                   burst_state, pc>>

WriteMASK ==
    /\ Loads("MASK")
    /\ mask_register' = Bit21(Fetched.data[1])
    /\ UNCHANGED <<command_register, ctl1_register, far_state, burst_state, pc>>

\* Mutant of WriteCTL1: the mask is not applied.
WriteCTL1Unmasked ==
    /\ Loads("CTL1")
    /\ ctl1_register' = Bit21(Fetched.data[1])
    /\ UNCHANGED <<command_register, mask_register, far_state, burst_state, pc>>

WriteCTL1 ==
    /\ Loads("CTL1")
    /\ ctl1_register' = (Bit21(Fetched.data[1]) /\ mask_register)
    /\ UNCHANGED <<command_register, mask_register, far_state, burst_state, pc>>

WriteCMD ==
    /\ Loads("CMD")
    /\ command_register' = Fetched.data[1]
    /\ start_new_write' = (start_new_write \/ command_register' = WCFG)
    /\ UNCHANGED <<mask_register, ctl1_register, frame_address_register,
                   burst_state, pc>>

\* Mutant of WriteIDCODE: the part is not compared.
WriteAnyIDCODE ==
    /\ Loads("IDCODE")
    /\ UNCHANGED <<command_register, mask_register, ctl1_register, far_state,
                   burst_state, pc>>

WriteIDCODE ==
    /\ Loads("IDCODE")
    /\ pc' = IF Fetched.data[1] = IdCode THEN "fetch" ELSE "rejected"
    /\ UNCHANGED <<command_register, mask_register, ctl1_register, far_state,
                   burst_state>>

\* The command is executed again unless bit 21 of CTL1 inhibits it.
WriteFAR ==
    /\ Loads("FAR")
    /\ frame_address_register' = Unpacked(part.arch, Fetched.data[1])
    /\ start_new_write' = (\/ start_new_write
                           \/ ~ctl1_register /\ command_register = WCFG)
    /\ UNCHANGED <<command_register, mask_register, ctl1_register,
                   burst_state, pc>>

\* Mutant of BeginFDRI: the flag is not cleared.
BeginFDRIWithoutReset ==
    /\ Fetch
    /\ Fetched.opcode = "Write"
    /\ Fetched.address = "FDRI"
    /\ current_frame_address' =
           IF start_new_write THEN frame_address_register
                              ELSE current_frame_address
    /\ ii' = 0
    /\ pc' = "burst"
    /\ UNCHANGED <<command_register, mask_register, ctl1_register, far_state,
                   frames>>

\* An FDRI packet, with or without data.
BeginFDRI ==
    /\ Fetch
    /\ Fetched.opcode = "Write"
    /\ Fetched.address = "FDRI"
    /\ current_frame_address' =
           IF start_new_write THEN frame_address_register
                              ELSE current_frame_address
    /\ start_new_write' = FALSE
    /\ ii' = 0
    /\ pc' = "burst"
    /\ UNCHANGED <<command_register, mask_register, ctl1_register,
                   frame_address_register, frames>>

\* Mutant of StoreFrame: the padding between rows is taken for frames.
StoreFrameUnpadded ==
    /\ pc = "burst"
    /\ ii < Len(packets[pos].data)
    /\ frames' = Assign(frames, current_frame_address,
                        Frame(packets[pos].data, ii))
    /\ LET next == GetNextFrameAddress(part, current_frame_address)
       IN \/ /\ next = {}
             /\ pc' = "fetch"
             /\ UNCHANGED <<current_frame_address, ii>>
          \/ /\ current_frame_address' \in next
             /\ ii' = ii + WordsPerFrame
             /\ pc' = pc
    /\ UNCHANGED <<stream, pos, command_register, mask_register, ctl1_register,
                   far_state>>

\* Mutant of StoreFrame: a word of the padding between rows is not skipped.
StoreFramePaddingShort ==
    /\ pc = "burst"
    /\ ii < Len(packets[pos].data)
    /\ frames' = Assign(frames, current_frame_address,
                        Frame(packets[pos].data, ii))
    /\ LET next == GetNextFrameAddress(part, current_frame_address)
       IN \/ /\ next = {}
             /\ pc' = "fetch"
             /\ UNCHANGED <<current_frame_address, ii>>
          \/ /\ current_frame_address' \in next
             /\ ii' = ii + IF CrossesRow(current_frame_address, next)
                           THEN 3 * WordsPerFrame - 1 ELSE WordsPerFrame
             /\ pc' = pc
    /\ UNCHANGED <<stream, pos, command_register, mask_register, ctl1_register,
                   far_state>>

\* One turn of the for loop over the data of an FDRI packet.
StoreFrame ==
    /\ pc = "burst"
    /\ ii < Len(packets[pos].data)
    /\ frames' = Assign(frames, current_frame_address,
                        Frame(packets[pos].data, ii))
    /\ LET next == GetNextFrameAddress(part, current_frame_address)
       IN \/ /\ next = {}
             /\ pc' = "fetch"
             /\ UNCHANGED <<current_frame_address, ii>>
          \/ /\ current_frame_address' \in next
             /\ ii' = ii + IF CrossesRow(current_frame_address, next)
                           THEN 3 * WordsPerFrame ELSE WordsPerFrame
             /\ pc' = pc
    /\ UNCHANGED <<stream, pos, command_register, mask_register, ctl1_register,
                   far_state>>

EndFDRI ==
    /\ pc = "burst"
    /\ ii >= Len(packets[pos].data)
    /\ pc' = "fetch"
    /\ UNCHANGED <<stream, pos, command_register, mask_register, ctl1_register,
                   far_state, burst_state>>

Finish ==
    /\ pc = "fetch"
    /\ pos = Len(packets)
    /\ pc' = "accepted"
    /\ UNCHANGED <<stream, pos, command_register, mask_register, ctl1_register,
                   far_state, burst_state>>

InitWithPackets ==
    \/ SkipPacket
    \/ WriteMASK
    \/ WriteCTL1
    \/ WriteCMD
    \/ WriteIDCODE
    \/ WriteFAR
    \/ BeginFDRI
    \/ StoreFrame
    \/ EndFDRI
    \/ Finish

Next == InitWithPackets

Spec == Init /\ [][Next]_vars

-----------------------------------------------------------------------------

TypeOK ==
    /\ IsPart(part)
    /\ packets \in Seq(Packet)
    /\ pos \in 0..Len(packets)
    /\ command_register \in Nat
    /\ frame_address_register \in FrameAddress
    /\ mask_register \in BOOLEAN
    /\ ctl1_register \in BOOLEAN
    /\ start_new_write \in BOOLEAN
    /\ current_frame_address \in FrameAddress
    /\ ii \in Nat
    /\ DOMAIN frames \subseteq FrameAddress
    /\ \A a \in DOMAIN frames : frames[a] \in Seq(Nat)
    /\ pc \in {"fetch", "burst", "accepted", "rejected"}
    /\ pc = "burst" => pos > 0 /\ packets[pos].address = "FDRI"

\* Packet i writes the register with a data word.
Written(register, i) ==
    /\ packets[i].opcode = "Write"
    /\ packets[i].address = register
    /\ packets[i].data # <<>>

\* The addresses that FAR packets so far have loaded.
LoadedAddresses ==
    {Unpacked(part.arch, packets[i].data[1]) :
        i \in {j \in 1..pos : Written("FAR", j)}}

(***************************************************************************)
(* Every frame of the configuration has an address that the part has, or   *)
(* one that a FAR packet loaded, or zero: auto-increment never leaves the  *)
(* part, although the interpreter never validates an address.              *)
(***************************************************************************)
Known(a) ==
    \/ IsValidFrameAddress(part, a)
    \/ a \in LoadedAddresses \union {ZeroAddress}

KnownAddresses == \A a \in DOMAIN frames : Known(a)

\* The last packet before i to write the register, if any.
LastWritten(register, i) ==
    {j \in 1..i - 1 : /\ Written(register, j)
                      /\ \A k \in j + 1..i - 1 : ~Written(register, k)}

\* The command, bit 21 of the mask and bit 21 of CTL1, which is written
\* through the mask of the time, when packet i is taken.
Commanded(i) == \E c \in LastWritten("CMD", i) : packets[c].data[1] = WCFG

Masked(i) == \E m \in LastWritten("MASK", i) : Bit21(packets[m].data[1])

Inhibited(i) ==
    \E c \in LastWritten("CTL1", i) : Bit21(packets[c].data[1]) /\ Masked(c)

\* Packet i executes WCFG.
StartsWrite(i) ==
    \/ Written("CMD", i) /\ packets[i].data[1] = WCFG
    \/ Written("FAR", i) /\ ~Inhibited(i) /\ Commanded(i)

\* Packet i ends the wait for data, even if it brings none.
WritesFrames(i) == packets[i].opcode = "Write" /\ packets[i].address = "FDRI"

\* WCFG was executed, and no FDRI packet has come since, up to packet n.
Pending(n) ==
    \E i \in 1..n : StartsWrite(i) /\ \A k \in i..n : ~WritesFrames(k)

AddressIn(js) ==
    IF js = {} THEN ZeroAddress
    ELSE Unpacked(part.arch, packets[CHOOSE j \in js : TRUE].data[1])

\* The address in FAR when packet i is taken.
AddressAt(i) == AddressIn(LastWritten("FAR", i))

(***************************************************************************)
(* Where an FDRI packet starts is a function of the packets before it: at  *)
(* the last FAR if WCFG was executed since the previous FDRI packet, where *)
(* that one stopped otherwise.  A FAR written while bit 21 of CTL1 is set  *)
(* is a progress marker and moves nothing.                                 *)
(***************************************************************************)
BurstOrigin ==
    [][pc = "fetch" /\ pc' = "burst" =>
           current_frame_address' =
               IF Pending(pos) THEN AddressAt(pos + 1)
                               ELSE current_frame_address]_vars

\* If every FDRI packet brings whole frames then every frame of the
\* configuration is whole, whatever padding the bursts skip and however
\* they end.
WholeFrames ==
    (\A i \in 1..pos : WritesFrames(i) => Len(packets[i].data) % WordsPerFrame = 0)
        => \A a \in DOMAIN frames : Len(frames[a]) = WordsPerFrame

\* Within one FDRI packet the addresses ascend, so no frame of a packet is
\* stored over another frame of the same packet.
BurstAscends ==
    [][pc = "burst" /\ pc' = "burst" =>
           Packed(current_frame_address) < Packed(current_frame_address')]_vars

\* A configuration is returned only if every IDCODE in the stream is the
\* part's, and refused only for one that is not.
OnlyForThisPart ==
    /\ pc = "accepted" =>
           \A i \in DOMAIN packets : Written("IDCODE", i) => packets[i].data[1] = IdCode
    /\ pc = "rejected" =>
           \E i \in 1..pos : Written("IDCODE", i) /\ packets[i].data[1] # IdCode

=============================================================================

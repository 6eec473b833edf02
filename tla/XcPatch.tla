------------------------------- MODULE XcPatch -------------------------------
(***************************************************************************)
(* xcpatch: the frames of a base bitstream are changed by the frames of a  *)
(* .frm file and written to a new bitstream, which is then read back.      *)
(*                                                                         *)
(* The base bitstream stores frames at any addresses, one burst to each if *)
(* it likes, so that the base frames are any map of the constant Bases.    *)
(***************************************************************************)
EXTENDS PartAddressing, Sequences

CONSTANTS
    WordsPerFrame, Word, Ecc(_), Parts, FrmFiles(_), IdCode,
    Bases \* the maps of frames that a base bitstream may store

VARIABLES
    part,
    frm_file, line, frames_data, current, frames_pc, \* frames_from_file
    base,     \* bitstream_config->frames()
    frames,   \* the mutable copy of them
    deltas,   \* the addresses that patch_frames has still to visit
    patch_pc, \* "reading", "patching", "patched", "failed"
    remaining, packet_data, packets, writer_pc,      \* ConfigurationWriter
    pos, command_register, frame_address_register, mask_register,
    ctl1_register, start_new_write, current_frame_address, ii,
    read_back, reader_pc                             \* Configuration

container_vars == <<frm_file, line, frames_data, current, frames_pc>>

patch_vars == <<base, frames, deltas, patch_pc>>

writer_vars == <<remaining, packet_data, packets, writer_pc>>

reader_vars == <<pos, command_register, frame_address_register, mask_register,
                 ctl1_register, start_new_write, current_frame_address, ii,
                 read_back, reader_pc>>

vars == <<part, container_vars, patch_vars, writer_vars, reader_vars>>

Container == INSTANCE Frames

Writer == INSTANCE ConfigurationWriter

Reader == INSTANCE Configuration
              WITH frames <- read_back, pc <- reader_pc, PacketStreams <- {}

\* The frames of a base bitstream are whole, as they are when its packets bring
\* whole frames (WholeFrames of Configuration).  Spartan-6 has a writer and a
\* reader of its own.
ASSUME XcPatchAssumption ==
    /\ Container!FramesConstants
    /\ IdCode \in Nat
    /\ \A p \in Parts : p.arch # "Spartan6"
    /\ \A map \in Bases :
          /\ DOMAIN map \subseteq FrameAddress
          /\ map \in [DOMAIN map -> Seq(Nat)]
          /\ \A a \in DOMAIN map : Len(map[a]) = WordsPerFrame

-----------------------------------------------------------------------------

\* Without a .frm file the base is written as it is.
Init ==
    /\ Container!Init
    /\ base \in Bases
    /\ frames = base
    /\ deltas = {}
    /\ patch_pc \in {"reading", "patched"}
    /\ Writer!InitWriter
    /\ Reader!InitRegisters

ReadDeltas ==
    /\ patch_pc = "reading"
    /\ Container!readFrames
    /\ UNCHANGED <<patch_vars, writer_vars, reader_vars>>

\* An invalid .frm file ends the program.
BeginPatch ==
    /\ patch_pc = "reading"
    /\ frames_pc = "read"
    /\ deltas' = DOMAIN frames_data
    /\ patch_pc' = "patching"
    /\ UNCHANGED <<part, container_vars, base, frames, writer_vars, reader_vars>>

\* The next address of the loop over frames_from_file.
IsNextDelta(a) == a \in deltas /\ \A b \in deltas : Packed(a) <= Packed(b)

\* Mutant of PatchFrame: a frame that the base does not have is added.
PatchOrAddFrame ==
    /\ patch_pc = "patching"
    /\ \E a \in deltas :
          /\ IsNextDelta(a)
          /\ frames' = Container!Assign(frames, a, frames_data[a])
          /\ deltas' = deltas \ {a}
    /\ UNCHANGED <<part, container_vars, base, patch_pc, writer_vars,
                   reader_vars>>

PatchFrame ==
    /\ patch_pc = "patching"
    /\ \E a \in deltas :
          /\ IsNextDelta(a)
          /\ a \in DOMAIN frames
          /\ frames' = [frames EXCEPT ![a] = frames_data[a]]
          /\ deltas' = deltas \ {a}
    /\ UNCHANGED <<part, container_vars, base, patch_pc, writer_vars,
                   reader_vars>>

\* "Bitstream doesn't contain frame with address ..."
RefuseDelta ==
    /\ patch_pc = "patching"
    /\ \E a \in deltas : IsNextDelta(a) /\ a \notin DOMAIN frames
    /\ patch_pc' = "failed"
    /\ UNCHANGED <<part, container_vars, base, frames, deltas, writer_vars,
                   reader_vars>>

EndPatch ==
    /\ patch_pc = "patching"
    /\ deltas = {}
    /\ patch_pc' = "patched"
    /\ UNCHANGED <<part, container_vars, base, frames, deltas, writer_vars,
                   reader_vars>>

patch_frames ==
    ReadDeltas \/ BeginPatch \/ PatchFrame \/ RefuseDelta \/ EndPatch

WritePackets ==
    /\ patch_pc = "patched"
    /\ Writer!WriterNext
    /\ UNCHANGED <<container_vars, patch_vars, reader_vars>>

ReadBack ==
    /\ writer_pc = "packaged"
    /\ Reader!Next
    /\ UNCHANGED <<container_vars, patch_vars, writer_vars>>

Next == patch_frames \/ WritePackets \/ ReadBack

Spec == Init /\ [][Next]_vars

-----------------------------------------------------------------------------

(***************************************************************************)
(* What is written is the base with the frames of the file in place of its *)
(* own, whatever the order of the file's lines; and if the file has a      *)
(* frame that the base has not, nothing is written.                        *)
(***************************************************************************)
Overlay(over, under) ==
    [a \in DOMAIN under |-> IF a \in DOMAIN over THEN over[a] ELSE under[a]]

WritesOverlay ==
    writer_pc # "idle" => /\ frames = Overlay(frames_data, base)
                          /\ DOMAIN frames_data \subseteq DOMAIN base

(***************************************************************************)
(* xcpatch does not add missing frames as xcframes2bit does.  The patched  *)
(* bitstream says what was written exactly when the base has the very      *)
(* frames that the walk from address zero comes by: with fewer, the        *)
(* padding at the end is read as frames or the frames move to addresses    *)
(* where there are none; with more, some are never read.                   *)
(***************************************************************************)
PatchedExactlyWhenBaseWhole ==
    reader_pc = "accepted" =>
        (read_back = frames <=> DOMAIN base = WalkedAddresses(part))

=============================================================================

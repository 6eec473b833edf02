-------------------------- MODULE ConfigurationSplit --------------------------
(***************************************************************************)
(* Two interpreters of the same stream, but for one thing: what the first  *)
(* gets in one FDRI packet, the second gets in two.  Bitstreams with a CRC *)
(* for every frame, as bits2rbt writes them, cut the data that a plain     *)
(* bitstream has in one packet into many.                                  *)
(***************************************************************************)
EXTENDS Configuration

CONSTANTS
    Prologues, \* the streams before the data
    FdriData   \* the data

ASSUME SplitAssumption ==
    /\ \A prologue \in Prologues : prologue \in Seq(Packet)
    /\ \A data \in FdriData : data \in Seq(Nat)

VARIABLES
    packets2, pos2, command_register2, frame_address_register2, mask_register2,
    ctl1_register2, start_new_write2, current_frame_address2, ii2, frames2, pc2,
    cut,    \* the number of words in the first of the two packets
    starts  \* the offsets where the whole packet has had a frame start

\* The first interpreter, but for the part, and the second.
whole_vars == <<packets, pos, command_register, mask_register, ctl1_register,
                far_state, burst_state, pc>>

split_vars == <<packets2, pos2, command_register2, frame_address_register2,
                mask_register2, ctl1_register2, start_new_write2,
                current_frame_address2, ii2, frames2, pc2>>

both_vars == <<part, whole_vars, split_vars, cut, starts>>

Split == INSTANCE Configuration WITH
             packets <- packets2, pos <- pos2,
             command_register <- command_register2,
             frame_address_register <- frame_address_register2,
             mask_register <- mask_register2, ctl1_register <- ctl1_register2,
             start_new_write <- start_new_write2,
             current_frame_address <- current_frame_address2,
             ii <- ii2, frames <- frames2, pc <- pc2

-----------------------------------------------------------------------------

FDRI(data) == [opcode |-> "Write", address |-> "FDRI", data |-> data]

InitBoth ==
    /\ part \in Parts
    /\ \E prologue \in Prologues, data \in FdriData :
          /\ cut \in 0..Len(data) - 1
          /\ packets = Append(prologue, FDRI(data))
          /\ packets2 = prologue \o <<FDRI(SubSeq(data, 1, cut)),
                                      FDRI(SubSeq(data, cut + 1, Len(data)))>>
    /\ InitRegisters
    /\ Split!InitRegisters
    /\ starts = {}

InterpretWhole ==
    /\ Next
    /\ starts' = starts \union IF pc = "burst" /\ pos = Len(packets)
                               THEN {ii} ELSE {}
    /\ UNCHANGED <<split_vars, cut>>

\* The second runs when the first has returned: they share only the part.
InterpretSplit ==
    /\ pc = "accepted"
    /\ Split!Next
    /\ UNCHANGED <<whole_vars, cut, starts>>

InterpretBoth == InterpretWhole \/ InterpretSplit

BothSpec == InitBoth /\ [][InterpretBoth]_both_vars

-----------------------------------------------------------------------------

\* The packet that is cut, and the word behind the cut.
LastData == packets[Len(packets)].data

WordAtCut == LastData[cut + 1]

\* No other word of the stream's data is like the word behind the cut.
CutIsUnmistakable ==
    \A i \in 1..Len(packets) : WritesFrames(i) =>
        \A j \in 1..Len(packets[i].data) :
            packets[i].data[j] = WordAtCut => i = Len(packets) /\ j = cut + 1

(***************************************************************************)
(* The two agree if the cut is where the whole packet has a frame start,   *)
(* and for no other cut, unless equal words hide the difference.  A cut    *)
(* inside a frame misplaces words; a cut next to the padding between rows  *)
(* makes a frame of it, since only the loop over the data of one packet    *)
(* knows of padding; and after the last frame of the part, where a whole   *)
(* packet is left unread, a second packet overwrites that frame.           *)
(***************************************************************************)
SplitWhereFramesStart ==
    pc2 = "accepted" =>
        /\ cut \in starts => frames = frames2
        /\ CutIsUnmistakable /\ frames = frames2 => cut \in starts

=============================================================================

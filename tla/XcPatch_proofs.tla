--------------------------- MODULE XcPatch_proofs ---------------------------
(***************************************************************************)
(* What xcpatch writes, for every part, .frm file and base bitstream, and  *)
(* what is read back of it.                                                *)
(***************************************************************************)
EXTENDS XcPatch, TLAPS

\* The .frm file, and the way of the frames to packets and back.
Made == INSTANCE Frames_proofs

Trip == INSTANCE RoundTrip_proofs WITH stream <- packets

-----------------------------------------------------------------------------

\* The frames while the addresses in left have still to be visited.
PatchedBut(left) ==
    [a \in DOMAIN base |-> IF a \in DOMAIN frames_data \ left
                          THEN frames_data[a] ELSE base[a]]

(***************************************************************************)
(* WritesOverlay as it holds while the frames are patched: the frames that *)
(* have been visited are those of the file, and the base had them all.     *)
(* The writer begins when no address is left.                              *)
(***************************************************************************)
OverlayInv ==
    /\ base = [a \in DOMAIN base |-> base[a]]
    /\ patch_pc = "reading" => frames = base
    /\ patch_pc # "reading" =>
           /\ frames = PatchedBut(deltas)
           /\ deltas \subseteq DOMAIN frames_data
           /\ DOMAIN frames_data \ deltas \subseteq DOMAIN base
    /\ patch_pc = "patched" => deltas = {}
    /\ writer_pc # "idle" => patch_pc = "patched"

\* The copy of the base is patched with nothing at first.
LEMMA InitOverlayInv == Init => OverlayInv
<1>1. SUFFICES ASSUME Init PROVE OverlayInv
  OBVIOUS
<1>2. /\ base \in Bases /\ frames = base /\ deltas = {}
      /\ frames_data = <<>> /\ writer_pc = "idle"
  BY <1>1 DEF Init, Container!Init, Writer!InitWriter
<1>3. base = [a \in DOMAIN base |-> base[a]]
  BY <1>2, XcPatchAssumption
<1>4. DOMAIN frames_data = {}
  BY <1>2
<1>5. frames = PatchedBut({})
  BY <1>2, <1>3, <1>4 DEF PatchedBut
<1>6. QED
  BY <1>2, <1>3, <1>4, <1>5 DEF OverlayInv

\* A visit replaces the frame of one address that the base has.
LEMMA VisitOverlays ==
    ASSUME NEW a \in deltas, deltas \subseteq DOMAIN frames_data,
           a \in DOMAIN frames, frames = PatchedBut(deltas),
           DOMAIN frames_data \ deltas \subseteq DOMAIN base
    PROVE  /\ [frames EXCEPT ![a] = frames_data[a]] = PatchedBut(deltas \ {a})
           /\ DOMAIN frames_data \ (deltas \ {a}) \subseteq DOMAIN base
<1>1. DOMAIN frames = DOMAIN base /\ a \in DOMAIN base
  BY DEF PatchedBut
<1>2. DOMAIN frames_data \ (deltas \ {a}) = (DOMAIN frames_data \ deltas) \union {a}
  OBVIOUS
<1>3. ASSUME NEW b \in DOMAIN base
      PROVE  (IF b = a THEN frames_data[a] ELSE frames[b]) =
                 IF b \in DOMAIN frames_data \ (deltas \ {a})
                 THEN frames_data[b] ELSE base[b]
  BY <1>2 DEF PatchedBut
<1>4. [frames EXCEPT ![a] = frames_data[a]] =
          [b \in DOMAIN base |-> IF b = a THEN frames_data[a] ELSE frames[b]]
  BY <1>1
<1>5. QED
  BY <1>1, <1>2, <1>3, <1>4 DEF PatchedBut

\* Every step of xcpatch, of the writer and of the reader keeps OverlayInv.
LEMMA NextOverlayInv == OverlayInv /\ [Next]_vars => OverlayInv'
<1>1. SUFFICES ASSUME OverlayInv, [Next]_vars PROVE OverlayInv'
  OBVIOUS
<1>2. ASSUME UNCHANGED <<frames_data, patch_vars, writer_pc>>
      PROVE  OverlayInv'
  BY <1>1, <1>2 DEF OverlayInv, PatchedBut, patch_vars
<1>3. CASE UNCHANGED vars
  BY <1>2, <1>3 DEF vars, container_vars, writer_vars
<1>4. CASE ReadDeltas
  BY <1>1, <1>4 DEF ReadDeltas, patch_vars, writer_vars, OverlayInv
<1>5. CASE BeginPatch
  <2>1. /\ patch_pc = "reading" /\ patch_pc' = "patching"
        /\ frames_data' = frames_data /\ base' = base /\ frames' = frames
        /\ deltas' = DOMAIN frames_data /\ writer_pc' = writer_pc
    BY <1>5 DEF BeginPatch, container_vars, writer_vars
  <2>2. frames = base /\ writer_pc = "idle"
    BY <1>1, <2>1 DEF OverlayInv
  <2>3. DOMAIN frames_data \ DOMAIN frames_data = {}
    OBVIOUS
  <2>4. frames = PatchedBut(deltas')
    BY <1>1, <2>1, <2>2 DEF OverlayInv, PatchedBut
  <2>5. frames' = PatchedBut(deltas)'
    BY <2>1, <2>4 DEF PatchedBut
  <2>6. QED
    BY <1>1, <2>1, <2>2, <2>3, <2>5 DEF OverlayInv
<1>6. CASE PatchFrame
  <2>1. PICK a \in deltas : /\ a \in DOMAIN frames
                            /\ frames' = [frames EXCEPT ![a] = frames_data[a]]
                            /\ deltas' = deltas \ {a}
    BY <1>6 DEF PatchFrame
  <2>2. /\ patch_pc = "patching" /\ patch_pc' = "patching"
        /\ frames_data' = frames_data /\ base' = base
        /\ writer_pc' = writer_pc
    BY <1>6 DEF PatchFrame, container_vars, writer_vars
  <2>3. /\ frames = PatchedBut(deltas) /\ deltas \subseteq DOMAIN frames_data
        /\ DOMAIN frames_data \ deltas \subseteq DOMAIN base
        /\ writer_pc = "idle"
    BY <1>1, <2>2 DEF OverlayInv
  <2>4. /\ frames' = PatchedBut(deltas')
        /\ DOMAIN frames_data \ deltas' \subseteq DOMAIN base
    BY <2>1, <2>3, VisitOverlays
  <2>5. frames' = PatchedBut(deltas)'
    BY <2>2, <2>4 DEF PatchedBut
  <2>6. QED
    BY <1>1, <2>1, <2>2, <2>3, <2>4, <2>5 DEF OverlayInv
<1>7. CASE RefuseDelta \/ EndPatch
  <2>1. /\ patch_pc = "patching" /\ patch_pc' \in {"failed", "patched"}
        /\ patch_pc' = "patched" => deltas = {}
        /\ frames_data' = frames_data /\ base' = base /\ frames' = frames
        /\ deltas' = deltas /\ writer_pc' = writer_pc
    BY <1>7 DEF RefuseDelta, EndPatch, container_vars, writer_vars
  <2>2. PatchedBut(deltas)' = PatchedBut(deltas)
    BY <2>1 DEF PatchedBut
  <2>3. QED
    BY <1>1, <2>1, <2>2 DEF OverlayInv
<1>8. CASE WritePackets
  <2>1. patch_pc = "patched" /\ UNCHANGED <<frames_data, patch_vars>>
    BY <1>8 DEF WritePackets, container_vars
  <2>2. QED
    BY <1>1, <2>1 DEF OverlayInv, PatchedBut, patch_vars
<1>9. CASE ReadBack
  BY <1>2, <1>9 DEF ReadBack, container_vars, writer_vars
<1>10. QED
  BY <1>1, <1>3, <1>4, <1>5, <1>6, <1>7, <1>8, <1>9 DEF Next, patch_frames

\* What is written is the base with the frames of the file in place of its
\* own, and nothing is written when the file has a frame that the base has
\* not, for every part, .frm file and base bitstream.
THEOREM OverlayIsWritten == Spec => []WritesOverlay
<1>1. OverlayInv => WritesOverlay
  <2>1. SUFFICES ASSUME OverlayInv, writer_pc # "idle"
                 PROVE  /\ frames = Overlay(frames_data, base)
                        /\ DOMAIN frames_data \subseteq DOMAIN base
    BY DEF WritesOverlay
  <2>2. frames = PatchedBut({}) /\ DOMAIN frames_data \ {} \subseteq DOMAIN base
    BY <2>1 DEF OverlayInv
  <2>3. DOMAIN frames_data \ {} = DOMAIN frames_data
    OBVIOUS
  <2>4. QED
    BY <2>2, <2>3 DEF PatchedBut, Overlay
<1>2. QED
  BY <1>1, InitOverlayInv, NextOverlayInv, PTL DEF Spec

-----------------------------------------------------------------------------
(***************************************************************************)
(* The parts of xcpatch are those that the other modules are about.        *)
(***************************************************************************)

\* A part is a part.
LEMMA SameParts ==
    /\ FrameAddress = Made!FrameAddress /\ FrameAddress = Trip!FrameAddress
    /\ \A p : /\ Container!IsPart(p) <=> Made!IsPart(p)
              /\ IsPart(p) <=> Made!IsPart(p)
              /\ IsPart(p) <=> Trip!IsPart(p)
    /\ Container!FrameAddress = Made!FrameAddress
BY DEF FrameAddress, Made!FrameAddress, Trip!FrameAddress, Container!FrameAddress,
       IsPart, Container!IsPart, Made!IsPart, Trip!IsPart,
       Architectures, Container!Architectures, Made!Architectures,
       Trip!Architectures, ColumnKey, Container!ColumnKey, Made!ColumnKey,
       Trip!ColumnKey, MinorCount, Container!MinorCount, Made!MinorCount,
       Trip!MinorCount

\* Reading the .frm file.
LEMMA SameFile ==
    /\ Container!FramesConstants <=> Made!FramesConstants
    /\ Container!Init => Made!Init
    /\ Container!readFrames => Made!readFrames
<1>1. Container!FramesConstants <=> Made!FramesConstants
  BY SameParts
     DEF Container!FramesConstants, Made!FramesConstants, Container!FrameData,
         Made!FrameData, Container!Line, Made!Line, Container!NotHex, Made!NotHex
<1>2. Container!Init => Made!Init
  BY DEF Container!Init, Made!Init
<1>3. Container!readFrames => Made!readFrames
  <2>1. /\ \A words : Container!IsHex(words) <=> Made!IsHex(words)
        /\ \A arch, words :
               /\ Container!WellCounted(arch, words) <=>
                      Made!WellCounted(arch, words)
               /\ Container!updateECC(arch, words) = Made!updateECC(arch, words)
    BY DEF Container!IsHex, Made!IsHex, Container!NotHex, Made!NotHex,
           Container!WellCounted, Made!WellCounted, Container!updateECC,
           Made!updateECC
  <2>2. \A p, a : Container!IsValidFrameAddress(p, a) <=>
                      Made!IsValidFrameAddress(p, a)
    BY DEF Container!IsValidFrameAddress, Made!IsValidFrameAddress,
           Container!ColumnOf, Made!ColumnOf
  <2>3. /\ Container!Returned = Made!Returned
        /\ Container!GetLine <=> Made!GetLine
    BY DEF Container!Returned, Made!Returned, Container!GetLine, Made!GetLine
  <2>4. Container!HasFrame <=> Made!HasFrame
    BY <2>1, <2>2, <2>3 DEF Container!HasFrame, Made!HasFrame
  <2>5. \A map, key, value :
            Container!Insert(map, key, value) = Made!Insert(map, key, value)
    BY DEF Container!Insert, Made!Insert, Container!Assign, Made!Assign
  <2>6. /\ Container!FailToOpen => Made!FailToOpen
        /\ Container!EndOfFile => Made!EndOfFile
    BY DEF Container!FailToOpen, Made!FailToOpen, Container!EndOfFile,
           Made!EndOfFile
  <2>7. /\ Container!SkipComment => Made!SkipComment
        /\ Container!AbortOnMalformedLine => Made!AbortOnMalformedLine
        /\ Container!RejectUnknownAddress => Made!RejectUnknownAddress
    BY <2>1, <2>2, <2>3, <2>4
       DEF Container!SkipComment, Made!SkipComment,
           Container!AbortOnMalformedLine, Made!AbortOnMalformedLine,
           Container!RejectUnknownAddress, Made!RejectUnknownAddress
  <2>8. Container!SkipWrongWordCount => Made!SkipWrongWordCount
    BY <2>1, <2>2, <2>3
       DEF Container!SkipWrongWordCount, Made!SkipWrongWordCount
  <2>9. Container!InsertFrame => Made!InsertFrame
    BY <2>1, <2>3, <2>4, <2>5 DEF Container!InsertFrame, Made!InsertFrame
  <2>10. QED
    BY <2>6, <2>7, <2>8, <2>9 DEF Container!readFrames, Made!readFrames
<1>4. QED
  BY <1>1, <1>2, <1>3

\* The writer goes from an address to the next one.
LEMMA WriterGoesOn ==
    \A p, a : Writer!GetNextFrameAddress(p, a) =
               Trip!GetNextFrameAddress(p, a)
<1>1. SUFFICES ASSUME NEW p, NEW a
               PROVE  Writer!GetNextFrameAddress(p, a) =
                          Trip!GetNextFrameAddress(p, a)
  OBVIOUS
<1>2. Writer!BusNext(p, a) = Trip!BusNext(p, a)
  BY DEF Writer!BusNext, Trip!BusNext, Writer!ColumnNext, Trip!ColumnNext,
         Writer!SameRow, Trip!SameRow, Writer!FirstOf, Trip!FirstOf,
         Writer!IfValid, Trip!IfValid, Writer!IsValidFrameAddress,
         Trip!IsValidFrameAddress, Writer!ColumnOf, Trip!ColumnOf,
         Writer!Following, Trip!Following, Writer!Address, Trip!Address
<1>3. Writer!RowNext(p, a) = Trip!RowNext(p, a)
  BY <1>2 DEF Writer!RowNext, Trip!RowNext, Writer!SameRow, Trip!SameRow
<1>4. Writer!GlobalClockRegionNext(p, a) =
          Trip!GlobalClockRegionNext(p, a)
  BY <1>3
     DEF Writer!GlobalClockRegionNext, Trip!GlobalClockRegionNext,
         Writer!FirstOf, Trip!FirstOf, Writer!IfValid, Trip!IfValid,
         Writer!IsValidFrameAddress, Trip!IsValidFrameAddress,
         Writer!ColumnOf, Trip!ColumnOf, Writer!Following, Trip!Following,
         Writer!Address, Trip!Address
<1>5. Writer!RowsNext(p, a) = Trip!RowsNext(p, a)
  BY <1>3
     DEF Writer!RowsNext, Trip!RowsNext, Writer!NumberedRow,
         Trip!NumberedRow, Writer!FirstOf, Trip!FirstOf, Writer!IfValid,
         Trip!IfValid, Writer!IsValidFrameAddress,
         Trip!IsValidFrameAddress, Writer!ColumnOf, Trip!ColumnOf,
         Writer!Following, Trip!Following, Writer!Address, Trip!Address
<1>6. /\ Writer!BottomHalfNext(p, a) = Trip!BottomHalfNext(p, a)
      /\ Writer!Spartan6BottomNext(p, a) =
             Trip!Spartan6BottomNext(p, a)
  BY DEF Writer!BottomHalfNext, Trip!BottomHalfNext,
         Writer!Spartan6BottomNext, Trip!Spartan6BottomNext,
         Writer!IfValid, Trip!IfValid, Writer!IsValidFrameAddress,
         Trip!IsValidFrameAddress, Writer!ColumnOf, Trip!ColumnOf,
         Writer!Address, Trip!Address
<1>7. Writer!BlockTypeNext(p, a) = Trip!BlockTypeNext(p, a)
  BY DEF Writer!BlockTypeNext, Trip!BlockTypeNext, Writer!BLOCK_RAM,
         Trip!BLOCK_RAM, Writer!CFG_CLB, Trip!CFG_CLB, Writer!FirstOf,
         Trip!FirstOf, Writer!IfValid, Trip!IfValid,
         Writer!IsValidFrameAddress, Trip!IsValidFrameAddress,
         Writer!ColumnOf, Trip!ColumnOf, Writer!Address, Trip!Address
<1>8. /\ Writer!Series7Next(p, a) = Trip!Series7Next(p, a)
      /\ Writer!Spartan6Next(p, a) = Trip!Spartan6Next(p, a)
  BY <1>4, <1>6, <1>7
     DEF Writer!Series7Next, Trip!Series7Next, Writer!Spartan6Next,
         Trip!Spartan6Next, Writer!FirstOf, Trip!FirstOf
<1>9. Writer!UltraScaleNext(p, a) = Trip!UltraScaleNext(p, a)
  BY <1>5, <1>7
     DEF Writer!UltraScaleNext, Trip!UltraScaleNext, Writer!NumberedRow,
         Trip!NumberedRow, Writer!FirstOf, Trip!FirstOf
<1>10. QED
  BY <1>8, <1>9 DEF Writer!GetNextFrameAddress, Trip!GetNextFrameAddress

\* Writing the packets.
LEMMA SameWriter ==
    /\ Writer!InitWriter => Trip!InitWriter
    /\ Writer!WriterNext => Trip!WriterNext
    /\ Writer!writer_vars = Trip!writer_vars
<1>1. \A a : Writer!SeparatorAfter(a) = Trip!SeparatorAfter(a)
  BY WriterGoesOn
     DEF Writer!SeparatorAfter, Trip!SeparatorAfter, Writer!Separator,
         Trip!Separator, Writer!CrossesRow, Trip!CrossesRow, Writer!SameRow,
         Trip!SameRow
<1>2. Writer!createType2ConfigurationPacketData =>
          Trip!createType2ConfigurationPacketData
  <2>1. \A a, b : Writer!Packed(a) <= Writer!Packed(b) <=>
                     Trip!Packed(a) <= Trip!Packed(b)
    BY DEF Writer!Packed, Trip!Packed
  <2>2. Writer!BeginPacking => Trip!BeginPacking
    BY DEF Writer!BeginPacking, Trip!BeginPacking
  <2>3. Writer!PackFrame => Trip!PackFrame
    BY <1>1, <2>1 DEF Writer!PackFrame, Trip!PackFrame
  <2>4. Writer!EndPacking => Trip!EndPacking
    BY DEF Writer!EndPacking, Trip!EndPacking, Writer!Separator, Trip!Separator
  <2>5. QED
    BY <2>2, <2>3, <2>4 DEF Writer!createType2ConfigurationPacketData,
           Trip!createType2ConfigurationPacketData
<1>3. Writer!FrameWrite = Trip!FrameWrite /\ Writer!NOPs = Trip!NOPs
  BY DEF Writer!FrameWrite, Trip!FrameWrite, Writer!Write, Trip!Write, Writer!CMD,
         Trip!CMD, Writer!NOPs, Trip!NOPs, Writer!Command, Trip!Command
<1>4. /\ \A register, data : Writer!Write(register, data) = Trip!Write(register, data)
      /\ \A name : Writer!CMD(name) = Trip!CMD(name)
  BY DEF Writer!Write, Trip!Write, Writer!CMD, Trip!CMD, Writer!Command, Trip!Command
<1>5. /\ Writer!Series7Package = Trip!Series7Package
      /\ Writer!UltraScalePackage = Trip!UltraScalePackage
  <2>1. Writer!Series7Options = Trip!Series7Options
    BY DEF Writer!Series7Options, Trip!Series7Options
  <2>2. Writer!Series7Initialization = Trip!Series7Initialization
    BY <2>1, SMT
       DEF Writer!Series7Initialization, Trip!Series7Initialization, Writer!Write,
           Trip!Write, Writer!CMD, Trip!CMD, Writer!NOPs, Trip!NOPs,
           Writer!Command, Trip!Command
  <2>3. Writer!UltraScaleInitialization = Trip!UltraScaleInitialization
    BY SMT
       DEF Writer!UltraScaleInitialization, Trip!UltraScaleInitialization,
           Writer!Write, Trip!Write, Writer!CMD, Trip!CMD, Writer!NOPs, Trip!NOPs,
           Writer!Command, Trip!Command
  <2>4. /\ Writer!Control(1025, 1281) = Trip!Control(1025, 1281)
        /\ Writer!Control(1, 257) = Trip!Control(1, 257)
    BY SMT
       DEF Writer!Control, Trip!Control, Writer!Write, Trip!Write, Writer!NOPs,
           Trip!NOPs
  <2>5. /\ Writer!Finalization(1281, 1281) = Trip!Finalization(1281, 1281)
        /\ Writer!Finalization(257, 257) = Trip!Finalization(257, 257)
    BY SMT
       DEF Writer!Finalization, Trip!Finalization, Writer!Write, Trip!Write,
           Writer!CMD, Trip!CMD, Writer!NOPs, Trip!NOPs, Writer!Command,
           Trip!Command
  <2>6. Writer!Series7Package = Trip!Series7Package
    BY ONLY <1>3, <2>2, <2>4, <2>5 DEF Writer!Series7Package, Trip!Series7Package
  <2>7. Writer!UltraScalePackage = Trip!UltraScalePackage
    BY ONLY <1>3, <2>3, <2>4, <2>5
       DEF Writer!UltraScalePackage, Trip!UltraScalePackage
  <2>8. QED
    BY <2>6, <2>7
<1>6. Writer!createConfigurationPackage => Trip!createConfigurationPackage
  BY <1>5 DEF Writer!createConfigurationPackage, Trip!createConfigurationPackage
<1>7. /\ Writer!InitWriter => Trip!InitWriter
      /\ Writer!writer_vars = Trip!writer_vars
  BY DEF Writer!InitWriter, Trip!InitWriter, Writer!writer_vars, Trip!writer_vars
<1>8. QED
  BY <1>2, <1>6, <1>7 DEF Writer!WriterNext, Trip!WriterNext

\* So does the reader.
LEMMA ReaderGoesOn ==
    \A p, a : Reader!GetNextFrameAddress(p, a) =
               Trip!Reader!GetNextFrameAddress(p, a)
<1>1. SUFFICES ASSUME NEW p, NEW a
               PROVE  Reader!GetNextFrameAddress(p, a) =
                          Trip!Reader!GetNextFrameAddress(p, a)
  OBVIOUS
<1>2. Reader!BusNext(p, a) = Trip!Reader!BusNext(p, a)
  BY DEF Reader!BusNext, Trip!Reader!BusNext, Reader!ColumnNext,
         Trip!Reader!ColumnNext, Reader!SameRow, Trip!Reader!SameRow,
         Reader!FirstOf, Trip!Reader!FirstOf, Reader!IfValid,
         Trip!Reader!IfValid, Reader!IsValidFrameAddress,
         Trip!Reader!IsValidFrameAddress, Reader!ColumnOf,
         Trip!Reader!ColumnOf, Reader!Following, Trip!Reader!Following,
         Reader!Address, Trip!Reader!Address
<1>3. Reader!RowNext(p, a) = Trip!Reader!RowNext(p, a)
  BY <1>2 DEF Reader!RowNext, Trip!Reader!RowNext, Reader!SameRow,
         Trip!Reader!SameRow
<1>4. Reader!GlobalClockRegionNext(p, a) =
          Trip!Reader!GlobalClockRegionNext(p, a)
  BY <1>3
     DEF Reader!GlobalClockRegionNext, Trip!Reader!GlobalClockRegionNext,
         Reader!FirstOf, Trip!Reader!FirstOf, Reader!IfValid,
         Trip!Reader!IfValid, Reader!IsValidFrameAddress,
         Trip!Reader!IsValidFrameAddress, Reader!ColumnOf,
         Trip!Reader!ColumnOf, Reader!Following, Trip!Reader!Following,
         Reader!Address, Trip!Reader!Address
<1>5. Reader!RowsNext(p, a) = Trip!Reader!RowsNext(p, a)
  BY <1>3
     DEF Reader!RowsNext, Trip!Reader!RowsNext, Reader!NumberedRow,
         Trip!Reader!NumberedRow, Reader!FirstOf, Trip!Reader!FirstOf,
         Reader!IfValid, Trip!Reader!IfValid, Reader!IsValidFrameAddress,
         Trip!Reader!IsValidFrameAddress, Reader!ColumnOf,
         Trip!Reader!ColumnOf, Reader!Following, Trip!Reader!Following,
         Reader!Address, Trip!Reader!Address
<1>6. /\ Reader!BottomHalfNext(p, a) = Trip!Reader!BottomHalfNext(p, a)
      /\ Reader!Spartan6BottomNext(p, a) =
             Trip!Reader!Spartan6BottomNext(p, a)
  BY DEF Reader!BottomHalfNext, Trip!Reader!BottomHalfNext,
         Reader!Spartan6BottomNext, Trip!Reader!Spartan6BottomNext,
         Reader!IfValid, Trip!Reader!IfValid, Reader!IsValidFrameAddress,
         Trip!Reader!IsValidFrameAddress, Reader!ColumnOf,
         Trip!Reader!ColumnOf, Reader!Address, Trip!Reader!Address
<1>7. Reader!BlockTypeNext(p, a) = Trip!Reader!BlockTypeNext(p, a)
  BY DEF Reader!BlockTypeNext, Trip!Reader!BlockTypeNext, Reader!BLOCK_RAM,
         Trip!Reader!BLOCK_RAM, Reader!CFG_CLB, Trip!Reader!CFG_CLB,
         Reader!FirstOf, Trip!Reader!FirstOf, Reader!IfValid,
         Trip!Reader!IfValid, Reader!IsValidFrameAddress,
         Trip!Reader!IsValidFrameAddress, Reader!ColumnOf,
         Trip!Reader!ColumnOf, Reader!Address, Trip!Reader!Address
<1>8. /\ Reader!Series7Next(p, a) = Trip!Reader!Series7Next(p, a)
      /\ Reader!Spartan6Next(p, a) = Trip!Reader!Spartan6Next(p, a)
  BY <1>4, <1>6, <1>7
     DEF Reader!Series7Next, Trip!Reader!Series7Next, Reader!Spartan6Next,
         Trip!Reader!Spartan6Next, Reader!FirstOf, Trip!Reader!FirstOf
<1>9. Reader!UltraScaleNext(p, a) = Trip!Reader!UltraScaleNext(p, a)
  BY <1>5, <1>7
     DEF Reader!UltraScaleNext, Trip!Reader!UltraScaleNext,
         Reader!NumberedRow, Trip!Reader!NumberedRow, Reader!FirstOf,
         Trip!Reader!FirstOf
<1>10. QED
  BY <1>8, <1>9 DEF Reader!GetNextFrameAddress, Trip!Reader!GetNextFrameAddress

\* Reading them back.
LEMMA SameReader ==
    /\ Reader!InitRegisters <=> Trip!Reader!InitRegisters
    /\ Reader!Next => Trip!Reader!Next
<1>1. Reader!InitRegisters <=> Trip!Reader!InitRegisters
  BY DEF Reader!InitRegisters, Trip!Reader!InitRegisters, Reader!ZeroAddress,
         Trip!Reader!ZeroAddress, Reader!Address, Trip!Reader!Address
<1>2. Reader!stream = Trip!Reader!stream /\ Reader!stream' = Trip!Reader!stream'
  BY DEF Reader!stream, Trip!Reader!stream
<1>3. /\ Reader!Fetched = Trip!Reader!Fetched
      /\ Reader!Interpreted = Trip!Reader!Interpreted
  BY DEF Reader!Fetched, Trip!Reader!Fetched, Reader!Interpreted,
         Trip!Reader!Interpreted
<1>4. Reader!Fetch => Trip!Reader!Fetch
  BY <1>2 DEF Reader!Fetch, Trip!Reader!Fetch
<1>5. \A register : Reader!Loads(register) => Trip!Reader!Loads(register)
  BY <1>3, <1>4 DEF Reader!Loads, Trip!Reader!Loads
<1>6. /\ Reader!far_state = Trip!Reader!far_state
      /\ Reader!far_state' = Trip!Reader!far_state'
      /\ Reader!burst_state = Trip!Reader!burst_state
      /\ Reader!burst_state' = Trip!Reader!burst_state'
  BY DEF Reader!far_state, Trip!Reader!far_state, Reader!burst_state,
         Trip!Reader!burst_state
<1>7. Reader!SkipPacket => Trip!Reader!SkipPacket
  BY <1>3, <1>4, <1>6 DEF Reader!SkipPacket, Trip!Reader!SkipPacket
<1>8. /\ Reader!WriteMASK => Trip!Reader!WriteMASK
      /\ Reader!WriteCTL1 => Trip!Reader!WriteCTL1
      /\ Reader!WriteCMD => Trip!Reader!WriteCMD
      /\ Reader!WriteIDCODE => Trip!Reader!WriteIDCODE
  BY <1>3, <1>5, <1>6
     DEF Reader!WriteMASK, Trip!Reader!WriteMASK, Reader!WriteCTL1,
         Trip!Reader!WriteCTL1, Reader!WriteCMD, Trip!Reader!WriteCMD,
         Reader!WriteIDCODE, Trip!Reader!WriteIDCODE, Reader!Bit21,
         Trip!Reader!Bit21, Reader!WCFG, Trip!Reader!WCFG
<1>9. Reader!WriteFAR => Trip!Reader!WriteFAR
  <2>1. \A arch, word : Reader!Unpacked(arch, word) = Trip!Reader!Unpacked(arch, word)
    BY DEF Reader!Unpacked, Trip!Reader!Unpacked, Reader!Address,
           Trip!Reader!Address, Reader!MinorCount, Trip!Reader!MinorCount
  <2>2. QED
    BY <1>3, <1>5, <1>6, <2>1
       DEF Reader!WriteFAR, Trip!Reader!WriteFAR, Reader!WCFG, Trip!Reader!WCFG
<1>10. Reader!BeginFDRI => Trip!Reader!BeginFDRI
  BY <1>3, <1>4, <1>6 DEF Reader!BeginFDRI, Trip!Reader!BeginFDRI
<1>11. Reader!StoreFrame => Trip!Reader!StoreFrame
  <2>1. \A a : Reader!GetNextFrameAddress(part, a) =
                   Trip!Reader!GetNextFrameAddress(part, a)
    BY ReaderGoesOn
  <2>2. \A a, next : Reader!CrossesRow(a, next) = Trip!Reader!CrossesRow(a, next)
    BY DEF Reader!CrossesRow, Trip!Reader!CrossesRow, Reader!SameRow,
           Trip!Reader!SameRow
  <2>3. /\ \A data, offset :
              Reader!Frame(data, offset) = Trip!Reader!Frame(data, offset)
        /\ \A map, key, value :
              Reader!Assign(map, key, value) = Trip!Reader!Assign(map, key, value)
    BY DEF Reader!Frame, Trip!Reader!Frame, Reader!Assign, Trip!Reader!Assign
  <2>4. QED
    BY <1>2, <1>6, <2>1, <2>2, <2>3 DEF Reader!StoreFrame, Trip!Reader!StoreFrame
<1>12. /\ Reader!EndFDRI => Trip!Reader!EndFDRI
       /\ Reader!Finish => Trip!Reader!Finish
  BY <1>2, <1>6 DEF Reader!EndFDRI, Trip!Reader!EndFDRI, Reader!Finish,
                    Trip!Reader!Finish
<1>13. QED
  BY <1>1, <1>7, <1>8, <1>9, <1>10, <1>11, <1>12
     DEF Reader!Next, Trip!Reader!Next, Reader!InitWithPackets,
         Trip!Reader!InitWithPackets

\* The walk over the addresses of a part.
LEMMA SameWalk == WalkedAddresses(part) = Trip!WalkedAddresses(part)
BY DEF Cardinality, Trip!Cardinality, WalkedAddresses, Trip!WalkedAddresses,
         ValidAddresses, Trip!ValidAddresses,
         ZeroAddress, Trip!ZeroAddress, GetNextFrameAddress,
         Trip!GetNextFrameAddress, Series7Next, Trip!Series7Next, Spartan6Next,
         Trip!Spartan6Next, UltraScaleNext, Trip!UltraScaleNext, FirstOf,
         Trip!FirstOf, BlockTypeNext, Trip!BlockTypeNext, BottomHalfNext,
         Trip!BottomHalfNext, Spartan6BottomNext, Trip!Spartan6BottomNext,
         RowsNext, Trip!RowsNext, NumberedRow, Trip!NumberedRow,
         GlobalClockRegionNext, Trip!GlobalClockRegionNext, RowNext,
         Trip!RowNext, BusNext, Trip!BusNext, ColumnNext, Trip!ColumnNext,
         IfValid, Trip!IfValid, IsValidFrameAddress, Trip!IsValidFrameAddress,
         ColumnOf, Trip!ColumnOf, Following, Trip!Following, Address,
         Trip!Address, BLOCK_RAM, Trip!BLOCK_RAM, CFG_CLB, Trip!CFG_CLB,
         SameRow, Trip!SameRow

-----------------------------------------------------------------------------
(***************************************************************************)
(* What has been written is the frames laid out; the reader has them all   *)
(* to the first that the walk does not come by.                            *)
(***************************************************************************)
PatchInv ==
    /\ Made!TypeOK
    /\ part \in Parts
    /\ base \in Bases
    /\ OverlayInv
    /\ Trip!WriterInv
    /\ writer_pc # "packaged" => Reader!InitRegisters
    /\ writer_pc = "packaged" => Trip!ReaderInv \/ Reader!InitRegisters

\* Nothing has been read or written at first.
LEMMA InitPatchInv == Init => PatchInv
<1>1. SUFFICES ASSUME Init PROVE PatchInv
  OBVIOUS
<1>2. Made!FramesConstants
  BY XcPatchAssumption, SameFile
<1>3. Made!TypeOK
  BY <1>1, <1>2, SameFile, Made!InitTypeOK DEF Init
<1>4. part \in Parts /\ base \in Bases /\ Reader!InitRegisters
  BY <1>1 DEF Init, Container!Init
<1>5. OverlayInv
  BY <1>1, InitOverlayInv
<1>6. Trip!WriterInv
  BY <1>1, SameWriter, Trip!InitWriterInv DEF Init
<1>7. QED
  BY <1>3, <1>4, <1>5, <1>6 DEF PatchInv

\* The frames are whole at any time.
LEMMA FramesAreWhole == PatchInv => Trip!Framed /\ part.arch # "Spartan6"
<1>1. SUFFICES ASSUME PatchInv PROVE Trip!Framed /\ part.arch # "Spartan6"
  OBVIOUS
<1>2. /\ WordsPerFrame \in Nat \ {0} /\ Word \subseteq Nat
      /\ part.arch # "Spartan6" /\ Trip!IsPart(part)
  <2>1. Made!FramesConstants /\ part \in Parts /\ part.arch # "Spartan6"
    BY <1>1, XcPatchAssumption, SameFile DEF PatchInv
  <2>2. Trip!IsPart(part) <=> Made!IsPart(part)
    BY SameParts
  <2>3. QED
    BY <2>1, <2>2 DEF Made!FramesConstants
<1>3. /\ DOMAIN base \subseteq FrameAddress
      /\ \A a \in DOMAIN base :
            base[a] \in Seq(Nat) /\ Len(base[a]) = WordsPerFrame
  BY <1>1, XcPatchAssumption DEF PatchInv
<1>4. /\ DOMAIN frames_data \subseteq FrameAddress
      /\ \A a \in DOMAIN frames_data :
            frames_data[a] \in Seq(Nat) /\ Len(frames_data[a]) = WordsPerFrame
  <2>1. /\ DOMAIN frames_data \subseteq Made!FrameAddress
        /\ \A a \in DOMAIN frames_data : frames_data[a] \in [1..WordsPerFrame -> Word]
    BY <1>1, <1>2 DEF PatchInv, Made!TypeOK, Made!FramesOf, Made!FrameData
  <2>2. ASSUME NEW f \in [1..WordsPerFrame -> Word]
        PROVE  f \in Seq(Nat) /\ Len(f) = WordsPerFrame
    <3>1. PICK n \in Nat : n = WordsPerFrame
      BY <1>2
    <3>2. f \in [1..n -> Nat]
      BY <1>2, <3>1
    <3>3. f \in Seq(Nat) /\ Len(f) = n
      BY <3>2
    <3>4. QED
      BY <3>1, <3>3
  <2>3. QED
    BY <2>1, <2>2, SameParts
<1>5. frames = base \/ frames = PatchedBut(deltas)
  BY <1>1 DEF PatchInv, OverlayInv
<1>6. /\ frames = [a \in DOMAIN frames |-> frames[a]]
      /\ DOMAIN frames = DOMAIN base
      /\ \A a \in DOMAIN frames :
            frames[a] \in Seq(Nat) /\ Len(frames[a]) = WordsPerFrame
  <2>1. CASE frames = base
    BY <1>1, <1>3, <2>1 DEF PatchInv, OverlayInv
  <2>2. CASE frames = PatchedBut(deltas)
    BY <1>3, <1>4, <2>2 DEF PatchedBut
  <2>3. QED
    BY <1>5, <2>1, <2>2
<1>7. QED
  BY <1>2, <1>3, <1>6, SameParts DEF Trip!Framed

\* The reader leaves the part and the packets alone.
LEMMA ReaderLeaves ==
    Trip!Reader!Next => Trip!Reader!stream' = Trip!Reader!stream
BY DEF Trip!Reader!Next, Trip!Reader!InitWithPackets, Trip!Reader!SkipPacket,
       Trip!Reader!WriteMASK, Trip!Reader!WriteCTL1, Trip!Reader!WriteCMD,
       Trip!Reader!WriteIDCODE, Trip!Reader!WriteFAR, Trip!Reader!BeginFDRI,
       Trip!Reader!StoreFrame, Trip!Reader!EndFDRI, Trip!Reader!Finish,
       Trip!Reader!Loads, Trip!Reader!Fetch

\* What a step leaves alone.
LEMMA StepLeaves ==
    ASSUME [Next]_vars
    PROVE  part' = part /\ base' = base /\ [Made!Next]_(Made!vars)
<1>1. CASE UNCHANGED vars
  BY <1>1 DEF vars, container_vars, patch_vars, Made!vars
<1>2. CASE ReadDeltas
  <2>1. Made!Next
    BY <1>2, SameFile DEF ReadDeltas, Made!Next
  <2>2. part' = part
    BY <2>1 DEF Made!Next, Made!readFrames, Made!FailToOpen, Made!SkipComment,
           Made!AbortOnMalformedLine, Made!RejectUnknownAddress,
           Made!SkipWrongWordCount, Made!InsertFrame, Made!EndOfFile,
           Made!GetLine, Made!addMissingFrames, Made!BeginAddMissing,
           Made!AddMissing
  <2>3. QED
    BY <1>2, <2>1, <2>2 DEF ReadDeltas, patch_vars
<1>3. CASE BeginPatch \/ PatchFrame \/ RefuseDelta \/ EndPatch
  BY <1>3 DEF BeginPatch, PatchFrame, RefuseDelta, EndPatch, container_vars,
              Made!vars
<1>4. CASE WritePackets
  <2>1. part' = part
    BY <1>4, SameWriter
       DEF WritePackets, Trip!WriterNext, Trip!createConfigurationPackage,
           Trip!createType2ConfigurationPacketData, Trip!BeginPacking,
           Trip!PackFrame, Trip!EndPacking
  <2>2. QED
    BY <1>4, <2>1 DEF WritePackets, container_vars, patch_vars, Made!vars
<1>5. CASE ReadBack
  <2>1. Trip!Reader!stream' = Trip!Reader!stream
    BY <1>5, SameReader, ReaderLeaves DEF ReadBack
  <2>2. part' = part
    BY <2>1 DEF Trip!Reader!stream
  <2>3. QED
    BY <1>5, <2>2 DEF ReadBack, container_vars, patch_vars, Made!vars
<1>6. QED
  BY <1>1, <1>2, <1>3, <1>4, <1>5 DEF Next, patch_frames

\* The reader begins with the packets that have been written.
LEMMA BeginsToRead ==
    ASSUME PatchInv, writer_pc = "packaged" PROVE Trip!ReaderInv
<1>1. SUFFICES ASSUME Reader!InitRegisters PROVE Trip!ReaderInv
  BY DEF PatchInv
<1>2. Trip!Framed /\ Trip!WriterInv /\ IdCode \in Nat
  BY XcPatchAssumption, FramesAreWhole DEF PatchInv
<1>3. Trip!FirstPackets
  <2>1. Len(packets) \in Nat
    BY <1>2, Trip!PackagesAreFinite
  <2>2. QED
    BY <2>1 DEF Trip!FirstPackets
<1>4. QED
  BY <1>1, <1>2, <1>3, SameReader, Trip!InitReaderInv

\* Every step of xcpatch, of the writer and of the reader keeps PatchInv.
LEMMA NextPatchInv == PatchInv /\ [Next]_vars => PatchInv'
<1>1. SUFFICES ASSUME PatchInv, [Next]_vars PROVE PatchInv'
  OBVIOUS
<1>2. part' = part /\ base' = base
  BY <1>1, StepLeaves
<1>3. Made!TypeOK'
  <2>1. [Made!Next]_(Made!vars)
    BY <1>1, StepLeaves
  <2>2. Made!FramesConstants
    BY XcPatchAssumption, SameFile
  <2>3. Made!TypeOK /\ [Made!Next]_(Made!vars) => Made!TypeOK'
    BY <2>2, Made!NextTypeOK
  <2>4. QED
    BY <1>1, <2>1, <2>3 DEF PatchInv
<1>4. OverlayInv'
  BY <1>1, NextOverlayInv DEF PatchInv
<1>5. Trip!Framed /\ part.arch # "Spartan6"
  BY <1>1, FramesAreWhole
<1>6. CASE WritePackets
  <2>1. Trip!WriterNext
    BY <1>6, SameWriter DEF WritePackets
  <2>2. Trip!WriterInv'
    BY <1>1, <1>5, <2>1, Trip!NextWriterInv DEF PatchInv
  <2>3. writer_pc # "packaged"
    BY <2>1 DEF Trip!WriterNext, Trip!createType2ConfigurationPacketData,
           Trip!BeginPacking, Trip!PackFrame, Trip!EndPacking,
           Trip!createConfigurationPackage
  <2>4. Reader!InitRegisters'
    BY <1>1, <1>6, <2>3
       DEF PatchInv, WritePackets, reader_vars, Reader!InitRegisters
  <2>5. QED
    BY <1>1, <1>2, <1>3, <1>4, <2>2, <2>4 DEF PatchInv
<1>7. CASE ReadBack
  <2>1. /\ writer_pc = "packaged" /\ Trip!Reader!Next
        /\ UNCHANGED <<patch_vars, writer_vars>>
    BY <1>7, SameReader DEF ReadBack
  <2>2. Trip!ReaderInv
    BY <1>1, <2>1, BeginsToRead DEF PatchInv
  <2>3. UNCHANGED Trip!Aside
    BY <1>2, <2>1 DEF Trip!Aside, patch_vars, writer_vars
  <2>4. Trip!ReaderInv'
    BY <1>5, <2>1, <2>2, <2>3, Trip!NextReaderInv
  <2>5. Trip!WriterInv'
    <3>1. frames' = frames /\ UNCHANGED <<part, Trip!writer_vars>>
      BY <1>2, <2>1, SameWriter DEF patch_vars, writer_vars, Writer!writer_vars,
                                    Trip!writer_vars
    <3>2. QED
      BY <1>1, <3>1, Trip!WriterStutters DEF PatchInv
  <2>6. writer_pc' = "packaged"
    BY <2>1 DEF writer_vars
  <2>7. QED
    BY <1>1, <1>2, <1>3, <1>4, <2>4, <2>5, <2>6 DEF PatchInv
<1>8. CASE patch_frames \/ UNCHANGED vars
  <2>1. UNCHANGED <<writer_vars, reader_vars>>
    BY <1>8 DEF patch_frames, ReadDeltas, BeginPatch, PatchFrame, RefuseDelta,
                EndPatch, vars
  <2>2. writer_pc # "idle" => frames' = frames
    BY <1>1, <1>8 DEF PatchInv, OverlayInv, patch_frames, ReadDeltas, BeginPatch,
                      PatchFrame, RefuseDelta, EndPatch, vars, patch_vars
  <2>3. Trip!WriterInv'
    <3>1. UNCHANGED <<part, Trip!writer_vars>>
      BY <1>2, <2>1 DEF writer_vars, Trip!writer_vars
    <3>2. QED
      BY <1>1, <2>2, <3>1, Trip!WriterStutters DEF PatchInv
  <2>4. Reader!InitRegisters => Reader!InitRegisters'
    BY <2>1 DEF reader_vars, Reader!InitRegisters, Reader!ZeroAddress, Reader!Address
  <2>5. writer_pc' = writer_pc
    BY <2>1 DEF writer_vars
  <2>6. writer_pc = "packaged" /\ Trip!ReaderInv => Trip!ReaderInv'
    <3>1. writer_pc = "packaged" => UNCHANGED Trip!Aside
      BY <1>2, <2>1, <2>2 DEF Trip!Aside, writer_vars
    <3>2. UNCHANGED <<pos, frame_address_register, current_frame_address, ii,
                      read_back, reader_pc>>
      BY <2>1 DEF reader_vars
    <3>3. QED
      BY <3>1, <3>2, Trip!ReaderStutters
  <2>7. QED
    BY <1>1, <1>2, <1>3, <1>4, <2>3, <2>4, <2>5, <2>6 DEF PatchInv
<1>9. QED
  BY <1>1, <1>6, <1>7, <1>8 DEF Next

(***************************************************************************)
(* The patched bitstream says what was written exactly when the base has   *)
(* the very frames that the walk from address zero comes by, for every     *)
(* part, .frm file and base bitstream of whole frames.                     *)
(***************************************************************************)
THEOREM PatchedIsReadExactlyWhenWhole == Spec => []PatchedExactlyWhenBaseWhole
<1>1. PatchInv => PatchedExactlyWhenBaseWhole
  <2>1. SUFFICES ASSUME PatchInv, reader_pc = "accepted"
                 PROVE  read_back = frames <=> DOMAIN base = WalkedAddresses(part)
    BY DEF PatchedExactlyWhenBaseWhole
  <2>2. ~Reader!InitRegisters
    BY <2>1 DEF Reader!InitRegisters
  <2>3. writer_pc = "packaged" /\ Trip!ReaderInv
    BY <2>1, <2>2 DEF PatchInv
  <2>4. Trip!Read
    BY <2>1, <2>3 DEF Trip!Read
  <2>5. Trip!Framed
    BY <2>1, FramesAreWhole
  <2>6. read_back = frames <=> DOMAIN frames = Trip!WalkedAddresses(part)
    BY <2>4, <2>5, Trip!ReadExactlyWhenWalked
  <2>7. DOMAIN frames = DOMAIN base
    BY <2>1, <2>3 DEF PatchInv, OverlayInv, PatchedBut
  <2>8. QED
    BY <2>6, <2>7, SameWalk
<1>2. QED
  BY <1>1, InitPatchInv, NextPatchInv, PTL DEF Spec

=============================================================================

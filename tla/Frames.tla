------------------------------- MODULE Frames -------------------------------
(***************************************************************************)
(* The Frames container: readFrames fills it from a .frm file, line by     *)
(* line, and addMissingFrames walks the part's addresses and inserts a     *)
(* zero frame wherever the file had none.                                  *)
(***************************************************************************)
EXTENDS PartAddressing, Sequences

CONSTANTS
    WordsPerFrame, \* ArchType::words_per_frame
    Word,          \* the values of a word that are told apart
    Ecc(_),        \* the ECC word of a frame, from its other words
    Parts,         \* the parts a .yaml file may hold
    FrmFiles(_)    \* the .frm files there may be for a part: sequences of lines

(***************************************************************************)
(* A line of a .frm file is a comment, a line whose address std::stoul     *)
(* cannot convert, or an address with a number of words, of which some may *)
(* be beyond std::stoul as well.  The last word of a frame stands for its  *)
(* ECC bits.                                                               *)
(***************************************************************************)
FrameData == [1..WordsPerFrame -> Word]

\* The IOB frames of Spartan-6 have any number of words.
FramesOf(arch) == IF arch = "Spartan6" THEN Seq(Word) ELSE FrameData

NotHex == -1

Line == [kind : {"comment", "malformed"}]
            \union [kind : {"frame"}, address : FrameAddress,
                    words : Seq(Word \union {NotHex})]

\* What the constants stand for.
FramesConstants ==
    /\ WordsPerFrame \in Nat \ {0}
    /\ Word \subseteq Nat /\ 0 \in Word
    /\ \A words \in FrameData : Ecc(words) \in Word
    /\ \A part \in Parts : IsPart(part)
    /\ \A part \in Parts : FrmFiles(part) \subseteq Seq(Line)

ASSUME FramesAssumption == FramesConstants

VARIABLES
    part,        \* the part read from the part file
    frm_file,    \* the lines of the .frm file
    line,        \* the number of lines std::getline has returned
    frames_data, \* frames_data_: the frames, by address
    current,     \* current_frame_address of addMissingFrames
    frames_pc    \* where the caller stands

vars == <<part, frm_file, line, frames_data, current, frames_pc>>

-----------------------------------------------------------------------------

\* Mutant of ZeroFrame: one word short.
ZeroFrameShort == [i \in 1..WordsPerFrame - 1 |-> 0]

ZeroFrame == [i \in 1..WordsPerFrame |-> 0]

\* Spartan-6 has no ECC.
updateECC(arch, words) ==
    IF arch = "Spartan6" THEN words
    ELSE [words EXCEPT ![WordsPerFrame] = Ecc(words)]

\* Frames of Spartan-6 are taken whatever their number of words.
WellCounted(arch, words) == arch = "Spartan6" \/ Len(words) = WordsPerFrame

\* std::map::operator[] and std::map::insert.
Assign(map, key, value) == [k \in DOMAIN map \union {key} |->
                               IF k = key THEN value ELSE map[k]]

\* Mutant of Insert: operator[] in its place.
InsertOverwriting(map, key, value) == Assign(map, key, value)

Insert(map, key, value) ==
    IF key \in DOMAIN map THEN map ELSE Assign(map, key, value)

Init ==
    /\ part \in Parts
    /\ frm_file \in FrmFiles(part)
    /\ line = 0
    /\ frames_data = <<>>
    /\ current = {}
    /\ frames_pc = "reading"

\* The file cannot be opened.
FailToOpen ==
    /\ frames_pc = "reading"
    /\ line = 0
    /\ frames_pc' = "invalid"
    /\ UNCHANGED <<part, frm_file, line, frames_data, current>>

\* std::getline succeeds and returns this line.
Returned == frm_file[line + 1]

GetLine ==
    /\ frames_pc = "reading"
    /\ line < Len(frm_file)
    /\ line' = line + 1
    /\ UNCHANGED <<part, frm_file, current>>

SkipComment ==
    /\ GetLine
    /\ Returned.kind = "comment"
    /\ UNCHANGED <<frames_data, frames_pc>>

HasFrame ==
    /\ Returned.kind = "frame"
    /\ IsValidFrameAddress(part, Returned.address)
    /\ WellCounted(part.arch, Returned.words)

IsHex(words) == \A i \in DOMAIN words : words[i] # NotHex

\* std::stoul throws and nothing catches it.  The words are converted after
\* the address is checked and the words are counted.
AbortOnMalformedLine ==
    /\ GetLine
    /\ Returned.kind = "malformed" \/ (HasFrame /\ ~IsHex(Returned.words))
    /\ frames_pc' = "aborted"
    /\ UNCHANGED frames_data

RejectUnknownAddress ==
    /\ GetLine
    /\ Returned.kind = "frame"
    /\ ~IsValidFrameAddress(part, Returned.address)
    /\ frames_pc' = "invalid"
    /\ UNCHANGED frames_data

\* A message on std::cerr, and the file still counts as read.
SkipWrongWordCount ==
    /\ GetLine
    /\ Returned.kind = "frame"
    /\ IsValidFrameAddress(part, Returned.address)
    /\ ~WellCounted(part.arch, Returned.words)
    /\ UNCHANGED <<frames_data, frames_pc>>

\* Mutant of InsertFrame: the part is not asked.
InsertUnknownFrame ==
    /\ GetLine
    /\ Returned.kind = "frame"
    /\ WellCounted(part.arch, Returned.words)
    /\ IsHex(Returned.words)
    /\ frames_data' =
           Insert(frames_data, Returned.address,
                  updateECC(part.arch, Returned.words))
    /\ UNCHANGED frames_pc

InsertFrame ==
    /\ GetLine
    /\ HasFrame
    /\ IsHex(Returned.words)
    /\ frames_data' =
           Insert(frames_data, Returned.address,
                  updateECC(part.arch, Returned.words))
    /\ UNCHANGED frames_pc

EndOfFile ==
    /\ frames_pc = "reading"
    /\ line = Len(frm_file)
    /\ frames_pc' = "read"
    /\ UNCHANGED <<part, frm_file, line, frames_data, current>>

readFrames ==
    \/ FailToOpen
    \/ SkipComment
    \/ AbortOnMalformedLine
    \/ RejectUnknownAddress
    \/ SkipWrongWordCount
    \/ InsertFrame
    \/ EndOfFile

-----------------------------------------------------------------------------

BeginAddMissing ==
    /\ frames_pc = "read"
    /\ current' = {ZeroAddress}
    /\ frames_pc' = "adding"
    /\ UNCHANGED <<part, frm_file, line, frames_data>>

\* One turn of the do-while loop.
AddMissing ==
    /\ frames_pc = "adding"
    /\ \E a \in current :
          /\ frames_data' = Insert(frames_data, a, ZeroFrame)
          /\ current' = GetNextFrameAddress(part, a)
    /\ frames_pc' = IF current' = {} THEN "complete" ELSE "adding"
    /\ UNCHANGED <<part, frm_file, line>>

addMissingFrames == BeginAddMissing \/ AddMissing

Next == readFrames \/ addMissingFrames

Spec == Init /\ [][Next]_vars
-----------------------------------------------------------------------------

\* The lines so far that readFrames takes for address a.
LinesFor(a) == {i \in 1..line : /\ frm_file[i].kind = "frame"
                                /\ frm_file[i].address = a
                                /\ WellCounted(part.arch, frm_file[i].words)
                                /\ IsHex(frm_file[i].words)}

TypeOK ==
    /\ IsPart(part)
    /\ frm_file \in Seq(Line)
    /\ line \in 0..Len(frm_file)
    /\ DOMAIN frames_data \subseteq FrameAddress
    /\ \A a \in DOMAIN frames_data : frames_data[a] \in FramesOf(part.arch)
    /\ current \subseteq FrameAddress
    /\ frames_pc \in {"reading", "read", "adding", "complete",
                      "invalid", "aborted"}

(***************************************************************************)
(* However the lines are ordered, repeated, miscounted or interleaved with *)
(* comments, the frame kept for an address is the first well-counted line  *)
(* for it, with its ECC updated; the walk of addMissingFrames neither      *)
(* replaces such a frame nor adds anything but zero frames.                *)
(***************************************************************************)
FirstLineWins ==
    \A a \in DOMAIN frames_data :
        IF LinesFor(a) = {}
        THEN frames_data[a] = ZeroFrame /\ frames_pc \in {"adding", "complete"}
        ELSE frames_data[a] =
                 updateECC(part.arch, frm_file[Min(LinesFor(a))].words)

\* Every well-counted line read so far has left its frame in the container,
\* and the container never holds an address the part does not have, but for
\* address zero, which addMissingFrames inserts without asking the part.
NothingLostNothingForeign ==
    /\ \A a \in ValidAddresses(part) : LinesFor(a) # {} => a \in DOMAIN frames_data
    /\ DOMAIN frames_data \subseteq ValidAddresses(part) \union {ZeroAddress}

\* The walk of addMissingFrames goes up the numeric order of addresses, so
\* that it visits no address twice.
WalkAscends ==
    [][\A a \in current, b \in current' : Packed(a) < Packed(b)]_vars

(***************************************************************************)
(* The parts that the walk covers.  Address zero exists; the block types   *)
(* are those that the walk knows; and for every block type, in every half  *)
(* that has it, the rows that have it come first, from row 0 on, and each  *)
(* starts at column 0, before any column without frames.  A block type of  *)
(* the bottom half is reached only from the top half.                      *)
(***************************************************************************)
HalvesApart == part.arch \in {"Series7", "Spartan6"}

RowRank(k) == IF HalvesApart THEN k.row ELSE NumberedRow(k)

Region(k) == IF HalvesApart THEN k.half ELSE 0

Populated == {k \in DOMAIN part.columns : part.columns[k] > 0}

Walkable ==
    /\ IsValidFrameAddress(part, ZeroAddress)
    /\ \A k \in Populated :
        /\ k.block <= CFG_CLB
        /\ \E j \in Populated : j.block = k.block /\ j.half = 0
        /\ \E j \in Populated :
              j.block = k.block /\ Region(j) = Region(k) /\ RowRank(j) = 0
        /\ \E j \in Populated : SameRow(j, k) /\ j.column = 0
        /\ \A j \in DOMAIN part.columns :
              SameRow(j, k) /\ j.column < k.column => j \in Populated
        /\ \A r \in DOMAIN part.columns :
              Region(r) = Region(k) /\ RowRank(r) < RowRank(k) =>
                 \E j \in Populated : SameRow(j, [r EXCEPT !.block = k.block])

\* addMissingFrames leaves no address of the part out exactly when the part
\* is walkable.
CompleteExactlyWhenWalkable ==
    frames_pc = "complete" /\ frm_file = <<>> =>
        ((ValidAddresses(part) = DOMAIN frames_data) <=> Walkable)

(***************************************************************************)
(* frames.h: "Adds empty frames that are present in the tilegrid of a      *)
(* specific part but are missing in the current frames container."         *)
(***************************************************************************)
AddsEveryMissingFrame ==
    frames_pc = "complete" => ValidAddresses(part) \subseteq DOMAIN frames_data
=============================================================================

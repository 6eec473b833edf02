---------------------------- MODULE Frames_proofs ----------------------------
(***************************************************************************)
(* Invariants of the Frames container, for every part and every .frm file. *)
(***************************************************************************)
EXTENDS Frames, PartAddressing_proofs

\* The frames that readFrames and addMissingFrames insert are frames.
LEMMA UpdatedIsFrame ==
    ASSUME NEW arch, NEW words \in Seq(Word \union {NotHex}),
           WellCounted(arch, words), IsHex(words)
    PROVE  updateECC(arch, words) \in FramesOf(arch)
<1> USE DEF WellCounted
<1>1. WordsPerFrame \in Nat \ {0}
  BY FramesAssumption DEF FramesConstants
<1>2. CASE arch = "Spartan6"
  <2>1. \A i \in 1..Len(words) : words[i] \in Word
    BY DEF IsHex
  <2>2. words \in Seq(Word)
    BY <2>1
  <2>3. QED
    BY <1>2, <2>2 DEF updateECC, FramesOf
<1>3. ASSUME arch # "Spartan6" PROVE words \in FrameData
  <2>1. DOMAIN words = 1..WordsPerFrame
    BY <1>1, <1>3
  <2>2. \A i \in 1..WordsPerFrame : words[i] \in Word
    BY <1>1, <2>1 DEF IsHex
  <2>3. words = [i \in 1..WordsPerFrame |-> words[i]]
    BY <1>1, <2>1
  <2>4. QED
    BY <2>2, <2>3 DEF FrameData
<1>4. CASE arch # "Spartan6"
  <2>1. words \in FrameData /\ Ecc(words) \in Word
    BY <1>3, <1>4, FramesAssumption DEF FramesConstants
  <2>2. [words EXCEPT ![WordsPerFrame] = Ecc(words)] \in FrameData
    BY <1>1, <2>1 DEF FrameData
  <2>3. QED
    BY <1>4, <2>2 DEF updateECC, FramesOf
<1>5. QED
  BY <1>2, <1>4

\* A frame of zeroes is a frame.
LEMMA ZeroFrameIsFrame ==
    ASSUME NEW arch PROVE ZeroFrame \in FramesOf(arch)
<1>1. WordsPerFrame \in Nat /\ 0 \in Word
  BY FramesAssumption DEF FramesConstants
<1>2. ZeroFrame \in FrameData
  BY <1>1 DEF ZeroFrame, FrameData
<1>3. ZeroFrame \in Seq(Word)
  BY <1>1 DEF ZeroFrame
<1>4. QED
  BY <1>2, <1>3 DEF FramesOf

\* std::map::insert leaves the keys that are there alone and adds one.
LEMMA InsertProperties ==
    ASSUME NEW map, NEW key, NEW value
    PROVE  /\ DOMAIN Insert(map, key, value) = DOMAIN map \union {key}
           /\ \A k \in DOMAIN map : Insert(map, key, value)[k] = map[k]
           /\ key \notin DOMAIN map => Insert(map, key, value)[key] = value
  BY DEF Insert, Assign

\* A map of frames is one with a frame more.
LEMMA InsertKeepsFrames ==
    ASSUME NEW arch, NEW map, NEW key \in FrameAddress,
           NEW value \in FramesOf(arch), DOMAIN map \subseteq FrameAddress,
           \A k \in DOMAIN map : map[k] \in FramesOf(arch)
    PROVE  /\ DOMAIN Insert(map, key, value) \subseteq FrameAddress
           /\ \A k \in DOMAIN Insert(map, key, value) :
                  Insert(map, key, value)[k] \in FramesOf(arch)
<1> DEFINE inserted == Insert(map, key, value)
<1>1. /\ DOMAIN inserted = DOMAIN map \union {key}
      /\ \A k \in DOMAIN map : inserted[k] = map[k]
      /\ key \notin DOMAIN map => inserted[key] = value
  BY InsertProperties
<1> HIDE DEF inserted
<1>2. DOMAIN inserted \subseteq FrameAddress
  BY <1>1
<1>3. \A k \in DOMAIN inserted : inserted[k] \in FramesOf(arch)
  BY <1>1
<1>4. QED
  BY <1>2, <1>3 DEF inserted

\* The line that std::getline has returned.
LEMMA ReturnedIsLine ==
    ASSUME TypeOK, line < Len(frm_file)
    PROVE  /\ Returned \in Line
           /\ Returned.kind = "frame" =>
                  /\ Returned.address \in FrameAddress
                  /\ Returned.words \in Seq(Word \union {NotHex})
<1>1. Returned \in Line
  BY DEF TypeOK, Returned
<1>2. QED
  BY <1>1 DEF Line

-----------------------------------------------------------------------------

\* The types are right at first.
LEMMA InitTypeOK == Init => TypeOK
<1>1. SUFFICES ASSUME Init PROVE TypeOK
  OBVIOUS
<1>2. IsPart(part) /\ frm_file \in Seq(Line) /\ line \in 0..Len(frm_file)
  BY <1>1, FramesAssumption DEF FramesConstants, Init
<1>3. DOMAIN frames_data = {}
  BY <1>1 DEF Init
<1>4. QED
  BY <1>1, <1>2, <1>3 DEF Init, TypeOK

\* The actions of Next, as a proof about a step names them.
LEMMA NextTypeOK == TypeOK /\ [Next]_vars => TypeOK'
<1>1. SUFFICES ASSUME TypeOK, [Next]_vars PROVE TypeOK'
  OBVIOUS
<1>2. ASSUME GetLine PROVE /\ line' \in 0..Len(frm_file')
                           /\ UNCHANGED <<part, frm_file, current>>
  BY <1>1, <1>2 DEF GetLine, TypeOK
<1>3. CASE FailToOpen \/ EndOfFile
  BY <1>1, <1>3 DEF FailToOpen, EndOfFile, TypeOK
<1>4. CASE SkipComment
  BY <1>1, <1>2, <1>4 DEF SkipComment, TypeOK
<1>5. CASE AbortOnMalformedLine
  BY <1>1, <1>2, <1>5 DEF AbortOnMalformedLine, TypeOK
<1>6. CASE RejectUnknownAddress
  BY <1>1, <1>2, <1>6 DEF RejectUnknownAddress, TypeOK
<1>7. CASE SkipWrongWordCount
  BY <1>1, <1>2, <1>7 DEF SkipWrongWordCount, TypeOK
<1>8. CASE InsertFrame
  <2>1. /\ Returned.address \in FrameAddress
        /\ updateECC(part.arch, Returned.words) \in FramesOf(part.arch)
    BY <1>1, <1>8, ReturnedIsLine, UpdatedIsFrame
       DEF InsertFrame, GetLine, HasFrame
  <2>2. /\ DOMAIN frames_data' \subseteq FrameAddress
        /\ \A a \in DOMAIN frames_data' : frames_data'[a] \in FramesOf(part.arch)
    BY <1>1, <1>8, <2>1, InsertKeepsFrames DEF InsertFrame, TypeOK
  <2>3. QED
    BY <1>1, <1>2, <1>8, <2>2 DEF InsertFrame, TypeOK
<1>9. CASE BeginAddMissing
  BY <1>1, <1>9, ZeroIsAddress DEF BeginAddMissing, TypeOK
<1>10. CASE AddMissing
  <2>1. PICK a \in current :
          /\ frames_data' = Insert(frames_data, a, ZeroFrame)
          /\ current' = GetNextFrameAddress(part, a)
    BY <1>10 DEF AddMissing
  <2>2. a \in FrameAddress /\ IsPart(part)
    BY <1>1 DEF TypeOK
  <2>3. current' \subseteq FrameAddress
    BY <2>1, <2>2, NextIsValidAndGreater
  <2>4. /\ DOMAIN frames_data' \subseteq FrameAddress
        /\ \A b \in DOMAIN frames_data' : frames_data'[b] \in FramesOf(part.arch)
    BY <1>1, <2>1, <2>2, InsertKeepsFrames, ZeroFrameIsFrame DEF TypeOK
  <2>5. QED
    BY <1>1, <1>10, <2>3, <2>4 DEF AddMissing, TypeOK
<1>11. CASE UNCHANGED vars
  BY <1>1, <1>11 DEF vars, TypeOK
<1>12. QED
  BY <1>1, <1>3, <1>4, <1>5, <1>6, <1>7, <1>8, <1>9, <1>10, <1>11
     DEF Next, readFrames, addMissingFrames

(***************************************************************************)
(* Type correctness of the container, for every part and every file.       *)
(***************************************************************************)
THEOREM TypeCorrect == Spec => []TypeOK
<1>1. QED
  BY InitTypeOK, NextTypeOK, PTL DEF Spec

-----------------------------------------------------------------------------

\* Where the walk of addMissingFrames stands.
WalkInv ==
    /\ IsOptional(current)
    /\ frames_pc # "adding" => current = {}
    /\ \A a \in current : IsValidFrameAddress(part, a) \/ a = ZeroAddress

\* No address is being walked to.
LEMMA InitWalkInv == Init => WalkInv
  BY DEF Init, WalkInv, IsOptional

\* Every step keeps the walk within the part.
LEMMA NextWalkInv == TypeOK /\ WalkInv /\ [Next]_vars => WalkInv'
<1>1. SUFFICES ASSUME TypeOK, WalkInv, [Next]_vars PROVE WalkInv'
  OBVIOUS
<1>2. CASE readFrames
  <2>1. frames_pc = "reading" /\ current = {} /\ current' = current
    BY <1>1, <1>2
       DEF WalkInv, readFrames, FailToOpen, SkipComment, AbortOnMalformedLine,
           RejectUnknownAddress, SkipWrongWordCount, InsertFrame, EndOfFile,
           GetLine
  <2>2. QED
    BY <2>1 DEF WalkInv, IsOptional
<1>3. CASE BeginAddMissing
  BY <1>3 DEF BeginAddMissing, WalkInv, IsOptional
<1>4. CASE AddMissing
  <2>1. PICK a \in current : current' = GetNextFrameAddress(part, a)
    BY <1>4 DEF AddMissing
  <2>2. a \in FrameAddress /\ IsPart(part) /\ part' = part
    BY <1>1, <1>4 DEF TypeOK, AddMissing
  <2>3. IsOptional(current')
    BY <2>1, <2>2, NextIsOptional
  <2>4. \A b \in current' : IsValidFrameAddress(part, b)
    BY <2>1, <2>2, NextIsValidAndGreater
  <2>5. frames_pc' # "adding" => current' = {}
    BY <1>4 DEF AddMissing
  <2>6. QED
    BY <2>2, <2>3, <2>4, <2>5 DEF WalkInv, IsOptional
<1>5. CASE UNCHANGED vars
  BY <1>1, <1>5 DEF vars, WalkInv, IsOptional
<1>6. QED
  BY <1>1, <1>2, <1>3, <1>4, <1>5 DEF Next, addMissingFrames

(***************************************************************************)
(* The walk of addMissingFrames goes up the addresses, so that it visits   *)
(* none twice: every step moves to the successor, which is greater.        *)
(***************************************************************************)
THEOREM WalksUp == Spec => WalkAscends
<1>1. ASSUME TypeOK, WalkInv, [Next]_vars
      PROVE  [\A a \in current, b \in current' : Packed(a) < Packed(b)]_vars
  <2>1. CASE readFrames \/ BeginAddMissing
    <3>1. frames_pc # "adding"
      BY <2>1
         DEF readFrames, FailToOpen, SkipComment, AbortOnMalformedLine,
             RejectUnknownAddress, SkipWrongWordCount, InsertFrame, EndOfFile,
             GetLine, BeginAddMissing
    <3>2. QED
      BY <1>1, <3>1 DEF WalkInv
  <2>2. CASE AddMissing
    <3>1. PICK c \in current : current' = GetNextFrameAddress(part, c)
      BY <2>2 DEF AddMissing
    <3>2. c \in FrameAddress /\ IsPart(part)
      BY <1>1 DEF TypeOK
    <3>3. \A b \in current' : Packed(c) < Packed(b)
      BY <3>1, <3>2, NextIsValidAndGreater
    <3>4. \A a \in current : a = c
      BY <1>1 DEF WalkInv, IsOptional
    <3>5. QED
      BY <3>3, <3>4
  <2>3. QED
    BY <1>1, <2>1, <2>2 DEF Next, addMissingFrames
<1>2. QED
  BY <1>1, InitTypeOK, NextTypeOK, InitWalkInv, NextWalkInv, PTL
     DEF Spec, WalkAscends

-----------------------------------------------------------------------------

\* Whether readFrames takes the line that is returned for address a.
Takes(a) ==
    /\ Returned.kind = "frame"
    /\ Returned.address = a
    /\ WellCounted(part.arch, Returned.words)
    /\ IsHex(Returned.words)

\* The frame of an address is a zero frame or that of the first line for it.
IsFirst(m, set) == m \in set /\ \A i \in set : m <= i

HasFirst(a) ==
    \/ /\ LinesFor(a) = {}
       /\ frames_data[a] = ZeroFrame
       /\ frames_pc \in {"adding", "complete"}
    \/ \E m \in LinesFor(a) :
          /\ IsFirst(m, LinesFor(a))
          /\ frames_data[a] = updateECC(part.arch, frm_file[m].words)

(***************************************************************************)
(* What is held and what has been taken.  A file with a line for an        *)
(* address that the part does not have is not read to its end; so what the *)
(* walk adds, if only address zero, no line has been for.                  *)
(***************************************************************************)
HeldInv ==
    /\ \A a \in DOMAIN frames_data :
          \/ IsValidFrameAddress(part, a)
          \/ a = ZeroAddress /\ frames_pc \in {"adding", "complete"}
    /\ \A a \in FrameAddress :
          LinesFor(a) # {} =>
             \/ IsValidFrameAddress(part, a)
             \/ frames_pc = "invalid"
    /\ \A a \in FrameAddress :
          IsValidFrameAddress(part, a) /\ LinesFor(a) # {} =>
             a \in DOMAIN frames_data
    /\ \A a \in DOMAIN frames_data : HasFirst(a)

\* A line more is for the address that it names.
LEMMA LinesForGrows ==
    ASSUME TypeOK, GetLine, NEW a
    PROVE  LinesFor(a)' = LinesFor(a) \union (IF Takes(a) THEN {line + 1} ELSE {})
<1>1. /\ line \in Nat /\ line' = line + 1 /\ frm_file' = frm_file
      /\ part' = part
  BY DEF TypeOK, GetLine
<1>2. 1..line' = 1..line \union {line + 1}
  BY <1>1
<1>3. QED
  BY <1>1, <1>2 DEF LinesFor, Takes, Returned

\* While lines are read, the first line for an address stays the first.
LEMMA FirstStays ==
    ASSUME TypeOK, GetLine, frames_pc = "reading", NEW a \in DOMAIN frames_data,
           HasFirst(a), frames_data'[a] = frames_data[a]
    PROVE  HasFirst(a)'
<1>1. PICK m \in LinesFor(a) :
        /\ IsFirst(m, LinesFor(a))
        /\ frames_data[a] = updateECC(part.arch, frm_file[m].words)
  BY DEF HasFirst
<1>2. LinesFor(a)' \subseteq LinesFor(a) \union {line + 1} /\ m \in LinesFor(a)'
  BY <1>1, LinesForGrows
<1>3. line \in Nat /\ m \in 1..line
  BY <1>1 DEF TypeOK, LinesFor
<1>4. \A i \in LinesFor(a)' : m <= i
  BY <1>1, <1>2, <1>3 DEF IsFirst
<1>5. frm_file' = frm_file /\ part' = part
  BY DEF GetLine
<1>6. QED
  BY <1>1, <1>2, <1>4, <1>5 DEF HasFirst, IsFirst

\* A line that is taken for no address of the part leaves the invariant, when
\* it is followed by more lines, or by the end of reading.
LEMMA UntakenKeepsHeldInv ==
    ASSUME TypeOK, HeldInv, GetLine, UNCHANGED frames_data,
           \A a \in FrameAddress : Takes(a) => /\ ~IsValidFrameAddress(part, a)
                                              /\ frames_pc' = "invalid",
           frames_pc' \in {"reading", "invalid", "aborted"}
    PROVE  HeldInv'
<1>1. frames_pc = "reading" /\ part' = part /\ frm_file' = frm_file
  BY DEF GetLine
<1>2. DOMAIN frames_data \subseteq FrameAddress
  BY DEF TypeOK
<1>3. \A a \in DOMAIN frames_data : IsValidFrameAddress(part, a)
  BY <1>1 DEF HeldInv
<1>4. \A a \in FrameAddress :
        IsValidFrameAddress(part, a) => LinesFor(a)' = LinesFor(a)
  BY LinesForGrows
<1>5. \A a \in FrameAddress :
        LinesFor(a)' # {} => \/ IsValidFrameAddress(part, a)
                            \/ frames_pc' = "invalid"
  <2>1. SUFFICES ASSUME NEW a \in FrameAddress, LinesFor(a)' # {}
                 PROVE  IsValidFrameAddress(part, a) \/ frames_pc' = "invalid"
    OBVIOUS
  <2>2. LinesFor(a) # {} \/ Takes(a)
    BY <2>1, LinesForGrows
  <2>3. QED
    BY <1>1, <2>2 DEF HeldInv
<1>6. \A a \in DOMAIN frames_data : HasFirst(a)'
  BY <1>1, FirstStays DEF HeldInv
<1>7. QED
  BY <1>1, <1>2, <1>3, <1>4, <1>5, <1>6 DEF HeldInv

\* A line is kept, or one was kept for its address.
LEMMA InsertFrameKeepsHeldInv ==
    ASSUME TypeOK, HeldInv, InsertFrame
    PROVE  HeldInv'
<1>1. /\ frames_pc = "reading" /\ part' = part /\ frm_file' = frm_file
      /\ frames_pc' = "reading" /\ line < Len(frm_file) /\ GetLine
  BY DEF InsertFrame, GetLine
<1>2. PICK a0 \in FrameAddress : a0 = Returned.address
  BY <1>1, ReturnedIsLine DEF InsertFrame, HasFrame
<1>3. PICK value : value = updateECC(part.arch, Returned.words)
  OBVIOUS
<1>4. /\ IsValidFrameAddress(part, a0) /\ Takes(a0)
      /\ \A a : Takes(a) => a = a0
  BY <1>2 DEF InsertFrame, HasFrame, Takes
<1>5. frames_data' = Insert(frames_data, a0, value)
  BY <1>2, <1>3 DEF InsertFrame
<1>6. /\ DOMAIN frames_data' = DOMAIN frames_data \union {a0}
      /\ \A a \in DOMAIN frames_data : frames_data'[a] = frames_data[a]
      /\ a0 \notin DOMAIN frames_data => frames_data'[a0] = value
  <2> DEFINE inserted == Insert(frames_data, a0, value)
  <2>1. /\ DOMAIN inserted = DOMAIN frames_data \union {a0}
        /\ \A a \in DOMAIN frames_data : inserted[a] = frames_data[a]
        /\ a0 \notin DOMAIN frames_data => inserted[a0] = value
    BY InsertProperties
  <2>2. QED
    BY <1>5, <2>1
<1>7. \A a \in DOMAIN frames_data : HasFirst(a)'
  BY <1>1, <1>6, FirstStays DEF HeldInv
<1>8. ASSUME a0 \notin DOMAIN frames_data PROVE HasFirst(a0)'
  <2>1. LinesFor(a0) = {}
    BY <1>2, <1>4, <1>8 DEF HeldInv
  <2>2. LinesFor(a0)' = {line + 1}
    BY <1>1, <1>4, <2>1, LinesForGrows
  <2>3. line + 1 \in Nat
    BY DEF TypeOK
  <2>4. PICK m : m = line + 1
    OBVIOUS
  <2>5. IsFirst(m, LinesFor(a0)')
    BY <2>2, <2>3, <2>4 DEF IsFirst
  <2>6. frames_data'[a0] = updateECC(part'.arch, frm_file'[m].words)
    BY <1>1, <1>3, <1>6, <1>8, <2>4 DEF Returned
  <2>7. QED
    BY <2>2, <2>4, <2>5, <2>6 DEF HasFirst, IsFirst
<1>9. \A a \in FrameAddress : LinesFor(a)' # {} => LinesFor(a) # {} \/ a = a0
  <2>1. SUFFICES ASSUME NEW a \in FrameAddress, LinesFor(a)' # {}, a # a0
                 PROVE  LinesFor(a) # {}
    OBVIOUS
  <2>2. ~Takes(a)
    BY <1>4, <2>1
  <2>3. LinesFor(a)' = LinesFor(a)
    BY <1>1, <2>2, LinesForGrows
  <2>4. QED
    BY <2>1, <2>3
<1>10. \A a \in DOMAIN frames_data' : IsValidFrameAddress(part, a)
  BY <1>1, <1>4, <1>6 DEF HeldInv
<1>11. \A a \in FrameAddress : LinesFor(a)' # {} => IsValidFrameAddress(part, a)
  BY <1>1, <1>4, <1>9 DEF HeldInv
<1>12. \A a \in FrameAddress :
         IsValidFrameAddress(part, a) /\ LinesFor(a)' # {} =>
            a \in DOMAIN frames_data'
  BY <1>6, <1>9 DEF HeldInv
<1>13. \A a \in DOMAIN frames_data' : HasFirst(a)'
  <2>1. SUFFICES ASSUME NEW a \in DOMAIN frames_data' PROVE HasFirst(a)'
    OBVIOUS
  <2>2. a \in DOMAIN frames_data \/ (a = a0 /\ a0 \notin DOMAIN frames_data)
    BY <1>6, <2>1
  <2>3. QED
    BY <1>7, <1>8, <2>2
<1>14. QED
  BY <1>1, <1>10, <1>11, <1>12, <1>13 DEF HeldInv

\* Steps that leave the frames and the lines, or end the reading of them.
LEMMA OtherStepsKeepHeldInv ==
    ASSUME HeldInv, UNCHANGED <<part, frm_file, line, frames_data>>,
           \/ frames_pc' = frames_pc
           \/ frames_pc = "reading" /\ frames_pc' \in {"invalid", "read"}
           \/ frames_pc = "read" /\ frames_pc' = "adding"
    PROVE  HeldInv'
<1>1. \A a : LinesFor(a)' = LinesFor(a)
  BY DEF LinesFor
<1>2. /\ frames_pc \in {"adding", "complete"} => frames_pc' = frames_pc
      /\ frames_pc = "invalid" => frames_pc' = "invalid"
  OBVIOUS
<1>3. \A a \in DOMAIN frames_data : HasFirst(a)'
  <2>1. SUFFICES ASSUME NEW a \in DOMAIN frames_data PROVE HasFirst(a)'
    OBVIOUS
  <2>2. HasFirst(a)
    BY DEF HeldInv
  <2>3. QED
    BY <1>1, <1>2, <2>2 DEF HasFirst
<1>4. QED
  BY <1>1, <1>2, <1>3 DEF HeldInv

\* A missing frame is added, not one that a line is for.
LEMMA AddMissingKeepsHeldInv ==
    ASSUME TypeOK, WalkInv, HeldInv, AddMissing
    PROVE  HeldInv'
<1>1. /\ frames_pc = "adding" /\ frames_pc' \in {"adding", "complete"}
      /\ UNCHANGED <<part, frm_file, line>>
  BY DEF AddMissing
<1>2. PICK a0 \in current : frames_data' = Insert(frames_data, a0, ZeroFrame)
  BY DEF AddMissing
<1>3. /\ a0 \in FrameAddress
      /\ IsValidFrameAddress(part, a0) \/ a0 = ZeroAddress
  BY <1>2 DEF TypeOK, WalkInv
<1>4. /\ DOMAIN frames_data' = DOMAIN frames_data \union {a0}
      /\ \A a \in DOMAIN frames_data : frames_data'[a] = frames_data[a]
      /\ a0 \notin DOMAIN frames_data => frames_data'[a0] = ZeroFrame
  <2> DEFINE inserted == Insert(frames_data, a0, ZeroFrame)
  <2>1. /\ DOMAIN inserted = DOMAIN frames_data \union {a0}
        /\ \A a \in DOMAIN frames_data : inserted[a] = frames_data[a]
        /\ a0 \notin DOMAIN frames_data => inserted[a0] = ZeroFrame
    BY InsertProperties
  <2>2. QED
    BY <1>2, <2>1
<1>5. \A a : LinesFor(a)' = LinesFor(a)
  BY <1>1 DEF LinesFor
<1>6. \A a \in DOMAIN frames_data' : HasFirst(a)'
  <2>1. SUFFICES ASSUME NEW a \in DOMAIN frames_data' PROVE HasFirst(a)'
    OBVIOUS
  <2>2. CASE a \in DOMAIN frames_data
    <3>1. HasFirst(a) /\ frames_data'[a] = frames_data[a]
      BY <1>4, <2>2 DEF HeldInv
    <3>2. QED
      BY <1>1, <1>5, <3>1 DEF HasFirst
  <2>3. CASE a \notin DOMAIN frames_data
    <3>1. a = a0 /\ frames_data'[a] = ZeroFrame
      BY <1>4, <2>1, <2>3
    <3>2. LinesFor(a) = {}
      BY <1>1, <1>3, <2>3, <3>1 DEF HeldInv
    <3>3. QED
      BY <1>1, <1>5, <3>1, <3>2 DEF HasFirst, ZeroFrame
  <2>4. QED
    BY <2>2, <2>3
<1>7. \A a \in DOMAIN frames_data' :
        \/ IsValidFrameAddress(part, a)
        \/ a = ZeroAddress /\ frames_pc' \in {"adding", "complete"}
  BY <1>1, <1>3, <1>4 DEF HeldInv
<1>8. QED
  BY <1>1, <1>4, <1>5, <1>6, <1>7 DEF HeldInv, ZeroAddress

\* Nothing has been read or kept.
LEMMA InitHeldInv == Init => HeldInv
<1>1. SUFFICES ASSUME Init PROVE HeldInv
  OBVIOUS
<1>2. DOMAIN frames_data = {}
  BY <1>1 DEF Init
<1>3. \A a : LinesFor(a) = {}
  BY <1>1 DEF Init, LinesFor
<1>4. QED
  BY <1>2, <1>3 DEF HeldInv

\* Every step keeps the frames those that lines are for.
LEMMA NextHeldInv == TypeOK /\ WalkInv /\ HeldInv /\ [Next]_vars => HeldInv'
<1>1. SUFFICES ASSUME TypeOK, WalkInv, HeldInv, [Next]_vars PROVE HeldInv'
  OBVIOUS
<1>2. CASE FailToOpen
  BY <1>1, <1>2, OtherStepsKeepHeldInv DEF FailToOpen
<1>3. CASE EndOfFile
  BY <1>1, <1>3, OtherStepsKeepHeldInv DEF EndOfFile
<1>4. CASE SkipComment
  BY <1>1, <1>4, UntakenKeepsHeldInv DEF SkipComment, GetLine, Takes
<1>5. CASE AbortOnMalformedLine
  BY <1>1, <1>5, UntakenKeepsHeldInv DEF AbortOnMalformedLine, Takes
<1>6. CASE RejectUnknownAddress
  BY <1>1, <1>6, UntakenKeepsHeldInv DEF RejectUnknownAddress, Takes
<1>7. CASE SkipWrongWordCount
  BY <1>1, <1>7, UntakenKeepsHeldInv DEF SkipWrongWordCount, GetLine, Takes
<1>8. CASE InsertFrame
  BY <1>1, <1>8, InsertFrameKeepsHeldInv
<1>9. CASE BeginAddMissing
  BY <1>1, <1>9, OtherStepsKeepHeldInv DEF BeginAddMissing
<1>10. CASE AddMissing
  BY <1>1, <1>10, AddMissingKeepsHeldInv
<1>11. CASE UNCHANGED vars
  BY <1>1, <1>11, OtherStepsKeepHeldInv DEF vars
<1>12. QED
  BY <1>1, <1>2, <1>3, <1>4, <1>5, <1>6, <1>7, <1>8, <1>9, <1>10, <1>11
     DEF Next, readFrames, addMissingFrames

\* Min is the element that is first.
LEMMA MinIsFirst ==
    ASSUME NEW set \in SUBSET Nat, NEW m, IsFirst(m, set)
    PROVE  Min(set) = m
<1>1. \A x \in set : (\A y \in set : x <= y) => x = m
  BY DEF IsFirst
<1>2. QED
  BY <1>1 DEF Min, IsFirst

(***************************************************************************)
(* For every part and every .frm file: the frame held for an address is    *)
(* the first line for it, or the zero frame that addMissingFrames adds     *)
(* where there was none.                                                   *)
(***************************************************************************)
THEOREM FirstLinesWin == Spec => []FirstLineWins
<1>1. TypeOK /\ HeldInv => FirstLineWins
  <2>1. SUFFICES ASSUME TypeOK, HeldInv, NEW a \in DOMAIN frames_data
                 PROVE  IF LinesFor(a) = {}
                        THEN /\ frames_data[a] = ZeroFrame
                             /\ frames_pc \in {"adding", "complete"}
                        ELSE frames_data[a] =
                             updateECC(part.arch,
                                       frm_file[Min(LinesFor(a))].words)
    BY DEF FirstLineWins
  <2>2. HasFirst(a) /\ LinesFor(a) \in SUBSET Nat
    BY <2>1 DEF HeldInv, LinesFor, TypeOK
  <2>3. QED
    BY <2>2, MinIsFirst DEF HasFirst
<1>2. QED
  BY <1>1, InitTypeOK, NextTypeOK, InitWalkInv, NextWalkInv, InitHeldInv,
     NextHeldInv, PTL DEF Spec

(***************************************************************************)
(* For every part and every .frm file: every line that counts has left its *)
(* frame, and no frame is of an address that the part does not have, but   *)
(* for address zero.                                                       *)
(***************************************************************************)
THEOREM HoldsItsLines == Spec => []NothingLostNothingForeign
<1>1. TypeOK /\ HeldInv => NothingLostNothingForeign
  <2>1. SUFFICES ASSUME TypeOK, HeldInv PROVE NothingLostNothingForeign
    OBVIOUS
  <2>2. IsPart(part) /\ DOMAIN frames_data \subseteq FrameAddress
    BY <2>1 DEF TypeOK
  <2>3. \A a \in ValidAddresses(part) : LinesFor(a) # {} => a \in FrameAddress
    <3>1. SUFFICES ASSUME NEW a, LinesFor(a) # {} PROVE a \in FrameAddress
      OBVIOUS
    <3>2. PICK i \in 1..line :
            frm_file[i].kind = "frame" /\ frm_file[i].address = a
      BY <3>1 DEF LinesFor
    <3>3. frm_file[i] \in Line
      BY <2>1 DEF TypeOK
    <3>4. QED
      BY <3>2, <3>3 DEF Line
  <2>4. \A a \in ValidAddresses(part) :
          LinesFor(a) # {} => a \in DOMAIN frames_data
    BY <2>1, <2>2, <2>3, ListedIsValid DEF HeldInv
  <2>5. DOMAIN frames_data \subseteq ValidAddresses(part) \union {ZeroAddress}
    BY <2>1, <2>2, ListedIsValid DEF HeldInv
  <2>6. QED
    BY <2>4, <2>5 DEF NothingLostNothingForeign
<1>2. QED
  BY <1>1, InitTypeOK, NextTypeOK, InitWalkInv, NextWalkInv, InitHeldInv,
     NextHeldInv, PTL DEF Spec

-----------------------------------------------------------------------------

\* The first address of a column.
StartOf(k) == Address(k.block, k.half, k.row, k.column, 0)

\* A column that has frames starts with one of them.
LEMMA PopulatedStarts ==
    ASSUME IsPart(part), NEW k \in Populated
    PROVE  /\ k \in ColumnKey /\ StartOf(k) \in FrameAddress
           /\ IsValidFrameAddress(part, StartOf(k))
           /\ SameRow(StartOf(k), k) /\ NumberedRow(StartOf(k)) = NumberedRow(k)
           /\ StartOf(k).block = k.block /\ StartOf(k).half = k.half
           /\ StartOf(k).row = k.row
           /\ StartOf(k).column = k.column /\ StartOf(k).minor = 0
<1>1. k \in ColumnKey /\ k \in DOMAIN part.columns /\ part.columns[k] > 0
  BY DEF Populated, IsPart
<1>2. 0 \in 0..1023
  OBVIOUS
<1>3. StartOf(k) \in FrameAddress
  BY <1>1, <1>2 DEF StartOf, Address, FrameAddress, ColumnKey
<1>4. ColumnOf(StartOf(k)) = k
  BY <1>1 DEF StartOf, Address, ColumnOf, ColumnKey
<1>5. IsValidFrameAddress(part, StartOf(k))
  BY <1>1, <1>4 DEF IsValidFrameAddress, StartOf, Address
<1> QED
  BY <1>1, <1>3, <1>5 DEF StartOf, Address, SameRow, NumberedRow

\* An address of the part is in a column that has frames.
LEMMA ColumnIsPopulated ==
    ASSUME IsPart(part), NEW a \in FrameAddress, IsValidFrameAddress(part, a)
    PROVE  /\ ColumnOf(a) \in Populated
           /\ SameRow(ColumnOf(a), a) /\ ColumnOf(a).column = a.column
           /\ ColumnOf(a).block = a.block /\ ColumnOf(a).half = a.half
           /\ ColumnOf(a).row = a.row
           /\ NumberedRow(ColumnOf(a)) = NumberedRow(a)
           /\ RowRank(ColumnOf(a)) = RowRank(a) /\ Region(ColumnOf(a)) = Region(a)
<1>1. /\ ColumnOf(a) \in DOMAIN part.columns
      /\ a.minor < part.columns[ColumnOf(a)] /\ a.minor \in 0..1023
      /\ part.columns[ColumnOf(a)] \in 0..MinorCount(part.arch)
      /\ MinorCount(part.arch) \in {128, 256, 1024}
  BY Fields DEF IsValidFrameAddress, IsPart, MinorCount
<1> DEFINE n == part.columns[ColumnOf(a)]
           m == MinorCount(part.arch)
<1>2. n \in 0..m /\ m \in {128, 256, 1024} /\ a.minor < n /\ a.minor \in 0..1023
  BY <1>1
<1> HIDE DEF n, m
<1>3. n > 0
  BY <1>2
<1> QED
  BY <1>1, <1>3 DEF n, Populated, ColumnOf, SameRow, NumberedRow, RowRank, Region

-----------------------------------------------------------------------------

\* No address of the part is between the two.
Closest(u, v) ==
    /\ u \in FrameAddress /\ IsValidFrameAddress(part, u)
    /\ v \in FrameAddress /\ IsValidFrameAddress(part, v)
    /\ Precedes(u, v)
    /\ \A w \in FrameAddress :
          IsValidFrameAddress(part, w) => ~(Precedes(u, w) /\ Precedes(w, v))

ColumnsAt(a) == {k.column : k \in {c \in DOMAIN part.columns : SameRow(c, a)}}

\* The next minor of an address, when it is a minor.
LEMMA MinorUp ==
    ASSUME NEW a \in FrameAddress, a.minor + 1 \in 0..1023
    PROVE  LET w == [a EXCEPT !.minor = @ + 1]
           IN /\ w \in FrameAddress /\ w.minor = a.minor + 1
              /\ w.block = a.block /\ w.half = a.half /\ w.row = a.row
              /\ w.column = a.column
<1> DEFINE n == a.minor + 1
           w == [a EXCEPT !.minor = n]
<1>1. n \in 0..1023
  OBVIOUS
<1>2. [a EXCEPT !.minor = @ + 1] = w
  OBVIOUS
<1> HIDE DEF n
<1>3. w \in FrameAddress
  BY <1>1 DEF FrameAddress
<1>4. /\ w.minor = n /\ w.block = a.block /\ w.half = a.half
      /\ w.row = a.row /\ w.column = a.column
  BY DEF FrameAddress
<1> HIDE DEF w
<1> QED
  BY <1>2, <1>3, <1>4 DEF n

\* The next address of the same row is the one that the row comes to.
LEMMA NextInRow ==
    ASSUME IsPart(part), Walkable, NEW u, NEW v, Closest(u, v), SameRow(u, v)
    PROVE  v \in RowNext(part, u)
<1>1. /\ u \in FrameAddress /\ IsValidFrameAddress(part, u)
      /\ v \in FrameAddress /\ IsValidFrameAddress(part, v)
      /\ Precedes(u, v)
  BY DEF Closest
<1> USE <1>1
<1>2. /\ u.column \in Nat /\ v.column \in Nat
      /\ u.minor \in 0..1023 /\ v.minor \in 0..1023
      /\ NumberedRow(u) = NumberedRow(v) /\ u.block = v.block
  BY Fields, FieldsAreNat DEF SameRow, NumberedRow
<1>3. \/ u.column < v.column
      \/ u.column = v.column /\ u.minor < v.minor
  BY <1>2, FieldsAreNat DEF Precedes
<1>4. /\ ColumnOf(u) \in Populated /\ ColumnOf(v) \in Populated
      /\ u.column \in ColumnsAt(u) /\ v.column \in ColumnsAt(u)
  BY ColumnIsPopulated DEF ColumnsAt, Populated, SameRow
<1>5. RowNext(part, u) =
          FirstOf(ColumnNext(part, u),
              UNION {IfValid(part, Address(u.block, u.half, u.row, c, 0)) :
                        c \in Following(ColumnsAt(u), u.column)})
  BY <1>4 DEF RowNext, BusNext, ColumnsAt
<1> DEFINE w == [u EXCEPT !.minor = @ + 1]
<1>6. ASSUME u.minor + 1 < part.columns[ColumnOf(u)]
      PROVE  /\ w \in FrameAddress /\ IsValidFrameAddress(part, w)
             /\ SameRow(w, u) /\ w.column = u.column /\ w.minor = u.minor + 1
             /\ NumberedRow(w) = NumberedRow(u) /\ w.block = u.block
             /\ ColumnNext(part, u) = {w}
  <2>1. u.minor + 1 \in 0..1023
    <3> DEFINE m == u.minor
               n == part.columns[ColumnOf(u)]
               l == MinorCount(part.arch)
    <3>1. m \in 0..1023 /\ n \in 0..l /\ l \in {128, 256, 1024} /\ m + 1 < n
      BY <1>2, <1>4, <1>6 DEF IsPart, MinorCount, Populated
    <3> HIDE DEF m, n, l
    <3>2. m + 1 \in 0..1023
      BY <3>1
    <3> QED
      BY <3>2 DEF m
  <2>2. /\ w \in FrameAddress /\ w.minor = u.minor + 1
        /\ w.block = u.block /\ w.half = u.half /\ w.row = u.row
        /\ w.column = u.column
    BY <2>1, MinorUp
  <2>3. ColumnNext(part, u) = {w}
    BY <1>6 DEF ColumnNext
  <2> HIDE DEF w
  <2>4. /\ ColumnOf(w) = ColumnOf(u) /\ SameRow(w, u)
        /\ NumberedRow(w) = NumberedRow(u)
    BY <2>2 DEF ColumnOf, SameRow, NumberedRow
  <2>5. IsValidFrameAddress(part, w)
    BY <1>4, <1>6, <2>2, <2>4 DEF IsValidFrameAddress, Populated
  <2> QED
    BY <2>2, <2>3, <2>4, <2>5
<1> HIDE DEF w
<1>7. CASE u.minor + 1 < part.columns[ColumnOf(u)]
  <2>1. Precedes(u, w)
    BY <1>6, <1>7, <1>2 DEF Precedes
  <2>2. ~Precedes(w, v)
    BY <1>6, <1>7, <2>1 DEF Closest
  <2>3. w.column = v.column /\ ~(w.minor < v.minor)
    BY <1>6, <1>7, <1>2, <1>3, <2>2 DEF Precedes
  <2>4. w.minor = v.minor
    <3> DEFINE a == u.minor  b == v.minor  d == w.minor
    <3>1. a \in 0..1023 /\ b \in 0..1023 /\ d = a + 1 /\ a < b /\ ~(d < b)
      BY <1>6, <1>7, <1>2, <1>3, <2>3
    <3> HIDE DEF a, b, d
    <3>2. d = b
      BY <3>1
    <3> QED
      BY <3>2 DEF b, d
  <2>5. w = v
    BY <1>6, <1>7, <2>3, <2>4, SameFields DEF SameRow
  <2> QED
    BY <1>5, <1>6, <1>7, <2>5 DEF FirstOf
<1>8. CASE ~(u.minor + 1 < part.columns[ColumnOf(u)])
  <2>1. ColumnNext(part, u) = {}
    BY <1>8 DEF ColumnNext
  <2>2. u.column < v.column
    <3>1. SUFFICES ASSUME u.column = v.column PROVE FALSE
      BY <1>2, <1>3
    <3>2. ColumnOf(u) = ColumnOf(v)
      BY <3>1 DEF ColumnOf, SameRow
    <3> DEFINE n == part.columns[ColumnOf(u)]
               a == u.minor
               b == v.minor
    <3>3. b < n /\ n \in Int
      BY <3>2, <1>4 DEF IsValidFrameAddress, IsPart, MinorCount, Populated
    <3>4. a < b /\ ~(a + 1 < n) /\ a \in 0..1023 /\ b \in 0..1023
      BY <1>2, <1>3, <1>8, <3>1
    <3> HIDE DEF n, a, b
    <3> QED
      BY <3>3, <3>4
  <2>3. v.column \in Following(ColumnsAt(u), u.column)
    <3>1. SUFFICES ASSUME NEW c \in ColumnsAt(u), c > u.column
                   PROVE  v.column <= c
      BY <1>2, <1>4, <2>2 DEF Following
    <3>2. PICK k \in DOMAIN part.columns : SameRow(k, u) /\ k.column = c
      BY DEF ColumnsAt
    <3>3. k \in ColumnKey /\ c \in Nat
      BY <3>2 DEF IsPart, ColumnKey
    <3>4. SUFFICES ASSUME c < v.column PROVE FALSE
      BY <1>2, <3>3
    <3>5. k \in Populated
      <4>1. SameRow(k, ColumnOf(v)) /\ k.column < ColumnOf(v).column
        BY <3>2, <3>4, ColumnIsPopulated DEF SameRow
      <4> QED
        BY <1>4, <4>1 DEF Walkable
    <3> DEFINE s == StartOf(k)
    <3>6. /\ s \in FrameAddress /\ IsValidFrameAddress(part, s)
          /\ s.column = c /\ s.block = u.block
          /\ NumberedRow(s) = NumberedRow(u)
      BY <3>2, <3>5, PopulatedStarts DEF SameRow, NumberedRow
    <3>7. Precedes(u, s) /\ Precedes(s, v)
      BY <3>1, <3>4, <3>6, <1>2 DEF Precedes
    <3> QED
      BY <3>6, <3>7 DEF Closest
  <2>4. v = Address(u.block, u.half, u.row, v.column, 0)
    <3> DEFINE s == StartOf(ColumnOf(v))
    <3>1. /\ s \in FrameAddress /\ IsValidFrameAddress(part, s)
          /\ s.column = v.column /\ SameRow(s, v) /\ s.minor = 0
          /\ s.block = v.block /\ NumberedRow(s) = NumberedRow(v)
      BY <1>4, PopulatedStarts, ColumnIsPopulated DEF SameRow
    <3>2. Precedes(u, s)
      BY <3>1, <2>2, <1>2 DEF Precedes
    <3>3. ~Precedes(s, v)
      BY <3>1, <3>2 DEF Closest
    <3>4. v.minor = 0
      BY <3>1, <3>3, <1>2 DEF Precedes
    <3>5. v = s
      BY <3>1, <3>4, SameFields
    <3> QED
      BY <3>5 DEF StartOf, ColumnOf, Address, SameRow
  <2>5. v \in IfValid(part, Address(u.block, u.half, u.row, v.column, 0))
    BY <2>4 DEF IfValid
  <2> QED
    BY <1>5, <2>1, <2>3, <2>5 DEF FirstOf
<1> QED
  BY <1>7, <1>8

\* The next address of a row is in that row, in the same column or the next.
LEMMA RowNextStays ==
    ASSUME IsPart(part), NEW a \in FrameAddress, NEW n \in RowNext(part, a)
    PROVE  /\ SameRow(n, a)
           /\ \/ n.column = a.column
              \/ n.column \in Following(ColumnsAt(a), a.column)
<1>1. \/ n \in ColumnNext(part, a)
      \/ \E c \in Following(ColumnsAt(a), a.column) :
            n \in IfValid(part, Address(a.block, a.half, a.row, c, 0))
  BY DEF RowNext, BusNext, FirstOf, ColumnsAt
<1>2. CASE n \in ColumnNext(part, a)
  BY <1>2 DEF ColumnNext, FrameAddress, SameRow
<1>3. CASE \E c \in Following(ColumnsAt(a), a.column) :
              n \in IfValid(part, Address(a.block, a.half, a.row, c, 0))
  BY <1>3 DEF IfValid, Address, SameRow
<1> QED
  BY <1>1, <1>2, <1>3

\* At the end of a row the row has no next address.
LEMMA RowEnds ==
    ASSUME IsPart(part), NEW u, NEW v, Closest(u, v), ~SameRow(u, v)
    PROVE  RowNext(part, u) = {}
<1>1. /\ u \in FrameAddress /\ IsValidFrameAddress(part, u)
      /\ v \in FrameAddress /\ IsValidFrameAddress(part, v)
      /\ Precedes(u, v)
  BY DEF Closest
<1> USE <1>1
<1>2. NumberedRow(u) = NumberedRow(v) => u.block # v.block
  BY SameNumber DEF SameRow
<1>3. /\ u.block \in Nat /\ v.block \in Nat
      /\ NumberedRow(u) \in Nat /\ NumberedRow(v) \in Nat
  BY FieldsAreNat
<1>4. \/ u.block < v.block
      \/ u.block = v.block /\ NumberedRow(u) < NumberedRow(v)
  BY <1>2, <1>3 DEF Precedes
<1>5. SUFFICES ASSUME NEW n \in RowNext(part, u) PROVE FALSE
  OBVIOUS
<1>6. Follows(part, u, n)
  BY RowNextFollows
<1>7. SameRow(n, u)
  BY RowNextStays
<1>8. Precedes(n, v)
  BY <1>4, <1>7 DEF Precedes, SameRow, NumberedRow
<1> QED
  BY <1>6, <1>8 DEF Follows, Closest

-----------------------------------------------------------------------------

(***************************************************************************)
(* The architectures differ in which rows are next to each other: those of *)
(* a half, or all of them.  The ranks of the rows of a region say so for   *)
(* either.                                                                 *)
(***************************************************************************)
RanksIn(a) ==
    {RowRank(k) : k \in {c \in DOMAIN part.columns : Region(c) = Region(a)}}

RowStart(a, r) ==
    IF HalvesApart THEN Address(a.block, a.half, r, 0, 0)
                   ELSE Address(a.block, r \div 32, r % 32, 0, 0)

RegionNext(a) ==
    IF HalvesApart THEN GlobalClockRegionNext(part, a) ELSE RowsNext(part, a)

HalfNext(a) == IF HalvesApart THEN BottomHalfNext(part, a) ELSE {}

\* The next address, level by level, for every architecture.
LEMMA NextIs ==
    ASSUME IsPart(part), NEW a \in FrameAddress, IsValidFrameAddress(part, a)
    PROVE  /\ RegionNext(a) =
                  FirstOf(RowNext(part, a),
                          UNION {IfValid(part, RowStart(a, r)) :
                                    r \in Following(RanksIn(a), RowRank(a))})
           /\ GetNextFrameAddress(part, a) =
                  FirstOf(RegionNext(a),
                          FirstOf(HalfNext(a), BlockTypeNext(part, a)))
<1>1. ColumnOf(a) \in DOMAIN part.columns
  BY DEF IsValidFrameAddress
<1>2. /\ ColumnOf(a).half = a.half /\ ColumnOf(a).row = a.row
      /\ NumberedRow(ColumnOf(a)) = NumberedRow(a)
  BY DEF ColumnOf, NumberedRow
<1>3. CASE HalvesApart
  <2>1. RanksIn(a) = {k.row : k \in {c \in DOMAIN part.columns : c.half = a.half}}
    BY <1>3 DEF RanksIn, RowRank, Region
  <2>2. a.row \in RanksIn(a)
    BY <1>1, <1>2, <2>1
  <2>3. RegionNext(a) =
            FirstOf(RowNext(part, a),
                    UNION {IfValid(part, RowStart(a, r)) :
                              r \in Following(RanksIn(a), RowRank(a))})
    BY <1>3, <2>1, <2>2
       DEF RegionNext, GlobalClockRegionNext, RowStart, RowRank
  <2>4. CASE part.arch = "Series7"
    BY <1>3, <2>3, <2>4
       DEF GetNextFrameAddress, Series7Next, RegionNext, HalfNext
  <2>5. CASE part.arch = "Spartan6"
    <3>1. Spartan6BottomNext(part, a) = {}
      BY <2>5, NoBottomOnSpartan6
    <3>2. ~IsValidFrameAddress(part, Address(a.block, 1, 0, 0, 0))
      BY <3>1 DEF Spartan6BottomNext
    <3>3. HalfNext(a) = {}
      BY <3>2 DEF HalfNext, BottomHalfNext, IfValid
    <3> QED
      BY <1>3, <2>3, <2>5, <3>1, <3>3
         DEF GetNextFrameAddress, Spartan6Next, RegionNext
  <2> QED
    BY <1>3, <2>4, <2>5 DEF HalvesApart
<1>4. CASE ~HalvesApart
  <2>1. RanksIn(a) = {NumberedRow(k) : k \in DOMAIN part.columns}
    BY <1>4 DEF RanksIn, RowRank, Region
  <2>2. NumberedRow(a) \in RanksIn(a)
    BY <1>1, <1>2, <2>1
  <2>3. RegionNext(a) =
            FirstOf(RowNext(part, a),
                    UNION {IfValid(part, RowStart(a, r)) :
                              r \in Following(RanksIn(a), RowRank(a))})
    BY <1>4, <2>1 DEF RegionNext, RowsNext, RowStart, RowRank
  <2>4. GetNextFrameAddress(part, a) = UltraScaleNext(part, a)
    BY <1>4 DEF HalvesApart, GetNextFrameAddress
  <2>5. UltraScaleNext(part, a) =
            FirstOf(RowsNext(part, a), BlockTypeNext(part, a))
    BY <2>1, <2>2 DEF UltraScaleNext
  <2> QED
    BY <1>4, <2>3, <2>4, <2>5 DEF RegionNext, HalfNext, FirstOf
<1> QED
  BY <1>3, <1>4

\* In a region the ranks order the rows as their numbers do.
LEMMA RankOrder ==
    ASSUME NEW a \in FrameAddress, NEW b \in FrameAddress
    PROVE  /\ RowRank(a) \in Nat /\ Region(a) \in 0..1
           /\ Region(a) = Region(b) =>
                 /\ RowRank(a) < RowRank(b) <=> NumberedRow(a) < NumberedRow(b)
                 /\ RowRank(a) = RowRank(b) =>
                       a.half = b.half /\ a.row = b.row
           /\ Region(a) # Region(b) =>
                 /\ HalvesApart /\ Region(a) = a.half /\ Region(b) = b.half
                 /\ NumberedRow(a) < NumberedRow(b) <=> a.half = 0 /\ b.half = 1
<1> DEFINE h1 == a.half  r1 == a.row  h2 == b.half  r2 == b.row
<1>1. /\ h1 \in 0..1 /\ h2 \in 0..1 /\ r1 \in 0..31 /\ r2 \in 0..31
      /\ NumberedRow(a) = 32 * h1 + r1 /\ NumberedRow(b) = 32 * h2 + r2
      /\ NumberedRow(a) \in Nat
  BY Fields, FieldsAreNat
<1> HIDE DEF h1, r1, h2, r2
<1>2. /\ h1 = h2 => (r1 < r2 <=> 32 * h1 + r1 < 32 * h2 + r2)
      /\ 32 * h1 + r1 = 32 * h2 + r2 => h1 = h2 /\ r1 = r2
      /\ h1 # h2 => (32 * h1 + r1 < 32 * h2 + r2 <=> h1 = 0 /\ h2 = 1)
      /\ r1 \in Nat /\ 0 \in 0..1
  BY <1>1
<1>3. CASE HalvesApart
  BY <1>1, <1>2, <1>3 DEF RowRank, Region, h1, r1, h2, r2
<1>4. CASE ~HalvesApart
  BY <1>1, <1>2, <1>4 DEF RowRank, Region, h1, r1, h2, r2
<1> QED
  BY <1>3, <1>4

\* The first address of the row of a rank.
LEMMA RowStartFields ==
    ASSUME IsPart(part), NEW a \in FrameAddress, NEW r \in RanksIn(a)
    PROVE  LET s == RowStart(a, r)
           IN /\ s \in FrameAddress /\ s.block = a.block
              /\ Region(s) = Region(a) /\ RowRank(s) = r
              /\ s.column = 0 /\ s.minor = 0
<1> DEFINE s == RowStart(a, r)
<1>1. PICK k \in DOMAIN part.columns : Region(k) = Region(a) /\ RowRank(k) = r
  BY DEF RanksIn
<1>2. k \in ColumnKey
  BY DEF IsPart
<1>3. PICK h \in 0..1, q \in 0..31 : k.half = h /\ k.row = q
  BY <1>2 DEF ColumnKey
<1>4. 0 \in 0..1023
  OBVIOUS
<1>5. a.block \in 0..15 /\ a.half \in 0..1
  BY Fields
<1>6. CASE HalvesApart
  <2>1. s = Address(a.block, a.half, q, 0, 0) /\ r = q
    BY <1>1, <1>3, <1>6 DEF RowStart, RowRank
  <2>2. s \in FrameAddress
    BY <2>1, <1>3, <1>4, <1>5 DEF Address, FrameAddress
  <2> QED
    BY <1>6, <2>1, <2>2 DEF Address, Region, RowRank
<1>7. CASE ~HalvesApart
  <2>1. r = 32 * h + q
    BY <1>1, <1>3, <1>7 DEF RowRank, NumberedRow
  <2>2. r \div 32 = h /\ r % 32 = q
    <3>1. CASE h = 0
      BY <2>1, <3>1
    <3>2. CASE h = 1
      BY <2>1, <3>2
    <3> QED
      BY <3>1, <3>2
  <2>3. s = Address(a.block, h, q, 0, 0)
    BY <2>2, <1>7 DEF RowStart
  <2>4. s \in FrameAddress
    BY <2>3, <1>3, <1>4, <1>5 DEF Address, FrameAddress
  <2> QED
    BY <1>7, <2>1, <2>3, <2>4 DEF Address, Region, RowRank, NumberedRow
<1> QED
  BY <1>6, <1>7

-----------------------------------------------------------------------------

\* Which field the two differ in, when they are in different rows.
LEMMA RowsApart ==
    ASSUME IsPart(part), NEW u, NEW v, Closest(u, v), ~SameRow(u, v)
    PROVE  \/ u.block < v.block
           \/ u.block = v.block /\ NumberedRow(u) < NumberedRow(v)
<1>1. u \in FrameAddress /\ v \in FrameAddress /\ Precedes(u, v)
  BY DEF Closest
<1>2. NumberedRow(u) = NumberedRow(v) => u.block # v.block
  BY <1>1, SameNumber DEF SameRow
<1> QED
  BY <1>1, <1>2 DEF Precedes

\* No address of the part that comes after u comes before v.
LEMMA NoneBetween ==
    ASSUME NEW u, NEW v, Closest(u, v), NEW w \in FrameAddress,
           IsValidFrameAddress(part, w), Precedes(u, w)
    PROVE  ~Precedes(w, v) /\ (w = v \/ Precedes(v, w))
BY PrecedesIsTotal DEF Closest

\* A row begins with its column 0.
LEMMA RowBegins ==
    ASSUME IsPart(part), Walkable, NEW u, NEW v, Closest(u, v), ~SameRow(u, v)
    PROVE  v.column = 0 /\ v.minor = 0
<1>1. /\ u \in FrameAddress /\ v \in FrameAddress
      /\ IsValidFrameAddress(part, v)
  BY DEF Closest
<1>2. PICK j \in Populated : SameRow(j, ColumnOf(v)) /\ j.column = 0
  BY <1>1, ColumnIsPopulated DEF Walkable
<1> DEFINE s == StartOf(j)
<1>3. /\ s \in FrameAddress /\ IsValidFrameAddress(part, s)
      /\ SameRow(s, v) /\ s.block = v.block /\ NumberedRow(s) = NumberedRow(v)
      /\ s.column = 0 /\ s.minor = 0
  BY <1>1, <1>2, PopulatedStarts, ColumnIsPopulated DEF SameRow, NumberedRow
<1> HIDE DEF s
<1>4. Precedes(u, s)
  BY <1>3, RowsApart DEF Precedes
<1>5. s = v \/ Precedes(v, s)
  BY <1>3, <1>4, NoneBetween
<1>6. /\ v.column \in Nat /\ v.minor \in Nat /\ v.block \in Nat
      /\ NumberedRow(v) \in Nat
  BY <1>1, FieldsAreNat
<1>7. ~Precedes(v, s)
  BY <1>3, <1>6 DEF Precedes
<1> QED
  BY <1>3, <1>5, <1>7

\* The next row of the region is the one that the region comes to.
LEMMA NextInRegion ==
    ASSUME IsPart(part), Walkable, NEW u, NEW v, Closest(u, v),
           ~SameRow(u, v), u.block = v.block, Region(u) = Region(v)
    PROVE  v \in RegionNext(u)
<1>1. /\ u \in FrameAddress /\ IsValidFrameAddress(part, u)
      /\ v \in FrameAddress /\ IsValidFrameAddress(part, v)
  BY DEF Closest
<1> USE <1>1
<1>2. RowRank(u) < RowRank(v) /\ RowRank(u) \in Nat /\ RowRank(v) \in Nat
  <2>1. u.block \in Nat /\ NumberedRow(u) < NumberedRow(v)
    BY RowsApart, FieldsAreNat
  <2> QED
    BY <2>1, RankOrder
<1>3. /\ ColumnOf(v) \in Populated /\ ColumnOf(v) \in DOMAIN part.columns
      /\ RowRank(ColumnOf(v)) = RowRank(v) /\ Region(ColumnOf(v)) = Region(v)
      /\ ColumnOf(v).block = v.block
  BY ColumnIsPopulated DEF Populated
<1>4. RowRank(v) \in RanksIn(u)
  BY <1>3 DEF RanksIn
<1>5. RowRank(v) \in Following(RanksIn(u), RowRank(u))
  <2>1. SUFFICES ASSUME NEW z \in RanksIn(u), z > RowRank(u), z < RowRank(v)
                 PROVE  FALSE
    <3>1. \A z \in RanksIn(u) : z \in Nat
      BY RowStartFields, RankOrder
    <3> QED
      BY <1>2, <1>4, <3>1 DEF Following
  <2>2. PICK c \in DOMAIN part.columns : Region(c) = Region(u) /\ RowRank(c) = z
    BY DEF RanksIn
  <2>3. PICK j \in Populated : SameRow(j, [c EXCEPT !.block = v.block])
    BY <1>3, <2>1, <2>2 DEF Walkable
  <2> DEFINE s == StartOf(j)
  <2>4. /\ s \in FrameAddress /\ IsValidFrameAddress(part, s)
        /\ s.block = v.block /\ Region(s) = Region(u) /\ RowRank(s) = z
    <3>1. c \in ColumnKey
      BY DEF IsPart
    <3>2. j.block = v.block /\ j.half = c.half /\ j.row = c.row
      BY <2>3, <3>1 DEF SameRow, ColumnKey
    <3>3. NumberedRow(j) = NumberedRow(c)
      BY <3>2 DEF NumberedRow
    <3> QED
      BY <2>2, <3>2, <3>3, PopulatedStarts DEF Region, RowRank
  <2> HIDE DEF s
  <2>5. NumberedRow(u) < NumberedRow(s) /\ NumberedRow(s) < NumberedRow(v)
    BY <2>1, <2>4, RankOrder
  <2>6. Precedes(u, s) /\ Precedes(s, v)
    BY <2>4, <2>5 DEF Precedes
  <2> QED
    BY <2>4, <2>6, NoneBetween
<1> DEFINE s == RowStart(u, RowRank(v))
<1>6. s = v
  <2>1. /\ s \in FrameAddress /\ s.block = v.block /\ Region(s) = Region(v)
        /\ RowRank(s) = RowRank(v) /\ s.column = 0 /\ s.minor = 0
    BY <1>4, RowStartFields
  <2> HIDE DEF s
  <2>2. SameRow(s, v)
    BY <2>1, RankOrder DEF SameRow
  <2> QED
    BY <2>1, <2>2, RowBegins, SameFields
<1>7. v \in IfValid(part, RowStart(u, RowRank(v)))
  BY <1>6 DEF IfValid
<1> QED
  BY <1>5, <1>7, NextIs, RowEnds DEF FirstOf

\* After the last row of a region the region has no next address.
LEMMA RegionEnds ==
    ASSUME IsPart(part), NEW u, NEW v, Closest(u, v),
           u.block # v.block \/ Region(u) # Region(v)
    PROVE  RegionNext(u) = {}
<1>1. /\ u \in FrameAddress /\ IsValidFrameAddress(part, u)
      /\ v \in FrameAddress /\ IsValidFrameAddress(part, v)
  BY DEF Closest
<1>2. ~SameRow(u, v)
  BY DEF SameRow, Region
<1>3. RowNext(part, u) = {}
  BY <1>2, RowEnds
<1>4. SUFFICES ASSUME NEW r \in Following(RanksIn(u), RowRank(u)),
                      IsValidFrameAddress(part, RowStart(u, r))
               PROVE  FALSE
  BY <1>1, <1>3, NextIs DEF FirstOf, IfValid
<1> DEFINE s == RowStart(u, r)
<1>5. r \in RanksIn(u) /\ r > RowRank(u)
  BY DEF Following
<1>6. /\ s \in FrameAddress /\ s.block = u.block
      /\ Region(s) = Region(u) /\ RowRank(s) = r
  BY <1>1, <1>5, RowStartFields
<1> HIDE DEF s
<1>7. NumberedRow(u) < NumberedRow(s)
  BY <1>1, <1>5, <1>6, RankOrder
<1>8. Precedes(u, s)
  BY <1>6, <1>7 DEF Precedes
<1>9. Precedes(s, v)
  <2>1. CASE u.block < v.block
    BY <1>6, <2>1 DEF Precedes
  <2>2. CASE u.block = v.block /\ NumberedRow(u) < NumberedRow(v)
    <3>1. Region(u) # Region(v)
      BY <2>2
    <3>2. u.half = 0 /\ v.half = 1 /\ HalvesApart
      BY <1>1, <2>2, <3>1, RankOrder
    <3>3. NumberedRow(s) < NumberedRow(v)
      BY <1>1, <1>6, <3>1, <3>2, RankOrder DEF Region
    <3> QED
      BY <1>6, <2>2, <3>3 DEF Precedes
  <2> QED
    BY <1>2, <2>1, <2>2, RowsApart
<1> QED
  BY <1>4, <1>6, <1>8, <1>9, NoneBetween DEF s

\* A half begins with its row 0, and the half before it comes to it.
LEMMA NextHalf ==
    ASSUME IsPart(part), Walkable, NEW u, NEW v, Closest(u, v),
           u.block = v.block, Region(u) # Region(v)
    PROVE  v \in HalfNext(u)
<1>1. /\ u \in FrameAddress /\ v \in FrameAddress
      /\ IsValidFrameAddress(part, v)
  BY DEF Closest
<1>2. ~SameRow(u, v)
  BY DEF SameRow, Region
<1>3. NumberedRow(u) < NumberedRow(v)
  BY <1>1, <1>2, RowsApart, FieldsAreNat
<1>4. HalvesApart /\ u.half = 0 /\ v.half = 1 /\ Region(v) = 1
  BY <1>1, <1>3, RankOrder
<1>5. PICK j \in Populated :
         j.block = v.block /\ Region(j) = Region(v) /\ RowRank(j) = 0
  BY <1>1, ColumnIsPopulated DEF Walkable
<1>6. j.half = 1 /\ j.row = 0
  BY <1>4, <1>5 DEF Region, RowRank
<1>7. PICK i \in Populated : SameRow(i, j) /\ i.column = 0
  BY <1>5 DEF Walkable
<1> DEFINE s == StartOf(i)
<1>8. /\ s \in FrameAddress /\ IsValidFrameAddress(part, s)
      /\ s.block = v.block /\ NumberedRow(s) = 32
      /\ s.column = 0 /\ s.minor = 0
      /\ s = Address(u.block, 1, 0, 0, 0)
  <2>1. i.block = v.block /\ i.half = 1 /\ i.row = 0 /\ i.column = 0
    BY <1>5, <1>6, <1>7 DEF SameRow
  <2>2. NumberedRow(i) = 32
    BY <2>1 DEF NumberedRow
  <2> QED
    BY <2>1, <2>2, <1>7, PopulatedStarts DEF StartOf
<1> HIDE DEF s
<1>9. NumberedRow(u) < NumberedRow(s)
  <2>1. u.row \in 0..31 /\ NumberedRow(u) = 32 * u.half + u.row
    BY <1>1, Fields
  <2> QED
    BY <2>1, <1>4, <1>8
<1>10. s = v \/ Precedes(v, s)
  BY <1>1, <1>8, <1>9, NoneBetween DEF Precedes
<1>11. ~Precedes(v, s)
  <2>1. v.row \in 0..31 /\ NumberedRow(v) = 32 * v.half + v.row
    BY <1>1, Fields
  <2>2. /\ NumberedRow(v) \in Nat /\ ~(NumberedRow(v) < 32)
        /\ v.column \in Nat /\ v.minor \in Nat /\ v.block \in Nat
    BY <1>1, <1>4, <2>1, FieldsAreNat
  <2> QED
    BY <1>8, <2>2 DEF Precedes
<1> QED
  BY <1>1, <1>4, <1>8, <1>10, <1>11 DEF HalfNext, BottomHalfNext, IfValid

\* After a block type its halves have no next address.
LEMMA HalvesEnd ==
    ASSUME IsPart(part), NEW u, NEW v, Closest(u, v), u.block # v.block
    PROVE  HalfNext(u) = {}
<1>1. u \in FrameAddress /\ v \in FrameAddress
  BY DEF Closest
<1> DEFINE s == Address(u.block, 1, 0, 0, 0)
<1>2. SUFFICES ASSUME u.half = 0, IsValidFrameAddress(part, s) PROVE FALSE
  BY DEF HalfNext, BottomHalfNext, IfValid
<1>3. /\ s \in FrameAddress /\ s.block = u.block
      /\ NumberedRow(s) = 32
  <2>1. u.block \in 0..15 /\ 1 \in 0..1 /\ 0 \in 0..31 /\ 0 \in 0..1023
    BY <1>1, Fields
  <2> QED
    BY <2>1 DEF Address, FrameAddress, NumberedRow
<1>4. NumberedRow(u) < 32 /\ u.block < v.block
  <2>1. u.row \in 0..31 /\ NumberedRow(u) = 32 * u.half + u.row
    BY <1>1, Fields
  <2>2. NumberedRow(u) < 32
    BY <1>2, <2>1
  <2> QED
    BY <2>2, RowsApart DEF SameRow
<1> HIDE DEF s
<1>5. Precedes(u, s) /\ Precedes(s, v)
  BY <1>3, <1>4 DEF Precedes
<1> QED
  BY <1>2, <1>3, <1>5, NoneBetween

\* A block type of a part that the walk covers begins with its address zero.
LEMMA BlockBegins ==
    ASSUME IsPart(part), Walkable, NEW k \in Populated
    PROVE  LET s == Address(k.block, 0, 0, 0, 0)
           IN s \in FrameAddress /\ IsValidFrameAddress(part, s)
<1>1. PICK j \in Populated : j.block = k.block /\ j.half = 0
  BY DEF Walkable
<1>2. PICK i \in Populated :
         i.block = j.block /\ Region(i) = Region(j) /\ RowRank(i) = 0
  BY <1>1 DEF Walkable
<1>3. i.half = 0 /\ i.row = 0
  <2>1. PICK h \in 0..1, r \in 0..31 : i.half = h /\ i.row = r
    BY <1>2, PopulatedStarts DEF ColumnKey
  <2>2. CASE HalvesApart
    BY <1>1, <1>2, <2>2 DEF Region, RowRank
  <2>3. CASE ~HalvesApart
    <3>1. 32 * h + r = 0
      BY <1>2, <2>1, <2>3 DEF RowRank, NumberedRow
    <3> QED
      BY <2>1, <3>1
  <2> QED
    BY <2>2, <2>3
<1>4. PICK l \in Populated : SameRow(l, i) /\ l.column = 0
  BY <1>2 DEF Walkable
<1>5. StartOf(l) = Address(k.block, 0, 0, 0, 0)
  BY <1>1, <1>2, <1>3, <1>4 DEF StartOf, SameRow
<1> QED
  BY <1>5, PopulatedStarts

\* The next block type is the one that the walk comes to.
LEMMA NextBlockType ==
    ASSUME IsPart(part), Walkable, NEW u, NEW v, Closest(u, v),
           u.block # v.block
    PROVE  v \in BlockTypeNext(part, u)
<1>1. /\ u \in FrameAddress /\ v \in FrameAddress
      /\ IsValidFrameAddress(part, v)
      /\ u.block \in 0..15 /\ v.block \in 0..15
  BY Fields DEF Closest
<1>2. u.block < v.block
  BY RowsApart DEF SameRow
<1>3. /\ ColumnOf(v) \in Populated /\ ColumnOf(v).block = v.block
      /\ v.block <= 2
  BY <1>1, ColumnIsPopulated DEF Walkable, CFG_CLB
<1>4. ASSUME NEW b \in 0..15, u.block < b, b <= v.block,
             IsValidFrameAddress(part, Address(b, 0, 0, 0, 0))
      PROVE  v = Address(b, 0, 0, 0, 0)
  <2> DEFINE s == Address(b, 0, 0, 0, 0)
  <2>1. /\ s \in FrameAddress /\ s.block = b /\ NumberedRow(s) = 0
        /\ s.column = 0 /\ s.minor = 0
    <3>1. 0 \in 0..1 /\ 0 \in 0..31 /\ 0 \in 0..1023
      OBVIOUS
    <3> QED
      BY <3>1 DEF Address, FrameAddress, NumberedRow
  <2> HIDE DEF s
  <2>2. s = v \/ Precedes(v, s)
    BY <1>4, <2>1, NoneBetween DEF Precedes, s
  <2>3. ~Precedes(v, s)
    <3>1. /\ v.block \in Nat /\ NumberedRow(v) \in Nat
          /\ v.column \in Nat /\ v.minor \in Nat /\ ~(v.block < b)
      BY <1>1, <1>4, FieldsAreNat
    <3> QED
      BY <2>1, <3>1 DEF Precedes
  <2> QED
    BY <2>2, <2>3 DEF s
<1>5. v = Address(v.block, 0, 0, 0, 0)
  <2>1. IsValidFrameAddress(part, Address(v.block, 0, 0, 0, 0))
    BY <1>3, BlockBegins
  <2>2. v.block <= v.block
    BY <1>1
  <2> QED
    BY <1>1, <1>2, <1>4, <2>1, <2>2
<1>6. CASE v.block = 1
  <2>1. u.block < 1 /\ v \in IfValid(part, Address(1, 0, 0, 0, 0))
    BY <1>1, <1>2, <1>5, <1>6 DEF IfValid
  <2> QED
    BY <2>1 DEF BlockTypeNext, FirstOf, BLOCK_RAM
<1>7. CASE v.block = 2
  <2>1. u.block < 2 /\ v \in IfValid(part, Address(2, 0, 0, 0, 0))
    BY <1>1, <1>2, <1>5, <1>7 DEF IfValid
  <2>2. u.block < 1 => ~IsValidFrameAddress(part, Address(1, 0, 0, 0, 0))
    <3>1. SUFFICES ASSUME u.block < 1,
                          IsValidFrameAddress(part, Address(1, 0, 0, 0, 0))
                   PROVE  FALSE
      OBVIOUS
    <3>2. 1 \in 0..15 /\ 1 <= v.block
      BY <1>7
    <3>3. v = Address(1, 0, 0, 0, 0)
      BY <3>1, <3>2, <1>4
    <3> QED
      BY <3>3, <1>7 DEF Address
  <2> QED
    BY <2>1, <2>2 DEF BlockTypeNext, FirstOf, IfValid, BLOCK_RAM, CFG_CLB
<1>8. v.block \in {1, 2}
  BY <1>1, <1>2, <1>3
<1> QED
  BY <1>6, <1>7, <1>8

\* On a part that the walk covers, the next address is the closest one.
LEMMA NextIsClosest ==
    ASSUME IsPart(part), Walkable, NEW u, NEW v, Closest(u, v)
    PROVE  v \in GetNextFrameAddress(part, u)
<1>1. GetNextFrameAddress(part, u) =
          FirstOf(RegionNext(u), FirstOf(HalfNext(u), BlockTypeNext(part, u)))
  BY NextIs DEF Closest
<1>2. CASE SameRow(u, v)
  <2>1. v \in RowNext(part, u)
    BY <1>2, NextInRow
  <2>2. v \in RegionNext(u)
    BY <2>1, NextIs DEF Closest, FirstOf
  <2> QED
    BY <1>1, <2>2 DEF FirstOf
<1>3. CASE ~SameRow(u, v) /\ u.block = v.block /\ Region(u) = Region(v)
  BY <1>1, <1>3, NextInRegion DEF FirstOf
<1>4. CASE u.block = v.block /\ Region(u) # Region(v)
  BY <1>1, <1>4, RegionEnds, NextHalf DEF FirstOf
<1>5. CASE u.block # v.block
  BY <1>1, <1>5, RegionEnds, HalvesEnd, NextBlockType DEF FirstOf
<1> QED
  BY <1>2, <1>3, <1>4, <1>5

-----------------------------------------------------------------------------

(***************************************************************************)
(* That each address but zero is the next one of another says the same as  *)
(* the conditions on rows and columns.                                     *)
(***************************************************************************)
IsReached(v) ==
    \E u \in FrameAddress :
        IsValidFrameAddress(part, u) /\ v \in GetNextFrameAddress(part, u)

AllReached ==
    /\ IsValidFrameAddress(part, ZeroAddress)
    /\ \A v \in FrameAddress :
          IsValidFrameAddress(part, v) => v = ZeroAddress \/ IsReached(v)

\* The conditions suffice: the last address before one leads to it.
LEMMA WalkableIsReached ==
    ASSUME IsPart(part), Walkable PROVE AllReached
<1>1. IsValidFrameAddress(part, ZeroAddress)
  BY DEF Walkable
<1>2. SUFFICES ASSUME NEW v \in FrameAddress, IsValidFrameAddress(part, v),
                      v # ZeroAddress
               PROVE  IsReached(v)
  BY <1>1 DEF AllReached
<1> DEFINE S == {a \in FrameAddress :
                    IsValidFrameAddress(part, a) /\ Precedes(a, v)}
<1>3. ZeroAddress \in S
  BY <1>1, <1>2, ZeroIsAddress, ZeroIsFirst, PrecedesIsTotal
<1>4. S \subseteq FrameAddress /\ S # {}
  BY <1>3
<1> HIDE DEF S
<1>5. PICK u \in S : \A w \in S : ~Precedes(u, w)
  BY <1>4, LastAddress
<1>6. Closest(u, v)
  BY <1>2, <1>5 DEF S, Closest
<1> QED
  BY <1>6, NextIsClosest DEF IsReached, Closest

\* How the next address differs from the one before it.
StaysInRow(u, v) ==
    /\ SameRow(v, u)
    /\ v.column = u.column \/ v.column \in Following(ColumnsAt(u), u.column)

BeginsRow(u, v) ==
    /\ v.block = u.block /\ Region(v) = Region(u) /\ v.column = 0
    /\ RowRank(v) \in Following(RanksIn(u), RowRank(u))

BeginsRegion(u, v) ==
    /\ v.block = u.block => Region(v) # Region(u)
    /\ v.block # u.block => v.block <= CFG_CLB /\ v.half = 0
    /\ RowRank(v) = 0 /\ v.column = 0

\* The next address of any address is one of these.
LEMMA NextDiffers ==
    ASSUME IsPart(part), NEW u \in FrameAddress, IsValidFrameAddress(part, u),
           NEW v \in GetNextFrameAddress(part, u)
    PROVE  StaysInRow(u, v) \/ BeginsRow(u, v) \/ BeginsRegion(u, v)
<1>1. v \in RegionNext(u) \/ v \in HalfNext(u) \/ v \in BlockTypeNext(part, u)
  BY NextIs DEF FirstOf
<1>2. CASE v \in RegionNext(u)
  <2>1. \/ v \in RowNext(part, u)
        \/ \E r \in Following(RanksIn(u), RowRank(u)) : v = RowStart(u, r)
    BY <1>2, NextIs DEF FirstOf, IfValid
  <2>2. CASE v \in RowNext(part, u)
    BY <2>2, RowNextStays DEF StaysInRow
  <2>3. CASE \E r \in Following(RanksIn(u), RowRank(u)) : v = RowStart(u, r)
    <3>1. PICK r \in Following(RanksIn(u), RowRank(u)) : v = RowStart(u, r)
      BY <2>3
    <3>2. r \in RanksIn(u)
      BY DEF Following
    <3> QED
      BY <3>1, <3>2, RowStartFields DEF BeginsRow
  <2> QED
    BY <2>1, <2>2, <2>3
<1>3. CASE v \in HalfNext(u)
  <2>1. HalvesApart /\ u.half = 0 /\ v = Address(u.block, 1, 0, 0, 0)
    BY <1>3 DEF HalfNext, BottomHalfNext, IfValid
  <2> QED
    BY <2>1 DEF BeginsRegion, Address, Region, RowRank
<1>4. CASE v \in BlockTypeNext(part, u)
  <2>1. \/ u.block < 1 /\ v = Address(1, 0, 0, 0, 0)
        \/ u.block < 2 /\ v = Address(2, 0, 0, 0, 0)
    BY <1>4 DEF BlockTypeNext, FirstOf, IfValid, BLOCK_RAM, CFG_CLB
  <2>2. /\ v.block # u.block /\ v.block <= 2
        /\ v.half = 0 /\ v.row = 0 /\ v.column = 0
    BY <2>1, FieldsAreNat DEF Address
  <2>3. RowRank(v) = 0
    BY <2>2 DEF RowRank, NumberedRow
  <2> QED
    BY <2>2, <2>3 DEF BeginsRegion, CFG_CLB
<1> QED
  BY <1>1, <1>2, <1>3, <1>4

\* A set of addresses of the part is entered at its first one.
LEMMA EnteredAtFirst ==
    ASSUME IsPart(part), AllReached, NEW S, S # {},
           \A a \in S : a \in FrameAddress /\ IsValidFrameAddress(part, a)
    PROVE  \E v \in S :
               \/ v = ZeroAddress
               \/ \E u \in FrameAddress \ S :
                     /\ IsValidFrameAddress(part, u)
                     /\ StaysInRow(u, v) \/ BeginsRow(u, v) \/ BeginsRegion(u, v)
<1>1. PICK v \in S : \A w \in S : ~Precedes(w, v)
  BY FirstAddress
<1>2. CASE v = ZeroAddress
  BY <1>2
<1>3. CASE v # ZeroAddress
  <2>1. PICK u \in FrameAddress :
           IsValidFrameAddress(part, u) /\ v \in GetNextFrameAddress(part, u)
    BY <1>3 DEF AllReached, IsReached
  <2>2. Precedes(u, v)
    BY <2>1, NextIsValidAndGreater, PackedPrecedes
  <2>3. u \notin S
    BY <1>1, <2>2
  <2> QED
    BY <2>1, <2>3, NextDiffers
<1> QED
  BY <1>2, <1>3

\* The first field values of address zero.
LEMMA ZeroFields ==
    /\ ZeroAddress.block = 0 /\ ZeroAddress.half = 0
    /\ RowRank(ZeroAddress) = 0 /\ ZeroAddress.column = 0
BY DEF ZeroAddress, Address, RowRank, NumberedRow

\* A block type that is reached is one that the walk knows, from its top half.
LEMMA ReachedBlock ==
    ASSUME IsPart(part), AllReached, NEW k \in Populated
    PROVE  /\ k.block <= CFG_CLB
           /\ \E j \in Populated : j.block = k.block /\ j.half = 0
<1> DEFINE S == {a \in FrameAddress :
                    IsValidFrameAddress(part, a) /\ a.block = k.block}
<1>1. StartOf(k) \in S
  BY PopulatedStarts
<1>2. PICK v \in S :
         \/ v = ZeroAddress
         \/ \E u \in FrameAddress \ S :
               /\ IsValidFrameAddress(part, u)
               /\ StaysInRow(u, v) \/ BeginsRow(u, v) \/ BeginsRegion(u, v)
  BY <1>1, EnteredAtFirst
<1>3. v.block <= CFG_CLB /\ v.half = 0
  BY <1>2, ZeroFields
     DEF StaysInRow, BeginsRow, BeginsRegion, SameRow, CFG_CLB
<1> QED
  BY <1>3, ColumnIsPopulated

\* A region that is reached is so from its row 0.
LEMMA ReachedRegion ==
    ASSUME IsPart(part), AllReached, NEW k \in Populated
    PROVE  \E j \in Populated :
              j.block = k.block /\ Region(j) = Region(k) /\ RowRank(j) = 0
<1> DEFINE S == {a \in FrameAddress :
                    /\ IsValidFrameAddress(part, a)
                    /\ a.block = k.block /\ Region(a) = Region(k)}
<1>1. StartOf(k) \in S
  BY PopulatedStarts DEF Region
<1>2. PICK v \in S :
         \/ v = ZeroAddress
         \/ \E u \in FrameAddress \ S :
               /\ IsValidFrameAddress(part, u)
               /\ StaysInRow(u, v) \/ BeginsRow(u, v) \/ BeginsRegion(u, v)
  BY <1>1, EnteredAtFirst
<1>3. RowRank(v) = 0
  BY <1>2, ZeroFields
     DEF StaysInRow, BeginsRow, BeginsRegion, SameRow, Region
<1> QED
  BY <1>3, ColumnIsPopulated

\* A row that is reached is so from its column 0.
LEMMA ReachedRow ==
    ASSUME IsPart(part), AllReached, NEW k \in Populated
    PROVE  \E j \in Populated : SameRow(j, k) /\ j.column = 0
<1> DEFINE S == {a \in FrameAddress :
                    IsValidFrameAddress(part, a) /\ SameRow(a, k)}
<1>1. StartOf(k) \in S
  BY PopulatedStarts
<1>2. PICK v \in S :
         \/ v = ZeroAddress
         \/ \E u \in FrameAddress \ S :
               /\ IsValidFrameAddress(part, u)
               /\ StaysInRow(u, v) \/ BeginsRow(u, v) \/ BeginsRegion(u, v)
  BY <1>1, EnteredAtFirst
<1>3. v.column = 0
  BY <1>2, ZeroFields DEF StaysInRow, BeginsRow, BeginsRegion, SameRow
<1> QED
  BY <1>2, <1>3, ColumnIsPopulated DEF SameRow

\* A column that is reached has only columns with frames before it.
LEMMA ReachedColumn ==
    ASSUME IsPart(part), AllReached, NEW k \in Populated,
           NEW j \in DOMAIN part.columns, SameRow(j, k), j.column < k.column
    PROVE  j \in Populated
<1>1. SUFFICES ASSUME j \notin Populated PROVE FALSE
  OBVIOUS
<1> DEFINE S == {a \in FrameAddress :
                    /\ IsValidFrameAddress(part, a)
                    /\ SameRow(a, k) /\ j.column < a.column}
<1>2. StartOf(k) \in S
  BY PopulatedStarts
<1>3. PICK v \in S :
         \/ v = ZeroAddress
         \/ \E u \in FrameAddress \ S :
               /\ IsValidFrameAddress(part, u)
               /\ StaysInRow(u, v) \/ BeginsRow(u, v) \/ BeginsRegion(u, v)
  BY <1>2, EnteredAtFirst
<1>4. j \in ColumnKey /\ j.column \in Nat
  BY DEF IsPart, ColumnKey
<1>5. v.column # 0
  BY <1>3, <1>4
<1>6. PICK u \in FrameAddress \ S :
         IsValidFrameAddress(part, u) /\ StaysInRow(u, v)
  BY <1>3, <1>5, ZeroFields DEF BeginsRow, BeginsRegion
<1>7. SameRow(u, k) /\ ~(j.column < u.column)
  BY <1>6 DEF StaysInRow, SameRow
<1>8. u.column # j.column
  <2>1. SUFFICES ASSUME u.column = j.column PROVE FALSE
    OBVIOUS
  <2>2. ColumnOf(u) = j
    BY <1>4, <1>7, <2>1 DEF ColumnOf, ColumnKey, SameRow
  <2> QED
    BY <1>1, <1>6, <2>2, ColumnIsPopulated
<1>9. u.column < j.column /\ u.column \in Nat /\ v.column \in Nat
  BY <1>4, <1>7, <1>8, FieldsAreNat
<1>10. j.column \in ColumnsAt(u)
  BY <1>7 DEF ColumnsAt, SameRow
<1>11. v.column <= j.column
  BY <1>4, <1>6, <1>9, <1>10 DEF StaysInRow, Following
<1> QED
  BY <1>3, <1>4, <1>9, <1>11

\* A row that is reached has only rows of its block type before it.
LEMMA ReachedRank ==
    ASSUME IsPart(part), AllReached, NEW k \in Populated,
           NEW r \in DOMAIN part.columns, Region(r) = Region(k),
           RowRank(r) < RowRank(k)
    PROVE  \E j \in Populated : SameRow(j, [r EXCEPT !.block = k.block])
<1>1. SUFFICES ASSUME ~\E j \in Populated :
                           SameRow(j, [r EXCEPT !.block = k.block])
               PROVE  FALSE
  OBVIOUS
<1> DEFINE S == {a \in FrameAddress :
                    /\ IsValidFrameAddress(part, a)
                    /\ a.block = k.block /\ Region(a) = Region(k)
                    /\ RowRank(r) < RowRank(a)}
<1>2. StartOf(k) \in S
  BY PopulatedStarts DEF Region, RowRank
<1>3. PICK v \in S :
         \/ v = ZeroAddress
         \/ \E u \in FrameAddress \ S :
               /\ IsValidFrameAddress(part, u)
               /\ StaysInRow(u, v) \/ BeginsRow(u, v) \/ BeginsRegion(u, v)
  BY <1>2, EnteredAtFirst
<1> DEFINE t == StartOf(r)
<1>4. /\ r \in ColumnKey /\ t \in FrameAddress
      /\ t.half = r.half /\ t.row = r.row
      /\ RowRank(t) = RowRank(r) /\ Region(t) = Region(r)
  <2>1. r \in ColumnKey /\ 0 \in 0..1023
    BY DEF IsPart
  <2> QED
    BY <2>1
       DEF StartOf, Address, FrameAddress, ColumnKey, RowRank, Region, NumberedRow
<1> HIDE DEF t
<1>5. RowRank(r) \in Nat /\ RowRank(v) \in Nat /\ RowRank(v) # 0
  BY <1>3, <1>4, RankOrder
<1>6. PICK u \in FrameAddress \ S :
         /\ IsValidFrameAddress(part, u)
         /\ StaysInRow(u, v) \/ BeginsRow(u, v)
  BY <1>3, <1>5, ZeroFields DEF BeginsRegion
<1>7. u.block = k.block /\ Region(u) = Region(k)
  BY <1>6 DEF StaysInRow, BeginsRow, SameRow, Region
<1>8. ~(RowRank(r) < RowRank(u)) /\ RowRank(u) \in Nat
  BY <1>6, <1>7, RankOrder
<1>9. RowRank(u) # RowRank(r)
  <2>1. SUFFICES ASSUME RowRank(u) = RowRank(t) PROVE FALSE
    BY <1>4
  <2>2. u.half = r.half /\ u.row = r.row
    BY <1>4, <1>7, <2>1, RankOrder
  <2>3. SameRow(ColumnOf(u), [r EXCEPT !.block = k.block])
    BY <1>4, <1>6, <1>7, <2>2, ColumnIsPopulated DEF SameRow, ColumnKey
  <2> QED
    BY <1>1, <1>6, <2>3, ColumnIsPopulated
<1>10. BeginsRow(u, v)
  <2>1. SameRow(u, v) => RowRank(u) = RowRank(v)
    BY DEF SameRow, RowRank, NumberedRow
  <2> QED
    BY <1>3, <1>6, <1>8, <2>1 DEF StaysInRow, SameRow
<1>11. RowRank(r) \in RanksIn(u) /\ RowRank(r) > RowRank(u)
  BY <1>5, <1>7, <1>8, <1>9 DEF RanksIn
<1>12. RowRank(v) <= RowRank(r)
  BY <1>10, <1>11 DEF BeginsRow, Following
<1> QED
  BY <1>3, <1>5, <1>12

(***************************************************************************)
(* The conditions on the rows and columns of a part say exactly that the   *)
(* walk from address zero can come by every address of it.                 *)
(***************************************************************************)
LEMMA WalkableMeansReached ==
    ASSUME IsPart(part) PROVE Walkable <=> AllReached
<1>1. ASSUME AllReached PROVE Walkable
  BY <1>1, ReachedBlock, ReachedRegion, ReachedRow, ReachedColumn, ReachedRank
     DEF Walkable, AllReached
<1> QED
  BY <1>1, WalkableIsReached

-----------------------------------------------------------------------------

(***************************************************************************)
(* Where the walk has come by, when the file has no frames: everything     *)
(* inserted or about to be is address zero or the next address of one that *)
(* is inserted, and the next addresses of those inserted are among them.   *)
(***************************************************************************)
Walked == DOMAIN frames_data \union current

ReachInv ==
    frm_file = <<>> =>
        /\ frames_pc \in {"reading", "read"} => DOMAIN frames_data = {}
        /\ frames_pc \in {"adding", "complete"} =>
              /\ ZeroAddress \in Walked
              /\ \A a \in Walked :
                    \/ a = ZeroAddress
                    \/ \E u \in DOMAIN frames_data :
                          a \in GetNextFrameAddress(part, u)
              /\ \A u \in DOMAIN frames_data :
                    GetNextFrameAddress(part, u) \subseteq Walked

\* No frame is held.
LEMMA InitReachInv == Init => ReachInv
<1>1. SUFFICES ASSUME Init PROVE ReachInv
  OBVIOUS
<1>2. DOMAIN frames_data = {} /\ frames_pc = "reading"
  BY <1>1 DEF Init
<1> QED
  BY <1>2 DEF ReachInv

\* A turn of the loop comes by one address and goes on to the next of it.
LEMMA AddMissingKeepsReachInv ==
    ASSUME WalkInv, ReachInv, AddMissing PROVE ReachInv'
<1>1. SUFFICES ASSUME frm_file = <<>> PROVE ReachInv'
  BY DEF AddMissing, ReachInv
<1>2. /\ part' = part /\ frm_file' = frm_file /\ frames_pc = "adding"
      /\ frames_pc' \in {"adding", "complete"}
  BY DEF AddMissing
<1>3. PICK a \in current : /\ frames_data' = Insert(frames_data, a, ZeroFrame)
                           /\ current' = GetNextFrameAddress(part, a)
  BY DEF AddMissing
<1>4. DOMAIN frames_data' = DOMAIN frames_data \union {a}
  BY <1>3, InsertProperties
<1>5. current = {a}
  BY <1>3 DEF WalkInv, IsOptional
<1>6. /\ DOMAIN frames_data' = Walked
      /\ Walked' = Walked \union GetNextFrameAddress(part, a)
  BY <1>3, <1>4, <1>5 DEF Walked
<1>7. /\ ZeroAddress \in Walked
      /\ \A b \in Walked : \/ b = ZeroAddress
                           \/ \E u \in DOMAIN frames_data :
                                 b \in GetNextFrameAddress(part, u)
      /\ \A u \in DOMAIN frames_data :
            GetNextFrameAddress(part, u) \subseteq Walked
  BY <1>1, <1>2 DEF ReachInv
<1> DEFINE Nexts(u) == GetNextFrameAddress(part, u)
<1>8. \A b \in Walked' : \/ b = ZeroAddress
                         \/ \E u \in DOMAIN frames_data' : b \in Nexts(u)
  <2> HIDE DEF Nexts
  <2> SUFFICES ASSUME NEW b \in Walked', b # ZeroAddress
               PROVE  \E u \in DOMAIN frames_data' : b \in Nexts(u)
    OBVIOUS
  <2>1. b \in Walked \/ b \in Nexts(a)
    BY <1>6 DEF Nexts
  <2>2. CASE b \in Nexts(a)
    BY <1>4, <2>2
  <2>3. CASE b \in Walked
    <3>1. PICK u \in DOMAIN frames_data : b \in Nexts(u)
      BY <1>7, <2>3 DEF Nexts
    <3> QED
      BY <1>4, <3>1
  <2> QED
    BY <2>1, <2>2, <2>3
<1>9. \A u \in DOMAIN frames_data' : Nexts(u) \subseteq Walked'
  <2>1. SUFFICES ASSUME NEW u \in DOMAIN frames_data'
                 PROVE  Nexts(u) \subseteq Walked'
    OBVIOUS
  <2>2. CASE u = a
    BY <1>6, <2>2
  <2>3. CASE u \in DOMAIN frames_data
    BY <1>6, <1>7, <2>3
  <2> QED
    BY <1>4, <2>1, <2>2, <2>3
<1>10. ZeroAddress \in Walked'
  BY <1>6, <1>7
<1> QED
  BY <1>2, <1>8, <1>9, <1>10 DEF ReachInv

\* Without lines nothing is held until the walk starts, at address zero.
LEMMA NextReachInv ==
    TypeOK /\ WalkInv /\ ReachInv /\ [Next]_vars => ReachInv'
<1>1. SUFFICES ASSUME TypeOK, WalkInv, ReachInv, [Next]_vars PROVE ReachInv'
  OBVIOUS
<1>2. CASE readFrames
  <2>1. frm_file' = frm_file /\ frames_pc = "reading"
    BY <1>2
       DEF readFrames, FailToOpen, SkipComment, AbortOnMalformedLine,
           RejectUnknownAddress, SkipWrongWordCount, InsertFrame, EndOfFile,
           GetLine
  <2>2. SUFFICES ASSUME frm_file = <<>> PROVE ReachInv'
    BY <2>1 DEF ReachInv
  <2>3. ~GetLine
    BY <1>1, <2>2 DEF GetLine, TypeOK
  <2>4. FailToOpen \/ EndOfFile
    BY <1>2, <2>3
       DEF readFrames, SkipComment, AbortOnMalformedLine,
           RejectUnknownAddress, SkipWrongWordCount, InsertFrame
  <2>5. frames_data' = frames_data /\ frames_pc' \in {"invalid", "read"}
    BY <2>4 DEF FailToOpen, EndOfFile
  <2>6. DOMAIN frames_data = {}
    BY <1>1, <2>1, <2>2 DEF ReachInv
  <2> QED
    BY <2>5, <2>6 DEF ReachInv
<1>3. CASE BeginAddMissing
  <2>1. /\ frm_file' = frm_file /\ frames_data' = frames_data
        /\ frames_pc = "read" /\ frames_pc' = "adding"
        /\ current' = {ZeroAddress}
    BY <1>3 DEF BeginAddMissing
  <2>2. SUFFICES ASSUME frm_file = <<>> PROVE ReachInv'
    BY <2>1 DEF ReachInv
  <2>3. DOMAIN frames_data' = {}
    BY <1>1, <2>1, <2>2 DEF ReachInv
  <2>4. Walked' = {ZeroAddress}
    BY <2>1, <2>3 DEF Walked
  <2> QED
    BY <2>1, <2>3, <2>4 DEF ReachInv
<1>4. CASE AddMissing
  BY <1>1, <1>4, AddMissingKeepsReachInv
<1>5. CASE UNCHANGED vars
  BY <1>1, <1>5 DEF vars, ReachInv, Walked
<1> QED
  BY <1>1, <1>2, <1>3, <1>4, <1>5 DEF Next, addMissingFrames

\* A part whose addresses are all held has its addresses all come by.
LEMMA HeldIsReached ==
    ASSUME TypeOK, WalkInv, ReachInv, frames_pc = "complete", frm_file = <<>>,
           ValidAddresses(part) = DOMAIN frames_data
    PROVE  AllReached
<1>1. /\ IsPart(part) /\ DOMAIN frames_data \subseteq FrameAddress
      /\ current = {}
  BY DEF TypeOK, WalkInv
<1>2. Walked = DOMAIN frames_data
  BY <1>1 DEF Walked
<1>3. \A a \in FrameAddress :
        a \in DOMAIN frames_data <=> IsValidFrameAddress(part, a)
  BY <1>1, ListedIsValid
<1>4. IsValidFrameAddress(part, ZeroAddress)
  BY <1>2, <1>3, ZeroIsAddress DEF ReachInv
<1>5. ASSUME NEW v \in FrameAddress, IsValidFrameAddress(part, v),
             v # ZeroAddress
      PROVE  IsReached(v)
  <2>1. v \in DOMAIN frames_data
    BY <1>3, <1>5
  <2>2. PICK u \in DOMAIN frames_data : v \in GetNextFrameAddress(part, u)
    BY <1>2, <1>5, <2>1 DEF ReachInv
  <2>3. u \in FrameAddress /\ IsValidFrameAddress(part, u)
    BY <1>1, <1>3, <2>2
  <2> QED
    BY <2>2, <2>3 DEF IsReached
<1> QED
  BY <1>4, <1>5 DEF AllReached

\* Where every address is come by, no first one is missing.
LEMMA ReachedIsHeld ==
    ASSUME TypeOK, WalkInv, HeldInv, ReachInv, AllReached,
           frames_pc = "complete", frm_file = <<>>
    PROVE  ValidAddresses(part) = DOMAIN frames_data
<1>1. /\ IsPart(part) /\ DOMAIN frames_data \subseteq FrameAddress
      /\ current = {}
  BY DEF TypeOK, WalkInv
<1>2. Walked = DOMAIN frames_data
  BY <1>1 DEF Walked
<1>3. \A a \in DOMAIN frames_data : IsValidFrameAddress(part, a)
  BY DEF HeldInv, AllReached
<1> DEFINE S == {a \in FrameAddress : /\ IsValidFrameAddress(part, a)
                                      /\ a \notin DOMAIN frames_data}
<1>4. S = {}
  <2>1. SUFFICES ASSUME S # {} PROVE FALSE
    OBVIOUS
  <2>2. S \subseteq FrameAddress
    OBVIOUS
  <2> HIDE DEF S
  <2>3. PICK v \in S : \A w \in S : ~Precedes(w, v)
    BY <2>1, <2>2, FirstAddress
  <2>4. /\ v \in FrameAddress /\ IsValidFrameAddress(part, v)
        /\ v \notin DOMAIN frames_data
    BY <2>3 DEF S
  <2>5. v # ZeroAddress
    BY <1>2, <2>4 DEF ReachInv
  <2>6. PICK u \in FrameAddress :
          IsValidFrameAddress(part, u) /\ v \in GetNextFrameAddress(part, u)
    BY <2>4, <2>5 DEF AllReached, IsReached
  <2>7. Precedes(u, v)
    BY <1>1, <2>4, <2>6, NextIsValidAndGreater, PackedPrecedes
  <2>8. u \in DOMAIN frames_data
    BY <2>3, <2>6, <2>7 DEF S
  <2>9. v \in DOMAIN frames_data
    BY <1>2, <2>6, <2>8 DEF ReachInv
  <2> QED
    BY <2>4, <2>9
<1>5. ValidAddresses(part) \subseteq FrameAddress
  BY <1>1, ValidAreAddresses
<1>6. \A a \in FrameAddress :
        a \in ValidAddresses(part) <=> IsValidFrameAddress(part, a)
  BY <1>1, ListedIsValid
<1> QED
  BY <1>1, <1>3, <1>4, <1>5, <1>6

(***************************************************************************)
(* For every part: addMissingFrames, given no frames, inserts one at every *)
(* address of the part and at no other exactly when the part is walkable.  *)
(***************************************************************************)
THEOREM WalkCoversWalkable == Spec => []CompleteExactlyWhenWalkable
<1>1. TypeOK /\ WalkInv /\ HeldInv /\ ReachInv => CompleteExactlyWhenWalkable
  <2>1. SUFFICES ASSUME TypeOK, WalkInv, HeldInv, ReachInv,
                        frames_pc = "complete", frm_file = <<>>
                 PROVE  (ValidAddresses(part) = DOMAIN frames_data) <=> Walkable
    BY DEF CompleteExactlyWhenWalkable
  <2>2. Walkable <=> AllReached
    BY <2>1, WalkableMeansReached DEF TypeOK
  <2> QED
    BY <2>1, <2>2, HeldIsReached, ReachedIsHeld
<1>2. QED
  BY <1>1, InitTypeOK, NextTypeOK, InitWalkInv, NextWalkInv, InitHeldInv,
     NextHeldInv, InitReachInv, NextReachInv, PTL DEF Spec

-----------------------------------------------------------------------------
(***************************************************************************)
(* What a caller that writes the frames relies on: frames are only added,  *)
(* and when the container is complete it has a frame for every address     *)
(* that the walk from address zero comes by, which the file may add to.    *)
(***************************************************************************)
CollectInv ==
    /\ frames_data = [a \in DOMAIN frames_data |-> frames_data[a]]
    /\ frames_pc = "adding" =>
           \E c \in WalkedAddresses(part) :
              current = {c} /\ Before(part, c) \subseteq DOMAIN frames_data
    /\ frames_pc = "complete" => WalkedAddresses(part) \subseteq DOMAIN frames_data

\* Nothing is collected at first.
LEMMA InitCollectInv == Init => CollectInv
<1>1. SUFFICES ASSUME Init PROVE CollectInv
  OBVIOUS
<1>2. frames_data = <<>> /\ frames_pc = "reading"
  BY <1>1 DEF Init
<1>3. frames_data = [a \in DOMAIN frames_data |-> frames_data[a]]
  BY <1>2
<1>4. QED
  BY <1>2, <1>3 DEF CollectInv

\* The frames after an insertion are a map.
LEMMA InsertIsMap ==
    ASSUME NEW map, NEW key, NEW value, map = [k \in DOMAIN map |-> map[k]]
    PROVE  Insert(map, key, value) =
               [k \in DOMAIN Insert(map, key, value) |-> Insert(map, key, value)[k]]
<1>1. CASE key \in DOMAIN map
  BY <1>1 DEF Insert
<1>2. CASE key \notin DOMAIN map
  BY <1>2 DEF Insert, Assign
<1>3. QED
  BY <1>1, <1>2

\* Every step of the container keeps CollectInv.
LEMMA NextCollectInv == TypeOK /\ CollectInv /\ [Next]_vars => CollectInv'
<1>1. SUFFICES ASSUME TypeOK, CollectInv, [Next]_vars PROVE CollectInv'
  OBVIOUS
<1>2. CASE readFrames
  <2>1. /\ part' = part /\ frames_pc' \notin {"adding", "complete"}
        /\ \/ frames_data' = frames_data
           \/ \E key, value : frames_data' = Insert(frames_data, key, value)
    BY <1>2
       DEF readFrames, FailToOpen, SkipComment, AbortOnMalformedLine,
           RejectUnknownAddress, SkipWrongWordCount, InsertFrame, EndOfFile,
           GetLine
  <2>2. frames_data' = [a \in DOMAIN frames_data' |-> frames_data'[a]]
    BY <1>1, <2>1, InsertIsMap DEF CollectInv
  <2>3. QED
    BY <2>1, <2>2 DEF CollectInv
<1>3. CASE BeginAddMissing
  <2>1. /\ part' = part /\ frames_data' = frames_data
        /\ current' = {ZeroAddress} /\ frames_pc' = "adding"
    BY <1>3 DEF BeginAddMissing
  <2>2. IsPart(part)
    BY <1>1 DEF TypeOK
  <2>3. ZeroAddress \in WalkedAddresses(part) /\ Before(part, ZeroAddress) = {}
    BY <2>2, NothingBeforeZero
  <2>4. QED
    BY <1>1, <2>1, <2>3 DEF CollectInv
<1>4. CASE AddMissing
  <2>1. PICK a \in current : /\ frames_data' = Insert(frames_data, a, ZeroFrame)
                             /\ current' = GetNextFrameAddress(part, a)
    BY <1>4 DEF AddMissing
  <2>2. /\ part' = part /\ frames_pc = "adding"
        /\ frames_pc' = IF current' = {} THEN "complete" ELSE "adding"
    BY <1>4 DEF AddMissing
  <2>3. IsPart(part)
    BY <1>1 DEF TypeOK
  <2>4. a \in WalkedAddresses(part) /\ Before(part, a) \subseteq DOMAIN frames_data
    BY <1>1, <2>1, <2>2 DEF CollectInv
  <2>5. DOMAIN frames_data' = DOMAIN frames_data \union {a}
    BY <2>1, InsertProperties
  <2>6. frames_data' = [b \in DOMAIN frames_data' |-> frames_data'[b]]
    BY <1>1, <2>1, InsertIsMap DEF CollectInv
  <2>7. CASE current' = {}
    <3>1. WalkedAddresses(part) = Before(part, a) \union {a}
      BY <2>1, <2>3, <2>4, <2>7, WalkStep
    <3>2. QED
      BY <2>2, <2>4, <2>5, <2>6, <2>7, <3>1 DEF CollectInv
  <2>8. CASE current' # {}
    <3>1. PICK n \in current' : TRUE
      BY <2>8
    <3>2. /\ n \in WalkedAddresses(part)
          /\ Before(part, n) = Before(part, a) \union {a}
      BY <2>1, <2>3, <2>4, <3>1, WalkStep
    <3>3. current' = {n}
      <4>1. IsOptional(current')
        BY <2>1, <2>3, <2>4, WalkStep, NextIsOptional
      <4>2. QED
        BY <3>1, <4>1 DEF IsOptional
    <3>4. Before(part, n) \subseteq DOMAIN frames_data'
      BY <2>4, <2>5, <3>2
    <3>5. QED
      BY <2>2, <2>6, <2>8, <3>2, <3>3, <3>4 DEF CollectInv
  <2>9. QED
    BY <2>7, <2>8
<1>5. CASE UNCHANGED vars
  BY <1>1, <1>5 DEF vars, CollectInv
<1>6. QED
  BY <1>1, <1>2, <1>3, <1>4, <1>5 DEF Next, addMissingFrames

=============================================================================

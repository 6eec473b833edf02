-------------------------- MODULE TagSolvers_proofs --------------------------
(***************************************************************************)
(* What segmatch and correlate_segdata make of the files, for every input. *)
(* First segmatch: its lines are those of the text of the files.  Then     *)
(* correlate_segdata: what it has of the files once they are parsed, the   *)
(* bits that it leaves to each feature, in whatever order the features are *)
(* taken, and that they are the candidates of segmatch wherever the two    *)
(* read the files alike.                                                   *)
(***************************************************************************)
EXTENDS TagSolvers, FiniteSetTheorems, TLAPS

Segment(n) == [bits : SUBSET (0..(n - 1)), tags1 : SUBSET Nat, tags0 : SUBSET Nat]

\* The bits of every segment have ids.
DataInv ==
    /\ \E S : bit_ids \in Seq(S)
    /\ \E S : tag_ids \in Seq(S)
    /\ segdata \in [DOMAIN segdata -> Segment(Len(bit_ids))]

\* What the visited segments leave of the mask, and whether one has the tag.
LoopInv ==
    /\ todo \subseteq DOMAIN segdata
    /\ mask = {b \in Ones(Len(bit_ids)) :
                  \A s \in DOMAIN segdata \ todo :
                     /\ Has1(s, tag_idx) => b \in segdata[s].bits
                     /\ Has0(s, tag_idx) => b \notin segdata[s].bits}
    /\ count1 = 0 <=> \A s \in DOMAIN segdata \ todo : ~Has1(s, tag_idx)

IInv ==
    /\ DataInv
    /\ tag_idx \in Nat /\ count1 \in Nat
    /\ pc \in {"reading", "naming", "failed", "aborted"} =>
          out_lines = {} /\ tag_idx = 0
    /\ pc = "matching" => LoopInv
    /\ TrueCandidates

-----------------------------------------------------------------------------

\* A bool_vec of n bits has at least n bits (bool_vec(n, true)).
LEMMA OnesCover ==
  ASSUME NEW n \in Nat PROVE 0..(n - 1) \subseteq Ones(n)
<1> DEFINE q == (n + WordBits - 1) \div WordBits
<1>1. WordBits \in Nat /\ WordBits > 0
  BY SegmatchAssumption
<1>2. q \in Int /\ q * WordBits + ((n + WordBits - 1) % WordBits)
                      = n + WordBits - 1
  BY <1>1
<1>3. (n + WordBits - 1) % WordBits \in 0..(WordBits - 1)
  BY <1>1
<1>4. Capacity(n) \in Int /\ Capacity(n) >= n
  BY <1>1, <1>2, <1>3 DEF Capacity
<1> QED
  BY <1>4 DEF Ones

\* A name gets an id, and names that had one keep theirs in range.
LEMMA IdsGrow ==
  ASSUME NEW S, NEW ids \in Seq(S), NEW name
  PROVE  /\ WithId(ids, name) \in Seq(S \union {name})
         /\ Len(WithId(ids, name)) \in Nat
         /\ Len(ids) \in Nat
         /\ Len(WithId(ids, name)) >= Len(ids)
         /\ IdOf(WithId(ids, name), name) \in 0..(Len(WithId(ids, name)) - 1)
<1> DEFINE new == WithId(ids, name)
<1>1. ids \in Seq(S \union {name})
  OBVIOUS
<1>2. /\ new \in Seq(S \union {name}) /\ Len(new) >= Len(ids)
      /\ \E i \in DOMAIN new : new[i] = name
  BY <1>1 DEF WithId
<1>3. (CHOOSE i \in DOMAIN new : new[i] = name) \in DOMAIN new
  BY <1>2
<1> QED
  BY <1>2, <1>3 DEF IdOf

-----------------------------------------------------------------------------

\* There is no segment and no line.
LEMMA InitIInv == ASSUME Init PROVE IInv
<1>1. DataInv
  <2>1. bit_ids \in Seq({}) /\ tag_ids \in Seq({})
    BY DEF Init
  <2>2. segdata \in [DOMAIN segdata -> Segment(Len(bit_ids))]
    BY DEF Init
  <2> QED BY <2>1, <2>2 DEF DataInv
<1>2. TrueCandidates
  BY DEF Init, TrueCandidates, SolvedTags
<1> QED
  BY <1>1, <1>2 DEF Init, IInv

\* Another name is tried: no segment changes.
LEMMA RenameStep == ASSUME IInv, Rename PROVE IInv'
BY DEF Rename, IInv, DataInv, TrueCandidates, SolvedTags, Has1, Has0,
       Determining, input_vars, data_vars, match_vars

\* A segment without bits is added.
LEMMA NameSegmentStep == ASSUME IInv, NameSegment PROVE IInv'
<1>1. out_lines' = {} /\ tag_idx' = 0 /\ count1' = count1 /\ pc' = "reading"
  BY DEF NameSegment, IInv, match_vars
<1>2. Segment(Len(bit_ids))' = Segment(Len(bit_ids))
  BY DEF NameSegment
<1>3. EmptySegment \in Segment(Len(bit_ids))
  BY DEF EmptySegment, Segment
<1>4. DataInv'
  BY <1>2, <1>3 DEF NameSegment, IInv, DataInv, Assign
<1>5. TrueCandidates'
  BY <1>1 DEF TrueCandidates, SolvedTags
<1> QED
  BY <1>1, <1>4, <1>5 DEF IInv

\* A name is read: no segment changes.
LEMMA ReadSegStep == ASSUME IInv, ReadSeg PROVE IInv'
BY DEF ReadSeg, TakeItem, IInv, DataInv, TrueCandidates, SolvedTags, Has1,
       Has0, Determining, input_vars, data_vars, match_vars

\* A bit is set, whose id is one of those there are.
LEMMA ReadBitStep == ASSUME IInv, ReadBit PROVE IInv'
<1>1. out_lines' = {} /\ tag_idx' = 0 /\ count1' = count1 /\ pc' = "reading"
  BY DEF ReadBit, TakeItem, IInv, match_vars
<1>2. DataInv'
  <2>1. PICK S : bit_ids \in Seq(S)
    BY DEF IInv, DataInv
  <2>2. PICK name : bit_ids' = WithId(bit_ids, name)
                    /\ \E s \in segptr :
                          segdata' = [segdata EXCEPT ![s] =
                                           Set(@, IdOf(bit_ids', name))]
    BY DEF ReadBit
  <2> DEFINE n == Len(bit_ids)
             m == Len(bit_ids')
             id == IdOf(bit_ids', name)
  <2>3. /\ bit_ids' \in Seq(S \union {name}) /\ m \in Nat /\ n \in Nat /\ m >= n
        /\ id \in 0..(m - 1)
    BY <2>1, <2>2, IdsGrow
  <2>4. Segment(n) \subseteq Segment(m)
    BY <2>3 DEF Segment
  <2>5. PICK s : segdata' = [segdata EXCEPT ![s] = Set(@, id)]
    BY <2>2
  <2> HIDE DEF n, m, id
  <2>6. segdata \in [DOMAIN segdata -> Segment(m)]
    BY <2>4 DEF IInv, DataInv, n
  <2>7. \A g \in Segment(m) : Set(g, id) \in Segment(m)
    BY <2>3 DEF Segment, Set
  <2>8. segdata' \in [DOMAIN segdata' -> Segment(m)]
    BY <2>5, <2>6, <2>7
  <2>9. tag_ids' = tag_ids
    BY DEF ReadBit
  <2> QED
    BY <2>3, <2>8, <2>9 DEF DataInv, IInv, m
<1>3. TrueCandidates'
  BY <1>1 DEF TrueCandidates, SolvedTags
<1> QED
  BY <1>1, <1>2, <1>3 DEF IInv

\* A tag is known in a segment.
LEMMA ReadTagStep == ASSUME IInv, ReadTag PROVE IInv'
<1>1. out_lines' = {} /\ tag_idx' = 0 /\ count1' = count1 /\ pc' = "reading"
  BY DEF ReadTag, TakeItem, IInv, match_vars
<1>2. bit_ids' = bit_ids
  BY DEF ReadTag
<1>3. PICK S : tag_ids \in Seq(S)
  BY DEF IInv, DataInv
<1> DEFINE name == Item.name
           one == WithId(tag_ids, name)
           both == WithId(one, InverseTag(name))
<1>4. /\ one \in Seq(S \union {name})
      /\ IdOf(one, name) \in Nat
  BY <1>3, IdsGrow
<1>5. /\ both \in Seq(S \union {name} \union {InverseTag(name)})
      /\ IdOf(both, InverseTag(name)) \in Nat
  <2> DEFINE T == S \union {name}
  <2>1. one \in Seq(T)
    BY <1>4
  <2> HIDE DEF one, name, T
  <2>2. /\ both \in Seq(T \union {InverseTag(name)})
        /\ Len(both) \in Nat
        /\ IdOf(both, InverseTag(name)) \in 0..(Len(both) - 1)
    BY <2>1, IdsGrow
  <2>3. IdOf(both, InverseTag(name)) \in Nat
    <3> HIDE DEF both
    <3> QED BY <2>2
  <2> QED BY <2>2, <2>3 DEF T
<1>6. IdOf(both, name) \in Nat
  <2>1. \E i \in DOMAIN one : one[i] = name
    <3>1. tag_ids \in Seq(S \union {name})
      BY <1>3
    <3> HIDE DEF name
    <3> QED BY <1>3, <3>1 DEF WithId, one
  <2>2. one \in Seq(S \union {name} \union {InverseTag(name)})
    <3> HIDE DEF one, name
    <3> QED BY <1>4
  <2>3. \E i \in DOMAIN both : both[i] = name
    <3> HIDE DEF one, name
    <3> QED BY <2>1, <2>2 DEF WithId
  <2>4. (CHOOSE i \in DOMAIN both : both[i] = name) \in DOMAIN both
    BY <2>3
  <2>5. DOMAIN both \subseteq Nat \ {0}
    <3> HIDE DEF both, one, name
    <3> QED BY <1>5
  <2> HIDE DEF both, name
  <2> QED BY <2>4, <2>5 DEF IdOf
<1>7. (\E T : tag_ids' \in Seq(T)) /\ IdOf(tag_ids', name) \in Nat
      /\ (flags.i => IdOf(tag_ids', InverseTag(name)) \in Nat)
  <2>1. tag_ids' = IF flags.i THEN both ELSE one
    BY DEF ReadTag
  <2> HIDE DEF both, one, name
  <2> QED BY <2>1, <1>4, <1>5, <1>6
<1>8. \E ones, zeros \in SUBSET Nat, s \in segptr :
         segdata' = [segdata EXCEPT ![s] = Tagged(@, ones, zeros)]
  <2> DEFINE this == {IdOf(tag_ids', name)}
             that == IF flags.i THEN {IdOf(tag_ids', InverseTag(name))} ELSE {}
  <2>1. this \in SUBSET Nat /\ that \in SUBSET Nat
    BY <1>7
  <2>2. PICK s \in segptr :
           segdata' = [segdata EXCEPT ![s] = IF Item.value = "1"
                                             THEN Tagged(@, this, that)
                                             ELSE Tagged(@, that, this)]
    BY DEF ReadTag
  <2> HIDE DEF this, that
  <2>3. CASE Item.value = "1"
    BY <2>1, <2>2, <2>3
  <2>4. CASE Item.value # "1"
    BY <2>1, <2>2, <2>4
  <2> QED BY <2>3, <2>4
<1>9. segdata' \in [DOMAIN segdata' -> Segment(Len(bit_ids))]
  <2>1. PICK ones, zeros, s : /\ ones \in SUBSET Nat /\ zeros \in SUBSET Nat
           /\ segdata' = [segdata EXCEPT ![s] = Tagged(@, ones, zeros)]
    BY <1>8
  <2>2. \A g \in Segment(Len(bit_ids)) :
           Tagged(g, ones, zeros) \in Segment(Len(bit_ids))
    BY <2>1 DEF Segment, Tagged
  <2> QED
    BY <2>1, <2>2 DEF IInv, DataInv
<1>10. DataInv'
  BY <1>2, <1>3, <1>7, <1>9 DEF DataInv, IInv
<1>11. TrueCandidates'
  BY <1>1 DEF TrueCandidates, SolvedTags
<1> QED
  BY <1>1, <1>10, <1>11 DEF IInv

\* Reading goes on or stops: no segment changes.
LEMMA ReadingStep ==
  ASSUME IInv, MissingFile \/ AbortReading \/ EndOfFile PROVE IInv'
<1>1. /\ UNCHANGED <<data_vars, tag_idx, match_vars, out_lines>>
      /\ pc = "reading" /\ pc' # "matching"
  BY DEF MissingFile, AbortReading, EndOfFile, TakeItem
<1> QED
  BY <1>1 DEF IInv, DataInv, TrueCandidates, SolvedTags, Has1, Has0,
              Determining, data_vars, match_vars

\* No segment has been visited.
LEMMA BeginTagStep == ASSUME IInv, BeginTag PROVE IInv'
<1>1. /\ mask' = Ones(Len(bit_ids')) /\ todo' = DOMAIN segdata'
      /\ count1' = 0 /\ pc' = "matching"
      /\ UNCHANGED <<data_vars, tag_idx, out_lines>>
  BY DEF BeginTag, data_vars
<1>2. LoopInv'
  BY <1>1 DEF LoopInv
<1> QED
  BY <1>1, <1>2 DEF IInv, DataInv, TrueCandidates, SolvedTags, Has1, Has0,
                    Determining, data_vars

\* A visit of one segment, whatever its tag.
LEMMA VisitStep ==
  ASSUME IInv, MatchOne \/ MatchZero \/ SkipSegment PROVE IInv'
<1>1. /\ pc = "matching" /\ pc' = "matching"
      /\ UNCHANGED <<data_vars, tag_idx, out_lines>>
  BY DEF MatchOne, MatchZero, SkipSegment, Matching
<1>2. LoopInv
  BY <1>1 DEF IInv
<1>3. LoopInv' /\ count1' \in Nat
  <2>1. CASE MatchOne
    <3>1. PICK s \in todo : Has1(s, tag_idx) /\ todo' = todo \ {s}
                   /\ mask' = mask \intersect segdata[s].bits
      BY <2>1 DEF MatchOne
    <3>2. count1' \in Nat /\ count1' # 0
      BY <2>1 DEF MatchOne, IInv
    <3>3. DOMAIN segdata \ todo' = (DOMAIN segdata \ todo) \union {s}
      BY <1>2, <3>1 DEF LoopInv
    <3> QED
      BY <1>1, <1>2, <3>1, <3>2, <3>3 DEF LoopInv, IInv, Has1, Has0, data_vars
  <2>2. CASE MatchZero
    <3>1. PICK s \in todo : Has0(s, tag_idx) /\ todo' = todo \ {s}
                   /\ mask' = mask \ segdata[s].bits
      BY <2>2 DEF MatchZero
    <3>2. count1' = count1
      BY <2>2 DEF MatchZero, IInv
    <3>3. DOMAIN segdata \ todo' = (DOMAIN segdata \ todo) \union {s}
      BY <1>2, <3>1 DEF LoopInv
    <3> QED
      BY <1>1, <1>2, <3>1, <3>2, <3>3 DEF LoopInv, IInv, Has1, Has0, data_vars
  <2>3. CASE SkipSegment
    <3>1. PICK s \in todo : ~Has1(s, tag_idx) /\ ~Has0(s, tag_idx) 
                          /\ todo' = todo \ {s} /\ mask' = mask
      BY <2>3 DEF SkipSegment
    <3>2. count1' = count1
      BY <2>3 DEF SkipSegment, IInv
    <3>3. DOMAIN segdata \ todo' = (DOMAIN segdata \ todo) \union {s}
      BY <1>2, <3>1 DEF LoopInv
    <3> QED
      BY <1>1, <1>2, <3>1, <3>2, <3>3 DEF LoopInv, IInv, Has1, Has0, data_vars
  <2> QED BY <2>1, <2>2, <2>3
<1> QED
  BY <1>1, <1>3 DEF IInv, DataInv, TrueCandidates, SolvedTags, Has1, Has0,
                    Determining, data_vars

\* When every segment has been visited and one has the tag, the mask is what
\* the line is to say: the bits after the last one are in no segment.
LEMMA MaskIsDetermining ==
  ASSUME IInv, pc = "matching", todo = {}, count1 # 0
  PROVE  mask = Determining(tag_idx)
<1>1. PICK S : bit_ids \in Seq(S)
  BY DEF IInv, DataInv
<1>2. Len(bit_ids) \in Nat
  BY <1>1
<1>3. 0..(Len(bit_ids) - 1) \subseteq Ones(Len(bit_ids))
  BY <1>2, OnesCover
<1>4. PICK s \in DOMAIN segdata : Has1(s, tag_idx)
  BY DEF IInv, LoopInv
<1>5. segdata[s].bits \subseteq 0..(Len(bit_ids) - 1)
  BY DEF IInv, DataInv, Segment
<1> QED
  BY <1>3, <1>4, <1>5 DEF IInv, LoopInv, Determining

\* Every segment has been visited: the line is true.
LEMMA EndTagStep == ASSUME IInv, EndTag PROVE IInv'
<1> DEFINE text == [tag |-> tag_idx, notes |-> Notes,
                    candidates |-> IF count1 = 0 THEN {} ELSE mask,
                    listed |-> count1 # 0 /\ IsListed(Cardinality(mask))]
<1>1. /\ UNCHANGED data_vars /\ count1' = count1 /\ todo = {}
      /\ out_lines' = out_lines \union {text} /\ tag_idx' = tag_idx + 1
      /\ pc' = "solving" /\ LoopInv
  BY DEF EndTag, IInv, match_vars
<1>2. /\ text.tag = tag_idx
      /\ text.candidates = IF count1 = 0 THEN {} ELSE mask
      /\ "const0" \in text.notes <=> count1 = 0
  BY DEF Notes
<1>3. count1 = 0 <=> \A s \in DOMAIN segdata : ~Has1(s, tag_idx)
  BY <1>1 DEF LoopInv
<1>4. ASSUME count1 # 0 PROVE mask = Determining(tag_idx)
  <2>1. pc = "matching"
    BY DEF EndTag
  <2> QED BY <2>1, <1>1, <1>4, MaskIsDetermining
<1>5. \A l \in out_lines' : l \in out_lines \/ l = text
  BY <1>1
<1> HIDE DEF text
<1>6. {l.tag : l \in out_lines'} = SolvedTags'
  <2>1. {l.tag : l \in out_lines} = 0..(tag_idx - 1) /\ tag_idx \in Nat
    BY DEF IInv, TrueCandidates, SolvedTags
  <2>2. {l.tag : l \in out_lines'} = {l.tag : l \in out_lines} \union {tag_idx}
    BY <1>1, <1>2
  <2>3. 0..((tag_idx + 1) - 1) = 0..(tag_idx - 1) \union {tag_idx}
    BY <2>1
  <2> QED BY <1>1, <2>1, <2>2, <2>3 DEF SolvedTags
<1>7. ASSUME NEW l \in out_lines'
      PROVE  /\ "const0" \in l.notes
                   <=> \A s \in DOMAIN segdata : ~Has1(s, l.tag)
             /\ "const0" \notin l.notes => l.candidates = Determining(l.tag)
             /\ "const0" \in l.notes => l.candidates = {}
  <2>1. CASE l \in out_lines
    BY <2>1 DEF IInv, TrueCandidates
  <2>2. CASE l = text
    BY <1>2, <1>3, <1>4, <2>2
  <2> QED BY <1>5, <2>1, <2>2
<1>8. TrueCandidates'
  BY <1>1, <1>6, <1>7 DEF TrueCandidates, Has1, Has0, Determining, data_vars
<1> QED
  BY <1>1, <1>8 DEF IInv, DataInv, data_vars

\* Nothing changes.
LEMMA FinishStep == ASSUME IInv, Finish \/ UNCHANGED vars PROVE IInv'
<1>1. CASE Finish
  <2>1. UNCHANGED <<data_vars, tag_idx, match_vars, out_lines>> /\ pc' = "done"
    BY <1>1 DEF Finish
  <2> QED
    BY <2>1 DEF IInv, DataInv, TrueCandidates, SolvedTags, Has1, Has0,
                Determining, data_vars, match_vars
<1>2. CASE UNCHANGED vars
  BY <1>2 DEF IInv, DataInv, LoopInv, TrueCandidates, SolvedTags, Has1, Has0,
              Determining, vars, data_vars, match_vars
<1> QED BY <1>1, <1>2

\* Every step of the program keeps its lines true.
LEMMA NextIInv == ASSUME IInv, [Next]_vars PROVE IInv'
BY ReadSegStep, RenameStep, NameSegmentStep, ReadBitStep, ReadTagStep,
   ReadingStep, BeginTagStep, VisitStep, EndTagStep, FinishStep
   DEF Next, read_input, match

\* The lines of segmatch say of each tag, in turn, whether it is 1 in some
\* segment, and if so exactly the bits that agree with it in all of them (main).
THEOREM CandidatesAreTrue == Spec => []TrueCandidates
<1>1. Init => IInv
  BY InitIInv
<1>2. IInv /\ [Next]_vars => IInv'
  BY NextIInv
<1>3. IInv => TrueCandidates
  BY DEF IInv
<1> QED
  BY <1>1, <1>2, <1>3, PTL DEF Spec

-----------------------------------------------------------------------------

\* The places of the lines in the files, and the line at one.
Places == UNION {{<<f, k>> : k \in DOMAIN files[f].items} : f \in DOMAIN files}

At(p) == files[p[1]].items[p[2]]

\* The line starts a segment, and no other one starts up to another line.
LastBefore(p, i) ==
    /\ At(<<p[1], i>>).kind = "seg"
    /\ \A h \in (i + 1)..p[2] : At(<<p[1], h>>).kind # "seg"

\* The places of the items read so far, and of the next one.
Taken == {p \in Places : \/ p[1] <= file
                         \/ p[1] = file + 1 /\ p[2] <= item}

Coming == <<file + 1, item + 1>>

\* Where the segments start that have a name.
Named ==
    {p \in Taken : /\ At(p).kind = "seg"
                   /\ ~(pc = "naming" /\ p = <<file + 1, item>>)}

\* Where the segment starts that the next item is in, if it is in one.
Current ==
    {<<file + 1, i>> : i \in {k \in 1..item : LastBefore(<<file + 1, item>>, k)}}

\* The items of a segment read so far.
ContentTaken(s) ==
    {At(p) : p \in {q \in Taken :
        q[1] = s[1] /\ s[2] < q[2] /\ LastBefore(q, s[2])}}

\* The tags that items say to be 1, and those that they say to be 0, with the
\* inverse ones if there are any.
OnesIn(content, inverse) ==
    {t.name : t \in {u \in content : u.kind = "tag" /\ u.value = "1"}}
        \union {InverseTag(t.name) : t \in {u \in content :
                    u.kind = "tag" /\ inverse /\ u.value # "1"}}

ZerosIn(content, inverse) ==
    {t.name : t \in {u \in content : u.kind = "tag" /\ u.value # "1"}}
        \union {InverseTag(t.name) : t \in {u \in content :
                    u.kind = "tag" /\ inverse /\ u.value = "1"}}

TagsIn(content, inverse) ==
    OnesIn(content, inverse) \union ZerosIn(content, inverse)

IdsOf(ids, names) == {IdOf(ids, n) : n \in names}

\* What segmatch makes of the items of a segment.
SegmentOf(content, bits, tags, inverse) ==
    [bits  |-> IdsOf(bits, BitsIn(content)),
     tags1 |-> IdsOf(tags, OnesIn(content, inverse)),
     tags0 |-> IdsOf(tags, ZerosIn(content, inverse))]

BitsTaken == UNION {BitsIn(ContentTaken(s)) : s \in Named}

TagsTaken == UNION {TagsIn(ContentTaken(s), flags.i) : s \in Named}

\* The ids are those of the names, each of which has one.
Identify(ids, names) ==
    /\ ids \in Seq(names)
    /\ \A n \in names : \E i \in DOMAIN ids : ids[i] = n
    /\ \A i, j \in DOMAIN ids : ids[i] = ids[j] => i = j

\* Each segment of the program is one of the files, under a name of its own.
Corresponds(h) ==
    /\ \A k \in DOMAIN segdata :
           segdata[k] = SegmentOf(ContentTaken(h[k]), bit_ids, tag_ids, flags.i)
    /\ pc = "reading" /\ file < Len(files) =>
           segptr = {k \in DOMAIN segdata : h[k] \in Current}

FileInv ==
    /\ file \in Nat /\ item \in Nat
    /\ file < Len(files) => item <= Len(files[file + 1].items)
    /\ pc \in {"reading", "naming"} => file <= Len(files)
    /\ pc = "naming" =>
           /\ file < Len(files) /\ item > 0
           /\ At(<<file + 1, item>>).kind = "seg"
    /\ pc \in {"solving", "matching", "done"} => file = Len(files)
    /\ Identify(bit_ids, BitsTaken)
    /\ Identify(tag_ids, TagsTaken)
    /\ \E h \in Bijection(DOMAIN segdata, Named) : Corresponds(h)

\* The line of a tag, worked out from the segments.
LineFrom(tag) ==
    LET c1 == Cardinality({s \in DOMAIN segdata : Has1(s, tag)})
        c0 == Cardinality({s \in DOMAIN segdata : Has0(s, tag)})
    IN [tag |-> tag,
        notes |-> (IF c1 < flags.m THEN {"m1"} ELSE {})
                     \union (IF c0 < flags.m THEN {"m0"} ELSE {})
                     \union (IF c1 + c0 < flags.M THEN {"M"} ELSE {})
                     \union (IF c1 = 0 THEN {"const0"} ELSE {})
                     \union (IF c1 # 0 /\ c0 = 0 THEN {"const1"} ELSE {}),
        candidates |-> IF c1 = 0 THEN {} ELSE Determining(tag),
        listed |-> c1 # 0 /\ IsListed(Cardinality(Determining(tag)))]

CountInv ==
    /\ IsFiniteSet(DOMAIN segdata)
    /\ pc = "matching" =>
           /\ count1 =
                  Cardinality({s \in DOMAIN segdata \ todo : Has1(s, tag_idx)})
           /\ count0 =
                  Cardinality({s \in DOMAIN segdata \ todo : Has0(s, tag_idx)})
    /\ \A l \in out_lines : l = LineFrom(l.tag)

FilesInv ==
    /\ files \in Inputs /\ flags \in Flags
    /\ IInv /\ CountInv
    /\ pc \notin {"failed", "aborted"} => FileInv
    /\ pc = "done" => tag_idx = Len(tag_ids)

\* A file is a sequence of lines.
LEMMA Sequences ==
  ASSUME files \in Inputs
  PROVE  /\ Len(files) \in Nat /\ DOMAIN files = 1..Len(files)
         /\ \A f \in DOMAIN files :
               /\ Len(files[f].items) \in Nat
               /\ DOMAIN files[f].items = 1..Len(files[f].items)
<1>1. ASSUME NEW s, IsSequence(s)
      PROVE  Len(s) \in Nat /\ DOMAIN s = 1..Len(s)
  <2> DEFINE S == {s[i] : i \in DOMAIN s}
  <2>1. s \in Seq(S)
    BY <1>1 DEF IsSequence
  <2> HIDE DEF S
  <2> QED BY <2>1
<1>2. IsSequence(files) /\ \A f \in DOMAIN files : IsSequence(files[f].items)
  BY InputsAssumption
<1> QED BY <1>1, <1>2

\* The places are pairs of a file and a line of it.
LEMMA Place ==
  ASSUME files \in Inputs
  PROVE  /\ \A f \in 1..Len(files) : \A k \in 1..Len(files[f].items) :
               <<f, k>> \in Places
         /\ \A p \in Places :
               /\ p[1] \in 1..Len(files) /\ p[2] \in 1..Len(files[p[1]].items)
               /\ p[1] \in Nat /\ p[2] \in Nat
               /\ p = <<p[1], p[2]>>
<1>1. /\ DOMAIN files = 1..Len(files) /\ Len(files) \in Nat
      /\ \A f \in DOMAIN files :
             /\ DOMAIN files[f].items = 1..Len(files[f].items)
             /\ Len(files[f].items) \in Nat
  BY Sequences
<1>2. \A f \in 1..Len(files) : \A k \in 1..Len(files[f].items) :
         <<f, k>> \in Places
  BY <1>1 DEF Places
<1>3. ASSUME NEW p \in Places
      PROVE  /\ p[1] \in 1..Len(files) /\ p[2] \in 1..Len(files[p[1]].items)
             /\ p[1] \in Nat /\ p[2] \in Nat
             /\ p = <<p[1], p[2]>>
  <2>1. PICK f \in DOMAIN files : \E k \in DOMAIN files[f].items : p = <<f, k>>
    BY DEF Places
  <2>2. PICK k \in DOMAIN files[f].items : p = <<f, k>>
    BY <2>1
  <2>3. f \in 1..Len(files) /\ k \in 1..Len(files[f].items)
        /\ Len(files) \in Nat /\ Len(files[f].items) \in Nat
    BY <1>1, <2>2
  <2>4. f \in Nat /\ k \in Nat
    BY <2>3
  <2>5. p[1] = f /\ p[2] = k
    BY <2>2
  <2> QED BY <2>2, <2>3, <2>4, <2>5
<1> QED BY <1>2, <1>3

-----------------------------------------------------------------------------

\* A name is at its id in the names.
LEMMA IdOfName ==
  ASSUME NEW names, NEW ids, Identify(ids, names)
  PROVE  /\ Len(ids) \in Nat /\ DOMAIN ids = 1..Len(ids)
         /\ \A n \in names : /\ IdOf(ids, n) \in 0..(Len(ids) - 1)
                             /\ ids[IdOf(ids, n) + 1] = n
         /\ \A i \in 0..(Len(ids) - 1) : /\ ids[i + 1] \in names
                                         /\ IdOf(ids, ids[i + 1]) = i
<1>1. ids \in Seq(names) /\ Len(ids) \in Nat /\ DOMAIN ids = 1..Len(ids)
  BY DEF Identify
<1>2. ASSUME NEW n \in names
      PROVE  IdOf(ids, n) \in 0..(Len(ids) - 1) /\ ids[IdOf(ids, n) + 1] = n
  <2> DEFINE j == CHOOSE i \in DOMAIN ids : ids[i] = n
  <2>1. j \in DOMAIN ids /\ ids[j] = n
    BY DEF Identify
  <2>2. IdOf(ids, n) = j - 1
    BY DEF IdOf
  <2> HIDE DEF j
  <2>3. j - 1 \in 0..(Len(ids) - 1) /\ (j - 1) + 1 = j
    BY <2>1, <1>1
  <2> QED BY <2>1, <2>2, <2>3
<1>3. ASSUME NEW i \in 0..(Len(ids) - 1)
      PROVE  ids[i + 1] \in names /\ IdOf(ids, ids[i + 1]) = i
  <2>1. i + 1 \in DOMAIN ids /\ i \in Int
    BY <1>1
  <2>2. ids[i + 1] \in names
    BY <2>1, <1>1
  <2> DEFINE n == ids[i + 1]
             j == CHOOSE k \in DOMAIN ids : ids[k] = n
  <2>3. j \in DOMAIN ids /\ ids[j] = n
    BY <2>1
  <2>4. IdOf(ids, n) = j - 1
    BY DEF IdOf
  <2>5. j = i + 1
    <3> HIDE DEF j
    <3> QED BY <2>1, <2>3 DEF Identify
  <2> HIDE DEF j, n
  <2>6. IdOf(ids, n) = i
    BY <2>1, <2>4, <2>5
  <2> QED BY <2>2, <2>6 DEF n
<1> QED BY <1>1, <1>2, <1>3

\* A new name gets an id, and the others keep theirs.
LEMMA WithIdOfName ==
  ASSUME NEW names, NEW ids, Identify(ids, names), NEW name
  PROVE  /\ Identify(WithId(ids, name), names \union {name})
         /\ \A n \in names : IdOf(WithId(ids, name), n) = IdOf(ids, n)
<1> DEFINE new == WithId(ids, name)
           all == names \union {name}
<1>1. ids \in Seq(names) /\ Len(ids) \in Nat /\ DOMAIN ids = 1..Len(ids)
  BY DEF Identify
<1>2. ids \in Seq(all)
  BY <1>1
<1>3. CASE \E i \in DOMAIN ids : ids[i] = name
  <2>1. new = ids
    BY <1>3 DEF WithId
  <2>2. all = names
    BY <1>1, <1>3
  <2> QED BY <2>1, <2>2
<1>4. CASE ~\E i \in DOMAIN ids : ids[i] = name
  <2>1. new = Append(ids, name)
    BY <1>4 DEF WithId
  <2> HIDE DEF new, all
  <2>2. /\ new \in Seq(all) /\ Len(new) = Len(ids) + 1
        /\ DOMAIN new = 1..(Len(ids) + 1)
        /\ new[Len(ids) + 1] = name
        /\ \A i \in 1..Len(ids) : new[i] = ids[i]
    <3>1. name \in all
      BY DEF all
    <3> QED BY <2>1, <3>1, <1>1, <1>2
  <2>3. DOMAIN new = DOMAIN ids \union {Len(ids) + 1}
    BY <2>2, <1>1
  <2>4. \A i, j \in DOMAIN new : new[i] = new[j] => i = j
    BY <2>2, <2>3, <1>1, <1>4 DEF Identify
  <2>5. \A n \in all : \E i \in DOMAIN new : new[i] = n
    BY <2>2, <2>3, <1>1 DEF Identify, all
  <2>6. Identify(new, all)
    BY <2>2, <2>4, <2>5 DEF Identify
  <2>7. ASSUME NEW n \in names PROVE IdOf(new, n) = IdOf(ids, n)
    <3>1. IdOf(ids, n) \in 0..(Len(ids) - 1) /\ ids[IdOf(ids, n) + 1] = n
      BY IdOfName
    <3> DEFINE i == IdOf(ids, n)
    <3> HIDE DEF i
    <3>2. i \in 0..(Len(ids) - 1) /\ ids[i + 1] = n
      BY <3>1 DEF i
    <3>3. new[i + 1] = n /\ i \in 0..(Len(new) - 1)
      BY <3>2, <2>2, <1>1
    <3>4. IdOf(new, new[i + 1]) = i
      BY <3>3, <2>6, IdOfName
    <3> QED BY <3>3, <3>4 DEF i
  <2> QED BY <2>6, <2>7 DEF new, all
<1> QED BY <1>3, <1>4

-----------------------------------------------------------------------------

\* An item is read: the next one, which is in the segment at hand.
LEMMA ItemIsTaken ==
  ASSUME FileInv, files \in Inputs, NEW kind, TakeItem(kind)
  PROVE  /\ files' = files /\ flags' = flags
         /\ file' = file /\ item' = item + 1 /\ pc = "reading"
         /\ file < Len(files) /\ item + 1 <= Len(files[file + 1].items)
         /\ At(Coming) = Item /\ Item.kind = kind
         /\ Coming \in Places /\ Coming \notin Taken
         /\ Taken' = Taken \union {Coming}
<1>1. /\ files' = files /\ flags' = flags /\ file' = file /\ item' = item + 1
      /\ file < Len(files) /\ item < Len(files[file + 1].items)
      /\ Item.kind = kind /\ pc = "reading"
  BY DEF TakeItem, CurrentFile, input_vars
<1>2. file \in Nat /\ item \in Nat
  BY DEF FileInv
<1>3. Len(files) \in Nat /\ file + 1 \in 1..Len(files)
  BY <1>1, <1>2, Sequences
<1>4. /\ Len(files[file + 1].items) \in Nat
      /\ item + 1 \in 1..Len(files[file + 1].items)
      /\ item + 1 <= Len(files[file + 1].items)
  <2>1. Len(files[file + 1].items) \in Nat
    BY <1>3, Sequences
  <2> QED BY <2>1, <1>1, <1>2
<1>5. Coming \in Places
  BY <1>3, <1>4, Place DEF Coming
<1>6. Coming[1] = file + 1 /\ Coming[2] = item + 1
  BY DEF Coming
<1>7. At(Coming) = Item
  BY <1>6 DEF At, Item, CurrentFile
<1>8. Places' = Places
  BY <1>1 DEF Places
<1>9. Coming \notin Taken
  BY <1>2, <1>6 DEF Taken
<1>10. Taken' = Taken \union {Coming}
  <2>1. ASSUME NEW p \in Places
        PROVE  (p[1] <= file \/ (p[1] = file + 1 /\ p[2] <= item + 1))
               <=> \/ p[1] <= file
                   \/ p[1] = file + 1 /\ p[2] <= item
                   \/ p = Coming
    <3>1. p[1] \in Nat /\ p[2] \in Nat /\ p = <<p[1], p[2]>>
      BY Place
    <3>2. p = Coming <=> p[1] = file + 1 /\ p[2] = item + 1
      BY <3>1 DEF Coming
    <3>3. p[2] <= item + 1 <=> p[2] <= item \/ p[2] = item + 1
      BY <3>1, <1>2
    <3> QED BY <3>2, <3>3
  <2>2. Taken' = {p \in Places : \/ p[1] <= file
                                 \/ p[1] = file + 1 /\ p[2] <= item + 1}
    BY <1>1, <1>8 DEF Taken
  <2> QED
    BY <2>1, <2>2, <1>5 DEF Taken
<1> QED
  BY <1>1, <1>4, <1>5, <1>7, <1>9, <1>10

\* What has been read of a segment, with one more item.
LEMMA ContentGrows ==
  ASSUME FileInv, files \in Inputs, NEW kind, TakeItem(kind), NEW s \in Taken
  PROVE  ContentTaken(s)' = ContentTaken(s)
             \union IF kind # "seg" /\ s \in Current THEN {Item} ELSE {}
<1>1. /\ files' = files /\ file \in Nat /\ item \in Nat
      /\ Taken' = Taken \union {Coming}
      /\ At(Coming) = Item /\ Item.kind = kind
      /\ Coming = <<file + 1, item + 1>>
      /\ Coming[1] = file + 1 /\ Coming[2] = item + 1
  BY ItemIsTaken DEF FileInv, Coming
<1> DEFINE before == <<file + 1, item>>
           In(q) == q[1] = s[1] /\ s[2] < q[2] /\ LastBefore(q, s[2])
<1>2. s[1] \in Nat /\ s[2] \in Nat /\ s[2] >= 1 /\ s = <<s[1], s[2]>>
  <2>1. s \in Places
    BY DEF Taken
  <2>2. /\ s[1] \in Nat /\ s[2] \in Nat /\ s = <<s[1], s[2]>>
        /\ s[1] \in 1..Len(files) /\ s[2] \in 1..Len(files[s[1]].items)
    BY <2>1, Place
  <2>3. Len(files[s[1]].items) \in Nat
    BY <2>2, Sequences
  <2> QED BY <2>2, <2>3
<1>3. In(Coming) <=> kind # "seg" /\ s \in Current
  <2>1. ASSUME s[2] <= item
        PROVE  (s[2] + 1)..(item + 1) = ((s[2] + 1)..item) \union {item + 1}
    <3>1. s[2] \in Nat /\ item \in Nat
      BY <1>1, <1>2
    <3> QED BY <3>1, <2>1
  <2>2. LastBefore(Coming, s[2]) <=>
           /\ At(<<file + 1, s[2]>>).kind = "seg"
           /\ \A h \in (s[2] + 1)..(item + 1) : At(<<file + 1, h>>).kind # "seg"
    BY <1>1 DEF LastBefore
  <2>3. before[1] = file + 1 /\ before[2] = item
    OBVIOUS
  <2>4. LastBefore(before, s[2]) <=>
           /\ At(<<file + 1, s[2]>>).kind = "seg"
           /\ \A h \in (s[2] + 1)..item : At(<<file + 1, h>>).kind # "seg"
    BY <2>3 DEF LastBefore
  <2>5. s[2] < item + 1 <=> s[2] <= item
    BY <1>1, <1>2
  <2>6. At(<<file + 1, item + 1>>).kind = kind
    BY <1>1
  <2>7. s \in Current <=> /\ s[1] = file + 1 /\ s[2] \in 1..item
                          /\ LastBefore(before, s[2])
    BY <1>2 DEF Current
  <2>8. s[2] \in 1..item <=> s[2] <= item
    BY <1>1, <1>2
  <2> HIDE DEF before
  <2>9. CASE s[2] <= item
    <3>1. LastBefore(Coming, s[2]) <=> LastBefore(before, s[2]) /\ kind # "seg"
      BY <2>1, <2>2, <2>4, <2>6, <2>9
    <3> QED BY <3>1, <2>5, <2>7, <2>8, <2>9, <1>1
  <2>10. CASE ~(s[2] <= item)
    BY <2>5, <2>7, <2>8, <2>10, <1>1
  <2> QED BY <2>9, <2>10
<1>4. ContentTaken(s) = {At(p) : p \in {q \in Taken : In(q)}}
  BY DEF ContentTaken
<1>5. ContentTaken(s)' = {At(p) : p \in {q \in Taken \union {Coming} : In(q)}}
  BY <1>1 DEF ContentTaken, LastBefore, At
<1> HIDE DEF In
<1> QED
  BY <1>1, <1>3, <1>4, <1>5

\* The segment at hand stays so, while none starts.
LEMMA CurrentStays ==
  ASSUME FileInv, files \in Inputs, NEW kind, TakeItem(kind), kind # "seg"
  PROVE  Current' = Current
<1>1. /\ files' = files /\ file' = file /\ item' = item + 1
      /\ file \in Nat /\ item \in Nat
      /\ At(<<file + 1, item + 1>>).kind # "seg"
  BY ItemIsTaken DEF FileInv, Coming
<1> DEFINE before == <<file + 1, item>>
           after == <<file + 1, item + 1>>
<1>2. before[1] = file + 1 /\ before[2] = item
      /\ after[1] = file + 1 /\ after[2] = item + 1
  OBVIOUS
<1>3. Current' =
          {<<file + 1, i>> : i \in {k \in 1..(item + 1) : LastBefore(after, k)}}
  BY <1>1 DEF Current, LastBefore, At
<1>4. Current = {<<file + 1, i>> : i \in {k \in 1..item : LastBefore(before, k)}}
  BY DEF Current
<1> HIDE DEF before, after
<1>5. ASSUME NEW k \in 1..item
      PROVE LastBefore(after, k) <=> LastBefore(before, k)
  <2>1. (k + 1)..(item + 1) = ((k + 1)..item) \union {item + 1}
    BY <1>1
  <2> QED BY <2>1, <1>1, <1>2 DEF LastBefore
<1>6. ~LastBefore(after, item + 1)
  BY <1>1, <1>2 DEF LastBefore
<1>7. 1..(item + 1) = 1..item \union {item + 1}
  BY <1>1
<1>8. {k \in 1..(item + 1) : LastBefore(after, k)}
         = {k \in 1..item : LastBefore(before, k)}
  BY <1>5, <1>6, <1>7
<1> QED
  BY <1>3, <1>4, <1>8

\* There is at most one segment at hand, and it has been read.
LEMMA OneCurrent ==
  ASSUME FileInv, files \in Inputs, file < Len(files)
  PROVE  /\ \A s, t \in Current : s = t
         /\ \A s \in Current : /\ s \in Taken /\ At(s).kind = "seg"
                               /\ s[1] = file + 1
<1>1. /\ file \in Nat /\ item \in Nat /\ item <= Len(files[file + 1].items)
      /\ Len(files) \in Nat /\ file + 1 \in 1..Len(files)
      /\ Len(files[file + 1].items) \in Nat
  <2>1. file \in Nat /\ item \in Nat /\ item <= Len(files[file + 1].items)
    BY DEF FileInv
  <2>2. Len(files) \in Nat /\ file + 1 \in 1..Len(files)
    BY <2>1, Sequences
  <2> QED BY <2>1, <2>2, Sequences
<1> DEFINE before == <<file + 1, item>>
<1>2. before[1] = file + 1 /\ before[2] = item
  OBVIOUS
<1> HIDE DEF before
<1>3. ASSUME NEW i \in 1..item, NEW j \in 1..item,
             LastBefore(before, i), LastBefore(before, j), i < j
      PROVE  FALSE
  <2>1. j \in (i + 1)..item
    BY <1>1, <1>3
  <2> QED BY <2>1, <1>2, <1>3 DEF LastBefore
<1>4. ASSUME NEW s \in Current, NEW t \in Current PROVE s = t
  <2>1. PICK i \in 1..item : s = <<file + 1, i>> /\ LastBefore(before, i)
    BY DEF Current, before
  <2>2. PICK j \in 1..item : t = <<file + 1, j>> /\ LastBefore(before, j)
    BY DEF Current, before
  <2>3. ~(i < j) /\ ~(j < i)
    BY <2>1, <2>2, <1>3
  <2>4. i = j
    BY <2>3, <1>1
  <2> QED BY <2>1, <2>2, <2>4
<1>5. ASSUME NEW s \in Current
      PROVE  s \in Taken /\ At(s).kind = "seg" /\ s[1] = file + 1
  <2>1. PICK i \in 1..item : s = <<file + 1, i>> /\ LastBefore(before, i)
    BY DEF Current, before
  <2>2. i \in 1..Len(files[file + 1].items) /\ i <= item
    BY <1>1
  <2>3. s \in Places /\ s[1] = file + 1 /\ s[2] = i
    BY <2>1, <2>2, <1>1, Place
  <2>4. s \in Taken
    BY <2>2, <2>3 DEF Taken
  <2>5. At(s).kind = "seg"
    BY <2>1, <1>2 DEF LastBefore
  <2> QED BY <2>3, <2>4, <2>5
<1> QED BY <1>4, <1>5

-----------------------------------------------------------------------------

\* The items of a segment, with one more.
Plus(content, t) == content \union {t}

\* What a bit adds to the bits and the tags of the items before it.
LEMMA OneMoreBit ==
  ASSUME NEW content, NEW t, NEW i, t.kind = "bit"
  PROVE  /\ BitsIn(Plus(content, t)) = BitsIn(content) \union {t.name}
         /\ OnesIn(Plus(content, t), i) = OnesIn(content, i)
         /\ ZerosIn(Plus(content, t), i) = ZerosIn(content, i)
         /\ TagsIn(Plus(content, t), i) = TagsIn(content, i)
<1>1. BitsIn(Plus(content, t)) = BitsIn(content) \union {t.name}
  BY DEF BitsIn, Plus
<1>2. OnesIn(Plus(content, t), i) = OnesIn(content, i)
  BY DEF OnesIn, Plus
<1>3. ZerosIn(Plus(content, t), i) = ZerosIn(content, i)
  BY DEF ZerosIn, Plus
<1> QED BY <1>1, <1>2, <1>3 DEF TagsIn

\* The inverse of the tag of an item, if there are any.
Others(t, inverse) == IF inverse THEN {InverseTag(t.name)} ELSE {}

\* The tags that an item says to be 1, and those that it says to be 0.
OnesSaid(t, inverse) == IF t.value = "1" THEN {t.name} ELSE Others(t, inverse)

ZerosSaid(t, inverse) == IF t.value = "1" THEN Others(t, inverse) ELSE {t.name}

TagsSaid(t, inverse) == OnesSaid(t, inverse) \union ZerosSaid(t, inverse)

\* What a tag adds to them.
LEMMA OneMoreTag ==
  ASSUME NEW content, NEW t, NEW i, t.kind = "tag"
  PROVE  /\ BitsIn(Plus(content, t)) = BitsIn(content)
         /\ OnesIn(Plus(content, t), i) = OnesIn(content, i) \union OnesSaid(t, i)
         /\ ZerosIn(Plus(content, t), i)
                = ZerosIn(content, i) \union ZerosSaid(t, i)
         /\ TagsIn(Plus(content, t), i)
                = TagsIn(content, i) \union TagsSaid(t, i)
<1>1. BitsIn(Plus(content, t)) = BitsIn(content)
  BY DEF BitsIn, Plus
<1>2. OnesIn(Plus(content, t), i) = OnesIn(content, i) \union OnesSaid(t, i)
  <2>1. CASE t.value = "1"
    BY <2>1 DEF OnesIn, Plus, OnesSaid
  <2>2. CASE t.value # "1"
    BY <2>2 DEF OnesIn, Plus, OnesSaid, Others
  <2> QED BY <2>1, <2>2
<1>3. ZerosIn(Plus(content, t), i) = ZerosIn(content, i) \union ZerosSaid(t, i)
  <2>1. CASE t.value = "1"
    BY <2>1 DEF ZerosIn, Plus, ZerosSaid, Others
  <2>2. CASE t.value # "1"
    BY <2>2 DEF ZerosIn, Plus, ZerosSaid
  <2> QED BY <2>1, <2>2
<1>4. TagsIn(Plus(content, t), i) = TagsIn(content, i) \union TagsSaid(t, i)
  BY <1>2, <1>3 DEF TagsIn, TagsSaid
<1> QED BY <1>1, <1>2, <1>3, <1>4

\* A segment with more tags.
LEMMA MoreTags ==
  ASSUME NEW bits, NEW ones, NEW zeros, NEW o, NEW n
  PROVE  Tagged([bits |-> bits, tags1 |-> ones, tags0 |-> zeros], o, n)
            = [bits |-> bits, tags1 |-> ones \union o, tags0 |-> zeros \union n]
<1> DEFINE more == ones \union o
<1>1. [[bits |-> bits, tags1 |-> ones, tags0 |-> zeros] EXCEPT !.tags1 = more]
         = [bits |-> bits, tags1 |-> more, tags0 |-> zeros]
  OBVIOUS
<1> HIDE DEF more
<1>2. [[bits |-> bits, tags1 |-> more, tags0 |-> zeros] EXCEPT !.tags0 =
          @ \union n]
         = [bits |-> bits, tags1 |-> more, tags0 |-> zeros \union n]
  OBVIOUS
<1> QED BY <1>1, <1>2 DEF Tagged, more

\* A segment is the same, while its bits and its tags keep their ids.
LEMMA SegmentKept ==
  ASSUME NEW content, NEW bits, NEW bits2, NEW tags, NEW tags2, NEW i,
         \A n \in BitsIn(content) : IdOf(bits2, n) = IdOf(bits, n),
         \A n \in TagsIn(content, i) : IdOf(tags2, n) = IdOf(tags, n)
  PROVE  SegmentOf(content, bits2, tags2, i) = SegmentOf(content, bits, tags, i)
<1>1. IdsOf(bits2, BitsIn(content)) = IdsOf(bits, BitsIn(content))
  BY DEF IdsOf
<1>2. IdsOf(tags2, OnesIn(content, i)) = IdsOf(tags, OnesIn(content, i))
  BY DEF IdsOf, TagsIn
<1>3. IdsOf(tags2, ZerosIn(content, i)) = IdsOf(tags, ZerosIn(content, i))
  BY DEF IdsOf, TagsIn
<1> QED BY <1>1, <1>2, <1>3 DEF SegmentOf

\* The segments correspond to those of the files as they did, when neither
\* changes.
LEMMA SegmentsStay ==
  ASSUME UNCHANGED <<segdata, bit_ids, tag_ids, flags>>, Named' = Named,
         \A s \in Named : ContentTaken(s)' = ContentTaken(s),
         Identify(bit_ids, BitsTaken), Identify(tag_ids, TagsTaken),
         NEW h \in Bijection(DOMAIN segdata, Named),
         \A k \in DOMAIN segdata :
            segdata[k] = SegmentOf(ContentTaken(h[k]), bit_ids, tag_ids, flags.i)
  PROVE  /\ Identify(bit_ids, BitsTaken)' /\ Identify(tag_ids, TagsTaken)'
         /\ h \in Bijection(DOMAIN segdata', Named')
         /\ \A k \in DOMAIN segdata' : segdata'[k] =
                SegmentOf(ContentTaken(h[k])', bit_ids', tag_ids', flags'.i)
<1>1. BitsTaken' = BitsTaken
  <2>1. BitsTaken' = UNION {BitsIn(ContentTaken(s)') : s \in Named}
    BY DEF BitsTaken
  <2>2. {BitsIn(ContentTaken(s)') : s \in Named}
           = {BitsIn(ContentTaken(s)) : s \in Named}
    OBVIOUS
  <2> QED BY <2>1, <2>2 DEF BitsTaken
<1>2. TagsTaken' = TagsTaken
  <2>1. TagsTaken' = UNION {TagsIn(ContentTaken(s)', flags.i) : s \in Named}
    BY DEF TagsTaken
  <2>2. {TagsIn(ContentTaken(s)', flags.i) : s \in Named}
           = {TagsIn(ContentTaken(s), flags.i) : s \in Named}
    OBVIOUS
  <2> QED BY <2>1, <2>2 DEF TagsTaken
<1>3. \A k \in DOMAIN segdata : h[k] \in Named
  BY DEF Bijection, Injection
<1>4. \A k \in DOMAIN segdata : ContentTaken(h[k])' = ContentTaken(h[k])
  BY <1>3
<1> QED
  BY <1>1, <1>2, <1>4

\* The segments that correspond, at hand for the steps that keep them.
LEMMA SegmentsNow ==
  ASSUME FileInv
  PROVE  \E h \in Bijection(DOMAIN segdata, Named) :
            /\ \A k \in DOMAIN segdata : segdata[k] =
                   SegmentOf(ContentTaken(h[k]), bit_ids, tag_ids, flags.i)
            /\ pc = "reading" /\ file < Len(files) =>
                   segptr = {k \in DOMAIN segdata : h[k] \in Current}
            /\ \A k \in DOMAIN segdata : h[k] \in Named
            /\ \A k, l \in DOMAIN segdata : h[k] = h[l] => k = l
            /\ \A s \in Named : \E k \in DOMAIN segdata : h[k] = s
<1>1. PICK h \in Bijection(DOMAIN segdata, Named) : Corresponds(h)
  BY DEF FileInv
<1>2. /\ \A k \in DOMAIN segdata : h[k] \in Named
      /\ \A k, l \in DOMAIN segdata : h[k] = h[l] => k = l
      /\ \A s \in Named : \E k \in DOMAIN segdata : h[k] = s
  BY DEF Bijection, Injection, Surjection, IsInjective
<1> QED BY <1>1, <1>2 DEF Corresponds

\* The start of a segment is read: it has no name yet.
LEMMA SegIsTaken ==
  ASSUME FileInv, files \in Inputs, ReadSeg PROVE FileInv'
<1>1. TakeItem("seg") /\ pc' = "naming" /\ UNCHANGED <<segdata, bit_ids, tag_ids>>
  BY DEF ReadSeg, data_vars
<1>2. /\ files' = files /\ flags' = flags
      /\ file' = file /\ item' = item + 1 /\ pc = "reading"
      /\ file < Len(files) /\ item + 1 <= Len(files[file + 1].items)
      /\ At(Coming) = Item /\ Item.kind = "seg"
      /\ Coming \in Places /\ Coming \notin Taken
      /\ Taken' = Taken \union {Coming}
  BY <1>1, ItemIsTaken
<1>3. file \in Nat /\ item \in Nat /\ file <= Len(files)
  BY <1>2 DEF FileInv
<1>4. Named' = Named
  <2>1. Named = {p \in Taken : At(p).kind = "seg"}
    BY <1>2 DEF Named
  <2>2. Named' = {p \in Taken \union {Coming} :
                     At(p).kind = "seg" /\ p # <<file + 1, item + 1>>}
    BY <1>1, <1>2 DEF Named, At
  <2> QED BY <2>1, <2>2, <1>2 DEF Coming
<1>5. \A s \in Named : ContentTaken(s)' = ContentTaken(s)
  <2>1. ASSUME NEW s \in Named PROVE ContentTaken(s)' = ContentTaken(s)
    <3>1. s \in Taken
      BY DEF Named
    <3>2. ContentTaken(s)' = ContentTaken(s)
             \union IF "seg" # "seg" /\ s \in Current THEN {Item} ELSE {}
      BY <1>1, <3>1, ContentGrows
    <3> QED BY <3>2
  <2> QED BY <2>1
<1>6. PICK h \in Bijection(DOMAIN segdata, Named) :
         \A k \in DOMAIN segdata : segdata[k] =
             SegmentOf(ContentTaken(h[k]), bit_ids, tag_ids, flags.i)
  BY SegmentsNow
<1>7. Identify(bit_ids, BitsTaken) /\ Identify(tag_ids, TagsTaken)
  BY DEF FileInv
<1>8. /\ Identify(bit_ids, BitsTaken)' /\ Identify(tag_ids, TagsTaken)'
      /\ h \in Bijection(DOMAIN segdata', Named')
      /\ \A k \in DOMAIN segdata' : segdata'[k] =
             SegmentOf(ContentTaken(h[k])', bit_ids', tag_ids', flags'.i)
  BY <1>1, <1>2, <1>4, <1>5, <1>6, <1>7, SegmentsStay
<1>9. Corresponds(h)'
  BY <1>1, <1>8 DEF Corresponds
<1>10. \E g \in Bijection(DOMAIN segdata', Named') : Corresponds(g)'
  BY <1>8, <1>9
<1>11. At(<<file + 1, item>>)'.kind = "seg"
  BY <1>2 DEF Coming, At
<1>12. item' \in Nat /\ item' > 0
  BY <1>2, <1>3
<1> QED
  BY <1>1, <1>2, <1>3, <1>8, <1>10, <1>11, <1>12 DEF FileInv

\* A segment gets its name: nothing has been read of it.
LEMMA SegmentIsNamed ==
  ASSUME FileInv, files \in Inputs, NameSegment PROVE FileInv'
<1> DEFINE start == <<file + 1, item>>
<1>1. /\ pc = "naming" /\ pc' = "reading" /\ token \notin DOMAIN segdata
      /\ segdata' = Assign(segdata, token, EmptySegment) /\ segptr' = {token}
      /\ UNCHANGED <<files, flags, file, item, bit_ids, tag_ids>>
  BY DEF NameSegment, input_vars
<1>2. /\ file \in Nat /\ item \in Nat /\ file < Len(files) /\ item > 0
      /\ item <= Len(files[file + 1].items) /\ At(start).kind = "seg"
      /\ Identify(bit_ids, BitsTaken) /\ Identify(tag_ids, TagsTaken)
  BY <1>1 DEF FileInv
<1>3. Taken' = Taken /\ \A s : ContentTaken(s)' = ContentTaken(s)
  <2>1. Taken' = Taken
    BY <1>1 DEF Taken, Places
  <2> QED BY <2>1, <1>1 DEF ContentTaken, LastBefore, At
<1>4. start[1] = file + 1 /\ start[2] = item
  OBVIOUS
<1>5. /\ Len(files) \in Nat /\ file + 1 \in 1..Len(files)
      /\ Len(files[file + 1].items) \in Nat
             /\ item \in 1..Len(files[file + 1].items)
  <2>1. Len(files) \in Nat /\ file + 1 \in 1..Len(files)
    BY <1>2, Sequences
  <2>2. Len(files[file + 1].items) \in Nat
    BY <2>1, Sequences
  <2> QED BY <2>1, <2>2, <1>2
<1>6. start \in Taken
  <2>1. start \in Places
    BY <1>5, Place
  <2> HIDE DEF start
  <2> QED BY <2>1, <1>2, <1>4 DEF Taken
<1>7. Named' = Named \union {start} /\ start \notin Named
  <2>1. Named = {p \in Taken : At(p).kind = "seg" /\ p # start}
    BY <1>1 DEF Named
  <2>2. Named' = {p \in Taken : At(p).kind = "seg"}
    BY <1>1, <1>3 DEF Named, At
  <2> HIDE DEF start
  <2> QED BY <2>1, <2>2, <1>2, <1>6
<1>8. ContentTaken(start) = {}
  <2>1. ASSUME NEW q \in Taken, q[1] = start[1], start[2] < q[2] PROVE FALSE
    <3>1. q[1] \in Nat /\ q[2] \in Nat /\ (q[1] <= file \/ q[2] <= item)
      BY Place DEF Taken
    <3> HIDE DEF start
    <3> QED BY <3>1, <2>1, <1>2, <1>4
  <2> HIDE DEF start
  <2> QED BY <2>1 DEF ContentTaken
<1>9. Current' = {start}
  <2>1. Current = {start}
    <3>1. LastBefore(start, item)
      <4>1. (item + 1)..item = {}
        BY <1>2
      <4> HIDE DEF start
      <4>2. At(<<start[1], item>>).kind = "seg"
        BY <1>2, <1>4 DEF start
      <4> QED BY <4>1, <4>2, <1>4 DEF LastBefore
    <3>2. start \in Current
      BY <3>1, <1>2 DEF Current
    <3>3. \A s, t \in Current : s = t
      BY <1>2, OneCurrent
    <3> HIDE DEF start
    <3> QED BY <3>2, <3>3
  <2>2. Current' = Current
    BY <1>1 DEF Current, LastBefore, At
  <2> QED BY <2>1, <2>2
<1> HIDE DEF start
<1>10. PICK h \in Bijection(DOMAIN segdata, Named) :
          /\ \A k \in DOMAIN segdata : segdata[k] =
                 SegmentOf(ContentTaken(h[k]), bit_ids, tag_ids, flags.i)
          /\ \A k \in DOMAIN segdata : h[k] \in Named
          /\ \A k, l \in DOMAIN segdata : h[k] = h[l] => k = l
          /\ \A s \in Named : \E k \in DOMAIN segdata : h[k] = s
  BY SegmentsNow
<1> DEFINE D == DOMAIN segdata \union {token}
<1>11. PICK g : g = [k \in D |-> IF k = token THEN start ELSE h[k]]
  OBVIOUS
<1>12. DOMAIN segdata' = D /\ segdata'[token] = EmptySegment
       /\ \A k \in DOMAIN segdata : segdata'[k] = segdata[k]
  BY <1>1 DEF Assign
<1>13. g[token] = start /\ \A k \in DOMAIN segdata : g[k] = h[k]
  BY <1>1, <1>11
<1>14. g \in Bijection(D, Named')
  <2>1. g \in [D -> Named']
    BY <1>7, <1>10, <1>11
  <2>2. \A k, l \in D : g[k] = g[l] => k = l
    BY <1>7, <1>10, <1>13
  <2>3. \A s \in Named' : \E k \in D : g[k] = s
    BY <1>7, <1>10, <1>13
  <2> QED BY <2>1, <2>2, <2>3 DEF Bijection, Injection, Surjection, IsInjective
<1> HIDE DEF D
<1>15. SegmentOf({}, bit_ids, tag_ids, flags.i) = EmptySegment
  BY DEF SegmentOf, EmptySegment, IdsOf, BitsIn, OnesIn, ZerosIn
<1>16. ASSUME NEW k \in D
       PROVE  segdata'[k] =
                 SegmentOf(ContentTaken(g[k])', bit_ids', tag_ids', flags'.i)
  <2>1. ContentTaken(g[k])' = ContentTaken(g[k])
    BY <1>3
  <2>2. CASE k = token
    BY <2>1, <2>2, <1>1, <1>8, <1>12, <1>13, <1>15
  <2>3. CASE k \in DOMAIN segdata
    BY <2>1, <2>3, <1>1, <1>10, <1>12, <1>13
  <2> QED BY <2>2, <2>3 DEF D
<1>17. segptr' = {k \in D : g[k] \in Current'}
  <2>1. token \in D
    BY DEF D
  <2>2. \A k \in D : g[k] = start <=> k = token
    BY <1>7, <1>10, <1>13 DEF D
  <2> QED BY <2>1, <2>2, <1>1, <1>9
<1>18. Corresponds(g)'
  BY <1>12, <1>16, <1>17 DEF Corresponds
<1>19. BitsTaken' = BitsTaken /\ TagsTaken' = TagsTaken
  <2>1. BitsTaken' = UNION {BitsIn(ContentTaken(s)') : s \in Named'}
    BY DEF BitsTaken
  <2>2. TagsTaken' = UNION {TagsIn(ContentTaken(s)', flags.i) : s \in Named'}
    BY <1>1 DEF TagsTaken
  <2>3. /\ {BitsIn(ContentTaken(s)') : s \in Named'}
              = {BitsIn(ContentTaken(s)) : s \in Named} \union {BitsIn({})}
        /\ {TagsIn(ContentTaken(s)', flags.i) : s \in Named'}
              = {TagsIn(ContentTaken(s), flags.i) : s \in Named}
                    \union {TagsIn({}, flags.i)}
    BY <1>3, <1>7, <1>8
  <2>4. BitsIn({}) = {} /\ TagsIn({}, flags.i) = {}
    BY DEF BitsIn, TagsIn, OnesIn, ZerosIn
  <2> QED BY <2>1, <2>2, <2>3, <2>4 DEF BitsTaken, TagsTaken
<1>20. \E k \in Bijection(DOMAIN segdata', Named') : Corresponds(k)'
  BY <1>12, <1>14, <1>18
<1>21. file <= Len(files)
  BY <1>2, <1>5
<1> QED
  BY <1>1, <1>2, <1>19, <1>20, <1>21 DEF FileInv

\* The item read is one of the segment at hand, whatever it says.
LEMMA SegmentGrows ==
  ASSUME FileInv, files \in Inputs, NEW kind, kind # "seg", TakeItem(kind),
         pc' = pc, segptr' = segptr, NEW s \in segptr
  PROVE  /\ Named' = Named /\ s \in DOMAIN segdata
         /\ \E h \in Bijection(DOMAIN segdata, Named) :
               /\ \A k \in DOMAIN segdata : segdata[k] =
                      SegmentOf(ContentTaken(h[k]), bit_ids, tag_ids, flags.i)
               /\ h[s] \in Named
               /\ \A k \in DOMAIN segdata :
                      h[k] \in Named /\ (h[k] = h[s] => k = s)
               /\ \A p \in Named : ContentTaken(p)' =
                      ContentTaken(p) \union IF p = h[s] THEN {Item} ELSE {}
               /\ segptr' = {k \in DOMAIN segdata : h[k] \in Current'}
<1>1. /\ files' = files /\ flags' = flags
      /\ file' = file /\ item' = item + 1 /\ pc = "reading"
      /\ file < Len(files) /\ Item.kind = kind /\ At(Coming) = Item
      /\ Taken' = Taken \union {Coming}
  BY ItemIsTaken
<1>2. Named' = Named
  <2>1. Named = {p \in Taken : At(p).kind = "seg"}
    BY <1>1 DEF Named
  <2>2. Named' = {p \in Taken \union {Coming} : At(p).kind = "seg"}
    BY <1>1 DEF Named, At
  <2> QED BY <2>1, <2>2, <1>1
<1>3. PICK h \in Bijection(DOMAIN segdata, Named) :
         /\ \A k \in DOMAIN segdata : segdata[k] =
                SegmentOf(ContentTaken(h[k]), bit_ids, tag_ids, flags.i)
         /\ segptr = {k \in DOMAIN segdata : h[k] \in Current}
         /\ \A k \in DOMAIN segdata : h[k] \in Named
         /\ \A k, l \in DOMAIN segdata : h[k] = h[l] => k = l
  BY <1>1, SegmentsNow
<1>4. s \in DOMAIN segdata /\ h[s] \in Current /\ h[s] \in Named
  BY <1>3
<1>5. \A p \in Current : p = h[s]
  BY <1>1, <1>4, OneCurrent
<1>6. ASSUME NEW p \in Named
      PROVE  ContentTaken(p)' =
                ContentTaken(p) \union IF p = h[s] THEN {Item} ELSE {}
  <2>1. p \in Taken
    BY DEF Named
  <2>2. ContentTaken(p)' = ContentTaken(p)
           \union IF kind # "seg" /\ p \in Current THEN {Item} ELSE {}
    BY <2>1, ContentGrows
  <2>3. p \in Current <=> p = h[s]
    BY <1>4, <1>5
  <2> QED BY <2>2, <2>3
<1>7. Current' = Current
  BY CurrentStays
<1>8. segptr' = {k \in DOMAIN segdata : h[k] \in Current'}
  BY <1>3, <1>7
<1> QED
  BY <1>2, <1>3, <1>4, <1>6, <1>8

\* A bit is read: it is one of the segment at hand.
LEMMA BitIsTaken ==
  ASSUME FileInv, files \in Inputs, ReadBit PROVE FileInv'
<1> DEFINE name == Item.name
           this == {name}
<1>1. /\ TakeItem("bit") /\ pc' = pc /\ segptr' = segptr /\ tag_ids' = tag_ids
      /\ bit_ids' = WithId(bit_ids, name)
  BY DEF ReadBit, names_vars
<1>2. PICK s \in segptr :
         segdata' = [segdata EXCEPT ![s] = Set(@, IdOf(bit_ids', name))]
  BY DEF ReadBit
<1>3. /\ files' = files /\ flags' = flags
      /\ file' = file /\ item' = item + 1 /\ pc = "reading"
      /\ file < Len(files) /\ item + 1 <= Len(files[file + 1].items)
      /\ Item.kind = "bit"
  BY <1>1, ItemIsTaken
<1>4. file \in Nat /\ item \in Nat /\ file <= Len(files) /\ item + 1 \in Nat
      /\ Identify(bit_ids, BitsTaken) /\ Identify(tag_ids, TagsTaken)
  BY <1>3 DEF FileInv
<1>5. /\ Named' = Named /\ s \in DOMAIN segdata
      /\ \E h \in Bijection(DOMAIN segdata, Named) :
            /\ \A k \in DOMAIN segdata : segdata[k] =
                   SegmentOf(ContentTaken(h[k]), bit_ids, tag_ids, flags.i)
            /\ h[s] \in Named
            /\ \A k \in DOMAIN segdata : h[k] \in Named /\ (h[k] = h[s] => k = s)
            /\ \A p \in Named : ContentTaken(p)' =
                   ContentTaken(p) \union IF p = h[s] THEN {Item} ELSE {}
            /\ segptr' = {k \in DOMAIN segdata : h[k] \in Current'}
  <2>1. "bit" # "seg"
    OBVIOUS
  <2> QED BY <2>1, <1>1, SegmentGrows
<1>6. PICK h \in Bijection(DOMAIN segdata, Named) :
         /\ \A k \in DOMAIN segdata : segdata[k] =
                SegmentOf(ContentTaken(h[k]), bit_ids, tag_ids, flags.i)
         /\ h[s] \in Named
         /\ \A k \in DOMAIN segdata : h[k] \in Named /\ (h[k] = h[s] => k = s)
         /\ \A p \in Named : ContentTaken(p)' =
                ContentTaken(p) \union IF p = h[s] THEN {Item} ELSE {}
         /\ segptr' = {k \in DOMAIN segdata : h[k] \in Current'}
  BY <1>5
<1>7. \A c : /\ BitsIn(c \union {Item}) = BitsIn(c) \union this
             /\ TagsIn(c \union {Item}, flags.i) = TagsIn(c, flags.i)
             /\ OnesIn(c \union {Item}, flags.i) = OnesIn(c, flags.i)
             /\ ZerosIn(c \union {Item}, flags.i) = ZerosIn(c, flags.i)
  <2>1. \A c : /\ BitsIn(Plus(c, Item)) = BitsIn(c) \union {Item.name}
               /\ TagsIn(Plus(c, Item), flags.i) = TagsIn(c, flags.i)
               /\ OnesIn(Plus(c, Item), flags.i) = OnesIn(c, flags.i)
               /\ ZerosIn(Plus(c, Item), flags.i) = ZerosIn(c, flags.i)
    BY <1>3, OneMoreBit
  <2>2. \A c : Plus(c, Item) = c \union {Item}
    BY DEF Plus
  <2> QED BY <2>1, <2>2
<1> HIDE DEF name
<1>8. /\ Identify(bit_ids', BitsTaken \union this)
      /\ \A n \in BitsTaken : IdOf(bit_ids', n) = IdOf(bit_ids, n)
  BY <1>1, <1>4, WithIdOfName
<1> HIDE DEF this
<1>9. \A p \in Named :
         /\ BitsIn(ContentTaken(p)') = BitsIn(ContentTaken(p))
                \union IF p = h[s] THEN this ELSE {}
         /\ TagsIn(ContentTaken(p)', flags.i) = TagsIn(ContentTaken(p), flags.i)
  BY <1>6, <1>7
<1>10. BitsTaken' = BitsTaken \union this
  <2>1. BitsTaken' = UNION {BitsIn(ContentTaken(p)') : p \in Named}
    BY <1>5 DEF BitsTaken
  <2>2. \A b : (\E p \in Named : b \in BitsIn(ContentTaken(p)'))
            <=> b \in this \/ \E p \in Named : b \in BitsIn(ContentTaken(p))
    BY <1>6, <1>9
  <2>3. \A b : b \in BitsTaken <=> \E p \in Named : b \in BitsIn(ContentTaken(p))
    BY DEF BitsTaken
  <2>4. \A b : b \in BitsTaken' <=>
            \E p \in Named : b \in BitsIn(ContentTaken(p)')
    BY <2>1
  <2> QED BY <2>2, <2>3, <2>4
<1>11. TagsTaken' = TagsTaken
  <2>1. TagsTaken' = UNION {TagsIn(ContentTaken(p)', flags.i) : p \in Named}
    BY <1>3, <1>5 DEF TagsTaken
  <2>2. {TagsIn(ContentTaken(p)', flags.i) : p \in Named}
           = {TagsIn(ContentTaken(p), flags.i) : p \in Named}
    BY <1>9
  <2> QED BY <2>1, <2>2 DEF TagsTaken
<1>12. ASSUME NEW k \in DOMAIN segdata
       PROVE  segdata'[k] =
                 SegmentOf(ContentTaken(h[k])', bit_ids', tag_ids', flags'.i)
  <2> DEFINE c == ContentTaken(h[k])
  <2>1. h[k] \in Named /\ segdata[k] = SegmentOf(c, bit_ids, tag_ids, flags.i)
    BY <1>6
  <2>2. BitsIn(c) \subseteq BitsTaken
    BY <2>1 DEF BitsTaken
  <2>3. SegmentOf(c, bit_ids', tag_ids, flags.i)
           = SegmentOf(c, bit_ids, tag_ids, flags.i)
    <3>1. \A n \in BitsIn(c) : IdOf(bit_ids', n) = IdOf(bit_ids, n)
      BY <2>2, <1>8
    <3>2. \A n \in TagsIn(c, flags.i) : IdOf(tag_ids, n) = IdOf(tag_ids, n)
      OBVIOUS
    <3> HIDE DEF c
    <3> QED BY <3>1, <3>2, SegmentKept
  <2>4. CASE k = s
    <3>1. ContentTaken(h[k])' = c \union {Item}
      BY <2>1, <2>4, <1>6
    <3> HIDE DEF c
    <3>2. SegmentOf(c \union {Item}, bit_ids', tag_ids, flags.i)
             = Set(SegmentOf(c, bit_ids', tag_ids, flags.i), IdOf(bit_ids', name))
      <4>1. IdsOf(bit_ids', BitsIn(c) \union {name})
               = IdsOf(bit_ids', BitsIn(c)) \union {IdOf(bit_ids', name)}
        BY DEF IdsOf
      <4>2. SegmentOf(c \union {Item}, bit_ids', tag_ids, flags.i)
               = [bits  |-> IdsOf(bit_ids', BitsIn(c) \union {name}),
                  tags1 |-> IdsOf(tag_ids, OnesIn(c, flags.i)),
                  tags0 |-> IdsOf(tag_ids, ZerosIn(c, flags.i))]
        BY <1>7 DEF SegmentOf, this
      <4> QED BY <4>1, <4>2 DEF SegmentOf, Set
    <3>3. segdata'[k] = Set(segdata[k], IdOf(bit_ids', name))
      BY <2>4, <1>2, <1>5
    <3> QED BY <3>1, <3>2, <3>3, <2>1, <2>3, <1>1, <1>3
  <2>5. CASE k # s
    <3>1. ContentTaken(h[k])' = c
      BY <2>1, <2>5, <1>6
    <3>2. segdata'[k] = segdata[k]
      BY <2>5, <1>2
    <3> HIDE DEF c
    <3> QED BY <3>1, <3>2, <2>1, <2>3, <1>1, <1>3
  <2> QED BY <2>4, <2>5
<1>13. DOMAIN segdata' = DOMAIN segdata
  BY <1>2
<1>14. Corresponds(h)'
  BY <1>6, <1>12, <1>13 DEF Corresponds
<1>15. \E g \in Bijection(DOMAIN segdata', Named') : Corresponds(g)'
  BY <1>5, <1>13, <1>14
<1> QED
  BY <1>1, <1>3, <1>4, <1>8, <1>10, <1>11, <1>15 DEF FileInv

\* A tag is read, known in the segment at hand with its inverse if need be.
LEMMA TagIsTaken ==
  ASSUME FileInv, files \in Inputs, ReadTag PROVE FileInv'
<1> DEFINE name == Item.name
           this == {name}
           that == Others(Item, flags.i)
<1>1. /\ TakeItem("tag") /\ pc' = pc /\ segptr' = segptr /\ bit_ids' = bit_ids
      /\ tag_ids' = IF flags.i
             THEN WithId(WithId(tag_ids, name), InverseTag(name))
                               ELSE WithId(tag_ids, name)
  BY DEF ReadTag, names_vars
<1>2. PICK s \in segptr :
         segdata' = [segdata EXCEPT ![s] =
             IF Item.value = "1" THEN Tagged(@, IdsOf(tag_ids', this),
                                                IdsOf(tag_ids', that))
                                 ELSE Tagged(@, IdsOf(tag_ids', that),
                                                IdsOf(tag_ids', this))]
  <2>1. IdsOf(tag_ids', this) = {IdOf(tag_ids', name)}
    BY DEF IdsOf
  <2>2. IdsOf(tag_ids', that) =
            IF flags.i THEN {IdOf(tag_ids', InverseTag(name))} ELSE {}
    BY DEF IdsOf, Others
  <2> QED BY <2>1, <2>2 DEF ReadTag
<1>3. /\ files' = files /\ flags' = flags
      /\ file' = file /\ item' = item + 1 /\ pc = "reading"
      /\ file < Len(files) /\ item + 1 <= Len(files[file + 1].items)
      /\ Item.kind = "tag"
  BY <1>1, ItemIsTaken
<1>4. file \in Nat /\ item \in Nat /\ file <= Len(files) /\ item + 1 \in Nat
      /\ Identify(bit_ids, BitsTaken) /\ Identify(tag_ids, TagsTaken)
  BY <1>3 DEF FileInv
<1>5. /\ Named' = Named /\ s \in DOMAIN segdata
      /\ \E h \in Bijection(DOMAIN segdata, Named) :
            /\ \A k \in DOMAIN segdata : segdata[k] =
                   SegmentOf(ContentTaken(h[k]), bit_ids, tag_ids, flags.i)
            /\ h[s] \in Named
            /\ \A k \in DOMAIN segdata : h[k] \in Named /\ (h[k] = h[s] => k = s)
            /\ \A p \in Named : ContentTaken(p)' =
                   ContentTaken(p) \union IF p = h[s] THEN {Item} ELSE {}
            /\ segptr' = {k \in DOMAIN segdata : h[k] \in Current'}
  <2>1. "tag" # "seg"
    OBVIOUS
  <2> QED BY <2>1, <1>1, SegmentGrows
<1>6. PICK h \in Bijection(DOMAIN segdata, Named) :
         /\ \A k \in DOMAIN segdata : segdata[k] =
                SegmentOf(ContentTaken(h[k]), bit_ids, tag_ids, flags.i)
         /\ h[s] \in Named
         /\ \A k \in DOMAIN segdata : h[k] \in Named /\ (h[k] = h[s] => k = s)
         /\ \A p \in Named : ContentTaken(p)' =
                ContentTaken(p) \union IF p = h[s] THEN {Item} ELSE {}
         /\ segptr' = {k \in DOMAIN segdata : h[k] \in Current'}
  BY <1>5
<1>7. \A c : /\ BitsIn(c \union {Item}) = BitsIn(c)
             /\ TagsIn(c \union {Item}, flags.i) =
                    TagsIn(c, flags.i) \union TagsSaid(Item, flags.i)
             /\ OnesIn(c \union {Item}, flags.i) =
                    OnesIn(c, flags.i) \union OnesSaid(Item, flags.i)
             /\ ZerosIn(c \union {Item}, flags.i) =
                    ZerosIn(c, flags.i) \union ZerosSaid(Item, flags.i)
  <2>1. \A c : /\ BitsIn(Plus(c, Item)) = BitsIn(c)
               /\ TagsIn(Plus(c, Item), flags.i) =
                      TagsIn(c, flags.i) \union TagsSaid(Item, flags.i)
               /\ OnesIn(Plus(c, Item), flags.i) =
                      OnesIn(c, flags.i) \union OnesSaid(Item, flags.i)
               /\ ZerosIn(Plus(c, Item), flags.i) =
                      ZerosIn(c, flags.i) \union ZerosSaid(Item, flags.i)
    BY <1>3, OneMoreTag
  <2>2. \A c : Plus(c, Item) = c \union {Item}
    BY DEF Plus
  <2> QED BY <2>1, <2>2
<1>0. TagsSaid(Item, flags.i) = this \union that
  BY DEF TagsSaid, OnesSaid, ZerosSaid
<1>8. /\ Identify(tag_ids', TagsTaken \union this \union that)
      /\ \A n \in TagsTaken : IdOf(tag_ids', n) = IdOf(tag_ids, n)
  <2> DEFINE one == WithId(tag_ids, name)
             N == TagsTaken \union {name}
             inverse == InverseTag(name)
  <2> HIDE DEF name, N, inverse
  <2>1. Identify(one, N) /\ \A n \in TagsTaken : IdOf(one, n) = IdOf(tag_ids, n)
    BY <1>4, WithIdOfName DEF N
  <2> HIDE DEF one
  <2>2. /\ Identify(WithId(one, inverse), N \union {inverse})
        /\ \A n \in N : IdOf(WithId(one, inverse), n) = IdOf(one, n)
    BY <2>1, WithIdOfName
  <2>3. CASE flags.i
    <3>1. tag_ids' = WithId(one, inverse) /\ that = {inverse}
      BY <2>3, <1>1 DEF one, inverse, name, Others
    <3> HIDE DEF that
    <3> QED BY <3>1, <2>1, <2>2 DEF N
  <2>4. CASE ~flags.i
    <3>1. tag_ids' = one /\ that = {}
      BY <2>4, <1>1 DEF one, Others
    <3> HIDE DEF that
    <3> QED BY <3>1, <2>1 DEF N
  <2> QED BY <2>3, <2>4
<1> HIDE DEF name, this, that
<1>9. \A p \in Named :
         /\ BitsIn(ContentTaken(p)') = BitsIn(ContentTaken(p))
         /\ TagsIn(ContentTaken(p)', flags.i) = TagsIn(ContentTaken(p), flags.i)
                \union IF p = h[s] THEN this \union that ELSE {}
  BY <1>0, <1>6, <1>7
<1>10. TagsTaken' = TagsTaken \union this \union that
  <2>1. TagsTaken' = UNION {TagsIn(ContentTaken(p)', flags.i) : p \in Named}
    BY <1>3, <1>5 DEF TagsTaken
  <2>2. \A b : (\E p \in Named : b \in TagsIn(ContentTaken(p)', flags.i))
            <=> \/ b \in this \/ b \in that
                \/ \E p \in Named : b \in TagsIn(ContentTaken(p), flags.i)
    BY <1>6, <1>9
  <2>3. \A b : b \in TagsTaken
           <=> \E p \in Named : b \in TagsIn(ContentTaken(p), flags.i)
    BY DEF TagsTaken
  <2>4. \A b : b \in TagsTaken'
           <=> \E p \in Named : b \in TagsIn(ContentTaken(p)', flags.i)
    BY <2>1
  <2> QED BY <2>2, <2>3, <2>4
<1>11. BitsTaken' = BitsTaken
  <2>1. BitsTaken' = UNION {BitsIn(ContentTaken(p)') : p \in Named}
    BY <1>5 DEF BitsTaken
  <2>2. {BitsIn(ContentTaken(p)') : p \in Named}
           = {BitsIn(ContentTaken(p)) : p \in Named}
    BY <1>9
  <2> QED BY <2>1, <2>2 DEF BitsTaken
<1>12. ASSUME NEW k \in DOMAIN segdata
       PROVE  segdata'[k] =
                 SegmentOf(ContentTaken(h[k])', bit_ids', tag_ids', flags'.i)
  <2> DEFINE c == ContentTaken(h[k])
  <2>1. h[k] \in Named /\ segdata[k] = SegmentOf(c, bit_ids, tag_ids, flags.i)
    BY <1>6
  <2>2. TagsIn(c, flags.i) \subseteq TagsTaken
    BY <2>1 DEF TagsTaken
  <2>3. SegmentOf(c, bit_ids, tag_ids', flags.i)
           = SegmentOf(c, bit_ids, tag_ids, flags.i)
    <3>1. \A n \in TagsIn(c, flags.i) : IdOf(tag_ids', n) = IdOf(tag_ids, n)
      BY <2>2, <1>8
    <3>2. \A n \in BitsIn(c) : IdOf(bit_ids, n) = IdOf(bit_ids, n)
      OBVIOUS
    <3> HIDE DEF c
    <3> QED BY <3>1, <3>2, SegmentKept
  <2>4. CASE k = s
    <3>1. ContentTaken(h[k])' = c \union {Item}
      BY <2>1, <2>4, <1>6
    <3> HIDE DEF c
    <3> DEFINE ones == OnesSaid(Item, flags.i)
               zeros == ZerosSaid(Item, flags.i)
    <3>2. /\ BitsIn(c \union {Item}) = BitsIn(c)
          /\ OnesIn(c \union {Item}, flags.i) = OnesIn(c, flags.i) \union ones
          /\ ZerosIn(c \union {Item}, flags.i) = ZerosIn(c, flags.i) \union zeros
      BY <1>7
    <3>3. segdata'[k] = Tagged(segdata[k], IdsOf(tag_ids', ones),
                                           IdsOf(tag_ids', zeros))
      <4>1. CASE Item.value = "1"
        <5>1. ones = this /\ zeros = that
          BY <4>1 DEF OnesSaid, ZerosSaid, this, that, name
        <5> HIDE DEF ones, zeros
        <5> QED BY <5>1, <4>1, <2>4, <1>2, <1>5
      <4>2. CASE Item.value # "1"
        <5>1. ones = that /\ zeros = this
          BY <4>2 DEF OnesSaid, ZerosSaid, this, that, name
        <5> HIDE DEF ones, zeros
        <5> QED BY <5>1, <4>2, <2>4, <1>2, <1>5
      <4> QED BY <4>1, <4>2
    <3> HIDE DEF ones, zeros
    <3>4. \A A, B : IdsOf(tag_ids', A \union B)
                       = IdsOf(tag_ids', A) \union IdsOf(tag_ids', B)
      BY DEF IdsOf
    <3>5. SegmentOf(c \union {Item}, bit_ids, tag_ids', flags.i)
             = Tagged(SegmentOf(c, bit_ids, tag_ids', flags.i),
                      IdsOf(tag_ids', ones), IdsOf(tag_ids', zeros))
      <4>1. \A B, O, Z, o, z :
               Tagged([bits |-> B, tags1 |-> O, tags0 |-> Z], o, z)
                  = [bits |-> B, tags1 |-> O \union o, tags0 |-> Z \union z]
        BY MoreTags
      <4>2. SegmentOf(c \union {Item}, bit_ids, tag_ids', flags.i)
               = [bits  |-> IdsOf(bit_ids, BitsIn(c)),
                  tags1 |-> IdsOf(tag_ids', OnesIn(c, flags.i))
                               \union IdsOf(tag_ids', ones),
                  tags0 |-> IdsOf(tag_ids', ZerosIn(c, flags.i))
                               \union IdsOf(tag_ids', zeros)]
        BY <3>2, <3>4 DEF SegmentOf
      <4> QED BY <4>1, <4>2 DEF SegmentOf
    <3> QED BY <3>1, <3>3, <3>5, <2>1, <2>3, <1>1, <1>3
  <2>5. CASE k # s
    <3>1. ContentTaken(h[k])' = c
      BY <2>1, <2>5, <1>6
    <3>2. segdata'[k] = segdata[k]
      BY <2>5, <1>2
    <3> HIDE DEF c
    <3> QED BY <3>1, <3>2, <2>1, <2>3, <1>1, <1>3
  <2> QED BY <2>4, <2>5
<1>13. DOMAIN segdata' = DOMAIN segdata
  BY <1>2
<1>14. Corresponds(h)'
  BY <1>6, <1>12, <1>13 DEF Corresponds
<1>15. \E g \in Bijection(DOMAIN segdata', Named') : Corresponds(g)'
  BY <1>5, <1>13, <1>14
<1> QED
  BY <1>1, <1>3, <1>4, <1>8, <1>10, <1>11, <1>15 DEF FileInv

\* A file ends: what has been read of the segments stays.
LEMMA FileEnds ==
  ASSUME FileInv, files \in Inputs, EndOfFile PROVE FileInv'
<1>1. /\ files' = files /\ flags' = flags /\ file' = file + 1 /\ item' = 0
      /\ segptr' = {} /\ file < Len(files) /\ pc = "reading"
      /\ item = Len(files[file + 1].items)
      /\ pc' = IF file + 1 = Len(files) THEN "solving" ELSE "reading"
      /\ UNCHANGED <<segdata, bit_ids, tag_ids>>
  BY DEF EndOfFile, CurrentFile, input_vars, data_vars
<1>2. file \in Nat /\ item \in Nat
      /\ Identify(bit_ids, BitsTaken) /\ Identify(tag_ids, TagsTaken)
  BY DEF FileInv
<1>3. /\ Len(files) \in Nat /\ DOMAIN files = 1..Len(files)
      /\ \A f \in DOMAIN files : Len(files[f].items) \in Nat
  BY Sequences
<1>4. Taken' = Taken
  <2>1. ASSUME NEW p \in Places
        PROVE  \/ p[1] <= file + 1
               \/ p[1] = file + 1 + 1 /\ p[2] <= 0
               <=> \/ p[1] <= file
                   \/ p[1] = file + 1 /\ p[2] <= item
    <3>1. /\ p[1] \in 1..Len(files) /\ p[2] \in 1..Len(files[p[1]].items)
          /\ p[1] \in Nat /\ p[2] \in Nat
      BY Place
    <3>2. p[2] >= 1 /\ p[2] <= Len(files[p[1]].items)
      BY <3>1, <1>3
    <3>3. CASE p[1] = file + 1
      BY <3>1, <3>2, <3>3, <1>1, <1>2
    <3>4. CASE p[1] # file + 1
      BY <3>1, <3>2, <3>4, <1>2
    <3> QED BY <3>3, <3>4
  <2>2. Taken' = {p \in Places : \/ p[1] <= file + 1
                                 \/ p[1] = file + 1 + 1 /\ p[2] <= 0}
    BY <1>1 DEF Taken, Places
  <2> QED BY <2>1, <2>2 DEF Taken
<1>5. Named' = Named
  <2>1. pc' # "naming"
    BY <1>1
  <2> QED BY <2>1, <1>1, <1>4 DEF Named, At
<1>6. \A s : ContentTaken(s)' = ContentTaken(s)
  BY <1>1, <1>4 DEF ContentTaken, LastBefore, At
<1>7. PICK h \in Bijection(DOMAIN segdata, Named) :
         \A k \in DOMAIN segdata : segdata[k] =
             SegmentOf(ContentTaken(h[k]), bit_ids, tag_ids, flags.i)
  BY SegmentsNow
<1>8. /\ Identify(bit_ids, BitsTaken)' /\ Identify(tag_ids, TagsTaken)'
      /\ h \in Bijection(DOMAIN segdata', Named')
      /\ \A k \in DOMAIN segdata' : segdata'[k] =
             SegmentOf(ContentTaken(h[k])', bit_ids', tag_ids', flags'.i)
  BY <1>1, <1>2, <1>5, <1>6, <1>7, SegmentsStay
<1>9. Current' = {}
  BY <1>1 DEF Current
<1>10. Corresponds(h)'
  BY <1>1, <1>8, <1>9 DEF Corresponds
<1>11. \E g \in Bijection(DOMAIN segdata', Named') : Corresponds(g)'
  BY <1>8, <1>10
<1>12. file' < Len(files') => item' <= Len(files'[file' + 1].items)
  <2>1. ASSUME file + 1 < Len(files)
        PROVE  0 <= Len(files[(file + 1) + 1].items)
    <3>1. (file + 1) + 1 \in DOMAIN files
      BY <2>1, <1>2, <1>3
    <3>2. Len(files[(file + 1) + 1].items) \in Nat
      BY <3>1, <1>3
    <3> QED BY <3>2
  <2>2. files' = files /\ file' = file + 1 /\ item' = 0
    BY <1>1
  <2> QED BY <2>1, <2>2
<1>13. file' \in Nat /\ item' \in Nat /\ file' <= Len(files')
  <2>1. file \in Nat /\ Len(files) \in Nat /\ file < Len(files)
    BY <1>1, <1>2, <1>3
  <2>2. file + 1 \in Nat /\ file + 1 <= Len(files)
    BY <2>1
  <2>3. files' = files /\ file' = file + 1 /\ item' = 0
    BY <1>1
  <2> QED BY <2>2, <2>3
<1>14. /\ pc' # "naming" /\ pc' \notin {"matching", "done"}
       /\ pc' = "solving" => file' = Len(files')
  BY <1>1
<1> QED
  BY <1>8, <1>11, <1>12, <1>13, <1>14 DEF FileInv

\* Nothing is read any more, or not yet.
LEMMA FileStays ==
  ASSUME FileInv,
         UNCHANGED <<files, flags, file, item, segptr, segdata, bit_ids,
             tag_ids>>,
         \/ pc' = pc
         \/ pc \in {"solving", "matching"}
                /\ pc' \in {"solving", "matching", "done"}
  PROVE  FileInv'
<1>1. Taken' = Taken
  BY DEF Taken, Places
<1>2. Named' = Named
  <2>1. pc' = "naming" <=> pc = "naming"
    OBVIOUS
  <2> QED BY <2>1, <1>1 DEF Named, At
<1>3. \A s : ContentTaken(s)' = ContentTaken(s)
  BY <1>1 DEF ContentTaken, LastBefore, At
<1>4. Current' = Current
  BY DEF Current, LastBefore, At
<1>5. PICK h \in Bijection(DOMAIN segdata, Named) :
         /\ \A k \in DOMAIN segdata : segdata[k] =
                SegmentOf(ContentTaken(h[k]), bit_ids, tag_ids, flags.i)
         /\ pc = "reading" /\ file < Len(files) =>
                segptr = {k \in DOMAIN segdata : h[k] \in Current}
  BY SegmentsNow
<1>6. Identify(bit_ids, BitsTaken) /\ Identify(tag_ids, TagsTaken)
  BY DEF FileInv
<1>7. /\ Identify(bit_ids, BitsTaken)' /\ Identify(tag_ids, TagsTaken)'
      /\ h \in Bijection(DOMAIN segdata', Named')
      /\ \A k \in DOMAIN segdata' : segdata'[k] =
             SegmentOf(ContentTaken(h[k])', bit_ids', tag_ids', flags'.i)
  BY <1>2, <1>3, <1>5, <1>6, SegmentsStay
<1>8. pc' = "reading" => pc = "reading"
  OBVIOUS
<1>9. Corresponds(h)'
  BY <1>4, <1>5, <1>7, <1>8 DEF Corresponds
<1>10. \E g \in Bijection(DOMAIN segdata', Named') : Corresponds(g)'
  BY <1>7, <1>9
<1>11. At(<<file + 1, item>>)' = At(<<file + 1, item>>)
  BY DEF At
<1>12. /\ file \in Nat /\ item \in Nat
       /\ file < Len(files) => item <= Len(files[file + 1].items)
       /\ pc \in {"reading", "naming"} => file <= Len(files)
       /\ pc = "naming" => /\ file < Len(files) /\ item > 0
                           /\ At(<<file + 1, item>>).kind = "seg"
       /\ pc \in {"solving", "matching", "done"} => file = Len(files)
  BY DEF FileInv
<1> QED
  BY <1>7, <1>10, <1>11, <1>12 DEF FileInv

\* A step of read_input or of main keeps what is known of the files.
LEMMA NextFileInv ==
  ASSUME FileInv, files \in Inputs, [Next]_vars,
         pc' \notin {"failed", "aborted"}
  PROVE  FileInv'
<1>1. CASE ReadSeg
  BY <1>1, SegIsTaken
<1>2. CASE Rename
  <2>1. UNCHANGED <<files, flags, file, item, segptr, segdata, bit_ids, tag_ids,
            pc>>
    BY <1>2 DEF Rename, input_vars, data_vars
  <2> QED BY <2>1, FileStays
<1>3. CASE NameSegment
  BY <1>3, SegmentIsNamed
<1>4. CASE ReadBit
  BY <1>4, BitIsTaken
<1>5. CASE ReadTag
  BY <1>5, TagIsTaken
<1>6. CASE EndOfFile
  BY <1>6, FileEnds
<1>7. CASE MissingFile \/ AbortReading
  BY <1>7 DEF MissingFile, AbortReading
<1>8. CASE BeginTag \/ MatchOne \/ MatchZero \/ SkipSegment \/ EndTag \/ Finish
  <2>1. UNCHANGED <<input_vars, file, item, names_vars, data_vars>>
    BY <1>8 DEF BeginTag, MatchOne, MatchZero, SkipSegment, EndTag, Finish,
        Matching
  <2>2. UNCHANGED <<files, flags, file, item, segptr, segdata, bit_ids, tag_ids>>
    BY <2>1 DEF input_vars, names_vars, data_vars
  <2>3. pc \in {"solving", "matching"} /\ pc' \in {"solving", "matching", "done"}
    BY <1>8 DEF BeginTag, MatchOne, MatchZero, SkipSegment, EndTag, Finish,
        Matching
  <2> QED BY <2>2, <2>3, FileStays
<1>9. CASE UNCHANGED vars
  <2>1. UNCHANGED <<files, flags, file, item, segptr, segdata, bit_ids, tag_ids,
            pc>>
    BY <1>9 DEF vars, input_vars, names_vars, data_vars
  <2> QED BY <2>1, FileStays
<1> QED
  BY <1>1, <1>2, <1>3, <1>4, <1>5, <1>6, <1>7, <1>8, <1>9
     DEF Next, read_input, match

-----------------------------------------------------------------------------

\* One more segment is visited: it counts if it is among those to be counted.
LEMMA OneMoreVisited ==
  ASSUME NEW D, IsFiniteSet(D), NEW T \in SUBSET D, NEW s \in T, NEW P
  PROVE  /\ Cardinality({x \in D \ T : x \in P}) \in Nat
         /\ Cardinality({x \in D \ (T \ {s}) : x \in P}) =
                Cardinality({x \in D \ T : x \in P}) + IF s \in P THEN 1 ELSE 0
<1> DEFINE A == {x \in D \ T : x \in P}
           B == {x \in D \ (T \ {s}) : x \in P}
<1>1. IsFiniteSet(A) /\ s \notin A
  <2>1. A \subseteq D /\ s \notin A
    OBVIOUS
  <2> QED BY <2>1, FS_Subset
<1>2. B = A \union IF s \in P THEN {s} ELSE {}
  OBVIOUS
<1> HIDE DEF A, B
<1>3. Cardinality(A) \in Nat
  BY <1>1, FS_CardinalityType
<1>4. CASE s \in P
  <2>1. B = A \union {s}
    BY <1>2, <1>4
  <2>2. Cardinality(B) = Cardinality(A) + 1
    BY <2>1, <1>1, FS_AddElement
  <2> QED BY <2>2, <1>3, <1>4 DEF A, B
<1>5. CASE s \notin P
  <2>1. B = A
    BY <1>2, <1>5
  <2>2. Cardinality(B) = Cardinality(A) + 0
    BY <2>1, <1>3
  <2> QED BY <2>2, <1>3, <1>5 DEF A, B
<1> QED BY <1>4, <1>5

\* The line of a tag stays what it is while the segments do.
LEMMA LineStays ==
  ASSUME UNCHANGED <<data_vars, flags>>
  PROVE  \A tag : LineFrom(tag)' = LineFrom(tag)
BY DEF LineFrom, Has1, Has0, Determining, data_vars, IsListed

\* A step that does not read nor visit keeps the count.
LEMMA CountStays ==
  ASSUME CountInv, UNCHANGED <<data_vars, flags, out_lines>>,
         \/ pc' # "matching"
         \/ UNCHANGED <<todo, count1, count0, tag_idx, pc>>
  PROVE  CountInv'
<1>1. \A tag : LineFrom(tag)' = LineFrom(tag)
  BY LineStays
<1>2. segdata' = segdata
  BY DEF data_vars
<1>3. \A l \in out_lines' : l = LineFrom(l.tag)'
  BY <1>1 DEF CountInv
<1>4. ASSUME pc' = "matching"
      PROVE  /\ count1' = Cardinality({s \in DOMAIN segdata \ todo :
                    Has1(s, tag_idx)})'
             /\ count0' = Cardinality({s \in DOMAIN segdata \ todo :
                    Has0(s, tag_idx)})'
  BY <1>2, <1>4 DEF CountInv, Has1, Has0
<1> QED
  BY <1>2, <1>3, <1>4 DEF CountInv

\* While reading there is no line.
LEMMA ReadingCounts ==
  ASSUME IInv, CountInv, read_input PROVE CountInv'
<1>1. out_lines' = {} /\ pc' # "matching"
  BY DEF IInv, read_input, MissingFile, ReadSeg, Rename, NameSegment, ReadBit,
         ReadTag, AbortReading, EndOfFile, TakeItem
<1>2. IsFiniteSet(DOMAIN segdata')
  <2>1. \/ DOMAIN segdata' = DOMAIN segdata
        \/ DOMAIN segdata' = DOMAIN segdata \union {token}
    <3>1. CASE NameSegment
      BY <3>1 DEF NameSegment, Assign
    <3>2. CASE ReadBit
      BY <3>2 DEF ReadBit
    <3>3. CASE ReadTag
      BY <3>3 DEF ReadTag
    <3>4. CASE MissingFile \/ ReadSeg \/ Rename \/ AbortReading \/ EndOfFile
      BY <3>4 DEF MissingFile, ReadSeg, Rename, AbortReading, EndOfFile, data_vars
    <3> QED BY <3>1, <3>2, <3>3, <3>4 DEF read_input
  <2> QED BY <2>1, FS_AddElement DEF CountInv
<1> QED BY <1>1, <1>2 DEF CountInv

\* A segment visited counts if the tag is known in it.
LEMMA VisitCounts ==
  ASSUME IInv, CountInv, MatchOne \/ MatchZero \/ SkipSegment PROVE CountInv'
<1> DEFINE D == DOMAIN segdata
           P1 == {x \in D : Has1(x, tag_idx)}
           P0 == {x \in D : Has0(x, tag_idx)}
<1>1. /\ pc = "matching" /\ pc' = "matching"
      /\ UNCHANGED <<segdata, bit_ids, tag_ids, flags, tag_idx, out_lines>>
  BY DEF MatchOne, MatchZero, SkipSegment, Matching, data_vars, input_vars
<1>2. todo \in SUBSET D /\ IsFiniteSet(D)
  BY <1>1 DEF IInv, LoopInv, CountInv
<1>3. \A l \in out_lines' : l = LineFrom(l.tag)'
  <2>1. \A tag : LineFrom(tag)' = LineFrom(tag)
    BY <1>1, LineStays DEF data_vars
  <2> QED BY <1>1, <2>1 DEF CountInv
<1>4. PICK s \in todo : /\ todo' = todo \ {s}
                        /\ count1' = count1 + IF s \in P1 THEN 1 ELSE 0
                        /\ count0' = count0 + IF s \in P0 THEN 1 ELSE 0
  <2>1. count1 \in Nat /\ count0 \in Nat
    <3>1. /\ count1 = Cardinality({x \in D \ todo : Has1(x, tag_idx)})
          /\ count0 = Cardinality({x \in D \ todo : Has0(x, tag_idx)})
      BY <1>1 DEF CountInv
    <3>2. /\ IsFiniteSet({x \in D \ todo : Has1(x, tag_idx)})
          /\ IsFiniteSet({x \in D \ todo : Has0(x, tag_idx)})
      BY <1>2, FS_Subset
    <3> QED BY <3>1, <3>2, FS_CardinalityType
  <2>2. CASE MatchOne
    <3>1. PICK s \in todo : Has1(s, tag_idx) /\ todo' = todo \ {s}
      BY <2>2 DEF MatchOne
    <3>2. s \in P1 /\ s \notin P0
      BY <3>1, <1>2 DEF Has0
    <3>3. count1' = count1 + 1 /\ count0' = count0
      BY <2>2 DEF MatchOne
    <3> QED BY <2>1, <3>1, <3>2, <3>3
  <2>3. CASE MatchZero
    <3>1. PICK s \in todo : Has0(s, tag_idx) /\ todo' = todo \ {s}
      BY <2>3 DEF MatchZero
    <3>2. s \notin P1 /\ s \in P0
      BY <3>1, <1>2 DEF Has0
    <3>3. count0' = count0 + 1 /\ count1' = count1
      BY <2>3 DEF MatchZero
    <3> QED BY <2>1, <3>1, <3>2, <3>3
  <2>4. CASE SkipSegment
    <3>1. PICK s \in todo :
                   ~Has1(s, tag_idx) /\ ~Has0(s, tag_idx) /\ todo' = todo \ {s}
      BY <2>4 DEF SkipSegment
    <3>2. s \notin P1 /\ s \notin P0
      BY <3>1
    <3>3. count1' = count1 /\ count0' = count0
      BY <2>4 DEF SkipSegment
    <3> QED BY <2>1, <3>1, <3>2, <3>3
  <2> QED BY <2>2, <2>3, <2>4
<1>5. /\ {x \in D \ todo : Has1(x, tag_idx)} = {x \in D \ todo : x \in P1}
      /\ {x \in D \ todo : Has0(x, tag_idx)} = {x \in D \ todo : x \in P0}
  OBVIOUS
<1>6. /\ {x \in D \ todo : Has1(x, tag_idx)}' =
             {x \in D \ (todo \ {s}) : x \in P1}
      /\ {x \in D \ todo : Has0(x, tag_idx)}' =
             {x \in D \ (todo \ {s}) : x \in P0}
  BY <1>1, <1>4 DEF Has1, Has0
<1>7. /\ count1 = Cardinality({x \in D \ todo : x \in P1})
      /\ count0 = Cardinality({x \in D \ todo : x \in P0})
  BY <1>1, <1>5 DEF CountInv
<1>8. D' = D
  BY <1>1
<1> HIDE DEF P1, P0
<1>9. /\ Cardinality({x \in D \ (todo \ {s}) : x \in P1}) =
             Cardinality({x \in D \ todo : x \in P1}) + IF s \in P1 THEN 1 ELSE 0
      /\ Cardinality({x \in D \ (todo \ {s}) : x \in P0}) =
             Cardinality({x \in D \ todo : x \in P0}) + IF s \in P0 THEN 1 ELSE 0
  BY <1>2, OneMoreVisited
<1>10. /\ count1' = Cardinality({x \in D \ todo : Has1(x, tag_idx)}')
       /\ count0' = Cardinality({x \in D \ todo : Has0(x, tag_idx)}')
  BY <1>4, <1>6, <1>7, <1>9
<1> QED
  BY <1>2, <1>3, <1>8, <1>10 DEF CountInv

\* The line is what the segments visited, which are all, amount to.
LEMMA EndTagCounts ==
  ASSUME IInv, CountInv, EndTag PROVE CountInv'
<1> DEFINE text == [tag |-> tag_idx, notes |-> Notes,
                    candidates |-> IF count1 = 0 THEN {} ELSE mask,
                    listed |-> count1 # 0 /\ IsListed(Cardinality(mask))]
<1>1. /\ UNCHANGED <<data_vars, flags>> /\ todo = {} /\ pc = "matching"
      /\ out_lines' = out_lines \union {text} /\ pc' = "solving"
  BY DEF EndTag, input_vars
<1>2. /\ count1 = Cardinality({s \in DOMAIN segdata : Has1(s, tag_idx)})
      /\ count0 = Cardinality({s \in DOMAIN segdata : Has0(s, tag_idx)})
  <2>1. DOMAIN segdata \ todo = DOMAIN segdata
    BY <1>1
  <2> QED BY <1>1, <2>1 DEF CountInv
<1>3. text = LineFrom(tag_idx)
  <2>1. CASE count1 = 0
    BY <1>2, <2>1 DEF LineFrom, Notes
  <2>2. CASE count1 # 0
    <3>1. mask = Determining(tag_idx)
      BY <1>1, <2>2, MaskIsDetermining
    <3> QED BY <1>2, <2>2, <3>1 DEF LineFrom, Notes
  <2> QED BY <2>1, <2>2
<1>4. text.tag = tag_idx
  OBVIOUS
<1> HIDE DEF text
<1>5. \A tag : LineFrom(tag)' = LineFrom(tag)
  BY <1>1, LineStays
<1>6. \A l \in out_lines' : l = LineFrom(l.tag)'
  <2>1. ASSUME NEW l \in out_lines' PROVE l = LineFrom(l.tag)
    <3>1. CASE l \in out_lines
      BY <3>1 DEF CountInv
    <3>2. CASE l = text
      BY <3>2, <1>3, <1>4
    <3> QED BY <3>1, <3>2, <1>1
  <2> QED BY <2>1, <1>5
<1> QED
  BY <1>1, <1>6 DEF CountInv, data_vars

\* Every step keeps the lines what the segments amount to.
LEMMA NextCountInv ==
  ASSUME IInv, CountInv, [Next]_vars PROVE CountInv'
<1>1. CASE read_input
  BY <1>1, ReadingCounts
<1>2. CASE BeginTag
  <2>1. /\ UNCHANGED <<data_vars, flags, out_lines>> /\ pc' = "matching"
        /\ todo' = DOMAIN segdata /\ count1' = 0 /\ count0' = 0
    BY <1>2 DEF BeginTag, input_vars
  <2>2. \A tag : LineFrom(tag)' = LineFrom(tag)
    BY <2>1, LineStays
  <2>3. segdata' = segdata
    BY <2>1 DEF data_vars
  <2>4. /\ {s \in DOMAIN segdata' \ todo' : Has1(s, tag_idx)'} = {}
        /\ {s \in DOMAIN segdata' \ todo' : Has0(s, tag_idx)'} = {}
    BY <2>1, <2>3
  <2>5. Cardinality({}) = 0
    BY FS_EmptySet
  <2> QED
    BY <2>1, <2>2, <2>3, <2>4, <2>5 DEF CountInv
<1>3. CASE MatchOne \/ MatchZero \/ SkipSegment
  BY <1>3, VisitCounts
<1>4. CASE EndTag
  BY <1>4, EndTagCounts
<1>5. CASE Finish
  BY <1>5, CountStays DEF Finish, input_vars
<1>6. CASE UNCHANGED vars
  BY <1>6, CountStays DEF vars, input_vars, match_vars
<1> QED
  BY <1>1, <1>2, <1>3, <1>4, <1>5, <1>6 DEF Next, match

-----------------------------------------------------------------------------

\* Nothing has been read.
LEMMA InitFilesInv == ASSUME Init PROVE FilesInv
<1>1. /\ files \in Inputs /\ flags \in Flags /\ file = 0 /\ item = 0
      /\ segptr = {} /\ segdata = <<>> /\ bit_ids = <<>> /\ tag_ids = <<>>
      /\ out_lines = {} /\ pc = "reading"
  BY DEF Init
<1>2. Taken = {}
  <2>1. ASSUME NEW p \in Places, p[1] <= 0 \/ (p[1] = 1 /\ p[2] <= 0)
        PROVE  FALSE
    <3>1. /\ p[1] \in 1..Len(files) /\ p[2] \in 1..Len(files[p[1]].items)
          /\ p[1] \in Nat /\ p[2] \in Nat
      BY <1>1, Place
    <3>2. Len(files) \in Nat /\ Len(files[p[1]].items) \in Nat
      BY <1>1, <3>1, Sequences
    <3> QED BY <3>1, <3>2, <2>1
  <2>2. file + 1 = 1
    BY <1>1
  <2> QED BY <1>1, <2>1, <2>2 DEF Taken
<1>3. Named = {}
  BY <1>2 DEF Named
<1>4. BitsTaken = {} /\ TagsTaken = {}
  BY <1>3 DEF BitsTaken, TagsTaken
<1>5. Identify(<<>>, {})
  BY DEF Identify
<1>6. DOMAIN segdata = {}
  BY <1>1
<1>7. Corresponds(<<>>)
  BY <1>1, <1>6 DEF Corresponds
<1>8. <<>> \in Bijection(DOMAIN segdata, Named)
  BY <1>3, <1>6 DEF Bijection, Injection, Surjection, IsInjective
<1>9. Len(files) \in Nat /\ (0 < Len(files) => 0 <= Len(files[0 + 1].items))
  <2>1. Len(files) \in Nat /\ DOMAIN files = 1..Len(files)
    BY <1>1, Sequences
  <2>2. ASSUME 0 < Len(files) PROVE Len(files[0 + 1].items) \in Nat
    <3>1. 0 + 1 \in DOMAIN files
      BY <2>1, <2>2
    <3> QED BY <3>1, <1>1, Sequences
  <2> QED BY <2>1, <2>2
<1>10. FileInv
  BY <1>1, <1>4, <1>5, <1>7, <1>8, <1>9 DEF FileInv
<1>11. CountInv
  <2>1. IsFiniteSet({})
    BY FS_EmptySet
  <2> QED BY <2>1, <1>1, <1>6 DEF CountInv
<1> QED
  BY <1>1, <1>10, <1>11, InitIInv DEF FilesInv

\* Every step keeps the segments those read from the files.
LEMMA NextFilesInv == ASSUME FilesInv, [Next]_vars PROVE FilesInv'
<1>1. files' = files /\ flags' = flags
  BY DEF Next, read_input, match, MissingFile, ReadSeg, Rename, NameSegment,
         ReadBit, ReadTag, AbortReading, EndOfFile, TakeItem, BeginTag, MatchOne,
         MatchZero, SkipSegment, Matching, EndTag, Finish, vars, input_vars
<1>2. IInv' /\ CountInv'
  BY NextIInv, NextCountInv DEF FilesInv
<1>3. ASSUME pc' \notin {"failed", "aborted"} PROVE FileInv'
  <2>1. pc \notin {"failed", "aborted"}
    BY <1>3 DEF Next, read_input, match, MissingFile, ReadSeg, Rename,
         NameSegment, ReadBit, ReadTag, AbortReading, EndOfFile, TakeItem,
         BeginTag, MatchOne, MatchZero, SkipSegment, Matching, EndTag, Finish,
             vars
  <2> QED BY <1>3, <2>1, NextFileInv DEF FilesInv
<1>4. ASSUME pc' = "done" PROVE tag_idx' = Len(tag_ids')
  <2>1. CASE Finish
    BY <2>1 DEF Finish, data_vars
  <2>2. CASE UNCHANGED vars
    BY <2>2, <1>4 DEF FilesInv, vars, data_vars
  <2>3. CASE read_input
    BY <2>3, <1>4 DEF read_input, MissingFile, ReadSeg, Rename, NameSegment,
         ReadBit, ReadTag, AbortReading, EndOfFile, TakeItem
  <2>4. CASE BeginTag \/ MatchOne \/ MatchZero \/ SkipSegment \/ EndTag
    BY <2>4, <1>4 DEF BeginTag, MatchOne, MatchZero, SkipSegment, Matching, EndTag
  <2> QED BY <2>1, <2>2, <2>3, <2>4 DEF Next, match
<1> QED
  BY <1>1, <1>2, <1>3, <1>4 DEF FilesInv

-----------------------------------------------------------------------------

\* A place is one of a line of a file, and the other way round.
LEMMA PlaceOfLine ==
  ASSUME files \in Inputs
  PROVE  /\ \A f \in DOMAIN files : \A k \in DOMAIN files[f].items :
                /\ <<f, k>> \in Places /\ At(<<f, k>>) = files[f].items[k]
                /\ f \in Nat /\ k \in Nat
         /\ \A p \in Places :
                /\ p[1] \in DOMAIN files /\ p[2] \in DOMAIN files[p[1]].items
                /\ p[1] \in Nat /\ p[2] \in Nat /\ p = <<p[1], p[2]>>
                /\ p[1] <= Len(files) /\ 1 <= p[2]
<1>1. /\ Len(files) \in Nat /\ DOMAIN files = 1..Len(files)
      /\ \A f \in DOMAIN files :
             /\ Len(files[f].items) \in Nat
             /\ DOMAIN files[f].items = 1..Len(files[f].items)
  BY Sequences
<1>2. \A f \in DOMAIN files : \A k \in DOMAIN files[f].items : <<f, k>> \in Places
  BY <1>1, Place
<1>3. \A f, k : At(<<f, k>>) = files[f].items[k]
  BY DEF At
<1>4. \A f \in DOMAIN files : \A k \in DOMAIN files[f].items :
         f \in Nat /\ k \in Nat
  BY <1>1
<1>5. ASSUME NEW p \in Places
      PROVE  /\ p[1] \in DOMAIN files /\ p[2] \in DOMAIN files[p[1]].items
             /\ p[1] \in Nat /\ p[2] \in Nat /\ p = <<p[1], p[2]>>
             /\ p[1] <= Len(files) /\ 1 <= p[2]
  <2>1. /\ p[1] \in 1..Len(files) /\ p[2] \in 1..Len(files[p[1]].items)
        /\ p[1] \in Nat /\ p[2] \in Nat /\ p = <<p[1], p[2]>>
    BY Place
  <2> QED BY <2>1, <1>1
<1> QED BY <1>2, <1>3, <1>4, <1>5

\* The segments of the files start where a line says so.
LEMMA SegmentStarts ==
  ASSUME files \in Inputs
  PROVE  SegmentsOfFiles = {p \in Places : At(p).kind = "seg"}
<1>1. ASSUME NEW s \in SegmentsOfFiles
      PROVE  s \in Places /\ At(s).kind = "seg"
  <2>1. PICK f \in DOMAIN files :
           \E i \in DOMAIN files[f].items :
               s = <<f, i>> /\ files[f].items[i].kind = "seg"
    BY DEF SegmentsOfFiles
  <2> QED BY <2>1, PlaceOfLine
<1>2. ASSUME NEW p \in Places, At(p).kind = "seg" PROVE p \in SegmentsOfFiles
  <2>1. p[1] \in DOMAIN files /\ p[2] \in DOMAIN files[p[1]].items
        /\ p = <<p[1], p[2]>>
    BY PlaceOfLine
  <2>2. files[p[1]].items[p[2]].kind = "seg"
    BY <1>2 DEF At
  <2> QED BY <2>1, <2>2 DEF SegmentsOfFiles
<1> QED BY <1>1, <1>2

\* When all is read, the segments are those of the files, and so are their items.
LEMMA AllIsTaken ==
  ASSUME files \in Inputs, file = Len(files), pc # "naming"
  PROVE  /\ Named = SegmentsOfFiles
         /\ \A s \in SegmentsOfFiles : ContentTaken(s) = ItemsOf(s[1], s[2])
<1>1. Taken = Places
  <2>1. \A p \in Places : p[1] <= file
    BY PlaceOfLine
  <2> QED BY <2>1 DEF Taken
<1>2. Named = SegmentsOfFiles
  BY <1>1, SegmentStarts DEF Named
<1>3. ASSUME NEW s \in SegmentsOfFiles
      PROVE  ContentTaken(s) = ItemsOf(s[1], s[2])
  <2> DEFINE f == s[1]
             i == s[2]
             In(k) == /\ k > i
                      /\ \A h \in (i + 1)..k : files[f].items[h].kind # "seg"
  <2>1. /\ f \in DOMAIN files /\ i \in DOMAIN files[f].items
        /\ i \in Nat /\ files[f].items[i].kind = "seg"
    <3>1. s \in Places /\ At(s).kind = "seg"
      BY SegmentStarts
    <3> QED BY <3>1, PlaceOfLine DEF At
  <2>2. ItemsOf(f, i) =
            {files[f].items[j] : j \in {k \in DOMAIN files[f].items : In(k)}}
    BY DEF ItemsOf
  <2>3. ContentTaken(s) =
           {At(p) :
               p \in {q \in Places : q[1] = f /\ i < q[2] /\ LastBefore(q, i)}}
    BY <1>1 DEF ContentTaken
  <2>4. ASSUME NEW k \in DOMAIN files[f].items
        PROVE  In(k) <=> i < k /\ LastBefore(<<f, k>>, i)
    <3> DEFINE p == <<f, k>>
    <3>1. p[1] = f /\ p[2] = k
      OBVIOUS
    <3>2. \A h : At(<<f, h>>) = files[f].items[h]
      BY DEF At
    <3>3. k > i <=> i < k
      BY <2>1, PlaceOfLine
    <3> HIDE DEF p, f, i
    <3>4. LastBefore(p, i) <=>
             \A h \in (i + 1)..k : files[f].items[h].kind # "seg"
      BY <2>1, <3>1, <3>2 DEF LastBefore
    <3> QED BY <3>3, <3>4 DEF p
  <2> HIDE DEF In, f, i
  <2>5. ASSUME NEW t \in ItemsOf(f, i) PROVE t \in ContentTaken(s)
    <3>1. PICK k \in DOMAIN files[f].items : t = files[f].items[k] /\ In(k)
      BY <2>2
    <3> DEFINE p == <<f, k>>
    <3>2. p[1] = f /\ p[2] = k
      OBVIOUS
    <3>3. /\ p \in Places /\ t = At(p) /\ i < k /\ LastBefore(p, i)
      BY <2>1, <2>4, <3>1, PlaceOfLine
    <3> HIDE DEF p
    <3> QED BY <2>3, <3>2, <3>3
  <2>6. ASSUME NEW t \in ContentTaken(s) PROVE t \in ItemsOf(f, i)
    <3>1. PICK p \in Places :
                   p[1] = f /\ i < p[2] /\ LastBefore(p, i) /\ t = At(p)
      BY <2>3
    <3>2. p[2] \in DOMAIN files[f].items /\ p = <<f, p[2]>>
          /\ t = files[f].items[p[2]]
      BY <3>1, PlaceOfLine DEF At
    <3>3. In(p[2])
      BY <2>4, <3>1, <3>2
    <3> QED BY <2>2, <3>2, <3>3
  <2> QED BY <2>5, <2>6 DEF f, i
<1> QED BY <1>2, <1>3

\* Q is the image of P, a set of elements of the finite set D.
IsImage(h, D, E, P, Q) ==
    /\ h \in Bijection(D, E) /\ IsFiniteSet(D)
    /\ P \subseteq D /\ Q \subseteq E
    /\ \A k \in D : k \in P <=> h[k] \in Q

\* A set and its image have as many elements.
LEMMA SameCount ==
  ASSUME NEW h, NEW D, NEW E, NEW P, NEW Q, IsImage(h, D, E, P, Q)
  PROVE  /\ IsFiniteSet(P) /\ IsFiniteSet(Q)
         /\ Cardinality(P) \in Nat /\ Cardinality(Q) = Cardinality(P)
         /\ Cardinality(P) = 0 <=> P = {}
         /\ P = {} <=> Q = {}
<1>0. /\ h \in Bijection(D, E) /\ IsFiniteSet(D)
      /\ P \subseteq D /\ Q \subseteq E
      /\ \A k \in D : k \in P <=> h[k] \in Q
  BY DEF IsImage
<1>1. /\ h \in [D -> E] /\ \A k, l \in D : h[k] = h[l] => k = l
      /\ \A e \in E : \E k \in D : h[k] = e
  BY <1>0 DEF Bijection, Injection, Surjection, IsInjective
<1>2. PICK g : g = [k \in P |-> h[k]]
  OBVIOUS
<1>3. g \in Bijection(P, Q)
  <2>1. g \in [P -> Q]
    BY <1>0, <1>1, <1>2
  <2>2. \A k, l \in P : g[k] = g[l] => k = l
    BY <1>0, <1>1, <1>2
  <2>3. \A e \in Q : \E k \in P : g[k] = e
    BY <1>0, <1>1, <1>2
  <2> QED BY <2>1, <2>2, <2>3 DEF Bijection, Injection, Surjection, IsInjective
<1>4. IsFiniteSet(P)
  BY <1>0, FS_Subset
<1>5. ExistsBijection(P, Q)
  BY <1>3 DEF ExistsBijection
<1>6. IsFiniteSet(Q) /\ Cardinality(Q) = Cardinality(P)
  BY <1>4, <1>5, FS_Bijection
<1>7. Cardinality(P) \in Nat /\ (Cardinality(P) = 0 <=> P = {})
  BY <1>4, FS_CardinalityType, FS_EmptySet
<1>8. P = {} <=> Q = {}
  BY <1>0, <1>1
<1> QED BY <1>4, <1>6, <1>7, <1>8

\* What the files say of a tag, in terms of the tags that they make 1 and 0.
LEMMA SaysOfTag ==
  ASSUME NEW content, NEW tag
  PROVE  /\ TRUE \in Says(content, tag) <=> tag \in OnesIn(content, flags.i)
         /\ Says(content, tag) = {FALSE} <=> /\ tag \in ZerosIn(content, flags.i)
                                             /\ tag \notin OnesIn(content,
                                                    flags.i)
<1>1. Says(content, tag) \subseteq {TRUE, FALSE}
  BY DEF Says
<1>2. TRUE \in Says(content, tag) <=> tag \in OnesIn(content, flags.i)
  BY DEF Says, OnesIn
<1>3. FALSE \in Says(content, tag) <=> tag \in ZerosIn(content, flags.i)
  BY DEF Says, ZerosIn
<1>4. Says(content, tag) = {FALSE} <=> /\ FALSE \in Says(content, tag)
                                       /\ TRUE \notin Says(content, tag)
  BY <1>1
<1> QED BY <1>2, <1>3, <1>4

\* The tags of the program are those of the files.
LEMMA TagsAreThose ==
  ASSUME files \in Inputs, file = Len(files), pc # "naming"
  PROVE  /\ TagsTaken = TagsOfFiles
         /\ BitsTaken =
                UNION {BitsIn(ItemsOf(s[1], s[2])) : s \in SegmentsOfFiles}
<1>1. /\ Named = SegmentsOfFiles
      /\ \A s \in SegmentsOfFiles : ContentTaken(s) = ItemsOf(s[1], s[2])
  BY AllIsTaken
<1> DEFINE names(c) == {t.name : t \in {u \in c : u.kind = "tag"}}
           said == UNION {names(ItemsOf(s[1], s[2])) : s \in SegmentsOfFiles}
<1>2. BitsTaken = UNION {BitsIn(ItemsOf(s[1], s[2])) : s \in SegmentsOfFiles}
  <2>1. {BitsIn(ContentTaken(s)) : s \in Named}
           = {BitsIn(ItemsOf(s[1], s[2])) : s \in SegmentsOfFiles}
    BY <1>1
  <2> QED BY <2>1 DEF BitsTaken
<1>3. TagsOfFiles = said \union IF flags.i THEN {InverseTag(t) : t \in said}
          ELSE {}
  BY DEF TagsOfFiles
<1>4. ASSUME NEW c, NEW n
      PROVE  n \in TagsIn(c, flags.i) <=>
                n \in names(c)
                    \/ (flags.i /\ \E t \in names(c) : n = InverseTag(t))
  BY DEF TagsIn, OnesIn, ZerosIn
<1> HIDE DEF names
<1>5. ASSUME NEW n
      PROVE  n \in TagsTaken <=> n \in TagsOfFiles
  <2>1. n \in TagsTaken <=>
           \E s \in SegmentsOfFiles : n \in TagsIn(ItemsOf(s[1], s[2]), flags.i)
    BY <1>1 DEF TagsTaken
  <2>2. \A t : t \in said <=>
           \E s \in SegmentsOfFiles : t \in names(ItemsOf(s[1], s[2]))
    OBVIOUS
  <2> HIDE DEF said
  <2>3. n \in TagsOfFiles <=>
           n \in said \/ (flags.i /\ \E t \in said : n = InverseTag(t))
    BY <1>3
  <2> QED BY <1>4, <2>1, <2>2, <2>3
<1> QED BY <1>2, <1>5

\* In the end each segment of the program has the tags and the bits of one of the
\* files, by their numbers.
SaysTheSame(h) ==
    \A k \in DOMAIN segdata : \A j \in 0..(Len(tag_ids) - 1) :
        LET content == ItemsOf(h[k][1], h[k][2])
        IN /\ Has1(k, j) <=> TRUE \in Says(content, tag_ids[j + 1])
           /\ Has0(k, j) <=> Says(content, tag_ids[j + 1]) = {FALSE}
           /\ \A b \in 0..(Len(bit_ids) - 1) :
                 b \in segdata[k].bits <=> bit_ids[b + 1] \in BitsIn(content)

\* The correspondence that reading has built is that with the files.
LEMMA SegmentsAreOfFiles ==
  ASSUME FilesInv, pc = "done"
  PROVE  \E h \in Bijection(DOMAIN segdata, SegmentsOfFiles) : SaysTheSame(h)
<1> DEFINE D == DOMAIN segdata
           E == SegmentsOfFiles
<1>1. /\ files \in Inputs /\ file = Len(files) /\ pc # "naming" /\ FileInv
      /\ Identify(bit_ids, BitsTaken) /\ Identify(tag_ids, TagsTaken)
  BY DEF FilesInv, FileInv
<1>2. PICK h \in Bijection(D, Named) :
         /\ \A k \in D : segdata[k] =
                SegmentOf(ContentTaken(h[k]), bit_ids, tag_ids, flags.i)
         /\ \A k \in D : h[k] \in Named
  BY <1>1, SegmentsNow
<1>3. Named = E /\ \A s \in E : ContentTaken(s) = ItemsOf(s[1], s[2])
  BY <1>1, AllIsTaken
<1>4. ASSUME NEW j \in 0..(Len(tag_ids) - 1)
      PROVE  /\ tag_ids[j + 1] \in TagsTaken /\ IdOf(tag_ids, tag_ids[j + 1]) = j
             /\ \A t \in TagsTaken : IdOf(tag_ids, t) = j => t = tag_ids[j + 1]
  <2>1. tag_ids[j + 1] \in TagsTaken /\ IdOf(tag_ids, tag_ids[j + 1]) = j
    BY <1>1, IdOfName
  <2>2. \A t \in TagsTaken : tag_ids[IdOf(tag_ids, t) + 1] = t
    BY <1>1, IdOfName
  <2> QED BY <2>1, <2>2
<1>5. /\ \A b \in 0..(Len(bit_ids) - 1) :
             bit_ids[b + 1] \in BitsTaken /\ IdOf(bit_ids, bit_ids[b + 1]) = b
      /\ \A m \in BitsTaken : bit_ids[IdOf(bit_ids, m) + 1] = m
  BY <1>1, IdOfName
<1>6. ASSUME NEW k \in D, NEW j \in 0..(Len(tag_ids) - 1)
      PROVE  LET content == ItemsOf(h[k][1], h[k][2])
             IN /\ Has1(k, j) <=> TRUE \in Says(content, tag_ids[j + 1])
                /\ Has0(k, j) <=> Says(content, tag_ids[j + 1]) = {FALSE}
                /\ \A b \in 0..(Len(bit_ids) - 1) :
                      b \in segdata[k].bits <=> bit_ids[b + 1] \in BitsIn(content)
  <2> DEFINE c == ItemsOf(h[k][1], h[k][2])
             n == tag_ids[j + 1]
  <2>1. h[k] \in E /\ segdata[k] = SegmentOf(c, bit_ids, tag_ids, flags.i)
        /\ h[k] \in Named /\ c = ContentTaken(h[k])
    BY <1>2, <1>3
  <2> HIDE DEF c, n
  <2>2. BitsIn(c) \subseteq BitsTaken /\ TagsIn(c, flags.i) \subseteq TagsTaken
    BY <2>1 DEF BitsTaken, TagsTaken
  <2>3. ASSUME NEW S \in SUBSET TagsTaken
        PROVE  j \in IdsOf(tag_ids, S) <=> n \in S
    BY <1>4 DEF IdsOf, n
  <2>4. Has1(k, j) <=> n \in OnesIn(c, flags.i)
    <3>1. OnesIn(c, flags.i) \in SUBSET TagsTaken
      BY <2>2 DEF TagsIn
    <3>2. Has1(k, j) <=> j \in IdsOf(tag_ids, OnesIn(c, flags.i))
      BY <2>1 DEF Has1, SegmentOf
    <3> QED BY <2>3, <3>1, <3>2
  <2>5. Has0(k, j) <=> n \in ZerosIn(c, flags.i) /\ n \notin OnesIn(c, flags.i)
    <3>1. ZerosIn(c, flags.i) \in SUBSET TagsTaken
      BY <2>2 DEF TagsIn
    <3>2. Has0(k, j) <=> j \in IdsOf(tag_ids, ZerosIn(c, flags.i)) /\ ~Has1(k, j)
      BY <2>1 DEF Has0, SegmentOf
    <3> QED BY <2>3, <2>4, <3>1, <3>2
  <2>6. ASSUME NEW b \in 0..(Len(bit_ids) - 1)
        PROVE  b \in segdata[k].bits <=> bit_ids[b + 1] \in BitsIn(c)
    <3>1. segdata[k].bits = IdsOf(bit_ids, BitsIn(c))
      BY <2>1 DEF SegmentOf
    <3>2. ASSUME b \in IdsOf(bit_ids, BitsIn(c))
          PROVE bit_ids[b + 1] \in BitsIn(c)
      <4>1. PICK m \in BitsIn(c) : b = IdOf(bit_ids, m)
        BY <3>2 DEF IdsOf
      <4> QED BY <4>1, <2>2, <1>5
    <3>3. ASSUME bit_ids[b + 1] \in BitsIn(c)
          PROVE b \in IdsOf(bit_ids, BitsIn(c))
      <4>1. IdOf(bit_ids, bit_ids[b + 1]) = b
        BY <1>5
      <4> QED BY <3>3, <4>1 DEF IdsOf
    <3> QED BY <3>1, <3>2, <3>3
  <2> QED BY <2>4, <2>5, <2>6, SaysOfTag DEF c, n
<1>7. h \in Bijection(D, E) /\ SaysTheSame(h)
  BY <1>2, <1>3, <1>6 DEF SaysTheSame
<1> QED BY <1>7

\* A line that segmatch works out is that of the files for the tag of that id.
LEMMA LineIsOfFiles ==
  ASSUME FilesInv, pc = "done", NEW j \in 0..(Len(tag_ids) - 1)
  PROVE  [tag        |-> tag_ids[j + 1],
          notes      |-> LineFrom(j).notes,
          candidates |-> {bit_ids[b + 1] : b \in LineFrom(j).candidates},
          listed     |-> LineFrom(j).listed] = LineOf(tag_ids[j + 1])
<1> DEFINE n == tag_ids[j + 1]
           D == DOMAIN segdata
           E == SegmentsOfFiles
           content == [s \in E |-> ItemsOf(s[1], s[2])]
<1>1. /\ files \in Inputs /\ file = Len(files) /\ pc # "naming"
      /\ Identify(bit_ids, BitsTaken) /\ IsFiniteSet(D)
  BY DEF FilesInv, FileInv, CountInv
<1>2. PICK h \in Bijection(D, E) : SaysTheSame(h)
  BY SegmentsAreOfFiles
<1>3. /\ \A k \in D : h[k] \in E
      /\ \A s \in E : \E k \in D : h[k] = s
  BY DEF Bijection, Injection, Surjection
<1>5. /\ Len(bit_ids) \in Nat /\ DOMAIN bit_ids = 1..Len(bit_ids)
      /\ \A b \in 0..(Len(bit_ids) - 1) :
             bit_ids[b + 1] \in BitsTaken /\ IdOf(bit_ids, bit_ids[b + 1]) = b
      /\ \A m \in BitsTaken : /\ IdOf(bit_ids, m) \in 0..(Len(bit_ids) - 1)
                              /\ bit_ids[IdOf(bit_ids, m) + 1] = m
  BY <1>1, IdOfName
<1>6. ASSUME NEW k \in D
      PROVE  /\ Has1(k, j) <=> TRUE \in Says(content[h[k]], n)
             /\ Has0(k, j) <=> Says(content[h[k]], n) = {FALSE}
             /\ \A b \in 0..(Len(bit_ids) - 1) :
                   b \in segdata[k].bits <=>
                       bit_ids[b + 1] \in BitsIn(content[h[k]])
  <2>1. content[h[k]] = ItemsOf(h[k][1], h[k][2])
    BY <1>3
  <2> HIDE DEF content
  <2> QED BY <2>1, <1>2 DEF SaysTheSame
<1> HIDE DEF n, D
<1> DEFINE ones == {s \in E : TRUE \in Says(content[s], n)}
           zeros == {s \in E : Says(content[s], n) = {FALSE}}
           all == UNION {BitsIn(content[s]) : s \in E}
           agreeing == {b \in all : /\ \A s \in ones : b \in BitsIn(content[s])
                                    /\ \A s \in zeros :
                                           b \notin BitsIn(content[s])}
           P1 == {k \in D : Has1(k, j)}
           P0 == {k \in D : Has0(k, j)}
           B == 0..(Len(bit_ids) - 1)
<1>7. all = BitsTaken
  <2>1. BitsTaken = UNION {BitsIn(ItemsOf(s[1], s[2])) : s \in E}
    BY <1>1, TagsAreThose
  <2>2. {BitsIn(ItemsOf(s[1], s[2])) : s \in E} = {BitsIn(content[s]) : s \in E}
    OBVIOUS
  <2> QED BY <2>1, <2>2
<1>8. LineOf(n) =
         [tag |-> n,
          notes |-> UNION {IF Cardinality(ones) < flags.m THEN {"m1"} ELSE {},
                           IF Cardinality(zeros) < flags.m THEN {"m0"} ELSE {},
                           IF Cardinality(ones) + Cardinality(zeros) < flags.M
                           THEN {"M"} ELSE {},
                           IF ones = {} THEN {"const0"}
                           ELSE IF zeros = {} THEN {"const1"} ELSE {}},
          candidates |-> IF ones = {} THEN {} ELSE agreeing,
          listed |-> ones # {}
              /\ (flags.c < 0 \/ Cardinality(agreeing) \in 1..flags.c)]
  BY DEF LineOf
<1> HIDE DEF content, E, all
<1>9. /\ Cardinality(P1) \in Nat /\ Cardinality(ones) = Cardinality(P1)
      /\ Cardinality(P1) = 0 <=> ones = {}
  <2>1. \A k \in D : k \in P1 <=> h[k] \in ones
    BY <1>2, <1>3, <1>6
  <2>2. P1 \subseteq D /\ ones \subseteq E /\ IsFiniteSet(D)
    BY <1>1, <1>3
  <2> HIDE DEF P1, ones
  <2>3. IsImage(h, D, E, P1, ones)
    BY <2>1, <2>2 DEF IsImage
  <2> QED BY <2>3, SameCount
<1>10. /\ Cardinality(P0) \in Nat /\ Cardinality(zeros) = Cardinality(P0)
       /\ Cardinality(P0) = 0 <=> zeros = {}
  <2>1. \A k \in D : k \in P0 <=> h[k] \in zeros
    BY <1>2, <1>3, <1>6
  <2>2. P0 \subseteq D /\ zeros \subseteq E /\ IsFiniteSet(D)
    BY <1>1, <1>3
  <2> HIDE DEF P0, zeros
  <2>3. IsImage(h, D, E, P0, zeros)
    BY <2>1, <2>2 DEF IsImage
  <2> QED BY <2>3, SameCount
<1>11. PICK names : names = [b \in B |-> bit_ids[b + 1]]
  OBVIOUS
<1>12. names \in Bijection(B, BitsTaken) /\ IsFiniteSet(B)
  <2>1. names \in [B -> BitsTaken]
    BY <1>5, <1>11
  <2>2. \A a, b \in B : names[a] = names[b] => a = b
    BY <1>5, <1>11
  <2>3. \A m \in BitsTaken : \E b \in B : names[b] = m
    BY <1>5, <1>11
  <2>4. IsFiniteSet(B)
    BY <1>5, FS_Interval
  <2> QED BY <2>1, <2>2, <2>3, <2>4
          DEF Bijection, Injection, Surjection, IsInjective
<1>13. \A b \in B : b \in Determining(j) <=> names[b] \in agreeing
  <2>1. ASSUME NEW b \in B
        PROVE  b \in Determining(j) <=> bit_ids[b + 1] \in agreeing
    <3>1. bit_ids[b + 1] \in all
      BY <1>5, <1>7
    <3>2. (\A k \in D : Has1(k, j) => b \in segdata[k].bits)
             <=> \A s \in ones : bit_ids[b + 1] \in BitsIn(content[s])
      BY <1>2, <1>3, <1>6
    <3>3. (\A k \in D : Has0(k, j) => b \notin segdata[k].bits)
             <=> \A s \in zeros : bit_ids[b + 1] \notin BitsIn(content[s])
      <4>1. ASSUME \A k \in D : Has0(k, j) => b \notin segdata[k].bits,
                   NEW s \in zeros
            PROVE  bit_ids[b + 1] \notin BitsIn(content[s])
        <5>1. PICK k \in D : h[k] = s
          BY <1>2, <1>3
        <5>2. Has0(k, j)
          BY <5>1, <1>6
        <5> QED BY <4>1, <5>1, <5>2, <1>6
      <4>2. ASSUME \A s \in zeros : bit_ids[b + 1] \notin BitsIn(content[s]),
                   NEW k \in D, Has0(k, j)
            PROVE  b \notin segdata[k].bits
        <5>1. h[k] \in zeros
          BY <4>2, <1>2, <1>3, <1>6
        <5> QED BY <4>2, <5>1, <1>6
      <4> QED BY <4>1, <4>2
    <3> HIDE DEF ones, zeros
    <3> QED BY <3>1, <3>2, <3>3 DEF Determining, D
  <2> QED BY <2>1, <1>11
<1>14. /\ Cardinality(Determining(j)) \in Nat
       /\ Cardinality(agreeing) = Cardinality(Determining(j))
  <2>1. Determining(j) \in SUBSET B
    BY DEF Determining
  <2>2. agreeing \in SUBSET BitsTaken
    BY <1>7
  <2> HIDE DEF agreeing, B
  <2>3. IsImage(names, B, BitsTaken, Determining(j), agreeing)
    BY <1>12, <1>13, <2>1, <2>2 DEF IsImage
  <2> QED BY <2>3, SameCount
<1>15. {bit_ids[b + 1] : b \in Determining(j)} = agreeing
  <2>1. ASSUME NEW m \in agreeing
        PROVE  \E b \in Determining(j) : m = bit_ids[b + 1]
    <3>1. m \in BitsTaken
      BY <1>7
    <3>2. IdOf(bit_ids, m) \in B /\ bit_ids[IdOf(bit_ids, m) + 1] = m
      BY <3>1, <1>5
    <3> HIDE DEF agreeing, B
    <3> QED BY <3>2, <1>11, <1>13
  <2>2. \A b \in Determining(j) : bit_ids[b + 1] \in agreeing
    <3>1. Determining(j) \in SUBSET B
      BY DEF Determining
    <3> HIDE DEF agreeing, B
    <3> QED BY <3>1, <1>11, <1>13
  <2> HIDE DEF agreeing
  <2> QED BY <2>1, <2>2
<1>16. flags.c \in Int
  BY FlagsAssumption DEF FilesInv
<1> DEFINE N == Cardinality(Determining(j))
           c1 == Cardinality(P1)
           c0 == Cardinality(P0)
<1>17. LineFrom(j) =
          [tag |-> j,
           notes |-> (IF c1 < flags.m THEN {"m1"} ELSE {})
                        \union (IF c0 < flags.m THEN {"m0"} ELSE {})
                        \union (IF c1 + c0 < flags.M THEN {"M"} ELSE {})
                        \union (IF c1 = 0 THEN {"const0"} ELSE {})
                        \union (IF c1 # 0 /\ c0 = 0 THEN {"const1"} ELSE {}),
           candidates |-> IF c1 = 0 THEN {} ELSE Determining(j),
           listed |-> c1 # 0 /\ IsListed(N)]
  BY DEF LineFrom, D
<1> HIDE DEF ones, zeros, agreeing, P1, P0, N, c1, c0
<1>18. LineFrom(j).notes = LineOf(n).notes
  <2>1. c1 = 0 <=> ones = {}
    BY <1>9 DEF c1
  <2>2. c0 = 0 <=> zeros = {}
    BY <1>10 DEF c0
  <2>3. Cardinality(ones) = c1 /\ Cardinality(zeros) = c0
    BY <1>9, <1>10 DEF c1, c0
  <2> QED BY <1>8, <1>17, <2>1, <2>2, <2>3
<1>19. {bit_ids[b + 1] : b \in LineFrom(j).candidates} = LineOf(n).candidates
  <2>1. CASE c1 = 0
    BY <1>8, <1>9, <1>17, <2>1 DEF c1
  <2>2. CASE c1 # 0
    BY <1>8, <1>9, <1>15, <1>17, <2>2 DEF c1
  <2> QED BY <2>1, <2>2
<1>20. LineFrom(j).listed = LineOf(n).listed
  <2>1. c1 = 0 <=> ones = {}
    BY <1>9 DEF c1
  <2>2. IsListed(N) <=> flags.c < 0 \/ N \in 1..flags.c
    BY <1>14, <1>16 DEF N, IsListed
  <2>3. N = Cardinality(agreeing)
    BY <1>14 DEF N
  <2> QED BY <1>8, <1>17, <2>1, <2>2, <2>3 DEF IsListed
<1>21. LineOf(n) = [tag |-> n, notes |-> LineOf(n).notes,
                    candidates |-> LineOf(n).candidates,
                        listed |-> LineOf(n).listed]
  BY <1>8
<1> QED
  BY <1>18, <1>19, <1>20, <1>21 DEF n

\* So the lines are those of the tags of the files.
LEMMA LinesAreOfFiles == ASSUME FilesInv PROVE SolvesTheFiles
<1> DEFINE shown(l) == [tag        |-> tag_ids[l.tag + 1],
                        notes      |-> l.notes,
                        candidates |-> {bit_ids[b + 1] : b \in l.candidates},
                        listed     |-> l.listed]
<1> SUFFICES ASSUME pc = "done"
             PROVE  {shown(l) : l \in out_lines} = {LineOf(t) : t \in TagsOfFiles}
  BY DEF SolvesTheFiles
<1>1. FileInv /\ tag_idx = Len(tag_ids) /\ files \in Inputs /\ file = Len(files)
      /\ Identify(tag_ids, TagsTaken)
  BY DEF FilesInv, FileInv
<1>2. TagsTaken = TagsOfFiles
  BY <1>1, TagsAreThose
<1>3. /\ \A l \in out_lines :
             l = LineFrom(l.tag) /\ l.tag \in 0..(Len(tag_ids) - 1)
      /\ \A j \in 0..(Len(tag_ids) - 1) : LineFrom(j) \in out_lines
  <2>1. {l.tag : l \in out_lines} = 0..(Len(tag_ids) - 1)
    BY <1>1 DEF FilesInv, IInv, TrueCandidates, SolvedTags
  <2>2. \A l \in out_lines : l = LineFrom(l.tag)
    BY DEF FilesInv, CountInv
  <2>3. ASSUME NEW j \in 0..(Len(tag_ids) - 1) PROVE LineFrom(j) \in out_lines
    <3>1. PICK l \in out_lines : l.tag = j
      BY <2>1
    <3> QED BY <3>1, <2>2
  <2> QED BY <2>1, <2>2, <2>3
<1>4. \A j \in 0..(Len(tag_ids) - 1) : shown(LineFrom(j)) = LineOf(tag_ids[j + 1])
  <2>1. \A j : LineFrom(j).tag = j
    BY DEF LineFrom
  <2> QED BY <2>1, LineIsOfFiles
<1> HIDE DEF shown
<1>5. /\ \A j \in 0..(Len(tag_ids) - 1) : tag_ids[j + 1] \in TagsTaken
      /\ \A t \in TagsTaken : \E j \in 0..(Len(tag_ids) - 1) : tag_ids[j + 1] = t
  BY <1>1, IdOfName
<1>6. ASSUME NEW l \in out_lines
      PROVE  \E t \in TagsOfFiles : shown(l) = LineOf(t)
  <2>1. l.tag \in 0..(Len(tag_ids) - 1) /\ shown(l) = shown(LineFrom(l.tag))
    BY <1>3
  <2>2. shown(l) = LineOf(tag_ids[l.tag + 1])
            /\ tag_ids[l.tag + 1] \in TagsOfFiles
    BY <2>1, <1>2, <1>4, <1>5
  <2> QED BY <2>2
<1>7. ASSUME NEW t \in TagsOfFiles
      PROVE  \E l \in out_lines : shown(l) = LineOf(t)
  <2>1. PICK j \in 0..(Len(tag_ids) - 1) : tag_ids[j + 1] = t
    BY <1>2, <1>5
  <2>2. shown(LineFrom(j)) = LineOf(t) /\ LineFrom(j) \in out_lines
    BY <2>1, <1>3, <1>4
  <2> QED BY <2>2
<1> QED
  BY <1>6, <1>7

\* When segmatch is done, the lines it has written are those that the files call
\* for, whatever numbers it gave to the bits, the tags and the segments on its
\* way (read_input and main).
THEOREM TheFilesAreSolved == Spec => []SolvesTheFiles
<1>1. Init => FilesInv
  BY InitFilesInv
<1>2. FilesInv /\ [Next]_vars => FilesInv'
  BY NextFilesInv
<1>3. FilesInv => SolvesTheFiles
  BY LinesAreOfFiles
<1> QED
  BY <1>1, <1>2, <1>3, PTL DEF Spec

-----------------------------------------------------------------------------
\* The places of the lines parsed so far, and of the next one.
Parsed ==
    {p \in Places : \/ p[1] <= in_file
                    \/ p[1] = in_file + 1 /\ p[2] <= line}

Here == <<in_file + 1, line + 1>>

\* The line is one of a segment of the name.
Within(p, n) ==
    \E i \in 1..(p[2] - 1) : LastBefore(p, i) /\ At(<<p[1], i>>).name = n

\* The name of the segment that the next line is in, if it is in one.
AtHand ==
    {At(<<in_file + 1, i>>).name :
        i \in {k \in 1..line : LastBefore(<<in_file + 1, line>>, k)}}

NamesParsed == {At(p).name : p \in {q \in Parsed : At(q).kind = "seg"}}

BitsParsed(n) ==
    {At(p).name : p \in {q \in Parsed : At(q).kind = "bit" /\ Within(q, n)}}

FeaturesParsed(n) ==
    {At(p).name : p \in {q \in Parsed :
        /\ At(q).kind = "tag" /\ At(q).value \in Correlator!NonZero
        /\ Within(q, n)}}

\* Each segment of the program is what the lines parsed so far say of it.
ParsedInv ==
    /\ files \in Inputs
    /\ in_file \in Nat /\ line \in Nat
    /\ in_file <= Len(files)
    /\ in_file < Len(files) =>
           /\ line <= Len(files[in_file + 1].items)
           /\ inst = AtHand
    /\ \A m, n \in inst : m = n
    /\ inst_bits = [n \in NamesParsed |-> BitsParsed(n)]
    /\ inst_features = [n \in NamesParsed |-> FeaturesParsed(n)]
    /\ settable_bits = UNION {BitsParsed(n) : n \in NamesParsed}
    /\ UNION {FeaturesParsed(n) : n \in NamesParsed} \subseteq extant_features
    /\ IsFiniteSet(extant_features)

\* The bits that a feature explains, before any is left to another one.
Explained(f) ==
    LET with    == Correlator!With(f)
        without == DOMAIN inst_bits \ with
    IN {b \in Correlator!AlwaysSet(with) :
           without = {} \/ b \notin Correlator!AlwaysSet(without)}

\* A feature that has been processed is implied by those that it implies and
\* that have not been, so that their bits will not be its own.
ProcessedInv ==
    /\ deps = [f \in extant_features |-> Correlator!DepsOf(f)]
    /\ DOMAIN featbits = extant_features
    /\ DOMAIN count = extant_features
    /\ ord_feats \subseteq extant_features
    /\ \A f \in ord_feats : featbits[f] = {}
    /\ \A f \in extant_features \ ord_feats :
           /\ count[f] = Cardinality(Correlator!With(f))
           /\ \A d \in deps[f] \intersect ord_feats : f \in deps[d]
           /\ featbits[f] = Explained(f) \ UNION {featbits[d] : d \in deps[f]}

CorrelateInv ==
    /\ files \in Inputs
    /\ correlate_pc \in {"parsing", "parsed", "processing", "written"}
           => ParsedInv
    /\ correlate_pc \in {"parsed", "processing", "written"}
           => in_file = Len(files)
    /\ correlate_pc \in {"processing", "written"} => ProcessedInv
    /\ correlate_pc = "written" =>
           /\ ord_feats = {}
           /\ td = {<<f, featbits[f]>> :
                       f \in {g \in extant_features : count[g] >= 2}}

-----------------------------------------------------------------------------

\* The segment that a line parsed is in has been parsed.
LEMMA SegmentIsParsed ==
  ASSUME ParsedInv, NEW q \in Parsed, NEW n, Within(q, n)
  PROVE  n \in NamesParsed
<1>1. q \in Places /\ (q[1] <= in_file \/ (q[1] = in_file + 1 /\ q[2] <= line))
  BY DEF Parsed
<1>2. /\ q[1] \in 1..Len(files) /\ q[2] \in 1..Len(files[q[1]].items)
      /\ q[1] \in Nat /\ q[2] \in Nat
  BY <1>1, Place DEF ParsedInv
<1>3. PICK i \in 1..(q[2] - 1) : LastBefore(q, i) /\ At(<<q[1], i>>).name = n
  BY DEF Within
<1> DEFINE p == <<q[1], i>>
<1>4. Len(files[q[1]].items) \in Nat
  BY <1>2, Sequences DEF ParsedInv
<1>5. i \in 1..Len(files[q[1]].items) /\ i <= q[2] /\ i \in Nat
  BY <1>2, <1>4
<1>6. p \in Places
  BY <1>2, <1>5, Place DEF ParsedInv
<1>7. p[1] = q[1] /\ p[2] = i
  OBVIOUS
<1>8. p \in Parsed
  <2> HIDE DEF p
  <2>1. in_file \in Nat /\ line \in Nat
    BY DEF ParsedInv
  <2> QED BY <2>1, <1>1, <1>2, <1>5, <1>6, <1>7 DEF Parsed
<1>9. At(p).kind = "seg" /\ At(p).name = n
  BY <1>3 DEF LastBefore
<1> HIDE DEF p
<1> QED
  BY <1>8, <1>9 DEF NamesParsed

\* A line is parsed: the next one, which is in the segment at hand.
LEMMA LineIsParsed ==
  ASSUME ParsedInv, NEW kind, Correlator!TakeLine(kind)
  PROVE  /\ files' = files /\ in_file' = in_file /\ line' = line + 1
         /\ in_file < Len(files) /\ line + 1 <= Len(files[in_file + 1].items)
         /\ At(Here) = Correlator!Line /\ At(Here).kind = kind
         /\ Here \in Places /\ Places' = Places
         /\ Parsed' = Parsed \union {Here}
         /\ kind # "seg" => \A n : Within(Here, n) <=> n \in inst
<1>1. /\ files' = files /\ in_file' = in_file /\ line' = line + 1
      /\ in_file < Len(files) /\ line < Len(files[in_file + 1].items)
      /\ Correlator!Line.kind = kind
  BY DEF Correlator!TakeLine, Correlator!Parsing, Correlator!Line
<1>2. files \in Inputs /\ in_file \in Nat /\ line \in Nat
  BY DEF ParsedInv
<1>3. Len(files) \in Nat /\ in_file + 1 \in 1..Len(files)
  BY <1>1, <1>2, Sequences
<1>4. /\ Len(files[in_file + 1].items) \in Nat
      /\ line + 1 \in 1..Len(files[in_file + 1].items)
  <2>1. Len(files[in_file + 1].items) \in Nat
    BY <1>2, <1>3, Sequences
  <2> QED BY <2>1, <1>1, <1>2
<1>5. Here \in Places
  BY <1>2, <1>3, <1>4, Place DEF Here
<1>6. Here[1] = in_file + 1 /\ Here[2] = line + 1
  BY DEF Here
<1>7. At(Here) = Correlator!Line
  BY <1>6 DEF At, Correlator!Line
<1>8. Places' = Places
  BY <1>1 DEF Places
<1>9. Parsed' = Parsed \union {Here}
  <2>1. ASSUME NEW p \in Places
        PROVE  (p[1] <= in_file \/ (p[1] = in_file + 1 /\ p[2] <= line + 1))
               <=> \/ p[1] <= in_file
                   \/ p[1] = in_file + 1 /\ p[2] <= line
                   \/ p = Here
    <3>1. p[1] \in Nat /\ p[2] \in Nat /\ p = <<p[1], p[2]>>
      BY <1>2, Place
    <3>2. p = Here <=> p[1] = in_file + 1 /\ p[2] = line + 1
      BY <3>1 DEF Here
    <3>3. p[2] <= line + 1 <=> p[2] <= line \/ p[2] = line + 1
      BY <3>1, <1>2
    <3> QED BY <3>2, <3>3
  <2>2. Parsed' = {p \in Places : \/ p[1] <= in_file
                                  \/ p[1] = in_file + 1 /\ p[2] <= line + 1}
    BY <1>1, <1>8 DEF Parsed
  <2> QED
    BY <2>1, <2>2, <1>5 DEF Parsed
<1>10. ASSUME kind # "seg", NEW n PROVE Within(Here, n) <=> n \in inst
  <2> DEFINE f == in_file + 1
             before == <<f, line>>
  <2>1. inst = {At(<<f, i>>).name : i \in {k \in 1..line : LastBefore(before, k)}}
    BY <1>1 DEF ParsedInv, AtHand
  <2>2. ASSUME NEW i \in 1..line
        PROVE  LastBefore(Here, i) <=> LastBefore(before, i)
    <3>1. (i + 1)..(line + 1) = ((i + 1)..line) \union {line + 1}
      BY <1>2
    <3>2. At(<<f, line + 1>>).kind # "seg"
      BY <1>1, <1>7, <1>10 DEF Here
    <3>3. before[1] = f /\ before[2] = line /\ Here[1] = f /\ Here[2] = line + 1
      BY DEF Here
    <3> HIDE DEF f, before
    <3> QED BY <3>1, <3>2, <3>3 DEF LastBefore
  <2>3. 1..(Here[2] - 1) = 1..line
    BY <1>2, <1>6
  <2>4. Here[1] = f
    BY <1>6
  <2> HIDE DEF f, before
  <2> QED BY <2>1, <2>2, <2>3, <2>4 DEF Within
<1> QED
  BY <1>1, <1>2, <1>3, <1>4, <1>5, <1>7, <1>8, <1>9, <1>10

\* What one more line adds to what the lines say.
LEMMA NextParsed ==
  ASSUME ParsedInv, NEW kind, Correlator!TakeLine(kind)
  PROVE  /\ NamesParsed' = NamesParsed
                \union IF kind = "seg" THEN {At(Here).name} ELSE {}
         /\ \A n : BitsParsed(n)' = BitsParsed(n)
                \union IF kind = "bit" /\ n \in inst THEN {At(Here).name} ELSE {}
         /\ \A n : FeaturesParsed(n)' = FeaturesParsed(n)
                \union IF kind = "tag" /\ n \in inst
                          /\ At(Here).value \in Correlator!NonZero
                       THEN {At(Here).name} ELSE {}
<1>1. /\ files' = files /\ Parsed' = Parsed \union {Here}
      /\ At(Here).kind = kind
      /\ kind # "seg" => \A n : Within(Here, n) <=> n \in inst
  BY LineIsParsed
<1>2. \A p : At(p)' = At(p)
  BY <1>1 DEF At
<1>3. \A p, n : Within(p, n)' <=> Within(p, n)
  BY <1>1 DEF Within, LastBefore, At
<1>4. NamesParsed' = NamesParsed
          \union IF kind = "seg" THEN {At(Here).name} ELSE {}
  <2>1. NamesParsed' = {At(p).name : p \in {q \in Parsed \union {Here} :
                                               At(q).kind = "seg"}}
    BY <1>1 DEF NamesParsed, At
  <2> QED
    BY <1>1, <2>1 DEF NamesParsed
<1>5. ASSUME NEW n
      PROVE  BitsParsed(n)' = BitsParsed(n)
                \union IF kind = "bit" /\ n \in inst THEN {At(Here).name} ELSE {}
  <2>1. BitsParsed(n)' = {At(p).name : p \in {q \in Parsed \union {Here} :
                              At(q).kind = "bit" /\ Within(q, n)}}
    BY <1>1 DEF BitsParsed, At, Within, LastBefore
  <2>2. kind = "bit" => (Within(Here, n) <=> n \in inst)
    BY <1>1
  <2> QED
    BY <1>1, <2>1, <2>2 DEF BitsParsed
<1>6. ASSUME NEW n
      PROVE  FeaturesParsed(n)' = FeaturesParsed(n)
                \union IF kind = "tag" /\ n \in inst
                          /\ At(Here).value \in Correlator!NonZero
                       THEN {At(Here).name} ELSE {}
  <2>1. FeaturesParsed(n)' =
            {At(p).name : p \in {q \in Parsed \union {Here} :
                /\ At(q).kind = "tag" /\ At(q).value \in Correlator!NonZero
                /\ Within(q, n)}}
    BY <1>1 DEF FeaturesParsed, At, Within, LastBefore
  <2>2. kind = "tag" => (Within(Here, n) <=> n \in inst)
    BY <1>1
  <2> QED
    BY <1>1, <2>1, <2>2 DEF FeaturesParsed
<1> QED
  BY <1>4, <1>5, <1>6

\* A segment is at hand once it starts, and until another one does.
LEMMA NextAtHand ==
  ASSUME ParsedInv, NEW kind, Correlator!TakeLine(kind)
  PROVE  AtHand' = IF kind = "seg" THEN {At(Here).name} ELSE inst
<1> DEFINE f == in_file + 1
           before == <<f, line>>
<1>1. /\ files' = files /\ in_file' = in_file /\ line' = line + 1
      /\ in_file < Len(files) /\ At(Here).kind = kind
  BY LineIsParsed
<1>2. in_file \in Nat /\ line \in Nat
  BY DEF ParsedInv
<1>3. inst = {At(<<f, i>>).name : i \in {k \in 1..line : LastBefore(before, k)}}
  BY <1>1 DEF ParsedInv, AtHand
<1>4. AtHand' = {At(<<f, i>>).name :
                    i \in {k \in 1..(line + 1) : LastBefore(Here, k)}}
  BY <1>1 DEF AtHand, LastBefore, At, Here
<1>5. 1..(line + 1) = 1..line \union {line + 1}
  BY <1>2
<1>6. /\ before[1] = f /\ before[2] = line
      /\ Here[1] = f /\ Here[2] = line + 1 /\ Here = <<f, line + 1>>
  BY DEF Here
<1>7. CASE kind = "seg"
  <2>1. ASSUME NEW i \in 1..line PROVE ~LastBefore(Here, i)
    <3>1. line + 1 \in (i + 1)..(line + 1)
      BY <1>2
    <3> HIDE DEF f
    <3> QED BY <3>1, <1>1, <1>6, <1>7 DEF LastBefore
  <2>2. LastBefore(Here, line + 1)
    <3>1. (line + 1 + 1)..(line + 1) = {}
      BY <1>2
    <3> HIDE DEF f
    <3> QED BY <3>1, <1>1, <1>6, <1>7 DEF LastBefore
  <2> HIDE DEF f
  <2>3. {k \in 1..(line + 1) : LastBefore(Here, k)} = {line + 1}
    BY <2>1, <2>2, <1>5
  <2> QED
    BY <2>3, <1>4, <1>6, <1>7
<1>8. CASE kind # "seg"
  <2>1. ASSUME NEW i \in 1..line
        PROVE  LastBefore(Here, i) <=> LastBefore(before, i)
    <3>1. (i + 1)..(line + 1) = ((i + 1)..line) \union {line + 1}
      BY <1>2
    <3> HIDE DEF f, before
    <3> QED BY <3>1, <1>1, <1>6, <1>8 DEF LastBefore
  <2> HIDE DEF f, before
  <2>2. ~LastBefore(Here, line + 1)
    BY <1>1, <1>6, <1>8 DEF LastBefore
  <2>3. {k \in 1..(line + 1) : LastBefore(Here, k)}
           = {k \in 1..line : LastBefore(before, k)}
    BY <2>1, <2>2, <1>5
  <2> QED
    BY <2>3, <1>3, <1>4, <1>8
<1> QED
  BY <1>7, <1>8

-----------------------------------------------------------------------------

\* No line has been parsed.
LEMMA InitParsed == ASSUME SolversInit PROVE ParsedInv
<1>1. /\ files \in Inputs /\ in_file = 0 /\ line = 0 /\ inst = {}
      /\ inst_bits = <<>> /\ inst_features = <<>>
      /\ settable_bits = {} /\ extant_features = {}
  BY DEF SolversInit, Init, Correlator!InitCorrelate
<1>2. Len(files) \in Nat /\ \A f \in DOMAIN files : Len(files[f].items) \in Nat
      /\ DOMAIN files = 1..Len(files)
  BY <1>1, Sequences
<1>3. Parsed = {}
  <2>1. \A p \in Places :
            p[1] \in 1..Len(files) /\ p[2] \in 1..Len(files[p[1]].items)
                          /\ p[1] \in Nat /\ p[2] \in Nat
    BY <1>1, Place
  <2>2. ASSUME NEW p \in Places PROVE ~(p[1] <= 0) /\ ~(p[2] <= 0)
    <3>1. p[1] \in DOMAIN files
      BY <2>1, <1>2
    <3>2. Len(files[p[1]].items) \in Nat
      BY <3>1, <1>2
    <3> QED BY <2>1, <3>2, <1>2
  <2> QED BY <1>1, <2>2 DEF Parsed
<1>4. AtHand = {}
  BY <1>1 DEF AtHand
<1>5. NamesParsed = {}
  BY <1>3 DEF NamesParsed
<1>6. IsFiniteSet(extant_features)
  BY <1>1, FS_EmptySet
<1>7. in_file < Len(files) => line <= Len(files[in_file + 1].items)
  BY <1>1, <1>2
<1>8. inst_bits = [n \in NamesParsed |-> BitsParsed(n)]
      /\ inst_features = [n \in NamesParsed |-> FeaturesParsed(n)]
  BY <1>1, <1>5
<1> QED
  BY <1>1, <1>2, <1>4, <1>5, <1>6, <1>7, <1>8 DEF ParsedInv


\* What is said of a segment that has not been parsed.
LEMMA NothingParsed ==
  ASSUME ParsedInv, NEW n, n \notin NamesParsed
  PROVE  BitsParsed(n) = {} /\ FeaturesParsed(n) = {}
BY SegmentIsParsed DEF BitsParsed, FeaturesParsed

\* The segment at hand has been parsed.
LEMMA AtHandParsed ==
  ASSUME ParsedInv, in_file < Len(files)
  PROVE  inst \subseteq NamesParsed
<1> SUFFICES ASSUME NEW n \in inst PROVE n \in NamesParsed
  OBVIOUS
<1>1. /\ files \in Inputs /\ in_file \in Nat /\ line \in Nat
      /\ line <= Len(files[in_file + 1].items) /\ inst = AtHand
  BY DEF ParsedInv
<1>2. PICK i \in 1..line : /\ LastBefore(<<in_file + 1, line>>, i)
                           /\ n = At(<<in_file + 1, i>>).name
  BY <1>1 DEF AtHand
<1> DEFINE p == <<in_file + 1, i>>
<1>3. p[1] = in_file + 1 /\ p[2] = i
  OBVIOUS
<1>4. in_file + 1 \in 1..Len(files) /\ Len(files[in_file + 1].items) \in Nat
  BY <1>1, Sequences
<1>5. i \in 1..Len(files[in_file + 1].items) /\ i <= line
  BY <1>1, <1>2, <1>4
<1>6. p \in Places
  BY <1>1, <1>4, <1>5, Place
<1>7. At(p).kind = "seg" /\ At(p).name = n
  BY <1>2 DEF LastBefore
<1> HIDE DEF p
<1>8. p \in Parsed
  BY <1>3, <1>5, <1>6 DEF Parsed
<1> QED
  BY <1>7, <1>8 DEF NamesParsed

\* A segment is at hand, new or come back to.
LEMMA ParseSegStep == ASSUME ParsedInv, Correlator!ParseSeg PROVE ParsedInv'
<1> DEFINE name == At(Here).name
<1>1. Correlator!TakeLine("seg")
  BY DEF Correlator!ParseSeg
<1>2. /\ files' = files /\ in_file' = in_file /\ line' = line + 1
      /\ in_file < Len(files) /\ line + 1 <= Len(files[in_file + 1].items)
      /\ At(Here) = Correlator!Line
  BY <1>1, LineIsParsed
<1>3. /\ NamesParsed' = NamesParsed \union {name}
      /\ \A n : BitsParsed(n)' = BitsParsed(n)
      /\ \A n : FeaturesParsed(n)' = FeaturesParsed(n)
  <2>1. /\ NamesParsed' = NamesParsed
               \union IF "seg" = "seg" THEN {At(Here).name} ELSE {}
        /\ \A n : BitsParsed(n)' = BitsParsed(n)
               \union IF "seg" = "bit" /\ n \in inst THEN {At(Here).name} ELSE {}
        /\ \A n : FeaturesParsed(n)' = FeaturesParsed(n)
               \union IF "seg" = "tag" /\ n \in inst
                         /\ At(Here).value \in Correlator!NonZero
                      THEN {At(Here).name} ELSE {}
    BY <1>1, NextParsed
  <2> QED BY <2>1
<1>4. AtHand' = {name}
  BY <1>1, NextAtHand
<1>5. /\ inst' = {name}
      /\ inst_bits' = Correlator!Made(inst_bits, name)
      /\ inst_features' = Correlator!Made(inst_features, name)
      /\ settable_bits' = settable_bits /\ extant_features' = extant_features
  BY <1>2 DEF Correlator!ParseSeg
<1>6. name \notin NamesParsed =>
          BitsParsed(name) = {} /\ FeaturesParsed(name) = {}
  BY NothingParsed
<1> HIDE DEF name
<1>7. inst_bits' = [n \in NamesParsed' |-> BitsParsed(n)']
  <2>1. inst_bits = [n \in NamesParsed |-> BitsParsed(n)]
    BY DEF ParsedInv
  <2> QED BY <2>1, <1>3, <1>5, <1>6 DEF Correlator!Made
<1>8. inst_features' = [n \in NamesParsed' |-> FeaturesParsed(n)']
  <2>1. inst_features = [n \in NamesParsed |-> FeaturesParsed(n)]
    BY DEF ParsedInv
  <2> QED BY <2>1, <1>3, <1>5, <1>6 DEF Correlator!Made
<1>9. UNION {BitsParsed(n)' : n \in NamesParsed'} = settable_bits'
  <2>1. {BitsParsed(n)' : n \in NamesParsed'}
           = {BitsParsed(n) : n \in NamesParsed} \union {BitsParsed(name)}
    BY <1>3
  <2>2. BitsParsed(name) \subseteq settable_bits
    BY <1>6 DEF ParsedInv
  <2> QED BY <2>1, <2>2, <1>5 DEF ParsedInv
<1>10. UNION {FeaturesParsed(n)' : n \in NamesParsed'} \subseteq extant_features'
  <2>1. {FeaturesParsed(n)' : n \in NamesParsed'}
           = {FeaturesParsed(n) : n \in NamesParsed} \union {FeaturesParsed(name)}
    BY <1>3
  <2>2. FeaturesParsed(name) \subseteq extant_features
    BY <1>6 DEF ParsedInv
  <2> QED BY <2>1, <2>2, <1>5 DEF ParsedInv
<1>11. line' \in Nat
  BY <1>2 DEF ParsedInv
<1> QED
  BY <1>2, <1>4, <1>5, <1>7, <1>8, <1>9, <1>10, <1>11 DEF ParsedInv

\* A bit is set in the segment at hand.
LEMMA ParseBitStep == ASSUME ParsedInv, Correlator!ParseBit PROVE ParsedInv'
<1> DEFINE name == At(Here).name
<1>1. Correlator!TakeLine("bit")
  BY DEF Correlator!ParseBit
<1>2. /\ files' = files /\ in_file' = in_file /\ line' = line + 1
      /\ in_file < Len(files) /\ line + 1 <= Len(files[in_file + 1].items)
      /\ At(Here) = Correlator!Line
  BY <1>1, LineIsParsed
<1>3. /\ NamesParsed' = NamesParsed
      /\ \A n : BitsParsed(n)' = BitsParsed(n)
                                    \union IF n \in inst THEN {name} ELSE {}
      /\ \A n : FeaturesParsed(n)' = FeaturesParsed(n)
  <2>1. /\ NamesParsed' = NamesParsed
               \union IF "bit" = "seg" THEN {At(Here).name} ELSE {}
        /\ \A n : BitsParsed(n)' = BitsParsed(n)
               \union IF "bit" = "bit" /\ n \in inst THEN {At(Here).name} ELSE {}
        /\ \A n : FeaturesParsed(n)' = FeaturesParsed(n)
               \union IF "bit" = "tag" /\ n \in inst
                         /\ At(Here).value \in Correlator!NonZero
                      THEN {At(Here).name} ELSE {}
    BY <1>1, NextParsed
  <2> QED BY <2>1
<1>4. AtHand' = inst
  BY <1>1, NextAtHand
<1>5. /\ inst' = inst /\ settable_bits' = settable_bits \union {name}
      /\ inst_features' = inst_features /\ extant_features' = extant_features
      /\ \E s \in inst :
            inst_bits' = [inst_bits EXCEPT ![s] = @ \union {name}]
  BY <1>2 DEF Correlator!ParseBit
<1> HIDE DEF name
<1>6. PICK s \in inst : inst_bits' = [inst_bits EXCEPT ![s] = @ \union {name}]
  BY <1>5
<1>7. s \in NamesParsed
  BY <1>2, AtHandParsed
<1>8. inst = {s}
  BY <1>6 DEF ParsedInv
<1>9. inst_bits' = [n \in NamesParsed' |-> BitsParsed(n)']
  <2>1. inst_bits = [n \in NamesParsed |-> BitsParsed(n)]
    BY DEF ParsedInv
  <2> QED BY <2>1, <1>3, <1>6, <1>7, <1>8
<1>10. inst_features' = [n \in NamesParsed' |-> FeaturesParsed(n)']
  BY <1>3, <1>5 DEF ParsedInv
<1>11. UNION {BitsParsed(n)' : n \in NamesParsed'} = settable_bits'
  <2>1. \A b : (\E n \in NamesParsed : b \in BitsParsed(n)') <=>
                  b = name \/ \E n \in NamesParsed : b \in BitsParsed(n)
    BY <1>3, <1>7, <1>8
  <2>2. settable_bits = UNION {BitsParsed(n) : n \in NamesParsed}
    BY DEF ParsedInv
  <2>3. \A b : b \in settable_bits' <=>
                  b = name \/ \E n \in NamesParsed : b \in BitsParsed(n)
    BY <2>2, <1>5
  <2>4. \A b : b \in UNION {BitsParsed(n)' : n \in NamesParsed'} <=>
                  \E n \in NamesParsed : b \in BitsParsed(n)'
    BY <1>3
  <2> QED BY <2>1, <2>3, <2>4
<1>12. UNION {FeaturesParsed(n)' : n \in NamesParsed'} \subseteq extant_features'
  <2>1. {FeaturesParsed(n)' : n \in NamesParsed'}
           = {FeaturesParsed(n) : n \in NamesParsed}
    BY <1>3
  <2> QED BY <2>1, <1>5 DEF ParsedInv
<1>13. line' \in Nat
  BY <1>2 DEF ParsedInv
<1> QED
  BY <1>2, <1>4, <1>5, <1>9, <1>10, <1>11, <1>12, <1>13 DEF ParsedInv

\* A feature is known, and is in the segment at hand if it is not 0.
LEMMA ParseTagStep == ASSUME ParsedInv, Correlator!ParseTag PROVE ParsedInv'
<1> DEFINE name == At(Here).name
<1>1. Correlator!TakeLine("tag")
  BY DEF Correlator!ParseTag
<1>2. /\ files' = files /\ in_file' = in_file /\ line' = line + 1
      /\ in_file < Len(files) /\ line + 1 <= Len(files[in_file + 1].items)
      /\ At(Here) = Correlator!Line
  BY <1>1, LineIsParsed
<1>3. /\ NamesParsed' = NamesParsed
      /\ \A n : BitsParsed(n)' = BitsParsed(n)
      /\ \A n : FeaturesParsed(n)' = FeaturesParsed(n)
             \union IF n \in inst
                       /\ At(Here).value \in Correlator!NonZero THEN {name} ELSE {}
  <2>1. /\ NamesParsed' = NamesParsed
               \union IF "tag" = "seg" THEN {At(Here).name} ELSE {}
        /\ \A n : BitsParsed(n)' = BitsParsed(n)
               \union IF "tag" = "bit" /\ n \in inst THEN {At(Here).name} ELSE {}
        /\ \A n : FeaturesParsed(n)' = FeaturesParsed(n)
               \union IF "tag" = "tag" /\ n \in inst
                         /\ At(Here).value \in Correlator!NonZero
                      THEN {At(Here).name} ELSE {}
    BY <1>1, NextParsed
  <2> QED BY <2>1
<1>4. AtHand' = inst
  BY <1>1, NextAtHand
<1>5. /\ inst' = inst /\ settable_bits' = settable_bits
      /\ inst_bits' = inst_bits
      /\ extant_features' = extant_features \union {name}
      /\ IF At(Here).value \in Correlator!NonZero
         THEN \E s \in inst :
                 inst_features' = [inst_features EXCEPT ![s] = @ \union {name}]
         ELSE UNCHANGED inst_features
  <2> QED BY <1>2 DEF Correlator!ParseTag
<1> DEFINE new == IF At(Here).value \in Correlator!NonZero THEN inst ELSE {}
<1> HIDE DEF name
<1>6. \A n : FeaturesParsed(n)' = FeaturesParsed(n)
                                     \union IF n \in new THEN {name} ELSE {}
  BY <1>3
<1>7. new \subseteq NamesParsed
  BY <1>2, AtHandParsed
<1>8. inst_features' = [n \in NamesParsed' |-> FeaturesParsed(n)']
  <2>1. inst_features = [n \in NamesParsed |-> FeaturesParsed(n)]
    BY DEF ParsedInv
  <2>2. CASE At(Here).value \in Correlator!NonZero
    <3>1. PICK s \in inst :
             inst_features' = [inst_features EXCEPT ![s] = @ \union {name}]
      BY <1>5, <2>2
    <3>2. new = {s}
      BY <3>1, <2>2 DEF ParsedInv
    <3> HIDE DEF new
    <3>3. /\ DOMAIN inst_features = NamesParsed
          /\ \A n \in NamesParsed : inst_features[n] = FeaturesParsed(n)
      BY <2>1
    <3>4. s \in NamesParsed
      BY <3>2, <1>7
    <3>5. inst_features' = [n \in NamesParsed |->
              IF n = s THEN inst_features[n] \union {name} ELSE inst_features[n]]
      BY <3>1, <3>3
    <3>6. \A n \in NamesParsed :
             FeaturesParsed(n)' = IF n = s THEN inst_features[n] \union {name}
                                           ELSE inst_features[n]
      BY <3>2, <3>3, <3>4, <1>6
    <3> QED BY <3>5, <3>6, <1>3
  <2>3. CASE At(Here).value \notin Correlator!NonZero
    BY <2>1, <2>3, <1>3, <1>5
  <2> QED BY <2>2, <2>3
<1> HIDE DEF new
<1>9. inst_bits' = [n \in NamesParsed' |-> BitsParsed(n)']
  BY <1>3, <1>5 DEF ParsedInv
<1>10. UNION {BitsParsed(n)' : n \in NamesParsed'} = settable_bits'
  <2>1. {BitsParsed(n)' : n \in NamesParsed'}
           = {BitsParsed(n) : n \in NamesParsed}
    BY <1>3
  <2> QED BY <2>1, <1>5 DEF ParsedInv
<1>11. UNION {FeaturesParsed(n)' : n \in NamesParsed'} \subseteq extant_features'
  <2>1. ASSUME NEW n \in NamesParsed
        PROVE  FeaturesParsed(n)' \subseteq extant_features'
    <3>1. FeaturesParsed(n) \subseteq extant_features
      BY DEF ParsedInv
    <3> QED BY <3>1, <1>5, <1>6
  <2> QED BY <2>1, <1>3
<1>12. IsFiniteSet(extant_features')
  BY <1>5, FS_AddElement DEF ParsedInv
<1>13. line' \in Nat
  BY <1>2 DEF ParsedInv
<1> QED
  BY <1>2, <1>4, <1>5, <1>8, <1>9, <1>10, <1>11, <1>12, <1>13 DEF ParsedInv

\* A line says nothing.
LEMMA SkipLineStep == ASSUME ParsedInv, Correlator!SkipLine PROVE ParsedInv'
<1>1. Correlator!TakeLine("other")
  BY DEF Correlator!SkipLine
<1>2. /\ files' = files /\ in_file' = in_file /\ line' = line + 1
      /\ in_file < Len(files) /\ line + 1 <= Len(files[in_file + 1].items)
  BY <1>1, LineIsParsed
<1>3. /\ NamesParsed' = NamesParsed
      /\ \A n : BitsParsed(n)' = BitsParsed(n)
      /\ \A n : FeaturesParsed(n)' = FeaturesParsed(n)
  <2>1. /\ NamesParsed' = NamesParsed
               \union IF "other" = "seg" THEN {At(Here).name} ELSE {}
        /\ \A n : BitsParsed(n)' = BitsParsed(n) \union
               IF "other" = "bit" /\ n \in inst THEN {At(Here).name} ELSE {}
        /\ \A n : FeaturesParsed(n)' = FeaturesParsed(n)
               \union IF "other" = "tag" /\ n \in inst
                         /\ At(Here).value \in Correlator!NonZero
                      THEN {At(Here).name} ELSE {}
    BY <1>1, NextParsed
  <2> QED BY <2>1
<1>4. AtHand' = inst
  BY <1>1, NextAtHand
<1>5. UNCHANGED <<inst, inst_bits, inst_features, settable_bits, extant_features>>
  BY DEF Correlator!SkipLine, Correlator!tile_type
<1>6. /\ {BitsParsed(n)' : n \in NamesParsed'} =
             {BitsParsed(n) : n \in NamesParsed}
      /\ {FeaturesParsed(n)' : n \in NamesParsed'}
            = {FeaturesParsed(n) : n \in NamesParsed}
  BY <1>3
<1>7. /\ inst_bits' = [n \in NamesParsed' |-> BitsParsed(n)']
      /\ inst_features' = [n \in NamesParsed' |-> FeaturesParsed(n)']
  BY <1>3, <1>5 DEF ParsedInv
<1>8. line' \in Nat
  BY <1>2 DEF ParsedInv
<1> QED
  BY <1>2, <1>4, <1>5, <1>6, <1>7, <1>8 DEF ParsedInv

\* A file ends: there is no segment at hand.
LEMMA EndParsingStep ==
  ASSUME ParsedInv, Correlator!EndParsing
  PROVE  ParsedInv' /\ (correlate_pc' = "parsed" => in_file' = Len(files'))
<1>1. /\ files' = files /\ in_file' = in_file + 1 /\ line' = 0 /\ inst' = {}
      /\ in_file < Len(files) /\ line = Len(files[in_file + 1].items)
      /\ UNCHANGED <<inst_bits, inst_features, settable_bits, extant_features>>
      /\ correlate_pc' = IF in_file' = Len(files) THEN "parsed" ELSE "parsing"
  BY DEF Correlator!EndParsing, Correlator!Parsing
<1>2. files \in Inputs /\ in_file \in Nat /\ line \in Nat
  BY DEF ParsedInv
<1>3. /\ Len(files) \in Nat /\ DOMAIN files = 1..Len(files)
      /\ \A f \in DOMAIN files : Len(files[f].items) \in Nat
  BY <1>2, Sequences
<1>4. Parsed' = Parsed
  <2>1. ASSUME NEW p \in Places
        PROVE  \/ p[1] <= in_file + 1
               \/ p[1] = in_file + 1 + 1 /\ p[2] <= 0
               <=> \/ p[1] <= in_file
                   \/ p[1] = in_file + 1 /\ p[2] <= line
    <3>1. /\ p[1] \in 1..Len(files) /\ p[2] \in 1..Len(files[p[1]].items)
          /\ p[1] \in Nat /\ p[2] \in Nat
      BY <1>2, Place
    <3>2. p[2] >= 1 /\ p[2] <= Len(files[p[1]].items)
      BY <3>1, <1>3
    <3>3. CASE p[1] = in_file + 1
      BY <3>1, <3>2, <3>3, <1>1, <1>2
    <3>4. CASE p[1] # in_file + 1
      BY <3>1, <3>2, <3>4, <1>2
    <3> QED BY <3>3, <3>4
  <2>2. Parsed' = {p \in Places : \/ p[1] <= in_file + 1
                                  \/ p[1] = in_file + 1 + 1 /\ p[2] <= 0}
    BY <1>1 DEF Parsed, Places
  <2> QED BY <2>1, <2>2 DEF Parsed
<1>5. /\ NamesParsed' = NamesParsed
      /\ \A n : BitsParsed(n)' = BitsParsed(n)
      /\ \A n : FeaturesParsed(n)' = FeaturesParsed(n)
  BY <1>1, <1>4
      DEF NamesParsed, BitsParsed, FeaturesParsed, At, Within, LastBefore
<1>6. AtHand' = {}
  BY <1>1 DEF AtHand
<1>7. in_file' < Len(files') => line' <= Len(files'[in_file' + 1].items)
  <2>1. ASSUME in_file + 1 < Len(files)
        PROVE  0 <= Len(files[(in_file + 1) + 1].items)
    <3>1. (in_file + 1) + 1 \in DOMAIN files
      BY <2>1, <1>2, <1>3
    <3>2. Len(files[(in_file + 1) + 1].items) \in Nat
      BY <3>1, <1>3
    <3> QED BY <3>2
  <2>2. files' = files /\ in_file' = in_file + 1 /\ line' = 0
    BY <1>1
  <2> QED BY <2>1, <2>2
<1>8. /\ {BitsParsed(n)' : n \in NamesParsed'} =
             {BitsParsed(n) : n \in NamesParsed}
      /\ {FeaturesParsed(n)' : n \in NamesParsed'}
            = {FeaturesParsed(n) : n \in NamesParsed}
  BY <1>5
<1>9. /\ inst_bits' = [n \in NamesParsed' |-> BitsParsed(n)']
      /\ inst_features' = [n \in NamesParsed' |-> FeaturesParsed(n)']
  BY <1>1, <1>5 DEF ParsedInv
<1>10. in_file' \in Nat /\ in_file' <= Len(files') /\ line' \in Nat
  <2>1. in_file \in Nat /\ Len(files) \in Nat /\ in_file < Len(files)
    BY <1>1, <1>2, <1>3
  <2>2. in_file + 1 \in Nat /\ in_file + 1 <= Len(files)
    BY <2>1
  <2>3. files' = files /\ in_file' = in_file + 1 /\ line' = 0
    BY <1>1
  <2> QED BY <2>2, <2>3
<1> QED
  BY <1>1, <1>2, <1>6, <1>7, <1>8, <1>9, <1>10 DEF ParsedInv

-----------------------------------------------------------------------------

\* What the program has of the files stays, once they are parsed.
LEMMA ParsedStays ==
  ASSUME ParsedInv, UNCHANGED Correlator!place, UNCHANGED Correlator!tile_type
  PROVE  ParsedInv'
<1>1. UNCHANGED <<files, in_file, line, inst, inst_features, inst_bits,
                  settable_bits, extant_features>>
  BY DEF Correlator!place, Correlator!tile_type
<1>2. AtHand' = AtHand
  BY <1>1 DEF AtHand, LastBefore, At
<1>3. Parsed' = Parsed
  BY <1>1 DEF Parsed, Places
<1>4. NamesParsed' = NamesParsed
  BY <1>1, <1>3 DEF NamesParsed, At
<1>5. /\ \A n : BitsParsed(n)' = BitsParsed(n)
      /\ \A n : FeaturesParsed(n)' = FeaturesParsed(n)
  BY <1>1, <1>3 DEF BitsParsed, FeaturesParsed, Within, LastBefore, At
<1>6. /\ inst_bits' = [n \in NamesParsed' |-> BitsParsed(n)']
      /\ inst_features' = [n \in NamesParsed' |-> FeaturesParsed(n)']
  BY <1>1, <1>4, <1>5 DEF ParsedInv
<1>7. /\ {BitsParsed(n)' : n \in NamesParsed'} =
             {BitsParsed(n) : n \in NamesParsed}
      /\ {FeaturesParsed(n)' : n \in NamesParsed'}
            = {FeaturesParsed(n) : n \in NamesParsed}
  BY <1>4, <1>5
<1> QED
  BY <1>1, <1>2, <1>6, <1>7 DEF ParsedInv

\* Every step of the parser keeps the segments what the lines say.
LEMMA ParseStep ==
  ASSUME CorrelateInv, Correlator!parse_bits_and_features
  PROVE  CorrelateInv'
<1>1. correlate_pc = "parsing" /\ files \in Inputs /\ ParsedInv
  BY DEF CorrelateInv, Correlator!parse_bits_and_features, Correlator!NoSuchFile,
         Correlator!ParseSeg, Correlator!ParseBit, Correlator!ParseTag,
         Correlator!AbortParsing, Correlator!SkipLine, Correlator!EndParsing,
         Correlator!TakeLine, Correlator!Parsing
<1>2. CASE Correlator!NoSuchFile \/ Correlator!AbortParsing
  BY <1>1, <1>2 DEF CorrelateInv, Correlator!NoSuchFile, Correlator!AbortParsing,
                    Correlator!TakeLine, Correlator!Parsing, Correlator!place
<1>3. CASE \/ Correlator!ParseSeg \/ Correlator!ParseBit \/ Correlator!ParseTag
           \/ Correlator!SkipLine
  <2>1. ParsedInv'
    BY <1>1, <1>3, ParseSegStep, ParseBitStep, ParseTagStep, SkipLineStep
  <2>2. correlate_pc' = "parsing"
    BY <1>1, <1>3 DEF Correlator!ParseSeg, Correlator!ParseBit,
                      Correlator!ParseTag, Correlator!SkipLine
  <2> QED
    BY <2>1, <2>2 DEF CorrelateInv, ParsedInv
<1>4. CASE Correlator!EndParsing
  <2>1. ParsedInv' /\ (correlate_pc' = "parsed" => in_file' = Len(files'))
    BY <1>1, <1>4, EndParsingStep
  <2>2. correlate_pc' \in {"parsing", "parsed"}
    BY <1>4 DEF Correlator!EndParsing
  <2> QED
    BY <2>1, <2>2 DEF CorrelateInv, ParsedInv
<1> QED
  BY <1>2, <1>3, <1>4 DEF Correlator!parse_bits_and_features

\* The dependencies are found: no feature has been processed.
LEMMA FindStep ==
  ASSUME CorrelateInv, Correlator!find_feature_deps
  PROVE  CorrelateInv'
<1>1. /\ UNCHANGED Correlator!place /\ UNCHANGED Correlator!tile_type
      /\ correlate_pc = "parsed" /\ correlate_pc' = "processing"
      /\ deps' = [f \in extant_features |-> Correlator!DepsOf(f)]
      /\ featbits' = [f \in extant_features |-> {}]
      /\ count' = [f \in extant_features |-> 0]
      /\ ord_feats' = extant_features
  BY DEF Correlator!find_feature_deps
<1>2. ParsedInv' /\ in_file' = Len(files') /\ files' \in Inputs
  BY <1>1, ParsedStays DEF CorrelateInv, Correlator!place
<1>3. UNCHANGED <<inst_features, inst_bits, settable_bits, extant_features>>
  BY <1>1 DEF Correlator!tile_type
<1>4. deps' = [f \in extant_features' |-> Correlator!DepsOf(f)']
  BY <1>1, <1>3 DEF Correlator!DepsOf, Correlator!With
<1>5. ProcessedInv'
  BY <1>1, <1>3, <1>4 DEF ProcessedInv
<1> QED
  BY <1>1, <1>2, <1>5 DEF CorrelateInv

\* The module has the cardinality of its own instance of FiniteSets.
LEMMA SameCardinality ==
  ASSUME NEW S PROVE Correlator!Cardinality(S) = Cardinality(S)
BY DEF Correlator!Cardinality, Cardinality

\* A feature comes with those that one that comes with it does, and is not
\* with itself.
LEMMA DepsAreClosed ==
  ASSUME NEW f \in extant_features, NEW d \in Correlator!DepsOf(f)
  PROVE  /\ d \in extant_features /\ d # f
         /\ Correlator!DepsOf(d) \subseteq Correlator!DepsOf(f) \union {f}
BY DEF Correlator!DepsOf, Correlator!With

\* The feature taken next is implied by those that it implies and that are
\* still to be taken: they have as many dependencies, and not more.
LEMMA NextIsImplied ==
  ASSUME ParsedInv, ProcessedInv, NEW f \in ord_feats, Correlator!IsNext(f),
         NEW d \in deps[f] \intersect ord_feats
  PROVE  f \in deps[d]
<1>1. /\ f \in extant_features /\ d \in extant_features
      /\ deps[f] = Correlator!DepsOf(f) /\ deps[d] = Correlator!DepsOf(d)
  BY DEF ProcessedInv
<1>2. IsFiniteSet(extant_features)
  BY DEF ParsedInv
<1>3. deps[f] \subseteq extant_features
  BY <1>1 DEF Correlator!DepsOf
<1>4. IsFiniteSet(deps[f])
  BY <1>2, <1>3, FS_Subset
<1>5. SUFFICES ASSUME f \notin deps[d] PROVE FALSE
  OBVIOUS
<1>6. deps[d] \subseteq deps[f] /\ d \notin deps[d] /\ d \in deps[f]
  BY <1>1, <1>5, DepsAreClosed DEF Correlator!DepsOf
<1>7. /\ IsFiniteSet(deps[d])
      /\ Cardinality(deps[d]) <= Cardinality(deps[f])
      /\ Cardinality(deps[f]) = Cardinality(deps[d]) => deps[f] = deps[d]
  <2>1. deps[d] \in SUBSET deps[f]
    BY <1>6
  <2> QED BY <1>4, <2>1, FS_Subset
<1>8. Cardinality(deps[f]) <= Cardinality(deps[d])
  BY SameCardinality DEF Correlator!IsNext
<1>9. Cardinality(deps[f]) \in Nat /\ Cardinality(deps[d]) \in Nat
  BY <1>4, <1>7, FS_CardinalityType
<1>10. Cardinality(deps[f]) = Cardinality(deps[d])
  BY <1>7, <1>8, <1>9
<1> QED
  BY <1>6, <1>7, <1>10

\* A feature is processed: those that it implies have been, or imply it.
LEMMA ProcessStep ==
  ASSUME CorrelateInv, Correlator!process_feature
  PROVE  CorrelateInv'
<1> DEFINE without(g) == DOMAIN inst_bits \ Correlator!With(g)
<1>1. PICK f \in ord_feats :
          /\ Correlator!IsNext(f)
          /\ count' = [count EXCEPT ![f] =
                           Correlator!Cardinality(Correlator!With(f))]
          /\ featbits' = [featbits EXCEPT ![f] =
                 {b \in Correlator!AlwaysSet(Correlator!With(f)) :
                     /\ \/ without(f) = {}
                        \/ b \notin Correlator!AlwaysSet(without(f))
                     /\ \A d \in deps[f] : b \notin featbits[d]}]
          /\ ord_feats' = ord_feats \ {f}
  BY DEF Correlator!process_feature
<1>2. /\ UNCHANGED Correlator!place /\ UNCHANGED Correlator!tile_type
      /\ deps' = deps /\ correlate_pc = "processing"
      /\ correlate_pc' = "processing"
  BY DEF Correlator!process_feature
<1>3. /\ UNCHANGED <<inst_features, inst_bits, settable_bits, extant_features>>
      /\ files' = files /\ in_file' = in_file
  BY <1>2 DEF Correlator!tile_type, Correlator!place
<1>4. ParsedInv /\ ProcessedInv /\ in_file = Len(files) /\ files \in Inputs
  BY <1>2 DEF CorrelateInv
<1>5. ParsedInv'
  BY <1>2, <1>4, ParsedStays
<1>6. /\ \A g : Correlator!With(g)' = Correlator!With(g)
      /\ \A g : Correlator!DepsOf(g)' = Correlator!DepsOf(g)
      /\ \A g : Explained(g)' = Explained(g)
  BY <1>3 DEF Correlator!With, Correlator!DepsOf, Explained, Correlator!AlwaysSet
<1> DEFINE new == {b \in Explained(f) : \A d \in deps[f] : b \notin featbits[d]}
<1>7. featbits' = [featbits EXCEPT ![f] = new]
  BY <1>1 DEF Explained
<1>8. count' = [count EXCEPT ![f] = Cardinality(Correlator!With(f))]
  BY <1>1, SameCardinality
<1> HIDE DEF new
<1>9. f \in extant_features /\ f \notin deps[f]
          /\ ord_feats \subseteq extant_features
      /\ deps[f] \subseteq extant_features
  BY <1>4 DEF ProcessedInv, Correlator!DepsOf
<1>10. /\ featbits'[f] = new /\ count'[f] = Cardinality(Correlator!With(f))
       /\ \A g \in extant_features \ {f} :
             featbits'[g] = featbits[g] /\ count'[g] = count[g]
       /\ DOMAIN featbits' = extant_features /\ DOMAIN count' = extant_features
  BY <1>4, <1>7, <1>8, <1>9 DEF ProcessedInv
<1>11. \A g \in extant_features : \A d \in deps[g] :
           d \in extant_features /\ d # g
  BY <1>4 DEF ProcessedInv, Correlator!DepsOf
<1>12. ASSUME NEW g \in extant_features \ ord_feats'
       PROVE  /\ count'[g] = Cardinality(Correlator!With(g))
              /\ \A d \in deps[g] \intersect ord_feats' : g \in deps[d]
              /\ featbits'[g] =
                     Explained(g) \ UNION {featbits'[d] : d \in deps[g]}
  <2>1. CASE g = f
    <3>1. \A d \in deps[f] : featbits'[d] = featbits[d]
      BY <1>9, <1>10
    <3>2. featbits'[f] = Explained(f) \ UNION {featbits'[d] : d \in deps[f]}
      BY <3>1, <1>10 DEF new
    <3>3. \A d \in deps[f] \intersect ord_feats' : f \in deps[d]
      BY <1>1, <1>4, NextIsImplied
    <3> QED BY <2>1, <3>2, <3>3, <1>10
  <2>2. CASE g # f
    <3>1. g \in extant_features \ ord_feats
      BY <2>2, <1>1
    <3>2. /\ count[g] = Cardinality(Correlator!With(g))
          /\ \A d \in deps[g] \intersect ord_feats : g \in deps[d]
          /\ featbits[g] = Explained(g) \ UNION {featbits[d] : d \in deps[g]}
      BY <3>1, <1>4 DEF ProcessedInv
    <3>3. count'[g] = count[g] /\ featbits'[g] = featbits[g]
      BY <2>2, <1>10
    <3>4. CASE f \in deps[g]
      <4>1. g \in deps[f]
        BY <3>2, <3>4
      <4>2. new \intersect featbits[g] = {}
        BY <4>1 DEF new
      <4>3. featbits[f] = {}
        BY <1>4 DEF ProcessedInv
      <4>4. \A b : (\E d \in deps[g] : b \in featbits'[d])
                      <=> b \in new \/ \E d \in deps[g] : b \in featbits[d]
        BY <4>3, <3>4, <1>10, <1>11
      <4>5. \A b : b \in featbits[g] <=>
                b \in Explained(g) /\ ~\E d \in deps[g] : b \in featbits[d]
        BY <3>2
      <4>6. featbits'[g] = Explained(g) \ UNION {featbits'[d] : d \in deps[g]}
        BY <4>2, <4>4, <4>5, <3>3
      <4> QED BY <4>6, <3>2, <3>3, <1>1
    <3>5. CASE f \notin deps[g]
      <4>1. \A d \in deps[g] : featbits'[d] = featbits[d]
        BY <3>5, <1>10, <1>11
      <4>2. {featbits'[d] : d \in deps[g]} = {featbits[d] : d \in deps[g]}
        BY <4>1
      <4> QED BY <4>2, <3>2, <3>3, <1>1
    <3> QED BY <3>4, <3>5
  <2> QED BY <2>1, <2>2
<1>13. ProcessedInv'
  <2>1. deps' = [g \in extant_features' |-> Correlator!DepsOf(g)']
    BY <1>2, <1>3, <1>4, <1>6 DEF ProcessedInv
  <2>2. \A g \in ord_feats' : featbits'[g] = {}
    BY <1>1, <1>4, <1>10 DEF ProcessedInv
  <2>3. ASSUME NEW g \in extant_features' \ ord_feats'
        PROVE  /\ count'[g] = Cardinality(Correlator!With(g)')
               /\ \A d \in deps'[g] \intersect ord_feats' : g \in deps'[d]
               /\ featbits'[g] =
                      Explained(g)' \ UNION {featbits'[d] : d \in deps'[g]}
    BY <1>2, <1>3, <1>6, <1>12
  <2>4. ord_feats' \subseteq extant_features'
    BY <1>1, <1>3, <1>9
  <2>5. DOMAIN featbits' = extant_features' /\ DOMAIN count' = extant_features'
    BY <1>3, <1>10
  <2> QED
    BY <2>1, <2>2, <2>3, <2>4, <2>5 DEF ProcessedInv
<1> QED
  BY <1>2, <1>3, <1>4, <1>5, <1>13 DEF CorrelateInv

\* What has been processed stays so, when nothing of it changes.
LEMMA ProcessedStays ==
  ASSUME ProcessedInv,
         UNCHANGED <<inst_features, inst_bits, settable_bits, extant_features>>,
         UNCHANGED <<deps, featbits, count, ord_feats>>
  PROVE  ProcessedInv'
<1>1. /\ \A g : Correlator!With(g)' = Correlator!With(g)
      /\ \A g : Correlator!DepsOf(g)' = Correlator!DepsOf(g)
      /\ \A g : Explained(g)' = Explained(g)
  BY DEF Correlator!With, Correlator!DepsOf, Explained, Correlator!AlwaysSet
<1>2. deps' = [f \in extant_features' |-> Correlator!DepsOf(f)']
  BY <1>1 DEF ProcessedInv
<1>3. ASSUME NEW f \in extant_features' \ ord_feats'
      PROVE  /\ count'[f] = Cardinality(Correlator!With(f)')
             /\ \A d \in deps'[f] \intersect ord_feats' : f \in deps'[d]
             /\ featbits'[f] =
                    Explained(f)' \ UNION {featbits'[d] : d \in deps'[f]}
  BY <1>1 DEF ProcessedInv
<1>4. /\ DOMAIN featbits' = extant_features' /\ DOMAIN count' = extant_features'
      /\ ord_feats' \subseteq extant_features'
      /\ \A f \in ord_feats' : featbits'[f] = {}
  BY DEF ProcessedInv
<1> QED
  BY <1>2, <1>3, <1>4 DEF ProcessedInv

\* The features are written.
LEMMA OutputStep ==
  ASSUME CorrelateInv, Correlator!output_features
  PROVE  CorrelateInv'
<1>1. /\ UNCHANGED Correlator!place /\ UNCHANGED Correlator!tile_type
      /\ UNCHANGED <<deps, featbits, count, ord_feats>> /\ ord_feats = {}
      /\ correlate_pc = "processing" /\ correlate_pc' = "written"
      /\ td' = {<<f, featbits[f]>> :
             f \in {g \in extant_features : count[g] >= 2}}
  BY DEF Correlator!output_features, Correlator!features
<1>2. /\ UNCHANGED <<inst_features, inst_bits, settable_bits, extant_features>>
      /\ files' = files /\ in_file' = in_file
  BY <1>1 DEF Correlator!tile_type, Correlator!place
<1>3. ParsedInv /\ ProcessedInv /\ in_file = Len(files) /\ files \in Inputs
  BY <1>1 DEF CorrelateInv
<1>4. ParsedInv'
  BY <1>1, <1>3, ParsedStays
<1>5. ProcessedInv'
  BY <1>1, <1>2, <1>3, ProcessedStays
<1>6. td' = {<<f, featbits'[f]>> :
                f \in {g \in extant_features' : count'[g] >= 2}}
  BY <1>1, <1>2
<1> QED
  BY <1>1, <1>2, <1>3, <1>4, <1>5, <1>6 DEF CorrelateInv

\* Nothing changes.
LEMMA SolversStutter ==
  ASSUME CorrelateInv, files' = files, UNCHANGED correlator_vars
  PROVE  CorrelateInv'
<1>1. UNCHANGED Correlator!place /\ UNCHANGED Correlator!tile_type
  BY DEF correlator_vars, Correlator!place, Correlator!tile_type
<1>2. UNCHANGED <<in_file, inst_features, inst_bits, settable_bits,
                  extant_features, deps, featbits, count, ord_feats, td,
                  correlate_pc>>
  BY DEF correlator_vars
<1>3. ParsedInv => ParsedInv'
  BY <1>1, ParsedStays
<1>4. ProcessedInv => ProcessedInv'
  BY <1>2, ProcessedStays
<1> QED
  BY <1>2, <1>3, <1>4 DEF CorrelateInv

\* Every step of either program keeps the invariant of the second one.
LEMMA NextCorrelateInv ==
  ASSUME CorrelateInv, [SolversNext]_solvers_vars
  PROVE  CorrelateInv'
<1>1. CASE Match
  <2>1. files' = files
    BY <1>1 DEF Match, Next, read_input, match, MissingFile, ReadSeg, Rename,
                NameSegment, ReadBit, ReadTag, AbortReading, EndOfFile, BeginTag,
                MatchOne, MatchZero, SkipSegment, EndTag, Finish, Matching,
                TakeItem, input_vars
  <2> QED BY <2>1, <1>1, SolversStutter DEF Match
<1>2. CASE Correlate
  BY <1>2, ParseStep, FindStep, ProcessStep, OutputStep
     DEF Correlate, Correlator!CorrelateNext
<1>3. CASE UNCHANGED solvers_vars
  BY <1>3, SolversStutter DEF solvers_vars, vars, input_vars
<1> QED
  BY <1>1, <1>2, <1>3 DEF SolversNext

-----------------------------------------------------------------------------

\* Once the files are parsed, the program has their segments, with the bits and
\* the features that the files say are in each.
LEMMA FilesAreParsed ==
  ASSUME ParsedInv, in_file = Len(files)
  PROVE  /\ NamesParsed = Names
         /\ \A n : BitsParsed(n) = BitsIn(ContentOf(n))
         /\ \A n : FeaturesParsed(n) = FeaturesIn(n)
<1>1. files \in Inputs /\ in_file \in Nat /\ line \in Nat
  BY DEF ParsedInv
<1>2. /\ Len(files) \in Nat /\ DOMAIN files = 1..Len(files)
      /\ \A f \in DOMAIN files :
             /\ Len(files[f].items) \in Nat
             /\ DOMAIN files[f].items = 1..Len(files[f].items)
  BY <1>1, Sequences
<1>3. \A p \in Places :
          /\ p[1] \in 1..Len(files) /\ p[2] \in 1..Len(files[p[1]].items)
          /\ p[1] \in Nat /\ p[2] \in Nat
          /\ p = <<p[1], p[2]>>
  BY <1>1, Place
<1>4. \A f \in DOMAIN files : \A k \in DOMAIN files[f].items :
          /\ <<f, k>> \in Places /\ At(<<f, k>>) = files[f].items[k]
          /\ f \in Nat /\ k \in Nat
  BY <1>1, PlaceOfLine
<1>5. Parsed = Places
  <2>1. ASSUME NEW p \in Places PROVE p[1] <= in_file
    <3>1. p[1] \in 1..Len(files) /\ Len(files) \in Nat
      BY <1>2, <1>3
    <3> QED BY <3>1
  <2> QED BY <2>1 DEF Parsed
<1>6. SegmentsOfFiles = {p \in Places : At(p).kind = "seg"}
  BY <1>1, SegmentStarts
<1>7. NamesParsed = Names
  BY <1>5, <1>6 DEF NamesParsed, Names, At
<1>8. ASSUME NEW n, NEW t
      PROVE  t \in ContentOf(n) <=> \E p \in Places : Within(p, n) /\ t = At(p)
  <2>1. ASSUME t \in ContentOf(n)
        PROVE  \E p \in Places : Within(p, n) /\ t = At(p)
    <3>1. PICK s \in SegmentsOfFiles :
             files[s[1]].items[s[2]].name = n /\ t \in ItemsOf(s[1], s[2])
      BY <2>1 DEF ContentOf
    <3> DEFINE f == s[1]
               i == s[2]
    <3>2. s \in Places /\ At(s).kind = "seg"
      BY <1>6
    <3>3. f \in DOMAIN files /\ i \in DOMAIN files[f].items /\ i \in Nat
          /\ At(s) = At(<<f, i>>) /\ At(<<f, i>>).name = n
      BY <1>2, <1>3, <1>4, <3>1, <3>2
    <3>4. PICK k \in DOMAIN files[f].items :
             /\ t = files[f].items[k] /\ k > i
             /\ \A h \in (i + 1)..k : files[f].items[h].kind # "seg"
      BY <3>1 DEF ItemsOf
    <3> DEFINE p == <<f, k>>
    <3> HIDE DEF f, i
    <3>5. p \in Places /\ t = At(p) /\ k \in Nat
      BY <1>4, <3>3, <3>4
    <3>6. i \in 1..(k - 1)
      <4>1. i \in 1..Len(files[f].items)
        BY <3>3, <1>2
      <4>2. Len(files[f].items) \in Nat
        BY <3>3, <1>2
      <4> QED BY <4>1, <4>2, <3>4, <3>5
    <3>7. p[1] = f /\ p[2] = k
      OBVIOUS
    <3>8. \A h \in (i + 1)..k : At(<<f, h>>).kind # "seg"
      BY <3>4 DEF At
    <3> HIDE DEF p
    <3>9. LastBefore(p, i)
      BY <3>2, <3>3, <3>7, <3>8 DEF LastBefore
    <3> QED BY <3>3, <3>5, <3>6, <3>7, <3>9 DEF Within
  <2>2. ASSUME NEW p \in Places, Within(p, n), t = At(p)
        PROVE  t \in ContentOf(n)
    <3> DEFINE f == p[1]
               k == p[2]
    <3>1. f \in DOMAIN files /\ k \in DOMAIN files[f].items /\ k \in Nat
          /\ p = <<f, k>> /\ k \in 1..Len(files[f].items)
          /\ Len(files[f].items) \in Nat
      BY <1>2, <1>3
    <3>2. PICK i \in 1..(k - 1) : LastBefore(p, i) /\ At(<<f, i>>).name = n
      BY <2>2 DEF Within
    <3> DEFINE s == <<f, i>>
    <3>3. /\ At(<<f, i>>).kind = "seg"
          /\ \A h \in (i + 1)..k : At(<<f, h>>).kind # "seg"
      BY <3>2 DEF LastBefore
    <3> HIDE DEF f, k
    <3>4. i \in 1..Len(files[f].items) /\ k > i
      BY <3>1
    <3>5. i \in DOMAIN files[f].items
      BY <3>1, <3>4, <1>2
    <3>6. s \in SegmentsOfFiles
      BY <3>1, <3>3, <3>5, <1>4, <1>6
    <3>7. t \in ItemsOf(f, i)
      <4>1. \A h : At(<<f, h>>) = files[f].items[h]
        BY DEF At
      <4> QED BY <4>1, <3>1, <3>3, <3>4, <2>2 DEF ItemsOf
    <3>8. files[f].items[i].name = n
      BY <3>2 DEF At, f
    <3>9. s[1] = f /\ s[2] = i
      OBVIOUS
    <3> HIDE DEF s
    <3> QED BY <3>6, <3>7, <3>8, <3>9 DEF ContentOf
  <2> QED BY <2>1, <2>2
<1>9. ASSUME NEW n PROVE BitsParsed(n) = BitsIn(ContentOf(n))
  <2>1. \A b : b \in BitsParsed(n) <=>
           \E p \in Places : Within(p, n) /\ At(p).kind = "bit" /\ b = At(p).name
    BY <1>5 DEF BitsParsed
  <2>2. \A b : b \in BitsIn(ContentOf(n)) <=>
           \E t \in ContentOf(n) : t.kind = "bit" /\ b = t.name
    BY DEF BitsIn
  <2> QED BY <2>1, <2>2, <1>8
<1>10. ASSUME NEW n PROVE FeaturesParsed(n) = FeaturesIn(n)
  <2>1. \A b : b \in FeaturesParsed(n) <=>
           \E p \in Places : /\ Within(p, n)
                             /\ At(p).kind = "tag"
                             /\ At(p).value \in Correlator!NonZero
                             /\ b = At(p).name
    BY <1>5 DEF FeaturesParsed
  <2>2. \A b : b \in FeaturesIn(n) <=>
           \E t \in ContentOf(n) : /\ t.kind = "tag"
                                   /\ t.value \in Correlator!NonZero
                                   /\ b = t.name
    BY DEF FeaturesIn
  <2>3. \A t : t \in ContentOf(n) <=> \E p \in Places : Within(p, n) /\ t = At(p)
    BY <1>8
  <2>4. \A b : b \in FeaturesParsed(n) <=> b \in FeaturesIn(n)
    BY <2>1, <2>2, <2>3
  <2> QED BY <2>4
<1> QED
  BY <1>7, <1>9, <1>10

\* So the features written are those of the files, with their bits.
LEMMA InvLeaves == ASSUME CorrelateInv PROVE LeavesBitsToImplied
<1> SUFFICES ASSUME correlate_pc = "written"
             PROVE  /\ {w[1] : w \in td} =
                          {f \in UNION {FeaturesIn(n) : n \in Names} :
                              Cardinality({n \in Names :
                                  f \in FeaturesIn(n)}) >= 2}
                    /\ \A w \in td :
                          w[2] = Explaining(w[1])
                                    \ UNION {featbits[d] : d \in Implied(w[1])}
  BY DEF LeavesBitsToImplied
<1>1. /\ ParsedInv /\ ProcessedInv /\ in_file = Len(files) /\ ord_feats = {}
      /\ td = {<<f, featbits[f]>> : f \in {g \in extant_features : count[g] >= 2}}
  BY DEF CorrelateInv
<1>2. /\ NamesParsed = Names
      /\ \A n : BitsParsed(n) = BitsIn(ContentOf(n))
      /\ \A n : FeaturesParsed(n) = FeaturesIn(n)
  BY <1>1, FilesAreParsed
<1>3. /\ DOMAIN inst_bits = Names /\ DOMAIN inst_features = Names
      /\ \A n \in Names : inst_bits[n] = BitsIn(ContentOf(n))
      /\ \A n \in Names : inst_features[n] = FeaturesIn(n)
  BY <1>1, <1>2 DEF ParsedInv
<1>4. /\ \A b : b \in settable_bits <=>
             \E n \in Names : b \in BitsIn(ContentOf(n))
      /\ \A n \in Names : FeaturesIn(n) \subseteq extant_features
  BY <1>1, <1>2 DEF ParsedInv
<1>5. \A f : Correlator!With(f) = {n \in Names : f \in FeaturesIn(n)}
  BY <1>3 DEF Correlator!With
<1>6. \A f \in extant_features :
          /\ count[f] = Cardinality(Correlator!With(f))
          /\ featbits[f] = Explained(f) \ UNION {featbits[d] : d \in deps[f]}
          /\ deps[f] = Correlator!DepsOf(f)
  BY <1>1 DEF ProcessedInv
<1>7. ASSUME NEW f \in extant_features, count[f] >= 2
      PROVE  \E n \in Names : f \in FeaturesIn(n)
  <2>1. Correlator!With(f) # {}
    <3>1. SUFFICES ASSUME Correlator!With(f) = {} PROVE FALSE
      OBVIOUS
    <3>2. count[f] = 0
      BY <3>1, <1>6, FS_EmptySet
    <3> QED BY <3>2, <1>7
  <2> QED BY <2>1, <1>5
<1>8. {w[1] : w \in td} =
          {f \in UNION {FeaturesIn(n) : n \in Names} :
              Cardinality({n \in Names : f \in FeaturesIn(n)}) >= 2}
  <2>1. {w[1] : w \in td} = {f \in extant_features : count[f] >= 2}
    <3>1. ASSUME NEW f \in extant_features, count[f] >= 2
          PROVE  f \in {w[1] : w \in td}
      <4>1. <<f, featbits[f]>> \in td
        BY <3>1, <1>1
      <4>2. f = <<f, featbits[f]>>[1]
        OBVIOUS
      <4> QED BY <4>1, <4>2
    <3>2. ASSUME NEW w \in td
          PROVE  w[1] \in {f \in extant_features : count[f] >= 2}
      <4>1. PICK f \in {g \in extant_features : count[g] >= 2} :
               w = <<f, featbits[f]>>
        BY <1>1
      <4> QED BY <4>1
    <3> QED BY <3>1, <3>2
  <2>2. \A f \in extant_features :
           count[f] = Cardinality({n \in Names : f \in FeaturesIn(n)})
    BY <1>5, <1>6
  <2>3. ASSUME NEW f
        PROVE  f \in {w[1] : w \in td} <=>
                  /\ f \in UNION {FeaturesIn(n) : n \in Names}
                  /\ Cardinality({n \in Names : f \in FeaturesIn(n)}) >= 2
    <3>1. f \in UNION {FeaturesIn(n) : n \in Names}
             <=> \E n \in Names : f \in FeaturesIn(n)
      OBVIOUS
    <3>2. CASE f \in extant_features
      <4>1. count[f] = Cardinality({n \in Names : f \in FeaturesIn(n)})
        BY <2>2, <3>2
      <4>2. f \in {w[1] : w \in td} <=> count[f] >= 2
        BY <2>1, <3>2
      <4> QED BY <4>1, <4>2, <3>1, <3>2, <1>7
    <3>3. CASE f \notin extant_features
      BY <2>1, <3>1, <3>3, <1>4
    <3> QED BY <3>2, <3>3
  <2> QED BY <2>3
<1>9. ASSUME NEW f \in extant_features, count[f] >= 2
      PROVE  featbits[f] = Explaining(f) \ UNION {featbits[d] : d \in Implied(f)}
  <2> DEFINE with == {n \in Names : f \in FeaturesIn(n)}
             without == Names \ with
             content == [n \in Names |-> BitsIn(ContentOf(n))]
  <2>1. Correlator!With(f) = with
    BY <1>5
  <2>2. ASSUME NEW S \in SUBSET Names, NEW b \in settable_bits
        PROVE  b \in Correlator!AlwaysSet(S) <=> \A n \in S : b \in content[n]
    BY <1>3 DEF Correlator!AlwaysSet
  <2>3. \A S : Correlator!AlwaysSet(S) \subseteq settable_bits
    BY DEF Correlator!AlwaysSet
  <2>4. \A b : b \in settable_bits <=> b \in UNION {content[n] : n \in Names}
    BY <1>4
  <2>5. with \in SUBSET Names /\ without \in SUBSET Names
    OBVIOUS
  <2>6. Explaining(f) = {b \in UNION {content[n] : n \in Names} :
           /\ \A n \in with : b \in content[n]
           /\ without # {} => \E n \in without : b \notin content[n]}
    BY DEF Explaining
  <2>7. Explained(f) = {b \in Correlator!AlwaysSet(with) :
           without = {} \/ b \notin Correlator!AlwaysSet(without)}
    BY <2>1, <1>3 DEF Explained
  <2>8. Implied(f) = Correlator!DepsOf(f)
    <3>1. PICK m \in Names : f \in FeaturesIn(m)
      BY <1>7, <1>9
    <3>2. Implied(f) = {e \in (UNION {FeaturesIn(n) : n \in Names}) \ {f} :
                           \A n \in with : e \in FeaturesIn(n)}
      BY DEF Implied
    <3>3. Correlator!DepsOf(f) = {e \in extant_features \ {f} :
                                     \A n \in with : e \in FeaturesIn(n)}
      BY <2>1, <1>3 DEF Correlator!DepsOf
    <3>4. m \in with
      BY <3>1
    <3> HIDE DEF with
    <3>5. \A e : (\A n \in with : e \in FeaturesIn(n)) => e \in FeaturesIn(m)
      BY <3>4
    <3>6. FeaturesIn(m) \subseteq extant_features
      BY <1>4
    <3>7. FeaturesIn(m) \subseteq UNION {FeaturesIn(n) : n \in Names}
      OBVIOUS
    <3> QED BY <3>2, <3>3, <3>5, <3>6, <3>7
  <2> HIDE DEF with, without, content
  <2>9. Explaining(f) = Explained(f)
    <3>1. ASSUME NEW b \in settable_bits
          PROVE  b \in Explaining(f) <=> b \in Explained(f)
      <4>1. b \in Correlator!AlwaysSet(with) <=> \A n \in with : b \in content[n]
        BY <2>2, <2>5
      <4>2. b \in Correlator!AlwaysSet(without)
               <=> \A n \in without : b \in content[n]
        BY <2>2, <2>5
      <4>3. b \in UNION {content[n] : n \in Names}
        BY <2>4
      <4> QED BY <4>1, <4>2, <4>3, <2>6, <2>7
    <3>2. Explaining(f) \subseteq settable_bits
      BY <2>4, <2>6
    <3>3. Explained(f) \subseteq settable_bits
      BY <2>3, <2>7
    <3> QED BY <3>1, <3>2, <3>3
  <2> QED BY <2>8, <2>9, <1>6
<1>10. ASSUME NEW w \in td
       PROVE  w[2] = Explaining(w[1]) \ UNION {featbits[d] : d \in Implied(w[1])}
  <2>1. PICK f \in {g \in extant_features : count[g] >= 2} :
           w = <<f, featbits[f]>>
    BY <1>1
  <2>2. w[1] = f /\ w[2] = featbits[f]
    BY <2>1
  <2>3. featbits[f] = Explaining(f) \ UNION {featbits[d] : d \in Implied(f)}
    BY <1>9
  <2> QED BY <2>2, <2>3
<1> QED
  BY <1>8, <1>10

\* The second program has not started.
LEMMA InitCorrelateInv == ASSUME SolversInit PROVE CorrelateInv
<1>1. correlate_pc = "parsing" /\ files \in Inputs
  BY DEF SolversInit, Init, Correlator!InitCorrelate
<1> QED
  BY <1>1, InitParsed DEF CorrelateInv

\* The features written are those of two or more segments, and a bit is left to
\* a feature that comes with another one, in whatever order features with as
\* many dependencies are taken (correlate_features).
THEOREM BitsAreLeftToImplied == SolversSpec => []LeavesBitsToImplied
<1>1. SolversInit => CorrelateInv
  BY InitCorrelateInv
<1>2. CorrelateInv /\ [SolversNext]_solvers_vars => CorrelateInv'
  BY NextCorrelateInv
<1>3. CorrelateInv => LeavesBitsToImplied
  BY InvLeaves
<1> QED
  BY <1>1, <1>2, <1>3, PTL DEF SolversSpec

-----------------------------------------------------------------------------

\* The invariants of both programs, while either takes its steps.
BothInv == FilesInv /\ CorrelateInv

\* Neither program has started.
LEMMA InitBothInv == ASSUME SolversInit PROVE BothInv
BY InitFilesInv, InitCorrelateInv DEF SolversInit, BothInv

\* A step of one program is none of the other one, but for the files.
LEMMA NextBothInv == ASSUME BothInv, [SolversNext]_solvers_vars PROVE BothInv'
<1>1. [Next]_vars
  BY DEF SolversNext, Match, Correlate, solvers_vars
<1> QED
  BY <1>1, NextFilesInv, NextCorrelateInv DEF BothInv

\* The segments of the files have names of their own, if the two programs have
\* as many.
LEMMA NamesAreOwn ==
  ASSUME BothInv, pc = "done", correlate_pc = "written",
         Cardinality(DOMAIN inst_bits) = Cardinality(DOMAIN segdata),
         NEW s \in SegmentsOfFiles
  PROVE  ContentOf(files[s[1]].items[s[2]].name) = ItemsOf(s[1], s[2])
<1> DEFINE name(t) == files[t[1]].items[t[2]].name
<1>1. FilesInv /\ CorrelateInv /\ ParsedInv /\ in_file = Len(files)
      /\ IsFiniteSet(DOMAIN segdata)
  BY DEF BothInv, CorrelateInv, FilesInv, CountInv
<1>2. DOMAIN inst_bits = Names
  BY <1>1, FilesAreParsed DEF ParsedInv
<1>3. PICK h \in Bijection(DOMAIN segdata, SegmentsOfFiles) : SaysTheSame(h)
  BY <1>1, SegmentsAreOfFiles
<1>4. /\ IsFiniteSet(SegmentsOfFiles)
      /\ Cardinality(SegmentsOfFiles) = Cardinality(DOMAIN segdata)
  <2>1. ExistsBijection(DOMAIN segdata, SegmentsOfFiles)
    BY <1>3 DEF ExistsBijection
  <2> QED BY <2>1, <1>1, FS_Bijection
<1>5. PICK f : f = [t \in SegmentsOfFiles |-> name(t)]
  OBVIOUS
<1>6. f \in Surjection(SegmentsOfFiles, Names)
  BY <1>5 DEF Surjection, Names
<1>7. f \in Injection(SegmentsOfFiles, Names)
  BY <1>2, <1>4, <1>6, FS_SurjSameCardinalityImpliesInj
<1>8. \A t \in SegmentsOfFiles : name(t) = name(s) => t = s
  BY <1>5, <1>7 DEF Injection, IsInjective
<1>9. {t \in SegmentsOfFiles : name(t) = name(s)} = {s}
  BY <1>8
<1> QED
  BY <1>9 DEF ContentOf

\* A bit that segmatch has as a candidate is one that the feature explains, for
\* correlate_segdata, so that it has it unless one implied by it does.
LEMMA CandidatesAreExplained ==
  ASSUME BothInv, pc = "done", correlate_pc = "written", ~flags.i,
         Cardinality(DOMAIN inst_bits) = Cardinality(DOMAIN segdata),
         NEW l \in out_lines, l.notes \intersect {"const0", "const1"} = {},
         ReadAlike(tag_ids[l.tag + 1]),
         NEW b \in l.candidates
  PROVE  LET f == tag_ids[l.tag + 1]
         IN /\ f \in extant_features
            /\ bit_ids[b + 1] \in Explained(f)
<1> DEFINE j == l.tag
           f == tag_ids[j + 1]
           m == bit_ids[b + 1]
           name(t) == files[t[1]].items[t[2]].name
<1>1. FilesInv /\ CorrelateInv /\ ParsedInv /\ in_file = Len(files)
      /\ IsFiniteSet(DOMAIN segdata) /\ tag_idx = Len(tag_ids)
  BY DEF BothInv, CorrelateInv, FilesInv, CountInv
<1>2. /\ j \in 0..(Len(tag_ids) - 1) /\ b \in 0..(Len(bit_ids) - 1)
      /\ \E k \in DOMAIN segdata : Has1(k, j)
      /\ \E k \in DOMAIN segdata : Has0(k, j)
      /\ \A k \in DOMAIN segdata : /\ Has1(k, j) => b \in segdata[k].bits
                                   /\ Has0(k, j) => b \notin segdata[k].bits
  <2> DEFINE P1 == {s \in DOMAIN segdata : Has1(s, j)}
             P0 == {s \in DOMAIN segdata : Has0(s, j)}
  <2>1. j \in 0..(Len(tag_ids) - 1) /\ l = LineFrom(j)
    BY <1>1 DEF FilesInv, CountInv, IInv, TrueCandidates, SolvedTags
  <2>2. /\ "const0" \in LineFrom(j).notes <=> Cardinality(P1) = 0
        /\ "const1" \in LineFrom(j).notes
              <=> Cardinality(P1) # 0 /\ Cardinality(P0) = 0
        /\ LineFrom(j).candidates =
              IF Cardinality(P1) = 0 THEN {} ELSE Determining(j)
    BY DEF LineFrom
  <2> HIDE DEF j
  <2>3. Cardinality(P1) # 0 /\ Cardinality(P0) # 0 /\ b \in Determining(j)
    <3>1. "const0" \notin l.notes /\ "const1" \notin l.notes
      OBVIOUS
    <3> HIDE DEF P1, P0
    <3> QED BY <2>1, <2>2, <3>1
  <2>4. P1 # {} /\ P0 # {}
    BY <2>3, FS_EmptySet
  <2> QED BY <2>1, <2>3, <2>4 DEF Determining
<1>3. PICK h \in Bijection(DOMAIN segdata, SegmentsOfFiles) : SaysTheSame(h)
  BY <1>1, SegmentsAreOfFiles
<1>4. /\ \A k \in DOMAIN segdata : h[k] \in SegmentsOfFiles
      /\ \A s \in SegmentsOfFiles : \E k \in DOMAIN segdata : h[k] = s
  BY DEF Bijection, Injection, Surjection
<1>5. /\ DOMAIN inst_bits = Names /\ DOMAIN inst_features = Names
      /\ \A n \in Names : inst_bits[n] = BitsIn(ContentOf(n))
      /\ \A n \in Names : inst_features[n] = FeaturesIn(n)
      /\ \A n \in Names : FeaturesIn(n) \subseteq extant_features
      /\ \A n \in Names : BitsIn(ContentOf(n)) \subseteq settable_bits
  BY <1>1, FilesAreParsed DEF ParsedInv
<1>alike. ReadAlike(f)
  OBVIOUS
<1> HIDE DEF j
<1>6. ASSUME NEW k \in DOMAIN segdata
      PROVE  /\ name(h[k]) \in Names
             /\ Has1(k, j) <=> f \in FeaturesIn(name(h[k]))
             /\ b \in segdata[k].bits <=> m \in BitsIn(ContentOf(name(h[k])))
  <2> DEFINE c == ItemsOf(h[k][1], h[k][2])
  <2>1. h[k] \in SegmentsOfFiles
    BY <1>4
  <2>2. name(h[k]) \in Names
    BY <2>1 DEF Names
  <2>3. ContentOf(name(h[k])) = c
    BY <2>1, NamesAreOwn
  <2>4. /\ Has1(k, j) <=> TRUE \in Says(c, f)
        /\ b \in segdata[k].bits <=> m \in BitsIn(c)
    BY <1>2, <1>3 DEF SaysTheSame
  <2>5. FeaturesIn(name(h[k])) =
            {t.name : t \in {u \in c : u.kind = "tag"
                                          /\ u.value \in Correlator!NonZero}}
    BY <2>3 DEF FeaturesIn
  <2>6. \A t \in c : t.kind = "tag" /\ t.name = f =>
                         (t.value \in Correlator!NonZero <=> t.value = "1")
    <3>1. "1" \in Correlator!NonZero
      BY DEF Correlator!NonZero
    <3>2. \A t \in ItemsOf(h[k][1], h[k][2]) :
             t.kind = "tag" /\ t.name = f /\ t.value \in Correlator!NonZero
                => t.value = "1"
      BY <1>alike, <2>1 DEF ReadAlike
    <3> QED BY <3>1, <3>2
  <2> HIDE DEF c, f, m
  <2>7. TRUE \in Says(c, f) <=> f \in FeaturesIn(name(h[k]))
    <3>1. TRUE \in Says(c, f) <=>
             \E t \in c : t.kind = "tag" /\ t.name = f /\ t.value = "1"
      BY DEF Says
    <3>2. f \in FeaturesIn(name(h[k])) <=>
             \E t \in c : /\ t.kind = "tag" /\ t.name = f
                          /\ t.value \in Correlator!NonZero
      BY <2>5
    <3> QED BY <2>6, <3>1, <3>2
  <2> QED BY <2>2, <2>3, <2>4, <2>7
<1> HIDE DEF name, f, m
<1>7. \A n \in Names : \E k \in DOMAIN segdata : name(h[k]) = n
  BY <1>4 DEF Names, name
<1>8. Correlator!With(f) = {n \in Names : f \in FeaturesIn(n)}
  BY <1>5 DEF Correlator!With
<1>9. PICK k1 \in DOMAIN segdata : Has1(k1, j)
  BY <1>2
<1>10. PICK k0 \in DOMAIN segdata : Has0(k0, j)
  BY <1>2
<1>11. f \in extant_features /\ m \in settable_bits
  BY <1>2, <1>5, <1>6, <1>9
<1>12. m \in Correlator!AlwaysSet(Correlator!With(f))
  <2>1. ASSUME NEW n \in Names, f \in FeaturesIn(n) PROVE m \in inst_bits[n]
    <3>1. PICK k \in DOMAIN segdata : name(h[k]) = n
      BY <1>7
    <3> QED BY <3>1, <2>1, <1>2, <1>5, <1>6
  <2> QED BY <2>1, <1>8, <1>11 DEF Correlator!AlwaysSet
<1>13. m \notin Correlator!AlwaysSet(DOMAIN inst_bits \ Correlator!With(f))
  <2> DEFINE n == name(h[k0])
  <2>1. n \in Names /\ f \notin FeaturesIn(n) /\ m \notin BitsIn(ContentOf(n))
    BY <1>2, <1>6, <1>10 DEF Has0
  <2> HIDE DEF n
  <2> QED BY <2>1, <1>5, <1>8 DEF Correlator!AlwaysSet
<1> QED
  BY <1>11, <1>12, <1>13 DEF Explained, f, m, j

\* What the features explain and do not have, those that they imply have.
LEMMA BothAgree == ASSUME BothInv PROVE SolversAgree
<1> SUFFICES ASSUME pc = "done", correlate_pc = "written", ~flags.i,
                    Cardinality(DOMAIN inst_bits) = Cardinality(DOMAIN segdata),
                    NEW l \in out_lines,
                    l.notes \intersect {"const0", "const1"} = {},
                    ReadAlike(tag_ids[l.tag + 1]),
                    NEW b \in l.candidates
             PROVE  LET f == tag_ids[l.tag + 1]
                    IN bit_ids[b + 1] \in
                           featbits[f] \union UNION {featbits[d] : d \in deps[f]}
  BY DEF SolversAgree
<1> DEFINE f == tag_ids[l.tag + 1]
<1>1. f \in extant_features /\ bit_ids[b + 1] \in Explained(f)
  BY CandidatesAreExplained
<1>2. ProcessedInv /\ ord_feats = {}
  BY DEF BothInv, CorrelateInv
<1>3. featbits[f] = Explained(f) \ UNION {featbits[d] : d \in deps[f]}
  BY <1>1, <1>2 DEF ProcessedInv
<1> HIDE DEF f
<1> QED
  BY <1>1, <1>3 DEF f

\* A bit that segmatch has as a candidate for a tag is one that correlate_segdata
\* has for it or for a feature that it implies, if the two read the values of
\* the tag alike (main and correlate_features).
THEOREM CandidatesAreFeatbits == SolversSpec => []SolversAgree
<1>1. SolversInit => BothInv
  BY InitBothInv
<1>2. BothInv /\ [SolversNext]_solvers_vars => BothInv'
  BY NextBothInv
<1>3. BothInv => SolversAgree
  BY BothAgree
<1> QED
  BY <1>1, <1>2, <1>3, PTL DEF SolversSpec

=============================================================================

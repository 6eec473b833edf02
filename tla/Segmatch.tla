------------------------------ MODULE Segmatch ------------------------------
(***************************************************************************)
(* segmatch: from segments, the bits that are set and the tags that are    *)
(* known to be 1 or 0 in each, to the bits that each tag may depend on:    *)
(* those set in every segment where the tag is 1 and clear in every one    *)
(* where it is 0.                                                          *)
(***************************************************************************)
EXTENDS Integers, Sequences, FiniteSets

CONSTANTS
    WordBits, \* 64, the bits of a word of bool_vec
    Inputs,   \* sequences of files, records [name, items]
    Flags     \* records [c, i, m, M]

ASSUME SegmatchAssumption == WordBits \in Nat \ {0}

IsSequence(s) == s \in Seq({s[i] : i \in DOMAIN s})

ASSUME FlagsAssumption == \A f \in Flags : f.c \in Int

ASSUME InputsAssumption ==
    \A input \in Inputs :
        IsSequence(input) /\ \A f \in DOMAIN input : IsSequence(input[f].items)

VARIABLES
    files, flags,
    file, item,       \* the files, and the items of the next one, read so far
    token,            \* the name read_input is looking for
    segptr,           \* the name of the segment of the file, unless null
    segnamecnt,
    segdata,          \* by name; a bool_vec is the set of its bits
    bit_ids, tag_ids, \* bit_ids_r and tag_ids_r; an id is a position less one
    tag_idx,
    todo,             \* the segments that the loop over segdata has to visit
    mask, count1, count0,
    out_lines,
    pc                \* "reading", "naming", "solving", "matching" (a tag),
                      \* "done", "failed", "aborted"

input_vars == <<files, flags>>

names_vars == <<token, segptr, segnamecnt>>

data_vars == <<segdata, bit_ids, tag_ids>>

match_vars == <<todo, mask, count1, count0>>

vars == <<input_vars, file, item, names_vars, data_vars, tag_idx, match_vars,
          out_lines, pc>>

-----------------------------------------------------------------------------

Assign(map, key, value) == [k \in DOMAIN map \union {key} |->
                               IF k = key THEN value ELSE map[k]]

EmptySegment == [bits |-> {}, tags1 |-> {}, tags0 |-> {}]

\* The ids with one for a name, if it had none.
WithId(ids, name) ==
    IF \E i \in DOMAIN ids : ids[i] = name THEN ids ELSE Append(ids, name)

IdOf(ids, name) == (CHOOSE i \in DOMAIN ids : ids[i] = name) - 1

Capacity(n) == ((n + WordBits - 1) \div WordBits) * WordBits

\* Mutant of Ones: the last bit is cleared, not the one after it.
OnesOneShort(n) == (0..(Capacity(n) - 1)) \ {n - 1}

\* bool_vec(n, true), which clears bit n and leaves any after it.
Ones(n) == (0..(Capacity(n) - 1)) \ {n}

Init ==
    /\ files \in Inputs
    /\ flags \in Flags
    /\ file = 0
    /\ item = 0
    /\ token = <<>>
    /\ segptr = {}
    /\ segnamecnt = <<>>
    /\ segdata = <<>>
    /\ bit_ids = <<>>
    /\ tag_ids = <<>>
    /\ tag_idx = 0
    /\ todo = {}
    /\ mask = {}
    /\ count1 = 0
    /\ count0 = 0
    /\ out_lines = {}
    /\ pc = "reading"

-----------------------------------------------------------------------------

CurrentFile == files[file + 1]

Item == CurrentFile.items[item + 1]

TakeItem(kind) ==
    /\ pc = "reading"
    /\ file < Len(files)
    /\ item < Len(CurrentFile.items)
    /\ Item.kind = kind
    /\ item' = item + 1
    /\ UNCHANGED <<input_vars, file, tag_idx, match_vars, out_lines>>

MissingFile ==
    /\ pc = "reading"
    /\ file < Len(files)
    /\ item = 0
    /\ pc' = "failed"
    /\ UNCHANGED <<input_vars, file, item, names_vars, data_vars, tag_idx,
                   match_vars, out_lines>>

ReadSeg ==
    /\ TakeItem("seg")
    /\ token' = <<CurrentFile.name>> \o Item.name
    /\ pc' = "naming"
    /\ UNCHANGED <<segptr, segnamecnt, data_vars>>

\* Mutant of Rename: a segment of the same name is gone on with.
RenameNot ==
    /\ pc = "naming"
    /\ token \in DOMAIN segdata
    /\ segptr' = {token}
    /\ pc' = "reading"
    /\ UNCHANGED <<input_vars, file, item, token, segnamecnt, data_vars,
                   tag_idx, match_vars, out_lines>>

\* Mutant of Rename: the number is always the same.
RenameOnce ==
    /\ pc = "naming"
    /\ token \in DOMAIN segdata
    /\ token' = <<token[1], token[2], 1>>
    /\ UNCHANGED <<input_vars, file, item, segptr, segnamecnt, data_vars,
                   tag_idx, match_vars, out_lines, pc>>

\* The name is taken: a number is appended to it.
Rename ==
    /\ pc = "naming"
    /\ token \in DOMAIN segdata
    /\ LET idx == IF token \in DOMAIN segnamecnt THEN segnamecnt[token] ELSE 1
       IN /\ segnamecnt' = Assign(segnamecnt, token, idx + 1)
          /\ token' = Append(token, idx)
    /\ UNCHANGED <<input_vars, file, item, segptr, data_vars, tag_idx,
                   match_vars, out_lines, pc>>

NameSegment ==
    /\ pc = "naming"
    /\ token \notin DOMAIN segdata
    /\ segdata' = Assign(segdata, token, EmptySegment)
    /\ segptr' = {token}
    /\ pc' = "reading"
    /\ UNCHANGED <<input_vars, file, item, token, segnamecnt, bit_ids, tag_ids,
                   tag_idx, match_vars, out_lines>>

Set(segment, bit) == [segment EXCEPT !.bits = @ \union {bit}]

ReadBit ==
    /\ TakeItem("bit")
    /\ bit_ids' = WithId(bit_ids, Item.name)
    /\ \E s \in segptr :
          segdata' = [segdata EXCEPT ![s] = Set(@, IdOf(bit_ids', Item.name))]
    /\ UNCHANGED <<names_vars, tag_ids, pc>>

\* Tags known to be 1, and tags known to be 0.
Tagged(segment, ones, zeros) ==
    [segment EXCEPT !.tags1 = @ \union ones, !.tags0 = @ \union zeros]

InverseTag(name) == Append(name, "__INV")

\* With -i, the inverse of a tag is a tag, known to be the opposite.  The
\* assertion that the value is 0 or 1 is compiled out: any other is a 0.
ReadTag ==
    /\ TakeItem("tag")
    /\ tag_ids' = IF flags.i
                  THEN WithId(WithId(tag_ids, Item.name), InverseTag(Item.name))
                  ELSE WithId(tag_ids, Item.name)
    /\ \E s \in segptr :
          LET this == {IdOf(tag_ids', Item.name)}
              that == IF flags.i THEN {IdOf(tag_ids', InverseTag(Item.name))} ELSE {}
          IN segdata' = [segdata EXCEPT ![s] =
                            IF Item.value = "1" THEN Tagged(@, this, that)
                                                ELSE Tagged(@, that, this)]
    /\ UNCHANGED <<names_vars, bit_ids, pc>>

\* A bit or a tag without a segment is written through a null pointer; any
\* other word is refused.
AbortReading ==
    /\ \/ (TakeItem("bit") \/ TakeItem("tag")) /\ segptr = {}
       \/ TakeItem("other")
    /\ pc' = "aborted"
    /\ UNCHANGED <<names_vars, data_vars>>

EndOfFile ==
    /\ pc = "reading"
    /\ file < Len(files)
    /\ item = Len(CurrentFile.items)
    /\ file' = file + 1
    /\ item' = 0
    /\ segptr' = {}
    /\ pc' = IF file' = Len(files) THEN "solving" ELSE "reading"
    /\ UNCHANGED <<input_vars, token, segnamecnt, data_vars, tag_idx,
                   match_vars, out_lines>>

read_input ==
    \/ MissingFile \/ ReadSeg \/ Rename \/ NameSegment \/ ReadBit \/ ReadTag
    \/ AbortReading \/ EndOfFile

-----------------------------------------------------------------------------

BeginTag ==
    /\ pc = "solving"
    /\ tag_idx < Len(tag_ids)
    /\ mask' = Ones(Len(bit_ids))
    /\ todo' = DOMAIN segdata
    /\ count1' = 0
    /\ count0' = 0
    /\ pc' = "matching"
    /\ UNCHANGED <<input_vars, file, item, names_vars, data_vars, tag_idx,
                   out_lines>>

Has1(s, tag) == tag \in segdata[s].tags1

\* A segment where the tag is both counts as one where it is 1, the assertion
\* that there is none being compiled out.
Has0(s, tag) == tag \in segdata[s].tags0 /\ ~Has1(s, tag)

Matching ==
    /\ pc = "matching"
    /\ UNCHANGED <<input_vars, file, item, names_vars, data_vars, tag_idx,
                   out_lines, pc>>

\* The body of the loop over segdata, in the order of the names, on which
\* nothing depends.
MatchOne ==
    /\ Matching
    /\ \E s \in todo :
          /\ Has1(s, tag_idx)
          /\ todo' = todo \ {s}
          /\ mask' = mask \intersect segdata[s].bits
    /\ count1' = count1 + 1
    /\ UNCHANGED count0

MatchZero ==
    /\ Matching
    /\ \E s \in todo :
          /\ Has0(s, tag_idx)
          /\ todo' = todo \ {s}
          /\ mask' = mask \ segdata[s].bits
    /\ count0' = count0 + 1
    /\ UNCHANGED count1

SkipSegment ==
    /\ Matching
    /\ \E s \in todo :
          /\ ~Has1(s, tag_idx)
          /\ ~Has0(s, tag_idx)
          /\ todo' = todo \ {s}
    /\ UNCHANGED <<mask, count1, count0>>

\* What a line says beside its candidates.
Notes ==
    (IF count1 < flags.m THEN {"m1"} ELSE {})
        \union (IF count0 < flags.m THEN {"m0"} ELSE {})
        \union (IF count1 + count0 < flags.M THEN {"M"} ELSE {})
        \union (IF count1 = 0 THEN {"const0"} ELSE {})
        \union (IF count1 # 0 /\ count0 = 0 THEN {"const1"} ELSE {})

\* The candidates are listed, or only counted.
IsListed(n) == flags.c < 0 \/ (0 < n /\ n <= flags.c)

\* The line of a tag that is never 1 says nothing of its candidates.
EndTag ==
    /\ pc = "matching"
    /\ todo = {}
    /\ out_lines' = out_lines \union
           {[tag |-> tag_idx, notes |-> Notes,
             candidates |-> IF count1 = 0 THEN {} ELSE mask,
             listed |-> count1 # 0 /\ IsListed(Cardinality(mask))]}
    /\ tag_idx' = tag_idx + 1
    /\ pc' = "solving"
    /\ UNCHANGED <<input_vars, file, item, names_vars, data_vars, match_vars>>

Finish ==
    /\ pc = "solving"
    /\ tag_idx = Len(tag_ids)
    /\ pc' = "done"
    /\ UNCHANGED <<input_vars, file, item, names_vars, data_vars, tag_idx,
                   match_vars, out_lines>>

match == BeginTag \/ MatchOne \/ MatchZero \/ SkipSegment \/ EndTag \/ Finish

Next == read_input \/ match

Spec == Init /\ [][Next]_vars

-----------------------------------------------------------------------------

SolvedTags == 0..(tag_idx - 1)

\* The bits that are set in every segment where a tag is 1 and clear in every
\* one where it is 0.
Determining(tag) ==
    {b \in 0..(Len(bit_ids) - 1) :
        \A s \in DOMAIN segdata :
            /\ Has1(s, tag) => b \in segdata[s].bits
            /\ Has0(s, tag) => b \notin segdata[s].bits}

\* There is one line for each tag that has been dealt with.  It says that the
\* tag is never 1, or its candidates are the bits of the files that agree with
\* it in every segment, those that a word of bool_vec has beside them being
\* none of them (bool_vec(num_bits, true), the loop over segdata in main).
TrueCandidates ==
    /\ {l.tag : l \in out_lines} = SolvedTags
    /\ \A l \in out_lines :
          /\ "const0" \in l.notes <=> \A s \in DOMAIN segdata : ~Has1(s, l.tag)
          /\ "const0" \notin l.notes => l.candidates = Determining(l.tag)
          /\ "const0" \in l.notes => l.candidates = {}

\* Where the segments of the files start, and the items that belong to one.
SegmentsOfFiles ==
    UNION {{<<f, i>> : i \in {j \in DOMAIN files[f].items :
                                 files[f].items[j].kind = "seg"}} :
              f \in DOMAIN files}

ItemsOf(f, i) ==
    {files[f].items[j] : j \in {k \in DOMAIN files[f].items :
        k > i /\ \A h \in (i + 1)..k : files[f].items[h].kind # "seg"}}

\* What the files say of a tag in a segment: TRUE if it is 1 there, FALSE if 0.
Says(content, tag) ==
    {t.value = "1" : t \in {u \in content : u.kind = "tag" /\ u.name = tag}}
        \union {t.value # "1" : t \in {u \in content :
                    u.kind = "tag" /\ flags.i /\ InverseTag(u.name) = tag}}

BitsIn(content) == {t.name : t \in {u \in content : u.kind = "bit"}}

\* The line of a tag, worked out from the files.
LineOf(tag) ==
    LET segments == SegmentsOfFiles
        content  == [s \in segments |-> ItemsOf(s[1], s[2])]
        ones     == {s \in segments : TRUE \in Says(content[s], tag)}
        zeros    == {s \in segments : Says(content[s], tag) = {FALSE}}
        all      == UNION {BitsIn(content[s]) : s \in segments}
        agreeing == {b \in all : /\ \A s \in ones : b \in BitsIn(content[s])
                                 /\ \A s \in zeros : b \notin BitsIn(content[s])}
        n1 == Cardinality(ones)
        n0 == Cardinality(zeros)
        n  == Cardinality(agreeing)
    IN [tag |-> tag,
        notes |-> UNION {IF n1 < flags.m THEN {"m1"} ELSE {},
                         IF n0 < flags.m THEN {"m0"} ELSE {},
                         IF n1 + n0 < flags.M THEN {"M"} ELSE {},
                         IF ones = {} THEN {"const0"}
                         ELSE IF zeros = {} THEN {"const1"} ELSE {}},
        candidates |-> IF ones = {} THEN {} ELSE agreeing,
        listed |-> ones # {} /\ (flags.c < 0 \/ n \in 1..flags.c)]

TagsOfFiles ==
    LET said == UNION {{t.name : t \in {u \in ItemsOf(s[1], s[2]) :
                                           u.kind = "tag"}} :
                          s \in SegmentsOfFiles}
    IN said \union IF flags.i THEN {InverseTag(t) : t \in said} ELSE {}

\* The lines are those that the files call for, although bits and tags have
\* numbers given in the order of their first appearance in any file, segments
\* of the same name are kept apart by numbers appended to it, and inverse tags
\* are tags that the files may have as well (read_input and main).
SolvesTheFiles ==
    pc = "done" =>
        {[tag        |-> tag_ids[l.tag + 1],
          notes      |-> l.notes,
          candidates |-> {bit_ids[b + 1] : b \in l.candidates},
          listed     |-> l.listed] : l \in out_lines}
            = {LineOf(t) : t \in TagsOfFiles}

=============================================================================

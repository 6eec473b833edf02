------------------------------ MODULE Correlate ------------------------------
(***************************************************************************)
(* correlate_segdata: from the bits and the features of the segments of a  *)
(* tile type to the bits of each feature.  A bit that a feature has in     *)
(* common with one that comes with it is left to the latter.  The analysis *)
(* is that of correlate, which has its data from other files.              *)
(***************************************************************************)
EXTENDS Integers, Sequences, FiniteSets

VARIABLES
    files,           \* the files of a tile type, records [name, items]
    in_file, line,   \* the files, and the lines of the next one, parsed so far
    inst,            \* the segment that the lines are for, unless null
    inst_features, inst_bits,        \* by segment
    settable_bits, extant_features,
    deps, featbits, count,           \* by feature
    ord_feats,                       \* the features still to be processed
    td,                              \* the features written, with their bits
    correlate_pc \* "parsing", "parsed", "processing", "written", "failed",
                 \* "aborted"

place == <<files, in_file, line>>

tile_type == <<inst, inst_features, inst_bits, settable_bits, extant_features>>

features == <<deps, featbits, count, ord_feats>>

correlate_vars == <<in_file, line, tile_type, features, td, correlate_pc>>

InitCorrelate ==
    /\ in_file = 0
    /\ line = 0
    /\ inst = {}
    /\ inst_features = <<>>
    /\ inst_bits = <<>>
    /\ settable_bits = {}
    /\ extant_features = {}
    /\ deps = <<>>
    /\ featbits = <<>>
    /\ count = <<>>
    /\ ord_feats = {}
    /\ td = {}
    /\ correlate_pc = "parsing"

-----------------------------------------------------------------------------

Line == files[in_file + 1].items[line + 1]

Parsing ==
    /\ correlate_pc = "parsing"
    /\ in_file < Len(files)

TakeLine(kind) ==
    /\ Parsing
    /\ line < Len(files[in_file + 1].items)
    /\ Line.kind = kind
    /\ line' = line + 1
    /\ UNCHANGED <<files, in_file, features, td>>

NoSuchFile ==
    /\ Parsing
    /\ line = 0
    /\ correlate_pc' = "failed"
    /\ UNCHANGED <<place, tile_type, features, td>>

\* inst_bits[name], which makes it if it is not there.
Made(map, name) ==
    [n \in DOMAIN map \union {name} |-> IF n \in DOMAIN map THEN map[n] ELSE {}]

\* A segment of a name that came before, in this file or another one of the
\* tile type, is the same segment.
ParseSeg ==
    /\ TakeLine("seg")
    /\ inst' = {Line.name}
    /\ inst_bits' = Made(inst_bits, Line.name)
    /\ inst_features' = Made(inst_features, Line.name)
    /\ UNCHANGED <<settable_bits, extant_features, correlate_pc>>

\* Assertions are on in this program: a malformed bit aborts.
ParseBit ==
    /\ TakeLine("bit")
    /\ Line.value # "malformed"
    /\ settable_bits' = settable_bits \union {Line.name}
    /\ \E s \in inst :
          inst_bits' = [inst_bits EXCEPT ![s] = @ \union {Line.name}]
    /\ UNCHANGED <<inst, inst_features, extant_features, correlate_pc>>

\* Mutant of ParseTag: a tag that is 0 is a feature too.
ParseTagAny ==
    /\ TakeLine("tag")
    /\ extant_features' = extant_features \union {Line.name}
    /\ \E s \in inst :
          inst_features' = [inst_features EXCEPT ![s] = @ \union {Line.name}]
    /\ UNCHANGED <<inst, inst_bits, settable_bits, correlate_pc>>

\* The values that set a tag: "2" stands for every text but "1" that is read as
\* a number other than zero.  What is not a number is read as 0.
NonZero == {"1", "2"}

ParseTag ==
    /\ TakeLine("tag")
    /\ extant_features' = extant_features \union {Line.name}
    /\ IF Line.value \in NonZero
       THEN \E s \in inst :
               inst_features' = [inst_features EXCEPT ![s] = @ \union {Line.name}]
       ELSE UNCHANGED inst_features
    /\ UNCHANGED <<inst, inst_bits, settable_bits, correlate_pc>>

\* Through a null pointer, or on a malformed bit.
AbortParsing ==
    /\ \/ TakeLine("bit") /\ (inst = {} \/ Line.value = "malformed")
       \/ TakeLine("tag") /\ inst = {} /\ Line.value \in NonZero
    /\ correlate_pc' = "aborted"
    /\ UNCHANGED tile_type

SkipLine ==
    /\ TakeLine("other")
    /\ UNCHANGED <<tile_type, correlate_pc>>

EndParsing ==
    /\ Parsing
    /\ line = Len(files[in_file + 1].items)
    /\ in_file' = in_file + 1
    /\ line' = 0
    /\ inst' = {}
    /\ correlate_pc' = IF in_file' = Len(files) THEN "parsed" ELSE "parsing"
    /\ UNCHANGED <<files, inst_features, inst_bits, settable_bits,
                   extant_features, features, td>>

parse_bits_and_features ==
    \/ NoSuchFile \/ ParseSeg \/ ParseBit \/ ParseTag \/ AbortParsing
    \/ SkipLine \/ EndParsing

-----------------------------------------------------------------------------

With(f) == {s \in DOMAIN inst_features : f \in inst_features[s]}

\* The features that are in every segment that f is in.
DepsOf(f) ==
    {e \in extant_features \ {f} : \A s \in With(f) : e \in inst_features[s]}

find_feature_deps ==
    /\ correlate_pc = "parsed"
    /\ deps' = [f \in extant_features |-> DepsOf(f)]
    /\ featbits' = [f \in extant_features |-> {}]
    /\ count' = [f \in extant_features |-> 0]
    /\ ord_feats' = extant_features
    /\ correlate_pc' = "processing"
    /\ UNCHANGED <<place, tile_type, td>>

AlwaysSet(segments) ==
    {b \in settable_bits : \A s \in segments : b \in inst_bits[s]}

\* Mutant of IsNext: those with the most dependencies first.
IsNextByMost(f) ==
    \A g \in ord_feats : Cardinality(deps[g]) <= Cardinality(deps[f])

\* The stable sort by the number of dependencies; any order of the names is
\* allowed for.
IsNext(f) ==
    \A g \in ord_feats : Cardinality(deps[f]) <= Cardinality(deps[g])

process_feature ==
    /\ correlate_pc = "processing"
    /\ \E f \in ord_feats :
          LET with    == With(f)
              without == DOMAIN inst_bits \ with
          IN /\ IsNext(f)
             /\ count' = [count EXCEPT ![f] = Cardinality(with)]
             /\ featbits' = [featbits EXCEPT ![f] =
                    {b \in AlwaysSet(with) :
                        /\ without = {} \/ b \notin AlwaysSet(without)
                        /\ \A d \in deps[f] : b \notin featbits[d]}]
             /\ ord_feats' = ord_feats \ {f}
    /\ UNCHANGED <<place, tile_type, deps, td, correlate_pc>>

\* A feature of a single segment is not written.
output_features ==
    /\ correlate_pc = "processing"
    /\ ord_feats = {}
    /\ td' = {<<f, featbits[f]>> : f \in {g \in extant_features : count[g] >= 2}}
    /\ correlate_pc' = "written"
    /\ UNCHANGED <<place, tile_type, features>>

CorrelateNext ==
    \/ parse_bits_and_features
    \/ find_feature_deps
    \/ process_feature
    \/ output_features

=============================================================================

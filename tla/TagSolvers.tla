----------------------------- MODULE TagSolvers -----------------------------
(***************************************************************************)
(* segmatch and correlate_segdata given the same files, those of one tile  *)
(* type, one after the other.                                              *)
(***************************************************************************)
EXTENDS Segmatch

VARIABLES
    in_file, line, inst, inst_features, inst_bits, settable_bits,
    extant_features, deps, featbits, count, ord_feats, td, correlate_pc

Correlator == INSTANCE Correlate

correlator_vars ==
    <<in_file, line, inst, inst_features, inst_bits, settable_bits,
      extant_features, deps, featbits, count, ord_feats, td, correlate_pc>>

solvers_vars == <<vars, correlator_vars>>

SolversInit ==
    /\ Init
    /\ Correlator!InitCorrelate

Match ==
    /\ UNCHANGED correlator_vars
    /\ Next

\* segmatch ends, and its state is that of its output.
Correlate ==
    /\ pc \in {"done", "failed", "aborted"}
    /\ UNCHANGED vars
    /\ Correlator!CorrelateNext

SolversNext == Match \/ Correlate

\* Each program is one thread that runs until it returns.
SolversSpec ==
    SolversInit /\ [][SolversNext]_solvers_vars /\ WF_solvers_vars(SolversNext)

-----------------------------------------------------------------------------

\* The segments by the names in the files, with what the files say of them.
Names == {files[s[1]].items[s[2]].name : s \in SegmentsOfFiles}

ContentOf(name) ==
    UNION {ItemsOf(s[1], s[2]) : s \in
        {t \in SegmentsOfFiles : files[t[1]].items[t[2]].name = name}}

FeaturesIn(name) ==
    {t.name : t \in {u \in ContentOf(name) :
                        u.kind = "tag" /\ u.value \in Correlator!NonZero}}

\* The bits set in every segment with the feature and not in every other one.
Explaining(f) ==
    LET content  == [n \in Names |-> BitsIn(ContentOf(n))]
        with     == {n \in Names : f \in FeaturesIn(n)}
        without  == Names \ with
    IN {b \in UNION {content[n] : n \in Names} :
           /\ \A n \in with : b \in content[n]
           /\ without # {} => \E n \in without : b \notin content[n]}

\* The features that are in every segment that f is in.
Implied(f) ==
    {e \in (UNION {FeaturesIn(n) : n \in Names}) \ {f} :
        \A n \in Names : f \in FeaturesIn(n) => e \in FeaturesIn(n)}

(***************************************************************************)
(* Exactly the features of two or more segments are written, each with the *)
(* bits that may be due to it less those written, or that would be, for    *)
(* the features that come with it: a bit is never due to both, in whatever *)
(* order the features are taken, and bits that they have in common are due *)
(* to one of two features that are always together (correlate_features).   *)
(***************************************************************************)
LeavesBitsToImplied ==
    correlate_pc = "written" =>
        /\ {w[1] : w \in td} =
               {f \in UNION {FeaturesIn(n) : n \in Names} :
                   Cardinality({n \in Names : f \in FeaturesIn(n)}) >= 2}
        /\ \A w \in td :
               w[2] = Explaining(w[1])
                          \ UNION {featbits[d] : d \in Implied(w[1])}

\* No segment has the tag with a value that segmatch takes for 0 and
\* correlate_segdata, which wants a number other than zero, for set.
ReadAlike(tag) ==
    \A s \in SegmentsOfFiles : \A t \in ItemsOf(s[1], s[2]) :
        t.kind = "tag" /\ t.name = tag /\ t.value \in Correlator!NonZero
            => t.value = "1"

(***************************************************************************)
(* A bit that segmatch has as a candidate for a tag that is 0 somewhere is *)
(* due, for correlate_segdata, to that feature or one that it implies;     *)
(* unless two segments have one name, which segmatch keeps apart and       *)
(* correlate_segdata does not, segmatch adds inverse tags, or the tag has  *)
(* a value other than 0 and 1, which only an assertion that a release      *)
(* build leaves out keeps from segmatch.                                   *)
(***************************************************************************)
SolversAgree ==
    /\ pc = "done" /\ correlate_pc = "written"
    /\ Cardinality(DOMAIN inst_bits) = Cardinality(DOMAIN segdata)
    /\ ~flags.i
    =>
    \A l \in {k \in out_lines : k.notes \intersect {"const0", "const1"} = {}} :
        LET f == tag_ids[l.tag + 1]
        IN ReadAlike(f) =>
           {bit_ids[b + 1] : b \in l.candidates} \subseteq
               featbits[f] \union UNION {featbits[d] : d \in deps[f]}

\* Both programs end, whatever names the segments have (the loop of read_input
\* over segdata.count(token)).
BothEnd ==
    <>(pc \in {"done", "failed", "aborted"}
       /\ correlate_pc \in {"written", "failed", "aborted"})

=============================================================================

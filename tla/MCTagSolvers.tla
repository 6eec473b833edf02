---------------------------- MODULE MCTagSolvers ----------------------------
(***************************************************************************)
(* The two tag solvers on a file of two segments, with more of them in the *)
(* same file or in another one, of up to three bits, and of three tags one *)
(* of which is named like the inverse of another.                          *)
(***************************************************************************)
EXTENDS TagSolvers

Item2(kind, name, value) == [kind |-> kind, name |-> name, value |-> value]

Bits(b) == Item2("bit", b, "")

Tag(name, v) == Item2("tag", name, v)

TagT == {<<>>, <<Tag(<<"T">>, "0")>>, <<Tag(<<"T">>, "1")>>,
         <<Tag(<<"T">>, "1"), Tag(<<"T">>, "0")>>}

\* A value that segmatch takes for 0 and correlate_segdata for set.
OtherTagT == {<<Tag(<<"T">>, "2")>>}

TagU == {<<>>, <<Tag(<<"T", "__INV">>, "1")>>}

SomeBits == {<<>>, <<Bits("b")>>, <<Bits("a"), Bits("b")>>}

Segments(names, tags) ==
    {<<Item2("seg", n, "")>> \o b \o t \o u :
        n \in names, b \in SomeBits, t \in tags, u \in TagU}

File(name, items) == [name |-> name, items |-> items]

\* The last is the name that the second segment of the first name gets.
SegmentNames == {<<"A">>, <<"A", 1>>}

Pairs ==
    {a \o b : a \in Segments({<<"A">>}, TagT),
              b \in Segments(SegmentNames, TagT \union OtherTagT)}

\* T without what goes with it in the pair, and a segment with neither.
Rest == {<<>>,
         <<Item2("seg", <<"A">>, ""), Bits("a"), Tag(<<"T">>, "0")>>,
         <<Item2("seg", <<"C">>, ""), Bits("b"), Tag(<<"T">>, "1"),
           Item2("seg", <<"D">>, ""), Bits("c"), Tag(<<"V">>, "x")>>}

Odd == {<<Bits("a")>>, <<Tag(<<"T">>, "1")>>, <<Item2("other", <<>>, "")>>,
        <<Item2("bit", "a", "malformed")>>}

MCInputs ==
    {<<File("f", p \o t)>> : p \in Pairs, t \in Rest}
        \union {<<File(f, <<Item2("seg", <<"A">>, ""), Bits("c"),
                          Tag(<<"T">>, "1")>>), File("f", p)>> :
                   f \in {"f", "g"}, p \in Pairs}
        \union {<<File("f", t \o o)>> : t \in Rest, o \in Odd}

MCFlags == {[c |-> 1, i |-> FALSE, m |-> 0, M |-> 2],
            [c |-> -1, i |-> TRUE, m |-> 2, M |-> 3]}

=============================================================================

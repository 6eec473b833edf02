------------------------- MODULE MCConfigurationSplit -------------------------
(***************************************************************************)
(* Small parts, prologues and data for ConfigurationSplit.                 *)
(***************************************************************************)
EXTENDS ConfigurationSplit

Key(block, half, row, column) ==
    [block |-> block, half |-> half, row |-> row, column |-> column]

\* Every part over a few columns, of two frames each.
SmallParts ==
    {[arch |-> "Series7", columns |-> [k \in s |-> 2]] :
        s \in SUBSET {Key(0, 0, 0, 0), Key(0, 0, 0, 1), Key(0, 0, 1, 0),
                      Key(0, 1, 0, 0), Key(1, 0, 0, 0)}}

Write(register, data) ==
    [opcode |-> "Write", address |-> register, data |-> data]

\* WCFG before FAR, after FAR, or not at all; the last with data of its own.
SmallPrologues ==
    LET far(a) == Write("FAR", <<AddressWord("Series7", a)>>)
        wcfg   == Write("CMD", <<1>>)
    IN {<<>>,
        <<wcfg, far(Address(0, 0, 0, 0, 1))>>,
        <<far(Address(0, 0, 1, 0, 1)), wcfg>>,
        <<far(Address(0, 1, 0, 0, 0)), Write("FDRI", <<31, 32, 33, 34>>)>>}

\* Words that all differ, so that a misplaced word shows, and words that do
\* not.
SmallData ==
    {[i \in 1..n |-> i] : n \in {1, 6, 12, 21, 24}} \union
        {[i \in 1..12 |-> 7], <<1, 2, 3, 1, 2, 3, 1, 2>>}
=============================================================================

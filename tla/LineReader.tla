----------------------------- MODULE LineReader -----------------------------
(***************************************************************************)
(* LineReader: the lines of a text file, without the blank ones and the    *)
(* comments.  A file is its lines and whether the last one is terminated;  *)
(* a line has text, or is empty before or after its comment is cut off, or *)
(* has nothing but spaces in front of where its comment was cut off.       *)
(***************************************************************************)
EXTENDS Integers, Sequences

File(Text) ==
    [lines : Seq([kind : {"empty", "spaces"}] \union [kind : {"text"}, text : Text]),
     terminated : BOOLEAN]

Kind(f, n) == f.lines[n].kind

\* Mutant of Repeats: the buffer keeps the last line of every file.
RepeatsAny(f, n) == n > 0 /\ n = Len(f.lines) /\ Kind(f, n) = "text"

\* std::getline fails on a stream whose last line it has read to the end of the
\* file, and does not touch the buffer, which still has that line.
Repeats(f, n) ==
    n > 0 /\ n = Len(f.lines) /\ ~f.terminated /\ Kind(f, n) = "text"

\* Of a line of spaces, substr takes what is after the end, which throws.
Throws(f, n) == n < Len(f.lines) /\ Kind(f, n + 1) = "spaces"

Skips(f, n) == n < Len(f.lines) /\ Kind(f, n + 1) = "empty"

\* The line that comes next when n lines have been read, if one comes.
Yielded(f, n) ==
    IF n < Len(f.lines)
    THEN IF Kind(f, n + 1) = "text" THEN {n + 1} ELSE {}
    ELSE IF Repeats(f, n) THEN {n} ELSE {}

AtEnd(f, n) == n = Len(f.lines) /\ ~Repeats(f, n)

=============================================================================

------------------------------- MODULE MCEcc -------------------------------
(***************************************************************************)
(* Frames of the sizes the architectures have, with a few bits set.        *)
(***************************************************************************)
EXTENDS Ecc

\* A blank frame, bits in the words where the offsets of Series-7 change, and
\* bits of an old ECC.
SmallFrames(a) ==
    LET k == kECCFrameNumber(a)
    IN {{}, {<<0, 0>>, <<6, 31>>, <<7, 0>>, <<37, 5>>, <<38, 31>>},
        {<<k, 0>>, <<k, 20>>, <<k + 1, 7>>, <<k + 1, 16>>,
         <<WordsPerFrame(a) - 1, 31>>}}

\* Bits of the data and of both words with ECC bits.
Corners(a) ==
    {<<0, 0>>, <<7, 0>>, <<kECCFrameNumber(a), 3>>,
     <<kECCFrameNumber(a) + 1, 16>>}
=============================================================================

--------------------------- MODULE RoundTrip_proofs ---------------------------
(***************************************************************************)
(* What Configuration makes of the packets that ConfigurationWriter makes, *)
(* for every part and every map of whole frames, whatever addresses it     *)
(* has.                                                                    *)
(*                                                                         *)
(* The writer lays the frames out in the order of their addresses, with    *)
(* padding where its part says that the row ends; the reader goes by the   *)
(* walk from address zero and skips padding where the same part says so.   *)
(* So both stay together as long as the frames are those of the walk, and  *)
(* the two zero frames at the end make the reader overshoot or stop short  *)
(* when they are not.                                                      *)
(***************************************************************************)
EXTENDS ConfigurationWriter, PartAddressing_proofs, SequenceTheorems

VARIABLES
    stream, \* the packets that are read: the first of those written, or all
    pos, command_register, frame_address_register, mask_register,
    ctl1_register, start_new_write, current_frame_address, ii,
    read_back, reader_pc

Reader == INSTANCE Configuration
              WITH packets <- stream, frames <- read_back, pc <- reader_pc,
                   Parts <- {}, PacketStreams <- {}

-----------------------------------------------------------------------------
(***************************************************************************)
(* The writer.                                                             *)
(***************************************************************************)

\* The frames to write are whole, and there is a part that they are for.
Framed ==
    /\ WordsPerFrame \in Nat \ {0}
    /\ IsPart(part)
    /\ frames = [a \in DOMAIN frames |-> frames[a]]
    /\ DOMAIN frames \subseteq FrameAddress
    /\ \A a \in DOMAIN frames :
          frames[a] \in Seq(Nat) /\ Len(frames[a]) = WordsPerFrame

\* The words that a frame takes up, with the padding after it.
Size(a) == WordsPerFrame + Len(SeparatorAfter(a))

\* The frames of these addresses, at these offsets, end at offset p.
Ends(set, off, p) ==
    /\ set = {} => p = 0
    /\ \A a \in set :
          (\A b \in set : Packed(b) <= Packed(a)) => p = off[a] + Size(a)

\* The addresses before a.
Lower(set, a) == {b \in set : Packed(b) < Packed(a)}

\* The frame of address a is in the data at its offset.
Holds(off, a) ==
    /\ off[a] + Size(a) <= Len(packet_data)
    /\ \A i \in 1..WordsPerFrame : packet_data[off[a] + i] = frames[a][i]

\* The frames of these addresses follow each other in the data.
LaidOut(off, set) ==
    /\ off \in [DOMAIN frames -> Nat]
    /\ \A a \in set : Holds(off, a) /\ Ends(Lower(set, a), off, off[a])

\* All frames do, and two zero frames follow the last.
WhollyLaidOut(off) ==
    /\ LaidOut(off, DOMAIN frames)
    /\ 2 * WordsPerFrame <= Len(packet_data)
    /\ \A a \in DOMAIN frames :
          off[a] + Size(a) + 2 * WordsPerFrame <= Len(packet_data)

Visited == DOMAIN frames \ remaining

(***************************************************************************)
(* While the writer is packing, the frames of the addresses it has visited *)
(* are laid out up to the end of the data.                                 *)
(***************************************************************************)
WriterInv ==
    /\ packet_data \in Seq(Nat)
    /\ writer_pc \in {"idle", "packing", "packed", "packaged"}
    /\ writer_pc = "idle" => packet_data = <<>> /\ packets = <<>>
    /\ writer_pc = "packing" =>
           /\ remaining \subseteq DOMAIN frames
           /\ \A a \in Visited, b \in remaining : Packed(a) < Packed(b)
           /\ \E off :
                  LaidOut(off, Visited) /\ Ends(Visited, off, Len(packet_data))
           /\ Len(packet_data) <= 3 * WordsPerFrame * Cardinality(Visited)
    /\ writer_pc \in {"packed", "packaged"} =>
           /\ \E off : WhollyLaidOut(off)
           /\ Len(packet_data) <=
                  3 * WordsPerFrame * Cardinality(DOMAIN frames) + 2 * WordsPerFrame
    /\ writer_pc = "packaged" =>
           packets = IF part.arch = "Series7"
                     THEN Series7Package ELSE UltraScalePackage

\* The padding is two frames of words.
LEMMA SeparatorIsWords ==
    ASSUME WordsPerFrame \in Nat \ {0}
    PROVE  /\ Separator \in Seq(Nat) /\ Len(Separator) = 2 * WordsPerFrame
           /\ \A a : /\ SeparatorAfter(a) \in Seq(Nat)
                     /\ Len(SeparatorAfter(a)) =
                            IF CrossesRow(a, GetNextFrameAddress(part, a))
                            THEN 2 * WordsPerFrame ELSE 0
                     /\ Size(a) = IF CrossesRow(a, GetNextFrameAddress(part, a))
                                  THEN 3 * WordsPerFrame ELSE WordsPerFrame
                     /\ Size(a) \in Nat
<1>1. Separator \in Seq(Nat) /\ Len(Separator) = 2 * WordsPerFrame
  BY DEF Separator
<1>2. <<>> \in Seq(Nat) /\ Len(<<>>) = 0
  OBVIOUS
<1>3. ASSUME NEW a
      PROVE  /\ SeparatorAfter(a) \in Seq(Nat)
             /\ Len(SeparatorAfter(a)) =
                    IF CrossesRow(a, GetNextFrameAddress(part, a))
                    THEN 2 * WordsPerFrame ELSE 0
  BY <1>1, <1>2 DEF SeparatorAfter
<1>4. ASSUME NEW a
      PROVE  /\ Size(a) = IF CrossesRow(a, GetNextFrameAddress(part, a))
                          THEN 3 * WordsPerFrame ELSE WordsPerFrame
             /\ Size(a) \in Nat
  BY <1>3 DEF Size
<1>5. QED
  BY <1>1, <1>3, <1>4

\* A frame at the end of the frames of lower addresses is the new end.
LEMMA EndsGrows ==
    ASSUME NEW set, NEW off, NEW p, Ends(set, off, p), NEW a,
           \A b \in set : Packed(b) < Packed(a), off[a] = p,
           \A b \in set : Packed(b) \in Nat, Packed(a) \in Nat
    PROVE  Ends(set \union {a}, off, p + Size(a))
<1>1. ASSUME NEW c \in set \union {a},
             \A b \in set \union {a} : Packed(b) <= Packed(c)
      PROVE  c = a
  <2>1. Packed(a) <= Packed(c)
    BY <1>1
  <2>2. c \in set => Packed(c) < Packed(a) /\ Packed(c) \in Nat
    OBVIOUS
  <2>3. QED
    BY <1>1, <2>1, <2>2
<1>2. QED
  BY <1>1 DEF Ends

\* The frames of some addresses end in one place.
LEMMA EndsOnce ==
    ASSUME NEW set, set \subseteq FrameAddress, NEW off, NEW p, NEW q,
           Ends(set, off, p), Ends(set, off, q)
    PROVE  p = q
<1>1. CASE set = {}
  BY <1>1 DEF Ends
<1>2. CASE set # {}
  <2>1. PICK a \in set : \A b \in set : ~Precedes(a, b)
    BY <1>2, LastAddress
  <2>2. \A b \in set : Packed(b) <= Packed(a)
    BY <2>1, PackedPrecedes, PackedIsNat
  <2>3. QED
    BY <2>2 DEF Ends
<1>3. QED
  BY <1>1, <1>2

\* Nothing has been written at first.
LEMMA InitWriterInv == InitWriter => WriterInv
<1>1. SUFFICES ASSUME InitWriter PROVE WriterInv
  OBVIOUS
<1>2. writer_pc = "idle" /\ packet_data = <<>> /\ packets = <<>>
  BY <1>1 DEF InitWriter
<1>3. packet_data \in Seq(Nat)
  BY <1>2
<1>4. QED
  BY <1>2, <1>3 DEF WriterInv

\* Sequences one after the other.
LEMMA Joined ==
    ASSUME NEW s \in Seq(Nat), NEW t \in Seq(Nat), NEW u \in Seq(Nat)
    PROVE  /\ s \o t \o u \in Seq(Nat)
           /\ Len(s \o t \o u) = Len(s) + Len(t) + Len(u)
           /\ \A i \in 1..Len(s) : (s \o t \o u)[i] = s[i]
           /\ \A i \in 1..Len(t) : (s \o t \o u)[Len(s) + i] = t[i]
<1>1. /\ s \o t \in Seq(Nat) /\ Len(s \o t) = Len(s) + Len(t)
      /\ \A i \in 1..Len(s \o t) :
            (s \o t)[i] = IF i <= Len(s) THEN s[i] ELSE t[i - Len(s)]
      /\ Len(s) \in Nat /\ Len(t) \in Nat /\ Len(u) \in Nat
  BY ConcatProperties
<1> DEFINE st == s \o t
<1>2. /\ st \o u \in Seq(Nat) /\ Len(st \o u) = Len(st) + Len(u)
      /\ \A i \in 1..Len(st \o u) :
            (st \o u)[i] = IF i <= Len(st) THEN st[i] ELSE u[i - Len(st)]
  BY <1>1, ConcatProperties
<1> HIDE DEF st
<1>3. /\ \A i \in 1..Len(s) : (st \o u)[i] = st[i]
      /\ \A i \in 1..Len(t) : (st \o u)[Len(s) + i] = st[Len(s) + i]
  BY <1>1, <1>2 DEF st
<1>4. /\ \A i \in 1..Len(s) : st[i] = s[i]
      /\ \A i \in 1..Len(t) : st[Len(s) + i] = t[i]
  BY <1>1 DEF st
<1>5. QED
  BY <1>1, <1>2, <1>3, <1>4 DEF st

\* Frames that are laid out stay where they are when words are added.
LEMMA LaidOutStays ==
    ASSUME Framed, NEW off, NEW set, set \subseteq DOMAIN frames,
           LaidOut(off, set),
           packet_data \in Seq(Nat),
           NEW a \in DOMAIN frames, a \notin set,
           \A b \in set : Packed(b) < Packed(a),
           Ends(set, off, Len(packet_data)),
           packet_data' = packet_data \o frames[a] \o SeparatorAfter(a),
           frames' = frames, part' = part
    PROVE  /\ \E new : /\ LaidOut(new, set \union {a})'
                       /\ Ends(set \union {a}, new, Len(packet_data))'
           /\ packet_data' \in Seq(Nat)
           /\ Len(packet_data') <= Len(packet_data) + 3 * WordsPerFrame
<1> PICK end : end = Len(packet_data)
  OBVIOUS
<1> DEFINE new == [off EXCEPT ![a] = end]
<1>1. /\ frames[a] \in Seq(Nat) /\ Len(frames[a]) = WordsPerFrame
      /\ WordsPerFrame \in Nat \ {0} /\ set \subseteq FrameAddress
      /\ a \in FrameAddress
  BY DEF Framed
<1>2. /\ SeparatorAfter(a) \in Seq(Nat)
      /\ Size(a) = WordsPerFrame + Len(SeparatorAfter(a))
      /\ Size(a) \in Nat /\ Size(a) <= 3 * WordsPerFrame
  BY <1>1, SeparatorIsWords DEF Size
<1>3. /\ packet_data' \in Seq(Nat) /\ Len(packet_data') = end + Size(a)
      /\ \A i \in 1..end : packet_data'[i] = packet_data[i]
      /\ \A i \in 1..WordsPerFrame : packet_data'[end + i] = frames[a][i]
      /\ end \in Nat
  <2> DEFINE d == packet_data  f == frames[a]  g == SeparatorAfter(a)
  <2>1. d \in Seq(Nat) /\ f \in Seq(Nat) /\ g \in Seq(Nat)
    BY <1>1, <1>2
  <2>2. packet_data' = d \o f \o g
    OBVIOUS
  <2>3. Len(d) = end /\ Len(f) = WordsPerFrame /\ Size(a) = WordsPerFrame + Len(g)
    BY <1>1, <1>2
  <2> HIDE DEF d, f, g
  <2>4. /\ d \o f \o g \in Seq(Nat)
        /\ Len(d \o f \o g) = Len(d) + Len(f) + Len(g)
        /\ \A i \in 1..Len(d) : (d \o f \o g)[i] = d[i]
        /\ \A i \in 1..Len(f) : (d \o f \o g)[Len(d) + i] = f[i]
    BY ONLY <2>1, Joined
  <2>5. Len(d) \in Nat /\ Len(f) \in Nat /\ Len(g) \in Nat
    BY <2>1
  <2>6. Len(packet_data') = end + Size(a)
    BY <2>2, <2>3, <2>4, <2>5
  <2>7. QED
    BY <2>2, <2>3, <2>4, <2>5, <2>6 DEF d, f
<1>4. /\ new \in [DOMAIN frames -> Nat] /\ new[a] = end
      /\ \A b \in set : new[b] = off[b] /\ off[b] \in Nat
  BY <1>3 DEF LaidOut
<1>5. \A b : Size(b)' = Size(b) /\ SeparatorAfter(b)' = SeparatorAfter(b)
  BY DEF Size, SeparatorAfter, Separator
<1>6. \A b \in set : Packed(b) \in Nat /\ Packed(a) \in Nat
  BY <1>1, PackedIsNat
<1>7. ASSUME NEW b \in set
      PROVE  /\ Holds(off, b) /\ Ends(Lower(set, b), off, off[b])
             /\ off[b] \in Nat /\ Size(b) \in Nat /\ WordsPerFrame <= Size(b)
  BY SMTT(30), <1>1, <1>4, SeparatorIsWords DEF LaidOut
<1> HIDE DEF new
<1>8. ASSUME NEW b \in set PROVE Holds(new, b)'
  <2>1. off[b] + Size(b) <= end + Size(a)
    BY <1>2, <1>3, <1>7 DEF Holds
  <2>2. ASSUME NEW i \in 1..WordsPerFrame
        PROVE  packet_data'[off[b] + i] = frames[b][i]
    <3>1. /\ packet_data[off[b] + i] = frames[b][i]
          /\ off[b] + Size(b) <= end
      BY <1>7 DEF Holds
    <3>2. off[b] + i \in 1..end
      <4> DEFINE o == off[b]  n == Size(b)
      <4>1. /\ o \in Nat /\ n \in Nat /\ end \in Nat /\ WordsPerFrame \in Nat
            /\ WordsPerFrame <= n /\ o + n <= end
        BY <1>1, <1>3, <1>7, <3>1
      <4> HIDE DEF o, n
      <4>2. o + i \in 1..end
        BY <4>1
      <4>3. QED
        BY <4>2 DEF o
    <3>3. QED
      BY <1>3, <3>1, <3>2
  <2>3. QED
    BY <1>3, <1>4, <1>5, <2>1, <2>2 DEF Holds
<1>9. Holds(new, a)'
  <2>1. new[a] + Size(a)' <= Len(packet_data')
    BY <1>2, <1>3, <1>4, <1>5
  <2>2. \A i \in 1..WordsPerFrame : packet_data'[new[a] + i] = frames'[a][i]
    BY <1>3, <1>4
  <2>3. QED
    BY <2>1, <2>2 DEF Holds
<1>10. ASSUME NEW b \in set PROVE Lower(set \union {a}, b) = Lower(set, b)
  BY <1>6 DEF Lower
<1>11. Lower(set \union {a}, a) = set
  BY <1>1, PackedIsNat DEF Lower
<1>12. ASSUME NEW b \in set PROVE Ends(Lower(set, b), new, new[b])'
  BY <1>4, <1>5, <1>7 DEF Ends, Lower
<1>13. Ends(set, new, end)
  BY <1>4 DEF Ends
<1>14. Ends(set, new, new[a])'
  BY <1>4, <1>5, <1>13 DEF Ends
<1>15. Ends(set \union {a}, new, end + Size(a))
  <2>1. /\ \A b \in set : Packed(b) < Packed(a)
        /\ \A b \in set : Packed(b) \in Nat
        /\ Packed(a) \in Nat /\ new[a] = end
    BY <1>1, <1>4, <1>6, PackedIsNat
  <2>2. QED
    BY <1>13, <2>1, EndsGrows
<1>16. Ends(set \union {a}, new, Len(packet_data))'
  BY <1>3, <1>5, <1>15 DEF Ends
<1>17. \A b \in set \union {a} :
          Holds(new, b)' /\ Ends(Lower(set \union {a}, b), new, new[b])'
  BY <1>8, <1>9, <1>10, <1>11, <1>12, <1>14
<1>18. LaidOut(new, set \union {a})'
  BY <1>4, <1>17 DEF LaidOut
<1>19. \E other : /\ LaidOut(other, set \union {a})'
                  /\ Ends(set \union {a}, other, Len(packet_data))'
  BY <1>16, <1>18
<1>20. Len(packet_data') <= Len(packet_data) + 3 * WordsPerFrame
  BY <1>1, <1>2, <1>3
<1>21. QED
  BY <1>3, <1>19, <1>20

\* There are finitely many frames.
LEMMA FramesAreFinite ==
    ASSUME Framed, NEW set, set \subseteq DOMAIN frames
    PROVE  IsFiniteSet(set) /\ Cardinality(set) \in Nat
<1>1. set \in SUBSET FrameAddress
  BY DEF Framed
<1>2. QED
  BY <1>1, FinitelyManyAddresses, FS_Subset, FS_CardinalityType

\* Nothing is laid out when packing begins.
LEMMA BeginPackingKeepsInv ==
    ASSUME Framed, WriterInv, BeginPacking PROVE WriterInv'
<1>1. /\ packet_data' = packet_data /\ packet_data = <<>>
             /\ writer_pc' = "packing"
      /\ remaining' = DOMAIN frames /\ frames' = frames
  BY DEF BeginPacking, WriterInv
<1>2. Visited' = {}
  BY <1>1 DEF Visited
<1>3. PICK off : off = [a \in DOMAIN frames |-> 0]
  OBVIOUS
<1>4. LaidOut(off, {})'
  BY <1>1, <1>3 DEF LaidOut
<1>5. Ends({}, off, Len(packet_data))'
  BY <1>1 DEF Ends
<1>6. Len(packet_data') <= 3 * WordsPerFrame * Cardinality({})
  <2>1. Cardinality({}) = 0 /\ Len(packet_data') = 0
    BY <1>1, FS_EmptySet
  <2>2. QED
    BY <2>1 DEF Framed
<1>7. \E other :
          LaidOut(other, Visited)' /\ Ends(Visited, other, Len(packet_data))'
  BY <1>2, <1>4, <1>5 DEF LaidOut, Ends
<1>8. packet_data' \in Seq(Nat)
  BY <1>1
<1>9. QED
  BY <1>1, <1>2, <1>6, <1>7, <1>8 DEF WriterInv

\* The next frame is laid out behind the others.
LEMMA PackFrameKeepsInv ==
    ASSUME Framed, WriterInv, PackFrame PROVE WriterInv'
<1>1. PICK a \in remaining :
          /\ \A b \in remaining : Packed(a) <= Packed(b)
          /\ packet_data' = packet_data \o frames[a] \o SeparatorAfter(a)
          /\ remaining' = remaining \ {a}
  BY DEF PackFrame
<1>2. /\ writer_pc = "packing" /\ writer_pc' = "packing"
      /\ frames' = frames /\ part' = part
  BY DEF PackFrame
<1>3. /\ remaining \subseteq DOMAIN frames
      /\ \A b \in Visited, c \in remaining : Packed(b) < Packed(c)
      /\ \E off : LaidOut(off, Visited) /\ Ends(Visited, off, Len(packet_data))
      /\ Len(packet_data) <= 3 * WordsPerFrame * Cardinality(Visited)
      /\ packet_data \in Seq(Nat)
  BY <1>2 DEF WriterInv
<1>4. PICK off : LaidOut(off, Visited) /\ Ends(Visited, off, Len(packet_data))
  BY <1>3
<1>5. PICK set : set = Visited
  OBVIOUS
<1>6. /\ Visited' = set \union {a} /\ a \in DOMAIN frames /\ a \notin set
      /\ set \subseteq DOMAIN frames
  BY <1>1, <1>2, <1>3, <1>5 DEF Visited
<1>7. \A b \in set : Packed(b) < Packed(a)
  BY <1>3, <1>5
<1>8. /\ \E new : /\ LaidOut(new, set \union {a})'
                  /\ Ends(set \union {a}, new, Len(packet_data))'
      /\ packet_data' \in Seq(Nat)
      /\ Len(packet_data') <= Len(packet_data) + 3 * WordsPerFrame
  <2>1. /\ LaidOut(off, set) /\ Ends(set, off, Len(packet_data))
        /\ packet_data \in Seq(Nat)
    BY <1>3, <1>4, <1>5
  <2>2. QED
    BY <1>1, <1>2, <1>6, <1>7, <2>1, LaidOutStays
<1>9. ASSUME NEW b \in set \union {a}, NEW c \in remaining \ {a}
      PROVE  Packed(b) < Packed(c)
  <2>1. a \in FrameAddress /\ c \in FrameAddress
    BY <1>3 DEF Framed
  <2>2. Packed(a) <= Packed(c) /\ Packed(a) # Packed(c)
    BY <1>1, <2>1, PackedIsOne
  <2>3. Packed(a) < Packed(c)
    BY <2>1, <2>2, PackedIsNat
  <2>4. QED
    BY <1>3, <1>5, <2>3
<1>10. Len(packet_data') <= 3 * WordsPerFrame * Cardinality(set \union {a})
  <2> DEFINE n == Cardinality(set)  m == Cardinality(set \union {a})
             l == Len(packet_data)  w == WordsPerFrame
  <2>1. IsFiniteSet(set) /\ n \in Nat /\ m = n + 1
    <3>1. IsFiniteSet(set) /\ n \in Nat
      BY <1>6, FramesAreFinite
    <3>2. QED
      BY <1>6, <3>1, FS_AddElement
  <2>2. w \in Nat /\ l \in Nat /\ Len(packet_data') \in Nat
    BY <1>3, <1>8 DEF Framed
  <2>3. Len(packet_data') <= l + 3 * w /\ l <= 3 * w * n
    BY <1>3, <1>5, <1>8
  <2> HIDE DEF n, m, l, w
  <2>4. 3 * w * n + 3 * w = 3 * w * (n + 1) /\ 3 * w * n \in Nat
    BY <2>1, <2>2
  <2>5. Len(packet_data') <= 3 * w * m
    BY <2>1, <2>2, <2>3, <2>4
  <2>6. QED
    BY <2>5 DEF m, w
<1>11. \E new : LaidOut(new, Visited)' /\ Ends(Visited, new, Len(packet_data))'
  BY <1>6, <1>8 DEF LaidOut, Ends
<1>12. /\ remaining' \subseteq DOMAIN frames'
       /\ \A b \in Visited', c \in remaining' : Packed(b) < Packed(c)
       /\ Len(packet_data') <= 3 * WordsPerFrame * Cardinality(Visited')
  BY <1>1, <1>2, <1>3, <1>6, <1>9, <1>10
<1>13. QED
  BY <1>2, <1>8, <1>11, <1>12 DEF WriterInv

\* Two zero frames at the end leave the others where they are.
LEMMA EndPackingKeepsInv ==
    ASSUME Framed, WriterInv, EndPacking PROVE WriterInv'
<1>1. /\ writer_pc = "packing" /\ writer_pc' = "packed" /\ remaining = {}
      /\ frames' = frames /\ part' = part
      /\ packet_data' = packet_data \o Separator
  BY DEF EndPacking
<1>2. Visited = DOMAIN frames
  BY <1>1 DEF Visited
<1>3. /\ packet_data \in Seq(Nat)
      /\ Len(packet_data) <= 3 * WordsPerFrame * Cardinality(DOMAIN frames)
  BY <1>1, <1>2 DEF WriterInv
<1>4. PICK off : LaidOut(off, DOMAIN frames)
  BY <1>1, <1>2 DEF WriterInv
<1>5. /\ WordsPerFrame \in Nat \ {0}
      /\ Separator \in Seq(Nat) /\ Len(Separator) = 2 * WordsPerFrame
      /\ \A a : Size(a) \in Nat /\ WordsPerFrame <= Size(a)
  BY SeparatorIsWords DEF Framed
<1>6. PICK end : end = Len(packet_data)
  OBVIOUS
<1>7. /\ packet_data' \in Seq(Nat) /\ Len(packet_data') = end + 2 * WordsPerFrame
      /\ \A i \in 1..end : packet_data'[i] = packet_data[i]
      /\ end \in Nat
  <2> DEFINE d == packet_data  g == Separator
  <2>1. d \in Seq(Nat) /\ g \in Seq(Nat) /\ packet_data' = d \o g
    BY <1>1, <1>3, <1>5
  <2>2. Len(d) = end /\ Len(g) = 2 * WordsPerFrame
    BY <1>5, <1>6
  <2> HIDE DEF d, g
  <2>3. /\ d \o g \in Seq(Nat) /\ Len(d \o g) = Len(d) + Len(g)
        /\ \A i \in 1..Len(d) + Len(g) :
              (d \o g)[i] = IF i <= Len(d) THEN d[i] ELSE g[i - Len(d)]
        /\ Len(d) \in Nat /\ Len(g) \in Nat
    BY <2>1, ConcatProperties
  <2>4. \A i \in 1..end : (d \o g)[i] = d[i]
    BY <2>2, <2>3
  <2>5. QED
    BY <2>1, <2>2, <2>3, <2>4 DEF d
<1>8. \A a : Size(a)' = Size(a)
  BY <1>1 DEF Size, SeparatorAfter, Separator
<1>9. ASSUME NEW a \in DOMAIN frames
      PROVE  /\ Holds(off, a)' /\ Ends(Lower(DOMAIN frames, a), off, off[a])'
             /\ off[a] + Size(a)' + 2 * WordsPerFrame <= Len(packet_data')
  <2>1. /\ Holds(off, a) /\ Ends(Lower(DOMAIN frames, a), off, off[a])
        /\ off[a] \in Nat
    BY <1>4 DEF LaidOut
  <2> DEFINE o == off[a]  n == Size(a)
  <2>2. /\ o \in Nat /\ n \in Nat /\ WordsPerFrame <= n /\ o + n <= end
        /\ \A i \in 1..WordsPerFrame : packet_data[o + i] = frames[a][i]
    BY <1>5, <1>6, <2>1 DEF Holds
  <2> HIDE DEF o, n
  <2>3. \A i \in 1..WordsPerFrame : o + i \in 1..end
    BY <1>5, <1>7, <2>2
  <2>4. \A i \in 1..WordsPerFrame : packet_data'[o + i] = frames[a][i]
    BY <1>7, <2>2, <2>3
  <2>5. o + n + 2 * WordsPerFrame <= Len(packet_data')
    BY <1>5, <1>7, <2>2
  <2>6. o + n <= Len(packet_data')
    BY <1>5, <1>7, <2>2
  <2>7. Holds(off, a)'
    <3>1. off[a] + Size(a)' <= Len(packet_data')
      BY <1>8, <2>6 DEF o, n
    <3>2. \A i \in 1..WordsPerFrame : packet_data'[off[a] + i] = frames'[a][i]
      BY <1>1, <2>4 DEF o
    <3>3. QED
      BY <3>1, <3>2 DEF Holds
  <2>8. Ends(Lower(DOMAIN frames, a), off, off[a])'
    BY <1>1, <1>8, <2>1 DEF Ends, Lower
  <2>9. QED
    BY <1>8, <2>5, <2>7, <2>8 DEF o, n
<1>10. LaidOut(off, DOMAIN frames)'
  BY <1>1, <1>4, <1>9 DEF LaidOut
<1>11. WhollyLaidOut(off)'
  <2>1. 2 * WordsPerFrame <= Len(packet_data')
    BY <1>5, <1>7
  <2>2. QED
    BY <1>1, <1>9, <1>10, <2>1 DEF WhollyLaidOut
<1>12. Len(packet_data') <=
           3 * WordsPerFrame * Cardinality(DOMAIN frames') + 2 * WordsPerFrame
  <2>1. Cardinality(DOMAIN frames) \in Nat
    BY FramesAreFinite
  <2> DEFINE bound == 3 * WordsPerFrame * Cardinality(DOMAIN frames)
  <2>2. bound \in Nat /\ end <= bound
    BY <1>3, <1>5, <1>6, <2>1
  <2> HIDE DEF bound
  <2>3. Len(packet_data') <= bound + 2 * WordsPerFrame
    BY <1>5, <1>7, <2>2
  <2>4. QED
    BY <1>1, <2>3 DEF bound
<1>13. QED
  BY <1>1, <1>7, <1>11, <1>12 DEF WriterInv

\* Every step of the writer keeps WriterInv, and so does every step in which
\* the writer is idle or its frames do not change.
LEMMA NextWriterInv == Framed /\ WriterInv /\ WriterNext => WriterInv'
<1>1. ASSUME Framed, WriterInv, createConfigurationPackage PROVE WriterInv'
  <2>1. /\ writer_pc = "packed" /\ writer_pc' = "packaged"
        /\ UNCHANGED <<part, frames, remaining, packet_data>>
        /\ packets' = IF part.arch = "Series7"
                      THEN Series7Package ELSE UltraScalePackage
    BY <1>1 DEF createConfigurationPackage
  <2>2. /\ Series7Package' = Series7Package
        /\ UltraScalePackage' = UltraScalePackage
    BY <2>1 DEF Series7Package, UltraScalePackage, FrameWrite
  <2>3. /\ \E off : WhollyLaidOut(off)
        /\ Len(packet_data) <=
               3 * WordsPerFrame * Cardinality(DOMAIN frames) + 2 * WordsPerFrame
        /\ packet_data \in Seq(Nat)
    BY <1>1, <2>1 DEF WriterInv
  <2>4. PICK off : WhollyLaidOut(off)
    BY <2>3
  <2>5. WhollyLaidOut(off)'
    BY <2>1, <2>4
       DEF WhollyLaidOut, LaidOut, Holds, Ends, Lower, Size, SeparatorAfter
  <2>6. QED
    BY <2>1, <2>2, <2>3, <2>5 DEF WriterInv
<1>2. QED
  BY <1>1, BeginPackingKeepsInv, PackFrameKeepsInv, EndPackingKeepsInv
     DEF WriterNext, createType2ConfigurationPacketData

\* So does every step that leaves the writer alone, and its frames too unless
\* it is idle.
LEMMA WriterStutters ==
    ASSUME WriterInv, UNCHANGED <<part, writer_vars>>,
           writer_pc # "idle" => frames' = frames
    PROVE  WriterInv'
<1>1. CASE writer_pc = "idle"
  BY <1>1 DEF WriterInv, writer_vars
<1>2. CASE writer_pc # "idle"
  <2>1. UNCHANGED <<part, frames, remaining, packet_data, packets, writer_pc>>
    BY <1>2 DEF writer_vars
  <2>2. \A off, set : /\ LaidOut(off, set)' <=> LaidOut(off, set)
                      /\ WhollyLaidOut(off)' <=> WhollyLaidOut(off)
    BY <2>1 DEF WhollyLaidOut, LaidOut, Holds, Ends, Lower, Size, SeparatorAfter
  <2>3. \A off, set, p : Ends(set, off, p)' <=> Ends(set, off, p)
    BY <2>1 DEF Ends, Size, SeparatorAfter
  <2>4. Visited' = Visited
    BY <2>1 DEF Visited
  <2>5. /\ Series7Package' = Series7Package
        /\ UltraScalePackage' = UltraScalePackage
    BY <2>1 DEF Series7Package, UltraScalePackage, FrameWrite
  <2>6. (\E off :
            LaidOut(off, Visited) /\ Ends(Visited, off, Len(packet_data))) =>
            \E off :
                LaidOut(off, Visited)' /\ Ends(Visited, off, Len(packet_data))'
    BY <2>1, <2>4 DEF LaidOut, Holds, Ends, Lower, Size, SeparatorAfter
  <2>7. QED
    BY <2>1, <2>2, <2>4, <2>5, <2>6 DEF WriterInv
<1>3. QED
  BY <1>1, <1>2

-----------------------------------------------------------------------------
\* The registers that have a name.
NamedRegisters == DOMAIN RegisterNumber

(***************************************************************************)
(* The package: packets with at most a word of data, of which those for    *)
(* FAR load address zero and the one for FDRI has no data; then the packet *)
(* with all the words; then packets for registers other than FDRI.         *)
(***************************************************************************)
ShortPackets ==
    {p \in [header_type : {1}, opcode : Opcodes, address : NamedRegisters,
            data : Seq(Nat)] : Len(p.data) <= 1}

PlainPackets == {p \in ShortPackets : p.address \notin {"FAR", "FDRI"}}

Opening ==
    {p \in ShortPackets : /\ p.address = "FAR" => p.data = <<0>>
                          /\ p.address = "FDRI" => p.data = <<>>}

Closing == {p \in ShortPackets : p.address # "FDRI"}

\* The packet with all the words.
Burst == [header_type |-> 2, opcode |-> "Write", address |-> "FDRI",
          data |-> packet_data]

IsPackage(opening, closing) ==
    /\ opening \in Seq(Opening) /\ closing \in Seq(Closing)
    /\ Len(opening) >= 1 /\ opening[Len(opening)].address = "FDRI"
    /\ packets = opening \o <<Burst>> \o closing

\* A type 1 packet of one word, and a NOP.
LEMMA PlainWrites ==
    /\ \A register \in {"TIMER", "WBSTAR", "UNKNOWN", "COR0", "COR1", "IDCODE",
                        "MASK", "CTL0", "CTL1"}, word \in Nat :
          Write(register, <<word>>) \in Seq(PlainPackets)
    /\ \A name \in {"NOP", "WCFG", "LFRM", "START", "RCRC", "SWITCH", "GRESTORE",
                    "DESYNC"} : CMD(name) \in Seq(PlainPackets)
    /\ NOPs \in Seq(PlainPackets)
<1>1. /\ {"TIMER", "WBSTAR", "UNKNOWN", "COR0", "COR1", "IDCODE", "MASK", "CTL0",
          "CTL1", "CMD", "CRC"} \subseteq NamedRegisters \ {"FAR", "FDRI"}
      /\ "Write" \in Opcodes /\ "NOP" \in Opcodes
  BY DEF NamedRegisters, RegisterNumber, Opcodes
<1>2. ASSUME NEW register \in NamedRegisters \ {"FAR", "FDRI"}, NEW word \in Nat
      PROVE  Write(register, <<word>>) \in Seq(PlainPackets)
  <2> DEFINE p == [header_type |-> 1, opcode |-> "Write", address |-> register,
                   data |-> <<word>>]
  <2>1. p.data \in Seq(Nat) /\ Len(p.data) = 1 /\ p.address = register
    OBVIOUS
  <2>2. p \in [header_type : {1}, opcode : Opcodes, address : NamedRegisters,
               data : Seq(Nat)]
    BY <1>1, <2>1
  <2> HIDE DEF p
  <2>4. Len(p.data) <= 1 /\ p.address \notin {"FAR", "FDRI"}
    BY <2>1
  <2>5. p \in PlainPackets
    BY <2>2, <2>4, Zenon DEF PlainPackets, ShortPackets
  <2>3. <<p>> \in Seq(PlainPackets)
    BY <2>5
  <2>6. QED
    BY <2>3 DEF Write, p
<1>3. NOPs \in Seq(PlainPackets)
  <2> DEFINE p == [header_type |-> 1, opcode |-> "NOP", address |-> "CRC",
                   data |-> <<>>]
  <2>1. p \in PlainPackets
    BY <1>1 DEF PlainPackets, ShortPackets
  <2> HIDE DEF p
  <2>2. <<p>> \in Seq(PlainPackets)
    BY <2>1
  <2>3. QED
    BY <2>2 DEF NOPs, p
<1>4. \A name \in {"NOP", "WCFG", "LFRM", "START", "RCRC", "SWITCH", "GRESTORE",
                   "DESYNC"} : Command[name] \in Nat
  BY DEF Command
<1>5. QED
  BY <1>1, <1>2, <1>3, <1>4 DEF CMD

\* Sequences of packets one after the other.
LEMMA Together ==
    ASSUME NEW S, NEW s \in Seq(S), NEW t \in Seq(S) PROVE s \o t \in Seq(S)
  OBVIOUS

\* Plain packets may come anywhere.
LEMMA PlainAnywhere ==
    /\ Seq(PlainPackets) \subseteq Seq(Opening)
    /\ Seq(PlainPackets) \subseteq Seq(Closing)
<1>1. PlainPackets \subseteq Opening /\ PlainPackets \subseteq Closing
  BY DEF PlainPackets, Opening, Closing
<1>2. QED
  BY <1>1

\* The packets that load address zero, and that announce the frames.
LEMMA OpeningWrites ==
    /\ Write("FAR", <<0>>) \in Seq(Opening)
    /\ Write("FDRI", <<>>) \in Seq(Opening)
    /\ Len(Write("FDRI", <<>>)) = 1 /\ Write("FDRI", <<>>)[1].address = "FDRI"
    /\ \A word \in Nat : Write("FAR", <<word>>) \in Seq(Closing)
<1>1. {"FAR", "FDRI"} \subseteq NamedRegisters /\ "Write" \in Opcodes
  BY DEF NamedRegisters, RegisterNumber, Opcodes
<1> DEFINE far(word) == [header_type |-> 1, opcode |-> "Write",
                         address |-> "FAR", data |-> <<word>>]
           fdri == [header_type |-> 1, opcode |-> "Write", address |-> "FDRI",
                    data |-> <<>>]
<1>2. ASSUME NEW word \in Nat
      PROVE  /\ far(word) \in Closing
             /\ far(word).address = "FAR" /\ far(word).data = <<word>>
  <2>1. <<word>> \in Seq(Nat) /\ Len(<<word>>) = 1
    OBVIOUS
  <2> DEFINE data == <<word>>
             p == [header_type |-> 1, opcode |-> "Write", address |-> "FAR",
                   data |-> data]
  <2> HIDE DEF data
  <2>2. p \in [header_type : {1}, opcode : Opcodes, address : NamedRegisters,
               data : Seq(Nat)]
    BY <1>1, <2>1 DEF data
  <2>3. p.data = data /\ p.address = "FAR"
    OBVIOUS
  <2> HIDE DEF p
  <2>4. Len(p.data) <= 1 /\ p.address # "FDRI"
    BY <2>1, <2>3 DEF data
  <2>5. p \in Closing
    BY <2>2, <2>4, Zenon DEF Closing, ShortPackets
  <2>6. QED
    BY <2>3, <2>5 DEF p, data
<1>3. 0 \in Nat
  OBVIOUS
<1>4. far(0) \in Opening
  <2>1. far(0) \in Closing /\ far(0).address = "FAR" /\ far(0).data = <<0>>
    BY <1>2, <1>3
  <2> HIDE DEF far
  <2>2. QED
    BY <2>1 DEF Opening, Closing
<1>5. fdri \in Opening /\ fdri.address = "FDRI"
  BY <1>1 DEF Opening, ShortPackets
<1> HIDE DEF far, fdri
<1>6. /\ \A word \in Nat : <<far(word)>> \in Seq(Closing)
      /\ <<far(0)>> \in Seq(Opening) /\ <<fdri>> \in Seq(Opening)
      /\ Len(<<fdri>>) = 1 /\ <<fdri>>[1].address = "FDRI"
  BY <1>2, <1>4, <1>5
<1>7. QED
  BY <1>6 DEF Write, far, fdri

\* The last of the second sequence is the last of both.
LEMMA LastOfBoth ==
    ASSUME NEW S, NEW s \in Seq(S), NEW t \in Seq(S), Len(t) >= 1
    PROVE  Len(s \o t) >= 1 /\ (s \o t)[Len(s \o t)] = t[Len(t)]
<1> DEFINE m == Len(s)
           n == Len(t)
<1>1. m \in Nat /\ n \in Nat /\ n >= 1 /\ Len(s \o t) = m + n
  BY ConcatProperties
<1>2. \A i \in 1..m + n : (s \o t)[i] = IF i <= m THEN s[i] ELSE t[i - m]
  BY ConcatProperties
<1> HIDE DEF m, n
<1>3. m + n \in 1..m + n /\ ~(m + n <= m) /\ m + n - m = n
  BY <1>1
<1>4. QED
  BY <1>1, <1>2, <1>3 DEF n

\* The frames are written between packets that may come before them and packets
\* that may come after them.
LEMMA FrameWriteBetween ==
    ASSUME packet_data \in Seq(Nat),
           NEW before \in Seq(Opening), NEW after \in Seq(Closing)
    PROVE  \E opening \in Seq(Opening) :
              /\ Len(opening) >= 1 /\ opening[Len(opening)].address = "FDRI"
              /\ before \o FrameWrite \o after = opening \o <<Burst>> \o after
<1> DEFINE burst == <<Burst>>
           fdri == Write("FDRI", <<>>)
           far == Write("FAR", <<0>>) \o CMD("WCFG") \o NOPs
<1>1. fdri \in Seq(Opening) /\ Len(fdri) = 1 /\ fdri[1].address = "FDRI"
  BY OpeningWrites
<1>2. far \in Seq(Opening)
  <2>1. /\ Write("FAR", <<0>>) \in Seq(Opening) /\ CMD("WCFG") \in Seq(Opening)
        /\ NOPs \in Seq(Opening)
    BY OpeningWrites, PlainWrites, PlainAnywhere
  <2>2. QED
    BY <2>1, Together
<1>3. FrameWrite = (far \o fdri) \o burst
  BY DEF FrameWrite, Burst
<1>4. burst \in Seq({Burst})
  OBVIOUS
<1> DEFINE S == Opening \union Closing \union {Burst}
           opening == before \o (far \o fdri)
<1> HIDE DEF burst, fdri, far
<1>5. far \o fdri \in Seq(Opening) /\ opening \in Seq(Opening)
  <2>1. far \o fdri \in Seq(Opening)
    BY <1>1, <1>2, Together
  <2>2. QED
    BY <2>1, Together
<1>6. Len(opening) >= 1 /\ opening[Len(opening)] = fdri[1]
  <2> DEFINE both == far \o fdri
  <2>1. Len(both) >= 1 /\ both[Len(both)] = fdri[1]
    <3>1. Len(fdri) >= 1 /\ fdri[Len(fdri)] = fdri[1]
      BY <1>1
    <3>2. QED
      BY <1>1, <1>2, <3>1, LastOfBoth
  <2>2. both \in Seq(Opening)
    BY <1>5
  <2> HIDE DEF both
  <2>3. Len(before \o both) >= 1
            /\ (before \o both)[Len(before \o both)] = fdri[1]
    BY <2>1, <2>2, LastOfBoth
  <2>4. QED
    BY <2>3 DEF both
<1>7. before \o FrameWrite = opening \o burst
  <2> DEFINE both == far \o fdri
  <2>1. both \in Seq(S) /\ before \in Seq(S) /\ burst \in Seq(S)
    BY <1>4, <1>5
  <2> HIDE DEF both, S
  <2>2. before \o (both \o burst) = (before \o both) \o burst
    BY SMTT(30), <2>1, ConcatAssociative
  <2>3. QED
    BY <1>3, <2>2 DEF both
<1> HIDE DEF opening
<1>8. QED
  BY <1>1, <1>5, <1>6, <1>7 DEF burst

\* What initializes and what finalizes the configuration.
LEMMA AroundTheFrames ==
    ASSUME IdCode \in Nat
    PROVE  /\ Series7Initialization \o Control(1025, 1281) \in Seq(Opening)
           /\ UltraScaleInitialization \o Control(1, 257) \in Seq(Opening)
           /\ Finalization(1281, 1281) \in Seq(Closing)
           /\ Finalization(257, 257) \in Seq(Closing)
<1>1. Series7Options \in Nat
  BY DEF Series7Options
<1>2. /\ NOPs \in Seq(Opening) /\ NOPs \in Seq(Closing)
      /\ \A name \in {"NOP", "WCFG", "LFRM", "START", "RCRC", "SWITCH",
                      "GRESTORE", "DESYNC"} :
            CMD(name) \in Seq(Opening) /\ CMD(name) \in Seq(Closing)
      /\ \A register \in {"TIMER", "WBSTAR", "UNKNOWN", "COR0", "COR1", "IDCODE",
                          "MASK", "CTL0", "CTL1"}, word \in Nat :
            /\ Write(register, <<word>>) \in Seq(Opening)
            /\ Write(register, <<word>>) \in Seq(Closing)
  BY PlainWrites, PlainAnywhere
<1>3. \A mask, ctl0 \in Nat :
         /\ Control(mask, ctl0) \in Seq(Opening)
         /\ Finalization(mask, ctl0) \in Seq(Closing)
  <2> SUFFICES ASSUME NEW mask \in Nat, NEW ctl0 \in Nat
               PROVE  /\ Control(mask, ctl0) \in Seq(Opening)
                      /\ Finalization(mask, ctl0) \in Seq(Closing)
    OBVIOUS
  <2>1. Control(mask, ctl0) \in Seq(Opening)
    BY <1>2, Together DEF Control
  <2>2. Write("FAR", <<62783488>>) \in Seq(Closing)
    BY OpeningWrites
  <2>3. Finalization(mask, ctl0) \in Seq(Closing)
    BY <1>2, <2>2, Together DEF Finalization
  <2>4. QED
    BY <2>1, <2>3
<1>4. Series7Initialization \in Seq(Opening)
  BY <1>1, <1>2, Together DEF Series7Initialization
<1>5. UltraScaleInitialization \in Seq(Opening)
  BY <1>2, OpeningWrites, Together DEF UltraScaleInitialization
<1>6. /\ Control(1025, 1281) \in Seq(Opening) /\ Control(1, 257) \in Seq(Opening)
      /\ Finalization(1281, 1281) \in Seq(Closing)
      /\ Finalization(257, 257) \in Seq(Closing)
  <2> DEFINE a == 1025
             b == 1281
             c == 257
             d == 1
  <2>1. a \in Nat /\ b \in Nat /\ c \in Nat /\ d \in Nat
    OBVIOUS
  <2> HIDE DEF a, b, c, d
  <2>2. /\ Control(a, b) \in Seq(Opening) /\ Control(d, c) \in Seq(Opening)
        /\ Finalization(b, b) \in Seq(Closing)
        /\ Finalization(c, c) \in Seq(Closing)
    BY <1>3, <2>1, Zenon
  <2>3. QED
    BY <2>2 DEF a, b, c, d
<1>7. /\ Series7Initialization \o Control(1025, 1281) \in Seq(Opening)
      /\ UltraScaleInitialization \o Control(1, 257) \in Seq(Opening)
  <2> HIDE DEF Opening
  <2>1. Series7Initialization \o Control(1025, 1281) \in Seq(Opening)
    BY <1>4, <1>6, Together
  <2>2. UltraScaleInitialization \o Control(1, 257) \in Seq(Opening)
    BY <1>5, <1>6, Together
  <2>3. QED
    BY <2>1, <2>2
<1>8. QED
  BY <1>6, <1>7

\* A package, whatever the part.
LEMMA PackageBetween ==
    ASSUME IdCode \in Nat, packet_data \in Seq(Nat),
           packets = IF part.arch = "Series7"
                     THEN Series7Package ELSE UltraScalePackage
    PROVE  \E opening, closing : IsPackage(opening, closing)
<1>1. ASSUME NEW before \in Seq(Opening), NEW after \in Seq(Closing),
             packets = before \o FrameWrite \o after
      PROVE  \E opening, closing : IsPackage(opening, closing)
  <2>1. PICK opening \in Seq(Opening) :
           /\ Len(opening) >= 1 /\ opening[Len(opening)].address = "FDRI"
           /\ before \o FrameWrite \o after = opening \o <<Burst>> \o after
    BY FrameWriteBetween
  <2>2. IsPackage(opening, after)
    BY <1>1, <2>1 DEF IsPackage
  <2>3. QED
    BY <2>2
<1>2. CASE part.arch = "Series7"
  <2> DEFINE before == Series7Initialization \o Control(1025, 1281)
             after == Finalization(1281, 1281)
  <2>1. before \in Seq(Opening) /\ after \in Seq(Closing)
    BY AroundTheFrames
  <2>2. packets = before \o FrameWrite \o after
    BY <1>2 DEF Series7Package
  <2> HIDE DEF before, after
  <2>3. QED
    BY <1>1, <2>1, <2>2
<1>3. CASE part.arch # "Series7"
  <2> DEFINE before == UltraScaleInitialization \o Control(1, 257)
             after == Finalization(257, 257)
  <2>1. before \in Seq(Opening) /\ after \in Seq(Closing)
    BY AroundTheFrames
  <2>2. packets = before \o FrameWrite \o after
    BY <1>3 DEF UltraScalePackage
  <2> HIDE DEF before, after
  <2>3. QED
    BY <1>1, <2>1, <2>2
<1>4. QED
  BY <1>2, <1>3

-----------------------------------------------------------------------------
(***************************************************************************)
(* The reader.                                                             *)
(***************************************************************************)

\* What is read is the first of the packets of a package, packet k of which has
\* the words.
Carries(k) ==
    /\ k \in Nat
    /\ Len(stream) \in Nat
    /\ \A i \in 1..Len(stream) :
          /\ i < k => /\ stream[i].address = "FAR" => stream[i].data = <<0>>
                      /\ stream[i].address = "FDRI" => stream[i].data = <<>>
          /\ i = k => /\ stream[i].opcode = "Write" /\ stream[i].address = "FDRI"
                      /\ stream[i].data = packet_data
          /\ i > k => stream[i].address # "FDRI"

\* Below a, the frames that were written are those that the walk comes by.
Level(a) == Lower(DOMAIN frames, a) = Before(part, a)

\* While the words are read, the frames of the addresses before the current one
\* have been stored.  If those are the frames that were written, then the
\* offset in the words is where they end.
ReadUpTo(off, a) ==
    /\ a \in WalkedAddresses(part)
    /\ DOMAIN read_back = Before(part, a)
    /\ ii \in Nat
    /\ Level(a) => Ends(Lower(DOMAIN frames, a), off, ii)

\* The words lasted for the walk, or ran out at an address below which the
\* frames are not those of the walk.
ReadToTheEnd ==
    \/ DOMAIN read_back = WalkedAddresses(part)
    \/ \E a \in WalkedAddresses(part) :
          DOMAIN read_back = Before(part, a) /\ ~Level(a)

\* A frame below which none is missing or displaced is read as it was written.
Unharmed ==
    \A a \in DOMAIN read_back \intersect DOMAIN frames :
        Level(a) => read_back[a] = frames[a]

(***************************************************************************)
(* Where the reader is: before packet k, in it or after it.                *)
(***************************************************************************)
ReadInv(k, off) ==
    /\ Carries(k)
    /\ WhollyLaidOut(off)
    /\ packet_data \in Seq(Nat)
    /\ pos \in 0..Len(stream)
    /\ reader_pc \in {"fetch", "burst", "accepted", "rejected"}
    /\ reader_pc = "accepted" => pos = Len(stream)
    /\ reader_pc = "burst" => pos > 0
    /\ read_back = [a \in DOMAIN read_back |-> read_back[a]]
    /\ pos < k => /\ frame_address_register = ZeroAddress
                  /\ current_frame_address = ZeroAddress
                  /\ read_back = <<>>
                  /\ reader_pc = "burst" => stream[pos].data = <<>> /\ ii = 0
    /\ pos = k /\ reader_pc = "burst" => ReadUpTo(off, current_frame_address)
    /\ pos >= k /\ reader_pc # "burst" => ReadToTheEnd
    /\ pos > k => reader_pc # "burst"
    /\ Unharmed

ReaderInv == \E k \in 1..Len(packets) : \E off : ReadInv(k, off)

\* The reader's part is the writer's.
LEMMA SameAddressing ==
    ASSUME NEW p, NEW a
    PROVE  /\ Reader!GetNextFrameAddress(p, a) = GetNextFrameAddress(p, a)
           /\ \A next : Reader!CrossesRow(a, next) = CrossesRow(a, next)
           /\ Reader!ZeroAddress = ZeroAddress
<1>1. Reader!ZeroAddress = ZeroAddress
  BY DEF Reader!ZeroAddress, ZeroAddress, Reader!Address, Address
<1>2. \A next : Reader!CrossesRow(a, next) = CrossesRow(a, next)
  BY DEF Reader!CrossesRow, CrossesRow, Reader!SameRow, SameRow
<1>3. \A b : Reader!IfValid(p, b) = IfValid(p, b)
  BY DEF Reader!IfValid, IfValid, Reader!IsValidFrameAddress, IsValidFrameAddress,
         Reader!ColumnOf, ColumnOf
<1>4. Reader!BlockTypeNext(p, a) = BlockTypeNext(p, a)
  BY <1>3 DEF Reader!BlockTypeNext, BlockTypeNext, Reader!FirstOf, FirstOf,
         Reader!Address, Address, Reader!BLOCK_RAM, BLOCK_RAM,
         Reader!CFG_CLB, CFG_CLB
<1>5. Reader!BottomHalfNext(p, a) = BottomHalfNext(p, a)
  BY <1>3 DEF Reader!BottomHalfNext, BottomHalfNext, Reader!Address, Address
<1>6. Reader!ColumnNext(p, a) = ColumnNext(p, a)
  BY DEF Reader!ColumnNext, ColumnNext, Reader!IsValidFrameAddress,
         IsValidFrameAddress, Reader!ColumnOf, ColumnOf
<1>7. Reader!RowNext(p, a) = RowNext(p, a)
  BY DEF Reader!RowNext, RowNext, Reader!BusNext, BusNext, Reader!FirstOf,
      FirstOf,
         Reader!Address, Address, Reader!IfValid, IfValid, Reader!SameRow,
             SameRow,
         Reader!ColumnNext, ColumnNext, Reader!Following, Following,
         Reader!IsValidFrameAddress, IsValidFrameAddress, Reader!ColumnOf,
             ColumnOf
<1>8. Reader!Series7Next(p, a) = Series7Next(p, a)
  BY <1>4, <1>5, <1>7
     DEF Reader!Series7Next, Series7Next, Reader!FirstOf, FirstOf,
         Reader!GlobalClockRegionNext, GlobalClockRegionNext,
         Reader!Address, Address, Reader!IfValid, IfValid,
         Reader!Following, Following,
         Reader!IsValidFrameAddress, IsValidFrameAddress, Reader!ColumnOf,
             ColumnOf
<1>9. Reader!Spartan6Next(p, a) = Spartan6Next(p, a)
  BY <1>4, <1>7
     DEF Reader!Spartan6Next, Spartan6Next, Reader!FirstOf, FirstOf,
         Reader!Spartan6BottomNext, Spartan6BottomNext,
         Reader!GlobalClockRegionNext, GlobalClockRegionNext,
         Reader!Address, Address, Reader!IfValid, IfValid,
         Reader!Following, Following,
         Reader!IsValidFrameAddress, IsValidFrameAddress, Reader!ColumnOf,
             ColumnOf
<1>10. Reader!UltraScaleNext(p, a) = UltraScaleNext(p, a)
  BY <1>4, <1>7
     DEF Reader!UltraScaleNext, UltraScaleNext, Reader!FirstOf, FirstOf,
         Reader!RowsNext, RowsNext, Reader!NumberedRow, NumberedRow,
         Reader!Address, Address, Reader!IfValid, IfValid,
         Reader!Following, Following,
         Reader!IsValidFrameAddress, IsValidFrameAddress, Reader!ColumnOf,
             ColumnOf
<1>11. QED
  BY <1>1, <1>2, <1>8, <1>9, <1>10
      DEF Reader!GetNextFrameAddress, GetNextFrameAddress

\* The word zero is the address zero.
LEMMA ZeroWord ==
    ASSUME IsPart(part), part.arch # "Spartan6"
    PROVE  Reader!Unpacked(part.arch, 0) = ZeroAddress
<1>1. part.arch \in Architectures
  BY DEF IsPart
<1>2. PICK n \in Nat \ {0} : Reader!MinorCount(part.arch) = n
  BY <1>1 DEF Reader!MinorCount, Architectures
<1>3. 0 \div n = 0 /\ 0 % n = 0
  BY <1>2
<1>4. 0 \div 65536 = 0 /\ 0 \div 32768 = 0 /\ 0 \div 1024 = 0
      /\ 0 % 8 = 0 /\ 0 % 2 = 0 /\ 0 % 32 = 0 /\ 0 % 1024 = 0
  OBVIOUS
<1>5. QED
  BY <1>2, <1>3, <1>4 DEF Reader!Unpacked, Reader!Address, ZeroAddress, Address

\* What the reader leaves alone.
Aside == <<part, stream, frames, packet_data, packets>>

\* What is said of the written frames stays true while they are read.
LEMMA AsideStays ==
    ASSUME UNCHANGED Aside
    PROVE  /\ \A k : Carries(k)' <=> Carries(k)
           /\ \A off : WhollyLaidOut(off)' <=> WhollyLaidOut(off)
           /\ \A a : Level(a)' <=> Level(a)
           /\ \A set, off, p : Ends(set, off, p)' <=> Ends(set, off, p)
<1>1. /\ part' = part /\ stream' = stream /\ frames' = frames
      /\ packet_data' = packet_data
  BY DEF Aside
<1>2. \A a : Level(a)' <=> Level(a)
  BY <1>1 DEF Level, Lower
<1>3. \A k : Carries(k)' <=> Carries(k)
  BY <1>1 DEF Carries
<1>4. \A a : Size(a)' = Size(a)
  BY <1>1 DEF Size, SeparatorAfter
<1>5. \A set, off, p : Ends(set, off, p)' <=> Ends(set, off, p)
  BY <1>4 DEF Ends
<1>6. \A off : WhollyLaidOut(off)' <=> WhollyLaidOut(off)
  BY <1>1, <1>4, <1>5 DEF WhollyLaidOut, LaidOut, Holds, Lower
<1>7. QED
  BY <1>2, <1>3, <1>5, <1>6

\* A packet that is not packet k leaves the frames alone.
LEMMA PassOverKeepsInv ==
    ASSUME NEW k, NEW off, ReadInv(k, off), UNCHANGED Aside,
           reader_pc = "fetch", pos < Len(stream), pos' = pos + 1, pos + 1 # k,
           reader_pc' \in {"fetch", "rejected"},
           pos + 1 < k => frame_address_register' = ZeroAddress,
           UNCHANGED <<current_frame_address, read_back>>
    PROVE  ReadInv(k, off)'
<1>1. /\ Carries(k)' /\ WhollyLaidOut(off)' /\ packet_data' \in Seq(Nat)
      /\ k \in Nat /\ Len(stream) \in Nat /\ pos \in 0..Len(stream)
      /\ part' = part /\ frames' = frames /\ stream' = stream
  BY AsideStays DEF ReadInv, Carries, Aside
<1>2. pos' \in 0..Len(stream')
  BY <1>1
<1>3. read_back' = [a \in DOMAIN read_back' |-> read_back'[a]]
  BY DEF ReadInv
<1>4. pos' < k => /\ frame_address_register' = ZeroAddress
                  /\ current_frame_address' = ZeroAddress
                  /\ read_back' = <<>>
  BY <1>1 DEF ReadInv
<1>5. pos' >= k => ReadToTheEnd'
  <2>1. SUFFICES ASSUME pos' >= k PROVE ReadToTheEnd'
    OBVIOUS
  <2>2. pos >= k
    BY <1>1, <2>1
  <2>3. ReadToTheEnd
    BY <2>2 DEF ReadInv
  <2>4. QED
    BY <1>1, <2>3, AsideStays DEF ReadToTheEnd
<1>6. Unharmed'
  BY <1>1, AsideStays DEF ReadInv, Unharmed
<1>7. pos' # k
  OBVIOUS
<1>8. QED
  BY <1>1, <1>2, <1>3, <1>4, <1>5, <1>6, <1>7 DEF ReadInv

\* Packets for registers, and those that the reader skips.
LEMMA FetchKeepsInv ==
    ASSUME IsPart(part), part.arch # "Spartan6", NEW k, NEW off, ReadInv(k, off),
           UNCHANGED Aside,
           \/ Reader!SkipPacket \/ Reader!WriteMASK \/ Reader!WriteCTL1
           \/ Reader!WriteCMD \/ Reader!WriteIDCODE \/ Reader!WriteFAR
    PROVE  ReadInv(k, off)'
<1>1. /\ reader_pc = "fetch" /\ pos < Len(stream) /\ pos' = pos + 1
      /\ UNCHANGED <<current_frame_address, read_back>>
      /\ reader_pc' \in {"fetch", "rejected"}
  BY DEF Reader!SkipPacket, Reader!WriteMASK, Reader!WriteCTL1, Reader!WriteCMD,
         Reader!WriteIDCODE, Reader!WriteFAR, Reader!Loads, Reader!Fetch,
         Reader!burst_state
<1>2. Reader!Fetched.opcode # "Write" \/ Reader!Fetched.address # "FDRI"
  BY DEF Reader!SkipPacket, Reader!WriteMASK, Reader!WriteCTL1, Reader!WriteCMD,
         Reader!WriteIDCODE, Reader!WriteFAR, Reader!Loads, Reader!Interpreted
<1>3. /\ k \in Nat /\ pos \in Nat /\ pos + 1 \in 1..Len(stream)
      /\ pos + 1 < k => pos < k
  BY <1>1 DEF ReadInv, Carries
<1>4. pos + 1 # k
  BY <1>2, <1>3 DEF ReadInv, Carries, Reader!Fetched
<1>5. pos + 1 < k => frame_address_register' = ZeroAddress
  <2>1. SUFFICES ASSUME pos + 1 < k PROVE frame_address_register' = ZeroAddress
    OBVIOUS
  <2>2. frame_address_register = ZeroAddress
    BY <1>3, <2>1 DEF ReadInv
  <2>3. CASE Reader!WriteFAR
    <3>1. /\ Reader!Fetched.address = "FAR"
          /\ frame_address_register' =
                 Reader!Unpacked(part.arch, Reader!Fetched.data[1])
      BY <2>3 DEF Reader!WriteFAR, Reader!Loads
    <3>2. Reader!Fetched.data = <<0>>
      BY <1>3, <2>1, <3>1 DEF ReadInv, Carries, Reader!Fetched
    <3>3. Reader!Fetched.data[1] = 0
      BY <3>2
    <3>4. QED
      BY <3>1, <3>3, ZeroWord
  <2>4. CASE ~Reader!WriteFAR
    BY <2>2, <2>4
       DEF Reader!SkipPacket, Reader!WriteMASK, Reader!WriteCTL1, Reader!WriteCMD,
           Reader!WriteIDCODE, Reader!far_state
  <2>5. QED
    BY <2>3, <2>4
<1>6. QED
  BY <1>1, <1>4, <1>5, PassOverKeepsInv

\* The reader begins packet k at address zero, where no frame has been stored.
LEMMA BeginFDRIKeepsInv ==
    ASSUME IsPart(part), NEW k, NEW off, ReadInv(k, off), UNCHANGED Aside,
           Reader!BeginFDRI
    PROVE  ReadInv(k, off)'
<1>1. /\ reader_pc = "fetch" /\ pos < Len(stream) /\ pos' = pos + 1
      /\ stream[pos + 1].address = "FDRI"
      /\ reader_pc' = "burst" /\ ii' = 0 /\ read_back' = read_back
      /\ frame_address_register' = frame_address_register
      /\ current_frame_address' \in {current_frame_address,
             frame_address_register}
  BY DEF Reader!BeginFDRI, Reader!Fetch, Reader!Fetched
<1>2. /\ Carries(k)' /\ WhollyLaidOut(off)' /\ packet_data' \in Seq(Nat)
      /\ k \in Nat /\ Len(stream) \in Nat /\ pos \in 0..Len(stream)
      /\ part' = part /\ frames' = frames /\ stream' = stream
  BY AsideStays DEF ReadInv, Carries, Aside
<1>3. pos + 1 \in 1..Len(stream)
  BY <1>1, <1>2
<1>4. pos + 1 <= k
  BY <1>1, <1>2, <1>3 DEF ReadInv, Carries
<1>5. /\ pos < k
      /\ frame_address_register' = ZeroAddress
      /\ current_frame_address' = ZeroAddress
      /\ read_back' = <<>>
  BY <1>1, <1>2, <1>4 DEF ReadInv
<1>6. pos' < k => stream'[pos'].data = <<>>
  BY <1>1, <1>2, <1>3 DEF ReadInv, Carries
<1>7. pos' = k => ReadUpTo(off, current_frame_address)'
  <2>1. ZeroAddress \in WalkedAddresses(part)
    BY WalkedIsClosed
  <2>2. Before(part, ZeroAddress) = {}
    BY NothingBeforeZero
  <2>3. DOMAIN read_back' = {}
    BY <1>5
  <2>4. Level(ZeroAddress) => Ends(Lower(DOMAIN frames, ZeroAddress), off, 0)
    BY <2>2 DEF Level, Ends
  <2>5. Level(ZeroAddress)' => Ends(Lower(DOMAIN frames, ZeroAddress), off, 0)'
    BY <1>2, <2>4, AsideStays
  <2>6. QED
    BY <1>1, <1>2, <1>5, <2>1, <2>2, <2>3, <2>5 DEF ReadUpTo
<1>8. Unharmed'
  <2>1. DOMAIN read_back' = {}
    BY <1>5
  <2>2. QED
    BY <2>1 DEF Unharmed
<1>9. read_back' = [a \in DOMAIN read_back' |-> read_back'[a]]
  BY <1>1 DEF ReadInv
<1>10. pos' \in 0..Len(stream') /\ ~(pos' > k)
  BY <1>1, <1>2, <1>3, <1>4
<1>11. QED
  BY <1>1, <1>2, <1>5, <1>6, <1>7, <1>8, <1>9, <1>10 DEF ReadInv

\* Levels go down.
LEMMA LevelBelow ==
    ASSUME Framed, NEW a \in FrameAddress, Level(a), NEW c \in FrameAddress,
           Packed(c) <= Packed(a)
    PROVE  Level(c)
<1>1. /\ DOMAIN frames \subseteq FrameAddress /\ IsPart(part)
      /\ WalkedAddresses(part) \subseteq FrameAddress
  BY WalkedIsClosed DEF Framed
<1>2. \A b \in FrameAddress : Packed(b) < Packed(c) => Packed(b) < Packed(a)
  BY PackedIsNat
<1>3. ASSUME NEW b PROVE b \in Lower(DOMAIN frames, c) <=> b \in Before(part, c)
  <2>1. b \in Lower(DOMAIN frames, a) <=> b \in Before(part, a)
    BY DEF Level
  <2>2. QED
    BY <1>1, <1>2, <2>1 DEF Lower, Before
<1>4. QED
  BY <1>3 DEF Level

\* Up to a level address, the offset in the words is that of its frame.
LEMMA LevelIsThere ==
    ASSUME Framed, NEW off, WhollyLaidOut(off), NEW a \in DOMAIN frames,
           NEW p, Ends(Lower(DOMAIN frames, a), off, p), packet_data \in Seq(Nat)
    PROVE  /\ p = off[a] /\ p < Len(packet_data)
           /\ Reader!Frame(packet_data, p) = frames[a]
<1>1. /\ Holds(off, a) /\ Ends(Lower(DOMAIN frames, a), off, off[a])
      /\ off[a] \in Nat
  BY DEF WhollyLaidOut, LaidOut
<1>2. p = off[a]
  <2>1. Lower(DOMAIN frames, a) \subseteq FrameAddress
    BY DEF Framed, Lower
  <2>2. QED
    BY <1>1, <2>1, EndsOnce
<1>3. PICK size \in Nat : size = Size(a) /\ WordsPerFrame <= size
  <2>1. WordsPerFrame \in Nat \ {0}
    BY DEF Framed
  <2>2. Size(a) = 3 * WordsPerFrame \/ Size(a) = WordsPerFrame
    BY <2>1, SeparatorIsWords
  <2>3. Size(a) \in Nat /\ WordsPerFrame <= Size(a)
    BY ONLY <2>1, <2>2
  <2>4. QED
    BY ONLY <2>3
<1>4. PICK data \in Seq(Nat) : data = packet_data
  OBVIOUS
<1>5. /\ WordsPerFrame \in Nat \ {0}
      /\ p \in Nat /\ p + size <= Len(data) /\ Len(data) \in Nat
      /\ \A i \in 1..WordsPerFrame : data[p + i] = frames[a][i]
      /\ frames[a] \in Seq(Nat) /\ Len(frames[a]) = WordsPerFrame
  BY <1>1, <1>2, <1>3, <1>4 DEF Holds, Framed
<1>6. p + WordsPerFrame <= Len(data) /\ p < Len(data)
  BY <1>3, <1>5
<1>7. Reader!Frame(data, p) = SubSeq(data, p + 1, p + WordsPerFrame)
  BY <1>6 DEF Reader!Frame
<1> DEFINE read == SubSeq(data, p + 1, p + WordsPerFrame)
<1>8. /\ read \in Seq(Nat) /\ Len(read) = WordsPerFrame
      /\ \A i \in 1..WordsPerFrame : read[i] = data[p + i]
  <2> DEFINE m == p + 1  n == p + WordsPerFrame
  <2>1. /\ m \in Int /\ n \in Int /\ m <= n /\ n - m + 1 = WordsPerFrame
        /\ \A i \in 1..WordsPerFrame : m + i - 1 = p + i
    <3>1. p \in Nat /\ WordsPerFrame \in Nat \ {0}
      BY <1>5
    <3>2. \A x, w : x \in Nat /\ w \in Nat \ {0} =>
             /\ x + 1 \in Int /\ x + w \in Int /\ x + 1 <= x + w
             /\ (x + w) - (x + 1) + 1 = w
             /\ \A i \in 1..w : x + 1 + i - 1 = x + i
      OBVIOUS
    <3>3. QED
      BY <3>1, <3>2
  <2>2. ASSUME NEW i \in m..n PROVE data[i] \in Nat
    <3>1. i \in 1..Len(data)
      BY <1>5, <1>6
    <3>2. QED
      BY <3>1, ElementOfSeq
  <2> HIDE DEF m, n
  <2>3. /\ SubSeq(data, m, n) \in Seq(Nat)
        /\ Len(SubSeq(data, m, n)) = n - m + 1
        /\ \A i \in 1..n - m + 1 : SubSeq(data, m, n)[i] = data[m + i - 1]
    BY <2>1, <2>2, SubSeqProperties
  <2>4. QED
    BY <2>1, <2>3 DEF m, n
<1> HIDE DEF read
<1>9. read = frames[a]
  BY ONLY SMTT(30), <1>5, <1>8, SeqEqual
<1>10. QED
  BY <1>2, <1>4, <1>6, <1>7, <1>9 DEF read

\* The frame that is stored is the one that was written, if its address is level.
LEMMA StoreKeepsUnharmed ==
    ASSUME Framed, NEW off, WhollyLaidOut(off), packet_data \in Seq(Nat),
           NEW c, ReadUpTo(off, c), Unharmed, UNCHANGED Aside,
           read_back' = Reader!Assign(read_back, c, Reader!Frame(packet_data, ii))
    PROVE  Unharmed'
<1>1. SUFFICES ASSUME NEW a \in DOMAIN read_back' \intersect DOMAIN frames,
                   Level(a)
               PROVE  read_back'[a] = frames[a]
  BY AsideStays DEF Unharmed, Aside
<1>2. CASE a = c
  <2>1. Reader!Frame(packet_data, ii) = frames[a]
    BY <1>1, <1>2, LevelIsThere DEF ReadUpTo
  <2>2. QED
    BY <1>2, <2>1 DEF Reader!Assign
<1>3. CASE a # c
  <2>1. a \in DOMAIN read_back /\ read_back'[a] = read_back[a]
    BY <1>3 DEF Reader!Assign
  <2>2. QED
    BY <1>1, <2>1 DEF Unharmed
<1>4. QED
  BY <1>2, <1>3

\* The offset goes from the end of the frames before a to the end of a's.
LEMMA OffsetGoesOn ==
    ASSUME Framed, NEW off, WhollyLaidOut(off), NEW a, ReadUpTo(off, a),
           NEW b \in WalkedAddresses(part), Packed(a) < Packed(b),
           Before(part, b) = Before(part, a) \union {a}, Level(b)
    PROVE  Ends(Lower(DOMAIN frames, b), off, ii + Size(a))
<1>1. /\ a \in WalkedAddresses(part) /\ a \in FrameAddress /\ b \in FrameAddress
      /\ DOMAIN frames \subseteq FrameAddress
      /\ WalkedAddresses(part) \subseteq FrameAddress
  BY WalkedIsClosed DEF ReadUpTo, Framed
<1>2. Packed(a) <= Packed(b)
  BY <1>1, PackedIsNat
<1>3. Level(a)
  BY <1>1, <1>2, LevelBelow
<1>4. a \in DOMAIN frames
  BY DEF Level, Lower
<1>5. Ends(Lower(DOMAIN frames, a), off, ii)
  BY <1>3 DEF ReadUpTo
<1>6. ii = off[a]
  <2>1. Ends(Lower(DOMAIN frames, a), off, off[a])
    BY <1>4 DEF WhollyLaidOut, LaidOut
  <2>2. Lower(DOMAIN frames, a) \subseteq FrameAddress
    BY <1>1 DEF Lower
  <2>3. QED
    BY <1>5, <2>1, <2>2, EndsOnce
<1>7. Lower(DOMAIN frames, b) = Lower(DOMAIN frames, a) \union {a}
  BY <1>3 DEF Level
<1>8. /\ \A c \in Lower(DOMAIN frames, a) : Packed(c) < Packed(a)
      /\ \A c \in Lower(DOMAIN frames, a) : Packed(c) \in Nat
      /\ Packed(a) \in Nat
  BY <1>1, PackedIsNat DEF Lower
<1>9. QED
  BY <1>5, <1>6, <1>7, <1>8, EndsGrows

\* Within the words the reader stores the frame of the current address, and goes
\* on to the next address of the walk.
LEMMA StoreFrameKeepsInv ==
    ASSUME Framed, NEW k, NEW off, ReadInv(k, off), UNCHANGED Aside,
           Reader!StoreFrame
    PROVE  ReadInv(k, off)'
<1> PICK c : c = current_frame_address
  OBVIOUS
<1>1. /\ reader_pc = "burst" /\ ii < Len(stream[pos].data)
      /\ pos' = pos
      /\ read_back' =
             Reader!Assign(read_back, c, Reader!Frame(stream[pos].data, ii))
      /\ \/ /\ GetNextFrameAddress(part, c) = {}
            /\ reader_pc' = "fetch"
         \/ /\ current_frame_address' \in GetNextFrameAddress(part, c)
            /\ ii' = ii + IF CrossesRow(c, GetNextFrameAddress(part, c))
                          THEN 3 * WordsPerFrame ELSE WordsPerFrame
            /\ reader_pc' = "burst"
  BY SameAddressing DEF Reader!StoreFrame
<1>2. /\ Carries(k)' /\ WhollyLaidOut(off)' /\ packet_data' \in Seq(Nat)
      /\ k \in Nat /\ Len(stream) \in Nat /\ pos \in 0..Len(stream)
      /\ part' = part /\ frames' = frames /\ stream' = stream
      /\ WhollyLaidOut(off) /\ packet_data \in Seq(Nat)
  BY AsideStays DEF ReadInv, Carries, Aside
<1>3. pos = k
  <2>1. ~(pos > k)
    BY <1>1, <1>2 DEF ReadInv
  <2>2. ASSUME pos < k PROVE FALSE
    <3>1. ii = 0 /\ stream[pos].data = <<>>
      BY <1>1, <2>2 DEF ReadInv
    <3>2. QED
      BY <1>1, <3>1
  <2>3. QED
    BY <1>2, <2>1, <2>2
<1>4. ReadUpTo(off, c) /\ Unharmed
  BY <1>1, <1>3 DEF ReadInv
<1>5. read_back' = Reader!Assign(read_back, c, Reader!Frame(packet_data, ii))
  <2>1. CASE k \in 1..Len(stream)
    BY <1>1, <1>3, <2>1 DEF ReadInv, Carries
  <2>2. CASE k = 0
    <3>1. reader_pc # "burst" \/ k >= 1
      BY <1>1, <1>2, <1>3 DEF ReadInv
    <3>2. QED
      BY <1>1, <2>2, <3>1
  <2>3. QED
    BY <1>2, <1>3, <2>1, <2>2
<1>6. Unharmed'
  BY <1>2, <1>4, <1>5, StoreKeepsUnharmed
<1>7. /\ DOMAIN read_back' = Before(part, c) \union {c}
      /\ read_back' = [a \in DOMAIN read_back' |-> read_back'[a]]
  BY <1>4, <1>5 DEF ReadUpTo, Reader!Assign
<1>8. IsPart(part) /\ c \in WalkedAddresses(part)
  BY <1>4 DEF Framed, ReadUpTo
<1>9. CASE GetNextFrameAddress(part, c) = {} /\ reader_pc' = "fetch"
  <2>1. DOMAIN read_back' = WalkedAddresses(part)
    BY <1>7, <1>8, <1>9, WalkStep
  <2>2. ReadToTheEnd'
    BY <1>2, <2>1 DEF ReadToTheEnd
  <2>3. QED
    BY <1>1, <1>2, <1>3, <1>6, <1>7, <1>9, <2>2 DEF ReadInv
<1>10. CASE /\ current_frame_address' \in GetNextFrameAddress(part, c)
            /\ ii' = ii + IF CrossesRow(c, GetNextFrameAddress(part, c))
                          THEN 3 * WordsPerFrame ELSE WordsPerFrame
            /\ reader_pc' = "burst"
  <2> PICK n : n = current_frame_address'
    OBVIOUS
  <2>1. /\ n \in WalkedAddresses(part) /\ Packed(c) < Packed(n)
        /\ Before(part, n) = Before(part, c) \union {c}
    BY <1>8, <1>10, WalkStep
  <2>2. ii' = ii + Size(c) /\ ii' \in Nat
    BY <1>4, <1>10, SeparatorIsWords DEF Framed, ReadUpTo
  <2>3. Level(n) => Ends(Lower(DOMAIN frames, n), off, ii')
    BY <1>2, <1>4, <2>1, <2>2, OffsetGoesOn
  <2>4. Level(n)' => Ends(Lower(DOMAIN frames, n), off, ii)'
    BY <1>2, <2>3, AsideStays
  <2>5. ReadUpTo(off, current_frame_address)'
    BY <1>2, <1>7, <2>1, <2>2, <2>4 DEF ReadUpTo
  <2>6. QED
    BY <1>1, <1>2, <1>3, <1>6, <1>7, <1>10, <2>5 DEF ReadInv
<1>11. QED
  BY <1>1, <1>9, <1>10

\* When the words run out, the frames before the current address are not those
\* that were written: two zero frames would follow them.
LEMMA RunsOutUnlevel ==
    ASSUME Framed, NEW off, WhollyLaidOut(off), packet_data \in Seq(Nat),
           NEW c, ReadUpTo(off, c), ii >= Len(packet_data)
    PROVE  ~Level(c)
<1>1. SUFFICES ASSUME Level(c) PROVE FALSE
  OBVIOUS
<1>2. Ends(Lower(DOMAIN frames, c), off, ii) /\ ii \in Nat
  BY <1>1 DEF ReadUpTo
<1>3. PICK length \in Nat : length = Len(packet_data)
  OBVIOUS
<1>4. WordsPerFrame \in Nat \ {0} /\ 2 * WordsPerFrame <= length
  BY <1>3 DEF Framed, WhollyLaidOut
<1>5. CASE Lower(DOMAIN frames, c) = {}
  BY <1>2, <1>3, <1>4, <1>5 DEF Ends
<1>6. CASE Lower(DOMAIN frames, c) # {}
  <2>1. /\ Lower(DOMAIN frames, c) \subseteq FrameAddress
        /\ Lower(DOMAIN frames, c) \subseteq DOMAIN frames
    BY DEF Lower, Framed
  <2>2. PICK a \in Lower(DOMAIN frames, c) :
           \A b \in Lower(DOMAIN frames, c) : ~Precedes(a, b)
    BY <1>6, <2>1, LastAddress
  <2>3. \A b \in Lower(DOMAIN frames, c) : Packed(b) <= Packed(a)
    BY <2>1, <2>2, PackedPrecedes, PackedIsNat
  <2>4. ii = off[a] + Size(a)
    BY <1>2, <2>3 DEF Ends
  <2>5. PICK end : end = off[a] + Size(a)
    OBVIOUS
  <2>6. end + 2 * WordsPerFrame <= length
    BY <1>3, <2>1, <2>5 DEF WhollyLaidOut
  <2>7. end >= length /\ end \in Nat
    BY <1>2, <1>3, <2>4, <2>5
  <2>8. QED
    BY <1>4, <2>6, <2>7
<1>7. QED
  BY <1>5, <1>6

\* The words run out, in packet k or in a packet before it that has none.
LEMMA EndFDRIKeepsInv ==
    ASSUME Framed, NEW k, NEW off, ReadInv(k, off), UNCHANGED Aside,
           Reader!EndFDRI
    PROVE  ReadInv(k, off)'
<1>1. /\ reader_pc = "burst" /\ ii >= Len(stream[pos].data)
      /\ reader_pc' = "fetch" /\ pos' = pos /\ read_back' = read_back
      /\ frame_address_register' = frame_address_register
      /\ current_frame_address' = current_frame_address
  BY DEF Reader!EndFDRI, Reader!far_state, Reader!burst_state
<1>2. /\ Carries(k)' /\ WhollyLaidOut(off)' /\ packet_data' \in Seq(Nat)
      /\ k \in Nat /\ Len(stream) \in Nat /\ pos \in 0..Len(stream)
      /\ part' = part /\ frames' = frames /\ stream' = stream
      /\ WhollyLaidOut(off) /\ packet_data \in Seq(Nat)
  BY AsideStays DEF ReadInv, Carries, Aside
<1>3. Unharmed'
  BY <1>1, <1>2, AsideStays DEF ReadInv, Unharmed
<1>4. pos >= k => ReadToTheEnd'
  <2>1. SUFFICES ASSUME pos >= k PROVE ReadToTheEnd'
    OBVIOUS
  <2>2. pos = k
    BY <1>1, <1>2, <2>1 DEF ReadInv
  <2> PICK c : c = current_frame_address
    OBVIOUS
  <2>3. ReadUpTo(off, c)
    BY <1>1, <2>2 DEF ReadInv
  <2>4. k \in 1..Len(stream)
    BY <1>1, <1>2, <2>2 DEF ReadInv
  <2>5. stream[pos].data = packet_data
    BY <2>2, <2>4 DEF ReadInv, Carries
  <2>6. ~Level(c)
    BY <1>1, <1>2, <2>3, <2>5, RunsOutUnlevel
  <2>7. ReadToTheEnd
    BY <2>3, <2>6 DEF ReadUpTo, ReadToTheEnd
  <2>8. QED
    BY <1>1, <1>2, <2>7, AsideStays DEF ReadToTheEnd
<1>5. read_back' = [a \in DOMAIN read_back' |-> read_back'[a]]
  BY <1>1 DEF ReadInv
<1>6. QED
  BY <1>1, <1>2, <1>3, <1>4, <1>5 DEF ReadInv

\* The reader is done when it has taken all packets.
LEMMA FinishKeepsInv ==
    ASSUME NEW k, NEW off, ReadInv(k, off), UNCHANGED Aside,
           \/ Reader!Finish
           \/ UNCHANGED <<pos, frame_address_register, current_frame_address, ii,
                          read_back, reader_pc>>
    PROVE  ReadInv(k, off)'
<1>1. /\ UNCHANGED <<pos, frame_address_register, current_frame_address, ii,
                     read_back>>
      /\ \/ reader_pc' = reader_pc
         \/ reader_pc = "fetch" /\ reader_pc' = "accepted" /\ pos = Len(stream)
  BY DEF Reader!Finish, Reader!far_state, Reader!burst_state
<1>2. /\ Carries(k)' /\ WhollyLaidOut(off)' /\ packet_data' \in Seq(Nat)
      /\ part' = part /\ frames' = frames /\ stream' = stream
      /\ pos \in 0..Len(stream)
  BY AsideStays DEF ReadInv, Aside
<1>3. Unharmed'
  BY <1>1, <1>2, AsideStays DEF ReadInv, Unharmed
<1>4. \A a : ReadUpTo(off, a)' <=> ReadUpTo(off, a)
  BY <1>1, <1>2, AsideStays DEF ReadUpTo
<1>5. ReadToTheEnd' <=> ReadToTheEnd
  BY <1>1, <1>2, AsideStays DEF ReadToTheEnd
<1>6. ReadUpTo(off, current_frame_address)' <=>
          ReadUpTo(off, current_frame_address)
  BY <1>1, <1>2, AsideStays DEF ReadUpTo
<1>7. QED
  BY <1>1, <1>2, <1>3, <1>5, <1>6 DEF ReadInv

\* Every step of the reader keeps ReadInv.
LEMMA NextReadInv ==
    ASSUME Framed, part.arch # "Spartan6", NEW k, NEW off, ReadInv(k, off),
           UNCHANGED Aside, Reader!Next
    PROVE  ReadInv(k, off)'
<1>1. IsPart(part)
  BY DEF Framed
<1>2. CASE \/ Reader!SkipPacket \/ Reader!WriteMASK \/ Reader!WriteCTL1
           \/ Reader!WriteCMD \/ Reader!WriteIDCODE \/ Reader!WriteFAR
  BY <1>1, <1>2, FetchKeepsInv
<1>3. CASE Reader!BeginFDRI
  BY <1>1, <1>3, BeginFDRIKeepsInv
<1>4. CASE Reader!StoreFrame
  BY <1>4, StoreFrameKeepsInv
<1>5. CASE Reader!EndFDRI
  BY <1>5, EndFDRIKeepsInv
<1>6. CASE Reader!Finish
  BY <1>6, FinishKeepsInv
<1>7. QED
  BY <1>2, <1>3, <1>4, <1>5, <1>6 DEF Reader!Next, Reader!InitWithPackets

\* Every step of the reader keeps ReaderInv.
LEMMA NextReaderInv ==
    Framed /\ part.arch # "Spartan6" /\ ReaderInv /\ Reader!Next
        /\ UNCHANGED Aside
        => ReaderInv'
<1>1. SUFFICES ASSUME Framed, part.arch # "Spartan6", ReaderInv, Reader!Next,
                      UNCHANGED Aside
               PROVE  ReaderInv'
  OBVIOUS
<1>2. PICK k, off : k \in 1..Len(packets) /\ ReadInv(k, off)
  BY <1>1 DEF ReaderInv
<1>3. ReadInv(k, off)'
  BY <1>1, <1>2, NextReadInv
<1>4. packets' = packets
  BY <1>1 DEF Aside
<1>5. k \in 1..Len(packets') /\ ReadInv(k, off)'
  BY <1>2, <1>3, <1>4
<1>6. QED
  BY <1>5 DEF ReaderInv

\* A step of the reader stores no frame, or one of the next address of the walk:
\* the frame that was written, if no frame that was written is displaced below.
LEMMA StepStores ==
    ASSUME Framed, ReaderInv, UNCHANGED Aside, Reader!Next,
           WalkedAddresses(part) \subseteq DOMAIN frames, read_back' # read_back
    PROVE  \E c \in WalkedAddresses(part) \ DOMAIN read_back :
              /\ DOMAIN read_back \subseteq WalkedAddresses(part)
              /\ DOMAIN read_back' = DOMAIN read_back \union {c}
              /\ \A a \in DOMAIN read_back : read_back'[a] = read_back[a]
              /\ \A b \in WalkedAddresses(part) \ DOMAIN read_back :
                    Packed(c) <= Packed(b)
              /\ (\A u \in DOMAIN frames \ WalkedAddresses(part) :
                     Packed(c) < Packed(u)) =>
                     \A a \in DOMAIN read_back' : read_back'[a] = frames[a]
<1>1. Reader!StoreFrame
  BY DEF Reader!Next, Reader!InitWithPackets, Reader!SkipPacket, Reader!WriteMASK,
         Reader!WriteCTL1, Reader!WriteCMD, Reader!WriteIDCODE, Reader!WriteFAR,
         Reader!BeginFDRI, Reader!EndFDRI, Reader!Finish, Reader!Loads,
         Reader!Fetch, Reader!burst_state
<1>2. PICK k, off : k \in 1..Len(packets) /\ ReadInv(k, off)
  BY DEF ReaderInv
<1>3. PICK c : c = current_frame_address
  OBVIOUS
<1>4. /\ reader_pc = "burst" /\ ii < Len(stream[pos].data)
      /\ read_back' =
             Reader!Assign(read_back, c, Reader!Frame(stream[pos].data, ii))
  BY <1>1, <1>3 DEF Reader!StoreFrame
<1>5. pos = k
  <2>1. ~(pos > k) /\ pos \in Nat /\ k \in Nat
    BY <1>2, <1>4 DEF ReadInv, Carries
  <2>2. ASSUME pos < k PROVE FALSE
    <3>1. ii = 0 /\ stream[pos].data = <<>>
      BY <1>2, <1>4, <2>2 DEF ReadInv
    <3>2. QED
      BY <1>4, <3>1
  <2>3. QED
    BY <2>1, <2>2
<1>6. ReadUpTo(off, c)
  BY <1>2, <1>3, <1>4, <1>5 DEF ReadInv
<1>7. /\ c \in WalkedAddresses(part) /\ DOMAIN read_back = Before(part, c)
      /\ WalkedAddresses(part) \subseteq FrameAddress
      /\ DOMAIN frames \subseteq FrameAddress
  BY <1>6, WalkedIsClosed DEF ReadUpTo, Framed
<1>8. \A b \in FrameAddress : Packed(b) \in Nat
  BY PackedIsNat
<1>9. c \notin DOMAIN read_back
  <2>1. ~(Packed(c) < Packed(c))
    BY <1>7, <1>8
  <2>2. QED
    BY <1>7, <2>1 DEF Before
<1>10. /\ DOMAIN read_back' = DOMAIN read_back \union {c}
       /\ \A a \in DOMAIN read_back : read_back'[a] = read_back[a]
  BY <1>4, <1>9 DEF Reader!Assign
<1>11. \A b \in WalkedAddresses(part) \ DOMAIN read_back : Packed(c) <= Packed(b)
  <2>1. SUFFICES ASSUME NEW b \in WalkedAddresses(part), ~(Packed(c) <= Packed(b))
                 PROVE  b \in DOMAIN read_back
    OBVIOUS
  <2>2. Packed(b) < Packed(c)
    BY <1>7, <1>8, <2>1
  <2>3. QED
    BY <1>7, <2>2 DEF Before
<1>12. ASSUME \A u \in DOMAIN frames \ WalkedAddresses(part) :
                  Packed(c) < Packed(u)
       PROVE  \A a \in DOMAIN read_back' : read_back'[a] = frames[a]
  <2>1. Level(c)
    <3>1. SUFFICES ASSUME NEW b \in DOMAIN frames, Packed(b) < Packed(c)
                   PROVE  b \in WalkedAddresses(part)
      BY DEF Level, Lower, Before
    <3>2. ~(Packed(c) < Packed(b))
      BY <1>7, <1>8, <3>1
    <3>3. QED
      BY <1>12, <3>2
  <2>2. ReadInv(k, off)'
    BY <1>1, <1>2, StoreFrameKeepsInv
  <2>3. Unharmed' /\ frames' = frames
    BY <2>2 DEF ReadInv, Aside
  <2>4. ASSUME NEW a \in DOMAIN read_back' PROVE read_back'[a] = frames[a]
    <3>1. a \in WalkedAddresses(part) /\ a \in DOMAIN frames
      BY <1>7, <1>10 DEF Before
    <3>2. Packed(a) <= Packed(c)
      BY <1>7, <1>8, <1>10 DEF Before
    <3>3. Level(a)
      BY <1>7, <2>1, <3>1, <3>2, LevelBelow
    <3>4. Level(a)'
      BY <3>3, AsideStays
    <3>5. QED
      BY <2>3, <3>1, <3>4 DEF Unharmed
  <2>5. QED
    BY <2>4
<1>13. QED
  BY <1>7, <1>9, <1>10, <1>11, <1>12 DEF Before

\* Nothing happens to the reader.
LEMMA ReaderStutters ==
    ASSUME ReaderInv, UNCHANGED Aside,
           UNCHANGED <<pos, frame_address_register, current_frame_address, ii,
                       read_back, reader_pc>>
    PROVE  ReaderInv'
<1>1. PICK k, off : k \in 1..Len(packets) /\ ReadInv(k, off)
  BY DEF ReaderInv
<1>2. ReadInv(k, off)'
  BY <1>1, FinishKeepsInv
<1>3. packets' = packets
  BY DEF Aside
<1>4. k \in 1..Len(packets') /\ ReadInv(k, off)'
  BY <1>1, <1>2, <1>3
<1>5. QED
  BY <1>4 DEF ReaderInv

\* What is in the packet of a package after another.
LEMMA PackageCarries ==
    ASSUME NEW opening, NEW closing, IsPackage(opening, closing),
           Len(stream) \in Nat, Len(stream) <= Len(packets),
           \A i \in 1..Len(stream) : /\ stream[i].opcode = packets[i].opcode
                                     /\ stream[i].address = packets[i].address
                                     /\ stream[i].data = packets[i].data
    PROVE  /\ Carries(Len(opening) + 1)
           /\ Len(packets) \in Nat /\ Len(opening) + 1 \in 1..Len(packets)
<1> DEFINE m == Len(opening)  n == Len(closing)  first == opening \o <<Burst>>
<1>1. /\ opening \in Seq(Opening) /\ closing \in Seq(Closing)
      /\ packets = first \o closing
  BY DEF IsPackage
<1>2. <<Burst>> \in Seq({Burst}) /\ Len(<<Burst>>) = 1 /\ <<Burst>>[1] = Burst
  OBVIOUS
<1> DEFINE burst == <<Burst>>
           S == Opening \union Closing \union {Burst}
<1> HIDE DEF burst
<1>3. /\ first \in Seq(S) /\ Len(first) = m + 1
      /\ \A i \in 1..m + 1 :
             first[i] = IF i <= m THEN opening[i] ELSE burst[i - m]
  <2>1. opening \in Seq(S) /\ burst \in Seq(S) /\ Len(burst) = 1
    BY <1>1, <1>2 DEF burst
  <2> HIDE DEF S
  <2>2. /\ opening \o burst \in Seq(S)
        /\ Len(opening \o burst) = Len(opening) + Len(burst)
        /\ \A i \in 1..Len(opening) + Len(burst) :
              (opening \o burst)[i] = IF i <= Len(opening) THEN opening[i]
                                      ELSE burst[i - Len(opening)]
    BY <2>1, ConcatProperties
  <2>3. first = opening \o burst
    BY DEF burst
  <2>4. QED
    BY <2>1, <2>2, <2>3
<1>4. m \in Nat /\ n \in Nat
  BY <1>1
<1> HIDE DEF first
<1>5. /\ Len(packets) = m + 1 + n
      /\ \A i \in 1..m + 1 + n :
            packets[i] = IF i <= m + 1 THEN first[i] ELSE closing[i - (m + 1)]
  <2>1. first \in Seq(S) /\ closing \in Seq(S)
    BY <1>1, <1>3
  <2> HIDE DEF S
  <2>2. /\ Len(first \o closing) = Len(first) + Len(closing)
        /\ \A i \in 1..Len(first) + Len(closing) :
              (first \o closing)[i] = IF i <= Len(first) THEN first[i]
                                      ELSE closing[i - Len(first)]
    BY <2>1, ConcatProperties
  <2>3. QED
    BY <1>1, <1>3, <2>2
<1>6. /\ \A i \in 1..m : opening[i] \in Opening
      /\ \A i \in 1..n : closing[i] \in Closing
  BY <1>1, ElementOfSeq
<1> HIDE DEF m, n
<1>7. \A i \in 1..Len(stream) : i \in 1..m + 1 + n
  BY <1>4, <1>5
<1>8. ASSUME NEW i \in 1..Len(stream), i < m + 1
      PROVE  /\ stream[i].address = "FAR" => stream[i].data = <<0>>
             /\ stream[i].address = "FDRI" => stream[i].data = <<>>
  <2>1. i \in 1..m /\ i \in 1..m + 1 /\ i <= m
    BY <1>4, <1>8
  <2>2. packets[i] \in Opening
    BY <1>3, <1>5, <1>6, <1>7, <2>1
  <2>3. QED
    BY <2>2 DEF Opening
<1>9. ASSUME NEW i \in 1..Len(stream), i = m + 1
      PROVE  /\ stream[i].opcode = "Write" /\ stream[i].address = "FDRI"
             /\ stream[i].data = packet_data
  <2>1. i \in 1..m + 1 /\ ~(i <= m) /\ i - m = 1 /\ i <= m + 1
    BY <1>4, <1>9
  <2>2. packets[i] = Burst
    BY <1>2, <1>3, <1>5, <1>7, <2>1 DEF burst
  <2>3. QED
    BY <2>2 DEF Burst
<1>10. ASSUME NEW i \in 1..Len(stream), i > m + 1
       PROVE  stream[i].address # "FDRI"
  <2>1. i - (m + 1) \in 1..n /\ ~(i <= m + 1)
    BY <1>4, <1>7, <1>10
  <2>2. packets[i] \in Closing
    BY <1>5, <1>6, <1>7, <2>1
  <2>3. QED
    BY <2>2 DEF Closing
<1>11. m + 1 \in Nat /\ m + 1 \in 1..m + 1 + n /\ m + 1 + n \in Nat
  BY <1>4
<1>12. Carries(m + 1)
  BY <1>8, <1>9, <1>10, <1>11 DEF Carries
<1>13. QED
  BY <1>5, <1>11, <1>12 DEF m

\* A package is a sequence of packets.
LEMMA PackagesAreFinite ==
    ASSUME IdCode \in Nat, WriterInv, writer_pc = "packaged"
    PROVE  Len(packets) \in Nat
<1>1. /\ packet_data \in Seq(Nat)
      /\ packets = IF part.arch = "Series7"
                   THEN Series7Package ELSE UltraScalePackage
  BY DEF WriterInv
<1>2. PICK opening, closing : IsPackage(opening, closing)
  BY <1>1, PackageBetween
<1> DEFINE S == Opening \union Closing \union {Burst}
           burst == <<Burst>>
<1>3. opening \in Seq(S) /\ closing \in Seq(S) /\ burst \in Seq(S)
  BY <1>2 DEF IsPackage
<1>4. packets = (opening \o burst) \o closing
  BY <1>2 DEF IsPackage
<1> HIDE DEF S, burst
<1>5. packets \in Seq(S)
  BY <1>3, <1>4, ConcatProperties
<1>6. QED
  BY <1>5, LenProperties

\* The packets of a package.
PackagePacket ==
    [header_type : {1, 2}, opcode : Opcodes, address : NamedRegisters,
     data : Seq(Nat)]

\* A package has packets of a word at most and one with all the words, which
\* is for the register of the packet before it.
LEMMA PackageShape ==
    ASSUME IdCode \in Nat, WriterInv, writer_pc = "packaged"
    PROVE  /\ packets \in Seq(PackagePacket)
           /\ \A i \in 1..Len(packets) :
                 /\ packets[i].header_type = 1 => Len(packets[i].data) <= 1
                 /\ packets[i].header_type = 2 =>
                        /\ packets[i].data = packet_data
                        /\ i > 1 /\ packets[i - 1].address = packets[i].address
<1>1. /\ packet_data \in Seq(Nat)
      /\ packets = IF part.arch = "Series7"
                   THEN Series7Package ELSE UltraScalePackage
  BY DEF WriterInv
<1>2. PICK opening, closing : IsPackage(opening, closing)
  BY <1>1, PackageBetween
<1> DEFINE m == Len(opening)  n == Len(closing)  first == opening \o <<Burst>>
           burst == <<Burst>>
<1>3. /\ opening \in Seq(Opening) /\ closing \in Seq(Closing)
      /\ packets = first \o closing
      /\ m >= 1 /\ opening[m].address = "FDRI"
  BY <1>2 DEF IsPackage
<1>4. Burst \in PackagePacket /\ Burst.header_type = 2 /\ Burst.address = "FDRI"
      /\ Burst.data = packet_data
  BY <1>1 DEF Burst, PackagePacket, NamedRegisters, RegisterNumber, Opcodes
<1>5. /\ Opening \subseteq PackagePacket /\ Closing \subseteq PackagePacket
      /\ \A p \in Opening \union Closing : p.header_type = 1 /\ Len(p.data) <= 1
  BY DEF Opening, Closing, ShortPackets, PackagePacket
<1>6. /\ opening \in Seq(PackagePacket) /\ closing \in Seq(PackagePacket)
      /\ burst \in Seq(PackagePacket) /\ Len(burst) = 1 /\ burst[1] = Burst
      /\ m \in Nat /\ n \in Nat
      /\ \A i \in 1..m : opening[i] \in Opening
      /\ \A i \in 1..n : closing[i] \in Closing
  <2>1. opening \in Seq(PackagePacket) /\ closing \in Seq(PackagePacket)
    BY <1>3, <1>5
  <2>2. burst \in Seq(PackagePacket) /\ Len(burst) = 1 /\ burst[1] = Burst
    BY <1>4
  <2>3. /\ \A i \in 1..m : opening[i] \in Opening
        /\ \A i \in 1..n : closing[i] \in Closing
    BY <1>3, ElementOfSeq
  <2>4. QED
    BY <2>1, <2>2, <2>3
<1> HIDE DEF burst
<1>7. /\ first \in Seq(PackagePacket) /\ Len(first) = m + 1
      /\ \A i \in 1..m + 1 :
             first[i] = IF i <= m THEN opening[i] ELSE burst[i - m]
  <2>1. /\ opening \o burst \in Seq(PackagePacket)
        /\ Len(opening \o burst) = Len(opening) + Len(burst)
        /\ \A i \in 1..Len(opening) + Len(burst) :
              (opening \o burst)[i] = IF i <= Len(opening) THEN opening[i]
                                      ELSE burst[i - Len(opening)]
    BY <1>6, ConcatProperties
  <2>2. first = opening \o burst
    BY DEF burst
  <2>3. QED
    BY <1>6, <2>1, <2>2
<1> HIDE DEF first
<1>8. /\ packets \in Seq(PackagePacket) /\ Len(packets) = m + 1 + n
      /\ \A i \in 1..m + 1 + n :
            packets[i] = IF i <= m + 1 THEN first[i] ELSE closing[i - (m + 1)]
  <2>1. /\ first \o closing \in Seq(PackagePacket)
        /\ Len(first \o closing) = Len(first) + Len(closing)
        /\ \A i \in 1..Len(first) + Len(closing) :
              (first \o closing)[i] = IF i <= Len(first) THEN first[i]
                                      ELSE closing[i - Len(first)]
    BY <1>6, <1>7, ConcatProperties
  <2>2. QED
    BY <1>3, <1>7, <2>1
<1> HIDE DEF m, n
<1>9. ASSUME NEW i \in 1..Len(packets), i <= m
      PROVE  packets[i] = opening[i] /\ packets[i] \in Opening
  <2>1. i \in 1..m /\ i \in 1..m + 1 /\ i \in 1..m + 1 + n /\ i <= m + 1
    BY <1>6, <1>8, <1>9
  <2>2. QED
    BY <1>6, <1>7, <1>8, <1>9, <2>1
<1>10. ASSUME NEW i \in 1..Len(packets), i = m + 1
       PROVE  packets[i] = Burst
  <2>1. ~(i <= m) /\ i \in 1..m + 1 /\ i \in 1..m + 1 + n /\ i <= m + 1
            /\ i - m = 1
    BY <1>6, <1>8, <1>10
  <2>2. QED
    BY <1>6, <1>7, <1>8, <2>1
<1>11. ASSUME NEW i \in 1..Len(packets), i > m + 1
       PROVE  packets[i] \in Closing
  <2>1. ~(i <= m + 1) /\ i - (m + 1) \in 1..n /\ i \in 1..m + 1 + n
    BY <1>6, <1>8, <1>11
  <2>2. QED
    BY <1>6, <1>8, <2>1
<1>12. ASSUME NEW i \in 1..Len(packets), i <= m \/ i > m + 1
       PROVE  packets[i].header_type = 1 /\ Len(packets[i].data) <= 1
  BY <1>5, <1>9, <1>11, <1>12
<1>13. ASSUME NEW i \in 1..Len(packets), i = m + 1
       PROVE  /\ packets[i].header_type = 2 /\ packets[i].data = packet_data
              /\ i > 1 /\ packets[i - 1].address = packets[i].address
  <2>1. packets[i] = Burst
    BY <1>10, <1>13
  <2>2. i - 1 \in 1..Len(packets) /\ i - 1 <= m /\ i - 1 = m /\ i > 1
    BY <1>3, <1>6, <1>8, <1>13 DEF m
  <2>3. packets[i - 1] = opening[m]
    BY <1>9, <2>2
  <2>4. QED
    BY <1>3, <1>4, <2>1, <2>2, <2>3 DEF m
<1>14. ASSUME NEW i \in 1..Len(packets)
       PROVE  /\ packets[i].header_type = 1 => Len(packets[i].data) <= 1
              /\ packets[i].header_type = 2 =>
                     /\ packets[i].data = packet_data
                     /\ i > 1 /\ packets[i - 1].address = packets[i].address
  <2>1. i <= m \/ i = m + 1 \/ i > m + 1
    BY <1>6, <1>8
  <2>2. CASE i = m + 1
    BY <1>13, <2>2
  <2>3. CASE i <= m \/ i > m + 1
    BY <1>12, <2>3
  <2>4. QED
    BY <2>1, <2>2, <2>3
<1>15. QED
  BY <1>8, <1>14

\* How many words there are, when the addresses are those of the part, or zero.
LEMMA WordsAreFew ==
    ASSUME Framed, WriterInv, writer_pc = "packaged",
           DOMAIN frames \subseteq ValidAddresses(part) \union {ZeroAddress}
    PROVE  /\ Len(packet_data) \in Nat
           /\ Len(packet_data) <=
                  (3 * Cardinality(ValidAddresses(part)) + 5) * WordsPerFrame
<1> DEFINE valid == ValidAddresses(part)
           c == Cardinality(valid)
           d == Cardinality(DOMAIN frames)
           w == WordsPerFrame
           l == Len(packet_data)
<1>1. w \in Nat /\ l \in Nat /\ l <= 3 * w * d + 2 * w
  BY DEF Framed, WriterInv
<1>2. valid \in SUBSET FrameAddress /\ IsFiniteSet(valid) /\ c \in Nat
  <2>1. valid \in SUBSET FrameAddress
    BY ValidAreAddresses DEF Framed
  <2>2. QED
    BY <2>1, FinitelyManyAddresses, FS_Subset, FS_CardinalityType
<1>3. d \in Nat /\ d <= c + 1
  <2>1. /\ IsFiniteSet(valid \union {ZeroAddress})
        /\ Cardinality(valid \union {ZeroAddress}) <= c + 1
    <3>1. /\ IsFiniteSet(valid \union {ZeroAddress})
          /\ Cardinality(valid \union {ZeroAddress}) =
                 IF ZeroAddress \in valid THEN c ELSE c + 1
      BY <1>2, FS_AddElement
    <3>2. QED
      BY <1>2, <3>1
  <2>2. DOMAIN frames \in SUBSET (valid \union {ZeroAddress})
    OBVIOUS
  <2>3. d <= Cardinality(valid \union {ZeroAddress}) /\ d \in Nat
    BY <2>1, <2>2, FS_Subset, FS_CardinalityType
  <2>4. Cardinality(valid \union {ZeroAddress}) \in Nat
    BY <2>1, FS_CardinalityType
  <2>5. QED
    BY <1>2, <2>1, <2>3, <2>4
<1> HIDE DEF valid, c, d, w, l
<1>4. 3 * w * d <= 3 * w * (c + 1)
  <2>1. d <= c + 1 /\ c + 1 \in Nat
    BY <1>2, <1>3
  <2> DEFINE f == c + 1
  <2> HIDE DEF f
  <2>2. w * d <= w * f
    BY <1>1, <1>3, <2>1 DEF f
  <2>3. w * d \in Nat /\ w * f \in Nat /\ f \in Nat
    BY <1>1, <1>3, <2>1 DEF f
  <2>4. 3 * w * d = 3 * (w * d) /\ 3 * w * f = 3 * (w * f)
    BY <1>1, <1>3, <2>3
  <2>5. 3 * w * d <= 3 * w * f
    BY <2>2, <2>3, <2>4
  <2>6. QED
    BY <2>5 DEF f
<1>5. 3 * w * (c + 1) + 2 * w = (3 * c + 5) * w
  BY <1>1, <1>2
<1>6. l <= (3 * c + 5) * w
  <2>1. /\ 3 * w * d \in Nat /\ 3 * w * (c + 1) \in Nat
        /\ 2 * w \in Nat /\ (3 * c + 5) * w \in Nat
    BY <1>1, <1>2, <1>3
  <2> DEFINE one == 3 * w * d
             two == 3 * w * (c + 1)
             three == 2 * w
             four == (3 * c + 5) * w
  <2>2. /\ one \in Nat /\ two \in Nat /\ three \in Nat /\ four \in Nat
        /\ l <= one + three /\ one <= two /\ two + three = four
    BY <1>1, <1>4, <1>5, <2>1
  <2> HIDE DEF one, two, three, four
  <2>3. l <= four
    BY <1>1, <2>2
  <2>4. QED
    BY <2>3 DEF four
<1>7. QED
  BY <1>1, <1>6 DEF valid, c, w, l

\* What is read is the first of what was written.
FirstPackets ==
    /\ Len(stream) \in Nat /\ Len(stream) <= Len(packets)
    /\ \A i \in 1..Len(stream) : /\ stream[i].opcode = packets[i].opcode
                                 /\ stream[i].address = packets[i].address
                                 /\ stream[i].data = packets[i].data

\* The reader starts on a package without frames, at address zero.
LEMMA InitReaderInv ==
    ASSUME IdCode \in Nat, Framed, WriterInv,
           writer_pc = "packaged", FirstPackets,
           Reader!InitRegisters
    PROVE  ReaderInv
<1>1. /\ packet_data \in Seq(Nat)
      /\ packets = IF part.arch = "Series7"
                   THEN Series7Package ELSE UltraScalePackage
  BY DEF WriterInv
<1>2. PICK off : WhollyLaidOut(off)
  BY DEF WriterInv
<1>3. PICK opening, closing : IsPackage(opening, closing)
  BY <1>1, PackageBetween
<1>4. PICK k : k \in 1..Len(packets) /\ Carries(k) /\ k \in Nat
  BY <1>3, PackageCarries DEF FirstPackets
<1>5. /\ pos = 0 /\ reader_pc = "fetch" /\ read_back = <<>>
      /\ frame_address_register = ZeroAddress
             /\ current_frame_address = ZeroAddress
  BY SameAddressing DEF Reader!InitRegisters
<1>6. DOMAIN read_back = {}
  BY <1>5
<1>7. pos < k /\ pos \in 0..Len(stream)
  BY <1>4, <1>5 DEF FirstPackets
<1>8. read_back = [a \in DOMAIN read_back |-> read_back[a]] /\ Unharmed
  BY <1>5, <1>6 DEF Unharmed
<1>9. ReadInv(k, off)
  BY <1>1, <1>2, <1>4, <1>5, <1>7, <1>8 DEF ReadInv
<1>10. k \in 1..Len(packets) /\ ReadInv(k, off)
  BY <1>4, <1>9
<1>11. QED
  BY <1>10 DEF ReaderInv

\* A whole package has been read when the reader is done.
Read == ReaderInv /\ reader_pc = "accepted" /\ Len(stream) = Len(packets)

\* A whole package is read to the end.
LEMMA ReadIsToTheEnd ==
    ASSUME Read
    PROVE  /\ ReadToTheEnd /\ Unharmed
           /\ read_back = [a \in DOMAIN read_back |-> read_back[a]]
<1>1. PICK k, off : k \in 1..Len(packets) /\ ReadInv(k, off)
  BY DEF Read, ReaderInv
<1>2. pos = Len(packets) /\ Len(packets) \in Nat
  BY <1>1 DEF Read, ReadInv, Carries
<1>3. pos >= k
  BY <1>1, <1>2
<1>4. QED
  BY <1>1, <1>3 DEF ReadInv, Read

\* Every address of the walk is level if the frames are those of the walk.
LEMMA WalkIsLevel ==
    ASSUME DOMAIN frames = WalkedAddresses(part) PROVE \A a : Level(a)
BY DEF Level, Lower, Before

(***************************************************************************)
(* What is read is what was written if and only if the frames that were    *)
(* written are those of the walk.                                          *)
(***************************************************************************)
LEMMA ReadExactlyWhenWalked ==
    ASSUME Framed, Read
    PROVE  read_back = frames <=> DOMAIN frames = WalkedAddresses(part)
<1>1. /\ ReadToTheEnd /\ Unharmed
      /\ read_back = [a \in DOMAIN read_back |-> read_back[a]]
  BY ReadIsToTheEnd
<1>2. ASSUME DOMAIN frames = WalkedAddresses(part) PROVE read_back = frames
  <2>1. \A a : Level(a)
    BY <1>2, WalkIsLevel
  <2>2. DOMAIN read_back = DOMAIN frames
    BY <1>1, <1>2, <2>1 DEF ReadToTheEnd
  <2>3. \A a \in DOMAIN frames : read_back[a] = frames[a]
    BY <1>1, <2>1, <2>2 DEF Unharmed
  <2>4. frames = [a \in DOMAIN frames |-> frames[a]]
    BY DEF Framed
  <2>5. QED
    BY <1>1, <2>2, <2>3, <2>4
<1>3. ASSUME read_back = frames PROVE DOMAIN frames = WalkedAddresses(part)
  <2>1. SUFFICES ASSUME NEW a \in WalkedAddresses(part),
                        DOMAIN frames = Before(part, a), ~Level(a)
                 PROVE  FALSE
    BY <1>1, <1>3 DEF ReadToTheEnd
  <2>2. Lower(DOMAIN frames, a) = Before(part, a)
    BY <2>1 DEF Lower, Before
  <2>3. QED
    BY <2>1, <2>2 DEF Level
<1>4. QED
  BY <1>2, <1>3

(***************************************************************************)
(* If all frames of the walk were written then those before the first that *)
(* is not of the walk are read as they were written.                       *)
(***************************************************************************)
LEMMA ReadIntactBeforeUnwalked ==
    ASSUME Framed, Read, WalkedAddresses(part) \subseteq DOMAIN frames,
           NEW a \in DOMAIN frames,
           \A u \in DOMAIN frames \ WalkedAddresses(part) : Packed(a) < Packed(u)
    PROVE  a \in DOMAIN read_back /\ read_back[a] = frames[a]
<1>1. ReadToTheEnd /\ Unharmed
  BY ReadIsToTheEnd
<1>2. /\ DOMAIN frames \subseteq FrameAddress /\ IsPart(part)
      /\ WalkedAddresses(part) \subseteq FrameAddress
  BY WalkedIsClosed DEF Framed
<1>3. \A b \in FrameAddress : Packed(b) \in Nat
  BY PackedIsNat
<1>4. a \in WalkedAddresses(part)
  <2>1. ~(Packed(a) < Packed(a))
    BY <1>2, <1>3
  <2>2. QED
    BY <2>1
<1>5. Level(a)
  <2>1. ASSUME NEW b \in DOMAIN frames, Packed(b) < Packed(a)
        PROVE  b \in WalkedAddresses(part)
    <3>1. ~(Packed(a) < Packed(b))
      BY <1>2, <1>3, <2>1
    <3>2. QED
      BY <3>1
  <2>2. QED
    BY <2>1 DEF Level, Lower, Before
<1>6. a \in DOMAIN read_back
  <2>1. SUFFICES ASSUME NEW c \in WalkedAddresses(part),
                        DOMAIN read_back = Before(part, c), ~Level(c)
                 PROVE  a \in Before(part, c)
    BY <1>1, <1>4 DEF ReadToTheEnd
  <2>2. ~(Packed(c) <= Packed(a))
    BY <1>2, <1>5, <2>1, LevelBelow
  <2>3. Packed(a) < Packed(c)
    BY <1>2, <1>3, <2>2
  <2>4. QED
    BY <1>4, <2>3 DEF Before
<1>7. QED
  BY <1>1, <1>5, <1>6 DEF Unharmed

(***************************************************************************)
(* If the frames are those of the walk, then all of them are read or none, *)
(* wherever the packets are cut off.                                       *)
(***************************************************************************)
LEMMA AllReadOrNone ==
    ASSUME Framed, ReaderInv, reader_pc = "accepted",
           DOMAIN frames = WalkedAddresses(part)
    PROVE  read_back = <<>> \/ read_back = frames
<1>1. PICK k, off : k \in 1..Len(packets) /\ ReadInv(k, off)
  BY DEF ReaderInv
<1>2. CASE pos < k
  BY <1>1, <1>2 DEF ReadInv
<1>3. CASE ~(pos < k)
  <2>1. pos >= k
    BY <1>1, <1>3 DEF ReadInv, Carries
  <2>2. /\ ReadToTheEnd /\ Unharmed
        /\ read_back = [a \in DOMAIN read_back |-> read_back[a]]
    BY <1>1, <2>1 DEF ReadInv
  <2>3. \A a : Level(a)
    BY WalkIsLevel
  <2>4. DOMAIN read_back = DOMAIN frames
    BY <2>2, <2>3 DEF ReadToTheEnd
  <2>5. \A a \in DOMAIN frames : read_back[a] = frames[a]
    BY <2>2, <2>3, <2>4 DEF Unharmed
  <2>6. frames = [a \in DOMAIN frames |-> frames[a]]
    BY DEF Framed
  <2>7. QED
    BY <2>2, <2>4, <2>5, <2>6
<1>4. QED
  BY <1>2, <1>3

=============================================================================

-------------------------- MODULE Frames2Bit_proofs --------------------------
(***************************************************************************)
(* What is read back of the bitstream that xcframes2bit writes, for every  *)
(* part, .frm file and file header, and wherever the file may end.         *)
(*                                                                         *)
(* The four modules that are composed have been reasoned about one by one: *)
(* the container collects the frames of the walk (Frames_proofs), the      *)
(* packets are read from the file as they were written, up to a last one   *)
(* (Bitstream_proofs), and of those packets come the frames below the      *)
(* first that the walk leaves out (RoundTrip_proofs).  What is left is     *)
(* that each works on what the one before it has made, when it is done.    *)
(***************************************************************************)
EXTENDS Frames2Bit, SequenceTheorems, FiniteSetTheorems, TLAPS

\* The fixed headers of the architectures, packets by numbers, and any room.
FixedHeaders == {Dummies(n) \o BusWidthAndSync : n \in {8, 1, 16}}

NumberedPacket ==
    [header_type : {0, 1, 2}, opcode : 0..3, address : 0..AddressSize - 1,
     data : Seq(Nat)]

Packages == Seq(NumberedPacket)

AnyRoom(package) == 0..LargestFile

\* The .frm file, the bytes of the packets, and the frames in the packets.
Made == INSTANCE Frames_proofs

Wire == INSTANCE Bitstream_proofs
            WITH packets <- Numbered(packets), pc <- parser_pc,
                 Headers <- FixedHeaders, Rooms <- AnyRoom

Trip == INSTANCE RoundTrip_proofs
            WITH frames <- frames_data, stream <- Named(yielded)

-----------------------------------------------------------------------------

\* The elements of two sequences one after the other.
LEMMA Behind ==
    ASSUME NEW S, NEW s \in Seq(S), NEW t \in Seq(S)
    PROVE  /\ s \o t \in Seq(S) /\ Len(s \o t) = Len(s) + Len(t)
           /\ \A i \in 1..Len(s) : (s \o t)[i] = s[i]
           /\ \A i \in 1..Len(t) : (s \o t)[Len(s) + i] = t[i]
<1> DEFINE m == Len(s)  n == Len(t)
<1>1. m \in Nat /\ n \in Nat
  OBVIOUS
<1>2. /\ s \o t \in Seq(S) /\ Len(s \o t) = m + n
      /\ \A i \in 1..m + n : (s \o t)[i] = IF i <= m THEN s[i] ELSE t[i - m]
  BY ConcatProperties
<1> HIDE DEF m, n
<1>3. \A i \in 1..n : m + i \in 1..m + n /\ ~(m + i <= m) /\ m + i - m = i
  BY <1>1
<1>4. \A i \in 1..m : i \in 1..m + n /\ i <= m
  BY <1>1
<1>5. QED
  BY <1>2, <1>3, <1>4 DEF m, n

\* None of the bytes of the sync word is in the word.
Plain(w) == \A b \in 1..4 : w[b] \notin {170, 153, 85, 102}

\* Words of four bytes, of which the last is the sync word and the others have
\* none of its bytes.
EndsInSync(header) ==
    /\ header \in Seq([1..4 -> 0..255])
    /\ Len(header) \in Nat \ {0}
    /\ \A i \in 1..Len(header) - 1, b \in 1..4 :
           header[i][b] \notin {170, 153, 85, 102}
    /\ header[Len(header)] = <<170, 153, 85, 102>>

\* The words of the fixed headers are words of four bytes.
LEMMA BusBytes ==
    /\ <<255, 255, 255, 255>> \in [1..4 -> 0..255]
    /\ <<0, 0, 0, 187>> \in [1..4 -> 0..255]
    /\ <<17, 34, 0, 68>> \in [1..4 -> 0..255]
    /\ <<170, 153, 85, 102>> \in [1..4 -> 0..255]
<1>1. <<255, 255, 255, 255>> \in [1..4 -> 0..255]
  OBVIOUS
<1>2. <<0, 0, 0, 187>> \in [1..4 -> 0..255]
  OBVIOUS
<1>3. <<17, 34, 0, 68>> \in [1..4 -> 0..255]
  OBVIOUS
<1>4. <<170, 153, 85, 102>> \in [1..4 -> 0..255]
  OBVIOUS
<1>5. QED
  BY <1>1, <1>2, <1>3, <1>4

\* A word of four bytes none of which is in the sync word is plain.
LEMMA PlainBytes ==
    ASSUME NEW a, NEW b, NEW c, NEW d,
           a \notin {170, 153, 85, 102}, b \notin {170, 153, 85, 102},
           c \notin {170, 153, 85, 102}, d \notin {170, 153, 85, 102}
    PROVE  Plain(<<a, b, c, d>>)
<1> DEFINE w == <<a, b, c, d>>
<1>1. w[1] = a /\ w[2] = b /\ w[3] = c /\ w[4] = d
  OBVIOUS
<1>2. \A i \in 1..4 : i = 1 \/ i = 2 \/ i = 3 \/ i = 4
  OBVIOUS
<1> HIDE DEF w
<1>3. ASSUME NEW i \in 1..4 PROVE w[i] \notin {170, 153, 85, 102}
  BY <1>1, <1>2, Zenon
<1>4. QED
  BY <1>3 DEF w, Plain

\* The words of a fixed header.
LEMMA HeaderWords ==
    ASSUME NEW n \in Nat PROVE EndsInSync(Dummies(n) \o BusWidthAndSync)
<1> DEFINE W == [1..4 -> 0..255]
           dummies == Dummies(n)
           rest == BusWidthAndSync
<1>1. /\ <<255, 255, 255, 255>> \in W /\ Plain(<<255, 255, 255, 255>>)
      /\ <<0, 0, 0, 187>> \in W /\ Plain(<<0, 0, 0, 187>>)
      /\ <<17, 34, 0, 68>> \in W /\ Plain(<<17, 34, 0, 68>>)
      /\ <<170, 153, 85, 102>> \in W
  <2>2. \A b \in {255, 0, 187, 17, 34, 68} : b \notin {170, 153, 85, 102}
    OBVIOUS
  <2>3. /\ <<255, 255, 255, 255>> \in W /\ <<0, 0, 0, 187>> \in W
        /\ <<17, 34, 0, 68>> \in W /\ <<170, 153, 85, 102>> \in W
    BY BusBytes
  <2>4. Plain(<<255, 255, 255, 255>>)
    BY <2>2, PlainBytes
  <2>5. Plain(<<0, 0, 0, 187>>)
    BY <2>2, PlainBytes
  <2>6. Plain(<<17, 34, 0, 68>>)
    BY <2>2, PlainBytes
  <2>7. QED
    BY <2>3, <2>4, <2>5, <2>6
<1>11. ASSUME NEW k \in Nat
       PROVE  /\ Dummies(k) \in Seq(W) /\ Len(Dummies(k)) = k
              /\ \A i \in 1..k : Plain(Dummies(k)[i])
  <2> DEFINE dummy == <<255, 255, 255, 255>>
  <2>1. dummy \in W /\ Plain(dummy)
    BY <1>1
  <2>2. Dummies(k) = [i \in 1..k |-> dummy]
    BY DEF Dummies
  <2> HIDE DEF W, dummy
  <2>3. Dummies(k) \in Seq(W) /\ Len(Dummies(k)) = k
    BY ONLY k \in Nat, <2>1, <2>2
  <2>4. \A i \in 1..k : Plain(Dummies(k)[i])
    BY ONLY k \in Nat, <2>1, <2>2
  <2>5. QED
    BY <2>3, <2>4
<1>2. dummies \in Seq(W) /\ Len(dummies) = n
  BY <1>11
<1>8. \A i \in 1..n : Plain(dummies[i])
  BY <1>11
<1>3. /\ rest \in Seq(W) /\ Len(rest) = 5
      /\ \A i \in 1..4 : Plain(rest[i])
      /\ rest[5] = <<170, 153, 85, 102>>
  <2> DEFINE bus == <<<<0, 0, 0, 187>>, <<17, 34, 0, 68>>>>
             two == Dummies(2)
             sync == <<<<170, 153, 85, 102>>>>
  <2>1. /\ bus \in Seq(W) /\ Len(bus) = 2
        /\ sync \in Seq(W) /\ Len(sync) = 1 /\ sync[1] = <<170, 153, 85, 102>>
    <3> DEFINE first == <<0, 0, 0, 187>>
               second == <<17, 34, 0, 68>>
               last == <<170, 153, 85, 102>>
    <3>1. first \in W /\ second \in W /\ last \in W
      BY <1>1
    <3>2. bus = <<first, second>> /\ sync = <<last>>
      OBVIOUS
    <3> HIDE DEF W, bus, sync, first, second, last
    <3>3. bus \in Seq(W) /\ Len(bus) = 2
      BY <3>1, <3>2
    <3>4. sync \in Seq(W) /\ Len(sync) = 1 /\ sync[1] = last
      BY <3>1, <3>2
    <3>5. QED
      BY <3>3, <3>4 DEF last
  <2>13. /\ two \in Seq(W) /\ Len(two) = 2
         /\ \A i \in 1..2 : Plain(two[i])
    <3>1. 2 \in Nat
      OBVIOUS
    <3>2. QED
      BY <1>11, <3>1
  <2>2. two \in Seq(W) /\ Len(two) = 2
    BY <2>13
  <2>10. Plain(bus[1]) /\ Plain(bus[2]) /\ Plain(two[1]) /\ Plain(two[2])
    <3>1. Plain(bus[1]) /\ Plain(bus[2])
      <4>1. bus[1] = <<0, 0, 0, 187>> /\ bus[2] = <<17, 34, 0, 68>>
        OBVIOUS
      <4> HIDE DEF bus
      <4>2. QED
        BY <1>1, <4>1
    <3>2. 1 \in 1..2 /\ 2 \in 1..2
      OBVIOUS
    <3>3. QED
      BY <2>13, <3>1, <3>2
  <2>3. rest = (bus \o two) \o sync
    BY DEF BusWidthAndSync
  <2> HIDE DEF W, bus, two, sync, rest
  <2>11. bus \in Seq(W) /\ two \in Seq(W) /\ sync \in Seq(W)
    BY <2>1, <2>2
  <2> DEFINE four == bus \o two
  <2>4. /\ four \in Seq(W) /\ Len(four) = 4
        /\ four[1] = bus[1] /\ four[2] = bus[2]
        /\ four[3] = two[1] /\ four[4] = two[2]
    <3>1. /\ bus \o two \in Seq(W) /\ Len(bus \o two) = Len(bus) + Len(two)
          /\ \A i \in 1..Len(bus) : (bus \o two)[i] = bus[i]
          /\ \A i \in 1..Len(two) : (bus \o two)[Len(bus) + i] = two[i]
      BY <2>11, Behind
    <3>2. QED
      BY <2>1, <2>2, <3>1
  <2> HIDE DEF four
  <2>12. four \in Seq(W)
    BY <2>4
  <2>5. /\ four \o sync \in Seq(W) /\ Len(four \o sync) = 5
        /\ \A i \in 1..4 : (four \o sync)[i] = four[i]
        /\ (four \o sync)[5] = sync[1]
    <3>1. /\ four \o sync \in Seq(W) /\ Len(four \o sync) = Len(four) + Len(sync)
          /\ \A i \in 1..Len(four) : (four \o sync)[i] = four[i]
          /\ \A i \in 1..Len(sync) : (four \o sync)[Len(four) + i] = sync[i]
      BY <2>11, <2>12, Behind
    <3>2. QED
      BY <2>1, <2>4, <3>1
  <2>6. rest = four \o sync
    BY <2>3 DEF four
  <2>7. /\ rest[1] = bus[1] /\ rest[2] = bus[2] /\ rest[3] = two[1]
        /\ rest[4] = two[2] /\ rest[5] = sync[1]
    BY <2>4, <2>5, <2>6
  <2>8. \A i \in 1..4 : i = 1 \/ i = 2 \/ i = 3 \/ i = 4
    OBVIOUS
  <2>9. QED
    BY <2>1, <2>5, <2>6, <2>7, <2>8, <2>10, Zenon
<1> HIDE DEF W, dummies, rest
<1>9. dummies \in Seq(W) /\ rest \in Seq(W)
  BY <1>2, <1>3
<1>4. /\ dummies \o rest \in Seq(W) /\ Len(dummies \o rest) = n + 5
      /\ \A i \in 1..n : (dummies \o rest)[i] = dummies[i]
      /\ \A i \in 1..5 : (dummies \o rest)[n + i] = rest[i]
  <2>1. /\ dummies \o rest \in Seq(W)
        /\ Len(dummies \o rest) = Len(dummies) + Len(rest)
        /\ \A i \in 1..Len(dummies) : (dummies \o rest)[i] = dummies[i]
        /\ \A i \in 1..Len(rest) : (dummies \o rest)[Len(dummies) + i] = rest[i]
    BY <1>9, Behind
  <2>2. QED
    BY <1>2, <1>3, <2>1
<1>5. ASSUME NEW i \in 1..n + 4 PROVE Plain((dummies \o rest)[i])
  <2>1. CASE i \in 1..n
    BY <1>4, <1>8, <2>1
  <2>2. CASE i \notin 1..n
    <3>1. PICK j \in 1..4 : i = n + j
      <4>1. i - n \in 1..4 /\ i = n + (i - n)
        BY <2>2
      <4>2. QED
        BY <4>1
    <3>2. j \in 1..5
      OBVIOUS
    <3>3. (dummies \o rest)[i] = rest[j]
      BY <1>4, <3>1, <3>2
    <3>4. QED
      BY <1>3, <3>3
  <2>3. QED
    BY <2>1, <2>2
<1>6. (dummies \o rest)[n + 5] = <<170, 153, 85, 102>>
  <2>1. 5 \in 1..5
    OBVIOUS
  <2>2. (dummies \o rest)[n + 5] = rest[5]
    BY <1>4, <2>1
  <2>3. QED
    BY <1>3, <2>2
<1>7. Len(dummies \o rest) \in Nat \ {0} /\ Len(dummies \o rest) - 1 = n + 4
  BY <1>4
<1>10. QED
  BY <1>4, <1>5, <1>6, <1>7 DEF W, dummies, rest, Plain, EndsInSync

\* So are all fixed headers.
LEMMA HeadersEndInSync == \A header \in FixedHeaders : EndsInSync(header)
<1>1. 8 \in Nat /\ 1 \in Nat /\ 16 \in Nat
  OBVIOUS
<1>2. QED
  BY <1>1, HeaderWords DEF FixedHeaders

-----------------------------------------------------------------------------
(***************************************************************************)
(* What the modules of the parts assume holds here.                        *)
(***************************************************************************)

\* The fields of a header word.
LEMMA WireFields ==
    /\ AddressSize \in Nat \ {0}
    /\ ReservedSize \in Nat \ {0}
    /\ CountSize \in Nat \ {0}
BY SMT DEF AddressSize, ReservedSize, CountSize

\* The headers and the packets of a file.
LEMMA WireHeaders ==
    /\ FileHeader \in Seq(0..255)
    /\ Len(FileHeader) >= 4
    /\ \A header \in FixedHeaders :
           header \in Seq([1..4 -> 0..255]) /\ header # <<>>
    /\ \A package \in Packages :
           /\ package \in Seq(Wire!ConfigurationPacket)
           /\ AnyRoom(package) \subseteq Nat
<1>1. FileHeader \in Seq(0..255) /\ Len(FileHeader) >= 4
  BY Frames2BitAssumption
<1>2. ASSUME NEW header \in FixedHeaders
      PROVE  header \in Seq([1..4 -> 0..255]) /\ header # <<>>
  BY HeadersEndInSync DEF EndsInSync
<1>3. NumberedPacket = Wire!ConfigurationPacket
  BY DEF NumberedPacket, Wire!ConfigurationPacket, Wire!NONE, Wire!TYPE1,
      Wire!TYPE2
<1>4. \A package : AnyRoom(package) \subseteq Nat
  BY DEF AnyRoom
<1>5. QED
  BY <1>1, <1>2, <1>3, <1>4 DEF Packages

\* Where the sync word is.
LEMMA WireSync ==
    /\ \A i \in 1..Len(FileHeader) - 3 :
           SubSeq(FileHeader, i, i + 3) # Wire!Reader!kSyncWord
    /\ \A i \in DOMAIN FileHeader :
           i > Len(FileHeader) - 7 => FileHeader[i] # 170
    /\ \A header \in FixedHeaders :
           /\ \A i \in 1..Len(header) - 1, b \in 1..4 :
                  header[i][b] \notin {170, 153, 85, 102}
           /\ header[Len(header)] = Wire!Reader!kSyncWord
    /\ \A package \in Packages : \A n \in AnyRoom(package) : n <= Wire!LargestFile
<1>1. /\ Wire!Reader!kSyncWord = <<170, 153, 85, 102>>
      /\ Parser!kSyncWord = <<170, 153, 85, 102>>
  BY DEF Wire!Reader!kSyncWord, Parser!kSyncWord
<1>2. /\ \A i \in 1..Len(FileHeader) - 3 :
             SubSeq(FileHeader, i, i + 3) # Wire!Reader!kSyncWord
      /\ \A i \in DOMAIN FileHeader :
             i > Len(FileHeader) - 7 => FileHeader[i] # 170
  BY <1>1, Frames2BitAssumption
<1>3. ASSUME NEW header \in FixedHeaders
      PROVE  /\ \A i \in 1..Len(header) - 1, b \in 1..4 :
                    header[i][b] \notin {170, 153, 85, 102}
             /\ header[Len(header)] = Wire!Reader!kSyncWord
  BY <1>1, HeadersEndInSync DEF EndsInSync
<1>4. \A package : \A n \in AnyRoom(package) : n <= Wire!LargestFile
  <2>1. Wire!LargestFile = LargestFile /\ LargestFile \in Nat
    BY SMT DEF LargestFile, Wire!LargestFile
  <2>2. QED
    BY <2>1 DEF AnyRoom
<1>5. QED
  BY <1>2, <1>3, <1>4

-----------------------------------------------------------------------------
(***************************************************************************)
(* The parts of xcframes2bit are those that the other modules are about.   *)
(***************************************************************************)

\* A part is a part.
LEMMA SameParts ==
    /\ FrameAddress = Made!FrameAddress /\ FrameAddress = Trip!FrameAddress
    /\ \A p : /\ Container!IsPart(p) <=> Made!IsPart(p)
              /\ IsPart(p) <=> Made!IsPart(p)
              /\ IsPart(p) <=> Trip!IsPart(p)
    /\ Container!FrameAddress = Made!FrameAddress
BY DEF FrameAddress, Made!FrameAddress, Trip!FrameAddress, Container!FrameAddress,
       IsPart, Container!IsPart, Made!IsPart, Trip!IsPart,
       Architectures, Container!Architectures, Made!Architectures,
       Trip!Architectures, ColumnKey, Container!ColumnKey, Made!ColumnKey,
       Trip!ColumnKey, MinorCount, Container!MinorCount, Made!MinorCount,
       Trip!MinorCount

\* The container goes from an address to the next one.
LEMMA ContainerGoesOn ==
    \A p, a : Container!GetNextFrameAddress(p, a) =
               Made!GetNextFrameAddress(p, a)
<1>1. SUFFICES ASSUME NEW p, NEW a
               PROVE  Container!GetNextFrameAddress(p, a) =
                          Made!GetNextFrameAddress(p, a)
  OBVIOUS
<1>2. Container!BusNext(p, a) = Made!BusNext(p, a)
  BY DEF Container!BusNext, Made!BusNext, Container!ColumnNext,
         Made!ColumnNext, Container!SameRow, Made!SameRow,
         Container!FirstOf, Made!FirstOf, Container!IfValid, Made!IfValid,
         Container!IsValidFrameAddress, Made!IsValidFrameAddress,
         Container!ColumnOf, Made!ColumnOf, Container!Following,
         Made!Following, Container!Address, Made!Address
<1>3. Container!RowNext(p, a) = Made!RowNext(p, a)
  BY <1>2 DEF Container!RowNext, Made!RowNext, Container!SameRow, Made!SameRow
<1>4. Container!GlobalClockRegionNext(p, a) =
          Made!GlobalClockRegionNext(p, a)
  BY <1>3
     DEF Container!GlobalClockRegionNext, Made!GlobalClockRegionNext,
         Container!FirstOf, Made!FirstOf, Container!IfValid, Made!IfValid,
         Container!IsValidFrameAddress, Made!IsValidFrameAddress,
         Container!ColumnOf, Made!ColumnOf, Container!Following,
         Made!Following, Container!Address, Made!Address
<1>5. Container!RowsNext(p, a) = Made!RowsNext(p, a)
  BY <1>3
     DEF Container!RowsNext, Made!RowsNext, Container!NumberedRow,
         Made!NumberedRow, Container!FirstOf, Made!FirstOf,
         Container!IfValid, Made!IfValid, Container!IsValidFrameAddress,
         Made!IsValidFrameAddress, Container!ColumnOf, Made!ColumnOf,
         Container!Following, Made!Following, Container!Address,
         Made!Address
<1>6. /\ Container!BottomHalfNext(p, a) = Made!BottomHalfNext(p, a)
      /\ Container!Spartan6BottomNext(p, a) =
             Made!Spartan6BottomNext(p, a)
  BY DEF Container!BottomHalfNext, Made!BottomHalfNext,
         Container!Spartan6BottomNext, Made!Spartan6BottomNext,
         Container!IfValid, Made!IfValid, Container!IsValidFrameAddress,
         Made!IsValidFrameAddress, Container!ColumnOf, Made!ColumnOf,
         Container!Address, Made!Address
<1>7. Container!BlockTypeNext(p, a) = Made!BlockTypeNext(p, a)
  BY DEF Container!BlockTypeNext, Made!BlockTypeNext, Container!BLOCK_RAM,
         Made!BLOCK_RAM, Container!CFG_CLB, Made!CFG_CLB,
         Container!FirstOf, Made!FirstOf, Container!IfValid, Made!IfValid,
         Container!IsValidFrameAddress, Made!IsValidFrameAddress,
         Container!ColumnOf, Made!ColumnOf, Container!Address, Made!Address
<1>8. /\ Container!Series7Next(p, a) = Made!Series7Next(p, a)
      /\ Container!Spartan6Next(p, a) = Made!Spartan6Next(p, a)
  BY <1>4, <1>6, <1>7
     DEF Container!Series7Next, Made!Series7Next, Container!Spartan6Next,
         Made!Spartan6Next, Container!FirstOf, Made!FirstOf
<1>9. Container!UltraScaleNext(p, a) = Made!UltraScaleNext(p, a)
  BY <1>5, <1>7
     DEF Container!UltraScaleNext, Made!UltraScaleNext,
         Container!NumberedRow, Made!NumberedRow, Container!FirstOf,
         Made!FirstOf
<1>10. QED
  BY <1>8, <1>9 DEF Container!GetNextFrameAddress, Made!GetNextFrameAddress

\* Reading the .frm file, and adding what it misses.
LEMMA SameFile ==
    /\ Container!FramesConstants <=> Made!FramesConstants
    /\ Container!Init => Made!Init
    /\ Container!Next => Made!Next
<1>1. Container!FramesConstants <=> Made!FramesConstants
  BY SameParts
     DEF Container!FramesConstants, Made!FramesConstants, Container!FrameData,
         Made!FrameData, Container!Line, Made!Line, Container!NotHex, Made!NotHex
<1>2. Container!Init => Made!Init
  BY DEF Container!Init, Made!Init
<1>3. Container!readFrames => Made!readFrames
  <2>1. /\ \A ws : Container!IsHex(ws) <=> Made!IsHex(ws)
        /\ \A arch, ws :
               /\ Container!WellCounted(arch, ws) <=> Made!WellCounted(arch, ws)
               /\ Container!updateECC(arch, ws) = Made!updateECC(arch, ws)
    BY DEF Container!IsHex, Made!IsHex, Container!NotHex, Made!NotHex,
           Container!WellCounted, Made!WellCounted, Container!updateECC,
           Made!updateECC
  <2>2. \A p, a : Container!IsValidFrameAddress(p, a) <=>
                      Made!IsValidFrameAddress(p, a)
    BY DEF Container!IsValidFrameAddress, Made!IsValidFrameAddress,
           Container!ColumnOf, Made!ColumnOf
  <2>3. /\ Container!Returned = Made!Returned
        /\ Container!GetLine <=> Made!GetLine
    BY DEF Container!Returned, Made!Returned, Container!GetLine, Made!GetLine
  <2>4. Container!HasFrame <=> Made!HasFrame
    BY <2>1, <2>2, <2>3 DEF Container!HasFrame, Made!HasFrame
  <2>5. \A map, key, value :
            Container!Insert(map, key, value) = Made!Insert(map, key, value)
    BY DEF Container!Insert, Made!Insert, Container!Assign, Made!Assign
  <2>6. /\ Container!FailToOpen => Made!FailToOpen
        /\ Container!EndOfFile => Made!EndOfFile
    BY DEF Container!FailToOpen, Made!FailToOpen, Container!EndOfFile,
           Made!EndOfFile
  <2>7. /\ Container!SkipComment => Made!SkipComment
        /\ Container!AbortOnMalformedLine => Made!AbortOnMalformedLine
        /\ Container!RejectUnknownAddress => Made!RejectUnknownAddress
    BY <2>1, <2>2, <2>3, <2>4
       DEF Container!SkipComment, Made!SkipComment,
           Container!AbortOnMalformedLine, Made!AbortOnMalformedLine,
           Container!RejectUnknownAddress, Made!RejectUnknownAddress
  <2>8. Container!SkipWrongWordCount => Made!SkipWrongWordCount
    BY <2>1, <2>2, <2>3
       DEF Container!SkipWrongWordCount, Made!SkipWrongWordCount
  <2>9. Container!InsertFrame => Made!InsertFrame
    BY <2>1, <2>3, <2>4, <2>5 DEF Container!InsertFrame, Made!InsertFrame
  <2>10. QED
    BY <2>6, <2>7, <2>8, <2>9 DEF Container!readFrames, Made!readFrames
<1>4. Container!addMissingFrames => Made!addMissingFrames
  <2>1. \A p, a :
            Container!GetNextFrameAddress(p, a) = Made!GetNextFrameAddress(p, a)
    BY ContainerGoesOn
  <2>2. Container!ZeroAddress = Made!ZeroAddress
    BY DEF Container!ZeroAddress, Made!ZeroAddress, Container!Address,
        Made!Address
  <2>3. Container!ZeroFrame = Made!ZeroFrame
    BY DEF Container!ZeroFrame, Made!ZeroFrame
  <2>4. \A map, key, value :
           Container!Insert(map, key, value) = Made!Insert(map, key, value)
    BY DEF Container!Insert, Made!Insert, Container!Assign, Made!Assign
  <2>5. QED
    BY <2>1, <2>2, <2>3, <2>4
       DEF Container!addMissingFrames, Made!addMissingFrames,
           Container!BeginAddMissing, Made!BeginAddMissing,
           Container!AddMissing, Made!AddMissing
<1>5. QED
  BY <1>1, <1>2, <1>3, <1>4 DEF Container!Next, Made!Next

\* So does the writer.
LEMMA WriterGoesOn ==
    \A p, a : Writer!GetNextFrameAddress(p, a) =
               Trip!GetNextFrameAddress(p, a)
<1>1. SUFFICES ASSUME NEW p, NEW a
               PROVE  Writer!GetNextFrameAddress(p, a) =
                          Trip!GetNextFrameAddress(p, a)
  OBVIOUS
<1>2. Writer!BusNext(p, a) = Trip!BusNext(p, a)
  BY DEF Writer!BusNext, Trip!BusNext, Writer!ColumnNext, Trip!ColumnNext,
         Writer!SameRow, Trip!SameRow, Writer!FirstOf, Trip!FirstOf,
         Writer!IfValid, Trip!IfValid, Writer!IsValidFrameAddress,
         Trip!IsValidFrameAddress, Writer!ColumnOf, Trip!ColumnOf,
         Writer!Following, Trip!Following, Writer!Address, Trip!Address
<1>3. Writer!RowNext(p, a) = Trip!RowNext(p, a)
  BY <1>2 DEF Writer!RowNext, Trip!RowNext, Writer!SameRow, Trip!SameRow
<1>4. Writer!GlobalClockRegionNext(p, a) =
          Trip!GlobalClockRegionNext(p, a)
  BY <1>3
     DEF Writer!GlobalClockRegionNext, Trip!GlobalClockRegionNext,
         Writer!FirstOf, Trip!FirstOf, Writer!IfValid, Trip!IfValid,
         Writer!IsValidFrameAddress, Trip!IsValidFrameAddress,
         Writer!ColumnOf, Trip!ColumnOf, Writer!Following, Trip!Following,
         Writer!Address, Trip!Address
<1>5. Writer!RowsNext(p, a) = Trip!RowsNext(p, a)
  BY <1>3
     DEF Writer!RowsNext, Trip!RowsNext, Writer!NumberedRow,
         Trip!NumberedRow, Writer!FirstOf, Trip!FirstOf, Writer!IfValid,
         Trip!IfValid, Writer!IsValidFrameAddress,
         Trip!IsValidFrameAddress, Writer!ColumnOf, Trip!ColumnOf,
         Writer!Following, Trip!Following, Writer!Address, Trip!Address
<1>6. /\ Writer!BottomHalfNext(p, a) = Trip!BottomHalfNext(p, a)
      /\ Writer!Spartan6BottomNext(p, a) =
             Trip!Spartan6BottomNext(p, a)
  BY DEF Writer!BottomHalfNext, Trip!BottomHalfNext,
         Writer!Spartan6BottomNext, Trip!Spartan6BottomNext,
         Writer!IfValid, Trip!IfValid, Writer!IsValidFrameAddress,
         Trip!IsValidFrameAddress, Writer!ColumnOf, Trip!ColumnOf,
         Writer!Address, Trip!Address
<1>7. Writer!BlockTypeNext(p, a) = Trip!BlockTypeNext(p, a)
  BY DEF Writer!BlockTypeNext, Trip!BlockTypeNext, Writer!BLOCK_RAM,
         Trip!BLOCK_RAM, Writer!CFG_CLB, Trip!CFG_CLB, Writer!FirstOf,
         Trip!FirstOf, Writer!IfValid, Trip!IfValid,
         Writer!IsValidFrameAddress, Trip!IsValidFrameAddress,
         Writer!ColumnOf, Trip!ColumnOf, Writer!Address, Trip!Address
<1>8. /\ Writer!Series7Next(p, a) = Trip!Series7Next(p, a)
      /\ Writer!Spartan6Next(p, a) = Trip!Spartan6Next(p, a)
  BY <1>4, <1>6, <1>7
     DEF Writer!Series7Next, Trip!Series7Next, Writer!Spartan6Next,
         Trip!Spartan6Next, Writer!FirstOf, Trip!FirstOf
<1>9. Writer!UltraScaleNext(p, a) = Trip!UltraScaleNext(p, a)
  BY <1>5, <1>7
     DEF Writer!UltraScaleNext, Trip!UltraScaleNext, Writer!NumberedRow,
         Trip!NumberedRow, Writer!FirstOf, Trip!FirstOf
<1>10. QED
  BY <1>8, <1>9 DEF Writer!GetNextFrameAddress, Trip!GetNextFrameAddress

\* Writing the packets.
LEMMA SameWriter ==
    /\ Writer!InitWriter => Trip!InitWriter
    /\ Writer!WriterNext => Trip!WriterNext
    /\ Writer!writer_vars = Trip!writer_vars
<1>1. \A a : Writer!SeparatorAfter(a) = Trip!SeparatorAfter(a)
  BY WriterGoesOn
     DEF Writer!SeparatorAfter, Trip!SeparatorAfter, Writer!Separator,
         Trip!Separator, Writer!CrossesRow, Trip!CrossesRow, Writer!SameRow,
         Trip!SameRow
<1>2. Writer!createType2ConfigurationPacketData =>
          Trip!createType2ConfigurationPacketData
  <2>1. \A a, b : Writer!Packed(a) <= Writer!Packed(b) <=>
                     Trip!Packed(a) <= Trip!Packed(b)
    BY DEF Writer!Packed, Trip!Packed
  <2>2. Writer!BeginPacking => Trip!BeginPacking
    BY DEF Writer!BeginPacking, Trip!BeginPacking
  <2>3. Writer!PackFrame => Trip!PackFrame
    BY <1>1, <2>1 DEF Writer!PackFrame, Trip!PackFrame
  <2>4. Writer!EndPacking => Trip!EndPacking
    BY DEF Writer!EndPacking, Trip!EndPacking, Writer!Separator, Trip!Separator
  <2>5. QED
    BY <2>2, <2>3, <2>4 DEF Writer!createType2ConfigurationPacketData,
           Trip!createType2ConfigurationPacketData
<1>3. Writer!FrameWrite = Trip!FrameWrite /\ Writer!NOPs = Trip!NOPs
  BY DEF Writer!FrameWrite, Trip!FrameWrite, Writer!Write, Trip!Write, Writer!CMD,
         Trip!CMD, Writer!NOPs, Trip!NOPs, Writer!Command, Trip!Command
<1>4. /\ \A register, data :
             Writer!Write(register, data) = Trip!Write(register, data)
      /\ \A name : Writer!CMD(name) = Trip!CMD(name)
  BY DEF Writer!Write, Trip!Write, Writer!CMD, Trip!CMD, Writer!Command,
      Trip!Command
<1>5. /\ Writer!Series7Package = Trip!Series7Package
      /\ Writer!UltraScalePackage = Trip!UltraScalePackage
  <2>1. Writer!Series7Options = Trip!Series7Options
    BY DEF Writer!Series7Options, Trip!Series7Options
  <2>2. Writer!Series7Initialization = Trip!Series7Initialization
    BY <2>1, SMT
       DEF Writer!Series7Initialization, Trip!Series7Initialization, Writer!Write,
           Trip!Write, Writer!CMD, Trip!CMD, Writer!NOPs, Trip!NOPs,
           Writer!Command, Trip!Command
  <2>3. Writer!UltraScaleInitialization = Trip!UltraScaleInitialization
    BY SMT
       DEF Writer!UltraScaleInitialization, Trip!UltraScaleInitialization,
           Writer!Write, Trip!Write, Writer!CMD, Trip!CMD, Writer!NOPs, Trip!NOPs,
           Writer!Command, Trip!Command
  <2>4. /\ Writer!Control(1025, 1281) = Trip!Control(1025, 1281)
        /\ Writer!Control(1, 257) = Trip!Control(1, 257)
    BY SMT
       DEF Writer!Control, Trip!Control, Writer!Write, Trip!Write, Writer!NOPs,
           Trip!NOPs
  <2>5. /\ Writer!Finalization(1281, 1281) = Trip!Finalization(1281, 1281)
        /\ Writer!Finalization(257, 257) = Trip!Finalization(257, 257)
    BY SMT
       DEF Writer!Finalization, Trip!Finalization, Writer!Write, Trip!Write,
           Writer!CMD, Trip!CMD, Writer!NOPs, Trip!NOPs, Writer!Command,
           Trip!Command
  <2>6. Writer!Series7Package = Trip!Series7Package
    BY ONLY <1>3, <2>2, <2>4, <2>5 DEF Writer!Series7Package, Trip!Series7Package
  <2>7. Writer!UltraScalePackage = Trip!UltraScalePackage
    BY ONLY <1>3, <2>3, <2>4, <2>5
       DEF Writer!UltraScalePackage, Trip!UltraScalePackage
  <2>8. QED
    BY <2>6, <2>7
<1>6. Writer!createConfigurationPackage => Trip!createConfigurationPackage
  BY <1>5 DEF Writer!createConfigurationPackage, Trip!createConfigurationPackage
<1>7. /\ Writer!InitWriter => Trip!InitWriter
      /\ Writer!writer_vars = Trip!writer_vars
  BY DEF Writer!InitWriter, Trip!InitWriter, Writer!writer_vars, Trip!writer_vars
<1>8. QED
  BY <1>2, <1>6, <1>7 DEF Writer!WriterNext, Trip!WriterNext

\* So does the reader.
LEMMA ReaderGoesOn ==
    \A p, a : Reader!GetNextFrameAddress(p, a) =
               Trip!Reader!GetNextFrameAddress(p, a)
<1>1. SUFFICES ASSUME NEW p, NEW a
               PROVE  Reader!GetNextFrameAddress(p, a) =
                          Trip!Reader!GetNextFrameAddress(p, a)
  OBVIOUS
<1>2. Reader!BusNext(p, a) = Trip!Reader!BusNext(p, a)
  BY DEF Reader!BusNext, Trip!Reader!BusNext, Reader!ColumnNext,
         Trip!Reader!ColumnNext, Reader!SameRow, Trip!Reader!SameRow,
         Reader!FirstOf, Trip!Reader!FirstOf, Reader!IfValid,
         Trip!Reader!IfValid, Reader!IsValidFrameAddress,
         Trip!Reader!IsValidFrameAddress, Reader!ColumnOf,
         Trip!Reader!ColumnOf, Reader!Following, Trip!Reader!Following,
         Reader!Address, Trip!Reader!Address
<1>3. Reader!RowNext(p, a) = Trip!Reader!RowNext(p, a)
  BY <1>2 DEF Reader!RowNext, Trip!Reader!RowNext, Reader!SameRow,
         Trip!Reader!SameRow
<1>4. Reader!GlobalClockRegionNext(p, a) =
          Trip!Reader!GlobalClockRegionNext(p, a)
  BY <1>3
     DEF Reader!GlobalClockRegionNext, Trip!Reader!GlobalClockRegionNext,
         Reader!FirstOf, Trip!Reader!FirstOf, Reader!IfValid,
         Trip!Reader!IfValid, Reader!IsValidFrameAddress,
         Trip!Reader!IsValidFrameAddress, Reader!ColumnOf,
         Trip!Reader!ColumnOf, Reader!Following, Trip!Reader!Following,
         Reader!Address, Trip!Reader!Address
<1>5. Reader!RowsNext(p, a) = Trip!Reader!RowsNext(p, a)
  BY <1>3
     DEF Reader!RowsNext, Trip!Reader!RowsNext, Reader!NumberedRow,
         Trip!Reader!NumberedRow, Reader!FirstOf, Trip!Reader!FirstOf,
         Reader!IfValid, Trip!Reader!IfValid, Reader!IsValidFrameAddress,
         Trip!Reader!IsValidFrameAddress, Reader!ColumnOf,
         Trip!Reader!ColumnOf, Reader!Following, Trip!Reader!Following,
         Reader!Address, Trip!Reader!Address
<1>6. /\ Reader!BottomHalfNext(p, a) = Trip!Reader!BottomHalfNext(p, a)
      /\ Reader!Spartan6BottomNext(p, a) =
             Trip!Reader!Spartan6BottomNext(p, a)
  BY DEF Reader!BottomHalfNext, Trip!Reader!BottomHalfNext,
         Reader!Spartan6BottomNext, Trip!Reader!Spartan6BottomNext,
         Reader!IfValid, Trip!Reader!IfValid, Reader!IsValidFrameAddress,
         Trip!Reader!IsValidFrameAddress, Reader!ColumnOf,
         Trip!Reader!ColumnOf, Reader!Address, Trip!Reader!Address
<1>7. Reader!BlockTypeNext(p, a) = Trip!Reader!BlockTypeNext(p, a)
  BY DEF Reader!BlockTypeNext, Trip!Reader!BlockTypeNext, Reader!BLOCK_RAM,
         Trip!Reader!BLOCK_RAM, Reader!CFG_CLB, Trip!Reader!CFG_CLB,
         Reader!FirstOf, Trip!Reader!FirstOf, Reader!IfValid,
         Trip!Reader!IfValid, Reader!IsValidFrameAddress,
         Trip!Reader!IsValidFrameAddress, Reader!ColumnOf,
         Trip!Reader!ColumnOf, Reader!Address, Trip!Reader!Address
<1>8. /\ Reader!Series7Next(p, a) = Trip!Reader!Series7Next(p, a)
      /\ Reader!Spartan6Next(p, a) = Trip!Reader!Spartan6Next(p, a)
  BY <1>4, <1>6, <1>7
     DEF Reader!Series7Next, Trip!Reader!Series7Next, Reader!Spartan6Next,
         Trip!Reader!Spartan6Next, Reader!FirstOf, Trip!Reader!FirstOf
<1>9. Reader!UltraScaleNext(p, a) = Trip!Reader!UltraScaleNext(p, a)
  BY <1>5, <1>7
     DEF Reader!UltraScaleNext, Trip!Reader!UltraScaleNext,
         Reader!NumberedRow, Trip!Reader!NumberedRow, Reader!FirstOf,
         Trip!Reader!FirstOf
<1>10. QED
  BY <1>8, <1>9 DEF Reader!GetNextFrameAddress, Trip!Reader!GetNextFrameAddress

\* Reading them back.
LEMMA SameReader ==
    /\ Reader!InitRegisters <=> Trip!Reader!InitRegisters
    /\ Reader!Next => Trip!Reader!Next
<1>1. Reader!InitRegisters <=> Trip!Reader!InitRegisters
  BY DEF Reader!InitRegisters, Trip!Reader!InitRegisters, Reader!ZeroAddress,
         Trip!Reader!ZeroAddress, Reader!Address, Trip!Reader!Address
<1>2. Reader!stream = Trip!Reader!stream /\ Reader!stream' = Trip!Reader!stream'
  BY DEF Reader!stream, Trip!Reader!stream
<1>3. /\ Reader!Fetched = Trip!Reader!Fetched
      /\ Reader!Interpreted = Trip!Reader!Interpreted
  BY DEF Reader!Fetched, Trip!Reader!Fetched, Reader!Interpreted,
         Trip!Reader!Interpreted
<1>4. Reader!Fetch => Trip!Reader!Fetch
  BY <1>2 DEF Reader!Fetch, Trip!Reader!Fetch
<1>5. \A register : Reader!Loads(register) => Trip!Reader!Loads(register)
  BY <1>3, <1>4 DEF Reader!Loads, Trip!Reader!Loads
<1>6. /\ Reader!far_state = Trip!Reader!far_state
      /\ Reader!far_state' = Trip!Reader!far_state'
      /\ Reader!burst_state = Trip!Reader!burst_state
      /\ Reader!burst_state' = Trip!Reader!burst_state'
  BY DEF Reader!far_state, Trip!Reader!far_state, Reader!burst_state,
         Trip!Reader!burst_state
<1>7. Reader!SkipPacket => Trip!Reader!SkipPacket
  BY <1>3, <1>4, <1>6 DEF Reader!SkipPacket, Trip!Reader!SkipPacket
<1>8. /\ Reader!WriteMASK => Trip!Reader!WriteMASK
      /\ Reader!WriteCTL1 => Trip!Reader!WriteCTL1
      /\ Reader!WriteCMD => Trip!Reader!WriteCMD
      /\ Reader!WriteIDCODE => Trip!Reader!WriteIDCODE
  BY <1>3, <1>5, <1>6
     DEF Reader!WriteMASK, Trip!Reader!WriteMASK, Reader!WriteCTL1,
         Trip!Reader!WriteCTL1, Reader!WriteCMD, Trip!Reader!WriteCMD,
         Reader!WriteIDCODE, Trip!Reader!WriteIDCODE, Reader!Bit21,
         Trip!Reader!Bit21, Reader!WCFG, Trip!Reader!WCFG
<1>9. Reader!WriteFAR => Trip!Reader!WriteFAR
  <2>1. \A arch, word :
            Reader!Unpacked(arch, word) = Trip!Reader!Unpacked(arch, word)
    BY DEF Reader!Unpacked, Trip!Reader!Unpacked, Reader!Address,
           Trip!Reader!Address, Reader!MinorCount, Trip!Reader!MinorCount
  <2>2. QED
    BY <1>3, <1>5, <1>6, <2>1
       DEF Reader!WriteFAR, Trip!Reader!WriteFAR, Reader!WCFG, Trip!Reader!WCFG
<1>10. Reader!BeginFDRI => Trip!Reader!BeginFDRI
  BY <1>3, <1>4, <1>6 DEF Reader!BeginFDRI, Trip!Reader!BeginFDRI
<1>11. Reader!StoreFrame => Trip!Reader!StoreFrame
  <2>1. \A a : Reader!GetNextFrameAddress(part, a) =
                   Trip!Reader!GetNextFrameAddress(part, a)
    BY ReaderGoesOn
  <2>2. \A a, next : Reader!CrossesRow(a, next) = Trip!Reader!CrossesRow(a, next)
    BY DEF Reader!CrossesRow, Trip!Reader!CrossesRow, Reader!SameRow,
           Trip!Reader!SameRow
  <2>3. /\ \A data, offset :
              Reader!Frame(data, offset) = Trip!Reader!Frame(data, offset)
        /\ \A map, key, value :
              Reader!Assign(map, key, value) = Trip!Reader!Assign(map, key, value)
    BY DEF Reader!Frame, Trip!Reader!Frame, Reader!Assign, Trip!Reader!Assign
  <2>4. QED
    BY <1>2, <1>6, <2>1, <2>2, <2>3 DEF Reader!StoreFrame, Trip!Reader!StoreFrame
<1>12. /\ Reader!EndFDRI => Trip!Reader!EndFDRI
       /\ Reader!Finish => Trip!Reader!Finish
  BY <1>2, <1>6 DEF Reader!EndFDRI, Trip!Reader!EndFDRI, Reader!Finish,
                    Trip!Reader!Finish
<1>13. QED
  BY <1>1, <1>7, <1>8, <1>9, <1>10, <1>11, <1>12
     DEF Reader!Next, Trip!Reader!Next, Reader!InitWithPackets,
         Trip!Reader!InitWithPackets

\* The walk over the addresses of a part.
LEMMA SameWalk == WalkedAddresses(part) = Trip!WalkedAddresses(part)
BY DEF Cardinality, Trip!Cardinality, WalkedAddresses, Trip!WalkedAddresses,
         ValidAddresses, Trip!ValidAddresses,
         ZeroAddress, Trip!ZeroAddress, GetNextFrameAddress,
         Trip!GetNextFrameAddress, Series7Next, Trip!Series7Next, Spartan6Next,
         Trip!Spartan6Next, UltraScaleNext, Trip!UltraScaleNext, FirstOf,
         Trip!FirstOf, BlockTypeNext, Trip!BlockTypeNext, BottomHalfNext,
         Trip!BottomHalfNext, Spartan6BottomNext, Trip!Spartan6BottomNext,
         RowsNext, Trip!RowsNext, NumberedRow, Trip!NumberedRow,
         GlobalClockRegionNext, Trip!GlobalClockRegionNext, RowNext,
         Trip!RowNext, BusNext, Trip!BusNext, ColumnNext, Trip!ColumnNext,
         IfValid, Trip!IfValid, IsValidFrameAddress, Trip!IsValidFrameAddress,
         ColumnOf, Trip!ColumnOf, Following, Trip!Following, Address,
         Trip!Address, BLOCK_RAM, Trip!BLOCK_RAM, CFG_CLB, Trip!CFG_CLB,
         SameRow, Trip!SameRow

\* The addresses that the container holds are those of the same part.
LEMMA SameHeld ==
    /\ ZeroAddress = Made!ZeroAddress
    /\ ValidAddresses(part) = Made!ValidAddresses(part)
    /\ WalkedAddresses(part) = Made!WalkedAddresses(part)
<1>2. ZeroAddress = Made!ZeroAddress
  BY DEF ZeroAddress, Made!ZeroAddress, Address, Made!Address
<1>3. ValidAddresses(part) = Made!ValidAddresses(part)
  BY DEF ValidAddresses, Made!ValidAddresses, IsValidFrameAddress,
         Made!IsValidFrameAddress, ColumnOf, Made!ColumnOf, Address, Made!Address
<1>4. WalkedAddresses(part) = Made!WalkedAddresses(part)
  BY DEF Cardinality, Made!Cardinality, WalkedAddresses, Made!WalkedAddresses,
         ValidAddresses, Made!ValidAddresses,
         ZeroAddress, Made!ZeroAddress, GetNextFrameAddress,
         Made!GetNextFrameAddress, Series7Next, Made!Series7Next, Spartan6Next,
         Made!Spartan6Next, UltraScaleNext, Made!UltraScaleNext, FirstOf,
         Made!FirstOf, BlockTypeNext, Made!BlockTypeNext, BottomHalfNext,
         Made!BottomHalfNext, Spartan6BottomNext, Made!Spartan6BottomNext,
         RowsNext, Made!RowsNext, NumberedRow, Made!NumberedRow,
         GlobalClockRegionNext, Made!GlobalClockRegionNext, RowNext,
         Made!RowNext, BusNext, Made!BusNext, ColumnNext, Made!ColumnNext,
         IfValid, Made!IfValid, IsValidFrameAddress, Made!IsValidFrameAddress,
         ColumnOf, Made!ColumnOf, Following, Made!Following, Address,
         Made!Address, BLOCK_RAM, Made!BLOCK_RAM, CFG_CLB, Made!CFG_CLB,
         SameRow, Made!SameRow
<1>5. QED
  BY <1>2, <1>3, <1>4

\* Writing the bytes of the packets, and taking packets from them.
LEMMA SameWire ==
    /\ File!InitWriter => Wire!Writer!InitWriter
    /\ File!writeBitstream => Wire!Writer!writeBitstream
    /\ Parser!InitReader => Wire!Reader!InitReader
    /\ Parser!ReaderNext => Wire!Reader!ReaderNext
    /\ File!LongCountSize = Wire!LongCountSize
<1>1. /\ File!InitWriter => Wire!Writer!InitWriter
      /\ Parser!InitReader => Wire!Reader!InitReader
  BY DEF File!InitWriter, Wire!Writer!InitWriter, Parser!InitReader,
         Wire!Reader!InitReader
<1>2. /\ File!LongCountSize = Wire!Writer!LongCountSize
      /\ Parser!LongCountSize = Wire!Reader!LongCountSize
      /\ File!LongCountSize = Wire!LongCountSize
  BY DEF File!LongCountSize, Wire!Writer!LongCountSize, Wire!LongCountSize,
         Parser!LongCountSize, Wire!Reader!LongCountSize
<1>3. \A p : File!packet2header(p) = Wire!Writer!packet2header(p)
  BY <1>2
     DEF File!packet2header, Wire!Writer!packet2header, File!Header,
         Wire!Writer!Header, File!ShortFields, Wire!Writer!ShortFields,
         File!LongFields, Wire!Writer!LongFields, File!NONE, Wire!Writer!NONE,
         File!TYPE1, Wire!Writer!TYPE1, File!TYPE2, Wire!Writer!TYPE2
<1>4. \A bytes : File!Put(bytes) <=> Wire!Writer!Put(bytes)
  BY DEF File!Put, Wire!Writer!Put
<1>5. \A word : File!BytesOf(word) = Wire!Writer!BytesOf(word)
  BY DEF File!BytesOf, Wire!Writer!BytesOf
<1>6. File!FailToOpen => Wire!Writer!FailToOpen
  BY DEF File!FailToOpen, Wire!Writer!FailToOpen
<1>7. File!PutFileHeader => Wire!Writer!PutFileHeader
  BY <1>4 DEF File!PutFileHeader, Wire!Writer!PutFileHeader
<1>8. File!PutHeaderWord => Wire!Writer!PutHeaderWord
  BY <1>4 DEF File!PutHeaderWord, Wire!Writer!PutHeaderWord
<1>9. /\ File!InPacket <=> Wire!Writer!InPacket
      /\ File!PacketBegin <=> Wire!Writer!PacketBegin
      /\ File!Data = Wire!Writer!Data
  BY DEF File!InPacket, Wire!Writer!InPacket, File!PacketBegin,
         Wire!Writer!PacketBegin, File!Data, Wire!Writer!Data
<1>10. File!PutPacketHeader => Wire!Writer!PutPacketHeader
  BY <1>3, <1>4, <1>5, <1>9 DEF File!PutPacketHeader, Wire!Writer!PutPacketHeader
<1>11. File!PutData => Wire!Writer!PutData
  BY <1>4, <1>5, <1>9 DEF File!PutData, Wire!Writer!PutData
<1>12. File!PatchLength => Wire!Writer!PatchLength
  BY <1>5 DEF File!PatchLength, Wire!Writer!PatchLength
<1>13. File!writeBitstream => Wire!Writer!writeBitstream
  BY <1>6, <1>7, <1>8, <1>10, <1>11, <1>12
     DEF File!writeBitstream, Wire!Writer!writeBitstream
<1>14. \A input, last :
          Parser!InitWithWords(input, last) =
              Wire!Reader!InitWithWords(input, last)
  <2>1. /\ \A input : Parser!ParsePadding(input) = Wire!Reader!ParsePadding(input)
        /\ \A input : Parser!ParseType1(input) = Wire!Reader!ParseType1(input)
    BY DEF Parser!ParsePadding, Wire!Reader!ParsePadding, Parser!ParseType1,
           Wire!Reader!ParseType1, Parser!Result, Wire!Reader!Result,
           Parser!Packet, Wire!Reader!Packet, Parser!HasAll, Wire!Reader!HasAll,
           Parser!After, Wire!Reader!After, Parser!DataOf, Wire!Reader!DataOf,
           Parser!ShortCount, Wire!Reader!ShortCount, Parser!OpcodeOf,
           Wire!Reader!OpcodeOf, Parser!AddressOf, Wire!Reader!AddressOf,
           Parser!LongCountSize, Wire!Reader!LongCountSize, Parser!NONE,
           Wire!Reader!NONE, Parser!TYPE1, Wire!Reader!TYPE1, Parser!NOP,
           Wire!Reader!NOP, Parser!CRC, Wire!Reader!CRC
  <2>2. \A input, last :
           Parser!ParseType2(input, last) = Wire!Reader!ParseType2(input, last)
    BY DEF Parser!ParseType2, Wire!Reader!ParseType2, Parser!Result,
           Wire!Reader!Result, Parser!Packet, Wire!Reader!Packet, Parser!HasAll,
           Wire!Reader!HasAll, Parser!After, Wire!Reader!After, Parser!DataOf,
           Wire!Reader!DataOf, Parser!LongCount, Wire!Reader!LongCount,
           Parser!OpcodeOf, Wire!Reader!OpcodeOf, Parser!LongCountSize,
           Wire!Reader!LongCountSize, Parser!TYPE2, Wire!Reader!TYPE2
  <2>3. \A word : Parser!HeaderType(word) = Wire!Reader!HeaderType(word)
    BY DEF Parser!HeaderType, Wire!Reader!HeaderType, Parser!LongCountSize,
           Wire!Reader!LongCountSize
  <2>4. QED
    BY <2>1, <2>2, <2>3
       DEF Parser!InitWithWords, Wire!Reader!InitWithWords, Parser!Result,
           Wire!Reader!Result, Parser!NONE, Wire!Reader!NONE, Parser!TYPE1,
           Wire!Reader!TYPE1, Parser!TYPE2, Wire!Reader!TYPE2
<1>15. /\ Parser!SyncOffsets = Wire!Reader!SyncOffsets
       /\ Parser!Payload = Wire!Reader!Payload
       /\ Parser!kBytesPerElement = Wire!Reader!kBytesPerElement
       /\ \A bytes : Parser!WordsOf(bytes) = Wire!Reader!WordsOf(bytes)
  BY DEF Parser!SyncOffsets, Wire!Reader!SyncOffsets, Parser!Payload,
         Wire!Reader!Payload, Parser!kBytesPerElement,
         Wire!Reader!kBytesPerElement, Parser!WordsOf, Wire!Reader!WordsOf,
         Parser!BigEndian, Wire!Reader!BigEndian, Parser!kSyncWord,
         Wire!Reader!kSyncWord
<1>16. Parser!ReaderNext => Wire!Reader!ReaderNext
  BY <1>14, <1>15
     DEF Parser!ReaderNext, Wire!Reader!ReaderNext, Parser!FindNoSync,
         Wire!Reader!FindNoSync, Parser!AbortOnPartialWord,
         Wire!Reader!AbortOnPartialWord, Parser!Begin, Wire!Reader!Begin,
         Parser!StopAtIncomplete, Wire!Reader!StopAtIncomplete, Parser!Advance,
         Wire!Reader!Advance, Parser!Yield, Wire!Reader!Yield, Parser!End,
         Wire!Reader!End
<1>17. QED
  BY <1>1, <1>2, <1>13, <1>16

-----------------------------------------------------------------------------
(***************************************************************************)
(* Each part of xcframes2bit and of its reader starts when the one before  *)
(* it has ended, and then works on what that one has made.                 *)
(***************************************************************************)
Untouched == File!InitWriter /\ Parser!InitReader

TripInv ==
    /\ part \in Parts
    /\ Made!TypeOK /\ Made!WalkInv /\ Made!HeldInv /\ Made!CollectInv
    /\ frames_pc # "complete" => writer_pc = "idle"
    /\ Trip!WriterInv
    /\ room \in 0..LargestFile
    /\ writer_pc # "packaged" => Untouched
    /\ Untouched \/ (Wire!WriterInv /\ Wire!FirstPartInv)
    /\ parser_pc # "done" => Reader!InitRegisters
    /\ parser_pc = "done" => Trip!ReaderInv \/ Reader!InitRegisters

\* There is a part, and it is not a Spartan-6.
LEMMA PartIsPart ==
    ASSUME part \in Parts
    PROVE  /\ Made!IsPart(part) /\ Trip!IsPart(part) /\ IsPart(part)
           /\ part.arch \in {"Series7", "UltraScale", "UltraScalePlus"}
<1>1. Made!FramesConstants /\ part.arch # "Spartan6"
  BY Frames2BitAssumption, SameFile
<1>2. Made!IsPart(part)
  BY <1>1 DEF Made!FramesConstants
<1>3. Trip!IsPart(part) /\ IsPart(part)
  BY <1>2, SameParts
<1>4. part.arch \in Architectures
  BY <1>3 DEF IsPart
<1>5. QED
  BY <1>1, <1>2, <1>3, <1>4 DEF Architectures

\* Nothing has been collected, written or read at first.
LEMMA InitTripInv == Init => TripInv
<1>1. SUFFICES ASSUME Init PROVE TripInv
  OBVIOUS
<1>2. Made!FramesConstants
  BY Frames2BitAssumption, SameFile
<1>3. Container!Init /\ Made!Init
  BY <1>1, SameFile DEF Init
<1>4. Made!TypeOK
  BY <1>2, <1>3, Made!InitTypeOK
<1>5. Made!WalkInv
  BY <1>2, <1>3, Made!InitWalkInv
<1>6. Made!HeldInv
  BY <1>2, <1>3, Made!InitHeldInv
<1>7. Made!CollectInv
  BY <1>2, <1>3, Made!InitCollectInv
<1>8. part \in Parts /\ frm_file \in FrmFiles(part)
  BY <1>3 DEF Container!Init
<1>9. Trip!WriterInv /\ writer_pc = "idle"
  BY <1>1, SameWriter, Trip!InitWriterInv DEF Init, Writer!InitWriter
<1>10. room \in 0..LargestFile
  BY <1>1, <1>8, Frames2BitAssumption DEF Init
<1>11. Untouched /\ parser_pc # "done" /\ Reader!InitRegisters
  BY <1>1 DEF Init, Untouched, Parser!InitReader
<1>12. QED
  BY <1>4, <1>5, <1>6, <1>7, <1>8, <1>9, <1>10, <1>11 DEF TripInv

\* The frames are whole at any time.
LEMMA FramesAreWhole == TripInv => Trip!Framed /\ part.arch # "Spartan6"
<1>1. SUFFICES ASSUME TripInv PROVE Trip!Framed /\ part.arch # "Spartan6"
  OBVIOUS
<1>2. /\ WordsPerFrame \in Nat \ {0} /\ Word \subseteq Nat
      /\ part.arch # "Spartan6" /\ Trip!IsPart(part)
  <2>1. Made!FramesConstants
    BY Frames2BitAssumption, SameFile
  <2>2. QED
    BY <1>1, <2>1, PartIsPart DEF TripInv, Made!FramesConstants
<1>3. /\ DOMAIN frames_data \subseteq Made!FrameAddress
      /\ \A a \in DOMAIN frames_data :
             frames_data[a] \in [1..WordsPerFrame -> Word]
  BY <1>1, <1>2 DEF TripInv, Made!TypeOK, Made!FramesOf, Made!FrameData
<1>4. ASSUME NEW f \in [1..WordsPerFrame -> Word]
      PROVE  f \in Seq(Nat) /\ Len(f) = WordsPerFrame
  <2>1. PICK n \in Nat : n = WordsPerFrame
    BY <1>2
  <2>2. f \in [1..n -> Nat]
    BY <1>2, <1>4, <2>1
  <2>3. f \in Seq(Nat) /\ Len(f) = n
    BY <2>2
  <2>4. QED
    BY <2>1, <2>3
<1>5. frames_data = [a \in DOMAIN frames_data |-> frames_data[a]]
  BY <1>1 DEF TripInv, Made!CollectInv
<1>6. QED
  BY <1>2, <1>3, <1>4, <1>5, SameParts DEF Trip!Framed

\* The packets by numbers.
LEMMA NumbersArePackets ==
    ASSUME Trip!WriterInv, writer_pc = "packaged"
    PROVE  /\ packets \in Seq(Trip!PackagePacket)
           /\ Numbered(packets) \in Packages
           /\ Len(Numbered(packets)) = Len(packets)
           /\ \A i \in 1..Len(packets) :
                 Numbered(packets)[i] =
                    [packets[i] EXCEPT !.opcode = OpcodeNumber[@],
                                       !.address = RegisterNumber[@]]
<1>1. packets \in Seq(Trip!PackagePacket)
  BY Frames2BitAssumption, Trip!PackageShape
<1>2. \A o \in Trip!Opcodes : OpcodeNumber[o] \in 0..3
  BY DEF Trip!Opcodes, OpcodeNumber
<1>3. \A r \in Trip!NamedRegisters : RegisterNumber[r] \in 0..AddressSize - 1
  <2>1. \A r \in Trip!NamedRegisters : RegisterNumber[r] \in 0..31
    BY DEF Trip!NamedRegisters, Trip!RegisterNumber, RegisterNumber
  <2>2. 0..31 \subseteq 0..AddressSize - 1
    BY DEF AddressSize
  <2>3. QED
    BY <2>1, <2>2
<1>4. ASSUME NEW p \in Trip!PackagePacket
      PROVE  [p EXCEPT !.opcode = OpcodeNumber[@], !.address = RegisterNumber[@]]
                 \in NumberedPacket
  <2>1. /\ p = [header_type |-> p.header_type, opcode |-> p.opcode,
                address |-> p.address, data |-> p.data]
        /\ p.header_type \in {0, 1, 2} /\ p.data \in Seq(Nat)
        /\ OpcodeNumber[p.opcode] \in 0..3
        /\ RegisterNumber[p.address] \in 0..AddressSize - 1
    BY <1>2, <1>3 DEF Trip!PackagePacket
  <2>2. [p EXCEPT !.opcode = OpcodeNumber[@], !.address = RegisterNumber[@]] =
            [header_type |-> p.header_type, opcode |-> OpcodeNumber[p.opcode],
             address |-> RegisterNumber[p.address], data |-> p.data]
    <3>1. PICK t, d : t = p.header_type /\ d = p.data
      OBVIOUS
    <3>2. PICK o, r : o = OpcodeNumber[p.opcode] /\ r = RegisterNumber[p.address]
      OBVIOUS
    <3>3. PICK a : a = p.address
      OBVIOUS
    <3>4. PICK q : q = [p EXCEPT !.opcode = o]
      OBVIOUS
    <3>5. q = [header_type |-> t, opcode |-> o, address |-> a, data |-> d]
      <4>1. p = [header_type |-> t, opcode |-> p.opcode, address |-> a,
                data |-> d]
        BY <2>1, <3>1, <3>3
      <4>2. QED
        BY <3>4, <4>1
    <3>6. [q EXCEPT !.address = r] =
              [header_type |-> t, opcode |-> o, address |-> r, data |-> d]
      BY <3>5
    <3>7. QED
      BY <3>1, <3>2, <3>4, <3>6
  <2>3. QED
    BY <2>1, <2>2 DEF NumberedPacket
<1>5. /\ DOMAIN packets = 1..Len(packets) /\ Len(packets) \in Nat
      /\ \A i \in 1..Len(packets) : packets[i] \in Trip!PackagePacket
  BY <1>1
<1>6. ASSUME NEW i \in 1..Len(packets)
      PROVE Numbered(packets)[i] \in NumberedPacket
  BY <1>4, <1>5 DEF Numbered
<1>7. /\ DOMAIN Numbered(packets) = 1..Len(packets)
      /\ \A i \in 1..Len(packets) :
            Numbered(packets)[i] =
               [packets[i] EXCEPT !.opcode = OpcodeNumber[@],
                                  !.address = RegisterNumber[@]]
      /\ Numbered(packets) = [i \in 1..Len(packets) |-> Numbered(packets)[i]]
  BY <1>5 DEF Numbered
<1>8. PICK n \in Nat : n = Len(packets)
  BY <1>5
<1>9. PICK numbered : numbered = Numbered(packets)
  OBVIOUS
<1>10. numbered = [i \in 1..n |-> numbered[i]]
       /\ \A i \in 1..n : numbered[i] \in NumberedPacket
  BY <1>6, <1>7, <1>8, <1>9
<1>11. numbered \in [1..n -> NumberedPacket]
  BY <1>10
<1>12. numbered \in Seq(NumberedPacket) /\ Len(numbered) = n
  BY <1>11
<1>13. QED
  BY <1>1, <1>7, <1>8, <1>9, <1>12 DEF Packages

\* The file is written from the packets, when they are there.
LEMMA FileBegins ==
    ASSUME TripInv, writer_pc = "packaged"
    PROVE  Wire!WriterInv /\ Wire!FirstPartInv
<1>1. SUFFICES ASSUME Untouched PROVE Wire!WriterInv /\ Wire!FirstPartInv
  BY DEF TripInv
<1>2. header_ \in FixedHeaders
  <2>1. part.arch \in {"Series7", "UltraScale", "UltraScalePlus"}
    BY PartIsPart DEF TripInv
  <2>2. QED
    BY <2>1 DEF header_, FixedHeaders
<1>3. Numbered(packets) \in Packages
  BY NumbersArePackets DEF TripInv
<1>4. room \in AnyRoom(Numbered(packets))
  BY DEF TripInv, AnyRoom
<1>5. Wire!Init
  BY <1>1, <1>2, <1>3, <1>4, SameWire DEF Wire!Init, Untouched
<1>6. Wire!WriterInv
  BY <1>5, WireFields, WireHeaders, WireSync, Wire!InitWriterInv
<1>7. Wire!FirstPartInv
  BY <1>5, WireFields, WireHeaders, WireSync, Wire!InitFirstPartInv
<1>8. QED
  BY <1>6, <1>7

\* Every step of the file and its parser keeps what is known of them.
LEMMA FileGoesOn ==
    ASSUME Wire!WriterInv, Wire!FirstPartInv, [Wire!Next]_(Wire!vars)
    PROVE  Wire!WriterInv' /\ Wire!FirstPartInv'
<1>1. Wire!WriterInv'
  BY WireFields, WireHeaders, WireSync, Wire!NextWriterInv
<1>2. Wire!FirstPartInv'
  BY WireFields, WireHeaders, WireSync, Wire!NextFirstPartInv
<1>3. QED
  BY <1>1, <1>2

-----------------------------------------------------------------------------
(***************************************************************************)
(* The words of the file can say the packets, so that they are read as     *)
(* they were written, as far as the file goes.                             *)
(***************************************************************************)

\* A name is the name of its number.
LEMMA NamesOfNumbers ==
    /\ \A o \in Opcodes : OpcodeName[OpcodeNumber[o]] = o
    /\ \A r \in DOMAIN RegisterNumber : RegisterOf(RegisterNumber[r]) = r
<1>1. ASSUME NEW o \in Opcodes PROVE OpcodeName[OpcodeNumber[o]] = o
  <2>1. OpcodeNumber[o] \in 0..3
    BY DEF Opcodes, OpcodeNumber
  <2>2. \A other \in Opcodes : OpcodeNumber[other] = OpcodeNumber[o] => other = o
    BY DEF Opcodes, OpcodeNumber
  <2>3. PICK n \in 0..3 : n = OpcodeNumber[o]
    BY <2>1
  <2>4. (CHOOSE other \in Opcodes : OpcodeNumber[other] = n) = o
    BY <2>2, <2>3
  <2>5. QED
    BY <2>3, <2>4 DEF OpcodeName
<1>2. ASSUME NEW r \in DOMAIN RegisterNumber
      PROVE RegisterOf(RegisterNumber[r]) = r
  <2>1. ASSUME NEW other \in DOMAIN RegisterNumber,
               RegisterNumber[other] = RegisterNumber[r]
        PROVE  other = r
    BY <2>1 DEF RegisterNumber
  <2>2. PICK n : n = RegisterNumber[r]
    OBVIOUS
  <2>3. (CHOOSE other \in DOMAIN RegisterNumber : RegisterNumber[other] = n) = r
    BY <2>1, <2>2
  <2>4. n \in {RegisterNumber[other] : other \in DOMAIN RegisterNumber}
    BY <2>2
  <2>5. RegisterOf(n) = r
    BY <2>3, <2>4 DEF RegisterOf, RegisterName
  <2>6. QED
    BY <2>2, <2>5
<1>3. QED
  BY <1>1, <1>2

\* A type 2 header can count the words of all frames.
LEMMA WordsCanBeCounted ==
    ASSUME TripInv, writer_pc = "packaged"
    PROVE  Len(packet_data) \in Nat /\ Len(packet_data) < Wire!LongCountSize
<1> DEFINE c == Cardinality(ValidAddresses(part))
           l == Len(packet_data)
           most == Wire!LongCountSize
           few == (3 * c + 5) * WordsPerFrame
<1>1. Trip!Framed /\ Trip!WriterInv
  BY FramesAreWhole DEF TripInv
<1>2. /\ Cardinality(ValidAddresses(part)) =
             Trip!Cardinality(Trip!ValidAddresses(part))
      /\ ValidAddresses(part) = Trip!ValidAddresses(part)
      /\ ZeroAddress = Trip!ZeroAddress
  BY DEF Cardinality, Trip!Cardinality, ValidAddresses, Trip!ValidAddresses,
         IsValidFrameAddress, Trip!IsValidFrameAddress, ColumnOf, Trip!ColumnOf,
         ZeroAddress, Trip!ZeroAddress, Address, Trip!Address
<1>3. DOMAIN frames_data \subseteq Made!ValidAddresses(part)
          \union {Made!ZeroAddress}
  <2>1. SUFFICES ASSUME NEW a \in DOMAIN frames_data
                 PROVE  a \in Made!ValidAddresses(part) \union {Made!ZeroAddress}
    OBVIOUS
  <2>2. /\ a \in Made!FrameAddress /\ Made!IsPart(part)
        /\ Made!IsValidFrameAddress(part, a) \/ a = Made!ZeroAddress
    BY DEF TripInv, Made!TypeOK, Made!HeldInv
  <2>3. a \in Made!ValidAddresses(part) <=> Made!IsValidFrameAddress(part, a)
    <3>1. Made!FramesConstants
      BY Frames2BitAssumption, SameFile
    <3>2. QED
      BY <2>2, <3>1, Made!ListedIsValid
  <2>4. QED
    BY <2>2, <2>3
<1>4. DOMAIN frames_data \subseteq Trip!ValidAddresses(part)
          \union {Trip!ZeroAddress}
  BY <1>2, <1>3, SameHeld
<1>5. /\ l \in Nat
      /\ l <= (3 * Trip!Cardinality(Trip!ValidAddresses(part)) + 5) * WordsPerFrame
  BY <1>1, <1>4, Trip!WordsAreFew
<1>6. l \in Nat /\ l <= few
  BY <1>2, <1>5
<1>7. few < most
  BY Frames2BitAssumption, SameWire DEF TripInv
<1>8. few \in Nat /\ most \in Nat
  <2>1. c \in Nat
    <3>1. Trip!Cardinality(Trip!ValidAddresses(part)) \in Nat
      BY PartIsPart, Trip!CountIsNat DEF TripInv
    <3>2. QED
      BY <1>2, <3>1
  <2> HIDE DEF c
  <2>2. few \in Nat
    BY <1>1, <2>1 DEF Trip!Framed
  <2>3. most \in Nat
    <3>1. /\ AddressSize \in Nat /\ ReservedSize \in Nat /\ CountSize \in Nat
      BY WireFields
    <3>2. QED
      BY <3>1 DEF Wire!LongCountSize
  <2>4. QED
    BY <2>2, <2>3
<1> HIDE DEF l, few, most
<1>9. l < most
  BY <1>6, <1>7, <1>8
<1>10. QED
  BY <1>6, <1>9 DEF l, most

\* So the words can say all packets.
LEMMA PacketsAreSayable ==
    ASSUME TripInv, writer_pc = "packaged"
    PROVE  Wire!Sayable(Numbered(packets))
<1> DEFINE numbered == Numbered(packets)
<1>1. /\ packets \in Seq(Trip!PackagePacket)
      /\ \A i \in 1..Len(packets) :
            /\ packets[i].header_type = 1 => Len(packets[i].data) <= 1
            /\ packets[i].header_type = 2 =>
                   /\ packets[i].data = packet_data
                   /\ i > 1 /\ packets[i - 1].address = packets[i].address
  BY Frames2BitAssumption, Trip!PackageShape DEF TripInv
<1>2. /\ numbered \in Packages /\ Len(numbered) = Len(packets)
      /\ \A i \in 1..Len(packets) :
            numbered[i] = [packets[i] EXCEPT !.opcode = OpcodeNumber[@],
                                             !.address = RegisterNumber[@]]
  BY NumbersArePackets DEF TripInv
<1>3. Len(packets) \in Nat /\ \A i \in 1..Len(packets) :
          packets[i] \in Trip!PackagePacket
  BY <1>1
<1>4. ASSUME NEW i \in 1..Len(packets)
      PROVE  /\ numbered[i].header_type = packets[i].header_type
             /\ numbered[i].header_type \in {1, 2}
             /\ numbered[i].address = RegisterNumber[packets[i].address]
             /\ numbered[i].data = packets[i].data
             /\ packets[i].data \in Seq(Nat)
  <2>1. packets[i] \in Trip!PackagePacket
    BY <1>3
  <2>2. PICK p \in Trip!PackagePacket : p = packets[i]
    BY <2>1
  <2>3. PICK q : q = numbered[i]
    OBVIOUS
  <2>4. PICK o, r : o = OpcodeNumber[p.opcode] /\ r = RegisterNumber[p.address]
    OBVIOUS
  <2>5. q = [p EXCEPT !.opcode = o, !.address = r]
    BY <1>2, <2>2, <2>3, <2>4, Zenon
  <2>6. q.header_type = p.header_type /\ q.data = p.data /\ q.address = r
    BY <2>5 DEF Trip!PackagePacket
  <2>7. p.header_type \in {1, 2} /\ p.data \in Seq(Nat)
    BY DEF Trip!PackagePacket
  <2>8. QED
    BY <2>2, <2>3, <2>4, <2>6, <2>7
<1>5. numbered \in Seq(Wire!ConfigurationPacket)
  BY <1>2, WireHeaders
<1>6. DOMAIN numbered = 1..Len(packets)
  <2>1. Len(numbered) = Len(packets)
    BY <1>2, Zenon
  <2> HIDE DEF numbered
  <2>2. DOMAIN numbered = 1..Len(numbered)
    BY <1>5
  <2>3. QED
    BY <2>1, <2>2
<1>7. /\ Wire!NONE = 0 /\ Wire!TYPE1 = 1 /\ Wire!TYPE2 = 2
      /\ CountSize \in Nat /\ CountSize > 1
  BY SMT DEF Wire!NONE, Wire!TYPE1, Wire!TYPE2, CountSize
<1> HIDE DEF numbered
<1>8. ASSUME NEW i \in DOMAIN numbered PROVE Wire!IsSayable(numbered, i)
  <2>1. i \in 1..Len(packets)
    BY <1>6
  <2>2. /\ numbered[i].header_type = packets[i].header_type
        /\ numbered[i].header_type \in {1, 2}
        /\ numbered[i].data = packets[i].data
        /\ packets[i].data \in Seq(Nat)
    BY <1>4, <2>1
  <2>3. CASE packets[i].header_type = 1
    <3>1. Len(numbered[i].data) < CountSize
      <4>1. Len(packets[i].data) <= 1 /\ Len(packets[i].data) \in Nat
        BY <1>1, <2>1, <2>2, <2>3
      <4>2. QED
        BY <1>7, <2>2, <4>1
    <3>2. QED
      BY <1>7, <2>2, <2>3, <3>1 DEF Wire!IsSayable
  <2>4. CASE packets[i].header_type = 2
    <3>1. /\ packets[i].data = packet_data
          /\ i > 1 /\ packets[i - 1].address = packets[i].address
      BY <1>1, <2>1, <2>4
    <3>2. i - 1 \in 1..Len(packets)
      BY <1>3, <2>1, <3>1
    <3>3. numbered[i - 1].address = numbered[i].address
      BY <1>4, <2>1, <3>1, <3>2
    <3>4. Len(numbered[i].data) < Wire!LongCountSize
      BY <2>2, <3>1, WordsCanBeCounted
    <3>5. QED
      BY <1>7, <2>2, <2>4, <3>1, <3>3, <3>4 DEF Wire!IsSayable
  <2>5. QED
    BY <2>2, <2>3, <2>4
<1>9. Wire!Sayable(numbered) <=>
          \A i \in DOMAIN numbered : Wire!IsSayable(numbered, i)
  BY <1>5, WireFields, WireHeaders, WireSync, Wire!SayableMeans
<1>10. QED
  BY <1>8, <1>9 DEF numbered

\* What has been read are the first packets, all of them if the file is whole.
LEMMA FirstPacketsAreRead ==
    ASSUME TripInv, parser_pc = "done"
    PROVE  /\ writer_pc = "packaged"
           /\ Trip!FirstPackets
           /\ good => Len(Named(yielded)) = Len(packets)
<1>1. writer_pc = "packaged"
  BY DEF TripInv, Untouched, Parser!InitReader
<1>2. Wire!IsFirstPart(yielded) /\ (good => Len(yielded) = Len(Numbered(packets)))
  <2>1. Wire!FirstPartInv /\ Wire!Sayable(Numbered(packets))
    BY <1>1, FileBegins, PacketsAreSayable
  <2>2. QED
    BY <2>1 DEF Wire!FirstPartInv
<1>3. /\ packets \in Seq(Trip!PackagePacket)
      /\ Len(Numbered(packets)) = Len(packets)
      /\ \A i \in 1..Len(packets) :
            Numbered(packets)[i] =
               [packets[i] EXCEPT !.opcode = OpcodeNumber[@],
                                  !.address = RegisterNumber[@]]
  BY <1>1, NumbersArePackets DEF TripInv
<1>4. /\ yielded \in Seq(Wire!ConfigurationPacket)
      /\ Len(yielded) <= Len(packets)
      /\ \A i \in 1..Len(yielded) : yielded[i] = Numbered(packets)[i]
  BY <1>2, <1>3, Zenon DEF Wire!IsFirstPart
<1>5. /\ Len(yielded) \in Nat /\ DOMAIN yielded = 1..Len(yielded)
      /\ Len(packets) \in Nat
      /\ \A i \in 1..Len(packets) : packets[i] \in Trip!PackagePacket
  <2>1. Len(yielded) \in Nat /\ DOMAIN yielded = 1..Len(yielded)
    BY <1>4
  <2>2. /\ Len(packets) \in Nat
        /\ \A i \in 1..Len(packets) : packets[i] \in Trip!PackagePacket
    <3>1. packets \in Seq(Trip!PackagePacket)
      BY <1>3, Zenon
    <3>2. QED
      BY <3>1
  <2>3. QED
    BY <2>1, <2>2
<1>6. /\ Len(Named(yielded)) = Len(yielded)
      /\ \A i \in 1..Len(yielded) :
            Named(yielded)[i] = [opcode |-> OpcodeName[yielded[i].opcode],
                                 address |-> RegisterOf(yielded[i].address),
                                 data |-> yielded[i].data]
  BY <1>5 DEF Named
<1>7. ASSUME NEW i \in 1..Len(yielded)
      PROVE  /\ Named(yielded)[i].opcode = packets[i].opcode
             /\ Named(yielded)[i].address = packets[i].address
             /\ Named(yielded)[i].data = packets[i].data
  <2>1. i \in 1..Len(packets)
    BY <1>4, <1>5
  <2>2. PICK p \in Trip!PackagePacket : p = packets[i]
    BY <1>5, <2>1
  <2>3. PICK q : q = yielded[i]
    OBVIOUS
  <2>4. PICK o, r : o = OpcodeNumber[p.opcode] /\ r = RegisterNumber[p.address]
    OBVIOUS
  <2>5. q = [p EXCEPT !.opcode = o, !.address = r]
    <3>1. q = Numbered(packets)[i]
      BY <1>4, <2>3, Zenon
    <3>2. Numbered(packets)[i] =
              [packets[i] EXCEPT !.opcode = OpcodeNumber[@],
                                 !.address = RegisterNumber[@]]
      BY <1>3, <2>1
    <3>3. QED
      BY <2>2, <2>4, <3>1, <3>2, Zenon
  <2>6. q.opcode = o /\ q.address = r /\ q.data = p.data
    BY <2>5 DEF Trip!PackagePacket
  <2>7. p.opcode \in Opcodes /\ p.address \in DOMAIN RegisterNumber
    BY DEF Trip!PackagePacket, Trip!Opcodes, Opcodes, Trip!NamedRegisters,
           Trip!RegisterNumber, RegisterNumber
  <2>8. OpcodeName[o] = p.opcode /\ RegisterOf(r) = p.address
    BY <2>4, <2>7, NamesOfNumbers
  <2>9. PICK m : m = Named(yielded)[i]
    OBVIOUS
  <2>10. m = [opcode |-> OpcodeName[q.opcode], address |-> RegisterOf(q.address),
              data |-> q.data]
    BY <1>6, <2>3, <2>9
  <2>11. m.opcode = p.opcode /\ m.address = p.address /\ m.data = p.data
    BY <2>6, <2>8, <2>10
  <2>12. QED
    BY <2>2, <2>9, <2>11
<1>8. Trip!FirstPackets
  BY <1>4, <1>5, <1>6, <1>7 DEF Trip!FirstPackets
<1>9. good => Len(Named(yielded)) = Len(packets)
  BY <1>2, <1>3, <1>6
<1>10. QED
  BY <1>1, <1>8, <1>9

\* The interpreter begins with the packets that have been read.
LEMMA BeginsToInterpret ==
    ASSUME TripInv, parser_pc = "done" PROVE Trip!ReaderInv
<1>1. SUFFICES ASSUME Reader!InitRegisters PROVE Trip!ReaderInv
  BY DEF TripInv
<1>2. Trip!Framed /\ Trip!WriterInv /\ IdCode \in Nat
  BY Frames2BitAssumption, FramesAreWhole DEF TripInv
<1>3. writer_pc = "packaged" /\ Trip!FirstPackets
  BY FirstPacketsAreRead
<1>4. QED
  BY <1>1, <1>2, <1>3, SameReader, Trip!InitReaderInv

\* What the steps of the parts leave alone.
LEMMA PartsLeave ==
    /\ Made!Next => part' = part /\ frames_pc # "complete"
    /\ Trip!WriterNext => part' = part /\ writer_pc # "packaged"
    /\ Trip!Reader!Next => Trip!Reader!stream' = Trip!Reader!stream
    /\ Parser!ReaderNext => parser_pc # "done"
<1>1. Made!Next => part' = part /\ frames_pc # "complete"
  BY DEF Made!Next, Made!readFrames, Made!FailToOpen, Made!SkipComment,
         Made!AbortOnMalformedLine, Made!RejectUnknownAddress,
         Made!SkipWrongWordCount, Made!InsertFrame, Made!EndOfFile,
         Made!GetLine, Made!addMissingFrames, Made!BeginAddMissing,
         Made!AddMissing
<1>2. Trip!WriterNext => part' = part /\ writer_pc # "packaged"
  BY DEF Trip!WriterNext, Trip!createConfigurationPackage,
         Trip!createType2ConfigurationPacketData, Trip!BeginPacking,
         Trip!PackFrame, Trip!EndPacking
<1>3. Trip!Reader!Next => Trip!Reader!stream' = Trip!Reader!stream
  BY DEF Trip!Reader!Next, Trip!Reader!InitWithPackets, Trip!Reader!SkipPacket,
         Trip!Reader!WriteMASK, Trip!Reader!WriteCTL1, Trip!Reader!WriteCMD,
         Trip!Reader!WriteIDCODE, Trip!Reader!WriteFAR, Trip!Reader!BeginFDRI,
         Trip!Reader!StoreFrame, Trip!Reader!EndFDRI, Trip!Reader!Finish,
         Trip!Reader!Loads, Trip!Reader!Fetch
<1>4. Parser!ReaderNext => parser_pc # "done"
  BY DEF Parser!ReaderNext, Parser!FindNoSync, Parser!AbortOnPartialWord,
         Parser!Begin, Parser!StopAtIncomplete, Parser!Advance, Parser!Yield,
         Parser!End
<1>5. QED
  BY <1>1, <1>2, <1>3, <1>4

\* What a step leaves alone.
LEMMA StepLeaves ==
    ASSUME [Next]_vars
    PROVE  part' = part /\ [Made!Next]_(Made!vars)
<1>1. CASE UNCHANGED vars
  BY <1>1 DEF vars, container_vars, Made!vars
<1>2. CASE CollectFrames
  BY <1>2, SameFile, PartsLeave DEF CollectFrames
<1>3. CASE MakePackets
  <2>1. part' = part
    BY <1>3, SameWriter, PartsLeave DEF MakePackets
  <2>2. QED
    BY <1>3, <2>1 DEF MakePackets, container_vars, Made!vars
<1>4. CASE WriteFile \/ ReadPackets
  BY <1>4 DEF WriteFile, ReadPackets, container_vars, Made!vars
<1>5. CASE Interpret
  <2>1. part' = part
    BY <1>5, SameReader, PartsLeave DEF Interpret, Trip!Reader!stream
  <2>2. QED
    BY <1>5, <2>1 DEF Interpret, container_vars, Made!vars
<1>6. QED
  BY <1>1, <1>2, <1>3, <1>4, <1>5 DEF Next

\* Every step keeps what is known of the frames.
LEMMA FramesGoOn ==
    ASSUME TripInv, [Next]_vars
    PROVE  Made!TypeOK' /\ Made!WalkInv' /\ Made!HeldInv' /\ Made!CollectInv'
<1>1. Made!FramesConstants
  BY Frames2BitAssumption, SameFile
<1>2. /\ Made!TypeOK /\ Made!WalkInv /\ Made!HeldInv /\ Made!CollectInv
      /\ [Made!Next]_(Made!vars)
  BY StepLeaves DEF TripInv
<1>3. Made!TypeOK'
  BY <1>1, <1>2, Made!NextTypeOK
<1>4. Made!WalkInv'
  BY <1>1, <1>2, Made!NextWalkInv
<1>5. Made!HeldInv'
  BY <1>1, <1>2, Made!NextHeldInv
<1>6. Made!CollectInv'
  BY <1>1, <1>2, Made!NextCollectInv
<1>7. QED
  BY <1>3, <1>4, <1>5, <1>6

\* The header is that of the part.
LEMMA HeaderStays == part' = part => header_' = header_
BY DEF header_, Dummies, BusWidthAndSync

\* Every step of a part keeps TripInv.
LEMMA NextTripInv == TripInv /\ [Next]_vars => TripInv'
<1>1. SUFFICES ASSUME TripInv, [Next]_vars PROVE TripInv'
  OBVIOUS
<1>2. /\ part' = part /\ part' \in Parts /\ header_' = header_
      /\ Made!TypeOK' /\ Made!WalkInv' /\ Made!HeldInv' /\ Made!CollectInv'
  BY <1>1, StepLeaves, FramesGoOn, HeaderStays DEF TripInv
<1>3. Trip!Framed /\ part.arch # "Spartan6"
  BY <1>1, FramesAreWhole
<1>4. ASSUME UNCHANGED reader_vars, Reader!InitRegisters
      PROVE  Reader!InitRegisters'
  BY <1>4 DEF reader_vars, Reader!InitRegisters, Reader!ZeroAddress,
      Reader!Address
<1>5. ASSUME UNCHANGED <<file_vars, parser_vars>>, Untouched PROVE Untouched'
  BY <1>5 DEF file_vars, parser_vars, Untouched, File!InitWriter,
      Parser!InitReader
<1>6. ASSUME UNCHANGED writer_vars, writer_pc # "idle" =>
                 frames_data' = frames_data
      PROVE  Trip!WriterInv'
  <2>1. UNCHANGED <<part, Trip!writer_vars>>
    BY <1>2, <1>6 DEF writer_vars, Trip!writer_vars
  <2>2. QED
    BY <1>1, <1>6, <2>1, Trip!WriterStutters DEF TripInv
<1>7. CASE CollectFrames
  <2>1. /\ frames_pc # "complete" /\ writer_pc = "idle"
        /\ UNCHANGED <<writer_vars, file_vars, parser_vars, reader_vars>>
    BY <1>1, <1>7, SameFile, PartsLeave DEF CollectFrames, TripInv
  <2>2. Untouched /\ parser_pc = "opened" /\ Reader!InitRegisters
    BY <1>1, <2>1 DEF TripInv, Untouched, Parser!InitReader
  <2>3. Trip!WriterInv' /\ Untouched' /\ Reader!InitRegisters'
    BY <1>4, <1>5, <1>6, <2>1, <2>2
  <2>4. writer_pc' = "idle" /\ room' = room /\ parser_pc' = "opened"
    BY <2>1, <2>2 DEF writer_vars, file_vars, parser_vars
  <2>5. QED
    BY <1>1, <1>2, <2>3, <2>4 DEF TripInv
<1>8. CASE MakePackets
  <2>1. /\ frames_pc = "complete" /\ Trip!WriterNext /\ writer_pc # "packaged"
        /\ UNCHANGED <<container_vars, file_vars, parser_vars, reader_vars>>
    BY <1>8, SameWriter, PartsLeave DEF MakePackets
  <2>2. Untouched /\ parser_pc = "opened" /\ Reader!InitRegisters
    BY <1>1, <2>1 DEF TripInv, Untouched, Parser!InitReader
  <2>3. Untouched' /\ Reader!InitRegisters'
    BY <1>4, <1>5, <2>1, <2>2
  <2>4. Trip!WriterInv'
    BY <1>1, <1>3, <2>1, Trip!NextWriterInv DEF TripInv
  <2>5. frames_pc' = "complete" /\ room' = room /\ parser_pc' = "opened"
    BY <2>1, <2>2 DEF container_vars, file_vars, parser_vars
  <2>6. QED
    BY <1>1, <1>2, <2>3, <2>4, <2>5 DEF TripInv
<1>9. CASE WriteFile
  <2>1. /\ writer_pc = "packaged" /\ File!writeBitstream
        /\ UNCHANGED <<container_vars, writer_vars, parser_vars, reader_vars>>
    BY <1>9 DEF WriteFile
  <2>2. Wire!WriterInv /\ Wire!FirstPartInv
    BY <1>1, <2>1, FileBegins
  <2>3. Wire!WriteFile
    BY <1>2, <2>1, SameWire DEF Wire!WriteFile, Wire!reader_vars, parser_vars
  <2>4. Wire!WriterInv' /\ Wire!FirstPartInv'
    BY <2>2, <2>3, FileGoesOn DEF Wire!Next
  <2>5. status # "written" /\ room' = room
    BY <2>1 DEF File!writeBitstream, File!FailToOpen, File!PutFileHeader,
           File!PutHeaderWord, File!PutPacketHeader, File!PutData,
           File!PatchLength, File!InPacket
  <2>6. parser_pc = "opened" /\ parser_pc' = "opened"
    BY <2>1, <2>2, <2>5 DEF Wire!FirstPartInv, parser_vars
  <2>7. Reader!InitRegisters'
    BY <1>1, <1>4, <2>1, <2>6 DEF TripInv
  <2>8. Trip!WriterInv'
    BY <1>6, <2>1 DEF container_vars
  <2>9. frames_pc' = frames_pc /\ writer_pc' = "packaged"
    BY <2>1 DEF container_vars, writer_vars
  <2>10. QED
    BY <1>1, <1>2, <2>1, <2>4, <2>5, <2>6, <2>7, <2>8, <2>9 DEF TripInv
<1>10. CASE ReadPackets
  <2>1. /\ status = "written" /\ Parser!ReaderNext /\ parser_pc # "done"
        /\ UNCHANGED <<container_vars, writer_vars, file_vars, reader_vars>>
    BY <1>10, PartsLeave DEF ReadPackets
  <2>2. writer_pc = "packaged"
    BY <1>1, <2>1 DEF TripInv, Untouched, File!InitWriter
  <2>3. Wire!WriterInv /\ Wire!FirstPartInv
    BY <1>1, <2>2, FileBegins
  <2>4. Wire!ReadFile
    <3>1. Numbered(packets)' = Numbered(packets)
      BY <2>1 DEF writer_vars, Numbered
    <3>2. UNCHANGED Wire!writer_vars
      BY <1>2, <2>1, <3>1 DEF Wire!writer_vars, file_vars
    <3>3. QED
      BY <2>1, <3>2, SameWire DEF Wire!ReadFile
  <2>5. Wire!WriterInv' /\ Wire!FirstPartInv'
    BY <2>3, <2>4, FileGoesOn DEF Wire!Next
  <2>6. Reader!InitRegisters'
    BY <1>1, <1>4, <2>1 DEF TripInv
  <2>7. Trip!WriterInv'
    BY <1>6, <2>1 DEF container_vars
  <2>8. /\ frames_pc' = frames_pc /\ writer_pc' = "packaged" /\ room' = room
    BY <2>1, <2>2 DEF container_vars, writer_vars, file_vars
  <2>9. QED
    BY <1>1, <1>2, <2>2, <2>5, <2>6, <2>7, <2>8 DEF TripInv
<1>11. CASE Interpret
  <2>1. /\ parser_pc = "done" /\ Trip!Reader!Next
        /\ UNCHANGED <<container_vars, writer_vars, file_vars, parser_vars>>
    BY <1>11, SameReader DEF Interpret
  <2>2. Trip!ReaderInv /\ writer_pc = "packaged"
    BY <1>1, <2>1, BeginsToInterpret, FirstPacketsAreRead
  <2>3. Wire!WriterInv /\ Wire!FirstPartInv
    BY <1>1, <2>2, FileBegins
  <2>4. Numbered(packets)' = Numbered(packets) /\ Named(yielded)' = Named(yielded)
    BY <2>1 DEF writer_vars, parser_vars, Numbered, Named
  <2>5. UNCHANGED Wire!vars
    BY <1>2, <2>1, <2>4 DEF Wire!vars, Wire!writer_vars, Wire!reader_vars,
           file_vars, parser_vars
  <2>6. Wire!WriterInv' /\ Wire!FirstPartInv'
    BY <2>3, <2>5, FileGoesOn
  <2>7. UNCHANGED Trip!Aside
    BY <1>2, <2>1, <2>4 DEF Trip!Aside, container_vars, writer_vars
  <2>8. Trip!ReaderInv'
    BY <1>3, <2>1, <2>2, <2>7, Trip!NextReaderInv
  <2>9. Trip!WriterInv'
    BY <1>6, <2>1 DEF container_vars
  <2>10. /\ frames_pc' = frames_pc /\ writer_pc' = "packaged" /\ room' = room
         /\ parser_pc' = "done"
    BY <2>1, <2>2 DEF container_vars, writer_vars, file_vars, parser_vars
  <2>11. QED
    BY <1>1, <1>2, <2>2, <2>6, <2>8, <2>9, <2>10 DEF TripInv
<1>12. CASE UNCHANGED vars
  <2>1. UNCHANGED <<container_vars, writer_vars, file_vars, parser_vars,
            reader_vars>>
    BY <1>12 DEF vars
  <2>2. /\ frames_pc' = frames_pc /\ writer_pc' = writer_pc /\ room' = room
        /\ parser_pc' = parser_pc
    BY <2>1 DEF container_vars, writer_vars, file_vars, parser_vars
  <2>3. Trip!WriterInv'
    BY <1>6, <2>1 DEF container_vars
  <2>4. Numbered(packets)' = Numbered(packets) /\ Named(yielded)' = Named(yielded)
    BY <2>1 DEF writer_vars, parser_vars, Numbered, Named
  <2>5. Wire!WriterInv /\ Wire!FirstPartInv =>
            Wire!WriterInv' /\ Wire!FirstPartInv'
    <3>1. UNCHANGED Wire!vars
      BY <1>2, <2>1, <2>4 DEF Wire!vars, Wire!writer_vars, Wire!reader_vars,
             file_vars, parser_vars
    <3>2. QED
      BY <3>1, FileGoesOn
  <2>6. Trip!ReaderInv => Trip!ReaderInv'
    <3>1. UNCHANGED Trip!Aside
      BY <1>2, <2>1, <2>4 DEF Trip!Aside, container_vars, writer_vars
    <3>2. UNCHANGED <<pos, frame_address_register, current_frame_address, ii,
                      read_back, reader_pc>>
      BY <2>1 DEF reader_vars
    <3>3. QED
      BY <3>1, <3>2, Trip!ReaderStutters
  <2>7. QED
    BY <1>1, <1>2, <1>4, <1>5, <2>1, <2>2, <2>3, <2>5, <2>6 DEF TripInv
<1>13. QED
  BY <1>1, <1>7, <1>8, <1>9, <1>10, <1>11, <1>12 DEF Next

-----------------------------------------------------------------------------
(***************************************************************************)
(* When the interpreter is done, the frames of the walk have been written; *)
(* and from a whole file all packets have been read.                       *)
(***************************************************************************)
LEMMA WhenAccepted ==
    ASSUME TripInv, reader_pc = "accepted"
    PROVE  /\ Trip!Framed /\ Trip!ReaderInv /\ frames_pc = "complete"
           /\ good => Trip!Read
           /\ WalkedAddresses(part) \subseteq DOMAIN frames_data
           /\ WalkedAddresses(part) = Trip!WalkedAddresses(part)
<1>1. parser_pc = "done"
  BY DEF TripInv, Reader!InitRegisters
<1>2. Trip!ReaderInv /\ writer_pc = "packaged"
          /\ (good => Len(Named(yielded)) = Len(packets))
  BY <1>1, BeginsToInterpret, FirstPacketsAreRead
<1>3. frames_pc = "complete" /\ Made!CollectInv
  BY <1>2 DEF TripInv
<1>4. good => Trip!Read
  BY <1>2 DEF Trip!Read
<1>5. WalkedAddresses(part) \subseteq DOMAIN frames_data
  BY <1>3, SameHeld DEF Made!CollectInv
<1>6. QED
  BY <1>2, <1>3, <1>4, <1>5, FramesAreWhole, SameWalk

\* TripInv holds from the first line of the .frm file to the last packet.
LEMMA TripInvHolds == Spec => []TripInv
BY InitTripInv, NextTripInv, PTL DEF Spec

(***************************************************************************)
(* What is read back of a whole bitstream is what was written exactly when *)
(* the walk from address zero comes by every frame of the .frm file, for   *)
(* every part, every file and every header.                                *)
(***************************************************************************)
THEOREM LosslessWhenWalked == Spec => []LosslessExactlyWhenWalked
<1>1. TripInv => LosslessExactlyWhenWalked
  <2>1. SUFFICES ASSUME TripInv, reader_pc = "accepted", good
                 PROVE  read_back = frames_data <=> Displacing = {}
    BY DEF LosslessExactlyWhenWalked
  <2>2. /\ Trip!Framed /\ Trip!Read
        /\ WalkedAddresses(part) \subseteq DOMAIN frames_data
        /\ WalkedAddresses(part) = Trip!WalkedAddresses(part)
    BY <2>1, WhenAccepted
  <2>3. read_back = frames_data <=>
            DOMAIN frames_data = Trip!WalkedAddresses(part)
    BY <2>2, Trip!ReadExactlyWhenWalked
  <2>4. DOMAIN frames_data = WalkedAddresses(part) <=> Displacing = {}
    BY <2>2 DEF Displacing
  <2>5. QED
    BY <2>2, <2>3, <2>4
<1>2. QED
  BY <1>1, TripInvHolds, PTL

(***************************************************************************)
(* The frames before the first whose address the walk does not come by are *)
(* read back of a whole bitstream as they were written.                    *)
(***************************************************************************)
THEOREM IntactWhenBeforeUnwalked == Spec => []IntactBeforeUnwalked
<1>1. TripInv => IntactBeforeUnwalked
  <2>1. SUFFICES ASSUME TripInv, reader_pc = "accepted", good,
                        NEW a \in DOMAIN frames_data,
                        \A u \in Displacing : Packed(a) < Packed(u)
                 PROVE  a \in DOMAIN read_back /\ read_back[a] = frames_data[a]
    BY DEF IntactBeforeUnwalked
  <2>2. /\ Trip!Framed /\ Trip!Read
        /\ WalkedAddresses(part) \subseteq DOMAIN frames_data
        /\ WalkedAddresses(part) = Trip!WalkedAddresses(part)
    BY <2>1, WhenAccepted
  <2>3. \A u \in DOMAIN frames_data \ Trip!WalkedAddresses(part) :
           Trip!Packed(a) < Trip!Packed(u)
    BY <2>1, <2>2 DEF Displacing, Packed, Trip!Packed
  <2>4. QED
    BY <2>2, <2>3, Trip!ReadIntactBeforeUnwalked
<1>2. QED
  BY <1>1, TripInvHolds, PTL

(***************************************************************************)
(* Wherever the bitstream was cut off, all frames are read or none, on the *)
(* parts on which all are read from a whole one.                           *)
(***************************************************************************)
THEOREM AllFramesAreReadOrNone == Spec => []AllFramesOrNone
<1>1. TripInv => AllFramesOrNone
  <2>1. SUFFICES ASSUME TripInv, reader_pc = "accepted", Displacing = {}
                 PROVE  read_back = <<>> \/ read_back = frames_data
    BY DEF AllFramesOrNone
  <2>2. /\ Trip!Framed /\ Trip!ReaderInv
        /\ WalkedAddresses(part) \subseteq DOMAIN frames_data
        /\ WalkedAddresses(part) = Trip!WalkedAddresses(part)
    BY <2>1, WhenAccepted
  <2>3. DOMAIN frames_data = Trip!WalkedAddresses(part)
    BY <2>1, <2>2 DEF Displacing
  <2>4. QED
    BY <2>1, <2>2, <2>3, Trip!AllReadOrNone
<1>2. QED
  BY <1>1, TripInvHolds, PTL

-----------------------------------------------------------------------------
(***************************************************************************)
(* Every step is a step of FrameTransfer: the frames that are collected    *)
(* are sent, and those that the interpreter stores arrive.                 *)
(***************************************************************************)

\* The addresses, by the numbers that order them.
LEMMA Numbers ==
    /\ \A a : Packed(a) = Trip!Packed(a)
    /\ \A a \in FrameAddress : Packed(a) \in Nat
    /\ \A a, b \in FrameAddress : Packed(a) = Packed(b) => a = b
<1>1. \A a : Packed(a) = Trip!Packed(a)
  BY DEF Packed, Trip!Packed
<1>2. ASSUME NEW a \in FrameAddress PROVE Packed(a) \in Nat
  <2>1. a \in Trip!FrameAddress
    BY SameParts
  <2>2. QED
    BY <1>1, <2>1, Trip!PackedIsNat
<1>3. ASSUME NEW a \in FrameAddress, NEW b \in FrameAddress, Packed(a) = Packed(b)
      PROVE  a = b
  <2>1. a \in Trip!FrameAddress /\ b \in Trip!FrameAddress
    BY SameParts
  <2>2. Trip!Packed(a) = Trip!Packed(b)
    BY <1>1, <1>3
  <2>3. QED
    BY <2>1, <2>2, Trip!PackedIsOne
<1>4. QED
  BY <1>1, <1>2, <1>3

\* A map by the numbers of its addresses.
LEMMA KeyedMap ==
    ASSUME NEW map, DOMAIN map \subseteq FrameAddress
    PROVE  /\ Keyed(map) = [key \in DOMAIN Keyed(map) |-> Keyed(map)[key]]
           /\ DOMAIN Keyed(map) = {Packed(a) : a \in DOMAIN map}
           /\ \A a \in DOMAIN map : Keyed(map)[Packed(a)] = map[a]
<1>1. /\ Keyed(map) = [key \in DOMAIN Keyed(map) |-> Keyed(map)[key]]
      /\ DOMAIN Keyed(map) = {Packed(a) : a \in DOMAIN map}
  BY DEF Keyed
<1>2. ASSUME NEW a \in DOMAIN map PROVE Keyed(map)[Packed(a)] = map[a]
  <2>1. PICK n : n = Packed(a)
    OBVIOUS
  <2>2. \A b \in DOMAIN map : Packed(b) = n => b = a
    BY <2>1, Numbers
  <2>3. (CHOOSE b \in DOMAIN map : Packed(b) = n) = a
    BY <2>1, <2>2
  <2>4. Keyed(map)[n] = map[CHOOSE b \in DOMAIN map : Packed(b) = n]
    BY <2>1 DEF Keyed
  <2>5. QED
    BY <2>1, <2>3, <2>4
<1>3. QED
  BY <1>1, <1>2

\* Nothing has been sent at first.
LEMMA InitIsInit == Init => Transfer!Init
<1>1. SUFFICES ASSUME Init PROVE Transfer!Init
  OBVIOUS
<1>2. frames_data = <<>> /\ read_back = <<>> /\ frames_pc = "reading"
  BY <1>1 DEF Init, Container!Init, Reader!InitRegisters
<1>3. Keyed(<<>>) = <<>>
  BY DEF Keyed
<1>4. Displacing = {}
  BY <1>2 DEF Displacing
<1>5. QED
  BY <1>2, <1>3, <1>4 DEF Transfer!Init

\* A line of the file, or a turn of addMissingFrames, sends a frame or none.
LEMMA CollectIsCollect ==
    ASSUME TripInv, TripInv', CollectFrames
    PROVE  Transfer!Collect \/ Transfer!EndCollecting
<1>1. /\ part' = part /\ read_back' = read_back /\ Made!Next
      /\ frames_pc \notin {"complete", "aborted", "invalid"}
  <2>1. Made!Next /\ read_back' = read_back
    BY SameFile DEF CollectFrames, reader_vars
  <2>2. QED
    BY <2>1
       DEF Made!Next, Made!readFrames, Made!FailToOpen, Made!SkipComment,
           Made!AbortOnMalformedLine, Made!RejectUnknownAddress,
           Made!SkipWrongWordCount, Made!InsertFrame, Made!EndOfFile,
           Made!GetLine, Made!addMissingFrames, Made!BeginAddMissing,
           Made!AddMissing
<1>2. /\ DOMAIN frames_data \subseteq DOMAIN frames_data'
      /\ \A a \in DOMAIN frames_data : frames_data'[a] = frames_data[a]
  <2>1. \/ frames_data' = frames_data
        \/ \E a, f : frames_data' = Made!Insert(frames_data, a, f)
    BY <1>1
       DEF Made!Next, Made!readFrames, Made!FailToOpen, Made!SkipComment,
           Made!AbortOnMalformedLine, Made!RejectUnknownAddress,
           Made!SkipWrongWordCount, Made!InsertFrame, Made!EndOfFile,
           Made!GetLine, Made!addMissingFrames, Made!BeginAddMissing,
           Made!AddMissing
  <2>2. QED
    BY <2>1 DEF Made!Insert, Made!Assign
<1>3. /\ DOMAIN frames_data \subseteq FrameAddress
      /\ DOMAIN frames_data' \subseteq FrameAddress
  BY SameParts DEF TripInv, Made!TypeOK
<1>4. /\ DOMAIN Keyed(frames_data) = {Packed(a) : a \in DOMAIN frames_data}
      /\ \A a \in DOMAIN frames_data :
             Keyed(frames_data)[Packed(a)] = frames_data[a]
      /\ DOMAIN Keyed(frames_data') = {Packed(a) : a \in DOMAIN frames_data'}
      /\ \A a \in DOMAIN frames_data' :
            Keyed(frames_data')[Packed(a)] = frames_data'[a]
  BY <1>3, KeyedMap
<1>5. /\ Keyed(frames_data)' = Keyed(frames_data')
      /\ Keyed(read_back)' = Keyed(read_back)
  BY <1>1 DEF Keyed, Packed
<1>6. {Packed(a) : a \in Displacing}' \subseteq
          {Packed(a) : a \in DOMAIN frames_data'}
  BY DEF Displacing, Packed
<1>7. Transfer!Grows
  BY <1>2, <1>4, <1>5, <1>6 DEF Transfer!Grows
<1>8. QED
  BY <1>1, <1>5, <1>7 DEF Transfer!Collect, Transfer!EndCollecting

\* A step of the interpreter lets the next frame arrive, or one that is beyond
\* an address that the walk does not come by, or nothing.
LEMMA InterpretIsArrive ==
    ASSUME TripInv, TripInv', Interpret
    PROVE  Transfer!Arrive \/ Transfer!Stray \/ UNCHANGED Transfer!vars
<1> DEFINE sent == Keyed(frames_data)
           astray == {Packed(a) : a \in Displacing}
<1>1. /\ parser_pc = "done" /\ Trip!Reader!Next /\ part' = part
      /\ UNCHANGED <<container_vars, writer_vars, parser_vars>>
  BY SameReader, PartsLeave DEF Interpret, Trip!Reader!stream
<1>2. /\ Trip!Framed /\ Trip!ReaderInv /\ frames_pc = "complete"
      /\ WalkedAddresses(part) \subseteq DOMAIN frames_data
      /\ WalkedAddresses(part) = Trip!WalkedAddresses(part)
  <2>1. Trip!ReaderInv /\ writer_pc = "packaged"
    BY <1>1, BeginsToInterpret, FirstPacketsAreRead
  <2>2. frames_pc = "complete"
    BY <2>1 DEF TripInv
  <2>3. WalkedAddresses(part) \subseteq DOMAIN frames_data
    BY <2>2, SameHeld DEF TripInv, Made!CollectInv
  <2>4. QED
    BY <2>1, <2>2, <2>3, FramesAreWhole, SameWalk
<1>3. frames_data' = frames_data /\ frames_pc' = frames_pc
  BY <1>1 DEF container_vars
<1>4. sent' = sent /\ astray' = astray
  BY <1>1, <1>3
     DEF Keyed, Displacing, Packed, WalkedAddresses
<1>5. CASE read_back' = read_back
  <2>1. Keyed(read_back)' = Keyed(read_back)
    BY <1>5 DEF Keyed, Packed
  <2>2. QED
    BY <1>3, <1>4, <2>1 DEF Transfer!vars
<1>6. ASSUME read_back' # read_back PROVE Transfer!Arrive \/ Transfer!Stray
  <2>1. UNCHANGED Trip!Aside
    BY <1>1, <1>3
       DEF Trip!Aside, writer_vars, parser_vars, Named
  <2>2. PICK c \in WalkedAddresses(part) \ DOMAIN read_back :
           /\ DOMAIN read_back \subseteq WalkedAddresses(part)
           /\ DOMAIN read_back' = DOMAIN read_back \union {c}
           /\ \A a \in DOMAIN read_back : read_back'[a] = read_back[a]
           /\ \A b \in WalkedAddresses(part) \ DOMAIN read_back :
                 Packed(c) <= Packed(b)
           /\ (\A u \in Displacing : Packed(c) < Packed(u)) =>
                  \A a \in DOMAIN read_back' : read_back'[a] = frames_data[a]
    <3>1. \E c \in Trip!WalkedAddresses(part) \ DOMAIN read_back :
           /\ DOMAIN read_back \subseteq Trip!WalkedAddresses(part)
           /\ DOMAIN read_back' = DOMAIN read_back \union {c}
           /\ \A a \in DOMAIN read_back : read_back'[a] = read_back[a]
           /\ \A b \in Trip!WalkedAddresses(part) \ DOMAIN read_back :
                 Trip!Packed(c) <= Trip!Packed(b)
           /\ (\A u \in DOMAIN frames_data \ Trip!WalkedAddresses(part) :
                  Trip!Packed(c) < Trip!Packed(u)) =>
                  \A a \in DOMAIN read_back' : read_back'[a] = frames_data[a]
      BY <1>1, <1>2, <1>6, <2>1, Trip!StepStores
    <3>2. QED
      BY <1>2, <3>1, Numbers DEF Displacing
  <2>3. /\ DOMAIN frames_data \subseteq FrameAddress
        /\ DOMAIN read_back \subseteq DOMAIN frames_data
        /\ DOMAIN read_back' \subseteq DOMAIN frames_data
        /\ c \in DOMAIN frames_data /\ c \notin Displacing
        /\ \A a \in DOMAIN frames_data : Packed(a) \in Nat
    BY <1>2, <2>2, SameParts, Numbers DEF TripInv, Made!TypeOK, Displacing
  <2>4. /\ DOMAIN sent = {Packed(a) : a \in DOMAIN frames_data}
        /\ \A a \in DOMAIN frames_data : sent[Packed(a)] = frames_data[a]
    BY <2>3, KeyedMap
  <2>5. /\ DOMAIN Keyed(read_back) = {Packed(a) : a \in DOMAIN read_back}
        /\ \A a \in DOMAIN read_back : Keyed(read_back)[Packed(a)] = read_back[a]
    BY <2>3, KeyedMap
  <2>6. /\ DOMAIN Keyed(read_back)' = DOMAIN Keyed(read_back) \union {Packed(c)}
        /\ \A a \in DOMAIN read_back' :
              Keyed(read_back)'[Packed(a)] = read_back'[a]
        /\ Keyed(read_back)' = [key \in DOMAIN Keyed(read_back)' |->
                                   Keyed(read_back)'[key]]
    <3>1. Keyed(read_back)' = Keyed(read_back')
      BY DEF Keyed, Packed
    <3>2. /\ DOMAIN Keyed(read_back') = {Packed(a) : a \in DOMAIN read_back'}
          /\ \A a \in DOMAIN read_back' :
                Keyed(read_back')[Packed(a)] = read_back'[a]
          /\ Keyed(read_back') = [key \in DOMAIN Keyed(read_back') |->
                                     Keyed(read_back')[key]]
      BY <2>3, KeyedMap
    <3>3. {Packed(a) : a \in DOMAIN read_back'} =
              {Packed(a) : a \in DOMAIN read_back} \union {Packed(c)}
      BY <2>2
    <3>4. QED
      BY <2>5, <3>1, <3>2, <3>3
  <2>7. Packed(c) \notin DOMAIN Keyed(read_back)
    BY <2>2, <2>3, <2>5, Numbers
  <2>8. CASE \A u \in Displacing : Packed(c) < Packed(u)
    <3>1. Packed(c) \in DOMAIN sent \ DOMAIN Keyed(read_back)
      BY <2>3, <2>4, <2>7
    <3>2. \A key \in DOMAIN sent \ DOMAIN Keyed(read_back) : Packed(c) <= key
      <4>1. SUFFICES ASSUME NEW a \in DOMAIN frames_data,
                         a \notin DOMAIN read_back
                     PROVE  Packed(c) <= Packed(a)
        BY <2>4, <2>5
      <4>2. CASE a \in Displacing
        BY <2>3, <2>8, <4>2
      <4>3. CASE a \notin Displacing
        BY <2>2, <4>1, <4>3 DEF Displacing
      <4>4. QED
        BY <4>2, <4>3
    <3>3. \A key \in astray : Packed(c) < key
      BY <2>8
    <3>4. Keyed(read_back)' =
              [key \in DOMAIN Keyed(read_back) \union {Packed(c)} |-> sent[key]]
      <4>1. ASSUME NEW key \in DOMAIN Keyed(read_back) \union {Packed(c)}
            PROVE  Keyed(read_back)'[key] = sent[key]
        <5>1. PICK a \in DOMAIN read_back' : key = Packed(a)
          BY <2>2, <2>5
        <5>2. QED
          BY <2>2, <2>3, <2>4, <2>6, <2>8, <5>1
      <4>2. QED
        BY <2>6, <4>1
    <3>5. QED
      BY <1>2, <1>3, <1>4, <3>1, <3>2, <3>3, <3>4 DEF Transfer!Arrive
  <2>9. CASE \E u \in Displacing : ~(Packed(c) < Packed(u))
    <3>1. Displacing \subseteq DOMAIN frames_data /\ Displacing # {}
      BY <2>9 DEF Displacing
    <3>2. PICK u \in Displacing : \A v \in Displacing : Packed(u) <= Packed(v)
      <4>1. /\ Displacing \subseteq Trip!FrameAddress
            /\ \A v \in Displacing : Packed(v) \in Nat
        BY <2>3, <3>1, SameParts
      <4>2. PICK u \in Displacing : \A v \in Displacing : ~Trip!Precedes(v, u)
        BY <3>1, <4>1, Trip!FirstAddress
      <4>3. \A v \in Displacing : ~(Packed(v) < Packed(u))
        BY <4>1, <4>2, Numbers, Trip!PackedPrecedes
      <4>4. QED
        BY <4>1, <4>3
    <3>3. Packed(u) < Packed(c)
      <4>1. Packed(u) <= Packed(c)
        BY <2>3, <2>9, <3>1, <3>2
      <4>2. Packed(u) # Packed(c)
        BY <2>3, <3>1, Numbers
      <4>3. QED
        BY <2>3, <3>1, <4>1, <4>2
    <3>4. ASSUME NEW a \in DOMAIN frames_data, Packed(a) < Packed(u)
          PROVE  a \in DOMAIN read_back
      <4>1. a \notin Displacing
        BY <2>3, <3>1, <3>2, <3>4
      <4>2. ~(Packed(c) <= Packed(a))
        BY <2>3, <3>1, <3>3, <3>4
      <4>3. QED
        BY <2>2, <4>1, <4>2 DEF Displacing
    <3>5. /\ Packed(u) \in astray
          /\ \A key \in astray : Packed(u) <= key
      BY <3>2
    <3>6. \A key \in DOMAIN sent : key < Packed(u) =>
              key \in DOMAIN Keyed(read_back)
      BY <2>4, <2>5, <3>4
    <3>7. \A key \in DOMAIN Keyed(read_back)' \ DOMAIN Keyed(read_back) :
             Packed(u) < key
      BY <2>6, <3>3
    <3>8. \A key \in DOMAIN Keyed(read_back) :
             /\ key \in DOMAIN Keyed(read_back)'
             /\ Keyed(read_back)'[key] = Keyed(read_back)[key]
      <4>1. SUFFICES ASSUME NEW a \in DOMAIN read_back
                     PROVE  Keyed(read_back)'[Packed(a)] =
                                Keyed(read_back)[Packed(a)]
        BY <2>5, <2>6
      <4>2. QED
        BY <2>2, <2>5, <2>6
    <3>9. QED
      BY <1>2, <1>3, <1>4, <3>5, <3>6, <3>7, <3>8 DEF Transfer!Stray
  <2>10. QED
    BY <2>8, <2>9
<1>7. QED
  BY <1>5, <1>6

\* The other steps send nothing, and nothing arrives.
LEMMA OthersStutter ==
    ASSUME TripInv, MakePackets \/ WriteFile \/ ReadPackets \/ UNCHANGED vars
    PROVE  UNCHANGED Transfer!vars
<1>1. UNCHANGED <<part, frames_data, frames_pc, read_back>>
  <2>1. CASE MakePackets
    BY <2>1, SameWriter, PartsLeave
       DEF MakePackets, container_vars, reader_vars
  <2>2. CASE WriteFile \/ ReadPackets \/ UNCHANGED vars
    BY <2>2 DEF WriteFile, ReadPackets, vars, container_vars, reader_vars
  <2>3. QED
    BY <2>1, <2>2
<1>2. /\ Keyed(frames_data)' = Keyed(frames_data)
      /\ Keyed(read_back)' = Keyed(read_back)
      /\ {Packed(a) : a \in Displacing}' = {Packed(a) : a \in Displacing}
  BY <1>1 DEF Keyed, Packed, Displacing, WalkedAddresses
<1>3. QED
  BY <1>1, <1>2 DEF Transfer!vars

(***************************************************************************)
(* xcframes2bit with the reading of its output implements FrameTransfer,   *)
(* for every part, .frm file and header, wherever the bitstream ends.      *)
(***************************************************************************)
THEOREM TransfersTheFrames == Spec => TransfersFrames
<1>1. Init => Transfer!Init
  BY InitIsInit
<1>2. TripInv /\ TripInv' /\ [Next]_vars => [Transfer!Next]_(Transfer!vars)
  BY CollectIsCollect, InterpretIsArrive, OthersStutter DEF Next, Transfer!Next
<1>3. QED
  BY <1>1, <1>2, TripInvHolds, PTL DEF Spec, TransfersFrames, Transfer!Spec

=============================================================================

-------------------------- MODULE Bitstream_proofs --------------------------
(***************************************************************************)
(* What InitWithWords makes of the words of a packet is the packet, for    *)
(* every packet that the words can say and every size of the fields; and   *)
(* what is read of a bitstream file is what was written to it, or a first  *)
(* part of it, for every package of packets, every file header and every   *)
(* place where the file may end.                                           *)
(***************************************************************************)
EXTENDS Bitstream, SequenceTheorems, WellFoundedInduction, TLAPS

\* Quotient and remainder are what they are by their bounds.
LEMMA DivModUnique ==
    ASSUME NEW m \in Nat \ {0}, NEW a \in Nat, NEW b \in 0..m - 1
    PROVE  /\ (a * m + b) \div m = a
           /\ (a * m + b) % m = b
<1> DEFINE x == a * m + b
           q == x \div m
           r == x % m
<1>1. x \in Nat  BY SMT
<1>2. q \in Nat /\ r \in 0..m - 1 /\ x = m * q + r
  BY <1>1, SMT
<1>3. ~(q < a)
  <2> SUFFICES ASSUME q < a PROVE FALSE  OBVIOUS
  <2>1. \E k \in Nat : a = q + 1 + k
    <3>1. a - q - 1 \in Nat  BY <1>2, SMT
    <3>2. a = q + 1 + (a - q - 1)  BY <1>2, SMT
    <3> QED  BY <3>1, <3>2
  <2>2. PICK k \in Nat : a = q + 1 + k  BY <2>1
  <2>3. a * m = q * m + m + k * m  BY <2>2, <1>2, SMT
  <2>4. k * m \in Nat  BY SMT
  <2> QED  BY <2>3, <2>4, <1>2, SMT
<1>4. ~(q > a)
  <2> SUFFICES ASSUME q > a PROVE FALSE  OBVIOUS
  <2>1. \E k \in Nat : q = a + 1 + k
    <3>1. q - a - 1 \in Nat  BY <1>2, SMT
    <3>2. q = a + 1 + (q - a - 1)  BY <1>2, SMT
    <3> QED  BY <3>1, <3>2
  <2>2. PICK k \in Nat : q = a + 1 + k  BY <2>1
  <2>3. m * q = a * m + m + k * m  BY <2>2, <1>2, SMT
  <2>4. k * m \in Nat  BY SMT
  <2> QED  BY <2>3, <2>4, <1>2, SMT
<1>5. q = a  BY <1>2, <1>3, <1>4, SMT
<1>6. r = b  BY <1>2, <1>5, SMT
<1> QED  BY <1>5, <1>6

\* The remainder of a small number is the number.
LEMMA SmallModulo ==
    ASSUME NEW m \in Nat \ {0}, NEW b \in 0..m - 1
    PROVE  b % m = b /\ b \in Nat
<1>1. b \in Nat /\ 0 * m + b = b  BY SMT
<1>2. (0 * m + b) % m = b  BY DivModUnique
<1> QED  BY <1>1, <1>2

\* The sizes of the fields are not 0.
LEMMA FieldSizes ==
    /\ ReservedSize * CountSize \in Nat \ {0}
    /\ LongCountSize \in Nat \ {0}
    /\ 4 * LongCountSize \in Nat \ {0}
<1>1. /\ AddressSize \in Nat /\ AddressSize > 0
      /\ ReservedSize \in Nat /\ ReservedSize > 0
      /\ CountSize \in Nat /\ CountSize > 0
  BY ConfigurationPacketAssumption, SMT
<1>2. ReservedSize * CountSize \in Nat /\ ReservedSize * CountSize > 0
  BY <1>1, SMT
<1>3. LongCountSize \in Nat /\ LongCountSize > 0
  BY <1>1, <1>2, SMT DEF LongCountSize
<1> QED  BY <1>2, <1>3, SMT

\* The fields of every header word.
LEMMA HeaderFields ==
    ASSUME NEW t \in 0..7, NEW o \in 0..3, NEW low \in 0..LongCountSize - 1
    PROVE  /\ HeaderType(Header(t, o, low)) = t
           /\ OpcodeOf(Header(t, o, low)) = o
           /\ LongCount(Header(t, o, low)) = low
<1> DEFINE L == LongCountSize
           word == Header(t, o, low)
<1>1. L \in Nat \ {0} /\ 4 * L \in Nat \ {0}  BY FieldSizes
<1> HIDE DEF L
<1>2. /\ t \in Nat /\ t * 4 + o \in Nat /\ (t * 4 + o) % 4 = o /\ t % 8 = t
  BY SMT
<1>3. low \in 0..L - 1  BY DEF L
<1>4. word = (t * 4 + o) * L + low  BY DEF Header, L
<1>5. /\ HeaderType(word) = (word \div (4 * L)) % 8
      /\ OpcodeOf(word) = (word \div L) % 4
      /\ LongCount(word) = word % L
  BY DEF HeaderType, OpcodeOf, LongCount, L
<1> HIDE DEF word
<1>6. word \div L = t * 4 + o /\ word % L = low
  BY <1>1, <1>2, <1>3, <1>4, DivModUnique
<1>7. o * L + low \in Nat /\ o * L + low \in 0..4 * L - 1
  <2>1. CASE o = 0  BY <2>1, <1>1, <1>3, SMT
  <2>2. CASE o = 1  BY <2>2, <1>1, <1>3, SMT
  <2>3. CASE o = 2  BY <2>3, <1>1, <1>3, SMT
  <2>4. CASE o = 3  BY <2>4, <1>1, <1>3, SMT
  <2> QED  BY <2>1, <2>2, <2>3, <2>4, SMT
<1>8. word = t * (4 * L) + (o * L + low)  BY <1>1, <1>2, <1>3, <1>4, SMT
<1>9. word \div (4 * L) = t
  <2> DEFINE m == 4 * L
             b == o * L + low
  <2>1. m \in Nat \ {0} /\ b \in 0..m - 1 /\ word = t * m + b
    BY <1>1, <1>7, <1>8
  <2> HIDE DEF m, b
  <2>2. (t * m + b) \div m = t  BY <1>2, <2>1, DivModUnique
  <2> QED  BY <2>1, <2>2 DEF m
<1> QED  BY <1>2, <1>5, <1>6, <1>9 DEF word

\* The fields in the low part of a type 1 header.
LEMMA ShortHeaderFields ==
    ASSUME NEW t \in 0..7, NEW o \in 0..3,
           NEW address \in 0..AddressSize - 1, NEW count \in 0..CountSize - 1
    PROVE  /\ ShortFields(address, count) \in 0..LongCountSize - 1
           /\ AddressOf(Header(t, o, ShortFields(address, count))) = address
           /\ ShortCount(Header(t, o, ShortFields(address, count))) = count
<1> DEFINE A == AddressSize
           R == ReservedSize
           C == CountSize
           M == R * C
           L == A * M
           high == t * 4 + o
           low == ShortFields(address, count)
           word == Header(t, o, low)
<1>1. /\ A \in Nat \ {0} /\ R \in Nat \ {0} /\ C \in Nat \ {0}
      /\ address \in Nat /\ address \in 0..A - 1
      /\ count \in Nat /\ count \in 0..C - 1
      /\ high \in Nat
  BY ConfigurationPacketAssumption, SMT
<1>2. L = LongCountSize  BY DEF LongCountSize
<1>3. M \in Nat \ {0}  BY FieldSizes
<1>4. count % C = count  BY <1>1, SMT
<1>5. low = address * M + count  BY <1>4 DEF ShortFields
<1>6. word = high * L + low  BY <1>2 DEF Header
<1> HIDE DEF A, R, C, L, low, word, high
<1>7. count \in 0..M - 1
  <2>1. PICK r \in Nat : R = 1 + r
    <3>1. R - 1 \in Nat /\ R = 1 + (R - 1)  BY <1>1, SMT
    <3> QED  BY <3>1
  <2>2. M = C + r * C  BY <2>1, <1>1, SMT
  <2>3. r * C \in Nat  BY <1>1, <2>1, SMT
  <2> QED  BY <2>2, <2>3, <1>1, SMT
<1> HIDE DEF M
<1>8. low \in 0..L - 1
  <2>1. PICK k \in Nat : A = address + 1 + k
    <3>1. A - address - 1 \in Nat /\ A = address + 1 + (A - address - 1)
      BY <1>1, SMT
    <3> QED  BY <3>1
  <2>2. L = address * M + M + k * M  BY <2>1, <1>1, <1>3, SMT DEF L
  <2>3. k * M \in Nat /\ address * M \in Nat  BY <1>1, <1>3, <2>1, SMT
  <2> QED  BY <2>2, <2>3, <1>1, <1>3, <1>5, <1>7, SMT
<1>9. word = (high * A + address) * M + count
  BY <1>1, <1>3, <1>5, <1>6, SMT DEF L
<1>10. high * A + address \in Nat  BY <1>1, SMT
<1>11. word \div M = high * A + address
  BY <1>3, <1>7, <1>9, <1>10, DivModUnique
<1>12. (high * A + address) % A = address  BY <1>1, DivModUnique
<1>13. word = ((high * A + address) * R) * C + count
  BY <1>1, <1>9, <1>10, SMT DEF M
<1>14. (high * A + address) * R \in Nat  BY <1>1, <1>10, SMT
<1>15. word % C = count  BY <1>1, <1>13, <1>14, DivModUnique
<1>16. /\ AddressOf(word) = (word \div M) % A
       /\ ShortCount(word) = word % C
  BY DEF AddressOf, ShortCount, M, A, R, C
<1>17. low \in 0..LongCountSize - 1  BY <1>2, <1>8
<1> QED  BY <1>11, <1>12, <1>15, <1>16, <1>17 DEF low, word

-----------------------------------------------------------------------------

\* The words of a packet, as the writer's iterators yield them.
WordsOfPacket(item) == <<packet2header(item)>> \o item.data

(***************************************************************************)
(* A packet that the words can say when the packet before it is previous:  *)
(* padding is nothing but padding, a type 2 packet is for the register of  *)
(* the packet before it, and the counts fit their fields.                  *)
(***************************************************************************)
SayableAfter(item, previous) ==
    /\ item.header_type = NONE => item = Packet(NONE, NOP, CRC, <<>>)
    /\ item.header_type = TYPE1 => Len(item.data) < CountSize
    /\ item.header_type = TYPE2 =>
           /\ Len(item.data) < LongCountSize
           /\ \E q \in ConfigurationPacket :
                  previous = {q} /\ q.address = item.address

\* A header is a number.
LEMMA HeaderIsNat ==
    ASSUME NEW t \in Nat, NEW o \in Nat, NEW low \in Nat
    PROVE  Header(t, o, low) \in Nat
<1>1. LongCountSize \in Nat  BY FieldSizes
<1> HIDE DEF LongCountSize
<1>2. t * 4 + o \in Nat  BY SMT
<1>3. (t * 4 + o) * LongCountSize \in Nat  BY <1>1, <1>2, SMT
<1> QED  BY <1>3, SMT DEF Header

\* The types of packets differ and fit in their field.
LEMMA TypesDiffer ==
    /\ NONE # TYPE1 /\ NONE # TYPE2 /\ TYPE1 # TYPE2
    /\ NONE = 0 /\ NONE \in 0..7 /\ TYPE1 \in 0..7 /\ TYPE2 \in 0..7
    /\ TYPE1 \in Nat /\ TYPE2 \in Nat
  BY SMT DEF NONE, TYPE1, TYPE2

\* InitWithWords goes by the type in the first word.
LEMMA Dispatch ==
    ASSUME NEW input, NEW previous, input # <<>>
    PROVE  /\ HeaderType(Head(input)) = NONE =>
                   InitWithWords(input, previous) = ParsePadding(input)
           /\ HeaderType(Head(input)) = TYPE1 =>
                   InitWithWords(input, previous) = ParseType1(input)
           /\ HeaderType(Head(input)) = TYPE2 =>
                   InitWithWords(input, previous) = ParseType2(input, previous)
<1>1. CASE HeaderType(Head(input)) = NONE
  BY <1>1, TypesDiffer DEF InitWithWords
<1>2. CASE HeaderType(Head(input)) = TYPE1
  BY <1>2, TypesDiffer DEF InitWithWords
<1>3. CASE HeaderType(Head(input)) = TYPE2
  BY <1>3, TypesDiffer DEF InitWithWords
<1> QED  BY <1>1, <1>2, <1>3

\* The header of a padding packet is 0.
LEMMA PaddingHeader ==
    ASSUME NEW p \in ConfigurationPacket, p.header_type = NONE
    PROVE  packet2header(p) = 0 /\ HeaderType(0) = NONE
<1>1. packet2header(p) = 0  BY TypesDiffer DEF packet2header
<1>2. HeaderType(0) = NONE
  <2> DEFINE m == 4 * LongCountSize
  <2>1. m \in Nat \ {0}  BY FieldSizes
  <2>2. HeaderType(0) = (0 \div m) % 8  BY DEF HeaderType
  <2> HIDE DEF m
  <2>3. 0 \div m = 0  BY <2>1, SMT
  <2>4. 0 % 8 = 0  BY SMT
  <2> QED  BY <2>2, <2>3, <2>4, TypesDiffer
<1> QED  BY <1>1, <1>2

\* The fields of a header of type 1 are found in it.
LEMMA Type1Fields ==
    ASSUME NEW opcode \in 0..3, NEW address \in 0..AddressSize - 1,
           NEW count \in 0..CountSize - 1
    PROVE  LET low  == ShortFields(address, count)
               word == Header(TYPE1, opcode, low)
           IN /\ low \in 0..LongCountSize - 1
              /\ AddressOf(word) = address
              /\ ShortCount(word) = count
<1>1. TYPE1 \in 0..7
  BY TypesDiffer
<1>2. QED
  BY <1>1, ShortHeaderFields

\* The header written for a packet of type 1 says what it is.
LEMMA Type1Header ==
    ASSUME NEW p \in ConfigurationPacket, p.header_type = TYPE1,
           NEW count \in 0..CountSize - 1, count = Len(p.data)
    PROVE  LET header == packet2header(p)
           IN /\ header \in Nat
              /\ HeaderType(header) = TYPE1
              /\ OpcodeOf(header) = p.opcode
              /\ AddressOf(header) = p.address
              /\ ShortCount(header) = count
<1> DEFINE low == ShortFields(p.address, count)
           header == packet2header(p)
<1>1. p.opcode \in 0..3 /\ p.address \in 0..AddressSize - 1
  BY DEF ConfigurationPacket
<1>2. header = Header(TYPE1, p.opcode, low)
  BY TypesDiffer DEF packet2header
<1> HIDE DEF header
<1>3. /\ low \in 0..LongCountSize - 1
      /\ AddressOf(header) = p.address
      /\ ShortCount(header) = count
  <2>1. low = ShortFields(p.address, count)
    OBVIOUS
  <2> HIDE DEF low
  <2>2. QED
    BY <1>1, <1>2, <2>1, Type1Fields
<1> HIDE DEF low
<1>4. HeaderType(header) = TYPE1 /\ OpcodeOf(header) = p.opcode
  BY <1>1, <1>2, <1>3, TypesDiffer, HeaderFields
<1>5. low \in Nat /\ p.opcode \in Nat  BY <1>1, <1>3, FieldSizes, SMT
<1>6. header \in Nat  BY <1>2, <1>5, TypesDiffer, HeaderIsNat
<1> QED  BY <1>3, <1>4, <1>6 DEF header

\* The header written for a packet of type 2 says what it is.
LEMMA Type2Header ==
    ASSUME NEW p \in ConfigurationPacket, p.header_type = TYPE2,
           NEW count \in 0..LongCountSize - 1, count = Len(p.data)
    PROVE  LET header == packet2header(p)
           IN /\ header \in Nat
              /\ HeaderType(header) = TYPE2
              /\ OpcodeOf(header) = p.opcode
              /\ LongCount(header) = count
<1> DEFINE header == packet2header(p)
           L == LongCountSize
<1>1. p.opcode \in 0..3  BY DEF ConfigurationPacket
<1>2. header = Header(TYPE2, p.opcode, LongFields(count))
  BY TypesDiffer DEF packet2header
<1> HIDE DEF header
<1>3. L \in Nat \ {0} /\ count \in 0..L - 1  BY FieldSizes
<1>4. LongFields(count) = count % L  BY DEF LongFields
<1> HIDE DEF L
<1>5. count % L = count /\ count \in Nat  BY <1>3, SmallModulo
<1>6. header = Header(TYPE2, p.opcode, count)  BY <1>2, <1>4, <1>5
<1>7. /\ HeaderType(header) = TYPE2 /\ OpcodeOf(header) = p.opcode
      /\ LongCount(header) = count
  <2> DEFINE o == p.opcode
             t == TYPE2
             word == Header(t, o, count)
  <2>1. t \in 0..7 /\ o \in 0..3 /\ count \in 0..LongCountSize - 1
    BY <1>1, TypesDiffer
  <2> HIDE DEF o, t
  <2>2. HeaderType(word) = t /\ OpcodeOf(word) = o /\ LongCount(word) = count
    BY <2>1, HeaderFields
  <2> HIDE DEF word
  <2>3. header = word  BY <1>6 DEF word, o, t
  <2> QED  BY <2>2, <2>3 DEF o, t
<1>8. p.opcode \in Nat  BY <1>1, SMT
<1>9. TYPE2 \in Nat  BY SMT DEF TYPE2
<1>10. Header(TYPE2, p.opcode, count) \in Nat
  BY <1>5, <1>8, <1>9, HeaderIsNat, Zenon
<1>11. header \in Nat  BY <1>6, <1>10, Zenon
<1> QED  BY <1>7, <1>11 DEF header

\* A part of a sequence of words.
LEMMA Part ==
    ASSUME NEW s \in Seq(Nat), NEW b \in Nat, NEW k \in Nat, b <= k, k <= Len(s)
    PROVE  /\ SubSeq(s, b + 1, k) \in Seq(Nat)
           /\ Len(SubSeq(s, b + 1, k)) = k - b
           /\ \A j \in 1..k - b : SubSeq(s, b + 1, k)[j] = s[b + j]
<1> DEFINE part == SubSeq(s, b + 1, k)
           length == Len(s)
<1>1. length \in Nat /\ k <= length
  BY LenProperties
<1> HIDE DEF length
<1>2. \A i \in b + 1..k : i \in 1..length
  BY <1>1, SMT
<1>3. \A i \in b + 1..k : s[i] \in Nat
  BY <1>2, ElementOfSeq DEF length
<1>4. b + 1 \in Int /\ k \in Int
  OBVIOUS
<1>5. /\ part \in Seq(Nat)
      /\ Len(part) = IF b + 1 <= k THEN k - (b + 1) + 1 ELSE 0
      /\ \A i \in 1..k - (b + 1) + 1 : part[i] = s[b + 1 + i - 1]
  BY <1>3, <1>4, SubSeqProperties
<1> HIDE DEF part
<1>6. k - (b + 1) + 1 = k - b /\ (~(b + 1 <= k) => k - b = 0)
  BY SMT
<1>7. \A j \in 1..k - b : b + 1 + j - 1 = b + j
  BY SMT
<1>8. QED
  BY <1>5, <1>6, <1>7 DEF part

\* The first words of a sequence.
LEMMA FirstPart ==
    ASSUME NEW s \in Seq(Nat), NEW k \in Nat, k <= Len(s)
    PROVE  /\ SubSeq(s, 1, k) \in Seq(Nat)
           /\ Len(SubSeq(s, 1, k)) = k
           /\ \A j \in 1..k : SubSeq(s, 1, k)[j] = s[j]
<1>1. 0 \in Nat /\ 0 <= k /\ 0 + 1 = 1 /\ k - 0 = k /\ \A j \in 1..k : 0 + j = j
  OBVIOUS
<1>2. /\ SubSeq(s, 0 + 1, k) \in Seq(Nat)
      /\ Len(SubSeq(s, 0 + 1, k)) = k - 0
      /\ \A j \in 1..k - 0 : SubSeq(s, 0 + 1, k)[j] = s[0 + j]
  BY <1>1, Part
<1>3. QED
  BY <1>1, <1>2

\* The elements of two sequences of words that are joined.
LEMMA Joined ==
    ASSUME NEW s1 \in Seq(Nat), NEW s2 \in Seq(Nat)
    PROVE  /\ s1 \o s2 \in Seq(Nat)
           /\ Len(s1 \o s2) = Len(s1) + Len(s2)
           /\ \A k \in 1..Len(s1) : (s1 \o s2)[k] = s1[k]
           /\ \A k \in 1..Len(s2) : (s1 \o s2)[Len(s1) + k] = s2[k]
<1> DEFINE u == s1 \o s2
           l1 == Len(s1)
           l2 == Len(s2)
<1>1. l1 \in Nat /\ l2 \in Nat
  BY LenProperties
<1>2. /\ u \in Seq(Nat)
      /\ Len(u) = l1 + l2
      /\ \A i \in 1..l1 + l2 : u[i] = IF i <= l1 THEN s1[i] ELSE s2[i - l1]
  BY ConcatProperties
<1> HIDE DEF u, l1, l2
<1>3. \A k \in 1..l1 : k \in 1..l1 + l2 /\ k <= l1
  BY <1>1, SMT
<1>4. \A k \in 1..l2 : /\ l1 + k \in 1..l1 + l2
                       /\ ~(l1 + k <= l1) /\ (l1 + k) - l1 = k
  BY <1>1, SMT
<1>5. \A k \in 1..l1 : u[k] = s1[k]
  BY <1>2, <1>3, Zenon
<1>6. \A k \in 1..l2 : u[l1 + k] = s2[k]
  <2>1. TAKE k \in 1..l2
  <2>2. u[l1 + k] = s2[(l1 + k) - l1]
    BY <1>2, <1>4, Zenon
  <2>3. QED
    BY <1>4, <2>2, Zenon
<1>7. QED
  BY <1>2, <1>5, <1>6 DEF u, l1, l2

\* A header and its data joined to a sequence.
LEMMA JoinedNext ==
    ASSUME NEW s1 \in Seq(Nat), NEW s2 \in Seq(Nat), NEW count \in Nat,
           Len(s2) = 1 + count
    PROVE  /\ s1 \o s2 \in Seq(Nat)
           /\ Len(s1 \o s2) = Len(s1) + (1 + count)
           /\ \A k \in 1..Len(s1) : (s1 \o s2)[k] = s1[k]
           /\ (s1 \o s2)[Len(s1) + 1] = s2[1]
           /\ \A j \in 1..count : (s1 \o s2)[Len(s1) + 1 + j] = s2[1 + j]
<1> DEFINE u == s1 \o s2
           l1 == Len(s1)
           l2 == Len(s2)
<1>1. l1 \in Nat /\ l2 = 1 + count
  BY LenProperties
<1>2. /\ u \in Seq(Nat) /\ Len(u) = l1 + l2
      /\ \A k \in 1..l1 : u[k] = s1[k]
      /\ \A k \in 1..l2 : u[l1 + k] = s2[k]
  <2>1. s1 \in Seq(Nat) /\ s2 \in Seq(Nat)
    OBVIOUS
  <2> HIDE DEF u, l1, l2
  <2>2. /\ s1 \o s2 \in Seq(Nat) /\ Len(s1 \o s2) = Len(s1) + Len(s2)
        /\ \A k \in 1..Len(s1) : (s1 \o s2)[k] = s1[k]
        /\ \A k \in 1..Len(s2) : (s1 \o s2)[Len(s1) + k] = s2[k]
    BY <2>1, Joined
  <2>3. QED
    BY <2>2, Zenon DEF u, l1, l2
<1> HIDE DEF u, l1, l2
<1>3. 1 \in 1..l2 /\ \A j \in 1..count :
          1 + j \in 1..l2 /\ l1 + 1 + j = l1 + (1 + j)
  BY <1>1, SMT
<1>4. u[l1 + 1] = s2[1]
  BY <1>2, <1>3, Zenon
<1>5. \A j \in 1..count : u[l1 + 1 + j] = s2[1 + j]
  <2>1. TAKE j \in 1..count
  <2>2. u[l1 + (1 + j)] = s2[1 + j]
    BY <1>2, <1>3, Zenon
  <2>3. QED
    BY <1>3, <2>2, Zenon
<1>6. QED
  BY <1>1, <1>2, <1>4, <1>5 DEF u, l1, l2

\* The words after a header, and its data, if all of them are there.
LEMMA DataAndRest ==
    ASSUME NEW input \in Seq(Nat), NEW count \in Nat, HasAll(input, count)
    PROVE  /\ DataOf(input, count) \in Seq(Nat)
           /\ Len(DataOf(input, count)) = count
           /\ \A j \in 1..count : DataOf(input, count)[j] = input[1 + j]
           /\ After(input, count) \in Seq(Nat)
           /\ Len(After(input, count)) = Len(input) - (count + 1)
           /\ \A j \in 1..Len(input) - (count + 1) :
                  After(input, count)[j] = input[count + 1 + j]
<1> DEFINE n == Len(input)
           b == count + 1
<1>1. n \in Nat /\ b \in Nat /\ b <= n /\ n <= n /\ b - 1 = count /\ 1 <= b
      /\ 1 \in Nat /\ 1 + 1 = 2 /\ b + 1 = count + 2
  BY LenProperties DEF HasAll
<1>2. b = count + 1  OBVIOUS
<1> HIDE DEF n, b
<1>3. /\ SubSeq(input, 1 + 1, b) \in Seq(Nat)
      /\ Len(SubSeq(input, 1 + 1, b)) = b - 1
      /\ \A j \in 1..b - 1 : SubSeq(input, 1 + 1, b)[j] = input[1 + j]
  BY <1>1, Part, Zenon DEF n
<1>4. /\ SubSeq(input, b + 1, n) \in Seq(Nat)
      /\ Len(SubSeq(input, b + 1, n)) = n - b
      /\ \A j \in 1..n - b : SubSeq(input, b + 1, n)[j] = input[b + j]
  BY <1>1, Part, Zenon DEF n
<1>5. DataOf(input, count) = SubSeq(input, 1 + 1, b)
  BY <1>1, <1>2 DEF DataOf
<1>6. After(input, count) = SubSeq(input, b + 1, n)
  BY <1>1 DEF After, n
<1>7. /\ DataOf(input, count) \in Seq(Nat)
      /\ Len(DataOf(input, count)) = count
      /\ \A j \in 1..count : DataOf(input, count)[j] = input[1 + j]
  BY <1>1, <1>3, <1>5, Zenon
<1> QED  BY <1>4, <1>6, <1>7, Zenon DEF n, b

\* Header and data at the front of a span, and how they are taken off it.
LEMMA TakingOff ==
    ASSUME NEW header \in Nat, NEW data \in Seq(Nat), NEW rest \in Seq(Nat)
    PROVE  LET input == (<<header>> \o data) \o rest
           IN /\ input \in Seq(Nat)
              /\ input # <<>>
              /\ Head(input) = header
              /\ HasAll(input, Len(data))
              /\ DataOf(input, Len(data)) = data
              /\ After(input, Len(data)) = rest
<1> DEFINE own == <<header>> \o data
           input == own \o rest
           n == Len(data)
           l == Len(rest)
<1>1. n \in Nat /\ l \in Nat  BY LenProperties
<1>2. /\ own \in Seq(Nat) /\ Len(own) = n + 1 /\ own[1] = header
      /\ \A j \in 1..n : own[1 + j] = data[j]
  BY <1>1, SMT
<1> HIDE DEF own
<1>3. /\ input \in Seq(Nat) /\ Len(input) = Len(own) + Len(rest)
      /\ \A k \in 1..Len(own) : input[k] = own[k]
      /\ \A k \in 1..Len(rest) : input[Len(own) + k] = rest[k]
  BY <1>2, Joined
<1> HIDE DEF input, n, l
<1>4. /\ Len(input) = n + 1 + l
      /\ input[1] = header
      /\ \A j \in 1..n : input[1 + j] = data[j]
      /\ \A j \in 1..l : input[n + 1 + j] = rest[j]
  <2>1. 1 \in 1..n + 1 /\ \A j \in 1..n : 1 + j \in 1..n + 1
    BY <1>1, SMT
  <2>2. Len(rest) = l  BY DEF l
  <2> QED  BY <1>2, <1>3, <2>1, <2>2, Zenon
<1>5. n <= Len(input) - 1 /\ Len(input) # 0 /\ Len(input) - (n + 1) = l
  BY <1>1, <1>4
<1>6. input # <<>> /\ HasAll(input, n)
  BY <1>5 DEF HasAll
<1>7. Head(input) = header
  <2>1. Head(input) = input[1]
    BY <1>3, <1>6
  <2> QED  BY <1>4, <2>1
<1>8. /\ DataOf(input, n) \in Seq(Nat) /\ Len(DataOf(input, n)) = n
      /\ \A j \in 1..n : DataOf(input, n)[j] = input[1 + j]
      /\ After(input, n) \in Seq(Nat) /\ Len(After(input, n)) = l
      /\ \A j \in 1..l : After(input, n)[j] = input[n + 1 + j]
  <2>1. input \in Seq(Nat) /\ n \in Nat /\ HasAll(input, n)
    BY <1>1, <1>3, <1>6
  <2> QED  BY <1>5, <2>1, DataAndRest, Zenon
<1>9. DataOf(input, n) = data
  <2>1. /\ Len(DataOf(input, n)) = Len(data)
        /\ \A j \in 1..Len(DataOf(input, n)) : DataOf(input, n)[j] = data[j]
    BY <1>4, <1>8, Zenon DEF n
  <2> QED  BY <1>8, <2>1, SeqEqual, Zenon
<1>10. After(input, n) = rest
  <2>1. /\ Len(After(input, n)) = Len(rest)
        /\ \A j \in 1..Len(After(input, n)) : After(input, n)[j] = rest[j]
    BY <1>4, <1>8, Zenon DEF l
  <2> QED  BY <1>8, <2>1, SeqEqual, Zenon
<1> QED
  BY <1>3, <1>6, <1>7, <1>9, <1>10, Zenon DEF input, own, n

(***************************************************************************)
(* What is parsed is what was written: InitWithWords takes a packet that   *)
(* the words can say off the words that packet2header and the packet's     *)
(* data make, and leaves what follows them.                                *)
(***************************************************************************)
THEOREM ParsesWhatIsWritten ==
    ASSUME NEW p \in ConfigurationPacket, NEW previous,
           NEW rest \in Seq(Nat), SayableAfter(p, previous)
    PROVE  InitWithWords(WordsOfPacket(p) \o rest, previous) = Result(rest, {p})
<1> DEFINE header == packet2header(p)
           count == Len(p.data)
           input == (<<header>> \o p.data) \o rest
<1>1. /\ p.header_type \in {NONE, TYPE1, TYPE2}
      /\ p.data \in Seq(Nat)
      /\ p = Packet(p.header_type, p.opcode, p.address, p.data)
  BY DEF ConfigurationPacket, Packet
<1>2. count \in Nat  BY <1>1, LenProperties
<1>3. WordsOfPacket(p) \o rest = input  BY DEF WordsOfPacket
<1>4. header \in Nat =>
          /\ input \in Seq(Nat) /\ input # <<>> /\ Head(input) = header
          /\ HasAll(input, count) /\ DataOf(input, count) = p.data
          /\ After(input, count) = rest
  BY <1>1, TakingOff
<1> HIDE DEF input, header
<1>5. CASE p.header_type = NONE
  <2>1. p = Packet(NONE, NOP, CRC, <<>>)  BY <1>5 DEF SayableAfter
  <2>2. header = 0 /\ HeaderType(header) = NONE
    BY <1>5, PaddingHeader DEF header
  <2>3. count = 0  BY <2>1 DEF Packet
  <2>4. input \in Seq(Nat) /\ input # <<>> /\ Head(input) = header
        /\ After(input, 0) = rest
    BY <1>4, <2>2, <2>3
  <2>5. Tail(input) = rest
    <3>1. Tail(input) = SubSeq(input, 2, Len(input))  BY <2>4, TailIsSubSeq
    <3>2. 0 + 2 = 2  BY SMT
    <3> QED  BY <2>4, <3>1, <3>2 DEF After
  <2>6. InitWithWords(input, previous) = ParsePadding(input)
    BY <2>2, <2>4, Dispatch
  <2> QED  BY <1>3, <2>1, <2>5, <2>6 DEF ParsePadding
<1>6. CASE p.header_type = TYPE1
  <2>1. count \in 0..CountSize - 1
    BY <1>2, <1>6, ConfigurationPacketAssumption, SMT DEF SayableAfter
  <2>2. /\ header \in Nat /\ HeaderType(header) = TYPE1
        /\ OpcodeOf(header) = p.opcode /\ AddressOf(header) = p.address
        /\ ShortCount(header) = count
    BY <1>6, <2>1, Type1Header DEF header
  <2>3. InitWithWords(input, previous) = ParseType1(input)
    BY <1>4, <2>2, Dispatch
  <2>4. ParseType1(input) = Result(rest, {p})
    BY <1>1, <1>4, <1>6, <2>2 DEF ParseType1
  <2> QED  BY <1>3, <2>3, <2>4
<1>7. CASE p.header_type = TYPE2
  <2>1. count < LongCountSize  BY <1>7 DEF SayableAfter
  <2>2. PICK q \in ConfigurationPacket : previous = {q} /\ q.address = p.address
    BY <1>7 DEF SayableAfter
  <2>3. count \in 0..LongCountSize - 1
    BY <1>2, <2>1, FieldSizes, SMT
  <2>4. /\ header \in Nat /\ HeaderType(header) = TYPE2
        /\ OpcodeOf(header) = p.opcode /\ LongCount(header) = count
    BY <1>7, <2>3, Type2Header DEF header
  <2>5. InitWithWords(input, previous) = ParseType2(input, previous)
    BY <1>4, <2>4, Dispatch
  <2>6. {Packet(TYPE2, p.opcode, r.address, p.data) : r \in previous} = {p}
    BY <1>1, <1>7, <2>2
  <2>7. ParseType2(input, previous) = Result(rest, {p})
    BY <1>4, <2>4, <2>6 DEF ParseType2
  <2> QED  BY <1>3, <2>5, <2>7
<1> QED  BY <1>1, <1>5, <1>6, <1>7

(***************************************************************************)
(* A packet of which some words are still to come is not parsed: whatever  *)
(* number of its words there is, InitWithWords consumes nothing and        *)
(* yields nothing, which the iterator of BitstreamReader takes as the end. *)
(***************************************************************************)
THEOREM IncompleteIsNotParsed ==
    ASSUME NEW p \in ConfigurationPacket, NEW previous,
           SayableAfter(p, previous), p.header_type # NONE,
           NEW n \in 0..Len(p.data)
    PROVE  LET input == SubSeq(WordsOfPacket(p), 1, n)
           IN InitWithWords(input, previous) = Result(input, {})
<1> DEFINE header == packet2header(p)
           count == Len(p.data)
           all == WordsOfPacket(p)
           input == SubSeq(all, 1, n)
<1>1. /\ p.header_type \in {TYPE1, TYPE2}
      /\ p.data \in Seq(Nat)
  BY DEF ConfigurationPacket
<1>2. count \in Nat  BY <1>1, LenProperties
<1>3. p.header_type = TYPE1 => count \in 0..CountSize - 1
  BY <1>2, ConfigurationPacketAssumption, SMT DEF SayableAfter
<1>4. p.header_type = TYPE2 => count \in 0..LongCountSize - 1
  <2>1. p.header_type = TYPE2 => count < LongCountSize  BY DEF SayableAfter
  <2> QED  BY <1>2, <2>1, FieldSizes, SMT
<1>5. /\ header \in Nat
      /\ HeaderType(header) = p.header_type
      /\ p.header_type = TYPE1 => ShortCount(header) = count
      /\ p.header_type = TYPE2 => LongCount(header) = count
  BY <1>1, <1>3, <1>4, TypesDiffer, Type1Header, Type2Header
<1>6. all = <<header>> \o p.data  BY DEF WordsOfPacket
<1> HIDE DEF header, all
<1>7. /\ all \in Seq(Nat) /\ Len(all) = 1 + count /\ all[1] = header
  BY <1>1, <1>5, <1>6, SMT
<1>8. n \in Nat /\ n <= count  BY <1>2, SMT
<1> HIDE DEF count
<1>9. /\ input \in Seq(Nat) /\ Len(input) = n
      /\ n >= 1 => input[1] = header
  <2>1. \A i \in 1..n : all[i] \in Nat
    <3>1. \A i \in 1..n : i \in 1..Len(all)  BY <1>2, <1>7, <1>8, SMT
    <3> QED  BY <1>7, <3>1, LenProperties
  <2>2. /\ input \in Seq(Nat)
        /\ Len(input) = IF 1 <= n THEN n - 1 + 1 ELSE 0
        /\ \A i \in 1..n - 1 + 1 : input[i] = all[1 + i - 1]
    BY <1>8, <2>1, SubSeqProperties
  <2> HIDE DEF input
  <2>3. Len(input) = n  BY <1>8, <2>2, SMT
  <2>4. n >= 1 => 1 \in 1..n - 1 + 1 /\ 1 + 1 - 1 = 1  BY <1>8, SMT
  <2> QED  BY <1>7, <2>2, <2>3, <2>4
<1> HIDE DEF input
<1>10. CASE n = 0
  <2>1. input = <<>>  BY <1>9, <1>10, SMT
  <2> QED  BY <2>1 DEF InitWithWords, input, all
<1>11. CASE n # 0
  <2>1. input # <<>> /\ Head(input) = header
    BY <1>8, <1>9, <1>11, SMT
  <2>2. ~HasAll(input, count)
    BY <1>2, <1>8, <1>9, SMT DEF HasAll
  <2>3. CASE p.header_type = TYPE1
    <3>1. InitWithWords(input, previous) = ParseType1(input)
      BY <1>5, <2>1, <2>3, Dispatch
    <3>2. ParseType1(input) = Result(input, {})
      BY <1>5, <2>1, <2>2, <2>3 DEF ParseType1
    <3> QED  BY <3>1, <3>2 DEF input, all
  <2>4. CASE p.header_type = TYPE2
    <3>1. InitWithWords(input, previous) = ParseType2(input, previous)
      BY <1>5, <2>1, <2>4, Dispatch
    <3>2. ParseType2(input, previous) = Result(input, {})
      BY <1>5, <2>1, <2>2, <2>4 DEF ParseType2
    <3> QED  BY <3>1, <3>2 DEF input, all
  <2> QED  BY <1>1, <2>3, <2>4
<1> QED  BY <1>10, <1>11

\* The fields of any word are in their ranges.
LEMMA FieldRanges ==
    ASSUME NEW word \in Nat
    PROVE  /\ OpcodeOf(word) \in 0..3
           /\ AddressOf(word) \in 0..AddressSize - 1
           /\ ShortCount(word) \in 0..CountSize - 1
           /\ LongCount(word) \in 0..LongCountSize - 1
<1> DEFINE M == ReservedSize * CountSize
           L == LongCountSize
<1>1. /\ M \in Nat \ {0} /\ L \in Nat \ {0}
      /\ AddressSize \in Nat \ {0} /\ CountSize \in Nat \ {0}
  BY FieldSizes, ConfigurationPacketAssumption
<1>2. OpcodeOf(word) = (word \div L) % 4
  BY DEF OpcodeOf
<1>3. AddressOf(word) = (word \div M) % AddressSize
  BY DEF AddressOf
<1> HIDE DEF M, L
<1>4. word \div L \in Int /\ word \div M \in Int
  BY <1>1, SMT
<1>5. OpcodeOf(word) \in 0..3
  BY <1>2, <1>4, SMT
<1>6. AddressOf(word) \in 0..AddressSize - 1
  <2> DEFINE q == word \div M
  <2>1. q \in Int
    BY <1>4
  <2> HIDE DEF q
  <2>2. q % AddressSize \in 0..AddressSize - 1
    BY <1>1, <2>1, SMT
  <2>3. QED
    BY <1>3, <2>2 DEF q
<1>7. ShortCount(word) \in 0..CountSize - 1
  BY <1>1, SMT DEF ShortCount
<1>8. LongCount(word) \in 0..LongCountSize - 1
  <2>1. word % L \in 0..L - 1
    BY <1>1, SMT
  <2>2. QED
    BY <2>1 DEF LongCount, L
<1>9. QED
  BY <1>5, <1>6, <1>7, <1>8

(***************************************************************************)
(* Whatever the words are, InitWithWords makes at most one packet of them, *)
(* and that is a packet that the words can say after the previous one: its *)
(* count fits, padding is nothing but padding, and a type 2 packet is for  *)
(* the register of the packet before it.                                   *)
(***************************************************************************)
THEOREM ParsedIsSayable ==
    ASSUME NEW input \in Seq(Nat), input # <<>>, NEW previous,
           previous = {} \/ \E q \in ConfigurationPacket : previous = {q}
    PROVE  LET result == InitWithWords(input, previous)
           IN /\ result.first \in Seq(Nat)
              /\ \/ result.second = {}
                 \/ \E p \in ConfigurationPacket :
                        result.second = {p} /\ SayableAfter(p, previous)
<1> DEFINE result == InitWithWords(input, previous)
           header == Head(input)
           IsParsed(r) ==
               /\ r.first \in Seq(Nat)
               /\ \/ r.second = {}
                  \/ \E p \in ConfigurationPacket :
                         r.second = {p} /\ SayableAfter(p, previous)
<1>1. header \in Nat
  BY HeadTailProperties
<1>2. /\ OpcodeOf(header) \in 0..3
      /\ AddressOf(header) \in 0..AddressSize - 1
      /\ ShortCount(header) \in 0..CountSize - 1
      /\ LongCount(header) \in 0..LongCountSize - 1
  BY <1>1, FieldRanges
<1> HIDE DEF header
<1>3. IsParsed(Result(input, {}))
  BY DEF Result
<1>4. CASE HeaderType(header) = NONE
  <2> DEFINE p == Packet(NONE, NOP, CRC, <<>>)
  <2>1. result = Result(Tail(input), {p})
    BY <1>4, Dispatch DEF ParsePadding, header
  <2>2. Tail(input) \in Seq(Nat)
    BY HeadTailProperties
  <2>3. p \in ConfigurationPacket
    <3>1. NOP \in 0..3 /\ CRC \in 0..AddressSize - 1 /\ <<>> \in Seq(Nat)
      BY ConfigurationPacketAssumption DEF NOP, CRC
    <3>2. QED
      BY <3>1 DEF ConfigurationPacket, Packet
  <2>4. SayableAfter(p, previous)
    BY TypesDiffer DEF SayableAfter, Packet
  <2> HIDE DEF p
  <2>5. QED
    BY <2>1, <2>2, <2>3, <2>4 DEF Result
<1>5. CASE HeaderType(header) = TYPE1
  <2> DEFINE count == ShortCount(header)
             p == Packet(TYPE1, OpcodeOf(header), AddressOf(header),
                         DataOf(input, count))
  <2>1. result = IF HasAll(input, count) THEN Result(After(input, count), {p})
                 ELSE Result(input, {})
    BY <1>5, Dispatch DEF ParseType1, header
  <2>2. ASSUME HasAll(input, count)
        PROVE  IsParsed(Result(After(input, count), {p}))
    <3>1. count \in Nat
      BY <1>2, ConfigurationPacketAssumption
    <3>2. /\ DataOf(input, count) \in Seq(Nat)
          /\ Len(DataOf(input, count)) = count
          /\ After(input, count) \in Seq(Nat)
      BY <2>2, <3>1, DataAndRest
    <3>3. count < CountSize
      BY <1>2, <3>1, ConfigurationPacketAssumption
    <3> HIDE DEF count
    <3>4. p \in ConfigurationPacket
      BY <1>2, <3>2 DEF ConfigurationPacket, Packet
    <3>5. SayableAfter(p, previous)
      BY <3>2, <3>3, TypesDiffer DEF SayableAfter, Packet
    <3> HIDE DEF p
    <3>6. QED
      BY <3>2, <3>4, <3>5 DEF Result
  <2> HIDE DEF IsParsed, p, count
  <2>3. IsParsed(result)
    BY <1>3, <2>1, <2>2
  <2>4. QED
    BY <2>3 DEF IsParsed
<1>6. CASE HeaderType(header) = TYPE2
  <2> DEFINE count == LongCount(header)
             P(q) == Packet(TYPE2, OpcodeOf(header), q.address,
                            DataOf(input, count))
             made == {P(q) : q \in previous}
  <2>1. result = IF HasAll(input, count) THEN Result(After(input, count), made)
                 ELSE Result(input, {})
    BY <1>6, Dispatch DEF ParseType2, header
  <2>2. ASSUME HasAll(input, count)
        PROVE  IsParsed(Result(After(input, count), made))
    <3>1. count \in Nat
      BY <1>2, FieldSizes
    <3>2. /\ DataOf(input, count) \in Seq(Nat)
          /\ Len(DataOf(input, count)) = count
          /\ After(input, count) \in Seq(Nat)
      BY <2>2, <3>1, DataAndRest
    <3>3. count < LongCountSize
      BY <1>2, <3>1, FieldSizes
    <3> HIDE DEF count
    <3>4. CASE previous = {}
      <4>1. made = {}
        BY <3>4
      <4>2. QED
        BY <3>2, <4>1 DEF Result
    <3>5. ASSUME NEW q \in ConfigurationPacket, previous = {q}
          PROVE  IsParsed(Result(After(input, count), made))
      <4> DEFINE p == P(q)
      <4>1. made = {p}
        BY <3>5
      <4>2. q.address \in 0..AddressSize - 1
        BY DEF ConfigurationPacket
      <4>3. p \in ConfigurationPacket
        BY <1>2, <3>2, <4>2 DEF ConfigurationPacket, Packet
      <4>4. p.header_type = TYPE2 /\ p.address = q.address
            /\ p.data = DataOf(input, count)
        BY DEF Packet
      <4> HIDE DEF p
      <4>5. SayableAfter(p, previous)
        BY <3>2, <3>3, <3>5, <4>4, TypesDiffer DEF SayableAfter
      <4>6. QED
        BY <3>2, <4>1, <4>3, <4>5 DEF Result
    <3>6. QED
      BY <3>4, <3>5
  <2> HIDE DEF IsParsed, made, count
  <2>3. IsParsed(result)
    BY <1>3, <2>1, <2>2
  <2>4. QED
    BY <2>3 DEF IsParsed
<1>7. CASE HeaderType(header) \notin {NONE, TYPE1, TYPE2}
  <2>1. result = Result(<<>>, {})
    BY <1>7 DEF InitWithWords, header
  <2>2. QED
    BY <2>1 DEF Result
<1>8. QED
  BY <1>4, <1>5, <1>6, <1>7

-----------------------------------------------------------------------------
(***************************************************************************)
(* The words of a package, one packet after the other: the words of packet *)
(* i come after the first start[i].  The words are there by induction over *)
(* the packets, for which a set of numbers with no least one is empty.     *)
(***************************************************************************)
LEMMA NatLeast ==
    ASSUME NEW T, T \subseteq Nat, T # {}
    PROVE  \E x \in T : \A y \in T : x <= y
<1> DEFINE R == OpToRel(<, Nat)
<1>1. \E x \in T : \A y \in T : ~ (<<y, x>> \in R)
  <2>1. IsWellFoundedOn(R, Nat)
    BY NatLessThanWellFounded
  <2> HIDE DEF R
  <2>2. QED
    BY <2>1, WFMin
<1>2. \A x, y \in Nat : x < y => <<x, y>> \in R
  BY DEF OpToRel
<1> HIDE DEF R
<1>3. PICK x \in T : \A y \in T : ~ (<<y, x>> \in R)
  BY <1>1
<1>4. ASSUME NEW y \in T PROVE x <= y
  <2>1. x \in Nat /\ y \in Nat
    OBVIOUS
  <2>2. ~(y < x)
    BY <1>2, <1>3, <2>1
  <2>3. QED
    BY <2>1, <2>2
<1>5. QED
  BY <1>4

IsLayout(package, n, start, stream) ==
    /\ start \in [1..n + 1 -> Nat]
    /\ start[1] = 0
    /\ stream \in Seq(Nat)
    /\ Len(stream) = start[n + 1]
    /\ \A i \in 1..n + 1 : start[i] <= Len(stream)
    /\ \A i \in 1..n :
           /\ start[i + 1] = start[i] + 1 + Len(package[i].data)
           /\ stream[start[i] + 1] = packet2header(package[i])
           /\ \A j \in 1..Len(package[i].data) :
                  stream[start[i] + 1 + j] = package[i].data[j]

\* The header of every packet is a word, whether its counts fit or not.
LEMMA EveryHeaderIsNat ==
    ASSUME NEW p \in ConfigurationPacket
    PROVE  packet2header(p) \in Nat
<1> DEFINE count == Len(p.data)
           M == ReservedSize * CountSize
<1>1. /\ p.header_type \in {NONE, TYPE1, TYPE2} /\ p.opcode \in 0..3
      /\ p.address \in 0..AddressSize - 1 /\ p.data \in Seq(Nat)
  BY DEF ConfigurationPacket
<1>2. count \in Nat
  BY <1>1, LenProperties
<1>3. M \in Nat /\ LongCountSize \in Nat \ {0} /\ CountSize \in Nat \ {0}
  BY FieldSizes, ConfigurationPacketAssumption
<1> HIDE DEF count, M
<1>4. count % CountSize \in Nat /\ count % LongCountSize \in Nat
  BY <1>2, <1>3, SMT
<1>5. p.address \in Nat /\ p.opcode \in Nat
  BY <1>1, ConfigurationPacketAssumption
<1>6. ShortFields(p.address, count) \in Nat
  <2> DEFINE a == p.address
             c == count % CountSize
  <2>1. a \in Nat /\ c \in Nat
    BY <1>4, <1>5
  <2>2. ShortFields(p.address, count) = a * M + c
    BY DEF ShortFields, M
  <2> HIDE DEF a, c
  <2>3. a * M + c \in Nat
    BY <1>3, <2>1, SMT
  <2>4. QED
    BY <2>2, <2>3
<1>7. LongFields(count) \in Nat
  BY <1>4 DEF LongFields
<1>8. CASE p.header_type = NONE
  BY <1>8, PaddingHeader
<1>9. CASE p.header_type = TYPE1
  <2>1. packet2header(p) = Header(TYPE1, p.opcode, ShortFields(p.address, count))
    BY <1>9, TypesDiffer DEF packet2header, count
  <2>2. Header(TYPE1, p.opcode, ShortFields(p.address, count)) \in Nat
    BY <1>5, <1>6, TypesDiffer, HeaderIsNat, Zenon
  <2>3. QED
    BY <2>1, <2>2, Zenon
<1>10. CASE p.header_type = TYPE2
  <2>1. packet2header(p) = Header(TYPE2, p.opcode, LongFields(count))
    BY <1>10, TypesDiffer DEF packet2header, count
  <2>2. Header(TYPE2, p.opcode, LongFields(count)) \in Nat
    BY <1>5, <1>7, TypesDiffer, HeaderIsNat, Zenon
  <2>3. QED
    BY <2>1, <2>2, Zenon
<1>11. QED
  BY <1>1, <1>8, <1>9, <1>10

\* A layout of n packets goes on with the words of the next.
LEMMA LayoutStep ==
    ASSUME NEW package \in Seq(ConfigurationPacket),
           NEW n \in Nat, n < Len(package), NEW start, NEW stream,
           IsLayout(package, n, start, stream)
    PROVE  \E s, t : IsLayout(package, n + 1, s, t)
<1> DEFINE p == package[n + 1]
           data == p.data
           count == Len(data)
           header == packet2header(p)
           length == Len(stream)
           next == length + 1 + count
           s == [i \in 1..n + 2 |-> IF i = n + 2 THEN next ELSE start[i]]
           t == stream \o (<<header>> \o data)
<1>1. /\ p \in ConfigurationPacket /\ data \in Seq(Nat) /\ header \in Nat
      /\ count \in Nat
  <2>1. p \in ConfigurationPacket
    BY LenProperties, ElementOfSeq
  <2>2. data \in Seq(Nat)
    BY <2>1 DEF ConfigurationPacket
  <2>3. QED
    BY <2>1, <2>2, EveryHeaderIsNat, LenProperties
<1>2. /\ start \in [1..n + 1 -> Nat] /\ start[1] = 0 /\ stream \in Seq(Nat)
      /\ length \in Nat /\ length = start[n + 1]
      /\ \A i \in 1..n + 1 : start[i] <= length
  BY LenProperties DEF IsLayout
<1> HIDE DEF p, count, header, data
<1>3. /\ t \in Seq(Nat) /\ Len(t) = length + (1 + count)
      /\ \A k \in 1..length : t[k] = stream[k]
      /\ t[length + 1] = header
      /\ \A j \in 1..count : t[length + 1 + j] = data[j]
  <2> DEFINE own == <<header>> \o data
  <2>1. /\ own \in Seq(Nat) /\ Len(own) = 1 + count /\ own[1] = header
        /\ \A j \in 1..count : own[1 + j] = data[j]
    BY <1>1, SMT DEF count
  <2> HIDE DEF own
  <2>2. stream \in Seq(Nat) /\ count \in Nat
    BY <1>1, <1>2
  <2> HIDE DEF t
  <2>3. /\ stream \o own \in Seq(Nat)
        /\ Len(stream \o own) = Len(stream) + (1 + count)
        /\ \A k \in 1..Len(stream) : (stream \o own)[k] = stream[k]
        /\ (stream \o own)[Len(stream) + 1] = own[1]
        /\ \A j \in 1..count : (stream \o own)[Len(stream) + 1 + j] = own[1 + j]
    BY <2>1, <2>2, JoinedNext, Zenon
  <2>4. t = stream \o own
    BY DEF own, t
  <2>5. QED
    BY <2>1, <2>3, <2>4, Zenon DEF length
<1> HIDE DEF t, length
<1>4. next \in Nat /\ next = length + (1 + count) /\ length <= next
  BY <1>1, <1>2, SMT
<1> HIDE DEF next
<1>5. s \in [1..n + 2 -> Nat]
  BY <1>2, <1>4
<1>6. s[1] = 0 /\ s[n + 2] = next /\ \A i \in 1..n + 1 : s[i] = start[i]
  BY <1>2
<1> HIDE DEF s
<1>7. ASSUME NEW i \in 1..n + 2 PROVE s[i] <= Len(t)
  <2>1. CASE i = n + 2
    BY <1>3, <1>4, <1>6, <2>1
  <2>2. CASE i \in 1..n + 1
    BY <1>2, <1>3, <1>4, <1>6, <2>2
  <2>3. QED
    BY <2>1, <2>2
<1>8. ASSUME NEW i \in 1..n
      PROVE  /\ s[i + 1] = s[i] + 1 + Len(package[i].data)
             /\ t[s[i] + 1] = packet2header(package[i])
             /\ \A j \in 1..Len(package[i].data) :
                    t[s[i] + 1 + j] = package[i].data[j]
  <2> DEFINE b == start[i]
             d == package[i].data
             c == Len(d)
             e == start[i + 1]
  <2>1. s[i] = b /\ s[i + 1] = e /\ length \in Nat
    BY <1>2, <1>6
  <2>2. /\ e = b + 1 + c /\ stream[b + 1] = packet2header(package[i])
        /\ \A j \in 1..c : stream[b + 1 + j] = d[j]
    BY DEF IsLayout
  <2>3. b \in Nat /\ e \in Nat /\ e <= length
    BY <1>2
  <2>4. c \in Nat
    <3>1. package[i] \in ConfigurationPacket
      BY LenProperties, ElementOfSeq
    <3>2. QED
      BY <3>1, LenProperties DEF ConfigurationPacket
  <2> HIDE DEF b, c, d, e
  <2>5. b + 1 \in 1..length /\ \A j \in 1..c : b + 1 + j \in 1..length
    <3>1. e = b + 1 + c
      BY <2>2
    <3>2. QED
      BY <2>1, <2>3, <2>4, <3>1, SMT
  <2>6. t[b + 1] = stream[b + 1] /\ \A j \in 1..c :
            t[b + 1 + j] = stream[b + 1 + j]
    BY <1>3, <2>5
  <2>7. QED
    BY <2>1, <2>2, <2>6 DEF b, c, d, e
<1>9. /\ s[n + 1 + 1] = s[n + 1] + 1 + Len(package[n + 1].data)
      /\ t[s[n + 1] + 1] = packet2header(package[n + 1])
      /\ \A j \in 1..Len(package[n + 1].data) :
             t[s[n + 1] + 1 + j] = package[n + 1].data[j]
  <2>1. s[n + 1] = length
    BY <1>2, <1>6
  <2>2. n + 1 + 1 = n + 2
    OBVIOUS
  <2>3. s[n + 1 + 1] = length + 1 + count
    BY <1>6, <2>2 DEF next
  <2>4. QED
    BY <1>3, <2>1, <2>3 DEF count, header, data, p
<1>10. IsLayout(package, n + 1, s, t)
  <2>1. n + 1 + 1 = n + 2 /\ \A i \in 1..n + 1 : i \in 1..n \/ i = n + 1
    OBVIOUS
  <2>2. Len(t) = s[n + 1 + 1]
    BY <1>3, <1>4, <1>6, <2>1
  <2>3. QED
    BY <1>3, <1>5, <1>6, <1>7, <1>8, <1>9, <2>1, <2>2 DEF IsLayout
<1>11. QED
  BY <1>10

\* The words of packets can be laid out one packet after the other.
LEMMA LayoutExists ==
    ASSUME NEW package \in Seq(ConfigurationPacket)
    PROVE  \E s, t : IsLayout(package, Len(package), s, t)
<1> DEFINE HasLayout(n) == \E s, t : IsLayout(package, n, s, t)
           Lacking == {n \in 0..Len(package) : ~HasLayout(n)}
<1>1. Len(package) \in Nat
  BY LenProperties
<1>2. HasLayout(0)
  <2>1. IsLayout(package, 0, [i \in 1..1 |-> 0], <<>>)
    BY DEF IsLayout
  <2>2. QED
    BY <2>1
<1>3. \A n \in 0..Len(package) - 1 : HasLayout(n) => HasLayout(n + 1)
  BY <1>1, LayoutStep
<1> HIDE DEF HasLayout
<1>4. SUFFICES ASSUME Lacking # {} PROVE FALSE
  BY <1>1 DEF HasLayout
<1>5. PICK n \in Lacking : \A m \in Lacking : n <= m
  <2>1. Lacking \subseteq Nat
    BY <1>1
  <2>2. QED
    BY <1>4, <2>1, NatLeast
<1>6. n \in 1..Len(package) /\ n - 1 \notin Lacking
  BY <1>1, <1>2, <1>5
<1>7. HasLayout(n - 1) /\ n - 1 \in 0..Len(package) - 1 /\ n - 1 + 1 = n
  BY <1>1, <1>6
<1>8. QED
  BY <1>3, <1>5, <1>7

Layout(package) ==
    CHOOSE l : IsLayout(package, Len(package), l.start, l.stream)

Start(package) == Layout(package).start

Stream(package) == Layout(package).stream

\* So Start and Stream are such a layout.
LEMMA LayoutProperties ==
    ASSUME NEW package \in Seq(ConfigurationPacket)
    PROVE  IsLayout(package, Len(package), Start(package), Stream(package))
<1>1. PICK s, t : IsLayout(package, Len(package), s, t)
  BY LayoutExists
<1> DEFINE l == [start |-> s, stream |-> t]
<1>2. IsLayout(package, Len(package), l.start, l.stream)
  BY <1>1
<1> HIDE DEF l
<1>3. QED
  BY <1>2 DEF Start, Stream, Layout

-----------------------------------------------------------------------------
(***************************************************************************)
(* What InitWithWords makes of the words from the start of a packet on, if *)
(* the stream ends after its first k words: the packet, if all of it is    *)
(* there, and nothing otherwise.                                           *)
(***************************************************************************)
LEMMA WordsOfNext ==
    ASSUME NEW package \in Seq(ConfigurationPacket), NEW m \in 1..Len(package)
    PROVE  LET b == Start(package)[m]
               e == Start(package)[m + 1]
               own == WordsOfPacket(package[m])
           IN /\ package[m] \in ConfigurationPacket
              /\ b \in Nat /\ e \in Nat /\ Len(Stream(package)) \in Nat
              /\ Len(package[m].data) \in Nat
              /\ e = b + 1 + Len(package[m].data) /\ e <= Len(Stream(package))
              /\ own \in Seq(Nat) /\ Len(own) = 1 + Len(package[m].data)
              /\ \A j \in 1..Len(own) : Stream(package)[b + j] = own[j]
              /\ Stream(package) \in Seq(Nat)
<1> DEFINE start == Start(package)
           stream == Stream(package)
           n == Len(package)
           p == package[m]
           data == p.data
           count == Len(data)
           header == packet2header(p)
           own == WordsOfPacket(p)
           b == start[m]
           e == start[m + 1]
<1>1. n \in Nat /\ m \in 1..n + 1 /\ m + 1 \in 1..n + 1
  BY LenProperties
<1>2. IsLayout(package, n, start, stream)
  BY LayoutProperties
<1>3. /\ p \in ConfigurationPacket /\ data \in Seq(Nat)
      /\ count \in Nat /\ header \in Nat
  <2>1. p \in ConfigurationPacket
    BY ElementOfSeq
  <2>2. data \in Seq(Nat)
    BY <2>1 DEF ConfigurationPacket
  <2>3. QED
    BY <2>1, <2>2, LenProperties, EveryHeaderIsNat
<1>4. /\ own \in Seq(Nat) /\ Len(own) = 1 + count /\ own[1] = header
      /\ \A j \in 1..count : own[1 + j] = data[j]
  <2> HIDE DEF header, data
  <2>1. own = <<header>> \o data
    BY DEF WordsOfPacket, header, data
  <2> HIDE DEF own
  <2>2. QED
    BY <1>3, <2>1, SMT
<1> HIDE DEF start, stream, n, own, header
<1>5. /\ b \in Nat /\ e \in Nat /\ stream \in Seq(Nat) /\ e <= Len(stream)
  BY <1>1, <1>2 DEF IsLayout
<1>6. /\ e = b + 1 + count /\ stream[b + 1] = header
      /\ \A j \in 1..count : stream[b + 1 + j] = data[j]
  BY <1>2 DEF IsLayout, n, header
<1>7. Len(stream) \in Nat
  BY <1>5, LenProperties
<1> HIDE DEF b, e, data, count
<1>8. ASSUME NEW j \in 1..Len(own) PROVE stream[b + j] = own[j]
  <2>1. CASE j = 1
    BY <1>4, <1>6, <2>1
  <2>2. CASE j # 1
    <3>1. PICK i \in 1..count : j = 1 + i /\ b + j = b + 1 + i
      <4>1. j - 1 \in 1..count /\ j = 1 + (j - 1) /\ b + j = b + 1 + (j - 1)
        BY <1>3, <1>4, <1>5, <2>2, SMT
      <4>2. QED
        BY <4>1
    <3>2. QED
      BY <1>4, <1>6, <3>1
  <2>3. QED
    BY <2>1, <2>2
<1>9. QED
  BY <1>3, <1>4, <1>5, <1>6, <1>7, <1>8
     DEF start, stream, n, own, b, e, data, count

\* The words of the stream after the first b, if it ends after the first k.
From(package, b, k) == SubSeq(Stream(package), b + 1, k)

\* The words from one place of the stream to a later one.
LEMMA FromProperties ==
    ASSUME NEW package \in Seq(ConfigurationPacket),
           NEW b \in Nat, NEW k \in Nat, b <= k, k <= Len(Stream(package))
    PROVE  /\ From(package, b, k) \in Seq(Nat)
           /\ Len(From(package, b, k)) = k - b
           /\ \A j \in 1..k - b : From(package, b, k)[j] = Stream(package)[b + j]
<1>1. Stream(package) \in Seq(Nat)
  BY LayoutProperties DEF IsLayout
<1>2. QED
  BY <1>1, Part DEF From

\* All words of the packet are there.
LEMMA TakesWhole ==
    ASSUME NEW package \in Seq(ConfigurationPacket), NEW m \in 1..Len(package),
           NEW k \in Nat, Start(package)[m + 1] <= k, k <= Len(Stream(package)),
           NEW previous, SayableAfter(package[m], previous)
    PROVE  LET words_m == From(package, Start(package)[m], k)
               rest == From(package, Start(package)[m + 1], k)
           IN /\ InitWithWords(words_m, previous) = Result(rest, {package[m]})
              /\ rest # words_m
              /\ words_m # <<>>
<1> DEFINE stream == Stream(package)
           b == Start(package)[m]
           e == Start(package)[m + 1]
           p == package[m]
           own == WordsOfPacket(p)
           count == Len(p.data)
           front == From(package, b, k)
           rest == From(package, e, k)
<1>1. /\ p \in ConfigurationPacket
      /\ b \in Nat /\ e \in Nat /\ count \in Nat
      /\ e = b + 1 + count
      /\ own \in Seq(Nat) /\ Len(own) = 1 + count
      /\ \A j \in 1..Len(own) : stream[b + j] = own[j]
  BY WordsOfNext
<1> HIDE DEF stream, b, e, p, own, count
<1>2. e <= k /\ k <= Len(stream) /\ SayableAfter(p, previous)
  BY DEF e, stream, p
<1>3. b <= k
  BY <1>1, <1>2, SMT
<1>4. /\ front \in Seq(Nat) /\ Len(front) = k - b
      /\ \A j \in 1..k - b : front[j] = stream[b + j]
  BY <1>1, <1>2, <1>3, FromProperties DEF stream
<1>5. /\ rest \in Seq(Nat) /\ Len(rest) = k - e
      /\ \A j \in 1..k - e : rest[j] = stream[e + j]
  BY <1>1, <1>2, FromProperties DEF stream
<1> HIDE DEF front, rest
<1>6. /\ own \o rest \in Seq(Nat) /\ Len(own \o rest) = 1 + count + (k - e)
      /\ \A j \in 1..1 + count : (own \o rest)[j] = own[j]
      /\ \A j \in 1..k - e : (own \o rest)[1 + count + j] = rest[j]
  <2>1. own \in Seq(Nat) /\ rest \in Seq(Nat)
    BY <1>1, <1>5
  <2>2. /\ own \o rest \in Seq(Nat) /\ Len(own \o rest) = Len(own) + Len(rest)
        /\ \A j \in 1..Len(own) : (own \o rest)[j] = own[j]
        /\ \A j \in 1..Len(rest) : (own \o rest)[Len(own) + j] = rest[j]
    BY <2>1, Joined
  <2>3. Len(own) = 1 + count /\ Len(rest) = k - e
    BY <1>1, <1>5
  <2>4. QED
    BY <2>2, <2>3, Zenon
<1>7. front = own \o rest
  <2> DEFINE u == own \o rest
  <2>1. Len(front) = Len(u)
    <3>1. Len(u) = 1 + count + (k - e)
      BY <1>6
    <3>2. Len(front) = k - b
      BY <1>4
    <3>3. e = b + 1 + count /\ b \in Nat /\ count \in Nat /\ e \in Nat
      BY <1>1
    <3> HIDE DEF u
    <3>4. QED
      BY <3>1, <3>2, <3>3, SMT
  <2>2. ASSUME NEW j \in 1..Len(front) PROVE front[j] = u[j]
    <3>1. j \in 1..k - b /\ front[j] = stream[b + j]
      BY <1>4
    <3>2. CASE j <= 1 + count
      <4>1. j \in 1..1 + count
        BY <1>1, <3>1, <3>2, SMT
      <4>2. QED
        BY <1>1, <1>6, <3>1, <4>1
    <3>3. CASE ~(j <= 1 + count)
      <4>1. PICK i \in 1..k - e : j = 1 + count + i /\ b + j = e + i
        <5>1. e = b + 1 + count /\ b \in Nat /\ count \in Nat /\ e \in Nat
          BY <1>1
        <5>2. /\ j - (1 + count) \in 1..k - e
              /\ j = 1 + count + (j - (1 + count))
              /\ b + j = e + (j - (1 + count))
          BY <1>2, <3>1, <3>3, <5>1, SMT
        <5>3. QED
          BY <5>2
      <4>2. QED
        BY <1>5, <1>6, <3>1, <4>1
    <3>4. QED
      BY <3>2, <3>3
  <2>3. u \in Seq(Nat)
    BY <1>6
  <2> HIDE DEF u
  <2>4. front = u
    BY <1>4, <2>1, <2>2, <2>3, SeqEqual
  <2>5. QED
    BY <2>4 DEF u
<1>8. InitWithWords(front, previous) = Result(rest, {p})
  BY <1>1, <1>2, <1>5, <1>7, ParsesWhatIsWritten DEF own
<1>9. Len(rest) # Len(front) /\ Len(front) # 0
  <2>1. /\ e = b + 1 + count /\ b \in Nat /\ count \in Nat /\ e \in Nat
        /\ Len(rest) = k - e /\ Len(front) = k - b
    BY <1>1, <1>4, <1>5
  <2>2. QED
    BY <1>2, <2>1, SMT
<1>10. rest # front /\ front # <<>>
  BY <1>9
<1>11. QED
  BY <1>8, <1>10 DEF front, rest, b, e, p

\* Some words of the packet are not there.
LEMMA TakesNothing ==
    ASSUME NEW package \in Seq(ConfigurationPacket), NEW m \in 1..Len(package),
           NEW k \in Nat, Start(package)[m] <= k, k < Start(package)[m + 1],
           NEW previous, SayableAfter(package[m], previous)
    PROVE  LET words_m == From(package, Start(package)[m], k)
           IN InitWithWords(words_m, previous) = Result(words_m, {})
<1> DEFINE stream == Stream(package)
           b == Start(package)[m]
           e == Start(package)[m + 1]
           p == package[m]
           own == WordsOfPacket(p)
           count == Len(p.data)
           front == From(package, b, k)
           first == SubSeq(own, 1, k - b)
<1>1. /\ p \in ConfigurationPacket
      /\ b \in Nat /\ e \in Nat /\ count \in Nat /\ Len(stream) \in Nat
      /\ e = b + 1 + count /\ e <= Len(stream)
      /\ own \in Seq(Nat) /\ Len(own) = 1 + count
      /\ \A j \in 1..Len(own) : stream[b + j] = own[j]
  BY WordsOfNext
<1> HIDE DEF stream, b, e, p, own, count
<1>2. b <= k /\ k < e /\ SayableAfter(p, previous)
  BY DEF b, e, p
<1>3. k <= Len(stream) /\ k - b \in 0..count
  <2>1. /\ b \in Nat /\ e \in Nat /\ count \in Nat /\ Len(stream) \in Nat
        /\ e = b + 1 + count /\ e <= Len(stream)
    BY <1>1
  <2>2. QED
    BY <1>2, <2>1, SMT
<1>4. /\ front \in Seq(Nat) /\ Len(front) = k - b
      /\ \A j \in 1..k - b : front[j] = stream[b + j]
  BY <1>1, <1>2, <1>3, FromProperties DEF stream
<1>5. /\ first \in Seq(Nat) /\ Len(first) = k - b
      /\ \A j \in 1..k - b : first[j] = own[j]
  <2>1. k - b \in Nat /\ k - b <= Len(own)
    BY <1>1, <1>3
  <2>2. QED
    BY <1>1, <2>1, FirstPart
<1> HIDE DEF front, first
<1>6. front = first
  <2>1. \A j \in 1..k - b : j \in 1..Len(own)
    BY <1>1, <1>3, SMT
  <2>2. \A j \in 1..Len(front) : front[j] = first[j]
    BY <1>1, <1>4, <1>5, <2>1
  <2>3. QED
    BY <1>4, <1>5, <2>2, SeqEqual
<1>7. CASE p.header_type # NONE
  <2>1. InitWithWords(first, previous) = Result(first, {})
    BY <1>1, <1>2, <1>3, <1>7, IncompleteIsNotParsed DEF first, own, count
  <2>2. QED
    BY <1>6, <2>1 DEF front, b
<1>8. CASE p.header_type = NONE
  <2>1. p = Packet(NONE, NOP, CRC, <<>>)
    BY <1>2, <1>8 DEF SayableAfter
  <2>2. count = 0
    BY <2>1 DEF Packet, count
  <2>3. front = <<>>
    BY <1>3, <1>4, <2>2
  <2>4. QED
    BY <2>3 DEF InitWithWords, front, b
<1>9. QED
  BY <1>7, <1>8

-----------------------------------------------------------------------------
(***************************************************************************)
(* The writer.  While it is at work the file holds the file header and the *)
(* words put so far, as far as there was room for them.                    *)
(***************************************************************************)
FileHeaderSize == Len(FileHeader)

HeaderSize == Len(header_)

StreamSize == Len(Stream(packets))

\* The bytes of word w of the file, and the offset of byte b of it.
WordBytes(w) == IF w <= HeaderSize THEN header_[w]
                ELSE Writer!BytesOf(Stream(packets)[w - HeaderSize])

At(w, b) == FileHeaderSize + 4 * (w - 1) + b

\* The number of words put so far, from where the iterators are.
WordsPut ==
    IF itr_header <= HeaderSize THEN itr_header - 1
    ELSE HeaderSize + Start(packets)[itr_packets]
             + (IF state = "data" THEN itr_data ELSE 0)

\* The first byte of the sync word.
SyncByte == 170

RoomInv ==
    /\ room \in Nat /\ room <= LargestFile
    /\ out_file \in Seq(Nat)
    /\ good \in BOOLEAN
    /\ Len(out_file) <= room
    /\ good \/ Len(out_file) = room

\* The file after c words.  Of the length in the file header it matters only
\* that it does not begin like the sync word.
FileHolds(c) ==
    /\ Len(out_file) <= FileHeaderSize + 4 * c
    /\ good => Len(out_file) = FileHeaderSize + 4 * c
    /\ \A k \in 1..FileHeaderSize - 4 :
           k <= Len(out_file) => out_file[k] = FileHeader[k]
    /\ FileHeaderSize - 3 <= Len(out_file) =>
           out_file[FileHeaderSize - 3] # SyncByte
    /\ \A w \in 1..c, b \in 1..4 :
           At(w, b) <= Len(out_file) => out_file[At(w, b)] = WordBytes(w)[b]

IteratorInv ==
    /\ itr_header \in 1..HeaderSize + 1
    /\ itr_packets \in 1..Len(packets) + 1
    /\ state \in {"header", "data"}
    /\ itr_header <= HeaderSize => itr_packets = 1 /\ state = "header"
    /\ state = "data" => /\ itr_packets <= Len(packets)
                         /\ itr_data \in 1..Len(packets[itr_packets].data)

WriterInv ==
    /\ header_ \in Headers /\ packets \in Packages
    /\ RoomInv
    /\ IteratorInv
    /\ status \in {"created", "unopened", "writing", "written"}
    /\ status \in {"created", "unopened"} =>
           out_file = <<>> /\ good = TRUE /\ itr_header = 1
    /\ status = "written" =>
           itr_header = HeaderSize + 1 /\ itr_packets = Len(packets) + 1
    /\ status \in {"writing", "written"} => FileHolds(WordsPut)

\* The sizes of the two headers, from the assumptions about them.
LEMMA Sizes ==
    ASSUME header_ \in Headers
    PROVE  /\ FileHeader \in Seq(Nat)
           /\ FileHeaderSize \in Nat /\ FileHeaderSize >= 4
           /\ HeaderSize \in Nat \ {0}
           /\ \A w \in 1..HeaderSize :
                 header_[w] \in Seq(Nat) /\ Len(header_[w]) = 4
<1>1. FileHeader \in Seq(Nat)
  <2>1. 0..255 \subseteq Nat /\ FileHeader \in Seq(0..255)
    BY BitstreamAssumption
  <2>2. QED
    BY <2>1, SeqMonotonic
<1>2. FileHeaderSize \in Nat /\ FileHeaderSize >= 4
  BY <1>1, BitstreamAssumption, LenProperties DEF FileHeaderSize
<1>3. header_ \in Seq([1..4 -> 0..255]) /\ header_ # <<>>
  BY BitstreamAssumption
<1>4. HeaderSize \in Nat \ {0}
  BY <1>3, EmptySeq DEF HeaderSize
<1>5. ASSUME NEW w \in 1..HeaderSize
      PROVE  header_[w] \in Seq(Nat) /\ Len(header_[w]) = 4
  <2> DEFINE bytes == header_[w]
  <2>1. bytes \in [1..4 -> 0..255]
    BY <1>3, ElementOfSeq DEF HeaderSize
  <2> HIDE DEF bytes
  <2>2. bytes \in [1..4 -> Nat] /\ 4 \in Nat
    BY <2>1
  <2>3. bytes \in Seq(Nat)
    <3>1. Seq(Nat) = UNION {[1..n -> Nat] : n \in Nat}
      BY SeqDef
    <3>2. QED
      BY <2>2, <3>1
  <2>4. Len(bytes) \in Nat /\ DOMAIN bytes = 1..Len(bytes)
    BY <2>3, LenProperties
  <2>5. Len(bytes) = 4
    <3> DEFINE l == Len(bytes)
    <3>1. l \in Nat /\ 1..l = 1..4
      BY <2>2, <2>4
    <3> HIDE DEF l
    <3>2. 4 \in 1..l /\ (l >= 1 => l \in 1..4)
      BY <3>1
    <3>3. l = 4
      BY <3>1, <3>2
    <3>4. QED
      BY <3>3 DEF l
  <2>6. QED
    BY <2>3, <2>5 DEF bytes
<1>6. QED
  BY <1>1, <1>2, <1>4, <1>5

\* A word is written as four bytes.
LEMMA BytesOfWord ==
    ASSUME NEW word \in Nat
    PROVE  Writer!BytesOf(word) \in Seq(Nat) /\ Len(Writer!BytesOf(word)) = 4
<1> DEFINE b1 == word \div 16777216
           b2 == (word \div 65536) % 256
           b3 == (word \div 256) % 256
           b4 == word % 256
<1>1. b1 \in Nat /\ b2 \in Nat /\ b3 \in Nat /\ b4 \in Nat
  BY SMT
<1>2. Writer!BytesOf(word) = <<b1, b2, b3, b4>>
  BY DEF Writer!BytesOf
<1> HIDE DEF b1, b2, b3, b4
<1>3. QED
  BY <1>1, <1>2

\* What is put into the file, and what is dropped.
LEMMA PutProperties ==
    ASSUME NEW bytes \in Seq(Nat), Writer!Put(bytes), RoomInv, room' = room
    PROVE  /\ RoomInv'
           /\ Len(out_file) <= Len(out_file')
           /\ Len(out_file') <= Len(out_file) + Len(bytes)
           /\ good' => good /\ Len(out_file') = Len(out_file) + Len(bytes)
           /\ ~good => Len(out_file') = Len(out_file)
           /\ \A k \in 1..Len(out_file) : out_file'[k] = out_file[k]
           /\ \A k \in 1..Len(bytes) :
                  good /\ Len(out_file) + k <= Len(out_file') =>
                      out_file'[Len(out_file) + k] = bytes[k]
<1> DEFINE wanted == out_file \o bytes
           l == Len(out_file)
           n == Len(bytes)
<1>1. /\ room \in Nat /\ out_file \in Seq(Nat) /\ l \in Nat /\ n \in Nat
      /\ room <= LargestFile /\ good \in BOOLEAN
      /\ l <= room /\ (good \/ l = room)
  BY LenProperties DEF RoomInv
<1>2. /\ wanted \in Seq(Nat) /\ Len(wanted) = l + n
      /\ \A k \in 1..l : wanted[k] = out_file[k]
      /\ \A k \in 1..n : wanted[l + k] = bytes[k]
  BY <1>1, Joined
<1>3. CASE good /\ l + n <= room
  <2>1. out_file' = wanted /\ good' = good
    BY <1>2, <1>3 DEF Writer!Put
  <2> HIDE DEF wanted
  <2>2. l <= l + n
    BY <1>1
  <2>3. RoomInv'
    BY <1>1, <1>2, <1>3, <2>1 DEF RoomInv
  <2>4. l + n <= l + n /\ Len(out_file') = l + n
    BY <1>1, <1>2, <2>1
  <2>5. /\ \A k \in 1..l : out_file'[k] = out_file[k]
        /\ \A k \in 1..n : out_file'[l + k] = bytes[k]
    BY <1>2, <2>1
  <2>6. QED
    BY <1>3, <2>2, <2>3, <2>4, <2>5, Zenon
<1>4. CASE good /\ ~(l + n <= room)
  <2>1. out_file' = SubSeq(wanted, 1, room) /\ good' = FALSE
    BY <1>2, <1>4 DEF Writer!Put
  <2> HIDE DEF wanted, l, n
  <2>2. room <= Len(wanted)
    BY <1>1, <1>2, <1>4
  <2>3. /\ out_file' \in Seq(Nat) /\ Len(out_file') = room
        /\ \A i \in 1..room : out_file'[i] = wanted[i]
    BY <1>1, <1>2, <2>1, <2>2, FirstPart
  <2>4. \A k \in 1..l : out_file'[k] = out_file[k]
    <3>1. \A k \in 1..l : k \in 1..room
      BY <1>1
    <3>2. QED
      BY <1>2, <2>3, <3>1
  <2>5. \A k \in 1..n : l + k <= room => out_file'[l + k] = bytes[k]
    <3>1. \A k \in 1..n : l + k <= room => l + k \in 1..room
      BY <1>1
    <3>2. QED
      BY <1>2, <2>3, <3>1
  <2>6. l <= room /\ room <= l + n
    BY <1>1, <1>4
  <2>7. RoomInv'
    <3>1. room' \in Nat /\ room' <= LargestFile /\ Len(out_file') <= room'
      BY <1>1, <2>3
    <3>2. QED
      BY <2>1, <2>3, <3>1, Zenon DEF RoomInv
  <2>8. Len(out_file') = room /\ ~good' /\ good
    BY <1>4, <2>1, <2>3
  <2>9. QED
    BY <2>4, <2>5, <2>6, <2>7, <2>8, Zenon DEF l, n
<1>5. CASE ~good
  <2>1. out_file' = out_file /\ good' = FALSE
    BY <1>5 DEF Writer!Put
  <2> HIDE DEF l, n
  <2>2. l <= l + n
    BY <1>1
  <2>3. RoomInv'
    BY <1>1, <1>5, <2>1 DEF RoomInv, l
  <2>4. l <= l /\ ~good'
    BY <1>1, <2>1
  <2>5. QED
    BY <1>5, <2>1, <2>2, <2>3, <2>4, Zenon DEF l, n
<1>6. QED
  BY <1>1, <1>3, <1>4, <1>5

\* A word that is put is the next word of the file.
LEMMA WordIsPut ==
    ASSUME NEW c \in Nat, FileHolds(c), RoomInv, header_ \in Headers,
           header_' = header_, packets' = packets, room' = room,
           NEW bytes \in Seq(Nat), Len(bytes) = 4,
           bytes = WordBytes(c + 1), Writer!Put(bytes)
    PROVE  RoomInv' /\ FileHolds(c + 1)'
<1> DEFINE l == Len(out_file)
           k == Len(out_file')
           F == FileHeaderSize
<1>1. l \in Nat /\ F \in Nat /\ F >= 4
  BY Sizes, LenProperties DEF RoomInv
<1>2. RoomInv' /\ k \in Nat
  BY PutProperties, LenProperties DEF RoomInv
<1>3. /\ l <= k /\ k <= l + 4
      /\ good' => good /\ k = l + 4
      /\ ~good => k = l
      /\ \A i \in 1..l : out_file'[i] = out_file[i]
      /\ \A b \in 1..4 : good /\ l + b <= k => out_file'[l + b] = bytes[b]
  BY PutProperties
<1>4. /\ l <= F + 4 * c /\ (good => l = F + 4 * c)
      /\ good \/ l = room
  BY DEF FileHolds, RoomInv
<1>5. \A w : WordBytes(w)' = WordBytes(w)
  BY DEF WordBytes, HeaderSize
<1>6. \A w, b : At(w, b)' = At(w, b)
  BY DEF At
<1>7. \A i \in 1..F - 4 : i <= k => out_file'[i] = FileHeader[i]
  <2>1. TAKE i \in 1..F - 4
  <2>2. CASE i <= l
    <3>1. i \in 1..l
      BY <1>1, <2>2
    <3>2. QED
      BY <1>3, <2>2, <3>1 DEF FileHolds
  <2>3. CASE ~(i <= l)
    <3> HIDE DEF l, k, F
    <3>1. ~good
      BY <1>1, <1>4, <2>3
    <3>2. ~(i <= k)
      BY <1>3, <2>3, <3>1
    <3>3. QED
      BY <3>2
  <2>4. QED
    BY <2>2, <2>3
<1>8. F - 3 <= k => out_file'[F - 3] # SyncByte
  <2>1. CASE F - 3 <= l
    <3>1. F - 3 \in 1..l
      BY <1>1, <2>1
    <3>2. QED
      BY <1>3, <2>1, <3>1 DEF FileHolds
  <2>2. CASE ~(F - 3 <= l)
    <3> HIDE DEF l, k, F
    <3>1. ~good
      BY <1>1, <1>4, <2>2
    <3>2. QED
      BY <1>3, <2>2, <3>1
  <2>3. QED
    BY <2>1, <2>2
<1>9. ASSUME NEW w \in 1..c + 1, NEW b \in 1..4, At(w, b) <= k
      PROVE  out_file'[At(w, b)] = WordBytes(w)[b]
  <2> DEFINE a == At(w, b)
  <2>1. a = F + 4 * (w - 1) + b
    BY DEF At
  <2>2. CASE w \in 1..c
    <3>1. a \in 1..l
      <4>1. a <= F + 4 * c /\ a \in Nat /\ a > 0
        BY <1>1, <2>1, <2>2
      <4> HIDE DEF a, l, k, F
      <4>2. CASE good
        BY <1>1, <1>4, <4>1, <4>2
      <4>3. CASE ~good
        BY <1>1, <1>3, <1>9, <4>1, <4>3 DEF a, k
      <4>4. QED
        BY <4>2, <4>3
    <3>2. a <= l
      BY <3>1
    <3> HIDE DEF a
    <3>3. out_file[a] = WordBytes(w)[b]
      BY <2>2, <3>2 DEF FileHolds, a
    <3>4. QED
      BY <1>3, <3>1, <3>3 DEF a
  <2>3. CASE w = c + 1
    <3>1. a = F + 4 * c + b
      BY <1>1, <2>1, <2>3
    <3> HIDE DEF a, l, k, F
    <3>2. a <= k
      BY <1>9 DEF a, k
    <3>3. good
      <4>1. SUFFICES ASSUME ~good PROVE FALSE
        OBVIOUS
      <4>2. k = l
        BY <1>3, <4>1
      <4>3. QED
        BY <1>1, <1>4, <3>1, <3>2, <4>2
    <3>4. l = F + 4 * c
      BY <1>4, <3>3
    <3>5. a = l + b
      BY <3>1, <3>4
    <3>6. out_file'[a] = bytes[b]
      BY <1>3, <3>2, <3>3, <3>5
    <3>7. QED
      BY <2>3, <3>6 DEF a
  <2>4. w \in 1..c \/ w = c + 1
    OBVIOUS
  <2>5. QED
    BY <2>2, <2>3, <2>4
<1>10. k <= F + 4 * (c + 1) /\ (good' => k = F + 4 * (c + 1))
  <2> HIDE DEF l, k, F
  <2>1. k <= l + 4 /\ l <= F + 4 * c
    BY <1>3, <1>4
  <2>2. good' => k = l + 4 /\ l = F + 4 * c
    BY <1>3, <1>4
  <2>3. QED
    BY <1>1, <1>2, <2>1, <2>2
<1>11. QED
  BY <1>2, <1>5, <1>6, <1>7, <1>8, <1>9, <1>10 DEF FileHolds

\* The length that is written back into the file header is all that changes.
LEMMA LengthIsPatched ==
    ASSUME NEW c \in Nat, FileHolds(c), RoomInv, Writer!PatchLength,
           header_ \in Headers, header_' = header_
    PROVE  RoomInv' /\ FileHolds(c)'
<1> DEFINE l == Len(out_file)
           F == FileHeaderSize
           text == SubSeq(out_file, 1, F - 4)
           length == Writer!BytesOf(l - F)
           rest == SubSeq(out_file, F + 1, l)
           head == text \o length
           patched == head \o rest
<1>1. /\ l \in Nat /\ F \in Nat /\ F >= 4 /\ out_file \in Seq(Nat)
      /\ room \in Nat /\ l <= room /\ room <= LargestFile
  BY Sizes, LenProperties DEF RoomInv
<1>2. packets' = packets /\ room' = room /\ good' = good
  BY DEF Writer!PatchLength
<1>3. \A w : WordBytes(w)' = WordBytes(w)
  BY <1>2 DEF WordBytes, HeaderSize
<1>4. \A w, b : At(w, b)' = At(w, b)
  BY DEF At
<1>5. CASE ~good
  <2>1. out_file' = out_file
    BY <1>5 DEF Writer!PatchLength
  <2>2. RoomInv'
    BY <1>2, <2>1 DEF RoomInv
  <2>3. FileHolds(c)'
    BY <1>2, <1>3, <1>4, <1>5, <2>1, Zenon DEF FileHolds
  <2>4. QED
    BY <2>2, <2>3
<1>6. CASE good
  <2>1. l = F + 4 * c
    BY <1>6 DEF FileHolds
  <2>2. out_file' = patched
    BY <1>6 DEF Writer!PatchLength, FileHeaderSize
  <2>3. F - 4 \in Nat /\ F - 4 <= l /\ F <= l /\ l - F \in Nat
    <3> HIDE DEF l, F
    <3>1. QED
      BY <1>1, <2>1
  <2>4. /\ text \in Seq(Nat) /\ Len(text) = F - 4
        /\ \A k \in 1..F - 4 : text[k] = out_file[k]
    BY <1>1, <2>3, FirstPart
  <2>5. /\ length \in Seq(Nat) /\ Len(length) = 4
    BY <2>3, BytesOfWord
  <2>6. length[1] # SyncByte
    <3> DEFINE n == l - F
    <3>1. n \in Nat /\ n <= LargestFile
      <4> HIDE DEF l, F
      <4>1. LargestFile \in Nat
        BY SMT DEF LargestFile
      <4>2. QED
        BY <1>1, <2>3, <4>1
    <3>2. length[1] = n \div 16777216
      BY DEF Writer!BytesOf
    <3> HIDE DEF n, length
    <3>3. n \div 16777216 <= 127 /\ n \div 16777216 \in Nat
      BY <3>1, SMT DEF LargestFile
    <3>4. QED
      BY <3>2, <3>3 DEF SyncByte
  <2>7. /\ rest \in Seq(Nat) /\ Len(rest) = l - F
        /\ \A k \in 1..l - F : rest[k] = out_file[F + k]
    BY <1>1, <2>3, Part
  <2> HIDE DEF text, length, rest, l, F
  <2>8. /\ head \in Seq(Nat) /\ Len(head) = Len(text) + Len(length)
        /\ \A k \in 1..Len(text) : head[k] = text[k]
        /\ \A k \in 1..Len(length) : head[Len(text) + k] = length[k]
    BY <2>4, <2>5, Joined
  <2>9. Len(text) = F - 4 /\ Len(length) = 4 /\ F - 4 + 4 = F /\ F - 4 + 1 = F - 3
    BY <1>1, <2>4, <2>5
  <2>10. Len(head) = F
    BY <2>8, <2>9
  <2>11. /\ \A k \in 1..F - 4 : head[k] = out_file[k]
         /\ head[F - 3] # SyncByte
    <3> HIDE DEF head
    <3>1. \A k \in 1..F - 4 : head[k] = text[k]
      BY <2>8, <2>9, Zenon
    <3>2. head[Len(text) + 1] = length[1]
      <4>1. 1 \in 1..4
        OBVIOUS
      <4>2. QED
        BY <2>8, <2>9, <4>1, Zenon
    <3>3. Len(text) + 1 = F - 3
      BY <2>9, Zenon
    <3>4. head[F - 3] # SyncByte
      BY <2>6, <3>2, <3>3, Zenon
    <3>5. \A k \in 1..F - 4 : head[k] = out_file[k]
      BY <2>4, <3>1, Zenon
    <3>6. QED
      BY <3>4, <3>5, Zenon
  <2> HIDE DEF head
  <2>12. /\ patched \in Seq(Nat) /\ Len(patched) = Len(head) + Len(rest)
         /\ \A k \in 1..Len(head) : patched[k] = head[k]
         /\ \A k \in 1..Len(rest) : patched[Len(head) + k] = rest[k]
    BY <2>7, <2>8, Joined
  <2>13. Len(head) = F /\ Len(rest) = l - F /\ F + (l - F) = l
    BY <1>1, <2>7, <2>10
  <2> HIDE DEF patched
  <2>14. /\ patched \in Seq(Nat) /\ Len(patched) = l
         /\ \A k \in 1..F : patched[k] = head[k]
         /\ \A k \in 1..l - F : patched[F + k] = rest[k]
    BY <2>12, <2>13, Zenon
  <2>15. RoomInv'
    BY <1>1, <1>2, <1>6, <2>2, <2>14 DEF RoomInv
  <2>16. ASSUME NEW k \in 1..F - 4 PROVE out_file'[k] = out_file[k]
    <3>1. k \in 1..F
      BY <1>1
    <3>2. QED
      BY <2>2, <2>11, <2>14, <3>1
  <2>17. out_file'[F - 3] # SyncByte
    <3>1. F - 3 \in 1..F
      BY <1>1
    <3>2. QED
      BY <2>2, <2>11, <2>14, <3>1
  <2>18. ASSUME NEW w \in 1..c, NEW b \in 1..4
         PROVE  out_file'[At(w, b)] = out_file[At(w, b)]
    <3> DEFINE k == 4 * (w - 1) + b
    <3>1. k \in 1..l - F
      BY <1>1, <2>1
    <3>2. At(w, b) = F + k
      <4>1. At(w, b) = F + 4 * (w - 1) + b
        BY DEF At, F
      <4>2. QED
        BY <1>1, <4>1
    <3> HIDE DEF k
    <3>3. QED
      BY <2>2, <2>7, <2>14, <3>1, <3>2
  <2>19. Len(out_file') = Len(out_file)
    BY <2>2, <2>14 DEF l
  <2>20. /\ \A k \in 1..FileHeaderSize - 4 :
               k <= Len(out_file) => out_file'[k] = FileHeader[k]
         /\ out_file'[FileHeaderSize - 3] # SyncByte
         /\ \A w \in 1..c, b \in 1..4 :
               At(w, b) <= Len(out_file) => out_file'[At(w, b)] = WordBytes(w)[b]
    BY <2>16, <2>17, <2>18 DEF FileHolds, F
  <2>21. FileHolds(c)'
    BY <1>2, <1>3, <1>4, <2>19, <2>20, Zenon DEF FileHolds
  <2>22. QED
    BY <2>15, <2>21
<1>7. QED
  BY <1>5, <1>6 DEF RoomInv

\* The words of the packets and where each packet starts.
LEMMA Starts ==
    ASSUME packets \in Packages
    PROVE  LET n == Len(packets)
               start == Start(packets)
               stream == Stream(packets)
           IN /\ packets \in Seq(ConfigurationPacket)
              /\ n \in Nat /\ StreamSize \in Nat /\ stream \in Seq(Nat)
              /\ start[1] = 0 /\ start[n + 1] = StreamSize
              /\ \A i \in 1..n + 1 : start[i] \in Nat /\ start[i] <= StreamSize
              /\ \A i \in 1..n :
                     /\ packets[i] \in ConfigurationPacket
                     /\ packets[i].data \in Seq(Nat)
                     /\ Len(packets[i].data) \in Nat
                     /\ start[i + 1] = start[i] + 1 + Len(packets[i].data)
                     /\ stream[start[i] + 1] = packet2header(packets[i])
                     /\ \A j \in 1..Len(packets[i].data) :
                            stream[start[i] + 1 + j] = packets[i].data[j]
<1> DEFINE n == Len(packets)
           start == Start(packets)
           stream == Stream(packets)
<1>1. packets \in Seq(ConfigurationPacket) /\ n \in Nat
  BY BitstreamAssumption, LenProperties
<1>2. IsLayout(packets, n, start, stream)
  BY <1>1, LayoutProperties
<1>3. \A i \in 1..n : packets[i] \in ConfigurationPacket
  BY <1>1, ElementOfSeq
<1>4. \A i \in 1..n : packets[i].data \in Seq(Nat)
  BY <1>3 DEF ConfigurationPacket
<1>5. \A i \in 1..n : Len(packets[i].data) \in Nat
  BY <1>4, LenProperties
<1> HIDE DEF n, start, stream
<1>6. stream \in Seq(Nat) /\ Len(stream) \in Nat
  BY <1>2, LenProperties DEF IsLayout
<1>7. \A i \in 1..n + 1 : start[i] \in Nat
  BY <1>2 DEF IsLayout
<1>8. start[1] = 0 /\ start[n + 1] = Len(stream)
      /\ \A i \in 1..n + 1 : start[i] <= Len(stream)
  BY <1>2, Zenon DEF IsLayout
<1>9. \A i \in 1..n :
          /\ start[i + 1] = start[i] + 1 + Len(packets[i].data)
          /\ stream[start[i] + 1] = packet2header(packets[i])
          /\ \A j \in 1..Len(packets[i].data) :
                 stream[start[i] + 1 + j] = packets[i].data[j]
  BY <1>2, Zenon DEF IsLayout
<1>10. QED
  BY <1>1, <1>3, <1>4, <1>5, <1>6, <1>7, <1>8, <1>9, Zenon
     DEF StreamSize, n, start, stream

\* The writer and the reader are over the same packets.
LEMMA SameHeader ==
    ASSUME NEW p
    PROVE  Writer!packet2header(p) = packet2header(p)
BY DEF Writer!packet2header, packet2header, Writer!Header, Header,
       Writer!ShortFields, ShortFields, Writer!LongFields, LongFields,
       Writer!LongCountSize, LongCountSize, Writer!NONE, NONE, Writer!TYPE1,
       TYPE1, Writer!TYPE2, TYPE2

\* What the file holds up to the words put is what it holds.
LEMMA HoldsNow ==
    ASSUME NEW c, FileHolds(c)', WordsPut' = c
    PROVE  FileHolds(WordsPut)'
BY Zenon DEF FileHolds

\* Nothing has been put in the file.
LEMMA InitWriterInv == Init => WriterInv
<1> SUFFICES ASSUME Init PROVE WriterInv
  OBVIOUS
<1>1. /\ header_ \in Headers /\ packets \in Packages /\ room \in Rooms(packets)
      /\ out_file = <<>> /\ good = TRUE /\ itr_header = 1 /\ itr_packets = 1
      /\ state = "header" /\ status = "created"
  BY DEF Init, Writer!InitWriter
<1>2. room \in Nat /\ room <= LargestFile
  BY <1>1, BitstreamAssumption, SyncAssumption
<1>3. RoomInv
  <2>1. out_file \in Seq(Nat) /\ Len(out_file) = 0
    BY <1>1
  <2>2. 0 <= room
    BY <1>2
  <2>3. QED
    BY <1>1, <1>2, <2>1, <2>2, Zenon DEF RoomInv
<1>4. IteratorInv
  <2>1. HeaderSize \in Nat /\ HeaderSize # 0 /\ Len(packets) \in Nat
    BY <1>1, Sizes, Starts
  <2>2. QED
    BY <1>1, <2>1 DEF IteratorInv
<1>5. QED
  BY <1>1, <1>3, <1>4 DEF WriterInv

\* The file header comes first.
LEMMA FileHeaderIsPut ==
    ASSUME WriterInv, Writer!PutFileHeader, header_' = header_
    PROVE  WriterInv'
<1> DEFINE l == Len(out_file')
           F == FileHeaderSize
<1>1. /\ status = "created" /\ Writer!Put(FileHeader) /\ status' = "writing"
      /\ packets' = packets /\ room' = room /\ itr_header' = itr_header
      /\ itr_packets' = itr_packets /\ state' = state /\ itr_data' = itr_data
  BY DEF Writer!PutFileHeader
<1>2. /\ header_ \in Headers /\ packets \in Packages /\ RoomInv /\ IteratorInv
      /\ out_file = <<>> /\ good = TRUE /\ itr_header = 1
  BY <1>1 DEF WriterInv
<1>3. /\ FileHeader \in Seq(Nat) /\ F \in Nat /\ F >= 4
      /\ HeaderSize \in Nat /\ HeaderSize # 0
  BY <1>2, Sizes
<1>4. IteratorInv'
  BY <1>1, <1>2 DEF IteratorInv, HeaderSize
<1>5. /\ RoomInv' /\ Len(out_file') <= Len(out_file) + Len(FileHeader)
      /\ good' => Len(out_file') = Len(out_file) + Len(FileHeader)
      /\ \A k \in 1..Len(FileHeader) :
             good /\ Len(out_file) + k <= Len(out_file') =>
                 out_file'[Len(out_file) + k] = FileHeader[k]
  BY <1>1, <1>2, <1>3, PutProperties
<1>6. l \in Nat /\ Len(out_file) = 0 /\ good
  <2>1. RoomInv'
    BY <1>5
  <2>2. l \in Nat
    BY <2>1, LenProperties DEF RoomInv
  <2>3. QED
    BY <1>2, <2>2
<1>7. /\ l <= F
      /\ good' => l = F
      /\ \A k \in 1..F : k <= l => out_file'[k] = FileHeader[k]
  <2>1. 0 + F = F /\ \A k \in 1..F : 0 + k = k
    BY <1>3
  <2>2. QED
    BY <1>5, <1>6, <2>1, Zenon DEF F, FileHeaderSize
<1>8. F - 3 <= l => out_file'[F - 3] # SyncByte
  <2>1. F - 3 \in 1..F /\ F - 3 > F - 7
    BY <1>3
  <2>2. F - 3 \in DOMAIN FileHeader
    BY <1>3, <2>1, LenProperties DEF FileHeaderSize
  <2>3. FileHeader[F - 3] # SyncByte
    BY <2>1, <2>2, SyncAssumption DEF FileHeaderSize, SyncByte
  <2>4. QED
    BY <1>7, <2>1, <2>3, Zenon
<1>9. F + 4 * 0 = F /\ \A k \in 1..F - 4 : k \in 1..F
  BY <1>3
<1>10. FileHolds(0)'
  BY <1>3, <1>7, <1>8, <1>9 DEF FileHolds
<1>11. WordsPut' = 0
  BY <1>1, <1>2, <1>3 DEF WordsPut, HeaderSize
<1>12. FileHolds(WordsPut)'
  BY <1>10, <1>11, HoldsNow
<1>13. QED
  BY <1>1, <1>2, <1>4, <1>5, <1>12 DEF WriterInv

\* What a step that puts a word leaves to show.
LEMMA WordStep ==
    ASSUME WriterInv, status = "writing", status' = "writing",
           header_' = header_, packets' = packets, room' = room,
           IteratorInv', WordsPut \in Nat,
           NEW bytes \in Seq(Nat), Len(bytes) = 4,
           bytes = WordBytes(WordsPut + 1), Writer!Put(bytes),
           WordsPut' = WordsPut + 1
    PROVE  WriterInv'
<1>1. header_ \in Headers /\ packets \in Packages /\ RoomInv
          /\ FileHolds(WordsPut)
  BY DEF WriterInv
<1> DEFINE c == WordsPut
<1>2. c \in Nat /\ FileHolds(c) /\ bytes = WordBytes(c + 1)
  BY <1>1
<1>3. c' = c + 1
  OBVIOUS
<1>4. RoomInv' /\ \E d : d = c + 1 /\ FileHolds(d)'
  <2>1. PICK d \in Nat : d = c
    BY <1>2
  <2>2. FileHolds(d) /\ bytes = WordBytes(d + 1)
    BY <1>2, <2>1
  <2>3. RoomInv' /\ FileHolds(d + 1)'
    BY <1>1, <2>2, WordIsPut
  <2>4. QED
    BY <2>1, <2>3, Zenon
<1>5. PICK d : d = c + 1 /\ FileHolds(d)'
  BY <1>4
<1>6. FileHolds(WordsPut)'
  BY <1>5, HoldsNow
<1>7. QED
  BY <1>1, <1>4, <1>6 DEF WriterInv

\* A word of the header is put.
LEMMA HeaderWordIsPut ==
    ASSUME WriterInv, Writer!PutHeaderWord, header_' = header_
    PROVE  WriterInv'
<1> DEFINE H == HeaderSize
           bytes == header_[itr_header]
<1>1. /\ status = "writing" /\ status' = "writing" /\ itr_header <= H
      /\ Writer!Put(bytes) /\ itr_header' = itr_header + 1
      /\ packets' = packets /\ room' = room /\ itr_packets' = itr_packets
      /\ state' = state /\ itr_data' = itr_data
  BY DEF Writer!PutHeaderWord, HeaderSize
<1>2. /\ header_ \in Headers /\ packets \in Packages /\ IteratorInv
             /\ itr_header \in 1..H + 1
      /\ itr_packets = 1 /\ state = "header"
  BY <1>1 DEF WriterInv, IteratorInv
<1>3. H \in Nat /\ H # 0 /\ Len(packets) \in Nat
  BY <1>2, Sizes, Starts
<1>4. itr_header \in 1..H
  BY <1>1, <1>2, <1>3
<1>5. bytes \in Seq(Nat) /\ Len(bytes) = 4
  BY <1>2, <1>4, Sizes
<1> HIDE DEF H, bytes
<1>6. IteratorInv'
  <2>1. HeaderSize' = HeaderSize /\ itr_header' \in 1..HeaderSize + 1
    BY <1>1, <1>3, <1>4 DEF H, HeaderSize
  <2>2. itr_packets' \in 1..Len(packets') + 1 /\ itr_packets' = 1
        /\ state' = "header"
    BY <1>1, <1>2, <1>3
  <2>3. QED
    BY <2>1, <2>2, Zenon DEF IteratorInv
<1>7. WordsPut = itr_header - 1 /\ WordsPut \in Nat
  BY <1>1, <1>3, <1>4 DEF WordsPut, H
<1>8. WordsPut' = itr_header
  <2>1. HeaderSize' = HeaderSize
    BY DEF HeaderSize
  <2>2. CASE itr_header' <= HeaderSize
    BY <1>1, <1>4, <2>1, <2>2 DEF WordsPut
  <2>3. CASE ~(itr_header' <= HeaderSize)
    <3>1. itr_header = HeaderSize
      BY <1>1, <1>3, <1>4, <2>3 DEF H
    <3>2. Start(packets)[1] = 0
      BY <1>2, Starts
    <3>3. WordsPut' = HeaderSize + Start(packets')[itr_packets']
                        + (IF state' = "data" THEN itr_data' ELSE 0)
      BY <2>1, <2>3 DEF WordsPut
    <3>4. WordsPut' = HeaderSize + 0 + 0
      BY <1>1, <1>2, <3>2, <3>3
    <3>5. QED
      BY <1>3, <3>1, <3>4 DEF H
  <2>4. QED
    BY <2>2, <2>3
<1>9. WordsPut + 1 = itr_header
  BY <1>4, <1>7
<1>10. bytes = WordBytes(WordsPut + 1)
  BY <1>1, <1>9 DEF WordBytes, H, bytes
<1>11. QED
  BY <1>1, <1>5, <1>6, <1>7, <1>8, <1>9, <1>10, WordStep

\* Where the writer is in a packet.
LEMMA InPacketFacts ==
    ASSUME WriterInv, Writer!InPacket
    PROVE  /\ status = "writing" /\ packets \in Packages
           /\ itr_packets \in 1..Len(packets) /\ itr_header = HeaderSize + 1
           /\ Len(packets) \in Nat /\ HeaderSize \in Nat
           /\ state \in {"header", "data"}
           /\ state = "data" =>
                  itr_data \in 1..Len(packets[itr_packets].data)
           /\ Start(packets)[itr_packets] \in Nat
           /\ WordsPut = HeaderSize + Start(packets)[itr_packets]
                           + (IF state = "data" THEN itr_data ELSE 0)
<1>1. /\ status = "writing" /\ itr_header > HeaderSize
      /\ itr_packets <= Len(packets)
  BY DEF Writer!InPacket, HeaderSize
<1>2. /\ header_ \in Headers /\ packets \in Packages
      /\ itr_header \in 1..HeaderSize + 1
      /\ itr_packets \in 1..Len(packets) + 1 /\ state \in {"header", "data"}
      /\ state = "data" => itr_data \in 1..Len(packets[itr_packets].data)
  BY DEF WriterInv, IteratorInv
<1>3. HeaderSize \in Nat /\ Len(packets) \in Nat
  BY <1>2, Sizes, Starts
<1>4. /\ itr_header = HeaderSize + 1 /\ ~(itr_header <= HeaderSize)
      /\ itr_packets \in 1..Len(packets)
  BY <1>1, <1>2, <1>3
<1>5. Start(packets)[itr_packets] \in Nat
  BY <1>2, <1>4, Starts
<1>6. QED
  BY <1>1, <1>2, <1>3, <1>4, <1>5 DEF WordsPut

\* The word that comes next, and what is shown of the iterators after it.
LEMMA PacketWordStep ==
    ASSUME WriterInv, Writer!InPacket, NEW word \in Nat,
           Writer!Put(Writer!BytesOf(word)),
           header_' = header_, packets' = packets, room' = room,
           itr_header' = itr_header,
           status' = status, NEW next \in Nat,
           WordsPut = HeaderSize + next, Stream(packets)[next + 1] = word,
           /\ itr_packets' \in 1..Len(packets) + 1
                  /\ state' \in {"header", "data"}
           /\ state' = "data" =>
                  /\ itr_packets' <= Len(packets)
                  /\ itr_data' \in 1..Len(packets[itr_packets'].data),
           Start(packets)[itr_packets']
               + (IF state' = "data" THEN itr_data' ELSE 0) = next + 1
    PROVE  WriterInv'
<1>1. /\ status = "writing" /\ packets \in Packages
      /\ itr_header = HeaderSize + 1 /\ HeaderSize \in Nat /\ HeaderSize # 0
  BY InPacketFacts, Sizes DEF WriterInv
<1> DEFINE bytes == Writer!BytesOf(word)
<1>2. bytes \in Seq(Nat) /\ Len(bytes) = 4
  BY BytesOfWord
<1> HIDE DEF bytes
<1>3. ~(itr_header' <= HeaderSize) /\ itr_header' \in 1..HeaderSize + 1
  BY <1>1
<1>4. IteratorInv'
  BY <1>3 DEF IteratorInv, HeaderSize
<1>5. WordsPut' = WordsPut + 1
  <2> DEFINE start == Start(packets)[itr_packets']
             part == IF state' = "data" THEN itr_data' ELSE 0
  <2>1. WordsPut' = HeaderSize + start + part
    BY <1>3 DEF WordsPut, HeaderSize
  <2>2. start + part = next + 1
    OBVIOUS
  <2>3. start \in Nat
    BY <1>1, Starts
  <2>4. part \in Int
    BY Starts, <1>1
  <2> HIDE DEF start, part
  <2>5. QED
    BY <1>1, <2>1, <2>2, <2>3, <2>4
<1>6. WordsPut + 1 = HeaderSize + (next + 1) /\ WordsPut \in Nat
  BY <1>1
<1>7. bytes = WordBytes(WordsPut + 1)
  <2>1. ~(HeaderSize + (next + 1) <= HeaderSize)
        /\ (HeaderSize + (next + 1)) - HeaderSize = next + 1
    BY <1>1
  <2>2. WordBytes(HeaderSize + (next + 1)) =
            Writer!BytesOf(Stream(packets)[next + 1])
    BY <2>1 DEF WordBytes
  <2>3. QED
    BY <1>6, <2>2 DEF bytes
<1>8. Writer!Put(bytes)
  BY DEF bytes
<1>9. QED
  BY <1>1, <1>2, <1>4, <1>5, <1>6, <1>7, <1>8, WordStep

\* The header of a packet is put.
LEMMA PacketHeaderIsPut ==
    ASSUME WriterInv, Writer!PutPacketHeader, header_' = header_
    PROVE  WriterInv'
<1> DEFINE p == packets[itr_packets]
           word == packet2header(p)
           next == Start(packets)[itr_packets]
           count == Len(p.data)
<1>1. /\ Writer!InPacket /\ state = "header"
      /\ Writer!Put(Writer!BytesOf(word))
      /\ packets' = packets /\ room' = room /\ itr_header' = itr_header
      /\ status' = status
  BY SameHeader DEF Writer!PutPacketHeader
<1>2. IF p.data = <<>>
      THEN itr_packets' = itr_packets + 1 /\ state' = "header"
      ELSE itr_packets' = itr_packets /\ state' = "data" /\ itr_data' = 1
  BY DEF Writer!PutPacketHeader, Writer!PacketBegin, Writer!Data
<1>3. /\ packets \in Packages /\ itr_packets \in 1..Len(packets)
      /\ Len(packets) \in Nat /\ HeaderSize \in Nat
      /\ next \in Nat /\ WordsPut = HeaderSize + next + 0
  BY <1>1, InPacketFacts
<1>4. /\ p \in ConfigurationPacket /\ p.data \in Seq(Nat) /\ count \in Nat
      /\ Start(packets)[itr_packets + 1] = next + 1 + count
      /\ Stream(packets)[next + 1] = word
  BY <1>3, Starts
<1>5. word \in Nat
  BY <1>4, EveryHeaderIsNat
<1> HIDE DEF word, next, count
<1>6. WordsPut = HeaderSize + next
  BY <1>3
<1>7. CASE p.data = <<>>
  <2>1. itr_packets' = itr_packets + 1 /\ state' = "header" /\ count = 0
    BY <1>2, <1>7 DEF count
  <2>2. itr_packets' \in 1..Len(packets) + 1
    BY <1>3, <2>1
  <2>3. state' # "data" /\ state' \in {"header", "data"}
    BY <2>1
  <2>4. Start(packets)[itr_packets'] + 0 = next + 1
    BY <1>3, <1>4, <2>1
  <2>5. QED
    BY <1>1, <1>3, <1>4, <1>5, <1>6, <2>2, <2>3, <2>4, PacketWordStep
<1>8. CASE p.data # <<>>
  <2>1. itr_packets' = itr_packets /\ state' = "data" /\ itr_data' = 1
    BY <1>2, <1>8
  <2>2. 1 \in 1..count
    <3>1. count # 0
      BY <1>4, <1>8, EmptySeq DEF count
    <3>2. QED
      BY <1>4, <3>1
  <2>3. /\ itr_packets' \in 1..Len(packets) + 1 /\ itr_packets' <= Len(packets)
        /\ itr_data' \in 1..Len(packets[itr_packets'].data)
    BY <1>3, <2>1, <2>2 DEF count
  <2>4. Start(packets)[itr_packets'] + itr_data' = next + 1
    BY <2>1 DEF next
  <2>5. state' \in {"header", "data"}
    BY <2>1
  <2>6. QED
    BY <1>1, <1>3, <1>4, <1>5, <1>6, <2>1, <2>3, <2>4, <2>5, PacketWordStep
<1>9. QED
  BY <1>7, <1>8

\* A word of the data of a packet is put.
LEMMA DataIsPut ==
    ASSUME WriterInv, Writer!PutData, header_' = header_
    PROVE  WriterInv'
<1> DEFINE p == packets[itr_packets]
           word == p.data[itr_data]
           base == Start(packets)[itr_packets]
           count == Len(p.data)
           next == base + itr_data
<1>1. /\ Writer!InPacket /\ state = "data"
      /\ Writer!Put(Writer!BytesOf(word))
      /\ packets' = packets /\ room' = room /\ itr_header' = itr_header
      /\ status' = status
  BY DEF Writer!PutData, Writer!Data
<1>2. IF itr_data = count
      THEN itr_packets' = itr_packets + 1 /\ state' = "header"
      ELSE /\ itr_data' = itr_data + 1 /\ itr_packets' = itr_packets
           /\ state' = state
  BY DEF Writer!PutData, Writer!PacketBegin, Writer!Data
<1>3. /\ packets \in Packages /\ itr_packets \in 1..Len(packets)
      /\ Len(packets) \in Nat /\ HeaderSize \in Nat
      /\ itr_data \in 1..count
      /\ base \in Nat /\ WordsPut = HeaderSize + base + itr_data
  BY <1>1, InPacketFacts
<1>4. /\ p.data \in Seq(Nat) /\ count \in Nat
      /\ Start(packets)[itr_packets + 1] = base + 1 + count
      /\ \A j \in 1..count : Stream(packets)[base + 1 + j] = p.data[j]
  BY <1>3, Starts
<1>5. word \in Nat
  BY <1>3, <1>4, ElementOfSeq
<1> HIDE DEF word, base, count
<1>6. /\ next \in Nat /\ next + 1 = base + 1 + itr_data
      /\ WordsPut = HeaderSize + next
  BY <1>3, <1>4
<1>7. Stream(packets)[next + 1] = word
  BY <1>3, <1>4, <1>6, Zenon DEF word
<1> HIDE DEF next
<1>8. CASE itr_data = count
  <2>1. itr_packets' = itr_packets + 1 /\ state' = "header"
    BY <1>2, <1>8
  <2>2. itr_packets' \in 1..Len(packets) + 1
    BY <1>3, <2>1
  <2>3. state' # "data" /\ state' \in {"header", "data"}
    BY <2>1
  <2>4. Start(packets)[itr_packets'] + 0 = next + 1
    <3>1. base + 1 + count + 0 = next + 1
      BY <1>3, <1>4, <1>6, <1>8
    <3>2. QED
      BY <1>4, <2>1, <3>1
  <2>5. QED
    BY <1>1, <1>3, <1>5, <1>6, <1>7, <2>2, <2>3, <2>4, PacketWordStep
<1>9. CASE itr_data # count
  <2>1. itr_packets' = itr_packets /\ state' = "data" /\ itr_data' = itr_data + 1
    BY <1>1, <1>2, <1>9
  <2>2. itr_data + 1 \in 1..count
    BY <1>3, <1>4, <1>9
  <2>3. /\ itr_packets' \in 1..Len(packets) + 1 /\ itr_packets' <= Len(packets)
        /\ itr_data' \in 1..Len(packets[itr_packets'].data)
    BY <1>3, <2>1, <2>2 DEF count
  <2>4. Start(packets)[itr_packets'] + itr_data' = next + 1
    <3>1. base + (itr_data + 1) = next + 1
      BY <1>3, <1>6
    <3>2. QED
      BY <2>1, <3>1 DEF base
  <2>5. state' \in {"header", "data"}
    BY <2>1
  <2>6. QED
    BY <1>1, <1>3, <1>5, <1>6, <1>7, <2>1, <2>3, <2>4, <2>5, PacketWordStep
<1>10. QED
  BY <1>8, <1>9

\* The length is put in the header of the file once the words are written.
LEMMA LengthKeepsInv ==
    ASSUME WriterInv, Writer!PatchLength, header_' = header_
    PROVE  WriterInv'
<1>1. /\ status = "writing" /\ itr_header > HeaderSize
      /\ itr_packets > Len(packets) /\ status' = "written"
      /\ packets' = packets /\ room' = room /\ good' = good
      /\ itr_header' = itr_header /\ itr_packets' = itr_packets
      /\ state' = state /\ itr_data' = itr_data
  BY DEF Writer!PatchLength, HeaderSize
<1>2. /\ header_ \in Headers /\ packets \in Packages /\ RoomInv /\ IteratorInv
      /\ FileHolds(WordsPut)
  BY <1>1 DEF WriterInv
<1>3. /\ itr_header \in 1..HeaderSize + 1
      /\ itr_packets \in 1..Len(packets) + 1 /\ state \in {"header", "data"}
      /\ state = "data" => itr_packets <= Len(packets)
  BY <1>2 DEF IteratorInv
<1>4. HeaderSize \in Nat /\ Len(packets) \in Nat
  BY <1>2, Sizes, Starts
<1>5. /\ itr_header = HeaderSize + 1 /\ ~(itr_header <= HeaderSize)
      /\ itr_packets = Len(packets) + 1 /\ state # "data"
  BY <1>1, <1>3, <1>4
<1>6. WordsPut \in Nat
  <2>1. Start(packets)[itr_packets] \in Nat
    BY <1>2, <1>3, Starts
  <2>2. QED
    BY <1>4, <1>5, <2>1 DEF WordsPut
<1>7. PICK d \in Nat : d = WordsPut
  BY <1>6
<1>8. RoomInv' /\ FileHolds(d)'
  BY <1>2, <1>7, LengthIsPatched
<1>9. WordsPut' = WordsPut
  BY <1>1 DEF WordsPut, HeaderSize
<1>10. FileHolds(WordsPut)'
  BY <1>7, <1>8, <1>9, HoldsNow
<1>11. IteratorInv'
  BY <1>1, <1>2, Zenon DEF IteratorInv, HeaderSize
<1>12. itr_header' = HeaderSize' + 1 /\ itr_packets' = Len(packets') + 1
  BY <1>1, <1>5 DEF HeaderSize
<1>13. QED
  BY <1>1, <1>2, <1>8, <1>10, <1>11, <1>12 DEF WriterInv

\* The reader does not touch the file.
LEMMA WriterStutters ==
    ASSUME WriterInv, UNCHANGED writer_vars
    PROVE  WriterInv'
<1>1. /\ header_' = header_ /\ packets' = packets /\ room' = room
      /\ out_file' = out_file
      /\ good' = good /\ itr_header' = itr_header
      /\ itr_packets' = itr_packets /\ state' = state /\ itr_data' = itr_data
      /\ status' = status
  BY DEF writer_vars
<1>2. RoomInv' /\ IteratorInv'
  BY <1>1, Zenon DEF WriterInv, RoomInv, IteratorInv, HeaderSize
<1>3. WordsPut' = WordsPut
  BY <1>1 DEF WordsPut, HeaderSize
<1>4. FileHolds(WordsPut)' <=> FileHolds(WordsPut)
  BY <1>1, <1>3, Zenon DEF FileHolds, WordBytes, At, HeaderSize
<1>5. QED
  BY <1>1, <1>2, <1>3, <1>4, Zenon DEF WriterInv, HeaderSize

\* Every step of the writer or the reader keeps the file so.
LEMMA NextWriterInv == WriterInv /\ [Next]_vars => WriterInv'
<1> SUFFICES ASSUME WriterInv, [Next]_vars PROVE WriterInv'
  OBVIOUS
<1>1. CASE Writer!FailToOpen /\ header_' = header_
  <2>1. /\ header_' = header_ /\ status = "created" /\ status' = "unopened"
        /\ packets' = packets /\ room' = room /\ out_file' = out_file
        /\ good' = good /\ itr_header' = itr_header
        /\ itr_packets' = itr_packets /\ state' = state
        /\ itr_data' = itr_data
    BY <1>1 DEF Writer!FailToOpen
  <2>2. RoomInv' /\ IteratorInv'
    BY <2>1, Zenon DEF WriterInv, RoomInv, IteratorInv, HeaderSize
  <2>3. QED
    BY <2>1, <2>2 DEF WriterInv
<1>2. CASE Writer!PutFileHeader /\ header_' = header_
  BY <1>2, FileHeaderIsPut
<1>3. CASE Writer!PutHeaderWord /\ header_' = header_
  BY <1>3, HeaderWordIsPut
<1>4. CASE Writer!PutPacketHeader /\ header_' = header_
  BY <1>4, PacketHeaderIsPut
<1>5. CASE Writer!PutData /\ header_' = header_
  BY <1>5, DataIsPut
<1>6. CASE Writer!PatchLength /\ header_' = header_
  BY <1>6, LengthKeepsInv
<1>7. CASE UNCHANGED writer_vars
  BY <1>7, WriterStutters
<1>8. QED
  BY <1>1, <1>2, <1>3, <1>4, <1>5, <1>6, <1>7
     DEF Next, WriteFile, ReadFile, Writer!writeBitstream, vars

-----------------------------------------------------------------------------
(***************************************************************************)
(* The sync word of the fixed header is the first in the file, so that     *)
(* what the reader reads is what follows it: the words of the packets, as  *)
(* far as they are in the file.                                            *)
(***************************************************************************)
Before == FileHeaderSize + 4 * HeaderSize

\* Four bytes are the sync word, or one of them is not.
LEMMA FourBytes ==
    ASSUME NEW s \in Seq(Nat), NEW i \in Nat, i + 4 <= Len(s)
    PROVE  SubSeq(s, i + 1, i + 4) = Reader!kSyncWord <=>
               /\ s[i + 1] = 170 /\ s[i + 2] = 153
               /\ s[i + 3] = 85 /\ s[i + 4] = 102
<1> DEFINE four == SubSeq(s, i + 1, i + 4)
           sync == Reader!kSyncWord
<1>1. /\ four \in Seq(Nat) /\ Len(four) = i + 4 - i
      /\ \A j \in 1..i + 4 - i : four[j] = s[i + j]
  <2>1. i + 4 \in Nat /\ i <= i + 4
    OBVIOUS
  <2>2. QED
    BY <2>1, Part
<1> HIDE DEF four
<1>2. i + 4 - i = 4
  OBVIOUS
<1>3. /\ four[1] = s[i + 1] /\ four[2] = s[i + 2] /\ four[3] = s[i + 3]
      /\ four[4] = s[i + 4]
  BY <1>1, <1>2
<1>4. /\ sync \in Seq(Nat) /\ Len(sync) = 4
      /\ sync[1] = 170 /\ sync[2] = 153 /\ sync[3] = 85 /\ sync[4] = 102
  BY DEF Reader!kSyncWord
<1> HIDE DEF sync
<1>5. ASSUME /\ s[i + 1] = 170 /\ s[i + 2] = 153
             /\ s[i + 3] = 85 /\ s[i + 4] = 102
      PROVE  four = sync
  <2>1. /\ four[1] = sync[1] /\ four[2] = sync[2] /\ four[3] = sync[3]
        /\ four[4] = sync[4]
    BY <1>3, <1>4, <1>5
  <2>2. \A j \in 1..4 : four[j] = sync[j]
    BY <2>1
  <2>3. Len(four) = 4 /\ Len(sync) = 4
    BY <1>1, <1>2, <1>4
  <2>4. Len(four) = Len(sync) /\ \A j \in 1..Len(four) : four[j] = sync[j]
    BY <2>2, <2>3, Zenon
  <2>5. four \in Seq(Nat) /\ sync \in Seq(Nat)
    BY <1>1, <1>4
  <2>6. QED
    BY <2>4, <2>5, SeqEqual, Zenon
<1>6. four = sync <=> /\ s[i + 1] = 170 /\ s[i + 2] = 153
                      /\ s[i + 3] = 85 /\ s[i + 4] = 102
  <2>1. four = sync => /\ four[1] = 170 /\ four[2] = 153
                       /\ four[3] = 85 /\ four[4] = 102
    BY <1>4
  <2>2. four = sync => /\ s[i + 1] = 170 /\ s[i + 2] = 153
                       /\ s[i + 3] = 85 /\ s[i + 4] = 102
    BY <1>3, <2>1
  <2>3. QED
    BY <1>5, <2>2
<1>7. QED
  BY <1>6 DEF four, sync

\* What the file holds when the writer has returned.
LEMMA Written ==
    ASSUME WriterInv, status = "written"
    PROVE  /\ packets \in Packages /\ out_file \in Seq(Nat)
           /\ Len(out_file) \in Nat
           /\ FileHolds(HeaderSize + StreamSize)
<1>1. /\ header_ \in Headers /\ packets \in Packages /\ RoomInv
             /\ FileHolds(WordsPut)
      /\ itr_header = HeaderSize + 1 /\ itr_packets = Len(packets) + 1
      /\ IteratorInv
  BY DEF WriterInv
<1>2. HeaderSize \in Nat /\ Len(packets) \in Nat /\ StreamSize \in Nat
  BY <1>1, Sizes, Starts
<1>3. out_file \in Seq(Nat) /\ Len(out_file) \in Nat
  BY <1>1, LenProperties DEF RoomInv
<1>4. WordsPut = HeaderSize + StreamSize
  <2>1. ~(itr_header <= HeaderSize) /\ state # "data"
    BY <1>1, <1>2 DEF IteratorInv
  <2>2. Start(packets)[itr_packets] = StreamSize
    BY <1>1, Starts
  <2>3. WordsPut = HeaderSize + StreamSize + 0
    BY <2>1, <2>2 DEF WordsPut
  <2>4. QED
    BY <1>2, <2>3
<1>5. QED
  BY <1>1, <1>3, <1>4

\* The bytes of the fixed header in the file.
LEMMA HeaderBytes ==
    ASSUME WriterInv, status = "written",
           NEW w \in 1..HeaderSize, NEW b \in 1..4, At(w, b) <= Len(out_file)
    PROVE  out_file[At(w, b)] = header_[w][b]
<1>1. HeaderSize \in Nat /\ StreamSize \in Nat
  BY Written, Sizes, Starts DEF WriterInv
<1>2. w \in 1..HeaderSize + StreamSize
  BY <1>1
<1>3. out_file[At(w, b)] = WordBytes(w)[b]
  BY <1>2, Written, Zenon DEF FileHolds
<1>4. w <= HeaderSize
  BY <1>1
<1>5. QED
  BY <1>3, <1>4 DEF WordBytes

\* Of the words of the fixed header the last is the sync word, and no other has
\* any of its bytes.
LEMMA LastIsSync ==
    ASSUME header_ \in Headers
    PROVE  /\ \A w \in 1..HeaderSize - 1, b \in 1..4 :
                  header_[w][b] \notin {170, 153, 85, 102}
           /\ header_[HeaderSize] = Reader!kSyncWord
BY SyncAssumption DEF HeaderSize

\* There is no sync word before that of the writer.
LEMMA NoEarlierSync ==
    ASSUME WriterInv, status = "written", NEW i \in Nat,
           i + 4 <= Len(out_file), i + 4 < Before
    PROVE  SubSeq(out_file, i + 1, i + 4) # Reader!kSyncWord
<1> DEFINE F == FileHeaderSize
           H == HeaderSize
           L == Len(out_file)
<1>1. /\ out_file \in Seq(Nat) /\ L \in Nat
      /\ F \in Nat /\ F >= 4 /\ H \in Nat /\ H # 0 /\ FileHeader \in Seq(Nat)
      /\ header_ \in Headers
  BY Written, Sizes DEF WriterInv
<1>2. FileHolds(HeaderSize + StreamSize)
  BY Written
<1>3. i + 4 < F + 4 * H
  BY DEF Before
<1>4. \A k \in 1..F - 4 : k <= L => out_file[k] = FileHeader[k]
  BY <1>2, Zenon DEF FileHolds
<1> HIDE DEF F, H, L
<1>5. SUFFICES ASSUME /\ out_file[i + 1] = 170 /\ out_file[i + 2] = 153
                      /\ out_file[i + 3] = 85 /\ out_file[i + 4] = 102
               PROVE  FALSE
  BY <1>1, FourBytes DEF L
<1>6. i + 4 <= L
  BY DEF L
<1>7. CASE i + 4 <= F - 4
  <2>1. /\ i + 1 \in 1..F - 4 /\ i + 2 \in 1..F - 4 /\ i + 3 \in 1..F - 4
        /\ i + 4 \in 1..F - 4
        /\ i + 1 <= L /\ i + 2 <= L /\ i + 3 <= L
    BY <1>1, <1>6, <1>7
  <2>2. /\ FileHeader[i + 1] = 170 /\ FileHeader[i + 2] = 153
        /\ FileHeader[i + 3] = 85 /\ FileHeader[i + 4] = 102
    BY <1>4, <1>5, <1>6, <2>1
  <2>3. i + 4 <= F
    BY <1>1, <1>7
  <2>4. SubSeq(FileHeader, i + 1, i + 4) = Reader!kSyncWord
    BY <1>1, <2>2, <2>3, FourBytes DEF F, FileHeaderSize
  <2>5. i + 1 \in 1..F - 3 /\ i + 1 + 3 = i + 4
    BY <1>1, <1>7
  <2>6. SubSeq(FileHeader, i + 1, i + 1 + 3) # Reader!kSyncWord
    <3>1. F = Len(FileHeader)
      BY DEF F, FileHeaderSize
    <3>2. \A j \in 1..Len(FileHeader) - 3 :
              SubSeq(FileHeader, j, j + 3) # Reader!kSyncWord
      BY ONLY SyncAssumption
    <3>3. QED
      BY ONLY <2>5, <3>1, <3>2
  <2>7. QED
    BY <2>4, <2>5, <2>6, Zenon
<1>8. CASE i + 1 <= F - 4 /\ ~(i + 4 <= F - 4)
  <2>1. i + 1 \in 1..F - 4 /\ i + 1 <= L /\ i + 1 > F - 7 /\ i + 1 \in 1..F
    BY <1>1, <1>6, <1>8
  <2>2. i + 1 \in DOMAIN FileHeader
    BY <1>1, <2>1, LenProperties DEF F, FileHeaderSize
  <2>3. FileHeader[i + 1] # 170
    BY <2>1, <2>2, SyncAssumption DEF F, FileHeaderSize
  <2>4. out_file[i + 1] = FileHeader[i + 1]
    <3> HIDE <1>5
    <3>1. QED
      BY <1>4, <2>1
  <2>5. QED
    BY <1>5, <2>3, <2>4
<1>9. CASE i + 1 = F - 3
  <2>1. F - 3 <= L
    BY <1>1, <1>6, <1>9
  <2>2. out_file[F - 3] # SyncByte
    BY <1>2, <2>1, Zenon DEF FileHolds, F, L
  <2>3. QED
    BY <1>5, <1>9, <2>2 DEF SyncByte
<1>10. CASE i + 1 \in F - 2..F
  <2>1. F + 1 \in {i + 2, i + 3, i + 4} /\ F + 1 <= L
    BY <1>1, <1>6, <1>10
  <2>2. out_file[F + 1] \in {153, 85, 102}
    BY <1>5, <2>1
  <2>3. At(1, 1) = F + 1
    BY <1>1 DEF At, F
  <2>4. 1 \in 1..HeaderSize /\ 1 \in 1..4
    BY <1>1 DEF H
  <2>5. out_file[F + 1] = header_[1][1]
    BY <2>1, <2>3, <2>4, HeaderBytes DEF L
  <2>6. header_[1][1] \notin {153, 85, 102}
    <3>1. CASE H = 1
      <4>1. header_[1] = Reader!kSyncWord
        BY <1>1, <3>1, LastIsSync DEF H
      <4>2. header_[1][1] = 170
        BY <4>1 DEF Reader!kSyncWord
      <4>3. QED
        BY <4>2
    <3>2. CASE H # 1
      <4>1. 1 \in 1..H - 1
        BY <1>1, <3>2
      <4>2. header_[1][1] \notin {170, 153, 85, 102}
        BY <1>1, <2>4, <4>1, LastIsSync DEF H
      <4>3. QED
        BY <4>2
    <3>3. QED
      BY <3>1, <3>2
  <2>7. QED
    BY <2>2, <2>5, <2>6
<1>11. CASE i + 1 > F
  <2>1. PICK w \in 1..H - 1, b \in 1..4 : F + 4 * (w - 1) + b = i + 1
    <3> DEFINE d == i - F
               q == d \div 4
               r == d % 4
    <3>1. d \in Nat /\ d < 4 * (H - 1)
      BY <1>1, <1>3, <1>11
    <3> HIDE DEF d
    <3>2. q \in Nat /\ r \in 0..3 /\ d = 4 * q + r
      BY <3>1
    <3> HIDE DEF q, r
    <3>3. q < H - 1
      BY <1>1, <3>1, <3>2
    <3>4. d + F = i
      BY <1>1 DEF d
    <3> DEFINE w == q + 1
               b == r + 1
    <3>5. /\ w \in 1..H - 1 /\ b \in 1..4
          /\ F + 4 * (w - 1) + b = i + 1
      BY <1>1, <3>2, <3>3, <3>4
    <3> HIDE DEF w, b
    <3>6. QED
      BY <3>5, Zenon
  <2>2. At(w, b) = i + 1 /\ At(w, b) <= L
    <3>1. At(w, b) = i + 1
      BY <2>1 DEF At, F
    <3>2. i + 1 <= L
      BY <1>1, <1>6
    <3>3. QED
      BY <3>1, <3>2
  <2>3. w \in 1..H
    BY <1>1, <2>1
  <2>4. out_file[At(w, b)] = header_[w][b]
    BY <2>1, <2>2, <2>3, HeaderBytes DEF H, L
  <2>5. header_[w][b] \notin {170, 153, 85, 102}
    <3>1. H = HeaderSize
      BY DEF H
    <3>2. \A v \in 1..HeaderSize - 1, c \in 1..4 :
              header_[v][c] \notin {170, 153, 85, 102}
      BY ONLY <1>1, LastIsSync
    <3>3. QED
      BY ONLY <2>1, <3>1, <3>2
  <2>6. QED
    BY <1>5, <2>2, <2>4, <2>5
<1>12. QED
  BY <1>1, <1>7, <1>8, <1>9, <1>10, <1>11

\* The sync word is found at the end of the fixed header, if the file is long
\* enough, and nowhere before it.
LEMMA SyncIsFound ==
    ASSUME WriterInv, status = "written"
    PROVE  /\ Before - 4 \in Nat
           /\ Reader!SyncOffsets \subseteq Nat
           /\ \A i \in Reader!SyncOffsets :
                  Before - 4 <= i /\ i + 4 <= Len(out_file)
           /\ Before <= Len(out_file) => Before - 4 \in Reader!SyncOffsets
<1> DEFINE L == Len(out_file)
<1>1. /\ out_file \in Seq(Nat) /\ L \in Nat
      /\ FileHeaderSize \in Nat /\ HeaderSize \in Nat /\ HeaderSize # 0
      /\ header_ \in Headers
  BY Written, Sizes DEF WriterInv
<1>2. Before \in Nat /\ Before - 4 \in Nat
  BY <1>1 DEF Before
<1> HIDE DEF L
<1>3. ASSUME NEW i \in Reader!SyncOffsets
      PROVE  i \in Nat /\ Before - 4 <= i /\ i + 4 <= L
  <2>1. i \in 0..L - 4 /\ SubSeq(out_file, i + 1, i + 4) = Reader!kSyncWord
    BY DEF Reader!SyncOffsets, L
  <2>2. i \in Nat /\ i + 4 <= L
    BY <1>1, <2>1
  <2>3. ~(i + 4 < Before)
    BY <2>1, <2>2, NoEarlierSync DEF L
  <2>4. QED
    BY <1>2, <2>2, <2>3
<1>4. ASSUME Before <= L PROVE Before - 4 \in Reader!SyncOffsets
  <2> DEFINE i == Before - 4
             H == HeaderSize
             bytes == header_[H]
  <2>1. i \in Nat /\ i \in 0..L - 4 /\ i + 4 <= L
    BY <1>1, <1>2, <1>4
  <2>2. H \in 1..H
    BY <1>1
  <2>3. \A b \in 1..4 : At(H, b) = i + b /\ i + b <= L
    BY <1>1, <2>1 DEF At, Before
  <2> HIDE DEF i, H
  <2>4. \A b \in 1..4 : out_file[i + b] = bytes[b]
    <3>1. TAKE b \in 1..4
    <3>2. out_file[At(H, b)] = header_[H][b]
      BY <2>2, <2>3, HeaderBytes DEF H, L
    <3>3. QED
      BY <2>3, <3>2
  <2>5. bytes[1] = 170 /\ bytes[2] = 153 /\ bytes[3] = 85 /\ bytes[4] = 102
    <3>1. bytes = Reader!kSyncWord
      BY <1>1, LastIsSync DEF H
    <3>2. QED
      BY <3>1 DEF Reader!kSyncWord
  <2> HIDE DEF bytes
  <2>6. /\ out_file[i + 1] = 170 /\ out_file[i + 2] = 153
        /\ out_file[i + 3] = 85 /\ out_file[i + 4] = 102
    BY <2>4, <2>5
  <2>7. SubSeq(out_file, i + 1, i + 4) = Reader!kSyncWord
    BY <1>1, <2>1, <2>6, FourBytes DEF L
  <2>8. i \in Reader!SyncOffsets
    BY <2>1, <2>7, Zenon DEF Reader!SyncOffsets, L
  <2>9. QED
    BY <2>8 DEF i
<1>5. QED
  BY <1>2, <1>3, <1>4 DEF L

\* The bytes of a word make the word.
LEMMA WordOfBytes ==
    ASSUME NEW word \in Nat, NEW bytes, NEW i,
           \A b \in 1..4 : bytes[4 * i - 4 + b] = Writer!BytesOf(word)[b],
           i \in Nat \ {0}
    PROVE  Reader!BigEndian(bytes, i) = word
<1> DEFINE b1 == word \div 16777216
           b2 == (word \div 65536) % 256
           b3 == (word \div 256) % 256
           b4 == word % 256
<1>1. ((b1 * 256 + b2) * 256 + b3) * 256 + b4 = word
  BY SMT
<1>2. Writer!BytesOf(word) = <<b1, b2, b3, b4>>
  BY DEF Writer!BytesOf
<1> HIDE DEF b1, b2, b3, b4
<1>3. /\ bytes[4 * i - 4 + 1] = b1 /\ bytes[4 * i - 4 + 2] = b2
      /\ bytes[4 * i - 4 + 3] = b3 /\ bytes[4 * i - 4 + 4] = b4
  BY <1>2
<1>4. /\ 4 * i - 4 + 1 = 4 * i - 3 /\ 4 * i - 4 + 2 = 4 * i - 2
      /\ 4 * i - 4 + 3 = 4 * i - 1 /\ 4 * i - 4 + 4 = 4 * i
  BY SMT
<1>5. /\ bytes[4 * i - 3] = b1 /\ bytes[4 * i - 2] = b2
      /\ bytes[4 * i - 1] = b3 /\ bytes[4 * i] = b4
  BY <1>3, <1>4
<1>6. Reader!BigEndian(bytes, i) = ((b1 * 256 + b2) * 256 + b3) * 256 + b4
  BY <1>5 DEF Reader!BigEndian
<1>7. QED
  BY <1>1, <1>6

\* The words of the packets that are in the file.
Kept == (Len(out_file) - Before) \div 4

\* So what the reader takes for the words are those of the packets.
LEMMA PayloadIsStream ==
    ASSUME WriterInv, status = "written", Reader!SyncOffsets # {}
    PROVE  /\ Kept \in 0..StreamSize
           /\ good => Kept = StreamSize
           /\ Reader!WordsOf(Reader!Payload) = From(packets, 0, Kept)
<1> DEFINE L == Len(out_file)
           B == Before
           N == StreamSize
           K == Kept
           F == FileHeaderSize
           H == HeaderSize
<1>1. /\ out_file \in Seq(Nat) /\ L \in Nat
      /\ FileHolds(HeaderSize + StreamSize)
      /\ F \in Nat /\ H \in Nat /\ H # 0 /\ N \in Nat
      /\ packets \in Packages /\ packets \in Seq(ConfigurationPacket)
      /\ Stream(packets) \in Seq(Nat) /\ B = F + 4 * H
  BY Written, Sizes, Starts DEF Before, WriterInv
<1>2. L <= F + 4 * (H + N) /\ (good => L = F + 4 * (H + N))
  BY <1>1, Zenon DEF FileHolds
<1>3. /\ B - 4 \in Nat
      /\ \A i \in Reader!SyncOffsets : i \in Nat /\ B - 4 <= i /\ i + 4 <= L
      /\ B <= L => B - 4 \in Reader!SyncOffsets
  BY SyncIsFound
<1>4. B <= L /\ B \in Nat
  <2>1. PICK i \in Nat : B - 4 <= i /\ i + 4 <= L
    BY <1>3
  <2>2. B \in Nat
    BY <1>1
  <2> HIDE DEF L, B
  <2>3. QED
    BY <1>1, <2>1, <2>2
<1> HIDE DEF L, B, N, F, H
<1>5. /\ K \in Nat /\ K <= N /\ 4 * K <= L - B /\ (good => K = N)
      /\ K = (L - B) \div 4
  <2>1. K = (L - B) \div 4
    BY DEF Kept, L, B
  <2> DEFINE q == (L - B) \div 4
  <2>2. L - B \in Nat /\ L - B <= 4 * N /\ (good => L - B = 4 * N)
    BY <1>1, <1>2, <1>4
  <2>3. q \in Nat /\ q <= N /\ 4 * q <= L - B /\ (good => q = N)
    BY <1>1, <2>2
  <2> HIDE DEF q, K
  <2>4. K = q
    BY <2>1 DEF q
  <2>5. QED
    BY <2>1, <2>3, <2>4
<1> HIDE DEF K
<1> DEFINE payload == SubSeq(out_file, B + 1, L)
<1>6. Reader!Payload = payload
  <2> DEFINE first == CHOOSE i \in Reader!SyncOffsets :
                          \A j \in Reader!SyncOffsets : i <= j
  <2>1. B - 4 \in Reader!SyncOffsets
        /\ \A j \in Reader!SyncOffsets : B - 4 <= j
    BY <1>3, <1>4
  <2>2. first \in Reader!SyncOffsets /\ \A j \in Reader!SyncOffsets : first <= j
    BY <2>1
  <2> HIDE DEF first
  <2>3. first \in Nat /\ first <= B - 4 /\ B - 4 <= first
    BY <1>3, <2>1, <2>2
  <2>4. first + 5 = B + 1
    BY <1>4, <2>3
  <2>5. Reader!Payload = SubSeq(out_file, first + 5, L)
    BY DEF Reader!Payload, first, L
  <2>6. QED
    BY <2>4, <2>5
<1>7. /\ Len(payload) = L - B
      /\ \A j \in 1..L - B : payload[j] = out_file[B + j]
  <2>1. /\ out_file \in Seq(Nat) /\ B \in Nat /\ L \in Nat
        /\ B <= L /\ L <= Len(out_file)
    BY <1>1, <1>4 DEF L
  <2>2. QED
    BY <2>1, Part, Zenon
<1> HIDE DEF payload
<1>8. ASSUME NEW i \in 1..K
      PROVE  Reader!BigEndian(payload, i) = Stream(packets)[i]
  <2> DEFINE word == Stream(packets)[i]
             w == H + i
  <2>1. i \in 1..N /\ i \in Nat \ {0} /\ w \in 1..H + N /\ ~(w <= H) /\ w - H = i
    BY <1>1, <1>5
  <2>2. word \in Nat
    BY <1>1, <2>1, ElementOfSeq DEF N, StreamSize
  <2>3. WordBytes(w) = Writer!BytesOf(word)
    BY <2>1 DEF WordBytes, H
  <2> HIDE DEF word, w
  <2>4. ASSUME NEW b \in 1..4
        PROVE  payload[4 * i - 4 + b] = Writer!BytesOf(word)[b]
    <3> DEFINE j == 4 * i - 4 + b
    <3>1. j \in 1..L - B /\ B + j <= L
      BY <1>1, <1>4, <1>5, <2>1
    <3>2. At(w, b) = B + j
      BY <1>1 DEF At, w, F
    <3> HIDE DEF j
    <3>3. out_file[At(w, b)] = WordBytes(w)[b]
      <4>1. FileHolds(H + N)
        BY <1>1 DEF H, N
      <4>2. At(w, b) <= Len(out_file)
        BY <3>1, <3>2 DEF L
      <4>3. QED
        BY <2>1, <4>1, <4>2, Zenon DEF FileHolds
    <3>4. payload[j] = out_file[B + j]
      BY <1>7, <3>1
    <3>5. QED
      BY <2>3, <3>2, <3>3, <3>4 DEF j
  <2>5. QED
    BY <2>1, <2>2, <2>4, WordOfBytes DEF word
<1> DEFINE words_r == Reader!WordsOf(payload)
           stream_k == From(packets, 0, K)
<1>9. /\ stream_k \in Seq(Nat) /\ Len(stream_k) = K
      /\ \A j \in 1..K : stream_k[j] = Stream(packets)[j]
  <2>1. 0 \in Nat /\ K \in Nat /\ 0 <= K /\ K <= Len(Stream(packets))
    BY <1>5 DEF N, StreamSize
  <2>2. /\ stream_k \in Seq(Nat) /\ Len(stream_k) = K - 0
        /\ \A j \in 1..K - 0 : stream_k[j] = Stream(packets)[0 + j]
    BY <1>1, <2>1, FromProperties
  <2>3. K - 0 = K /\ \A j \in 1..K : 0 + j = j
    BY <1>5
  <2> HIDE DEF stream_k
  <2>4. QED
    BY <2>2, <2>3
<1>10. /\ words_r \in [1..K -> Nat]
       /\ \A j \in 1..K : words_r[j] = Stream(packets)[j]
  <2>1. words_r = [i \in 1..K |-> Reader!BigEndian(payload, i)]
    BY <1>5, <1>7 DEF Reader!WordsOf, Reader!kBytesPerElement
  <2>2. \A i \in 1..K : Reader!BigEndian(payload, i) \in Nat
    <3>1. TAKE i \in 1..K
    <3>2. i \in 1..Len(Stream(packets))
      BY <1>1, <1>5 DEF N, StreamSize
    <3>3. QED
      BY <1>1, <1>8, <3>2, ElementOfSeq
  <2> HIDE DEF words_r
  <2>3. QED
    BY <1>8, <2>1, <2>2
<1>11. words_r = stream_k
  <2> HIDE DEF words_r, stream_k
  <2>1. stream_k \in [1..K -> Nat]
    <3>1. stream_k \in [1..Len(stream_k) -> Nat]
      BY <1>9, LenProperties
    <3>2. QED
      BY <1>9, <3>1
  <2>2. QED
    BY <1>9, <1>10, <2>1
<1>12. QED
  BY <1>5, <1>6, <1>11 DEF K, N

-----------------------------------------------------------------------------
(***************************************************************************)
(* The reader, over a package that the words can say of which the first k  *)
(* words are in the file.  After m packets the words that are left start   *)
(* where packet m + 1 does.                                                *)
(***************************************************************************)
Taken(package, k, m, words_m, last) ==
    /\ m \in 0..Len(package)
    /\ Start(package)[m + 1] <= k
    /\ words_m = From(package, Start(package)[m + 1], k)
    /\ last = IF m = 0 THEN {} ELSE {package[m]}

\* The reader parses packets as the other programs do.
LEMMA SameParser ==
    ASSUME NEW words_m, NEW last
    PROVE  Reader!InitWithWords(words_m, last) = InitWithWords(words_m, last)
BY DEF Reader!InitWithWords, InitWithWords, Reader!ParsePadding, ParsePadding,
       Reader!ParseType1, ParseType1, Reader!ParseType2, ParseType2,
       Reader!Result, Result, Reader!Packet, Packet, Reader!HeaderType,
       HeaderType, Reader!OpcodeOf, OpcodeOf, Reader!AddressOf, AddressOf,
       Reader!ShortCount, ShortCount, Reader!LongCount, LongCount,
       Reader!LongCountSize, LongCountSize, Reader!After, After,
       Reader!DataOf, DataOf, Reader!HasAll, HasAll, Reader!NONE, NONE,
       Reader!TYPE1, TYPE1, Reader!TYPE2, TYPE2, Reader!NOP, NOP,
       Reader!CRC, CRC

\* What the words must be able to say of packet i.
IsSayable(package, i) ==
    LET q == package[i]
    IN /\ q.header_type = NONE => q = Packet(NONE, NOP, CRC, <<>>)
       /\ q.header_type = TYPE1 => Len(q.data) < CountSize
       /\ q.header_type = TYPE2 =>
              /\ Len(q.data) < LongCountSize
              /\ i > 1 /\ package[i - 1].address = q.address

\* Packets can be told apart if each can be from those before it.
LEMMA SayableMeans ==
    ASSUME NEW package \in Seq(ConfigurationPacket)
    PROVE  Sayable(package) <=> \A i \in DOMAIN package : IsSayable(package, i)
<1>1. ASSUME Sayable(package), NEW i \in DOMAIN package
      PROVE  IsSayable(package, i)
  BY <1>1, TypesDiffer, Zenon DEF Sayable, IsSayable
<1>2. ASSUME \A i \in DOMAIN package : IsSayable(package, i)
      PROVE  Sayable(package)
  <2>1. ASSUME NEW i \in DOMAIN package
        PROVE  LET p == package[i]
               IN CASE p.header_type = NONE -> p = Packet(NONE, NOP, CRC, <<>>)
                    [] p.header_type = TYPE1 -> Len(p.data) < CountSize
                    [] p.header_type = TYPE2 ->
                           /\ Len(p.data) < LongCountSize
                           /\ i > 1 /\ package[i - 1].address = p.address
    <3> DEFINE q == package[i]
               A == q = Packet(NONE, NOP, CRC, <<>>)
               B == Len(q.data) < CountSize
               C == /\ Len(q.data) < LongCountSize
                    /\ i > 1 /\ package[i - 1].address = q.address
    <3>1. q.header_type \in {NONE, TYPE1, TYPE2}
      <4>1. q \in ConfigurationPacket
        BY LenProperties, ElementOfSeq
      <4>2. QED
        BY <4>1 DEF ConfigurationPacket
    <3>2. /\ q.header_type = NONE => A
          /\ q.header_type = TYPE1 => B
          /\ q.header_type = TYPE2 => C
      BY <1>2 DEF IsSayable
    <3> HIDE DEF q, A, B, C
    <3>3. (CASE q.header_type = NONE -> A
             [] q.header_type = TYPE1 -> B
             [] q.header_type = TYPE2 -> C)
      BY <3>1, <3>2, TypesDiffer, Zenon
    <3>4. QED
      BY <3>3 DEF q, A, B, C
  <2>2. QED
    BY <2>1 DEF Sayable
<1>3. QED
  BY <1>1, <1>2

\* The words can say the next packet after the packet before it.
LEMMA NextIsSayable ==
    ASSUME NEW package \in Seq(ConfigurationPacket), Sayable(package),
           NEW k, NEW m, NEW words_m, NEW last,
           Taken(package, k, m, words_m, last), m # Len(package)
    PROVE  m + 1 \in 1..Len(package) /\ SayableAfter(package[m + 1], last)
<1> DEFINE n == Len(package)
           j == m + 1
           p == package[j]
<1>1. n \in Nat /\ m \in 0..n /\ last = IF m = 0 THEN {} ELSE {package[m]}
  BY LenProperties DEF Taken
<1>2. j \in 1..n /\ (j > 1 => m \in 1..n /\ m # 0) /\ j - 1 = m
  BY <1>1
<1> HIDE DEF j
<1>3. p \in ConfigurationPacket /\ DOMAIN package = 1..n
  BY <1>2, ElementOfSeq, LenProperties
<1>4. IsSayable(package, j)
  BY <1>2, <1>3, SayableMeans
<1> HIDE DEF n, p
<1>5. /\ p.header_type = NONE => p = Packet(NONE, NOP, CRC, <<>>)
      /\ p.header_type = TYPE1 => Len(p.data) < CountSize
      /\ p.header_type = TYPE2 =>
             /\ Len(p.data) < LongCountSize
             /\ j > 1 /\ package[j - 1].address = p.address
  BY <1>4, Zenon DEF IsSayable, p
<1>6. ASSUME p.header_type = TYPE2
      PROVE  \E q \in ConfigurationPacket :
                 last = {q} /\ q.address = p.address
  <2>1. m \in 1..n /\ m # 0 /\ j - 1 = m
    BY <1>2, <1>5, <1>6
  <2>2. package[m] \in ConfigurationPacket
    BY <2>1, ElementOfSeq DEF n
  <2>3. last = {package[m]} /\ package[m].address = p.address
    BY <1>1, <1>5, <1>6, <2>1
  <2>4. QED
    BY <2>2, <2>3
<1>7. QED
  BY <1>2, <1>5, <1>6 DEF SayableAfter, n, p, j

\* A turn of operator++ takes the next packet, or stays where it is, which it
\* does at the end only if all words are there.
LEMMA TakesNext ==
    ASSUME NEW package \in Seq(ConfigurationPacket), Sayable(package),
           NEW k \in 0..Len(Stream(package)), NEW m, NEW words_m, NEW last,
           Taken(package, k, m, words_m, last)
    PROVE  LET result == InitWithWords(words_m, last)
           IN \/ /\ result.first = words_m
                 /\ k = Len(Stream(package)) => m = Len(package)
              \/ /\ result.first # words_m /\ words_m # <<>>
                 /\ result.second = {package[m + 1]}
                 /\ m + 1 \in 1..Len(package)
                 /\ Taken(package, k, m + 1, result.first, result.second)
<1> DEFINE n == Len(package)
           start == Start(package)
           size == Len(Stream(package))
           result == InitWithWords(words_m, last)
<1>1. /\ n \in Nat /\ m \in 0..n /\ start[m + 1] <= k
      /\ words_m = From(package, start[m + 1], k)
      /\ last = IF m = 0 THEN {} ELSE {package[m]}
  BY LenProperties DEF Taken
<1>2. /\ \A i \in 1..n + 1 : start[i] \in Nat /\ start[i] <= size
      /\ start[n + 1] = size /\ size \in Nat
  <2>1. IsLayout(package, n, start, Stream(package))
    BY LayoutProperties
  <2>2. size \in Nat
    BY <2>1, LenProperties DEF IsLayout
  <2> HIDE DEF n, start, size
  <2>3. QED
    BY <2>1, <2>2 DEF IsLayout, size
<1>3. k \in Nat /\ k <= size
  BY <1>2
<1>4. CASE m = n
  <2>1. start[m + 1] = k
    BY <1>1, <1>2, <1>3, <1>4
  <2>2. Len(words_m) = 0 /\ words_m \in Seq(Nat)
    <3>1. k <= k /\ k - k = 0
      BY <1>3
    <3>2. words_m = From(package, k, k)
      BY <1>1, <2>1
    <3>3. /\ From(package, k, k) \in Seq(Nat)
          /\ Len(From(package, k, k)) = k - k
      BY <1>3, <3>1, FromProperties
    <3>4. QED
      BY <3>1, <3>2, <3>3
  <2>3. words_m = <<>>
    BY <2>2, EmptySeq
  <2>4. result.first = words_m
    BY <2>3 DEF InitWithWords, Result
  <2>5. QED
    BY <1>4, <2>4
<1>5. CASE m # n
  <2>1. m + 1 \in 1..n /\ SayableAfter(package[m + 1], last)
    BY <1>5, NextIsSayable
  <2>2. start[m + 1] \in Nat /\ start[m + 2] \in Nat /\ start[m + 2] <= size
        /\ m + 1 + 1 = m + 2
    BY <1>1, <1>2, <2>1
  <2>3. CASE start[m + 2] <= k
    <3> DEFINE rest == From(package, start[m + 2], k)
    <3>1. /\ result = Result(rest, {package[m + 1]})
          /\ rest # words_m /\ words_m # <<>>
      <4> DEFINE j == m + 1
      <4>1. /\ j \in 1..Len(package) /\ SayableAfter(package[j], last)
            /\ words_m = From(package, Start(package)[j], k)
            /\ Start(package)[j + 1] <= k
            /\ rest = From(package, Start(package)[j + 1], k)
        BY <1>1, <2>1, <2>2, <2>3
      <4> HIDE DEF j, rest
      <4>2. /\ InitWithWords(words_m, last) = Result(rest, {package[j]})
            /\ rest # words_m /\ words_m # <<>>
        BY <1>3, <4>1, TakesWhole, Zenon
      <4>3. QED
        BY <4>2 DEF j
    <3>2. result.first = rest /\ result.second = {package[m + 1]}
      BY <3>1 DEF Result
    <3> HIDE DEF rest, result
    <3>3. m + 1 # 0 /\ m + 1 \in 0..n
      BY <1>1, <2>1
    <3>4. Taken(package, k, m + 1, rest, {package[m + 1]})
      BY <2>2, <2>3, <3>3 DEF Taken, rest
    <3>5. QED
      BY <2>1, <3>1, <3>2, <3>4 DEF result
  <2>4. CASE ~(start[m + 2] <= k)
    <3>1. k < start[m + 2] /\ k # size
      BY <1>3, <2>2, <2>4
    <3>2. result = Result(words_m, {})
      BY <1>1, <1>3, <2>1, <2>2, <3>1, TakesNothing
    <3>3. result.first = words_m
      BY <3>2 DEF Result
    <3>4. QED
      BY <3>1, <3>3
  <2>5. QED
    BY <2>3, <2>4
<1>6. QED
  BY <1>4, <1>5

\* The packets that have been seen are the first ones, and the reader is
\* after them, or at the next, or at the end.
IsFirstPart(y) ==
    /\ y \in Seq(ConfigurationPacket)
    /\ Len(y) <= Len(packets)
    /\ \A i \in 1..Len(y) : y[i] = packets[i]

FirstPartInv ==
    /\ pc \in {"opened", "advancing", "positioned", "done", "unsynced", "aborted"}
    /\ status # "written" => pc = "opened"
    /\ pc \in {"opened", "unsynced", "aborted"} => packet = {} /\ yielded = <<>>
    /\ pc \in {"advancing", "positioned", "done"} =>
           /\ Kept \in 0..StreamSize
           /\ good => Kept = StreamSize
    /\ Sayable(packets) =>
           /\ IsFirstPart(yielded)
           /\ pc = "advancing" =>
                  Taken(packets, Kept, Len(yielded), words, packet)
           /\ pc = "positioned" /\ position # <<>> =>
                  /\ Len(yielded) + 1 \in 1..Len(packets)
                  /\ Taken(packets, Kept, Len(yielded) + 1, words, packet)
           /\ good /\ ((pc = "positioned" /\ position = <<>>) \/ pc = "done") =>
                  Len(yielded) = Len(packets)

\* The reader has not started.
LEMMA InitFirstPartInv == Init => FirstPartInv
<1> SUFFICES ASSUME Init PROVE FirstPartInv
  OBVIOUS
<1>1. /\ packets \in Packages /\ status = "created" /\ pc = "opened"
      /\ packet = {} /\ yielded = <<>>
  BY DEF Init, Writer!InitWriter, Reader!InitReader
<1>2. Len(packets) \in Nat
  BY <1>1, Starts
<1>3. IsFirstPart(yielded)
  <2>1. yielded \in Seq(ConfigurationPacket) /\ Len(yielded) = 0
    BY <1>1
  <2>2. QED
    BY <1>2, <2>1 DEF IsFirstPart
<1>4. QED
  BY <1>1, <1>3 DEF FirstPartInv

\* What stays the same while the file is read.
LEMMA ReadingKeeps ==
    ASSUME UNCHANGED writer_vars
    PROVE  /\ packets' = packets /\ good' = good /\ status' = status
           /\ out_file' = out_file
           /\ Kept' = Kept /\ StreamSize' = StreamSize
           /\ Before' = Before
           /\ \A y : IsFirstPart(y)' <=> IsFirstPart(y)
<1>1. header_' = header_ /\ packets' = packets /\ good' = good
          /\ out_file' = out_file
      /\ status' = status
  BY DEF writer_vars
<1>2. Before' = Before
  BY <1>1 DEF Before, FileHeaderSize, HeaderSize
<1>3. QED
  BY <1>1, <1>2 DEF Kept, StreamSize, IsFirstPart

\* The reader finds the sync word.
LEMMA BeginFirstPart ==
    ASSUME WriterInv, FirstPartInv, status = "written",
           Reader!Begin, UNCHANGED writer_vars
    PROVE  FirstPartInv'
<1>1. /\ pc = "opened" /\ pc' = "advancing" /\ Reader!SyncOffsets # {}
      /\ words' = Reader!WordsOf(Reader!Payload)
      /\ packet' = packet /\ yielded' = yielded
  BY DEF Reader!Begin
<1>2. packet = {} /\ yielded = <<>> /\ (Sayable(packets) => IsFirstPart(yielded))
  BY <1>1 DEF FirstPartInv
<1>3. /\ packets' = packets /\ good' = good /\ status' = status
      /\ Kept' = Kept /\ StreamSize' = StreamSize
      /\ \A y : IsFirstPart(y)' <=> IsFirstPart(y)
  BY ReadingKeeps
<1>4. /\ Kept \in 0..StreamSize /\ (good => Kept = StreamSize)
      /\ words' = From(packets, 0, Kept)
  BY <1>1, PayloadIsStream
<1>5. Taken(packets, Kept, 0, words', packet')
  <2>1. packets \in Packages
    BY DEF WriterInv
  <2>2. Start(packets)[0 + 1] = 0 /\ 0 \in 0..Len(packets)
    BY <2>1, Starts
  <2>3. 0 <= Kept
    BY <1>4
  <2>4. QED
    BY <1>1, <1>2, <1>4, <2>2, <2>3 DEF Taken
<1>6. Len(yielded') = 0
  BY <1>1, <1>2
<1>7. Taken(packets', Kept', Len(yielded'), words', packet')
  BY <1>3, <1>5, <1>6
<1>8. Sayable(packets) => IsFirstPart(yielded)'
  <2>1. yielded' = yielded
    BY <1>1
  <2>2. QED
    BY <1>2, <1>3, <2>1 DEF IsFirstPart
<1>9. QED
  BY <1>1, <1>2, <1>3, <1>4, <1>7, <1>8 DEF FirstPartInv

\* A packet is cut short by the end of the file.
LEMMA StopFirstPart ==
    ASSUME WriterInv, FirstPartInv, status = "written",
           Reader!StopAtIncomplete, UNCHANGED writer_vars
    PROVE  FirstPartInv'
<1>1. /\ pc = "advancing" /\ pc' = "positioned" /\ position' = <<>>
      /\ InitWithWords(words, packet).first = words
      /\ words' = words /\ packet' = packet /\ yielded' = yielded
  BY SameParser DEF Reader!StopAtIncomplete
<1>2. /\ packets' = packets /\ good' = good /\ status' = status
      /\ Kept' = Kept /\ StreamSize' = StreamSize
      /\ \A y : IsFirstPart(y)' <=> IsFirstPart(y)
  BY ReadingKeeps
<1>3. Kept \in 0..StreamSize /\ (good => Kept = StreamSize)
  BY <1>1 DEF FirstPartInv
<1>4. ASSUME Sayable(packets)
      PROVE  /\ IsFirstPart(yielded)'
             /\ good => Len(yielded) = Len(packets)
  <2>1. /\ IsFirstPart(yielded)
        /\ Taken(packets, Kept, Len(yielded), words, packet)
    BY <1>1, <1>4 DEF FirstPartInv
  <2>2. packets \in Seq(ConfigurationPacket)
    BY BitstreamAssumption DEF WriterInv
  <2>3. Kept \in 0..Len(Stream(packets))
    BY <1>3 DEF StreamSize
  <2>4. Kept = Len(Stream(packets)) => Len(yielded) = Len(packets)
    BY <1>1, <1>4, <2>1, <2>2, <2>3, TakesNext
  <2>5. IsFirstPart(yielded)'
    BY <1>1, <1>2, <2>1 DEF IsFirstPart
  <2>6. QED
    BY <1>3, <2>4, <2>5 DEF StreamSize
<1>5. QED
  BY <1>1, <1>2, <1>3, <1>4 DEF FirstPartInv

\* A word that is no packet is passed over.
LEMMA AdvanceFirstPart ==
    ASSUME WriterInv, FirstPartInv, status = "written",
           Reader!Advance, UNCHANGED writer_vars
    PROVE  FirstPartInv'
<1> DEFINE result == InitWithWords(words, packet)
           m == Len(yielded)
<1>1. /\ pc = "advancing" /\ result.first # words
      /\ words' = result.first /\ packet' = result.second
      /\ position' = IF result.first = <<>> /\ result.second = {}
                     THEN <<>> ELSE words
      /\ pc' = IF result.first # <<>> /\ result.second = {}
               THEN "advancing" ELSE "positioned"
      /\ yielded' = yielded
  BY SameParser DEF Reader!Advance
<1>2. /\ packets' = packets /\ good' = good /\ status' = status
      /\ Kept' = Kept /\ StreamSize' = StreamSize
      /\ \A y : IsFirstPart(y)' <=> IsFirstPart(y)
  BY ReadingKeeps
<1>3. Kept \in 0..StreamSize /\ (good => Kept = StreamSize)
  BY <1>1 DEF FirstPartInv
<1>4. ASSUME Sayable(packets)
      PROVE  /\ IsFirstPart(yielded)'
             /\ pc' = "positioned" /\ position' # <<>>
             /\ m + 1 \in 1..Len(packets)
             /\ Taken(packets, Kept, m + 1, words', packet')
  <2>1. /\ IsFirstPart(yielded)
        /\ Taken(packets, Kept, m, words, packet)
    BY <1>1, <1>4 DEF FirstPartInv
  <2>2. packets \in Seq(ConfigurationPacket)
    BY BitstreamAssumption DEF WriterInv
  <2>3. Kept \in 0..Len(Stream(packets))
    BY <1>3 DEF StreamSize
  <2>4. \/ result.first = words
        \/ /\ result.first # words /\ words # <<>>
           /\ result.second = {packets[m + 1]}
           /\ m + 1 \in 1..Len(packets)
           /\ Taken(packets, Kept, m + 1, result.first, result.second)
    <3> HIDE DEF m
    <3>1. QED
      BY <1>4, <2>1, <2>2, <2>3, TakesNext
  <2> HIDE DEF result, m
  <2>5. result.second # {}
    BY <1>1, <2>4
  <2>6. pc' = "positioned" /\ position' = words
    BY <1>1, <2>5
  <2>7. IsFirstPart(yielded)'
    BY <1>1, <1>2, <2>1 DEF IsFirstPart
  <2>8. QED
    BY <1>1, <2>4, <2>6, <2>7
<1> HIDE DEF result
<1>5. pc' \in {"advancing", "positioned"}
  BY <1>1
<1>6. Len(yielded') = m
  BY <1>1
<1>7. QED
  BY <1>1, <1>2, <1>3, <1>4, <1>5, <1>6 DEF FirstPartInv

\* A packet is read: it is the next one written.
LEMMA YieldFirstPart ==
    ASSUME WriterInv, FirstPartInv, status = "written",
           Reader!Yield, UNCHANGED writer_vars
    PROVE  FirstPartInv'
<1> DEFINE m == Len(yielded)
<1>1. /\ pc = "positioned" /\ position # <<>> /\ pc' = "advancing"
      /\ words' = words /\ packet' = packet
  BY DEF Reader!Yield
<1>2. PICK p \in packet : yielded' = Append(yielded, p)
  BY DEF Reader!Yield
<1>3. /\ packets' = packets /\ good' = good /\ status' = status
      /\ Kept' = Kept /\ StreamSize' = StreamSize
      /\ \A y : IsFirstPart(y)' <=> IsFirstPart(y)
  BY ReadingKeeps
<1>4. Kept \in 0..StreamSize /\ (good => Kept = StreamSize)
  BY <1>1 DEF FirstPartInv
<1>5. ASSUME Sayable(packets)
      PROVE  /\ IsFirstPart(yielded)'
             /\ Taken(packets, Kept, Len(yielded'), words, packet)
  <2>1. /\ yielded \in Seq(ConfigurationPacket)
        /\ \A i \in 1..m : yielded[i] = packets[i]
        /\ m + 1 \in 1..Len(packets)
        /\ Taken(packets, Kept, m + 1, words, packet)
    BY <1>1, <1>5 DEF FirstPartInv, IsFirstPart
  <2>2. packets \in Seq(ConfigurationPacket)
    BY BitstreamAssumption DEF WriterInv
  <2>3. m \in Nat /\ m + 1 # 0 /\ Len(packets) \in Nat
    BY <2>1, <2>2, LenProperties
  <2>4. packet = {packets[m + 1]} /\ p = packets[m + 1]
    BY <1>2, <2>1, <2>3 DEF Taken
  <2>5. p \in ConfigurationPacket
    BY <2>1, <2>2, <2>4, ElementOfSeq
  <2>6. /\ yielded' \in Seq(ConfigurationPacket) /\ Len(yielded') = m + 1
        /\ \A i \in 1..m : yielded'[i] = yielded[i]
        /\ yielded'[m + 1] = p
    BY <1>2, <2>1, <2>5, AppendProperties
  <2> HIDE DEF m
  <2>7. \A i \in 1..m + 1 : yielded'[i] = packets[i]
    BY <2>1, <2>3, <2>4, <2>6
  <2>8. Len(yielded') <= Len(packets)
    BY <2>1, <2>3, <2>6
  <2>9. IsFirstPart(yielded)'
    BY <1>3, <2>6, <2>7, <2>8 DEF IsFirstPart
  <2>10. QED
    BY <2>1, <2>6, <2>9
<1>6. QED
  BY <1>1, <1>3, <1>4, <1>5 DEF FirstPartInv

\* Every step keeps the packets read those written so far.
LEMMA NextFirstPartInv ==
    WriterInv /\ FirstPartInv /\ [Next]_vars => FirstPartInv'
<1> SUFFICES ASSUME WriterInv, FirstPartInv, [Next]_vars
             PROVE  FirstPartInv'
  OBVIOUS
<1>1. CASE WriteFile
  <2>1. /\ status # "written" /\ pc' = pc /\ packet' = packet
        /\ yielded' = yielded
    BY <1>1 DEF WriteFile, reader_vars, Writer!writeBitstream,
                Writer!FailToOpen, Writer!PutFileHeader, Writer!PutHeaderWord,
                Writer!PutPacketHeader, Writer!PutData, Writer!PatchLength,
                Writer!InPacket
  <2>2. pc = "opened" /\ packet = {} /\ yielded = <<>>
    BY <2>1 DEF FirstPartInv
  <2>3. WriterInv'
    BY NextWriterInv
  <2>4. IsFirstPart(yielded)'
    <3>1. packets' \in Packages
      BY <2>3 DEF WriterInv
    <3>2. Len(packets') \in Nat
      BY <3>1, BitstreamAssumption, LenProperties
    <3>3. /\ yielded' \in Seq(ConfigurationPacket) /\ Len(yielded') = 0
          /\ 1..Len(yielded') = {}
      BY <2>1, <2>2
    <3>4. QED
      BY <3>2, <3>3 DEF IsFirstPart
  <2>5. QED
    BY <2>1, <2>2, <2>4 DEF FirstPartInv
<1>2. CASE ReadFile
  <2>1. status = "written" /\ Reader!ReaderNext /\ UNCHANGED writer_vars
    BY <1>2 DEF ReadFile
  <2>2. /\ packets' = packets /\ good' = good /\ status' = status
        /\ Kept' = Kept /\ StreamSize' = StreamSize
        /\ \A y : IsFirstPart(y)' <=> IsFirstPart(y)
    BY <2>1, ReadingKeeps
  <2>3. CASE Reader!FindNoSync \/ Reader!AbortOnPartialWord
    <3>1. /\ pc = "opened" /\ pc' \in {"unsynced", "aborted"}
          /\ packet' = packet /\ yielded' = yielded
      BY <2>3 DEF Reader!FindNoSync, Reader!AbortOnPartialWord
    <3>2. IsFirstPart(yielded) => IsFirstPart(yielded)'
      BY <2>2, <3>1 DEF IsFirstPart
    <3>3. QED
      BY <2>1, <2>2, <3>1, <3>2 DEF FirstPartInv
  <2>4. CASE Reader!Begin
    BY <2>1, <2>4, BeginFirstPart
  <2>5. CASE Reader!StopAtIncomplete
    BY <2>1, <2>5, StopFirstPart
  <2>6. CASE Reader!Advance
    BY <2>1, <2>6, AdvanceFirstPart
  <2>7. CASE Reader!Yield
    BY <2>1, <2>7, YieldFirstPart
  <2>8. CASE Reader!End
    <3>1. /\ pc = "positioned" /\ position = <<>> /\ pc' = "done"
          /\ yielded' = yielded
      BY <2>8 DEF Reader!End
    <3>2. IsFirstPart(yielded) => IsFirstPart(yielded)'
      BY <2>2, <3>1 DEF IsFirstPart
    <3>3. QED
      BY <2>1, <2>2, <3>1, <3>2 DEF FirstPartInv
  <2>9. QED
    BY <2>1, <2>3, <2>4, <2>5, <2>6, <2>7, <2>8 DEF Reader!ReaderNext
<1>3. CASE UNCHANGED vars
  <2>1. /\ words' = words /\ packet' = packet /\ position' = position
        /\ yielded' = yielded /\ pc' = pc
    BY <1>3 DEF vars, reader_vars
  <2>2. UNCHANGED writer_vars
    BY <1>3 DEF vars
  <2>3. /\ packets' = packets /\ good' = good /\ status' = status
        /\ Kept' = Kept /\ StreamSize' = StreamSize
        /\ \A y : IsFirstPart(y)' <=> IsFirstPart(y)
    BY <2>2, ReadingKeeps
  <2>4. IsFirstPart(yielded) => IsFirstPart(yielded)'
    BY <2>1, <2>3 DEF IsFirstPart
  <2>5. QED
    BY <2>1, <2>3, <2>4 DEF FirstPartInv
<1>4. QED
  BY <1>1, <1>2, <1>3 DEF Next

(***************************************************************************)
(* Wherever a file of packets that the words can say ends, what is read of *)
(* it is a first part of the packets: no packet is read shortened or in    *)
(* the place of another.                                                   *)
(***************************************************************************)
THEOREM FirstPartIsRead == Spec => []ReadsFirstPart
<1>1. FirstPartInv => ReadsFirstPart
  <2> SUFFICES ASSUME FirstPartInv, Sayable(packets)
               PROVE  /\ Len(yielded) <= Len(packets)
                      /\ yielded = SubSeq(packets, 1, Len(yielded))
    BY DEF ReadsFirstPart
  <2> DEFINE m == Len(yielded)
             first == SubSeq(packets, 1, m)
  <2>1. /\ yielded \in Seq(ConfigurationPacket) /\ m <= Len(packets)
        /\ \A i \in 1..m : yielded[i] = packets[i]
    BY DEF FirstPartInv, IsFirstPart
  <2>2. m \in Nat
    BY <2>1, LenProperties
  <2> HIDE DEF m
  <2>3. \A i \in 1..m : packets[i] \in ConfigurationPacket
    <3>1. \A i \in 1..m : yielded[i] \in ConfigurationPacket
      BY <2>1, ElementOfSeq DEF m
    <3>2. QED
      BY <2>1, <3>1
  <2>4. /\ first \in Seq(ConfigurationPacket)
        /\ Len(first) = IF 1 <= m THEN m - 1 + 1 ELSE 0
        /\ \A i \in 1..m - 1 + 1 : first[i] = packets[1 + i - 1]
    BY <2>2, <2>3, SubSeqProperties
  <2>5. m - 1 + 1 = m /\ (~(1 <= m) => m = 0) /\ \A i \in 1..m : 1 + i - 1 = i
    BY <2>2
  <2> HIDE DEF first
  <2>6. Len(first) = m /\ \A i \in 1..m : first[i] = packets[i]
    BY <2>4, <2>5
  <2>7. yielded = first
    BY <2>1, <2>4, <2>6, SeqEqual DEF m
  <2>8. QED
    BY <2>1, <2>7 DEF first, m
<1>2. QED
  BY <1>1, InitWriterInv, NextWriterInv, InitFirstPartInv, NextFirstPartInv, PTL
     DEF Spec

-----------------------------------------------------------------------------
(***************************************************************************)
(* What the reader yields, on the other hand, the words can always say:    *)
(* whatever the file holds, a packet that they cannot say is not read.     *)
(***************************************************************************)
IsLast(last, y) == last = {} \/ (y # <<>> /\ last = {y[Len(y)]})

SayableInv ==
    /\ yielded \in Seq(ConfigurationPacket)
    /\ Sayable(yielded)
    /\ pc = "opened" => yielded = <<>> /\ packet = {}
    /\ pc = "advancing" => words \in Seq(Nat) /\ IsLast(packet, yielded)
    /\ pc = "positioned" /\ position # <<>> =>
           /\ words \in Seq(Nat)
           /\ \E p \in ConfigurationPacket :
                  packet = {p} /\ Sayable(Append(yielded, p))

\* One more packet can be told apart if it can be from the last one.
LEMMA SayableNext ==
    ASSUME NEW y \in Seq(ConfigurationPacket), Sayable(y), NEW last,
           IsLast(last, y), NEW p \in ConfigurationPacket,
           SayableAfter(p, last)
    PROVE  Sayable(Append(y, p))
<1> DEFINE n == Len(y)
           z == Append(y, p)
<1>1. /\ z \in Seq(ConfigurationPacket)
      /\ n \in Nat /\ DOMAIN y = 1..n /\ DOMAIN z = 1..n + 1
      /\ \A i \in 1..n : z[i] = y[i]
      /\ z[n + 1] = p
  BY LenProperties, AppendProperties
<1>2. ASSUME NEW i \in 1..n PROVE IsSayable(z, i)
  <2>1. IsSayable(y, i)
    BY <1>1, SayableMeans
  <2>2. z[i] = y[i] /\ (i > 1 => z[i - 1] = y[i - 1])
    <3>1. i > 1 => i - 1 \in 1..n
      BY <1>1
    <3>2. QED
      BY <1>1, <3>1
  <2> HIDE DEF z
  <2>3. QED
    BY <2>1, <2>2 DEF IsSayable
<1>3. IsSayable(z, n + 1)
  <2> DEFINE j == n + 1
  <2>1. z[j] = p /\ j - 1 = n
    BY <1>1
  <2>2. ASSUME p.header_type = TYPE2
        PROVE  j > 1 /\ z[j - 1].address = p.address
    <3>1. \E q \in ConfigurationPacket : last = {q} /\ q.address = p.address
      BY <2>2 DEF SayableAfter
    <3>2. y # <<>> /\ last = {y[n]} /\ y[n].address = p.address
      BY <3>1 DEF IsLast
    <3>3. n # 0
      BY <3>2, EmptySeq
    <3>4. n \in 1..n /\ j > 1
      BY <1>1, <3>3
    <3>5. z[n] = y[n]
      BY <1>1, <3>4
    <3>6. QED
      BY <2>1, <3>2, <3>4, <3>5
  <2> HIDE DEF j, z
  <2>3. IsSayable(z, j)
    BY <2>1, <2>2 DEF IsSayable, SayableAfter
  <2>4. QED
    BY <2>3 DEF j
<1> HIDE DEF z
<1>4. \A i \in DOMAIN z : IsSayable(z, i)
  <2>1. \A i \in 1..n + 1 : i \in 1..n \/ i = n + 1
    BY <1>1
  <2>2. QED
    BY <1>1, <1>2, <1>3, <2>1
<1>5. Sayable(z)
  BY <1>1, <1>4, SayableMeans
<1>6. QED
  BY <1>5 DEF z

\* No packet has been read.
LEMMA InitSayableInv == Init => SayableInv
<1> SUFFICES ASSUME Init PROVE SayableInv
  OBVIOUS
<1>1. pc = "opened" /\ yielded = <<>> /\ packet = {}
  BY DEF Init, Reader!InitReader
<1>2. yielded \in Seq(ConfigurationPacket) /\ DOMAIN yielded = {}
  BY <1>1
<1>3. QED
  BY <1>1, <1>2 DEF SayableInv, Sayable

\* What a step may do to what the reader yields.
LEMMA AdvanceSayable ==
    ASSUME SayableInv, Reader!Advance
    PROVE  SayableInv'
<1> DEFINE result == InitWithWords(words, packet)
<1>1. /\ pc = "advancing" /\ result.first # words
      /\ words' = result.first /\ packet' = result.second
      /\ position' = IF result.first = <<>> /\ result.second = {}
                     THEN <<>> ELSE words
      /\ pc' = IF result.first # <<>> /\ result.second = {}
               THEN "advancing" ELSE "positioned"
      /\ yielded' = yielded
  BY SameParser DEF Reader!Advance
<1>2. /\ yielded \in Seq(ConfigurationPacket) /\ Sayable(yielded)
      /\ words \in Seq(Nat) /\ IsLast(packet, yielded)
  BY <1>1 DEF SayableInv
<1>3. words # <<>>
  <2>1. SUFFICES ASSUME words = <<>> PROVE FALSE
    OBVIOUS
  <2>2. result.first = words
    BY <2>1 DEF InitWithWords, Result
  <2>3. QED
    BY <1>1, <2>2
<1>4. packet = {} \/ \E q \in ConfigurationPacket : packet = {q}
  <2>1. CASE packet = {}
    BY <2>1
  <2>2. CASE yielded # <<>> /\ packet = {yielded[Len(yielded)]}
    <3>1. Len(yielded) \in Nat /\ Len(yielded) # 0
      BY <1>2, <2>2, LenProperties, EmptySeq
    <3>2. Len(yielded) \in 1..Len(yielded)
      BY <3>1
    <3>3. yielded[Len(yielded)] \in ConfigurationPacket
      BY <1>2, <3>2, ElementOfSeq
    <3>4. QED
      BY <2>2, <3>3
  <2>3. QED
    BY <1>2, <2>1, <2>2 DEF IsLast
<1>5. /\ result.first \in Seq(Nat)
      /\ \/ result.second = {}
         \/ \E p \in ConfigurationPacket :
                result.second = {p} /\ SayableAfter(p, packet)
  BY <1>2, <1>3, <1>4, ParsedIsSayable
<1> HIDE DEF result
<1>6. CASE result.second = {}
  <2>1. /\ packet' = {} /\ words' \in Seq(Nat)
        /\ pc' = "advancing" \/ (pc' = "positioned" /\ position' = <<>>)
    BY <1>1, <1>5, <1>6
  <2>2. IsLast(packet', yielded')
    BY <2>1 DEF IsLast
  <2>3. QED
    BY <1>1, <1>2, <2>1, <2>2 DEF SayableInv
<1>7. ASSUME NEW p \in ConfigurationPacket, result.second = {p},
             SayableAfter(p, packet)
      PROVE  SayableInv'
  <2>1. packet' = {p} /\ words' \in Seq(Nat) /\ pc' = "positioned"
    BY <1>1, <1>5, <1>7
  <2>2. Sayable(Append(yielded, p))
    BY <1>2, <1>7, SayableNext
  <2>3. QED
    BY <1>1, <1>2, <2>1, <2>2 DEF SayableInv
<1>8. QED
  BY <1>5, <1>6, <1>7

\* A packet read can be told apart from those before it.
LEMMA YieldSayable ==
    ASSUME SayableInv, Reader!Yield
    PROVE  SayableInv'
<1>1. /\ pc = "positioned" /\ position # <<>> /\ pc' = "advancing"
      /\ words' = words /\ packet' = packet
  BY DEF Reader!Yield
<1>2. PICK p \in ConfigurationPacket :
          packet = {p} /\ Sayable(Append(yielded, p))
  BY <1>1 DEF SayableInv
<1>3. yielded' = Append(yielded, p) /\ words \in Seq(Nat)
      /\ yielded \in Seq(ConfigurationPacket)
  BY <1>1, <1>2 DEF Reader!Yield, SayableInv
<1>4. /\ yielded' \in Seq(ConfigurationPacket)
      /\ Len(yielded') = Len(yielded) + 1
      /\ yielded'[Len(yielded) + 1] = p
  BY <1>3, AppendProperties
<1>5. yielded' # <<>>
  <2>1. Len(yielded) \in Nat
    BY <1>3, LenProperties
  <2>2. Len(yielded') # 0
    BY <1>4, <2>1
  <2>3. QED
    BY <2>2
<1>6. IsLast(packet', yielded')
  BY <1>1, <1>2, <1>4, <1>5 DEF IsLast
<1>7. QED
  BY <1>1, <1>2, <1>3, <1>4, <1>6 DEF SayableInv

\* Every step keeps the packets read such as can be told apart.
LEMMA NextSayableInv ==
    WriterInv /\ FirstPartInv /\ SayableInv /\ [Next]_vars => SayableInv'
<1> SUFFICES ASSUME WriterInv, FirstPartInv, SayableInv, [Next]_vars
             PROVE  SayableInv'
  OBVIOUS
<1>1. CASE UNCHANGED reader_vars
  BY <1>1 DEF reader_vars, SayableInv
<1>2. CASE ReadFile
  <2>1. status = "written" /\ Reader!ReaderNext
    BY <1>2 DEF ReadFile
  <2>2. CASE Reader!FindNoSync \/ Reader!AbortOnPartialWord
             \/ Reader!StopAtIncomplete \/ Reader!End
    <3>1. /\ yielded' = yielded
          /\ \/ pc' \in {"unsynced", "aborted", "done"}
             \/ pc' = "positioned" /\ position' = <<>>
      BY <2>2 DEF Reader!FindNoSync, Reader!AbortOnPartialWord,
                  Reader!StopAtIncomplete, Reader!End
    <3>2. QED
      BY <3>1 DEF SayableInv
  <2>3. CASE Reader!Begin
    <3>1. /\ pc = "opened" /\ pc' = "advancing" /\ Reader!SyncOffsets # {}
          /\ words' = Reader!WordsOf(Reader!Payload)
          /\ packet' = packet /\ yielded' = yielded
      BY <2>3 DEF Reader!Begin
    <3>2. packet = {}
      BY <3>1 DEF SayableInv
    <3>3. Kept \in 0..StreamSize /\ words' = From(packets, 0, Kept)
      BY <2>1, <3>1, PayloadIsStream
    <3>4. packets \in Seq(ConfigurationPacket) /\ StreamSize \in Nat
      BY Starts DEF WriterInv
    <3>5. Kept \in Nat /\ 0 \in Nat /\ 0 <= Kept /\ Kept <= Len(Stream(packets))
      BY <3>3, <3>4 DEF StreamSize
    <3>6. words' \in Seq(Nat)
      BY <3>3, <3>4, <3>5, FromProperties
    <3>7. IsLast(packet', yielded')
      BY <3>1, <3>2 DEF IsLast
    <3>8. QED
      BY <3>1, <3>6, <3>7 DEF SayableInv
  <2>4. CASE Reader!Advance
    BY <2>4, AdvanceSayable
  <2>5. CASE Reader!Yield
    BY <2>5, YieldSayable
  <2>6. QED
    BY <2>1, <2>2, <2>3, <2>4, <2>5 DEF Reader!ReaderNext
<1>3. QED
  BY <1>1, <1>2 DEF Next, WriteFile, vars

(***************************************************************************)
(* A file that was written to its end is read as the packets that were     *)
(* written exactly when the words can say them.                            *)
(***************************************************************************)
THEOREM WrittenIsRead == Spec => []ReadsWhatWasWritten
<1>1. WriterInv /\ FirstPartInv /\ SayableInv => ReadsWhatWasWritten
  <2> SUFFICES ASSUME WriterInv, FirstPartInv, SayableInv,
                      pc = "done", good
               PROVE  yielded = packets <=> Sayable(packets)
    BY DEF ReadsWhatWasWritten
  <2>1. ASSUME yielded = packets PROVE Sayable(packets)
    BY <2>1 DEF SayableInv
  <2>2. ASSUME Sayable(packets) PROVE yielded = packets
    <3>1. /\ yielded \in Seq(ConfigurationPacket)
          /\ \A i \in 1..Len(yielded) : yielded[i] = packets[i]
          /\ Len(yielded) = Len(packets)
      BY <2>2 DEF FirstPartInv, IsFirstPart
    <3>2. packets \in Seq(ConfigurationPacket)
      BY Starts DEF WriterInv
    <3>3. QED
      BY <3>1, <3>2, SeqEqual
  <2>3. QED
    BY <2>1, <2>2
<1>2. QED
  BY <1>1, InitWriterInv, NextWriterInv, InitFirstPartInv, NextFirstPartInv,
     InitSayableInv, NextSayableInv, PTL DEF Spec

=============================================================================

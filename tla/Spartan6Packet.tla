--------------------------- MODULE Spartan6Packet ---------------------------
(***************************************************************************)
(* The 16-bit words of a Spartan-6 packet: packet2header makes the header  *)
(* word, InitWithWords takes a packet off the front of the words.          *)
(*                                                                         *)
(* A header has, from the top, 3 bits of header type, 2 of opcode, 6 of    *)
(* register and, in type 1, 5 of the number of data words.  A type 2       *)
(* header is followed by two words with the number of data words less two. *)
(***************************************************************************)
EXTENDS Integers, Sequences

\* Spartan6ConfigurationRegister.
Register ==
    [CRC |-> 0, FAR_MAJ |-> 1, FAR_MIN |-> 2, FDRI |-> 3, CMD |-> 5, CTL |-> 6,
     MASK |-> 7, COR1 |-> 10, COR2 |-> 11, PWRDN_REG |-> 12, FLR |-> 13,
     IDCODE |-> 14, CWDT |-> 15, HC_OPT_REG |-> 16, GENERAL1 |-> 19,
     GENERAL2 |-> 20, GENERAL3 |-> 21, GENERAL4 |-> 22, GENERAL5 |-> 23,
     MODE_REG |-> 24, PU_GWE |-> 25, PU_GTS |-> 26, CCLK_FREQ |-> 28,
     SEU_OPT |-> 29, EXP_SIGN |-> 30, EYE_MASK |-> 33]

\* spartan6::Command.
Command ==
    [WCFG |-> 1, LFRM |-> 3, START |-> 5, RCRC |-> 7, GRESTORE |-> 10,
     DESYNC |-> 13]

Packet(header_type, opcode, address, data) ==
    [header_type |-> header_type, opcode |-> opcode, address |-> address,
     data |-> data]

NoOperation == 0

WriteOperation == 2

\* The data of a type 2 packet begin with the two words of their number.
packet2header(packet) ==
    packet.header_type * 8192 + packet.opcode * 2048 + packet.address * 32
        + IF packet.header_type = 1 THEN Len(packet.data) % 32 ELSE 0

-----------------------------------------------------------------------------

HeaderType(words) == (words[1] \div 8192) % 8

OpcodeOf(words) == (words[1] \div 2048) % 4

AddressOf(words) == (words[1] \div 32) % 64

ShortCount(words) == words[1] % 32

\* Whether the number in the second and third word is at most n < 2^16.
LongCountIn(words, n) == words[2] = 0 /\ words[3] <= n

\* The third word is read of a type 2 header whatever is there of it.
HasLongCount(words) == Len(words) >= 3

\* What a call of InitWithWords on these words may do.  It gives no packet
\* when data are missing, when the header type is unknown or when there are no
\* words; the iterator ends then.  A count read beyond the words may be any.
GivesNothing(words) ==
    words # <<>> =>
        CASE HeaderType(words) = 0 -> FALSE
          [] HeaderType(words) = 1 -> ShortCount(words) > Len(words) - 1
          [] HeaderType(words) = 2 ->
                HasLongCount(words) => ~LongCountIn(words, Len(words) - 1)
          [] OTHER -> TRUE

\* It takes three words more than the count that it compares, and subspan
\* throws where they are not there.  With two words left, the first of the
\* count is read, and a count below two has none of its bits there.
Throws(words) ==
    /\ words # <<>>
    /\ HeaderType(words) = 2
    /\ IF HasLongCount(words)
       THEN LongCountIn(words, Len(words) - 1)
                /\ ~LongCountIn(words, Len(words) - 3)
       ELSE Len(words) = 2 => words[2] = 0

\* The packet and the words after it.
Result(words, packet) == [first |-> words, second |-> packet]

ParsePadding(words) == Result(Tail(words), Packet(0, NoOperation, 0, <<>>))

ParseType1(words) ==
    Result(SubSeq(words, ShortCount(words) + 2, Len(words)),
           Packet(1, OpcodeOf(words), AddressOf(words),
                  SubSeq(words, 2, ShortCount(words) + 1)))

\* Mutant of ParseType2: the words before the data count as two of them.
ParseType2Short(words) ==
    Result(SubSeq(words, words[3] + 4, Len(words)),
           Packet(2, OpcodeOf(words), AddressOf(words),
                  SubSeq(words, 4, words[3] + 3)))

\* The two words beyond the count are data, and are left to be read again.
ParseType2(words) ==
    LET last == IF words[3] + 5 <= Len(words) THEN words[3] + 5 ELSE Len(words)
    IN Result(SubSeq(words, words[3] + 4, Len(words)),
              Packet(2, OpcodeOf(words), AddressOf(words),
                     SubSeq(words, 4, last)))

\* Mutant of InitWithWords: type 2 data need not have arrived.
InitWithWordsPartial(words) ==
    CASE words = <<>> -> {}
      [] HeaderType(words) = 0 -> {ParsePadding(words)}
      [] HeaderType(words) = 1 /\ ShortCount(words) <= Len(words) - 1 ->
            {ParseType1(words)}
      [] HeaderType(words) = 2 /\ HasLongCount(words) -> {ParseType2(words)}
      [] OTHER -> {}

\* The packets that InitWithWords may give.
InitWithWords(words) ==
    CASE words = <<>> -> {}
      [] HeaderType(words) = 0 -> {ParsePadding(words)}
      [] HeaderType(words) = 1 /\ ShortCount(words) <= Len(words) - 1 ->
            {ParseType1(words)}
      [] /\ HeaderType(words) = 2 /\ HasLongCount(words)
         /\ LongCountIn(words, Len(words) - 3) -> {ParseType2(words)}
      [] OTHER -> {}

=============================================================================

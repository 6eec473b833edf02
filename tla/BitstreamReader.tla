--------------------------- MODULE BitstreamReader ---------------------------
(***************************************************************************)
(* BitstreamReader: from the bytes of a file to its packets.  What comes   *)
(* after the first sync word is cut into big-endian words, and an iterator *)
(* takes packets off their front as a loop over the reader asks for them.  *)
(*                                                                         *)
(* A span is the sequence of its words: the code compares spans by their   *)
(* contents too.                                                           *)
(***************************************************************************)
EXTENDS ConfigurationPacket

VARIABLES
    bitstream, \* the bytes of the file
    words,     \* parse_result_.first, the words after the current packet
    packet,    \* parse_result_.second, the current packet if there is one
    position,  \* words_, the words from the current packet on
    yielded,   \* the packets that the loop over the reader has seen
    pc         \* "opened", "advancing", "positioned"; "done", "unsynced",
               \* "aborted"

reader_vars == <<words, packet, position, yielded, pc>>

-----------------------------------------------------------------------------

kSyncWord == <<170, 153, 85, 102>>

\* sizeof(WordType).
kBytesPerElement == 4

\* The offsets at which the sync word occurs.
SyncOffsets ==
    {i \in 0..Len(bitstream) - 4 : SubSeq(bitstream, i + 1, i + 4) = kSyncWord}

\* Mutant of Payload: the sync word is one byte short.
PayloadOfShortSync ==
    LET first == CHOOSE i \in SyncOffsets : \A j \in SyncOffsets : i <= j
    IN SubSeq(bitstream, first + 4, Len(bitstream))

\* std::search finds the first.
Payload ==
    LET first == CHOOSE i \in SyncOffsets : \A j \in SyncOffsets : i <= j
    IN SubSeq(bitstream, first + 5, Len(bitstream))

\* BigEndianSpan: the word of each four bytes.
BigEndian(bytes, i) ==
    ((bytes[4 * i - 3] * 256 + bytes[4 * i - 2]) * 256 + bytes[4 * i - 1]) * 256
        + bytes[4 * i]

WordsOf(bytes) ==
    [i \in 1..Len(bytes) \div kBytesPerElement |-> BigEndian(bytes, i)]

-----------------------------------------------------------------------------

InitReader ==
    /\ words = <<>>
    /\ packet = {}
    /\ position = <<>>
    /\ yielded = <<>>
    /\ pc = "opened"

\* InitWithBytes returns nothing.
FindNoSync ==
    /\ pc = "opened"
    /\ SyncOffsets = {}
    /\ pc' = "unsynced"
    /\ UNCHANGED <<bitstream, words, packet, position, yielded>>

\* An incomplete last word: its iterator is advanced beyond the end of the
\* bytes, and absl::Span::subspan throws.
AbortOnPartialWord ==
    /\ pc = "opened"
    /\ SyncOffsets # {}
    /\ Len(Payload) % kBytesPerElement # 0
    /\ pc' = "aborted"
    /\ UNCHANGED <<bitstream, words, packet, position, yielded>>

\* InitWithBytes, and begin() up to the first ++.
Begin ==
    /\ pc = "opened"
    /\ SyncOffsets # {}
    /\ Len(Payload) % kBytesPerElement = 0
    /\ words' = WordsOf(Payload)
    /\ pc' = "advancing"
    /\ UNCHANGED <<bitstream, packet, position, yielded>>

\* Insufficient words to yield a packet are the end.  The last packet stays
\* where it is.
StopAtIncomplete ==
    /\ pc = "advancing"
    /\ InitWithWords(words, packet).first = words
    /\ position' = <<>>
    /\ pc' = "positioned"
    /\ UNCHANGED <<bitstream, words, packet, yielded>>

\* A turn of the loop of operator++, which goes on over words without a
\* packet, and what follows the loop.
Advance ==
    /\ pc = "advancing"
    /\ LET result == InitWithWords(words, packet)
       IN /\ result.first # words
          /\ words' = result.first
          /\ packet' = result.second
          /\ position' = IF result.first = <<>> /\ result.second = {}
                         THEN <<>> ELSE words
          /\ pc' = IF result.first # <<>> /\ result.second = {}
                   THEN "advancing" ELSE "positioned"
    /\ UNCHANGED <<bitstream, yielded>>

\* The loop "for (auto packet : reader)": begin() or the iterator that was
\* advanced is not end().
Yield ==
    /\ pc = "positioned"
    /\ position # <<>>
    /\ \E p \in packet : yielded' = Append(yielded, p)
    /\ pc' = "advancing"
    /\ UNCHANGED <<bitstream, words, packet, position>>

End ==
    /\ pc = "positioned"
    /\ position = <<>>
    /\ pc' = "done"
    /\ UNCHANGED <<bitstream, words, packet, position, yielded>>

ReaderNext ==
    \/ FindNoSync
    \/ AbortOnPartialWord
    \/ Begin
    \/ StopAtIncomplete
    \/ Advance
    \/ Yield
    \/ End

=============================================================================

--------------------------- MODULE BitstreamWriter ---------------------------
(***************************************************************************)
(* BitstreamWriter::writeBitstream: a file header, then the words of two   *)
(* nested iterators: over a fixed header that ends in the sync word, and   *)
(* then, for each packet, over its header word and its data.  At the end   *)
(* the number of bytes is written back into the file header.               *)
(*                                                                         *)
(* The stream is an std::ofstream whose state nobody looks at after it is  *)
(* open: when there is no room left it drops what it is given, and the     *)
(* seek and the bytes after it too.                                        *)
(***************************************************************************)
EXTENDS ConfigurationPacket

CONSTANT
    FileHeader \* create_header(...): ends with the four bytes of the length

VARIABLES
    header_,     \* the fixed header of the architecture: words of four bytes
    packets,     \* the packets to write
    room,        \* the bytes there is room for
    out_file,    \* the bytes of the file
    good,        \* whether the stream has dropped nothing
    itr_header,  \* the header word that the iterator is at
    itr_packets, \* the packet that the iterator is at
    state,       \* packet_iterator: "header", "data"
    itr_data,    \* the data word that the packet iterator is at
    status       \* "created", "writing", "written", or "unopened" (returns 1)

writer_vars == <<out_file, good, itr_header, itr_packets, state, itr_data, status>>

-----------------------------------------------------------------------------

InitWriter ==
    /\ out_file = <<>>
    /\ good = TRUE
    /\ itr_header = 1
    /\ itr_packets = 1
    /\ state = "header"
    /\ itr_data = 1
    /\ status = "created"

\* The bytes of a word from the top.
BytesOf(word) ==
    <<word \div 16777216, (word \div 65536) % 256, (word \div 256) % 256,
      word % 256>>

\* out_file.put, byte by byte.
Put(bytes) ==
    LET wanted == out_file \o bytes
    IN IF good /\ Len(wanted) <= room
       THEN out_file' = wanted /\ UNCHANGED good
       ELSE /\ out_file' = IF good THEN SubSeq(wanted, 1, room) ELSE out_file
            /\ good' = FALSE

\* "Unable to open file for writting".
FailToOpen ==
    /\ status = "created"
    /\ status' = "unopened"
    /\ UNCHANGED <<packets, room, out_file, good, itr_header, itr_packets,
                   state, itr_data>>

PutFileHeader ==
    /\ status = "created"
    /\ Put(FileHeader)
    /\ status' = "writing"
    /\ UNCHANGED <<packets, room, itr_header, itr_packets, state, itr_data>>

\* A turn of the loop over the words while the iterator is in the header.
PutHeaderWord ==
    /\ status = "writing"
    /\ itr_header <= Len(header_)
    /\ Put(header_[itr_header])
    /\ itr_header' = itr_header + 1
    /\ UNCHANGED <<packets, room, itr_packets, state, itr_data, status>>

InPacket ==
    /\ status = "writing"
    /\ itr_header > Len(header_)
    /\ itr_packets <= Len(packets)

\* The packet iterator of the next packet.
PacketBegin ==
    /\ itr_packets' = itr_packets + 1
    /\ state' = "header"
    /\ itr_data' = 1

Data == packets[itr_packets].data

PutPacketHeader ==
    /\ InPacket
    /\ state = "header"
    /\ Put(BytesOf(packet2header(packets[itr_packets])))
    /\ IF Data = <<>>
       THEN PacketBegin
       ELSE state' = "data" /\ itr_data' = 1 /\ UNCHANGED itr_packets
    /\ UNCHANGED <<packets, room, itr_header, status>>

PutData ==
    /\ InPacket
    /\ state = "data"
    /\ Put(BytesOf(Data[itr_data]))
    /\ IF itr_data = Len(Data)
       THEN PacketBegin
       ELSE itr_data' = itr_data + 1 /\ UNCHANGED <<itr_packets, state>>
    /\ UNCHANGED <<packets, room, itr_header, status>>

\* The length of the data goes to the last four bytes of the file header,
\* unless the stream has failed: the seek and the puts do nothing then.
PatchLength ==
    /\ status = "writing"
    /\ itr_header > Len(header_)
    /\ itr_packets > Len(packets)
    /\ out_file' =
           IF good
           THEN SubSeq(out_file, 1, Len(FileHeader) - 4)
                    \o BytesOf(Len(out_file) - Len(FileHeader))
                    \o SubSeq(out_file, Len(FileHeader) + 1, Len(out_file))
           ELSE out_file
    /\ status' = "written"
    /\ UNCHANGED <<packets, room, good, itr_header, itr_packets, state, itr_data>>

writeBitstream ==
    \/ FailToOpen
    \/ PutFileHeader
    \/ PutHeaderWord
    \/ PutPacketHeader
    \/ PutData
    \/ PatchLength

=============================================================================

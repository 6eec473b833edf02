# Verification of the configuration tools of Project U-Ray (prjuray-tools)

prjuray-tools turns between three views of an FPGA configuration: a *frames file*
(`.frm`, one line per frame: an address and its words), a *configuration package* (the
packets a device is programmed with) and a *bitstream* (the packets as bytes, behind a
header).  What the tools must get right is that nothing changes on the way: a frame
that goes in comes out under the same address with the same words, whatever the part,
the order of the packets and the gaps in the address space.

Beside them are tools with writers, readers and ECC code of their own (bits2rbt, assemble,
dump_bitstream), and tools that infer what the bits of a frame mean (segmatch, correlate).

This directory holds TLA+ models of these, TLC configurations that check them on
small instances, and theorems about them that TLAPS proves for every instance.

## 1. Inventory

| Component | Code | State | Operations | Made correct by |
|---|---|---|---|---|
| Part addressing | `lib/xilinx/{xc7series,xcuseries,xcupseries}/{part,global_clock_region,configuration_row,configuration_bus,configuration_column,frame_address}.cc` | nested `std::map`s from block type, half, row, column to a frame count; immutable | `IsValidFrameAddress`, `GetNextFrameAddress`, construction from addresses | the successor of an address is a greater, valid address; the walk from address zero visits every frame of a part without gaps |
| Frames | `lib/include/prjxray/xilinx/frames.h`, `lib/xilinx/frames.cc` | `frames_data_`, a map from addresses to words | `readFrames`, `addMissingFrames`, `updateECC` | every accepted line is held, the first of two for one address; nothing else is; every frame of the part is there afterwards |
| Configuration, reading | `configuration.h` (`InitWithPackets`) | CMD, FAR, MASK and CTL1 registers, `start_new_write`, `current_frame_address`, the map of frames | one case per register of a Write packet | an FDRI packet starts where it was told to; whole frames at known addresses; a bitstream for another part is refused |
| Configuration, writing | `configuration.h` (`createType2ConfigurationPacketData`), `configuration.cc` | the sequence of words, the list of packets | lay out frames with padding between rows; wrap them in the programming sequence | the interpreter loads from the packets what was laid out |
| Bitstream | `bitstream_reader.h`, `bitstream_writer.h/.cc`, `configuration_packet.h/.cc` | iterators over words and packets | words to packets and back, sync word, header | reading gives the packets written; an incomplete packet ends the stream |
| ECC | `xc7series/ecc.cc`, `xcuseries/ecc.cc`, `xcupseries/ecc.cc`, and code of their own in `tools/bits2rbt/ecc.cc`, `tools/assemble.cpp` | the frame | update and verify the ECC bits | verifying accepts what any of the programs wrote, and nothing with one or two bits flipped |
| xcframes2bit | `tools/xcframes2bit.cc` | composes the above | frames file to bitstream | the device gets the frames of the file and zeros elsewhere |
| xcpatch | `tools/xcpatch.cc` | a configuration and the deltas | patch the frames of a bitstream | exactly the frames named change |
| Spartan-6 variants | `lib/xilinx/spartan6/*`, specialisations in `configuration.h/.cc`, `configuration_packet.cc`, `bitstream_writer.cc` | as above, 16-bit words, FAR in two registers | as above | as above, although the parser reads the last two words of the frames twice |
| bits2rbt | `tools/bits2rbt/*` | the frames, the packets before and after them, a running CRC | bits and auxiliary data to a bitstream in text | the interpreter reads the frames of the bits; the CRCs are a device's |
| assemble | `tools/assemble.cpp`, `LineReader` in `tools/common.h` | the frames, the region of interest, a running CRC | region of interest, harness and design to a bitstream | the bits of the files and no others; read back as written |
| dump_bitstream | `tools/dump_bitstream.cpp` | frame, word counter, CRC | a bitstream to its set bits | the bits of the frames written |
| bitread, bittool | `tools/bitread.cc`, `tools/bittool.cc` | none beyond the configuration they print | list bits, cut a bitstream | print what the configuration holds |
| gen_part_base_yaml | `tools/gen_part_base_yaml.cc` | the addresses found in a debug bitstream | addresses to a part | the part has exactly those addresses, up to the minor of each column |
| segmatch | `tools/segmatch.cc` | segments with bits and tags, numbers of bits and tags, the mask of candidates | infer the bits of each tag | a candidate is set in every segment with the tag and in none without |
| correlate, correlate_segdata | `tools/correlate.cpp`, `tools/correlate_segdata.cpp` | features, dependencies, bits per tile type | infer the bits of features | a bit is due to one of the features that come together, in whatever order they are taken |
| Python database | `prjuray/*.py` | lazily loaded files, caches of tile types and segbits | lookups of grid, tiles, connections, segbits, features of bits | a lookup answers the same whenever it is asked |
| Decoders, scripts | `tools/*frame_address_decoder.cc`, `tools/explain.cpp`, `tools/stripdb.cpp`, `tools/*.py` | a line at a time | text filters | - |

How they interact: `xcframes2bit` builds a `Part` from its `.yaml`, a `Frames` from the
`.frm`, fills the gaps with `addMissingFrames`, hands the map to
`createType2ConfigurationPacketData` and the words to `createConfigurationPackage`, and
writes the packets with `BitstreamWriter`.  `xcpatch`, `bitread` and `bittool` go the
other way: `BitstreamReader` yields packets, `Configuration::InitWithPackets` makes
frames of them.  All of them share only the `Part`.
`bits2rbt` and `assemble` write a packet, an address and a CRC for every frame;
`dump_bitstream` follows the addresses and a list of frames.  `segmatch` and
`correlate_segdata` take the same files.  Nothing is concurrent and nothing
is kept between runs, so there are no interleavings, crashes or timeouts to model: what
is hard is *sequences* - of packets that arrive in any order, of frames over an address
space with holes, of writers and readers that must agree word by word although they are
separate loops over separate containers - and *partial failure*, where a tool stops in
the middle of its input and keeps or drops what came before.  `PROJECT.json` lists each
hazard at its line.

## 2. Modules

```
PartAddressing        --> Frames                --> Frames2Bit --(refines)--> FrameTransfer
 + ConfigurationRegister  --> ConfigurationWriter   --> Frames2Bit, XcPatch, PerFrame
                          --> Configuration         --> Frames2Bit, XcPatch, ConfigurationSplit,
                                                        PerFrame
ConfigurationPacket   --> BitstreamWriter       --> Bitstream, Frames2Bit
                      --> BitstreamReader       --> Bitstream, Frames2Bit
PartAddressing        --> Spartan6 <-- Spartan6Packet
 + ConfigurationRegister  --> FrameWrites --> Bits2Rbt, Assemble <-- LineReader
Bits2Rbt, Assemble, DumpBitstream           --> PerFrame
Segmatch, Correlate                         --> TagSolvers
Ecc
PartAddressing        --> PartAddressing_proofs --> Configuration_proofs, Frames_proofs,
                                                    RoundTrip_proofs
Configuration, ConfigurationSplit --> Configuration_proofs
ConfigurationWriter, Configuration --> RoundTrip_proofs --> XcPatch_proofs <-- Frames_proofs
Frames_proofs, Bitstream_proofs, RoundTrip_proofs      --> Frames2Bit_proofs <-- Frames2Bit
Bitstream             --> Bitstream_proofs
TagSolvers            --> TagSolvers_proofs
```

* **PartAddressing** - pure operators.  A part is one function from (block type, half,
  row, column) to a frame count; a level of the nested maps is the set of keys at that
  level.  A part has its architecture: Series-7 (two clock regions, each with its rows),
  UltraScale and UltraScale+ (one map of rows, whose top bit is the half, wider minors in
  the latter), or Spartan-6 (no half).  An `absl::optional` is a set of at most one element.
* **Frames** - the container: `readFrames` with one action per outcome of a line
  (comment, malformed, unknown address, wrong count, inserted), `addMissingFrames` with
  one action per turn of its loop.
* **Configuration** - `InitWithPackets`: one action per case of the switch, `BeginFDRI`,
  `StoreFrame` (a turn of the frame loop) and `EndFDRI` for an FDRI packet.
* **ConfigurationWriter** - the two static functions that make packets of frames, with
  the registers and values of each architecture's programming sequence.
* **ConfigurationRegister** - the numbers of registers, opcodes and commands.
* **ConfigurationPacket** - pure operators: `packet2header` makes the header word of a
  packet, `InitWithWords` takes a packet off the front of the words.  A word is its
  number, with fields whose sizes are constants.
* **BitstreamWriter** - `writeBitstream`, one action per kind of word its two nested
  iterators yield.  The stream may fail to open, or run out of room at any byte, which
  the code does not look at.
* **BitstreamReader** - `InitWithBytes` and the loop over the packets: `Advance` is a
  turn of the loop in `operator++`, `Yield` an element the caller sees.
* **Bitstream** - both over the same bytes, for any list of packets behind any header.
* **ConfigurationSplit** - two interpreters of the same stream, but that the data of its
  last FDRI packet come in one packet for the first and cut in two for the second.
* **FrameTransfer** - the abstract specification: what is sent arrives.
* **Frames2Bit** - `xcframes2bit` with the reading of its output, as instances of
  Frames, ConfigurationWriter, BitstreamWriter, BitstreamReader and Configuration over
  shared variables: from the lines of a `.frm` file through the bytes of a bitstream to
  the frames that another tool makes of it.
* **XcPatch** - `patch_frames` between reading a base and writing a result.
* **Spartan6Packet**, **Spartan6** - the 16-bit packets, and a whole transfer: the
  frames become a package with the length in the payload, the package a file that may end
  at any byte, the words of the file packets, and the packets frames.
* **FrameWrites** - what bits2rbt and assemble share.  A CRC is the sequence of the writes
  it is computed from: two agree only if these are the same.
* **Bits2Rbt** - `ConfigurationPackets`: the bits, the ECC, the frames of the auxiliary
  data, and the packets of a frame with their CRC.
* **LineReader** - the lines its iterator yields of a file whose last line may not be
  terminated.
* **Assemble** - region of interest, harness and design through LineReader into the
  frames of one of several chips (`Chips`), then `write_bitstream`.
* **DumpBitstream** - `parse_bitstream`, an action per packet and one per word.
* **PerFrame** - one of Bits2Rbt, Assemble and ConfigurationWriter writes, DumpBitstream
  dumps, Configuration interprets.
* **Ecc** - the frame and its ECC by the library, by bits2rbt and by assemble, with the
  operators of each translated from its own code, upsets, `verifyECC`.
* **Segmatch** - `read_input` word by word, with the loop that looks for a free name, and
  `main` segment by segment.
* **Correlate** - `correlate_segdata`, line by line and feature by feature; the analysis
  is that of `correlate`.  The value of a tag is a text: "0", "1", or one that is read as
  another number than zero, which "2" stands for.
* **TagSolvers** - Segmatch and Correlate of the same files.
* **MC...** - the instances TLC runs; **..._proofs** - the theorems.

State maps to code by name: a variable is the member, local variable or iterator of the
same name, and `pc`, `writer_pc` and the like stand for the place in the function.

Abstractions: frame data is a short sequence of words out of a small set; of MASK and
CTL1 only bit 21 is kept by the interpreter, the one bit the code looks at; the bits of
a FAR word above the block type, zero in all that the tools write, are dropped; the text
of the file header of a bitstream (part, source, date) is a few bytes that stand for any.
In PerFrame the one word of a frame with its ECC stands for the ECC bits, and the ECC is a
function of the others; Ecc has the real ones, a word being the set of its bits.  In the
tag solvers bits and tags are names.  PerFrame and XcPatch hand their packets to the
reader in memory, as the repository's tests do: the file between them is the one of
Frames2Bit.

## 3. What the runs check

| Run | Question | Bounds |
|---|---|---|
| `frames` | Which parts does `addMissingFrames` cover, and does it ascend? `CompleteExactlyWhenWalkable` says it covers a part exactly when a condition on the part's rows and columns holds. What does the container hold, whatever the lines? | every Series-7 and UltraScale part over two block types, both halves, two rows and two columns in the first block type; over three block types, both halves and three rows; and with columns without frames and a block type that the walk does not know; Spartan-6 parts of the one half: each kind of gap is among them; for parts built from the addresses seen, every file of up to three lines: duplicates, wrong counts, comments, a failure before, between and after accepted lines |
| `frames_missing` | Is the comment on `addMissingFrames` true of every part? It is not (see below). | as `frames` |
| `configuration` | Are frames whole, known, ascending in a packet, and only of this part? Where does an FDRI packet start? `BurstOrigin` answers over the history of the stream. | every stream of up to three packets, frames of two words and FDRI data of 0, 2, 3, 6, 7, 8 or 10, so that a packet goes over the padding behind a row and a frame beyond it; four where the first two are WCFG and FAR; five or six of WCFG, FAR, MASK, CTL1 and FDRI packets |
| `configuration_split` | Which cuts of FDRI data leave the result the same? Those where a frame starts, and no others unless equal words hide the difference. | data of up to eight frames whose words all differ, or all agree, or repeat, behind packets that write WCFG, FAR, both or frames of their own; every cut of them; every part over five columns, of one or two rows, halves and block types |
| `frames2bit` | Does the tool, read back, implement FrameTransfer where the walk covers the part, and end? What does the round trip keep on parts with gaps? And from a bitstream that was cut off? All frames or none. | Series-7, UltraScale and UltraScale+ parts that grow column by column over three blocks, two halves and two rows, and every part over six columns, with every file of up to two lines in the order of their addresses (the run `frames` has the other orders); for one part of two rows, every place the bitstream can be cut; real field sizes |
| `bitstream` | Which lists of packets are read from a file as they were written? `Sayable` answers: those whose type 2 packets repeat the register of the packet before, whose counts fit, and whose padding is bare. What is read of a file that ends early? A first part of the packets, never a shortened one. | every list of up to three packets out of 20: all types, data that look like headers, counts that wrap; for every list of one to three out of five, every place the file can be cut; fields of 2 registers, 2 short and 8 long counts |
| `bitstream_padded` | Is the comment on type 0 words true? It is not (see below). | every list of up to three packets out of padding, type 1 and type 2 |
| `xcpatch` | Is the result the base overlaid with the deltas, and when is it read back so? | whole and partial bases, deltas of up to two addresses, one of them possibly unknown |
| `spartan6` | Which Spartan-6 frames come back? Exactly those the walk comes by in order, all but the last 65 words long, whose last two words, when they are read again as packets, neither name another part nor load frames other than the last one as it is (`Harmless`). From a file that was cut, or with other last words? All the frames that end before the last two words, or none (`AllButTailOrNone`): the last one, or the last two if the last has one word, may be cut short or be overwritten. | two parts with gaps and an IOB block; every set of their frames, with last words out of eleven headers and data, a last frame of one, two or three words, and any word before one of one word; frames of other lengths; for six maps every place the file can be cut |
| `per_frame` | What is read of bitstreams made frame by frame, and where is each frame dumped? Are their CRCs a device's? Does each program end? | frames of two words of two bits; rows of two, of one and of no frame; for assemble also four chips with gaps: rows that do not start at column 0, a frame missing in a row or where it starts; up to two lines of bits with invalid ones and words beyond the frame, three kinds of commands before the frames, with and without bit 21 of CTL1, and two after them, one of which clears it; for assemble up to two harness lines with frames inside, outside and nowhere and bits of the ECC, features that fit and that do not, files that are not terminated |
| `ecc` | Does a frame with an ECC verify exactly when nothing has flipped? Do the programs, each with tables, masks and loops of its own, agree? Can an upset be told from any other? | frames of 101, 123 and 93 words; blank, with bits where the offsets change, and with bits of an old ECC; any one bit flipped, and any second one after four of them |
| `tag_solvers` | Are the candidates of segmatch those that agree with the files? Whose bits are whose for correlate_segdata? Do they agree where they read the tags alike, and end? | two segments of every combination of bits and tags, also contradictory ones and values other than 0 and 1, with names that clash with each other and with the numbered names, and up to two more in the file or in one before; lines out of place; words of four bits, so that a mask is not full |

Small bounds are enough for frames because the code looks at neighbouring ones only: two frames,
two rows, two halves and three block types give every kind of boundary, and one frame
before and after it shows what an error shifts.

Each segment of the tag solvers is taken on its own, so that four show every pairing of a
tag known to be 1, 0 or nothing with a bit set or clear; the ECC is linear, and one and two
flipped bits of a frame of the real size are what it is for.

`frames_missing` is expected to fail: the comment at `frames.h:28` promises the frames
"present in the tilegrid ... but missing in the current frames container", but the walk
stops at the first row that does not continue at column 0 of the same block type, and on
a part without address zero it adds a frame the part does not have.  The passing runs
state exactly what holds instead.

`bitstream_padded` is expected to fail: the comment at `configuration_packet.cc:98` says
type 0 words are consumed "without generating a packet", but a NOP packet on register CRC
is returned for each, and a type 2 packet after it is taken to be for CRC.  `Sayable`, in
`bitstream`, states what holds instead.

Fairness: every tool is one thread, so `WF_vars(Next)` - it goes on while it can - is
all the liveness properties assume.  The abstract specification has no fairness; that
the transfer ends is checked on its own (`TransferEnds`), as it is for the file formats (`Ends`), the
programs of PerFrame (`EndsUnlessEndless`) and the tag solvers (`BothEnd`).  None of these
needs more than that the thread goes on.

The runs show some things that the properties state as the code has them, and that a
reader of the code may not expect:

* A comment in `bits2rbt/configuration_packets.cc:67` says "Write the zero frame at the end
  of each row", and the same frame is written again, which the interpreter takes for the
  next frame of the part unless a frame follows there (`Contiguous`).
* The empty frame that assemble writes after a row overwrites the last frame of the row if
  the part has no address after it, at its end or in front of a row that does not start at
  column 0: the interpreter stays where it is (`configuration.h:300`, `Expected`).
* dump_bitstream follows the list of frames and not the part: of a region of interest with a
  frame that the chip does not have, the frames are dumped where the list leads
  (`DumpsAlongTheList`).
* A tag with a value other than 0 and 1, say 2, sets the feature for correlate_segdata, which
  reads a number (`correlate_segdata.cpp:136`), and not for segmatch, which compares the text
  with "1" and only asserts that it is "0" otherwise (`segmatch.cc:199`; `ReadAlike`).
* Whether the last frame is written again is read from beyond the end of the map (line 66);
  the model allows both.
* If the auxiliary data do not set bit 21 of CTL1 in front of the frames, the address after each frame starts a new
  write, and every frame is read with the data of the next one (`OneBehindUnlessInhibited`).
* `LineReader` (`common.h:105`) reads the last line of a file for ever if it is not
  terminated, and throws on a line of spaces (`EndsUnlessEndless`).
* The last two words of Spartan-6 frames are read again as packets
  (`configuration_packet.cc:71`, with a FIXME on them); they may write registers, and frames.
  The length check leaves out two words as well, so that a file that ends in the last two
  words of the frames is accepted with the last frame, or a last one of one word and the
  frame before it, cut short.
* `bool_vec(n, true)` of segmatch leaves the bits from n + 1 on set (`segmatch.cc:105`).
  Nothing comes of it, since a tag that is never 1 is not given candidates.

## 4. What is proved

TLAPS proves the following for every part, frame length, `.frm` file, base bitstream,
IDCODE and packet stream, every size of the fields of a packet header, every place where a
bitstream is cut off, and every input of segmatch and correlate_segdata.

Of `PartAddressing` and `Configuration`:

* `NextIsValidAndGreater`, `NextIsOptional`: `GetNextFrameAddress` answers at most one
  address, of the part, and greater.  The proof follows the structure of the code: a lemma
  per level (column, bus, row, region, block type), each of which says that a step at
  that level ascends, over `PackedOrder`, which says the packed number orders addresses
  by their fields.
* `TypeCorrect` of the interpreter.
* `BurstsAscend`: `StoreFrame` moves to the successor; from the theorem above.
* `OnlyKnownAddresses`: the invariant `KnownInv` adds to the property that FAR and the
  current address are known, since a frame is stored at the current address and the
  next burst starts at FAR.
* `RefusesOtherParts`: `PartInv` states it of the packets consumed so far.
* `BurstsStartWhereToldTo`: `History` relates each register to the last packet that
  wrote it and `start_new_write` to the packets since the last FDRI, which is what
  makes `BurstOrigin`, stated over the stream, inductive.
* `FramesAreWhole`: a frame that is kept has the words of a frame, as long as the FDRI
  packets hold whole ones.  `WholeInv` says that a burst stands at a multiple of the frame
  length in the data of its packet, also behind the padding between rows, which is two frames.
* `SplitsWhereFramesStart`: whatever the part, the stream, the data and the cut.  The
  interpreter is taken as a function from states to states (`Step`, `NextIsStep`), of which
  both interpreters make use, each with packets of its own; `SplitInv` has, besides its other
  parts, a history of the states of the first (`Traced`).  If the first comes to the cut,
  the second goes through the same states up to there (`SameStep`), needs two more
  steps to end its packet and begin the next (`CutSteps`), and then through those of the
  first with the offset counted from the cut (`Trails`).  The converse is about words: every
  frame of the first consists of data of one packet, from an offset on where a frame starts
  (`FramesFrom`), and the second keeps the frame with the word behind the cut in front
  (`FirstFrameKept`), since addresses ascend within a packet.  If the two agree, the first has
  that frame too, and if no other word is like that one (`CutIsUnmistakable`) its offset is the
  cut.  Without that condition the converse is false: with equal words a misplaced frame looks
  like the one in its place.

Of `Frames`:

* `TypeCorrect` of the container.
* `WalksUp`: every turn of `addMissingFrames` moves to a greater address; from
  `NextIsValidAndGreater`.
* `FirstLinesWin`, `HoldsItsLines`: what the container holds, in terms of the lines of
  the file.  Neither is inductive: that `addMissingFrames` does not put a zero frame in
  the place of a line needs to know that every line that counts has left its frame, and
  that holds of address zero, which the walk adds even to a part without it, only
  because a file with a line for an unknown address is not read to its end.  `HeldInv`
  says so, and names the first line of each address (`IsFirst`) where the property takes
  a minimum; `WalkInv` says that the walk is at an address of the part or at zero.
* `WalkCoversWalkable`: `addMissingFrames` covers a part exactly when it is `Walkable`, a
  condition on its rows and columns that says nothing of a walk.  `WalkableMeansReached`
  relates the two: the condition holds exactly when each address but zero is the next one of
  some other.  That it suffices follows the code from an address to the `Closest` one after
  it (`NextInRow`, `NextInRegion`, `NextHalf`, `NextBlockType`, and that the cases before
  each have nothing to offer); that it is necessary looks, for each clause, at how the
  walk enters the set of addresses it is about (`EnteredAtFirst`).  `ReachInv` says that
  what is inserted is closed under next addresses and that each was come by from another;
  so the first address that is missing would be the next one of an address that is not.

Of `ConfigurationPacket`:

* `ParsesWhatIsWritten`: `InitWithWords` takes the packet off the words that
  `packet2header` and the data make, and leaves what follows them, for every packet the
  words can say.  A header is a sum of fields times the sizes of the fields below them;
  `FieldSizes`, `DivModUnique` and `HeaderFields` take it apart again, and `Dispatch` says
  which case of the switch each kind of packet meets.
* `IncompleteIsNotParsed`: with fewer words than that, nothing is consumed or yielded,
  which is how the reader finds the end of a file that was cut off.
* `ParsedIsSayable`: whatever the words, a packet that comes off them is one that the words
  can say; a list of packets that they cannot say is therefore never read back.

Of `Bitstream`:

* `WrittenIsRead`: the packets that are read of a file that was written to its end are those
  written exactly when the words can say them (`ReadsWhatWasWritten`).
* `FirstPartIsRead`: of a file that ends anywhere, a first part of them is read.

  They rest on three invariants.  `WriterInv` says that the bytes of the file are those of
  the file header, the header words and the words of the packets so far, up to where there
  is no more room, and where the two nested iterators stand in them; the length that is
  written into the file header at the end moves none.  `FirstPartInv` says of the reader
  that the sync word it has found is the one of the header, and that what it has left to
  read are the words of the packets it has not yielded; its step is `ParsesWhatIsWritten`,
  and `IncompleteIsNotParsed` where the file ends.  `SayableInv` is about the lists that the
  words cannot say: what has been yielded is always `Sayable`.

Of `XcPatch`:

* `OverlayIsWritten`: what is written is the base with the frames of the file in place of
  its own.  `OverlayInv` says it of the frames patched so far.
* `PatchedIsReadExactlyWhenWhole`: what is written is read back as it was exactly when the
  base is whole (`PatchedExactlyWhenBaseWhole`).  `PatchInv` takes what is proved of the
  frames, of the writer and of the reader through the program; the argument is that of
  `RoundTrip_proofs`, which is about any frames of any part, and the writer and the reader of
  packets alone.

Of `ConfigurationWriter` with `Configuration` (`RoundTrip_proofs`, lemmas):

* `ReadExactlyWhenWalked`, `ReadIntactBeforeUnwalked`, `AllReadOrNone`: the frames that the
  interpreter makes of a package are those the package was made of exactly when these are the
  frames of the walk; frames in front of the first address that is missing or not of the walk
  are intact; and of a first part of the package that ends between two packets either all
  frames are read or none.  The writer puts the frames one after the other, with padding of two
  frames behind the last of a row (`WriterInv`).  The reader knows nothing of that: it follows
  the walk of the part, and steps over two frames where the *walk* changes the row.  `Level(a)`
  says that below `a` the frames written are those of the walk; as long as that is so, the
  reader stands at the offset where the writer has put the frame (`ReadUpTo`).  `ReadInv` is
  that, and that every frame stored while it was so is the one written; it says nothing of the
  words that the reader takes for a frame once the two have parted, which no frame need
  have.  That both sets of addresses go through the same order takes the lemmas about the
  walk in `PartAddressing_proofs` (`WalkedIsClosed`, `WalkedIsLeast`, `WalkedInOrder`).

Of `Frames2Bit`:

* `LosslessWhenWalked`, `IntactWhenBeforeUnwalked`, `AllFramesAreReadOrNone`: the whole way
  from the lines of a `.frm` file to the frames that another tool reads in the bitstream.
  `TripInv` says that each part begins where the one before it has ended and works on what
  that one has made, and joins what is proved of them: `WalkInv`, `HeldInv` and `CollectInv`
  of the container, `WriterInv` of the package, `WriterInv` and `FirstPartInv` of the file,
  `ReaderInv` of the interpreter.  It is inductive because of what is handed over.  The
  packets of a package are some that the words can say (`PacketsAreSayable`): the one type 2
  packet follows one of the same register, and its count fits, as the frames are of the part
  or at zero and there are at most three frames of words for each (`WordsCanBeCounted`).  So a
  first part of them comes off the file, all of them if it was not cut off
  (`FirstPacketsAreRead`), and that is what the interpreter begins with
  (`BeginsToInterpret`).  That the names of opcodes and registers survive their numbers is
  `NamesOfNumbers`.
* `TransfersTheFrames`: xcframes2bit with the reading of its output implements FrameTransfer.
  Each line and each turn of `addMissingFrames` sends a frame or none (`CollectIsCollect`);
  each turn of the interpreter's loop lets the least frame arrive that has not arrived, as it
  was sent, or, from the first address on that the walk does not come by, something beyond it
  (`InterpretIsArrive`, from `StepStores` in `RoundTrip_proofs`); everything else, and each
  step of the two programs between, is a stutter.

Of `Segmatch`:

* `CandidatesAreTrue`: the lines written have exactly the bits that agree with their tag.
  The invariant `IInv` relates the mask of the tag in hand to the segments that the loop has
  visited, says that no more tags or bits are numbered once the solving begins, and that
  the bits beyond the last one, which the mask starts with, are gone as soon as one
  segment has the tag (`OnesCover`): a line without such a segment has no candidates.
* `TheFilesAreSolved`: the lines are those that the text of the files asks for, whatever
  `read_input` has called the segments and in which order it has numbered bits and tags.
  The segments of the program have names of their own, made up when a name is taken, so that
  none of them can be found in the files: `FileInv` says that there is a one-to-one
  correspondence between them and the lines that begin a segment, under which each has the
  bits and tags that the lines after it, up to the next, say of it.  Each action of
  `read_input` extends that correspondence or the segment that is last in it, and the sets
  that `LineOf` counts are in bijection with those that the program counts (`SameCount`).
  `CountInv` says it of the counters, `FilesInv` is `FileInv`, `CountInv` and `IInv`.

Of `TagSolvers`:

* `BitsAreLeftToImplied`: the bits that correlate_segdata leaves to each feature.  The program
  takes the features in the order of how many others each implies, and from the bits of each
  those of the features that it implies, as they are at that time.  `ParsedInv` says of each
  segment what the lines parsed so far say of its name.  `ProcessedInv` says that a processed
  feature has its bits less those of all that it implies, also of those that are not
  processed yet: they have none so far, and each of them implies it in turn, so that it
  will not get any that this one has.  `CorrelateInv` joins the two.
* `CandidatesAreFeatbits`: where the two programs have the same segments and no segment has
  the tag with a number other than 0 and 1 (`ReadAlike`), a candidate of
  segmatch is a bit of the feature, or of one that it implies, for correlate_segdata.  `BothInv`
  joins the invariants of the two; with as many names as segments each segment is one name
  (`NamesAreOwn`), so that a bit that agrees with the tag explains the feature
  (`CandidatesAreExplained`).

Assumptions: the named ASSUMEs of the modules.  `FramesAssumption`,
`ConfigurationAssumption`, `SplitAssumption`, `XcPatchAssumption`, `ConfigurationPacketAssumption`,
`BitstreamAssumption`, `SegmatchAssumption`, `FlagsAssumption` and `InputsAssumption` say
what the constants are: the parts are parts, the streams are sequences of packets, the bases
maps from addresses to whole frames, the files sequences of lines, the sizes of the header
fields positive numbers, the flag `-c` a number.  `SyncAssumption` says two things of a file:
nothing in front of the sync word looks like one, which excludes only a part or source name
with its four bytes in it, as the reader takes the first it finds; and the file is shorter
than 2 GiB, so that the length written into its header has no carry into a sync word.
`Frames2BitAssumption` says the same of the files of that tool, that the part is not a
Spartan-6, which has writers and a reader of its own, and that the words of three frames per
address can be counted in the 27 bits of a type 2 header, where a Zynq UltraScale+ device has
a few million words.  TLC evaluates each of them in the runs.

None of the proofs is by an induction over data: where one is needed, the least counterexample
in the natural numbers is taken (`NatLeast`).

Only model-checked: liveness, which includes that a transfer ends (`TransferEnds`); the
programs that write a packet for every frame (`PerFrame`), which compare loops over data of any
length with each other, take the bits of words by powers of two, of which the provers know
nothing, and some of whose properties hold of the data that the runs give them, whose words
differ; the ECC, whose code is a table of numbers; `Spartan6`, which has a recursive
operator, which the provers do not take.

## 5. Not modelled

* Printing, option parsing, text formats and exit statuses: `bitread`, `bittool`, the frame
  address decoders, `explain`, `stripdb`, the header of an `.rbt` file
  (`bits2rbt/header.cc`), the database directory that assemble loads
  (`tools/common.cpp`), and the memory-mapped reader of segbits.  They have no state beyond
  a line, and calls of the models' operations at most.
* The Python database and scripts: dictionaries filled from files on first use; each
  lookup is one step.
* What finds the addresses in `gen_part_base_yaml`; how they become a part is
  `PartFromAddresses`.
* Spartan-6 parts with a bottom region: the decoder of `part.yaml` accepts one, the walk
  goes from its last frame to its first (`spartan6/part.cc:38-44`) and `addMissingFrames`
  would not end.  `IsPart` leaves them out, as no Spartan-6 part has one.
* The input files of `correlate`, whose analysis is modelled, and several tile types at
  once, which do not meet.
* Lines of segdata without the word they should have, on which variables keep the values
  of the line before or none (`correlate_segdata.cpp:119-135`), and auxiliary data without
  an RCRC command (`configuration_packets.cc:155`) or with less than three bytes of
  bitstream (`dump_bitstream.cpp:54`): undefined behaviour that no file of the tools has.

## 6. What is left

1. A proof of `AssemblesHarnessAndDesign`.
2. `gen_part_base_yaml` from a bitstream to its addresses.
3. The lookups of the Python database.

------------------------- MODULE Configuration_proofs -------------------------
(***************************************************************************)
(* Invariants of the packet interpreter, for every part and every stream.  *)
(***************************************************************************)
EXTENDS ConfigurationSplit, PartAddressing_proofs, SequenceTheorems

\* Every word of a FAR packet is a frame address.
LEMMA UnpackedIsAddress ==
    ASSUME NEW arch, NEW word \in Nat
    PROVE  Unpacked(arch, word) \in FrameAddress
<1> DEFINE count == MinorCount(arch)
           key == word \div count
           block == (key \div 65536) % 8
           half == (key \div 32768) % 2
           row == (key \div 1024) % 32
           column == key % 1024
           minor == word % count
<1>1. Unpacked(arch, word) = Address(block, half, row, column, minor)
  BY DEF Unpacked
<1>2. count = 128 \/ count = 256 \/ count = 1024
  BY DEF MinorCount
<1> HIDE DEF count
<1>3. key \in Nat /\ minor \in 0..1023
  <2>1. CASE count = 128
    BY <2>1, SMT
  <2>2. CASE count = 256
    BY <2>2, SMT
  <2>3. CASE count = 1024
    BY <2>3, SMT
  <2>4. QED
    BY <1>2, <2>1, <2>2, <2>3
<1> HIDE DEF key, minor
<1>4. block \in 0..15 /\ half \in 0..1 /\ row \in 0..31
  BY <1>3, SMT
<1>5. column \in 0..1023
  BY <1>3, SMT
<1> HIDE DEF block, half, row, column
<1>6. QED
  BY <1>1, <1>3, <1>4, <1>5 DEF Address, FrameAddress

\* The words stored for a frame are words of the packet.
LEMMA FrameIsWords ==
    ASSUME NEW data \in Seq(Nat), NEW offset \in Nat, offset < Len(data)
    PROVE  Frame(data, offset) \in Seq(Nat)
<1>1. WordsPerFrame \in Nat \ {0}
  BY ConfigurationAssumption
<1>2. PICK last \in 1..Len(data) :
        last = IF offset + WordsPerFrame <= Len(data)
               THEN offset + WordsPerFrame ELSE Len(data)
  BY <1>1
<1>3. SubSeq(data, offset + 1, last) \in Seq(Nat)
  OBVIOUS
<1>4. QED
  BY <1>2, <1>3 DEF Frame

\* The packet that is fetched is a packet, and its first word a number.
LEMMA FetchedIsPacket ==
    ASSUME packets \in Seq(Packet), pos \in 0..Len(packets), pos < Len(packets)
    PROVE  /\ Fetched \in Packet
           /\ Fetched.data \in Seq(Nat)
           /\ Fetched.data # <<>> => Fetched.data[1] \in Nat
<1>1. Fetched \in Packet
  BY DEF Fetched
<1>2. Fetched.data \in Seq(Nat)
  BY <1>1 DEF Packet
<1>3. QED
  BY <1>1, <1>2

-----------------------------------------------------------------------------

\* The interpreter starts with registers of the right types.
LEMMA InitTypeOK == Init => TypeOK
<1>1. SUFFICES ASSUME Init PROVE TypeOK
  OBVIOUS
<1>2. IsPart(part) /\ packets \in Seq(Packet)
  BY <1>1, ConfigurationAssumption DEF Init
<1>3. ZeroAddress \in FrameAddress
  BY ZeroIsAddress
<1>4. DOMAIN frames = {}
  BY <1>1 DEF Init, InitRegisters
<1>5. pos \in 0..Len(packets)
  BY <1>1, <1>2 DEF Init, InitRegisters
<1>6. QED
  BY <1>1, <1>2, <1>3, <1>4, <1>5 DEF Init, InitRegisters, TypeOK

\* Every step of the interpreter keeps the types.
LEMMA NextTypeOK == TypeOK /\ [Next]_vars => TypeOK'
<1>1. SUFFICES ASSUME TypeOK, [Next]_vars PROVE TypeOK'
  OBVIOUS
<1>2. CASE UNCHANGED vars
  BY <1>1, <1>2 DEF vars, stream, far_state, burst_state, TypeOK, IsPart
<1>3. ASSUME Fetch
      PROVE  /\ part' = part /\ packets' = packets
             /\ pos' = pos + 1 /\ pos' \in 0..Len(packets) /\ pos' > 0
             /\ packets[pos'] = Fetched
             /\ Fetched \in Packet /\ Fetched.data \in Seq(Nat)
             /\ Fetched.data # <<>> => Fetched.data[1] \in Nat
  BY <1>1, <1>3, FetchedIsPacket DEF Fetch, Fetched, stream, TypeOK
<1>4. CASE SkipPacket
  BY <1>1, <1>3, <1>4
     DEF SkipPacket, Fetch, far_state, burst_state, TypeOK, IsPart
<1>5. CASE WriteMASK
  BY <1>1, <1>3, <1>5
     DEF WriteMASK, Loads, Fetch, far_state, burst_state, TypeOK, IsPart, Bit21
<1>6. CASE WriteCTL1
  BY <1>1, <1>3, <1>6
     DEF WriteCTL1, Loads, Fetch, far_state, burst_state, TypeOK, IsPart
<1>7. CASE WriteCMD
  BY <1>1, <1>3, <1>7
     DEF WriteCMD, Loads, Fetch, far_state, burst_state, TypeOK, IsPart
<1>8. CASE WriteIDCODE
  BY <1>1, <1>3, <1>8
     DEF WriteIDCODE, Loads, Fetch, far_state, burst_state, TypeOK, IsPart
<1>9. CASE WriteFAR
  <2>1. frame_address_register' \in FrameAddress
    BY <1>3, <1>9, UnpackedIsAddress DEF WriteFAR, Loads
  <2>2. QED
    BY <1>1, <1>3, <1>9, <2>1
       DEF WriteFAR, Loads, Fetch, burst_state, TypeOK, IsPart
<1>10. CASE BeginFDRI
  BY <1>1, <1>3, <1>10 DEF BeginFDRI, Fetch, TypeOK, IsPart
<1>11. CASE StoreFrame
  <2>1. packets[pos].data \in Seq(Nat)
    <3>1. pos \in 1..Len(packets)
      BY <1>1, <1>11 DEF StoreFrame, TypeOK
    <3>2. packets[pos] \in Packet
      BY <1>1, <3>1 DEF TypeOK
    <3>3. QED
      BY <3>2 DEF Packet
  <2>2. Frame(packets[pos].data, ii) \in Seq(Nat)
    BY <1>1, <1>11, <2>1, FrameIsWords DEF StoreFrame, TypeOK
  <2>3. /\ DOMAIN frames' \subseteq FrameAddress
        /\ \A a \in DOMAIN frames' : frames'[a] \in Seq(Nat)
    BY <1>1, <1>11, <2>2 DEF StoreFrame, TypeOK, Assign
  <2>4. /\ current_frame_address' \in FrameAddress
        /\ ii' \in Nat
        /\ pc' \in {"fetch", "burst"}
    <3>1. CASE UNCHANGED <<current_frame_address, ii>>
      BY <1>1, <1>11, <3>1 DEF StoreFrame, TypeOK
    <3>2. CASE /\ current_frame_address' \in
                      GetNextFrameAddress(part, current_frame_address)
               /\ pc' = pc
      <4>1. current_frame_address' \in FrameAddress
        BY <1>1, <3>2, NextIsValidAndGreater DEF TypeOK
      <4>2. ii' \in {ii, ii + WordsPerFrame, ii + 3 * WordsPerFrame}
        BY <1>11 DEF StoreFrame
      <4>3. QED
        BY <1>1, <1>11, <3>2, <4>1, <4>2, ConfigurationAssumption
           DEF StoreFrame, TypeOK
    <3>3. QED
      BY <1>11, <3>1, <3>2 DEF StoreFrame
  <2>5. QED
    BY <1>1, <1>11, <2>3, <2>4 DEF StoreFrame, TypeOK, IsPart, stream, far_state
<1>12. CASE EndFDRI
  BY <1>1, <1>12
     DEF EndFDRI, stream, far_state, burst_state, TypeOK, IsPart
<1>13. CASE Finish
  BY <1>1, <1>13
     DEF Finish, stream, far_state, burst_state, TypeOK, IsPart
<1>14. QED
  BY <1>1, <1>2, <1>4, <1>5, <1>6, <1>7, <1>8, <1>9, <1>10, <1>11, <1>12, <1>13
     DEF Next, InitWithPackets

\* The registers, the offset, the stored frames and their addresses keep
\* their types, whatever the part and the stream.
THEOREM TypeCorrect == Spec => []TypeOK
<1>1. QED
  BY InitTypeOK, NextTypeOK, PTL DEF Spec

\* Within one FDRI packet the addresses of the stored frames ascend, in
\* every part, so that no frame of a packet is stored over another.
THEOREM BurstsAscend == Spec => BurstAscends
<1>1. ASSUME TypeOK, [Next]_vars, pc = "burst", pc' = "burst",
             UNCHANGED vars => FALSE
      PROVE  Packed(current_frame_address) < Packed(current_frame_address')
  <2>1. StoreFrame
    BY <1>1 DEF Next, InitWithPackets, SkipPacket, WriteMASK, WriteCTL1,
                WriteCMD, WriteIDCODE, WriteFAR, BeginFDRI, Loads, Fetch,
                EndFDRI, Finish
  <2>2. current_frame_address' \in
            GetNextFrameAddress(part, current_frame_address)
    BY <1>1, <2>1 DEF StoreFrame
  <2>3. QED
    BY <1>1, <2>2, NextIsValidAndGreater DEF TypeOK
<1>2. TypeOK /\ [Next]_vars =>
          [pc = "burst" /\ pc' = "burst" =>
              Packed(current_frame_address) < Packed(current_frame_address')]_vars
  BY <1>1
<1>3. QED
  BY <1>2, TypeCorrect, PTL DEF Spec, BurstAscends

-----------------------------------------------------------------------------
(***************************************************************************)
(* KnownAddresses is not inductive: a burst stores at the address it has   *)
(* come to, and a burst starts at the address in FAR.  Those two are known *)
(* addresses as well.                                                      *)
(***************************************************************************)
KnownInv ==
    /\ frame_address_register \in LoadedAddresses \union {ZeroAddress}
    /\ Known(current_frame_address)
    /\ KnownAddresses

\* No step changes the part or the stream, and the stream is read forwards,
\* a packet at a time and only between packets.
LEMMA StreamIsRead ==
    ASSUME TypeOK, Next
    PROVE  /\ part' = part /\ packets' = packets /\ pos \in Nat
           /\ \/ Fetch /\ pos' = pos + 1
              \/ (StoreFrame \/ EndFDRI \/ Finish) /\ pos' = pos
<1>1. packets \in Seq(Packet) /\ pos \in 0..Len(packets)
  BY DEF TypeOK
<1>2. pos \in Nat
  BY <1>1
<1>3. ASSUME Fetch PROVE part' = part /\ packets' = packets /\ pos' = pos + 1
  BY <1>3 DEF Fetch, stream
<1>4. Fetch \/ StoreFrame \/ EndFDRI \/ Finish
  BY DEF Next, InitWithPackets, SkipPacket, WriteMASK, WriteCTL1, WriteCMD,
         WriteIDCODE, WriteFAR, BeginFDRI, Loads
<1>5. ASSUME StoreFrame \/ EndFDRI \/ Finish
      PROVE  part' = part /\ packets' = packets /\ pos' = pos
  BY <1>5 DEF StoreFrame, EndFDRI, Finish, stream
<1>6. QED
  BY <1>2, <1>3, <1>4, <1>5

\* A known address stays known as the stream is read.
LEMMA KnownStaysKnown ==
    ASSUME part' = part, packets' = packets, pos \in Nat, pos' \in Nat,
           pos <= pos', NEW a
    PROVE  /\ a \in LoadedAddresses => a \in LoadedAddresses'
           /\ Known(a) => Known(a)'
<1>1. ASSUME a \in LoadedAddresses PROVE a \in LoadedAddresses'
  <2>1. PICK i \in 1..pos : /\ Written("FAR", i)
                            /\ a = Unpacked(part.arch, packets[i].data[1])
    BY <1>1 DEF LoadedAddresses
  <2>2. i \in 1..pos' /\ Written("FAR", i)'
    BY <2>1 DEF Written
  <2>3. QED
    BY <2>1, <2>2 DEF LoadedAddresses
<1>2. QED
  BY <1>1 DEF Known

\* Every step of the interpreter keeps KnownInv.
LEMMA NextKnownInv == TypeOK /\ KnownInv /\ [Next]_vars => KnownInv'
<1>1. SUFFICES ASSUME TypeOK, KnownInv, [Next]_vars PROVE KnownInv'
  OBVIOUS
<1>2. CASE UNCHANGED vars
  BY <1>1, <1>2
     DEF KnownInv, KnownAddresses, Known, LoadedAddresses, Written, vars,
         stream, far_state, burst_state
<1>3. CASE Next
  <2>1. /\ part' = part /\ packets' = packets
        /\ pos \in Nat /\ pos' \in Nat /\ pos <= pos'
    BY <1>1, <1>3, StreamIsRead
  <2>2. \A a : /\ a \in LoadedAddresses => a \in LoadedAddresses'
               /\ Known(a) => Known(a)'
    BY <2>1, KnownStaysKnown
  <2>3. frame_address_register' \in LoadedAddresses' \union {ZeroAddress}
    <3>1. CASE WriteFAR
      <4>1. PICK n \in Nat : n = pos + 1
        BY <2>1
      <4>2. /\ frame_address_register' = Unpacked(part.arch, packets[n].data[1])
            /\ pos' = n /\ Written("FAR", n)
        BY <3>1, <4>1 DEF WriteFAR, Loads, Fetch, Fetched, Written
      <4>3. n \in 1..pos' /\ Written("FAR", n)'
        BY <2>1, <4>1, <4>2 DEF Written
      <4>4. QED
        BY <2>1, <4>2, <4>3 DEF LoadedAddresses
    <3>2. CASE ~WriteFAR
      <4>1. frame_address_register' = frame_address_register
        BY <1>3, <3>2
           DEF Next, InitWithPackets, SkipPacket, WriteMASK, WriteCTL1,
               WriteCMD, WriteIDCODE, BeginFDRI, StoreFrame, EndFDRI, Finish,
               far_state
      <4>2. QED
        BY <1>1, <2>2, <4>1 DEF KnownInv
    <3>3. QED
      BY <3>1, <3>2
  <2>4. Known(current_frame_address)'
    <3>1. CASE current_frame_address' = current_frame_address
      BY <1>1, <2>2, <3>1 DEF KnownInv, Known
    <3>2. CASE current_frame_address' = frame_address_register
      BY <1>1, <2>2, <3>2 DEF KnownInv, Known
    <3>3. CASE current_frame_address' \in
                   GetNextFrameAddress(part, current_frame_address)
      BY <1>1, <2>1, <3>3, NextIsValidAndGreater DEF TypeOK, Known
    <3>4. QED
      BY <1>3, <3>1, <3>2, <3>3
         DEF Next, InitWithPackets, SkipPacket, WriteMASK, WriteCTL1,
             WriteCMD, WriteIDCODE, WriteFAR, BeginFDRI, StoreFrame, EndFDRI,
             Finish, burst_state
  <2>5. DOMAIN frames' \subseteq DOMAIN frames \union {current_frame_address}
    BY <1>3 DEF Next, InitWithPackets, SkipPacket, WriteMASK, WriteCTL1,
                WriteCMD, WriteIDCODE, WriteFAR, BeginFDRI, StoreFrame,
                EndFDRI, Finish, burst_state, Assign
  <2>6. KnownAddresses'
    BY <1>1, <2>2, <2>5 DEF KnownInv, KnownAddresses
  <2>7. QED
    BY <2>3, <2>4, <2>6 DEF KnownInv
<1>4. QED
  BY <1>1, <1>2, <1>3

\* Every frame of the configuration has an address that the part has, or one
\* that a FAR packet loaded, or zero, whatever the part and the stream.
THEOREM OnlyKnownAddresses == Spec => []KnownAddresses
<1>1. Init => KnownInv
  BY DEF Init, InitRegisters, KnownInv, KnownAddresses, Known
<1>2. KnownInv => KnownAddresses
  BY DEF KnownInv
<1>3. QED
  BY <1>1, <1>2, NextKnownInv, TypeCorrect, PTL DEF Spec

-----------------------------------------------------------------------------

\* OnlyForThisPart as it holds while the stream is read.
PartInv ==
    /\ pc # "rejected" =>
           \A i \in 1..pos : Written("IDCODE", i) => packets[i].data[1] = IdCode
    /\ pc = "accepted" => pos = Len(packets)
    /\ pc = "rejected" =>
           \E i \in 1..pos : Written("IDCODE", i) /\ packets[i].data[1] # IdCode

\* A configuration is returned only for a stream all of whose IDCODEs are the
\* part's, and refused only for a stream with another.
THEOREM RefusesOtherParts == Spec => []OnlyForThisPart
<1>1. Init => PartInv
  BY DEF Init, InitRegisters, PartInv
<1>2. TypeOK /\ PartInv /\ [Next]_vars => PartInv'
  <2>1. SUFFICES ASSUME TypeOK, PartInv, [Next]_vars PROVE PartInv'
    OBVIOUS
  <2>2. CASE UNCHANGED vars
    BY <2>1, <2>2 DEF PartInv, Written, vars, stream
  <2>3. CASE Fetch /\ ~WriteIDCODE /\ Next
    <3>1. /\ packets' = packets /\ pos' = pos + 1 /\ pos \in Nat
          /\ pc = "fetch"
      BY <2>1, <2>3, StreamIsRead DEF Fetch
    <3>2. \/ SkipPacket \/ WriteMASK \/ WriteCTL1 \/ WriteCMD
          \/ WriteFAR \/ BeginFDRI
      BY <2>3, <3>1
         DEF Next, InitWithPackets, StoreFrame, EndFDRI, Finish, Fetch
    <3>3. pc' \in {"fetch", "burst"}
      BY <3>1, <3>2 DEF SkipPacket, WriteMASK, WriteCTL1, WriteCMD, WriteFAR,
                        BeginFDRI
    <3>4. ~Written("IDCODE", pos + 1)
      BY <3>2 DEF SkipPacket, WriteMASK, WriteCTL1, WriteCMD, WriteFAR,
                  BeginFDRI, Interpreted, Loads, Fetched, Written
    <3>5. QED
      BY <2>1, <3>1, <3>3, <3>4 DEF PartInv, Written
  <2>4. CASE WriteIDCODE
    <3>1. /\ packets' = packets /\ pos' = pos + 1 /\ pos \in Nat
          /\ pc = "fetch" /\ Written("IDCODE", pos + 1)
          /\ pc' = IF packets[pos + 1].data[1] = IdCode
                   THEN "fetch" ELSE "rejected"
      BY <2>1, <2>4
         DEF TypeOK, WriteIDCODE, Loads, Fetch, Fetched, Written, stream
    <3>2. QED
      BY <2>1, <3>1 DEF PartInv, Written
  <2>5. CASE StoreFrame \/ EndFDRI \/ Finish
    BY <2>1, <2>5 DEF PartInv, Written, StoreFrame, EndFDRI, Finish, stream
  <2>6. QED
    BY <2>1, <2>2, <2>3, <2>4, <2>5
       DEF Next, InitWithPackets, SkipPacket, WriteMASK, WriteCTL1, WriteCMD,
           WriteIDCODE, WriteFAR, BeginFDRI, Loads
<1>3. TypeOK /\ PartInv => OnlyForThisPart
  <2>1. SUFFICES ASSUME TypeOK, PartInv PROVE OnlyForThisPart
    OBVIOUS
  <2>2. DOMAIN packets = 1..Len(packets)
    BY <2>1 DEF TypeOK
  <2>3. QED
    BY <2>1, <2>2 DEF PartInv, OnlyForThisPart
<1>4. QED
  BY <1>1, <1>2, <1>3, TypeCorrect, PTL DEF Spec

-----------------------------------------------------------------------------
(***************************************************************************)
(* The registers after n packets, as functions of those packets.           *)
(***************************************************************************)
HistoryAt(n) ==
    /\ frame_address_register = AddressAt(n + 1)
    /\ (command_register = WCFG) <=> Commanded(n + 1)
    /\ mask_register <=> Masked(n + 1)
    /\ ctl1_register <=> Inhibited(n + 1)
    /\ start_new_write <=> Pending(n)

\* The last writer of a register before packet n + 1 is packet n or the last
\* one before packet n.
LEMMA LastWrittenStep ==
    ASSUME NEW n \in Nat \ {0}, NEW register
    PROVE  LastWritten(register, n + 1) =
               IF Written(register, n) THEN {n} ELSE LastWritten(register, n)
<1>1. n + 1 - 1 = n /\ 1..n = (1..n - 1) \union {n}
  OBVIOUS
<1>2. CASE Written(register, n)
  <2>1. ASSUME NEW j \in 1..n
        PROVE  (\A k \in j + 1..n : ~Written(register, k)) <=> j = n
    BY <1>2, <2>1
  <2>2. QED
    BY <1>1, <1>2, <2>1 DEF LastWritten
<1>3. CASE ~Written(register, n)
  <2>1. ASSUME NEW j \in 1..n - 1
        PROVE  (\A k \in j + 1..n : ~Written(register, k)) <=>
                   (\A k \in j + 1..n - 1 : ~Written(register, k))
    <3>1. j + 1..n = (j + 1..n - 1) \union {n}
      OBVIOUS
    <3>2. QED
      BY <1>3, <3>1
  <2>2. QED
    BY <1>1, <1>3, <2>1 DEF LastWritten
<1>4. QED
  BY <1>2, <1>3

\* What packet n makes of the history before it.
LEMMA HistoryStep ==
    ASSUME NEW n \in Nat \ {0}
    PROVE  /\ AddressAt(n + 1) = IF Written("FAR", n)
                                 THEN Unpacked(part.arch, packets[n].data[1])
                                 ELSE AddressAt(n)
           /\ Commanded(n + 1) <=> IF Written("CMD", n)
                                   THEN packets[n].data[1] = WCFG
                                   ELSE Commanded(n)
           /\ Masked(n + 1) <=> IF Written("MASK", n)
                                THEN Bit21(packets[n].data[1])
                                ELSE Masked(n)
           /\ Inhibited(n + 1) <=> IF Written("CTL1", n)
                                   THEN Bit21(packets[n].data[1]) /\ Masked(n)
                                   ELSE Inhibited(n)
           /\ Pending(n) <=> /\ ~WritesFrames(n)
                             /\ StartsWrite(n) \/ Pending(n - 1)
<1>1. AddressAt(n + 1) = IF Written("FAR", n)
                         THEN Unpacked(part.arch, packets[n].data[1])
                         ELSE AddressAt(n)
  <2>1. CASE Written("FAR", n)
    <3>1. LastWritten("FAR", n + 1) = {n}
      BY <2>1, LastWrittenStep
    <3>2. (CHOOSE j \in {n} : TRUE) = n
      OBVIOUS
    <3>3. QED
      BY <2>1, <3>1, <3>2 DEF AddressAt, AddressIn
  <2>2. CASE ~Written("FAR", n)
    <3>1. LastWritten("FAR", n + 1) = LastWritten("FAR", n)
      BY <2>2, LastWrittenStep
    <3>2. QED
      BY <2>2, <3>1 DEF AddressAt
  <2>3. QED
    BY <2>1, <2>2
<1>2. Commanded(n + 1) <=> IF Written("CMD", n)
                           THEN packets[n].data[1] = WCFG ELSE Commanded(n)
  BY LastWrittenStep DEF Commanded
<1>3. Masked(n + 1) <=> IF Written("MASK", n)
                        THEN Bit21(packets[n].data[1]) ELSE Masked(n)
  BY LastWrittenStep DEF Masked
<1>4. Inhibited(n + 1) <=> IF Written("CTL1", n)
                           THEN Bit21(packets[n].data[1]) /\ Masked(n)
                           ELSE Inhibited(n)
  BY LastWrittenStep DEF Inhibited
<1>5. Pending(n) <=> ~WritesFrames(n) /\ (StartsWrite(n) \/ Pending(n - 1))
  <2>1. ASSUME Pending(n)
        PROVE  ~WritesFrames(n) /\ (StartsWrite(n) \/ Pending(n - 1))
    <3>1. PICK i \in 1..n : StartsWrite(i) /\ \A k \in i..n : ~WritesFrames(k)
      BY <2>1 DEF Pending
    <3>2. n \in i..n /\ (i = n \/ i \in 1..n - 1)
      OBVIOUS
    <3>3. \A k \in i..n - 1 : k \in i..n
      OBVIOUS
    <3>4. QED
      BY <3>1, <3>2, <3>3 DEF Pending
  <2>2. ASSUME ~WritesFrames(n), StartsWrite(n) PROVE Pending(n)
    <3>1. n \in 1..n /\ \A k \in n..n : k = n
      OBVIOUS
    <3>2. QED
      BY <2>2, <3>1 DEF Pending
  <2>3. ASSUME ~WritesFrames(n), Pending(n - 1) PROVE Pending(n)
    <3>1. PICK i \in 1..n - 1 :
            StartsWrite(i) /\ \A k \in i..n - 1 : ~WritesFrames(k)
      BY <2>3 DEF Pending
    <3>2. i \in 1..n /\ \A k \in i..n : k = n \/ k \in i..n - 1
      OBVIOUS
    <3>3. QED
      BY <2>3, <3>1, <3>2 DEF Pending
  <2>4. QED
    BY <2>1, <2>2, <2>3
<1>6. QED
  BY <1>1, <1>2, <1>3, <1>4, <1>5

\* The history of the packets up to n does not change.
LEMMA HistoryIsRigid ==
    ASSUME packets' = packets, part' = part, NEW n
    PROVE  /\ AddressAt(n)' = AddressAt(n)
           /\ Commanded(n)' <=> Commanded(n)
           /\ Masked(n)' <=> Masked(n)
           /\ Inhibited(n)' <=> Inhibited(n)
           /\ Pending(n)' <=> Pending(n)
BY DEF AddressAt, AddressIn, Commanded, Masked, Inhibited, Pending,
       StartsWrite, WritesFrames, LastWritten, Written

History == HistoryAt(pos)

\* Every step of the interpreter keeps History.
LEMMA NextHistory == TypeOK /\ History /\ [Next]_vars => History'
<1>1. SUFFICES ASSUME TypeOK, History, [Next]_vars PROVE History'
  OBVIOUS
<1>2. ASSUME packets' = packets, part' = part, NEW n, HistoryAt(n),
             UNCHANGED <<command_register, frame_address_register,
                         mask_register, ctl1_register, start_new_write>>
      PROVE  HistoryAt(n)'
  BY <1>2, HistoryIsRigid DEF HistoryAt
<1>3. ASSUME packets' = packets, part' = part, pos' = pos,
             UNCHANGED <<command_register, frame_address_register,
                         mask_register, ctl1_register, start_new_write>>
      PROVE  History'
  BY <1>1, <1>3, HistoryIsRigid DEF HistoryAt, History
<1>4. CASE UNCHANGED vars
  BY <1>3, <1>4 DEF vars, stream, far_state
<1>5. CASE Next /\ Fetch
  <2>1. /\ packets' = packets /\ part' = part
        /\ pos \in Nat /\ pos' = pos + 1
        /\ Fetched = packets[pos + 1]
    BY <1>1, <1>5, StreamIsRead DEF Fetch, stream, Fetched
  <2>2. PICK n \in Nat \ {0} : n = pos + 1
    BY <2>1
  <2>3. pos = n - 1 /\ pos' = n
    BY <2>1, <2>2
  <2>4. /\ frame_address_register = AddressAt(n)
        /\ (command_register = WCFG) <=> Commanded(n)
        /\ mask_register <=> Masked(n)
        /\ ctl1_register <=> Inhibited(n)
        /\ start_new_write <=> Pending(n - 1)
    BY <1>1, <2>2, <2>3 DEF History, HistoryAt
  <2>5. SUFFICES /\ frame_address_register' = AddressAt(n + 1)
                 /\ (command_register' = WCFG) <=> Commanded(n + 1)
                 /\ mask_register' <=> Masked(n + 1)
                 /\ ctl1_register' <=> Inhibited(n + 1)
                 /\ start_new_write' <=> Pending(n)
    BY <2>1, <2>3, HistoryIsRigid DEF History, HistoryAt
  <2>6. CASE SkipPacket
    <3>1. /\ ~WritesFrames(n)
          /\ \A r \in {"FAR", "CMD", "MASK", "CTL1"} : ~Written(r, n)
      BY <2>1, <2>2, <2>6 DEF SkipPacket, Interpreted, Written, WritesFrames
    <3>2. QED
      BY <2>4, <2>6, <3>1, HistoryStep DEF SkipPacket, far_state, StartsWrite
  <2>7. CASE WriteMASK
    <3>1. /\ ~WritesFrames(n) /\ Written("MASK", n)
          /\ \A r \in {"FAR", "CMD", "CTL1"} : ~Written(r, n)
      BY <2>1, <2>2, <2>7 DEF WriteMASK, Loads, Written, WritesFrames
    <3>2. QED
      BY <2>1, <2>2, <2>4, <2>7, <3>1, HistoryStep
         DEF WriteMASK, far_state, StartsWrite
  <2>8. CASE WriteCTL1
    <3>1. /\ ~WritesFrames(n) /\ Written("CTL1", n)
          /\ \A r \in {"FAR", "CMD", "MASK"} : ~Written(r, n)
      BY <2>1, <2>2, <2>8 DEF WriteCTL1, Loads, Written, WritesFrames
    <3>2. QED
      BY <2>1, <2>2, <2>4, <2>8, <3>1, HistoryStep
         DEF WriteCTL1, far_state, StartsWrite
  <2>9. CASE WriteCMD
    <3>1. /\ ~WritesFrames(n) /\ Written("CMD", n)
          /\ \A r \in {"FAR", "MASK", "CTL1"} : ~Written(r, n)
      BY <2>1, <2>2, <2>9 DEF WriteCMD, Loads, Written, WritesFrames
    <3>2. QED
      BY <2>1, <2>2, <2>4, <2>9, <3>1, HistoryStep DEF WriteCMD, StartsWrite
  <2>10. CASE WriteIDCODE
    <3>1. /\ ~WritesFrames(n)
          /\ \A r \in {"FAR", "CMD", "MASK", "CTL1"} : ~Written(r, n)
      BY <2>1, <2>2, <2>10 DEF WriteIDCODE, Loads, Written, WritesFrames
    <3>2. QED
      BY <2>4, <2>10, <3>1, HistoryStep DEF WriteIDCODE, far_state, StartsWrite
  <2>11. CASE WriteFAR
    <3>1. /\ ~WritesFrames(n) /\ Written("FAR", n)
          /\ \A r \in {"CMD", "MASK", "CTL1"} : ~Written(r, n)
      BY <2>1, <2>2, <2>11 DEF WriteFAR, Loads, Written, WritesFrames
    <3>2. QED
      BY <2>1, <2>2, <2>4, <2>11, <3>1, HistoryStep DEF WriteFAR, StartsWrite
  <2>12. CASE BeginFDRI
    <3>1. /\ WritesFrames(n)
          /\ \A r \in {"FAR", "CMD", "MASK", "CTL1"} : ~Written(r, n)
      BY <2>1, <2>2, <2>12 DEF BeginFDRI, Written, WritesFrames
    <3>2. QED
      BY <2>4, <2>12, <3>1, HistoryStep DEF BeginFDRI
  <2>13. QED
    BY <1>5, <2>6, <2>7, <2>8, <2>9, <2>10, <2>11, <2>12
       DEF Next, InitWithPackets, StoreFrame, EndFDRI, Finish, Fetch
<1>6. CASE StoreFrame \/ EndFDRI \/ Finish
  BY <1>3, <1>6 DEF StoreFrame, EndFDRI, Finish, stream, far_state
<1>7. QED
  BY <1>1, <1>4, <1>5, <1>6
     DEF Next, InitWithPackets, SkipPacket, WriteMASK, WriteCTL1, WriteCMD,
         WriteIDCODE, WriteFAR, BeginFDRI, Loads

\* Where an FDRI packet starts is decided by the packets before it: at the
\* last FAR if WCFG was executed since the previous FDRI packet, where that
\* one stopped otherwise.
THEOREM BurstsStartWhereToldTo == Spec => BurstOrigin
<1>1. Init => History
  <2>1. SUFFICES ASSUME Init PROVE History
    OBVIOUS
  <2>2. /\ pos = 0 /\ frame_address_register = ZeroAddress
        /\ command_register = 0 /\ mask_register = FALSE
        /\ ctl1_register = FALSE /\ start_new_write = FALSE
    BY <2>1 DEF Init, InitRegisters
  <2>3. 1..0 = {} /\ \A r : LastWritten(r, 0 + 1) = {}
    BY DEF LastWritten
  <2>4. /\ AddressAt(0 + 1) = ZeroAddress
        /\ ~Commanded(0 + 1) /\ ~Masked(0 + 1) /\ ~Inhibited(0 + 1)
        /\ ~Pending(0)
    BY <2>3 DEF AddressAt, AddressIn, Commanded, Masked, Inhibited, Pending
  <2>5. QED
    BY <2>2, <2>4 DEF History, HistoryAt, WCFG
<1>2. ASSUME TypeOK, History, [Next]_vars, pc = "fetch", pc' = "burst"
      PROVE  current_frame_address' =
                 IF Pending(pos) THEN AddressAt(pos + 1)
                                 ELSE current_frame_address
  <2>1. BeginFDRI
    BY <1>2 DEF Next, InitWithPackets, SkipPacket, WriteMASK, WriteCTL1,
                WriteCMD, WriteIDCODE, WriteFAR, StoreFrame, EndFDRI, Finish,
                vars
  <2>2. QED
    BY <1>2, <2>1 DEF BeginFDRI, History, HistoryAt
<1>3. TypeOK /\ History /\ [Next]_vars =>
          [pc = "fetch" /\ pc' = "burst" =>
               current_frame_address' =
                   IF Pending(pos) THEN AddressAt(pos + 1)
                                   ELSE current_frame_address]_vars
  BY <1>2
<1>4. QED
  BY <1>1, <1>3, NextHistory, TypeCorrect, PTL DEF Spec, BurstOrigin

-----------------------------------------------------------------------------

\* Between two multiples of a number there is room for that number.
LEMMA MultiplesApart ==
    ASSUME NEW w \in Nat \ {0}, NEW j \in Nat, NEW k \in Nat, j * w < k * w
    PROVE  j * w + w <= k * w
<1>1. j < k
  <2>1. SUFFICES ASSUME k <= j PROVE k * w <= j * w
    BY SMT
  <2>2. PICK d \in Nat : j = k + d
    <3>1. j - k \in Nat /\ j = k + (j - k)
      BY <2>1, SMT
    <3>2. QED
      BY <3>1
  <2>3. j * w = k * w + d * w /\ d * w \in Nat /\ k * w \in Nat
    BY <2>2, SMT
  <2>4. QED
    BY <2>3, SMT
<1>2. PICK d \in Nat : k = j + 1 + d
  <2>1. k - j - 1 \in Nat /\ k = j + 1 + (k - j - 1)
    BY <1>1, SMT
  <2>2. QED
    BY <2>1
<1>3. k * w = j * w + w + d * w /\ d * w \in Nat /\ j * w \in Nat
  BY <1>2, SMT
<1>4. QED
  BY <1>3, SMT

IsMultiple(n) == \E k \in Nat : n = k * WordsPerFrame

\* Whole frames and one more, or three more, are whole frames.
LEMMA Multiples ==
    /\ IsMultiple(0)
    /\ \A n \in Nat : n % WordsPerFrame = 0 => IsMultiple(n)
    /\ \A n \in Nat : IsMultiple(n) =>
           IsMultiple(n + WordsPerFrame) /\ IsMultiple(n + 3 * WordsPerFrame)
<1> DEFINE w == WordsPerFrame
<1>1. w \in Nat \ {0}
  BY ConfigurationAssumption
<1> HIDE DEF w
<1>2. 0 \in Nat /\ 0 = 0 * w
  BY <1>1, SMT
<1>3. ASSUME NEW n \in Nat, n % w = 0
      PROVE  n \div w \in Nat /\ n = (n \div w) * w
  BY <1>1, <1>3, SMT
<1>4. ASSUME NEW k \in Nat
      PROVE  /\ k * w + w = (k + 1) * w /\ k + 1 \in Nat
             /\ k * w + 3 * w = (k + 3) * w /\ k + 3 \in Nat
  BY <1>1, SMT
<1>5. QED
  BY <1>2, <1>3, <1>4 DEF IsMultiple, w

\* A frame that starts at a multiple of its length, in data whose length is a
\* multiple as well, is not cut off.
LEMMA FrameIsWhole ==
    ASSUME NEW data \in Seq(Nat), Len(data) % WordsPerFrame = 0,
           NEW offset \in Nat, IsMultiple(offset), offset < Len(data)
    PROVE  Len(Frame(data, offset)) = WordsPerFrame
<1> DEFINE w == WordsPerFrame
           last == offset + w
           length == Len(data)
<1>1. w \in Nat \ {0} /\ length \in Nat
  BY ConfigurationAssumption
<1>2. PICK j \in Nat : offset = j * w
  BY DEF IsMultiple
<1>3. PICK k \in Nat : length = k * w
  BY <1>1, Multiples DEF IsMultiple
<1> HIDE DEF w, length
<1>4. offset + w <= length
  BY <1>1, <1>2, <1>3, MultiplesApart DEF length
<1>5. Frame(data, offset) = SubSeq(data, offset + 1, last)
  BY <1>4 DEF Frame, w, length
<1>6. offset + 1 \in Int /\ last \in Int /\ offset + 1 <= last
  BY <1>1, SMT
<1>7. \A i \in offset + 1..last : data[i] \in Nat
  BY <1>1, <1>4, SMT DEF length
<1>8. Len(SubSeq(data, offset + 1, last)) = last - (offset + 1) + 1
  BY <1>6, <1>7, SubSeqProperties
<1>9. QED
  BY <1>1, <1>5, <1>8, SMT DEF w

WholeStream(n) ==
    \A i \in 1..n : WritesFrames(i) => Len(packets[i].data) % WordsPerFrame = 0

\* WholeFrames is not inductive: that a frame is not cut off depends on where
\* in the packet it starts.
WholeInv ==
    /\ pc = "burst" => WritesFrames(pos)
    /\ WholeStream(pos) =>
           /\ pc = "burst" => IsMultiple(ii)
           /\ \A a \in DOMAIN frames : Len(frames[a]) = WordsPerFrame

\* The frame that StoreFrame stores is whole, and the next starts at a
\* multiple again.
LEMMA StoreKeepsWhole ==
    ASSUME TypeOK, WholeInv, StoreFrame, WholeStream(pos)
    PROVE  /\ pc' = "burst" => IsMultiple(ii')
           /\ \A a \in DOMAIN frames' : Len(frames'[a]) = WordsPerFrame
<1> DEFINE data == packets[pos].data
           frame == Frame(data, ii)
<1>1. pos \in 1..Len(packets) /\ packets[pos] \in Packet
  BY DEF StoreFrame, TypeOK
<1>2. data \in Seq(Nat) /\ ii \in Nat /\ ii < Len(data)
  BY <1>1 DEF StoreFrame, TypeOK, Packet
<1>3. IsMultiple(ii)
  BY DEF WholeInv, StoreFrame
<1>4. Len(data) % WordsPerFrame = 0
  BY <1>1 DEF WholeInv, StoreFrame, WholeStream
<1>5. Len(frame) = WordsPerFrame
  BY <1>2, <1>3, <1>4, FrameIsWhole
<1>6. frames' = Assign(frames, current_frame_address, frame)
  BY DEF StoreFrame
<1>7. \A a \in DOMAIN frames : Len(frames[a]) = WordsPerFrame
  BY DEF WholeInv
<1> HIDE DEF frame, data
<1>8. \A a \in DOMAIN frames' : Len(frames'[a]) = WordsPerFrame
  BY <1>5, <1>6, <1>7 DEF Assign
<1>9. pc' = "burst" => ii' = ii + WordsPerFrame \/ ii' = ii + 3 * WordsPerFrame
  BY DEF StoreFrame
<1>10. QED
  BY <1>2, <1>3, <1>8, <1>9, Multiples

\* Every step of the interpreter keeps WholeInv.
LEMMA NextWholeInv == TypeOK /\ WholeInv /\ [Next]_vars => WholeInv'
<1>1. SUFFICES ASSUME TypeOK, WholeInv, [Next]_vars PROVE WholeInv'
  OBVIOUS
<1>2. CASE UNCHANGED vars
  BY <1>1, <1>2
     DEF WholeInv, WholeStream, WritesFrames, vars, stream, burst_state
<1>3. ASSUME packets' = packets, NEW n
      PROVE  /\ WritesFrames(n)' <=> WritesFrames(n)
             /\ WholeStream(n)' <=> WholeStream(n)
  BY <1>3 DEF WholeStream, WritesFrames
<1>4. CASE Next /\ Fetch
  <2>1. packets' = packets /\ pos \in Nat /\ pos' = pos + 1 /\ pc = "fetch"
    BY <1>1, <1>4, StreamIsRead DEF Fetch
  <2>2. frames' = frames
    BY <1>4 DEF Next, InitWithPackets, SkipPacket, WriteMASK, WriteCTL1,
                WriteCMD, WriteIDCODE, WriteFAR, BeginFDRI, StoreFrame,
                EndFDRI, Finish, Fetch, burst_state
  <2>3. pc' = "burst" => ii' = 0 /\ WritesFrames(pos + 1)
    BY <1>4, <2>1
       DEF Next, InitWithPackets, SkipPacket, WriteMASK, WriteCTL1, WriteCMD,
           WriteIDCODE, WriteFAR, BeginFDRI, StoreFrame, EndFDRI, Finish,
           WritesFrames, Fetched
  <2>4. WholeStream(pos + 1) => WholeStream(pos)
    BY <2>1 DEF WholeStream
  <2>5. QED
    BY <1>1, <1>3, <2>1, <2>2, <2>3, <2>4, Multiples DEF WholeInv
<1>5. CASE StoreFrame
  <2>1. packets' = packets /\ pos' = pos /\ pc = "burst"
    BY <1>5 DEF StoreFrame, stream
  <2>2. QED
    BY <1>1, <1>3, <1>5, <2>1, StoreKeepsWhole DEF WholeInv
<1>6. CASE EndFDRI \/ Finish
  <2>1. packets' = packets /\ pos' = pos /\ frames' = frames /\ pc' # "burst"
    BY <1>6 DEF EndFDRI, Finish, stream, burst_state
  <2>2. QED
    BY <1>1, <1>3, <2>1 DEF WholeInv
<1>7. QED
  BY <1>1, <1>2, <1>4, <1>5, <1>6, StreamIsRead DEF Next, InitWithPackets

\* If every FDRI packet brings whole frames then every frame of the
\* configuration is whole, for every part, length of a frame and stream,
\* whatever padding the bursts skip and however they end.
THEOREM FramesAreWhole == Spec => []WholeFrames
<1>1. Init => WholeInv
  BY DEF Init, InitRegisters, WholeInv
<1>2. WholeInv => WholeFrames
  BY DEF WholeInv, WholeFrames, WholeStream
<1>3. QED
  BY <1>1, <1>2, NextWholeInv, TypeCorrect, PTL DEF Spec

-----------------------------------------------------------------------------
(***************************************************************************)
(* The interpreter is a function of the stream: its state as a value, and  *)
(* the state that follows it.                                              *)
(***************************************************************************)
State(p, r, n, a, o, f, c) ==
    [pos |-> p, registers |-> r, start |-> n, current |-> a, offset |-> o,
     frames |-> f, pc |-> c]

Registers4(c, f, m, t) == [command |-> c, far |-> f, mask |-> m, ctl1 |-> t]

whole ==
    State(pos, Registers4(command_register, frame_address_register,
                          mask_register, ctl1_register),
          start_new_write, current_frame_address, ii, frames, pc)

split ==
    State(pos2, Registers4(command_register2, frame_address_register2,
                           mask_register2, ctl1_register2),
          start_new_write2, current_frame_address2, ii2, frames2, pc2)

WithPc(s, c) ==
    State(s.pos, s.registers, s.start, s.current, s.offset, s.frames, c)

\* After a packet that writes a register other than FDRI, or none.
Loaded(s, registers, start, c) ==
    State(s.pos + 1, registers, start, s.current, s.offset, s.frames, c)

\* The flag after a write to FAR.
Restarts(start, ctl1, command) == start \/ (~ctl1 /\ command = WCFG)

LoadedBy(packet, s) ==
    LET word == packet.data[1]
        r == s.registers
    IN IF packet.address = "MASK"
       THEN Loaded(s, Registers4(r.command, r.far, Bit21(word), r.ctl1),
                   s.start, "fetch")
       ELSE IF packet.address = "CTL1"
       THEN Loaded(s, Registers4(r.command, r.far, r.mask,
                                 Bit21(word) /\ r.mask),
                   s.start, "fetch")
       ELSE IF packet.address = "CMD"
       THEN Loaded(s, Registers4(word, r.far, r.mask, r.ctl1),
                   s.start \/ word = WCFG, "fetch")
       ELSE IF packet.address = "FAR"
       THEN Loaded(s, Registers4(r.command, Unpacked(part.arch, word), r.mask,
                                 r.ctl1),
                   Restarts(s.start, r.ctl1, r.command), "fetch")
       ELSE Loaded(s, r, s.start,
                   IF word = IdCode THEN "fetch" ELSE "rejected")

Taken(packet, s) ==
    IF packet.opcode = "Write" /\ packet.address = "FDRI"
    THEN State(s.pos + 1, s.registers, FALSE,
               IF s.start THEN s.registers.far ELSE s.current, 0, s.frames,
               "burst")
    ELSE IF /\ packet.opcode = "Write"
            /\ packet.address \in Interpreted
            /\ packet.data # <<>>
    THEN LoadedBy(packet, s)
    ELSE Loaded(s, s.registers, s.start, "fetch")

Stored(frame, s) ==
    LET next == GetNextFrameAddress(part, s.current)
        stored == Assign(s.frames, s.current, frame)
    IN IF next = {}
       THEN State(s.pos, s.registers, s.start, s.current, s.offset, stored,
                  "fetch")
       ELSE State(s.pos, s.registers, s.start, CHOOSE b \in next : TRUE,
                  s.offset + IF CrossesRow(s.current, next)
                             THEN 3 * WordsPerFrame ELSE WordsPerFrame,
                  stored, "burst")

Step(packetList, s) ==
    IF s.pc = "burst"
    THEN IF s.offset < Len(packetList[s.pos].data)
         THEN Stored(Frame(packetList[s.pos].data, s.offset), s)
         ELSE WithPc(s, "fetch")
    ELSE IF s.pos < Len(packetList)
         THEN Taken(packetList[s.pos + 1], s)
         ELSE WithPc(s, "accepted")

Runs(s) == s.pc \in {"fetch", "burst"}

\* The fields of a state.
LEMMA StateFields ==
    ASSUME NEW p, NEW r, NEW n, NEW a, NEW o, NEW f, NEW c
    PROVE  LET s == State(p, r, n, a, o, f, c)
           IN /\ s.pos = p /\ s.registers = r /\ s.start = n /\ s.current = a
              /\ s.offset = o /\ s.frames = f /\ s.pc = c
BY DEF State

\* The fields of the registers.
LEMMA RegisterFields ==
    ASSUME NEW c, NEW f, NEW m, NEW t
    PROVE  LET r == Registers4(c, f, m, t)
           IN r.command = c /\ r.far = f /\ r.mask = m /\ r.ctl1 = t
BY DEF Registers4

\* What the first interpreter does is the step of its state.
LEMMA NextIsStep ==
    ASSUME TypeOK, Next
    PROVE  Runs(whole) /\ whole' = Step(packets, whole)
<1> DEFINE r == Registers4(command_register, frame_address_register,
                           mask_register, ctl1_register)
<1>1. /\ whole.pos = pos /\ whole.registers = r
      /\ whole.start = start_new_write /\ whole.current = current_frame_address
      /\ whole.offset = ii /\ whole.frames = frames /\ whole.pc = pc
  BY StateFields DEF whole
<1>2. /\ r.command = command_register /\ r.far = frame_address_register
      /\ r.mask = mask_register /\ r.ctl1 = ctl1_register
  BY RegisterFields
<1>3. whole' = State(pos', Registers4(command_register',
                                      frame_address_register', mask_register',
                                      ctl1_register'),
                     start_new_write', current_frame_address', ii', frames',
                     pc')
  BY DEF whole
<1> HIDE DEF r
<1>4. pos \in Nat /\ Len(packets) \in Nat /\ pos <= Len(packets)
  BY DEF TypeOK
<1>5. ASSUME Fetch
      PROVE  /\ pc = "fetch" /\ pos' = pos + 1
             /\ Step(packets, whole) = Taken(Fetched, whole)
  BY <1>1, <1>4, <1>5 DEF Fetch, Fetched, Step
<1>6. CASE SkipPacket
  BY <1>1, <1>3, <1>5, <1>6
     DEF SkipPacket, Taken, Loaded, Interpreted, Runs, r, far_state, burst_state
<1>7. CASE WriteMASK
  BY <1>1, <1>2, <1>3, <1>5, <1>7
     DEF WriteMASK, Loads, Taken, LoadedBy, Loaded, Interpreted, Runs,
         far_state, burst_state
<1>8. CASE WriteCTL1
  BY <1>1, <1>2, <1>3, <1>5, <1>8
     DEF WriteCTL1, Loads, Taken, LoadedBy, Loaded, Interpreted, Runs,
         far_state, burst_state
<1>9. CASE WriteCMD
  BY <1>1, <1>2, <1>3, <1>5, <1>9
     DEF WriteCMD, Loads, Taken, LoadedBy, Loaded, Interpreted, Runs,
         burst_state
<1>10. CASE WriteIDCODE
  BY <1>1, <1>2, <1>3, <1>5, <1>10
     DEF WriteIDCODE, Loads, Taken, LoadedBy, Loaded, Interpreted, Runs, r,
         far_state, burst_state
<1>11. CASE WriteFAR
  <2>1. start_new_write' = Restarts(start_new_write, ctl1_register,
                                    command_register)
    BY <1>11 DEF WriteFAR, Restarts
  <2>2. Taken(Fetched, whole) =
            Loaded(whole,
                   Registers4(whole.registers.command,
                              Unpacked(part.arch, Fetched.data[1]),
                              whole.registers.mask, whole.registers.ctl1),
                   Restarts(whole.start, whole.registers.ctl1,
                            whole.registers.command),
                   "fetch")
    BY <1>11 DEF WriteFAR, Loads, Taken, LoadedBy, Interpreted
  <2>3. QED
    BY <1>1, <1>2, <1>3, <1>5, <1>11, <2>1, <2>2
       DEF WriteFAR, Loads, Loaded, Runs, burst_state
<1>12. CASE BeginFDRI
  BY <1>1, <1>2, <1>3, <1>5, <1>12 DEF BeginFDRI, Taken, Runs, r
<1>13. CASE StoreFrame
  <2> DEFINE next == GetNextFrameAddress(part, current_frame_address)
             frame == Frame(packets[pos].data, ii)
  <2>1. /\ Step(packets, whole) = Stored(frame, whole)
        /\ whole.pc = "burst"
    BY <1>1, <1>13 DEF StoreFrame, Step
  <2>2. /\ frames' = Assign(frames, current_frame_address, frame)
        /\ pos' = pos /\ command_register' = command_register
        /\ frame_address_register' = frame_address_register
        /\ mask_register' = mask_register /\ ctl1_register' = ctl1_register
        /\ start_new_write' = start_new_write
    BY <1>13 DEF StoreFrame, far_state
  <2>3. \A b, c \in next : b = c
    BY NextIsOptional DEF TypeOK, IsOptional
  <2>4. CASE next = {}
    <3>1. pc' = "fetch" /\ UNCHANGED <<current_frame_address, ii>>
      BY <1>13, <2>4 DEF StoreFrame
    <3>2. QED
      BY <1>1, <1>3, <2>1, <2>2, <2>4, <3>1 DEF Stored, Runs, r
  <2>5. CASE next # {}
    <3>1. /\ current_frame_address' \in next
          /\ ii' = ii + IF CrossesRow(current_frame_address, next)
                        THEN 3 * WordsPerFrame ELSE WordsPerFrame
          /\ pc' = "burst"
      BY <1>13, <2>5 DEF StoreFrame
    <3>2. current_frame_address' = CHOOSE b \in next : TRUE
      BY <2>3, <3>1
    <3>3. QED
      BY <1>1, <1>3, <2>1, <2>2, <2>5, <3>1, <3>2 DEF Stored, Runs, r
  <2>6. QED
    BY <2>4, <2>5
<1>14. CASE EndFDRI
  <2>1. /\ UNCHANGED <<pos, command_register, mask_register, ctl1_register,
                       frame_address_register, start_new_write,
                       current_frame_address, ii, frames>>
        /\ pc = "burst" /\ pc' = "fetch" /\ ii >= Len(packets[pos].data)
    BY <1>14 DEF EndFDRI, far_state, burst_state
  <2>2. ~(ii < Len(packets[pos].data))
    <3>1. packets[pos] \in Packet /\ ii \in Nat
      BY <2>1 DEF TypeOK
    <3>2. QED
      BY <2>1, <3>1 DEF Packet
  <2>3. QED
    BY <1>1, <1>3, <2>1, <2>2 DEF Step, WithPc, Runs, r
<1>15. CASE Finish
  <2>1. /\ UNCHANGED <<pos, command_register, mask_register, ctl1_register,
                       frame_address_register, start_new_write,
                       current_frame_address, ii, frames>>
        /\ pc = "fetch" /\ pc' = "accepted" /\ pos = Len(packets)
    BY <1>15 DEF Finish, far_state, burst_state
  <2>2. QED
    BY <1>1, <1>3, <1>4, <2>1 DEF Step, WithPc, Runs, r
<1>16. QED
  BY <1>6, <1>7, <1>8, <1>9, <1>10, <1>11, <1>12, <1>13, <1>14, <1>15
     DEF Next, InitWithPackets

\* Both interpreters walk the part alike.
LEMMA SplitWalks ==
    \A p, a : Split!GetNextFrameAddress(p, a) =
               GetNextFrameAddress(p, a)
<1>1. SUFFICES ASSUME NEW p, NEW a
               PROVE  Split!GetNextFrameAddress(p, a) =
                          GetNextFrameAddress(p, a)
  OBVIOUS
<1>2. Split!BusNext(p, a) = BusNext(p, a)
  BY DEF Split!BusNext, BusNext, Split!ColumnNext, ColumnNext,
         Split!SameRow, SameRow, Split!FirstOf, FirstOf, Split!IfValid,
         IfValid, Split!IsValidFrameAddress, IsValidFrameAddress,
         Split!ColumnOf, ColumnOf, Split!Following, Following,
         Split!Address, Address
<1>3. Split!RowNext(p, a) = RowNext(p, a)
  BY <1>2 DEF Split!RowNext, RowNext, Split!SameRow, SameRow
<1>4. Split!GlobalClockRegionNext(p, a) =
          GlobalClockRegionNext(p, a)
  BY <1>3
     DEF Split!GlobalClockRegionNext, GlobalClockRegionNext, Split!FirstOf,
         FirstOf, Split!IfValid, IfValid, Split!IsValidFrameAddress,
         IsValidFrameAddress, Split!ColumnOf, ColumnOf, Split!Following,
         Following, Split!Address, Address
<1>5. Split!RowsNext(p, a) = RowsNext(p, a)
  BY <1>3
     DEF Split!RowsNext, RowsNext, Split!NumberedRow, NumberedRow,
         Split!FirstOf, FirstOf, Split!IfValid, IfValid,
         Split!IsValidFrameAddress, IsValidFrameAddress, Split!ColumnOf,
         ColumnOf, Split!Following, Following, Split!Address, Address
<1>6. /\ Split!BottomHalfNext(p, a) = BottomHalfNext(p, a)
      /\ Split!Spartan6BottomNext(p, a) =
             Spartan6BottomNext(p, a)
  BY DEF Split!BottomHalfNext, BottomHalfNext, Split!Spartan6BottomNext,
         Spartan6BottomNext, Split!IfValid, IfValid,
         Split!IsValidFrameAddress, IsValidFrameAddress, Split!ColumnOf,
         ColumnOf, Split!Address, Address
<1>7. Split!BlockTypeNext(p, a) = BlockTypeNext(p, a)
  BY DEF Split!BlockTypeNext, BlockTypeNext, Split!BLOCK_RAM, BLOCK_RAM,
         Split!CFG_CLB, CFG_CLB, Split!FirstOf, FirstOf, Split!IfValid,
         IfValid, Split!IsValidFrameAddress, IsValidFrameAddress,
         Split!ColumnOf, ColumnOf, Split!Address, Address
<1>8. /\ Split!Series7Next(p, a) = Series7Next(p, a)
      /\ Split!Spartan6Next(p, a) = Spartan6Next(p, a)
  BY <1>4, <1>6, <1>7
     DEF Split!Series7Next, Series7Next, Split!Spartan6Next, Spartan6Next,
         Split!FirstOf, FirstOf
<1>9. Split!UltraScaleNext(p, a) = UltraScaleNext(p, a)
  BY <1>5, <1>7
     DEF Split!UltraScaleNext, UltraScaleNext, Split!NumberedRow,
         NumberedRow, Split!FirstOf, FirstOf
<1>10. QED
  BY <1>8, <1>9 DEF Split!GetNextFrameAddress, GetNextFrameAddress

\* And they take words for the same addresses, frames and flags.
LEMMA SplitReads ==
    /\ \A arch, word : Split!Unpacked(arch, word) = Unpacked(arch, word)
    /\ \A data, offset : Split!Frame(data, offset) = Frame(data, offset)
    /\ \A map, key, value :
           Split!Assign(map, key, value) = Assign(map, key, value)
    /\ \A a, next : Split!CrossesRow(a, next) = CrossesRow(a, next)
    /\ Split!Interpreted = Interpreted
    /\ Split!ZeroAddress = ZeroAddress
<1>1. \A arch, word : Split!Unpacked(arch, word) = Unpacked(arch, word)
  BY DEF Split!Unpacked, Unpacked, Split!MinorCount, MinorCount, Split!Address,
         Address
<1>2. \A data, offset : Split!Frame(data, offset) = Frame(data, offset)
  BY DEF Split!Frame, Frame
<1>3. \A map, key, value :
          Split!Assign(map, key, value) = Assign(map, key, value)
  BY DEF Split!Assign, Assign
<1>4. \A a, next : Split!CrossesRow(a, next) = CrossesRow(a, next)
  BY DEF Split!CrossesRow, CrossesRow, Split!SameRow, SameRow
<1>5. Split!Interpreted = Interpreted /\ Split!ZeroAddress = ZeroAddress
  BY DEF Split!Interpreted, Interpreted, Split!ZeroAddress, ZeroAddress,
         Split!Address, Address
<1>6. QED
  BY <1>1, <1>2, <1>3, <1>4, <1>5

\* The second interpreter is at a packet of its stream and at an address.
SplitOK ==
    /\ IsPart(part)
    /\ packets2 \in Seq(Packet)
    /\ pos2 \in 0..Len(packets2)
    /\ current_frame_address2 \in FrameAddress
    /\ ii2 \in Nat
    /\ pc2 = "burst" => pos2 > 0

\* What the second interpreter does is the step of its state.
LEMMA SplitNextIsStep ==
    ASSUME SplitOK, Split!Next
    PROVE  Runs(split) /\ split' = Step(packets2, split)
<1> DEFINE r == Registers4(command_register2, frame_address_register2,
                           mask_register2, ctl1_register2)
<1>1. /\ split.pos = pos2 /\ split.registers = r
      /\ split.start = start_new_write2 /\ split.current = current_frame_address2
      /\ split.offset = ii2 /\ split.frames = frames2 /\ split.pc = pc2
  BY StateFields DEF split
<1>2. /\ r.command = command_register2 /\ r.far = frame_address_register2
      /\ r.mask = mask_register2 /\ r.ctl1 = ctl1_register2
  BY RegisterFields
<1>3. split' = State(pos2', Registers4(command_register2',
                                      frame_address_register2', mask_register2',
                                      ctl1_register2'),
                     start_new_write2', current_frame_address2', ii2', frames2',
                     pc2')
  BY DEF split
<1> HIDE DEF r
<1>4. pos2 \in Nat /\ Len(packets2) \in Nat /\ pos2 <= Len(packets2)
  BY DEF SplitOK
<1>5. ASSUME Split!Fetch
      PROVE  /\ pc2 = "fetch" /\ pos2' = pos2 + 1
             /\ Step(packets2, split) = Taken(Split!Fetched, split)
  BY <1>1, <1>4, <1>5 DEF Split!Fetch, Split!Fetched, Step
<1>6. CASE Split!SkipPacket
  BY <1>1, <1>3, <1>5, <1>6, SplitReads
     DEF Split!SkipPacket, Taken, Loaded, Interpreted, Runs, r,
         Split!far_state, Split!burst_state
<1>7. CASE Split!WriteMASK
  BY <1>1, <1>2, <1>3, <1>5, <1>7, SplitReads
     DEF Split!WriteMASK, Split!Bit21, Bit21, Split!Loads, Taken, LoadedBy,
         Loaded, Interpreted, Runs, Split!far_state, Split!burst_state
<1>8. CASE Split!WriteCTL1
  BY <1>1, <1>2, <1>3, <1>5, <1>8, SplitReads
     DEF Split!WriteCTL1, Split!Bit21, Bit21, Split!Loads, Taken, LoadedBy,
         Loaded, Interpreted, Runs, Split!far_state, Split!burst_state
<1>9. CASE Split!WriteCMD
  BY <1>1, <1>2, <1>3, <1>5, <1>9, SplitReads
     DEF Split!WriteCMD, Split!WCFG, WCFG, Split!Loads, Taken, LoadedBy,
         Loaded, Interpreted, Runs, Split!burst_state
<1>10. CASE Split!WriteIDCODE
  BY <1>1, <1>2, <1>3, <1>5, <1>10, SplitReads
     DEF Split!WriteIDCODE, Split!Loads, Taken, LoadedBy, Loaded, Interpreted,
         Runs, r, Split!far_state, Split!burst_state
<1>11. CASE Split!WriteFAR
  <2>1. start_new_write2' = Restarts(start_new_write2, ctl1_register2,
                                    command_register2)
    BY <1>11 DEF Split!WriteFAR, Restarts, Split!WCFG, WCFG
  <2>2. Taken(Split!Fetched, split) =
            Loaded(split,
                   Registers4(split.registers.command,
                              Unpacked(part.arch, Split!Fetched.data[1]),
                              split.registers.mask, split.registers.ctl1),
                   Restarts(split.start, split.registers.ctl1,
                            split.registers.command),
                   "fetch")
    BY <1>11 DEF Split!WriteFAR, Split!Loads, Taken, LoadedBy, Interpreted
  <2>3. QED
    BY <1>1, <1>2, <1>3, <1>5, <1>11, <2>1, <2>2, SplitReads
       DEF Split!WriteFAR, Split!Loads, Loaded, Runs, Split!burst_state
<1>12. CASE Split!BeginFDRI
  BY <1>1, <1>2, <1>3, <1>5, <1>12 DEF Split!BeginFDRI, Taken, Runs, r
<1>13. CASE Split!StoreFrame
  <2> DEFINE next == GetNextFrameAddress(part, current_frame_address2)
             frame == Frame(packets2[pos2].data, ii2)
  <2>1. /\ Step(packets2, split) = Stored(frame, split)
        /\ split.pc = "burst"
    BY <1>1, <1>13 DEF Split!StoreFrame, Step
  <2>2. /\ frames2' = Assign(frames2, current_frame_address2, frame)
        /\ pos2' = pos2 /\ command_register2' = command_register2
        /\ frame_address_register2' = frame_address_register2
        /\ mask_register2' = mask_register2 /\ ctl1_register2' = ctl1_register2
        /\ start_new_write2' = start_new_write2
    BY <1>13, SplitReads DEF Split!StoreFrame, Split!far_state
  <2>3. \A b, c \in next : b = c
    BY NextIsOptional DEF SplitOK, IsOptional
  <2>4. CASE next = {}
    <3>1. pc2' = "fetch" /\ UNCHANGED <<current_frame_address2, ii2>>
      BY <1>13, <2>4, SplitWalks DEF Split!StoreFrame
    <3>2. QED
      BY <1>1, <1>3, <2>1, <2>2, <2>4, <3>1 DEF Stored, Runs, r
  <2>5. CASE next # {}
    <3>1. /\ current_frame_address2' \in next
          /\ ii2' = ii2 + IF CrossesRow(current_frame_address2, next)
                        THEN 3 * WordsPerFrame ELSE WordsPerFrame
          /\ pc2' = "burst"
      BY <1>13, <2>5, SplitWalks, SplitReads DEF Split!StoreFrame
    <3>2. current_frame_address2' = CHOOSE b \in next : TRUE
      BY <2>3, <3>1
    <3>3. QED
      BY <1>1, <1>3, <2>1, <2>2, <2>5, <3>1, <3>2 DEF Stored, Runs, r
  <2>6. QED
    BY <2>4, <2>5
<1>14. CASE Split!EndFDRI
  <2>1. /\ UNCHANGED <<pos2, command_register2, mask_register2, ctl1_register2,
                       frame_address_register2, start_new_write2,
                       current_frame_address2, ii2, frames2>>
        /\ pc2 = "burst" /\ pc2' = "fetch" /\ ii2 >= Len(packets2[pos2].data)
    BY <1>14 DEF Split!EndFDRI, Split!far_state, Split!burst_state
  <2>2. ~(ii2 < Len(packets2[pos2].data))
    <3>1. packets2[pos2] \in Packet /\ ii2 \in Nat
      BY <2>1 DEF SplitOK
    <3>2. QED
      BY <2>1, <3>1 DEF Packet
  <2>3. QED
    BY <1>1, <1>3, <2>1, <2>2 DEF Step, WithPc, Runs, r
<1>15. CASE Split!Finish
  <2>1. /\ UNCHANGED <<pos2, command_register2, mask_register2, ctl1_register2,
                       frame_address_register2, start_new_write2,
                       current_frame_address2, ii2, frames2>>
        /\ pc2 = "fetch" /\ pc2' = "accepted" /\ pos2 = Len(packets2)
    BY <1>15 DEF Split!Finish, Split!far_state, Split!burst_state
  <2>2. QED
    BY <1>1, <1>3, <1>4, <2>1 DEF Step, WithPc, Runs, r
<1>16. QED
  BY <1>6, <1>7, <1>8, <1>9, <1>10, <1>11, <1>12, <1>13, <1>14, <1>15
     DEF Split!Next, Split!InitWithPackets

-----------------------------------------------------------------------------
(***************************************************************************)
(* What every step keeps, whatever the stream.                             *)
(***************************************************************************)
IsFDRI(packet) == packet.opcode = "Write" /\ packet.address = "FDRI"

StateOK(list, s) ==
    /\ s.pos \in 0..Len(list)
    /\ s.registers.far \in FrameAddress
    /\ s.current \in FrameAddress
    /\ s.offset \in Nat
    /\ s.pc = "burst" => s.pos > 0 /\ IsFDRI(list[s.pos]) /\ s.start = FALSE
    /\ s.pc = "accepted" => s.pos = Len(list)

\* What one step does to the position, the offset and the flag.
LEMMA TakenIs ==
    ASSUME NEW packet \in Packet, NEW s
    PROVE  LET t == Taken(packet, s)
           IN /\ t.pos = s.pos + 1 /\ t.frames = s.frames
              /\ t.pc # "accepted"
              /\ IsFDRI(packet) =>
                     t = State(s.pos + 1, s.registers, FALSE,
                               IF s.start THEN s.registers.far ELSE s.current,
                               0, s.frames, "burst")
              /\ ~IsFDRI(packet) => /\ t.pc # "burst" /\ t.current = s.current
                                    /\ t.offset = s.offset
              /\ s.registers.far \in FrameAddress =>
                     t.registers.far \in FrameAddress
<1> DEFINE t == Taken(packet, s)
<1>1. CASE IsFDRI(packet)
  <2>1. t = State(s.pos + 1, s.registers, FALSE,
                  IF s.start THEN s.registers.far ELSE s.current, 0, s.frames,
                  "burst")
    BY <1>1 DEF Taken, IsFDRI
  <2>2. /\ t.pos = s.pos + 1 /\ t.frames = s.frames /\ t.pc = "burst"
        /\ t.registers = s.registers
    BY <2>1 DEF State
  <2>3. QED
    BY <1>1, <2>1, <2>2
<1>2. CASE ~IsFDRI(packet)
  <2>1. PICK registers, start, c :
            /\ t = Loaded(s, registers, start, c)
            /\ c \in {"fetch", "rejected"}
            /\ s.registers.far \in FrameAddress =>
                   registers.far \in FrameAddress
    <3>1. CASE /\ packet.opcode = "Write"
               /\ packet.address \in Interpreted
               /\ packet.data # <<>>
      <4>1. t = LoadedBy(packet, s)
        BY <1>2, <3>1 DEF Taken, IsFDRI
      <4>2. packet.data[1] \in Nat
        BY <3>1 DEF Packet
      <4>3. Unpacked(part.arch, packet.data[1]) \in FrameAddress
        BY <4>2, UnpackedIsAddress
      <4>4. CASE packet.address = "MASK"
        BY <4>1, <4>4, RegisterFields DEF LoadedBy
      <4>5. CASE packet.address = "CTL1"
        BY <4>1, <4>5, RegisterFields DEF LoadedBy
      <4>6. CASE packet.address = "CMD"
        BY <4>1, <4>6, RegisterFields DEF LoadedBy
      <4>7. CASE packet.address = "FAR"
        BY <4>1, <4>3, <4>7, RegisterFields DEF LoadedBy
      <4>8. CASE packet.address \notin {"MASK", "CTL1", "CMD", "FAR"}
        BY <4>1, <4>8 DEF LoadedBy
      <4>9. QED
        BY <4>4, <4>5, <4>6, <4>7, <4>8
    <3>2. CASE ~(/\ packet.opcode = "Write"
                 /\ packet.address \in Interpreted
                 /\ packet.data # <<>>)
      BY <1>2, <3>2 DEF Taken, IsFDRI
    <3>3. QED
      BY <3>1, <3>2
  <2>2. /\ t.pos = s.pos + 1 /\ t.frames = s.frames /\ t.pc = c
        /\ t.registers = registers /\ t.current = s.current
        /\ t.offset = s.offset
    BY <2>1, StateFields DEF Loaded
  <2>3. QED
    BY <1>2, <2>1, <2>2
<1>3. QED
  BY <1>1, <1>2

\* The frame after a frame, if any.
LEMMA StoredIs ==
    ASSUME IsPart(part), NEW s, s.current \in FrameAddress, s.offset \in Nat,
           NEW frame
    PROVE  LET t == Stored(frame, s)
           IN /\ t.pos = s.pos /\ t.registers = s.registers
              /\ t.start = s.start
              /\ t.frames = Assign(s.frames, s.current, frame)
              /\ t.current \in FrameAddress /\ t.offset \in Nat
              /\ \/ t.pc = "fetch"
                 \/ /\ t.pc = "burst"
                    /\ t.offset >= s.offset + WordsPerFrame
                    /\ Packed(s.current) < Packed(t.current)
<1> DEFINE next == GetNextFrameAddress(part, s.current)
           t == Stored(frame, s)
<1>1. CASE next = {}
  BY <1>1, StateFields DEF Stored
<1>2. CASE next # {}
  <2> DEFINE b == CHOOSE x \in next : TRUE
             o == s.offset + IF CrossesRow(s.current, next)
                             THEN 3 * WordsPerFrame ELSE WordsPerFrame
  <2>1. b \in next
    BY <1>2
  <2>2. b \in FrameAddress /\ Packed(s.current) < Packed(b)
    BY <2>1, NextIsValidAndGreater
  <2>3. o \in Nat /\ o >= s.offset + WordsPerFrame
    BY ConfigurationAssumption
  <2>4. t = State(s.pos, s.registers, s.start, b, o,
                  Assign(s.frames, s.current, frame), "burst")
    BY <1>2 DEF Stored
  <2> HIDE DEF b, o, next, t
  <2>5. /\ t.pos = s.pos /\ t.registers = s.registers /\ t.start = s.start
        /\ t.current = b /\ t.offset = o /\ t.pc = "burst"
        /\ t.frames = Assign(s.frames, s.current, frame)
    BY <2>4, StateFields
  <2>6. QED
    BY <2>2, <2>3, <2>5 DEF t
<1>3. QED
  BY <1>1, <1>2

\* The cases of a step.
LEMMA StepCases ==
    ASSUME NEW list \in Seq(Packet), NEW s, StateOK(list, s), Runs(s)
    PROVE  \/ /\ s.pc = "burst" /\ s.pos \in 1..Len(list)
              /\ list[s.pos].data \in Seq(Nat)
              /\ s.offset < Len(list[s.pos].data)
              /\ Step(list, s) = Stored(Frame(list[s.pos].data, s.offset), s)
           \/ /\ s.pc = "burst" /\ s.pos \in 1..Len(list)
              /\ list[s.pos].data \in Seq(Nat)
              /\ s.offset >= Len(list[s.pos].data)
              /\ Step(list, s) = WithPc(s, "fetch")
           \/ /\ s.pc = "fetch" /\ s.pos \in Nat
              /\ s.pos < Len(list) /\ s.pos + 1 \in 1..Len(list)
              /\ list[s.pos + 1] \in Packet
              /\ Step(list, s) = Taken(list[s.pos + 1], s)
           \/ /\ s.pc = "fetch" /\ s.pos = Len(list)
              /\ Step(list, s) = WithPc(s, "accepted")
<1>1. s.pos \in 0..Len(list) /\ Len(list) \in Nat /\ s.offset \in Nat
  BY DEF StateOK
<1>2. CASE s.pc = "burst"
  <2>1. s.pos \in 1..Len(list)
    BY <1>1, <1>2 DEF StateOK
  <2>2. list[s.pos].data \in Seq(Nat)
    <3>1. list[s.pos] \in Packet
      BY <2>1
    <3>2. QED
      BY <3>1 DEF Packet
  <2>3. QED
    BY <1>1, <1>2, <2>1, <2>2 DEF Step
<1>3. CASE s.pc = "fetch"
  BY <1>1, <1>3 DEF Step
<1>4. QED
  BY <1>2, <1>3 DEF Runs

\* Every step keeps the types.
LEMMA StepOK ==
    ASSUME IsPart(part), NEW list \in Seq(Packet), NEW s, StateOK(list, s),
           Runs(s)
    PROVE  StateOK(list, Step(list, s))
<1> DEFINE t == Step(list, s)
<1>1. /\ s.pos \in 0..Len(list) /\ Len(list) \in Nat
      /\ s.registers.far \in FrameAddress /\ s.current \in FrameAddress
      /\ s.offset \in Nat
  BY DEF StateOK
<1>2. ASSUME s.pc = "burst",
             t = Stored(Frame(list[s.pos].data, s.offset), s)
      PROVE  StateOK(list, t)
  <2>1. /\ t.pos = s.pos /\ t.registers = s.registers /\ t.start = s.start
        /\ t.current \in FrameAddress /\ t.offset \in Nat
        /\ t.pc \in {"fetch", "burst"}
    BY <1>1, <1>2, StoredIs
  <2>2. QED
    BY <1>1, <1>2, <2>1 DEF StateOK
<1>3. ASSUME NEW c \in {"fetch", "accepted"}, t = WithPc(s, c),
             c = "accepted" => s.pos = Len(list)
      PROVE  StateOK(list, t)
  <2>1. /\ t.pos = s.pos /\ t.registers = s.registers /\ t.start = s.start
        /\ t.current = s.current /\ t.offset = s.offset /\ t.pc = c
    BY <1>3, StateFields DEF WithPc
  <2>2. QED
    BY <1>1, <1>3, <2>1 DEF StateOK
<1>4. ASSUME s.pos < Len(list), list[s.pos + 1] \in Packet,
             t = Taken(list[s.pos + 1], s)
      PROVE  StateOK(list, t)
  <2> HIDE DEF t
  <2>1. /\ t.pos = s.pos + 1 /\ t.pc # "accepted"
        /\ t.registers.far \in FrameAddress
    BY <1>1, <1>4, TakenIs
  <2>2. CASE IsFDRI(list[s.pos + 1])
    <3>1. t = State(s.pos + 1, s.registers, FALSE,
                    IF s.start THEN s.registers.far ELSE s.current, 0,
                    s.frames, "burst")
      BY <1>4, <2>2, TakenIs
    <3>2. /\ t.start = FALSE /\ t.offset = 0
          /\ t.current = IF s.start THEN s.registers.far ELSE s.current
      BY <3>1 DEF State
    <3>3. t.current \in FrameAddress
      BY <1>1, <3>2
    <3>4. t.pos \in 0..Len(list) /\ t.pos > 0 /\ IsFDRI(list[t.pos])
      BY <1>1, <1>4, <2>1, <2>2
    <3>5. QED
      BY <2>1, <3>2, <3>3, <3>4 DEF StateOK
  <2>3. CASE ~IsFDRI(list[s.pos + 1])
    <3>1. t.pc # "burst" /\ t.current = s.current /\ t.offset = s.offset
      BY <1>4, <2>3, TakenIs
    <3>2. QED
      BY <1>1, <1>4, <2>1, <3>1 DEF StateOK
  <2>4. QED
    BY <2>2, <2>3
<1> HIDE DEF t
<1>5. QED
  BY <1>2, <1>3, <1>4, StepCases DEF t

-----------------------------------------------------------------------------
(***************************************************************************)
(* At the end of a stream the first frame of its last data is still        *)
(* where it was stored, for later frames have greater addresses.           *)
(***************************************************************************)
FirstFrameKept(list, s) ==
    LET data == list[Len(list)].data
    IN s.pos = Len(list) /\ (s.pc = "burst" => s.offset > 0) =>
           \E c \in DOMAIN s.frames :
              /\ c \in FrameAddress
              /\ s.frames[c] = Frame(data, 0)
              /\ s.pc = "burst" => Packed(c) < Packed(s.current)

\* Every step keeps it, if the last packet is data.
LEMMA StepKeepsFirstFrame ==
    ASSUME IsPart(part), NEW list \in Seq(Packet), NEW s, StateOK(list, s),
           Runs(s), Len(list) > 0, IsFDRI(list[Len(list)]),
           list[Len(list)].data # <<>>, FirstFrameKept(list, s)
    PROVE  FirstFrameKept(list, Step(list, s))
<1> DEFINE t == Step(list, s)
           data == list[Len(list)].data
<1>1. /\ Len(list) \in Nat \ {0} /\ s.pos \in Nat /\ s.offset \in Nat
      /\ s.current \in FrameAddress
  BY DEF StateOK
<1>2. data \in Seq(Nat) /\ Len(data) \in Nat \ {0}
  <2>1. list[Len(list)] \in Packet
    BY <1>1
  <2>2. QED
    BY <2>1 DEF Packet
<1> HIDE DEF data
<1>3. CASE s.pos # Len(list)
  <2>1. CASE t.pos # Len(list)
    BY <2>1 DEF FirstFrameKept
  <2>2. CASE t.pos = Len(list)
    <3>1. /\ s.pos < Len(list) /\ s.pos + 1 \in 1..Len(list)
          /\ list[s.pos + 1] \in Packet /\ t = Taken(list[s.pos + 1], s)
      <4>1. CASE t = Stored(Frame(list[s.pos].data, s.offset), s)
        BY <1>1, <1>3, <2>2, <4>1, StoredIs
      <4>2. CASE t = WithPc(s, "fetch") \/ t = WithPc(s, "accepted")
        BY <1>3, <2>2, <4>2 DEF WithPc, State
      <4>3. QED
        BY <4>1, <4>2, StepCases
    <3>2. t.pos = s.pos + 1
      BY <3>1, TakenIs
    <3>3. list[s.pos + 1] = list[Len(list)]
      BY <2>2, <3>2
    <3>4. t = State(s.pos + 1, s.registers, FALSE,
                    IF s.start THEN s.registers.far ELSE s.current, 0,
                    s.frames, "burst")
      BY <3>1, <3>3, TakenIs
    <3>5. t.pc = "burst" /\ t.offset = 0
      BY <3>4 DEF State
    <3>6. QED
      BY <3>5 DEF FirstFrameKept
  <2>3. QED
    BY <2>1, <2>2
<1>4. CASE s.pos = Len(list)
  <2>1. CASE /\ s.pc = "burst"
             /\ t = Stored(Frame(data, s.offset), s)
    <3>1. /\ t.frames = Assign(s.frames, s.current, Frame(data, s.offset))
          /\ \/ t.pc = "fetch"
             \/ t.pc = "burst" /\ Packed(s.current) < Packed(t.current)
          /\ t.current \in FrameAddress
      BY <1>1, <2>1, StoredIs
    <3>2. /\ DOMAIN t.frames = DOMAIN s.frames \union {s.current}
          /\ t.frames[s.current] = Frame(data, s.offset)
          /\ \A c \in DOMAIN s.frames :
                c # s.current => t.frames[c] = s.frames[c]
      BY <3>1 DEF Assign
    <3>3. CASE s.offset = 0
      <4>1. t.frames[s.current] = Frame(data, 0)
        BY <3>2, <3>3
      <4>2. QED
        BY <1>1, <3>1, <3>2, <4>1 DEF FirstFrameKept, data
    <3>4. CASE s.offset # 0
      <4>1. PICK c \in DOMAIN s.frames :
                /\ c \in FrameAddress /\ s.frames[c] = Frame(data, 0)
                /\ Packed(c) < Packed(s.current)
        BY <1>1, <1>4, <2>1, <3>4 DEF FirstFrameKept, data
      <4>2. Packed(c) \in Nat /\ Packed(s.current) \in Nat
            /\ Packed(t.current) \in Nat
        BY <1>1, <3>1, <4>1, PackedIsNat
      <4>3. c # s.current
        BY <4>1, <4>2
      <4>4. c \in DOMAIN t.frames /\ t.frames[c] = Frame(data, 0)
        BY <3>2, <4>1, <4>3
      <4>5. t.pc = "burst" => Packed(c) < Packed(t.current)
        BY <3>1, <4>1, <4>2
      <4>6. QED
        BY <4>1, <4>4, <4>5 DEF FirstFrameKept, data
    <3>5. QED
      BY <3>3, <3>4
  <2>2. ASSUME NEW k \in {"fetch", "accepted"}, t = WithPc(s, k),
               s.pc = "burst" => s.offset > 0
        PROVE  FirstFrameKept(list, t)
    <3>1. t.pos = s.pos /\ t.frames = s.frames /\ t.pc = k
      BY <2>2 DEF WithPc, State
    <3>2. PICK c \in DOMAIN s.frames :
              c \in FrameAddress /\ s.frames[c] = Frame(data, 0)
      BY <1>4, <2>2 DEF FirstFrameKept, data
    <3>3. QED
      BY <3>1, <3>2 DEF FirstFrameKept, data
  <2>3. \/ s.pc = "burst" /\ t = Stored(Frame(data, s.offset), s)
        \/ /\ s.pc = "burst" /\ s.offset >= Len(data)
           /\ t = WithPc(s, "fetch")
        \/ s.pc = "fetch" /\ t = WithPc(s, "accepted")
    BY <1>1, <1>4, StepCases DEF data
  <2>4. CASE s.pc = "burst" /\ s.offset >= Len(data) /\ t = WithPc(s, "fetch")
    BY <1>1, <1>2, <2>2, <2>4
  <2>5. QED
    BY <2>1, <2>2, <2>3, <2>4
<1>5. QED
  BY <1>3, <1>4

\* Every frame is of the data of a packet, at an offset, and what is of the
\* last packet at one of these.
FramesFrom(list, s, offsets) ==
    \A c \in DOMAIN s.frames :
        \E i \in 1..s.pos, o \in Nat :
            /\ IsFDRI(list[i]) /\ o < Len(list[i].data)
            /\ s.frames[c] = Frame(list[i].data, o)
            /\ i = Len(list) => o \in offsets

\* Every step keeps that.
LEMMA StepKeepsFramesFrom ==
    ASSUME IsPart(part), NEW list \in Seq(Packet), NEW s, StateOK(list, s),
           Runs(s), NEW offsets, FramesFrom(list, s, offsets), NEW more,
           offsets \subseteq more,
           s.pc = "burst" /\ s.pos = Len(list) => s.offset \in more
    PROVE  FramesFrom(list, Step(list, s), more)
<1> DEFINE t == Step(list, s)
<1>1. Len(list) \in Nat /\ s.pos \in Nat /\ s.offset \in Nat
      /\ s.current \in FrameAddress
  BY DEF StateOK
<1>2. ASSUME s.pc = "burst", s.pos \in 1..Len(list),
             s.offset < Len(list[s.pos].data),
             t = Stored(Frame(list[s.pos].data, s.offset), s)
      PROVE  FramesFrom(list, t, more)
  <2>1. /\ t.frames = Assign(s.frames, s.current,
                             Frame(list[s.pos].data, s.offset))
        /\ t.pos = s.pos
    BY <1>1, <1>2, StoredIs
  <2>2. /\ DOMAIN t.frames = DOMAIN s.frames \union {s.current}
        /\ t.frames[s.current] = Frame(list[s.pos].data, s.offset)
        /\ \A c \in DOMAIN s.frames :
              c # s.current => t.frames[c] = s.frames[c]
    BY <2>1 DEF Assign
  <2>3. IsFDRI(list[s.pos])
    BY <1>2 DEF StateOK
  <2>4. QED
    BY <1>1, <1>2, <2>1, <2>2, <2>3 DEF FramesFrom
<1>3. ASSUME t.frames = s.frames, t.pos = s.pos \/ t.pos = s.pos + 1
      PROVE  FramesFrom(list, t, more)
  BY <1>1, <1>3 DEF FramesFrom
<1>4. CASE t = WithPc(s, "fetch") \/ t = WithPc(s, "accepted")
  BY <1>3, <1>4 DEF WithPc, State
<1>5. CASE list[s.pos + 1] \in Packet /\ t = Taken(list[s.pos + 1], s)
  BY <1>3, <1>5, TakenIs
<1>6. QED
  BY <1>2, <1>4, <1>5, StepCases

-----------------------------------------------------------------------------
(***************************************************************************)
(* The states the first interpreter has come through, in order.            *)
(***************************************************************************)
InLast(s) == s.pc = "burst" /\ s.pos = Len(packets)

InitialState ==
    State(0, Registers4(0, ZeroAddress, FALSE, FALSE), FALSE, ZeroAddress, 0,
          <<>>, "fetch")

\* State s is before state t: the last packet is entered once, its frames are
\* at ascending offsets, and it is never entered again.
Earlier(s, t) ==
    /\ s.pos <= t.pos
    /\ InLast(s) /\ InLast(t) => s.offset + WordsPerFrame <= t.offset
    /\ s.pos = Len(packets) /\ ~InLast(s) => ~InLast(t)

Traced(h, m) ==
    /\ m \in Nat
    /\ h[0] = InitialState
    /\ h[m] = whole
    /\ \A i \in 0..m : StateOK(packets, h[i])
    /\ \A i \in 0..m - 1 : Runs(h[i]) /\ h[i + 1] = Step(packets, h[i])
    /\ \A i, j \in 0..m : i < j => Earlier(h[i], h[j])
    /\ starts = {h[i].offset : i \in {j \in 0..m - 1 : InLast(h[j])}}

\* The state after a step is after it.
LEMMA StepIsLater ==
    ASSUME IsPart(part), packets \in Seq(Packet), NEW s, StateOK(packets, s),
           Runs(s)
    PROVE  /\ Earlier(s, Step(packets, s))
           /\ ~InLast(s) /\ InLast(Step(packets, s)) => s.pos < Len(packets)
<1> DEFINE t == Step(packets, s)
<1>1. Len(packets) \in Nat /\ s.pos \in 0..Len(packets) /\ s.offset \in Nat
      /\ s.current \in FrameAddress
  BY DEF StateOK
<1>2. CASE /\ s.pc = "burst"
           /\ t = Stored(Frame(packets[s.pos].data, s.offset), s)
  <2>1. /\ t.pos = s.pos
        /\ \/ t.pc = "fetch"
           \/ t.pc = "burst" /\ t.offset >= s.offset + WordsPerFrame
        /\ t.offset \in Nat
    BY <1>1, <1>2, StoredIs
  <2>2. QED
    BY <1>1, <1>2, <2>1, ConfigurationAssumption DEF Earlier, InLast
<1>3. CASE t = WithPc(s, "fetch") \/ t = WithPc(s, "accepted")
  <2>1. t.pos = s.pos /\ t.pc # "burst"
    BY <1>3 DEF WithPc, State
  <2>2. QED
    BY <1>1, <2>1 DEF Earlier, InLast
<1>4. CASE /\ s.pc = "fetch" /\ s.pos < Len(packets)
           /\ packets[s.pos + 1] \in Packet
           /\ t = Taken(packets[s.pos + 1], s)
  <2>1. PICK packet \in Packet : t = Taken(packet, s)
    BY <1>4
  <2>2. t.pos = s.pos + 1
    BY <2>1, TakenIs
  <2>3. QED
    BY <1>1, <1>4, <2>2 DEF Earlier, InLast
<1>5. QED
  BY <1>2, <1>3, <1>4, StepCases

\* What is before a state is before the next.
LEMMA BeforeStep ==
    ASSUME IsPart(part), packets \in Seq(Packet), NEW r, StateOK(packets, r),
           NEW s, StateOK(packets, s), Runs(s), Earlier(r, s)
    PROVE  Earlier(r, Step(packets, s))
<1> DEFINE t == Step(packets, s)
<1>1. /\ Len(packets) \in Nat
      /\ r.pos \in 0..Len(packets) /\ r.offset \in Nat
      /\ s.pos \in 0..Len(packets) /\ s.offset \in Nat
  BY DEF StateOK
<1>2. StateOK(packets, t)
  BY StepOK
<1>3. t.pos \in 0..Len(packets) /\ t.offset \in Nat
  BY <1>2 DEF StateOK
<1>4. /\ Earlier(s, t)
      /\ ~InLast(s) /\ InLast(t) => s.pos < Len(packets)
  BY StepIsLater
<1> HIDE DEF t
<1>5. r.pos <= t.pos
  BY <1>1, <1>3, <1>4 DEF Earlier
<1>6. ASSUME InLast(r), InLast(t)
      PROVE  r.offset + WordsPerFrame <= t.offset
  <2>1. InLast(s)
    BY <1>1, <1>4, <1>6 DEF Earlier, InLast
  <2>2. /\ r.offset + WordsPerFrame <= s.offset
        /\ s.offset + WordsPerFrame <= t.offset
    BY <1>4, <1>6, <2>1 DEF Earlier
  <2>3. QED
    BY <1>1, <1>3, <2>2, ConfigurationAssumption
<1>7. ASSUME r.pos = Len(packets), ~InLast(r)
      PROVE  ~InLast(t)
  <2>1. s.pos = Len(packets) /\ ~InLast(s)
    BY <1>1, <1>7 DEF Earlier
  <2>2. QED
    BY <1>1, <1>4, <2>1
<1>8. QED
  BY <1>5, <1>6, <1>7 DEF Earlier, t

\* What is said of states depends on the part and the stream alone.
LEMMA SameStream ==
    ASSUME part' = part, packets' = packets
    PROVE  /\ \A s : StateOK(packets, s)' <=> StateOK(packets, s)
           /\ \A s : Step(packets, s)' = Step(packets, s)
           /\ \A s : InLast(s)' <=> InLast(s)
           /\ \A s, t : Earlier(s, t)' <=> Earlier(s, t)
           /\ InitialState' = InitialState
<1>1. \A s : StateOK(packets, s)' <=> StateOK(packets, s)
  BY DEF StateOK
<1>2. \A s : Step(packets, s)' = Step(packets, s)
  BY DEF Step, Stored, Taken, LoadedBy
<1>3. \A s : InLast(s)' <=> InLast(s)
  BY DEF InLast
<1>4. \A s, t : Earlier(s, t)' <=> Earlier(s, t)
  BY DEF Earlier, InLast
<1>5. InitialState' = InitialState
  BY DEF InitialState
<1>6. QED
  BY <1>1, <1>2, <1>3, <1>4, <1>5

\* Every step makes the history one state longer.
LEMMA TraceGrows ==
    ASSUME TypeOK, NEW h, NEW m, Traced(h, m), InterpretWhole
    PROVE  \E g : Traced(g, m + 1)'
<1>0. PICK next : next = whole'
  OBVIOUS
<1> DEFINE g == [i \in 0..m + 1 |-> IF i <= m THEN h[i] ELSE next]
<1>1. /\ m \in Nat /\ IsPart(part) /\ packets \in Seq(Packet)
      /\ StateOK(packets, h[m]) /\ h[m] = whole
  BY DEF Traced, TypeOK
<1>2. Runs(whole) /\ next = Step(packets, whole)
  BY <1>0, NextIsStep DEF InterpretWhole
<1>3. packets' = packets /\ part' = part
  BY StreamIsRead DEF InterpretWhole
<1>4. /\ \A i \in 0..m : g[i] = h[i]
      /\ g[m + 1] = next
  BY <1>1
<1>5. /\ \A s : StateOK(packets, s)' <=> StateOK(packets, s)
      /\ \A s : Step(packets, s)' = Step(packets, s)
      /\ \A s : InLast(s)' <=> InLast(s)
      /\ \A s, t : Earlier(s, t)' <=> Earlier(s, t)
      /\ InitialState' = InitialState
  BY <1>3, SameStream
<1> HIDE DEF g
<1>6. m + 1 \in Nat /\ g[0] = InitialState
  BY <1>1, <1>4 DEF Traced
<1>7. \A i \in 0..m + 1 : StateOK(packets, g[i])
  <2>1. StateOK(packets, Step(packets, whole))
    BY <1>1, <1>2, StepOK
  <2>2. QED
    BY <1>1, <1>2, <1>4, <2>1 DEF Traced
<1>8. \A i \in 0..(m + 1) - 1 : Runs(g[i]) /\ g[i + 1] = Step(packets, g[i])
  <2>1. SUFFICES ASSUME NEW i \in 0..m
                 PROVE  Runs(g[i]) /\ g[i + 1] = Step(packets, g[i])
    BY <1>1
  <2>2. CASE i = m
    BY <1>1, <1>2, <1>4, <2>2
  <2>3. CASE i # m
    <3>1. i \in 0..m - 1 /\ i + 1 \in 0..m
      BY <1>1, <2>3
    <3>2. Runs(h[i]) /\ h[i + 1] = Step(packets, h[i])
      BY <3>1 DEF Traced
    <3>3. QED
      BY <1>4, <3>1, <3>2
  <2>4. QED
    BY <2>2, <2>3
<1>9. \A i, j \in 0..m + 1 : i < j => Earlier(g[i], g[j])
  <2>1. SUFFICES ASSUME NEW i \in 0..m + 1, NEW j \in 0..m + 1, i < j
                 PROVE  Earlier(g[i], g[j])
    OBVIOUS
  <2>2. CASE j \in 0..m
    <3>1. i \in 0..m
      BY <1>1, <2>1, <2>2
    <3>2. QED
      BY <1>4, <2>1, <2>2, <3>1 DEF Traced
  <2>3. CASE j = m + 1 /\ i = m
    BY <1>1, <1>2, <1>4, <2>3, StepIsLater
  <2>4. CASE j = m + 1 /\ i \in 0..m - 1
    <3>1. /\ Earlier(h[i], whole) /\ StateOK(packets, h[i])
          /\ StateOK(packets, whole)
      BY <1>1, <2>4 DEF Traced
    <3>2. Earlier(h[i], Step(packets, whole))
      BY <1>1, <1>2, <3>1, BeforeStep
    <3>3. QED
      BY <1>1, <1>2, <1>4, <2>4, <3>2
  <2>5. QED
    BY <1>1, <2>1, <2>2, <2>3, <2>4
<1>10. starts' = {g[i].offset : i \in {j \in 0..(m + 1) - 1 : InLast(g[j])}}
  <2>1. /\ InLast(whole) <=> pc = "burst" /\ pos = Len(packets)
        /\ whole.offset = ii
    BY DEF InLast, whole, State
  <2>2. starts' = starts \union IF InLast(whole) THEN {whole.offset} ELSE {}
    BY <2>1 DEF InterpretWhole
  <2>3. starts = {g[i].offset : i \in {j \in 0..m - 1 : InLast(g[j])}}
    <3>1. starts = {h[i].offset : i \in {j \in 0..m - 1 : InLast(h[j])}}
      BY <1>1 DEF Traced
    <3>2. \A i \in 0..m - 1 : g[i] = h[i]
      BY <1>1, <1>4
    <3>3. QED
      BY ONLY <3>1, <3>2
  <2>4. g[m] = whole /\ (0..(m + 1) - 1) = (0..m - 1) \union {m}
    BY <1>1, <1>4
  <2>5. QED
    BY <2>2, <2>3, <2>4
<1>11. Traced(g, m + 1)'
  <2>1. g[m + 1] = whole'
    BY <1>0, <1>4
  <2>2. \A i \in 0..m + 1 : StateOK(packets, g[i])'
    BY <1>5, <1>7
  <2>3. \A i \in 0..(m + 1) - 1 :
            Runs(g[i])' /\ g[i + 1] = Step(packets, g[i])'
    BY <1>5, <1>8 DEF Runs
  <2>4. \A i, j \in 0..m + 1 : i < j => Earlier(g[i], g[j])'
    BY <1>5, <1>9
  <2>5. starts' = {g[i].offset : i \in {j \in 0..(m + 1) - 1 : InLast(g[j])'}}
    BY <1>5, <1>10
  <2>6. QED
    BY <1>5, <1>6, <2>1, <2>2, <2>3, <2>4, <2>5 DEF Traced
<1>12. QED
  BY <1>11

-----------------------------------------------------------------------------
(***************************************************************************)
(* Data cut in two, frame by frame.                                        *)
(***************************************************************************)

\* A frame that ends before the cut is the same frame.
LEMMA FrameInFront ==
    ASSUME NEW data \in Seq(Nat), NEW n \in 0..Len(data), NEW o \in Nat,
           o + WordsPerFrame <= n
    PROVE  Frame(SubSeq(data, 1, n), o) = Frame(data, o)
<1> DEFINE front == SubSeq(data, 1, n)
           last == o + WordsPerFrame
<1>1. WordsPerFrame \in Nat \ {0} /\ Len(data) \in Nat /\ n \in Nat
  BY ConfigurationAssumption
<1>2. /\ front \in Seq(Nat) /\ Len(front) = n
      /\ \A i \in 1..n : front[i] = data[i]
  BY <1>1
<1> HIDE DEF front
<1>3. /\ Frame(front, o) = SubSeq(front, o + 1, last)
      /\ Frame(data, o) = SubSeq(data, o + 1, last)
  BY <1>1, <1>2 DEF Frame
<1>4. /\ SubSeq(front, o + 1, last) \in Seq(Nat)
      /\ Len(SubSeq(front, o + 1, last)) = WordsPerFrame
      /\ \A i \in 1..WordsPerFrame :
            SubSeq(front, o + 1, last)[i] = front[o + i]
  BY <1>1, <1>2
<1>5. /\ SubSeq(data, o + 1, last) \in Seq(Nat)
      /\ Len(SubSeq(data, o + 1, last)) = WordsPerFrame
      /\ \A i \in 1..WordsPerFrame : SubSeq(data, o + 1, last)[i] = data[o + i]
  BY <1>1
<1>6. \A i \in 1..WordsPerFrame : front[o + i] = data[o + i]
  BY <1>1, <1>2
<1>7. SubSeq(front, o + 1, last) = SubSeq(data, o + 1, last)
  BY <1>4, <1>5, <1>6, SeqEqual
<1>8. QED
  BY <1>3, <1>7 DEF front

\* Words of a sequence, from behind position q.
LEMMA Words ==
    ASSUME NEW data \in Seq(Nat), NEW q \in Nat, NEW size \in Nat,
           q + size <= Len(data)
    PROVE  /\ SubSeq(data, q + 1, q + size) \in Seq(Nat)
           /\ Len(SubSeq(data, q + 1, q + size)) = size
           /\ \A i \in 1..size : SubSeq(data, q + 1, q + size)[i] = data[q + i]
OBVIOUS

\* A frame that starts behind the cut is the same frame.
LEMMA FrameBehind ==
    ASSUME NEW data \in Seq(Nat), NEW n \in 0..Len(data), NEW o \in Nat,
           n <= o, o < Len(data)
    PROVE  Frame(SubSeq(data, n + 1, Len(data)), o - n) = Frame(data, o)
<1> DEFINE back == SubSeq(data, n + 1, Len(data))
           q == o - n
           size == IF o + WordsPerFrame <= Len(data)
                   THEN WordsPerFrame ELSE Len(data) - o
<1>1. WordsPerFrame \in Nat \ {0} /\ Len(data) \in Nat /\ n \in Nat
  BY ConfigurationAssumption
<1>2. /\ back \in Seq(Nat) /\ Len(back) = Len(data) - n
      /\ \A i \in 1..Len(data) - n : back[i] = data[n + i]
  BY <1>1
<1>3. q \in Nat /\ o = n + q
  BY <1>1
<1>4. /\ size \in Nat /\ o + size <= Len(data) /\ q + size <= Len(back)
      /\ (o + WordsPerFrame <= Len(data)) <=> (q + WordsPerFrame <= Len(back))
      /\ o + size = IF o + WordsPerFrame <= Len(data)
                    THEN o + WordsPerFrame ELSE Len(data)
      /\ q + size = IF o + WordsPerFrame <= Len(data)
                    THEN q + WordsPerFrame ELSE Len(back)
  <2>1. Len(data) - o \in Nat /\ o + (Len(data) - o) = Len(data)
        /\ q + (Len(data) - o) = Len(back)
    BY <1>1, <1>2, <1>3
  <2>2. CASE o + WordsPerFrame <= Len(data)
    BY <1>1, <1>2, <1>3, <2>2
  <2>3. CASE ~(o + WordsPerFrame <= Len(data))
    <3>1. size = Len(data) - o
      BY <2>3
    <3> HIDE DEF size, back, q
    <3>2. o + size = Len(data) /\ q + size = Len(back) /\ size \in Nat
      BY <2>1, <3>1
    <3>3. ~(q + WordsPerFrame <= Len(back))
      BY <1>1, <1>2, <1>3, <2>3
    <3>4. Len(back) \in Nat
      BY <1>2
    <3>5. QED
      BY <1>1, <2>3, <3>2, <3>3, <3>4
  <2>4. QED
    BY <2>2, <2>3
<1> HIDE DEF back, q, size
<1>5. /\ Frame(back, q) = SubSeq(back, q + 1, q + size)
      /\ Frame(data, o) = SubSeq(data, o + 1, o + size)
  BY <1>4 DEF Frame
<1>6. /\ SubSeq(back, q + 1, q + size) \in Seq(Nat)
      /\ Len(SubSeq(back, q + 1, q + size)) = size
      /\ \A i \in 1..size : SubSeq(back, q + 1, q + size)[i] = back[q + i]
  BY <1>2, <1>3, <1>4, Words
<1>7. /\ SubSeq(data, o + 1, o + size) \in Seq(Nat)
      /\ Len(SubSeq(data, o + 1, o + size)) = size
      /\ \A i \in 1..size : SubSeq(data, o + 1, o + size)[i] = data[o + i]
  BY <1>4, Words
<1>8. ASSUME NEW i \in 1..size PROVE back[q + i] = data[o + i]
  <2>1. q + i \in 1..Len(data) - n /\ n + (q + i) = o + i
    BY <1>1, <1>2, <1>3, <1>4
  <2>2. QED
    BY <1>2, <2>1
<1>9. SubSeq(back, q + 1, q + size) = SubSeq(data, o + 1, o + size)
  BY <1>6, <1>7, <1>8, SeqEqual
<1>10. QED
  BY <1>5, <1>9 DEF back, q

\* The first word of a frame.
LEMMA FrameBegins ==
    ASSUME NEW data \in Seq(Nat), NEW o \in Nat, o < Len(data)
    PROVE  Frame(data, o)[1] = data[o + 1]
<1>1. PICK last \in o + 1..Len(data) : Frame(data, o) = SubSeq(data, o + 1, last)
  BY ConfigurationAssumption DEF Frame
<1>2. QED
  BY <1>1

-----------------------------------------------------------------------------
(***************************************************************************)
(* The two streams, and the steps of the second interpreter as steps of    *)
(* the first.                                                              *)
(***************************************************************************)
Cutting ==
    /\ packets \in Seq(Packet) /\ packets2 \in Seq(Packet)
    /\ Len(packets) > 0 /\ Len(packets2) = Len(packets) + 1
    /\ \A i \in 1..Len(packets) - 1 : packets2[i] = packets[i]
    /\ IsFDRI(packets[Len(packets)])
    /\ cut \in 0..Len(LastData) - 1
    /\ packets2[Len(packets)] = FDRI(SubSeq(LastData, 1, cut))
    /\ packets2[Len(packets) + 1] =
           FDRI(SubSeq(LastData, cut + 1, Len(LastData)))

\* The fields of the two packets.
LEMMA CutPackets ==
    ASSUME Cutting
    PROVE  /\ Len(packets) \in Nat \ {0} /\ Len(packets2) = Len(packets) + 1
           /\ LastData \in Seq(Nat) /\ Len(LastData) \in Nat
           /\ cut \in Nat /\ cut < Len(LastData)
           /\ IsFDRI(packets2[Len(packets)])
           /\ IsFDRI(packets2[Len(packets) + 1])
           /\ packets2[Len(packets)].data = SubSeq(LastData, 1, cut)
           /\ packets2[Len(packets) + 1].data =
                  SubSeq(LastData, cut + 1, Len(LastData))
           /\ SubSeq(LastData, 1, cut) \in Seq(Nat)
           /\ Len(SubSeq(LastData, 1, cut)) = cut
           /\ SubSeq(LastData, cut + 1, Len(LastData)) \in Seq(Nat)
           /\ Len(SubSeq(LastData, cut + 1, Len(LastData))) =
                  Len(LastData) - cut
<1>1. Len(packets) \in Nat \ {0} /\ Len(packets2) = Len(packets) + 1
  BY DEF Cutting
<1>2. packets[Len(packets)] \in Packet
  BY <1>1 DEF Cutting
<1>3. LastData \in Seq(Nat)
  BY <1>2 DEF LastData, Packet
<1>4. Len(LastData) \in Nat /\ cut \in Nat /\ cut < Len(LastData)
  BY <1>3 DEF Cutting
<1>5. /\ SubSeq(LastData, 1, cut) \in Seq(Nat)
      /\ Len(SubSeq(LastData, 1, cut)) = cut
      /\ SubSeq(LastData, cut + 1, Len(LastData)) \in Seq(Nat)
      /\ Len(SubSeq(LastData, cut + 1, Len(LastData))) = Len(LastData) - cut
  BY <1>3, <1>4
<1>6. /\ IsFDRI(packets2[Len(packets)])
      /\ IsFDRI(packets2[Len(packets) + 1])
      /\ packets2[Len(packets)].data = SubSeq(LastData, 1, cut)
      /\ packets2[Len(packets) + 1].data =
             SubSeq(LastData, cut + 1, Len(LastData))
  BY DEF Cutting, FDRI, IsFDRI
<1>7. QED
  BY <1>1, <1>3, <1>4, <1>5, <1>6

\* Up to the cut both streams are the same.
LEMMA SameStep ==
    ASSUME IsPart(part), Cutting, NEW s, StateOK(packets, s), Runs(s),
           s.pos = Len(packets) =>
               InLast(s) /\ s.offset + WordsPerFrame <= cut
    PROVE  Step(packets2, s) = Step(packets, s)
<1>1. /\ s.pos \in 0..Len(packets) /\ s.offset \in Nat
      /\ s.pc = "burst" => s.pos > 0
  BY DEF StateOK
<1>2. /\ Len(packets) \in Nat \ {0} /\ Len(packets2) = Len(packets) + 1
      /\ \A i \in 1..Len(packets) - 1 : packets2[i] = packets[i]
  BY CutPackets DEF Cutting
<1>3. CASE s.pc = "burst" /\ s.pos # Len(packets)
  <2>1. packets2[s.pos] = packets[s.pos]
    BY <1>1, <1>2, <1>3
  <2>2. QED
    BY <1>3, <2>1 DEF Step
<1>4. CASE s.pc = "burst" /\ s.pos = Len(packets)
  <2>1. s.offset + WordsPerFrame <= cut
    BY <1>4
  <2>2. /\ packets2[s.pos].data = SubSeq(LastData, 1, cut)
        /\ packets[s.pos].data = LastData
        /\ Len(SubSeq(LastData, 1, cut)) = cut
        /\ LastData \in Seq(Nat) /\ cut \in 0..Len(LastData)
        /\ cut < Len(LastData)
    <3>1. packets[s.pos].data = LastData
      BY <1>4 DEF LastData
    <3>2. LastData \in Seq(Nat) /\ cut \in 0..Len(LastData)
      BY CutPackets
    <3>3. QED
      BY <1>4, <3>1, <3>2, CutPackets
  <2>3. s.offset < cut /\ s.offset < Len(LastData)
    <3>1. /\ WordsPerFrame \in Nat \ {0} /\ s.offset \in Nat
          /\ cut \in Nat /\ Len(LastData) \in Nat
      BY <1>1, CutPackets, ConfigurationAssumption
    <3>2. QED
      BY <2>1, <2>2, <3>1
  <2>4. Frame(SubSeq(LastData, 1, cut), s.offset) = Frame(LastData, s.offset)
    BY <1>1, <2>1, <2>2, FrameInFront
  <2>5. QED
    BY <1>4, <2>2, <2>3, <2>4 DEF Step
<1>5. CASE s.pc = "fetch"
  <2>1. s.pos < Len(packets) /\ s.pos < Len(packets2)
    BY <1>1, <1>2, <1>5 DEF InLast
  <2>2. CASE s.pos + 1 # Len(packets)
    <3>1. packets2[s.pos + 1] = packets[s.pos + 1]
      BY <1>1, <1>2, <2>1, <2>2
    <3>2. QED
      BY <1>5, <2>1, <3>1 DEF Step
  <2>3. CASE s.pos + 1 = Len(packets)
    <3>1. /\ IsFDRI(packets2[s.pos + 1])
          /\ IsFDRI(packets[s.pos + 1])
      BY <2>3, CutPackets DEF Cutting
    <3>2. Taken(packets2[s.pos + 1], s) = Taken(packets[s.pos + 1], s)
      BY <3>1 DEF Taken, IsFDRI
    <3>3. QED
      BY <1>5, <2>1, <3>2 DEF Step
  <2>4. QED
    BY <2>2, <2>3
<1>6. QED
  BY <1>3, <1>4, <1>5 DEF Runs

\* A state of the first as one of the second behind the cut.
Shifted(s) ==
    State(s.pos + 1, s.registers, s.start, s.current, s.offset - cut, s.frames,
          s.pc)

\* At the cut the second ends its packet, and starts the next where it was.
LEMMA CutSteps ==
    ASSUME Cutting, NEW s, StateOK(packets, s), InLast(s), s.offset = cut
    PROVE  /\ Step(packets2, s) = WithPc(s, "fetch")
           /\ Step(packets2, WithPc(s, "fetch")) = Shifted(s)
<1>1. /\ s.pc = "burst" /\ s.pos = Len(packets) /\ s.start = FALSE
  BY DEF InLast, StateOK
<1>2. Step(packets2, s) = WithPc(s, "fetch")
  <2>1. ~(s.offset < Len(packets2[s.pos].data))
    <3>1. cut \in Nat /\ Len(packets2[Len(packets)].data) = cut
      BY CutPackets
    <3>2. QED
      BY <1>1, <3>1
  <2>2. QED
    BY <1>1, <2>1 DEF Step
<1> DEFINE t == WithPc(s, "fetch")
<1>3. /\ t.pos = s.pos /\ t.registers = s.registers /\ t.start = s.start
      /\ t.current = s.current /\ t.frames = s.frames /\ t.pc = "fetch"
  BY DEF WithPc, State
<1> HIDE DEF t
<1>4. Step(packets2, t) = Taken(packets2[s.pos + 1], t)
  BY <1>1, <1>3, CutPackets DEF Step
<1>5. Taken(packets2[s.pos + 1], t) =
          State(s.pos + 1, s.registers, FALSE, s.current, 0, s.frames, "burst")
  BY <1>1, <1>3, CutPackets DEF Taken, IsFDRI
<1>6. s.offset - cut = 0
  BY CutPackets
<1>7. Shifted(s) =
          State(s.pos + 1, s.registers, FALSE, s.current, 0, s.frames, "burst")
  BY <1>1, <1>6 DEF Shifted
<1>8. QED
  BY <1>2, <1>4, <1>5, <1>7 DEF t

\* Behind the cut the second does as the first.
LEMMA ShiftedSteps ==
    ASSUME IsPart(part), Cutting, NEW s, StateOK(packets, s), Runs(s),
           s.pos = Len(packets), s.pc = "burst" => cut <= s.offset
    PROVE  Step(packets2, Shifted(s)) = Shifted(Step(packets, s))
<1> DEFINE t == Shifted(s)
<1>1. /\ t.pos = s.pos + 1 /\ t.registers = s.registers /\ t.start = s.start
      /\ t.current = s.current /\ t.offset = s.offset - cut
      /\ t.frames = s.frames /\ t.pc = s.pc
  BY DEF Shifted, State
<1>2. s.offset \in Nat /\ cut \in Nat /\ Len(packets) \in Nat \ {0}
  BY CutPackets DEF StateOK
<1> HIDE DEF t
<1>3. CASE s.pc = "burst"
  <2>1. /\ packets2[t.pos].data = SubSeq(LastData, cut + 1, Len(LastData))
        /\ packets[s.pos].data = LastData
        /\ Len(packets2[t.pos].data) = Len(LastData) - cut
        /\ LastData \in Seq(Nat) /\ Len(LastData) \in Nat
        /\ cut \in 0..Len(LastData) /\ cut <= s.offset
    <3>1. cut \in 0..Len(LastData)
      BY CutPackets
    <3>2. QED
      BY <1>1, <1>3, <3>1, CutPackets DEF LastData
  <2>2. (t.offset < Len(packets2[t.pos].data)) <=> s.offset < Len(LastData)
    BY <1>1, <1>2, <2>1
  <2>3. CASE s.offset < Len(LastData)
    <3>1. Frame(packets2[t.pos].data, t.offset) = Frame(LastData, s.offset)
      BY <1>1, <1>2, <2>1, <2>3, FrameBehind
    <3>2. PICK frame : frame = Frame(LastData, s.offset)
      OBVIOUS
    <3>3. /\ Step(packets2, t) = Stored(frame, t)
          /\ Step(packets, s) = Stored(frame, s)
      BY <1>1, <1>3, <2>1, <2>2, <2>3, <3>1, <3>2 DEF Step
    <3>4. Stored(frame, t) = Shifted(Stored(frame, s))
      <4> DEFINE next == GetNextFrameAddress(part, s.current)
                 stored == Assign(s.frames, s.current, frame)
                 more == IF CrossesRow(s.current, next)
                         THEN 3 * WordsPerFrame ELSE WordsPerFrame
                 b == CHOOSE x \in next : TRUE
      <4>1. CASE next = {}
        <5>1. /\ Stored(frame, s) =
                     State(s.pos, s.registers, s.start, s.current, s.offset,
                           stored, "fetch")
              /\ Stored(frame, t) =
                     State(s.pos + 1, s.registers, s.start, s.current,
                           s.offset - cut, stored, "fetch")
          BY <1>1, <4>1 DEF Stored
        <5>2. QED
          BY <5>1 DEF Shifted, State
      <4>2. CASE next # {}
        <5>1. /\ Stored(frame, s) =
                     State(s.pos, s.registers, s.start, b, s.offset + more,
                           stored, "burst")
              /\ Stored(frame, t) =
                     State(s.pos + 1, s.registers, s.start, b,
                           (s.offset - cut) + more, stored, "burst")
          BY <1>1, <4>2 DEF Stored
        <5>2. (s.offset - cut) + more = (s.offset + more) - cut
          BY <1>2, ConfigurationAssumption
        <5> HIDE DEF b, more, stored, next
        <5>3. QED
          BY <5>1, <5>2 DEF Shifted, State
      <4>3. QED
        BY <4>1, <4>2
    <3>5. QED
      BY <3>3, <3>4 DEF t
  <2>4. CASE ~(s.offset < Len(LastData))
    <3>1. /\ Step(packets2, t) = WithPc(t, "fetch")
          /\ Step(packets, s) = WithPc(s, "fetch")
      BY <1>1, <1>3, <2>1, <2>2, <2>4 DEF Step
    <3>2. WithPc(t, "fetch") = Shifted(WithPc(s, "fetch"))
      BY <1>1 DEF WithPc, Shifted, State
    <3>3. QED
      BY <3>1, <3>2 DEF t
  <2>5. QED
    BY <2>3, <2>4
<1>4. CASE s.pc = "fetch"
  <2>1. ~(t.pos < Len(packets2)) /\ ~(s.pos < Len(packets))
    <3>1. t.pos = Len(packets2)
      BY <1>1, CutPackets
    <3>2. QED
      BY <1>2, <3>1, CutPackets
  <2>2. /\ Step(packets2, t) = WithPc(t, "accepted")
        /\ Step(packets, s) = WithPc(s, "accepted")
    BY <1>1, <1>4, <2>1 DEF Step
  <2>3. WithPc(t, "accepted") = Shifted(WithPc(s, "accepted"))
    BY <1>1 DEF WithPc, Shifted, State
  <2>4. QED
    BY <2>2, <2>3 DEF t
<1>5. QED
  BY <1>3, <1>4 DEF Runs

-----------------------------------------------------------------------------
(***************************************************************************)
(* If the whole packet has had a frame start at the cut, then the second   *)
(* interpreter is where the first has been: up to the cut in the same      *)
(* state, behind it in a shifted one, and between its two packets at rest. *)
(***************************************************************************)
AtCut(s) == InLast(s) /\ s.offset = cut

Trails(h, m) ==
    \A k \in 0..m - 1 : AtCut(h[k]) =>
        \/ \E n \in 0..k : split = h[n]
        \/ split = WithPc(h[k], "fetch")
        \/ \E n \in k..m : h[n].pos = Len(packets) /\ split = Shifted(h[n])

\* The second interpreter is at a packet of its stream.
LEMMA SplitIsOK ==
    ASSUME TypeOK, Cutting, StateOK(packets2, split)
    PROVE  SplitOK
<1>1. /\ split.pos = pos2 /\ split.current = current_frame_address2
      /\ split.offset = ii2 /\ split.pc = pc2
  BY DEF split, State
<1>2. QED
  BY <1>1 DEF StateOK, SplitOK, TypeOK, Cutting

\* What a step of the second interpreter changes.
LEMMA SplitSteps ==
    ASSUME TypeOK, Cutting, StateOK(packets2, split), InterpretSplit
    PROVE  /\ Runs(split) /\ split' = Step(packets2, split)
           /\ part' = part /\ packets' = packets /\ packets2' = packets2
           /\ cut' = cut /\ starts' = starts /\ whole' = whole /\ pc' = pc
           /\ UNCHANGED vars
<1>1. Runs(split) /\ split' = Step(packets2, split)
  BY SplitIsOK, SplitNextIsStep DEF InterpretSplit
<1>2. part' = part /\ packets2' = packets2
  BY DEF InterpretSplit, Split!Next, Split!InitWithPackets, Split!SkipPacket,
         Split!WriteMASK, Split!WriteCTL1, Split!WriteCMD, Split!WriteIDCODE,
         Split!WriteFAR, Split!BeginFDRI, Split!StoreFrame, Split!EndFDRI,
         Split!Finish, Split!Loads, Split!Fetch, Split!stream
<1>3. UNCHANGED <<whole_vars, cut, starts>>
  BY DEF InterpretSplit
<1>4. QED
  BY <1>1, <1>2, <1>3
     DEF whole_vars, whole, vars, stream, far_state, burst_state

\* Every step of the second interpreter follows the first.
LEMMA SplitStepFollows ==
    ASSUME TypeOK, Cutting, StateOK(packets2, split), NEW h, NEW m,
           Traced(h, m), Trails(h, m), InterpretSplit
    PROVE  Trails(h, m)'
<1>1. /\ Runs(split) /\ split' = Step(packets2, split)
      /\ packets' = packets /\ cut' = cut
  BY SplitSteps
<1>2. /\ m \in Nat /\ IsPart(part) /\ h[m] = whole /\ pc = "accepted"
      /\ Len(packets) \in Nat \ {0} /\ cut \in Nat
  BY CutPackets DEF Traced, TypeOK, InterpretSplit
<1>3. ASSUME NEW k \in 0..m - 1, AtCut(h[k])
      PROVE  \/ \E n \in 0..k : split' = h[n]
             \/ split' = WithPc(h[k], "fetch")
             \/ \E n \in k..m :
                   h[n].pos = Len(packets) /\ split' = Shifted(h[n])
  <2>1. k \in 0..m /\ StateOK(packets, h[k])
    BY <1>2 DEF Traced
  <2>2. CASE \E n \in 0..k : split = h[n]
    <3>1. PICK n \in 0..k : split = h[n]
      BY <2>2
    <3>2. CASE n = k
      <4>1. split' = WithPc(h[k], "fetch")
        BY <1>1, <1>3, <2>1, <3>1, <3>2, CutSteps DEF AtCut
      <4>2. QED
        BY <4>1
    <3>3. CASE n # k
      <4>1. n \in 0..m - 1 /\ n \in 0..m /\ n < k /\ n + 1 \in 0..k
        BY <1>2, <3>3
      <4>2. /\ StateOK(packets, h[n]) /\ Earlier(h[n], h[k])
            /\ h[n + 1] = Step(packets, h[n])
        BY <2>1, <4>1 DEF Traced
      <4>3. h[n].pos = Len(packets) =>
                InLast(h[n]) /\ h[n].offset + WordsPerFrame <= cut
        BY <1>3, <4>2 DEF Earlier, AtCut
      <4>4. Step(packets2, h[n]) = h[n + 1]
        BY <1>1, <1>2, <3>1, <4>2, <4>3, SameStep
      <4>5. QED
        BY <1>1, <3>1, <4>1, <4>4
    <3>4. QED
      BY <3>2, <3>3
  <2>3. CASE split = WithPc(h[k], "fetch")
    <3>1. split' = Shifted(h[k]) /\ h[k].pos = Len(packets)
      BY <1>1, <1>3, <2>1, <2>3, CutSteps DEF AtCut, InLast
    <3>2. k \in k..m
      BY <1>2
    <3>3. QED
      BY <3>1, <3>2
  <2>4. CASE \E n \in k..m : h[n].pos = Len(packets) /\ split = Shifted(h[n])
    <3>1. PICK n \in k..m : h[n].pos = Len(packets) /\ split = Shifted(h[n])
      BY <2>4
    <3>2. n \in 0..m /\ StateOK(packets, h[n])
      BY <1>2, <3>1 DEF Traced
    <3>3. Runs(h[n])
      BY <1>1, <3>1 DEF Runs, Shifted, State
    <3>4. n # m
      BY <1>2, <3>3 DEF Runs, whole, State
    <3>5. n \in 0..m - 1 /\ n + 1 \in 0..m /\ n + 1 \in k..m /\ n < n + 1
      BY <1>2, <3>1, <3>4
    <3>6. /\ h[n + 1] = Step(packets, h[n]) /\ Earlier(h[n], h[n + 1])
          /\ StateOK(packets, h[n + 1])
      BY <3>2, <3>5 DEF Traced
    <3>7. h[n + 1].pos = Len(packets)
      BY <1>2, <3>1, <3>6 DEF Earlier, StateOK
    <3>8. h[n].pc = "burst" => cut <= h[n].offset
      <4>1. CASE n = k
        BY <1>2, <1>3, <4>1 DEF AtCut
      <4>2. CASE n # k
        <5>1. Earlier(h[k], h[n])
          BY <1>2, <2>1, <3>1, <3>2, <4>2 DEF Traced
        <5>2. h[n].pc = "burst" => cut + WordsPerFrame <= h[n].offset
          BY <1>3, <3>1, <5>1 DEF Earlier, AtCut, InLast
        <5>3. QED
          BY <1>2, <3>2, <5>2, ConfigurationAssumption DEF StateOK
      <4>3. QED
        BY <4>1, <4>2
    <3>9. split' = Shifted(h[n + 1])
      BY <1>1, <1>2, <3>1, <3>2, <3>3, <3>6, <3>8, ShiftedSteps
    <3>10. QED
      BY <3>5, <3>7, <3>9
  <2>5. QED
    BY <1>3, <2>2, <2>3, <2>4 DEF Trails
<1>4. /\ \A s : AtCut(s)' <=> AtCut(s)
      /\ \A s : Shifted(s)' = Shifted(s)
      /\ \A s, c : WithPc(s, c)' = WithPc(s, c)
  BY <1>1 DEF AtCut, InLast, Shifted, WithPc
<1>5. QED
  BY <1>1, <1>3, <1>4 DEF Trails

(***************************************************************************)
(* SplitWhereFramesStart is not inductive: it says nothing of the time     *)
(* before the end.  What is true at any time is that the frames of the     *)
(* first are of its data at offsets with a frame start, that the second    *)
(* keeps the first frame of its last packet, and that it follows the first *)
(* if the first came by the cut.                                           *)
(***************************************************************************)
SplitInv ==
    /\ TypeOK
    /\ Cutting
    /\ StateOK(packets2, split)
    /\ FramesFrom(packets, whole, starts)
    /\ FirstFrameKept(packets2, split)
    /\ pc # "accepted" => split = InitialState
    /\ \E h, m : Traced(h, m) /\ Trails(h, m)

\* Both start with the registers at zero, and at packets.
LEMMA InitSplitInv == InitBoth => SplitInv
<1>1. SUFFICES ASSUME InitBoth PROVE SplitInv
  OBVIOUS
<1>2. PICK prologue \in Prologues, data \in FdriData :
          /\ cut \in 0..Len(data) - 1
          /\ packets = Append(prologue, FDRI(data))
          /\ packets2 = prologue \o <<FDRI(SubSeq(data, 1, cut)),
                                      FDRI(SubSeq(data, cut + 1, Len(data)))>>
  BY <1>1 DEF InitBoth
<1>3. prologue \in Seq(Packet) /\ data \in Seq(Nat) /\ Len(data) \in Nat
  BY SplitAssumption
<1>4. ASSUME NEW d \in Seq(Nat)
      PROVE  FDRI(d) \in Packet /\ IsFDRI(FDRI(d))
  <2>1. "FDRI" \in DOMAIN RegisterNumber
    BY DEF RegisterNumber
  <2>2. "Write" \in Opcodes /\ "FDRI" \in Registers
    BY <2>1 DEF Opcodes, Registers
  <2>3. QED
    BY <2>2 DEF FDRI, IsFDRI, Packet
<1> DEFINE first == SubSeq(data, 1, cut)
           second == SubSeq(data, cut + 1, Len(data))
           tail == <<FDRI(first), FDRI(second)>>
<1>5. first \in Seq(Nat) /\ second \in Seq(Nat) /\ cut \in Nat
  <2>1. cut \in Nat /\ cut < Len(data)
    BY <1>2, <1>3
  <2>2. first \in Seq(Nat)
    BY <1>3, <2>1
  <2>3. second \in Seq(Nat)
    BY <1>3, <2>1
  <2>4. QED
    BY <2>1, <2>2, <2>3
<1> HIDE DEF first, second
<1>6. tail \in Seq(Packet) /\ Len(tail) = 2
      /\ tail[1] = FDRI(first) /\ tail[2] = FDRI(second)
  BY <1>4, <1>5
<1>7. /\ packets \in Seq(Packet) /\ Len(packets) = Len(prologue) + 1
      /\ packets[Len(packets)] = FDRI(data)
      /\ \A i \in 1..Len(prologue) : packets[i] = prologue[i]
  <2>1. FDRI(data) \in Packet
    BY <1>3, <1>4
  <2> HIDE DEF FDRI
  <2>2. QED
    BY <1>2, <1>3, <2>1
<1>8. /\ packets2 \in Seq(Packet) /\ Len(packets2) = Len(prologue) + 2
      /\ \A i \in 1..Len(prologue) : packets2[i] = prologue[i]
      /\ packets2[Len(prologue) + 1] = FDRI(first)
      /\ packets2[Len(prologue) + 2] = FDRI(second)
  <2>1. packets2 = prologue \o tail
    BY <1>2 DEF first, second
  <2> HIDE DEF tail
  <2>2. Len(prologue) \in Nat
    BY <1>3
  <2>3. /\ packets2 \in Seq(Packet) /\ Len(packets2) = Len(prologue) + 2
        /\ \A i \in 1..Len(prologue) + 2 :
              packets2[i] = IF i <= Len(prologue) THEN prologue[i]
                            ELSE tail[i - Len(prologue)]
    <3>1. \A s, t \in Seq(Packet) :
              /\ s \o t \in Seq(Packet)
              /\ Len(s \o t) = Len(s) + Len(t)
              /\ \A i \in 1..Len(s) + Len(t) :
                    (s \o t)[i] = IF i <= Len(s) THEN s[i] ELSE t[i - Len(s)]
      BY ONLY ConcatProperties
    <3>2. /\ prologue \o tail \in Seq(Packet)
          /\ Len(prologue \o tail) = Len(prologue) + Len(tail)
          /\ \A i \in 1..Len(prologue) + Len(tail) :
                (prologue \o tail)[i] = IF i <= Len(prologue) THEN prologue[i]
                                        ELSE tail[i - Len(prologue)]
      BY ONLY <1>3, <1>6, <3>1
    <3>3. QED
      BY ONLY <1>6, <2>1, <3>2
  <2>4. /\ (Len(prologue) + 1) - Len(prologue) = 1
        /\ (Len(prologue) + 2) - Len(prologue) = 2
    BY <2>2
  <2>5. QED
    BY <1>6, <2>2, <2>3, <2>4
<1>9. Cutting
  <2>1. LastData = data
    BY <1>7 DEF LastData, FDRI
  <2>2. Len(prologue) \in Nat
    BY <1>3
  <2>3. IsFDRI(packets[Len(packets)])
    BY <1>3, <1>4, <1>7
  <2>4. /\ packets2[Len(packets)] = FDRI(first)
        /\ packets2[Len(packets) + 1] = FDRI(second)
        /\ Len(packets2) = Len(packets) + 1 /\ Len(packets) > 0
        /\ Len(packets) - 1 = Len(prologue)
    BY <1>7, <1>8, <2>2
  <2>5. \A i \in 1..Len(packets) - 1 : packets2[i] = packets[i]
    BY <1>7, <1>8, <2>4
  <2>6. QED
    BY <1>2, <1>7, <1>8, <2>1, <2>3, <2>4, <2>5 DEF Cutting, first, second
<1>10. /\ InitRegisters /\ Split!InitRegisters /\ starts = {}
       /\ part \in Parts
  BY <1>1 DEF InitBoth
<1>11. TypeOK
  <2>1. IsPart(part) /\ ZeroAddress \in FrameAddress
    BY <1>10, ConfigurationAssumption, ZeroIsAddress
  <2>2. DOMAIN frames = {} /\ pos \in 0..Len(packets)
    BY <1>7, <1>10 DEF InitRegisters
  <2>3. QED
    BY <1>7, <1>10, <2>1, <2>2 DEF InitRegisters, TypeOK
<1>12. whole = InitialState /\ split = InitialState
  BY <1>10, SplitReads
     DEF InitRegisters, Split!InitRegisters, whole, split, InitialState
<1>13. /\ InitialState.pos = 0 /\ InitialState.registers.far = ZeroAddress
       /\ InitialState.current = ZeroAddress /\ InitialState.offset = 0
       /\ InitialState.frames = <<>> /\ InitialState.pc = "fetch"
  BY DEF InitialState, State, Registers4
<1> HIDE DEF InitialState
<1>14. /\ StateOK(packets, whole) /\ StateOK(packets2, split)
  BY <1>7, <1>8, <1>12, <1>13, ZeroIsAddress DEF StateOK
<1>15. /\ FramesFrom(packets, whole, starts)
       /\ FirstFrameKept(packets2, split)
  <2>1. DOMAIN <<>> = {}
    OBVIOUS
  <2>2. Len(packets2) # 0
    BY <1>3, <1>8
  <2>3. QED
    BY <1>12, <1>13, <2>1, <2>2 DEF FramesFrom, FirstFrameKept
<1>16. \E h, m : Traced(h, m) /\ Trails(h, m)
  <2> DEFINE h == [i \in {0} |-> whole]
  <2>1. h[0] = whole
    OBVIOUS
  <2>2. PICK g : g[0] = whole
    BY <2>1
  <2>3. Traced(g, 0)
    BY <1>10, <1>12, <1>14, <2>2 DEF Traced
  <2>4. Trails(g, 0)
    BY DEF Trails
  <2>5. QED
    BY <2>3, <2>4
<1>17. QED
  BY <1>9, <1>11, <1>12, <1>14, <1>15, <1>16 DEF SplitInv

\* Every step of either interpreter keeps that.
LEMMA NextSplitInv == SplitInv /\ [InterpretBoth]_both_vars => SplitInv'
<1>1. SUFFICES ASSUME SplitInv, [InterpretBoth]_both_vars PROVE SplitInv'
  OBVIOUS
<1>2. PICK h, m : Traced(h, m) /\ Trails(h, m)
  BY <1>1 DEF SplitInv
<1>3. /\ TypeOK /\ Cutting /\ StateOK(packets2, split)
      /\ IsPart(part) /\ packets \in Seq(Packet) /\ packets2 \in Seq(Packet)
  BY <1>1 DEF SplitInv, TypeOK, Cutting
<1>4. CASE UNCHANGED both_vars
  <2>1. /\ UNCHANGED vars /\ part' = part /\ packets' = packets
        /\ packets2' = packets2 /\ cut' = cut /\ starts' = starts
        /\ whole' = whole /\ split' = split /\ pc' = pc
    BY <1>4 DEF both_vars, whole_vars, split_vars, vars, stream, far_state,
                burst_state, whole, split
  <2>2. TypeOK'
    BY <1>3, <2>1, NextTypeOK
  <2>3. /\ Traced(h, m)' /\ Trails(h, m)'
    <3>1. Traced(h, m)'
      BY <1>2, <2>1, SameStream DEF Traced, Runs
    <3>2. Trails(h, m)'
      BY <1>2, <2>1 DEF Trails, InLast, AtCut, Shifted, WithPc
    <3>3. QED
      BY <3>1, <3>2
  <2>4. /\ Cutting' /\ StateOK(packets2, split)'
        /\ FramesFrom(packets, whole, starts)'
        /\ FirstFrameKept(packets2, split)'
        /\ InitialState' = InitialState
    BY <1>1, <2>1
       DEF SplitInv, Cutting, LastData, StateOK, FramesFrom, FirstFrameKept,
           InitialState
  <2>5. QED
    BY <1>1, <2>1, <2>2, <2>3, <2>4 DEF SplitInv
<1>5. CASE InterpretWhole
  <2>1. /\ Runs(whole) /\ whole' = Step(packets, whole)
        /\ packets' = packets /\ part' = part
    BY <1>3, <1>5, NextIsStep, StreamIsRead DEF InterpretWhole
  <2>2. /\ packets2' = packets2 /\ cut' = cut /\ split' = split
    BY <1>5 DEF InterpretWhole, split_vars, split
  <2>3. TypeOK'
    BY <1>3, <1>5, NextTypeOK DEF InterpretWhole
  <2>4. PICK g : Traced(g, m + 1)'
    BY <1>2, <1>3, <1>5, TraceGrows
  <2>5. whole.pc = pc /\ whole.pos = pos /\ whole.offset = ii
    BY DEF whole, State
  <2>6. split = InitialState /\ InitialState' = InitialState
    BY <1>1, <2>1, <2>5 DEF SplitInv, Runs, InitialState
  <2>7. Trails(g, m + 1)'
    <3>1. split' = g[0]
      BY <2>2, <2>4, <2>6 DEF Traced
    <3>2. m \in Nat
      BY <1>2 DEF Traced
    <3>3. \A k \in 0..(m + 1) - 1 : 0 \in 0..k
      BY <3>2
    <3>4. QED
      BY <3>1, <3>3 DEF Trails
  <2>8. /\ Cutting' /\ StateOK(packets2, split)'
        /\ FirstFrameKept(packets2, split)'
    BY <1>1, <2>1, <2>2
       DEF SplitInv, Cutting, LastData, StateOK, FirstFrameKept
  <2>9. FramesFrom(packets, whole, starts)'
    <3>1. PICK more : more = starts'
      OBVIOUS
    <3>2. /\ starts \subseteq more
          /\ whole.pc = "burst" /\ whole.pos = Len(packets) =>
                 whole.offset \in more
      BY <1>5, <2>5, <3>1 DEF InterpretWhole
    <3>3. FramesFrom(packets, whole, starts) /\ StateOK(packets, whole)
      BY <1>1, <1>2 DEF SplitInv, Traced
    <3>4. FramesFrom(packets, Step(packets, whole), more)
      BY <1>3, <2>1, <3>2, <3>3, StepKeepsFramesFrom
    <3>5. QED
      BY <2>1, <3>1, <3>4 DEF FramesFrom
  <2>10. QED
    BY <2>2, <2>3, <2>4, <2>6, <2>7, <2>8, <2>9 DEF SplitInv
<1>6. CASE InterpretSplit
  <2>1. /\ Runs(split) /\ split' = Step(packets2, split)
        /\ part' = part /\ packets' = packets /\ packets2' = packets2
        /\ cut' = cut /\ starts' = starts /\ whole' = whole /\ pc' = pc
        /\ UNCHANGED vars
    BY <1>3, <1>6, SplitSteps
  <2>2. TypeOK'
    BY <1>3, <2>1, NextTypeOK
  <2>3. Trails(h, m)'
    BY <1>2, <1>3, <1>6, SplitStepFollows
  <2>4. Traced(h, m)'
    BY <1>2, <2>1, SameStream DEF Traced, Runs
  <2>5. /\ Cutting' /\ FramesFrom(packets, whole, starts)'
    BY <1>1, <2>1 DEF SplitInv, Cutting, LastData, FramesFrom
  <2>6. StateOK(packets2, Step(packets2, split))
    BY <1>3, <2>1, StepOK
  <2>7. FirstFrameKept(packets2, Step(packets2, split))
    <3>1. /\ Len(packets2) > 0 /\ IsFDRI(packets2[Len(packets2)])
          /\ Len(packets2[Len(packets2)].data) > 0
      <4>1. /\ Len(packets) \in Nat /\ Len(packets2) = Len(packets) + 1
            /\ cut \in Nat /\ cut < Len(LastData) /\ Len(LastData) \in Nat
            /\ IsFDRI(packets2[Len(packets2)])
            /\ Len(packets2[Len(packets2)].data) = Len(LastData) - cut
        BY <1>3, CutPackets
      <4>2. QED
        BY <4>1
    <3>2. packets2[Len(packets2)].data # <<>>
      BY <3>1
    <3>3. FirstFrameKept(packets2, split)
      BY <1>1 DEF SplitInv
    <3>4. QED
      BY <1>3, <2>1, <3>1, <3>2, <3>3, StepKeepsFirstFrame
  <2>8. StateOK(packets2, split)' /\ FirstFrameKept(packets2, split)'
    BY <2>1, <2>6, <2>7 DEF StateOK, FirstFrameKept
  <2>9. pc = "accepted"
    BY <1>6 DEF InterpretSplit
  <2>10. QED
    BY <2>1, <2>2, <2>3, <2>4, <2>5, <2>8, <2>9 DEF SplitInv
<1>7. QED
  BY <1>1, <1>4, <1>5, <1>6 DEF InterpretBoth

\* At the end that tells the cuts apart.
LEMMA SplitInvTells == SplitInv => SplitWhereFramesStart
<1>1. SUFFICES ASSUME SplitInv, pc2 = "accepted"
               PROVE  /\ cut \in starts => frames = frames2
                      /\ CutIsUnmistakable /\ frames = frames2 => cut \in starts
  BY DEF SplitWhereFramesStart
<1>2. /\ split.pc = "accepted" /\ split.frames = frames2
      /\ whole.frames = frames
  BY <1>1 DEF split, whole, State
<1>3. ASSUME cut \in starts PROVE frames = frames2
  <2>1. PICK h, m : Traced(h, m) /\ Trails(h, m)
    BY <1>1 DEF SplitInv
  <2>2. PICK k \in 0..m - 1 : InLast(h[k]) /\ h[k].offset = cut
    BY <1>3, <2>1 DEF Traced
  <2>3. m \in Nat /\ \A i \in 0..m - 1 : h[i].pc # "accepted"
    BY <2>1 DEF Traced, Runs
  <2>4. ~\E n \in 0..k : split = h[n]
    BY <1>2, <2>2, <2>3
  <2>5. split # WithPc(h[k], "fetch")
    BY <1>2 DEF WithPc, State
  <2>6. PICK n \in k..m : split = Shifted(h[n])
    BY <2>1, <2>2, <2>4, <2>5 DEF Trails, AtCut
  <2>7. h[n].pc = "accepted" /\ h[n].frames = frames2
    BY <1>2, <2>6 DEF Shifted, State
  <2>8. n = m
    BY <2>2, <2>3, <2>6, <2>7
  <2>9. QED
    BY <1>2, <2>1, <2>7, <2>8 DEF Traced
<1>4. ASSUME CutIsUnmistakable, frames = frames2 PROVE cut \in starts
  <2>1. Cutting
    BY <1>1 DEF SplitInv
  <2> DEFINE back == SubSeq(LastData, cut + 1, Len(LastData))
  <2>2. /\ Len(packets2) = Len(packets) + 1 /\ Len(packets) \in Nat \ {0}
        /\ packets2[Len(packets2)].data = back
        /\ back \in Seq(Nat) /\ Len(back) = Len(LastData) - cut
        /\ cut \in Nat /\ Len(LastData) \in Nat /\ cut < Len(LastData)
        /\ LastData \in Seq(Nat)
    BY <2>1, CutPackets
  <2>3. back[1] = WordAtCut
    BY <2>2 DEF WordAtCut
  <2> HIDE DEF back
  <2>4. split.pos = Len(packets2)
    BY <1>1, <1>2 DEF SplitInv, StateOK
  <2>5. PICK c \in DOMAIN frames2 : frames2[c] = Frame(back, 0)
    BY <1>1, <1>2, <2>2, <2>4 DEF SplitInv, FirstFrameKept
  <2>6. frames2[c][1] = WordAtCut
    <3>1. 0 < Len(back) /\ 0 + 1 = 1
      BY <2>2
    <3>2. Frame(back, 0)[1] = back[0 + 1]
      BY <2>2, <3>1, FrameBegins
    <3>3. QED
      BY <2>3, <2>5, <3>1, <3>2
  <2>7. PICK i \in 1..whole.pos, o \in Nat :
            /\ IsFDRI(packets[i]) /\ o < Len(packets[i].data)
            /\ frames[c] = Frame(packets[i].data, o)
            /\ i = Len(packets) => o \in starts
    BY <1>1, <1>2, <1>4, <2>5 DEF SplitInv, FramesFrom
  <2>8. i \in 1..Len(packets) /\ packets[i].data \in Seq(Nat)
    <3>1. whole.pos \in 0..Len(packets)
      BY <1>1 DEF SplitInv, TypeOK, whole, State
    <3>2. i \in 1..Len(packets)
      BY <2>2, <3>1
    <3>3. packets[i] \in Packet
      BY <2>1, <3>2 DEF Cutting
    <3>4. QED
      BY <3>2, <3>3 DEF Packet
  <2>9. packets[i].data[o + 1] = WordAtCut
    BY <1>4, <2>6, <2>7, <2>8, FrameBegins
  <2>10. o + 1 \in 1..Len(packets[i].data)
    BY <2>7, <2>8
  <2>11. i = Len(packets) /\ o + 1 = cut + 1
    BY <1>4, <2>7, <2>8, <2>9, <2>10
       DEF CutIsUnmistakable, WritesFrames, IsFDRI
  <2>12. QED
    BY <2>2, <2>7, <2>11
<1>5. QED
  BY <1>3, <1>4

\* Whatever the part, the packets before the data, the data and the cut: two
\* packets configure what one does if the cut is where the whole packet has a
\* frame start, and only then if the word behind the cut is unmistakable.
THEOREM SplitsWhereFramesStart == BothSpec => []SplitWhereFramesStart
<1>1. QED
  BY InitSplitInv, NextSplitInv, SplitInvTells, PTL DEF BothSpec

=============================================================================

---------------------------- MODULE CodecProofs ----------------------------
(***************************************************************************)
(* decode_udp_payload gives back every payload that encode_udp_payload     *)
(* wrote: any uid, ids, text and clock, and any number of processes.       *)
(***************************************************************************)
EXTENDS Codec, SequenceTheorems, TLAPS

Byte == 0..255

\* The numbers below 2^32, said without the number.
UInt32 == {n \in Nat : ((n \div 256) \div 256) \div 256 <= 255}

Payload(vc_size) ==
  [packet_uid : UInt32, sender_id : UInt32, owner_id : UInt32, is_ack : BOOLEAN,
   buffer : Seq(Byte), vector_clock : [0..(vc_size - 1) -> UInt32]]

----------------------------------------------------------------------------
(* Numbers. *)

\* A number is split into four bytes.
LEMMA BytesType ==
  ASSUME NEW n \in UInt32
  PROVE  /\ Bytes(n) \in Seq(Byte)
         /\ Len(Bytes(n)) = 4
         /\ \A i \in 1..4 : Bytes(n)[i] \in Byte
<1> DEFINE a == n \div 256
           b == a \div 256
           c == b \div 256
<1>0. \A m \in Nat : m \div 256 \in Nat
  BY SMT
<1>1. n \in Nat /\ a \in Nat /\ b \in Nat /\ c \in Nat
  BY <1>0, SMT DEF UInt32
<1>2. \A m \in Nat : m % 256 \in Byte
  BY SMT DEF Byte
<1>3. n % 256 \in Byte /\ a % 256 \in Byte /\ b % 256 \in Byte /\ c % 256 \in Byte
  BY <1>1, <1>2
<1> HIDE DEF a, b, c
<1>4. <<n % 256, a % 256, b % 256, c % 256>> \in Seq(Byte)
  BY <1>3, SMT
<1>5. Bytes(n) = <<n % 256, a % 256, b % 256, c % 256>>
  BY SMT DEF Bytes, a, b, c
<1> QED
  BY <1>3, <1>4, <1>5, SMT

\* Four bytes give the number back.
LEMMA ValueOfBytes ==
  ASSUME NEW n \in UInt32
  PROVE  Value(Bytes(n)) = n
<1> DEFINE a == n \div 256
           b == a \div 256
           c == b \div 256
<1>0. \A m \in Nat : m \div 256 \in Nat
  BY SMT
<1>1. n \in Nat /\ a \in Nat /\ b \in Nat /\ c \in 0..255
  BY <1>0, SMT DEF UInt32
<1>2. \A m \in Nat : m = (256 * (m \div 256)) + (m % 256)
  BY SMT
<1>3. n = (256 * a) + (n % 256) /\ a = (256 * b) + (a % 256) /\ b = (256 * c) + (b % 256)
  BY <1>1, <1>2, SMT
<1>4. c % 256 = c
  BY <1>1, SMT
<1>5. Value(Bytes(n)) = (n % 256) + 256 * ((a % 256) + 256 * ((b % 256) + 256 * (c % 256)))
  BY SMT DEF Value, Bytes
<1> HIDE DEF a, b, c
<1>6. n % 256 \in Int /\ a % 256 \in Int /\ b % 256 \in Int
  BY <1>1, SMT
<1> QED
  BY <1>1, <1>3, <1>4, <1>5, <1>6, SMT

\* Reading four bytes of a datagram that are those of n.
LEMMA ReadValue ==
  ASSUME NEW n \in UInt32, NEW d \in Seq(Byte), NEW offset \in Nat,
         offset + 4 <= Len(d),
         \A i \in 1..4 : d[offset + i] = Bytes(n)[i]
  PROVE  Value(Read(d, offset, 4)) = n
<1>1. \A i \in 1..4 : Read(d, offset, 4)[i] = d[offset + i]
  <2>1. \A i \in (offset + 1)..(offset + 4) : d[i] \in Byte
    OBVIOUS
  <2>2. \A i \in 1..((offset + 4) - (offset + 1) + 1) :
          SubSeq(d, offset + 1, offset + 4)[i] = d[offset + 1 + i - 1]
    BY <2>1, SubSeqProperties
  <2> QED
    BY <2>2 DEF Read
<1>2. Value(Read(d, offset, 4)) = Value(Bytes(n))
  BY <1>1 DEF Value
<1> QED
  BY <1>2, ValueOfBytes
----------------------------------------------------------------------------
(* Clocks and buffers. *)

\* Byte i of entry j of a clock.
LEMMA ClockEntry ==
  ASSUME NEW vc_size \in Nat, NEW c \in [0..(vc_size - 1) -> UInt32]
  PROVE  /\ ClockBytes(c, vc_size) \in Seq(Byte)
         /\ Len(ClockBytes(c, vc_size)) = 4 * vc_size
         /\ \A j \in 0..(vc_size - 1), i \in 1..4 :
              ClockBytes(c, vc_size)[4 * j + i] = Bytes(c[j])[i]
<1> DEFINE f(i) == Bytes(c[(i - 1) \div 4])[((i - 1) % 4) + 1]
<1>1. \A i \in 1..(4 * vc_size) :
        (i - 1) \div 4 \in 0..(vc_size - 1) /\ ((i - 1) % 4) + 1 \in 1..4
  BY SMT
<1>2. \A i \in 1..(4 * vc_size) : f(i) \in Byte
  BY <1>1, BytesType
<1>3. \A j \in 0..(vc_size - 1), i \in 1..4 :
        /\ 4 * j + i \in 1..(4 * vc_size)
        /\ ((4 * j + i) - 1) \div 4 = j
        /\ (((4 * j + i) - 1) % 4) + 1 = i
  BY SMT
<1>4. ClockBytes(c, vc_size) = [i \in 1..(4 * vc_size) |-> f(i)]
  BY DEF ClockBytes
<1>5. \A j \in 0..(vc_size - 1), i \in 1..4 : f(4 * j + i) = Bytes(c[j])[i]
  BY <1>3
<1> HIDE DEF f
<1>6. 4 * vc_size \in Nat
  BY SMT
<1> QED
  BY <1>2, <1>3, <1>4, <1>5, <1>6

\* n bytes read from an offset.
LEMMA ReadBytes ==
  ASSUME NEW d \in Seq(Byte), NEW offset \in Nat, NEW n \in Nat,
         offset + n <= Len(d)
  PROVE  /\ Read(d, offset, n) \in Seq(Byte)
         /\ Len(Read(d, offset, n)) = n
         /\ \A i \in 1..n : Read(d, offset, n)[i] = d[offset + i]
<1>1. \A i \in (offset + 1)..(offset + n) : d[i] \in Byte
  OBVIOUS
<1>2. /\ SubSeq(d, offset + 1, offset + n) \in Seq(Byte)
      /\ Len(SubSeq(d, offset + 1, offset + n))
           = IF offset + 1 <= offset + n THEN (offset + n) - (offset + 1) + 1 ELSE 0
      /\ \A i \in 1..((offset + n) - (offset + 1) + 1) :
           SubSeq(d, offset + 1, offset + n)[i] = d[offset + 1 + i - 1]
  BY <1>1, SubSeqProperties
<1> QED
  BY <1>2 DEF Read

----------------------------------------------------------------------------
(* The layout of a datagram. *)

\* The parts of a concatenation, found again.
LEMMA Concat ==
  ASSUME NEW s \in Seq(Byte), NEW t \in Seq(Byte), NEW m \in Nat, m = Len(s)
  PROVE  /\ s \o t \in Seq(Byte)
         /\ Len(s \o t) = m + Len(t)
         /\ \A i \in 1..m : (s \o t)[i] = s[i]
         /\ \A i \in 1..Len(t) : (s \o t)[m + i] = t[i]
  OBVIOUS

\* Where each field begins.
LEMMA Layout ==
  ASSUME NEW vc_size \in Nat, NEW p \in Payload(vc_size)
  PROVE  LET d == encode_udp_payload(p, vc_size)
             n == Len(p.buffer)
         IN  /\ d \in Seq(Byte)
             /\ Len(d) = 13 + n + 4 * vc_size
             /\ \A i \in 1..4 : /\ d[i] = Bytes(p.packet_uid)[i]
                               /\ d[4 + i] = Bytes(p.sender_id)[i]
                               /\ d[8 + i] = Bytes(p.owner_id)[i]
             /\ d[13] = IF p.is_ack THEN 1 ELSE 0
             /\ \A i \in 1..n : d[13 + i] = p.buffer[i]
             /\ \A i \in 1..(4 * vc_size) :
                  d[13 + n + i] = ClockBytes(p.vector_clock, vc_size)[i]
<1> DEFINE b1 == Bytes(p.packet_uid)
           b2 == Bytes(p.sender_id)
           b3 == Bytes(p.owner_id)
           b4 == <<IF p.is_ack THEN 1 ELSE 0>>
           b5 == p.buffer
           b6 == ClockBytes(p.vector_clock, vc_size)
           s2 == b1 \o b2
           s3 == s2 \o b3
           s4 == s3 \o b4
           s5 == s4 \o b5
           s6 == s5 \o b6
<1>1. /\ b1 \in Seq(Byte) /\ Len(b1) = 4
      /\ b2 \in Seq(Byte) /\ Len(b2) = 4
      /\ b3 \in Seq(Byte) /\ Len(b3) = 4
  BY BytesType DEF Payload
<1>2. b4 \in Seq(Byte) /\ Len(b4) = 1 /\ b4[1] = IF p.is_ack THEN 1 ELSE 0
  BY SMT DEF Byte
<1>3. b5 \in Seq(Byte) /\ Len(b5) \in Nat
  BY DEF Payload
<1>4. b6 \in Seq(Byte) /\ Len(b6) = 4 * vc_size
  BY ClockEntry DEF Payload
<1>5. encode_udp_payload(p, vc_size) = s6
  BY DEF encode_udp_payload
<1> HIDE DEF b1, b2, b3, b4, b5, b6, s2, s3, s4, s5, s6
<1>6. /\ s2 \in Seq(Byte) /\ Len(s2) = 8
      /\ \A i \in 1..4 : s2[i] = b1[i] /\ s2[4 + i] = b2[i]
  <2>1. /\ s2 \in Seq(Byte)
        /\ Len(s2) = 4 + Len(b2)
        /\ \A i \in 1..4 : s2[i] = b1[i]
        /\ \A i \in 1..Len(b2) : s2[4 + i] = b2[i]
    <3> 4 \in Nat
      BY <1>1
    <3> QED
      BY <1>1, Concat DEF s2
  <2> QED
    BY <1>1, <2>1
<1>7. /\ s3 \in Seq(Byte) /\ Len(s3) = 12
      /\ \A i \in 1..8 : s3[i] = s2[i]
      /\ \A i \in 1..4 : s3[8 + i] = b3[i]
  <2>1. /\ s3 \in Seq(Byte)
        /\ Len(s3) = 8 + Len(b3)
        /\ \A i \in 1..8 : s3[i] = s2[i]
        /\ \A i \in 1..Len(b3) : s3[8 + i] = b3[i]
    <3> 8 \in Nat
      BY <1>1, <1>6
    <3> QED
      BY <1>1, <1>6, Concat DEF s3
  <2> QED
    BY <1>1, <1>6, <2>1
<1>8. /\ s4 \in Seq(Byte) /\ Len(s4) = 13
      /\ \A i \in 1..12 : s4[i] = s3[i]
      /\ s4[13] = b4[1]
  <2>1. /\ s4 \in Seq(Byte)
        /\ Len(s4) = 12 + Len(b4)
        /\ \A i \in 1..12 : s4[i] = s3[i]
        /\ \A i \in 1..Len(b4) : s4[12 + i] = b4[i]
    <3> 12 \in Nat
      BY <1>2, <1>7
    <3> QED
      BY <1>2, <1>7, Concat DEF s4
  <2> QED
    BY <1>2, <1>7, <2>1
<1>9. /\ s5 \in Seq(Byte) /\ Len(s5) = 13 + Len(b5)
      /\ \A i \in 1..13 : s5[i] = s4[i]
      /\ \A i \in 1..Len(b5) : s5[13 + i] = b5[i]
  <2>1. /\ s5 \in Seq(Byte)
        /\ Len(s5) = 13 + Len(b5)
        /\ \A i \in 1..13 : s5[i] = s4[i]
        /\ \A i \in 1..Len(b5) : s5[13 + i] = b5[i]
    <3> 13 \in Nat
      BY <1>3, <1>8
    <3> QED
      BY <1>3, <1>8, Concat DEF s5
  <2> QED
    BY <1>3, <1>8, <2>1
<1>10. /\ s6 \in Seq(Byte) /\ Len(s6) = 13 + Len(b5) + 4 * vc_size
       /\ \A i \in 1..(13 + Len(b5)) : s6[i] = s5[i]
       /\ \A i \in 1..(4 * vc_size) : s6[13 + Len(b5) + i] = b6[i]
  <2>1. /\ s6 \in Seq(Byte)
        /\ Len(s6) = 13 + Len(b5) + Len(b6)
        /\ \A i \in 1..(13 + Len(b5)) : s6[i] = s5[i]
        /\ \A i \in 1..Len(b6) : s6[13 + Len(b5) + i] = b6[i]
    <3> 13 + Len(b5) \in Nat
      BY <1>3, <1>4, <1>9
    <3> QED
      BY <1>3, <1>4, <1>9, Concat DEF s6
  <2> QED
    BY <1>3, <1>4, <1>9, <2>1
<1>11. \A i \in 1..4 : /\ s6[i] = b1[i]
                       /\ s6[4 + i] = b2[i]
                       /\ s6[8 + i] = b3[i]
  <2> SUFFICES ASSUME NEW i \in 1..4
               PROVE  s6[i] = b1[i] /\ s6[4 + i] = b2[i] /\ s6[8 + i] = b3[i]
    OBVIOUS
  <2>1. \A j \in 1..12 : s6[j] = s3[j]
    <3> SUFFICES ASSUME NEW j \in 1..12
                 PROVE  s6[j] = s3[j]
      OBVIOUS
    <3>1. j \in 1..(13 + Len(b5)) /\ j \in 1..13
      BY <1>3
    <3>2. s6[j] = s5[j]
      BY <1>10, <3>1, Zenon
    <3>3. s5[j] = s4[j]
      BY <1>9, <3>1, Zenon
    <3>4. s4[j] = s3[j]
      BY <1>8, Zenon
    <3> QED
      BY <3>2, <3>3, <3>4
  <2>2. \A j \in 1..8 : s6[j] = s2[j]
    BY <1>7, <2>1
  <2> QED
    BY <1>6, <1>7, <2>1, <2>2
<1>12. s6[13] = b4[1] /\ \A i \in 1..Len(b5) : s6[13 + i] = b5[i]
  <2>1. s6[13] = b4[1]
    <3>1. 13 \in 1..(13 + Len(b5)) /\ 13 \in 1..13
      BY <1>3
    <3>2. s6[13] = s5[13] /\ s5[13] = s4[13]
      BY <1>9, <1>10, <3>1, Zenon
    <3> QED
      BY <1>8, <3>2
  <2>2. ASSUME NEW i \in 1..Len(b5)
        PROVE  s6[13 + i] = b5[i]
    <3>1. 13 + i \in 1..(13 + Len(b5))
      BY <1>3
    <3>2. s6[13 + i] = s5[13 + i] /\ s5[13 + i] = b5[i]
      BY <1>9, <1>10, <3>1, Zenon
    <3> QED
      BY <3>2
  <2> QED
    BY <2>1, <2>2
<1> QED
  BY <1>2, <1>5, <1>10, <1>11, <1>12 DEF b1, b2, b3, b4, b5, b6

----------------------------------------------------------------------------
\* What decode_udp_payload reads from a datagram is the payload that
\* encode_udp_payload wrote into it: no field overlaps another, and the text
\* is as long as it was, although its length is not in the datagram.
THEOREM DecodeEncode ==
  ASSUME NEW vc_size \in Nat, NEW p \in Payload(vc_size)
  PROVE  decode_udp_payload(encode_udp_payload(p, vc_size), vc_size) = p
<1> DEFINE d == encode_udp_payload(p, vc_size)
           n == Len(p.buffer)
           q == decode_udp_payload(d, vc_size)
<1>1. /\ d \in Seq(Byte)
      /\ Len(d) = 13 + n + 4 * vc_size
      /\ \A i \in 1..4 : /\ d[i] = Bytes(p.packet_uid)[i]
                        /\ d[4 + i] = Bytes(p.sender_id)[i]
                        /\ d[8 + i] = Bytes(p.owner_id)[i]
      /\ d[13] = IF p.is_ack THEN 1 ELSE 0
      /\ \A i \in 1..n : d[13 + i] = p.buffer[i]
      /\ \A i \in 1..(4 * vc_size) :
           d[13 + n + i] = ClockBytes(p.vector_clock, vc_size)[i]
  BY Layout
<1>2. /\ p.packet_uid \in UInt32 /\ p.sender_id \in UInt32 /\ p.owner_id \in UInt32
      /\ p.is_ack \in BOOLEAN /\ p.buffer \in Seq(Byte) /\ n \in Nat
      /\ p.vector_clock \in [0..(vc_size - 1) -> UInt32]
  BY DEF Payload
<1> HIDE DEF d, n
<1>3. Len(d) - PAYLOAD_META_SIZE - vc_size * 4 = n
  BY <1>1, <1>2, SMT DEF PAYLOAD_META_SIZE
<1>4. Value(Read(d, 0, 4)) = p.packet_uid
  <2>1. 0 + 4 <= Len(d) /\ \A i \in 1..4 : d[0 + i] = Bytes(p.packet_uid)[i]
    BY <1>1, <1>2
  <2> QED
    BY <1>1, <1>2, <2>1, ReadValue
<1>5. Value(Read(d, 4, 4)) = p.sender_id
  <2>1. 4 + 4 <= Len(d) /\ \A i \in 1..4 : d[4 + i] = Bytes(p.sender_id)[i]
    BY <1>1, <1>2
  <2> QED
    BY <1>1, <1>2, <2>1, ReadValue
<1>6. Value(Read(d, 8, 4)) = p.owner_id
  <2>1. 8 + 4 <= Len(d) /\ \A i \in 1..4 : d[8 + i] = Bytes(p.owner_id)[i]
    BY <1>1, <1>2
  <2> QED
    BY <1>1, <1>2, <2>1, ReadValue
<1>7. (d[13] # 0) = p.is_ack
  BY <1>1, <1>2
<1>8. Read(d, 13, n) = p.buffer
  <2>1. 13 + n <= Len(d)
    BY <1>1, <1>2
  <2>2. /\ Read(d, 13, n) \in Seq(Byte)
        /\ Len(Read(d, 13, n)) = n
        /\ \A i \in 1..n : Read(d, 13, n)[i] = d[13 + i]
    <3> HIDE DEF q
    <3> d \in Seq(Byte) /\ n \in Nat /\ 13 \in Nat
      BY <1>1, <1>2
    <3> QED
      BY <2>1, ReadBytes
  <2>3. Len(p.buffer) = n /\ \A i \in 1..n : Read(d, 13, n)[i] = p.buffer[i]
    BY <1>1, <2>2 DEF n
  <2> QED
    BY <1>2, <2>2, <2>3
<1>9. [j \in 0..(vc_size - 1) |-> Value(Read(d, 13 + n + 4 * j, 4))] = p.vector_clock
  <2>1. ASSUME NEW j \in 0..(vc_size - 1)
        PROVE  Value(Read(d, 13 + n + 4 * j, 4)) = p.vector_clock[j]
    <3>1. p.vector_clock[j] \in UInt32 /\ 13 + n + 4 * j \in Nat
      BY <1>2
    <3>2. 13 + n + 4 * j + 4 <= Len(d)
      BY <1>1, <1>2
    <3>3. \A i \in 1..4 : 4 * j + i \in 1..(4 * vc_size)
      BY SMT
    <3>4. \A i \in 1..4 : d[13 + n + (4 * j + i)] = Bytes(p.vector_clock[j])[i]
      BY <1>1, <1>2, <3>3, ClockEntry
    <3>5. \A i \in 1..4 : 13 + n + (4 * j + i) = 13 + n + 4 * j + i
      BY <1>2
    <3>6. \A i \in 1..4 : d[13 + n + 4 * j + i] = Bytes(p.vector_clock[j])[i]
      BY <3>4, <3>5
    <3> QED
      BY <1>1, <3>1, <3>2, <3>6, ReadValue
  <2> QED
    BY <1>2, <2>1
<1>10. q = [packet_uid |-> p.packet_uid, sender_id |-> p.sender_id,
            owner_id |-> p.owner_id, is_ack |-> p.is_ack, buffer |-> p.buffer,
            vector_clock |-> p.vector_clock]
  BY <1>3, <1>4, <1>5, <1>6, <1>7, <1>8, <1>9 DEF decode_udp_payload
<1>11. p = [packet_uid |-> p.packet_uid, sender_id |-> p.sender_id,
            owner_id |-> p.owner_id, is_ack |-> p.is_ack, buffer |-> p.buffer,
            vector_clock |-> p.vector_clock]
  BY DEF Payload
<1> QED
  BY <1>10, <1>11 DEF d
=============================================================================

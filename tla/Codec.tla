------------------------------- MODULE Codec -------------------------------
(***************************************************************************)
(* Payloads and datagrams (messages.cpp): what encode_udp_payload writes   *)
(* and decode_udp_payload reads, byte by byte. Numbers are uint32_t on a   *)
(* little-endian machine; a clock has vc_size entries, numbered from 0; a  *)
(* buffer is a sequence of characters.                                     *)
(***************************************************************************)
EXTENDS Integers, Sequences

PAYLOAD_META_SIZE == 13

\* A number in memory, and read back.
Bytes(n) ==
  LET a == n \div 256
      b == a \div 256
      c == b \div 256
  IN  <<n % 256, a % 256, b % 256, c % 256>>
Value(b) == b[1] + 256 * (b[2] + 256 * (b[3] + 256 * b[4]))

\* The entries of a clock, one after the other.
ClockBytes(c, vc_size) ==
  [i \in 1..(4 * vc_size) |-> Bytes(c[(i - 1) \div 4])[((i - 1) % 4) + 1]]

\* n bytes of a datagram, from an offset.
Read(datagram, offset, n) == SubSeq(datagram, offset + 1, offset + n)

encode_udp_payload(p, vc_size) ==
  Bytes(p.packet_uid) \o Bytes(p.sender_id) \o Bytes(p.owner_id)
    \o <<IF p.is_ack THEN 1 ELSE 0>>
    \o p.buffer
    \o ClockBytes(p.vector_clock, vc_size)

\* The size of the buffer is what the length of the datagram leaves for it.
decode_udp_payload(datagram, vc_size) ==
  LET buff_size == Len(datagram) - PAYLOAD_META_SIZE - vc_size * 4
  IN  [packet_uid |-> Value(Read(datagram, 0, 4)),
       sender_id  |-> Value(Read(datagram, 4, 4)),
       owner_id   |-> Value(Read(datagram, 8, 4)),
       is_ack     |-> datagram[13] # 0,
       buffer     |-> Read(datagram, 13, buff_size),
       vector_clock |->
         [j \in 0..(vc_size - 1) |->
            Value(Read(datagram, 13 + buff_size + 4 * j, 4))]]
=============================================================================

------------------------------ MODULE Datagram ------------------------------
(***************************************************************************)
(* The TCP segment and the IPv4 datagram of src/util as they are on the    *)
(* wire: tcp_segment.cc, ipv4_header.cc, ipv4_datagram.hh and the Internet *)
(* checksum.  An optional value is a sequence of length 0 or 1; a parser   *)
(* that fails yields none.                                                 *)
(***************************************************************************)
EXTENDS Parser

NoAckno == -1              \* the empty optional< Wrap32 >

Bit(flag, b) == IF flag THEN b ELSE 0
HasBit(x, b) == (x \div b) % 2 = 1
-----------------------------------------------------------------------------
(* InternetChecksum: the sum of 16-bit words, the carries added back.      *)

WordSum(start, bytes) ==
  LET sum[i \in 0 .. Len(bytes)] ==
        IF i = 0 THEN start ELSE sum[i - 1] + bytes[i] * (IF i % 2 = 1 THEN 256 ELSE 1)
  IN  sum[Len(bytes)]

RECURSIVE FoldCarries(_)
FoldCarries(sum) ==
  IF sum > 65535 THEN FoldCarries((sum \div 65536) + (sum % 65536)) ELSE sum

\* An odd string goes on in the middle of a word, wherever the buffers are split.
Checksum(start, buffers) == 65535 - FoldCarries(WordSum(start, FlattenSeq(buffers)))
-----------------------------------------------------------------------------
(* TCPSegment: a TCPMessage and the ports and the checksum around it.      *)

TCPLayout == << <<"src_port", 2>>, <<"dst_port", 2>>, <<"seqno", 4>>, <<"ackno", 4>>,
                <<"data_offset", 1>>, <<"flags", 1>>, <<"window_size", 2>>,
                <<"cksum", 2>>, <<"urgent", 2>> >>

TCPHeaderMinLen == 5       \* 32-bit words

TCPFlags(message) ==
  Bit(message.receiver.ackno # NoAckno, 16) + Bit(message.sender.RST \/ message.receiver.RST, 4)
    + Bit(message.sender.SYN, 2) + Bit(message.sender.FIN, 1)

SerializeSegment(seg) ==
  Output([ src_port |-> seg.udinfo.src_port, dst_port |-> seg.udinfo.dst_port,
           seqno |-> seg.message.sender.seqno,
           ackno |-> IF seg.message.receiver.ackno = NoAckno
                     THEN 0 ELSE seg.message.receiver.ackno,
           data_offset |-> 16 * TCPHeaderMinLen, flags |-> TCPFlags(seg.message),
           window_size |-> seg.message.receiver.window_size,
           cksum |-> seg.udinfo.cksum, urgent |-> 0 ],
         TCPLayout, <<seg.message.sender.payload>>)

ComputeSegmentChecksum(seg, pseudo) ==
  [seg EXCEPT !.udinfo.cksum =
     Checksum(pseudo, SerializeSegment([seg EXCEPT !.udinfo.cksum = 0]))]

\* Faulty: the two numbers change places.
SegmentOfSwapped(h, payload) ==
  [ udinfo  |-> [src_port |-> h.src_port, dst_port |-> h.dst_port, cksum |-> h.cksum],
    message |->
      [ sender   |-> [ seqno |-> h.ackno, SYN |-> HasBit(h.flags, 2), payload |-> payload,
                       FIN |-> HasBit(h.flags, 1), RST |-> HasBit(h.flags, 4) ],
        receiver |-> [ ackno |-> IF HasBit(h.flags, 16) THEN h.seqno ELSE NoAckno,
                       window_size |-> h.window_size, RST |-> HasBit(h.flags, 4) ] ] ]

\* The segment of a header and of what comes behind it.  One bit resets both directions.
SegmentOf(h, payload) ==
  [ udinfo  |-> [src_port |-> h.src_port, dst_port |-> h.dst_port, cksum |-> h.cksum],
    message |->
      [ sender   |-> [ seqno |-> h.seqno, SYN |-> HasBit(h.flags, 2), payload |-> payload,
                       FIN |-> HasBit(h.flags, 1), RST |-> HasBit(h.flags, 4) ],
        receiver |-> [ ackno |-> IF HasBit(h.flags, 16) THEN h.ackno ELSE NoAckno,
                       window_size |-> h.window_size, RST |-> HasBit(h.flags, 4) ] ] ]

\* The rest of parse() after the checksum.  With an offset below 5 the length to skip wraps:
\* all that is left goes.
ParseSegmentFields(buffers) ==
  LET got    == ReadHeader(NewParser(buffers), TCPLayout)
      offset == got.header.data_offset \div 16
      behind == IF offset < TCPHeaderMinLen
                THEN SkipBytes(SetError(got.p), got.p.input.size)
                ELSE SkipBytes(got.p, 4 * offset - 4 * TCPHeaderMinLen)
  IN  IF behind.error THEN <<>>
      ELSE <<SegmentOf(got.header, FlattenSeq(Buffers(behind.input)))>>

\* Faulty: the checksum is not looked at.
ParseSegmentUnchecked(buffers, pseudo) == ParseSegmentFields(buffers)

ParseSegment(buffers, pseudo) ==
  IF Checksum(pseudo, buffers) # 0 THEN <<>> ELSE ParseSegmentFields(buffers)
-----------------------------------------------------------------------------
(* IPv4Header and IPv4Datagram.                                            *)

IPv4Layout == << <<"first_byte", 1>>, <<"tos", 1>>, <<"len", 2>>, <<"id", 2>>,
                 <<"fo_val", 2>>, <<"ttl", 1>>, <<"proto", 1>>, <<"cksum", 2>>,
                 <<"src", 4>>, <<"dst", 4>> >>

IPv4Length == 20
ProtoTCP   == 6

DefaultHeader ==
  [ ver |-> 4, hlen |-> IPv4Length \div 4, tos |-> 0, len |-> 0, id |-> 0, df |-> TRUE,
    mf |-> FALSE, offset |-> 0, ttl |-> 128, proto |-> ProtoTCP, cksum |-> 0,
    src |-> 0, dst |-> 0 ]

IPv4Fields(h) ==
  [ first_byte |-> 16 * h.ver + h.hlen, tos |-> h.tos, len |-> h.len, id |-> h.id,
    fo_val |-> Bit(h.df, 16384) + Bit(h.mf, 8192) + h.offset, ttl |-> h.ttl,
    proto |-> h.proto, cksum |-> h.cksum, src |-> h.src, dst |-> h.dst ]

HeaderOf(f) ==
  [ ver |-> f.first_byte \div 16, hlen |-> f.first_byte % 16, tos |-> f.tos, len |-> f.len,
    id |-> f.id, df |-> HasBit(f.fo_val, 16384), mf |-> HasBit(f.fo_val, 8192),
    offset |-> f.fo_val % 8192, ttl |-> f.ttl, proto |-> f.proto, cksum |-> f.cksum,
    src |-> f.src, dst |-> f.dst ]

PayloadLength(h) == (h.len - 4 * h.hlen) % 65536

PseudoChecksum(h) ==
  LET halves(address) == (address \div 65536) + (address % 65536)
  IN  halves(h.src) + halves(h.dst) + h.proto + PayloadLength(h)

\* Over the 20 bytes of the header without options.
ComputeHeaderChecksum(h) ==
  [h EXCEPT !.cksum = Checksum(0, Output(IPv4Fields([h EXCEPT !.cksum = 0]), IPv4Layout, <<>>))]

SerializeDatagram(d) == Output(IPv4Fields(d.header), IPv4Layout, d.payload)

\* A header is refused for its version, its length, its checksum or for missing bytes; its
\* options are skipped, and left out of the checksum.
ParseDatagram(buffers) ==
  LET got    == ReadHeader(NewParser(buffers), IPv4Layout)
      header == HeaderOf(got.header)
  IN  IF got.p.error \/ header.ver # 4 \/ header.hlen < 5
         \/ ComputeHeaderChecksum(header).cksum # header.cksum
      THEN <<>>
      ELSE << [ header  |-> header,
                payload |-> Buffers(SkipBytes(got.p, 4 * header.hlen - IPv4Length).input) ] >>
=============================================================================

---------------------------- MODULE TCPOverIPv4 ----------------------------
(***************************************************************************)
(* The datagram adapter of a connection: the filter of tcp_over_ip.cc over *)
(* the flags of FdAdapterBase, its TUN device and the LossyFdAdapter that  *)
(* may be around it.  A socket address is [addr, port].                    *)
(***************************************************************************)
EXTENDS Datagram

\* An adapter with its FdAdapterConfig and its _listen flag.
Connecting(source, destination) ==
  [ source |-> source, destination |-> destination, listening |-> FALSE ]

Listening(port) ==
  [ source |-> [addr |-> 0, port |-> port], destination |-> [addr |-> 0, port |-> 0],
    listening |-> TRUE ]
-----------------------------------------------------------------------------
(* The filter.                                                             *)

\* Faulty: the source address is not looked at; the own address is not taken over.
ForUsAnySource(a, header) == a.listening \/ header.dst = a.source.addr
LockOnPeerOnly(a, header, seg) ==
  [ a EXCEPT !.destination = [addr |-> header.src, port |-> seg.udinfo.src_port],
             !.listening = FALSE ]

\* The first checks of unwrap_tcp_in_ip(), on the header of the datagram.
ForUs(a, header) ==
  a.listening \/ (header.dst = a.source.addr /\ header.src = a.destination.addr)

\* A listening adapter takes the addresses of the first SYN that is no RST for its own.
LockOn(a, header, seg) ==
  [ source      |-> [addr |-> header.dst, port |-> a.source.port],
    destination |-> [addr |-> header.src, port |-> seg.udinfo.src_port],
    listening   |-> FALSE ]

\* The last check, on the port the segment comes from.
FromPort(a, seg) == seg.udinfo.src_port = a.destination.port

Opens(seg) == seg.message.sender.SYN /\ ~seg.message.sender.RST

\* unwrap_tcp_in_ip(): the adapter afterwards, and the message unless it is filtered out.
UnwrapTCPInIP(a, dgram) ==
  LET header == dgram.header
      refuse == [adapter |-> a, msg |-> <<>>]
      take(b, seg) ==
        [adapter |-> b, msg |-> IF FromPort(b, seg) THEN <<seg.message>> ELSE <<>>]
      checked(parsed) ==
        IF parsed = <<>> \/ Head(parsed).udinfo.dst_port # a.source.port THEN refuse
        ELSE CASE ~a.listening -> take(a, Head(parsed))
               [] a.listening /\ Opens(Head(parsed)) ->
                    take(LockOn(a, header, Head(parsed)), Head(parsed))
               [] OTHER -> refuse
  IN  IF ~ForUs(a, header) \/ header.proto # ProtoTCP THEN refuse
      ELSE checked(ParseSegment(dgram.payload, PseudoChecksum(header)))

\* wrap_tcp_in_ip()
WrapTCPInIP(a, message) ==
  LET header == [DefaultHeader EXCEPT
                   !.src = a.source.addr, !.dst = a.destination.addr,
                   !.len = (4 * DefaultHeader.hlen + 20 + Len(message.sender.payload)) % 65536]
      seg == [ message |-> message,
               udinfo  |-> [ src_port |-> a.source.port, dst_port |-> a.destination.port,
                             cksum |-> 0 ] ]
  IN  [ header  |-> ComputeHeaderChecksum(header),
        payload |-> SerializeSegment(ComputeSegmentChecksum(seg, PseudoChecksum(header))) ]
-----------------------------------------------------------------------------
(* The TUN device, a datagram at a time, and the losses of LossyFdAdapter. *)

\* write(): the buffers of the datagram go out as one.
TunWrite(a, message) == FlattenSeq(SerializeDatagram(WrapTCPInIP(a, message)))

\* read(): 20 bytes into the first of two buffers, the rest into the second.  It is called
\* when poll() has reported a datagram, and nobody else reads the device: the EAGAIN that
\* empties the buffers (file_descriptor.cc:130-132) is left out.
TunRead(a, bytes) ==
  LET dgram == ParseDatagram(<< Substr(bytes, 0, IPv4Length),
                                SubSeq(bytes, IPv4Length + 1, Len(bytes)) >>)
  IN  IF dgram = <<>> THEN [adapter |-> a, msg |-> <<>>] ELSE UnwrapTCPInIP(a, Head(dgram))

\* _should_drop(): never at a loss rate of 0, and at no rate always.
ShouldDrop(loss_rate) == IF loss_rate = 0 THEN {FALSE} ELSE BOOLEAN

\* LossyFdAdapter::read() loses the message after the adapter has seen it.
LossyRead(a, bytes, drop) ==
  LET got == TunRead(a, bytes)
  IN  IF drop THEN [got EXCEPT !.msg = <<>>] ELSE got

LossyWrite(a, message, drop) == IF drop THEN <<>> ELSE TunWrite(a, message)
=============================================================================

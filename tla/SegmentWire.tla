---------------------------- MODULE SegmentWire ----------------------------
(***************************************************************************)
(* The segments of SeqnoTracking on their way: a client's adapter turns    *)
(* each into the bytes of a datagram, the network may damage, repeat or    *)
(* lose it, and the listening adapter of the server takes it or what other *)
(* hosts send.  The numbers followed are those of the client.              *)
(***************************************************************************)
EXTENDS SeqnoTracking, TCPOverIPv4

CONSTANTS LossRate,        \* loss_rate_up of the client and loss_rate_dn of the server
          MaxDamaged,      \* damage is done up to this isn and checkpoint
          Address          \* the address of the client; the others are next to it

ASSUME SegmentWireAssumption == LossRate \in 0 .. 65535 /\ Address \in Nat

VARIABLES server,          \* the adapter of the server
          wire,            \* the datagram in the network, if any: its bytes, the adapter and
                           \* the message it was made from, and what became of it
          peer,            \* the adapter whose SYN ended the listening, if any
          heard            \* the adapters whose messages read() has handed on

wireVars == <<vars, server, wire, peer, heard>>

Host(addr, port) == [addr |-> addr, port |-> port]
ServerPort == 7
ClientHost == Host(Address, 5)
ServerHost == Host(Address + 1, ServerPort)
Client     == Connecting(ClientHost, ServerHost)

\* Hosts that differ from the client in one thing: the address, the port, the address or the
\* port they send to.
Strangers ==
  { Connecting(Host(Address + 2, 5), ServerHost),
    Connecting(Host(Address, 6), ServerHost),
    Connecting(ClientHost, Host(Address + 3, ServerPort)),
    Connecting(ClientHost, Host(Address + 1, ServerPort + 1)) }

Message(number, payload, fin, rst, ackno) ==
  [ sender   |-> [seqno |-> number, SYN |-> FALSE, payload |-> payload, FIN |-> fin, RST |-> rst],
    receiver |-> [ackno |-> ackno, window_size |-> 300, RST |-> FALSE] ]

\* The kinds of messages a host sends, by turns: without data, with an odd and an even number
\* of bytes, with a FIN, with a RST of either direction.
Messages(number) ==
  << Message(number, <<>>, FALSE, FALSE, 3), Message(number, <<255, 0, 9>>, FALSE, FALSE, NoAckno),
     Message(number, <<0, 200>>, TRUE, FALSE, 0), Message(number, <<>>, FALSE, TRUE, 2),
     [Message(number, <<1>>, FALSE, FALSE, 3) EXCEPT !.receiver.RST = TRUE] >>

WithSyn(message) == [message EXCEPT !.sender.SYN = TRUE]

InNetwork(a, message, bytes) ==
  [ bytes |-> bytes, from |-> a, msg |-> message, intact |-> TRUE, tcp |-> TRUE ]

WireInit == /\ Init
            /\ server = Listening(ServerPort)
            /\ wire = <<>> /\ peer = <<>> /\ heard = {}

\* The client sends the segment with absolute number n; number 0 is the SYN's.
SendSegment(n) ==
  /\ wire = <<>>
  /\ Send(n)
  /\ LET kinds == Messages(WrapSeq(n, isn))
         m     == kinds[(n % Len(kinds)) + 1]
         message == IF n = 0 THEN WithSyn(m) ELSE m
     IN  \E drop \in ShouldDrop(LossRate) :
         \E sent \in {LossyWrite(Client, message, drop)} :
           wire' = IF sent = <<>> THEN <<>> ELSE <<InNetwork(Client, message, sent)>>
  /\ UNCHANGED <<server, peer, heard>>

\* Another host sends to the server, with or without a SYN.
SendStray(a) ==
  /\ wire = <<>>
  /\ \E message \in {Messages(1)[2], WithSyn(Messages(1)[2]), WithSyn(Messages(1)[4])} :
       wire' = <<InNetwork(a, message, TunWrite(a, message))>>
  /\ UNCHANGED <<vars, server, peer, heard>>

\* Another protocol's datagram for the server, which is no segment.
SendOther ==
  /\ wire = <<>>
  /\ LET message == Message(0, <<>>, FALSE, FALSE, NoAckno)
         dgram   == WrapTCPInIP(Client, WithSyn(message))
         other   == [dgram EXCEPT !.header = ComputeHeaderChecksum([@ EXCEPT !.proto = 17])]
     IN  wire' = <<[InNetwork(Client, message, FlattenSeq(SerializeDatagram(other)))
                     EXCEPT !.tcp = FALSE]>>
  /\ UNCHANGED <<vars, server, peer, heard>>

\* The network changes one byte, in a header or in the payload.
Damage ==
  /\ wire # <<>> /\ wire[1].intact
  /\ {isn, checkpoint} \subseteq 0 .. MaxDamaged
  /\ \E i \in DOMAIN wire[1].bytes :
       wire' = <<[wire[1] EXCEPT !.intact = FALSE, !.bytes[i] = (@ + 1) % 256]>>
  /\ UNCHANGED <<vars, server, peer, heard>>

Lose == wire # <<>> /\ wire' = <<>> /\ UNCHANGED <<vars, server, peer, heard>>

\* The server reads what is there.  The network may keep a copy, and read() may drop it.
Deliver ==
  /\ wire # <<>>
  /\ wire' \in {wire, <<>>}
  /\ \E drop \in ShouldDrop(LossRate) :
     \E got \in {LossyRead(server, wire[1].bytes, drop)} :
       /\ server' = got.adapter
       /\ peer' = IF server.listening /\ ~got.adapter.listening THEN <<wire[1].from>> ELSE peer
       /\ heard' = IF got.msg = <<>> THEN heard ELSE heard \cup {wire[1].from}
       /\ checkpoint' =
            IF got.msg = <<>> \/ wire[1].from # Client THEN checkpoint
            ELSE LET number == Unwrap(Head(got.msg).sender.seqno, isn, checkpoint)
                 IN  IF number > checkpoint THEN number ELSE checkpoint
  /\ UNCHANGED <<isn, seqno>>

WireNext == \/ \E n \in 0 .. MaxSeqno : SendSegment(n)
            \/ \E a \in Strangers : SendStray(a)
            \/ SendOther \/ Damage \/ Lose \/ Deliver

WireSpec == WireInit /\ [][WireNext]_wireVars
-----------------------------------------------------------------------------
(* Properties.                                                             *)

\* A message after its way through the headers: a RST of either direction is one of both.
Carried(message) ==
  LET rst == message.sender.RST \/ message.receiver.RST
  IN  [message EXCEPT !.sender.RST = rst, !.receiver.RST = rst]

\* Whatever is on the wire, the server is handed nothing or the very message that was sent,
\* wherever the buffers were split; with a byte changed, it is handed nothing.
HandedIntact ==
  wire # <<>> =>
    LET got == TunRead(server, wire[1].bytes).msg
    IN  got # <<>> => wire[1].intact /\ wire[1].tcp /\ Head(got) = Carried(wire[1].msg)

\* However the hosts' segments are mixed, repeated or lost, the server hears one host only:
\* the one whose SYN ended the listening.
OnePeer == \A a \in heard : <<a>> = peer

\* Once the server has a peer the two understand each other: the answers of a server bound to
\* any address are taken by the peer as they were sent, and so are the peer's segments by
\* the server.
Mutual ==
  peer # <<>> /\ wire = <<>> =>
    \A m \in ToSet(Messages(0)) :
      /\ TunRead(peer[1], TunWrite(server, m)).msg = <<Carried(m)>>
      /\ TunRead(server, TunWrite(peer[1], m)).msg = <<Carried(m)>>

\* Through all this the two ends do what SeqnoTracking says: the receiver measures from the
\* absolute numbers the sender meant.
Tracks == Spec
=============================================================================

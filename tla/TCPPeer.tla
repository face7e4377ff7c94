------------------------------ MODULE TCPPeer ------------------------------
(***************************************************************************)
(* The TCPPeer of src/util/tcp_peer.hh: one TCPSender and one TCPReceiver, *)
(* each the other's way of talking.  Every method yields the peer as it is *)
(* afterwards and the messages it transmits.  need_send_ is false between  *)
(* two calls, so it is local to receive(); the time since the last receipt *)
(* is kept instead of the two times it is the difference of.               *)
(***************************************************************************)
EXTENDS TCPSender, TCPReceiver

CONSTANTS RecvCapacity,    \* TCPConfig::recv_capacity
          SendCapacity,    \* TCPConfig::send_capacity
          LingerTimeouts,  \* retransmission timeouts a peer lingers for, 10 in the code
          PushSteps        \* loop turns one push() may take

NewPeer(isn) ==
  [ sender_ |-> NewSender(SendCapacity, isn), receiver_ |-> NewReceiver(RecvCapacity),
    linger_after_streams_finish_ |-> TRUE, idle |-> 0 ]

Inbound(p) == p.receiver_.reassembler_.output_

Lingers(p) == p.linger_after_streams_finish_ /\ p.idle < LingerTimeouts * InitialRTO

\* Faulty: the inbound stream is not waited for.
ActiveSending(p) == /\ ~Inbound(p).error /\ ~p.sender_.input_.error_
                    /\ p.sender_.bytes_in_queue_ > 0 \/ ~IsFinished(p.sender_.input_) \/ Lingers(p)

\* Faulty: the inbound stream has to be read as well.
ActiveUnread(p) == /\ ~Inbound(p).error /\ ~p.sender_.input_.error_
                   /\ \/ p.sender_.bytes_in_queue_ > 0 \/ ~IsFinished(p.sender_.input_)
                      \/ ~Drained(Inbound(p)) \/ Lingers(p)

\* active()
Active(p) ==
  /\ ~Inbound(p).error /\ ~p.sender_.input_.error_
  /\ \/ p.sender_.bytes_in_queue_ > 0 \/ ~IsFinished(p.sender_.input_)
     \/ ~Inbound(p).closed
     \/ Lingers(p)

\* send(): a message of the sender goes out with what the receiver has to say.
Segment(p, msg) == [sender |-> msg, receiver |-> ReceiverSend(p.receiver_)]

PeerPush(p) ==
  LET done == SenderPush(p.sender_, PushSteps)
  IN  [ peer |-> [p EXCEPT !.sender_ = done.sender],
        out  |-> [i \in 1 .. Len(done.out) |-> Segment(p, done.out[i])] ]

\* tick().  The code adds to its time without end (tcp_peer.hh:33); here the idle time stops
\* at the linger, as active() only asks whether that is over.
PeerTick(p, ms) ==
  [ peer |-> [p EXCEPT !.sender_ = SenderTick(@, ms),
                       !.idle = Least(@ + ms, LingerTimeouts * InitialRTO)],
    out  |-> IF TimedOut(p.sender_, ms) THEN <<Segment(p, Head(p.sender_.msg_queue_))>> ELSE <<>> ]

\* receive() replies to whatever occupies sequence numbers and to a keep-alive, which is
\* recognised by the number before the one expected.
NeedSend(p, msg) ==
  LET our_ackno == ReceiverSend(p.receiver_).ackno
  IN  \/ SequenceLength(msg.sender) > 0
      \/ our_ackno # NoAckno /\ Plus(msg.sender.seqno, 1) = our_ackno

\* The inbound stream ended first: the other end does the lingering.
EndsLast(p) == Inbound(p).closed /\ ~IsFinished(p.sender_.input_)

PeerReceive(p, msg) ==
  LET heard == [p EXCEPT !.idle = 0,
                         !.linger_after_streams_finish_ = @ /\ ~EndsLast(p),
                         !.receiver_ = ReceiverReceive(@, msg.sender),
                         !.sender_ = SenderReceive(@, msg.receiver)]
  IN  IF ~Active(p) THEN [peer |-> p, out |-> <<>>]
      ELSE [ peer |-> heard,
             out  |-> IF NeedSend(p, msg)
                      THEN <<Segment(heard, MakeEmptyMessage(heard.sender_))>> ELSE <<>> ]
=============================================================================

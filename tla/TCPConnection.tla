--------------------------- MODULE TCPConnection ---------------------------
(***************************************************************************)
(* Two TCPPeers, each driven by the rules of its TCPMinnowSocket (the      *)
(* lambdas of _initialize_TCP in src/util/tcp_minnow_socket_impl.hh), and  *)
(* the network between them.  The network keeps the order of segments; it  *)
(* may lose some.                                                          *)
(***************************************************************************)
EXTENDS TCPPeer

CONSTANTS ClientLen,       \* bytes the client's application writes
          ServerLen,       \* bytes the server's application writes
          ClientIsn,       \* the isn each end drew
          ServerIsn,
          Losses,          \* segments the network may lose in all
          DataLosses       \* whether these may carry data or a FIN

Ends == {"client", "server"}
Other(e) == IF e = "client" THEN "server" ELSE "client"

StreamLen == [e \in Ends |-> IF e = "client" THEN ClientLen ELSE ServerLen]
IsnOf     == [e \in Ends |-> IF e = "client" THEN ClientIsn ELSE ServerIsn]

ASSUME ConnectionAssumption ==
  /\ {RecvCapacity, SendCapacity, LingerTimeouts, PushSteps, Losses} \subseteq Nat
  /\ {ClientLen, ServerLen} \subseteq Nat /\ {ClientIsn, ServerIsn} \subseteq Seqnos
  /\ DataLosses \in BOOLEAN

VARIABLES peer,            \* the TCPPeer of each end
          wire,            \* wire[e]: segments on their way to e
          lost             \* segments lost so far

vars == <<peer, wire, lost>>

Init == /\ peer = [e \in Ends |-> NewPeer(IsnOf[e])]
        /\ wire = [e \in Ends |-> <<>>]
        /\ lost = 0

\* A method of e's peer ran: it leaves its segments to the network.
Runs(e, call) == \E result \in {call} :
                   /\ peer' = [peer EXCEPT ![e] = result.peer]
                   /\ wire' = [wire EXCEPT ![Other(e)] = @ \o result.out]
                   /\ UNCHANGED lost

SynUnacked(e) == \E i \in 1 .. Len(peer[e].sender_.msg_queue_) : peer[e].sender_.msg_queue_[i].SYN

\* connect() and listen_and_accept() have returned: the application has its socket.
Connected(e) == IF e = "client" THEN peer[e].sender_.syn_sent /\ ~SynUnacked(e)
                                ELSE peer[e].receiver_.seen_syn

\* connect() pushes once, which sends the SYN.
Connect == /\ ~peer["client"].sender_.syn_sent
           /\ Runs("client", PeerPush(peer["client"]))

\* Rule 1: a segment has come in and goes to receive().  If it has no ackno and the sender
\* waits for one, the sender reads the empty optional, and the number may be any.  An end
\* that is no longer active takes no notice of what comes for it.
ReadAckno(e) ==
  LET ackno == Head(wire[e]).receiver.ackno
  IN  IF ackno = NoAckno /\ peer[e].sender_.msg_queue_ # <<>> THEN Seqnos ELSE {ackno}

Hear(e) == /\ wire[e] # <<>>
           /\ \E ackno \in ReadAckno(e) :
              \E result \in {PeerReceive(peer[e], [Head(wire[e]) EXCEPT !.receiver.ackno = ackno])} :
                /\ peer' = [peer EXCEPT ![e] = result.peer]
                /\ wire' = [wire EXCEPT ![e] = Tail(@), ![Other(e)] = @ \o result.out]
           /\ UNCHANGED lost

\* Rule 2: the application has written bytes, or has ended its stream; then push().
MayWrite(e) == /\ Connected(e) /\ Active(peer[e])
               /\ ~peer[e].sender_.input_.isClosed
               /\ AvailableCapacity(peer[e].sender_.input_) > 0

Write(e, n) ==
  LET input_ == peer[e].sender_.input_
  IN  /\ MayWrite(e)
      /\ n <= AvailableCapacity(input_) /\ input_.totalPushed + n <= StreamLen[e]
      /\ Runs(e, PeerPush([peer[e] EXCEPT !.sender_.input_ =
                             WriterPush(@, Bytes(input_.totalPushed, n))]))

Close(e) == /\ MayWrite(e)
            /\ peer[e].sender_.input_.totalPushed = StreamLen[e]
            /\ Runs(e, PeerPush([peer[e] EXCEPT !.sender_.input_ = WriterClose(@)]))

\* Rule 3: bytes of the inbound stream go to the application.
Read(e, n) == /\ n <= Len(Inbound(peer[e]).buf)
              /\ peer' = [peer EXCEPT ![e].receiver_.reassembler_.output_ = Take(@, n)]
              /\ UNCHANGED <<wire, lost>>

\* _tcp_loop() ticks an active peer.  The clocks of both ends run at the same rate, and no
\* segment is under way as long as a retransmission timeout.  Time matters while an end
\* waits for an acknowledgment or has just heard something.
MayTick == /\ \E e \in Ends : /\ Active(peer[e])
                              /\ \/ peer[e].sender_.msg_queue_ # <<>>
                                 \/ peer[e].idle < LingerTimeouts * InitialRTO
           /\ \A e \in Ends : wire[e] = <<>>

Ticked(p) == IF Active(p) THEN PeerTick(p, InitialRTO) ELSE [peer |-> p, out |-> <<>>]

Tick == /\ MayTick
        /\ peer' = [e \in Ends |-> Ticked(peer[e]).peer]
        /\ wire' = [e \in Ends |-> wire[e] \o Ticked(peer[Other(e)]).out]
        /\ UNCHANGED lost

\* Once both SYNs are acknowledged, the network may lose segments.
Lose(e) == /\ wire[e] # <<>> /\ lost < Losses
           /\ DataLosses \/ SequenceLength(Head(wire[e]).sender) = 0
           /\ \A f \in Ends : peer[f].sender_.syn_sent /\ ~SynUnacked(f)
           /\ wire' = [wire EXCEPT ![e] = Tail(@)]
           /\ lost' = lost + 1
           /\ UNCHANGED peer

Next == \/ Connect
        \/ Tick
        \/ \E e \in Ends : \/ Hear(e) \/ Close(e) \/ Lose(e)
                           \/ \E n \in 1 .. SendCapacity : Write(e, n)
                           \/ \E n \in 1 .. RecvCapacity : Read(e, n)

\* The event loops run, and the applications write all they have, close and read: weak
\* fairness of each action, with the guard that enables it given instead of derived.
Fairness ==
  /\ []<>~MayTick \/ []<><<Tick>>_vars
  /\ []<>peer["client"].sender_.syn_sent \/ []<><<Connect>>_vars
  /\ \A e \in Ends :
       /\ []<>(wire[e] = <<>>) \/ []<><<Hear(e)>>_vars
       /\ []<>~MayWrite(e) \/ []<><<Close(e) \/ \E n \in 1 .. SendCapacity : Write(e, n)>>_vars
       /\ []<>(Inbound(peer[e]).buf = <<>>) \/ []<><<\E n \in 1 .. RecvCapacity : Read(e, n)>>_vars

Spec == Init /\ [][Next]_vars
FairSpec == Spec /\ Fairness
-----------------------------------------------------------------------------
\* The members keep their types: no acknowledgment takes more out of bytes_in_queue_ than
\* is in it, which active() reads.
TypeOK == /\ \A e \in Ends : /\ peer[e].idle \in 0 .. LingerTimeouts * InitialRTO
                             /\ peer[e].sender_.bytes_in_queue_ \in Nat
                             /\ peer[e].receiver_.cur_seq \in Seqnos
                             /\ peer[e].linger_after_streams_finish_ \in BOOLEAN
                             /\ peer[e].sender_.input_ \in Streams(Nat)
          /\ lost \in 0 .. Losses

\* What an application reads is what the other one wrote, from its first byte on and
\* in order, and its stream is closed only where the other one closed it.
StreamsIntact ==
  \A e \in Ends :
    LET in == Inbound(peer[e])
        source == peer[Other(e)].sender_.input_
    IN  /\ in.buf = Bytes(in.popped, Len(in.buf))
        /\ in.pushed <= source.totalPopped
        /\ in.closed => IsFinished(source) /\ in.pushed = source.totalPushed

\* An end that has left without an error leaves nobody waiting: what the other end has
\* in flight is acknowledged by a segment on its way to it.
Awaits(e) == peer[e].sender_.bytes_in_queue_ > 0 \/ ~Inbound(peer[e]).closed
NobodyLeftBehind ==
  \A e \in Ends :
    (~Active(peer[e]) /\ Active(peer[Other(e)]) /\ Awaits(Other(e))) => wire[Other(e)] # <<>>

\* The ackno "is an optional field that is empty if the TCPReceiver hasn't yet received
\* the Initial Sequence Number": receive() does not read one that is empty.
AcknoPresent ==
  \A e \in Ends : (wire[e] # <<>> /\ Head(wire[e]).receiver.ackno = NoAckno)
                    => peer[e].sender_.msg_queue_ = <<>>

\* Every connection comes to its end: all bytes are read, and both ends leave.
Finishes ==
  <>(\A e \in Ends : Inbound(peer[e]).popped = StreamLen[Other(e)] /\ ~Active(peer[e]))
=============================================================================

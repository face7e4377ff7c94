------------------------- MODULE TCPReceiverMachine -------------------------
(***************************************************************************)
(* A TCPReceiver at the end of a network that loses, repeats and reorders  *)
(* the segments of one stream.  The sender cuts the stream anywhere and    *)
(* stays inside the capacity, as one that honours the window and probes it *)
(* with one byte when it is zero does; the application reads.              *)
(***************************************************************************)
EXTENDS TCPReceiver

CONSTANTS Capacity,        \* capacity of the receiver's buffer
          StreamLens,      \* numbers of bytes the sender may have
          MaxLen,          \* longest payload
          LastGap,         \* gaps are left below this index only: a payload that ends
                           \* past it comes in order, and when no byte is pending
          Isns,            \* initial sequence numbers the sender may have drawn
          SynRepeats,      \* whether the network may repeat the SYN
          FinOvertakes     \* whether the FIN may come before the data ahead of it

ASSUME MachineAssumption ==
  /\ Capacity \in Nat /\ Capacity > 0 /\ StreamLens \subseteq Nat /\ MaxLen \in Nat /\ LastGap \in Nat
  /\ Isns \subseteq Seqnos /\ SynRepeats \in BOOLEAN /\ FinOvertakes \in BOOLEAN
  /\ \A n \in StreamLens : WordMod > 2 * (n + Capacity) /\ 2 * (Capacity + 2) < RelSeqMax

VARIABLES receiver,
          isn,             \* the sender's
          streamLen        \* bytes it sends

vars == <<receiver, isn, streamLen>>

Message(syn, first, len, fin, rst) ==
  [ seqno |-> WrapSeq(IF syn THEN 0 ELSE first + 1, isn), SYN |-> syn,
    payload |-> Bytes(first, len), FIN |-> fin, RST |-> rst ]

Output == receiver.reassembler_.output_

Init == receiver = NewReceiver(Capacity) /\ isn \in Isns /\ streamLen \in StreamLens

\* The segments the network may deliver.
MaySend(syn, first, len, fin) ==
  /\ syn => first = 0 /\ (SynRepeats \/ ~receiver.seen_syn)
  /\ first + len <= streamLen /\ (fin => first + len = streamLen)
  /\ \/ first + len <= LastGap
     \/ first <= Pushed(receiver) /\ BytesPending(receiver.reassembler_) = 0
  /\ first + len <= Output.popped + Capacity
  /\ 2 * (Pushed(receiver) - first) < RelSeqMax     \* older segments have left the network
  /\ fin => FinOvertakes \/ first <= Pushed(receiver)

Receive(syn, first, len, fin) ==
  /\ receiver.reassembler_.fault = "none"
  /\ MaySend(syn, first, len, fin)
  /\ receiver' = ReceiverReceive(receiver, Message(syn, first, len, fin, FALSE))
  /\ UNCHANGED <<isn, streamLen>>

\* A reset, with whatever number it carries.
Reset == /\ receiver.reassembler_.fault = "none"
         /\ receiver' = ReceiverReceive(receiver, Message(FALSE, Pushed(receiver), 0, FALSE, TRUE))
         /\ UNCHANGED <<isn, streamLen>>

Read(n) == /\ receiver.reassembler_.fault = "none"
           /\ n <= Len(Output.buf)
           /\ receiver' = [receiver EXCEPT !.reassembler_.output_ = Take(@, n)]
           /\ UNCHANGED <<isn, streamLen>>

Next == \/ \E syn \in BOOLEAN, first \in 0 .. streamLen, len \in 0 .. MaxLen, fin \in BOOLEAN :
             Receive(syn, first, len, fin)
        \/ Reset
        \/ \E n \in 1 .. Capacity : Read(n)

Spec == Init /\ [][Next]_vars
-----------------------------------------------------------------------------
\* The members keep their types.
TypeOK == /\ receiver.isn_ \in Seqnos /\ receiver.cur_seq \in Seqnos
          /\ receiver.capacity = Capacity
          /\ {receiver.seen_syn, receiver.syn_accounted,
              receiver.seen_fin, receiver.fin_accounted} \subseteq BOOLEAN

\* The ackno is the next sequence number the receiver needs: it counts the SYN, every
\* byte written to the stream and, when all of them are, the FIN, and nothing more.
AcknoExact ==
  LET p == Output
  IN  ReceiverSend(receiver).ackno =
        IF receiver.seen_syn
        THEN WrapSeq(1 + p.pushed + IF p.closed THEN 1 ELSE 0, isn) ELSE NoAckno

\* The first number past the window, as the peer computes it from send(): of a capacity
\* above UINT16_MAX only that much is announced, and the window wraps round once more than
\* that is buffered (tcp_receiver.cc:89).
RightEdge  == LET m == ReceiverSend(receiver) IN Plus(m.ackno, m.window_size)
FitsWindow == Len(Output.buf) <= MaxWindow

\* What makes room for the sender: the bytes read, and the FIN, which takes a number and
\* no room in the buffer.
Freed == Output.popped + IF Output.closed THEN 1 ELSE 0

\* What was announced is never taken back: whatever arrives, waits past a gap or is thrown
\* away, the right edge of the window stays where it is, and it moves on by exactly what
\* the application reads and by one for the FIN.  cur_seq, the buffer and the window are
\* kept apart in the code and must move together; excepted is the window that wraps round.
EdgeFollowsReader ==
  [][receiver.seen_syn /\ FitsWindow /\ FitsWindow'
       => Freed' >= Freed /\ RightEdge' = Plus(RightEdge, Freed' - Freed)]_vars

\* The segment that begins at the first missing byte is never set aside: if the sender
\* may send it, receiving it makes the stream grow.
Advances ==
  LET first == Pushed(receiver)
  IN  \A len \in 1 .. MaxLen, fin \in BOOLEAN :
        (receiver.seen_syn /\ MaySend(FALSE, first, len, fin))
          => Pushed(ReceiverReceive(receiver, Message(FALSE, first, len, fin, FALSE))) > first

\* Sequence numbers and flags are invisible: the receiver reassembles the stream as its
\* Reassembler promises, every payload at its own index.
Ideal == INSTANCE IdealReassembler WITH
           output <- Output,
           pending <- LET r == receiver.reassembler_
                      IN  {r.storage[i] : i \in {j \in 1 .. Len(r.storage_bitmap) : r.storage_bitmap[j]}},
           seenLast <- receiver.reassembler_.seen_last
ImplementsIdeal == Ideal!Spec
=============================================================================

-------------------------- MODULE TCPSenderMachine --------------------------
(***************************************************************************)
(* A TCPSender, the application that writes to it and the acknowledgments  *)
(* of a peer.  The turns of the loops of push() and receive() are steps;   *)
(* no other method runs before the one in progress returns, since the      *)
(* object belongs to one thread.  Absolute sequence numbers count the SYN  *)
(* as 0, byte k of the stream as k + 1 and the FIN after the last byte.    *)
(***************************************************************************)
EXTENDS TCPSender

CONSTANTS Capacity,        \* capacity of the outbound stream
          StreamLen,       \* bytes the application writes at most
          Isn,             \* the isn of the connection
          MaxWindow,       \* widest window the peer announces
          Resets,          \* values of the RST flag in what the peer sends
          TickBound,       \* the clock stops after this many retransmissions
          EmptyBound,      \* push() is not called with more empty messages queued
          ClosesFirst,     \* whether the application may close before the first push()
          AcksLost,        \* whether acknowledgments may get lost on the way
          AcksStale        \* whether acknowledgments may overtake each other

ASSUME MachineAssumption ==
  /\ {Capacity, StreamLen, MaxWindow, TickBound, EmptyBound} \subseteq Nat
  /\ Isn \in Seqnos /\ Resets \subseteq BOOLEAN
  /\ {ClosesFirst, AcksLost, AcksStale} \subseteq BOOLEAN
  /\ 2 * (StreamLen + 2) < RelSeqMax

VARIABLES sender,
          call,            \* the method in progress, with its local variables
          acked,           \* the peer has acknowledged every number below this one
          edge             \* the first number beyond every window announced so far

vars == <<sender, call, acked, edge>>

Idle == [op |-> "none", msg |-> EmptyMessage, ackno |-> 0]

Init == /\ sender = NewSender(Capacity, Isn)
        /\ call = Idle
        /\ acked = 0
        /\ edge = 1

\* The absolute number of a message and of what comes after it, the messages that have any
\* number of their own, and the number that comes after everything queued so far.
Number(msg) == IF msg.SYN THEN 0
               ELSE IF msg.payload # <<>> THEN Head(msg.payload) + 1
               ELSE sender.input_.totalPushed + 1

End(msg) == Number(msg) + SequenceLength(msg)

Queue  == sender.msg_queue_
Loaded == {i \in 1 .. Len(Queue) : SequenceLength(Queue[i]) > 0}
Upto == Flag(sender.syn_sent) + sender.input_.totalPopped + Flag(sender.fin_queued)

\* The application.
Write(n) == /\ call = Idle
            /\ sender.input_.totalPushed + n <= StreamLen
            /\ sender' = [sender EXCEPT !.input_ = WriterPush(@, Bytes(@.totalPushed, n))]
            /\ UNCHANGED <<call, acked, edge>>

Close == /\ call = Idle
         /\ ClosesFirst \/ sender.syn_sent
         /\ sender' = [sender EXCEPT !.input_ = WriterClose(@)]
         /\ UNCHANGED <<call, acked, edge>>
-----------------------------------------------------------------------------
\* push()
Push == /\ call = Idle
        /\ Len(Queue) - Cardinality(Loaded) <= EmptyBound
        /\ call' = [Idle EXCEPT !.op = "turn"]
        /\ UNCHANGED <<sender, acked, edge>>

InPush == [at |-> call.op, sender |-> sender, msg |-> call.msg, out |-> <<>>]
Becomes(p) == /\ sender' = p.sender
              /\ call' = IF p.at = "done" THEN Idle ELSE [Idle EXCEPT !.op = p.at, !.msg = p.msg]
              /\ UNCHANGED <<acked, edge>>

PushBegins   == call.op = "turn" /\ Becomes(BeginTurn(InPush))
PushFills    == call.op = "fill" /\ ~FillStops(sender, call.msg) /\ Becomes(Fill(InPush))
PushFinishes == call.op = "fill" /\ FillStops(sender, call.msg) /\ Becomes(FinishTurn(InPush))
-----------------------------------------------------------------------------
\* What the peer may acknowledge: what it has acknowledged before, the oldest message,
\* or all it was sent; if acknowledgments get lost, what lies between as well.
Acknos == {acked, Upto}
          \cup {End(Queue[i]) : i \in {j \in Loaded : AcksLost \/ \A k \in Loaded : j <= k}}
          \cup (IF AcksStale THEN 1 .. acked ELSE {})

Larger(a, b) == IF a > b THEN a ELSE b

\* receive( msg ) with an ackno.
Receive(n, window_size, rst) ==
  /\ call = Idle
  /\ n \in Acknos \ {0}
  /\ sender' = TakeWindow(sender, window_size, rst)
  /\ call' = [Idle EXCEPT !.op = "acks", !.ackno = WrapSeq(n, Isn)]
  /\ acked' = Larger(acked, n)
  /\ edge' = Larger(edge, n + Larger(window_size, 1))

\* receive( msg ) without one, which announces the window before the SYN is sent: the
\* queue is empty and the ackno is not looked at.
ReceiveEmpty(window_size) ==
  /\ call = Idle
  /\ ~sender.syn_sent
  /\ sender' = TakeWindow(sender, window_size, FALSE)
  /\ call' = [Idle EXCEPT !.op = "acks"]
  /\ edge' = Larger(edge, Larger(window_size, 1))
  /\ UNCHANGED acked

TakeAck == /\ call.op = "acks"
           /\ AcksFront(sender, call.ackno)
           /\ sender' = PopAcked(sender)
           /\ UNCHANGED <<call, acked, edge>>

EndReceive == /\ call.op = "acks"
              /\ ~AcksFront(sender, call.ackno)
              /\ call' = Idle
              /\ UNCHANGED <<sender, acked, edge>>
-----------------------------------------------------------------------------
Tick(ms) == /\ call = Idle
            /\ sender.consec_retransmissions < TickBound
            /\ sender' = SenderTick(sender, ms)
            /\ UNCHANGED <<call, acked, edge>>

Next == \/ \E n \in 1 .. StreamLen : Write(n)
        \/ Close
        \/ Push
        \/ PushBegins
        \/ PushFills
        \/ PushFinishes
        \/ \E n \in 0 .. StreamLen + 2, window_size \in 0 .. MaxWindow, rst \in Resets :
             Receive(n, window_size, rst)
        \/ \E window_size \in 0 .. MaxWindow : ReceiveEmpty(window_size)
        \/ TakeAck
        \/ EndReceive
        \/ Tick(InitialRTO)

\* A method that was called runs on; that it is called is up to the owner.
Spec == /\ Init /\ [][Next]_vars
        /\ WF_vars(PushBegins) /\ WF_vars(PushFills) /\ WF_vars(PushFinishes)
        /\ WF_vars(TakeAck) /\ WF_vars(EndReceive)
-----------------------------------------------------------------------------
\* The members keep their types.
TypeOK == /\ sender.input_ \in Streams(Nat)
          /\ {sender.cur_win_size_, sender.bytes_in_queue_, sender.time_since_last_send,
              sender.consec_retransmissions} \subseteq Nat
          /\ {sender.syn_sent, sender.fin, sender.fin_received, sender.fin_queued,
              sender.win_advertised_zero} \subseteq BOOLEAN
          /\ call.op \in {"none", "turn", "fill", "acks"}

\* Between calls the queue is exactly what the peer has not acknowledged: its messages
\* carry the numbers from acked on, each once and in order, every byte that left the
\* stream is in one of them, and bytes_in_queue_ counts them.  A message without a number
\* comes after all of them.
QueueIsUnacked ==
  call = Idle =>
    /\ sender.bytes_in_queue_ = Upto - acked
    /\ IF Loaded = {} THEN Upto = acked ELSE 1 \in Loaded /\ Number(Queue[1]) = acked
    /\ \A i \in Loaded :
         /\ i = 1 \/ i - 1 \in Loaded
         /\ End(Queue[i]) = IF i + 1 \in Loaded THEN Number(Queue[i + 1]) ELSE Upto
         /\ Queue[i].seqno = WrapSeq(Number(Queue[i]), Isn)
         /\ LET payload == Queue[i].payload
            IN  payload # <<>> => payload = Bytes(Head(payload), Len(payload))

\* No byte is sent beyond the windows the peer has announced.
InWindow == \A i \in Loaded :
              LET msg == Queue[i]
              IN  msg.payload # <<>> => Number(msg) + Flag(msg.SYN) + Len(msg.payload) <= edge

\* The FIN is sent once, after the last byte of a closed stream.
FinLast == /\ sender.fin_queued => IsFinished(sender.input_)
           /\ sender.fin_received => sender.fin_queued /\ Loaded = {}

\* push() and receive() return.
CallsReturn == []<>(call = Idle)
=============================================================================

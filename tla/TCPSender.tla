----------------------------- MODULE TCPSender -----------------------------
(***************************************************************************)
(* The TCPSender of src/src/tcp_sender.cc: it cuts its input stream into   *)
(* messages, keeps those without acknowledgment in msg_queue_ and repeats  *)
(* the oldest when the timer runs out.  push() has two nested loops: a     *)
(* turn of the outer one builds and queues a message, a turn of the inner  *)
(* one moves bytes of one chunk of the input into it.                      *)
(***************************************************************************)
EXTENDS ByteStream, Wrap32, SequencesExt

CONSTANTS MaxPayload,      \* TCPConfig::MAX_PAYLOAD_SIZE
          InitialRTO       \* initial_RTO_ms_

ASSUME SenderAssumption == /\ MaxPayload \in Nat /\ MaxPayload > 0
                           /\ InitialRTO \in Nat /\ InitialRTO > 0

NewSender(capacity, isn) ==
  [ input_ |-> NewStream(capacity), isn_ |-> isn,
    cur_win_size_ |-> 0, win_advertised_zero |-> FALSE,
    msg_queue_ |-> <<>>, bytes_in_queue_ |-> 0,
    syn_sent |-> FALSE, fin |-> FALSE, fin_received |-> FALSE, fin_queued |-> FALSE,
    time_since_last_send |-> 0, consec_retransmissions |-> 0 ]

EmptyMessage == [seqno |-> 0, SYN |-> FALSE, payload |-> <<>>, FIN |-> FALSE, RST |-> FALSE]

Flag(b) == IF b THEN 1 ELSE 0
SequenceLength(msg) == Flag(msg.SYN) + Len(msg.payload) + Flag(msg.FIN)

\* Sequence numbers in flight once msg is sent too.
Flight(s, msg) == SequenceLength(msg) + s.bytes_in_queue_

\* The first lines of a turn of push(): the flags.
TurnSyn(s) == ~s.syn_sent
TurnFin(s) == /\ IsFinished(s.input_)
              /\ \/ Flag(TurnSyn(s)) + s.bytes_in_queue_ < s.cur_win_size_
                 \/ s.cur_win_size_ = 0

OpenTurn(s) == [s EXCEPT !.syn_sent = TRUE, !.fin = @ \/ TurnFin(s)]

\* Faulty: the SYN is not counted in the numbers of what follows.
NewMessageUnshifted(s) ==
  [EmptyMessage EXCEPT !.seqno = Plus(s.isn_, s.input_.totalPopped),
                       !.SYN = TurnSyn(s), !.FIN = TurnFin(s), !.RST = s.input_.error_]

\* The message these lines leave, numbered from the first byte not yet popped.
NewMessage(s) ==
  [ seqno   |-> Plus(s.isn_, s.input_.totalPopped + Flag(~TurnSyn(s))),
    SYN     |-> TurnSyn(s),
    payload |-> <<>>,
    FIN     |-> TurnFin(s),
    RST     |-> s.input_.error_ ]

\* Faulty: a FIN without bytes is nothing to send.
NothingWithoutBytes(s) == BytesBuffered(s.input_) = 0 /\ ~TurnSyn(s)

\* Nothing to send, or the FIN is acknowledged: the flags have been set, though.
NothingToSend(s) ==
  LET t == OpenTurn(s)
  IN  (BytesBuffered(s.input_) = 0 /\ ~TurnSyn(s) /\ ~t.fin) \/ (t.fin /\ t.fin_received)

\* Faulty: the loop goes on when the input is empty.
FillStopsWhenFull(s, msg) ==
  IF s.cur_win_size_ = 0 THEN SequenceLength(msg) = 1 \/ s.msg_queue_ # <<>>
  ELSE Flight(s, msg) >= s.cur_win_size_ \/ Len(msg.payload) = MaxPayload

\* The inner loop.  A zero window counts as one byte, but only if nothing is in flight.
FillStops(s, msg) ==
  IF s.cur_win_size_ = 0
  THEN SequenceLength(msg) = 1 \/ s.msg_queue_ # <<>>
  ELSE \/ Flight(s, msg) >= s.cur_win_size_
       \/ BytesBuffered(s.input_) = 0
       \/ Len(msg.payload) = MaxPayload

\* Faulty: what is in flight is not subtracted from the window.
BytesRemainingAll(s, msg) ==
  IF s.cur_win_size_ = 0 THEN 1 ELSE Least(s.cur_win_size_, MaxPayload)

BytesRemaining(s, msg) ==
  IF s.cur_win_size_ = 0 THEN 1 ELSE Least(s.cur_win_size_ - Flight(s, msg), MaxPayload)

FillText(s, msg)  == Substr(Peek(s.input_), 0, BytesRemaining(s, msg))
FillMsg(s, msg)   == [msg EXCEPT !.payload = @ \o FillText(s, msg)]

\* Faulty: the bytes stay in the input.
FillInputUnpopped(s, msg) == s

FillInput(s, msg) == [s EXCEPT !.input_ = PopFront(@, Len(FillText(s, msg)))]

\* Faulty: a closed stream is taken for a finished one.
LateFinClosed(s, msg) == s.input_.isClosed /\ Flight(s, msg) < s.cur_win_size_

\* After the inner loop: the FIN goes along if the window has room for it.
LateFin(s, msg) == IsFinished(s.input_) /\ Flight(s, msg) < s.cur_win_size_
Ended(s, msg)   == [msg EXCEPT !.FIN = @ \/ LateFin(s, msg)]
EndTurn(s, msg) == [s EXCEPT !.fin = @ \/ LateFin(s, msg)]

\* The three early returns that drop the message.
Dropped(s, msg) ==
  \/ msg.FIN /\ s.fin_queued
  \/ Flight(s, msg) > s.cur_win_size_ /\ s.cur_win_size_ # 0
  \/ msg.payload = <<>> /\ ~msg.SYN /\ ~s.fin

\* Faulty: the SYN and the FIN are not counted as in flight.
EnqueueCountsBytes(s, msg) == [s EXCEPT !.fin_queued = @ \/ msg.FIN,
                                        !.msg_queue_ = Append(@, msg),
                                        !.bytes_in_queue_ = @ + Len(msg.payload)]

\* transmit( msg ) and the bookkeeping after it.
Enqueue(s, msg) == [s EXCEPT !.fin_queued = @ \/ msg.FIN,
                             !.msg_queue_ = Append(@, msg),
                             !.bytes_in_queue_ = @ + SequenceLength(msg)]

\* push() returns after it has queued a message and there is nothing more to say.
PushDone(s) == BytesBuffered(s.input_) = 0 \/ s.bytes_in_queue_ = s.cur_win_size_

\* A push() in progress: where it is, the sender, the message it builds and those it has
\* transmitted.  One operator for each of the three parts of a turn.
Pushing(s) == [at |-> "turn", sender |-> s, msg |-> EmptyMessage, out |-> <<>>]

BeginTurn(p) ==
  [p EXCEPT !.at     = IF NothingToSend(p.sender) THEN "done" ELSE "fill",
            !.sender = OpenTurn(@),
            !.msg    = NewMessage(p.sender)]

Fill(p) == [p EXCEPT !.sender = FillInput(@, p.msg), !.msg = FillMsg(p.sender, @)]

FinishTurn(p) ==
  LET msg    == Ended(p.sender, p.msg)
      ended  == EndTurn(p.sender, p.msg)
      queued == Enqueue(ended, msg)
  IN  IF Dropped(ended, msg)
      THEN [p EXCEPT !.at = "done", !.sender = ended]
      ELSE [p EXCEPT !.at = IF PushDone(queued) THEN "done" ELSE "turn",
                     !.sender = queued, !.msg = EmptyMessage, !.out = Append(@, msg)]

PushStep(p) == CASE p.at = "turn" -> BeginTurn(p)
                 [] p.at = "fill" -> IF FillStops(p.sender, p.msg) THEN FinishTurn(p) ELSE Fill(p)
                 [] p.at = "done" -> p

\* The whole of push(), if it returns within so many steps.
SenderPush(s, steps) ==
  CHOOSE p \in FoldLeft(LAMBDA reached, i : {PushStep(p) : p \in reached},
                        {Pushing(s)}, [i \in 1 .. steps |-> i]) : TRUE
-----------------------------------------------------------------------------
\* receive(): the window is taken over as it is, then the queue is gone through from the
\* front, one message a turn.
TakeWindow(s, window_size, rst) ==
  [s EXCEPT !.cur_win_size_ = window_size,
            !.win_advertised_zero = (window_size = 0),
            !.input_ = IF rst THEN SetError(@) ELSE @]

Absolute64(s, seqno) == Unwrap(seqno, s.isn_, s.input_.totalPushed)

\* The ackno ends the oldest message, or everything in flight.
AcksFront(s, ackno) ==
  /\ s.msg_queue_ # <<>>
  /\ LET front == Head(s.msg_queue_)
     IN  Absolute64(s, ackno) \in {Absolute64(s, front.seqno) + SequenceLength(front),
                                   Absolute64(s, front.seqno) + s.bytes_in_queue_}

PopAcked(s) == [s EXCEPT !.fin_received = @ \/ Head(s.msg_queue_).FIN,
                         !.bytes_in_queue_ = @ - SequenceLength(Head(s.msg_queue_)),
                         !.consec_retransmissions = 0,
                         !.time_since_last_send = 0,
                         !.msg_queue_ = Tail(@)]

\* The whole of receive(): a turn that frees nothing is the last one.
SenderReceive(s, msg) ==
  CHOOSE t \in FoldLeft(LAMBDA reached, i : {IF AcksFront(t, msg.ackno) THEN PopAcked(t) ELSE t :
                                               t \in reached},
                        {TakeWindow(s, msg.window_size, msg.RST)}, s.msg_queue_) : TRUE
-----------------------------------------------------------------------------
\* tick(): the oldest message is sent again when the time is up, which doubles with each
\* retransmission unless the window was zero.
TimedOut(s, ms) ==
  s.msg_queue_ # <<>> /\ s.time_since_last_send + ms >= InitialRTO * 2 ^ s.consec_retransmissions

SenderTick(s, ms) ==
  IF s.msg_queue_ = <<>> THEN s
  ELSE IF TimedOut(s, ms)
       THEN [s EXCEPT !.time_since_last_send = 0,
                      !.consec_retransmissions = @ + Flag(~s.win_advertised_zero)]
       ELSE [s EXCEPT !.time_since_last_send = @ + ms]

\* make_empty_message()
MakeEmptyMessage(s) ==
  [EmptyMessage EXCEPT !.seqno = Plus(s.isn_, s.input_.totalPopped + 1 + Flag(s.fin)),
                       !.RST = s.input_.error_]
=============================================================================

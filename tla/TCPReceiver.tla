---------------------------- MODULE TCPReceiver ----------------------------
(***************************************************************************)
(* The TCPReceiver of src/src/tcp_receiver.cc: it turns the sequence       *)
(* numbers of segments into stream indices for its Reassembler, and the    *)
(* progress of the Reassembler into acknowledgment numbers.  cur_seq is    *)
(* the next sequence number it expects, kept as a raw 32-bit number.       *)
(***************************************************************************)
EXTENDS Reassembler, Wrap32

CONSTANT MaxWindow         \* UINT16_MAX, 65535 in the code

ASSUME MaxWindowAssumption == MaxWindow \in Nat /\ MaxWindow > 0

NoAckno == -1              \* the empty optional

NewReceiver(capacity) ==
  [ reassembler_ |-> NewReassembler(capacity), isn_ |-> 0, cur_seq |-> 0,
    capacity |-> capacity, seen_syn |-> FALSE, syn_accounted |-> FALSE,
    seen_fin |-> FALSE, fin_accounted |-> FALSE ]

Pushed(r) == BytesPushed(r.reassembler_)

\* The numbers of the message and of cur_seq, unwrapped near the bytes pushed so far.
Absolute(r, seqno) == Unwrap(seqno, r.isn_, Pushed(r))

\* The three flags of a message come before its payload is looked at.
TakeFlags(r, message) ==
  [r EXCEPT !.isn_     = IF message.SYN THEN message.seqno ELSE @,
            !.cur_seq  = IF message.SYN THEN message.seqno ELSE @,
            !.seen_syn = @ \/ message.SYN,
            !.seen_fin = @ \/ message.FIN]

IsAhead(r, message) ==
  message.payload # <<>> /\ Absolute(r, message.seqno) > Absolute(r, r.cur_seq)

\* Faulty: the SYN is not subtracted; every payload is taken for the next one.
StreamIndexUnshifted(r, message) == Absolute(r, message.seqno)
StreamIndexNext(r, message) == Pushed(r)

\* The stream index a payload is inserted at: the absolute number less one for the SYN,
\* except where cur_seq still is the isn.
StreamIndex(r, message) ==
  LET number == Absolute(r, message.seqno)
      next   == Absolute(r, r.cur_seq)
  IN  IF message.payload # <<>> /\ number # next THEN U64(number - 1)
      ELSE IF r.cur_seq = r.isn_ THEN next ELSE U64(next - 1)

InsertPayload(r, message) ==
  [r EXCEPT !.reassembler_ = Insert(@, StreamIndex(r, message), message.payload, message.FIN)]

\* Faulty: the FIN is not counted; cur_seq does not wrap.
AdvanceNoFin(r, pushed_before) ==
  [r EXCEPT !.cur_seq = Plus(@, (Pushed(r) - pushed_before)
                                 + IF r.seen_syn /\ ~r.syn_accounted THEN 1 ELSE 0),
            !.syn_accounted = @ \/ r.seen_syn,
            !.fin_accounted = @ \/ r.seen_fin]

AdvanceUnwrapped(r, pushed_before) ==
  LET count(flag) == IF flag THEN 1 ELSE 0
  IN  [r EXCEPT !.cur_seq = @ + (Pushed(r) - pushed_before)
                              + count(r.seen_syn /\ ~r.syn_accounted)
                              + count(r.seen_fin /\ ~r.fin_accounted),
                !.syn_accounted = @ \/ r.seen_syn,
                !.fin_accounted = @ \/ r.seen_fin]

\* cur_seq moves on over the bytes written and, once each, over the SYN and the FIN.
Advance(r, pushed_before) ==
  LET count(flag) == IF flag THEN 1 ELSE 0
      syn == r.seen_syn /\ ~r.syn_accounted
      fin == r.seen_fin /\ ~r.fin_accounted
  IN  [r EXCEPT !.cur_seq = Plus(@, (Pushed(r) - pushed_before) + count(syn) + count(fin)),
                !.syn_accounted = @ \/ syn,
                !.fin_accounted = @ \/ fin]

\* receive(): a reset marks the stream; before the SYN nothing else is taken; a payload
\* past a gap is stored without touching cur_seq.
ReceiverReceive(rcv, message) ==
  LET marked   == IF message.RST
                  THEN [rcv EXCEPT !.reassembler_.output_ = Spoil(@)] ELSE rcv
      flagged  == TakeFlags(marked, message)
      inserted == InsertPayload(flagged, message)
  IN  IF ~message.SYN /\ ~rcv.seen_syn THEN marked
      ELSE IF IsAhead(flagged, message) \/ inserted.reassembler_.fault # "none" THEN inserted
      ELSE Advance(inserted, Pushed(rcv))

\* Faulty: the bytes the reader has not taken are forgotten.
WindowOfCapacity(r) == Least(r.capacity, MaxWindow)

\* send(): the window is computed in 32 bits and stored in 16.
WindowSize(r) ==
  (Least(r.capacity, MaxWindow) - Len(r.reassembler_.output_.buf)) % (MaxWindow + 1)

ReceiverSend(r) == [ ackno       |-> IF r.seen_syn THEN r.cur_seq ELSE NoAckno,
                     window_size |-> WindowSize(r),
                     RST         |-> r.reassembler_.output_.error ]
=============================================================================

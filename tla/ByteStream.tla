----------------------------- MODULE ByteStream -----------------------------
(***************************************************************************)
(* The ByteStream object of src/src/byte_stream.hh: a record with the      *)
(* members of the class, and one operator for each method of its Writer    *)
(* and Reader faces.  The deque is a sequence of chunks, each chunk the    *)
(* sequence of the bytes one push() put there.  The objects that own a     *)
(* ByteStream use these operators; ByteStreamMachine runs them.            *)
(***************************************************************************)
EXTENDS CppString

NewStream(capacity) ==
  [ capacity_ |-> capacity, deck_ |-> <<>>, error_ |-> FALSE, isClosed |-> FALSE,
    totalPushed |-> 0, totalPopped |-> 0, bytes_in_deck_ |-> 0 ]

Streams(Byte) ==
  [ capacity_ : Nat, deck_ : Seq(Seq(Byte)), error_ : BOOLEAN, isClosed : BOOLEAN,
    totalPushed : Nat, totalPopped : Nat, bytes_in_deck_ : Nat ]

AvailableCapacity(s) == s.capacity_ - s.bytes_in_deck_
BytesBuffered(s)     == s.bytes_in_deck_
IsFinished(s)        == s.isClosed /\ s.deck_ = <<>>
Peek(s)              == IF s.deck_ = <<>> THEN <<>> ELSE Head(s.deck_)

\* Faulty push(): empty strings become chunks; a closed stream takes bytes; the buffered
\* bytes are counted before the string is clipped.
PushKeepsEmpty(s, data) ==
  LET cur_str == Substr(data, 0, AvailableCapacity(s))
  IN  IF s.isClosed THEN s
      ELSE [s EXCEPT !.deck_ = Append(@, cur_str), !.totalPushed = @ + Len(cur_str),
                     !.bytes_in_deck_ = @ + Len(cur_str)]

PushAfterClose(s, data) ==
  LET cur_str == Substr(data, 0, AvailableCapacity(s))
  IN  IF cur_str = <<>> THEN s
      ELSE [s EXCEPT !.deck_ = Append(@, cur_str), !.totalPushed = @ + Len(cur_str),
                     !.bytes_in_deck_ = @ + Len(cur_str)]

PushCountsAll(s, data) ==
  LET cur_str == Substr(data, 0, AvailableCapacity(s))
  IN  IF cur_str = <<>> \/ s.isClosed THEN s
      ELSE [s EXCEPT !.deck_ = Append(@, cur_str), !.totalPushed = @ + Len(cur_str),
                     !.bytes_in_deck_ = @ + Len(data)]

WriterPush(s, data) ==
  LET cur_str == Substr(data, 0, AvailableCapacity(s))
  IN  IF AvailableCapacity(s) = 0 \/ s.isClosed \/ data = <<>>
      THEN s
      ELSE [s EXCEPT !.deck_ = Append(@, cur_str),
                     !.totalPushed = @ + Len(cur_str),
                     !.bytes_in_deck_ = @ + Len(cur_str)]

WriterClose(s) == [s EXCEPT !.isClosed = TRUE]
SetError(s)    == [s EXCEPT !.error_ = TRUE]

\* What one turn of the loop of pop() removes when `left` bytes are still to go.
PopTaken(s, left) == Least(left, Len(Head(s.deck_)))

\* Faulty pop(): every turn subtracts all of len; an emptied chunk stays in the deque.
PopCountsLeft(s, left) ==
  LET front == Head(s.deck_)
  IN  [s EXCEPT !.deck_ = IF Len(front) <= left THEN Tail(@)
                          ELSE [@ EXCEPT ![1] = Substr(front, left, Len(front))],
                !.totalPopped = @ + PopTaken(s, left),
                !.bytes_in_deck_ = @ - left]

PopKeepsEmpty(s, left) ==
  LET front == Head(s.deck_)
      taken == PopTaken(s, left)
  IN  [s EXCEPT !.deck_ = IF Len(front) < left THEN Tail(@)
                          ELSE [@ EXCEPT ![1] = Substr(front, taken, Len(front))],
                !.totalPopped = @ + taken,
                !.bytes_in_deck_ = @ - taken]

\* One turn of the loop of pop(): drop the front chunk, or cut its head off.
PopTurn(s, left) ==
  LET front == Head(s.deck_)
      taken == PopTaken(s, left)
  IN  [s EXCEPT !.deck_ = IF Len(front) <= left
                          THEN Tail(@)
                          ELSE [@ EXCEPT ![1] = Substr(front, taken, Len(front))],
                !.totalPopped = @ + taken,
                !.bytes_in_deck_ = @ - taken]

\* pop( len ) with len <= peek().size(), as every caller in src/ uses it: one turn.
PopFront(s, len) == IF s.deck_ = <<>> \/ len = 0 THEN s ELSE PopTurn(s, len)
-----------------------------------------------------------------------------
\* A chunk is a non-empty run of consecutive bytes, and each chunk goes on where
\* the one before it ends.
Consecutive(c) == c # <<>> /\ \A j \in 1 .. Len(c) : c[j] = c[1] + j - 1
After(c)       == c[1] + Len(c)

Tile(d, from, to, i) == /\ Consecutive(d[i])
                        /\ d[i][1] = IF i = 1 THEN from ELSE After(d[i - 1])
                        /\ After(d[i]) <= to

\* The chunks of d are the bytes from .. to - 1, each once and in order.
Tiles(d, from, to) ==
  /\ \A i \in 1 .. Len(d) : Tile(d, from, to, i)
  /\ to = IF d = <<>> THEN from ELSE After(d[Len(d)])

\* The deque holds the bytes pushed and not yet popped, and the counters agree.
Tiled(s) ==
  /\ Tiles(s.deck_, s.totalPopped, s.totalPushed)
  /\ s.bytes_in_deck_ = s.totalPushed - s.totalPopped
  /\ s.bytes_in_deck_ <= s.capacity_
=============================================================================

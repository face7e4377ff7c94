------------------------------ MODULE BytePipe ------------------------------
(***************************************************************************)
(* What a ByteStream is to the objects that own one: a bounded first-in    *)
(* first-out pipe of bytes that knows nothing of chunks.  BoundedPipe is   *)
(* the specification over it that ByteStreamMachine implements.            *)
(***************************************************************************)
EXTENDS CppString

NewPipe(capacity) ==
  [ cap |-> capacity, buf |-> <<>>, pushed |-> 0, popped |-> 0,
    closed |-> FALSE, error |-> FALSE ]

Room(p) == p.cap - Len(p.buf)

\* As much of data as fits goes to the back of the pipe; nothing after a close.
Put(p, data) ==
  LET fits == Substr(data, 0, Room(p))
  IN  IF p.closed THEN p
      ELSE [p EXCEPT !.buf = @ \o fits, !.pushed = @ + Len(fits)]

Take(p, n) == [p EXCEPT !.buf = SubSeq(@, n + 1, Len(@)), !.popped = @ + n]

Shut(p) == [p EXCEPT !.closed = TRUE]
Spoil(p) == [p EXCEPT !.error = TRUE]
Drained(p) == p.closed /\ p.buf = <<>>
=============================================================================

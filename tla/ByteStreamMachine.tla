------------------------- MODULE ByteStreamMachine -------------------------
(***************************************************************************)
(* One ByteStream under every sequence of calls its owner may make.  The   *)
(* loops of pop() and of the read() helper are steps of their own; no      *)
(* other method runs while one of them has not returned, since the object  *)
(* belongs to one thread.                                                  *)
(***************************************************************************)
EXTENDS ByteStream, SequencesExt

CONSTANTS Capacity,        \* capacity_ of the stream
          MaxBytes         \* bytes ever pushed, and the longest string pushed

ASSUME CapacityAssumption == Capacity \in Nat
ASSUME MaxBytesAssumption == MaxBytes \in Nat

VARIABLES stream,          \* the object
          popLeft,         \* len - bytes_removed of the pop() in progress, 0 if none
          reading          \* the read() in progress

vars == <<stream, popLeft, reading>>

NotReading == [on |-> FALSE, len |-> 0, from |-> 0, had |-> 0, out |-> <<>>]

Init == /\ stream = NewStream(Capacity)
        /\ popLeft = 0
        /\ reading = NotReading

Idle == popLeft = 0 /\ ~reading.on

Push(n) == /\ Idle
           /\ stream.totalPushed + n <= MaxBytes
           /\ stream' = WriterPush(stream, Bytes(stream.totalPushed, n))
           /\ UNCHANGED <<popLeft, reading>>

Close == /\ Idle
         /\ stream' = WriterClose(stream)
         /\ UNCHANGED <<popLeft, reading>>

Error == /\ Idle
         /\ stream' = SetError(stream)
         /\ UNCHANGED <<popLeft, reading>>

\* A call of pop(): the callers ask for no more than is buffered, and the loop is
\* not entered on an empty deque.
Pop(len) == /\ Idle
            /\ len <= BytesBuffered(stream)
            /\ stream.deck_ # <<>>
            /\ popLeft' = len
            /\ UNCHANGED <<stream, reading>>

PopLoop == /\ popLeft > 0
           /\ stream' = PopTurn(stream, popLeft)
           /\ popLeft' = popLeft - PopTaken(stream, popLeft)
           /\ UNCHANGED reading

\* read( reader, len, out ): `from` and `had` remember where the call began.
Read(len) == /\ Idle
             /\ reading' = [on |-> TRUE, len |-> len, from |-> stream.totalPopped,
                            had |-> BytesBuffered(stream), out |-> <<>>]
             /\ UNCHANGED <<stream, popLeft>>

ReadGoesOn == BytesBuffered(stream) # 0 /\ Len(reading.out) < reading.len

\* A faulty read(): the view is not clipped to what is left of len.
ReadLoopWhole == /\ reading.on /\ popLeft = 0 /\ ReadGoesOn
                 /\ reading' = [reading EXCEPT !.out = @ \o Peek(stream)]
                 /\ popLeft' = Len(Peek(stream))
                 /\ UNCHANGED stream

ReadLoop == LET view == Substr(Peek(stream), 0, reading.len - Len(reading.out))
            IN  /\ reading.on /\ popLeft = 0 /\ ReadGoesOn
                /\ view # <<>>
                /\ reading' = [reading EXCEPT !.out = @ \o view]
                /\ popLeft' = Len(view)
                /\ UNCHANGED stream

ReadReturn == /\ reading.on /\ popLeft = 0 /\ ~ReadGoesOn
              /\ reading' = NotReading
              /\ UNCHANGED <<stream, popLeft>>

Next == \/ \E n \in 0 .. MaxBytes : Push(n)
        \/ Close
        \/ Error
        \/ \E len \in 1 .. MaxBytes : Pop(len)
        \/ PopLoop
        \/ \E len \in 0 .. MaxBytes + 1 : Read(len)
        \/ ReadLoop
        \/ ReadReturn

\* A method that was called runs to its end: the loops are fair, the calls are not.
Spec == Init /\ [][Next]_vars /\ WF_vars(PopLoop) /\ WF_vars(ReadLoop) /\ WF_vars(ReadReturn)
-----------------------------------------------------------------------------
\* The members keep their types and the call in progress keeps to its bounds.
TypeOK == /\ stream \in Streams(Nat)
          /\ popLeft \in Nat
          /\ reading \in [on : BOOLEAN, len : Nat, from : Nat, had : Nat, out : Seq(Nat)]

\* The deque holds the bytes totalPopped .. totalPushed - 1, each once, in order, in
\* chunks none of which is empty; the three counters push() and pop() keep apart
\* agree, and available_capacity() never underflows.
Tiling == Tiled(stream)

\* pop() never reaches for the front of an empty deque: what is still to be removed
\* is still there, whatever chunks it is spread over.
PopHasBytes == popLeft <= stream.bytes_in_deck_

\* read() never finds an empty view while bytes are buffered, so it never throws.
ReadNeverThrows == BytesBuffered(stream) # 0 => Peek(stream) # <<>>

\* read() returns the next bytes of the stream: as many as it was asked for, or all
\* that were buffered when it was called, and it removes what it returns.
ReadExact ==
  reading.on =>
    /\ reading.out = Bytes(reading.from, Len(reading.out))
    /\ Len(reading.out) <= Least(reading.len, reading.had)
    /\ popLeft = 0 => stream.totalPopped = reading.from + Len(reading.out)
    /\ (popLeft = 0 /\ ~ReadGoesOn) => Len(reading.out) = Least(reading.len, reading.had)

\* The loops of pop() and read() end.
CallsReturn == []<>Idle

\* The chunks are invisible: the stream is a bounded pipe of bytes.
Pipe == INSTANCE BoundedPipe WITH
          pipe <- [ cap |-> stream.capacity_, buf |-> FlattenSeq(stream.deck_),
                    pushed |-> stream.totalPushed, popped |-> stream.totalPopped,
                    closed |-> stream.isClosed, error |-> stream.error_ ]
ImplementsPipe == Pipe!Spec
=============================================================================

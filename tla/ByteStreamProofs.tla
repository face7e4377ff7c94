-------------------------- MODULE ByteStreamProofs --------------------------
(***************************************************************************)
(* Proofs about the ByteStream for every capacity and every length of      *)
(* stream: its methods keep the deque tiled with the bytes not yet read,   *)
(* and so pop() and read() never meet an empty deque.                      *)
(***************************************************************************)
EXTENDS ByteStreamMachine, BytePipe, StreamLemmas

-----------------------------------------------------------------------------
\* The inductive invariant: types, the tiling of the deque, and that the pop() in
\* progress asks for no more than is buffered.
IInv == TypeOK /\ Tiling /\ PopHasBytes

\* A new stream is empty and satisfies the invariant.
LEMMA InitIInv == Init => IInv
<1> SUFFICES ASSUME Init PROVE IInv
  OBVIOUS
<1>1. stream \in Streams(Nat) /\ stream.bytes_in_deck_ = 0
  BY CapacityAssumption DEF Init, NewStream, Streams
<1>2. Tiled(stream)
  BY CapacityAssumption DEF Init, NewStream, Tiled, Tiles
<1>3. reading \in [on : BOOLEAN, len : Nat, from : Nat, had : Nat, out : Seq(Nat)]
  BY DEF Init, NotReading
<1> QED BY <1>1, <1>2, <1>3 DEF Init, IInv, TypeOK, Tiling, PopHasBytes

\* Every step of a call keeps it.
LEMMA NextIInv == IInv /\ [Next]_vars => IInv'
<1> SUFFICES ASSUME IInv, [Next]_vars PROVE IInv'
  OBVIOUS
<1> USE DEF IInv, Tiling, PopHasBytes
<1>0. /\ stream \in Streams(Nat) /\ Tiled(stream)
      /\ popLeft \in Nat /\ popLeft <= stream.bytes_in_deck_
      /\ reading \in [on : BOOLEAN, len : Nat, from : Nat, had : Nat, out : Seq(Nat)]
  BY DEF TypeOK
<1>00. stream.bytes_in_deck_ \in Nat /\ stream.totalPopped \in Nat
  BY <1>0, StreamFields
<1>1. ASSUME NEW n \in 0 .. MaxBytes, Push(n) PROVE IInv'
  <2>1. n \in Nat
    BY MaxBytesAssumption
  <2>2. /\ stream' \in Streams(Nat) /\ Tiled(stream')
        /\ stream'.bytes_in_deck_ >= stream.bytes_in_deck_
    BY <1>0, <1>1, <2>1, WriterPushTiled DEF Push
  <2>3. stream'.bytes_in_deck_ \in Nat
    BY <2>2, StreamFields
  <2> QED BY <1>0, <1>00, <1>1, <2>2, <2>3 DEF Push, TypeOK
<1>2. CASE Close
  <2>1. stream' \in Streams(Nat) /\ stream'.bytes_in_deck_ = stream.bytes_in_deck_
    BY <1>0, <1>2 DEF Close, WriterClose, Streams
  <2>2. Tiled(stream')
    BY <1>0, <1>2 DEF Close, WriterClose, Streams, Tiled
  <2> QED BY <1>0, <1>2, <2>1, <2>2 DEF Close, TypeOK
<1>3. CASE Error
  <2>1. stream' \in Streams(Nat) /\ stream'.bytes_in_deck_ = stream.bytes_in_deck_
    BY <1>0, <1>3 DEF Error, SetError, Streams
  <2>2. Tiled(stream')
    BY <1>0, <1>3 DEF Error, SetError, Streams, Tiled
  <2> QED BY <1>0, <1>3, <2>1, <2>2 DEF Error, TypeOK
<1>4. ASSUME NEW len \in 1 .. MaxBytes, Pop(len) PROVE IInv'
  BY <1>0, <1>4 DEF Pop, BytesBuffered, TypeOK
<1>5. CASE PopLoop
  <2>1. PICK taken \in 1 .. popLeft :
          /\ taken = PopTaken(stream, popLeft)
          /\ stream' \in Streams(Nat) /\ Tiled(stream')
          /\ stream'.bytes_in_deck_ = stream.bytes_in_deck_ - taken
    BY <1>0, <1>5, PopTurnTiled DEF PopLoop
  <2>2. popLeft' = popLeft - taken /\ reading' = reading
    BY <1>5, <2>1 DEF PopLoop
  <2>3. popLeft' \in Nat /\ popLeft' <= stream'.bytes_in_deck_
    BY <1>0, <1>00, <2>1, <2>2
  <2> QED BY <1>0, <2>1, <2>2, <2>3 DEF TypeOK
<1>6. ASSUME NEW len \in 0 .. MaxBytes + 1, Read(len) PROVE IInv'
  BY <1>0, <1>00, <1>6, MaxBytesAssumption DEF Read, BytesBuffered, TypeOK
<1>7. CASE ReadLoop
  <2>1. stream.bytes_in_deck_ # 0 /\ Len(reading.out) < reading.len
    BY <1>7 DEF ReadLoop, ReadGoesOn, BytesBuffered
  <2>2. PICK front \in Seq(Nat) :
          front = Peek(stream) /\ Len(front) \in 1 .. stream.bytes_in_deck_
    BY <1>0, <2>1, FrontFits
  <2>3. PICK want \in Nat : want = reading.len - Len(reading.out)
    BY <1>0, <2>1
  <2>4. PICK view \in Seq(Nat) : view = Substr(front, 0, want) /\ Len(view) = Least(want, Len(front))
    <3>1. 0 \in 0 .. Len(front) /\ Len(front) - 0 = Len(front)
      BY <2>2
    <3>2. /\ Substr(front, 0, want) \in Seq(Nat)
          /\ Len(Substr(front, 0, want)) = Least(want, Len(front) - 0)
      BY <2>2, <2>3, <3>1, SubstrRun
    <3> QED BY <3>1, <3>2, Zenon
  <2>5. Len(view) \in Nat /\ Len(view) <= stream.bytes_in_deck_
    <3>1. Len(front) \in Nat /\ Len(front) <= stream.bytes_in_deck_
      BY <1>00, <2>2
    <3>2. Least(want, Len(front)) \in Nat /\ Least(want, Len(front)) <= Len(front)
      BY <3>1, LeastBounds
    <3> QED BY <1>00, <2>4, <3>1, <3>2
  <2>6. /\ reading' = [reading EXCEPT !.out = @ \o view]
        /\ popLeft' = Len(view)
        /\ stream' = stream
    BY <1>7, <2>2, <2>3, <2>4 DEF ReadLoop
  <2>7. reading' \in [on : BOOLEAN, len : Nat, from : Nat, had : Nat, out : Seq(Nat)]
    <3>1. reading.out \o view \in Seq(Nat)
      BY <1>0, ConcatProperties
    <3> QED BY <1>0, <2>6, <3>1
  <2> QED BY <1>0, <2>5, <2>6, <2>7 DEF TypeOK
<1>8. CASE ReadReturn
  BY <1>0, <1>8 DEF ReadReturn, NotReading, TypeOK
<1>9. CASE UNCHANGED vars
  BY <1>0, <1>9 DEF vars, TypeOK
<1> QED BY <1>1, <1>2, <1>3, <1>4, <1>5, <1>6, <1>7, <1>8, <1>9 DEF Next

\* For every capacity and every length of stream push(), pop() and the read() helper keep the
\* types of the ByteStream's members: no counter of the deque goes below zero.
THEOREM ByteStreamTyped == Spec => []TypeOK
<1>1. IInv => TypeOK
  BY DEF IInv
<1> QED BY <1>1, InitIInv, NextIInv, PTL DEF Spec

\* The deque stays tiled with exactly the bytes pushed and not popped, within the capacity,
\* and pop() never runs out of chunks.
THEOREM ByteStreamTiling == Spec => [](Tiling /\ PopHasBytes)
<1>1. IInv => Tiling /\ PopHasBytes
  BY DEF IInv
<1> QED BY <1>1, InitIInv, NextIInv, PTL DEF Spec

\* The exception at the heart of the read() helper is never thrown: while bytes are
\* buffered peek() returns some.
THEOREM ByteStreamReadNeverThrows == Spec => []ReadNeverThrows
<1>1. IInv => ReadNeverThrows
  BY FrontFits DEF IInv, TypeOK, Tiling, ReadNeverThrows, BytesBuffered
<1> QED BY <1>1, InitIInv, NextIInv, PTL DEF Spec

-----------------------------------------------------------------------------
\* A read() in progress has returned the run of bytes that begins where it was called, the
\* pop() it is in removes the last of them, and what is still buffered is what was
\* buffered at the call less what was returned.
Progress == reading.on =>
              /\ reading.out = Bytes(reading.from, Len(reading.out))
              /\ stream.totalPopped + popLeft = reading.from + Len(reading.out)
              /\ stream.bytes_in_deck_ - popLeft + Len(reading.out) = reading.had
              /\ Len(reading.out) <= reading.len

\* Nothing but the loops changes the stream while a read() is in progress, and a turn of
\* its loop continues the run.
LEMMA NextProgress == IInv /\ Progress /\ [Next]_vars => Progress'
<1> SUFFICES ASSUME IInv, Progress, [Next]_vars PROVE Progress'
  OBVIOUS
<1> USE DEF IInv, Tiling, PopHasBytes
<1>0. /\ stream \in Streams(Nat) /\ Tiled(stream)
      /\ popLeft \in Nat /\ popLeft <= stream.bytes_in_deck_
      /\ reading \in [on : BOOLEAN, len : Nat, from : Nat, had : Nat, out : Seq(Nat)]
  BY DEF TypeOK
<1>00. /\ stream.bytes_in_deck_ \in Nat /\ stream.totalPopped \in Nat
       /\ Len(reading.out) \in Nat /\ reading.from \in Nat /\ reading.len \in Nat
       /\ reading.had \in Nat /\ reading.out \in Seq(Nat)
  BY <1>0, StreamFields
<1>1. CASE ~reading'.on
  BY <1>1 DEF Progress
<1>2. CASE PopLoop
  <2>1. PICK taken \in 1 .. popLeft :
          /\ taken = PopTaken(stream, popLeft)
          /\ stream'.totalPopped = stream.totalPopped + taken
          /\ stream'.bytes_in_deck_ = stream.bytes_in_deck_ - taken
    BY <1>0, <1>2, PopTurnTiled DEF PopLoop
  <2>2. popLeft' = popLeft - taken /\ reading' = reading
    BY <1>2, <2>1 DEF PopLoop
  <2>3. PICK k \in Nat, popped \in Nat, held \in Nat :
          k = Len(reading.out) /\ popped = stream.totalPopped /\ held = stream.bytes_in_deck_
    BY <1>00, Zenon
  <2>4. /\ (popped + taken) + (popLeft - taken) = popped + popLeft
        /\ (held - taken) - (popLeft - taken) + k = held - popLeft + k
    BY <1>0, <2>3, SMTT(30)
  <2> QED BY <2>1, <2>2, <2>3, <2>4, Zenon DEF Progress
<1>3. ASSUME NEW len \in 0 .. MaxBytes + 1, Read(len) PROVE Progress'
  <2>1. /\ reading'.out = <<>> /\ reading'.from = stream.totalPopped /\ reading'.len = len
        /\ reading'.had = stream.bytes_in_deck_ /\ stream' = stream /\ popLeft' = popLeft
        /\ popLeft = 0
    BY <1>3 DEF Read, BytesBuffered, Idle
  <2>2. Bytes(stream.totalPopped, 0) = <<>>
    BY <1>00, BytesEmpty
  <2> QED BY <1>00, <2>1, <2>2, MaxBytesAssumption DEF Progress
<1>4. CASE ReadLoop
  <2>1. /\ stream.bytes_in_deck_ # 0 /\ Len(reading.out) < reading.len
        /\ popLeft = 0 /\ reading.on
    BY <1>4 DEF ReadLoop, ReadGoesOn, BytesBuffered
  <2>2. PICK want \in Nat : want = reading.len - Len(reading.out) /\ want # 0
    BY <1>00, <2>1
  <2>3. PICK n \in Nat : n <= want /\ Substr(Peek(stream), 0, want) = Bytes(stream.totalPopped, n)
    BY <1>0, <2>1, <2>2, ViewRun
  <2>6. /\ reading' = [reading EXCEPT !.out = @ \o Bytes(stream.totalPopped, n)]
        /\ popLeft' = Len(Bytes(stream.totalPopped, n)) /\ stream' = stream
    BY <1>4, <2>2, <2>3, Zenon DEF ReadLoop
  <2>7. PICK k \in Nat, from \in Nat, popped \in Nat, held \in Nat :
          /\ k = Len(reading.out) /\ from = reading.from
          /\ popped = stream.totalPopped /\ held = stream.bytes_in_deck_
    BY <1>00, Zenon
  <2>16. /\ reading.out = Bytes(from, k)
         /\ popped + 0 = from + k
         /\ held - 0 + k = reading.had
    BY <2>1, <2>7, Zenon DEF Progress
  <2>17. popped = from + k /\ reading.had = held + k
    BY <2>7, <2>16
  <2>8. reading.out \o Bytes(popped, n) = Bytes(from, k + n)
    <3>1. Bytes(from, k) \o Bytes(from + k, n) = Bytes(from, k + n)
      BY BytesConcat
    <3> QED BY <2>16, <2>17, <3>1, Zenon
  <2>9. /\ reading'.out = Bytes(from, k + n)
        /\ reading'.from = from /\ reading'.len = reading.len /\ reading'.had = reading.had
    <3>1. /\ reading'.out = reading.out \o Bytes(popped, n)
          /\ reading'.from = reading.from /\ reading'.len = reading.len /\ reading'.had = reading.had
      BY <1>0, <2>6, <2>7
    <3> QED BY <2>7, <2>8, <3>1, Zenon
  <2>10. k + n \in Nat /\ Len(Bytes(from, k + n)) = k + n /\ Len(Bytes(popped, n)) = n
    <3>1. k + n \in Nat
      OBVIOUS
    <3> QED BY <3>1, BytesRun
  <2>11. Len(reading'.out) = k + n /\ popLeft' = n
    BY <2>6, <2>7, <2>9, <2>10, Zenon
  <2>12. reading'.out = Bytes(reading'.from, Len(reading'.out))
    BY <2>9, <2>11, Zenon
  <2>13. Len(reading'.out) <= reading'.len
    <3>1. PICK len \in Nat : len = reading.len
      BY <1>00, Zenon
    <3>2. want = len - k
      BY <2>2, <2>7, <3>1, Zenon
    <3>3. k + n <= len
      BY <2>3, <3>1, <3>2
    <3> QED BY <2>9, <2>11, <3>1, <3>3, Zenon
  <2>14. popped + n = from + (k + n) /\ held - n + (k + n) = reading.had
    BY <2>17
  <2>15. /\ stream'.totalPopped + popLeft' = reading'.from + Len(reading'.out)
         /\ stream'.bytes_in_deck_ - popLeft' + Len(reading'.out) = reading'.had
    BY <2>6, <2>7, <2>9, <2>11, <2>14, Zenon
  <2> QED BY <2>12, <2>13, <2>15, Zenon DEF Progress
<1>5. CASE UNCHANGED vars
  BY <1>5 DEF vars, Progress
<1>6. CASE \/ \E n \in 0 .. MaxBytes : Push(n)
           \/ Close \/ Error \/ \E len \in 1 .. MaxBytes : Pop(len)
  BY <1>1, <1>6 DEF Push, Close, Error, Pop, Idle
<1>7. CASE ReadReturn
  BY <1>1, <1>7 DEF ReadReturn, NotReading
<1> QED BY <1>2, <1>3, <1>4, <1>5, <1>6, <1>7 DEF Next

\* read() hands its caller the next bytes of the stream, each once: as many as it asked
\* for, or all that were buffered at the call, and it takes exactly those out.
THEOREM ByteStreamReadExact == Spec => []ReadExact
<1>1. Init => Progress
  BY DEF Init, NotReading, Progress
<1>2. IInv /\ Progress => ReadExact
  <2> SUFFICES ASSUME IInv, Progress, reading.on PROVE ReadExact
    BY DEF ReadExact
  <2>1. /\ stream \in Streams(Nat) /\ popLeft \in Nat /\ popLeft <= stream.bytes_in_deck_
        /\ reading \in [on : BOOLEAN, len : Nat, from : Nat, had : Nat, out : Seq(Nat)]
    BY DEF IInv, TypeOK, PopHasBytes
  <2>2. /\ stream.bytes_in_deck_ \in Nat /\ stream.totalPopped \in Nat
        /\ Len(reading.out) \in Nat /\ reading.from \in Nat /\ reading.len \in Nat
        /\ reading.had \in Nat
    BY <2>1, StreamFields
  <2>3. Len(reading.out) <= Least(reading.len, reading.had)
    BY <2>1, <2>2 DEF Progress, Least
  <2>4. popLeft = 0 => stream.totalPopped = reading.from + Len(reading.out)
    BY <2>2 DEF Progress
  <2>5. (popLeft = 0 /\ ~ReadGoesOn) => Len(reading.out) = Least(reading.len, reading.had)
    BY <2>2 DEF Progress, ReadGoesOn, BytesBuffered, Least
  <2>6. reading.out = Bytes(reading.from, Len(reading.out))
    BY DEF Progress
  <2> QED BY <2>3, <2>4, <2>5, <2>6, Zenon DEF ReadExact
<1> QED BY <1>1, <1>2, InitIInv, NextIInv, NextProgress, PTL DEF Spec

-----------------------------------------------------------------------------
\* What a tiled stream looks like without its chunks.
PipeOf(s) == [ cap |-> s.capacity_, buf |-> FlattenSeq(s.deck_), pushed |-> s.totalPushed,
               popped |-> s.totalPopped, closed |-> s.isClosed, error |-> s.error_ ]

LEMMA PipeOfTiled ==
  ASSUME NEW s \in Streams(Nat), Tiled(s)
  PROVE  PipeOf(s) = [ cap |-> s.capacity_, buf |-> Bytes(s.totalPopped, s.bytes_in_deck_),
                       pushed |-> s.totalPushed, popped |-> s.totalPopped,
                       closed |-> s.isClosed, error |-> s.error_ ]
<1>1. /\ s.deck_ \in Seq(Seq(Nat)) /\ s.totalPopped \in Nat /\ s.totalPushed \in Nat
      /\ s.bytes_in_deck_ = s.totalPushed - s.totalPopped
      /\ Tiles(s.deck_, s.totalPopped, s.totalPushed)
  BY StreamFields, Zenon DEF Tiled
<1>2. FlattenSeq(s.deck_) = Bytes(s.totalPopped, s.totalPushed - s.totalPopped)
  BY <1>1, FlattenTiles
<1> QED BY <1>1, <1>2, Zenon DEF PipeOf

\* push() puts into the pipe what fits.
LEMMA PushIsPut ==
  ASSUME NEW s \in Streams(Nat), Tiled(s), NEW n \in Nat
  PROVE  PipeOf(WriterPush(s, Bytes(s.totalPushed, n))) = Put(PipeOf(s), Bytes(s.totalPushed, n))
<1>1. PICK t : t = WriterPush(s, Bytes(s.totalPushed, n))
  OBVIOUS
<1>2. t \in Streams(Nat) /\ Tiled(t)
  BY <1>1, WriterPushTiled
<1>3. PICK cap \in Nat, popped \in Nat, pushed \in Nat, held \in Nat :
        /\ cap = s.capacity_ /\ popped = s.totalPopped /\ pushed = s.totalPushed
        /\ held = s.bytes_in_deck_ /\ held = pushed - popped
  BY StreamFields, Zenon DEF Tiled
<1>4. PICK k : k = IF s.isClosed THEN 0 ELSE Least(AvailableCapacity(s), n)
  OBVIOUS
<1>5. /\ AvailableCapacity(s) \in Nat
      /\ t.totalPushed = pushed + k /\ t.totalPopped = popped /\ t.capacity_ = cap
      /\ t.isClosed = s.isClosed /\ t.error_ = s.error_
  <2>1. /\ AvailableCapacity(s) \in Nat
        /\ t.totalPushed = s.totalPushed + IF s.isClosed THEN 0 ELSE Least(AvailableCapacity(s), n)
        /\ t.totalPopped = s.totalPopped /\ t.capacity_ = s.capacity_
        /\ t.isClosed = s.isClosed /\ t.error_ = s.error_
    BY <1>1, WriterPushCounts
  <2> QED BY <1>3, <1>4, <2>1, Zenon
<1>6. k \in Nat /\ pushed = popped + held
  <2>1. k \in Nat
    BY <1>4, <1>5, LeastBounds, Zenon
  <2>2. pushed = popped + held
    BY <1>3
  <2> QED BY <2>1, <2>2
<1>7. t.bytes_in_deck_ = held + k
  <2>1. t.bytes_in_deck_ = (pushed + k) - popped
    BY <1>2, <1>5, Zenon DEF Tiled
  <2>2. (pushed + k) - popped = held + k
    BY <1>6
  <2> QED BY <2>1, <2>2
<1>8. PipeOf(s) = [ cap |-> cap, buf |-> Bytes(popped, held), pushed |-> pushed, popped |-> popped,
                    closed |-> s.isClosed, error |-> s.error_ ]
  BY <1>3, PipeOfTiled, Zenon
<1>9. PipeOf(t) = [ cap |-> cap, buf |-> Bytes(popped, held + k), pushed |-> pushed + k,
                    popped |-> popped, closed |-> s.isClosed, error |-> s.error_ ]
  BY <1>2, <1>5, <1>7, PipeOfTiled, Zenon
<1>10. CASE s.isClosed
  <2>1. held + k = held /\ pushed + k = pushed
    BY <1>3, <1>4, <1>10
  <2>2. Put(PipeOf(s), Bytes(pushed, n)) = PipeOf(s)
    BY <1>8, <1>10 DEF Put
  <2> QED BY <1>1, <1>3, <1>8, <1>9, <2>1, <2>2, Zenon
<1>11. CASE ~s.isClosed
  <2>1. Room(PipeOf(s)) = AvailableCapacity(s)
    <3>1. Len(Bytes(popped, held)) = held
      BY BytesRun
    <3> QED BY <1>3, <1>8, <3>1 DEF Room, AvailableCapacity
  <2>2. PICK fits : fits = Substr(Bytes(pushed, n), 0, AvailableCapacity(s))
    OBVIOUS
  <2>3. fits = Bytes(pushed, k)
    <3>1. fits = Bytes(pushed + 0, Least(AvailableCapacity(s), n - 0))
      BY <1>5, <2>2, BytesPart
    <3>2. pushed + 0 = pushed /\ n - 0 = n
      OBVIOUS
    <3> QED BY <1>4, <1>11, <3>1, <3>2, Zenon
  <2>4. Len(fits) = k /\ Bytes(popped, held) \o fits = Bytes(popped, held + k)
    <3>1. Bytes(popped, held) \o Bytes(popped + held, k) = Bytes(popped, held + k)
      BY <1>6, BytesConcat, ZenonT(30)
    <3>2. Len(Bytes(pushed, k)) = k
      BY <1>6, BytesRun
    <3> QED BY <1>6, <2>3, <3>1, <3>2, Zenon
  <2>5. PICK p : p = PipeOf(s)
    OBVIOUS
  <2>6. Put(p, Bytes(pushed, n)) = [p EXCEPT !.buf = @ \o fits, !.pushed = @ + Len(fits)]
    <3>1. ~p.closed
      BY <1>8, <1>11, <2>5
    <3> QED BY <2>1, <2>2, <2>5, <3>1, Zenon DEF Put
  <2>7. PICK b, c : b = Bytes(popped, held) /\ c = b \o fits
    OBVIOUS
  <2>8. p = [ cap |-> cap, buf |-> b, pushed |-> pushed, popped |-> popped,
              closed |-> s.isClosed, error |-> s.error_ ]
    BY <1>8, <2>5, <2>7, Zenon
  <2>9. [p EXCEPT !.buf = @ \o fits, !.pushed = @ + Len(fits)]
          = [p EXCEPT !.buf = c, !.pushed = pushed + k]
    BY <2>4, <2>7, <2>8
  <2>10. [p EXCEPT !.buf = c, !.pushed = pushed + k]
           = [ cap |-> cap, buf |-> c, pushed |-> pushed + k, popped |-> popped,
               closed |-> s.isClosed, error |-> s.error_ ]
    <3> DEFINE q == [ cap |-> cap, buf |-> c, pushed |-> pushed, popped |-> popped,
                      closed |-> s.isClosed, error |-> s.error_ ]
    <3>1. [p EXCEPT !.buf = c, !.pushed = pushed + k]
            = [[p EXCEPT !.buf = c] EXCEPT !.pushed = pushed + k]
      OBVIOUS
    <3>2. [p EXCEPT !.buf = c] = q
      BY <2>8
    <3>3. [q EXCEPT !.pushed = pushed + k]
            = [ cap |-> cap, buf |-> c, pushed |-> pushed + k, popped |-> popped,
                closed |-> s.isClosed, error |-> s.error_ ]
      OBVIOUS
    <3> QED BY <3>1, <3>2, <3>3
  <2> QED BY <1>1, <1>3, <1>9, <2>4, <2>5, <2>6, <2>7, <2>9, <2>10, Zenon
<1> QED BY <1>10, <1>11

\* A turn of the loop of pop() takes at least one byte from the front of the pipe.
LEMMA PopTurnIsTake ==
  ASSUME NEW s \in Streams(Nat), Tiled(s),
         NEW left \in Nat, left # 0, left <= s.bytes_in_deck_
  PROVE  \E n \in 1 .. Len(PipeOf(s).buf) : PipeOf(PopTurn(s, left)) = Take(PipeOf(s), n)
<1>1. PICK t : t = PopTurn(s, left)
  OBVIOUS
<1>2. PICK n \in 1 .. left : n = PopTaken(s, left)
  BY PopTurnTiled
<1>3. PICK popped \in Nat, held \in Nat :
        popped = s.totalPopped /\ held = s.bytes_in_deck_ /\ left <= held
  BY StreamFields, Zenon
<1>4. /\ t \in Streams(Nat) /\ Tiled(t)
      /\ t.totalPopped = popped + n /\ t.bytes_in_deck_ = held - n
      /\ t.totalPushed = s.totalPushed /\ t.capacity_ = s.capacity_
      /\ t.isClosed = s.isClosed /\ t.error_ = s.error_
  <2>1. /\ t \in Streams(Nat) /\ Tiled(t)
        /\ t.totalPopped = s.totalPopped + PopTaken(s, left)
        /\ t.bytes_in_deck_ = s.bytes_in_deck_ - PopTaken(s, left)
        /\ t.totalPushed = s.totalPushed /\ t.capacity_ = s.capacity_
        /\ t.isClosed = s.isClosed /\ t.error_ = s.error_
    BY <1>1, PopTurnTiled
  <2> QED BY <1>2, <1>3, <2>1, Zenon
<1>5. n \in 1 .. held /\ n \in 0 .. held /\ held - n \in Nat /\ n + (held - n) = held
  BY <1>2, <1>3
<1>6. PICK b : b = Bytes(popped, held) /\ Len(b) = held
  BY BytesRun
<1>7. SubSeq(b, n + 1, Len(b)) = Bytes(popped + n, held - n)
  <2>1. Substr(b, n, held - n) = Bytes(popped + n, Least(held - n, held - n))
    BY <1>5, <1>6, BytesPart
  <2>2. Least(held - n, held - n) = held - n
    BY DEF Least
  <2>3. Substr(b, n, held - n) = SubSeq(b, n + 1, n + (held - n))
    BY <1>6, <2>2, Zenon DEF Substr
  <2> QED BY <1>5, <1>6, <2>1, <2>2, <2>3, Zenon
<1>8. PipeOf(s) = [ cap |-> s.capacity_, buf |-> b, pushed |-> s.totalPushed, popped |-> popped,
                    closed |-> s.isClosed, error |-> s.error_ ]
  BY <1>3, <1>6, PipeOfTiled, Zenon
<1>9. PipeOf(t) = [ cap |-> s.capacity_, buf |-> Bytes(popped + n, held - n),
                    pushed |-> s.totalPushed, popped |-> popped + n,
                    closed |-> s.isClosed, error |-> s.error_ ]
  BY <1>4, PipeOfTiled, Zenon
<1>10. Take(PipeOf(s), n) = PipeOf(t)
  <2>1. PICK c : c = SubSeq(b, n + 1, Len(b))
    OBVIOUS
  <2>2. Take(PipeOf(s), n) = [PipeOf(s) EXCEPT !.buf = c, !.popped = popped + n]
    BY <1>8, <2>1 DEF Take
  <2>3. [PipeOf(s) EXCEPT !.buf = c, !.popped = popped + n]
          = [ cap |-> s.capacity_, buf |-> c, pushed |-> s.totalPushed, popped |-> popped + n,
              closed |-> s.isClosed, error |-> s.error_ ]
    <3> DEFINE q == [ cap |-> s.capacity_, buf |-> c, pushed |-> s.totalPushed, popped |-> popped,
                      closed |-> s.isClosed, error |-> s.error_ ]
    <3>1. [PipeOf(s) EXCEPT !.buf = c, !.popped = popped + n]
            = [[PipeOf(s) EXCEPT !.buf = c] EXCEPT !.popped = popped + n]
      OBVIOUS
    <3>2. [PipeOf(s) EXCEPT !.buf = c] = q
      BY <1>8
    <3>3. [q EXCEPT !.popped = popped + n]
            = [ cap |-> s.capacity_, buf |-> c, pushed |-> s.totalPushed, popped |-> popped + n,
                closed |-> s.isClosed, error |-> s.error_ ]
      OBVIOUS
    <3> QED BY <3>1, <3>2, <3>3
  <2> QED BY <1>7, <1>9, <2>1, <2>2, <2>3, Zenon
<1>11. Len(PipeOf(s).buf) = held
  BY <1>6, <1>8
<1> QED BY <1>1, <1>5, <1>10, <1>11, Zenon

\* Closing the pipe, or setting its error flag, changes that field only.
LEMMA ShutRecord ==
  \A a, b, c, d, e, f :
    Shut([ cap |-> a, buf |-> b, pushed |-> c, popped |-> d, closed |-> e, error |-> f ])
      = [ cap |-> a, buf |-> b, pushed |-> c, popped |-> d, closed |-> TRUE, error |-> f ]
<1> SUFFICES ASSUME NEW a, NEW b, NEW c, NEW d, NEW e, NEW f
             PROVE  Shut([ cap |-> a, buf |-> b, pushed |-> c, popped |-> d,
                           closed |-> e, error |-> f ])
                      = [ cap |-> a, buf |-> b, pushed |-> c, popped |-> d,
                          closed |-> TRUE, error |-> f ]
  BY Zenon
<1>1. \A t :
        [ [ cap |-> a, buf |-> b, pushed |-> c, popped |-> d, closed |-> e, error |-> f ]
          EXCEPT !.closed = t ]
        = [ cap |-> a, buf |-> b, pushed |-> c, popped |-> d, closed |-> t, error |-> f ]
  OBVIOUS
<1> QED BY <1>1, Zenon DEF Shut

LEMMA SpoilRecord ==
  \A a, b, c, d, e, f :
    Spoil([ cap |-> a, buf |-> b, pushed |-> c, popped |-> d, closed |-> e, error |-> f ])
      = [ cap |-> a, buf |-> b, pushed |-> c, popped |-> d, closed |-> e, error |-> TRUE ]
<1> SUFFICES ASSUME NEW a, NEW b, NEW c, NEW d, NEW e, NEW f
             PROVE  Spoil([ cap |-> a, buf |-> b, pushed |-> c, popped |-> d,
                           closed |-> e, error |-> f ])
                      = [ cap |-> a, buf |-> b, pushed |-> c, popped |-> d,
                          closed |-> e, error |-> TRUE ]
  BY Zenon
<1>1. \A t :
        [ [ cap |-> a, buf |-> b, pushed |-> c, popped |-> d, closed |-> e, error |-> f ]
          EXCEPT !.error = t ]
        = [ cap |-> a, buf |-> b, pushed |-> c, popped |-> d, closed |-> e, error |-> t ]
  OBVIOUS
<1> QED BY <1>1, Zenon DEF Spoil

\* The pipe a stream stands for after its close(), and after its set_error().
LEMMA CloseIsShut ==
  ASSUME NEW s, NEW t, t.capacity_ = s.capacity_, t.deck_ = s.deck_,
         t.totalPushed = s.totalPushed, t.totalPopped = s.totalPopped,
         t.isClosed = TRUE, t.error_ = s.error_
  PROVE  PipeOf(t) = Shut(PipeOf(s))
BY ShutRecord DEF PipeOf

LEMMA ErrorIsSpoil ==
  ASSUME NEW s, NEW t, t.capacity_ = s.capacity_, t.deck_ = s.deck_,
         t.totalPushed = s.totalPushed, t.totalPopped = s.totalPopped,
         t.isClosed = s.isClosed, t.error_ = TRUE
  PROVE  PipeOf(t) = Spoil(PipeOf(s))
BY SpoilRecord DEF PipeOf

\* The operators of the abstract pipe are those of BytePipe.
LEMMA PipeOperators ==
  /\ \A c : Pipe!NewPipe(c) = NewPipe(c)
  /\ \A p, d : Pipe!Put(p, d) = Put(p, d)
  /\ \A p, n : Pipe!Take(p, n) = Take(p, n)
  /\ \A p : Pipe!Shut(p) = Shut(p)
  /\ \A p : Pipe!Spoil(p) = Spoil(p)
  /\ \A a, n : Pipe!Bytes(a, n) = Bytes(a, n)
BY Zenon DEF Pipe!NewPipe, NewPipe, Pipe!Put, Put, Pipe!Take, Take, Pipe!Shut, Shut,
             Pipe!Spoil, Spoil, Pipe!Bytes, Bytes, Pipe!Room, Room, Pipe!Substr, Substr,
             Pipe!Least, Least

\* Every step of the ByteStream is a step of the pipe or changes nothing of it.
LEMMA NextIsPipeNext ==
  IInv /\ [Next]_vars => Pipe!Next \/ PipeOf(stream)' = PipeOf(stream)
<1> SUFFICES ASSUME IInv, [Next]_vars
             PROVE  Pipe!Next \/ PipeOf(stream)' = PipeOf(stream)
  OBVIOUS
<1>1. /\ stream \in Streams(Nat) /\ Tiled(stream)
      /\ popLeft \in Nat /\ popLeft <= stream.bytes_in_deck_
  BY Zenon DEF IInv, TypeOK, Tiling, PopHasBytes
<1>2. ASSUME NEW n \in 0 .. MaxBytes, Push(n)
      PROVE  Pipe!Next
  <2>1. n \in Nat
    BY MaxBytesAssumption
  <2>2. PipeOf(stream)' = Put(PipeOf(stream), Bytes(stream.totalPushed, n))
    <3>1. stream' = WriterPush(stream, Bytes(stream.totalPushed, n))
      BY <1>2, Zenon DEF Push
    <3>2. PipeOf(stream') = Put(PipeOf(stream), Bytes(stream.totalPushed, n))
      BY <1>1, <2>1, <3>1, PushIsPut
    <3> QED BY <3>2, Zenon DEF PipeOf
  <2>3. PipeOf(stream).pushed = stream.totalPushed
    BY DEF PipeOf
  <2>4. \E k \in 0 .. MaxBytes :
          PipeOf(stream)' = Pipe!Put(PipeOf(stream), Pipe!Bytes(PipeOf(stream).pushed, k))
    BY <2>2, <2>3, PipeOperators, Zenon
  <2> QED BY <2>4, Zenon DEF Pipe!Next, PipeOf
<1>3. CASE Close
  <2>1. /\ stream'.capacity_ = stream.capacity_ /\ stream'.deck_ = stream.deck_
        /\ stream'.totalPushed = stream.totalPushed
        /\ stream'.totalPopped = stream.totalPopped
        /\ stream'.isClosed = TRUE /\ stream'.error_ = stream.error_
    BY <1>1, <1>3 DEF Close, WriterClose, Streams
  <2>2. PipeOf(stream') = Shut(PipeOf(stream))
    BY <2>1, CloseIsShut, Zenon
  <2>3. PipeOf(stream)' = Pipe!Shut(PipeOf(stream))
    BY <2>2, PipeOperators, Zenon DEF PipeOf
  <2> QED BY <2>3, Zenon DEF Pipe!Next, PipeOf
<1>4. CASE Error
  <2>1. /\ stream'.capacity_ = stream.capacity_ /\ stream'.deck_ = stream.deck_
        /\ stream'.totalPushed = stream.totalPushed
        /\ stream'.totalPopped = stream.totalPopped
        /\ stream'.isClosed = stream.isClosed /\ stream'.error_ = TRUE
    BY <1>1, <1>4 DEF Error, SetError, Streams
  <2>2. PipeOf(stream') = Spoil(PipeOf(stream))
    BY <2>1, ErrorIsSpoil, Zenon
  <2>3. PipeOf(stream)' = Pipe!Spoil(PipeOf(stream))
    BY <2>2, PipeOperators, Zenon DEF PipeOf
  <2> QED BY <2>3, Zenon DEF Pipe!Next, PipeOf
<1>5. CASE PopLoop
  <2>1. PICK n \in 1 .. Len(PipeOf(stream).buf) :
          PipeOf(PopTurn(stream, popLeft)) = Take(PipeOf(stream), n)
    <3>1. popLeft # 0
      BY <1>1, <1>5 DEF PopLoop
    <3> QED BY <1>1, <3>1, PopTurnIsTake
  <2>2. PipeOf(stream)' = Pipe!Take(PipeOf(stream), n)
    BY <1>5, <2>1, PipeOperators, Zenon DEF PopLoop, PipeOf
  <2> QED BY <2>2, Zenon DEF Pipe!Next, PipeOf
<1>6. CASE stream' = stream
  BY <1>6, Zenon DEF PipeOf
<1> QED BY <1>2, <1>3, <1>4, <1>5, <1>6, Zenon DEF Next, vars, Pop, Read, ReadLoop, ReadReturn

\* The chunks are invisible: for every capacity and length the ByteStream is a bounded
\* pipe, whose bytes come out in the order they went in, none lost and none repeated.
THEOREM ByteStreamIsPipe == Spec => ImplementsPipe
<1>1. Init => Pipe!Init
  <2> SUFFICES ASSUME Init PROVE PipeOf(stream) = Pipe!NewPipe(Capacity)
    BY Zenon DEF Pipe!Init, PipeOf
  <2>1. stream = NewStream(Capacity) /\ FlattenSeq(<<>>) = <<>>
    BY DEF Init, FlattenSeq
  <2>2. PipeOf(stream) = NewPipe(Capacity)
    BY <2>1 DEF NewStream, PipeOf, NewPipe
  <2> QED BY <2>2, PipeOperators, Zenon
<1>2. IInv /\ [Next]_vars => [Pipe!Next]_(PipeOf(stream))
  BY NextIsPipeNext
<1> QED BY <1>1, <1>2, InitIInv, NextIInv, PTL DEF Spec, ImplementsPipe, Pipe!Spec, PipeOf
=============================================================================

------------------------- MODULE TCPReceiverProofs -------------------------
(***************************************************************************)
(* The TCPReceiver of TCPReceiverMachine, for every capacity, every isn    *)
(* and every size of the words, as long as its Reassembler sees gaps in    *)
(* the first lap only, the SYN is not repeated, the FIN does not overtake  *)
(* data and the stream ends before the sequence numbers come round to the  *)
(* isn: the code is wrong outside these limits.                            *)
(***************************************************************************)
EXTENDS TCPReceiverMachine, TCPLemmas

Receivers ==
  [ reassembler_ : Reassemblers, isn_ : Seqnos, cur_seq : Seqnos, capacity : Nat,
    seen_syn : BOOLEAN, syn_accounted : BOOLEAN, seen_fin : BOOLEAN, fin_accounted : BOOLEAN ]

Closed(r) == r.reassembler_.output_.closed
Count(b)  == IF b THEN 1 ELSE 0

\* What every method leaves true of a receiver of a stream of n bytes: its Reassembler is
\* in good order; the SYN and the FIN are counted as soon as they are seen; the FIN is seen
\* when the stream is closed; cur_seq stands for the first number that is missing.
Receiving(r, n, zero) ==
  /\ r \in Receivers
  /\ Consistent(r.reassembler_, n) /\ AllAhead(r.reassembler_)
  /\ StorageCapacity(r.reassembler_) = r.capacity
  /\ (r.reassembler_.seen_last <=> Closed(r)) /\ (r.seen_fin <=> Closed(r))
  /\ (r.syn_accounted <=> r.seen_syn) /\ (r.fin_accounted <=> r.seen_fin)
  /\ ~r.seen_syn => Pushed(r) = 0 /\ ~Closed(r)
  /\ r.seen_syn => r.isn_ = zero /\ r.cur_seq = WrapSeq(Pushed(r) + 1 + Count(Closed(r)), zero)

\* The sizes of the words and the buffer the machine assumes for a stream of n bytes.
Small(n, cap) ==
  /\ n \in Nat /\ cap \in Nat /\ cap > 0 /\ n + 2 < RelSeqMax /\ 2 * (cap + 2) < RelSeqMax

\* The flags of a message change the four members they name.
LEMMA FlagsAre ==
  ASSUME NEW r \in Receivers, NEW m, m.seqno \in Seqnos, m.SYN \in BOOLEAN, m.FIN \in BOOLEAN,
         NEW f, f = TakeFlags(r, m)
  PROVE  /\ f \in Receivers /\ f.reassembler_ = r.reassembler_
         /\ f.isn_ = IF m.SYN THEN m.seqno ELSE r.isn_
         /\ f.cur_seq = IF m.SYN THEN m.seqno ELSE r.cur_seq
         /\ f.seen_syn = (r.seen_syn \/ m.SYN) /\ f.seen_fin = (r.seen_fin \/ m.FIN)
         /\ f.syn_accounted = r.syn_accounted /\ f.fin_accounted = r.fin_accounted
         /\ f.capacity = r.capacity
<1>1. PICK isn_1, cur, syn, fin :
        /\ isn_1 = IF m.SYN THEN m.seqno ELSE r.isn_
        /\ cur = IF m.SYN THEN m.seqno ELSE r.cur_seq
        /\ syn = (r.seen_syn \/ m.SYN) /\ fin = (r.seen_fin \/ m.FIN)
  OBVIOUS
<1>2. isn_1 \in Seqnos /\ cur \in Seqnos
  BY <1>1 DEF Receivers
<1>3. syn \in BOOLEAN /\ fin \in BOOLEAN
  BY <1>1 DEF Receivers
<1>4. f = [r EXCEPT !.isn_ = isn_1, !.cur_seq = cur, !.seen_syn = syn, !.seen_fin = fin]
  BY <1>1, Zenon DEF TakeFlags
<1>5. /\ f \in Receivers /\ f.reassembler_ = r.reassembler_ /\ f.isn_ = isn_1 /\ f.cur_seq = cur
      /\ f.seen_syn = syn /\ f.seen_fin = fin
      /\ f.syn_accounted = r.syn_accounted /\ f.fin_accounted = r.fin_accounted
      /\ f.capacity = r.capacity
  BY <1>2, <1>3, <1>4 DEF Receivers
<1> QED BY <1>1, <1>5, Zenon

\* Numbers near the checkpoint are recovered, and the index follows from them.
LEMMA IndexFrom ==
  ASSUME NEW f, NEW m, NEW zero \in Seqnos, f.isn_ = zero,
         NEW pushed \in Nat, pushed = Pushed(f), pushed < RelSeqMax,
         NEW number \in Nat, 2 * Distance(number, pushed) < RelSeqMax, m.seqno = WrapSeq(number, zero),
         NEW next \in Nat, 2 * Distance(next, pushed) < RelSeqMax, f.cur_seq = WrapSeq(next, zero),
         next < RelSeqMax, number = 0 => next = 0,
         NEW from \in Nat, NEW len \in Nat, m.payload = Bytes(from, len)
  PROVE  /\ IsAhead(f, m) <=> len # 0 /\ number > next
         /\ StreamIndex(f, m) = IF len # 0 /\ number # next THEN number - 1
                                ELSE IF next = 0 THEN 0 ELSE next - 1
<1>1. PICK size \in Nat, top \in Nat : size = RelSeqMax /\ top = WordMod /\ top > 4 * size /\ size > 1
  BY RelSeqMaxAssumption, WordModAssumption
<1>2. pushed + 2 * RelSeqMax < WordMod
  BY <1>1
<1>3. Absolute(f, m.seqno) = number /\ Absolute(f, f.cur_seq) = next
  <2>1. Unwrap(WrapSeq(number, zero), zero, pushed) = number
    BY <1>2, UnwrapWrapped
  <2>2. Unwrap(WrapSeq(next, zero), zero, pushed) = next
    BY <1>2, UnwrapWrapped
  <2> QED BY <2>1, <2>2, Zenon DEF Absolute
<1>4. m.payload # <<>> <=> len # 0
  <2>1. Bytes(from, len) \in Seq(Nat) /\ Len(Bytes(from, len)) = len
    BY BytesRun
  <2> QED BY <2>1, EmptyLen
<1>5. f.cur_seq = f.isn_ <=> next = 0
  BY WrapIsn, Zenon
<1>6. /\ len # 0 /\ number # next => U64(number - 1) = number - 1
      /\ next # 0 => U64(next - 1) = next - 1
  <2>1. ASSUME NEW x \in Nat, x < 2 * size PROVE U64(x) = x
    <3>1. x % top = x
      BY <1>1, <2>1
    <3> QED BY <1>1, <3>1, Zenon DEF U64
  <2>2. number # next => number - 1 \in Nat /\ number - 1 < 2 * size
    BY <1>1 DEF Distance
  <2>3. next # 0 => next - 1 \in Nat /\ next - 1 < 2 * size
    BY <1>1
  <2> QED BY <2>1, <2>2, <2>3, Zenon
<1>7. IsAhead(f, m) <=> len # 0 /\ number > next
  BY <1>3, <1>4, Zenon DEF IsAhead
<1>8. StreamIndex(f, m) = IF len # 0 /\ number # next THEN U64(number - 1)
                          ELSE IF next = 0 THEN next ELSE U64(next - 1)
  BY <1>3, <1>4, <1>5, Zenon DEF StreamIndex
<1> QED BY <1>6, <1>7, <1>8, Zenon

\* A message of the stream as receive() sees it once its reset is dealt with.
IsMessage(m, syn, first, len, fin, zero) ==
  /\ m.seqno = WrapSeq(IF syn THEN 0 ELSE first + 1, zero)
  /\ m.SYN = syn /\ m.FIN = fin /\ m.payload = Bytes(first, len)

\* Where a message may lie, seen from a receiver: the SYN opens the stream, and nothing
\* else is taken before; no byte is past the end of the stream or the room in the output,
\* nor half the sequence space old; the FIN brings the bytes that are missing.
Arrives(r, n, syn, first, len, fin) ==
  /\ first \in Nat /\ len \in Nat /\ syn \in BOOLEAN /\ fin \in BOOLEAN
  /\ IF syn THEN first = 0 /\ ~r.seen_syn ELSE r.seen_syn
  /\ first + len <= n /\ (fin => first + len = n /\ first <= Pushed(r))
  /\ first + len <= r.reassembler_.output_.popped + r.capacity
  /\ 2 * (Pushed(r) - first) < RelSeqMax

Index(r, first, len) ==
  IF len # 0 THEN first ELSE Pushed(r) + Count(Closed(r))

\* The stream index is that of the payload, or where the output ends for an empty one.
LEMMA IndexIs ==
  ASSUME NEW r, NEW n, NEW zero \in Seqnos, Receiving(r, n, zero), Small(n, r.capacity),
         NEW syn, NEW first, NEW len, NEW fin, Arrives(r, n, syn, first, len, fin),
         NEW m, IsMessage(m, syn, first, len, fin, zero),
         NEW f, f = TakeFlags(r, m)
  PROVE  /\ IsAhead(f, m) <=> len # 0 /\ first > Pushed(r)
         /\ StreamIndex(f, m) = Index(r, first, len)
<1>1. PICK pushed \in Nat, popped \in Nat, cap \in Nat, c \in 0 .. 1 :
        /\ pushed = Pushed(r) /\ popped = r.reassembler_.output_.popped /\ cap = r.capacity
        /\ c = Count(Closed(r))
  <2>1. n \in Nat /\ r.capacity \in Nat
    BY Zenon DEF Small
  <2>2. Count(Closed(r)) \in 0 .. 1
    BY DEF Count
  <2>3. Pushed(r) \in Nat /\ r.reassembler_.output_.popped \in Nat
    BY <2>1, ConsistentFields, Zenon DEF Receiving, Pushed
  <2> QED BY <2>1, <2>2, <2>3, Zenon
<1>2. PICK size \in Nat : size = RelSeqMax /\ size > 1
  BY RelSeqMaxAssumption
<1>3. /\ n \in Nat /\ n + 2 < size /\ 2 * (cap + 2) < size /\ pushed <= n /\ popped <= pushed
      /\ c = 1 => pushed = n
  <2>1. n \in Nat /\ n + 2 < size /\ 2 * (cap + 2) < size
    BY <1>1, <1>2, Zenon DEF Small
  <2>2. Consistent(r.reassembler_, n)
    BY Zenon DEF Receiving
  <2>3. pushed <= n /\ popped <= pushed
    BY <1>1, <2>2, Zenon DEF Consistent, Intact, Pushed, BytesPushed
  <2>4. 1 # 0
    OBVIOUS
  <2>5. c = 1 => pushed = n
    BY <1>1, <2>2, <2>4, Zenon DEF Consistent, Pushed, Count, Closed
  <2> QED BY <2>1, <2>3, <2>5, Zenon
<1>4. /\ first \in Nat /\ len \in Nat /\ first + len <= n /\ first + len <= popped + cap
      /\ 2 * (pushed - first) < size /\ (syn => first = 0 /\ ~r.seen_syn) /\ (~syn => r.seen_syn)
      /\ syn \in BOOLEAN /\ fin \in BOOLEAN
  BY <1>1, <1>2, Zenon DEF Arrives
<1>5. PICK number \in Nat : number = IF syn THEN 0 ELSE first + 1
  BY <1>4
<1>6. PICK next \in Nat : next = IF syn THEN 0 ELSE pushed + 1 + c
  OBVIOUS
<1>7. syn => pushed = 0 /\ c = 0
  <2>1. syn => Pushed(r) = 0 /\ ~Closed(r)
    BY <1>4, Zenon DEF Receiving
  <2> QED BY <1>1, <2>1, Zenon DEF Count
<1>8. 2 * Distance(number, pushed) < RelSeqMax
  <2>1. CASE syn
    BY <1>2, <1>5, <1>7, <2>1 DEF Distance
  <2>2. CASE ~syn
    <3>1. number = first + 1 /\ first <= pushed + cap
      BY <1>1, <1>3, <1>4, <1>5, <2>2
    <3>2. Distance(number, pushed) <= cap + 1 \/ Distance(number, pushed) < pushed - first
      BY <1>4, <3>1 DEF Distance
    <3>3. Distance(number, pushed) \in Nat
      BY <3>1 DEF Distance
    <3> QED BY <1>2, <1>3, <1>4, <3>2, <3>3
  <2> QED BY <1>4, <2>1, <2>2
<1>9. 2 * Distance(next, pushed) < RelSeqMax /\ next < RelSeqMax
  <2>1. Distance(next, pushed) <= 2 /\ Distance(next, pushed) \in Nat
    BY <1>1, <1>6, <1>7 DEF Distance
  <2>2. size > 4 /\ next < size
    BY <1>3, <1>6
  <2> QED BY <1>2, <2>1, <2>2
<1>10. /\ f.isn_ = zero /\ f.cur_seq = WrapSeq(next, zero) /\ m.seqno = WrapSeq(number, zero)
       /\ f.reassembler_ = r.reassembler_ /\ m.payload = Bytes(first, len)
  <2>1. m.seqno = WrapSeq(number, zero) /\ m.SYN = syn /\ m.FIN = fin /\ m.payload = Bytes(first, len)
    BY <1>5, Zenon DEF IsMessage
  <2>2. m.seqno \in Seqnos
    <3>1. WrapSeq(number, zero) \in Seqnos
      BY PlusWrapped
    <3> QED BY <2>1, <3>1, Zenon
  <2>3. r \in Receivers
    BY Zenon DEF Receiving
  <2>4. /\ f.reassembler_ = r.reassembler_
        /\ f.isn_ = IF syn THEN m.seqno ELSE r.isn_
        /\ f.cur_seq = IF syn THEN m.seqno ELSE r.cur_seq
    <3>1. m.SYN \in BOOLEAN /\ m.FIN \in BOOLEAN
      BY <1>4, <2>1, Zenon
    <3>2. /\ f.reassembler_ = r.reassembler_
          /\ f.isn_ = IF m.SYN THEN m.seqno ELSE r.isn_
          /\ f.cur_seq = IF m.SYN THEN m.seqno ELSE r.cur_seq
      BY <2>2, <2>3, <3>1, FlagsAre
    <3> QED BY <2>1, <3>2, Zenon
  <2>5. CASE syn
    <3>1. WrapSeq(0, zero) = zero
      BY <1>2, WrapIsn
    <3> QED BY <1>5, <1>6, <2>1, <2>4, <2>5, <3>1, Zenon
  <2>6. CASE ~syn
    <3>1. r.isn_ = zero /\ r.cur_seq = WrapSeq(pushed + 1 + c, zero)
      BY <1>1, <1>4, <2>6, Zenon DEF Receiving
    <3> QED BY <1>6, <2>1, <2>4, <2>6, <3>1, Zenon
  <2> QED BY <1>4, <2>5, <2>6
<1>11. pushed < RelSeqMax /\ (number = 0 => next = 0)
  BY <1>2, <1>3, <1>4, <1>5, <1>6
<1>12. /\ IsAhead(f, m) <=> len # 0 /\ number > next
       /\ StreamIndex(f, m) = IF len # 0 /\ number # next THEN number - 1
                              ELSE IF next = 0 THEN 0 ELSE next - 1
  <2>1. pushed = Pushed(f)
    BY <1>1, <1>10, Zenon DEF Pushed
  <2> QED BY <1>4, <1>8, <1>9, <1>10, <1>11, <2>1, IndexFrom
<1>13. len # 0 => (number > next <=> first > pushed)
  BY <1>3, <1>4, <1>5, <1>6, <1>7
<1>14. (IF len # 0 /\ number # next THEN number - 1 ELSE IF next = 0 THEN 0 ELSE next - 1)
        = IF len # 0 THEN first ELSE pushed + c
  BY <1>3, <1>4, <1>5, <1>6, <1>7
<1> QED BY <1>1, <1>12, <1>13, <1>14, Zenon DEF Index

\* Either the Reassembler writes the run of known bytes, or nothing of it changes.
Reassembles(r, s, n, first, len, last) ==
  \/ Writes(r, s, n, first, len, last)
  \/ s.output_ = r.output_ /\ s.seen_last = r.seen_last /\ Pending(s) = Pending(r)

\* What the Reassembler makes of the payload: the output is closed by the FIN and by
\* nothing else, a payload past a gap waits, one at the gap does not.
LEMMA PayloadIs ==
  ASSUME NEW r, NEW n, NEW zero \in Seqnos, Receiving(r, n, zero), Small(n, r.capacity),
         NEW syn, NEW first, NEW len, NEW fin, Arrives(r, n, syn, first, len, fin),
         Proper(r.reassembler_, n, first, len),
         NEW s, s = Insert(r.reassembler_, Index(r, first, len), Bytes(first, len), fin)
  PROVE  /\ Consistent(s, n) /\ AllAhead(s) /\ StorageCapacity(s) = r.capacity
         /\ (s.seen_last <=> s.output_.closed)
         /\ (s.output_.closed <=> Closed(r) \/ fin)
         /\ Pushed(r) <= BytesPushed(s)
         /\ len # 0 /\ first > Pushed(r) => BytesPushed(s) = Pushed(r)
         /\ len # 0 /\ first = Pushed(r) => BytesPushed(s) # Pushed(r)
         /\ Reassembles(r.reassembler_, s, n, Index(r, first, len), len, fin)
<1>1. PICK a : a = r.reassembler_
  OBVIOUS
<1>2. PICK pushed \in Nat, popped \in Nat, cap \in Nat, top \in Nat :
        /\ pushed = Pushed(r) /\ pushed = BytesPushed(a) /\ popped = a.output_.popped
        /\ cap = r.capacity /\ cap = StorageCapacity(a) /\ top = WordMod
        /\ popped <= pushed /\ pushed <= n /\ cap > 0 /\ n \in Nat /\ n < top /\ cap < top /\ top > 0
        /\ Closed(r) => pushed = n
  <2>1. n \in Nat /\ r.capacity \in Nat /\ r.capacity > 0
    BY Zenon DEF Small
  <2>2. Consistent(a, n) /\ StorageCapacity(a) = r.capacity
    BY <1>1, Zenon DEF Receiving
  <2>3. BytesPushed(a) \in Nat /\ a.output_.popped \in Nat
    BY <2>1, <2>2, ConsistentFields
  <2>4. /\ a.output_.popped <= BytesPushed(a) /\ BytesPushed(a) <= n
        /\ Closed(r) => BytesPushed(a) = n
    BY <1>1, <2>2, Zenon DEF Consistent, Intact, BytesPushed, Closed
  <2>5. WordMod \in Nat /\ n < WordMod /\ r.capacity < WordMod /\ WordMod > 0
    BY RelSeqMaxAssumption, WordModAssumption DEF Small
  <2> QED BY <1>1, <2>1, <2>2, <2>3, <2>4, <2>5, Zenon DEF Pushed
<1>3. /\ first \in Nat /\ len \in Nat /\ fin \in BOOLEAN
      /\ first + len <= n /\ (fin => first + len = n /\ first <= pushed)
      /\ first + len <= popped + cap
  BY <1>1, <1>2, Zenon DEF Arrives
<1>4. /\ Consistent(a, n) /\ AllAhead(a) /\ (a.seen_last <=> Closed(r))
      /\ Closed(r) = a.output_.closed /\ Intact(a.output_)
  BY <1>1, Zenon DEF Receiving, Closed, Consistent
<1>5. CASE len = 0 /\ Closed(r)
  <2>1. 0 # 1
    OBVIOUS
  <2>2. Index(r, first, len) = BytesPushed(a) + 1
    BY <1>2, <1>5, Zenon DEF Index, Count
  <2>3. s = Insert(a, BytesPushed(a) + 1, Bytes(first, 0), fin)
    BY <1>1, <1>5, <2>2, Zenon
  <2>4. a.output_.closed /\ a.seen_last /\ WordMod \in Nat /\ WordMod > 0
    BY <1>2, <1>4, <1>5, Zenon
  <2>5. /\ Consistent(s, n) /\ AllAhead(s) /\ StorageCapacity(s) = StorageCapacity(a)
        /\ s.output_ = a.output_ /\ s.seen_last /\ Pending(s) = Pending(a)
    BY <1>2, <1>3, <1>4, <2>3, <2>4, InsertNothing
  <2>6. s.seen_last = a.seen_last
    <3>1. s.seen_last \in BOOLEAN /\ a.seen_last \in BOOLEAN
      BY <1>2, <1>4, <2>5, ConsistentFields
    <3> QED BY <2>4, <2>5, <3>1, Zenon
  <2>7. BytesPushed(s) = pushed /\ pushed <= pushed
    <3>1. pushed <= pushed
      OBVIOUS
    <3> QED BY <1>2, <2>5, <3>1, Zenon DEF BytesPushed
  <2> QED BY <1>1, <1>2, <1>4, <1>5, <2>5, <2>6, <2>7, Zenon DEF Reassembles
<1>6. CASE ~(len = 0 /\ Closed(r))
  <2>1. PICK at \in Nat : /\ at = Index(r, first, len)
                          /\ len # 0 => at = first
                          /\ len = 0 => at = pushed /\ ~Closed(r)
    <3>1. pushed + 0 = pushed
      OBVIOUS
    <3> QED BY <1>2, <1>3, <1>6, <3>1, Zenon DEF Index, Count
  <2>2. Bytes(first, len) = Bytes(at, len)
    <3>1. CASE len = 0
      BY <1>3, <3>1, BytesEmpty
    <3>2. CASE len # 0
      BY <2>1, <3>2, Zenon
    <3> QED BY <3>1, <3>2
  <2>3. /\ at + len <= n /\ (fin => at + len = n /\ at <= pushed)
        /\ at + len <= popped + cap \/ len = 0
    BY <1>2, <1>3, <2>1
  <2>4. /\ at + len <= n /\ (fin => at + len = n /\ at <= pushed)
        /\ len # 0 => at + len <= popped + cap
    BY <1>2, <1>3, <2>1
  <2>5. Proper(a, n, at, len)
    <3>1. CASE len # 0
      BY <1>1, <2>1, <3>1, Zenon
    <3>2. CASE len = 0
      <4>1. pushed <= cap \/ Bits(a.storage_bitmap) = {}
        BY <1>2, <1>4, AheadFirstLap, Zenon DEF FirstLap
      <4>2. ~(pushed < pushed) /\ pushed + 0 = pushed
        OBVIOUS
      <4> QED BY <1>2, <2>1, <2>4, <3>2, <4>1, <4>2, Zenon DEF Proper
    <3> QED BY <3>1, <3>2
  <2>6. s = Insert(a, at, Bytes(at, len), fin)
    BY <1>1, <2>1, <2>2, Zenon
  <2>7. Ending(a, n)
    BY <1>4, Zenon DEF Ending
  <2>8. fin => at + len = n
    BY <2>4, Zenon
  <2>9. WordMod \in Nat /\ StorageCapacity(a) < WordMod /\ n < WordMod
    BY <1>2, Zenon
  <2>10. /\ Consistent(s, n) /\ AllAhead(s)
         /\ StorageCapacity(s) = StorageCapacity(a)
         /\ \/ s = a /\ BytesPushed(a) < at
            \/ \E k \in Nat : \E q : Runs(a, s, n, at, len, fin, k, q)
    BY <1>2, <1>3, <1>4, <2>5, <2>6, <2>7, <2>8, <2>9, InsertIs
  <2>11. s = a \/ Writes(a, s, n, at, len, fin)
    BY <1>2, <1>3, <1>4, <2>5, <2>6, <2>7, <2>8, <2>9, InsertWrites
  <2>12. Reassembles(a, s, n, at, len, fin)
    BY <2>11, Zenon DEF Reassembles
  <2>13. CASE s = a /\ BytesPushed(a) < at
    <3>1. ~fin /\ at # pushed /\ pushed <= pushed
      BY <1>2, <2>4, <2>13
    <3> QED BY <1>1, <1>2, <1>4, <2>1, <2>10, <2>12, <2>13, <3>1, Zenon
  <2>14. CASE ~(s = a /\ BytesPushed(a) < at)
    <3>0. PICK k \in Nat : \E q : Runs(a, s, n, at, len, fin, k, q)
      BY <2>10, <2>14, Zenon
    <3>1. PICK q :
                 /\ \A x \in Int : pushed <= x /\ x < pushed + k => x \in Known(a, at, len)
                 /\ pushed + k \notin Known(a, at, len)
                 /\ k <= Room(a.output_) /\ (k = 0 \/ ~a.output_.closed)
                 /\ q = Put(a.output_, Bytes(pushed, k))
                 /\ BytesPushed(s) = pushed + k
                 /\ s.seen_last = (a.seen_last \/ fin)
                 /\ s.output_ = IF s.seen_last /\ q.pushed = n THEN Shut(q) ELSE q
      BY <1>2, <3>0, Zenon DEF Runs
    <3>2. Intact(q) /\ q.pushed = pushed + k /\ q.closed = a.output_.closed
      <4>1. a.output_.pushed = pushed
        BY <1>2, Zenon DEF BytesPushed
      <4>2. q = Put(a.output_, Bytes(a.output_.pushed, k)) /\ k <= Room(a.output_)
            /\ (k = 0 \/ ~a.output_.closed)
        BY <3>1, <4>1, Zenon
      <4>3. Intact(q) /\ q.pushed = a.output_.pushed + k /\ q.closed = a.output_.closed
        BY <1>4, <4>2, PutRun
      <4> QED BY <4>1, <4>3, Zenon
    <3>3. \A x \in Int : x \in Fits(a, at, len) => x \in Known(a, at, len)
      BY Zenon DEF Known
    <3>4. \A x \in Int : at <= x /\ x < at + len /\ pushed <= x => x \in Known(a, at, len)
      <4> SUFFICES ASSUME NEW x \in Int, at <= x, x < at + len, pushed <= x
                   PROVE  x \in Fits(a, at, len)
        BY <3>3, Zenon
      <4>1. x \in at .. at + len - 1 /\ x \in pushed .. popped + cap - 1
        BY <1>2, <1>3, <2>4
      <4> QED BY <1>2, <4>1, Zenon DEF Fits
    <3>5. pushed + k <= n
      BY <1>2, <2>10, <3>1, Zenon DEF Consistent
    <3>6. fin => pushed + k = n
      <4> SUFFICES ASSUME fin, pushed + k # n PROVE FALSE
        OBVIOUS
      <4>1. pushed + k \in Int /\ at <= pushed + k /\ pushed + k < at + len /\ pushed <= pushed + k
        BY <1>2, <2>4, <3>5
      <4> QED BY <3>1, <3>4, <4>1, Zenon
    <3>7. len # 0 /\ first > pushed => pushed + k = pushed
      <4> SUFFICES ASSUME len # 0, first > pushed, k # 0 PROVE FALSE
        OBVIOUS
      <4>1. pushed \in Int /\ pushed <= pushed /\ pushed < pushed + k
        OBVIOUS
      <4>2. pushed \in Known(a, at, len)
        BY <3>1, <4>1, Zenon
      <4>3. pushed \notin Fits(a, at, len)
        <5>1. pushed \notin at .. at + len - 1
          BY <2>1
        <5> QED BY <5>1, Zenon DEF Fits
      <4>4. pushed \in Pending(a)
        BY <4>2, <4>3, Zenon DEF Known
      <4>5. pushed + 1 \in Bits(a.storage_bitmap)
        BY <1>2, <1>4, <4>1, <4>4, PendingSet
      <4>6. BytesPushed(a) < (pushed + 1) - 1
        BY <1>4, <4>5, Zenon DEF AllAhead
      <4>7. ~(pushed < (pushed + 1) - 1)
        OBVIOUS
      <4> QED BY <1>2, <4>6, <4>7, Zenon
    <3>8. len # 0 /\ first = pushed => pushed + k # pushed
      <4> SUFFICES ASSUME len # 0, first = pushed, pushed + k = pushed PROVE FALSE
        OBVIOUS
      <4>1. pushed \in Int /\ at <= pushed /\ pushed < at + len /\ pushed <= pushed
        BY <1>3, <2>1
      <4>2. pushed \notin Known(a, at, len)
        BY <3>1, Zenon
      <4> QED BY <3>4, <4>1, <4>2, Zenon
    <3>9. Shut(q).closed = TRUE
      BY <3>2, ShutIntact
    <3>10. Closed(r) => q.pushed = n
      <4>1. ASSUME Closed(r) PROVE pushed + k = n
        <5>1. k = 0 /\ pushed = n
          BY <1>2, <1>4, <3>1, <4>1, Zenon
        <5> QED BY <5>1
      <4> QED BY <3>2, <4>1, Zenon
    <3>11. /\ (s.seen_last <=> Closed(r) \/ fin)
           /\ (s.output_.closed <=> Closed(r) \/ fin)
      <4>1. s.seen_last <=> Closed(r) \/ fin
        BY <1>4, <3>1, Zenon
      <4>2. CASE Closed(r) \/ fin
        <5>1. s.output_ = Shut(q)
          BY <3>1, <3>2, <3>6, <3>10, <4>1, <4>2, Zenon
        <5> QED BY <3>9, <4>1, <4>2, <5>1, Zenon
      <4>3. CASE ~(Closed(r) \/ fin)
        <5>1. s.output_ = q
          BY <3>1, <4>1, <4>3, Zenon
        <5> QED BY <1>4, <3>2, <4>1, <4>3, <5>1, Zenon
      <4> QED BY <4>2, <4>3
    <3>12. pushed <= pushed + k
      OBVIOUS
    <3> QED BY <1>1, <1>2, <2>1, <2>10, <2>12, <3>1, <3>7, <3>8, <3>11, <3>12, Zenon
  <2> QED BY <2>13, <2>14
<1> QED BY <1>5, <1>6

\* receive() of a message that is not turned away.
Taken(r, m) ==
  LET flagged  == TakeFlags(r, m)
      inserted == InsertPayload(flagged, m)
  IN  IF IsAhead(flagged, m) \/ inserted.reassembler_.fault # "none" THEN inserted
      ELSE Advance(inserted, Pushed(r))

\* cur_seq moves on over what was written and over the flags that were not counted yet.
LEMMA AdvanceIs ==
  ASSUME NEW i \in Receivers, NEW pushed \in Nat, NEW after \in Nat, after = Pushed(i), pushed <= after,
         NEW next \in Nat, NEW zero \in Seqnos, i.cur_seq = WrapSeq(next, zero),
         NEW syn \in 0 .. 1, syn = Count(i.seen_syn /\ ~i.syn_accounted),
         NEW fin \in 0 .. 1, fin = Count(i.seen_fin /\ ~i.fin_accounted),
         NEW t, t = Advance(i, pushed)
  PROVE  /\ t \in Receivers /\ t.reassembler_ = i.reassembler_ /\ t.isn_ = i.isn_
         /\ t.cur_seq = WrapSeq(next + ((after - pushed) + syn + fin), zero)
         /\ t.seen_syn = i.seen_syn /\ t.seen_fin = i.seen_fin /\ t.capacity = i.capacity
         /\ (t.syn_accounted <=> i.syn_accounted \/ i.seen_syn)
         /\ (t.fin_accounted <=> i.fin_accounted \/ i.seen_fin)
<1>1. PICK b \in Nat : b = (after - pushed) + syn + fin
  OBVIOUS
<1>2. PICK cur \in Seqnos : cur = Plus(i.cur_seq, b) /\ cur = WrapSeq(next + b, zero)
  <2>1. Plus(WrapSeq(next, zero), b) = WrapSeq(next + b, zero)
    BY PlusWrapped
  <2>2. next + b \in Nat
    OBVIOUS
  <2>3. WrapSeq(next + b, zero) \in Seqnos
    BY <2>2, PlusWrapped
  <2> QED BY <2>1, <2>3, Zenon
<1>3. PICK s \in BOOLEAN, e \in BOOLEAN :
        /\ s = (i.syn_accounted \/ (i.seen_syn /\ ~i.syn_accounted))
        /\ e = (i.fin_accounted \/ (i.seen_fin /\ ~i.fin_accounted))
  OBVIOUS
<1>4. t = [i EXCEPT !.cur_seq = cur, !.syn_accounted = s, !.fin_accounted = e]
  BY <1>1, <1>2, <1>3, Zenon DEF Advance, Count
<1>5. /\ t \in Receivers /\ t.reassembler_ = i.reassembler_ /\ t.isn_ = i.isn_
      /\ t.cur_seq = cur /\ t.syn_accounted = s /\ t.fin_accounted = e
      /\ t.seen_syn = i.seen_syn /\ t.seen_fin = i.seen_fin /\ t.capacity = i.capacity
  BY <1>4 DEF Receivers
<1> QED BY <1>1, <1>2, <1>3, <1>5, Zenon

LEMMA TakenIs ==
  ASSUME NEW r, NEW n, NEW zero \in Seqnos, Receiving(r, n, zero), Small(n, r.capacity),
         NEW syn, NEW first, NEW len, NEW fin, Arrives(r, n, syn, first, len, fin),
         Proper(r.reassembler_, n, first, len),
         NEW m, IsMessage(m, syn, first, len, fin, zero),
         NEW t, t = Taken(r, m)
  PROVE  /\ Receiving(t, n, zero) /\ t.capacity = r.capacity
         /\ len # 0 /\ first = Pushed(r) => Pushed(t) > Pushed(r)
         /\ Reassembles(r.reassembler_, t.reassembler_, n, Index(r, first, len), len, fin)
<1>1. PICK f : f = TakeFlags(r, m)
  OBVIOUS
<1>2. PICK s : s = Insert(r.reassembler_, Index(r, first, len), Bytes(first, len), fin)
  OBVIOUS
<1>3. PICK i : i = InsertPayload(f, m)
  OBVIOUS
<1>4. /\ first \in Nat /\ len \in Nat /\ syn \in BOOLEAN /\ fin \in BOOLEAN
      /\ (syn => first = 0 /\ ~r.seen_syn) /\ (~syn => r.seen_syn)
      /\ (fin => first <= Pushed(r))
      /\ m.seqno = WrapSeq(IF syn THEN 0 ELSE first + 1, zero)
      /\ m.SYN = syn /\ m.FIN = fin /\ m.payload = Bytes(first, len)
  BY Zenon DEF Arrives, IsMessage
<1>5. /\ Consistent(s, n) /\ AllAhead(s) /\ StorageCapacity(s) = r.capacity
      /\ (s.seen_last <=> s.output_.closed)
      /\ (s.output_.closed <=> Closed(r) \/ fin)
      /\ Pushed(r) <= BytesPushed(s)
      /\ len # 0 /\ first > Pushed(r) => BytesPushed(s) = Pushed(r)
      /\ len # 0 /\ first = Pushed(r) => BytesPushed(s) # Pushed(r)
      /\ Reassembles(r.reassembler_, s, n, Index(r, first, len), len, fin)
  BY <1>2, PayloadIs
<1>6. /\ IsAhead(f, m) <=> len # 0 /\ first > Pushed(r)
      /\ StreamIndex(f, m) = Index(r, first, len)
  BY <1>1, IndexIs
<1>7. PICK number \in Nat : number = IF syn THEN 0 ELSE first + 1
  BY <1>4
<1>8. m.seqno \in Seqnos /\ WrapSeq(0, zero) = zero
  <2>1. WrapSeq(number, zero) \in Seqnos
    BY PlusWrapped
  <2>2. 0 < RelSeqMax /\ 0 \in Nat
    BY RelSeqMaxAssumption
  <2> QED BY <1>4, <1>7, <2>1, <2>2, WrapIsn, Zenon
<1>9. /\ f \in Receivers /\ f.reassembler_ = r.reassembler_
      /\ f.isn_ = IF syn THEN m.seqno ELSE r.isn_
      /\ f.cur_seq = IF syn THEN m.seqno ELSE r.cur_seq
      /\ f.seen_syn = (r.seen_syn \/ syn) /\ f.seen_fin = (r.seen_fin \/ fin)
      /\ f.syn_accounted = r.syn_accounted /\ f.fin_accounted = r.fin_accounted
      /\ f.capacity = r.capacity
  <2>1. r \in Receivers /\ m.SYN \in BOOLEAN /\ m.FIN \in BOOLEAN
    BY <1>4, Zenon DEF Receiving
  <2>2. /\ f \in Receivers /\ f.reassembler_ = r.reassembler_
        /\ f.isn_ = IF m.SYN THEN m.seqno ELSE r.isn_
        /\ f.cur_seq = IF m.SYN THEN m.seqno ELSE r.cur_seq
        /\ f.seen_syn = (r.seen_syn \/ m.SYN) /\ f.seen_fin = (r.seen_fin \/ m.FIN)
        /\ f.syn_accounted = r.syn_accounted /\ f.fin_accounted = r.fin_accounted
        /\ f.capacity = r.capacity
    BY <1>1, <1>8, <2>1, FlagsAre
  <2> QED BY <1>4, <2>2, Zenon
<1>10. /\ i \in Receivers /\ i.reassembler_ = s /\ i.isn_ = f.isn_ /\ i.cur_seq = f.cur_seq
       /\ i.seen_syn = f.seen_syn /\ i.seen_fin = f.seen_fin
       /\ i.syn_accounted = f.syn_accounted /\ i.fin_accounted = f.fin_accounted
       /\ i.capacity = f.capacity
  <2>1. i = [f EXCEPT !.reassembler_ = s]
    BY <1>2, <1>3, <1>4, <1>6, <1>9, Zenon DEF InsertPayload
  <2>2. s \in Reassemblers
    BY <1>5, Zenon DEF Consistent
  <2> QED BY <1>9, <2>1, <2>2 DEF Receivers
<1>11. PICK pushed \in Nat, after \in Nat, c \in 0 .. 1, e \in 0 .. 1 :
         /\ pushed = Pushed(r) /\ after = BytesPushed(s) /\ pushed <= after
         /\ c = Count(Closed(r)) /\ e = Count(fin /\ ~Closed(r))
  <2>1. Count(Closed(r)) \in 0 .. 1 /\ Count(fin /\ ~Closed(r)) \in 0 .. 1
    BY DEF Count
  <2>2. n \in Nat
    BY Zenon DEF Small
  <2>3. BytesPushed(s) \in Nat /\ BytesPushed(r.reassembler_) \in Nat
    <3>1. Consistent(r.reassembler_, n)
      BY Zenon DEF Receiving
    <3> QED BY <1>5, <2>2, <3>1, ConsistentFields
  <2> QED BY <1>5, <2>1, <2>3, Zenon DEF Pushed
<1>12. /\ (r.seen_fin <=> Closed(r)) /\ (r.syn_accounted <=> r.seen_syn) /\ (r.fin_accounted <=> r.seen_fin)
       /\ ~r.seen_syn => pushed = 0 /\ ~Closed(r)
       /\ r.seen_syn => r.isn_ = zero /\ r.cur_seq = WrapSeq(pushed + 1 + c, zero)
  BY <1>11, Zenon DEF Receiving
<1>13. PICK next \in Nat : next = IF syn THEN 0 ELSE pushed + 1 + c
  OBVIOUS
<1>14. f.isn_ = zero /\ f.cur_seq = WrapSeq(next, zero)
  BY <1>4, <1>7, <1>8, <1>9, <1>12, <1>13, Zenon
<1>15. t = IF len # 0 /\ first > pushed THEN i ELSE Advance(i, pushed)
  <2>1. s.fault = "none"
    BY <1>5, Zenon DEF Consistent
  <2> QED BY <1>1, <1>3, <1>6, <1>10, <1>11, <2>1, Zenon DEF Taken
<1>16. CASE len # 0 /\ first > pushed
  <2>1. ~fin /\ ~syn /\ first # pushed
    <3>1. ~(first <= pushed) /\ first # pushed /\ first # 0
      BY <1>4, <1>11, <1>16
    <3> QED BY <1>4, <1>11, <3>1, Zenon
  <2>2. t = i /\ after = pushed
    BY <1>5, <1>11, <1>15, <1>16, Zenon
  <2>3. /\ t \in Receivers /\ t.reassembler_ = s /\ t.isn_ = zero /\ t.seen_syn
        /\ t.cur_seq = WrapSeq(pushed + 1 + c, zero)
        /\ (t.seen_fin <=> Closed(r)) /\ t.syn_accounted /\ (t.fin_accounted <=> Closed(r))
        /\ t.capacity = r.capacity
    BY <1>4, <1>9, <1>10, <1>12, <1>13, <1>14, <2>1, <2>2, Zenon
  <2>4. (Closed(t) <=> Closed(r)) /\ Pushed(t) = pushed /\ Closed(t) = s.output_.closed
    BY <1>5, <1>11, <2>1, <2>2, <2>3, Zenon DEF Closed, Pushed
  <2>5. Count(Closed(t)) = c
    BY <1>11, <2>4, Zenon DEF Count
  <2>6. Receiving(t, n, zero)
    BY <1>5, <2>3, <2>4, <2>5, Zenon DEF Receiving
  <2> QED BY <1>5, <1>11, <2>1, <2>3, <2>6, Zenon
<1>17. CASE ~(len # 0 /\ first > pushed)
  <2>1. /\ (i.seen_syn /\ ~i.syn_accounted <=> syn)
        /\ (i.seen_fin /\ ~i.fin_accounted <=> fin /\ ~Closed(r))
    BY <1>4, <1>9, <1>10, <1>12, Zenon
  <2>2. PICK b \in 0 .. 1 : b = Count(i.seen_syn /\ ~i.syn_accounted) /\ b = Count(syn)
    BY <2>1 DEF Count
  <2>3. e = Count(i.seen_fin /\ ~i.fin_accounted)
    BY <1>11, <2>1, Zenon DEF Count
  <2>4. t = Advance(i, pushed) /\ after = Pushed(i)
    BY <1>10, <1>11, <1>15, <1>17, Zenon DEF Pushed
  <2>5. /\ t \in Receivers /\ t.reassembler_ = i.reassembler_ /\ t.isn_ = i.isn_
        /\ t.cur_seq = WrapSeq(next + ((after - pushed) + b + e), zero)
        /\ t.seen_syn = i.seen_syn /\ t.seen_fin = i.seen_fin /\ t.capacity = i.capacity
        /\ (t.syn_accounted <=> i.syn_accounted \/ i.seen_syn)
        /\ (t.fin_accounted <=> i.fin_accounted \/ i.seen_fin)
    <3>1. i.cur_seq = WrapSeq(next, zero)
      BY <1>10, <1>14, Zenon
    <3> QED BY <1>10, <1>11, <2>2, <2>3, <2>4, <3>1, AdvanceIs
  <2>6. Closed(t) <=> Closed(r) \/ fin
    BY <1>5, <1>10, <2>5, Zenon DEF Closed
  <2>7. next + ((after - pushed) + b + e) = after + 1 + Count(Closed(t))
    <3>1. PICK g \in 0 .. 1 : g = Count(Closed(t)) /\ g = c + e
      <4>1. CASE Closed(r)
        <5>1. c = 1 /\ e = 0 /\ Count(Closed(t)) = 1
          BY <1>11, <2>6, <4>1, Zenon DEF Count
        <5> QED BY <5>1
      <4>2. CASE ~Closed(r)
        <5>1. c = 0 /\ e = Count(fin) /\ Count(Closed(t)) = Count(fin)
          BY <1>11, <2>6, <4>2, Zenon DEF Count
        <5>2. e = 0 + e
          OBVIOUS
        <5> QED BY <5>1, <5>2, Zenon
      <4> QED BY <4>1, <4>2
    <3>2. CASE syn
      <4>1. next = 0 /\ pushed = 0 /\ c = 0 /\ b = 1
        <5>1. ~Closed(r) /\ pushed = 0
          BY <1>4, <1>12, <3>2, Zenon
        <5> QED BY <1>11, <1>13, <2>2, <3>2, <5>1, Zenon DEF Count
      <4>2. next + ((after - pushed) + b + e) = after + 1 + g
        BY <3>1, <4>1
      <4> QED BY <3>1, <4>2, Zenon
    <3>3. CASE ~syn
      <4>1. next = pushed + 1 + c /\ b = 0
        BY <1>13, <2>2, <3>3, Zenon DEF Count
      <4>2. next + ((after - pushed) + b + e) = after + 1 + g
        BY <3>1, <4>1
      <4> QED BY <3>1, <4>2, Zenon
    <3> QED BY <1>4, <3>2, <3>3
  <2>8. Pushed(t) = after /\ Closed(t) = s.output_.closed /\ t.reassembler_ = s
    BY <1>10, <1>11, <2>5, Zenon DEF Pushed, Closed
  <2>9. /\ t.seen_syn /\ t.isn_ = zero /\ t.cur_seq = WrapSeq(Pushed(t) + 1 + Count(Closed(t)), zero)
        /\ (t.seen_fin <=> Closed(t)) /\ t.syn_accounted /\ (t.fin_accounted <=> t.seen_fin)
        /\ t.capacity = r.capacity
    BY <1>4, <1>9, <1>10, <1>12, <1>14, <2>5, <2>6, <2>7, <2>8, Zenon
  <2>10. Receiving(t, n, zero)
    BY <1>5, <2>5, <2>8, <2>9, Zenon DEF Receiving
  <2>11. len # 0 /\ first = Pushed(r) => Pushed(t) > Pushed(r)
    <3>1. after # pushed => after > pushed
      BY <1>11
    <3> QED BY <1>5, <1>11, <2>8, <3>1, Zenon
  <2> QED BY <1>5, <2>8, <2>9, <2>10, <2>11, Zenon
<1> QED BY <1>16, <1>17

\* An empty payload that closes nothing changes nothing.
LEMMA WritesNothing ==
  ASSUME NEW r, NEW n \in Nat, Consistent(r, n), AllAhead(r), (r.seen_last <=> r.output_.closed),
         NEW at \in Nat, NEW fin \in BOOLEAN, fin => r.seen_last,
         NEW s, s.seen_last \in BOOLEAN, Reassembles(r, s, n, at, 0, fin)
  PROVE  s.output_ = r.output_ /\ s.seen_last = r.seen_last /\ Pending(s) = Pending(r)
<1> SUFFICES ASSUME Writes(r, s, n, at, 0, fin)
             PROVE  s.output_ = r.output_ /\ s.seen_last = r.seen_last /\ Pending(s) = Pending(r)
  BY Zenon DEF Reassembles
<1>0. PICK pushed \in Nat : pushed = BytesPushed(r)
  BY ConsistentFields
<1>1. PICK p : pushed = BytesPushed(r) /\ p = r.output_ /\ Intact(p) /\ p.pushed = pushed
  BY <1>0, ConsistentFields, Zenon DEF Consistent, BytesPushed
<1>2. Known(r, at, 0) = Pending(r)
  <2>1. at .. at + 0 - 1 = {}
    OBVIOUS
  <2> QED BY <2>1, Zenon DEF Known, Fits
<1>3. \A x \in Pending(r) : pushed \in pushed .. x /\ x # pushed
  <2> SUFFICES ASSUME NEW x \in Pending(r) PROVE pushed \in pushed .. x /\ x # pushed
    BY Zenon
  <2>1. PICK i \in Bits(r.storage_bitmap) : x = r.storage[i]
    BY Zenon DEF Pending
  <2>2. i \in 1 .. Len(r.storage_bitmap) /\ x = i - 1 /\ pushed < i - 1
    BY <1>1, <2>1, Zenon DEF Bits, Consistent, AllAhead
  <2> QED BY <2>2
<1>4. FrontRun(r, at, 0) = {}
  <2>1. pushed \notin Pending(r)
    BY <1>3, Zenon
  <2>2. ASSUME NEW x \in FrontRun(r, at, 0) PROVE FALSE
    <3>1. x \in Pending(r) /\ \A j \in pushed .. x : j \in Pending(r)
      BY <1>1, <1>2, Zenon DEF FrontRun
    <3> QED BY <1>3, <2>1, <3>1, Zenon
  <2> QED BY <2>2, Zenon
<1>5. Put(p, Bytes(pushed, Cardinality(FrontRun(r, at, 0)))) = p
  <2>1. Cardinality({}) = 0
    BY FS_EmptySet
  <2>2. Put(p, Bytes(p.pushed, 0)) = p
    BY <1>1, PutNothing
  <2> QED BY <1>1, <1>4, <2>1, <2>2, Zenon
<1>6. /\ s.seen_last = (r.seen_last \/ fin)
      /\ s.output_ = IF s.seen_last /\ p.pushed = n THEN Shut(p) ELSE p
      /\ Pending(s) = Known(r, at, 0) \ FrontRun(r, at, 0)
  BY <1>1, <1>5, Zenon DEF Writes
<1>7. r.seen_last \in BOOLEAN
  BY ConsistentFields
<1>8. s.seen_last = r.seen_last
  BY <1>6, <1>7, Zenon
<1>9. s.output_ = p
  <2>1. CASE p.closed
    <3>1. Shut(p) = p
      BY <1>1, <2>1, ShutTwice
    <3> QED BY <1>6, <3>1, Zenon
  <2>2. CASE ~p.closed
    BY <1>1, <1>6, <1>8, <2>2, Zenon
  <2> QED BY <2>1, <2>2
<1> QED BY <1>1, <1>2, <1>4, <1>6, <1>8, <1>9, Zenon

\* set_error() changes nothing of the pipe but the flag.
LEMMA SpoilIntact ==
  ASSUME NEW p, Intact(p)
  PROVE  LET q == Spoil(p)
         IN  /\ Intact(q) /\ q.pushed = p.pushed /\ q.popped = p.popped
             /\ q.cap = p.cap /\ q.closed = p.closed
<1>1. PICK q : q = Spoil(p)
  OBVIOUS
<1>2. q = [p EXCEPT !.error = TRUE] /\ p \in Pipes
  BY <1>1, Zenon DEF Spoil, Intact
<1>3. /\ q.buf = p.buf /\ q.pushed = p.pushed /\ q.popped = p.popped
      /\ q.cap = p.cap /\ q.closed = p.closed /\ q \in Pipes
  BY <1>2 DEF Pipes
<1> QED BY <1>1, <1>3, Zenon DEF Intact

WithOutput(r, q) == [r EXCEPT !.reassembler_.output_ = q]

\* A change of the output that leaves what was written as it is.
LEMMA OutputChanged ==
  ASSUME NEW r, NEW n, NEW zero, Receiving(r, n, zero),
         NEW p, p = r.reassembler_.output_,
         NEW q, Intact(q), q.pushed = p.pushed, q.cap = p.cap, q.closed = p.closed,
         NEW k, k = WithOutput(r, q)
  PROVE  /\ Receiving(k, n, zero) /\ k.seen_syn = r.seen_syn /\ k.capacity = r.capacity
         /\ Pushed(k) = Pushed(r) /\ Closed(k) = Closed(r)
         /\ k.reassembler_.output_ = q /\ k.reassembler_.seen_last = r.reassembler_.seen_last
         /\ Pending(k.reassembler_) = Pending(r.reassembler_)
         /\ k.reassembler_.storage_bitmap = r.reassembler_.storage_bitmap
<1>1. PICK a : a = r.reassembler_
  OBVIOUS
<1>2. PICK b : b = [a EXCEPT !.output_ = q]
  OBVIOUS
<1>3. a \in Reassemblers /\ q \in Pipes /\ r \in Receivers
  BY <1>1, Zenon DEF Receiving, Consistent, Intact
<1>4. /\ b.output_ = q /\ b.cur_index = a.cur_index /\ b.storage = a.storage
      /\ b.storage_bitmap = a.storage_bitmap /\ b.fault = a.fault
      /\ b.seen_last = a.seen_last /\ b.total_len = a.total_len /\ b \in Reassemblers
  BY <1>2, <1>3 DEF Reassemblers
<1>5. k = [r EXCEPT !.reassembler_ = b]
  BY <1>1, <1>2 DEF WithOutput
<1>6. /\ k.reassembler_ = b /\ k.isn_ = r.isn_ /\ k.cur_seq = r.cur_seq /\ k.capacity = r.capacity
      /\ k.seen_syn = r.seen_syn /\ k.syn_accounted = r.syn_accounted
      /\ k.seen_fin = r.seen_fin /\ k.fin_accounted = r.fin_accounted /\ k \in Receivers
  BY <1>3, <1>4, <1>5 DEF Receivers
<1>7. /\ BytesPushed(b) = BytesPushed(a) /\ StorageCapacity(b) = StorageCapacity(a)
      /\ Pending(b) = Pending(a) /\ b.output_.closed = a.output_.closed
  BY <1>1, <1>4, Zenon DEF BytesPushed, StorageCapacity, Pending
<1>8. /\ Consistent(a, n) /\ AllAhead(a) /\ StorageCapacity(a) = r.capacity
      /\ (a.seen_last <=> Closed(r)) /\ (r.seen_fin <=> Closed(r))
      /\ (r.syn_accounted <=> r.seen_syn) /\ (r.fin_accounted <=> r.seen_fin)
      /\ ~r.seen_syn => Pushed(r) = 0 /\ ~Closed(r)
      /\ r.seen_syn => r.isn_ = zero /\ r.cur_seq = WrapSeq(Pushed(r) + 1 + Count(Closed(r)), zero)
  BY <1>1, Zenon DEF Receiving
<1>9. Consistent(b, n) /\ AllAhead(b)
  BY <1>4, <1>7, <1>8, Zenon DEF Consistent, AllAhead
<1>10. Pushed(k) = Pushed(r) /\ Closed(k) = Closed(r)
  BY <1>1, <1>6, <1>7, Zenon DEF Pushed, Closed
<1>11. Receiving(k, n, zero)
  BY <1>4, <1>6, <1>7, <1>8, <1>9, <1>10, Zenon DEF Receiving
<1> QED BY <1>1, <1>4, <1>6, <1>7, <1>10, <1>11, Zenon

\* receive() without and with a reset.
LEMMA ReceiveTakes ==
  ASSUME NEW r, NEW m
  PROVE  /\ ~m.RST => ReceiverReceive(r, m) = IF ~m.SYN /\ ~r.seen_syn THEN r ELSE Taken(r, m)
         /\ m.RST =>
              \A k : k = [r EXCEPT !.reassembler_.output_ = Spoil(@)] /\ Pushed(k) = Pushed(r)
                    => ReceiverReceive(r, m) = IF ~m.SYN /\ ~r.seen_syn THEN k ELSE Taken(k, m)
BY Zenon DEF ReceiverReceive, Taken
-----------------------------------------------------------------------------
\* Inside these limits the receiver works; the runs that leave them show how it fails.
Limits == /\ LastGap <= Capacity
          /\ ~SynRepeats /\ ~FinOvertakes
          /\ \A n \in StreamLens : n + 2 < RelSeqMax

IInv == /\ streamLen \in StreamLens /\ isn \in Isns
        /\ receiver.capacity = Capacity
        /\ Receiving(receiver, streamLen, isn)

LEMMA Sizes ==
  ASSUME Limits, IInv
  PROVE  /\ Small(streamLen, receiver.capacity) /\ isn \in Seqnos /\ streamLen \in Nat
         /\ LastGap \in Nat /\ MaxLen \in Nat /\ LastGap <= receiver.capacity
BY MachineAssumption DEF Limits, IInv, Small

LEMMA InitIInv == Limits /\ Init => IInv
<1> SUFFICES ASSUME Limits, Init PROVE IInv
  OBVIOUS
<1>1. /\ streamLen \in StreamLens /\ isn \in Isns /\ receiver = NewReceiver(Capacity)
      /\ streamLen \in Nat /\ Capacity \in Nat /\ Capacity > 0
  BY MachineAssumption DEF Init
<1>2. PICK a : a = NewReassembler(Capacity)
  OBVIOUS
<1>3. /\ Consistent(a, streamLen) /\ AllAhead(a) /\ StorageCapacity(a) = Capacity
      /\ BytesPushed(a) = 0 /\ ~a.seen_last /\ a.output_ = NewPipe(Capacity)
  BY <1>1, <1>2, NewIs
<1>4. a \in Reassemblers /\ 0 \in Seqnos
  <2>1. 0 \in Seqnos
    BY RelSeqMaxAssumption DEF Seqnos
  <2> QED BY <1>3, <2>1, Zenon DEF Consistent
<1>5. receiver = [ reassembler_ |-> a, isn_ |-> 0, cur_seq |-> 0, capacity |-> Capacity,
                   seen_syn |-> FALSE, syn_accounted |-> FALSE,
                   seen_fin |-> FALSE, fin_accounted |-> FALSE ]
  BY <1>1, <1>2, Zenon DEF NewReceiver
<1>6. /\ receiver \in Receivers /\ receiver.reassembler_ = a /\ receiver.capacity = Capacity
      /\ ~receiver.seen_syn /\ ~receiver.syn_accounted
      /\ ~receiver.seen_fin /\ ~receiver.fin_accounted
  BY <1>1, <1>4, <1>5 DEF Receivers
<1>7. ~Closed(receiver)
  <2>1. ~NewPipe(Capacity).closed
    BY DEF NewPipe
  <2> QED BY <1>3, <1>6, <2>1, Zenon DEF Closed
<1>8. Receiving(receiver, streamLen, isn)
  BY <1>3, <1>6, <1>7, Zenon DEF Receiving, Pushed
<1> QED BY <1>1, <1>6, <1>8, Zenon DEF IInv

\* What the network may deliver arrives in the sense above, and leaves gaps where the
\* Reassembler can keep them.
LEMMA SentArrives ==
  ASSUME Limits, IInv, NEW syn \in BOOLEAN, NEW first \in Nat, NEW len \in Nat, NEW fin \in BOOLEAN,
         MaySend(syn, first, len, fin), syn \/ receiver.seen_syn
  PROVE  /\ Arrives(receiver, streamLen, syn, first, len, fin)
         /\ Proper(receiver.reassembler_, streamLen, first, len)
<1>1. /\ syn => first = 0 /\ ~receiver.seen_syn
      /\ first + len <= streamLen /\ (fin => first + len = streamLen)
      /\ \/ first + len <= LastGap
         \/ first <= Pushed(receiver) /\ BytesPending(receiver.reassembler_) = 0
      /\ first + len <= receiver.reassembler_.output_.popped + Capacity
      /\ 2 * (Pushed(receiver) - first) < RelSeqMax
      /\ fin => first <= Pushed(receiver)
  BY Zenon DEF MaySend, Limits, Output
<1>2. Arrives(receiver, streamLen, syn, first, len, fin)
  BY <1>1, Zenon DEF Arrives, IInv
<1>3. PICK pushed \in Nat, cap \in Nat :
        /\ pushed = Pushed(receiver) /\ pushed = BytesPushed(receiver.reassembler_)
        /\ cap = StorageCapacity(receiver.reassembler_) /\ LastGap \in Nat /\ LastGap <= cap
        /\ streamLen \in Nat
  <2>1. Consistent(receiver.reassembler_, streamLen)
        /\ StorageCapacity(receiver.reassembler_) = receiver.capacity
    BY Zenon DEF IInv, Receiving
  <2> QED BY <2>1, Sizes, ConsistentFields, Zenon DEF Pushed
<1>4. Proper(receiver.reassembler_, streamLen, first, len)
  <2>1. CASE first + len <= LastGap
    <3>1. first + len <= cap
      BY <1>3, <2>1
    <3> QED BY <1>1, <1>3, <3>1, Zenon DEF Proper
  <2>2. CASE first <= pushed /\ BytesPending(receiver.reassembler_) = 0
    <3>1. ~(pushed < first)
      BY <2>2
    <3>2. Bits(receiver.reassembler_.storage_bitmap) = {}
      <4>1. Consistent(receiver.reassembler_, streamLen)
        BY Zenon DEF IInv, Receiving
      <4> QED BY <1>3, <2>2, <4>1, NothingPending
    <3> QED BY <1>1, <1>3, <3>1, <3>2, Zenon DEF Proper
  <2> QED BY <1>1, <1>3, <2>1, <2>2, Zenon
<1> QED BY <1>2, <1>4

\* The network delivers a message, and the receiver becomes t.
Delivers(syn, first, len, fin, t) ==
  /\ MaySend(syn, first, len, fin)
  /\ t = ReceiverReceive(receiver, Message(syn, first, len, fin, FALSE))

\* A message of the stream: it is turned away before the SYN, else the receiver stays in
\* good order.
LEMMA ReceiveKeeps ==
  ASSUME Limits, IInv, NEW syn \in BOOLEAN, NEW first \in Nat, NEW len \in Nat, NEW fin \in BOOLEAN,
         NEW t, Delivers(syn, first, len, fin, t)
  PROVE  /\ Receiving(t, streamLen, isn) /\ t.capacity = receiver.capacity
         /\ syn \/ receiver.seen_syn =>
              /\ len # 0 /\ first = Pushed(receiver) => Pushed(t) > Pushed(receiver)
              /\ Reassembles(receiver.reassembler_, t.reassembler_, streamLen,
                             Index(receiver, first, len), len, fin)
         /\ ~(syn \/ receiver.seen_syn) => t = receiver
<1>1. PICK m : m = Message(syn, first, len, fin, FALSE)
  OBVIOUS
<1>2. IsMessage(m, syn, first, len, fin, isn) /\ ~m.RST /\ m.SYN = syn
  <2>1. /\ m.seqno = WrapSeq(IF syn THEN 0 ELSE first + 1, isn)
        /\ m.payload = Bytes(first, len)
    BY <1>1 DEF Message
  <2>2. m.SYN = syn /\ m.FIN = fin /\ m.RST = FALSE
    BY <1>1 DEF Message
  <2> QED BY <2>1, <2>2, Zenon DEF IsMessage
<1>3. t = IF ~m.SYN /\ ~receiver.seen_syn THEN receiver ELSE Taken(receiver, m)
  BY <1>1, <1>2, ReceiveTakes, Zenon DEF Delivers
<1>4. CASE ~(syn \/ receiver.seen_syn)
  <2>1. t = receiver
    BY <1>2, <1>3, <1>4, Zenon
  <2> QED BY <1>4, <2>1, Zenon DEF IInv
<1>5. CASE syn \/ receiver.seen_syn
  <2>1. t = Taken(receiver, m)
    BY <1>2, <1>3, <1>5, Zenon
  <2>2. /\ Arrives(receiver, streamLen, syn, first, len, fin)
        /\ Proper(receiver.reassembler_, streamLen, first, len)
    <3>1. MaySend(syn, first, len, fin)
      BY Zenon DEF Delivers
    <3> QED BY <1>5, <3>1, SentArrives
  <2>3. Receiving(receiver, streamLen, isn)
    BY Zenon DEF IInv
  <2>4. Small(streamLen, receiver.capacity) /\ isn \in Seqnos
    BY Sizes, Zenon
  <2>5. PICK r, n, zero : r = receiver /\ n = streamLen /\ zero = isn
    OBVIOUS
  <2>6. /\ zero \in Seqnos /\ Receiving(r, n, zero) /\ Small(n, r.capacity)
        /\ Arrives(r, n, syn, first, len, fin) /\ Proper(r.reassembler_, n, first, len)
        /\ IsMessage(m, syn, first, len, fin, zero) /\ t = Taken(r, m)
    BY <1>2, <2>1, <2>2, <2>3, <2>4, <2>5, Zenon
  <2>7. /\ Receiving(t, n, zero) /\ t.capacity = r.capacity
        /\ len # 0 /\ first = Pushed(r) => Pushed(t) > Pushed(r)
        /\ Reassembles(r.reassembler_, t.reassembler_, n, Index(r, first, len), len, fin)
    BY <2>6, TakenIs
  <2> QED BY <1>5, <2>5, <2>7, Zenon
<1> QED BY <1>4, <1>5

IsReset(m, pushed, zero) == m.RST /\ IsMessage(m, FALSE, pushed, 0, FALSE, zero)

\* A reset marks the output, and nothing else of the stream changes.
LEMMA ResetIs ==
  ASSUME NEW r, NEW n \in Nat, NEW zero \in Seqnos, Receiving(r, n, zero), Small(n, r.capacity),
         NEW pushed, pushed = Pushed(r),
         NEW m, IsReset(m, pushed, zero),
         NEW t, t = ReceiverReceive(r, m)
  PROVE  /\ Receiving(t, n, zero) /\ t.capacity = r.capacity
         /\ t.reassembler_.output_ = Spoil(r.reassembler_.output_)
         /\ t.reassembler_.seen_last = r.reassembler_.seen_last
         /\ Pending(t.reassembler_) = Pending(r.reassembler_)
<1>1. PICK p : p = r.reassembler_.output_
  OBVIOUS
<1>2. PICK q : q = Spoil(p)
  OBVIOUS
<1>3. PICK k : k = WithOutput(r, q)
  OBVIOUS
<1>4. Intact(q) /\ q.pushed = p.pushed /\ q.cap = p.cap /\ q.closed = p.closed
  <2>1. Intact(p)
    BY <1>1, Zenon DEF Receiving, Consistent
  <2> QED BY <1>2, <2>1, SpoilIntact, Zenon
<1>5. /\ Receiving(k, n, zero) /\ k.seen_syn = r.seen_syn /\ k.capacity = r.capacity
      /\ Pushed(k) = Pushed(r) /\ Closed(k) = Closed(r)
      /\ k.reassembler_.output_ = q /\ k.reassembler_.seen_last = r.reassembler_.seen_last
      /\ Pending(k.reassembler_) = Pending(r.reassembler_)
      /\ k.reassembler_.storage_bitmap = r.reassembler_.storage_bitmap
  BY <1>1, <1>3, <1>4, OutputChanged
<1>6. pushed \in Nat
  <2>1. Consistent(r.reassembler_, n)
    BY Zenon DEF Receiving
  <2> QED BY <2>1, ConsistentFields, Zenon DEF Pushed
<1>7. t = IF ~r.seen_syn THEN k ELSE Taken(k, m)
  <2>1. k = [r EXCEPT !.reassembler_.output_ = Spoil(@)]
    BY <1>1, <1>2, <1>3 DEF WithOutput
  <2>2. ~m.SYN
    BY Zenon DEF IsReset, IsMessage
  <2>3. m.RST
    BY Zenon DEF IsReset
  <2> QED BY <1>5, <2>1, <2>2, <2>3, ReceiveTakes, Zenon
<1>8. CASE ~r.seen_syn
  BY <1>1, <1>2, <1>5, <1>7, <1>8, Zenon
<1>9. CASE r.seen_syn
  <2>1. t = Taken(k, m)
    BY <1>7, <1>9, Zenon
  <2>2. PICK no \in BOOLEAN : no = FALSE /\ IsMessage(m, no, pushed, 0, no, zero)
    BY Zenon DEF IsReset
  <2>3. PICK a : a = k.reassembler_
    OBVIOUS
  <2>4. /\ Consistent(a, n) /\ AllAhead(a) /\ (a.seen_last <=> a.output_.closed)
        /\ StorageCapacity(a) = k.capacity /\ BytesPushed(a) = pushed /\ Intact(a.output_)
    BY <1>5, <2>3, Zenon DEF Receiving, Consistent, Closed, Pushed
  <2>5. PICK popped \in Nat, cap \in Nat :
          /\ popped = a.output_.popped /\ cap = k.capacity
          /\ popped <= pushed /\ pushed - popped <= cap /\ pushed <= n
    <3>1. a.output_.popped \in Nat /\ k.capacity \in Nat
      BY <1>5, <2>4, ConsistentFields, Zenon DEF Small
    <3> QED BY <2>4, <3>1, Zenon DEF Consistent, Intact, BytesPushed, StorageCapacity
  <2>6. Arrives(k, n, no, pushed, 0, no)
    <3>1. /\ pushed + 0 <= n /\ pushed + 0 <= popped + cap
          /\ 2 * (pushed - pushed) < RelSeqMax /\ 0 \in Nat
      BY <1>6, <2>5, RelSeqMaxAssumption
    <3> QED BY <1>5, <1>6, <1>9, <2>2, <2>3, <2>5, <3>1, Zenon DEF Arrives
  <2>7. Proper(a, n, pushed, 0)
    <3>1. pushed <= StorageCapacity(a) \/ Bits(a.storage_bitmap) = {}
      BY <2>4, AheadFirstLap, Zenon DEF FirstLap
    <3>2. ~(pushed < pushed) /\ pushed + 0 = pushed
      BY <1>6
    <3> QED BY <2>4, <2>5, <3>1, <3>2, Zenon DEF Proper
  <2>8. Proper(k.reassembler_, n, pushed, 0) /\ Small(n, k.capacity)
    BY <1>5, <2>3, <2>7, Zenon
  <2>9. IsMessage(m, no, pushed, 0, no, zero)
    BY <2>2, Zenon
  <2>10. /\ Receiving(t, n, zero) /\ t.capacity = k.capacity
        /\ Reassembles(k.reassembler_, t.reassembler_, n, Index(k, pushed, 0), 0, no)
    BY <1>5, <2>1, <2>6, <2>8, <2>9, TakenIs
  <2>11. t.reassembler_.seen_last \in BOOLEAN
    <3>1. Consistent(t.reassembler_, n)
      BY <2>10, Zenon DEF Receiving
    <3> QED BY <3>1, ConsistentFields
  <2>12. Index(k, pushed, 0) \in Nat
    <3>1. Count(Closed(k)) \in Nat
      BY DEF Count
    <3>2. pushed + Count(Closed(k)) \in Nat
      BY <1>6, <3>1
    <3> QED BY <1>5, <3>2, Zenon DEF Index
  <2>13. PICK s : s = t.reassembler_
    OBVIOUS
  <2>14. PICK at \in Nat : at = Index(k, pushed, 0)
    BY <2>12, Zenon
  <2>15. s.seen_last \in BOOLEAN /\ Reassembles(a, s, n, at, 0, no) /\ (no => a.seen_last)
    BY <2>2, <2>3, <2>10, <2>11, <2>13, <2>14, Zenon
  <2>16. s.output_ = a.output_ /\ s.seen_last = a.seen_last /\ Pending(s) = Pending(a)
    BY <2>4, <2>15, WritesNothing
  <2> QED BY <1>1, <1>2, <1>5, <2>3, <2>10, <2>13, <2>16, Zenon
<1> QED BY <1>8, <1>9

LEMMA ResetKeeps ==
  ASSUME Limits, IInv, Reset
  PROVE  /\ Receiving(receiver', streamLen, isn) /\ receiver'.capacity = receiver.capacity
         /\ receiver'.reassembler_.output_ = Spoil(receiver.reassembler_.output_)
         /\ receiver'.reassembler_.seen_last = receiver.reassembler_.seen_last
         /\ Pending(receiver'.reassembler_) = Pending(receiver.reassembler_)
         /\ isn' = isn /\ streamLen' = streamLen
<1>1. PICK r, n, zero, pushed : r = receiver /\ n = streamLen /\ zero = isn /\ pushed = Pushed(receiver)
  OBVIOUS
<1>2. PICK t, m : t = receiver' /\ m = Message(FALSE, Pushed(receiver), 0, FALSE, TRUE)
  OBVIOUS
<1>3. t = ReceiverReceive(r, m) /\ isn' = isn /\ streamLen' = streamLen
  BY <1>1, <1>2, Zenon DEF Reset
<1>4. Receiving(r, n, zero) /\ Small(n, r.capacity) /\ zero \in Seqnos /\ n \in Nat
  BY <1>1, Sizes, Zenon DEF IInv
<1>6. IsReset(m, pushed, zero)
  <2>1. /\ m.seqno = WrapSeq(IF FALSE THEN 0 ELSE pushed + 1, isn)
        /\ m.payload = Bytes(pushed, 0)
    BY <1>1, <1>2 DEF Message
  <2>2. m.SYN = FALSE /\ m.FIN = FALSE /\ m.RST = TRUE
    BY <1>2 DEF Message
  <2> QED BY <1>1, <2>1, <2>2, Zenon DEF IsReset, IsMessage
<1>7. /\ Receiving(t, n, zero) /\ t.capacity = r.capacity
      /\ t.reassembler_.output_ = Spoil(r.reassembler_.output_)
      /\ t.reassembler_.seen_last = r.reassembler_.seen_last
      /\ Pending(t.reassembler_) = Pending(r.reassembler_)
  <2>1. pushed = Pushed(r)
    BY <1>1, Zenon
  <2> QED BY <1>3, <1>4, <1>6, <2>1, ResetIs
<1> QED BY <1>1, <1>2, <1>3, <1>7, Zenon

\* The reader takes bytes, and nothing else of the stream changes.
LEMMA ReadIs ==
  ASSUME NEW r, NEW n, NEW zero, Receiving(r, n, zero),
         NEW p, p = r.reassembler_.output_, NEW k \in Nat, k <= Len(p.buf),
         NEW t, t = WithOutput(r, Take(p, k))
  PROVE  /\ Receiving(t, n, zero) /\ t.capacity = r.capacity
         /\ t.reassembler_.output_ = Take(p, k)
         /\ t.reassembler_.seen_last = r.reassembler_.seen_last
         /\ Pending(t.reassembler_) = Pending(r.reassembler_)
<1>1. Intact(p)
  BY Zenon DEF Receiving, Consistent
<1>2. PICK q : q = Take(p, k)
  OBVIOUS
<1>3. Intact(q) /\ q.pushed = p.pushed /\ q.cap = p.cap /\ q.closed = p.closed
  BY <1>1, <1>2, TakeIntact
<1>4. t = WithOutput(r, q)
  BY <1>2, Zenon
<1>5. /\ Receiving(t, n, zero) /\ t.capacity = r.capacity
      /\ t.reassembler_.output_ = q /\ t.reassembler_.seen_last = r.reassembler_.seen_last
      /\ Pending(t.reassembler_) = Pending(r.reassembler_)
  BY <1>3, <1>4, OutputChanged
<1> QED BY <1>2, <1>5, Zenon

LEMMA ReadKeeps ==
  ASSUME Limits, IInv, NEW k \in 1 .. Capacity, Read(k)
  PROVE  /\ Receiving(receiver', streamLen, isn) /\ receiver'.capacity = receiver.capacity
         /\ receiver'.reassembler_.output_ = Take(Output, k) /\ k <= Len(Output.buf)
         /\ receiver'.reassembler_.seen_last = receiver.reassembler_.seen_last
         /\ Pending(receiver'.reassembler_) = Pending(receiver.reassembler_)
         /\ isn' = isn /\ streamLen' = streamLen
<1>1. PICK r, n, zero, p, t :
        r = receiver /\ n = streamLen /\ zero = isn /\ p = Output /\ t = receiver'
  OBVIOUS
<1>2. k <= Len(p.buf) /\ isn' = isn /\ streamLen' = streamLen
  BY <1>1, Zenon DEF Read
<1>3. t = WithOutput(r, Take(p, k)) /\ p = r.reassembler_.output_
  BY <1>1 DEF Read, WithOutput, Output
<1>4. Receiving(r, n, zero)
  BY <1>1, Zenon DEF IInv
<1>5. k \in Nat
  BY MachineAssumption
<1>6. /\ Receiving(t, n, zero) /\ t.capacity = r.capacity
      /\ t.reassembler_.output_ = Take(p, k)
      /\ t.reassembler_.seen_last = r.reassembler_.seen_last
      /\ Pending(t.reassembler_) = Pending(r.reassembler_)
  BY <1>2, <1>3, <1>4, <1>5, ReadIs
<1> QED BY <1>1, <1>2, <1>6, Zenon

\* The message of a step of the machine, and what the receiver makes of it.
LEMMA ReceiveStep ==
  ASSUME Limits, IInv, NEW syn \in BOOLEAN, NEW first \in 0 .. streamLen, NEW len \in 0 .. MaxLen,
         NEW fin \in BOOLEAN, Receive(syn, first, len, fin)
  PROVE  /\ Receiving(receiver', streamLen, isn) /\ receiver'.capacity = receiver.capacity
         /\ isn' = isn /\ streamLen' = streamLen
         /\ first \in Nat /\ len \in Nat /\ first + len <= streamLen
         /\ fin => first + len = streamLen /\ first <= Pushed(receiver)
         /\ \/ receiver' = receiver
            \/ Reassembles(receiver.reassembler_, receiver'.reassembler_, streamLen,
                           Index(receiver, first, len), len, fin)
<1>1. first \in Nat /\ len \in Nat
  BY Sizes
<1>3. PICK t : t = receiver'
  OBVIOUS
<1>2. Delivers(syn, first, len, fin, t)
  BY <1>3, Zenon DEF Receive, Delivers
<1>4. isn' = isn /\ streamLen' = streamLen
  BY Zenon DEF Receive
<1>5. /\ Receiving(t, streamLen, isn) /\ t.capacity = receiver.capacity
      /\ syn \/ receiver.seen_syn =>
           /\ len # 0 /\ first = Pushed(receiver) => Pushed(t) > Pushed(receiver)
           /\ Reassembles(receiver.reassembler_, t.reassembler_, streamLen,
                          Index(receiver, first, len), len, fin)
      /\ ~(syn \/ receiver.seen_syn) => t = receiver
  BY <1>1, <1>2, ReceiveKeeps
<1>6. first + len <= streamLen /\ (fin => first + len = streamLen /\ first <= Pushed(receiver))
  BY <1>2, Zenon DEF Delivers, MaySend, Limits
<1> QED BY <1>1, <1>3, <1>4, <1>5, <1>6, Zenon

LEMMA NextIInv == Limits => (IInv /\ [Next]_vars => IInv')
<1> SUFFICES ASSUME Limits, IInv, [Next]_vars PROVE IInv'
  OBVIOUS
<1>1. ASSUME NEW syn \in BOOLEAN, NEW first \in 0 .. streamLen, NEW len \in 0 .. MaxLen,
             NEW fin \in BOOLEAN, Receive(syn, first, len, fin)
      PROVE  IInv'
  <2>1. /\ Receiving(receiver', streamLen, isn) /\ receiver'.capacity = receiver.capacity
        /\ isn' = isn /\ streamLen' = streamLen
    BY <1>1, ReceiveStep, Zenon
  <2> QED BY <2>1, Zenon DEF IInv
<1>2. CASE Reset
  BY <1>2, ResetKeeps, Zenon DEF IInv
<1>3. ASSUME NEW k \in 1 .. Capacity, Read(k) PROVE IInv'
  BY <1>3, ReadKeeps, Zenon DEF IInv
<1>4. CASE UNCHANGED vars
  BY <1>4, Zenon DEF vars, IInv
<1> QED BY <1>1, <1>2, <1>3, <1>4, Zenon DEF Next

LEMMA IInvTyped == IInv => TypeOK
<1> SUFFICES ASSUME IInv PROVE TypeOK
  OBVIOUS
<1>1. receiver \in Receivers /\ receiver.capacity = Capacity
  BY Zenon DEF IInv, Receiving
<1>2. /\ receiver.isn_ \in Seqnos /\ receiver.cur_seq \in Seqnos
      /\ receiver.seen_syn \in BOOLEAN /\ receiver.syn_accounted \in BOOLEAN
      /\ receiver.seen_fin \in BOOLEAN /\ receiver.fin_accounted \in BOOLEAN
  BY <1>1 DEF Receivers
<1> QED BY <1>1, <1>2, Zenon DEF TypeOK

LEMMA IInvAckno == Limits /\ IInv => AcknoExact
<1> SUFFICES ASSUME Limits, IInv PROVE AcknoExact
  OBVIOUS
<1>1. PICK p, r, zero : p = Output /\ r = receiver /\ zero = isn
  OBVIOUS
<1>2. PICK ack : ack = ReceiverSend(receiver).ackno
  OBVIOUS
<1>3. ack = IF r.seen_syn THEN r.cur_seq ELSE NoAckno
  BY <1>1, <1>2 DEF ReceiverSend
<1>4. Receiving(r, streamLen, zero)
  BY <1>1, Zenon DEF IInv
<1>5. PICK pushed \in Nat : pushed = Pushed(r) /\ pushed = p.pushed
  <2>1. Consistent(r.reassembler_, streamLen) /\ streamLen \in Nat
    BY <1>4, Sizes, Zenon DEF Receiving
  <2> QED BY <1>1, <2>1, ConsistentFields, Zenon DEF Pushed, BytesPushed, Output
<1>6. Closed(r) = p.closed
  BY <1>1, Zenon DEF Closed, Output
<1>7. PICK c \in Nat : c = Count(p.closed)
  BY DEF Count
<1>8. pushed + 1 + c = 1 + pushed + c
  OBVIOUS
<1>9. r.seen_syn => r.cur_seq = WrapSeq(1 + pushed + c, zero)
  BY <1>4, <1>5, <1>6, <1>7, <1>8, Zenon DEF Receiving
<1>10. ack = IF r.seen_syn THEN WrapSeq(1 + p.pushed + c, zero) ELSE NoAckno
  BY <1>3, <1>5, <1>9, Zenon
<1> QED BY <1>1, <1>2, <1>7, <1>10, Zenon DEF AcknoExact, Count

LEMMA IInvAdvances == Limits /\ IInv => Advances
<1> SUFFICES ASSUME Limits, IInv, NEW len \in 1 .. MaxLen, NEW fin \in BOOLEAN, receiver.seen_syn,
                    MaySend(FALSE, Pushed(receiver), len, fin)
             PROVE  Pushed(ReceiverReceive(receiver, Message(FALSE, Pushed(receiver), len, fin, FALSE)))
                      > Pushed(receiver)
  BY Zenon DEF Advances
<1>1. PICK first \in Nat : first = Pushed(receiver)
  <2>1. Consistent(receiver.reassembler_, streamLen) /\ streamLen \in Nat
    BY Sizes, Zenon DEF IInv, Receiving
  <2> QED BY <2>1, ConsistentFields, Zenon DEF Pushed
<1>2. len \in Nat /\ len # 0
  BY Sizes
<1>3. PICK no \in BOOLEAN : no = FALSE
  OBVIOUS
<1>4. PICK t : t = ReceiverReceive(receiver, Message(no, first, len, fin, no))
  OBVIOUS
<1>5. Delivers(no, first, len, fin, t)
  BY <1>1, <1>3, <1>4, Zenon DEF Delivers
<1>6. no \/ receiver.seen_syn =>
        /\ len # 0 /\ first = Pushed(receiver) => Pushed(t) > Pushed(receiver)
        /\ Reassembles(receiver.reassembler_, t.reassembler_, streamLen,
                       Index(receiver, first, len), len, fin)
  BY <1>2, <1>3, <1>5, ReceiveKeeps, Zenon
<1>7. Pushed(t) > Pushed(receiver)
  BY <1>1, <1>2, <1>6, Zenon
<1> QED BY <1>1, <1>3, <1>4, <1>7, Zenon

\* The members of the receiver keep their types: isn_ and cur_seq stay raw numbers, however
\* often receive() recomputes them.
THEOREM ReceiverTyped ==
  ASSUME Limits
  PROVE  Spec => []TypeOK
<1>1. IInv => TypeOK
  BY IInvTyped
<1>2. IInv /\ [Next]_vars => IInv'
  BY NextIInv
<1>3. Init => IInv
  BY InitIInv
<1> QED BY <1>1, <1>2, <1>3, PTL DEF Spec

\* The acknowledgment number of send() is exactly the next number the receiver needs,
\* whatever the network lost, repeated or reordered.
THEOREM ReceiverSafe ==
  ASSUME Limits
  PROVE  Spec => []AcknoExact
<1>1. IInv => AcknoExact
  BY IInvAckno
<1>2. IInv /\ [Next]_vars => IInv'
  BY NextIInv
<1>3. Init => IInv
  BY InitIInv
<1> QED BY <1>1, <1>2, <1>3, PTL DEF Spec

\* receive() never sets aside the payload that begins at the first missing byte: if the sender
\* may send it, the stream grows, so a retransmission always gets the connection on.
THEOREM ReceiverAdvances ==
  ASSUME Limits
  PROVE  Spec => []Advances
<1>1. IInv => Advances
  BY IInvAdvances
<1>2. IInv /\ [Next]_vars => IInv'
  BY NextIInv
<1>3. Init => IInv
  BY InitIInv
<1> QED BY <1>1, <1>2, <1>3, PTL DEF Spec
-----------------------------------------------------------------------------
\* The operators of the promise are those of the pipe, and the bytes that wait are the
\* ones the bitmap marks.
LEMMA IdealOperators ==
  /\ \A c : Ideal!NewPipe(c) = NewPipe(c)
  /\ \A p, d : Ideal!Put(p, d) = Put(p, d)
  /\ \A p, n : Ideal!Take(p, n) = Take(p, n)
  /\ \A p : Ideal!Shut(p) = Shut(p)
  /\ \A p : Ideal!Spoil(p) = Spoil(p)
  /\ \A s : Ideal!Cardinality(s) = Cardinality(s)
BY Zenon DEF Ideal!Cardinality, Cardinality, Ideal!NewPipe, NewPipe, Ideal!Put, Put, Ideal!Take, Take,
             Ideal!Shut, Shut, Ideal!Spoil, Spoil, Ideal!Room, Room, Ideal!Substr, Substr, Ideal!Least, Least

IdealPending == LET r == receiver.reassembler_
                IN  {r.storage[i] : i \in {j \in 1 .. Len(r.storage_bitmap) : r.storage_bitmap[j]}}

LEMMA PendingIsIdeal == IdealPending = Pending(receiver.reassembler_)
BY Zenon DEF IdealPending, Pending, Bits

\* A payload that writes the run of known bytes keeps the promise.
LEMMA WritesIsInsert ==
  ASSUME NEW first \in Nat, NEW len \in Nat, NEW last \in BOOLEAN,
         Writes(receiver.reassembler_, receiver'.reassembler_, streamLen, first, len, last),
         streamLen' = streamLen
  PROVE  Ideal!Insert(first, first + len, last)
<1>1. PICK r, s : r = receiver.reassembler_ /\ s = receiver'.reassembler_
  OBVIOUS
<1>2. PICK known, run, q :
        /\ known = Known(r, first, len)
        /\ run = FrontRun(r, first, len)
        /\ q = Put(r.output_, Bytes(BytesPushed(r), Cardinality(run)))
  OBVIOUS
<1>3. /\ s.seen_last = (r.seen_last \/ last)
      /\ s.output_ = IF s.seen_last /\ q.pushed = streamLen THEN Shut(q) ELSE q
      /\ Pending(s) = known \ run
  BY <1>1, <1>2, Zenon DEF Writes
<1>4. IdealPending' = Pending(s) /\ IdealPending = Pending(r)
  BY <1>1, PendingIsIdeal, Zenon DEF IdealPending, Pending, Bits
<1>5. Output = r.output_ /\ Output' = s.output_
  BY <1>1, Zenon DEF Output
<1> DEFINE Held == IdealPending \cup ((first .. (first + len) - 1) \cap Ideal!Window)
           Fresh == [i \in 1 .. Ideal!Cardinality(Ideal!Run(Held)) |-> Output.pushed + i - 1]
<1>6. known = Held
  <2>1. first + len - 1 = (first + len) - 1
    OBVIOUS
  <2> QED BY <1>2, <1>4, <1>5, <2>1, Zenon DEF Known, Fits, Ideal!Window, BytesPushed, StorageCapacity
<1>7. run = Ideal!Run(Held)
  BY <1>2, <1>5, <1>6, Zenon DEF FrontRun, Ideal!Run, BytesPushed
<1>8. q = Ideal!Put(Output, Fresh)
  BY <1>2, <1>5, <1>7, IdealOperators, Zenon DEF Bytes, BytesPushed
<1>9. s.output_ = Ideal!CloseWhenAll(q, s.seen_last)
  BY <1>3, IdealOperators, Zenon DEF Ideal!CloseWhenAll
<1>10. Output' = Ideal!CloseWhenAll(Ideal!Put(Output, Fresh), receiver'.reassembler_.seen_last)
  BY <1>1, <1>5, <1>8, <1>9, Zenon
<1>11. IdealPending' = Held \ Ideal!Run(Held)
  BY <1>3, <1>4, <1>6, <1>7, Zenon
<1>12. receiver'.reassembler_.seen_last = (receiver.reassembler_.seen_last \/ last)
  BY <1>1, <1>3, Zenon
<1> QED BY <1>10, <1>11, <1>12, Zenon DEF Ideal!Insert, IdealPending

IdealVars == <<streamLen, Output, IdealPending, receiver.reassembler_.seen_last>>

\* A step that gives the Reassembler a payload is one the promise allows, or changes
\* nothing of it.
LEMMA ReceiveIsInsert ==
  ASSUME Limits, IInv, NEW syn \in BOOLEAN, NEW first \in 0 .. streamLen, NEW len \in 0 .. MaxLen,
         NEW fin \in BOOLEAN, Receive(syn, first, len, fin)
  PROVE  Ideal!Next \/ UNCHANGED IdealVars
<1>1. PICK r, s, at :
        r = receiver.reassembler_ /\ s = receiver'.reassembler_ /\ at = Index(receiver, first, len)
  OBVIOUS
<1>2. /\ Receiving(receiver', streamLen, isn) /\ streamLen' = streamLen
      /\ first \in Nat /\ len \in Nat /\ first + len <= streamLen
      /\ (fin => first + len = streamLen) /\ (fin => first <= Pushed(receiver))
      /\ receiver' = receiver \/ Reassembles(r, s, streamLen, at, len, fin)
  BY <1>1, ReceiveStep, Zenon
<1>3. ASSUME receiver' = receiver PROVE UNCHANGED IdealVars
  BY <1>2, <1>3, Zenon DEF IdealVars, IdealPending, Output
<1>4. ASSUME s.output_ = r.output_ /\ s.seen_last = r.seen_last /\ Pending(s) = Pending(r)
      PROVE  UNCHANGED IdealVars
  <2>1. IdealPending' = Pending(s) /\ IdealPending = Pending(r)
    BY <1>1, PendingIsIdeal, Zenon DEF IdealPending, Pending, Bits
  <2> QED BY <1>1, <1>2, <1>4, <2>1, Zenon DEF IdealVars, Output
<1>5. CASE len # 0 /\ Writes(r, s, streamLen, at, len, fin)
  <2>1. at = first
    BY <1>1, <1>5, Zenon DEF Index
  <2>2. Ideal!Insert(first, first + len, fin)
    BY <1>1, <1>2, <1>5, <2>1, WritesIsInsert, Zenon
  <2>3. PICK end : end = first + len
    OBVIOUS
  <2>4. end \in first .. streamLen /\ (fin => end = streamLen)
    BY <1>2, <2>3
  <2> QED BY <2>2, <2>3, <2>4, Zenon DEF Ideal!Next
<1>6. CASE len = 0 /\ Writes(r, s, streamLen, at, len, fin)
  <2>1. PICK pushed \in Nat, n \in Nat : pushed = Pushed(receiver) /\ n = streamLen /\ pushed <= n
    <3>1. Consistent(receiver.reassembler_, streamLen) /\ streamLen \in Nat
      BY Sizes, Zenon DEF IInv, Receiving
    <3> QED BY <3>1, ConsistentFields, Zenon DEF Pushed, Consistent
  <2>2. /\ Consistent(r, streamLen) /\ AllAhead(r) /\ (r.seen_last <=> r.output_.closed)
        /\ (r.seen_last <=> Closed(receiver))
    BY <1>1, Zenon DEF IInv, Receiving, Closed
  <2>3. CASE Closed(receiver)
    <3>1. at = pushed + 1
      <4>1. at = pushed + Count(Closed(receiver)) /\ Count(Closed(receiver)) = 1
        BY <1>1, <1>6, <2>1, <2>3, Zenon DEF Index, Count
      <4> QED BY <4>1, Zenon
    <3>2. at \in Nat
      BY <3>1
    <3>3. s.seen_last \in BOOLEAN
      <4>1. Consistent(s, streamLen) /\ streamLen \in Nat
        BY <1>1, <1>2, Sizes, Zenon DEF Receiving
      <4> QED BY <4>1, ConsistentFields
    <3>4. Consistent(r, n) /\ Reassembles(r, s, n, at, 0, fin) /\ (fin => r.seen_last)
      BY <1>6, <2>1, <2>2, <2>3, Zenon DEF Reassembles
    <3>5. s.output_ = r.output_ /\ s.seen_last = r.seen_last /\ Pending(s) = Pending(r)
      BY <2>2, <3>2, <3>3, <3>4, WritesNothing
    <3> QED BY <1>4, <3>5
  <2>4. CASE ~Closed(receiver)
    <3>1. at = pushed
      <4>1. at = pushed + Count(Closed(receiver)) /\ Count(Closed(receiver)) = 0
        BY <1>1, <1>6, <2>1, <2>4, Zenon DEF Index, Count
      <4>2. at = pushed + 0
        BY <4>1, Zenon
      <4> QED BY <4>2
    <3>2. Ideal!Insert(pushed, pushed + 0, fin)
      <4>1. 0 \in Nat
        OBVIOUS
      <4> QED BY <1>1, <1>2, <1>6, <3>1, <4>1, WritesIsInsert, Zenon
    <3>3. PICK end : end = pushed + 0
      OBVIOUS
    <3>4. end \in pushed .. n /\ pushed \in 0 .. n /\ (fin => end = n)
      <4>1. fin => first + 0 = n /\ first <= pushed
        BY <1>2, <1>6, <2>1, Zenon
      <4>2. first \in Nat
        BY <1>2, Zenon
      <4> QED BY <2>1, <3>3, <4>1, <4>2
    <3> QED BY <2>1, <3>2, <3>3, <3>4, Zenon DEF Ideal!Next
  <2> QED BY <2>3, <2>4
<1> QED BY <1>2, <1>3, <1>4, <1>5, <1>6, Zenon DEF Reassembles

LEMMA NextIsIdealNext == Limits => (IInv /\ [Next]_vars => Ideal!Next \/ UNCHANGED IdealVars)
<1> SUFFICES ASSUME Limits, IInv, [Next]_vars PROVE Ideal!Next \/ UNCHANGED IdealVars
  OBVIOUS
<1>1. ASSUME NEW syn \in BOOLEAN, NEW first \in 0 .. streamLen, NEW len \in 0 .. MaxLen,
             NEW fin \in BOOLEAN, Receive(syn, first, len, fin)
      PROVE  Ideal!Next \/ UNCHANGED IdealVars
  BY <1>1, ReceiveIsInsert, Zenon
<1>2. CASE Reset
  <2>1. /\ receiver'.reassembler_.output_ = Spoil(receiver.reassembler_.output_)
        /\ receiver'.reassembler_.seen_last = receiver.reassembler_.seen_last
        /\ Pending(receiver'.reassembler_) = Pending(receiver.reassembler_)
        /\ streamLen' = streamLen
    BY <1>2, ResetKeeps, Zenon
  <2>2. IdealPending' = IdealPending
    BY <2>1, PendingIsIdeal, Zenon DEF IdealPending, Pending, Bits
  <2>3. Ideal!Fail
    BY <2>1, <2>2, IdealOperators, Zenon DEF Ideal!Fail, IdealPending, Output
  <2> QED BY <2>3, Zenon DEF Ideal!Next
<1>3. ASSUME NEW k \in 1 .. Capacity, Read(k) PROVE Ideal!Next
  <2>1. /\ receiver'.reassembler_.output_ = Take(Output, k) /\ k <= Len(Output.buf)
        /\ receiver'.reassembler_.seen_last = receiver.reassembler_.seen_last
        /\ Pending(receiver'.reassembler_) = Pending(receiver.reassembler_)
        /\ streamLen' = streamLen
    BY <1>3, ReadKeeps, Zenon
  <2>2. IdealPending' = IdealPending
    BY <2>1, PendingIsIdeal, Zenon DEF IdealPending, Pending, Bits
  <2>3. k \in 1 .. Len(Output.buf)
    <3>1. Output \in Pipes
      BY Zenon DEF IInv, Receiving, Consistent, Intact, Output
    <3>2. Len(Output.buf) \in Nat
      BY <3>1 DEF Pipes
    <3> QED BY <2>1, <3>2
  <2>4. Ideal!Pop(k)
    BY <2>1, <2>2, IdealOperators, Zenon DEF Ideal!Pop, IdealPending, Output
  <2> QED BY <2>3, <2>4, Zenon DEF Ideal!Next
<1>4. CASE UNCHANGED vars
  BY <1>4, Zenon DEF vars, IdealVars, IdealPending, Output
<1> QED BY <1>1, <1>2, <1>3, <1>4, Zenon DEF Next

\* Sequence numbers, flags and unwrapping are invisible: whatever the isn, and as often as
\* the numbers wrap within the limits, the receiver keeps what its Reassembler promises.
THEOREM ReceiverIsIdeal ==
  ASSUME Limits
  PROVE  Spec => ImplementsIdeal
<1>1. Init => Ideal!Init
  <2> SUFFICES ASSUME Init
               PROVE  /\ streamLen \in StreamLens /\ Output = Ideal!NewPipe(Capacity)
                      /\ IdealPending = {} /\ receiver.reassembler_.seen_last = FALSE
    BY Zenon DEF Ideal!Init, IdealPending
  <2>1. /\ streamLen \in StreamLens /\ streamLen \in Nat /\ receiver = NewReceiver(Capacity)
        /\ Capacity \in Nat /\ Capacity > 0
    BY MachineAssumption DEF Init
  <2>2. receiver.reassembler_ = NewReassembler(Capacity)
    BY <2>1 DEF NewReceiver
  <2>3. PICK a : a = NewReassembler(Capacity)
    OBVIOUS
  <2>4. Pending(a) = {} /\ a.output_ = NewPipe(Capacity)
    BY <2>1, <2>3, NewIs
  <2>5. a.seen_last = FALSE
    BY <2>3 DEF NewReassembler
  <2> QED BY <2>1, <2>2, <2>3, <2>4, <2>5, PendingIsIdeal, IdealOperators, Zenon DEF Output
<1>2. IInv /\ [Next]_vars => [Ideal!Next]_IdealVars
  BY NextIsIdealNext, Zenon
<1>3. IInv /\ [Next]_vars => IInv'
  BY NextIInv
<1>4. Init => IInv
  BY InitIInv
<1> QED BY <1>1, <1>2, <1>3, <1>4, PTL DEF Spec, ImplementsIdeal, Ideal!Spec, IdealPending, IdealVars
-----------------------------------------------------------------------------
\* The flag that the SYN was seen, in a record that has the members of a receiver.
SynSeen(r) == /\ DOMAIN r = {"reassembler_", "isn_", "cur_seq", "capacity", "seen_syn",
                             "syn_accounted", "seen_fin", "fin_accounted"}
              /\ r.seen_syn = TRUE

\* No message takes it back.
LEMMA SynStays ==
  ASSUME NEW r, SynSeen(r), NEW m, NEW t, t = ReceiverReceive(r, m)
  PROVE  SynSeen(t)
<1>1. \A x, v : SynSeen(x) => SynSeen([x EXCEPT !.reassembler_ = v])
  BY DEF SynSeen
<1>2. PICK k : k = IF m.RST THEN [r EXCEPT !.reassembler_.output_ = Spoil(@)] ELSE r
  OBVIOUS
<1>3. SynSeen(k)
  BY <1>2 DEF SynSeen
<1>4. PICK f : f = TakeFlags(k, m)
  OBVIOUS
<1>5. SynSeen(f)
  BY <1>3, <1>4 DEF SynSeen, TakeFlags
<1>6. PICK i : i = InsertPayload(f, m)
  OBVIOUS
<1>7. SynSeen(i)
  BY <1>5, <1>6 DEF SynSeen, InsertPayload
<1>8. SynSeen(Advance(i, Pushed(r)))
  BY <1>7 DEF SynSeen, Advance
<1>9. t \in {k, i, Advance(i, Pushed(r))}
  BY <1>2, <1>4, <1>6, Zenon DEF ReceiverReceive
<1> QED BY <1>3, <1>7, <1>8, <1>9, Zenon

\* The right edge of the window a receiver announces, and what its owner has freed.
Edge(r)    == Plus(ReceiverSend(r).ackno, ReceiverSend(r).window_size)
FreedOf(r) == r.reassembler_.output_.popped + Count(Closed(r))

\* Where the window does not wrap round, the edge depends on what was freed alone: the bytes
\* that were written and those that are buffered cancel out.
LEMMA EdgeIs ==
  ASSUME NEW r, NEW n \in Nat, NEW zero \in Seqnos, Receiving(r, n, zero), r.capacity = Capacity,
         r.seen_syn, Len(r.reassembler_.output_.buf) <= MaxWindow
  PROVE  /\ FreedOf(r) \in Nat
         /\ Edge(r) = WrapSeq(Least(Capacity, MaxWindow) + 1 + FreedOf(r), zero)
<1>1. PICK p : p = r.reassembler_.output_
  OBVIOUS
<1>2. Intact(p) /\ p.cap = Capacity /\ Pushed(r) = p.pushed
  BY <1>1, Zenon DEF Receiving, Consistent, StorageCapacity, Pushed, BytesPushed
<1>3. PICK pushed \in Nat, popped \in Nat, len \in Nat :
        /\ pushed = p.pushed /\ popped = p.popped /\ len = Len(p.buf)
        /\ len = pushed - popped /\ len <= Capacity
  <2>1. p.pushed \in Nat /\ p.popped \in Nat /\ Len(p.buf) \in Nat /\ 0 \in Nat /\ 0 <= Len(p.buf)
    BY <1>2 DEF Intact, Pipes
  <2>2. Len(p.buf) = p.pushed - p.popped
    BY <1>2, <2>1, TakeIntact
  <2>3. p.pushed - p.popped <= Capacity
    BY <1>2, Zenon DEF Intact
  <2> QED BY <2>1, <2>2, <2>3
<1>4. PICK c \in Nat : c = Count(Closed(r))
  BY DEF Count
<1>5. PICK most \in Nat, m \in Nat :
        /\ most = Least(Capacity, MaxWindow) /\ m = MaxWindow + 1 /\ most < m /\ len <= most
  <2>1. Capacity \in Nat /\ MaxWindow \in Nat /\ len <= MaxWindow
    BY <1>1, <1>3, MachineAssumption, MaxWindowAssumption
  <2>2. Least(Capacity, MaxWindow) \in Nat /\ Least(Capacity, MaxWindow) < MaxWindow + 1
    BY <2>1 DEF Least
  <2>3. len <= Least(Capacity, MaxWindow)
    BY <1>3, <2>1 DEF Least
  <2> QED BY <2>1, <2>2, <2>3
<1>6. PICK d \in Nat : d = most - len /\ d < m
  BY <1>3, <1>5
<1>7. d % m = d
  BY <1>6
<1>8. ReceiverSend(r).ackno = r.cur_seq /\ ReceiverSend(r).window_size = WindowSize(r)
  BY DEF ReceiverSend
<1>9. WindowSize(r) = d
  BY <1>1, <1>3, <1>5, <1>6, <1>7, Zenon DEF WindowSize
<1>10. PICK next \in Nat : next = pushed + 1 + c
  BY <1>3, <1>4
<1>11. r.cur_seq = WrapSeq(next, zero)
  BY <1>2, <1>3, <1>4, <1>10, Zenon DEF Receiving
<1>12. Plus(WrapSeq(next, zero), d) = WrapSeq(next + d, zero)
  BY PlusWrapped
<1>13. PICK freed \in Nat : freed = popped + c /\ next + d = most + 1 + freed
  <2>1. pushed = popped + len /\ most = len + d
    <3>1. len = pushed - popped /\ d = most - len /\ most \in Nat
      BY <1>3, <1>5, <1>6, Zenon
    <3> QED BY <3>1
  <2>2. next + d = ((popped + len) + 1 + c) + d
    BY <1>10, <2>1, Zenon
  <2>3. ((popped + len) + 1 + c) + d = (len + d) + 1 + (popped + c) /\ popped + c \in Nat
    OBVIOUS
  <2> QED BY <2>1, <2>2, <2>3, Zenon
<1>14. FreedOf(r) = freed
  BY <1>1, <1>3, <1>4, <1>13, Zenon DEF FreedOf
<1> QED BY <1>5, <1>8, <1>9, <1>11, <1>12, <1>13, <1>14, Zenon DEF Edge

\* Whatever arrives, the reader's progress and the close of the stream stay.
LEMMA OutputMovesOn ==
  ASSUME Ideal!Next \/ UNCHANGED IdealVars, Output \in Pipes
  PROVE  Output'.popped >= Output.popped /\ (Output.closed => Output'.closed)
<1>1. PICK p, q : p = Output /\ q = Output'
  OBVIOUS
<1>2. /\ p \in Pipes /\ p.popped \in Nat
  BY <1>1 DEF Pipes
<1>3. \A x : x \in Pipes => \A d : /\ Put(x, d).popped = x.popped
                                 /\ Put(x, d).closed = x.closed
                                 /\ DOMAIN Put(x, d) = DOMAIN x
  BY DEF Pipes, Put
<1>4. ASSUME NEW d, NEW last, q = Ideal!CloseWhenAll(Put(p, d), last)
      PROVE  q.popped = p.popped /\ (p.closed => q.closed)
  <2>1. PICK x : x = Put(p, d)
    OBVIOUS
  <2>2. q = Shut(x) \/ q = x
    BY <1>4, <2>1, IdealOperators, Zenon DEF Ideal!CloseWhenAll
  <2>3. x.popped = p.popped /\ x.closed = p.closed /\ DOMAIN x = DOMAIN p
    BY <1>2, <1>3, <2>1, Zenon
  <2>4. DOMAIN p = {"cap", "buf", "pushed", "popped", "closed", "error"}
    BY <1>2 DEF Pipes
  <2>5. DOMAIN x = {"cap", "buf", "pushed", "popped", "closed", "error"}
    BY <2>3, <2>4, Zenon
  <2>6. Shut(x).popped = x.popped /\ Shut(x).closed
    BY <2>5 DEF Shut
  <2> QED BY <2>2, <2>3, <2>6, Zenon
<1>5. ASSUME NEW first, NEW end, NEW last, Ideal!Insert(first, end, last)
      PROVE  q.popped = p.popped /\ (p.closed => q.closed)
  <2>1. PICK d, all : q = Ideal!CloseWhenAll(Put(p, d), all)
    BY <1>1, <1>5, IdealOperators, Zenon DEF Ideal!Insert
  <2> QED BY <1>4, <2>1, Zenon
<1>6. ASSUME NEW k \in 1 .. Len(Output.buf), Ideal!Pop(k)
      PROVE  q.popped >= p.popped /\ (p.closed => q.closed)
  <2>1. k \in Nat
    BY <1>1, <1>2 DEF Pipes
  <2>2. q = Take(p, k)
    BY <1>1, <1>6, IdealOperators, Zenon DEF Ideal!Pop
  <2>3. q.popped = p.popped + k /\ q.closed = p.closed
    BY <1>2, <2>2 DEF Pipes, Take
  <2>4. p.popped + k >= p.popped
    BY <1>2, <2>1
  <2> QED BY <2>3, <2>4, Zenon
<1>7. ASSUME Ideal!Fail PROVE q.popped = p.popped /\ (p.closed => q.closed)
  <2>1. q = Spoil(p)
    BY <1>1, <1>7, IdealOperators, Zenon DEF Ideal!Fail
  <2> QED BY <1>2, <2>1 DEF Pipes, Spoil
<1>8. UNCHANGED IdealVars => q = p
  BY <1>1, Zenon DEF IdealVars
<1>9. p.popped >= p.popped
  BY <1>2
<1>10. q.popped >= p.popped /\ (p.closed => q.closed)
  <2>1. CASE q.popped = p.popped /\ (p.closed => q.closed)
    BY <1>9, <2>1, Zenon
  <2>2. CASE \E first, end, last : Ideal!Insert(first, end, last)
    BY <1>5, <2>1, <2>2, Zenon
  <2>3. CASE q = p
    BY <2>1, <2>3, Zenon
  <2>4. CASE Ideal!Next
    BY <1>6, <1>7, <2>1, <2>2, <2>4, Zenon DEF Ideal!Next
  <2> QED BY <1>8, <2>3, <2>4, Zenon
<1> QED BY <1>1, <1>10, Zenon

\* The SYN stays seen in every step of the machine.
LEMMA SynKept ==
  ASSUME Limits, IInv, [Next]_vars, receiver.seen_syn
  PROVE  receiver'.seen_syn
<1>1. SynSeen(receiver)
  <2>1. receiver \in Receivers
    BY Zenon DEF IInv, Receiving
  <2> QED BY <2>1 DEF Receivers, SynSeen
<1>2. ASSUME NEW m, receiver' = ReceiverReceive(receiver, m) PROVE receiver'.seen_syn
  <2>1. PICK r, t : r = receiver /\ t = receiver'
    OBVIOUS
  <2>2. SynSeen(t)
    BY <1>1, <1>2, <2>1, SynStays
  <2> QED BY <2>1, <2>2, Zenon DEF SynSeen
<1>3. ASSUME NEW k, Read(k) PROVE receiver'.seen_syn
  BY <1>1, <1>3 DEF Read, SynSeen
<1>4. CASE UNCHANGED vars
  BY <1>4, Zenon DEF vars
<1> QED BY <1>2, <1>3, <1>4, Zenon DEF Next, Receive, Reset

LEMMA NextEdge ==
  Limits => (IInv /\ [Next]_vars
               => (receiver.seen_syn /\ FitsWindow /\ FitsWindow'
                     => Freed' >= Freed /\ RightEdge' = Plus(RightEdge, Freed' - Freed)))
<1> SUFFICES ASSUME Limits, IInv, [Next]_vars, receiver.seen_syn, FitsWindow, FitsWindow'
             PROVE  Freed' >= Freed /\ RightEdge' = Plus(RightEdge, Freed' - Freed)
  OBVIOUS
<1>1. PICK r, t, n, zero : r = receiver /\ t = receiver' /\ n = streamLen /\ zero = isn
  OBVIOUS
<1>2. IInv' /\ isn' = isn /\ streamLen' = streamLen
  <2>1. IInv'
    BY NextIInv
  <2>2. isn' = isn /\ streamLen' = streamLen
    BY Zenon DEF Next, Receive, Reset, Read, vars
  <2> QED BY <2>1, <2>2, Zenon
<1>3. /\ n \in Nat /\ zero \in Seqnos /\ Receiving(r, n, zero) /\ r.capacity = Capacity
      /\ Receiving(t, n, zero) /\ t.capacity = Capacity
  BY <1>1, <1>2, Sizes, Zenon DEF IInv
<1>4. /\ r.seen_syn /\ t.seen_syn
      /\ Len(r.reassembler_.output_.buf) <= MaxWindow
      /\ Len(t.reassembler_.output_.buf) <= MaxWindow
  BY <1>1, SynKept, Zenon DEF FitsWindow, Output
<1>5. /\ FreedOf(r) \in Nat
      /\ Edge(r) = WrapSeq(Least(Capacity, MaxWindow) + 1 + FreedOf(r), zero)
  BY <1>3, <1>4, EdgeIs
<1>6. /\ FreedOf(t) \in Nat
      /\ Edge(t) = WrapSeq(Least(Capacity, MaxWindow) + 1 + FreedOf(t), zero)
  BY <1>3, <1>4, EdgeIs
<1>7. RightEdge = Edge(r) /\ RightEdge' = Edge(t) /\ Freed = FreedOf(r) /\ Freed' = FreedOf(t)
  BY <1>1, Zenon DEF RightEdge, Edge, Freed, FreedOf, Count, Closed, Output
<1>8. PICK a \in Nat, b \in Nat : a = FreedOf(r) /\ b = FreedOf(t) /\ a <= b
  <2>1. PICK x \in Nat, y \in Nat, c \in BOOLEAN, e \in BOOLEAN :
          /\ x = Output.popped /\ y = Output'.popped /\ c = Output.closed /\ e = Output'.closed
          /\ x <= y /\ (c => e)
    <3>1. Output \in Pipes /\ Output' \in Pipes
      BY <1>1, <1>3, Zenon DEF Receiving, Consistent, Intact, Output
    <3>2. Ideal!Next \/ UNCHANGED IdealVars
      BY NextIsIdealNext, Zenon
    <3>3. Output'.popped >= Output.popped /\ (Output.closed => Output'.closed)
      BY <3>1, <3>2, OutputMovesOn, Zenon
    <3>4. /\ Output.popped \in Nat /\ Output.closed \in BOOLEAN
          /\ Output'.popped \in Nat /\ Output'.closed \in BOOLEAN
      BY <3>1 DEF Pipes
    <3> QED BY <3>3, <3>4
  <2>2. FreedOf(r) = x + Count(c) /\ FreedOf(t) = y + Count(e)
    BY <1>1, <2>1, Zenon DEF FreedOf, Closed, Output
  <2>3. x + Count(c) <= y + Count(e)
    BY <2>1 DEF Count
  <2> QED BY <1>5, <1>6, <2>2, <2>3, Zenon
<1>9. PICK most \in Nat : most = Least(Capacity, MaxWindow) + 1
  BY MachineAssumption, MaxWindowAssumption DEF Least
<1>10. PICK g \in Nat : g = b - a /\ (most + a) + g = most + b /\ most + a \in Nat /\ b >= a
  BY <1>8
<1>11. Plus(WrapSeq(most + a, zero), g) = WrapSeq(most + b, zero)
  <2>1. Plus(WrapSeq(most + a, zero), g) = WrapSeq((most + a) + g, zero)
    BY <1>3, <1>10, PlusWrapped
  <2> QED BY <1>10, <2>1, Zenon
<1> QED BY <1>5, <1>6, <1>7, <1>8, <1>9, <1>10, <1>11, Zenon

\* What the receiver announced is never taken back, for every capacity, one above the 16 bits
\* of the window included: the right edge moves on with the reader and with the FIN, and
\* nothing that is lost, repeated, set aside or thrown away moves it.
THEOREM ReceiverEdgeFollowsReader ==
  ASSUME Limits
  PROVE  Spec => EdgeFollowsReader
<1>1. IInv /\ [Next]_vars
        => (receiver.seen_syn /\ FitsWindow /\ FitsWindow'
              => Freed' >= Freed /\ RightEdge' = Plus(RightEdge, Freed' - Freed))
  BY NextEdge, Zenon
<1>2. IInv /\ [Next]_vars => IInv'
  BY NextIInv
<1>3. Init => IInv
  BY InitIInv
<1> QED BY <1>1, <1>2, <1>3, PTL DEF Spec, EdgeFollowsReader
=============================================================================

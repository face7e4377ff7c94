------------------------- MODULE ReassemblerProofs -------------------------
(***************************************************************************)
(* The Reassembler of ReassemblerMachine, for every capacity, every length *)
(* of the stream and every word size, as long as gaps are left in the      *)
(* first lap of its storage: in the second lap insert() cuts what it       *)
(* stores one byte short and looks at the wrong slots, so the hypothesis   *)
(* is needed.                                                              *)
(***************************************************************************)
EXTENDS ReassemblerMachine, TCPLemmas

\* The members agree with each other and with the stream.
IInv == /\ streamLen \in StreamLens
        /\ Consistent(reassembler, streamLen) /\ AllAhead(reassembler)
        /\ Ending(reassembler, streamLen)
        /\ StorageCapacity(reassembler) = Capacity
        /\ reassembler.total_len \in {0, streamLen}

LEMMA InitIInv == Init => IInv
<1> SUFFICES ASSUME Init PROVE IInv
  OBVIOUS
<1>1. streamLen \in Nat /\ streamLen \in StreamLens
  BY StreamAssumption DEF Init
<1>2. reassembler = NewReassembler(Capacity) /\ Capacity \in Nat /\ Capacity > 0
  BY CapacityAssumption, Zenon DEF Init
<1>3. /\ Consistent(reassembler, streamLen) /\ AllAhead(reassembler)
      /\ Ending(reassembler, streamLen)
      /\ StorageCapacity(reassembler) = Capacity /\ reassembler.total_len = 0
  BY <1>1, <1>2, NewIs
<1> QED BY <1>1, <1>3, Zenon DEF IInv

\* A substring the machine delivers is a proper one, in insert()'s terms.
LEMMA ReceiveIsProper ==
  ASSUME IInv, LastGap <= Capacity,
         NEW first \in 0 .. streamLen, NEW len \in 0 .. MaxLen, NEW last \in BOOLEAN,
         Receive(first, len, last)
  PROVE  /\ first \in Nat /\ len \in Nat /\ streamLen \in Nat
         /\ WordMod \in Nat /\ Capacity < WordMod /\ streamLen < WordMod
         /\ Proper(reassembler, streamLen, first, len)
         /\ last => first + len = streamLen
         /\ reassembler' = Insert(reassembler, first, Bytes(first, len), last)
         /\ streamLen' = streamLen
<1>1. /\ streamLen \in Nat /\ WordMod \in Nat /\ Capacity \in Nat /\ LastGap \in Nat /\ MaxLen \in Nat
      /\ WordMod > 2 * (streamLen + Capacity)
  BY CapacityAssumption, StreamAssumption, Zenon DEF IInv
<1>2. first \in Nat /\ len \in Nat /\ Capacity < WordMod /\ streamLen < WordMod
  <2>1. Capacity < WordMod /\ streamLen < WordMod
    <3>1. WordMod > 2 * (streamLen + Capacity) /\ Capacity > 0
      BY <1>1, CapacityAssumption
    <3> QED BY <1>1, <3>1
  <2> QED BY <1>1, <2>1
<1>3. /\ first + len <= streamLen
      /\ last => first + len = streamLen
      /\ \/ first + len <= LastGap
         \/ first <= reassembler.cur_index /\ BytesPending(reassembler) = 0
      /\ reassembler' = Insert(reassembler, first, Bytes(first, len), last)
      /\ streamLen' = streamLen
  BY Zenon DEF Receive
<1>4. PICK pushed \in Nat : pushed = BytesPushed(reassembler) /\ reassembler.cur_index = pushed
  BY <1>1, ConsistentFields, Zenon DEF IInv, Consistent
<1>5. CASE first + len <= LastGap
  <2>1. first + len <= Capacity
    BY <1>1, <1>2, <1>5
  <2>2. first + len <= StorageCapacity(reassembler)
    BY <2>1, Zenon DEF IInv
  <2> QED BY <1>1, <1>2, <1>3, <2>2, Zenon DEF Proper
<1>6. CASE first <= reassembler.cur_index /\ BytesPending(reassembler) = 0
  <2>1. Bits(reassembler.storage_bitmap) = {}
    BY <1>1, <1>6, NothingPending, Zenon DEF IInv
  <2>2. ~(pushed < first)
    <3>1. first <= pushed
      BY <1>4, <1>6, Zenon
    <3> QED BY <1>2, <3>1
  <2> QED BY <1>1, <1>2, <1>3, <1>4, <2>1, <2>2, Zenon DEF Proper
<1> QED BY <1>3, <1>5, <1>6, Zenon

LEMMA ReadKeeps ==
  ASSUME IInv, NEW n \in 1 .. Capacity, Read(n)
  PROVE  /\ IInv' /\ Pending(reassembler)' = Pending(reassembler)
         /\ reassembler'.output_ = Take(reassembler.output_, n)
         /\ reassembler'.seen_last = reassembler.seen_last /\ streamLen' = streamLen
         /\ n <= Len(reassembler.output_.buf)
<1>1. streamLen \in Nat
  BY StreamAssumption, Zenon DEF IInv
<1>2. n \in Nat
  BY CapacityAssumption
<1>3. PICK r, q : r = reassembler /\ q = Take(r.output_, n)
  OBVIOUS
<1>4. /\ reassembler' = [r EXCEPT !.output_ = q] /\ n <= Len(r.output_.buf) /\ streamLen' = streamLen
  BY <1>3, Zenon DEF Read
<1>5. /\ Intact(q) /\ q.pushed = r.output_.pushed
      /\ q.cap = r.output_.cap /\ q.closed = r.output_.closed
  <2>1. Intact(r.output_)
    BY <1>3, Zenon DEF IInv, Consistent
  <2> QED BY <1>2, <1>3, <1>4, <2>1, TakeIntact
<1>6. PICK s : s = reassembler'
  OBVIOUS
<1>7. /\ s.output_ = q /\ s.cur_index = r.cur_index /\ s.storage = r.storage
      /\ s.storage_bitmap = r.storage_bitmap /\ s.fault = r.fault
      /\ s.seen_last = r.seen_last /\ s.total_len = r.total_len /\ s \in Reassemblers
  <2>1. r \in Reassemblers
    BY <1>3, Zenon DEF IInv, Consistent
  <2>2. q \in Pipes
    BY <1>5, Zenon DEF Intact
  <2> QED BY <1>4, <1>6, <2>1, <2>2 DEF Reassemblers
<1>8. BytesPushed(s) = BytesPushed(r) /\ StorageCapacity(s) = StorageCapacity(r)
  BY <1>5, <1>7, Zenon DEF BytesPushed, StorageCapacity
<1>9. /\ Consistent(s, streamLen) /\ AllAhead(s) /\ Ending(s, streamLen)
      /\ StorageCapacity(s) = Capacity /\ s.total_len \in {0, streamLen}
  BY <1>3, <1>5, <1>7, <1>8, Zenon DEF IInv, Consistent, AllAhead, Ending
<1>10. IInv'
  BY <1>4, <1>6, <1>9, Zenon DEF IInv
<1> QED BY <1>3, <1>4, <1>6, <1>7, <1>10, SMTT(30) DEF Pending

LEMMA NextIInv == LastGap <= Capacity => (IInv /\ [Next]_vars => IInv')
<1> SUFFICES ASSUME LastGap <= Capacity, IInv, [Next]_vars PROVE IInv'
  OBVIOUS
<1>1. ASSUME NEW first \in 0 .. streamLen, NEW len \in 0 .. MaxLen, NEW last \in BOOLEAN,
             Receive(first, len, last)
      PROVE  IInv'
  <2>1. /\ first \in Nat /\ len \in Nat /\ streamLen \in Nat
        /\ WordMod \in Nat /\ Capacity < WordMod /\ streamLen < WordMod
        /\ Proper(reassembler, streamLen, first, len)
        /\ last => first + len = streamLen
        /\ reassembler' = Insert(reassembler, first, Bytes(first, len), last)
        /\ streamLen' = streamLen
    BY <1>1, ReceiveIsProper
  <2>2. PICK s : s = reassembler'
    OBVIOUS
  <2>3. /\ Consistent(s, streamLen) /\ AllAhead(s) /\ Ending(s, streamLen)
        /\ StorageCapacity(s) = StorageCapacity(reassembler)
        /\ s.total_len \in {reassembler.total_len, streamLen}
    <3>1. /\ Consistent(reassembler, streamLen) /\ AllAhead(reassembler)
          /\ Ending(reassembler, streamLen) /\ StorageCapacity(reassembler) < WordMod
      BY <2>1, Zenon DEF IInv
    <3> QED BY <2>1, <2>2, <3>1, InsertIs
  <2> QED BY <2>1, <2>2, <2>3, Zenon DEF IInv
<1>2. ASSUME NEW n \in 1 .. Capacity, Read(n)
      PROVE  IInv'
  BY <1>2, ReadKeeps, Zenon
<1>3. CASE UNCHANGED vars
  BY <1>3, Zenon DEF vars, IInv
<1> QED BY <1>1, <1>2, <1>3, Zenon DEF Next

LEMMA IInvSafe == IInv => TypeOK /\ NoFault /\ OutputIntact /\ PendingExact
<1> SUFFICES ASSUME IInv PROVE TypeOK /\ NoFault /\ OutputIntact /\ PendingExact
  OBVIOUS
<1>1. PICK r : r = reassembler
  OBVIOUS
<1>2. /\ streamLen \in StreamLens /\ Consistent(r, streamLen) /\ AllAhead(r)
      /\ r.total_len \in {0, streamLen}
  BY <1>1, Zenon DEF IInv
<1>3. streamLen \in Nat /\ WordMod \in Nat /\ Capacity \in Nat /\ WordMod > 2 * (streamLen + Capacity)
  BY <1>2, StreamAssumption, CapacityAssumption, Zenon
<1>4. TypeOK
  <2>1. /\ r.cur_index \in Nat /\ r.seen_last \in BOOLEAN /\ r.storage \in Seq(Int)
        /\ r.storage_bitmap \in Seq(BOOLEAN) /\ r.fault = "none"
        /\ Len(r.storage_bitmap) = Len(r.storage)
    BY <1>2, <1>3, ConsistentFields, Zenon DEF Consistent
  <2>2. r.storage_bitmap \in [1 .. Len(r.storage) -> BOOLEAN]
    BY <2>1
  <2>3. r.total_len \in 0 .. WordMod - 1
    <3>1. 0 \in 0 .. WordMod - 1 /\ streamLen \in 0 .. WordMod - 1
      BY <1>3
    <3> QED BY <1>2, <3>1, Zenon
  <2> QED BY <1>1, <2>1, <2>2, <2>3, Zenon DEF TypeOK
<1>5. NoFault
  BY <1>1, <1>2, Zenon DEF NoFault, Consistent
<1>6. OutputIntact
  <2>1. PICK p : p = r.output_ /\ Intact(p)
    BY <1>2, Zenon DEF Consistent
  <2>2. 0 \in Nat /\ 0 <= Len(p.buf)
    BY <2>1 DEF Intact, Pipes
  <2>3. Len(p.buf) = p.pushed - p.popped
    BY <2>1, <2>2, TakeIntact
  <2> QED BY <1>1, <2>1, <2>3, Zenon DEF OutputIntact, Intact
<1>7. PendingExact
  <2> SUFFICES ASSUME NEW i \in 1 .. Len(r.storage_bitmap), r.storage_bitmap[i]
               PROVE  r.storage[i] = i - 1 /\ i - 1 > BytesPushed(r)
    BY <1>1, Zenon DEF PendingExact
  <2>1. i \in Bits(r.storage_bitmap)
    BY Zenon DEF Bits
  <2>2. r.storage[i] = i - 1 /\ BytesPushed(r) < i - 1
    BY <1>2, <2>1, Zenon DEF Consistent, AllAhead
  <2>3. PICK pushed \in Nat, j \in Int : pushed = BytesPushed(r) /\ j = i - 1 /\ pushed < j
    BY <1>2, <1>3, <2>2, ConsistentFields
  <2>4. j > pushed
    BY <2>3
  <2> QED BY <2>2, <2>3, <2>4, Zenon
<1> QED BY <1>4, <1>5, <1>6, <1>7

\* The members of the Reassembler keep their types, and its bitmap the length of its storage,
\* whatever substrings insert() is given.
THEOREM ReassemblerTyped ==
  ASSUME LastGap <= Capacity
  PROVE  Spec => []TypeOK
<1>1. IInv /\ [Next]_vars => IInv'
  BY NextIInv
<1> QED BY InitIInv, IInvSafe, <1>1, PTL DEF Spec

\* insert() never throws nor reads outside its strings: first_index, last_index() and the
\* length it hands to replace() stay within the storage.
THEOREM ReassemblerNeverFails ==
  ASSUME LastGap <= Capacity
  PROVE  Spec => []NoFault
<1>1. IInv /\ [Next]_vars => IInv'
  BY NextIInv
<1> QED BY InitIInv, IInvSafe, <1>1, PTL DEF Spec

\* The reader finds the bytes of the stream in order, and bytes_pending() counts the bytes
\* that wait, each once.
THEOREM ReassemblerSafe ==
  ASSUME LastGap <= Capacity
  PROVE  Spec => [](OutputIntact /\ PendingExact)
<1>1. IInv /\ [Next]_vars => IInv'
  BY NextIInv
<1> QED BY InitIInv, IInvSafe, <1>1, PTL DEF Spec
-----------------------------------------------------------------------------
\* The operators of the promise are those of the pipe, and the bytes that wait are the
\* ones the bitmap marks.
LEMMA IdealOperators ==
  /\ \A c : Ideal!NewPipe(c) = NewPipe(c)
  /\ \A p, d : Ideal!Put(p, d) = Put(p, d)
  /\ \A p, n : Ideal!Take(p, n) = Take(p, n)
  /\ \A p : Ideal!Shut(p) = Shut(p)
  /\ \A s : Ideal!Cardinality(s) = Cardinality(s)
BY Zenon DEF Ideal!Cardinality, Cardinality, Ideal!NewPipe, NewPipe, Ideal!Put, Put, Ideal!Take, Take, Ideal!Shut, Shut,
             Ideal!Room, Room, Ideal!Substr, Substr, Ideal!Least, Least

IdealPending == {reassembler.storage[i] : i \in {j \in 1 .. Len(reassembler.storage_bitmap) :
                                                    reassembler.storage_bitmap[j]}}

LEMMA PendingIsIdeal == IdealPending = Pending(reassembler)
BY Zenon DEF IdealPending, Pending, Bits

\* An insert() that writes the run of known bytes is one that keeps the promise.
LEMMA WritesIsInsert ==
  ASSUME NEW first \in Nat, NEW len \in Nat, NEW last \in BOOLEAN,
         Writes(reassembler, reassembler', streamLen, first, len, last), streamLen' = streamLen
  PROVE  Ideal!Insert(first, first + len, last)
<1>1. PICK known, run, q :
        /\ known = Known(reassembler, first, len)
        /\ run = FrontRun(reassembler, first, len)
        /\ q = Put(reassembler.output_, Bytes(BytesPushed(reassembler), Cardinality(run)))
  OBVIOUS
<1>2. /\ reassembler'.seen_last = (reassembler.seen_last \/ last)
      /\ reassembler'.output_ = IF reassembler'.seen_last /\ q.pushed = streamLen THEN Shut(q) ELSE q
      /\ Pending(reassembler') = known \ run
  BY <1>1, Zenon DEF Writes
<1>3. IdealPending' = Pending(reassembler')
  BY PendingIsIdeal, Zenon DEF IdealPending, Pending, Bits
<1> DEFINE Held == IdealPending \cup ((first .. (first + len) - 1) \cap Ideal!Window)
           Fresh == [i \in 1 .. Ideal!Cardinality(Ideal!Run(Held)) |-> reassembler.output_.pushed + i - 1]
<1>4. known = Held
  <2>1. first + len - 1 = (first + len) - 1
    OBVIOUS
  <2> QED BY <1>1, <2>1, PendingIsIdeal, Zenon DEF Known, Fits, Ideal!Window, BytesPushed, StorageCapacity
<1>5. run = Ideal!Run(Held)
  BY <1>1, <1>4, Zenon DEF FrontRun, Ideal!Run, BytesPushed
<1>6. q = Ideal!Put(reassembler.output_, Fresh)
  BY <1>1, <1>5, IdealOperators, Zenon DEF Bytes, BytesPushed
<1>7. reassembler'.output_ = Ideal!CloseWhenAll(q, reassembler'.seen_last)
  BY <1>2, IdealOperators, Zenon DEF Ideal!CloseWhenAll
<1>8. reassembler'.output_ = Ideal!CloseWhenAll(Ideal!Put(reassembler.output_, Fresh),
                                                reassembler'.seen_last)
  BY <1>6, <1>7, Zenon
<1>9. IdealPending' = Held \ Ideal!Run(Held)
  BY <1>2, <1>3, <1>4, <1>5, Zenon
<1> QED BY <1>2, <1>8, <1>9, Zenon DEF Ideal!Insert, IdealPending

\* Every step of the Reassembler is one the promise allows, or changes nothing of it.
LEMMA NextIsIdealNext ==
  LastGap <= Capacity =>
    (IInv /\ [Next]_vars =>
       Ideal!Next \/ UNCHANGED <<streamLen, reassembler.output_, IdealPending, reassembler.seen_last>>)
<1> SUFFICES ASSUME LastGap <= Capacity, IInv, [Next]_vars
             PROVE  Ideal!Next \/ UNCHANGED <<streamLen, reassembler.output_, IdealPending,
                                              reassembler.seen_last>>
  OBVIOUS
<1>1. ASSUME NEW first \in 0 .. streamLen, NEW len \in 0 .. MaxLen, NEW last \in BOOLEAN,
             Receive(first, len, last)
      PROVE  Ideal!Next \/ (reassembler' = reassembler /\ streamLen' = streamLen)
  <2>1. /\ first \in Nat /\ len \in Nat /\ streamLen \in Nat
        /\ WordMod \in Nat /\ Capacity < WordMod /\ streamLen < WordMod
        /\ Proper(reassembler, streamLen, first, len)
        /\ last => first + len = streamLen
        /\ reassembler' = Insert(reassembler, first, Bytes(first, len), last)
        /\ streamLen' = streamLen
    BY <1>1, ReceiveIsProper
  <2>2. reassembler' = reassembler \/ Writes(reassembler, reassembler', streamLen, first, len, last)
    <3>1. /\ Consistent(reassembler, streamLen) /\ AllAhead(reassembler)
          /\ Ending(reassembler, streamLen) /\ StorageCapacity(reassembler) < WordMod
      BY <2>1, Zenon DEF IInv
    <3> QED BY <2>1, <3>1, InsertWrites
  <2>3. CASE Writes(reassembler, reassembler', streamLen, first, len, last)
    <3>1. Ideal!Insert(first, first + len, last)
      BY <2>1, <2>3, WritesIsInsert
    <3>2. PICK end : end = first + len
      OBVIOUS
    <3>3. end \in first .. streamLen /\ (last => end = streamLen)
      <4>1. first + len <= streamLen
        BY <2>1, Zenon DEF Proper
      <4> QED BY <2>1, <3>2, <4>1
    <3> QED BY <3>1, <3>2, <3>3, Zenon DEF Ideal!Next
  <2> QED BY <2>1, <2>2, <2>3
<1>2. ASSUME NEW n \in 1 .. Capacity, Read(n)
      PROVE  Ideal!Next
  <2>1. /\ Pending(reassembler)' = Pending(reassembler)
        /\ reassembler'.output_ = Take(reassembler.output_, n)
        /\ reassembler'.seen_last = reassembler.seen_last /\ streamLen' = streamLen
        /\ n <= Len(reassembler.output_.buf)
    BY <1>2, ReadKeeps, Zenon
  <2>2. IdealPending' = IdealPending
    BY <2>1, PendingIsIdeal, Zenon DEF IdealPending, Pending, Bits
  <2>3. n \in 1 .. Len(reassembler.output_.buf)
    <3>1. reassembler.output_ \in Pipes
      BY Zenon DEF IInv, Consistent, Intact
    <3>2. Len(reassembler.output_.buf) \in Nat
      BY <3>1 DEF Pipes
    <3> QED BY <2>1, <3>2
  <2>4. Ideal!Pop(n)
    BY <2>1, <2>2, IdealOperators, Zenon DEF Ideal!Pop, IdealPending
  <2> QED BY <2>3, <2>4, Zenon DEF Ideal!Next
<1>3. CASE UNCHANGED vars
  BY <1>3, Zenon DEF vars, IdealPending
<1>4. ASSUME reassembler' = reassembler, streamLen' = streamLen
      PROVE  UNCHANGED <<streamLen, reassembler.output_, IdealPending, reassembler.seen_last>>
  BY <1>4, Zenon DEF IdealPending
<1> QED BY <1>1, <1>2, <1>3, <1>4, Zenon DEF Next

\* The strings, the bitmap and the three branches of insert() amount to what the header
\* promises: as long as gaps are left in the first lap of the storage, the Reassembler
\* keeps the bytes that fit, writes them as soon as it can, and closes after the last.
THEOREM ReassemblerIsIdeal ==
  ASSUME LastGap <= Capacity
  PROVE  Spec => ImplementsIdeal
<1>1. Init => Ideal!Init
  <2> SUFFICES ASSUME Init
               PROVE  /\ streamLen \in StreamLens /\ reassembler.output_ = Ideal!NewPipe(Capacity)
                      /\ IdealPending = {} /\ reassembler.seen_last = FALSE
    BY Zenon DEF Ideal!Init, IdealPending
  <2>1. streamLen \in StreamLens /\ streamLen \in Nat /\ reassembler = NewReassembler(Capacity)
    BY StreamAssumption DEF Init
  <2>2. /\ Pending(reassembler) = {} /\ reassembler.output_ = NewPipe(Capacity)
    BY <2>1, NewIs, CapacityAssumption
  <2>3. reassembler.seen_last = FALSE
    BY <2>1 DEF NewReassembler
  <2> QED BY <2>1, <2>2, <2>3, PendingIsIdeal, IdealOperators, Zenon
<1>2. IInv /\ [Next]_vars
        => [Ideal!Next]_<<streamLen, reassembler.output_, IdealPending, reassembler.seen_last>>
  BY NextIsIdealNext, Zenon
<1>3. IInv /\ [Next]_vars => IInv'
  BY NextIInv
<1> QED BY <1>1, <1>2, <1>3, InitIInv, PTL DEF Spec, ImplementsIdeal, Ideal!Spec, IdealPending
=============================================================================

------------------------ MODULE ReassemblerMachine ------------------------
(***************************************************************************)
(* A Reassembler fed with the substrings of one stream, in any order, cut  *)
(* anywhere, overlapping and repeated, while the application reads.        *)
(***************************************************************************)
EXTENDS Reassembler

CONSTANTS Capacity,        \* of the output
          StreamLens,      \* lengths the stream may have
          MaxLen,          \* longest substring
          LastGap,         \* gaps are left below this index only: a substring that ends
                           \* past it comes in order, and when no byte is pending
          MaxBeyond        \* how far past the available capacity a substring may reach

ASSUME CapacityAssumption == Capacity \in Nat /\ Capacity > 0
ASSUME StreamAssumption ==
  /\ StreamLens \subseteq Nat /\ MaxLen \in Nat /\ LastGap \in Nat /\ MaxBeyond \in Nat
  /\ WordMod \in Nat /\ \A n \in StreamLens : WordMod > 2 * (n + Capacity)

VARIABLES streamLen,       \* length of the stream that is sent
          reassembler

vars == <<streamLen, reassembler>>

Init == streamLen \in StreamLens /\ reassembler = NewReassembler(Capacity)

Receive(first_index, len, last) ==
  /\ reassembler.fault = "none"
  /\ first_index + len <= streamLen
  /\ last => first_index + len = streamLen
  /\ \/ first_index + len <= LastGap
     \/ first_index <= reassembler.cur_index /\ BytesPending(reassembler) = 0
  /\ first_index + len <= reassembler.output_.popped + Capacity + MaxBeyond
  /\ reassembler' = Insert(reassembler, first_index, Bytes(first_index, len), last)
  /\ UNCHANGED streamLen

Read(n) == /\ reassembler.fault = "none"
           /\ n <= Len(reassembler.output_.buf)
           /\ reassembler' = [reassembler EXCEPT !.output_ = Take(@, n)]
           /\ UNCHANGED streamLen

Next == \/ \E first_index \in 0 .. streamLen, len \in 0 .. MaxLen, last \in BOOLEAN :
             Receive(first_index, len, last)
        \/ \E n \in 1 .. Capacity : Read(n)

Spec == Init /\ [][Next]_vars

\* A sender retransmits the oldest byte it has no acknowledgment for, or the end mark, and
\* the application reads what there is: weak fairness of both, with the two conditions
\* ENABLED stands for written out.
Resent(k) == Insert(reassembler, k, Bytes(k, Least(1, streamLen - k)), k + 1 >= streamLen)

Resend == LET k == reassembler.cur_index
          IN  Receive(k, Least(1, streamLen - k), k + 1 >= streamLen)

Waits == LET k == reassembler.cur_index
         IN  /\ reassembler.fault = "none"
             /\ k <= streamLen
             /\ Least(k + 1, streamLen) <= LastGap \/ BytesPending(reassembler) = 0
             /\ Least(k + 1, streamLen) <= reassembler.output_.popped + Capacity + MaxBeyond
             /\ Resent(k) # reassembler

Unread == reassembler.fault = "none" /\ reassembler.output_.buf # <<>>

FairSpec == /\ Spec
            /\ []<>~Waits \/ []<><<Resend>>_vars
            /\ []<>~Unread \/ []<><<\E n \in 1 .. Capacity : Read(n)>>_vars
-----------------------------------------------------------------------------
\* The members keep their types, and the bitmap stays as long as the storage.
TypeOK == /\ reassembler.cur_index \in Nat
          /\ reassembler.total_len \in 0 .. WordMod - 1
          /\ reassembler.seen_last \in BOOLEAN
          /\ reassembler.storage \in Seq(Int)
          /\ reassembler.storage_bitmap \in [1 .. Len(reassembler.storage) -> BOOLEAN]
          /\ reassembler.fault \in {"none", "out_of_range", "undefined"}

\* No substring of the stream makes insert() throw or read outside its strings.
NoFault == reassembler.fault = "none"

\* What the reader finds in the output are the bytes of the stream, in order, with
\* none lost, repeated or taken from a stale slot.
OutputIntact ==
  LET p == reassembler.output_ IN p.buf = Bytes(p.popped, Len(p.buf))

\* bytes_pending() counts each byte that waits once: a '1' marks a slot that holds its
\* own byte, one that has not been written yet.
PendingExact ==
  \A i \in 1 .. Len(reassembler.storage_bitmap) :
      reassembler.storage_bitmap[i] =>
      reassembler.storage[i] = i - 1 /\ i - 1 > BytesPushed(reassembler)

\* Whatever the order of arrival, a stream whose bytes all arrive is read to its end.
Completes == <>Drained(reassembler.output_)

\* The strings, the bitmap and the three branches amount to the promise of the header.
Ideal == INSTANCE IdealReassembler WITH
           output <- reassembler.output_,
           pending <- {reassembler.storage[i] : i \in {j \in 1 .. Len(reassembler.storage_bitmap) :
                                                         reassembler.storage_bitmap[j]}},
           seenLast <- reassembler.seen_last
ImplementsIdeal == Ideal!Spec
=============================================================================

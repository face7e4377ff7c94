-------------------------- MODULE IdealReassembler --------------------------
(***************************************************************************)
(* What src/src/reassembler.hh promises of a Reassembler: of each          *)
(* substring it keeps the bytes that fit the output's available capacity,  *)
(* writes every byte as soon as the ones before it are known, discards     *)
(* what lies beyond, and closes the output after the last byte.            *)
(***************************************************************************)
EXTENDS BytePipe, FiniteSets

CONSTANTS Capacity,        \* capacity of the output
          StreamLens       \* lengths the stream may have

VARIABLES streamLen,       \* length of the stream that is being reassembled
          output,          \* the pipe
          pending,         \* indices of the bytes waiting for a gap to be filled
          seenLast         \* the length of the stream is known

Window == output.pushed .. output.popped + output.cap - 1

Run(known) == {k \in known : \A j \in output.pushed .. k : j \in known}

CloseWhenAll(p, last) == IF last /\ p.pushed = streamLen THEN Shut(p) ELSE p

Init == /\ streamLen \in StreamLens
        /\ output = NewPipe(Capacity) /\ pending = {} /\ seenLast = FALSE

\* The bytes first .. end - 1 arrive; the last of them may be marked as the last of
\* the stream.
Insert(first, end, last) ==
  LET known == pending \cup ((first .. end - 1) \cap Window)
      run   == [i \in 1 .. Cardinality(Run(known)) |-> output.pushed + i - 1]
  IN  /\ seenLast' = (seenLast \/ last)
      /\ output' = CloseWhenAll(Put(output, run), seenLast')
      /\ pending' = known \ Run(known)
      /\ UNCHANGED streamLen

Pop(n) == output' = Take(output, n) /\ UNCHANGED <<pending, seenLast, streamLen>>

\* The owner may mark the stream as failed; that changes nothing else.
Fail == output' = Spoil(output) /\ UNCHANGED <<pending, seenLast, streamLen>>

Next == \/ \E first \in 0 .. streamLen : \E end \in first .. streamLen :
             \E last \in BOOLEAN : (last => end = streamLen) /\ Insert(first, end, last)
        \/ \E n \in 1 .. Len(output.buf) : Pop(n)
        \/ Fail

Spec == Init /\ [][Next]_<<streamLen, output, pending, seenLast>>
=============================================================================

---------------------------- MODULE BoundedPipe ----------------------------
(***************************************************************************)
(* What a ByteStream promises: a bounded pipe, written by one end, read by *)
(* the other, whose bytes come out as they went in.                        *)
(***************************************************************************)
EXTENDS BytePipe

CONSTANTS Capacity,        \* bytes the pipe can hold
          MaxBytes         \* longest string written at once

VARIABLE pipe

Init == pipe = NewPipe(Capacity)

Next == \/ \E n \in 0 .. MaxBytes : pipe' = Put(pipe, Bytes(pipe.pushed, n))
        \/ \E n \in 1 .. Len(pipe.buf) : pipe' = Take(pipe, n)
        \/ pipe' = Shut(pipe)
        \/ pipe' = Spoil(pipe)

Spec == Init /\ [][Next]_pipe
=============================================================================

--------------------------- MODULE SeqnoTracking ---------------------------
(***************************************************************************)
(* How the TCP objects use Wrap32: one end numbers its segments from its   *)
(* isn, the other recovers each absolute number near what it has already   *)
(* seen.  A segment is new, old or repeated, but never half the sequence   *)
(* space away from the receiver.                                           *)
(***************************************************************************)
EXTENDS Wrap32

CONSTANT MaxSeqno          \* absolute numbers in use, bounded for model checking
ASSUME MaxSeqnoAssumption == MaxSeqno \in Nat /\ MaxSeqno + 2 * RelSeqMax < WordMod

VARIABLES isn,             \* the zero point
          seqno,           \* absolute number of the segment on its way
          checkpoint       \* absolute number the receiver measures from

vars == <<isn, seqno, checkpoint>>

Near(n) == 2 * Distance(n, checkpoint) < RelSeqMax

Init == isn \in Seqnos /\ seqno = 0 /\ checkpoint = 0

Send(n) == /\ Near(n)
           /\ seqno' = n
           /\ UNCHANGED <<isn, checkpoint>>

\* The receiver moves on from what it recovered: never backwards.  This stands for any
\* checkpoint that follows the numbers sent; TCPReceiver measures from bytes_pushed()
\* (tcp_receiver.cc:37-38), which TCPReceiverMachine keeps.
Recover == LET got == Unwrap(WrapSeq(seqno, isn), isn, checkpoint)
           IN  /\ checkpoint' = IF got > checkpoint THEN got ELSE checkpoint
               /\ UNCHANGED <<isn, seqno>>

Next == (\E n \in 0 .. MaxSeqno : Send(n)) \/ Recover

Spec == Init /\ [][Next]_vars
-----------------------------------------------------------------------------
\* All three stay in range: the checkpoint never leaves the numbers that were sent.
TypeOK == /\ isn \in Seqnos
          /\ seqno \in 0 .. MaxSeqno
          /\ checkpoint \in 0 .. MaxSeqno

\* The receiver recovers the absolute number the sender meant, wherever the isn is
\* and however often the raw number has wrapped.
RoundTrip == Unwrap(WrapSeq(seqno, isn), isn, checkpoint) = seqno

\* Any raw number at all unwraps to an absolute number it stands for, and to none
\* farther from the checkpoint than another one it stands for.
Nearest ==
  \A raw \in Seqnos :
    LET got == Unwrap(raw, isn, checkpoint)
    IN  /\ WrapSeq(got, isn) = raw
        /\ \A n \in 0 .. MaxSeqno + RelSeqMax :
             WrapSeq(n, isn) = raw => Distance(got, checkpoint) <= Distance(n, checkpoint)
=============================================================================

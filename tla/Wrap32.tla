------------------------------- MODULE Wrap32 -------------------------------
(***************************************************************************)
(* The sequence number arithmetic of src/src/wrapping_integers.cc: a raw   *)
(* 32-bit number counts from a zero point and wraps; unwrap() finds the    *)
(* absolute 64-bit number it stands for near a checkpoint.  The two word   *)
(* sizes are parameters.                                                   *)
(***************************************************************************)
EXTENDS Words

CONSTANT RelSeqMax         \* REL_SEQ_MAX, 2^32 in the code

ASSUME RelSeqMaxAssumption == RelSeqMax \in Nat /\ RelSeqMax > 1
ASSUME WordModAssumption == WordMod \in Nat /\ WordMod > 4 * RelSeqMax

Seqnos == 0 .. RelSeqMax - 1

Plus(w, n) == (w + n) % RelSeqMax                 \* operator+
WrapSeq(n, zero_point) == Plus(zero_point, n % RelSeqMax)

Distance(a, b) == IF a > b THEN a - b ELSE b - a

\* The offset of raw from the zero point, counted 1 .. RelSeqMax: 0 comes out as RelSeqMax.
OffsetOf(raw, zero_point) ==
  IF raw > zero_point THEN raw - zero_point ELSE RelSeqMax + raw - zero_point

\* Faulty unwrap()s: the block above is forgotten; the block of the checkpoint is all that
\* is looked at; the block above wins.
UnwrapBelow(raw, zero_point, checkpoint) ==
  LET cand_1 == U64((checkpoint \div RelSeqMax) * RelSeqMax + OffsetOf(raw, zero_point))
      cand_2 == U64(cand_1 - RelSeqMax)
  IN  IF Distance(cand_1, checkpoint) < Distance(cand_2, checkpoint) THEN cand_1 ELSE cand_2

UnwrapBlock(raw, zero_point, checkpoint) ==
  ((checkpoint \div RelSeqMax) * RelSeqMax) + ((raw - zero_point) % RelSeqMax)

Unwrap(raw, zero_point, checkpoint) ==
  LET cand_1 == U64((checkpoint \div RelSeqMax) * RelSeqMax + OffsetOf(raw, zero_point))
      cand_2 == U64(cand_1 - RelSeqMax)
      cand_3 == U64(cand_1 + RelSeqMax)
      diff(c) == Distance(c, checkpoint)
  IN  CASE diff(cand_1) <= diff(cand_2) /\ diff(cand_1) <= diff(cand_3) -> cand_1
        [] ~(diff(cand_1) <= diff(cand_2) /\ diff(cand_1) <= diff(cand_3))
           /\ diff(cand_2) <= diff(cand_1) /\ diff(cand_2) <= diff(cand_3) -> cand_2
        [] OTHER -> cand_3
=============================================================================

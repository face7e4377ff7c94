------------------------ MODULE SeqnoTrackingProofs ------------------------
(***************************************************************************)
(* The receiver of SeqnoTracking for every word size, isn and number of    *)
(* segments: its checkpoint stays among the numbers that were sent, and    *)
(* what it recovers is what the sender meant.                              *)
(***************************************************************************)
EXTENDS SeqnoTracking, TCPLemmas

\* The strengthening: what was sent is always within half a space of the checkpoint.
IInv == TypeOK /\ Near(seqno)

LEMMA InitIInv == Init => IInv
BY RelSeqMaxAssumption, MaxSeqnoAssumption DEF Init, IInv, TypeOK, Near, Distance, Seqnos

LEMMA IInvRoundTrip == IInv => RoundTrip
<1> SUFFICES ASSUME IInv
             PROVE  Unwrap(WrapSeq(seqno, isn), isn, checkpoint) = seqno
  BY Zenon DEF RoundTrip
<1>1. /\ isn \in Seqnos /\ seqno \in Nat /\ checkpoint \in Nat
      /\ checkpoint + 2 * RelSeqMax < WordMod
  BY RelSeqMaxAssumption, WordModAssumption, MaxSeqnoAssumption DEF IInv, TypeOK
<1>2. 2 * Distance(seqno, checkpoint) < RelSeqMax
  BY Zenon DEF IInv, Near
<1> QED BY <1>1, <1>2, UnwrapWrapped

LEMMA NextIInv == IInv /\ [Next]_vars => IInv'
<1> SUFFICES ASSUME IInv, [Next]_vars
             PROVE  IInv'
  OBVIOUS
<1>1. ASSUME NEW n \in 0 .. MaxSeqno, Send(n)
      PROVE  IInv'
  BY <1>1 DEF Send, IInv, TypeOK, Near
<1>2. CASE Recover
  <2>1. Unwrap(WrapSeq(seqno, isn), isn, checkpoint) = seqno
    BY IInvRoundTrip, Zenon DEF RoundTrip
  <2>2. /\ checkpoint' = IF seqno > checkpoint THEN seqno ELSE checkpoint
        /\ isn' = isn /\ seqno' = seqno
    BY <1>2, <2>1, Zenon DEF Recover
  <2>3. TypeOK'
    BY <2>2 DEF IInv, TypeOK
  <2>4. Near(seqno)'
    BY <2>2, RelSeqMaxAssumption, MaxSeqnoAssumption DEF IInv, TypeOK, Near, Distance
  <2> QED BY <2>3, <2>4, Zenon DEF IInv
<1>3. CASE UNCHANGED vars
  BY <1>3 DEF vars, IInv, TypeOK, Near
<1> QED BY <1>1, <1>2, <1>3 DEF Next

\* The receiver's view of the sequence space is the sender's, for every word size, every
\* isn and any number of wraps, and the checkpoint stays within what was sent.
THEOREM SeqnoRoundTrip == Spec => [](TypeOK /\ RoundTrip)
<1>1. IInv => TypeOK /\ RoundTrip
  BY IInvRoundTrip, Zenon DEF IInv
<1> QED BY InitIInv, NextIInv, <1>1, PTL DEF Spec

\* unwrap() is right for any raw number, not only for those near the checkpoint: no
\* absolute number with that raw number is nearer.
THEOREM SeqnoNearest == Spec => []Nearest
<1>1. IInv => Nearest
  <2> SUFFICES ASSUME IInv, NEW raw \in Seqnos, NEW got, got = Unwrap(raw, isn, checkpoint)
               PROVE  /\ WrapSeq(got, isn) = raw
                      /\ \A n \in 0 .. MaxSeqno + RelSeqMax :
                           WrapSeq(n, isn) = raw => Distance(got, checkpoint) <= Distance(n, checkpoint)
    BY Zenon DEF Nearest
  <2>1. /\ isn \in Seqnos /\ checkpoint \in Nat
        /\ checkpoint + 2 * RelSeqMax < WordMod
    BY RelSeqMaxAssumption, WordModAssumption, MaxSeqnoAssumption DEF IInv, TypeOK
  <2>2. /\ WrapSeq(got, isn) = raw
        /\ \A n \in Nat : WrapSeq(n, isn) = raw => Distance(got, checkpoint) <= Distance(n, checkpoint)
    BY <2>1, UnwrapNearest
  <2>3. 0 .. MaxSeqno + RelSeqMax \subseteq Nat
    BY RelSeqMaxAssumption, MaxSeqnoAssumption
  <2> QED BY <2>2, <2>3, Zenon
<1> QED BY InitIInv, NextIInv, <1>1, PTL DEF Spec
=============================================================================

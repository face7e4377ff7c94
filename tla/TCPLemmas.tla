------------------------------ MODULE TCPLemmas ------------------------------
(***************************************************************************)
(* Facts the proofs about the TCP objects share, for every word size,      *)
(* capacity and stream: what wrap() and unwrap() compute, and what the     *)
(* methods of a Reassembler do.                                            *)
(***************************************************************************)
EXTENDS Reassembler, Wrap32, StreamLemmas

-----------------------------------------------------------------------------
(* wrap() and unwrap(): an absolute sequence number survives both as long  *)
(* as it is less than half the sequence space away from the checkpoint,    *)
(* and any raw number unwraps to the nearest absolute number it stands for.*)

\* Division with remainder.
LEMMA DivMod ==
  ASSUME NEW m \in Nat, m > 1, NEW a \in Nat
  PROVE  /\ a \div m \in Nat /\ a % m \in 0 .. m - 1
         /\ a = (a \div m) * m + (a % m)
OBVIOUS

\* Multiples of m are m apart.
LEMMA Multiples ==
  ASSUME NEW m \in Nat, m > 1, NEW c \in Int, NEW j \in Int
  PROVE  /\ c * m \in Int
         /\ (c + 1) * m = c * m + m
         /\ (c - 1) * m = c * m - m
         /\ j >= c + 2 => j * m >= c * m + 2 * m
         /\ j <= c - 2 => j * m <= c * m - 2 * m
OBVIOUS

\* The remainder of a number less than two moduli above zero.
LEMMA ModOnce ==
  ASSUME NEW m \in Nat, m > 1, NEW a \in 0 .. 2 * m - 1
  PROVE  a % m = IF a < m THEN a ELSE a - m
<1>1. PICK q \in Nat, r \in 0 .. m - 1 : q = a \div m /\ r = a % m /\ a = q * m + r
  BY DivMod
<1>2. q < 2
  <2>1. q >= 2 => q * m >= 0 * m + 2 * m
    BY Multiples
  <2> QED BY <1>1, <2>1
<1>3. q = 0 \/ q = 1
  BY <1>2
<1> QED BY <1>1, <1>3

\* A uint64_t that went below zero once comes back from the top.
LEMMA ModBelow ==
  ASSUME NEW m \in Nat, m > 1, NEW a \in Int, a < 0, -m <= a
  PROVE  a % m = a + m
OBVIOUS

\* Wrapping gives a raw number; the offset of that number is the number wrapped, up to
\* a multiple of the sequence space.
LEMMA OffsetOfWrapped ==
  ASSUME NEW n \in Nat, NEW zero \in Seqnos, NEW raw, raw = WrapSeq(n, zero)
  PROVE  /\ raw \in Seqnos
         /\ OffsetOf(raw, zero) \in 1 .. RelSeqMax
         /\ \E j \in Int : n = j * RelSeqMax + OffsetOf(raw, zero)
<1>1. PICK m \in Nat : m = RelSeqMax /\ m > 1
  BY RelSeqMaxAssumption
<1>2. PICK q \in Nat, r \in 0 .. m - 1 : r = n % m /\ n = q * m + r
  <2>1. m \in Nat /\ m > 1
    BY <1>1
  <2>2. n \div m \in Nat /\ n % m \in 0 .. m - 1 /\ n = (n \div m) * m + (n % m)
    BY <2>1, DivMod, Zenon
  <2> QED BY <2>2
<1>3. PICK w \in 0 .. 2 * m - 1 : w = zero + r
  BY <1>1, <1>2 DEF Seqnos
<1>4. raw = IF w < m THEN w ELSE w - m
  BY <1>1, <1>2, <1>3, ModOnce DEF WrapSeq, Plus
<1>5. raw \in Seqnos /\ zero \in 0 .. m - 1
  BY <1>1, <1>3, <1>4 DEF Seqnos
<1>6. PICK off \in 1 .. m : /\ off = OffsetOf(raw, zero)
                            /\ off = IF raw > zero THEN raw - zero ELSE m + raw - zero
  BY <1>1, <1>5 DEF OffsetOf, Seqnos
<1>7. IF r = 0 THEN off = m ELSE off = r
  BY <1>2, <1>3, <1>4, <1>5, <1>6
<1>8. (q - 1) * m = q * m - m
  BY <1>1, Multiples
<1>9. \E j \in Int : n = j * m + off
  <2>1. CASE r = 0
    <3>1. n = (q - 1) * m + off /\ q - 1 \in Int
      BY <1>1, <1>2, <1>7, <1>8, <2>1, Multiples
    <3> QED BY <3>1, Zenon
  <2>2. CASE r # 0
    BY <1>2, <1>7, <2>2
  <2> QED BY <2>1, <2>2
<1> QED BY <1>1, <1>5, <1>6, <1>9, Zenon

\* Far from the top of the 64-bit range only the second candidate can wrap.
LEMMA Candidates ==
  ASSUME NEW x \in Nat, x >= 1, x + RelSeqMax < WordMod
  PROVE  /\ U64(x) = x
         /\ U64(x + RelSeqMax) = x + RelSeqMax
         /\ U64(x - RelSeqMax) = IF x < RelSeqMax THEN (x - RelSeqMax) + WordMod ELSE x - RelSeqMax
<1>1. PICK m \in Nat, top \in Nat : m = RelSeqMax /\ top = WordMod /\ m > 1 /\ top > 4 * m /\ x + m < top
  BY RelSeqMaxAssumption, WordModAssumption
<1>2. top > 1 /\ x \in 0 .. 2 * top - 1 /\ x < top /\ x + m \in 0 .. 2 * top - 1
  BY <1>1
<1>3. x % top = x /\ (x + m) % top = x + m
  BY <1>1, <1>2, ModOnce
<1>4. (x - m) % top = IF x < m THEN (x - m) + top ELSE x - m
  <2>1. CASE x < m
    <3>1. x - m \in Int /\ x - m < 0 /\ -top <= x - m
      BY <1>1, <2>1
    <3> QED BY <1>2, <2>1, <3>1, ModBelow
  <2>2. CASE ~(x < m)
    <3>1. x - m \in 0 .. 2 * top - 1 /\ x - m < top
      BY <1>1, <1>2, <2>2
    <3> QED BY <1>2, <2>2, <3>1, ModOnce
  <2> QED BY <2>1, <2>2
<1> QED BY <1>1, <1>3, <1>4, Zenon DEF U64

\* A number less than half a space from the checkpoint lies in the checkpoint's block
\* of the space or in one of the two beside it, as the offsets count the blocks.
LEMMA BlockOf ==
  ASSUME NEW cp \in Nat, NEW n \in Nat, 2 * Distance(n, cp) < RelSeqMax,
         NEW off \in 1 .. RelSeqMax, NEW j \in Int, n = j * RelSeqMax + off
  PROVE  \E base \in Nat :
           /\ base = (cp \div RelSeqMax) * RelSeqMax /\ base <= cp /\ cp < base + RelSeqMax
           /\ n = base + off \/ n = base + off - RelSeqMax \/ n = base + off + RelSeqMax
<1>1. PICK m \in Nat : m = RelSeqMax /\ m > 1 /\ 2 * Distance(n, cp) < m /\ off \in 1 .. m /\ n = j * m + off
  BY RelSeqMaxAssumption
<1>2. PICK c \in Nat, r \in 0 .. m - 1 : c = cp \div m /\ cp = c * m + r
  <2>1. /\ cp \div m \in Nat /\ cp % m \in 0 .. m - 1
        /\ cp = (cp \div m) * m + (cp % m)
    BY <1>1, DivMod
  <2> QED BY <2>1, Zenon
<1>3. PICK base \in Nat : base = c * m /\ base <= cp /\ cp < base + m
  BY <1>1, <1>2, Multiples
<1>4. PICK jm \in Int : jm = j * m /\ n = jm + off
  BY <1>1, Multiples
<1>5. j < c + 2
  <2>1. j >= c + 2 => jm >= base + 2 * m
    BY <1>1, <1>3, <1>4, Multiples
  <2>2. ~(jm >= base + 2 * m)
    BY <1>1, <1>3, <1>4 DEF Distance
  <2> QED BY <2>1, <2>2
<1>6. j > c - 2
  <2>1. j <= c - 2 => jm <= base - 2 * m
    BY <1>1, <1>3, <1>4, Multiples
  <2>2. ~(jm <= base - 2 * m)
    BY <1>1, <1>3, <1>4 DEF Distance
  <2> QED BY <2>1, <2>2
<1>7. j = c \/ j = c - 1 \/ j = c + 1
  BY <1>5, <1>6
<1>8. (c + 1) * m = base + m /\ (c - 1) * m = base - m
  BY <1>1, <1>3, Multiples
<1>9. jm = base \/ jm = base - m \/ jm = base + m
  BY <1>3, <1>4, <1>7, <1>8
<1>10. n = base + off \/ n = base + off - m \/ n = base + off + m
  BY <1>4, <1>9
<1>11. base = (cp \div RelSeqMax) * RelSeqMax
  BY <1>1, <1>2, <1>3, Zenon
<1> QED BY <1>1, <1>3, <1>10, <1>11, Zenon

\* unwrap() undoes wrap() near the checkpoint.
THEOREM UnwrapWrapped ==
  ASSUME NEW n \in Nat, NEW zero \in Seqnos, NEW cp \in Nat,
         2 * Distance(n, cp) < RelSeqMax, cp + 2 * RelSeqMax < WordMod
  PROVE  Unwrap(WrapSeq(n, zero), zero, cp) = n
<1>1. /\ RelSeqMax \in Nat /\ RelSeqMax > 1
      /\ WordMod \in Nat /\ WordMod > 4 * RelSeqMax
  BY RelSeqMaxAssumption, WordModAssumption
<1>2. PICK raw : raw = WrapSeq(n, zero)
  OBVIOUS
<1>3. /\ OffsetOf(raw, zero) \in 1 .. RelSeqMax
      /\ \E j \in Int : n = j * RelSeqMax + OffsetOf(raw, zero)
  BY <1>2, OffsetOfWrapped
<1>4. PICK off \in 1 .. RelSeqMax, j \in Int : off = OffsetOf(raw, zero) /\ n = j * RelSeqMax + off
  BY <1>3, Zenon
<1>5. PICK base \in Nat :
        /\ base = (cp \div RelSeqMax) * RelSeqMax /\ base <= cp /\ cp < base + RelSeqMax
        /\ n = base + off \/ n = base + off - RelSeqMax \/ n = base + off + RelSeqMax
  BY <1>4, BlockOf
<1>6. PICK c1 \in Nat : c1 = base + off /\ c1 >= 1 /\ c1 + RelSeqMax < WordMod
  BY <1>1, <1>5
<1>7. PICK c2 : c2 = IF c1 < RelSeqMax THEN (c1 - RelSeqMax) + WordMod ELSE c1 - RelSeqMax
  OBVIOUS
<1>8. PICK c3 : c3 = c1 + RelSeqMax
  OBVIOUS
<1>9. U64(c1) = c1 /\ U64(c1 - RelSeqMax) = c2 /\ U64(c1 + RelSeqMax) = c3
  BY <1>6, <1>7, <1>8, Candidates
<1>10. n = c1 => Distance(c1, cp) <= Distance(c2, cp) /\ Distance(c1, cp) <= Distance(c3, cp)
  BY <1>1, <1>5, <1>6, <1>7, <1>8 DEF Distance
<1>11. n = c1 - RelSeqMax =>
         /\ ~(Distance(c1, cp) <= Distance(c2, cp)) /\ c2 = n
         /\ Distance(c2, cp) <= Distance(c1, cp) /\ Distance(c2, cp) <= Distance(c3, cp)
  BY <1>1, <1>5, <1>6, <1>7, <1>8 DEF Distance
<1>12. n = c1 + RelSeqMax =>
         ~(Distance(c1, cp) <= Distance(c3, cp)) /\ ~(Distance(c2, cp) <= Distance(c3, cp))
  BY <1>1, <1>5, <1>6, <1>7, <1>8 DEF Distance
<1>13. n = c1 \/ n = c1 - RelSeqMax \/ n = c1 + RelSeqMax
  BY <1>1, <1>5, <1>6
<1>14. (cp \div RelSeqMax) * RelSeqMax + OffsetOf(raw, zero) = c1
  BY <1>4, <1>5, <1>6, Zenon
<1>15. CASE n = c1
  BY <1>2, <1>9, <1>10, <1>14, <1>15, Zenon DEF Unwrap
<1>16. CASE n = c1 - RelSeqMax
  BY <1>2, <1>9, <1>11, <1>14, <1>16, Zenon DEF Unwrap
<1>17. CASE n = c1 + RelSeqMax
  BY <1>2, <1>8, <1>9, <1>12, <1>14, <1>17, Zenon DEF Unwrap
<1> QED BY <1>13, <1>15, <1>16, <1>17


\* The remainder of a number is what is left over any multiple.
LEMMA ModUnique ==
  ASSUME NEW m \in Nat, m > 1, NEW j \in Int, NEW r \in 0 .. m - 1, j * m + r \in Nat
  PROVE  (j * m + r) % m = r
<1>1. PICK a \in Nat : a = j * m + r
  OBVIOUS
<1>2. PICK q \in Nat, t \in 0 .. m - 1 : t = a % m /\ a = q * m + t
  <2>1. /\ a \div m \in Nat /\ a % m \in 0 .. m - 1
        /\ a = (a \div m) * m + (a % m)
    BY DivMod
  <2> QED BY <2>1, Zenon
<1>3. PICK jm \in Int, qm \in Int : jm = j * m /\ qm = q * m
  BY Multiples
<1>4. CASE j = q
  BY <1>1, <1>2, <1>3, <1>4
<1>5. CASE j = q + 1
  <2>1. jm = qm + m
    BY <1>3, <1>5, Multiples
  <2> QED BY <1>1, <1>2, <1>3, <2>1
<1>6. CASE j = q - 1
  <2>1. jm = qm - m
    BY <1>3, <1>6, Multiples
  <2> QED BY <1>1, <1>2, <1>3, <2>1
<1>7. CASE j >= q + 2
  <2>1. jm >= qm + 2 * m
    BY <1>3, <1>7, Multiples
  <2> QED BY <1>1, <1>2, <1>3, <2>1
<1>8. CASE j <= q - 2
  <2>1. jm <= qm - 2 * m
    BY <1>3, <1>8, Multiples
  <2> QED BY <1>1, <1>2, <1>3, <2>1
<1> QED BY <1>4, <1>5, <1>6, <1>7, <1>8

\* A raw number stands for every absolute number that is its offset up to a multiple of
\* the sequence space.
LEMMA StandsFor ==
  ASSUME NEW raw \in Seqnos, NEW zero \in Seqnos, NEW j \in Int, NEW n \in Nat,
         n = j * RelSeqMax + OffsetOf(raw, zero)
  PROVE  WrapSeq(n, zero) = raw
<1>1. PICK m \in Nat : m = RelSeqMax /\ m > 1
  BY RelSeqMaxAssumption
<1>2. raw \in 0 .. m - 1 /\ zero \in 0 .. m - 1
  BY <1>1 DEF Seqnos
<1>3. PICK off \in 1 .. m : /\ off = OffsetOf(raw, zero)
                            /\ off = IF raw > zero THEN raw - zero ELSE m + raw - zero
  <2>1. (IF raw > zero THEN raw - zero ELSE m + raw - zero) \in 1 .. m
    BY <1>1, <1>2
  <2>2. OffsetOf(raw, zero) = IF raw > zero THEN raw - zero ELSE m + raw - zero
    BY <1>1, Zenon DEF OffsetOf
  <2> QED BY <2>1, <2>2, Zenon
<1>4. n = j * m + off
  BY <1>1, <1>3, Zenon
<1>5. PICK r \in 0 .. m - 1 : r = IF off = m THEN 0 ELSE off
  BY <1>1
<1>6. n % m = r
  <2>1. CASE off = m
    <3>1. n = (j + 1) * m + r /\ j + 1 \in Int
      BY <1>1, <1>4, <1>5, <2>1, Multiples
    <3>2. ((j + 1) * m + r) % m = r
      BY <1>1, <3>1, ModUnique
    <3> QED BY <3>1, <3>2, Zenon
  <2>2. CASE off # m
    <3>1. n = j * m + r
      BY <1>1, <1>4, <1>5, <2>2
    <3>2. (j * m + r) % m = r
      BY <1>1, <3>1, ModUnique
    <3> QED BY <3>1, <3>2, Zenon
  <2> QED BY <2>1, <2>2
<1>7. PICK w \in 0 .. 2 * m - 1 : w = zero + r
  BY <1>2, <1>5
<1>8. w % m = IF w < m THEN w ELSE w - m
  BY <1>1, ModOnce
<1>9. w % m = raw
  BY <1>1, <1>2, <1>3, <1>5, <1>7, <1>8
<1> QED BY <1>1, <1>6, <1>7, <1>9, Zenon DEF WrapSeq, Plus

\* The three candidates of unwrap(): the second wraps below zero only when it is then
\* farther from the checkpoint than the first.
LEMMA UnwrapChooses ==
  ASSUME NEW raw \in Seqnos, NEW zero \in Seqnos, NEW cp \in Nat, cp + 2 * RelSeqMax < WordMod,
         NEW base \in Nat, base = (cp \div RelSeqMax) * RelSeqMax,
         NEW c1 \in Nat, c1 = base + OffsetOf(raw, zero),
         base <= cp, cp < base + RelSeqMax, base < c1, c1 <= base + RelSeqMax
  PROVE  LET got == Unwrap(raw, zero, cp)
         IN  /\ got \in Nat
             /\ got = c1 \/ got = c1 - RelSeqMax \/ got = c1 + RelSeqMax
             /\ Distance(got, cp) <= Distance(c1, cp)
             /\ c1 >= RelSeqMax => Distance(got, cp) <= Distance(c1 - RelSeqMax, cp)
             /\ Distance(got, cp) <= Distance(c1 + RelSeqMax, cp)
<1>1. PICK m \in Nat, top \in Nat : m = RelSeqMax /\ top = WordMod /\ m > 1 /\ top > 4 * m
  BY RelSeqMaxAssumption, WordModAssumption
<1>2. c1 >= 1 /\ c1 + m < top
  BY <1>1
<1>3. PICK c2 \in Nat : c2 = IF c1 < m THEN (c1 - m) + top ELSE c1 - m
  BY <1>1, <1>2
<1>4. PICK c3 \in Nat : c3 = c1 + m
  BY <1>1
<1>5. U64(c1) = c1 /\ U64(c1 - m) = c2 /\ U64(c1 + m) = c3
  BY <1>1, <1>2, <1>3, <1>4, Candidates
<1>6. PICK d1 \in Nat, d2 \in Nat, d3 \in Nat :
        /\ d1 = Distance(c1, cp) /\ d2 = Distance(c2, cp) /\ d3 = Distance(c3, cp)
        /\ c1 < m => d2 > d1
  BY <1>1, <1>2, <1>3, <1>4 DEF Distance
<1>7. PICK got : got = Unwrap(raw, zero, cp)
  OBVIOUS
<1>8. \/ got = c1 /\ d1 <= d2 /\ d1 <= d3
      \/ got = c2 /\ d2 <= d1 /\ d2 <= d3
      \/ got = c3 /\ d3 <= d1 /\ d3 <= d2
  <2>1. got = CASE d1 <= d2 /\ d1 <= d3 -> c1
                [] ~(d1 <= d2 /\ d1 <= d3) /\ d2 <= d1 /\ d2 <= d3 -> c2
                [] OTHER -> c3
    BY <1>1, <1>5, <1>6, <1>7, Zenon DEF Unwrap
  <2> QED BY <2>1
<1>9. /\ got = c2 => c2 = c1 - m
      /\ c1 >= m => c2 = c1 - m
  BY <1>3, <1>6, <1>8
<1>10. /\ got \in Nat
       /\ got = c1 \/ got = c1 - m \/ got = c1 + m
  BY <1>3, <1>4, <1>8, <1>9
<1>11. PICK d \in Nat : /\ d = Distance(got, cp) /\ d <= d1 /\ d <= d2 /\ d <= d3
  BY <1>6, <1>8
<1> QED BY <1>1, <1>4, <1>6, <1>7, <1>9, <1>10, <1>11, Zenon

\* unwrap() finds the absolute number nearest to the checkpoint among all that a raw
\* number stands for.
THEOREM UnwrapNearest ==
  ASSUME NEW raw \in Seqnos, NEW zero \in Seqnos, NEW cp \in Nat, cp + 2 * RelSeqMax < WordMod
  PROVE  LET got == Unwrap(raw, zero, cp)
         IN  /\ got \in Nat
             /\ WrapSeq(got, zero) = raw
             /\ \A n \in Nat : WrapSeq(n, zero) = raw => Distance(got, cp) <= Distance(n, cp)
<1>1. PICK m \in Nat : m = RelSeqMax /\ m > 1
  BY RelSeqMaxAssumption
<1>2. PICK off \in 1 .. m : off = OffsetOf(raw, zero)
  <2>1. (IF raw > zero THEN raw - zero ELSE m + raw - zero) \in 1 .. m
    BY <1>1 DEF Seqnos
  <2>2. OffsetOf(raw, zero) = IF raw > zero THEN raw - zero ELSE m + raw - zero
    BY <1>1, Zenon DEF OffsetOf
  <2> QED BY <2>1, <2>2, Zenon
<1>3. PICK c \in Nat, r \in 0 .. m - 1 : c = cp \div m /\ cp = c * m + r
  <2>1. /\ cp \div m \in Nat /\ cp % m \in 0 .. m - 1
        /\ cp = (cp \div m) * m + (cp % m)
    BY <1>1, DivMod
  <2> QED BY <2>1, Zenon
<1>4. PICK base \in Nat : base = c * m /\ base <= cp /\ cp < base + m
  BY <1>1, <1>3, Multiples
<1>5. PICK c1 \in Nat : c1 = base + off /\ base < c1 /\ c1 <= base + m
  BY <1>2
<1>6. PICK got : got = Unwrap(raw, zero, cp)
  OBVIOUS
<1>7. /\ got \in Nat
      /\ got = c1 \/ got = c1 - m \/ got = c1 + m
      /\ Distance(got, cp) <= Distance(c1, cp)
      /\ c1 >= m => Distance(got, cp) <= Distance(c1 - m, cp)
      /\ Distance(got, cp) <= Distance(c1 + m, cp)
  <2>1. base = (cp \div RelSeqMax) * RelSeqMax /\ c1 = base + OffsetOf(raw, zero)
    BY <1>1, <1>2, <1>3, <1>4, <1>5, Zenon
  <2>2. cp < base + RelSeqMax /\ c1 <= base + RelSeqMax
    BY <1>1, <1>4, <1>5
  <2> QED BY <1>1, <1>4, <1>5, <1>6, <2>1, <2>2, UnwrapChooses
<1>8. /\ c1 = c * m + off
      /\ c1 - m = (c - 1) * m + off
      /\ c1 + m = (c + 1) * m + off
  BY <1>1, <1>4, <1>5, Multiples
<1>9. WrapSeq(got, zero) = raw
  <2>1. PICK j \in Int : got = j * m + off
    <3>1. c \in Int /\ c - 1 \in Int /\ c + 1 \in Int
      OBVIOUS
    <3> QED BY <1>7, <1>8, <3>1, Zenon
  <2>2. got = j * RelSeqMax + OffsetOf(raw, zero)
    BY <1>1, <1>2, <2>1, Zenon
  <2> QED BY <1>7, <2>2, StandsFor
<1>10. ASSUME NEW n \in Nat, WrapSeq(n, zero) = raw
       PROVE  Distance(got, cp) <= Distance(n, cp)
  <2>1. PICK j \in Int : n = j * m + off
    <3>1. \E j \in Int : n = j * RelSeqMax + OffsetOf(raw, zero)
      BY <1>10, OffsetOfWrapped
    <3> QED BY <1>1, <1>2, <3>1, Zenon
  <2>2. PICK jm \in Int : jm = j * m /\ n = jm + off
    BY <1>1, <2>1, Multiples
  <2>3. j >= c + 2 => jm >= base + 2 * m
    BY <1>1, <1>4, <2>2, Multiples
  <2>4. j <= c - 2 => jm <= base - 2 * m
    BY <1>1, <1>4, <2>2, Multiples
  <2>5. /\ j = c => n = c1
        /\ j = c - 1 => n = c1 - m
        /\ j = c + 1 => n = c1 + m
    BY <1>8, <2>1
  <2>6. PICK d \in Nat : /\ d = Distance(got, cp) /\ d <= Distance(c1, cp)
                         /\ c1 >= m => d <= Distance(c1 - m, cp)
                         /\ d <= Distance(c1 + m, cp)
    <3>1. Distance(got, cp) \in Nat
      BY <1>7 DEF Distance
    <3> QED BY <1>7, <3>1, Zenon
  <2>7. CASE j = c \/ j = c - 1 \/ j = c + 1
    <3>1. j = c - 1 => c1 >= m
      BY <1>1, <2>5
    <3>2. d <= Distance(n, cp)
      BY <2>5, <2>6, <2>7, <3>1, Zenon
    <3> QED BY <2>6, <3>2, Zenon
  <2>8. CASE j >= c + 2
    <3>1. Distance(c1 + m, cp) <= Distance(n, cp)
      BY <1>1, <1>4, <1>5, <2>2, <2>3, <2>8 DEF Distance
    <3>2. d <= Distance(c1 + m, cp) /\ Distance(c1 + m, cp) \in Nat /\ Distance(n, cp) \in Nat
      BY <1>1, <2>6 DEF Distance
    <3>3. d <= Distance(n, cp)
      BY <3>1, <3>2
    <3> QED BY <2>6, <3>3, Zenon
  <2>9. CASE j <= c - 2
    <3>1. c1 >= m /\ Distance(c1 - m, cp) <= Distance(n, cp)
      BY <1>1, <1>4, <1>5, <2>2, <2>4, <2>9 DEF Distance
    <3>2. d <= Distance(c1 - m, cp) /\ Distance(c1 - m, cp) \in Nat /\ Distance(n, cp) \in Nat
      BY <1>1, <2>6, <3>1 DEF Distance
    <3>3. d <= Distance(n, cp)
      BY <3>1, <3>2
    <3> QED BY <2>6, <3>3, Zenon
  <2> QED BY <2>7, <2>8, <2>9
<1> QED BY <1>6, <1>7, <1>9, <1>10, Zenon

\* Adding to a raw number is adding to the absolute number it stands for.
LEMMA PlusWrapped ==
  ASSUME NEW a \in Nat, NEW b \in Nat, NEW zero \in Seqnos
  PROVE  /\ WrapSeq(a, zero) \in Seqnos
         /\ Plus(WrapSeq(a, zero), b) = WrapSeq(a + b, zero)
<1>1. PICK m \in Nat : m = RelSeqMax /\ m > 1
  BY RelSeqMaxAssumption
<1>2. \A x \in Nat : /\ x \div m \in Nat /\ x % m \in 0 .. m - 1
                     /\ x = (x \div m) * m + (x % m)
  BY <1>1, DivMod
<1>3. PICK z \in Nat : z = zero /\ z \in 0 .. m - 1
  BY <1>1 DEF Seqnos
<1>4. PICK q \in Nat, r \in 0 .. m - 1 : r = a % m /\ a = q * m + r
  BY <1>2, Zenon
<1>5. PICK p \in Nat, w \in 0 .. m - 1 : w = (z + r) % m /\ z + r = p * m + w
  <2>1. z + r \in Nat
    OBVIOUS
  <2> QED BY <1>2, <2>1, Zenon
<1>6. PICK t \in Nat, u \in 0 .. m - 1 : u = (w + b) % m /\ w + b = t * m + u
  <2>1. w + b \in Nat
    OBVIOUS
  <2> QED BY <1>2, <2>1, Zenon
<1>7. PICK s \in Nat, v \in 0 .. m - 1 : v = (a + b) % m /\ a + b = s * m + v
  <2>1. a + b \in Nat
    OBVIOUS
  <2> QED BY <1>2, <2>1, Zenon
<1>8. PICK j \in Int : j = q + p + t - s
  OBVIOUS
<1>9. j * m = q * m + p * m + t * m - s * m
  BY <1>8
<1>10. z + v = j * m + u
  <2>1. PICK qm \in Int, pm \in Int, tm \in Int, sm \in Int :
          qm = q * m /\ pm = p * m /\ tm = t * m /\ sm = s * m
    OBVIOUS
  <2>2. a = qm + r /\ z + r = pm + w /\ w + b = tm + u /\ a + b = sm + v
    BY <1>4, <1>5, <1>6, <1>7, <2>1, Zenon
  <2>3. j * m = qm + pm + tm - sm
    BY <1>9, <2>1, Zenon
  <2>4. z + v = (qm + pm + tm - sm) + u
    BY <2>2
  <2> QED BY <2>3, <2>4, Zenon
<1>11. (z + v) % m = u
  <2>1. j * m + u \in Nat
    <3>1. z + v \in Nat
      OBVIOUS
    <3> QED BY <1>10, <3>1, Zenon
  <2> QED BY <1>1, <1>10, <2>1, ModUnique
<1>12. w \in Seqnos
  BY <1>1, Zenon DEF Seqnos
<1> QED BY <1>1, <1>3, <1>4, <1>5, <1>6, <1>7, <1>11, <1>12, Zenon DEF WrapSeq, Plus

\* The isn stands for 0, and for no other number below the size of the sequence space.
LEMMA WrapIsn ==
  ASSUME NEW zero \in Seqnos, NEW a \in Nat, a < RelSeqMax
  PROVE  WrapSeq(0, zero) = zero /\ (WrapSeq(a, zero) = zero => a = 0)
<1>1. PICK m \in Nat : m = RelSeqMax /\ m > 1
  BY RelSeqMaxAssumption
<1>2. PICK z \in 0 .. m - 1 : z = zero
  BY <1>1 DEF Seqnos
<1>3. a % m = a /\ 0 % m = 0
  <2>1. a \in 0 .. 2 * m - 1 /\ a < m /\ 0 \in 0 .. 2 * m - 1 /\ 0 < m
    BY <1>1
  <2> QED BY <1>1, <2>1, ModOnce
<1>4. /\ (z + a) % m = IF z + a < m THEN z + a ELSE (z + a) - m
      /\ (z + 0) % m = IF z + 0 < m THEN z + 0 ELSE (z + 0) - m
  <2>1. z + a \in 0 .. 2 * m - 1 /\ z + 0 \in 0 .. 2 * m - 1
    BY <1>1
  <2> QED BY <1>1, <2>1, ModOnce
<1>5. (z + 0) % m = z /\ ((z + a) % m = z => a = 0)
  BY <1>1, <1>4
<1> QED BY <1>1, <1>2, <1>3, <1>5, Zenon DEF WrapSeq, Plus

-----------------------------------------------------------------------------
(* The methods of a Reassembler.                                           *)

\* replace() within a string keeps its length and changes the run it names.
LEMMA OverwriteWithin ==
  ASSUME NEW S, NEW s \in Seq(S), NEW str \in Seq(S),
         NEW pos \in Nat, pos + Len(str) <= Len(s)
  PROVE  LET t == Overwrite(s, pos, str)
         IN  /\ t \in Seq(S) /\ Len(t) = Len(s)
             /\ \A i \in 1 .. Len(s) :
                  t[i] = IF i <= pos \/ pos + Len(str) < i THEN s[i] ELSE str[i - pos]
<1>1. PICK n \in Nat, m \in Nat : n = Len(str) /\ m = Len(s) /\ pos + n <= m
  OBVIOUS
<1>2. PICK a : a = SubSeq(s, 1, pos)
  OBVIOUS
<1>3. a \in Seq(S) /\ Len(a) = pos /\ \A i \in 1 .. pos : a[i] = s[i]
  BY <1>1, <1>2
<1>4. PICK c : c = SubSeq(s, pos + n + 1, m)
  OBVIOUS
<1>5. /\ c \in Seq(S) /\ Len(c) = m - (pos + n)
      /\ \A i \in 1 .. m - (pos + n) : c[i] = s[pos + n + i]
  <2>1. pos + n + 1 \in 1 .. m + 1 /\ m \in pos + n .. m
    BY <1>1
  <2> QED BY <1>1, <1>4, <2>1, SubSeqProperties, SMTT(30)
<1>6. PICK h : h = a \o str
  OBVIOUS
<1>7. /\ h \in Seq(S) /\ Len(h) = pos + n
      /\ \A i \in 1 .. pos + n : h[i] = IF i <= pos THEN a[i] ELSE str[i - pos]
  BY <1>1, <1>3, <1>6, ConcatProperties
<1>8. PICK t : t = h \o c
  OBVIOUS
<1>9. pos + n + (m - (pos + n)) = m
  BY <1>1
<1>10. /\ t \in Seq(S) /\ Len(t) = m
       /\ \A i \in 1 .. m : t[i] = IF i <= pos + n THEN h[i] ELSE c[i - (pos + n)]
  BY <1>5, <1>7, <1>8, <1>9, ConcatProperties
<1>11. t = Overwrite(s, pos, str)
  BY <1>1, <1>2, <1>4, <1>6, <1>8, Zenon DEF Overwrite
<1>12. ASSUME NEW i \in 1 .. m
       PROVE  t[i] = IF i <= pos \/ pos + n < i THEN s[i] ELSE str[i - pos]
  <2>1. CASE i <= pos
    <3>1. i <= pos + n /\ i \in 1 .. pos + n /\ i \in 1 .. pos
      BY <1>1, <2>1
    <3> QED BY <1>3, <1>7, <1>10, <2>1, <3>1, Zenon
  <2>2. CASE pos < i /\ i <= pos + n
    <3>1. i \in 1 .. pos + n /\ ~(i <= pos) /\ ~(pos + n < i)
      BY <1>1, <2>2
    <3> QED BY <1>7, <1>10, <2>2, <3>1, Zenon
  <2>3. CASE pos + n < i
    <3>1. i - (pos + n) \in 1 .. m - (pos + n) /\ pos + n + (i - (pos + n)) = i /\ ~(i <= pos + n)
      BY <1>1, <2>3
    <3>2. c[i - (pos + n)] = s[i]
      BY <1>5, <3>1, Zenon
    <3> QED BY <1>10, <2>3, <3>1, <3>2, Zenon
  <2> QED BY <1>1, <2>1, <2>2, <2>3
<1> QED BY <1>1, <1>10, <1>11, <1>12, Zenon

\* The slots that hold a byte, as the bitmap marks them.
Bits(b) == {i \in 1 .. Len(b) : b[i]}

\* Writing a run of '1' adds its slots, writing a run of '0' removes them.
LEMMA BitsSet ==
  ASSUME NEW b \in Seq(BOOLEAN), NEW pos \in Nat, NEW n \in Nat, pos + n <= Len(b)
  PROVE  LET t == Overwrite(b, pos, Ones(n))
         IN  /\ t \in Seq(BOOLEAN) /\ Len(t) = Len(b)
             /\ Bits(t) = Bits(b) \cup (pos + 1 .. pos + n)
<1>1. Ones(n) \in Seq(BOOLEAN) /\ Len(Ones(n)) = n /\ \A i \in 1 .. n : Ones(n)[i] = TRUE
  BY DEF Ones
<1>2. PICK t : t = Overwrite(b, pos, Ones(n))
  OBVIOUS
<1>3. PICK m \in Nat : m = Len(b)
  OBVIOUS
<1>4. /\ t \in Seq(BOOLEAN) /\ Len(t) = m
      /\ \A i \in 1 .. m :
           t[i] = IF i <= pos \/ pos + n < i THEN b[i] ELSE Ones(n)[i - pos]
  BY <1>1, <1>2, <1>3, OverwriteWithin
<1>5. ASSUME NEW i \in 1 .. m
      PROVE  t[i] = IF i <= pos \/ pos + n < i THEN b[i] ELSE TRUE
  <2>1. CASE i <= pos \/ pos + n < i
    BY <1>4, <2>1, Zenon
  <2>2. CASE ~(i <= pos \/ pos + n < i)
    <3>1. i - pos \in 1 .. n
      BY <1>3, <2>2
    <3> QED BY <1>1, <1>4, <2>2, <3>1, Zenon
  <2> QED BY <2>1, <2>2
<1>6. ASSUME NEW i \in 1 .. m
      PROVE  i <= pos \/ pos + n < i <=> i \notin pos + 1 .. pos + n
  BY <1>6
<1>7. pos + 1 .. pos + n \subseteq 1 .. m
  BY <1>3
<1>8. Bits(t) = Bits(b) \cup (pos + 1 .. pos + n)
  BY <1>3, <1>4, <1>5, <1>6, <1>7, Zenon DEF Bits
<1> QED BY <1>2, <1>3, <1>4, <1>8, Zenon

LEMMA BitsCleared ==
  ASSUME NEW b \in Seq(BOOLEAN), NEW pos \in Nat, NEW n \in Nat, pos + n <= Len(b)
  PROVE  LET t == Overwrite(b, pos, Zeros(n))
         IN  /\ t \in Seq(BOOLEAN) /\ Len(t) = Len(b)
             /\ Bits(t) = Bits(b) \ (pos + 1 .. pos + n)
<1>1. Zeros(n) \in Seq(BOOLEAN) /\ Len(Zeros(n)) = n /\ \A i \in 1 .. n : Zeros(n)[i] = FALSE
  BY DEF Zeros
<1>2. PICK t : t = Overwrite(b, pos, Zeros(n))
  OBVIOUS
<1>3. PICK m \in Nat : m = Len(b)
  OBVIOUS
<1>4. /\ t \in Seq(BOOLEAN) /\ Len(t) = m
      /\ \A i \in 1 .. m :
           t[i] = IF i <= pos \/ pos + n < i THEN b[i] ELSE Zeros(n)[i - pos]
  BY <1>1, <1>2, <1>3, OverwriteWithin
<1>5. ASSUME NEW i \in 1 .. m
      PROVE  t[i] = IF i <= pos \/ pos + n < i THEN b[i] ELSE FALSE
  <2>1. CASE i <= pos \/ pos + n < i
    BY <1>4, <2>1, Zenon
  <2>2. CASE ~(i <= pos \/ pos + n < i)
    <3>1. i - pos \in 1 .. n
      BY <1>3, <2>2
    <3> QED BY <1>1, <1>4, <2>2, <3>1, Zenon
  <2> QED BY <2>1, <2>2
<1>6. ASSUME NEW i \in 1 .. m
      PROVE  i <= pos \/ pos + n < i <=> i \notin pos + 1 .. pos + n
  BY <1>6
<1>8. Bits(t) = Bits(b) \ (pos + 1 .. pos + n)
  BY <1>3, <1>4, <1>5, <1>6, Zenon DEF Bits
<1> QED BY <1>2, <1>3, <1>4, <1>8, Zenon

\* The run of '1' at a slot is as long as it can be, and there is one to choose.
LEMMA RunLengthIs ==
  ASSUME NEW b \in Seq(BOOLEAN), NEW from \in 0 .. Len(b)
  PROVE  LET n == RunLength(b, from)
         IN  /\ n \in 0 .. Len(b) - from
             /\ from + 1 .. from + n \subseteq Bits(b)
             /\ from + n + 1 \notin Bits(b)
<1>1. PICK m \in Nat : m = Len(b) /\ from \in 0 .. m /\ m - from \in Nat
  OBVIOUS
<1> DEFINE Ends == {k \in 0 .. m - from : from + k + 1 \notin Bits(b)}
<1>2. m - from \in Ends
  <2>1. from + (m - from) + 1 \notin 1 .. m /\ m - from \in 0 .. m - from
    BY <1>1
  <2> QED BY <1>1, <2>1, Zenon DEF Bits
<1>3. Ends \subseteq Nat
  BY <1>1
<1>4. PICK x \in Ends : \A y \in Ends : x <= y
  <2> HIDE DEF Ends
  <2> QED BY <1>2, <1>3, LeastElement
<1>5. x \in 0 .. m - from /\ from + x + 1 \notin Bits(b)
  OBVIOUS
<1>6. ASSUME NEW i \in 1 .. x
      PROVE  from + i \in 1 .. m /\ from + i \in Bits(b)
  <2>1. i - 1 \in 0 .. m - from /\ ~(x <= i - 1) /\ from + (i - 1) + 1 = from + i /\ from + i \in 1 .. m
    BY <1>1, <1>5
  <2>2. i - 1 \notin Ends
    <3> HIDE DEF Ends
    <3> QED BY <1>4, <2>1
  <2> QED BY <2>1, <2>2
<1> DEFINE Is(n) == /\ \A i \in 1 .. n : b[from + i]
                    /\ from + n < m => ~b[from + n + 1]
<1>7. Is(x)
  <2>1. \A i \in 1 .. x : b[from + i]
    BY <1>6, Zenon DEF Bits
  <2>2. ASSUME from + x < m PROVE ~b[from + x + 1]
    <3>1. from + x + 1 \in 1 .. m
      BY <1>1, <1>5, <2>2
    <3> QED BY <1>1, <1>5, <3>1, Zenon DEF Bits
  <2> QED BY <2>1, <2>2, Zenon
<1>8. PICK n \in 0 .. m - from : n = RunLength(b, from) /\ Is(n)
  <2>1. RunLength(b, from) = CHOOSE n \in 0 .. m - from : Is(n)
    BY <1>1, Zenon DEF RunLength
  <2> HIDE DEF Is
  <2> QED BY <1>5, <1>7, <2>1, Zenon
<1>9. ASSUME NEW j \in from + 1 .. from + n
      PROVE  j \in Bits(b)
  <2>1. j - from \in 1 .. n /\ from + (j - from) = j /\ j \in 1 .. m
    BY <1>1
  <2> QED BY <1>1, <1>8, <2>1, Zenon DEF Bits
<1>10. from + n + 1 \notin Bits(b)
  <2>1. CASE from + n < m
    BY <1>8, <2>1, Zenon DEF Bits
  <2>2. CASE ~(from + n < m)
    <3>1. from + n + 1 \notin 1 .. m
      BY <1>1, <2>2
    <3> QED BY <1>1, <3>1, Zenon DEF Bits
  <2> QED BY <2>1, <2>2
<1> QED BY <1>1, <1>8, <1>9, <1>10, Zenon

-----------------------------------------------------------------------------
\* The members of the output, and what the stream in it amounts to.
Pipes == [ cap : Nat, buf : Seq(Nat), pushed : Nat, popped : Nat,
           closed : BOOLEAN, error : BOOLEAN ]

Intact(p) == /\ p \in Pipes
             /\ p.popped <= p.pushed /\ p.pushed - p.popped <= p.cap
             /\ p.buf = Bytes(p.popped, p.pushed - p.popped)

\* The next n bytes go to the back of the pipe when there is room for them.
LEMMA PutRun ==
  ASSUME NEW p, Intact(p), NEW n \in Nat, n <= Room(p), n = 0 \/ ~p.closed,
         NEW q, q = Put(p, Bytes(p.pushed, n))
  PROVE  /\ Intact(q) /\ q.pushed = p.pushed + n /\ q.popped = p.popped
         /\ q.cap = p.cap /\ q.closed = p.closed /\ q.error = p.error
<1>1. PICK cap \in Nat, pushed \in Nat, popped \in Nat :
        /\ cap = p.cap /\ pushed = p.pushed /\ popped = p.popped
        /\ popped <= pushed /\ pushed - popped <= cap
  BY DEF Intact, Pipes
<1>2. PICK held \in Nat : held = pushed - popped /\ popped + held = pushed /\ held <= cap /\ popped <= pushed
  BY <1>1
<1>3. p.buf = Bytes(popped, held) /\ Len(p.buf) = held
  <2>1. p.buf = Bytes(popped, held)
    BY <1>1, <1>2, Zenon DEF Intact
  <2> QED BY <2>1, BytesRun
<1>4. Room(p) = cap - held /\ n <= cap - held
  BY <1>1, <1>3, Zenon DEF Room
<1>5. CASE p.closed
  <2>1. q = p /\ n = 0
    BY <1>5, Zenon DEF Put
  <2> QED BY <1>1, <2>1
<1>6. CASE ~p.closed
  <2>1. Substr(Bytes(pushed, n), 0, cap - held) = Bytes(pushed, n)
    <3>1. 0 \in 0 .. n /\ cap - held \in Nat /\ pushed + 0 = pushed /\ Least(cap - held, n - 0) = n
      BY <1>2, <1>4 DEF Least
    <3>2. Substr(Bytes(pushed, n), 0, cap - held) = Bytes(pushed + 0, Least(cap - held, n - 0))
      BY <3>1, BytesPart
    <3> QED BY <3>1, <3>2, Zenon
  <2>2. PICK data : data = Bytes(pushed, n) /\ data \in Seq(Nat) /\ Len(data) = n
    BY BytesRun
  <2>3. PICK b \in Seq(Nat), k \in Nat : /\ b = Bytes(popped, held + n) /\ k = pushed + n
    BY BytesRun
  <2>4. p.buf \o data = b
    <3>1. Bytes(popped, held) \o Bytes(popped + held, n) = Bytes(popped, held + n)
      BY BytesConcat
    <3> QED BY <1>2, <1>3, <2>2, <2>3, <3>1, Zenon
  <2>5. p \in Pipes
    BY Zenon DEF Intact
  <2>6. q = [p EXCEPT !.buf = b, !.pushed = k]
    <3>1. q = [p EXCEPT !.buf = @ \o data, !.pushed = @ + n]
      BY <1>1, <1>4, <1>6, <2>1, <2>2, Zenon DEF Put
    <3> QED BY <1>1, <2>3, <2>4, <3>1, Zenon
  <2>7. /\ q.buf = b /\ q.pushed = k /\ q.popped = popped
        /\ q.cap = cap /\ q.closed = p.closed /\ q.error = p.error /\ q \in Pipes
    BY <1>1, <2>5, <2>6 DEF Pipes
  <2>8. held + n = (pushed + n) - popped /\ popped <= pushed + n /\ (pushed + n) - popped <= cap
    <3>1. n <= cap - held
      BY <1>4, Zenon
    <3> QED BY <1>2, <3>1
  <2> QED BY <1>1, <2>3, <2>7, <2>8, Zenon DEF Intact
<1> QED BY <1>5, <1>6

-----------------------------------------------------------------------------
Reassemblers ==
  [ output_ : Pipes, cur_index : Nat, total_len : Nat, seen_last : BOOLEAN,
    storage : Seq(Int), storage_bitmap : Seq(BOOLEAN),
    fault : {"none", "out_of_range", "undefined"} ]

\* The indices of the bytes that wait in storage.
Pending(r) == {r.storage[i] : i \in Bits(r.storage_bitmap)}

\* What every method of a Reassembler of a stream of n bytes leaves true of the members:
\* the output holds the bytes written, cur_index counts them, a '1' marks a slot that
\* holds its own byte.
Consistent(r, n) ==
  /\ r \in Reassemblers /\ r.fault = "none"
  /\ Intact(r.output_) /\ StorageCapacity(r) > 0
  /\ r.cur_index = BytesPushed(r) /\ BytesPushed(r) <= n
  /\ Len(r.storage) = StorageCapacity(r) /\ Len(r.storage_bitmap) = StorageCapacity(r)
  /\ \A i \in Bits(r.storage_bitmap) : r.storage[i] = i - 1 /\ i <= n
  /\ r.output_.closed => BytesPushed(r) = n

\* Within insert(), before storage is drained: bytes past the first lap never wait.
FirstLap(r) == BytesPushed(r) <= StorageCapacity(r) \/ Bits(r.storage_bitmap) = {}

\* Between calls a waiting byte is one that has not been written.
AllAhead(r) == \A i \in Bits(r.storage_bitmap) : BytesPushed(r) < i - 1

LEMMA ConsistentFields ==
  ASSUME NEW r, NEW n \in Nat, Consistent(r, n)
  PROVE  /\ r.output_ \in Pipes /\ r.cur_index \in Nat /\ r.total_len \in Nat
         /\ r.seen_last \in BOOLEAN /\ r.storage \in Seq(Int)
         /\ r.storage_bitmap \in Seq(BOOLEAN)
         /\ StorageCapacity(r) \in Nat /\ BytesPushed(r) \in Nat
         /\ r.output_.popped \in Nat /\ r.output_.closed \in BOOLEAN
<1>1. r \in Reassemblers
  BY Zenon DEF Consistent
<1>2. /\ r.output_ \in Pipes /\ r.cur_index \in Nat /\ r.total_len \in Nat
      /\ r.seen_last \in BOOLEAN /\ r.storage \in Seq(Int)
      /\ r.storage_bitmap \in Seq(BOOLEAN)
  BY <1>1 DEF Reassemblers
<1> QED BY <1>2 DEF Pipes, StorageCapacity, BytesPushed

LEMMA PendingSet ==
  ASSUME NEW r, NEW n \in Nat, Consistent(r, n)
  PROVE  \A k \in Int : k \in Pending(r) <=> k + 1 \in Bits(r.storage_bitmap)
<1>1. PICK b : b = Bits(r.storage_bitmap) /\ b \subseteq Int
  <2>1. Bits(r.storage_bitmap) \subseteq 1 .. Len(r.storage_bitmap)
    BY Zenon DEF Bits
  <2>2. \A m : 1 .. m \subseteq Int
    OBVIOUS
  <2> QED BY <2>1, <2>2, Zenon
<1>2. \A i \in b : r.storage[i] = i - 1
  BY <1>1, Zenon DEF Consistent
<1>3. Pending(r) = {i - 1 : i \in b}
  BY <1>1, <1>2, Zenon DEF Pending
<1> QED BY <1>1, <1>3

\* The room in the output, in numbers.
LEMMA RoomIs ==
  ASSUME NEW p, Intact(p)
  PROVE  Room(p) = p.cap - (p.pushed - p.popped) /\ Room(p) \in Nat
<1>1. PICK cap \in Nat, pushed \in Nat, popped \in Nat :
        /\ cap = p.cap /\ pushed = p.pushed /\ popped = p.popped
        /\ popped <= pushed /\ pushed - popped <= cap
  BY DEF Intact, Pipes
<1>2. pushed - popped \in Nat /\ cap - (pushed - popped) \in Nat
  BY <1>1
<1>3. p.buf = Bytes(popped, pushed - popped)
  BY <1>1, Zenon DEF Intact
<1>4. Len(p.buf) = pushed - popped
  BY <1>2, <1>3, BytesRun
<1> QED BY <1>1, <1>2, <1>4, Zenon DEF Room

\* Bytes that continue the stream: as many are written as there is room for, and
\* nothing else changes.
LEMMA DeliverIs ==
  ASSUME NEW r, NEW n \in Nat, Consistent(r, n),
         NEW len \in Nat, BytesPushed(r) + len <= n,
         NEW d, d = Deliver(r, Bytes(BytesPushed(r), len))
  PROVE  \E k \in Nat :
           /\ k = Least(Room(r.output_), len) /\ (k = 0 \/ ~r.output_.closed)
           /\ d.output_ = Put(r.output_, Bytes(BytesPushed(r), k))
           /\ BytesPushed(d) = BytesPushed(r) + k /\ StorageCapacity(d) = StorageCapacity(r)
           /\ d.output_.popped = r.output_.popped /\ d.output_.closed = r.output_.closed
           /\ Consistent(d, n)
           /\ d.storage = r.storage /\ d.storage_bitmap = r.storage_bitmap
           /\ d.seen_last = r.seen_last /\ d.total_len = r.total_len
<1>1. PICK pushed \in Nat, room \in Nat : pushed = BytesPushed(r) /\ room = Room(r.output_)
  BY ConsistentFields, RoomIs, Zenon DEF Consistent
<1>2. PICK k \in Nat : k = Least(room, len) /\ k <= room /\ k <= len
  BY LeastBounds
<1>3. pushed <= n /\ pushed + len <= n
  BY <1>1, Zenon DEF Consistent
<1>4. k = 0 \/ ~r.output_.closed
  <2>1. ASSUME r.output_.closed PROVE k = 0
    <3>1. pushed = n
      BY <1>1, <2>1, Zenon DEF Consistent
    <3> QED BY <1>2, <1>3, <3>1
  <2> QED BY <2>1, Zenon
<1>5. PICK temp_str : temp_str = Bytes(pushed, k) /\ temp_str \in Seq(Nat) /\ Len(temp_str) = k
  BY BytesRun
<1>6. Substr(Bytes(pushed, len), 0, room) = temp_str
  <2>1. 0 \in 0 .. len /\ pushed + 0 = pushed /\ len - 0 = len
    BY <1>2
  <2>2. Substr(Bytes(pushed, len), 0, room) = Bytes(pushed + 0, Least(room, len - 0))
    BY <2>1, BytesPart
  <2> QED BY <1>2, <1>5, <2>1, <2>2, Zenon
<1>7. PICK q : q = Put(r.output_, temp_str)
  OBVIOUS
<1> PICK i \in Nat : i = pushed + k
  OBVIOUS
<1>8. /\ Intact(q) /\ q.pushed = pushed + k /\ q.popped = r.output_.popped
      /\ q.cap = r.output_.cap /\ q.closed = r.output_.closed
  <2>1. Intact(r.output_) /\ r.output_.pushed = pushed
    BY <1>1, Zenon DEF Consistent, BytesPushed
  <2>2. k <= Room(r.output_) /\ q = Put(r.output_, Bytes(r.output_.pushed, k))
    BY <1>1, <1>2, <1>5, <1>7, <2>1, Zenon
  <2>3. /\ Intact(q) /\ q.pushed = r.output_.pushed + k /\ q.popped = r.output_.popped
        /\ q.cap = r.output_.cap /\ q.closed = r.output_.closed
    BY <1>4, <2>1, <2>2, PutRun
  <2> QED BY <2>1, <2>3, Zenon
<1>9. d = [r EXCEPT !.output_ = q, !.cur_index = i]
  <2>1. r.cur_index = pushed
    BY <1>1, Zenon DEF Consistent
  <2>2. d = [r EXCEPT !.output_ = Put(@, temp_str), !.cur_index = @ + Len(temp_str)]
    BY <1>1, <1>6, Zenon DEF Deliver
  <2> QED BY <1>5, <1>7, <2>1, <2>2, Zenon
<1>10. /\ d.output_ = q /\ d.cur_index = i /\ d.storage = r.storage
       /\ d.storage_bitmap = r.storage_bitmap /\ d.seen_last = r.seen_last
       /\ d.total_len = r.total_len /\ d.fault = r.fault /\ d \in Reassemblers
  <2>1. r \in Reassemblers /\ q \in Pipes
    BY <1>8, Zenon DEF Consistent, Intact
  <2> QED BY <1>9, <2>1 DEF Reassemblers
<1>11. BytesPushed(d) = pushed + k /\ StorageCapacity(d) = StorageCapacity(r)
  BY <1>8, <1>10, Zenon DEF BytesPushed, StorageCapacity
<1>12. pushed + k <= n /\ (k = 0 => pushed + k = pushed)
  BY <1>2, <1>3
<1>13. Consistent(d, n)
  BY <1>1, <1>4, <1>7, <1>8, <1>10, <1>11, <1>12, Zenon DEF Consistent
<1> QED BY <1>1, <1>2, <1>4, <1>5, <1>7, <1>8, <1>10, <1>11, <1>13, Zenon

\* In the first lap of storage bytes past a gap are kept, each in the slot of its index.
LEMMA StoreIs ==
  ASSUME NEW r, NEW n \in Nat, Consistent(r, n), WordMod \in Nat, StorageCapacity(r) < WordMod,
         NEW first \in Nat, NEW len \in Nat, BytesPushed(r) < first,
         first + len <= StorageCapacity(r), first + len <= n,
         NEW s, s = Store(r, first, Bytes(first, len))
  PROVE  /\ Consistent(s, n) /\ s.output_ = r.output_
         /\ s.seen_last = r.seen_last /\ s.total_len = r.total_len
         /\ Bits(s.storage_bitmap) = Bits(r.storage_bitmap) \cup (first + 1 .. first + len)
<1>1. PICK cap \in Nat, top \in Nat : cap = StorageCapacity(r) /\ top = WordMod
  BY ConsistentFields
<1>2. first + len <= cap /\ cap < top /\ first + len <= n
  BY <1>1, Zenon
<1>3. BytesPushed(r) < StorageCapacity(r)
  <2>1. PICK pushed \in Nat : pushed = BytesPushed(r) /\ pushed < first
    BY ConsistentFields
  <2>2. pushed < cap
    BY <1>2, <2>1
  <2> QED BY <1>1, <2>1, <2>2, Zenon
<1>4. Slot(r, first) = first
  BY <1>3, Zenon DEF Slot
<1>5. PICK cur_str : cur_str = Bytes(first, len) /\ cur_str \in Seq(Nat) /\ Len(cur_str) = len
                     /\ \A i \in 1 .. len : cur_str[i] = first + i - 1
  BY BytesRun
<1>6. Kept(r, first, Bytes(first, len)) = cur_str
  <2>1. U64(LastIndex(r) - first + 1) = cap - first
    <3>1. (cap - 1 - first + 1) % top = cap - first
      BY <1>2
    <3> QED BY <1>1, <3>1, Zenon DEF U64, LastIndex
  <2>2. /\ 0 \in 0 .. len /\ first + 0 = first /\ len - 0 = len
        /\ cap - first \in Nat /\ Least(cap - first, len) = len
    BY <1>2 DEF Least
  <2>3. Substr(Bytes(first, len), 0, cap - first) = Bytes(first + 0, Least(cap - first, len - 0))
    BY <2>2, BytesPart
  <2> QED BY <1>3, <1>4, <1>5, <2>1, <2>2, <2>3, Zenon DEF Kept
<1>7. Len(r.storage) = cap /\ Len(r.storage_bitmap) = cap /\ r.storage \in Seq(Int)
      /\ r.storage_bitmap \in Seq(BOOLEAN) /\ r \in Reassemblers
  BY <1>1, ConsistentFields, Zenon DEF Consistent
<1>8. PICK t : t = Overwrite(r.storage, first, cur_str)
  OBVIOUS
<1>9. PICK b : b = Overwrite(r.storage_bitmap, first, Ones(len))
  OBVIOUS
<1>10. /\ t \in Seq(Int) /\ Len(t) = cap
       /\ \A i \in 1 .. cap :
            t[i] = IF i <= first \/ first + len < i THEN r.storage[i] ELSE cur_str[i - first]
  <2>1. cur_str \in Seq(Int)
    BY <1>5
  <2>2. first + Len(cur_str) <= Len(r.storage)
    BY <1>2, <1>5, <1>7, Zenon
  <2>3. r.storage \in Seq(Int)
    BY <1>7, Zenon
  <2>4. LET x == Overwrite(r.storage, first, cur_str)
        IN  /\ x \in Seq(Int) /\ Len(x) = Len(r.storage)
            /\ \A i \in 1 .. Len(r.storage) :
                 x[i] = IF i <= first \/ first + Len(cur_str) < i THEN r.storage[i] ELSE cur_str[i - first]
    <3>1. PICK st : st = r.storage
      OBVIOUS
    <3>2. first + Len(cur_str) <= Len(st) /\ st \in Seq(Int)
      BY <2>2, <2>3, <3>1, Zenon
    <3>3. LET x == Overwrite(st, first, cur_str)
          IN  /\ x \in Seq(Int) /\ Len(x) = Len(st)
              /\ \A i \in 1 .. Len(st) :
                   x[i] = IF i <= first \/ first + Len(cur_str) < i THEN st[i] ELSE cur_str[i - first]
      BY <2>1, <3>2, OverwriteWithin
    <3> QED BY <3>1, <3>3, Zenon
  <2> QED BY <1>5, <1>7, <1>8, <2>4, Zenon
<1>11. /\ b \in Seq(BOOLEAN) /\ Len(b) = cap
       /\ Bits(b) = Bits(r.storage_bitmap) \cup (first + 1 .. first + len)
  <2>1. first + len <= Len(r.storage_bitmap)
    BY <1>2, <1>7, Zenon
  <2> QED BY <1>7, <1>9, <2>1, BitsSet
<1>12. s = [r EXCEPT !.storage = t, !.storage_bitmap = b]
  <2>1. ~(first > Len(r.storage))
    BY <1>2, <1>7
  <2> QED BY <1>4, <1>5, <1>6, <1>8, <1>9, <2>1, Zenon DEF Store
<1>13. /\ s.storage = t /\ s.storage_bitmap = b /\ s.output_ = r.output_
       /\ s.cur_index = r.cur_index /\ s.seen_last = r.seen_last
       /\ s.total_len = r.total_len /\ s.fault = r.fault /\ s \in Reassemblers
  BY <1>7, <1>10, <1>11, <1>12 DEF Reassemblers
<1>14. \A i \in Bits(b) : t[i] = i - 1 /\ i <= n
  <2> SUFFICES ASSUME NEW i \in Bits(b) PROVE t[i] = i - 1 /\ i <= n
    BY Zenon
  <2>1. i \in 1 .. cap
    BY <1>11, Zenon DEF Bits
  <2>2. CASE i \in first + 1 .. first + len
    <3>1. i - first \in 1 .. len /\ first + (i - first) - 1 = i - 1 /\ i <= n
          /\ ~(i <= first \/ first + len < i)
      BY <1>2, <2>2
    <3> QED BY <1>5, <1>10, <2>1, <3>1, Zenon
  <2>3. CASE i \notin first + 1 .. first + len
    <3>1. i <= first \/ first + len < i
      BY <2>1, <2>3
    <3>2. i \in Bits(r.storage_bitmap)
      BY <1>11, <2>3, Zenon
    <3>3. r.storage[i] = i - 1 /\ i <= n
      BY <3>2, Zenon DEF Consistent
    <3> QED BY <1>10, <2>1, <3>1, <3>3, Zenon
  <2> QED BY <2>2, <2>3
<1>15. BytesPushed(s) = BytesPushed(r) /\ StorageCapacity(s) = StorageCapacity(r)
  BY <1>13, Zenon DEF BytesPushed, StorageCapacity
<1>16. Consistent(s, n)
  BY <1>1, <1>10, <1>11, <1>13, <1>14, <1>15, Zenon DEF Consistent
<1> QED BY <1>11, <1>13, <1>16, Zenon

\* What is left of r when the k bytes that wait at cur_index are written, and their marks
\* and those of all bytes written before are cleared.
DrainsTo(r, d, n, k) ==
  /\ NewCurIndex(r) <= Len(r.storage_bitmap)
  /\ BytesPushed(r) + 1 .. BytesPushed(r) + k \subseteq Bits(r.storage_bitmap)
  /\ BytesPushed(r) + k + 1 \notin Bits(r.storage_bitmap)
  /\ k <= Room(r.output_) /\ (k = 0 \/ ~r.output_.closed)
  /\ d.output_ = Put(r.output_, Bytes(BytesPushed(r), k))
  /\ BytesPushed(d) = BytesPushed(r) + k /\ StorageCapacity(d) = StorageCapacity(r)
  /\ d.output_.popped = r.output_.popped /\ d.output_.closed = r.output_.closed
  /\ Consistent(d, n) /\ AllAhead(d)
  /\ Bits(d.storage_bitmap) = Bits(r.storage_bitmap) \ (1 .. BytesPushed(r) + k)
  /\ d.seen_last = r.seen_last /\ d.total_len = r.total_len

\* That is what draining storage does.
LEMMA DrainIs ==
  ASSUME NEW r, NEW n \in Nat, Consistent(r, n), FirstLap(r),
         NEW d, d = Drain(r)
  PROVE  \E k \in Nat : DrainsTo(r, d, n, k)
<1>1. PICK cap \in Nat, pushed \in Nat, from \in Nat :
        /\ cap = StorageCapacity(r) /\ pushed = BytesPushed(r) /\ from = NewCurIndex(r)
        /\ from <= cap
        /\ pushed <= cap => from = pushed
        /\ ~(pushed <= cap) => Bits(r.storage_bitmap) = {}
  <2>1. PICK cap \in Nat, pushed \in Nat :
          /\ cap = StorageCapacity(r) /\ pushed = BytesPushed(r) /\ cap > 0
          /\ pushed = r.cur_index
    BY ConsistentFields, Zenon DEF Consistent
  <2>2. NewCurIndex(r) = IF pushed > cap THEN pushed % cap ELSE pushed
    BY <2>1, Zenon DEF NewCurIndex
  <2>3. pushed % cap \in 0 .. cap - 1
    BY <2>1
  <2>4. /\ NewCurIndex(r) \in Nat /\ NewCurIndex(r) <= cap
        /\ pushed <= cap => NewCurIndex(r) = pushed
    BY <2>1, <2>2, <2>3
  <2>5. ~(pushed <= cap) => Bits(r.storage_bitmap) = {}
    BY <2>1, Zenon DEF FirstLap
  <2> QED BY <2>1, <2>4, <2>5, Zenon
<1>2. /\ Len(r.storage) = cap /\ Len(r.storage_bitmap) = cap /\ r.storage \in Seq(Int)
      /\ r.storage_bitmap \in Seq(BOOLEAN) /\ r \in Reassemblers /\ pushed <= n
      /\ Intact(r.output_) /\ r.output_.pushed = pushed
      /\ \A i \in Bits(r.storage_bitmap) : r.storage[i] = i - 1 /\ i <= n
  BY <1>1, ConsistentFields, Zenon DEF Consistent, BytesPushed
<1>3. PICK bits : bits = Bits(r.storage_bitmap) /\ bits \subseteq 1 .. cap
  BY <1>2, Zenon DEF Bits
<1>4. PICK k \in Nat : /\ k = RunLength(r.storage_bitmap, from)
                       /\ k \in 0 .. cap - from
                       /\ from + 1 .. from + k \subseteq bits
                       /\ from + k + 1 \notin bits
  <2>1. from \in 0 .. Len(r.storage_bitmap)
    BY <1>1, <1>2
  <2>2. LET x == RunLength(r.storage_bitmap, from)
        IN  /\ x \in 0 .. Len(r.storage_bitmap) - from
            /\ from + 1 .. from + x \subseteq Bits(r.storage_bitmap)
            /\ from + x + 1 \notin Bits(r.storage_bitmap)
    BY <1>2, <2>1, RunLengthIs
  <2>3. RunLength(r.storage_bitmap, from) \in 0 .. cap - from
    BY <1>2, <2>2, Zenon
  <2>4. RunLength(r.storage_bitmap, from) \in Nat
    BY <2>3
  <2> QED BY <1>2, <1>3, <2>2, <2>3, <2>4, Zenon
<1>5. /\ k \in Nat /\ from + k <= cap
      /\ k # 0 => from = pushed
      /\ pushed + 1 .. pushed + k \subseteq bits
      /\ pushed + k + 1 \notin bits
  <2>1. k \in Nat /\ from + k <= cap
    <3>1. k \in 0 .. cap - from
      BY <1>4, Zenon
    <3> QED BY <3>1
  <2>2. CASE pushed <= cap
    BY <1>1, <1>4, <2>1, <2>2, Zenon
  <2>3. CASE ~(pushed <= cap)
    <3>1. bits = {}
      BY <1>1, <1>3, <2>3, Zenon
    <3>2. k = 0
      <4>1. from + 1 .. from + k = {}
        BY <1>4, <3>1, Zenon
      <4>2. \A j \in Nat : j # 0 => from + 1 \in from + 1 .. from + j
        OBVIOUS
      <4> QED BY <4>1, <4>2, Zenon
    <3>3. pushed + 1 .. pushed + k = {}
      BY <3>2
    <3> QED BY <2>1, <3>1, <3>2, <3>3, Zenon
  <2> QED BY <2>2, <2>3
<1>6. PICK cur_str : cur_str = Bytes(pushed, k) /\ cur_str \in Seq(Nat) /\ Len(cur_str) = k
                     /\ \A i \in 1 .. k : cur_str[i] = pushed + i - 1
  BY BytesRun
<1>7. Substr(r.storage, from, k) = cur_str
  <2>1. PICK x : x = Substr(r.storage, from, k)
    OBVIOUS
  <2>2. from \in 0 .. cap /\ Least(k, cap - from) = k
    BY <1>1, <1>5 DEF Least
  <2>3. x \in Seq(Int) /\ Len(x) = k /\ \A i \in 1 .. k : x[i] = r.storage[from + i]
    <3>1. from \in 0 .. Len(r.storage) /\ Least(k, Len(r.storage) - from) = k
      BY <1>2, <2>2, Zenon
    <3>2. /\ x \in Seq(Int) /\ Len(x) = Least(k, Len(r.storage) - from)
          /\ \A i \in 1 .. Least(k, Len(r.storage) - from) : x[i] = r.storage[from + i]
      <4>1. /\ Substr(r.storage, from, k) \in Seq(Int)
            /\ Len(Substr(r.storage, from, k)) = Least(k, Len(r.storage) - from)
            /\ \A i \in 1 .. Least(k, Len(r.storage) - from) :
                 Substr(r.storage, from, k)[i] = r.storage[from + i]
        <5>1. r.storage \in Seq(Int)
          BY <1>2, Zenon
        <5> QED BY <3>1, <5>1, SubstrRun
      <4> QED BY <2>1, <4>1, Zenon
    <3> QED BY <3>1, <3>2, Zenon
  <2>4. ASSUME NEW i \in 1 .. k PROVE x[i] = cur_str[i]
    <3>1. k # 0 /\ from + i \in from + 1 .. from + k
      BY <2>4
    <3>2. from = pushed
      BY <1>5, <3>1, Zenon
    <3>3. from + i \in Bits(r.storage_bitmap)
      BY <1>3, <1>4, <3>1, Zenon
    <3>4. PICK j : j = from + i
      OBVIOUS
    <3>5. r.storage[j] = j - 1
      BY <3>3, <3>4, Zenon DEF Consistent
    <3>6. x[i] = j - 1
      BY <2>3, <3>4, <3>5, Zenon
    <3>7. cur_str[i] = pushed + i - 1
      BY <1>6, Zenon
    <3>8. j - 1 = pushed + i - 1
      BY <3>2, <3>4
    <3> QED BY <3>6, <3>7, <3>8, Zenon
  <2>5. cur_str \in Seq(Int)
    BY <1>6
  <2>6. x = cur_str
    BY <1>6, <2>3, <2>4, <2>5, SeqEqual
  <2> QED BY <2>1, <2>6
<1>8. k = 0 \/ ~r.output_.closed
  <2>1. ASSUME r.output_.closed, k # 0 PROVE FALSE
    <3>1. pushed = n
      BY <1>1, <2>1, Zenon DEF Consistent
    <3>2. pushed + 1 \in pushed + 1 .. pushed + k /\ ~(pushed + 1 <= pushed)
      BY <1>5, <2>1
    <3>3. pushed + 1 <= n
      BY <1>2, <1>3, <1>5, <3>2, Zenon
    <3> QED BY <3>1, <3>2, <3>3, Zenon
  <2> QED BY <2>1, Zenon
<1>9. k <= Room(r.output_)
  <2>1. PICK popped \in Nat, room \in Nat : /\ popped = r.output_.popped /\ room = Room(r.output_)
                                            /\ room = cap - (pushed - popped)
    BY <1>1, <1>2, RoomIs, ConsistentFields, Zenon DEF StorageCapacity
  <2>2. k <= room
    BY <1>5, <2>1
  <2> QED BY <2>1, <2>2, Zenon
<1>10. PICK q : q = Put(r.output_, cur_str)
  OBVIOUS
<1>11. /\ Intact(q) /\ q.pushed = pushed + k /\ q.popped = r.output_.popped
       /\ q.cap = r.output_.cap /\ q.closed = r.output_.closed
  <2>1. q = Put(r.output_, Bytes(r.output_.pushed, k))
    BY <1>2, <1>6, <1>10, Zenon
  <2>2. /\ Intact(q) /\ q.pushed = r.output_.pushed + k /\ q.popped = r.output_.popped
        /\ q.cap = r.output_.cap /\ q.closed = r.output_.closed
    BY <1>2, <1>5, <1>8, <1>9, <2>1, PutRun
  <2> QED BY <1>2, <2>2, Zenon
<1>12. PICK b : b = Overwrite(Overwrite(r.storage_bitmap, from, Zeros(k)), 0, Zeros(from))
  OBVIOUS
<1>13. b \in Seq(BOOLEAN) /\ Len(b) = cap /\ Bits(b) = bits \ (1 .. pushed + k)
  <2>1. PICK c : c = Overwrite(r.storage_bitmap, from, Zeros(k))
    OBVIOUS
  <2>2. c \in Seq(BOOLEAN) /\ Len(c) = cap /\ Bits(c) = bits \ (from + 1 .. from + k)
    <3>1. from + k <= Len(r.storage_bitmap)
      BY <1>2, <1>5, Zenon
    <3>2. c \in Seq(BOOLEAN) /\ Len(c) = Len(r.storage_bitmap)
          /\ Bits(c) = Bits(r.storage_bitmap) \ (from + 1 .. from + k)
      <4>1. r.storage_bitmap \in Seq(BOOLEAN)
        BY <1>2, Zenon
      <4> QED BY <2>1, <3>1, <4>1, BitsCleared
    <3> QED BY <1>2, <1>3, <3>2, Zenon
  <2>3. b \in Seq(BOOLEAN) /\ Len(b) = cap /\ Bits(b) = Bits(c) \ (0 + 1 .. 0 + from)
    <3>1. 0 + from <= Len(c) /\ 0 \in Nat
      BY <1>1, <2>2
    <3>2. b \in Seq(BOOLEAN) /\ Len(b) = Len(c) /\ Bits(b) = Bits(c) \ (0 + 1 .. 0 + from)
      BY <1>12, <2>1, <2>2, <3>1, BitsCleared, SMTT(30)
    <3> QED BY <2>2, <3>2, Zenon
  <2>4. Bits(b) = bits \ (1 .. pushed + k)
    <3>1. CASE pushed <= cap
      <4>1. from = pushed
        BY <1>1, <3>1
      <4>2. \A i \in 1 .. cap : i \in 1 .. pushed + k <=> i \in 0 + 1 .. 0 + pushed \/ i \in pushed + 1 .. pushed + k
        BY <1>5
      <4> QED BY <1>3, <2>2, <2>3, <4>1, <4>2, Zenon
    <3>2. CASE ~(pushed <= cap)
      <4>1. bits = {}
        BY <1>1, <1>3, <3>2, Zenon
      <4> QED BY <2>2, <2>3, <4>1, Zenon
    <3> QED BY <3>1, <3>2
  <2> QED BY <2>3, <2>4, Zenon
<1> PICK i \in Nat : i = pushed + k
  BY <1>5
<1>14. d = [r EXCEPT !.output_ = q, !.cur_index = i, !.storage_bitmap = b]
  <2>1. r.cur_index = pushed
    BY <1>1, Zenon DEF Consistent
  <2>2. d = [r EXCEPT !.output_ = Put(@, cur_str), !.cur_index = @ + Len(cur_str),
                      !.storage_bitmap = Overwrite(Overwrite(@, from, Zeros(k)), 0, Zeros(from))]
    BY <1>1, <1>4, <1>7, Zenon DEF Drain
  <2> QED BY <1>6, <1>10, <1>12, <2>1, <2>2, Zenon
<1>15. /\ d.output_ = q /\ d.cur_index = i /\ d.storage_bitmap = b /\ d.storage = r.storage
       /\ d.seen_last = r.seen_last /\ d.total_len = r.total_len /\ d.fault = r.fault
       /\ d \in Reassemblers
  <2>1. q \in Pipes
    BY <1>11, Zenon DEF Intact
  <2> QED BY <1>2, <1>13, <1>14, <2>1 DEF Reassemblers
<1>16. BytesPushed(d) = pushed + k /\ StorageCapacity(d) = StorageCapacity(r)
  BY <1>11, <1>15, Zenon DEF BytesPushed, StorageCapacity
<1>17. pushed + k <= n /\ (k = 0 => pushed + k = pushed)
  <2>1. CASE k = 0
    BY <1>2, <2>1
  <2>2. CASE k # 0
    <3>1. pushed + k \in pushed + 1 .. pushed + k
      BY <1>5, <2>2
    <3> QED BY <1>2, <1>3, <1>5, <2>2, <3>1, Zenon
  <2> QED BY <2>1, <2>2
<1>18. Consistent(d, n)
  BY <1>1, <1>2, <1>3, <1>8, <1>11, <1>13, <1>15, <1>16, <1>17, Zenon DEF Consistent
<1>19. AllAhead(d)
  <2>1. ASSUME NEW j \in bits \ (1 .. pushed + k) PROVE pushed + k < j - 1
    <3>1. j \in 1 .. cap /\ j # pushed + k + 1 /\ j \notin 1 .. pushed + k
      BY <1>3, <1>5, <2>1, Zenon
    <3> QED BY <1>5, <3>1
  <2> QED BY <1>13, <1>15, <1>16, <2>1, Zenon DEF AllAhead
<1> QED BY <1>1, <1>2, <1>3, <1>5, <1>6, <1>8, <1>9, <1>10, <1>11, <1>13, <1>15, <1>16, <1>18, <1>19,
           Zenon DEF DrainsTo

-----------------------------------------------------------------------------
\* Pipes with the same members are the same.
LEMMA SamePipe ==
  ASSUME NEW p \in Pipes, NEW q \in Pipes, p.cap = q.cap, p.buf = q.buf, p.pushed = q.pushed,
         p.popped = q.popped, p.closed = q.closed, p.error = q.error
  PROVE  p = q
BY DEF Pipes

\* Two pipes in good order that agree on the counters hold the same bytes.
LEMMA SameIntact ==
  ASSUME NEW p, NEW q, Intact(p), Intact(q), p.cap = q.cap, p.pushed = q.pushed,
         p.popped = q.popped, p.closed = q.closed, p.error = q.error
  PROVE  p = q
<1>1. p \in Pipes /\ q \in Pipes /\ p.buf = q.buf
  BY Zenon DEF Intact
<1> QED BY <1>1, SamePipe

LEMMA PutNothing ==
  ASSUME NEW p, Intact(p)
  PROVE  Put(p, Bytes(p.pushed, 0)) = p
<1>1. PICK q : q = Put(p, Bytes(p.pushed, 0))
  OBVIOUS
<1>2. 0 <= Room(p)
  BY RoomIs
<1>3. /\ Intact(q) /\ q.pushed = p.pushed + 0 /\ q.popped = p.popped
      /\ q.cap = p.cap /\ q.closed = p.closed /\ q.error = p.error
  BY <1>1, <1>2, PutRun
<1>4. p.pushed + 0 = p.pushed
  BY DEF Intact, Pipes
<1> QED BY <1>1, <1>3, <1>4, SameIntact, Zenon

\* Writing a run of bytes in two pieces is writing it in one.
LEMMA PutTwice ==
  ASSUME NEW p, Intact(p), NEW k \in Nat, NEW l \in Nat, k <= Room(p), k = 0 \/ ~p.closed,
         NEW q, q = Put(p, Bytes(p.pushed, k)), l <= Room(q), l = 0 \/ ~q.closed
  PROVE  /\ Put(q, Bytes(q.pushed, l)) = Put(p, Bytes(p.pushed, k + l))
         /\ k + l <= Room(p) /\ (k + l = 0 \/ ~p.closed)
<1>1. /\ Intact(q) /\ q.pushed = p.pushed + k /\ q.popped = p.popped
      /\ q.cap = p.cap /\ q.closed = p.closed /\ q.error = p.error
  BY PutRun
<1>2. PICK cap \in Nat, pushed \in Nat, popped \in Nat :
        cap = p.cap /\ pushed = p.pushed /\ popped = p.popped
  BY DEF Intact, Pipes
<1>3. Room(p) = cap - (pushed - popped) /\ Room(q) = cap - ((pushed + k) - popped)
  <2>1. Room(p) = p.cap - (p.pushed - p.popped)
    BY RoomIs
  <2>2. Room(q) = q.cap - (q.pushed - q.popped)
    BY <1>1, RoomIs
  <2> QED BY <1>1, <1>2, <2>1, <2>2, Zenon
<1>4. k + l <= Room(p)
  <2>1. l <= cap - ((pushed + k) - popped)
    BY <1>3, Zenon
  <2>2. k + l <= cap - (pushed - popped)
    BY <2>1
  <2> QED BY <1>3, <2>2, Zenon
<1>5. k + l = 0 \/ ~p.closed
  <2>1. k = 0 /\ l = 0 => k + l = 0
    OBVIOUS
  <2> QED BY <1>1, <2>1, Zenon
<1>6. PICK x : x = Put(p, Bytes(p.pushed, k + l))
  OBVIOUS
<1>7. /\ Intact(x) /\ x.pushed = p.pushed + (k + l) /\ x.popped = p.popped
      /\ x.cap = p.cap /\ x.closed = p.closed /\ x.error = p.error
  <2>1. k + l \in Nat
    OBVIOUS
  <2> QED BY <1>4, <1>5, <1>6, <2>1, PutRun
<1>8. PICK y : y = Put(q, Bytes(q.pushed, l))
  OBVIOUS
<1>9. /\ Intact(y) /\ y.pushed = q.pushed + l /\ y.popped = q.popped
      /\ y.cap = q.cap /\ y.closed = q.closed /\ y.error = q.error
  BY <1>1, <1>8, PutRun
<1>10. pushed + (k + l) = pushed + k + l
  OBVIOUS
<1>11. x.pushed = y.pushed
  BY <1>1, <1>2, <1>7, <1>9, <1>10, Zenon
<1>12. x = y
  BY <1>1, <1>7, <1>9, <1>11, SameIntact, Zenon
<1> QED BY <1>4, <1>5, <1>6, <1>8, <1>12, Zenon

\* close() changes nothing but the flag.
LEMMA ShutIntact ==
  ASSUME NEW p, Intact(p)
  PROVE  LET q == Shut(p)
         IN  /\ Intact(q) /\ q.closed = TRUE /\ q.pushed = p.pushed /\ q.popped = p.popped
             /\ q.cap = p.cap /\ q.error = p.error
<1>1. PICK q : q = Shut(p)
  OBVIOUS
<1>2. /\ q \in Pipes /\ q.closed = TRUE /\ q.pushed = p.pushed /\ q.popped = p.popped
      /\ q.cap = p.cap /\ q.error = p.error /\ q.buf = p.buf
  BY <1>1 DEF Intact, Pipes, Shut
<1> QED BY <1>1, <1>2, Zenon DEF Intact

LEMMA ShutTwice ==
  ASSUME NEW p, Intact(p), p.closed
  PROVE  Shut(p) = p
<1>1. PICK q : q = Shut(p)
  OBVIOUS
<1>2. /\ Intact(q) /\ q.closed = TRUE /\ q.pushed = p.pushed /\ q.popped = p.popped
      /\ q.cap = p.cap /\ q.error = p.error
  BY <1>1, ShutIntact, Zenon
<1>3. p.closed = TRUE
  BY DEF Intact, Pipes
<1> QED BY <1>1, <1>2, <1>3, SameIntact, Zenon

\* Between calls no byte waits past the first lap.
LEMMA AheadFirstLap ==
  ASSUME NEW r, NEW n \in Nat, Consistent(r, n), AllAhead(r)
  PROVE  FirstLap(r)
<1>1. PICK cap \in Nat, pushed \in Nat :
        /\ cap = StorageCapacity(r) /\ pushed = BytesPushed(r)
        /\ Bits(r.storage_bitmap) \subseteq 1 .. cap
  BY ConsistentFields, Zenon DEF Consistent, Bits
<1>2. ASSUME NEW i \in Bits(r.storage_bitmap) PROVE pushed <= cap
  <2>1. i \in 1 .. cap /\ pushed < i - 1
    BY <1>1, Zenon DEF AllAhead
  <2> QED BY <2>1
<1> QED BY <1>1, <1>2, Zenon DEF FirstLap

\* The bytes of a substring that the output has the capacity for, and with them the
\* bytes a Reassembler knows once it has placed that substring.
Fits(r, first, len) ==
  (first .. first + len - 1) \cap (BytesPushed(r) .. r.output_.popped + StorageCapacity(r) - 1)

Known(r, first, len) == Pending(r) \cup Fits(r, first, len)

\* A substring of the stream of n bytes that leaves gaps in the first lap only.
Proper(r, n, first, len) ==
  /\ first + len <= n
  /\ BytesPushed(r) < first \/ Bits(r.storage_bitmap) # {} => first + len <= StorageCapacity(r)

\* The three branches: what is placed is written or waits, and nothing else is known.
LEMMA PlaceIs ==
  ASSUME NEW r, NEW n \in Nat, Consistent(r, n), AllAhead(r),
         WordMod \in Nat, StorageCapacity(r) < WordMod,
         NEW first \in Nat, NEW len \in Nat, Proper(r, n, first, len),
         NEW d, d = Place(r, first, Bytes(first, len))
  PROVE  \E k \in Nat :
           /\ Consistent(d, n) /\ FirstLap(d)
           /\ k <= Room(r.output_) /\ (k = 0 \/ ~r.output_.closed)
           /\ d.output_ = Put(r.output_, Bytes(BytesPushed(r), k))
           /\ BytesPushed(d) = BytesPushed(r) + k /\ StorageCapacity(d) = StorageCapacity(r)
           /\ d.seen_last = r.seen_last /\ d.total_len = r.total_len
           /\ \A x \in Int : /\ x + 1 \in Bits(d.storage_bitmap) => BytesPushed(r) < x
                             /\ x \in Known(r, first, len)
                                  <=> \/ BytesPushed(r) <= x /\ x < BytesPushed(r) + k
                                      \/ x + 1 \in Bits(d.storage_bitmap)
<1>1. PICK pushed \in Nat, cap \in Nat, popped \in Nat, room \in Nat :
        /\ pushed = BytesPushed(r) /\ cap = StorageCapacity(r) /\ popped = r.output_.popped
        /\ room = Room(r.output_)
  BY ConsistentFields, RoomIs, Zenon DEF Consistent
<1>2. /\ room = cap - (pushed - popped) /\ popped <= pushed /\ pushed <= n
      /\ first + len <= n
  <2>1. Intact(r.output_)
    BY Zenon DEF Consistent
  <2>2. Room(r.output_) = r.output_.cap - (r.output_.pushed - r.output_.popped)
    BY <2>1, RoomIs
  <2>3. r.output_.popped <= r.output_.pushed
    BY <2>1, Zenon DEF Intact
  <2> QED BY <1>1, <2>2, <2>3, Zenon DEF Consistent, Proper, StorageCapacity, BytesPushed
<1>3. PICK bits : bits = Bits(r.storage_bitmap)
  OBVIOUS
<1>4. \A x \in Int : x \in Pending(r) <=> x + 1 \in bits
  BY <1>3, PendingSet, Zenon
<1>5. \A x \in Int : x + 1 \in bits => pushed < x
  <2> SUFFICES ASSUME NEW x \in Int, x + 1 \in bits PROVE pushed < x
    OBVIOUS
  <2>1. pushed < (x + 1) - 1
    BY <1>1, <1>3, Zenon DEF AllAhead
  <2> QED BY <2>1
<1>6. \A x \in Int : x \in Fits(r, first, len)
                      <=> first <= x /\ x < first + len /\ pushed <= x /\ x < popped + cap
  <2>1. \A x \in Int : x \in (first .. (first + len) - 1) \cap (pushed .. (popped + cap) - 1)
                        <=> first <= x /\ x < first + len /\ pushed <= x /\ x < popped + cap
    OBVIOUS
  <2>2. Fits(r, first, len) = (first .. (first + len) - 1) \cap (pushed .. (popped + cap) - 1)
    <3>1. first + len - 1 = (first + len) - 1 /\ popped + cap - 1 = (popped + cap) - 1
      OBVIOUS
    <3> QED BY <1>1, <3>1, Zenon DEF Fits
  <2> QED BY <2>1, <2>2, Zenon
<1>7. r.cur_index = pushed
  BY <1>1, Zenon DEF Consistent
<1>8. FirstLap(r)
  BY AheadFirstLap
\* A substring past a gap.
<1>9. CASE pushed < first
  <2>1. first + len <= cap
    BY <1>1, <1>9, Zenon DEF Proper
  <2>2. d = Store(r, first, Bytes(first, len))
    <3>1. pushed - first < 0
      BY <1>9
    <3> QED BY <1>7, <3>1 DEF Place
  <2>3. /\ Consistent(d, n) /\ d.output_ = r.output_
        /\ d.seen_last = r.seen_last /\ d.total_len = r.total_len
        /\ Bits(d.storage_bitmap) = bits \cup (first + 1 .. first + len)
    <3>1. BytesPushed(r) < first /\ first + len <= StorageCapacity(r)
      BY <1>1, <1>9, <2>1, Zenon
    <3> QED BY <1>2, <1>3, <2>2, <3>1, StoreIs
  <2>4. BytesPushed(d) = pushed /\ StorageCapacity(d) = cap
    BY <1>1, <2>3, Zenon DEF BytesPushed, StorageCapacity
  <2>5. pushed <= cap
    BY <1>9, <2>1
  <2>6. Put(r.output_, Bytes(pushed, 0)) = r.output_
    <3>1. Intact(r.output_) /\ r.output_.pushed = pushed
      BY <1>1, Zenon DEF Consistent, BytesPushed
    <3> QED BY <3>1, PutNothing, Zenon
  <2>7. ASSUME NEW x \in Int
        PROVE  /\ x + 1 \in Bits(d.storage_bitmap) => pushed < x
               /\ x \in Known(r, first, len) <=> (pushed <= x /\ x < pushed + 0)
                                                \/ x + 1 \in Bits(d.storage_bitmap)
    <3>1. x + 1 \in first + 1 .. first + len <=> first <= x /\ x < first + len
      OBVIOUS
    <3>2. first <= x /\ x < first + len => pushed <= x /\ pushed < x /\ x < popped + cap
      BY <1>9, <2>1
    <3>3. ~(pushed <= x /\ x < pushed + 0)
      OBVIOUS
    <3> QED BY <1>4, <1>5, <1>6, <2>3, <3>1, <3>2, <3>3, Zenon DEF Known
  <2>8. 0 <= room /\ pushed + 0 = pushed
    OBVIOUS
  <2>9. 0 \in Nat
    OBVIOUS
  <2> QED BY <1>1, <2>3, <2>4, <2>5, <2>6, <2>7, <2>8, <2>9, Zenon DEF FirstLap
\* Nothing new.
<1>10. CASE pushed - first >= len /\ pushed - first > 0
  <2>1. d = r
    <3>1. ~(pushed - first < 0)
      BY <1>10
    <3>3. Len(Bytes(first, len)) = len
      BY BytesRun
    <3> QED BY <1>7, <1>10, <3>1, <3>3 DEF Place
  <2>2. Put(r.output_, Bytes(pushed, 0)) = r.output_
    <3>1. Intact(r.output_) /\ r.output_.pushed = pushed
      BY <1>1, Zenon DEF Consistent, BytesPushed
    <3> QED BY <3>1, PutNothing, Zenon
  <2>3. ASSUME NEW x \in Int
        PROVE  /\ x + 1 \in bits => pushed < x
               /\ x \in Known(r, first, len) <=> (pushed <= x /\ x < pushed + 0) \/ x + 1 \in bits
    <3>1. ~(first <= x /\ x < first + len /\ pushed <= x)
      BY <1>10
    <3>2. ~(pushed <= x /\ x < pushed + 0)
      OBVIOUS
    <3> QED BY <1>4, <1>5, <1>6, <3>1, <3>2, Zenon DEF Known
  <2>4. 0 <= room /\ pushed + 0 = pushed
    OBVIOUS
  <2>5. 0 \in Nat
    OBVIOUS
  <2> QED BY <1>1, <1>3, <1>8, <2>1, <2>2, <2>3, <2>4, <2>5, Zenon
\* A substring that goes on where the output ends, or overlaps its end.
<1>11. CASE first <= pushed /\ ~(pushed - first >= len /\ pushed - first > 0)
  <2>1. PICK skip \in Nat, rest \in Nat : skip = pushed - first /\ rest = len - skip
                                         /\ skip \in 0 .. len /\ pushed + rest = first + len
    BY <1>11
  <2>2. d = Deliver(r, Bytes(pushed, rest))
    <3>1. PICK data : data = Bytes(first, len) /\ Len(data) = len
      BY BytesRun
    <3>2. ~(r.cur_index - first < 0) /\ ~(r.cur_index - first >= Len(data) /\ r.cur_index - first > 0)
          /\ r.cur_index - first = skip
      BY <1>7, <1>11, <2>1, <3>1
    <3>3. d = Deliver(r, Substr(data, skip, Len(data)))
      BY <3>1, <3>2, Zenon DEF Place
    <3>4. Substr(Bytes(first, len), skip, len) = Bytes(first + skip, Least(len, len - skip))
      BY <2>1, BytesPart
    <3>5. first + skip = pushed /\ Least(len, len - skip) = rest
      BY <2>1 DEF Least
    <3> QED BY <3>1, <3>3, <3>4, <3>5, Zenon
  <2>3. PICK k \in Nat :
           /\ k = Least(room, rest) /\ (k = 0 \/ ~r.output_.closed)
           /\ d.output_ = Put(r.output_, Bytes(pushed, k))
           /\ BytesPushed(d) = pushed + k /\ StorageCapacity(d) = cap
           /\ Consistent(d, n)
           /\ d.storage_bitmap = r.storage_bitmap
           /\ d.seen_last = r.seen_last /\ d.total_len = r.total_len
    <3>1. BytesPushed(r) + rest <= n /\ d = Deliver(r, Bytes(BytesPushed(r), rest))
      BY <1>1, <1>2, <2>1, <2>2, Zenon
    <3>2. \E k \in Nat :
           /\ k = Least(Room(r.output_), rest) /\ (k = 0 \/ ~r.output_.closed)
           /\ d.output_ = Put(r.output_, Bytes(BytesPushed(r), k))
           /\ BytesPushed(d) = BytesPushed(r) + k /\ StorageCapacity(d) = StorageCapacity(r)
           /\ d.output_.popped = r.output_.popped /\ d.output_.closed = r.output_.closed
           /\ Consistent(d, n)
           /\ d.storage = r.storage /\ d.storage_bitmap = r.storage_bitmap
           /\ d.seen_last = r.seen_last /\ d.total_len = r.total_len
      BY <3>1, DeliverIs
    <3> QED BY <1>1, <3>2, Zenon
  <2>4. k <= room /\ k <= rest /\ (k = room \/ k = rest)
    BY <2>3 DEF Least
  <2>5. FirstLap(d)
    <3>1. ASSUME bits # {} PROVE pushed + k <= cap
      <4>1. first + len <= cap
        BY <1>1, <1>3, <3>1, Zenon DEF Proper
      <4> QED BY <2>1, <2>4, <4>1
    <3> QED BY <1>3, <2>3, <3>1, Zenon DEF FirstLap
  <2>6. ASSUME NEW x \in Int
        PROVE  /\ x + 1 \in bits => pushed < x
               /\ x \in Known(r, first, len) <=> (pushed <= x /\ x < pushed + k) \/ x + 1 \in bits
    <3>1. first <= x /\ x < first + len /\ pushed <= x /\ x < popped + cap
            <=> pushed <= x /\ x < pushed + k
      BY <1>2, <1>11, <2>1, <2>4
    <3> QED BY <1>4, <1>5, <1>6, <3>1, Zenon DEF Known
  <2> QED BY <1>1, <1>3, <2>3, <2>4, <2>5, <2>6, Zenon
<1> QED BY <1>9, <1>10, <1>11

\* As long as the output is open the length that is known is the right one.
Ending(r, n) ==
  r.seen_last /\ ~r.output_.closed => r.total_len = n /\ BytesPushed(r) # n

\* What is known is a run of k bytes from where the output ends, written to q, and the rest.
Runs(r, s, n, first, len, last, k, q) ==
  /\ \A x \in Int : BytesPushed(r) <= x /\ x < BytesPushed(r) + k => x \in Known(r, first, len)
  /\ BytesPushed(r) + k \notin Known(r, first, len)
  /\ k <= Room(r.output_) /\ (k = 0 \/ ~r.output_.closed)
  /\ q = Put(r.output_, Bytes(BytesPushed(r), k))
  /\ BytesPushed(s) = BytesPushed(r) + k
  /\ s.seen_last = (r.seen_last \/ last)
  /\ s.output_ = IF s.seen_last /\ q.pushed = n THEN Shut(q) ELSE q
  /\ \A x \in Int : x \in Pending(s) <=> x \in Known(r, first, len) /\ BytesPushed(s) <= x

\* insert(): the run of known bytes that begins at cur_index is written, the rest of
\* what is known waits, and the output is closed once all n bytes are in it.  A substring
\* that begins past every slot is not looked at.
LEMMA InsertIs ==
  ASSUME NEW r, NEW n \in Nat, Consistent(r, n), AllAhead(r), Ending(r, n),
         WordMod \in Nat, StorageCapacity(r) < WordMod, n < WordMod,
         NEW first \in Nat, NEW len \in Nat, Proper(r, n, first, len),
         NEW last \in BOOLEAN, last => first + len = n,
         NEW s, s = Insert(r, first, Bytes(first, len), last)
  PROVE  /\ Consistent(s, n) /\ AllAhead(s) /\ Ending(s, n)
         /\ StorageCapacity(s) = StorageCapacity(r) /\ s.total_len \in {r.total_len, n}
         /\ \/ s = r /\ BytesPushed(r) < first
            \/ \E k \in Nat : \E q : Runs(r, s, n, first, len, last, k, q)
<1>1. CASE first > r.cur_index /\ ~IsValidIndex(r, first)
  <2>1. s = r
    BY <1>1, Zenon DEF Insert
  <2>2. BytesPushed(r) < first
    <3>1. PICK c \in Nat : c = r.cur_index /\ c = BytesPushed(r) /\ first > c
      BY <1>1, ConsistentFields, Zenon DEF Consistent
    <3>2. c < first
      BY <3>1
    <3> QED BY <3>1, <3>2, Zenon
  <2> QED BY <2>1, <2>2, Zenon
<1>2. CASE ~(first > r.cur_index /\ ~IsValidIndex(r, first))
  <2> PICK data : data = Bytes(first, len)
    OBVIOUS
  <2> PICK pushed \in Nat : pushed = BytesPushed(r)
    BY ConsistentFields
  <2> PICK room : room = Room(r.output_)
    OBVIOUS
  <2>1. PICK p : p = Place(r, first, data)
    OBVIOUS
  <2>2. PICK k1 \in Nat :
           /\ Consistent(p, n) /\ FirstLap(p)
           /\ k1 <= room /\ (k1 = 0 \/ ~r.output_.closed)
           /\ p.output_ = Put(r.output_, Bytes(pushed, k1))
           /\ BytesPushed(p) = pushed + k1 /\ StorageCapacity(p) = StorageCapacity(r)
           /\ p.seen_last = r.seen_last /\ p.total_len = r.total_len
           /\ \A x \in Int : /\ x + 1 \in Bits(p.storage_bitmap) => pushed < x
                             /\ x \in Known(r, first, len)
                                  <=> \/ pushed <= x /\ x < pushed + k1
                                      \/ x + 1 \in Bits(p.storage_bitmap)
    <3>1. p = Place(r, first, Bytes(first, len))
      BY <2>1, Zenon
    <3>2. \E k \in Nat :
           /\ Consistent(p, n) /\ FirstLap(p)
           /\ k <= Room(r.output_) /\ (k = 0 \/ ~r.output_.closed)
           /\ p.output_ = Put(r.output_, Bytes(BytesPushed(r), k))
           /\ BytesPushed(p) = BytesPushed(r) + k /\ StorageCapacity(p) = StorageCapacity(r)
           /\ p.seen_last = r.seen_last /\ p.total_len = r.total_len
           /\ \A x \in Int : /\ x + 1 \in Bits(p.storage_bitmap) => BytesPushed(r) < x
                             /\ x \in Known(r, first, len)
                                  <=> \/ BytesPushed(r) <= x /\ x < BytesPushed(r) + k
                                      \/ x + 1 \in Bits(p.storage_bitmap)
      BY <3>1, PlaceIs
    <3> QED BY <3>2, Zenon
  <2>3. PICK d : d = Drain(p)
    OBVIOUS
  <2>4. PICK k2 \in Nat :
           /\ NewCurIndex(p) <= Len(p.storage_bitmap)
           /\ (pushed + k1) + 1 .. (pushed + k1) + k2 \subseteq Bits(p.storage_bitmap)
           /\ (pushed + k1) + k2 + 1 \notin Bits(p.storage_bitmap)
           /\ k2 <= Room(p.output_) /\ (k2 = 0 \/ ~p.output_.closed)
           /\ d.output_ = Put(p.output_, Bytes(pushed + k1, k2))
           /\ BytesPushed(d) = (pushed + k1) + k2 /\ StorageCapacity(d) = StorageCapacity(p)
           /\ d.output_.closed = p.output_.closed
           /\ Consistent(d, n) /\ AllAhead(d)
           /\ Bits(d.storage_bitmap) = Bits(p.storage_bitmap) \ (1 .. (pushed + k1) + k2)
           /\ d.seen_last = p.seen_last /\ d.total_len = p.total_len
    <3>1. Consistent(p, n) /\ FirstLap(p)
      BY <2>2, Zenon
    <3>2. \E k \in Nat : DrainsTo(p, d, n, k)
      BY <2>3, <3>1, DrainIs
    <3> QED BY <2>2, <3>2, Zenon DEF DrainsTo
  <2>5. PICK k \in Nat : k = k1 + k2 /\ (pushed + k1) + k2 = pushed + k
    OBVIOUS
  <2>6. PICK q : q = d.output_
    OBVIOUS
  <2>7. /\ q = Put(r.output_, Bytes(pushed, k)) /\ k <= room /\ (k = 0 \/ ~r.output_.closed)
    <3>1. Intact(r.output_) /\ pushed = r.output_.pushed
      BY Zenon DEF Consistent, BytesPushed
    <3>2. k1 <= Room(r.output_) /\ p.output_ = Put(r.output_, Bytes(r.output_.pushed, k1))
      BY <2>2, <3>1, Zenon
    <3>3. /\ Put(p.output_, Bytes(p.output_.pushed, k2)) = Put(r.output_, Bytes(r.output_.pushed, k1 + k2))
          /\ k1 + k2 <= Room(r.output_) /\ (k1 + k2 = 0 \/ ~r.output_.closed)
      BY <2>2, <2>4, <3>1, <3>2, PutTwice
    <3>4. p.output_.pushed = pushed + k1
      BY <2>2, Zenon DEF BytesPushed
    <3> QED BY <2>4, <2>5, <2>6, <3>1, <3>3, <3>4, Zenon
  <2>8. PICK e : e = Mark(d, first, data, last)
    OBVIOUS
  <2>9. s = [e EXCEPT !.output_ = CloseAtEnd(@, e.seen_last, e.total_len)]
    <3>1. p.fault = "none"
      BY <2>2, Zenon DEF Consistent
    <3>2. ~(NewCurIndex(p) > Len(p.storage_bitmap))
      <4>1. Len(p.storage_bitmap) \in Nat
        BY <2>2, ConsistentFields
      <4>2. NewCurIndex(p) \in Int
        <5>1. PICK c \in Nat, cap \in Nat : c = p.cur_index /\ cap = StorageCapacity(p) /\ cap > 0
          BY <2>2, ConsistentFields, Zenon DEF Consistent
        <5>2. c % cap \in Int /\ c \in Int
          BY <5>1
        <5> QED BY <5>1, <5>2, Zenon DEF NewCurIndex
      <4> QED BY <2>4, <4>1, <4>2, SMTT(30)
    <3> QED BY <1>2, <2>1, <2>3, <2>8, <3>1, <3>2, Zenon DEF Insert
  <2>10. /\ d \in Reassemblers /\ Intact(q) /\ d.seen_last \in BOOLEAN
    BY <2>4, <2>6, ConsistentFields, Zenon DEF Consistent
  <2>11. /\ e.output_ = q /\ e.cur_index = d.cur_index /\ e.storage = d.storage
         /\ e.storage_bitmap = d.storage_bitmap /\ e.fault = d.fault /\ e \in Reassemblers
         /\ e.seen_last = (d.seen_last \/ last)
         /\ e.total_len = IF last THEN n ELSE d.total_len
    <3>1. CASE last
      <4>1. U64(first + Len(data)) = n
        <5>1. Len(data) = len /\ first + len = n
          BY <3>1, BytesRun
        <5>2. n % WordMod = n
          OBVIOUS
        <5> QED BY <5>1, <5>2, Zenon DEF U64
      <4>2. e = [d EXCEPT !.seen_last = TRUE, !.total_len = n]
        BY <2>8, <3>1, <4>1, Zenon DEF Mark
      <4>3. /\ e.output_ = d.output_ /\ e.cur_index = d.cur_index /\ e.storage = d.storage
            /\ e.storage_bitmap = d.storage_bitmap /\ e.fault = d.fault /\ e \in Reassemblers
            /\ e.seen_last = TRUE /\ e.total_len = n
        BY <2>10, <4>2 DEF Reassemblers
      <4> QED BY <2>6, <3>1, <4>3, Zenon
    <3>2. CASE ~last
      <4>1. e = d
        BY <2>8, <3>2, Zenon DEF Mark
      <4> QED BY <2>6, <2>10, <3>2, <4>1, Zenon
    <3> QED BY <3>1, <3>2
  <2>12. PICK o : o = IF e.seen_last /\ q.pushed = n THEN Shut(q) ELSE q
    OBVIOUS
  <2>13. /\ Intact(o) /\ o.pushed = q.pushed /\ o.popped = q.popped /\ o.cap = q.cap
         /\ o.closed => q.closed \/ (e.seen_last /\ q.pushed = n)
         /\ ~o.closed => ~q.closed /\ ~(e.seen_last /\ q.pushed = n)
    BY <2>10, <2>12, ShutIntact, Zenon
  <2>14. CloseAtEnd(q, e.seen_last, e.total_len) = o
    <3>1. CASE ~q.closed
      <4>1. e.seen_last => e.total_len = n
        <5>1. ~r.output_.closed
          <6>1. q.closed = r.output_.closed
            <7>1. Intact(r.output_) /\ pushed = r.output_.pushed /\ k <= Room(r.output_)
                  /\ q = Put(r.output_, Bytes(r.output_.pushed, k))
              BY <2>7, Zenon DEF Consistent, BytesPushed
            <7> QED BY <2>7, <7>1, PutRun
          <6> QED BY <3>1, <6>1, Zenon
        <5> QED BY <2>2, <2>4, <2>11, <5>1, Zenon DEF Ending
      <4> QED BY <2>12, <4>1, Zenon DEF CloseAtEnd
    <3>2. CASE q.closed
      <4>1. Shut(q) = q
        BY <2>10, <3>2, ShutTwice
      <4> QED BY <2>12, <4>1, Zenon DEF CloseAtEnd
    <3> QED BY <3>1, <3>2
  <2>15. /\ s.output_ = o /\ s.cur_index = d.cur_index /\ s.storage = d.storage
         /\ s.storage_bitmap = d.storage_bitmap /\ s.fault = d.fault
         /\ s.seen_last = e.seen_last /\ s.total_len = e.total_len /\ s \in Reassemblers
    <3>1. s = [e EXCEPT !.output_ = o]
      BY <2>9, <2>11, <2>14, Zenon
    <3>2. o \in Pipes
      BY <2>13, Zenon DEF Intact
    <3>3. /\ s.output_ = o /\ s.cur_index = e.cur_index /\ s.storage = e.storage
          /\ s.storage_bitmap = e.storage_bitmap /\ s.fault = e.fault
          /\ s.seen_last = e.seen_last /\ s.total_len = e.total_len /\ s \in Reassemblers
      BY <2>11, <3>1, <3>2 DEF Reassemblers
    <3> QED BY <2>11, <3>3, Zenon
  <2>16. BytesPushed(s) = pushed + k /\ StorageCapacity(s) = StorageCapacity(r)
    BY <2>2, <2>4, <2>5, <2>6, <2>13, <2>15, Zenon DEF BytesPushed, StorageCapacity
  <2>17. BytesPushed(s) = BytesPushed(d) /\ StorageCapacity(s) = StorageCapacity(d)
         /\ BytesPushed(d) = q.pushed
    BY <2>6, <2>13, <2>15, Zenon DEF BytesPushed, StorageCapacity
  <2>18. Consistent(s, n)
    BY <2>4, <2>6, <2>13, <2>15, <2>17, SMTT(30) DEF Consistent
  <2>19. AllAhead(s)
    BY <2>4, <2>15, <2>17, Zenon DEF AllAhead
  <2>20. Ending(s, n)
    <3> SUFFICES ASSUME s.seen_last, ~s.output_.closed
                 PROVE  s.total_len = n /\ BytesPushed(s) # n
      BY Zenon DEF Ending
    <3>1. ~q.closed /\ q.pushed # n /\ e.seen_last
      BY <2>13, <2>15, Zenon
    <3>2. ~r.output_.closed
      <4>1. Intact(r.output_) /\ pushed = r.output_.pushed /\ k <= Room(r.output_)
            /\ q = Put(r.output_, Bytes(r.output_.pushed, k))
        BY <2>7, Zenon DEF Consistent, BytesPushed
      <4>2. q.closed = r.output_.closed
        BY <2>7, <4>1, PutRun
      <4> QED BY <3>1, <4>2, Zenon
    <3> QED BY <2>2, <2>4, <2>11, <2>15, <2>17, <3>1, <3>2, Zenon DEF Ending
  <2>21. PICK bits : bits = Bits(p.storage_bitmap)
    OBVIOUS
  <2>22. /\ \A x \in Int : x + 1 \in bits => pushed < x
         /\ \A x \in Int : x \in Known(r, first, len)
                             <=> (pushed <= x /\ x < pushed + k1) \/ x + 1 \in bits
         /\ (pushed + k1) + 1 .. pushed + k \subseteq bits
         /\ pushed + k + 1 \notin bits
    <3>1. (pushed + k1) + k2 + 1 = pushed + k + 1
      BY <2>5
    <3> QED BY <2>2, <2>4, <2>5, <2>21, <3>1, Zenon
  <2>23. \A x \in Int : pushed <= x /\ x < pushed + k => x \in Known(r, first, len)
    <3> SUFFICES ASSUME NEW x \in Int, pushed <= x, x < pushed + k, ~(x < pushed + k1)
                 PROVE  x + 1 \in bits
      BY <2>22, Zenon
    <3>1. x + 1 \in (pushed + k1) + 1 .. pushed + k
      OBVIOUS
    <3> QED BY <2>22, <3>1, Zenon
  <2>24. pushed + k \notin Known(r, first, len)
    <3>1. pushed + k \in Int /\ ~(pushed + k < pushed + k1) /\ pushed + k + 1 = (pushed + k) + 1
      BY <2>5
    <3> QED BY <2>22, <3>1, Zenon
  <2>25. \A x \in Int : x \in Pending(s) <=> x \in Known(r, first, len) /\ BytesPushed(s) <= x
    <3> SUFFICES ASSUME NEW x \in Int
                 PROVE  x \in Pending(s) <=> x \in Known(r, first, len) /\ pushed + k <= x
      BY <2>16, Zenon
    <3>1. x \in Pending(s) <=> x + 1 \in Bits(s.storage_bitmap)
      BY <2>18, PendingSet
    <3>2. Bits(s.storage_bitmap) = bits \ (1 .. pushed + k)
      BY <2>4, <2>5, <2>15, <2>21, Zenon
    <3>3. CASE pushed + k <= x
      <4>1. x + 1 \notin 1 .. pushed + k /\ ~(x < pushed + k1)
        BY <2>5, <3>3
      <4> QED BY <2>22, <3>1, <3>2, <3>3, <4>1, Zenon
    <3>4. CASE ~(pushed + k <= x)
      <4>1. x + 1 \in bits => x + 1 \in 1 .. pushed + k
        <5>1. x + 1 \in bits => pushed < x
          BY <2>22, Zenon
        <5>2. pushed < x => x + 1 \in 1 .. pushed + k
          BY <3>4
        <5> QED BY <5>1, <5>2, Zenon
      <4> QED BY <3>1, <3>2, <3>4, <4>1, Zenon
    <3> QED BY <3>3, <3>4
  <2>26. \E h : Runs(r, s, n, first, len, last, k, h)
    BY <2>2, <2>4, <2>7, <2>11, <2>12, <2>15, <2>16, <2>23, <2>24, <2>25, Zenon DEF Runs
  <2> QED BY <2>2, <2>4, <2>11, <2>12, <2>15, <2>16, <2>18, <2>19, <2>20, <2>26, Zenon
<1> QED BY <1>1, <1>2

\* What is known, seen from the first byte that is not written: nothing before it, and the
\* run that begins there is what insert() writes.
FrontRun(r, first, len) ==
  {x \in Known(r, first, len) : \A j \in BytesPushed(r) .. x : j \in Known(r, first, len)}

LEMMA KnownRun ==
  ASSUME NEW r, NEW n \in Nat, Consistent(r, n), AllAhead(r),
         NEW first \in Nat, NEW len \in Nat, NEW k \in Nat,
         \A x \in Int : BytesPushed(r) <= x /\ x < BytesPushed(r) + k => x \in Known(r, first, len),
         BytesPushed(r) + k \notin Known(r, first, len),
         NEW run, run = FrontRun(r, first, len)
  PROVE  /\ Cardinality(run) = k
         /\ Known(r, first, len) \subseteq Int
         /\ \A x \in Known(r, first, len) : x \notin run <=> BytesPushed(r) + k <= x
<1>0. PICK pushed \in Nat : pushed = BytesPushed(r)
  BY ConsistentFields
<1>1. PICK known : pushed = BytesPushed(r) /\ known = Known(r, first, len)
  BY <1>0
<1>2. known \subseteq Int /\ \A x \in known : pushed <= x
  <2> SUFFICES ASSUME NEW x \in known PROVE x \in Int /\ pushed <= x
    BY Zenon
  <2>1. CASE x \in Pending(r)
    <3>1. PICK i \in Bits(r.storage_bitmap) : x = r.storage[i]
      BY <2>1, Zenon DEF Pending
    <3>2. i \in 1 .. Len(r.storage_bitmap) /\ x = i - 1 /\ pushed < i - 1
      BY <1>1, <3>1, Zenon DEF Bits, Consistent, AllAhead
    <3> QED BY <3>2
  <2>2. CASE x \in Fits(r, first, len)
    <3>1. /\ x \in first .. first + len - 1
          /\ x \in pushed .. r.output_.popped + StorageCapacity(r) - 1
      BY <1>1, <2>2, Zenon DEF Fits
    <3> QED BY <3>1
  <2> QED BY <1>1, <2>1, <2>2, Zenon DEF Known
<1>3. /\ \A x \in Int : pushed <= x /\ x < pushed + k => x \in known
      /\ pushed + k \notin known
  BY <1>1, Zenon
<1>4. run = {x \in known : \A j \in pushed .. x : j \in known}
  BY <1>1, Zenon DEF FrontRun
<1>5. ASSUME NEW x \in known
      PROVE  x \notin run <=> pushed + k <= x
  <2>1. x \in Int /\ pushed <= x
    BY <1>2
  <2>2. CASE pushed + k <= x
    <3>1. pushed + k \in pushed .. x
      BY <2>1, <2>2
    <3> QED BY <1>3, <1>4, <2>2, <3>1, Zenon
  <2>3. CASE ~(pushed + k <= x)
    <3>1. \A j \in pushed .. x : j \in Int /\ pushed <= j /\ j < pushed + k
      BY <2>1, <2>3
    <3> QED BY <1>3, <1>4, <2>3, <3>1, Zenon
  <2> QED BY <2>2, <2>3
<1>6. run = pushed .. (pushed + k) - 1
  <2>1. ASSUME NEW x \in run PROVE x \in pushed .. (pushed + k) - 1
    <3>1. x \in known /\ x \in Int /\ pushed <= x
      BY <1>2, <1>4, Zenon
    <3>2. ~(pushed + k <= x)
      BY <1>5, <3>1, Zenon
    <3> QED BY <3>1, <3>2
  <2>2. ASSUME NEW x \in pushed .. (pushed + k) - 1 PROVE x \in run
    <3>1. x \in Int /\ pushed <= x /\ x < pushed + k /\ ~(pushed + k <= x)
      OBVIOUS
    <3> QED BY <1>3, <1>5, <3>1, Zenon
  <2> QED BY <2>1, <2>2, Zenon
<1>7. Cardinality(run) = k
  <2>1. Cardinality(pushed .. (pushed + k) - 1)
          = IF pushed > (pushed + k) - 1 THEN 0 ELSE ((pushed + k) - 1) - pushed + 1
    BY FS_Interval
  <2>2. (IF pushed > (pushed + k) - 1 THEN 0 ELSE ((pushed + k) - 1) - pushed + 1) = k
    OBVIOUS
  <2> QED BY <1>6, <2>1, <2>2, Zenon
<1> QED BY <1>1, <1>2, <1>5, <1>7, Zenon

\* insert() in terms of the bytes that are known: it writes the run of them that begins
\* where the output ends, and what is beyond the run waits.
Writes(r, s, n, first, len, last) ==
  LET known == Known(r, first, len)
      run   == FrontRun(r, first, len)
      q     == Put(r.output_, Bytes(BytesPushed(r), Cardinality(run)))
  IN  /\ s.seen_last = (r.seen_last \/ last)
      /\ s.output_ = IF s.seen_last /\ q.pushed = n THEN Shut(q) ELSE q
      /\ Pending(s) = known \ run

LEMMA InsertWrites ==
  ASSUME NEW r, NEW n \in Nat, Consistent(r, n), AllAhead(r), Ending(r, n),
         WordMod \in Nat, StorageCapacity(r) < WordMod, n < WordMod,
         NEW first \in Nat, NEW len \in Nat, Proper(r, n, first, len),
         NEW last \in BOOLEAN, last => first + len = n,
         NEW s, s = Insert(r, first, Bytes(first, len), last)
  PROVE  s = r \/ Writes(r, s, n, first, len, last)
<1> SUFFICES ASSUME s # r PROVE Writes(r, s, n, first, len, last)
  OBVIOUS
<1>9. PICK pushed \in Nat : pushed = BytesPushed(r)
  BY ConsistentFields
<1>1. PICK known, run :
        /\ pushed = BytesPushed(r) /\ known = Known(r, first, len)
        /\ run = FrontRun(r, first, len)
  BY <1>9
<1>0. PICK k \in Nat : \E q : Runs(r, s, n, first, len, last, k, q)
  <2>1. \/ s = r /\ BytesPushed(r) < first
        \/ \E k \in Nat : \E q : Runs(r, s, n, first, len, last, k, q)
    BY InsertIs
  <2> QED BY <2>1, Zenon
<1>2. PICK q :
        /\ \A x \in Int : BytesPushed(r) <= x /\ x < BytesPushed(r) + k => x \in Known(r, first, len)
        /\ BytesPushed(r) + k \notin Known(r, first, len)
        /\ q = Put(r.output_, Bytes(BytesPushed(r), k))
        /\ BytesPushed(s) = BytesPushed(r) + k
        /\ s.seen_last = (r.seen_last \/ last)
        /\ s.output_ = IF s.seen_last /\ q.pushed = n THEN Shut(q) ELSE q
        /\ \A x \in Int : x \in Pending(s) <=> x \in Known(r, first, len) /\ BytesPushed(s) <= x
  BY <1>0, Zenon DEF Runs
<1>3. /\ Cardinality(run) = k /\ known \subseteq Int
      /\ \A x \in known : x \notin run <=> pushed + k <= x
  <2>1. /\ \A x \in Int : BytesPushed(r) <= x /\ x < BytesPushed(r) + k => x \in Known(r, first, len)
        /\ BytesPushed(r) + k \notin Known(r, first, len)
    BY <1>2, Zenon
  <2>2. /\ Cardinality(run) = k /\ Known(r, first, len) \subseteq Int
        /\ \A x \in Known(r, first, len) : x \notin run <=> BytesPushed(r) + k <= x
    BY <1>1, <2>1, KnownRun
  <2> QED BY <1>1, <2>2, Zenon
<1>4. Pending(s) \subseteq Int
  <2>1. Consistent(s, n)
    BY InsertIs
  <2>2. ASSUME NEW x \in Pending(s) PROVE x \in Int
    <3>1. PICK i \in Bits(s.storage_bitmap) : x = s.storage[i]
      BY Zenon DEF Pending
    <3>2. i \in 1 .. Len(s.storage_bitmap) /\ x = i - 1
      BY <2>1, <3>1, Zenon DEF Bits, Consistent
    <3> QED BY <3>2
  <2> QED BY <2>2, Zenon
<1>5. Pending(s) = known \ run
  <2>1. \A x \in Int : x \in Pending(s) <=> x \in known /\ pushed + k <= x
    BY <1>1, <1>2, Zenon
  <2>2. \A x \in Int : x \in Pending(s) <=> x \in known /\ x \notin run
    BY <1>3, <2>1, Zenon
  <2> QED BY <1>3, <1>4, <2>2
<1> QED BY <1>1, <1>2, <1>3, <1>5, Zenon DEF Writes

\* Once the output is closed an empty substring past its end changes nothing but the
\* length, which is not looked at again.
LEMMA InsertNothing ==
  ASSUME NEW r, NEW n \in Nat, Consistent(r, n), AllAhead(r), r.output_.closed, r.seen_last,
         WordMod \in Nat, WordMod > 0, NEW from \in Nat, NEW last \in BOOLEAN,
         NEW s, s = Insert(r, BytesPushed(r) + 1, Bytes(from, 0), last)
  PROVE  /\ Consistent(s, n) /\ AllAhead(s) /\ StorageCapacity(s) = StorageCapacity(r)
         /\ s.output_ = r.output_ /\ s.seen_last /\ Pending(s) = Pending(r)
<1>1. PICK pushed \in Nat, cap \in Nat, at \in Nat :
        /\ pushed = BytesPushed(r) /\ cap = StorageCapacity(r) /\ at = BytesPushed(r) + 1
        /\ cap > 0 /\ r.cur_index = pushed /\ pushed = n
  <2>1. PICK pushed \in Nat, cap \in Nat :
          /\ pushed = BytesPushed(r) /\ cap = StorageCapacity(r)
          /\ cap > 0 /\ r.cur_index = pushed /\ pushed = n
    BY ConsistentFields, Zenon DEF Consistent
  <2>2. pushed + 1 \in Nat
    OBVIOUS
  <2> QED BY <2>1, <2>2, Zenon
<1>2. /\ r \in Reassemblers /\ Len(r.storage) = cap /\ Len(r.storage_bitmap) = cap
      /\ r.storage \in Seq(Int) /\ r.storage_bitmap \in Seq(BOOLEAN) /\ r.fault = "none"
      /\ Intact(r.output_) /\ r.output_.pushed = pushed
  BY <1>1, ConsistentFields, Zenon DEF Consistent, BytesPushed
<1>3. Bits(r.storage_bitmap) = {}
  <2> SUFFICES ASSUME NEW i \in Bits(r.storage_bitmap) PROVE FALSE
    BY Zenon
  <2>1. i \in 1 .. cap
    BY <1>2, Zenon DEF Bits
  <2>2. i <= n /\ pushed < i - 1
    BY <1>1, Zenon DEF Consistent, AllAhead
  <2> QED BY <1>1, <2>1, <2>2
<1>4. PICK none : none = Bytes(from, 0) /\ none = <<>> /\ none \in Seq(Int) /\ Len(none) = 0
  <2>1. Bytes(from, 0) = <<>>
    BY BytesEmpty
  <2>2. <<>> \in Seq(Int) /\ Len(<<>>) = 0
    OBVIOUS
  <2> QED BY <2>1, <2>2, Zenon
<1>5. CASE s = r
  BY <1>5, Zenon
<1>6. CASE s # r
  <2>1. PICK slot \in Nat : slot = Slot(r, at) /\ slot <= cap
    <3>1. at % cap \in 0 .. cap - 1 /\ (pushed < cap => at <= cap)
      BY <1>1
    <3>2. at % cap \in Nat /\ at % cap <= cap
      BY <3>1
    <3> QED BY <1>1, <3>1, <3>2, Zenon DEF Slot
  <2>2. Kept(r, at, none) = <<>>
    <3>1. \A x \in Int : U64(x) \in Nat
      BY DEF U64
    <3>2. LastIndex(r) - slot + 1 \in Int /\ LastIndex(r) - (slot + 1) \in Int
      <4>1. \A c \in Nat : c - 1 \in Int /\ c - 1 - slot + 1 \in Int /\ c - 1 - (slot + 1) \in Int
        OBVIOUS
      <4> QED BY <1>1, <4>1, Zenon DEF LastIndex
    <3>3. \A x \in Nat : Substr(none, 0, x) = <<>>
      <4>1. \A x \in Nat : 0 + Least(x, 0 - 0) = 0
        BY DEF Least
      <4>2. SubSeq(<<>>, 0 + 1, 0) = <<>>
        OBVIOUS
      <4> QED BY <1>4, <4>1, <4>2, Zenon DEF Substr
    <3>4. Kept(r, at, none) = Substr(none, 0, IF pushed < cap THEN U64(LastIndex(r) - slot + 1)
                                              ELSE U64(LastIndex(r) - (slot + 1)))
      BY <1>1, <2>1, Zenon DEF Kept
    <3>5. /\ U64(LastIndex(r) - slot + 1) \in Nat /\ U64(LastIndex(r) - (slot + 1)) \in Nat
      BY <3>1, <3>2, Zenon
    <3> QED BY <3>3, <3>4, <3>5, Zenon
  <2>3. PICK t : t = Overwrite(r.storage, slot, none)
    OBVIOUS
  <2>4. PICK b : b = Overwrite(r.storage_bitmap, slot, Ones(0))
    OBVIOUS
  <2>5. t \in Seq(Int) /\ Len(t) = cap
    <3>1. slot + Len(none) <= Len(r.storage)
      BY <1>2, <1>4, <2>1
    <3> QED BY <1>2, <1>4, <2>3, <3>1, OverwriteWithin
  <2>6. b \in Seq(BOOLEAN) /\ Len(b) = cap /\ Bits(b) = {}
    <3>1. slot + 0 <= Len(r.storage_bitmap) /\ 0 \in Nat
      BY <1>2, <2>1
    <3>2. /\ b \in Seq(BOOLEAN) /\ Len(b) = Len(r.storage_bitmap)
          /\ Bits(b) = Bits(r.storage_bitmap) \cup (slot + 1 .. slot + 0)
      BY <1>2, <2>4, <3>1, BitsSet, SMTT(30)
    <3>3. slot + 1 .. slot + 0 = {}
      OBVIOUS
    <3> QED BY <1>2, <1>3, <3>2, <3>3, Zenon
  <2>7. PICK p : p = Place(r, at, none)
    OBVIOUS
  <2>8. p = [r EXCEPT !.storage = t, !.storage_bitmap = b]
    <3>1. r.cur_index - at < 0 /\ ~(slot > Len(r.storage))
      BY <1>1, <1>2, <2>1
    <3>2. p = Store(r, at, none)
      <4>1. PICK skip \in Int : skip = r.cur_index - at /\ skip < 0 /\ ~(skip > 0)
        BY <1>1, <3>1
      <4>2. p = CASE skip < 0 -> Store(r, at, none)
                  [] skip >= Len(none) /\ skip > 0 -> r
                  [] OTHER -> Deliver(r, Substr(none, skip, Len(none)))
        BY <2>7, <4>1, Zenon DEF Place
      <4> QED BY <4>1, <4>2
    <3> QED BY <1>4, <2>1, <2>2, <2>3, <2>4, <3>1, <3>2, Zenon DEF Store
  <2>9. /\ p.storage = t /\ p.storage_bitmap = b /\ p.output_ = r.output_
        /\ p.cur_index = r.cur_index /\ p.seen_last = r.seen_last
        /\ p.total_len = r.total_len /\ p.fault = r.fault /\ p \in Reassemblers
    BY <1>2, <2>5, <2>6, <2>8 DEF Reassemblers
  <2>10. Consistent(p, n) /\ FirstLap(p) /\ BytesPushed(p) = pushed /\ StorageCapacity(p) = cap
    <3>1. BytesPushed(p) = BytesPushed(r) /\ StorageCapacity(p) = StorageCapacity(r)
      BY <2>9, Zenon DEF BytesPushed, StorageCapacity
    <3> QED BY <1>1, <2>5, <2>6, <2>9, <3>1, Zenon DEF Consistent, FirstLap
  <2>18. PICK d : d = Drain(p)
    OBVIOUS
  <2>11. PICK k \in Nat : d = Drain(p) /\ DrainsTo(p, d, n, k)
    BY <2>10, <2>18, DrainIs
  <2>12. /\ Consistent(d, n) /\ AllAhead(d) /\ d.output_ = r.output_ /\ StorageCapacity(d) = cap
         /\ Bits(d.storage_bitmap) = {} /\ d.seen_last /\ NewCurIndex(p) <= Len(p.storage_bitmap)
    <3>1. k = 0
      BY <2>9, <2>11, Zenon DEF DrainsTo
    <3>2. Put(r.output_, Bytes(r.output_.pushed, 0)) = r.output_
      BY <1>2, PutNothing
    <3>3. d.output_ = r.output_
      BY <1>2, <2>9, <2>10, <2>11, <3>1, <3>2, Zenon DEF DrainsTo
    <3> QED BY <2>6, <2>9, <2>10, <2>11, <3>3, Zenon DEF DrainsTo
  <2>13. PICK e : e = Mark(d, at, none, last)
    OBVIOUS
  <2>14. /\ e.output_ = r.output_ /\ e.cur_index = d.cur_index /\ e.storage = d.storage
         /\ e.storage_bitmap = d.storage_bitmap /\ e.fault = d.fault
         /\ e.seen_last /\ e \in Reassemblers
    <3>1. d \in Reassemblers
      BY <2>12, Zenon DEF Consistent
    <3>2. CASE last
      <4>1. PICK l \in Nat : l = U64(at + Len(none))
        BY <1>1, <1>4 DEF U64
      <4>2. e = [d EXCEPT !.seen_last = TRUE, !.total_len = l]
        BY <2>13, <3>2, <4>1, Zenon DEF Mark
      <4>3. /\ e.output_ = d.output_ /\ e.cur_index = d.cur_index /\ e.storage = d.storage
            /\ e.storage_bitmap = d.storage_bitmap /\ e.fault = d.fault
            /\ e.seen_last = TRUE /\ e \in Reassemblers
        BY <3>1, <4>2 DEF Reassemblers
      <4> QED BY <2>12, <4>3, Zenon
    <3>3. CASE ~last
      <4>1. e = d
        BY <2>13, <3>3, Zenon DEF Mark
      <4> QED BY <2>12, <3>1, <4>1, Zenon
    <3> QED BY <3>2, <3>3
  <2>15. s = [e EXCEPT !.output_ = r.output_]
    <3>1. Shut(r.output_) = r.output_
      BY <1>2, ShutTwice
    <3>2. CloseAtEnd(e.output_, e.seen_last, e.total_len) = r.output_
      BY <2>14, <3>1, Zenon DEF CloseAtEnd
    <3>3. ~(p.fault # "none") /\ ~(NewCurIndex(p) > Len(p.storage_bitmap))
      <4>1. NewCurIndex(p) \in Int
        <5>1. PICK x \in Nat, y \in Nat, z \in Nat :
                /\ x = BytesPushed(p) /\ y = StorageCapacity(p) /\ z = p.cur_index /\ y > 0
          BY <1>1, <1>2, <2>9, <2>10, Zenon
        <5>2. z % y \in Int /\ z \in Int
          BY <5>1
        <5> QED BY <5>1, <5>2, Zenon DEF NewCurIndex
      <4>2. PICK x \in Int, y \in Nat : x = NewCurIndex(p) /\ y = Len(p.storage_bitmap) /\ x <= y
        BY <1>1, <2>6, <2>9, <2>12, <4>1, Zenon
      <4>3. ~(x > y)
        BY <4>2
      <4> QED BY <1>2, <2>9, <4>2, <4>3, Zenon
    <3>4. s = [e EXCEPT !.output_ = CloseAtEnd(@, e.seen_last, e.total_len)]
      BY <1>1, <1>4, <1>6, <2>7, <2>11, <2>13, <3>3, Zenon DEF Insert
    <3> QED BY <3>2, <3>4, Zenon
  <2>16. /\ s.output_ = r.output_ /\ s.cur_index = d.cur_index /\ s.storage = d.storage
         /\ s.storage_bitmap = d.storage_bitmap /\ s.fault = d.fault
         /\ s.seen_last /\ s \in Reassemblers
    <3>1. r.output_ \in Pipes
      BY <1>2, Zenon DEF Intact
    <3>2. /\ s.output_ = r.output_ /\ s.cur_index = e.cur_index /\ s.storage = e.storage
          /\ s.storage_bitmap = e.storage_bitmap /\ s.fault = e.fault
          /\ s.seen_last = e.seen_last /\ s \in Reassemblers
      BY <2>14, <2>15, <3>1 DEF Reassemblers
    <3> QED BY <2>14, <3>2, Zenon
  <2>17. BytesPushed(s) = BytesPushed(d) /\ StorageCapacity(s) = StorageCapacity(d)
    BY <2>12, <2>16, Zenon DEF BytesPushed, StorageCapacity
  <2> QED BY <1>1, <1>3, <2>12, <2>16, <2>17, Zenon DEF Consistent, AllAhead, Pending
<1> QED BY <1>5, <1>6

\* Nothing waits when bytes_pending() is 0.
LEMMA NothingPending ==
  ASSUME NEW r, NEW n \in Nat, Consistent(r, n), BytesPending(r) = 0
  PROVE  Bits(r.storage_bitmap) = {}
<1>1. PICK b : b = Bits(r.storage_bitmap)
  OBVIOUS
<1>2. PICK m \in Nat : m = Len(r.storage_bitmap) /\ b \subseteq 1 .. m
  BY <1>1, ConsistentFields, Zenon DEF Bits, Consistent
<1>3. IsFiniteSet(b)
  <2>1. IsFiniteSet(1 .. m)
    BY FS_Interval
  <2> QED BY <1>2, <2>1, FS_Subset
<1>4. Cardinality(b) = 0
  BY <1>1, Zenon DEF BytesPending, Bits
<1> QED BY <1>1, <1>3, <1>4, FS_EmptySet

\* Reading takes bytes from the front of the output.
LEMMA TakeIntact ==
  ASSUME NEW p, Intact(p), NEW n \in Nat, n <= Len(p.buf),
         NEW q, q = Take(p, n)
  PROVE  /\ Intact(q) /\ q.pushed = p.pushed /\ q.popped = p.popped + n
         /\ q.cap = p.cap /\ q.closed = p.closed /\ q.error = p.error
         /\ Len(p.buf) = p.pushed - p.popped
<1>1. PICK cap \in Nat, pushed \in Nat, popped \in Nat :
        /\ cap = p.cap /\ pushed = p.pushed /\ popped = p.popped
        /\ popped <= pushed /\ pushed - popped <= cap
  BY DEF Intact, Pipes
<1>2. PICK held \in Nat : held = pushed - popped /\ popped + held = pushed /\ held <= cap
  BY <1>1
<1>3. p.buf = Bytes(popped, held) /\ Len(p.buf) = held
  <2>1. p.buf = Bytes(popped, held)
    BY <1>1, <1>2, Zenon DEF Intact
  <2> QED BY <2>1, BytesRun
<1>4. n <= held
  BY <1>3, Zenon
<1>5. PICK b \in Seq(Nat) : b = Bytes(popped + n, held - n)
  <2>1. popped + n \in Nat /\ held - n \in Nat
    BY <1>4
  <2> QED BY <2>1, BytesRun
<1>6. SubSeq(p.buf, n + 1, Len(p.buf)) = b
  <2>1. /\ n \in 0 .. held /\ Least(held, held - n) = held - n /\ n + (held - n) = held
    BY <1>4 DEF Least
  <2>2. Substr(Bytes(popped, held), n, held) = Bytes(popped + n, Least(held, held - n))
    BY <2>1, BytesPart
  <2>3. Substr(Bytes(popped, held), n, held) = SubSeq(Bytes(popped, held), n + 1, held)
    BY <1>3, <2>1, Zenon DEF Substr
  <2> QED BY <1>3, <1>5, <2>1, <2>2, <2>3, Zenon
<1>7. PICK k \in Nat : k = popped + n
  OBVIOUS
<1>8. q = [p EXCEPT !.buf = b, !.popped = k]
  BY <1>1, <1>6, <1>7, Zenon DEF Take
<1>9. /\ q.buf = b /\ q.pushed = pushed /\ q.popped = k
      /\ q.cap = cap /\ q.closed = p.closed /\ q.error = p.error /\ q \in Pipes
  <2>1. p \in Pipes
    BY Zenon DEF Intact
  <2> QED BY <1>1, <1>8, <2>1 DEF Pipes
<1>10. k <= pushed /\ pushed - k <= cap /\ held - n = pushed - k
  BY <1>2, <1>4, <1>7
<1> QED BY <1>1, <1>2, <1>3, <1>5, <1>7, <1>9, <1>10, Zenon DEF Intact

\* The Reassembler before the first substring.
LEMMA NewIs ==
  ASSUME NEW capacity \in Nat, capacity > 0, NEW n \in Nat,
         NEW r, r = NewReassembler(capacity)
  PROVE  /\ Consistent(r, n) /\ AllAhead(r) /\ Ending(r, n)
         /\ StorageCapacity(r) = capacity /\ BytesPushed(r) = 0
         /\ Pending(r) = {} /\ ~r.seen_last /\ r.total_len = 0 /\ r.output_ = NewPipe(capacity)
<1>1. PICK p : p = NewPipe(capacity)
  OBVIOUS
<1>2. p \in Pipes /\ p.cap = capacity /\ p.pushed = 0 /\ p.popped = 0 /\ p.buf = <<>> /\ ~p.closed
  BY <1>1 DEF NewPipe, Pipes
<1>3. Bytes(0, 0) = <<>>
  BY BytesEmpty
<1>4. Intact(p)
  <2>1. 0 - 0 = 0 /\ 0 <= 0 /\ 0 <= capacity
    OBVIOUS
  <2> QED BY <1>2, <1>3, <2>1, Zenon DEF Intact
<1>5. PICK st : st = [i \in 1 .. capacity |-> Blank] /\ st \in Seq(Int) /\ Len(st) = capacity
  <2>1. [i \in 1 .. capacity |-> Blank] \in Seq(Int) /\ Len([i \in 1 .. capacity |-> Blank]) = capacity
    BY DEF Blank
  <2> QED BY <2>1, Zenon
<1>6. PICK b : b = [i \in 1 .. capacity |-> FALSE] /\ b \in Seq(BOOLEAN) /\ Len(b) = capacity
  <2>1. [i \in 1 .. capacity |-> FALSE] \in Seq(BOOLEAN) /\ Len([i \in 1 .. capacity |-> FALSE]) = capacity
    OBVIOUS
  <2> QED BY <2>1, Zenon
<1>7. Bits(b) = {}
  BY <1>6, Zenon DEF Bits
<1>8. /\ r.output_ = p /\ r.cur_index = 0 /\ r.total_len = 0 /\ ~r.seen_last
      /\ r.storage = st /\ r.storage_bitmap = b /\ r.fault = "none" /\ r \in Reassemblers
  <2>1. r = [ output_ |-> p, cur_index |-> 0, total_len |-> 0, seen_last |-> FALSE,
              storage |-> st, storage_bitmap |-> b, fault |-> "none" ]
    BY <1>1, <1>5, <1>6, Zenon DEF NewReassembler
  <2> QED BY <1>2, <1>5, <1>6, <2>1 DEF Reassemblers
<1>9. 0 <= n
  OBVIOUS
<1>10. BytesPushed(r) = 0 /\ StorageCapacity(r) = capacity /\ Pending(r) = {}
  BY <1>2, <1>7, <1>8, Zenon DEF BytesPushed, StorageCapacity, Pending
<1> QED BY <1>1, <1>2, <1>4, <1>5, <1>6, <1>7, <1>8, <1>9, <1>10, Zenon
        DEF Consistent, AllAhead, Ending
=============================================================================

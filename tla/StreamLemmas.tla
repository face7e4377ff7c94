---------------------------- MODULE StreamLemmas ----------------------------
(***************************************************************************)
(* Facts about strings, about the runs of bytes a stream is made of and    *)
(* about the methods of a ByteStream, for every capacity and length.  The  *)
(* proofs about the objects that own a stream cite them.                   *)
(***************************************************************************)
EXTENDS ByteStream, SequencesExt, SequenceTheorems, FiniteSetTheorems, WellFoundedInduction, TLAPS

\* Every set of natural numbers that is not empty has a least element: the intervals
\* 0 .. k of its elements k are finite, and inclusion of finite sets is well-founded.
LEMMA LeastElement ==
  ASSUME NEW T, T \subseteq Nat, T # {}
  PROVE  \E x \in T : \A y \in T : x <= y
<1> DEFINE Below(k) == 0 .. k
           Family   == {Below(k) : k \in T}
<1>1. Family \subseteq FiniteSubsetsOf(Nat) /\ Family # {}
  <2>1. ASSUME NEW k \in T
        PROVE  Below(k) \in FiniteSubsetsOf(Nat)
    <3>1. IsFiniteSet(0 .. k)
      BY FS_Interval
    <3> QED BY <3>1 DEF FiniteSubsetsOf
  <2> QED BY <2>1
<1>2. PICK F \in Family : \A G \in Family : <<G, F>> \notin StrictSubsetOrdering(Nat)
  <2> HIDE DEF Family
  <2> QED BY <1>1, FS_StrictSubsetOrderingWellFounded, WFMin
<1>3. PICK x \in T : F = Below(x)
  BY <1>2
<1>4. ASSUME NEW y \in T
      PROVE  x <= y
  <2> SUFFICES ASSUME y < x PROVE FALSE
    BY <1>3
  <2>1. Below(y) \subseteq Below(x) /\ x \in Below(x) /\ x \notin Below(y)
    OBVIOUS
  <2>2. <<Below(y), F>> \notin StrictSubsetOrdering(Nat)
    BY <1>2
  <2>3. Below(y) \in SUBSET Nat /\ Below(x) \in SUBSET Nat
    OBVIOUS
  <2>4. Below(y) # Below(x)
    BY <2>1, Zenon
  <2> HIDE DEF Below
  <2> QED BY <1>3, <2>1, <2>2, <2>3, <2>4 DEF StrictSubsetOrdering
<1> QED BY <1>3, <1>4

\* Induction over an interval: what holds of 1, and of each next number, holds of all.
LEMMA IntervalInduction ==
  ASSUME NEW n \in Nat, NEW T, 1 \in T \/ n = 0,
         \A i \in 2 .. n : i - 1 \in T => i \in T
  PROVE  1 .. n \subseteq T
<1> SUFFICES ASSUME (1 .. n) \ T # {}
             PROVE  FALSE
  OBVIOUS
<1>0. (1 .. n) \ T \subseteq Nat
  OBVIOUS
<1>1. PICK x \in (1 .. n) \ T : \A y \in (1 .. n) \ T : x <= y
  BY <1>0, LeastElement
<1>2. CASE x = 1
  BY <1>2
<1>3. CASE x # 1
  BY <1>1, <1>3
<1> QED BY <1>2, <1>3

\* A sequence is empty when its length is 0.
LEMMA EmptyLen ==
  ASSUME NEW S, NEW s \in Seq(S)
  PROVE  Len(s) \in Nat /\ (s = <<>> <=> Len(s) = 0)
BY EmptySeq

\* The members of the object have the types the class gives them.
LEMMA StreamFields ==
  ASSUME NEW s \in Streams(Nat)
  PROVE  /\ s.capacity_ \in Nat /\ s.totalPushed \in Nat /\ s.totalPopped \in Nat
         /\ s.bytes_in_deck_ \in Nat /\ s.isClosed \in BOOLEAN /\ s.error_ \in BOOLEAN
         /\ s.deck_ \in Seq(Seq(Nat))
BY DEF Streams

\* substr() returns the run of the string it was asked for, cut where the string ends.
LEMMA SubstrRun ==
  ASSUME NEW S, NEW s \in Seq(S), NEW pos \in 0 .. Len(s), NEW n \in Nat
  PROVE  /\ Substr(s, pos, n) \in Seq(S)
         /\ Len(Substr(s, pos, n)) = Least(n, Len(s) - pos)
         /\ \A i \in 1 .. Least(n, Len(s) - pos) : Substr(s, pos, n)[i] = s[pos + i]
BY DEF Substr, Least

\* The smaller of two numbers is one of them and above neither.
LEMMA LeastBounds ==
  ASSUME NEW a \in Nat, NEW b \in Nat
  PROVE  /\ Least(a, b) \in Nat /\ Least(a, b) <= a /\ Least(a, b) <= b
         /\ a # 0 /\ b # 0 => Least(a, b) \in 1 .. a
BY DEF Least

\* The bytes the writer hands over are consecutive.
LEMMA BytesRun ==
  ASSUME NEW from \in Nat, NEW n \in Nat
  PROVE  /\ Bytes(from, n) \in Seq(Nat)
         /\ Len(Bytes(from, n)) = n
         /\ \A i \in 1 .. n : Bytes(from, n)[i] = from + i - 1
BY DEF Bytes

LEMMA BytesEmpty ==
  ASSUME NEW from \in Nat
  PROVE  Bytes(from, 0) = <<>>
BY BytesRun, EmptyLen

\* Runs of bytes: two that meet are one, and a part of one is one.
LEMMA BytesConcat ==
  ASSUME NEW from \in Nat, NEW m \in Nat, NEW n \in Nat
  PROVE  Bytes(from, m) \o Bytes(from + m, n) = Bytes(from, m + n)
<1>1. PICK s \in Seq(Nat) : s = Bytes(from, m) /\ Len(s) = m /\ \A i \in 1 .. m : s[i] = from + i - 1
  BY BytesRun
<1>2. PICK t \in Seq(Nat) : /\ t = Bytes(from + m, n) /\ Len(t) = n
                            /\ \A i \in 1 .. n : t[i] = from + m + i - 1
  <2>1. from + m \in Nat
    OBVIOUS
  <2> QED BY <2>1, BytesRun
<1>3. PICK u \in Seq(Nat) : /\ u = Bytes(from, m + n) /\ Len(u) = m + n
                            /\ \A i \in 1 .. m + n : u[i] = from + i - 1
  <2>1. m + n \in Nat
    OBVIOUS
  <2> QED BY <2>1, BytesRun
<1>4. /\ s \o t \in Seq(Nat) /\ Len(s \o t) = m + n
      /\ \A i \in 1 .. m + n : (s \o t)[i] = IF i <= m THEN s[i] ELSE t[i - m]
  BY <1>1, <1>2, ConcatProperties, SMTT(30)
<1>5. ASSUME NEW i \in 1 .. m + n
      PROVE  (s \o t)[i] = u[i]
  <2>1. CASE i <= m
    BY <1>1, <1>3, <1>4, <2>1
  <2>2. CASE ~(i <= m)
    <3>1. i - m \in 1 .. n
      BY <2>2
    <3>2. t[i - m] = from + m + (i - m) - 1
      BY <1>2, <3>1
    <3>3. (s \o t)[i] = t[i - m] /\ u[i] = from + i - 1
      BY <1>3, <1>4, <2>2
    <3> QED BY <3>2, <3>3
  <2> QED BY <2>1, <2>2
<1>6. s \o t = u
  BY <1>3, <1>4, <1>5, SeqEqual
<1> QED BY <1>1, <1>2, <1>3, <1>6

LEMMA BytesEqual ==
  ASSUME NEW from \in Nat, NEW s \in Seq(Nat), \A i \in 1 .. Len(s) : s[i] = from + i - 1
  PROVE  s = Bytes(from, Len(s))
<1>1. Len(s) \in Nat
  OBVIOUS
<1>2. /\ Bytes(from, Len(s)) \in Seq(Nat) /\ Len(Bytes(from, Len(s))) = Len(s)
      /\ \A i \in 1 .. Len(s) : Bytes(from, Len(s))[i] = from + i - 1
  BY <1>1, BytesRun
<1> QED BY <1>2, SeqEqual

LEMMA BytesPart ==
  ASSUME NEW from \in Nat, NEW n \in Nat, NEW pos \in 0 .. n, NEW k \in Nat
  PROVE  Substr(Bytes(from, n), pos, k) = Bytes(from + pos, Least(k, n - pos))
<1>1. PICK s \in Seq(Nat) : s = Bytes(from, n) /\ Len(s) = n /\ \A i \in 1 .. n : s[i] = from + i - 1
  BY BytesRun
<1>2. PICK t \in Seq(Nat) : /\ t = Substr(s, pos, k) /\ Len(t) = Least(k, n - pos)
                            /\ \A i \in 1 .. Least(k, n - pos) : t[i] = s[pos + i]
  <2>1. pos \in 0 .. Len(s)
    BY <1>1
  <2>2. /\ Substr(s, pos, k) \in Seq(Nat)
        /\ Len(Substr(s, pos, k)) = Least(k, Len(s) - pos)
        /\ \A i \in 1 .. Least(k, Len(s) - pos) : Substr(s, pos, k)[i] = s[pos + i]
    BY <2>1, SubstrRun
  <2> QED BY <1>1, <2>2, Zenon
<1>3. Least(k, n - pos) \in 0 .. n - pos
  BY DEF Least
<1>4. \A i \in 1 .. Len(t) : t[i] = (from + pos) + i - 1
  BY <1>1, <1>2, <1>3
<1>5. from + pos \in Nat
  OBVIOUS
<1>6. t = Bytes(from + pos, Len(t))
  BY <1>4, <1>5, BytesEqual
<1> QED BY <1>1, <1>2, <1>6

\* A chunk that is not empty ends at a number.
LEMMA AfterInNat ==
  ASSUME NEW c \in Seq(Nat), c # <<>>
  PROVE  Len(c) \in Nat /\ c[1] \in Nat /\ After(c) \in Nat
<1>1. Len(c) \in Nat /\ 1 \in 1 .. Len(c)
  BY EmptyLen
<1>2. c[1] \in Nat
  BY <1>1, ElementOfSeq
<1>3. c[1] + Len(c) \in Nat
  BY <1>1, <1>2
<1> QED BY <1>1, <1>2, <1>3 DEF After

\* Appending the next chunk to a tiled deque leaves it tiled.
LEMMA AppendTile ==
  ASSUME NEW d \in Seq(Seq(Nat)), NEW from \in Nat, NEW to \in Nat, Tiles(d, from, to),
         NEW c \in Seq(Nat), Consecutive(c), c[1] = to,
         NEW e, e = Append(d, c)
  PROVE  Tiles(e, from, to + Len(c))
<1>1. /\ e \in Seq(Seq(Nat)) /\ Len(e) = Len(d) + 1 /\ e # <<>>
      /\ e[Len(e)] = c /\ \A i \in 1 .. Len(d) : e[i] = d[i]
  BY AppendProperties
<1>2. to + Len(c) = After(e[Len(e)]) /\ After(e[Len(e)]) <= to + Len(c)
  <2>1. Len(c) \in Nat /\ After(c) = to + Len(c)
    BY EmptyLen DEF After
  <2> QED BY <1>1, <2>1
<1>3. ASSUME NEW i \in 1 .. Len(e)
      PROVE  Tile(e, from, to + Len(c), i)
  <2>1. CASE i \in 1 .. Len(d)
    <3>1. Tile(d, from, to, i)
      BY <2>1 DEF Tiles
    <3>2. e[i] = d[i] /\ (i # 1 => e[i - 1] = d[i - 1])
      BY <1>1, <2>1
    <3>3. After(d[i]) <= to + Len(c)
      <4>1. d[i] \in Seq(Nat) /\ d[i] # <<>>
        BY <2>1, <3>1 DEF Tile, Consecutive
      <4>2. After(d[i]) \in Nat
        BY <4>1, AfterInNat
      <4>3. Len(c) \in Nat /\ After(d[i]) <= to
        BY <3>1, EmptyLen DEF Tile
      <4> QED BY <4>2, <4>3
    <3> QED BY <3>1, <3>2, <3>3 DEF Tile
  <2>2. CASE i = Len(e) /\ d = <<>>
    BY <1>1, <1>2, <2>2 DEF Tile, Tiles
  <2>3. CASE i = Len(e) /\ d # <<>>
    BY <1>1, <1>2, <2>3 DEF Tile, Tiles
  <2> QED BY <1>1, <2>1, <2>2, <2>3
<1> QED BY <1>1, <1>2, <1>3 DEF Tiles

\* t is s without its first k elements.
Beyond(t, s, k) == Len(t) = Len(s) - k /\ \A i \in 1 .. Len(t) : t[i] = s[i + k]

\* Tail and suffixes in these terms.
LEMMA BeyondFacts ==
  ASSUME NEW S, NEW s \in Seq(S), NEW k \in 0 .. Len(s)
  PROVE  /\ SubSeq(s, k + 1, Len(s)) \in Seq(S)
         /\ Beyond(SubSeq(s, k + 1, Len(s)), s, k)
         /\ s # <<>> => Tail(s) \in Seq(S) /\ Beyond(Tail(s), s, 1)
BY DEF Beyond

\* Dropping the front chunk of a tiled deque leaves the rest tiled.
LEMMA DropTile ==
  ASSUME NEW d \in Seq(Seq(Nat)), d # <<>>,
         NEW from \in Nat, NEW to \in Nat, Tiles(d, from, to),
         NEW e \in Seq(Seq(Nat)), Beyond(e, d, 1)
  PROVE  Tiles(e, from + Len(d[1]), to)
<1>1. /\ Len(e) \in Nat /\ Len(d) \in Nat /\ Len(e) = Len(d) - 1
      /\ e = <<>> <=> Len(e) = 0
  BY EmptyLen DEF Beyond
<1>2. 1 \in 1 .. Len(d)
  BY <1>1
<1>3. After(d[1]) = from + Len(d[1])
  <2>1. Tile(d, from, to, 1)
    BY <1>2 DEF Tiles
  <2> QED BY <2>1 DEF Tile, After
<1>4. ASSUME NEW i \in 1 .. Len(e)
      PROVE  Tile(e, from + Len(d[1]), to, i)
  <2>1. i + 1 \in 1 .. Len(d) /\ i + 1 # 1 /\ (i + 1) - 1 = i
    BY <1>1
  <2>2. e[i] = d[i + 1]
    BY DEF Beyond
  <2>3. Tile(d, from, to, i + 1)
    BY <2>1 DEF Tiles
  <2>4. Consecutive(e[i]) /\ e[i][1] = After(d[i]) /\ After(e[i]) <= to
    BY <2>1, <2>2, <2>3 DEF Tile
  <2>5. CASE i = 1
    BY <1>3, <2>4, <2>5 DEF Tile
  <2>6. CASE i # 1
    <3>1. i - 1 \in 1 .. Len(e) /\ (i - 1) + 1 = i
      BY <1>1, <2>6
    <3>2. e[i - 1] = d[(i - 1) + 1]
      BY <3>1 DEF Beyond
    <3> QED BY <2>4, <2>6, <3>1, <3>2 DEF Tile
  <2> QED BY <2>5, <2>6
<1>5. to = IF e = <<>> THEN from + Len(d[1]) ELSE After(e[Len(e)])
  <2>1. to = After(d[Len(d)])
    BY DEF Tiles
  <2>2. CASE Len(e) = 0
    <3>1. Len(d) = 1 /\ e = <<>>
      BY <1>1, <2>2
    <3> QED BY <1>3, <2>1, <3>1
  <2>3. CASE Len(e) # 0
    <3>1. e[Len(e)] = d[Len(e) + 1] /\ Len(e) + 1 = Len(d)
      BY <1>1, <2>3 DEF Beyond
    <3> QED BY <1>1, <2>1, <2>3, <3>1
  <2> QED BY <2>2, <2>3
<1> QED BY <1>4, <1>5 DEF Tiles

\* A chunk without its first bytes is a chunk.
LEMMA CutChunk ==
  ASSUME NEW c \in Seq(Nat), Consecutive(c), NEW n \in Nat, n < Len(c),
         NEW r \in Seq(Nat), Beyond(r, c, n)
  PROVE  Consecutive(r) /\ r[1] = c[1] + n /\ After(r) = After(c)
<1>1. Len(c) \in Nat /\ Len(r) = Len(c) - n /\ Len(r) \in Nat /\ Len(r) # 0
  BY EmptyLen DEF Beyond
<1>2. c[1] \in Nat
  BY <1>1
<1>3. ASSUME NEW j \in 1 .. Len(r)
      PROVE  r[j] = c[1] + n + j - 1
  <2>1. j + n \in 1 .. Len(c)
    BY <1>1
  <2>2. r[j] = c[j + n]
    BY DEF Beyond
  <2>3. c[j + n] = c[1] + (j + n) - 1
    BY <2>1 DEF Consecutive
  <2> QED BY <1>2, <2>2, <2>3, SMTT(30)
<1>4. r[1] = c[1] + n
  <2>1. 1 \in 1 .. Len(r)
    BY <1>1
  <2>2. r[1] = c[1] + n + 1 - 1
    BY <1>3, <2>1
  <2> QED BY <1>2, <2>2
<1>5. r # <<>> /\ \A j \in 1 .. Len(r) : r[j] = r[1] + j - 1
  BY <1>1, <1>3, <1>4, EmptyLen
<1>6. r[1] + Len(r) = c[1] + Len(c)
  <2>1. r[1] + Len(r) = (c[1] + n) + (Len(c) - n)
    BY <1>1, <1>4
  <2>2. \A x, y \in Nat : (x + n) + (y - n) = x + y
    OBVIOUS
  <2> QED BY <1>1, <1>2, <2>1, <2>2
<1> QED BY <1>4, <1>5, <1>6 DEF Consecutive, After

\* Cutting n bytes off the head of the front chunk leaves a tiled deque tiled.
LEMMA CutTile ==
  ASSUME NEW d \in Seq(Seq(Nat)), d # <<>>,
         NEW from \in Nat, NEW to \in Nat, Tiles(d, from, to),
         NEW n \in Nat, n < Len(d[1]),
         NEW r \in Seq(Nat), Beyond(r, d[1], n),
         NEW e \in Seq(Seq(Nat)), e = [d EXCEPT ![1] = r]
  PROVE  Tiles(e, from + n, to)
<1>1. /\ Len(d) \in Nat /\ Len(d) # 0 /\ Len(e) = Len(d) /\ e # <<>> /\ e[1] = r
      /\ \A i \in 1 .. Len(d) : i # 1 => e[i] = d[i]
  BY EmptyLen
<1>2. Tile(d, from, to, 1)
  BY <1>1 DEF Tiles
<1>3. Consecutive(r) /\ r[1] = from + n /\ After(r) = After(d[1]) /\ After(r) <= to
  <2>1. d[1] \in Seq(Nat)
    BY <1>1
  <2>2. Consecutive(d[1]) /\ d[1][1] = from /\ After(d[1]) <= to
    BY <1>2 DEF Tile
  <2> QED BY <2>1, <2>2, CutChunk
<1>4. ASSUME NEW i \in 1 .. Len(e)
      PROVE  Tile(e, from + n, to, i)
  <2>1. CASE i = 1
    BY <1>1, <1>3, <2>1 DEF Tile
  <2>2. CASE i = 2
    BY <1>1, <1>3, <2>2, SMTT(30) DEF Tile, Tiles
  <2>3. CASE i > 2
    BY <1>1, <2>3, SMTT(30) DEF Tile, Tiles
  <2> QED BY <2>1, <2>2, <2>3
<1>5. to = After(e[Len(e)])
  <2>1. CASE Len(d) = 1
    BY <1>1, <1>3, <2>1 DEF Tiles
  <2>2. CASE Len(d) # 1
    BY <1>1, <2>2 DEF Tiles
  <2> QED BY <2>1, <2>2
<1> QED BY <1>1, <1>4, <1>5 DEF Tiles

\* push() of the next bytes of the stream adds one tile to the deque, or nothing.
LEMMA WriterPushTiled ==
  ASSUME NEW s \in Streams(Nat), Tiled(s), NEW n \in Nat,
         NEW t, t = WriterPush(s, Bytes(s.totalPushed, n))
  PROVE  t \in Streams(Nat) /\ Tiled(t) /\ t.bytes_in_deck_ >= s.bytes_in_deck_
<1>1. /\ s.capacity_ \in Nat /\ s.totalPushed \in Nat /\ s.totalPopped \in Nat
      /\ s.bytes_in_deck_ \in Nat
  BY StreamFields
<1>0. s.deck_ \in Seq(Seq(Nat))
  BY StreamFields
<1>2. PICK data \in Seq(Nat) :
        /\ data = Bytes(s.totalPushed, n)
        /\ Len(data) = n
        /\ \A i \in 1 .. n : data[i] = s.totalPushed + i - 1
  BY <1>1, BytesRun
<1>3. CASE AvailableCapacity(s) = 0 \/ s.isClosed \/ data = <<>>
  BY <1>0, <1>1, <1>2, <1>3 DEF WriterPush
<1>4. CASE ~(AvailableCapacity(s) = 0 \/ s.isClosed \/ data = <<>>)
  <2>1. PICK room \in Nat : room = AvailableCapacity(s) /\ room # 0
    BY <1>1, <1>4 DEF AvailableCapacity, Tiled
  <2>2. PICK c \in Seq(Nat) :
          /\ c = Substr(data, 0, room)
          /\ Len(c) = Least(room, n)
          /\ \A i \in 1 .. Least(room, n) : c[i] = data[0 + i]
    <3>1. 0 \in 0 .. Len(data) /\ Len(data) - 0 = n
      BY <1>2
    <3>2. /\ Substr(data, 0, room) \in Seq(Nat)
          /\ Len(Substr(data, 0, room)) = Least(room, Len(data) - 0)
          /\ \A i \in 1 .. Least(room, Len(data) - 0) :
               Substr(data, 0, room)[i] = data[0 + i]
      BY <2>1, <3>1, SubstrRun, ZenonT(30)
    <3> QED BY <3>1, <3>2, Zenon
  <2>3. n # 0
    BY <1>2, <1>4, EmptyLen
  <2>4. Len(c) \in Nat /\ Len(c) \in 1 .. room /\ Len(c) <= n
    BY <2>1, <2>2, <2>3, LeastBounds
  <2>5. \A i \in 1 .. Len(c) : c[i] = s.totalPushed + i - 1
    BY <1>2, <2>2, <2>4
  <2>6. Consecutive(c) /\ c[1] = s.totalPushed
    BY <1>1, <2>4, <2>5, EmptyLen DEF Consecutive
  <2>7. t = [s EXCEPT !.deck_ = Append(@, c),
                      !.totalPushed = @ + Len(c),
                      !.bytes_in_deck_ = @ + Len(c)]
    BY <1>2, <1>4, <2>1, <2>2 DEF WriterPush
  <2>8. /\ t.deck_ = Append(s.deck_, c)
        /\ t.totalPushed = s.totalPushed + Len(c)
        /\ t.bytes_in_deck_ = s.bytes_in_deck_ + Len(c)
        /\ t.capacity_ = s.capacity_ /\ t.totalPopped = s.totalPopped
    BY <2>7 DEF Streams
  <2>9. t \in Streams(Nat)
    <3>1. Append(s.deck_, c) \in Seq(Seq(Nat))
      BY <1>0
    <3>2. s.totalPushed + Len(c) \in Nat /\ s.bytes_in_deck_ + Len(c) \in Nat
      BY <1>1, <2>4, SMTT(30)
    <3> QED BY <2>7, <3>1, <3>2 DEF Streams
  <2>10. Tiles(t.deck_, t.totalPopped, t.totalPushed)
    BY <1>0, <1>1, <2>6, <2>8, AppendTile DEF Tiled
  <2>11. /\ t.bytes_in_deck_ = t.totalPushed - t.totalPopped
         /\ t.bytes_in_deck_ <= t.capacity_
         /\ t.bytes_in_deck_ >= s.bytes_in_deck_
    <3>1. /\ s.bytes_in_deck_ = s.totalPushed - s.totalPopped
          /\ Len(c) <= s.capacity_ - s.bytes_in_deck_
      BY <2>1, <2>4 DEF Tiled, AvailableCapacity
    <3>2. /\ s.bytes_in_deck_ + Len(c) = (s.totalPushed + Len(c)) - s.totalPopped
          /\ s.bytes_in_deck_ + Len(c) <= s.capacity_
          /\ s.bytes_in_deck_ + Len(c) >= s.bytes_in_deck_
      BY <1>1, <2>4, <3>1, SMTT(30)
    <3> QED BY <2>8, <3>2, Zenon
  <2> QED BY <2>9, <2>10, <2>11 DEF Tiled
<1> QED BY <1>3, <1>4

\* push() takes as much of the string as there is room for, and changes nothing but the
\* deque and its two counters.
LEMMA WriterPushCounts ==
  ASSUME NEW s \in Streams(Nat), Tiled(s), NEW n \in Nat,
         NEW t, t = WriterPush(s, Bytes(s.totalPushed, n))
  PROVE  /\ AvailableCapacity(s) \in Nat
         /\ t.totalPushed = s.totalPushed + IF s.isClosed THEN 0 ELSE Least(AvailableCapacity(s), n)
         /\ t.totalPopped = s.totalPopped /\ t.capacity_ = s.capacity_
         /\ t.isClosed = s.isClosed /\ t.error_ = s.error_
<1>1. PICK cap \in Nat, pushed \in Nat, held \in Nat :
        /\ cap = s.capacity_ /\ pushed = s.totalPushed /\ held = s.bytes_in_deck_
        /\ held <= cap
  BY StreamFields DEF Tiled
<1>2. PICK data \in Seq(Nat) : data = Bytes(pushed, n) /\ Len(data) = n
  BY BytesRun
<1>3. PICK room \in Nat : room = AvailableCapacity(s) /\ room = cap - held
  BY <1>1 DEF AvailableCapacity
<1>4. Least(room, n) \in Nat
  BY LeastBounds
<1>5. CASE room = 0 \/ s.isClosed \/ data = <<>>
  <2>1. t = s
    BY <1>1, <1>2, <1>3, <1>5, Zenon DEF WriterPush
  <2>2. ~s.isClosed => Least(room, n) = 0
    BY <1>2, <1>5, EmptyLen DEF Least
  <2>3. pushed + 0 = pushed
    OBVIOUS
  <2> QED BY <1>1, <1>3, <2>1, <2>2, <2>3, Zenon
<1>6. CASE ~(room = 0 \/ s.isClosed \/ data = <<>>)
  <2>1. Len(Substr(data, 0, room)) = Least(room, n)
    <3>1. 0 \in 0 .. Len(data) /\ Len(data) - 0 = n
      BY <1>2
    <3>2. Len(Substr(data, 0, room)) = Least(room, Len(data) - 0)
      BY <3>1, SubstrRun
    <3> QED BY <3>1, <3>2, Zenon
  <2>2. t = [s EXCEPT !.deck_ = Append(@, Substr(data, 0, room)),
                      !.totalPushed = @ + Len(Substr(data, 0, room)),
                      !.bytes_in_deck_ = @ + Len(Substr(data, 0, room))]
    BY <1>1, <1>2, <1>3, <1>6, Zenon DEF WriterPush
  <2>3. PICK c, k : c = Substr(data, 0, room) /\ k = Len(c)
    OBVIOUS
  <2>4. t = [s EXCEPT !.deck_ = Append(@, c), !.totalPushed = @ + k, !.bytes_in_deck_ = @ + k]
    BY <2>2, <2>3, Zenon
  <2>5. /\ t.totalPushed = s.totalPushed + k
        /\ t.totalPopped = s.totalPopped /\ t.capacity_ = s.capacity_
        /\ t.isClosed = s.isClosed /\ t.error_ = s.error_
    BY <2>4 DEF Streams
  <2> QED BY <1>3, <1>6, <2>1, <2>3, <2>5, Zenon
<1> QED BY <1>5, <1>6

\* A turn of the loop of pop() with bytes left to remove finds a chunk, removes at
\* least one byte and leaves the deque tiled.
LEMMA PopTurnTiled ==
  ASSUME NEW s \in Streams(Nat), Tiled(s),
         NEW left \in Nat, left # 0, left <= s.bytes_in_deck_,
         NEW t, t = PopTurn(s, left)
  PROVE  /\ s.deck_ # <<>>
         /\ PopTaken(s, left) \in 1 .. left
         /\ t \in Streams(Nat) /\ Tiled(t)
         /\ t.totalPopped = s.totalPopped + PopTaken(s, left)
         /\ t.bytes_in_deck_ = s.bytes_in_deck_ - PopTaken(s, left)
         /\ t.totalPushed = s.totalPushed /\ t.capacity_ = s.capacity_
         /\ t.isClosed = s.isClosed /\ t.error_ = s.error_
<1>1. /\ s.capacity_ \in Nat /\ s.totalPushed \in Nat /\ s.totalPopped \in Nat
      /\ s.bytes_in_deck_ \in Nat
  BY StreamFields
<1>0. s.deck_ \in Seq(Seq(Nat))
  BY StreamFields
<1>2. s.deck_ # <<>>
  BY <1>0, <1>1 DEF Tiled, Tiles
<1>3. PICK front \in Seq(Nat) : front = Head(s.deck_) /\ front = s.deck_[1]
  BY <1>0, <1>2
<1>4. Len(front) \in Nat /\ Len(front) # 0
  <2>1. 1 \in 1 .. Len(s.deck_)
    BY <1>0, <1>2, EmptyLen
  <2>2. Tile(s.deck_, s.totalPopped, s.totalPushed, 1)
    BY <2>1 DEF Tiled, Tiles
  <2> QED BY <1>3, <2>2, EmptyLen DEF Tile, Consecutive
<1>5. PICK taken \in 1 .. left : taken = PopTaken(s, left) /\ taken = Least(left, Len(front))
  BY <1>3, <1>4 DEF PopTaken, Least
<1>6. t = [s EXCEPT !.deck_ = IF Len(front) <= left
                              THEN Tail(@)
                              ELSE [@ EXCEPT ![1] = Substr(front, taken, Len(front))],
                    !.totalPopped = @ + taken,
                    !.bytes_in_deck_ = @ - taken]
  BY <1>3, <1>5 DEF PopTurn
<1>7. PICK e : e = IF Len(front) <= left
                   THEN Tail(s.deck_)
                   ELSE [s.deck_ EXCEPT ![1] = Substr(front, taken, Len(front))]
  OBVIOUS
<1>8. e \in Seq(Seq(Nat)) /\ Tiles(e, s.totalPopped + taken, s.totalPushed)
  <2>1. Tiles(s.deck_, s.totalPopped, s.totalPushed)
    BY DEF Tiled
  <2>2. CASE Len(front) <= left
    <3>1. e \in Seq(Seq(Nat)) /\ Beyond(e, s.deck_, 1) /\ taken = Len(front)
      BY <1>0, <1>2, <1>4, <1>5, <1>7, <2>2, BeyondFacts, EmptyLen DEF Least
    <3> QED BY <1>0, <1>1, <1>2, <1>3, <2>1, <3>1, DropTile
  <2>3. CASE ~(Len(front) <= left)
    <3>1. taken = left /\ taken < Len(front) /\ taken \in 0 .. Len(front) /\ taken \in Nat
      BY <1>4, <1>5, <2>3 DEF Least
    <3>2. PICK r \in Seq(Nat) : r = Substr(front, taken, Len(front)) /\ Beyond(r, front, taken)
      <4>1. Least(Len(front), Len(front) - taken) = Len(front) - taken
        BY <1>4, <3>1 DEF Least
      <4>2. taken + (Len(front) - taken) = Len(front)
        BY <1>4, <3>1
      <4>3. Substr(front, taken, Len(front)) = SubSeq(front, taken + 1, Len(front))
        BY <4>1, <4>2 DEF Substr
      <4> QED BY <3>1, <4>3, BeyondFacts
    <3>3. e = [s.deck_ EXCEPT ![1] = r]
      BY <1>7, <2>3, <3>2
    <3>4. 1 \in 1 .. Len(s.deck_)
      BY <1>0, <1>2, EmptyLen
    <3>5. e \in Seq(Seq(Nat))
      BY <1>0, <3>3, <3>4, ExceptSeq
    <3> QED BY <1>0, <1>1, <1>2, <1>3, <2>1, <3>1, <3>2, <3>3, <3>5, CutTile
  <2> QED BY <2>2, <2>3
<1>9. /\ t.deck_ = e
      /\ t.totalPushed = s.totalPushed
      /\ t.totalPopped = s.totalPopped + taken
      /\ t.bytes_in_deck_ = s.bytes_in_deck_ - taken
      /\ t.capacity_ = s.capacity_
      /\ t.isClosed = s.isClosed /\ t.error_ = s.error_
  BY <1>6, <1>7 DEF Streams
<1>10. s.totalPopped + taken \in Nat /\ s.bytes_in_deck_ - taken \in Nat
  BY <1>1, <1>5
<1>11. t \in Streams(Nat)
  BY <1>6, <1>7, <1>8, <1>10 DEF Streams
<1>12. t.bytes_in_deck_ = t.totalPushed - t.totalPopped /\ t.bytes_in_deck_ <= t.capacity_
  BY <1>1, <1>5, <1>9 DEF Tiled
<1> QED BY <1>2, <1>5, <1>8, <1>9, <1>11, <1>12 DEF Tiled

\* The front chunk is not empty, no longer than what is buffered, and holds the next bytes.
LEMMA FrontFits ==
  ASSUME NEW s \in Streams(Nat), Tiled(s), s.bytes_in_deck_ # 0
  PROVE  /\ s.deck_ # <<>> /\ Peek(s) \in Seq(Nat) /\ Peek(s) # <<>>
         /\ Len(Peek(s)) \in 1 .. s.bytes_in_deck_
         /\ \A j \in 1 .. Len(Peek(s)) : Peek(s)[j] = s.totalPopped + j - 1
<1>1. /\ s.totalPushed \in Nat /\ s.totalPopped \in Nat /\ s.bytes_in_deck_ \in Nat
  BY StreamFields
<1>2. s.deck_ \in Seq(Seq(Nat))
  BY StreamFields
<1>3. s.deck_ # <<>>
  BY <1>1 DEF Tiled, Tiles
<1>4. PICK front \in Seq(Nat) : front = Peek(s) /\ front = s.deck_[1]
  BY <1>2, <1>3 DEF Peek
<1>5. 1 \in 1 .. Len(s.deck_)
  BY <1>2, <1>3, EmptyLen
<1>6. Tile(s.deck_, s.totalPopped, s.totalPushed, 1)
  BY <1>5 DEF Tiled, Tiles
<1>7. front # <<>> /\ front[1] = s.totalPopped /\ front[1] + Len(front) <= s.totalPushed
  BY <1>4, <1>6 DEF Tile, Consecutive, After
<1>11. \A j \in 1 .. Len(front) : front[j] = s.totalPopped + j - 1
  BY <1>4, <1>6 DEF Tile, Consecutive
<1>8. Len(front) \in Nat /\ Len(front) # 0
  BY <1>7, EmptyLen
<1>9. s.bytes_in_deck_ = s.totalPushed - s.totalPopped
  BY DEF Tiled
<1>10. Len(front) \in 1 .. s.bytes_in_deck_
  BY <1>1, <1>7, <1>8, <1>9
<1> QED BY <1>3, <1>4, <1>7, <1>10, <1>11

\* The view a reader takes of the front chunk, cut to the length it wants, is a run of the
\* next bytes: at least one, no more than wanted or buffered.
LEMMA ViewRun ==
  ASSUME NEW s \in Streams(Nat), Tiled(s), s.bytes_in_deck_ # 0,
         NEW want \in Nat, want # 0
  PROVE  \E n \in Nat :
           /\ n # 0 /\ n <= want /\ n <= Len(Peek(s)) /\ n <= s.bytes_in_deck_
           /\ Substr(Peek(s), 0, want) = Bytes(s.totalPopped, n)
<1>1. PICK popped \in Nat, held \in Nat : popped = s.totalPopped /\ held = s.bytes_in_deck_
  BY StreamFields
<1>2. PICK front \in Seq(Nat) :
        /\ front = Peek(s) /\ Len(front) \in 1 .. held
        /\ \A j \in 1 .. Len(front) : front[j] = popped + j - 1
  BY <1>1, FrontFits
<1>3. PICK len \in Nat : len = Len(front) /\ len # 0 /\ len <= held /\ 0 \in 0 .. len
  BY <1>2
<1>4. front = Bytes(popped, len)
  BY <1>2, <1>3, BytesEqual
<1>5. PICK n \in Nat : n = Least(want, len) /\ n # 0 /\ n <= want /\ n <= len /\ n <= held
  BY <1>3 DEF Least
<1>6. Substr(Bytes(popped, len), 0, want) = Bytes(popped + 0, Least(want, len - 0))
  BY <1>3, BytesPart
<1>7. popped + 0 = popped /\ len - 0 = len
  OBVIOUS
<1>8. Substr(Peek(s), 0, want) = Bytes(s.totalPopped, n)
  BY <1>1, <1>2, <1>4, <1>5, <1>6, <1>7, Zenon
<1> QED BY <1>1, <1>2, <1>3, <1>5, <1>8, Zenon

-----------------------------------------------------------------------------
(* The chunks of a deque, one after the other.                             *)

\* What flattening a deque computes: the recursive function of FlattenSeq is the one that
\* satisfies its equation, when there is one.
LEMMA FlattenIs ==
  ASSUME NEW d \in Seq(Seq(Nat)), d # <<>>,
         NEW G, G = [i \in 1 .. Len(d) |-> IF i = 1 THEN d[i] ELSE G[i - 1] \o d[i]]
  PROVE  FlattenSeq(d) = G[Len(d)]
<1> DEFINE Step(f) == [i \in 1 .. Len(d) |-> IF i = 1 THEN d[i] ELSE f[i - 1] \o d[i]]
           F == CHOOSE f : f = Step(f)
<1>1. Len(d) \in Nat /\ Len(d) # 0
  BY EmptyLen
<1>2. FlattenSeq(d) = F[Len(d)]
  BY <1>1 DEF FlattenSeq
<1>3. F = Step(F)
  BY Zenon
<1>4. 1 .. Len(d) \subseteq {i \in 1 .. Len(d) : F[i] = G[i]}
  <2> DEFINE T == {i \in 1 .. Len(d) : F[i] = G[i]}
  <2> HIDE DEF F
  <2>1. ASSUME NEW i \in 1 .. Len(d)
        PROVE  /\ F[i] = IF i = 1 THEN d[i] ELSE F[i - 1] \o d[i]
               /\ G[i] = IF i = 1 THEN d[i] ELSE G[i - 1] \o d[i]
    BY <1>3, Zenon
  <2>2. 1 \in T
    <3>1. 1 \in 1 .. Len(d)
      BY <1>1
    <3>2. F[1] = d[1] /\ G[1] = d[1]
      BY <2>1, <3>1, Zenon
    <3> QED BY <3>1, <3>2, Zenon
  <2>3. ASSUME NEW i \in 2 .. Len(d), i - 1 \in T
        PROVE  i \in T
    <3>1. i \in 1 .. Len(d) /\ i # 1
      OBVIOUS
    <3>2. F[i - 1] = G[i - 1]
      BY <2>3, Zenon
    <3>3. F[i] = F[i - 1] \o d[i] /\ G[i] = G[i - 1] \o d[i]
      BY <2>1, <3>1, Zenon
    <3> QED BY <3>1, <3>2, <3>3, Zenon
  <2> HIDE DEF T
  <2>4. 1 .. Len(d) \subseteq T
    BY <1>1, <2>2, <2>3, IntervalInduction
  <2> QED BY <2>4 DEF T
<1>5. Len(d) \in {i \in 1 .. Len(d) : F[i] = G[i]}
  <2>1. Len(d) \in 1 .. Len(d)
    BY <1>1
  <2> QED BY <1>4, <2>1, Zenon
<1> QED BY <1>2, <1>5, Zenon

\* The chunks of a tiled deque, one after the other, are the run of its bytes.
LEMMA FlattenTiles ==
  ASSUME NEW d \in Seq(Seq(Nat)), NEW from \in Nat, NEW to \in Nat, Tiles(d, from, to)
  PROVE  from <= to /\ FlattenSeq(d) = Bytes(from, to - from)
<1>1. CASE d = <<>>
  <2>1. FlattenSeq(d) = <<>> /\ to = from
    BY <1>1, EmptyLen DEF FlattenSeq, Tiles
  <2>2. to - from = 0
    BY <2>1
  <2> QED BY <2>1, <2>2, BytesEmpty
<1>2. CASE d # <<>>
  <2>1. PICK n \in Nat : n = Len(d) /\ n # 0
    BY <1>2, EmptyLen
  <2> DEFINE G == [i \in 1 .. n |-> Bytes(from, After(d[i]) - from)]
  <2>2. ASSUME NEW i \in 1 .. n
        PROVE  /\ d[i] \in Seq(Nat) /\ Consecutive(d[i]) /\ After(d[i]) \in Nat
               /\ d[i][1] = IF i = 1 THEN from ELSE After(d[i - 1])
               /\ Len(d[i]) \in Nat /\ After(d[i]) = d[i][1] + Len(d[i])
               /\ d[i] = Bytes(d[i][1], Len(d[i]))
    <3>1. d[i] \in Seq(Nat)
      BY <2>1, ElementOfSeq
    <3>2. Consecutive(d[i]) /\ d[i][1] = IF i = 1 THEN from ELSE After(d[i - 1])
      BY <2>1, Zenon DEF Tiles, Tile
    <3>3. d[i] # <<>>
      BY <3>2, Zenon DEF Consecutive
    <3>4. Len(d[i]) \in Nat /\ d[i][1] \in Nat /\ After(d[i]) \in Nat
      BY <3>1, <3>3, AfterInNat
    <3>5. \A j \in 1 .. Len(d[i]) : d[i][j] = d[i][1] + j - 1
      BY <3>2, Zenon DEF Consecutive
    <3>6. d[i] = Bytes(d[i][1], Len(d[i]))
      BY <3>1, <3>4, <3>5, BytesEqual
    <3> QED BY <3>1, <3>2, <3>4, <3>6, Zenon DEF After
  <2>3. \A i \in 1 .. n : from <= After(d[i])
    <3> DEFINE T == {i \in 1 .. n : from <= After(d[i])}
    <3>1. 1 \in T
      <4>1. 1 \in 1 .. n
        BY <2>1
      <4>2. PICK a \in Nat, len \in Nat : a = After(d[1]) /\ len = Len(d[1])
        BY <2>2, <4>1, Zenon
      <4>5. a = from + len
        BY <2>2, <4>1, <4>2, Zenon
      <4>3. from <= a
        BY <4>5
      <4> QED BY <4>1, <4>2, <4>3, Zenon
    <3>2. ASSUME NEW i \in 2 .. n, i - 1 \in T
          PROVE  i \in T
      <4>1. i \in 1 .. n /\ i # 1 /\ i - 1 \in 1 .. n
        OBVIOUS
      <4>2. PICK a \in Nat, b \in Nat, len \in Nat :
              a = After(d[i - 1]) /\ b = After(d[i]) /\ len = Len(d[i])
        BY <2>2, <4>1
      <4>3. b = a + len /\ from <= a
        BY <2>2, <3>2, <4>1, <4>2, Zenon
      <4>4. from <= b
        BY <4>3
      <4> QED BY <4>1, <4>2, <4>4, Zenon
    <3> HIDE DEF T
    <3>3. 1 .. n \subseteq T
      BY <2>1, <3>1, <3>2, IntervalInduction
    <3> QED BY <3>3 DEF T
  <2>4. ASSUME NEW i \in 1 .. n
        PROVE  G[i] = IF i = 1 THEN d[i] ELSE G[i - 1] \o d[i]
    <3>1. G[i] = Bytes(from, After(d[i]) - from)
      OBVIOUS
    <3>2. CASE i = 1
      <4>1. After(d[i]) - from = Len(d[i]) /\ d[i][1] = from
        BY <2>2, <3>2
      <4> QED BY <2>2, <3>1, <3>2, <4>1, Zenon
    <3>3. CASE i # 1
      <4>1. i - 1 \in 1 .. n
        BY <3>3
      <4>2. PICK a \in Nat, b \in Nat, len \in Nat :
              a = After(d[i - 1]) /\ b = After(d[i]) /\ len = Len(d[i])
        BY <2>2, <4>1
      <4>3. b = a + len /\ from <= a /\ d[i] = Bytes(a, len)
        BY <2>2, <2>3, <3>3, <4>1, <4>2, Zenon
      <4>4. PICK m \in Nat : m = a - from /\ a = from + m /\ b - from = m + len
        <5>1. a - from \in Nat /\ a = from + (a - from) /\ b - from = (a - from) + len
          BY <4>3
        <5> QED BY <5>1
      <4>5. G[i - 1] = Bytes(from, m)
        BY <4>1, <4>2, <4>4
      <4>6. Bytes(from, m) \o Bytes(from + m, len) = Bytes(from, m + len)
        BY BytesConcat, ZenonT(30)
      <4> QED BY <3>1, <3>3, <4>2, <4>3, <4>4, <4>5, <4>6, Zenon
    <3> QED BY <3>2, <3>3
  <2>5. n \in 1 .. n /\ to = After(d[n])
    BY <1>2, <2>1 DEF Tiles
  <2>6. G = [i \in 1 .. Len(d) |-> IF i = 1 THEN d[i] ELSE G[i - 1] \o d[i]]
    <3> HIDE DEF G
    <3>1. \A i \in 1 .. n : G[i] = IF i = 1 THEN d[i] ELSE G[i - 1] \o d[i]
      BY <2>4
    <3>2. G = [i \in 1 .. n |-> G[i]]
      BY DEF G
    <3> QED BY <2>1, <3>1, <3>2, Zenon
  <2>7. FlattenSeq(d) = G[n]
    <3> HIDE DEF G
    <3> QED BY <1>2, <2>1, <2>6, FlattenIs
  <2> QED BY <2>3, <2>5, <2>7
<1> QED BY <1>1, <1>2
=============================================================================

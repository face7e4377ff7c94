-------------------------- MODULE TCPSenderProofs --------------------------
(***************************************************************************)
(* The TCPSender of TCPSenderMachine, for every capacity, every length of  *)
(* the stream, every isn, every window and every size of the words.  What  *)
(* is assumed of the acknowledgments, because the code is wrong otherwise, *)
(* stands with each theorem.                                               *)
(***************************************************************************)
EXTENDS TCPSenderMachine, TCPLemmas

Messages == [ seqno : Seqnos, SYN : BOOLEAN, payload : Seq(Nat), FIN : BOOLEAN, RST : BOOLEAN ]

Senders ==
  [ input_ : Streams(Nat), isn_ : Seqnos, cur_win_size_ : Nat, win_advertised_zero : BOOLEAN,
    msg_queue_ : Seq(Messages), bytes_in_queue_ : Nat, syn_sent : BOOLEAN, fin : BOOLEAN,
    fin_received : BOOLEAN, fin_queued : BOOLEAN, time_since_last_send : Nat,
    consec_retransmissions : Nat ]

\* The parts of the library's facts about sequences needed here, with a name for the result.
LEMMA TailIs ==
  ASSUME NEW S, NEW q \in Seq(S), q # <<>>
  PROVE  \E r \in Seq(S) : r = Tail(q) /\ Len(r) = Len(q) - 1 /\ \A i \in 1 .. Len(r) : r[i] = q[i + 1]
<1>1. /\ Tail(q) \in Seq(S) /\ Len(Tail(q)) = Len(q) - 1
      /\ \A i \in 1 .. Len(Tail(q)) : Tail(q)[i] = q[i + 1]
  OBVIOUS
<1> QED BY <1>1, Zenon

LEMMA MessageFields ==
  ASSUME NEW m \in Messages
  PROVE  /\ m.seqno \in Seqnos /\ m.SYN \in BOOLEAN /\ m.payload \in Seq(Nat)
         /\ m.FIN \in BOOLEAN /\ m.RST \in BOOLEAN
         /\ Flag(m.SYN) \in 0 .. 1 /\ Flag(m.FIN) \in 0 .. 1 /\ Len(m.payload) \in Nat
         /\ SequenceLength(m) \in Nat
         /\ SequenceLength(m) = Flag(m.SYN) + Len(m.payload) + Flag(m.FIN)
         /\ m.payload = <<>> <=> Len(m.payload) = 0
<1>1. /\ m.seqno \in Seqnos /\ m.SYN \in BOOLEAN /\ m.payload \in Seq(Nat)
      /\ m.FIN \in BOOLEAN /\ m.RST \in BOOLEAN
  BY DEF Messages
<1>2. Flag(m.SYN) \in 0 .. 1 /\ Flag(m.FIN) \in 0 .. 1
  BY <1>1 DEF Flag
<1>3. Len(m.payload) \in Nat /\ (m.payload = <<>> <=> Len(m.payload) = 0)
  BY <1>1, EmptyLen
<1>4. PICK a \in Nat, b \in Nat, c \in Nat : a = Flag(m.SYN) /\ b = Len(m.payload) /\ c = Flag(m.FIN)
  BY <1>2, <1>3
<1>5. SequenceLength(m) = a + b + c /\ a + b + c \in Nat
  BY <1>4 DEF SequenceLength
<1> QED BY <1>1, <1>2, <1>3, <1>4, <1>5, Zenon

LEMMA AppendIs ==
  ASSUME NEW q \in Seq(Messages), NEW m \in Messages
  PROVE  \E r \in Seq(Messages) : /\ r = Append(q, m) /\ Len(r) = Len(q) + 1 /\ r[Len(q) + 1] = m
                          /\ \A i \in 1 .. Len(q) : r[i] = q[i]
<1>1. /\ Append(q, m) \in Seq(Messages) /\ Len(Append(q, m)) = Len(q) + 1
      /\ Append(q, m)[Len(q) + 1] = m
      /\ \A i \in 1 .. Len(q) : Append(q, m)[i] = q[i]
  BY AppendProperties
<1> QED BY <1>1, Zenon

LEMMA SenderFields ==
  ASSUME NEW s \in Senders
  PROVE  /\ s.input_ \in Streams(Nat) /\ s.isn_ \in Seqnos /\ s.cur_win_size_ \in Nat
         /\ s.win_advertised_zero \in BOOLEAN /\ s.msg_queue_ \in Seq(Messages)
         /\ s.bytes_in_queue_ \in Nat /\ s.syn_sent \in BOOLEAN /\ s.fin \in BOOLEAN
         /\ s.fin_received \in BOOLEAN /\ s.fin_queued \in BOOLEAN
         /\ s.time_since_last_send \in Nat /\ s.consec_retransmissions \in Nat
BY DEF Senders
-----------------------------------------------------------------------------
\* Number, for a stream of which so many bytes are pushed.
NumberOf(msg, pushed) == IF msg.SYN THEN 0
                         ELSE IF msg.payload # <<>> THEN Head(msg.payload) + 1
                         ELSE pushed + 1

\* A message says what its number says, and brings no byte from beyond `far`, unless an old
\* acknowledgment has widened the window again.
Sound(msg, pushed, far) ==
  /\ msg.seqno = WrapSeq(NumberOf(msg, pushed), Isn)
  /\ msg.payload # <<>> =>
       /\ msg.payload = Bytes(Head(msg.payload), Len(msg.payload))
       /\ AcksStale \/ NumberOf(msg, pushed) + Flag(msg.SYN) + Len(msg.payload) <= far

\* Message i of the first k ends where the next begins, the last of them at `end`.
Link(q, k, end, pushed, i) ==
  LET after == NumberOf(q[i], pushed) + SequenceLength(q[i])
  IN  /\ after = IF i = k THEN end ELSE NumberOf(q[i + 1], pushed)
      /\ after <= end
      /\ i = k \/ ~q[i].FIN

\* The first k messages of the queue, and no other, have numbers: from .. end - 1, each
\* once and in order.
Chain(q, k, from, end, pushed, far) ==
  /\ q \in Seq(Messages) /\ k \in 0 .. Len(q)
  /\ \A i \in 1 .. Len(q) : (i <= k <=> SequenceLength(q[i]) > 0) /\ Sound(q[i], pushed, far)
  /\ from = IF k = 0 THEN end ELSE NumberOf(q[1], pushed)
  /\ \A i \in 1 .. k : Link(q, k, end, pushed, i)

\* Before the FIN every message of the queue has a SYN or a payload.
Opens(q) == \A i \in 1 .. Len(q) : (q[i].SYN \/ q[i].payload # <<>>) /\ ~q[i].FIN

LEMMA NumberIs ==
  ASSUME NEW m \in Messages, NEW pushed \in Nat
  PROVE  NumberOf(m, pushed) \in Nat
<1>1. CASE m.SYN
  BY <1>1 DEF NumberOf
<1>2. CASE ~m.SYN /\ m.payload # <<>>
  <2>1. m.payload \in Seq(Nat) /\ Len(m.payload) \in Nat /\ Len(m.payload) # 0
    BY <1>2, MessageFields
  <2>2. PICK h \in Nat : h = Head(m.payload)
    BY <2>1
  <2>3. h + 1 \in Nat
    OBVIOUS
  <2> QED BY <1>2, <2>2, <2>3, Zenon DEF NumberOf
<1>3. CASE ~m.SYN /\ ~(m.payload # <<>>)
  <2>1. pushed + 1 \in Nat
    OBVIOUS
  <2> QED BY <1>3, <2>1, Zenon DEF NumberOf
<1> QED BY <1>1, <1>2, <1>3

\* More bytes pushed or a farther edge change nothing of messages that open.
LEMMA ChainMoves ==
  ASSUME NEW q, NEW k, NEW from, NEW end, NEW pushed, NEW far \in Nat,
         Chain(q, k, from, end, pushed, far), NEW after, after = pushed \/ Opens(q),
         NEW edge0 \in Nat, far <= edge0, pushed \in Nat
  PROVE  Chain(q, k, from, end, after, edge0)
<1>1. q \in Seq(Messages) /\ k \in 0 .. Len(q) /\ Len(q) \in Nat
  BY Zenon, EmptyLen DEF Chain
<1>2. ASSUME NEW i \in 1 .. Len(q)
      PROVE  NumberOf(q[i], after) = NumberOf(q[i], pushed)
  BY <1>2, Zenon DEF NumberOf, Opens
<1>3. ASSUME NEW i \in 1 .. Len(q)
      PROVE  Sound(q[i], after, edge0)
  <2>1. q[i] \in Messages /\ Sound(q[i], pushed, far)
    BY <1>1, ElementOfSeq, Zenon DEF Chain
  <2>2. PICK m \in Messages : m = q[i]
    BY <2>1
  <2>3. PICK x \in Nat : x = NumberOf(m, pushed)
    BY NumberIs
  <2>4. PICK y \in Nat, z \in Nat : y = Flag(m.SYN) /\ z = Len(m.payload)
    BY MessageFields
  <2>5. x + y + z <= far => x + y + z <= edge0
    OBVIOUS
  <2>6. AcksStale \/ x + y + z <= far => AcksStale \/ x + y + z <= edge0
    BY <2>5
  <2> QED BY <1>2, <2>1, <2>2, <2>3, <2>4, <2>6, Zenon DEF Sound
<1>4. 1 .. k \subseteq 1 .. Len(q) /\ (k # 0 => 1 \in 1 .. Len(q))
      /\ \A i \in 1 .. k : i # k => i + 1 \in 1 .. Len(q)
  BY <1>1
<1>5. ASSUME NEW i \in 1 .. k
      PROVE  Link(q, k, end, after, i)
  BY <1>2, <1>4, Zenon DEF Link, Chain
<1> QED BY <1>1, <1>2, <1>3, <1>4, <1>5, Zenon DEF Chain

\* The element before the first one is gone.
LEMMA ChainTail ==
  ASSUME NEW q, NEW k \in Nat, NEW from \in Nat, NEW end \in Nat, NEW pushed \in Nat, NEW far,
         Chain(q, k, from, end, pushed, far), k # 0
  PROVE  /\ q # <<>> /\ Head(q) = q[1] /\ q[1] \in Messages /\ SequenceLength(q[1]) > 0
         /\ from + SequenceLength(q[1]) <= end
         /\ k # 1 => ~q[1].FIN
         /\ Tail(q) \in Seq(Messages)
         /\ Chain(Tail(q), k - 1, from + SequenceLength(q[1]), end, pushed, far)
<1>1. q \in Seq(Messages) /\ k \in 1 .. Len(q) /\ Len(q) \in Nat /\ q # <<>>
  <2>1. q \in Seq(Messages) /\ k \in 0 .. Len(q)
    BY Zenon DEF Chain
  <2> QED BY <2>1, EmptyLen
<1>2. Head(q) = q[1] /\ q[1] \in Messages
  BY <1>1
<1>3. PICK r \in Seq(Messages) :
        r = Tail(q) /\ Len(r) = Len(q) - 1 /\ \A i \in 1 .. Len(r) : r[i] = q[i + 1]
  BY <1>1, TailIs
<1>4. 1 \in 1 .. k /\ 1 \in 1 .. Len(q) /\ 1 <= k
  BY <1>1
<1>5. Link(q, k, end, pushed, 1) /\ from = NumberOf(q[1], pushed) /\ SequenceLength(q[1]) > 0
  BY <1>4, Zenon DEF Chain
<1>6. PICK after \in Nat : after = from + SequenceLength(q[1])
  BY <1>2, MessageFields
<1>7. /\ after = IF 1 = k THEN end ELSE NumberOf(q[1 + 1], pushed)
      /\ after <= end
      /\ 1 = k \/ ~q[1].FIN
  BY <1>5, <1>6, Zenon DEF Link
<1>8. PICK j \in Nat : j = k - 1 /\ j \in 0 .. Len(r)
  BY <1>1, <1>3
<1>9. ASSUME NEW i \in 1 .. Len(r)
      PROVE  (i <= j <=> SequenceLength(r[i]) > 0) /\ Sound(r[i], pushed, far)
  <2>1. i + 1 \in 1 .. Len(q) /\ (i <= j <=> i + 1 <= k)
    BY <1>1, <1>3, <1>8
  <2>2. (i + 1 <= k <=> SequenceLength(q[i + 1]) > 0) /\ Sound(q[i + 1], pushed, far)
    BY <2>1, Zenon DEF Chain
  <2> QED BY <1>3, <2>1, <2>2, Zenon
<1>10. after = IF j = 0 THEN end ELSE NumberOf(r[1], pushed)
  <2>1. j = 0 <=> 1 = k
    BY <1>8
  <2>2. 1 # k => r[1] = q[1 + 1]
    BY <1>1, <1>3
  <2> QED BY <1>7, <2>1, <2>2, Zenon
<1>11. ASSUME NEW i \in 1 .. j
       PROVE  Link(r, j, end, pushed, i)
  <2>1. i + 1 \in 1 .. k /\ i \in 1 .. Len(r) /\ (i = j <=> i + 1 = k)
        /\ (i # j => i + 1 \in 1 .. Len(r))
    BY <1>8
  <2>2. Link(q, k, end, pushed, i + 1)
    BY <2>1, Zenon DEF Chain
  <2>3. r[i] = q[i + 1] /\ (i # j => r[i + 1] = q[i + 1 + 1])
    BY <1>3, <2>1
  <2> QED BY <2>1, <2>2, <2>3, Zenon DEF Link
<1>12. Chain(r, j, after, end, pushed, far)
  BY <1>8, <1>9, <1>10, <1>11, Zenon DEF Chain
<1>13. k # 1 => ~q[1].FIN
  BY <1>7
<1> QED BY <1>1, <1>2, <1>3, <1>5, <1>6, <1>7, <1>8, <1>12, <1>13, Zenon

\* A message with a number, appended where all before it have one and none ends the stream.
LEMMA ChainAppend ==
  ASSUME NEW q, NEW k \in Nat, NEW from \in Nat, NEW end \in Nat, NEW pushed \in Nat, NEW far,
         Chain(q, k, from, end, pushed, far), Opens(q),
         NEW m \in Messages, SequenceLength(m) > 0, Sound(m, pushed, far),
         NumberOf(m, pushed) = end, NEW after \in Nat, after = end + SequenceLength(m)
  PROVE  k = Len(q) /\ Chain(Append(q, m), k + 1, from, after, pushed, far)
<1>1. q \in Seq(Messages) /\ k \in 0 .. Len(q) /\ Len(q) \in Nat
  <2>1. q \in Seq(Messages) /\ k \in 0 .. Len(q)
    BY Zenon DEF Chain
  <2> QED BY <2>1
<1>2. ASSUME NEW i \in 1 .. Len(q)
      PROVE  SequenceLength(q[i]) > 0
  <2>1. PICK x \in Messages : x = q[i]
    BY <1>1
  <2>2. x.SYN \/ x.payload # <<>>
    BY <2>1, Zenon DEF Opens
  <2>3. PICK f \in Nat, g \in Nat, n \in Nat :
          f = Flag(x.SYN) /\ g = Len(x.payload) /\ n = Flag(x.FIN)
    BY MessageFields
  <2>4. f # 0 \/ g # 0
    BY <2>2, <2>3, MessageFields DEF Flag
  <2>5. SequenceLength(x) = f + g + n
    BY <2>3, MessageFields, Zenon
  <2>6. f + g + n > 0
    BY <2>4
  <2> QED BY <2>1, <2>5, <2>6
<1>3. k = Len(q)
  <2>1. Len(q) # 0 => Len(q) \in 1 .. Len(q)
    BY <1>1
  <2>2. Len(q) # 0 => Len(q) <= k
    BY <1>2, <2>1, Zenon DEF Chain
  <2> QED BY <1>1, <2>2
<1>4. PICK r \in Seq(Messages) : /\ r = Append(q, m) /\ Len(r) = k + 1 /\ r[k + 1] = m
                                 /\ \A i \in 1 .. k : r[i] = q[i]
  <2>1. q \in Seq(Messages)
    BY <1>1
  <2>2. \E r \in Seq(Messages) : /\ r = Append(q, m) /\ Len(r) = Len(q) + 1 /\ r[Len(q) + 1] = m
                                 /\ \A i \in 1 .. Len(q) : r[i] = q[i]
    BY <2>1, AppendIs
  <2> QED BY <1>3, <2>2, Zenon
<1>5. PICK j \in Nat : j = k + 1 /\ j # 0 /\ j \in 0 .. Len(r)
  BY <1>4
<1>6. ASSUME NEW i \in 1 .. Len(r)
      PROVE  (i <= j <=> SequenceLength(r[i]) > 0) /\ Sound(r[i], pushed, far)
  <2>1. i <= j /\ (i = j \/ i \in 1 .. k)
    BY <1>4, <1>5
  <2>2. CASE i = j
    BY <1>4, <1>5, <2>1, <2>2, Zenon
  <2>3. CASE i \in 1 .. k
    <3>1. SequenceLength(q[i]) > 0 /\ Sound(q[i], pushed, far)
      BY <1>2, <1>3, <2>3, Zenon DEF Chain
    <3> QED BY <1>4, <2>1, <2>3, <3>1, Zenon
  <2> QED BY <2>1, <2>2, <2>3
<1>7. from = IF j = 0 THEN after ELSE NumberOf(r[1], pushed)
  <2>1. CASE k = 0
    <3>1. r[1] = m
      BY <1>4, <2>1
    <3>2. from = end
      BY <2>1, Zenon DEF Chain
    <3> QED BY <1>5, <3>1, <3>2, Zenon
  <2>2. CASE k # 0
    <3>1. r[1] = q[1]
      BY <1>4, <2>2
    <3>2. from = NumberOf(q[1], pushed)
      BY <2>2, Zenon DEF Chain
    <3> QED BY <1>5, <3>1, <3>2, Zenon
  <2> QED BY <2>1, <2>2
<1>8. end <= after
  BY MessageFields
<1>9. ASSUME NEW i \in 1 .. j
      PROVE  Link(r, j, after, pushed, i)
  <2>1. CASE i = j
    <3>1. NumberOf(r[i], pushed) + SequenceLength(r[i]) = after /\ after <= after
      BY <1>4, <1>5, <2>1
    <3> QED BY <2>1, <3>1, Zenon DEF Link
  <2>2. CASE i # j
    <3>1. i \in 1 .. k /\ i \in 1 .. Len(q) /\ (i = k => i + 1 = j) /\ i + 1 \in 1 .. j
          /\ (i # k => i + 1 \in 1 .. k)
      BY <1>3, <1>5, <2>2
    <3>2. Link(q, k, end, pushed, i)
      BY <3>1, Zenon DEF Chain
    <3>3. r[i] = q[i] /\ r[i + 1] = IF i = k THEN m ELSE q[i + 1]
      BY <1>4, <1>5, <3>1
    <3>4. PICK n : n = NumberOf(q[i], pushed) + SequenceLength(q[i])
      OBVIOUS
    <3>5. n = (IF i = k THEN end ELSE NumberOf(q[i + 1], pushed)) /\ n <= end
      BY <3>2, <3>4, Zenon DEF Link
    <3>6. n = NumberOf(r[i + 1], pushed)
      BY <3>3, <3>5, Zenon
    <3>7. n <= after
      <4>1. n \in Nat
        <5>1. PICK x \in Messages : x = q[i]
          BY <1>1, <3>1
        <5>2. PICK y \in Nat, z \in Nat : y = NumberOf(x, pushed) /\ z = SequenceLength(x)
          BY NumberIs, MessageFields
        <5> QED BY <3>4, <5>1, <5>2, SMTT(30)
      <4> QED BY <1>8, <3>5, <4>1
    <3>8. ~q[i].FIN
      BY <3>1, Zenon DEF Opens
    <3> QED BY <2>2, <3>3, <3>4, <3>6, <3>7, <3>8, Zenon DEF Link
  <2> QED BY <2>1, <2>2
<1>10. Chain(r, j, from, after, pushed, far)
  BY <1>5, <1>6, <1>7, <1>9, Zenon DEF Chain
<1> QED BY <1>3, <1>4, <1>5, <1>10, Zenon

\* A message without a number changes nothing of the others.
LEMMA ChainAppendEmpty ==
  ASSUME NEW q, NEW k \in Nat, NEW from, NEW end, NEW pushed, NEW far,
         Chain(q, k, from, end, pushed, far),
         NEW m \in Messages, SequenceLength(m) = 0, Sound(m, pushed, far)
  PROVE  Chain(Append(q, m), k, from, end, pushed, far)
<1>1. q \in Seq(Messages) /\ k \in 0 .. Len(q) /\ Len(q) \in Nat
  <2>1. q \in Seq(Messages) /\ k \in 0 .. Len(q)
    BY Zenon DEF Chain
  <2> QED BY <2>1
<1>2. PICK r \in Seq(Messages) : /\ r = Append(q, m) /\ Len(r) = Len(q) + 1 /\ r[Len(q) + 1] = m
                                 /\ \A i \in 1 .. Len(q) : r[i] = q[i]
  <2>1. q \in Seq(Messages)
    BY <1>1
  <2> QED BY <2>1, AppendIs
<1>3. k \in 0 .. Len(r) /\ (k # 0 => 1 \in 1 .. Len(q)) /\ 1 .. k \subseteq 1 .. Len(q)
      /\ (\A i \in 1 .. k : i # k => i + 1 \in 1 .. Len(q)) /\ ~(0 > 0)
  BY <1>1, <1>2
<1>4. ASSUME NEW i \in 1 .. Len(r)
      PROVE  (i <= k <=> SequenceLength(r[i]) > 0) /\ Sound(r[i], pushed, far)
  <2>1. CASE i = Len(q) + 1
    <3>1. ~(i <= k)
      BY <1>1, <2>1
    <3> QED BY <1>2, <1>3, <2>1, <3>1, Zenon
  <2>2. CASE i # Len(q) + 1
    <3>1. i \in 1 .. Len(q)
      BY <1>1, <1>2, <2>2
    <3>2. (i <= k <=> SequenceLength(q[i]) > 0) /\ Sound(q[i], pushed, far)
      BY <3>1, Zenon DEF Chain
    <3> QED BY <1>2, <3>1, <3>2, Zenon
  <2> QED BY <2>1, <2>2
<1>5. from = IF k = 0 THEN end ELSE NumberOf(r[1], pushed)
  BY <1>2, <1>3, Zenon DEF Chain
<1>6. ASSUME NEW i \in 1 .. k
      PROVE  Link(r, k, end, pushed, i)
  <2>1. Link(q, k, end, pushed, i) /\ i \in 1 .. Len(q) /\ (i # k => i + 1 \in 1 .. Len(q))
    BY <1>3, Zenon DEF Chain
  <2> QED BY <1>2, <2>1, Zenon DEF Link
<1> QED BY <1>2, <1>3, <1>4, <1>5, <1>6, Zenon DEF Chain
-----------------------------------------------------------------------------
\* What the stream and the flags of the sender count, with message m being built.
Carried(m) == Flag(m.SYN) + Len(m.payload)
UptoOf(s)  == Flag(s.syn_sent) + s.input_.totalPopped + Flag(s.fin_queued)
Emptied(x) == x.isClosed /\ x.totalPopped = x.totalPushed

\* The flags agree with the stream; before the SYN nothing has happened.
Settled(s, m) ==
  /\ s.isn_ = Isn /\ Tiled(s.input_) /\ s.input_.totalPushed <= StreamLen
  /\ ~s.syn_sent => s.msg_queue_ = <<>> /\ s.input_.totalPopped = 0 /\ ~s.fin
  /\ s.fin <=> (s.fin_queued \/ m.FIN)
  /\ s.fin => Emptied(s.input_)
  /\ s.fin_received => s.fin_queued

\* What the queue holds, up to the number where the message being built begins.
Unacked(s, m, k, from, end, far) ==
  /\ Chain(s.msg_queue_, k, from, end, s.input_.totalPushed, far)
  /\ end + Carried(m) = UptoOf(s)
  /\ from + s.bytes_in_queue_ = end
  /\ s.fin_received => k = 0
  /\ s.fin_queued \/ Opens(s.msg_queue_)

\* Counted from number n on, the window in force is one that was announced.
Announced(s, n, e) == AcksStale \/ (n + s.cur_win_size_ <= e /\ n + 1 <= e)

\* The queue begins with what the peer has not acknowledged; before it, if acknowledgments
\* got lost.
Begins(s, from, a, e) ==
  /\ from <= a /\ Announced(s, from, e)
  /\ AcksLost \/ from = a

Base(s, m, a, e) == s \in Senders /\ Settled(s, m) /\ a \in Nat /\ e \in Nat

\* Between two calls, and between two turns of push(); a is what the peer has acknowledged.
Quiet(s, a, e) ==
  /\ Base(s, EmptyMessage, a, e)
  /\ \E k, from, end \in Nat : Unacked(s, EmptyMessage, k, from, end, e) /\ Begins(s, from, a, e)

\* With a zero window a stream that was closed before the first push() is stuck in the inner
\* loop, which waits for a message of length one.
Stuck(m) == m.SYN /\ m.FIN /\ m.payload = <<>>

\* A message under construction, whose payload begins at byte `base` of the stream.
Building(s, m, base) ==
  /\ m \in Messages /\ s.syn_sent
  /\ base + Len(m.payload) = s.input_.totalPopped
  /\ m.payload = Bytes(base, Len(m.payload))
  /\ m.seqno = WrapSeq(IF m.SYN THEN 0 ELSE base + 1, Isn)
  /\ m.SYN => s.msg_queue_ = <<>> /\ base = 0
  /\ m.SYN \/ m.payload # <<>> => ~s.fin_queued
  /\ SequenceLength(m) > 0 /\ s.cur_win_size_ # 0 => Flight(s, m) <= s.cur_win_size_
  /\ s.cur_win_size_ = 0 =>
       /\ SequenceLength(m) <= 1 \/ Stuck(m)
       /\ BytesBuffered(s.input_) = 0 => SequenceLength(m) >= 1
       /\ m.payload # <<>> => s.msg_queue_ = <<>>

InTurn(s, m, a, e) ==
  /\ Base(s, m, a, e)
  /\ \E k, from, end, base \in Nat :
       Unacked(s, m, k, from, end, e) /\ Begins(s, from, a, e) /\ Building(s, m, base)

\* receive() of number n in progress.  If no acknowledgment is lost n is news for the queue
\* only if it is its end or that of its first message.
Acking(s, ackno, n, a, k, from, end) ==
  /\ s.msg_queue_ = <<>> \/ ackno = WrapSeq(n, Isn)
  /\ n <= a /\ n <= StreamLen + 2
  /\ \/ AcksLost \/ from = a
     \/ n = a /\ a = end
     \/ n = a /\ k # 0 /\ a = from + SequenceLength(s.msg_queue_[1])

InAcks(s, ackno, a, e) ==
  /\ Base(s, EmptyMessage, a, e)
  /\ \E k, from, end, n \in Nat :
       /\ Unacked(s, EmptyMessage, k, from, end, e) /\ from <= a
       /\ Announced(s, from, e) /\ Announced(s, n, e)
       /\ Acking(s, ackno, n, a, k, from, end)
-----------------------------------------------------------------------------
LEMMA FlagIs ==
  ASSUME NEW b \in BOOLEAN
  PROVE  Flag(b) \in Nat /\ (b => Flag(b) = 1) /\ (~b => Flag(b) = 0)
BY DEF Flag

LEMMA EmptyFields ==
  /\ EmptyMessage \in Messages /\ ~EmptyMessage.SYN /\ ~EmptyMessage.FIN
  /\ EmptyMessage.payload = <<>> /\ Carried(EmptyMessage) = 0
<1>1. EmptyMessage \in Messages /\ ~EmptyMessage.SYN /\ ~EmptyMessage.FIN /\ EmptyMessage.payload = <<>>
  BY RelSeqMaxAssumption DEF EmptyMessage, Messages, Seqnos
<1>2. PICK m \in Messages : m = EmptyMessage /\ ~m.SYN /\ m.payload = <<>>
  BY <1>1
<1>3. Flag(m.SYN) = 0 /\ Len(m.payload) = 0
  BY <1>2, FlagIs, MessageFields
<1>4. 0 + 0 = 0
  OBVIOUS
<1>5. Carried(m) = 0
  BY <1>3, <1>4, Zenon DEF Carried
<1> QED BY <1>1, <1>2, <1>5, Zenon

\* The stream is empty when everything pushed is popped.
LEMMA EmptyStream ==
  ASSUME NEW x \in Streams(Nat), Tiled(x)
  PROVE  /\ x.deck_ = <<>> <=> x.totalPopped = x.totalPushed
         /\ BytesBuffered(x) = 0 <=> x.totalPopped = x.totalPushed
         /\ BytesBuffered(x) = x.bytes_in_deck_
         /\ x.bytes_in_deck_ + x.totalPopped = x.totalPushed
         /\ IsFinished(x) <=> Emptied(x)
<1>1. PICK popped \in Nat, pushed \in Nat, held \in Nat :
        popped = x.totalPopped /\ pushed = x.totalPushed /\ held = x.bytes_in_deck_
  BY StreamFields
<1>2. held = pushed - popped
  BY <1>1, Zenon DEF Tiled
<1>3. held + popped = pushed /\ (held = 0 <=> popped = pushed)
  BY <1>2
<1>4. x.deck_ = <<>> => popped = pushed
  BY <1>1, Zenon DEF Tiled, Tiles
<1>5. CASE x.deck_ # <<>>
  <2>1. popped # pushed
    <3>1. x.deck_ \in Seq(Seq(Nat)) /\ 1 \in 1 .. Len(x.deck_)
      <4>1. x.deck_ \in Seq(Seq(Nat))
        BY StreamFields
      <4> QED BY <4>1, <1>5, EmptyLen
    <3>2. Tile(x.deck_, popped, pushed, 1)
      BY <1>1, <3>1, Zenon DEF Tiled, Tiles
    <3>3. PICK c \in Seq(Nat) : c = x.deck_[1]
      BY <3>1
    <3>4. c # <<>> /\ c[1] = popped /\ After(c) <= pushed
      BY <3>2, <3>3, Zenon DEF Tile, Consecutive
    <3>5. Len(c) \in Nat /\ Len(c) # 0 /\ After(c) = popped + Len(c)
      BY <3>4, EmptyLen DEF After
    <3> QED BY <3>4, <3>5
  <2> QED BY <1>1, <1>3, <1>5, <2>1, Zenon DEF BytesBuffered, IsFinished, Emptied
<1>6. CASE x.deck_ = <<>>
  BY <1>1, <1>3, <1>4, <1>6, Zenon DEF BytesBuffered, IsFinished, Emptied
<1> QED BY <1>5, <1>6

\* What a call leaves alone when it does not touch the queue.
SameQueue(s, t) ==
  /\ t.isn_ = s.isn_ /\ t.msg_queue_ = s.msg_queue_ /\ t.bytes_in_queue_ = s.bytes_in_queue_
  /\ t.syn_sent = s.syn_sent /\ t.fin = s.fin /\ t.fin_received = s.fin_received
  /\ t.fin_queued = s.fin_queued

\* A sender with another stream.
Restreams(s, x, t) == t = [s EXCEPT !.input_ = x]

LEMMA WithInput ==
  ASSUME NEW s \in Senders, NEW x \in Streams(Nat), NEW t, Restreams(s, x, t)
  PROVE  /\ t \in Senders /\ t.input_ = x /\ t.cur_win_size_ = s.cur_win_size_
         /\ SameQueue(s, t)
BY DEF Senders, SameQueue, Restreams

SameStream(x, y) ==
  /\ Tiled(x) => Tiled(y)
  /\ y.totalPushed = x.totalPushed /\ y.totalPopped = x.totalPopped /\ y.isClosed = x.isClosed

\* With the queue and the stream as they were, both are as good as they were.
LEMMA SameKeeps ==
  ASSUME NEW s, NEW t, NEW m, NEW k, NEW from, NEW end, NEW far \in Nat,
         NEW far2 \in Nat, far <= far2,
         Settled(s, m), Unacked(s, m, k, from, end, far), SameQueue(s, t),
         SameStream(s.input_, t.input_), s.input_.totalPushed \in Nat
  PROVE  Settled(t, m) /\ Unacked(t, m, k, from, end, far2)
<1>1. Settled(t, m)
  BY Zenon DEF Settled, SameQueue, SameStream, Emptied
<1>2. Chain(s.msg_queue_, k, from, end, s.input_.totalPushed, far)
  BY Zenon DEF Unacked
<1>7. PICK q : q = s.msg_queue_
  OBVIOUS
<1>3. PICK p \in Nat : p = s.input_.totalPushed
  OBVIOUS
<1>4. Chain(q, k, from, end, p, far)
  BY <1>2, <1>3, <1>7, Zenon
<1>5. Chain(q, k, from, end, p, far2)
  BY <1>4, ChainMoves
<1>6. UptoOf(t) = UptoOf(s)
  BY Zenon DEF UptoOf, SameQueue, SameStream
<1> QED BY <1>1, <1>3, <1>5, <1>6, <1>7, Zenon DEF Unacked, SameQueue, SameStream

\* Write: a stream that is closed takes nothing, and before it is closed there is no FIN.
LEMMA WriteKeeps ==
  ASSUME NEW s, NEW a, NEW e, Quiet(s, a, e), NEW n \in Nat, s.input_.totalPushed + n <= StreamLen,
         NEW t, t = [s EXCEPT !.input_ = WriterPush(@, Bytes(@.totalPushed, n))]
  PROVE  Quiet(t, a, e)
<1>1. s \in Senders /\ Settled(s, EmptyMessage) /\ a \in Nat /\ e \in Nat
  BY Zenon DEF Quiet, Base
<1>2. PICK k \in Nat, from \in Nat, end \in Nat :
        Unacked(s, EmptyMessage, k, from, end, e) /\ Begins(s, from, a, e)
  BY Zenon DEF Quiet
<1>3. PICK x \in Streams(Nat) : x = s.input_ /\ Tiled(x)
  <2>1. s.input_ \in Streams(Nat)
    BY <1>1, SenderFields
  <2>2. Tiled(s.input_)
    BY <1>1, Zenon DEF Settled
  <2> QED BY <2>1, <2>2
<1>4. PICK y : y = WriterPush(x, Bytes(x.totalPushed, n))
  OBVIOUS
<1>5. y \in Streams(Nat) /\ Tiled(y)
  BY <1>3, <1>4, WriterPushTiled
<1>6. /\ AvailableCapacity(x) \in Nat
      /\ y.totalPushed = x.totalPushed + (IF x.isClosed THEN 0 ELSE Least(AvailableCapacity(x), n))
      /\ y.totalPopped = x.totalPopped
      /\ y.isClosed = x.isClosed
  BY <1>3, <1>4, WriterPushCounts
<1>7. x.totalPushed \in Nat /\ y.totalPushed \in Nat
  BY <1>3, <1>5, StreamFields
<1>8. t = [s EXCEPT !.input_ = y]
  BY <1>3, <1>4
<1>9. /\ t \in Senders /\ t.input_ = y /\ t.isn_ = s.isn_
      /\ t.cur_win_size_ = s.cur_win_size_ /\ t.msg_queue_ = s.msg_queue_
      /\ t.bytes_in_queue_ = s.bytes_in_queue_ /\ t.syn_sent = s.syn_sent /\ t.fin = s.fin
      /\ t.fin_received = s.fin_received /\ t.fin_queued = s.fin_queued
  <2>1. s \in Senders /\ y \in Streams(Nat) /\ Restreams(s, y, t)
    BY <1>1, <1>5, <1>8, Zenon DEF Restreams
  <2>2. t \in Senders /\ t.input_ = y /\ t.cur_win_size_ = s.cur_win_size_ /\ SameQueue(s, t)
    BY <2>1, WithInput, ZenonT(30)
  <2> QED BY <2>2, Zenon DEF SameQueue
<1>10. y.totalPushed <= StreamLen /\ (x.isClosed => y.totalPushed = x.totalPushed)
  <2>1. CASE x.isClosed
    <3>1. y.totalPushed = x.totalPushed
      BY <1>6, <1>7, <2>1
    <3>2. x.totalPushed <= StreamLen
      BY <1>1, <1>3, Zenon DEF Settled
    <3> QED BY <3>1, <3>2, Zenon
  <2>2. CASE ~x.isClosed
    <3>1. PICK l \in Nat : l = Least(AvailableCapacity(x), n) /\ l <= n
      BY <1>6, LeastBounds
    <3>2. x.totalPushed + l <= x.totalPushed + n
      BY <1>7, <3>1
    <3>3. y.totalPushed = x.totalPushed + l
      BY <1>6, <2>2, <3>1
    <3>4. x.totalPushed + n <= StreamLen /\ StreamLen \in Nat
      BY <1>3, MachineAssumption
    <3> QED BY <1>7, <2>2, <3>1, <3>3, <3>4
  <2> QED BY <2>1, <2>2
<1>11. Settled(t, EmptyMessage)
  BY <1>1, <1>3, <1>5, <1>6, <1>9, <1>10, Zenon DEF Settled, Emptied
<1>12. Unacked(t, EmptyMessage, k, from, end, e)
  <2>1. PICK q : q = s.msg_queue_
    OBVIOUS
  <2>2. y.totalPushed = x.totalPushed \/ Opens(q)
    <3>1. CASE s.fin_queued
      BY <1>1, <1>3, <1>10, <3>1, Zenon DEF Settled, Emptied
    <3>2. CASE ~s.fin_queued
      BY <1>2, <2>1, <3>2, Zenon DEF Unacked
    <3> QED BY <3>1, <3>2
  <2>3. Chain(q, k, from, end, x.totalPushed, e)
    BY <1>2, <1>3, <2>1, Zenon DEF Unacked
  <2>4. PICK was \in Nat, to \in Nat : was = x.totalPushed /\ to = y.totalPushed
    BY <1>7
  <2>5. Chain(q, k, from, end, to, e)
    <3>1. e <= e /\ Chain(q, k, from, end, was, e) /\ (to = was \/ Opens(q))
      BY <1>1, <2>2, <2>3, <2>4
    <3> QED BY <1>1, <3>1, ChainMoves
  <2>6. UptoOf(t) = UptoOf(s)
    BY <1>3, <1>6, <1>9, Zenon DEF UptoOf
  <2> QED BY <1>2, <1>3, <1>9, <2>1, <2>4, <2>5, <2>6, Zenon DEF Unacked
<1> QED BY <1>1, <1>2, <1>9, <1>11, <1>12, Zenon DEF Quiet, Base, Begins, Announced

\* A call that leaves the queue and the stream alone, whatever it does to the window.
LEMMA SameQuiet ==
  ASSUME NEW s, NEW a, NEW e, Quiet(s, a, e), NEW t \in Senders, SameQueue(s, t),
         SameStream(s.input_, t.input_), t.cur_win_size_ = s.cur_win_size_
  PROVE  Quiet(t, a, e)
<1>1. s \in Senders /\ Settled(s, EmptyMessage) /\ a \in Nat /\ e \in Nat
  BY Zenon DEF Quiet, Base
<1>2. PICK k \in Nat, from \in Nat, end \in Nat :
        Unacked(s, EmptyMessage, k, from, end, e) /\ Begins(s, from, a, e)
  BY Zenon DEF Quiet
<1>3. s.input_.totalPushed \in Nat
  <2>1. s.input_ \in Streams(Nat)
    BY <1>1, SenderFields
  <2> QED BY <2>1, StreamFields
<1>4. e <= e
  BY <1>1
<1>5. PICK m : m = EmptyMessage
  OBVIOUS
<1>6. Settled(t, m) /\ Unacked(t, m, k, from, end, e)
  <2>1. Settled(s, m) /\ Unacked(s, m, k, from, end, e)
    BY <1>1, <1>2, <1>5, Zenon
  <2> QED BY <1>1, <1>3, <1>4, <2>1, SameKeeps
<1> QED BY <1>1, <1>2, <1>5, <1>6, Zenon DEF Quiet, Base, Begins, Announced

\* Close: the application closes once.
LEMMA CloseKeeps ==
  ASSUME NEW s, NEW a, NEW e, Quiet(s, a, e),
         NEW t, t = [s EXCEPT !.input_ = WriterClose(@)]
  PROVE  Quiet(t, a, e)
<1>1. s \in Senders /\ Settled(s, EmptyMessage) /\ a \in Nat /\ e \in Nat
  BY Zenon DEF Quiet, Base
<1>2. PICK k \in Nat, from \in Nat, end \in Nat :
        Unacked(s, EmptyMessage, k, from, end, e) /\ Begins(s, from, a, e)
  BY Zenon DEF Quiet
<1>3. PICK x \in Streams(Nat) : x = s.input_ /\ Tiled(x)
  <2>1. s.input_ \in Streams(Nat)
    BY <1>1, SenderFields
  <2>2. Tiled(s.input_)
    BY <1>1, Zenon DEF Settled
  <2> QED BY <2>1, <2>2
<1>4. PICK y : y = WriterClose(x)
  OBVIOUS
<1>5. /\ y \in Streams(Nat) /\ y.deck_ = x.deck_ /\ y.totalPushed = x.totalPushed
      /\ y.totalPopped = x.totalPopped /\ y.bytes_in_deck_ = x.bytes_in_deck_
      /\ y.capacity_ = x.capacity_ /\ y.isClosed
  BY <1>3, <1>4 DEF WriterClose, Streams
<1>6. Tiled(y)
  BY <1>3, <1>5, Zenon DEF Tiled
<1>7. t = [s EXCEPT !.input_ = y]
  BY <1>3, <1>4
<1>8. /\ t \in Senders /\ t.input_ = y /\ t.isn_ = s.isn_
      /\ t.cur_win_size_ = s.cur_win_size_ /\ t.msg_queue_ = s.msg_queue_
      /\ t.bytes_in_queue_ = s.bytes_in_queue_ /\ t.syn_sent = s.syn_sent /\ t.fin = s.fin
      /\ t.fin_received = s.fin_received /\ t.fin_queued = s.fin_queued
  <2>1. s \in Senders /\ y \in Streams(Nat) /\ Restreams(s, y, t)
    BY <1>1, <1>5, <1>7, Zenon DEF Restreams
  <2>2. t \in Senders /\ t.input_ = y /\ t.cur_win_size_ = s.cur_win_size_ /\ SameQueue(s, t)
    BY <2>1, WithInput
  <2> QED BY <2>2, Zenon DEF SameQueue
<1>9. Settled(t, EmptyMessage)
  BY <1>1, <1>3, <1>5, <1>6, <1>8, Zenon DEF Settled, Emptied
<1>10. UptoOf(t) = UptoOf(s)
  BY <1>3, <1>5, <1>8, Zenon DEF UptoOf
<1>11. Unacked(t, EmptyMessage, k, from, end, e)
  BY <1>2, <1>3, <1>5, <1>8, <1>10, Zenon DEF Unacked
<1> QED BY <1>1, <1>2, <1>8, <1>9, <1>11, Zenon DEF Quiet, Base, Begins, Announced

LEMMA BaseIs ==
  ASSUME NEW s, NEW m, NEW a, NEW e, Base(s, m, a, e)
  PROVE  /\ s \in Senders /\ Settled(s, m)
         /\ s.input_ \in Streams(Nat) /\ Tiled(s.input_)
         /\ s.input_.totalPushed \in Nat /\ s.input_.totalPopped \in Nat
         /\ s.cur_win_size_ \in Nat /\ s.bytes_in_queue_ \in Nat /\ a \in Nat /\ e \in Nat
         /\ s.syn_sent \in BOOLEAN /\ s.fin \in BOOLEAN /\ s.fin_queued \in BOOLEAN
<1>1. s \in Senders /\ Settled(s, m) /\ a \in Nat /\ e \in Nat
  BY Zenon DEF Base
<1>2. /\ s.input_ \in Streams(Nat) /\ s.cur_win_size_ \in Nat /\ s.bytes_in_queue_ \in Nat
      /\ s.syn_sent \in BOOLEAN /\ s.fin \in BOOLEAN /\ s.fin_queued \in BOOLEAN
  BY <1>1, SenderFields
<1>3. s.input_.totalPushed \in Nat /\ s.input_.totalPopped \in Nat
  BY <1>2, StreamFields
<1>4. Tiled(s.input_)
  BY <1>1, Zenon DEF Settled
<1> QED BY <1>1, <1>2, <1>3, <1>4, Zenon

\* No message, no number in flight.
LEMMA EmptyQueue ==
  ASSUME NEW s, NEW m, NEW k \in Nat, NEW from \in Nat, NEW end \in Nat, NEW far,
         Unacked(s, m, k, from, end, far), s.msg_queue_ = <<>>, s.bytes_in_queue_ \in Nat
  PROVE  k = 0 /\ from = end /\ s.bytes_in_queue_ = 0
<1>1. k \in 0 .. Len(s.msg_queue_)
  BY Zenon DEF Unacked, Chain
<1>2. Len(<<>>) = 0
  OBVIOUS
<1>3. k = 0
  BY <1>1, <1>2
<1>4. from = end
  BY <1>3, Zenon DEF Unacked, Chain
<1>5. from + s.bytes_in_queue_ = end
  BY Zenon DEF Unacked
<1> QED BY <1>3, <1>4, <1>5

\* The flags of a turn.
LEMMA OpenTurnIs ==
  ASSUME NEW s \in Senders
  PROVE  LET t == OpenTurn(s)
         IN  /\ t \in Senders /\ t.syn_sent /\ (t.fin <=> s.fin \/ TurnFin(s))
             /\ t.input_ = s.input_ /\ t.isn_ = s.isn_ /\ t.msg_queue_ = s.msg_queue_
             /\ t.bytes_in_queue_ = s.bytes_in_queue_ /\ t.cur_win_size_ = s.cur_win_size_
             /\ t.fin_received = s.fin_received /\ t.fin_queued = s.fin_queued
<1>1. TurnFin(s) \in BOOLEAN
  BY DEF TurnFin
<1>2. PICK fin : fin = (s.fin \/ TurnFin(s)) /\ fin \in BOOLEAN
  OBVIOUS
<1>3. PICK t : t = [s EXCEPT !.syn_sent = TRUE, !.fin = fin]
  OBVIOUS
<1>4. t = OpenTurn(s)
  BY <1>2, <1>3, Zenon DEF OpenTurn
<1>5. /\ t \in Senders /\ t.syn_sent /\ t.fin = fin
      /\ t.input_ = s.input_ /\ t.isn_ = s.isn_ /\ t.msg_queue_ = s.msg_queue_
      /\ t.bytes_in_queue_ = s.bytes_in_queue_ /\ t.cur_win_size_ = s.cur_win_size_
      /\ t.fin_received = s.fin_received /\ t.fin_queued = s.fin_queued
  <2> HIDE <1>1, <1>4
  <2> QED BY <1>2, <1>3 DEF Senders
<1> QED BY <1>2, <1>4, <1>5, Zenon

\* The message a turn begins with.
LEMMA NewMessageIs ==
  ASSUME NEW s \in Senders, s.isn_ = Isn, s.input_.totalPopped \in Nat
  PROVE  LET m == NewMessage(s)
         IN  /\ m \in Messages /\ (m.SYN <=> ~s.syn_sent) /\ (m.FIN <=> TurnFin(s))
             /\ m.payload = <<>>
             /\ s.syn_sent => m.seqno = WrapSeq(s.input_.totalPopped + 1, Isn)
             /\ ~s.syn_sent => m.seqno = WrapSeq(s.input_.totalPopped, Isn)
<1>1. PICK popped \in Nat : popped = s.input_.totalPopped
  OBVIOUS
<1>2. PICK n \in Nat : /\ n = popped + Flag(~TurnSyn(s))
                       /\ s.syn_sent => n = popped + 1
                       /\ ~s.syn_sent => n = popped
  BY DEF Flag, TurnSyn
<1>3. PICK num : num = Plus(Isn, n) /\ num = WrapSeq(n, Isn) /\ num \in Seqnos
  <2>1. Isn \in Seqnos /\ 0 \in Nat /\ 0 < RelSeqMax
    BY MachineAssumption, RelSeqMaxAssumption
  <2>2. WrapSeq(0, Isn) = Isn
    BY <2>1, WrapIsn
  <2>3. WrapSeq(n, Isn) \in Seqnos /\ Plus(WrapSeq(0, Isn), n) = WrapSeq(0 + n, Isn)
    BY <2>1, PlusWrapped
  <2>4. 0 + n = n
    OBVIOUS
  <2> QED BY <2>2, <2>3, <2>4, Zenon
<1>4. PICK syn : syn = TurnSyn(s) /\ syn \in BOOLEAN /\ (syn <=> ~s.syn_sent)
  BY DEF TurnSyn
<1>5. PICK fin : fin = TurnFin(s) /\ fin \in BOOLEAN
  BY DEF TurnFin
<1>6. PICK rst : rst = s.input_.error_ /\ rst \in BOOLEAN
  <2>1. s.input_ \in Streams(Nat)
    BY SenderFields
  <2> QED BY <2>1, StreamFields
<1>7. PICK m : m = [seqno |-> num, SYN |-> syn, payload |-> <<>>, FIN |-> fin, RST |-> rst]
  OBVIOUS
<1>8. m = NewMessage(s)
  BY <1>1, <1>2, <1>3, <1>4, <1>5, <1>6, <1>7, Zenon DEF NewMessage
<1>9. m \in Messages /\ m.seqno = num /\ m.SYN = syn /\ m.payload = <<>> /\ m.FIN = fin
  <2> HIDE <1>8
  <2> QED BY <1>3, <1>4, <1>5, <1>6, <1>7 DEF Messages
<1> QED BY <1>1, <1>2, <1>3, <1>4, <1>5, <1>8, <1>9, Zenon

\* push() that finds nothing to send has changed nothing: the flags it sets were set.
LEMMA BeginsDone ==
  ASSUME NEW s, NEW a, NEW e, Quiet(s, a, e), NothingToSend(s)
  PROVE  Quiet(OpenTurn(s), a, e)
<1>1. Base(s, EmptyMessage, a, e)
  BY Zenon DEF Quiet
<1>2. s \in Senders /\ Settled(s, EmptyMessage) /\ s.syn_sent \in BOOLEAN /\ s.fin \in BOOLEAN
  BY <1>1, BaseIs
<1>3. PICK t : t = OpenTurn(s)
  OBVIOUS
<1>4. /\ t \in Senders /\ t.syn_sent /\ (t.fin <=> s.fin \/ TurnFin(s))
      /\ t.input_ = s.input_ /\ t.isn_ = s.isn_ /\ t.msg_queue_ = s.msg_queue_
      /\ t.bytes_in_queue_ = s.bytes_in_queue_ /\ t.cur_win_size_ = s.cur_win_size_
      /\ t.fin_received = s.fin_received /\ t.fin_queued = s.fin_queued
  BY <1>2, <1>3, OpenTurnIs
<1>5. ~EmptyMessage.FIN
  BY EmptyFields
<1>6. s.fin_received => s.fin /\ s.syn_sent
  BY <1>2, <1>5, Zenon DEF Settled, Emptied
<1>7. s.syn_sent /\ (t.fin <=> s.fin)
  BY <1>3, <1>4, <1>6, Zenon DEF NothingToSend, TurnSyn
<1>8. t.syn_sent \in BOOLEAN /\ t.fin \in BOOLEAN
  BY <1>4, SenderFields
<1>9. t.syn_sent = s.syn_sent /\ t.fin = s.fin
  BY <1>2, <1>4, <1>7, <1>8
<1>10. SameQueue(s, t) /\ SameStream(s.input_, t.input_)
  BY <1>4, <1>9, Zenon DEF SameQueue, SameStream
<1> QED BY <1>3, <1>4, <1>10, SameQuiet

\* A turn of push() begins its message where the queue ends.
LEMMA BeginsFill ==
  ASSUME NEW s, NEW a, NEW e, Quiet(s, a, e), ~NothingToSend(s)
  PROVE  InTurn(OpenTurn(s), NewMessage(s), a, e)
<1>1. Base(s, EmptyMessage, a, e)
  BY Zenon DEF Quiet
<1>2. /\ s \in Senders /\ Settled(s, EmptyMessage)
      /\ s.input_ \in Streams(Nat) /\ Tiled(s.input_)
      /\ s.input_.totalPopped \in Nat /\ s.cur_win_size_ \in Nat /\ s.bytes_in_queue_ \in Nat
      /\ a \in Nat /\ e \in Nat /\ s.syn_sent \in BOOLEAN
  BY <1>1, BaseIs
<1>3. PICK k \in Nat, from \in Nat, end \in Nat :
        Unacked(s, EmptyMessage, k, from, end, e) /\ Begins(s, from, a, e)
  BY Zenon DEF Quiet
<1>4. PICK t : t = OpenTurn(s)
  OBVIOUS
<1>5. /\ t \in Senders /\ t.syn_sent /\ (t.fin <=> s.fin \/ TurnFin(s))
      /\ t.input_ = s.input_ /\ t.isn_ = s.isn_ /\ t.msg_queue_ = s.msg_queue_
      /\ t.bytes_in_queue_ = s.bytes_in_queue_ /\ t.cur_win_size_ = s.cur_win_size_
      /\ t.fin_received = s.fin_received /\ t.fin_queued = s.fin_queued
  BY <1>2, <1>4, OpenTurnIs
<1>6. s.isn_ = Isn /\ ~EmptyMessage.FIN
  BY <1>2, EmptyFields, Zenon DEF Settled
<1>7. PICK m \in Messages :
        /\ m = NewMessage(s) /\ (m.SYN <=> ~s.syn_sent) /\ (m.FIN <=> TurnFin(s))
        /\ m.payload = <<>>
        /\ s.syn_sent => m.seqno = WrapSeq(s.input_.totalPopped + 1, Isn)
        /\ ~s.syn_sent => m.seqno = WrapSeq(s.input_.totalPopped, Isn)
  BY <1>2, <1>6, NewMessageIs
<1>8. IsFinished(s.input_) <=> Emptied(s.input_)
  BY <1>2, EmptyStream
<1>9. (m.FIN => Emptied(s.input_)) /\ (m.SYN => ~s.fin /\ ~s.fin_queued)
  BY <1>2, <1>6, <1>7, <1>8, Zenon DEF TurnFin, Settled, Emptied
<1>10. Settled(t, m)
  BY <1>2, <1>5, <1>6, <1>7, <1>8, <1>9, Zenon DEF Settled, TurnFin
\* The numbers.
<1>11. PICK popped \in Nat, win \in Nat, held \in Nat :
         popped = s.input_.totalPopped /\ win = s.cur_win_size_ /\ held = s.bytes_in_queue_
  BY <1>2
<1>12. PICK f \in Nat, g \in Nat :
         /\ f = Flag(m.SYN) /\ g = Flag(m.FIN) /\ SequenceLength(m) = f + 0 + g /\ Carried(m) = f + 0
         /\ (f = 1 <=> m.SYN) /\ (f = 0 <=> ~m.SYN) /\ (g = 1 <=> m.FIN) /\ (g = 0 <=> ~m.FIN)
  <2>1. m.SYN \in BOOLEAN /\ m.FIN \in BOOLEAN /\ Len(m.payload) = 0
        /\ SequenceLength(m) = Flag(m.SYN) + Len(m.payload) + Flag(m.FIN)
    BY <1>7, MessageFields
  <2>2. PICK f \in Nat, g \in Nat : f = Flag(m.SYN) /\ g = Flag(m.FIN)
    BY <2>1, FlagIs
  <2>3. (m.SYN => f = 1) /\ (~m.SYN => f = 0) /\ (m.FIN => g = 1) /\ (~m.FIN => g = 0)
    BY <2>1, <2>2, FlagIs
  <2>4. SequenceLength(m) = f + 0 + g /\ Carried(m) = f + 0
    BY <2>1, <2>2, Zenon DEF Carried
  <2> QED BY <2>2, <2>3, <2>4
<1>13. ~s.syn_sent => popped = 0 /\ s.msg_queue_ = <<>>
  BY <1>2, <1>11, Zenon DEF Settled
<1>14. s.msg_queue_ = <<>> => held = 0
  BY <1>2, <1>3, <1>11, EmptyQueue
<1>15. end + Carried(m) = UptoOf(t)
  <2>1. end + 0 = UptoOf(s)
    BY <1>3, EmptyFields, Zenon DEF Unacked
  <2>2. PICK q \in Nat : q = Flag(s.fin_queued)
    BY <1>2, SenderFields, FlagIs
  <2>3. CASE s.syn_sent
    <3>1. Flag(s.syn_sent) = 1 /\ Flag(t.syn_sent) = 1
      BY <1>5, <2>3, Zenon DEF Flag
    <3>2. UptoOf(t) = UptoOf(s)
      BY <1>5, <3>1, Zenon DEF UptoOf
    <3>3. Carried(m) = 0
      BY <1>7, <1>12, <2>3
    <3> QED BY <2>1, <3>2, <3>3, Zenon
  <2>4. CASE ~s.syn_sent
    <3>1. Flag(s.syn_sent) = 0 /\ Flag(t.syn_sent) = 1
      BY <1>5, <2>4, Zenon DEF Flag
    <3>2. UptoOf(s) = 0 + popped + q /\ UptoOf(t) = 1 + popped + q
      BY <1>5, <1>11, <2>2, <3>1, Zenon DEF UptoOf
    <3>3. Carried(m) = 1
      BY <1>7, <1>12, <2>4
    <3> QED BY <2>1, <3>2, <3>3
  <2> QED BY <2>3, <2>4
<1>16. Unacked(t, m, k, from, end, e)
  BY <1>3, <1>5, <1>15, Zenon DEF Unacked
<1>17. m.payload = Bytes(popped, Len(m.payload)) /\ popped + Len(m.payload) = t.input_.totalPopped
  <2>1. Len(m.payload) = 0 /\ popped + 0 = popped
    BY <1>7
  <2>2. Bytes(popped, 0) = <<>>
    BY BytesEmpty
  <2> QED BY <1>5, <1>7, <1>11, <2>1, <2>2, Zenon
<1>18. m.seqno = WrapSeq(IF m.SYN THEN 0 ELSE popped + 1, Isn)
  BY <1>7, <1>11, <1>13, Zenon
<1>19. PICK fl \in Nat : fl = Flight(t, m) /\ fl = f + 0 + g + held
  <2>1. f + 0 + g + held \in Nat
    OBVIOUS
  <2> QED BY <1>5, <1>11, <1>12, <2>1, Zenon DEF Flight
<1>20. m.FIN => f + held < win \/ win = 0
  <2>1. TurnSyn(s) \in BOOLEAN /\ (TurnSyn(s) <=> m.SYN)
    BY <1>7 DEF TurnSyn
  <2>2. Flag(TurnSyn(s)) = f
    BY <1>12, <2>1 DEF Flag
  <2> QED BY <1>7, <1>11, <2>2, Zenon DEF TurnFin
<1>21. SequenceLength(m) > 0 /\ win # 0 => fl <= win
  BY <1>7, <1>12, <1>13, <1>14, <1>19, <1>20
<1>22. win = 0 => /\ SequenceLength(m) <= 1 \/ Stuck(m)
                  /\ BytesBuffered(t.input_) = 0 => SequenceLength(m) >= 1
  <2>1. SequenceLength(m) <= 1 \/ Stuck(m)
    <3>1. CASE m.SYN /\ m.FIN
      BY <1>7, <3>1, Zenon DEF Stuck
    <3>2. CASE ~(m.SYN /\ m.FIN)
      BY <1>12, <3>2
    <3> QED BY <3>1, <3>2
  <2>2. ASSUME win = 0, BytesBuffered(t.input_) = 0
        PROVE  m.SYN \/ m.FIN
    <3>1. s.syn_sent => t.fin
      BY <1>4, <1>5, <2>2, Zenon DEF NothingToSend, TurnSyn
    <3>2. s.fin => IsFinished(s.input_)
      BY <1>2, <1>8, Zenon DEF Settled
    <3>3. s.fin => TurnFin(s)
      BY <1>11, <2>2, <3>2, Zenon DEF TurnFin
    <3> QED BY <1>5, <1>7, <3>1, <3>3, Zenon
  <2> QED BY <1>12, <2>1, <2>2
<1>23. m.payload # <<>> => t.msg_queue_ = <<>>
  BY <1>7
<1>24. m.SYN \/ m.payload # <<>> => ~t.fin_queued
  BY <1>5, <1>7, <1>9, Zenon
<1>25. m.SYN => t.msg_queue_ = <<>> /\ popped = 0
  BY <1>5, <1>7, <1>13, Zenon
<1>26. Building(t, m, popped)
  BY <1>5, <1>11, <1>17, <1>18, <1>19, <1>21, <1>22, <1>23, <1>24, <1>25, Zenon DEF Building
<1>27. Begins(t, from, a, e)
  BY <1>3, <1>5, Zenon DEF Begins, Announced
<1> QED BY <1>2, <1>3, <1>4, <1>5, <1>7, <1>10, <1>16, <1>26, <1>27, Zenon DEF InTurn, Base

\* A sender that builds a message takes bytes as long as it finds some in its stream.
LEMMA FillWants ==
  ASSUME NEW s, NEW m, NEW a, NEW e, NEW base, Base(s, m, a, e), Building(s, m, base),
         ~FillStops(s, m), BytesBuffered(s.input_) # 0
  PROVE  \E want \in Nat :
           /\ want = BytesRemaining(s, m) /\ want # 0
           /\ s.cur_win_size_ # 0 => Flight(s, m) + want <= s.cur_win_size_
           /\ s.cur_win_size_ = 0 =>
                want = 1 /\ SequenceLength(m) = 0 /\ s.msg_queue_ = <<>>
<1>1. s.cur_win_size_ \in Nat /\ s.bytes_in_queue_ \in Nat
  BY BaseIs
<1>2. m \in Messages
  BY Zenon DEF Building
<1>3. PICK len \in Nat : len = SequenceLength(m)
  BY <1>2, MessageFields
<1>4. PICK win \in Nat, held \in Nat : win = s.cur_win_size_ /\ held = s.bytes_in_queue_
  BY <1>1
<1>5. PICK fl \in Nat : fl = Flight(s, m)
  <2>1. len + held \in Nat
    OBVIOUS
  <2> QED BY <1>3, <1>4, <2>1, Zenon DEF Flight
<1>6. PICK max \in Nat : max = MaxPayload /\ max > 0
  BY SenderAssumption
<1>7. CASE win = 0
  <2>1. len # 1 /\ s.msg_queue_ = <<>>
    BY <1>3, <1>4, <1>7, Zenon DEF FillStops
  <2>2. len <= 1
    <3>1. ~Emptied(s.input_)
      BY BaseIs, EmptyStream, Zenon DEF Emptied
    <3>2. ~Stuck(m)
      BY <3>1, Zenon DEF Base, Settled, Stuck
    <3> QED BY <1>3, <1>4, <1>7, <3>2, Zenon DEF Building
  <2>3. len = 0 /\ 1 \in Nat /\ 1 # 0
    BY <2>1, <2>2
  <2>4. BytesRemaining(s, m) = 1
    BY <1>4, <1>7, Zenon DEF BytesRemaining
  <2> QED BY <1>3, <1>4, <1>7, <2>1, <2>3, <2>4
<1>8. CASE win # 0
  <2>1. ~(fl >= win)
    BY <1>4, <1>5, <1>8, Zenon DEF FillStops
  <2>2. PICK room \in Nat : room = win - fl /\ room # 0
    BY <2>1
  <2>3. PICK want \in Nat : want = Least(room, max) /\ want # 0 /\ want <= room
    BY <1>6, <2>2 DEF Least
  <2>4. want = BytesRemaining(s, m)
    BY <1>4, <1>5, <1>6, <1>8, <2>2, <2>3, Zenon DEF BytesRemaining
  <2>5. fl + want <= win
    BY <2>2, <2>3
  <2> QED BY <1>4, <1>5, <1>8, <2>1, <2>3, <2>4, <2>5, Zenon
<1> QED BY <1>7, <1>8

\* What one step of the inner loop moves from the stream into the message.
LEMMA FillMoves ==
  ASSUME NEW s, NEW m, NEW a, NEW e, NEW base \in Nat, Base(s, m, a, e), Building(s, m, base),
         ~FillStops(s, m), BytesBuffered(s.input_) # 0
  PROVE  \E n \in Nat :
           /\ n # 0 /\ n <= BytesRemaining(s, m)
           /\ FillText(s, m) = Bytes(s.input_.totalPopped, n) /\ Len(FillText(s, m)) = n
           /\ LET y == PopFront(s.input_, n)
              IN  /\ y \in Streams(Nat) /\ Tiled(y)
                  /\ y.totalPopped = s.input_.totalPopped + n
                  /\ y.totalPushed = s.input_.totalPushed
                  /\ y.isClosed = s.input_.isClosed
<1>1. PICK x \in Streams(Nat) : x = s.input_ /\ Tiled(x) /\ x.totalPopped \in Nat
  BY BaseIs
<1>2. x.bytes_in_deck_ # 0
  BY <1>1, FillWants, Zenon DEF BytesBuffered
<1>3. PICK want \in Nat : want = BytesRemaining(s, m) /\ want # 0
  BY FillWants
<1>4. PICK n \in Nat : /\ n # 0 /\ n <= want /\ n <= Len(Peek(x)) /\ n <= x.bytes_in_deck_
                       /\ Substr(Peek(x), 0, want) = Bytes(x.totalPopped, n)
  BY <1>1, <1>2, <1>3, ViewRun
<1>5. FillText(s, m) = Bytes(x.totalPopped, n)
  BY <1>1, <1>3, <1>4, Zenon DEF FillText
<1>6. Len(Bytes(x.totalPopped, n)) = n
  BY <1>1, BytesRun
<1>7. x.deck_ # <<>> /\ Len(Peek(x)) \in Nat
  <2>1. x.deck_ # <<>> /\ Peek(x) \in Seq(Nat)
    BY <1>1, <1>2, FrontFits
  <2> QED BY <2>1, EmptyLen
<1>8. PopTaken(x, n) = n
  <2>1. Peek(x) = Head(x.deck_)
    BY <1>7, Zenon DEF Peek
  <2>2. Least(n, Len(Peek(x))) = n
    BY <1>4, <1>7 DEF Least
  <2> QED BY <2>1, <2>2, Zenon DEF PopTaken
<1>9. PICK y : y = PopTurn(x, n)
  OBVIOUS
<1>10. y = PopFront(x, n)
  BY <1>4, <1>7, <1>9, Zenon DEF PopFront
<1>11. /\ y \in Streams(Nat) /\ Tiled(y) /\ y.totalPopped = x.totalPopped + PopTaken(x, n)
       /\ y.totalPushed = x.totalPushed /\ y.isClosed = x.isClosed
  BY <1>1, <1>4, <1>9, PopTurnTiled
<1> QED BY <1>1, <1>3, <1>4, <1>5, <1>6, <1>8, <1>10, <1>11, Zenon

\* A message with so many more bytes.
Lengthens(m, c, u) == u = [m EXCEPT !.payload = @ \o c]

LEMMA FillMsgIs ==
  ASSUME NEW m \in Messages, NEW c \in Seq(Nat), NEW u, Lengthens(m, c, u)
  PROVE  /\ u \in Messages /\ u.seqno = m.seqno /\ u.SYN = m.SYN /\ u.FIN = m.FIN
         /\ u.payload = m.payload \o c /\ Len(u.payload) = Len(m.payload) + Len(c)
         /\ SequenceLength(u) = SequenceLength(m) + Len(c)
         /\ Carried(u) = Carried(m) + Len(c)
<1>1. m.payload \in Seq(Nat) /\ Flag(m.SYN) \in 0 .. 1 /\ Flag(m.FIN) \in 0 .. 1
      /\ Len(m.payload) \in Nat /\ SequenceLength(m) = Flag(m.SYN) + Len(m.payload) + Flag(m.FIN)
  BY MessageFields
<1>2. PICK d \in Seq(Nat) : d = m.payload \o c /\ Len(d) = Len(m.payload) + Len(c)
  <2>1. PICK p \in Seq(Nat) : p = m.payload
    BY <1>1
  <2>2. p \o c \in Seq(Nat) /\ Len(p \o c) = Len(p) + Len(c)
    BY ConcatProperties
  <2> QED BY <2>1, <2>2, Zenon
<1>3. /\ u \in Messages /\ u.seqno = m.seqno /\ u.SYN = m.SYN /\ u.FIN = m.FIN
      /\ u.payload = d
  <2>1. u = [m EXCEPT !.payload = d]
    BY <1>2, Zenon DEF Lengthens
  <2> QED BY <2>1 DEF Messages
<1>4. PICK f \in Nat, g \in Nat, l \in Nat, n \in Nat :
        f = Flag(m.SYN) /\ g = Flag(m.FIN) /\ l = Len(m.payload) /\ n = Len(c)
  <2>1. Len(c) \in Nat /\ Flag(m.SYN) \in Nat /\ Flag(m.FIN) \in Nat
    BY <1>1, EmptyLen
  <2> QED BY <1>1, <2>1
<1>5. SequenceLength(u) = f + (l + n) + g /\ Carried(u) = f + (l + n)
      /\ SequenceLength(m) = f + l + g /\ Carried(m) = f + l
  BY <1>1, <1>2, <1>3, <1>4, Zenon DEF SequenceLength, Carried
<1>6. f + (l + n) + g = (f + l + g) + n /\ f + (l + n) = (f + l) + n
  OBVIOUS
<1> QED BY <1>2, <1>3, <1>4, <1>5, <1>6, Zenon

\* A step of the inner loop that finds no byte moves none.
LEMMA FillStays ==
  ASSUME NEW s, NEW m, NEW a, NEW e, NEW base, Base(s, m, a, e), Building(s, m, base),
         ~FillStops(s, m), BytesBuffered(s.input_) = 0
  PROVE  FillInput(s, m) = s /\ FillMsg(s, m) = m
<1>1. /\ s \in Senders /\ s.input_ \in Streams(Nat) /\ Tiled(s.input_)
  BY BaseIs
<1>2. m \in Messages
  BY Zenon DEF Building
<1>3. s.cur_win_size_ = 0
  BY Zenon DEF FillStops
<1>4. s.input_.deck_ = <<>>
  BY <1>1, EmptyStream
<1>5. FillText(s, m) = <<>>
  <2>1. Peek(s.input_) = <<>> /\ BytesRemaining(s, m) = 1
    BY <1>3, <1>4, Zenon DEF Peek, BytesRemaining
  <2>2. Substr(<<>>, 0, 1) = <<>>
    BY DEF Substr, Least
  <2> QED BY <2>1, <2>2, Zenon DEF FillText
<1>6. FillInput(s, m) = s
  <2>1. PopFront(s.input_, Len(FillText(s, m))) = s.input_
    BY <1>4, Zenon DEF PopFront
  <2>2. [s EXCEPT !.input_ = s.input_] = s
    BY <1>1 DEF Senders
  <2> QED BY <2>1, <2>2, Zenon DEF FillInput
<1>7. FillMsg(s, m) = m
  <2>1. PICK p \in Seq(Nat) : p = m.payload
    BY <1>2, MessageFields
  <2>2. p \o <<>> = p
    BY <2>1
  <2>3. [m EXCEPT !.payload = p] = m
    BY <1>2, <2>1 DEF Messages
  <2> QED BY <1>5, <2>1, <2>2, <2>3, Zenon DEF FillMsg
<1> QED BY <1>6, <1>7

\* A step of the inner loop: what leaves the stream is in the message.
LEMMA FillsSome ==
  ASSUME NEW s, NEW m, NEW a, NEW e, InTurn(s, m, a, e), ~FillStops(s, m),
         BytesBuffered(s.input_) # 0
  PROVE  InTurn(FillInput(s, m), FillMsg(s, m), a, e)
<1>1. Base(s, m, a, e)
  BY Zenon DEF InTurn
<1>2. /\ s \in Senders /\ Settled(s, m) /\ a \in Nat /\ e \in Nat
      /\ s.input_ \in Streams(Nat) /\ Tiled(s.input_) /\ s.input_.totalPushed \in Nat
      /\ s.input_.totalPopped \in Nat /\ s.cur_win_size_ \in Nat /\ s.bytes_in_queue_ \in Nat
      /\ s.fin_queued \in BOOLEAN
  BY <1>1, BaseIs
<1>3. PICK k \in Nat, from \in Nat, end \in Nat, base \in Nat :
        Unacked(s, m, k, from, end, e) /\ Begins(s, from, a, e) /\ Building(s, m, base)
  BY Zenon DEF InTurn
<1>4. m \in Messages /\ s.syn_sent
  BY <1>3, Zenon DEF Building
<1>5. PICK n \in Nat :
        /\ n # 0 /\ n <= BytesRemaining(s, m)
        /\ FillText(s, m) = Bytes(s.input_.totalPopped, n) /\ Len(FillText(s, m)) = n
        /\ LET y == PopFront(s.input_, n)
           IN  /\ y \in Streams(Nat) /\ Tiled(y)
               /\ y.totalPopped = s.input_.totalPopped + n
               /\ y.totalPushed = s.input_.totalPushed
               /\ y.isClosed = s.input_.isClosed
  BY <1>1, <1>3, <1>4, FillMoves
<1>6. PICK y \in Streams(Nat) :
        /\ y = PopFront(s.input_, n) /\ Tiled(y) /\ y.totalPopped = s.input_.totalPopped + n
        /\ y.totalPushed = s.input_.totalPushed /\ y.isClosed = s.input_.isClosed
  BY <1>5
<1>7. PICK popped \in Nat : popped = s.input_.totalPopped
  BY <1>2
<1>8. PICK t : t = FillInput(s, m)
  OBVIOUS
<1>9. /\ t \in Senders /\ t.input_ = y /\ t.cur_win_size_ = s.cur_win_size_ /\ SameQueue(s, t)
  <2>1. Restreams(s, y, t)
    BY <1>5, <1>6, <1>8, Zenon DEF FillInput, Restreams
  <2> QED BY <1>2, <2>1, WithInput
<1>10. /\ t.isn_ = s.isn_ /\ t.msg_queue_ = s.msg_queue_ /\ t.bytes_in_queue_ = s.bytes_in_queue_
       /\ t.syn_sent = s.syn_sent /\ t.fin = s.fin /\ t.fin_received = s.fin_received
       /\ t.fin_queued = s.fin_queued
  BY <1>9, Zenon DEF SameQueue
<1>11. PICK c \in Seq(Nat) : c = FillText(s, m) /\ c = Bytes(popped, n) /\ Len(c) = n
  BY <1>5, <1>7, BytesRun
<1>13. PICK u : u = FillMsg(s, m)
  OBVIOUS
<1>12. Lengthens(m, c, u)
  BY <1>11, <1>13, Zenon DEF FillMsg, Lengthens
<1>14. /\ u \in Messages /\ u.seqno = m.seqno /\ u.SYN = m.SYN /\ u.FIN = m.FIN
       /\ u.payload = m.payload \o c /\ Len(u.payload) = Len(m.payload) + n
       /\ SequenceLength(u) = SequenceLength(m) + n
       /\ Carried(u) = Carried(m) + n
  <2>1. /\ u \in Messages /\ u.seqno = m.seqno /\ u.SYN = m.SYN /\ u.FIN = m.FIN
        /\ u.payload = m.payload \o c /\ Len(u.payload) = Len(m.payload) + Len(c)
        /\ SequenceLength(u) = SequenceLength(m) + Len(c)
        /\ Carried(u) = Carried(m) + Len(c)
    BY <1>4, <1>12, FillMsgIs
  <2> QED BY <1>11, <2>1, Zenon
\* A stream with bytes left is not drained: no FIN yet.
<1>15. ~s.fin /\ ~s.fin_queued /\ ~m.FIN
  <2>1. ~Emptied(s.input_)
    BY <1>2, EmptyStream, Zenon DEF Emptied
  <2> QED BY <1>2, <2>1, Zenon DEF Settled
<1>17. Settled(t, u)
  BY <1>2, <1>4, <1>6, <1>9, <1>10, <1>14, <1>15, Zenon DEF Settled
\* The numbers.
<1>18. PICK win \in Nat, held \in Nat, len \in Nat, carried \in Nat, plen \in Nat :
         /\ win = s.cur_win_size_ /\ held = s.bytes_in_queue_ /\ len = SequenceLength(m)
         /\ carried = Carried(m) /\ plen = Len(m.payload)
  <2>1. SequenceLength(m) \in Nat /\ Len(m.payload) \in Nat /\ Flag(m.SYN) \in Nat
    BY <1>4, MessageFields, SMTT(30)
  <2>2. Flag(m.SYN) + Len(m.payload) \in Nat
    BY <2>1
  <2> QED BY <1>2, <2>1, <2>2, Zenon DEF Carried
<1>19. end + Carried(u) = UptoOf(t)
  <2>1. PICK f \in Nat, g \in Nat : f = Flag(s.syn_sent) /\ g = Flag(s.fin_queued)
    BY <1>2, SenderFields, FlagIs
  <2>2. end + carried = f + popped + g
    BY <1>3, <1>7, <1>18, <2>1, Zenon DEF Unacked, UptoOf
  <2>3. UptoOf(t) = f + (popped + n) + g
    BY <1>6, <1>7, <1>9, <1>10, <2>1, Zenon DEF UptoOf
  <2>4. end + (carried + n) = f + (popped + n) + g
    BY <2>2
  <2> QED BY <1>14, <1>18, <2>3, <2>4, Zenon
<1>20. Unacked(t, u, k, from, end, e)
  BY <1>3, <1>6, <1>9, <1>10, <1>19, Zenon DEF Unacked
<1>21. base + Len(u.payload) = t.input_.totalPopped /\ u.payload = Bytes(base, Len(u.payload))
  <2>1. base + plen = popped /\ m.payload = Bytes(base, plen)
    BY <1>3, <1>7, <1>18, Zenon DEF Building
  <2>2. base + (plen + n) = popped + n
    BY <2>1
  <2>3. Bytes(base, plen) \o Bytes(base + plen, n) = Bytes(base, plen + n)
    BY BytesConcat, ZenonT(60)
  <2> QED BY <1>6, <1>7, <1>9, <1>11, <1>14, <1>18, <2>1, <2>2, <2>3, Zenon
<1>22. PICK want \in Nat :
         /\ want = BytesRemaining(s, m)
         /\ s.cur_win_size_ # 0 => Flight(s, m) + want <= s.cur_win_size_
         /\ s.cur_win_size_ = 0 => want = 1 /\ SequenceLength(m) = 0 /\ s.msg_queue_ = <<>>
  BY <1>1, <1>3, FillWants
<1>23. n <= want
  BY <1>5, <1>22, Zenon
<1>24. Flight(s, m) = len + held /\ Flight(t, u) = (len + n) + held
  BY <1>10, <1>14, <1>18, Zenon DEF Flight
<1>25. win # 0 => Flight(t, u) <= win
  <2>1. win # 0 => (len + held) + want <= win
    BY <1>18, <1>22, <1>24, Zenon
  <2>2. win # 0 => (len + n) + held <= win
    BY <1>23, <2>1
  <2> QED BY <1>24, <2>2, Zenon
<1>26. win = 0 => len + n = 1 /\ len + n <= 1 /\ s.msg_queue_ = <<>>
  <2>1. win = 0 => want = 1 /\ len = 0 /\ s.msg_queue_ = <<>>
    BY <1>18, <1>22, Zenon
  <2> QED BY <1>5, <1>23, <2>1
<1>27. u.seqno = WrapSeq(IF u.SYN THEN 0 ELSE base + 1, Isn) /\ (u.SYN => t.msg_queue_ = <<>> /\ base = 0)
  BY <1>3, <1>10, <1>14, Zenon DEF Building
<1>28. Building(t, u, base)
  BY <1>4, <1>9, <1>10, <1>14, <1>15, <1>18, <1>21, <1>25, <1>26, <1>27, Zenon DEF Building
<1>29. Begins(t, from, a, e)
  BY <1>3, <1>9, Zenon DEF Begins, Announced
<1> QED BY <1>2, <1>3, <1>8, <1>9, <1>13, <1>17, <1>20, <1>28, <1>29, Zenon DEF InTurn, Base

LEMMA Fills ==
  ASSUME NEW s, NEW m, NEW a, NEW e, InTurn(s, m, a, e), ~FillStops(s, m)
  PROVE  InTurn(FillInput(s, m), FillMsg(s, m), a, e)
<1>1. CASE BytesBuffered(s.input_) = 0
  <2>1. PICK base \in Nat : Base(s, m, a, e) /\ Building(s, m, base)
    BY Zenon DEF InTurn
  <2>2. FillInput(s, m) = s /\ FillMsg(s, m) = m
    BY <1>1, <2>1, FillStays
  <2> QED BY <2>2, Zenon
<1>2. CASE BytesBuffered(s.input_) # 0
  BY <1>2, FillsSome
<1> QED BY <1>1, <1>2

\* The message with its FIN.
LEMMA EndedIs ==
  ASSUME NEW s \in Senders, NEW m \in Messages
  PROVE  LET u == Ended(s, m)
         IN  /\ u \in Messages /\ u.seqno = m.seqno /\ u.SYN = m.SYN /\ u.payload = m.payload
             /\ u.FIN <=> m.FIN \/ LateFin(s, m)
             /\ Carried(u) = Carried(m)
<1>1. PICK fin : fin = (m.FIN \/ LateFin(s, m)) /\ fin \in BOOLEAN
  OBVIOUS
<1>2. PICK u : u = [m EXCEPT !.FIN = fin]
  OBVIOUS
<1>3. u = Ended(s, m)
  BY <1>1, <1>2, Zenon DEF Ended
<1>4. u \in Messages /\ u.seqno = m.seqno /\ u.SYN = m.SYN /\ u.payload = m.payload /\ u.FIN = fin
  <2> HIDE <1>3
  <2> QED BY <1>1, <1>2 DEF Messages
<1>5. Carried(u) = Carried(m)
  BY <1>4, Zenon DEF Carried
<1> QED BY <1>1, <1>3, <1>4, <1>5, Zenon

LEMMA EndTurnIs ==
  ASSUME NEW s \in Senders, NEW m
  PROVE  LET t == EndTurn(s, m)
         IN  /\ t \in Senders /\ (t.fin <=> s.fin \/ LateFin(s, m))
             /\ t.input_ = s.input_ /\ t.isn_ = s.isn_ /\ t.msg_queue_ = s.msg_queue_
             /\ t.bytes_in_queue_ = s.bytes_in_queue_ /\ t.cur_win_size_ = s.cur_win_size_
             /\ t.syn_sent = s.syn_sent
             /\ t.fin_received = s.fin_received /\ t.fin_queued = s.fin_queued
<1>1. PICK fin : fin = (s.fin \/ LateFin(s, m)) /\ fin \in BOOLEAN
  OBVIOUS
<1>2. PICK t : t = [s EXCEPT !.fin = fin]
  OBVIOUS
<1>3. t = EndTurn(s, m)
  BY <1>1, <1>2, Zenon DEF EndTurn
<1>4. /\ t \in Senders /\ t.fin = fin
      /\ t.input_ = s.input_ /\ t.isn_ = s.isn_ /\ t.msg_queue_ = s.msg_queue_
      /\ t.bytes_in_queue_ = s.bytes_in_queue_ /\ t.cur_win_size_ = s.cur_win_size_
      /\ t.syn_sent = s.syn_sent
      /\ t.fin_received = s.fin_received /\ t.fin_queued = s.fin_queued
  <2> HIDE <1>3
  <2> QED BY <1>1, <1>2 DEF Senders
<1> QED BY <1>1, <1>3, <1>4, Zenon

\* The parts of a length.
LEMMA Lengths ==
  ASSUME NEW m \in Messages
  PROVE  \E f, l, g \in Nat :
           /\ f = Flag(m.SYN) /\ l = Len(m.payload) /\ g = Flag(m.FIN)
           /\ SequenceLength(m) = f + l + g /\ Carried(m) = f + l
           /\ (m.SYN => f = 1) /\ (~m.SYN => f = 0)
           /\ (m.FIN => g = 1) /\ (~m.FIN => g = 0)
           /\ (m.payload = <<>> <=> l = 0)
<1>1. m.SYN \in BOOLEAN /\ m.FIN \in BOOLEAN /\ Len(m.payload) \in Nat
      /\ SequenceLength(m) = Flag(m.SYN) + Len(m.payload) + Flag(m.FIN)
      /\ (m.payload = <<>> <=> Len(m.payload) = 0)
  BY MessageFields
<1>2. PICK f \in Nat, l \in Nat, g \in Nat : f = Flag(m.SYN) /\ l = Len(m.payload) /\ g = Flag(m.FIN)
  BY <1>1, FlagIs
<1>3. (m.SYN => f = 1) /\ (~m.SYN => f = 0) /\ (m.FIN => g = 1) /\ (~m.FIN => g = 0)
  BY <1>1, <1>2, FlagIs
<1> QED BY <1>1, <1>2, <1>3, Zenon DEF Carried

\* The FIN that goes along has room in the window.
LEMMA Ends ==
  ASSUME NEW s, NEW m, NEW a, NEW e, InTurn(s, m, a, e)
  PROVE  InTurn(EndTurn(s, m), Ended(s, m), a, e)
<1>1. Base(s, m, a, e)
  BY Zenon DEF InTurn
<1>2. /\ s \in Senders /\ Settled(s, m) /\ a \in Nat /\ e \in Nat
      /\ s.input_ \in Streams(Nat) /\ Tiled(s.input_)
      /\ s.cur_win_size_ \in Nat /\ s.bytes_in_queue_ \in Nat
  BY <1>1, BaseIs
<1>3. PICK k \in Nat, from \in Nat, end \in Nat, base \in Nat :
        Unacked(s, m, k, from, end, e) /\ Begins(s, from, a, e) /\ Building(s, m, base)
  BY Zenon DEF InTurn
<1>4. m \in Messages /\ s.syn_sent
  BY <1>3, Zenon DEF Building
<1>5. PICK t \in Senders :
        /\ t = EndTurn(s, m) /\ (t.fin <=> s.fin \/ LateFin(s, m))
        /\ t.input_ = s.input_ /\ t.isn_ = s.isn_ /\ t.msg_queue_ = s.msg_queue_
        /\ t.bytes_in_queue_ = s.bytes_in_queue_ /\ t.cur_win_size_ = s.cur_win_size_
        /\ t.syn_sent = s.syn_sent
        /\ t.fin_received = s.fin_received /\ t.fin_queued = s.fin_queued
  BY <1>2, EndTurnIs
<1>6. PICK u \in Messages :
        /\ u = Ended(s, m) /\ u.seqno = m.seqno /\ u.SYN = m.SYN /\ u.payload = m.payload
        /\ u.FIN <=> m.FIN \/ LateFin(s, m)
        /\ Carried(u) = Carried(m)
  BY <1>2, <1>4, EndedIs
<1>7. LateFin(s, m) => Emptied(s.input_)
  BY <1>2, EmptyStream, Zenon DEF LateFin
<1>8. Settled(t, u)
  BY <1>2, <1>4, <1>5, <1>6, <1>7, Zenon DEF Settled
<1>9. Unacked(t, u, k, from, end, e)
  BY <1>3, <1>5, <1>6, Zenon DEF Unacked, UptoOf
<1>10. PICK win \in Nat, held \in Nat : win = s.cur_win_size_ /\ held = s.bytes_in_queue_
  BY <1>2
<1>11. PICK f \in Nat, l \in Nat, g \in Nat :
         /\ f = Flag(m.SYN) /\ l = Len(m.payload) /\ g = Flag(m.FIN)
         /\ SequenceLength(m) = f + l + g /\ Carried(m) = f + l
         /\ (m.SYN => f = 1) /\ (~m.SYN => f = 0)
         /\ (m.FIN => g = 1) /\ (~m.FIN => g = 0)
         /\ (m.payload = <<>> <=> l = 0)
  BY <1>4, Lengths
<1>12. PICK g2 \in Nat :
         /\ g2 = Flag(u.FIN) /\ SequenceLength(u) = f + l + g2
         /\ (u.FIN => g2 = 1) /\ (~u.FIN => g2 = 0)
  <2>1. PICK f2 \in Nat, l2 \in Nat, g2 \in Nat :
          /\ f2 = Flag(u.SYN) /\ l2 = Len(u.payload) /\ g2 = Flag(u.FIN)
          /\ SequenceLength(u) = f2 + l2 + g2
          /\ (u.FIN => g2 = 1) /\ (~u.FIN => g2 = 0)
    BY Lengths
  <2>2. f2 = f /\ l2 = l
    BY <1>6, <1>11, <2>1, Zenon
  <2> QED BY <2>1, <2>2, Zenon
<1>13. Flight(s, m) = f + l + g + held /\ Flight(t, u) = f + l + g2 + held
  BY <1>5, <1>10, <1>11, <1>12, Zenon DEF Flight
<1>14. LateFin(s, m) => f + l + g + held < win
  BY <1>10, <1>13, Zenon DEF LateFin
<1>15. SequenceLength(m) > 0 /\ win # 0 => f + l + g + held <= win
  BY <1>3, <1>10, <1>13, Zenon DEF Building
<1>16. SequenceLength(u) > 0 /\ win # 0 => f + l + g2 + held <= win
  <2>1. CASE LateFin(s, m)
    BY <1>6, <1>11, <1>12, <1>14, <2>1
  <2>2. CASE ~LateFin(s, m)
    <3>1. g2 = g
      BY <1>6, <1>11, <1>12, <2>2
    <3> QED BY <1>11, <1>12, <1>15, <3>1, Zenon
  <2> QED BY <2>1, <2>2
<1>17. win = 0 => SequenceLength(u) = SequenceLength(m)
  <2>1. win = 0 => ~LateFin(s, m)
    BY <1>14
  <2>2. win = 0 => g2 = g
    BY <1>6, <1>11, <1>12, <2>1
  <2> QED BY <1>11, <1>12, <2>2, Zenon
<1>18. Building(t, u, base)
  <2>1. Stuck(m) => Stuck(u)
    BY <1>6, Zenon DEF Stuck
  <2> QED BY <1>3, <1>5, <1>6, <1>10, <1>13, <1>16, <1>17, <2>1, Zenon DEF Building
<1>19. Begins(t, from, a, e)
  BY <1>3, <1>5, Zenon DEF Begins, Announced
<1> QED BY <1>2, <1>3, <1>5, <1>6, <1>8, <1>9, <1>18, <1>19, Zenon DEF InTurn, Base

\* A message that is dropped carries nothing that is not in the queue.
LEMMA Drops ==
  ASSUME NEW s, NEW m, NEW a, NEW e, InTurn(s, m, a, e), Dropped(s, m)
  PROVE  Quiet(s, a, e)
<1>1. Base(s, m, a, e)
  BY Zenon DEF InTurn
<1>2. /\ s \in Senders /\ Settled(s, m) /\ a \in Nat /\ e \in Nat
      /\ s.cur_win_size_ \in Nat /\ s.bytes_in_queue_ \in Nat
  BY <1>1, BaseIs
<1>3. PICK k \in Nat, from \in Nat, end \in Nat, base \in Nat :
        Unacked(s, m, k, from, end, e) /\ Begins(s, from, a, e) /\ Building(s, m, base)
  BY Zenon DEF InTurn
<1>4. m \in Messages /\ s.syn_sent
  BY <1>3, Zenon DEF Building
<1>5. PICK f \in Nat, l \in Nat, g \in Nat :
         /\ SequenceLength(m) = f + l + g /\ Carried(m) = f + l
         /\ (m.SYN => f = 1) /\ (~m.SYN => f = 0)
         /\ (m.FIN => g = 1) /\ (~m.FIN => g = 0)
         /\ (m.payload = <<>> <=> l = 0)
  BY <1>4, Lengths
<1>6. PICK win \in Nat, held \in Nat : win = s.cur_win_size_ /\ held = s.bytes_in_queue_
  BY <1>2
<1>7. ~m.SYN /\ m.payload = <<>> /\ (m.FIN => s.fin_queued)
  <2>1. CASE m.FIN /\ s.fin_queued
    BY <1>3, <2>1, Zenon DEF Building
  <2>2. CASE Flight(s, m) > s.cur_win_size_ /\ s.cur_win_size_ # 0
    <3>1. PICK fl \in Nat : fl = Flight(s, m) /\ fl = f + l + g + held
      <4>1. f + l + g + held \in Nat
        OBVIOUS
      <4> QED BY <1>5, <1>6, <4>1, Zenon DEF Flight
    <3>2. f + l + g > 0 => fl <= win
      BY <1>3, <1>5, <1>6, <2>2, <3>1, Zenon DEF Building
    <3>3. fl > win
      BY <1>6, <2>2, <3>1, Zenon
    <3>4. f = 0 /\ l = 0 /\ g = 0
      BY <3>2, <3>3
    <3>5. ~(1 = 0)
      OBVIOUS
    <3> QED BY <1>5, <3>4, <3>5, Zenon
  <2>3. CASE m.payload = <<>> /\ ~m.SYN /\ ~s.fin
    BY <1>2, <2>3, Zenon DEF Settled
  <2> QED BY <2>1, <2>2, <2>3, Zenon DEF Dropped
<1>8. Carried(m) = Carried(EmptyMessage) /\ ~EmptyMessage.FIN
  <2>1. f + l = 0
    BY <1>5, <1>7
  <2> QED BY <1>5, <2>1, EmptyFields, Zenon
<1>9. Settled(s, EmptyMessage)
  BY <1>2, <1>7, <1>8, Zenon DEF Settled
<1>10. Unacked(s, EmptyMessage, k, from, end, e)
  BY <1>3, <1>8, Zenon DEF Unacked
<1> QED BY <1>2, <1>3, <1>9, <1>10, Zenon DEF Quiet, Base

\* The sender after transmit( msg ).
Queues(s, m, v) == v = Enqueue(s, m)

LEMMA EnqueueIs ==
  ASSUME NEW s \in Senders, NEW m \in Messages, NEW v, Queues(s, m, v)
  PROVE  /\ v \in Senders /\ (v.fin_queued <=> s.fin_queued \/ m.FIN)
         /\ v.msg_queue_ = Append(s.msg_queue_, m)
         /\ v.bytes_in_queue_ = s.bytes_in_queue_ + SequenceLength(m)
         /\ v.input_ = s.input_ /\ v.isn_ = s.isn_ /\ v.cur_win_size_ = s.cur_win_size_
         /\ v.syn_sent = s.syn_sent /\ v.fin = s.fin /\ v.fin_received = s.fin_received
<1>1. m.FIN \in BOOLEAN /\ s.fin_queued \in BOOLEAN
  BY MessageFields, SenderFields
<1>2. PICK fin \in BOOLEAN : fin = (s.fin_queued \/ m.FIN)
  BY <1>1
<1>3. PICK q \in Seq(Messages) : q = Append(s.msg_queue_, m)
  <2>1. s.msg_queue_ \in Seq(Messages)
    BY SenderFields
  <2> QED BY <2>1, AppendIs
<1>4. PICK n \in Nat : n = s.bytes_in_queue_ + SequenceLength(m)
  <2>1. s.bytes_in_queue_ \in Nat /\ SequenceLength(m) \in Nat
    BY SenderFields, MessageFields
  <2> QED BY <2>1
<1>5. v = [s EXCEPT !.fin_queued = fin, !.msg_queue_ = q, !.bytes_in_queue_ = n]
  BY <1>2, <1>3, <1>4, Zenon DEF Enqueue, Queues
<1>6. /\ v \in Senders /\ v.fin_queued = fin /\ v.msg_queue_ = q /\ v.bytes_in_queue_ = n
      /\ v.input_ = s.input_ /\ v.isn_ = s.isn_ /\ v.cur_win_size_ = s.cur_win_size_
      /\ v.syn_sent = s.syn_sent /\ v.fin = s.fin /\ v.fin_received = s.fin_received
  <2>1. fin \in BOOLEAN /\ q \in Seq(Messages) /\ n \in Nat
    BY <1>2, <1>3, <1>4
  <2> QED BY <1>5, <2>1 DEF Senders
<1> QED BY <1>2, <1>3, <1>4, <1>6, Zenon

\* The first byte of a run.
LEMMA HeadOfBytes ==
  ASSUME NEW base \in Nat, NEW c \in Seq(Nat), c = Bytes(base, Len(c)), c # <<>>
  PROVE  Head(c) = base
<1>1. PICK n \in Nat : n = Len(c) /\ n # 0
  BY EmptyLen
<1>2. PICK d \in Seq(Nat) : d = Bytes(base, n) /\ \A i \in 1 .. n : d[i] = base + i - 1
  BY BytesRun
<1>3. d = c
  BY <1>1, <1>2, Zenon
<1>4. c[1] = base + 1 - 1
  BY <1>1, <1>2, <1>3
<1>5. Head(c) = c[1]
  OBVIOUS
<1> QED BY <1>4, <1>5

\* A message that is queued and has a number: its first number is where the queue ended.
LEMMA BuiltNumber ==
  ASSUME NEW s, NEW m, NEW k, NEW from, NEW end \in Nat, NEW base \in Nat, NEW far,
         s \in Senders, s.input_.totalPopped \in Nat, s.input_.totalPushed \in Nat,
         Settled(s, m), Unacked(s, m, k, from, end, far), Building(s, m, base), ~s.fin_queued,
         SequenceLength(m) > 0
  PROVE  /\ NumberOf(m, s.input_.totalPushed) = end
         /\ m.seqno = WrapSeq(end, Isn)
         /\ m.payload # <<>> => m.payload = Bytes(Head(m.payload), Len(m.payload))
<1>1. m \in Messages /\ s.syn_sent
  BY Zenon DEF Building
<1>2. PICK f \in Nat, l \in Nat, g \in Nat :
         /\ l = Len(m.payload)
         /\ SequenceLength(m) = f + l + g /\ Carried(m) = f + l
         /\ (m.SYN => f = 1) /\ (~m.SYN => f = 0)
         /\ (m.FIN => g = 1) /\ (~m.FIN => g = 0)
         /\ (m.payload = <<>> <=> l = 0)
  BY <1>1, Lengths, ZenonT(30)
<1>3. PICK popped \in Nat, pushed \in Nat : popped = s.input_.totalPopped /\ pushed = s.input_.totalPushed
  OBVIOUS
<1>4. base + l = popped /\ m.payload = Bytes(base, Len(m.payload))
  BY <1>2, <1>3, Zenon DEF Building
<1>5. end + (f + l) = 1 + popped + 0
  <2>1. Flag(s.syn_sent) = 1 /\ Flag(s.fin_queued) = 0
    BY <1>1, Zenon DEF Flag
  <2> QED BY <1>2, <1>3, <2>1, Zenon DEF Unacked, UptoOf
<1>6. end = (base + 1) - f /\ (m.SYN => end = base) /\ (~m.SYN => end = base + 1)
  BY <1>2, <1>4, <1>5, SMTT(30)
<1>7. m.SYN => base = 0
  BY Zenon DEF Building
<1>8. m.seqno = WrapSeq(IF m.SYN THEN 0 ELSE base + 1, Isn)
  BY Zenon DEF Building
<1>9. m.seqno = WrapSeq(end, Isn)
  BY <1>6, <1>7, <1>8, Zenon
<1>10. m.payload # <<>> => Head(m.payload) = base
  BY <1>1, <1>4, MessageFields, HeadOfBytes
<1>11. ~m.SYN /\ m.payload = <<>> => pushed + 1 = end
  <2>0. f # 0 \/ l # 0 \/ g # 0
    <3>1. f + l + g > 0
      BY <1>2, Zenon
    <3> QED BY <3>1
  <2>1. ~m.SYN /\ m.payload = <<>> => m.FIN
    BY <1>2, <2>0, Zenon
  <2>2. m.FIN => popped = pushed
    BY <1>3, Zenon DEF Settled, Emptied
  <2> QED BY <1>2, <1>4, <1>6, <2>1, <2>2
<1>12. NumberOf(m, pushed) = end
  BY <1>6, <1>7, <1>10, <1>11, Zenon DEF NumberOf
<1> QED BY <1>3, <1>4, <1>9, <1>10, <1>12, Zenon

\* It lies within a window that was announced.
LEMMA BuiltFits ==
  ASSUME NEW s, NEW m, NEW a, NEW e, NEW k \in Nat, NEW from \in Nat, NEW end \in Nat,
         NEW base \in Nat, Begins(s, from, a, e), ~AcksStale,
         Base(s, m, a, e), Unacked(s, m, k, from, end, e), Building(s, m, base), ~Dropped(s, m),
         m.payload # <<>>
  PROVE  end + Flag(m.SYN) + Len(m.payload) <= e
<1>1. m \in Messages
  BY Zenon DEF Building
<1>2. PICK f \in Nat, l \in Nat, g \in Nat :
         /\ f = Flag(m.SYN) /\ l = Len(m.payload)
         /\ SequenceLength(m) = f + l + g
  BY <1>1, Lengths, ZenonT(30)
<1>3. /\ s.cur_win_size_ \in Nat /\ s.bytes_in_queue_ \in Nat /\ e \in Nat
  BY BaseIs
<1>4. PICK win \in Nat, held \in Nat : win = s.cur_win_size_ /\ held = s.bytes_in_queue_
  BY <1>3
<1>5. from + held = end
  BY <1>4, Zenon DEF Unacked
<1>6. from + win <= e /\ from + 1 <= e
  BY <1>4, Zenon DEF Begins, Announced
<1>7. CASE win = 0
  <2>1. f + l + g <= 1 /\ s.msg_queue_ = <<>>
    BY <1>2, <1>4, <1>7, Zenon DEF Building, Stuck
  <2>2. held = 0
    BY <1>3, <1>4, <2>1, EmptyQueue
  <2>3. end + f + l <= e
    BY <1>3, <1>5, <1>6, <2>1, <2>2
  <2> QED BY <1>2, <2>3, Zenon
<1>8. CASE win # 0
  <2>1. PICK fl \in Nat : fl = f + l + g + held
    OBVIOUS
  <2>2. fl = Flight(s, m)
    BY <1>2, <1>4, <2>1, Zenon DEF Flight
  <2>3. ~(fl > win)
    BY <1>4, <1>8, <2>2, Zenon DEF Dropped
  <2>4. PICK far \in Nat : far = e /\ from + win <= far
    BY <1>3, <1>6
  <2>5. from + held + f + l <= far
    BY <2>1, <2>3, <2>4
  <2>6. end + f + l <= far
    BY <1>5, <2>5
  <2> QED BY <1>2, <2>4, <2>6, Zenon
<1> QED BY <1>7, <1>8

\* A message that is not dropped goes to the end of the queue.
LEMMA Enqueues ==
  ASSUME NEW s, NEW m, NEW a, NEW e, InTurn(s, m, a, e), ~Dropped(s, m),
         NEW v, Queues(s, m, v)
  PROVE  Quiet(v, a, e)
<1>1. Base(s, m, a, e)
  BY Zenon DEF InTurn
<1>2. /\ s \in Senders /\ Settled(s, m) /\ a \in Nat /\ e \in Nat
      /\ s.input_.totalPushed \in Nat /\ s.input_.totalPopped \in Nat
      /\ s.cur_win_size_ \in Nat /\ s.bytes_in_queue_ \in Nat /\ a \in Nat /\ e \in Nat
      /\ s.fin_queued \in BOOLEAN
  BY <1>1, BaseIs
<1>3. PICK k \in Nat, from \in Nat, end \in Nat, base \in Nat :
        Unacked(s, m, k, from, end, e) /\ Begins(s, from, a, e) /\ Building(s, m, base)
  BY Zenon DEF InTurn
<1>4. m \in Messages /\ s.syn_sent
  BY <1>3, Zenon DEF Building
<1>5. PICK f \in Nat, l \in Nat, g \in Nat :
         /\ f = Flag(m.SYN) /\ l = Len(m.payload) /\ g = Flag(m.FIN)
         /\ SequenceLength(m) = f + l + g /\ Carried(m) = f + l
         /\ (m.SYN => f = 1) /\ (~m.SYN => f = 0)
         /\ (m.FIN => g = 1) /\ (~m.FIN => g = 0)
         /\ (m.payload = <<>> <=> l = 0)
  BY <1>4, Lengths
<1>6. PICK q : q = s.msg_queue_
  OBVIOUS
<1>7. PICK popped \in Nat, pushed \in Nat, held \in Nat :
        popped = s.input_.totalPopped /\ pushed = s.input_.totalPushed /\ held = s.bytes_in_queue_
  BY <1>2
<1>8. /\ v \in Senders /\ (v.fin_queued <=> s.fin_queued \/ m.FIN)
      /\ v.msg_queue_ = Append(s.msg_queue_, m)
      /\ v.bytes_in_queue_ = s.bytes_in_queue_ + SequenceLength(m)
      /\ v.input_ = s.input_ /\ v.isn_ = s.isn_ /\ v.cur_win_size_ = s.cur_win_size_
      /\ v.syn_sent = s.syn_sent /\ v.fin = s.fin /\ v.fin_received = s.fin_received
  BY <1>2, <1>4, EnqueueIs
<1>9. v.fin_queued \in BOOLEAN /\ ~EmptyMessage.FIN /\ Carried(EmptyMessage) = 0
  BY <1>8, SenderFields, EmptyFields
<1>10. Settled(v, EmptyMessage)
  BY <1>2, <1>4, <1>8, <1>9, Zenon DEF Settled
<1>11. Begins(v, from, a, e)
  BY <1>3, <1>8, Zenon DEF Begins, Announced
<1>12. Chain(q, k, from, end, pushed, e)
  BY <1>3, <1>6, <1>7, Zenon DEF Unacked
<1>13. from + held = end
  BY <1>3, <1>7, Zenon DEF Unacked
\* A message without a number.
<1>14. CASE SequenceLength(m) = 0
  <2>1. f = 0 /\ l = 0 /\ g = 0
    BY <1>5, <1>14
  <2>2. ~(1 = 0)
    OBVIOUS
  <2>3. ~m.SYN /\ m.payload = <<>> /\ ~m.FIN
    BY <1>5, <2>1, <2>2, Zenon
  <2>4. s.fin
    BY <2>3, Zenon DEF Dropped
  <2>5. s.fin_queued /\ popped = pushed
    BY <1>2, <1>7, <2>3, <2>4, Zenon DEF Settled, Emptied
  <2>6. base + 0 = popped /\ m.seqno = WrapSeq(base + 1, Isn)
    BY <1>3, <1>5, <1>7, <2>1, <2>3, Zenon DEF Building
  <2>7. base + 1 = pushed + 1
    BY <2>5, <2>6
  <2>8. Sound(m, pushed, e)
    BY <2>3, <2>6, <2>7, Zenon DEF Sound, NumberOf
  <2>9. Chain(Append(q, m), k, from, end, pushed, e)
    BY <1>4, <1>12, <1>14, <2>8, ChainAppendEmpty
  <2>10. v.fin_queued = s.fin_queued
    BY <1>2, <1>8, <1>9, <2>5
  <2>11. UptoOf(v) = UptoOf(s)
    BY <1>8, <2>10, Zenon DEF UptoOf
  <2>12. Carried(m) = Carried(EmptyMessage)
    BY <1>5, <1>9, <2>1
  <2>13. held + 0 = held
    OBVIOUS
  <2>14. Unacked(v, EmptyMessage, k, from, end, e)
    BY <1>3, <1>6, <1>7, <1>8, <1>14, <2>5, <2>9, <2>10, <2>11, <2>12, <2>13, Zenon DEF Unacked
  <2> QED BY <1>2, <1>3, <1>8, <1>10, <1>11, <2>14, Zenon DEF Quiet, Base
\* A message with one: nothing was queued after it, for the FIN is not out yet.
<1>15. CASE SequenceLength(m) # 0
  <2>1. f # 0 \/ l # 0 \/ g # 0
    BY <1>5, <1>15
  <2>2. PICK len \in Nat : len = SequenceLength(m) /\ len = f + l + g /\ len > 0
    BY <1>5, <1>15
  <2>3. m.SYN \/ m.payload # <<>> \/ m.FIN
    BY <1>5, <2>1, Zenon
  <2>4. ~s.fin_queued
    BY <1>3, <2>3, Zenon DEF Building, Dropped
  <2>5. Opens(q) /\ ~s.fin_received
    BY <1>2, <1>3, <1>6, <2>4, Zenon DEF Unacked, Settled
  <2>6. /\ NumberOf(m, pushed) = end /\ m.seqno = WrapSeq(end, Isn)
        /\ m.payload # <<>> => m.payload = Bytes(Head(m.payload), Len(m.payload))
    <3>1. SequenceLength(m) > 0
      BY <2>2, Zenon
    <3> QED BY <1>2, <1>3, <1>7, <2>4, <3>1, BuiltNumber
  <2>7. m.payload # <<>> => AcksStale \/ end + Flag(m.SYN) + Len(m.payload) <= e
    BY <1>1, <1>3, BuiltFits
  <2>8. Sound(m, pushed, e)
    BY <2>6, <2>7, Zenon DEF Sound
  <2>9. PICK after \in Nat : after = end + len
    OBVIOUS
  <2>10. PICK j \in Nat : j = k + 1
    OBVIOUS
  <2>11. k = Len(q) /\ Chain(Append(q, m), j, from, after, pushed, e)
    <3>1. SequenceLength(m) > 0 /\ after = end + SequenceLength(m)
      BY <2>2, <2>9, Zenon
    <3> QED BY <1>2, <1>4, <1>12, <2>5, <2>6, <2>8, <2>10, <3>1, ChainAppend
  <2>12. after + Carried(EmptyMessage) = UptoOf(v)
    <3>1. Flag(v.syn_sent) = 1 /\ Flag(s.syn_sent) = 1 /\ Flag(s.fin_queued) = 0
      BY <1>4, <1>8, <2>4, Zenon DEF Flag
    <3>2. Flag(v.fin_queued) = g
      <4>1. Flag(v.fin_queued) = Flag(m.FIN)
        BY <1>8, <2>4, Zenon DEF Flag
      <4> QED BY <1>5, <4>1, Zenon
    <3>3. UptoOf(v) = 1 + popped + g /\ end + (f + l) = 1 + popped + 0
      BY <1>3, <1>5, <1>7, <1>8, <3>1, <3>2, Zenon DEF UptoOf, Unacked
    <3>4. after + 0 = 1 + popped + g
      BY <2>2, <2>9, <3>3
    <3> QED BY <1>9, <3>3, <3>4, Zenon
  <2>13. from + v.bytes_in_queue_ = after
    <3>1. from + (held + len) = after
      BY <1>2, <1>13, <2>9
    <3> QED BY <1>7, <1>8, <2>2, <3>1, Zenon
  <2>14. ~m.FIN => Opens(Append(q, m))
    <3>1. q \in Seq(Messages)
      BY <1>12, Zenon DEF Chain
    <3>2. PICK r \in Seq(Messages) : /\ r = Append(q, m) /\ Len(r) = Len(q) + 1 /\ r[Len(q) + 1] = m
                                     /\ \A i \in 1 .. Len(q) : r[i] = q[i]
      BY <1>4, <3>1, AppendIs
    <3>3. Len(q) \in Nat
      BY <3>1, EmptyLen
    <3>4. \A i \in 1 .. Len(r) : i = Len(q) + 1 \/ i \in 1 .. Len(q)
      BY <3>2, <3>3
    <3> QED BY <2>3, <2>5, <3>2, <3>4, Zenon DEF Opens
  <2>15. v.fin_queued \/ Opens(v.msg_queue_)
    BY <1>6, <1>8, <2>14, Zenon
  <2>16. ~v.fin_received
    BY <1>8, <2>5, Zenon
  <2>17. Unacked(v, EmptyMessage, j, from, after, e)
    BY <1>6, <1>7, <1>8, <2>11, <2>12, <2>13, <2>15, <2>16, Zenon DEF Unacked
  <2> QED BY <1>2, <1>8, <1>10, <1>11, <2>17, Zenon DEF Quiet, Base
<1> QED BY <1>14, <1>15
-----------------------------------------------------------------------------
LEMMA LargerIs ==
  ASSUME NEW x \in Nat, NEW y \in Nat
  PROVE  Larger(x, y) \in Nat /\ Larger(x, y) >= x /\ Larger(x, y) >= y /\ (x <= y => Larger(x, y) = y)
BY DEF Larger

\* receive() takes over the window and the reset of the peer, and nothing else.
LEMMA TakeWindowIs ==
  ASSUME NEW s \in Senders, NEW w \in Nat, NEW rst \in BOOLEAN
  PROVE  LET t == TakeWindow(s, w, rst)
         IN  /\ t \in Senders /\ SameQueue(s, t) /\ SameStream(s.input_, t.input_)
             /\ t.cur_win_size_ = w
<1>1. PICK z \in BOOLEAN : z = (w = 0)
  OBVIOUS
<1>2. PICK x : x = s.input_ /\ x \in Streams(Nat)
  BY SenderFields
<1>3. PICK y : y = IF rst THEN SetError(x) ELSE x
  OBVIOUS
<1>4. /\ y \in Streams(Nat) /\ y.capacity_ = x.capacity_ /\ y.deck_ = x.deck_
      /\ y.isClosed = x.isClosed /\ y.totalPushed = x.totalPushed
      /\ y.totalPopped = x.totalPopped /\ y.bytes_in_deck_ = x.bytes_in_deck_
  <2>1. CASE rst
    <3>1. y = [x EXCEPT !.error_ = TRUE]
      BY <1>3, <2>1, Zenon DEF SetError
    <3> QED BY <1>2, <3>1 DEF Streams
  <2>2. CASE ~rst
    BY <1>2, <1>3, <2>2
  <2> QED BY <2>1, <2>2
<1>5. SameStream(x, y)
  BY <1>4, Zenon DEF SameStream, Tiled
<1>6. PICK t : t = [s EXCEPT !.cur_win_size_ = w, !.win_advertised_zero = z, !.input_ = y]
  OBVIOUS
<1>7. t = TakeWindow(s, w, rst)
  BY <1>1, <1>2, <1>3, <1>6, Zenon DEF TakeWindow
<1>8. t \in Senders /\ t.cur_win_size_ = w /\ t.input_ = y /\ SameQueue(s, t)
  <2> HIDE <1>7
  <2> QED BY <1>1, <1>4, <1>6 DEF Senders, SameQueue
<1> QED BY <1>2, <1>5, <1>7, <1>8, Zenon

\* No message of a chain begins before its first.
LEMMA ChainFrom ==
  ASSUME NEW q, NEW k \in Nat, NEW from \in Nat, NEW end, NEW pushed \in Nat, NEW far,
         Chain(q, k, from, end, pushed, far), NEW i \in 1 .. k
  PROVE  /\ NumberOf(q[i], pushed) \in Nat /\ SequenceLength(q[i]) \in Nat
         /\ from <= NumberOf(q[i], pushed)
<1>1. q \in Seq(Messages) /\ k \in 0 .. Len(q) /\ Len(q) \in Nat
  <2>1. q \in Seq(Messages) /\ k \in 0 .. Len(q)
    BY Zenon DEF Chain
  <2> QED BY <2>1, EmptyLen
<1>2. ASSUME NEW j \in 1 .. k
      PROVE  NumberOf(q[j], pushed) \in Nat /\ SequenceLength(q[j]) \in Nat
  <2>1. PICK x \in Messages : x = q[j]
    BY <1>1
  <2> QED BY <2>1, NumberIs, MessageFields
<1>3. PICK T : T = {j \in 1 .. k : from <= NumberOf(q[j], pushed)}
  OBVIOUS
<1>4. 1 \in T \/ k = 0
  <2>1. k # 0 => 1 \in 1 .. k /\ from <= from
    OBVIOUS
  <2>2. k # 0 => from = NumberOf(q[1], pushed)
    BY Zenon DEF Chain
  <2> QED BY <1>3, <2>1, <2>2, Zenon
<1>5. ASSUME NEW j \in 2 .. k, j - 1 \in T
      PROVE  j \in T
  <2>1. PICK h \in 1 .. k : h = j - 1 /\ h # k /\ h + 1 = j /\ j \in 1 .. k
    OBVIOUS
  <2>2. Link(q, k, end, pushed, h)
    BY <2>1, Zenon DEF Chain
  <2>3. NumberOf(q[h], pushed) + SequenceLength(q[h]) = NumberOf(q[j], pushed)
    BY <2>1, <2>2, Zenon DEF Link
  <2>4. from <= NumberOf(q[h], pushed)
    BY <1>3, <1>5, <2>1
  <2>5. PICK x \in Nat, y \in Nat : x = NumberOf(q[h], pushed) /\ y = SequenceLength(q[h])
    BY <1>2
  <2>6. from <= x + y
    BY <2>4, <2>5
  <2> QED BY <1>3, <2>1, <2>3, <2>5, <2>6, Zenon
<1>6. 1 .. k \subseteq T
  BY <1>4, <1>5, IntervalInduction
<1> QED BY <1>2, <1>3, <1>6

\* The numbers the peer may acknowledge: what it has acknowledged or, if acknowledgments
\* overtake each other, had before; all it was sent; the oldest message or, if some get
\* lost, any.
AckOf(s, a, n) ==
  \/ n = a
  \/ n = UptoOf(s)
  \/ AcksStale /\ n <= a
  \/ \E i \in 1 .. Len(s.msg_queue_) :
       LET msg == s.msg_queue_[i]
       IN  /\ SequenceLength(msg) > 0
           /\ n = NumberOf(msg, s.input_.totalPushed) + SequenceLength(msg)
           /\ AcksLost \/ i = 1

LEMMA Receives ==
  ASSUME NEW s, NEW a, NEW e, Quiet(s, a, e), NEW n \in Nat, n <= StreamLen + 2, AckOf(s, a, n),
         NEW w \in Nat, NEW rst \in BOOLEAN
  PROVE  InAcks(TakeWindow(s, w, rst), WrapSeq(n, Isn), Larger(a, n), Larger(e, n + Larger(w, 1)))
<1>1. Base(s, EmptyMessage, a, e)
  BY Zenon DEF Quiet
<1>2. /\ s \in Senders /\ Settled(s, EmptyMessage) /\ s.input_.totalPushed \in Nat
      /\ s.bytes_in_queue_ \in Nat /\ a \in Nat /\ e \in Nat
  BY <1>1, BaseIs
<1>3. PICK k \in Nat, from \in Nat, end \in Nat :
        Unacked(s, EmptyMessage, k, from, end, e) /\ Begins(s, from, a, e)
  BY Zenon DEF Quiet
<1>4. PICK t : t = TakeWindow(s, w, rst)
  OBVIOUS
<1>5. t \in Senders /\ SameQueue(s, t) /\ SameStream(s.input_, t.input_) /\ t.cur_win_size_ = w
  BY <1>2, <1>4, TakeWindowIs
<1>6. PICK room \in Nat : room = Larger(w, 1) /\ room >= w /\ room >= 1
  <2>1. 1 \in Nat
    OBVIOUS
  <2> QED BY <2>1, LargerIs
<1>7. PICK far \in Nat : far = Larger(e, n + room) /\ e <= far /\ n + room <= far
  <2>1. n + room \in Nat
    OBVIOUS
  <2> QED BY <1>2, <2>1, LargerIs
<1>8. Settled(t, EmptyMessage) /\ Unacked(t, EmptyMessage, k, from, end, far)
  BY <1>2, <1>3, <1>5, <1>7, SameKeeps
<1>9. n + w <= far /\ n + 1 <= far
  BY <1>6, <1>7
<1>10. Announced(t, n, far)
  BY <1>5, <1>7, <1>9, Zenon DEF Announced
<1>11. PICK q, pushed : q = s.msg_queue_ /\ pushed = s.input_.totalPushed
  OBVIOUS
<1>12. Chain(q, k, from, end, pushed, e) /\ pushed \in Nat
  BY <1>2, <1>3, <1>11, Zenon DEF Unacked
<1>13. end = UptoOf(s)
  <2>1. end + 0 = UptoOf(s)
    BY <1>3, EmptyFields, Zenon DEF Unacked
  <2> QED BY <2>1
<1>14. from <= end
  <2>1. from + s.bytes_in_queue_ = end
    BY <1>3, Zenon DEF Unacked
  <2> QED BY <1>2, <2>1
<1>15. from <= a /\ (AcksLost \/ from = a)
  BY <1>3, Zenon DEF Begins
<1>16. ASSUME NEW i \in 1 .. Len(q), SequenceLength(q[i]) > 0,
              n = NumberOf(q[i], pushed) + SequenceLength(q[i]), AcksLost \/ i = 1
       PROVE  from <= n /\ (AcksLost \/ (k # 0 /\ n = from + SequenceLength(q[1])))
  <2>1. i <= k
    BY <1>12, <1>16, Zenon DEF Chain
  <2>2. i \in 1 .. k /\ k # 0
    BY <2>1
  <2>3. PICK x \in Nat, y \in Nat :
          x = NumberOf(q[i], pushed) /\ y = SequenceLength(q[i]) /\ from <= x
    BY <1>12, <2>2, ChainFrom
  <2>4. from <= n
    BY <1>16, <2>3
  <2>5. from = NumberOf(q[1], pushed)
    BY <1>12, <2>2, Zenon DEF Chain
  <2> QED BY <1>16, <2>2, <2>4, <2>5, Zenon
<1>17. \/ n = a \/ n = end \/ (AcksStale /\ n <= a)
       \/ from <= n /\ (AcksLost \/ (k # 0 /\ n = from + SequenceLength(q[1])))
  BY <1>11, <1>13, <1>16, Zenon DEF AckOf
<1>18. AcksStale \/ from <= n
  BY <1>14, <1>15, <1>17
<1>19. Announced(t, from, far)
  <2>1. from <= n => from + w <= far /\ from + 1 <= far
    BY <1>9
  <2> QED BY <1>5, <1>18, <2>1, Zenon DEF Announced
<1>20. PICK b \in Nat : b = Larger(a, n) /\ a <= b /\ n <= b /\ (a <= n => b = n) /\ (n <= a => b = a)
  BY <1>2 DEF Larger
<1>21. from <= b
  BY <1>2, <1>15, <1>20
<1>22. Acking(t, WrapSeq(n, Isn), n, b, k, from, end)
  <2>1. ASSUME ~AcksLost, from # b
        PROVE  (n = b /\ b = end) \/ (n = b /\ k # 0 /\ b = from + SequenceLength(q[1]))
    <3>1. from = a
      BY <1>15, <2>1
    <3>2. ~(n <= a)
      BY <1>20, <2>1, <3>1
    <3>3. b = n /\ n # a
      BY <1>2, <1>20, <3>2
    <3> QED BY <1>17, <2>1, <3>2, <3>3, Zenon
  <2>2. t.msg_queue_ = q
    BY <1>5, <1>11, Zenon DEF SameQueue
  <2> QED BY <1>20, <2>1, <2>2, Zenon DEF Acking
<1>23. InAcks(t, WrapSeq(n, Isn), b, far)
  <2>1. Base(t, EmptyMessage, b, far)
    BY <1>5, <1>7, <1>8, <1>20, Zenon DEF Base
  <2> QED BY <1>3, <1>8, <1>10, <1>19, <1>21, <1>22, <2>1, Zenon DEF InAcks
<1> QED BY <1>4, <1>6, <1>7, <1>20, <1>23, Zenon

\* Before the SYN there is nothing to acknowledge.
LEMMA ReceivesEmpty ==
  ASSUME NEW s, NEW a, NEW e, Quiet(s, a, e), ~s.syn_sent, NEW w \in Nat, NEW ackno,
         NEW no \in BOOLEAN
  PROVE  InAcks(TakeWindow(s, w, no), ackno, a, Larger(e, Larger(w, 1)))
<1>1. Base(s, EmptyMessage, a, e)
  BY Zenon DEF Quiet
<1>2. /\ s \in Senders /\ Settled(s, EmptyMessage) /\ s.input_.totalPushed \in Nat
      /\ s.bytes_in_queue_ \in Nat /\ a \in Nat /\ e \in Nat
  BY <1>1, BaseIs
<1>3. PICK k \in Nat, from \in Nat, end \in Nat :
        Unacked(s, EmptyMessage, k, from, end, e) /\ Begins(s, from, a, e)
  BY Zenon DEF Quiet
<1>4. PICK t : t = TakeWindow(s, w, no)
  OBVIOUS
<1>5. t \in Senders /\ SameQueue(s, t) /\ SameStream(s.input_, t.input_) /\ t.cur_win_size_ = w
  BY <1>2, <1>4, TakeWindowIs
<1>6. PICK room \in Nat : room = Larger(w, 1) /\ room >= w /\ room >= 1
  <2>1. 1 \in Nat
    OBVIOUS
  <2> QED BY <2>1, LargerIs
<1>7. PICK far \in Nat : far = Larger(e, room) /\ e <= far /\ room <= far
  BY <1>2, LargerIs
<1>8. Settled(t, EmptyMessage) /\ Unacked(t, EmptyMessage, k, from, end, far)
  BY <1>2, <1>3, <1>5, <1>7, SameKeeps
<1>9. s.msg_queue_ = <<>> /\ s.input_.totalPopped = 0 /\ ~s.fin_queued
  BY <1>2, Zenon DEF Settled
<1>10. UptoOf(s) = 0 + 0 + 0
  BY <1>9, Zenon DEF UptoOf, Flag
<1>11. end + 0 = UptoOf(s)
  BY <1>3, EmptyFields, Zenon DEF Unacked
<1>12. from = end
  BY <1>2, <1>3, <1>9, EmptyQueue
<1>13. from = 0
  BY <1>10, <1>11, <1>12
<1>14. 0 + w <= far /\ 0 + 1 <= far /\ 0 \in Nat
  BY <1>6, <1>7
<1>15. Announced(t, from, far)
  BY <1>5, <1>7, <1>13, <1>14, Zenon DEF Announced
<1>16. Acking(t, ackno, from, a, k, from, end)
  <2>1. 0 <= StreamLen + 2
    BY MachineAssumption
  <2> QED BY <1>3, <1>5, <1>9, <1>13, <2>1, Zenon DEF Acking, SameQueue, Begins
<1>17. InAcks(t, ackno, a, far)
  <2>1. Base(t, EmptyMessage, a, far)
    BY <1>2, <1>5, <1>7, <1>8, Zenon DEF Base
  <2> QED BY <1>3, <1>8, <1>15, <1>16, <2>1, Zenon DEF InAcks, Begins
<1> QED BY <1>4, <1>6, <1>7, <1>17, Zenon

\* Every number in use is near the checkpoint that unwrap() is given.
LEMMA NumberReadBack ==
  ASSUME NEW s, NEW m, NEW a, NEW e, Base(s, m, a, e),
         NEW n \in Nat, n <= StreamLen + 2, NEW num, num = WrapSeq(n, Isn)
  PROVE  Absolute64(s, num) = n
<1>1. PICK cp \in Nat : cp = s.input_.totalPushed
  BY BaseIs
<1>2. s.isn_ = Isn /\ cp <= StreamLen
  BY <1>1, Zenon DEF Base, Settled
<1>3. PICK len \in Nat, top \in Nat, max \in Nat :
        len = StreamLen /\ top = WordMod /\ max = RelSeqMax /\ top > 4 * max /\ 2 * (len + 2) < max
  BY MachineAssumption, RelSeqMaxAssumption, WordModAssumption
<1>4. cp <= len /\ n <= len + 2
  BY <1>2, <1>3
<1>5. 2 * Distance(n, cp) < max
  BY <1>3, <1>4 DEF Distance
<1>6. cp + 2 * max < top
  BY <1>3, <1>4
<1>7. Isn \in Seqnos
  BY MachineAssumption
<1>8. 2 * Distance(n, cp) < RelSeqMax /\ cp + 2 * RelSeqMax < WordMod
  BY <1>3, <1>5, <1>6, Zenon
<1>9. Unwrap(WrapSeq(n, Isn), Isn, cp) = n
  BY <1>7, <1>8, UnwrapWrapped
<1> QED BY <1>1, <1>2, <1>9, Zenon DEF Absolute64

\* The queue ends within the numbers of the stream.
LEMMA EndIs ==
  ASSUME NEW s, NEW a, NEW e, NEW k, NEW from \in Nat, NEW end \in Nat,
         Base(s, EmptyMessage, a, e), Unacked(s, EmptyMessage, k, from, end, e)
  PROVE  from <= end /\ from + s.bytes_in_queue_ = end /\ end <= StreamLen + 2
<1>1. /\ s \in Senders /\ s.input_ \in Streams(Nat) /\ Tiled(s.input_) /\ Settled(s, EmptyMessage)
      /\ s.input_.totalPushed \in Nat /\ s.input_.totalPopped \in Nat /\ s.bytes_in_queue_ \in Nat
      /\ s.syn_sent \in BOOLEAN /\ s.fin_queued \in BOOLEAN
  BY BaseIs
<1>2. PICK popped \in Nat, pushed \in Nat, held \in Nat, len \in Nat :
        /\ popped = s.input_.totalPopped /\ pushed = s.input_.totalPushed
        /\ held = s.bytes_in_queue_ /\ len = StreamLen
  BY <1>1, MachineAssumption
<1>3. from + held = end
  BY <1>2, Zenon DEF Unacked
<1>4. pushed <= len
  BY <1>1, <1>2, Zenon DEF Settled
<1>5. popped <= pushed
  <2>1. s.input_.bytes_in_deck_ + popped = pushed
    BY <1>1, <1>2, EmptyStream, Zenon
  <2>2. s.input_.bytes_in_deck_ \in Nat
    BY <1>1, StreamFields
  <2> QED BY <2>1, <2>2
<1>6. PICK f \in Nat, g \in Nat :
        f = Flag(s.syn_sent) /\ g = Flag(s.fin_queued) /\ f <= 1 /\ g <= 1
  BY <1>1 DEF Flag
<1>7. end + 0 = f + popped + g
  BY <1>2, <1>6, EmptyFields, Zenon DEF Unacked, UptoOf
<1>8. from <= end /\ end <= len + 2
  BY <1>3, <1>4, <1>5, <1>6, <1>7
<1> QED BY <1>2, <1>3, <1>8, Zenon

\* What receive() finds when it looks at the oldest message: one that ends at n, one after
\* which everything is acknowledged, or an empty one.
LEMMA FrontIs ==
  ASSUME NEW s, NEW ackno, NEW a, NEW e, NEW k \in Nat, NEW from \in Nat, NEW end \in Nat,
         Base(s, EmptyMessage, a, e), Unacked(s, EmptyMessage, k, from, end, e),
         NEW n \in Nat, n <= StreamLen + 2, ackno = WrapSeq(n, Isn), s.msg_queue_ # <<>>
  PROVE  /\ Head(s.msg_queue_) \in Messages /\ Head(s.msg_queue_) = s.msg_queue_[1]
         /\ k # 0 => (AcksFront(s, ackno) <=> n \in {from + SequenceLength(s.msg_queue_[1]), end})
         /\ k = 0 => /\ s.fin_queued /\ SequenceLength(s.msg_queue_[1]) = 0
                     /\ ~s.msg_queue_[1].FIN
<1>1. /\ s \in Senders /\ Settled(s, EmptyMessage) /\ s.input_.totalPushed \in Nat
      /\ s.bytes_in_queue_ \in Nat
  BY BaseIs
<1>2. PICK q, pushed, held : q = s.msg_queue_ /\ pushed = s.input_.totalPushed /\ held = s.bytes_in_queue_
  OBVIOUS
<1>3. Chain(q, k, from, end, pushed, e) /\ q # <<>> /\ pushed \in Nat /\ held \in Nat
  BY <1>1, <1>2, Zenon DEF Unacked
<1>4. q \in Seq(Messages) /\ k \in 0 .. Len(q)
  BY <1>3, Zenon DEF Chain
<1>5. 1 \in 1 .. Len(q) /\ q[1] \in Messages /\ Head(q) = q[1]
  BY <1>3, <1>4, EmptyLen
<1>6. PICK m \in Messages : m = q[1]
  BY <1>5
<1>7. Sound(m, pushed, e) /\ (1 <= k <=> SequenceLength(m) > 0)
  BY <1>3, <1>5, <1>6, Zenon DEF Chain
<1>8. PICK len \in Nat : len = SequenceLength(m)
  BY MessageFields
<1>9. k # 0 <=> len # 0
  BY <1>4, <1>7, <1>8
<1>10. from <= end /\ from + held = end /\ end <= StreamLen + 2
  BY <1>2, EndIs
<1>11. StreamLen \in Nat
  BY MachineAssumption
<1>12. CASE k # 0
  <2>1. NumberOf(m, pushed) = from
    BY <1>3, <1>6, <1>12, Zenon DEF Chain
  <2>2. m.seqno = WrapSeq(from, Isn)
    BY <1>7, <2>1, Zenon DEF Sound
  <2>3. from <= StreamLen + 2
    BY <1>10, <1>11
  <2>4. Absolute64(s, m.seqno) = from
    BY <2>2, <2>3, NumberReadBack
  <2>5. Absolute64(s, ackno) = n
    BY NumberReadBack
  <2>6. AcksFront(s, ackno) <=> n \in {from + len, from + held}
    BY <1>2, <1>3, <1>5, <1>6, <1>8, <2>4, <2>5, Zenon DEF AcksFront
  <2> QED BY <1>2, <1>5, <1>6, <1>8, <1>10, <1>12, <2>6, Zenon
<1>13. CASE k = 0
  <2>1. len = 0
    BY <1>9, <1>13
  <2>2. ~m.SYN /\ m.payload = <<>> /\ ~m.FIN
    <3>1. PICK f \in Nat, l \in Nat, g \in Nat :
            /\ SequenceLength(m) = f + l + g
            /\ (m.SYN => f = 1) /\ (m.FIN => g = 1) /\ (m.payload = <<>> <=> l = 0)
      BY Lengths
    <3>2. f = 0 /\ l = 0 /\ g = 0
      <4>1. f + l + g = 0
        BY <1>8, <2>1, <3>1, Zenon
      <4> QED BY <4>1
    <3>3. ~(1 = 0)
      OBVIOUS
    <3> QED BY <3>1, <3>2, <3>3, Zenon
  <2>3. ~Opens(q)
    BY <1>5, <1>6, <2>2, Zenon DEF Opens
  <2>4. s.fin_queued
    BY <1>2, <2>3, Zenon DEF Unacked
  <2> QED BY <1>2, <1>5, <1>6, <1>8, <1>13, <2>1, <2>2, <2>4, Zenon
<1> QED BY <1>12, <1>13

\* The sender without its oldest message.
Pops(s, t) == t = PopAcked(s)

LEMMA PopAckedIs ==
  ASSUME NEW s \in Senders, NEW m \in Messages, m = Head(s.msg_queue_),
         Tail(s.msg_queue_) \in Seq(Messages), SequenceLength(m) <= s.bytes_in_queue_,
         NEW t, Pops(s, t)
  PROVE  /\ t \in Senders /\ (t.fin_received <=> s.fin_received \/ m.FIN)
         /\ t.msg_queue_ = Tail(s.msg_queue_)
         /\ t.bytes_in_queue_ + SequenceLength(m) = s.bytes_in_queue_
         /\ t.input_ = s.input_ /\ t.isn_ = s.isn_ /\ t.cur_win_size_ = s.cur_win_size_
         /\ t.syn_sent = s.syn_sent /\ t.fin = s.fin /\ t.fin_queued = s.fin_queued
<1>1. m.FIN \in BOOLEAN /\ s.fin_received \in BOOLEAN
  BY MessageFields, SenderFields
<1>2. PICK fin \in BOOLEAN : fin = (s.fin_received \/ m.FIN)
  BY <1>1
<1>3. PICK q \in Seq(Messages) : q = Tail(s.msg_queue_)
  OBVIOUS
<1>4. PICK n \in Nat : n = s.bytes_in_queue_ - SequenceLength(m) /\ n + SequenceLength(m) = s.bytes_in_queue_
  <2>1. PICK x \in Nat, y \in Nat : x = s.bytes_in_queue_ /\ y = SequenceLength(m)
    BY SenderFields, MessageFields
  <2>2. x - y \in Nat /\ (x - y) + y = x
    BY <2>1
  <2> QED BY <2>1, <2>2, Zenon
<1>5. t = [s EXCEPT !.fin_received = fin, !.bytes_in_queue_ = n,
                    !.consec_retransmissions = 0, !.time_since_last_send = 0, !.msg_queue_ = q]
  BY <1>2, <1>3, <1>4, Zenon DEF PopAcked, Pops
<1>6. /\ t \in Senders /\ t.fin_received = fin /\ t.msg_queue_ = q /\ t.bytes_in_queue_ = n
      /\ t.input_ = s.input_ /\ t.isn_ = s.isn_ /\ t.cur_win_size_ = s.cur_win_size_
      /\ t.syn_sent = s.syn_sent /\ t.fin = s.fin /\ t.fin_queued = s.fin_queued
  <2>1. fin \in BOOLEAN /\ q \in Seq(Messages) /\ n \in Nat /\ 0 \in Nat
    BY <1>2, <1>3, <1>4
  <2> QED BY <1>5, <2>1 DEF Senders
<1> QED BY <1>2, <1>3, <1>4, <1>6, Zenon

\* The queue without its oldest message: the chain without its first number, or the same one
\* if that message has none.
OneLess(k) == IF k = 0 THEN 0 ELSE k - 1

LEMMA QueueTail ==
  ASSUME NEW q, NEW k \in Nat, NEW from \in Nat, NEW end \in Nat, NEW pushed \in Nat, NEW far,
         Chain(q, k, from, end, pushed, far), q # <<>>,
         NEW next \in Nat, next = from + SequenceLength(q[1])
  PROVE  /\ Tail(q) \in Seq(Messages) /\ next <= end
         /\ q[1].FIN => OneLess(k) = 0
         /\ OneLess(k) \in Nat /\ Chain(Tail(q), OneLess(k), next, end, pushed, far)
<1>1. CASE k # 0
  <2>1. OneLess(k) = k - 1 /\ k - 1 \in Nat /\ (k = 1 => k - 1 = 0)
    BY <1>1 DEF OneLess
  <2>2. /\ from + SequenceLength(q[1]) <= end
        /\ k # 1 => ~q[1].FIN
        /\ Tail(q) \in Seq(Messages)
        /\ Chain(Tail(q), k - 1, from + SequenceLength(q[1]), end, pushed, far)
    BY <1>1, ChainTail
  <2> QED BY <2>1, <2>2, Zenon
<1>2. CASE k = 0
  <2>1. q \in Seq(Messages) /\ from = end
    BY <1>2, Zenon DEF Chain
  <2>2. PICK r \in Seq(Messages) :
          r = Tail(q) /\ Len(r) = Len(q) - 1 /\ \A i \in 1 .. Len(r) : r[i] = q[i + 1]
    BY <2>1, TailIs
  <2>3. Len(q) \in Nat /\ 1 \in 1 .. Len(q) /\ Len(r) \in Nat /\ 0 \in 0 .. Len(r) /\ 1 .. 0 = {}
        /\ ~(1 <= 0)
    BY <2>1, <2>2, EmptyLen
  <2>4. ASSUME NEW i \in 1 .. Len(r)
        PROVE  (i <= 0 <=> SequenceLength(r[i]) > 0) /\ Sound(r[i], pushed, far)
    <3>1. i + 1 \in 1 .. Len(q) /\ ~(i <= 0) /\ ~(i + 1 <= 0)
      BY <2>2, <2>3
    <3>2. (i + 1 <= k <=> SequenceLength(q[i + 1]) > 0) /\ Sound(q[i + 1], pushed, far)
      BY <3>1, Zenon DEF Chain
    <3> QED BY <1>2, <2>2, <3>1, <3>2, Zenon
  <2>5. Chain(r, 0, end, end, pushed, far)
    BY <2>3, <2>4, Zenon DEF Chain
  <2>6. PICK m \in Messages : m = q[1]
    BY <2>1, <2>3
  <2>7. ~(SequenceLength(m) > 0)
    BY <1>2, <2>3, <2>6, Zenon DEF Chain
  <2>8. PICK f \in Nat, l \in Nat, g \in Nat : SequenceLength(m) = f + l + g /\ (m.FIN => g = 1)
    <3>1. \E f, l, g \in Nat :
            /\ f = Flag(m.SYN) /\ l = Len(m.payload) /\ g = Flag(m.FIN)
            /\ SequenceLength(m) = f + l + g /\ Carried(m) = f + l
            /\ (m.SYN => f = 1) /\ (~m.SYN => f = 0)
            /\ (m.FIN => g = 1) /\ (~m.FIN => g = 0)
            /\ (m.payload = <<>> <=> l = 0)
      BY Lengths
    <3> QED BY <3>1, Zenon
  <2>9. f + l + g = 0 /\ g = 0
    BY <2>7, <2>8
  <2>10. ~m.FIN
    <3>1. ~(0 = 1)
      OBVIOUS
    <3> QED BY <2>8, <2>9, <3>1, Zenon
  <2>11. SequenceLength(m) = 0
    BY <2>8, <2>9, Zenon
  <2>12. from + 0 = end /\ end <= end
    BY <2>1
  <2>13. OneLess(k) = 0 /\ 0 \in Nat
    BY <1>2 DEF OneLess
  <2> QED BY <2>2, <2>5, <2>6, <2>10, <2>11, <2>12, <2>13, Zenon
<1> QED BY <1>1, <1>2

\* A turn of the loop of receive() that frees a message, and the last one.
LEMMA Takes ==
  ASSUME NEW s, NEW ackno, NEW a, NEW e, InAcks(s, ackno, a, e), AcksFront(s, ackno),
         NEW t, Pops(s, t)
  PROVE  InAcks(t, ackno, a, e)
<1>1. Base(s, EmptyMessage, a, e)
  BY Zenon DEF InAcks
<1>2. /\ s \in Senders /\ Settled(s, EmptyMessage) /\ s.cur_win_size_ \in Nat
      /\ s.input_.totalPushed \in Nat /\ s.bytes_in_queue_ \in Nat /\ a \in Nat /\ e \in Nat
  BY <1>1, BaseIs
<1>3. PICK k \in Nat, from \in Nat, end \in Nat, n \in Nat :
        /\ Unacked(s, EmptyMessage, k, from, end, e) /\ from <= a
        /\ Announced(s, from, e) /\ Announced(s, n, e)
        /\ Acking(s, ackno, n, a, k, from, end)
  BY Zenon DEF InAcks
<1>4. s.msg_queue_ # <<>>
  BY Zenon DEF AcksFront
<1>5. PICK q : q = s.msg_queue_
  OBVIOUS
<1>6. PICK pushed \in Nat, held \in Nat, w \in Nat :
        pushed = s.input_.totalPushed /\ held = s.bytes_in_queue_ /\ w = s.cur_win_size_
  BY <1>2
<1>7. n <= a /\ n <= StreamLen + 2 /\ ackno = WrapSeq(n, Isn)
  BY <1>3, <1>4, Zenon DEF Acking
<1>8. /\ Head(q) \in Messages /\ Head(q) = q[1]
      /\ k # 0 => n \in {from + SequenceLength(q[1]), end}
      /\ k = 0 => s.fin_queued /\ SequenceLength(q[1]) = 0 /\ ~q[1].FIN
  BY <1>1, <1>3, <1>4, <1>5, <1>7, FrontIs
<1>9. PICK m \in Messages : m = Head(q) /\ m = q[1]
  BY <1>8
<1>10. PICK len \in Nat : len = SequenceLength(m)
  BY MessageFields
<1>11. PICK next \in Nat : next = from + len
  OBVIOUS
<1>12. PICK j : j = OneLess(k)
  OBVIOUS
<1>13. /\ next <= end /\ (m.FIN => j = 0) /\ Tail(q) \in Seq(Messages) /\ j \in Nat
       /\ Chain(Tail(q), j, next, end, pushed, e)
  <2>1. Chain(q, k, from, end, pushed, e)
    BY <1>3, <1>5, <1>6, Zenon DEF Unacked
  <2>2. next = from + SequenceLength(q[1])
    BY <1>9, <1>10, <1>11
  <2>3. /\ Tail(q) \in Seq(Messages) /\ next <= end
        /\ q[1].FIN => OneLess(k) = 0
        /\ OneLess(k) \in Nat /\ Chain(Tail(q), OneLess(k), next, end, pushed, e)
    BY <1>4, <1>5, <2>1, <2>2, QueueTail
  <2> QED BY <1>9, <1>12, <2>3, Zenon
<1>14. from + held = end
  BY <1>3, <1>6, Zenon DEF Unacked
<1>15. len <= held
  BY <1>11, <1>13, <1>14
<1>16. /\ t \in Senders /\ (t.fin_received <=> s.fin_received \/ m.FIN)
       /\ t.msg_queue_ = Tail(s.msg_queue_)
       /\ t.bytes_in_queue_ + SequenceLength(m) = s.bytes_in_queue_
       /\ t.input_ = s.input_ /\ t.isn_ = s.isn_ /\ t.cur_win_size_ = s.cur_win_size_
       /\ t.syn_sent = s.syn_sent /\ t.fin = s.fin /\ t.fin_queued = s.fin_queued
  <2>1. /\ m = Head(s.msg_queue_) /\ Tail(s.msg_queue_) \in Seq(Messages)
        /\ SequenceLength(m) <= s.bytes_in_queue_
    BY <1>5, <1>6, <1>9, <1>10, <1>13, <1>15, Zenon
  <2> QED BY <1>2, <2>1, PopAckedIs
<1>17. PICK held2 \in Nat : held2 = t.bytes_in_queue_ /\ held2 + len = held
  <2>1. t.bytes_in_queue_ \in Nat
    BY <1>16, SenderFields
  <2> QED BY <1>6, <1>10, <1>16, <2>1, Zenon
<1>18. next + held2 = end
  <2>1. held2 + len = held
    BY <1>17, Zenon
  <2>2. (from + len) + held2 = end
    BY <1>14, <2>1
  <2> QED BY <1>11, <2>2, Zenon
<1>19. q \in Seq(Messages) /\ Len(q) \in Nat /\ 1 \in 1 .. Len(q)
  <2>1. q \in Seq(Messages)
    <3>1. Chain(q, k, from, end, pushed, e)
      BY <1>3, <1>5, <1>6, Zenon DEF Unacked
    <3> QED BY <3>1, Zenon DEF Chain
  <2> QED BY <1>4, <1>5, <2>1, EmptyLen
<1>20. s.fin_queued \/ Opens(q)
  BY <1>3, <1>5, Zenon DEF Unacked
<1>21. m.FIN => s.fin_queued
  BY <1>9, <1>19, <1>20, Zenon DEF Opens
<1>22. s.fin_queued \/ Opens(Tail(q))
  <2>1. ASSUME Opens(q)
        PROVE  Opens(Tail(q))
    <3>1. PICK r \in Seq(Messages) :
            r = Tail(q) /\ Len(r) = Len(q) - 1 /\ \A i \in 1 .. Len(r) : r[i] = q[i + 1]
      BY <1>4, <1>5, <1>19, TailIs
    <3>2. \A i \in 1 .. Len(r) : i + 1 \in 1 .. Len(q)
      BY <1>19, <3>1
    <3> QED BY <2>1, <3>1, <3>2, Zenon DEF Opens
  <2> QED BY <1>20, <2>1
<1>23. t.fin_received => j = 0
  <2>1. s.fin_received => k = 0
    BY <1>3, Zenon DEF Unacked
  <2>2. k = 0 => j = 0
    BY <1>12, Zenon DEF OneLess
  <2> QED BY <1>13, <1>16, <2>1, <2>2, Zenon
<1>24. Settled(t, EmptyMessage)
  BY <1>2, <1>4, <1>16, <1>21, Zenon DEF Settled
<1>25. UptoOf(t) = UptoOf(s)
  BY <1>16, Zenon DEF UptoOf
<1>26. Unacked(t, EmptyMessage, j, next, end, e)
  BY <1>3, <1>5, <1>6, <1>13, <1>16, <1>17, <1>18, <1>22, <1>23, <1>25, Zenon DEF Unacked
<1>27. k = 0 => next = from
  <2>1. k = 0 => len = 0
    BY <1>8, <1>9, <1>10
  <2> QED BY <1>11, <2>1
<1>28. k # 0 => n \in {next, end} /\ next <= n
  <2>1. k # 0 => n = next \/ n = end
    BY <1>8, <1>9, <1>10, <1>11
  <2>2. n = next \/ n = end => next <= n
    BY <1>13
  <2> QED BY <2>1, <2>2
<1>29. next <= a
  BY <1>2, <1>3, <1>7, <1>27, <1>28
<1>30. Announced(t, next, e)
  <2>1. next <= n /\ n + w <= e /\ n + 1 <= e => next + w <= e /\ next + 1 <= e
    BY <1>2
  <2> QED BY <1>3, <1>6, <1>16, <1>27, <1>28, <2>1, Zenon DEF Announced
<1>31. Acking(t, ackno, n, a, j, next, end)
  <2>1. AcksLost \/ next = a \/ (n = a /\ a = end)
    <3>1. \/ AcksLost \/ from = a
          \/ n = a /\ a = end
          \/ n = a /\ k # 0 /\ a = next
      BY <1>3, <1>5, <1>9, <1>10, <1>11, Zenon DEF Acking
    <3>2. ASSUME from = a
          PROVE  next = a
      <4>1. from <= next
        BY <1>11
      <4> QED BY <1>2, <1>29, <3>2, <4>1
    <3> QED BY <3>1, <3>2
  <2> QED BY <1>7, <2>1, Zenon DEF Acking
<1>32. Announced(t, n, e)
  BY <1>3, <1>16, Zenon DEF Announced
<1>33. Base(t, EmptyMessage, a, e)
  BY <1>2, <1>16, <1>24, Zenon DEF Base
<1> QED BY <1>3, <1>13, <1>26, <1>29, <1>30, <1>31, <1>32, <1>33, Zenon DEF InAcks

LEMMA EndsAcks ==
  ASSUME NEW s, NEW ackno, NEW a, NEW e, InAcks(s, ackno, a, e), ~AcksFront(s, ackno)
  PROVE  Quiet(s, a, e)
<1>1. Base(s, EmptyMessage, a, e)
  BY Zenon DEF InAcks
<1>2. s.bytes_in_queue_ \in Nat
  BY <1>1, BaseIs
<1>3. PICK k \in Nat, from \in Nat, end \in Nat, n \in Nat :
        /\ Unacked(s, EmptyMessage, k, from, end, e) /\ from <= a
        /\ Announced(s, from, e) /\ Announced(s, n, e)
        /\ Acking(s, ackno, n, a, k, from, end)
  BY Zenon DEF InAcks
<1>4. k = 0 => from = end
  BY <1>3, Zenon DEF Unacked, Chain
<1>5. k # 0 => n \notin {from + SequenceLength(s.msg_queue_[1]), end}
  <2>1. CASE s.msg_queue_ = <<>>
    <3>1. k = 0
      BY <1>2, <1>3, <2>1, EmptyQueue
    <3> QED BY <3>1
  <2>2. CASE s.msg_queue_ # <<>>
    <3>1. n <= StreamLen + 2 /\ ackno = WrapSeq(n, Isn)
      BY <1>3, <2>2, Zenon DEF Acking
    <3> QED BY <1>1, <1>3, <2>2, <3>1, FrontIs
  <2> QED BY <2>1, <2>2
<1>6. AcksLost \/ from = a
  <2>1. \/ AcksLost \/ from = a
        \/ n = a /\ a = end
        \/ n = a /\ k # 0 /\ a = from + SequenceLength(s.msg_queue_[1])
    BY <1>3, Zenon DEF Acking
  <2> QED BY <1>4, <1>5, <2>1, Zenon
<1>7. Begins(s, from, a, e)
  BY <1>3, <1>6, Zenon DEF Begins
<1> QED BY <1>1, <1>3, <1>7, Zenon DEF Quiet

\* tick() touches neither the queue nor the stream.
LEMMA Ticks ==
  ASSUME NEW s, NEW a, NEW e, Quiet(s, a, e), NEW ms \in Nat
  PROVE  Quiet(SenderTick(s, ms), a, e)
<1>1. Base(s, EmptyMessage, a, e)
  BY Zenon DEF Quiet
<1>2. s \in Senders
  BY <1>1, BaseIs
<1>3. PICK t : t = SenderTick(s, ms)
  OBVIOUS
<1>4. PICK z \in BOOLEAN : z = s.win_advertised_zero
  BY <1>2, SenderFields
<1>5. PICK n \in Nat, since \in Nat :
        n = s.consec_retransmissions + Flag(~z) /\ since = s.time_since_last_send + ms
  <2>1. s.consec_retransmissions \in Nat /\ s.time_since_last_send \in Nat
    BY <1>2, SenderFields
  <2>2. Flag(~z) \in Nat
    BY DEF Flag
  <2>3. s.consec_retransmissions + Flag(~z) \in Nat /\ s.time_since_last_send + ms \in Nat
    BY <2>1, <2>2
  <2> QED BY <2>3
<1>6. \/ t = s
      \/ t = [s EXCEPT !.time_since_last_send = 0, !.consec_retransmissions = n]
      \/ t = [s EXCEPT !.time_since_last_send = since]
  BY <1>3, <1>4, <1>5, Zenon DEF SenderTick
<1>7. t \in Senders /\ SameQueue(s, t) /\ t.input_ = s.input_ /\ t.cur_win_size_ = s.cur_win_size_
  <2> HIDE <1>3, <1>4
  <2>1. n \in Nat /\ since \in Nat
    BY <1>5
  <2>2. CASE t = s
    BY <1>2, <2>2, Zenon DEF SameQueue
  <2>3. CASE t = [s EXCEPT !.time_since_last_send = 0, !.consec_retransmissions = n]
    BY <1>2, <2>1, <2>3 DEF Senders, SameQueue
  <2>4. CASE t = [s EXCEPT !.time_since_last_send = since]
    BY <1>2, <2>1, <2>4 DEF Senders, SameQueue
  <2> QED BY <1>6, <2>2, <2>3, <2>4
<1>8. SameStream(s.input_, t.input_)
  BY <1>7, Zenon DEF SameStream
<1> QED BY <1>3, <1>7, <1>8, SameQuiet
-----------------------------------------------------------------------------
\* The sender between calls, in a turn of push() and in receive().
Good(s, c, a, e) ==
  /\ c.op \in {"none", "turn", "fill", "acks"}
  /\ c.op \in {"none", "turn"} => Quiet(s, a, e)
  /\ c.op = "fill" => InTurn(s, c.msg, a, e)
  /\ c.op = "acks" => InAcks(s, c.ackno, a, e)

\* The inductive invariant.
IInv == Good(sender, call, acked, edge)

LEMMA GoodQuiet ==
  ASSUME NEW s, NEW c, NEW a, NEW e, Quiet(s, a, e), c.op \in {"none", "turn"}
  PROVE  Good(s, c, a, e)
BY DEF Good

\* The calls a step leaves behind.
PushCall(op, m)   == [Idle EXCEPT !.op = op, !.msg = m]
AckCall(op, n)    == [Idle EXCEPT !.op = op, !.ackno = n]

LEMMA IdleIs ==
  /\ Idle.op = "none"
  /\ \A op, m : PushCall(op, m).op = op /\ PushCall(op, m).msg = m
  /\ \A op, n : AckCall(op, n).op = op /\ AckCall(op, n).ackno = n
BY DEF Idle, PushCall, AckCall

LEMMA IdleQuiet ==
  ASSUME NEW s, NEW c, NEW a, NEW e, Good(s, c, a, e), c = Idle
  PROVE  Quiet(s, a, e)
<1>1. c.op = "none"
  BY IdleIs
<1> QED BY <1>1 DEF Good

LEMMA NewQuiet ==
  ASSUME NEW s, s = NewSender(Capacity, Isn)
  PROVE  Quiet(s, 0, 1)
<1>1. Capacity \in Nat /\ StreamLen \in Nat /\ Isn \in Seqnos
  BY MachineAssumption
<1>2. PICK x : x = NewStream(Capacity)
  OBVIOUS
<1>3. /\ x \in Streams(Nat) /\ x.deck_ = <<>> /\ x.totalPushed = 0 /\ x.totalPopped = 0
      /\ x.bytes_in_deck_ = 0 /\ x.capacity_ = Capacity /\ ~x.isClosed
  BY <1>1, <1>2 DEF NewStream, Streams
<1>4. Tiled(x)
  <2>1. Tiles(<<>>, 0, 0)
    BY DEF Tiles
  <2>2. 0 = 0 - 0 /\ 0 <= Capacity
    BY <1>1
  <2> QED BY <1>3, <2>1, <2>2, Zenon DEF Tiled
<1>5. /\ s \in Senders /\ s.input_ = x /\ s.isn_ = Isn /\ s.cur_win_size_ = 0
      /\ s.msg_queue_ = <<>> /\ s.bytes_in_queue_ = 0 /\ ~s.syn_sent /\ ~s.fin
      /\ ~s.fin_received /\ ~s.fin_queued
  BY <1>1, <1>2, <1>3 DEF NewSender, Senders
<1>6. 0 <= StreamLen /\ 0 + 0 <= 1 /\ 0 + 1 <= 1 /\ 0 \in Nat /\ 1 \in Nat /\ 0 + 0 = 0 /\ 0 + 0 + 0 = 0
  BY <1>1
<1>7. ~EmptyMessage.FIN /\ Carried(EmptyMessage) = 0
  BY EmptyFields
<1>8. Settled(s, EmptyMessage)
  BY <1>3, <1>4, <1>5, <1>6, <1>7, Zenon DEF Settled
<1>9. Announced(s, 0, 1)
  BY <1>5, <1>6, Zenon DEF Announced
<1>10. UptoOf(s) = 0
  <2>1. Flag(s.syn_sent) = 0 /\ Flag(s.fin_queued) = 0
    BY <1>5, Zenon DEF Flag
  <2> QED BY <1>3, <1>5, <1>6, <2>1, Zenon DEF UptoOf
<1>11. Chain(<<>>, 0, 0, 0, 0, 1)
  <2>1. <<>> \in Seq(Messages) /\ 0 \in 0 .. Len(<<>>) /\ 1 .. Len(<<>>) = {} /\ 1 .. 0 = {}
    OBVIOUS
  <2> QED BY <2>1, Zenon DEF Chain
<1>12. Opens(s.msg_queue_)
  <2>1. 1 .. Len(<<>>) = {}
    OBVIOUS
  <2> QED BY <1>5, <2>1, Zenon DEF Opens
<1>13. Unacked(s, EmptyMessage, 0, 0, 0, 1)
  BY <1>3, <1>5, <1>6, <1>7, <1>10, <1>11, <1>12, Zenon DEF Unacked
<1>14. Begins(s, 0, 0, 1)
  <2>1. 0 <= 0
    OBVIOUS
  <2> QED BY <1>9, <2>1, Zenon DEF Begins
<1> QED BY <1>5, <1>6, <1>8, <1>13, <1>14, Zenon DEF Quiet, Base

LEMMA InitGood == Init => IInv
<1> SUFFICES ASSUME Init PROVE IInv
  OBVIOUS
<1>1. sender = NewSender(Capacity, Isn) /\ call = Idle /\ acked = 0 /\ edge = 1
  BY DEF Init
<1>2. PICK s, c : s = sender /\ c = call
  OBVIOUS
<1>3. Quiet(s, 0, 1) /\ c.op \in {"none", "turn"}
  BY <1>1, <1>2, NewQuiet, IdleIs
<1>4. Good(s, c, 0, 1)
  BY <1>3, GoodQuiet
<1> QED BY <1>1, <1>2, <1>4, Zenon DEF IInv

\* The application.
LEMMA StepWrite ==
  ASSUME IInv, NEW n \in 1 .. StreamLen, Write(n)
  PROVE  IInv'
<1>1. PICK s, c, a, e : s = sender /\ c = call /\ a = acked /\ e = edge
  OBVIOUS
<1>2. PICK t : t = sender'
  OBVIOUS
<1>3. Good(s, c, a, e) /\ c = Idle
  BY <1>1, Zenon DEF IInv, Write
<1>4. s.input_.totalPushed + n <= StreamLen /\ n \in Nat
  BY <1>1 DEF Write
<1>5. t = [s EXCEPT !.input_ = WriterPush(@, Bytes(@.totalPushed, n))]
  BY <1>1, <1>2, Zenon DEF Write
<1>6. Quiet(s, a, e)
  BY <1>3, IdleQuiet
<1>7. Quiet(t, a, e)
  BY <1>4, <1>5, <1>6, WriteKeeps
<1>8. Good(t, c, a, e)
  BY <1>3, <1>7, IdleIs, GoodQuiet
<1> QED BY <1>1, <1>2, <1>8, Zenon DEF IInv, Write

LEMMA StepClose ==
  ASSUME IInv, Close
  PROVE  IInv'
<1>1. PICK s, c, a, e : s = sender /\ c = call /\ a = acked /\ e = edge
  OBVIOUS
<1>2. PICK t : t = sender'
  OBVIOUS
<1>3. Good(s, c, a, e) /\ c = Idle
  BY <1>1, Zenon DEF IInv, Close
<1>4. t = [s EXCEPT !.input_ = WriterClose(@)]
  BY <1>1, <1>2, Zenon DEF Close
<1>5. Quiet(s, a, e)
  BY <1>3, IdleQuiet
<1>6. Quiet(t, a, e)
  BY <1>4, <1>5, CloseKeeps
<1>7. Good(t, c, a, e)
  BY <1>3, <1>6, IdleIs, GoodQuiet
<1> QED BY <1>1, <1>2, <1>7, Zenon DEF IInv, Close

\* push(): the parts of a turn, as they change the sender and the call.
LEMMA BeginTurnIs ==
  ASSUME NEW s, NEW m, NEW at, NEW p, p = [at |-> at, sender |-> s, msg |-> m, out |-> <<>>]
  PROVE  LET r == BeginTurn(p)
         IN  /\ r.at = IF NothingToSend(s) THEN "done" ELSE "fill"
             /\ r.sender = OpenTurn(s) /\ r.msg = NewMessage(s)
<1>1. PICK t, u, d : t = OpenTurn(s) /\ u = NewMessage(s) /\ d = IF NothingToSend(s) THEN "done" ELSE "fill"
  OBVIOUS
<1>2. p.sender = s /\ p.at = at /\ p.msg = m
  OBVIOUS
<1>3. BeginTurn(p) = [p EXCEPT !.at = d, !.sender = t, !.msg = u]
  BY <1>1, <1>2, Zenon DEF BeginTurn
<1>4. PICK r : r = [p EXCEPT !.at = d, !.sender = t, !.msg = u]
  OBVIOUS
<1>5. r.at = d /\ r.sender = t /\ r.msg = u
  BY <1>4
<1> QED BY <1>1, <1>3, <1>4, <1>5, Zenon

LEMMA FillIs ==
  ASSUME NEW s, NEW m, NEW at, NEW p, p = [at |-> at, sender |-> s, msg |-> m, out |-> <<>>]
  PROVE  Fill(p).at = at /\ Fill(p).sender = FillInput(s, m) /\ Fill(p).msg = FillMsg(s, m)
<1>1. PICK t, u : t = FillInput(s, m) /\ u = FillMsg(s, m)
  OBVIOUS
<1>2. p.sender = s /\ p.at = at /\ p.msg = m
  OBVIOUS
<1>3. Fill(p) = [p EXCEPT !.sender = t, !.msg = u]
  BY <1>1, <1>2, Zenon DEF Fill
<1>4. PICK r : r = [p EXCEPT !.sender = t, !.msg = u]
  OBVIOUS
<1>5. r.at = at /\ r.sender = t /\ r.msg = u
  BY <1>4
<1> QED BY <1>1, <1>3, <1>4, <1>5, Zenon

LEMMA FinishTurnIs ==
  ASSUME NEW s, NEW m, NEW at, NEW p, p = [at |-> at, sender |-> s, msg |-> m, out |-> <<>>],
         NEW t, t = EndTurn(s, m), NEW u, u = Ended(s, m)
  PROVE  LET r == FinishTurn(p)
         IN  /\ r.at \in {"done", "turn"}
             /\ r.sender = IF Dropped(t, u) THEN t ELSE Enqueue(t, u)
<1>1. p.sender = s /\ p.msg = m
  OBVIOUS
<1>2. CASE Dropped(t, u)
  <2>1. FinishTurn(p) = [p EXCEPT !.at = "done", !.sender = t]
    BY <1>1, <1>2, Zenon DEF FinishTurn
  <2>2. PICK r : r = [p EXCEPT !.at = "done", !.sender = t]
    OBVIOUS
  <2>3. r.at = "done" /\ r.sender = t
    BY <2>2
  <2> QED BY <1>2, <2>1, <2>2, <2>3, Zenon
<1>3. CASE ~Dropped(t, u)
  <2>1. PICK v, d, o : /\ v = Enqueue(t, u) /\ d = (IF PushDone(v) THEN "done" ELSE "turn")
                       /\ o = Append(p.out, u)
    OBVIOUS
  <2>2. FinishTurn(p) = [p EXCEPT !.at = d, !.sender = v, !.msg = EmptyMessage, !.out = o]
    BY <1>1, <1>3, <2>1, Zenon DEF FinishTurn
  <2>3. PICK r : r = [p EXCEPT !.at = d, !.sender = v, !.msg = EmptyMessage, !.out = o]
    OBVIOUS
  <2>4. r.at = d /\ r.sender = v
    BY <2>3
  <2> QED BY <1>3, <2>1, <2>2, <2>3, <2>4, Zenon
<1> QED BY <1>2, <1>3

LEMMA StepPush ==
  ASSUME IInv, Push
  PROVE  IInv'
<1>1. PICK s, c, a, e : s = sender /\ c = call /\ a = acked /\ e = edge
  OBVIOUS
<1>2. PICK d : d = call'
  OBVIOUS
<1>3. Good(s, c, a, e) /\ c = Idle
  BY <1>1, Zenon DEF IInv, Push
<1>4. Quiet(s, a, e)
  BY <1>3, IdleQuiet
<1>5. d.op = "turn"
  <2>1. d = [Idle EXCEPT !.op = "turn"]
    BY <1>2, Zenon DEF Push
  <2> QED BY <2>1 DEF Idle
<1>6. Good(s, d, a, e)
  BY <1>4, <1>5, GoodQuiet
<1> QED BY <1>1, <1>2, <1>6, Zenon DEF IInv, Push

LEMMA StepPushBegins ==
  ASSUME IInv, PushBegins
  PROVE  IInv'
<1>1. PICK s, c, a, e : s = sender /\ c = call /\ a = acked /\ e = edge
  OBVIOUS
<1>2. PICK t, d : t = sender' /\ d = call'
  OBVIOUS
<1>3. Good(s, c, a, e) /\ c.op = "turn"
  BY <1>1, Zenon DEF IInv, PushBegins
<1>4. Quiet(s, a, e)
  BY <1>3 DEF Good
<1>5. PICK p : p = [at |-> c.op, sender |-> s, msg |-> c.msg, out |-> <<>>]
  OBVIOUS
<1>6. PICK r : r = BeginTurn(p)
  OBVIOUS
<1>7. /\ r.at = IF NothingToSend(s) THEN "done" ELSE "fill"
      /\ r.sender = OpenTurn(s) /\ r.msg = NewMessage(s)
  BY <1>5, <1>6, BeginTurnIs
<1>8. /\ t = r.sender
      /\ d = IF r.at = "done" THEN Idle ELSE PushCall(r.at, r.msg)
      /\ acked' = acked /\ edge' = edge
  BY <1>1, <1>2, <1>5, <1>6, Zenon DEF PushBegins, Becomes, InPush, PushCall
<1>9. CASE NothingToSend(s)
  <2>1. d = Idle
    BY <1>7, <1>8, <1>9
  <2>2. Quiet(t, a, e)
    BY <1>4, <1>7, <1>8, <1>9, BeginsDone
  <2>3. Good(t, d, a, e)
    BY <2>1, <2>2, IdleIs, GoodQuiet
  <2> QED BY <1>1, <1>2, <1>8, <2>3, Zenon DEF IInv
<1>10. CASE ~NothingToSend(s)
  <2>1. r.at = "fill"
    BY <1>7, <1>10
  <2>2. d = PushCall(r.at, r.msg)
    BY <1>8, <2>1
  <2>3. d.op = "fill" /\ d.msg = NewMessage(s)
    BY <1>7, <2>1, <2>2, IdleIs, SMTT(30)
  <2>4. InTurn(t, d.msg, a, e)
    BY <1>4, <1>7, <1>8, <1>10, <2>3, BeginsFill
  <2>5. Good(t, d, a, e)
    BY <2>3, <2>4 DEF Good
  <2> QED BY <1>1, <1>2, <1>8, <2>5, Zenon DEF IInv
<1> QED BY <1>9, <1>10

LEMMA StepPushFills ==
  ASSUME IInv, PushFills
  PROVE  IInv'
<1>1. PICK s, c, a, e : s = sender /\ c = call /\ a = acked /\ e = edge
  OBVIOUS
<1>2. PICK t, d : t = sender' /\ d = call'
  OBVIOUS
<1>3. PICK m : m = c.msg
  OBVIOUS
<1>4. Good(s, c, a, e) /\ c.op = "fill" /\ ~FillStops(s, m)
  BY <1>1, <1>3, Zenon DEF IInv, PushFills
<1>5. InTurn(s, m, a, e)
  BY <1>3, <1>4 DEF Good
<1>6. PICK p : p = [at |-> c.op, sender |-> s, msg |-> m, out |-> <<>>]
  OBVIOUS
<1>7. PICK r : r = Fill(p)
  OBVIOUS
<1>8. r.at = c.op /\ r.sender = FillInput(s, m) /\ r.msg = FillMsg(s, m)
  BY <1>6, <1>7, FillIs
<1>9. /\ t = r.sender
      /\ d = IF r.at = "done" THEN Idle ELSE PushCall(r.at, r.msg)
      /\ acked' = acked /\ edge' = edge
  BY <1>1, <1>2, <1>3, <1>6, <1>7, Zenon DEF PushFills, Becomes, InPush, PushCall
<1>10. r.at = "fill"
  BY <1>4, <1>8
<1>11. d = PushCall(r.at, r.msg)
  BY <1>9, <1>10
<1>12. d.op = "fill" /\ d.msg = FillMsg(s, m)
  BY <1>8, <1>10, <1>11, IdleIs, SMTT(30)
<1>13. InTurn(t, d.msg, a, e)
  BY <1>4, <1>5, <1>8, <1>9, <1>12, Fills
<1>14. Good(t, d, a, e)
  BY <1>12, <1>13 DEF Good
<1> QED BY <1>1, <1>2, <1>9, <1>14, Zenon DEF IInv

LEMMA StepPushFinishes ==
  ASSUME IInv, PushFinishes
  PROVE  IInv'
<1>1. PICK s, c, a, e : s = sender /\ c = call /\ a = acked /\ e = edge
  OBVIOUS
<1>2. PICK t, d : t = sender' /\ d = call'
  OBVIOUS
<1>3. PICK m : m = c.msg
  OBVIOUS
<1>4. Good(s, c, a, e) /\ c.op = "fill"
  BY <1>1, <1>3, Zenon DEF IInv, PushFinishes
<1>5. InTurn(s, m, a, e)
  BY <1>3, <1>4 DEF Good
<1>6. PICK p : p = [at |-> c.op, sender |-> s, msg |-> m, out |-> <<>>]
  OBVIOUS
<1>7. PICK ended, u : ended = EndTurn(s, m) /\ u = Ended(s, m)
  OBVIOUS
<1>8. PICK r : r = FinishTurn(p)
  OBVIOUS
<1>9. /\ r.at \in {"done", "turn"}
      /\ r.sender = IF Dropped(ended, u) THEN ended ELSE Enqueue(ended, u)
  BY <1>6, <1>7, <1>8, FinishTurnIs
<1>10. /\ t = r.sender
       /\ d = IF r.at = "done" THEN Idle ELSE PushCall(r.at, r.msg)
       /\ acked' = acked /\ edge' = edge
  BY <1>1, <1>2, <1>3, <1>6, <1>8, Zenon DEF PushFinishes, Becomes, InPush, PushCall
<1>11. d.op \in {"none", "turn"}
  <2>1. CASE r.at = "done"
    BY <1>10, <2>1, IdleIs
  <2>2. CASE r.at # "done"
    <3>1. r.at = "turn"
      BY <1>9, <2>2
    <3>2. d = PushCall(r.at, r.msg)
      BY <1>10, <2>2, Zenon
    <3>3. d.op = "turn"
      BY <3>1, <3>2, IdleIs, Zenon
    <3> QED BY <3>3
  <2> QED BY <2>1, <2>2
<1>12. InTurn(ended, u, a, e)
  BY <1>5, <1>7, Ends
<1>13. Quiet(t, a, e)
  <2>1. CASE Dropped(ended, u)
    <3>1. t = ended
      BY <1>9, <1>10, <2>1, Zenon
    <3> QED BY <1>12, <2>1, <3>1, Drops
  <2>2. CASE ~Dropped(ended, u)
    <3>1. Queues(ended, u, t)
      BY <1>9, <1>10, <2>2, Zenon DEF Queues
    <3> QED BY <1>12, <2>2, <3>1, Enqueues
  <2> QED BY <2>1, <2>2
<1>14. Good(t, d, a, e)
  BY <1>11, <1>13, GoodQuiet
<1> QED BY <1>1, <1>2, <1>10, <1>14, Zenon DEF IInv

\* receive() and tick().
LEMMA AcknosAre ==
  ASSUME Quiet(sender, acked, edge), NEW n \in Nat, n \in Acknos
  PROVE  AckOf(sender, acked, n)
<1>1. PICK s, a, e : s = sender /\ a = acked /\ e = edge
  OBVIOUS
<1>2. PICK q, pushed : q = s.msg_queue_ /\ pushed = s.input_.totalPushed
  OBVIOUS
<1>3. q \in Seq(Messages) /\ Len(q) \in Nat
  <2>1. Base(s, EmptyMessage, a, e)
    BY <1>1, Zenon DEF Quiet
  <2>2. s \in Senders
    BY <2>1, BaseIs
  <2> QED BY <1>2, <2>2, SenderFields, EmptyLen
<1>4. PICK loaded : loaded = {i \in 1 .. Len(q) : SequenceLength(q[i]) > 0}
  OBVIOUS
<1>5. loaded = Loaded /\ q = Queue
  BY <1>1, <1>2, <1>4, Zenon DEF Loaded, Queue
<1>6. \/ n = acked \/ n = Upto
      \/ \E i \in {j \in Loaded : AcksLost \/ \A h \in Loaded : j <= h} : n = End(Queue[i])
      \/ AcksStale /\ n \in 1 .. acked
  BY Zenon DEF Acknos
<1>7. Upto = UptoOf(s)
  BY <1>1, Zenon DEF Upto, UptoOf
<1>8. n \in 1 .. acked => n <= a
  BY <1>1
<1>9. PICK k, from, end : Chain(q, k, from, end, pushed, e)
  BY <1>1, <1>2, Zenon DEF Quiet, Unacked
<1>10. k \in 0 .. Len(q) /\ \A i \in 1 .. Len(q) : i <= k <=> SequenceLength(q[i]) > 0
  BY <1>9, Zenon DEF Chain
<1>11. ASSUME NEW i \in {j \in Loaded : AcksLost \/ \A h \in Loaded : j <= h}, n = End(Queue[i])
       PROVE  \E j \in 1 .. Len(q) : /\ SequenceLength(q[j]) > 0
                                     /\ n = NumberOf(q[j], pushed) + SequenceLength(q[j])
                                     /\ AcksLost \/ j = 1
  <2>1. i \in loaded /\ (AcksLost \/ \A h \in loaded : i <= h)
    BY <1>5, <1>11, Zenon
  <2>2. i \in 1 .. Len(q) /\ SequenceLength(q[i]) > 0
    BY <1>4, <2>1
  <2>3. n = NumberOf(q[i], pushed) + SequenceLength(q[i])
    BY <1>1, <1>2, <1>5, <1>11, Zenon DEF End, Number, NumberOf
  <2>4. AcksLost \/ i = 1
    <3>1. ASSUME \A h \in loaded : i <= h
          PROVE  i = 1
      <4>1. 1 \in 1 .. Len(q)
        BY <1>3, <2>2
      <4>2. 1 \in loaded
        <5>1. i <= k
          BY <1>10, <2>2, Zenon
        <5>2. 1 <= k
          BY <1>10, <2>2, <5>1
        <5>3. SequenceLength(q[1]) > 0
          BY <1>10, <4>1, <5>2, Zenon
        <5> QED BY <1>4, <4>1, <5>3
      <4> QED BY <2>2, <3>1, <4>2
    <3> QED BY <2>1, <3>1
  <2> QED BY <2>2, <2>3, <2>4, Zenon
<1>12. AckOf(s, a, n)
  BY <1>1, <1>2, <1>6, <1>7, <1>8, <1>11, Zenon DEF AckOf
<1> QED BY <1>1, <1>12, Zenon

LEMMA StepReceive ==
  ASSUME IInv, NEW n \in 0 .. StreamLen + 2, NEW w \in 0 .. MaxWindow, NEW rst \in Resets,
         Receive(n, w, rst)
  PROVE  IInv'
<1>1. PICK s, c, a, e : s = sender /\ c = call /\ a = acked /\ e = edge
  OBVIOUS
<1>2. PICK t, d, b, f : t = sender' /\ d = call' /\ b = acked' /\ f = edge'
  OBVIOUS
<1>3. Good(s, c, a, e) /\ c = Idle
  BY <1>1, Zenon DEF IInv, Receive
<1>4. Quiet(s, a, e)
  BY <1>3, IdleQuiet
<1>5. n \in Nat /\ n <= StreamLen + 2 /\ w \in Nat /\ rst \in BOOLEAN
  BY MachineAssumption
<1>6. AckOf(s, a, n)
  <2>1. n \in Acknos
    BY Zenon DEF Receive
  <2>2. Quiet(sender, acked, edge)
    BY <1>1, <1>4, Zenon
  <2>3. AckOf(sender, acked, n)
    BY <1>5, <2>1, <2>2, AcknosAre
  <2> QED BY <1>1, <2>3, Zenon
<1>7. InAcks(TakeWindow(s, w, rst), WrapSeq(n, Isn), Larger(a, n),
             Larger(e, n + Larger(w, 1)))
  BY <1>4, <1>5, <1>6, Receives
<1>8. /\ t = TakeWindow(s, w, rst) /\ d = AckCall("acks", WrapSeq(n, Isn))
      /\ b = Larger(a, n) /\ f = Larger(e, n + Larger(w, 1))
  BY <1>1, <1>2, Zenon DEF Receive, AckCall
<1>9. d.op = "acks" /\ d.ackno = WrapSeq(n, Isn)
  BY <1>8, IdleIs, Zenon
<1>10. InAcks(t, d.ackno, b, f)
  BY <1>7, <1>8, <1>9, Zenon
<1>11. Good(t, d, b, f)
  BY <1>9, <1>10 DEF Good
<1> QED BY <1>2, <1>11, Zenon DEF IInv

LEMMA StepReceiveEmpty ==
  ASSUME IInv, NEW w \in 0 .. MaxWindow, ReceiveEmpty(w)
  PROVE  IInv'
<1>1. PICK s, c, a, e : s = sender /\ c = call /\ a = acked /\ e = edge
  OBVIOUS
<1>2. PICK t, d, f : t = sender' /\ d = call' /\ f = edge'
  OBVIOUS
<1>3. PICK no \in BOOLEAN : no = FALSE
  OBVIOUS
<1>4. Good(s, c, a, e) /\ c = Idle /\ ~s.syn_sent
  BY <1>1, Zenon DEF IInv, ReceiveEmpty
<1>5. Quiet(s, a, e)
  BY <1>4, IdleQuiet
<1>6. w \in Nat
  BY MachineAssumption
<1>7. PICK ackno : ackno = d.ackno
  OBVIOUS
<1>8. InAcks(TakeWindow(s, w, no), ackno, a, Larger(e, Larger(w, 1)))
  BY <1>4, <1>5, <1>6, ReceivesEmpty
<1>9. /\ t = TakeWindow(s, w, no) /\ f = Larger(e, Larger(w, 1)) /\ acked' = acked
      /\ d = [Idle EXCEPT !.op = "acks"]
  BY <1>1, <1>2, <1>3, Zenon DEF ReceiveEmpty
<1>10. d.op = "acks"
  BY <1>9 DEF Idle
<1>11. InAcks(t, d.ackno, a, f)
  BY <1>7, <1>8, <1>9, Zenon
<1>12. Good(t, d, a, f)
  BY <1>10, <1>11 DEF Good
<1> QED BY <1>1, <1>2, <1>9, <1>12, Zenon DEF IInv

LEMMA StepTakeAck ==
  ASSUME IInv, TakeAck
  PROVE  IInv'
<1>1. PICK s, c, a, e : s = sender /\ c = call /\ a = acked /\ e = edge
  OBVIOUS
<1>2. PICK t : t = sender'
  OBVIOUS
<1>3. PICK ackno : ackno = c.ackno
  OBVIOUS
<1>4. /\ Good(s, c, a, e) /\ c.op = "acks" /\ AcksFront(s, ackno) /\ Pops(s, t)
      /\ call' = call /\ acked' = acked /\ edge' = edge
  BY <1>1, <1>2, <1>3, Zenon DEF IInv, TakeAck, Pops
<1>5. InAcks(s, ackno, a, e)
  BY <1>3, <1>4 DEF Good
<1>6. InAcks(t, ackno, a, e)
  BY <1>4, <1>5, Takes
<1>7. Good(t, c, a, e)
  BY <1>3, <1>4, <1>6 DEF Good
<1> QED BY <1>1, <1>2, <1>4, <1>7, Zenon DEF IInv

LEMMA StepEndReceive ==
  ASSUME IInv, EndReceive
  PROVE  IInv'
<1>1. PICK s, c, a, e : s = sender /\ c = call /\ a = acked /\ e = edge
  OBVIOUS
<1>2. PICK d : d = call' /\ d = Idle
  BY Zenon DEF EndReceive
<1>3. PICK ackno : ackno = c.ackno
  OBVIOUS
<1>4. /\ Good(s, c, a, e) /\ c.op = "acks" /\ ~AcksFront(s, ackno)
      /\ sender' = sender /\ acked' = acked /\ edge' = edge
  BY <1>1, <1>3, Zenon DEF IInv, EndReceive
<1>5. InAcks(s, ackno, a, e)
  BY <1>3, <1>4 DEF Good
<1>6. Quiet(s, a, e)
  BY <1>4, <1>5, EndsAcks
<1>7. Good(s, d, a, e)
  BY <1>2, <1>6, IdleIs, GoodQuiet
<1> QED BY <1>1, <1>2, <1>4, <1>7, Zenon DEF IInv

LEMMA StepTick ==
  ASSUME IInv, Tick(InitialRTO)
  PROVE  IInv'
<1>1. PICK s, c, a, e : s = sender /\ c = call /\ a = acked /\ e = edge
  OBVIOUS
<1>2. PICK t : t = sender'
  OBVIOUS
<1>3. /\ Good(s, c, a, e) /\ c = Idle /\ t = SenderTick(s, InitialRTO)
      /\ call' = call /\ acked' = acked /\ edge' = edge
  BY <1>1, <1>2, Zenon DEF IInv, Tick
<1>4. Quiet(s, a, e)
  BY <1>3, IdleQuiet
<1>5. InitialRTO \in Nat
  BY SenderAssumption
<1>6. Quiet(t, a, e)
  BY <1>3, <1>4, <1>5, Ticks
<1>7. Good(t, c, a, e)
  BY <1>3, <1>6, IdleIs, GoodQuiet
<1> QED BY <1>1, <1>2, <1>3, <1>7, Zenon DEF IInv

LEMMA NextGood == IInv /\ [Next]_vars => IInv'
<1> SUFFICES ASSUME IInv, [Next]_vars PROVE IInv'
  OBVIOUS
<1>1. ASSUME NEW n \in 1 .. StreamLen, Write(n) PROVE IInv'
  BY <1>1, StepWrite
<1>2. ASSUME Close PROVE IInv'
  BY <1>2, StepClose
<1>3. ASSUME Push PROVE IInv'
  BY <1>3, StepPush
<1>4. ASSUME PushBegins PROVE IInv'
  BY <1>4, StepPushBegins
<1>5. ASSUME PushFills PROVE IInv'
  BY <1>5, StepPushFills
<1>6. ASSUME PushFinishes PROVE IInv'
  BY <1>6, StepPushFinishes
<1>7. ASSUME NEW n \in 0 .. StreamLen + 2, NEW w \in 0 .. MaxWindow, NEW rst \in Resets,
             Receive(n, w, rst)
      PROVE  IInv'
  BY <1>7, StepReceive
<1>8. ASSUME NEW w \in 0 .. MaxWindow, ReceiveEmpty(w) PROVE IInv'
  BY <1>8, StepReceiveEmpty
<1>9. ASSUME TakeAck PROVE IInv'
  BY <1>9, StepTakeAck
<1>10. ASSUME EndReceive PROVE IInv'
  BY <1>10, StepEndReceive
<1>11. ASSUME Tick(InitialRTO) PROVE IInv'
  BY <1>11, StepTick
<1>12. ASSUME UNCHANGED vars PROVE IInv'
  BY <1>12, Zenon DEF IInv, vars
<1> QED BY <1>1, <1>2, <1>3, <1>4, <1>5, <1>6, <1>7, <1>8, <1>9, <1>10, <1>11, <1>12, Zenon DEF Next
-----------------------------------------------------------------------------
\* Between any two steps, in a call or not, the queue is a chain that ends with the stream.
LEMMA GoodHolds ==
  ASSUME NEW s, NEW c, NEW a, NEW e, Good(s, c, a, e)
  PROVE  \E m, k, from, end :
           Base(s, m, a, e) /\ Unacked(s, m, k, from, end, e) /\ k \in Nat /\ from \in Nat /\ end \in Nat
<1>1. CASE c.op \in {"none", "turn"}
  <2>1. Quiet(s, a, e)
    BY <1>1 DEF Good
  <2>2. a \in Nat
    <3>1. Base(s, EmptyMessage, a, e)
      BY <2>1, Zenon DEF Quiet
    <3> QED BY <3>1, BaseIs
  <2> QED BY <2>1, <2>2, Zenon DEF Quiet
<1>2. CASE c.op = "fill"
  <2>1. PICK m : m = c.msg /\ InTurn(s, m, a, e)
    BY <1>2 DEF Good
  <2>2. a \in Nat
    <3>1. Base(s, m, a, e)
      BY <2>1, Zenon DEF InTurn
    <3> QED BY <3>1, BaseIs
  <2> QED BY <2>1, <2>2, Zenon DEF InTurn
<1>3. CASE c.op = "acks"
  <2>1. PICK n : n = c.ackno /\ InAcks(s, n, a, e)
    BY <1>3 DEF Good
  <2> QED BY <2>1, Zenon DEF InAcks
<1> QED BY <1>1, <1>2, <1>3 DEF Good

\* In a chain the messages that have a number are the first k.
LEMMA LoadedIs ==
  ASSUME NEW q, NEW k \in Nat, NEW from, NEW end, NEW pushed, NEW far,
         Chain(q, k, from, end, pushed, far)
  PROVE  {i \in 1 .. Len(q) : SequenceLength(q[i]) > 0} = 1 .. k /\ 1 .. k \subseteq 1 .. Len(q)
<1>1. k \in 0 .. Len(q) /\ \A i \in 1 .. Len(q) : i <= k <=> SequenceLength(q[i]) > 0
  BY Zenon DEF Chain
<1>2. PICK n \in Nat : n = Len(q)
  <2>1. q \in Seq(Messages)
    BY Zenon DEF Chain
  <2> QED BY <2>1, EmptyLen
<1>3. \A i \in 1 .. k : i \in 1 .. n /\ i <= k
  BY <1>1, <1>2
<1>4. \A i \in 1 .. n : i <= k => i \in 1 .. k
  BY <1>2
<1> QED BY <1>1, <1>2, <1>3, <1>4

LEMMA GoodTyped == IInv => TypeOK
<1> SUFFICES ASSUME IInv PROVE TypeOK
  OBVIOUS
<1>1. PICK s, c, a, e : s = sender /\ c = call /\ a = acked /\ e = edge
  OBVIOUS
<1>2. Good(s, c, a, e)
  BY <1>1, Zenon DEF IInv
<1>3. s \in Senders
  <2>1. PICK m : Base(s, m, a, e)
    BY <1>2, GoodHolds
  <2> QED BY <2>1, BaseIs
<1>4. /\ s.input_ \in Streams(Nat)
      /\ {s.cur_win_size_, s.bytes_in_queue_, s.time_since_last_send, s.consec_retransmissions}
           \subseteq Nat
      /\ {s.syn_sent, s.fin, s.fin_received, s.fin_queued, s.win_advertised_zero} \subseteq BOOLEAN
  <2>1. /\ s.input_ \in Streams(Nat) /\ s.cur_win_size_ \in Nat /\ s.win_advertised_zero \in BOOLEAN
        /\ s.bytes_in_queue_ \in Nat /\ s.syn_sent \in BOOLEAN /\ s.fin \in BOOLEAN
        /\ s.fin_received \in BOOLEAN /\ s.fin_queued \in BOOLEAN
        /\ s.time_since_last_send \in Nat /\ s.consec_retransmissions \in Nat
    BY <1>3, SenderFields
  <2>2. {s.cur_win_size_, s.bytes_in_queue_, s.time_since_last_send, s.consec_retransmissions}
          \subseteq Nat
    BY <2>1
  <2>3. {s.syn_sent, s.fin, s.fin_received, s.fin_queued, s.win_advertised_zero} \subseteq BOOLEAN
    BY <2>1, Zenon
  <2> QED BY <2>1, <2>2, <2>3
<1>5. c.op \in {"none", "turn", "fill", "acks"}
  BY <1>2, Zenon DEF Good
<1> QED BY <1>1, <1>4, <1>5, Zenon DEF TypeOK

LEMMA GoodFinLast == IInv => FinLast
<1> SUFFICES ASSUME IInv PROVE FinLast
  OBVIOUS
<1>1. PICK s, c, a, e : s = sender /\ c = call /\ a = acked /\ e = edge
  OBVIOUS
<1>2. Good(s, c, a, e)
  BY <1>1, Zenon DEF IInv
<1>3. PICK m, k, from, end :
        Base(s, m, a, e) /\ Unacked(s, m, k, from, end, e) /\ k \in Nat /\ from \in Nat /\ end \in Nat
  BY <1>2, GoodHolds
<1>4. Settled(s, m) /\ s.input_ \in Streams(Nat) /\ Tiled(s.input_)
  BY <1>3, BaseIs
<1>5. s.fin_queued => IsFinished(s.input_)
  <2>1. IsFinished(s.input_) <=> Emptied(s.input_)
    BY <1>4, EmptyStream
  <2> QED BY <1>4, <2>1, Zenon DEF Settled
<1>6. s.fin_received => s.fin_queued /\ k = 0
  BY <1>3, <1>4, Zenon DEF Settled, Unacked
<1>7. PICK q, pushed : q = s.msg_queue_ /\ pushed = s.input_.totalPushed
  OBVIOUS
<1>8. {i \in 1 .. Len(q) : SequenceLength(q[i]) > 0} = 1 .. k
  <2>1. Chain(q, k, from, end, pushed, e)
    BY <1>3, <1>7, Zenon DEF Unacked
  <2> QED BY <1>3, <2>1, LoadedIs
<1>9. Loaded = 1 .. k
  BY <1>1, <1>7, <1>8, Zenon DEF Loaded, Queue
<1>10. k = 0 => Loaded = {}
  BY <1>9
<1> QED BY <1>1, <1>5, <1>6, <1>10, Zenon DEF FinLast

LEMMA GoodInWindow == ~AcksStale /\ IInv => InWindow
<1> SUFFICES ASSUME ~AcksStale, IInv PROVE InWindow
  OBVIOUS
<1>1. PICK s, c, a, e : s = sender /\ c = call /\ a = acked /\ e = edge
  OBVIOUS
<1>2. Good(s, c, a, e)
  BY <1>1, Zenon DEF IInv
<1>3. PICK m, k, from, end :
        Base(s, m, a, e) /\ Unacked(s, m, k, from, end, e) /\ k \in Nat /\ from \in Nat /\ end \in Nat
  BY <1>2, GoodHolds
<1>4. PICK q, pushed : q = s.msg_queue_ /\ pushed = s.input_.totalPushed
  OBVIOUS
<1>5. Chain(q, k, from, end, pushed, e)
  BY <1>3, <1>4, Zenon DEF Unacked
<1>6. ASSUME NEW i \in Loaded, Queue[i].payload # <<>>
      PROVE  Number(Queue[i]) + Flag(Queue[i].SYN) + Len(Queue[i].payload) <= edge
  <2>1. i \in 1 .. Len(q) /\ Queue = q
    BY <1>1, <1>4, Zenon DEF Loaded, Queue
  <2>2. PICK x : x = q[i]
    OBVIOUS
  <2>3. Sound(x, pushed, e)
    BY <1>5, <2>1, <2>2, Zenon DEF Chain
  <2>4. NumberOf(x, pushed) + Flag(x.SYN) + Len(x.payload) <= e
    BY <1>6, <2>1, <2>2, <2>3, Zenon DEF Sound
  <2>5. Number(x) = NumberOf(x, pushed)
    BY <1>1, <1>4, Zenon DEF Number, NumberOf
  <2> QED BY <1>1, <2>1, <2>2, <2>4, <2>5, Zenon
<1> QED BY <1>6, Zenon DEF InWindow

LEMMA GoodQueue == ~AcksLost /\ IInv => QueueIsUnacked
<1> SUFFICES ASSUME ~AcksLost, IInv, call = Idle PROVE QueueIsUnacked
  BY DEF QueueIsUnacked
<1>1. PICK s, c, a, e : s = sender /\ c = call /\ a = acked /\ e = edge
  OBVIOUS
<1>2. Good(s, c, a, e) /\ c = Idle
  BY <1>1, Zenon DEF IInv
<1>3. Quiet(s, a, e)
  BY <1>2, IdleQuiet
<1>4. PICK k \in Nat, end \in Nat : Unacked(s, EmptyMessage, k, a, end, e)
  <2>1. PICK k \in Nat, from \in Nat, end \in Nat :
          Unacked(s, EmptyMessage, k, from, end, e) /\ Begins(s, from, a, e)
    BY <1>3, Zenon DEF Quiet
  <2>2. from = a
    BY <2>1, Zenon DEF Begins
  <2> QED BY <2>1, <2>2, Zenon
<1>5. s.bytes_in_queue_ \in Nat /\ a \in Nat
  <2>1. Base(s, EmptyMessage, a, e)
    BY <1>3, Zenon DEF Quiet
  <2> QED BY <2>1, BaseIs
<1>6. PICK q, pushed : q = s.msg_queue_ /\ pushed = s.input_.totalPushed
  OBVIOUS
<1>7. Chain(q, k, a, end, pushed, e)
  BY <1>4, <1>6, Zenon DEF Unacked
<1>8. {i \in 1 .. Len(q) : SequenceLength(q[i]) > 0} = 1 .. k /\ 1 .. k \subseteq 1 .. Len(q)
  BY <1>7, LoadedIs
<1>9. Loaded = 1 .. k /\ Queue = q
  BY <1>1, <1>6, <1>8, Zenon DEF Loaded, Queue
<1>10. Upto = end
  <2>1. Upto = UptoOf(s)
    BY <1>1, Zenon DEF Upto, UptoOf
  <2>2. end + 0 = UptoOf(s)
    BY <1>4, EmptyFields, Zenon DEF Unacked
  <2> QED BY <2>1, <2>2
<1>11. s.bytes_in_queue_ = Upto - a
  <2>1. a + s.bytes_in_queue_ = end
    BY <1>4, Zenon DEF Unacked
  <2>2. s.bytes_in_queue_ = end - a
    BY <1>5, <2>1
  <2> QED BY <1>10, <2>2, Zenon
<1>12. ASSUME NEW x
       PROVE  Number(x) = NumberOf(x, pushed) /\ End(x) = NumberOf(x, pushed) + SequenceLength(x)
  BY <1>1, <1>6, Zenon DEF Number, NumberOf, End
<1>13. IF Loaded = {} THEN Upto = a ELSE 1 \in Loaded /\ Number(q[1]) = a
  <2>1. CASE k = 0
    <3>1. Loaded = {}
      BY <1>9, <2>1
    <3>2. a = end
      BY <1>7, <2>1, Zenon DEF Chain
    <3> QED BY <1>10, <3>1, <3>2, Zenon
  <2>2. CASE k # 0
    <3>1. 1 \in Loaded
      BY <1>9, <2>2
    <3>2. NumberOf(q[1], pushed) = a
      BY <1>7, <2>2, Zenon DEF Chain
    <3> QED BY <1>12, <3>1, <3>2, Zenon
  <2> QED BY <2>1, <2>2
<1>14. ASSUME NEW i \in Loaded
       PROVE  /\ i = 1 \/ i - 1 \in Loaded
              /\ End(q[i]) = IF i + 1 \in Loaded THEN Number(q[i + 1]) ELSE Upto
              /\ q[i].seqno = WrapSeq(Number(q[i]), Isn)
              /\ q[i].payload # <<>> => q[i].payload = Bytes(Head(q[i].payload), Len(q[i].payload))
  <2>1. /\ i \in 1 .. k /\ (i = 1 \/ i - 1 \in 1 .. k) /\ (i = k <=> i + 1 \notin 1 .. k)
    BY <1>9
  <2>2. i \in 1 .. Len(q)
    BY <1>8, <2>1
  <2>3. Link(q, k, end, pushed, i) /\ Sound(q[i], pushed, e)
    BY <1>7, <2>1, <2>2, Zenon DEF Chain
  <2>4. End(q[i]) = IF i + 1 \in Loaded THEN Number(q[i + 1]) ELSE Upto
    BY <1>9, <1>10, <1>12, <2>1, <2>3, Zenon DEF Link
  <2> QED BY <1>9, <1>12, <2>1, <2>3, <2>4, Zenon DEF Sound
<1> QED BY <1>1, <1>9, <1>11, <1>13, <1>14, Zenon DEF QueueIsUnacked

-----------------------------------------------------------------------------
\* However the acknowledgments come, lost, overtaken or in order, the members of the sender keep
\* their types: in particular receive() never takes more out of bytes_in_queue_ than is in it.
THEOREM SenderTyped == Spec => []TypeOK
BY InitGood, NextGood, GoodTyped, PTL DEF Spec

\* However the acknowledgments come, and whenever the application closes, the FIN is sent
\* once, after the last byte.
THEOREM SenderFinLast == Spec => []FinLast
BY InitGood, NextGood, GoodFinLast, PTL DEF Spec

\* Unless an old acknowledgment overtakes a newer one and brings its window back, push() sends
\* no byte beyond the windows the peer has announced.
THEOREM SenderInWindow ==
  ASSUME ~AcksStale
  PROVE  Spec => []InWindow
<1>1. IInv => InWindow
  BY GoodInWindow
<1> QED BY <1>1, InitGood, NextGood, PTL DEF Spec

\* Unless an acknowledgment gets lost, the queue between two calls is exactly what the peer has
\* not acknowledged.
THEOREM SenderQueueIsUnacked ==
  ASSUME ~AcksLost
  PROVE  Spec => []QueueIsUnacked
<1>1. IInv => QueueIsUnacked
  BY GoodQueue
<1> QED BY <1>1, InitGood, NextGood, PTL DEF Spec
=============================================================================

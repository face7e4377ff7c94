-------------------------- MODULE StreamCopyProofs --------------------------
(***************************************************************************)
(* The stream copy for every size of its buffers and of the kernel's,      *)
(* every number of bytes from either side and any number of failures: no   *)
(* byte is lost on the way, an end is passed on after the last byte only,  *)
(* and the loop neither stops early nor dies of its own checks.            *)
(***************************************************************************)
EXTENDS StreamCopy, StreamLemmas

RuleSet == {Rule(what, s) : what \in {"fill", "empty"}, s \in Directions}

\* The place of a rule among the four.
Place(r) == (IF r.stream = "outbound" THEN 0 ELSE 2) + (IF r.does = "fill" THEN 1 ELSE 2)

Sorted(rules) == \A i, j \in 1 .. Len(rules) : i < j => Place(rules[i]) < Place(rules[j])
Absent(rules, what, s) == \A i \in 1 .. Len(rules) : rules[i] # Rule(what, s)

Kernels ==
  [ avail : [Sources -> Seq(Nat)], given : [Sources -> Nat],
    held : [Sinks -> Seq(Nat)], got : [Sinks -> Seq(Nat)],
    ended : SUBSET Sources, broken : SUBSET Fds, wrShut : BOOLEAN, stdinIsPipe : BOOLEAN ]

Worlds ==
  [ streams : [Directions -> Streams(Nat)], shutdown : [Directions -> BOOLEAN],
    fd : [Fds -> [eof : BOOLEAN, closed : BOOLEAN, reads : Nat, writes : Nat]],
    os : Kernels, thrown : BOOLEAN ]

\* Where the bytes of one direction are: x is its stream, o the kernel.
Carried(s, x, o) ==
  /\ Tiled(x) /\ x.capacity_ = BufferSize
  /\ x.totalPushed <= o.given[Source(s)]
  /\ o.avail[Source(s)] = Bytes(x.totalPushed, o.given[Source(s)] - x.totalPushed)
  /\ o.got[Sink(s)] \o o.held[Sink(s)] = Bytes(0, x.totalPopped)

Tells(s, f, o) == IF s = "outbound" THEN o.wrShut ELSE f["stdout"].closed

\* What is known of the end of one direction: a read end closes the stream, a closed stream
\* had a read end or an error, and the sink is told of finished streams only.
Ending(s, w) ==
  /\ w.fd[Source(s)].eof => w.streams[s].isClosed
  /\ w.streams[s].isClosed /\ ~w.streams[s].error_ =>
       Source(s) \in w.os.ended /\ w.os.avail[Source(s)] = <<>>
  /\ Tells(s, w.fd, w.os) => w.shutdown[s] /\ IsFinished(w.streams[s])
  /\ w.shutdown[s] /\ ~w.thrown => Tells(s, w.fd, w.os)

Bounds(o) == /\ \A f \in Sources : o.given[f] <= MaxGiven(f) /\ Len(o.avail[f]) <= ReadRoom
             /\ \A f \in Sinks : Len(o.held[f]) <= WriteRoom

\* What the callbacks keep true of what they work on.
Sane(w) ==
  /\ w \in Worlds
  /\ Bounds(w.os)
  /\ \A s \in Directions : Carried(s, w.streams[s], w.os) /\ Ending(s, w)
  /\ w.streams["outbound"].error_ = w.streams["inbound"].error_
  /\ ~w.fd["socket"].closed /\ ~w.fd["stdin"].closed

\* A rule that is gone has closed its stream, or has done what it was there for.
RulesOK(rules, w) ==
  /\ rules \in Seq(RuleSet) /\ Sorted(rules)
  /\ \A s \in Directions :
       /\ Absent(rules, "fill", s) => w.streams[s].isClosed
       /\ Absent(rules, "empty", s) => w.streams[s].error_ \/ Tells(s, w.fd, w.os)

\* The entry of a rule asks for what the rule is interested in.
Asks(p, r, w) == /\ p.rule = r
                 /\ p.events = IF Interested(r, w) THEN {DirectionOf(r)} ELSE {}

\* What poll() said holds on, whatever the other ends do: an error and an end are for good,
\* what is there to read stays there, and so does the room to write.
Reported(p, o) ==
  LET f == FdOf(p.rule)
  IN  /\ "ERR" \in p.revents => f \in o.broken
      /\ "HUP" \in p.revents /\ "ERR" \notin p.revents =>
           /\ f = "stdin" \/ (f = "socket" /\ o.wrShut)
           /\ f \in o.ended
           /\ "In" \in p.events /\ "In" \notin p.revents => o.avail[f] = <<>>
      /\ "In" \in p.revents /\ p.rule.does = "fill" =>
           o.avail[f] # <<>> \/ f \in o.ended \/ f \in o.broken
      /\ "Out" \in p.revents /\ p.rule.does = "empty" =>
           Room(f, o) > 0 \/ (f = "socket" /\ o.wrShut)

Polled(l, w) == /\ Len(l.pollfds) = Len(l.rules)
                /\ \A i \in 1 .. Len(l.rules) : Asks(l.pollfds[i], l.rules[i], w)

\* An entry of pollfds before and after poll().
Events  == {"In", "Out", "HUP", "ERR"}
Entries == [rule : RuleSet, events : SUBSET Events]
             \cup [rule : RuleSet, events : SUBSET Events, revents : SUBSET Events]

Loops == [ at : {"call", "poll", "serve", "exit", "died"}, rules : Seq(RuleSet),
           pollfds : Seq(Entries) ]

\* The variables as one world, with an exception or without.
Whole(st, sh, f, o, t) == [streams |-> st, shutdown |-> sh, fd |-> f, os |-> o, thrown |-> t]

\* The inductive invariant: what the callbacks work on is in good order, every rule that is
\* gone has done its work, and what poll() was asked and said still holds.
IInv ==
  /\ loop \in Loops /\ Sorted(loop.rules)
  /\ \A f \in Fds : fd[f].reads = 0 /\ fd[f].writes = 0
  /\ loop.at = "died" => os.broken # {} /\ Sane(Whole(streams, shutdown, fd, os, TRUE))
  /\ loop.at # "died" => Sane(World) /\ RulesOK(loop.rules, World)
  /\ loop.at \in {"poll", "serve"} => Polled(loop, World)
  /\ loop.at = "serve" => \A i \in 1 .. Len(loop.pollfds) : Reported(loop.pollfds[i], os)
  /\ ExitIsComplete

-----------------------------------------------------------------------------
(* Loops over a list.                                                      *)

\* Induction over an interval that begins at 0.
LEMMA UpInduction ==
  ASSUME NEW n \in Nat, NEW T, 0 \in T, \A i \in 1 .. n : i - 1 \in T => i \in T
  PROVE  0 .. n \subseteq T
<1> SUFFICES ASSUME (0 .. n) \ T # {}
             PROVE  FALSE
  OBVIOUS
<1>0. (0 .. n) \ T \subseteq Nat
  OBVIOUS
<1>1. PICK x \in (0 .. n) \ T : \A y \in (0 .. n) \ T : x <= y
  BY <1>0, LeastElement
<1>2. x # 0 /\ x \in 1 .. n /\ x - 1 \in 0 .. n /\ ~(x <= x - 1)
  BY <1>1
<1>3. x - 1 \in T
  BY <1>1, <1>2, Zenon
<1> QED BY <1>1, <1>2, <1>3, Zenon

\* A loop that applies the function F[i] in its i-th turn passes through values g[0 .. n].
Turns(n, V, F)       == F \in [1 .. n -> [V -> V]]
Passes(n, V, a, F, g) ==
  g \in [0 .. n -> V] /\ g[0] = a /\ \A i \in 1 .. n : g[i] = F[i][g[i - 1]]

LEMMA Iterates ==
  ASSUME NEW n \in Nat, NEW V, NEW a \in V, NEW F, Turns(n, V, F)
  PROVE  \E g : Passes(n, V, a, F, g)
<1> USE DEF Turns
<1> DEFINE Good(m, g) == g \in [0 .. m -> V] /\ g[0] = a /\ \A i \in 1 .. m : g[i] = F[i][g[i - 1]]
           T == {m \in 0 .. n : \E g : Good(m, g)}
<1>1. 0 \in T
  <2>1. Good(0, [i \in 0 .. 0 |-> a])
    OBVIOUS
  <2>2. 0 \in 0 .. n
    OBVIOUS
  <2> QED BY <2>1, <2>2
<1>2. ASSUME NEW m \in 1 .. n, m - 1 \in T
      PROVE  m \in T
  <2>1. PICK g : Good(m - 1, g)
    BY <1>2
  <2> DEFINE e == [i \in 0 .. m |-> IF i = m THEN F[m][g[m - 1]] ELSE g[i]]
  <2>2. m - 1 \in 0 .. m - 1 /\ 0 \in 0 .. m /\ 0 # m
    OBVIOUS
  <2>3. F[m][g[m - 1]] \in V
    BY <2>1, <2>2
  <2>4. e \in [0 .. m -> V]
    <3>1. ASSUME NEW i \in 0 .. m, i # m PROVE g[i] \in V
      <4>1. i \in 0 .. m - 1
        BY <3>1
      <4> QED BY <2>1, <4>1
    <3> QED BY <2>3, <3>1
  <2>5. e[0] = a
    BY <2>1, <2>2
  <2>6. ASSUME NEW i \in 1 .. m PROVE e[i] = F[i][e[i - 1]]
    <3>1. i \in 0 .. m /\ i - 1 \in 0 .. m /\ i - 1 # m
      OBVIOUS
    <3>2. e[i - 1] = g[i - 1]
      BY <3>1, Zenon
    <3>3. CASE i = m
      <4>1. e[i] = F[m][g[m - 1]]
        BY <3>1, <3>3, Zenon
      <4> QED BY <3>2, <3>3, <4>1, Zenon
    <3>4. CASE i # m
      <4>1. i \in 1 .. m - 1
        BY <3>4
      <4>2. g[i] = F[i][g[i - 1]]
        BY <2>1, <4>1, Zenon
      <4>3. e[i] = g[i]
        BY <3>1, <3>4, Zenon
      <4> QED BY <3>2, <4>2, <4>3, Zenon
    <3> QED BY <3>3, <3>4
  <2> HIDE DEF e
  <2>7. Good(m, e)
    BY <2>4, <2>5, <2>6, Zenon
  <2>8. m \in 0 .. n
    OBVIOUS
  <2> QED BY <2>7, <2>8
<1> HIDE DEF T
<1>3. 0 .. n \subseteq T
  BY <1>1, <1>2, UpInduction
<1>4. n \in T
  BY <1>3
<1> QED BY <1>4, Zenon DEF T, Passes

\* q is the list, up to k, at the positions in S, and h[j] is where its j-th element was.
Chosen(q, h, list, S, k) ==
  /\ h \in [1 .. Len(q) -> 1 .. k]
  /\ \A i, j \in 1 .. Len(q) : i < j => h[i] < h[j]
  /\ \A j \in 1 .. Len(q) : h[j] \in S /\ q[j] = list[h[j]]
  /\ \A i \in 1 .. k : i \in S => \E j \in 1 .. Len(q) : h[j] = i

\* One more element, when it is kept.
LEMMA KeepOne ==
  ASSUME NEW V, NEW q \in Seq(V), NEW h, NEW list, NEW S, NEW k \in Nat, k # 0, k \in S,
         list[k] \in V, Chosen(q, h, list, S, k - 1)
  PROVE  \E e : Chosen(Append(q, list[k]), e, list, S, k)
<1>1. PICK n \in Nat : n = Len(q)
  OBVIOUS
<1>2. PICK p : p = Append(q, list[k])
  OBVIOUS
<1>3. /\ p \in Seq(V) /\ Len(p) = n + 1 /\ p[n + 1] = list[k]
      /\ \A j \in 1 .. n : p[j] = q[j]
  BY <1>1, <1>2
<1>4. /\ h \in [1 .. n -> 1 .. k - 1]
      /\ \A i, j \in 1 .. n : i < j => h[i] < h[j]
      /\ \A j \in 1 .. n : h[j] \in S /\ q[j] = list[h[j]]
      /\ \A i \in 1 .. k - 1 : i \in S => \E j \in 1 .. n : h[j] = i
  BY <1>1, Zenon DEF Chosen
<1>5. PICK e : e = [j \in 1 .. n + 1 |-> IF j = n + 1 THEN k ELSE h[j]]
  OBVIOUS
<1>6. /\ e[n + 1] = k /\ \A j \in 1 .. n : e[j] = h[j] /\ h[j] \in 1 .. k - 1
      /\ e \in [1 .. n + 1 -> 1 .. k]
  BY <1>4, <1>5
<1>7. ASSUME NEW i \in 1 .. n + 1, NEW j \in 1 .. n + 1, i < j
      PROVE  e[i] < e[j]
  <2>1. i \in 1 .. n
    BY <1>7
  <2>2. PICK a \in 1 .. k - 1 : a = h[i] /\ e[i] = a
    BY <1>6, <2>1, Zenon
  <2>3. CASE j = n + 1
    <3>1. a < k
      OBVIOUS
    <3> QED BY <1>6, <2>2, <2>3, <3>1, Zenon
  <2>4. CASE j # n + 1
    <3>1. j \in 1 .. n
      BY <2>4
    <3> QED BY <1>4, <1>6, <1>7, <2>1, <3>1, Zenon
  <2> QED BY <2>3, <2>4
<1>8. ASSUME NEW j \in 1 .. n + 1
      PROVE  e[j] \in S /\ p[j] = list[e[j]]
  <2>1. CASE j = n + 1
    BY <1>3, <1>6, <2>1, Zenon
  <2>2. CASE j # n + 1
    <3>1. j \in 1 .. n
      BY <2>2
    <3> QED BY <1>3, <1>4, <1>6, <3>1, Zenon
  <2> QED BY <2>1, <2>2
<1>9. ASSUME NEW i \in 1 .. k, i \in S
      PROVE  \E j \in 1 .. n + 1 : e[j] = i
  <2>1. CASE i = k
    <3>1. n + 1 \in 1 .. n + 1
      OBVIOUS
    <3> QED BY <1>6, <2>1, <3>1, Zenon
  <2>2. CASE i # k
    <3>1. i \in 1 .. k - 1
      BY <2>2
    <3>2. PICK j \in 1 .. n : h[j] = i
      BY <1>4, <1>9, <3>1, Zenon
    <3>3. j \in 1 .. n + 1
      OBVIOUS
    <3> QED BY <1>6, <3>2, <3>3, Zenon
  <2> QED BY <2>1, <2>2
<1>10. Chosen(p, e, list, S, k)
  BY <1>3, <1>6, <1>7, <1>8, <1>9, Zenon DEF Chosen
<1> QED BY <1>2, <1>10

\* What a loop that erases some elements of a list leaves of it.
LEMMA KeepIs ==
  ASSUME NEW V, NEW list \in Seq(V), NEW S
  PROVE  /\ Poller!Keep(list, S) \in Seq(V)
         /\ \E h : Chosen(Poller!Keep(list, S), h, list, S, Len(list))
<1>1. PICK n \in Nat : n = Len(list)
  OBVIOUS
<1> DEFINE Upto(f) == [i \in 0 .. n |-> IF i = 0 THEN <<>>
                                        ELSE IF i \in S THEN Append(f[i - 1], list[i]) ELSE f[i - 1]]
           f == CHOOSE g : g = Upto(g)
<1>2. Poller!Keep(list, S) = f[n]
  BY <1>1 DEF Poller!Keep
<1>3. f = Upto(f)
  <2>1. PICK F : F = [i \in 1 .. n |-> [v \in Seq(V) |-> IF i \in S THEN Append(v, list[i]) ELSE v]]
    OBVIOUS
  <2>2. \A i \in 1 .. n : list[i] \in V
    BY <1>1, ElementOfSeq
  <2>3. F \in [1 .. n -> [Seq(V) -> Seq(V)]]
    BY <2>1, <2>2
  <2>4. PICK a \in Seq(V) : a = <<>>
    <3>1. <<>> \in Seq(V)
      OBVIOUS
    <3> QED BY <3>1, Zenon
  <2>5. PICK g \in [0 .. n -> Seq(V)] : g[0] = a /\ \A i \in 1 .. n : g[i] = F[i][g[i - 1]]
    <3>1. PICK W : W = Seq(V)
      OBVIOUS
    <3>2. Turns(n, W, F) /\ a \in W
      BY <2>3, <2>4, <3>1, Zenon DEF Turns
    <3>3. \E g : Passes(n, W, a, F, g)
      BY <3>2, Iterates, Zenon
    <3> QED BY <3>1, <3>3, Zenon DEF Passes
  <2>6. ASSUME NEW i \in 0 .. n
        PROVE  g[i] = IF i = 0 THEN <<>>
                      ELSE IF i \in S THEN Append(g[i - 1], list[i]) ELSE g[i - 1]
    <3>1. CASE i = 0
      BY <2>4, <2>5, <3>1, Zenon
    <3>2. CASE i # 0
      <4>1. i \in 1 .. n /\ i - 1 \in 0 .. n
        BY <3>2
      <4>2. g[i - 1] \in Seq(V) /\ i \in 1 .. n
        BY <2>5, <4>1
      <4>3. F[i][g[i - 1]] = IF i \in S THEN Append(g[i - 1], list[i]) ELSE g[i - 1]
        BY <2>1, <4>1, <4>2, Zenon
      <4> QED BY <2>5, <3>2, <4>1, <4>3, Zenon
    <3> QED BY <3>1, <3>2
  <2>7. g = [i \in 0 .. n |-> g[i]]
    OBVIOUS
  <2>8. g = Upto(g)
    BY <2>6, <2>7, Zenon
  <2> QED BY <2>8, Zenon
<1> DEFINE T == {k \in 0 .. n : f[k] \in Seq(V) /\ \E h : Chosen(f[k], h, list, S, k)}
<1> HIDE DEF f
<1>4. ASSUME NEW i \in 0 .. n
      PROVE  f[i] = IF i = 0 THEN <<>>
                    ELSE IF i \in S THEN Append(f[i - 1], list[i]) ELSE f[i - 1]
  BY <1>3, Zenon
<1>5. 0 \in T
  <2>1. 0 \in 0 .. n
    OBVIOUS
  <2>2. PICK q : q = f[0] /\ q = <<>>
    BY <1>4, <2>1, Zenon
  <2>3. PICK h : h = [j \in {} |-> 1]
    OBVIOUS
  <2>4. q \in Seq(V) /\ Len(q) = 0 /\ 1 .. Len(q) = {} /\ h \in [1 .. Len(q) -> 1 .. 0]
    BY <2>2, <2>3
  <2>5. \A i \in 1 .. 0 : FALSE
    OBVIOUS
  <2>6. Chosen(q, h, list, S, 0)
    BY <2>4, <2>5, Zenon DEF Chosen
  <2> QED BY <2>1, <2>2, <2>4, <2>6, Zenon
<1>6. ASSUME NEW k \in 1 .. n, k - 1 \in T
      PROVE  k \in T
  <2>1. k \in 0 .. n /\ k \in Nat /\ k # 0
    OBVIOUS
  <2>2. PICK q, h : q \in Seq(V) /\ q = f[k - 1] /\ Chosen(q, h, list, S, k - 1)
    BY <1>6, Zenon
  <2>3. list[k] \in V
    BY <1>1, ElementOfSeq
  <2>4. CASE k \in S
    <3>1. f[k] = Append(q, list[k])
      BY <1>4, <2>1, <2>2, <2>4, Zenon
    <3>2. Append(q, list[k]) \in Seq(V)
      BY <2>2, <2>3
    <3>3. \E e : Chosen(Append(q, list[k]), e, list, S, k)
      BY <2>1, <2>2, <2>3, <2>4, KeepOne
    <3> QED BY <2>1, <3>1, <3>2, <3>3, Zenon
  <2>5. CASE k \notin S
    <3>1. f[k] = q
      BY <1>4, <2>1, <2>2, <2>5, Zenon
    <3>2. 1 .. k - 1 \subseteq 1 .. k
      OBVIOUS
    <3>3. h \in [1 .. Len(q) -> 1 .. k]
      BY <2>2, <3>2 DEF Chosen
    <3>4. \A i \in 1 .. k : i \in S => i \in 1 .. k - 1
      BY <2>5
    <3>5. Chosen(q, h, list, S, k)
      BY <2>2, <3>3, <3>4, Zenon DEF Chosen
    <3> QED BY <2>1, <2>2, <3>1, <3>5, Zenon
  <2> QED BY <2>4, <2>5
<1> HIDE DEF T
<1>7. 0 .. n \subseteq T
  BY <1>5, <1>6, UpInduction
<1>8. n \in T
  BY <1>7
<1> QED BY <1>1, <1>2, <1>8, Zenon DEF T
-----------------------------------------------------------------------------
(* The two loops of wait_next_event().                                     *)

\* An operator applied to a value worked out once is the operator applied to it.
LEMMA ServedOnce ==
  ASSUME NEW p, NEW v
  PROVE  Poller!Once(LAMBDA u : Poller!ServeEntry(p, u), v) = Poller!ServeEntry(p, v)
<1>1. {Poller!ServeEntry(p, x) : x \in {v}} = {Poller!ServeEntry(p, v)}
  OBVIOUS
<1> QED BY <1>1, Zenon DEF Poller!Once

Serves(p) == Poller!Ready(p) /\ ~Poller!Dropped(p)

\* The worlds the loop after poll() passes through.
Through(g, pollfds, w, n) ==
  g = [i \in 0 .. n |-> IF i = 0 THEN w ELSE Poller!ServeEntry(pollfds[i], g[i - 1])]

LEMMA ServedWorlds ==
  ASSUME NEW pollfds, NEW w, NEW n \in Nat
  PROVE  \E g : Through(g, pollfds, w, n)
<1> DEFINE T == {m \in 0 .. n : \E g : Through(g, pollfds, w, m)}
<1>1. 0 \in T
  <2> DEFINE g == [i \in 0 .. 0 |-> w]
  <2>1. g = [i \in 0 .. 0 |-> IF i = 0 THEN w ELSE Poller!ServeEntry(pollfds[i], g[i - 1])]
    <3>1. \A i \in 0 .. 0 : i = 0
      OBVIOUS
    <3> QED BY <3>1, Zenon
  <2>2. 0 \in 0 .. n
    OBVIOUS
  <2> HIDE DEF g
  <2> QED BY <2>1, <2>2, Zenon DEF Through
<1>2. ASSUME NEW m \in 1 .. n, m - 1 \in T
      PROVE  m \in T
  <2>1. PICK g : Through(g, pollfds, w, m - 1)
    BY <1>2
  <2> DEFINE e == [i \in 0 .. m |-> IF i = m THEN Poller!ServeEntry(pollfds[m], g[m - 1]) ELSE g[i]]
  <2>2. ASSUME NEW i \in 0 .. m
        PROVE  e[i] = IF i = 0 THEN w ELSE Poller!ServeEntry(pollfds[i], e[i - 1])
    <3>1. CASE i = m
      <4>1. i # 0 /\ m - 1 \in 0 .. m /\ m - 1 # m
        BY <3>1
      <4>2. e[m - 1] = g[m - 1]
        BY <4>1, Zenon
      <4>3. e[i] = Poller!ServeEntry(pollfds[m], g[m - 1])
        BY <3>1, Zenon
      <4> QED BY <3>1, <4>1, <4>2, <4>3, Zenon
    <3>2. CASE i # m
      <4>1. i \in 0 .. m - 1 /\ (i # 0 => i - 1 \in 0 .. m /\ i - 1 # m)
        BY <3>2
      <4>2. e[i] = g[i]
        BY <3>2, Zenon
      <4>3. g[i] = IF i = 0 THEN w ELSE Poller!ServeEntry(pollfds[i], g[i - 1])
        BY <2>1, <4>1, Zenon DEF Through
      <4>4. i # 0 => e[i - 1] = g[i - 1]
        BY <4>1, Zenon
      <4> QED BY <4>2, <4>3, <4>4, Zenon
    <3> QED BY <3>1, <3>2
  <2>3. e = [i \in 0 .. m |-> e[i]]
    OBVIOUS
  <2> HIDE DEF e
  <2>4. Through(e, pollfds, w, m)
    BY <2>2, <2>3, Zenon DEF Through
  <2>5. m \in 0 .. n
    OBVIOUS
  <2> QED BY <2>4, <2>5
<1> HIDE DEF T
<1>3. 0 .. n \subseteq T
  BY <1>1, <1>2, UpInduction
<1>4. n \in T
  BY <1>3
<1> QED BY <1>4 DEF T

\* What a call of wait_next_event() does after poll(): it goes through the worlds g, up to
\* the first entry that is served or to the last one of all.
Left(pollfds, last) ==
  Poller!Keep(pollfds, {i \in 1 .. Len(pollfds) : i > last \/ ~Poller!Dropped(pollfds[i])})

Busy(r, u, v) == /\ Poller!ServiceCount(r, v) = Poller!ServiceCount(r, u)
                 /\ ~Closed(FdOf(r), v)

Ran(pollfds, w, c, last, g) ==
  /\ last \in 0 .. Len(pollfds)
  /\ g[0] = w /\ \A i \in 1 .. last : g[i] = Poller!ServeEntry(pollfds[i], g[i - 1])
  /\ c.world = g[last]
  /\ \A i \in 1 .. last : Serves(pollfds[i]) => i = last
  /\ \/ last = Len(pollfds) /\ \A i \in 1 .. last : ~Serves(pollfds[i])
     \/ last \in 1 .. Len(pollfds) /\ Serves(pollfds[last])
  /\ c.rules = [i \in DOMAIN Left(pollfds, last) |-> Left(pollfds, last)[i].rule]
  /\ c.busyWait => /\ last \in 1 .. Len(pollfds) /\ Serves(pollfds[last])
                   /\ Busy(pollfds[last].rule, g[last - 1], g[last])

LEMMA ServePolledIs ==
  ASSUME NEW E, NEW pollfds \in Seq(E), NEW w, NEW c, c = Poller!ServePolled(pollfds, w)
  PROVE  \E last, g : Ran(pollfds, w, c, last, g)
<1>1. PICK n \in Nat : n = Len(pollfds) /\ DOMAIN pollfds = 1 .. n
  OBVIOUS
<1>2. PICK served : served = {i \in 1 .. n : Serves(pollfds[i])}
  OBVIOUS
<1>3. PICK last : last = IF served = {} THEN n ELSE Poller!Min(served)
  OBVIOUS
<1>4. /\ last \in 0 .. n /\ (served # {} => last \in served)
      /\ \A i \in served : last <= i
  <2>1. CASE served = {}
    BY <1>3, <2>1
  <2>2. CASE served # {}
    <3>1. served \subseteq Nat
      BY <1>2
    <3>2. \E x \in served : \A y \in served : x <= y
      BY <2>2, <3>1, LeastElement
    <3>3. last = CHOOSE x \in served : \A y \in served : x <= y
      BY <1>3, <2>2, Zenon DEF Poller!Min
    <3>4. last \in served /\ \A y \in served : last <= y
      BY <3>2, <3>3, Zenon
    <3>5. last \in 0 .. n
      BY <1>2, <3>4
    <3> QED BY <3>4, <3>5
  <2> QED BY <2>1, <2>2
<1> DEFINE Step(f) == [i \in 0 .. last |->
                         IF i = 0 THEN w ELSE Poller!ServeEntry(pollfds[i], f[i - 1])]
           Once(f) == [i \in 0 .. last |->
                         IF i = 0 THEN w
                         ELSE Poller!Once(LAMBDA u : Poller!ServeEntry(pollfds[i], u), f[i - 1])]
           g == CHOOSE f : f = Once(f)
<1>5. \A f : Once(f) = Step(f)
  BY ServedOnce
<1>6. g = Step(g)
  <2>0. last \in Nat
    BY <1>1, <1>4
  <2>1. PICK f : Through(f, pollfds, w, last)
    BY <2>0, ServedWorlds, Zenon
  <2>2. f = Once(f)
    <3>1. f = Step(f)
      BY <2>1, Zenon DEF Through
    <3> QED BY <1>5, <3>1, Zenon
  <2>3. g = Once(g)
    BY <2>2, Zenon
  <2> QED BY <1>5, <2>3, Zenon
<1>7. PICK left : /\ left = Poller!Keep(pollfds, {i \in 1 .. n : i > last \/ ~Poller!Dropped(pollfds[i])})
                  /\ left = Left(pollfds, last)
  BY <1>1, Zenon DEF Left
<1>8. PICK r : r = pollfds[last].rule
  OBVIOUS
<1>9. c = [ rules    |-> [i \in DOMAIN left |-> left[i].rule],
            world    |-> g[last],
            busyWait |-> /\ served # {}
                         /\ Poller!ServiceCount(r, g[last]) = Poller!ServiceCount(r, g[last - 1])
                         /\ ~Closed(FdOf(r), g[last])
                         /\ Interested(r, g[last]) ]
  <2>1. served = {i \in 1 .. n : Poller!Ready(pollfds[i]) /\ ~Poller!Dropped(pollfds[i])}
    BY <1>2, Zenon DEF Serves
  <2> QED BY <1>1, <1>3, <1>7, <1>8, <2>1, Zenon DEF Poller!ServePolled
<1> HIDE DEF g
<1>10. /\ c.rules = [i \in DOMAIN left |-> left[i].rule] /\ c.world = g[last]
       /\ c.busyWait => served # {} /\ Busy(r, g[last - 1], g[last])
  BY <1>9 DEF Busy
<1>11. g[0] = w /\ \A i \in 1 .. last : g[i] = Poller!ServeEntry(pollfds[i], g[i - 1])
  <2>1. 0 \in 0 .. last
    BY <1>4
  <2>2. \A i \in 1 .. last : i \in 0 .. last /\ i # 0
    BY <1>4
  <2> QED BY <1>6, <2>1, <2>2, Zenon
<1>12. \A i \in 1 .. last : Serves(pollfds[i]) => i = last
  <2> SUFFICES ASSUME NEW i \in 1 .. last, Serves(pollfds[i]) PROVE i = last
    OBVIOUS
  <2>1. i \in 1 .. n
    BY <1>4
  <2>2. last <= i
    BY <1>2, <1>4, <2>1, Zenon
  <2> QED BY <1>4, <2>2
<1>13. \/ last = n /\ \A i \in 1 .. last : ~Serves(pollfds[i])
       \/ last \in 1 .. n /\ Serves(pollfds[last])
  BY <1>2, <1>3, <1>4
<1>14. served # {} => last \in 1 .. n /\ Serves(pollfds[last])
  BY <1>2, <1>4
<1> QED BY <1>1, <1>4, <1>7, <1>8, <1>10, <1>11, <1>12, <1>13, <1>14, Zenon DEF Ran

\* The entry the loop before poll() makes of a rule.
Entry(r, w) == [ rule |-> r, events |-> IF Interested(r, w) THEN {DirectionOf(r)} ELSE {} ]

EntriesOf(rules, w) == [i \in 1 .. Len(rules) |-> Entry(rules[i], w)]
Polling(rules, w)   == {i \in 1 .. Len(rules) : ~Poller!Defunct(rules[i], w)}

\* The loop before poll(), when the cancel callback of no defunct rule changes anything.
LEMMA SetUpPollIs ==
  ASSUME NEW rules \in Seq(RuleSet), NEW w, NEW c, c = Poller!SetUpPoll(rules, w),
         \A i \in 1 .. Len(rules) : Poller!Defunct(rules[i], w) => OnCancel(rules[i], w) = w
  PROVE  c.world = w /\ c.pollfds = Poller!Keep(EntriesOf(rules, w), Polling(rules, w))
<1>1. PICK n \in Nat : n = Len(rules) /\ DOMAIN rules = 1 .. n
  OBVIOUS
<1> DEFINE Turn(i, u) == IF Poller!Defunct(rules[i], u) THEN OnCancel(rules[i], u) ELSE u
           Step(f) == [i \in 0 .. n |-> IF i = 0 THEN w ELSE Turn(i, f[i - 1])]
           Once(f) == [i \in 0 .. n |->
                         IF i = 0 THEN w
                         ELSE CHOOSE v \in {Turn(i, u) : u \in {f[i - 1]}} : TRUE]
           g == CHOOSE f : f = Once(f)
<1>2. \A f : Once(f) = Step(f)
  <2>1. ASSUME NEW i, NEW u
        PROVE  (CHOOSE v \in {Turn(i, x) : x \in {u}} : TRUE) = Turn(i, u)
    <3>1. {Turn(i, x) : x \in {u}} = {Turn(i, u)}
      OBVIOUS
    <3> QED BY <3>1, Zenon
  <2> HIDE DEF Turn
  <2> QED BY <2>1, Zenon
<1>3. g = Step(g)
  <2> DEFINE f == [i \in 0 .. n |-> w]
  <2>1. ASSUME NEW i \in 0 .. n PROVE w = IF i = 0 THEN w ELSE Turn(i, f[i - 1])
    <3>1. i # 0 => i \in 1 .. n /\ i - 1 \in 0 .. n
      OBVIOUS
    <3>2. i # 0 => f[i - 1] = w
      BY <3>1, Zenon
    <3> QED BY <1>1, <3>1, <3>2, Zenon
  <2>2. f = Step(f)
    BY <2>1, Zenon
  <2> HIDE DEF f
  <2>3. f = Once(f)
    BY <1>2, <2>2, Zenon
  <2>4. g = Once(g)
    BY <2>3, Zenon
  <2> QED BY <1>2, <2>4, Zenon
<1>4. Poller!Scanned(rules, w) = g
  BY <1>1, Zenon DEF Poller!Scanned, Poller!Once
<1> HIDE DEF g
<1>5. \A i \in 0 .. n : g[i] = w
  <2> DEFINE T == {i \in 0 .. n : g[i] = w}
  <2>1. 0 \in T
    <3>1. 0 \in 0 .. n
      OBVIOUS
    <3> QED BY <1>3, <3>1, Zenon
  <2>2. ASSUME NEW i \in 1 .. n, i - 1 \in T PROVE i \in T
    <3>1. i \in 0 .. n /\ i # 0
      OBVIOUS
    <3>2. g[i - 1] = w
      BY <2>2, Zenon
    <3>3. g[i] = Turn(i, w)
      BY <1>3, <3>1, <3>2, Zenon
    <3>4. Turn(i, w) = w
      BY <1>1, Zenon
    <3> QED BY <3>1, <3>3, <3>4, Zenon
  <2> HIDE DEF T
  <2>3. 0 .. n \subseteq T
    BY <2>1, <2>2, UpInduction
  <2> QED BY <2>3 DEF T
<1>6. c = [ pollfds |-> Poller!Keep([i \in 1 .. n |->
                          [ rule   |-> rules[i],
                            events |-> IF Interested(rules[i], g[i - 1])
                                       THEN {DirectionOf(rules[i])} ELSE {} ]],
                          {i \in 1 .. n : ~Poller!Defunct(rules[i], g[i - 1])}),
            world   |-> g[n] ]
  BY <1>1, <1>4, Zenon DEF Poller!SetUpPoll
<1>7. \A i \in 1 .. n : g[i - 1] = w
  <2>1. \A i \in 1 .. n : i - 1 \in 0 .. n
    OBVIOUS
  <2> QED BY <1>5, <2>1, Zenon
<1>8. g[n] = w
  <2>1. n \in 0 .. n
    OBVIOUS
  <2> QED BY <1>5, <2>1, Zenon
<1>9. [i \in 1 .. n |-> [ rule   |-> rules[i],
                          events |-> IF Interested(rules[i], g[i - 1])
                                     THEN {DirectionOf(rules[i])} ELSE {} ]]
        = [i \in 1 .. n |-> Entry(rules[i], w)]
  BY <1>7, Zenon DEF Entry
<1>10. {i \in 1 .. n : ~Poller!Defunct(rules[i], g[i - 1])}
         = {i \in 1 .. n : ~Poller!Defunct(rules[i], w)}
  BY <1>7, Zenon
<1>11. c = [ pollfds |-> Poller!Keep([i \in 1 .. n |-> Entry(rules[i], w)],
                                     {i \in 1 .. n : ~Poller!Defunct(rules[i], w)}),
             world   |-> w ]
  BY <1>6, <1>8, <1>9, <1>10, Zenon
<1>12. PICK q : q = Poller!Keep(EntriesOf(rules, w), Polling(rules, w))
  OBVIOUS
<1>13. c = [pollfds |-> q, world |-> w]
  BY <1>1, <1>11, <1>12, Zenon DEF EntriesOf, Polling
<1>14. c.pollfds = q /\ c.world = w
  BY <1>13
<1> QED BY <1>12, <1>14, Zenon
-----------------------------------------------------------------------------
(* Worlds.                                                                 *)

FdStates == [eof : BOOLEAN, closed : BOOLEAN, reads : Nat, writes : Nat]

LEMMA WorldIs ==
  ASSUME NEW w \in Worlds
  PROVE  /\ w.streams \in [Directions -> Streams(Nat)] /\ w.shutdown \in [Directions -> BOOLEAN]
         /\ w.fd \in [Fds -> FdStates] /\ w.os \in Kernels /\ w.thrown \in BOOLEAN
BY DEF Worlds, FdStates

\* A change of one part of a world.
LEMMA StreamsSet ==
  ASSUME NEW w \in Worlds, NEW x \in [Directions -> Streams(Nat)],
         NEW v, v = [w EXCEPT !.streams = x]
  PROVE  /\ v \in Worlds /\ v.streams = x /\ (x = w.streams => v = w)
         /\ v.shutdown = w.shutdown /\ v.fd = w.fd /\ v.os = w.os /\ v.thrown = w.thrown
BY DEF Worlds

LEMMA ShutdownSet ==
  ASSUME NEW w \in Worlds, NEW x \in [Directions -> BOOLEAN],
         NEW v, v = [w EXCEPT !.shutdown = x]
  PROVE  /\ v \in Worlds /\ v.shutdown = x
         /\ v.streams = w.streams /\ v.fd = w.fd /\ v.os = w.os /\ v.thrown = w.thrown
BY DEF Worlds

LEMMA FdSet ==
  ASSUME NEW w \in Worlds, NEW x \in [Fds -> FdStates], NEW v, v = [w EXCEPT !.fd = x]
  PROVE  /\ v \in Worlds /\ v.fd = x
         /\ v.streams = w.streams /\ v.shutdown = w.shutdown /\ v.os = w.os /\ v.thrown = w.thrown
BY DEF Worlds, FdStates

LEMMA OsSet ==
  ASSUME NEW w \in Worlds, NEW x \in Kernels, NEW v, v = [w EXCEPT !.os = x]
  PROVE  /\ v \in Worlds /\ v.os = x
         /\ v.streams = w.streams /\ v.shutdown = w.shutdown /\ v.fd = w.fd /\ v.thrown = w.thrown
BY DEF Worlds

LEMMA ThrowIs ==
  ASSUME NEW w \in Worlds, NEW v, v = Throw(w)
  PROVE  /\ v \in Worlds /\ v.thrown
         /\ v.streams = w.streams /\ v.shutdown = w.shutdown /\ v.fd = w.fd /\ v.os = w.os
BY DEF Worlds, Throw

\* The names of directions and descriptors.
LEMMA Names ==
  /\ Directions = {"outbound", "inbound"} /\ "outbound" # "inbound"
  /\ Source("outbound") = "stdin" /\ Source("inbound") = "socket"
  /\ Sink("outbound") = "socket" /\ Sink("inbound") = "stdout"
  /\ \A s \in Directions : Source(s) \in Sources /\ Sink(s) \in Sinks
                           /\ Source(s) \in Fds /\ Sink(s) \in Fds
  /\ Sources \subseteq Fds /\ Sinks \subseteq Fds
  /\ "stdin" # "socket" /\ "stdin" # "stdout" /\ "socket" # "stdout"
  /\ {"stdin", "socket", "stdout"} \subseteq Fds
BY DEF Directions, Source, Sink, Sources, Sinks, Fds

-----------------------------------------------------------------------------
(* Closing a stream and setting its error.                                 *)

\* y is x, closed or with an error perhaps.
Cuts(x, y, closes, fails) ==
  /\ y \in Streams(Nat) /\ y.capacity_ = x.capacity_ /\ y.deck_ = x.deck_
  /\ y.totalPushed = x.totalPushed /\ y.totalPopped = x.totalPopped
  /\ y.bytes_in_deck_ = x.bytes_in_deck_
  /\ y.isClosed = (x.isClosed \/ closes) /\ y.error_ = (x.error_ \/ fails)

LEMMA CloseCuts ==
  ASSUME NEW x \in Streams(Nat), NEW y, y = WriterClose(x)
  PROVE  Cuts(x, y, TRUE, FALSE) /\ (x.isClosed => y = x)
BY DEF Streams, WriterClose, Cuts

LEMMA ErrorCuts ==
  ASSUME NEW x \in Streams(Nat), NEW y, y = SetError(x)
  PROVE  Cuts(x, y, FALSE, TRUE)
BY DEF Streams, SetError, Cuts

LEMMA CutsCarried ==
  ASSUME NEW x, NEW y, NEW a \in BOOLEAN, NEW b \in BOOLEAN, Cuts(x, y, a, b), NEW s, NEW o,
         Carried(s, x, o)
  PROVE  Carried(s, y, o)
BY Zenon DEF Cuts, Carried, Tiled

\* v is w, with the stream s closed and, if the rule failed, an error in both.
Cut(w, v, s, fails) ==
  /\ v \in Worlds /\ v.shutdown = w.shutdown /\ v.fd = w.fd /\ v.os = w.os /\ v.thrown = w.thrown
  /\ \A t \in Directions : Cuts(w.streams[t], v.streams[t], t = s, fails)

LEMMA CancelCuts ==
  ASSUME NEW w \in Worlds, NEW r \in RuleSet, NEW v, v = OnCancel(r, w)
  PROVE  /\ Cut(w, v, r.stream, FALSE)
         /\ w.streams[r.stream].isClosed => v = w
         /\ \A t \in Directions : t # r.stream => v.streams[t] = w.streams[t]
<1>1. PICK st : st = w.streams /\ st \in [Directions -> Streams(Nat)]
  BY WorldIs
<1>2. PICK s \in Directions : s = r.stream
  BY DEF RuleSet, Rule
<1>3. PICK y : y = WriterClose(st[s])
  OBVIOUS
<1>4. PICK sv : sv = [st EXCEPT ![s] = y]
  OBVIOUS
<1>5. Cuts(st[s], y, TRUE, FALSE) /\ y \in Streams(Nat) /\ (st[s].isClosed => y = st[s])
  BY <1>1, <1>3, CloseCuts DEF Cuts
<1>6. v = [w EXCEPT !.streams = sv]
  BY <1>1, <1>2, <1>3, <1>4 DEF OnCancel
<1>7. /\ sv \in [Directions -> Streams(Nat)] /\ sv[s] = y
      /\ \A t \in Directions : t # s => sv[t] = st[t]
      /\ (y = st[s] => sv = st)
  BY <1>1, <1>4, <1>5
<1>8. /\ v \in Worlds /\ v.streams = sv /\ (sv = st => v = w)
      /\ v.shutdown = w.shutdown /\ v.fd = w.fd /\ v.os = w.os /\ v.thrown = w.thrown
  BY <1>1, <1>6, <1>7, StreamsSet
<1>9. ASSUME NEW t \in Directions PROVE Cuts(st[t], sv[t], t = s, FALSE)
  <2>1. CASE t = s
    BY <1>5, <1>7, <2>1, Zenon DEF Cuts
  <2>2. CASE t # s
    <3>1. st[t] \in Streams(Nat)
      BY <1>1
    <3>2. st[t].isClosed \in BOOLEAN /\ st[t].error_ \in BOOLEAN
      BY <3>1, StreamFields
    <3> QED BY <1>7, <2>2, <3>1, <3>2, Zenon DEF Cuts
  <2> QED BY <2>1, <2>2
<1>10. Cut(w, v, s, FALSE)
  BY <1>1, <1>8, <1>9, Zenon DEF Cut
<1> QED BY <1>1, <1>2, <1>5, <1>7, <1>8, <1>10, Zenon

LEMMA ErrorThenCancel ==
  ASSUME NEW w \in Worlds, NEW r \in RuleSet, NEW v, v = OnCancel(r, OnError(r, w))
  PROVE  Cut(w, v, r.stream, TRUE)
<1>1. PICK st : st = w.streams /\ st \in [Directions -> Streams(Nat)]
  BY WorldIs
<1>2. PICK u : u = OnError(r, w)
  OBVIOUS
<1>3. PICK su : su = [s \in Directions |-> SetError(st[s])]
  OBVIOUS
<1>4. u = [w EXCEPT !.streams = su]
  BY <1>1, <1>2, <1>3 DEF OnError
<1>5. ASSUME NEW t \in Directions
      PROVE  Cuts(st[t], su[t], FALSE, TRUE) /\ su[t] \in Streams(Nat)
  <2>1. st[t] \in Streams(Nat) /\ su[t] = SetError(st[t])
    BY <1>1, <1>3
  <2> QED BY <2>1, ErrorCuts DEF Cuts
<1>6. su \in [Directions -> Streams(Nat)]
  BY <1>3, <1>5
<1>7. /\ u \in Worlds /\ u.streams = su
      /\ u.shutdown = w.shutdown /\ u.fd = w.fd /\ u.os = w.os /\ u.thrown = w.thrown
  BY <1>4, <1>6, StreamsSet
<1>8. Cut(u, v, r.stream, FALSE)
  BY <1>2, <1>7, CancelCuts, Zenon
<1>9. ASSUME NEW t \in Directions PROVE Cuts(st[t], v.streams[t], t = r.stream, TRUE)
  <2>1. Cuts(st[t], su[t], FALSE, TRUE) /\ Cuts(su[t], v.streams[t], t = r.stream, FALSE)
    BY <1>5, <1>7, <1>8, Zenon DEF Cut
  <2> QED BY <2>1, Zenon DEF Cuts
<1> QED BY <1>1, <1>7, <1>8, <1>9, Zenon DEF Cut

\* Dropping a rule leaves the world in good order if it failed, or its stream was closed, or
\* its source is at the end with nothing left to read.
LEMMA CutSane ==
  ASSUME NEW w, Sane(w), NEW s \in Directions, NEW fails \in BOOLEAN, NEW v, Cut(w, v, s, fails),
         \/ fails \/ w.streams[s].isClosed
         \/ Source(s) \in w.os.ended /\ w.os.avail[Source(s)] = <<>>
  PROVE  Sane(v)
<1>1. ASSUME NEW t \in Directions
      PROVE  Carried(t, v.streams[t], v.os)
  <2>1. Cuts(w.streams[t], v.streams[t], t = s, fails) /\ Carried(t, w.streams[t], w.os)
    BY Zenon DEF Cut, Sane
  <2>2. PICK x, y, o, b : x = w.streams[t] /\ y = v.streams[t] /\ o = w.os /\ b = (t = s)
    OBVIOUS
  <2>3. Cuts(x, y, b, fails) /\ Carried(t, x, o) /\ b \in BOOLEAN
    BY <2>1, <2>2
  <2>4. Carried(t, y, o)
    BY <2>3, CutsCarried
  <2> QED BY <2>2, <2>4, Zenon DEF Cut
<1>2. ASSUME NEW t \in Directions
      PROVE  Ending(t, v)
  <2>1. Cuts(w.streams[t], v.streams[t], t = s, fails) /\ Ending(t, w)
    BY Zenon DEF Cut, Sane
  <2> QED BY <2>1, Zenon DEF Ending, Cuts, Cut, IsFinished
<1>3. v.streams["outbound"].error_ = v.streams["inbound"].error_
  <2>1. /\ Cuts(w.streams["outbound"], v.streams["outbound"], "outbound" = s, fails)
        /\ Cuts(w.streams["inbound"], v.streams["inbound"], "inbound" = s, fails)
    BY Names DEF Cut
  <2> QED BY <2>1, Zenon DEF Cuts, Sane
<1> QED BY <1>1, <1>2, <1>3, Zenon DEF Sane, Cut

-----------------------------------------------------------------------------
(* The system calls.                                                       *)

\* A change of one part of the kernel.
LEMMA WrShutSet ==
  ASSUME NEW o \in Kernels, NEW k, k = [o EXCEPT !.wrShut = TRUE]
  PROVE  /\ k \in Kernels /\ k.wrShut /\ k.avail = o.avail /\ k.given = o.given
         /\ k.held = o.held /\ k.got = o.got /\ k.ended = o.ended /\ k.broken = o.broken
BY DEF Kernels

LEMMA KernelIs ==
  ASSUME NEW o \in Kernels
  PROVE  /\ \A f \in Sources : o.avail[f] \in Seq(Nat) /\ o.given[f] \in Nat
         /\ \A f \in Sinks : o.held[f] \in Seq(Nat) /\ o.got[f] \in Seq(Nat)
         /\ o.ended \subseteq Sources /\ o.broken \subseteq Fds /\ o.wrShut \in BOOLEAN
BY DEF Kernels

\* A descriptor counts its reads and its writes.
LEMMA CountsRead ==
  ASSUME NEW w \in Worlds, NEW f \in Fds, NEW v, v = RegisterRead(w, f)
  PROVE  /\ v \in Worlds /\ \A g \in Fds : g # f => v.fd[g] = w.fd[g]
         /\ v.fd[f].eof = w.fd[f].eof /\ v.fd[f].closed = w.fd[f].closed
         /\ v.fd[f].reads = w.fd[f].reads + 1 /\ v.fd[f].writes = w.fd[f].writes
         /\ v.streams = w.streams /\ v.shutdown = w.shutdown /\ v.os = w.os /\ v.thrown = w.thrown
<1>1. PICK e : e = [w.fd[f] EXCEPT !.reads = @ + 1]
  OBVIOUS
<1>2. PICK x : x = [w.fd EXCEPT ![f] = e]
  OBVIOUS
<1>3. v = [w EXCEPT !.fd = x]
  BY <1>1, <1>2 DEF RegisterRead
<1>4. w.fd[f] \in FdStates
  BY WorldIs
<1>5. /\ e \in FdStates /\ e.eof = w.fd[f].eof /\ e.closed = w.fd[f].closed
      /\ e.reads = w.fd[f].reads + 1 /\ e.writes = w.fd[f].writes
  BY <1>1, <1>4 DEF FdStates
<1>6. x \in [Fds -> FdStates] /\ x[f] = e /\ \A g \in Fds : g # f => x[g] = w.fd[g]
  BY <1>2, <1>5, WorldIs
<1>7. /\ v \in Worlds /\ v.fd = x
      /\ v.streams = w.streams /\ v.shutdown = w.shutdown /\ v.os = w.os /\ v.thrown = w.thrown
  BY <1>3, <1>6, FdSet
<1> QED BY <1>5, <1>6, <1>7, Zenon

LEMMA CountsWrite ==
  ASSUME NEW w \in Worlds, NEW f \in Fds, NEW v, v = RegisterWrite(w, f)
  PROVE  /\ v \in Worlds /\ \A g \in Fds : g # f => v.fd[g] = w.fd[g]
         /\ v.fd[f].eof = w.fd[f].eof /\ v.fd[f].closed = w.fd[f].closed
         /\ v.fd[f].writes = w.fd[f].writes + 1 /\ v.fd[f].reads = w.fd[f].reads
         /\ v.streams = w.streams /\ v.shutdown = w.shutdown /\ v.os = w.os /\ v.thrown = w.thrown
<1>1. PICK e : e = [w.fd[f] EXCEPT !.writes = @ + 1]
  OBVIOUS
<1>2. PICK x : x = [w.fd EXCEPT ![f] = e]
  OBVIOUS
<1>3. v = [w EXCEPT !.fd = x]
  BY <1>1, <1>2 DEF RegisterWrite
<1>4. w.fd[f] \in FdStates
  BY WorldIs
<1>5. /\ e \in FdStates /\ e.eof = w.fd[f].eof /\ e.closed = w.fd[f].closed
      /\ e.writes = w.fd[f].writes + 1 /\ e.reads = w.fd[f].reads
  BY <1>1, <1>4 DEF FdStates
<1>6. x \in [Fds -> FdStates] /\ x[f] = e /\ \A g \in Fds : g # f => x[g] = w.fd[g]
  BY <1>2, <1>5, WorldIs
<1>7. /\ v \in Worlds /\ v.fd = x
      /\ v.streams = w.streams /\ v.shutdown = w.shutdown /\ v.os = w.os /\ v.thrown = w.thrown
  BY <1>3, <1>6, FdSet
<1> QED BY <1>5, <1>6, <1>7, Zenon

\* What no callback touches of the world.
Aside(w, v) ==
  /\ v \in Worlds
  /\ v.os.given = w.os.given /\ v.os.got = w.os.got
  /\ v.os.ended = w.os.ended /\ v.os.broken = w.os.broken

\* v is w after a read() of f that brought data, the end or an error.
HasRead(w, v, f, data) ==
  /\ Aside(w, v) /\ v.streams = w.streams /\ v.shutdown = w.shutdown
  /\ v.os.held = w.os.held /\ v.os.wrShut = w.os.wrShut
  /\ \A g \in Sources : g # f => v.os.avail[g] = w.os.avail[g]
  /\ \A g \in Fds : g # f => v.fd[g] = w.fd[g]
  /\ v.os.avail[f] = IF data = <<>> THEN w.os.avail[f]
                     ELSE Substr(w.os.avail[f], Len(data), Len(w.os.avail[f]))
  /\ v.fd[f].closed = w.fd[f].closed /\ v.fd[f].writes = w.fd[f].writes
  /\ v.fd[f].eof = (w.fd[f].eof \/ (data = <<>> /\ ~Broken(f, w.os) /\ f \in w.os.ended))
  /\ v.thrown = (w.thrown \/ (data = <<>> /\ Broken(f, w.os)))
  /\ data # <<>> \/ (~Broken(f, w.os) /\ f \in w.os.ended) => v.fd[f].reads = w.fd[f].reads + 1

LEMMA ReadIs ==
  ASSUME NEW w \in Worlds, NEW f \in Sources, NEW size, NEW data \in Seq(Nat),
         data = ReadData(w, f, size), NEW v, v = Read(w, f, size),
         data # <<>> => Len(data) <= Len(w.os.avail[f])
  PROVE  HasRead(w, v, f, data)
<1>0. /\ f \in Fds /\ w.os \in Kernels /\ w.os.avail[f] \in Seq(Nat) /\ Len(data) \in Nat
      /\ (data = <<>> <=> Len(data) = 0) /\ w.thrown \in BOOLEAN
      /\ w.fd[f].eof \in BOOLEAN
  <2>1. f \in Fds
    BY Names
  <2>2. w.fd[f] \in FdStates
    BY <2>1, WorldIs
  <2> QED BY <2>1, <2>2, WorldIs, KernelIs, EmptyLen DEF FdStates
<1>1. CASE Len(data) > 0
  <2>1. PICK u : u = RegisterRead(w, f)
    OBVIOUS
  <2>2. PICK a : a = Substr(w.os.avail[f], Len(data), Len(w.os.avail[f]))
    OBVIOUS
  <2>3. PICK av : av = [w.os.avail EXCEPT ![f] = a]
    OBVIOUS
  <2>4. PICK k : k = [w.os EXCEPT !.avail = av]
    OBVIOUS
  <2>5. u.os = w.os /\ u \in Worlds
    BY <1>0, <2>1, CountsRead
  <2>6. v = [u EXCEPT !.os = k]
    <3>1. v = [u EXCEPT !.os.avail[f] = Substr(@, Len(data), Len(@))]
      BY <1>0, <1>1, <2>1 DEF Read
    <3> QED BY <2>2, <2>3, <2>4, <2>5, <3>1
  <2>7. a \in Seq(Nat)
    <3>1. Len(data) \in 0 .. Len(w.os.avail[f])
      BY <1>0, <1>1
    <3>2. Len(w.os.avail[f]) \in Nat
      BY <1>0
    <3> QED BY <1>0, <2>2, <3>1, <3>2, SubstrRun
  <2>8. /\ k \in Kernels /\ k.avail = av /\ av[f] = a
        /\ \A g \in Sources : g # f => av[g] = w.os.avail[g]
        /\ k.given = w.os.given /\ k.held = w.os.held /\ k.got = w.os.got /\ k.ended = w.os.ended
        /\ k.broken = w.os.broken /\ k.wrShut = w.os.wrShut
    <3>1. PICK o \in Kernels : o = w.os
      BY <1>0
    <3>2. av = [o.avail EXCEPT ![f] = a] /\ k = [o EXCEPT !.avail = av]
      BY <2>3, <2>4, <3>1
    <3>3. /\ k \in Kernels /\ k.avail = av /\ av[f] = a
          /\ \A g \in Sources : g # f => av[g] = o.avail[g]
          /\ k.given = o.given /\ k.held = o.held /\ k.got = o.got /\ k.ended = o.ended
          /\ k.broken = o.broken /\ k.wrShut = o.wrShut
      BY <2>7, <3>1, <3>2, Zenon DEF Kernels
    <3> QED BY <3>1, <3>3, Zenon
  <2>9. /\ v \in Worlds /\ v.os = k
        /\ v.streams = u.streams /\ v.shutdown = u.shutdown /\ v.fd = u.fd /\ v.thrown = u.thrown
    BY <2>5, <2>6, <2>8, OsSet
  <2>10. /\ \A g \in Fds : g # f => u.fd[g] = w.fd[g]
         /\ u.fd[f].eof = w.fd[f].eof /\ u.fd[f].closed = w.fd[f].closed
         /\ u.fd[f].reads = w.fd[f].reads + 1 /\ u.fd[f].writes = w.fd[f].writes
         /\ u.streams = w.streams /\ u.shutdown = w.shutdown /\ u.thrown = w.thrown
    BY <1>0, <2>1, CountsRead
  <2>11. data # <<>>
    BY <1>0, <1>1
  <2>12. /\ Aside(w, v) /\ v.streams = w.streams /\ v.shutdown = w.shutdown
         /\ v.os.held = w.os.held /\ v.os.wrShut = w.os.wrShut
    BY <2>8, <2>9, <2>10, Zenon DEF Aside
  <2>13. /\ \A g \in Sources : g # f => v.os.avail[g] = w.os.avail[g]
         /\ \A g \in Fds : g # f => v.fd[g] = w.fd[g]
         /\ v.os.avail[f] = a
    BY <2>8, <2>9, <2>10, Zenon
  <2>14. /\ v.fd[f].closed = w.fd[f].closed /\ v.fd[f].writes = w.fd[f].writes
         /\ v.fd[f].reads = w.fd[f].reads + 1 /\ v.fd[f].eof = w.fd[f].eof
         /\ v.thrown = w.thrown
    BY <2>9, <2>10, Zenon
  <2>15. v.fd[f].eof = (w.fd[f].eof \/ (data = <<>> /\ ~Broken(f, w.os) /\ f \in w.os.ended))
    BY <1>0, <2>11, <2>14
  <2>16. v.thrown = (w.thrown \/ (data = <<>> /\ Broken(f, w.os)))
    BY <1>0, <2>11, <2>14
  <2> QED BY <2>2, <2>11, <2>12, <2>13, <2>14, <2>15, <2>16, Zenon DEF HasRead
<1>2. CASE ~(Len(data) > 0) /\ Broken(f, w.os)
  <2>1. Len(data) = 0 /\ data = <<>>
    BY <1>0, <1>2
  <2>2. v = Throw(w)
    BY <1>2, <2>1 DEF Read
  <2>3. /\ v \in Worlds /\ v.thrown
        /\ v.streams = w.streams /\ v.shutdown = w.shutdown /\ v.fd = w.fd /\ v.os = w.os
    BY <2>2, ThrowIs
  <2>4. v.thrown = TRUE
    BY <2>3, WorldIs
  <2> QED BY <1>0, <1>2, <2>1, <2>3, <2>4, Zenon DEF HasRead, Aside
<1>3. CASE ~(Len(data) > 0) /\ ~Broken(f, w.os) /\ f \in w.os.ended
  <2>1. Len(data) = 0 /\ data = <<>>
    BY <1>0, <1>3
  <2>2. PICK u : u = RegisterRead(w, f)
    OBVIOUS
  <2>3. /\ u \in Worlds /\ \A g \in Fds : g # f => u.fd[g] = w.fd[g]
        /\ u.fd[f].eof = w.fd[f].eof /\ u.fd[f].closed = w.fd[f].closed
        /\ u.fd[f].reads = w.fd[f].reads + 1 /\ u.fd[f].writes = w.fd[f].writes
        /\ u.streams = w.streams /\ u.shutdown = w.shutdown /\ u.os = w.os /\ u.thrown = w.thrown
    BY <1>0, <2>2, CountsRead
  <2>4. v = [u EXCEPT !.fd[f].eof = TRUE]
    BY <1>3, <2>1, <2>2 DEF Read
  <2>5. PICK e : e = [u.fd[f] EXCEPT !.eof = TRUE]
    OBVIOUS
  <2>6. PICK x : x = [u.fd EXCEPT ![f] = e]
    OBVIOUS
  <2>7. v = [u EXCEPT !.fd = x]
    BY <2>4, <2>5, <2>6
  <2>8. e \in FdStates /\ e.eof /\ e.closed = u.fd[f].closed /\ e.reads = u.fd[f].reads
        /\ e.writes = u.fd[f].writes
    <3>1. u.fd[f] \in FdStates
      BY <1>0, <2>3, WorldIs
    <3> QED BY <2>5, <3>1 DEF FdStates
  <2>9. e.eof = TRUE
    BY <2>8 DEF FdStates
  <2>10. /\ v \in Worlds /\ v.fd[f] = e /\ \A g \in Fds : g # f => v.fd[g] = u.fd[g]
         /\ v.streams = u.streams /\ v.shutdown = u.shutdown /\ v.os = u.os
         /\ v.thrown = u.thrown
    <3>1. x \in [Fds -> FdStates] /\ x[f] = e /\ \A g \in Fds : g # f => x[g] = u.fd[g]
      BY <1>0, <2>3, <2>6, <2>8, WorldIs
    <3>2. /\ v \in Worlds /\ v.fd = x
          /\ v.streams = u.streams /\ v.shutdown = u.shutdown /\ v.os = u.os
          /\ v.thrown = u.thrown
      BY <2>3, <2>7, <3>1, FdSet
    <3> QED BY <3>1, <3>2, Zenon
  <2> QED BY <1>0, <1>3, <2>1, <2>3, <2>8, <2>9, <2>10, Zenon DEF HasRead, Aside
<1>4. CASE ~(Len(data) > 0) /\ ~Broken(f, w.os) /\ f \notin w.os.ended
  <2>1. Len(data) = 0 /\ data = <<>>
    BY <1>0, <1>4
  <2>2. v = w
    BY <1>4, <2>1 DEF Read
  <2> QED BY <1>0, <1>4, <2>1, <2>2, Zenon DEF HasRead, Aside
<1> QED BY <1>1, <1>2, <1>3, <1>4

-----------------------------------------------------------------------------
(* The callbacks.                                                          *)

\* What a callback never undoes: the end of the streams, their error, and what the sinks
\* have been told.  One that tells a sink reads nothing.
Follows(w, v) ==
  /\ Aside(w, v)
  /\ \A t \in Directions :
       /\ v.streams[t].error_ = w.streams[t].error_
       /\ w.streams[t].isClosed => v.streams[t].isClosed
       /\ Tells(t, w.fd, w.os) => Tells(t, v.fd, v.os)
       /\ Tells(t, v.fd, v.os) => Tells(t, w.fd, w.os) \/ v.os.avail = w.os.avail

\* What a fill reads is the next bytes of its source, and it fits.
LEMMA FillData ==
  ASSUME NEW s \in Directions, NEW o \in Kernels, NEW x \in Streams(Nat), Carried(s, x, o),
         NEW size \in Nat, size # 0, size = AvailableCapacity(x), ~x.isClosed,
         NEW d, d = Substr(o.avail[Source(s)], 0, size),
         NEW y, y = WriterPush(x, d),
         NEW a, a = IF d = <<>> THEN o.avail[Source(s)]
                    ELSE Substr(o.avail[Source(s)], Len(d), Len(o.avail[Source(s)]))
  PROVE  /\ d \in Seq(Nat) /\ (d # <<>> => Len(d) <= Len(o.avail[Source(s)]))
         /\ d = <<>> <=> o.avail[Source(s)] = <<>>
         /\ y \in Streams(Nat) /\ Tiled(y) /\ ~y.isClosed /\ y.error_ = x.error_
         /\ y.capacity_ = x.capacity_ /\ y.totalPopped = x.totalPopped
         /\ y.totalPushed <= o.given[Source(s)]
         /\ a = Bytes(y.totalPushed, o.given[Source(s)] - y.totalPushed)
         /\ a \in Seq(Nat) /\ Len(a) <= Len(o.avail[Source(s)])
<1>1. PICK f \in Sources : f = Source(s)
  BY Names
<1>2. PICK p \in Nat, g \in Nat : p = x.totalPushed /\ g = o.given[f] /\ p <= g
  BY <1>1, StreamFields, KernelIs DEF Carried
<1>3. PICK m \in Nat : m = g - p
  BY <1>2
<1>4. o.avail[f] = Bytes(p, m) /\ Len(Bytes(p, m)) = m /\ Bytes(p, m) \in Seq(Nat)
  BY <1>1, <1>2, <1>3, BytesRun DEF Carried
<1>5. PICK n \in Nat : n = Least(size, m) /\ n <= size /\ n <= m /\ (m # 0 => n # 0)
  BY DEF Least
<1>6. d = Bytes(p, n) /\ Len(d) = n /\ d \in Seq(Nat) /\ (d = <<>> <=> n = 0)
  <2>1. 0 \in 0 .. m /\ p + 0 = p /\ m - 0 = m
    OBVIOUS
  <2>2. Substr(Bytes(p, m), 0, size) = Bytes(p + 0, Least(size, m - 0))
    BY <2>1, BytesPart
  <2>3. d = Bytes(p, n)
    BY <1>1, <1>4, <1>5, <2>1, <2>2
  <2>4. Bytes(p, n) \in Seq(Nat) /\ Len(Bytes(p, n)) = n
    BY BytesRun
  <2> QED BY <2>3, <2>4, EmptyLen
<1>7. /\ y \in Streams(Nat) /\ Tiled(y) /\ y.totalPushed = p + n /\ y.totalPopped = x.totalPopped
      /\ y.capacity_ = x.capacity_ /\ y.isClosed = x.isClosed /\ y.error_ = x.error_
  <2>1. y = WriterPush(x, Bytes(x.totalPushed, n)) /\ Tiled(x)
    BY <1>2, <1>6 DEF Carried
  <2>2. y \in Streams(Nat) /\ Tiled(y)
    BY <2>1, WriterPushTiled
  <2>3. /\ y.totalPushed = x.totalPushed + IF x.isClosed THEN 0 ELSE Least(AvailableCapacity(x), n)
        /\ y.totalPopped = x.totalPopped /\ y.capacity_ = x.capacity_
        /\ y.isClosed = x.isClosed /\ y.error_ = x.error_
    BY <2>1, WriterPushCounts
  <2>4. Least(size, n) = n
    BY <1>5 DEF Least
  <2> QED BY <1>2, <2>2, <2>3, <2>4
<1>8. PICK q \in Nat : q = p + n /\ q <= g /\ g - q = m - n /\ m - n \in Nat
  <2>1. p <= g /\ m = g - p /\ n <= m
    BY <1>2, <1>3, <1>5, Zenon
  <2>2. p + n \in Nat /\ p + n <= g /\ g - (p + n) = m - n /\ m - n \in Nat
    BY <2>1
  <2> QED BY <2>2
<1>9. a = Bytes(q, m - n)
  <2>1. CASE n = 0
    <3>1. q = p /\ m - n = m
      BY <1>8, <2>1
    <3> QED BY <1>1, <1>4, <1>6, <2>1, <3>1
  <2>2. CASE n # 0
    <3>1. n \in 0 .. m /\ Least(m, m - n) = m - n
      BY <1>5 DEF Least
    <3>2. Substr(Bytes(p, m), n, m) = Bytes(p + n, Least(m, m - n))
      BY <3>1, BytesPart
    <3>3. a = Substr(Bytes(p, m), n, m)
      BY <1>1, <1>4, <1>6, <2>2, Zenon
    <3> QED BY <1>8, <3>1, <3>2, <3>3, Zenon
  <2> QED BY <2>1, <2>2
<1>10. a \in Seq(Nat) /\ Len(a) = m - n /\ m - n <= m
  <2>1. q \in Nat /\ m - n \in Nat /\ m - n <= m
    BY <1>5, <1>8
  <2>2. PICK k \in Nat : k = m - n
    BY <2>1
  <2>3. Bytes(q, k) \in Seq(Nat) /\ Len(Bytes(q, k)) = k
    BY BytesRun
  <2> QED BY <1>9, <2>1, <2>2, <2>3, Zenon
<1>11. Len(o.avail[f]) = m /\ (o.avail[f] = <<>> <=> m = 0)
  BY <1>4, EmptyLen
<1>12. d = <<>> <=> o.avail[f] = <<>>
  BY <1>5, <1>6, <1>11
<1>13. y.totalPushed = q /\ q <= g
  BY <1>7, <1>8
<1> QED BY <1>1, <1>2, <1>5, <1>6, <1>7, <1>8, <1>9, <1>10, <1>11, <1>12, <1>13

\* Filling a stream that has room and is not closed keeps the world in good order; it throws
\* for a broken source only, and it has read when there was something to read.
LEMMA FillIs ==
  ASSUME NEW w, Sane(w), NEW s \in Directions, ~w.streams[s].isClosed,
         AvailableCapacity(w.streams[s]) > 0, NEW v, v = Fill(s, w)
  PROVE  /\ Sane(v) /\ Follows(w, v)
         /\ v.thrown => w.thrown \/ Source(s) \in w.os.broken
         /\ \/ Source(s) \in w.os.broken
            \/ w.os.avail[Source(s)] = <<>> /\ Source(s) \notin w.os.ended
            \/ v.fd[Source(s)].reads # w.fd[Source(s)].reads
<1>1. PICK f \in Sources : f = Source(s) /\ f \in Fds
  BY Names
<1>2. PICK x \in Streams(Nat), o \in Kernels : x = w.streams[s] /\ o = w.os
  BY WorldIs DEF Sane
<1>3. w \in Worlds /\ Carried(s, x, o) /\ Ending(s, w) /\ Tiled(x)
  BY <1>2, Zenon DEF Sane, Carried
<1>4. PICK size \in Nat : size = AvailableCapacity(x) /\ size # 0
  <2>1. x.capacity_ \in Nat /\ x.bytes_in_deck_ \in Nat
    BY StreamFields
  <2> QED BY <1>2, <2>1 DEF AvailableCapacity
<1>5. ~x.isClosed /\ ~w.fd[f].eof
  BY <1>1, <1>2, <1>3, Zenon DEF Ending
<1>6. PICK d : d = ReadData(w, f, size)
  OBVIOUS
<1>7. PICK y, a : /\ y = WriterPush(x, d)
                  /\ a = IF d = <<>> THEN o.avail[f] ELSE Substr(o.avail[f], Len(d), Len(o.avail[f]))
  OBVIOUS
<1>8. /\ d \in Seq(Nat) /\ (d # <<>> => Len(d) <= Len(o.avail[f]))
      /\ d = <<>> <=> o.avail[f] = <<>>
      /\ y \in Streams(Nat) /\ Tiled(y) /\ ~y.isClosed /\ y.error_ = x.error_
      /\ y.capacity_ = x.capacity_ /\ y.totalPopped = x.totalPopped
      /\ y.totalPushed <= o.given[f]
      /\ a = Bytes(y.totalPushed, o.given[f] - y.totalPushed)
      /\ a \in Seq(Nat) /\ Len(a) <= Len(o.avail[f])
  <2>1. d = Substr(o.avail[f], 0, size)
    BY <1>2, <1>4, <1>6, Zenon DEF ReadData
  <2> QED BY <1>1, <1>3, <1>4, <1>5, <1>7, <2>1, FillData
<1>9. PICK u : u = Read(w, f, size)
  OBVIOUS
<1>10. HasRead(w, u, f, d) /\ u \in Worlds
  <2>1. HasRead(w, u, f, d)
    BY <1>2, <1>3, <1>6, <1>8, <1>9, ReadIs
  <2> QED BY <2>1, Zenon DEF HasRead, Aside
<1>11. u.os.avail[f] = a
  BY <1>2, <1>7, <1>10, Zenon DEF HasRead
<1>12. PICK t : t = [u EXCEPT !.streams[s] = y]
  OBVIOUS
<1>13. /\ t \in Worlds /\ t.streams[s] = y
       /\ \A z \in Directions : z # s => t.streams[z] = w.streams[z]
       /\ t.shutdown = u.shutdown /\ t.fd = u.fd /\ t.os = u.os /\ t.thrown = u.thrown
  <2>1. u.streams = w.streams
    BY <1>10, Zenon DEF HasRead
  <2>2. y \in Streams(Nat)
    BY <1>8
  <2>3. /\ t \in Worlds /\ t.streams[s] = y
        /\ \A z \in Directions : z # s => t.streams[z] = u.streams[z]
        /\ t.shutdown = u.shutdown /\ t.fd = u.fd /\ t.os = u.os /\ t.thrown = u.thrown
    <3>1. PICK st : st = [u.streams EXCEPT ![s] = y]
      OBVIOUS
    <3>2. t = [u EXCEPT !.streams = st]
      BY <1>12, <3>1
    <3>3. /\ st \in [Directions -> Streams(Nat)] /\ st[s] = y
          /\ \A z \in Directions : z # s => st[z] = u.streams[z]
      BY <1>10, <2>2, <3>1, WorldIs
    <3>4. /\ t \in Worlds /\ t.streams = st
          /\ t.shutdown = u.shutdown /\ t.fd = u.fd /\ t.os = u.os /\ t.thrown = u.thrown
      BY <1>10, <3>2, <3>3, StreamsSet
    <3> QED BY <3>3, <3>4, Zenon
  <2> QED BY <2>1, <2>3
<1>14. PICK ends \in BOOLEAN : ends = t.fd[f].eof
  <2>1. t.fd[f] \in FdStates
    BY <1>1, <1>13, WorldIs
  <2> QED BY <2>1 DEF FdStates
<1>15. IF ends
       THEN Cut(t, v, s, FALSE) /\ \A z \in Directions : z # s => v.streams[z] = t.streams[z]
       ELSE v = t
  <2>1. t = [u EXCEPT !.streams[s] = WriterPush(@, d)]
    BY <1>2, <1>7, <1>10, <1>12 DEF HasRead
  <2>2. v = IF ends THEN OnCancel(Rule("fill", s), t) ELSE t
    <3>1. Source(s) = f /\ AvailableCapacity(w.streams[s]) = size
      BY <1>1, <1>2, <1>4
    <3>2. v = IF ends THEN [t EXCEPT !.streams[s] = WriterClose(@)] ELSE t
      BY <1>6, <1>9, <1>14, <2>1, <3>1, Zenon DEF Fill
    <3>3. Rule("fill", s).stream = s
      BY DEF Rule
    <3> QED BY <3>2, <3>3, Zenon DEF OnCancel
  <2>3. Rule("fill", s) \in RuleSet /\ Rule("fill", s).stream = s
    BY DEF RuleSet, Rule
  <2> QED BY <1>13, <2>2, <2>3, CancelCuts
<1>16. /\ v \in Worlds /\ v.shutdown = w.shutdown /\ v.fd = u.fd /\ v.os = u.os
       /\ v.thrown = u.thrown
       /\ \A z \in Directions : z # s => v.streams[z] = w.streams[z]
  <2>1. CASE ends
    <3>1. /\ v \in Worlds /\ v.shutdown = t.shutdown /\ v.fd = t.fd /\ v.os = t.os
          /\ v.thrown = t.thrown
          /\ \A z \in Directions : Cuts(t.streams[z], v.streams[z], z = s, FALSE)
      BY <1>15, <2>1, Zenon DEF Cut
    <3>2. \A z \in Directions : z # s => v.streams[z] = t.streams[z]
      BY <1>15, <2>1
    <3> QED BY <1>10, <1>13, <3>1, <3>2, Zenon DEF HasRead, Aside
  <2>2. CASE ~ends
    BY <1>10, <1>13, <1>15, <2>2, Zenon DEF HasRead, Aside
  <2> QED BY <2>1, <2>2
<1>17. PICK c : /\ c = v.streams[s] /\ c \in Streams(Nat) /\ Tiled(c) /\ c.capacity_ = x.capacity_
                /\ c.totalPushed = y.totalPushed /\ c.totalPopped = x.totalPopped
                /\ c.error_ = x.error_ /\ c.isClosed = ends
  <2>1. CASE ends
    <3>1. Cuts(t.streams[s], v.streams[s], s = s, FALSE)
      BY <1>15, <2>1, Zenon DEF Cut
    <3>2. Cuts(y, v.streams[s], TRUE, FALSE)
      BY <1>13, <3>1
    <3>3. ends = TRUE /\ x.error_ \in BOOLEAN
      BY <2>1, StreamFields
    <3>4. v.streams[s].isClosed = TRUE /\ v.streams[s].error_ = x.error_
      BY <1>8, <3>2, <3>3 DEF Cuts
    <3> QED BY <1>8, <3>2, <3>3, <3>4, Zenon DEF Cuts, Tiled
  <2>2. CASE ~ends
    <3>1. v.streams[s] = y /\ ends = FALSE /\ y.isClosed = FALSE
      BY <1>8, <1>13, <1>15, <2>2, StreamFields
    <3> QED BY <1>8, <3>1, Zenon
  <2> QED BY <2>1, <2>2
<1>18. ends => d = <<>> /\ f \in o.ended /\ ~Broken(f, o) /\ u.os.avail[f] = <<>>
  BY <1>2, <1>5, <1>7, <1>8, <1>10, <1>11, <1>13, <1>14, Zenon DEF HasRead
<1>19. Aside(w, v)
  BY <1>10, <1>16, Zenon DEF HasRead, Aside
<1>20. /\ \A g \in Sources : g # f => v.os.avail[g] = o.avail[g]
       /\ v.os.avail[f] = a /\ v.os.held = o.held /\ v.os.got = o.got /\ v.os.given = o.given
       /\ v.os.wrShut = o.wrShut /\ v.os.ended = o.ended /\ v.os.broken = o.broken
  BY <1>2, <1>10, <1>11, <1>16, Zenon DEF HasRead, Aside
<1>21. /\ \A g \in Fds : g # f => v.fd[g] = w.fd[g]
       /\ v.fd[f].closed = w.fd[f].closed /\ v.fd[f].eof = ends
  BY <1>10, <1>13, <1>14, <1>16, Zenon DEF HasRead
<1>22. \A g \in Fds : v.fd[g].closed = w.fd[g].closed
  BY <1>21
<1>23. \A z \in Directions : Tells(z, v.fd, v.os) = Tells(z, w.fd, w.os)
  BY <1>2, <1>20, <1>22, Names, Zenon DEF Tells
<1>24. ASSUME NEW z \in Directions
       PROVE  Carried(z, v.streams[z], v.os)
  <2>1. CASE z = s
    <3>1. c.capacity_ = BufferSize /\ o.got[Sink(s)] \o o.held[Sink(s)] = Bytes(0, c.totalPopped)
      BY <1>3, <1>17, Zenon DEF Carried
    <3> QED BY <1>1, <1>8, <1>17, <1>20, <2>1, <3>1, Zenon DEF Carried
  <2>2. CASE z # s
    <3>1. Source(z) # f /\ Source(z) \in Sources
      BY <1>1, <2>2 DEF Source, Directions, Sources
    <3>2. Carried(z, w.streams[z], o) /\ v.streams[z] = w.streams[z]
      BY <1>2, <1>16, <2>2, Zenon DEF Sane
    <3>3. v.os.avail[Source(z)] = o.avail[Source(z)]
      BY <1>20, <3>1
    <3> QED BY <1>20, <3>2, <3>3, Zenon DEF Carried
  <2> QED BY <2>1, <2>2
<1>25. v.thrown = (w.thrown \/ (d = <<>> /\ Broken(f, o)))
  BY <1>2, <1>10, <1>16, Zenon DEF HasRead
<1>26. ASSUME NEW z \in Directions
       PROVE  Ending(z, v)
  <2>1. Ending(z, w) /\ v.shutdown = w.shutdown
    BY <1>16, Zenon DEF Sane
  <2>2. v.shutdown[z] /\ ~v.thrown => Tells(z, v.fd, v.os)
    BY <1>23, <1>25, <2>1, Zenon DEF Ending
  <2>3. CASE z = s
    <3>1. ~Tells(s, v.fd, v.os)
      BY <1>2, <1>3, <1>5, <1>23, Zenon DEF Ending, IsFinished
    <3> QED BY <1>1, <1>17, <1>18, <1>20, <1>11, <1>21, <2>2, <2>3, <3>1, Zenon DEF Ending
  <2>4. CASE z # s
    <3>1. Source(z) # f /\ Source(z) \in Sources /\ Source(z) \in Fds
      BY <1>1, <2>4, Names DEF Source, Directions
    <3>2. /\ v.streams[z] = w.streams[z] /\ v.fd[Source(z)] = w.fd[Source(z)]
          /\ v.os.avail[Source(z)] = w.os.avail[Source(z)] /\ v.os.ended = w.os.ended
      BY <1>2, <1>16, <1>20, <1>21, <2>4, <3>1, Zenon
    <3> QED BY <1>23, <2>1, <2>2, <3>2, Zenon DEF Ending
  <2> QED BY <2>3, <2>4
<1>27. Bounds(v.os)
  <2>1. Bounds(o) /\ Len(a) <= ReadRoom
    <3>1. Bounds(o)
      BY <1>2, Zenon DEF Sane
    <3>2. PICK m \in Nat, n \in Nat : m = Len(a) /\ n = Len(o.avail[f]) /\ m <= n
      BY <1>2, <1>8, KernelIs, EmptyLen
    <3>3. n <= ReadRoom
      BY <3>1, <3>2, Zenon DEF Bounds
    <3>4. ReadRoom \in Nat
      BY StreamCopyAssumption
    <3>5. m <= ReadRoom
      BY <3>2, <3>3, <3>4
    <3> QED BY <3>1, <3>2, <3>5
  <2>2. \A g \in Sources : Len(v.os.avail[g]) <= ReadRoom
    <3> TAKE g \in Sources
    <3>1. CASE g = f
      BY <1>20, <2>1, <3>1
    <3>2. CASE g # f
      BY <1>20, <2>1, <3>2, Zenon DEF Bounds
    <3> QED BY <3>1, <3>2
  <2> QED BY <1>20, <2>1, <2>2, Zenon DEF Bounds
<1>28. \A z \in Directions : v.streams[z].error_ = w.streams[z].error_
                             /\ (w.streams[z].isClosed => v.streams[z].isClosed)
  BY <1>2, <1>5, <1>16, <1>17, Zenon
<1>29. Sane(v)
  <2>1. v.streams["outbound"].error_ = v.streams["inbound"].error_
    BY <1>28, Names, Zenon DEF Sane
  <2>2. ~v.fd["socket"].closed /\ ~v.fd["stdin"].closed
    BY <1>22, Names, Zenon DEF Sane
  <2> QED BY <1>16, <1>24, <1>26, <1>27, <2>1, <2>2, Zenon DEF Sane
<1>30. Follows(w, v)
  BY <1>19, <1>23, <1>28, Zenon DEF Follows
<1>31. \/ f \in w.os.broken
       \/ w.os.avail[f] = <<>> /\ f \notin w.os.ended
       \/ v.fd[f].reads # w.fd[f].reads
  <2>1. CASE d # <<>> \/ (~Broken(f, w.os) /\ f \in w.os.ended)
    <3>1. v.fd[f].reads = w.fd[f].reads + 1
      BY <1>10, <1>16, <2>1, Zenon DEF HasRead
    <3>2. w.fd[f].reads \in Nat
      BY <1>1, <1>3, WorldIs DEF FdStates
    <3> QED BY <3>1, <3>2
  <2>2. CASE ~(d # <<>> \/ (~Broken(f, w.os) /\ f \in w.os.ended))
    BY <1>2, <1>8, <2>2, Zenon DEF Broken
  <2> QED BY <2>1, <2>2
<1>32. v.thrown => w.thrown \/ f \in w.os.broken
  BY <1>2, <1>25, Zenon DEF Broken
<1> QED BY <1>1, <1>29, <1>30, <1>31, <1>32, Zenon

\* v is w after n bytes of the stream s went out to its sink.
HasSent(w, v, s, y, n) ==
  /\ Aside(w, v) /\ v.shutdown = w.shutdown /\ v.streams[s] = y
  /\ \A t \in Directions : t # s => v.streams[t] = w.streams[t]
  /\ v.os.avail = w.os.avail /\ v.os.wrShut = w.os.wrShut /\ v.thrown = w.thrown
  /\ \A g \in Sinks : g # Sink(s) => v.os.held[g] = w.os.held[g]
  /\ v.os.held[Sink(s)] = w.os.held[Sink(s)] \o Bytes(w.streams[s].totalPopped, n)
  /\ \A g \in Fds : v.fd[g].closed = w.fd[g].closed /\ v.fd[g].eof = w.fd[g].eof
  /\ v.fd[Sink(s)].writes = w.fd[Sink(s)].writes + 1

\* The front of a stream, as far as it goes into the room there is: n bytes of it.
LEMMA FrontPart ==
  ASSUME NEW x \in Streams(Nat), Tiled(x), x.bytes_in_deck_ # 0, NEW room \in Nat, room # 0,
         NEW n, n = Least(Len(Peek(x)), room), NEW y, y = PopFront(x, n)
  PROVE  /\ n \in Nat /\ n # 0 /\ n <= room
         /\ Substr(Peek(x), 0, n) = Bytes(x.totalPopped, n)
         /\ y \in Streams(Nat) /\ Tiled(y) /\ y.totalPopped = x.totalPopped + n
         /\ y.totalPushed = x.totalPushed /\ y.capacity_ = x.capacity_
         /\ y.isClosed = x.isClosed /\ y.error_ = x.error_
<1>1. PICK popped \in Nat, held \in Nat : popped = x.totalPopped /\ held = x.bytes_in_deck_
  BY StreamFields
<1>2. PICK front \in Seq(Nat) :
        /\ front = Peek(x) /\ Len(front) \in 1 .. held
        /\ \A j \in 1 .. Len(front) : front[j] = popped + j - 1
  BY <1>1, FrontFits
<1>3. PICK len \in Nat : len = Len(front) /\ len # 0 /\ len <= held /\ 0 \in 0 .. len
  BY <1>2
<1>4. front = Bytes(popped, len)
  BY <1>2, <1>3, BytesEqual
<1>5. /\ n \in Nat /\ n # 0 /\ n <= room /\ n <= len /\ n <= held
      /\ Least(n, len - 0) = n /\ Least(n, len) = n
  BY <1>2, <1>3 DEF Least
<1>6. Substr(front, 0, n) = Bytes(popped, n)
  <2>1. Substr(Bytes(popped, len), 0, n) = Bytes(popped + 0, Least(n, len - 0))
    BY <1>3, <1>5, BytesPart
  <2> QED BY <1>4, <1>5, <2>1
<1>7. x.deck_ # <<>> /\ PopTaken(x, n) = n
  <2>1. x.deck_ # <<>>
    BY FrontFits
  <2>2. Peek(x) = Head(x.deck_)
    BY <2>1, Zenon DEF Peek
  <2> QED BY <1>2, <1>3, <1>5, <2>1, <2>2, Zenon DEF PopTaken
<1>8. y = PopTurn(x, n)
  BY <1>5, <1>7, Zenon DEF PopFront
<1>9. /\ y \in Streams(Nat) /\ Tiled(y) /\ y.totalPopped = x.totalPopped + PopTaken(x, n)
      /\ y.totalPushed = x.totalPushed /\ y.capacity_ = x.capacity_
      /\ y.isClosed = x.isClosed /\ y.error_ = x.error_
  <2>1. n <= x.bytes_in_deck_
    BY <1>1, <1>5
  <2> QED BY <1>5, <1>8, <2>1, PopTurnTiled
<1> QED BY <1>1, <1>2, <1>5, <1>6, <1>7, <1>9

\* What rules 2 and 4 do before they look at the end of the stream.
Emptied(s, w) ==
  IF BytesBuffered(w.streams[s]) = 0 THEN w
  ELSE [Write(w, Sink(s), Peek(w.streams[s])) EXCEPT
         !.streams[s] = PopFront(@, Written(w, Sink(s), Peek(w.streams[s])))]

\* v is w after some bytes went out, within the room.
Sends(w, v, s, room) ==
  \E n \in Nat, y \in Streams(Nat) :
    /\ n <= room /\ HasSent(w, v, s, y, n)
    /\ Tiled(y) /\ y.totalPopped = w.streams[s].totalPopped + n
    /\ y.totalPushed = w.streams[s].totalPushed
    /\ y.capacity_ = w.streams[s].capacity_
    /\ y.isClosed = w.streams[s].isClosed /\ y.error_ = w.streams[s].error_

LEMMA EmptySplit ==
  ASSUME NEW s, NEW w, NEW e, e = Emptied(s, w)
  PROVE  Empty(s, w) = IF IsFinished(e.streams[s]) THEN Finish(s, e) ELSE e
BY Zenon DEF Empty, Emptied

LEMMA EmptiedIs ==
  ASSUME NEW w, Sane(w), NEW s \in Directions, NEW v, v = Emptied(s, w),
         NEW room \in Nat, room = Room(Sink(s), w.os)
  PROVE  /\ w.streams[s].bytes_in_deck_ = 0 => v = w
         /\ w.streams[s].bytes_in_deck_ # 0 /\ (Sink(s) \in w.os.broken \/ room = 0) =>
              /\ v \in Worlds /\ v.thrown = TRUE
              /\ v.streams = w.streams /\ v.shutdown = w.shutdown /\ v.fd = w.fd /\ v.os = w.os
         /\ w.streams[s].bytes_in_deck_ # 0 /\ ~(Sink(s) \in w.os.broken \/ room = 0) =>
              Sends(w, v, s, room)
<1>1. PICK f \in Sinks : f = Sink(s) /\ f \in Fds
  BY Names
<1>2. PICK x \in Streams(Nat), o \in Kernels : x = w.streams[s] /\ o = w.os
  BY WorldIs DEF Sane
<1>3. w \in Worlds /\ Tiled(x)
  BY <1>2, Zenon DEF Sane, Carried
<1>4. CASE x.bytes_in_deck_ = 0
  BY <1>2, <1>4, Zenon DEF Emptied, BytesBuffered
<1>5. CASE x.bytes_in_deck_ # 0
  <2>1. PICK peeked \in Seq(Nat) : peeked = Peek(x) /\ peeked # <<>> /\ Len(peeked) \in Nat /\ Len(peeked) # 0
    BY <1>3, <1>5, FrontFits, EmptyLen
  <2>2. PICK n : n = Written(w, f, peeked)
    OBVIOUS
  <2>3. PICK y : y = PopFront(x, n)
    OBVIOUS
  <2>4. PICK u : u = Write(w, f, peeked)
    OBVIOUS
  <2>5. v = [u EXCEPT !.streams[s] = PopFront(@, n)]
    BY <1>1, <1>2, <1>5, <2>1, <2>2, <2>4, Zenon DEF Emptied, BytesBuffered
  <2>6. CASE f \in o.broken \/ room = 0
    <3>1. n = 0
      BY <1>1, <1>2, <2>1, <2>2, <2>6 DEF Written, Broken, Least
    <3>2. u = Throw(w)
      BY <2>1, <2>2, <2>4, <3>1, Zenon DEF Write
    <3>3. /\ u \in Worlds /\ u.thrown
          /\ u.streams = w.streams /\ u.shutdown = w.shutdown /\ u.fd = w.fd /\ u.os = w.os
      BY <1>3, <3>2, ThrowIs
    <3>4. u.thrown = TRUE
      BY <3>3, WorldIs
    <3>5. PopFront(x, n) = x
      BY <3>1, Zenon DEF PopFront
    <3>6. v = u
      <4>1. PICK st : st = [u.streams EXCEPT ![s] = PopFront(@, n)]
        OBVIOUS
      <4>2. st = u.streams
        BY <1>2, <3>3, <3>5, <4>1, WorldIs
      <4>3. v = [u EXCEPT !.streams = st]
        BY <2>5, <4>1
      <4> QED BY <3>3, <4>2, <4>3, WorldIs, StreamsSet
    <3> QED BY <1>1, <1>2, <1>5, <2>6, <3>3, <3>4, <3>6, Zenon
  <2>7. CASE ~(f \in o.broken \/ room = 0)
    <3>1. n = Least(Len(peeked), room)
      BY <1>1, <1>2, <2>2, <2>7, Zenon DEF Written, Broken
    <3>2. /\ n \in Nat /\ n # 0 /\ n <= room
          /\ Substr(peeked, 0, n) = Bytes(x.totalPopped, n)
          /\ y \in Streams(Nat) /\ Tiled(y) /\ y.totalPopped = x.totalPopped + n
          /\ y.totalPushed = x.totalPushed /\ y.capacity_ = x.capacity_
          /\ y.isClosed = x.isClosed /\ y.error_ = x.error_
      BY <1>3, <1>5, <2>1, <2>3, <2>7, <3>1, FrontPart
    <3>3. PICK b \in Seq(Nat) : b = Bytes(x.totalPopped, n)
      BY <3>2, BytesRun, StreamFields
    <3>4. PICK r : r = RegisterWrite(w, f)
      OBVIOUS
    <3>5. /\ r \in Worlds /\ \A g \in Fds : g # f => r.fd[g] = w.fd[g]
          /\ r.fd[f].eof = w.fd[f].eof /\ r.fd[f].closed = w.fd[f].closed
          /\ r.fd[f].writes = w.fd[f].writes + 1 /\ r.fd[f].reads = w.fd[f].reads
          /\ r.streams = w.streams /\ r.shutdown = w.shutdown /\ r.os = o
          /\ r.thrown = w.thrown
      BY <1>1, <1>2, <1>3, <3>4, CountsWrite
    <3>6. u = [r EXCEPT !.os.held[f] = @ \o b]
      BY <2>2, <2>4, <3>2, <3>3, <3>4 DEF Write
    <3>7. PICK h : h = o.held[f] \o b /\ h \in Seq(Nat)
      <4>1. PICK h0 \in Seq(Nat) : h0 = o.held[f]
        BY KernelIs
      <4>2. h0 \o b \in Seq(Nat)
        BY ConcatProperties
      <4> QED BY <4>1, <4>2
    <3>8. PICK hv : hv = [o.held EXCEPT ![f] = h]
      OBVIOUS
    <3>9. PICK k : k = [o EXCEPT !.held = hv]
      OBVIOUS
    <3>10. u = [r EXCEPT !.os = k]
      BY <3>5, <3>6, <3>7, <3>8, <3>9
    <3>11. /\ k \in Kernels /\ k.held = hv /\ hv[f] = h
           /\ \A g \in Sinks : g # f => hv[g] = o.held[g]
           /\ k.given = o.given /\ k.avail = o.avail /\ k.got = o.got /\ k.ended = o.ended
           /\ k.broken = o.broken /\ k.wrShut = o.wrShut
      BY <3>7, <3>8, <3>9 DEF Kernels
    <3>12. /\ u \in Worlds /\ u.os = k
           /\ u.streams = r.streams /\ u.shutdown = r.shutdown /\ u.fd = r.fd
           /\ u.thrown = r.thrown
      BY <3>5, <3>10, <3>11, OsSet
    <3>13. PICK st : st = [u.streams EXCEPT ![s] = y]
      OBVIOUS
    <3>14. /\ st \in [Directions -> Streams(Nat)] /\ st[s] = y
           /\ \A z \in Directions : z # s => st[z] = w.streams[z]
      BY <3>2, <3>5, <3>12, <3>13, WorldIs
    <3>15. v = [u EXCEPT !.streams = st]
      BY <1>2, <2>3, <2>5, <3>5, <3>12, <3>13
    <3>16. /\ v \in Worlds /\ v.streams = st
           /\ v.shutdown = u.shutdown /\ v.fd = u.fd /\ v.os = u.os /\ v.thrown = u.thrown
      BY <3>12, <3>14, <3>15, StreamsSet
    <3>17. Aside(w, v)
      BY <1>2, <3>5, <3>11, <3>12, <3>16, Zenon DEF Aside
    <3>18. \A g \in Fds : v.fd[g].closed = w.fd[g].closed /\ v.fd[g].eof = w.fd[g].eof
      <4> TAKE g \in Fds
      <4>1. CASE g = f
        BY <3>5, <3>12, <3>16, <4>1, Zenon
      <4>2. CASE g # f
        BY <3>5, <3>12, <3>16, <4>2, Zenon
      <4> QED BY <4>1, <4>2
    <3>19. HasSent(w, v, s, y, n)
      <4>1. /\ \A g \in Sinks : g # Sink(s) => v.os.held[g] = w.os.held[g]
            /\ v.os.held[Sink(s)] = w.os.held[Sink(s)] \o Bytes(w.streams[s].totalPopped, n)
        BY <1>1, <1>2, <3>3, <3>7, <3>11, <3>12, <3>16, Zenon
      <4>2. v.fd[Sink(s)].writes = w.fd[Sink(s)].writes + 1
        BY <1>1, <3>5, <3>12, <3>16, Zenon
      <4>3. v.os.avail = w.os.avail /\ v.os.wrShut = w.os.wrShut
        BY <1>2, <3>11, <3>12, <3>16, Zenon
      <4>4. /\ v.shutdown = w.shutdown /\ v.streams[s] = y /\ v.thrown = w.thrown
            /\ \A t \in Directions : t # s => v.streams[t] = w.streams[t]
        BY <3>5, <3>12, <3>14, <3>16, Zenon
      <4> QED BY <3>17, <3>18, <4>1, <4>2, <4>3, <4>4, Zenon DEF HasSent
    <3>20. Sends(w, v, s, room)
      BY <1>2, <3>2, <3>19, Zenon DEF Sends
    <3> QED BY <1>1, <1>2, <1>5, <2>7, <3>20, Zenon
  <2> QED BY <2>6, <2>7
<1> QED BY <1>4, <1>5

\* Bytes that were sent one after the other are what was sent in one go.
LEMMA Rejoin ==
  ASSUME NEW a \in Seq(Nat), NEW b \in Seq(Nat), NEW c \in Seq(Nat)
  PROVE  (a \o b) \o c = a \o (b \o c)
BY ConcatAssociative, SMTT(30)

\* Some of the bytes of a stream go out: nothing is lost on the way.
LEMMA SentCarried ==
  ASSUME NEW s \in Directions, NEW o \in Kernels, NEW k \in Kernels,
         NEW x \in Streams(Nat), NEW y \in Streams(Nat), Carried(s, x, o), NEW n \in Nat,
         Tiled(y), y.totalPopped = x.totalPopped + n, y.totalPushed = x.totalPushed,
         y.capacity_ = x.capacity_, k.avail = o.avail, k.given = o.given, k.got = o.got,
         k.held[Sink(s)] = o.held[Sink(s)] \o Bytes(x.totalPopped, n)
  PROVE  Carried(s, y, k)
<1>1. PICK f \in Sinks : f = Sink(s)
  BY Names
<1>2. PICK g \in Seq(Nat), h \in Seq(Nat) : g = o.got[f] /\ h = o.held[f]
  BY KernelIs
<1>3. PICK p \in Nat : p = x.totalPopped
  BY StreamFields
<1>4. PICK b \in Seq(Nat) : b = Bytes(p, n)
  BY BytesRun
<1>5. g \o h = Bytes(0, p) /\ k.got[f] = g /\ k.held[f] = h \o b
  BY <1>1, <1>2, <1>3, <1>4, Zenon DEF Carried
<1>6. (g \o h) \o b = g \o (h \o b)
  BY Rejoin
<1>7. Bytes(0, p) \o Bytes(0 + p, n) = Bytes(0, p + n)
  BY BytesConcat
<1>8. 0 + p = p
  OBVIOUS
<1>9. k.got[f] \o k.held[f] = Bytes(0, y.totalPopped)
  BY <1>3, <1>4, <1>5, <1>6, <1>7, <1>8, Zenon
<1> QED BY <1>1, <1>9, Zenon DEF Carried

\* That much leaves the world in good order.
LEMMA SentSane ==
  ASSUME NEW w, Sane(w), NEW s \in Directions, NEW room \in Nat, room = Room(Sink(s), w.os),
         NEW n \in Nat, NEW y \in Streams(Nat), NEW v, HasSent(w, v, s, y, n), n <= room,
         Tiled(y), y.totalPopped = w.streams[s].totalPopped + n,
         y.totalPushed = w.streams[s].totalPushed, y.capacity_ = w.streams[s].capacity_,
         y.isClosed = w.streams[s].isClosed, y.error_ = w.streams[s].error_,
         w.streams[s].bytes_in_deck_ # 0
  PROVE  Sane(v) /\ Follows(w, v)
<1>1. PICK x \in Streams(Nat), o \in Kernels : x = w.streams[s] /\ o = w.os
  BY WorldIs DEF Sane
<1>2. PICK k \in Kernels : k = v.os
  <2>1. v \in Worlds
    BY Zenon DEF HasSent, Aside
  <2> QED BY <2>1, WorldIs
<1>3. /\ v \in Worlds /\ w \in Worlds /\ v.shutdown = w.shutdown /\ v.thrown = w.thrown
      /\ k.given = o.given /\ k.got = o.got /\ k.ended = o.ended /\ k.broken = o.broken
      /\ k.avail = o.avail /\ k.wrShut = o.wrShut /\ v.streams[s] = y
      /\ \A t \in Directions : t # s => v.streams[t] = w.streams[t]
  BY <1>1, <1>2, Zenon DEF HasSent, Aside, Sane
<1>4. /\ k.held[Sink(s)] = o.held[Sink(s)] \o Bytes(x.totalPopped, n)
      /\ \A g \in Sinks : g # Sink(s) => k.held[g] = o.held[g]
      /\ \A g \in Fds : v.fd[g].closed = w.fd[g].closed /\ v.fd[g].eof = w.fd[g].eof
  BY <1>1, <1>2, Zenon DEF HasSent
<1>5. \A t \in Directions : Carried(t, w.streams[t], o) /\ Ending(t, w)
  BY <1>1, Zenon DEF Sane
<1>6. x.deck_ # <<>>
  BY <1>1, <1>5, FrontFits DEF Carried
<1>7. \A t \in Directions : Tells(t, v.fd, v.os) = Tells(t, w.fd, w.os)
  BY <1>1, <1>2, <1>3, <1>4, Names, Zenon DEF Tells
<1>8. ~Tells(s, w.fd, w.os)
  BY <1>1, <1>5, <1>6, Zenon DEF Ending, IsFinished
<1>9. ASSUME NEW t \in Directions PROVE Carried(t, v.streams[t], k) /\ Ending(t, v)
  <2>1. Source(t) \in Fds
    BY Names
  <2>2. CASE t = s
    <3>1. Carried(s, y, k)
      BY <1>1, <1>3, <1>4, <1>5, SentCarried
    <3>2. Ending(s, v)
      <4>1. v.fd[Source(s)].eof = w.fd[Source(s)].eof
        BY <1>4, <2>1, <2>2, Zenon
      <4>2. ~Tells(s, v.fd, v.os)
        BY <1>7, <1>8, Zenon
      <4>3. v.os.ended = w.os.ended /\ v.os.avail = w.os.avail
        BY <1>1, <1>2, <1>3, Zenon
      <4> QED BY <1>1, <1>3, <1>5, <1>7, <4>1, <4>2, <4>3 DEF Ending
    <3> QED BY <1>3, <2>2, <3>1, <3>2
  <2>3. CASE t # s
    <3>1. Sink(t) # Sink(s) /\ Sink(t) \in Sinks
      BY <2>3, Names
    <3>2. k.held[Sink(t)] = o.held[Sink(t)] /\ v.streams[t] = w.streams[t]
      BY <1>3, <1>4, <2>3, <3>1
    <3>3. Carried(t, v.streams[t], k)
      BY <1>3, <1>5, <3>2, Zenon DEF Carried
    <3>4. Ending(t, v)
      <4>1. v.fd[Source(t)].eof = w.fd[Source(t)].eof
        BY <1>4, <2>1, Zenon
      <4>2. v.os.ended = w.os.ended /\ v.os.avail = w.os.avail
        BY <1>1, <1>2, <1>3, Zenon
      <4> QED BY <1>3, <1>5, <1>7, <3>2, <4>1, <4>2 DEF Ending
    <3> QED BY <3>3, <3>4
  <2> QED BY <2>2, <2>3
<1>10. Bounds(k)
  <2>1. Bounds(o)
    BY <1>1, Zenon DEF Sane
  <2>2. PICK f \in Sinks : f = Sink(s)
    BY Names
  <2>3. Len(k.held[f]) <= WriteRoom
    <3>1. PICK h \in Seq(Nat) : h = o.held[f]
      BY KernelIs
    <3>2. PICK b \in Seq(Nat) : b = Bytes(x.totalPopped, n) /\ Len(b) = n
      BY StreamFields, BytesRun
    <3>3. Len(h \o b) = Len(h) + Len(b) /\ Len(h) \in Nat
      BY ConcatProperties
    <3>4. room = WriteRoom - Len(h) /\ WriteRoom \in Nat
      BY <1>1, <2>2, <3>1, StreamCopyAssumption DEF Room
    <3>5. Len(h) + n <= WriteRoom
      BY <3>3, <3>4
    <3> QED BY <1>4, <2>2, <3>1, <3>2, <3>3, <3>5
  <2>4. \A g \in Sinks : Len(k.held[g]) <= WriteRoom
    <3> TAKE g \in Sinks
    <3>1. CASE g = f
      BY <2>3, <3>1
    <3>2. CASE g # f
      BY <1>4, <2>1, <2>2, <3>2, Zenon DEF Bounds
    <3> QED BY <3>1, <3>2
  <2> QED BY <1>3, <2>1, <2>4, Zenon DEF Bounds
<1>11. \A t \in Directions : v.streams[t].error_ = w.streams[t].error_
                             /\ (w.streams[t].isClosed => v.streams[t].isClosed)
  BY <1>3, Zenon
<1>12. Sane(v)
  <2>1. v.streams["outbound"].error_ = v.streams["inbound"].error_
    BY <1>11, Names, Zenon DEF Sane
  <2>2. ~v.fd["socket"].closed /\ ~v.fd["stdin"].closed
    BY <1>4, Names, Zenon DEF Sane
  <2> QED BY <1>2, <1>3, <1>9, <1>10, <2>1, <2>2, Zenon DEF Sane
<1>13. Follows(w, v)
  <2>1. Aside(w, v)
    BY Zenon DEF HasSent
  <2> QED BY <1>7, <1>11, <2>1, Zenon DEF Follows
<1> QED BY <1>12, <1>13

\* Passing the end on: v is w, and the sink of s was told of it, if it is not broken.
HasTold(w, v, s) ==
  /\ Aside(w, v) /\ v.streams = w.streams /\ v.os.avail = w.os.avail /\ v.os.held = w.os.held
  /\ v.shutdown[s] /\ \A t \in Directions : t # s => v.shutdown[t] = w.shutdown[t]
  /\ \A g \in Sources : v.fd[g].closed = w.fd[g].closed /\ v.fd[g].eof = w.fd[g].eof
  /\ \A t \in Directions : t # s => Tells(t, v.fd, v.os) = Tells(t, w.fd, w.os)
  /\ Tells(s, w.fd, w.os) => Tells(s, v.fd, v.os)
  /\ v.thrown \/ Tells(s, v.fd, v.os)
  /\ w.thrown => v.thrown
  /\ v.thrown => w.thrown \/ Sink(s) \in w.os.broken
  /\ \/ Sink(s) \in w.os.broken \/ v.fd[Sink(s)].closed
     \/ v.fd[Sink(s)].writes = w.fd[Sink(s)].writes + 1

LEMMA FinishIs ==
  ASSUME NEW w \in Worlds, NEW s \in Directions, NEW v, v = Finish(s, w)
  PROVE  HasTold(w, v, s)
<1>1. PICK u : u = IF s = "outbound" THEN ShutWr(w) ELSE CloseFd(w, "stdout")
  OBVIOUS
<1>2. v = [u EXCEPT !.shutdown[s] = TRUE]
  BY <1>1, Zenon DEF Finish
<1>3. PICK x : x = [u.shutdown EXCEPT ![s] = TRUE]
  OBVIOUS
<1>4. v = [u EXCEPT !.shutdown = x]
  BY <1>2, <1>3
<1>5. ASSUME u \in Worlds
      PROVE  /\ v \in Worlds /\ v.shutdown[s]
             /\ \A t \in Directions : t # s => v.shutdown[t] = u.shutdown[t]
             /\ v.streams = u.streams /\ v.fd = u.fd /\ v.os = u.os /\ v.thrown = u.thrown
  <2>1. /\ x \in [Directions -> BOOLEAN] /\ x[s]
        /\ \A t \in Directions : t # s => x[t] = u.shutdown[t]
    BY <1>3, <1>5, WorldIs
  <2>2. /\ v \in Worlds /\ v.shutdown = x
        /\ v.streams = u.streams /\ v.fd = u.fd /\ v.os = u.os /\ v.thrown = u.thrown
    BY <1>4, <1>5, <2>1, ShutdownSet
  <2> QED BY <2>1, <2>2, Zenon
<1>6. CASE s = "outbound" /\ "socket" \in w.os.broken
  <2>1. u = Throw(w)
    BY <1>1, <1>6, Zenon DEF ShutWr, Broken
  <2>2. /\ u \in Worlds /\ u.thrown
        /\ u.streams = w.streams /\ u.shutdown = w.shutdown /\ u.fd = w.fd /\ u.os = w.os
    BY <2>1, ThrowIs
  <2>3. Sink(s) \in w.os.broken
    BY <1>6, Names
  <2> QED BY <1>5, <2>2, <2>3, Zenon DEF HasTold, Aside
<1>7. CASE s = "outbound" /\ "socket" \notin w.os.broken
  <2>1. PICK r : r = RegisterWrite(w, "socket")
    OBVIOUS
  <2>2. /\ r \in Worlds /\ \A g \in Fds : g # "socket" => r.fd[g] = w.fd[g]
        /\ r.fd["socket"].eof = w.fd["socket"].eof /\ r.fd["socket"].closed = w.fd["socket"].closed
        /\ r.fd["socket"].writes = w.fd["socket"].writes + 1
        /\ r.streams = w.streams /\ r.shutdown = w.shutdown /\ r.os = w.os /\ r.thrown = w.thrown
    <3>1. PICK f \in Fds : f = "socket"
      BY Names
    <3>2. /\ r \in Worlds /\ \A g \in Fds : g # f => r.fd[g] = w.fd[g]
          /\ r.fd[f].eof = w.fd[f].eof /\ r.fd[f].closed = w.fd[f].closed
          /\ r.fd[f].writes = w.fd[f].writes + 1
          /\ r.streams = w.streams /\ r.shutdown = w.shutdown /\ r.os = w.os
          /\ r.thrown = w.thrown
      <4>1. r = RegisterWrite(w, f)
        BY <2>1, <3>1
      <4> QED BY <4>1, CountsWrite
    <3> QED BY <3>1, <3>2
  <2>3. PICK k : k = [w.os EXCEPT !.wrShut = TRUE]
    OBVIOUS
  <2>4. u = [r EXCEPT !.os = k]
    <3>1. u = [r EXCEPT !.os.wrShut = TRUE]
      BY <1>1, <1>7, <2>1, Zenon DEF ShutWr, Broken
    <3> QED BY <2>2, <2>3, <3>1
  <2>5. /\ k \in Kernels /\ k.wrShut /\ k.avail = w.os.avail /\ k.given = w.os.given
        /\ k.held = w.os.held /\ k.got = w.os.got /\ k.ended = w.os.ended
        /\ k.broken = w.os.broken
    <3>1. w.os \in Kernels
      BY WorldIs
    <3> QED BY <2>3, <3>1, WrShutSet
  <2>6. /\ u \in Worlds /\ u.os = k
        /\ u.streams = r.streams /\ u.shutdown = r.shutdown /\ u.fd = r.fd /\ u.thrown = r.thrown
    BY <2>2, <2>4, <2>5, OsSet
  <2>7. \A g \in Fds : u.fd[g].closed = w.fd[g].closed /\ u.fd[g].eof = w.fd[g].eof
    <3> TAKE g \in Fds
    <3>1. CASE g = "socket"
      BY <2>2, <2>6, <3>1, Zenon
    <3>2. CASE g # "socket"
      BY <2>2, <2>6, <3>2, Zenon
    <3> QED BY <3>1, <3>2
  <2>8. Tells(s, v.fd, v.os)
    BY <1>5, <1>7, <2>5, <2>6, Zenon DEF Tells
  <2>9. \A t \in Directions : t # s => Tells(t, v.fd, v.os) = Tells(t, w.fd, w.os)
    BY <1>5, <1>7, <2>6, <2>7, Names DEF Tells
  <2>10. v.fd[Sink(s)].writes = w.fd[Sink(s)].writes + 1
    BY <1>5, <1>7, <2>2, <2>6, Names
  <2>11. Aside(w, v) /\ v.streams = w.streams /\ v.os.avail = w.os.avail /\ v.os.held = w.os.held
    BY <1>5, <2>2, <2>5, <2>6, Zenon DEF Aside
  <2>12. \A g \in Sources : v.fd[g].closed = w.fd[g].closed /\ v.fd[g].eof = w.fd[g].eof
    <3>1. \A g \in Sources : g \in Fds
      BY Names
    <3> QED BY <1>5, <2>6, <2>7, <3>1, Zenon
  <2>13. v.shutdown[s] /\ \A t \in Directions : t # s => v.shutdown[t] = w.shutdown[t]
    BY <1>5, <2>2, <2>6
  <2>14. v.thrown = w.thrown
    BY <1>5, <2>2, <2>6
  <2> QED BY <2>8, <2>9, <2>10, <2>11, <2>12, <2>13, <2>14, Zenon DEF HasTold
<1>8. CASE s # "outbound"
  <2>1. u = [w EXCEPT !.fd["stdout"].eof = TRUE, !.fd["stdout"].closed = TRUE]
    BY <1>1, <1>8, Zenon DEF CloseFd
  <2>2. PICK e : e = [w.fd["stdout"] EXCEPT !.eof = TRUE, !.closed = TRUE]
    OBVIOUS
  <2>3. PICK d : d = [w.fd EXCEPT !["stdout"] = e]
    OBVIOUS
  <2>4. w.fd \in [Fds -> FdStates] /\ "stdout" \in Fds /\ w.fd["stdout"] \in FdStates
    BY WorldIs, Names
  <2>5. e \in FdStates /\ e.closed
    BY <2>2, <2>4 DEF FdStates
  <2>6. u = [w EXCEPT !.fd = d]
    BY <2>1, <2>2, <2>3, <2>4 DEF Worlds, FdStates
  <2>7. d \in [Fds -> FdStates] /\ d["stdout"] = e /\ \A g \in Fds : g # "stdout" => d[g] = w.fd[g]
    BY <2>3, <2>4, <2>5
  <2>8. /\ u \in Worlds /\ u.fd = d
        /\ u.streams = w.streams /\ u.shutdown = w.shutdown /\ u.os = w.os /\ u.thrown = w.thrown
    BY <2>6, <2>7, FdSet
  <2>9. s = "inbound" /\ Sink(s) = "stdout"
    BY <1>8, Names
  <2>10. v.fd["stdout"].closed
    BY <1>5, <2>5, <2>7, <2>8, Zenon
  <2>11. Tells(s, v.fd, v.os)
    BY <1>8, <2>10, Zenon DEF Tells
  <2>12. \A t \in Directions : t # s => Tells(t, v.fd, v.os) = Tells(t, w.fd, w.os)
    BY <1>5, <2>8, <2>9, Names, Zenon DEF Tells
  <2>13. \A g \in Sources : g \in Fds /\ g # "stdout"
    BY DEF Sources, Fds, Sinks
  <2>14. \A g \in Sources : v.fd[g].closed = w.fd[g].closed /\ v.fd[g].eof = w.fd[g].eof
    BY <1>5, <2>7, <2>8, <2>13, Zenon
  <2>15. Aside(w, v) /\ v.streams = w.streams /\ v.os.avail = w.os.avail /\ v.os.held = w.os.held
    BY <1>5, <2>8, Zenon DEF Aside
  <2>16. v.shutdown[s] /\ \A t \in Directions : t # s => v.shutdown[t] = w.shutdown[t]
    BY <1>5, <2>8, Zenon
  <2> QED BY <1>5, <2>8, <2>9, <2>10, <2>11, <2>12, <2>14, <2>15, <2>16, Zenon DEF HasTold
<1> QED BY <1>6, <1>7, <1>8

\* A system call that throws changes nothing else.
LEMMA ThrownSane ==
  ASSUME NEW w, Sane(w), NEW v \in Worlds, v.thrown = TRUE,
         v.streams = w.streams, v.shutdown = w.shutdown, v.fd = w.fd, v.os = w.os
  PROVE  Sane(v) /\ Follows(w, v)
<1>1. \A t \in Directions : Ending(t, v)
  BY Zenon DEF Sane, Ending
<1> QED BY <1>1, Zenon DEF Sane, Follows, Aside

LEMMA ToldSane ==
  ASSUME NEW w, Sane(w), NEW s \in Directions, IsFinished(w.streams[s]), NEW v, HasTold(w, v, s)
  PROVE  Sane(v) /\ Follows(w, v)
<1>1. /\ v \in Worlds /\ v.streams = w.streams /\ v.os.avail = w.os.avail
      /\ v.os.held = w.os.held /\ v.os.given = w.os.given /\ v.os.got = w.os.got
      /\ v.os.ended = w.os.ended /\ v.os.broken = w.os.broken
  BY Zenon DEF HasTold, Aside
<1>2. ASSUME NEW t \in Directions PROVE Carried(t, v.streams[t], v.os) /\ Ending(t, v)
  <2>1. Carried(t, w.streams[t], w.os) /\ Ending(t, w)
    BY Zenon DEF Sane
  <2>2. v.fd[Source(t)].eof = w.fd[Source(t)].eof
    BY Names DEF HasTold
  <2>3. Tells(t, v.fd, v.os) => v.shutdown[t] /\ IsFinished(v.streams[t])
    <3>1. CASE t = s
      BY <1>1, <3>1, Zenon DEF HasTold
    <3>2. CASE t # s
      BY <1>1, <2>1, <3>2, Zenon DEF HasTold, Ending
    <3> QED BY <3>1, <3>2
  <2>4. v.shutdown[t] /\ ~v.thrown => Tells(t, v.fd, v.os)
    <3>1. CASE t = s
      BY <3>1, Zenon DEF HasTold
    <3>2. CASE t # s
      BY <2>1, <3>2, Zenon DEF HasTold, Ending
    <3> QED BY <3>1, <3>2
  <2>5. Ending(t, v)
    BY <1>1, <2>1, <2>2, <2>3, <2>4, Zenon DEF Ending
  <2>6. Carried(t, v.streams[t], v.os)
    BY <1>1, <2>1, Zenon DEF Carried
  <2> QED BY <2>5, <2>6
<1>3. Bounds(v.os)
  BY <1>1, Zenon DEF Sane, Bounds
<1>4. ~v.fd["socket"].closed /\ ~v.fd["stdin"].closed
  BY Zenon DEF Sane, HasTold, Sources
<1>5. Sane(v)
  BY <1>1, <1>2, <1>3, <1>4, Zenon DEF Sane
<1>6. \A t \in Directions : Tells(t, w.fd, w.os) => Tells(t, v.fd, v.os)
  <2> TAKE t \in Directions
  <2>1. CASE t = s
    BY <2>1, Zenon DEF HasTold
  <2>2. CASE t # s
    BY <2>2, Zenon DEF HasTold
  <2> QED BY <2>1, <2>2
<1>7. Follows(w, v)
  <2>1. Aside(w, v)
    BY Zenon DEF HasTold
  <2> QED BY <1>1, <1>6, <2>1, Zenon DEF Follows
<1> QED BY <1>5, <1>7

\* The room of a sink is never negative.
LEMMA RoomIn ==
  ASSUME NEW o \in Kernels, Bounds(o), NEW f \in Sinks
  PROVE  Room(f, o) \in Nat
<1>1. PICK h \in Seq(Nat) : h = o.held[f]
  BY KernelIs
<1>2. Len(h) \in Nat /\ Len(h) <= WriteRoom /\ WriteRoom \in Nat
  BY <1>1, EmptyLen, StreamCopyAssumption DEF Bounds
<1>3. WriteRoom - Len(h) \in Nat
  BY <1>2
<1> QED BY <1>1, <1>3 DEF Room

\* Emptying a stream keeps the world in good order.  It throws only for a broken sink or one
\* without room, and otherwise it has written or closed when there was something to do.
LEMMA EmptyIs ==
  ASSUME NEW w, Sane(w), NEW s \in Directions, NEW v, v = Empty(s, w)
  PROVE  /\ Sane(v) /\ Follows(w, v)
         /\ v.thrown => \/ w.thrown \/ Sink(s) \in w.os.broken
                        \/ w.streams[s].bytes_in_deck_ # 0 /\ Room(Sink(s), w.os) = 0
         /\ \/ Sink(s) \in w.os.broken \/ ~HasBytes(s, w)
            \/ w.streams[s].bytes_in_deck_ # 0 /\ Room(Sink(s), w.os) = 0
            \/ v.fd[Sink(s)].writes # w.fd[Sink(s)].writes \/ v.fd[Sink(s)].closed
<1>1. PICK f : f = Sink(s) /\ f \in Sinks /\ f \in Fds
  BY Names
<1>2. PICK room \in Nat : room = Room(f, w.os)
  BY <1>1, RoomIn, WorldIs DEF Sane
<1>3. PICK e : e = Emptied(s, w)
  OBVIOUS
<1>4. PICK x : x = w.streams[s] /\ x \in Streams(Nat) /\ Tiled(x) /\ w \in Worlds
  BY WorldIs DEF Sane, Carried
<1>5. PICK c \in Nat : c = w.fd[f].writes
  BY <1>1, <1>4, WorldIs DEF FdStates
<1>6. /\ Sane(e) /\ Follows(w, e) /\ e.os.avail = w.os.avail
      /\ e.thrown => w.thrown \/ f \in w.os.broken \/ (x.bytes_in_deck_ # 0 /\ room = 0)
      /\ x.bytes_in_deck_ = 0 => e = w
      /\ x.bytes_in_deck_ # 0 => f \in w.os.broken \/ room = 0 \/ e.fd[f].writes = c + 1
  <2>1. CASE x.bytes_in_deck_ = 0
    <3>1. e = w
      BY <1>1, <1>2, <1>3, <1>4, <2>1, EmptiedIs
    <3>2. Follows(w, w)
      BY <1>4, Zenon DEF Follows, Aside
    <3> QED BY <2>1, <3>1, <3>2, Zenon
  <2>2. CASE x.bytes_in_deck_ # 0 /\ (f \in w.os.broken \/ room = 0)
    <3>1. /\ e \in Worlds /\ e.thrown = TRUE
          /\ e.streams = w.streams /\ e.shutdown = w.shutdown /\ e.fd = w.fd /\ e.os = w.os
      <4>1. /\ w.streams[s].bytes_in_deck_ # 0 /\ (Sink(s) \in w.os.broken \/ room = 0)
            /\ room = Room(Sink(s), w.os)
        BY <1>1, <1>2, <1>4, <2>2, Zenon
      <4>2. room \in Nat
        BY <1>2
      <4>3. \A r \in Nat : r = Room(Sink(s), w.os) =>
              (w.streams[s].bytes_in_deck_ # 0 /\ (Sink(s) \in w.os.broken \/ r = 0) =>
                 /\ e \in Worlds /\ e.thrown = TRUE
                 /\ e.streams = w.streams /\ e.shutdown = w.shutdown /\ e.fd = w.fd
                 /\ e.os = w.os)
        BY <1>3, EmptiedIs, ZenonT(40)
      <4> QED BY <4>1, <4>2, <4>3, Zenon
    <3>2. Sane(e) /\ Follows(w, e)
      BY <3>1, ThrownSane
    <3> QED BY <2>2, <3>1, <3>2, Zenon
  <2>3. CASE x.bytes_in_deck_ # 0 /\ ~(f \in w.os.broken \/ room = 0)
    <3>1. PICK n \in Nat, y \in Streams(Nat) :
                /\ n <= room /\ HasSent(w, e, s, y, n)
                /\ Tiled(y) /\ y.totalPopped = w.streams[s].totalPopped + n
                /\ y.totalPushed = w.streams[s].totalPushed
                /\ y.capacity_ = w.streams[s].capacity_
                /\ y.isClosed = w.streams[s].isClosed /\ y.error_ = w.streams[s].error_
      <4>1. Sends(w, e, s, room)
        BY <1>1, <1>2, <1>3, <1>4, <2>3, EmptiedIs
      <4> QED BY <4>1, Zenon DEF Sends
    <3>2. Sane(e) /\ Follows(w, e)
      BY <1>1, <1>2, <1>4, <2>3, <3>1, SentSane
    <3>3. e.os.avail = w.os.avail /\ e.thrown = w.thrown /\ e.fd[f].writes = w.fd[f].writes + 1
      BY <1>1, <3>1, Zenon DEF HasSent
    <3> QED BY <1>5, <2>3, <3>2, <3>3, Zenon
  <2> QED BY <2>1, <2>2, <2>3
<1>7. v = IF IsFinished(e.streams[s]) THEN Finish(s, e) ELSE e
  BY <1>3, EmptySplit
<1>8. HasBytes(s, w) /\ x.bytes_in_deck_ = 0 => IsFinished(w.streams[s])
  BY <1>4 DEF HasBytes, BytesBuffered
<1>9. e.os.broken = w.os.broken /\ e.fd[f].writes \in Nat
  <2>1. e \in Worlds /\ e.os.broken = w.os.broken
    BY <1>6, Zenon DEF Follows, Aside
  <2> QED BY <1>1, <2>1, WorldIs DEF FdStates
<1>10. CASE ~IsFinished(e.streams[s])
  <2>1. v = e
    BY <1>7, <1>10, Zenon
  <2>2. c + 1 # c
    BY <1>5
  <2>3. \/ f \in w.os.broken \/ ~HasBytes(s, w)
        \/ x.bytes_in_deck_ # 0 /\ room = 0
        \/ v.fd[f].writes # c
    BY <1>4, <1>6, <1>8, <1>10, <2>1, <2>2, Zenon
  <2> QED BY <1>1, <1>2, <1>4, <1>5, <1>6, <2>1, <2>3, Zenon
<1>11. CASE IsFinished(e.streams[s])
  <2>1. v = Finish(s, e) /\ e \in Worlds
    BY <1>6, <1>7, <1>11, Zenon DEF Sane
  <2>2. HasTold(e, v, s)
    BY <2>1, FinishIs
  <2>3. Sane(v) /\ Follows(e, v)
    BY <1>6, <1>11, <2>2, ToldSane
  <2>4. v.os.avail = w.os.avail
    BY <1>6, <2>2, Zenon DEF HasTold
  <2>5. Follows(w, v)
    BY <1>6, <2>3, <2>4, Zenon DEF Follows, Aside
  <2>6. v.thrown => w.thrown \/ f \in w.os.broken \/ (x.bytes_in_deck_ # 0 /\ room = 0)
    BY <1>1, <1>6, <1>9, <2>2, Zenon DEF HasTold
  <2>7. f \in w.os.broken \/ v.fd[f].closed \/ v.fd[f].writes = e.fd[f].writes + 1
    BY <1>1, <1>9, <2>2, Zenon DEF HasTold
  <2>8. \/ f \in w.os.broken \/ (x.bytes_in_deck_ # 0 /\ room = 0)
        \/ v.fd[f].writes # c \/ v.fd[f].closed
    <3>1. c + 1 # c /\ (c + 1) + 1 # c
      BY <1>5
    <3>2. e = w => e.fd[f].writes = c
      BY <1>5
    <3> QED BY <1>6, <2>7, <3>1, <3>2, Zenon
  <2> QED BY <1>1, <1>2, <1>4, <1>5, <2>3, <2>5, <2>6, <2>8, Zenon
<1> QED BY <1>10, <1>11

-----------------------------------------------------------------------------
(* The loop after poll().                                                  *)

\* A rule that is dropped leaves its stream closed, and if it was to empty it, either there
\* is an error or the sink has been told.
Gone(r, v) ==
  /\ v.streams[r.stream].isClosed
  /\ r.does = "empty" => v.streams[r.stream].error_ \/ Tells(r.stream, v.fd, v.os)

LEMMA RuleIs ==
  ASSUME NEW r \in RuleSet
  PROVE  /\ r.stream \in Directions /\ r.does \in {"fill", "empty"} /\ r = Rule(r.does, r.stream)
         /\ r.does = "fill" => DirectionOf(r) = "In" /\ FdOf(r) = Source(r.stream)
         /\ r.does = "empty" => DirectionOf(r) = "Out" /\ FdOf(r) = Sink(r.stream)
         /\ DirectionOf(r) = "Out" => r.does = "empty"
BY DEF RuleSet, Rule, DirectionOf, FdOf

\* An entry that is dropped.
LEMMA DropOne ==
  ASSUME NEW w, Sane(w), NEW r \in RuleSet, NEW p, p.rule = r,
         p.events \subseteq {DirectionOf(r)}, Reported(p, w.os), Poller!Dropped(p),
         NEW v, v = Poller!ServeEntry(p, w)
  PROVE  Sane(v) /\ Cut(w, v, r.stream, Poller!Failed(p)) /\ Gone(r, v)
<1>1. PICK s \in Directions : s = r.stream
  BY RuleIs
<1>2. w \in Worlds /\ Ending(s, w)
  BY Zenon DEF Sane
<1>3. CASE Poller!Failed(p)
  <2>1. v = OnCancel(r, OnError(r, w))
    BY <1>3 DEF Poller!ServeEntry
  <2>2. Cut(w, v, s, TRUE)
    BY <1>1, <1>2, <2>1, ErrorThenCancel
  <2>3. Sane(v)
    <3>1. PICK b \in BOOLEAN : b = TRUE
      OBVIOUS
    <3>2. b /\ Cut(w, v, s, b)
      BY <2>2, <3>1
    <3> QED BY <3>2, CutSane
  <2>4. Poller!Failed(p) = TRUE
    BY <1>3 DEF Poller!Failed
  <2>5. v.streams[s].isClosed /\ v.streams[s].error_
    BY <2>2 DEF Cut, Cuts
  <2> QED BY <1>1, <2>2, <2>3, <2>4, <2>5 DEF Gone
<1>4. CASE ~Poller!Failed(p)
  <2>1. Poller!HungUp(p)
    BY <1>4 DEF Poller!Dropped
  <2>2. v = OnCancel(r, w)
    BY <1>4, <2>1 DEF Poller!ServeEntry
  <2>3. Cut(w, v, s, FALSE)
    BY <1>1, <1>2, <2>2, CancelCuts
  <2>4. /\ FdOf(r) = "stdin" \/ (FdOf(r) = "socket" /\ w.os.wrShut)
        /\ FdOf(r) \in w.os.ended
        /\ "In" \in p.events /\ "In" \notin p.revents => w.os.avail[FdOf(r)] = <<>>
    BY <1>4, <2>1 DEF Reported, Poller!HungUp, Poller!Failed
  <2>5. /\ r.does = "empty" => w.streams[s].isClosed /\ Tells(s, w.fd, w.os)
        /\ r.does = "fill" => Source(s) \in w.os.ended /\ w.os.avail[Source(s)] = <<>>
    <3>1. CASE r.does = "empty"
      <4>1. FdOf(r) = Sink(s)
        BY <1>1, <3>1, RuleIs
      <4>2. s = "outbound" /\ w.os.wrShut
        BY <2>4, <4>1, Names
      <4>3. Tells(s, w.fd, w.os)
        BY <4>2 DEF Tells
      <4> QED BY <1>2, <3>1, <4>3 DEF Ending, IsFinished
    <3>2. CASE r.does = "fill"
      <4>1. FdOf(r) = Source(s) /\ DirectionOf(r) = "In"
        BY <1>1, <3>2, RuleIs
      <4>2. "In" \in p.events /\ "In" \notin p.revents
        BY <2>1, <4>1 DEF Poller!HungUp, Poller!Ready
      <4> QED BY <2>4, <3>2, <4>1, <4>2
    <3> QED BY <3>1, <3>2, RuleIs
  <2>6. Sane(v)
    <3>1. PICK b \in BOOLEAN : b = FALSE
      OBVIOUS
    <3>2. Cut(w, v, s, b)
      BY <2>3, <3>1
    <3>3. w.streams[s].isClosed \/ (Source(s) \in w.os.ended /\ w.os.avail[Source(s)] = <<>>)
      BY <2>5, RuleIs
    <3> QED BY <3>2, <3>3, CutSane
  <2>7. Poller!Failed(p) = FALSE
    BY <1>4 DEF Poller!Failed
  <2>8. v.streams[s].isClosed /\ v.fd = w.fd /\ v.os = w.os
    BY <2>3 DEF Cut, Cuts
  <2>9. Gone(r, v)
    BY <1>1, <2>5, <2>8 DEF Gone
  <2> QED BY <1>1, <2>3, <2>6, <2>7, <2>9
<1> QED BY <1>3, <1>4

\* v is w after some rules have been dropped.
Drops(w, v) ==
  /\ Sane(v) /\ v.shutdown = w.shutdown /\ v.fd = w.fd /\ v.os = w.os /\ v.thrown = w.thrown
  /\ \A t \in Directions :
       /\ v.streams[t].capacity_ = w.streams[t].capacity_
       /\ v.streams[t].deck_ = w.streams[t].deck_
       /\ v.streams[t].bytes_in_deck_ = w.streams[t].bytes_in_deck_
       /\ w.streams[t].isClosed => v.streams[t].isClosed
       /\ w.streams[t].error_ => v.streams[t].error_

LEMMA CutDrops ==
  ASSUME NEW w, NEW u, Drops(w, u), NEW v, Sane(v), NEW s \in Directions, NEW b, Cut(u, v, s, b)
  PROVE  Drops(w, v)
<1> SUFFICES ASSUME NEW t \in Directions
             PROVE  /\ v.streams[t].capacity_ = w.streams[t].capacity_
                    /\ v.streams[t].deck_ = w.streams[t].deck_
                    /\ v.streams[t].bytes_in_deck_ = w.streams[t].bytes_in_deck_
                    /\ w.streams[t].isClosed => v.streams[t].isClosed
                    /\ w.streams[t].error_ => v.streams[t].error_
  BY Zenon DEF Drops, Cut
<1>1. Cuts(u.streams[t], v.streams[t], t = s, b)
  BY Zenon DEF Cut
<1>2. /\ v.streams[t].capacity_ = u.streams[t].capacity_
      /\ v.streams[t].deck_ = u.streams[t].deck_
      /\ v.streams[t].bytes_in_deck_ = u.streams[t].bytes_in_deck_
      /\ u.streams[t].isClosed => v.streams[t].isClosed
      /\ u.streams[t].error_ => v.streams[t].error_
  BY <1>1 DEF Cuts
<1> QED BY <1>2, Zenon DEF Drops

\* What is left of a rule that is gone stays so.
LEMMA GoneStays ==
  ASSUME NEW r \in RuleSet, NEW w, Gone(r, w), NEW v, Drops(w, v) \/ Follows(w, v)
  PROVE  Gone(r, v)
<1>1. PICK s \in Directions : s = r.stream
  BY RuleIs
<1>2. CASE Drops(w, v)
  BY <1>1, <1>2, Zenon DEF Gone, Drops
<1>3. CASE Follows(w, v)
  BY <1>1, <1>3, Zenon DEF Gone, Follows
<1> QED BY <1>2, <1>3

\* The entries poll() has filled in, for rules.
Served(pollfds, rules, w) ==
  /\ rules \in Seq(RuleSet) /\ Sorted(rules) /\ Len(pollfds) = Len(rules)
  /\ \A i \in 1 .. Len(rules) : Asks(pollfds[i], rules[i], w) /\ Reported(pollfds[i], w.os)

\* The world after the first i entries, when none of them is served: the dropped ones are
\* gone, and no other rule has closed a stream.
Dropping(pollfds, rules, w, v, i) ==
  /\ Drops(w, v)
  /\ \A j \in 1 .. i : Poller!Dropped(pollfds[j]) => Gone(rules[j], v)
  /\ \A t \in Directions :
       v.streams[t].isClosed =>
         w.streams[t].isClosed \/ \E j \in 1 .. i : rules[j].stream = t

LEMMA DroppingOn ==
  ASSUME NEW w, Sane(w), NEW pollfds, NEW rules, Served(pollfds, rules, w),
         NEW m \in Nat, m <= Len(rules), \A i \in 1 .. m : ~Serves(pollfds[i]),
         NEW g, g[0] = w, \A i \in 1 .. m : g[i] = Poller!ServeEntry(pollfds[i], g[i - 1])
  PROVE  Dropping(pollfds, rules, w, g[m], m)
<1> DEFINE T == {i \in 0 .. m : Dropping(pollfds, rules, w, g[i], i)}
<1>1. 0 \in T
  <2>1. Drops(w, w)
    BY Zenon DEF Drops
  <2>2. Dropping(pollfds, rules, w, w, 0)
    BY <2>1 DEF Dropping
  <2>3. 0 \in 0 .. m
    OBVIOUS
  <2> QED BY <2>2, <2>3
<1>2. ASSUME NEW i \in 1 .. m, i - 1 \in T
      PROVE  i \in T
  <2>1. PICK k : k = i - 1 /\ k \in Nat /\ i \in Nat /\ i \in 1 .. Len(rules) /\ i \in 0 .. m
    <3>1. Len(rules) \in Nat
      BY EmptyLen DEF Served
    <3> QED BY <3>1
  <2>2. PICK u : u = g[k]
    OBVIOUS
  <2>3. Dropping(pollfds, rules, w, u, k)
    BY <1>2, <2>1, <2>2
  <2>4. PICK v : v = g[i] /\ v = Poller!ServeEntry(pollfds[i], u)
    BY <2>1, <2>2
  <2>5. PICK p, r : p = pollfds[i] /\ r = rules[i]
    OBVIOUS
  <2>6. /\ r \in RuleSet /\ p.rule = r /\ p.events \subseteq {DirectionOf(r)}
        /\ Reported(p, w.os) /\ ~Serves(p)
    <3>1. r \in RuleSet /\ Asks(p, r, w) /\ Reported(p, w.os)
      BY <2>1, <2>5 DEF Served
    <3>2. p.rule = r /\ p.events \subseteq {DirectionOf(r)}
      BY <3>1 DEF Asks
    <3> QED BY <1>2, <2>5, <3>1, <3>2
  <2>7. Drops(w, u) /\ Sane(u) /\ u.os = w.os
    BY <2>3, Zenon DEF Dropping, Drops
  <2>8. CASE Poller!Dropped(p)
    <3>1. Sane(v) /\ Cut(u, v, r.stream, Poller!Failed(p)) /\ Gone(r, v)
      BY <2>4, <2>5, <2>6, <2>7, <2>8, DropOne
    <3>2. PICK s, b : s \in Directions /\ s = r.stream /\ Cut(u, v, s, b)
      BY <2>6, <3>1, RuleIs
    <3>3. Drops(u, u)
      BY <2>7, Zenon DEF Drops
    <3>4. Drops(w, v) /\ Drops(u, v)
      BY <2>7, <3>1, <3>2, <3>3, CutDrops
    <3>5. ASSUME NEW j \in 1 .. i, Poller!Dropped(pollfds[j])
          PROVE  Gone(rules[j], v)
      <4>1. CASE j = i
        BY <2>5, <3>1, <4>1
      <4>2. CASE j # i
        <5>1. j \in 1 .. k /\ j \in 1 .. Len(rules)
          BY <2>1, <4>2
        <5>2. rules[j] \in RuleSet
          BY <5>1 DEF Served
        <5>3. Gone(rules[j], u)
          BY <2>3, <3>5, <5>1, Zenon DEF Dropping
        <5> QED BY <3>4, <5>2, <5>3, GoneStays
      <4> QED BY <4>1, <4>2
    <3>6. ASSUME NEW t \in Directions, v.streams[t].isClosed
          PROVE  w.streams[t].isClosed \/ \E j \in 1 .. i : rules[j].stream = t
      <4>1. CASE t = s
        <5>1. i \in 1 .. i
          BY <2>1
        <5> QED BY <2>5, <3>2, <4>1, <5>1
      <4>2. CASE t # s
        <5>1. Cuts(u.streams[t], v.streams[t], t = s, b)
          BY <3>2, Zenon DEF Cut
        <5>2. u.streams[t].isClosed
          BY <3>6, <4>2, <5>1 DEF Cuts
        <5>3. w.streams[t].isClosed \/ \E j \in 1 .. k : rules[j].stream = t
          BY <2>3, <5>2, Zenon DEF Dropping
        <5>4. 1 .. k \subseteq 1 .. i
          BY <2>1
        <5> QED BY <5>3, <5>4
      <4> QED BY <4>1, <4>2
    <3>7. Dropping(pollfds, rules, w, v, i)
      BY <3>4, <3>5, <3>6, Zenon DEF Dropping
    <3> QED BY <2>1, <2>4, <3>7
  <2>9. CASE ~Poller!Dropped(p)
    <3>1. v = u
      BY <2>4, <2>5, <2>6, <2>9 DEF Poller!ServeEntry, Serves, Poller!Dropped
    <3>2. ASSUME NEW j \in 1 .. i, Poller!Dropped(pollfds[j])
          PROVE  Gone(rules[j], v)
      <4>1. j \in 1 .. k
        BY <2>1, <2>5, <2>9, <3>2
      <4> QED BY <2>3, <3>1, <3>2, <4>1, Zenon DEF Dropping
    <3>3. 1 .. k \subseteq 1 .. i
      BY <2>1
    <3>4. Dropping(pollfds, rules, w, v, i)
      BY <2>3, <3>1, <3>2, <3>3, Zenon DEF Dropping
    <3> QED BY <2>1, <2>4, <3>4
  <2> QED BY <2>8, <2>9
<1> HIDE DEF T
<1>3. 0 .. m \subseteq T
  BY <1>1, <1>2, UpInduction
<1>4. m \in T
  BY <1>3
<1> QED BY <1>4 DEF T

\* The rules of the entries that are kept, and where they were.
KeptOnly(new, rules, S) ==
  /\ new \in Seq(RuleSet) /\ Sorted(new)
  /\ \A j \in 1 .. Len(new) : \E i \in 1 .. Len(rules) : i \in S /\ new[j] = rules[i]
  /\ \A i \in 1 .. Len(rules) : i \in S => \E j \in 1 .. Len(new) : new[j] = rules[i]

RulesOf(pollfds) == [i \in DOMAIN pollfds |-> pollfds[i].rule]

LEMMA KeptRules ==
  ASSUME NEW rules \in Seq(RuleSet), Sorted(rules), NEW E, NEW list \in Seq(E),
         Len(list) = Len(rules), \A i \in 1 .. Len(rules) : list[i].rule = rules[i],
         NEW S, NEW kept, kept = Poller!Keep(list, S),
         NEW new, new = RulesOf(kept)
  PROVE  /\ kept \in Seq(E) /\ Len(new) = Len(kept) /\ KeptOnly(new, rules, S)
         /\ \A j \in 1 .. Len(kept) : \E i \in 1 .. Len(rules) :
              i \in S /\ kept[j] = list[i] /\ new[j] = rules[i]
<1>1. PICK n \in Nat : n = Len(rules) /\ n = Len(list)
  BY EmptyLen
<1>2. kept \in Seq(E) /\ \E h : Chosen(kept, h, list, S, Len(list))
  BY KeepIs
<1>3. PICK k \in Nat : k = Len(kept) /\ DOMAIN kept = 1 .. k
  BY <1>2
<1>4. PICK h : Chosen(kept, h, list, S, n)
  BY <1>1, <1>2
<1>5. /\ h \in [1 .. k -> 1 .. n] /\ \A i, j \in 1 .. k : i < j => h[i] < h[j]
      /\ \A j \in 1 .. k : h[j] \in S /\ kept[j] = list[h[j]]
      /\ \A i \in 1 .. n : i \in S => \E j \in 1 .. k : h[j] = i
  BY <1>3, <1>4, Zenon DEF Chosen
<1>6. \A j \in 1 .. k : new[j] = rules[h[j]] /\ h[j] \in 1 .. n /\ rules[h[j]] \in RuleSet
  <2> TAKE j \in 1 .. k
  <2>1. h[j] \in 1 .. n
    BY <1>5
  <2>2. new[j] = kept[j].rule /\ kept[j] = list[h[j]]
    BY <1>3, <1>5, Zenon DEF RulesOf
  <2>3. list[h[j]].rule = rules[h[j]]
    BY <1>1, <2>1, Zenon
  <2>4. rules[h[j]] \in RuleSet
    BY <1>1, <2>1
  <2> QED BY <2>1, <2>2, <2>3, <2>4, Zenon
<1>7. new \in Seq(RuleSet) /\ Len(new) = k
  <2>1. new = [j \in 1 .. k |-> kept[j].rule] /\ \A j \in 1 .. k : kept[j].rule \in RuleSet
    <3>1. new = [j \in 1 .. k |-> kept[j].rule]
      BY <1>3, Zenon DEF RulesOf
    <3> QED BY <1>6, <3>1
  <2> QED BY <2>1
<1>8. Sorted(new)
  <2> SUFFICES ASSUME NEW i \in 1 .. k, NEW j \in 1 .. k, i < j
               PROVE  Place(new[i]) < Place(new[j])
    BY <1>7, Zenon DEF Sorted
  <2>1. PICK a \in 1 .. n, b \in 1 .. n : a = h[i] /\ b = h[j] /\ a < b
    BY <1>5
  <2>2. new[i] = rules[a] /\ new[j] = rules[b]
    BY <1>6, <2>1, Zenon
  <2>3. Place(rules[a]) < Place(rules[b])
    BY <1>1, <2>1, Zenon DEF Sorted
  <2> QED BY <2>2, <2>3, Zenon
<1>9. \A j \in 1 .. k : \E i \in 1 .. n : i \in S /\ kept[j] = list[i] /\ new[j] = rules[i]
  <2> TAKE j \in 1 .. k
  <2>1. h[j] \in 1 .. n /\ h[j] \in S /\ kept[j] = list[h[j]] /\ new[j] = rules[h[j]]
    BY <1>5, <1>6, Zenon
  <2> QED BY <2>1
<1>10. ASSUME NEW i \in 1 .. n, i \in S
       PROVE  \E j \in 1 .. k : new[j] = rules[i]
  <2>1. PICK j \in 1 .. k : h[j] = i
    BY <1>5, <1>10
  <2>2. new[j] = rules[h[j]]
    BY <1>6
  <2> QED BY <2>1, <2>2, Zenon
<1>11. KeptOnly(new, rules, S)
  <2>1. \A j \in 1 .. k : \E i \in 1 .. n : i \in S /\ new[j] = rules[i]
    BY <1>9
  <2>2. \A i \in 1 .. n : i \in S => \E j \in 1 .. k : new[j] = rules[i]
    BY <1>10
  <2>3. n = Len(rules) /\ k = Len(new)
    BY <1>1, <1>7
  <2>4. \A j \in 1 .. Len(new) : \E i \in 1 .. Len(rules) : i \in S /\ new[j] = rules[i]
    BY <2>1, <2>3
  <2>5. \A i \in 1 .. Len(rules) : i \in S => \E j \in 1 .. Len(new) : new[j] = rules[i]
    BY <2>2, <2>3
  <2> QED BY <1>7, <1>8, <2>4, <2>5 DEF KeptOnly
<1> QED BY <1>1, <1>2, <1>3, <1>7, <1>9, <1>11, Zenon

\* What is said of a stream that is at its end stays true of it.
Lasts(w, v) ==
  \A t \in Directions : /\ w.streams[t].isClosed => v.streams[t].isClosed
                        /\ w.streams[t].error_ => v.streams[t].error_
                        /\ Tells(t, w.fd, w.os) => Tells(t, v.fd, v.os)

\* When the rules that leave are gone, those that stay are in order.
LEMMA LeftRulesOK ==
  ASSUME NEW rules, NEW w, RulesOK(rules, w), NEW new, NEW S, KeptOnly(new, rules, S),
         NEW v, Lasts(w, v),
         \A i \in 1 .. Len(rules) : i \in S \/ Gone(rules[i], v)
  PROVE  RulesOK(new, v)
<1>1. /\ new \in Seq(RuleSet) /\ Sorted(new)
      /\ \A i \in 1 .. Len(rules) : i \in S => \E j \in 1 .. Len(new) : new[j] = rules[i]
  BY Zenon DEF RulesOK, KeptOnly
<1>2. ASSUME NEW s \in Directions, NEW what, Absent(new, what, s)
      PROVE  \/ Absent(rules, what, s)
             \/ Gone(Rule(what, s), v)
  BY <1>1, <1>2, Zenon DEF Absent
<1>3. \A what, s : Rule(what, s).does = what /\ Rule(what, s).stream = s
  BY DEF Rule
<1>4. ASSUME NEW s \in Directions, Absent(new, "fill", s)
      PROVE  v.streams[s].isClosed
  <2>1. CASE Absent(rules, "fill", s)
    BY <2>1, Zenon DEF RulesOK, Lasts
  <2>2. CASE Gone(Rule("fill", s), v)
    BY <1>3, <2>2, Zenon DEF Gone
  <2> QED BY <1>2, <1>4, <2>1, <2>2
<1>5. ASSUME NEW s \in Directions, Absent(new, "empty", s)
      PROVE  v.streams[s].error_ \/ Tells(s, v.fd, v.os)
  <2>1. CASE Absent(rules, "empty", s)
    BY <2>1, Zenon DEF RulesOK, Lasts
  <2>2. CASE Gone(Rule("empty", s), v)
    <3>1. Rule("empty", s).does = "empty" /\ Rule("empty", s).stream = s
      BY <1>3
    <3> QED BY <2>2, <3>1 DEF Gone
  <2> QED BY <1>2, <1>5, <2>1, <2>2
<1> QED BY <1>1, <1>4, <1>5, Zenon DEF RulesOK

LEMMA DropsLasts ==
  ASSUME NEW w, NEW v, Drops(w, v) \/ Follows(w, v)
  PROVE  Lasts(w, v)
<1>1. CASE Drops(w, v)
  BY <1>1, Zenon DEF Drops, Lasts
<1>2. CASE Follows(w, v)
  BY <1>2, Zenon DEF Follows, Lasts
<1> QED BY <1>1, <1>2

\* The one callback that runs.  It has what it was called for, or another end has failed.
LEMMA ServeOne ==
  ASSUME NEW w, Sane(w), ~w.thrown, NEW u, Drops(w, u), NEW r \in RuleSet, NEW p,
         Asks(p, r, w), Reported(p, w.os), Serves(p),
         r.does = "fill" /\ u.streams[r.stream].isClosed => w.streams[r.stream].isClosed,
         NEW v, v = Callback(r, u)
  PROVE  Sane(v) /\ Follows(u, v) /\ (Busy(r, u, v) \/ v.thrown => w.os.broken # {})
<1>1. PICK s \in Directions : s = r.stream
  BY RuleIs
<1>2. p.rule = r /\ Interested(r, w) /\ DirectionOf(r) \in p.revents
  BY DEF Asks, Serves, Poller!Ready
<1>3. Sane(u) /\ u.os = w.os /\ u.shutdown = w.shutdown /\ ~u.thrown
  BY Zenon DEF Drops
<1>4. PICK x, y : /\ x = w.streams[s] /\ y = u.streams[s] /\ y.capacity_ = x.capacity_ /\ y.deck_ = x.deck_
                  /\ y.bytes_in_deck_ = x.bytes_in_deck_ /\ (x.isClosed => y.isClosed)
                  /\ x \in Streams(Nat) /\ Tiled(x) /\ Ending(s, w)
  <2>1. w \in Worlds /\ Carried(s, w.streams[s], w.os) /\ Ending(s, w)
    BY Zenon DEF Sane
  <2>2. w.streams[s] \in Streams(Nat) /\ Tiled(w.streams[s])
    BY <2>1, WorldIs DEF Carried
  <2> QED BY <2>1, <2>2 DEF Drops
<1>5. CASE r.does = "fill"
  <2>1. /\ AvailableCapacity(x) > 0 /\ ~x.isClosed
    BY <1>1, <1>2, <1>4, <1>5 DEF Interested, WantsBytes
  <2>2. AvailableCapacity(u.streams[s]) > 0 /\ ~u.streams[s].isClosed
    BY <1>1, <1>4, <1>5, <2>1 DEF AvailableCapacity
  <2>3. v = Fill(s, u)
    BY <1>1, <1>5 DEF Callback
  <2>4. /\ Sane(v) /\ Follows(u, v)
        /\ v.thrown => u.thrown \/ Source(s) \in u.os.broken
        /\ \/ Source(s) \in u.os.broken
           \/ u.os.avail[Source(s)] = <<>> /\ Source(s) \notin u.os.ended
           \/ v.fd[Source(s)].reads # u.fd[Source(s)].reads
    BY <1>3, <2>2, <2>3, FillIs
  <2>5. FdOf(r) = Source(s) /\ DirectionOf(r) = "In"
    BY <1>1, <1>5, RuleIs
  <2>6. w.os.avail[Source(s)] # <<>> \/ Source(s) \in w.os.ended \/ Source(s) \in w.os.broken
    BY <1>2, <1>5, <2>5 DEF Reported
  <2>7. Busy(r, u, v) => v.fd[Source(s)].reads = u.fd[Source(s)].reads
    BY <2>5 DEF Busy, Poller!ServiceCount, ReadCount
  <2> QED BY <1>3, <2>4, <2>6, <2>7
<1>6. CASE r.does = "empty"
  <2>1. FdOf(r) = Sink(s) /\ DirectionOf(r) = "Out"
    BY <1>1, <1>6, RuleIs
  <2>2. HasBytes(s, w)
    BY <1>1, <1>2, <1>6 DEF Interested
  <2>3. HasBytes(s, u)
    BY <1>3, <1>4, <2>2 DEF HasBytes, BytesBuffered, IsFinished
  <2>4. v = Empty(s, u)
    BY <1>1, <1>6 DEF Callback
  <2>5. /\ Sane(v) /\ Follows(u, v)
        /\ v.thrown => \/ u.thrown \/ Sink(s) \in u.os.broken
                       \/ u.streams[s].bytes_in_deck_ # 0 /\ Room(Sink(s), u.os) = 0
        /\ \/ Sink(s) \in u.os.broken \/ ~HasBytes(s, u)
           \/ u.streams[s].bytes_in_deck_ # 0 /\ Room(Sink(s), u.os) = 0
           \/ v.fd[Sink(s)].writes # u.fd[Sink(s)].writes \/ v.fd[Sink(s)].closed
    BY <1>3, <2>4, EmptyIs
  <2>6. ~(x.bytes_in_deck_ # 0 /\ Room(Sink(s), w.os) = 0)
    <3> SUFFICES ASSUME x.bytes_in_deck_ # 0, Room(Sink(s), w.os) = 0 PROVE FALSE
      OBVIOUS
    <3>1. Sink(s) = "socket" /\ w.os.wrShut
      BY <1>2, <1>6, <2>1 DEF Reported
    <3>2. s = "outbound"
      BY <3>1, Names
    <3>3. x.deck_ = <<>>
      BY <1>4, <3>1, <3>2 DEF Ending, Tells, IsFinished
    <3> QED BY <1>4, <3>3, FrontFits
  <2>7. Busy(r, u, v) => v.fd[Sink(s)].writes = u.fd[Sink(s)].writes /\ ~v.fd[Sink(s)].closed
    BY <2>1 DEF Busy, Poller!ServiceCount, WriteCount, Closed
  <2> QED BY <1>3, <1>4, <2>3, <2>5, <2>6, <2>7
<1> QED BY <1>5, <1>6, RuleIs

\* A call of wait_next_event() from its poll() on.
LEMMA ServeIs ==
  ASSUME NEW w, Sane(w), ~w.thrown, NEW rules, NEW E, NEW pollfds \in Seq(E),
         Served(pollfds, rules, w), RulesOK(rules, w), NEW c, c = Poller!ServePolled(pollfds, w)
  PROVE  /\ Sane(c.world) /\ RulesOK(c.rules, c.world)
         /\ c.world.os.ended = w.os.ended /\ c.world.os.broken = w.os.broken
         /\ c.busyWait \/ c.world.thrown => w.os.broken # {}
         /\ \A t \in Directions :
              Tells(t, c.world.fd, c.world.os) =>
                Tells(t, w.fd, w.os) \/ c.world.os.avail = w.os.avail
<1>1. PICK last, g : Ran(pollfds, w, c, last, g)
  BY ServePolledIs
<1>2. PICK n \in Nat : n = Len(pollfds) /\ n = Len(rules) /\ last \in 0 .. n
  BY <1>1, EmptyLen DEF Served, Ran
<1>3. PICK v : v = c.world /\ v = g[last]
  BY <1>1, Zenon DEF Ran
<1>4. g[0] = w /\ \A i \in 1 .. last : g[i] = Poller!ServeEntry(pollfds[i], g[i - 1])
  BY <1>1, Zenon DEF Ran
<1>5. PICK S : S = {i \in 1 .. n : i > last \/ ~Poller!Dropped(pollfds[i])}
  OBVIOUS
<1>6. KeptOnly(c.rules, rules, S)
  <2>1. PICK kept : kept = Poller!Keep(pollfds, S)
    OBVIOUS
  <2>2. c.rules = RulesOf(kept)
    BY <1>1, <1>2, <1>5, <2>1, Zenon DEF Ran, Left, RulesOf
  <2>3. PICK new : new = c.rules
    OBVIOUS
  <2>4. /\ rules \in Seq(RuleSet) /\ Sorted(rules) /\ Len(pollfds) = Len(rules)
        /\ \A i \in 1 .. Len(rules) : pollfds[i].rule = rules[i]
    BY DEF Served, Asks
  <2>5. KeptOnly(new, rules, S)
    BY <2>1, <2>2, <2>3, <2>4, KeptRules
  <2> QED BY <2>3, <2>5
<1>7. CASE last = n /\ \A i \in 1 .. last : ~Serves(pollfds[i])
  <2>1. Dropping(pollfds, rules, w, v, n)
    BY <1>2, <1>3, <1>4, <1>7, DroppingOn
  <2>2. Drops(w, v) /\ Lasts(w, v)
    BY <2>1, DropsLasts, Zenon DEF Dropping
  <2>3. \A i \in 1 .. Len(rules) : i \in S \/ Gone(rules[i], v)
    BY <1>2, <1>5, <2>1 DEF Dropping
  <2>4. RulesOK(c.rules, v)
    BY <1>6, <2>2, <2>3, LeftRulesOK
  <2>5. ~c.busyWait
    BY <1>1, <1>2, <1>7 DEF Ran
  <2> QED BY <1>3, <2>2, <2>4, <2>5, Zenon DEF Drops
<1>8. CASE last \in 1 .. n /\ Serves(pollfds[last])
  <2>1. PICK m \in Nat : /\ m = last - 1 /\ m <= n /\ last \in 1 .. n
                         /\ \A i \in 1 .. m : i \in 1 .. last /\ i \in 1 .. n /\ i # last
    <3>1. last - 1 \in Nat
      BY <1>8
    <3> QED BY <1>8, <3>1
  <2>2. PICK u : u = g[m]
    OBVIOUS
  <2>3. Dropping(pollfds, rules, w, u, m)
    <3>1. \A i \in 1 .. m : ~Serves(pollfds[i])
      BY <1>1, <2>1 DEF Ran
    <3>2. \A i \in 1 .. m : g[i] = Poller!ServeEntry(pollfds[i], g[i - 1])
      BY <1>4, <2>1
    <3> QED BY <1>2, <1>4, <2>1, <2>2, <3>1, <3>2, DroppingOn
  <2>4. PICK p, r : p = pollfds[last] /\ r = rules[last]
    OBVIOUS
  <2>5. r \in RuleSet /\ Asks(p, r, w) /\ Reported(p, w.os) /\ Serves(p)
    BY <1>2, <1>8, <2>4 DEF Served
  <2>6. v = Callback(r, u)
    <3>1. v = Poller!ServeEntry(p, u)
      BY <1>3, <1>4, <2>1, <2>2, <2>4
    <3> QED BY <2>5, <3>1 DEF Serves, Asks, Poller!ServeEntry, Poller!Dropped
  <2>7. r.does = "fill" /\ u.streams[r.stream].isClosed => w.streams[r.stream].isClosed
    <3> SUFFICES ASSUME r.does = "fill", u.streams[r.stream].isClosed, ~w.streams[r.stream].isClosed
                 PROVE  FALSE
      OBVIOUS
    <3>1. PICK j \in 1 .. m : rules[j].stream = r.stream
      BY <2>3, <2>5, RuleIs DEF Dropping
    <3>2. j \in 1 .. n /\ j < last /\ rules[j] \in RuleSet
      BY <1>2, <2>1 DEF Served
    <3>3. Place(rules[j]) < Place(r)
      BY <1>2, <2>1, <2>4, <3>2 DEF Served, Sorted
    <3> QED BY <3>1, <3>2, <3>3, RuleIs DEF Place
  <2>8. Drops(w, u)
    BY <2>3, Zenon DEF Dropping
  <2>9. Sane(v) /\ Follows(u, v) /\ (Busy(r, u, v) \/ v.thrown => w.os.broken # {})
    BY <2>5, <2>6, <2>7, <2>8, ServeOne
  <2>10. Lasts(w, v)
    <3>1. Lasts(w, u) /\ Lasts(u, v)
      BY <2>8, <2>9, DropsLasts
    <3> QED BY <3>1, Zenon DEF Lasts
  <2>11. ASSUME NEW i \in 1 .. Len(rules), i \notin S
         PROVE  Gone(rules[i], v)
    <3>1. i \in 1 .. n /\ ~(i > last) /\ Poller!Dropped(pollfds[i])
      BY <1>2, <1>5, <2>11
    <3>2. i # last
      BY <1>8, <3>1 DEF Serves
    <3>3. i \in 1 .. m
      BY <1>8, <2>1, <3>1, <3>2
    <3>4. Gone(rules[i], u) /\ rules[i] \in RuleSet
      BY <2>3, <3>1, <3>3 DEF Dropping, Served
    <3> QED BY <2>9, <3>4, GoneStays
  <2>12. RulesOK(c.rules, v)
    BY <1>6, <2>10, <2>11, LeftRulesOK
  <2>13. c.busyWait => Busy(r, u, v)
    <3>1. c.busyWait => Busy(pollfds[last].rule, g[last - 1], g[last])
      BY <1>1, Zenon DEF Ran
    <3> QED BY <1>3, <2>1, <2>2, <2>4, <2>5, <3>1 DEF Asks
  <2>14. /\ v.os.ended = w.os.ended /\ v.os.broken = w.os.broken
         /\ \A t \in Directions :
              Tells(t, v.fd, v.os) => Tells(t, w.fd, w.os) \/ v.os.avail = w.os.avail
    BY <2>8, <2>9, Zenon DEF Follows, Aside, Drops
  <2> QED BY <1>3, <2>9, <2>12, <2>13, <2>14, Zenon
<1>9. \/ last = n /\ \A i \in 1 .. last : ~Serves(pollfds[i])
      \/ last \in 1 .. n /\ Serves(pollfds[last])
  BY <1>1, <1>2 DEF Ran
<1> QED BY <1>7, <1>8, <1>9

-----------------------------------------------------------------------------
(* The loop before poll().                                                 *)

\* A deque without bytes has no chunk.
LEMMA NoBytes ==
  ASSUME NEW x \in Streams(Nat), Tiled(x), x.bytes_in_deck_ = 0
  PROVE  x.deck_ = <<>>
<1> SUFFICES ASSUME x.deck_ # <<>> PROVE FALSE
  OBVIOUS
<1>1. PICK p \in Nat, q \in Nat : p = x.totalPopped /\ q = x.totalPushed /\ q - p = 0
  BY StreamFields DEF Tiled
<1>2. PICK d \in Seq(Seq(Nat)) : d = x.deck_ /\ 1 \in 1 .. Len(d)
  BY StreamFields, EmptyLen
<1>3. Tile(d, p, q, 1)
  BY <1>1, <1>2, Zenon DEF Tiled, Tiles
<1>4. PICK c \in Seq(Nat) : c = d[1]
  BY <1>2
<1>5. c # <<>> /\ c[1] = p /\ c[1] + Len(c) <= q
  BY <1>3, <1>4 DEF Tile, Consecutive, After
<1>6. Len(c) \in Nat /\ Len(c) # 0
  BY <1>5, EmptyLen
<1> QED BY <1>1, <1>5, <1>6

\* A rule whose descriptor is at its end or closed is gone.
LEMMA DefunctGone ==
  ASSUME NEW w, Sane(w), NEW r \in RuleSet, Poller!Defunct(r, w)
  PROVE  Gone(r, w)
<1>1. PICK s \in Directions : s = r.stream /\ Ending(s, w)
  BY RuleIs DEF Sane
<1>2. CASE r.does = "fill"
  <2>1. DirectionOf(r) = "In" /\ FdOf(r) = Source(s)
    BY <1>1, <1>2, RuleIs
  <2>2. ~w.fd[Source(s)].closed
    BY <1>1, Names DEF Sane
  <2>3. w.fd[Source(s)].eof
    BY <2>1, <2>2 DEF Poller!Defunct, Eof, Closed
  <2> QED BY <1>1, <1>2, <2>3 DEF Ending, Gone
<1>3. CASE r.does = "empty"
  <2>1. DirectionOf(r) = "Out" /\ FdOf(r) = Sink(s)
    BY <1>1, <1>3, RuleIs
  <2>2. w.fd[Sink(s)].closed
    BY <2>1 DEF Poller!Defunct, Closed
  <2>3. s = "inbound" /\ Sink(s) = "stdout"
    BY <1>1, <2>2, Names DEF Sane
  <2>4. Tells(s, w.fd, w.os)
    BY <2>2, <2>3, Names DEF Tells
  <2> QED BY <1>1, <1>3, <2>4 DEF Ending, Gone, IsFinished
<1> QED BY <1>2, <1>3, RuleIs

\* The work of the direction s is done.
Complete(s, w) == \/ w.streams[s].error_
                  \/ /\ Source(s) \in w.os.ended /\ w.os.avail[Source(s)] = <<>>
                     /\ w.streams[s].deck_ = <<>> /\ Tells(s, w.fd, w.os)

\* When none of the rules that are left is interested, the work is done.
LEMMA IdleComplete ==
  ASSUME NEW w, Sane(w), ~w.thrown, NEW rules, RulesOK(rules, w),
         \A i \in 1 .. Len(rules) : ~Interested(rules[i], w), NEW s \in Directions
  PROVE  Complete(s, w)
<1> SUFFICES ASSUME ~w.streams[s].error_ PROVE Complete(s, w)
  BY DEF Complete
<1>1. \A t \in Directions : ~w.streams[t].error_
  BY Names DEF Sane
<1>2. PICK x \in Streams(Nat) : x = w.streams[s] /\ Tiled(x) /\ x.capacity_ = BufferSize /\ Ending(s, w)
  BY WorldIs DEF Sane, Carried
<1>3. x.isClosed \/ ~(AvailableCapacity(x) > 0)
  <2>1. CASE Absent(rules, "fill", s)
    BY <1>2, <2>1 DEF RulesOK
  <2>2. CASE ~Absent(rules, "fill", s)
    <3>1. PICK i \in 1 .. Len(rules) : rules[i] = Rule("fill", s)
      BY <2>2 DEF Absent
    <3>2. ~Interested(Rule("fill", s), w)
      BY <3>1
    <3>3. ~WantsBytes(s, w)
      BY <3>2 DEF Interested, Rule
    <3> QED BY <1>1, <1>2, <3>3 DEF WantsBytes
  <2> QED BY <2>1, <2>2
<1>4. Tells(s, w.fd, w.os) \/ ~HasBytes(s, w)
  <2>1. CASE Absent(rules, "empty", s)
    BY <2>1 DEF RulesOK
  <2>2. CASE ~Absent(rules, "empty", s)
    <3>1. PICK i \in 1 .. Len(rules) : rules[i] = Rule("empty", s)
      BY <2>2 DEF Absent
    <3>2. ~Interested(Rule("empty", s), w)
      BY <3>1
    <3> QED BY <3>2 DEF Interested, Rule
  <2> QED BY <2>1, <2>2
<1>5. Tells(s, w.fd, w.os) /\ IsFinished(x)
  <2>1. CASE Tells(s, w.fd, w.os)
    BY <1>2, <2>1 DEF Ending
  <2>2. CASE ~HasBytes(s, w)
    <3>1. x.bytes_in_deck_ = 0
      <4>1. x.bytes_in_deck_ \in Nat /\ ~(x.bytes_in_deck_ > 0)
        BY <1>2, <2>2, StreamFields DEF HasBytes, BytesBuffered
      <4> QED BY <4>1
    <3>2. AvailableCapacity(x) > 0
      BY <1>2, <3>1, StreamCopyAssumption DEF AvailableCapacity
    <3>3. x.deck_ = <<>> /\ IsFinished(x)
      BY <1>2, <1>3, <3>1, <3>2, NoBytes DEF IsFinished
    <3>4. w.shutdown[s]
      BY <1>2, <2>2, <3>3 DEF HasBytes
    <3> QED BY <1>2, <3>3, <3>4 DEF Ending
  <2> QED BY <1>4, <2>1, <2>2
<1> QED BY <1>2, <1>5 DEF Ending, Complete, IsFinished

\* A call of wait_next_event() up to its poll().
LEMMA SetUpIs ==
  ASSUME NEW w, Sane(w), ~w.thrown, NEW rules, RulesOK(rules, w),
         NEW c, c = Poller!SetUpPoll(rules, w),
         NEW new, new = RulesOf(c.pollfds)
  PROVE  /\ c.world = w /\ c.pollfds \in Seq(Entries) /\ RulesOK(new, w)
         /\ Len(c.pollfds) = Len(new)
         /\ \A i \in 1 .. Len(new) : Asks(c.pollfds[i], new[i], w)
         /\ ~Poller!SomethingToPoll(c.pollfds) => \A s \in Directions : Complete(s, w)
<1>1. PICK n \in Nat : n = Len(rules) /\ rules \in Seq(RuleSet) /\ Sorted(rules)
  BY EmptyLen DEF RulesOK
<1>2. \A i \in 1 .. n : Poller!Defunct(rules[i], w) => Gone(rules[i], w) /\ OnCancel(rules[i], w) = w
  <2> SUFFICES ASSUME NEW i \in 1 .. n, Poller!Defunct(rules[i], w)
               PROVE  Gone(rules[i], w) /\ OnCancel(rules[i], w) = w
    OBVIOUS
  <2>1. PICK r \in RuleSet : r = rules[i]
    BY <1>1
  <2>2. Gone(r, w) /\ w \in Worlds
    BY <2>1, DefunctGone DEF Sane
  <2>3. OnCancel(r, w) = w
    BY <2>2, CancelCuts DEF Gone
  <2> QED BY <2>1, <2>2, <2>3
<1>3. PICK list, S : list = EntriesOf(rules, w) /\ S = Polling(rules, w)
  OBVIOUS
<1>4. c.world = w /\ c.pollfds = Poller!Keep(list, S)
  <2>1. \A i \in 1 .. Len(rules) : Poller!Defunct(rules[i], w) => OnCancel(rules[i], w) = w
    BY <1>1, <1>2
  <2>2. rules \in Seq(RuleSet)
    BY <1>1
  <2> QED BY <1>3, <2>1, <2>2, SetUpPollIs
<1>5. /\ list \in Seq(Entries) /\ Len(list) = n
      /\ \A i \in 1 .. n : list[i] = Entry(rules[i], w) /\ list[i].rule = rules[i]
  <2>1. \A i \in 1 .. n : Entry(rules[i], w) \in Entries
    <3> TAKE i \in 1 .. n
    <3>1. rules[i] \in RuleSet
      BY <1>1
    <3>2. {DirectionOf(rules[i])} \subseteq Events
      BY DEF DirectionOf, Events
    <3> QED BY <3>1, <3>2 DEF Entry, Entries
  <2>2. \A i \in 1 .. n : Entry(rules[i], w).rule = rules[i]
    BY DEF Entry
  <2>3. list = [i \in 1 .. n |-> Entry(rules[i], w)]
    BY <1>1, <1>3 DEF EntriesOf
  <2> QED BY <1>1, <2>1, <2>2, <2>3
<1>6. PICK kept : kept = c.pollfds
  OBVIOUS
<1>7. /\ kept \in Seq(Entries) /\ Len(new) = Len(kept) /\ KeptOnly(new, rules, S)
      /\ \A j \in 1 .. Len(kept) : \E i \in 1 .. Len(rules) :
           i \in S /\ kept[j] = list[i] /\ new[j] = rules[i]
  <2>1. kept = Poller!Keep(list, S) /\ new = RulesOf(kept)
    BY <1>4, <1>6, Zenon
  <2>2. Len(list) = Len(rules) /\ \A i \in 1 .. Len(rules) : list[i].rule = rules[i]
    BY <1>1, <1>5
  <2>3. list \in Seq(Entries)
    BY <1>5
  <2>4. Sorted(rules) /\ rules \in Seq(RuleSet)
    BY <1>1
  <2> QED BY <2>1, <2>2, <2>3, <2>4, KeptRules
<1>8. RulesOK(new, w)
  <2>1. Lasts(w, w)
    BY DEF Lasts
  <2>2. \A i \in 1 .. Len(rules) : i \in S \/ Gone(rules[i], w)
    BY <1>1, <1>2, <1>3 DEF Polling
  <2> QED BY <1>7, <2>1, <2>2, LeftRulesOK
<1>9. PICK k \in Nat : k = Len(new) /\ k = Len(kept) /\ DOMAIN kept = 1 .. k
  BY <1>7
<1>10. \A j \in 1 .. k : kept[j] = Entry(new[j], w)
  BY <1>1, <1>5, <1>7, <1>9
<1>11. \A j \in 1 .. k : Asks(kept[j], new[j], w)
  <2>1. \A r : Asks(Entry(r, w), r, w)
    BY DEF Asks, Entry
  <2> QED BY <1>10, <2>1, Zenon
<1>12. ASSUME ~Poller!SomethingToPoll(kept), NEW s \in Directions
       PROVE  Complete(s, w)
  <2>1. \A j \in 1 .. Len(new) : ~Interested(new[j], w)
    BY <1>9, <1>11, <1>12 DEF Asks, Poller!SomethingToPoll
  <2> QED BY <1>8, <2>1, IdleComplete
<1> QED BY <1>4, <1>6, <1>7, <1>8, <1>9, <1>11, <1>12

-----------------------------------------------------------------------------
(* What the other ends do.                                                 *)

\* The kernel goes from o to k at the hands of the user, the peer or the reader: what the
\* program has seen of its state still holds, and no byte is out of its place.
Moves(o, k) ==
  /\ k \in Kernels /\ Bounds(k)
  /\ o.ended \subseteq k.ended /\ o.broken \subseteq k.broken /\ k.wrShut = o.wrShut
  /\ \A f \in Sources : /\ o.avail[f] # <<>> => k.avail[f] # <<>>
                        /\ f \in o.ended => k.avail[f] = o.avail[f]
  /\ \A f \in Sinks : Len(k.held[f]) <= Len(o.held[f])
  /\ \A s \in Directions, x \in Streams(Nat) : Carried(s, x, o) => Carried(s, x, k)

Given(o, f)   == [o EXCEPT !.avail[f] = Append(@, o.given[f]), !.given[f] = @ + 1]
Taken(o, f)   == [o EXCEPT !.held[f] = <<>>, !.got[f] = @ \o o.held[f]]
Ended(o, f)   == [o EXCEPT !.ended = @ \cup {f}]
Damaged(o, f) == [o EXCEPT !.broken = @ \cup {f}]

\* One more byte is the next one of its source.
LEMMA NextByte ==
  ASSUME NEW p \in Nat, NEW g \in Nat, p <= g
  PROVE  Append(Bytes(p, g - p), g) = Bytes(p, (g + 1) - p)
<1>1. PICK m \in Nat : m = g - p /\ g = p + m /\ (g + 1) - p = m + 1
  <2>1. g - p \in Nat /\ g = p + (g - p) /\ (g + 1) - p = (g - p) + 1
    OBVIOUS
  <2> QED BY <2>1
<1>2. PICK t : t = Append(Bytes(p, m), g)
  OBVIOUS
<1>3. t \in Seq(Nat) /\ Len(t) = m + 1 /\ t[m + 1] = g /\ \A i \in 1 .. m : t[i] = p + i - 1
  <2>1. PICK b \in Seq(Nat) : b = Bytes(p, m) /\ Len(b) = m /\ \A i \in 1 .. m : b[i] = p + i - 1
    BY BytesRun
  <2> QED BY <1>2, <2>1
<1>4. \A i \in 1 .. Len(t) : t[i] = p + i - 1
  <2> SUFFICES ASSUME NEW i \in 1 .. m + 1 PROVE t[i] = p + i - 1
    BY <1>3
  <2>1. i \in 1 .. m \/ (i = m + 1 /\ p + i - 1 = g)
    BY <1>1
  <2> QED BY <1>3, <2>1
<1>5. t = Bytes(p, Len(t))
  BY <1>3, <1>4, BytesEqual
<1> QED BY <1>1, <1>2, <1>3, <1>5, Zenon

LEMMA GiveMoves ==
  ASSUME NEW o \in Kernels, Bounds(o), NEW f \in Sources, o.given[f] < MaxGiven(f),
         Len(o.avail[f]) < ReadRoom, f \notin o.ended
  PROVE  Moves(o, Given(o, f))
<1>1. PICK g \in Nat : g = o.given[f] /\ g + 1 <= MaxGiven(f)
  <2>1. o.given[f] \in Nat /\ MaxGiven(f) \in Nat
    BY KernelIs, StreamCopyAssumption DEF MaxGiven
  <2> QED BY <2>1
<1>2. PICK a : a = Append(o.avail[f], g)
  OBVIOUS
<1>3. a \in Seq(Nat) /\ a # <<>> /\ Len(a) <= ReadRoom
  <2>1. o.avail[f] \in Seq(Nat) /\ Len(o.avail[f]) \in Nat /\ ReadRoom \in Nat
    BY KernelIs, StreamCopyAssumption
  <2>2. a \in Seq(Nat) /\ Len(a) = Len(o.avail[f]) + 1
    BY <1>2, <2>1
  <2>3. Len(a) <= ReadRoom /\ Len(a) # 0
    BY <2>1, <2>2
  <2> QED BY <2>2, <2>3, EmptyLen
<1>4. PICK k : k = Given(o, f)
  OBVIOUS
<1>5. /\ k \in Kernels /\ k.avail[f] = a /\ k.given[f] = g + 1
      /\ \A h \in Sources : h # f => k.avail[h] = o.avail[h] /\ k.given[h] = o.given[h]
      /\ k.held = o.held /\ k.got = o.got /\ k.ended = o.ended /\ k.broken = o.broken
      /\ k.wrShut = o.wrShut
  <2>1. PICK av, gv : av = [o.avail EXCEPT ![f] = a] /\ gv = [o.given EXCEPT ![f] = g + 1]
    OBVIOUS
  <2>2. k = [o EXCEPT !.avail = av, !.given = gv]
    BY <1>1, <1>2, <1>4, <2>1 DEF Given, Kernels
  <2>3. o.avail \in [Sources -> Seq(Nat)] /\ o.given \in [Sources -> Nat]
    BY DEF Kernels
  <2>4. /\ av \in [Sources -> Seq(Nat)] /\ av[f] = a /\ \A h \in Sources : h # f => av[h] = o.avail[h]
        /\ gv \in [Sources -> Nat] /\ gv[f] = g + 1 /\ \A h \in Sources : h # f => gv[h] = o.given[h]
    BY <1>3, <2>1, <2>3
  <2>5. /\ k \in Kernels /\ k.avail = av /\ k.given = gv
        /\ k.held = o.held /\ k.got = o.got /\ k.ended = o.ended /\ k.broken = o.broken
        /\ k.wrShut = o.wrShut
    BY <2>2, <2>4 DEF Kernels
  <2> QED BY <2>4, <2>5
<1>6. Bounds(k)
  <2>1. \A h \in Sources : k.given[h] <= MaxGiven(h) /\ Len(k.avail[h]) <= ReadRoom
    BY <1>1, <1>3, <1>5 DEF Bounds
  <2> QED BY <1>5, <2>1 DEF Bounds
<1>7. ASSUME NEW s \in Directions, NEW x \in Streams(Nat), Carried(s, x, o)
      PROVE  Carried(s, x, k)
  <2>1. CASE Source(s) = f
    <3>1. PICK p \in Nat : p = x.totalPushed /\ p <= g
      BY <1>1, <1>7, <2>1, StreamFields DEF Carried
    <3>2. o.avail[f] = Bytes(p, g - p)
      BY <1>1, <1>7, <2>1, <3>1 DEF Carried
    <3>3. a = Bytes(p, (g + 1) - p) /\ p <= g + 1
      <4>1. Append(Bytes(p, g - p), g) = Bytes(p, (g + 1) - p)
        BY <3>1, NextByte
      <4>2. p <= g + 1
        BY <3>1
      <4> QED BY <1>2, <3>2, <4>1, <4>2, Zenon
    <3> QED BY <1>5, <1>7, <2>1, <3>1, <3>3, Zenon DEF Carried
  <2>2. CASE Source(s) # f
    <3>1. Source(s) \in Sources
      BY Names
    <3> QED BY <1>5, <1>7, <2>2, <3>1, Zenon DEF Carried
  <2> QED BY <2>1, <2>2
<1>8. \A h \in Sources : /\ o.avail[h] # <<>> => k.avail[h] # <<>>
                         /\ h \in o.ended => k.avail[h] = o.avail[h]
  BY <1>3, <1>5, Zenon
<1>9. \A h \in Sinks : Len(k.held[h]) <= Len(o.held[h])
  <2>1. \A h \in Sinks : Len(o.held[h]) \in Nat
    BY KernelIs
  <2>2. \A h \in Sinks : Len(o.held[h]) <= Len(o.held[h])
    BY <2>1
  <2> QED BY <1>5, <2>2
<1>10. o.ended \subseteq k.ended /\ o.broken \subseteq k.broken
  BY <1>5
<1> QED BY <1>4, <1>5, <1>6, <1>7, <1>8, <1>9, <1>10, Zenon DEF Moves

LEMMA TakeMoves ==
  ASSUME NEW o \in Kernels, Bounds(o), NEW f \in Sinks
  PROVE  Moves(o, Taken(o, f))
<1>1. PICK b \in Seq(Nat) : b = o.got[f] \o o.held[f]
  <2>1. PICK x \in Seq(Nat), y \in Seq(Nat) : x = o.got[f] /\ y = o.held[f]
    BY KernelIs
  <2>2. x \o y \in Seq(Nat)
    OBVIOUS
  <2> QED BY <2>1, <2>2
<1>2. PICK k : k = Taken(o, f)
  OBVIOUS
<1>3. /\ k \in Kernels /\ k.held[f] = <<>> /\ k.got[f] = b
      /\ \A h \in Sinks : h # f => k.held[h] = o.held[h] /\ k.got[h] = o.got[h]
      /\ k.avail = o.avail /\ k.given = o.given /\ k.ended = o.ended /\ k.broken = o.broken
      /\ k.wrShut = o.wrShut
  <2>1. PICK hv, tv : hv = [o.held EXCEPT ![f] = <<>>] /\ tv = [o.got EXCEPT ![f] = b]
    OBVIOUS
  <2>2. k = [o EXCEPT !.held = hv, !.got = tv]
    BY <1>1, <1>2, <2>1 DEF Taken, Kernels
  <2>3. o.held \in [Sinks -> Seq(Nat)] /\ o.got \in [Sinks -> Seq(Nat)]
    BY DEF Kernels
  <2>4. /\ hv \in [Sinks -> Seq(Nat)] /\ hv[f] = <<>> /\ \A h \in Sinks : h # f => hv[h] = o.held[h]
        /\ tv \in [Sinks -> Seq(Nat)] /\ tv[f] = b /\ \A h \in Sinks : h # f => tv[h] = o.got[h]
    <3>1. PICK e : e = <<>> /\ e \in Seq(Nat)
      BY EmptySeq
    <3>2. /\ hv \in [Sinks -> Seq(Nat)] /\ hv[f] = e
          /\ \A h \in Sinks : h # f => hv[h] = o.held[h]
      BY <2>1, <2>3, <3>1
    <3>3. /\ tv \in [Sinks -> Seq(Nat)] /\ tv[f] = b
          /\ \A h \in Sinks : h # f => tv[h] = o.got[h]
      BY <1>1, <2>1, <2>3
    <3> QED BY <3>1, <3>2, <3>3
  <2>5. /\ k \in Kernels /\ k.held = hv /\ k.got = tv
        /\ k.avail = o.avail /\ k.given = o.given /\ k.ended = o.ended /\ k.broken = o.broken
        /\ k.wrShut = o.wrShut
    BY <2>2, <2>4 DEF Kernels
  <2> QED BY <2>4, <2>5
<1>4. \A h \in Sinks : Len(k.held[h]) <= Len(o.held[h]) /\ Len(k.held[h]) <= WriteRoom
  <2> TAKE h \in Sinks
  <2>1. Len(o.held[h]) \in Nat /\ Len(o.held[h]) <= WriteRoom /\ WriteRoom \in Nat
    BY KernelIs, StreamCopyAssumption DEF Bounds
  <2>2. CASE h = f
    BY <1>3, <2>1, <2>2
  <2>3. CASE h # f
    BY <1>3, <2>1, <2>3
  <2> QED BY <2>2, <2>3
<1>5. Bounds(k)
  BY <1>3, <1>4 DEF Bounds
<1>6. ASSUME NEW s \in Directions, NEW x \in Streams(Nat), Carried(s, x, o)
      PROVE  Carried(s, x, k)
  <2>1. k.got[Sink(s)] \o k.held[Sink(s)] = o.got[Sink(s)] \o o.held[Sink(s)]
    <3>1. CASE Sink(s) = f
      <4>1. b \o <<>> = b
        OBVIOUS
      <4> QED BY <1>1, <1>3, <3>1, <4>1
    <3>2. CASE Sink(s) # f
      BY <1>3, <3>2, Names
    <3> QED BY <3>1, <3>2
  <2> QED BY <1>3, <1>6, <2>1, Zenon DEF Carried
<1>7. o.ended \subseteq k.ended /\ o.broken \subseteq k.broken
  BY <1>3
<1> QED BY <1>2, <1>3, <1>4, <1>5, <1>6, <1>7, Zenon DEF Moves

LEMMA EndMoves ==
  ASSUME NEW o \in Kernels, Bounds(o), NEW f \in Fds,
         NEW k, k = Damaged(o, f) \/ (f \in Sources /\ k = Ended(o, f))
  PROVE  Moves(o, k)
<1>1. /\ k \in Kernels /\ o.ended \subseteq k.ended /\ o.broken \subseteq k.broken
      /\ k.held = o.held /\ k.got = o.got /\ k.avail = o.avail /\ k.given = o.given
      /\ k.wrShut = o.wrShut
  <2>1. CASE k = Damaged(o, f)
    BY <2>1 DEF Damaged, Kernels
  <2>2. CASE f \in Sources /\ k = Ended(o, f)
    BY <2>2 DEF Ended, Kernels
  <2> QED BY <2>1, <2>2
<1>2. \A s \in Directions, x \in Streams(Nat) : Carried(s, x, o) => Carried(s, x, k)
  BY <1>1, Zenon DEF Carried
<1>3. \A h \in Sinks : Len(k.held[h]) <= Len(o.held[h])
  <2>1. \A h \in Sinks : Len(o.held[h]) \in Nat
    BY KernelIs
  <2>2. \A h \in Sinks : Len(o.held[h]) <= Len(o.held[h])
    BY <2>1
  <2> QED BY <1>1, <2>2
<1>4. Bounds(k)
  BY <1>1 DEF Bounds
<1> QED BY <1>1, <1>2, <1>3, <1>4, Zenon DEF Moves

\* While they move, what the program works on stays in good order.
LEMMA MovesOn ==
  ASSUME NEW w, Sane(w), NEW v \in Worlds, Moves(w.os, v.os), v.streams = w.streams,
         v.shutdown = w.shutdown, v.fd = w.fd, v.thrown = w.thrown
  PROVE  /\ Sane(v)
         /\ \A rules : RulesOK(rules, w) => RulesOK(rules, v)
         /\ \A l : Polled(l, w) => Polled(l, v)
<1>1. \A s \in Directions : Tells(s, v.fd, v.os) <=> Tells(s, w.fd, w.os)
  BY Zenon DEF Tells, Moves
<1>2. ASSUME NEW s \in Directions PROVE Carried(s, v.streams[s], v.os) /\ Ending(s, v)
  <2>1. Carried(s, w.streams[s], w.os) /\ Ending(s, w) /\ w.streams[s] \in Streams(Nat)
    BY WorldIs DEF Sane
  <2>2. Carried(s, v.streams[s], v.os)
    BY <2>1, Zenon DEF Moves
  <2>3. Source(s) \in Sources
    BY Names
  <2>4. Source(s) \in w.os.ended /\ w.os.avail[Source(s)] = <<>> =>
          Source(s) \in v.os.ended /\ v.os.avail[Source(s)] = <<>>
    BY <2>3 DEF Moves
  <2>5. Ending(s, v)
    BY <1>1, <2>1, <2>4, Zenon DEF Ending
  <2> QED BY <2>2, <2>5
<1>3. Sane(v)
  BY <1>2, Zenon DEF Sane, Moves
<1>4. \A rules : RulesOK(rules, w) => RulesOK(rules, v)
  BY <1>1, Zenon DEF RulesOK
<1>5. \A r : Interested(r, v) <=> Interested(r, w)
  BY Zenon DEF Interested, WantsBytes, HasBytes
<1>6. \A p, r : Asks(p, r, w) => Asks(p, r, v)
  BY <1>5, Zenon DEF Asks
<1>7. \A l : Polled(l, w) => Polled(l, v)
  BY <1>6, Zenon DEF Polled
<1> QED BY <1>3, <1>4, <1>7

LEMMA ReportedOn ==
  ASSUME NEW o \in Kernels, NEW k, Moves(o, k), NEW p, p.rule \in RuleSet, Reported(p, o)
  PROVE  Reported(p, k)
<1>1. PICK r \in RuleSet : r = p.rule
  OBVIOUS
<1>2. PICK f \in Fds : /\ f = FdOf(r) /\ (r.does = "fill" => f \in Sources)
                       /\ (r.does = "empty" => f \in Sinks)
  BY RuleIs, Names
<1>3. o.broken \subseteq k.broken /\ o.ended \subseteq k.ended /\ k.wrShut = o.wrShut
  BY Zenon DEF Moves
<1>4. "ERR" \in p.revents => f \in k.broken
  BY <1>1, <1>2, <1>3 DEF Reported
<1>5. "HUP" \in p.revents /\ "ERR" \notin p.revents =>
        /\ f = "stdin" \/ (f = "socket" /\ k.wrShut)
        /\ f \in k.ended
        /\ "In" \in p.events /\ "In" \notin p.revents => k.avail[f] = <<>>
  <2> SUFFICES ASSUME "HUP" \in p.revents, "ERR" \notin p.revents
               PROVE  /\ f = "stdin" \/ (f = "socket" /\ k.wrShut)
                      /\ f \in k.ended
                      /\ "In" \in p.events /\ "In" \notin p.revents => k.avail[f] = <<>>
    OBVIOUS
  <2>1. /\ f = "stdin" \/ (f = "socket" /\ o.wrShut)
        /\ f \in o.ended
        /\ "In" \in p.events /\ "In" \notin p.revents => o.avail[f] = <<>>
    BY <1>1, <1>2 DEF Reported
  <2>2. f \in Sources
    BY <2>1, KernelIs
  <2> QED BY <1>3, <2>1, <2>2 DEF Moves
<1>6. "In" \in p.revents /\ r.does = "fill" =>
        k.avail[f] # <<>> \/ f \in k.ended \/ f \in k.broken
  BY <1>1, <1>2, <1>3 DEF Reported, Moves
<1>7. "Out" \in p.revents /\ r.does = "empty" => Room(f, k) > 0 \/ (f = "socket" /\ k.wrShut)
  <2> SUFFICES ASSUME "Out" \in p.revents, r.does = "empty", Room(f, o) > 0
               PROVE  Room(f, k) > 0
    BY <1>1, <1>2, <1>3 DEF Reported
  <2>1. PICK a \in Nat, b \in Nat, c \in Nat :
          a = WriteRoom /\ b = Len(o.held[f]) /\ c = Len(k.held[f])
    BY <1>2, KernelIs, StreamCopyAssumption DEF Moves
  <2>2. c <= b /\ a - b > 0
    BY <1>2, <2>1 DEF Moves, Room
  <2>3. a - c > 0
    BY <2>2
  <2> QED BY <2>1, <2>3 DEF Room
<1> QED BY <1>1, <1>2, <1>4, <1>5, <1>6, <1>7 DEF Reported

-----------------------------------------------------------------------------
(* The inductive invariant.                                                *)

\* v is w with its counters back at 0, and an exception that is remembered.
Becomes(w, v) ==
  /\ v \in Worlds /\ v.streams = w.streams /\ v.shutdown = w.shutdown /\ v.os = w.os
  /\ \A f \in Fds : v.fd[f].eof = w.fd[f].eof /\ v.fd[f].closed = w.fd[f].closed
  /\ w.thrown => v.thrown

LEMMA BecomesSane ==
  ASSUME NEW w, Sane(w), NEW v, Becomes(w, v)
  PROVE  /\ Sane(v)
         /\ \A rules : RulesOK(rules, w) => RulesOK(rules, v)
<1>1. \A s \in Directions : /\ Tells(s, v.fd, v.os) <=> Tells(s, w.fd, w.os)
                            /\ v.fd[Source(s)].eof = w.fd[Source(s)].eof
  BY Names DEF Tells, Becomes
<1>2. ASSUME NEW s \in Directions PROVE Ending(s, v)
  <2>1. Ending(s, w)
    BY DEF Sane
  <2> QED BY <1>1, <2>1, Zenon DEF Ending, Becomes
<1>3. v.fd["socket"].closed = w.fd["socket"].closed /\ v.fd["stdin"].closed = w.fd["stdin"].closed
  BY Names DEF Becomes
<1>4. Sane(v)
  BY <1>2, <1>3, Zenon DEF Sane, Becomes
<1>5. \A rules : RulesOK(rules, w) => RulesOK(rules, v)
  BY <1>1, Zenon DEF RulesOK, Becomes
<1> QED BY <1>4, <1>5

LEMMA WholeIs ==
  ASSUME NEW st \in [Directions -> Streams(Nat)], NEW sh \in [Directions -> BOOLEAN],
         NEW f \in [Fds -> FdStates], NEW o \in Kernels, NEW t \in BOOLEAN
  PROVE  /\ Whole(st, sh, f, o, t) \in Worlds
         /\ Whole(st, sh, f, o, t).streams = st /\ Whole(st, sh, f, o, t).shutdown = sh
         /\ Whole(st, sh, f, o, t).fd = f /\ Whole(st, sh, f, o, t).os = o
         /\ Whole(st, sh, f, o, t).thrown = t
BY DEF Whole, Worlds, FdStates

Reset(f) == [g \in Fds |-> [f[g] EXCEPT !.reads = 0, !.writes = 0]]

LEMMA ResetIs ==
  ASSUME NEW f \in [Fds -> FdStates]
  PROVE  /\ Reset(f) \in [Fds -> FdStates]
         /\ \A g \in Fds : /\ Reset(f)[g].eof = f[g].eof /\ Reset(f)[g].closed = f[g].closed
                           /\ Reset(f)[g].reads = 0 /\ Reset(f)[g].writes = 0
         /\ (\A g \in Fds : f[g].reads = 0 /\ f[g].writes = 0) => Reset(f) = f
<1>1. ASSUME NEW g \in Fds
      PROVE  /\ [f[g] EXCEPT !.reads = 0, !.writes = 0] \in FdStates
             /\ [f[g] EXCEPT !.reads = 0, !.writes = 0].eof = f[g].eof
             /\ [f[g] EXCEPT !.reads = 0, !.writes = 0].closed = f[g].closed
             /\ [f[g] EXCEPT !.reads = 0, !.writes = 0].reads = 0
             /\ [f[g] EXCEPT !.reads = 0, !.writes = 0].writes = 0
             /\ f[g].reads = 0 /\ f[g].writes = 0 =>
                  [f[g] EXCEPT !.reads = 0, !.writes = 0] = f[g]
  <2>1. f[g] \in FdStates
    OBVIOUS
  <2> QED BY <2>1 DEF FdStates
<1>2. \A g \in Fds : Reset(f)[g] = [f[g] EXCEPT !.reads = 0, !.writes = 0]
  BY DEF Reset
<1>3. Reset(f) \in [Fds -> FdStates]
  BY <1>1 DEF Reset
<1>4. \A g \in Fds : /\ Reset(f)[g].eof = f[g].eof /\ Reset(f)[g].closed = f[g].closed
                     /\ Reset(f)[g].reads = 0 /\ Reset(f)[g].writes = 0
  BY <1>1, <1>2, Zenon
<1>5. ASSUME \A g \in Fds : f[g].reads = 0 /\ f[g].writes = 0
      PROVE  Reset(f) = f
  <2>1. \A g \in Fds : Reset(f)[g] = f[g]
    BY <1>1, <1>2, <1>5, Zenon
  <2> QED BY <1>3, <2>1
<1> QED BY <1>3, <1>4, <1>5

LEMMA ResetBecomes ==
  ASSUME NEW w \in Worlds, NEW t \in BOOLEAN, w.thrown => t
  PROVE  Becomes(w, Whole(w.streams, w.shutdown, Reset(w.fd), w.os, t))
<1>1. PICK st, sh, f, o : st = w.streams /\ sh = w.shutdown /\ f = Reset(w.fd) /\ o = w.os
  OBVIOUS
<1>2. /\ st \in [Directions -> Streams(Nat)] /\ sh \in [Directions -> BOOLEAN]
      /\ f \in [Fds -> FdStates] /\ o \in Kernels
      /\ \A g \in Fds : f[g].eof = w.fd[g].eof /\ f[g].closed = w.fd[g].closed
  BY <1>1, WorldIs, ResetIs
<1>3. PICK v : v = Whole(st, sh, f, o, t)
  OBVIOUS
<1>4. v \in Worlds /\ v.streams = st /\ v.shutdown = sh /\ v.fd = f /\ v.os = o /\ v.thrown = t
  BY <1>2, <1>3, WholeIs
<1>5. Becomes(w, v)
  BY <1>1, <1>2, <1>4, Zenon DEF Becomes
<1> QED BY <1>1, <1>3, <1>5, Zenon

\* The world of the variables.
LEMMA TheWorld ==
  /\ World = Whole(streams, shutdown, fd, os, FALSE)
  /\ World.streams = streams /\ World.shutdown = shutdown /\ World.fd = fd /\ World.os = os
  /\ World.thrown = FALSE
<1>1. World = Whole(streams, shutdown, fd, os, FALSE)
  BY Zenon DEF World, Whole
<1>2. /\ World.streams = streams /\ World.shutdown = shutdown /\ World.fd = fd /\ World.os = os
      /\ World.thrown = FALSE
  BY DEF World
<1> QED BY <1>1, <1>2

\* At the start nothing has happened.
LEMMA InitIInv == Init => IInv
<1> SUFFICES ASSUME Init PROVE IInv
  OBVIOUS
<1>1. PICK x : x = NewStream(BufferSize) /\ x \in Streams(Nat)
  <2>1. BufferSize \in Nat /\ <<>> \in Seq(Seq(Nat))
    BY StreamCopyAssumption, EmptySeq
  <2>2. NewStream(BufferSize) \in Streams(Nat)
    BY <2>1 DEF NewStream, Streams
  <2> QED BY <2>2
<1>2. /\ Tiled(x) /\ x.capacity_ = BufferSize /\ x.totalPushed = 0 /\ x.totalPopped = 0
      /\ x.isClosed = FALSE /\ x.error_ = FALSE
  BY <1>1, StreamCopyAssumption DEF NewStream, Tiled, Tiles
<1>3. streams = [s \in Directions |-> x] /\ shutdown = [s \in Directions |-> FALSE]
  BY <1>1 DEF Init
<1>4. fd \in [Fds -> FdStates] /\ \A f \in Fds : ~fd[f].eof /\ ~fd[f].closed
                                  /\ fd[f].reads = 0 /\ fd[f].writes = 0
  BY DEF Init, FdStates
<1>5. /\ os \in Kernels /\ os.ended = {} /\ os.broken = {} /\ os.wrShut = FALSE
      /\ \A f \in Sources : os.avail[f] = <<>> /\ os.given[f] = 0
      /\ \A f \in Sinks : os.held[f] = <<>> /\ os.got[f] = <<>>
  <2>1. PICK b \in BOOLEAN :
          os = [ avail  |-> [f \in Sources |-> <<>>],  given |-> [f \in Sources |-> 0],
                 held   |-> [f \in Sinks |-> <<>>],    got   |-> [f \in Sinks |-> <<>>],
                 ended  |-> {}, broken |-> {}, wrShut |-> FALSE, stdinIsPipe |-> b ]
    BY DEF Init
  <2>2. <<>> \in Seq(Nat)
    BY EmptySeq
  <2>3. /\ [f \in Sources |-> <<>>] \in [Sources -> Seq(Nat)]
        /\ [f \in Sinks |-> <<>>] \in [Sinks -> Seq(Nat)]
        /\ [f \in Sources |-> 0] \in [Sources -> Nat]
    BY <2>2
  <2>4. PICK e, z, h : e = [f \in Sources |-> <<>>] /\ z = [f \in Sources |-> 0]
                       /\ h = [f \in Sinks |-> <<>>]
    OBVIOUS
  <2>5. os \in Kernels
    BY <2>1, <2>3, <2>4 DEF Kernels
  <2> QED BY <2>1, <2>5
<1>6. PICK w : w = World
  OBVIOUS
<1>7. /\ w \in Worlds /\ w.streams = streams /\ w.shutdown = shutdown /\ w.fd = fd /\ w.os = os
      /\ w.thrown = FALSE
  <2>1. streams \in [Directions -> Streams(Nat)] /\ shutdown \in [Directions -> BOOLEAN]
    BY <1>1, <1>3
  <2> QED BY <1>4, <1>5, <1>6, <2>1, TheWorld, WholeIs
<1>8. Bounds(os)
  BY <1>5, StreamCopyAssumption DEF Bounds, MaxGiven
<1>9. ASSUME NEW s \in Directions PROVE Carried(s, w.streams[s], w.os) /\ Ending(s, w)
  <2>1. Source(s) \in Sources /\ Sink(s) \in Sinks /\ Source(s) \in Fds /\ "stdout" \in Fds
    BY Names
  <2>2. w.streams[s] = x /\ ~w.shutdown[s]
    BY <1>3, <1>7
  <2>3. Bytes(0, 0) = <<>> /\ 0 - 0 = 0 /\ <<>> \o <<>> = <<>> /\ 0 <= 0
    BY BytesEmpty
  <2>4. Carried(s, x, os)
    BY <1>2, <1>5, <2>1, <2>3 DEF Carried
  <2>5. ~Tells(s, fd, os)
    BY <1>4, <1>5, <2>1 DEF Tells
  <2>6. Ending(s, w)
    BY <1>2, <1>4, <1>7, <2>1, <2>2, <2>5, Zenon DEF Ending
  <2> QED BY <1>7, <2>2, <2>4, <2>6
<1>10. Sane(w)
  BY <1>3, <1>4, <1>7, <1>8, <1>9, Names DEF Sane
<1>11. /\ loop = [at |-> "call", rules |-> Rules, pollfds |-> <<>>]
       /\ Rules \in Seq(RuleSet) /\ Sorted(Rules) /\ Len(Rules) = 4
  <2>1. Rules \in Seq(RuleSet) /\ Len(Rules) = 4
    BY DEF Rules, RuleSet, Directions
  <2>2. /\ Rules[1] = Rule("fill", "outbound") /\ Rules[2] = Rule("empty", "outbound")
        /\ Rules[3] = Rule("fill", "inbound") /\ Rules[4] = Rule("empty", "inbound")
    BY DEF Rules
  <2>3. \A i \in 1 .. 4 : Place(Rules[i]) = i
    BY <2>2 DEF Place, Rule
  <2>4. Sorted(Rules)
    BY <2>1, <2>3 DEF Sorted
  <2> QED BY <2>1, <2>4 DEF Init
<1>12. RulesOK(Rules, w)
  <2>1. ASSUME NEW s \in Directions
        PROVE  ~Absent(Rules, "fill", s) /\ ~Absent(Rules, "empty", s)
    <3>1. /\ Rules[1] = Rule("fill", "outbound") /\ Rules[2] = Rule("empty", "outbound")
          /\ Rules[3] = Rule("fill", "inbound") /\ Rules[4] = Rule("empty", "inbound")
      BY DEF Rules
    <3> QED BY <1>11, <3>1, Names DEF Absent
  <2> QED BY <1>11, <2>1 DEF RulesOK
<1>13. loop \in Loops
  <2>1. <<>> \in Seq(Entries)
    BY EmptySeq
  <2> QED BY <1>11, <2>1 DEF Loops
<1>14. loop.at = "call" /\ loop.rules = Rules
  BY <1>11
<1> QED BY <1>4, <1>6, <1>10, <1>11, <1>12, <1>13, <1>14 DEF IInv, ExitIsComplete

\* wait_next_event() up to its poll().
LEMMA SetUpKeeps == IInv /\ SetUp => IInv'
<1> SUFFICES ASSUME IInv, SetUp PROVE IInv'
  OBVIOUS
<1>1. PICK w : w = World /\ Sane(w) /\ ~w.thrown /\ RulesOK(loop.rules, w)
  BY TheWorld DEF SetUp, IInv
<1>2. /\ w.streams = streams /\ w.shutdown = shutdown /\ w.fd = fd /\ w.os = os
      /\ fd \in [Fds -> FdStates] /\ \A f \in Fds : fd[f].reads = 0 /\ fd[f].writes = 0
  BY <1>1, TheWorld, WorldIs DEF IInv, Sane
<1>3. PICK c : /\ c = Poller!SetUpPoll(loop.rules, w)
               /\ Become(c.world)
               /\ loop' = [ at      |-> IF Poller!SomethingToPoll(c.pollfds) THEN "poll" ELSE "exit",
                            rules   |-> [i \in DOMAIN c.pollfds |-> c.pollfds[i].rule],
                            pollfds |-> c.pollfds ]
  BY <1>1 DEF SetUp
<1>4. PICK new : new = RulesOf(c.pollfds)
  OBVIOUS
<1>5. /\ c.world = w /\ c.pollfds \in Seq(Entries) /\ RulesOK(new, w)
      /\ Len(c.pollfds) = Len(new)
      /\ \A i \in 1 .. Len(new) : Asks(c.pollfds[i], new[i], w)
      /\ ~Poller!SomethingToPoll(c.pollfds) => \A s \in Directions : Complete(s, w)
  <2>1. PICK rules : rules = loop.rules /\ RulesOK(rules, w) /\ c = Poller!SetUpPoll(rules, w)
    BY <1>1, <1>3
  <2> QED BY <1>1, <1>4, <2>1, SetUpIs
<1>6. /\ streams' = streams /\ shutdown' = shutdown /\ os' = os /\ fd' = fd
  <2>1. fd' = Reset(w.fd) /\ streams' = streams /\ shutdown' = shutdown /\ os' = os
    BY <1>2, <1>3, <1>5 DEF Become, Reset
  <2> QED BY <1>2, <2>1, ResetIs
<1>7. World' = w
  BY <1>1, <1>6 DEF World
<1>8. /\ loop'.rules = new /\ loop'.pollfds = c.pollfds /\ loop' \in Loops
      /\ loop'.at \in {"poll", "exit"}
      /\ loop'.at = "exit" => ~Poller!SomethingToPoll(c.pollfds)
  <2>1. new \in Seq(RuleSet)
    BY <1>5 DEF RulesOK
  <2>2. PICK at \in {"poll", "exit"} : /\ loop' = [at |-> at, rules |-> new, pollfds |-> c.pollfds]
                                       /\ at = "exit" => ~Poller!SomethingToPoll(c.pollfds)
    BY <1>3, <1>4 DEF RulesOf
  <2> QED BY <1>5, <2>1, <2>2 DEF Loops
<1>9. Polled(loop', w)
  BY <1>5, <1>8 DEF Polled
<1>10. ExitIsComplete'
  <2> SUFFICES ASSUME loop'.at = "exit", NEW s \in Directions
               PROVE  \/ streams'[s].error_
                      \/ /\ Source(s) \in os'.ended /\ os'.avail[Source(s)] = <<>>
                         /\ streams'[s].deck_ = <<>> /\ Told(s)'
    BY DEF ExitIsComplete
  <2>1. Complete(s, w)
    BY <1>5, <1>8
  <2>2. Told(s)' <=> Tells(s, fd, os)
    BY <1>6 DEF Told, Tells
  <2> QED BY <1>2, <1>6, <2>1, <2>2 DEF Complete
<1>11. Sorted(loop'.rules)
  BY <1>5, <1>8 DEF RulesOK
<1> QED BY <1>1, <1>2, <1>5, <1>6, <1>7, <1>8, <1>9, <1>10, <1>11 DEF IInv

\* What poll() reports is so at that moment.
LEMMA ReventsReported ==
  ASSUME NEW o, NEW p, p.rule \in RuleSet, p.events \subseteq {"In", "Out"},
         p.revents = Revents(p, FdOf(p.rule), o)
  PROVE  p.revents \subseteq Events /\ Reported(p, o)
<1>1. PICK r, f : r \in RuleSet /\ r = p.rule /\ f = FdOf(r)
  OBVIOUS
<1>2. PICK in, out, hup, R :
        /\ in = (CanRead(f, o) \/ (f \in o.ended /\ ~(f = "stdin" /\ o.stdinIsPipe)))
        /\ out = (Room(f, o) > 0 \/ (f = "socket" /\ o.wrShut))
        /\ hup = (\/ f = "stdin" /\ f \in o.ended /\ o.stdinIsPipe
                  \/ f = "socket" /\ f \in o.ended /\ o.wrShut)
        /\ R = p.revents
  OBVIOUS
<1>3. R = {e \in p.events : IF e = "In" THEN in ELSE out}
            \cup (IF hup THEN {"HUP"} ELSE {})
            \cup (IF Broken(f, o) THEN {"ERR", "HUP"} ELSE {})
  BY <1>1, <1>2, Zenon DEF Revents
<1>4. /\ "ERR" \in R => Broken(f, o)
      /\ "HUP" \in R /\ "ERR" \notin R => hup
      /\ "In" \in p.events /\ "In" \notin R => ~in
      /\ "In" \in R => in
      /\ "Out" \in R => out
      /\ R \subseteq Events
  BY <1>3 DEF Events
<1> QED BY <1>1, <1>2, <1>4 DEF Reported, CanRead, Broken

LEMMA PollKeeps == IInv /\ Poll => IInv'
<1> SUFFICES ASSUME IInv, Poll PROVE IInv'
  OBVIOUS
<1>1. PICK w : w = World /\ Sane(w) /\ RulesOK(loop.rules, w) /\ Polled(loop, w)
  BY DEF Poll, IInv
<1>2. UNCHANGED <<streams, shutdown, fd, os>> /\ World' = w
  BY <1>1 DEF Poll, World
<1>3. PICK old, n, rules :
        /\ old = loop.pollfds /\ old \in Seq(Entries) /\ n = Len(old) /\ n \in Nat /\ rules = loop.rules
        /\ rules \in Seq(RuleSet) /\ Sorted(rules) /\ n = Len(rules)
  <2>1. loop.pollfds \in Seq(Entries) /\ loop.rules \in Seq(RuleSet)
    BY DEF IInv, Loops
  <2>2. Len(loop.pollfds) \in Nat
    BY <2>1
  <2>3. Sorted(loop.rules) /\ Len(loop.pollfds) = Len(loop.rules)
    BY <1>1, Zenon DEF IInv, Polled
  <2> QED BY <2>1, <2>2, <2>3
<1>4. PICK new :
        /\ new = [i \in 1 .. n |-> [ rule |-> old[i].rule, events |-> old[i].events,
                                     revents |-> Revents(old[i], FdOf(old[i].rule), os) ]]
        /\ loop'.at = "serve" /\ loop'.rules = rules /\ loop'.pollfds = new
        /\ loop' = [at |-> "serve", rules |-> rules, pollfds |-> new]
  <2>1. DOMAIN old = 1 .. n
    <3>1. \A q \in Seq(Entries) : DOMAIN q = 1 .. Len(q)
      OBVIOUS
    <3> QED BY <1>3, <3>1, Zenon
  <2>2. PICK new : new = [i \in 1 .. n |-> [ rule |-> old[i].rule, events |-> old[i].events,
                                             revents |-> Revents(old[i], FdOf(old[i].rule), os) ]]
    OBVIOUS
  <2>3. loop' = [loop EXCEPT !.at = "serve", !.pollfds = new]
    BY <1>3, <2>1, <2>2 DEF Poll
  <2>4. loop' = [at |-> "serve", rules |-> rules, pollfds |-> new]
    BY <1>3, <2>3 DEF IInv, Loops
  <2> QED BY <2>2, <2>4
<1>5. ASSUME NEW i \in 1 .. n
      PROVE  /\ new[i] \in Entries /\ Asks(new[i], rules[i], w) /\ Reported(new[i], os)
  <2>1. PICK p, r : p = old[i] /\ r = rules[i] /\ r \in RuleSet /\ Asks(p, r, w)
    <3>1. \A j \in 1 .. Len(loop.rules) : Asks(loop.pollfds[j], loop.rules[j], w)
      BY <1>1, Zenon DEF Polled
    <3>2. Asks(old[i], rules[i], w) /\ rules[i] \in RuleSet
      BY <1>3, <3>1
    <3> QED BY <3>2
  <2>2. PICK q : q = new[i]
    OBVIOUS
  <2>3. q = [rule |-> p.rule, events |-> p.events, revents |-> Revents(p, FdOf(p.rule), os)]
    BY <1>4, <2>1, <2>2, Zenon
  <2>4. PICK R : R = Revents(p, FdOf(p.rule), os)
    OBVIOUS
  <2>5. q.rule = p.rule /\ q.events = p.events /\ q.revents = R /\ q = [rule |-> r, events |-> q.events, revents |-> R]
    BY <2>1, <2>3, <2>4 DEF Asks
  <2>6. Asks(q, r, w)
    BY <2>1, <2>5 DEF Asks
  <2>7. q.rule \in RuleSet /\ q.events \subseteq {"In", "Out"}
    BY <2>1, <2>6 DEF Asks, DirectionOf
  <2>8. q.revents = Revents(q, FdOf(q.rule), os)
    BY <2>4, <2>5 DEF Revents
  <2>9. q.revents \subseteq Events /\ Reported(q, os)
    BY <2>7, <2>8, ReventsReported
  <2>10. q \in Entries
    BY <2>5, <2>7, <2>9 DEF Entries, Events
  <2> QED BY <2>1, <2>2, <2>6, <2>9, <2>10
<1>6. new \in Seq(Entries) /\ Len(new) = n
  <2>1. \A i \in 1 .. n : new[i] \in Entries
    BY <1>5
  <2>2. new = [i \in 1 .. n |-> new[i]]
    BY <1>4
  <2>3. new \in [1 .. n -> Entries]
    BY <2>1, <2>2
  <2>4. n \in Nat
    BY <1>3
  <2> QED BY <2>3, <2>4
<1>7. loop' \in Loops /\ Polled(loop', w)
  BY <1>3, <1>4, <1>5, <1>6 DEF Loops, Polled
<1>8. \A i \in 1 .. Len(loop'.pollfds) : Reported(loop'.pollfds[i], os')
  BY <1>2, <1>4, <1>5, <1>6
<1>9. ExitIsComplete'
  BY <1>4 DEF ExitIsComplete
<1> QED BY <1>1, <1>2, <1>3, <1>4, <1>7, <1>8, <1>9 DEF IInv

\* The rest of wait_next_event().
ServedBy(c, w) ==
  /\ c = Poller!ServePolled(loop.pollfds, w)
  /\ Become(c.world)
  /\ loop' = [ at      |-> IF c.world.thrown \/ c.busyWait THEN "died" ELSE "call",
               rules   |-> c.rules,
               pollfds |-> <<>> ]

LEMMA ServeDoes ==
  ASSUME IInv, Serve
  PROVE  \E w, c : /\ w = World /\ Sane(w) /\ w.thrown = FALSE /\ ServedBy(c, w)
                   /\ Sane(c.world) /\ RulesOK(c.rules, c.world)
                   /\ c.world.os.ended = w.os.ended /\ c.world.os.broken = w.os.broken
                   /\ c.busyWait \/ c.world.thrown => w.os.broken # {}
                   /\ \A t \in Directions :
                        Tells(t, c.world.fd, c.world.os) =>
                          Tells(t, w.fd, w.os) \/ c.world.os.avail = w.os.avail
<1>1. PICK w : w = World /\ Sane(w) /\ w.thrown = FALSE /\ w.os = os /\ RulesOK(loop.rules, w)
               /\ Polled(loop, w) /\ \A i \in 1 .. Len(loop.pollfds) : Reported(loop.pollfds[i], w.os)
  BY TheWorld DEF Serve, IInv
<1>2. PICK c : ServedBy(c, w)
  BY <1>1 DEF Serve, ServedBy
<1>3. PICK pollfds, rules : /\ pollfds = loop.pollfds /\ rules = loop.rules
                            /\ pollfds \in Seq(Entries)
  BY DEF IInv, Loops
<1>4. Served(pollfds, rules, w)
  <2>1. rules \in Seq(RuleSet) /\ Sorted(rules)
    BY <1>1, <1>3, Zenon DEF RulesOK
  <2>2. /\ Len(pollfds) = Len(rules)
        /\ \A i \in 1 .. Len(rules) : Asks(pollfds[i], rules[i], w)
    BY <1>1, <1>3, Zenon DEF Polled
  <2>3. \A i \in 1 .. Len(rules) : Reported(pollfds[i], w.os)
    BY <1>1, <1>3, <2>2
  <2> QED BY <2>1, <2>2, <2>3, Zenon DEF Served
<1>5. RulesOK(rules, w) /\ c = Poller!ServePolled(pollfds, w) /\ ~w.thrown
  BY <1>1, <1>2, <1>3, Zenon DEF ServedBy
<1>6. /\ Sane(c.world) /\ RulesOK(c.rules, c.world)
      /\ c.world.os.ended = w.os.ended /\ c.world.os.broken = w.os.broken
      /\ c.busyWait \/ c.world.thrown => w.os.broken # {}
      /\ \A t \in Directions :
           Tells(t, c.world.fd, c.world.os) =>
             Tells(t, w.fd, w.os) \/ c.world.os.avail = w.os.avail
  BY <1>1, <1>3, <1>4, <1>5, ServeIs
<1> QED BY <1>1, <1>2, <1>6, Zenon

LEMMA ServeKeeps == IInv /\ Serve => IInv'
<1> SUFFICES ASSUME IInv, Serve PROVE IInv'
  OBVIOUS
<1>1. PICK w, c : /\ w = World /\ Sane(w) /\ w.thrown = FALSE /\ ServedBy(c, w)
                  /\ Sane(c.world) /\ RulesOK(c.rules, c.world)
                  /\ c.world.os.ended = w.os.ended /\ c.world.os.broken = w.os.broken
                  /\ c.busyWait \/ c.world.thrown => w.os.broken # {}
  BY ServeDoes, Zenon
<1>2. PICK v : v = c.world /\ v \in Worlds /\ Sane(v)
  BY <1>1 DEF Sane
<1>3. streams' = v.streams /\ shutdown' = v.shutdown /\ fd' = Reset(v.fd) /\ os' = v.os
  BY <1>1, <1>2 DEF ServedBy, Become, Reset
<1>4. PICK at \in {"call", "died"} :
        /\ loop' = [at |-> at, rules |-> c.rules, pollfds |-> <<>>]
        /\ at = "call" => ~v.thrown
        /\ at = "died" => w.os.broken # {}
  BY <1>1, <1>2 DEF ServedBy
<1>5. loop'.at = at /\ loop'.rules = c.rules
  BY <1>4
<1>6. loop' \in Loops /\ Sorted(loop'.rules)
  <2>1. c.rules \in Seq(RuleSet) /\ Sorted(c.rules)
    BY <1>1 DEF RulesOK
  <2>2. <<>> \in Seq(Entries)
    BY EmptySeq
  <2> QED BY <1>4, <1>5, <2>1, <2>2 DEF Loops
<1>7. \A f \in Fds : fd'[f].reads = 0 /\ fd'[f].writes = 0
  BY <1>2, <1>3, WorldIs, ResetIs
<1>8. ASSUME NEW t \in BOOLEAN, v.thrown => t
      PROVE  /\ Sane(Whole(streams', shutdown', fd', os', t))
             /\ RulesOK(c.rules, Whole(streams', shutdown', fd', os', t))
  <2>1. PICK u : u = Whole(v.streams, v.shutdown, Reset(v.fd), v.os, t)
    OBVIOUS
  <2>2. Becomes(v, u)
    BY <1>2, <1>8, <2>1, ResetBecomes
  <2>3. Sane(u) /\ RulesOK(c.rules, u)
    BY <1>1, <1>2, <2>2, BecomesSane
  <2> QED BY <1>3, <2>1, <2>3, Zenon
<1>9. at = "died" => os'.broken # {} /\ Sane(Whole(streams', shutdown', fd', os', TRUE))
  BY <1>1, <1>2, <1>3, <1>4, <1>8
<1>10. at # "died" => Sane(World') /\ RulesOK(loop'.rules, World')
  <2>1. World' = Whole(streams', shutdown', fd', os', FALSE)
    BY Zenon DEF World, Whole
  <2>2. at # "died" => ~v.thrown
    BY <1>4
  <2> QED BY <1>5, <1>8, <2>1, <2>2
<1>11. loop'.at \notin {"poll", "serve", "exit"}
  BY <1>4, <1>5
<1>12. ExitIsComplete'
  BY <1>11 DEF ExitIsComplete
<1> QED BY <1>5, <1>6, <1>7, <1>9, <1>10, <1>11, <1>12 DEF IInv

\* A move of another end.
LEMMA OthersKeep ==
  ASSUME IInv, Running, UNCHANGED <<streams, shutdown, fd, loop>>, Moves(os, os')
  PROVE  IInv'
<1>1. PICK w : w = World /\ Sane(w) /\ RulesOK(loop.rules, w)
               /\ (loop.at \in {"poll", "serve"} => Polled(loop, w))
  BY DEF IInv, Running
<1>2. /\ w.streams = streams /\ w.shutdown = shutdown /\ w.fd = fd /\ w.os = os /\ w.thrown = FALSE
      /\ w \in Worlds
  BY <1>1, TheWorld DEF Sane
<1>3. PICK v : v = World'
  OBVIOUS
<1>4. /\ v \in Worlds /\ v.streams = w.streams /\ v.shutdown = w.shutdown /\ v.fd = w.fd
      /\ v.os = os' /\ v.thrown = w.thrown
  <2>1. v = Whole(w.streams, w.shutdown, w.fd, os', FALSE)
    BY <1>2, <1>3, Zenon DEF World, Whole
  <2>2. os' \in Kernels
    BY DEF Moves
  <2>3. PICK st, sh, f, o, t : /\ st = w.streams /\ sh = w.shutdown /\ f = w.fd /\ o = os'
                              /\ t = FALSE /\ t \in BOOLEAN
    OBVIOUS
  <2>4. /\ st \in [Directions -> Streams(Nat)] /\ sh \in [Directions -> BOOLEAN]
        /\ f \in [Fds -> FdStates] /\ o \in Kernels
    BY <1>2, <2>2, <2>3, WorldIs
  <2>5. v = Whole(st, sh, f, o, t)
    BY <2>1, <2>3, Zenon
  <2>6. v \in Worlds /\ v.streams = st /\ v.shutdown = sh /\ v.fd = f /\ v.os = o /\ v.thrown = t
    BY <2>3, <2>4, <2>5, WholeIs
  <2> QED BY <1>2, <2>3, <2>6
<1>5. /\ Sane(v) /\ RulesOK(loop.rules, v) /\ (Polled(loop, w) => Polled(loop, v))
  <2>1. Moves(w.os, v.os)
    BY <1>2, <1>4
  <2> QED BY <1>1, <1>4, <2>1, MovesOn
<1>6. ASSUME loop.at = "serve", NEW i \in 1 .. Len(loop.pollfds)
      PROVE  Reported(loop.pollfds[i], os')
  <2>1. os \in Kernels
    BY <1>2, WorldIs
  <2>2. PICK p : p = loop.pollfds[i] /\ Reported(p, os)
    BY <1>6 DEF IInv
  <2>3. p \in Entries
    <3>1. loop.pollfds \in Seq(Entries)
      BY DEF IInv, Loops
    <3> QED BY <2>2, <3>1
  <2>4. p.rule \in RuleSet
    BY <2>3 DEF Entries
  <2> QED BY <2>1, <2>2, <2>4, ReportedOn
<1>7. loop' = loop /\ fd' = fd /\ loop.at \notin {"exit", "died"}
  BY DEF Running
<1>8. ExitIsComplete'
  BY <1>7 DEF ExitIsComplete
<1> QED BY <1>1, <1>3, <1>5, <1>6, <1>7, <1>8 DEF IInv

LEMMA NextIInv == IInv /\ [Next]_vars => IInv'
<1> SUFFICES ASSUME IInv, [Next]_vars PROVE IInv'
  OBVIOUS
<1>1. CASE WaitNextEvent
  BY <1>1, SetUpKeeps, PollKeeps, ServeKeeps DEF WaitNextEvent
<1>2. ASSUME Running PROVE os \in Kernels /\ Bounds(os)
  <2>1. PICK w : w = World /\ Sane(w)
    BY <1>2 DEF IInv, Running
  <2>2. w.os = os /\ w \in Worlds /\ Bounds(w.os)
    BY <2>1, TheWorld DEF Sane
  <2> QED BY <2>2, WorldIs
<1>3. ASSUME NEW f \in Sources, Give(f) PROVE IInv'
  <2>1. /\ os' = Given(os, f) /\ Running /\ UNCHANGED <<streams, shutdown, fd, loop>>
        /\ os.given[f] < MaxGiven(f) /\ Len(os.avail[f]) < ReadRoom /\ f \notin os.ended
    BY <1>3 DEF Give, Given
  <2>2. Moves(os, os')
    BY <1>2, <2>1, GiveMoves
  <2> QED BY <2>1, <2>2, OthersKeep
<1>4. ASSUME NEW f \in Sources, End(f) PROVE IInv'
  <2>1. os' = Ended(os, f) /\ Running /\ UNCHANGED <<streams, shutdown, fd, loop>> /\ f \in Fds
    BY <1>4, Names DEF End, Ended
  <2>2. Moves(os, os')
    BY <1>2, <2>1, EndMoves
  <2> QED BY <2>1, <2>2, OthersKeep
<1>5. ASSUME NEW f \in Sinks, Take(f) PROVE IInv'
  <2>1. os' = Taken(os, f) /\ Running /\ UNCHANGED <<streams, shutdown, fd, loop>>
    BY <1>5 DEF Take, Taken
  <2>2. Moves(os, os')
    BY <1>2, <2>1, TakeMoves
  <2> QED BY <2>1, <2>2, OthersKeep
<1>6. ASSUME NEW f \in Fds, Break(f) PROVE IInv'
  <2>1. os' = Damaged(os, f) /\ Running /\ UNCHANGED <<streams, shutdown, fd, loop>>
    BY <1>6 DEF Break, Damaged
  <2>2. Moves(os, os')
    BY <1>2, <2>1, EndMoves
  <2> QED BY <2>1, <2>2, OthersKeep
<1>7. CASE UNCHANGED vars
  <2>1. /\ streams' = streams /\ shutdown' = shutdown /\ fd' = fd /\ os' = os /\ loop' = loop
    BY <1>7 DEF vars
  <2>2. World' = World
    BY <2>1 DEF World
  <2>3. ExitIsComplete'
    BY <2>1 DEF ExitIsComplete, Told, IInv
  <2> QED BY <2>1, <2>2, <2>3 DEF IInv
<1> QED BY <1>1, <1>3, <1>4, <1>5, <1>6, <1>7 DEF Next

-----------------------------------------------------------------------------
(* The theorems.                                                           *)

\* Dead or alive, the program's variables make a world in good order.
LEMMA InOrder ==
  ASSUME IInv
  PROVE  \E w : /\ Sane(w) /\ w.streams = streams /\ w.shutdown = shutdown /\ w.fd = fd /\ w.os = os
                /\ loop.at # "died" => w = World /\ w.thrown = FALSE
<1>1. CASE loop.at = "died"
  <2>1. PICK w : w = Whole(streams, shutdown, fd, os, TRUE) /\ Sane(w)
    BY <1>1 DEF IInv
  <2>2. w.streams = streams /\ w.shutdown = shutdown /\ w.fd = fd /\ w.os = os
    BY <2>1 DEF Whole
  <2> QED BY <1>1, <2>1, <2>2
<1>2. CASE loop.at # "died"
  <2>1. Sane(World)
    BY <1>2 DEF IInv
  <2> QED BY <2>1, TheWorld, Zenon
<1> QED BY <1>1, <1>2

LEMMA IInvTyped == IInv => TypeOK
<1> SUFFICES ASSUME IInv PROVE TypeOK
  OBVIOUS
<1>1. PICK w : /\ Sane(w) /\ w.streams = streams /\ w.shutdown = shutdown /\ w.fd = fd /\ w.os = os
               /\ w \in Worlds
  BY InOrder DEF Sane
<1>2. \A s \in Directions : streams[s] \in Streams(Nat) /\ Tiled(streams[s])
  <2>1. streams \in [Directions -> Streams(Nat)] /\ \A s \in Directions : Carried(s, streams[s], os)
    BY <1>1, WorldIs DEF Sane
  <2> QED BY <2>1 DEF Carried
<1>3. shutdown \in [Directions -> BOOLEAN] /\ fd \in [Fds -> FdStates] /\ os \in Kernels
  BY <1>1, WorldIs
<1>4. fd \in [Fds -> [eof : BOOLEAN, closed : BOOLEAN, reads : {0}, writes : {0}]]
  BY <1>3 DEF IInv, FdStates
<1>5. loop \in Loops /\ Sorted(loop.rules)
  BY DEF IInv
<1>6. IsInjective(loop.rules) /\ ToSet(loop.rules) \subseteq ToSet(Rules)
  <2>1. PICK rules, n : /\ rules = loop.rules /\ rules \in Seq(RuleSet) /\ n = Len(rules)
                        /\ n \in Nat /\ DOMAIN rules = 1 .. n
    <3>1. \A q \in Seq(RuleSet) : Len(q) \in Nat /\ DOMAIN q = 1 .. Len(q)
      OBVIOUS
    <3>2. loop.rules \in Seq(RuleSet)
      BY <1>5 DEF Loops
    <3> QED BY <3>1, <3>2, Zenon
  <2>2. ASSUME NEW i \in 1 .. n, NEW j \in 1 .. n, rules[i] = rules[j]
        PROVE  i = j
    <3>1. PICK p : p = Place(rules[i]) /\ p = Place(rules[j]) /\ p \in Nat
      BY <2>2 DEF Place
    <3>2. \A a, b \in 1 .. n : a < b => Place(rules[a]) < Place(rules[b])
      BY <1>5, <2>1, Zenon DEF Sorted
    <3>3. ~(p < p)
      BY <3>1
    <3>4. ~(i < j) /\ ~(j < i)
      BY <3>1, <3>2, <3>3, Zenon
    <3> QED BY <3>4
  <2>3. IsInjective(rules)
    BY <2>1, <2>2, Zenon DEF IsInjective
  <2>4. RuleSet \subseteq ToSet(Rules)
    <3>1. /\ Rules[1] = Rule("fill", "outbound") /\ Rules[2] = Rule("empty", "outbound")
          /\ Rules[3] = Rule("fill", "inbound") /\ Rules[4] = Rule("empty", "inbound")
          /\ DOMAIN Rules = 1 .. 4
      BY DEF Rules
    <3>2. \A i \in 1 .. 4 : Rules[i] \in ToSet(Rules)
      BY <3>1 DEF ToSet
    <3>3. \A r \in RuleSet : r \in {Rules[1], Rules[2], Rules[3], Rules[4]}
      BY <3>1 DEF RuleSet, Directions
    <3> QED BY <3>2, <3>3
  <2>5. ToSet(rules) \subseteq RuleSet
    BY <2>1 DEF ToSet
  <2> QED BY <2>1, <2>3, <2>4, <2>5
<1>7. /\ \A f \in Sources : os.given[f] \in 0 .. MaxGiven(f) /\ Len(os.avail[f]) <= ReadRoom
      /\ \A f \in Sinks : Len(os.held[f]) <= WriteRoom
  <2>1. \A f \in Sources : MaxGiven(f) \in Nat
    BY StreamCopyAssumption DEF MaxGiven
  <2>2. \A f \in Sources : os.given[f] \in Nat
    BY <1>3, KernelIs
  <2>3. Bounds(os)
    BY <1>1 DEF Sane
  <2> QED BY <2>1, <2>2, <2>3 DEF Bounds
<1>8. os.ended \subseteq Sources /\ os.broken \subseteq Fds
  BY <1>3, KernelIs
<1>9. loop.at \in {"call", "poll", "serve", "exit", "died"}
  BY <1>5 DEF Loops
<1> QED BY <1>2, <1>3, <1>4, <1>6, <1>7, <1>8, <1>9 DEF TypeOK

\* Whatever fails, every byte that either side ever gave is in its place: taken or held at
\* the sink, in the stream, or still in the kernel's hands, in that order.
LEMMA IInvKeeps == IInv => BytesKept
<1> SUFFICES ASSUME IInv, NEW s \in Directions
             PROVE  os.got[Sink(s)] \o os.held[Sink(s)] \o FlattenSeq(streams[s].deck_)
                      \o os.avail[Source(s)] = Bytes(0, os.given[Source(s)])
  BY DEF BytesKept
<1>1. PICK w : /\ Sane(w) /\ w.streams = streams /\ w.os = os /\ w \in Worlds
  BY InOrder DEF Sane
<1>2. PICK x \in Streams(Nat) : x = streams[s] /\ Carried(s, x, os)
  BY <1>1, WorldIs DEF Sane
<1>3. PICK p \in Nat, q \in Nat, g \in Nat :
        p = x.totalPopped /\ q = x.totalPushed /\ g = os.given[Source(s)] /\ q <= g
  BY <1>1, <1>2, StreamFields, WorldIs, KernelIs, Names DEF Carried
<1>4. Tiles(x.deck_, p, q) /\ x.deck_ \in Seq(Seq(Nat))
  BY <1>2, <1>3, StreamFields, Zenon DEF Carried, Tiled
<1>5. p <= q /\ FlattenSeq(x.deck_) = Bytes(p, q - p)
  BY <1>4, FlattenTiles
<1>6. PICK m \in Nat, n \in Nat : m = q - p /\ n = g - q /\ p + m = q /\ q + n = g
                                  /\ 0 + p = p /\ 0 + q = q
  <2>1. q - p \in Nat /\ g - q \in Nat /\ p + (q - p) = q /\ q + (g - q) = g
    BY <1>3, <1>5
  <2> QED BY <2>1
<1>7. Bytes(0, p) \o Bytes(p, m) = Bytes(0, q)
  <2>1. Bytes(0, p) \o Bytes(0 + p, m) = Bytes(0, p + m)
    BY BytesConcat
  <2> QED BY <1>6, <2>1, Zenon
<1>8. Bytes(0, q) \o Bytes(q, n) = Bytes(0, g)
  <2>1. Bytes(0, q) \o Bytes(0 + q, n) = Bytes(0, q + n)
    BY BytesConcat
  <2> QED BY <1>6, <2>1, Zenon
<1>9. os.got[Sink(s)] \o os.held[Sink(s)] = Bytes(0, p) /\ os.avail[Source(s)] = Bytes(q, n)
  BY <1>2, <1>3, <1>6, Zenon DEF Carried
<1> QED BY <1>2, <1>3, <1>5, <1>6, <1>7, <1>8, <1>9, Zenon

\* The members keep their types, every stream its tiling and the list of rules its order,
\* and the kernel its limits, for all sizes.
THEOREM StreamCopyTyped == Spec => []TypeOK
<1> QED BY IInvTyped, InitIInv, NextIInv, PTL DEF Spec

\* No byte is lost, repeated or overtaken between a source and the other side of its sink,
\* however short the reads and writes are and whatever fails.
THEOREM StreamCopyKeepsBytes == Spec => []BytesKept
<1> QED BY IInvKeeps, InitIInv, NextIInv, PTL DEF Spec

\* wait_next_event() returns Exit, with no error in the streams, only when the work of both
\* directions is done.
THEOREM StreamCopyExitIsComplete == Spec => []ExitIsComplete
<1>1. IInv => ExitIsComplete
  BY DEF IInv
<1> QED BY <1>1, InitIInv, NextIInv, PTL DEF Spec

\* Neither "busy wait detected" nor "write returned 0" ends the program, unless another end
\* has failed.
THEOREM StreamCopyDiesOfOthers == Spec => []DiesOfOthers
<1>1. IInv => DiesOfOthers
  BY DEF IInv, DiesOfOthers
<1> QED BY <1>1, InitIInv, NextIInv, PTL DEF Spec

\* Only a callback tells a sink, and of a stream that is finished.
LEMMA TellsLast ==
  IInv /\ [Next]_vars =>
    [\A s \in Directions :
       Told(s)' /\ ~Told(s) =>
         \/ streams'[s].error_
         \/ /\ Source(s) \in os.ended
            /\ os.avail[Source(s)] = <<>> /\ streams'[s].deck_ = <<>>]_vars
<1> SUFFICES ASSUME IInv, Next, NEW s \in Directions, Told(s)', ~Told(s), ~streams'[s].error_
             PROVE  /\ Source(s) \in os.ended
                    /\ os.avail[Source(s)] = <<>> /\ streams'[s].deck_ = <<>>
  OBVIOUS
<1>1. CASE Serve
  <2>1. PICK w, c : /\ w = World /\ Sane(w) /\ ServedBy(c, w) /\ Sane(c.world)
                    /\ c.world.os.ended = w.os.ended
                    /\ \A t \in Directions :
                         Tells(t, c.world.fd, c.world.os) =>
                           Tells(t, w.fd, w.os) \/ c.world.os.avail = w.os.avail
    BY <1>1, ServeDoes, Zenon
  <2>2. PICK v : v = c.world /\ v \in Worlds /\ Sane(v)
    BY <2>1 DEF Sane
  <2>3. streams' = v.streams /\ fd' = Reset(v.fd) /\ os' = v.os
    BY <2>1, <2>2 DEF ServedBy, Become, Reset
  <2>4. w.fd = fd /\ w.os = os
    BY <2>1, TheWorld
  <2>5. Tells(s, v.fd, v.os)
    <3>1. fd'["stdout"].closed = v.fd["stdout"].closed
      BY <2>2, <2>3, WorldIs, ResetIs, Names
    <3> QED BY <2>3, <3>1 DEF Told, Tells
  <2>6. ~Tells(s, w.fd, w.os)
    BY <2>4 DEF Told, Tells
  <2>7. v.os.avail = os.avail /\ v.os.ended = os.ended
    BY <2>1, <2>2, <2>4, <2>5, <2>6
  <2>8. Ending(s, v)
    BY <2>2 DEF Sane
  <2> QED BY <2>3, <2>5, <2>7, <2>8 DEF Ending, IsFinished
<1>2. CASE SetUp
  <2>1. PICK w : w = World /\ Sane(w) /\ ~w.thrown /\ RulesOK(loop.rules, w)
    BY <1>2, TheWorld DEF SetUp, IInv
  <2>2. PICK rules, c : /\ rules = loop.rules /\ c = Poller!SetUpPoll(rules, w) /\ Become(c.world)
    BY <1>2, <2>1 DEF SetUp
  <2>3. c.world = w
    <3>1. PICK new : new = RulesOf(c.pollfds)
      OBVIOUS
    <3> QED BY <2>1, <2>2, <3>1, SetUpIs
  <2>4. w.fd = fd /\ w.os = os /\ w.fd \in [Fds -> FdStates]
    BY <2>1, TheWorld, WorldIs DEF Sane
  <2>5. os' = os /\ fd' = Reset(fd)
    BY <2>2, <2>3, <2>4 DEF Become, Reset
  <2>6. fd'["stdout"].closed = fd["stdout"].closed
    BY <2>4, <2>5, ResetIs, Names
  <2> QED BY <2>5, <2>6 DEF Told
<1>3. CASE Poll
  BY <1>3 DEF Poll, Told
<1>4. ASSUME fd' = fd, os'.wrShut = os.wrShut PROVE FALSE
  BY <1>4 DEF Told
<1>5. os \in Kernels
  BY InOrder, WorldIs DEF Sane
<1>6. ASSUME NEW f \in Sources, Give(f) \/ End(f) PROVE FALSE
  BY <1>4, <1>5, <1>6 DEF Give, End, Kernels
<1>7. ASSUME NEW f \in Sinks, Take(f) PROVE FALSE
  BY <1>4, <1>5, <1>7 DEF Take, Kernels
<1>8. ASSUME NEW f \in Fds, Break(f) PROVE FALSE
  BY <1>4, <1>5, <1>8 DEF Break, Kernels
<1> QED BY <1>1, <1>2, <1>3, <1>6, <1>7, <1>8 DEF Next, WaitNextEvent

\* The peer is told of the end of the input, and stdout is closed, only behind the last byte.
THEOREM StreamCopyEndIsLast == Spec => EndIsLast
<1> QED BY TellsLast, InitIInv, NextIInv, PTL DEF Spec, EndIsLast
=============================================================================

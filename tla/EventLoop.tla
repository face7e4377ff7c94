----------------------------- MODULE EventLoop -----------------------------
(***************************************************************************)
(* EventLoop::wait_next_event() of src/util/eventloop.cc for the rules     *)
(* that watch a file descriptor, on either side of its poll(2).  A world   *)
(* is whatever the callbacks read and change; the module that owns a loop  *)
(* says what its rules do to it.  No rule of src/ is without a descriptor  *)
(* and nothing calls RuleHandle::cancel(), so neither appears here.        *)
(***************************************************************************)
EXTENDS Integers, SequencesExt

CONSTANTS
  FdOf(_),                \* the descriptor a rule watches
  DirectionOf(_),         \* "In" or "Out"
  Interested(_, _),       \* the callbacks of a rule, in a world
  Callback(_, _),
  OnCancel(_, _),
  OnError(_, _),
  Eof(_, _),              \* what FileDescriptor knows of a descriptor, in a world
  Closed(_, _),
  ReadCount(_, _),
  WriteCount(_, _)

\* f( v ), with v worked out once.
Once(f(_), v) == CHOOSE fv \in {f(x) : x \in {v}} : TRUE

\* Faulty count: each direction looks at the other's counter.
ServiceCountSwapped(r, w) ==
  IF DirectionOf(r) = "Out" THEN ReadCount(FdOf(r), w) ELSE WriteCount(FdOf(r), w)

ServiceCount(r, w) ==
  IF DirectionOf(r) = "In" THEN ReadCount(FdOf(r), w) ELSE WriteCount(FdOf(r), w)

\* No more reading after the end of the input, nothing at all once closed.
Defunct(r, w) == \/ DirectionOf(r) = "In" /\ Eof(FdOf(r), w)
                 \/ Closed(FdOf(r), w)

\* The world when the loop before poll() is done with its first i rules: the defunct ones
\* have been told.
Scanned(rules, w) ==
  LET after[i \in 0 .. Len(rules)] ==
        IF i = 0 THEN w
        ELSE Once(LAMBDA u : IF Defunct(rules[i], u) THEN OnCancel(rules[i], u) ELSE u,
                  after[i - 1])
  IN  after

\* What is left of a list when the positions in S are kept.
Keep(list, S) ==
  LET upto[i \in 0 .. Len(list)] ==
        IF i = 0 THEN <<>> ELSE IF i \in S THEN Append(upto[i - 1], list[i]) ELSE upto[i - 1]
  IN  upto[Len(list)]

\* The entries of pollfds, in the order of the rules that stay.  A rule without interest has
\* an entry for its errors.
SetUpPoll(rules, w) ==
  LET after == Scanned(rules, w)
      entry(i) == [ rule   |-> rules[i],
                    events |-> IF Interested(rules[i], after[i - 1])
                               THEN {DirectionOf(rules[i])} ELSE {} ]
  IN  [ pollfds |-> Keep([i \in DOMAIN rules |-> entry(i)],
                         {i \in DOMAIN rules : ~Defunct(rules[i], after[i - 1])}),
        world   |-> after[Len(rules)] ]

SomethingToPoll(pollfds) == \E i \in DOMAIN pollfds : pollfds[i].events # {}
-----------------------------------------------------------------------------
Ready(p) == p.revents \cap p.events # {}

\* Faulty reading of revents: a hangup matters to no one but a writer.
HungUpOut(p) == "HUP" \in p.revents /\ DirectionOf(p.rule) = "Out"

\* Only a hangup came of an interest, or there is nobody left to write to.
HungUp(p) == /\ "HUP" \in p.revents
             /\ \/ p.events # {} /\ ~Ready(p)
                \/ DirectionOf(p.rule) = "Out"

Failed(p)  == "ERR" \in p.revents
Dropped(p) == Failed(p) \/ HungUp(p)

\* What the loop after poll() does with one entry.
ServeEntry(p, w) ==
  CASE Failed(p)                -> OnCancel(p.rule, OnError(p.rule, w))
    [] HungUp(p) /\ ~Failed(p)  -> OnCancel(p.rule, w)
    [] Ready(p) /\ ~Dropped(p)  -> Callback(p.rule, w)
    [] ~Ready(p) /\ ~Dropped(p) -> w

\* The loop after poll().  It goes no further than the first callback that runs, and the
\* rules behind that one stay as they are.
ServePolled(pollfds, w) ==
  LET served == {i \in DOMAIN pollfds : Ready(pollfds[i]) /\ ~Dropped(pollfds[i])}
      last   == IF served = {} THEN Len(pollfds) ELSE Min(served)
      after[i \in 0 .. last] == 
        IF i = 0 THEN w ELSE Once(LAMBDA u : ServeEntry(pollfds[i], u), after[i - 1])
      before == after[last - 1]
      ran    == after[last]
      r      == pollfds[last].rule
      left   == Keep(pollfds, {i \in DOMAIN pollfds : i > last \/ ~Dropped(pollfds[i])})
  IN  [ rules    |-> [i \in DOMAIN left |-> left[i].rule],
        world    |-> ran,
        busyWait |-> /\ served # {}
                     /\ ServiceCount(r, ran) = ServiceCount(r, before)
                     /\ ~Closed(FdOf(r), ran)
                     /\ Interested(r, ran) ]
=============================================================================

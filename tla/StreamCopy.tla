----------------------------- MODULE StreamCopy -----------------------------
(***************************************************************************)
(* bidirectional_stream_copy() of src/apps: four rules on an EventLoop     *)
(* carry the bytes of stdin to a socket and the bytes of the socket to     *)
(* stdout.  The program moves between its calls of poll(2); what is at     *)
(* the other end of the three descriptors moves whenever it likes.         *)
(***************************************************************************)
EXTENDS ByteStream, SequencesExt

CONSTANTS BufferSize,     \* buffer_size of both ByteStreams
          MaxTyped,       \* bytes that ever come from stdin
          MaxSent,        \* and from the peer
          ReadRoom,       \* bytes the kernel keeps for the program to read
          WriteRoom,      \* and for the other side of a sink to take
          MaxBroken,      \* descriptors whose other end fails, at most
          ReadBufferSize  \* kReadBufferSize

ASSUME StreamCopyAssumption ==
  /\ {BufferSize, MaxTyped, MaxSent, ReadRoom, WriteRoom, ReadBufferSize} \subseteq Nat \ {0}
  /\ MaxBroken \in Nat

VARIABLES streams,        \* _outbound and _inbound
          shutdown,       \* _outbound_shutdown and _inbound_shutdown
          fd,             \* what the FileDescriptors remember
          loop,           \* the rules of the loop and where wait_next_event() is
          os              \* what the kernel holds and the other ends have seen

vars == <<streams, shutdown, fd, loop, os>>

Directions == {"outbound", "inbound"}
Sources    == {"stdin", "socket"}
Sinks      == {"socket", "stdout"}
Fds        == Sources \cup Sinks

Source(s) == IF s = "outbound" THEN "stdin" ELSE "socket"
Sink(s)   == IF s = "outbound" THEN "socket" ELSE "stdout"

MaxGiven(f) == IF f = "stdin" THEN MaxTyped ELSE MaxSent

\* What the callbacks work on, and whether a system call in them has thrown.
World == [streams |-> streams, shutdown |-> shutdown, fd |-> fd, os |-> os, thrown |-> FALSE]
-----------------------------------------------------------------------------
(* The kernel, as the program meets it through its system calls.           *)

\* The other end has stopped for good: a reset, a hung up terminal, a reader gone.
Broken(f, o) == f \in o.broken

CanRead(f, o) == o.avail[f] # <<>> \/ Broken(f, o)
Room(f, o)    == WriteRoom - Len(o.held[f])

\* poll(2): a pipe or a socket whose other end is finished shows as a hangup, a terminal
\* or a file at its end as readable; a socket is finished when both its halves are.
Revents(p, f, o) ==
  LET atEnd == f \in o.ended
      hup   == \/ f = "stdin" /\ atEnd /\ o.stdinIsPipe
               \/ f = "socket" /\ atEnd /\ o.wrShut
      in    == CanRead(f, o) \/ (atEnd /\ ~(f = "stdin" /\ o.stdinIsPipe))
      out   == Room(f, o) > 0 \/ (f = "socket" /\ o.wrShut)
  IN  {e \in p.events : IF e = "In" THEN in ELSE out}
        \cup (IF hup THEN {"HUP"} ELSE {})
        \cup (IF Broken(f, o) THEN {"ERR", "HUP"} ELSE {})
-----------------------------------------------------------------------------
(* FileDescriptor and Socket.                                              *)

RegisterRead(w, f)  == [w EXCEPT !.fd[f].reads = @ + 1]
RegisterWrite(w, f) == [w EXCEPT !.fd[f].writes = @ + 1]
Throw(w)            == [w EXCEPT !.thrown = TRUE]

\* The string read( buffer ) leaves in a buffer of the given size.
ReadData(w, f, size) ==
  Substr(w.os.avail[f], 0, IF size = 0 THEN ReadBufferSize ELSE size)

\* FileDescriptor::read(): bytes, the end of the input, an error, or nothing yet.
Read(w, f, size) ==
  LET n == Len(ReadData(w, f, size))
  IN  CASE n > 0 -> [RegisterRead(w, f) EXCEPT !.os.avail[f] = Substr(@, n, Len(@))]
        [] n = 0 /\ Broken(f, w.os) -> Throw(w)
        [] n = 0 /\ ~Broken(f, w.os) /\ f \in w.os.ended ->
             [RegisterRead(w, f) EXCEPT !.fd[f].eof = TRUE]
        [] OTHER -> w

\* The bytes writev() takes of a buffer.
Written(w, f, data) == IF Broken(f, w.os) THEN 0 ELSE Least(Len(data), Room(f, w.os))

\* FileDescriptor::write(): a short write is fine, none at all of some is not.
Write(w, f, data) ==
  LET n == Written(w, f, data)
  IN  IF n = 0 /\ data # <<>> THEN Throw(w)
      ELSE [RegisterWrite(w, f) EXCEPT !.os.held[f] = @ \o Substr(data, 0, n)]

\* Socket::shutdown( SHUT_WR ).
ShutWr(w) ==
  IF Broken("socket", w.os) THEN Throw(w)
  ELSE [RegisterWrite(w, "socket") EXCEPT !.os.wrShut = TRUE]

\* FileDescriptor::close() of stdout.
CloseFd(w, f) == [w EXCEPT !.fd[f].eof = TRUE, !.fd[f].closed = TRUE]
-----------------------------------------------------------------------------
(* The four rules, by the stream they fill or empty.                       *)

Rule(what, s) == [does |-> what, stream |-> s]
Rules == << Rule("fill", "outbound"), Rule("empty", "outbound"),
            Rule("fill", "inbound"),  Rule("empty", "inbound") >>

FdOf(r)        == IF r.does = "fill" THEN Source(r.stream) ELSE Sink(r.stream)
DirectionOf(r) == IF r.does = "fill" THEN "In" ELSE "Out"

\* Rules 1 and 3.  The data is taken with the room the stream has at this moment.
Fill(s, w) ==
  LET f    == Source(s)
      size == AvailableCapacity(w.streams[s])
      read == Read(w, f, size)
      took == [read EXCEPT !.streams[s] = WriterPush(@, ReadData(w, f, size))]
  IN  IF took.fd[f].eof THEN [took EXCEPT !.streams[s] = WriterClose(@)] ELSE took

\* Tells the other side of the sink that there is no more to come.
Finish(s, w) ==
  [ (IF s = "outbound" THEN ShutWr(w) ELSE CloseFd(w, "stdout"))
    EXCEPT !.shutdown[s] = TRUE ]

\* Faulty rules 2 and 4: an empty stream is taken for a finished one.
EmptyEager(s, w) ==
  LET f       == Sink(s)
      peeked  == Peek(w.streams[s])
      emptied == IF BytesBuffered(w.streams[s]) = 0 THEN w
                 ELSE [Write(w, f, peeked) EXCEPT
                        !.streams[s] = PopFront(@, Written(w, f, peeked))]
  IN  IF BytesBuffered(emptied.streams[s]) = 0 THEN Finish(s, emptied) ELSE emptied

\* Rules 2 and 4.
Empty(s, w) ==
  LET f       == Sink(s)
      peeked  == Peek(w.streams[s])
      emptied == IF BytesBuffered(w.streams[s]) = 0 THEN w
                 ELSE [Write(w, f, peeked) EXCEPT
                        !.streams[s] = PopFront(@, Written(w, f, peeked))]
  IN  IF IsFinished(emptied.streams[s]) THEN Finish(s, emptied) ELSE emptied

Callback(r, w) == IF r.does = "fill" THEN Fill(r.stream, w) ELSE Empty(r.stream, w)

\* Faulty interests: a full stream still wants bytes; an empty one is never finished.
WantsBytesWhenFull(s, w) == /\ \A t \in Directions : ~w.streams[t].error_
                            /\ ~w.streams[s].isClosed
HasBytesOnly(s, w)       == BytesBuffered(w.streams[s]) > 0

\* The interests of rules 1 and 3, and of rules 2 and 4.
WantsBytes(s, w) == /\ \A t \in Directions : ~w.streams[t].error_
                    /\ AvailableCapacity(w.streams[s]) > 0
                    /\ ~w.streams[s].isClosed

HasBytes(s, w) == \/ BytesBuffered(w.streams[s]) > 0
                  \/ IsFinished(w.streams[s]) /\ ~w.shutdown[s]

Interested(r, w) == IF r.does = "fill" THEN WantsBytes(r.stream, w) ELSE HasBytes(r.stream, w)

OnCancel(r, w) == [w EXCEPT !.streams[r.stream] = WriterClose(@)]
OnError(r, w)  == [w EXCEPT !.streams = [s \in Directions |-> SetError(@[s])]]

Eof(f, w)        == w.fd[f].eof
Closed(f, w)     == w.fd[f].closed
ReadCount(f, w)  == w.fd[f].reads
WriteCount(f, w) == w.fd[f].writes

Poller == INSTANCE EventLoop
-----------------------------------------------------------------------------
Init ==
  /\ streams  = [s \in Directions |-> NewStream(BufferSize)]
  /\ shutdown = [s \in Directions |-> FALSE]
  /\ fd = [f \in Fds |-> [eof |-> FALSE, closed |-> FALSE, reads |-> 0, writes |-> 0]]
  /\ loop = [at |-> "call", rules |-> Rules, pollfds |-> <<>>]
  /\ \E pipe \in BOOLEAN :
       os = [ avail  |-> [f \in Sources |-> <<>>],  given |-> [f \in Sources |-> 0],
              held   |-> [f \in Sinks |-> <<>>],    got   |-> [f \in Sinks |-> <<>>],
              ended  |-> {}, broken |-> {}, wrShut |-> FALSE, stdinIsPipe |-> pipe ]

\* Only the change of a counter during one callback is ever looked at.
Become(w) ==
  /\ streams' = w.streams
  /\ shutdown' = w.shutdown
  /\ fd' = [f \in Fds |-> [w.fd[f] EXCEPT !.reads = 0, !.writes = 0]]
  /\ os' = w.os

\* wait_next_event() up to its poll(), or its last return.
SetUp ==
  /\ loop.at = "call"
  /\ \E scan \in {Poller!SetUpPoll(loop.rules, World)} :
       /\ Become(scan.world)
       /\ loop' = [ at      |-> IF Poller!SomethingToPoll(scan.pollfds) THEN "poll" ELSE "exit",
                    rules   |-> [i \in DOMAIN scan.pollfds |-> scan.pollfds[i].rule],
                    pollfds |-> scan.pollfds ]

\* poll() returns as soon as there is something to report; its timeout is -1.
Poll ==
  /\ loop.at = "poll"
  /\ \E i \in DOMAIN loop.pollfds :
       Revents(loop.pollfds[i], FdOf(loop.pollfds[i].rule), os) # {}
  /\ loop' = [loop EXCEPT
       !.at = "serve",
       !.pollfds = [i \in DOMAIN @ |->
         [ rule    |-> @[i].rule, events |-> @[i].events,
           revents |-> Revents(@[i], FdOf(@[i].rule), os) ]]]
  /\ UNCHANGED <<streams, shutdown, fd, os>>

\* The rest of wait_next_event(), on what poll() said then and the kernel holds now.
Serve ==
  /\ loop.at = "serve"
  /\ \E call \in {Poller!ServePolled(loop.pollfds, World)} :
       /\ Become(call.world)
       /\ loop' = [ at      |-> IF call.world.thrown \/ call.busyWait THEN "died" ELSE "call",
                    rules   |-> call.rules,
                    pollfds |-> <<>> ]

Running == loop.at \notin {"exit", "died"}
-----------------------------------------------------------------------------
(* The user, the peer and the reader of the output, while there is a       *)
(* program to see them.                                                    *)

\* One more byte is typed, or comes from the peer.
Give(f) ==
  /\ Running
  /\ os.given[f] < MaxGiven(f)
  /\ Len(os.avail[f]) < ReadRoom
  /\ f \notin os.ended \cup os.broken
  /\ os' = [os EXCEPT !.avail[f] = Append(@, os.given[f]), !.given[f] = @ + 1]
  /\ UNCHANGED <<streams, shutdown, fd, loop>>

\* The end of the input; the peer's FIN.
End(f) ==
  /\ Running
  /\ f \notin os.ended \cup os.broken
  /\ os' = [os EXCEPT !.ended = @ \cup {f}]
  /\ UNCHANGED <<streams, shutdown, fd, loop>>

\* The peer, or the reader of the output, takes what is there for it.
Take(f) ==
  /\ Running
  /\ os.held[f] # <<>>
  /\ ~Broken(f, os)
  /\ os' = [os EXCEPT !.held[f] = <<>>, !.got[f] = @ \o os.held[f]]
  /\ UNCHANGED <<streams, shutdown, fd, loop>>

\* The terminal hangs up, the connection is reset, the reader of the output leaves.
Break(f) ==
  /\ Running
  /\ ~Broken(f, os)
  /\ Cardinality(os.broken) < MaxBroken
  /\ f = "stdin" => ~os.stdinIsPipe
  /\ os' = [os EXCEPT !.broken = @ \cup {f}]
  /\ UNCHANGED <<streams, shutdown, fd, loop>>

WaitNextEvent == SetUp \/ Poll \/ Serve

Next == \/ WaitNextEvent
        \/ \E f \in Sources : Give(f) \/ End(f)
        \/ \E f \in Sinks : Take(f)
        \/ \E f \in Fds : Break(f)

\* The program runs whenever it can.  Inputs come to an end and what was sent is taken: a
\* user, a peer or a reader that never does keeps the program waiting, as it should.
Fairness == /\ WF_vars(WaitNextEvent)
            /\ \A f \in Sources : WF_vars(End(f))
            /\ \A f \in Sinks : WF_vars(Take(f))

Spec == Init /\ [][Next]_vars /\ Fairness
-----------------------------------------------------------------------------
(* Properties.                                                             *)

\* The members of the program, and what is at the other ends of its descriptors.
TypeOK ==
  /\ \A s \in Directions : streams[s] \in Streams(Nat) /\ Tiled(streams[s])
  /\ shutdown \in [Directions -> BOOLEAN]
  /\ fd \in [Fds -> [eof : BOOLEAN, closed : BOOLEAN, reads : {0}, writes : {0}]]
  /\ loop.at \in {"call", "poll", "serve", "exit", "died"}
  /\ IsInjective(loop.rules) /\ ToSet(loop.rules) \subseteq ToSet(Rules)
  /\ \A f \in Sources : os.given[f] \in 0 .. MaxGiven(f) /\ Len(os.avail[f]) <= ReadRoom
  /\ \A f \in Sinks : Len(os.held[f]) <= WriteRoom
  /\ os.ended \subseteq Sources /\ os.broken \subseteq Fds

\* On the way from the source of a stream to the other side of its sink no byte is lost,
\* repeated or overtaken, whatever fails: what read() takes push() keeps, and what write()
\* takes pop() drops.
BytesKept ==
  \A s \in Directions :
    os.got[Sink(s)] \o os.held[Sink(s)] \o FlattenSeq(streams[s].deck_) \o os.avail[Source(s)]
      = Bytes(0, os.given[Source(s)])

Told(s) == IF s = "outbound" THEN os.wrShut ELSE fd["stdout"].closed

\* The peer is told of the end of the input, and stdout is closed, only after the end of the
\* source and the last byte before it, unless the streams have an error.
EndIsLast ==
  [][\A s \in Directions :
       Told(s)' /\ ~Told(s) =>
         \/ streams'[s].error_
         \/ /\ Source(s) \in os.ended
            /\ os.avail[Source(s)] = <<>> /\ streams'[s].deck_ = <<>>]_vars

\* When no rule is interested any more and nothing went wrong, the work is done in both
\* directions: the two sources are at their end, all of their bytes have been written, and
\* the ends have been passed on.
ExitIsComplete ==
  loop.at = "exit" =>
    \A s \in Directions :
      \/ streams[s].error_
      \/ /\ Source(s) \in os.ended /\ os.avail[Source(s)] = <<>>
         /\ streams[s].deck_ = <<>> /\ Told(s)

\* The loop's own checks (busy wait detected, write returned 0) never end the program: an
\* exception means that one of the other ends has failed since poll() looked.
DiesOfOthers == loop.at = "died" => os.broken # {}

\* Every copy ends once its two inputs do: no rule keeps the loop waiting for an event
\* that cannot come, or spinning on a descriptor that has hung up.
CopyEnds == <>(loop.at \in {"exit", "died"})
=============================================================================

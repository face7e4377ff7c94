---------------------------- MODULE MinnowSocket ----------------------------
(***************************************************************************)
(* A TCPMinnowSocket that connects: the owner's thread and the thread of   *)
(* its TCPPeer with a pair of Unix sockets between them, the event loop    *)
(* with the rules of _initialize_TCP() in                                  *)
(* src/util/tcp_minnow_socket_impl.hh, and a remote TCP that is in order   *)
(* and loses nothing.  The thread moves between its calls of poll(2); the  *)
(* owner and the remote end move whenever they like.                       *)
(***************************************************************************)
EXTENDS TCPPeer

CONSTANTS OwnerLen,        \* bytes the owner writes at most
          RemoteLen,       \* bytes the remote end sends at most
          PairRoom,        \* bytes each of the pair's buffers holds
          MayReset,        \* whether the remote end may reset the connection
          LocalIsn,        \* the isn each end drew
          RemoteIsn

ASSUME MinnowSocketAssumption ==
  /\ {RecvCapacity, SendCapacity, LingerTimeouts, PushSteps, OwnerLen, RemoteLen} \subseteq Nat
  /\ PairRoom \in Nat \ {0} /\ MayReset \in BOOLEAN /\ {LocalIsn, RemoteIsn} \subseteq Seqnos

VARIABLES tcp,             \* _tcp
          own,             \* the flags of the socket, and eof_ of _thread_data
          pair,            \* the pair: bytes to and from the thread, the directions shut
          net,             \* segments on their way to the socket and to the remote end
          remote,          \* the TCPPeer at the other end, and whether it has reset
          loop,            \* the rules, and where _tcp_loop() is in which of its two calls
          owner            \* where the owner is, what it has written and read

vars == <<tcp, own, pair, net, remote, loop, owner>>

World == [ tcp |-> tcp, own |-> own, pair |-> pair, net |-> net, killed |-> FALSE,
           reads |-> [f \in {"tun", "thread_data"} |-> 0],
           writes |-> [f \in {"tun", "thread_data"} |-> 0] ]

RegisterRead(w, f)  == [w EXCEPT !.reads[f] = @ + 1]
RegisterWrite(w, f) == [w EXCEPT !.writes[f] = @ + 1]

\* What poll(2) says of the two descriptors.  A Unix socket with both directions shut has
\* hung up; it is readable then, and writable as long as its buffer is not full.
Revents(p, f) ==
  IF f = "tun" THEN {e \in p.events : net.local # <<>>}
  ELSE {e \in p.events : IF e = "In" THEN pair.up # <<>> \/ pair.upShut
                                     ELSE Len(pair.down) < PairRoom}
         \cup (IF pair.upShut /\ pair.downShut THEN {"HUP"} ELSE {})
-----------------------------------------------------------------------------
(* The three rules.                                                        *)

Rules == <<"receive", "push", "deliver">>

FdOf(r)        == IF r = "receive" THEN "tun" ELSE "thread_data"
DirectionOf(r) == IF r = "deliver" THEN "Out" ELSE "In"

\* What a method of the TCPPeer does: its segments go to the network.
Calls(w, done) == [w EXCEPT !.tcp = done.peer, !.net.remote = @ \o done.out]

\* Rule 1: a segment goes to receive().
ReceiveSegment(w) ==
  [ RegisterRead(Calls(w, PeerReceive(w.tcp, Head(w.net.local))), "tun")
    EXCEPT !.net.local = Tail(@) ]

\* The string read from the pair: what the outbound stream has room for.
PairData(w) == Substr(w.pair.up, 0, AvailableCapacity(w.tcp.sender_.input_))

ReadPair(w) ==
  [ RegisterRead(w, "thread_data")
    EXCEPT !.pair.up = Substr(@, Len(PairData(w)), Len(@)),
           !.own.eof = @ \/ PairData(w) = <<>> ]

CloseOutbound(w) ==
  [w EXCEPT !.tcp.sender_.input_ = WriterClose(@), !.own.outbound_shutdown = TRUE]

\* Rule 2: bytes of the owner, or their end, go to the outbound stream, and push().
PushBytes(w) ==
  LET filled == [ReadPair(w) EXCEPT !.tcp.sender_.input_ = WriterPush(@, PairData(w))]
      ended  == IF filled.own.eof THEN CloseOutbound(filled) ELSE filled
  IN  Calls(ended, PeerPush(ended.tcp))

InboundOver(w) == Drained(Inbound(w.tcp)) \/ Inbound(w.tcp).error

ShutInbound(w) ==
  [RegisterWrite(w, "thread_data") EXCEPT !.pair.downShut = TRUE, !.own.inbound_shutdown = TRUE]

\* write() of what the inbound stream has: what fits is popped.  The code hands over the
\* front chunk alone (tcp_minnow_socket_impl.hh:150-152); the inbound stream is kept without
\* chunks here, and a pair with room for one byte takes one byte of either.  Nobody in src/
\* ignores SIGPIPE, so to write once the direction is shut ends the program.
WritePair(w) ==
  LET data == Inbound(w.tcp).buf
      n    == Least(Len(data), PairRoom - Len(w.pair.down))
  IN  CASE data = <<>> -> w
        [] data # <<>> /\ w.pair.downShut -> [w EXCEPT !.killed = TRUE]
        [] OTHER -> [ RegisterWrite(w, "thread_data")
                      EXCEPT !.pair.down = @ \o Substr(data, 0, n),
                             !.tcp.receiver_.reassembler_.output_ = Take(@, n) ]

\* Faulty rule 3: the end is passed on while bytes are left.
DeliverBytesEager(w) ==
  LET written == WritePair(w)
  IN  IF Inbound(written.tcp).closed THEN ShutInbound(written) ELSE written

\* Rule 3.
DeliverBytes(w) ==
  LET written == WritePair(w)
  IN  IF InboundOver(written) THEN ShutInbound(written) ELSE written

Callback(r, w) == CASE r = "receive" -> ReceiveSegment(w)
                    [] r = "push"    -> PushBytes(w)
                    [] r = "deliver" -> DeliverBytes(w)

DeliverInterest(w) == \/ Inbound(w.tcp).buf # <<>>
                      \/ InboundOver(w) /\ ~w.own.inbound_shutdown

PushInterest(w) == /\ Active(w.tcp) /\ ~w.own.outbound_shutdown
                   /\ AvailableCapacity(w.tcp.sender_.input_) > 0

Interested(r, w) == CASE r = "receive" -> Active(w.tcp)
                      [] r = "push"    -> PushInterest(w)
                      [] r = "deliver" -> DeliverInterest(w)

\* Rules 1 and 3 have nothing to do when they are cancelled.
OnCancel(r, w) == IF r = "push" THEN CloseOutbound(w) ELSE w

\* Neither descriptor ever fails.
OnError(r, w) == CASE r = "receive" -> w
                   [] r = "push"    -> [w EXCEPT !.tcp.sender_.input_ = SetError(@)]
                   [] r = "deliver" -> [w EXCEPT !.tcp.receiver_.reassembler_.output_ = Spoil(@)]

Eof(f, w)        == f = "thread_data" /\ w.own.eof
Closed(f, w)     == FALSE
ReadCount(f, w)  == w.reads[f]
WriteCount(f, w) == w.writes[f]

Poller == INSTANCE EventLoop
-----------------------------------------------------------------------------
(* connect(), and then the thread: _tcp_main().                            *)

NoSegments == <<>>

\* connect() has set up the rules and pushed the SYN.
Init ==
  \E syn \in {PeerPush(NewPeer(LocalIsn))} :
    /\ tcp = syn.peer
    /\ net = [local |-> NoSegments, remote |-> syn.out]
    /\ own = [ outbound_shutdown |-> FALSE, inbound_shutdown |-> FALSE, eof |-> FALSE,
               abort |-> FALSE ]
    /\ pair = [up |-> <<>>, down |-> <<>>, upShut |-> FALSE, downShut |-> FALSE]
    /\ remote = [peer |-> NewPeer(RemoteIsn), reset |-> FALSE]
    /\ loop = [at |-> "call", call |-> "connect", rules |-> Rules, pollfds |-> <<>>]
    /\ owner = [at |-> "connecting", wrote |-> 0, read |-> <<>>, eof |-> FALSE]

Become(w) == tcp' = w.tcp /\ own' = w.own /\ net' = w.net

\* _tcp_loop() is left: connect() starts the thread; the thread shuts the pair down and ends.
LeaveLoop(w) ==
  IF loop.call = "connect"
  THEN /\ loop' = [loop EXCEPT !.at = "call", !.call = "main"]
       /\ owner' = [owner EXCEPT !.at = "using"]
       /\ pair' = w.pair
  ELSE /\ loop' = [loop EXCEPT !.at = "ended", !.pollfds = <<>>]
       /\ pair' = [w.pair EXCEPT !.upShut = TRUE, !.downShut = TRUE]
       /\ UNCHANGED owner

\* The condition of the loop.
GoesOn(p) == loop.call = "main" \/ p.sender_.bytes_in_queue_ = 1

\* The rest of a turn, ms after the last one.
AfterEvent(w, ms, rules) ==
  \E ticked \in {IF Active(w.tcp) /\ ~own.abort THEN PeerTick(w.tcp, ms)
                 ELSE [peer |-> w.tcp, out |-> <<>>]} :
    /\ Become(Calls(w, ticked))
    /\ IF GoesOn(ticked.peer) /\ ~own.abort
       THEN /\ loop' = [loop EXCEPT !.at = "call", !.rules = rules, !.pollfds = <<>>]
            /\ pair' = w.pair /\ UNCHANGED owner
       ELSE LeaveLoop(w)

\* wait_next_event() up to the return of poll(), which waits no longer than TCP_TICK_MS.
Wait ==
  /\ loop.at = "call"
  /\ \E scan \in {Poller!SetUpPoll(loop.rules, World)} :
     \E polled \in {[i \in DOMAIN scan.pollfds |->
                       [ rule    |-> scan.pollfds[i].rule, events |-> scan.pollfds[i].events,
                         revents |-> Revents(scan.pollfds[i], FdOf(scan.pollfds[i].rule)) ]]} :
       /\ Become(scan.world)
       /\ loop' = [loop EXCEPT
            !.at = CASE ~Poller!SomethingToPoll(scan.pollfds) -> "exit"
                     [] \E i \in DOMAIN polled : polled[i].revents # {} -> "serve"
                     [] OTHER -> "timeout",
            !.rules = [i \in DOMAIN polled |-> polled[i].rule],
            !.pollfds = polled]
  /\ UNCHANGED <<pair, remote, owner>>

\* Result::Timeout.  Time in units of the retransmission timeout passes when no segment is on
\* its way.
Timeout ==
  /\ loop.at = "timeout"
  /\ LET quiet == net.local = NoSegments /\ net.remote = NoSegments
     IN  AfterEvent(World, IF quiet THEN InitialRTO ELSE 0, loop.rules)
  /\ UNCHANGED remote

\* The rest of wait_next_event(), on what poll() said then and the pair holds now, and of the turn.
Serve ==
  /\ loop.at = "serve"
  /\ \E call \in {Poller!ServePolled(loop.pollfds, World)} :
       IF call.world.killed \/ call.busyWait
       THEN /\ Become(call.world)
            /\ pair' = call.world.pair
            /\ loop' = [loop EXCEPT !.at = IF call.world.killed THEN "killed" ELSE "died"]
            /\ UNCHANGED owner
       ELSE AfterEvent(call.world, 0, call.rules)
  /\ UNCHANGED remote

\* Result::Exit.
Exit ==
  /\ loop.at = "exit"
  /\ LeaveLoop(World)
  /\ UNCHANGED <<tcp, own, net, remote>>

Running == loop.at \notin {"killed", "died"}
-----------------------------------------------------------------------------
(* The owner.                                                              *)

OwnerMoves(at) == Running /\ owner.at = at /\ UNCHANGED <<tcp, net, remote, loop>>

Write ==
  /\ OwnerMoves("using")
  /\ owner.wrote < OwnerLen /\ ~pair.upShut /\ Len(pair.up) < PairRoom
  /\ pair' = [pair EXCEPT !.up = Append(@, owner.wrote)]
  /\ owner' = [owner EXCEPT !.wrote = @ + 1]
  /\ UNCHANGED own

Read ==
  /\ OwnerMoves("using")
  /\ pair.down # <<>> \/ pair.downShut
  /\ pair' = [pair EXCEPT !.down = <<>>]
  /\ owner' = [owner EXCEPT !.read = @ \o pair.down, !.eof = @ \/ pair.down = <<>>]
  /\ UNCHANGED own

\* shutdown( SHUT_WR ), as the copy of the applications does at the end of its input.
ShutdownWrite ==
  /\ OwnerMoves("using")
  /\ pair' = [pair EXCEPT !.upShut = TRUE]
  /\ UNCHANGED <<own, owner>>

WaitUntilClosed ==
  /\ OwnerMoves("using")
  /\ pair' = [pair EXCEPT !.upShut = TRUE, !.downShut = TRUE]
  /\ owner' = [owner EXCEPT !.at = "joining"]
  /\ UNCHANGED own

\* The destructor of a socket whose thread has not been joined.
Destruct ==
  /\ OwnerMoves("using")
  /\ own' = [own EXCEPT !.abort = TRUE]
  /\ owner' = [owner EXCEPT !.at = "aborting"]
  /\ UNCHANGED pair

\* join() returns.
Joined ==
  /\ \E at \in {"joining", "aborting"} : OwnerMoves(at)
  /\ loop.at = "ended"
  /\ owner' = [owner EXCEPT !.at = "joined"]
  /\ UNCHANGED <<own, pair>>
-----------------------------------------------------------------------------
(* The remote end: a TCP that pushes whenever it can and keeps what it is  *)
(* sent.                                                                   *)

\* It does not move between poll() and the rest of the turn: that comes to the same as moving
\* right after the turn, as the callbacks look at no more than the front of the queue.
RemoteMoves == /\ ~remote.reset /\ loop.at \notin {"serve", "timeout", "exit"}
               /\ UNCHANGED <<tcp, own, pair, loop, owner>>
RemoteInput == remote.peer.sender_.input_

RemoteReceive ==
  /\ RemoteMoves /\ net.remote # NoSegments
  /\ \E heard \in {PeerReceive(remote.peer, Head(net.remote))} :
     \E pushed \in {PeerPush(heard.peer)} :
       /\ remote' = [remote EXCEPT !.peer = pushed.peer]
       /\ net' = [ remote |-> Tail(net.remote),
                   local  |-> net.local \o (IF pushed.out # <<>> THEN pushed.out ELSE heard.out) ]

RemoteOpen == ~remote.reset /\ ~RemoteInput.isClosed /\ remote.peer.receiver_.seen_syn

RemotePush(input) ==
  /\ RemoteMoves /\ RemoteOpen
  /\ \E pushed \in {PeerPush([remote.peer EXCEPT !.sender_.input_ = input])} :
       /\ remote' = [remote EXCEPT !.peer = pushed.peer]
       /\ net' = [net EXCEPT !.local = @ \o pushed.out]

\* A remote end without a window sends its FIN to probe it, but no byte.
RemoteWrite ==
  /\ remote.peer.sender_.cur_win_size_ > 0
  /\ RemoteInput.totalPushed < RemoteLen /\ AvailableCapacity(RemoteInput) > 0
  /\ RemotePush(WriterPush(RemoteInput, Bytes(RemoteInput.totalPushed, 1)))

RemoteClose == RemotePush(WriterClose(RemoteInput))

RemoteReset ==
  /\ MayReset /\ RemoteMoves /\ RemoteOpen
  /\ LET peer == [remote.peer EXCEPT !.sender_.input_ = SetError(@)]
     IN  net' = [net EXCEPT !.local = Append(@, Segment(peer, MakeEmptyMessage(peer.sender_)))]
  /\ remote' = [remote EXCEPT !.reset = TRUE]

Next == \/ Wait \/ Timeout \/ Serve \/ Exit
        \/ Write \/ Read \/ ShutdownWrite \/ WaitUntilClosed \/ Destruct \/ Joined
        \/ RemoteReceive \/ RemoteWrite \/ RemoteClose \/ RemoteReset

\* The thread runs and the remote end answers and closes in the end; the owner owes nothing
\* but the return of its join().  Each condition is what the action waits for, and none of these
\* actions leaves everything as it is.
ThreadRuns == loop.at \in {"call", "timeout", "serve", "exit"}
Fairness ==
  /\ []<>~ThreadRuns \/ []<><<Wait \/ Timeout \/ Serve \/ Exit>>_vars
  /\ []<>(remote.reset \/ net.remote = NoSegments) \/ []<><<RemoteReceive>>_vars
  /\ []<>~RemoteOpen \/ []<><<RemoteClose>>_vars
  /\ []<>(owner.at \notin {"joining", "aborting"} \/ loop.at # "ended") \/ []<><<Joined>>_vars

Spec == Init /\ [][Next]_vars /\ Fairness
-----------------------------------------------------------------------------
(* Properties.                                                             *)

Errors == Inbound(tcp).error \/ tcp.sender_.input_.error_

\* Whoever is told that it is over has everything, unless the connection was reset or given
\* up: the owner that reads the end of the input has all the remote end sent; a thread that
\* ends leaves a remote end with all the owner wrote, and with its FIN.
EndMeansAll ==
  /\ owner.eof /\ ~Errors =>
       /\ RemoteInput.isClosed
       /\ owner.read = Bytes(0, RemoteInput.totalPushed)
  /\ loop.at = "ended" /\ ~own.abort /\ ~Errors =>
       /\ Inbound(remote.peer).closed
       /\ Inbound(remote.peer).buf = Bytes(0, owner.wrote)
       /\ pair.upShut /\ pair.up = <<>>

\* The event loop's own check never ends the program.  SIGPIPE does only where bytes were
\* left: the owner has not read up to the end before it waits for the thread, or a reset
\* came while rule 3 had more than one write to do.
DiesOfUnread ==
  /\ loop.at # "died"
  /\ loop.at = "killed" => Inbound(tcp).buf # <<>> /\ (Errors \/ owner.at = "joining")

\* The destructor returns in any case, and wait_until_closed() once the remote end has closed,
\* whatever bytes are left in the pair or in the inbound stream for nobody to read.
JoinReturns == (owner.at \in {"joining", "aborting"}) ~> (owner.at = "joined" \/ ~Running)
=============================================================================

------------------------------- MODULE Parser -------------------------------
(***************************************************************************)
(* src/util/parser.hh.  A header is read byte by byte from a list of       *)
(* buffers, split wherever the kernel or the layer below split it, and     *)
(* written to a list of buffers of which the payload is one.  A header is  *)
(* described by its layout: the names and widths of its integers.          *)
(***************************************************************************)
EXTENDS CppString, SequencesExt

Byte == 0 .. 255
-----------------------------------------------------------------------------
(* BufferList: the strings not yet read, and how much of the first is. *)

AppendString(list, str) ==
  [list EXCEPT !.size = @ + Len(str), !.buffer = Append(@, str)]

BufferList(buffers) ==
  FoldLeft(AppendString, [size |-> 0, buffer |-> <<>>, skip |-> 0], buffers)

Peek(list) == LET front == Head(list.buffer) IN Substr(front, list.skip, Len(front))

\* Pops len bytes, or all there are.
RECURSIVE RemovePrefix(_, _)
RemovePrefix(list, len) ==
  IF len = 0 \/ list.buffer = <<>> THEN list
  ELSE LET popped == Least(len, Len(Peek(list)))
           spent == list.skip + popped = Len(Head(list.buffer))
       IN  RemovePrefix([size |-> list.size - popped,
                         buffer |-> IF spent THEN Tail(list.buffer) ELSE list.buffer,
                         skip |-> IF spent THEN 0 ELSE list.skip + popped], len - popped)

\* What is left, as strings: buffer() looks at it, dump_all() also takes it away.
Buffers(list) == IF list.size = 0 THEN <<>> ELSE <<Peek(list)>> \o Tail(list.buffer)
-----------------------------------------------------------------------------
(* Parser: once an integer does not fit, nothing is read any more. *)

NewParser(buffers) == [input |-> BufferList(buffers), error |-> FALSE]

SetError(p) == [p EXCEPT !.error = TRUE]

SkipBytes(p, len) == [p EXCEPT !.input = RemovePrefix(@, len)]

\* integer(): the next width bytes, most significant first.  The view it takes the front of
\* must not be empty: Head() of an empty one is an error here and undefined there.
RECURSIVE ReadInteger(_, _, _)
ReadInteger(p, width, high) ==
  IF width = 0 THEN [p |-> p, val |-> high]
  ELSE ReadInteger(SkipBytes(p, 1), width - 1, 256 * high + Head(Peek(p.input)))

\* The parser after the integers of a layout, and their values; 0 for one not read.
ReadField(got, field) ==
  LET name == field[1]
      width == field[2]
      p == IF width > got.p.input.size THEN SetError(got.p) ELSE got.p
      int == IF p.error THEN [p |-> p, val |-> 0] ELSE ReadInteger(p, width, 0)
  IN  [p |-> int.p, header |-> [got.header EXCEPT ![name] = int.val]]

RECURSIVE ReadFields(_, _)
ReadFields(got, layout) ==
  IF layout = <<>> THEN got ELSE ReadFields(ReadField(got, Head(layout)), Tail(layout))

Names(layout) == {layout[i][1] : i \in DOMAIN layout}
ReadHeader(p, layout) ==
  ReadFields([p |-> p, header |-> [name \in Names(layout) |-> 0]], layout)
-----------------------------------------------------------------------------
(* Serializer: integers gather in a buffer, which is flushed before a payload. *)

BigEndian(val, width) == [i \in 1 .. width |-> (val \div 256 ^ (width - i)) % 256]

\* The buffer of integers, then the strings of the payload, none of them empty.
Output(header, layout, payload) ==
  SelectSeq(<<FlattenSeq([i \in DOMAIN layout |-> BigEndian(header[layout[i][1]], layout[i][2])])>>
              \o payload,
            LAMBDA str : str # <<>>)
=============================================================================

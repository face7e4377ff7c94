---------------------------- MODULE Reassembler ----------------------------
(***************************************************************************)
(* The Reassembler of src/src/reassembler.cc: substrings of a stream come  *)
(* in any order, the bytes at cur_index go to the output at once, bytes    *)
(* past a gap wait in storage, with a '1' (TRUE) in storage_bitmap.  Slots *)
(* are numbered from 0 as in the code.  The index of a byte stands for the *)
(* byte.                                                                   *)
(***************************************************************************)
EXTENDS BytePipe, Words, FiniteSets

Blank == -1                \* what a slot of storage holds before it is written

\* A faulty start: the two strings are one slot short.
ReassemblerOneShort(capacity) ==
  [ output_ |-> NewPipe(capacity), cur_index |-> 0, total_len |-> 0, seen_last |-> FALSE,
    storage |-> [i \in 1 .. capacity - 1 |-> Blank],
    storage_bitmap |-> [i \in 1 .. capacity - 1 |-> FALSE],
    fault |-> "none" ]

\* The first insert() allocates the two strings; nothing reads them before.
NewReassembler(capacity) ==
  [ output_ |-> NewPipe(capacity), cur_index |-> 0, total_len |-> 0, seen_last |-> FALSE,
    storage |-> [i \in 1 .. capacity |-> Blank],
    storage_bitmap |-> [i \in 1 .. capacity |-> FALSE],
    fault |-> "none" ]     \* "out_of_range" once replace() threw, "undefined" after a
                           \* read past the end of storage_bitmap

StorageCapacity(r) == r.output_.cap
LastIndex(r)       == StorageCapacity(r) - 1
BytesPushed(r)     == r.output_.pushed
Ones(n)            == [i \in 1 .. n |-> TRUE]
Zeros(n)           == [i \in 1 .. n |-> FALSE]

IsValidIndex(r, index) ==
  LET from == IF BytesPushed(r) < StorageCapacity(r)
              THEN r.cur_index ELSE r.cur_index % StorageCapacity(r)
      at   == IF BytesPushed(r) < StorageCapacity(r)
              THEN index ELSE index % StorageCapacity(r)
  IN  from <= at /\ at < from + StorageCapacity(r)

\* Bytes that continue the stream: cur_index advances by what there was room for,
\* whether or not the output took it.
Deliver(r, data) ==
  LET temp_str == Substr(data, 0, Room(r.output_))
  IN  [r EXCEPT !.output_ = Put(@, temp_str), !.cur_index = @ + Len(temp_str)]

\* Where bytes past a gap go, and how many of them are kept.
Slot(r, first_index) ==
  IF BytesPushed(r) < StorageCapacity(r) THEN first_index ELSE first_index % StorageCapacity(r)

Kept(r, first_index, data) ==
  LET slot == Slot(r, first_index)
  IN  Substr(data, 0, IF BytesPushed(r) < StorageCapacity(r)
                      THEN U64(LastIndex(r) - slot + 1)
                      ELSE U64(LastIndex(r) - (slot + 1)))

Store(r, first_index, data) ==
  LET slot    == Slot(r, first_index)
      cur_str == Kept(r, first_index, data)
  IN  IF slot > Len(r.storage)
      THEN [r EXCEPT !.fault = "out_of_range"]
      ELSE [r EXCEPT !.storage = Overwrite(@, slot, cur_str),
                     !.storage_bitmap = Overwrite(@, slot, Ones(Len(cur_str)))]

\* Faulty: a substring that overlaps the bytes already written is taken whole.
PlaceWhole(r, first_index, data) ==
  CASE first_index > r.cur_index -> Store(r, first_index, data)
    [] first_index + Len(data) <= r.cur_index /\ first_index < r.cur_index -> r
    [] OTHER -> Deliver(r, data)

\* The three branches of insert().
Place(r, first_index, data) ==
  LET skip == r.cur_index - first_index
  IN  CASE skip < 0         -> Store(r, first_index, data)
        [] skip >= Len(data) /\ skip > 0 -> r
        [] OTHER            -> Deliver(r, Substr(data, skip, Len(data)))

NewCurIndex(r) ==
  IF BytesPushed(r) > StorageCapacity(r) THEN r.cur_index % StorageCapacity(r) ELSE r.cur_index

\* The run of '1' that begins at slot `from`.
RunLength(bitmap, from) ==
  CHOOSE n \in 0 .. Len(bitmap) - from :
    /\ \A i \in 1 .. n : bitmap[from + i]
    /\ from + n < Len(bitmap) => ~bitmap[from + n + 1]

\* Faulty: the bits of the bytes written are not cleared.
DrainKeepsBits(r) ==
  LET from    == NewCurIndex(r)
      cur_str == Substr(r.storage, from, RunLength(r.storage_bitmap, from))
  IN  [r EXCEPT !.output_ = Put(@, cur_str), !.cur_index = @ + Len(cur_str)]

\* Faulty: one bit too many is cleared.
DrainClearsOneMore(r) ==
  LET from    == NewCurIndex(r)
      count   == RunLength(r.storage_bitmap, from)
      cur_str == Substr(r.storage, from, count)
  IN  [r EXCEPT !.output_ = Put(@, cur_str),
                !.cur_index = @ + Len(cur_str),
                !.storage_bitmap = Overwrite(Overwrite(@, from, Zeros(count + 1)), 0, Zeros(from))]

\* Push what storage holds at cur_index, then clear the bitmap below.
Drain(r) ==
  LET from    == NewCurIndex(r)
      count   == RunLength(r.storage_bitmap, from)
      cur_str == Substr(r.storage, from, count)
  IN  [r EXCEPT !.output_ = Put(@, cur_str),
                !.cur_index = @ + Len(cur_str),
                !.storage_bitmap = Overwrite(Overwrite(@, from, Zeros(count)), 0, Zeros(from))]

\* Faulty: the length of the last substring is taken for that of the stream.
MarkLength(r, first_index, data, is_last_substring) ==
  IF is_last_substring THEN [r EXCEPT !.seen_last = TRUE, !.total_len = Len(data)] ELSE r

Mark(r, first_index, data, is_last_substring) ==
  IF is_last_substring
  THEN [r EXCEPT !.seen_last = TRUE, !.total_len = U64(first_index + Len(data))]
  ELSE r

CloseAtEnd(p, seen_last, total_len) ==
  IF seen_last /\ p.pushed = total_len THEN Shut(p) ELSE p

Insert(r, first_index, data, is_last_substring) ==
  LET placed == Place(r, first_index, data)
  IN  IF first_index > r.cur_index /\ ~IsValidIndex(r, first_index) THEN r
      ELSE IF placed.fault # "none" THEN placed
      ELSE IF NewCurIndex(placed) > Len(placed.storage_bitmap)
           THEN [placed EXCEPT !.fault = "undefined"]
      ELSE LET done == Mark(Drain(placed), first_index, data, is_last_substring)
           IN  [done EXCEPT !.output_ = CloseAtEnd(@, done.seen_last, done.total_len)]

BytesPending(r) ==
  Cardinality({i \in 1 .. Len(r.storage_bitmap) : r.storage_bitmap[i]})
=============================================================================

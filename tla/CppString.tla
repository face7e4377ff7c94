----------------------------- MODULE CppString -----------------------------
(***************************************************************************)
(* The operations of std::string the code is built from.  A string is a    *)
(* sequence, positions count from 0 as in C++ and the count of a substring *)
(* is clipped to what is left of the string.                               *)
(***************************************************************************)
EXTENDS Integers, Sequences

Least(a, b) == IF a <= b THEN a ELSE b

\* s.substr( pos, n ) for 0 <= pos <= s.size().
Substr(s, pos, n) == SubSeq(s, pos + 1, pos + Least(n, Len(s) - pos))

\* s.replace( pos, str.size(), str ) for 0 <= pos <= s.size(): the string grows when str
\* reaches past its end.
Overwrite(s, pos, str) == SubSeq(s, 1, pos) \o str \o SubSeq(s, pos + Len(str) + 1, Len(s))

\* The bytes of a stream are numbered, and byte k is the number k: n of them in a row.
Bytes(from, n) == [i \in 1 .. n |-> from + i - 1]
=============================================================================

------------------------------- MODULE Words -------------------------------
(***************************************************************************)
(* uint64_t arithmetic: results wrap at 2^64, here a parameter.            *)
(***************************************************************************)
EXTENDS Integers

CONSTANT WordMod           \* 2^64 in the code

U64(x) == x % WordMod
=============================================================================

------------------------------ MODULE MCBuffer ------------------------------
(***************************************************************************)
(* Small instances of Buffer.  A byte has two values, so that an int is    *)
(* four bytes and overflows the first block in one step.                   *)
(***************************************************************************)
EXTENDS Buffer, TLC

CONSTANTS b1, b2

SmallStrings  == {<<>>, <<0>>}
SmallNumbers  == {-1}
SmallIndices  == {-2, 2}
(* One byte is written as it is, the other one as an escape of six bytes.  *)
SmallEscapes  == [c \in Bytes |-> IF c = 0 THEN <<1, 0, 0, 1, 1, 0>> ELSE <<1>>]

Interchangeable == Permutations(Blocks)
==============================================================================

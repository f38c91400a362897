--------------------------- MODULE MCPatternNames ---------------------------
(***************************************************************************)
(* Small instances of PatternNames: three strings, one of them empty, one  *)
(* a beginning of another that is longer than the first block of a table.  *)
(***************************************************************************)
EXTENDS PatternNames

CONSTANTS p1, p2

SmallNames  == {<<1>>, <<1, 0, 2>>}
SmallRules  == <<<<1, 0, 2>>, <<1>>>>
SmallValues == {<<>>}
Interchangeable == Permutations(Slots)
==============================================================================

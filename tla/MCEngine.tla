------------------------------ MODULE MCEngine ------------------------------
(***************************************************************************)
(* The threads and the RPLX objects of an engine are interchangeable.      *)
(***************************************************************************)
EXTENDS Engine, TLC

Interchangeable == Permutations(Threads) \cup Permutations(Objects)
=============================================================================

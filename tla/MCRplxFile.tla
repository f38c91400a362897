----------------------------- MODULE MCRplxFile -----------------------------
(***************************************************************************)
(* Small instances of RplxFile: compiled patterns with no name, one name   *)
(* and three names, with less code than the limit, as much and more.       *)
(***************************************************************************)
EXTENDS RplxFile

Compiled(names, code) == [kt |-> AddAll(ktable_new(0, 0), names, TRUE), code |-> code]
SmallChunks ==
  LET one == <<<<0, 3>>>>  three == <<<<>>, <<1>>, <<1, 2>>>>
  IN  {Compiled(<<>>, <<7>>), Compiled(one, <<-1, 5>>), Compiled(three, <<1, -128>>),
       Compiled(three, <<127>>), Compiled(one, <<1, 2, 3>>)}
SmallMagic == <<1, 3>>
==============================================================================

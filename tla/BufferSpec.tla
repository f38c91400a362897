----------------------------- MODULE BufferSpec -----------------------------
(***************************************************************************)
(* What a growable buffer promises: a text that calls append to, wholly or *)
(* not at all, cut pieces from, write to a file and empty; or a constant   *)
(* text that it wraps.  After a failure to grow that nobody can undo the   *)
(* buffer is lost and promises nothing.                                    *)
(***************************************************************************)
EXTENDS Integers, Sequences

CONSTANT Byte

VARIABLES state,   (* "none", "buffer", "wrapped" or "lost"                *)
          text, file,
          did      (* the last call, with its arguments and its result     *)

vars == <<state, text, did, file>>

(* The piece between positions j and k, as in Lua: negative positions      *)
(* count from the end, 0 stands for the first or the last.                 *)
From(j, n) == IF j < 0 THEN n + j + 1 ELSE IF j = 0 THEN 1 ELSE j
To(k, n)   == IF k < 0 THEN n + k + 1 ELSE IF k = 0 THEN n ELSE k
Piece(t, j, k) ==
  LET n  == Len(t)
      In == {i \in 1 .. n : From(j, n) <= i /\ i <= To(k, n)}
  IN  IF In = {} THEN <<>>
      ELSE LET first == CHOOSE i \in In : \A m \in In : i <= m
               last  == CHOOSE i \in In : \A m \in In : m <= i
           IN  SubSeq(t, first, last)

Held == state \in {"buffer", "wrapped"}

Init == state = "none" /\ text = <<>> /\ did = [call |-> "none"] /\ file = <<>>

Begin == /\ state = "none" /\ did' = [call |-> "begin"] /\ UNCHANGED file
         /\ \/ state' = "buffer" /\ text' = <<>>
            \/ state' = "wrapped" /\ text' \in Seq(Byte)
Add   == /\ state = "buffer" /\ did'.call = "added"
         /\ text' = text \o did'.what /\ UNCHANGED <<state, file>>
Refuse == /\ Held /\ did' = [call |-> "refused"]
          /\ UNCHANGED <<state, text, file>>
Cut   == /\ Held /\ did'.call = "cut"
         /\ did'.piece = Piece(text, did'.from, did'.to)
         /\ UNCHANGED <<state, text, file>>
Reset == /\ state = "buffer" /\ text' = <<>> /\ did' = [call |-> "reset"]
         /\ UNCHANGED <<state, file>>
Write == /\ Held /\ did' = [call |-> "written"] /\ file' = file \o text
         /\ UNCHANGED <<state, text>>
Fail  == /\ Held /\ did' = [call |-> "unwritten"]
         /\ \E i \in 0 .. Len(text) : file' = file \o SubSeq(text, 1, i)
         /\ UNCHANGED <<state, text>>
End   == /\ Held /\ state' = "none" /\ text' = <<>>
         /\ did' = [call |-> "end"] /\ UNCHANGED file

(* After a failure to grow that nobody can undo. *)
Lose  == state = "buffer" /\ state' = "lost" /\ UNCHANGED file
Lost  == state = "lost" /\ state' = "lost" /\ UNCHANGED file

Next == Begin \/ Add \/ Refuse \/ Cut \/ Reset \/ Write \/ Fail \/ End
          \/ Lose \/ Lost
Spec == Init /\ [][Next]_vars
==============================================================================

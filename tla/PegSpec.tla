------------------------------ MODULE PegSpec ------------------------------
(***************************************************************************)
(* What the matching machine promises: one step from a running match to    *)
(* the answer of the pattern, or to one of the two resource errors, or to  *)
(* the end of the process when there is no memory for captures.  An        *)
(* answer is a record [out, pos, caps]: "match" with the end position and  *)
(* the captures, "fail", or "halt" with what was captured so far.          *)
(***************************************************************************)
CONSTANTS
  Answer(_, _, _),   (* Answer(prog, subject, start)                       *)
  NoAnswer           (* not one of them                                    *)

VARIABLES prog, subject, start, status, answer
vars == <<prog, subject, start, status, answer>>

Init == status = "running" /\ answer = NoAnswer

Finish ==
  /\ status = "running"
  /\ status' = "MATCH_OK"
  /\ answer' = Answer(prog, subject, start)
  /\ UNCHANGED <<prog, subject, start>>

GiveUp ==
  /\ status = "running"
  /\ status' \in {"MATCH_ERR_STACK", "MATCH_ERR_CAP", "crashed"}
  /\ UNCHANGED <<prog, subject, start, answer>>

Next == Finish \/ GiveUp
Spec == Init /\ [][Next]_vars
============================================================================

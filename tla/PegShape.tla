------------------------------ MODULE PegShape ------------------------------
(***************************************************************************)
(* Why vm() needs no check on its stack at run time: the code that         *)
(* lpcode.c generates is laid out so that, at each instruction, the frames *)
(* on top of the stack are known beforehand.  A shape says, for a slot of  *)
(* a program, how many choices have been pushed since the innermost call   *)
(* (or since the start), and whether there is such a call.                 *)
(*                                                                         *)
(* Shape[p] gives the shapes of the slots of p that can be reached.        *)
(* ShapeAssumption is what the machine requires of the compiler; the runs  *)
(* evaluate it on the code that PegCompile generates.                      *)
(***************************************************************************)
EXTENDS PegVM

CONSTANT Shape

At0(d, q) == [choices |-> d, inRule |-> q]

Straight == {"any", "char", "set", "behind", "span", "backref",
             "opencapture", "closecapture", "closeconstcapture"}
Tests    == {"testset", "testchar", "testany"}

(* Slot i of the code, in shape sh[i], leaves every slot it can continue   *)
(* at in that slot's shape.                                                *)
ShapedAt(code, sh, i) ==
  LET op == code[i].op
      to == code[i].to
      d  == sh[i].choices
      q  == sh[i].inRule
      Flows(p, shape) == p \in DOMAIN sh /\ sh[p] = shape
  IN  /\ op \in Straight \cup Tests => Flows(i + 1, At0(d, q))
      /\ op \in Tests \cup {"jmp"} => Flows(to, At0(d, q))
      /\ op = "choice" => /\ Flows(i + 1, At0(d + 1, q))
                          /\ Flows(to, At0(d, q))
      /\ op = "call" => Flows(i + 1, At0(d, q)) /\ Flows(to, At0(0, TRUE))
      /\ op \in {"commit", "backcommit"} => d > 0 /\ Flows(to, At0(d - 1, q))
      /\ op = "partialcommit" => d > 0 /\ Flows(to, At0(d, q))
      /\ op = "failtwice" => d > 0
      /\ op = "ret" => d = 0 /\ q
      /\ op = "end" => d = 0 /\ ~q

WellShaped(code, sh) ==
  /\ DOMAIN sh \subseteq DOMAIN code
  /\ \A i \in DOMAIN sh : sh[i] \in [choices : Nat, inRule : BOOLEAN]
  /\ 1 \in DOMAIN sh /\ sh[1] = At0(0, FALSE)
  /\ \A i \in DOMAIN sh : ShapedAt(code, sh, i)

ASSUME ShapeAssumption == \A p \in Programs : WellShaped(Code[p], Shape[p])

----------------------------------------------------------------------------
(* The shape that a frame gives to what runs above it: a call starts a     *)
(* rule, the bottom frame the program, and any other choice adds one to    *)
(* the shape it will resume in.                                            *)
Above(frame) ==
  IF ~IsChoice(frame) THEN At0(0, TRUE)
  ELSE IF frame.p = GIVEUP THEN At0(0, FALSE)
  ELSE At0(Shape[prog][frame.p].choices + 1, Shape[prog][frame.p].inRule)

(* Slot p can run on top of the first n frames of the stack.               *)
Rests(p, stk, n) ==
  IF n = 0 THEN p = GIVEUP
  ELSE p \in DOMAIN Shape[prog] /\ Shape[prog][p] = Above(stk[n])

(* The slot saved in each frame fits the frames below it ...               *)
FramesRest(stk) ==
  \A n \in DOMAIN stk :
    /\ Rests(stk[n].p, stk, n - 1)
    /\ stk[n].p = GIVEUP => IsChoice(stk[n])

(* ... and the machine's own slot fits the whole stack.                    *)
StackShaped == Rests(pc, stack, Len(stack)) /\ FramesRest(stack)

(* What every step preserves, and from which the properties follow.        *)
IInv ==
  /\ TypeOK
  /\ prog \in Programs /\ subject \in Subjects
  /\ StackShaped
  /\ Positions
  /\ CaptureLevels
=============================================================================

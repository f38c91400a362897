----------------------------- MODULE PegVMProof -----------------------------
(***************************************************************************)
(* Proofs about the matching machine: on code of a known shape, for every  *)
(* program, subject and limit, vm() never underflows its stack, never      *)
(* leaves the subject and never writes outside the capture array.          *)
(***************************************************************************)
EXTENDS PegShape, TLAPS

(* The slot being executed, its shape, and the frame below it.             *)
LEMMA Executing ==
  ASSUME IInv, status = "running", pc # GIVEUP
  PROVE  /\ pc \in DOMAIN Shape[prog] /\ pc \in Nat \ {0}
         /\ stack \in Seq(StackFrames) /\ Len(stack) \in Nat \ {0}
         /\ inst \in Instruction
         /\ Shape[prog][pc] = At0(Shape[prog][pc].choices, Shape[prog][pc].inRule)
         /\ Shape[prog][pc].choices \in Nat /\ Shape[prog][pc].inRule \in BOOLEAN
         /\ ShapedAt(Code[prog], Shape[prog], pc)
         /\ Shape[prog][pc] = Above(Top(stack))
  <1>1. stack \in Seq(StackFrames) /\ Len(stack) \in Nat \ {0}
        /\ pc \in DOMAIN Shape[prog]
        /\ Shape[prog][pc] = Above(stack[Len(stack)])
    BY DEF IInv, TypeOK, StackShaped, Rests, FramesRest
  <1>2. WellShaped(Code[prog], Shape[prog]) /\ Code[prog] \in Seq(Instruction)
    BY ShapeAssumption, CodeAssumption DEF IInv
  <1>3. Shape[prog][pc] \in [choices : Nat, inRule : BOOLEAN]
    BY <1>1, <1>2 DEF WellShaped
  <1>4. pc \in DOMAIN Code[prog] /\ pc \in Nat \ {0} /\ inst \in Instruction
    <2>1. DOMAIN Code[prog] = 1 .. Len(Code[prog]) /\ Len(Code[prog]) \in Nat
      BY <1>2
    <2> QED BY <1>1, <1>2, <2>1 DEF WellShaped, inst, IInv, TypeOK
  <1> QED BY <1>1, <1>2, <1>3, <1>4 DEF WellShaped, Top, At0

(* A slot that has a shape is a slot of the code, never GIVEUP.            *)
LEMMA ShapedSlot ==
  ASSUME IInv, NEW p \in DOMAIN Shape[prog]
  PROVE  p \in Nat /\ p # GIVEUP
  <1>1. WellShaped(Code[prog], Shape[prog]) /\ Code[prog] \in Seq(Instruction)
    BY ShapeAssumption, CodeAssumption DEF IInv
  <1> QED BY <1>1 DEF WellShaped, GIVEUP

(* What the shape of a slot says of the frame on top.                      *)
LEMMA TopFrame ==
  ASSUME IInv, status = "running", pc # GIVEUP
  PROVE  LET d   == Shape[prog][pc].choices
             q   == Shape[prog][pc].inRule
             top == Top(stack)
         IN  /\ top \in StackFrames
             /\ Rests(top.p, stack, Len(stack) - 1)
             /\ d = 0 /\ q => ~IsChoice(top)
             /\ d = 0 /\ ~q => top.p = GIVEUP /\ IsChoice(top) /\ Len(stack) = 1
             /\ d > 0 => /\ IsChoice(top) /\ top.p # GIVEUP
                         /\ Len(stack) > 1
                         /\ top.p \in DOMAIN Shape[prog]
                         /\ Shape[prog][top.p] = At0(d - 1, q)
  <1> DEFINE d   == Shape[prog][pc].choices
             q   == Shape[prog][pc].inRule
             top == Top(stack)
  <1>0. stack \in Seq(StackFrames) /\ Len(stack) \in Nat \ {0}
    BY Executing
  <1>1. /\ Len(stack) \in Nat \ {0} /\ d \in Nat /\ q \in BOOLEAN
        /\ At0(d, q) = Above(top)
    BY Executing
  <1>2. top \in StackFrames /\ Rests(top.p, stack, Len(stack) - 1)
        /\ (top.p = GIVEUP => IsChoice(top))
    BY <1>1 DEF IInv, TypeOK, StackShaped, FramesRest, Top
  <1>3. ~IsChoice(top) => d = 0 /\ q
    BY <1>1 DEF Above, At0
  <1>4. top.p = GIVEUP /\ IsChoice(top) => d = 0 /\ ~q
    BY <1>1 DEF Above, At0
  <1>5. top.p = GIVEUP => Len(stack) = 1
    <2>1. GIVEUP \notin DOMAIN Shape[prog]
      BY ShapedSlot
    <2> QED BY <1>1, <1>2, <2>1 DEF Rests
  <1>6. top.p # GIVEUP => /\ top.p \in DOMAIN Shape[prog]
                          /\ Len(stack) > 1
    <2>1. CASE Len(stack) = 1
      BY <1>2, <2>1 DEF Rests
    <2>2. CASE Len(stack) # 1
      <3>1. Len(stack) - 1 # 0 /\ Len(stack) > 1
        BY <1>0, <2>2
      <3> QED BY <1>2, <3>1 DEF Rests
    <2> QED BY <2>1, <2>2
  <1>7. ASSUME IsChoice(top), top.p # GIVEUP
        PROVE  d > 0 /\ Shape[prog][top.p] = At0(d - 1, q)
    <2>1. WellShaped(Code[prog], Shape[prog])
      BY ShapeAssumption DEF IInv
    <2>2. Shape[prog][top.p] \in [choices : Nat, inRule : BOOLEAN]
      BY <1>6, <1>7, <2>1 DEF WellShaped
    <2>3. At0(d, q) = At0(Shape[prog][top.p].choices + 1,
                          Shape[prog][top.p].inRule)
      BY <1>1, <1>7 DEF Above
    <2>4. d = Shape[prog][top.p].choices + 1 /\ q = Shape[prog][top.p].inRule
      BY <2>3 DEF At0
    <2> QED BY <1>1, <2>2, <2>4 DEF At0
  <1> QED BY <1>1, <1>2, <1>3, <1>4, <1>5, <1>6, <1>7

----------------------------------------------------------------------------
(* Sequences with the same elements are equal.                             *)
LEMMA SeqEqual ==
  ASSUME NEW S, NEW u \in Seq(S), NEW v \in Seq(S), Len(u) = Len(v),
         \A i \in 1 .. Len(u) : u[i] = v[i]
  PROVE  u = v
  OBVIOUS

(* Every frame below the top is part of a smaller stack of the same shape. *)
LEMMA PrefixRests ==
  ASSUME NEW stk \in Seq(StackFrames), FramesRest(stk),
         NEW k \in 0 .. Len(stk)
  PROVE  /\ SubSeq(stk, 1, k) \in Seq(StackFrames)
         /\ Len(SubSeq(stk, 1, k)) = k
         /\ \A n \in 1 .. k : SubSeq(stk, 1, k)[n] = stk[n]
         /\ FramesRest(SubSeq(stk, 1, k))
         /\ \A p : Rests(p, stk, k) => Rests(p, SubSeq(stk, 1, k), k)
  <1> DEFINE low == SubSeq(stk, 1, k)
  <1>1. /\ low \in Seq(StackFrames) /\ Len(low) = k
        /\ \A n \in 1 .. k : low[n] = stk[n]
    OBVIOUS
  <1>2. ASSUME NEW n \in 0 .. k, NEW p, Rests(p, stk, n)
        PROVE  Rests(p, low, n)
    <2>1. n # 0 => low[n] = stk[n]
      BY <1>1
    <2> QED BY <1>2, <2>1 DEF Rests
  <1>3. FramesRest(low)
    <2> SUFFICES ASSUME NEW n \in 1 .. k
                 PROVE  /\ Rests(low[n].p, low, n - 1)
                        /\ low[n].p = GIVEUP => IsChoice(low[n])
      BY <1>1 DEF FramesRest
    <2>1. low[n] = stk[n] /\ n \in DOMAIN stk /\ n - 1 \in 0 .. k
      BY <1>1
    <2>2. Rests(stk[n].p, stk, n - 1) /\ (stk[n].p = GIVEUP => IsChoice(stk[n]))
      BY <2>1 DEF FramesRest
    <2> QED BY <1>2, <2>1, <2>2
  <1> HIDE DEF low
  <1>4. \A p : Rests(p, stk, k) => Rests(p, low, k)
    BY <1>2
  <1> QED BY <1>1, <1>3, <1>4 DEF low

(* A step that leaves the stack alone and goes to a slot of the same shape. *)
LEMMA Moves ==
  ASSUME IInv, status = "running", pc # GIVEUP,
         UNCHANGED <<input, stack, captop, capsize, status, r>>,
         capture' \in [CapListSlots(capsize) -> Capture],
         s' \in 0 .. e,
         pc' \in DOMAIN Shape[prog], Shape[prog][pc'] = Shape[prog][pc]
  PROVE  IInv'
  <1>1. prog' = prog /\ subject' = subject /\ start' = start /\ e' = e
    BY DEF input, e
  <1>2. pc' \in Nat
    BY ShapedSlot
  <1>3. e \in Nat
    BY CodeAssumption DEF IInv, e
  <1>4. TypeOK'
    BY <1>1, <1>2, <1>3 DEF IInv, TypeOK
  <1>5. StackShaped'
    BY <1>1 DEF IInv, StackShaped, Rests, FramesRest, Above, IsChoice
  <1>6. Positions'
    BY <1>1 DEF IInv, Positions, IsChoice
  <1>7. DOMAIN capture' = DOMAIN capture
    BY DEF IInv, TypeOK
  <1>8. CaptureLevels'
    BY <1>1, <1>7 DEF IInv, CaptureLevels, Levels, IsChoice
  <1> QED BY <1>1, <1>4, <1>5, <1>6, <1>8 DEF IInv

(* Pushing a frame that rests on the stack, and going to a slot above it.  *)
LEMMA Pushes ==
  ASSUME IInv, status = "running", pc # GIVEUP,
         NEW frame \in StackFrames, NEW p \in DOMAIN Shape[prog],
         Push(frame, p),
         frame.p \in DOMAIN Shape[prog], Shape[prog][frame.p] = Shape[prog][pc],
         Shape[prog][p] = Above(frame),
         IsChoice(frame) => frame.s = s /\ frame.caplevel = captop
  PROVE  IInv'
  <1>0. stack \in Seq(StackFrames) /\ Len(stack) \in Nat \ {0}
        /\ Shape[prog][pc] = Above(stack[Len(stack)])
    BY Executing DEF Top
  <1>a. CASE Len(stack) < MAX_BACKTRACK
    <2>1. /\ stack' = Append(stack, frame) /\ pc' = p
          /\ UNCHANGED <<input, s, capture, captop, capsize, status, r>>
      BY <1>a DEF Push, Goto, caps
    <2>2. prog' = prog /\ subject' = subject /\ start' = start /\ e' = e
      BY <2>1 DEF input, e
    <2>3. /\ stack' \in Seq(StackFrames) /\ Len(stack') = Len(stack) + 1
          /\ \A n \in 1 .. Len(stack) : stack'[n] = stack[n]
          /\ stack'[Len(stack) + 1] = frame
      BY <1>0, <2>1
    <2>4. pc' \in Nat
      BY <2>1, ShapedSlot
    <2>5. TypeOK'
      BY <2>1, <2>2, <2>3, <2>4 DEF IInv, TypeOK
    <2>6. ASSUME NEW n \in 0 .. Len(stack), NEW q, Rests(q, stack, n)
          PROVE  Rests(q, stack', n)
      <3>1. n # 0 => stack'[n] = stack[n]
        BY <2>3
      <3> QED BY <2>6, <3>1 DEF Rests
    <2>7. FramesRest(stack')
      <3> SUFFICES ASSUME NEW n \in 1 .. Len(stack) + 1
                   PROVE  /\ Rests(stack'[n].p, stack', n - 1)
                          /\ stack'[n].p = GIVEUP => IsChoice(stack'[n])
        BY <1>0, <2>3 DEF FramesRest
      <3>1. CASE n = Len(stack) + 1
        <4>1. Rests(frame.p, stack, Len(stack))
          BY <1>0 DEF Rests
        <4>2. n - 1 = Len(stack) /\ Len(stack) \in 0 .. Len(stack)
          BY <1>0, <3>1
        <4>3. Rests(frame.p, stack', n - 1)
          BY <2>6, <4>1, <4>2
        <4>4. frame.p # GIVEUP
          BY ShapedSlot
        <4> QED BY <2>3, <3>1, <4>3, <4>4
      <3>2. CASE n # Len(stack) + 1
        <4>1. n \in DOMAIN stack /\ n - 1 \in 0 .. Len(stack)
          BY <1>0, <3>2
        <4>2. Rests(stack[n].p, stack, n - 1)
              /\ (stack[n].p = GIVEUP => IsChoice(stack[n]))
          BY <4>1 DEF IInv, StackShaped, FramesRest
        <4>3. stack'[n] = stack[n]
          BY <1>0, <2>3, <4>1
        <4> QED BY <2>6, <4>1, <4>2, <4>3
      <3> QED BY <3>1, <3>2
    <2>8. Rests(pc', stack', Len(stack'))
      BY <1>0, <2>1, <2>3 DEF Rests
    <2>9. StackShaped'
      BY <2>2, <2>7, <2>8 DEF StackShaped, FramesRest, Rests, Above, IsChoice
    <2>10. Positions'
      BY <1>0, <2>1, <2>2, <2>3 DEF IInv, Positions, IsChoice
    <2>11. CaptureLevels'
      <3>1. \A k \in 1 .. Len(stack) : IsChoice(stack[k]) =>
              stack[k].caplevel <= captop
        BY <1>0 DEF IInv, CaptureLevels, Levels
      <3>2. \A k \in 1 .. Len(stack), j \in 1 .. Len(stack) :
              j < k /\ IsChoice(stack[k]) /\ IsChoice(stack[j]) =>
                stack[j].caplevel <= stack[k].caplevel
        BY <1>0 DEF IInv, CaptureLevels, Levels
      <3>3. captop \in Nat
        BY DEF IInv, TypeOK
      <3>4. ASSUME NEW k \in 1 .. Len(stack) + 1, stack'[k].s # NULL
            PROVE  /\ stack'[k].caplevel <= captop
                   /\ \A j \in 1 .. k - 1 : stack'[j].s # NULL =>
                        stack'[j].caplevel <= stack'[k].caplevel
        BY <1>0, <2>3, <3>1, <3>2, <3>3, <3>4 DEF IsChoice
      <3> QED BY <1>0, <2>1, <2>3, <3>4 DEF IInv, CaptureLevels, Levels, IsChoice
    <2> QED BY <2>1, <2>2, <2>5, <2>9, <2>10, <2>11 DEF IInv
  <1>b. CASE ~(Len(stack) < MAX_BACKTRACK)
    <2>1. /\ status' = "MATCH_ERR_STACK"
          /\ UNCHANGED <<input, pc, s, stack, capture, captop, capsize, r>>
      BY <1>b DEF Push, Return, caps
    <2>2. prog' = prog /\ subject' = subject /\ start' = start /\ e' = e
      BY <2>1 DEF input, e
    <2> QED
      BY <2>1, <2>2 DEF IInv, TypeOK, StackShaped, FramesRest, Rests, Above,
         IsChoice, Positions, CaptureLevels, Levels
  <1> QED BY <1>a, <1>b

(* Going back to a smaller stack, to a slot that rests on it, with fewer   *)
(* captures or the same.                                                   *)
LEMMA Drops ==
  ASSUME IInv, status = "running", pc # GIVEUP,
         NEW k \in 0 .. Len(stack) - 1,
         stack' = SubSeq(stack, 1, k),
         UNCHANGED <<input, capture, capsize, status, r>>,
         s' \in 0 .. e,
         captop' \in 0 .. captop,
         \A n \in 1 .. k : IsChoice(stack[n]) => stack[n].caplevel <= captop',
         pc' \in Nat, Rests(pc', stack, k)
  PROVE  IInv'
  <1>0. stack \in Seq(StackFrames) /\ Len(stack) \in Nat \ {0} /\ k \in 0 .. Len(stack)
        /\ FramesRest(stack)
    BY Executing DEF IInv, StackShaped
  <1>1. prog' = prog /\ subject' = subject /\ start' = start /\ e' = e
    BY DEF input, e
  <1>2. /\ stack' \in Seq(StackFrames) /\ Len(stack') = k
        /\ \A n \in 1 .. k : stack'[n] = stack[n]
        /\ FramesRest(stack') /\ Rests(pc', stack', k)
    BY <1>0, PrefixRests
  <1>3. e \in Nat /\ captop \in Nat
    BY CodeAssumption DEF IInv, e, TypeOK
  <1>4. TypeOK'
    BY <1>1, <1>2, <1>3 DEF IInv, TypeOK
  <1>5. StackShaped'
    BY <1>1, <1>2 DEF StackShaped, FramesRest, Rests, Above, IsChoice
  <1>6. Positions'
    BY <1>0, <1>1, <1>2 DEF IInv, Positions, IsChoice
  <1>7. CaptureLevels'
    <2>1. \A m \in 1 .. Len(stack), j \in 1 .. Len(stack) :
            j < m /\ IsChoice(stack[m]) /\ IsChoice(stack[j]) =>
              stack[j].caplevel <= stack[m].caplevel
      BY <1>0 DEF IInv, CaptureLevels, Levels
    <2>2. captop' \in DOMAIN capture'
      BY <1>3 DEF IInv, TypeOK, CaptureLevels, CapListSlots
    <2>3. ASSUME NEW m \in 1 .. k, IsChoice(stack[m])
          PROVE  /\ stack[m].caplevel <= captop'
                 /\ \A j \in 1 .. m - 1 : IsChoice(stack[j]) =>
                      stack[j].caplevel <= stack[m].caplevel
      <3>1. stack[m].caplevel <= captop'
        BY <2>3
      <3>2. m \in 1 .. Len(stack) /\ \A j \in 1 .. m - 1 : j \in 1 .. Len(stack) /\ j < m
        BY <1>0
      <3> QED BY <2>1, <2>3, <3>1, <3>2
    <2> QED BY <1>0, <1>2, <2>2, <2>3 DEF CaptureLevels, Levels, IsChoice
  <1> QED BY <1>1, <1>4, <1>5, <1>6, <1>7 DEF IInv

(* The label fail, on the stack or on what a pop has left of it.           *)
LEMMA Fails ==
  ASSUME IInv, status = "running", pc # GIVEUP,
         NEW n \in Nat, n <= Len(stack), FailFrom(SubSeq(stack, 1, n))
  PROVE  IInv'
  <1>0. stack \in Seq(StackFrames) /\ Len(stack) \in Nat \ {0}
    BY Executing
  <1> DEFINE stk == SubSeq(stack, 1, n)
  <1>1. /\ stk \in Seq(StackFrames) /\ Len(stk) = n
        /\ \A j \in 1 .. n : stk[j] = stack[j]
    BY <1>0
  <1> HIDE DEF stk
  <1>a. ASSUME NEW j \in 1 .. n
        PROVE  SubSeq(stk, 1, j - 1) = SubSeq(stack, 1, j - 1)
    <2>1. /\ SubSeq(stk, 1, j - 1) \in Seq(StackFrames)
          /\ Len(SubSeq(stk, 1, j - 1)) = j - 1
          /\ \A m \in 1 .. j - 1 : SubSeq(stk, 1, j - 1)[m] = stack[m]
      BY <1>1
    <2>2. /\ SubSeq(stack, 1, j - 1) \in Seq(StackFrames)
          /\ Len(SubSeq(stack, 1, j - 1)) = j - 1
          /\ \A m \in 1 .. j - 1 : SubSeq(stack, 1, j - 1)[m] = stack[m]
      BY <1>0
    <2> QED BY <2>1, <2>2, SeqEqual
  <1>b. PICK k \in DOMAIN stk :
          /\ stk[k].s # NULL
          /\ s' = stk[k].s /\ captop' = stk[k].caplevel /\ pc' = stk[k].p
          /\ stack' = SubSeq(stk, 1, k - 1)
          /\ UNCHANGED <<input, capture, capsize, status, r>>
    BY DEF FailFrom, Goto, stk
  <1>2. /\ k \in 1 .. n /\ stack[k].s # NULL
        /\ s' = stack[k].s /\ captop' = stack[k].caplevel /\ pc' = stack[k].p
        /\ stack' = SubSeq(stack, 1, k - 1)
        /\ UNCHANGED <<input, capture, capsize, status, r>>
    BY <1>1, <1>a, <1>b
  <1>3. k \in 1 .. Len(stack) /\ k - 1 \in 0 .. Len(stack) - 1
        /\ stack[k] \in StackFrames /\ IsChoice(stack[k])
    BY <1>0, <1>2 DEF IsChoice
  <1>4. Rests(stack[k].p, stack, k - 1)
    BY <1>0, <1>3 DEF IInv, StackShaped, FramesRest
  <1>5. stack[k].s \in 0 .. e /\ e' = e
    BY <1>0, <1>2, <1>3 DEF IInv, Positions, e, input
  <1>6. stack[k].caplevel \in 0 .. captop
    <2>1. stack[k].caplevel \in Nat
      BY <1>3 DEF StackFrames
    <2>2. stack[k].caplevel <= captop
      BY <1>0, <1>3 DEF IInv, CaptureLevels, Levels
    <2> QED BY <2>1, <2>2 DEF IInv, TypeOK
  <1>7. \A j \in 1 .. k - 1 : IsChoice(stack[j]) =>
          stack[j].caplevel <= stack[k].caplevel
    BY <1>0, <1>3 DEF IInv, CaptureLevels, Levels
  <1>8. stack[k].p \in Nat
    BY <1>3 DEF StackFrames
  <1> QED BY <1>2, <1>3, <1>4, <1>5, <1>6, <1>7, <1>8, Drops

LEMMA Below ==
  ASSUME NEW m \in Nat, NEW n \in Nat, m < n
  PROVE  m \in 0 .. n - 1
  OBVIOUS

(* A step that adds a capture to an array with room for it.                *)
LEMMA Writes ==
  ASSUME IInv, status = "running", pc # GIVEUP,
         UNCHANGED <<input, s, stack, r>>, captop' = captop + 1,
         capsize' \in Nat, capture' \in [0 .. capsize' - 1 -> Capture],
         pc' \in Nat, Rests(pc', stack, Len(stack)),
         \/ status' = "running" /\ captop' < capsize'
         \/ status' \in {"MATCH_ERR_CAP", "crashed"}
  PROVE  IInv'
  <1>1. prog' = prog /\ subject' = subject /\ start' = start /\ e' = e
    BY DEF input, e
  <1>2. captop \in Nat /\ captop' \in Nat /\ stack \in Seq(StackFrames)
    BY DEF IInv, TypeOK
  <1>3. TypeOK'
    BY <1>1, <1>2 DEF IInv, TypeOK, CapListSlots
  <1>4. StackShaped'
    BY <1>1 DEF IInv, StackShaped, Rests, FramesRest, Above, IsChoice
  <1>5. Positions'
    BY <1>1 DEF IInv, Positions, IsChoice
  <1>6. status' \notin {"MATCH_ERR_CAP", "crashed"} => captop' \in DOMAIN capture'
    <2>1. captop' < capsize' => captop' \in 0 .. capsize' - 1
      BY <1>2, Below
    <2>2. DOMAIN capture' = 0 .. capsize' - 1
      OBVIOUS
    <2> QED BY <2>1, <2>2
  <1>7. ASSUME NEW k \in DOMAIN stack, IsChoice(stack[k])
        PROVE  /\ stack[k].caplevel <= captop'
               /\ \A j \in 1 .. k - 1 : IsChoice(stack[j]) =>
                    stack[j].caplevel <= stack[k].caplevel
    <2>1. stack[k].caplevel \in Nat /\ stack[k].caplevel <= captop
      <3>1. stack[k] \in StackFrames
        BY <1>2
      <3> QED BY <1>7, <3>1 DEF IInv, CaptureLevels, Levels, StackFrames
    <2>2. \A j \in 1 .. k - 1 : IsChoice(stack[j]) =>
            stack[j].caplevel <= stack[k].caplevel
      BY <1>7 DEF IInv, CaptureLevels, Levels
    <2> QED BY <1>2, <2>1, <2>2
  <1>8. CaptureLevels'
    BY <1>6, <1>7 DEF CaptureLevels, Levels, IsChoice
  <1> QED BY <1>1, <1>3, <1>4, <1>5, <1>8 DEF IInv

(* Writing a capture: the array has a slot for it, and grows in time for   *)
(* the next one.                                                           *)
LEMMA Captures ==
  ASSUME IInv, status = "running", pc # GIVEUP,
         NEW cap \in Capture, PushCapture(cap),
         pc + 1 \in DOMAIN Shape[prog], Shape[prog][pc + 1] = Shape[prog][pc]
  PROVE  IInv'
  <1> DEFINE written == [capture EXCEPT ![captop] = cap]
  <1>1. /\ captop \in Nat /\ capsize \in Nat /\ captop \in 0 .. capsize - 1
        /\ capture \in [0 .. capsize - 1 -> Capture]
    BY DEF IInv, TypeOK, CaptureLevels, CapListSlots
  <1>2. written \in [0 .. capsize - 1 -> Capture]
    BY <1>1
  <1>3. pc \in Nat /\ Rests(pc, stack, Len(stack)) /\ pc + 1 \in Nat
        /\ Rests(pc + 1, stack, Len(stack))
    BY Executing, ShapedSlot DEF Rests, Top
  <1> HIDE DEF written
  <1>4. CASE captop + 1 < capsize
    <2>1. /\ capture' = written /\ captop' = captop + 1 /\ pc' = pc + 1
          /\ UNCHANGED <<input, s, stack, capsize, status, r>>
      BY <1>4 DEF PushCapture, Goto, written
    <2> QED BY <1>1, <1>2, <1>3, <1>4, <2>1, Writes
  <1>5. ASSUME ~(captop + 1 < capsize), captop + 1 < MAX_CAPLISTSIZE,
               NEW newc \in doublecap(written, captop + 1), capture' = newc,
               captop' = captop + 1, capsize' = 2 * (captop + 1),
               UNCHANGED <<s, stack>>, Goto(pc + 1)
        PROVE  IInv'
    <2>1. captop + 1 = capsize
      BY <1>1, <1>5
    <2>2. pc' = pc + 1 /\ UNCHANGED <<input, s, stack, status, r>>
      BY <1>5 DEF Goto
    <2>3. capsize' \in Nat /\ captop' < capsize'
      BY <1>1, <1>5
    <2>4. capture' \in [0 .. capsize' - 1 -> Capture]
      <3>1. PICK junk \in Uninit :
              newc = [i \in CapListSlots(2 * (captop + 1)) |->
                        IF i < captop + 1 THEN written[i] ELSE junk]
        BY <1>5 DEF doublecap
      <3> QED BY <1>1, <1>2, <1>5, <2>1, <3>1, LimitAssumption DEF CapListSlots
    <2> QED BY <1>3, <1>5, <2>2, <2>3, <2>4, Writes
  <1>6. ASSUME ~(captop + 1 < capsize),
               capture' = written, captop' = captop + 1, UNCHANGED capsize,
               NEW err \in {"MATCH_ERR_CAP", "crashed"}, Return(err, r)
        PROVE  IInv'
    <2>1. status' = err /\ UNCHANGED <<input, s, stack, capsize, pc, r>>
      BY <1>6 DEF Return
    <2> QED BY <1>1, <1>2, <1>3, <1>6, <2>1, Writes
  <1>7. CASE ~(captop + 1 < capsize)
    <2>1. CASE captop + 1 < MAX_CAPLISTSIZE
      BY <1>5, <1>6, <1>7, <2>1 DEF PushCapture, written
    <2>2. CASE ~(captop + 1 < MAX_CAPLISTSIZE)
      BY <1>6, <1>7, <2>2 DEF PushCapture, written
    <2> QED BY <2>1, <2>2
  <1> QED BY <1>4, <1>7

----------------------------------------------------------------------------
(* The inductive invariant                                                 *)

LEMMA InitIInv == Init => IInv
  <1> SUFFICES ASSUME Init PROVE IInv
    OBVIOUS
  <1>1. prog \in Programs /\ subject \in Subjects /\ start \in 0 .. e
    BY DEF Init
  <1>2. WellShaped(Code[prog], Shape[prog]) /\ e \in Nat
    BY <1>1, ShapeAssumption, CodeAssumption DEF e
  <1>3. stack = <<Frame(start, GIVEUP, 0)>> /\ pc = 1 /\ s = start
        /\ captop = 0 /\ capsize = INIT_CAPLISTSIZE
    BY DEF Init
  <1>4. start \in Nat /\ start # NULL
    BY <1>1, <1>2 DEF NULL
  <1>5. /\ Frame(start, GIVEUP, 0) \in StackFrames
        /\ IsChoice(Frame(start, GIVEUP, 0))
        /\ Above(Frame(start, GIVEUP, 0)) = At0(0, FALSE)
    BY <1>4 DEF Frame, StackFrames, IsChoice, Above, GIVEUP
  <1>6. /\ stack \in Seq(StackFrames) /\ Len(stack) = 1
        /\ stack[1] = Frame(start, GIVEUP, 0)
        /\ stack[1].s = start /\ stack[1].p = GIVEUP /\ stack[1].caplevel = 0
    BY <1>3, <1>5 DEF Frame
  <1>7. PICK junk \in Uninit :
          capture = [i \in CapListSlots(INIT_CAPLISTSIZE) |-> junk]
    BY DEF Init
  <1>8. capture \in [CapListSlots(capsize) -> Capture] /\ 0 \in DOMAIN capture
    BY <1>3, <1>7, LimitAssumption DEF CapListSlots
  <1>9. TypeOK
    BY <1>1, <1>2, <1>3, <1>6, <1>8, LimitAssumption DEF TypeOK, Init, NULL
  <1>10. StackShaped
    <2>1. Rests(pc, stack, Len(stack))
      <3>1. 1 \in DOMAIN Shape[prog] /\ Shape[prog][1] = At0(0, FALSE)
        BY <1>2 DEF WellShaped
      <3>2. Above(stack[1]) = At0(0, FALSE)
        BY <1>5, <1>6
      <3>3. Rests(1, stack, 1)
        BY <3>1, <3>2 DEF Rests
      <3> QED BY <1>3, <1>6, <3>3
    <2>2. FramesRest(stack)
      <3>1. DOMAIN stack = {1}
        BY <1>6
      <3>2. Rests(stack[1].p, stack, 0) /\ IsChoice(stack[1])
        BY <1>5, <1>6 DEF Rests
      <3> QED BY <3>1, <3>2 DEF FramesRest
    <2> QED BY <2>1, <2>2 DEF StackShaped
  <1>11. Positions
    BY <1>1, <1>3, <1>6 DEF Positions
  <1>12. CaptureLevels
    BY <1>3, <1>6, <1>8 DEF CaptureLevels, Levels
  <1> QED BY <1>1, <1>3, <1>9, <1>10, <1>11, <1>12 DEF IInv

(* The opcodes that go on at the next slot or at their label, with the     *)
(* stack and the captures as they are.                                     *)
LEMMA Flow ==
  ASSUME IInv, status = "running", pc # GIVEUP,
         UNCHANGED <<stack, caps>>, s' \in 0 .. e,
         NEW p, Goto(p), p \in DOMAIN Shape[prog],
         Shape[prog][p] = Shape[prog][pc]
  PROVE  IInv'
  <1>1. UNCHANGED <<input, stack, captop, capsize, status, r, capture>> /\ pc' = p
    BY DEF Goto, caps
  <1>2. capture' \in [CapListSlots(capsize) -> Capture]
    BY <1>1 DEF IInv, TypeOK
  <1> QED BY <1>1, <1>2, Moves

LEMMA Consumes ==
  ASSUME IInv, status = "running", pc # GIVEUP, inst.op \in Straight,
         NEW n \in Int, Consume(n), s + n \in 0 .. e
  PROVE  IInv'
  <1>1. pc + 1 \in DOMAIN Shape[prog] /\ Shape[prog][pc + 1] = Shape[prog][pc]
    BY Executing DEF ShapedAt, inst
  <1>2. s' \in 0 .. e /\ Goto(pc + 1) /\ UNCHANGED <<stack, caps>>
    BY DEF Consume
  <1> QED BY <1>1, <1>2, Flow

(* Failing with the whole stack.                                           *)
LEMMA FailsHere ==
  ASSUME IInv, status = "running", pc # GIVEUP, FailFrom(stack)
  PROVE  IInv'
  <1>1. stack \in Seq(StackFrames) /\ Len(stack) \in Nat
    BY Executing
  <1>2. SubSeq(stack, 1, Len(stack)) = stack
    BY <1>1
  <1>3. FailFrom(SubSeq(stack, 1, Len(stack)))
    BY <1>2 DEF FailFrom
  <1> QED BY <1>1, <1>3, Fails

(* The two captures of a backreference are slots of the array, so that the *)
(* length of the text between them is a number.                            *)
LEMMA PriorInt ==
  ASSUME IInv, status = "running", NEW target, NEW p \in Prior(target)
  PROVE  PriorLen(p) \in Int
  <1>1. /\ captop \in Nat /\ capsize \in Nat /\ captop \in 0 .. capsize - 1
        /\ capture \in [0 .. capsize - 1 -> Capture]
    BY DEF IInv, TypeOK, CaptureLevels, CapListSlots
  <1>2. PICK i \in PriorOpen(target) : \E k \in CloseOf(i) : p = <<i, k>>
    BY DEF Prior
  <1>3. PICK k \in CloseOf(i) : p = <<i, k>>
    BY <1>2
  <1>4. i \in 0 .. captop - 1
    BY DEF PriorOpen
  <1>5. k \in i + 1 .. captop
    BY DEF CloseOf
  <1>6. i \in 0 .. capsize - 1 /\ k \in 0 .. capsize - 1
    BY <1>1, <1>4, <1>5
  <1>7. capture[i].s \in Int /\ capture[k].s \in Int
    BY <1>1, <1>6 DEF Capture
  <1>8. PriorLen(p) = capture[k].s - capture[i].s
    BY <1>3 DEF PriorLen
  <1> QED BY <1>7, <1>8

(* vm() returns: only the sentinel of the captures may have changed.       *)
LEMMA Returns ==
  ASSUME IInv, UNCHANGED <<captop, capsize, input, pc, s, stack>>,
         status = "running", status' = "MATCH_OK", r' \in Int,
         capture' \in [CapListSlots(capsize) -> Capture]
  PROVE  IInv'
  <1>1. prog' = prog /\ subject' = subject /\ start' = start /\ e' = e
    BY DEF input, e
  <1>2. TypeOK'
    BY <1>1 DEF IInv, TypeOK
  <1>3. StackShaped'
    BY <1>1 DEF IInv, StackShaped, Rests, FramesRest, Above, IsChoice
  <1>4. Positions'
    BY <1>1 DEF IInv, Positions, IsChoice
  <1>5. DOMAIN capture' = DOMAIN capture
    BY DEF IInv, TypeOK
  <1>6. CaptureLevels'
    BY <1>1, <1>5 DEF IInv, CaptureLevels, Levels, IsChoice
  <1> QED BY <1>1, <1>2, <1>3, <1>4, <1>6 DEF IInv

LEMMA NextIInv == IInv /\ [Next]_vars => IInv'
  <1> SUFFICES ASSUME IInv, [Next]_vars PROVE IInv'
    OBVIOUS
  <1> DEFINE d == Shape[prog][pc].choices
             q == Shape[prog][pc].inRule
  <1>0. s \in 0 .. e /\ e \in Nat /\ s \in Int
    BY CodeAssumption DEF IInv, Positions, TypeOK, e
  <1>a. ASSUME status = "running", pc # GIVEUP, inst.op \in Tests, NEW p,
               p \in {pc + 1, inst.to}, Goto(p), UNCHANGED <<s, stack, caps>>
        PROVE  IInv'
    <2>1. p \in DOMAIN Shape[prog] /\ Shape[prog][p] = Shape[prog][pc]
      BY <1>a, Executing DEF ShapedAt, inst
    <2> QED BY <1>0, <1>a, <2>1, Flow
  <1>1. CASE ITestSet
    BY <1>1, <1>a DEF ITestSet, At, Tests
  <1>2. CASE ITestChar
    BY <1>2, <1>a DEF ITestChar, At, Tests
  <1>3. CASE ITestAny
    BY <1>3, <1>a DEF ITestAny, At, Tests
  <1>b. ASSUME status = "running", pc # GIVEUP, inst.op \in Straight,
               Consume(1), s < e
        PROVE  IInv'
    BY <1>0, <1>b, Consumes
  <1>4. CASE IAny
    BY <1>4, <1>b, FailsHere DEF IAny, At, Straight
  <1>5. CASE IChar
    BY <1>5, <1>b, FailsHere DEF IChar, At, Straight, Here
  <1>6. CASE ISet
    BY <1>6, <1>b, FailsHere DEF ISet, At, Straight, Here
  <1>7. CASE IBehind
    <2>1. inst.op \in Straight /\ status = "running" /\ pc # GIVEUP
      BY <1>7 DEF IBehind, At, Straight
    <2>2. inst.aux \in Nat
      BY <2>1, Executing DEF Instruction
    <2>3. CASE inst.aux > s
      BY <1>7, <2>1, <2>3, FailsHere DEF IBehind
    <2>4. CASE ~(inst.aux > s)
      <3>1. Consume(-inst.aux) /\ -inst.aux \in Int /\ s + (-inst.aux) \in 0 .. e
        BY <1>0, <1>7, <2>2, <2>4 DEF IBehind
      <3> QED BY <2>1, <3>1, Consumes
    <2> QED BY <2>3, <2>4
  <1>8. CASE ISpan
    <2>1. inst.op \in Straight /\ status = "running" /\ pc # GIVEUP
      BY <1>8 DEF ISpan, At, Straight
    <2>2. PICK n \in 0 .. e - s : Consume(n)
      BY <1>8 DEF ISpan
    <2>3. n \in Int /\ s + n \in 0 .. e
      BY <1>0, <2>2
    <2> QED BY <2>1, <2>2, <2>3, Consumes
  <1>9. CASE IJmp
    <2>1. status = "running" /\ pc # GIVEUP /\ inst.op = "jmp"
      BY <1>9 DEF IJmp, At
    <2>2. inst.to \in DOMAIN Shape[prog] /\ Shape[prog][inst.to] = Shape[prog][pc]
      BY <2>1, Executing DEF ShapedAt, inst
    <2> QED BY <1>0, <1>9, <2>1, <2>2, Flow DEF IJmp
  <1>10. CASE IChoice
    <2>1. status = "running" /\ pc # GIVEUP /\ inst.op = "choice"
          /\ Push(Frame(s, inst.to, captop), pc + 1)
      BY <1>10 DEF IChoice, At
    <2>2. /\ pc + 1 \in DOMAIN Shape[prog] /\ Shape[prog][pc + 1] = At0(d + 1, q)
          /\ inst.to \in DOMAIN Shape[prog] /\ Shape[prog][inst.to] = At0(d, q)
          /\ inst.to \in Nat /\ At0(d, q) = Shape[prog][pc]
      BY <2>1, Executing DEF ShapedAt, inst, Instruction
    <2>3. Frame(s, inst.to, captop) \in StackFrames
      BY <1>0, <2>2 DEF Frame, StackFrames, IInv, TypeOK
    <2>4. inst.to # GIVEUP /\ IsChoice(Frame(s, inst.to, captop))
      BY <1>0, <2>2, ShapedSlot DEF IsChoice, Frame, NULL
    <2>5. Above(Frame(s, inst.to, captop)) = At0(d + 1, q)
      BY <2>2, <2>4 DEF Above, Frame, At0
    <2> QED BY <2>1, <2>2, <2>3, <2>5, Pushes DEF Frame
  <1>11. CASE ICall
    <2>1. status = "running" /\ pc # GIVEUP /\ inst.op = "call"
          /\ Push(Frame(NULL, pc + 1, 0), inst.to)
      BY <1>11 DEF ICall, At
    <2>2. /\ pc + 1 \in DOMAIN Shape[prog] /\ Shape[prog][pc + 1] = At0(d, q)
          /\ inst.to \in DOMAIN Shape[prog] /\ Shape[prog][inst.to] = At0(0, TRUE)
          /\ At0(d, q) = Shape[prog][pc]
      BY <2>1, Executing DEF ShapedAt, inst
    <2>a. pc + 1 \in Nat
      BY <2>2, ShapedSlot
    <2>3. Frame(NULL, pc + 1, 0) \in StackFrames
      BY <2>a DEF Frame, StackFrames, NULL
    <2>4. ~IsChoice(Frame(NULL, pc + 1, 0))
      BY DEF IsChoice, Frame
    <2> QED BY <2>1, <2>2, <2>3, <2>4, Pushes DEF Frame, Above
  <1>c. ASSUME status = "running", pc # GIVEUP
        PROVE  /\ stack \in Seq(StackFrames) /\ Len(stack) \in Nat \ {0}
               /\ Top(stack) = stack[Len(stack)]
               /\ Top(stack) \in StackFrames
               /\ Pop(stack) = SubSeq(stack, 1, Len(stack) - 1)
               /\ Len(stack) - 1 \in 0 .. Len(stack) - 1
               /\ captop \in Nat
               /\ \A n \in 1 .. Len(stack) - 1 : IsChoice(stack[n]) =>
                    /\ stack[n].caplevel <= captop
                    /\ IsChoice(Top(stack)) =>
                         stack[n].caplevel <= Top(stack).caplevel
    <2>1. stack \in Seq(StackFrames) /\ Len(stack) \in Nat \ {0} /\ captop \in Nat
      BY <1>c, Executing DEF IInv, TypeOK
    <2>2. Top(stack) = stack[Len(stack)] /\ Top(stack) \in StackFrames
          /\ Pop(stack) = SubSeq(stack, 1, Len(stack) - 1)
          /\ Len(stack) - 1 \in 0 .. Len(stack) - 1
      BY <2>1 DEF Top, Pop
    <2>3. ASSUME NEW n \in 1 .. Len(stack) - 1, IsChoice(stack[n])
          PROVE  /\ stack[n].caplevel <= captop
                 /\ IsChoice(Top(stack)) =>
                      stack[n].caplevel <= Top(stack).caplevel
      BY <2>1, <2>2, <2>3 DEF IInv, CaptureLevels, Levels
    <2> QED BY <2>1, <2>2, <2>3
  <1>12. CASE IRet
    <2>1. status = "running" /\ pc # GIVEUP /\ inst.op = "ret"
      BY <1>12 DEF IRet, At
    <2>2. /\ stack' = SubSeq(stack, 1, Len(stack) - 1) /\ pc' = Top(stack).p
          /\ UNCHANGED <<input, s, capture, captop, capsize, status, r>>
      BY <1>c, <1>12, <2>1 DEF IRet, Goto, caps
    <2>3. Rests(Top(stack).p, stack, Len(stack) - 1) /\ Top(stack).p \in Nat
      BY <1>c, <2>1, TopFrame DEF StackFrames
    <2>4. captop' \in 0 .. captop /\ s' \in 0 .. e
      BY <1>0, <1>c, <2>1, <2>2
    <2> QED BY <1>c, <2>1, <2>2, <2>3, <2>4, Drops
  <1>13. CASE ICommit
    <2>1. status = "running" /\ pc # GIVEUP /\ inst.op = "commit"
      BY <1>13 DEF ICommit, At
    <2>2. /\ stack' = SubSeq(stack, 1, Len(stack) - 1) /\ pc' = inst.to
          /\ UNCHANGED <<input, s, capture, captop, capsize, status, r>>
      BY <1>c, <1>13, <2>1 DEF ICommit, Goto, caps
    <2>3. /\ d > 0 /\ inst.to \in DOMAIN Shape[prog]
          /\ Shape[prog][inst.to] = At0(d - 1, q)
      BY <2>1, Executing DEF ShapedAt, inst
    <2>4. Rests(inst.to, stack, Len(stack) - 1) /\ inst.to \in Nat
      <3>1. /\ Rests(Top(stack).p, stack, Len(stack) - 1) /\ Top(stack).p # GIVEUP
            /\ Shape[prog][Top(stack).p] = At0(d - 1, q)
        BY <2>1, <2>3, TopFrame
      <3> QED BY <2>3, <3>1, ShapedSlot DEF Rests
    <2>5. captop' \in 0 .. captop /\ s' \in 0 .. e
      BY <1>0, <1>c, <2>1, <2>2
    <2> QED BY <1>c, <2>1, <2>2, <2>4, <2>5, Drops
  <1>14. CASE IBackCommit
    <2>1. status = "running" /\ pc # GIVEUP /\ inst.op = "backcommit"
      BY <1>14 DEF IBackCommit, At
    <2>2. /\ stack' = SubSeq(stack, 1, Len(stack) - 1) /\ pc' = inst.to
          /\ s' = Top(stack).s /\ captop' = Top(stack).caplevel
          /\ UNCHANGED <<input, capture, capsize, status, r>>
      BY <1>c, <1>14, <2>1 DEF IBackCommit, Goto
    <2>3. /\ d > 0 /\ inst.to \in DOMAIN Shape[prog]
          /\ Shape[prog][inst.to] = At0(d - 1, q)
      BY <2>1, Executing DEF ShapedAt, inst
    <2>4. /\ Rests(Top(stack).p, stack, Len(stack) - 1) /\ Top(stack).p # GIVEUP
          /\ Shape[prog][Top(stack).p] = At0(d - 1, q) /\ IsChoice(Top(stack))
      BY <2>1, <2>3, TopFrame
    <2>5. Rests(inst.to, stack, Len(stack) - 1) /\ inst.to \in Nat
      BY <2>3, <2>4, ShapedSlot DEF Rests
    <2>6. Top(stack).s \in 0 .. e
      BY <1>c, <2>1, <2>4 DEF IInv, Positions
    <2>7. Top(stack).caplevel \in 0 .. captop
      <3>1. Top(stack).caplevel <= captop
        BY <1>c, <2>1, <2>4 DEF IInv, CaptureLevels, Levels
      <3>2. Top(stack).caplevel \in Nat
        BY <1>c, <2>1 DEF StackFrames
      <3> QED BY <1>c, <2>1, <3>1, <3>2
    <2> QED BY <1>c, <2>1, <2>2, <2>4, <2>5, <2>6, <2>7, Drops
  <1>15. CASE IFailTwice
    <2>1. status = "running" /\ pc # GIVEUP
          /\ FailFrom(SubSeq(stack, 1, Len(stack) - 1))
      BY <1>15 DEF IFailTwice, At, Pop
    <2>2. Len(stack) - 1 \in Nat /\ Len(stack) - 1 <= Len(stack)
      BY <1>c, <2>1
    <2> QED BY <2>1, <2>2, Fails
  <1>16. CASE IFail
    BY <1>16, FailsHere DEF IFail, At
  <1>17. CASE IPartialCommit
    <2>1. status = "running" /\ pc # GIVEUP /\ inst.op = "partialcommit"
      BY <1>17 DEF IPartialCommit, At
    <2>2. /\ stack' = [stack EXCEPT ![Len(stack)].s = s,
                                    ![Len(stack)].caplevel = captop]
          /\ pc' = inst.to
          /\ UNCHANGED <<input, s, capture, captop, capsize, status, r>>
      BY <1>17 DEF IPartialCommit, Goto, caps
    <2>3. prog' = prog /\ subject' = subject /\ start' = start /\ e' = e
      BY <2>2 DEF input, e
    <2>4. /\ inst.to \in DOMAIN Shape[prog] /\ Shape[prog][inst.to] = Shape[prog][pc]
          /\ d > 0 /\ Shape[prog][pc] = Above(Top(stack))
      BY <2>1, Executing DEF ShapedAt, inst
    <2>5. IsChoice(Top(stack)) /\ Top(stack).p # GIVEUP
      BY <2>1, <2>4, TopFrame
    <2>6. /\ stack' \in Seq(StackFrames) /\ Len(stack') = Len(stack)
          /\ \A n \in 1 .. Len(stack) - 1 : stack'[n] = stack[n]
          /\ stack'[Len(stack)].p = Top(stack).p
          /\ stack'[Len(stack)].s = s
          /\ stack'[Len(stack)].caplevel = captop
      <3> DEFINE top == [stack[Len(stack)] EXCEPT !.s = s, !.caplevel = captop]
      <3>1. /\ top \in StackFrames /\ top.p = Top(stack).p
            /\ top.s = s /\ top.caplevel = captop
        BY <1>0, <1>c, <2>1 DEF StackFrames
      <3>2. stack' = [stack EXCEPT ![Len(stack)] = top]
        BY <1>c, <2>1, <2>2
      <3> HIDE DEF top
      <3>3. /\ stack' \in Seq(StackFrames) /\ Len(stack') = Len(stack)
            /\ \A n \in 1 .. Len(stack) - 1 : stack'[n] = stack[n]
            /\ stack'[Len(stack)] = top
        BY <1>c, <2>1, <3>1, <3>2
      <3> QED BY <3>1, <3>3
    <2>7. \A n \in 1 .. Len(stack) : stack'[n].p = stack[n].p
            /\ (IsChoice(stack'[n]) <=> IsChoice(stack[n]))
      BY <1>0, <1>c, <2>1, <2>5, <2>6 DEF IsChoice, NULL
    <2>8. \A n \in 1 .. Len(stack) : Above(stack'[n]) = Above(stack[n])
      BY <2>7 DEF Above
    <2>9. \A n \in 0 .. Len(stack) : \A p : Rests(p, stack, n) => Rests(p, stack', n)
      BY <2>8 DEF Rests
    <2>10. FramesRest(stack')
      <3>1. FramesRest(stack) /\ DOMAIN stack' = 1 .. Len(stack)
            /\ DOMAIN stack = 1 .. Len(stack)
        BY <1>c, <2>1, <2>6 DEF IInv, StackShaped
      <3>2. \A n \in 1 .. Len(stack) : n - 1 \in 0 .. Len(stack)
        BY <1>c, <2>1
      <3> QED BY <2>7, <2>9, <3>1, <3>2 DEF FramesRest
    <2>11. Rests(pc', stack', Len(stack'))
      <3>1. Rests(pc, stack, Len(stack)) /\ Len(stack) \in 0 .. Len(stack)
        BY <1>c, <2>1 DEF IInv, StackShaped
      <3>2. Rests(inst.to, stack, Len(stack))
        BY <1>c, <2>1, <2>4 DEF Rests
      <3> QED BY <2>2, <2>6, <2>9, <3>1, <3>2
    <2>12. StackShaped'
      BY <2>3, <2>10, <2>11 DEF StackShaped, FramesRest, Rests, Above, IsChoice
    <2>13. Positions'
      BY <1>0, <1>c, <2>1, <2>2, <2>3, <2>6 DEF IInv, Positions, IsChoice
    <2>14. CaptureLevels'
      <3>1. ASSUME NEW k \in 1 .. Len(stack), IsChoice(stack[k])
            PROVE  /\ stack'[k].caplevel <= captop
                   /\ \A j \in 1 .. k - 1 : IsChoice(stack[j]) =>
                        stack'[j].caplevel <= stack'[k].caplevel
        <4>1. CASE k = Len(stack)
          BY <1>c, <2>1, <2>6, <4>1
        <4>2. CASE k # Len(stack)
          <5>1. k \in 1 .. Len(stack) - 1 /\ k \in DOMAIN stack
                /\ stack'[k] = stack[k]
                /\ \A j \in 1 .. k - 1 : stack'[j] = stack[j]
            BY <1>c, <2>1, <2>6, <4>2
          <5>2. \A j \in 1 .. k - 1 : IsChoice(stack[j]) =>
                  stack[j].caplevel <= stack[k].caplevel
            BY <3>1, <5>1 DEF IInv, CaptureLevels, Levels
          <5>3. stack[k].caplevel <= captop
            BY <1>c, <2>1, <3>1, <5>1
          <5> QED BY <5>1, <5>2, <5>3
        <4> QED BY <4>1, <4>2
      <3>2. DOMAIN stack' = 1 .. Len(stack)
        BY <2>6
      <3>3. \A k \in 1 .. Len(stack) : \A j \in 1 .. k - 1 : j \in 1 .. Len(stack)
        BY <1>c, <2>1
      <3>4. \A k \in DOMAIN stack' : stack'[k].s # NULL =>
              /\ stack'[k].caplevel <= captop
              /\ \A j \in 1 .. k - 1 : stack'[j].s # NULL =>
                   stack'[j].caplevel <= stack'[k].caplevel
        BY <2>7, <3>1, <3>2, <3>3 DEF IsChoice
      <3> QED BY <2>2, <3>4 DEF IInv, CaptureLevels, Levels, IsChoice
    <2>15. inst.to \in Nat
      BY <2>4, ShapedSlot
    <2>16. TypeOK'
      BY <2>2, <2>3, <2>6, <2>15 DEF IInv, TypeOK
    <2> QED BY <2>2, <2>3, <2>12, <2>13, <2>14, <2>16 DEF IInv
  <1>18. CASE IBackref
    <2>1. inst.op \in Straight /\ status = "running" /\ pc # GIVEUP
      BY <1>18 DEF IBackref, At, Straight
    <2>2. ASSUME NEW p \in Prior(inst.aux), Repeats(p), Consume(PriorLen(p))
          PROVE  IInv'
      <3>1. PriorLen(p) \in Int
        BY <2>1, PriorInt
      <3>2. s + PriorLen(p) \in 0 .. e
        BY <1>0, <2>2, <3>1 DEF Repeats
      <3> QED BY <2>1, <2>2, <3>1, <3>2, Consumes
    <2> QED BY <1>18, <2>1, <2>2, FailsHere DEF IBackref
  <1>d. ASSUME status = "running", pc # GIVEUP, inst.op \in Straight
        PROVE  /\ pc + 1 \in DOMAIN Shape[prog]
               /\ Shape[prog][pc + 1] = Shape[prog][pc]
               /\ inst \in Instruction /\ s \in Int
               /\ captop \in Nat /\ captop \in DOMAIN capture
               /\ capture \in [CapListSlots(capsize) -> Capture]
    BY <1>0, <1>d, Executing DEF ShapedAt, inst, IInv, TypeOK, CaptureLevels
  <1>19. CASE IOpenCapture
    <2>1. inst.op = "opencapture" /\ status = "running" /\ pc # GIVEUP
          /\ PushCapture([kind |-> inst.kind, idx |-> inst.aux, s |-> s])
      BY <1>19 DEF IOpenCapture, At
    <2>2. inst.op \in Straight
      BY <2>1 DEF Straight
    <2>3. [kind |-> inst.kind, idx |-> inst.aux, s |-> s] \in Capture
      BY <1>d, <2>1, <2>2 DEF Capture, CapKinds, Instruction
    <2> QED BY <1>d, <2>1, <2>2, <2>3, Captures
  <1>20. CASE ICloseCapture
    <2>1. inst.op = "closecapture" /\ status = "running" /\ pc # GIVEUP
          /\ PushCapture([kind |-> "Cclose", idx |-> capture[captop].idx,
                          s |-> s])
      BY <1>20 DEF ICloseCapture, At
    <2>2. inst.op \in Straight
      BY <2>1 DEF Straight
    <2>3. [kind |-> "Cclose", idx |-> capture[captop].idx, s |-> s] \in Capture
      BY <1>d, <2>1, <2>2 DEF Capture, CapKinds
    <2> QED BY <1>d, <2>1, <2>2, <2>3, Captures
  <1>21. CASE ICloseConstCapture
    <2>1. inst.op = "closeconstcapture" /\ status = "running" /\ pc # GIVEUP
          /\ PushCapture([kind |-> "Ccloseconst", idx |-> inst.aux, s |-> s])
      BY <1>21 DEF ICloseConstCapture, At
    <2>2. inst.op \in Straight
      BY <2>1 DEF Straight
    <2>3. [kind |-> "Ccloseconst", idx |-> inst.aux, s |-> s] \in Capture
      BY <1>d, <2>1, <2>2 DEF Capture, CapKinds, Instruction
    <2> QED BY <1>d, <2>1, <2>2, <2>3, Captures
  <1>e. capture \in [CapListSlots(capsize) -> Capture]
        /\ (status = "running" => captop \in DOMAIN capture)
    BY DEF IInv, TypeOK, CaptureLevels
  <1>22. CASE IEnd
    <2>1. /\ capture' = [capture EXCEPT ![captop].kind = "Cclose",
                                        ![captop].s = NULL]
          /\ UNCHANGED <<captop, capsize, input, pc, s, stack>>
          /\ status' = "MATCH_OK" /\ r' = s
      BY <1>22 DEF IEnd, Return
    <2>2. capture' \in [CapListSlots(capsize) -> Capture]
      BY <1>e, <1>22, <2>1 DEF IEnd, At, Capture, CapKinds, NULL
    <2> QED BY <1>0, <1>22, <2>1, <2>2, Returns DEF IEnd, At
  <1>23. CASE IHalt
    <2>1. /\ capture' = [capture EXCEPT ![captop].kind = "Cfinal",
                                        ![captop].s = s]
          /\ UNCHANGED <<captop, capsize, input, pc, s, stack>>
          /\ status' = "MATCH_OK" /\ r' = s
      BY <1>23 DEF IHalt, Return
    <2>2. capture' \in [CapListSlots(capsize) -> Capture]
      BY <1>0, <1>e, <1>23, <2>1 DEF IHalt, At, Capture, CapKinds
    <2> QED BY <1>0, <1>23, <2>1, <2>2, Returns DEF IHalt, At
  <1>24. CASE IGiveup
    <2>1. /\ UNCHANGED <<capture, captop, capsize, input, pc, s, stack>>
          /\ status' = "MATCH_OK" /\ r' = NULL /\ status = "running"
      BY <1>24 DEF IGiveup, Return, caps
    <2>2. capture' \in [CapListSlots(capsize) -> Capture] /\ NULL \in Int
      BY <1>e, <2>1 DEF NULL
    <2> QED BY <2>1, <2>2, Returns
  <1>25. CASE UNCHANGED vars
    <2>1. prog' = prog /\ subject' = subject /\ start' = start /\ e' = e
      BY <1>25 DEF vars, e
    <2> QED
      BY <1>25, <2>1 DEF vars, IInv, TypeOK, StackShaped, FramesRest, Rests,
         Above, IsChoice, Positions, CaptureLevels, Levels
  <1> QED
    BY <1>1, <1>2, <1>3, <1>4, <1>5, <1>6, <1>7, <1>8, <1>9, <1>10, <1>11,
       <1>12, <1>13, <1>14, <1>15, <1>16, <1>17, <1>18, <1>19, <1>20, <1>21,
       <1>22, <1>23, <1>24, <1>25 DEF Next, Execute, Returned

----------------------------------------------------------------------------
(* The theorems                                                            *)

(* The inductive invariant holds in every state of every call of vm().     *)
THEOREM Inductive == Spec => []IInv
  BY InitIInv, NextIInv, PTL DEF Spec

(* Every variable of the machine keeps its type.                           *)
THEOREM TypeCorrect == Spec => []TypeOK
  <1>1. IInv => TypeOK
    BY DEF IInv
  <1> QED BY Inductive, <1>1, PTL

(* The assertions that vm() makes about its stack, which the release build *)
(* does not evaluate, are true whatever the program and the subject: a     *)
(* return finds its call, a commit its choice, IEnd the bottom frame alone *)
(* and IGiveup nothing, and the stack never underflows.                    *)
THEOREM StackCorrect == Spec => []StackAssertions
  <1>1. IInv => StackAssertions
    <2> SUFFICES ASSUME IInv PROVE StackAssertions
      OBVIOUS
    <2>1. ASSUME NEW op, At(op)
          PROVE  /\ status = "running" /\ pc # GIVEUP /\ stack # <<>>
                 /\ ShapedAt(Code[prog], Shape[prog], pc)
                 /\ Code[prog][pc].op = op
      BY <2>1, Executing DEF At, inst
    <2>2. At("ret") => stack # <<>> /\ ~IsChoice(Top(stack))
      BY <2>1, TopFrame DEF ShapedAt
    <2>3. ASSUME NEW op \in {"commit", "partialcommit", "backcommit"}, At(op)
          PROVE  Len(stack) > 1 /\ IsChoice(Top(stack))
      BY <2>1, <2>3, TopFrame DEF ShapedAt
    <2>4. At("failtwice") => Len(stack) > 1
      BY <2>1, TopFrame DEF ShapedAt
    <2>5. At("end") => Len(stack) = 1
      BY <2>1, TopFrame DEF ShapedAt
    <2>6. pc = GIVEUP => stack = <<>>
      <3>1. GIVEUP \notin DOMAIN Shape[prog]
        BY ShapedSlot
      <3>2. pc = GIVEUP => Len(stack) = 0
        BY <3>1 DEF IInv, StackShaped, Rests
      <3> QED BY <3>2 DEF IInv, TypeOK
    <2> QED BY <2>2, <2>3, <2>4, <2>5, <2>6 DEF StackAssertions
  <1> QED BY Inductive, <1>1, PTL

(* The captures that a choice will come back to are still there when it    *)
(* does, and every write to the capture array is inside it, also after the *)
(* array has been reallocated.                                             *)
THEOREM CapturesCorrect == Spec => []CaptureLevels
  <1>1. IInv => CaptureLevels
    BY DEF IInv
  <1> QED BY Inductive, <1>1, PTL

(* vm() never leaves the subject, forwards, backwards (a look-behind) or   *)
(* by repeating an earlier capture.                                        *)
THEOREM PositionsCorrect == Spec => []Positions
  <1>1. IInv => Positions
    BY DEF IInv
  <1> QED BY Inductive, <1>1, PTL
=============================================================================

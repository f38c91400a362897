------------------------------- MODULE PegVM -------------------------------
(***************************************************************************)
(* The matching machine: vm() of rpeg/runtime/vm.c, one action for each    *)
(* opcode.  A behaviour is one call of vm() on a program (the instruction  *)
(* vector of a compiled pattern), a subject and a start position.          *)
(*                                                                         *)
(* Positions are offsets from the start of the subject, so 'o' is 0 and    *)
(* 'e' the subject's length.  A jump goes to a slot of the program, and    *)
(* GIVEUP stands for the address of the static instruction 'giveup'.       *)
(* Bytes beyond the end of the subject are never read.                     *)
(***************************************************************************)
EXTENDS Integers, Sequences, FiniteSets

CONSTANTS
  Char,              (* the bytes                                          *)
  Programs,          (* the compiled patterns ...                          *)
  Code,              (* ... and their instructions: Code[p] is a sequence  *)
  Subjects,          (* the inputs: sequences of bytes                     *)
  INIT_CAPLISTSIZE,  (* size of the capture array on the C stack           *)
  MAX_CAPLISTSIZE,   (* its greatest size, and the greatest int            *)
  MAX_BACKTRACK,     (* most frames the backtrack stack can hold           *)
  Uninit             (* what an unwritten slot of that array may hold      *)

NULL   == -1
GIVEUP == 0

CapKinds == {"Crosiecap", "Crosieconst", "Cclose", "Ccloseconst", "Cfinal"}
Capture  == [kind : CapKinds, idx : Nat, s : Int]

Opcodes ==
  {"testset", "testchar", "testany", "any", "char", "set", "behind", "span",
   "jmp", "choice", "call", "ret", "commit", "partialcommit", "backcommit",
   "failtwice", "fail", "backref", "opencapture", "closecapture",
   "closeconstcapture", "end", "halt"}
Instruction ==
  {i \in [op : Opcodes, set : SUBSET Char, to : Nat, aux : Nat,
          kind : {"none", "Crosiecap", "Crosieconst"}] :
     i.op = "opencapture" => i.kind # "none"}

ASSUME CodeAssumption ==
  /\ \A p \in Programs : Code[p] \in Seq(Instruction)
  /\ \A sub \in Subjects : sub \in Seq(Char)

ASSUME LimitAssumption ==
  /\ INIT_CAPLISTSIZE \in Nat \ {0} /\ MAX_CAPLISTSIZE \in Nat
  /\ MAX_BACKTRACK \in Nat \ {0}
  /\ Uninit # {} /\ Uninit \subseteq Capture

VARIABLES
  prog,      (* the program,                                               *)
  subject,   (* the input                                                  *)
  start,     (* and the start position of this call                        *)
  pc,        (* slot of the next instruction                               *)
  s,         (* current position                                           *)
  stack,     (* the BTEntry stack, last frame on top                       *)
  capture,   (* the capture array, indexed from 0                          *)
  captop,    (* its first empty slot                                       *)
  capsize,   (* what the machine takes for the array's size                *)
  status,    (* "running", what vm() returned, or "crashed"                *)
  r          (* the end position, NULL for no match                        *)

input == <<prog, subject, start>>
caps  == <<capture, captop, capsize>>
vars  == <<prog, subject, start, pc, s, stack, capture, captop, capsize,
           status, r>>

e == Len(subject)
Frame(pos, p, caplevel) == [s |-> pos, p |-> p, caplevel |-> caplevel]
Top(stk) == stk[Len(stk)]
Pop(stk) == SubSeq(stk, 1, Len(stk) - 1)

CapListSlots(n) == 0 .. n - 1

Init ==
  /\ prog \in Programs
  /\ subject \in Subjects
  /\ start \in 0 .. e
  /\ pc = 1
  /\ s = start
  /\ stack = <<Frame(start, GIVEUP, 0)>>
  /\ \E junk \in Uninit :
       capture = [i \in CapListSlots(INIT_CAPLISTSIZE) |-> junk]
  /\ captop = 0
  /\ capsize = INIT_CAPLISTSIZE
  /\ status = "running"
  /\ r = NULL

----------------------------------------------------------------------------
(* Fetching, jumping, pushing, failing                                     *)

inst == Code[prog][pc]
At(op) == status = "running" /\ pc # GIVEUP /\ inst.op = op
Here(S) == s < e /\ subject[s + 1] \in S

(* The only exits of the loop: a return with the given status, or the end  *)
(* of the process.                                                         *)
Return(st, res) ==
  /\ status' = st
  /\ r' = res
  /\ UNCHANGED <<input, pc, s, stack>>

Goto(p) == pc' = p /\ UNCHANGED <<input, status, r>>

(* Mutants: the choice stays on the stack; the captures are not dropped.   *)
FailFromRetrying(stk) ==
  \E k \in DOMAIN stk :
    /\ stk[k].s # NULL
    /\ \A j \in k + 1 .. Len(stk) : stk[j].s = NULL
    /\ s' = stk[k].s
    /\ captop' = stk[k].caplevel
    /\ stack' = SubSeq(stk, 1, k)
    /\ Goto(stk[k].p)
    /\ UNCHANGED <<capture, capsize>>
FailFromKeepingCaptures(stk) ==
  \E k \in DOMAIN stk :
    /\ stk[k].s # NULL
    /\ \A j \in k + 1 .. Len(stk) : stk[j].s = NULL
    /\ s' = stk[k].s
    /\ stack' = SubSeq(stk, 1, k - 1)
    /\ Goto(stk[k].p)
    /\ UNCHANGED caps

(* The label 'fail': drop pending calls, and resume at the choice below.   *)
FailFrom(stk) ==
  \E k \in DOMAIN stk :
    /\ stk[k].s # NULL
    /\ \A j \in k + 1 .. Len(stk) : stk[j].s = NULL
    /\ s' = stk[k].s
    /\ captop' = stk[k].caplevel
    /\ stack' = SubSeq(stk, 1, k - 1)
    /\ Goto(stk[k].p)
    /\ UNCHANGED <<capture, capsize>>

(* BTEntry_stack_push: refused only when the stack cannot grow any more.   *)
Push(frame, p) ==
  IF Len(stack) < MAX_BACKTRACK
  THEN /\ stack' = Append(stack, frame)
       /\ Goto(p)
       /\ UNCHANGED <<s, caps>>
  ELSE Return("MATCH_ERR_STACK", r) /\ UNCHANGED caps

(* Mutants: the size grows without the array; the array grows too late.    *)
PushCaptureInPlace(cap) ==
  /\ capture' = [capture EXCEPT ![captop] = cap]
  /\ captop' = captop + 1
  /\ capsize' = IF captop + 1 < capsize THEN capsize ELSE 2 * (captop + 1)
  /\ UNCHANGED <<s, stack>>
  /\ Goto(pc + 1)
PushCaptureLate(cap) ==
  /\ captop + 1 <= capsize
  /\ capture' = [capture EXCEPT ![captop] = cap]
  /\ captop' = captop + 1
  /\ UNCHANGED <<capsize, s, stack>>
  /\ Goto(pc + 1)

(* The arrays that doublecap may return when the first n slots are in use. *)
(* MAX_CAPLISTSIZE is INT32_MAX: a size beyond it is negative, malloc has  *)
(* nothing of that size, and the test that would clamp it is never true.   *)
doublecap(cap, n) ==
  {[i \in CapListSlots(2 * n) |-> IF i < n THEN cap[i] ELSE junk] :
     junk \in {u \in Uninit : 2 * n <= MAX_CAPLISTSIZE}}

(* Write one capture and PUSH_CAPLIST.  doublecap refuses an array of      *)
(* MAX_CAPLISTSIZE.  It copies to what malloc gives it without looking if  *)
(* there is any; there may be none at any size.                            *)
PushCapture(cap) ==
  LET written == [capture EXCEPT ![captop] = cap]
      top     == captop + 1
  IN  IF top < capsize
      THEN /\ capture' = written
           /\ captop' = top
           /\ UNCHANGED <<capsize, s, stack>>
           /\ Goto(pc + 1)
      ELSE IF top < MAX_CAPLISTSIZE
      THEN \/ /\ \E newc \in doublecap(written, top) : capture' = newc
              /\ captop' = top
              /\ capsize' = 2 * top
              /\ UNCHANGED <<s, stack>>
              /\ Goto(pc + 1)
           \/ /\ capture' = written
              /\ captop' = top
              /\ UNCHANGED capsize
              /\ Return("crashed", r)
      ELSE /\ capture' = written
           /\ captop' = top
           /\ UNCHANGED capsize
           /\ Return("MATCH_ERR_CAP", r)

----------------------------------------------------------------------------
(* find_prior_capture: the text that a backreference stands for            *)

IsOpen(i)  == capture[i].kind \in {"Crosiecap", "Crosieconst"}
IsClose(i) == capture[i].kind = "Cclose"

Opens(i, j)  == Cardinality({k \in i .. j : IsOpen(k)})
Closes(i, j) == Cardinality({k \in i .. j : IsClose(k)})

MaxOr(S, default) ==
  IF S = {} THEN default ELSE CHOOSE m \in S : \A n \in S : n <= m

(* The last slot that is not an open capture.                              *)
CapEnd == MaxOr({i \in 1 .. captop - 1 : ~IsOpen(i)}, 0)

(* Backwards from there, the first open capture without a close.           *)
OuterCap ==
  MaxOr({i \in 1 .. CapEnd :
           IsOpen(i) /\ Opens(i + 1, CapEnd) = Closes(i + 1, CapEnd)}, 0)

(* Going down from slot i, another instance of the outer capture is not    *)
(* met before the outer capture itself.                                    *)
InOuter(i) ==
  OuterCap = MaxOr({j \in OuterCap .. i - 1 :
                      /\ IsOpen(j)
                      /\ capture[j].idx = capture[OuterCap].idx
                      /\ Opens(j + 1, i - 1) >= Closes(j + 1, i - 1)}, NULL)

(* The open capture that is found (a set of one slot, or empty): the last  *)
(* one inside the outer capture, or else the last one up to it.            *)
PriorOpen(target) ==
  LET opens  == {i \in 0 .. captop - 1 : IsOpen(i) /\ capture[i].idx = target}
      inside == {i \in opens : OuterCap <= i /\ i <= CapEnd /\ InOuter(i)}
      found  == IF inside # {} THEN inside
                ELSE {i \in opens : i <= OuterCap}
  IN  {i \in found : \A n \in found : n <= i}

(* Mutant: the search does not start at the open capture.                  *)
CloseOfFromStart(i) ==
  LET closes == {k \in 1 .. captop : IsClose(k)}
  IN  {k \in closes : \A n \in closes : k <= n}

(* The close that balances the open slot i, looked for up to and with slot *)
(* captop.                                                                 *)
CloseOf(i) ==
  LET closes == {k \in i + 1 .. captop :
                   IsClose(k) /\ 2 * Closes(i + 1, k - 1) = k - 1 - i}
  IN  {k \in closes : \A n \in closes : k <= n}

Prior(target) ==
  UNION {{<<i, k>> : k \in CloseOf(i)} : i \in PriorOpen(target)}
PriorLen(p) == capture[p[2]].s - capture[p[1]].s

(* The input goes on with the text between the two captures.  An end       *)
(* before the start makes prior_len, a size_t, longer than any input.      *)
Repeats(p) ==
  /\ PriorLen(p) >= 0
  /\ PriorLen(p) <= e - s
  /\ \A i \in 1 .. PriorLen(p) : subject[s + i] = subject[capture[p[1]].s + i]

----------------------------------------------------------------------------
(* The opcodes                                                             *)

ITestSet ==
  /\ At("testset")
  /\ Goto(IF Here(inst.set) THEN pc + 1 ELSE inst.to)
  /\ UNCHANGED <<s, stack, caps>>

ITestChar ==
  /\ At("testchar")
  /\ Goto(IF Here(inst.set) THEN pc + 1 ELSE inst.to)
  /\ UNCHANGED <<s, stack, caps>>

ITestAny ==
  /\ At("testany")
  /\ Goto(IF s < e THEN pc + 1 ELSE inst.to)
  /\ UNCHANGED <<s, stack, caps>>

Consume(n) == s' = s + n /\ Goto(pc + 1) /\ UNCHANGED <<stack, caps>>

IAny ==
  /\ At("any")
  /\ IF s < e THEN Consume(1) ELSE FailFrom(stack)

IChar ==
  /\ At("char")
  /\ IF Here(inst.set) THEN Consume(1) ELSE FailFrom(stack)

ISet ==
  /\ At("set")
  /\ IF Here(inst.set) THEN Consume(1) ELSE FailFrom(stack)

(* Mutant: no check that there is enough input behind.                     *)
IBehindUnchecked == At("behind") /\ Consume(-inst.aux)

IBehind ==
  /\ At("behind")
  /\ IF inst.aux > s THEN FailFrom(stack) ELSE Consume(-inst.aux)

ISpan ==
  /\ At("span")
  /\ \E n \in 0 .. e - s :
       /\ \A i \in 1 .. n : subject[s + i] \in inst.set
       /\ n < e - s => subject[s + n + 1] \notin inst.set
       /\ Consume(n)

IJmp ==
  /\ At("jmp")
  /\ Goto(inst.to)
  /\ UNCHANGED <<s, stack, caps>>

IChoice == At("choice") /\ Push(Frame(s, inst.to, captop), pc + 1)

ICall == At("call") /\ Push(Frame(NULL, pc + 1, 0), inst.to)

(* Mutant: the commit leaves the stack as it is.                           *)
ICommitKeeping ==
  /\ At("commit")
  /\ stack # <<>>
  /\ Goto(inst.to)
  /\ UNCHANGED <<s, stack, caps>>

IRet ==
  /\ At("ret")
  /\ stack # <<>>
  /\ stack' = Pop(stack)
  /\ Goto(Top(stack).p)
  /\ UNCHANGED <<s, caps>>

ICommit ==
  /\ At("commit")
  /\ stack # <<>>
  /\ stack' = Pop(stack)
  /\ Goto(inst.to)
  /\ UNCHANGED <<s, caps>>

IPartialCommit ==
  /\ At("partialcommit")
  /\ stack # <<>>
  /\ stack' = [stack EXCEPT ![Len(stack)].s = s,
                            ![Len(stack)].caplevel = captop]
  /\ Goto(inst.to)
  /\ UNCHANGED <<s, caps>>

(* Mutant: the captures of the predicate are kept.                         *)
IBackCommitCapturing ==
  /\ At("backcommit")
  /\ stack # <<>>
  /\ s' = Top(stack).s
  /\ stack' = Pop(stack)
  /\ Goto(inst.to)
  /\ UNCHANGED caps

IBackCommit ==
  /\ At("backcommit")
  /\ stack # <<>>
  /\ s' = Top(stack).s
  /\ captop' = Top(stack).caplevel
  /\ stack' = Pop(stack)
  /\ Goto(inst.to)
  /\ UNCHANGED <<capture, capsize>>

IFailTwice == At("failtwice") /\ stack # <<>> /\ FailFrom(Pop(stack))

IFail == At("fail") /\ FailFrom(stack)

IBackref ==
  /\ At("backref")
  /\ \/ \E p \in Prior(inst.aux) : Repeats(p) /\ Consume(PriorLen(p))
     \/ (\A p \in Prior(inst.aux) : ~Repeats(p)) /\ FailFrom(stack)

IOpenCapture ==
  /\ At("opencapture")
  /\ PushCapture([kind |-> inst.kind, idx |-> inst.aux, s |-> s])

(* Closing a capture leaves the slot's idx as it was.                      *)
ICloseCapture ==
  /\ At("closecapture")
  /\ PushCapture([kind |-> "Cclose", idx |-> capture[captop].idx, s |-> s])

ICloseConstCapture ==
  /\ At("closeconstcapture")
  /\ PushCapture([kind |-> "Ccloseconst", idx |-> inst.aux, s |-> s])

(* Both ends write a sentinel after the captures.                          *)
IEnd ==
  /\ At("end")
  /\ capture' = [capture EXCEPT ![captop].kind = "Cclose", ![captop].s = NULL]
  /\ UNCHANGED <<captop, capsize>>
  /\ Return("MATCH_OK", s)

IHalt ==
  /\ At("halt")
  /\ capture' = [capture EXCEPT ![captop].kind = "Cfinal", ![captop].s = s]
  /\ UNCHANGED <<captop, capsize>>
  /\ Return("MATCH_OK", s)

IGiveup ==
  /\ status = "running" /\ pc = GIVEUP
  /\ UNCHANGED caps
  /\ Return("MATCH_OK", NULL)

Execute ==
  \/ ITestSet \/ ITestChar \/ ITestAny \/ IAny \/ IChar \/ ISet \/ IBehind
  \/ ISpan \/ IJmp \/ IChoice \/ ICall \/ IRet \/ ICommit \/ IPartialCommit
  \/ IBackCommit \/ IFailTwice \/ IFail \/ IBackref \/ IOpenCapture
  \/ ICloseCapture \/ ICloseConstCapture \/ IEnd \/ IHalt \/ IGiveup

(* vm() has returned.                                                      *)
Returned == status # "running" /\ UNCHANGED vars

Next == Execute \/ Returned
Spec == Init /\ [][Next]_vars /\ WF_vars(Execute)

----------------------------------------------------------------------------
(* Properties                                                              *)

StackFrames == [s : Int, p : Nat, caplevel : Nat]

(* Every variable has its type.                                            *)
TypeOK ==
  /\ start \in 0 .. e
  /\ pc \in Nat
  /\ s \in Int
  /\ stack \in Seq(StackFrames)
  /\ captop \in Nat /\ capsize \in Nat
  /\ capture \in [CapListSlots(capsize) -> Capture]
  /\ status \in {"running", "MATCH_OK", "MATCH_ERR_STACK", "MATCH_ERR_CAP",
                 "crashed"}
  /\ r \in Int

IsChoice(frame) == frame.s # NULL

(* The assertions of vm() about its stack: a return finds a call on top,   *)
(* the commits find a choice, IEnd finds nothing but the bottom frame and  *)
(* IGiveup nothing at all.  The release build compiles them out.           *)
StackAssertions ==
  /\ At("ret")  => stack # <<>> /\ ~IsChoice(Top(stack))
  /\ \A op \in {"commit", "partialcommit", "backcommit"} :
       At(op) => Len(stack) > 1 /\ IsChoice(Top(stack))
  /\ At("failtwice") => Len(stack) > 1
  /\ At("end") => Len(stack) = 1
  /\ status = "running" /\ pc = GIVEUP => stack = <<>>

(* The capture list and the stack agree: a capture level saved by a choice *)
(* is never above the current level nor above one saved later, so that     *)
(* backtracking only ever drops captures, and the next capture (or the     *)
(* sentinel of IEnd and IHalt) is written inside the array, up to the last *)
(* size that doubling reaches: after that the call is over.                *)
Levels(k) == stack[k].caplevel
CaptureLevels ==
  /\ \A k \in DOMAIN stack :
       IsChoice(stack[k]) =>
         /\ Levels(k) <= captop
         /\ \A j \in 1 .. k - 1 : IsChoice(stack[j]) => Levels(j) <= Levels(k)
  /\ status \notin {"MATCH_ERR_CAP", "crashed"} => captop \in DOMAIN capture

(* The machine stays inside the subject, and so does every position it may *)
(* come back to.                                                           *)
Positions ==
  /\ s \in 0 .. e
  /\ \A k \in DOMAIN stack : IsChoice(stack[k]) => stack[k].s \in 0 .. e

(* The assertions about a backreference: the end found for the referenced  *)
(* capture is not before its start, and the walk from one to the other     *)
(* meets open and (non-constant) close captures only.                      *)
PriorOrdered == \A p \in Prior(inst.aux) : PriorLen(p) >= 0
PriorNested  ==
  \A i \in PriorOpen(inst.aux) : \A k \in i + 1 .. captop :
    (\A close \in CloseOf(i) : k < close) => IsOpen(k) \/ IsClose(k)
PriorSound   == At("backref") => PriorOrdered /\ PriorNested

(* What vm() has found, for walk_captures and vm_match2: the sentinel tells *)
(* a halt from a match.                                                    *)
Captured ==
  [i \in 1 .. captop |->
     [capture[i - 1] EXCEPT !.idx = IF capture[i - 1].kind = "Cclose" THEN 0
                                    ELSE @]]
Outcome ==
  IF r = NULL THEN [out |-> "fail", pos |-> 0, caps |-> <<>>]
  ELSE [out  |-> IF capture[captop].kind = "Cfinal" THEN "halt" ELSE "match",
        pos  |-> r,
        caps |-> Captured]

(* Every call of vm() returns, if it is not cut off for want of memory.    *)
Termination == <>(status # "running")
============================================================================

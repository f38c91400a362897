---------------------------- MODULE CapWalkProof ----------------------------
(***************************************************************************)
(* Proved for CapWalk, for every capture list, range, encoder and size of  *)
(* the stack: the stack of caploop is sound, the decoder stays inside what *)
(* was written and rebuilds the tree of the captures, the json text is     *)
(* that of this tree, and what the call returns beside its data is true.   *)
(***************************************************************************)
EXTENDS CapMeaning, ByteCodecProof, FiniteSetTheorems

(***************************************************************************)
(* How deep a place of a list is.                                          *)
(***************************************************************************)
LEMMA DepthOfNone == ASSUME NEW l PROVE Depth(l, 0) = 0
<1>1. Opens(l, 0) = {} /\ Closes(l, 0) = {}
  BY DEF Opens, Closes
<1> QED
  BY <1>1, FS_EmptySet DEF Depth

(* Each entry opens a capture or closes one. *)
LEMMA DepthOfNext ==
  ASSUME NEW l, NEW k \in Nat
  PROVE  /\ Depth(l, k) \in Int
         /\ Depth(l, k + 1) = IF isopencap(l[k + 1]) THEN Depth(l, k) + 1
                              ELSE Depth(l, k) - 1
<1> DEFINE i == k + 1
<1>1. IsFiniteSet(1 .. k)
  BY FS_Interval
<1>2. IsFiniteSet(Opens(l, k)) /\ IsFiniteSet(Closes(l, k))
  BY <1>1, FS_Subset DEF Opens, Closes
<1>3. Cardinality(Opens(l, k)) \in Nat /\ Cardinality(Closes(l, k)) \in Nat
  BY <1>2, FS_CardinalityType
<1>4. i \notin Opens(l, k) /\ i \notin Closes(l, k) /\ 1 .. i = (1 .. k) \cup {i}
  BY DEF Opens, Closes
<1>5. CASE isopencap(l[i])
  <2>1. Opens(l, i) = Opens(l, k) \cup {i} /\ Closes(l, i) = Closes(l, k)
    BY <1>4, <1>5 DEF Opens, Closes
  <2>2. Cardinality(Opens(l, i)) = Cardinality(Opens(l, k)) + 1
    BY <2>1, <1>2, <1>4, FS_AddElement
  <2> QED
    BY <2>1, <2>2, <1>3, <1>5 DEF Depth
<1>6. CASE ~ isopencap(l[i])
  <2>1. Closes(l, i) = Closes(l, k) \cup {i} /\ Opens(l, i) = Opens(l, k)
    BY <1>4, <1>6 DEF Opens, Closes
  <2>2. Cardinality(Closes(l, i)) = Cardinality(Closes(l, k)) + 1
    BY <2>1, <1>2, <1>4, FS_AddElement
  <2> QED
    BY <2>1, <2>2, <1>3, <1>6 DEF Depth
<1> QED
  BY <1>5, <1>6

LEMMA DepthSame ==
  ASSUME NEW l, NEW m, NEW k \in Nat, \A i \in 1 .. k : l[i] = m[i]
  PROVE  Depth(l, k) = Depth(m, k)
<1>1. Opens(l, k) = Opens(m, k) /\ Closes(l, k) = Closes(m, k)
  BY DEF Opens, Closes
<1> QED
  BY <1>1 DEF Depth

(***************************************************************************)
(* The invariant: what caploop is given, and where it is in the list.      *)
(***************************************************************************)
Frame == [start : Nat \cup {NULL}, count : Nat]

WalkType ==
  /\ call \in Calls /\ list \in Seq(Capture)
  /\ cap \in Nat \ {0} /\ capacity \in Nat \ {0} /\ count \in Nat
  /\ stack \in Seq(Frame)

BeforeLoop ==
  pc \in {"call", "walk"} => cap = 1 /\ stack = <<>>

Given == pc \in {"walk", "loop", "halting"} => Enclosed(list)

Halting ==
  pc = "halting" => cap \in 2 .. Len(list)

WalkInv == WalkType /\ BeforeLoop /\ Given /\ Halting /\ StackTracks /\ StackFits

LEMMA StartsSound == ASSUME WalkAssumption, Init PROVE WalkInv
<1> QED
  BY DEF WalkAssumption, Init, WalkInv, WalkType, BeforeLoop, Given, Halting,
         StackTracks, StackFits

(* A list that is given is one of vm()'s answers. *)
LEMMA EntrySound == ASSUME WalkAssumption, WalkInv, Entry PROVE WalkInv'
<1> QED
  BY DEF WalkAssumption, Entry, WrongRange, NoMatch, HasMatch, Fails, walk,
         WalkInv, WalkType, BeforeLoop, Given, Halting, StackTracks, StackFits

LEMMA DecodeSound == ASSUME WalkInv, Decode PROVE WalkInv'
<1>1. UNCHANGED <<call, list, r, walk>>
  BY DEF Decode, DecodeOpen, DecodeConst, DecodeBad, DecodeSub, DecodeClose,
         Decoded, Corrupt
<1>2. pc' \in {"decode", "subs", "done"}
  BY DEF Decode, DecodeOpen, DecodeConst, DecodeBad, DecodeSub, DecodeClose,
         Decoded, Corrupt, Fails
<1> QED
  BY <1>1, <1>2 DEF walk, WalkInv, WalkType, BeforeLoop, Given, Halting,
                    StackTracks, StackFits

(* A walk that ends is past all that is said of caploop. *)
LEMMA FinishPlace ==
  ASSUME NEW out, NEW abend, Finish(out, abend)
  PROVE  pc' \in {"decode", "done"}
  BY DEF Finish

LEMMA AppendIs ==
  ASSUME NEW S, NEW q \in Seq(S), NEW c \in S
  PROVE  /\ Append(q, c) \in Seq(S) /\ Len(Append(q, c)) = Len(q) + 1
         /\ Len(q) \in Nat
         /\ \A k \in 1 .. Len(q) : Append(q, c)[k] = q[k]
         /\ Append(q, c)[Len(q) + 1] = c
OBVIOUS

LEMMA PushSound ==
  ASSUME WalkAssumption, WalkType, StackFits, NEW f \in Frame, Push(f)
  PROVE  /\ stack' \in Seq(Frame) /\ stack' = Append(stack, f)
         /\ capacity' \in Nat \ {0} /\ Len(stack') <= capacity'
         /\ capacity' <= INIT_CAPDEPTH \/ capacity' <= MAX_CAPDEPTH
<1> USE DEF WalkType, StackFits, WalkAssumption
<1>1. CASE Len(stack) < capacity
  <2>1. stack' = Append(stack, f) /\ capacity' = capacity
    BY <1>1 DEF Push
  <2>2. stack' \in Seq(Frame) /\ Len(stack') = Len(stack) + 1
    BY <2>1
  <2>3. Len(stack) \in Nat
    OBVIOUS
  <2> QED
    BY <1>1, <2>1, <2>2, <2>3
<1>2. CASE Len(stack) = capacity /\ capacity < MAX_CAPDEPTH
  <2>1. /\ stack' = Append(stack, f)
        /\ capacity' = IF 2 * capacity > MAX_CAPDEPTH THEN MAX_CAPDEPTH
                                                      ELSE 2 * capacity
    BY <1>2 DEF Push
  <2>2. stack' \in Seq(Frame) /\ Len(stack') = capacity + 1
    BY <1>2, <2>1
  <2> QED
    BY <1>2, <2>1, <2>2
<1> QED
  BY <1>1, <1>2 DEF Push

LEMMA PopFacts ==
  ASSUME stack \in Seq(Frame), stack # <<>>
  PROVE  /\ Pop \in Seq(Frame) /\ Len(Pop) = Len(stack) - 1
         /\ \A d \in 1 .. Len(stack) - 1 : Pop[d] = stack[d]
         /\ Top \in Frame
<1>1. Len(stack) \in Nat \ {0}
  OBVIOUS
<1>2. PICK n \in Nat : n = Len(stack) - 1
  BY <1>1
<1>3. SubSeq(stack, 1, n) \in Seq(Frame)
  BY <1>1, <1>2
<1>4. Len(SubSeq(stack, 1, n)) = n
  BY <1>1, <1>2
<1>5. \A d \in 1 .. n : SubSeq(stack, 1, n)[d] = stack[d]
  BY <1>1, <1>2
<1> QED
  BY <1>1, <1>2, <1>3, <1>4, <1>5 DEF Pop, Top

(* An open capture is not the last entry, and has the frame that is pushed *)
(* for it.                                                                 *)
LEMMA OpenSound == ASSUME WalkAssumption, WalkInv, OpenCapture PROVE WalkInv'
<1> USE DEF WalkInv
<1> DEFINE f == [start |-> capstart(list[cap]), count |-> count]
<1>1. /\ Enclosed(list) /\ list \in Seq(Capture) /\ cap \in 1 .. Len(list)
      /\ isopencap(list[cap]) /\ cap' = cap + 1 /\ count' = 0 /\ pc' = "loop"
      /\ UNCHANGED <<call, list>>
  BY DEF OpenCapture, Given, BeforeLoop, StackTracks, WalkType, Enclosed
<1>2. cap + 1 \in 2 .. Len(list)
  BY <1>1 DEF Enclosed
<1>3. f \in Frame
  <2>1. list[cap] \in Capture /\ count \in Nat
    BY <1>1 DEF WalkType
  <2>2. capstart(list[cap]) \in Nat \cup {NULL}
    BY <2>1 DEF capstart, Capture
  <2> QED
    BY <2>1, <2>2 DEF Frame
<1>4. /\ stack' \in Seq(Frame) /\ stack' = Append(stack, f)
      /\ capacity' \in Nat \ {0} /\ Len(stack') <= capacity'
      /\ capacity' <= INIT_CAPDEPTH \/ capacity' <= MAX_CAPDEPTH
  BY <1>3, PushSound DEF OpenCapture
<1>5. Depth(list, cap - 1) = Len(stack)
  <2>1. CASE pc = "walk"
    BY <2>1, DepthOfNone DEF BeforeLoop
  <2>2. CASE pc = "loop"
    BY <2>2 DEF StackTracks
  <2> QED
    BY <2>1, <2>2 DEF OpenCapture
<1>6. Depth(list, cap) = Len(stack) + 1
  <2>1. PICK k \in Nat : k = cap - 1
    BY <1>1
  <2>2. PICK l : l = list
    OBVIOUS
  <2>3. cap = k + 1 /\ isopencap(l[k + 1]) /\ Depth(l, k) = Len(stack)
    BY <1>1, <1>5, <2>1, <2>2
  <2>4. Depth(l, k + 1) = Depth(l, k) + 1
    BY <2>3, DepthOfNext
  <2> QED
    BY <2>2, <2>3, <2>4
<1>7. ASSUME NEW d \in 1 .. Len(stack')
      PROVE  \E i \in 1 .. cap' - 1 : FrameOf(d, i)'
  <2>1. CASE d = Len(stack')
    <3>1. stack'[d] = f /\ d = Len(stack) + 1
      BY <2>1, <1>4 DEF WalkType
    <3>2. PICK i \in 1 .. Len(list) : i = cap
      BY <1>1
    <3>3. Depth(list, i) = d /\ d \in Nat
      BY <3>1, <3>2, <1>6, <1>4
    <3>4. FrameOf(d, i)'
      BY <3>1, <3>2, <3>3, <1>1 DEF FrameOf
    <3> QED
      BY <3>2, <3>4, <1>1
  <2>2. CASE d # Len(stack')
    <3>1. d \in 1 .. Len(stack) /\ stack'[d] = stack[d]
      <4>1. stack \in Seq(Frame)
        BY DEF WalkType
      <4>2. Len(stack) \in Nat /\ d \in 1 .. Len(stack) + 1 /\ d # Len(stack) + 1
        BY ONLY <4>1, <2>2, <1>3, <1>4, AppendIs, d \in 1 .. Len(stack')
      <4>3. d \in 1 .. Len(stack)
        BY ONLY <4>2
      <4> QED
        BY ONLY <4>1, <4>3, <1>3, <1>4, AppendIs
    <3>2. pc = "loop"
      BY <3>1 DEF OpenCapture, BeforeLoop
    <3>3. PICK i \in 1 .. cap - 1 : FrameOf(d, i)
      BY <3>1, <3>2 DEF StackTracks
    <3>4. FrameOf(d, i)'
      BY <3>1, <3>3, <1>1, <1>6 DEF FrameOf
    <3>5. i \in 1 .. cap' - 1
      BY ONLY <1>1, i \in 1 .. cap - 1
    <3> QED
      BY <3>4, <3>5
  <2> QED
    BY <2>1, <2>2
<1>8. StackTracks'
  <2>1. Len(stack') = Len(stack) + 1 /\ stack' # <<>>
    BY ONLY <1>3, <1>4, AppendIs, stack \in Seq(Frame) DEF WalkType
  <2>2. cap' - 1 = cap /\ cap' \in 2 .. Len(list)
    BY <1>1, <1>2
  <2> QED
    BY ONLY <1>1, <1>6, <1>7, <2>1, <2>2 DEF StackTracks
<1> QED
  BY <1>1, <1>4, <1>8 DEF WalkType, BeforeLoop, Given, Halting, StackFits

(* The close that ends a list closes its outermost capture: as long as one *)
(* is open, there is another entry.                                        *)
LEMMA CloseSound == ASSUME WalkAssumption, WalkInv, CloseCapture PROVE WalkInv'
<1> USE DEF WalkInv
<1>1. /\ Enclosed(list) /\ list \in Seq(Capture) /\ cap \in 2 .. Len(list)
      /\ ~ isopencap(list[cap]) /\ ~ isfinalcap(list[cap])
      /\ stack' = Pop /\ count' = Top.count + 1 /\ cap' = cap + 1
      /\ UNCHANGED <<call, list, capacity>>
      /\ stack \in Seq(Frame) /\ stack # <<>>
      /\ Depth(list, cap - 1) = Len(stack)
  BY DEF CloseCapture, Given, StackTracks, WalkType
<1>2. Depth(list, cap) = Len(stack) - 1
  <2>1. PICK k \in Nat : k = cap - 1
    BY <1>1
  <2> QED
    <3>1. k + 1 = cap
      BY <2>1, <1>1
    <3>2. Depth(list, k + 1) = Depth(list, k) - 1
      BY <3>1, <1>1, DepthOfNext
    <3> QED
      BY <3>1, <3>2, <2>1, <1>1
<1>3. /\ stack' \in Seq(Frame) /\ Len(stack') = Len(stack) - 1
      /\ \A d \in 1 .. Len(stack) - 1 : stack'[d] = stack[d]
      /\ count' \in Nat
  BY <1>1, PopFacts DEF Frame
<1>4. WalkType' /\ StackFits'
  <2>1. pc' # "halting"
    BY FinishPlace DEF CloseCapture
  <2> QED
    BY <2>1, <1>1, <1>3 DEF WalkType, StackFits
<1>5. CASE Len(stack) = 1
  <2>1. pc' \in {"decode", "done"}
    BY <1>5, FinishPlace DEF CloseCapture
  <2> QED
    BY <2>1, <1>4 DEF BeforeLoop, Given, Halting, StackTracks
<1>6. CASE Len(stack) # 1
  <2>1. pc' = "loop"
    BY <1>6 DEF CloseCapture
  <2>2. cap # Len(list)
    BY <1>1, <1>6 DEF Enclosed
  <2>3. ASSUME NEW d \in 1 .. Len(stack')
        PROVE  \E i \in 1 .. cap' - 1 : FrameOf(d, i)'
    <3> d \in 1 .. Len(stack)
      BY <1>1, <1>3
    <3>1. PICK i \in 1 .. cap - 1 : FrameOf(d, i)
      BY DEF CloseCapture, StackTracks
    <3>2. FrameOf(d, i)'
      BY <3>1, <1>1, <1>2, <1>3 DEF FrameOf
    <3> QED
      BY <3>2, <1>1
  <2>4. StackTracks'
    BY <2>1, <2>2, <2>3, <1>1, <1>2, <1>3, <1>6 DEF StackTracks
  <2> QED
    BY <2>1, <2>4, <1>1, <1>4 DEF BeforeLoop, Given, Halting
<1> QED
  BY <1>5, <1>6

(* After a halt the stack holds the captures that are open, and only loses *)
(* frames.                                                                 *)
LEMMA SyntheticSound ==
  ASSUME WalkType, Given, StackFits, cap \in 2 .. Len(list),
         pc \in {"loop", "halting"},
         stack # <<>>, Len(stack) <= Depth(list, cap - 1),
         NEW start, CloseSynthetic(start, Pop), count' \in Nat
  PROVE  WalkInv'
<1>1. PICK k \in Nat : k = cap - 1
  OBVIOUS
<1>2. Depth(list, cap - 1) \in Int
  BY <1>1, DepthOfNext
<1>3. /\ stack' = Pop /\ UNCHANGED <<call, list, cap, capacity>>
      /\ \/ pc' \in {"decode", "done"}
         \/ pc' = "halting" /\ stack' # <<>>
  BY FinishPlace DEF CloseSynthetic, WalkType
<1>4. stack' \in Seq(Frame) /\ Len(stack') = Len(stack) - 1
  BY <1>3, PopFacts DEF WalkType
<1> QED
  BY <1>2, <1>3, <1>4 DEF WalkInv, WalkType, BeforeLoop, Given, Halting,
                          StackTracks, StackFits

LEMMA HaltSound == ASSUME WalkInv, HaltFirst \/ HaltNext PROVE WalkInv'
<1> USE DEF WalkInv
<1>1. CASE HaltFirst
  <2>1. /\ cap \in 2 .. Len(list) /\ stack # <<>>
        /\ Len(stack) <= Depth(list, cap - 1)
    BY <1>1 DEF HaltFirst, StackTracks, WalkType
  <2>2. count' \in Nat
    BY <1>1, <2>1, PopFacts DEF HaltFirst, WalkType, Frame
  <2> QED
    BY <1>1, <2>1, <2>2, SyntheticSound DEF HaltFirst
<1>2. CASE HaltNext
  <2>1. PICK k \in Nat : k = cap - 1
    BY DEF WalkType
  <2>2. Depth(list, cap - 1) \in Int
    BY <2>1, DepthOfNext
  <2>3. /\ cap \in 2 .. Len(list) /\ stack # <<>>
        /\ Len(stack) <= Depth(list, cap - 1)
    BY <1>2, <2>2 DEF HaltNext, Halting, StackFits, WalkType
  <2>4. PICK top : /\ top = IF Len(stack) = 1 THEN Below
                            ELSE stack[Len(stack) - 1]
                   /\ count' = top.count /\ CloseSynthetic(top.start, Pop)
    BY <1>2 DEF HaltNext
  <2>5. count' \in Nat
    <3>1. Len(stack) # 1 => stack[Len(stack) - 1] \in Frame
      <4>1. stack \in Seq(Frame) /\ Len(stack) \in Nat \ {0}
        BY <2>3 DEF WalkType
      <4>2. Len(stack) # 1 => Len(stack) - 1 \in 1 .. Len(stack)
        BY <4>1
      <4> HIDE DEF WalkInv
      <4> QED
        BY <4>1, <4>2, ElementOfSeq
    <3> QED
      BY <2>4, <3>1 DEF Frame, Below
  <2> QED
    BY <1>2, <2>3, <2>4, <2>5, SyntheticSound DEF HaltNext
<1> QED
  BY <1>1, <1>2

LEMMA StepSound == ASSUME WalkAssumption, WalkInv, [Next]_vars PROVE WalkInv'
<1>1. CASE Entry
  BY <1>1, EntrySound
<1>2. CASE Decode
  BY <1>2, DecodeSound
<1>3. CASE NothingToWalk
  BY <1>3, FinishPlace
     DEF NothingToWalk, walk, WalkInv, WalkType, BeforeLoop, Given, Halting,
         StackTracks, StackFits
<1>4. CASE NoSpace
  BY <1>4 DEF NoSpace, Fails, walk, WalkInv, WalkType, BeforeLoop, Given,
              Halting, StackTracks, StackFits
<1>5. CASE OpenCapture
  BY <1>5, OpenSound
<1>6. CASE CloseCapture
  BY <1>6, CloseSound
<1>7. CASE HaltFirst \/ HaltNext
  BY <1>7, HaltSound
<1>8. CASE UNCHANGED vars
  BY <1>8 DEF vars, walk, WalkInv, WalkType, BeforeLoop, Given, Halting,
              StackTracks, StackFits, FrameOf
<1> QED
  BY <1>1, <1>2, <1>3, <1>4, <1>5, <1>6, <1>7, <1>8
     DEF Next, Step, Walk, Done

LEMMA WalkInvariant == Spec => []WalkInv
<1>1. Init => WalkInv
  BY StartsSound, WalkAssumption
<1>2. WalkInv /\ [Next]_vars => WalkInv'
  BY StepSound, WalkAssumption
<1> QED
  BY <1>1, <1>2, PTL DEF Spec

(* caploop never leaves the list, never reads the top of an empty stack,   *)
(* never writes behind a full one, and gives each close the start of the   *)
(* capture that it closes: for every list of a match or of a halt, for     *)
(* every encoder, and for every first size and limit of the stack.         *)
THEOREM StackSoundCorrect == Spec => []StackSound
<1>1. WalkInv => StackSound
  BY DEF WalkInv, StackSound
<1> QED
  BY <1>1, WalkInvariant, PTL

(***************************************************************************)
(* A set of numbers in order.                                              *)
(***************************************************************************)
Enumerates(q, n, S) ==
  /\ n \in Nat /\ q \in [1 .. n -> S] /\ InOrder(q)
  /\ \A x \in S : \E m \in 1 .. n : q[m] = x

(* There is one order only. *)
LEMMA OneOrder ==
  ASSUME NEW S, S \subseteq Int, NEW n, NEW g, NEW q,
         Enumerates(g, n, S), Enumerates(q, n, S)
  PROVE  g = q
<1> DEFINE T == {m \in Nat : m \in 1 .. n /\ g[m] # q[m]}
<1>1. /\ n \in Nat /\ g \in [1 .. n -> S] /\ q \in [1 .. n -> S]
      /\ \A a, b \in 1 .. n : a < b => g[a] < g[b]
      /\ \A a, b \in 1 .. n : a < b => q[a] < q[b]
      /\ \A x \in S : \E m \in 1 .. n : g[m] = x
      /\ \A x \in S : \E m \in 1 .. n : q[m] = x
  BY DEF Enumerates, InOrder
<1>i. (\A a \in 1 .. n : g[a] \in Int /\ g[a] \in S /\ q[a] \in Int /\ q[a] \in S)
  BY <1>1
<1>2. SUFFICES ASSUME T # {} PROVE FALSE
  BY <1>1
<1>3. PICK m \in T : \A k \in T : m <= k
  BY <1>2, LeastNumber
<1>4. m \in 1 .. n /\ \A k \in 1 .. n : k < m => g[k] = q[k]
  BY <1>3
<1>5. g[m] \in S /\ q[m] \in S /\ g[m] # q[m]
  BY <1>1, <1>3
<1>6. CASE g[m] < q[m]
  <2>1. PICK k \in 1 .. n : q[k] = g[m]
    BY <1>1, <1>5
  <2>2. k < m
    <3>1. m < k => q[m] < q[k]
      BY <1>1, <1>4
    <3>2. g[m] \in Int /\ q[m] \in Int /\ m # k
      BY <1>i, <1>4, <1>5, <1>6, <2>1
    <3>3. ~ (m < k)
      BY <1>6, <2>1, <3>1, <3>2
    <3> QED
      BY <1>4, <3>2, <3>3
  <2> QED
    BY <1>1, <1>i, <1>4, <2>1, <2>2
<1>7. CASE q[m] < g[m]
  <2>1. PICK k \in 1 .. n : g[k] = q[m]
    BY <1>1, <1>5
  <2>2. k < m
    <3>1. m < k => g[m] < g[k]
      BY <1>1, <1>4
    <3>2. g[m] \in Int /\ q[m] \in Int /\ m # k
      BY <1>i, <1>4, <1>5, <1>7, <2>1
    <3>3. ~ (m < k)
      BY <1>7, <2>1, <3>1, <3>2
    <3> QED
      BY <1>4, <3>2, <3>3
  <2> QED
    BY <1>1, <1>i, <1>4, <2>1, <2>2
<1> QED
  BY <1>i, <1>4, <1>5, <1>6, <1>7

LEMMA OrderCounts ==
  ASSUME NEW S, S \subseteq Int, NEW n, NEW q, Enumerates(q, n, S)
  PROVE  IsFiniteSet(S) /\ Cardinality(S) = n
<1>1. /\ n \in Nat /\ q \in [1 .. n -> S]
      /\ \A a, b \in 1 .. n : a < b => q[a] < q[b]
      /\ \A x \in S : \E m \in 1 .. n : q[m] = x
  BY DEF Enumerates, InOrder
<1>2. q \in Bijection(1 .. n, S)
  <2>i. \A a \in 1 .. n : q[a] \in Int
    BY <1>1
  <2>1. \A a, b \in 1 .. n : a # b => q[a] # q[b]
    BY <1>1, <2>i
  <2> QED
    BY <1>1, <2>1 DEF Bijection, Injection, Surjection, IsInjective
<1>3. IsFiniteSet(1 .. n) /\ Cardinality(1 .. n) = n
  <2>1. 1 \in Int /\ n \in Int /\ (1 > n => n = 0) /\ n - 1 + 1 = n
    BY <1>1
  <2> QED
    BY <2>1, FS_Interval
<1>4. ExistsBijection(1 .. n, S)
  BY <1>2 DEF ExistsBijection
<1> QED
  BY <1>3, <1>4, FS_Bijection

(* Numbers in order that are as many as the set has are all of them. *)
LEMMA OrderIsAll ==
  ASSUME NEW S, S \subseteq Int, IsFiniteSet(S), NEW g,
         g \in [1 .. Cardinality(S) -> S], InOrder(g)
  PROVE  Enumerates(g, Cardinality(S), S)
<1> DEFINE n == Cardinality(S)
           R == {g[m] : m \in 1 .. n}
<1>1. n \in Nat
  BY FS_CardinalityType
<1>2. Enumerates(g, n, R)
  BY <1>1 DEF Enumerates, InOrder
<1>3. R \subseteq S
  OBVIOUS
<1>4. Cardinality(R) = n
  BY <1>2, <1>3, OrderCounts
<1>5. R = S
  BY <1>3, <1>4, FS_Subset
<1> QED
  BY <1>2, <1>5

LEMMA OrderLonger ==
  ASSUME NEW S, S \subseteq Int, NEW n, NEW q, Enumerates(q, n, S),
         NEW x \in Int, \A y \in S : y < x
  PROVE  Enumerates([m \in 1 .. n + 1 |-> IF m <= n THEN q[m] ELSE x], n + 1,
                    S \cup {x})
<1> DEFINE p == [m \in 1 .. n + 1 |-> IF m <= n THEN q[m] ELSE x]
<1>1. /\ n \in Nat /\ q \in [1 .. n -> S]
      /\ \A a, b \in 1 .. n : a < b => q[a] < q[b]
      /\ \A y \in S : \E m \in 1 .. n : q[m] = y
  BY DEF Enumerates, InOrder
<1>2. /\ p \in [1 .. n + 1 -> S \cup {x}] /\ p[n + 1] = x
      /\ \A m \in 1 .. n : p[m] = q[m]
  BY <1>1
<1> HIDE DEF p
<1>3. ASSUME NEW a \in 1 .. n + 1, NEW b \in 1 .. n + 1, a < b
      PROVE  p[a] < p[b]
  <2>1. CASE b \in 1 .. n
    BY <1>1, <1>2, <1>3, <2>1
  <2>2. CASE b = n + 1
    <3>1. a \in 1 .. n
      BY <1>1, <1>3, <2>2
    <3> QED
      BY <1>1, <1>2, <2>2, <3>1
  <2> QED
    BY <1>1, <2>1, <2>2
<1>4. \A y \in S \cup {x} : \E m \in 1 .. n + 1 : p[m] = y
  BY <1>1, <1>2
<1> QED
  BY <1>1, <1>2, <1>3, <1>4 DEF Enumerates, InOrder, p

LEMMA OrderExists ==
  ASSUME NEW S, NEW hi \in Nat, S \subseteq 1 .. hi
  PROVE  \E n, q : Enumerates(q, n, S)
<1> DEFINE Has(k) == \E n, q : Enumerates(q, n, S \cap 1 .. k)
           T == {k \in Nat : ~ Has(k)}
<1>1. T = {}
  <2>1. SUFFICES ASSUME T # {} PROVE FALSE
    OBVIOUS
  <2>2. PICK k \in T : \A j \in T : k <= j
    BY <2>1, LeastNumber
  <2>3. k # 0
    <3>1. S \cap 1 .. 0 = {}
      OBVIOUS
    <3>2. Enumerates(<<>>, 0, {})
      BY DEF Enumerates, InOrder
    <3> QED
      BY <3>1, <3>2
  <2>4. k - 1 \in Nat /\ k - 1 \notin T
    BY <2>2, <2>3
  <2>5. PICK n, q : Enumerates(q, n, S \cap 1 .. k - 1)
    BY <2>4
  <2>6. CASE k \in S
    <3>1. S \cap 1 .. k = (S \cap 1 .. k - 1) \cup {k}
      BY <2>4, <2>6
    <3>2. \A y \in S \cap 1 .. k - 1 : y < k
      BY <2>4
    <3>3. S \cap 1 .. k - 1 \subseteq Int /\ k \in Int
      OBVIOUS
    <3>4. \E p : Enumerates(p, n + 1, (S \cap 1 .. k - 1) \cup {k})
      BY ONLY <2>5, <3>2, <3>3, OrderLonger
    <3> QED
      BY <2>2, <3>1, <3>4
  <2>7. CASE k \notin S
    <3>1. S \cap 1 .. k = S \cap 1 .. k - 1
      BY <2>4, <2>7
    <3> QED
      BY <2>2, <2>5, <3>1
  <2> QED
    BY <2>6, <2>7
<1>2. S \cap 1 .. hi = S /\ hi \notin T
  BY <1>1
<1> QED
  BY <1>2

(***************************************************************************)
(* Where a capture ends, what is inside it, and the tree of a list.        *)
(***************************************************************************)
LEMMA CloseIsFirst ==
  ASSUME NEW l, NEW n \in Nat, Len(l) = n, NEW i \in 1 .. n
  PROVE  /\ CloseOf(l, i) \in i .. n
         /\ \A c \in i + 1 .. n :
              /\ \A j \in i + 1 .. c - 1 : ~ (Depth(l, j) < Depth(l, i))
              /\ Depth(l, c) < Depth(l, i) \/ c = n
              => CloseOf(l, i) = c
<1> DEFINE Ends == {j \in i + 1 .. Len(l) : Depth(l, j) < Depth(l, i)}
<1>1. CloseOf(l, i) = IF Ends = {} THEN Len(l)
                      ELSE CHOOSE j \in Ends : \A k \in Ends : j <= k
  BY DEF CloseOf
<1>2. Ends \subseteq i + 1 .. n
  OBVIOUS
<1>3. CASE Ends = {}
  <2>1. CloseOf(l, i) = n
    BY <1>1, <1>3
  <2>2. \A j \in i + 1 .. n : ~ (Depth(l, j) < Depth(l, i))
    BY <1>3
  <2> QED
    BY <2>1, <2>2
<1>4. CASE Ends # {}
  <2>1. PICK m \in Ends : \A k \in Ends : m <= k
    <3>1. Ends \in SUBSET Nat
      BY <1>2
    <3> HIDE DEF Ends
    <3> QED
      BY <1>4, <3>1, LeastNumber
  <2>2. CloseOf(l, i) \in Ends /\ \A k \in Ends : CloseOf(l, i) <= k
    <3> HIDE DEF Ends
    <3>1. CloseOf(l, i) = CHOOSE j \in Ends : \A k \in Ends : j <= k
      BY <1>1, <1>4
    <3> QED
      BY <2>1, <3>1
  <2>3. PICK c : c = CloseOf(l, i)
    OBVIOUS
  <2>4. c \in i + 1 .. n /\ Depth(l, c) < Depth(l, i)
    BY <2>2, <2>3
  <2>5. ASSUME NEW d \in i + 1 .. n,
               \A j \in i + 1 .. d - 1 : ~ (Depth(l, j) < Depth(l, i)),
               Depth(l, d) < Depth(l, i) \/ d = n
        PROVE  c = d
    <3>1. ~ (c < d)
      BY <2>4, <2>5
    <3>2. CASE Depth(l, d) < Depth(l, i)
      <4>1. d \in Ends
        BY <3>2
      <4>2. c <= d
        BY <2>2, <2>3, <4>1
      <4> QED
        BY <2>4, <3>1, <4>2
    <3>3. CASE d = n
      BY <2>4, <3>1, <3>3
    <3> QED
      BY <2>5, <3>2, <3>3
  <2> QED
    BY <2>3, <2>4, <2>5
<1> QED
  BY <1>3, <1>4

LEMMA InsideIs ==
  ASSUME NEW l, NEW n \in Nat, Len(l) = n, NEW i \in 1 .. n
  PROVE  /\ Within(l, i) \subseteq i + 1 .. n
         /\ \E m : Enumerates(Inside(l, i), m, Within(l, i))
         /\ \A q, m : Enumerates(q, m, Within(l, i)) => Inside(l, i) = q
<1> DEFINE W == Within(l, i)
<1>1. W \subseteq i + 1 .. n
  <2>1. CloseOf(l, i) \in i .. n
    BY CloseIsFirst
  <2> QED
    BY <2>1 DEF Within
<1>2. W \subseteq 1 .. n /\ W \subseteq Int
  BY <1>1
<1>3. Inside(l, i) = CHOOSE q \in [1 .. Cardinality(W) -> W] : InOrder(q)
  BY DEF Inside
<1> HIDE DEF W
<1>4. PICK m, q : Enumerates(q, m, W)
  BY <1>2, OrderExists
<1>5. IsFiniteSet(W) /\ Cardinality(W) = m
  BY <1>2, <1>4, OrderCounts
<1>6. q \in [1 .. Cardinality(W) -> W] /\ InOrder(q)
  BY <1>4, <1>5 DEF Enumerates
<1>7. /\ Inside(l, i) \in [1 .. Cardinality(W) -> W]
      /\ InOrder(Inside(l, i))
  BY <1>3, <1>6
<1>8. Enumerates(Inside(l, i), Cardinality(W), W)
  BY <1>2, <1>5, <1>7, OrderIsAll
<1>9. ASSUME NEW p, NEW k, Enumerates(p, k, W) PROVE Inside(l, i) = p
  <2>1. k = Cardinality(W)
    BY <1>2, <1>9, OrderCounts
  <2> QED
    BY <1>2, <1>8, <1>9, <2>1, OneOrder
<1> QED
  BY <1>1, <1>8, <1>9 DEF W

(* One capture of the tree, when those inside it are known. *)
TreeNode(l, i, f) ==
  [s |-> l[i].s + 1, type |-> Name[l[i].idx],
   data |-> IF l[i].kind = "Crosieconst"
            THEN <<Name[l[CloseOf(l, i)].idx]>> ELSE <<>>,
   subs |-> [k \in DOMAIN Inside(l, i) |-> f[Inside(l, i)[k]]],
   e |-> l[CloseOf(l, i)].s + 1]

IsTree(f, l) == f = [i \in DOMAIN l |-> TreeNode(l, i, f)]

LEMMA TreeExists ==
  ASSUME NEW l \in Seq(Capture)
  PROVE  \E f : IsTree(f, l)
<1> DEFINE n == Len(l)
           Known(f, k) == f = [i \in n + 1 - k .. n |-> TreeNode(l, i, f)]
           T == {k \in Nat : k <= n /\ ~ \E f : Known(f, k)}
<1>0. n \in Nat /\ DOMAIN l = 1 .. n
  OBVIOUS
<1>1. T = {}
  <2>1. SUFFICES ASSUME T # {} PROVE FALSE
    OBVIOUS
  <2>2. PICK k \in T : \A j \in T : k <= j
    BY <2>1, LeastNumber
  <2>3. k # 0
    <3>1. n + 1 - 0 .. n = {}
      BY <1>0
    <3> DEFINE f == [i \in {} |-> 0]
    <3>2. f = [i \in n + 1 - 0 .. n |-> TreeNode(l, i, f)]
      BY <3>1
    <3>3. Known(f, 0)
      BY <3>2
    <3> QED
      BY <2>2, <3>3
  <2>4. k - 1 \in Nat /\ k - 1 \notin T /\ k <= n
    BY <2>2, <2>3
  <2>5. PICK f : Known(f, k - 1)
    BY <2>4
  <2> DEFINE lo == n + 1 - k
             g == [i \in lo .. n |-> IF i = lo THEN TreeNode(l, lo, f) ELSE f[i]]
             h == [i \in lo .. n |-> TreeNode(l, i, g)]
  <2>6. /\ lo \in 1 .. n /\ n + 1 - (k - 1) = lo + 1
    BY <1>0, <2>3, <2>4
  <2>7. f = [i \in lo + 1 .. n |-> TreeNode(l, i, f)]
    BY <2>5, <2>6
  <2>8. \A i \in lo + 1 .. n : f[i] = TreeNode(l, i, f)
    <3> HIDE DEF n, lo
    <3>1. \A i \in lo + 1 .. n : [j \in lo + 1 .. n |-> TreeNode(l, j, f)][i] = TreeNode(l, i, f)
      OBVIOUS
    <3> QED
      BY <2>7, <3>1, Zenon
  <2>9. \A i \in lo .. n : h[i] = TreeNode(l, i, g)
    OBVIOUS
  <2>10. \A i \in lo .. n : g[i] = IF i = lo THEN TreeNode(l, lo, f) ELSE f[i]
    OBVIOUS
  <2> HIDE DEF g, h
  <2>11. ASSUME NEW i \in lo .. n PROVE TreeNode(l, i, g) = TreeNode(l, i, f)
    <3>1. i \in 1 .. n
      BY <2>6
    <3>2. /\ Within(l, i) \subseteq i + 1 .. n
          /\ \E m : Enumerates(Inside(l, i), m, Within(l, i))
      BY <1>0, <3>1, InsideIs
    <3>3. ASSUME NEW m \in DOMAIN Inside(l, i)
          PROVE  g[Inside(l, i)[m]] = f[Inside(l, i)[m]]
      <4>1. Inside(l, i)[m] \in i + 1 .. n
        BY <3>2 DEF Enumerates
      <4>2. Inside(l, i)[m] \in lo .. n /\ Inside(l, i)[m] # lo
        BY <2>6, <4>1
      <4> QED
        BY <2>10, <4>2
    <3>4. [m \in DOMAIN Inside(l, i) |-> g[Inside(l, i)[m]]]
            = [m \in DOMAIN Inside(l, i) |-> f[Inside(l, i)[m]]]
      BY <3>3
    <3> QED
      BY <3>4, Zenon DEF TreeNode
  <2>12. ASSUME NEW i \in lo .. n PROVE g[i] = h[i]
    <3>1. CASE i = lo
      BY <2>9, <2>10, <2>11, <3>1
    <3>2. CASE i # lo
      <4>1. i \in lo + 1 .. n
        BY <2>6, <3>2
      <4> QED
        BY <2>8, <2>9, <2>10, <2>11, <3>2, <4>1
    <3> QED
      BY <3>1, <3>2
  <2>13. g = h
    BY <2>12 DEF g, h
  <2>14. Known(g, k)
    BY <2>13 DEF h
  <2> QED
    BY <2>2, <2>14
<1>2. PICK f : Known(f, n)
  BY <1>0, <1>1
<1>3. n + 1 - n .. n = DOMAIN l
  BY <1>0
<1>4. f = [i \in n + 1 - n .. n |-> TreeNode(l, i, f)]
  BY <1>2
<1>5. f = [i \in DOMAIN l |-> TreeNode(l, i, f)]
  BY <1>3, <1>4
<1> QED
  BY <1>5 DEF IsTree

(* The nodes of TreeOf(l), of which the first is the tree. *)
Nodes(l) == CHOOSE f : IsTree(f, l)

LEMMA TreeIs ==
  ASSUME NEW l \in Seq(Capture)
  PROVE  /\ TreeOf(l) = Nodes(l)[1]
         /\ \A i \in DOMAIN l : Nodes(l)[i] = TreeNode(l, i, Nodes(l))
<1>1. IsTree(Nodes(l), l)
  BY TreeExists DEF Nodes
<1>2. TreeOf(l) = Nodes(l)[1]
  BY Zenon DEF TreeOf, Nodes, IsTree, TreeNode
<1>3. \A i \in DOMAIN l : Nodes(l)[i] = TreeNode(l, i, Nodes(l))
  <2> DEFINE N == Nodes(l)
  <2>1. N = [i \in DOMAIN l |-> TreeNode(l, i, N)]
    BY <1>1 DEF IsTree
  <2> HIDE DEF N
  <2>2. \A i \in DOMAIN l : [j \in DOMAIN l |-> TreeNode(l, j, N)][i] = TreeNode(l, i, N)
    OBVIOUS
  <2> QED
    BY <2>1, <2>2, Zenon DEF N
<1> QED
  BY <1>2, <1>3

(***************************************************************************)
(* The captures that are open after k entries, outermost first, and those  *)
(* that are complete in each of them.                                      *)
(***************************************************************************)
Inner(E, i, k) ==
  {j \in i + 1 .. k : isopencap(E[j]) /\ Depth(E, j) = Depth(E, i) + 1}

OpenAt(E, k, d, i) ==
  /\ i \in 1 .. k /\ isopencap(E[i]) /\ Depth(E, i) = d
  /\ \A j \in i .. k : Depth(E, j) >= d

(* The one that is open in the capture of depth d is not complete. *)
Complete(E, k, op, d) ==
  Inner(E, op[d], k) \ (IF d < Depth(E, k) THEN {op[d + 1]} ELSE {})

Path(E, k, op, ch) ==
  /\ Depth(E, k) \in Nat
  /\ \A d \in 1 .. Depth(E, k) :
       /\ OpenAt(E, k, d, op[d])
       /\ Enumerates(ch[d], Len(ch[d]), Complete(E, k, op, d))

LEMMA EmptyPath == ASSUME NEW E PROVE \A op, ch : Path(E, 0, op, ch)
BY DepthOfNone DEF Path

(* Nothing is open at a depth twice, and what is deeper came later. *)
LEMMA PathOrder ==
  ASSUME NEW E, NEW k \in Nat, NEW op, NEW ch, Path(E, k, op, ch),
         NEW d \in 1 .. Depth(E, k), d < Depth(E, k)
  PROVE  /\ op[d] \in Int /\ op[d + 1] \in Int /\ op[d] < op[d + 1]
         /\ op[d + 1] \in Inner(E, op[d], k)
         /\ \A y \in Inner(E, op[d], k) : y # op[d + 1] => y < op[d + 1]
<1>1. d + 1 \in 1 .. Depth(E, k)
  BY DEF Path
<1>2. OpenAt(E, k, d, op[d]) /\ OpenAt(E, k, d + 1, op[d + 1])
  BY <1>1 DEF Path
<1>3. op[d] < op[d + 1]
  <2>1. SUFFICES ASSUME ~ (op[d] < op[d + 1]) PROVE FALSE
    OBVIOUS
  <2>2. op[d] \in op[d + 1] .. k
    BY <1>2, <2>1 DEF OpenAt
  <2>3. Depth(E, op[d]) >= d + 1 /\ Depth(E, op[d]) = d
    BY <1>2, <2>2 DEF OpenAt
  <2> QED
    BY <2>3
<1>4. op[d + 1] \in Inner(E, op[d], k)
  BY <1>2, <1>3 DEF OpenAt, Inner
<1>5. ASSUME NEW y \in Inner(E, op[d], k), y # op[d + 1]
      PROVE  y < op[d + 1]
  <2>1. SUFFICES ASSUME y > op[d + 1] PROVE FALSE
    BY <1>2, <1>5 DEF OpenAt, Inner
  <2>2. /\ y \in 1 .. k /\ isopencap(E[y]) /\ Depth(E, y) = d + 1
    BY <1>2, <1>5 DEF OpenAt, Inner
  <2>3. PICK h \in Nat : y = h + 1
    BY <2>2
  <2>4. h \in op[d + 1] .. k
    BY <1>2, <2>1, <2>2, <2>3 DEF OpenAt
  <2>5. Depth(E, h) >= d + 1
    BY <1>2, <2>4 DEF OpenAt
  <2>6. Depth(E, h) \in Int /\ Depth(E, y) = Depth(E, h) + 1
    BY <2>2, <2>3, DepthOfNext
  <2> QED
    BY <2>2, <2>5, <2>6
<1> QED
  BY <1>2, <1>3, <1>4, <1>5 DEF OpenAt

(* A capture is opened: it has nothing in it yet. *)
LEMMA PathOpens ==
  ASSUME NEW E, NEW k \in Nat, NEW op, NEW ch, Path(E, k, op, ch),
         isopencap(E[k + 1]), NEW n, n = Depth(E, k),
         NEW p, NEW q, p[n + 1] = k + 1, q[n + 1] = <<>>,
         \A d \in 1 .. n : p[d] = op[d] /\ q[d] = ch[d]
  PROVE  Path(E, k + 1, p, q)
<1>1. n \in Nat /\ Depth(E, k + 1) = n + 1
  BY DepthOfNext DEF Path
<1>2. ASSUME NEW d \in 1 .. n
      PROVE  /\ OpenAt(E, k + 1, d, p[d])
             /\ Enumerates(q[d], Len(q[d]), Complete(E, k + 1, p, d))
  <2>1. /\ OpenAt(E, k, d, op[d])
        /\ Enumerates(ch[d], Len(ch[d]), Complete(E, k, op, d))
    BY DEF Path
  <2>2. OpenAt(E, k + 1, d, op[d])
    <3>1. ASSUME NEW j \in op[d] .. k + 1 PROVE Depth(E, j) >= d
      <4>1. CASE j = k + 1
        BY <1>1, <4>1
      <4>2. CASE j # k + 1
        BY <2>1, <4>2 DEF OpenAt
      <4> QED
        BY <4>1, <4>2
    <3> QED
      BY <2>1, <3>1 DEF OpenAt
  <2>3. Depth(E, op[d]) = d /\ op[d] \in 1 .. k
    BY <2>1 DEF OpenAt
  <2>4. CASE d = n
    <3>1. Inner(E, op[d], k + 1) = Inner(E, op[d], k) \cup {k + 1}
      BY <1>1, <2>3, <2>4 DEF Inner
    <3>2. k + 1 \notin Inner(E, op[d], k)
      BY DEF Inner
    <3>3. Complete(E, k + 1, p, d) = Inner(E, op[d], k)
      BY <1>1, <2>4, <3>1, <3>2 DEF Complete
    <3>4. Complete(E, k, op, d) = Inner(E, op[d], k)
      BY <1>1, <2>4 DEF Complete
    <3> QED
      BY <2>1, <2>2, <3>3, <3>4
  <2>5. CASE d # n
    <3>1. Inner(E, op[d], k + 1) = Inner(E, op[d], k)
      BY <1>1, <2>3, <2>5 DEF Inner
    <3>2. p[d + 1] = op[d + 1] /\ d < n /\ d < n + 1
      BY <1>1, <2>5
    <3>3. Complete(E, k + 1, p, d) = Complete(E, k, op, d)
      BY <1>1, <3>1, <3>2 DEF Complete
    <3> QED
      BY <2>1, <2>2, <3>3
  <2> QED
    BY <2>4, <2>5
<1>3. /\ OpenAt(E, k + 1, n + 1, p[n + 1])
      /\ Enumerates(q[n + 1], Len(q[n + 1]), Complete(E, k + 1, p, n + 1))
  <2>1. OpenAt(E, k + 1, n + 1, p[n + 1])
    BY <1>1 DEF OpenAt
  <2>2. Complete(E, k + 1, p, n + 1) = {}
    BY <1>1 DEF Complete, Inner
  <2>3. Enumerates(<<>>, Len(<<>>), {})
    BY DEF Enumerates, InOrder
  <2> QED
    BY <2>1, <2>2, <2>3
<1>4. \A d \in 1 .. n + 1 : d \in 1 .. n \/ d = n + 1
  BY <1>1
<1> QED
  BY <1>1, <1>2, <1>3, <1>4 DEF Path

(* The innermost capture is closed: it is complete in the one around it. *)
LEMMA PathCloses ==
  ASSUME NEW E, NEW k \in Nat, NEW op, NEW ch, Path(E, k, op, ch),
         ~ isopencap(E[k + 1]), NEW n, n = Depth(E, k), n > 0,
         NEW q, \A d \in 1 .. n - 2 : q[d] = ch[d],
         n > 1 => q[n - 1] = Append(ch[n - 1], op[n])
  PROVE  Path(E, k + 1, op, q)
<1>1. n \in Nat /\ Depth(E, k + 1) = n - 1
  BY DepthOfNext DEF Path
<1>2. ASSUME NEW d \in 1 .. n - 1
      PROVE  /\ OpenAt(E, k + 1, d, op[d])
             /\ Enumerates(q[d], Len(q[d]), Complete(E, k + 1, op, d))
  <2>1. /\ d \in 1 .. n /\ OpenAt(E, k, d, op[d])
        /\ Enumerates(ch[d], Len(ch[d]), Complete(E, k, op, d))
    BY <1>1 DEF Path
  <2>2. OpenAt(E, k + 1, d, op[d])
    <3>1. ASSUME NEW j \in op[d] .. k + 1 PROVE Depth(E, j) >= d
      <4>1. CASE j = k + 1
        BY <1>1, <4>1
      <4>2. CASE j # k + 1
        BY <2>1, <4>2 DEF OpenAt
      <4> QED
        BY <4>1, <4>2
    <3> QED
      BY <2>1, <3>1 DEF OpenAt
  <2>3. Inner(E, op[d], k + 1) = Inner(E, op[d], k)
    <3>1. op[d] \in 1 .. k
      BY <2>1 DEF OpenAt
    <3> QED
      BY <3>1 DEF Inner
  <2>4. CASE d = n - 1
    <3>1. d + 1 = n /\ d < n /\ n > 1
      BY <1>1, <2>4
    <3>2. /\ op[d + 1] \in Inner(E, op[d], k) /\ op[d + 1] \in Int
          /\ \A y \in Inner(E, op[d], k) : y # op[d + 1] => y < op[d + 1]
      BY <2>1, <3>1, PathOrder
    <3>3. Complete(E, k + 1, op, d) = Complete(E, k, op, d) \cup {op[n]}
      BY <1>1, <2>3, <2>4, <3>1, <3>2 DEF Complete
    <3>4. \A y \in Complete(E, k, op, d) : y < op[n]
      BY <3>1, <3>2 DEF Complete
    <3>5. Complete(E, k, op, d) \subseteq Int /\ op[n] \in Int
      BY <2>1, <3>1, <3>2 DEF Complete, Inner, OpenAt
    <3> DEFINE S == Complete(E, k, op, d)
               m == Len(ch[d])
               u == [i \in 1 .. m + 1 |-> IF i <= m THEN ch[d][i] ELSE op[n]]
    <3>6. Enumerates(u, m + 1, S \cup {op[n]})
      <4> HIDE DEF S, m
      <4>1. S \subseteq Int /\ op[n] \in Int /\ Enumerates(ch[d], m, S)
            /\ \A y \in S : y < op[n]
        BY <2>1, <3>4, <3>5 DEF S, m
      <4> QED
        BY ONLY <4>1, OrderLonger
    <3>7. u = Append(ch[d], op[n]) /\ Len(Append(ch[d], op[n])) = m + 1
      <4>1. m \in Nat /\ ch[d] \in [1 .. m -> S]
        BY <2>1 DEF Enumerates
      <4>2. ch[d] \in Seq(S \cup {op[n]})
        BY <4>1
      <4> HIDE DEF S
      <4>3. Append(ch[d], op[n]) = [i \in 1 .. m + 1 |-> IF i <= m THEN ch[d][i] ELSE op[n]]
        BY <4>1, <4>2
      <4>4. Len(Append(ch[d], op[n])) = m + 1
        BY <4>1, <4>2
      <4> QED
        BY <4>3, <4>4
    <3> QED
      BY <2>2, <2>4, <3>1, <3>3, <3>6, <3>7
  <2>5. CASE d # n - 1
    <3>1. d \in 1 .. n - 2 /\ d < n /\ d < n - 1
      BY <1>1, <2>5
    <3>2. Complete(E, k + 1, op, d) = Complete(E, k, op, d)
      BY <1>1, <2>3, <3>1 DEF Complete
    <3> QED
      BY <2>1, <2>2, <3>1, <3>2
  <2> QED
    BY <2>4, <2>5
<1> QED
  BY <1>1, <1>2 DEF Path

(* The entries are those of the list as far as it goes, and then the       *)
(* closes that follow a halt.                                              *)
Follows(E, k) ==
  \A j \in 1 .. k :
    IF j < Len(list) THEN E[j] = list[j]
    ELSE E[j].kind = "Cclose" /\ E[j].s = list[Len(list)].s

(* At a close, the innermost capture that is open is the one that ends     *)
(* there in the list too, and has the captures inside that are complete.   *)
LEMMA ClosesAt ==
  ASSUME list \in Seq(Capture), NEW E, NEW k \in Nat, Follows(E, k + 1),
         NEW op, NEW ch, Path(E, k, op, ch), ~ isopencap(E[k + 1]),
         NEW n, n = Depth(E, k), n > 0,
         NEW i, i = op[n], NEW c, c = CloseOf(list, i)
  PROVE  /\ i \in 1 .. k /\ i \in 1 .. Len(list) - 1 /\ E[i] = list[i]
         /\ list[c].s = E[k + 1].s
         /\ E[k + 1].kind # "Cclose" => list[c] = E[k + 1]
         /\ k + 1 < Len(list) => c = k + 1
         /\ Inside(list, i) = ch[n]
<1>1. n \in Nat /\ Len(list) \in Nat
  BY DEF Path
<1>2. PICK m \in Nat : m = Len(list)
  BY <1>1
<1>3. OpenAt(E, k, n, i) /\ Enumerates(ch[n], Len(ch[n]), Inner(E, i, k))
  <2>1. n \in 1 .. n
    BY <1>1
  <2>2. Complete(E, k, op, n) = Inner(E, i, k)
    BY <1>1 DEF Complete
  <2> QED
    BY <2>1, <2>2 DEF Path
<1>4. i \in 1 .. k /\ i < m /\ E[i] = list[i]
  <2>1. i \in 1 .. k /\ isopencap(E[i])
    BY <1>3 DEF OpenAt
  <2>2. i < m
    BY <1>2, <2>1 DEF Follows, isopencap
  <2> QED
    BY <1>2, <2>1, <2>2 DEF Follows
<1>5. ASSUME NEW j \in Nat, j <= k + 1, j < m PROVE Depth(list, j) = Depth(E, j)
  <2>1. \A h \in 1 .. j : list[h] = E[h]
    BY <1>2, <1>5 DEF Follows
  <2> QED
    BY <2>1, DepthSame
<1>6. Depth(list, i) = n /\ Depth(E, i) = n
  BY <1>3, <1>4, <1>5 DEF OpenAt
<1>7. \A j \in i .. k : j < m => Depth(list, j) >= n /\ Depth(list, j) = Depth(E, j)
  BY <1>3, <1>4, <1>5 DEF OpenAt
<1>8. PICK e \in i + 1 .. m :
        /\ e = IF k + 1 < m THEN k + 1 ELSE m
        /\ c = e
  <2>1. PICK e : e = IF k + 1 < m THEN k + 1 ELSE m
    OBVIOUS
  <2>2. e \in i + 1 .. m /\ e <= k + 1 /\ e <= m
    BY <1>4, <2>1
  <2>3. \A j \in i + 1 .. e - 1 : ~ (Depth(list, j) < Depth(list, i))
    <3>1. SUFFICES ASSUME NEW j \in i + 1 .. e - 1
                   PROVE  ~ (Depth(list, j) < Depth(list, i))
      OBVIOUS
    <3>2. j \in i .. k /\ j < m
      BY <1>4, <2>2
    <3>3. Depth(list, j) >= n /\ j \in Nat
      BY <1>4, <1>7, <3>2
    <3>4. Depth(list, j) \in Int
      BY <3>3, DepthOfNext
    <3> QED
      BY <1>1, <1>6, <3>3, <3>4
  <2>4. Depth(list, e) < Depth(list, i) \/ e = m
    <3>1. SUFFICES ASSUME k + 1 < m PROVE Depth(list, e) < Depth(list, i)
      BY <2>1
    <3>2. e = k + 1 /\ Depth(list, k + 1) = Depth(E, k + 1)
      BY <1>5, <2>1, <3>1
    <3>3. Depth(E, k + 1) = n - 1
      BY DepthOfNext
    <3> QED
      BY <1>1, <1>6, <3>2, <3>3
  <2>5. i \in 1 .. m
    BY <1>4
  <2>6. CloseOf(list, i) = e
    BY ONLY <1>2, <2>2, <2>3, <2>4, <2>5, CloseIsFirst
  <2> QED
    BY <2>1, <2>2, <2>6
<1>9. list[c].s = E[k + 1].s /\ (E[k + 1].kind # "Cclose" => list[c] = E[k + 1])
  BY <1>2, <1>8 DEF Follows
<1>10. Inside(list, i) = ch[n]
  <2>1. Within(list, i) = Inner(E, i, k)
    <3>1. ASSUME NEW j \in i + 1 .. c - 1
          PROVE  /\ j \in i + 1 .. k
                 /\ isopencap(list[j]) <=> isopencap(E[j])
                 /\ Depth(list, j) = Depth(E, j)
      <4>1. j \in i .. k /\ j \in i + 1 .. k /\ j < m /\ j \in 1 .. k + 1
        BY <1>4, <1>8
      <4> QED
        BY <1>2, <1>7, <4>1 DEF Follows
    <3>2. ASSUME NEW j \in i + 1 .. k, isopencap(E[j]) PROVE j \in i + 1 .. c - 1
      <4>1. j < m
        BY <1>2, <1>4, <3>2 DEF Follows, isopencap
      <4> QED
        BY <1>4, <1>8, <4>1
    <3> QED
      BY <1>6, <3>1, <3>2 DEF Within, Inner
  <2>2. i \in 1 .. m
    BY <1>4
  <2>3. Enumerates(ch[n], Len(ch[n]), Within(list, i))
    BY <1>3, <2>1
  <2> QED
    BY ONLY <1>2, <2>2, <2>3, InsideIs
<1> QED
  BY <1>2, <1>4, <1>8, <1>9, <1>10

(***************************************************************************)
(* What one entry of a capture list leaves in the output of the byte       *)
(* encoder.                                                                *)
(***************************************************************************)
Written(c) == IF isopencap(c) THEN byte_Open(c) ELSE byte_Close(c)

(* How many bytes a constant's data take, before the end position.         *)
Skip(c) == IF c.kind = "Ccloseconst" THEN 2 + Len(Name[c.idx]) ELSE 0

(* An entry of the list whose bytes are read back as what it is.           *)
Legible(c) ==
  /\ c \in Capture /\ ~ isfinalcap(c)
  /\ c.kind # "Cclose" => c.idx \in DOMAIN Name
  /\ c.s + 1 \in Ints /\ NameRead(c)
  /\ Forward => c.s \in first .. r

LEMMA NamesAreBytes ==
  ASSUME WalkAssumption, NEW i \in DOMAIN Name
  PROVE  Name[i] \in Seq(Bytes) /\ Len(Name[i]) \in Nat
<1>1. Name \in Seq(Seq(Bytes))
  BY DEF WalkAssumption
<1>2. i \in 1 .. Len(Name)
  BY <1>1, DOMAIN Name = 1 .. Len(Name)
<1>3. Name[i] \in Seq(Bytes)
  BY <1>1, <1>2, ElementOfSeq
<1> QED
  BY <1>3

LEMMA JoinBytes ==
  ASSUME NEW s \in Seq(Bytes), NEW n \in Seq(Bytes)
  PROVE  /\ s \o n \in Seq(Bytes) /\ Len(s \o n) = Len(s) + Len(n)
         /\ \A j \in 1 .. Len(s) : (s \o n)[j] = s[j]
         /\ \A j \in 1 .. Len(n) : (s \o n)[Len(s) + j] = n[j]
BY ConcatenationIs

LEMMA PositionIsInt ==
  ASSUME NEW x \in Ints, x > 0 PROVE x \in Int /\ -x \in Int /\ -x \in Ints
BY HalfOfInt4 DEF Ints

LEMMA OpenPieces ==
  ASSUME WalkAssumption, NEW c, Legible(c), isopencap(c)
  PROVE  /\ Written(c) \in Seq(Bytes)
         /\ Len(Written(c)) = 6 + Len(Name[c.idx])
         /\ \A j \in 1 .. 4 : Written(c)[j] = int_to_string(-(c.s + 1))[j]
         /\ \A j \in 1 .. 2 :
              Written(c)[4 + j] =
                short_to_string(IF c.kind = "Crosieconst" THEN -Len(Name[c.idx])
                                ELSE Len(Name[c.idx]))[j]
         /\ \A j \in 1 .. Len(Name[c.idx]) : Written(c)[6 + j] = Name[c.idx][j]
<1> DEFINE i == int_to_string(-(c.s + 1))
           sign == IF c.kind = "Crosieconst" THEN -1 ELSE 1
           s == short_to_string(sign * Len(Name[c.idx]))
           n == Name[c.idx]
<1>1. n \in Seq(Bytes) /\ Len(n) \in Nat
  BY NamesAreBytes DEF Legible, isopencap
<1>2. c.s \in Nat
  BY DEF Legible, Capture
<1>3. i \in Seq(Bytes) /\ Len(i) = 4
  BY <1>2, IntBytes
<1>4. sign * Len(n) = IF c.kind = "Crosieconst" THEN -Len(n) ELSE Len(n)
  <2>1. PICK x \in Nat : x = Len(n)
    BY <1>1
  <2>2. CASE c.kind = "Crosieconst"
    <3>1. sign = -1
      BY <2>2
    <3> HIDE DEF sign, n
    <3> QED
      BY <2>1, <2>2, <3>1
  <2>3. CASE c.kind # "Crosieconst"
    <3>1. sign = 1
      BY <2>3
    <3> HIDE DEF sign, n
    <3> QED
      BY <2>1, <2>3, <3>1
  <2> QED
    BY <2>2, <2>3
<1>5. s \in Seq(Bytes) /\ Len(s) = 2
  <2>1. sign * Len(n) \in Int
    BY <1>1
  <2> QED
    BY <2>1, ShortBytes
<1>6. Written(c) = i \o (s \o n)
  BY DEF Written, byte_Open, encode_string
<1>7. s = short_to_string(IF c.kind = "Crosieconst" THEN -Len(n) ELSE Len(n))
  BY <1>4
<1> HIDE DEF i, s, n, sign
<1>8. /\ s \o n \in Seq(Bytes) /\ Len(s \o n) = 2 + Len(n)
      /\ \A j \in 1 .. 2 : (s \o n)[j] = s[j]
      /\ \A j \in 1 .. Len(n) : (s \o n)[2 + j] = n[j]
  <2>1. /\ s \o n \in Seq(Bytes) /\ Len(s \o n) = Len(s) + Len(n)
        /\ \A j \in 1 .. Len(s) : (s \o n)[j] = s[j]
        /\ \A j \in 1 .. Len(n) : (s \o n)[Len(s) + j] = n[j]
    BY ONLY <1>1, <1>5, JoinBytes
  <2> QED
    BY <1>5, <2>1
<1>9. /\ i \o (s \o n) \in Seq(Bytes) /\ Len(i \o (s \o n)) = 4 + (2 + Len(n))
      /\ \A j \in 1 .. 4 : (i \o (s \o n))[j] = i[j]
      /\ \A j \in 1 .. 2 + Len(n) : (i \o (s \o n))[4 + j] = (s \o n)[j]
  <2> DEFINE m == s \o n
  <2>2. m \in Seq(Bytes) /\ Len(m) = 2 + Len(n)
    BY <1>8
  <2> HIDE DEF m
  <2>3. /\ i \o m \in Seq(Bytes) /\ Len(i \o m) = Len(i) + Len(m)
        /\ \A j \in 1 .. Len(i) : (i \o m)[j] = i[j]
        /\ \A j \in 1 .. Len(m) : (i \o m)[Len(i) + j] = m[j]
    BY ONLY <1>3, <2>2, JoinBytes
  <2>4. /\ i \o m \in Seq(Bytes) /\ Len(i \o m) = 4 + (2 + Len(n))
        /\ \A j \in 1 .. 4 : (i \o m)[j] = i[j]
        /\ \A j \in 1 .. 2 + Len(n) : (i \o m)[4 + j] = m[j]
    BY ONLY <1>3, <2>2, <2>3
  <2> QED
    BY <2>4 DEF m
<1>10. ASSUME NEW j \in 1 .. 2 PROVE (i \o (s \o n))[4 + j] = s[j]
  <2>1. j \in 1 .. 2 + Len(n)
    BY <1>1
  <2> QED
    BY <2>1, <1>8, <1>9
<1>11. 4 + (2 + Len(n)) = 6 + Len(n)
  BY <1>1
<1>12. ASSUME NEW j \in 1 .. Len(n) PROVE (i \o (s \o n))[6 + j] = n[j]
  <2>1. PICK h \in 1 .. 2 + Len(n) : h = 2 + j /\ 4 + h = 6 + j
    BY <1>1
  <2> QED
    BY <2>1, <1>8, <1>9
<1> QED
  BY ONLY <1>6, <1>7, <1>9, <1>10, <1>11, <1>12 DEF i, n

LEMMA ClosePieces ==
  ASSUME WalkAssumption, NEW c, Legible(c), ~ isopencap(c)
  PROVE  /\ Written(c) \in Seq(Bytes) /\ Skip(c) \in Nat
         /\ Len(Written(c)) = Skip(c) + 4
         /\ \A j \in 1 .. 4 :
              Written(c)[Skip(c) + j] = int_to_string(c.s + 1)[j]
         /\ c.kind = "Ccloseconst" =>
              /\ \A j \in 1 .. 2 :
                   Written(c)[j] = short_to_string(Len(Name[c.idx]))[j]
              /\ \A j \in 1 .. Len(Name[c.idx]) :
                   Written(c)[2 + j] = Name[c.idx][j]
<1> DEFINE i == int_to_string(c.s + 1)
           s == short_to_string(1 * Len(Name[c.idx]))
           n == Name[c.idx]
<1>1. c.s \in Nat
  BY DEF Legible, Capture
<1>2. i \in Seq(Bytes) /\ Len(i) = 4
  BY <1>1, IntBytes
<1>3. CASE c.kind = "Ccloseconst"
  <2>1. n \in Seq(Bytes) /\ Len(n) \in Nat
    BY <1>3, NamesAreBytes DEF Legible
  <2>2. 1 * Len(n) = Len(n) /\ s = short_to_string(Len(n))
    BY <2>1
  <2>3. s \in Seq(Bytes) /\ Len(s) = 2
    BY <2>1, <2>2, ShortBytes
  <2>4. Written(c) = (s \o n) \o i
    BY <1>3 DEF Written, byte_Close, encode_string
  <2>5. Skip(c) = 2 + Len(n)
    BY <1>3 DEF Skip
  <2> HIDE DEF i, s, n
  <2>6. /\ s \o n \in Seq(Bytes) /\ Len(s \o n) = 2 + Len(n)
        /\ \A j \in 1 .. 2 : (s \o n)[j] = s[j]
        /\ \A j \in 1 .. Len(n) : (s \o n)[2 + j] = n[j]
    <3>1. /\ s \o n \in Seq(Bytes) /\ Len(s \o n) = Len(s) + Len(n)
          /\ \A j \in 1 .. Len(s) : (s \o n)[j] = s[j]
          /\ \A j \in 1 .. Len(n) : (s \o n)[Len(s) + j] = n[j]
      BY ONLY <2>1, <2>3, JoinBytes
    <3> QED
      BY ONLY <2>1, <2>3, <3>1
  <2> DEFINE m == s \o n
  <2> HIDE DEF m
  <2>7. /\ m \o i \in Seq(Bytes) /\ Len(m \o i) = (2 + Len(n)) + 4
        /\ \A j \in 1 .. 2 + Len(n) : (m \o i)[j] = m[j]
        /\ \A j \in 1 .. 4 : (m \o i)[(2 + Len(n)) + j] = i[j]
    <3>1. m \in Seq(Bytes) /\ Len(m) = 2 + Len(n)
      BY <2>6 DEF m
    <3>2. /\ m \o i \in Seq(Bytes) /\ Len(m \o i) = Len(m) + Len(i)
          /\ \A j \in 1 .. Len(m) : (m \o i)[j] = m[j]
          /\ \A j \in 1 .. Len(i) : (m \o i)[Len(m) + j] = i[j]
      BY ONLY <1>2, <3>1, JoinBytes
    <3> QED
      BY ONLY <1>2, <3>1, <3>2
  <2>8. ASSUME NEW j \in 1 .. 2 PROVE (m \o i)[j] = s[j]
    <3>1. j \in 1 .. 2 + Len(n)
      BY <2>1
    <3> QED
      BY <3>1, <2>6, <2>7 DEF m
  <2>9. ASSUME NEW j \in 1 .. Len(n) PROVE (m \o i)[2 + j] = n[j]
    <3>1. PICK h \in 1 .. 2 + Len(n) : h = 2 + j
      BY <2>1
    <3> QED
      BY <3>1, <2>6, <2>7 DEF m
  <2> QED
    <3>1. 2 + Len(n) \in Nat
      BY <2>1
    <3> QED
      BY ONLY <3>1, <2>2, <2>4, <2>5, <2>7, <2>8, <2>9 DEF i, n, m
<1>4. CASE c.kind # "Ccloseconst"
  <2>1. Written(c) = <<>> \o i /\ Skip(c) = 0
    BY <1>4 DEF Written, byte_Close, Skip
  <2> HIDE DEF i
  <2>2. <<>> \o i = i
    BY <1>2
  <2>3. \A j \in 1 .. 4 : 0 + j = j
    OBVIOUS
  <2> QED
    BY <1>2, <1>4, <2>1, <2>2, <2>3 DEF i
<1> QED
  BY <1>3, <1>4

(***************************************************************************)
(* The output as the entries that made it, one after the other: entry k    *)
(* is what lies between pos[k - 1] and pos[k].                             *)
(***************************************************************************)
Layout(E, pos) ==
  /\ output \in Seq(Bytes)
  /\ pos \in [0 .. Len(E) -> Nat] /\ pos[0] = 0 /\ pos[Len(E)] = Len(output)
  /\ \A k \in 1 .. Len(E) :
       /\ pos[k] = pos[k - 1] + Len(Written(E[k])) /\ pos[k] <= Len(output)
       /\ \A j \in 1 .. Len(Written(E[k])) :
            output[pos[k - 1] + j] = Written(E[k])[j]

(* The entries are properly nested, under a first one.                     *)
Nested(E) ==
  /\ E \in Seq(Capture) /\ \A k \in 1 .. Len(E) : Legible(E[k])
  /\ Len(E) > 0 => isopencap(E[1])
  /\ Forward => \A k \in 1 .. Len(E) : E[1].s <= E[k].s
  /\ \A k \in 1 .. Len(E) - 1 :
       /\ Depth(E, k) > 0
       /\ E[k].kind = "Crosieconst" <=> E[k + 1].kind = "Ccloseconst"

LEMMA WrittenBytes ==
  ASSUME WalkAssumption, NEW c, Legible(c)
  PROVE  Written(c) \in Seq(Bytes) /\ Len(Written(c)) \in Nat
BY OpenPieces, ClosePieces

LEMMA LayoutGrows ==
  ASSUME WalkAssumption, NEW E \in Seq(Capture), NEW pos, Layout(E, pos),
         NEW c, Legible(c), output' = output \o Written(c),
         \A k \in 1 .. Len(E) : Legible(E[k])
  PROVE  \E p : Layout(Append(E, c), p)'
<1> DEFINE w == Written(c)
           F == Append(E, c)
           n == Len(E)
           p == [k \in 0 .. n + 1 |-> IF k <= n THEN pos[k]
                                      ELSE pos[n] + Len(w)]
<1>1. w \in Seq(Bytes) /\ Len(w) \in Nat
  BY WrittenBytes
<1>2. /\ F \in Seq(Capture) /\ Len(F) = n + 1 /\ n \in Nat
      /\ F[n + 1] = c /\ \A k \in 1 .. n : F[k] = E[k]
  BY AppendIs DEF Legible
<1> HIDE DEF w, F, n
<1>3. /\ output \in Seq(Bytes) /\ Len(output) \in Nat
      /\ output' \in Seq(Bytes) /\ Len(output') = Len(output) + Len(w)
      /\ \A j \in 1 .. Len(output) : output'[j] = output[j]
      /\ \A j \in 1 .. Len(w) : output'[Len(output) + j] = w[j]
  <2>1. output \in Seq(Bytes)
    BY DEF Layout
  <2> QED
    BY <1>1, <2>1, ConcatenationIs DEF w
<1>4. /\ pos \in [0 .. n -> Nat] /\ pos[0] = 0 /\ pos[n] = Len(output)
  BY DEF Layout, n
<1>5. ASSUME NEW k \in 1 .. n
      PROVE  /\ pos[k] = pos[k - 1] + Len(Written(E[k]))
             /\ pos[k] <= Len(output)
             /\ \A j \in 1 .. Len(Written(E[k])) :
                  output[pos[k - 1] + j] = Written(E[k])[j]
  BY DEF Layout, n
<1>6. /\ p \in [0 .. n + 1 -> Nat] /\ p[0] = 0
      /\ p[n + 1] = pos[n] + Len(w) /\ \A k \in 0 .. n : p[k] = pos[k]
  BY <1>1, <1>2, <1>3, <1>4
<1> HIDE DEF p
<1>7. ASSUME NEW k \in 1 .. n + 1
      PROVE  /\ p[k] = p[k - 1] + Len(Written(F[k])) /\ p[k] <= Len(output')
             /\ \A j \in 1 .. Len(Written(F[k])) :
                  output'[p[k - 1] + j] = Written(F[k])[j]
  <2>1. CASE k <= n
    <3>1. k \in 1 .. n /\ F[k] = E[k] /\ p[k] = pos[k] /\ p[k - 1] = pos[k - 1]
      <4>1. k \in 1 .. n /\ k \in 0 .. n /\ k - 1 \in 0 .. n
        BY <1>2, <2>1
      <4> QED
        BY ONLY <1>2, <1>6, <4>1
    <3>2. pos[k] \in Nat /\ pos[k - 1] \in Nat
      <4>1. k \in 0 .. n /\ k - 1 \in 0 .. n
        BY <1>2, <3>1
      <4> QED
        BY <1>4, <4>1
    <3>3. ASSUME NEW j \in 1 .. Len(Written(E[k]))
          PROVE  output'[pos[k - 1] + j] = Written(E[k])[j]
      <4>1. Len(Written(E[k])) \in Nat
        BY <3>1, WrittenBytes DEF n
      <4>2. PICK x, y, z \in Nat :
              x = pos[k - 1] /\ y = Len(Written(E[k])) /\ z = pos[k]
        BY <3>2, <4>1
      <4>3. z = x + y /\ z <= Len(output) /\ j \in 1 .. y /\ Len(output) \in Nat
        BY <1>3, <1>5, <3>1, <4>2
      <4>4. pos[k - 1] + j \in 1 .. Len(output)
        BY ONLY <4>2, <4>3
      <4> QED
        BY <1>3, <1>5, <3>1, <4>4
    <3>4. pos[k] <= Len(output')
      BY <1>1, <1>3, <1>5, <3>1, <3>2
    <3> QED
      BY <1>5, <3>1, <3>3, <3>4
  <2>2. CASE k = n + 1
    <3>1. /\ F[k] = c /\ k - 1 = n /\ p[k - 1] = Len(output)
          /\ p[k] = Len(output) + Len(w) /\ Written(F[k]) = w
      BY <1>2, <1>4, <1>6, <2>2 DEF w
    <3> QED
      BY <1>3, <3>1
  <2> QED
    BY ONLY <1>2, <2>1, <2>2, k \in 1 .. n + 1
<1>8. Layout(F, p)'
  <2>1. /\ output' \in Seq(Bytes) /\ p \in [0 .. Len(F) -> Nat] /\ p[0] = 0
        /\ p[Len(F)] = Len(output')
    BY ONLY <1>2, <1>3, <1>4, <1>6
  <2> QED
    BY ONLY <1>2, <1>7, <2>1 DEF Layout
<1> QED
  BY <1>8 DEF F

LEMMA NestedGrows ==
  ASSUME WalkAssumption, NEW E, Nested(E), NEW c, Legible(c),
         Len(E) = 0 => isopencap(c),
         Len(E) > 0 => /\ Depth(E, Len(E)) > 0
                       /\ E[Len(E)].kind = "Crosieconst"
                            <=> c.kind = "Ccloseconst"
                       /\ Forward => E[1].s <= c.s
  PROVE  /\ Nested(Append(E, c)) /\ Len(Append(E, c)) = Len(E) + 1
         /\ Len(E) \in Nat /\ Append(E, c)[Len(E) + 1] = c
         /\ Depth(E, Len(E)) \in Int
         /\ Depth(Append(E, c), Len(E) + 1) =
              IF isopencap(c) THEN Depth(E, Len(E)) + 1
              ELSE Depth(E, Len(E)) - 1
<1> DEFINE F == Append(E, c)
           n == Len(E)
<1>1. E \in Seq(Capture) /\ c \in Capture
  BY DEF Nested, Legible
<1>2. /\ F \in Seq(Capture) /\ Len(F) = n + 1 /\ n \in Nat
      /\ F[n + 1] = c /\ \A k \in 1 .. n : F[k] = E[k]
  BY <1>1, AppendIs
<1> HIDE DEF F
<1>3. ASSUME NEW k \in 0 .. n PROVE Depth(F, k) = Depth(E, k)
  <2>1. \A i \in 1 .. k : F[i] = E[i]
    BY <1>2
  <2> QED
    BY <1>2, <2>1, DepthSame
<1>4. Depth(E, n) \in Int /\ Depth(F, n) = Depth(E, n)
  <2>1. Depth(E, n) \in Int
    BY ONLY n \in Nat, <1>2, DepthOfNext
  <2>2. n \in 0 .. n
    BY <1>2
  <2> QED
    BY <1>3, <2>1, <2>2
<1>5. Depth(F, n + 1) = IF isopencap(c) THEN Depth(E, n) + 1
                        ELSE Depth(E, n) - 1
  <2>1. Depth(F, n + 1) = IF isopencap(F[n + 1]) THEN Depth(F, n) + 1
                          ELSE Depth(F, n) - 1
    BY ONLY n \in Nat, <1>2, DepthOfNext
  <2> QED
    BY ONLY <1>2, <1>4, <2>1
<1>6. ASSUME NEW k \in 1 .. n + 1 PROVE Legible(F[k])
  <2>1. CASE k \in 1 .. n
    <3>1. Legible(E[k]) /\ F[k] = E[k]
      BY <1>2, <2>1 DEF Nested
    <3> QED
      BY ONLY <3>1
  <2>2. CASE k \notin 1 .. n
    <3>1. k = n + 1
      BY ONLY <1>2, <2>2, k \in 1 .. n + 1
    <3> QED
      BY ONLY <1>2, <3>1, Legible(c)
  <2> QED
    BY <2>1, <2>2
<1>7. isopencap(F[1])
  <2>1. CASE n = 0
    BY <1>2, <2>1
  <2>2. CASE n # 0
    BY <1>2, <2>2 DEF Nested
  <2> QED
    BY <2>1, <2>2
<1>8. ASSUME Forward, NEW k \in 1 .. n + 1 PROVE F[1].s <= F[k].s
  <2>1. CASE k <= n
    BY <1>2, <1>8, <2>1 DEF Nested
  <2>2. CASE k = n + 1 /\ n > 0
    BY <1>2, <1>8, <2>2
  <2>3. CASE k = n + 1 /\ n = 0
    BY <1>1, <1>2, <2>3 DEF Capture
  <2> QED
    BY <1>2, <2>1, <2>2, <2>3
<1>9. ASSUME NEW k \in 1 .. n
      PROVE  /\ Depth(F, k) > 0
             /\ F[k].kind = "Crosieconst" <=> F[k + 1].kind = "Ccloseconst"
  <2>1. Depth(F, k) = Depth(E, k) /\ F[k] = E[k]
    BY <1>2, <1>3
  <2>2. CASE k = n
    BY <1>2, <2>1, <2>2
  <2>3. CASE k # n
    <3>1. k \in 1 .. n - 1 /\ F[k + 1] = E[k + 1]
      BY <1>2, <2>3
    <3> QED
      BY <2>1, <3>1 DEF Nested
  <2> QED
    BY <2>2, <2>3
<1>10. Nested(F)
  BY <1>2, <1>6, <1>7, <1>8, <1>9 DEF Nested
<1> QED
  BY <1>2, <1>4, <1>5, <1>10 DEF F

(***************************************************************************)
(* What is known of the list, the range and the result at each place.      *)
(***************************************************************************)
LEMMA RangeType ==
  ASSUME WalkAssumption, call \in Calls
  PROVE  first \in Nat /\ last \in Int /\ call.len \in Nat
<1>1. /\ call.via \in {"C", "lua"} /\ call.len \in Nat
      /\ call.startpos \in Int /\ call.endpos \in Nat
      /\ call.via = "C" => call.startpos \in Nat
  BY DEF WalkAssumption
<1>2. initposition(call.startpos, call.len) \in Nat
  BY <1>1 DEF initposition
<1>3. given \in Nat
  BY <1>1, <1>2 DEF given
<1> QED
  BY <1>1, <1>3 DEF first, last

ListInv ==
  list # <<>> =>
    /\ Enclosed(list) /\ Ordered(list) /\ Named(list)
    /\ first <= call.len /\ first <= last /\ r \in Nat /\ r <= last
    /\ \A i \in 1 .. Len(list) :
         IF isfinalcap(list[i]) THEN list[i].s = r ELSE first <= list[i].s
    /\ ~ Halted => Forward

PlaceInv ==
  /\ pc = "call" => list = <<>> /\ output = <<>>
  /\ pc = "walk" => output = <<>>
  /\ pc \in {"call", "walk", "loop", "halting"} => frames = <<>> /\ at = 1
  /\ pc \in {"walk", "loop", "halting", "decode", "subs"} => list # <<>>
  /\ pc \in {"decode", "subs"} => call.etype = "byte"
  /\ pc = "halting" => isfinalcap(list[cap])
  /\ "err" \in DOMAIN result

Ready == pc \in {"decode", "subs"} \/ Answered

ResultInv ==
  Ready => /\ list # <<>> => result.leftover = last - r
           /\ result.data = "output" /\ call.etype # "line" =>
                (result.abend = 1 <=> Halted)

ToldInv == ListInv /\ PlaceInv /\ ResultInv

LEMMA StartsTold == ASSUME Init PROVE ToldInv
BY DEF Init, Untouched, ToldInv, ListInv, PlaceInv, ResultInv, Ready, Answered

LEMMA RangeKept ==
  ASSUME UNCHANGED call PROVE first' = first /\ last' = last
BY DEF first, last, given

LEMMA ForwardKept ==
  ASSUME UNCHANGED <<call, list, r>> PROVE Forward' <=> Forward
BY RangeKept DEF Forward

LEMMA ListKept ==
  ASSUME ListInv, UNCHANGED <<call, list, r>> PROVE ListInv'
<1>1. first' = first /\ last' = last /\ (Forward' <=> Forward)
  BY RangeKept, ForwardKept
<1>2. Halted' <=> Halted
  BY DEF Halted
<1> QED
  BY <1>1, <1>2 DEF ListInv

LEMMA EntryTold ==
  ASSUME WalkAssumption, WalkInv, ToldInv, Entry PROVE ToldInv'
<1> USE DEF ToldInv
<1>1. UNCHANGED <<call, walk, decode>> /\ first' = first /\ last' = last
  BY RangeKept DEF Entry, WrongRange, NoMatch, HasMatch, Fails
<1>2. CASE WrongRange
  BY <1>1, <1>2 DEF WrongRange, Fails, ListInv, PlaceInv, ResultInv, Ready,
                    Answered, decode
<1>3. CASE NoMatch
  <2>1. list = <<>> /\ list' = <<>> /\ pc' = "done"
    BY <1>3 DEF NoMatch, PlaceInv
  <2>2. /\ result'.data = "output" => call.etype = "line"
        /\ "err" \in DOMAIN result'
    BY <1>3 DEF NoMatch, Line
  <2> QED
    BY <1>1, <2>1, <2>2 DEF ListInv, PlaceInv, ResultInv
<1>4. CASE HasMatch
  <2>1. PICK a \in Answers :
          /\ Possible(a) /\ list' = a.list /\ r' = a.r
          /\ IF call.etype \in {"line", "status"}
             THEN /\ Line(TRUE, [err |-> "OK", data |-> "without",
                                 leftover |-> last - a.r, abend |-> 0])
                  /\ pc' = "done"
             ELSE pc' = "walk" /\ UNCHANGED <<output, result>>
    BY <1>4 DEF HasMatch
  <2>2. /\ a.r \in Nat /\ a.list \in Seq(Capture)
        /\ Enclosed(a.list) /\ Ordered(a.list) /\ Named(a.list)
        /\ a.list[Len(a.list)].s = a.r
    BY DEF WalkAssumption
  <2>3. a.list # <<>>
    BY <2>2 DEF Enclosed
  <2>4. ListInv'
    <3>1. first <= call.len /\ first <= last /\ Possible(a)
      BY <1>4, <2>1 DEF HasMatch
    <3>2. ASSUME NEW i \in 1 .. Len(a.list)
          PROVE  IF isfinalcap(a.list[i]) THEN a.list[i].s = a.r
                 ELSE first <= a.list[i].s
      <4>1. CASE isfinalcap(a.list[i])
        <5>1. i = Len(a.list)
          BY <2>2, <4>1 DEF Enclosed, isfinalcap
        <5> QED
          BY <2>2, <4>1, <5>1
      <4>2. CASE ~ isfinalcap(a.list[i])
        BY <2>2, <3>1, <4>2 DEF Possible
      <4> QED
        BY <4>1, <4>2
    <3>3. ~ isfinalcap(a.list[Len(a.list)]) =>
            first <= a.r /\ \A i \in DOMAIN a.list : a.list[i].s <= a.r
      <4>1. Len(a.list) \in 1 .. Len(a.list) /\ DOMAIN a.list = 1 .. Len(a.list)
        BY <2>2 DEF Enclosed
      <4>2. ~ isfinalcap(a.list[Len(a.list)]) => first <= a.r
        BY <2>2, <3>2, <4>1
      <4> QED
        BY <3>1, <4>2 DEF Possible
    <3>4. ~ Halted' => Forward'
      BY <1>1, <2>1, <2>3, <3>3 DEF Halted, Forward
    <3> QED
      BY <1>1, <1>4, <2>1, <2>2, <3>1, <3>2, <3>4 DEF ListInv, Possible, HasMatch
  <2>5. CASE call.etype \in {"line", "status"}
    <3>1. pc' = "done" /\ result'.leftover = last - a.r
      BY <2>1, <2>5 DEF Line
    <3>2. /\ result'.data = "output" => call.etype = "line"
          /\ "err" \in DOMAIN result'
      BY <2>1, <2>5 DEF Line
    <3> QED
      BY <1>1, <2>1, <2>4, <3>1, <3>2 DEF PlaceInv, ResultInv
  <2>6. CASE call.etype \notin {"line", "status"}
    <3>1. pc' = "walk" /\ UNCHANGED <<output, result>>
      BY <2>1, <2>6
    <3> QED
      BY <1>1, <1>4, <2>1, <2>3, <2>4, <3>1
         DEF PlaceInv, ResultInv, Ready, Answered, HasMatch, decode
  <2> QED
    BY <2>5, <2>6
<1> QED
  BY <1>2, <1>3, <1>4 DEF Entry

LEMMA DecodeTold == ASSUME ToldInv, Decode PROVE ToldInv'
<1>1. /\ UNCHANGED <<call, list, r, walk, output>>
      /\ pc' \in {"decode", "subs", "done"} /\ pc \in {"decode", "subs"}
      /\ \/ UNCHANGED result
         \/ result' = [result EXCEPT !.err = "CORRUPT"] /\ pc' = "done"
  <2>1. CASE DecodeOpen \/ DecodeConst
    BY <2>1 DEF DecodeOpen, DecodeConst, Decoded
  <2>2. CASE DecodeBad \/ DecodeSub
    BY <2>2 DEF DecodeBad, DecodeSub, Corrupt, Fails
  <2>3. CASE DecodeClose
    <3>1. CASE check_bounds(at, 4)
      BY <2>3, <3>1 DEF DecodeClose
    <3>2. CASE ~ check_bounds(at, 4)
      BY <2>3, <3>2 DEF DecodeClose, Corrupt, Fails
    <3> QED
      BY <3>1, <3>2
  <2> QED
    BY <2>1, <2>2, <2>3 DEF Decode
<1>2. first' = first /\ last' = last
  BY <1>1, RangeKept
<1>3. ListInv' /\ PlaceInv'
  BY <1>1, <1>2, ListKept DEF ToldInv, PlaceInv
<1>4. ResultInv'
  BY <1>1, <1>2 DEF ToldInv, PlaceInv, ResultInv, Ready, Answered, Halted
<1> QED
  BY <1>3, <1>4 DEF ToldInv

(* The end of a walk that stays in the list. *)
LEMMA FinishTold ==
  ASSUME ToldInv, UNCHANGED <<call, list, r, decode>>, NEW out, NEW abend,
         Finish(out, abend), list # <<>>, abend = 1 <=> Halted
  PROVE  ToldInv'
<1>1. first' = first /\ last' = last
  BY RangeKept
<1>2. /\ result' = [err |-> "OK", data |-> "output", leftover |-> last - r,
                    abend |-> abend]
      /\ pc' \in {"decode", "done"} /\ (pc' = "decode" => call.etype = "byte")
  BY DEF Finish
<1>3. ListInv' /\ PlaceInv'
  BY <1>1, <1>2, ListKept DEF ToldInv, PlaceInv
<1>4. ResultInv'
  BY <1>1, <1>2 DEF ResultInv, Halted
<1> QED
  BY <1>3, <1>4 DEF ToldInv

(* The walk goes on. *)
LEMMA WalkOnTold ==
  ASSUME ToldInv, UNCHANGED <<call, list, r, decode>>, list # <<>>,
         pc \in {"walk", "loop", "halting"},
         pc' = "loop" \/ (pc' = "halting" /\ isfinalcap(list[cap'])),
         UNCHANGED result
  PROVE  ToldInv'
BY ListKept DEF ToldInv, PlaceInv, ResultInv, Ready, Answered, decode

LEMMA LastIsFinal ==
  ASSUME list \in Seq(Capture), Enclosed(list), cap \in 1 .. Len(list),
         isfinalcap(list[cap])
  PROVE  cap = Len(list) /\ Halted
<1>1. cap = Len(list)
  BY DEF Enclosed, isfinalcap
<1> QED
  BY <1>1 DEF Halted

LEMMA WalkTold ==
  ASSUME WalkAssumption, WalkInv, ToldInv, Walk PROVE ToldInv'
<1>1. list # <<>> /\ Enclosed(list) /\ list \in Seq(Capture)
  BY DEF Walk, NothingToWalk, OpenCapture, NoSpace, CloseCapture, HaltFirst,
         HaltNext, ToldInv, PlaceInv, ListInv, WalkInv, WalkType
<1>2. CASE NothingToWalk
  <2>1. list[1] = list[Len(list)]
    <3>1. Len(list) \in Nat \ {0} /\ ~ isopencap(list[1])
      BY <1>1, <1>2 DEF NothingToWalk, Enclosed
    <3>2. list[1] \in Capture
      BY ONLY <1>1, <3>1, 1 \in 1 .. Len(list), ElementOfSeq
    <3>3. list[1].kind \in {"Cclose", "Ccloseconst", "Cfinal"}
      BY <3>1, <3>2 DEF isopencap, Capture, CapKinds
    <3>4. Len(list) = 1
      <4>1. list[1].kind # "Ccloseconst"
        BY <1>1 DEF Enclosed
      <4>2. list[1].kind = "Cclose" => Len(list) = 1
        BY <1>1 DEF Enclosed, isclosecap
      <4>3. 1 \in 1 .. Len(list) - 1 => list[1].kind # "Cfinal"
        BY <1>1 DEF Enclosed
      <4> QED
        BY ONLY <3>1, <3>3, <4>1, <4>2, <4>3
    <3> QED
      BY <3>4
  <2>2. (IF isfinalcap(list[1]) THEN 1 ELSE 0) = 1 <=> Halted
    BY <1>1, <2>1 DEF Halted
  <2> QED
    BY <1>1, <1>2, <2>2, FinishTold DEF NothingToWalk
<1>3. CASE OpenCapture
  <2>1. /\ UNCHANGED <<call, list, r, decode>> /\ UNCHANGED result
        /\ pc \in {"walk", "loop", "halting"} /\ pc' = "loop"
    BY <1>3 DEF OpenCapture
  <2>2. pc' = "loop" \/ (pc' = "halting" /\ isfinalcap(list[cap']))
    BY <2>1
  <2> QED
    BY <1>1, <2>1, <2>2, WalkOnTold, Zenon
<1>4. CASE NoSpace
  <2>1. ListInv'
    BY <1>4, ListKept DEF NoSpace, ToldInv
  <2> QED
    BY <1>4, <2>1 DEF NoSpace, Fails, ToldInv, PlaceInv, ResultInv, Ready, Answered
<1>5. CASE CloseCapture
  <2>1. CASE Len(stack) = 1
    <3>1. cap \in 2 .. Len(list) /\ Depth(list, cap - 1) = 1
      BY <1>5, <2>1 DEF CloseCapture, WalkInv, StackTracks
    <3>2. Depth(list, cap) = 0
      <4>1. PICK k \in Nat : k = cap - 1
        BY <3>1
      <4>2. k + 1 = cap /\ ~ isopencap(list[k + 1])
        BY <1>5, <3>1, <4>1 DEF CloseCapture
      <4>3. Depth(list, k + 1) = Depth(list, k) - 1
        BY <4>2, DepthOfNext
      <4> QED
        BY <3>1, <4>1, <4>2, <4>3
    <3>3. ~ Halted
      <4>1. cap # Len(list) => cap = Len(list) - 1
        <5>1. Len(list) \in Nat /\ cap \in Nat /\ cap <= Len(list)
          BY ONLY <1>1, <3>1
        <5>2. ~ (cap \in 1 .. Len(list) - 2)
          <6>1. \A k \in 1 .. Len(list) - 2 : Depth(list, k) > 0
            BY ONLY <1>1 DEF Enclosed
          <6> QED
            BY ONLY <3>2, <6>1
        <5> QED
          BY ONLY <3>1, <5>1, <5>2
      <4>2. cap = Len(list) => ~ Halted
        BY <1>5 DEF CloseCapture, Halted
      <4>3. cap = Len(list) - 1 => ~ Halted
        BY <1>1, <3>1, <3>2 DEF Enclosed, Halted
      <4> QED
        BY <4>1, <4>2, <4>3
    <3> QED
      BY <1>1, <1>5, <2>1, <3>3, FinishTold DEF CloseCapture
  <2>2. CASE Len(stack) # 1
    <3>1. /\ UNCHANGED <<call, list, r, decode>> /\ UNCHANGED result
          /\ pc \in {"walk", "loop", "halting"} /\ pc' = "loop"
      BY <1>5, <2>2 DEF CloseCapture
    <3>2. pc' = "loop" \/ (pc' = "halting" /\ isfinalcap(list[cap']))
      BY <3>1
    <3> QED
      BY <1>1, <3>1, <3>2, WalkOnTold, Zenon
  <2> QED
    BY <2>1, <2>2
<1>6. CASE HaltFirst \/ HaltNext
  <2>1. cap \in 1 .. Len(list) /\ isfinalcap(list[cap])
    BY <1>6 DEF HaltFirst, HaltNext, WalkInv, StackTracks, Halting, ToldInv,
                PlaceInv
  <2>2. Halted
    BY <1>1, <2>1, LastIsFinal
  <2>3. PICK start : CloseSynthetic(start, Pop)
    BY <1>6 DEF HaltFirst, HaltNext
  <2>4. CASE Pop = <<>>
    BY <1>1, <2>2, <2>3, <2>4, FinishTold DEF CloseSynthetic
  <2>5. CASE Pop # <<>>
    BY <1>1, <1>6, <2>1, <2>3, <2>5, WalkOnTold
       DEF CloseSynthetic, HaltFirst, HaltNext
  <2> QED
    BY <2>4, <2>5
<1> QED
  BY <1>2, <1>3, <1>4, <1>5, <1>6 DEF Walk

(***************************************************************************)
(* What caploop has written: the entries it has passed, and a close for    *)
(* each capture it closed after a halt.                                    *)
(***************************************************************************)
Reached(E) ==
  IF pc = "halting"
  THEN /\ Len(E) > 0 /\ E[Len(E)].kind = "Cclose"
       /\ E[Len(E)].s = list[cap].s /\ Len(E) >= Len(list)
  ELSE Len(E) = cap - 1 /\ (cap > 1 => E[Len(E)] = list[cap - 1])

WroteBy(E, pos) ==
  /\ Layout(E, pos) /\ Nested(E) /\ Follows(E, Len(E))
  /\ Depth(E, Len(E)) = Len(stack) /\ Reached(E)

WritesInv ==
  pc \in {"walk", "loop", "halting"} /\ call.etype = "byte" /\ Readable(list)
    => \E E, pos : WroteBy(E, pos)

(* A list of entries that is complete, and is all of the output.           *)
Whole(E, pos) ==
  /\ Layout(E, pos) /\ Nested(E) /\ Follows(E, Len(E))
  /\ Len(E) > 0 /\ Depth(E, Len(E)) = 0

LEMMA FirstWritten ==
  ASSUME output' = <<>>, pc' = "walk", cap' = 1, stack' = <<>>
  PROVE  \E E, pos : WroteBy(E, pos)'
<1> DEFINE E == <<>>
           pos == [k \in 0 .. 0 |-> 0]
<1>1. E \in Seq(Capture) /\ Len(E) = 0 /\ output' \in Seq(Bytes) /\ Len(output') = 0
  OBVIOUS
<1>2. pos \in [0 .. 0 -> Nat] /\ pos[0] = 0
  OBVIOUS
<1> HIDE DEF E, pos
<1>3. Layout(E, pos)'
  BY <1>1, <1>2 DEF Layout
<1>4. Nested(E)'
  BY <1>1 DEF Nested
<1>5. Depth(E, Len(E)) = Len(stack')
  BY <1>1, DepthOfNone
<1>6. Reached(E)'
  BY <1>1 DEF Reached
<1>7. Follows(E, Len(E))'
  BY <1>1 DEF Follows
<1> QED
  BY <1>3, <1>4, <1>5, <1>6, <1>7 DEF WroteBy

LEMMA EntryInside ==
  ASSUME WalkAssumption, WalkType, ListInv, list # <<>>, Forward,
         NEW k \in 1 .. Len(list)
  PROVE  list[k].s \in first .. r
<1>1. list[k].s \in Nat /\ k \in DOMAIN list
  <2>1. list \in Seq(Capture)
    BY DEF WalkType
  <2>2. list[k] \in Capture /\ k \in DOMAIN list
    BY ONLY <2>1, k \in 1 .. Len(list), ElementOfSeq
  <2> QED
    BY <2>2 DEF Capture
<1>2. first \in Nat /\ r \in Nat
  BY RangeType DEF WalkType, ListInv
<1>3. list[k].s <= r /\ first <= r
  BY <1>1 DEF Forward
<1>4. first <= list[k].s
  BY <1>1, <1>3 DEF ListInv
<1> QED
  BY <1>1, <1>2, <1>3, <1>4

LEMMA ListEntry ==
  ASSUME WalkAssumption, WalkType, ListInv, list # <<>>, Readable(list),
         NEW k \in 1 .. Len(list), ~ isfinalcap(list[k])
  PROVE  Legible(list[k])
<1>1. list[k] \in Capture
  BY ElementOfSeq DEF WalkType
<1>2. k \in DOMAIN list
  BY DEF WalkType
<1> QED
  BY <1>1, <1>2, EntryInside DEF Legible, ListInv, Named, Readable, isfinalcap

LEMMA SyntheticEntry ==
  ASSUME WalkAssumption, WalkType, ListInv, list # <<>>, Readable(list),
         cap \in 1 .. Len(list)
  PROVE  Legible(Synthetic) /\ Synthetic.kind = "Cclose" /\ ~ isopencap(Synthetic)
         /\ Synthetic.s = list[cap].s
<1>1. list[cap] \in Capture
  BY ElementOfSeq DEF WalkType
<1>2. cap \in DOMAIN list
  BY DEF WalkType
<1>3. list[cap].s \in Nat
  BY <1>1 DEF Capture
<1>4. Synthetic \in Capture
  BY <1>3 DEF Synthetic, Capture, CapKinds
<1>5. Forward => Synthetic.s \in first .. r
  BY <1>2, <1>3, EntryInside DEF Synthetic
<1> QED
  BY <1>2, <1>4, <1>5 DEF Legible, Readable, NameRead, isfinalcap, isopencap,
                          Synthetic

(* One more entry. *)
LEMMA WroteOne ==
  ASSUME WalkAssumption, NEW E, NEW pos, Layout(E, pos), Nested(E),
         Depth(E, Len(E)) = Len(stack), stack \in Seq(Frame),
         NEW c, Legible(c),
         Len(E) = 0 => isopencap(c),
         Len(E) > 0 => /\ stack # <<>>
                       /\ E[Len(E)].kind = "Crosieconst"
                            <=> c.kind = "Ccloseconst"
                       /\ Forward => E[1].s <= c.s,
         output' = output \o Written(c), UNCHANGED <<call, list, r>>,
         Follows(E, Len(E)),
         IF Len(E) + 1 < Len(list) THEN c = list[Len(E) + 1]
         ELSE c.kind = "Cclose" /\ c.s = list[Len(list)].s
  PROVE  \E F, p : /\ Layout(F, p)' /\ Nested(F)' /\ Follows(F, Len(F))'
                   /\ Len(F) = Len(E) + 1
                   /\ Len(E) \in Nat /\ F[Len(F)] = c
                   /\ Depth(F, Len(F)) =
                        IF isopencap(c) THEN Len(stack) + 1 ELSE Len(stack) - 1
<1>1. E \in Seq(Capture) /\ \A k \in 1 .. Len(E) : Legible(E[k])
  BY DEF Nested
<1>2. PICK p : Layout(Append(E, c), p)'
  BY <1>1, LayoutGrows
<1>3. Len(E) > 0 => Depth(E, Len(E)) > 0
  <2>1. stack # <<>> => Len(stack) > 0
    OBVIOUS
  <2> QED
    BY <2>1
<1>4. PICK F : F = Append(E, c)
  OBVIOUS
<1>5. /\ Nested(F) /\ Len(F) = Len(E) + 1
      /\ Len(E) \in Nat /\ F[Len(E) + 1] = c
      /\ Depth(F, Len(E) + 1) = IF isopencap(c) THEN Depth(E, Len(E)) + 1
                                ELSE Depth(E, Len(E)) - 1
  BY <1>3, <1>4, NestedGrows
<1>6. first' = first /\ (Forward' <=> Forward)
  BY RangeKept, ForwardKept
<1>7. Nested(F)'
  BY <1>5, <1>6 DEF Nested, Legible
<1>8. Follows(F, Len(F))'
  <2>1. SUFFICES ASSUME NEW j \in 1 .. Len(E) + 1
                 PROVE  IF j < Len(list) THEN F[j] = list[j]
                        ELSE F[j].kind = "Cclose" /\ F[j].s = list[Len(list)].s
    BY <1>5 DEF Follows
  <2>2. CASE j = Len(E) + 1
    BY <1>5, <2>2
  <2>3. CASE j # Len(E) + 1
    <3>1. j \in 1 .. Len(E) /\ F[j] = E[j]
      <4>1. j \in 1 .. Len(E)
        <5>1. Len(E) \in Nat
          BY <1>5
        <5> QED
          BY ONLY <5>1, <2>3, j \in 1 .. Len(E) + 1
      <4>2. E \in Seq(Capture) /\ c \in Capture
        BY <1>1 DEF Legible
      <4> QED
        BY <1>4, <4>1, <4>2, AppendIs
    <3> QED
      BY <3>1 DEF Follows
  <2> QED
    BY <2>2, <2>3
<1> QED
  BY <1>2, <1>4, <1>5, <1>7, <1>8

LEMMA LastWritten ==
  ASSUME NEW E, Nested(E), Len(E) > 0
  PROVE  (Forward => E[1].s <= E[Len(E)].s) /\ E[Len(E)] \in Capture
<1>1. Len(E) \in 1 .. Len(E)
  BY DEF Nested
<1> QED
  BY <1>1 DEF Nested, Legible

LEMMA OpenWrites ==
  ASSUME WalkAssumption, WalkInv, ToldInv, WritesInv, OpenCapture
  PROVE  WritesInv'
<1>1. /\ list # <<>> /\ Enclosed(list) /\ Ordered(list) /\ list \in Seq(Capture)
      /\ cap \in 1 .. Len(list) /\ isopencap(list[cap]) /\ stack \in Seq(Frame)
      /\ cap' = cap + 1 /\ pc' = "loop" /\ UNCHANGED <<call, list, r>>
      /\ (cap > 1 => stack # <<>> /\ pc = "loop")
      /\ (cap = 1 => pc = "walk" \/ pc = "loop") /\ pc # "halting"
  <2>1. /\ isopencap(list[cap]) /\ cap' = cap + 1 /\ pc' = "loop"
        /\ pc \in {"walk", "loop"} /\ UNCHANGED <<call, list, r>>
    BY DEF OpenCapture
  <2>2. list # <<>> /\ Enclosed(list) /\ Ordered(list)
    BY <2>1 DEF ToldInv, PlaceInv, ListInv
  <2>3. list \in Seq(Capture) /\ cap \in Nat \ {0} /\ stack \in Seq(Frame)
    BY DEF WalkInv, WalkType
  <2>4. CASE pc = "walk"
    <3>1. cap = 1
      BY <2>4 DEF WalkInv, BeforeLoop
    <3> QED
      BY <2>1, <2>2, <2>3, <2>4, <3>1 DEF Enclosed
  <2>5. CASE pc = "loop"
    <3>1. cap \in 2 .. Len(list) /\ stack # <<>>
      BY <2>5 DEF WalkInv, StackTracks, StackSound
    <3> QED
      BY <2>1, <2>2, <2>3, <2>5, <3>1
  <2> QED
    BY <2>1, <2>4, <2>5
<1>2. SUFFICES ASSUME call.etype = "byte", Readable(list)
               PROVE  \E E, pos : WroteBy(E, pos)'
  BY <1>1 DEF WritesInv
<1>3. PICK E, pos : WroteBy(E, pos)
  BY <1>2 DEF WritesInv, OpenCapture
<1> DEFINE c == list[cap]
<1>4. Legible(c)
  <2>1. ~ isfinalcap(list[cap])
    BY <1>1 DEF isopencap, isfinalcap
  <2> QED
    BY <1>1, <1>2, <2>1, ListEntry DEF WalkInv, ToldInv
<1>5. output' = output \o Written(c)
  BY <1>1, <1>2 DEF OpenCapture, Open, Written
<1>6. Len(E) = cap - 1 /\ (cap > 1 => E[Len(E)] = list[cap - 1])
  BY <1>1, <1>3 DEF WroteBy, Reached
<1>7. Len(E) > 0 => /\ stack # <<>>
                    /\ E[Len(E)].kind = "Crosieconst" <=> c.kind = "Ccloseconst"
                    /\ Forward => E[1].s <= c.s
  <2>1. SUFFICES ASSUME Len(E) > 0
                 PROVE  /\ stack # <<>>
                        /\ E[Len(E)].kind = "Crosieconst"
                             <=> c.kind = "Ccloseconst"
                        /\ Forward => E[1].s <= c.s
    OBVIOUS
  <2>2. PICK k \in 1 .. Len(list) - 1 : k = cap - 1
    BY <1>1, <1>6, <2>1
  <2>3. k + 1 = cap /\ E[Len(E)] = list[k] /\ cap > 1
    BY <1>1, <1>6, <2>2
  <2>4. /\ list[k].kind = "Crosieconst" <=> list[k + 1].kind = "Ccloseconst"
        /\ list[k].s <= list[k + 1].s
    BY <1>1, <1>4, <2>3 DEF Ordered, Legible
  <2>5. (Forward => E[1].s <= E[Len(E)].s) /\ E[1] \in Capture /\ E[Len(E)] \in Capture
    <3>1. 1 \in 1 .. Len(E)
      BY <1>1, <1>6, <2>1
    <3> QED
      BY <1>3, <2>1, <3>1, LastWritten DEF WroteBy, Nested, Legible
  <2>6. c \in Capture
    BY <1>4 DEF Legible
  <2> QED
    <3>1. /\ E[Len(E)].kind = "Crosieconst" <=> c.kind = "Ccloseconst"
          /\ E[Len(E)].s <= c.s
      BY ONLY <2>3, <2>4
    <3>2. E[1].s \in Nat /\ E[Len(E)].s \in Nat /\ c.s \in Nat
      BY <2>5, <2>6 DEF Capture
    <3>3. Forward => E[1].s <= c.s
      BY ONLY <2>5, <3>1, <3>2
    <3> QED
      BY <1>1, <2>3, <3>1, <3>3
<1> HIDE DEF c
<1>8. PICK F, p : /\ Layout(F, p)' /\ Nested(F)' /\ Follows(F, Len(F))'
                  /\ Len(F) = Len(E) + 1
                  /\ Len(E) \in Nat /\ F[Len(F)] = c
                  /\ Depth(F, Len(F)) = IF isopencap(c) THEN Len(stack) + 1
                                        ELSE Len(stack) - 1
  <2>1. cap # Len(list) /\ cap < Len(list) /\ Len(E) + 1 = cap
    BY <1>1, <1>6 DEF Enclosed
  <2> QED
    BY <1>1, <1>3, <1>4, <1>5, <1>7, <2>1, WroteOne DEF WroteBy, c
<1>9. Len(stack') = Len(stack) + 1
  <2>1. PICK f : Push(f)
    BY DEF OpenCapture
  <2> QED
    BY <1>1, <2>1 DEF Push
<1>10. Reached(F)'
  BY <1>1, <1>6, <1>8 DEF Reached, c
<1>11. Depth(F, Len(F)) = Len(stack')
  BY <1>1, <1>8, <1>9 DEF c
<1> QED
  BY <1>8, <1>10, <1>11 DEF WroteBy

(* A close is not the last entry of the list. *)
LEMMA CloseBeforeEnd ==
  ASSUME WalkInv, CloseCapture PROVE cap < Len(list)
<1>1. /\ Enclosed(list) /\ list \in Seq(Capture) /\ cap \in 2 .. Len(list)
      /\ ~ isfinalcap(list[cap]) /\ stack \in Seq(Frame) /\ stack # <<>>
      /\ Depth(list, cap - 1) = Len(stack)
  BY DEF CloseCapture, Given, StackTracks, WalkInv, WalkType
<1>2. cap # Len(list)
  BY <1>1 DEF Enclosed
<1> QED
  BY <1>1, <1>2

LEMMA CloseWrites ==
  ASSUME WalkAssumption, WalkInv, ToldInv, WritesInv, CloseCapture,
         call.etype = "byte", Readable(list)
  PROVE  IF pc' = "loop" THEN \E E, pos : WroteBy(E, pos)'
         ELSE \E E, pos : Whole(E, pos)'
<1>1. /\ list # <<>> /\ Enclosed(list) /\ Ordered(list) /\ list \in Seq(Capture)
      /\ cap \in 2 .. Len(list) /\ ~ isopencap(list[cap])
      /\ ~ isfinalcap(list[cap]) /\ stack \in Seq(Frame) /\ stack # <<>>
      /\ cap' = cap + 1 /\ pc = "loop" /\ stack' = Pop
      /\ UNCHANGED <<call, list, r>>
  BY DEF CloseCapture, ToldInv, PlaceInv, ListInv, WalkInv, WalkType,
         StackTracks
<1>2. PICK E, pos : WroteBy(E, pos)
  BY <1>1 DEF WritesInv
<1> DEFINE c == list[cap]
<1>3. Legible(c)
  BY <1>1, ListEntry DEF WalkInv, ToldInv
<1>4. output' = output \o Written(c)
  BY <1>1 DEF CloseCapture, Close, Written
<1>5. Len(E) = cap - 1 /\ E[Len(E)] = list[cap - 1] /\ Len(E) > 0
  BY <1>1, <1>2 DEF WroteBy, Reached
<1>6. /\ E[Len(E)].kind = "Crosieconst" <=> c.kind = "Ccloseconst"
      /\ Forward => E[1].s <= c.s
  <2>2. PICK k \in 1 .. Len(list) - 1 : k = cap - 1
    BY <1>1
  <2>3. k + 1 = cap /\ E[Len(E)] = list[k]
    BY <1>1, <1>5, <2>2
  <2>4. /\ list[k].kind = "Crosieconst" <=> list[k + 1].kind = "Ccloseconst"
        /\ list[k].s <= list[k + 1].s
    BY <1>1, <1>3, <2>3 DEF Ordered, Legible
  <2>5. (Forward => E[1].s <= E[Len(E)].s) /\ E[1] \in Capture /\ E[Len(E)] \in Capture
    <3>1. 1 \in 1 .. Len(E)
      BY <1>1, <1>5
    <3>2. Nested(E) /\ Len(E) \in 1 .. Len(E)
      BY <1>2, <3>1 DEF WroteBy
    <3> QED
      BY ONLY <3>1, <3>2 DEF Nested, Legible
  <2>6. c \in Capture
    BY <1>3 DEF Legible
  <2>7. E[1].s \in Int /\ E[Len(E)].s \in Int /\ c.s \in Int
    BY ONLY <2>5, <2>6 DEF Capture
  <2> QED
    BY ONLY <2>3, <2>4, <2>5, <2>7
<1> HIDE DEF c
<1>7. PICK F, p : /\ Layout(F, p)' /\ Nested(F)' /\ Follows(F, Len(F))'
                  /\ Len(F) = Len(E) + 1
                  /\ Len(E) \in Nat /\ F[Len(F)] = c
                  /\ Depth(F, Len(F)) = IF isopencap(c) THEN Len(stack) + 1
                                        ELSE Len(stack) - 1
  <2>1. /\ Len(E) = 0 => isopencap(c)
        /\ Len(E) > 0 => /\ stack # <<>>
                         /\ E[Len(E)].kind = "Crosieconst"
                              <=> c.kind = "Ccloseconst"
                         /\ Forward => E[1].s <= c.s
    BY <1>1, <1>5, <1>6
  <2>2. /\ Layout(E, pos) /\ Nested(E) /\ Depth(E, Len(E)) = Len(stack)
        /\ Follows(E, Len(E))
    BY <1>2 DEF WroteBy
  <2>3. Len(E) + 1 < Len(list) /\ c = list[Len(E) + 1]
    <3>1. cap < Len(list)
      BY ONLY CloseCapture, WalkInv, CloseBeforeEnd
    <3> QED
      BY <1>1, <1>5, <3>1 DEF c
  <2>4. stack \in Seq(Frame) /\ UNCHANGED <<call, list, r>>
    BY <1>1
  <2>5. IF Len(E) + 1 < Len(list) THEN c = list[Len(E) + 1]
        ELSE c.kind = "Cclose" /\ c.s = list[Len(list)].s
    BY ONLY <2>3
  <2> QED
    BY ONLY WalkAssumption, <1>3, <1>4, <2>1, <2>2, <2>4, <2>5, WroteOne
<1>8. Len(stack') = Len(stack) - 1
  BY <1>1, PopFacts
<1>9. Depth(F, Len(F)) = Len(stack')
  BY <1>1, <1>7, <1>8 DEF c
<1>10. CASE pc' = "loop"
  <2>1. Reached(F)'
    BY <1>1, <1>5, <1>7, <1>10 DEF Reached, c
  <2> QED
    BY <1>7, <1>9, <1>10, <2>1 DEF WroteBy
<1>11. CASE pc' # "loop"
  <2>1. Len(stack) = 1
    BY <1>1, <1>11 DEF CloseCapture
  <2> QED
    BY <1>1, <1>5, <1>7, <1>8, <1>9, <1>11, <2>1 DEF Whole
<1> QED
  BY <1>10, <1>11

LEMMA HaltWrites ==
  ASSUME WalkAssumption, WalkInv, ToldInv, WritesInv, HaltFirst \/ HaltNext,
         call.etype = "byte", Readable(list)
  PROVE  IF pc' = "halting" THEN \E E, pos : WroteBy(E, pos)'
         ELSE \E E, pos : Whole(E, pos)'
<1>1. /\ list # <<>> /\ Enclosed(list) /\ Ordered(list) /\ list \in Seq(Capture)
      /\ cap \in 2 .. Len(list) /\ isfinalcap(list[cap])
      /\ stack \in Seq(Frame) /\ stack # <<>> /\ pc \in {"loop", "halting"}
  BY DEF HaltFirst, HaltNext, ToldInv, PlaceInv, ListInv, WalkInv, WalkType,
         StackTracks, Halting, StackFits
<1>2. PICK start : CloseSynthetic(start, Pop)
  BY DEF HaltFirst, HaltNext
<1>3. PICK prev \in InMemory : output' = output \o Close(Synthetic, prev, start)
  BY <1>2 DEF CloseSynthetic
<1>4. /\ stack' = Pop /\ UNCHANGED <<call, list, r, cap>>
      /\ (Pop = <<>> => pc' \in {"decode", "done"})
      /\ (Pop # <<>> => pc' = "halting")
  BY <1>2, FinishPlace DEF CloseSynthetic
<1>5. PICK E, pos : WroteBy(E, pos)
  BY <1>1 DEF WritesInv
<1>6. PICK c : c = Synthetic
  OBVIOUS
<1>7. /\ Legible(c) /\ c.kind = "Cclose" /\ ~ isopencap(c)
      /\ c.s = list[cap].s /\ cap \in 1 .. Len(list)
  BY <1>1, <1>6, SyntheticEntry DEF WalkInv, ToldInv
<1>8. output' = output \o Written(c)
  BY <1>3, <1>6, <1>7 DEF Close, Written
<1>9. Len(E) > 0 /\ E[Len(E)].kind # "Crosieconst"
  <2>1. CASE pc = "halting"
    BY <1>5, <2>1 DEF WroteBy, Reached
  <2>2. CASE pc = "loop"
    <3>1. Len(E) = cap - 1 /\ E[Len(E)] = list[cap - 1] /\ Len(E) > 0
      BY <1>1, <1>5, <2>2 DEF WroteBy, Reached
    <3>2. PICK k \in 1 .. Len(list) - 1 : k = cap - 1
      BY <1>1
    <3>3. k + 1 = cap /\ E[Len(E)] = list[k]
      BY <1>1, <3>1, <3>2
    <3>4. list[k].kind = "Crosieconst" <=> list[k + 1].kind = "Ccloseconst"
      BY <1>1 DEF Ordered
    <3> QED
      BY <1>1, <3>1, <3>3, <3>4 DEF isfinalcap
  <2> QED
    BY <1>1, <2>1, <2>2
<1>10. Forward => E[1].s <= c.s
  <2>1. SUFFICES ASSUME Forward PROVE E[1].s <= c.s
    OBVIOUS
  <2>2. 1 \in 1 .. Len(E) /\ Nested(E)
    BY <1>5, <1>9 DEF WroteBy, Nested
  <2>3. E[1].s \in first .. r /\ E[1] \in Capture
    BY <2>1, <2>2 DEF Nested, Legible
  <2>4. list[cap].s = r
    BY <1>1 DEF ToldInv, ListInv
  <2>5. E[1].s <= r
    BY <2>3
  <2> QED
    BY <1>7, <2>4, <2>5
<1>n. /\ cap = Len(list) /\ Len(list) \in Nat /\ Len(E) \in Nat
      /\ Len(E) + 1 >= Len(list)
  <2>1. cap = Len(list)
    BY <1>1, <1>7, LastIsFinal
  <2>2. Len(list) \in Nat /\ Len(E) \in Nat
    BY <1>1, <1>5 DEF WroteBy, Nested
  <2>3. pc = "halting" => Len(E) >= Len(list)
    BY <1>5 DEF WroteBy, Reached
  <2>4. pc = "loop" => Len(E) = cap - 1
    BY <1>5 DEF WroteBy, Reached
  <2> QED
    BY <1>1, <2>1, <2>2, <2>3, <2>4
<1>11. PICK F, p : /\ Layout(F, p)' /\ Nested(F)' /\ Follows(F, Len(F))'
                   /\ Len(F) = Len(E) + 1
                   /\ Len(E) \in Nat /\ F[Len(F)] = c
                   /\ Depth(F, Len(F)) = IF isopencap(c) THEN Len(stack) + 1
                                         ELSE Len(stack) - 1
  <2>1. /\ Layout(E, pos) /\ Nested(E) /\ Depth(E, Len(E)) = Len(stack)
    BY <1>5 DEF WroteBy
  <2>2. /\ stack \in Seq(Frame) /\ stack # <<>> /\ UNCHANGED <<call, list, r>>
    BY <1>1, <1>4
  <2>3. E[Len(E)].kind = "Crosieconst" <=> c.kind = "Ccloseconst"
    BY <1>7, <1>9
  <2>4. Len(E) = 0 => isopencap(c)
    BY <1>9
  <2>5. Len(E) > 0 => /\ stack # <<>>
                      /\ E[Len(E)].kind = "Crosieconst" <=> c.kind = "Ccloseconst"
                      /\ Forward => E[1].s <= c.s
    BY <1>10, <2>2, <2>3
  <2>6. Legible(c) /\ output' = output \o Written(c)
    BY <1>7, <1>8
  <2>7. /\ Follows(E, Len(E))
        /\ IF Len(E) + 1 < Len(list) THEN c = list[Len(E) + 1]
           ELSE c.kind = "Cclose" /\ c.s = list[Len(list)].s
    <3>1. ~ (Len(E) + 1 < Len(list))
      BY <1>n
    <3> QED
      BY <1>5, <1>7, <1>n, <3>1 DEF WroteBy
  <2> QED
    BY ONLY WalkAssumption, <2>1, <2>2, <2>4, <2>5, <2>6, <2>7, WroteOne
<1>12. Len(stack') = Len(stack) - 1 /\ Len(stack) \in Nat
  BY <1>1, <1>4, PopFacts
<1>13. Depth(F, Len(F)) = Len(stack')
  BY <1>7, <1>11, <1>12
<1>14. CASE pc' = "halting"
  <2>1. Reached(F)'
    BY <1>4, <1>7, <1>11, <1>14, <1>n DEF Reached
  <2> QED
    BY <1>11, <1>13, <1>14, <2>1 DEF WroteBy
<1>15. CASE pc' # "halting"
  <2>1. Len(stack') = 0
    BY <1>4, <1>15
  <2> QED
    BY <1>11, <1>13, <1>15, <2>1 DEF Whole
<1> QED
  BY <1>14, <1>15

(***************************************************************************)
(* What r_lua_decode reads at the entry after the first k.                 *)
(***************************************************************************)
LEMMA SubSeqIs ==
  ASSUME NEW S, NEW q \in Seq(S), NEW v \in Seq(S), NEW a \in Nat,
         a + Len(v) <= Len(q), \A j \in 1 .. Len(v) : q[a + j] = v[j]
  PROVE  SubSeq(q, a + 1, a + Len(v)) = v
<1>1. Len(v) \in Nat /\ Len(q) \in Nat
  OBVIOUS
<1> DEFINE u == SubSeq(q, a + 1, a + Len(v))
<1>2. u = [j \in 1 .. Len(v) |-> q[a + j]]
  <2>1. (a + Len(v)) - (a + 1) + 1 = Len(v)
    BY <1>1
  <2>2. \A j \in 1 .. Len(v) : (a + 1) + j - 1 = a + j
    BY <1>1
  <2> QED
    BY <1>1, <2>1, <2>2, SubSeqProperties
<1>3. v = [j \in 1 .. Len(v) |-> v[j]]
  OBVIOUS
<1> QED
  BY <1>2, <1>3

LEMMA EntryLaid ==
  ASSUME NEW E, NEW pos, Whole(E, pos), NEW k \in 0 .. Len(E) - 1
  PROVE  /\ k + 1 \in 1 .. Len(E) /\ output \in Seq(Bytes) /\ Len(output) \in Nat
         /\ pos[k] \in Nat /\ pos[k + 1] \in Nat
         /\ pos[k + 1] = pos[k] + Len(Written(E[k + 1]))
         /\ pos[k + 1] <= Len(output)
         /\ \A j \in 1 .. Len(Written(E[k + 1])) :
              output[pos[k] + j] = Written(E[k + 1])[j]
         /\ Legible(E[k + 1]) /\ (Forward => E[1].s <= E[k + 1].s)
<1>1. /\ k + 1 \in 1 .. Len(E) /\ k \in 0 .. Len(E) /\ k + 1 \in 0 .. Len(E)
      /\ (k + 1) - 1 = k
  BY DEF Whole, Nested
<1>2. output \in Seq(Bytes) /\ pos \in [0 .. Len(E) -> Nat]
  BY DEF Whole, Layout
<1>3. pos[k] \in Nat /\ pos[k + 1] \in Nat
  BY ONLY <1>1, <1>2
<1>4. PICK m \in 1 .. Len(E) : m = k + 1 /\ m - 1 = k
  BY <1>1
<1>5. /\ pos[m] = pos[m - 1] + Len(Written(E[m])) /\ pos[m] <= Len(output)
      /\ \A j \in 1 .. Len(Written(E[m])) :
           output[pos[m - 1] + j] = Written(E[m])[j]
  BY DEF Whole, Layout
<1>6. Legible(E[m]) /\ (Forward => E[1].s <= E[m].s)
  BY DEF Whole, Nested
<1>7. Len(output) \in Nat
  BY ONLY <1>2
<1> QED
  BY <1>1, <1>2, <1>3, <1>4, <1>5, <1>6, <1>7

LEMMA EntryBytes ==
  ASSUME WalkAssumption, NEW E, NEW pos, Whole(E, pos),
         NEW k \in 0 .. Len(E) - 1, NEW v \in Seq(Bytes), NEW t \in Nat,
         t + Len(v) <= Len(Written(E[k + 1])),
         \A j \in 1 .. Len(v) : Written(E[k + 1])[t + j] = v[j]
  PROVE  /\ SubSeq(output, pos[k] + t + 1, pos[k] + t + Len(v)) = v
         /\ pos[k] + t + Len(v) <= Len(output)
<1> DEFINE w == Written(E[k + 1])
<1>1. /\ Legible(E[k + 1]) /\ output \in Seq(Bytes) /\ Len(output) \in Nat
      /\ pos[k] \in Nat /\ pos[k + 1] = pos[k] + Len(w)
      /\ pos[k + 1] <= Len(output)
      /\ \A j \in 1 .. Len(w) : output[pos[k] + j] = w[j]
  BY EntryLaid
<1>2. w \in Seq(Bytes) /\ Len(w) \in Nat /\ Len(v) \in Nat
  BY <1>1, WrittenBytes
<1>3. output \in Seq(Bytes) /\ Len(output) \in Nat
  BY <1>1
<1>5. PICK a \in Nat : a = pos[k]
  BY <1>1
<1> HIDE DEF w
<1>6. /\ a + Len(w) <= Len(output)
      /\ \A j \in 1 .. Len(w) : output[a + j] = w[j]
  BY <1>1, <1>5
<1>7. t + Len(v) <= Len(w) /\ \A j \in 1 .. Len(v) : w[t + j] = v[j]
  BY DEF w
<1>8. ASSUME NEW j \in 1 .. Len(v) PROVE output[(a + t) + j] = v[j]
  <2>1. PICK i \in 1 .. Len(w) : i = t + j
    BY <1>2, <1>7
  <2>2. output[a + i] = w[i] /\ w[i] = v[j]
    BY <1>6, <1>7, <2>1
  <2>3. a + i = (a + t) + j
    BY <2>1
  <2> QED
    BY <2>2, <2>3
<1>9. a + t \in Nat /\ (a + t) + Len(v) <= Len(output)
  BY <1>2, <1>3, <1>6, <1>7
<1>10. SubSeq(output, (a + t) + 1, (a + t) + Len(v)) = v
  BY <1>3, <1>8, <1>9, SubSeqIs
<1> QED
  BY <1>5, <1>9, <1>10

(* The length of a name, as it is read. *)
LEMMA LengthRead ==
  ASSUME WalkAssumption, NEW c, Legible(c)
  PROVE  /\ c.kind \in {"Crosiecap", "Ccloseconst"} =>
              buf_peekshort(short_to_string(Len(Name[c.idx]))) = Len(Name[c.idx])
         /\ c.kind = "Crosieconst" =>
              buf_peekshort(short_to_string(-Len(Name[c.idx])))
                = -Len(Name[c.idx])
         /\ c.kind = "Crosiecap" => Len(Name[c.idx]) # 0
BY ShortsReadBack DEF Legible, NameRead

LEMMA PositionRead ==
  ASSUME NEW c, Legible(c)
  PROVE  /\ c.s \in Nat
         /\ string_to_int(int_to_string(c.s + 1)) = c.s + 1
         /\ string_to_int(int_to_string(-(c.s + 1))) = -(c.s + 1)
<1>1. c.s \in Nat
  BY DEF Legible, Capture
<1>2. c.s + 1 \in Ints /\ -(c.s + 1) \in Ints
  BY <1>1, PositionIsInt DEF Legible
<1> QED
  BY <1>1, <1>2, IntsReadBack

LEMMA ReadOpen ==
  ASSUME WalkAssumption, NEW E, NEW pos, Whole(E, pos),
         NEW k \in 0 .. Len(E) - 1, isopencap(E[k + 1]), at = pos[k] + 1
  PROVE  /\ ReadInt(at) = -(E[k + 1].s + 1) /\ ReadInt(at) < 0
         /\ check_bounds(at, 4)
         /\ E[k + 1].kind = "Crosiecap" =>
              ~ IsConst /\ AfterName = pos[k + 1] + 1
         /\ E[k + 1].kind = "Crosieconst" =>
              IsConst /\ AfterName = pos[k + 1] + 1
<1> DEFINE c == E[k + 1]
           w == Written(c)
           n == Len(Name[c.idx])
           i == int_to_string(-(c.s + 1))
           x == IF c.kind = "Crosieconst" THEN -n ELSE n
           s == short_to_string(x)
<1>1. /\ Legible(c) /\ pos[k] \in Nat /\ pos[k + 1] = pos[k] + Len(w)
      /\ Len(output) \in Nat /\ pos[k + 1] <= Len(output)
  BY ONLY k \in 0 .. Len(E) - 1, Whole(E, pos), EntryLaid
<1>2. /\ w \in Seq(Bytes) /\ Len(w) = 6 + n
      /\ \A j \in 1 .. 4 : w[j] = i[j] /\ \A h \in 1 .. 2 : w[4 + h] = s[h]
  BY <1>1, OpenPieces
<1>3. n \in Nat /\ c.s \in Nat
  BY <1>1, NamesAreBytes, PositionRead DEF Legible, isopencap
<1>4. i \in Seq(Bytes) /\ Len(i) = 4 /\ s \in Seq(Bytes) /\ Len(s) = 2
  <2>1. -(c.s + 1) \in Int /\ x \in Int
    BY <1>3
  <2> QED
    BY <2>1, IntBytes, ShortBytes
<1>5. /\ c.kind = "Crosiecap" => buf_peekshort(s) = n /\ n # 0
      /\ c.kind = "Crosieconst" => buf_peekshort(s) = -n
  BY <1>1, LengthRead
<1>6. string_to_int(i) = -(c.s + 1)
  BY <1>1, PositionRead
<1> HIDE DEF i, s, x, n
<1>7. SubSeq(output, pos[k] + 0 + 1, pos[k] + 0 + Len(i)) = i
  <2>1. PICK t \in Nat : t = 0
    OBVIOUS
  <2>2. t + Len(i) <= Len(w) /\ \A j \in 1 .. Len(i) : w[t + j] = i[j]
    BY <1>2, <1>3, <1>4, <2>1
  <2>3. SubSeq(output, pos[k] + t + 1, pos[k] + t + Len(i)) = i
    <3>1. \A v \in Seq(Bytes) :
            (t + Len(v) <= Len(w) /\ \A j \in 1 .. Len(v) : w[t + j] = v[j])
              => SubSeq(output, pos[k] + t + 1, pos[k] + t + Len(v)) = v
      BY EntryBytes
    <3> QED
      BY ONLY <1>4, <2>2, <3>1
  <2> QED
    BY <2>1, <2>3
<1>8. SubSeq(output, pos[k] + 4 + 1, pos[k] + 4 + Len(s)) = s
  <2>1. PICK t \in Nat : t = 4
    OBVIOUS
  <2>2. t + Len(s) <= Len(w) /\ \A j \in 1 .. Len(s) : w[t + j] = s[j]
    BY <1>2, <1>3, <1>4, <2>1
  <2>3. SubSeq(output, pos[k] + t + 1, pos[k] + t + Len(s)) = s
    <3>1. \A v \in Seq(Bytes) :
            (t + Len(v) <= Len(w) /\ \A j \in 1 .. Len(v) : w[t + j] = v[j])
              => SubSeq(output, pos[k] + t + 1, pos[k] + t + Len(v)) = v
      BY EntryBytes
    <3> QED
      BY ONLY <1>4, <2>2, <3>1
  <2> QED
    BY <2>1, <2>3
<1> HIDE DEF w, c
<1>9. /\ pos[k] + 0 + 1 = at /\ pos[k] + 0 + Len(i) = at + 3
      /\ pos[k] + 4 + 1 = at + 4 /\ pos[k] + 4 + Len(s) = (at + 4) + 1
  <2>1. Len(i) = 4 /\ Len(s) = 2
    BY ONLY <1>4
  <2>2. pos[k] \in Nat
    BY ONLY <1>1
  <2> QED
    BY ONLY <2>1, <2>2, at = pos[k] + 1
<1>10. ReadInt(at) = -(c.s + 1) /\ ReadInt(at) < 0
  <2>1. ReadInt(at) = -(c.s + 1)
    BY ONLY <1>6, <1>7, <1>9, Zenon DEF ReadInt
  <2> QED
    BY ONLY <1>3, <2>1
<1>11. NameLen = buf_peekshort(s)
  BY <1>8, <1>9 DEF NameLen, ReadShort
<1>12. check_bounds(at, 4) /\ pos[k + 1] + 1 = at + 6 + n
  <2>1. Len(w) = 6 + n /\ n \in Nat
    BY ONLY <1>2, <1>3
  <2>2. PICK p, q, z \in Nat : p = pos[k] /\ q = pos[k + 1] /\ z = Len(output)
    BY ONLY <1>1, <1>2, <1>3
  <2>3. q = p + (6 + n) /\ q <= z /\ at = p + 1
    BY ONLY <1>1, <2>1, <2>2, at = pos[k] + 1
  <2>n. n \in Nat
    BY ONLY <2>1
  <2>4. at + 4 <= z + 1 /\ q + 1 = at + 6 + n
    BY ONLY <2>n, <2>3
  <2>5. at + 4 <= Len(output) + 1
    BY ONLY <2>2, <2>4
  <2> QED
    BY ONLY <2>2, <2>4, <2>5 DEF check_bounds
<1>13. c.kind = "Crosiecap" => ~ IsConst /\ AfterName = pos[k + 1] + 1
  BY <1>3, <1>5, <1>11, <1>12 DEF IsConst, AfterName
<1>14. c.kind = "Crosieconst" => IsConst /\ AfterName = pos[k + 1] + 1
  BY <1>3, <1>5, <1>11, <1>12 DEF IsConst, AfterName
<1> QED
  BY <1>10, <1>12, <1>13, <1>14 DEF c

LEMMA ReadClose ==
  ASSUME WalkAssumption, NEW E, NEW pos, Whole(E, pos),
         NEW k \in 0 .. Len(E) - 1, ~ isopencap(E[k + 1]),
         NEW a, a = pos[k] + 1 + Skip(E[k + 1])
  PROVE  /\ ReadInt(a) = E[k + 1].s + 1 /\ ~ (ReadInt(a) < 0)
         /\ check_bounds(a, 4) /\ a + 4 = pos[k + 1] + 1 /\ a \in Nat \ {0}
         /\ E[k + 1].kind = "Ccloseconst" =>
              ReadShort(pos[k] + 1) = Len(Name[E[k + 1].idx])
<1> DEFINE c == E[k + 1]
           w == Written(c)
           n == Len(Name[c.idx])
           i == int_to_string(c.s + 1)
           s == short_to_string(n)
           t == Skip(c)
<1>1. /\ Legible(c) /\ pos[k] \in Nat /\ pos[k + 1] = pos[k] + Len(w)
      /\ Len(output) \in Nat /\ pos[k + 1] <= Len(output)
  BY ONLY k \in 0 .. Len(E) - 1, Whole(E, pos), EntryLaid
<1>2. /\ w \in Seq(Bytes) /\ t \in Nat /\ Len(w) = t + 4
      /\ \A j \in 1 .. 4 : w[t + j] = i[j]
      /\ c.kind = "Ccloseconst" => \A j \in 1 .. 2 : w[j] = s[j]
  BY <1>1, ClosePieces
<1>3. c.s \in Nat /\ string_to_int(i) = c.s + 1
  BY <1>1, PositionRead
<1>4. i \in Seq(Bytes) /\ Len(i) = 4
  BY <1>3, IntBytes
<1>5. SubSeq(output, pos[k] + t + 1, pos[k] + t + Len(i)) = i
  <2> HIDE DEF i, t
  <2>1. PICK z \in Nat : z = t
    BY <1>2
  <2>2. z + Len(i) <= Len(w) /\ \A j \in 1 .. Len(i) : w[z + j] = i[j]
    BY ONLY <1>2, <1>4, <2>1
  <2>3. \A v \in Seq(Bytes) :
          (z + Len(v) <= Len(w) /\ \A j \in 1 .. Len(v) : w[z + j] = v[j])
            => SubSeq(output, pos[k] + z + 1, pos[k] + z + Len(v)) = v
    BY ONLY WalkAssumption, k \in 0 .. Len(E) - 1, Whole(E, pos), EntryBytes
  <2>4. SubSeq(output, pos[k] + z + 1, pos[k] + z + Len(i)) = i
    BY ONLY <1>4, <2>2, <2>3
  <2> QED
    BY <2>1, <2>4
<1>6. c.kind = "Ccloseconst" => ReadShort(pos[k] + 1) = n
  <2>1. SUFFICES ASSUME c.kind = "Ccloseconst"
                 PROVE  ReadShort(pos[k] + 1) = n
    OBVIOUS
  <2>2. n \in Nat /\ t = 2 + n
    BY <1>1, <2>1, NamesAreBytes DEF Legible, Skip
  <2>3. s \in Seq(Bytes) /\ Len(s) = 2 /\ buf_peekshort(s) = n
    <3>1. n \in Int /\ c.kind \in {"Crosiecap", "Ccloseconst"}
      BY <2>1, <2>2
    <3>2. buf_peekshort(s) = n
      BY <1>1, <3>1, LengthRead
    <3> QED
      BY <3>1, <3>2, ShortBytes
  <2> HIDE DEF s, t, n, i
  <2>4. SubSeq(output, pos[k] + 0 + 1, pos[k] + 0 + Len(s)) = s
    <3>1. PICK z \in Nat : z = 0
      OBVIOUS
    <3>2. z + Len(s) <= Len(w) /\ \A j \in 1 .. Len(s) : w[z + j] = s[j]
      <4>1. Len(s) = 2 /\ Len(w) = t + 4 /\ t \in Nat
        BY <1>2, <2>3
      <4>2. \A j \in 1 .. 2 : w[j] = s[j] /\ z + j = j
        BY <1>2, <2>1, <3>1
      <4> QED
        BY ONLY <3>1, <4>1, <4>2
    <3>3. SubSeq(output, pos[k] + z + 1, pos[k] + z + Len(s)) = s
      <4>1. \A v \in Seq(Bytes) :
              (z + Len(v) <= Len(w) /\ \A j \in 1 .. Len(v) : w[z + j] = v[j])
                => SubSeq(output, pos[k] + z + 1, pos[k] + z + Len(v)) = v
        BY ONLY WalkAssumption, k \in 0 .. Len(E) - 1, Whole(E, pos), EntryBytes
      <4> QED
        BY ONLY <2>3, <3>2, <4>1
    <3> QED
      BY <3>1, <3>3
  <2>5. pos[k] + 0 + 1 = pos[k] + 1 /\ pos[k] + 0 + Len(s) = (pos[k] + 1) + 1
    BY <1>1, <2>3
  <2> QED
    BY <2>3, <2>4, <2>5 DEF ReadShort
<1> HIDE DEF w, i, s, n
<1>7. a = pos[k] + t + 1 /\ a + 3 = pos[k] + t + Len(i) /\ a \in Nat \ {0}
  <2>1. Len(i) = 4 /\ t \in Nat
    BY ONLY <1>2, <1>4
  <2>2. pos[k] \in Nat
    BY ONLY <1>1
  <2> QED
    BY ONLY <2>1, <2>2, a = pos[k] + 1 + t
<1>8. ReadInt(a) = c.s + 1
  BY <1>3, <1>5, <1>7 DEF ReadInt
<1>9. ~ (ReadInt(a) < 0)
  BY <1>3, <1>8
<1>10. check_bounds(a, 4) /\ a + 4 = pos[k + 1] + 1
  <2>1. Len(w) = t + 4 /\ t \in Nat
    BY ONLY <1>2
  <2>2. PICK p, q, z \in Nat : p = pos[k] /\ q = pos[k + 1] /\ z = Len(output)
    BY ONLY <1>1, <1>2
  <2>3. q = p + (t + 4) /\ q <= z /\ a = p + 1 + t
    BY ONLY <1>1, <2>1, <2>2, a = pos[k] + 1 + t
  <2>n. t \in Nat
    BY ONLY <2>1
  <2>4. a + 4 <= z + 1 /\ q + 1 = a + 4
    BY ONLY <2>n, <2>3
  <2>5. a + 4 <= Len(output) + 1
    BY ONLY <2>2, <2>4
  <2> QED
    BY ONLY <2>2, <2>4, <2>5 DEF check_bounds
<1> QED
  BY <1>6, <1>7, <1>8, <1>9, <1>10 DEF n

(* Inside the data the bytes are those of the output. *)
LEMMA BytesHere ==
  ASSUME output \in Seq(Bytes), NEW a \in Nat \ {0}, check_bounds(a, 4),
         NEW d \in BytesAt(a, 4)
  PROVE  string_to_int(d) = ReadInt(a)
<1>1. Len(output) \in Nat /\ a + 3 <= Len(output)
  BY DEF check_bounds
<1>2. \A j \in 1 .. 4 : d[j] = output[a + j - 1]
  BY <1>1 DEF BytesAt
<1>3. \A j \in 1 .. 4 : SubSeq(output, a, a + 3)[j] = output[a + j - 1]
  BY <1>1, SubSeqProperties
<1>4. \A j \in 1 .. 4 : d[j] = SubSeq(output, a, a + 3)[j]
  BY <1>2, <1>3
<1> QED
  BY <1>4 DEF string_to_int, ReadInt

(***************************************************************************)
(* Where r_lua_decode is in the output: after k entries, with a table for  *)
(* each capture that is open there.                                        *)
(***************************************************************************)
TableAt(E, i, q) ==
  [s |-> E[i].s + 1, type |-> Name[E[i].idx],
   data |-> IF E[i].kind = "Crosieconst" THEN <<Name[E[i + 1].idx]>> ELSE <<>>,
   subs |-> [m \in DOMAIN q |-> Nodes(list)[q[m]]], e |-> 0]

Tables(E, k) ==
  \E op, ch :
    /\ Path(E, k, op, ch)
    /\ frames = [d \in 1 .. Depth(E, k) |-> TableAt(E, op[d], ch[d])]

ReadTo(E, pos, k) ==
  /\ k \in 0 .. Len(E) - 1 /\ Len(frames) = Depth(E, k) /\ Tables(E, k)
  /\ IF pc = "decode" THEN at = pos[k] + 1 /\ isopencap(E[k + 1])
     ELSE at = pos[k] + 1 + Skip(E[k + 1]) /\ frames # <<>>

DecodesInv ==
  pc \in {"decode", "subs"} /\ Readable(list) =>
    \E E, pos : Whole(E, pos) /\ \E k : ReadTo(E, pos, k)

FramesInv ==
  Answered /\ Readable(list) /\ Forward =>
    \A i \in DOMAIN frames : /\ first + 1 <= frames[i].s
                             /\ frames[i].s <= frames[i].e
                             /\ frames[i].e <= r + 1

(* The decoder starts at the first entry, which opens the outer capture.   *)
LEMMA DecodeStarts ==
  ASSUME NEW E, NEW pos, Whole(E, pos)', pc' = "decode", at' = 1, frames' = <<>>
  PROVE  \E k : ReadTo(E, pos, k)'
<1>1. Len(E) \in Nat \ {0} /\ isopencap(E[1]) /\ pos[0] = 0
  BY DEF Whole, Nested, Layout
<1>2. Tables(E, 0)'
  <2>1. PICK op, ch : op = <<>> /\ ch = <<>>
    OBVIOUS
  <2>2. Path(E, 0, op, ch)
    BY EmptyPath
  <2>3. frames' = [d \in 1 .. Depth(E, 0) |-> TableAt(E, op[d], ch[d])']
    BY DepthOfNone
  <2> QED
    BY <2>2, <2>3 DEF Tables
<1>3. Len(frames') = Depth(E, 0)
  BY DepthOfNone
<1>4. PICK k : k = 0
  OBVIOUS
<1>5. k \in 0 .. Len(E) - 1 /\ k + 1 = 1 /\ at' = pos[k] + 1
  BY <1>1, <1>4
<1> QED
  BY <1>1, <1>2, <1>3, <1>4, <1>5 DEF ReadTo

(* Behind an entry there is another one as long as a capture is open, and  *)
(* it is the data of a constant only behind the head of a constant.        *)
LEMMA NextEntry ==
  ASSUME NEW E, NEW pos, Whole(E, pos), NEW k \in 0 .. Len(E) - 1,
         Depth(E, k + 1) > 0
  PROVE  /\ k + 1 \in 0 .. Len(E) - 1
         /\ E[k + 1].kind = "Crosieconst" <=> E[(k + 1) + 1].kind = "Ccloseconst"
<1>1. Len(E) \in Nat /\ Depth(E, Len(E)) = 0
  BY DEF Whole, Nested
<1>2. k + 1 # Len(E)
  BY <1>1
<1>3. k + 1 \in 1 .. Len(E) - 1
  BY <1>1, <1>2
<1> QED
  BY <1>1, <1>3 DEF Whole, Nested

LEMMA DepthInside ==
  ASSUME NEW E, NEW pos, Whole(E, pos), NEW k \in 0 .. Len(E) - 1
  PROVE  /\ Depth(E, k) \in Int /\ (Depth(E, k) = 0 => k = 0)
         /\ Depth(E, k + 1) = IF isopencap(E[k + 1]) THEN Depth(E, k) + 1
                              ELSE Depth(E, k) - 1
<1>1. k \in Nat
  OBVIOUS
<1>2. k # 0 => k \in 1 .. Len(E) - 1
  BY DEF Whole, Nested
<1>3. k # 0 => Depth(E, k) > 0
  BY <1>2 DEF Whole, Nested
<1>4. /\ Depth(E, k) \in Int
      /\ Depth(E, k + 1) = IF isopencap(E[k + 1]) THEN Depth(E, k) + 1
                           ELSE Depth(E, k) - 1
  BY ONLY <1>1, DepthOfNext
<1>5. Depth(E, k) = 0 => k = 0
  BY <1>3, <1>4
<1> QED
  BY <1>4, <1>5

(* The first capture that is open is the first entry, if there is no other *)
(* outermost one.                                                          *)
LEMMA OuterIsFirst ==
  ASSUME NEW E, NEW k \in Nat, \A h \in 1 .. k - 1 : Depth(E, h) > 0,
         NEW op, NEW ch, Path(E, k, op, ch), Depth(E, k) > 0
  PROVE  op[1] = 1
<1>1. OpenAt(E, k, 1, op[1])
  BY DEF Path
<1>2. SUFFICES ASSUME op[1] # 1 PROVE FALSE
  OBVIOUS
<1>3. PICK h \in 1 .. k - 1 : op[1] = h + 1
  <2>1. PICK i \in 1 .. k : i = op[1]
    BY <1>1 DEF OpenAt
  <2>2. i - 1 \in 1 .. k - 1 /\ i = (i - 1) + 1
    BY <1>2, <2>1
  <2> QED
    BY <2>1, <2>2
<1>4. Depth(E, h) = 0
  <2>1. h \in Nat /\ isopencap(E[h + 1]) /\ Depth(E, h + 1) = 1
    BY <1>1, <1>3 DEF OpenAt
  <2>2. Depth(E, h) \in Int /\ Depth(E, h + 1) = Depth(E, h) + 1
    BY ONLY <2>1, DepthOfNext
  <2> QED
    BY ONLY <2>1, <2>2
<1> QED
  BY <1>4

(* The outermost capture is the first entry. *)
LEMMA Outermost ==
  ASSUME NEW E, NEW pos, Whole(E, pos), NEW k \in 0 .. Len(E) - 1,
         NEW op, NEW ch, Path(E, k, op, ch), Depth(E, k) > 0
  PROVE  op[1] = 1
<1>1. \A h \in 1 .. k - 1 : Depth(E, h) > 0
  BY DEF Whole, Nested
<1>2. k \in Nat
  OBVIOUS
<1> QED
  BY <1>1, <1>2, OuterIsFirst

(* A function on 1 .. n is a sequence. *)
LEMMA MapIsSeq ==
  ASSUME NEW n \in Nat, NEW f, f = [m \in 1 .. n |-> f[m]], NEW t
  PROVE  /\ \E S : f \in Seq(S)
         /\ Len(f) = n
         /\ Append(f, t) = [m \in 1 .. n + 1 |-> IF m = n + 1 THEN t ELSE f[m]]
<1>1. PICK S : S = {f[m] : m \in 1 .. n} \cup {t}
  OBVIOUS
<1>2. \A m \in 1 .. n : f[m] \in S
  BY <1>1
<1>3. f \in [1 .. n -> S]
  BY <1>2
<1>4. f \in Seq(S) /\ Len(f) = n /\ t \in S
  BY <1>1, <1>3
<1> QED
  BY <1>4

(* A table with its end, and one with another table in it. *)
LEMMA TableParts ==
  ASSUME NEW s, NEW type, NEW data, NEW subs, NEW e, NEW x,
         NEW t, t = [s |-> s, type |-> type, data |-> data, subs |-> subs,
                     e |-> e]
  PROVE  /\ DOMAIN t = {"s", "type", "data", "subs", "e"}
         /\ t.s = s /\ t.subs = subs
         /\ [t EXCEPT !.e = x] = [s |-> s, type |-> type, data |-> data,
                                  subs |-> subs, e |-> x]
         /\ [t EXCEPT !.subs = x] = [s |-> s, type |-> type, data |-> data,
                                     subs |-> x, e |-> e]
OBVIOUS

LEMMA TablesKept ==
  ASSUME NEW E, NEW k, Tables(E, k), UNCHANGED <<list, frames>>
  PROVE  Tables(E, k)'
<1>1. PICK op, ch :
        /\ Path(E, k, op, ch)
        /\ frames = [d \in 1 .. Depth(E, k) |-> TableAt(E, op[d], ch[d])]
  BY DEF Tables
<1>2. frames' = [d \in 1 .. Depth(E, k) |-> TableAt(E, op[d], ch[d])']
  BY <1>1 DEF TableAt
<1> QED
  BY <1>1, <1>2 DEF Tables

LEMMA TablesAre ==
  ASSUME NEW E, NEW pos, Whole(E, pos), NEW k \in 0 .. Len(E) - 1,
         Tables(E, k)
  PROVE  /\ \E S : frames \in Seq(S)
         /\ Len(frames) = Depth(E, k)
         /\ \A i \in 1 .. Len(frames) :
              {"s", "e", "subs"} \subseteq DOMAIN frames[i]
         /\ frames # <<>> => frames[1].s = E[1].s + 1
<1>1. PICK op, ch :
        /\ Path(E, k, op, ch)
        /\ frames = [d \in 1 .. Depth(E, k) |-> TableAt(E, op[d], ch[d])]
  BY DEF Tables
<1>2. PICK n \in Nat : n = Depth(E, k)
  BY <1>1 DEF Path
<1>3. PICK f : f = [d \in 1 .. n |-> TableAt(E, op[d], ch[d])]
  OBVIOUS
<1>4. frames = f /\ \A d \in 1 .. n : f[d] = TableAt(E, op[d], ch[d])
  BY <1>1, <1>2, <1>3
<1>5. (\E S : f \in Seq(S)) /\ Len(f) = n
  BY <1>3, MapIsSeq
<1>6. ASSUME NEW d \in 1 .. n
      PROVE  {"s", "e", "subs"} \subseteq DOMAIN f[d] /\ f[d].s = E[op[d]].s + 1
  <2>1. PICK t : t = TableAt(E, op[d], ch[d])
    OBVIOUS
  <2>2. DOMAIN t = {"s", "type", "data", "subs", "e"} /\ t.s = E[op[d]].s + 1
    BY <2>1, TableParts DEF TableAt
  <2> QED
    BY <1>4, <2>1, <2>2
<1>7. n > 0 => f[1].s = E[1].s + 1
  <2>1. n > 0 => op[1] = 1
    BY <1>1, <1>2, Outermost
  <2> QED
    BY <1>6, <2>1
<1>8. f # <<>> => n > 0
  BY <1>3
<1> QED
  BY <1>2, <1>4, <1>5, <1>6, <1>7, <1>8

(* The table of the innermost capture, with its end, is what the tree has  *)
(* for this capture.                                                       *)
LEMMA TableDone ==
  ASSUME list \in Seq(Capture), NEW E, NEW pos, Whole(E, pos),
         NEW k \in 0 .. Len(E) - 1, ~ isopencap(E[k + 1]),
         NEW op, NEW ch, Path(E, k, op, ch), NEW n, n = Depth(E, k), n > 0
  PROVE  [TableAt(E, op[n], ch[n]) EXCEPT !.e = E[k + 1].s + 1]
           = Nodes(list)[op[n]]
<1>1. PICK i, c : i = op[n] /\ c = CloseOf(list, i)
  OBVIOUS
<1>2. Follows(E, k + 1) /\ k \in Nat
  BY DEF Whole, Follows, Nested
<1>3. /\ i \in 1 .. k /\ i \in 1 .. Len(list) - 1 /\ E[i] = list[i]
      /\ list[c].s = E[k + 1].s
      /\ E[k + 1].kind # "Cclose" => list[c] = E[k + 1]
      /\ Inside(list, i) = ch[n]
  BY <1>1, <1>2, ClosesAt
<1>4. Nodes(list)[i] = TreeNode(list, i, Nodes(list))
  <2>1. i \in DOMAIN list
    BY <1>3
  <2> QED
    BY <2>1, TreeIs
<1>5. E[i].kind = "Crosieconst" => E[i + 1] = list[c]
  <2>1. SUFFICES ASSUME E[i].kind = "Crosieconst" PROVE E[i + 1] = list[c]
    OBVIOUS
  <2>2. n \in 1 .. n /\ n \in Nat
    BY DEF Path
  <2>3. OpenAt(E, k, n, i)
    BY <1>1, <2>2 DEF Path
  <2>4. i \in 1 .. Len(E) - 1
    BY <1>3
  <2>5. E[i + 1].kind = "Ccloseconst"
    BY <2>1, <2>4 DEF Whole, Nested
  <2>6. Depth(E, i) = n /\ i \in Nat /\ ~ isopencap(E[i + 1])
    BY <2>3, <2>4, <2>5 DEF OpenAt, isopencap
  <2>7. Depth(E, i + 1) = n - 1
    BY ONLY <2>6, DepthOfNext
  <2>8. i = k
    <3>1. i + 1 \in i .. k => Depth(E, i + 1) >= n
      BY <2>3 DEF OpenAt
    <3>2. ~ (i + 1 \in i .. k)
      BY ONLY <2>2, <2>7, <3>1
    <3> QED
      BY ONLY <1>2, <1>3, <3>2
  <2> QED
    BY <1>3, <2>5, <2>8
<1>6. TreeNode(list, i, Nodes(list))
        = [s |-> E[i].s + 1, type |-> Name[E[i].idx],
           data |-> IF E[i].kind = "Crosieconst"
                    THEN <<Name[E[i + 1].idx]>> ELSE <<>>,
           subs |-> [m \in DOMAIN ch[n] |-> Nodes(list)[ch[n][m]]],
           e |-> E[k + 1].s + 1]
  BY <1>1, <1>3, <1>5 DEF TreeNode
<1>7. PICK t : t = TableAt(E, i, ch[n])
  OBVIOUS
<1>8. [t EXCEPT !.e = E[k + 1].s + 1]
        = [s |-> E[i].s + 1, type |-> Name[E[i].idx],
           data |-> IF E[i].kind = "Crosieconst"
                    THEN <<Name[E[i + 1].idx]>> ELSE <<>>,
           subs |-> [m \in DOMAIN ch[n] |-> Nodes(list)[ch[n][m]]],
           e |-> E[k + 1].s + 1]
  <2>1. PICK v, y, w, z, x :
          /\ v = E[i].s + 1 /\ y = Name[E[i].idx]
          /\ w = (IF E[i].kind = "Crosieconst" THEN <<Name[E[i + 1].idx]>>
                  ELSE <<>>)
          /\ z = [m \in DOMAIN ch[n] |-> Nodes(list)[ch[n][m]]]
          /\ x = E[k + 1].s + 1
    OBVIOUS
  <2>2. t = [s |-> v, type |-> y, data |-> w, subs |-> z, e |-> 0]
    BY <1>7, <2>1, Zenon DEF TableAt
  <2>3. [t EXCEPT !.e = x] = [s |-> v, type |-> y, data |-> w, subs |-> z, e |-> x]
    BY ONLY <2>2, TableParts
  <2> QED
    BY ONLY <2>1, <2>3, Zenon
<1> QED
  BY <1>1, <1>4, <1>6, <1>7, <1>8, Zenon

LEMMA MapAppend ==
  ASSUME NEW q \in Seq(Int), NEW x \in Int, NEW f
  PROVE  Append([m \in DOMAIN q |-> f[q[m]]], f[x])
           = [m \in DOMAIN Append(q, x) |-> f[Append(q, x)[m]]]
<1>1. PICK n \in Nat : n = Len(q) /\ DOMAIN q = 1 .. n
  OBVIOUS
<1>2. PICK p : p = Append(q, x)
  OBVIOUS
<1>3. /\ DOMAIN p = 1 .. n + 1 /\ p[n + 1] = x
      /\ \A m \in 1 .. n : p[m] = q[m]
  <2>1. /\ p \in Seq(Int) /\ Len(p) = n + 1 /\ p[n + 1] = x
        /\ \A m \in 1 .. n : p[m] = q[m]
    BY <1>1, <1>2, AppendIs
  <2> QED
    BY <2>1
<1>4. PICK g : g = [m \in 1 .. n |-> f[q[m]]]
  OBVIOUS
<1>6. PICK h : h = Append(g, f[x])
  OBVIOUS
<1>7. h = [m \in 1 .. n + 1 |-> IF m = n + 1 THEN f[x] ELSE g[m]]
  BY <1>4, <1>6, MapIsSeq
<1>8. [m \in 1 .. n + 1 |-> IF m = n + 1 THEN f[x] ELSE g[m]]
        = [m \in 1 .. n + 1 |-> f[p[m]]]
  BY <1>3, <1>4
<1> QED
  BY <1>1, <1>2, <1>3, <1>4, <1>6, <1>7, <1>8

(* Where the name is in an entry that has one, and what is behind it. *)
NameAt(c)    == IF isopencap(c) THEN 6 ELSE 2
BehindIt(c)  == IF isopencap(c) THEN 0 ELSE 4

NameLies(E, pos, k, t, n) ==
  /\ n \in Nat /\ pos[k] \in Nat /\ Len(output) \in Nat
  /\ SubSeq(output, pos[k] + t + 1, pos[k] + t + n) = Name[E[k + 1].idx]
  /\ pos[k] + t + n + BehindIt(E[k + 1]) = pos[k + 1]
  /\ pos[k + 1] <= Len(output)

(* The name of a capture, and the data of a constant, as they are read. *)
LEMMA ReadName ==
  ASSUME WalkAssumption, NEW E, NEW pos, Whole(E, pos),
         NEW k \in 0 .. Len(E) - 1,
         isopencap(E[k + 1]) \/ E[k + 1].kind = "Ccloseconst",
         NEW t, t = NameAt(E[k + 1]),
         NEW n, n = Len(Name[E[k + 1].idx])
  PROVE  NameLies(E, pos, k, t, n)
<1> DEFINE c == E[k + 1]
           w == Written(c)
           v == Name[c.idx]
<1>1. /\ Legible(c) /\ pos[k] \in Nat /\ pos[k + 1] = pos[k] + Len(w)
      /\ Len(output) \in Nat /\ pos[k + 1] <= Len(output)
  BY ONLY k \in 0 .. Len(E) - 1, Whole(E, pos), EntryLaid
<1>2. v \in Seq(Bytes) /\ Len(v) = n /\ n \in Nat
  BY <1>1, NamesAreBytes DEF Legible, isopencap
<1>3. /\ Len(w) = t + n + BehindIt(c) /\ t \in Nat
      /\ \A j \in 1 .. n : w[t + j] = v[j]
  <2>1. CASE isopencap(c)
    <3>1. /\ Len(w) = 6 + Len(v)
          /\ \A j \in 1 .. Len(v) : w[6 + j] = v[j]
      BY <1>1, <2>1, OpenPieces
    <3> HIDE DEF c, w, v
    <3>2. t = 6 /\ BehindIt(c) = 0
      BY <2>1 DEF c, NameAt, BehindIt
    <3> QED
      BY ONLY <1>2, <2>1, <3>1, <3>2
  <2>2. CASE ~ isopencap(c)
    <3>1. c.kind = "Ccloseconst"
      BY <2>2
    <3>2. /\ Len(w) = Skip(c) + 4 /\ Skip(c) = 2 + Len(v)
          /\ \A j \in 1 .. Len(v) : w[2 + j] = v[j]
      BY <1>1, <2>2, <3>1, ClosePieces DEF Skip
    <3> HIDE DEF c, w, v
    <3>3. t = 2 /\ BehindIt(c) = 4
      BY <2>2 DEF c, NameAt, BehindIt
    <3> QED
      BY ONLY <1>2, <2>2, <3>2, <3>3
  <2> QED
    BY <2>1, <2>2
<1> HIDE DEF v
<1>4. t + Len(v) <= Len(w) /\ \A j \in 1 .. Len(v) : w[t + j] = v[j]
  <2>1. BehindIt(c) \in {0, 4}
    BY DEF BehindIt
  <2> HIDE DEF w, c
  <2> QED
    BY ONLY <1>2, <1>3, <2>1
<1>5. SubSeq(output, pos[k] + t + 1, pos[k] + t + Len(v)) = v
  <2>1. \A u \in Seq(Bytes), a \in Nat :
          (a + Len(u) <= Len(w) /\ \A j \in 1 .. Len(u) : w[a + j] = u[j])
            => SubSeq(output, pos[k] + a + 1, pos[k] + a + Len(u)) = u
    BY ONLY WalkAssumption, k \in 0 .. Len(E) - 1, Whole(E, pos), EntryBytes
  <2> QED
    BY ONLY <1>2, <1>3, <1>4, <2>1
<1>6. pos[k] + t + n + BehindIt(c) = pos[k + 1]
  <2>0. BehindIt(c) \in {0, 4}
    BY DEF BehindIt
  <2> HIDE DEF c, w
  <2>1. PICK a, b : a = pos[k] /\ b = BehindIt(c)
    OBVIOUS
  <2>2. a \in Nat /\ b \in Nat /\ Len(w) = t + n + b /\ n \in Nat /\ t \in Nat
    BY <1>1, <1>2, <1>3, <2>0, <2>1
  <2>3. a + t + n + b = a + (t + n + b)
    BY ONLY <2>2
  <2> QED
    BY ONLY <1>1, <2>1, <2>2, <2>3
<1> QED
  BY <1>1, <1>2, <1>5, <1>6 DEF v, NameLies

(* The head of a capture is read as the entry that was written, with the   *)
(* data of a constant.                                                     *)
LEMMA HeadRead ==
  ASSUME WalkAssumption, NEW E, NEW pos, Whole(E, pos),
         NEW k \in 0 .. Len(E) - 1, isopencap(E[k + 1]), at = pos[k] + 1,
         Depth(E, k) \in Nat
  PROVE  /\ HeadReadable /\ (IsConst <=> E[k + 1].kind = "Crosieconst")
         /\ -ReadInt(at) = E[k + 1].s + 1
         /\ Str(at + 6, AfterName - at - 6) = Name[E[k + 1].idx]
         /\ IsConst => /\ DataReadable
                       /\ Str(AfterName + 2, DataLen) = Name[E[(k + 1) + 1].idx]
<1>1. /\ ReadInt(at) = -(E[k + 1].s + 1) /\ ReadInt(at) < 0
      /\ check_bounds(at, 4) /\ AfterName = pos[k + 1] + 1
      /\ IsConst <=> E[k + 1].kind = "Crosieconst"
  BY ReadOpen DEF isopencap
<1>2. PICK n, p, q, z :
        /\ n = Len(Name[E[k + 1].idx]) /\ p = pos[k] /\ q = pos[k + 1]
        /\ z = Len(output)
  OBVIOUS
<1>3. /\ n \in Nat /\ p \in Nat /\ z \in Nat
      /\ SubSeq(output, p + 6 + 1, p + 6 + n) = Name[E[k + 1].idx]
      /\ p + 6 + n = q /\ q <= z
  <2>1. PICK t : t = NameAt(E[k + 1])
    OBVIOUS
  <2>2. t = 6 /\ BehindIt(E[k + 1]) = 0
    BY <2>1 DEF NameAt, BehindIt
  <2>3. /\ n \in Nat /\ pos[k] \in Nat /\ Len(output) \in Nat
        /\ SubSeq(output, pos[k] + t + 1, pos[k] + t + n) = Name[E[k + 1].idx]
        /\ pos[k] + t + n + BehindIt(E[k + 1]) = pos[k + 1]
        /\ pos[k + 1] <= Len(output)
    <3>1. NameLies(E, pos, k, t, n)
      BY ONLY WalkAssumption, Whole(E, pos), k \in 0 .. Len(E) - 1, <1>2, <2>1,
              isopencap(E[k + 1]), ReadName, Zenon
    <3> QED
      BY <3>1, Zenon DEF NameLies
  <2>4. pos[k] + t + n + 0 = pos[k + 1]
    BY <2>2, <2>3
  <2> QED
    BY ONLY <1>2, <2>2, <2>3, <2>4
<1>4. Str(at + 6, AfterName - at - 6) = Name[E[k + 1].idx]
  <2>1. at = p + 1 /\ AfterName = q + 1
    BY <1>1, <1>2
  <2>n. n \in Nat /\ p \in Nat /\ p + 6 + n = q
    BY <1>3
  <2>2. at + 6 = p + 6 + 1 /\ at + 6 + (AfterName - at - 6) - 1 = p + 6 + n
    BY ONLY <2>1, <2>n
  <2> QED
    BY ONLY <1>3, <2>2 DEF Str
<1>5. -ReadInt(at) = E[k + 1].s + 1
  <2>1. Legible(E[k + 1])
    BY EntryLaid
  <2>2. E[k + 1].s \in Nat
    BY <2>1, PositionRead
  <2> QED
    BY ONLY <1>1, <2>2
<1>6. check_bounds(at + 4, 2) /\ check_bounds(AfterName, 0)
  <2>1. at = p + 1 /\ AfterName = q + 1
    BY <1>1, <1>2
  <2>n. n \in Nat /\ p \in Nat /\ z \in Nat /\ p + 6 + n = q /\ q <= z
    BY <1>3
  <2>2. at + 4 + 2 <= z + 1 /\ AfterName + 0 <= z + 1
    BY ONLY <2>1, <2>n
  <2> QED
    BY ONLY <1>2, <2>2 DEF check_bounds
<1>7. ASSUME IsConst
      PROVE  /\ check_bounds(AfterName, 2) /\ DataReadable
             /\ Str(AfterName + 2, DataLen) = Name[E[(k + 1) + 1].idx]
  <2>1. Depth(E, k + 1) > 0
    BY DepthInside
  <2>2. PICK h \in 0 .. Len(E) - 1 : h = k + 1
    BY <2>1, NextEntry
  <2>3. E[h + 1].kind = "Ccloseconst" /\ ~ isopencap(E[h + 1])
    BY <1>1, <1>7, <2>1, <2>2, NextEntry DEF isopencap
  <2>4. ReadShort(pos[h] + 1) = Len(Name[E[h + 1].idx])
    <3>1. PICK a : a = pos[h] + 1 + Skip(E[h + 1])
      OBVIOUS
    <3> QED
      BY <2>3, <3>1, ReadClose
  <2>5. PICK m, o : m = Len(Name[E[h + 1].idx]) /\ o = pos[h + 1]
    OBVIOUS
  <2>6. /\ m \in Nat /\ SubSeq(output, q + 2 + 1, q + 2 + m) = Name[E[h + 1].idx]
        /\ q + 2 + m + 4 = o /\ o <= z /\ q \in Nat
    <3>1. PICK t : t = NameAt(E[h + 1])
      OBVIOUS
    <3>2. t = 2 /\ BehindIt(E[h + 1]) = 4
      BY <2>3, <3>1 DEF NameAt, BehindIt
    <3>3. /\ m \in Nat /\ pos[h] \in Nat /\ Len(output) \in Nat
          /\ SubSeq(output, pos[h] + t + 1, pos[h] + t + m) = Name[E[h + 1].idx]
          /\ pos[h] + t + m + BehindIt(E[h + 1]) = pos[h + 1]
          /\ pos[h + 1] <= Len(output)
      <4>1. NameLies(E, pos, h, t, m)
        BY ONLY WalkAssumption, Whole(E, pos), h \in 0 .. Len(E) - 1, <2>3, <2>5,
                <3>1, ReadName, Zenon
      <4> QED
        BY <4>1, Zenon DEF NameLies
    <3>4. pos[h] + t + m + 4 = pos[h + 1]
      BY <3>2, <3>3
    <3> QED
      BY ONLY <1>2, <2>2, <2>5, <3>2, <3>3, <3>4
  <2>7. AfterName = q + 1 /\ DataLen = m
    BY <1>1, <1>2, <2>2, <2>4, <2>5 DEF DataLen
  <2>8. /\ AfterName + 2 = q + 2 + 1 /\ AfterName + 2 + DataLen - 1 = q + 2 + m
        /\ DataLen >= 0 /\ AfterName + 2 + DataLen + 0 <= z + 1
        /\ AfterName + 2 <= z + 1
    BY ONLY <1>3, <2>6, <2>7
  <2>9. Str(AfterName + 2, DataLen) = Name[E[h + 1].idx]
    BY ONLY <2>6, <2>8 DEF Str
  <2> QED
    BY ONLY <1>2, <2>2, <2>8, <2>9 DEF check_bounds, DataReadable
<1>8. HeadReadable
  <2>1. ReadInt(at) <= 0
    <3>1. ReadInt(at) \in Int
      <4>1. Legible(E[k + 1])
        BY EntryLaid
      <4>2. E[k + 1].s \in Nat
        BY <4>1, PositionRead
      <4> QED
        BY ONLY <1>1, <4>2
    <3> QED
      BY ONLY <1>1, <3>1
  <2> QED
    BY ONLY <1>1, <1>6, <1>7, <2>1 DEF HeadReadable
<1> QED
  BY ONLY <1>1, <1>4, <1>5, <1>7, <1>8

(* The head of a capture: a table more. *)
LEMMA TableMore ==
  ASSUME WalkAssumption, NEW E, NEW pos, Whole(E, pos), NEW k,
         ReadTo(E, pos, k), pc = "decode", DecodeOpen \/ DecodeConst
  PROVE  /\ Tables(E, k + 1)' /\ Len(frames') = Len(frames) + 1
         /\ frames' # <<>>
         /\ Depth(E, k + 1) = Len(frames') /\ Depth(E, k + 1) > 0
<1>1. /\ k \in 0 .. Len(E) - 1 /\ Len(frames) = Depth(E, k) /\ Tables(E, k)
      /\ at = pos[k] + 1 /\ isopencap(E[k + 1])
  BY DEF ReadTo
<1>2. PICK op, ch :
        /\ Path(E, k, op, ch)
        /\ frames = [d \in 1 .. Depth(E, k) |-> TableAt(E, op[d], ch[d])]
  BY <1>1 DEF Tables
<1>3. PICK n \in Nat : n = Depth(E, k) /\ k \in Nat
  BY <1>1, <1>2 DEF Path
<1>4. /\ IsConst <=> E[k + 1].kind = "Crosieconst"
      /\ -ReadInt(at) = E[k + 1].s + 1
      /\ Str(at + 6, AfterName - at - 6) = Name[E[k + 1].idx]
      /\ IsConst => Str(AfterName + 2, DataLen) = Name[E[(k + 1) + 1].idx]
  BY <1>1, <1>3, HeadRead
<1>5. PICK t : t = TableAt(E, k + 1, <<>>)
  OBVIOUS
<1>6. frames' = Append(frames, t) /\ list' = list
  <2>1. PICK data, next :
          /\ Decoded(data, next)
          /\ data = IF IsConst THEN <<Str(AfterName + 2, DataLen)>> ELSE <<>>
    <3>1. CASE DecodeOpen
      BY <3>1 DEF DecodeOpen
    <3>2. CASE DecodeConst
      BY <3>2 DEF DecodeConst
    <3> QED
      BY <3>1, <3>2
  <2>2. Table(data) = t
    <3>1. data = IF E[k + 1].kind = "Crosieconst"
                 THEN <<Name[E[(k + 1) + 1].idx]>> ELSE <<>>
      BY <1>4, <2>1
    <3>2. [m \in DOMAIN <<>> |-> Nodes(list)[<<>>[m]]] = <<>>
      OBVIOUS
    <3> QED
      BY <1>4, <1>5, <3>1, <3>2 DEF Table, TableAt
  <2> QED
    BY <2>1, <2>2 DEF Decoded
<1>7. PICK p, q : /\ p = [d \in 1 .. n + 1 |-> IF d = n + 1 THEN k + 1 ELSE op[d]]
                  /\ q = [d \in 1 .. n + 1 |-> IF d = n + 1 THEN <<>> ELSE ch[d]]
  OBVIOUS
<1>8. /\ p[n + 1] = k + 1 /\ q[n + 1] = <<>>
      /\ \A d \in 1 .. n : p[d] = op[d] /\ q[d] = ch[d]
  BY <1>7
<1>9. Path(E, k + 1, p, q)
  BY ONLY <1>1, <1>2, <1>3, <1>8, PathOpens
<1>10. Depth(E, k + 1) = n + 1
  BY <1>1, <1>3, DepthInside
<1>11. frames' = [d \in 1 .. n + 1 |-> TableAt(E, p[d], q[d])]
  <2>1. PICK f : f = [d \in 1 .. n |-> TableAt(E, op[d], ch[d])]
    OBVIOUS
  <2>3. frames' = [d \in 1 .. n + 1 |-> IF d = n + 1 THEN t ELSE f[d]]
    <3>1. frames = f
      BY <1>2, <1>3, <2>1
    <3>2. Append(f, t) = [d \in 1 .. n + 1 |-> IF d = n + 1 THEN t ELSE f[d]]
      BY <2>1, MapIsSeq
    <3> QED
      BY <1>6, <3>1, <3>2
  <2>4. \A d \in 1 .. n + 1 : (IF d = n + 1 THEN t ELSE f[d]) = TableAt(E, p[d], q[d])
    BY <1>5, <1>8, <2>1
  <2> QED
    BY <2>3, <2>4
<1>12. Tables(E, k + 1)'
  <2>1. frames' = [d \in 1 .. Depth(E, k + 1) |-> TableAt(E, p[d], q[d])']
    BY <1>6, <1>10, <1>11 DEF TableAt
  <2> QED
    BY <1>9, <2>1 DEF Tables
<1>13. Len(frames') = n + 1 /\ frames' # <<>>
  BY <1>11
<1> QED
  BY <1>1, <1>3, <1>10, <1>12, <1>13

LEMMA OpenDecodes ==
  ASSUME WalkAssumption, DecodesInv, DecodeOpen \/ DecodeConst PROVE DecodesInv'
<1>1. pc = "decode" /\ pc' = "subs" /\ UNCHANGED <<call, list, r, output>>
  BY DEF DecodeOpen, DecodeConst, Decoded
<1>2. SUFFICES ASSUME Readable(list)
               PROVE  \E E, pos : (Whole(E, pos) /\ \E k : ReadTo(E, pos, k))'
  BY <1>1 DEF DecodesInv
<1>3. PICK E, pos : Whole(E, pos) /\ \E k : ReadTo(E, pos, k)
  BY <1>1, <1>2 DEF DecodesInv
<1>4. PICK k : ReadTo(E, pos, k)
  BY <1>3
<1>5. /\ k \in 0 .. Len(E) - 1 /\ at = pos[k] + 1 /\ isopencap(E[k + 1])
  BY <1>1, <1>4 DEF ReadTo
<1>6. /\ E[k + 1].kind = "Crosiecap" =>
           ~ IsConst /\ AfterName = pos[k + 1] + 1
      /\ E[k + 1].kind = "Crosieconst" =>
           IsConst /\ AfterName = pos[k + 1] + 1
  BY <1>3, <1>5, ReadOpen
<1>8. /\ Tables(E, k + 1)' /\ frames' # <<>>
      /\ Depth(E, k + 1) = Len(frames') /\ Depth(E, k + 1) > 0
  BY <1>1, <1>3, <1>4, TableMore
<1>9. /\ k + 1 \in 0 .. Len(E) - 1
      /\ E[k + 1].kind = "Crosieconst" <=> E[(k + 1) + 1].kind = "Ccloseconst"
  BY <1>3, <1>5, <1>8, NextEntry
<1>10. at' = pos[k + 1] + 1 + Skip(E[(k + 1) + 1])
  <2>1. pos[k + 1] \in Nat
    BY <1>3, <1>5, EntryLaid
  <2>2. CASE DecodeOpen
    <3>1. at' = AfterName /\ ~ IsConst
      BY <2>2 DEF DecodeOpen, Decoded
    <3>2. E[k + 1].kind = "Crosiecap"
      BY <1>5, <1>6, <3>1 DEF isopencap
    <3>3. Skip(E[(k + 1) + 1]) = 0
      BY <1>9, <3>2 DEF Skip
    <3> QED
      BY <1>6, <2>1, <3>1, <3>2, <3>3
  <2>3. CASE DecodeConst
    <3>1. at' = AfterName + 2 + DataLen /\ IsConst
      BY <2>3 DEF DecodeConst, Decoded
    <3>2. E[k + 1].kind = "Crosieconst"
      BY <1>5, <1>6, <3>1 DEF isopencap
    <3>3. E[(k + 1) + 1].kind = "Ccloseconst"
      BY <1>9, <3>2
    <3>4. ReadShort(pos[k + 1] + 1) = Len(Name[E[(k + 1) + 1].idx])
      <4>1. PICK h \in 0 .. Len(E) - 1 : h = k + 1
        BY <1>9
      <4>2. ~ isopencap(E[h + 1]) /\ E[h + 1].kind = "Ccloseconst"
        BY <3>3, <4>1 DEF isopencap
      <4>3. PICK a : a = pos[h] + 1 + Skip(E[h + 1])
        OBVIOUS
      <4>4. ReadShort(pos[h] + 1) = Len(Name[E[h + 1].idx])
        BY <1>3, <4>2, <4>3, ReadClose
      <4> QED
        BY <4>1, <4>4
    <3>5. DataLen = Len(Name[E[(k + 1) + 1].idx]) /\ AfterName = pos[k + 1] + 1
      BY <1>6, <3>2, <3>4 DEF DataLen
    <3>6. Skip(E[(k + 1) + 1]) = 2 + DataLen
      BY <3>3, <3>5 DEF Skip
    <3>7. DataLen \in Nat
      <4>1. PICK h \in 0 .. Len(E) - 1 : h = k + 1
        BY <1>9
      <4>2. Legible(E[h + 1]) /\ E[h + 1].kind = "Ccloseconst"
        BY <1>3, <3>3, <4>1, EntryLaid
      <4>3. Len(Name[E[h + 1].idx]) \in Nat
        BY <4>2, NamesAreBytes DEF Legible
      <4> QED
        BY <3>5, <4>1, <4>3
    <3>8. at' = (pos[k + 1] + 1) + 2 + DataLen
      BY <3>1, <3>5
    <3>9. PICK d \in Nat, p \in Nat : d = DataLen /\ p = pos[k + 1]
      BY <2>1, <3>7
    <3>10. (p + 1) + 2 + d = p + 1 + (2 + d)
      BY ONLY d \in Nat, p \in Nat
    <3> QED
      BY ONLY <3>6, <3>8, <3>9, <3>10
  <2> QED
    BY <2>2, <2>3
<1>11. Whole(E, pos)'
  <2>1. first' = first /\ (Forward' <=> Forward)
    BY <1>1, RangeKept, ForwardKept
  <2> QED
    BY <1>1, <1>3, <2>1 DEF Whole, Layout, Nested, Legible, Follows
<1>12. ReadTo(E, pos, k + 1)'
  BY <1>1, <1>8, <1>9, <1>10 DEF ReadTo
<1> QED
  BY <1>11, <1>12

(* Which entry the test for a nested match sees. *)
LEMMA SubsPlace ==
  ASSUME WalkAssumption, NEW E, NEW pos, Whole(E, pos), NEW k,
         ReadTo(E, pos, k), pc = "subs"
  PROVE  /\ check_bounds(at, 4) /\ at \in Nat \ {0}
         /\ isopencap(E[k + 1]) <=> ReadInt(at) < 0
         /\ isopencap(E[k + 1]) => at = pos[k] + 1
         /\ \A d \in BytesAt(at, 4) : string_to_int(d) = ReadInt(at)
<1>1. /\ k \in 0 .. Len(E) - 1 /\ at = pos[k] + 1 + Skip(E[k + 1])
  BY DEF ReadTo
<1>2. pos[k] \in Nat /\ output \in Seq(Bytes)
  BY <1>1, EntryLaid
<1>3. CASE isopencap(E[k + 1])
  <2>1. Skip(E[k + 1]) = 0
    BY <1>3 DEF Skip, isopencap
  <2>2. at = pos[k] + 1
    BY <1>1, <1>2, <2>1
  <2>3. ReadInt(at) < 0 /\ check_bounds(at, 4) /\ at \in Nat \ {0}
    BY <1>1, <1>2, <1>3, <2>2, ReadOpen
  <2> QED
    BY <1>2, <1>3, <2>2, <2>3, BytesHere
<1>4. CASE ~ isopencap(E[k + 1])
  <2>1. ~ (ReadInt(at) < 0) /\ check_bounds(at, 4) /\ at \in Nat \ {0}
    BY <1>1, <1>4, ReadClose
  <2> QED
    BY <1>2, <1>4, <2>1, BytesHere
<1> QED
  BY <1>3, <1>4

LEMMA SubDecodes ==
  ASSUME WalkAssumption, DecodesInv, DecodeSub PROVE DecodesInv'
<1>1. /\ pc = "subs" /\ pc' = "decode"
      /\ UNCHANGED <<call, list, r, output, at, frames>>
  BY DEF DecodeSub, decode
<1>2. SUFFICES ASSUME Readable(list)
               PROVE  \E E, pos : (Whole(E, pos) /\ \E k : ReadTo(E, pos, k))'
  BY <1>1 DEF DecodesInv
<1>3. PICK E, pos : Whole(E, pos) /\ \E k : ReadTo(E, pos, k)
  BY <1>1, <1>2 DEF DecodesInv
<1>4. PICK k : ReadTo(E, pos, k)
  BY <1>3
<1>5. isopencap(E[k + 1]) /\ at = pos[k] + 1
  BY <1>1, <1>3, <1>4, SubsPlace DEF DecodeSub
<1>6. Whole(E, pos)'
  <2>1. first' = first /\ (Forward' <=> Forward)
    BY <1>1, RangeKept, ForwardKept
  <2> QED
    BY <1>1, <1>3, <2>1 DEF Whole, Layout, Nested, Legible, Follows
<1>7. ReadTo(E, pos, k)'
  BY <1>1, <1>4, <1>5, TablesKept DEF ReadTo
<1> QED
  BY <1>6, <1>7

(* The end of a capture: its table goes into the one around it. *)
LEMMA CloseDecodes ==
  ASSUME WalkAssumption, WalkType, ToldInv, DecodesInv, DecodeClose
  PROVE  /\ DecodesInv' /\ FramesInv'
         /\ pc' = "done" /\ Readable(list) => frames' = <<TreeOf(list)>>
<1>1. /\ pc = "subs" /\ UNCHANGED <<call, list, r, output>>
      /\ first' = first /\ (Forward' <=> Forward)
  <2>1. pc = "subs" /\ UNCHANGED <<call, list, r, output>>
    BY DEF DecodeClose, Corrupt
  <2> QED
    BY <2>1, RangeKept, ForwardKept
<1>2. SUFFICES ASSUME Readable(list)
               PROVE  /\ DecodesInv' /\ FramesInv'
                      /\ pc' = "done" => frames' = <<TreeOf(list)>>
  BY <1>1 DEF DecodesInv, FramesInv
<1>3. PICK E, pos : Whole(E, pos) /\ \E k : ReadTo(E, pos, k)
  BY <1>1, <1>2 DEF DecodesInv
<1>4. PICK k : ReadTo(E, pos, k)
  BY <1>3
<1>5. /\ k \in 0 .. Len(E) - 1 /\ at = pos[k] + 1 + Skip(E[k + 1])
      /\ Len(frames) = Depth(E, k) /\ Tables(E, k) /\ frames # <<>>
  BY <1>1, <1>4 DEF ReadTo
<1>6. k \in 0 .. Len(E) - 1 /\ Whole(E, pos)
  BY <1>3, <1>5
<1>7. /\ check_bounds(at, 4) /\ (isopencap(E[k + 1]) <=> ReadInt(at) < 0)
      /\ isopencap(E[k + 1]) => at = pos[k] + 1
      /\ \A d \in BytesAt(at, 4) : string_to_int(d) = ReadInt(at)
  BY ONLY WalkAssumption, <1>1, <1>6, <1>4, SubsPlace
<1>8. check_bounds(at, 4) /\ ~ isopencap(E[k + 1])
  <2>1. PICK d \in BytesAt(at, 4) : string_to_int(d) >= 0
    BY DEF DecodeClose
  <2>2. ~ (string_to_int(d) < 0)
    <3>1. string_to_int(d) = ReadInt(at)
      BY ONLY <1>7, d \in BytesAt(at, 4)
    <3>2. isopencap(E[k + 1]) => ReadInt(at) = -(E[k + 1].s + 1)
      <4>1. SUFFICES ASSUME isopencap(E[k + 1])
                     PROVE  ReadInt(at) = -(E[k + 1].s + 1)
        OBVIOUS
      <4>2. at = pos[k] + 1
        BY ONLY <1>7, <4>1
      <4> QED
        BY ONLY WalkAssumption, <1>6, <4>1, <4>2, ReadOpen
    <3>3. ~ isopencap(E[k + 1]) => ReadInt(at) = E[k + 1].s + 1
      BY ONLY WalkAssumption, <1>6, <1>5, ReadClose
    <3>4. E[k + 1].s \in Nat
      BY <1>6, EntryLaid, PositionRead
    <3> QED
      BY <2>1, <3>1, <3>2, <3>3, <3>4
  <2> QED
    <3>1. string_to_int(d) = ReadInt(at)
      BY ONLY <1>7, d \in BytesAt(at, 4)
    <3> QED
      BY ONLY <1>7, <2>2, <3>1
<1>9. ReadInt(at) = E[k + 1].s + 1 /\ at + 4 = pos[k + 1] + 1
  BY ONLY WalkAssumption, <1>6, <1>5, <1>8, ReadClose
<1> DEFINE n == Len(frames)
           table == [frames[n] EXCEPT !.e = ReadInt(at)]
<1>10. /\ frames' = IF n = 1 THEN <<table>>
                    ELSE [SubSeq(frames, 1, n - 1) EXCEPT
                            ![n - 1].subs = Append(@, table)]
       /\ at' = at + 4 /\ pc' = IF n = 1 THEN "done" ELSE "subs"
  BY <1>8 DEF DecodeClose
<1>11. PICK S : frames \in Seq(S)
  BY <1>3, <1>5, TablesAre
<1>12. n \in Nat \ {0}
  BY <1>5, <1>11
<1>13. \A i \in 1 .. n : {"s", "e", "subs"} \subseteq DOMAIN frames[i]
  BY <1>3, <1>5, TablesAre
<1>14. frames[1].s = E[1].s + 1
  BY <1>3, <1>5, TablesAre
<1>p. PICK op, ch :
        /\ Path(E, k, op, ch)
        /\ frames = [d \in 1 .. Depth(E, k) |-> TableAt(E, op[d], ch[d])]
  BY <1>5 DEF Tables
<1>t. table = Nodes(list)[op[n]]
  <2>1. frames[n] = TableAt(E, op[n], ch[n])
    BY <1>5, <1>12, <1>p
  <2>2. n = Depth(E, k) /\ n > 0 /\ list \in Seq(Capture)
    BY <1>5, <1>12 DEF WalkType
  <2>3. [TableAt(E, op[n], ch[n]) EXCEPT !.e = E[k + 1].s + 1]
          = Nodes(list)[op[n]]
    <3> HIDE DEF n
    <3> QED
      BY ONLY <1>6, <1>8, <1>p, <2>2, TableDone
  <2> QED
    BY <1>9, <2>1, <2>3
<1>15. CASE n = 1
  <2>1. pc' = "done" /\ frames' = <<table>>
    BY <1>10, <1>15
  <2>2. {"s", "e"} \subseteq DOMAIN frames[n] /\ frames[n].s = E[1].s + 1
    BY <1>12, <1>13, <1>14, <1>15
  <2>3. table.s = E[1].s + 1 /\ table.e = E[k + 1].s + 1
    BY <1>9, <2>2
  <2>4. Forward => /\ E[1].s <= E[k + 1].s
                   /\ E[k + 1].s \in Nat /\ E[k + 1].s \in first .. r
                   /\ E[1].s \in Nat /\ E[1].s \in first .. r
    <3>1. Legible(E[k + 1]) /\ (Forward => E[1].s <= E[k + 1].s)
      BY ONLY <1>6, EntryLaid
    <3>2. Legible(E[1])
      BY <1>3 DEF Whole, Nested
    <3> QED
      BY <3>1, <3>2, PositionRead DEF Legible
  <2> HIDE DEF table
  <2>5. FramesInv'
    <3>1. SUFFICES ASSUME Forward PROVE FramesInv'
      BY <1>1 DEF FramesInv
    <3>2. DOMAIN frames' = {1} /\ frames'[1] = table
      BY <2>1
    <3>3. /\ first + 1 <= table.s /\ table.s <= table.e /\ table.e <= r + 1
      <4>1. PICK a \in Nat, b \in Nat : a = E[1].s /\ b = E[k + 1].s
        BY <2>4, <3>1
      <4>2. PICK lo \in Int, hi \in Int : lo = first /\ hi = r
        <5>1. r \in Nat
          BY <1>1 DEF ToldInv, PlaceInv, ListInv
        <5>2. first \in Nat
          BY RangeType DEF WalkType
        <5> QED
          BY <5>1, <5>2
      <4>3. a <= b /\ a \in lo .. hi /\ b \in lo .. hi
        BY ONLY <2>4, <3>1, <4>1, <4>2
      <4>4. lo + 1 <= a + 1 /\ a + 1 <= b + 1 /\ b + 1 <= hi + 1
        BY ONLY <4>3, a \in Nat, b \in Nat, lo \in Int, hi \in Int
      <4> QED
        BY ONLY <2>3, <4>1, <4>2, <4>4
    <3>4. \A i \in DOMAIN frames' :
            first' + 1 <= frames'[i].s /\ frames'[i].s <= frames'[i].e
              /\ frames'[i].e <= r' + 1
      BY <1>1, <3>2, <3>3
    <3> QED
      BY <3>4 DEF FramesInv
  <2>6. frames' = <<TreeOf(list)>>
    <3>1. op[1] = 1
      BY <1>5, <1>6, <1>12, <1>p, Outermost
    <3>2. TreeOf(list) = Nodes(list)[1]
      BY TreeIs DEF WalkType
    <3> QED
      BY <1>15, <1>t, <2>1, <3>1, <3>2
  <2> QED
    BY <2>1, <2>5, <2>6 DEF DecodesInv
<1>16. CASE n # 1
  <2>1. pc' = "subs" /\ at' = at + 4
    BY <1>10, <1>16
  <2> DEFINE q == SubSeq(frames, 1, n - 1)
             u == Append(q[n - 1].subs, table)
  <2>2. frames' = [q EXCEPT ![n - 1] = [q[n - 1] EXCEPT !.subs = u]]
    BY <1>10, <1>16
  <2>3. /\ q \in Seq(S) /\ Len(q) = n - 1 /\ n - 1 \in 1 .. n - 1
        /\ \A i \in 1 .. n - 1 : q[i] = frames[i]
    <3>1. n - 1 \in Nat \ {0} /\ n \in Nat
      BY <1>12, <1>16
    <3>2. \A i \in 1 .. n - 1 : frames[i] \in S
      BY <1>11, <3>1, ElementOfSeq
    <3>3. /\ q \in Seq(S) /\ Len(q) = IF 1 <= n - 1 THEN (n - 1) - 1 + 1 ELSE 0
          /\ \A i \in 1 .. (n - 1) - 1 + 1 : q[i] = frames[1 + i - 1]
      BY <3>1, <3>2, SubSeqProperties
    <3>4. PICK m \in Nat \ {0} : m = n - 1
      BY <3>1
    <3>5. (m - 1) + 1 = m /\ 1 <= m /\ \A i \in 1 .. m : 1 + i - 1 = i
      BY <3>4
    <3> QED
      BY <3>3, <3>4, <3>5
  <2> HIDE DEF q, u, table
  <2>4. PICK x : x = [q[n - 1] EXCEPT !.subs = u]
    OBVIOUS
  <2>5. /\ frames' \in Seq(S \cup {x}) /\ Len(frames') = n - 1
        /\ frames'[n - 1] = x
        /\ \A i \in 1 .. n - 1 : i # n - 1 => frames'[i] = frames[i]
    <3>1. q \in [1 .. n - 1 -> S]
      BY <2>3
    <3>2. frames' \in [1 .. n - 1 -> S \cup {x}]
      BY <2>2, <2>4, <3>1
    <3>3. n - 1 \in Nat
      BY <1>12
    <3> QED
      BY <2>2, <2>3, <2>4, <3>1, <3>2, <3>3
  <2>6. PICK h : h = [d \in 1 .. n - 1 |-> IF d = n - 1 THEN Append(ch[n - 1], op[n])
                                           ELSE ch[d]]
    OBVIOUS
  <2>7. /\ h[n - 1] = Append(ch[n - 1], op[n])
        /\ \A d \in 1 .. n - 1 : d # n - 1 => h[d] = ch[d]
    BY <2>3, <2>6
  <2>8. x = TableAt(E, op[n - 1], h[n - 1])
    <3>1. frames[n - 1] = TableAt(E, op[n - 1], ch[n - 1])
      BY <1>5, <1>12, <1>p, <2>3
    <3>2. PICK m \in 1 .. n : m = n - 1 /\ n = Depth(E, k)
      BY <1>5, <1>12, <2>3
    <3>3. /\ OpenAt(E, k, m, op[m]) /\ OpenAt(E, k, n, op[n])
          /\ Enumerates(ch[m], Len(ch[m]), Complete(E, k, op, m))
      BY <1>12, <1>p, <3>2 DEF Path
    <3>4. op[n] \in Int /\ ch[m] \in Seq(Int)
      <4>1. Complete(E, k, op, m) \subseteq Int
        BY <3>3 DEF Complete, Inner, OpenAt
      <4>2. Len(ch[m]) \in Nat /\ ch[m] \in [1 .. Len(ch[m]) -> Int]
        BY <3>3, <4>1 DEF Enumerates
      <4>3. PICK w \in Nat : w = Len(ch[m])
        BY <4>2
      <4>4. \A v \in [1 .. w -> Int] : v \in Seq(Int)
        OBVIOUS
      <4> QED
        BY <3>3, <4>2, <4>3, <4>4 DEF OpenAt
    <3>5. u = [y \in DOMAIN Append(ch[m], op[n]) |->
                 Nodes(list)[Append(ch[m], op[n])[y]]]
      <4>1. q[n - 1].subs = [y \in DOMAIN ch[m] |-> Nodes(list)[ch[m][y]]]
        BY <2>3, <3>1, <3>2 DEF TableAt
      <4>2. Append([y \in DOMAIN ch[m] |-> Nodes(list)[ch[m][y]]], Nodes(list)[op[n]])
              = [y \in DOMAIN Append(ch[m], op[n]) |->
                   Nodes(list)[Append(ch[m], op[n])[y]]]
        <5>1. PICK v, z, g : v = ch[m] /\ z = op[n] /\ g = Nodes(list)
          OBVIOUS
        <5>2. v \in Seq(Int) /\ z \in Int
          BY <3>4, <5>1
        <5>3. Append([y \in DOMAIN v |-> g[v[y]]], g[z])
                = [y \in DOMAIN Append(v, z) |-> g[Append(v, z)[y]]]
          BY ONLY <5>2, MapAppend
        <5> QED
          BY ONLY <5>1, <5>3
      <4> QED
        BY <1>t, <4>1, <4>2 DEF u
    <3>6. q[n - 1] = TableAt(E, op[n - 1], ch[n - 1])
      BY <2>3, <3>1
    <3>7. PICK t : t = TableAt(E, op[m], ch[m])
      OBVIOUS
    <3>8. [t EXCEPT !.subs = u]
            = [s |-> E[op[m]].s + 1, type |-> Name[E[op[m]].idx],
               data |-> IF E[op[m]].kind = "Crosieconst"
                        THEN <<Name[E[op[m] + 1].idx]>> ELSE <<>>,
               subs |-> u, e |-> 0]
      <4>1. PICK v, y, w, z :
              /\ v = E[op[m]].s + 1 /\ y = Name[E[op[m]].idx]
              /\ w = (IF E[op[m]].kind = "Crosieconst"
                      THEN <<Name[E[op[m] + 1].idx]>> ELSE <<>>)
              /\ z = [o \in DOMAIN ch[m] |-> Nodes(list)[ch[m][o]]]
        OBVIOUS
      <4>2. t = [s |-> v, type |-> y, data |-> w, subs |-> z, e |-> 0]
        BY <3>7, <4>1, Zenon DEF TableAt
      <4>3. [t EXCEPT !.subs = u]
              = [s |-> v, type |-> y, data |-> w, subs |-> u, e |-> 0]
        BY ONLY <4>2, TableParts
      <4> QED
        BY ONLY <4>1, <4>3, Zenon
    <3> HIDE DEF u
    <3>9. TableAt(E, op[m], h[m])
            = [s |-> E[op[m]].s + 1, type |-> Name[E[op[m]].idx],
               data |-> IF E[op[m]].kind = "Crosieconst"
                        THEN <<Name[E[op[m] + 1].idx]>> ELSE <<>>,
               subs |-> u, e |-> 0]
      <4>1. h[m] = Append(ch[m], op[n])
        BY <2>7, <3>2
      <4> QED
        BY ONLY <3>5, <4>1, Zenon DEF TableAt
    <3>10. q[n - 1] = t
      BY <3>2, <3>6, <3>7
    <3>11. x = [t EXCEPT !.subs = u]
      BY <2>4, <3>10, Zenon
    <3>12. x = TableAt(E, op[m], h[m])
      BY <3>8, <3>9, <3>11, Zenon
    <3> QED
      BY <3>2, <3>12
  <2>9. Tables(E, k + 1)'
    <3>1. Path(E, k + 1, op, h)
      <4>1. n > 1 => h[n - 1] = Append(ch[n - 1], op[n])
        BY <2>7
      <4>2. \A d \in 1 .. n - 2 : h[d] = ch[d]
        <5>1. \A d \in 1 .. n - 2 : d \in 1 .. n - 1 /\ d # n - 1
          BY <1>12
        <5> QED
          BY <2>7, <5>1
      <4>3. n = Depth(E, k) /\ n > 0 /\ k \in Nat
        BY <1>5, <1>12
      <4> QED
        BY ONLY <1>8, <1>p, <4>1, <4>2, <4>3, PathCloses
    <3>2. Depth(E, k + 1) = n - 1
      BY <1>3, <1>5, <1>8, DepthInside
    <3>3. \A d \in 1 .. n - 1 : frames'[d] = TableAt(E, op[d], h[d])
      <4>1. ASSUME NEW d \in 1 .. n - 1, d # n - 1
            PROVE  frames'[d] = TableAt(E, op[d], h[d])
        <5>1. d \in 1 .. n /\ d \in 1 .. Depth(E, k)
          BY <1>5, <1>12, <4>1
        <5>2. frames[d] = TableAt(E, op[d], ch[d])
          BY <1>p, <5>1
        <5> QED
          BY <2>5, <2>7, <4>1, <5>2
      <4> QED
        BY <2>5, <2>8, <4>1
    <3>4. DOMAIN frames' = 1 .. n - 1 /\ frames' = [d \in 1 .. n - 1 |-> frames'[d]]
      BY <2>5
    <3>5. frames' = [d \in 1 .. n - 1 |-> TableAt(E, op[d], h[d])]
      BY <3>3, <3>4
    <3>6. frames' = [d \in 1 .. Depth(E, k + 1) |-> TableAt(E, op[d], h[d])']
      BY <1>1, <3>2, <3>5 DEF TableAt
    <3> QED
      BY <3>1, <3>6 DEF Tables
  <2>n. frames' # <<>>
    BY <2>3, <2>5
  <2>10. Depth(E, k + 1) = n - 1 /\ Depth(E, k + 1) > 0
    <3>1. Depth(E, k + 1) = Depth(E, k) - 1
      BY <1>3, <1>5, <1>8, DepthInside
    <3> QED
      BY <1>5, <1>12, <1>16, <3>1
  <2>11. /\ k + 1 \in 0 .. Len(E) - 1
         /\ E[k + 1].kind = "Crosieconst" <=> E[(k + 1) + 1].kind = "Ccloseconst"
    BY <1>3, <1>5, <2>10, NextEntry
  <2>12. at' = pos[k + 1] + 1 + Skip(E[(k + 1) + 1])
    <3>1. Skip(E[(k + 1) + 1]) = 0
      BY <1>8, <2>11 DEF Skip, isopencap
    <3>2. pos[k + 1] \in Nat
      BY <1>3, <1>5, EntryLaid
    <3> QED
      BY <1>9, <2>1, <3>1, <3>2
  <2>13. Whole(E, pos)'
    BY <1>1, <1>3 DEF Whole, Layout, Nested, Legible, Follows
  <2>14. ReadTo(E, pos, k + 1)'
    BY <2>1, <2>5, <2>n, <2>9, <2>10, <2>11, <2>12 DEF ReadTo
  <2> QED
    BY <2>1, <2>13, <2>14 DEF DecodesInv, FramesInv, Answered
<1> QED
  BY <1>15, <1>16

(***************************************************************************)
(* All of it.                                                              *)
(***************************************************************************)
MeaningInv ==
  WalkInv /\ ToldInv /\ WritesInv /\ DecodesInv /\ FramesInv /\ RoundTrip

(* What was written is not nothing: it is decoded. *)
LEMMA WholeIsSome ==
  ASSUME WalkAssumption, NEW E, NEW pos, Whole(E, pos)',
         UNCHANGED <<call, list, r>>
  PROVE  output' # <<>>
<1>1. /\ 1 \in 1 .. Len(E) /\ 0 \in 0 .. Len(E) /\ isopencap(E[1])
      /\ Legible(E[1])' /\ 1 - 1 = 0
  BY DEF Whole, Nested
<1>2. Legible(E[1])
  <2>1. first' = first /\ (Forward' <=> Forward)
    BY RangeKept, ForwardKept
  <2> QED
    BY <1>1, <2>1 DEF Legible
<1>3. PICK i \in 1 .. Len(E) : i = 1
  BY <1>1
<1>4. /\ pos[i] = pos[i - 1] + Len(Written(E[i])) /\ pos[i] <= Len(output')
      /\ pos[0] = 0 /\ output' \in Seq(Bytes)
  BY DEF Whole, Layout
<1>5. Len(Written(E[1])) = 6 + Len(Name[E[1].idx]) /\ Len(Name[E[1].idx]) \in Nat
  BY <1>1, <1>2, OpenPieces, NamesAreBytes DEF Legible, isopencap
<1>6. Len(output') > 0
  <2>1. PICK w, n, o : /\ w = Len(Written(E[1])) /\ n = Len(Name[E[1].idx])
                       /\ o = Len(output')
    OBVIOUS
  <2>2. 0 + w <= o /\ w = 6 + n /\ n \in Nat /\ o \in Nat
    BY <1>1, <1>3, <1>4, <1>5, <2>1
  <2> QED
    BY ONLY <2>1, <2>2
<1> QED
  BY <1>6

LEMMA StartsMeant == ASSUME WalkAssumption, Init PROVE MeaningInv
BY StartsSound, StartsTold
   DEF MeaningInv, Init, WritesInv, DecodesInv, FramesInv, Answered, RoundTrip

LEMMA EntryMeant ==
  ASSUME WalkAssumption, MeaningInv, Entry, WalkInv', ToldInv' PROVE MeaningInv'
<1>1. /\ pc' = "done" \/ (pc' = "walk" /\ UNCHANGED <<output, walk>>)
      /\ pc = "call" /\ UNCHANGED decode
  BY DEF Entry, WrongRange, NoMatch, HasMatch, Fails
<1>2. frames' = <<>> /\ (pc' = "walk" => output' = <<>> /\ cap' = 1 /\ stack' = <<>>)
  BY <1>1 DEF MeaningInv, ToldInv, PlaceInv, WalkInv, BeforeLoop, decode, walk
<1>3. WritesInv'
  <2>1. pc' = "walk" => \E E, pos : WroteBy(E, pos)'
    BY <1>2, FirstWritten
  <2> QED
    BY <1>1, <2>1 DEF WritesInv
<1>4. DecodesInv' /\ FramesInv'
  BY <1>1, <1>2 DEF DecodesInv, FramesInv
<1>5. RoundTrip'
  <2>1. list = <<>>
    BY <1>1 DEF MeaningInv, ToldInv, PlaceInv
  <2>2. /\ pc' = "done" => list' = list \/ call.etype # "byte"
        /\ call' = call
    BY DEF Entry, WrongRange, NoMatch, HasMatch, Fails
  <2> QED
    BY <2>1, <2>2 DEF RoundTrip, Captured
<1> QED
  BY <1>3, <1>4, <1>5 DEF MeaningInv

LEMMA WalkMeant ==
  ASSUME WalkAssumption, MeaningInv, Walk, WalkInv', ToldInv' PROVE MeaningInv'
<1> USE DEF MeaningInv
<1>1. /\ pc \in {"walk", "loop", "halting"} /\ frames = <<>> /\ at = 1
      /\ frames' = <<>> /\ at' = 1 /\ UNCHANGED <<call, list, r>>
  BY DEF Walk, NothingToWalk, OpenCapture, NoSpace, CloseCapture, HaltFirst,
         HaltNext, CloseSynthetic, ToldInv, PlaceInv, decode
<1>2. FramesInv'
  BY <1>1 DEF FramesInv
<1>3. ASSUME pc' = "decode", \E E, pos : Whole(E, pos)' PROVE DecodesInv'
  <2>1. PICK E, pos : Whole(E, pos)'
    BY <1>3
  <2>2. \E k : ReadTo(E, pos, k)'
    BY <1>1, <1>3, <2>1, DecodeStarts
  <2> QED
    BY <2>1, <2>2 DEF DecodesInv
<1>4. CASE NothingToWalk
  <2>1. pc' = "done" /\ ~ isopencap(list'[1])
    BY <1>1, <1>4 DEF NothingToWalk, Finish, ToldInv, PlaceInv
  <2> QED
    BY <1>2, <2>1 DEF WritesInv, DecodesInv, RoundTrip, Captured
<1>5. CASE OpenCapture
  BY <1>2, <1>5, OpenWrites DEF OpenCapture, DecodesInv, RoundTrip
<1>6. CASE NoSpace
  <2>1. result'.err = "STACK"
    BY <1>6 DEF NoSpace, Fails, ToldInv, PlaceInv
  <2> QED
    BY <1>2, <1>6, <2>1 DEF NoSpace, Fails, WritesInv, DecodesInv, RoundTrip,
                            Decodes
<1>7. CASE CloseCapture
  <2>1. pc' \in {"loop", "decode", "done"}
    BY <1>7, FinishPlace DEF CloseCapture
  <2>2. pc' = "decode" => call.etype = "byte"
    BY <1>1 DEF ToldInv, PlaceInv
  <2>3. WritesInv'
    BY <1>1, <1>7, <2>1, CloseWrites DEF WritesInv
  <2>4. DecodesInv'
    BY <1>1, <1>3, <1>7, <2>1, <2>2, CloseWrites DEF DecodesInv
  <2>5. RoundTrip'
    <3>1. SUFFICES ASSUME pc' = "done", call.etype = "byte", Readable(list)
                   PROVE  FALSE
      BY <1>1 DEF RoundTrip
    <3>2. PICK E, pos : Whole(E, pos)'
      BY <1>7, <3>1, CloseWrites
    <3>3. output' # <<>>
      BY <1>1, <3>2, WholeIsSome
    <3> QED
      BY <1>7, <3>1, <3>3 DEF CloseCapture, Finish
  <2> QED
    BY <1>2, <2>3, <2>4, <2>5
<1>8. CASE HaltFirst \/ HaltNext
  <2>1. pc' \in {"halting", "decode", "done"}
    BY <1>8, FinishPlace DEF HaltFirst, HaltNext, CloseSynthetic
  <2>2. pc' = "decode" => call.etype = "byte"
    BY <1>1 DEF ToldInv, PlaceInv
  <2>3. WritesInv'
    BY <1>1, <1>8, <2>1, HaltWrites DEF WritesInv
  <2>4. DecodesInv'
    BY <1>1, <1>3, <1>8, <2>1, <2>2, HaltWrites DEF DecodesInv
  <2>5. RoundTrip'
    <3>1. SUFFICES ASSUME pc' = "done", call.etype = "byte", Readable(list)
                   PROVE  FALSE
      BY <1>1 DEF RoundTrip
    <3>2. PICK E, pos : Whole(E, pos)'
      BY <1>8, <3>1, HaltWrites
    <3>3. output' # <<>>
      BY <1>1, <3>2, WholeIsSome
    <3> QED
      BY <1>8, <3>1, <3>3 DEF HaltFirst, HaltNext, CloseSynthetic, Finish
  <2> QED
    BY <1>2, <2>3, <2>4, <2>5
<1> QED
  BY <1>4, <1>5, <1>6, <1>7, <1>8 DEF Walk

LEMMA DecodeMeant ==
  ASSUME WalkAssumption, MeaningInv, Decode, WalkInv', ToldInv' PROVE MeaningInv'
<1> USE DEF MeaningInv
<1>1. WritesInv'
  BY DEF Decode, DecodeOpen, DecodeConst, DecodeBad, DecodeSub, DecodeClose,
         Decoded, Corrupt, Fails, WritesInv
<1>2. CASE DecodeOpen \/ DecodeConst
  <2>1. pc' = "subs"
    BY <1>2 DEF DecodeOpen, DecodeConst, Decoded
  <2> QED
    BY <1>1, <1>2, <2>1, OpenDecodes DEF FramesInv, Answered, RoundTrip
<1>3. CASE DecodeBad
  <2>1. pc' = "done" /\ result'.err = "CORRUPT"
    BY <1>3 DEF DecodeBad, Corrupt, Fails, ToldInv, PlaceInv
  <2>2. ~ Readable(list')
    <3>1. SUFFICES ASSUME Readable(list) PROVE FALSE
      BY <1>3 DEF DecodeBad, Corrupt
    <3>2. pc = "decode"
      BY <1>3 DEF DecodeBad
    <3>3. PICK E, pos : Whole(E, pos) /\ \E k : ReadTo(E, pos, k)
      BY <3>1, <3>2 DEF DecodesInv
    <3>4. PICK k : ReadTo(E, pos, k)
      BY <3>3
    <3>5. /\ k \in 0 .. Len(E) - 1 /\ isopencap(E[k + 1]) /\ at = pos[k] + 1
          /\ Depth(E, k) \in Nat
      BY <3>2, <3>4 DEF ReadTo, Tables, Path
    <3>6. HeadReadable /\ (IsConst => DataReadable)
      BY <3>3, <3>5, HeadRead
    <3> QED
      BY <1>3, <3>6 DEF DecodeBad
  <2> QED
    BY <1>1, <2>1, <2>2 DEF DecodesInv, FramesInv, Answered, RoundTrip
<1>4. CASE DecodeSub
  BY <1>1, <1>4, SubDecodes DEF DecodeSub, FramesInv, Answered, RoundTrip
<1>5. CASE DecodeClose
  <2>1. UNCHANGED list
    BY <1>5 DEF DecodeClose, Corrupt
  <2> QED
    BY <1>1, <1>5, <2>1, CloseDecodes DEF WalkInv, RoundTrip, Decodes
<1> QED
  BY <1>2, <1>3, <1>4, <1>5 DEF Decode

LEMMA NextMeant ==
  ASSUME WalkAssumption, MeaningInv, [Next]_vars PROVE MeaningInv'
<1>1. WalkInv'
  BY StepSound DEF MeaningInv
<1>2. CASE Entry
  BY <1>1, <1>2, EntryTold, EntryMeant DEF MeaningInv
<1>3. CASE Walk
  BY <1>1, <1>3, WalkTold, WalkMeant DEF MeaningInv
<1>4. CASE Decode
  BY <1>1, <1>4, DecodeTold, DecodeMeant DEF MeaningInv
<1>5. CASE UNCHANGED vars
  <2>1. UNCHANGED <<call, list, r, pc, cap, stack, output, result, at, frames>>
    BY <1>5 DEF vars, walk, decode
  <2>2. first' = first /\ last' = last /\ (Forward' <=> Forward)
    BY <2>1, RangeKept, ForwardKept
  <2>3. ToldInv'
    BY <2>1, <2>2
       DEF MeaningInv, ToldInv, ListInv, PlaceInv, ResultInv, Ready, Answered,
           Halted
  <2>4. \A E, pos : /\ Layout(E, pos) <=> Layout(E, pos)'
                    /\ Nested(E) <=> Nested(E)'
                    /\ Follows(E, Len(E)) <=> Follows(E, Len(E))'
    BY <2>1, <2>2 DEF Layout, Nested, Legible, Follows
  <2>5. WritesInv' /\ DecodesInv'
    <3>1. \A E, k : Tables(E, k) => Tables(E, k)'
      BY <2>1, TablesKept
    <3> QED
      BY <2>1, <2>4, <3>1
         DEF MeaningInv, WritesInv, DecodesInv, WroteBy, Whole, Reached, ReadTo
  <2>6. FramesInv'
    BY <2>1, <2>2 DEF MeaningInv, FramesInv, Answered
  <2>7. RoundTrip'
    BY <2>1 DEF MeaningInv, RoundTrip, Captured, Decodes
  <2> QED
    BY <1>1, <2>3, <2>5, <2>6, <2>7 DEF MeaningInv
<1> QED
  BY <1>2, <1>3, <1>4, <1>5 DEF Next, Step, Done

LEMMA MeaningInvariant == Spec => []MeaningInv
<1>1. Init => MeaningInv
  BY StartsMeant, WalkAssumption
<1>2. MeaningInv /\ [Next]_vars => MeaningInv'
  BY NextMeant, WalkAssumption
<1> QED
  BY <1>1, <1>2, PTL DEF Spec

(* The decoder's test for a nested match, which checks no bounds, always   *)
(* finds four bytes of data: for every list that can be read back, with    *)
(* bytes of any size.                                                      *)
THEOREM DecoderInsideCorrect == Spec => []DecoderInside
<1>1. MeaningInv => DecoderInside
  <2>1. SUFFICES ASSUME MeaningInv, pc = "subs", Readable(list)
                 PROVE  check_bounds(at, 4)
    BY DEF DecoderInside
  <2>2. PICK E, pos : Whole(E, pos) /\ \E k : ReadTo(E, pos, k)
    BY <2>1 DEF MeaningInv, DecodesInv
  <2>3. PICK k : ReadTo(E, pos, k)
    BY <2>2
  <2> QED
    BY <2>1, <2>2, <2>3, WalkAssumption, SubsPlace
<1> QED
  BY <1>1, MeaningInvariant, PTL

(* The decoded tables are the tree of the captures, their names, data and  *)
(* places: for every list, complete or cut off by a halt, that can be read *)
(* back, and every depth; or the stack was full.                           *)
THEOREM RoundTripCorrect == Spec => []RoundTrip
<1>1. MeaningInv => RoundTrip
  BY DEF MeaningInv
<1> QED
  BY <1>1, MeaningInvariant, PTL

(* What a call returns beside its data is true: whether a halt cut the     *)
(* match short, how much is left over, and where the decoded match lies,   *)
(* for every range, list and encoder.                                      *)
THEOREM ResultTellsCorrect == Spec => []ResultTells
<1>1. MeaningInv => ResultTells
  <2> SUFFICES ASSUME MeaningInv PROVE ResultTells
    OBVIOUS
  <2>1. AbendTells
    BY DEF MeaningInv, ToldInv, ResultInv, Ready, AbendTells
  <2>2. PartsOfRange
    <3>1. SUFFICES ASSUME Answered, list # <<>>
                   PROVE  /\ first + 1 \in 1 .. call.len + 1
                          /\ result.leftover \in 0 .. last
                          /\ Forward =>
                               /\ result.leftover <= last - first
                               /\ Readable(list) => \A i \in DOMAIN frames :
                                    /\ first + 1 <= frames[i].s
                                    /\ frames[i].s <= frames[i].e
                                    /\ frames[i].e <= last - result.leftover + 1
      <4>1. list # <<>> /\ ~ Halted => Forward
        BY DEF MeaningInv, ToldInv, ListInv
      <4> QED
        BY <4>1 DEF PartsOfRange
    <3>2. first \in Nat /\ last \in Int /\ call.len \in Nat
      BY WalkAssumption, RangeType DEF MeaningInv, WalkInv, WalkType
    <3>3. first <= call.len /\ first <= last /\ r \in Nat /\ r <= last
      BY <3>1 DEF MeaningInv, ToldInv, ListInv
    <3>4. result.leftover = last - r
      BY <3>1 DEF MeaningInv, ToldInv, ResultInv, Ready
    <3>5. Forward => first <= r
      BY DEF Forward
    <3>6. last - result.leftover + 1 = r + 1
      BY <3>2, <3>3, <3>4
    <3> QED
      BY <3>1, <3>2, <3>3, <3>4, <3>5, <3>6 DEF MeaningInv, FramesInv
  <2> QED
    BY <2>1, <2>2 DEF ResultTells
<1> QED
  BY <1>1, MeaningInvariant, PTL

(***************************************************************************)
(* The JSON text: the concatenation of sequences, and FlattenSeq when one  *)
(* more is added.                                                          *)
(***************************************************************************)
LEMMA Joined ==
  ASSUME NEW S, NEW a \in Seq(S), NEW b \in Seq(S), NEW c \in Seq(S)
  PROVE  /\ a \o b \in Seq(S) /\ (a \o b) \o c = a \o (b \o c)
         /\ a \o <<>> = a /\ <<>> \o a = a /\ <<>> \in Seq(S)
<1>1. (a \o b) \o c = a \o (b \o c)
  <2>1. /\ Len(a) \in Nat /\ Len(b) \in Nat /\ Len(c) \in Nat
        /\ a \o b \in Seq(S) /\ b \o c \in Seq(S)
        /\ Len(a \o b) = Len(a) + Len(b) /\ Len(b \o c) = Len(b) + Len(c)
    OBVIOUS
  <2>2. (a \o b) \o c \in Seq(S) /\ a \o (b \o c) \in Seq(S)
    BY <2>1
  <2>3. Len((a \o b) \o c) = Len(a \o (b \o c))
    BY <2>1
  <2>4. ASSUME NEW j \in 1 .. Len((a \o b) \o c)
        PROVE  ((a \o b) \o c)[j] = (a \o (b \o c))[j]
    BY <2>1, <2>2, <2>3
  <2> QED
    BY <2>2, <2>3, <2>4
<1> QED
  BY <1>1

LEMMA FlattenUnfolds ==
  ASSUME NEW S, NEW s \in Seq(Seq(S)), Len(s) # 0
  PROVE  \E f : /\ IsFlattened(f, s, Len(s)) /\ FlattenSeq(s) = f[Len(s)]
                /\ \A i \in 1 .. Len(s) : f[i] \in Seq(S)
<1>1. PICK n \in Nat \ {0} : n = Len(s)
  OBVIOUS
<1> DEFINE f == CHOOSE g : IsFlattened(g, s, n)
<1>2. IsFlattened(f, s, n)
  BY FlattenedExists
<1>3. FlattenSeq(s) = f[n]
  BY <1>1, Zenon DEF FlattenSeq, IsFlattened
<1> HIDE DEF f
<1>4. f[1] = s[1] /\ \A i \in 2 .. n : f[i] = f[i - 1] \o s[i]
  BY <1>2, FlattenedSteps
<1> DEFINE T == {i \in Nat : i \in 1 .. n /\ f[i] \notin Seq(S)}
<1>5. T = {}
  <2>1. SUFFICES ASSUME T # {} PROVE FALSE
    OBVIOUS
  <2>2. PICK i \in T : \A j \in T : i <= j
    BY <2>1, LeastNumber
  <2>3. i # 1
    BY <1>1, <1>4
  <2>4. i \in 2 .. n /\ i - 1 \in 1 .. n /\ i - 1 \in Nat /\ i - 1 \notin T
    BY <2>2, <2>3
  <2>5. f[i - 1] \in Seq(S) /\ s[i] \in Seq(S) /\ f[i] = f[i - 1] \o s[i]
    <3>1. f[i - 1] \in Seq(S)
      BY <2>4
    <3>2. s[i] \in Seq(S)
      BY <1>1, <2>4
    <3> QED
      BY <1>4, <2>4, <3>1, <3>2
  <2>6. f[i - 1] \o s[i] \in Seq(S)
    BY ONLY <2>5, Joined
  <2> QED
    BY <2>5, <2>6
<1> QED
  BY <1>1, <1>2, <1>3, <1>5

(* Two functions that flatten the same sequences agree. *)
LEMMA FlattenAgrees ==
  ASSUME NEW s, NEW t, NEW n \in Nat \ {0}, NEW m \in Nat \ {0}, n <= m,
         NEW f, IsFlattened(f, s, n), NEW g, IsFlattened(g, t, m),
         \A i \in 1 .. n : s[i] = t[i]
  PROVE  f[n] = g[n]
<1>1. /\ f[1] = s[1] /\ \A i \in 2 .. n : f[i] = f[i - 1] \o s[i]
      /\ g[1] = t[1] /\ \A i \in 2 .. m : g[i] = g[i - 1] \o t[i]
  <2>1. f[1] = s[1] /\ \A i \in 2 .. n : f[i] = f[i - 1] \o s[i]
    BY ONLY n \in Nat \ {0}, IsFlattened(f, s, n), FlattenedSteps
  <2>2. g[1] = t[1] /\ \A i \in 2 .. m : g[i] = g[i - 1] \o t[i]
    BY ONLY m \in Nat \ {0}, IsFlattened(g, t, m), FlattenedSteps
  <2> QED
    BY <2>1, <2>2
<1> DEFINE T == {i \in Nat : i \in 1 .. n /\ f[i] # g[i]}
<1>2. SUFFICES ASSUME T # {} PROVE FALSE
  OBVIOUS
<1>3. PICK i \in T : \A j \in T : i <= j
  BY <1>2, LeastNumber
<1>4. i # 1
  BY <1>1
<1>5. i \in 2 .. n /\ i \in 2 .. m /\ i \in 1 .. n /\ i - 1 \in 1 .. n /\ i - 1 \in Nat /\ i - 1 \notin T
  BY <1>3, <1>4
<1>6. f[i - 1] = g[i - 1] /\ s[i] = t[i]
  BY <1>5
<1> QED
  BY <1>1, <1>3, <1>5, <1>6

LEMMA FlattenMore ==
  ASSUME NEW S, NEW s \in Seq(Seq(S)), NEW x \in Seq(S)
  PROVE  /\ FlattenSeq(<<>>) = <<>>
         /\ FlattenSeq(s) \in Seq(S)
         /\ FlattenSeq(Append(s, x)) = FlattenSeq(s) \o x
<1> DEFINE t == Append(s, x)
<1>1. /\ t \in Seq(Seq(S)) /\ Len(t) = Len(s) + 1 /\ Len(s) \in Nat
      /\ \A i \in 1 .. Len(s) : t[i] = s[i]
      /\ t[Len(s) + 1] = x
  OBVIOUS
<1> HIDE DEF t
<1>2. FlattenSeq(<<>>) = <<>>
  BY DEF FlattenSeq
<1>3. Len(t) # 0
  BY <1>1
<1>4. PICK g : /\ IsFlattened(g, t, Len(t)) /\ FlattenSeq(t) = g[Len(t)]
               /\ \A i \in 1 .. Len(t) : g[i] \in Seq(S)
  BY ONLY <1>1, <1>3, FlattenUnfolds
<1>5. PICK n \in Nat : n = Len(s) /\ Len(t) = n + 1
  BY <1>1
<1>g. n + 1 \in Nat \ {0} /\ IsFlattened(g, t, n + 1)
  BY <1>4, <1>5
<1>6. g[1] = t[1] /\ \A i \in 2 .. n + 1 : g[i] = g[i - 1] \o t[i]
  BY ONLY <1>g, FlattenedSteps
<1>7. CASE n = 0
  <2>1. s = <<>> /\ FlattenSeq(s) = <<>>
    <3>1. s = <<>>
      <4>1. PICK T : T = Seq(S)
        OBVIOUS
      <4>2. s \in Seq(T) /\ Len(s) = 0
        BY <1>5, <1>7, <4>1
      <4> QED
        BY ONLY <4>2
    <3> QED
      BY ONLY <1>2, <3>1
  <2>2. FlattenSeq(t) = x
    BY <1>1, <1>4, <1>5, <1>6, <1>7
  <2> QED
    BY <1>2, <2>1, <2>2, Joined DEF t
<1>8. CASE n # 0
  <2>1. PICK f : /\ IsFlattened(f, s, Len(s)) /\ FlattenSeq(s) = f[Len(s)]
                 /\ \A i \in 1 .. Len(s) : f[i] \in Seq(S)
    BY <1>5, <1>8, FlattenUnfolds
  <2>2. f[n] = g[n]
    <3>1. n \in Nat \ {0} /\ n <= n + 1 /\ IsFlattened(f, s, n)
      BY <1>5, <1>8, <2>1
    <3>2. \A i \in 1 .. n : s[i] = t[i]
      BY <1>1, <1>5
    <3> QED
      BY ONLY <1>g, <3>1, <3>2, FlattenAgrees
  <2>3. n + 1 \in 2 .. n + 1 /\ (n + 1) - 1 = n /\ n \in 1 .. n
    BY <1>8
  <2>4. g[n + 1] = g[n] \o x
    BY <1>1, <1>5, <1>6, <2>3
  <2> QED
    BY <1>2, <1>4, <1>5, <2>1, <2>2, <2>3, <2>4 DEF t
<1> QED
  BY <1>7, <1>8

(* One capture of the text, when those inside it are known. *)
JsonToken == {"subs[", ",", "]", "}"} \cup ({"type", "s", "e", "data"} \X Int)
               \cup ({"text"} \X Int \X Int)

JsonItem(m, x)  == (IF m = 1 THEN <<>> ELSE <<",">>) \o x
JsonItems(q, f) == FlattenSeq([m \in DOMAIN q |-> JsonItem(m, f[q[m]])])
JsonHead(c)     == << <<"type", c.idx>>, <<"s", c.s + 1>> >>
JsonEnd(c, d)   ==
  << <<"e", d.s + 1>>,
     IF c.kind = "Crosieconst" THEN <<"data", d.idx>>
     ELSE <<"text", c.s, d.s>>, "}" >>
JsonSubs(q, f)  ==
  IF q = <<>> THEN <<>> ELSE <<"subs[">> \o JsonItems(q, f) \o <<"]">>
JsonNode(l, i, f) ==
  JsonHead(l[i]) \o JsonSubs(Inside(l, i), f) \o JsonEnd(l[i], l[CloseOf(l, i)])

IsJson(f, l) == f = [i \in DOMAIN l |-> JsonNode(l, i, f)]

LEMMA JsonNodeKept ==
  ASSUME NEW l, NEW i, NEW f, NEW g,
         \A m \in DOMAIN Inside(l, i) : f[Inside(l, i)[m]] = g[Inside(l, i)[m]]
  PROVE  JsonNode(l, i, f) = JsonNode(l, i, g)
<1> DEFINE q == Inside(l, i)
<1>1. [m \in DOMAIN q |-> JsonItem(m, f[q[m]])]
        = [m \in DOMAIN q |-> JsonItem(m, g[q[m]])]
  OBVIOUS
<1>2. JsonItems(q, f) = JsonItems(q, g)
  BY <1>1, Zenon DEF JsonItems
<1> QED
  BY <1>2, Zenon DEF JsonNode, JsonSubs

LEMMA JsonExists ==
  ASSUME NEW l \in Seq(Capture)
  PROVE  \E f : IsJson(f, l)
<1> DEFINE n == Len(l)
           Known(f, k) == f = [i \in n + 1 - k .. n |-> JsonNode(l, i, f)]
           T == {k \in Nat : k <= n /\ ~ \E f : Known(f, k)}
<1>0. n \in Nat /\ DOMAIN l = 1 .. n
  OBVIOUS
<1>1. T = {}
  <2>1. SUFFICES ASSUME T # {} PROVE FALSE
    OBVIOUS
  <2>2. PICK k \in T : \A j \in T : k <= j
    BY <2>1, LeastNumber
  <2>3. k # 0
    <3>1. n + 1 - 0 .. n = {}
      BY <1>0
    <3> DEFINE f == [i \in {} |-> 0]
    <3>2. f = [i \in n + 1 - 0 .. n |-> JsonNode(l, i, f)]
      BY <3>1
    <3>3. Known(f, 0)
      BY <3>2
    <3> QED
      BY <2>2, <3>3
  <2>4. k - 1 \in Nat /\ k - 1 \notin T /\ k <= n
    BY <2>2, <2>3
  <2>5. PICK f : Known(f, k - 1)
    BY <2>4
  <2> DEFINE lo == n + 1 - k
             g == [i \in lo .. n |-> IF i = lo THEN JsonNode(l, lo, f) ELSE f[i]]
             h == [i \in lo .. n |-> JsonNode(l, i, g)]
  <2>6. /\ lo \in 1 .. n /\ n + 1 - (k - 1) = lo + 1
    BY <1>0, <2>3, <2>4
  <2>7. f = [i \in lo + 1 .. n |-> JsonNode(l, i, f)]
    BY <2>5, <2>6
  <2>8. \A i \in lo + 1 .. n : f[i] = JsonNode(l, i, f)
    <3> HIDE DEF n, lo
    <3>1. \A i \in lo + 1 .. n : [j \in lo + 1 .. n |-> JsonNode(l, j, f)][i] = JsonNode(l, i, f)
      OBVIOUS
    <3> QED
      BY <2>7, <3>1, Zenon
  <2>9. \A i \in lo .. n : h[i] = JsonNode(l, i, g)
    OBVIOUS
  <2>10. \A i \in lo .. n : g[i] = IF i = lo THEN JsonNode(l, lo, f) ELSE f[i]
    OBVIOUS
  <2> HIDE DEF g, h
  <2>11. ASSUME NEW i \in lo .. n PROVE JsonNode(l, i, g) = JsonNode(l, i, f)
    <3>1. i \in 1 .. n
      BY <2>6
    <3>2. /\ Within(l, i) \subseteq i + 1 .. n
          /\ \E m : Enumerates(Inside(l, i), m, Within(l, i))
      BY <1>0, <3>1, InsideIs
    <3>3. ASSUME NEW m \in DOMAIN Inside(l, i)
          PROVE  g[Inside(l, i)[m]] = f[Inside(l, i)[m]]
      <4>1. Inside(l, i)[m] \in i + 1 .. n
        BY <3>2 DEF Enumerates
      <4>2. Inside(l, i)[m] \in lo .. n /\ Inside(l, i)[m] # lo
        BY <2>6, <4>1
      <4> QED
        BY <2>10, <4>2
    <3> QED
      BY <3>3, JsonNodeKept, Zenon
  <2>12. ASSUME NEW i \in lo .. n PROVE g[i] = h[i]
    <3>1. CASE i = lo
      BY <2>9, <2>10, <2>11, <3>1
    <3>2. CASE i # lo
      <4>1. i \in lo + 1 .. n
        BY <2>6, <3>2
      <4> QED
        BY <2>8, <2>9, <2>10, <2>11, <3>2, <4>1
    <3> QED
      BY <3>1, <3>2
  <2>13. g = h
    BY <2>12 DEF g, h
  <2>14. Known(g, k)
    BY <2>13 DEF h
  <2> QED
    BY <2>2, <2>14
<1>2. PICK f : Known(f, n)
  BY <1>0, <1>1
<1>3. n + 1 - n .. n = DOMAIN l
  BY <1>0
<1>4. f = [i \in n + 1 - n .. n |-> JsonNode(l, i, f)]
  BY <1>2
<1>5. f = [i \in DOMAIN l |-> JsonNode(l, i, f)]
  BY <1>3, <1>4
<1> QED
  BY <1>5 DEF IsJson

(* The nodes of JsonOf(l), of which the first is the text. *)
Texts(l) == CHOOSE f : IsJson(f, l)

LEMMA JsonIs ==
  ASSUME NEW l \in Seq(Capture)
  PROVE  /\ JsonOf(l) = Texts(l)[1]
         /\ \A i \in DOMAIN l : Texts(l)[i] = JsonNode(l, i, Texts(l))
<1>1. IsJson(Texts(l), l)
  BY JsonExists DEF Texts
<1>2. JsonOf(l) = Texts(l)[1]
  BY Zenon DEF JsonOf, Texts, IsJson, JsonNode, JsonSubs, JsonItems, JsonItem,
               JsonHead, JsonEnd
<1>3. \A i \in DOMAIN l : Texts(l)[i] = JsonNode(l, i, Texts(l))
  <2> DEFINE N == Texts(l)
  <2>1. N = [i \in DOMAIN l |-> JsonNode(l, i, N)]
    BY <1>1 DEF IsJson
  <2> HIDE DEF N
  <2>2. \A i \in DOMAIN l : [j \in DOMAIN l |-> JsonNode(l, j, N)][i] = JsonNode(l, i, N)
    OBVIOUS
  <2> QED
    BY <2>1, <2>2, Zenon DEF N
<1> QED
  BY <1>2, <1>3

LEMMA JsonTyped ==
  /\ \A c, d \in Capture :
       JsonHead(c) \in Seq(JsonToken) /\ JsonEnd(c, d) \in Seq(JsonToken)
  /\ <<",">> \in Seq(JsonToken) /\ <<"subs[">> \in Seq(JsonToken)
  /\ <<"]">> \in Seq(JsonToken) /\ <<>> \in Seq(JsonToken)
<1>1. ASSUME NEW c \in Capture, NEW d \in Capture
      PROVE  JsonHead(c) \in Seq(JsonToken) /\ JsonEnd(c, d) \in Seq(JsonToken)
  <2>1. c.idx \in Int /\ d.idx \in Int /\ c.s \in Int /\ d.s \in Int
    BY DEF Capture
  <2>2. c.s + 1 \in Int /\ d.s + 1 \in Int
    BY <2>1
  <2>3. /\ <<"type", c.idx>> \in JsonToken /\ <<"s", c.s + 1>> \in JsonToken
        /\ <<"e", d.s + 1>> \in JsonToken /\ <<"data", d.idx>> \in JsonToken
        /\ <<"text", c.s, d.s>> \in JsonToken /\ "}" \in JsonToken
    BY <2>1, <2>2 DEF JsonToken
  <2>4. PICK p \in JsonToken, q \in JsonToken, u \in JsonToken,
             v \in JsonToken, w \in JsonToken :
          /\ p = <<"type", c.idx>> /\ q = <<"s", c.s + 1>>
          /\ u = <<"e", d.s + 1>> /\ w = "}"
          /\ v = IF c.kind = "Crosieconst" THEN <<"data", d.idx>>
                 ELSE <<"text", c.s, d.s>>
    BY <2>3
  <2>5. JsonHead(c) = <<p, q>> /\ JsonEnd(c, d) = <<u, v, w>>
    BY <2>4, Zenon DEF JsonHead, JsonEnd
  <2>6. <<p, q>> \in Seq(JsonToken) /\ <<u, v, w>> \in Seq(JsonToken)
    OBVIOUS
  <2> QED
    BY <2>5, <2>6
<1>2. /\ "," \in JsonToken /\ "subs[" \in JsonToken /\ "]" \in JsonToken
  BY DEF JsonToken
<1>3. \A x \in JsonToken : <<x>> \in Seq(JsonToken)
  OBVIOUS
<1>4. <<>> \in Seq(JsonToken)
  OBVIOUS
<1> QED
  BY ONLY <1>1, <1>2, <1>3, <1>4

LEMMA JsonItemsTyped ==
  ASSUME NEW q \in Seq(Int), NEW f,
         \A m \in DOMAIN q : f[q[m]] \in Seq(JsonToken)
  PROVE  JsonItems(<<>>, f) = <<>> /\ JsonItems(q, f) \in Seq(JsonToken)
<1>1. PICK T : T = Seq(JsonToken)
  OBVIOUS
<1>2. PICK s : s = [m \in DOMAIN q |-> JsonItem(m, f[q[m]])]
  OBVIOUS
<1>3. s \in Seq(T)
  <2>1. \A m \in DOMAIN q : JsonItem(m, f[q[m]]) \in T
    BY <1>1, Joined, JsonTyped DEF JsonItem
  <2>2. PICK n \in Nat : n = Len(q) /\ DOMAIN q = 1 .. n
    OBVIOUS
  <2> QED
    BY <1>2, <2>1, <2>2
<1>4. JsonItems(<<>>, f) = <<>>
  <2>1. [m \in DOMAIN <<>> |-> JsonItem(m, f[<<>>[m]])] = <<>>
    OBVIOUS
  <2> QED
    BY <2>1 DEF JsonItems, FlattenSeq
<1>5. JsonItems(q, f) = FlattenSeq(s)
  BY <1>2, Zenon DEF JsonItems
<1>6. FlattenSeq(s) \in Seq(JsonToken)
  <2>1. s \in Seq(Seq(JsonToken)) /\ <<>> \in Seq(JsonToken)
    BY <1>1, <1>3
  <2> QED
    BY ONLY <2>1, FlattenMore
<1> QED
  BY <1>4, <1>5, <1>6

LEMMA JsonItemsMore ==
  ASSUME NEW q \in Seq(Int), NEW z \in Int, NEW f, f[z] \in Seq(JsonToken),
         \A m \in DOMAIN q : f[q[m]] \in Seq(JsonToken)
  PROVE  JsonItems(Append(q, z), f)
           = JsonItems(q, f) \o JsonItem(Len(q) + 1, f[z])
<1>1. PICK n \in Nat : n = Len(q) /\ DOMAIN q = 1 .. n
  OBVIOUS
<1>2. \A m, x : x \in Seq(JsonToken) => JsonItem(m, x) \in Seq(JsonToken)
  BY Joined, JsonTyped DEF JsonItem
<1>3. PICK s : s = [m \in 1 .. n |-> JsonItem(m, f[q[m]])]
  OBVIOUS
<1>4. PICK T : T = Seq(JsonToken)
  OBVIOUS
<1>5. s \in Seq(T) /\ Len(s) = n
  <2>1. \A m \in 1 .. n : JsonItem(m, f[q[m]]) \in T
    BY <1>1, <1>2, <1>4
  <2> QED
    BY <1>3, <2>1
<1>6. PICK x \in T : x = JsonItem(n + 1, f[z])
  BY <1>2, <1>4
<1>7. [m \in DOMAIN Append(q, z) |-> JsonItem(m, f[Append(q, z)[m]])] = Append(s, x)
  <2>1. PICK p : p = Append(q, z)
    OBVIOUS
  <2>2. /\ DOMAIN p = 1 .. n + 1 /\ p[n + 1] = z
        /\ \A m \in 1 .. n : p[m] = q[m]
    BY <1>1, <2>1
  <2>3. Append(s, x) = [m \in 1 .. n + 1 |-> IF m = n + 1 THEN x ELSE s[m]]
    BY <1>3, MapIsSeq
  <2>4. \A m \in 1 .. n + 1 :
          JsonItem(m, f[p[m]]) = IF m = n + 1 THEN x ELSE s[m]
    <3>1. \A m \in 1 .. n + 1 : m = n + 1 \/ m \in 1 .. n
      OBVIOUS
    <3> QED
      BY <1>3, <1>6, <2>2, <3>1
  <2> QED
    BY <2>1, <2>2, <2>3, <2>4
<1>9. JsonItems(q, f) = FlattenSeq(s)
  BY <1>1, <1>3, Zenon DEF JsonItems
<1>10. JsonItems(Append(q, z), f) = FlattenSeq(Append(s, x))
  BY <1>7, Zenon DEF JsonItems
<1>11. FlattenSeq(Append(s, x)) = FlattenSeq(s) \o x
  <2>1. s \in Seq(Seq(JsonToken)) /\ x \in Seq(JsonToken)
    BY <1>4, <1>5
  <2> QED
    BY ONLY <2>1, FlattenMore
<1> QED
  BY <1>1, <1>6, <1>9, <1>10, <1>11

(* Opening, items and closing of a capture, behind what was before. *)
Cat(x, y) == x \o y

LEMMA CatIs ==
  ASSUME NEW S
  PROVE  /\ \A x, y \in Seq(S) : Cat(x, y) \in Seq(S)
         /\ \A x, y, z \in Seq(S) : Cat(Cat(x, y), z) = Cat(x, Cat(y, z))
<1>1. ASSUME NEW x \in Seq(S), NEW y \in Seq(S), NEW z \in Seq(S)
      PROVE  Cat(x, y) \in Seq(S) /\ Cat(Cat(x, y), z) = Cat(x, Cat(y, z))
  BY Joined DEF Cat
<1> QED
  BY <1>1

Together(S, a, b, c, d, e, f, g) ==
  /\ Cat(Cat(Cat(a, Cat(Cat(b, c), d)), e), Cat(f, g))
       = Cat(a, Cat(b, Cat(Cat(c, Cat(Cat(d, e), f)), g)))
  /\ Cat(Cat(c, Cat(Cat(d, e), f)), g) \in Seq(S)

LEMMA JsonJoins ==
  ASSUME NEW S, NEW a \in Seq(S), NEW b \in Seq(S), NEW c \in Seq(S),
         NEW d \in Seq(S), NEW e \in Seq(S), NEW f \in Seq(S), NEW g \in Seq(S)
  PROVE  Together(S, a, b, c, d, e, f, g)
<1>1. \A x, y \in Seq(S) : Cat(x, y) \in Seq(S)
  BY CatIs
<1>2. \A x, y, z \in Seq(S) : Cat(Cat(x, y), z) = Cat(x, Cat(y, z))
  BY CatIs
<1> DEFINE fg == Cat(f, g)
           efg == Cat(e, fg)
           defg == Cat(d, efg)
<1>3. fg \in Seq(S) /\ efg \in Seq(S) /\ defg \in Seq(S) /\ Cat(c, defg) \in Seq(S)
  BY <1>1
<1>4. Cat(Cat(Cat(a, Cat(Cat(b, c), d)), e), fg) = Cat(a, Cat(b, Cat(c, defg)))
  <2>1. Cat(Cat(b, c), d) \in Seq(S) /\ Cat(b, c) \in Seq(S)
        /\ Cat(a, Cat(Cat(b, c), d)) \in Seq(S)
    BY <1>1
  <2> HIDE DEF fg
  <2>2. Cat(Cat(Cat(a, Cat(Cat(b, c), d)), e), fg)
          = Cat(Cat(a, Cat(Cat(b, c), d)), efg)
    BY <1>2, <1>3, <2>1
  <2> HIDE DEF efg
  <2>3. Cat(Cat(a, Cat(Cat(b, c), d)), efg) = Cat(a, Cat(Cat(Cat(b, c), d), efg))
    BY <1>2, <1>3, <2>1
  <2>4. Cat(Cat(Cat(b, c), d), efg) = Cat(Cat(b, c), defg)
    BY <1>2, <1>3, <2>1
  <2> HIDE DEF defg
  <2>5. Cat(Cat(b, c), defg) = Cat(b, Cat(c, defg))
    BY <1>2, <1>3
  <2> QED
    BY <2>2, <2>3, <2>4, <2>5
<1>5. Cat(Cat(c, Cat(Cat(d, e), f)), g) = Cat(c, defg)
  <2>1. Cat(d, e) \in Seq(S) /\ Cat(Cat(d, e), f) \in Seq(S)
    BY <1>1
  <2>2. Cat(Cat(c, Cat(Cat(d, e), f)), g) = Cat(c, Cat(Cat(Cat(d, e), f), g))
    BY <1>2, <2>1
  <2>3. Cat(Cat(Cat(d, e), f), g) = Cat(Cat(d, e), fg)
    BY <1>2, <2>1
  <2>4. Cat(Cat(d, e), fg) = defg
    BY <1>2, <1>3
  <2> QED
    BY <2>2, <2>3, <2>4
<1> QED
  BY <1>3, <1>4, <1>5 DEF Together

(***************************************************************************)
(* A close: where the capture that it closes is, and what is inside.       *)
(***************************************************************************)
LEMMA LeafAt ==
  ASSUME NEW E, NEW k \in Nat, NEW op, NEW ch, Path(E, k, op, ch),
         ~ isopencap(E[k + 1]), NEW n, n = Depth(E, k), n > 0,
         NEW i, i = op[n]
  PROVE  /\ i \in 1 .. k /\ isopencap(E[i])
         /\ ch[n] = <<>> <=> i = k
         /\ isopencap(E[i + 1]) <=> i # k
         /\ isopencap(E[k]) <=> i = k
<1>1. n \in Nat /\ n \in 1 .. n
  BY DEF Path
<1>2. /\ OpenAt(E, k, n, i)
      /\ Enumerates(ch[n], Len(ch[n]), Complete(E, k, op, n))
  BY <1>1 DEF Path
<1>3. /\ i \in 1 .. k /\ isopencap(E[i]) /\ Depth(E, i) = n
      /\ \A j \in i .. k : Depth(E, j) >= n
  BY <1>2 DEF OpenAt
<1>4. Complete(E, k, op, n) = Inner(E, i, k)
  BY <1>1 DEF Complete
<1>5. CASE i = k
  <2>1. Inner(E, i, k) = {}
    BY <1>3, <1>5 DEF Inner
  <2>2. ch[n] = <<>>
    <3>0. Len(ch[n]) \in Nat /\ ch[n] \in [1 .. Len(ch[n]) -> {}]
      BY <1>2, <1>4, <2>1 DEF Enumerates
    <3>1. PICK m, q : /\ m = Len(ch[n]) /\ q = ch[n] /\ m \in Nat
                      /\ q \in [1 .. m -> {}]
      BY <3>0
    <3>2. m = 0
      <4>1. 1 \in 1 .. m => q[1] \in {}
        BY <3>1
      <4>2. m \in Nat
        BY <3>1
      <4> QED
        BY <4>1, <4>2
    <3>3. q = <<>>
      BY <3>1, <3>2
    <3> QED
      BY <3>1, <3>3
  <2> QED
    BY <1>3, <1>5, <2>2
<1>6. CASE i # k
  <2>1. i + 1 \in i .. k /\ i \in Nat
    BY <1>3, <1>6
  <2>2. isopencap(E[i + 1]) /\ Depth(E, i + 1) = n + 1
    <3>1. Depth(E, i + 1) = IF isopencap(E[i + 1]) THEN n + 1 ELSE n - 1
      BY <1>3, <2>1, DepthOfNext
    <3> QED
      BY <1>1, <1>3, <2>1, <3>1
  <2>3. i + 1 \in Inner(E, i, k)
    BY <1>3, <2>1, <2>2 DEF Inner
  <2>4. ch[n] # <<>>
    <3>1. PICK m \in 1 .. Len(ch[n]) : ch[n][m] = i + 1
      BY <1>2, <1>4, <2>3 DEF Enumerates
    <3> QED
      BY <3>1
  <2>5. ~ isopencap(E[k])
    <3>1. PICK h \in Nat : k = h + 1 /\ h \in i .. k
      BY <1>3, <1>6
    <3>2. /\ Depth(E, h) \in Int
          /\ Depth(E, k) = IF isopencap(E[k]) THEN Depth(E, h) + 1
                           ELSE Depth(E, h) - 1
      BY <3>1, DepthOfNext
    <3> QED
      BY <1>1, <1>3, <3>1, <3>2
  <2> QED
    BY <1>3, <1>6, <2>2, <2>4, <2>5
<1> QED
  BY <1>5, <1>6

(* The data of a constant are at its close, which comes at once. *)
LEMMA ConstantCloses ==
  ASSUME NEW E, Ordered(E), NEW k \in Nat, k + 1 \in 1 .. Len(E) - 1,
         NEW op, NEW ch, Path(E, k, op, ch),
         ~ isopencap(E[k + 1]), NEW n, n = Depth(E, k), n > 0,
         NEW i, i = op[n]
  PROVE  E[i].kind = "Crosieconst" <=> E[k + 1].kind = "Ccloseconst"
<1>1. /\ i \in 1 .. k /\ isopencap(E[i])
      /\ isopencap(E[i + 1]) <=> i # k
      /\ isopencap(E[k]) <=> i = k
  BY LeafAt
<1>2. k \in 1 .. Len(E) - 1 /\ i \in 1 .. Len(E) - 1
  BY <1>1
<1>3. /\ E[k].kind = "Crosieconst" <=> E[k + 1].kind = "Ccloseconst"
      /\ E[i].kind = "Crosieconst" <=> E[i + 1].kind = "Ccloseconst"
  BY <1>2 DEF Ordered
<1> QED
  BY <1>1, <1>3 DEF isopencap

(* What is written between the open and the close of a capture is the text *)
(* of this capture, behind the comma that separates it from another.       *)
TextClosed(k, i, q, f, pre, b) ==
  /\ f[i] \in Seq(JsonToken)
  /\ ((pre \o json_Open(list[i], list[i + 1], b)) \o JsonItems(q, f))
       \o json_Close(list[k + 1], list[k], capstart(list[i]))
       = pre \o JsonItem(b + 1, f[i])

LEMMA TextCloses ==
  ASSUME list \in Seq(Capture), Ordered(list), NEW k \in Nat,
         k + 1 \in 1 .. Len(list) - 1, ~ isopencap(list[k + 1]),
         NEW op, NEW ch, Path(list, k, op, ch), NEW n, n = Depth(list, k), n > 0,
         NEW i, i = op[n], NEW q, q = ch[n], NEW f, f = Texts(list),
         \A m \in DOMAIN q : f[q[m]] \in Seq(JsonToken), q \in Seq(Int),
         NEW pre \in Seq(JsonToken), NEW b \in Nat
  PROVE  TextClosed(k, i, q, f, pre, b)
<1>1. /\ i \in 1 .. k /\ isopencap(list[i])
      /\ q = <<>> <=> i = k
      /\ isopencap(list[i + 1]) <=> i # k
      /\ isopencap(list[k]) <=> i = k
  BY LeafAt
<1>2. list[i].kind = "Crosieconst" <=> list[k + 1].kind = "Ccloseconst"
  BY ConstantCloses
<1>3. PICK c : c = CloseOf(list, i)
  OBVIOUS
<1>4. c = k + 1 /\ Inside(list, i) = q /\ i \in 1 .. Len(list) - 1
  <2>1. Follows(list, k + 1)
    BY DEF Follows
  <2>2. k + 1 < Len(list)
    OBVIOUS
  <2> QED
    BY <1>3, <2>1, <2>2, ClosesAt
<1>5. f[i] = JsonNode(list, i, f)
  <2>1. i \in DOMAIN list
    BY <1>4
  <2> QED
    BY <2>1, JsonIs
<1> DEFINE comma == IF b > 0 THEN <<",">> ELSE <<>>
           head  == JsonHead(list[i])
           subs  == IF isopencap(list[i + 1]) THEN <<"subs[">> ELSE <<>>
           items == JsonItems(q, f)
           close == IF isopencap(list[k]) THEN <<>> ELSE <<"]">>
           tail  == JsonEnd(list[i], list[k + 1])
<1>6. /\ comma \in Seq(JsonToken) /\ head \in Seq(JsonToken)
      /\ subs \in Seq(JsonToken) /\ items \in Seq(JsonToken)
      /\ close \in Seq(JsonToken) /\ tail \in Seq(JsonToken)
  <2>1. list[i] \in Capture /\ list[k + 1] \in Capture
    BY <1>4
  <2>2. items \in Seq(JsonToken)
    BY JsonItemsTyped
  <2> QED
    BY <2>1, <2>2, JsonTyped
<1>7. json_Open(list[i], list[i + 1], b) = Cat(Cat(comma, head), subs)
  BY Zenon DEF json_Open, JsonHead, Cat
<1>8. json_Close(list[k + 1], list[k], capstart(list[i])) = Cat(close, tail)
  <2>1. JsonEnd(list[i], list[k + 1])
          = << <<"e", list[k + 1].s + 1>>,
               IF list[k + 1].kind = "Ccloseconst"
               THEN <<"data", list[k + 1].idx>>
               ELSE <<"text", capstart(list[i]), list[k + 1].s>>, "}" >>
    BY <1>2 DEF JsonEnd, capstart
  <2> QED
    BY <2>1, Zenon DEF json_Close, Cat
<1>9. JsonSubs(q, f) = Cat(Cat(subs, items), close)
  <2>1. CASE i = k
    <3>1. items = <<>>
      BY <1>1, <2>1, JsonItemsTyped
    <3> QED
      BY <1>1, <2>1, <3>1 DEF JsonSubs, Cat
  <2>2. CASE i # k
    BY <1>1, <2>2, Zenon DEF JsonSubs, Cat
  <2> QED
    BY <2>1, <2>2
<1>10. f[i] = Cat(Cat(head, Cat(Cat(subs, items), close)), tail)
  BY <1>3, <1>4, <1>5, <1>9, Zenon DEF JsonNode, Cat
<1>11. JsonItem(b + 1, f[i]) = Cat(comma, f[i])
  <2>1. b + 1 = 1 <=> ~ (b > 0)
    OBVIOUS
  <2> QED
    BY <2>1, Zenon DEF JsonItem, Cat
<1> HIDE DEF comma, head, subs, items, close, tail
<1>12. /\ Cat(Cat(Cat(pre, Cat(Cat(comma, head), subs)), items), Cat(close, tail))
            = Cat(pre, Cat(comma, f[i]))
       /\ f[i] \in Seq(JsonToken)
  <2>1. /\ Cat(Cat(Cat(pre, Cat(Cat(comma, head), subs)), items),
               Cat(close, tail))
             = Cat(pre, Cat(comma, Cat(Cat(head, Cat(Cat(subs, items), close)),
                                       tail)))
        /\ Cat(Cat(head, Cat(Cat(subs, items), close)), tail)
             \in Seq(JsonToken)
    <3>1. Together(JsonToken, pre, comma, head, subs, items, close, tail)
      BY ONLY <1>6, pre \in Seq(JsonToken), JsonJoins, Zenon
    <3> QED
      BY ONLY <3>1, Zenon DEF Together
  <2> QED
    BY <1>10, <2>1, Zenon
<1> QED
  BY <1>7, <1>8, <1>11, <1>12, Zenon DEF Cat, items, TextClosed

(***************************************************************************)
(* The JSON text as far as it is written: what was written when each open  *)
(* capture began, its beginning, and the texts of the complete ones inside *)
(* it.  The stack has the start of each, and how many precede it.          *)
(***************************************************************************)
Before(ch, d) == IF d = 1 THEN 0 ELSE Len(ch[d - 1])

WroteText(op, ch, pre, n) ==
  /\ n = Len(stack) /\ Path(list, cap - 1, op, ch) /\ Depth(list, cap - 1) = n
  /\ count = Before(ch, n + 1)
  /\ pre[1] = <<>> /\ pre[n + 1] = output
  /\ \A d \in 1 .. n + 1 : pre[d] \in Seq(JsonToken)
  /\ \A d \in 1 .. n :
       /\ stack[d].start = capstart(list[op[d]])
       /\ stack[d].count = Before(ch, d)
       /\ \A m \in DOMAIN ch[d] : Texts(list)[ch[d][m]] \in Seq(JsonToken)
       /\ pre[d + 1] = (pre[d] \o json_Open(list[op[d]], list[op[d] + 1],
                                            Before(ch, d)))
                         \o JsonItems(ch[d], Texts(list))

TextInv ==
  /\ pc = "call" => count = 0
  /\ pc \in {"walk", "loop"} /\ call.etype = "json" =>
       \E op, ch, pre, n : WroteText(op, ch, pre, n)

LEMMA NoText ==
  ASSUME cap' = 1, stack' = <<>>, output' = <<>>, count' = 0
  PROVE  \E op, ch, pre, n : WroteText(op, ch, pre, n)'
<1>1. PICK op, ch, pre, n :
        op = <<>> /\ ch = <<>> /\ pre = [d \in {1} |-> <<>>] /\ n = 0
  OBVIOUS
<1>2. Path(list', 0, op, ch) /\ Depth(list', 0) = 0
  BY EmptyPath, DepthOfNone
<1>3. cap' - 1 = 0 /\ n = Len(stack') /\ n + 1 = 1
  BY <1>1
<1>4. count' = Before(ch, n + 1)
  BY <1>3 DEF Before
<1>5. <<>> \in Seq(JsonToken) /\ pre[1] = <<>>
  BY <1>1, JsonTyped
<1>6. 1 .. n = {} /\ 1 .. n + 1 = {1}
  BY <1>1
<1>7. WroteText(op, ch, pre, n)'
  BY <1>1, <1>2, <1>3, <1>4, <1>5, <1>6 DEF WroteText
<1> QED
  BY <1>7

LEMMA OpenTyped ==
  ASSUME NEW c \in Capture, NEW next, NEW n
  PROVE  json_Open(c, next, n) \in Seq(JsonToken)
<1> DEFINE comma == IF n > 0 THEN <<",">> ELSE <<>>
           head  == JsonHead(c)
           subs  == IF isopencap(next) THEN <<"subs[">> ELSE <<>>
<1>1. comma \in Seq(JsonToken) /\ head \in Seq(JsonToken) /\ subs \in Seq(JsonToken)
  BY JsonTyped
<1>2. json_Open(c, next, n) = Cat(Cat(comma, head), subs)
  BY Zenon DEF json_Open, JsonHead, Cat
<1> HIDE DEF comma, head, subs
<1> QED
  BY <1>1, <1>2, CatIs

LEMMA OpenTexts ==
  ASSUME WalkAssumption, WalkInv, TextInv, OpenCapture, call.etype = "json"
  PROVE  \E op, ch, pre, n : WroteText(op, ch, pre, n)'
<1>1. /\ Enclosed(list) /\ list \in Seq(Capture) /\ cap \in 1 .. Len(list)
      /\ isopencap(list[cap]) /\ cap' = cap + 1 /\ count' = 0
      /\ UNCHANGED <<call, list>> /\ count \in Nat
      /\ output' = output \o json_Open(list[cap], list[cap + 1], count)
      /\ stack \in Seq(Frame)
  <2>1. /\ Enclosed(list) /\ list \in Seq(Capture) /\ cap \in 1 .. Len(list)
    BY DEF OpenCapture, Given, BeforeLoop, StackTracks, WalkType, Enclosed,
           WalkInv
  <2>2. output' = output \o json_Open(list[cap], list[cap + 1], count)
    BY DEF OpenCapture, Open
  <2> QED
    BY <2>1, <2>2 DEF OpenCapture, WalkInv, WalkType
<1>2. PICK op, ch, pre, n : WroteText(op, ch, pre, n)
  BY DEF TextInv, OpenCapture
<1>3. PICK f \in Frame : f = [start |-> capstart(list[cap]), count |-> count]
  <2>1. list[cap] \in Capture
    BY <1>1
  <2>2. capstart(list[cap]) \in Nat \cup {NULL}
    BY <2>1 DEF capstart, Capture
  <2> QED
    BY <1>1, <2>2 DEF Frame
<1>4. stack' = Append(stack, f)
  BY <1>3, PushSound DEF OpenCapture, WalkInv
<1>5. /\ n \in Nat /\ n = Len(stack) /\ Len(stack') = n + 1
      /\ stack'[n + 1] = f /\ \A d \in 1 .. n : stack'[d] = stack[d]
  BY <1>1, <1>2, <1>4, AppendIs DEF WroteText
<1>6. PICK k \in Nat : k = cap - 1 /\ cap = k + 1
  <2>1. cap - 1 \in Nat /\ cap = (cap - 1) + 1
    BY ONLY <1>1
  <2> QED
    BY ONLY <2>1
<1>7. /\ Path(list, k, op, ch) /\ Depth(list, k) = n /\ count = Before(ch, n + 1)
      /\ pre[1] = <<>> /\ pre[n + 1] = output
      /\ \A d \in 1 .. n + 1 : pre[d] \in Seq(JsonToken)
  BY <1>2, <1>6 DEF WroteText
<1>8. PICK p, q, o :
        /\ p = [d \in 1 .. n + 1 |-> IF d = n + 1 THEN k + 1 ELSE op[d]]
        /\ q = [d \in 1 .. n + 1 |-> IF d = n + 1 THEN <<>> ELSE ch[d]]
        /\ o = [d \in 1 .. n + 2 |-> IF d = n + 2 THEN output' ELSE pre[d]]
  OBVIOUS
<1>9. /\ p[n + 1] = k + 1 /\ q[n + 1] = <<>> /\ o[n + 2] = output'
      /\ \A d \in 1 .. n : p[d] = op[d] /\ q[d] = ch[d]
      /\ \A d \in 1 .. n + 1 : o[d] = pre[d]
  <2>1. \A d \in 1 .. n + 1 : d \in 1 .. n + 2 /\ d # n + 2
    BY <1>5
  <2> QED
    BY <1>5, <1>8, <2>1
<1>10. Path(list, k + 1, p, q)
  BY ONLY <1>1, <1>6, <1>7, <1>9, PathOpens
<1>11. Depth(list, k + 1) = n + 1
  BY <1>1, <1>6, <1>7, DepthOfNext
<1>12. \A d \in 1 .. n + 1 : Before(q, d) = Before(ch, d)
  <2>1. ASSUME NEW d \in 1 .. n + 1, d # 1 PROVE q[d - 1] = ch[d - 1]
    BY <1>5, <1>9, <2>1
  <2> QED
    BY <2>1 DEF Before
<1>13. Before(q, (n + 1) + 1) = 0
  <2>1. (n + 1) + 1 # 1 /\ ((n + 1) + 1) - 1 = n + 1
    BY <1>5
  <2> QED
    BY <1>9, <2>1 DEF Before
<1>14. output' \in Seq(JsonToken)
  <2>1. list[cap] \in Capture /\ output \in Seq(JsonToken)
    BY <1>1, <1>5, <1>7
  <2>2. json_Open(list[cap], list[cap + 1], count) \in Seq(JsonToken)
    BY <2>1, OpenTyped
  <2> QED
    BY <1>1, <2>1, <2>2, Joined
<1>15. output' = (o[n + 1] \o json_Open(list[p[n + 1]], list[p[n + 1] + 1],
                                        Before(q, n + 1)))
                   \o JsonItems(q[n + 1], Texts(list))
  <2>1. JsonItems(<<>>, Texts(list)) = <<>>
    BY DEF JsonItems, FlattenSeq
  <2>2. o[n + 1] = output /\ p[n + 1] = cap /\ q[n + 1] = <<>>
        /\ Before(q, n + 1) = count
    BY <1>5, <1>6, <1>7, <1>9, <1>12
  <2>3. output' \o <<>> = output'
    BY <1>14, Joined
  <2> QED
    BY <1>1, <2>1, <2>2, <2>3, Zenon
<1>16. ASSUME NEW d \in 1 .. n + 1
       PROVE  /\ stack'[d].start = capstart(list[p[d]])
              /\ stack'[d].count = Before(q, d)
              /\ \A m \in DOMAIN q[d] : Texts(list)[q[d][m]] \in Seq(JsonToken)
              /\ o[d + 1] = (o[d] \o json_Open(list[p[d]], list[p[d] + 1],
                                               Before(q, d)))
                              \o JsonItems(q[d], Texts(list))
  <2>1. CASE d = n + 1
    <3>1. stack'[d].start = capstart(list[cap]) /\ stack'[d].count = count
      BY <1>3, <1>5, <2>1
    <3>2. p[d] = cap /\ Before(q, d) = count /\ q[d] = <<>>
      BY <1>6, <1>7, <1>9, <1>12, <2>1
    <3>3. d + 1 = n + 2
      BY <1>5, <2>1
    <3>4. stack'[d].start = capstart(list[p[d]]) /\ stack'[d].count = Before(q, d)
      BY ONLY <3>1, <3>2
    <3>5. \A m \in DOMAIN q[d] : Texts(list)[q[d][m]] \in Seq(JsonToken)
      BY ONLY <3>2
    <3>6. o[d + 1] = output'
      BY ONLY <1>9, <3>3
    <3>7. output' = (o[d] \o json_Open(list[p[d]], list[p[d] + 1], Before(q, d)))
                      \o JsonItems(q[d], Texts(list))
      BY ONLY <1>15, <2>1, Zenon
    <3> QED
      BY ONLY <3>4, <3>5, <3>6, <3>7, Zenon
  <2>2. CASE d # n + 1
    <3>1. d \in 1 .. n /\ d + 1 \in 1 .. n + 1
      BY <1>5, <2>2
    <3>2. /\ stack[d].start = capstart(list[op[d]])
          /\ stack[d].count = Before(ch, d)
          /\ \A m \in DOMAIN ch[d] : Texts(list)[ch[d][m]] \in Seq(JsonToken)
          /\ pre[d + 1] = (pre[d] \o json_Open(list[op[d]], list[op[d] + 1],
                                               Before(ch, d)))
                            \o JsonItems(ch[d], Texts(list))
      BY <1>2, <3>1 DEF WroteText
    <3>3. /\ stack'[d] = stack[d] /\ p[d] = op[d] /\ q[d] = ch[d]
          /\ o[d] = pre[d] /\ o[d + 1] = pre[d + 1] /\ Before(q, d) = Before(ch, d)
      BY <1>5, <1>9, <1>12, <3>1
    <3>4. stack'[d].start = capstart(list[p[d]]) /\ stack'[d].count = Before(q, d)
      BY ONLY <3>2, <3>3
    <3>5. \A m \in DOMAIN q[d] : Texts(list)[q[d][m]] \in Seq(JsonToken)
      BY ONLY <3>2, <3>3, Zenon
    <3>6. o[d + 1] = (o[d] \o json_Open(list[p[d]], list[p[d] + 1], Before(q, d)))
                       \o JsonItems(q[d], Texts(list))
      BY ONLY <3>2, <3>3, Zenon
    <3> QED
      BY ONLY <3>4, <3>5, <3>6, Zenon
  <2> QED
    BY <2>1, <2>2
<1>17. \A d \in 1 .. (n + 1) + 1 : o[d] \in Seq(JsonToken)
  <2>1. \A d \in 1 .. (n + 1) + 1 : d = n + 2 \/ d \in 1 .. n + 1
    BY <1>5
  <2> QED
    BY <1>7, <1>9, <1>14, <2>1
<1>18. o[1] = <<>> /\ o[(n + 1) + 1] = output' /\ cap' - 1 = k + 1
  <2>1. (n + 1) + 1 = n + 2 /\ 1 \in 1 .. n + 1
    BY <1>5
  <2> QED
    BY <1>1, <1>6, <1>7, <1>9, <2>1
<1>19. PICK N : N = n + 1
  OBVIOUS
<1>20. WroteText(p, q, o, N)'
  BY <1>1, <1>5, <1>10, <1>11, <1>13, <1>16, <1>17, <1>18, <1>19 DEF WroteText
<1> QED
  BY <1>20

(* The complete captures in an open one, and this one, have places.        *)
LEMMA PathPlaces ==
  ASSUME NEW E, NEW k, NEW op, NEW ch, Path(E, k, op, ch),
         NEW d \in 1 .. Depth(E, k)
  PROVE  op[d] \in Int /\ ch[d] \in Seq(Int)
<1>1. /\ OpenAt(E, k, d, op[d])
      /\ Enumerates(ch[d], Len(ch[d]), Complete(E, k, op, d))
  BY DEF Path
<1>2. Complete(E, k, op, d) \subseteq Int
  BY <1>1 DEF Complete, Inner, OpenAt
<1>3. PICK w, v : /\ w = Len(ch[d]) /\ v = ch[d] /\ w \in Nat
                  /\ v \in [1 .. w -> Int]
  <2>1. Len(ch[d]) \in Nat /\ ch[d] \in [1 .. Len(ch[d]) -> Int]
    BY <1>1, <1>2 DEF Enumerates
  <2> QED
    BY <2>1
<1>4. v \in Seq(Int)
  BY <1>3
<1> QED
  BY <1>1, <1>3, <1>4 DEF OpenAt

LEMMA CloseTexts ==
  ASSUME WalkAssumption, WalkInv, ToldInv, TextInv, CloseCapture,
         call.etype = "json"
  PROVE  IF pc' = "loop" THEN \E op, ch, pre, n : WroteText(op, ch, pre, n)'
         ELSE output' = JsonOf(list)
<1>1. /\ Enclosed(list) /\ Ordered(list) /\ list \in Seq(Capture)
      /\ cap \in 2 .. Len(list) - 1 /\ ~ isopencap(list[cap])
      /\ stack \in Seq(Frame) /\ stack # <<>>
      /\ cap' = cap + 1 /\ pc = "loop" /\ stack' = Pop /\ count' = Top.count + 1
      /\ UNCHANGED <<call, list>>
  <2>1. /\ Enclosed(list) /\ Ordered(list) /\ list \in Seq(Capture)
        /\ cap \in 2 .. Len(list) /\ stack # <<>>
    BY DEF CloseCapture, ToldInv, PlaceInv, ListInv, WalkInv, WalkType,
           StackTracks, Given
  <2>2. cap < Len(list)
    BY CloseBeforeEnd
  <2> QED
    BY <2>1, <2>2 DEF CloseCapture, WalkInv, WalkType
<1>2. output' = output \o json_Close(list[cap], list[cap - 1], Top.start)
  BY DEF CloseCapture, Close
<1>3. PICK op, ch, pre, n : WroteText(op, ch, pre, n)
  BY <1>1 DEF TextInv
<1>4. PICK k \in Nat \ {0} : k = cap - 1 /\ cap = k + 1
  <2>1. cap - 1 \in Nat \ {0} /\ cap = (cap - 1) + 1
    BY ONLY <1>1
  <2> QED
    BY ONLY <2>1
<1>5. n \in Nat \ {0} /\ n = Len(stack)
  BY <1>1, <1>3 DEF WroteText
<1>6. /\ Path(list, k, op, ch) /\ Depth(list, k) = n
      /\ pre[1] = <<>> /\ pre[n + 1] = output
      /\ \A d \in 1 .. n + 1 : pre[d] \in Seq(JsonToken)
  BY <1>3, <1>4 DEF WroteText
<1>7. ASSUME NEW d \in 1 .. n
      PROVE  /\ stack[d].start = capstart(list[op[d]])
             /\ stack[d].count = Before(ch, d)
             /\ \A m \in DOMAIN ch[d] : Texts(list)[ch[d][m]] \in Seq(JsonToken)
             /\ pre[d + 1] = (pre[d] \o json_Open(list[op[d]], list[op[d] + 1],
                                                  Before(ch, d)))
                               \o JsonItems(ch[d], Texts(list))
             /\ op[d] \in Int /\ ch[d] \in Seq(Int)
  <2>1. op[d] \in Int /\ ch[d] \in Seq(Int)
    BY <1>6, PathPlaces
  <2> QED
    BY <1>3, <2>1 DEF WroteText
<1>8. PICK i, b, q, a, f :
        /\ i = op[n] /\ b = Before(ch, n) /\ q = ch[n] /\ a = pre[n]
        /\ f = Texts(list)
        /\ i \in Int /\ q \in Seq(Int) /\ a \in Seq(JsonToken)
  <2>1. n \in 1 .. n /\ n \in 1 .. n + 1
    BY <1>5
  <2>2. op[n] \in Int /\ ch[n] \in Seq(Int) /\ pre[n] \in Seq(JsonToken)
    BY <1>6, <1>7, <2>1
  <2> QED
    BY <2>2
<1>9. /\ Top.start = capstart(list[i]) /\ Top.count = b /\ b \in Nat
      /\ \A m \in DOMAIN q : f[q[m]] \in Seq(JsonToken)
      /\ output = (a \o json_Open(list[i], list[i + 1], b)) \o JsonItems(q, f)
  <2>1. n \in 1 .. n
    BY <1>5
  <2>2. Top = stack[n] /\ Top \in Frame
    BY <1>1, <1>5, PopFacts DEF Top
  <2>3. Top.count \in Nat
    BY <2>2 DEF Frame
  <2>4. Top.start = capstart(list[i]) /\ Top.count = b
    BY <1>7, <1>8, <2>1, <2>2
  <2>5. \A m \in DOMAIN q : f[q[m]] \in Seq(JsonToken)
    BY <1>7, <1>8, <2>1
  <2>6. output = (a \o json_Open(list[i], list[i + 1], b)) \o JsonItems(q, f)
    BY <1>6, <1>7, <1>8, <2>1, Zenon
  <2> QED
    BY <2>3, <2>4, <2>5, <2>6
<1>10. f[i] \in Seq(JsonToken) /\ output' = a \o JsonItem(b + 1, f[i])
  <2>1. k + 1 \in 1 .. Len(list) - 1 /\ ~ isopencap(list[k + 1]) /\ n > 0
    BY ONLY <1>1, <1>4, <1>5
  <2>2. /\ f[i] \in Seq(JsonToken)
        /\ ((a \o json_Open(list[i], list[i + 1], b)) \o JsonItems(q, f))
             \o json_Close(list[k + 1], list[k], capstart(list[i]))
             = a \o JsonItem(b + 1, f[i])
    <3>1. k \in Nat /\ n = Depth(list, k)
      BY <1>6
    <3>2. TextClosed(k, i, q, f, a, b)
      BY ONLY <1>1, <1>6, <1>8, <1>9, <2>1, <3>1, TextCloses, Zenon
    <3> QED
      BY ONLY <3>2, Zenon DEF TextClosed
  <2>3. output' = ((a \o json_Open(list[i], list[i + 1], b)) \o JsonItems(q, f))
                    \o json_Close(list[k + 1], list[k], capstart(list[i]))
    BY <1>2, <1>4, <1>9, Zenon
  <2> QED
    BY <2>2, <2>3, Zenon
<1>11. CASE n = 1
  <2>1. pc' = "done"
    BY <1>5, <1>11 DEF CloseCapture, Finish
  <2>2. op[1] = 1
    <3>1. \A h \in 1 .. k - 1 : Depth(list, h) > 0
      BY <1>1, <1>4 DEF Enclosed
    <3>2. Depth(list, k) > 0 /\ k \in Nat
      BY <1>6, <1>11
    <3> QED
      BY ONLY <1>6, <3>1, <3>2, OuterIsFirst
  <2>3. a = <<>> /\ b = 0 /\ i = 1
    BY <1>6, <1>8, <1>11, <2>2 DEF Before
  <2>4. output' = f[1]
    BY <1>10, <2>3, Joined DEF JsonItem
  <2>5. JsonOf(list) = f[1]
    BY <1>1, <1>8, JsonIs
  <2> QED
    BY <2>1, <2>4, <2>5
<1>12. CASE n # 1
  <2>1. pc' = "loop"
    BY <1>1, <1>5, <1>12 DEF CloseCapture
  <2>2. PICK m \in Nat \ {0} : n = m + 1 /\ m = n - 1 /\ m \in 1 .. n
    <3>1. n - 1 \in Nat \ {0} /\ n = (n - 1) + 1 /\ n - 1 \in 1 .. n
      BY <1>5, <1>12
    <3> QED
      BY ONLY <3>1
  <2>3. PICK h, o :
          /\ h = [d \in 1 .. m |-> IF d = m THEN Append(ch[m], i) ELSE ch[d]]
          /\ o = [d \in 1 .. n |-> IF d = n THEN output' ELSE pre[d]]
    OBVIOUS
  <2>4. /\ h[m] = Append(ch[m], i) /\ o[n] = output'
        /\ \A d \in 1 .. m - 1 : h[d] = ch[d]
        /\ \A d \in 1 .. m : o[d] = pre[d]
    <3>1. \A d \in 1 .. m - 1 : d \in 1 .. m /\ d # m
      OBVIOUS
    <3>2. \A d \in 1 .. m : d \in 1 .. n /\ d # n
      BY <2>2
    <3> QED
      BY <1>5, <2>3, <3>1, <3>2
  <2>5. Path(list, k + 1, op, h)
    <3>1. n > 0 /\ (n > 1 => h[n - 1] = Append(ch[n - 1], op[n]))
      BY <1>5, <1>8, <2>2, <2>4
    <3>2. \A d \in 1 .. n - 2 : h[d] = ch[d]
      <4>1. n - 2 = m - 1
        BY <2>2
      <4> QED
        BY <2>4, <4>1
    <3>3. ~ isopencap(list[k + 1]) /\ n = Depth(list, k) /\ k \in Nat
      BY <1>1, <1>4, <1>6
    <3> QED
      BY ONLY <1>6, <3>1, <3>2, <3>3, PathCloses
  <2>6. Depth(list, k + 1) = m
    <3>1. ~ isopencap(list[k + 1]) /\ k \in Nat
      BY <1>1, <1>4
    <3> QED
      BY <1>6, <2>2, <3>1, DepthOfNext
  <2>7. /\ stack' \in Seq(Frame) /\ Len(stack') = m
        /\ \A d \in 1 .. m : stack'[d] = stack[d]
    BY <1>1, <1>5, <2>2, PopFacts
  <2>8. PICK v \in Seq(Int) : v = ch[m]
    BY <1>7, <2>2
  <2>9. b = Len(v)
    <3>1. n # 1 /\ n - 1 = m
      BY <1>12, <2>2
    <3> QED
      BY <1>8, <2>8, <3>1 DEF Before
  <2>10. /\ count' = b + 1 /\ Len(Append(v, i)) = b + 1
         /\ \A y \in 1 .. b : Append(v, i)[y] = v[y]
         /\ Append(v, i)[b + 1] = i /\ DOMAIN Append(v, i) = 1 .. b + 1
    BY <1>1, <1>8, <1>9, <2>8, <2>9
  <2>11. \A d \in 1 .. m : Before(h, d) = Before(ch, d)
    <3>1. ASSUME NEW d \in 1 .. m, d # 1 PROVE h[d - 1] = ch[d - 1]
      <4>1. d - 1 \in 1 .. m - 1
        BY ONLY <3>1, m \in Nat \ {0}
      <4> QED
        BY ONLY <2>4, <4>1
    <3> QED
      BY <3>1 DEF Before
  <2>12. count' = Before(h, m + 1)
    <3>1. m + 1 # 1 /\ (m + 1) - 1 = m
      OBVIOUS
    <3> QED
      BY <2>4, <2>8, <2>10, <3>1 DEF Before
  <2>13. \A y \in DOMAIN v : f[v[y]] \in Seq(JsonToken)
    BY <1>7, <1>8, <2>2, <2>8
  <2>14. \A y \in DOMAIN h[m] : f[h[m][y]] \in Seq(JsonToken)
    <3>1. ASSUME NEW y \in 1 .. b + 1 PROVE f[Append(v, i)[y]] \in Seq(JsonToken)
      <4>1. CASE y = b + 1
        BY <1>10, <2>10, <4>1
      <4>2. CASE y # b + 1
        <5>1. y \in 1 .. b /\ y \in DOMAIN v
          <6>1. b \in Nat
            BY <1>9
          <6>2. y \in 1 .. b
            BY ONLY y \in 1 .. b + 1, <4>2, <6>1
          <6> QED
            BY ONLY <2>9, <6>2, v \in Seq(Int)
        <5> QED
          BY <2>10, <2>13, <5>1
      <4> QED
        BY <4>1, <4>2
    <3> QED
      BY <2>4, <2>8, <2>10, <3>1
  <2>15. PICK u \in Seq(JsonToken) :
           /\ u = pre[m] \o json_Open(list[op[m]], list[op[m] + 1], Before(ch, m))
           /\ a = u \o JsonItems(v, f)
    <3>1. pre[m] \in Seq(JsonToken)
      BY <1>6, <2>2
    <3>2. json_Open(list[op[m]], list[op[m] + 1], Before(ch, m)) \in Seq(JsonToken)
      <4>1. OpenAt(list, k, m, op[m])
        BY <1>6, <2>2 DEF Path
      <4>2. op[m] \in 1 .. Len(list)
        BY <1>1, <1>4, <4>1 DEF OpenAt
      <4>3. list[op[m]] \in Capture
        BY <1>1, <4>2
      <4> QED
        BY <4>3, OpenTyped
    <3>3. pre[m] \o json_Open(list[op[m]], list[op[m] + 1], Before(ch, m))
            \in Seq(JsonToken)
      BY <3>1, <3>2, Joined
    <3>4. pre[m + 1] = (pre[m] \o json_Open(list[op[m]], list[op[m] + 1],
                                            Before(ch, m)))
                         \o JsonItems(ch[m], Texts(list))
      BY <1>7, <2>2
    <3> QED
      BY <1>8, <2>2, <2>8, <3>3, <3>4, Zenon
  <2>16. output' = u \o JsonItems(Append(v, i), f)
    <3>1. PICK x \in Seq(JsonToken) : x = JsonItem(b + 1, f[i])
      BY <1>10, Joined, JsonTyped DEF JsonItem
    <3>2. PICK w \in Seq(JsonToken) : w = JsonItems(v, f)
      BY <2>13, JsonItemsTyped
    <3>3. JsonItems(Append(v, i), f) = w \o x
      BY <1>8, <1>10, <2>9, <2>13, <3>1, <3>2, JsonItemsMore
    <3>4. (u \o w) \o x = u \o (w \o x)
      <4>1. Cat(Cat(u, w), x) = Cat(u, Cat(w, x))
        BY CatIs
      <4> QED
        BY ONLY <4>1, Zenon DEF Cat
    <3> QED
      BY <1>10, <2>15, <3>1, <3>2, <3>3, <3>4, Zenon
  <2>17. ASSUME NEW d \in 1 .. m
         PROVE  /\ stack'[d].start = capstart(list[op[d]])
                /\ stack'[d].count = Before(h, d)
                /\ \A y \in DOMAIN h[d] : Texts(list)[h[d][y]] \in Seq(JsonToken)
                /\ o[d + 1] = (o[d] \o json_Open(list[op[d]], list[op[d] + 1],
                                                 Before(h, d)))
                                \o JsonItems(h[d], Texts(list))
    <3>1. d \in 1 .. n /\ stack'[d] = stack[d] /\ Before(h, d) = Before(ch, d)
          /\ o[d] = pre[d]
      BY <2>2, <2>4, <2>7, <2>11
    <3>2. stack'[d].start = capstart(list[op[d]]) /\ stack'[d].count = Before(h, d)
      BY <1>7, <3>1
    <3>3. CASE d = m
      <4>1. o[d + 1] = output'
        BY <2>2, <2>4, <3>3
      <4>2. output' = (o[d] \o json_Open(list[op[d]], list[op[d] + 1],
                                         Before(h, d)))
                        \o JsonItems(h[d], Texts(list))
        BY ONLY <1>8, <2>4, <2>8, <2>15, <2>16, <3>1, <3>3, Zenon
      <4>3. \A y \in DOMAIN h[d] : Texts(list)[h[d][y]] \in Seq(JsonToken)
        BY ONLY <1>8, <2>14, <3>3, Zenon
      <4> QED
        BY ONLY <3>2, <4>1, <4>2, <4>3, Zenon
    <3>4. CASE d # m
      <4>1. d \in 1 .. m - 1 /\ d + 1 \in 1 .. m
        BY <3>4
      <4>2. h[d] = ch[d] /\ o[d + 1] = pre[d + 1]
        BY <2>4, <4>1
      <4>3. /\ \A y \in DOMAIN ch[d] : Texts(list)[ch[d][y]] \in Seq(JsonToken)
            /\ pre[d + 1] = (pre[d] \o json_Open(list[op[d]], list[op[d] + 1],
                                                 Before(ch, d)))
                              \o JsonItems(ch[d], Texts(list))
        BY <1>7, <3>1
      <4>4. \A y \in DOMAIN h[d] : Texts(list)[h[d][y]] \in Seq(JsonToken)
        BY ONLY <4>2, <4>3, Zenon
      <4>5. o[d + 1] = (o[d] \o json_Open(list[op[d]], list[op[d] + 1],
                                          Before(h, d)))
                         \o JsonItems(h[d], Texts(list))
        BY ONLY <3>1, <4>2, <4>3, Zenon
      <4> QED
        BY ONLY <3>2, <4>4, <4>5, Zenon
    <3> QED
      BY ONLY <3>3, <3>4
  <2>18. \A d \in 1 .. m + 1 : o[d] \in Seq(JsonToken)
    <3>1. output' \in Seq(JsonToken)
      BY <1>8, <1>10, Joined, JsonTyped DEF JsonItem
    <3>2. \A d \in 1 .. m + 1 : d = n \/ d \in 1 .. m
      BY <2>2
    <3>3. \A d \in 1 .. m : o[d] \in Seq(JsonToken)
      <4>1. \A d \in 1 .. m : d \in 1 .. n + 1
        BY <2>2
      <4> QED
        BY <1>6, <2>4, <4>1
    <3> QED
      BY <2>4, <3>1, <3>2, <3>3
  <2>19. o[1] = <<>> /\ o[m + 1] = output' /\ cap' - 1 = k + 1
    <3>1. 1 \in 1 .. m
      OBVIOUS
    <3>2. o[1] = <<>>
      BY ONLY <1>6, <2>4, <3>1
    <3>3. cap' - 1 = k + 1
      BY ONLY <1>1, <1>4
    <3> QED
      BY ONLY <2>2, <2>4, <3>2, <3>3
  <2>20. WroteText(op, h, o, m)'
    BY <1>1, <2>5, <2>6, <2>7, <2>12, <2>17, <2>18, <2>19 DEF WroteText
  <2> QED
    BY <2>1, <2>20
<1> QED
  BY <1>11, <1>12

(***************************************************************************)
(* The text, in every step.                                                *)
(***************************************************************************)
TextsInv == TextInv /\ JsonFaithful

LEMMA NextTexts ==
  ASSUME WalkAssumption, MeaningInv, TextsInv, [Next]_vars PROVE TextsInv'
<1> USE DEF MeaningInv, TextsInv
<1>1. CASE Entry
  <2>1. /\ pc' \in {"done", "walk"} /\ UNCHANGED <<call, walk>> /\ pc = "call"
        /\ list = <<>> /\ cap = 1 /\ stack = <<>>
    BY <1>1 DEF Entry, WrongRange, NoMatch, HasMatch, Fails, ToldInv, PlaceInv,
                WalkInv, BeforeLoop
  <2>2. TextInv'
    <3>1. pc' = "walk" => output' = <<>>
      BY <1>1, <2>1 DEF Entry, WrongRange, NoMatch, HasMatch, Fails, ToldInv,
                        PlaceInv
    <3>2. pc' = "walk" => \E op, ch, pre, n : WroteText(op, ch, pre, n)'
      BY <2>1, <3>1, NoText DEF walk, TextInv
    <3> QED
      BY <2>1, <3>2 DEF TextInv
  <2>3. JsonFaithful'
    <3>1. pc' = "done" => list' = list \/ call.etype \in {"line", "status"}
      BY <1>1 DEF Entry, WrongRange, NoMatch, HasMatch, Fails
    <3> QED
      BY <2>1, <3>1 DEF JsonFaithful, Answered, Captured
  <2> QED
    BY <2>2, <2>3
<1>2. CASE NothingToWalk
  <2>1. /\ pc' \in {"done", "decode"} /\ ~ isopencap(list'[1])
    BY <1>2 DEF NothingToWalk, Finish
  <2> QED
    BY <2>1 DEF TextInv, JsonFaithful, Captured
<1>3. CASE OpenCapture
  <2>1. pc' = "loop" /\ UNCHANGED call
    BY <1>3 DEF OpenCapture
  <2> QED
    BY <1>3, <2>1, OpenTexts DEF TextInv, JsonFaithful, Answered
<1>4. CASE NoSpace
  <2>1. pc' = "done" /\ result'.err = "STACK"
    BY <1>4 DEF NoSpace, Fails, ToldInv, PlaceInv
  <2> QED
    BY <2>1 DEF TextInv, JsonFaithful, Answered
<1>5. CASE CloseCapture
  <2>1. pc' \in {"loop", "done", "decode"} /\ UNCHANGED <<call, list>>
    BY <1>5, FinishPlace DEF CloseCapture
  <2>2. call.etype = "json" =>
          IF pc' = "loop" THEN \E op, ch, pre, n : WroteText(op, ch, pre, n)'
          ELSE output' = JsonOf(list)
    BY <1>5, CloseTexts
  <2> QED
    BY <2>1, <2>2 DEF TextInv, JsonFaithful, Answered
<1>6. CASE HaltFirst \/ HaltNext
  <2>1. pc' \in {"halting", "done", "decode"} /\ UNCHANGED list
    BY <1>6, FinishPlace DEF HaltFirst, HaltNext, CloseSynthetic
  <2>2. Halted
    <3>1. isfinalcap(list[cap]) /\ cap \in 1 .. Len(list)
      BY <1>6 DEF HaltFirst, HaltNext, ToldInv, PlaceInv, WalkInv, StackTracks,
                  Halting
    <3>2. Enclosed(list) /\ list \in Seq(Capture)
      BY <1>6 DEF HaltFirst, HaltNext, WalkInv, Given, WalkType
    <3> QED
      BY <3>1, <3>2, LastIsFinal
  <2>3. Halted'
    BY <2>1, <2>2 DEF Halted
  <2> QED
    BY <2>1, <2>3 DEF TextInv, JsonFaithful
<1>7. CASE Decode
  <2>1. pc \in {"decode", "subs"} /\ UNCHANGED <<call, list>>
        /\ pc' \in {"decode", "subs", "done"}
    BY <1>7 DEF Decode, DecodeOpen, DecodeConst, DecodeBad, DecodeSub,
                DecodeClose, Decoded, Corrupt, Fails
  <2>2. call'.etype = "byte"
    BY <2>1 DEF ToldInv, PlaceInv
  <2> QED
    BY <2>1, <2>2 DEF TextInv, JsonFaithful
<1>8. CASE UNCHANGED vars
  <2>1. UNCHANGED <<call, list, pc, cap, stack, count, output, result>>
    BY <1>8 DEF vars, walk
  <2>2. \A op, ch, pre, n : WroteText(op, ch, pre, n) => WroteText(op, ch, pre, n)'
    <3>1. ASSUME NEW op, NEW ch, NEW pre, NEW n, WroteText(op, ch, pre, n)
          PROVE  WroteText(op, ch, pre, n)'
      BY ONLY <2>1, <3>1, Zenon DEF WroteText
    <3> QED
      BY <3>1
  <2> QED
    BY <2>1, <2>2 DEF TextInv, JsonFaithful, Answered, Captured, Halted
<1> QED
  BY <1>1, <1>2, <1>3, <1>4, <1>5, <1>6, <1>7, <1>8
     DEF Next, Step, Walk, Done

(* The json text is that of the capture tree: its commas, brackets and     *)
(* labels, and the text between a capture's own ends, whatever the depth   *)
(* and length of the list, if no halt cut the match short.                 *)
THEOREM JsonFaithfulCorrect == Spec => []JsonFaithful
<1>1. Init => TextsInv
  BY DEF Init, TextsInv, TextInv, JsonFaithful, Answered
<1>2. MeaningInv /\ TextsInv /\ [Next]_vars => TextsInv'
  BY NextTexts, WalkAssumption
<1>3. TextsInv => JsonFaithful
  BY DEF TextsInv
<1> QED
  BY <1>1, <1>2, <1>3, MeaningInvariant, PTL DEF Spec

==============================================================================

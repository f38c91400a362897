------------------------------- MODULE CapWalk -------------------------------
(***************************************************************************)
(* What happens to the captures of a match: r_match_C2 and r_match_lua     *)
(* (lptree.c) call vm_match2 (vm.c), which runs the machine and walks the  *)
(* capture list it leaves; the walk, caploop, calls an output encoder at   *)
(* each open and each close; r_lua_decode (lpcap.c) turns the output of    *)
(* the byte encoder into a tree again.  A behaviour is one such call.      *)
(*                                                                         *)
(* What vm() answers is a constant: PegVM models how it gets there.        *)
(***************************************************************************)
EXTENDS ByteCodec, FiniteSets

CONSTANTS
  Calls,          (* the calls that are made                               *)
  Answers,        (* of vm(): the end of the match and the capture list,   *)
                  (* with the sentinel that ends it                        *)
  Name,           (* the capture names: sequences of bytes                 *)
  INIT_CAPDEPTH,  (* frames of the walk's stack on the C stack             *)
  MAX_CAPDEPTH    (* and the most there may be                             *)

NULL == -1
Encoders == {"byte", "json", "debug", "line", "status"}
CapKinds == {"Crosiecap", "Crosieconst", "Cclose", "Ccloseconst", "Cfinal"}
Capture  == [kind : CapKinds, idx : Nat, s : Nat]

isopencap(c)  == c.kind \in {"Crosiecap", "Crosieconst"}
isclosecap(c) == c.kind = "Cclose"
isfinalcap(c) == c.kind = "Cfinal"

(* How many captures are open after the first k entries of a list.         *)
Opens(l, k)  == {i \in 1 .. k : isopencap(l[i])}
Closes(l, k) == {i \in 1 .. k : ~ isopencap(l[i])}
Depth(l, k)  == Cardinality(Opens(l, k)) - Cardinality(Closes(l, k))

(* No captures, or one that is open until the end: Rosie compiles every    *)
(* pattern with an outer capture.  A halt leaves captures open.            *)
Enclosed(l) ==
  /\ Len(l) > 0 /\ ~ isopencap(l[Len(l)])
  /\ \A k \in 1 .. Len(l) - 1 : l[k].kind # "Cfinal"
  /\ l[1].kind # "Ccloseconst" /\ (isclosecap(l[1]) => Len(l) = 1)
  /\ \A k \in 1 .. Len(l) - 2 : Depth(l, k) > 0
  /\ ~ isfinalcap(l[Len(l)]) => Depth(l, Len(l) - 1) = 0
  /\ isfinalcap(l[Len(l)]) /\ Len(l) > 1 => Depth(l, Len(l) - 1) > 0

(* A constant capture is closed as soon as it is opened (codecapture), and *)
(* the machine goes back only for a look-behind, which has no captures     *)
(* (lp_behind) but may have a halt.                                        *)
Ordered(l) ==
  \A k \in 1 .. Len(l) - 1 :
    /\ l[k].kind = "Crosieconst" <=> l[k + 1].kind = "Ccloseconst"
    /\ isfinalcap(l[k + 1]) \/ l[k].s <= l[k + 1].s

(* The entries that an encoder looks up have a name.                       *)
Named(l) ==
  \A k \in DOMAIN l :
    l[k].kind \notin {"Cclose", "Cfinal"} => l[k].idx \in DOMAIN Name

ASSUME WalkAssumption ==
  /\ Calls \subseteq [via : {"C", "lua"}, len : Nat, startpos : Int,
                      endpos : Nat, etype : Encoders]
  /\ \A c \in Calls : c.via = "C" => c.startpos \in Nat
  /\ \A a \in Answers : /\ a.r \in Nat /\ a.list \in Seq(Capture)
                        /\ Enclosed(a.list) /\ Ordered(a.list) /\ Named(a.list)
                        /\ a.list[Len(a.list)].s = a.r
  /\ Name \in Seq(Seq(Bytes))
  /\ INIT_CAPDEPTH \in Nat \ {0} /\ MAX_CAPDEPTH \in Nat

VARIABLES
  call,       (* the call                                                  *)
  list, r,    (* what vm() answered                                        *)
  pc,         (* "call", "walk", "loop", "halting", "decode", "subs" or    *)
              (* "done"                                                    *)
  cap,        (* the current capture of the list                           *)
  stack,      (* of caploop: where each open capture starts, and how many  *)
              (* captures precede it in the one around it                  *)
  capacity,   (* the number of frames of this stack                        *)
  count,      (* captures closed in the innermost open one                 *)
  output,     (* the output buffer                                         *)
  result,     (* err, data, leftover and abend, as they are returned       *)
  at,         (* pushmatch: the next byte to read                          *)
  frames      (* and the match tables under construction, outermost first  *)

walk   == <<cap, stack, capacity, count>>
decode == <<at, frames>>
vars   == <<call, list, r, pc, walk, output, result, decode>>

(* Whether there is data to return: none at all, a match without data, or  *)
(* the output buffer.                                                      *)
Untouched == [err |-> "OK", data |-> "untouched", leftover |-> 0, abend |-> 0]

Init ==
  /\ call \in Calls
  /\ list = <<>> /\ r = NULL
  /\ pc = "call"
  /\ cap = 1 /\ stack = <<>> /\ capacity = INIT_CAPDEPTH /\ count = 0
  /\ output = <<>> /\ result = Untouched
  /\ at = 1 /\ frames = <<>>

(***************************************************************************)
(* Positions are 1-based in a call, 0 asks for the default, and a negative *)
(* start (only from Lua) counts from the end.                              *)
(***************************************************************************)
initposition(pos, len) ==
  IF pos = 0 THEN 1
  ELSE IF pos > 0 THEN (IF pos <= len THEN pos ELSE len + 1)
  ELSE (IF -pos <= len THEN len + pos + 1 ELSE 1)

given   == IF call.via = "C" THEN call.startpos
           ELSE initposition(call.startpos, call.len)
first   == IF given # 0 THEN given - 1 ELSE 0
last    == IF call.endpos = 0 THEN call.len ELSE call.endpos - 1

Fails(err) ==
  /\ result' = [result EXCEPT !.err = err]
  /\ pc' = "done"

(* The line encoder is the status encoder and a copy of the input, which   *)
(* r_match_C2 makes for a match and r_match_lua in any case.  There may be *)
(* no memory for it.                                                       *)
Line(matched, res) ==
  IF call.etype = "line" /\ (matched \/ call.via = "lua")
  THEN \/ /\ output' = <<<<"text", 0, call.len>>>>
          /\ result' = IF call.via = "lua" THEN res
                       ELSE [res EXCEPT !.data = "output"]
       \/ output' = <<>> /\ result' = [res EXCEPT !.err = "OUT_OF_MEM"]
  ELSE output' = <<>> /\ result' = res

WrongRange ==
  /\ pc = "call"
  /\ \/ first > call.len /\ Fails("STARTPOS")
     \/ first <= call.len /\ last < first /\ Fails("ENDPOS")
  /\ UNCHANGED <<call, list, r, walk, output, decode>>

NoMatch ==
  /\ pc = "call" /\ first <= call.len /\ first <= last
  /\ Line(FALSE, [err |-> "OK", data |-> "none", leftover |-> last - first,
                  abend |-> 0])
  /\ pc' = "done"
  /\ UNCHANGED <<call, list, r, walk, decode>>

(* The machine captures between the positions it is given, and nothing     *)
(* behind the end of a match; a halt may also be before them.              *)
Possible(a) ==
  /\ a.r <= last
  /\ \A i \in DOMAIN a.list :
       isfinalcap(a.list[i]) \/ a.list[i].s \in first .. last
  /\ ~ isfinalcap(a.list[Len(a.list)]) =>
       \A i \in DOMAIN a.list : a.list[i].s <= a.r

HasMatch ==
  /\ pc = "call" /\ first <= call.len /\ first <= last
  /\ \E a \in Answers :
       /\ Possible(a)
       /\ list' = a.list /\ r' = a.r
       /\ IF call.etype \in {"line", "status"}
          THEN /\ Line(TRUE, [err |-> "OK", data |-> "without",
                              leftover |-> last - a.r, abend |-> 0])
               /\ pc' = "done"
          ELSE pc' = "walk" /\ UNCHANGED <<output, result>>
  /\ UNCHANGED <<call, walk, decode>>

(***************************************************************************)
(* The output encoders, as what each call appends to the buffer.           *)
(***************************************************************************)
encode_string(idx, sign) == short_to_string(sign * Len(Name[idx])) \o Name[idx]

(* Mutants: positions from 0; a position written as a short.               *)
byte_OpenFromZero(c) ==
  int_to_string(-c.s)
    \o encode_string(c.idx, IF c.kind = "Crosieconst" THEN -1 ELSE 1)
byte_CloseShort(c) ==
  (IF c.kind = "Ccloseconst" THEN encode_string(c.idx, 1) ELSE <<>>)
    \o short_to_string(c.s + 1)

byte_Open(c) ==
  int_to_string(-(c.s + 1))
    \o encode_string(c.idx, IF c.kind = "Crosieconst" THEN -1 ELSE 1)
byte_Close(c) ==
  (IF c.kind = "Ccloseconst" THEN encode_string(c.idx, 1) ELSE <<>>)
    \o int_to_string(c.s + 1)

json_Open(c, next, n) ==
  (IF n > 0 THEN <<",">> ELSE <<>>)
    \o << <<"type", c.idx>>, <<"s", c.s + 1>> >>
    \o (IF isopencap(next) THEN <<"subs[">> ELSE <<>>)
json_Close(c, prev, start) ==
  (IF isopencap(prev) THEN <<>> ELSE <<"]">>)
    \o << <<"e", c.s + 1>>,
          IF c.kind = "Ccloseconst" THEN <<"data", c.idx>>
                                    ELSE <<"text", start, c.s>>, "}" >>

Open(c, next, n) ==
  CASE call.etype = "byte" -> byte_Open(c)
    [] call.etype = "json" -> json_Open(c, next, n)
    [] OTHER               -> <<>>
Close(c, prev, start) ==
  CASE call.etype = "byte" -> byte_Close(c)
    [] call.etype = "json" -> json_Close(c, prev, start)
    [] OTHER               -> <<>>

(***************************************************************************)
(* walk_captures and caploop.                                              *)
(***************************************************************************)
capstart(c) == IF c.kind = "Crosieconst" THEN NULL ELSE c.s

(* Mutant: what is left is counted from the start of the range.            *)
FinishFromStart(out, abend) ==
  /\ result' = [err |-> "OK", data |-> "output", abend |-> abend,
                leftover |-> last - first - r]
  /\ pc' = IF call.etype = "byte" /\ out # <<>> THEN "decode" ELSE "done"

Finish(out, abend) ==
  /\ result' = [err |-> "OK", data |-> "output", leftover |-> last - r,
                abend |-> abend]
  /\ pc' = IF call.etype = "byte" /\ out # <<>> THEN "decode" ELSE "done"

NothingToWalk ==
  /\ pc = "walk" /\ ~ isopencap(list[1])
  /\ Finish(output, IF isfinalcap(list[1]) THEN 1 ELSE 0)
  /\ UNCHANGED <<call, list, r, walk, output, decode>>

(* Mutant: a stack that grew is filled one frame too low.                  *)
PushTooLow(frame) ==
  \/ /\ Len(stack) < capacity
     /\ stack' = Append(stack, frame) /\ UNCHANGED capacity
  \/ /\ Len(stack) = capacity /\ capacity < MAX_CAPDEPTH
     /\ stack' = [stack EXCEPT ![Len(stack)] = frame]
     /\ capacity' = 2 * capacity

(* A full stack doubles, up to its limit, and malloc may fail.             *)
Push(frame) ==
  \/ /\ Len(stack) < capacity
     /\ stack' = Append(stack, frame) /\ UNCHANGED capacity
  \/ /\ Len(stack) = capacity /\ capacity < MAX_CAPDEPTH
     /\ stack' = Append(stack, frame)
     /\ capacity' = IF 2 * capacity > MAX_CAPDEPTH THEN MAX_CAPDEPTH
                                                   ELSE 2 * capacity

(* Mutant: the count goes on in the capture that is opened.                *)
OpenCaptureCounting ==
  /\ pc \in {"walk", "loop"} /\ isopencap(list[cap])
  /\ Push([start |-> capstart(list[cap]), count |-> count])
  /\ output' = output \o Open(list[cap], list[cap + 1], count)
  /\ cap' = cap + 1 /\ pc' = "loop"
  /\ UNCHANGED <<call, list, r, count, result, decode>>

OpenCapture ==
  /\ pc \in {"walk", "loop"} /\ isopencap(list[cap])
  /\ Push([start |-> capstart(list[cap]), count |-> count])
  /\ output' = output \o Open(list[cap], list[cap + 1], count)
  /\ count' = 0 /\ cap' = cap + 1
  /\ pc' = "loop"
  /\ UNCHANGED <<call, list, r, result, decode>>

NoSpace ==
  /\ pc \in {"walk", "loop"} /\ isopencap(list[cap])
  /\ Len(stack) = capacity
  /\ Fails("STACK")
  /\ UNCHANGED <<call, list, r, walk, output, decode>>

Top == stack[Len(stack)]
Pop == SubSeq(stack, 1, Len(stack) - 1)

CloseCapture ==
  /\ pc = "loop" /\ ~ isopencap(list[cap]) /\ ~ isfinalcap(list[cap])
  /\ output' = output \o Close(list[cap], list[cap - 1], Top.start)
  /\ stack' = Pop /\ count' = Top.count + 1 /\ cap' = cap + 1
  /\ IF Len(stack) = 1 THEN Finish(output', 0) ELSE UNCHANGED <<pc, result>>
  /\ UNCHANGED <<call, list, r, capacity, decode>>

(* After a halt every open capture is closed by a synthetic close.  It is  *)
(* a local variable: what is in memory before it may look like anything.   *)
Synthetic == [kind |-> "Cclose", idx |-> 0, s |-> list[cap].s]
InMemory  == {[kind |-> k, idx |-> 0, s |-> 0] : k \in {"Crosiecap", "Cclose"}}

CloseSynthetic(start, rest) ==
  /\ \E prev \in InMemory :
       output' = output \o Close(Synthetic, prev, start)
  /\ stack' = rest
  /\ IF rest = <<>> THEN Finish(output', 1) ELSE pc' = "halting" /\ UNCHANGED result
  /\ UNCHANGED <<call, list, r, cap, capacity, decode>>

HaltFirst ==
  /\ pc = "loop" /\ isfinalcap(list[cap])
  /\ count' = Top.count
  /\ CloseSynthetic(Top.start, Pop)

(* The rest pops the stack first and reads its top then.  For the          *)
(* outermost capture that is what lies below the stack: not a place in the *)
(* input, but the name and the highest top of the stack itself (stack.c),  *)
(* or what malloc keeps before a block.                                    *)
Below == [start |-> NULL, count |-> 0]
HaltNext ==
  /\ pc = "halting"
  /\ LET top == IF Len(stack) = 1 THEN Below ELSE stack[Len(stack) - 1]
     IN  count' = top.count /\ CloseSynthetic(top.start, Pop)

(***************************************************************************)
(* r_lua_decode.  The tables of pushmatch's recursion are in 'frames'; the *)
(* last one takes what is read.  Bytes beyond the end may hold anything.   *)
(***************************************************************************)
Beyond == {0, Radix - 1}
BytesAt(i, n) == {d \in [1 .. n -> Bytes] :
                    \A k \in 1 .. n : IF i + k - 1 <= Len(output)
                                      THEN d[k] = output[i + k - 1]
                                      ELSE d[k] \in Beyond}
check_bounds(i, n) == i + n <= Len(output) + 1
ReadInt(i)   == string_to_int(SubSeq(output, i, i + 3))
ReadShort(i) == buf_peekshort(SubSeq(output, i, i + 1))
Str(i, n)    == SubSeq(output, i, i + n - 1)

Corrupt == Fails("CORRUPT") /\ UNCHANGED <<call, list, r, walk, output, decode>>

(* The length of the name, which is negative for a constant capture, and   *)
(* where the bytes that follow the name start.                             *)
NameLen   == ReadShort(at + 4)
IsConst   == NameLen <= 0
AfterName == at + 6 + (IF IsConst THEN -NameLen ELSE NameLen)

HeadReadable == /\ check_bounds(at, 4) /\ ReadInt(at) <= 0
                /\ check_bounds(at + 4, 2)
                /\ check_bounds(AfterName, IF IsConst THEN 2 ELSE 0)
DataLen      == ReadShort(AfterName)
DataReadable == DataLen >= 0 /\ check_bounds(AfterName + 2 + DataLen, 0)

Table(data) == [s |-> -ReadInt(at), type |-> Str(at + 6, AfterName - at - 6),
                data |-> data, subs |-> <<>>, e |-> 0]
Decoded(data, next) ==
  /\ frames' = Append(frames, Table(data))
  /\ at' = next
  /\ pc' = "subs"
  /\ UNCHANGED <<call, list, r, walk, output, result>>

DecodeOpen ==
  pc = "decode" /\ HeadReadable /\ ~ IsConst /\ Decoded(<<>>, AfterName)

DecodeConst ==
  /\ pc = "decode" /\ HeadReadable /\ IsConst /\ DataReadable
  /\ Decoded(<<Str(AfterName + 2, DataLen)>>, AfterName + 2 + DataLen)

DecodeBad ==
  /\ pc = "decode" /\ (HeadReadable => IsConst /\ ~ DataReadable)
  /\ Corrupt

(* Mutant: the match inside is not read.                                   *)
DecodeSubUnread ==
  /\ pc = "subs"
  /\ \E d \in BytesAt(at, 4) : string_to_int(d) < 0
  /\ UNCHANGED vars

(* A negative number starts another match inside this one; r_peekint looks *)
(* without checking that it is inside the buffer.                          *)
DecodeSub ==
  /\ pc = "subs"
  /\ \E d \in BytesAt(at, 4) : string_to_int(d) < 0
  /\ pc' = "decode"
  /\ UNCHANGED <<call, list, r, walk, output, result, decode>>

DecodeClose ==
  /\ pc = "subs"
  /\ \E d \in BytesAt(at, 4) : string_to_int(d) >= 0
  /\ IF check_bounds(at, 4)
     THEN /\ LET table == [frames[Len(frames)] EXCEPT !.e = ReadInt(at)]
                 n == Len(frames)
             IN  frames' = IF n = 1 THEN <<table>>
                           ELSE [SubSeq(frames, 1, n - 1) EXCEPT
                                   ![n - 1].subs = Append(@, table)]
          /\ at' = at + 4
          /\ pc' = IF Len(frames) = 1 THEN "done" ELSE "subs"
          /\ UNCHANGED <<call, list, r, walk, output, result>>
     ELSE Corrupt

Entry  == WrongRange \/ NoMatch \/ HasMatch
Walk   == NothingToWalk \/ OpenCapture \/ NoSpace \/ CloseCapture
          \/ HaltFirst \/ HaltNext
Decode == DecodeOpen \/ DecodeConst \/ DecodeBad \/ DecodeSub \/ DecodeClose

Done == pc = "done" /\ UNCHANGED vars
Step == Entry \/ Walk \/ Decode
Next == Step \/ Done
Spec == Init /\ [][Next]_vars /\ WF_vars(Step)

TypeOK ==
  /\ call \in Calls /\ list \in Seq(Capture) /\ r \in Nat \cup {NULL}
  /\ pc \in {"call", "walk", "loop", "halting", "decode", "subs", "done"}
  /\ cap \in Nat \ {0} /\ capacity \in Nat /\ count \in Nat
  /\ stack \in Seq([start : Nat \cup {NULL}, count : Nat])
  /\ result.err \in {"OK", "STARTPOS", "ENDPOS", "OUT_OF_MEM", "STACK",
                     "CORRUPT"}
  /\ result.abend \in {0, 1} /\ at \in Nat

(* The frame d of the walk's stack belongs to the capture at i: the last   *)
(* one that was opened at this depth and is not closed yet.                *)
FrameOf(d, i) ==
  /\ isopencap(list[i]) /\ Depth(list, i) = d
  /\ \A j \in i .. cap - 1 : Depth(list, j) >= d
  /\ stack[d].start = capstart(list[i])

(* caploop: the walk stays inside the list, and its stack has one frame    *)
(* for each capture that is open at its place, in the order of nesting, so *)
(* that each close is given the start of the capture it closes.            *)
StackTracks ==
  pc = "loop" => /\ cap \in 2 .. Len(list)
                 /\ Len(stack) = Depth(list, cap - 1) /\ stack # <<>>
                 /\ \A d \in 1 .. Len(stack) : \E i \in 1 .. cap - 1 : FrameOf(d, i)

(* The stack of caploop stays within its storage, and what it closes after *)
(* a halt is never more than what was open.                                *)
StackFits ==
  /\ Len(stack) <= capacity
  /\ capacity <= INIT_CAPDEPTH \/ capacity <= MAX_CAPDEPTH
  /\ pc = "halting" => stack # <<>> /\ Len(stack) < Depth(list, cap - 1)

(* Both, while caploop runs and after a halt: it never reads the top of an *)
(* empty stack nor writes behind a full one.                               *)
StackSound == StackTracks /\ StackFits

(* Every call returns, with an answer or an error. *)
Returns == <>(pc = "done")
==============================================================================

----------------------------- MODULE CapMeaning -----------------------------
(***************************************************************************)
(* What a capture list means, read as the nested list it encodes and not   *)
(* walked: the tree of its captures, and the JSON text of that tree.  It   *)
(* is what the output of CapWalk is compared with, not a model of code.    *)
(***************************************************************************)
EXTENDS CapWalk, SequencesExt

(* The entry that closes the capture opened at i, or the halt before that. *)
CloseOf(l, i) ==
  LET Ends == {j \in i + 1 .. Len(l) : Depth(l, j) < Depth(l, i)}
  IN  IF Ends = {} THEN Len(l) ELSE CHOOSE j \in Ends : \A k \in Ends : j <= k

(* The captures directly inside the one at i, in the order of the list.    *)
Within(l, i) == {j \in i + 1 .. CloseOf(l, i) - 1 :
                   isopencap(l[j]) /\ Depth(l, j) = Depth(l, i) + 1}
InOrder(q)   == \A m, n \in DOMAIN q : m < n => q[m] < q[n]
Inside(l, i) ==
  CHOOSE q \in [1 .. Cardinality(Within(l, i)) -> Within(l, i)] : InOrder(q)

TreeOf(l) ==
  LET Node[i \in DOMAIN l] ==
        [s |-> l[i].s + 1, type |-> Name[l[i].idx],
         data |-> IF l[i].kind = "Crosieconst"
                  THEN <<Name[l[CloseOf(l, i)].idx]>> ELSE <<>>,
         subs |-> [k \in DOMAIN Inside(l, i) |-> Node[Inside(l, i)[k]]],
         e |-> l[CloseOf(l, i)].s + 1]
  IN  Node[1]

JsonOf(l) ==
  LET Node[i \in DOMAIN l] ==
        LET subs == Inside(l, i)
            Item(k) == (IF k = 1 THEN <<>> ELSE <<",">>) \o Node[subs[k]]
            c == l[CloseOf(l, i)]
        IN  << <<"type", l[i].idx>>, <<"s", l[i].s + 1>> >>
            \o (IF subs = <<>> THEN <<>>
                ELSE <<"subs[">> \o FlattenSeq([k \in DOMAIN subs |-> Item(k)])
                                 \o <<"]">>)
            \o << <<"e", c.s + 1>>,
                  IF l[i].kind = "Crosieconst" THEN <<"data", c.idx>>
                  ELSE <<"text", l[i].s, c.s>>, "}" >>
  IN  Node[1]

Captured == list # <<>> /\ isopencap(list[1])
Halted   == list # <<>> /\ isfinalcap(list[Len(list)])
Answered == pc = "done" /\ result.err = "OK"

(* A list whose positions fit the four bytes they are written in (the      *)
(* input may have 2^32 - 1 bytes, a position is a signed int), and whose   *)
(* names have lengths that are read as they were written, and taken for    *)
(* the kind of name it is.                                                 *)
NameRead(c) ==
  LET n == Len(Name[c.idx])
  IN  CASE c.kind = "Crosiecap"   -> n # 0 /\ n \in Shorts /\ ReadBack(n)
        [] c.kind = "Crosieconst" -> -n \in Shorts /\ ReadBack(-n)
        [] c.kind = "Ccloseconst" -> n \in Shorts /\ ReadBack(n)
        [] OTHER -> TRUE
Readable(l) == \A i \in DOMAIN l : l[i].s + 1 \in Ints /\ NameRead(l[i])

Decodes == result.err = "STACK" \/ frames = <<TreeOf(list)>>

(* The byte encoding of a match, decoded again, is the tree of its         *)
(* captures, including those that a halt left open (byte_Open, byte_Close, *)
(* caploop, pushmatch), if what is written is read back.                   *)
RoundTrip == pc = "done" /\ call.etype = "byte" /\ Captured
               /\ Readable(list) => Decodes

(* The decoder reads no byte beyond the end of the data, although the test *)
(* for a nested match does not check it (lpcap.c:76).                      *)
DecoderInside == pc = "subs" /\ Readable(list) => check_bounds(at, 4)

(* The text that the json encoder produces is that of the capture tree:    *)
(* commas, brackets and labels, and the text between a capture's own ends. *)
JsonFaithful == Answered /\ call.etype = "json" /\ Captured /\ ~ Halted =>
                  output = JsonOf(list)

(* The capture that is open at depth d where the list ends.                *)
StillOpen(l, d) == Max({i \in DOMAIN l : isopencap(l[i]) /\ Depth(l, i) = d})

(* After a halt, for every capture still open a close is made up that was  *)
(* never created (vm.c:624): the text of each is that from its own start   *)
(* to the halt.  The last text written is the last token but one; what is  *)
(* on the stack then is still to be closed.                                *)
TextAfterHalt ==
  call.etype = "json" /\ Captured /\ Halted /\ (pc = "halting" \/ Answered) =>
    output[Len(output) - 1] =
      <<"text", list[StillOpen(list, Len(stack) + 1)].s, list[Len(list)].s>>

(* The return value abend says whether the match ended by a halt, if the   *)
(* captures were walked at all (walk_captures, vm_match2).                 *)
AbendTells == Answered /\ result.data = "output" /\ call.etype # "line" =>
                (result.abend = 1 <=> Halted)

(* Where the machine stopped is behind all that it captured.  It is not    *)
(* if a halt inside a look-behind stopped it.                              *)
Forward == first <= r /\ \A i \in DOMAIN list : list[i].s <= r

(* What is decoded and what is left over are parts of the range that was   *)
(* asked for, whichever end the caller counted from (initposition, vm_-    *)
(* match2).                                                                *)
PartsOfRange ==
  Answered /\ list # <<>> =>
    /\ first + 1 \in 1 .. call.len + 1
    /\ result.leftover \in 0 .. last
    /\ ~ Halted \/ Forward =>
         /\ result.leftover <= last - first
         /\ Readable(list) => \A i \in DOMAIN frames :
              /\ first + 1 <= frames[i].s /\ frames[i].s <= frames[i].e
              /\ frames[i].e <= last - result.leftover + 1

(* What a client learns from a match result beside its data: whether the   *)
(* match was cut short, and which part of the input it concerns.           *)
ResultTells == AbendTells /\ PartsOfRange
==============================================================================

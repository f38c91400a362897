---------------------------- MODULE PegSemantics ----------------------------
(***************************************************************************)
(* The meaning of a pattern tree, independent of the code generated for    *)
(* it: the usual semantics of parsing expression grammars, extended to the *)
(* captures, halt and backreferences of Rosie.  It is the definition the   *)
(* compiled programs are compared with, not a model of code.               *)
(*                                                                         *)
(* An outcome is [out, pos, caps]: "match" at position pos, "fail", or     *)
(* "halt", a non-local exit at pos that no choice or predicate catches;    *)
(* caps lists the captures opened and closed on the way, in order.         *)
(***************************************************************************)
EXTENDS PegTree, SequencesExt

CaptureEntry(kind, idx, pos) == [kind |-> kind, idx |-> idx, s |-> pos]
Match(i, caps) == [out |-> "match", pos |-> i, caps |-> caps]
Fail == [out |-> "fail", pos |-> 0, caps |-> <<>>]
Halt(i, caps) == [out |-> "halt", pos |-> i, caps |-> caps]

(***************************************************************************)
(* The text of the last capture named key that has been closed.            *)
(***************************************************************************)
IsOpening(c) == c.kind \in {"Crosiecap", "Crosieconst"}
Depth(caps, i, j) ==
  Cardinality({k \in i .. j : IsOpening(caps[k])})
    - Cardinality({k \in i .. j : ~IsOpening(caps[k])})
ClosedBy(caps, i, j) == Depth(caps, i, j) = 0
                        /\ \A k \in i .. j - 1 : Depth(caps, i, k) > 0
Prior(caps, key) ==
  {p \in (DOMAIN caps) \X (DOMAIN caps) :
     /\ caps[p[1]].kind = "Crosiecap" /\ caps[p[1]].idx = key
     /\ p[1] < p[2] /\ ClosedBy(caps, p[1], p[2])}
LastPrior(caps, key) ==
  CHOOSE p \in Prior(caps, key) : \A q \in Prior(caps, key) : q[1] <= p[1]
PriorText(caps, key, sub) ==
  LET p == LastPrior(caps, key)
  IN  SubSeq(sub, caps[p[1]].s + 1, caps[p[2]].s)

(***************************************************************************)
(* Eval(t, g, sub, i, caps): t matched at position i of sub after caps.    *)
(***************************************************************************)
RECURSIVE Eval(_, _, _, _, _)
Eval(t, g, sub, i, caps) ==
  CASE IsCharset(t) -> IF i < Len(sub) /\ sub[i + 1] \in Charset(t)
                       THEN Match(i + 1, caps) ELSE Fail
    [] t.tag = "true"  -> Match(i, caps)
    [] t.tag = "false" -> Fail
    [] t.tag = "halt"  -> Halt(i, caps)
    [] t.tag = "seq" ->
         LET m == Eval(t.a, g, sub, i, caps)
         IN  IF m.out = "match" THEN Eval(t.b, g, sub, m.pos, m.caps) ELSE m
    [] t.tag = "choice" ->
         LET m == Eval(t.a, g, sub, i, caps)
         IN  IF m.out = "fail" THEN Eval(t.b, g, sub, i, caps) ELSE m
    [] t.tag = "rep" ->
         LET m == Eval(t.a, g, sub, i, caps)
         IN  IF m.out = "match" THEN Eval(t, g, sub, m.pos, m.caps)
             ELSE IF m.out = "fail" THEN Match(i, caps) ELSE m
    [] t.tag = "not" ->
         LET m == Eval(t.a, g, sub, i, caps)
         IN  IF m.out = "match" THEN Fail
             ELSE IF m.out = "fail" THEN Match(i, caps) ELSE m
    [] t.tag = "and" ->
         LET m == Eval(t.a, g, sub, i, caps)
         IN  IF m.out = "match" THEN Match(i, caps) ELSE m
    [] t.tag = "behind" ->
         IF i < t.n THEN Fail ELSE Eval(t.a, g, sub, i - t.n, caps)
    [] t.tag = "capture" /\ t.cap = "Crosieconst" ->
         Match(i, caps \o <<CaptureEntry("Crosieconst", t.key, i),
                            CaptureEntry("Ccloseconst", t.n, i)>>)
    [] t.tag = "capture" /\ t.cap = "Crosiecap" ->
         LET m == Eval(t.a, g, sub, i,
                       Append(caps, CaptureEntry("Crosiecap", t.key, i)))
         IN  IF m.out = "match"
             THEN Match(m.pos, Append(m.caps, CaptureEntry("Cclose", 0, m.pos)))
             ELSE m
    [] t.tag = "backref" ->
         IF Prior(caps, t.key) = {} THEN Fail
         ELSE LET text == PriorText(caps, t.key, sub)
              IN  IF IsPrefix(text, SubSeq(sub, i + 1, Len(sub)))
                  THEN Match(i + Len(text), caps) ELSE Fail
    [] t.tag = "grammar" -> Eval(t.rules[1], t.rules, sub, i, caps)
    [] t.tag = "call"    -> Eval(g[t.rule], g, sub, i, caps)

Meaning(t, sub, i) == Eval(t, <<>>, sub, i, <<>>)
=============================================================================

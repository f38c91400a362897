----------------------------- MODULE PegCompile -----------------------------
(***************************************************************************)
(* The code generator of rpeg/compiler/lpcode.c: from a pattern tree to    *)
(* the vector of instructions that vm() of rpeg/runtime/vm.c runs.         *)
(*                                                                         *)
(* An instruction takes one slot of the vector whatever its size in the C  *)
(* code, and a jump holds the slot it goes to instead of an offset.  The   *)
(* code is built left to right, as in C: every operator takes the code     *)
(* generated so far and returns it extended (and patched).  fl is the      *)
(* follow set, tt the dominating test (or NOINST), opt says that an outer  *)
(* optional's choice is still on top of the stack.                         *)
(*                                                                         *)
(* getfirst leaves its result unwritten for a backreference; 'junk' is     *)
(* what that uninitialised charset happens to hold, one value for each     *)
(* compilation.                                                            *)
(***************************************************************************)
EXTENDS PegTree

NOINST == 0

Inst(op, set, to, aux, kind) ==
  [op |-> op, set |-> set, to |-> to, aux |-> aux, kind |-> kind]
Bare(op)      == Inst(op, {}, 0, 0, "none")
WithSet(op, S) == Inst(op, S, 0, 0, "none")
WithAux(op, n) == Inst(op, {}, 0, n, "none")

gethere(code) == Len(code) + 1

jumptothere(code, inst, target) ==
  IF inst = NOINST THEN code ELSE [code EXCEPT ![inst].to = target]
jumptohere(code, inst) == jumptothere(code, inst, gethere(code))

(***************************************************************************)
(* charsettype, seen as the instruction a charset is coded with.           *)
(***************************************************************************)
charsettype(S) ==
  CASE S = {} -> "fail"
    [] S = Char -> "any"
    [] Cardinality(S) = 1 /\ S # Char -> "char"
    [] OTHER -> "set"

(***************************************************************************)
(* getfirst: the first set, and why a test on it may not replace the       *)
(* pattern ("empty": it accepts the empty string, bit 1 of the C result;   *)
(* "runtime": a match-time capture, bit 2).                                *)
(***************************************************************************)
First(e, S) == [e |-> e, set |-> S]
\* Mutant: only the first alternative accepts the empty string.
firstchoiceLeft(f1, f2) == First(f1.e, f1.set \cup f2.set)
firstchoice(f1, f2) == First(f1.e \cup f2.e, f1.set \cup f2.set)
firstseq(f1, f2) ==
  First(CASE f1.e = {} -> {}
          [] f1.e # {} /\ "runtime" \in f1.e \cup f2.e -> {"runtime"}
          [] OTHER -> f2.e,
        f1.set)

RECURSIVE getfirst(_, _, _, _)
getfirst(t, follow, g, junk) ==
  CASE IsCharset(t) -> First({}, Charset(t))
    [] t.tag = "true"  -> First({"empty"}, follow)
    [] t.tag = "false" -> First({}, {})
    [] t.tag = "halt"  -> First({"empty"}, follow)
    [] t.tag = "choice" ->
         firstchoice(getfirst(t.a, follow, g, junk),
                     getfirst(t.b, follow, g, junk))
    [] t.tag = "seq" /\ ~nullable(t.a, g) -> getfirst(t.a, Char, g, junk)
    [] t.tag = "seq" /\ nullable(t.a, g) ->
         LET f2 == getfirst(t.b, follow, g, junk)
         IN  firstseq(getfirst(t.a, f2.set, g, junk), f2)
    [] t.tag = "rep" ->
         First({"empty"}, getfirst(t.a, follow, g, junk).set \cup follow)
    [] t.tag = "capture" -> getfirst(t.a, follow, g, junk)
    [] t.tag = "grammar" -> getfirst(t.rules[1], follow, t.rules, junk)
    [] t.tag = "call"    -> getfirst(g[t.rule], follow, g, junk)
    [] t.tag = "backref" -> First({"runtime"}, junk)
    [] t.tag = "and" -> LET f == getfirst(t.a, follow, g, junk)
                        IN  First(f.e, f.set \cap follow)
    [] t.tag = "not" /\ IsCharset(t.a) ->
         First({"empty"}, Char \ Charset(t.a))
    [] t.tag \in {"not", "behind"} ->
         First(getfirst(t.a, follow, g, junk).e \cup {"empty"}, follow)

(***************************************************************************)
(* headfail: the tree can only fail on the next byte.  needfollow: its     *)
(* code can use a follow set.                                              *)
(***************************************************************************)
RECURSIVE headfail(_, _)
headfail(t, g) ==
  CASE IsCharset(t) \/ t.tag = "false" -> TRUE
    [] t.tag \in {"true", "rep", "not", "behind", "halt", "backref"} -> FALSE
    [] t.tag \in {"capture", "and"} -> headfail(t.a, g)
    [] t.tag = "grammar" -> headfail(t.rules[1], t.rules)
    [] t.tag = "call"    -> headfail(g[t.rule], g)
    [] t.tag = "seq"     -> nofail(t.b, g) /\ headfail(t.a, g)
    [] t.tag = "choice"  -> headfail(t.a, g) /\ headfail(t.b, g)

RECURSIVE needfollow(_)
needfollow(t) ==
  CASE t.tag \in {"choice", "rep"} -> TRUE
    [] t.tag = "capture" -> needfollow(t.a)
    [] t.tag = "seq"     -> needfollow(t.b)
    [] OTHER             -> FALSE

(***************************************************************************)
(* Instructions for single bytes; a test that dominates one makes it IAny. *)
(***************************************************************************)
codecharset(code, S, tt) ==
  LET op == charsettype(S)
      tested == /\ tt # NOINST
                /\ code[tt].set = S
                /\ code[tt].op = IF op = "char" THEN "testchar" ELSE "testset"
  IN  Append(code, IF op \in {"char", "set"}
                   THEN IF tested THEN Bare("any") ELSE WithSet(op, S)
                   ELSE Bare(op))

codetestset(code, S, e) ==
  IF e # {} THEN code
  ELSE Append(code, CASE charsettype(S) = "fail" -> Bare("jmp")
                      [] charsettype(S) = "any"  -> Bare("testany")
                      [] charsettype(S) = "char" -> WithSet("testchar", S)
                      [] charsettype(S) = "set"  -> WithSet("testset", S))
testset(code, e) == IF e # {} THEN NOINST ELSE gethere(code)

RECURSIVE finaltarget(_, _)
finaltarget(code, i) ==
  IF code[i].op = "jmp" THEN finaltarget(code, code[i].to) ELSE i
finallabel(code, i) == finaltarget(code, code[i].to)

(***************************************************************************)
(* The code of each construct.  env holds the grammar that calls refer to  *)
(* and junk.                                                               *)
(***************************************************************************)

RECURSIVE codegen(_, _, _, _, _, _)

\* behind n; <p>
codebehind(code, t, env) ==
  codegen(IF t.n > 0 THEN Append(code, WithAux("behind", t.n)) ELSE code,
          t.a, FALSE, NOINST, Char, env)

\* test (fail(p1)) -> L1; p1; jmp L2; L1: p2; L2:
choicetesting(code, p1, p2, S, opt, fl, env) ==
  LET c1 == codegen(codetestset(code, S, {}), p1, FALSE, gethere(code), fl, env)
      jump == p2.tag # "true"
      c2 == jumptohere(IF jump THEN Append(c1, Bare("jmp")) ELSE c1, gethere(code))
  IN  jumptohere(codegen(c2, p2, opt, NOINST, fl, env),
                 IF jump THEN gethere(c1) ELSE NOINST)

\* partialcommit L1; L1: p1   (the outer choice is reused)
choicereusing(code, p1, env) ==
  codegen(jumptohere(Append(code, Bare("partialcommit")), gethere(code)),
          p1, TRUE, NOINST, Char, env)

\* test (first(p1)) -> L1; choice L1; p1; commit L2; L1: p2; L2:
choicechoosing(code, p1, p2, f1, opt, fl, env) ==
  LET test == testset(code, f1.e)
      c1 == codetestset(code, f1.set, f1.e)
      c2 == codegen(Append(c1, Bare("choice")), p1, p2.tag = "true", test, Char,
                    env)
      c3 == jumptohere(jumptohere(Append(c2, Bare("commit")), gethere(c1)), test)
  IN  jumptohere(codegen(c3, p2, opt, NOINST, fl, env), gethere(c2))

codechoice(code, p1, p2, opt, fl, env) ==
  LET f1 == getfirst(p1, Char, env.g, env.junk)
      f2 == getfirst(p2, fl, env.g, env.junk)
      simple == headfail(p1, env.g) \/ (f1.e = {} /\ f1.set \cap f2.set = {})
  IN  CASE p2.tag # "halt" /\ simple ->
             choicetesting(code, p1, p2, f1.set, opt, fl, env)
        [] p2.tag = "true" /\ ~simple /\ opt -> choicereusing(code, p1, env)
        [] OTHER -> choicechoosing(code, p1, p2, f1, opt, fl, env)

\* <p>; behind n  for a fixed length without captures, otherwise
\* choice L1; p; backcommit L2; L1: fail; L2:
codeand(code, p, tt, env) ==
  LET n == fixedlen(p, env.g)
  IN  IF n \in 0 .. MAXBEHIND /\ ~hascaptures(p, env.g)
      THEN LET c == codegen(code, p, FALSE, tt, Char, env)
           IN  IF n > 0 THEN Append(c, WithAux("behind", n)) ELSE c
      ELSE LET c1 == codegen(Append(code, Bare("choice")), p, FALSE, tt, Char,
                             env)
               c2 == jumptohere(Append(c1, Bare("backcommit")), gethere(code))
           IN  jumptohere(Append(c2, Bare("fail")), gethere(c1))

codecapture(code, t, tt, fl, env) ==
  LET c == Append(code, Inst("opencapture", {}, 0, t.key, t.cap))
  IN  IF t.cap = "Crosieconst"
      THEN Append(c, WithAux("closeconstcapture", t.n))
      ELSE Append(codegen(c, t.a, FALSE, tt, fl, env), Bare("closecapture"))

\* L1: test (fail(p)) -> L2; p; jmp L1; L2:
reptesting(code, p, S, env) ==
  LET c1 == codegen(codetestset(code, S, {}), p, FALSE, gethere(code), Char, env)
      c2 == jumptohere(Append(c1, Bare("jmp")), gethere(code))
  IN  jumptothere(c2, gethere(c1), gethere(code))

\* test (fail(p)) -> L2; choice L2; L1: p; partialcommit L1; L2:
\* or, if opt: test (fail(p)) -> L2; partialcommit L1; L1: p; partialcommit L1; L2:
repchoosing(code, p, f, opt, env) ==
  LET c0 == codetestset(code, f.set, f.e)
      c1 == IF opt
            THEN jumptohere(Append(c0, Bare("partialcommit")), gethere(c0))
            ELSE Append(c0, Bare("choice"))
      c2 == codegen(c1, p, FALSE, NOINST, Char, env)
      c3 == jumptothere(Append(c2, Bare("partialcommit")), gethere(c2), gethere(c1))
  IN  jumptohere(jumptohere(c3, IF opt THEN NOINST ELSE gethere(c0)),
                 testset(code, f.e))

coderep(code, p, opt, fl, env) ==
  LET f == getfirst(p, Char, env.g, env.junk)
      simple == headfail(p, env.g) \/ (f.e = {} /\ f.set \cap fl = {})
  IN  CASE IsCharset(p) -> Append(code, WithSet("span", Charset(p)))
        [] ~IsCharset(p) /\ simple -> reptesting(code, p, f.set, env)
        [] OTHER -> repchoosing(code, p, f, opt, env)

\* test (fail(p)) -> L1; fail; L1:
\* or test (fail(p)) -> L1; choice L1; p; failtwice; L1:
codenot(code, p, env) ==
  LET f  == getfirst(p, Char, env.g, env.junk)
      c0 == codetestset(code, f.set, f.e)
      c1 == codegen(Append(c0, Bare("choice")), p, FALSE, NOINST, Char, env)
      c2 == jumptohere(Append(c1, Bare("failtwice")), gethere(c0))
  IN  jumptohere(IF headfail(p, env.g) THEN Append(c0, Bare("fail")) ELSE c2,
                 testset(code, f.e))

(***************************************************************************)
(* A grammar: call L1; jmp L2; L1: rule 1; ret; ...; L2:.  correctcalls    *)
(* then turns each open call into a call of its rule, or into a jump when  *)
(* a return follows.                                                       *)
(***************************************************************************)
correctcalls(code, from, position) ==
  [i \in DOMAIN code |->
     IF i >= from /\ code[i].op = "opencall"
     THEN Inst(IF code[finaltarget(code, i + 1)].op = "ret" THEN "jmp" ELSE "call",
               {}, position[code[i].aux], 0, "none")
     ELSE code[i]]

codegrammar(code, rules, junk) ==
  LET env == [g |-> rules, junk |-> junk]
      c0  == Append(jumptothere(Append(code, Bare("call")), gethere(code),
                                gethere(code) + 2),
                    Bare("jmp"))
      upto[n \in 0 .. Len(rules)] ==      \* the code up to rule n
        IF n = 0 THEN c0
        ELSE Append(codegen(upto[n - 1], rules[n], FALSE, NOINST, Char, env),
                    Bare("ret"))
  IN  correctcalls(jumptohere(upto[Len(rules)], gethere(code) + 1), gethere(c0),
                   [n \in DOMAIN rules |-> gethere(upto[n - 1])])

(***************************************************************************)
(* codegen.  A test still protects the second pattern of a sequence if the *)
(* first consumes nothing.                                                 *)
(***************************************************************************)
codeseq1(code, p1, p2, tt, fl, env) ==
  codegen(code, p1, FALSE, tt,
          IF needfollow(p1) THEN getfirst(p2, fl, env.g, env.junk).set ELSE Char,
          env)

codegen(code, t, opt, tt, fl, env) ==
  CASE t.tag \in {"char", "set"} -> codecharset(code, t.set, tt)
    [] t.tag = "any"     -> Append(code, Bare("any"))
    [] t.tag = "true"    -> code
    [] t.tag = "false"   -> Append(code, Bare("fail"))
    [] t.tag = "halt"    -> Append(code, Bare("halt"))
    [] t.tag = "choice"  -> codechoice(code, t.a, t.b, opt, fl, env)
    [] t.tag = "rep"     -> coderep(code, t.a, opt, fl, env)
    [] t.tag = "behind"  -> codebehind(code, t, env)
    [] t.tag = "not"     -> codenot(code, t.a, env)
    [] t.tag = "and"     -> codeand(code, t.a, tt, env)
    [] t.tag = "capture" -> codecapture(code, t, tt, fl, env)
    [] t.tag = "backref" -> Append(code, WithAux("backref", t.key))
    [] t.tag = "grammar" -> codegrammar(code, t.rules, env.junk)
    [] t.tag = "call"    -> Append(code, WithAux("opencall", t.rule))
    [] t.tag = "seq"     ->
         codegen(codeseq1(code, t.a, t.b, tt, fl, env), t.b, opt,
                 IF fixedlen(t.a, env.g) # 0 THEN NOINST ELSE tt, fl, env)

(***************************************************************************)
(* peephole, for the instruction at i and then the ones after it: labels   *)
(* become final targets, and a jump to an instruction that leaves for good *)
(* or jumps becomes that instruction.  The padding that keeps the size of  *)
(* a replaced jump is left out: nothing reaches it.                        *)
(***************************************************************************)
Labelled == {"partialcommit", "testany", "call", "choice", "commit",
             "backcommit", "testchar", "testset"}

retarget(code, i) ==
  LET ft == finaltarget(code, i)
  IN  CASE code[i].op \in Labelled -> [code[i] EXCEPT !.to = finallabel(code, i)]
        [] code[i].op = "jmp" /\ code[ft].op
             \in {"ret", "fail", "failtwice", "halt", "end"} -> code[ft]
        [] code[i].op = "jmp" /\ code[ft].op
             \in {"commit", "partialcommit", "backcommit"} ->
             [code[ft] EXCEPT !.to = finallabel(code, ft)]
        [] code[i].op = "jmp" -> [code[i] EXCEPT !.to = ft]
        [] OTHER -> code[i]

RECURSIVE peephole(_, _)
peephole(code, i) ==
  IF i > Len(code) THEN code
  ELSE peephole([code EXCEPT ![i] = retarget(code, i)], i + 1)

(***************************************************************************)
(* prepcompile and compile, for a whole pattern.                           *)
(***************************************************************************)
compile(t, junk) ==
  LET tree == finalfix(t)
      code == codegen(<<>>, tree, FALSE, NOINST, Char,
                      [g |-> <<>>, junk |-> junk])
  IN  peephole(Append(code, Bare("end")), 1)
=============================================================================

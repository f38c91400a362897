------------------------------ MODULE MCPegVM ------------------------------
(***************************************************************************)
(* The matching machine on the programs that the compiler makes of small   *)
(* patterns, compared with the meaning of the patterns.  The patterns are  *)
(* all the trees that the constructors of lptree.c make of a few atoms.    *)
(***************************************************************************)
EXTENDS PegShape, TLC

CONSTANTS
  MAXRULES, MAXBEHIND,
  Patterns,     (* the trees of a run, in a sequence                            *)
  Junks,        (* what getfirst may find in an uninitialised charset      *)
  Trees,        (* the pattern of each program                              *)
  Analysed,     (* whether the run is about the analyses of lpcode.c: then *)
  Answers,      (* what each program answers to each input                 *)
  Analyses,     (* what lpcode.c says of each pattern                      *)
  MaxSubject    (* longest subject                                         *)

C   == INSTANCE PegCompile
Sem == INSTANCE PegSemantics

----------------------------------------------------------------------------
(* Trees, in sequences.                                                    *)

Pairs(F(_, _), ss, ts) ==
  [i \in 1 .. Len(ss) * Len(ts) |->
     F(ss[((i - 1) \div Len(ts)) + 1], ts[((i - 1) % Len(ts)) + 1])]

a == C!TChar("a")
b == C!TChar("b")
ab == C!lp_seq(a, b)
aOrB == C!lp_choice(a, b)
Atoms == <<a, b, ab, aOrB, C!TAny>>

OfOne(ss) ==
  C!Each(LAMBDA p : C!lp_star(p, 0), SelectSeq(ss, C!lp_star_ok))
    \o C!Each(LAMBDA p : C!lp_atmost(p, 1), ss)
    \o C!Each(C!lp_and, ss) \o C!Each(C!lp_not, ss)
    \o C!Each(C!lp_behind, SelectSeq(ss, C!lp_behind_ok))
    \o C!Each(LAMBDA p : C!r_capture(p, 1), ss)
OfTwo(ss, ts) == Pairs(C!lp_seq, ss, ts) \o Pairs(C!lp_choice, ss, ts)

SmallTrees == Atoms \o OfOne(Atoms) \o OfTwo(Atoms, Atoms)
Ends  == <<a, ab, C!lp_star(a, 0), C!lp_not(a), C!r_capture(a, 2),
           C!r_constcapture(3, 4)>>
PlainTrees ==
  SmallTrees \o OfOne(SmallTrees) \o OfTwo(SmallTrees, Append(Ends, C!THalt))
    \o OfTwo(Ends, SmallTrees)

\* S <- a S b / true,  S <- <1: a S> / b,  S <- (A b)* c with A <- a A / b ...
R(n) == C!TCall(n)
Deeper ==
  <<<<C!lp_choice(C!lp_seq(a, C!lp_seq(R(1), b)), C!TTrue)>>,
    <<C!lp_choice(C!lp_seq(a, R(1)), b)>>,
    <<C!lp_choice(C!r_capture(C!lp_seq(a, R(1)), 1), b)>>,
    <<C!lp_seq(C!lp_star(R(2), 0), b), C!lp_choice(C!lp_seq(ab, R(2)), a)>>,
    <<C!lp_choice(C!lp_seq(R(2), C!lp_and(R(1))), b),
      C!lp_seq(a, C!lp_choice(R(2), C!TTrue))>>>>

(* Two rules with small bodies, of which newgrammar refuses many.          *)
Items  == <<a, R(1), R(2), C!lp_not(b),
            C!lp_choice(C!lp_seq(a, R(1)), b)>>
Ending(p) == C!Each(LAMBDA x : C!lp_seq(x, p), Items)
Bodies(p) == <<p>> \o Ending(p) \o Pairs(C!lp_seq, Items, Ending(p))
Small     == Pairs(LAMBDA p, q : <<p, q>>, Bodies(b), Bodies(a))
Grammars(rules) == C!Each(C!newgrammar, SelectSeq(rules, C!newgrammar_ok))
RecursiveTrees ==
  LET deeper == Grammars(Deeper)
  IN  Grammars(Small) \o deeper \o C!Each(LAMBDA g : C!lp_seq(g, a), deeper)
        \o C!Each(LAMBDA g : C!lp_choice(C!lp_seq(g, b), a), deeper)
        \o C!Each(C!lp_not, deeper) \o C!Each(C!lp_and, deeper)

(* A captured text and a later reference to it, inside other constructs.   *)
Referring(p, mid) ==
  C!lp_seq(C!r_capture(p, 1), C!lp_seq(mid, C!r_backref(p, 1)))
Between == <<C!TTrue, b, C!r_capture(aOrB, 2), C!r_constcapture(3, 4),
             C!lp_star(b, 0), C!lp_not(b)>>
References == Pairs(Referring, Atoms \o <<C!lp_star(a, 0)>>, Between)
BackrefTrees ==
  C!Each(LAMBDA p : C!r_capture(p, 9),
    References \o OfOne(References)
      \o OfTwo(References, <<a, C!r_capture(aOrB, 2), C!r_backref(a, 1)>>)
      \o OfTwo(<<a, C!r_capture(aOrB, 1)>>, References))

(* Patterns on which the code departs from what it says of itself.         *)
X(p) == C!r_capture(p, 9)
UninitTrees ==       \* a backreference after a repetition, or as a choice
  <<X(C!lp_seq(C!r_capture(aOrB, 1),
               C!lp_choice(ab, C!r_backref(aOrB, 1)))),
    X(C!lp_seq(C!r_capture(aOrB, 1),
               C!lp_seq(C!lp_star(ab, 0), C!r_backref(aOrB, 1))))>>

Plain     == PlainTrees \o BackrefTrees
Recursive == RecursiveTrees
Uninitialised == UninitTrees

----------------------------------------------------------------------------
(* Values of the constants of PegVM                                        *)

(* A program is a pattern compiled with some junk, numbered from 1; \o     *)
(* makes TLC tabulate the functions, and a LET keeps TLC's coverage        *)
(* statistics out of the definition of a constant.                         *)
NoJunk   == <<{}>>
AnyJunk  == <<{}, Char>>
FullJunk == <<Char>>
Table ==
  LET trees == Patterns
      junks == Junks
  IN  Pairs(LAMBDA t, junk :
              [tree |-> t, code |-> C!compile(t, junk)],
            trees, junks) \o <<>>
CodeTable == LET table == Table
             IN  [p \in DOMAIN table |-> table[p].code] \o <<>>
TreeTable == LET table == Table
             IN  [p \in DOMAIN table |-> table[p].tree] \o <<>>
MCTrees    == LET table == TreeTable IN table
MCCode     == LET table == CodeTable IN table
MCPrograms == LET table == Table IN DOMAIN table

(* The shapes reached from the first slot of a program.                    *)
Successors(code, x) ==
  LET d == x.choices
      op == code[x.pc].op
      To(n, q) == [pc |-> code[x.pc].to, choices |-> n, inRule |-> q]
      Down(n) == [pc |-> x.pc + 1, choices |-> n, inRule |-> x.inRule]
  IN  CASE op \in Straight -> {Down(d)}
        [] op \in Tests -> {Down(d), To(d, x.inRule)}
        [] op \in {"jmp", "partialcommit"} -> {To(d, x.inRule)}
        [] op = "choice" -> {Down(d + 1), To(d, x.inRule)}
        [] op = "call" -> {Down(d), To(0, TRUE)}
        [] op \in {"commit", "backcommit"} -> {To(d - 1, x.inRule)}
        [] OTHER -> {}
RECURSIVE Reach(_, _, _)
Reach(code, found, new) ==
  IF new = {} THEN found
  ELSE LET next == UNION {Successors(code, x) : x \in new}
       IN  Reach(code, found \cup next, next \ found)
ShapeOf(code) ==
  LET first == {[pc |-> 1, choices |-> 0, inRule |-> FALSE]}
      reached == Reach(code, first, first)
      ShapeAt(i) == CHOOSE x \in reached : x.pc = i
  IN  [i \in {x.pc : x \in reached} |->
         At0(ShapeAt(i).choices, ShapeAt(i).inRule)]
ShapeTable == LET table == Table
              IN  [p \in DOMAIN table |-> ShapeOf(table[p].code)] \o <<>>
MCShape    == LET table == ShapeTable IN table

MCSubjects == UNION {[1 .. n -> {"a", "b"}] : n \in 0 .. MaxSubject}
BlankSlot  == {[kind |-> "Crosiecap", idx |-> 0, s |-> NULL]}

AnalysedTable == IF Analysed THEN Table ELSE <<>>
AnswerTable ==
  LET table == AnalysedTable
  IN  [p \in DOMAIN table |->
         [sub \in MCSubjects |->
            [i \in 0 .. Len(sub) |-> Sem!Meaning(table[p].tree, sub, i)]]] \o <<>>
MCAnswers == LET table == AnswerTable IN table

Analysis(t) ==
  [first    |-> C!getfirst(t, Char, <<>>, {}),
   nullable |-> C!nullable(t, <<>>),
   nofail   |-> C!nofail(t, <<>>),
   fixedlen |-> C!fixedlen(t, <<>>),
   headfail |-> C!headfail(t, <<>>)]
AnalysisTable == LET table == AnalysedTable
                 IN  [p \in DOMAIN table |-> Analysis(table[p].tree)] \o <<>>
MCAnalyses == LET table == AnalysisTable IN table

----------------------------------------------------------------------------
(* The machine implements the meaning of the pattern.                      *)

NoAnswer == [out |-> "none"]
Answer(p, sub, i) == Sem!Meaning(Trees[p], sub, i)
Abstract == INSTANCE PegSpec
  WITH answer <- IF status = "MATCH_OK" THEN Outcome ELSE NoAnswer

(* Every run of a compiled pattern gives the match, captures, failure or   *)
(* halt that the pattern means, unless it runs out of a resource: no       *)
(* optimisation of lpcode.c and no backtracking of vm() changes the        *)
(* answer.                                                                 *)
Correct == Abstract!Spec

(* A run does not go round without consuming: no instruction that pushes   *)
(* a frame has two frames pending from one position of the input.  So the  *)
(* stack stays within what the input allows, and the error of a full stack *)
(* is given only to inputs that could need more.                           *)
Pushers == {i \in DOMAIN Code[prog] : Code[prog][i].op \in {"choice", "call"}}
DeepestStack == 1 + Cardinality(Pushers) * (e + 1)
NoRunaway ==
  /\ Len(stack) <= DeepestStack
  /\ status = "MATCH_ERR_STACK" => MAX_BACKTRACK < DeepestStack

----------------------------------------------------------------------------
(* What the analyses of lpcode.c say of a pattern, held against the runs   *)
(* of its program: the optimisations of the code generator rest on them.   *)

says     == Analyses[prog]
Answered == status = "MATCH_OK"
Matched  == Answered /\ Outcome.out = "match"
Begins(sub, i) == IF i < Len(sub) THEN {sub[i + 1]} ELSE {}

(* getfirst: a pattern that does not fail found a byte of its first set,   *)
(* or, at the end of the input, may accept the empty string.               *)
FirstSound ==
  Answered /\ r # NULL =>
    IF start < e THEN subject[start + 1] \in says.first.set
    ELSE says.first.e # {}

(* checkaux: only a nullable pattern matches without consuming, and a      *)
(* nofail pattern never fails.                                             *)
CheckauxSound ==
  /\ Matched /\ r = start => says.nullable
  /\ Answered /\ r = NULL => ~says.nofail

(* fixedlenx: a pattern of fixed length matches that many bytes.           *)
FixedlenSound ==
  Matched /\ says.fixedlen >= 0 => r = start + says.fixedlen

(* headfail: a failure depends on the next byte only, so the same pattern  *)
(* fails at every place where that byte is next.                           *)
HeadfailSound ==
  Answered /\ r = NULL /\ says.headfail =>
    \A sub \in Subjects : \A i \in 0 .. Len(sub) :
      Begins(sub, i) = Begins(subject, start) => Answers[prog][sub][i].out = "fail"

(* What the code generator's analyses say of a pattern is true of every    *)
(* run of the code for it: getfirst, checkaux, fixedlenx and headfail, on  *)
(* whose word choices are dropped and jumps taken.  For a backreference    *)
(* getfirst has no result, and checkaux goes by the pattern it is given.   *)
Refers == \E i \in DOMAIN Code[prog] : Code[prog][i].op = "backref"
AnalysesSound ==
  ~ Refers => FirstSound /\ CheckauxSound /\ FixedlenSound /\ HeadfailSound
============================================================================

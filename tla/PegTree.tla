------------------------------ MODULE PegTree ------------------------------
(***************************************************************************)
(* Pattern trees (TTree, rpeg/compiler/lptree.h) and the operations that   *)
(* build and analyse them: the lp_* and r_* constructors of lptree.c, and  *)
(* the analyses of lpcode.c that both the constructors and the code        *)
(* generator use.                                                          *)
(*                                                                         *)
(* A tree is a record with a "tag"; 'a' and 'b' are its siblings.  A       *)
(* character and a charset both are a set of bytes in field "set".  The    *)
(* rules of a grammar are numbered from 1, and a call carries its rule's   *)
(* number: TOpenCall and TCall are the tag "call", seen with no grammar    *)
(* (<<>>) and with its grammar around it.  The recursive definitions here  *)
(* are for TLC only; nothing is proved in this module.                     *)
(***************************************************************************)
EXTENDS Integers, Sequences, FiniteSets

CONSTANTS
  Char,        (* the bytes                                                *)
  MAXRULES,    (* bound on the rules of a grammar, and on fixedlen's calls *)
  MAXBEHIND    (* longest look-behind                                      *)

Leaf(tag) == [tag |-> tag]
TTrue  == Leaf("true")
TFalse == Leaf("false")
THalt  == Leaf("halt")
TAny   == Leaf("any")
TChar(c) == [tag |-> "char", set |-> {c}]
TSet(S)  == [tag |-> "set", set |-> S]
Node1(tag, p) == [tag |-> tag, a |-> p]
Node2(tag, p, q) == [tag |-> tag, a |-> p, b |-> q]
TCall(rule) == [tag |-> "call", rule |-> rule]

(***************************************************************************)
(* tocharset: the trees that match exactly one byte of a set.              *)
(***************************************************************************)
IsCharset(t) == t.tag \in {"char", "set", "any"}
Charset(t) == IF t.tag = "any" THEN Char ELSE t.set

(***************************************************************************)
(* checkaux: nullable (can match without consuming) and nofail (cannot     *)
(* fail), both conservative.  g is the grammar a call refers to.           *)
(***************************************************************************)
RECURSIVE checkaux(_, _, _)
checkaux(t, pred, g) ==
  CASE t.tag \in {"char", "set", "any", "false"} -> FALSE
    [] t.tag \in {"rep", "true", "halt"}         -> TRUE
    [] t.tag \in {"not", "behind"}               -> pred = "nullable"
    [] t.tag = "and"     -> pred = "nullable" \/ checkaux(t.a, pred, g)
    [] t.tag = "backref" -> pred = "nullable" /\ checkaux(t.a, pred, g)
    [] t.tag = "seq"     -> checkaux(t.a, pred, g) /\ checkaux(t.b, pred, g)
    [] t.tag = "choice"  -> checkaux(t.b, pred, g) \/ checkaux(t.a, pred, g)
    [] t.tag = "capture" -> checkaux(t.a, pred, g)
    [] t.tag = "grammar" -> checkaux(t.rules[1], pred, t.rules)
    [] t.tag = "call"    -> g # <<>> /\ checkaux(g[t.rule], pred, g)

nullable(t, g) == checkaux(t, "nullable", g)
nofail(t, g)   == checkaux(t, "nofail", g)

(***************************************************************************)
(* fixedlenx: the number of bytes a tree matches, -1 if that varies;       *)
(* 'count' bounds the calls followed.                                      *)
(***************************************************************************)

samelen(n1, n2) == IF n1 >= 0 /\ n1 = n2 THEN n1 ELSE -1

RECURSIVE fixedlenx(_, _, _, _)
fixedlenx(t, g, count, len) ==
  CASE IsCharset(t) -> len + 1
    [] t.tag \in {"false", "true", "not", "and", "behind", "halt"} -> len
    [] t.tag \in {"rep", "backref"} -> -1
    [] t.tag = "capture" -> fixedlenx(t.a, g, count, len)
    [] t.tag = "grammar" -> fixedlenx(t.rules[1], t.rules, count, len)
    [] t.tag = "call" -> IF g = <<>> \/ count >= MAXRULES THEN -1
                         ELSE fixedlenx(g[t.rule], g, count + 1, len)
    [] t.tag = "seq" -> LET n == fixedlenx(t.a, g, count, len)
                        IN  IF n < 0 THEN -1 ELSE fixedlenx(t.b, g, count, n)
    [] t.tag = "choice" -> LET n1 == fixedlenx(t.a, g, count, len)
                               n2 == fixedlenx(t.b, g, count, len)
                           IN  samelen(n1, n2)

fixedlen(t, g) == fixedlenx(t, g, 0, 0)

(***************************************************************************)
(* hascaptures.  numsiblings[TRule] is 2, so a call looks into its rule    *)
(* and every later one; numsiblings[TGrammar] is 1, its list of rules.     *)
(***************************************************************************)
RECURSIVE hascaptures(_, _)
hascaptures(t, g) ==
  CASE t.tag \in {"capture", "backref"} -> TRUE
    [] t.tag = "call" -> \/ hascaptures(g[t.rule], g)
                         \/ t.rule < Len(g) /\ hascaptures(TCall(t.rule + 1), g)
    [] t.tag = "grammar" -> hascaptures(TCall(1), t.rules)
    [] t.tag \in {"seq", "choice"} -> hascaptures(t.a, g) \/ hascaptures(t.b, g)
    [] t.tag \in {"rep", "not", "and", "behind"} -> hascaptures(t.a, g)
    [] OTHER -> FALSE

(***************************************************************************)
(* The constructors.  Those that raise a Lua error on some arguments come  *)
(* with the condition under which they do not.                             *)
(***************************************************************************)
lp_seq(p, q) ==
  IF p.tag = "false" \/ q.tag = "true" THEN p
  ELSE IF p.tag = "true" THEN q
  ELSE Node2("seq", p, q)

lp_choice(p, q) ==
  IF IsCharset(p) /\ IsCharset(q) THEN TSet(Charset(p) \cup Charset(q))
  ELSE IF nofail(p, <<>>) \/ q.tag = "false" THEN p
  ELSE IF p.tag = "false" THEN q
  ELSE Node2("choice", p, q)

\* p^n for n >= 0: n copies of p, then a repetition.
lp_star_ok(p) == ~nullable(p, <<>>)
RECURSIVE lp_star(_, _)
lp_star(p, n) ==
  IF n = 0 THEN Node1("rep", p) ELSE Node2("seq", p, lp_star(p, n - 1))

\* p^-n: up to n copies of p.
RECURSIVE lp_atmost(_, _)
lp_atmost(p, n) ==
  Node2("choice", IF n = 1 THEN p ELSE Node2("seq", p, lp_atmost(p, n - 1)),
        TTrue)

lp_and(p) == Node1("and", p)
lp_not(p) == Node1("not", p)

lp_sub(p, q) ==
  IF IsCharset(p) /\ IsCharset(q) THEN TSet(Charset(p) \ Charset(q))
  ELSE Node2("seq", Node1("not", q), p)

lp_behind_ok(p) ==
  fixedlen(p, <<>>) \in 0 .. MAXBEHIND /\ ~hascaptures(p, <<>>)
lp_behind(p) == [tag |-> "behind", a |-> p, n |-> fixedlen(p, <<>>)]

r_capture(p, key) ==
  [tag |-> "capture", a |-> p, cap |-> "Crosiecap", key |-> key]
r_constcapture(key, value) ==
  [tag |-> "capture", a |-> TTrue, cap |-> "Crosieconst", key |-> key,
   n |-> value]
r_backref(p, key) == [tag |-> "backref", a |-> p, key |-> key]

(***************************************************************************)
(* finalfix: make sequences and choices right associative, at every node   *)
(* but those below a grammar (fixed when it was built) or a backreference. *)
(***************************************************************************)
RECURSIVE correctassociativity(_)
correctassociativity(t) ==
  IF t.a.tag = t.tag
  THEN correctassociativity(Node2(t.tag, t.a.a, Node2(t.tag, t.a.b, t.b)))
  ELSE t

RECURSIVE finalfix(_)
finalfix(t) ==
  CASE t.tag \in {"seq", "choice"} ->
         LET c == correctassociativity(t)
         IN  Node2(c.tag, finalfix(c.a), finalfix(c.b))
    [] t.tag \in {"rep", "not", "and", "behind", "capture"} ->
         [t EXCEPT !.a = finalfix(@)]
    [] OTHER -> t

Each(F(_), ss) == [i \in DOMAIN ss |-> F(ss[i])]
newgrammar(rules) == [tag |-> "grammar", rules |-> Each(finalfix, rules)]

(***************************************************************************)
(* What newgrammar refuses.  verifyrule follows a rule as far as it goes   *)
(* without consuming; after 'passed' calls it must have gone in a circle.  *)
(* It returns whether the end can be reached, or if 'nb' says so, or       *)
(* LEFT_RECURSIVE for the error it raises.  On a backreference it asserts  *)
(* that there is none, and returns 0 where assertions are off.             *)
(***************************************************************************)
LEFT_RECURSIVE == -1
Truth(p) == IF p THEN 1 ELSE 0

(* Mutant: what comes second in a sequence is not looked at.               *)
ThroughFirst(n, second, nb) == IF n = LEFT_RECURSIVE THEN n ELSE nb

Through(n, second, nb) ==
  CASE n = LEFT_RECURSIVE -> LEFT_RECURSIVE [] n = 0 -> nb [] n = 1 -> second

RECURSIVE verifyrule(_, _, _, _)
verifyrule(t, g, passed, nb) ==
  CASE IsCharset(t) \/ t.tag \in {"false", "halt"} -> nb
    [] t.tag \in {"true", "behind"}    -> 1
    [] t.tag \in {"not", "and", "rep"} -> verifyrule(t.a, g, passed, 1)
    [] t.tag = "capture" -> verifyrule(t.a, g, passed, nb)
    [] t.tag = "call"    -> IF passed >= MAXRULES THEN LEFT_RECURSIVE
                            ELSE verifyrule(g[t.rule], g, passed + 1, nb)
    [] t.tag = "seq"     -> Through(verifyrule(t.a, g, passed, 0),
                                    verifyrule(t.b, g, passed, nb), nb)
    [] t.tag = "choice"  -> LET n == verifyrule(t.a, g, passed, nb)
                            IN  IF n = LEFT_RECURSIVE THEN n
                                ELSE verifyrule(t.b, g, passed, n)
    [] t.tag = "grammar" -> Truth(nullable(t, <<>>))
    [] t.tag = "backref" -> 0

(* A repetition of something nullable; below a grammar or a call it is not *)
(* looked for, and never below a backreference.                            *)
RECURSIVE checkloops(_, _)
checkloops(t, g) ==
  CASE t.tag = "rep" -> nullable(t.a, g) \/ checkloops(t.a, g)
    [] t.tag \in {"seq", "choice"} -> checkloops(t.a, g) \/ checkloops(t.b, g)
    [] t.tag \in {"not", "and", "behind", "capture"} -> checkloops(t.a, g)
    [] OTHER -> FALSE

(* fixonecall gives a key to the rules that are called, initialrulename to *)
(* the first; verifygrammar passes over the others.                        *)
RECURSIVE CallsIn(_)
CallsIn(t) ==
  CASE t.tag = "call" -> {t.rule}
    [] t.tag \in {"seq", "choice"} -> CallsIn(t.a) \cup CallsIn(t.b)
    [] t.tag \in {"rep", "not", "and", "behind", "capture"} -> CallsIn(t.a)
    [] OTHER -> {}
Keyed(rules) == {1} \cup UNION {CallsIn(rules[i]) : i \in DOMAIN rules}

verifygrammar(rules) ==
  /\ \A i \in Keyed(rules) : verifyrule(rules[i], rules, 0, 0) # LEFT_RECURSIVE
  /\ \A i \in Keyed(rules) : ~checkloops(rules[i], rules)

newgrammar_ok(rules) ==
  /\ Len(rules) <= MAXRULES
  /\ \A i \in DOMAIN rules : CallsIn(rules[i]) \subseteq DOMAIN rules
  /\ verifygrammar(Each(finalfix, rules))
============================================================================

---------------------------- MODULE PatternNames ----------------------------
(***************************************************************************)
(* The names in patterns: how the nodes of a tree that hold an index into  *)
(* the pattern's name table, and the table, are kept together while        *)
(* patterns are built from one another and compiled (lptree.c).            *)
(*                                                                         *)
(* A tree is the sequence of its nodes that can hold an index, in the      *)
(* order of a walk; the other nodes and the shape of the tree make no      *)
(* difference here, so a grammar that verifygrammar refuses is built.      *)
(* 'name' and 'value' are what the caller asked for: they are not in the   *)
(* code, and only the properties look at them.  numsiblings[TBackref] is   *)
(* 0: no walk goes below a backreference, and its pattern, whose table     *)
(* r_backref replaces, has no nodes here.                                  *)
(***************************************************************************)
EXTENDS Ktable

CONSTANTS
  Slots,     (* the values of the Lua program that can hold a pattern      *)
  CapNames,  (* names of captures, and of rules that are called            *)
  RuleNames, (* names of a grammar's rules, the initial one first          *)
  Values,    (* data of constant captures                                  *)
  NAME_ROOM, (* bytes that pushnewktable reserves for each element         *)
  Copies,    (* how often a repetition copies its pattern                  *)
  None,
  MaxNodes,  (* bound on the nodes in all patterns, those of rules apart   *)
  MaxRules   (* bound on the rules in all patterns                         *)

(* Strings are of bytes. *)
ASSUME NamesAssumption ==
  /\ CapNames \subseteq Seq(Nat) /\ Values \subseteq Seq(Nat)
  /\ RuleNames \in Seq(Seq(Nat)) /\ Len(RuleNames) >= 2
  /\ NAME_ROOM \in Nat /\ Copies \subseteq Nat

VARIABLE pats
vars == pats

pushnewktable(n) == ktable_new(n, n * NAME_ROOM)
Node(kind, key, name) ==
  [kind |-> kind, key |-> key, n |-> 0, name |-> name, value |-> <<>>]
Pattern(nodes, kt) == [nodes |-> nodes, kt |-> kt, compiled |-> FALSE,
                       code |-> <<>>]

(***************************************************************************)
(* correctkeys: renumber the nodes of a subtree whose table was appended.  *)
(***************************************************************************)
Moved(key, n) == IF key > 0 THEN key + n ELSE key
(* Mutant: the data of a constant capture are forgotten.                   *)
correctkeysOne(nodes, n) ==
  [i \in DOMAIN nodes |-> [nodes[i] EXCEPT !.key = Moved(@, n)]]
correctkeys(nodes, n) ==
  [i \in DOMAIN nodes |->
     [nodes[i] EXCEPT !.key = Moved(@, n), !.n = Moved(@, n)]]

(***************************************************************************)
(* Nodes with an index of their own.  addtonewktable gives the pattern a   *)
(* new table with the old elements, if there is an old pattern, and the    *)
(* new one; r_constcapture adds its data after its name.                   *)
(***************************************************************************)
addtoktable_ok(kt) == ktable_len(kt) < KTABLE_MAX_SIZE
addtoktable(kt, s, grows) == ktable_add(kt, s, grows)
Fresh(s, grows) == addtoktable(pushnewktable(1), s, grows)

newleaf == Pattern(<<>>, ktable_new(0, 0))
lp_V(name, grows) == Pattern(<<Node("opencall", 1, name)>>, Fresh(name, grows))
r_constcapture(value, name, grows) ==
  Pattern(<<[Node("const", 1, name) EXCEPT !.n = 2, !.value = value]>>,
          addtoktable(Fresh(name, grows), value, grows))
r_capture_ok(p) == addtoktable_ok(p.kt)
r_capture(p, name, grows) ==
  LET old == ktable_concat(p.kt, pushnewktable(1), grows)
  IN  Pattern(<<Node("capture", ktable_len(old) + 1, name)>> \o p.nodes,
              addtoktable(old, name, grows))

(***************************************************************************)
(* newroot1sib and lp_star copy the table of their operand; r_backref then *)
(* puts a new table in the place of the copy.                              *)
(***************************************************************************)
copyktable_ok(kt) == ktable_len(kt) <= KTABLE_MAX_SIZE
copyktable(kt, grows) == ktable_concat(kt, pushnewktable(ktable_len(kt)), grows)
newroot1sib(p, grows) == Pattern(p.nodes, copyktable(p.kt, grows))
r_backref(p, name, grows) ==
  Pattern(<<Node("backref", 1, name)>>,
          IF copyktable(p.kt, grows) = Overrun THEN Overrun ELSE Fresh(name, grows))
lp_star(p, n, grows) ==
  Pattern(FlattenSeq([i \in 1 .. n |-> p.nodes]), copyktable(p.kt, grows))

(***************************************************************************)
(* joinktables: the tables of two operands one after the other, or, if it  *)
(* is one pattern twice, its table once.  The second operand p2 comes      *)
(* first in the tree that lp_sub builds.                                   *)
(***************************************************************************)
joinktables_ok(p1, p2, same) ==
  copyktable_ok(p1.kt) /\ (same \/ ktable_concat_ok(p1.kt, p2.kt))
joinktables(p1, p2, same, grows) ==
  LET kt1 == ktable_concat(p1.kt, pushnewktable(ktable_len(p1.kt) + ktable_len(p2.kt)), grows)
  IN  IF same THEN kt1 ELSE ktable_concat(p2.kt, kt1, grows)
Second(p1, p2, same) ==
  IF same THEN p2.nodes ELSE correctkeys(p2.nodes, ktable_len(p1.kt))
newroot2sib(p1, p2, same, grows) ==
  Pattern(p1.nodes \o Second(p1, p2, same), joinktables(p1, p2, same, grows))
lp_sub(p1, p2, same, grows) ==
  Pattern(Second(p1, p2, same) \o p1.nodes, joinktables(p1, p2, same, grows))

(***************************************************************************)
(* newgrammar.  'rules' are pairs of a name and a pattern, the initial     *)
(* rule first.  buildgrammar merges the table of one rule after the other  *)
(* into the new one; finalfix looks up the rule that each open call names, *)
(* gives the rule the index of the call, and goes neither into a grammar   *)
(* inside a rule nor into a backreference; initialrulename names the first *)
(* rule if nothing calls it.                                               *)
(***************************************************************************)
AddRule(g, rule) ==
  LET merged == ktable_concat(rule.pattern.kt, g.kt, rule.grows)
      n      == Shift(rule.pattern.kt, g.kt)
  IN  [kt |-> merged, starts |-> Append(g.starts, Len(g.nodes) + 1),
       nodes |-> g.nodes \o <<Node("rule", 0, rule.name)>>
                   \o correctkeys(rule.pattern.nodes, n)]
buildgrammar(rules) ==
  FoldLeft(AddRule, [kt |-> pushnewktable(Len(rules)), starts |-> <<>>,
                     nodes |-> <<>>], rules)
buildgrammar_ok(rules) ==
  \A i \in DOMAIN rules :
    FoldLeft(LAMBDA x, y : x + y, 0, [j \in 1 .. i |-> ktable_len(rules[j].pattern.kt)])
      <= KTABLE_MAX_SIZE

OpenCalls(nodes) == {c \in DOMAIN nodes : nodes[c].kind = "opencall"}
CallsTo(g, name) ==
  {c \in OpenCalls(g.nodes) : ktable_element_name(g.kt, g.nodes[c].key) = name}
fixonecall_ok(g, rules) ==
  \A c \in OpenCalls(g.nodes) : \E i \in DOMAIN rules : c \in CallsTo(g, rules[i].name)
RuleKey(g, name) ==
  LET calls == CallsTo(g, name)
  IN  IF calls = {} THEN 0 ELSE g.nodes[Max(calls)].key
finalfix(g, rules) ==
  [c \in DOMAIN g.nodes |->
     IF \E i \in DOMAIN rules : g.starts[i] = c
     THEN [g.nodes[c] EXCEPT !.key = RuleKey(g, g.nodes[c].name)]
     ELSE IF g.nodes[c].kind = "opencall"
     THEN [g.nodes[c] EXCEPT !.kind = "call"] ELSE g.nodes[c]]

newgrammar(g, rules, grows) ==
  LET nodes == finalfix(g, rules)
  IN  IF nodes[1].key > 0 THEN Pattern(nodes, g.kt)
      ELSE Pattern([nodes EXCEPT ![1].key = ktable_len(g.kt) + 1],
                   ktable_add(g.kt, nodes[1].name, grows))

(***************************************************************************)
(* prepcompile: raise an error if an open call is left, compact the table, *)
(* give every node that the walk of update_capture_keys knows the index of *)
(* its name there (calls are not among them, and nothing reads their key   *)
(* any more), and generate code, which has 24 bits for an index.           *)
(***************************************************************************)
Compact(p, grows) == ktable_compact(p.kt, grows)
Mapping(p, ckt) ==
  [i \in 0 .. ktable_len(p.kt) |->
     IF i = 0 THEN 0 ELSE ktable_compact_search(ckt, ktable_element_name(p.kt, i))]
Updated == {"capture", "const", "backref", "rule"}
update_capture_keys(nodes, mapping) ==
  [c \in DOMAIN nodes |->
     IF nodes[c].kind \in Updated
     THEN [nodes[c] EXCEPT !.key = mapping[@],
                           !.n = IF nodes[c].kind = "const" THEN mapping[@] ELSE @]
     ELSE nodes[c]]

(* The indices a node holds, with the names they were created for.         *)
RefsOf(node) ==
  CASE node.kind \in {"capture", "backref", "opencall"} ->
         <<[key |-> node.key, name |-> node.name]>>
    [] node.kind = "const" ->
         <<[key |-> node.key, name |-> node.name],
           [key |-> node.n, name |-> node.value]>>
    [] node.kind = "rule" /\ node.key > 0 ->
         <<[key |-> node.key, name |-> node.name]>>
    [] OTHER -> <<>>
Aux(ref) == [ref EXCEPT !.key = @ % (KTABLE_MAX_SIZE + 1)]
Coded(node) == IF node.kind \in {"capture", "const", "backref"} THEN RefsOf(node) ELSE <<>>
codegen(nodes) ==
  LET refs == FlattenSeq([c \in DOMAIN nodes |-> Coded(nodes[c])])
  IN  [i \in DOMAIN refs |-> Aux(refs[i])]
compile(p) ==
  LET ckt   == Compact(p, TRUE)
      nodes == update_capture_keys(p.nodes, Mapping(p, ckt))
  IN  [nodes |-> nodes, kt |-> ckt, compiled |-> TRUE, code |-> codegen(nodes)]

(***************************************************************************)
(* The program: each operation leaves its result in some slot, whose old   *)
(* pattern is collected (lp_gc).  After a write behind a table there is no *)
(* telling what happens.                                                   *)
(***************************************************************************)
Held == {s \in Slots : pats[s] # None}
Damaged == \E s \in Held : pats[s].kt = Overrun
Lost == Pattern(<<>>, Overrun)
Count(ps, Kinds) ==
  FoldFunction(+, 0, [s \in Slots |->
    IF ps[s] = None THEN 0
    ELSE Len(SelectSeq(ps[s].nodes, LAMBDA node : node.kind \in Kinds))])
Put(p) ==
  IF p.kt = Overrun THEN pats' = [s \in Slots |-> Lost]
  ELSE /\ \E s \in Slots : pats' = [pats EXCEPT ![s] = p]
       /\ Count(pats', {"rule"}) <= MaxRules
       /\ Count(pats', {"capture", "const", "backref", "opencall", "call"})
            <= MaxNodes

Init == pats = [s \in Slots |-> None]

NewLeaf == Put(newleaf)
Variable == \E name \in CapNames, grows \in BOOLEAN : Put(lp_V(name, grows))
Backref == \E s \in Held, name \in CapNames, grows \in BOOLEAN :
             copyktable_ok(pats[s].kt) /\ Put(r_backref(pats[s], name, grows))
ConstCapture == \E value \in Values, name \in CapNames, grows \in BOOLEAN :
                  Put(r_constcapture(value, name, grows))
NamedCapture == \E s \in Held, name \in CapNames, grows \in BOOLEAN :
             r_capture_ok(pats[s]) /\ Put(r_capture(pats[s], name, grows))
Predicate == \E s \in Held, grows \in BOOLEAN :
               copyktable_ok(pats[s].kt) /\ Put(newroot1sib(pats[s], grows))
Star == \E s \in Held, n \in Copies, grows \in BOOLEAN :
          copyktable_ok(pats[s].kt) /\ Put(lp_star(pats[s], n, grows))
Two == \E s, r \in Held, grows \in BOOLEAN :
         /\ joinktables_ok(pats[s], pats[r], s = r)
         /\ \/ Put(newroot2sib(pats[s], pats[r], s = r, grows))
            \/ Put(lp_sub(pats[s], pats[r], s = r, grows))
Rule(i, p, grows) == [name |-> RuleNames[i], pattern |-> p, grows |-> grows]
Rules == {<<Rule(1, pats[s], b)>> : s \in Held, b \in BOOLEAN}
         \cup {<<Rule(1, pats[s], b), Rule(2, pats[r], b)>> :
                 s \in Held, r \in Held, b \in BOOLEAN}
Grammar == \E rules \in Rules :
             /\ buildgrammar_ok(rules)
             /\ LET g == buildgrammar(rules)
                IN  /\ g.kt # Overrun => fixonecall_ok(g, rules)
                    /\ Put(IF g.kt = Overrun THEN Lost
                           ELSE newgrammar(g, rules, rules[1].grows))
Compile == \E s \in Held, grows \in BOOLEAN :
             /\ ~pats[s].compiled /\ OpenCalls(pats[s].nodes) = {}
             /\ LET mapping == Mapping(pats[s], Compact(pats[s], TRUE))
                IN  \A i \in Indices(pats[s].kt) : mapping[i] > 0
             /\ IF Compact(pats[s], grows) = Overrun
                THEN pats' = [r \in Slots |-> Lost]
                ELSE pats' = [pats EXCEPT ![s] = compile(@)]

Next == /\ ~Damaged
        /\ \/ NewLeaf \/ Variable \/ Backref \/ ConstCapture \/ NamedCapture
           \/ Predicate \/ Star \/ Two \/ Grammar \/ Compile
Spec == Init /\ [][Next]_vars

-----------------------------------------------------------------------------
Sound == {s \in Held : pats[s].kt # Overrun}
TreeRefs(p) == FlattenSeq([c \in DOMAIN p.nodes |-> RefsOf(p.nodes[c])])
Names1(ref, kt) == ref.key \in Indices(kt) /\ ktable_element_name(kt, ref.key) = ref.name

(* However patterns are put together, copied, renumbered and compiled,     *)
(* every index in a tree still stands for the name it was created for in   *)
(* the table of its pattern (correctkeys, joinktables, mergektable,        *)
(* update_capture_keys), and so does every index in the code, unless       *)
(* initialrulename has given the table an element beyond its limit, whose  *)
(* index has more bits than code has room for.                             *)
NamesKept ==
  \A s \in Sound :
    LET kt == pats[s].kt  refs == TreeRefs(pats[s])  code == pats[s].code
    IN  /\ \A i \in DOMAIN refs : Names1(refs[i], kt)
        /\ ktable_len(kt) <= KTABLE_MAX_SIZE =>
             \A i \in DOMAIN code : Names1(code[i], kt)

(* ktable_compact: compiling finds a new index for every name of any table *)
(* (it neither gives up nor searches for ever), and the table of compiled  *)
(* code is in order and without duplicates, so that the search finds each  *)
(* name at its index and two captures have the same index if and only if   *)
(* they have the same name, on which backreferences rely.                  *)
Canonical ==
  \A s \in Sound :
    LET kt == pats[s].kt  code == pats[s].code
    IN  /\ \A i \in Indices(kt) :
             ktable_compact_search(ktable_compact(kt, TRUE), ktable_element_name(kt, i)) > 0
        /\ pats[s].compiled =>
             /\ \A i, j \in Indices(kt) : i < j =>
                  ktable_name_cmp(ktable_element_name(kt, i), ktable_element_name(kt, j)) = -1
             /\ \A i \in Indices(kt) :
                  ktable_compact_search(kt, ktable_element_name(kt, i)) = i
             /\ \A i, j \in DOMAIN code :
                  (code[i].key = code[j].key) <=> (code[i].name = code[j].name)

(* Nothing is written outside a table while its memory can grow: the       *)
(* elements fit their array, whose first slot is unused, the strings fit   *)
(* the block and every element lies in what is written, and the number of  *)
(* elements passes its limit by one at most (initialrulename does not look *)
(* at it).                                                                 *)
TablesFit ==
  \A s \in Sound :
    LET kt == pats[s].kt
    IN  /\ ktable_len(kt) < kt.size /\ Len(kt.block) <= kt.blocksize
        /\ \A i \in Indices(kt) :
             kt.elements[i].start + kt.elements[i].len <= Len(kt.block)
        /\ ktable_len(kt) <= KTABLE_MAX_SIZE + 1
==============================================================================

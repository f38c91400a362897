------------------------------ MODULE MCCapWalk ------------------------------
(***************************************************************************)
(* The capture lists of all small trees of captures, complete or cut off   *)
(* by a halt, and what their output should be.                             *)
(***************************************************************************)
EXTENDS CapMeaning

CONSTANTS MaxCaptures, MaxPos

(* The outer capture has name 1, those in it 2 or 3, of which 3 is one of  *)
(* the lengths that buf_peekshort does not read back; 4 and 5 are data.    *)
MCNames == <<<<0, 7, 5>>, <<1>>, <<0, 1, 2, 3, 4>>, <<7, 7>>, <<>>>>

(***************************************************************************)
(* Bodies(n): the captures, without positions, that n captures in a row    *)
(* or inside each other leave.                                             *)
(***************************************************************************)
Regular(i, body) ==
  <<<<"Crosiecap", i>>>> \o body \o <<<<"Cclose", 0>>>>
Constant(i, d) == <<<<"Crosieconst", i>>, <<"Ccloseconst", d>>>>

Bodies[n \in 0 .. 4] ==
  IF n = 0 THEN {<<>>}
  ELSE UNION {
    { h \o t : h \in {Regular(i, b) : i \in {2, 3}, b \in Bodies[k]}
                     \cup (IF k = 0 THEN {Constant(2, 4), Constant(3, 5)}
                                    ELSE {}),
               t \in Bodies[n - 1 - k] } : k \in 0 .. n - 1 }

Single(n) == {Regular(1, b) : b \in Bodies[n - 1]}
             \cup (IF n = 1 THEN {Constant(1, 4)} ELSE {})

(* Also one of four, where a capture that is not the first in its parent   *)
(* has one inside it.                                                      *)
Trees == UNION {Single(n) : n \in 1 .. MaxCaptures}
         \cup {Regular(1, Regular(2, <<>>) \o Regular(2, Constant(2, 4)))}

(* Positions that grow along the list, up to the end of the input in a     *)
(* list of two captures, one less in longer ones; a constant capture is    *)
(* empty.                                                                  *)
Highest(n) == IF n <= 4 THEN MaxPos ELSE MaxPos - 1
Rising(n) == {p \in [1 .. n -> 0 .. Highest(n)] : \A k \in 1 .. n - 1 : p[k] <= p[k + 1]}
Place(kinds, p) ==
  [k \in 1 .. Len(kinds) |-> [kind |-> kinds[k][1], idx |-> kinds[k][2],
                              s |-> p[k]]]
EmptyConstants(l) ==
  \A k \in 2 .. Len(l) : l[k].kind = "Ccloseconst" => l[k].s = l[k - 1].s

Listed(kinds, end) ==
  UNION {{ [list |-> l, r |-> l[Len(l)].s] :
             l \in {k \in {Place(Append(kinds, <<end, 0>>), p) :
                             p \in Rising(Len(kinds) + 1)} : EmptyConstants(k)} }}

Complete == UNION {Listed(k, "Cclose") : k \in {<<>>} \cup Trees}
(* A halt may come anywhere except inside a constant capture.              *)
Cuts(k) == {SubSeq(k, 1, n) : n \in {m \in 0 .. Len(k) - 1 :
                                       m = 0 \/ k[m][1] # "Crosieconst"}}
HaltedLists == UNION {Listed(k, "Cfinal") : k \in UNION {Cuts(b) : b \in Trees}}
(* In a look-behind, also before what was captured.                        *)
HaltedBehind ==
  UNION {{ [list |-> [a.list EXCEPT ![Len(a.list)].s = p], r |-> p] :
             p \in 0 .. MaxPos } :
           a \in UNION {Listed(k, "Cfinal") : k \in Cuts(Regular(1, Regular(2, <<>>)))}}
MCAnswers == LET All == Complete \cup HaltedLists \cup HaltedBehind IN All

(* All encoders on the whole input, the others on parts of it.             *)
MCCalls ==
  LET Ask(via, start, end, etype) ==
        [via |-> via, len |-> MaxPos, startpos |-> start, endpos |-> end,
         etype |-> etype]
      Whole == {Ask(via, 0, 0, e) : via \in {"C"}, e \in Encoders}
      Parts == {Ask("C", 2, 0, e) : e \in {"byte", "json"}}
               \cup {Ask("C", 0, MaxPos, "byte"), Ask("lua", -1, 0, "json")}
      Others == {Ask("lua", p, 0, e) : p \in {-4, 0, 1, 4}, e \in {"line"}}
                \cup {Ask("C", MaxPos + 2, 0, "json"),
                      Ask("C", MaxPos + 1, 1, "byte")}
  IN  Whole \cup Parts \cup Others
==============================================================================

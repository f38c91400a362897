----------------------------- MODULE NamesProof -----------------------------
(***************************************************************************)
(* Whatever is built from patterns, every index keeps standing for its     *)
(* name and the name tables stay sound, proved for PatternNames.  From     *)
(* ByteCodecProof come facts about numbers and sequences; its bytes play   *)
(* no part.                                                                *)
(***************************************************************************)
EXTENDS PatternNames, ByteCodecProof, FiniteSetTheorems, TLAPS

(***************************************************************************)
(* Folding a sequence.  The fold of the community modules is defined by a  *)
(* recursive function on sets of indices; if every step stays in a set D   *)
(* of values, the function exists, and takes one index after the other.    *)
(***************************************************************************)
IsIter(g, b, h, n) ==
  \A S \in SUBSET (1 .. n) :
    g[S] = IF S = {} THEN b ELSE h[Max(S)][g[S \ {Max(S)}]]

LEMMA MaxIs ==
  ASSUME NEW n \in Nat, NEW S \in SUBSET (1 .. n + 1), n + 1 \in S
  PROVE  Max(S) = n + 1
<1>1. \A y \in S : n + 1 >= y
  OBVIOUS
<1>2. \A x \in S : (\A y \in S : x >= y) => x = n + 1
  <2>1. TAKE x \in S
  <2>2. HAVE \A y \in S : x >= y
  <2>3. x >= n + 1 /\ x \in 1 .. n + 1
    BY <2>2
  <2> QED
    BY <2>3
<1> QED
  BY <1>1, <1>2 DEF Max

LEMMA MaxInside ==
  ASSUME NEW n \in Nat, NEW S \in SUBSET (1 .. n), S # {}
  PROVE  Max(S) \in S
<1> DEFINE T == {k \in Nat : \A y \in S : k >= y}
<1>1. n \in T
  OBVIOUS
<1>2. PICK k \in T : \A j \in T : k <= j
  BY <1>1, LeastNumber
<1>3. k \in S
  <2>1. SUFFICES ASSUME k \notin S PROVE FALSE
    OBVIOUS
  <2>2. \A y \in S : y \in Nat /\ k > y
    BY <1>2, <2>1
  <2>3. PICK y \in S : TRUE
    OBVIOUS
  <2>4. k \in Nat /\ k - 1 \in Nat /\ k - 1 < k
    BY <1>2, <2>2, <2>3
  <2>5. k - 1 \in T
    BY <2>2, <2>4
  <2> QED
    BY <1>2, <2>4, <2>5
<1>4. \E x \in S : \A y \in S : x >= y
  BY <1>2, <1>3
<1> QED
  BY <1>4 DEF Max

LEMMA IterLonger ==
  ASSUME NEW D, NEW b \in D, NEW m \in Nat, NEW h \in [1 .. m -> [D -> D]],
         NEW n \in Nat, n + 1 <= m,
         NEW g \in [SUBSET (1 .. n) -> D], IsIter(g, b, h, n)
  PROVE  \E f \in [SUBSET (1 .. n + 1) -> D] : IsIter(f, b, h, n + 1)
<1> DEFINE f == [S \in SUBSET (1 .. n + 1) |->
                   IF n + 1 \in S THEN h[n + 1][g[S \ {n + 1}]] ELSE g[S]]
<1>1. ASSUME NEW S \in SUBSET (1 .. n + 1)
      PROVE  f[S] \in D /\ f[S] = IF S = {} THEN b ELSE h[Max(S)][f[S \ {Max(S)}]]
  <2>1. CASE n + 1 \in S
    <3>1. Max(S) = n + 1
      BY <2>1, MaxIs
    <3>2. S \ {n + 1} \in SUBSET (1 .. n) /\ S # {}
      BY <2>1
    <3>3. g[S \ {n + 1}] \in D
      BY <3>2
    <3>4. S \ {n + 1} \in SUBSET (1 .. n + 1) /\ n + 1 \notin S \ {n + 1}
      OBVIOUS
    <3>5. f[S \ {n + 1}] = g[S \ {n + 1}]
      BY <3>4
    <3>6. f[S] = h[n + 1][g[S \ {n + 1}]]
      BY <2>1
    <3>7. h[n + 1][g[S \ {n + 1}]] \in D
      BY <3>3
    <3> QED
      BY <3>1, <3>2, <3>5, <3>6, <3>7
  <2>2. CASE n + 1 \notin S
    <3>1. S \in SUBSET (1 .. n)
      BY <2>2
    <3>2. f[S] = g[S] /\ g[S] \in D
      BY <2>2, <3>1
    <3>3. S \ {Max(S)} \in SUBSET (1 .. n + 1) /\ n + 1 \notin S \ {Max(S)}
      BY <2>2
    <3>4. f[S \ {Max(S)}] = g[S \ {Max(S)}]
      BY <3>3
    <3>5. g[S] = IF S = {} THEN b ELSE h[Max(S)][g[S \ {Max(S)}]]
      BY <3>1 DEF IsIter
    <3> QED
      BY <3>2, <3>4, <3>5
  <2> QED
    BY <2>1, <2>2
<1>2. f \in [SUBSET (1 .. n + 1) -> D]
  <2>1. \A S \in SUBSET (1 .. n + 1) : f[S] \in D
    BY <1>1
  <2> QED
    BY <2>1
<1>3. IsIter(f, b, h, n + 1)
  BY <1>1 DEF IsIter
<1> QED
  BY <1>2, <1>3

LEMMA IterExists ==
  ASSUME NEW D, NEW b \in D, NEW n \in Nat, NEW h \in [1 .. n -> [D -> D]]
  PROVE  \E g \in [SUBSET (1 .. n) -> D] : IsIter(g, b, h, n)
<1> DEFINE T == {k \in Nat : k <= n /\ ~ \E g \in [SUBSET (1 .. k) -> D] :
                                             IsIter(g, b, h, k)}
<1>1. T = {}
  <2>1. SUFFICES ASSUME T # {} PROVE FALSE
    OBVIOUS
  <2>2. PICK k \in T : \A j \in T : k <= j
    BY <2>1, LeastNumber
  <2>3. CASE k = 0
    <3> DEFINE g == [S \in SUBSET (1 .. 0) |-> b]
    <3>1. \A S \in SUBSET (1 .. 0) : S = {}
      OBVIOUS
    <3>2. g \in [SUBSET (1 .. 0) -> D] /\ IsIter(g, b, h, 0)
      BY <3>1 DEF IsIter
    <3> QED
      BY <2>2, <2>3, <3>2
  <2>4. CASE k # 0
    <3>1. PICK j \in Nat : k = j + 1 /\ j <= n /\ j \notin T
      <4>1. k \in Nat /\ k <= n
        BY <2>2
      <4>2. k - 1 \in Nat /\ k = (k - 1) + 1 /\ k - 1 <= n /\ ~ (k <= k - 1)
        BY <2>4, <4>1
      <4>3. k - 1 \notin T
        BY <2>2, <4>2, Zenon
      <4> QED
        BY <4>2, <4>3, Zenon
    <3>2. PICK g \in [SUBSET (1 .. j) -> D] : IsIter(g, b, h, j)
      BY <3>1
    <3>3. j + 1 <= n
      BY <2>2, <3>1
    <3>5. \E f \in [SUBSET (1 .. j + 1) -> D] : IsIter(f, b, h, j + 1)
      BY <3>2, <3>3, IterLonger
    <3> QED
      BY <2>2, <3>1, <3>5
  <2> QED
    BY <2>3, <2>4
<1>2. SUFFICES ASSUME ~ \E g \in [SUBSET (1 .. n) -> D] : IsIter(g, b, h, n)
               PROVE  FALSE
  OBVIOUS
<1>3. n \in T
  <2>1. n <= n
    OBVIOUS
  <2> QED
    BY <1>2, <2>1, Zenon
<1> QED
  BY <1>1, <1>3

(***************************************************************************)
(* Tables, by their type; adding strings to one, as a sequence of tables.  *)
(***************************************************************************)
Elements == [start : Nat, len : Nat]
Tables == [elements : Seq(Elements), block : Seq(Nat), size : Nat, blocksize : Nat]
Strings == Seq(Nat)

LEMMA TableFields ==
  ASSUME NEW kt \in Tables
  PROVE  /\ kt.elements \in Seq(Elements) /\ kt.block \in Seq(Nat)
         /\ kt.size \in Nat /\ kt.blocksize \in Nat
         /\ kt = [elements |-> kt.elements, block |-> kt.block,
                  size |-> kt.size, blocksize |-> kt.blocksize]
         /\ ktable_len(kt) \in Nat /\ Len(kt.block) \in Nat
         /\ Indices(kt) = DOMAIN kt.elements
BY DEF Tables, ktable_len, Indices

Room(kt, s) ==
  LET wide == IF Full(kt) THEN extend_ktable_elements(kt) ELSE kt
  IN  IF blockspace(kt) < Len(s) THEN extend_ktable_block(wide, Len(s)) ELSE wide

LEMMA RoomIs ==
  ASSUME NEW kt \in Tables, NEW s \in Strings
  PROVE  \E size, blocksize \in Nat :
           /\ Room(kt, s) = [elements |-> kt.elements, block |-> kt.block,
                             size |-> size, blocksize |-> blocksize]
           /\ size = IF Full(kt) THEN 2 * kt.size ELSE kt.size
           /\ blocksize >= kt.blocksize
           /\ Len(kt.block) <= kt.blocksize => Len(kt.block) + Len(s) <= blocksize
<1> DEFINE b == IF blockspace(kt) < Len(s)
                THEN 2 * kt.blocksize + (IF Len(s) > kt.blocksize THEN Len(s) ELSE 0)
                ELSE kt.blocksize
           z == IF Full(kt) THEN 2 * kt.size ELSE kt.size
<1>1. PICK l \in Nat, m \in Nat, k \in Nat :
        l = Len(s) /\ m = Len(kt.block) /\ k = kt.blocksize
  <2>1. Len(s) \in Nat
    BY DEF Strings
  <2>2. Len(kt.block) \in Nat /\ kt.blocksize \in Nat
    BY TableFields, Zenon
  <2> QED
    BY ONLY <2>1, <2>2
<1>2. b \in Nat /\ b >= k /\ (m <= k => m + l <= b)
  BY <1>1 DEF blockspace
<1>3. z \in Nat
  BY TableFields
<1>4. Room(kt, s) = [elements |-> kt.elements, block |-> kt.block,
                     size |-> z, blocksize |-> b]
  <2>1. kt = [elements |-> kt.elements, block |-> kt.block,
              size |-> kt.size, blocksize |-> kt.blocksize]
    BY TableFields, Zenon
  <2>2. PICK e, t, x, y : kt = [elements |-> e, block |-> t, size |-> x, blocksize |-> y]
    BY ONLY <2>1
  <2>3. CASE Full(kt) /\ blockspace(kt) < Len(s)
    BY ONLY <2>2, <2>3 DEF Room, extend_ktable_elements, extend_ktable_block, z, b
  <2>4. CASE Full(kt) /\ ~ (blockspace(kt) < Len(s))
    BY ONLY <2>2, <2>4 DEF Room, extend_ktable_elements, extend_ktable_block, z, b
  <2>5. CASE ~ Full(kt) /\ blockspace(kt) < Len(s)
    BY ONLY <2>2, <2>5 DEF Room, extend_ktable_elements, extend_ktable_block, z, b
  <2>6. CASE ~ Full(kt) /\ ~ (blockspace(kt) < Len(s))
    BY ONLY <2>2, <2>6 DEF Room, extend_ktable_elements, extend_ktable_block, z, b
  <2> QED
    BY ONLY <2>3, <2>4, <2>5, <2>6
<1> HIDE DEF b
<1> QED
  BY <1>1, <1>2, <1>3, <1>4

LEMMA AddIs ==
  ASSUME NEW kt \in Tables, NEW s \in Strings, NEW grows \in BOOLEAN
  PROVE  \/ ktable_add(kt, s, grows) = Overrun
         \/ \E size, blocksize \in Nat :
              /\ ktable_add(kt, s, grows) =
                   [elements |-> Append(kt.elements,
                                        [start |-> Len(kt.block), len |-> Len(s)]),
                    block |-> kt.block \o s, size |-> size, blocksize |-> blocksize]
              /\ size = IF Full(kt) THEN 2 * kt.size ELSE kt.size
              /\ blocksize >= kt.blocksize
              /\ Len(kt.block) <= kt.blocksize => Len(kt.block) + Len(s) <= blocksize
<1>1. PICK z \in Nat, b \in Nat :
           /\ Room(kt, s) = [elements |-> kt.elements, block |-> kt.block,
                             size |-> z, blocksize |-> b]
           /\ z = IF Full(kt) THEN 2 * kt.size ELSE kt.size
           /\ b >= kt.blocksize
           /\ Len(kt.block) <= kt.blocksize => Len(kt.block) + Len(s) <= b
  BY RoomIs
<1> DEFINE e == [start |-> Len(kt.block), len |-> Len(s)]
<1>2. \/ ktable_add(kt, s, grows) = Overrun
      \/ ktable_add(kt, s, grows) =
           [elements |-> Append(kt.elements, e), block |-> kt.block \o s,
            size |-> Room(kt, s).size, blocksize |-> Room(kt, s).blocksize]
  BY DEF ktable_add, Room
<1> HIDE DEF e
<1>3. Room(kt, s).size = z /\ Room(kt, s).blocksize = b
  <2>1. Room(kt, s) = [elements |-> kt.elements, block |-> kt.block,
                       size |-> z, blocksize |-> b]
    BY <1>1, Zenon
  <2> QED
    BY ONLY <2>1
<1> QED
  BY <1>1, <1>2, <1>3 DEF e

LEMMA OverrunTyped == Overrun \in Tables
BY DEF Overrun, Tables

LEMMA AddTyped ==
  ASSUME NEW kt \in Tables, NEW s \in Strings, NEW grows \in BOOLEAN
  PROVE  ktable_add(kt, s, grows) \in Tables
<1>1. CASE ktable_add(kt, s, grows) = Overrun
  BY <1>1, OverrunTyped
<1>2. CASE ktable_add(kt, s, grows) # Overrun
  <2> DEFINE e == [start |-> Len(kt.block), len |-> Len(s)]
  <2>1. e \in Elements
    BY TableFields DEF Elements, Strings
  <2> HIDE DEF e
  <2>2. Append(kt.elements, e) \in Seq(Elements)
    BY <2>1, TableFields
  <2>3. kt.block \o s \in Seq(Nat)
    BY TableFields DEF Strings
  <2>4. PICK z \in Nat, b \in Nat : ktable_add(kt, s, grows) =
          [elements |-> Append(kt.elements, e), block |-> kt.block \o s,
           size |-> z, blocksize |-> b]
    BY <1>2, AddIs DEF e
  <2> QED
    BY <2>2, <2>3, <2>4 DEF Tables
<1> QED
  BY <1>1, <1>2

IsAdding(f, kt, ss, grows) ==
  f = [S \in SUBSET DOMAIN ss |->
         IF S = {} THEN kt
         ELSE LET x == Max(S) IN ktable_add(f[S \ {x}], ss[x], grows)]

LEMMA AddAllChooses ==
  ASSUME NEW kt, NEW ss, NEW grows
  PROVE  AddAll(kt, ss, grows) = (CHOOSE f : IsAdding(f, kt, ss, grows))[DOMAIN ss]
BY DEF AddAll, FoldLeft, MapThenFoldSet, IsAdding

LEMMA AddingExists ==
  ASSUME NEW kt \in Tables, NEW ss \in Seq(Strings), NEW grows \in BOOLEAN
  PROVE  \E f : IsAdding(f, kt, ss, grows)
<1> DEFINE n == Len(ss)
           h == [i \in 1 .. n |-> [t \in Tables |-> ktable_add(t, ss[i], grows)]]
<1>1. n \in Nat /\ DOMAIN ss = 1 .. n
  OBVIOUS
<1>2. h \in [1 .. n -> [Tables -> Tables]]
  <2>1. \A i \in 1 .. n, t \in Tables : ktable_add(t, ss[i], grows) \in Tables
    BY AddTyped
  <2> QED
    BY <2>1
<1>3. PICK g \in [SUBSET (1 .. n) -> Tables] : IsIter(g, kt, h, n)
  <2> HIDE DEF n, h
  <2> QED
    BY <1>1, <1>2, IterExists
<1>4. ASSUME NEW S \in SUBSET (1 .. n)
      PROVE  g[S] = IF S = {} THEN kt
                    ELSE LET x == Max(S) IN ktable_add(g[S \ {x}], ss[x], grows)
  <2>1. CASE S = {}
    BY <1>3, <2>1 DEF IsIter
  <2>2. CASE S # {}
    <3>1. Max(S) \in 1 .. n
      BY <1>1, <2>2, MaxInside
    <3>2. g[S \ {Max(S)}] \in Tables
      OBVIOUS
    <3>3. g[S] = h[Max(S)][g[S \ {Max(S)}]]
      BY <1>3, <2>2 DEF IsIter
    <3> QED
      BY <2>2, <3>1, <3>2, <3>3
  <2> QED
    BY <2>1, <2>2
<1>5. IsAdding(g, kt, ss, grows)
  <2> HIDE DEF n, h
  <2> QED
    BY <1>1, <1>3, <1>4 DEF IsAdding
<1> QED
  BY <1>5

LEMMA Initial ==
  ASSUME NEW n \in Nat
  PROVE  (1 .. n + 1) \ {n + 1} = 1 .. n
OBVIOUS

AddedOneByOne(a, kt, ss, grows) ==
  /\ a[0] = kt
  /\ \A i \in 1 .. Len(ss) : a[i] = ktable_add(a[i - 1], ss[i], grows)
  /\ AddAll(kt, ss, grows) = a[Len(ss)]

LEMMA AddAllSteps ==
  ASSUME NEW kt \in Tables, NEW ss \in Seq(Strings), NEW grows \in BOOLEAN
  PROVE  \E a : AddedOneByOne(a, kt, ss, grows)
<1> DEFINE n == Len(ss)
<1>1. n \in Nat /\ DOMAIN ss = 1 .. n
  OBVIOUS
<1>2. PICK f : IsAdding(f, kt, ss, grows) /\ AddAll(kt, ss, grows) = f[1 .. n]
  BY <1>1, AddingExists, AddAllChooses
<1>3. ASSUME NEW S \in SUBSET (1 .. n)
      PROVE  f[S] = IF S = {} THEN kt
                    ELSE LET x == Max(S) IN ktable_add(f[S \ {x}], ss[x], grows)
  <2> HIDE DEF n
  <2>1. f = [X \in SUBSET (1 .. n) |->
               IF X = {} THEN kt
               ELSE LET x == Max(X) IN ktable_add(f[X \ {x}], ss[x], grows)]
    BY <1>1, <1>2, Zenon DEF IsAdding
  <2> QED
    BY <2>1, Zenon
<1> DEFINE a == [k \in 0 .. n |-> f[1 .. k]]
<1>4. a[0] = kt
  <2>1. 1 .. 0 = {} /\ {} \in SUBSET (1 .. n) /\ 0 \in 0 .. n
    BY <1>1
  <2> QED
    BY <1>3, <2>1
<1>5. ASSUME NEW i \in 1 .. n PROVE a[i] = ktable_add(a[i - 1], ss[i], grows)
  <2>1. i - 1 \in Nat /\ i - 1 \in 0 .. n /\ i \in 0 .. n /\ i \in Nat
          /\ i = (i - 1) + 1 /\ i \in 1 .. i
    BY <1>1
  <2>2. Max(1 .. i) = i
    BY <2>1, MaxIs
  <2>3. (1 .. i) \ {i} = 1 .. i - 1
    BY <2>1, Initial
  <2>4. 1 .. i \in SUBSET (1 .. n) /\ 1 .. i # {}
    <3>1. PICK m \in Nat : m = n
      BY <1>1
    <3>2. i \in 1 .. m
      BY <3>1
    <3>3. 1 .. i \in SUBSET (1 .. m) /\ 1 .. i # {}
      <4>1. \A x \in 1 .. i : x \in 1 .. m
        BY ONLY <3>2, m \in Nat
      <4>2. i \in 1 .. i
        BY <2>1
      <4> QED
        BY ONLY <4>1, <4>2
    <3> QED
      BY ONLY <3>1, <3>3
  <2>5. f[1 .. i] = ktable_add(f[1 .. i - 1], ss[i], grows)
    <3> HIDE DEF n, a
    <3> QED
      BY <1>3, <2>2, <2>3, <2>4
  <2>6. a[i] = f[1 .. i] /\ a[i - 1] = f[1 .. i - 1]
    <3> HIDE DEF n
    <3> QED
      BY ONLY <2>1
  <2> QED
    BY <2>5, <2>6
<1>6. a[n] = f[1 .. n]
  BY <1>1
<1> HIDE DEF a
<1> QED
  BY <1>2, <1>4, <1>5, <1>6 DEF AddedOneByOne

(***************************************************************************)
(* Sound tables: what TablesFit says of one, apart from the limit.         *)
(***************************************************************************)
Lies(kt, i) == kt.elements[i].start + kt.elements[i].len <= Len(kt.block)
TableOK(kt) ==
  /\ kt \in Tables
  /\ ktable_len(kt) < kt.size /\ Len(kt.block) <= kt.blocksize
  /\ \A i \in Indices(kt) : Lies(kt, i)

LEMMA Prolonged ==
  ASSUME NEW a \in Strings, NEW c \in Strings,
         NEW m \in Nat, NEW n \in Nat, m + n <= Len(a)
  PROVE  SubSeq(a \o c, m + 1, m + n) = SubSeq(a, m + 1, m + n)
BY DEF Strings

LEMMA Appended ==
  ASSUME NEW a \in Strings, NEW c \in Strings
  PROVE  SubSeq(a \o c, Len(a) + 1, Len(a) + Len(c)) = c
BY DEF Strings

LEMMA NewTable ==
  ASSUME NEW n \in Nat, NEW bytes \in Nat
  PROVE  TableOK(ktable_new(n, bytes)) /\ ktable_len(ktable_new(n, bytes)) = 0
<1> DEFINE z == 1 + (IF n > 0 THEN n ELSE KTABLE_INIT_SIZE)
           b == IF bytes > 0 THEN bytes ELSE z * KTABLE_AVG_ELEMENT_LEN
<1>1. z \in Nat /\ z > 0
  BY TableAssumption
<1>2. b \in Nat
  <2> HIDE DEF z
  <2>1. \A x, y \in Nat : x * y \in Nat
    OBVIOUS
  <2> QED
    BY <1>1, <2>1, TableAssumption
<1>3. ktable_new(n, bytes)
        = [elements |-> <<>>, block |-> <<>>, size |-> z, blocksize |-> b]
  BY DEF ktable_new
<1> HIDE DEF z, b
<1> DEFINE t == [elements |-> <<>>, block |-> <<>>, size |-> z, blocksize |-> b]
<1>4. t \in Tables
  BY <1>1, <1>2 DEF Tables
<1>5. ktable_len(t) = 0 /\ Indices(t) = {} /\ Len(t.block) = 0
        /\ t.size = z /\ t.blocksize = b
  BY DEF ktable_len, Indices
<1> HIDE DEF t
<1>6. TableOK(t)
  BY <1>1, <1>2, <1>4, <1>5 DEF TableOK
<1> QED
  BY <1>3, <1>5, <1>6 DEF t

(* The table that has one string more.                                     *)
OneMore(kt, s, t) ==
  /\ TableOK(t)
  /\ ktable_len(t) = ktable_len(kt) + 1
  /\ \A i \in Indices(kt) : ktable_element_name(t, i) = ktable_element_name(kt, i)
  /\ ktable_element_name(t, ktable_len(t)) = s

LEMMA AddSound ==
  ASSUME NEW kt, TableOK(kt), NEW s \in Strings, NEW grows \in BOOLEAN,
         ktable_add(kt, s, grows) # Overrun
  PROVE  OneMore(kt, s, ktable_add(kt, s, grows))
<1> DEFINE t == ktable_add(kt, s, grows)
           e == [start |-> Len(kt.block), len |-> Len(s)]
<1>1. kt \in Tables /\ t \in Tables
  BY AddTyped DEF TableOK
<1>2. PICK z \in Nat, b \in Nat :
        /\ t = [elements |-> Append(kt.elements, e), block |-> kt.block \o s,
                size |-> z, blocksize |-> b]
        /\ z = IF Full(kt) THEN 2 * kt.size ELSE kt.size
        /\ b >= kt.blocksize
        /\ Len(kt.block) <= kt.blocksize => Len(kt.block) + Len(s) <= b
  BY <1>1, AddIs
<1> HIDE DEF t, e
<1>3. t.elements = Append(kt.elements, e) /\ t.block = kt.block \o s
        /\ t.size = z /\ t.blocksize = b
  BY <1>2
<1>4. PICK els \in Seq(Elements), bl \in Strings :
        els = kt.elements /\ bl = kt.block
  BY <1>1, TableFields DEF Strings
<1>5. PICK l \in Nat, m \in Nat, n \in Nat :
        l = Len(els) /\ m = Len(bl) /\ n = Len(s)
  BY DEF Strings
<1>6. ktable_len(kt) = l /\ Indices(kt) = 1 .. l
  BY <1>4, <1>5 DEF ktable_len, Indices
<1>7. Len(t.elements) = l + 1 /\ t.elements[l + 1] = e
        /\ \A i \in 1 .. l : t.elements[i] = els[i]
  BY <1>3, <1>4, <1>5
<1>8. Len(t.block) = m + n
  BY <1>3, <1>4, <1>5 DEF Strings
<1>9. ktable_len(t) = l + 1 /\ Indices(t) = 1 .. l + 1
  BY <1>7 DEF ktable_len, Indices
<1>10. \A i \in 1 .. l : els[i].start \in Nat /\ els[i].len \in Nat
                           /\ els[i].start + els[i].len <= m
  <2>1. \A i \in 1 .. l : els[i] \in Elements
    BY <1>5
  <2>2. \A i \in 1 .. l : Lies(kt, i)
    BY <1>6 DEF TableOK
  <2> QED
    BY <2>1, <2>2, <1>4, <1>5 DEF Elements, Lies
<1>11. l + 1 < t.size /\ Len(t.block) <= t.blocksize
  <2>1. PICK x \in Nat, y \in Nat : x = kt.size /\ y = kt.blocksize
    BY <1>1, TableFields
  <2>2. l < x /\ m <= y
    BY <1>4, <1>5, <1>6, <2>1 DEF TableOK
  <2>3. Full(kt) <=> l + 1 = x
    BY <1>6, <2>1 DEF Full
  <2>4. z = IF l + 1 = x THEN 2 * x ELSE x
    BY <1>2, <2>1, <2>3, Zenon
  <2>5. m + n <= b
    BY <1>2, <1>4, <1>5, <2>1, <2>2, Zenon
  <2>6. l + 1 < z
    BY ONLY <2>2, <2>4, l \in Nat, x \in Nat, z \in Nat
  <2> QED
    BY <1>3, <1>8, <2>5, <2>6
<1>12. e.start = m /\ e.len = n
  BY <1>4, <1>5 DEF e
<1>13. ASSUME NEW i \in 1 .. l + 1 PROVE Lies(t, i)
  <2>1. CASE i = l + 1
    BY <1>7, <1>8, <1>12, <2>1 DEF Lies
  <2>2. CASE i # l + 1
    <3>1. i \in 1 .. l
      BY <2>2
    <3>2. t.elements[i] = els[i] /\ els[i].start \in Nat /\ els[i].len \in Nat
            /\ els[i].start + els[i].len <= m
      BY <1>7, <1>10, <3>1
    <3> QED
      BY <1>8, <3>2 DEF Lies
  <2> QED
    BY <2>1, <2>2
<1>14. TableOK(t)
  BY <1>1, <1>9, <1>11, <1>13 DEF TableOK
<1>15. ASSUME NEW i \in 1 .. l
       PROVE  ktable_element_name(t, i) = ktable_element_name(kt, i)
  <2>1. t.elements[i] = els[i] /\ els[i].start \in Nat /\ els[i].len \in Nat
          /\ els[i].start + els[i].len <= m
    BY <1>7, <1>10
  <2>2. SubSeq(bl \o s, els[i].start + 1, els[i].start + els[i].len)
          = SubSeq(bl, els[i].start + 1, els[i].start + els[i].len)
    <3>1. PICK p \in Nat, q \in Nat : p = els[i].start /\ q = els[i].len
      BY <2>1
    <3>2. p + q <= Len(bl)
      BY <1>5, <2>1, <3>1
    <3>3. SubSeq(bl \o s, p + 1, p + q) = SubSeq(bl, p + 1, p + q)
      BY <3>2, Prolonged
    <3> QED
      BY ONLY <3>1, <3>3
  <2> QED
    BY <1>3, <1>4, <2>1, <2>2 DEF ktable_element_name
<1>16. ktable_element_name(t, l + 1) = s
  <2>1. SubSeq(bl \o s, Len(bl) + 1, Len(bl) + Len(s)) = s
    BY Appended
  <2> QED
    BY <1>3, <1>4, <1>5, <1>7, <1>12, <2>1 DEF ktable_element_name
<1> QED
  BY <1>6, <1>9, <1>14, <1>15, <1>16 DEF OneMore, t

(***************************************************************************)
(* Adding all strings of a sequence.                                       *)
(***************************************************************************)
Longer(kt, ss, k, t) ==
  /\ TableOK(t)
  /\ ktable_len(t) = ktable_len(kt) + k
  /\ \A i \in Indices(kt) : ktable_element_name(t, i) = ktable_element_name(kt, i)
  /\ \A j \in 1 .. k : ktable_element_name(t, ktable_len(kt) + j) = ss[j]

LEMMA AddToOverrun ==
  ASSUME NEW s, NEW grows
  PROVE  ktable_add(Overrun, s, grows) = Overrun
BY DEF ktable_add

LEMMA LongerByOne ==
  ASSUME NEW kt \in Tables, NEW ss \in Seq(Strings), NEW k \in Nat, k + 1 <= Len(ss),
         NEW t, NEW u, Longer(kt, ss, k, t), OneMore(t, ss[k + 1], u)
  PROVE  Longer(kt, ss, k + 1, u)
<1>1. PICK l \in Nat : l = ktable_len(kt)
  BY TableFields
<1>2. Indices(kt) = 1 .. l /\ ktable_len(t) = l + k /\ ktable_len(u) = (l + k) + 1
  BY <1>1 DEF Longer, OneMore, Indices
<1>3. Indices(t) = 1 .. l + k
  BY <1>2 DEF Indices
<1>4. TableOK(u)
  BY DEF OneMore
<1>5. ASSUME NEW i \in 1 .. l
      PROVE  ktable_element_name(u, i) = ktable_element_name(kt, i)
  <2>1. i \in Indices(t) /\ i \in Indices(kt)
    BY <1>2, <1>3
  <2> QED
    BY <2>1 DEF Longer, OneMore
<1>6. ASSUME NEW j \in 1 .. k + 1
      PROVE  ktable_element_name(u, l + j) = ss[j]
  <2>1. CASE j = k + 1
    <3>1. l + j = (l + k) + 1
      BY <2>1
    <3> QED
      BY <1>2, <2>1, <3>1 DEF OneMore
  <2>2. CASE j # k + 1
    <3>1. j \in 1 .. k /\ l + j \in Indices(t)
      BY <1>3, <2>2
    <3>2. ktable_element_name(t, l + j) = ss[j]
      BY <1>1, <3>1 DEF Longer
    <3> QED
      BY <3>1, <3>2 DEF OneMore
  <2> QED
    BY <2>1, <2>2
<1> QED
  BY <1>1, <1>2, <1>4, <1>5, <1>6 DEF Longer

LEMMA AddAllSound ==
  ASSUME NEW kt, TableOK(kt), NEW ss \in Seq(Strings), NEW grows \in BOOLEAN,
         AddAll(kt, ss, grows) # Overrun
  PROVE  Longer(kt, ss, Len(ss), AddAll(kt, ss, grows))
<1>1. kt \in Tables
  BY DEF TableOK
<1>2. PICK a : AddedOneByOne(a, kt, ss, grows)
  BY <1>1, AddAllSteps
<1>3. PICK n \in Nat : n = Len(ss)
  OBVIOUS
<1>4. a[0] = kt /\ AddAll(kt, ss, grows) = a[n]
  BY <1>2, <1>3 DEF AddedOneByOne
<1>5. \A i \in 1 .. n : a[i] = ktable_add(a[i - 1], ss[i], grows) /\ ss[i] \in Strings
  BY <1>2, <1>3 DEF AddedOneByOne
<1> DEFINE P(k) == a[k] # Overrun => Longer(kt, ss, k, a[k])
           T == {k \in Nat : k <= n /\ ~ P(k)}
<1>6. T = {}
  <2>1. SUFFICES ASSUME T # {} PROVE FALSE
    OBVIOUS
  <2>2. PICK k \in T : \A j \in T : k <= j
    BY <2>1, LeastNumber
  <2>3. k \in Nat /\ k <= n /\ ~ P(k)
    BY <2>2
  <2>4. CASE k = 0
    <3>1. Longer(kt, ss, 0, kt)
      <4>1. ktable_len(kt) = ktable_len(kt) + 0
        BY <1>1, TableFields
      <4> QED
        BY <4>1 DEF Longer
    <3> QED
      BY <1>4, <2>3, <2>4, <3>1
  <2>5. CASE k # 0
    <3>1. PICK j \in Nat : k = j + 1
      <4>1. k - 1 \in Nat /\ k = (k - 1) + 1
        BY <2>3, <2>5
      <4> QED
        BY ONLY <4>1
    <3>2. j <= n /\ ~ (k <= j) /\ k \in 1 .. n /\ k - 1 = j
      BY <2>3, <3>1
    <3>3. P(j)
      <4> HIDE DEF P
      <4> QED
        BY <2>2, <3>2
    <3>4. a[k] = ktable_add(a[j], ss[k], grows) /\ ss[k] \in Strings
      BY <1>5, <3>2
    <3>5. a[k] # Overrun
      BY <2>3
    <3>6. a[j] # Overrun
      BY <3>4, <3>5, AddToOverrun
    <3>7. Longer(kt, ss, j, a[j])
      BY <3>3, <3>6
    <3>8. OneMore(a[j], ss[k], a[k])
      <4>1. TableOK(a[j])
        BY <3>7 DEF Longer
      <4> QED
        BY <4>1, <3>4, <3>5, AddSound
    <3>9. Longer(kt, ss, j + 1, a[k])
      BY <1>1, <1>3, <2>3, <3>1, <3>7, <3>8, LongerByOne
    <3> QED
      BY <2>3, <3>1, <3>9
  <2> QED
    BY <2>4, <2>5
<1> HIDE DEF P
<1>7. P(n)
  <2>1. n \notin T /\ n <= n
    BY <1>6
  <2> QED
    BY <2>1
<1> QED
  BY <1>3, <1>4, <1>7 DEF P

(***************************************************************************)
(* Concatenating tables.                                                   *)
(***************************************************************************)
LEMMA NamesAre ==
  ASSUME NEW kt, TableOK(kt)
  PROVE  /\ Names(kt) \in Seq(Strings) /\ Len(Names(kt)) = ktable_len(kt)
         /\ \A i \in Indices(kt) : /\ Names(kt)[i] = ktable_element_name(kt, i)
                                   /\ ktable_element_name(kt, i) \in Strings
<1>1. PICK l \in Nat : l = ktable_len(kt)
  BY TableFields DEF TableOK
<1>2. Indices(kt) = 1 .. l
  BY <1>1 DEF Indices
<1>3. PICK bl \in Strings : bl = kt.block
  BY TableFields DEF TableOK, Strings
<1>4. ASSUME NEW i \in 1 .. l PROVE ktable_element_name(kt, i) \in Strings
  <2>1. kt.elements \in Seq(Elements) /\ i \in DOMAIN kt.elements
    BY <1>2, TableFields DEF TableOK
  <2>2. kt.elements[i] \in Elements
    BY ONLY <2>1
  <2>3. PICK p \in Nat, q \in Nat : p = kt.elements[i].start /\ q = kt.elements[i].len
    BY <2>2 DEF Elements
  <2>4. p + q <= Len(bl)
    BY <1>2, <1>3, <2>3 DEF TableOK, Lies
  <2>5. SubSeq(bl, p + 1, p + q) \in Strings
    BY <2>4 DEF Strings
  <2> QED
    BY <1>3, <2>3, <2>5 DEF ktable_element_name
<1>5. Names(kt) = [i \in 1 .. l |-> ktable_element_name(kt, i)]
  BY <1>2 DEF Names
<1> QED
  BY <1>1, <1>2, <1>4, <1>5

(* kt is kt2 with the strings of kt1 behind its own.                       *)
Joined(kt1, kt2, kt) ==
  /\ TableOK(kt)
  /\ ktable_len(kt) = ktable_len(kt2) + ktable_len(kt1)
  /\ \A i \in Indices(kt2) : ktable_element_name(kt, i) = ktable_element_name(kt2, i)
  /\ \A i \in Indices(kt1) :
       ktable_element_name(kt, ktable_len(kt2) + i) = ktable_element_name(kt1, i)

LEMMA ConcatSound ==
  ASSUME NEW kt1, TableOK(kt1), NEW kt2, TableOK(kt2), NEW grows \in BOOLEAN,
         ktable_concat(kt1, kt2, grows) # Overrun
  PROVE  Joined(kt1, kt2, ktable_concat(kt1, kt2, grows))
<1>1. Longer(kt2, Names(kt1), Len(Names(kt1)), ktable_concat(kt1, kt2, grows))
  BY NamesAre, AddAllSound DEF ktable_concat
<1>2. Len(Names(kt1)) = ktable_len(kt1) /\ Indices(kt1) = 1 .. ktable_len(kt1)
  BY NamesAre DEF Indices
<1>3. \A i \in Indices(kt1) : Names(kt1)[i] = ktable_element_name(kt1, i)
  BY NamesAre
<1> QED
  BY <1>1, <1>2, <1>3 DEF Longer, Joined

LEMMA CopySound ==
  ASSUME NEW kt, TableOK(kt), NEW grows \in BOOLEAN, NEW n \in Nat,
         ktable_concat(kt, pushnewktable(n), grows) # Overrun
  PROVE  LET t == ktable_concat(kt, pushnewktable(n), grows)
         IN  /\ TableOK(t) /\ ktable_len(t) = ktable_len(kt)
             /\ \A i \in Indices(kt) : ktable_element_name(t, i) = ktable_element_name(kt, i)
<1> DEFINE e == pushnewktable(n)
<1>1. TableOK(e) /\ ktable_len(e) = 0
  <2>1. n * NAME_ROOM \in Nat
    <3>1. \A x, y \in Nat : x * y \in Nat
      OBVIOUS
    <3> QED
      BY <3>1, NamesAssumption
  <2> QED
    BY <2>1, NewTable DEF pushnewktable
<1> HIDE DEF e
<1>2. Joined(kt, e, ktable_concat(kt, e, grows))
  BY <1>1, ConcatSound DEF e
<1>3. PICK l \in Nat : l = ktable_len(kt)
  BY TableFields DEF TableOK
<1>4. Indices(kt) = 1 .. l
  BY <1>3 DEF Indices
<1>5. 0 + l = l /\ \A i \in 1 .. l : 0 + i = i
  BY <1>3
<1> QED
  BY <1>1, <1>2, <1>3, <1>4, <1>5 DEF Joined, e

LEMMA AddAllToOverrun ==
  ASSUME NEW ss \in Seq(Strings), NEW grows \in BOOLEAN
  PROVE  AddAll(Overrun, ss, grows) = Overrun
<1>1. PICK a : AddedOneByOne(a, Overrun, ss, grows)
  BY OverrunTyped, AddAllSteps
<1>2. PICK n \in Nat : n = Len(ss)
  OBVIOUS
<1>3. a[0] = Overrun /\ AddAll(Overrun, ss, grows) = a[n]
        /\ \A i \in 1 .. n : a[i] = ktable_add(a[i - 1], ss[i], grows)
  BY <1>1, <1>2 DEF AddedOneByOne
<1> DEFINE T == {k \in Nat : k <= n /\ a[k] # Overrun}
<1>4. T = {}
  <2>1. SUFFICES ASSUME T # {} PROVE FALSE
    OBVIOUS
  <2>2. PICK k \in T : \A j \in T : k <= j
    BY <2>1, LeastNumber
  <2>3. k \in Nat /\ k <= n /\ a[k] # Overrun
    BY <2>2
  <2>4. k # 0
    BY <1>3, <2>3
  <2>5. k - 1 \in Nat /\ k - 1 <= n /\ ~ (k <= k - 1) /\ k \in 1 .. n
    BY <2>3, <2>4
  <2>6. a[k - 1] = Overrun
    BY <2>2, <2>5
  <2> QED
    BY <1>3, <2>3, <2>5, <2>6, AddToOverrun
<1>5. n <= n
  OBVIOUS
<1> QED
  BY <1>3, <1>4, <1>5

(***************************************************************************)
(* Nodes whose indices stand for their names in a table.                   *)
(***************************************************************************)
Kinds == {"opencall", "call", "capture", "const", "backref", "rule"}
Nodes == [kind : Kinds, key : Nat, n : Nat, name : Strings, value : Strings]
Keyed(kt, key, name) == key \in Indices(kt) /\ ktable_element_name(kt, key) = name
NodeOK(node, kt) ==
  /\ node.kind \in {"opencall", "capture", "const", "backref"} =>
       Keyed(kt, node.key, node.name)
  /\ node.kind = "const" => Keyed(kt, node.n, node.value)
  /\ node.kind = "rule" /\ node.key > 0 => Keyed(kt, node.key, node.name)
Good(kt) == {node \in Nodes : NodeOK(node, kt)}

Keeps(kt, t) ==
  \A i \in Indices(kt) : /\ i \in Indices(t)
                         /\ ktable_element_name(t, i) = ktable_element_name(kt, i)

LEMMA GoodKept ==
  ASSUME NEW kt, NEW t, Keeps(kt, t)
  PROVE  Good(kt) \subseteq Good(t)
<1>1. \A key, name : Keyed(kt, key, name) => Keyed(t, key, name)
  BY DEF Keeps, Keyed
<1> QED
  BY <1>1 DEF Good, NodeOK

LEMMA NodesStay ==
  ASSUME NEW kt, NEW t, Keeps(kt, t), NEW nodes, nodes \in Seq(Good(kt))
  PROVE  nodes \in Seq(Good(t))
<1>1. PICK S, T : S = Good(kt) /\ T = Good(t)
  OBVIOUS
<1>2. S \subseteq T /\ nodes \in Seq(S)
  BY <1>1, GoodKept
<1>3. nodes \in Seq(T)
  BY ONLY <1>2
<1> QED
  BY <1>1, <1>3

LEMMA FlattenInto ==
  ASSUME NEW S, NEW ss \in Seq(Seq(S))
  PROVE  FlattenSeq(ss) \in Seq(S)
<1> DEFINE n == Len(ss)
<1>1. n \in Nat /\ \A i \in 1 .. n : ss[i] \in Seq(S)
  OBVIOUS
<1>2. CASE n = 0
  <2>1. FlattenSeq(ss) = ss /\ ss = <<>>
    BY <1>2 DEF FlattenSeq
  <2> QED
    BY <2>1
<1>3. CASE n # 0
  <2>1. \E f : IsFlattened(f, ss, n)
    BY <1>1, <1>3, FlattenedExists
  <2>2. FlattenSeq(ss) = (CHOOSE f : IsFlattened(f, ss, n))[n]
    BY <1>3 DEF FlattenSeq, IsFlattened
  <2>3. PICK g : IsFlattened(g, ss, n) /\ FlattenSeq(ss) = g[n]
    BY <2>1, <2>2
  <2> HIDE DEF n
  <2>4. g[1] = ss[1] /\ \A i \in 2 .. n : g[i] = g[i - 1] \o ss[i]
    <3>1. n \in Nat \ {0}
      BY <1>1, <1>3 DEF n
    <3> QED
      BY <3>1, <2>3, FlattenedSteps, Zenon
  <2> DEFINE T == {k \in Nat : k # 0 /\ k <= n /\ g[k] \notin Seq(S)}
  <2>5. T = {}
    <3>1. SUFFICES ASSUME T # {} PROVE FALSE
      OBVIOUS
    <3>2. PICK k \in T : \A j \in T : k <= j
      BY <3>1, LeastNumber
    <3>3. k \in Nat /\ k # 0 /\ k <= n /\ g[k] \notin Seq(S) /\ k \in 1 .. n
      BY <3>2, <1>1
    <3>4. CASE k = 1
      BY <1>1, <2>4, <3>3, <3>4
    <3>5. CASE k # 1
      <4>1. k - 1 \in Nat /\ k - 1 # 0 /\ k - 1 <= n /\ ~ (k <= k - 1) /\ k \in 2 .. n
        BY <1>1, <3>3, <3>5
      <4>2. g[k - 1] \in Seq(S)
        BY <3>2, <4>1
      <4>3. ss[k] \in Seq(S)
        BY <1>1, <3>3
      <4>4. g[k - 1] \o ss[k] \in Seq(S)
        BY ONLY <4>2, <4>3
      <4> QED
        BY <2>4, <3>3, <4>1, <4>4
    <3> QED
      BY <3>4, <3>5
  <2>6. n \in Nat /\ n # 0 /\ n <= n
    BY <1>1, <1>3
  <2> QED
    BY <2>3, <2>5, <2>6
<1> QED
  BY <1>2, <1>3

(***************************************************************************)
(* The order of strings: the first position at which they differ decides.  *)
(* The table of a pattern that has been compiled is in order.              *)
(***************************************************************************)
LessAt(a, b, k) ==
  /\ k \in Nat \ {0} /\ k <= Len(a) + 1 /\ k <= Len(b)
  /\ \A i \in 1 .. k - 1 : a[i] = b[i]
  /\ k <= Len(a) => a[k] < b[k]
Less(a, b) == \E k \in Nat \ {0} : LessAt(a, b, k)
InOrder(t) ==
  \A i \in Indices(t), j \in Indices(t) :
    i < j => Less(ktable_element_name(t, i), ktable_element_name(t, j))

(***************************************************************************)
(* Patterns, and those that have not been compiled.                        *)
(***************************************************************************)
CodedOK(ref, kt) ==
  \E key \in Indices(kt) : /\ ktable_element_name(kt, key) = ref.name
                           /\ ref.key = key % (KTABLE_MAX_SIZE + 1)
PatOK(p) ==
  /\ TableOK(p.kt) /\ ktable_len(p.kt) <= KTABLE_MAX_SIZE + 1
  /\ p.nodes \in Seq(Good(p.kt))
  /\ \A i \in DOMAIN p.code : CodedOK(p.code[i], p.kt)
  /\ p.compiled => InOrder(p.kt)
Kept(p) == p.kt = Overrun \/ PatOK(p)

Fits(nodes, kt) ==
  /\ TableOK(kt) /\ ktable_len(kt) <= KTABLE_MAX_SIZE + 1
  /\ nodes \in Seq(Good(kt))

LEMMA FreshPattern ==
  ASSUME NEW nodes, NEW kt, kt = Overrun \/ Fits(nodes, kt)
  PROVE  Kept(Pattern(nodes, kt))
<1> DEFINE p == Pattern(nodes, kt)
<1>1. p.kt = kt /\ p.nodes = nodes /\ p.code = <<>> /\ p.compiled = FALSE
  BY DEF Pattern
<1>2. DOMAIN p.code = {}
  BY <1>1
<1> HIDE DEF p
<1> QED
  BY <1>1, <1>2 DEF Kept, PatOK, Fits, p

LEMMA LimitIs == KTABLE_MAX_SIZE \in Nat /\ KTABLE_MAX_SIZE > 0
BY TableAssumption

LEMMA LeafKept == Kept(newleaf)
<1> DEFINE kt == ktable_new(0, 0)
<1>1. TableOK(kt) /\ ktable_len(kt) = 0
  BY NewTable
<1> HIDE DEF kt
<1>2. <<>> \in Seq(Good(kt))
  OBVIOUS
<1>3. Fits(<<>>, kt)
  BY <1>1, <1>2, LimitIs DEF Fits
<1>4. Kept(Pattern(<<>>, kt))
  BY <1>3, FreshPattern
<1> QED
  BY <1>4 DEF newleaf, kt

LEMMA NodeIs ==
  ASSUME NEW kind \in Kinds, NEW key \in Nat, NEW name \in Strings
  PROVE  /\ Node(kind, key, name) \in Nodes
         /\ Node(kind, key, name).kind = kind /\ Node(kind, key, name).key = key
         /\ Node(kind, key, name).name = name
<1>1. <<>> \in Strings
  BY DEF Strings
<1> QED
  BY <1>1 DEF Node, Nodes

LEMMA KeyedNode ==
  ASSUME NEW kind \in {"opencall", "capture", "backref"}, NEW key \in Nat,
         NEW name \in Strings, NEW kt, Keyed(kt, key, name)
  PROVE  Node(kind, key, name) \in Good(kt)
<1>1. kind \in Kinds
  BY DEF Kinds
<1>2. /\ Node(kind, key, name) \in Nodes
      /\ Node(kind, key, name).kind = kind /\ Node(kind, key, name).key = key
      /\ Node(kind, key, name).name = name
  BY <1>1, NodeIs
<1> QED
  BY <1>2 DEF Good, NodeOK

LEMMA LastKeyed ==
  ASSUME NEW kt, TableOK(kt), NEW s, NEW t, OneMore(kt, s, t)
  PROVE  /\ ktable_len(kt) + 1 \in Nat /\ Keyed(t, ktable_len(kt) + 1, s)
         /\ Keeps(kt, t) /\ TableOK(t) /\ ktable_len(t) = ktable_len(kt) + 1
<1>1. PICK l \in Nat : l = ktable_len(kt)
  BY TableFields DEF TableOK
<1>2. ktable_len(t) = l + 1 /\ Indices(t) = 1 .. l + 1 /\ Indices(kt) = 1 .. l
  BY <1>1 DEF OneMore, Indices
<1>3. \A i \in 1 .. l : i \in 1 .. l + 1
  OBVIOUS
<1> QED
  BY <1>1, <1>2, <1>3 DEF OneMore, Keyed, Keeps

LEMMA NewKT ==
  ASSUME NEW n \in Nat
  PROVE  TableOK(pushnewktable(n)) /\ ktable_len(pushnewktable(n)) = 0
<1>1. n * NAME_ROOM \in Nat
  <2>1. \A x, y \in Nat : x * y \in Nat
    OBVIOUS
  <2> QED
    BY <2>1, NamesAssumption
<1> QED
  BY <1>1, NewTable DEF pushnewktable

LEMMA FreshSound ==
  ASSUME NEW name \in Strings, NEW grows \in BOOLEAN, Fresh(name, grows) # Overrun
  PROVE  /\ TableOK(Fresh(name, grows)) /\ ktable_len(Fresh(name, grows)) = 1
         /\ Keyed(Fresh(name, grows), 1, name)
<1>1. TableOK(pushnewktable(1)) /\ ktable_len(pushnewktable(1)) = 0
  BY NewKT
<1>2. OneMore(pushnewktable(1), name, Fresh(name, grows))
  BY <1>1, AddSound DEF Fresh, addtoktable
<1>3. 0 + 1 = 1
  OBVIOUS
<1> QED
  BY <1>1, <1>2, <1>3, LastKeyed

LEMMA VariableKept ==
  ASSUME NEW name \in Strings, NEW grows \in BOOLEAN
  PROVE  Kept(lp_V(name, grows))
<1>1. CASE Fresh(name, grows) = Overrun
  BY <1>1, FreshPattern DEF lp_V
<1>2. CASE Fresh(name, grows) # Overrun
  <2> DEFINE kt == Fresh(name, grows)
  <2>1. TableOK(kt) /\ ktable_len(kt) = 1 /\ Keyed(kt, 1, name)
    BY <1>2, FreshSound
  <2> HIDE DEF kt
  <2>2. Node("opencall", 1, name) \in Good(kt)
    BY <2>1, KeyedNode
  <2>3. <<Node("opencall", 1, name)>> \in Seq(Good(kt))
    BY <2>2
  <2>4. Fits(<<Node("opencall", 1, name)>>, kt)
    BY <2>1, <2>3, LimitIs DEF Fits
  <2>5. Kept(Pattern(<<Node("opencall", 1, name)>>, kt))
    BY <2>4, FreshPattern
  <2> QED
    BY <2>5 DEF lp_V, kt
<1> QED
  BY <1>1, <1>2

LEMMA BackrefKept ==
  ASSUME NEW p, NEW name \in Strings, NEW grows \in BOOLEAN
  PROVE  Kept(r_backref(p, name, grows))
<1> DEFINE nodes == <<Node("backref", 1, name)>>
           kt == Fresh(name, grows)
<1>1. CASE copyktable(p.kt, grows) = Overrun \/ kt = Overrun
  <2>1. Kept(Pattern(nodes, Overrun))
    BY FreshPattern
  <2> QED
    BY <1>1, <2>1 DEF r_backref
<1>2. CASE copyktable(p.kt, grows) # Overrun /\ kt # Overrun
  <2>1. TableOK(kt) /\ ktable_len(kt) = 1 /\ Keyed(kt, 1, name)
    BY <1>2, FreshSound
  <2>2. r_backref(p, name, grows) = Pattern(nodes, kt)
    BY <1>2 DEF r_backref
  <2> HIDE DEF kt
  <2>3. Node("backref", 1, name) \in Good(kt)
    BY <2>1, KeyedNode
  <2>4. nodes \in Seq(Good(kt))
    BY <2>3
  <2> HIDE DEF nodes
  <2>5. Fits(nodes, kt)
    BY <2>1, <2>4, LimitIs DEF Fits
  <2> QED
    BY <2>2, <2>5, FreshPattern
<1> QED
  BY <1>1, <1>2

LEMMA ConstKept ==
  ASSUME NEW value \in Strings, NEW name \in Strings, NEW grows \in BOOLEAN
  PROVE  Kept(r_constcapture(value, name, grows))
<1> DEFINE node == [Node("const", 1, name) EXCEPT !.n = 2, !.value = value]
           first == Fresh(name, grows)
           kt == ktable_add(first, value, grows)
<1>1. r_constcapture(value, name, grows) = Pattern(<<node>>, kt)
  BY DEF r_constcapture, addtoktable
<1>2. CASE kt = Overrun
  BY <1>1, <1>2, FreshPattern
<1>3. CASE kt # Overrun
  <2>1. first # Overrun
    BY <1>3, AddToOverrun
  <2>2. TableOK(first) /\ ktable_len(first) = 1 /\ Keyed(first, 1, name)
    BY <2>1, FreshSound
  <2> HIDE DEF first
  <2>3. OneMore(first, value, kt)
    BY <1>3, <2>2, AddSound
  <2> HIDE DEF kt
  <2>4. Keyed(kt, 1 + 1, value) /\ Keeps(first, kt) /\ TableOK(kt) /\ ktable_len(kt) = 1 + 1
    BY <2>2, <2>3, LastKeyed
  <2>5. Keyed(kt, 1, name)
    BY <2>2, <2>4 DEF Keyed, Keeps
  <2>7. node \in Good(kt)
    <3>1. node \in Nodes /\ node.kind = "const" /\ node.key = 1 /\ node.n = 2
            /\ node.name = name /\ node.value = value
      <4> DEFINE x == Node("const", 1, name)
      <4>1. x \in Nodes /\ x.kind = "const" /\ x.key = 1 /\ x.name = name
        BY NodeIs DEF Kinds
      <4> HIDE DEF x
      <4> QED
        BY <4>1 DEF Nodes, x
    <3> HIDE DEF node
    <3> QED
      BY <2>4, <2>5, <3>1 DEF Good, NodeOK
  <2> HIDE DEF node
  <2>8. Fits(<<node>>, kt)
    <3>1. <<node>> \in Seq(Good(kt))
      BY <2>7
    <3> QED
      BY <2>4, <3>1, LimitIs DEF Fits
  <2> QED
    BY <1>1, <2>8, FreshPattern
<1> QED
  BY <1>2, <1>3

(* A copy of a table holds its names at their indices.                     *)
LEMMA CopyKeeps ==
  ASSUME NEW kt, TableOK(kt), NEW n \in Nat, NEW grows \in BOOLEAN, NEW t,
         t = ktable_concat(kt, pushnewktable(n), grows), t # Overrun
  PROVE  TableOK(t) /\ ktable_len(t) = ktable_len(kt) /\ Keeps(kt, t)
<1>1. TableOK(t) /\ ktable_len(t) = ktable_len(kt)
        /\ \A i \in Indices(kt) : ktable_element_name(t, i) = ktable_element_name(kt, i)
  BY CopySound
<1>2. Indices(t) = Indices(kt)
  BY <1>1 DEF Indices
<1> QED
  BY <1>1, <1>2 DEF Keeps

LEMMA CaptureKept ==
  ASSUME NEW p, PatOK(p), NEW name \in Strings, NEW grows \in BOOLEAN,
         r_capture_ok(p)
  PROVE  Kept(r_capture(p, name, grows))
<1> DEFINE old == ktable_concat(p.kt, pushnewktable(1), grows)
           kt == ktable_add(old, name, grows)
           node == Node("capture", ktable_len(old) + 1, name)
<1>1. r_capture(p, name, grows) = Pattern(<<node>> \o p.nodes, kt)
  BY DEF r_capture, addtoktable
<1>2. CASE kt = Overrun
  BY <1>1, <1>2, FreshPattern
<1>3. CASE kt # Overrun
  <2>1. old # Overrun
    BY <1>3, AddToOverrun
  <2>2. TableOK(p.kt)
    BY DEF PatOK
  <2>3. TableOK(old) /\ ktable_len(old) = ktable_len(p.kt) /\ Keeps(p.kt, old)
    BY <2>1, <2>2, CopyKeeps
  <2> HIDE DEF old
  <2>4. OneMore(old, name, kt)
    BY <1>3, <2>3, AddSound
  <2> HIDE DEF kt
  <2>5. /\ ktable_len(old) + 1 \in Nat /\ Keyed(kt, ktable_len(old) + 1, name)
        /\ Keeps(old, kt) /\ TableOK(kt) /\ ktable_len(kt) = ktable_len(old) + 1
    BY <2>3, <2>4, LastKeyed
  <2>6. node \in Good(kt)
    BY <2>5, KeyedNode
  <2> HIDE DEF node
  <2>7. p.nodes \in Seq(Good(kt))
    <3>1. p.nodes \in Seq(Good(old))
      BY <2>3, NodesStay DEF PatOK
    <3> QED
      BY <2>5, <3>1, NodesStay
  <2>8. <<node>> \o p.nodes \in Seq(Good(kt))
    BY <2>6, <2>7
  <2>9. ktable_len(kt) <= KTABLE_MAX_SIZE + 1
    <3>1. PICK l \in Nat : l = ktable_len(p.kt)
      BY <2>2, TableFields DEF TableOK
    <3>2. l < KTABLE_MAX_SIZE
      BY <3>1 DEF r_capture_ok, addtoktable_ok
    <3> QED
      BY <2>3, <2>5, <3>1, <3>2, LimitIs
  <2>10. Fits(<<node>> \o p.nodes, kt)
    BY <2>5, <2>8, <2>9 DEF Fits
  <2> QED
    BY <1>1, <2>10, FreshPattern
<1> QED
  BY <1>2, <1>3

LEMMA CopyFits ==
  ASSUME NEW p, PatOK(p), NEW grows \in BOOLEAN, NEW nodes,
         nodes \in Seq(Good(p.kt))
  PROVE  Kept(Pattern(nodes, copyktable(p.kt, grows)))
<1> DEFINE kt == copyktable(p.kt, grows)
<1>1. CASE kt = Overrun
  BY <1>1, FreshPattern
<1>2. CASE kt # Overrun
  <2>1. TableOK(p.kt) /\ ktable_len(p.kt) \in Nat
    BY TableFields DEF PatOK, TableOK
  <2>2. TableOK(kt) /\ ktable_len(kt) = ktable_len(p.kt) /\ Keeps(p.kt, kt)
    BY <1>2, <2>1, CopyKeeps DEF copyktable
  <2> HIDE DEF kt
  <2>3. nodes \in Seq(Good(kt))
    BY <2>2, NodesStay
  <2>4. Fits(nodes, kt)
    BY <2>2, <2>3 DEF PatOK, Fits
  <2> QED
    BY <2>4, FreshPattern DEF kt
<1> QED
  BY <1>1, <1>2

LEMMA PredicateKept ==
  ASSUME NEW p, PatOK(p), NEW grows \in BOOLEAN
  PROVE  Kept(newroot1sib(p, grows))
<1>1. p.nodes \in Seq(Good(p.kt))
  BY DEF PatOK
<1> QED
  BY <1>1, CopyFits DEF newroot1sib

LEMMA StarKept ==
  ASSUME NEW p, PatOK(p), NEW n \in Nat, NEW grows \in BOOLEAN
  PROVE  Kept(lp_star(p, n, grows))
<1>1. p.nodes \in Seq(Good(p.kt))
  BY DEF PatOK
<1>2. [i \in 1 .. n |-> p.nodes] \in Seq(Seq(Good(p.kt)))
  BY <1>1
<1>3. FlattenSeq([i \in 1 .. n |-> p.nodes]) \in Seq(Good(p.kt))
  BY <1>2, FlattenInto
<1> QED
  BY <1>3, CopyFits DEF lp_star

(***************************************************************************)
(* Renumbering, for a table whose strings went behind those of another.    *)
(***************************************************************************)
LEMMA JoinedKeeps ==
  ASSUME NEW kt1, TableOK(kt1), NEW kt2, TableOK(kt2), NEW kt, Joined(kt1, kt2, kt)
  PROVE  /\ Keeps(kt2, kt)
         /\ \A key \in Nat : \A name : Keyed(kt1, key, name) =>
              key > 0 /\ Keyed(kt, key + ktable_len(kt2), name)
<1>1. PICK l \in Nat, m \in Nat : l = ktable_len(kt1) /\ m = ktable_len(kt2)
  BY TableFields DEF TableOK
<1>2. Indices(kt1) = 1 .. l /\ Indices(kt2) = 1 .. m /\ Indices(kt) = 1 .. m + l
  BY <1>1 DEF Joined, Indices
<1>3. \A i \in 1 .. m : i \in 1 .. m + l
  OBVIOUS
<1>4. \A i \in 1 .. l : i > 0 /\ i + m \in 1 .. m + l /\ i + m = m + i
  OBVIOUS
<1> QED
  BY <1>1, <1>2, <1>3, <1>4 DEF Joined, Keeps, Keyed

LEMMA MovedNode ==
  ASSUME NEW kt1, TableOK(kt1), NEW kt2, TableOK(kt2), NEW kt, Joined(kt1, kt2, kt),
         NEW n \in Nat, n = ktable_len(kt2) \/ ktable_len(kt1) = 0,
         NEW node \in Good(kt1)
  PROVE  [node EXCEPT !.key = Moved(@, n), !.n = Moved(@, n)] \in Good(kt)
<1> DEFINE new == [node EXCEPT !.key = Moved(@, n), !.n = Moved(@, n)]
<1>1. node \in Nodes /\ NodeOK(node, kt1)
  BY DEF Good
<1>2. node.key \in Nat /\ node.n \in Nat
  BY <1>1 DEF Nodes
<1>3. Moved(node.key, n) \in Nat /\ Moved(node.n, n) \in Nat
  BY <1>2 DEF Moved
<1>4. /\ new \in Nodes /\ new.kind = node.kind /\ new.name = node.name
      /\ new.value = node.value
      /\ new.key = Moved(node.key, n) /\ new.n = Moved(node.n, n)
  BY <1>1, <1>3 DEF Nodes
<1> HIDE DEF new
<1>5. ASSUME NEW key \in Nat, NEW name, Keyed(kt1, key, name)
      PROVE  Keyed(kt, Moved(key, n), name)
  <2>1. key > 0 /\ Keyed(kt, key + ktable_len(kt2), name)
    BY <1>5, JoinedKeeps
  <2>2. ktable_len(kt1) # 0
    <3>1. key \in Indices(kt1)
      BY <1>5 DEF Keyed
    <3> QED
      BY <3>1 DEF Indices
  <2> QED
    BY <2>1, <2>2 DEF Moved
<1>6. node.kind = "rule" /\ Moved(node.key, n) > 0 => node.key > 0
  BY <1>2 DEF Moved
<1>7. NodeOK(new, kt)
  BY <1>1, <1>2, <1>4, <1>5, <1>6 DEF NodeOK
<1> QED
  BY <1>4, <1>7 DEF Good, new

LEMMA KeysCorrected ==
  ASSUME NEW kt1, TableOK(kt1), NEW kt2, TableOK(kt2), NEW kt, Joined(kt1, kt2, kt),
         NEW n \in Nat, n = ktable_len(kt2) \/ ktable_len(kt1) = 0,
         NEW nodes \in Seq(Good(kt1))
  PROVE  correctkeys(nodes, n) \in Seq(Good(kt))
<1>1. PICK m \in Nat : m = Len(nodes) /\ DOMAIN nodes = 1 .. m
  OBVIOUS
<1>2. ASSUME NEW i \in 1 .. m
      PROVE  [nodes[i] EXCEPT !.key = Moved(@, n), !.n = Moved(@, n)] \in Good(kt)
  <2>1. nodes[i] \in Good(kt1)
    BY <1>1
  <2> QED
    BY <2>1, MovedNode
<1>3. correctkeys(nodes, n)
        = [i \in 1 .. m |-> [nodes[i] EXCEPT !.key = Moved(@, n), !.n = Moved(@, n)]]
  BY <1>1 DEF correctkeys
<1> DEFINE f == [i \in 1 .. m |-> [nodes[i] EXCEPT !.key = Moved(@, n), !.n = Moved(@, n)]]
<1>4. \A i \in 1 .. m : f[i] \in Good(kt)
  BY <1>2
<1>5. f = [i \in 1 .. m |-> f[i]]
  OBVIOUS
<1> HIDE DEF f
<1>6. f \in Seq(Good(kt))
  BY <1>4, <1>5
<1> QED
  BY <1>3, <1>6 DEF f

LEMMA NamesInSeq ==
  ASSUME NEW kt, TableOK(kt)
  PROVE  Names(kt) \in Seq(Strings)
BY NamesAre

LEMMA ConcatToOverrun ==
  ASSUME NEW kt, TableOK(kt), NEW grows \in BOOLEAN
  PROVE  ktable_concat(kt, Overrun, grows) = Overrun
BY NamesInSeq, AddAllToOverrun DEF ktable_concat

(* What joinktables and correctkeys make of two patterns.                  *)
LEMMA JoinFits ==
  ASSUME NEW p1, PatOK(p1), NEW p2, PatOK(p2), NEW same \in BOOLEAN, same => p1 = p2,
         NEW grows \in BOOLEAN, joinktables_ok(p1, p2, same),
         NEW kt, kt = joinktables(p1, p2, same, grows), kt # Overrun
  PROVE  /\ TableOK(kt) /\ ktable_len(kt) <= KTABLE_MAX_SIZE + 1
         /\ p1.nodes \in Seq(Good(kt)) /\ Second(p1, p2, same) \in Seq(Good(kt))
<1>1. PICK l1 \in Nat, l2 \in Nat :
        l1 = ktable_len(p1.kt) /\ l2 = ktable_len(p2.kt)
  BY TableFields DEF PatOK, TableOK
<1>2. PICK n \in Nat : n = l1 + l2
  OBVIOUS
<1>3. PICK first : first = ktable_concat(p1.kt, pushnewktable(n), grows)
  OBVIOUS
<1>4. kt = IF same THEN first ELSE ktable_concat(p2.kt, first, grows)
  BY <1>1, <1>2, <1>3 DEF joinktables
<1>5. TableOK(p1.kt) /\ TableOK(p2.kt)
  BY DEF PatOK
<1>6. first # Overrun
  BY <1>4, <1>5, ConcatToOverrun
<1>7. TableOK(first) /\ ktable_len(first) = l1 /\ Keeps(p1.kt, first)
  BY <1>1, <1>3, <1>5, <1>6, CopyKeeps
<1>8. p1.nodes \in Seq(Good(first))
  BY <1>7, NodesStay DEF PatOK
<1>9. l1 <= KTABLE_MAX_SIZE /\ (same \/ l2 + l1 <= KTABLE_MAX_SIZE)
  BY <1>1 DEF joinktables_ok, copyktable_ok, ktable_concat_ok
<1>10. CASE same
  <2>1. kt = first /\ Second(p1, p2, same) = p1.nodes
    BY <1>4, <1>10 DEF Second
  <2> QED
    BY <2>1, <1>7, <1>8, <1>9, LimitIs
<1>11. CASE ~ same
  <2>1. kt = ktable_concat(p2.kt, first, grows)
          /\ Second(p1, p2, same) = correctkeys(p2.nodes, l1)
    BY <1>1, <1>4, <1>11 DEF Second
  <2>2. Joined(p2.kt, first, kt)
    BY <1>5, <1>7, <2>1, ConcatSound
  <2>3. TableOK(kt) /\ ktable_len(kt) = l1 + l2
    BY <1>1, <1>7, <2>2 DEF Joined
  <2>4. p1.nodes \in Seq(Good(kt))
    BY <1>5, <1>7, <1>8, <2>2, JoinedKeeps, NodesStay
  <2>5. correctkeys(p2.nodes, l1) \in Seq(Good(kt))
    <3>1. p2.nodes \in Seq(Good(p2.kt))
      BY DEF PatOK
    <3> QED
      BY <1>5, <1>7, <2>2, <3>1, KeysCorrected
  <2> QED
    BY <1>9, <1>11, <2>1, <2>3, <2>4, <2>5, LimitIs
<1> QED
  BY <1>10, <1>11

LEMMA TwoKept ==
  ASSUME NEW p1, PatOK(p1), NEW p2, PatOK(p2), NEW same \in BOOLEAN, same => p1 = p2,
         NEW grows \in BOOLEAN, joinktables_ok(p1, p2, same)
  PROVE  Kept(newroot2sib(p1, p2, same, grows)) /\ Kept(lp_sub(p1, p2, same, grows))
<1>1. PICK kt : kt = joinktables(p1, p2, same, grows)
  OBVIOUS
<1>2. PICK a, b : a = p1.nodes /\ b = Second(p1, p2, same)
  OBVIOUS
<1>3. newroot2sib(p1, p2, same, grows) = Pattern(a \o b, kt)
        /\ lp_sub(p1, p2, same, grows) = Pattern(b \o a, kt)
  BY <1>1, <1>2 DEF newroot2sib, lp_sub
<1>4. CASE kt = Overrun
  BY <1>3, <1>4, FreshPattern
<1>5. CASE kt # Overrun
  <2>1. TableOK(kt) /\ ktable_len(kt) <= KTABLE_MAX_SIZE + 1
          /\ a \in Seq(Good(kt)) /\ b \in Seq(Good(kt))
    BY <1>1, <1>2, <1>5, JoinFits
  <2>2. a \o b \in Seq(Good(kt)) /\ b \o a \in Seq(Good(kt))
    BY <2>1
  <2>3. Fits(a \o b, kt) /\ Fits(b \o a, kt)
    BY <2>1, <2>2 DEF Fits
  <2> QED
    BY <1>3, <2>3, FreshPattern
<1> QED
  BY <1>4, <1>5

(***************************************************************************)
(* Grammars: one rule after the other.                                     *)
(***************************************************************************)
NewG(n) == [kt |-> pushnewktable(n), starts |-> <<>>, nodes |-> <<>>]

IsBuilding(f, b, rules) ==
  f = [S \in SUBSET DOMAIN rules |->
         IF S = {} THEN b
         ELSE LET x == Max(S) IN AddRule(f[S \ {x}], rules[x])]

LEMMA BuildChooses ==
  ASSUME NEW rules
  PROVE  buildgrammar(rules)
           = (CHOOSE f : IsBuilding(f, NewG(Len(rules)), rules))[DOMAIN rules]
BY DEF buildgrammar, FoldLeft, MapThenFoldSet, IsBuilding, NewG

LEMMA BuildOne ==
  ASSUME NEW r1
  PROVE  buildgrammar(<<r1>>) = AddRule(NewG(1), r1)
<1> DEFINE rules == <<r1>>
           b == NewG(1)
           g == [S \in SUBSET {1} |-> IF S = {} THEN b ELSE AddRule(b, r1)]
<1>1. DOMAIN rules = {1} /\ Len(rules) = 1 /\ rules[1] = r1
  OBVIOUS
<1> HIDE DEF rules
<1>2. Max({1}) = 1
  BY DEF Max
<1>3. ASSUME NEW S \in SUBSET {1}
      PROVE  g[S] = IF S = {} THEN b
                    ELSE LET x == Max(S) IN AddRule(g[S \ {x}], rules[x])
  <2>1. CASE S = {}
    BY <2>1
  <2>2. CASE S # {}
    <3>1. S = {1} /\ S \ {1} = {} /\ {} \in SUBSET {1}
      BY <2>2
    <3> QED
      BY <1>1, <1>2, <3>1
  <2> QED
    BY <2>1, <2>2
<1>4. IsBuilding(g, b, rules)
  <2>1. g = [S \in SUBSET {1} |-> g[S]]
    OBVIOUS
  <2> HIDE DEF g, b
  <2> QED
    BY <1>1, <1>3, <2>1 DEF IsBuilding
<1> HIDE DEF g, b
<1>5. PICK f : IsBuilding(f, b, rules) /\ buildgrammar(rules) = f[{1}]
  BY <1>1, <1>4, BuildChooses DEF b
<1>6. \A S \in SUBSET {1} :
        f[S] = IF S = {} THEN b ELSE LET x == Max(S) IN AddRule(f[S \ {x}], rules[x])
  <2>1. f = [S \in SUBSET {1} |->
               IF S = {} THEN b ELSE LET x == Max(S) IN AddRule(f[S \ {x}], rules[x])]
    BY <1>1, <1>5, Zenon DEF IsBuilding
  <2> QED
    BY <2>1, Zenon
<1>7. f[{}] = b
  BY <1>6
<1>8. f[{1}] = AddRule(f[{1} \ {1}], rules[1])
  BY <1>2, <1>6
<1>9. {1} \ {1} = {}
  OBVIOUS
<1> QED
  BY <1>1, <1>5, <1>7, <1>8, <1>9 DEF rules, b

LEMMA BuildTwo ==
  ASSUME NEW r1, NEW r2
  PROVE  buildgrammar(<<r1, r2>>) = AddRule(AddRule(NewG(2), r1), r2)
<1> DEFINE rules == <<r1, r2>>
           b == NewG(2)
           c == AddRule(b, r1)
           g == [S \in SUBSET {1, 2} |->
                   IF S = {} THEN b
                   ELSE IF S = {1} THEN c
                   ELSE IF S = {2} THEN AddRule(b, r2) ELSE AddRule(c, r2)]
<1>1. DOMAIN rules = {1, 2} /\ Len(rules) = 2 /\ rules[1] = r1 /\ rules[2] = r2
  OBVIOUS
<1> HIDE DEF rules
<1>2. Max({1}) = 1 /\ Max({2}) = 2 /\ Max({1, 2}) = 2
  BY DEF Max
<1>3. ASSUME NEW S \in SUBSET {1, 2}
      PROVE  g[S] = IF S = {} THEN b
                    ELSE LET x == Max(S) IN AddRule(g[S \ {x}], rules[x])
  <2>1. CASE S = {}
    BY <2>1
  <2>2. CASE S = {1}
    <3>1. S \ {1} = {} /\ {} \in SUBSET {1, 2} /\ S # {}
      BY <2>2
    <3> QED
      BY <1>1, <1>2, <2>2, <3>1
  <2>3. CASE S = {2}
    <3>1. S \ {2} = {} /\ {} \in SUBSET {1, 2} /\ S # {} /\ S # {1}
      BY <2>3
    <3> QED
      BY <1>1, <1>2, <2>3, <3>1
  <2>4. CASE S = {1, 2}
    <3>1. S \ {2} = {1} /\ {1} \in SUBSET {1, 2} /\ S # {} /\ S # {1} /\ S # {2} /\ {1} # {}
      BY <2>4
    <3> QED
      BY <1>1, <1>2, <2>4, <3>1
  <2> QED
    BY <2>1, <2>2, <2>3, <2>4
<1>4. IsBuilding(g, b, rules)
  <2>1. g = [S \in SUBSET {1, 2} |-> g[S]]
    OBVIOUS
  <2> HIDE DEF g, b
  <2> QED
    BY <1>1, <1>3, <2>1 DEF IsBuilding
<1> HIDE DEF g, b
<1>5. PICK f : IsBuilding(f, b, rules) /\ buildgrammar(rules) = f[{1, 2}]
  BY <1>1, <1>4, BuildChooses DEF b
<1>6. \A S \in SUBSET {1, 2} :
        f[S] = IF S = {} THEN b ELSE LET x == Max(S) IN AddRule(f[S \ {x}], rules[x])
  <2>1. f = [S \in SUBSET {1, 2} |->
               IF S = {} THEN b ELSE LET x == Max(S) IN AddRule(f[S \ {x}], rules[x])]
    BY <1>1, <1>5, Zenon DEF IsBuilding
  <2> QED
    BY <2>1, Zenon
<1>7. f[{}] = b
  BY <1>6
<1>8. f[{1}] = AddRule(f[{1} \ {1}], rules[1])
  BY <1>2, <1>6
<1>9. f[{1, 2}] = AddRule(f[{1, 2} \ {2}], rules[2])
  BY <1>2, <1>6
<1>10. {1} \ {1} = {} /\ {1, 2} \ {2} = {1}
  OBVIOUS
<1> QED
  BY <1>1, <1>5, <1>7, <1>8, <1>9, <1>10 DEF rules, b

(***************************************************************************)
(* And what is checked about the sum of the lengths.                       *)
(***************************************************************************)
IsSum(f, s) ==
  f = [S \in SUBSET DOMAIN s |->
         IF S = {} THEN 0 ELSE LET x == Max(S) IN f[S \ {x}] + s[x]]

LEMMA SumChooses ==
  ASSUME NEW s
  PROVE  FoldLeft(LAMBDA x, y : x + y, 0, s) = (CHOOSE f : IsSum(f, s))[DOMAIN s]
BY DEF FoldLeft, MapThenFoldSet, IsSum

LEMMA SumOfOne ==
  ASSUME NEW s, DOMAIN s = {1}, s[1] \in Nat
  PROVE  FoldLeft(LAMBDA x, y : x + y, 0, s) = s[1]
<1>1. Max({1}) = 1 /\ {1} \ {1} = {} /\ {1} # {}
  BY DEF Max
<1> DEFINE g == [S \in SUBSET {1} |-> IF S = {} THEN 0 ELSE s[1]]
<1>2. ASSUME NEW S \in SUBSET {1}
      PROVE  g[S] = IF S = {} THEN 0 ELSE LET x == Max(S) IN g[S \ {x}] + s[x]
  <2>1. CASE S = {}
    BY <2>1
  <2>2. CASE S = {1}
    <3>1. g[S] = s[1] /\ g[{}] = 0
      BY <2>2
    <3> QED
      BY <1>1, <2>2, <3>1
  <2> QED
    BY <2>1, <2>2
<1>3. IsSum(g, s)
  <2>1. g = [S \in SUBSET {1} |-> g[S]]
    OBVIOUS
  <2> HIDE DEF g
  <2> QED
    BY <1>2, <2>1 DEF IsSum
<1>4. PICK f : IsSum(f, s) /\ FoldLeft(LAMBDA x, y : x + y, 0, s) = f[{1}]
  BY <1>3, SumChooses
<1>5. \A S \in SUBSET {1} :
        f[S] = IF S = {} THEN 0 ELSE LET x == Max(S) IN f[S \ {x}] + s[x]
  <2>1. f = [S \in SUBSET {1} |->
               IF S = {} THEN 0 ELSE LET x == Max(S) IN f[S \ {x}] + s[x]]
    BY <1>4, Zenon DEF IsSum
  <2> QED
    BY <2>1, Zenon
<1>6. f[{}] = 0
  BY <1>5
<1>7. f[{1}] = f[{}] + s[1]
  BY <1>1, <1>5
<1>8. 0 + s[1] = s[1]
  OBVIOUS
<1> QED
  BY <1>4, <1>6, <1>7, <1>8, Zenon

LEMMA SumOfTwo ==
  ASSUME NEW s, DOMAIN s = {1, 2}, s[1] \in Nat, s[2] \in Nat
  PROVE  FoldLeft(LAMBDA x, y : x + y, 0, s) = s[1] + s[2]
<1>1. Max({1}) = 1 /\ Max({2}) = 2 /\ Max({1, 2}) = 2
  BY DEF Max
<1>a. {1} \ {1} = {} /\ {2} \ {2} = {} /\ {1, 2} \ {2} = {1} /\ {1} # {} /\ {2} # {}
        /\ {1, 2} # {} /\ {2} # {1} /\ {1, 2} # {1} /\ {1, 2} # {2}
  OBVIOUS
<1> DEFINE g == [S \in SUBSET {1, 2} |->
                   IF S = {} THEN 0 ELSE IF S = {1} THEN s[1]
                   ELSE IF S = {2} THEN s[2] ELSE s[1] + s[2]]
<1>2. ASSUME NEW S \in SUBSET {1, 2}
      PROVE  g[S] = IF S = {} THEN 0 ELSE LET x == Max(S) IN g[S \ {x}] + s[x]
  <2>0. g[{}] = 0 /\ g[{1}] = s[1] /\ g[{2}] = s[2] /\ g[{1, 2}] = s[1] + s[2]
    BY <1>a
  <2> HIDE DEF g
  <2>z. 0 + s[1] = s[1] /\ 0 + s[2] = s[2]
    OBVIOUS
  <2>1. CASE S = {}
    BY <2>0, <2>1
  <2>2. CASE S = {1}
    <3>1. g[{1} \ {1}] + s[1] = s[1]
      BY <1>a, <2>0, <2>z, Zenon
    <3> QED
      BY <1>1, <1>a, <2>0, <2>2, <3>1
  <2>3. CASE S = {2}
    <3>1. g[{2} \ {2}] + s[2] = s[2]
      BY <1>a, <2>0, <2>z, Zenon
    <3> QED
      BY <1>1, <1>a, <2>0, <2>3, <3>1
  <2>4. CASE S = {1, 2}
    <3>1. g[{1, 2} \ {2}] + s[2] = s[1] + s[2]
      BY <1>a, <2>0, Zenon
    <3> QED
      BY <1>1, <1>a, <2>0, <2>4, <3>1
  <2> QED
    BY <2>1, <2>2, <2>3, <2>4
<1>3. IsSum(g, s)
  <2>1. g = [S \in SUBSET {1, 2} |-> g[S]]
    OBVIOUS
  <2> HIDE DEF g
  <2> QED
    BY <1>2, <2>1 DEF IsSum
<1>4. PICK f : IsSum(f, s) /\ FoldLeft(LAMBDA x, y : x + y, 0, s) = f[{1, 2}]
  BY <1>3, SumChooses
<1>5. \A S \in SUBSET {1, 2} :
        f[S] = IF S = {} THEN 0 ELSE LET x == Max(S) IN f[S \ {x}] + s[x]
  <2>1. f = [S \in SUBSET {1, 2} |->
               IF S = {} THEN 0 ELSE LET x == Max(S) IN f[S \ {x}] + s[x]]
    BY <1>4, Zenon DEF IsSum
  <2> QED
    BY <2>1, Zenon
<1>6. f[{}] = 0
  BY <1>5
<1>7. f[{1}] = f[{}] + s[1]
  <2>1. f[{1}] = f[{1} \ {Max({1})}] + s[Max({1})]
    <3>1. {1} \in SUBSET {1, 2} /\ {1} # {}
      OBVIOUS
    <3> QED
      BY <1>5, <3>1, Zenon
  <2> QED
    BY <1>1, <1>a, <2>1, Zenon
<1>8. f[{1, 2}] = f[{1}] + s[2]
  <2>1. f[{1, 2}] = f[{1, 2} \ {Max({1, 2})}] + s[Max({1, 2})]
    <3>1. {1, 2} \in SUBSET {1, 2} /\ {1, 2} # {}
      OBVIOUS
    <3> QED
      BY <1>5, <3>1, Zenon
  <2> QED
    BY <1>1, <1>a, <2>1, Zenon
<1>9. 0 + s[1] = s[1]
  OBVIOUS
<1> QED
  BY <1>4, <1>6, <1>7, <1>8, <1>9, Zenon

RuleOK(rule) ==
  rule.name \in Strings /\ PatOK(rule.pattern) /\ rule.grows \in BOOLEAN
GrammarOK(g) ==
  /\ TableOK(g.kt) /\ g.nodes \in Seq(Good(g.kt)) /\ g.starts \in Seq(Nat)
  /\ \A i \in DOMAIN g.starts : /\ g.starts[i] \in DOMAIN g.nodes
                                /\ g.nodes[g.starts[i]].kind = "rule"

LEMMA NewGrammarOK ==
  ASSUME NEW n \in Nat
  PROVE  GrammarOK(NewG(n)) /\ ktable_len(NewG(n).kt) = 0
           /\ NewG(n).nodes = <<>> /\ NewG(n).starts = <<>>
<1>1. TableOK(NewG(n).kt) /\ ktable_len(NewG(n).kt) = 0
  BY NewKT DEF NewG
<1>2. NewG(n).nodes = <<>> /\ NewG(n).starts = <<>>
  BY DEF NewG
<1>3. DOMAIN NewG(n).starts = {} /\ NewG(n).starts \in Seq(Nat)
        /\ NewG(n).nodes \in Seq(Good(NewG(n).kt))
  BY <1>2
<1> QED
  BY <1>1, <1>2, <1>3 DEF GrammarOK

LEMMA RuleAdded ==
  ASSUME NEW g, GrammarOK(g), NEW rule, RuleOK(rule),
         NEW h, h = AddRule(g, rule), h.kt # Overrun
  PROVE  /\ GrammarOK(h)
         /\ ktable_len(h.kt) = ktable_len(g.kt) + ktable_len(rule.pattern.kt)
         /\ h.starts = Append(g.starts, Len(g.nodes) + 1)
<1>1. PICK kt1, kt2, kt, n :
         kt1 = rule.pattern.kt /\ kt2 = g.kt /\ n = Shift(kt1, kt2)
         /\ kt = ktable_concat(kt1, kt2, rule.grows)
  OBVIOUS
<1>2. PICK a, c, x :
         a = g.nodes /\ c = correctkeys(rule.pattern.nodes, n)
         /\ x = Node("rule", 0, rule.name)
  OBVIOUS
<1>3. h = [kt |-> kt, starts |-> Append(g.starts, Len(a) + 1), nodes |-> a \o <<x>> \o c]
  BY <1>1, <1>2 DEF AddRule
<1>4. h.kt = kt /\ h.starts = Append(g.starts, Len(a) + 1) /\ h.nodes = a \o <<x>> \o c
  BY <1>3
<1>5. TableOK(kt1) /\ TableOK(kt2) /\ rule.pattern.nodes \in Seq(Good(kt1))
        /\ rule.grows \in BOOLEAN
  BY <1>1 DEF RuleOK, PatOK, GrammarOK
<1>6. Joined(kt1, kt2, kt)
  BY <1>1, <1>4, <1>5, ConcatSound
<1>7. PICK l1 \in Nat, l2 \in Nat : l1 = ktable_len(kt1) /\ l2 = ktable_len(kt2)
  BY <1>5, TableFields DEF TableOK
<1>8. n \in Nat /\ (n = ktable_len(kt2) \/ ktable_len(kt1) = 0)
  BY <1>1, <1>7 DEF Shift
<1>9. c \in Seq(Good(kt))
  BY <1>2, <1>5, <1>6, <1>8, KeysCorrected
<1>10. a \in Seq(Good(kt))
  BY <1>1, <1>2, <1>5, <1>6, JoinedKeeps, NodesStay DEF GrammarOK
<1>11. x \in Good(kt) /\ x.kind = "rule"
  <2>1. x \in Nodes /\ x.kind = "rule" /\ x.key = 0
    BY <1>2, NodeIs DEF RuleOK, Kinds
  <2> QED
    BY <2>1 DEF Good, NodeOK
<1>12. \A i \in DOMAIN g.starts : g.starts[i] \in DOMAIN a /\ a[g.starts[i]].kind = "rule"
  BY <1>2 DEF GrammarOK
<1>13. h.nodes \in Seq(Good(kt))
  BY <1>4, <1>9, <1>10, <1>11
<1>14. /\ h.starts \in Seq(Nat)
       /\ \A i \in DOMAIN h.starts : /\ h.starts[i] \in DOMAIN h.nodes
                                     /\ h.nodes[h.starts[i]].kind = "rule"
  <2>1. PICK S, st : S = Good(kt) /\ st = g.starts
    OBVIOUS
  <2>2. a \in Seq(S) /\ c \in Seq(S) /\ x \in S /\ st \in Seq(Nat)
    BY <1>9, <1>10, <1>11, <2>1 DEF GrammarOK
  <2>3. PICK m \in Nat, k \in Nat : m = Len(a) /\ k = Len(st)
    BY <2>2
  <2>4. Len(a \o <<x>> \o c) >= m + 1
    BY <2>2, <2>3
  <2>5. \A i \in 1 .. m : (a \o <<x>> \o c)[i] = a[i]
    BY <2>2, <2>3
  <2>6. (a \o <<x>> \o c)[m + 1] = x
    BY <2>2, <2>3
  <2>7. \A i \in 1 .. k : st[i] \in 1 .. m /\ a[st[i]].kind = "rule"
    BY <1>12, <2>1, <2>2, <2>3
  <2>8. h.starts = Append(st, m + 1) /\ h.nodes = a \o <<x>> \o c
    BY <1>4, <2>1, <2>3
  <2>9. h.starts \in Seq(Nat) /\ Len(h.starts) = k + 1 /\ h.starts[k + 1] = m + 1
          /\ \A i \in 1 .. k : h.starts[i] = st[i]
    BY <2>2, <2>3, <2>8
  <2>10. DOMAIN h.starts = 1 .. k + 1 /\ \A i \in 1 .. m + 1 : i \in DOMAIN h.nodes
    <3>1. h.nodes \in Seq(S)
      BY <1>13, <2>1
    <3> QED
      BY <2>4, <2>8, <2>9, <3>1
  <2>11. ASSUME NEW i \in 1 .. k + 1
         PROVE  h.starts[i] \in 1 .. m + 1 /\ h.nodes[h.starts[i]].kind = "rule"
    <3>1. CASE i = k + 1
      <4>1. m + 1 \in 1 .. m + 1
        OBVIOUS
      <4> QED
        BY <1>11, <2>6, <2>8, <2>9, <3>1, <4>1
    <3>2. CASE i # k + 1
      <4>1. i \in 1 .. k
        BY <3>2
      <4>2. st[i] \in 1 .. m /\ a[st[i]].kind = "rule" /\ h.starts[i] = st[i]
        BY <2>7, <2>9, <4>1
      <4>3. h.nodes[st[i]] = a[st[i]] /\ st[i] \in 1 .. m + 1
        <5>1. PICK y \in 1 .. m : y = st[i]
          BY <4>2
        <5>2. (a \o <<x>> \o c)[y] = a[y]
          BY <2>5
        <5>3. y \in 1 .. m + 1
          OBVIOUS
        <5> QED
          BY <2>8, <5>1, <5>2, <5>3, Zenon
      <4> QED
        BY <4>2, <4>3
    <3> QED
      BY <3>1, <3>2
  <2> QED
    BY <2>9, <2>10, <2>11
<1>15. TableOK(kt) /\ ktable_len(kt) = l2 + l1
  BY <1>6, <1>7 DEF Joined
<1> QED
  BY <1>1, <1>2, <1>4, <1>7, <1>13, <1>14, <1>15 DEF GrammarOK

LEMMA RuleToOverrun ==
  ASSUME NEW g, g.kt = Overrun, NEW rule, RuleOK(rule)
  PROVE  AddRule(g, rule).kt = Overrun
<1>1. TableOK(rule.pattern.kt) /\ rule.grows \in BOOLEAN
  BY DEF RuleOK, PatOK
<1>2. AddRule(g, rule).kt = ktable_concat(rule.pattern.kt, g.kt, rule.grows)
  BY DEF AddRule
<1> QED
  BY <1>1, <1>2, ConcatToOverrun

(***************************************************************************)
(* The whole grammar.                                                      *)
(***************************************************************************)
LEMMA CallIsKeyed ==
  ASSUME NEW g, GrammarOK(g), NEW name
  PROVE  \/ RuleKey(g, name) = 0
         \/ RuleKey(g, name) \in Nat /\ Keyed(g.kt, RuleKey(g, name), name)
<1> DEFINE calls == CallsTo(g, name)
<1>1. CASE calls = {}
  BY <1>1 DEF RuleKey
<1>2. CASE calls # {}
  <2>1. PICK S : S = Good(g.kt)
    OBVIOUS
  <2>2. PICK nodes \in Seq(S) : nodes = g.nodes
    BY <2>1 DEF GrammarOK
  <2>3. PICK n \in Nat : n = Len(nodes) /\ DOMAIN nodes = 1 .. n
    BY <2>2
  <2>4. calls \in SUBSET (1 .. n)
    BY <2>2, <2>3 DEF CallsTo, OpenCalls
  <2>5. Max(calls) \in calls
    BY <1>2, <2>4, MaxInside
  <2>6. PICK c \in 1 .. n : c = Max(calls) /\ c \in calls
    BY <2>4, <2>5
  <2>7. nodes[c].kind = "opencall" /\ ktable_element_name(g.kt, nodes[c].key) = name
    BY <2>2, <2>6 DEF CallsTo, OpenCalls
  <2>8. nodes[c] \in Good(g.kt)
    BY <2>1, <2>2, <2>3
  <2>9. Keyed(g.kt, nodes[c].key, nodes[c].name) /\ nodes[c].key \in Nat
    BY <2>7, <2>8 DEF Good, NodeOK, Nodes
  <2>10. RuleKey(g, name) = nodes[c].key
    BY <1>2, <2>2, <2>6 DEF RuleKey
  <2> QED
    BY <2>7, <2>9, <2>10 DEF Keyed
<1> QED
  BY <1>1, <1>2

LEMMA RekeyedRule ==
  ASSUME NEW kt, NEW node \in Nodes, node.kind = "rule", NEW key \in Nat,
         key = 0 \/ Keyed(kt, key, node.name)
  PROVE  [node EXCEPT !.key = key] \in Good(kt)
<1> DEFINE new == [node EXCEPT !.key = key]
<1>1. new \in Nodes /\ new.kind = "rule" /\ new.key = key /\ new.name = node.name
  BY DEF Nodes
<1> HIDE DEF new
<1>2. NodeOK(new, kt)
  BY <1>1 DEF NodeOK
<1> QED
  BY <1>1, <1>2 DEF Good, new

LEMMA ClosedCall ==
  ASSUME NEW kt, NEW node \in Nodes
  PROVE  [node EXCEPT !.kind = "call"] \in Good(kt)
<1> DEFINE new == [node EXCEPT !.kind = "call"]
<1>1. new \in Nodes /\ new.kind = "call"
  BY DEF Nodes, Kinds
<1> HIDE DEF new
<1>2. NodeOK(new, kt)
  BY <1>1 DEF NodeOK
<1> QED
  BY <1>1, <1>2 DEF Good, new

LEMMA FinalFixed ==
  ASSUME NEW g, GrammarOK(g), NEW rules, DOMAIN rules = DOMAIN g.starts
  PROVE  /\ finalfix(g, rules) \in Seq(Good(g.kt))
         /\ Len(finalfix(g, rules)) = Len(g.nodes)
         /\ \A c \in DOMAIN g.nodes :
              g.nodes[c].kind = "rule" => /\ finalfix(g, rules)[c].kind = "rule"
                                          /\ finalfix(g, rules)[c].name = g.nodes[c].name
<1>1. PICK S : S = Good(g.kt)
  OBVIOUS
<1>2. PICK nodes \in Seq(S) : nodes = g.nodes
  BY <1>1 DEF GrammarOK
<1>3. PICK n \in Nat : n = Len(nodes) /\ DOMAIN nodes = 1 .. n
  BY <1>2
<1> DEFINE Fixed(c) == IF \E i \in DOMAIN rules : g.starts[i] = c
                       THEN [nodes[c] EXCEPT !.key = RuleKey(g, nodes[c].name)]
                       ELSE IF nodes[c].kind = "opencall"
                       THEN [nodes[c] EXCEPT !.kind = "call"] ELSE nodes[c]
<1>4. finalfix(g, rules) = [c \in 1 .. n |-> Fixed(c)]
  BY <1>2, <1>3 DEF finalfix
<1>5. ASSUME NEW c \in 1 .. n
      PROVE  /\ Fixed(c) \in S
             /\ nodes[c].kind = "rule" => Fixed(c).kind = "rule" /\ Fixed(c).name = nodes[c].name
  <2>1. nodes[c] \in S
    BY <1>3
  <2>2. nodes[c] \in Nodes
    BY <1>1, <2>1 DEF Good
  <2>3. CASE \E i \in DOMAIN rules : g.starts[i] = c
    <3>1. nodes[c].kind = "rule"
      BY <1>2, <2>3 DEF GrammarOK
    <3>2. PICK key \in Nat : key = RuleKey(g, nodes[c].name)
                               /\ (key = 0 \/ Keyed(g.kt, key, nodes[c].name))
      BY CallIsKeyed
    <3>3. Fixed(c) = [nodes[c] EXCEPT !.key = key]
      BY <2>3, <3>2
    <3>4. [nodes[c] EXCEPT !.key = key] \in Good(g.kt)
      BY <2>2, <3>1, <3>2, RekeyedRule
    <3>5. [nodes[c] EXCEPT !.key = key].kind = nodes[c].kind
            /\ [nodes[c] EXCEPT !.key = key].name = nodes[c].name
      BY <2>2 DEF Nodes
    <3> QED
      BY <1>1, <3>1, <3>3, <3>4, <3>5
  <2>4. CASE ~ (\E i \in DOMAIN rules : g.starts[i] = c) /\ nodes[c].kind = "opencall"
    <3>1. Fixed(c) = [nodes[c] EXCEPT !.kind = "call"]
      BY <2>4
    <3> QED
      BY <1>1, <2>2, <2>4, <3>1, ClosedCall
  <2>5. CASE ~ (\E i \in DOMAIN rules : g.starts[i] = c) /\ nodes[c].kind # "opencall"
    <3>1. Fixed(c) = nodes[c]
      BY <2>5
    <3> QED
      BY <2>1, <3>1
  <2> QED
    BY <2>3, <2>4, <2>5
<1> HIDE DEF Fixed
<1>6. [c \in 1 .. n |-> Fixed(c)] \in Seq(S)
  BY <1>5
<1> QED
  BY <1>1, <1>2, <1>3, <1>4, <1>5, <1>6

LEMMA GrammarNamed ==
  ASSUME NEW g, GrammarOK(g), NEW rules, DOMAIN rules = DOMAIN g.starts,
         g.starts # <<>>, g.starts[1] = 1,
         ktable_len(g.kt) <= KTABLE_MAX_SIZE, NEW grows \in BOOLEAN
  PROVE  Kept(newgrammar(g, rules, grows))
<1>1. PICK S, kt : S = Good(kt) /\ kt = g.kt
  OBVIOUS
<1>2. PICK nodes \in Seq(S) : nodes = finalfix(g, rules)
  BY <1>1, FinalFixed
<1>3. 1 \in DOMAIN g.starts
  <2>1. PICK st \in Seq(Nat) : st = g.starts
    BY DEF GrammarOK
  <2> QED
    BY <2>1
<1>4. 1 \in DOMAIN g.nodes /\ g.nodes[1].kind = "rule"
  BY <1>3 DEF GrammarOK
<1>5. nodes[1].kind = "rule"
  BY <1>2, <1>4, FinalFixed
<1>6. 1 \in DOMAIN nodes
  <2>1. PICK T, o : o = g.nodes /\ o \in Seq(T)
    BY DEF GrammarOK
  <2>2. Len(nodes) = Len(o)
    BY <1>2, <2>1, FinalFixed
  <2>3. 1 \in 1 .. Len(o)
    BY <1>4, <2>1
  <2> QED
    BY <2>2, <2>3
<1>7. TableOK(kt) /\ ktable_len(kt) <= KTABLE_MAX_SIZE
  BY <1>1 DEF GrammarOK
<1>8. PICK l \in Nat : l = ktable_len(kt)
  BY <1>7, TableFields DEF TableOK
<1>9. CASE nodes[1].key > 0
  <2>1. newgrammar(g, rules, grows) = Pattern(nodes, kt)
    BY <1>1, <1>2, <1>9 DEF newgrammar
  <2>2. ktable_len(kt) <= KTABLE_MAX_SIZE + 1
    BY <1>7, <1>8, LimitIs
  <2>3. Fits(nodes, kt)
    BY <1>1, <1>7, <2>2 DEF Fits
  <2> QED
    BY <2>1, <2>3, FreshPattern
<1>10. CASE ~ (nodes[1].key > 0)
  <2>1. PICK t, new : t = ktable_add(kt, nodes[1].name, grows)
                        /\ new = [nodes EXCEPT ![1].key = l + 1]
    OBVIOUS
  <2>2. newgrammar(g, rules, grows) = Pattern(new, t)
    BY <1>1, <1>2, <1>8, <1>10, <2>1 DEF newgrammar
  <2>3. CASE t = Overrun
    BY <2>2, <2>3, FreshPattern
  <2>4. CASE t # Overrun
    <3>1. nodes[1] \in S
      BY <1>6
    <3>2. nodes[1] \in Nodes /\ nodes[1].name \in Strings
      BY <1>1, <3>1 DEF Good, Nodes
    <3>3. OneMore(kt, nodes[1].name, t)
      BY <1>7, <2>1, <2>4, <3>2, AddSound
    <3>4. l + 1 \in Nat /\ Keyed(t, l + 1, nodes[1].name)
            /\ Keeps(kt, t) /\ TableOK(t) /\ ktable_len(t) = l + 1
      BY <1>7, <1>8, <3>3, LastKeyed
    <3>5. nodes \in Seq(Good(t))
      BY <1>1, <3>4, NodesStay
    <3>6. [nodes[1] EXCEPT !.key = l + 1] \in Good(t)
      BY <1>5, <3>2, <3>4, RekeyedRule
    <3>7. new \in Seq(Good(t))
      <4>1. PICK U : U = Good(t)
        OBVIOUS
      <4>2. PICK x \in U : x = [nodes[1] EXCEPT !.key = l + 1]
        BY <3>6, <4>1
      <4>3. new = [nodes EXCEPT ![1] = x]
        BY <2>1, <4>2
      <4>4. nodes \in Seq(U)
        BY <3>5, <4>1
      <4>5. [nodes EXCEPT ![1] = x] \in Seq(U)
        <5>1. 1 \in 1 .. Len(nodes)
          BY <1>6
        <5>2. PICK i \in 1 .. Len(nodes) : i = 1
          BY <5>1
        <5>3. [nodes EXCEPT ![i] = x] \in Seq(U)
          BY <4>4, ExceptSeq, Zenon
        <5> QED
          BY <5>2, <5>3
      <4> QED
        BY <4>1, <4>3, <4>5
    <3>8. ktable_len(t) <= KTABLE_MAX_SIZE + 1
      BY <1>7, <1>8, <3>4, LimitIs
    <3>9. Fits(new, t)
      BY <3>4, <3>7, <3>8 DEF Fits
    <3> QED
      BY <2>2, <3>9, FreshPattern
  <2> QED
    BY <2>3, <2>4
<1> QED
  BY <1>9, <1>10

LEMMA OneRuleKept ==
  ASSUME NEW rule, RuleOK(rule), buildgrammar_ok(<<rule>>),
         NEW g, g = buildgrammar(<<rule>>), g.kt # Overrun
  PROVE  Kept(newgrammar(g, <<rule>>, rule.grows))
<1>1. PICK b : b = NewG(1) /\ g = AddRule(b, rule)
  BY BuildOne
<1>2. GrammarOK(b) /\ ktable_len(b.kt) = 0 /\ b.nodes = <<>> /\ b.starts = <<>>
  BY <1>1, NewGrammarOK
<1>3. GrammarOK(g) /\ ktable_len(g.kt) = 0 + ktable_len(rule.pattern.kt)
        /\ g.starts = Append(<<>>, Len(<<>>) + 1)
  <2>1. GrammarOK(g) /\ ktable_len(g.kt) = ktable_len(b.kt) + ktable_len(rule.pattern.kt)
          /\ g.starts = Append(b.starts, Len(b.nodes) + 1)
    BY <1>1, <1>2, RuleAdded, Zenon
  <2> QED
    BY <1>2, <2>1, Zenon
<1>4. g.starts = <<1>>
  BY <1>3
<1>5. PICK l \in Nat : l = ktable_len(rule.pattern.kt)
  BY TableFields DEF RuleOK, PatOK, TableOK
<1>6. l <= KTABLE_MAX_SIZE
  <2> DEFINE s == [j \in 1 .. 1 |-> ktable_len(<<rule>>[j].pattern.kt)]
  <2>1. FoldLeft(LAMBDA x, y : x + y, 0, s) <= KTABLE_MAX_SIZE
    <3>1. 1 \in DOMAIN <<rule>>
      OBVIOUS
    <3> QED
      BY <3>1 DEF buildgrammar_ok
  <2>2. DOMAIN s = {1} /\ s[1] = l
    BY <1>5
  <2> HIDE DEF s
  <2> QED
    BY <2>1, <2>2, SumOfOne
<1>7. DOMAIN <<rule>> = DOMAIN g.starts /\ g.starts # <<>> /\ g.starts[1] = 1
  BY <1>4
<1>8. ktable_len(g.kt) <= KTABLE_MAX_SIZE
  BY <1>3, <1>5, <1>6
<1> QED
  BY <1>3, <1>7, <1>8, GrammarNamed DEF RuleOK

LEMMA TwoRulesKept ==
  ASSUME NEW r1, RuleOK(r1), NEW r2, RuleOK(r2), buildgrammar_ok(<<r1, r2>>),
         NEW g, g = buildgrammar(<<r1, r2>>), g.kt # Overrun
  PROVE  Kept(newgrammar(g, <<r1, r2>>, r1.grows))
<1>1. PICK b, c : b = NewG(2) /\ c = AddRule(b, r1) /\ g = AddRule(c, r2)
  BY BuildTwo
<1>2. GrammarOK(b) /\ ktable_len(b.kt) = 0 /\ b.nodes = <<>> /\ b.starts = <<>>
  BY <1>1, NewGrammarOK
<1>3. c.kt # Overrun
  BY <1>1, RuleToOverrun
<1>4. GrammarOK(c) /\ ktable_len(c.kt) = 0 + ktable_len(r1.pattern.kt)
        /\ c.starts = Append(<<>>, Len(<<>>) + 1)
  <2>1. GrammarOK(c) /\ ktable_len(c.kt) = ktable_len(b.kt) + ktable_len(r1.pattern.kt)
          /\ c.starts = Append(b.starts, Len(b.nodes) + 1)
    BY <1>1, <1>2, <1>3, RuleAdded, Zenon
  <2> QED
    BY <1>2, <2>1, Zenon
<1>5. c.starts = <<1>>
  BY <1>4
<1>6. GrammarOK(g) /\ ktable_len(g.kt) = ktable_len(c.kt) + ktable_len(r2.pattern.kt)
        /\ g.starts = Append(<<1>>, Len(c.nodes) + 1)
  <2>1. GrammarOK(g) /\ ktable_len(g.kt) = ktable_len(c.kt) + ktable_len(r2.pattern.kt)
          /\ g.starts = Append(c.starts, Len(c.nodes) + 1)
    BY <1>1, <1>4, RuleAdded, Zenon
  <2> QED
    BY <1>5, <2>1, Zenon
<1>7. PICK l1 \in Nat, l2 \in Nat :
        l1 = ktable_len(r1.pattern.kt) /\ l2 = ktable_len(r2.pattern.kt)
  BY TableFields DEF RuleOK, PatOK, TableOK
<1>8. l1 + l2 <= KTABLE_MAX_SIZE
  <2> DEFINE s == [j \in 1 .. 2 |-> ktable_len(<<r1, r2>>[j].pattern.kt)]
  <2>1. FoldLeft(LAMBDA x, y : x + y, 0, s) <= KTABLE_MAX_SIZE
    <3>1. 2 \in DOMAIN <<r1, r2>>
      OBVIOUS
    <3> QED
      BY <3>1 DEF buildgrammar_ok
  <2>2. DOMAIN s = {1, 2} /\ s[1] = l1 /\ s[2] = l2
    BY <1>7
  <2> HIDE DEF s
  <2> QED
    BY <2>1, <2>2, SumOfTwo
<1>9. DOMAIN <<r1, r2>> = DOMAIN g.starts /\ g.starts # <<>> /\ g.starts[1] = 1
  <2>1. PICK n : n = Len(c.nodes) + 1
    OBVIOUS
  <2>2. g.starts = <<1, n>>
    BY <1>6, <2>1
  <2>3. DOMAIN <<r1, r2>> = DOMAIN <<1, n>> /\ <<1, n>> # <<>> /\ <<1, n>>[1] = 1
    OBVIOUS
  <2> QED
    BY <2>2, <2>3
<1>10. ktable_len(g.kt) <= KTABLE_MAX_SIZE
  BY <1>4, <1>6, <1>7, <1>8
<1> QED
  BY <1>6, <1>9, <1>10, GrammarNamed DEF RuleOK

(***************************************************************************)
(* Comparing strings.                                                      *)
(***************************************************************************)

LEMMA MinIs ==
  ASSUME NEW S \in SUBSET Nat, S # {}
  PROVE  Min(S) \in S /\ \A y \in S : Min(S) <= y
<1>1. \E x \in S : \A y \in S : x <= y
  BY LeastNumber
<1> QED
  BY <1>1 DEF Min

LEMMA CmpIs ==
  ASSUME NEW a \in Strings, NEW b \in Strings
  PROVE  \/ ktable_name_cmp(a, b) = 0 /\ a = b
         \/ ktable_name_cmp(a, b) = -1 /\ Less(a, b)
         \/ ktable_name_cmp(a, b) = 1 /\ Less(b, a)
<1> DEFINE D == {i \in DOMAIN a \cap DOMAIN b : a[i] # b[i]}
<1>1. PICK l \in Nat, m \in Nat :
        l = Len(a) /\ m = Len(b) /\ DOMAIN a = 1 .. l /\ DOMAIN b = 1 .. m
  BY DEF Strings
<1>2. /\ \A i \in 1 .. l : a[i] \in Nat
      /\ \A i \in 1 .. m : b[i] \in Nat
  BY <1>1 DEF Strings
<1>3. CASE D # {}
  <2>1. D \in SUBSET Nat
    BY <1>1
  <2>2. PICK k \in D : k = Min(D) /\ \A y \in D : k <= y
    BY <1>3, <2>1, MinIs
  <2>3. k \in 1 .. l /\ k \in 1 .. m /\ a[k] # b[k]
    BY <1>1, <2>2
  <2>4. \A i \in 1 .. k - 1 : a[i] = b[i]
    <3>1. TAKE i \in 1 .. k - 1
    <3>2. i \in 1 .. l /\ i \in 1 .. m /\ ~ (k <= i)
      BY <2>3
    <3>3. i \notin D
      BY <2>2, <3>2
    <3> QED
      BY <1>1, <3>2, <3>3
  <2>5. a[k] \in Nat /\ b[k] \in Nat
    BY <1>2, <2>3
  <2>6. ktable_name_cmp(a, b) = IF a[k] < b[k] THEN -1 ELSE 1
    BY <1>3, <2>2 DEF ktable_name_cmp
  <2> HIDE DEF D
  <2>7. CASE a[k] < b[k]
    <3>1. LessAt(a, b, k)
      BY <1>1, <2>3, <2>4, <2>7 DEF LessAt
    <3> QED
      BY <2>3, <2>6, <2>7, <3>1 DEF Less
  <2>8. CASE b[k] < a[k]
    <3>1. LessAt(b, a, k)
      BY <1>1, <2>3, <2>4, <2>8 DEF LessAt
    <3>2. ~ (a[k] < b[k])
      BY <2>5, <2>8
    <3> QED
      BY <2>3, <2>6, <3>1, <3>2 DEF Less
  <2>9. a[k] < b[k] \/ b[k] < a[k]
    BY <2>3, <2>5
  <2> QED
    BY <2>7, <2>8, <2>9
<1>4. CASE D = {}
  <2>1. \A i \in 1 .. l : i \in 1 .. m => a[i] = b[i]
    BY <1>1, <1>4
  <2>2. ktable_name_cmp(a, b) = IF l = m THEN 0 ELSE IF l < m THEN -1 ELSE 1
    BY <1>1, <1>4 DEF ktable_name_cmp
  <2> HIDE DEF D
  <2>3. CASE l = m
    <3>1. a = b
      BY <1>1, <2>1, <2>3 DEF Strings
    <3> QED
      BY <2>2, <2>3, <3>1
  <2>4. CASE l < m
    <3>1. l + 1 \in Nat \ {0} /\ l + 1 <= m /\ ~ (l + 1 <= l) /\ (l + 1) - 1 = l
      BY <2>4
    <3>2. \A i \in 1 .. l : i \in 1 .. m
      BY <2>4
    <3>3. LessAt(a, b, l + 1)
      BY <1>1, <2>1, <3>1, <3>2 DEF LessAt
    <3> QED
      BY <2>2, <2>4, <3>1, <3>3 DEF Less
  <2>5. CASE m < l
    <3>1. m + 1 \in Nat \ {0} /\ m + 1 <= l /\ ~ (m + 1 <= m) /\ (m + 1) - 1 = m
      BY <2>5
    <3>2. \A i \in 1 .. m : i \in 1 .. l
      BY <2>5
    <3>3. LessAt(b, a, m + 1)
      BY <1>1, <2>1, <3>1, <3>2 DEF LessAt
    <3>4. l # m /\ ~ (l < m)
      BY <2>5
    <3> QED
      BY <2>2, <3>1, <3>3, <3>4 DEF Less
  <2> QED
    BY <2>3, <2>4, <2>5
<1> QED
  BY <1>3, <1>4

LEMMA LessIrreflexive ==
  ASSUME NEW a \in Strings
  PROVE  ~ Less(a, a)
<1>1. SUFFICES ASSUME NEW k \in Nat \ {0}, LessAt(a, a, k) PROVE FALSE
  BY DEF Less
<1>2. PICK l \in Nat : l = Len(a) /\ \A i \in 1 .. l : a[i] \in Nat
  BY DEF Strings
<1>3. k <= l /\ a[k] < a[k]
  BY <1>1, <1>2 DEF LessAt
<1>4. a[k] \in Nat
  BY <1>2, <1>3
<1> QED
  BY <1>3, <1>4

LEMMA LessTransitive ==
  ASSUME NEW a \in Strings, NEW b \in Strings, NEW c \in Strings, Less(a, b), Less(b, c)
  PROVE  Less(a, c)
<1>1. PICK k1 \in Nat \ {0} : LessAt(a, b, k1)
  BY DEF Less
<1>2. PICK k2 \in Nat \ {0} : LessAt(b, c, k2)
  BY DEF Less
<1>3. PICK l \in Nat, m \in Nat, n \in Nat : l = Len(a) /\ m = Len(b) /\ n = Len(c)
  BY DEF Strings
<1>4. /\ \A i \in 1 .. l : a[i] \in Nat
      /\ \A i \in 1 .. m : b[i] \in Nat
      /\ \A i \in 1 .. n : c[i] \in Nat
  BY <1>3 DEF Strings
<1>5. k1 <= l + 1 /\ k1 <= m /\ (k1 <= l => a[k1] < b[k1])
  BY <1>1, <1>3 DEF LessAt
<1>6. k2 <= m + 1 /\ k2 <= n /\ (k2 <= m => b[k2] < c[k2])
  BY <1>2, <1>3 DEF LessAt
<1>7. /\ \A i \in 1 .. k1 - 1 : a[i] = b[i]
      /\ \A i \in 1 .. k2 - 1 : b[i] = c[i]
  BY <1>1, <1>2 DEF LessAt
<1>8. CASE k1 < k2
  <2>1. k1 \in 1 .. k2 - 1 /\ k1 <= n
    BY <1>6, <1>8
  <2>2. b[k1] = c[k1]
    BY <1>7, <2>1
  <2>3. \A i \in 1 .. k1 - 1 : i \in 1 .. k2 - 1
    BY <1>8
  <2>4. \A i \in 1 .. k1 - 1 : a[i] = c[i]
    BY <1>7, <2>3
  <2>5. LessAt(a, c, k1)
    BY <1>3, <1>5, <2>1, <2>2, <2>4 DEF LessAt
  <2> QED
    BY <2>5 DEF Less
<1>9. CASE k2 < k1
  <2>1. k2 \in 1 .. k1 - 1 /\ k2 <= l /\ k2 <= m
    BY <1>5, <1>9
  <2>2. a[k2] = b[k2] /\ b[k2] < c[k2]
    BY <1>6, <1>7, <2>1
  <2>3. \A i \in 1 .. k2 - 1 : i \in 1 .. k1 - 1
    BY <1>9
  <2>4. \A i \in 1 .. k2 - 1 : a[i] = c[i]
    BY <1>7, <2>3
  <2>6. k2 <= l + 1
    BY <2>1
  <2>5. LessAt(a, c, k2)
    BY <1>3, <1>6, <2>1, <2>2, <2>4, <2>6 DEF LessAt
  <2> QED
    BY <2>5 DEF Less
<1>10. CASE k1 = k2
  <2>1. \A i \in 1 .. k1 - 1 : a[i] = c[i]
    BY <1>7, <1>10
  <2>2. k1 <= l => a[k1] < c[k1]
    <3>1. SUFFICES ASSUME k1 <= l PROVE a[k1] < c[k1]
      OBVIOUS
    <3>2. a[k1] < b[k1] /\ b[k1] < c[k1]
      BY <1>5, <1>6, <1>10, <3>1
    <3>3. a[k1] \in Nat /\ b[k1] \in Nat /\ c[k1] \in Nat
      BY <1>4, <1>5, <1>6, <1>10, <3>1
    <3> QED
      BY <3>2, <3>3
  <2>3. LessAt(a, c, k1)
    BY <1>3, <1>5, <1>6, <1>10, <2>1, <2>2 DEF LessAt
  <2> QED
    BY <2>3 DEF Less
<1> QED
  BY <1>8, <1>9, <1>10

LEMMA CmpTells ==
  ASSUME NEW a \in Strings, NEW b \in Strings
  PROVE  /\ ktable_name_cmp(a, b) = 0 <=> a = b
         /\ ktable_name_cmp(a, b) = -1 <=> Less(a, b)
         /\ ktable_name_cmp(a, b) < 0 <=> Less(a, b)
         /\ Less(a, b) \/ a = b \/ Less(b, a)
<1>1. ~ (Less(a, b) /\ a = b) /\ ~ (Less(a, b) /\ Less(b, a)) /\ ~ (Less(b, a) /\ a = b)
  BY LessIrreflexive, LessTransitive
<1>2. -1 # 0 /\ 1 # 0 /\ 1 # -1 /\ -1 < 0 /\ ~ (0 < 0) /\ ~ (1 < 0)
  OBVIOUS
<1> QED
  BY <1>1, <1>2, CmpIs

(***************************************************************************)
(* Sorting by rank: a place for every string, and a string for every place.*)
(***************************************************************************)
LEMMA PrecedesIs ==
  ASSUME NEW ss \in Seq(Strings), NEW i \in DOMAIN ss, NEW j \in DOMAIN ss
  PROVE  Precedes(ss, i, j) <=> Less(ss[i], ss[j]) \/ (ss[i] = ss[j] /\ i < j)
<1>1. ss[i] \in Strings /\ ss[j] \in Strings
  OBVIOUS
<1> QED
  BY <1>1, CmpTells DEF Precedes

LEMMA PrecedesOrders ==
  ASSUME NEW ss \in Seq(Strings), NEW i \in DOMAIN ss, NEW j \in DOMAIN ss
  PROVE  /\ ~ Precedes(ss, i, i)
         /\ i # j => Precedes(ss, i, j) \/ Precedes(ss, j, i)
         /\ \A k \in DOMAIN ss :
              Precedes(ss, k, i) /\ Precedes(ss, i, j) => Precedes(ss, k, j)
<1>1. ss[i] \in Strings /\ ss[j] \in Strings /\ i \in Nat /\ j \in Nat
  OBVIOUS
<1>2. ~ Precedes(ss, i, i)
  <2>1. ~ (i < i)
    BY <1>1
  <2> QED
    BY <1>1, <2>1, PrecedesIs, LessIrreflexive
<1>3. i # j => Precedes(ss, i, j) \/ Precedes(ss, j, i)
  <2>1. i # j => i < j \/ j < i
    BY <1>1
  <2> QED
    BY <1>1, <2>1, PrecedesIs, CmpTells
<1>4. ASSUME NEW k \in DOMAIN ss, Precedes(ss, k, i), Precedes(ss, i, j)
      PROVE  Precedes(ss, k, j)
  <2>1. ss[k] \in Strings /\ k \in Nat
    OBVIOUS
  <2>2. /\ Less(ss[k], ss[i]) \/ (ss[k] = ss[i] /\ k < i)
        /\ Less(ss[i], ss[j]) \/ (ss[i] = ss[j] /\ i < j)
    BY <1>4, PrecedesIs
  <2>3. k < i /\ i < j => k < j
    BY <1>1, <2>1
  <2>4. Less(ss[k], ss[j]) \/ (ss[k] = ss[j] /\ k < j)
    BY <1>1, <2>1, <2>2, <2>3, LessTransitive
  <2> QED
    BY <2>4, PrecedesIs
<1> QED
  BY <1>2, <1>3, <1>4

Before(ss, i) == {j \in DOMAIN ss : Precedes(ss, j, i)}

LEMMA BeforeIs ==
  ASSUME NEW ss \in Seq(Strings), NEW i \in DOMAIN ss
  PROVE  /\ IsFiniteSet(Before(ss, i)) /\ Cardinality(Before(ss, i)) \in Nat
         /\ Cardinality(Before(ss, i)) < Len(ss)
         /\ Rank(ss, i) = 1 + Cardinality(Before(ss, i))
<1>1. PICK n \in Nat : n = Len(ss) /\ DOMAIN ss = 1 .. n
  OBVIOUS
<1>2. IsFiniteSet(1 .. n) /\ Cardinality(1 .. n) = n
  <2>1. 1 \in Int /\ n \in Int /\ (IF 1 > n THEN 0 ELSE n - 1 + 1) = n
    OBVIOUS
  <2> QED
    BY <2>1, FS_Interval
<1>3. i \in 1 .. n
  BY <1>1
<1>4. IsFiniteSet((1 .. n) \ {i}) /\ Cardinality((1 .. n) \ {i}) = n - 1
  BY <1>2, <1>3, FS_RemoveElement
<1>5. Before(ss, i) \in SUBSET ((1 .. n) \ {i})
  BY <1>1, PrecedesOrders DEF Before
<1>6. IsFiniteSet(Before(ss, i)) /\ Cardinality(Before(ss, i)) <= n - 1
  BY <1>4, <1>5, FS_Subset
<1>7. Cardinality(Before(ss, i)) \in Nat
  BY <1>6, FS_CardinalityType
<1>8. Rank(ss, i) = 1 + Cardinality(Before(ss, i))
  BY DEF Rank, Before
<1> QED
  BY <1>1, <1>6, <1>7, <1>8

LEMMA RankGrows ==
  ASSUME NEW ss \in Seq(Strings), NEW i \in DOMAIN ss, NEW j \in DOMAIN ss,
         Precedes(ss, i, j)
  PROVE  Rank(ss, i) < Rank(ss, j)
<1>1. Before(ss, i) \subseteq Before(ss, j)
  BY PrecedesOrders DEF Before
<1>2. i \in Before(ss, j) /\ i \notin Before(ss, i)
  BY PrecedesOrders DEF Before
<1>3. IsFiniteSet(Before(ss, j))
  BY BeforeIs
<1>4. Cardinality(Before(ss, i)) <= Cardinality(Before(ss, j))
        /\ Cardinality(Before(ss, j)) # Cardinality(Before(ss, i))
  BY <1>1, <1>2, <1>3, FS_Subset
<1>5. PICK x \in Nat, y \in Nat :
        x = Cardinality(Before(ss, i)) /\ y = Cardinality(Before(ss, j))
  BY BeforeIs
<1>6. Rank(ss, i) = 1 + x /\ Rank(ss, j) = 1 + y
  BY <1>5, BeforeIs
<1> QED
  BY <1>4, <1>5, <1>6

LEMMA RankOnto ==
  ASSUME NEW ss \in Seq(Strings), NEW k \in DOMAIN ss
  PROVE  \E i \in DOMAIN ss : Rank(ss, i) = k
<1>1. PICK n \in Nat : n = Len(ss) /\ DOMAIN ss = 1 .. n
  OBVIOUS
<1> DEFINE f == [i \in 1 .. n |-> Rank(ss, i)]
<1>2. \A i \in 1 .. n : Rank(ss, i) \in 1 .. n
  <2>1. TAKE i \in 1 .. n
  <2>2. PICK x \in Nat : x < n /\ Rank(ss, i) = 1 + x
    BY <1>1, BeforeIs
  <2> QED
    BY <2>2
<1>3. \A i, j \in 1 .. n : i # j => Rank(ss, i) # Rank(ss, j)
  <2>1. TAKE i, j \in 1 .. n
  <2>2. HAVE i # j
  <2>3. Rank(ss, i) < Rank(ss, j) \/ Rank(ss, j) < Rank(ss, i)
    BY <1>1, <2>2, PrecedesOrders, RankGrows
  <2>4. Rank(ss, i) \in Nat /\ Rank(ss, j) \in Nat
    BY <1>2
  <2> QED
    BY <2>3, <2>4
<1>4. f \in Injection(1 .. n, 1 .. n)
  <2>1. f \in [1 .. n -> 1 .. n]
    BY <1>2
  <2>2. \A a, b \in DOMAIN f : f[a] = f[b] => a = b
    BY <1>3
  <2> HIDE DEF f
  <2> QED
    BY <2>1, <2>2 DEF Injection, IsInjective
<1>5. IsFiniteSet(1 .. n)
  BY FS_Interval
<1>6. f \in Surjection(1 .. n, 1 .. n)
  <2> HIDE DEF f
  <2> QED
    BY <1>4, <1>5, FS_Injection
<1>7. \A t \in 1 .. n : \E s \in 1 .. n : f[s] = t
  <2> HIDE DEF f
  <2> QED
    BY <1>6 DEF Surjection
<1> QED
  BY <1>1, <1>7

(* The sorted names: each of them one of the table's, all of them there,   *)
(* and none smaller than one before it.                                    *)
Ascending(a, b) == Less(a, b) \/ a = b
Sorted(s, kt) ==
  /\ s \in Seq(Strings) /\ Len(s) = ktable_len(kt)
  /\ \A k \in DOMAIN s, l \in DOMAIN s : k < l => Ascending(s[k], s[l])
  /\ \A i \in Indices(kt) : \E k \in DOMAIN s : s[k] = ktable_element_name(kt, i)

LEMMA SortedIndex ==
  ASSUME NEW kt, TableOK(kt)
  PROVE  Sorted(ktable_sorted_index(kt), kt)
<1>1. PICK ss \in Seq(Strings) : ss = Names(kt) /\ Len(ss) = ktable_len(kt)
  BY NamesAre
<1>2. PICK n \in Nat : n = Len(ss) /\ DOMAIN ss = 1 .. n /\ Indices(kt) = 1 .. n
  BY <1>1 DEF Indices
<1>3. \A i \in 1 .. n : ss[i] \in Strings /\ ss[i] = ktable_element_name(kt, i)
  BY <1>1, <1>2, NamesAre
<1> DEFINE at(k) == CHOOSE i \in 1 .. n : Rank(ss, i) = k
           s == ktable_sorted_index(kt)
<1>4. s = [k \in 1 .. n |-> ss[at(k)]]
  BY <1>1, <1>2 DEF ktable_sorted_index
<1>5. \A k \in 1 .. n : at(k) \in 1 .. n /\ Rank(ss, at(k)) = k
  BY <1>2, RankOnto
<1> HIDE DEF at, s
<1>6. s \in Seq(Strings) /\ Len(s) = n /\ DOMAIN s = 1 .. n
        /\ \A k \in 1 .. n : s[k] = ss[at(k)]
  BY <1>3, <1>4, <1>5
<1>7. ASSUME NEW k \in 1 .. n, NEW l \in 1 .. n, k < l
      PROVE  Ascending(s[k], s[l])
  <2>1. PICK i \in 1 .. n, j \in 1 .. n :
          i = at(k) /\ j = at(l) /\ Rank(ss, i) = k /\ Rank(ss, j) = l
    BY <1>5
  <2>2. ~ (l < k) /\ k # l
    BY <1>7
  <2>3. ~ Precedes(ss, j, i)
    BY <1>2, <2>1, <2>2, RankGrows
  <2>4. Precedes(ss, i, j)
    BY <1>2, <2>1, <2>2, <2>3, PrecedesOrders
  <2>5. Less(ss[i], ss[j]) \/ ss[i] = ss[j]
    BY <1>2, <2>4, PrecedesIs
  <2> QED
    BY <1>6, <2>1, <2>5 DEF Ascending
<1>8. ASSUME NEW i \in 1 .. n
      PROVE  \E k \in 1 .. n : s[k] = ktable_element_name(kt, i)
  <2>1. PICK x \in Nat : x < n /\ Rank(ss, i) = 1 + x
    BY <1>2, BeforeIs
  <2>2. PICK k \in 1 .. n : k = Rank(ss, i)
    BY <2>1
  <2>3. at(k) \in 1 .. n /\ Rank(ss, at(k)) = Rank(ss, i)
    BY <1>5, <2>2
  <2>4. Rank(ss, at(k)) \in Nat
    BY <2>1, <2>3
  <2>5. at(k) = i
    <3>1. SUFFICES ASSUME at(k) # i PROVE FALSE
      OBVIOUS
    <3>2. PICK j \in 1 .. n : j = at(k)
      BY <2>3
    <3>3. Rank(ss, i) < Rank(ss, j) \/ Rank(ss, j) < Rank(ss, i)
      BY <1>2, <3>1, <3>2, PrecedesOrders, RankGrows
    <3> QED
      BY <2>3, <2>4, <3>2, <3>3
  <2> QED
    BY <1>3, <1>6, <2>5
<1> QED
  BY <1>1, <1>2, <1>6, <1>7, <1>8 DEF Sorted, s

(***************************************************************************)
(* Compacting.                                                             *)
(***************************************************************************)
IsCompacting(f, ss, grows) ==
  f = [S \in SUBSET DOMAIN ss |->
         IF S = {} THEN ktable_new(0, 0)
         ELSE LET x == Max(S) IN AddNew(f[S \ {x}], ss[x], grows)]

LEMMA CompactChooses ==
  ASSUME NEW kt, NEW grows
  PROVE  LET ss == ktable_sorted_index(kt)
         IN  ktable_compact(kt, grows) = (CHOOSE f : IsCompacting(f, ss, grows))[DOMAIN ss]
BY DEF ktable_compact, FoldLeft, MapThenFoldSet, IsCompacting

LEMMA CompactingExists ==
  ASSUME NEW ss \in Seq(Strings), NEW grows \in BOOLEAN
  PROVE  \E f : IsCompacting(f, ss, grows)
<1> DEFINE n == Len(ss)
           b == ktable_new(0, 0)
           h == [i \in 1 .. n |-> [t \in Tables |-> AddNew(t, ss[i], grows)]]
<1>1. n \in Nat /\ DOMAIN ss = 1 .. n
  OBVIOUS
<1>0. b \in Tables
  BY NewTable DEF TableOK
<1> HIDE DEF b
<1>2. h \in [1 .. n -> [Tables -> Tables]]
  <2>1. \A i \in 1 .. n, t \in Tables : AddNew(t, ss[i], grows) \in Tables
    BY AddTyped DEF AddNew
  <2> QED
    BY <2>1
<1>3. PICK g \in [SUBSET (1 .. n) -> Tables] : IsIter(g, b, h, n)
  <2> HIDE DEF n, h
  <2> QED
    BY <1>0, <1>1, <1>2, IterExists
<1>4. ASSUME NEW S \in SUBSET (1 .. n)
      PROVE  g[S] = IF S = {} THEN b
                    ELSE LET x == Max(S) IN AddNew(g[S \ {x}], ss[x], grows)
  <2>1. CASE S = {}
    BY <1>3, <2>1 DEF IsIter
  <2>2. CASE S # {}
    <3>1. Max(S) \in 1 .. n
      BY <1>1, <2>2, MaxInside
    <3>2. g[S \ {Max(S)}] \in Tables
      OBVIOUS
    <3>3. g[S] = h[Max(S)][g[S \ {Max(S)}]]
      BY <1>3, <2>2 DEF IsIter
    <3> QED
      BY <2>2, <3>1, <3>2, <3>3
  <2> QED
    BY <2>1, <2>2
<1>5. IsCompacting(g, ss, grows)
  <2> HIDE DEF n, h
  <2> QED
    BY <1>1, <1>3, <1>4 DEF IsCompacting, b
<1> QED
  BY <1>5

CompactedOneByOne(a, kt, ss, grows) ==
  /\ a[0] = ktable_new(0, 0)
  /\ \A i \in 1 .. Len(ss) : a[i] = AddNew(a[i - 1], ss[i], grows)
  /\ ktable_compact(kt, grows) = a[Len(ss)]

LEMMA CompactSteps ==
  ASSUME NEW kt, NEW ss \in Seq(Strings), ss = ktable_sorted_index(kt),
         NEW grows \in BOOLEAN
  PROVE  \E a : CompactedOneByOne(a, kt, ss, grows)
<1>1. PICK n \in Nat : n = Len(ss) /\ DOMAIN ss = 1 .. n
  OBVIOUS
<1>2. PICK f : IsCompacting(f, ss, grows) /\ ktable_compact(kt, grows) = f[1 .. n]
  BY <1>1, CompactingExists, CompactChooses
<1>b. PICK b : b = ktable_new(0, 0)
  OBVIOUS
<1>3. ASSUME NEW S \in SUBSET (1 .. n)
      PROVE  f[S] = IF S = {} THEN b
                    ELSE LET x == Max(S) IN AddNew(f[S \ {x}], ss[x], grows)
  <2>1. f = [X \in SUBSET (1 .. n) |->
               IF X = {} THEN b
               ELSE LET x == Max(X) IN AddNew(f[X \ {x}], ss[x], grows)]
    BY <1>1, <1>2, <1>b, Zenon DEF IsCompacting
  <2> QED
    BY <2>1, Zenon
<1> DEFINE a == [k \in 0 .. n |-> f[1 .. k]]
<1>4. a[0] = b
  <2>1. 1 .. 0 = {} /\ {} \in SUBSET (1 .. n) /\ 0 \in 0 .. n
    BY <1>1
  <2> QED
    BY <1>3, <2>1
<1>5. ASSUME NEW i \in 1 .. n PROVE a[i] = AddNew(a[i - 1], ss[i], grows)
  <2>1. i - 1 \in Nat /\ i - 1 \in 0 .. n /\ i \in 0 .. n /\ i \in Nat
          /\ i = (i - 1) + 1 /\ i \in 1 .. i
    BY <1>1
  <2>2. Max(1 .. i) = i
    BY <2>1, MaxIs
  <2>3. (1 .. i) \ {i} = 1 .. i - 1
    BY <2>1, Initial
  <2>4. 1 .. i \in SUBSET (1 .. n) /\ 1 .. i # {}
    <3>1. \A x \in 1 .. i : x \in 1 .. n
      BY ONLY i \in 1 .. n, n \in Nat
    <3>2. i \in 1 .. i
      BY <2>1
    <3> QED
      BY ONLY <3>1, <3>2
  <2>5. f[1 .. i] = AddNew(f[1 .. i - 1], ss[i], grows)
    <3> HIDE DEF a
    <3> QED
      BY <1>3, <2>2, <2>3, <2>4
  <2>6. a[i] = f[1 .. i] /\ a[i - 1] = f[1 .. i - 1]
    BY ONLY <2>1
  <2> QED
    BY <2>5, <2>6
<1>6. a[n] = f[1 .. n]
  BY <1>1
<1> HIDE DEF a
<1> QED
  BY <1>1, <1>2, <1>b, <1>4, <1>5, <1>6 DEF CompactedOneByOne

(* The compact table of the first k strings.                               *)
HasAll(t, ss, k) == \A j \in 1 .. k : \E i \in Indices(t) : ktable_element_name(t, i) = ss[j]
HasOnly(t, ss, k) == \A i \in Indices(t) : \E j \in 1 .. k : ktable_element_name(t, i) = ss[j]
Compacted(t, ss, k) ==
  /\ TableOK(t) /\ ktable_len(t) <= k
  /\ InOrder(t) /\ HasAll(t, ss, k) /\ HasOnly(t, ss, k)
  /\ k > 0 => ktable_len(t) > 0 /\ ktable_element_name(t, ktable_len(t)) = ss[k]

LEMMA AddGrows ==
  ASSUME NEW t, TableOK(t), NEW s \in Strings
  PROVE  ktable_add(t, s, TRUE) # Overrun
<1>1. PICK els \in Seq(Elements) : els = t.elements
  BY TableFields DEF TableOK
<1>2. PICK l \in Nat, z \in Nat : l = Len(els) /\ z = t.size
  <2>1. t.size \in Nat
    BY TableFields, Zenon DEF TableOK
  <2>2. Len(els) \in Nat
    OBVIOUS
  <2> QED
    BY ONLY <2>1, <2>2
<1>3. t # Overrun
  <2>1. z > 0
    BY <1>1, <1>2 DEF TableOK, ktable_len
  <2> QED
    BY <1>2, <2>1 DEF Overrun
<1> DEFINE e == [start |-> Len(t.block), len |-> Len(s)]
<1>4. PICK x, y, v : ktable_add(t, s, TRUE)
           = [elements |-> Append(els, e), block |-> x, size |-> y, blocksize |-> v]
  BY <1>1, <1>3 DEF ktable_add
<1>5. e \in Elements
  BY TableFields DEF TableOK, Elements, Strings
<1> HIDE DEF e
<1>6. Len(Append(els, e)) = l + 1 /\ Len(<<>>) = 0 /\ l + 1 # 0
  BY <1>2, <1>5
<1>7. ktable_add(t, s, TRUE).elements = Append(els, e)
  <2>1. PICK w : w = Append(els, e)
    OBVIOUS
  <2>2. ktable_add(t, s, TRUE) = [elements |-> w, block |-> x, size |-> y, blocksize |-> v]
    BY <1>4, <2>1, Zenon
  <2>3. PICK r : r = ktable_add(t, s, TRUE)
    BY Zenon
  <2>4. r = [elements |-> w, block |-> x, size |-> y, blocksize |-> v]
    BY <2>2, <2>3, Zenon
  <2>5. r.elements = w
    BY ONLY <2>4
  <2> QED
    BY <2>1, <2>3, <2>5, Zenon
<1>8. Overrun.elements = <<>>
  BY DEF Overrun
<1> QED
  BY ONLY <1>6, <1>7, <1>8

LEMMA CompactedMore ==
  ASSUME NEW ss \in Seq(Strings), NEW k \in Nat, k + 1 <= Len(ss),
         \A i \in DOMAIN ss, j \in DOMAIN ss : i < j => Ascending(ss[i], ss[j]),
         NEW t, Compacted(t, ss, k), NEW u, u = AddNew(t, ss[k + 1], TRUE)
  PROVE  Compacted(u, ss, k + 1)
<1>1. PICK m \in Nat : m = Len(ss) /\ DOMAIN ss = 1 .. m /\ k + 1 <= m
  OBVIOUS
<1>2. PICK s \in Strings : s = ss[k + 1]
  BY <1>1
<1>3. \A j \in 1 .. k : ss[j] \in Strings /\ Ascending(ss[j], s)
  <2>1. TAKE j \in 1 .. k
  <2>2. j \in 1 .. m /\ k + 1 \in 1 .. m /\ j < k + 1
    BY <1>1
  <2> QED
    BY <1>1, <1>2, <2>2
<1>4. TableOK(t) /\ InOrder(t) /\ HasAll(t, ss, k) /\ HasOnly(t, ss, k)
  BY DEF Compacted
<1>5. PICK l \in Nat : l = ktable_len(t) /\ Indices(t) = 1 .. l /\ l <= k
  BY <1>4, TableFields DEF TableOK, Indices, Compacted
<1>6. \A i \in 1 .. l : ktable_element_name(t, i) \in Strings
  BY <1>4, <1>5, NamesAre
<1>7. CASE l > 0 /\ ktable_element_name(t, l) = s
  <2>1. ktable_name_cmp(ktable_element_name(t, l), s) = 0
    <3>1. l \in 1 .. l
      BY <1>7
    <3> QED
      BY <1>6, <1>7, <3>1, CmpTells
  <2>2. u = t
    BY <1>2, <1>5, <1>7, <2>1 DEF AddNew
  <2>3. HasAll(t, ss, k + 1)
    <3>1. SUFFICES ASSUME NEW j \in 1 .. k + 1
                   PROVE  \E i \in Indices(t) : ktable_element_name(t, i) = ss[j]
      BY DEF HasAll
    <3>2. CASE j = k + 1
      <4>1. l \in Indices(t)
        BY <1>5, <1>7
      <4> QED
        BY <1>2, <1>7, <3>2, <4>1
    <3>3. CASE j # k + 1
      <4>1. j \in 1 .. k
        BY <3>3
      <4> QED
        BY <1>4, <4>1 DEF HasAll
    <3> QED
      BY <3>2, <3>3
  <2>4. HasOnly(t, ss, k + 1)
    <3>1. \A j \in 1 .. k : j \in 1 .. k + 1
      OBVIOUS
    <3> QED
      BY <1>4, <3>1 DEF HasOnly
  <2>5. l <= k + 1
    BY <1>5
  <2> QED
    BY <1>2, <1>4, <1>5, <1>7, <2>2, <2>3, <2>4, <2>5 DEF Compacted
<1>8. CASE ~ (l > 0 /\ ktable_element_name(t, l) = s)
  <2>1. u = ktable_add(t, s, TRUE)
    <3>1. CASE l > 0
      <4>1. l \in 1 .. l
        BY <3>1
      <4>2. ktable_name_cmp(ktable_element_name(t, l), s) # 0
        BY <1>6, <1>8, <3>1, <4>1, CmpTells
      <4> QED
        BY <1>2, <1>5, <4>2 DEF AddNew
    <3>2. CASE ~ (l > 0)
      BY <1>2, <1>5, <3>2 DEF AddNew
    <3> QED
      BY <3>1, <3>2
  <2>2. OneMore(t, s, u)
    BY <1>4, <2>1, AddGrows, AddSound
  <2>3. TableOK(u) /\ ktable_len(u) = l + 1 /\ Indices(u) = 1 .. l + 1
    BY <1>5, <2>2 DEF OneMore, Indices
  <2>4. \A i \in 1 .. l : ktable_element_name(u, i) = ktable_element_name(t, i)
    BY <1>5, <2>2 DEF OneMore
  <2>5. ktable_element_name(u, l + 1) = s
    BY <2>2, <2>3 DEF OneMore
  <2>6. ASSUME NEW i \in 1 .. l PROVE Less(ktable_element_name(t, i), s)
    <3>1. PICK x \in Strings, last \in Strings :
            x = ktable_element_name(t, i) /\ last = ktable_element_name(t, l)
      <4>1. l \in 1 .. l
        OBVIOUS
      <4> QED
        BY <1>6, <4>1
    <3>2. l > 0 /\ k > 0 /\ k \in 1 .. k
      BY <1>5
    <3>3. last = ss[k] /\ Ascending(last, s)
      BY <1>3, <1>5, <3>1, <3>2 DEF Compacted
    <3>4. Less(last, s)
      BY <1>8, <3>1, <3>2, <3>3 DEF Ascending
    <3>5. CASE i = l
      BY <3>1, <3>4, <3>5
    <3>6. CASE i # l
      <4>1. i < l /\ i \in Indices(t) /\ l \in Indices(t)
        BY <1>5, <3>2, <3>6
      <4>2. Less(x, last)
        BY <1>4, <3>1, <4>1 DEF InOrder
      <4> QED
        BY <3>1, <3>4, <4>2, LessTransitive
    <3> QED
      BY <3>5, <3>6
  <2>7. InOrder(u)
    <3>1. SUFFICES ASSUME NEW i \in 1 .. l + 1, NEW j \in 1 .. l + 1, i < j
                   PROVE  Less(ktable_element_name(u, i), ktable_element_name(u, j))
      BY <2>3 DEF InOrder
    <3>2. i \in 1 .. l
      BY <3>1
    <3>3. CASE j = l + 1
      BY <2>4, <2>5, <2>6, <3>2, <3>3
    <3>4. CASE j # l + 1
      <4>1. j \in 1 .. l
        BY <3>4
      <4> QED
        BY <1>4, <1>5, <2>4, <3>1, <3>2, <4>1 DEF InOrder
    <3> QED
      BY <3>3, <3>4
  <2>8. HasAll(u, ss, k + 1)
    <3>1. SUFFICES ASSUME NEW j \in 1 .. k + 1
                   PROVE  \E i \in Indices(u) : ktable_element_name(u, i) = ss[j]
      BY DEF HasAll
    <3>2. CASE j = k + 1
      <4>1. l + 1 \in Indices(u)
        <5>1. l + 1 \in 1 .. l + 1
          OBVIOUS
        <5> QED
          BY <2>3, <5>1, Zenon
      <4> QED
        BY <1>2, <2>5, <3>2, <4>1
    <3>3. CASE j # k + 1
      <4>1. j \in 1 .. k
        BY <3>3
      <4>2. PICK i \in 1 .. l : ktable_element_name(t, i) = ss[j]
        BY <1>4, <1>5, <4>1 DEF HasAll
      <4>3. i \in Indices(u)
        <5>1. i \in 1 .. l + 1
          OBVIOUS
        <5> QED
          BY <2>3, <5>1, Zenon
      <4> QED
        BY <2>4, <4>2, <4>3
    <3> QED
      BY <3>2, <3>3
  <2>9. HasOnly(u, ss, k + 1)
    <3>1. SUFFICES ASSUME NEW i \in 1 .. l + 1
                   PROVE  \E j \in 1 .. k + 1 : ktable_element_name(u, i) = ss[j]
      BY <2>3 DEF HasOnly
    <3>2. CASE i = l + 1
      <4>1. k + 1 \in 1 .. k + 1
        OBVIOUS
      <4> QED
        BY <1>2, <2>5, <3>2, <4>1
    <3>3. CASE i # l + 1
      <4>1. i \in 1 .. l
        BY <3>3
      <4>2. PICK j \in 1 .. k : ktable_element_name(t, i) = ss[j]
        BY <1>4, <1>5, <4>1 DEF HasOnly
      <4>3. j \in 1 .. k + 1
        OBVIOUS
      <4> QED
        BY <2>4, <4>1, <4>2, <4>3
    <3> QED
      BY <3>2, <3>3
  <2>10. l + 1 <= k + 1 /\ l + 1 > 0
    BY <1>5
  <2> QED
    BY <1>2, <2>3, <2>5, <2>7, <2>8, <2>9, <2>10 DEF Compacted
<1> QED
  BY <1>7, <1>8

(* ktable_compact gives a sound table with the names of the old one, each  *)
(* of them once and in order.                                              *)
CompactOf(kt, t) ==
  /\ TableOK(t) /\ ktable_len(t) <= ktable_len(kt) /\ InOrder(t)
  /\ \A i \in Indices(kt) : \E m \in Indices(t) :
       ktable_element_name(t, m) = ktable_element_name(kt, i)

LEMMA CompactSound ==
  ASSUME NEW kt, TableOK(kt)
  PROVE  CompactOf(kt, ktable_compact(kt, TRUE))
<1>1. PICK ss : ss = ktable_sorted_index(kt) /\ Sorted(ss, kt)
  BY SortedIndex
<1>2. ss \in Seq(Strings) /\ Len(ss) = ktable_len(kt)
        /\ \A i \in DOMAIN ss, j \in DOMAIN ss : i < j => Ascending(ss[i], ss[j])
  BY <1>1 DEF Sorted
<1>3. PICK a : CompactedOneByOne(a, kt, ss, TRUE)
  BY <1>1, <1>2, CompactSteps
<1>4. PICK n \in Nat : n = Len(ss) /\ DOMAIN ss = 1 .. n
  BY <1>2
<1>5. a[0] = ktable_new(0, 0) /\ ktable_compact(kt, TRUE) = a[n]
        /\ \A i \in 1 .. n : a[i] = AddNew(a[i - 1], ss[i], TRUE)
  BY <1>3, <1>4 DEF CompactedOneByOne
<1> DEFINE P(k) == Compacted(a[k], ss, k)
           T == {k \in Nat : k <= n /\ ~ P(k)}
<1>6. T = {}
  <2>1. SUFFICES ASSUME T # {} PROVE FALSE
    OBVIOUS
  <2>2. PICK k \in T : \A j \in T : k <= j
    BY <2>1, LeastNumber
  <2>3. k \in Nat /\ k <= n /\ ~ P(k)
    BY <2>2
  <2>4. CASE k = 0
    <3>1. PICK t : t = ktable_new(0, 0) /\ TableOK(t) /\ ktable_len(t) = 0
      BY NewTable
    <3>2. Indices(t) = {}
      BY <3>1 DEF Indices
    <3>3. Compacted(t, ss, 0)
      BY <3>1, <3>2 DEF Compacted, InOrder, HasAll, HasOnly
    <3> QED
      BY <1>5, <2>3, <2>4, <3>1, <3>3
  <2>5. CASE k # 0
    <3>1. PICK j \in Nat : k = j + 1
      <4>1. k - 1 \in Nat /\ k = (k - 1) + 1
        BY <2>3, <2>5
      <4> QED
        BY ONLY <4>1
    <3>2. j <= n /\ ~ (k <= j) /\ k \in 1 .. n /\ k - 1 = j /\ j + 1 <= n
      BY <2>3, <3>1
    <3>3. Compacted(a[j], ss, j)
      <4>1. P(j)
        <5> HIDE DEF P
        <5> QED
          BY <2>2, <3>2
      <4> QED
        BY <4>1
    <3>4. a[k] = AddNew(a[j], ss[j + 1], TRUE)
      BY <1>5, <3>1, <3>2
    <3>5. Compacted(a[k], ss, j + 1)
      BY <1>2, <1>4, <3>2, <3>3, <3>4, CompactedMore
    <3> QED
      BY <2>3, <3>1, <3>5
  <2> QED
    BY <2>4, <2>5
<1> HIDE DEF P
<1>7. P(n)
  <2>1. n \notin T /\ n <= n
    BY <1>6
  <2> QED
    BY <2>1
<1>8. PICK t : t = ktable_compact(kt, TRUE) /\ Compacted(t, ss, n)
  BY <1>5, <1>7 DEF P
<1>9. ASSUME NEW i \in Indices(kt)
      PROVE  \E m \in Indices(t) : ktable_element_name(t, m) = ktable_element_name(kt, i)
  <2>1. PICK k \in 1 .. n : ss[k] = ktable_element_name(kt, i)
    BY <1>1, <1>4 DEF Sorted
  <2> QED
    BY <1>8, <2>1 DEF Compacted, HasAll
<1> QED
  BY <1>2, <1>4, <1>8, <1>9 DEF CompactOf, Compacted

(***************************************************************************)
(* Searching: the recursive function exists, as every range that it asks   *)
(* about is smaller; f[<<i, j>>] is what the search from i to j finds.     *)
(***************************************************************************)
Middle(i, j) == i + (j - i) \div 2
Found(f, kt, target, i, j) ==
  LET mid  == i + (j - i) \div 2
      test == ktable_name_cmp(target, ktable_element_name(kt, mid))
  IN  IF j < i THEN NoEnd
      ELSE IF test = 0 THEN mid
      ELSE IF i = j THEN 0
      ELSE IF test < 0 THEN f[<<i, mid - 1>>]
      ELSE f[<<mid + 1, j>>]
IsSearch(f, kt, target, n) ==
  f = [range \in (1 .. n + 1) \X (0 .. n) |-> Found(f, kt, target, range[1], range[2])]

LEMMA SearchChooses ==
  ASSUME NEW kt, NEW target
  PROVE  LET n == ktable_len(kt)
         IN  ktable_compact_search(kt, target)
               = IF n = 0 THEN 0 ELSE (CHOOSE f : IsSearch(f, kt, target, n))[<<1, n>>]
BY DEF ktable_compact_search, IsSearch, Found

LEMMA MiddleIs ==
  ASSUME NEW i \in Nat, NEW j \in Nat, i <= j
  PROVE  Middle(i, j) \in Nat /\ i <= Middle(i, j) /\ Middle(i, j) <= j
<1>1. PICK d \in Nat : d = j - i
  OBVIOUS
<1>2. d \div 2 \in Nat /\ d \div 2 <= d
  OBVIOUS
<1>3. PICK h \in Nat : h = d \div 2 /\ h <= d
  BY <1>2
<1> QED
  BY <1>1, <1>3 DEF Middle

Agree(f, g, n, k) ==
  \A i \in 1 .. n + 1, j \in 0 .. n : j - i < k => f[<<i, j>>] = g[<<i, j>>]
Solves(f, kt, target, n, k) ==
  \A i \in 1 .. n + 1, j \in 0 .. n :
    j - i < k => f[<<i, j>>] = Found(f, kt, target, i, j)

LEMMA FoundAgrees ==
  ASSUME NEW n \in Nat, NEW k \in Nat, NEW f, NEW g, Agree(f, g, n, k), NEW kt, NEW target,
         NEW i \in 1 .. n + 1, NEW j \in 0 .. n, j - i < k + 1
  PROVE  Found(f, kt, target, i, j) = Found(g, kt, target, i, j)
<1>1. CASE j < i
  BY <1>1 DEF Found
<1>2. CASE i <= j
  <2>1. PICK m \in Nat : m = Middle(i, j) /\ i <= m /\ m <= j
    <3>1. i \in Nat /\ j \in Nat
      OBVIOUS
    <3> QED
      BY <1>2, <3>1, MiddleIs
  <2>2. m - 1 \in 0 .. n /\ (m - 1) - i < k
    BY <2>1
  <2>3. m + 1 \in 1 .. n + 1 /\ j - (m + 1) < k
    BY <2>1
  <2>4. f[<<i, m - 1>>] = g[<<i, m - 1>>]
    BY <2>2 DEF Agree
  <2>5. f[<<m + 1, j>>] = g[<<m + 1, j>>]
    BY <2>3 DEF Agree
  <2>6. m = i + (j - i) \div 2
    BY <2>1 DEF Middle
  <2> QED
    BY <2>4, <2>5, <2>6 DEF Found
<1> QED
  BY <1>1, <1>2

LEMMA SolvesMore ==
  ASSUME NEW n \in Nat, NEW k \in Nat, NEW f, NEW kt, NEW target,
         Solves(f, kt, target, n, k)
  PROVE  \E g : /\ g = [r \in (1 .. n + 1) \X (0 .. n) |-> g[r]]
                /\ Solves(g, kt, target, n, k + 1)
<1> DEFINE g == [r \in (1 .. n + 1) \X (0 .. n) |->
                   IF r[2] - r[1] < k THEN f[r] ELSE Found(f, kt, target, r[1], r[2])]
<1>1. ASSUME NEW i \in 1 .. n + 1, NEW j \in 0 .. n
      PROVE  g[<<i, j>>] = IF j - i < k THEN f[<<i, j>>] ELSE Found(f, kt, target, i, j)
  <2>1. PICK r \in (1 .. n + 1) \X (0 .. n) : r = <<i, j>>
    OBVIOUS
  <2>2. r[1] = i /\ r[2] = j
    BY <2>1
  <2>3. g[r] = IF r[2] - r[1] < k THEN f[r] ELSE Found(f, kt, target, r[1], r[2])
    OBVIOUS
  <2> HIDE DEF g
  <2> QED
    BY <2>1, <2>2, <2>3, Zenon
<1>2. g = [r \in (1 .. n + 1) \X (0 .. n) |-> g[r]]
  OBVIOUS
<1> HIDE DEF g
<1>3. Agree(f, g, n, k)
  BY <1>1 DEF Agree
<1>4. ASSUME NEW i \in 1 .. n + 1, NEW j \in 0 .. n, j - i < k + 1
      PROVE  g[<<i, j>>] = Found(g, kt, target, i, j)
  <2>1. Found(f, kt, target, i, j) = Found(g, kt, target, i, j)
    BY <1>3, <1>4, FoundAgrees
  <2>2. CASE j - i < k
    BY <1>1, <2>1, <2>2 DEF Solves
  <2>3. CASE ~ (j - i < k)
    BY <1>1, <2>1, <2>3
  <2> QED
    BY <2>2, <2>3
<1>5. Solves(g, kt, target, n, k + 1)
  BY <1>4 DEF Solves
<1> QED
  BY <1>2, <1>5

SearchTo(g, kt, target, n, k) ==
  /\ g = [r \in (1 .. n + 1) \X (0 .. n) |-> g[r]]
  /\ Solves(g, kt, target, n, k)

LEMMA SolvesAll ==
  ASSUME NEW n \in Nat, NEW kt, NEW target, NEW k \in Nat
  PROVE  \E g : SearchTo(g, kt, target, n, k)
<1> DEFINE T == {x \in Nat : ~ \E g : SearchTo(g, kt, target, n, x)}
<1>1. T = {}
  <2>1. SUFFICES ASSUME T # {} PROVE FALSE
    OBVIOUS
  <2>2. PICK x \in T : \A y \in T : x <= y
    BY <2>1, LeastNumber
  <2>3. x \in Nat /\ ~ \E g : SearchTo(g, kt, target, n, x)
    BY <2>2
  <2>4. CASE x = 0
    <3> DEFINE g == [r \in (1 .. n + 1) \X (0 .. n) |-> NoEnd]
    <3>1. g = [r \in (1 .. n + 1) \X (0 .. n) |-> g[r]]
      OBVIOUS
    <3>2. \A i \in 1 .. n + 1, j \in 0 .. n : g[<<i, j>>] = NoEnd
      OBVIOUS
    <3> HIDE DEF g
    <3>3. \A i \in 1 .. n + 1, j \in 0 .. n : j - i < 0 => j < i
      OBVIOUS
    <3>4. \A i \in 1 .. n + 1, j \in 0 .. n : j < i => Found(g, kt, target, i, j) = NoEnd
      BY DEF Found
    <3>5. Solves(g, kt, target, n, 0)
      BY <3>2, <3>3, <3>4 DEF Solves
    <3> QED
      BY <2>3, <2>4, <3>1, <3>5 DEF SearchTo
  <2>5. CASE x # 0
    <3>1. PICK y \in Nat : x = y + 1
      <4>1. x - 1 \in Nat /\ x = (x - 1) + 1
        BY <2>3, <2>5
      <4> QED
        BY ONLY <4>1
    <3>2. ~ (x <= y)
      BY <3>1
    <3>3. PICK f : SearchTo(f, kt, target, n, y)
      BY <2>2, <3>2
    <3>4. \E g : SearchTo(g, kt, target, n, y + 1)
      BY <3>3, SolvesMore DEF SearchTo
    <3> QED
      BY <2>3, <3>1, <3>4
  <2> QED
    BY <2>4, <2>5
<1>2. k \notin T
  BY <1>1
<1> QED
  BY <1>2

LEMMA SearchExists ==
  ASSUME NEW n \in Nat, NEW kt, NEW target
  PROVE  \E f : IsSearch(f, kt, target, n)
<1>1. PICK f : SearchTo(f, kt, target, n, n)
  BY SolvesAll
<1>2. f = [r \in (1 .. n + 1) \X (0 .. n) |-> f[r]]
  BY <1>1, Zenon DEF SearchTo
<1>3. ASSUME NEW r \in (1 .. n + 1) \X (0 .. n)
      PROVE  f[r] = Found(f, kt, target, r[1], r[2])
  <2>1. PICK i \in 1 .. n + 1, j \in 0 .. n : r = <<i, j>>
    OBVIOUS
  <2>2. r[1] = i /\ r[2] = j /\ j - i < n
    BY <2>1
  <2>3. f[<<i, j>>] = Found(f, kt, target, i, j)
    BY <1>1, <2>2 DEF SearchTo, Solves
  <2> QED
    BY <2>1, <2>2, <2>3, Zenon
<1>4. [r \in (1 .. n + 1) \X (0 .. n) |-> f[r]]
        = [r \in (1 .. n + 1) \X (0 .. n) |-> Found(f, kt, target, r[1], r[2])]
  BY <1>3
<1> QED
  BY <1>2, <1>4, Zenon DEF IsSearch

LEMMA SearchEquation ==
  ASSUME NEW kt, NEW target, NEW n \in Nat \ {0}, n = ktable_len(kt)
  PROVE  \E f : /\ ktable_compact_search(kt, target) = f[<<1, n>>]
                /\ \A i \in 1 .. n + 1, j \in 0 .. n :
                     f[<<i, j>>] = Found(f, kt, target, i, j)
<1>1. PICK f : IsSearch(f, kt, target, n) /\ ktable_compact_search(kt, target) = f[<<1, n>>]
  <2>1. \E f : IsSearch(f, kt, target, n)
    BY SearchExists
  <2>2. ktable_compact_search(kt, target) = (CHOOSE f : IsSearch(f, kt, target, n))[<<1, n>>]
    BY SearchChooses
  <2> QED
    BY <2>1, <2>2
<1>2. f = [r \in (1 .. n + 1) \X (0 .. n) |-> Found(f, kt, target, r[1], r[2])]
  BY <1>1, Zenon DEF IsSearch
<1>3. ASSUME NEW i \in 1 .. n + 1, NEW j \in 0 .. n
      PROVE  f[<<i, j>>] = Found(f, kt, target, i, j)
  <2>1. PICK r \in (1 .. n + 1) \X (0 .. n) : r = <<i, j>>
    OBVIOUS
  <2>2. r[1] = i /\ r[2] = j
    BY <2>1
  <2>3. f[r] = Found(f, kt, target, r[1], r[2])
    BY <1>2, Zenon
  <2> QED
    BY <2>1, <2>2, <2>3, Zenon
<1> QED
  BY <1>1, <1>3

(* What is found is there.                                                 *)
IsAt(v, kt, target) ==
  v > 0 => v \in Indices(kt) /\ ktable_element_name(kt, v) = target

LEMMA SearchIsRight ==
  ASSUME NEW kt, TableOK(kt), NEW target \in Strings
  PROVE  IsAt(ktable_compact_search(kt, target), kt, target)
<1>1. PICK n \in Nat : n = ktable_len(kt) /\ Indices(kt) = 1 .. n
  BY TableFields DEF TableOK, Indices
<1>2. CASE n = 0
  <2>1. ktable_compact_search(kt, target) = 0
    BY <1>1, <1>2 DEF ktable_compact_search
  <2>2. ~ (ktable_compact_search(kt, target) > 0)
    BY ONLY <2>1
  <2> QED
    BY <2>2 DEF IsAt
<1>3. CASE n # 0
  <2>1. n \in Nat \ {0}
    BY <1>3
  <2>2. PICK f : /\ ktable_compact_search(kt, target) = f[<<1, n>>]
                 /\ \A i \in 1 .. n + 1, j \in 0 .. n :
                      f[<<i, j>>] = Found(f, kt, target, i, j)
    BY <1>1, <2>1, SearchEquation
  <2> DEFINE P(k) == \A i \in 1 .. n + 1, j \in 0 .. n :
                       j - i < k => IsAt(f[<<i, j>>], kt, target)
             T == {k \in Nat : ~ P(k)}
  <2>3. T = {}
    <3>1. SUFFICES ASSUME T # {} PROVE FALSE
      OBVIOUS
    <3>2. PICK k \in T : \A y \in T : k <= y
      BY <3>1, LeastNumber
    <3>3. PICK i \in 1 .. n + 1, j \in 0 .. n : j - i < k /\ ~ IsAt(f[<<i, j>>], kt, target)
      BY <3>2
    <3>4. f[<<i, j>>] = Found(f, kt, target, i, j)
      BY <2>2
    <3>5. CASE j < i
      <4>1. f[<<i, j>>] = NoEnd
        BY <3>4, <3>5 DEF Found
      <4> QED
        BY <3>3, <4>1 DEF IsAt, NoEnd
    <3>6. CASE i <= j
      <4>1. PICK m \in Nat : m = Middle(i, j) /\ i <= m /\ m <= j
        <5>1. i \in Nat /\ j \in Nat
          OBVIOUS
        <5> QED
          BY <3>6, <5>1, MiddleIs
      <4>2. m = i + (j - i) \div 2
        BY <4>1 DEF Middle
      <4>3. PICK test : test = ktable_name_cmp(target, ktable_element_name(kt, m))
        OBVIOUS
      <4>4. f[<<i, j>>] = IF test = 0 THEN m ELSE IF i = j THEN 0
                          ELSE IF test < 0 THEN f[<<i, m - 1>>] ELSE f[<<m + 1, j>>]
        <5>1. ~ (j < i)
          BY <3>6
        <5> QED
          BY <3>4, <4>2, <4>3, <5>1 DEF Found
      <4>5. CASE test = 0
        <5>1. m \in Indices(kt)
          BY <1>1, <4>1
        <5>2. ktable_element_name(kt, m) \in Strings
          BY <5>1, NamesAre
        <5>3. ktable_element_name(kt, m) = target
          BY <4>3, <4>5, <5>2, CmpTells
        <5> QED
          BY <3>3, <4>4, <4>5, <5>1, <5>3 DEF IsAt
      <4>6. CASE test # 0 /\ i = j
        BY <3>3, <4>4, <4>6 DEF IsAt
      <4>7. CASE test # 0 /\ i # j
        <5>1. PICK y \in Nat : k = y + 1
          <6>1. k - 1 \in Nat /\ k = (k - 1) + 1
            BY <3>3, <3>6
          <6> QED
            BY ONLY <6>1
        <5>2. P(y)
          <6>1. ~ (k <= y)
            BY <5>1
          <6> HIDE DEF P
          <6> QED
            BY <3>2, <6>1
        <5>3. m - 1 \in 0 .. n /\ (m - 1) - i < y
          BY <3>3, <4>1, <5>1
        <5>4. m + 1 \in 1 .. n + 1 /\ j - (m + 1) < y
          BY <3>3, <4>1, <5>1
        <5>5. IsAt(f[<<i, m - 1>>], kt, target)
          BY <5>2, <5>3
        <5>6. IsAt(f[<<m + 1, j>>], kt, target)
          BY <5>2, <5>4
        <5> QED
          BY <3>3, <4>4, <4>7, <5>5, <5>6
      <4> QED
        BY <4>5, <4>6, <4>7
    <3> QED
      BY <3>5, <3>6
  <2>4. P(n)
    <3> HIDE DEF P
    <3> QED
      BY <2>3
  <2>5. 1 \in 1 .. n + 1 /\ n \in 0 .. n /\ n - 1 < n
    BY <2>1
  <2> QED
    BY <2>2, <2>4, <2>5
<1> QED
  BY <1>2, <1>3

(* In a table that is in order, what is there is found.                    *)
LEMMA SearchFinds ==
  ASSUME NEW kt, TableOK(kt), InOrder(kt), NEW at \in Indices(kt)
  PROVE  ktable_compact_search(kt, ktable_element_name(kt, at)) = at
<1>1. PICK n \in Nat : n = ktable_len(kt) /\ Indices(kt) = 1 .. n
  BY TableFields DEF TableOK, Indices
<1>2. n \in Nat \ {0} /\ at \in 1 .. n
  BY <1>1
<1>3. PICK target \in Strings : target = ktable_element_name(kt, at)
  BY NamesAre
<1>4. PICK f : /\ ktable_compact_search(kt, target) = f[<<1, n>>]
               /\ \A i \in 1 .. n + 1, j \in 0 .. n :
                    f[<<i, j>>] = Found(f, kt, target, i, j)
  BY <1>1, <1>2, SearchEquation
<1> DEFINE P(k) == \A i \in 1 .. n + 1, j \in 0 .. n :
                     j - i < k /\ i <= at /\ at <= j => f[<<i, j>>] = at
           T == {k \in Nat : ~ P(k)}
<1>5. T = {}
  <2>1. SUFFICES ASSUME T # {} PROVE FALSE
    OBVIOUS
  <2>2. PICK k \in T : \A y \in T : k <= y
    BY <2>1, LeastNumber
  <2>3. PICK i \in 1 .. n + 1, j \in 0 .. n :
          j - i < k /\ i <= at /\ at <= j /\ f[<<i, j>>] # at
    BY <2>2
  <2>4. i <= j
    BY <1>2, <2>3
  <2>5. PICK m \in Nat : m = Middle(i, j) /\ i <= m /\ m <= j
    <3>1. i \in Nat /\ j \in Nat
      OBVIOUS
    <3> QED
      BY <2>4, <3>1, MiddleIs
  <2>6. m = i + (j - i) \div 2
    BY <2>5 DEF Middle
  <2>7. m \in 1 .. n
    BY <2>5
  <2>8. PICK name \in Strings : name = ktable_element_name(kt, m)
    BY <1>1, <2>7, NamesAre
  <2>9. f[<<i, j>>] = Found(f, kt, target, i, j)
    BY <1>4
  <2>10. f[<<i, j>>]
           = LET test == ktable_name_cmp(target, name)
             IN  IF test = 0 THEN m ELSE IF i = j THEN 0
                 ELSE IF test < 0 THEN f[<<i, m - 1>>] ELSE f[<<m + 1, j>>]
    <3>1. ~ (j < i)
      BY <2>4
    <3> QED
      BY <2>6, <2>8, <2>9, <3>1 DEF Found
  <2>11. PICK y \in Nat : k = y + 1
    <3>1. k - 1 \in Nat /\ k = (k - 1) + 1
      BY <2>3, <2>4
    <3> QED
      BY ONLY <3>1
  <2>12. P(y)
    <3>1. ~ (k <= y)
      BY <2>11
    <3> HIDE DEF P
    <3> QED
      BY <2>2, <3>1
  <2>13. CASE m = at
    <3>1. ktable_name_cmp(target, name) = 0
      BY <1>3, <2>8, <2>13, CmpTells
    <3> QED
      BY <2>3, <2>10, <2>13, <3>1
  <2>14. CASE m < at
    <3>1. Less(name, target)
      BY <1>1, <1>2, <1>3, <2>7, <2>8, <2>14 DEF InOrder
    <3>2. ~ Less(target, name) /\ target # name
      BY <3>1, LessIrreflexive, LessTransitive
    <3>3. ktable_name_cmp(target, name) # 0 /\ ~ (ktable_name_cmp(target, name) < 0)
      BY <3>2, CmpTells
    <3>4. i # j
      BY <2>3, <2>5, <2>14, <1>2
    <3>5. f[<<i, j>>] = f[<<m + 1, j>>]
      BY <2>10, <3>3, <3>4
    <3>6. m + 1 \in 1 .. n + 1 /\ j - (m + 1) < y /\ m + 1 <= at /\ at <= j
      BY <1>2, <2>3, <2>5, <2>11, <2>14
    <3>7. f[<<m + 1, j>>] = at
      BY <2>12, <3>6
    <3> QED
      BY <2>3, <3>5, <3>7
  <2>15. CASE at < m
    <3>1. Less(target, name)
      BY <1>1, <1>2, <1>3, <2>7, <2>8, <2>15 DEF InOrder
    <3>2. ktable_name_cmp(target, name) # 0 /\ ktable_name_cmp(target, name) < 0
      <4>1. target # name
        BY <3>1, LessIrreflexive
      <4> QED
        BY <3>1, <4>1, CmpTells
    <3>4. i # j
      BY <2>3, <2>5, <2>15, <1>2
    <3>5. f[<<i, j>>] = f[<<i, m - 1>>]
      BY <2>10, <3>2, <3>4
    <3>6. m - 1 \in 0 .. n /\ (m - 1) - i < y /\ i <= at /\ at <= m - 1
      BY <1>2, <2>3, <2>5, <2>11, <2>15
    <3>7. f[<<i, m - 1>>] = at
      BY <2>12, <3>6
    <3> QED
      BY <2>3, <3>5, <3>7
  <2>16. m = at \/ m < at \/ at < m
    BY <1>2
  <2> QED
    BY <2>13, <2>14, <2>15, <2>16
<1>6. P(n)
  <2> HIDE DEF P
  <2> QED
    BY <1>5
<1>7. 1 \in 1 .. n + 1 /\ n \in 0 .. n /\ n - 1 < n /\ 1 <= at /\ at <= n
  BY <1>2
<1> QED
  BY <1>3, <1>4, <1>6, <1>7

(***************************************************************************)
(* Compiling: every node gets the index of its name in the compact table.  *)
(***************************************************************************)
Renames(mapping, kt, ckt) ==
  /\ mapping[0] = 0
  /\ \A key, name : Keyed(kt, key, name) => Keyed(ckt, mapping[key], name)

LEMMA MappingRenames ==
  ASSUME NEW p, TableOK(p.kt), NEW ckt, CompactOf(p.kt, ckt)
  PROVE  Renames(Mapping(p, ckt), p.kt, ckt)
<1>1. PICK l \in Nat : l = ktable_len(p.kt)
  BY TableFields DEF TableOK
<1>2. Indices(p.kt) = 1 .. l
  BY <1>1 DEF Indices
<1>3. PICK map : map = Mapping(p, ckt)
  OBVIOUS
<1>4. map = [i \in 0 .. l |-> IF i = 0 THEN 0
               ELSE ktable_compact_search(ckt, ktable_element_name(p.kt, i))]
  BY <1>1, <1>3 DEF Mapping
<1>5. map[0] = 0
  BY <1>4
<1>6. ASSUME NEW key, NEW name, Keyed(p.kt, key, name)
      PROVE  Keyed(ckt, map[key], name)
  <2>1. key \in 1 .. l /\ ktable_element_name(p.kt, key) = name
    BY <1>2, <1>6 DEF Keyed
  <2>2. key \in 0 .. l /\ key # 0
    BY <2>1
  <2>3. map[key] = ktable_compact_search(ckt, name)
    BY <1>4, <2>1, <2>2
  <2>4. PICK m \in Indices(ckt) : ktable_element_name(ckt, m) = name
    BY <1>2, <2>1 DEF CompactOf
  <2>5. ktable_compact_search(ckt, name) = m
    BY <2>4, SearchFinds DEF CompactOf
  <2> QED
    BY <2>3, <2>4, <2>5 DEF Keyed
<1> QED
  BY <1>3, <1>5, <1>6 DEF Renames

LEMMA KeyedIsNat ==
  ASSUME NEW kt, NEW key, NEW name, Keyed(kt, key, name)
  PROVE  key \in Nat
BY DEF Keyed, Indices

LEMMA RenamedNode ==
  ASSUME NEW kt, NEW ckt, NEW mapping, Renames(mapping, kt, ckt), NEW node \in Good(kt),
         node.kind \in Updated
  PROVE  [node EXCEPT !.key = mapping[@],
                      !.n = IF node.kind = "const" THEN mapping[@] ELSE @] \in Good(ckt)
<1>1. node \in Nodes /\ NodeOK(node, kt)
  BY DEF Good
<1>2. node.key \in Nat /\ node.n \in Nat
  BY <1>1 DEF Nodes
<1>3. PICK key : key = mapping[node.key]
  OBVIOUS
<1>4. PICK n : n = IF node.kind = "const" THEN mapping[node.n] ELSE node.n
  OBVIOUS
<1>5. /\ node.kind \in {"capture", "const", "backref"} => Keyed(ckt, key, node.name)
      /\ node.kind = "const" => Keyed(ckt, n, node.value)
      /\ node.kind = "rule" /\ node.key > 0 => Keyed(ckt, key, node.name)
      /\ node.kind = "rule" /\ ~ (node.key > 0) => key = 0
  <2>1. ~ (node.key > 0) => node.key = 0
    BY <1>2
  <2> QED
    BY <1>1, <1>3, <1>4, <2>1 DEF NodeOK, Renames
<1>6. key \in Nat /\ n \in Nat
  <2>1. node.kind \in {"capture", "const", "backref"} \/ node.kind = "rule"
    BY DEF Updated
  <2>2. 0 \in Nat
    OBVIOUS
  <2> QED
    BY <1>2, <1>4, <1>5, <2>1, <2>2, KeyedIsNat
<1> DEFINE new == [node EXCEPT !.key = mapping[@],
                               !.n = IF node.kind = "const" THEN mapping[@] ELSE @]
<1>7. new = [node EXCEPT !.key = key, !.n = n]
  BY <1>3, <1>4
<1>8. /\ new \in Nodes /\ new.kind = node.kind /\ new.name = node.name
      /\ new.value = node.value /\ new.key = key /\ new.n = n
  BY <1>1, <1>6, <1>7 DEF Nodes
<1> HIDE DEF new
<1>9. node.kind # "opencall" /\ (0 > 0) = FALSE
  BY DEF Updated
<1>10. NodeOK(new, ckt)
  BY <1>5, <1>8, <1>9 DEF NodeOK
<1> QED
  BY <1>8, <1>10 DEF Good, new

LEMMA UpdatedNodes ==
  ASSUME NEW kt, NEW ckt, NEW mapping, Renames(mapping, kt, ckt),
         NEW nodes \in Seq(Good(kt)), OpenCalls(nodes) = {}
  PROVE  update_capture_keys(nodes, mapping) \in Seq(Good(ckt))
<1>1. PICK m \in Nat : m = Len(nodes) /\ DOMAIN nodes = 1 .. m
  OBVIOUS
<1> DEFINE New(node) == IF node.kind \in Updated
                        THEN [node EXCEPT !.key = mapping[@],
                                !.n = IF node.kind = "const" THEN mapping[@] ELSE @]
                        ELSE node
<1>2. ASSUME NEW i \in 1 .. m PROVE New(nodes[i]) \in Good(ckt)
  <2>1. PICK node \in Good(kt) : node = nodes[i]
    BY <1>1
  <2>2. node.kind # "opencall"
    BY <1>1, <2>1 DEF OpenCalls
  <2>3. CASE node.kind \in Updated
    BY <2>1, <2>3, RenamedNode
  <2>4. CASE node.kind \notin Updated
    <3>1. node \in Nodes /\ node.kind = "call"
      BY <2>2, <2>4 DEF Good, Nodes, Kinds, Updated
    <3>2. NodeOK(node, ckt)
      BY <3>1 DEF NodeOK
    <3> QED
      BY <2>1, <2>4, <3>1, <3>2 DEF Good
  <2> QED
    BY <2>3, <2>4
<1>3. update_capture_keys(nodes, mapping) = [i \in 1 .. m |-> New(nodes[i])]
  BY <1>1 DEF update_capture_keys
<1> HIDE DEF New
<1>4. [i \in 1 .. m |-> New(nodes[i])] \in Seq(Good(ckt))
  BY <1>2
<1> QED
  BY <1>3, <1>4

(* What code is generated from nodes that are right.                       *)
Refs(kt) == {ref \in [key : Nat, name : Strings] : Keyed(kt, ref.key, ref.name)}

LEMMA RefIs ==
  ASSUME NEW kt, NEW key \in Nat, NEW name \in Strings, Keyed(kt, key, name)
  PROVE  [key |-> key, name |-> name] \in Refs(kt)
BY DEF Refs

LEMMA RefsAre ==
  ASSUME NEW kt, NEW node \in Good(kt)
  PROVE  RefsOf(node) \in Seq(Refs(kt)) /\ Coded(node) \in Seq(Refs(kt))
<1>1. node \in Nodes /\ NodeOK(node, kt)
  BY DEF Good
<1>2. node.key \in Nat /\ node.n \in Nat /\ node.name \in Strings /\ node.value \in Strings
  BY <1>1 DEF Nodes
<1>3. PICK a, b : a = [key |-> node.key, name |-> node.name]
                    /\ b = [key |-> node.n, name |-> node.value]
  OBVIOUS
<1>4. PICK S : S = Refs(kt)
  OBVIOUS
<1>5. CASE node.kind \in {"capture", "backref", "opencall"}
  <2>1. a \in S
    BY <1>1, <1>2, <1>3, <1>4, <1>5, RefIs DEF NodeOK
  <2>2. <<a>> \in Seq(S)
    BY ONLY <2>1
  <2>3. RefsOf(node) = <<a>>
    BY <1>3, <1>5 DEF RefsOf
  <2> QED
    BY <1>4, <2>2, <2>3 DEF Coded
<1>6. CASE node.kind = "const"
  <2>1. a \in S /\ b \in S
    BY <1>1, <1>2, <1>3, <1>4, <1>6, RefIs DEF NodeOK
  <2>2. <<a, b>> \in Seq(S)
    BY ONLY <2>1
  <2>3. RefsOf(node) = <<a, b>>
    BY <1>3, <1>6 DEF RefsOf
  <2> QED
    BY <1>4, <2>2, <2>3 DEF Coded
<1>7. CASE node.kind = "rule"
  <2>1. CASE node.key > 0
    <3>1. a \in S
      BY <1>1, <1>2, <1>3, <1>4, <1>7, <2>1, RefIs DEF NodeOK
    <3>2. <<a>> \in Seq(S)
      BY ONLY <3>1
    <3>3. RefsOf(node) = <<a>> /\ Coded(node) = <<>>
      BY <1>3, <1>7, <2>1 DEF RefsOf, Coded
    <3> QED
      BY <1>4, <3>2, <3>3
  <2>2. CASE ~ (node.key > 0)
    BY <1>7, <2>2 DEF RefsOf, Coded
  <2> QED
    BY <2>1, <2>2
<1>8. CASE node.kind = "call"
  BY <1>8 DEF RefsOf, Coded
<1> QED
  BY <1>1, <1>5, <1>6, <1>7, <1>8 DEF Nodes, Kinds

(***************************************************************************)
(* The 24 bits of an index in code: no two indices up to KTABLE_MAX_SIZE   *)
(* and one more have the same, and up to the limit they are the index.     *)
(***************************************************************************)
LEMMA ModSmall ==
  ASSUME NEW m \in Nat \ {0}, NEW k \in Nat, k < m
  PROVE  k % m = k
<1>1. k \div m \in Nat /\ k % m \in 0 .. m - 1 /\ k = m * (k \div m) + (k % m)
  BY Quotients
<1>2. PICK q \in Nat, r \in 0 .. m - 1 : q = k \div m /\ r = k % m /\ k = m * q + r
  BY <1>1
<1>3. \A x, y \in Nat : x * y \in Nat /\ x * (y + 1) = x * y + x
  OBVIOUS
<1>4. q = 0
  <2>1. SUFFICES ASSUME q # 0 PROVE FALSE
    OBVIOUS
  <2>2. PICK h \in Nat : q = h + 1
    <3>1. q - 1 \in Nat /\ q = (q - 1) + 1
      BY <2>1
    <3> QED
      BY ONLY <3>1
  <2>3. m * q = m * h + m /\ m * h \in Nat
    BY <1>3, <2>2
  <2> QED
    BY ONLY <2>3, <1>2, k < m, k \in Nat, m \in Nat, r \in 0 .. m - 1
<1>5. m * 0 = 0
  OBVIOUS
<1> QED
  BY <1>2, <1>4, <1>5

LEMMA ModSelf ==
  ASSUME NEW m \in Nat \ {0}
  PROVE  m % m = 0
<1>1. PICK q \in Nat, r \in 0 .. m - 1 : r = m % m /\ m = m * q + r
  BY Quotients
<1>3. \A x, y \in Nat : x * y \in Nat /\ x * (y + 1) = x * y + x
  OBVIOUS
<1>4. CASE q = 0
  BY <1>1, <1>4
<1>5. CASE q # 0
  <2>2. PICK h \in Nat : q = h + 1
    <3>1. q - 1 \in Nat /\ q = (q - 1) + 1
      BY <1>5
    <3> QED
      BY ONLY <3>1
  <2>3. m * q = m * h + m /\ m * h \in Nat
    BY <1>3, <2>2
  <2> QED
    BY ONLY <2>3, <1>1, m \in Nat, r \in 0 .. m - 1
<1> QED
  BY <1>4, <1>5

LEMMA IndexInCode ==
  ASSUME NEW l \in Nat, l <= KTABLE_MAX_SIZE + 1, NEW a \in 1 .. l, NEW b \in 1 .. l
  PROVE  /\ a % (KTABLE_MAX_SIZE + 1) = b % (KTABLE_MAX_SIZE + 1) <=> a = b
         /\ l <= KTABLE_MAX_SIZE => a % (KTABLE_MAX_SIZE + 1) = a
<1>1. PICK m \in Nat \ {0} : m = KTABLE_MAX_SIZE + 1 /\ l <= m
  BY LimitIs
<1>2. \A k \in 1 .. l : k < m => k % m = k
  BY ModSmall
<1>3. m % m = 0
  BY ModSelf
<1>4. a \in Nat /\ b \in Nat /\ 0 < a /\ 0 < b /\ a <= m /\ b <= m
  BY <1>1
<1>5. PICK x, y : x = a % m /\ y = b % m
  OBVIOUS
<1>6. x = (IF a < m THEN a ELSE 0) /\ y = (IF b < m THEN b ELSE 0)
  <2>1. a < m \/ a = m
    BY <1>4
  <2>2. b < m \/ b = m
    BY <1>4
  <2>3. ~ (m < m)
    BY <1>1
  <2> QED
    BY <1>2, <1>3, <1>5, <2>1, <2>2, <2>3
<1>7. x = y <=> a = b
  BY ONLY <1>4, <1>6, m \in Nat
<1>8. l <= KTABLE_MAX_SIZE => x = a
  <2>1. KTABLE_MAX_SIZE \in Nat
    BY LimitIs
  <2>2. l <= KTABLE_MAX_SIZE => a < m
    BY ONLY <1>1, <2>1, l \in Nat, a \in 1 .. l
  <2> QED
    BY <1>6, <2>2
<1> QED
  BY <1>1, <1>5, <1>7, <1>8

LEMMA AuxIs ==
  ASSUME NEW kt, NEW ref \in Refs(kt)
  PROVE  CodedOK(Aux(ref), kt)
<1>1. ref \in [key : Nat, name : Strings] /\ Keyed(kt, ref.key, ref.name)
  BY DEF Refs
<1>2. Aux(ref).name = ref.name /\ Aux(ref).key = ref.key % (KTABLE_MAX_SIZE + 1)
  BY <1>1 DEF Aux
<1> QED
  BY <1>1, <1>2 DEF CodedOK, Keyed

LEMMA AllRefs ==
  ASSUME NEW kt, NEW nodes \in Seq(Good(kt))
  PROVE  /\ FlattenSeq([c \in DOMAIN nodes |-> Coded(nodes[c])]) \in Seq(Refs(kt))
         /\ FlattenSeq([c \in DOMAIN nodes |-> RefsOf(nodes[c])]) \in Seq(Refs(kt))
<1>1. PICK m \in Nat : m = Len(nodes) /\ DOMAIN nodes = 1 .. m
  OBVIOUS
<1>2. PICK S : S = Refs(kt)
  OBVIOUS
<1>3. \A c \in 1 .. m : Coded(nodes[c]) \in Seq(S) /\ RefsOf(nodes[c]) \in Seq(S)
  <2>1. \A c \in 1 .. m : nodes[c] \in Good(kt)
    BY <1>1
  <2> QED
    BY <1>2, <2>1, RefsAre
<1>4. [c \in 1 .. m |-> Coded(nodes[c])] \in Seq(Seq(S))
        /\ [c \in 1 .. m |-> RefsOf(nodes[c])] \in Seq(Seq(S))
  BY <1>3
<1> QED
  BY <1>1, <1>2, <1>4, FlattenInto

LEMMA CodeIs ==
  ASSUME NEW kt, NEW nodes \in Seq(Good(kt))
  PROVE  \A i \in DOMAIN codegen(nodes) : CodedOK(codegen(nodes)[i], kt)
<1>1. PICK refs : /\ refs = FlattenSeq([c \in DOMAIN nodes |-> Coded(nodes[c])])
                  /\ refs \in Seq(Refs(kt))
  BY AllRefs
<1>2. codegen(nodes) = [i \in DOMAIN refs |-> Aux(refs[i])]
  BY <1>1 DEF codegen
<1>3. \A i \in DOMAIN refs : refs[i] \in Refs(kt)
  BY <1>1
<1> QED
  BY <1>2, <1>3, AuxIs

LEMMA CompiledKept ==
  ASSUME NEW p, PatOK(p), OpenCalls(p.nodes) = {}
  PROVE  PatOK(compile(p))
<1>1. PICK ckt : ckt = Compact(p, TRUE) /\ CompactOf(p.kt, ckt)
  BY CompactSound, Zenon DEF Compact, PatOK
<1>2. PICK mapping : mapping = Mapping(p, ckt) /\ Renames(mapping, p.kt, ckt)
  BY <1>1, MappingRenames DEF PatOK
<1>3. PICK nodes : nodes = update_capture_keys(p.nodes, mapping) /\ nodes \in Seq(Good(ckt))
  BY <1>2, UpdatedNodes DEF PatOK
<1>4. PICK code : code = codegen(nodes) /\ \A i \in DOMAIN code : CodedOK(code[i], ckt)
  BY <1>3, CodeIs
<1>5. compile(p) = [nodes |-> nodes, kt |-> ckt, compiled |-> TRUE, code |-> code]
  BY <1>1, <1>2, <1>3, <1>4, Zenon DEF compile
<1>6. compile(p).nodes = nodes /\ compile(p).kt = ckt /\ compile(p).code = code
  BY <1>5
<1>7. TableOK(ckt) /\ InOrder(ckt)
  BY <1>1 DEF CompactOf
<1>8. ktable_len(ckt) <= KTABLE_MAX_SIZE + 1
  <2>1. PICK l \in Nat, m \in Nat : l = ktable_len(p.kt) /\ m = ktable_len(ckt)
    BY <1>7, TableFields DEF PatOK, TableOK
  <2>2. m <= l /\ l <= KTABLE_MAX_SIZE + 1
    BY <1>1, <2>1 DEF CompactOf, PatOK
  <2> QED
    BY <2>1, <2>2, LimitIs
<1> QED
  BY <1>3, <1>4, <1>6, <1>7, <1>8, Zenon DEF PatOK

(***************************************************************************)
(* The invariant, and the program: every operation leaves a pattern that   *)
(* is kept, whose table is sound unless memory ran out.                    *)
(***************************************************************************)
Inv ==
  /\ DOMAIN pats = Slots
  /\ \A s \in Held : Kept(pats[s])

LEMMA LostKept == Kept(Lost)
BY DEF Lost, Pattern, Kept

LEMMA AllLost == ASSUME pats' = [s \in Slots |-> Lost] PROVE Inv'
<1>1. \A s \in Slots : pats'[s] = Lost
  OBVIOUS
<1> QED
  BY <1>1, LostKept DEF Inv, Held

LEMMA OnePut ==
  ASSUME Inv, NEW s \in Slots, NEW p, Kept(p), pats' = [pats EXCEPT ![s] = p]
  PROVE  Inv'
<1>1. DOMAIN pats' = Slots /\ \A r \in Slots : pats'[r] = IF r = s THEN p ELSE pats[r]
  BY DEF Inv
<1>2. ASSUME NEW r \in Held' PROVE Kept(pats'[r])
  <2>1. r \in Slots /\ pats'[r] # None
    BY <1>2 DEF Held
  <2> QED
    BY <1>1, <2>1 DEF Inv, Held
<1> QED
  BY <1>1, <1>2 DEF Inv

LEMMA PutKeeps ==
  ASSUME Inv, NEW p, Kept(p), Put(p)
  PROVE  Inv'
<1>1. CASE p.kt = Overrun
  <2>1. pats' = [s \in Slots |-> Lost]
    BY <1>1, Zenon DEF Put
  <2> QED
    BY <2>1, AllLost
<1>2. CASE p.kt # Overrun
  <2>1. PICK s \in Slots : pats' = [pats EXCEPT ![s] = p]
    BY <1>2, Zenon DEF Put
  <2> QED
    BY <2>1, OnePut
<1> QED
  BY <1>1, <1>2

LEMMA SoundHeld ==
  ASSUME Inv, ~ Damaged, NEW s \in Held
  PROVE  PatOK(pats[s])
BY DEF Inv, Damaged, Kept

LEMMA NamesTyped ==
  /\ CapNames \subseteq Strings /\ Values \subseteq Strings
  /\ RuleNames[1] \in Strings /\ RuleNames[2] \in Strings
<1>1. RuleNames \in Seq(Strings) /\ Len(RuleNames) >= 2
  BY NamesAssumption DEF Strings
<1>2. 1 \in DOMAIN RuleNames /\ 2 \in DOMAIN RuleNames
  BY <1>1
<1> QED
  BY <1>1, <1>2, NamesAssumption DEF Strings

LEMMA GrammarKept ==
  ASSUME Inv, ~ Damaged, NEW rules \in Rules, buildgrammar_ok(rules),
         NEW g, g = buildgrammar(rules), g.kt # Overrun
  PROVE  Kept(newgrammar(g, rules, rules[1].grows))
<1>1. ASSUME NEW s \in Held, NEW b \in BOOLEAN, NEW i \in {1, 2}
      PROVE  RuleOK(Rule(i, pats[s], b))
  <2>1. PatOK(pats[s])
    BY SoundHeld
  <2>2. PICK p : p = pats[s]
    OBVIOUS
  <2>3. RuleNames[i] \in Strings
    BY NamesTyped
  <2> QED
    BY <2>1, <2>2, <2>3 DEF RuleOK, Rule
<1>2. CASE \E s \in Held, b \in BOOLEAN : rules = <<Rule(1, pats[s], b)>>
  <2>1. PICK r : RuleOK(r) /\ rules = <<r>>
    BY <1>1, <1>2
  <2>2. rules[1] = r
    BY <2>1
  <2> QED
    BY <2>1, <2>2, OneRuleKept
<1>3. CASE \E s \in Held, r \in Held, b \in BOOLEAN :
             rules = <<Rule(1, pats[s], b), Rule(2, pats[r], b)>>
  <2>1. PICK r, q : RuleOK(r) /\ RuleOK(q) /\ rules = <<r, q>>
    BY <1>1, <1>3
  <2>2. rules[1] = r
    BY <2>1
  <2> QED
    BY <2>1, <2>2, TwoRulesKept
<1> QED
  BY <1>2, <1>3 DEF Rules

LEMMA Inv0 == Init => Inv
<1>1. SUFFICES ASSUME Init PROVE Inv
  OBVIOUS
<1>2. pats = [s \in Slots |-> None]
  BY <1>1 DEF Init
<1>3. \A s \in Slots : pats[s] = None
  BY <1>2
<1> QED
  BY <1>2, <1>3 DEF Inv, Held

LEMMA NextKeeps ==
  ASSUME Inv, Next
  PROVE  Inv'
<1>1. ~ Damaged
  BY DEF Next
<1>2. CASE NewLeaf
  BY <1>2, LeafKept, PutKeeps DEF NewLeaf
<1>3. CASE Variable
  <2>1. PICK name \in Strings, grows \in BOOLEAN : Put(lp_V(name, grows))
    BY <1>3, NamesTyped DEF Variable
  <2> QED
    BY <2>1, VariableKept, PutKeeps
<1>4. CASE Backref
  <2>1. PICK s \in Held, name \in Strings, grows \in BOOLEAN :
          copyktable_ok(pats[s].kt) /\ Put(r_backref(pats[s], name, grows))
    BY <1>4, NamesTyped DEF Backref
  <2>2. PatOK(pats[s])
    BY <1>1, SoundHeld
  <2> QED
    BY <2>1, <2>2, BackrefKept, PutKeeps
<1>5. CASE ConstCapture
  <2>1. PICK value \in Strings, name \in Strings, grows \in BOOLEAN :
          Put(r_constcapture(value, name, grows))
    BY <1>5, NamesTyped DEF ConstCapture
  <2> QED
    BY <2>1, ConstKept, PutKeeps
<1>6. CASE NamedCapture
  <2>1. PICK s \in Held, name \in Strings, grows \in BOOLEAN :
          r_capture_ok(pats[s]) /\ Put(r_capture(pats[s], name, grows))
    BY <1>6, NamesTyped DEF NamedCapture
  <2>2. PatOK(pats[s])
    BY <1>1, SoundHeld
  <2> QED
    BY <2>1, <2>2, CaptureKept, PutKeeps
<1>7. CASE Predicate
  <2>1. PICK s \in Held, grows \in BOOLEAN : Put(newroot1sib(pats[s], grows))
    BY <1>7 DEF Predicate
  <2>2. PatOK(pats[s])
    BY <1>1, SoundHeld
  <2> QED
    BY <2>1, <2>2, PredicateKept, PutKeeps
<1>8. CASE Star
  <2>1. PICK s \in Held, n \in Nat, grows \in BOOLEAN : Put(lp_star(pats[s], n, grows))
    BY <1>8, NamesAssumption DEF Star
  <2>2. PatOK(pats[s])
    BY <1>1, SoundHeld
  <2> QED
    BY <2>1, <2>2, StarKept, PutKeeps
<1>9. CASE Two
  <2>1. PICK s \in Held, r \in Held, grows \in BOOLEAN :
          /\ joinktables_ok(pats[s], pats[r], s = r)
          /\ \/ Put(newroot2sib(pats[s], pats[r], s = r, grows))
             \/ Put(lp_sub(pats[s], pats[r], s = r, grows))
    BY <1>9 DEF Two
  <2>2. PatOK(pats[s]) /\ PatOK(pats[r])
    BY <1>1, SoundHeld
  <2>3. PICK same \in BOOLEAN : same = (s = r)
    OBVIOUS
  <2>4. PICK p, q : p = pats[s] /\ q = pats[r] /\ (same => p = q)
    BY <2>3
  <2>5. Kept(newroot2sib(p, q, same, grows)) /\ Kept(lp_sub(p, q, same, grows))
    BY <2>1, <2>2, <2>3, <2>4, TwoKept
  <2> QED
    BY <2>1, <2>3, <2>4, <2>5, PutKeeps
<1>10. CASE Grammar
  <2>1. PICK rules \in Rules :
          /\ buildgrammar_ok(rules)
          /\ LET g == buildgrammar(rules)
             IN  Put(IF g.kt = Overrun THEN Lost
                     ELSE newgrammar(g, rules, rules[1].grows))
    BY <1>10 DEF Grammar
  <2>2. PICK g : g = buildgrammar(rules)
    OBVIOUS
  <2>3. PICK p : p = IF g.kt = Overrun THEN Lost ELSE newgrammar(g, rules, rules[1].grows)
    OBVIOUS
  <2>4. Kept(p)
    BY <1>1, <2>1, <2>2, <2>3, GrammarKept, LostKept
  <2>5. Put(p)
    BY <2>1, <2>2, <2>3
  <2> QED
    BY <2>4, <2>5, PutKeeps
<1>11. CASE Compile
  <2>1. PICK s \in Held :
          /\ OpenCalls(pats[s].nodes) = {}
          /\ \/ pats' = [r \in Slots |-> Lost]
             \/ pats' = [pats EXCEPT ![s] = compile(@)]
    BY <1>11, Zenon DEF Compile
  <2>2. PatOK(pats[s]) /\ s \in Slots
    BY <1>1, SoundHeld DEF Held
  <2>3. Kept(compile(pats[s]))
    BY <2>1, <2>2, CompiledKept DEF Kept
  <2>4. CASE pats' = [pats EXCEPT ![s] = compile(@)]
    <3>1. pats' = [pats EXCEPT ![s] = compile(pats[s])]
      BY <2>4, Zenon
    <3> QED
      BY <2>2, <2>3, <3>1, OnePut
  <2>5. CASE pats' = [r \in Slots |-> Lost]
    BY <2>5, AllLost
  <2> QED
    BY <2>1, <2>4, <2>5
<1> QED
  BY <1>2, <1>3, <1>4, <1>5, <1>6, <1>7, <1>8, <1>9, <1>10, <1>11 DEF Next

LEMMA InvKept == Inv /\ [Next]_vars => Inv'
<1>1. SUFFICES ASSUME Inv, [Next]_vars PROVE Inv'
  OBVIOUS
<1>2. CASE Next
  BY <1>1, <1>2, NextKeeps
<1>3. CASE UNCHANGED vars
  BY <1>1, <1>3 DEF vars, Inv, Held
<1> QED
  BY <1>1, <1>2, <1>3

(***************************************************************************)
(* What follows from it.                                                   *)
(***************************************************************************)
LEMMA SoundKept ==
  ASSUME Inv, NEW s \in Sound
  PROVE  PatOK(pats[s])
BY DEF Inv, Sound, Kept

LEMMA InvFits == Inv => TablesFit
<1>1. SUFFICES ASSUME Inv, NEW s \in Sound
               PROVE  LET kt == pats[s].kt
                      IN  /\ ktable_len(kt) < kt.size /\ Len(kt.block) <= kt.blocksize
                          /\ \A i \in Indices(kt) :
                               kt.elements[i].start + kt.elements[i].len <= Len(kt.block)
                          /\ ktable_len(kt) <= KTABLE_MAX_SIZE + 1
  BY DEF TablesFit
<1>2. PICK p : p = pats[s] /\ PatOK(p)
  BY <1>1, SoundKept
<1> QED
  BY <1>2, Zenon DEF PatOK, TableOK, Lies

LEMMA KeyInCode ==
  ASSUME NEW p, PatOK(p), NEW i \in DOMAIN p.code, NEW j \in DOMAIN p.code
  PROVE  \E a, b \in Indices(p.kt) :
           /\ ktable_element_name(p.kt, a) = p.code[i].name
           /\ ktable_element_name(p.kt, b) = p.code[j].name
           /\ p.code[i].key = p.code[j].key <=> a = b
           /\ ktable_len(p.kt) <= KTABLE_MAX_SIZE => p.code[i].key = a
<1>1. PICK l \in Nat : l = ktable_len(p.kt) /\ l <= KTABLE_MAX_SIZE + 1
  BY TableFields DEF PatOK, TableOK
<1>2. Indices(p.kt) = 1 .. l
  BY <1>1 DEF Indices
<1>3. CodedOK(p.code[i], p.kt) /\ CodedOK(p.code[j], p.kt)
  BY DEF PatOK
<1>4. PICK a \in 1 .. l : /\ ktable_element_name(p.kt, a) = p.code[i].name
                          /\ p.code[i].key = a % (KTABLE_MAX_SIZE + 1)
  BY <1>2, <1>3, Zenon DEF CodedOK
<1>5. PICK b \in 1 .. l : /\ ktable_element_name(p.kt, b) = p.code[j].name
                          /\ p.code[j].key = b % (KTABLE_MAX_SIZE + 1)
  BY <1>2, <1>3, Zenon DEF CodedOK
<1>6. /\ a % (KTABLE_MAX_SIZE + 1) = b % (KTABLE_MAX_SIZE + 1) <=> a = b
      /\ l <= KTABLE_MAX_SIZE => a % (KTABLE_MAX_SIZE + 1) = a
  BY <1>1, IndexInCode
<1> QED
  BY <1>1, <1>2, <1>4, <1>5, <1>6

LEMMA InvNames == Inv => NamesKept
<1>1. SUFFICES ASSUME Inv, NEW s \in Sound
               PROVE  LET kt == pats[s].kt  refs == TreeRefs(pats[s])  code == pats[s].code
                      IN  /\ \A i \in DOMAIN refs : Names1(refs[i], kt)
                          /\ ktable_len(kt) <= KTABLE_MAX_SIZE =>
                               \A i \in DOMAIN code : Names1(code[i], kt)
  BY DEF NamesKept
<1>2. PICK p : p = pats[s] /\ PatOK(p)
  BY <1>1, SoundKept
<1>3. PICK refs : refs = TreeRefs(p) /\ refs \in Seq(Refs(p.kt))
  BY <1>2, AllRefs DEF PatOK, TreeRefs
<1>4. ASSUME NEW i \in DOMAIN refs PROVE Names1(refs[i], p.kt)
  <2>1. refs[i] \in Refs(p.kt)
    BY <1>3
  <2> QED
    BY <2>1 DEF Refs, Keyed, Names1
<1>5. ASSUME ktable_len(p.kt) <= KTABLE_MAX_SIZE, NEW i \in DOMAIN p.code
      PROVE  Names1(p.code[i], p.kt)
  BY <1>2, <1>5, KeyInCode DEF Names1
<1> QED
  BY <1>2, <1>3, <1>4, <1>5

CanonicalTable(kt, code, compiled) ==
  /\ \A i \in Indices(kt) :
       ktable_compact_search(ktable_compact(kt, TRUE), ktable_element_name(kt, i)) > 0
  /\ compiled =>
       /\ \A i, j \in Indices(kt) : i < j =>
            ktable_name_cmp(ktable_element_name(kt, i), ktable_element_name(kt, j)) = -1
       /\ \A i \in Indices(kt) :
            ktable_compact_search(kt, ktable_element_name(kt, i)) = i
       /\ \A i, j \in DOMAIN code :
            (code[i].key = code[j].key) <=> (code[i].name = code[j].name)

LEMMA PatCanonical ==
  ASSUME NEW p, PatOK(p)
  PROVE  CanonicalTable(p.kt, p.code, p.compiled)
<1>1. PICK kt, code, compiled : kt = p.kt /\ code = p.code /\ compiled = p.compiled
  OBVIOUS
<1>2. TableOK(kt) /\ (compiled => InOrder(kt))
  BY <1>1 DEF PatOK
<1>3. PICK ckt : ckt = ktable_compact(kt, TRUE) /\ CompactOf(kt, ckt)
  BY <1>2, CompactSound, Zenon
<1>4. ASSUME NEW i \in Indices(kt)
      PROVE  ktable_compact_search(ckt, ktable_element_name(kt, i)) > 0
  <2>1. PICK m \in Indices(ckt) : ktable_element_name(ckt, m) = ktable_element_name(kt, i)
    BY <1>3 DEF CompactOf
  <2>2. ktable_compact_search(ckt, ktable_element_name(kt, i)) = m
    BY <1>3, <2>1, SearchFinds DEF CompactOf
  <2>3. m > 0
    BY DEF Indices
  <2> QED
    BY <2>2, <2>3
<1>5. ASSUME compiled, NEW i \in Indices(kt), NEW j \in Indices(kt), i < j
      PROVE  ktable_name_cmp(ktable_element_name(kt, i), ktable_element_name(kt, j)) = -1
  <2>1. ktable_element_name(kt, i) \in Strings /\ ktable_element_name(kt, j) \in Strings
    BY <1>2, NamesAre
  <2>2. Less(ktable_element_name(kt, i), ktable_element_name(kt, j))
    BY <1>2, <1>5 DEF InOrder
  <2> QED
    BY <2>1, <2>2, CmpTells
<1>6. ASSUME compiled, NEW i \in Indices(kt)
      PROVE  ktable_compact_search(kt, ktable_element_name(kt, i)) = i
  BY <1>2, <1>6, SearchFinds
<1>7. ASSUME compiled, NEW i \in DOMAIN code, NEW j \in DOMAIN code
      PROVE  (code[i].key = code[j].key) <=> (code[i].name = code[j].name)
  <2>1. PICK a \in Indices(kt), b \in Indices(kt) :
          /\ ktable_element_name(kt, a) = code[i].name
          /\ ktable_element_name(kt, b) = code[j].name
          /\ code[i].key = code[j].key <=> a = b
    BY <1>1, KeyInCode
  <2>2. code[i].name = code[j].name => a = b
    <3>1. /\ ktable_compact_search(kt, ktable_element_name(kt, a)) = a
          /\ ktable_compact_search(kt, ktable_element_name(kt, b)) = b
      BY <1>6, <1>7
    <3> QED
      BY <2>1, <3>1
  <2> QED
    BY <2>1, <2>2
<1>8. \A i \in Indices(kt) :
         ktable_compact_search(ktable_compact(kt, TRUE), ktable_element_name(kt, i)) > 0
  BY <1>3, <1>4
<1>9. CanonicalTable(kt, code, compiled)
  BY <1>5, <1>6, <1>7, <1>8 DEF CanonicalTable
<1> QED
  BY <1>1, <1>9

LEMMA InvCanonical == Inv => Canonical
<1>1. SUFFICES ASSUME Inv, NEW s \in Sound
               PROVE  CanonicalTable(pats[s].kt, pats[s].code, pats[s].compiled)
  BY Zenon DEF Canonical, CanonicalTable
<1> QED
  BY <1>1, SoundKept, PatCanonical

(* Nothing is ever written outside a name table, however many strings it   *)
(* is given and however long they are, as long as its memory grows when it *)
(* has to (ktable_add and what calls it).                                  *)
THEOREM TablesFitCorrect == Spec => []TablesFit
<1>1. Inv => TablesFit
  BY InvFits
<1> QED
  BY Inv0, InvKept, <1>1, PTL DEF Spec

(* Every index in every tree and in all code stands for the name that it   *)
(* was created for, whatever patterns are built from one another, copied,  *)
(* renumbered (correctkeys), made grammars and compiled.                   *)
THEOREM NamesKeptCorrect == Spec => []NamesKept
<1>1. Inv => NamesKept
  BY InvNames
<1> QED
  BY Inv0, InvKept, <1>1, PTL DEF Spec

(* Compiling finds every name of every table again, and two captures in    *)
(* compiled code have the same index if and only if they have the same     *)
(* name (ktable_compact, ktable_compact_search, update_capture_keys).      *)
THEOREM CanonicalCorrect == Spec => []Canonical
<1>1. Inv => Canonical
  BY InvCanonical
<1> QED
  BY Inv0, InvKept, <1>1, PTL DEF Spec
=============================================================================

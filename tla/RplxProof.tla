----------------------------- MODULE RplxProof ------------------------------
(***************************************************************************)
(* A file of a compiled pattern is read as it was written, whatever the    *)
(* pattern and wherever the file ends, proved for RplxFile.                *)
(***************************************************************************)
EXTENDS RplxFile, ByteCodecProof, TLAPS

(***************************************************************************)
(* What is written, and where each item begins: Start(c, k) bytes precede  *)
(* the item k + 1.                                                         *)
(***************************************************************************)
Items == 11
MagicLen    == Len(MAGIC)
TableLen(c) == 12 * (ktable_len(c.kt) + 1)
BlockLen(c) == Len(c.kt.block)
CodeLen(c)  == 4 * Len(c.code)
Start(c, k) ==
  LET m == MagicLen
      e == m + 9 + TableLen(c)
      z == e + 1 + BlockLen(c)
      n == z + 5 + CodeLen(c)
  IN  <<0, m, m + 4, m + 8, m + 9, e, e + 1, z, z + 1, z + 5, n, n + 1>>[k + 1]

LEMMA ChunkTyped ==
  ASSUME NEW c \in Chunks
  PROVE  /\ c.kt.elements \in Seq([start : Ints, len : Ints])
         /\ c.kt.block \in Seq(Bytes) /\ c.code \in Seq(Ints)
         /\ ktable_len(c.kt) = Len(c.kt.elements)
         /\ ktable_len(c.kt) \in Nat /\ ktable_len(c.kt) \in Ints
         /\ Len(c.kt.block) \in Nat /\ Len(c.kt.block) \in Ints
         /\ Len(c.code) \in Nat /\ Len(c.code) \in Ints
         /\ MAGIC \in Seq(Bytes) /\ Len(MAGIC) \in Nat /\ NEWLINE \in Bytes
<1>1. /\ c.kt.elements \in Seq([start : Ints, len : Ints])
      /\ c.kt.block \in Seq(Bytes) /\ c.code \in Seq(Ints)
      /\ {Len(c.kt.elements), Len(c.kt.block), Len(c.code)} \subseteq Ints
      /\ MAGIC \in Seq(Bytes) /\ NEWLINE \in Bytes
  BY FileAssumption
<1>2. /\ Len(c.kt.elements) \in Ints /\ Len(c.kt.block) \in Ints
      /\ Len(c.code) \in Ints
  BY <1>1
<1>3. /\ Len(c.kt.elements) \in Nat /\ Len(c.kt.block) \in Nat
      /\ Len(c.code) \in Nat /\ Len(MAGIC) \in Nat
  BY <1>1
<1> QED
  BY <1>1, <1>2, <1>3 DEF ktable_len

LEMMA ChunkSizes ==
  ASSUME NEW c \in Chunks
  PROVE  /\ ktable_len(c.kt) \in Nat /\ Len(c.kt.block) \in Nat
         /\ Len(c.code) \in Nat /\ Len(MAGIC) \in Nat
         /\ c.kt.block \in Seq(Bytes) /\ MAGIC \in Seq(Bytes)
  BY ChunkTyped, Zenon

LEMMA PartSizes ==
  ASSUME NEW c \in Chunks
  PROVE  /\ MagicLen \in Nat /\ TableLen(c) \in Nat /\ BlockLen(c) \in Nat
         /\ CodeLen(c) \in Nat
  BY ChunkSizes DEF MagicLen, TableLen, BlockLen, CodeLen

LEMMA StartIs ==
  ASSUME NEW c \in Chunks, NEW m, m = MagicLen, NEW e, e = m + 9 + TableLen(c),
         NEW z, z = e + 1 + BlockLen(c), NEW n, n = z + 5 + CodeLen(c)
  PROVE  /\ Start(c, 0) = 0 /\ Start(c, 1) = m /\ Start(c, 2) = m + 4
         /\ Start(c, 3) = m + 8 /\ Start(c, 4) = m + 9 /\ Start(c, 5) = e
         /\ Start(c, 6) = e + 1 /\ Start(c, 7) = z /\ Start(c, 8) = z + 1
         /\ Start(c, 9) = z + 5 /\ Start(c, 10) = n /\ Start(c, 11) = n + 1
<1>1. \A k : Start(c, k) = << 0, m, m + 4, m + 8, m + 9, e, e + 1, z, z + 1,
                              z + 5, n, n + 1 >>[k + 1]
  BY Zenon DEF Start
<1> QED
  BY <1>1

LEMMA StartSteps ==
  ASSUME NEW c \in Chunks
  PROVE  /\ Start(c, 0) = 0 /\ Start(c, 1) = MagicLen
         /\ Start(c, 2) = Start(c, 1) + 4 /\ Start(c, 3) = Start(c, 2) + 4
         /\ Start(c, 4) = Start(c, 3) + 1
         /\ Start(c, 5) = Start(c, 4) + TableLen(c)
         /\ Start(c, 6) = Start(c, 5) + 1
         /\ Start(c, 7) = Start(c, 6) + BlockLen(c)
         /\ Start(c, 8) = Start(c, 7) + 1 /\ Start(c, 9) = Start(c, 8) + 4
         /\ Start(c, 10) = Start(c, 9) + CodeLen(c)
         /\ Start(c, 11) = Start(c, 10) + 1
<1>1. PICK m \in Nat, t \in Nat, b \in Nat, d \in Nat :
        m = MagicLen /\ t = TableLen(c) /\ b = BlockLen(c) /\ d = CodeLen(c)
  BY PartSizes
<1>2. PICK e \in Nat : e = m + 9 + t
  OBVIOUS
<1>3. PICK z \in Nat : z = e + 1 + b
  OBVIOUS
<1>4. PICK n \in Nat : n = z + 5 + d
  OBVIOUS
<1>5. /\ Start(c, 0) = 0 /\ Start(c, 1) = m /\ Start(c, 2) = m + 4
      /\ Start(c, 3) = m + 8 /\ Start(c, 4) = m + 9 /\ Start(c, 5) = e
      /\ Start(c, 6) = e + 1 /\ Start(c, 7) = z /\ Start(c, 8) = z + 1
      /\ Start(c, 9) = z + 5 /\ Start(c, 10) = n /\ Start(c, 11) = n + 1
  <2>1. e = m + 9 + TableLen(c) /\ z = e + 1 + BlockLen(c)
        /\ n = z + 5 + CodeLen(c)
    BY <1>1, <1>2, <1>3, <1>4
  <2> QED
    BY <1>1, <2>1, StartIs
<1> QED
  BY <1>1, <1>2, <1>3, <1>4, <1>5

LEMMA StartGrows ==
  ASSUME NEW c \in Chunks
  PROVE  /\ \A k \in 0 .. Items : Start(c, k) \in Nat
         /\ \A j, k \in 0 .. Items : j <= k => Start(c, j) <= Start(c, k)
<1>1. PICK m \in Nat, t \in Nat, b \in Nat, d \in Nat :
        m = MagicLen /\ t = TableLen(c) /\ b = BlockLen(c) /\ d = CodeLen(c)
  BY PartSizes
<1>2. PICK S : S = [k \in 0 .. Items |-> Start(c, k)]
  OBVIOUS
<1>3. /\ S[0] = 0 /\ S[1] = m /\ S[2] = S[1] + 4 /\ S[3] = S[2] + 4
      /\ S[4] = S[3] + 1 /\ S[5] = S[4] + t /\ S[6] = S[5] + 1
      /\ S[7] = S[6] + b /\ S[8] = S[7] + 1 /\ S[9] = S[8] + 4
      /\ S[10] = S[9] + d /\ S[11] = S[10] + 1
  BY <1>1, <1>2, StartSteps DEF Items
<1>4. \A k \in 0 .. Items : k \in {0, 1, 2, 3, 4, 5, 6, 7, 8, 9, 10, 11}
  BY DEF Items
<1>5. /\ S[0] \in Nat /\ S[1] \in Nat /\ S[2] \in Nat /\ S[3] \in Nat
      /\ S[4] \in Nat /\ S[5] \in Nat /\ S[6] \in Nat /\ S[7] \in Nat
      /\ S[8] \in Nat /\ S[9] \in Nat /\ S[10] \in Nat /\ S[11] \in Nat
      /\ S[0] <= S[1] /\ S[1] <= S[2] /\ S[2] <= S[3] /\ S[3] <= S[4]
      /\ S[4] <= S[5] /\ S[5] <= S[6] /\ S[6] <= S[7] /\ S[7] <= S[8]
      /\ S[8] <= S[9] /\ S[9] <= S[10] /\ S[10] <= S[11]
  BY ONLY <1>3, m \in Nat, t \in Nat, b \in Nat, d \in Nat
<1>6. \A k \in 0 .. Items : S[k] \in Nat
  BY ONLY <1>4, <1>5
<1>7. \A j, k \in 0 .. Items : j <= k => S[j] <= S[k]
  BY ONLY <1>4, <1>5
<1> QED
  BY <1>2, <1>6, <1>7

LEMMA ElementsOfSeq ==
  ASSUME NEW S, NEW q \in Seq(S)
  PROVE  DOMAIN q = 1 .. Len(q) /\ \A i \in 1 .. Len(q) : q[i] \in S
  OBVIOUS

LEMMA BytesJoined ==
  ASSUME NEW a \in Seq(Bytes), NEW c \in Seq(Bytes)
  PROVE  /\ a \o c \in Seq(Bytes) /\ Len(a \o c) = Len(a) + Len(c)
         /\ \A i \in 1 .. Len(a) : (a \o c)[i] = a[i]
         /\ \A i \in 1 .. Len(c) : (a \o c)[Len(a) + i] = c[i]
  BY ConcatenationIs

(* The ints of an element, and where they are among its bytes. *)
LEMMA ElementIs ==
  ASSUME NEW e \in [start : Ints, len : Ints]
  PROVE  /\ Element(e) \in Seq(Bytes) /\ Len(Element(e)) = 12
         /\ \A j \in 1 .. 4 : /\ Element(e)[j] = int_to_string(e.start)[j]
                              /\ Element(e)[4 + j] = int_to_string(e.len)[j]
<1>0. e.start \in Int /\ e.len \in Int
  BY HalfOfInt4 DEF Ints
<1>1. PICK a : a = int_to_string(e.start)
  OBVIOUS
<1>2. PICK b : b = int_to_string(e.len)
  OBVIOUS
<1>3. PICK d : d = int_to_string(0)
  OBVIOUS
<1>4. /\ a \in Seq(Bytes) /\ Len(a) = 4 /\ b \in Seq(Bytes) /\ Len(b) = 4
      /\ d \in Seq(Bytes) /\ Len(d) = 4
  BY <1>0, <1>1, <1>2, <1>3, IntBytes
<1>5. Element(e) = a \o b \o d
  BY <1>1, <1>2, <1>3 DEF Element
<1>6. a \o b \in Seq(Bytes) /\ Len(a \o b) = 8
  <2>1. a \o b \in Seq(Bytes) /\ Len(a \o b) = Len(a) + Len(b)
    BY <1>4, BytesJoined, Zenon
  <2> QED
    BY <2>1, <1>4
<1>7. a \o b \o d \in Seq(Bytes) /\ Len(a \o b \o d) = 12
  <2>1. /\ a \o b \o d \in Seq(Bytes)
        /\ Len(a \o b \o d) = Len(a \o b) + Len(d)
    BY <1>4, <1>6, BytesJoined, Zenon
  <2> QED
    BY <2>1, <1>4, <1>6
<1>8. ASSUME NEW j \in 1 .. 4
      PROVE  (a \o b \o d)[j] = a[j] /\ (a \o b \o d)[4 + j] = b[j]
  <2>0. j \in 1 .. Len(a) /\ j \in 1 .. Len(b) /\ j \in 1 .. Len(a \o b)
        /\ 4 + j \in 1 .. Len(a \o b)
    BY <1>4, <1>6
  <2>1. (a \o b)[j] = a[j] /\ (a \o b)[4 + j] = b[j]
    <3>1. (a \o b)[j] = a[j] /\ (a \o b)[Len(a) + j] = b[j]
      BY <1>4, <2>0, BytesJoined, Zenon
    <3> QED
      BY <3>1, <1>4
  <2>2. (a \o b \o d)[j] = (a \o b)[j] /\ (a \o b \o d)[4 + j] = (a \o b)[4 + j]
    BY <1>4, <1>6, <2>0, BytesJoined, Zenon
  <2> QED
    BY <2>1, <2>2
<1> QED
  BY <1>1, <1>2, <1>5, <1>7, <1>8

(* FlattenSeq of pieces of equal length. *)
LEMMA FlattenSeqIs ==
  ASSUME NEW S, NEW s, NEW w, Pieces(S, s, w)
  PROVE  LaidOut(S, FlattenSeq(s), s, w)
<1>1. CASE Len(s) = 0
  <2>1. FlattenSeq(s) = s /\ s = <<>>
    BY <1>1 DEF FlattenSeq, Pieces
  <2> QED
    BY <1>1, <2>1 DEF Pieces, LaidOut
<1>2. CASE Len(s) # 0
  <2> DEFINE f == CHOOSE g : IsFlattened(g, s, Len(s))
  <2>1. Len(s) \in Nat \ {0}
    BY <1>2 DEF Pieces
  <2>2. IsFlattened(f, s, Len(s))
    BY <2>1, FlattenedExists
  <2>3. FlattenSeq(s) = f[Len(s)]
    BY <1>2 DEF FlattenSeq, IsFlattened
  <2> HIDE DEF f
  <2>4. LaidOut(S, f[Len(s)], s, w)
    BY <1>2, <2>2, FlattenedPieces
  <2> QED
    BY <2>3, <2>4
<1> QED
  BY <1>1, <1>2

LEMMA ElementsAre ==
  ASSUME NEW c \in Chunks
  PROVE  /\ Elements(c.kt) \in Seq(Bytes)
         /\ Len(Elements(c.kt)) = 12 * (ktable_len(c.kt) + 1)
         /\ \A i \in 1 .. ktable_len(c.kt), j \in 1 .. 4 :
              /\ Elements(c.kt)[12 * i + j]
                   = int_to_string(c.kt.elements[i].start)[j]
              /\ Elements(c.kt)[12 * i + 4 + j]
                   = int_to_string(c.kt.elements[i].len)[j]
<1> DEFINE z == Element([start |-> 0, len |-> 0])
           s == [i \in DOMAIN c.kt.elements |-> Element(c.kt.elements[i])]
           n == ktable_len(c.kt)
<1>1. n \in Nat /\ DOMAIN c.kt.elements = 1 .. n
      /\ \A i \in 1 .. n : c.kt.elements[i] \in [start : Ints, len : Ints]
  <2>1. PICK q : q = c.kt.elements
    OBVIOUS
  <2>2. q \in Seq([start : Ints, len : Ints]) /\ n = Len(q) /\ n \in Nat
    BY <2>1, ChunkTyped
  <2>3. DOMAIN q = 1 .. n /\ \A i \in 1 .. n : q[i] \in [start : Ints, len : Ints]
    BY ONLY <2>2, ElementsOfSeq, Zenon
  <2> QED
    BY <2>1, <2>2, <2>3
<1>2. 0 \in Ints
  BY HalfOfInt4 DEF Ints
<1>3. z \in Seq(Bytes) /\ Len(z) = 12
  BY <1>2, ElementIs
<1>4. \A i \in 1 .. n : Element(c.kt.elements[i]) \in Seq(Bytes)
                        /\ Len(Element(c.kt.elements[i])) = 12
  BY <1>1, ElementIs
<1>5. s \in Seq(Seq(Bytes)) /\ Len(s) = n
      /\ \A i \in 1 .. n : s[i] = Element(c.kt.elements[i])
  BY <1>1, <1>4
<1>6. Elements(c.kt) = z \o FlattenSeq(s)
  BY DEF Elements
<1> HIDE DEF z, s, n
<1>7. PICK t : t = FlattenSeq(s)
  OBVIOUS
<1>8. /\ t \in Seq(Bytes) /\ Len(t) = 12 * n
      /\ \A k \in 1 .. n, j \in 1 .. 12 : t[12 * (k - 1) + j] = s[k][j]
  <2>1. Pieces(Bytes, s, 12)
    BY <1>4, <1>5 DEF Pieces
  <2>2. LaidOut(Bytes, t, s, 12)
    BY <1>7, <2>1, FlattenSeqIs
  <2> QED
    BY <1>5, <2>2 DEF LaidOut
<1>9. /\ z \o t \in Seq(Bytes) /\ Len(z \o t) = 12 * (n + 1)
      /\ \A i \in 1 .. 12 * n : (z \o t)[12 + i] = t[i]
  <2>1. /\ z \o t \in Seq(Bytes) /\ Len(z \o t) = Len(z) + Len(t)
        /\ \A i \in 1 .. Len(t) : (z \o t)[Len(z) + i] = t[i]
    BY <1>3, <1>8, BytesJoined, Zenon
  <2> QED
    <3>1. /\ Len(z \o t) = 12 + 12 * n /\ n \in Nat /\ Len(t) = 12 * n
          /\ \A i \in 1 .. Len(t) : (z \o t)[12 + i] = t[i]
      BY <2>1, <1>1, <1>3, <1>8
    <3> QED
      BY <2>1, <3>1
<1>10. ASSUME NEW i \in 1 .. n, NEW j \in 1 .. 4
       PROVE  /\ (z \o t)[12 * i + j] = int_to_string(c.kt.elements[i].start)[j]
              /\ (z \o t)[12 * i + 4 + j]
                   = int_to_string(c.kt.elements[i].len)[j]
  <2>1. \A m \in 1 .. 12 : (z \o t)[12 * i + m] = Element(c.kt.elements[i])[m]
    <3>1. TAKE m \in 1 .. 12
    <3>2. 12 * (i - 1) + m \in 1 .. 12 * n /\ 12 + (12 * (i - 1) + m) = 12 * i + m
      BY <1>1
    <3>3. t[12 * (i - 1) + m] = s[i][m]
      BY <1>8
    <3> QED
      BY <1>5, <1>9, <3>2, <3>3
  <2>2. j \in 1 .. 12 /\ 4 + j \in 1 .. 12 /\ 12 * i + (4 + j) = 12 * i + 4 + j
    BY <1>1
  <2>3. /\ Element(c.kt.elements[i])[j]
             = int_to_string(c.kt.elements[i].start)[j]
        /\ Element(c.kt.elements[i])[4 + j]
             = int_to_string(c.kt.elements[i].len)[j]
    BY <1>1, ElementIs
  <2> QED
    BY <2>1, <2>2, <2>3
<1> QED
  BY <1>6, <1>7, <1>9, <1>10 DEF n

Instructions(c) == FlattenSeq([i \in DOMAIN c.code |-> int_to_string(c.code[i])])

LEMMA InstructionsAre ==
  ASSUME NEW c \in Chunks
  PROVE  /\ Instructions(c) \in Seq(Bytes)
         /\ Len(Instructions(c)) = 4 * Len(c.code)
         /\ \A i \in 1 .. Len(c.code), j \in 1 .. 4 :
              Instructions(c)[4 * (i - 1) + j] = int_to_string(c.code[i])[j]
<1> DEFINE s == [i \in DOMAIN c.code |-> int_to_string(c.code[i])]
           n == Len(c.code)
<1>1. n \in Nat /\ DOMAIN c.code = 1 .. n /\ \A i \in 1 .. n : c.code[i] \in Int
  BY ChunkTyped, HalfOfInt4 DEF Ints
<1>2. \A i \in 1 .. n : int_to_string(c.code[i]) \in Seq(Bytes)
                        /\ Len(int_to_string(c.code[i])) = 4
  BY <1>1, IntBytes
<1>3. s \in Seq(Seq(Bytes)) /\ Len(s) = n
      /\ \A i \in 1 .. n : s[i] = int_to_string(c.code[i])
  BY <1>1, <1>2
<1>4. Instructions(c) = FlattenSeq(s)
  BY DEF Instructions
<1> HIDE DEF s, n
<1>5. Pieces(Bytes, s, 4)
  BY <1>2, <1>3 DEF Pieces
<1>6. LaidOut(Bytes, Instructions(c), s, 4)
  BY <1>4, <1>5, FlattenSeqIs
<1> QED
  BY <1>3, <1>6 DEF LaidOut, n

LEMMA WritesAre ==
  ASSUME NEW c \in Chunks
  PROVE  /\ Writes(c) \in Seq(Seq(Bytes)) /\ Len(Writes(c)) = Items
         /\ \A k \in 1 .. Items :
              Start(c, k) = Start(c, k - 1) + Len(Writes(c)[k])
<1> DEFINE a == int_to_string(ktable_len(c.kt))
           b == int_to_string(Len(c.kt.block))
           d == int_to_string(Len(c.code))
           e == Elements(c.kt)
           i == Instructions(c)
           nl == <<NEWLINE>>
<1>1. Writes(c) = << MAGIC, a, b, nl, e, nl, c.kt.block, nl, d, i, nl >>
  BY DEF Writes, Instructions
<1>2. /\ a \in Seq(Bytes) /\ Len(a) = 4 /\ b \in Seq(Bytes) /\ Len(b) = 4
      /\ d \in Seq(Bytes) /\ Len(d) = 4
  BY ChunkTyped, IntBytes
<1>3. /\ e \in Seq(Bytes) /\ Len(e) = 12 * (ktable_len(c.kt) + 1)
      /\ i \in Seq(Bytes) /\ Len(i) = 4 * Len(c.code)
  BY ElementsAre, InstructionsAre
<1>4. nl \in Seq(Bytes) /\ Len(nl) = 1
  BY ChunkTyped
<1> HIDE DEF a, b, d, e, i, nl
<1>5. Writes(c) \in Seq(Seq(Bytes)) /\ Len(Writes(c)) = Items
  BY <1>1, <1>2, <1>3, <1>4, ChunkTyped DEF Items
<1>6. /\ Len(Writes(c)[1]) = MagicLen /\ Len(Writes(c)[2]) = 4
      /\ Len(Writes(c)[3]) = 4 /\ Len(Writes(c)[4]) = 1
      /\ Len(Writes(c)[5]) = TableLen(c) /\ Len(Writes(c)[6]) = 1
      /\ Len(Writes(c)[7]) = BlockLen(c) /\ Len(Writes(c)[8]) = 1
      /\ Len(Writes(c)[9]) = 4 /\ Len(Writes(c)[10]) = CodeLen(c)
      /\ Len(Writes(c)[11]) = 1
  BY <1>1, <1>2, <1>3, <1>4 DEF MagicLen, TableLen, BlockLen, CodeLen
<1>7. ASSUME NEW k \in 1 .. Items
      PROVE  Start(c, k) = Start(c, k - 1) + Len(Writes(c)[k])
  <2>1. k \in {1, 2, 3, 4, 5, 6, 7, 8, 9, 10, 11}
    BY DEF Items
  <2>2. PICK L : L = [q \in 1 .. Items |-> Len(Writes(c)[q])]
    OBVIOUS
  <2>3. PICK S : S = [q \in 0 .. Items |-> Start(c, q)]
    OBVIOUS
  <2>4. PICK m \in Nat, t \in Nat, y \in Nat, x \in Nat :
          m = MagicLen /\ t = TableLen(c) /\ y = BlockLen(c) /\ x = CodeLen(c)
    BY PartSizes
  <2>5. /\ S[0] = 0 /\ S[1] = m /\ S[2] = S[1] + 4 /\ S[3] = S[2] + 4
        /\ S[4] = S[3] + 1 /\ S[5] = S[4] + t /\ S[6] = S[5] + 1
        /\ S[7] = S[6] + y /\ S[8] = S[7] + 1 /\ S[9] = S[8] + 4
        /\ S[10] = S[9] + x /\ S[11] = S[10] + 1
    BY <2>3, <2>4, StartSteps DEF Items
  <2>6. /\ L[1] = m /\ L[2] = 4 /\ L[3] = 4 /\ L[4] = 1 /\ L[5] = t
        /\ L[6] = 1 /\ L[7] = y /\ L[8] = 1 /\ L[9] = 4 /\ L[10] = x
        /\ L[11] = 1
    BY <1>6, <2>2, <2>4 DEF Items
  <2>7. S[k] = S[k - 1] + L[k]
    BY ONLY <2>1, <2>5, <2>6, m \in Nat, t \in Nat, y \in Nat, x \in Nat
  <2>8. k \in 0 .. Items /\ k - 1 \in 0 .. Items
    BY DEF Items
  <2> QED
    BY <2>2, <2>3, <2>7, <2>8
<1> QED
  BY <1>5, <1>7

LEMMA WrittenParts ==
  ASSUME NEW c \in Chunks
  PROVE  /\ Writes(c)[1] = MAGIC
         /\ Writes(c)[2] = int_to_string(ktable_len(c.kt))
         /\ Writes(c)[3] = int_to_string(Len(c.kt.block))
         /\ Writes(c)[5] = Elements(c.kt) /\ Writes(c)[7] = c.kt.block
         /\ Writes(c)[9] = int_to_string(Len(c.code))
         /\ Writes(c)[10] = Instructions(c)
  BY DEF Writes, Instructions

(***************************************************************************)
(* A file that holds, as far as it goes, what was written.                 *)
(***************************************************************************)
Holds(f, s, w) ==
  \A i \in 1 .. Len(w) : s + i <= Len(f) => f[s + i] = w[i]
Agree(f, c) == \A k \in 1 .. Items : Holds(f, Start(c, k - 1), Writes(c)[k])

(* The bytes of the int v follow the first o bytes of w. *)
HasInt(w, o, v) ==
  o + 4 <= Len(w) /\ \A j \in 1 .. 4 : w[o + j] = int_to_string(v)[j]

LEMMA PartHeld ==
  ASSUME NEW c \in Chunks, NEW f, Agree(f, c), NEW k \in 1 .. Items
  PROVE  /\ Start(c, k - 1) \in Nat /\ Writes(c)[k] \in Seq(Bytes)
         /\ Start(c, k) = Start(c, k - 1) + Len(Writes(c)[k])
         /\ Holds(f, Start(c, k - 1), Writes(c)[k])
<1>1. k - 1 \in 0 .. Items
  BY DEF Items
<1>2. Start(c, k - 1) \in Nat
  BY <1>1, StartGrows
<1>3. Writes(c)[k] \in Seq(Bytes)
  <2>1. Writes(c) \in Seq(Seq(Bytes)) /\ Len(Writes(c)) = Items
    BY WritesAre
  <2> QED
    BY <2>1, ElementsOfSeq
<1>4. Start(c, k) = Start(c, k - 1) + Len(Writes(c)[k])
  BY WritesAre
<1> QED
  BY <1>2, <1>3, <1>4 DEF Agree

(* The n bytes at at are those of w that follow its first o. *)
Reads(f, at, n, w, o) ==
  /\ DOMAIN Item(f, at, n) = 1 .. n
  /\ \A i \in 1 .. n : Item(f, at, n)[i] = w[o + i]

LEMMA ItemIs ==
  ASSUME NEW f \in Seq(Bytes), NEW w \in Seq(Bytes), NEW s \in Nat,
         Holds(f, s, w), NEW o \in Nat, NEW n \in Nat, o + n <= Len(w),
         NEW at, at = s + o + 1, HasItem(f, at, n)
  PROVE  Reads(f, at, n, w, o)
<1>1. PICK x \in Nat : x = Len(f)
  OBVIOUS
<1>2. PICK y \in Nat : y = Len(w)
  OBVIOUS
<1>3. at + n - 1 <= x /\ o + n <= y
  BY <1>1, <1>2 DEF HasItem
<1>4. ASSUME NEW i \in 1 .. n
      PROVE  Item(f, at, n)[i] = w[o + i]
  <2>1. /\ at + i - 1 \in 1 .. x /\ at + i - 1 = s + (o + i)
        /\ o + i \in 1 .. y /\ s + (o + i) <= x
    BY ONLY <1>3, at = s + o + 1, s \in Nat, o \in Nat, n \in Nat, i \in 1 .. n,
            x \in Nat, y \in Nat
  <2>2. DOMAIN f = 1 .. x
    BY <1>1
  <2>3. Item(f, at, n)[i] = f[at + i - 1]
    BY <2>1, <2>2 DEF Item
  <2>4. f[s + (o + i)] = w[o + i]
    BY <1>1, <1>2, <2>1 DEF Holds
  <2> QED
    BY <2>1, <2>3, <2>4
<1> QED
  BY <1>4 DEF Item, Reads

LEMMA IntIs ==
  ASSUME NEW f \in Seq(Bytes), NEW w \in Seq(Bytes), NEW s \in Nat,
         Holds(f, s, w), NEW o \in Nat, NEW v \in Ints, HasInt(w, o, v),
         NEW at, at = s + o + 1, HasItem(f, at, 4)
  PROVE  IntAt(f, at) = v
<1>1. Reads(f, at, 4, w, o)
  <2>1. o + 4 <= Len(w) /\ 4 \in Nat
    BY DEF HasInt
  <2> QED
    BY <2>1, ItemIs
<1>2. \A i \in 1 .. 4 : Item(f, at, 4)[i] = int_to_string(v)[i]
  BY <1>1 DEF HasInt, Reads
<1>3. string_to_int(Item(f, at, 4)) = string_to_int(int_to_string(v))
  BY <1>2 DEF string_to_int
<1> QED
  BY <1>3, IntsReadBack DEF IntAt

LEMMA IntHeld ==
  ASSUME NEW c \in Chunks, NEW f \in Seq(Bytes), Agree(f, c),
         NEW k \in 1 .. Items, NEW o \in Nat, NEW v \in Ints,
         HasInt(Writes(c)[k], o, v),
         NEW at, at = Start(c, k - 1) + o + 1, HasItem(f, at, 4)
  PROVE  IntAt(f, at) = v
<1>1. PICK s \in Nat, w \in Seq(Bytes) :
        s = Start(c, k - 1) /\ w = Writes(c)[k] /\ Holds(f, s, w)
  BY PartHeld
<1> QED
  BY <1>1, IntIs

(***************************************************************************)
(* The parts of a file that file_load reads.                               *)
(***************************************************************************)
LEMMA Places ==
  ASSUME NEW c \in Chunks
  PROVE  /\ CountAt = Start(c, 1) + 1 /\ SizeAt = Start(c, 2) + 1
         /\ ElementsAt = Start(c, 4) + 1
         /\ ElementsAt + TableLen(c) + 1 = Start(c, 6) + 1
         /\ Start(c, 6) + 1 + BlockLen(c) + 1 = Start(c, 8) + 1
         /\ Start(c, 8) + 1 + 4 = Start(c, 9) + 1
<1>1. PICK m \in Nat, t \in Nat, y \in Nat, x \in Nat :
        m = MagicLen /\ t = TableLen(c) /\ y = BlockLen(c) /\ x = CodeLen(c)
  BY PartSizes
<1>2. CountAt = m + 1 /\ SizeAt = m + 5 /\ ElementsAt = m + 10
  BY <1>1 DEF CountAt, SizeAt, ElementsAt, MagicLen
<1> QED
  BY <1>1, <1>2, StartSteps

(* What the ints of the head and of the code's length are written as. *)
LEMMA IntsWritten ==
  ASSUME NEW c \in Chunks
  PROVE  /\ ktable_len(c.kt) \in Ints /\ HasInt(Writes(c)[2], 0, ktable_len(c.kt))
         /\ Len(c.kt.block) \in Ints /\ HasInt(Writes(c)[3], 0, Len(c.kt.block))
         /\ Len(c.code) \in Ints /\ HasInt(Writes(c)[9], 0, Len(c.code))
<1>1. ASSUME NEW v \in Ints
      PROVE  HasInt(int_to_string(v), 0, v)
  <2>1. v \in Int
    BY HalfOfInt4 DEF Ints
  <2>2. Len(int_to_string(v)) = 4
    BY <2>1, IntBytes
  <2> QED
    BY <2>2 DEF HasInt
<1>2. /\ ktable_len(c.kt) \in Ints /\ Len(c.kt.block) \in Ints
      /\ Len(c.code) \in Ints
  BY ChunkTyped, Zenon
<1>3. /\ Writes(c)[2] = int_to_string(ktable_len(c.kt))
      /\ Writes(c)[3] = int_to_string(Len(c.kt.block))
      /\ Writes(c)[9] = int_to_string(Len(c.code))
  BY WrittenParts, Zenon
<1> QED
  BY <1>1, <1>2, <1>3, Zenon

LEMMA HeadIs ==
  ASSUME NEW c \in Chunks, NEW f \in Seq(Bytes), Agree(f, c), HeadRead(f)
  PROVE  /\ IntAt(f, CountAt) = ktable_len(c.kt)
         /\ IntAt(f, SizeAt) = Len(c.kt.block)
         /\ BlockAt(f) = Start(c, 6) + 1 /\ LengthAt(f) = Start(c, 8) + 1
         /\ CodeAt(f) = Start(c, 9) + 1
<1>1. /\ Start(c, 1) \in Nat /\ Start(c, 2) \in Nat
      /\ Start(c, 2) = Start(c, 1) + 4
  BY StartGrows, StartSteps DEF Items
<1>2. HasItem(f, CountAt, 4) /\ HasItem(f, SizeAt, 4)
  BY <1>1, Places DEF HeadRead, HasItem
<1>3. CountAt = Start(c, 2 - 1) + 0 + 1 /\ SizeAt = Start(c, 3 - 1) + 0 + 1
  BY <1>1, Places
<1>4. 2 \in 1 .. Items /\ 3 \in 1 .. Items
  BY DEF Items
<1>5. /\ ktable_len(c.kt) \in Ints /\ HasInt(Writes(c)[2], 0, ktable_len(c.kt))
      /\ Len(c.kt.block) \in Ints /\ HasInt(Writes(c)[3], 0, Len(c.kt.block))
  BY IntsWritten, Zenon
<1>6. 0 \in Nat
  OBVIOUS
<1>7. IntAt(f, CountAt) = ktable_len(c.kt)
  BY <1>2, <1>3, <1>4, <1>5, <1>6, IntHeld
<1>8. IntAt(f, SizeAt) = Len(c.kt.block)
  BY <1>2, <1>3, <1>4, <1>5, <1>6, IntHeld
<1>9. BlockAt(f) = Start(c, 6) + 1
  <2>1. BlockAt(f) = ElementsAt + TableLen(c) + 1
    BY <1>7 DEF BlockAt, ElementBytes, TableLen
  <2> QED
    BY <2>1, Places
<1>10. LengthAt(f) = Start(c, 8) + 1
  BY <1>8, <1>9, Places DEF LengthAt, BlockLen
<1>11. CodeAt(f) = Start(c, 9) + 1
  BY <1>10, Places DEF CodeAt
<1> QED
  BY <1>7, <1>8, <1>9, <1>10, <1>11

LEMMA ElementRead ==
  ASSUME NEW c \in Chunks, NEW f \in Seq(Bytes), Agree(f, c),
         HeadRead(f), TableRead(f), NEW i \in 1 .. ktable_len(c.kt)
  PROVE  LoadedElement(f, i) = c.kt.elements[i]
<1> DEFINE at == ElementsAt + 12 * i
<1>1. PICK n \in Nat, s \in Nat, x \in Nat :
        n = ktable_len(c.kt) /\ s = Start(c, 4) /\ x = Len(f)
  <2>1. Start(c, 4) \in Nat
    BY StartGrows DEF Items
  <2>2. ktable_len(c.kt) \in Nat
    BY ChunkSizes
  <2> QED
    BY <2>1, <2>2
<1>2. PICK e : e = c.kt.elements[i]
  OBVIOUS
<1>3. e \in [start : Ints, len : Ints]
  <2>1. PICK q : q = c.kt.elements
    OBVIOUS
  <2>2. q \in Seq([start : Ints, len : Ints]) /\ Len(q) = ktable_len(c.kt)
    BY <2>1, ChunkTyped
  <2>3. \A j \in 1 .. Len(q) : q[j] \in [start : Ints, len : Ints]
    BY ONLY <2>2, ElementsOfSeq, Zenon
  <2> QED
    BY <1>2, <2>1, <2>2, <2>3
<1>4. e.start \in Ints /\ e.len \in Ints
  BY <1>3
<1>5. ElementsAt = s + 1 /\ BlockAt(f) = s + 1 + 12 * (n + 1) + 1
  <2>1. ElementsAt = Start(c, 4) + 1 /\ BlockAt(f) = Start(c, 6) + 1
        /\ ElementsAt + TableLen(c) + 1 = Start(c, 6) + 1
    BY Places, HeadIs
  <2> QED
    BY <1>1, <2>1 DEF TableLen
<1>6. ElementsAt + (BlockAt(f) - 1 - ElementsAt) - 1 <= x
  BY <1>1 DEF TableRead, HasItem
<1>7. i \in 1 .. n
  BY <1>1
<1>8. /\ at + 4 - 1 <= x /\ at + 4 + 4 - 1 <= x
      /\ 12 * i \in Nat /\ 12 * i + 4 \in Nat
      /\ 12 * i + 4 <= 12 * (n + 1) /\ 12 * i + 4 + 4 <= 12 * (n + 1)
      /\ at = s + 12 * i + 1 /\ at + 4 = s + (12 * i + 4) + 1
  BY ONLY <1>5, <1>6, <1>7, n \in Nat, s \in Nat, x \in Nat DEF at
<1>9. HasItem(f, at, 4) /\ HasItem(f, at + 4, 4)
  BY <1>1, <1>8 DEF HasItem
<1>10. /\ HasInt(Writes(c)[5], 12 * i, e.start)
       /\ HasInt(Writes(c)[5], 12 * i + 4, e.len)
  <2>1. /\ \A j \in 1 .. 4 : Writes(c)[5][12 * i + j] = int_to_string(e.start)[j]
        /\ \A j \in 1 .. 4 :
             Writes(c)[5][12 * i + 4 + j] = int_to_string(e.len)[j]
        /\ Len(Writes(c)[5]) = 12 * (ktable_len(c.kt) + 1)
    BY <1>2, WrittenParts, ElementsAre
  <2>2. Len(Writes(c)[5]) = 12 * (n + 1)
    BY <1>1, <2>1
  <2>3. 12 * i + 4 <= Len(Writes(c)[5]) /\ 12 * i + 4 + 4 <= Len(Writes(c)[5])
    BY ONLY <1>8, <2>2
  <2> QED
    BY <2>1, <2>3 DEF HasInt
<1>11. 5 \in 1 .. Items /\ at = Start(c, 5 - 1) + 12 * i + 1
       /\ at + 4 = Start(c, 5 - 1) + (12 * i + 4) + 1
  BY <1>1, <1>8 DEF Items
<1>12. 12 * i \in Nat /\ 12 * i + 4 \in Nat
  BY <1>8
<1> HIDE DEF at
<1>13. IntAt(f, at) = e.start
  BY <1>4, <1>9, <1>10, <1>11, <1>12, IntHeld
<1>14. IntAt(f, at + 4) = e.len
  BY <1>4, <1>9, <1>10, <1>11, <1>12, IntHeld
<1>15. LoadedElement(f, i) = [start |-> IntAt(f, at), len |-> IntAt(f, at + 4)]
  BY DEF LoadedElement, ElementBytes, at
<1>16. e = [start |-> e.start, len |-> e.len]
  BY <1>3
<1> QED
  BY <1>2, <1>13, <1>14, <1>15, <1>16

LEMMA BlockRead ==
  ASSUME NEW c \in Chunks, NEW f \in Seq(Bytes), Agree(f, c),
         HeadRead(f), TableRead(f)
  PROVE  Item(f, BlockAt(f), IntAt(f, SizeAt)) = c.kt.block
<1>1. PICK n : n = Len(c.kt.block)
  OBVIOUS
<1>2. PICK b : b = c.kt.block
  OBVIOUS
<1>3. PICK at : at = BlockAt(f)
  OBVIOUS
<1>4. n \in Nat /\ b \in Seq(Bytes) /\ n = Len(b)
  BY <1>1, <1>2, ChunkSizes
<1>5. 7 \in 1 .. Items
  BY DEF Items
<1>6. PICK s \in Nat : s = Start(c, 7 - 1) /\ Holds(f, s, Writes(c)[7])
  BY <1>5, PartHeld
<1>7. Holds(f, s, b)
  BY <1>2, <1>6, WrittenParts
<1>8. at = s + 0 + 1 /\ n = IntAt(f, SizeAt)
  BY <1>1, <1>3, <1>6, HeadIs
<1>9. HasItem(f, at, n)
  BY <1>3, <1>8 DEF TableRead
<1>10. 0 \in Nat /\ 0 + n <= Len(b)
  BY <1>4
<1>11. Reads(f, at, n, b, 0)
  BY <1>4, <1>7, <1>8, <1>9, <1>10, ItemIs
<1>12. DOMAIN Item(f, at, n) = 1 .. n
       /\ \A i \in 1 .. n : Item(f, at, n)[i] = b[i]
  BY <1>11 DEF Reads
<1>13. Item(f, at, n) = b
  <2>1. Item(f, at, n) = [i \in 1 .. n |-> Item(f, at, n)[i]]
    BY DEF Item
  <2>2. b = [i \in 1 .. n |-> b[i]]
    BY <1>4
  <2> QED
    BY <1>12, <2>1, <2>2
<1> QED
  BY <1>2, <1>3, <1>8, <1>13

LEMMA LengthRead ==
  ASSUME NEW c \in Chunks, NEW f \in Seq(Bytes), Agree(f, c),
         HeadRead(f), TableRead(f)
  PROVE  IntAt(f, LengthAt(f)) = Len(c.code)
<1>1. PICK v : v = Len(c.code)
  OBVIOUS
<1>2. v \in Ints /\ HasInt(Writes(c)[9], 0, v)
  BY <1>1, IntsWritten, Zenon
<1>3. PICK at : at = LengthAt(f)
  OBVIOUS
<1>4. HasItem(f, at, 4)
  BY <1>3 DEF TableRead
<1>5. 9 \in 1 .. Items /\ 0 \in Nat
  BY DEF Items
<1>6. at = Start(c, 9 - 1) + 0 + 1
  <2>1. Start(c, 8) \in Nat
    BY StartGrows DEF Items
  <2> QED
    BY <1>3, <2>1, HeadIs
<1> QED
  BY <1>1, <1>2, <1>3, <1>4, <1>5, <1>6, IntHeld

LEMMA InstructionRead ==
  ASSUME NEW c \in Chunks, NEW f \in Seq(Bytes), Agree(f, c),
         HeadRead(f), TableRead(f), CodeRead(f), NEW i \in 1 .. Len(c.code)
  PROVE  IntAt(f, CodeAt(f) + InstructionBytes * (i - 1)) = c.code[i]
<1> DEFINE at == CodeAt(f) + 4 * (i - 1)
<1>1. PICK n \in Nat, s \in Nat, x \in Nat :
        n = Len(c.code) /\ s = Start(c, 9) /\ x = Len(f)
  <2>1. Start(c, 9) \in Nat
    BY StartGrows DEF Items
  <2>2. Len(c.code) \in Nat
    BY ChunkSizes
  <2> QED
    BY <2>1, <2>2
<1>2. PICK v : v = c.code[i]
  OBVIOUS
<1>3. v \in Ints
  <2>1. PICK q : q = c.code
    OBVIOUS
  <2>2. q \in Seq(Ints)
    BY <2>1, ChunkTyped
  <2>3. \A j \in 1 .. Len(q) : q[j] \in Ints
    BY ONLY <2>2, ElementsOfSeq, Zenon
  <2> QED
    BY <1>2, <2>1, <2>3
<1>4. CodeAt(f) = s + 1 /\ IntAt(f, LengthAt(f)) = n
  BY <1>1, HeadIs, LengthRead
<1>5. CodeAt(f) + 4 * n - 1 <= x
  BY <1>1, <1>4 DEF CodeRead, HasItem, CodeBytes, InstructionBytes
<1>6. i \in 1 .. n
  BY <1>1
<1>7. /\ at + 4 - 1 <= x /\ 4 * (i - 1) \in Nat
      /\ 4 * (i - 1) + 4 <= 4 * n /\ at = s + 4 * (i - 1) + 1
  BY ONLY <1>4, <1>5, <1>6, n \in Nat, s \in Nat, x \in Nat DEF at
<1>8. HasItem(f, at, 4)
  BY <1>1, <1>7 DEF HasItem
<1>9. HasInt(Writes(c)[10], 4 * (i - 1), v)
  <2>1. /\ \A j \in 1 .. 4 :
             Writes(c)[10][4 * (i - 1) + j] = int_to_string(v)[j]
        /\ Len(Writes(c)[10]) = 4 * Len(c.code)
    BY <1>2, WrittenParts, InstructionsAre
  <2>2. Len(Writes(c)[10]) = 4 * n
    BY <1>1, <2>1
  <2>3. 4 * (i - 1) + 4 <= Len(Writes(c)[10])
    BY ONLY <1>7, <2>2
  <2> QED
    BY <2>1, <2>3 DEF HasInt
<1>10. 10 \in 1 .. Items /\ at = Start(c, 10 - 1) + 4 * (i - 1) + 1
  BY <1>1, <1>7 DEF Items
<1>11. 4 * (i - 1) \in Nat
  BY <1>7
<1> HIDE DEF at
<1>12. IntAt(f, at) = v
  BY <1>3, <1>8, <1>9, <1>10, <1>11, IntHeld
<1> QED
  BY <1>2, <1>12 DEF at, InstructionBytes

(* What file_load returns is what was written. *)
LEMMA LoadedIs ==
  ASSUME NEW c \in Chunks, NEW f \in Seq(Bytes), Agree(f, c),
         file_load(f).err = "OK"
  PROVE  /\ file_load(f).code = c.code
         /\ Names(file_load(f).kt) = Names(c.kt)
<1>1. /\ HeadRead(f) /\ TableRead(f) /\ CodeRead(f) /\ file_load(f) = Loaded(f)
  BY DEF file_load, Error
<1>2. PICK n : n = ktable_len(c.kt)
  OBVIOUS
<1>3. Loaded(f).code = c.code
  <2>1. PICK q : q = c.code
    OBVIOUS
  <2>2. q \in Seq(Ints)
    BY <2>1, ChunkTyped
  <2>3. q = [i \in 1 .. Len(q) |-> q[i]]
    BY ONLY <2>2
  <2>4. Loaded(f).code = [i \in 1 .. IntAt(f, LengthAt(f)) |->
                            IntAt(f, CodeAt(f) + InstructionBytes * (i - 1))]
    BY DEF Loaded
  <2>5. IntAt(f, LengthAt(f)) = Len(q)
        /\ \A i \in 1 .. Len(q) :
             IntAt(f, CodeAt(f) + InstructionBytes * (i - 1)) = q[i]
    BY <1>1, <2>1, LengthRead, InstructionRead
  <2> QED
    BY ONLY <2>1, <2>3, <2>4, <2>5
<1>4. Loaded(f).kt.elements = c.kt.elements
  <2>1. PICK q : q = c.kt.elements
    OBVIOUS
  <2>2. q \in Seq([start : Ints, len : Ints]) /\ n = Len(q)
    BY <1>2, <2>1, ChunkTyped
  <2>3. q = [i \in 1 .. n |-> q[i]]
    BY ONLY <2>2
  <2>4. Loaded(f).kt.elements
          = [i \in 1 .. IntAt(f, CountAt) |-> LoadedElement(f, i)]
    BY DEF Loaded
  <2>5. IntAt(f, CountAt) = n /\ \A i \in 1 .. n : LoadedElement(f, i) = q[i]
    BY <1>1, <1>2, <2>1, HeadIs, ElementRead
  <2> QED
    BY ONLY <2>1, <2>3, <2>4, <2>5
<1>5. Loaded(f).kt.block = c.kt.block
  <2>1. Loaded(f).kt.block = Item(f, BlockAt(f), IntAt(f, SizeAt))
    BY DEF Loaded
  <2> QED
    BY <1>1, <2>1, BlockRead
<1>6. Names(Loaded(f).kt) = Names(c.kt)
  BY <1>4, <1>5 DEF Names, Indices, ktable_len, ktable_element_name
<1> QED
  BY <1>1, <1>3, <1>6

(* A whole file is accepted, unless it is longer than file_load allows. *)
LEMMA MagicRead ==
  ASSUME NEW c \in Chunks, NEW f \in Seq(Bytes), Agree(f, c),
         HasItem(f, 1, Len(MAGIC))
  PROVE  Item(f, 1, Len(MAGIC)) = MAGIC
<1>1. PICK b : b = MAGIC
  OBVIOUS
<1>2. PICK n : n = Len(b)
  OBVIOUS
<1>3. n \in Nat /\ b \in Seq(Bytes)
  BY <1>1, <1>2, ChunkSizes
<1>4. 1 \in 1 .. Items
  BY DEF Items
<1>5. PICK s \in Nat : s = Start(c, 1 - 1) /\ Holds(f, s, Writes(c)[1])
  BY <1>4, PartHeld
<1>6. Holds(f, s, b)
  BY <1>1, <1>5, WrittenParts
<1>7. s = 0 /\ 1 = s + 0 + 1
  BY <1>5, StartSteps
<1>8. HasItem(f, 1, n)
  BY <1>1, <1>2
<1>9. 0 \in Nat /\ 0 + n <= Len(b)
  BY <1>2, <1>3
<1>10. Reads(f, 1, n, b, 0)
  BY <1>3, <1>6, <1>7, <1>8, <1>9, ItemIs
<1>11. DOMAIN Item(f, 1, n) = 1 .. n /\ \A i \in 1 .. n : Item(f, 1, n)[i] = b[i]
  BY <1>10 DEF Reads
<1>12. Item(f, 1, n) = [i \in 1 .. n |-> Item(f, 1, n)[i]]
  BY DEF Item
<1>13. b = [i \in 1 .. n |-> b[i]]
  BY <1>2, <1>3
<1> QED
  BY <1>1, <1>2, <1>11, <1>12, <1>13

LEMMA WholeLoads ==
  ASSUME NEW c \in Chunks, NEW f \in Seq(Bytes), Agree(f, c),
         Len(f) = Start(c, Items), c.kt.block # <<>>,
         Len(c.kt.block) <= MAX_INSTLEN_BYTES,
         InstructionBytes * Len(c.code) <= MAX_INSTLEN_BYTES
  PROVE  file_load(f).err = "OK"
<1>1. PICK m \in Nat, t \in Nat, y \in Nat, x \in Nat :
        m = MagicLen /\ t = TableLen(c) /\ y = BlockLen(c) /\ x = CodeLen(c)
  BY PartSizes
<1>2. PICK z \in Nat : z = Len(f)
  OBVIOUS
<1>3. PICK h \in Nat : h = MAX_INSTLEN_BYTES
  BY FileAssumption
<1>4. /\ Start(c, 1) = m /\ Start(c, 6) = m + 9 + t + 1
      /\ Start(c, 8) = m + 9 + t + 1 + y + 1
      /\ Start(c, 9) = m + 9 + t + 1 + y + 1 + 4
      /\ z = m + 9 + t + 1 + y + 1 + 4 + x + 1
  <2>1. PICK S : S = [k \in 0 .. Items |-> Start(c, k)]
    OBVIOUS
  <2>2. /\ S[0] = 0 /\ S[1] = m /\ S[2] = S[1] + 4 /\ S[3] = S[2] + 4
        /\ S[4] = S[3] + 1 /\ S[5] = S[4] + t /\ S[6] = S[5] + 1
        /\ S[7] = S[6] + y /\ S[8] = S[7] + 1 /\ S[9] = S[8] + 4
        /\ S[10] = S[9] + x /\ S[11] = S[10] + 1
    BY <1>1, <2>1, StartSteps DEF Items
  <2>3. z = S[11]
    BY <1>2, <2>1 DEF Items
  <2>4. /\ S[1] = m /\ S[6] = m + 9 + t + 1
        /\ S[8] = m + 9 + t + 1 + y + 1
        /\ S[9] = m + 9 + t + 1 + y + 1 + 4
        /\ z = m + 9 + t + 1 + y + 1 + 4 + x + 1
    BY ONLY <2>2, <2>3, m \in Nat, t \in Nat, y \in Nat, x \in Nat
  <2> QED
    BY <2>1, <2>4 DEF Items
<1>5. HasItem(f, 1, Len(MAGIC)) /\ Item(f, 1, Len(MAGIC)) = MAGIC
  <2>1. 1 + m - 1 <= z
    BY <1>4
  <2>2. HasItem(f, 1, Len(MAGIC))
    BY <1>1, <1>2, <2>1 DEF HasItem, MagicLen
  <2> QED
    BY <2>2, MagicRead
<1>6. HeadRead(f)
  <2>1. CountAt = m + 1
    BY <1>1 DEF CountAt, MagicLen
  <2>2. m + 1 + 8 - 1 <= z
    BY <1>4
  <2> QED
    BY <1>2, <2>1, <2>2 DEF HeadRead, HasItem
<1>7. /\ IntAt(f, CountAt) = ktable_len(c.kt) /\ IntAt(f, SizeAt) = y
      /\ BlockAt(f) = m + 9 + t + 1 + 1
      /\ LengthAt(f) = m + 9 + t + 1 + y + 1 + 1
      /\ CodeAt(f) = m + 9 + t + 1 + y + 1 + 4 + 1
  BY <1>1, <1>4, <1>6, HeadIs DEF BlockLen
<1>8. ktable_len(c.kt) \in Nat /\ IntAt(f, CountAt) >= 0
  BY <1>7, ChunkSizes
<1>9. y > 0 /\ y <= h
  <2>1. PICK b : b = c.kt.block
    OBVIOUS
  <2>2. b \in Seq(Bytes) /\ b # <<>> /\ y = Len(b)
    BY <1>1, <2>1, ChunkSizes DEF BlockLen
  <2>3. y # 0
    BY ONLY <2>2
  <2> QED
    BY <1>1, <1>3, <2>3 DEF BlockLen
<1>10. TableRead(f)
  <2>1. ElementsAt = m + 10
    BY <1>1 DEF ElementsAt, SizeAt, CountAt, MagicLen
  <2>2. ElementsAt + (BlockAt(f) - 1 - ElementsAt) - 1 <= z
    BY ONLY <1>4, <1>7, <2>1, m \in Nat, t \in Nat, y \in Nat, x \in Nat
  <2>3. BlockAt(f) + IntAt(f, SizeAt) - 1 <= z
    BY <1>4, <1>7
  <2>4. LengthAt(f) + 4 - 1 <= z
    BY <1>4, <1>7
  <2> QED
    BY <1>2, <1>7, <1>9, <2>2, <2>3, <2>4 DEF TableRead, HasItem
<1>11. IntAt(f, LengthAt(f)) = Len(c.code) /\ Len(c.code) \in Nat
  BY <1>6, <1>10, LengthRead, ChunkSizes
<1>12. CodeBytes(f) = x /\ x <= h
  BY <1>1, <1>3, <1>11 DEF CodeBytes, CodeLen, InstructionBytes
<1>13. ~TooLong(f)
  BY <1>3, <1>11, <1>12 DEF TooLong
<1>14. CodeRead(f)
  <2>1. CodeAt(f) + CodeBytes(f) - 1 <= z
    BY <1>4, <1>7, <1>12
  <2> QED
    BY <1>2, <2>1 DEF CodeRead, HasItem
<1>15. ~ (IntAt(f, CountAt) < 0) /\ IntAt(f, SizeAt) \in 0 .. MAX_INSTLEN_BYTES
  BY <1>3, <1>7, <1>8, <1>9
<1>16. file_load(f) = Loaded(f)
  BY <1>5, <1>6, <1>10, <1>13, <1>14, <1>15, Zenon DEF file_load
<1> QED
  BY <1>16 DEF Loaded

(***************************************************************************)
(* A file that agrees still does when it loses its end, or gains the next  *)
(* bytes of what is being written.                                         *)
(***************************************************************************)
Begins(h, f) == Len(h) <= Len(f) /\ \A i \in 1 .. Len(h) : h[i] = f[i]

LEMMA AgreeShorter ==
  ASSUME NEW c \in Chunks, NEW f \in Seq(Bytes), NEW h \in Seq(Bytes),
         Agree(f, c), Begins(h, f)
  PROVE  Agree(h, c)
<1>1. PICK x \in Nat, z \in Nat : x = Len(f) /\ z = Len(h)
  OBVIOUS
<1>2. SUFFICES ASSUME NEW k \in 1 .. Items PROVE Holds(h, Start(c, k - 1), Writes(c)[k])
  BY DEF Agree
<1>3. PICK s \in Nat, w \in Seq(Bytes) :
        s = Start(c, k - 1) /\ w = Writes(c)[k] /\ Holds(f, s, w)
  BY PartHeld
<1>4. ASSUME NEW i \in 1 .. Len(w), s + i <= z
      PROVE  h[s + i] = w[i]
  <2>1. PICK y \in Nat : y = Len(w)
    OBVIOUS
  <2>2. z <= x /\ i \in 1 .. y
    BY <1>1, <2>1 DEF Begins
  <2>3. s + i \in 1 .. z /\ s + i <= x
    BY ONLY <1>4, <2>2, s \in Nat, x \in Nat, z \in Nat, y \in Nat
  <2>4. f[s + i] = w[i]
    BY <1>1, <1>3, <2>3 DEF Holds
  <2>5. h[s + i] = f[s + i]
    BY <1>1, <2>3 DEF Begins
  <2> QED
    BY <2>4, <2>5
<1> QED
  BY <1>1, <1>3, <1>4 DEF Holds

LEMMA AgreeLonger ==
  ASSUME NEW c \in Chunks, NEW f \in Seq(Bytes), Agree(f, c),
         NEW k \in 1 .. Items, Len(f) = Start(c, k - 1),
         NEW g \in Seq(Bytes), Begins(g, Writes(c)[k])
  PROVE  Agree(f \o g, c)
<1>1. PICK x \in Nat, z \in Nat : x = Len(f) /\ z = Len(g)
  OBVIOUS
<1>2. PICK h : h = f \o g
  OBVIOUS
<1>3. /\ h \in Seq(Bytes) /\ Len(h) = x + z
      /\ \A i \in 1 .. x : h[i] = f[i]
      /\ \A i \in 1 .. z : h[x + i] = g[i]
  BY <1>1, <1>2, BytesJoined
<1>4. z <= Len(Writes(c)[k]) /\ Start(c, k) = x + Len(Writes(c)[k])
  BY <1>1, PartHeld DEF Begins
<1>5. ASSUME NEW j \in 1 .. Items
      PROVE  Holds(h, Start(c, j - 1), Writes(c)[j])
  <2>1. PICK s \in Nat, w \in Seq(Bytes) :
          /\ s = Start(c, j - 1) /\ w = Writes(c)[j] /\ Holds(f, s, w)
          /\ Start(c, j) = s + Len(w)
    BY PartHeld
  <2>2. PICK y \in Nat : y = Len(w)
    OBVIOUS
  <2>3. SUFFICES ASSUME NEW i \in 1 .. y, s + i <= x + z
                 PROVE  h[s + i] = w[i]
    BY <1>3, <2>1, <2>2 DEF Holds
  <2>4. CASE s + i <= x
    <3>1. f[s + i] = w[i]
      BY <1>1, <2>1, <2>2, <2>4 DEF Holds
    <3>2. s + i \in 1 .. x
      BY <2>4
    <3> QED
      BY <1>3, <3>1, <3>2
  <2>5. CASE s + i > x
    <3>1. j = k
      <4>1. ~ (j < k)
        <5>1. SUFFICES ASSUME j < k PROVE FALSE
          OBVIOUS
        <5>2. j \in 0 .. Items /\ k - 1 \in 0 .. Items /\ j <= k - 1
          BY <5>1 DEF Items
        <5>3. Start(c, j) <= Start(c, k - 1)
          BY <5>2, StartGrows
        <5>4. s + y <= x
          BY <1>1, <2>1, <2>2, <5>3
        <5> QED
          BY ONLY <5>4, <2>5, i \in 1 .. y, s \in Nat, x \in Nat, y \in Nat
      <4>2. ~ (j > k)
        <5>1. SUFFICES ASSUME j > k PROVE FALSE
          OBVIOUS
        <5>2. k \in 0 .. Items /\ j - 1 \in 0 .. Items /\ k <= j - 1
          BY <5>1 DEF Items
        <5>3. Start(c, k) <= Start(c, j - 1)
          BY <5>2, StartGrows
        <5>4. PICK v \in Nat : v = Len(Writes(c)[k])
          BY PartHeld
        <5>5. x + v <= s /\ z <= v
          BY <1>4, <2>1, <5>3, <5>4
        <5> QED
          BY ONLY <5>5, <2>3, i \in 1 .. y, s \in Nat, x \in Nat, y \in Nat,
                  z \in Nat, v \in Nat
      <4> QED
        BY <4>1, <4>2 DEF Items
    <3>2. s = x /\ w = Writes(c)[k]
      BY <1>1, <2>1, <3>1
    <3>3. i \in 1 .. z
      BY <2>3, <3>2
    <3>4. h[x + i] = g[i]
      BY <1>3, <3>3
    <3>5. g[i] = w[i]
      BY <1>1, <3>2, <3>3 DEF Begins
    <3> QED
      BY <3>2, <3>4, <3>5
  <2> QED
    BY <2>4, <2>5
<1> QED
  BY <1>2, <1>5 DEF Agree

(***************************************************************************)
(* What holds while a pattern is saved: the file, with what is still in    *)
(* the buffer, is the beginning of what was written.                       *)
(***************************************************************************)
Held == file \o pending
SaveType == /\ chunk \in Chunks /\ step \in 0 .. Items
            /\ file \in Seq(Bytes) /\ pending \in Seq(Bytes)
Saved == ~mixed => Agree(Held, chunk)
Saving == result = "saving" =>
            /\ ~mixed /\ Len(Held) = Start(chunk, step)
            /\ step >= NamesAt => chunk.kt.block # <<>>
Whole == result = "OK" =>
           /\ pending = <<>>
           /\ ~cut /\ ~mixed => /\ Len(file) = Start(chunk, Items)
                                /\ chunk.kt.block # <<>>
SaveInv == SaveType /\ Saved /\ Saving /\ Whole

LEMMA EmptyAgrees ==
  ASSUME NEW c \in Chunks
  PROVE  /\ Agree(<<>>, c) /\ Start(c, 0) = 0
<1>1. SUFFICES ASSUME NEW k \in 1 .. Items
               PROVE  Holds(<<>>, Start(c, k - 1), Writes(c)[k])
  BY StartSteps DEF Agree
<1>2. PICK s \in Nat, y \in Nat : s = Start(c, k - 1) /\ y = Len(Writes(c)[k])
  <2>1. k - 1 \in 0 .. Items
    BY DEF Items
  <2>2. Writes(c)[k] \in Seq(Bytes)
    BY WritesAre
  <2> QED
    BY <2>1, <2>2, StartGrows
<1>3. \A i \in 1 .. y : ~ (s + i <= 0)
  OBVIOUS
<1> QED
  BY <1>2, <1>3 DEF Holds

LEMMA Emptied ==
  ASSUME NEW f \in Seq(Bytes)
  PROVE  f \o <<>> = f /\ <<>> \in Seq(Bytes) /\ Len(<<>>) = 0
  OBVIOUS

LEMMA FirstBytes ==
  ASSUME NEW f \in Seq(Bytes), NEW p \in Seq(Bytes), NEW n \in 0 .. Len(p)
  PROVE  /\ f \o p \in Seq(Bytes) /\ Begins(f, f \o p)
         /\ SubSeq(p, 1, n) \in Seq(Bytes)
         /\ f \o SubSeq(p, 1, n) \in Seq(Bytes)
         /\ Begins(f \o SubSeq(p, 1, n), f \o p)
         /\ Begins(SubSeq(p, 1, n), p)
<1>1. PICK a : a = SubSeq(p, 1, n)
  OBVIOUS
<1>2. a \in Seq(Bytes) /\ Len(a) = n /\ \A i \in 1 .. n : a[i] = p[i]
  BY <1>1
<1>3. PICK x \in Nat, z \in Nat : x = Len(f) /\ z = Len(p)
  OBVIOUS
<1>4. /\ f \o p \in Seq(Bytes) /\ Len(f \o p) = x + z
      /\ \A i \in 1 .. x : (f \o p)[i] = f[i]
      /\ \A i \in 1 .. z : (f \o p)[x + i] = p[i]
  BY <1>3, BytesJoined
<1>5. /\ f \o a \in Seq(Bytes) /\ Len(f \o a) = x + n
      /\ \A i \in 1 .. x : (f \o a)[i] = f[i]
      /\ \A i \in 1 .. n : (f \o a)[x + i] = a[i]
  BY <1>2, <1>3, BytesJoined
<1>6. n \in Nat /\ n <= z
  BY <1>3
<1>7. Begins(f, f \o p) /\ Begins(a, p)
  BY <1>2, <1>3, <1>4, <1>6 DEF Begins
<1>8. ASSUME NEW i \in 1 .. x + n
      PROVE  (f \o a)[i] = (f \o p)[i]
  <2>1. CASE i <= x
    <3>1. i \in 1 .. x
      BY <2>1, <1>6
    <3> QED
      BY <1>4, <1>5, <3>1
  <2>2. CASE i > x
    <3>1. PICK j \in 1 .. n : i = x + j
      <4>1. i - x \in 1 .. n /\ i = x + (i - x)
        BY <2>2, <1>6
      <4> QED
        BY <4>1
    <3>2. j \in 1 .. z
      BY <1>6
    <3> QED
      BY <1>2, <1>4, <1>5, <3>1, <3>2
  <2>3. i <= x \/ i > x
    BY <1>6
  <2> QED
    BY <2>1, <2>2, <2>3
<1>9. Begins(f \o a, f \o p)
  BY <1>4, <1>5, <1>6, <1>8 DEF Begins
<1> QED
  BY <1>1, <1>2, <1>4, <1>5, <1>7, <1>9

LEMMA Regrouped ==
  ASSUME NEW f \in Seq(Bytes), NEW p \in Seq(Bytes), NEW g \in Seq(Bytes)
  PROVE  /\ f \o (p \o g) = (f \o p) \o g
         /\ p \o g \in Seq(Bytes) /\ f \o p \in Seq(Bytes)
  OBVIOUS

LEMMA Divided ==
  ASSUME NEW f \in Seq(Bytes), NEW p \in Seq(Bytes), NEW n \in 1 .. Len(p)
  PROVE  /\ f \o SubSeq(p, 1, n) \in Seq(Bytes)
         /\ SubSeq(p, n + 1, Len(p)) \in Seq(Bytes)
         /\ (f \o SubSeq(p, 1, n)) \o SubSeq(p, n + 1, Len(p)) = f \o p
<1>1. PICK a : a = SubSeq(p, 1, n)
  OBVIOUS
<1>2. PICK b : b = SubSeq(p, n + 1, Len(p))
  OBVIOUS
<1>3. PICK z \in Nat : z = Len(p)
  OBVIOUS
<1>4. n \in 1 .. z
  BY <1>3
<1>5. a \in Seq(Bytes) /\ Len(a) = n /\ \A i \in 1 .. n : a[i] = p[i]
  BY <1>1
<1>6. b \in Seq(Bytes) /\ Len(b) = z - n /\ \A i \in 1 .. z - n : b[i] = p[n + i]
  BY <1>2, <1>3
<1>7. a \o b = p
  <2>1. /\ a \o b \in Seq(Bytes) /\ Len(a \o b) = n + (z - n)
        /\ \A i \in 1 .. n : (a \o b)[i] = a[i]
        /\ \A i \in 1 .. z - n : (a \o b)[n + i] = b[i]
    <3>1. PICK y \in Nat : y = z - n
      BY <1>4
    <3>2. b \in Seq(Bytes) /\ Len(b) = y
      BY <1>6, <3>1
    <3>3. a \in Seq(Bytes) /\ Len(a) = n
      BY <1>5
    <3>4. /\ a \o b \in Seq(Bytes) /\ Len(a \o b) = Len(a) + Len(b)
          /\ \A i \in 1 .. Len(a) : (a \o b)[i] = a[i]
          /\ \A i \in 1 .. Len(b) : (a \o b)[Len(a) + i] = b[i]
      BY <3>2, <3>3, BytesJoined, Zenon
    <3> QED
      BY <3>1, <3>2, <3>3, <3>4
  <2>2. n + (z - n) = z
    BY <1>4
  <2>3. ASSUME NEW i \in 1 .. z
        PROVE  (a \o b)[i] = p[i]
    <3>1. CASE i <= n
      <4>1. i \in 1 .. n
        BY <3>1
      <4> QED
        BY <1>5, <2>1, <4>1
    <3>2. CASE i > n
      <4>1. i - n \in 1 .. z - n /\ n + (i - n) = i
        BY <1>4, <3>2
      <4> QED
        BY <1>6, <2>1, <4>1
    <3>3. i <= n \/ i > n
      BY <1>4
    <3> QED
      BY <3>1, <3>2, <3>3
  <2>4. PICK q : q = a \o b
    OBVIOUS
  <2>5. q \in Seq(Bytes) /\ Len(q) = z /\ \A i \in 1 .. z : q[i] = p[i]
    BY <2>1, <2>2, <2>3, <2>4
  <2>6. q = [i \in 1 .. z |-> q[i]] /\ p = [i \in 1 .. z |-> p[i]]
    BY <1>3, <2>5
  <2> QED
    BY <2>4, <2>5, <2>6
<1>8. (f \o a) \o b = f \o (a \o b) /\ f \o a \in Seq(Bytes)
  BY <1>5, <1>6, Regrouped
<1> QED
  BY <1>1, <1>2, <1>6, <1>7, <1>8

LEMMA BeginsItself ==
  ASSUME NEW g \in Seq(Bytes)
  PROVE  Begins(g, g)
  BY DEF Begins

LEMMA NextWrite ==
  ASSUME SaveInv, step < Len(Writes(chunk))
  PROVE  /\ step + 1 \in 1 .. Items /\ step + 1 \in 0 .. Items
         /\ Todo \in Seq(Bytes) /\ Held \in Seq(Bytes)
         /\ Start(chunk, step + 1) = Start(chunk, step) + Len(Todo)
<1>1. /\ chunk \in Chunks /\ step \in 0 .. Items
      /\ file \in Seq(Bytes) /\ pending \in Seq(Bytes)
  BY DEF SaveInv, SaveType
<1>2. Len(Writes(chunk)) = Items
  BY <1>1, WritesAre
<1>3. step + 1 \in 1 .. Items /\ (step + 1) - 1 = step /\ step + 1 \in 0 .. Items
  BY <1>1, <1>2 DEF Items
<1>4. Writes(chunk) \in Seq(Seq(Bytes))
  BY <1>1, WritesAre
<1>5. Todo \in Seq(Bytes)
  BY <1>2, <1>3, <1>4, ElementsOfSeq DEF Todo
<1>6. Start(chunk, step + 1) = Start(chunk, (step + 1) - 1) + Len(Todo)
  BY <1>1, <1>3, WritesAre DEF Todo
<1>7. Held \in Seq(Bytes)
  BY <1>1, Regrouped DEF Held
<1> QED
  BY <1>3, <1>5, <1>6, <1>7

LEMMA SaveInvInit == Init => SaveInv
<1> SUFFICES ASSUME Init PROVE SaveInv
  OBVIOUS
<1>1. /\ file = <<>> /\ pending = <<>> /\ chunk \in Chunks /\ step = 0
      /\ result = "none"
  BY DEF Init
<1>2. SaveType
  BY <1>1 DEF SaveType, Items
<1>3. Held = <<>>
  BY <1>1 DEF Held
<1>4. Saved
  BY <1>1, <1>3, EmptyAgrees DEF Saved
<1> QED
  BY <1>1, <1>2, <1>4 DEF SaveInv, Saving, Whole

LEMMA SaveInvKept == SaveInv /\ [Next]_vars => SaveInv'
<1> SUFFICES ASSUME SaveInv, [Next]_vars
             PROVE  SaveInv'
  OBVIOUS
<1>0. /\ chunk \in Chunks /\ step \in 0 .. Items
      /\ file \in Seq(Bytes) /\ pending \in Seq(Bytes) /\ Held \in Seq(Bytes)
  BY Regrouped DEF SaveInv, SaveType, Held
<1>1. CASE Open
  <2>1. /\ chunk' \in Chunks /\ file' = <<>> /\ pending' = <<>> /\ step' = 0
        /\ result' = "saving" /\ mixed' = FALSE
    BY <1>1 DEF Open
  <2>2. SaveType'
    BY <2>1 DEF SaveType, Items
  <2>3. Held' = <<>>
    BY <2>1 DEF Held
  <2>4. Agree(<<>>, chunk') /\ Start(chunk', 0) = 0
    BY <2>1, EmptyAgrees
  <2>5. Saved'
    BY <2>3, <2>4 DEF Saved
  <2>6. Saving'
    BY <2>1, <2>3, <2>4 DEF Saving, NamesAt
  <2> QED
    BY <2>1, <2>2, <2>5, <2>6 DEF SaveInv, Whole
<1>2. CASE NoFile
  <2>1. /\ result' = "NOFILE"
        /\ UNCHANGED <<file, chunk, step, pending, strays, cut, mixed>>
    BY <1>2 DEF NoFile
  <2> QED
    BY <2>1 DEF SaveInv, SaveType, Saved, Held, Saving, Whole
<1>3. CASE Write
  <2>1. /\ result = "saving" /\ step < Len(Writes(chunk)) /\ ~NoNames
        /\ pending' = pending \o Todo /\ step' = step + 1
        /\ UNCHANGED <<file, chunk, result, strays, cut, mixed>>
    BY <1>3 DEF Write
  <2>2. /\ step + 1 \in 1 .. Items /\ step + 1 \in 0 .. Items
        /\ Todo \in Seq(Bytes)
        /\ Start(chunk, step + 1) = Start(chunk, step) + Len(Todo)
    BY <2>1, NextWrite
  <2>3. /\ pending \o Todo \in Seq(Bytes)
        /\ file \o (pending \o Todo) = Held \o Todo
    BY <1>0, <2>2, Regrouped DEF Held
  <2>4. Held' = Held \o Todo
    BY <2>1, <2>3 DEF Held
  <2>5. ~mixed /\ Len(Held) = Start(chunk, step) /\ Agree(Held, chunk)
        /\ (step >= NamesAt => chunk.kt.block # <<>>)
    BY <2>1 DEF SaveInv, Saving, Saved
  <2>6. Agree(Held \o Todo, chunk)
    <3>1. PICK c \in Chunks, h \in Seq(Bytes), g \in Seq(Bytes), k \in 1 .. Items :
            c = chunk /\ h = Held /\ g = Todo /\ k = step + 1
      BY <1>0, <2>2
    <3>2. Len(h) = Start(c, k - 1) /\ g = Writes(c)[k] /\ Agree(h, c)
      BY <1>0, <2>5, <3>1 DEF Todo
    <3>3. Begins(g, Writes(c)[k])
      BY <3>2, BeginsItself
    <3> QED
      BY <3>1, <3>2, <3>3, AgreeLonger
  <2>7. Len(Held \o Todo) = Start(chunk, step + 1)
    <3>1. Len(Held \o Todo) = Len(Held) + Len(Todo)
      BY <1>0, <2>2, BytesJoined
    <3> QED
      BY <2>2, <2>5, <3>1
  <2>8. step + 1 >= NamesAt => chunk.kt.block # <<>>
    <3>1. CASE step >= NamesAt
      BY <2>5, <3>1
    <3>2. CASE step + 1 = NamesAt
      <4>1. Todo # <<>>
        BY <2>1, <3>2 DEF NoNames
      <4>2. Todo = chunk.kt.block
        BY <1>0, <3>2, WrittenParts DEF Todo, NamesAt
      <4> QED
        BY <4>1, <4>2
    <3>3. step + 1 >= NamesAt => step >= NamesAt \/ step + 1 = NamesAt
      BY <1>0 DEF NamesAt
    <3> QED
      BY <3>1, <3>2, <3>3
  <2>9. SaveType'
    BY <1>0, <2>1, <2>2, <2>3 DEF SaveType
  <2>10. Saved' /\ Saving'
    BY <2>1, <2>4, <2>5, <2>6, <2>7, <2>8 DEF Saved, Saving
  <2>11. Whole'
    BY <2>1 DEF Whole
  <2> QED
    BY <2>9, <2>10, <2>11 DEF SaveInv
<1>4. CASE Fails
  <2>1. PICK taken \in {0, Len(Todo) - 1} \cap Nat :
          pending' = pending \o SubSeq(Todo, 1, taken)
    BY <1>4 DEF Fails
  <2>2. /\ result = "saving" /\ step < Len(Writes(chunk)) /\ result' = "WRITE"
        /\ UNCHANGED <<file, chunk, step, strays, cut, mixed>>
    BY <1>4 DEF Fails
  <2>3. /\ step + 1 \in 1 .. Items /\ Todo \in Seq(Bytes)
        /\ Start(chunk, step + 1) = Start(chunk, step) + Len(Todo)
    BY <2>2, NextWrite
  <2>4. Len(Todo) \in Nat
    BY <2>3
  <2>5. taken \in 0 .. Len(Todo)
    BY <2>1, <2>4
  <2>6. PICK c \in Chunks, h \in Seq(Bytes), w \in Seq(Bytes), k \in 1 .. Items :
          c = chunk /\ h = Held /\ w = Todo /\ k = step + 1
    BY <1>0, <2>3
  <2>g. PICK g \in Seq(Bytes) : g = SubSeq(Todo, 1, taken) /\ Begins(g, w)
    <3>1. taken \in 0 .. Len(w)
      BY <2>5, <2>6
    <3>2. SubSeq(w, 1, taken) \in Seq(Bytes) /\ Begins(SubSeq(w, 1, taken), w)
      BY <3>1, FirstBytes
    <3> QED
      BY <2>6, <3>2
  <2>7. /\ pending \o g \in Seq(Bytes) /\ file \o (pending \o g) = h \o g
    <3>1. PICK f \in Seq(Bytes), p \in Seq(Bytes) : f = file /\ p = pending
      BY <1>0
    <3>2. f \o (p \o g) = (f \o p) \o g /\ p \o g \in Seq(Bytes)
      BY ONLY Regrouped, f \in Seq(Bytes), p \in Seq(Bytes), g \in Seq(Bytes)
    <3> QED
      BY <2>6, <3>1, <3>2 DEF Held
  <2>8. pending' = pending \o g /\ Held' = h \o g
    BY <2>1, <2>2, <2>g, <2>7 DEF Held
  <2>9. ~mixed /\ Agree(h, c) /\ Len(h) = Start(c, k - 1) /\ w = Writes(c)[k]
    BY <1>0, <2>2, <2>6 DEF SaveInv, Saving, Saved, Todo
  <2>10. Agree(h \o g, c)
    BY <2>6, <2>g, <2>9, AgreeLonger
  <2>11. SaveType'
    BY <1>0, <2>2, <2>7, <2>8 DEF SaveType
  <2>12. Saved'
    BY <2>2, <2>6, <2>8, <2>10 DEF Saved
  <2> QED
    BY <2>2, <2>11, <2>12 DEF SaveInv, Saving, Whole
<1>5. CASE Flush
  <2>1. PICK n \in DOMAIN pending :
          /\ file' = file \o SubSeq(pending, 1, n)
          /\ pending' = SubSeq(pending, n + 1, Len(pending))
    BY <1>5 DEF Flush
  <2>2. UNCHANGED <<chunk, step, result, strays, cut, mixed>>
    BY <1>5 DEF Flush
  <2>3. n \in 1 .. Len(pending)
    BY <1>0, <2>1
  <2>4. file' \in Seq(Bytes) /\ pending' \in Seq(Bytes) /\ Held' = Held
    BY <1>0, <2>1, <2>3, Divided DEF Held
  <2>5. result # "OK"
    <3>1. pending # <<>>
      BY <1>0, <2>3
    <3> QED
      BY <3>1 DEF SaveInv, Whole
  <2>6. SaveType'
    BY <1>0, <2>2, <2>4 DEF SaveType
  <2>7. Saved' /\ Saving'
    BY <2>2, <2>4 DEF SaveInv, Saved, Saving
  <2>8. Whole'
    BY <2>2, <2>5 DEF Whole
  <2> QED
    BY <2>6, <2>7, <2>8 DEF SaveInv
<1>6. CASE Close
  <2>1. /\ result = "saving" /\ step = Len(Writes(chunk))
        /\ result' = "OK" /\ pending' = <<>>
        /\ UNCHANGED <<chunk, step, strays, mixed>>
    BY <1>6 DEF Close
  <2>2. step = Items
    BY <1>0, <2>1, WritesAre
  <2>3. /\ ~mixed /\ Len(Held) = Start(chunk, Items) /\ Agree(Held, chunk)
        /\ chunk.kt.block # <<>>
    <3>1. Items >= NamesAt
      BY DEF Items, NamesAt
    <3> QED
      BY <2>1, <2>2, <3>1 DEF SaveInv, Saving, Saved
  <2>4. CASE CloseFull
    <3>1. file' = Held
      BY <2>4 DEF CloseFull, Held
    <3>2. Held' = Held
      BY <1>0, <2>1, <3>1, Emptied DEF Held
    <3>3. SaveType'
      BY <1>0, <2>1, <3>1 DEF SaveType
    <3>4. Saved' /\ Saving' /\ Whole'
      BY <2>1, <2>3, <3>1, <3>2 DEF Saved, Saving, Whole
    <3> QED
      BY <3>3, <3>4 DEF SaveInv
  <2>5. CASE CloseCut
    <3>1. PICK n \in DOMAIN pending : file' = file \o SubSeq(pending, 1, n - 1)
      BY <2>5 DEF CloseCut
    <3>2. cut' = TRUE
      BY <2>5 DEF CloseCut
    <3>3. n - 1 \in 0 .. Len(pending)
      BY <1>0, <3>1
    <3>4. PICK c \in Chunks, f \in Seq(Bytes), p \in Seq(Bytes) :
            c = chunk /\ f = file /\ p = pending
      BY <1>0
    <3>m. PICK m \in 0 .. Len(p) : m = n - 1
      BY <3>3, <3>4
    <3>5. f \o SubSeq(p, 1, m) \in Seq(Bytes) /\ f \o p \in Seq(Bytes)
          /\ Begins(f \o SubSeq(p, 1, m), f \o p)
      BY FirstBytes
    <3>6. Agree(f \o p, c)
      BY <2>3, <3>4 DEF Held
    <3>7. Agree(f \o SubSeq(p, 1, m), c)
      BY <3>4, <3>5, <3>6, AgreeShorter
    <3>8. file' = f \o SubSeq(p, 1, m)
      BY <3>1, <3>4, <3>m
    <3>9. Held' = f \o SubSeq(p, 1, m)
      BY <2>1, <3>5, <3>8, Emptied DEF Held
    <3>10. SaveType'
      BY <1>0, <2>1, <3>5, <3>8 DEF SaveType
    <3>11. Saved' /\ Saving' /\ Whole'
      BY <2>1, <3>2, <3>4, <3>7, <3>9 DEF Saved, Saving, Whole
    <3> QED
      BY <3>10, <3>11 DEF SaveInv
  <2> QED
    BY <1>6, <2>4, <2>5 DEF Close
<1>7. CASE Die
  <2>1. /\ result' = "died" /\ pending' = <<>>
        /\ UNCHANGED <<file, chunk, step, cut, mixed>>
    BY <1>7 DEF Die
  <2>2. PICK c \in Chunks, f \in Seq(Bytes), p \in Seq(Bytes) :
          c = chunk /\ f = file /\ p = pending
    BY <1>0
  <2>3. Begins(f, f \o p) /\ f \o p \in Seq(Bytes)
    <3>1. 0 \in 0 .. Len(p)
      BY <2>2
    <3> QED
      BY <3>1, FirstBytes
  <2>4. ~mixed => Agree(f \o p, c)
    BY <2>2 DEF SaveInv, Saved, Held
  <2>5. ~mixed => Agree(f, c)
    BY <2>2, <2>3, <2>4, AgreeShorter
  <2>6. Held' = f
    BY <2>1, <2>2, Emptied DEF Held
  <2>7. SaveType'
    BY <1>0, <2>1 DEF SaveType
  <2>8. Saved'
    BY <2>1, <2>2, <2>5, <2>6 DEF Saved
  <2> QED
    BY <2>1, <2>7, <2>8 DEF SaveInv, Saving, Whole
<1>8. CASE Exit
  <2>1. /\ result # "saving" /\ (strays \/ pending # <<>>)
        /\ file' = Held /\ pending' = <<>> /\ mixed' = (mixed \/ strays)
        /\ UNCHANGED <<chunk, step, result, cut>>
    BY <1>8 DEF Exit, Held
  <2>2. Held' = Held
    BY <1>0, <2>1, Emptied DEF Held
  <2>3. SaveType'
    BY <1>0, <2>1 DEF SaveType
  <2>4. Saved'
    BY <2>1, <2>2 DEF SaveInv, Saved
  <2>5. ~mixed' => ~mixed /\ ~strays /\ pending # <<>>
    BY <2>1
  <2>6. Whole'
    <3>1. result = "OK" => mixed'
      BY <2>5 DEF SaveInv, Whole
    <3> QED
      BY <2>1, <3>1 DEF Whole
  <2> QED
    BY <2>1, <2>3, <2>4, <2>6 DEF SaveInv, Saving
<1>9. CASE UNCHANGED vars
  BY <1>9 DEF vars, SaveInv, SaveType, Saved, Held, Saving, Whole
<1> QED
  BY <1>1, <1>2, <1>3, <1>4, <1>5, <1>6, <1>7, <1>8, <1>9 DEF Next

LEMMA SaveInvCorrect == Spec => []SaveInv
<1>1. Init => SaveInv
  BY SaveInvInit
<1>2. SaveInv /\ [Next]_vars => SaveInv'
  BY SaveInvKept
<1> QED
  BY <1>1, <1>2, PTL DEF Spec

(* Whatever patterns are saved, of any length, and wherever a crash, an    *)
(* error or fclose cuts the file, what file_load accepts is the whole      *)
(* pattern that was saved last (file.c).                                   *)
THEOREM LoadedIsSavedCorrect == Spec => []LoadedIsSaved
<1>1. SaveInv => LoadedIsSaved
  <2> SUFFICES ASSUME SaveInv, file_load(file).err = "OK", ~mixed
               PROVE  /\ file_load(file).code = chunk.code
                      /\ Names(file_load(file).kt) = Names(chunk.kt)
    BY DEF LoadedIsSaved
  <2>1. PICK c \in Chunks, f \in Seq(Bytes), p \in Seq(Bytes) :
          c = chunk /\ f = file /\ p = pending
    BY DEF SaveInv, SaveType
  <2>2. Agree(f \o p, c)
    BY <2>1 DEF SaveInv, Saved, Held
  <2>3. Begins(f, f \o p) /\ f \o p \in Seq(Bytes)
    <3>1. 0 \in 0 .. Len(p)
      BY <2>1
    <3> QED
      BY <3>1, FirstBytes
  <2>4. Agree(f, c)
    BY <2>2, <2>3, AgreeShorter
  <2>5. file_load(f).err = "OK"
    BY <2>1
  <2>6. file_load(f).code = c.code /\ Names(file_load(f).kt) = Names(c.kt)
    BY <2>4, <2>5, LoadedIs
  <2> QED
    BY <2>1, <2>6
<1> QED
  BY <1>1, SaveInvCorrect, PTL

(* After a save that returned FILE_OK and whose fclose lost nothing,       *)
(* file_load accepts the file, whatever the pattern, unless its names or   *)
(* its code are longer than file_load allows (file.c).                     *)
THEOREM SavedLoadsCorrect == Spec => []SavedLoads
<1>1. SaveInv => SavedLoads
  <2> SUFFICES ASSUME SaveInv, result = "OK", ~cut, ~mixed
               PROVE  \/ file_load(file).err = "OK"
                      \/ Len(chunk.kt.block) > MAX_INSTLEN_BYTES
                      \/ InstructionBytes * Len(chunk.code) > MAX_INSTLEN_BYTES
    BY DEF SavedLoads
  <2>1. PICK c \in Chunks, f \in Seq(Bytes) : c = chunk /\ f = file
    BY DEF SaveInv, SaveType
  <2>2. /\ Len(f) = Start(c, Items) /\ c.kt.block # <<>> /\ pending = <<>>
        /\ Agree(f \o <<>>, c)
    BY <2>1 DEF SaveInv, Whole, Saved, Held
  <2>3. Agree(f, c)
    BY <2>2, Emptied
  <2>4. PICK y \in Nat, z \in Nat, h \in Nat :
          y = Len(c.kt.block) /\ z = InstructionBytes * Len(c.code)
          /\ h = MAX_INSTLEN_BYTES
    BY <2>1, ChunkSizes, FileAssumption DEF InstructionBytes
  <2>5. CASE y <= h /\ z <= h
    BY <2>1, <2>2, <2>3, <2>4, <2>5, WholeLoads
  <2>6. CASE y > h \/ z > h
    BY <2>1, <2>4, <2>6
  <2> QED
    BY <2>4, <2>5, <2>6
<1> QED
  BY <1>1, SaveInvCorrect, PTL
==============================================================================

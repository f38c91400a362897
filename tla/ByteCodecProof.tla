--------------------------- MODULE ByteCodecProof ---------------------------
(***************************************************************************)
(* Theorems about the integers of the byte encoding, for bytes of any      *)
(* size, and about the recursive functions that sequences are folded with. *)
(***************************************************************************)
EXTENDS ByteCodec, SequenceTheorems, WellFoundedInduction, TLAPS

(***************************************************************************)
(* Induction over the numbers, in the form of a least element.             *)
(***************************************************************************)
LEMMA LessIsInRelation ==
  \A x, y \in Nat : x < y => <<x, y>> \in OpToRel(<, Nat)
  BY DEF OpToRel

LEMMA LeastNumber ==
  ASSUME NEW T \in SUBSET Nat, T # {}
  PROVE  \E x \in T : \A y \in T : x <= y
  <1>1. IsWellFoundedOn(OpToRel(<, Nat), Nat)
    BY NatLessThanWellFounded
  <1>2. PICK x \in T : \A y \in T : ~ (<<y, x>> \in OpToRel(<, Nat))
    BY <1>1, WFMin
  <1>3. ASSUME NEW y \in T PROVE x <= y
    <2>1. ~ (y < x) BY <1>2, LessIsInRelation
    <2> QED BY <2>1
  <1> QED BY <1>3

(***************************************************************************)
(* What is written is made of bytes.                                       *)
(***************************************************************************)
LEMMA ByteSizes ==
  /\ Radix \in Nat \ {0} /\ Short \in Nat \ {0} /\ Int4 \in Nat \ {0}
  /\ Radix * Short \in Nat \ {0}
  <1>1. Radix \in Nat \ {0} BY RadixAssumption
  <1>2. \A x, y \in Nat \ {0} : x * y \in Nat \ {0} OBVIOUS
  <1> QED BY <1>1, <1>2 DEF Short, Int4

LEMMA DivisionBelow ==
  ASSUME NEW r \in Nat \ {0}, NEW v \in Nat, v < r * r
  PROVE  v \div r \in 0 .. r - 1
  <1> DEFINE q == v \div r
  <1>1. q \in Nat OBVIOUS
  <1>2. r * q <= v OBVIOUS
  <1> HIDE DEF q
  <1>3. \A x, y \in Nat : x >= y => r * x >= r * y OBVIOUS
  <1>4. q >= r => r * q >= r * r BY <1>1, <1>3
  <1>5. r * q \in Nat /\ r * r \in Nat BY <1>1
  <1>6. q < r BY <1>1, <1>2, <1>4, <1>5
  <1>7. q \in 0 .. r - 1 BY <1>1, <1>6
  <1> QED BY <1>7 DEF q

LEMMA LowByte == ASSUME NEW u \in Int PROVE u % Radix \in Bytes
  BY ByteSizes DEF Bytes

LEMMA IntBytes ==
  ASSUME NEW i \in Int
  PROVE  int_to_string(i) \in Seq(Bytes) /\ Len(int_to_string(i)) = 4
  <1> DEFINE u == i % Int4
  <1>1. u \in Int BY ByteSizes
  <1>2. u \div Radix \in Int /\ u \div Short \in Int
          /\ u \div (Radix * Short) \in Int
    BY <1>1, ByteSizes
  <1> HIDE DEF u
  <1>3. /\ u % Radix \in Bytes /\ (u \div Radix) % Radix \in Bytes
        /\ (u \div Short) % Radix \in Bytes
        /\ (u \div (Radix * Short)) % Radix \in Bytes
    BY <1>1, <1>2, LowByte
  <1>4. int_to_string(i) = << u % Radix, (u \div Radix) % Radix,
           (u \div Short) % Radix, (u \div (Radix * Short)) % Radix >>
    BY DEF int_to_string, u
  <1> QED BY <1>3, <1>4

LEMMA ShortBytes ==
  ASSUME NEW i \in Int
  PROVE  short_to_string(i) \in Seq(Bytes) /\ Len(short_to_string(i)) = 2
  <1> DEFINE u == i % Short
  <1>1. u \in 0 .. Short - 1 BY ByteSizes
  <1>2. u % Radix \in Bytes BY <1>1, LowByte
  <1>3. u \in Nat /\ u < Radix * Radix /\ Radix \in Nat \ {0}
    BY <1>1, ByteSizes DEF Short
  <1>4. u \div Radix \in Bytes BY <1>3, DivisionBelow DEF Bytes
  <1> HIDE DEF u
  <1>5. short_to_string(i) = << u % Radix, u \div Radix >>
    BY DEF short_to_string, u
  <1> QED BY <1>2, <1>4, <1>5

(***************************************************************************)
(* Ints are read back as they were written, whatever the base.             *)
(***************************************************************************)
LEMMA Quotients ==
  ASSUME NEW u \in Nat, NEW r \in Nat \ {0}
  PROVE  /\ u \div r \in Nat /\ u % r \in 0 .. r - 1
         /\ u = r * (u \div r) + (u % r)
  <1>1. u \div r \in Nat OBVIOUS
  <1>2. u % r \in 0 .. r - 1 OBVIOUS
  <1>3. u = r * (u \div r) + (u % r) OBVIOUS
  <1> QED BY <1>1, <1>2, <1>3

LEMMA QuotientOfQuotient ==
  ASSUME NEW u \in Nat, NEW r \in Nat \ {0}, NEW t \in Nat \ {0}
  PROVE  u \div (t * r) = (u \div t) \div r
  <1> DEFINE p == u \div t
             q == p \div r
             a == u % t
             c == p % r
  <1>1. p \in Nat /\ a \in 0 .. t - 1 /\ u = t * p + a BY Quotients
  <1> HIDE DEF p, a
  <1>2. q \in Nat /\ c \in 0 .. r - 1 /\ p = r * q + c BY <1>1, Quotients
  <1> HIDE DEF q, c
  <1>3. t * p = (t * r) * q + t * c BY <1>1, <1>2
  <1>4. t * c \in Nat /\ t * c + a \in Nat BY <1>1, <1>2
  <1>5. t * c + t <= t * r
    <2>1. \A x, y \in Nat : x <= y => t * x <= t * y OBVIOUS
    <2>2. t * (c + 1) <= t * r BY <1>2, <2>1
    <2>3. t * (c + 1) = t * c + t BY <1>2
    <2> QED BY <2>2, <2>3
  <1>6. t * r \in Nat \ {0} BY <1>1
  <1>7. u = (t * r) * q + (t * c + a) /\ t * c + a < t * r
    BY <1>1, <1>2, <1>3, <1>4, <1>5, <1>6
  <1>8. \A d \in Nat \ {0}, e \in Nat, x \in Nat :
           e < d => (d * x + e) \div d = x
    OBVIOUS
  <1>9. u \div (t * r) = q BY <1>2, <1>4, <1>6, <1>7, <1>8
  <1> QED BY <1>9 DEF p, q

LEMMA HalfOfInt4 == Int4 = 2 * (Int4 \div 2) /\ Int4 \div 2 \in Nat \ {0}
  <1> DEFINE h == Radix \div 2
  <1>1. h \in Nat \ {0} /\ Radix = 2 * h
    <2>1. Radix \in Nat \ {0} /\ Radix % 2 = 0 BY RadixAssumption
    <2> QED BY <2>1
  <1> HIDE DEF h
  <1> DEFINE k == h * Radix * Short
  <1>2. k \in Nat \ {0}
    <2>1. \A x, y \in Nat \ {0} : x * y \in Nat \ {0} OBVIOUS
    <2> QED BY <1>1, <2>1, ByteSizes
  <1>3. Int4 = 2 * k
    <2>1. Int4 = (2 * h) * Radix * Short BY <1>1 DEF Int4, Short
    <2>2. h \in Nat /\ Radix \in Nat /\ Short \in Nat BY <1>1, ByteSizes
    <2>3. (2 * h) * Radix * Short = 2 * (h * Radix * Short) BY <2>2
    <2> QED BY <2>1, <2>3
  <1> HIDE DEF k
  <1>4. Int4 \div 2 = k BY <1>2, <1>3
  <1> QED BY <1>2, <1>3, <1>4

(* string_to_int undoes int_to_string for every int of four bytes: this is *)
(* how the positions of a match travel from byte.c to lpcap.c.             *)
THEOREM IntsReadBack ==
  ASSUME NEW i \in Ints
  PROVE  string_to_int(int_to_string(i)) = i
  <1> DEFINE u == i % Int4
             r == Radix
             u1 == u \div r
             u2 == u1 \div r
             u3 == u2 \div r
             d == int_to_string(i)
  <1>0. i \in Int /\ r \in Nat \ {0} BY ByteSizes, HalfOfInt4 DEF Ints
  <1>1. u \in Nat /\ u < Int4 BY <1>0, ByteSizes
  <1>2. i >= 0 => u = i BY <1>0, HalfOfInt4, ByteSizes DEF Ints
  <1>3. i < 0 => u = i + Int4 BY <1>0, HalfOfInt4, ByteSizes DEF Ints
  <1> HIDE DEF u
  <1>4. u1 \in Nat /\ u % r \in 0 .. r - 1 /\ u = r * u1 + (u % r)
    BY <1>0, <1>1, Quotients
  <1>5. u2 \in Nat /\ u1 % r \in 0 .. r - 1 /\ u1 = r * u2 + (u1 % r)
    BY <1>0, <1>4, Quotients
  <1>6. u3 \in Nat /\ u2 % r \in 0 .. r - 1 /\ u2 = r * u3 + (u2 % r)
    BY <1>0, <1>5, Quotients
  <1>7. u \div Short = u2 BY <1>0, <1>1, QuotientOfQuotient DEF Short
  <1>8. u \div (r * Short) = u3
    <2>1. Short \in Nat \ {0} /\ r * Short = Short * r BY <1>0, ByteSizes
    <2>2. u \div (Short * r) = (u \div Short) \div r
      BY <1>0, <1>1, <2>1, QuotientOfQuotient
    <2> QED BY <1>7, <2>1, <2>2
  <1>9. d = << u % r, u1 % r, u2 % r, u3 % r >>
    BY <1>7, <1>8 DEF int_to_string, u
  <1> HIDE DEF r, u1, u2, u3, d
  <1>10. u3 < r
    <2>1. u2 = r * u3 + (u2 % r) /\ u1 = r * u2 + (u1 % r) BY <1>5, <1>6
    <2>2. u >= r * u1 /\ u1 >= r * u2 /\ u2 >= r * u3
      BY <1>0, <1>4, <1>5, <1>6
    <2>3. \A x, y, z \in Nat : x >= y => z * x >= z * y OBVIOUS
    <2>4. r * u2 \in Nat /\ r * u3 \in Nat /\ r * r \in Nat
            /\ r * (r * r) \in Nat /\ r * (r * u3) \in Nat
            /\ r * (r * (r * u3)) \in Nat /\ r * u1 \in Nat
            /\ r * (r * u2) \in Nat /\ r * (r * (r * r)) \in Nat
      BY <1>0, <1>4, <1>5, <1>6
    <2>5. u >= r * (r * (r * u3))
      <3>1. r * u2 >= r * (r * u3) BY <1>0, <1>5, <2>2, <2>3, <2>4
      <3>2. u1 >= r * (r * u3) BY <1>4, <1>5, <2>2, <2>4, <3>1
      <3>3. r * u1 >= r * (r * (r * u3)) BY <1>0, <1>4, <2>3, <2>4, <3>2
      <3> QED BY <1>1, <2>2, <2>4, <3>3
    <2>6. u3 >= r => r * (r * (r * u3)) >= r * (r * (r * r))
      <3>1. SUFFICES ASSUME u3 >= r
                     PROVE  r * (r * (r * u3)) >= r * (r * (r * r))
        OBVIOUS
      <3>2. r * u3 >= r * r BY <1>0, <1>6, <2>3, <3>1
      <3>3. r * (r * u3) >= r * (r * r) BY <1>0, <2>3, <2>4, <3>2
      <3> QED BY <1>0, <2>3, <2>4, <3>3
    <2>7. Int4 = r * (r * (r * r)) BY <1>0 DEF Int4, Short, r
    <2> QED BY <1>0, <1>1, <1>6, <2>4, <2>5, <2>6, <2>7
  <1>11. u3 % r = u3 BY <1>0, <1>6, <1>10
  <1>12. string_to_int(d) = Signed(u, Int4)
    <2>1. /\ d[1] = u % r /\ d[2] = u1 % r /\ d[3] = u2 % r /\ d[4] = u3
      BY <1>9, <1>11
    <2>2. u % r \in Nat /\ u1 % r \in Nat /\ u2 % r \in Nat
      BY <1>0, <1>4, <1>5, <1>6
    <2>3. u = d[1] + r * d[2] + (r * r) * d[3] + (r * (r * r)) * d[4]
      <3>1. u = d[1] + r * u1 /\ u1 = d[2] + r * u2 /\ u2 = d[3] + r * d[4]
        BY <1>0, <1>4, <1>5, <1>6, <2>1, <2>2
      <3>2. \A x, y, z, v \in Nat :
              x + r * (y + r * (z + r * v))
                = x + r * y + (r * r) * z + (r * (r * r)) * v
        BY <1>0
      <3> QED BY <1>6, <2>1, <2>2, <3>1, <3>2
    <2>4. Short = r * r BY DEF Short, r
    <2> QED BY <2>3, <2>4 DEF string_to_int, r
  <1>13. Signed(u, Int4) = i
    BY <1>0, <1>1, <1>2, <1>3, HalfOfInt4 DEF Signed, Ints
  <1> QED BY <1>12, <1>13 DEF d

LEMMA HalfOfShort ==
  /\ Radix = 2 * (Radix \div 2) /\ Radix \div 2 \in Nat \ {0}
  /\ Short = 2 * (Short \div 2) /\ Short \div 2 \in Nat \ {0}
  <1> DEFINE h == Radix \div 2
             k == h * Radix
  <1>1. h \in Nat \ {0} /\ Radix = 2 * h
    <2>1. Radix \in Nat \ {0} /\ Radix % 2 = 0 BY RadixAssumption
    <2> QED BY <2>1
  <1> HIDE DEF h
  <1>2. k \in Nat \ {0}
    <2>1. \A x, y \in Nat \ {0} : x * y \in Nat \ {0} OBVIOUS
    <2> QED BY <1>1, <2>1
  <1>3. Short = 2 * k
    <2>1. Short = (2 * h) * Radix BY <1>1 DEF Short
    <2>2. h \in Nat /\ Radix \in Nat BY <1>1
    <2>3. (2 * h) * Radix = 2 * (h * Radix) BY <2>2
    <2> QED BY <2>1, <2>3
  <1> HIDE DEF k
  <1>4. Short \div 2 = k BY <1>2, <1>3
  <1> QED BY <1>1, <1>2, <1>3, <1>4 DEF h

(* buf_peekshort undoes short_to_string for the shorts that ReadBack       *)
(* allows: those whose low byte has no sign bit, and the negative ones     *)
(* that are a single byte.                                                 *)
THEOREM ShortsReadBack ==
  ASSUME NEW i \in Shorts, ReadBack(i)
  PROVE  buf_peekshort(short_to_string(i)) = i
  <1> DEFINE u == i % Short
             r == Radix
             a == u % r
             q == u \div r
             d == short_to_string(i)
  <1>0. i \in Int /\ r \in Nat \ {0} /\ Short = r * r
    BY ByteSizes, HalfOfShort DEF Shorts, Short
  <1>1. u \in Nat /\ u < Short BY <1>0, ByteSizes
  <1>2. i >= 0 => u = i BY <1>0, HalfOfShort, ByteSizes DEF Shorts
  <1>3. i < 0 => u = i + Short BY <1>0, HalfOfShort, ByteSizes DEF Shorts
  <1>d. d = << a, q >> BY DEF short_to_string
  <1> HIDE DEF u
  <1>4. q \in Nat /\ a \in 0 .. r - 1 /\ u = r * q + a
    BY <1>0, <1>1, Quotients
  <1>h. r = 2 * (r \div 2) /\ r \div 2 \in Nat \ {0} BY HalfOfShort
  <1> HIDE DEF a, q, d
  <1>5. \A x \in Int, b \in 0 .. r - 1 : (r * x + b) % r = b BY <1>0
  <1>6. i % r = a
    <2>1. CASE i >= 0 BY <1>2, <1>4, <1>5, <2>1
    <2>2. CASE i < 0
      <3>1. i = r * q + a - r * r BY <1>0, <1>3, <1>4, <2>2
      <3>2. r * (q - r) = r * q - r * r BY <1>0, <1>4
      <3>3. q - r \in Int /\ r * q \in Int /\ r * r \in Int BY <1>0, <1>4
      <3>4. i = r * (q - r) + a BY <1>4, <3>1, <3>2, <3>3
      <3> QED BY <1>4, <1>5, <3>3, <3>4
    <2> QED BY <1>0, <2>1, <2>2
  <1>7. CASE a < r \div 2
    <2>1. buf_peekshort(d) = Signed(u, Short)
      <3>1. d[1] = a /\ d[2] = q BY <1>d
      <3>2. buf_peekshort(d) = Signed(d[1] + r * d[2], Short)
        BY <1>7, <3>1 DEF buf_peekshort, r
      <3>3. d[1] + r * d[2] = u BY <1>0, <1>4, <3>1
      <3> QED BY <3>2, <3>3
    <2> QED
      BY <1>0, <1>1, <1>2, <1>3, <2>1, HalfOfShort DEF Signed, Shorts, d
  <1>8. CASE ~ (a < r \div 2)
    <2>1. i \in -(r \div 2) .. -1 BY <1>6, <1>8 DEF ReadBack, r
    <2>2. r + i \in 0 .. r - 1 BY <1>0, <1>h, <2>1
    <2>3. i = r * (-1) + (r + i) BY <1>0
    <2>4. a = r + i BY <1>5, <1>6, <2>2, <2>3
    <2>5. buf_peekshort(d) = a - r BY <1>8, <1>d DEF buf_peekshort, r
    <2> QED BY <1>0, <2>4, <2>5 DEF d
  <1> QED BY <1>7, <1>8

(***************************************************************************)
(* The sequences of a sequence, one after the other, as FlattenSeq says    *)
(* it: f[i] is what the first i of them make.                              *)
(***************************************************************************)
IsFlattened(f, s, n) ==
  f = [i \in 1 .. n |-> IF i = 1 THEN s[i] ELSE f[i - 1] \o s[i]]

LEMMA FlattenedSteps ==
  ASSUME NEW s, NEW n \in Nat \ {0}, NEW f, IsFlattened(f, s, n)
  PROVE  /\ f[1] = s[1]
         /\ \A i \in 2 .. n : f[i] = f[i - 1] \o s[i]
  <1>1. \A i \in 1 .. n : f[i] = IF i = 1 THEN s[i] ELSE f[i - 1] \o s[i]
    BY Zenon DEF IsFlattened
  <1>2. 1 \in 1 .. n OBVIOUS
  <1>3. ASSUME NEW i \in 2 .. n PROVE i \in 1 .. n /\ i # 1 OBVIOUS
  <1>4. f[1] = s[1] BY <1>1, <1>2
  <1>5. \A i \in 2 .. n : f[i] = f[i - 1] \o s[i]
    BY ONLY <1>1, <1>3, Zenon
  <1> QED BY <1>4, <1>5

LEMMA FlattenedLonger ==
  ASSUME NEW s, NEW n \in Nat \ {0}, NEW f, IsFlattened(f, s, n)
  PROVE  \E g : IsFlattened(g, s, n + 1)
  <1> DEFINE g == [i \in 1 .. n + 1 |-> IF i <= n THEN f[i]
                                         ELSE f[n] \o s[n + 1]]
             h == [i \in 1 .. n + 1 |-> IF i = 1 THEN s[i]
                                        ELSE g[i - 1] \o s[i]]
  <1>g. \A i \in 1 .. n + 1 : g[i] = IF i <= n THEN f[i]
                                     ELSE f[n] \o s[n + 1]
    OBVIOUS
  <1>h. \A i \in 1 .. n + 1 : h[i] = IF i = 1 THEN s[i]
                                     ELSE g[i - 1] \o s[i]
    BY Zenon
  <1>f. f[1] = s[1] /\ \A i \in 2 .. n : f[i] = f[i - 1] \o s[i]
    BY FlattenedSteps
  <1>1. ASSUME NEW i \in 1 .. n + 1 PROVE g[i] = h[i]
    <2> HIDE DEF g, h
    <2>1. CASE i = 1
      <3> QED BY <1>f, <1>g, <1>h, <2>1
    <2>2. CASE i # 1 /\ i <= n
      <3>1. i \in 2 .. n /\ i - 1 \in 1 .. n + 1 /\ i - 1 <= n BY <2>2
      <3>2. f[i] = f[i - 1] \o s[i] BY <3>1, <1>f
      <3>3. g[i - 1] = f[i - 1] /\ g[i] = f[i] BY <1>g, <2>2, <3>1
      <3>4. h[i] = g[i - 1] \o s[i] BY <1>h, <2>2
      <3> QED BY <3>2, <3>3, <3>4
    <2>3. CASE i = n + 1
      <3>1. i - 1 = n /\ n \in 1 .. n + 1 /\ ~ (i <= n) /\ i # 1 BY <2>3
      <3>2. g[n] = f[n] BY <1>g, <3>1
      <3>3. g[i] = f[n] \o s[n + 1] BY <1>g, <3>1
      <3>4. h[i] = g[n] \o s[i] BY <1>h, <3>1
      <3> QED BY <2>3, <3>2, <3>3, <3>4
    <2> QED BY <2>1, <2>2, <2>3
  <1>2. g = h BY <1>1
  <1> QED BY <1>2 DEF IsFlattened

LEMMA FlattenedExists ==
  ASSUME NEW s, NEW n \in Nat \ {0}
  PROVE  \E f : IsFlattened(f, s, n)
  <1> DEFINE T == {k \in Nat : k # 0 /\ ~ \E f : IsFlattened(f, s, k)}
  <1>1. SUFFICES ASSUME T # {} PROVE FALSE OBVIOUS
  <1>2. PICK k \in T : \A j \in T : k <= j BY <1>1, LeastNumber
  <1>3. CASE k = 1
    <2>1. IsFlattened([i \in 1 .. 1 |-> s[1]], s, 1) BY DEF IsFlattened
    <2> QED BY <1>2, <1>3, <2>1
  <1>4. CASE k # 1
    <2>1. k - 1 \in Nat \ {0} /\ k - 1 \notin T BY <1>2, <1>4
    <2>2. PICK f : IsFlattened(f, s, k - 1) BY <2>1
    <2>3. \E g : IsFlattened(g, s, (k - 1) + 1) BY <2>1, <2>2, FlattenedLonger
    <2> QED BY <1>2, <2>3
  <1> QED BY <1>3, <1>4

LEMMA ConcatenationIs ==
  ASSUME NEW S, NEW a \in Seq(S), NEW c \in Seq(S)
  PROVE  /\ a \o c \in Seq(S) /\ Len(a \o c) = Len(a) + Len(c)
         /\ \A i \in 1 .. Len(a) : (a \o c)[i] = a[i]
         /\ \A i \in 1 .. Len(c) : (a \o c)[Len(a) + i] = c[i]
  OBVIOUS

LEMMA PieceInside ==
  ASSUME NEW w \in Nat, NEW k \in Nat \ {0}, NEW i \in Nat, k <= i,
         NEW j \in 1 .. w
  PROVE  w * (k - 1) + j \in 1 .. w * i
  <1>1. \A x, y \in Nat : x <= y => w * x <= w * y OBVIOUS
  <1>2. w * k <= w * i BY <1>1
  <1>3. w * k = w * (k - 1) + w OBVIOUS
  <1>4. PICK x \in Nat, y \in Nat, z \in Nat :
           x = w * k /\ y = w * (k - 1) /\ z = w * i
    <2>1. k - 1 \in Nat OBVIOUS
    <2>2. \A x, y \in Nat : x * y \in Nat OBVIOUS
    <2> QED BY <2>1, <2>2
  <1>5. x <= z /\ x = y + w /\ w \in Nat /\ j \in 1 .. w BY <1>2, <1>3, <1>4
  <1>6. y + j \in 1 .. z BY ONLY <1>5, x \in Nat, y \in Nat, z \in Nat
  <1> QED BY <1>4, <1>6

(* Pieces of w each, and the sequence that they make: the k-th of them     *)
(* begins after w * (k - 1).                                               *)
Pieces(S, s, w) ==
  s \in Seq(Seq(S)) /\ w \in Nat /\ \A i \in 1 .. Len(s) : Len(s[i]) = w
LaidOut(S, t, s, w) ==
  /\ t \in Seq(S) /\ Len(t) = w * Len(s)
  /\ \A k \in 1 .. Len(s), j \in 1 .. w : t[w * (k - 1) + j] = s[k][j]

LEMMA FlattenedPieces ==
  ASSUME NEW S, NEW s, NEW w, Pieces(S, s, w), Len(s) # 0,
         NEW f, IsFlattened(f, s, Len(s))
  PROVE  LaidOut(S, f[Len(s)], s, w)
  <1> DEFINE n == Len(s)
  <1>a. s \in Seq(Seq(S)) /\ w \in Nat BY DEF Pieces
  <1>b. \A i \in 1 .. n : Len(s[i]) = w BY DEF Pieces
  <1>c. n \in Nat \ {0} BY <1>a
  <1>d. IsFlattened(f, s, n) OBVIOUS
  <1> HIDE DEF n
  <1> DEFINE Right(i) ==
               /\ f[i] \in Seq(S) /\ Len(f[i]) = w * i
               /\ \A k \in 1 .. i, j \in 1 .. w :
                    f[i][w * (k - 1) + j] = s[k][j]
             T == {i \in Nat : i # 0 /\ i <= n /\ ~ Right(i)}
  <1>1. f[1] = s[1] /\ \A i \in 2 .. n : f[i] = f[i - 1] \o s[i]
    BY <1>c, <1>d, FlattenedSteps
  <1>2. \A i \in 1 .. n : s[i] \in Seq(S) BY <1>a DEF n
  <1>3. T = {}
    <2>1. SUFFICES ASSUME T # {} PROVE FALSE OBVIOUS
    <2>2. PICK i \in T : \A j \in T : i <= j BY <2>1, LeastNumber
    <2>3. i \in Nat \ {0} /\ i <= n OBVIOUS
    <2>4. CASE i = 1
      <3>1. f[i] \in Seq(S) /\ Len(f[i]) = w * i
        <4>1. 1 \in 1 .. n BY <1>c
        <4> QED BY <1>a, <1>b, <1>1, <1>2, <2>4, <4>1
      <3>2. ASSUME NEW k \in 1 .. i, NEW j \in 1 .. w
            PROVE  f[i][w * (k - 1) + j] = s[k][j]
        <4>1. k = 1 /\ w * (k - 1) + j = j BY <1>a, <2>4
        <4> QED BY <1>1, <2>4, <4>1
      <3>3. Right(i) BY <3>1, <3>2
      <3> QED BY <2>2, <3>3
    <2>5. CASE i # 1
      <3>1. i - 1 \in Nat \ {0} /\ i - 1 <= n /\ i - 1 \notin T
              /\ i \in 2 .. n
        BY <2>2, <2>3, <2>5, <1>c
      <3>2. Right(i - 1) BY <3>1
      <3>3. f[i] = f[i - 1] \o s[i] /\ s[i] \in Seq(S) /\ Len(s[i]) = w
        <4>1. i \in 1 .. n BY <3>1
        <4> QED BY <1>b, <1>1, <1>2, <3>1, <4>1
      <3>4. w * i = w * (i - 1) + w /\ w * (i - 1) \in Nat BY <1>a, <3>1
      <3> DEFINE g == f[i - 1]
                 v == w * (i - 1)
      <3>5. g \in Seq(S) /\ Len(g) = v /\ v \in Nat /\ w * i = v + w
              /\ f[i] = g \o s[i]
        BY <3>2, <3>3, <3>4
      <3>6. \A k \in 1 .. i - 1, j \in 1 .. w : g[w * (k - 1) + j] = s[k][j]
        BY <3>2
      <3> HIDE DEF g, v
      <3>a. g \in Seq(S) /\ s[i] \in Seq(S) BY <3>3, <3>5
      <3>b. /\ g \o s[i] \in Seq(S) /\ Len(g \o s[i]) = Len(g) + Len(s[i])
            /\ \A m \in 1 .. Len(g) : (g \o s[i])[m] = g[m]
            /\ \A m \in 1 .. Len(s[i]) : (g \o s[i])[Len(g) + m] = s[i][m]
        BY <3>a, ConcatenationIs
      <3>7. f[i] \in Seq(S) /\ Len(f[i]) = w * i
        <4>1. g \o s[i] \in Seq(S) /\ Len(g \o s[i]) = Len(g) + Len(s[i])
          BY <3>b
        <4> QED BY <3>3, <3>5, <4>1
      <3>8. ASSUME NEW k \in 1 .. i, NEW j \in 1 .. w
            PROVE  f[i][w * (k - 1) + j] = s[k][j]
        <4>1. CASE k = i
          <5>1. w * (k - 1) + j = v + j BY <4>1 DEF v
          <5>2. (g \o s[i])[Len(g) + j] = s[i][j]
            BY <3>3, <3>b
          <5> QED BY <3>5, <4>1, <5>1, <5>2
        <4>2. CASE k # i
          <5>1. k \in 1 .. i - 1 BY <3>1, <4>2
          <5>2. w * (k - 1) + j \in 1 .. v
            <6>1. k \in Nat \ {0} /\ i - 1 \in Nat /\ k <= i - 1 BY <3>1, <5>1
            <6> QED BY <6>1, <1>a, PieceInside DEF v
          <5>3. PICK p \in 1 .. Len(g) : p = w * (k - 1) + j
            BY <3>5, <5>2
          <5>4. (g \o s[i])[p] = g[p] BY <3>b
          <5>5. f[i][w * (k - 1) + j] = g[w * (k - 1) + j]
            BY <3>5, <5>3, <5>4
          <5> QED BY <3>6, <5>1, <5>5
        <4> QED BY <4>1, <4>2
      <3>9. Right(i) BY <3>7, <3>8
      <3> QED BY <2>2, <3>9
    <2> QED BY <2>4, <2>5
  <1> HIDE DEF Right
  <1>4. n \in Nat /\ n # 0 /\ n <= n BY <1>c
  <1>5. n \notin T BY <1>3
  <1>6. Right(n) BY <1>4, <1>5
  <1> QED BY <1>6 DEF Right, LaidOut, n
==============================================================================

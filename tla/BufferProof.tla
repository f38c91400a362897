---------------------------- MODULE BufferProof -----------------------------
(***************************************************************************)
(* Theorems about growable buffers, for any memory, texts and sizes.       *)
(***************************************************************************)
EXTENDS Buffer, ByteCodecProof, TLAPS

(***************************************************************************)
(* The json text of a string: a function is what its recursive definition  *)
(* says, because such a function exists for every length.                  *)
(***************************************************************************)
IsEscaped(f, s, n) ==
  f = [i \in 0 .. n |-> IF i = 0 THEN <<Quote>> ELSE f[i - 1] \o Escape[s[i]]]

LEMMA EscapedSteps ==
  ASSUME NEW s, NEW n \in Nat, NEW f, IsEscaped(f, s, n)
  PROVE  /\ f[0] = <<Quote>>
         /\ \A i \in 1 .. n : f[i] = f[i - 1] \o Escape[s[i]]
  <1>1. \A i \in 0 .. n : f[i] = IF i = 0 THEN <<Quote>>
                                 ELSE f[i - 1] \o Escape[s[i]]
    BY Zenon DEF IsEscaped
  <1>2. 0 \in 0 .. n OBVIOUS
  <1>3. ASSUME NEW i \in 1 .. n PROVE i \in 0 .. n /\ i # 0 OBVIOUS
  <1>4. f[0] = <<Quote>> BY <1>1, <1>2
  <1>5. \A i \in 1 .. n : f[i] = f[i - 1] \o Escape[s[i]]
    BY ONLY <1>1, <1>3, Zenon
  <1> QED BY <1>4, <1>5

LEMMA EscapedLonger ==
  ASSUME NEW s, NEW n \in Nat, NEW f, IsEscaped(f, s, n)
  PROVE  \E g : IsEscaped(g, s, n + 1)
  <1> DEFINE g == [i \in 0 .. n + 1 |-> IF i <= n THEN f[i]
                                         ELSE f[n] \o Escape[s[n + 1]]]
             h == [i \in 0 .. n + 1 |-> IF i = 0 THEN <<Quote>>
                                        ELSE g[i - 1] \o Escape[s[i]]]
  <1>g. \A i \in 0 .. n + 1 : g[i] = IF i <= n THEN f[i]
                                     ELSE f[n] \o Escape[s[n + 1]]
    OBVIOUS
  <1>h. \A i \in 0 .. n + 1 : h[i] = IF i = 0 THEN <<Quote>>
                                     ELSE g[i - 1] \o Escape[s[i]]
    BY Zenon
  <1>1. ASSUME NEW i \in 0 .. n + 1 PROVE g[i] = h[i]
    <2> HIDE DEF g, h
    <2>1. CASE i = 0
      <3>1. f[0] = <<Quote>> BY EscapedSteps
      <3> QED BY <1>g, <1>h, <2>1, <3>1
    <2>2. CASE i # 0 /\ i <= n
      <3>1. i \in 1 .. n /\ i - 1 \in 0 .. n + 1 /\ i - 1 <= n BY <2>2
      <3>2. f[i] = f[i - 1] \o Escape[s[i]] BY <3>1, EscapedSteps
      <3>3. g[i - 1] = f[i - 1] /\ g[i] = f[i] BY <1>g, <2>2, <3>1
      <3>4. h[i] = g[i - 1] \o Escape[s[i]] BY <1>h, <2>2
      <3> QED BY <3>2, <3>3, <3>4
    <2>3. CASE i = n + 1
      <3>1. i - 1 = n /\ n \in 0 .. n + 1 /\ ~ (i <= n) /\ i # 0 BY <2>3
      <3>2. g[n] = f[n] BY <1>g, <3>1
      <3>3. g[i] = f[n] \o Escape[s[n + 1]] BY <1>g, <3>1
      <3>4. h[i] = g[n] \o Escape[s[i]] BY <1>h, <3>1
      <3> QED BY <2>3, <3>2, <3>3, <3>4
    <2> QED BY <2>1, <2>2, <2>3
  <1>2. g = h BY <1>1
  <1> QED BY <1>2 DEF IsEscaped

LEMMA EscapedExists ==
  ASSUME NEW s, NEW n \in Nat
  PROVE  \E f : IsEscaped(f, s, n)
  <1> DEFINE T == {k \in Nat : ~ \E f : IsEscaped(f, s, k)}
  <1>1. SUFFICES ASSUME T # {} PROVE FALSE OBVIOUS
  <1>2. PICK k \in T : \A j \in T : k <= j BY <1>1, LeastNumber
  <1>3. CASE k = 0
    <2>1. IsEscaped([i \in 0 .. 0 |-> <<Quote>>], s, 0) BY DEF IsEscaped
    <2> QED BY <1>2, <1>3, <2>1
  <1>4. CASE k # 0
    <2>1. k - 1 \in Nat /\ k - 1 \notin T BY <1>2, <1>4
    <2>2. PICK f : IsEscaped(f, s, k - 1) BY <2>1
    <2>3. \E g : IsEscaped(g, s, (k - 1) + 1) BY <2>1, <2>2, EscapedLonger
    <2> QED BY <1>2, <2>3
  <1> QED BY <1>3, <1>4

LEMMA JsonBytes ==
  ASSUME NEW s \in Seq(Bytes)
  PROVE  /\ JsonText(s) \in Seq(Bytes)
         /\ Len(JsonText(s)) \in 2 .. Reserved(s)
  <1> DEFINE n == Len(s)
             f == CHOOSE g : IsEscaped(g, s, n)
             Right(i) == /\ f[i] \in Seq(Bytes)
                         /\ 1 <= Len(f[i]) /\ Len(f[i]) <= 1 + 6 * i
             T == {i \in Nat : i <= n /\ ~ Right(i)}
  <1>1. n \in Nat OBVIOUS
  <1>2. IsEscaped(f, s, n) BY <1>1, EscapedExists
  <1>3. JsonText(s) = Append(f[n], Quote) BY DEF JsonText, IsEscaped
  <1> HIDE DEF f
  <1>4. Quote \in Bytes /\ Escape \in [Bytes -> Seq(Bytes)]
          /\ \A c \in Bytes : Len(Escape[c]) <= 6
    BY BufferAssumption
  <1>5. f[0] = <<Quote>> BY <1>1, <1>2, EscapedSteps
  <1>6. \A i \in 1 .. n : f[i] = f[i - 1] \o Escape[s[i]]
    BY <1>1, <1>2, EscapedSteps
  <1>7. T = {}
    <2>1. SUFFICES ASSUME T # {} PROVE FALSE OBVIOUS
    <2>2. PICK k \in T : \A j \in T : k <= j BY <2>1, LeastNumber
    <2>3. k \in Nat OBVIOUS
    <2>4. CASE k = 0
      <3>1. <<Quote>> \in Seq(Bytes) /\ Len(<<Quote>>) = 1 BY <1>4
      <3>2. f[k] = <<Quote>> BY <1>5, <2>4
      <3>3. 1 <= 1 + 6 * k BY <2>3
      <3>4. Right(k) BY <3>1, <3>2, <3>3
      <3> QED BY <2>2, <3>4
    <2>5. CASE k # 0
      <3>1. k - 1 \in Nat /\ k - 1 <= n /\ k - 1 \notin T /\ k \in 1 .. n
        BY <1>1, <2>2, <2>5
      <3>2. /\ f[k - 1] \in Seq(Bytes) /\ 1 <= Len(f[k - 1])
            /\ Len(f[k - 1]) <= 1 + 6 * (k - 1)
        BY <3>1
      <3>3. Escape[s[k]] \in Seq(Bytes) /\ Len(Escape[s[k]]) <= 6
        BY <1>4, <3>1
      <3>4. f[k] = f[k - 1] \o Escape[s[k]] BY <1>6, <3>1
      <3>5. f[k] \in Seq(Bytes)
              /\ Len(f[k]) = Len(f[k - 1]) + Len(Escape[s[k]])
        BY <3>2, <3>3, <3>4
      <3>6. Len(f[k - 1]) \in Nat /\ Len(Escape[s[k]]) \in Nat
        BY <3>2, <3>3
      <3>7. \A x, y, i \in Nat : 1 <= x /\ x <= 1 + 6 * (i - 1) /\ y <= 6
                                   => 1 <= x + y /\ x + y <= 1 + 6 * i
        OBVIOUS
      <3>8. 1 <= Len(f[k]) /\ Len(f[k]) <= 1 + 6 * k
        <4>1. /\ 1 <= Len(f[k - 1]) + Len(Escape[s[k]])
              /\ Len(f[k - 1]) + Len(Escape[s[k]]) <= 1 + 6 * k
          BY <2>3, <3>2, <3>3, <3>6, <3>7
        <4> QED BY ONLY <3>5, <4>1
      <3>9. Right(k) BY <3>5, <3>8
      <3> QED BY <2>2, <3>9
    <2> QED BY <2>4, <2>5
  <1>8. Right(n) BY <1>1, <1>7
  <1> HIDE DEF n
  <1>9. Append(f[n], Quote) \in Seq(Bytes)
          /\ Len(Append(f[n], Quote)) = Len(f[n]) + 1
    BY <1>4, <1>8
  <1> QED BY <1>1, <1>3, <1>8, <1>9 DEF Reserved, n

(***************************************************************************)
(* Growing keeps the text and puts the new bytes behind it.                *)
(***************************************************************************)
Locations == Blocks \cup {INITBUFF, OUTSIDE}

(* What a successful addition of the bytes s has done. *)
Appended(s) ==
  /\ b' \in Buffers /\ b'.n = b.n + Len(s) /\ b'.n <= b'.capacity
  /\ b'.initb = b.initb /\ b'.data # OUTSIDE
  /\ mem' \in [Locations -> Seq(Bytes)] /\ Len(mem'[b'.data]) = b'.capacity
  /\ live' = IF b'.data \in Blocks THEN {b'.data} ELSE {}
  /\ \A i \in 1 .. b.n : mem'[b'.data][i] = mem[b.data][i]
  /\ \A i \in 1 .. Len(s) : mem'[b'.data][b.n + i] = s[i]

LEMMA WrittenBytes ==
  ASSUME NEW cells \in Seq(Bytes), NEW s \in Seq(Bytes), b.n \in Nat,
         b.n + Len(s) <= Len(cells)
  PROVE  /\ Written(cells, s) \in Seq(Bytes)
         /\ Len(Written(cells, s)) = Len(cells)
         /\ \A i \in 1 .. b.n : Written(cells, s)[i] = cells[i]
         /\ \A i \in 1 .. Len(s) : Written(cells, s)[b.n + i] = s[i]
  <1> DEFINE w == Written(cells, s)
  <1>1. w = [i \in 1 .. Len(cells) |->
               IF b.n < i /\ i <= b.n + Len(s) THEN s[i - b.n] ELSE cells[i]]
    BY DEF Written
  <1> HIDE DEF w
  <1>2. \A i \in 1 .. Len(cells) : w[i] \in Bytes
    <2>1. TAKE i \in 1 .. Len(cells)
    <2>2. CASE b.n < i /\ i <= b.n + Len(s)
      <3>1. i - b.n \in 1 .. Len(s) BY <2>2
      <3>2. s[i - b.n] \in Bytes BY <3>1
      <3> QED BY <1>1, <2>2, <3>2
    <2>3. CASE ~ (b.n < i /\ i <= b.n + Len(s))
      <3>1. cells[i] \in Bytes OBVIOUS
      <3> QED BY <1>1, <2>3, <3>1
    <2> QED BY <2>2, <2>3
  <1>3. w \in Seq(Bytes) /\ Len(w) = Len(cells)
    BY <1>1, <1>2
  <1>4. \A i \in 1 .. b.n : w[i] = cells[i] BY <1>1
  <1>5. \A i \in 1 .. Len(s) : w[b.n + i] = s[i]
    <2>1. TAKE i \in 1 .. Len(s)
    <2>2. b.n + i \in 1 .. Len(cells) /\ (b.n + i) - b.n = i OBVIOUS
    <2> QED BY <1>1, <2>2
  <1> QED BY <1>3, <1>4, <1>5 DEF w

LEMMA BufferTyped ==
  ASSUME TypeOK, b # NULL
  PROVE  /\ b \in Buffers /\ b.data \in Locations /\ b.n \in Nat
         /\ b.capacity \in Nat /\ b.initb \in {INITBUFF, NULL}
         /\ mem \in [Locations -> Seq(Bytes)] /\ mem[b.data] \in Seq(Bytes)
  BY DEF TypeOK, Buffers, Locations

(* What the calls know of a buffer that they can add to. *)
Open == IInv /\ Usable /\ ~ bufferislite

LEMMA OpenBuffer ==
  ASSUME Open
  PROVE  /\ b # NULL /\ damage = "none" /\ b.initb = INITBUFF
         /\ b.data \in Blocks \cup {INITBUFF} /\ b.data # OUTSIDE
         /\ b.n <= b.capacity /\ b.capacity = Len(mem[b.data])
         /\ live = (IF b.data \in Blocks THEN {b.data} ELSE {})
  BY BufferTyped
     DEF Open, IInv, Usable, Fits, NothingLeaks, LiteOutside, bufferislite,
         Locations

LEMMA InPlaceAppends ==
  ASSUME Open, NEW s \in Seq(Bytes), NEW additional \in Nat,
         Len(s) <= additional, HasRoom(additional), InPlace(s)
  PROVE  Appended(s) /\ damage' = damage
  <1>1. TypeOK /\ b # NULL BY DEF Open, IInv, Usable
  <1>2. b.n + Len(s) <= Len(mem[b.data])
    BY <1>1, BufferTyped, OpenBuffer DEF HasRoom
  <1> DEFINE w == Written(mem[b.data], s)
  <1>3. /\ w \in Seq(Bytes) /\ Len(w) = Len(mem[b.data])
        /\ \A i \in 1 .. b.n : w[i] = mem[b.data][i]
        /\ \A i \in 1 .. Len(s) : w[b.n + i] = s[i]
    BY <1>1, <1>2, BufferTyped, WrittenBytes
  <1>4. mem' = [mem EXCEPT ![b.data] = w] BY DEF InPlace
  <1> HIDE DEF w
  <1>5. b' = [b EXCEPT !.n = b.n + Len(s)] /\ live' = live
          /\ damage' = damage
    BY DEF InPlace
  <1>6. /\ b'.data = b.data /\ b'.initb = b.initb
        /\ b'.capacity = b.capacity /\ b'.n = b.n + Len(s)
    BY <1>1, <1>5, BufferTyped DEF Buffers
  <1>7. b' \in Buffers
    <2>1. b.n + Len(s) \in Nat BY <1>1, BufferTyped
    <2> QED BY <1>1, <1>5, <2>1, BufferTyped DEF Buffers
  <1>8. mem' \in [Locations -> Seq(Bytes)] /\ mem'[b'.data] = w
    BY <1>1, <1>3, <1>4, <1>6, BufferTyped
  <1>9. b'.n <= b'.capacity /\ Len(mem'[b'.data]) = b'.capacity
    BY <1>2, <1>3, <1>6, <1>8, OpenBuffer
  <1>10. b'.data # OUTSIDE
           /\ live' = IF b'.data \in Blocks THEN {b'.data} ELSE {}
    BY <1>5, <1>6, OpenBuffer
  <1>11. /\ \A i \in 1 .. b.n : mem'[b'.data][i] = mem[b.data][i]
         /\ \A i \in 1 .. Len(s) : mem'[b'.data][b.n + i] = s[i]
    BY <1>3, <1>8
  <1> QED BY <1>5, <1>6, <1>7, <1>8, <1>9, <1>10, <1>11 DEF Appended

LEMMA ResizedBytes ==
  ASSUME Open, NEW size \in Nat, b.n <= size
  PROVE  /\ Resized(size) \in Seq(Bytes) /\ Len(Resized(size)) = size
         /\ \A i \in 1 .. b.n : Resized(size)[i] = mem[b.data][i]
  <1> DEFINE r == Resized(size)
  <1>0. TypeOK /\ b # NULL BY DEF Open, IInv, Usable
  <1>1. Junk \in Bytes BY BufferAssumption
  <1>2. Kept \in Nat /\ b.n <= Kept /\ Kept <= Len(mem[b.data])
    BY <1>0, BufferTyped, OpenBuffer DEF Kept
  <1>3. r = [i \in 1 .. size |-> IF i <= Kept THEN mem[b.data][i] ELSE Junk]
    BY DEF Resized
  <1> HIDE DEF r
  <1>4. \A i \in 1 .. size : r[i] \in Bytes
    <2>1. TAKE i \in 1 .. size
    <2>2. CASE i <= Kept
      <3>1. i \in 1 .. Len(mem[b.data]) BY <1>2, <2>2, <1>0, BufferTyped
      <3>2. mem[b.data][i] \in Bytes BY <3>1, <1>0, BufferTyped
      <3> QED BY <1>3, <2>2, <3>2
    <2>3. CASE ~ (i <= Kept) BY <1>1, <1>3, <2>3
    <2> QED BY <2>2, <2>3
  <1>5. r \in Seq(Bytes) /\ Len(r) = size BY <1>3, <1>4
  <1>6. \A i \in 1 .. b.n : r[i] = mem[b.data][i]
    BY <1>0, <1>2, <1>3, BufferTyped
  <1> QED BY <1>5, <1>6 DEF r

LEMMA MovedAppends ==
  ASSUME Open, NEW s \in Seq(Bytes), NEW size \in Nat,
         b.n + Len(s) <= size, Moved(size, s)
  PROVE  Appended(s) /\ damage' = damage
  <1>0. TypeOK /\ b # NULL BY DEF Open, IInv, Usable
  <1> DEFINE r == Resized(size)
             w == Written(r, s)
  <1>1. Len(s) \in Nat /\ b.n \in Nat /\ b.n <= size
    BY <1>0, BufferTyped
  <1>2. /\ r \in Seq(Bytes) /\ Len(r) = size
        /\ \A i \in 1 .. b.n : r[i] = mem[b.data][i]
    BY <1>1, ResizedBytes
  <1> HIDE DEF r
  <1>3. /\ w \in Seq(Bytes) /\ Len(w) = size
        /\ \A i \in 1 .. b.n : w[i] = mem[b.data][i]
        /\ \A i \in 1 .. Len(s) : w[b.n + i] = s[i]
    BY <1>1, <1>2, WrittenBytes
  <1>4. PICK block \in Blocks :
          /\ mem' = [mem EXCEPT ![b.data] = <<>>, ![block] = w]
          /\ live' = (live \ {b.data}) \cup {block}
          /\ b' = [b EXCEPT !.data = block, !.capacity = size,
                            !.n = b.n + Len(s)]
          /\ damage' = damage
    BY DEF Moved, r
  <1> HIDE DEF w
  <1> DEFINE c == [data |-> block, initb |-> b.initb, n |-> b.n + Len(s),
                   capacity |-> size]
  <1>10. b' = c
    <2>1. b = [data |-> b.data, initb |-> b.initb, n |-> b.n,
               capacity |-> b.capacity]
      BY <1>0, BufferTyped DEF Buffers
    <2> QED BY <1>4, <2>1
  <1>11. b.initb \in {INITBUFF, NULL} /\ b.n + Len(s) \in Nat
    BY <1>0, <1>1, BufferTyped
  <1>12. c \in Buffers BY <1>11 DEF Buffers
  <1>5. /\ b'.data = block /\ b'.initb = b.initb
        /\ b'.capacity = size /\ b'.n = b.n + Len(s) /\ b' \in Buffers
    BY <1>10, <1>12
  <1>6. block \in Locations /\ block # OUTSIDE
    BY BufferAssumption DEF Locations
  <1>7. mem' \in [Locations -> Seq(Bytes)] /\ mem'[block] = w
    <2> DEFINE m == [mem EXCEPT ![b.data] = <<>>]
    <2>1. mem \in [Locations -> Seq(Bytes)] BY <1>0, BufferTyped
    <2>2. m \in [Locations -> Seq(Bytes)]
      <3>1. <<>> \in Seq(Bytes) OBVIOUS
      <3> QED BY <2>1, <3>1
    <2>3. mem' = [m EXCEPT ![block] = w] BY <1>4
    <2> HIDE DEF m
    <2> QED BY <1>3, <1>6, <2>2, <2>3
  <1>8. live' = {block} BY <1>4, OpenBuffer
  <1>9. /\ \A i \in 1 .. b.n : mem'[b'.data][i] = mem[b.data][i]
        /\ \A i \in 1 .. Len(s) : mem'[b'.data][b.n + i] = s[i]
    BY <1>3, <1>5, <1>7
  <1> QED BY <1>3, <1>4, <1>5, <1>6, <1>7, <1>8, <1>9 DEF Appended

LEMMA GrownAppends ==
  ASSUME Open, NEW s \in Seq(Bytes), NEW additional \in Nat,
         Len(s) <= additional, Grown(additional, s)
  PROVE  Appended(s) /\ damage' = damage
  <1>0. TypeOK /\ b # NULL BY DEF Open, IInv, Usable
  <1>1. CASE HasRoom(additional) /\ InPlace(s)
    BY <1>1, InPlaceAppends
  <1>2. CASE ~ HasRoom(additional) /\ Moved(NewSize(additional), s)
    <2>0. b.n \in Nat /\ b.capacity \in Nat /\ Len(s) \in Nat
      BY <1>0, BufferTyped
    <2>1. NewSize(additional) \in Nat /\ b.n + Len(s) <= NewSize(additional)
      BY <2>0 DEF NewSize
    <2> QED BY <1>2, <2>1, MovedAppends
  <1> QED BY <1>1, <1>2 DEF Grown

(***************************************************************************)
(* What an addition keeps, and what it does to the text.                   *)
(***************************************************************************)
LEMMA AppendedKeeps ==
  ASSUME Open, NEW s \in Seq(Bytes), Appended(s), damage' = damage,
         file' = file
  PROVE  IInv'
  <1>1. b' # NULL /\ damage' = "none" /\ b'.initb = INITBUFF
    <2>1. damage = "none" /\ b.initb = INITBUFF BY OpenBuffer
    <2>2. b'.initb = INITBUFF BY <2>1 DEF Appended
    <2>3. b' # NULL
      BY OpenBuffer, BufferAssumption DEF Appended
    <2> QED BY <2>1, <2>2, <2>3
  <1>2. TypeOK'
    <2>1. live' \subseteq Blocks BY DEF Appended
    <2> QED BY <1>1, <2>1 DEF Appended, TypeOK, Open, IInv, Locations
  <1>3. Fits' BY DEF Fits, Appended
  <1>4. NothingLeaks' BY <1>1 DEF NothingLeaks, Appended
  <1>5. LiteOutside'
    BY <1>1, BufferAssumption DEF LiteOutside, Appended, bufferislite
  <1> QED BY <1>2, <1>3, <1>4, <1>5 DEF IInv

(***************************************************************************)
(* Every call keeps the invariant.                                         *)
(***************************************************************************)
LEMMA Initial == Init => IInv
  <1> SUFFICES ASSUME Init PROVE IInv OBVIOUS
  <1>1. b = NULL /\ live = {} /\ damage = "none" BY DEF Init
  <1>2. TypeOK
    <2>1. <<>> \in Seq(Bytes) OBVIOUS
    <2> QED BY <2>1 DEF Init, TypeOK
  <1> QED BY <1>1, <1>2 DEF IInv, Fits, Usable, NothingLeaks, LiteOutside

(* Calls that leave the buffer alone. *)
LEMMA SameKeeps ==
  ASSUME IInv, UNCHANGED <<b, mem, live, damage>>, file' \in Seq(Bytes)
  PROVE  IInv'
  BY DEF IInv, TypeOK, Fits, Usable, NothingLeaks, LiteOutside, bufferislite

LEMMA OutOfMemoryKeeps ==
  ASSUME IInv, Usable, OutOfMemory, file' = file
  PROVE  IInv'
  <1>1. CASE bufferisdynamic
    <2>1. /\ live' = live \ {b.data} /\ damage' = "freed" /\ b' = b
          /\ mem' = [mem EXCEPT ![b.data] = <<>>]
      BY <1>1 DEF OutOfMemory
    <2>2. <<>> \in Seq(Bytes) OBVIOUS
    <2>3. TypeOK' BY <2>1, <2>2 DEF IInv, TypeOK
    <2> QED
      BY <2>1, <2>3
         DEF IInv, Fits, Usable, NothingLeaks, LiteOutside, bufferislite
  <1>2. CASE ~ bufferisdynamic
    BY <1>2, SameKeeps DEF OutOfMemory, IInv, TypeOK
  <1> QED BY <1>1, <1>2

LEMMA AddKeeps ==
  ASSUME IInv, NEW s \in Seq(Bytes), buf_addlstring(s)
  PROVE  IInv'
  <1>1. Usable /\ file' = file /\ file \in Seq(Bytes)
    BY DEF buf_addlstring, IInv, TypeOK
  <1>2. CASE UNCHANGED <<b, mem, live, damage>> BY <1>1, <1>2, SameKeeps
  <1>3. CASE ~ bufferislite /\ Grown(Len(s), s)
    <2>1. Open BY <1>1, <1>3 DEF Open
    <2>2. Len(s) \in Nat OBVIOUS
    <2>3. Appended(s) /\ damage' = damage BY <1>3, <2>1, <2>2, GrownAppends
    <2> QED BY <1>1, <2>1, <2>3, AppendedKeeps
  <1>4. CASE OutOfMemory BY <1>1, <1>4, OutOfMemoryKeeps
  <1> QED BY <1>2, <1>3, <1>4 DEF buf_addlstring

LEMMA JsonKeeps ==
  ASSUME IInv, NEW s \in Seq(Bytes), addlstring_json(s)
  PROVE  IInv'
  <1> DEFINE t == JsonText(s)
  <1>1. Open /\ Usable /\ file' = file /\ file \in Seq(Bytes)
    BY DEF addlstring_json, IInv, TypeOK, Open
  <1>2. t \in Seq(Bytes) /\ Len(t) \in Nat /\ Len(t) <= Reserved(s)
          /\ Reserved(s) \in Nat
    <2>1. Reserved(s) \in Nat BY DEF Reserved
    <2> QED BY <2>1, JsonBytes
  <1> HIDE DEF t
  <1>3. CASE \E k \in {Reserved(s), Len(t)} : Grown(k, t)
    <2>1. PICK k \in Nat : Len(t) <= k /\ Grown(k, t) BY <1>2, <1>3
    <2>2. Appended(t) /\ damage' = damage BY <1>1, <1>2, <2>1, GrownAppends
    <2> QED BY <1>1, <1>2, <2>2, AppendedKeeps
  <1>4. CASE OutOfMemory BY <1>1, <1>4, OutOfMemoryKeeps
  <1>5. CASE damage' = "text" /\ UNCHANGED <<b, mem, live>>
    BY <1>1, <1>5
       DEF Open, IInv, TypeOK, Fits, Usable, NothingLeaks, LiteOutside,
           bufferislite
  <1> QED BY <1>3, <1>4, <1>5 DEF addlstring_json, t

LEMMA NewKeeps == ASSUME IInv, buf_new PROVE IInv'
  <1> DEFINE fresh == [i \in 1 .. INITIAL_BUFFER_SIZE |-> Junk]
             c == [data |-> INITBUFF, initb |-> INITBUFF, n |-> 0,
                   capacity |-> INITIAL_BUFFER_SIZE]
  <1>1. fresh \in Seq(Bytes) /\ Len(fresh) = INITIAL_BUFFER_SIZE
    BY BufferAssumption
  <1>2. /\ b' = c /\ mem' = [mem EXCEPT ![INITBUFF] = fresh]
        /\ UNCHANGED <<live, damage, file>> /\ b = NULL /\ damage = "none"
    BY DEF buf_new
  <1>3. c \in Buffers BY BufferAssumption DEF Buffers
  <1> HIDE DEF fresh
  <1>4. mem' \in [Locations -> Seq(Bytes)] /\ mem'[INITBUFF] = fresh
    BY <1>1, <1>2 DEF IInv, TypeOK, Locations
  <1>5. TypeOK' BY <1>2, <1>3, <1>4 DEF IInv, TypeOK, Locations
  <1>6. Fits' BY <1>1, <1>2, <1>4, BufferAssumption DEF Fits
  <1>7. live' = {} /\ INITBUFF \notin Blocks
    BY <1>2, BufferAssumption DEF IInv, NothingLeaks
  <1>8. NothingLeaks' BY <1>2, <1>7 DEF NothingLeaks
  <1>9. LiteOutside'
    BY <1>2, BufferAssumption DEF LiteOutside, bufferislite
  <1> QED BY <1>5, <1>6, <1>8, <1>9 DEF IInv

LEMMA WrapKeeps ==
  ASSUME IInv, NEW s \in Seq(Bytes), buf_from_const(s) PROVE IInv'
  <1> DEFINE c == [data |-> OUTSIDE, initb |-> NULL, n |-> Len(s),
                   capacity |-> Len(s)]
  <1>1. /\ b' = c /\ mem' = [mem EXCEPT ![OUTSIDE] = s]
        /\ UNCHANGED <<live, damage, file>> /\ b = NULL /\ damage = "none"
    BY DEF buf_from_const
  <1>2. c \in Buffers BY DEF Buffers
  <1>3. mem' \in [Locations -> Seq(Bytes)] /\ mem'[OUTSIDE] = s
    BY <1>1 DEF IInv, TypeOK, Locations
  <1>4. TypeOK' BY <1>1, <1>2, <1>3 DEF IInv, TypeOK, Locations
  <1>5. Fits' BY <1>1, <1>3 DEF Fits
  <1>6. live' = {} /\ OUTSIDE \notin Blocks
    BY <1>1, BufferAssumption DEF IInv, NothingLeaks
  <1>7. NothingLeaks' BY <1>1, <1>6 DEF NothingLeaks
  <1>8. LiteOutside' BY <1>1 DEF LiteOutside, bufferislite
  <1> QED BY <1>4, <1>5, <1>7, <1>8 DEF IInv

LEMMA ResetKeeps == ASSUME IInv, buf_reset PROVE IInv'
  <1>1. b # NULL /\ damage = "none" BY DEF buf_reset, Usable
  <1>2. /\ b' = [b EXCEPT !.n = 0] /\ UNCHANGED <<mem, live, damage, file>>
    BY DEF buf_reset
  <1>3. /\ b' \in Buffers /\ b'.n = 0 /\ b'.data = b.data
        /\ b'.initb = b.initb /\ b'.capacity = b.capacity
    BY <1>1, <1>2, BufferTyped DEF IInv, Buffers
  <1>4. TypeOK' BY <1>2, <1>3 DEF IInv, TypeOK
  <1>5. b' # NULL BY <1>3, BufferAssumption
  <1>6. Fits'
    BY <1>1, <1>2, <1>3, BufferTyped DEF IInv, Fits, Usable
  <1>7. NothingLeaks' BY <1>1, <1>2, <1>3, <1>5 DEF IInv, NothingLeaks
  <1>8. LiteOutside'
    BY <1>1, <1>3 DEF IInv, LiteOutside, bufferislite
  <1> QED BY <1>4, <1>6, <1>7, <1>8 DEF IInv

LEMMA TextBytes ==
  ASSUME IInv, Usable
  PROVE  /\ Text \in Seq(Bytes) /\ Len(Text) = b.n
         /\ \A i \in 1 .. b.n : Text[i] = mem[b.data][i]
         /\ Text = SubSeq(mem[b.data], 1, b.n)
  <1>1. TypeOK /\ b # NULL BY DEF IInv, Usable
  <1>2. b.n \in Nat /\ b.n <= Len(mem[b.data]) /\ mem[b.data] \in Seq(Bytes)
    BY <1>1, BufferTyped DEF IInv, Fits
  <1>3. \A i \in 1 .. b.n : mem[b.data][i] \in Bytes BY <1>2
  <1> QED BY <1>2, <1>3 DEF Text

LEMMA WriteKeeps == ASSUME IInv, r_lua_writedata PROVE IInv'
  <1>1. Usable /\ UNCHANGED <<b, mem, live, damage>> BY DEF r_lua_writedata
  <1>2. TypeOK /\ b # NULL BY <1>1 DEF IInv, Usable
  <1>3. file \in Seq(Bytes) BY <1>2 DEF TypeOK
  <1>4. CASE file' = file \o Text
    BY <1>1, <1>3, <1>4, TextBytes, SameKeeps
  <1>5. ASSUME NEW i \in 0 .. b.n - 1,
               file' = file \o SubSeq(mem[b.data], 1, i)
        PROVE  IInv'
    <2>1. b.n \in Nat /\ b.n <= Len(mem[b.data])
            /\ mem[b.data] \in Seq(Bytes)
      BY <1>1, <1>2, BufferTyped DEF IInv, Fits
    <2>2. SubSeq(mem[b.data], 1, i) \in Seq(Bytes) BY <2>1
    <2> QED BY <1>1, <1>3, <1>5, <2>2, SameKeeps
  <1> QED BY <1>4, <1>5 DEF r_lua_writedata

LEMMA CollectKeeps == ASSUME IInv, buffgc PROVE IInv'
  <1>1. b # NULL /\ b' = NULL /\ file' = file
          /\ mem' = [mem EXCEPT ![b.data] = <<>>]
    BY DEF buffgc
  <1>2. live' \subseteq live /\ damage' \in {damage, "twice"} BY DEF buffgc
  <1>3. <<>> \in Seq(Bytes) OBVIOUS
  <1>4. TypeOK' BY <1>1, <1>2, <1>3 DEF IInv, TypeOK
  <1>5. NothingLeaks'
    <2>1. SUFFICES ASSUME damage' = "none" PROVE live' = {}
      BY <1>1 DEF NothingLeaks
    <2>2. damage = "none" BY <1>2, <2>1
    <2>3. live = IF b.data \in Blocks THEN {b.data} ELSE {}
      BY <1>1, <2>2 DEF IInv, NothingLeaks
    <2>4. CASE bufferisdynamic /\ ~ bufferislite
      BY <2>3, <2>4 DEF buffgc
    <2>5. CASE ~ (bufferisdynamic /\ ~ bufferislite)
      <3>1. live' = live BY <2>5 DEF buffgc
      <3>2. b.data \notin Blocks
        BY <1>1, <2>5, BufferTyped, BufferAssumption
           DEF IInv, LiteOutside, bufferisdynamic, bufferislite
      <3> QED BY <2>3, <3>1, <3>2
    <2> QED BY <2>4, <2>5
  <1> QED
    BY <1>1, <1>4, <1>5 DEF IInv, Fits, Usable, LiteOutside

(* IInv is inductive. *)
THEOREM Inductive == IInv /\ [Next]_vars => IInv'
  <1> SUFFICES ASSUME IInv, [Next]_vars PROVE IInv' OBVIOUS
  <1>0. file \in Seq(Bytes) BY DEF IInv, TypeOK
  <1>1. CASE buf_new BY <1>1, NewKeeps
  <1>2. ASSUME NEW s \in Wrapped, buf_from_const(s) PROVE IInv'
    BY <1>2, WrapKeeps, BufferAssumption
  <1>3. ASSUME NEW s \in Strings, r_addlstring(s) PROVE IInv'
    BY <1>3, AddKeeps, BufferAssumption DEF r_addlstring
  <1>4. ASSUME NEW s \in Strings, addlstring_json(s) PROVE IInv'
    BY <1>4, JsonKeeps, BufferAssumption
  <1>5. ASSUME NEW i \in Numbers, r_addint(i) PROVE IInv'
    <2>1. i \in Int BY BufferAssumption
    <2> QED BY <1>5, <2>1, AddKeeps, IntBytes DEF r_addint
  <1>6. ASSUME NEW i \in Numbers, r_addshort(i) PROVE IInv'
    <2>1. i \in Int BY BufferAssumption
    <2> QED BY <1>6, <2>1, AddKeeps, ShortBytes DEF r_addshort
  <1>7. CASE buf_reset BY <1>7, ResetKeeps
  <1>8. CASE r_buffsub BY <1>0, <1>8, SameKeeps DEF r_buffsub
  <1>9. CASE r_lua_writedata BY <1>9, WriteKeeps
  <1>10. CASE buffgc BY <1>10, CollectKeeps
  <1>11. CASE UNCHANGED vars BY <1>0, <1>11, SameKeeps DEF vars
  <1> QED
    BY <1>1, <1>2, <1>3, <1>4, <1>5, <1>6, <1>7, <1>8, <1>9, <1>10, <1>11
       DEF Next

LEMMA Invariant == Spec => []IInv
  BY Initial, Inductive, PTL DEF Spec

(* Buffers and what is stored keep their types. *)
THEOREM TypeCorrect == Spec => []TypeOK
  <1>1. IInv => TypeOK BY DEF IInv
  <1> QED BY <1>1, Invariant, PTL

(* The bytes in use lie within what is allocated, however a buffer grew    *)
(* (buf_resize, buf_prepsize, addlstring_json).                            *)
THEOREM FitsCorrect == Spec => []Fits
  <1>1. IInv => Fits BY DEF IInv
  <1> QED BY <1>1, Invariant, PTL

(* What is allocated is what the buffer points to (buf_resize, buf_free).  *)
THEOREM NothingLeaksCorrect == Spec => []NothingLeaks
  <1>1. IInv => NothingLeaks BY DEF IInv
  <1> QED BY <1>1, Invariant, PTL

(***************************************************************************)
(* Buffers implement texts.                                                *)
(***************************************************************************)
LEMMA Concatenated ==
  ASSUME NEW v \in Seq(Bytes), NEW s \in Seq(Bytes), NEW n \in Nat, Len(v) = n
  PROVE  /\ v \o s \in Seq(Bytes) /\ Len(v \o s) = n + Len(s)
         /\ \A i \in 1 .. n + Len(s) :
              (v \o s)[i] = IF i <= n THEN v[i] ELSE s[i - n]
  BY ConcatProperties

LEMMA OpenContent ==
  ASSUME Open
  PROVE  Condition = "buffer" /\ Content = Text
  BY OpenBuffer DEF Condition, Content, Open

LEMMA AppendedContent ==
  ASSUME Open, NEW s \in Seq(Bytes), Appended(s), damage' = damage
  PROVE  Condition' = "buffer" /\ Content' = Content \o s
  <1>1. damage' = "none" /\ b' # NULL /\ b'.initb # NULL
    BY OpenBuffer, BufferAssumption DEF Appended
  <1>2. Condition' = "buffer" BY <1>1 DEF Condition, bufferislite
  <1>3. Content' = Text' BY <1>1 DEF Content
  <1>4. b.n \in Nat /\ Text \in Seq(Bytes) /\ Len(Text) = b.n
          /\ \A i \in 1 .. b.n : Text[i] = mem[b.data][i]
    BY TextBytes, BufferTyped DEF Open, IInv, Usable
  <1> DEFINE u == [i \in 1 .. b.n + Len(s) |-> mem'[b'.data][i]]
  <1>5. Text' = u BY DEF Text, Appended
  <1>6. u = Text \o s
    <2>1. /\ Text \o s \in Seq(Bytes) /\ Len(Text \o s) = b.n + Len(s)
          /\ \A i \in 1 .. b.n + Len(s) :
               (Text \o s)[i] = IF i <= b.n THEN Text[i] ELSE s[i - b.n]
      BY <1>4, Concatenated
    <2>2. ASSUME NEW i \in 1 .. b.n + Len(s)
          PROVE  u[i] = (Text \o s)[i]
      <3>1. CASE i <= b.n
        <4>1. i \in 1 .. b.n BY <1>4, <3>1
        <4>2. mem'[b'.data][i] = mem[b.data][i] BY <4>1 DEF Appended
        <4> QED BY <1>4, <2>1, <3>1, <4>1, <4>2
      <3>2. CASE ~ (i <= b.n)
        <4>1. i - b.n \in 1 .. Len(s) BY <1>4, <3>2
        <4>2. mem'[b'.data][b.n + (i - b.n)] = s[i - b.n]
          BY <4>1 DEF Appended
        <4>3. b.n + (i - b.n) = i BY <1>4
        <4> QED BY <2>1, <3>2, <4>2, <4>3
      <3> QED BY <3>1, <3>2
    <2>3. \A i \in 1 .. b.n + Len(s) : (Text \o s)[i] \in Bytes
      BY <2>1, ElementOfSeq
    <2>4. b.n + Len(s) \in Nat BY <1>4
    <2>5. u \in Seq(Bytes) /\ Len(u) = b.n + Len(s)
      <3>1. u = [i \in 1 .. b.n + Len(s) |-> u[i]] OBVIOUS
      <3>2. \A i \in 1 .. b.n + Len(s) : u[i] \in Bytes BY <2>2, <2>3
      <3> HIDE DEF u
      <3> QED BY <2>4, <3>1, <3>2
    <2> HIDE DEF u
    <2> QED BY <2>1, <2>2, <2>5, SeqEqual
  <1> QED BY <1>2, <1>3, <1>5, <1>6, OpenContent

(* What sub returns is the piece that Lua's string.sub returns. *)
LEMMA SubstringIsPiece ==
  ASSUME IInv, Usable, NEW j \in Int, NEW k \in Int
  PROVE  buf_substring(j, k) = Abstract!Piece(Content, j, k)
  <1> DEFINE t == Text
             n == Len(t)
             d == mem[b.data]
             In == {i \in 1 .. n : Abstract!From(j, n) <= i
                                    /\ i <= Abstract!To(k, n)}
             f == start(j)
             l == finish(k)
  <1>7. Abstract!Piece(t, j, k) =
          IF In = {} THEN <<>>
          ELSE SubSeq(t, CHOOSE i \in In : \A m \in In : i <= m,
                         CHOOSE i \in In : \A m \in In : m <= i)
    BY DEF Abstract!Piece
  <1>1. /\ n \in Nat /\ d \in Seq(Bytes) /\ n <= Len(d) /\ b.n = n
        /\ t = SubSeq(d, 1, n) /\ Content = t
    BY TextBytes, BufferTyped DEF IInv, Usable, Fits, Content
  <1>2. f \in Int /\ f >= 1 /\ l \in Int /\ l <= n
    BY <1>1 DEF start, finish
  <1>3. \A i \in 1 .. n : Abstract!From(j, n) <= i <=> f <= i
    BY <1>1 DEF start, Abstract!From
  <1>4. \A i \in 1 .. n : i <= Abstract!To(k, n) <=> i <= l
    BY <1>1 DEF finish, Abstract!To
  <1>5. buf_substring(j, k) = IF f > l \/ f > n THEN <<>> ELSE SubSeq(d, f, l)
    BY <1>1 DEF buf_substring
  <1> HIDE DEF f, l
  <1>6. In = {i \in 1 .. n : f <= i /\ i <= l} BY <1>3, <1>4
  <1> HIDE DEF In, n, d, t
  <1>8. CASE f > l \/ f > n
    <2>1. In = {} BY <1>1, <1>2, <1>6, <1>8
    <2> QED BY <1>1, <1>5, <1>7, <1>8, <2>1
  <1>9. CASE ~ (f > l \/ f > n)
    <2>1. f \in In /\ l \in In /\ \A m \in In : m \in Int /\ f <= m /\ m <= l
      BY <1>1, <1>2, <1>6, <1>9
    <2>2. (CHOOSE i \in In : \A m \in In : i <= m) = f
      <3>1. \A i \in In : (\A m \in In : i <= m) => i = f BY <1>2, <2>1
      <3> QED BY <2>1, <3>1
    <2>3. (CHOOSE i \in In : \A m \in In : m <= i) = l
      <3>1. \A i \in In : (\A m \in In : m <= i) => i = l BY <1>2, <2>1
      <3> QED BY <2>1, <3>1
    <2>4. SubSeq(t, f, l) = SubSeq(d, f, l)
      BY <1>1, <1>2, <1>9
    <2> QED BY <1>1, <1>5, <1>7, <1>9, <2>1, <2>2, <2>3, <2>4
  <1> QED BY <1>8, <1>9

AbstractStep == [Abstract!Next]_(Abstract!vars)

LEMMA InitialMaps == Init => Abstract!Init
  BY DEF Init, Abstract!Init, Condition, Content

LEMMA HeldBuffer ==
  ASSUME IInv, Usable
  PROVE  /\ Content = Text /\ Condition \in {"buffer", "wrapped"}
         /\ (~ bufferislite => Condition = "buffer")
  BY DEF Usable, Content, Condition

LEMMA SameMaps ==
  ASSUME UNCHANGED <<b, mem, damage>>
  PROVE  Condition' = Condition /\ Content' = Content
  BY DEF Condition, Content, Text, bufferislite

LEMMA AppendMaps ==
  ASSUME Open, NEW s \in Seq(Bytes), Appended(s), damage' = damage,
         Added(s), file' = file
  PROVE  AbstractStep
  <1>1. Abstract!Add
    BY OpenContent, AppendedContent DEF Abstract!Add, Added
  <1> QED BY <1>1 DEF AbstractStep, Abstract!Next

LEMMA LossMaps ==
  ASSUME Open, damage' # "none", file' = file
  PROVE  AbstractStep
  <1>1. Abstract!Lose
    BY OpenContent DEF Abstract!Lose, Condition
  <1> QED BY <1>1 DEF AbstractStep, Abstract!Next

LEMMA AddMaps ==
  ASSUME IInv, NEW s \in Seq(Bytes), buf_addlstring(s)
  PROVE  AbstractStep
  <1>1. Usable /\ file' = file BY DEF buf_addlstring
  <1>2. CASE Did("refused") /\ UNCHANGED <<b, mem, damage>>
    <2>1. Abstract!Refuse
      BY <1>1, <1>2, HeldBuffer, SameMaps
         DEF Abstract!Refuse, Abstract!Held, Did
    <2> QED BY <2>1 DEF AbstractStep, Abstract!Next
  <1>3. CASE ~ bufferislite /\ s = <<>> /\ Added(s)
               /\ UNCHANGED <<b, mem, live, damage>>
    <2>1. Content \in Seq(Bytes) BY <1>1, HeldBuffer, TextBytes
    <2>2. Content \o s = Content BY <1>3, <2>1, ConcatEmptySeq
    <2>3. Abstract!Add
      BY <1>1, <1>3, <2>2, HeldBuffer, SameMaps DEF Abstract!Add, Added
    <2> QED BY <2>3 DEF AbstractStep, Abstract!Next
  <1>4. CASE ~ bufferislite /\ Grown(Len(s), s) /\ Added(s)
    <2>1. Open BY <1>1, <1>4 DEF Open
    <2>2. Len(s) \in Nat OBVIOUS
    <2>3. Appended(s) /\ damage' = damage BY <1>4, <2>1, <2>2, GrownAppends
    <2> QED BY <1>1, <1>4, <2>1, <2>3, AppendMaps
  <1>5. CASE ~ bufferislite /\ OutOfMemory /\ Did("refused")
    <2>1. CASE bufferisdynamic
      <3>1. damage' # "none" BY <1>5, <2>1 DEF OutOfMemory
      <3>2. Open BY <1>1, <1>5 DEF Open
      <3> QED BY <1>1, <3>1, <3>2, LossMaps
    <2>2. CASE ~ bufferisdynamic BY <1>2, <1>5, <2>2 DEF OutOfMemory
    <2> QED BY <2>1, <2>2
  <1> QED BY <1>2, <1>3, <1>4, <1>5 DEF buf_addlstring

LEMMA JsonMaps ==
  ASSUME IInv, NEW s \in Seq(Bytes), addlstring_json(s)
  PROVE  AbstractStep
  <1> DEFINE t == JsonText(s)
  <1>1. Open /\ file' = file /\ Added(t) BY DEF addlstring_json, Open
  <1>2. t \in Seq(Bytes) /\ Len(t) \in Nat /\ Len(t) <= Reserved(s)
          /\ Reserved(s) \in Nat
    <2>1. Reserved(s) \in Nat BY DEF Reserved
    <2> QED BY <2>1, JsonBytes
  <1> HIDE DEF t
  <1>3. CASE \E k \in {Reserved(s), Len(t)} : Grown(k, t)
    <2>1. PICK k \in Nat : Len(t) <= k /\ Grown(k, t) BY <1>2, <1>3
    <2>2. Appended(t) /\ damage' = damage BY <1>1, <1>2, <2>1, GrownAppends
    <2> QED BY <1>1, <1>2, <2>2, AppendMaps
  <1>4. CASE bufferisdynamic /\ OutOfMemory
    <2>1. damage' # "none" BY <1>4 DEF OutOfMemory
    <2> QED BY <1>1, <2>1, LossMaps
  <1>5. CASE damage' = "text"
    BY <1>1, <1>5, LossMaps
  <1> QED BY <1>3, <1>4, <1>5 DEF addlstring_json, t

LEMMA BeginMaps ==
  ASSUME IInv, buf_new \/ \E s \in Wrapped : buf_from_const(s)
  PROVE  AbstractStep
  <1>1. Condition = "none" /\ did' = [call |-> "begin"] /\ file' = file
    BY DEF buf_new, buf_from_const, Condition, Did
  <1>2. CASE buf_new
    <2>1. /\ b'.n = 0 /\ b'.initb = INITBUFF /\ damage' = "none"
          /\ b' \in Buffers
      BY <1>2, BufferAssumption DEF buf_new, Buffers
    <2>2. b' # NULL /\ INITBUFF # NULL BY <2>1, BufferAssumption
    <2>3. Condition' = "buffer" BY <2>1, <2>2 DEF Condition, bufferislite
    <2>4. Content' = <<>>
      <3>1. Content' = [i \in 1 .. 0 |-> mem'[b'.data][i]]
        BY <2>1, <2>2 DEF Content, Text
      <3> QED BY <3>1
    <2> QED
      BY <1>1, <2>3, <2>4 DEF AbstractStep, Abstract!Next, Abstract!Begin
  <1>3. ASSUME NEW s \in Wrapped, buf_from_const(s) PROVE AbstractStep
    <2>1. s \in Seq(Bytes) BY BufferAssumption
    <2>2. IInv' BY <1>3, <2>1, WrapKeeps
    <2>3. b'.initb = NULL /\ damage' = "none" /\ b' # NULL
      <3>1. b' \in Buffers BY <1>3, <2>1 DEF buf_from_const, Buffers
      <3> QED BY <1>3, <3>1, BufferAssumption DEF buf_from_const
    <2>4. Condition' = "wrapped" BY <2>3 DEF Condition, bufferislite
    <2>5. b'.n = Len(s) /\ b'.data = OUTSIDE /\ mem'[OUTSIDE] = s
      BY <1>3 DEF buf_from_const, IInv, TypeOK
    <2>6. Content' = [i \in 1 .. Len(s) |-> s[i]]
      BY <2>3, <2>5 DEF Content, Text
    <2>7. Content' \in Seq(Bytes) BY <2>1, <2>6
    <2> QED
      BY <1>1, <2>4, <2>7 DEF AbstractStep, Abstract!Next, Abstract!Begin
  <1> QED BY <1>2, <1>3

LEMMA ResetMaps == ASSUME IInv, buf_reset PROVE AbstractStep
  <1>1. /\ Usable /\ ~ bufferislite /\ damage' = damage /\ file' = file
        /\ b' = [b EXCEPT !.n = 0] /\ did' = [call |-> "reset"]
    BY DEF buf_reset, Did
  <1>2. b # NULL /\ TypeOK BY <1>1 DEF Usable, IInv
  <1>3. b' \in Buffers /\ b'.n = 0 /\ b'.initb = b.initb
    BY <1>1, <1>2, BufferTyped DEF Buffers
  <1>4. b' # NULL /\ damage' = "none"
    BY <1>1, <1>3, BufferAssumption DEF Usable
  <1>5. Condition' = "buffer"
    BY <1>1, <1>3, <1>4 DEF Condition, bufferislite
  <1>6. Content' = <<>>
    <2>1. Content' = [i \in 1 .. 0 |-> mem'[b'.data][i]]
      BY <1>3, <1>4 DEF Content, Text
    <2> QED BY <2>1
  <1>7. Abstract!Reset BY <1>1, <1>5, <1>6, HeldBuffer DEF Abstract!Reset
  <1> QED BY <1>7 DEF AbstractStep, Abstract!Next

LEMMA CutMaps == ASSUME IInv, r_buffsub PROVE AbstractStep
  <1>1. Usable /\ UNCHANGED <<b, mem, damage, file>> BY DEF r_buffsub
  <1>2. PICK j \in Positions, k \in Positions \cup {b.n} :
          did' = [call |-> "cut", from |-> j, to |-> k,
                  piece |-> buf_substring(j, k)]
    BY DEF r_buffsub
  <1>3. j \in Int /\ k \in Int
    <2>1. b.n \in Nat BY <1>1, BufferTyped DEF IInv, Usable
    <2> QED BY <2>1, BufferAssumption
  <1>4. /\ did'.call = "cut"
        /\ did'.piece = Abstract!Piece(Content, did'.from, did'.to)
    <2>1. did'.from = j /\ did'.to = k /\ did'.call = "cut"
            /\ did'.piece = buf_substring(j, k)
      BY <1>2
    <2>2. buf_substring(j, k) = Abstract!Piece(Content, j, k)
      BY <1>1, <1>3, SubstringIsPiece
    <2> QED BY <2>1, <2>2
  <1>5. Abstract!Cut
    BY <1>1, <1>4, HeldBuffer, SameMaps DEF Abstract!Cut, Abstract!Held
  <1> QED BY <1>5 DEF AbstractStep, Abstract!Next

LEMMA WriteMaps == ASSUME IInv, r_lua_writedata PROVE AbstractStep
  <1>1. Usable /\ UNCHANGED <<b, mem, damage>> BY DEF r_lua_writedata
  <1>2. CASE file' = file \o Text /\ Did("written")
    <2>1. Abstract!Write
      BY <1>1, <1>2, HeldBuffer, SameMaps
         DEF Abstract!Write, Abstract!Held, Did
    <2> QED BY <2>1 DEF AbstractStep, Abstract!Next
  <1>3. ASSUME b.n > 0, Did("unwritten"), NEW i \in 0 .. b.n - 1,
               file' = file \o SubSeq(mem[b.data], 1, i)
        PROVE  AbstractStep
    <2>1. /\ b.n \in Nat /\ b.n <= Len(mem[b.data])
          /\ mem[b.data] \in Seq(Bytes)
      BY <1>1, BufferTyped DEF IInv, Usable, Fits
    <2>2. Content = SubSeq(mem[b.data], 1, b.n) /\ Len(Content) = b.n
      BY <1>1, HeldBuffer, TextBytes
    <2>3. SubSeq(Content, 1, i) = SubSeq(mem[b.data], 1, i)
      BY <2>1, <2>2, <1>3
    <2>4. i \in 0 .. Len(Content) /\ file' = file \o SubSeq(Content, 1, i)
      BY <1>3, <2>1, <2>2, <2>3
    <2>5. Abstract!Fail
      BY <1>1, <1>3, <2>4, HeldBuffer, SameMaps
         DEF Abstract!Fail, Abstract!Held, Did
    <2> QED BY <2>5 DEF AbstractStep, Abstract!Next
  <1> QED BY <1>2, <1>3 DEF r_lua_writedata

LEMMA CollectMaps == ASSUME IInv, buffgc PROVE AbstractStep
  <1>1. /\ b # NULL /\ b' = NULL /\ file' = file
        /\ did' = [call |-> "end"] /\ damage' \in {damage, "twice"}
    BY DEF buffgc, Did
  <1>2. Content' = <<>> BY <1>1 DEF Content
  <1>3. CASE damage = "none"
    <2>1. damage' = "none"
      <3>1. CASE bufferisdynamic /\ ~ bufferislite
        <4>1. b.data \in Blocks
          BY <1>1, <3>1, BufferTyped
             DEF IInv, LiteOutside, Locations, bufferisdynamic, bufferislite
        <4>2. b.data \in live BY <1>1, <1>3, <4>1 DEF IInv, NothingLeaks
        <4> QED BY <1>3, <3>1, <4>2 DEF buffgc
      <3>2. CASE ~ (bufferisdynamic /\ ~ bufferislite)
        BY <1>3, <3>2 DEF buffgc
      <3> QED BY <3>1, <3>2
    <2>2. Condition' = "none" BY <1>1, <2>1 DEF Condition
    <2>3. Condition \in {"buffer", "wrapped"} BY <1>1, <1>3 DEF Condition
    <2>4. Abstract!End
      BY <1>1, <1>2, <2>2, <2>3 DEF Abstract!End, Abstract!Held
    <2> QED BY <2>4 DEF AbstractStep, Abstract!Next
  <1>4. CASE damage # "none"
    <2>1. Condition = "lost" /\ Condition' = "lost"
      BY <1>1, <1>4 DEF Condition
    <2>2. Abstract!Lost BY <1>1, <2>1 DEF Abstract!Lost
    <2> QED BY <2>2 DEF AbstractStep, Abstract!Next
  <1> QED BY <1>3, <1>4

LEMMA StepMaps == IInv /\ [Next]_vars => AbstractStep
  <1> SUFFICES ASSUME IInv, [Next]_vars PROVE AbstractStep OBVIOUS
  <1>1. CASE buf_new BY <1>1, BeginMaps
  <1>2. CASE \E s \in Wrapped : buf_from_const(s) BY <1>2, BeginMaps
  <1>3. ASSUME NEW s \in Strings, r_addlstring(s) PROVE AbstractStep
    BY <1>3, AddMaps, BufferAssumption DEF r_addlstring
  <1>4. ASSUME NEW s \in Strings, addlstring_json(s) PROVE AbstractStep
    BY <1>4, JsonMaps, BufferAssumption
  <1>5. ASSUME NEW i \in Numbers, r_addint(i) PROVE AbstractStep
    <2>1. i \in Int BY BufferAssumption
    <2> QED BY <1>5, <2>1, AddMaps, IntBytes DEF r_addint
  <1>6. ASSUME NEW i \in Numbers, r_addshort(i) PROVE AbstractStep
    <2>1. i \in Int BY BufferAssumption
    <2> QED BY <1>6, <2>1, AddMaps, ShortBytes DEF r_addshort
  <1>7. CASE buf_reset BY <1>7, ResetMaps
  <1>8. CASE r_buffsub BY <1>8, CutMaps
  <1>9. CASE r_lua_writedata BY <1>9, WriteMaps
  <1>10. CASE buffgc BY <1>10, CollectMaps
  <1>11. CASE UNCHANGED vars
    BY <1>11, SameMaps DEF vars, AbstractStep, Abstract!vars
  <1> QED
    BY <1>1, <1>2, <1>3, <1>4, <1>5, <1>6, <1>7, <1>8, <1>9, <1>10, <1>11
       DEF Next

(* A growable buffer implements a text: whatever is added, wherever the    *)
(* bytes have moved, and however often memory runs out, every call does    *)
(* what it does to the text, or the buffer is lost (buf.c, rbuf.c, and     *)
(* addlstring_json of json.c).                                             *)
THEOREM ImplementsCorrect == Spec => Implements
  <1>1. Init => Abstract!Init BY InitialMaps
  <1>2. IInv /\ [Next]_vars => [Abstract!Next]_(Abstract!vars)
    BY StepMaps DEF AbstractStep
  <1> QED
    BY <1>1, <1>2, Invariant, PTL DEF Spec, Implements, Abstract!Spec
==============================================================================

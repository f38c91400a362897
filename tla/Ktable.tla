------------------------------- MODULE Ktable -------------------------------
(***************************************************************************)
(* Name tables (rpeg/runtime/ktable.c): strings laid end to end in a block *)
(* and an array of elements that say where each begins and how long it is. *)
(* Indices count from 1.  A table whose memory could not grow when it had  *)
(* to is Overrun: extend_ktable_elements and extend_ktable_block return    *)
(* KTABLE_ERR_MEM, which is positive, and ktable_add tests for a negative  *)
(* result, so it writes behind the memory it has.                          *)
(***************************************************************************)
EXTENDS Integers, Sequences, SequencesExt

CONSTANTS
  KTABLE_INIT_SIZE,       (* elements of a table that is not told a number *)
  KTABLE_AVG_ELEMENT_LEN, (* bytes for each of them                        *)
  KTABLE_MAX_SIZE         (* most elements that one table may have         *)

ASSUME TableAssumption ==
  /\ KTABLE_INIT_SIZE \in Nat \ {0}
  /\ KTABLE_AVG_ELEMENT_LEN \in Nat \ {0}
  /\ KTABLE_MAX_SIZE \in Nat \ {0}

Overrun == [elements |-> <<>>, block |-> <<>>, size |-> 0, blocksize |-> 0]

(* Elements are numbered from 1: one slot of the array is never used.      *)
ktable_new(n, bytes) ==
  LET size == 1 + (IF n > 0 THEN n ELSE KTABLE_INIT_SIZE)
  IN  [elements |-> <<>>, block |-> <<>>, size |-> size,
       blocksize |-> IF bytes > 0 THEN bytes
                     ELSE size * KTABLE_AVG_ELEMENT_LEN]

ktable_len(kt) == Len(kt.elements)
Indices(kt) == 1 .. ktable_len(kt)
ktable_element_name(kt, i) ==
  SubSeq(kt.block, kt.elements[i].start + 1,
         kt.elements[i].start + kt.elements[i].len)
Names(kt) == [i \in Indices(kt) |-> ktable_element_name(kt, i)]

(***************************************************************************)
(* Adding a string.  'grows' says whether the allocator has more memory.   *)
(***************************************************************************)
Full(kt) == ktable_len(kt) + 1 = kt.size
blockspace(kt) == kt.blocksize - Len(kt.block)
extend_ktable_elements(kt) == [kt EXCEPT !.size = 2 * @]
(* Mutant: a long string is given twice the room, however long it is.      *)
extend_ktable_blockTwice(kt, len) == [kt EXCEPT !.blocksize = 2 * @]
extend_ktable_block(kt, len) ==
  [kt EXCEPT !.blocksize = 2 * @ + IF len > @ THEN len ELSE 0]

ktable_add(kt, s, grows) ==
  LET wide == IF Full(kt) THEN extend_ktable_elements(kt) ELSE kt
      room == IF blockspace(kt) < Len(s) THEN extend_ktable_block(wide, Len(s))
              ELSE wide
  IN  IF kt = Overrun \/ (room # kt /\ ~grows) THEN Overrun
      ELSE [elements |-> Append(kt.elements, [start |-> Len(kt.block), len |-> Len(s)]),
            block |-> kt.block \o s, size |-> room.size, blocksize |-> room.blocksize]

AddAll(kt, ss, grows) ==
  FoldLeft(LAMBDA t, s : ktable_add(t, s, grows), kt, ss)

(***************************************************************************)
(* Concatenating kt1 to kt2: whether it can be done, the table that        *)
(* results, and what has to be added to the indices into kt1.              *)
(***************************************************************************)
ktable_concat_ok(kt1, kt2) == ktable_len(kt1) + ktable_len(kt2) <= KTABLE_MAX_SIZE
ktable_concat(kt1, kt2, grows) == AddAll(kt2, Names(kt1), grows)
Shift(kt1, kt2) == IF ktable_len(kt1) = 0 THEN 0 ELSE ktable_len(kt2)

(***************************************************************************)
(* Comparing two strings: 0, or the sign of the first byte that differs,   *)
(* the shorter one first if there is none.                                 *)
(***************************************************************************)
(* Mutant: only the bytes that both strings have are compared.             *)
ktable_name_cmpPrefix(a, b) ==
  LET Differ == {i \in DOMAIN a \cap DOMAIN b : a[i] # b[i]}
  IN  IF Differ = {} THEN 0
      ELSE IF a[Min(Differ)] < b[Min(Differ)] THEN -1 ELSE 1
ktable_name_cmp(a, b) ==
  LET Differ == {i \in DOMAIN a \cap DOMAIN b : a[i] # b[i]}
  IN  IF Differ # {}
      THEN IF a[Min(Differ)] < b[Min(Differ)] THEN -1 ELSE 1
      ELSE IF Len(a) = Len(b) THEN 0 ELSE IF Len(a) < Len(b) THEN -1 ELSE 1

(***************************************************************************)
(* Compacting: the strings in order, each of them once.  The order that    *)
(* sorting gives to equal strings makes no difference to them.             *)
(***************************************************************************)
Precedes(ss, i, j) ==
  LET order == ktable_name_cmp(ss[i], ss[j]) IN order < 0 \/ (order = 0 /\ i < j)
Rank(ss, i) == 1 + Cardinality({j \in DOMAIN ss : Precedes(ss, j, i)})
ktable_sorted_index(kt) ==
  LET names == Names(kt)
  IN  [k \in Indices(kt) |-> names[CHOOSE i \in Indices(kt) : Rank(names, i) = k]]

AddNew(kt, s, grows) ==
  IF /\ ktable_len(kt) > 0
     /\ ktable_name_cmp(ktable_element_name(kt, ktable_len(kt)), s) = 0
  THEN kt ELSE ktable_add(kt, s, grows)

ktable_compact(kt, grows) ==
  FoldLeft(LAMBDA t, s : AddNew(t, s, grows), ktable_new(0, 0),
           ktable_sorted_index(kt))

(***************************************************************************)
(* Searching a compact table.  With the range down to i and i + 1 the      *)
(* middle is i; a target smaller than that leaves a range from i to i - 1, *)
(* whose middle, as C divides, is again i, and the search does not end.    *)
(***************************************************************************)
NoEnd == -1
ktable_compact_search(kt, target) ==
  LET n == ktable_len(kt)
      Search[range \in (1 .. n + 1) \X (0 .. n)] ==
        LET i    == range[1]
            j    == range[2]
            mid  == i + (j - i) \div 2
            test == ktable_name_cmp(target, ktable_element_name(kt, mid))
        IN  IF j < i THEN NoEnd
            ELSE IF test = 0 THEN mid
            ELSE IF i = j THEN 0
            ELSE IF test < 0 THEN Search[<<i, mid - 1>>]
            ELSE Search[<<mid + 1, j>>]
  IN  IF n = 0 THEN 0 ELSE Search[<<1, n>>]
==============================================================================

---------------------------- MODULE EngineProof ----------------------------
(***************************************************************************)
(* An engine is safe for any number of threads, patterns and calls, and    *)
(* every call on it takes effect alone, at one moment: Engine implements   *)
(* EngineSpec.                                                             *)
(***************************************************************************)
EXTENDS Engine, SequenceTheorems, TLAPS

USE EngineAssumption

(* Stacks of three and four values.                                        *)
LEMMA Push3 ==
  ASSUME NEW S, NEW x \in S, NEW y \in S, NEW z \in S
  PROVE  LET s == <<>> \o <<x, y, z>>
         IN  s \in Seq(S) /\ Len(s) = 3 /\ s[1] = x /\ s[2] = y /\ s[3] = z
  OBVIOUS

LEMMA Push4 ==
  ASSUME NEW S, NEW w \in S, NEW x \in S, NEW y \in S, NEW z \in S
  PROVE  LET s == <<>> \o <<w, x, y, z>>
         IN  s \in Seq(S) /\ Len(s) = 4 /\ s[1] = w
  OBVIOUS

(* A call that pops three of four values and pushes two results.           *)
LEMMA Replace ==
  ASSUME NEW S, NEW s \in Seq(S), Len(s) = 4, NEW x \in S, NEW y \in S
  PROVE  LET r == SubSeq(s, 1, Len(s) - 3) \o <<x, y>>
         IN  r \in Seq(S) /\ Len(r) = 3 /\ r[1] = s[1] /\ r[2] = x
  <1> DEFINE b == SubSeq(s, 1, 1)
  <1>1. \A i \in 1 .. 1 : s[i] \in S
    OBVIOUS
  <1>2. b \in Seq(S) /\ Len(b) = 1 /\ b[1] = s[1]
    BY <1>1, SubSeqProperties
  <1>3. <<x, y>> \in Seq(S) /\ Len(<<x, y>>) = 2 /\ <<x, y>>[1] = x
    OBVIOUS
  <1>4. SubSeq(s, 1, Len(s) - 3) = b
    OBVIOUS
  <1> HIDE DEF b
  <1> QED BY <1>2, <1>3, <1>4, ConcatProperties

LEMMA SyntaxOpStack ==
  ASSUME L = <<>>
  PROVE  syntax_op_stack \in Seq(Objects \cup Words) /\ Len(syntax_op_stack) = 3
  <1> DEFINE S == Objects \cup Words
             b == L \o <<"nil", "engine">>
  <1>1. b \in Seq(S) /\ Len(b) = 2
    BY DEF Words
  <1>2. <<"input">> \in Seq(S) /\ Len(<<"input">>) = 1
    BY DEF Words
  <1>3. 1 \in 1 .. Len(b) /\ "function" \in S
    BY <1>1 DEF Words
  <1> HIDE DEF b, S
  <1>4. [b EXCEPT ![1] = "function"] \in Seq(S)
        /\ Len([b EXCEPT ![1] = "function"]) = 2
    BY <1>1, <1>3, ExceptSeq
  <1> QED BY <1>2, <1>4, ConcatProperties DEF syntax_op_stack, b, S

(* The pattern that a match, trace or matchfile looks up is the client's.  *)
LEMMA Lookup ==
  ASSUME IInv, NEW t \in Threads, call[t] # NULL,
         call[t].op # "free_rplx", Found(call[t].pat)
  PROVE  <<call[t].pat, rplx[call[t].pat]>> \in names
  <1>1. call[t].pat # 0 /\ call[t].pat \in Filled
    BY DEF IInv, TypeOK, Found, Filled, Slots, Free
  <1>2. PICK n \in names : n[1] = call[t].pat
    BY <1>1 DEF IInv, TableInv
  <1>3. n = <<n[1], n[2]>> /\ n[2] = rplx[n[1]]
    BY <1>2 DEF IInv, TableInv, TypeOK
  <1> QED BY <1>2, <1>3

(* No pattern has two indices.                                             *)
LEMMA OneIndex ==
  ASSUME IInv, NEW i, NEW j, NEW o, <<i, o>> \in names, <<j, o>> \in names
  PROVE  i = j
  BY DEF IInv, TableInv

(* What is known of a result that a client holds.                          *)
LEMMA Result ==
  ASSUME IInv, NEW r \in results
  PROVE  /\ r.pat \in Nat /\ r.obj \in Objects /\ <<r.pat, r.obj>> \in names
         /\ \A u \in Threads : call[u] # NULL => call[u].pat # r.pat
  <1>1. results \subseteq [pat : Nat, obj : Objects, block : Nat, by : Threads]
    BY DEF IInv, TypeOK
  <1>2. r.pat \in Nat /\ r.obj \in Objects
    BY <1>1
  <1>3. <<r.pat, r.obj>> \in names
    BY DEF IInv, ResultsInv
  <1>4. \A u \in Threads : call[u] # NULL => call[u].pat # r.pat
    BY DEF IInv, ResultsInv
  <1> QED BY <1>2, <1>3, <1>4

(* A call returns: its thread is idle, the others are where they were.     *)
LEMMA Returned ==
  ASSUME IInv, NEW t \in Threads, NEW v, Return(t, v)
  PROVE  \A u \in Threads : /\ call'[u] = IF u = t THEN NULL ELSE call[u]
                            /\ pc'[u] = IF u = t THEN "idle" ELSE pc[u]
                            /\ u # t => out'[u] = out[u]
  <1>1. DOMAIN call = Threads /\ DOMAIN pc = Threads /\ DOMAIN out = Threads
        /\ call' = [call EXCEPT ![t] = NULL]
        /\ pc' = [pc EXCEPT ![t] = "idle"]
        /\ out' = [out EXCEPT ![t] = v]
    BY DEF IInv, TypeOK, Return, Go
  <1>2. \A u \in Threads : call'[u] = IF u = t THEN NULL ELSE call[u]
    BY <1>1
  <1>3. \A u \in Threads : pc'[u] = IF u = t THEN "idle" ELSE pc[u]
    BY <1>1
  <1>4. \A u \in Threads : u # t => out'[u] = out[u]
    BY <1>1
  <1> QED BY <1>2, <1>3, <1>4

LEMMA InitInv == Init => IInv
  <1> SUFFICES ASSUME Init PROVE IInv
    OBVIOUS
  <1> USE DEF Init
  <1>1. TypeOK
    BY EmptySeq DEF TypeOK, Limits, Places, Outcomes, Quiet
  <1>2. Slots = {} /\ Stored = {}
    BY DEF Slots, Stored
  <1>3. Exclusive /\ PlaceInv /\ StackInv
    BY <1>2 DEF Exclusive, Inside, PlaceInv, StackInv
  <1>4. FreeListSound /\ TableInv /\ ResultsInv
    BY <1>2 DEF FreeListSound, TableInv, Filled, Free, ResultsInv
  <1> QED BY <1>1, <1>3, <1>4 DEF IInv

----------------------------------------------------------------------------
(* A call returns and leaves the table and the clients' hold on it alone;  *)
(* it may have written the buffer of its own pattern.                      *)
Ends(t) ==
  /\ call[t] # NULL /\ call[t].op # "free_rplx" /\ pc[t] # "warnings"
  /\ \E v \in Outcomes : Return(t, v)
  /\ \/ lock \in {NULL, t} /\ lock' = NULL /\ L' = <<>>
     \/ pc[t] = "called" /\ UNCHANGED <<lock, L, heap, buf>>
  /\ UNCHANGED <<closed, table, client>>
  /\ limit' \in Limits
  /\ heap' \subseteq heap /\ Stored \subseteq heap'
  /\ buf' \in [Objects -> [block : Nat, by : Threads \cup {NULL}]]
  /\ \A o \in Objects : buf'[o] = buf[o] \/ <<call[t].pat, o>> \in names

LEMMA EndsKeepsInv ==
  ASSUME IInv, NEW t \in Threads, Ends(t)
  PROVE  IInv'
  <1> USE DEF IInv, Ends, Return, Go, table, client
  <1>0. \A u \in Threads :
          /\ call'[u] = IF u = t THEN NULL ELSE call[u]
          /\ pc'[u] = IF u = t THEN "idle" ELSE pc[u]
          /\ u # t => out'[u] = out[u]
    BY DEF TypeOK
  <1>1. TypeOK'
    <2>0. PICK v \in Outcomes : Return(t, v)
      OBVIOUS
    <2>1. pc' \in [Threads -> Places]
          /\ call' \in [Threads -> Requests \cup {NULL}]
          /\ out' \in [Threads -> Outcomes]
      <3> HIDE DEF IInv, Ends, Outcomes, Requests
      <3>1. TypeOK
        BY DEF IInv
      <3> QED BY <2>0, <3>1 DEF TypeOK, Places
    <2>2. lock' \in Threads \cup {NULL} /\ L' \in Seq(Objects \cup Words)
      <3>1. \/ lock' = NULL /\ L' = <<>>
            \/ lock' = lock /\ L' = L
        OBVIOUS
      <3>2. <<>> \in Seq(Objects \cup Words)
        OBVIOUS
      <3> QED BY <3>1, <3>2 DEF TypeOK
    <2> QED BY <2>1, <2>2 DEF TypeOK
  <1>2. Exclusive'
    BY DEF TypeOK, Exclusive, Inside, PlaceInv
  <1>3. PlaceInv'
    BY DEF TypeOK, PlaceInv
  <1>4. StackInv'
    <2>1. CASE lock' = NULL /\ L' = <<>>
      BY <1>0, <1>2, <2>1 DEF TypeOK, Exclusive, Inside, PlaceInv, StackInv
    <2>2. CASE pc[t] = "called" /\ UNCHANGED <<lock, L, heap, buf>>
      BY <1>0, <2>2 DEF StackInv, Stored
    <2> QED BY <2>1, <2>2
  <1>5. FreeListSound'
    BY DEF FreeListSound, Free, Slots
  <1>6. TableInv'
    <2>1. Filled' = Filled /\ Stored' = Stored
      BY DEF Filled, Free, Slots, Stored
    <2>2. TableInv /\ names' = names /\ rplx' = rplx /\ closed' = closed
          /\ heap' \subseteq heap /\ (~closed => Stored \subseteq heap')
          /\ call[t].op # "free_rplx" /\ pc[t] # "warnings"
      OBVIOUS
    <2> HIDE DEF IInv, Ends
    <2> QED BY <1>0, <2>1, <2>2 DEF TableInv
  <1>7. ResultsInv'
    <2> SUFFICES ASSUME NEW r \in results
                 PROVE  /\ \A u \in Threads :
                             call'[u] # NULL => call'[u].pat # r.pat
                        /\ buf'[r.obj] = buf[r.obj]
      BY DEF ResultsInv
    <2>1. r.obj \in Objects /\ <<r.pat, r.obj>> \in names
      BY Result
    <2>2. call[t].pat # r.pat
      BY Result
    <2>3. buf'[r.obj] = buf[r.obj]
      BY <2>1, <2>2, OneIndex
    <2>4. \A u \in Threads : call[u] # NULL => call[u].pat # r.pat
      BY Result
    <2> HIDE DEF IInv, Ends
    <2> QED BY <1>0, <2>3, <2>4
  <1> QED BY <1>1, <1>2, <1>3, <1>4, <1>5, <1>6, <1>7

(* A call takes the lock and puts values on the stack.                     *)
Enters(t, to) ==
  /\ pc[t] = "called" /\ lock = NULL
  /\ Acquire(t, to)
  /\ UNCHANGED <<closed, table, buf, limit, out, client>>
  /\ heap' \subseteq heap /\ Stored \subseteq heap'
  /\ L' \in Seq(Objects \cup Words)
  /\ \/ /\ to = "compiling" /\ call[t].op = "compile"
        /\ Len(L') = 4 /\ L'[1] = "rplx_table"
     \/ /\ to = "matching" /\ call[t].op = "match"
        /\ Len(L') = 3 /\ <<call[t].pat, L'[2]>> \in names
     \/ /\ to = "tracing" /\ call[t].op \in {"trace", "matchfile"}
        /\ Len(L') = 3 /\ <<call[t].pat, L'[3]>> \in names
     \/ to = "lua" /\ call[t].op \in LuaOps /\ Len(L') = 3

LEMMA EntersKeepsInv ==
  ASSUME IInv, NEW t \in Threads, NEW to, Enters(t, to)
  PROVE  IInv'
  <1> USE DEF IInv, Enters, Acquire, Go, table, client
  <1>0. \A u \in Threads : pc'[u] = IF u = t THEN to ELSE pc[u]
    BY DEF TypeOK
  <1>1. TypeOK'
    BY DEF TypeOK, Places, Inside
  <1>2. Exclusive'
    BY DEF TypeOK, Exclusive, Inside, PlaceInv
  <1>3. PlaceInv'
    BY <1>0 DEF PlaceInv, LuaOps
  <1>4. StackInv'
    <2>1. \A u \in Threads : pc'[u] \in Inside => u = t
      BY <1>0 DEF Exclusive, PlaceInv
    <2>2. lock' # NULL
      OBVIOUS
    <2> QED BY <1>0, <2>1, <2>2 DEF StackInv, Inside
  <1>5. FreeListSound'
    BY DEF FreeListSound, Free, Slots
  <1>6. TableInv'
    <2>1. Filled' = Filled /\ Stored' = Stored
      BY DEF Filled, Free, Slots, Stored
    <2>2. TableInv /\ UNCHANGED <<names, rplx, closed, call, out>>
          /\ heap' \subseteq heap /\ (~closed => Stored \subseteq heap')
          /\ pc[t] # "warnings" /\ to # "warnings"
      OBVIOUS
    <2> HIDE DEF IInv, Enters
    <2> QED BY <1>0, <2>1, <2>2 DEF TableInv
  <1>7. ResultsInv'
    BY DEF ResultsInv
  <1> QED BY <1>1, <1>2, <1>3, <1>4, <1>5, <1>6, <1>7

----------------------------------------------------------------------------
(* Clients                                                                 *)

LEMMA BeginKeepsInv ==
  ASSUME IInv, ~closed, NEW t \in Threads, NEW op \in Ops, NEW arg \in Args(op),
         NEW i \in {0} \cup {n[1] : n \in names}, Begin(t, op, i, arg)
  PROVE  IInv'
  <1> USE DEF IInv, Begin, lua, table
  <1> DEFINE c == [op |-> op, pat |-> i, arg |-> arg]
  <1>0. \A u \in Threads :
          /\ call'[u] = IF u = t THEN c ELSE call[u]
          /\ pc'[u] = IF u = t THEN "called" ELSE pc[u]
          /\ u # t => out'[u] = out[u]
    BY DEF TypeOK
  <1>1. c \in Requests /\ c # NULL
    <2>1. i \in Nat /\ op \in AllOps
      BY DEF TypeOK
    <2>2. arg \in {"expression", "noexpression", "nopat", "c", "status", "lua",
             "style", "nostyle", "query", "zero", "low", "high", "none"}
      BY <2>1 DEF Args, AllOps
    <2>3. c \in Requests
      <3> HIDE DEF IInv, Begin
      <3> QED BY <2>1, <2>2 DEF Requests
    <2> QED BY <2>3
  <1>2. \A n \in names : n[1] # 0
    BY DEF TableInv, Filled, Slots
  <1>3. \A n : n \in names' <=> n \in names /\ (op = "free_rplx" => n[1] # i)
    OBVIOUS
  <1>4. i # 0 => /\ op \in PatternOps /\ \E n \in names : n[1] = i
                 /\ \A u \in Threads : call[u] # NULL => call[u].pat # i
                 /\ \A r \in results : r.pat # i
    BY DEF Unused
  <1>5. TypeOK'
    <2>1. call' \in [Threads -> Requests \cup {NULL}]
          /\ pc' \in [Threads -> Places] /\ calls' \in [Threads -> Nat]
      BY <1>1 DEF TypeOK, Places
    <2>2. out' \in [Threads -> Outcomes]
      BY DEF TypeOK, Quiet, Outcomes
    <2>3. names' \subseteq Nat \X Objects
      BY <1>3 DEF TypeOK
    <2> QED BY <2>1, <2>2, <2>3 DEF TypeOK
  <1>6. Exclusive'
    BY <1>0 DEF Exclusive, Inside, PlaceInv
  <1>7. PlaceInv'
    BY <1>0, <1>1 DEF PlaceInv, InCall
  <1>8. StackInv'
    BY <1>0, <1>2, <1>3, <1>4 DEF StackInv, PlaceInv, Stored
  <1>9. FreeListSound'
    BY DEF FreeListSound, Free, Slots
  <1>10. TableInv'
    <2>1. Filled' = Filled /\ Stored' = Stored
      BY DEF Filled, Free, Slots, Stored
    <2>2. c.pat = i /\ c.op = op
      OBVIOUS
    <2>3. /\ TableInv /\ UNCHANGED <<rplx, closed, heap>>
          /\ call[t] = NULL /\ pc[t] # "warnings"
      BY DEF PlaceInv
    <2> HIDE DEF IInv, Begin, c
    <2>4. \A n \in names' : n[1] \in Filled /\ n[2] = rplx[n[1]]
      BY <1>3, <2>3 DEF TableInv
    <2>5. ASSUME NEW u \in Threads, call'[u] # NULL, call'[u].pat # 0
          PROVE  /\ call'[u].pat \in Filled
                 /\ (\E n \in names' : n[1] = call'[u].pat)
                      <=> call'[u].op # "free_rplx"
                 /\ \A v \in Threads :
                      call'[v] # NULL /\ call'[v].pat = call'[u].pat => v = u
      <3>1. CASE u = t
        <4>1. call'[u] = c /\ i # 0
          BY <1>0, <2>2, <2>5, <3>1
        <4>2. PICK n \in names : n[1] = i
          BY <1>4, <4>1
        <4> QED BY <1>0, <1>3, <1>4, <2>2, <2>3, <3>1, <4>1, <4>2 DEF TableInv
      <3>2. CASE u # t
        <4>1. call'[u] = call[u] /\ call[u].pat # i
          BY <1>0, <1>4, <2>5, <3>2
        <4> QED BY <1>0, <1>3, <2>2, <2>3, <2>5, <3>2, <4>1 DEF TableInv
      <3> QED BY <3>1, <3>2
    <2>6. ASSUME NEW u \in Threads, pc'[u] = "warnings"
          PROVE  /\ out'[u].pat \in Filled /\ out'[u].obj = rplx[out'[u].pat]
                 /\ \A n \in names' : n[1] # out'[u].pat
                 /\ \A v \in Threads :
                      call'[v] # NULL => call'[v].pat # out'[u].pat
      <3>1. u # t /\ out'[u] = out[u] /\ pc[u] = "warnings"
        BY <1>0, <2>6
      <3>2. out[u].pat # i
        BY <1>4, <2>3, <3>1 DEF TableInv, Filled, Slots
      <3> QED BY <1>0, <1>3, <2>2, <2>3, <3>1, <3>2 DEF TableInv
    <2>7. ASSUME NEW k \in Filled
          PROVE  \/ \E n \in names' : n[1] = k
                 \/ \E u \in Threads : /\ call'[u] # NULL
                                       /\ call'[u].op = "free_rplx"
                                       /\ call'[u].pat = k
                 \/ \E u \in Threads : pc'[u] = "warnings" /\ out'[u].pat = k
      <3>1. CASE k = i /\ op = "free_rplx"
        BY <1>0, <1>1, <2>2, <3>1
      <3>2. CASE ~(k = i /\ op = "free_rplx")
        BY <1>0, <1>3, <2>3, <3>2 DEF TableInv
      <3> QED BY <3>1, <3>2
    <2> QED BY <2>1, <2>3, <2>4, <2>5, <2>6, <2>7 DEF TableInv
  <1>11. ResultsInv'
    <2>1. \A r \in results : <<r.pat, r.obj>> \in names /\ <<r.pat, r.obj>>[1] = r.pat
      BY DEF ResultsInv
    <2>2. \A r \in results : r.pat # i
      BY <1>2, <1>4, <2>1
    <2>3. c.pat = i /\ ResultsInv /\ UNCHANGED <<results, buf>>
      OBVIOUS
    <2> HIDE DEF IInv, Begin, c
    <2>4. ASSUME NEW r \in results, NEW u \in Threads, call'[u] # NULL
          PROVE  call'[u].pat # r.pat
      <3>1. CASE u = t
        BY <1>0, <2>2, <2>3, <3>1
      <3>2. CASE u # t
        BY <1>0, <2>4, <3>2, Result
      <3> QED BY <3>1, <3>2
    <2> QED BY <1>3, <2>1, <2>2, <2>3, <2>4 DEF ResultsInv
  <1> QED BY <1>5, <1>6, <1>7, <1>8, <1>9, <1>10, <1>11

LEMMA ExamineKeepsInv ==
  ASSUME IInv, NEW t \in Threads, Examine(t)
  PROVE  IInv'
  <1> USE DEF IInv, Examine, lua, table
  <1>1. TypeOK' /\ Exclusive'
    BY DEF TypeOK, Exclusive
  <1>2. PlaceInv' /\ StackInv' /\ FreeListSound'
    BY DEF PlaceInv, StackInv, Stored, FreeListSound, Free, Slots
  <1>3. TableInv' /\ ResultsInv'
    BY DEF TableInv, Filled, Free, Slots, Stored, ResultsInv
  <1> QED BY <1>1, <1>2, <1>3

----------------------------------------------------------------------------
(* Lua collects garbage: what the table and the stack hold is not garbage. *)
LEMMA LuaCollectsKeepsInv ==
  ASSUME IInv, NEW t \in Threads, LuaCollects(t)
  PROVE  IInv'
  <1> USE DEF IInv, LuaCollects, table, client
  <1>1. Stored' = Stored /\ Filled' = Filled
    BY DEF Stored, Filled, Free, Slots
  <1>2. \A u \in Threads : pc[u] # "ref"
    BY DEF Exclusive, Inside, PlaceInv
  <1>3. TypeOK' /\ Exclusive' /\ PlaceInv'
    BY DEF TypeOK, Exclusive, PlaceInv
  <1>4. StackInv' /\ FreeListSound'
    BY <1>2 DEF StackInv, FreeListSound, Free, Slots
  <1>5. TableInv' /\ ResultsInv'
    BY <1>1 DEF TableInv, ResultsInv, Reachable
  <1> QED BY <1>3, <1>4, <1>5

----------------------------------------------------------------------------
(* luaL_ref stores an object in a slot that was not in use, luaL_unref     *)
(* takes one out; both leave the other slots in use, and a sound free list.*)

LEMMA RefTable ==
  ASSUME IInv, NEW o \in Objects, luaL_ref(o),
         NEW k, k = IF freelist # 0 THEN freelist ELSE Len(rplx) + 1
  PROVE  /\ rplx' \in Seq(Objects \cup Nat) /\ freelist' \in Nat
         /\ FreeListSound'
         /\ k \in Nat \ {0} /\ k \notin Filled
         /\ Filled' = Filled \cup {k} /\ rplx'[k] = o
         /\ \A j \in Filled : rplx'[j] = rplx[j]
  <1> USE DEF Filled, Free, Slots
  <1>0. /\ rplx \in Seq(Objects \cup Nat) /\ freelist \in Nat
        /\ FreeListSound
    BY DEF IInv, TypeOK
  <1>1. CASE freelist # 0
    <2>1. freelist \in Free /\ k = freelist
      BY <1>0, <1>1 DEF FreeListSound
    <2>2. /\ rplx' = [rplx EXCEPT ![freelist] = o]
          /\ freelist' = rplx[freelist]
      BY <1>1 DEF luaL_ref
    <2>3. /\ rplx' \in Seq(Objects \cup Nat) /\ Len(rplx') = Len(rplx)
          /\ \A j \in 1 .. Len(rplx) :
               rplx'[j] = IF j = freelist THEN o ELSE rplx[j]
      BY <1>0, <2>1, <2>2, ExceptSeq
    <2>4. Free' = Free \ {freelist} /\ Filled' = Filled \cup {k}
      BY <2>1, <2>3
    <2>5. freelist' \in Free' \cup {0}
      BY <1>0, <1>1, <2>1, <2>2, <2>4 DEF FreeListSound
    <2>6. FreeListSound'
      <3>1. \A i \in Free' : i \in Free /\ i # freelist /\ rplx'[i] = rplx[i]
        BY <2>3, <2>4
      <3> HIDE DEF Free
      <3> QED BY <1>0, <1>1, <2>1, <2>2, <2>4, <2>5, <3>1 DEF FreeListSound
    <2> QED BY <1>0, <1>1, <2>1, <2>3, <2>4, <2>5, <2>6
  <1>2. CASE freelist = 0
    <2>1. rplx' = Append(rplx, o) /\ freelist' = 0 /\ k = Len(rplx) + 1
      BY <1>0, <1>2 DEF luaL_ref
    <2>2. /\ rplx' \in Seq(Objects \cup Nat) /\ Len(rplx') = k /\ rplx'[k] = o
          /\ \A j \in 1 .. Len(rplx) : rplx'[j] = rplx[j]
      BY <1>0, <2>1, AppendProperties
    <2>3. Free' = Free /\ Filled' = Filled \cup {k}
      BY <1>0, <2>1, <2>2
    <2>4. FreeListSound'
      <3>1. \A i \in Free : rplx'[i] = rplx[i]
        BY <2>2
      <3>2. Free' = Free /\ freelist' = 0 /\ FreeListSound
        BY <1>0, <2>1, <2>3
      <3> HIDE DEF Free, Filled, Slots
      <3> QED BY <3>1, <3>2 DEF FreeListSound
    <2> QED BY <1>0, <2>1, <2>2, <2>3, <2>4
  <1> QED BY <1>1, <1>2

LEMMA UnrefTable ==
  ASSUME IInv, NEW i \in Filled, luaL_unref(i)
  PROVE  /\ rplx' \in Seq(Objects \cup Nat) /\ freelist' \in Nat
         /\ FreeListSound'
         /\ Filled' = Filled \ {i}
         /\ \A j \in Filled' : rplx'[j] = rplx[j]
  <1> USE DEF Filled, Free, Slots
  <1>0. /\ rplx \in Seq(Objects \cup Nat) /\ freelist \in Nat
        /\ FreeListSound
    BY DEF IInv, TypeOK
  <1>1. rplx' = [rplx EXCEPT ![i] = freelist] /\ freelist' = i
    BY DEF luaL_unref
  <1>2. /\ rplx' \in Seq(Objects \cup Nat) /\ Len(rplx') = Len(rplx)
        /\ \A j \in 1 .. Len(rplx) :
             rplx'[j] = IF j = i THEN freelist ELSE rplx[j]
    BY <1>0, <1>1, ExceptSeq
  <1>3. Free' = Free \cup {i} /\ Filled' = Filled \ {i}
    BY <1>0, <1>2
  <1>4. FreeListSound'
    <2>1. /\ \A j \in Free' : rplx'[j] = IF j = i THEN freelist ELSE rplx[j]
          /\ i \notin Free /\ i # 0
      BY <1>2, <1>3
    <2> HIDE DEF Free
    <2> QED BY <1>0, <1>1, <1>3, <2>1 DEF FreeListSound
  <1> QED BY <1>0, <1>1, <1>2, <1>3, <1>4

----------------------------------------------------------------------------
(* What holds of every call that is under way, and what it returns.        *)

LEMMA Open ==
  ASSUME IInv, NEW t \in Threads, pc[t] # "idle"
  PROVE  call[t] # NULL /\ call[t] \in Requests /\ ~closed /\ Stored \subseteq heap
  BY DEF IInv, TypeOK, PlaceInv, TableInv

LEMMA Collected ==
  ASSUME IInv, NEW t \in Threads, pc[t] # "idle", collect_if_needed
  PROVE  heap' \subseteq heap /\ Stored \subseteq heap'
  BY Open DEF collect_if_needed, Reachable

LEMMA Values ==
  ASSUME IInv, NEW t \in Threads
  PROVE  /\ out[t] \in Outcomes /\ Failed(t) \in Outcomes
         /\ [out[t] EXCEPT !.data = NULL] \in Outcomes
         /\ [Failed(t) EXCEPT !.messages = "text"] \in Outcomes
         /\ \A m \in Json \cup {"text"} :
              /\ Reports(t, m) \in Outcomes
              /\ [out[t] EXCEPT !.rc = "SUCCESS", !.messages = m] \in Outcomes
              /\ [out[t] EXCEPT !.rc = "ERR", !.messages = m] \in Outcomes
         /\ \A o \in Objects :
              /\ Used(t, o) \in Outcomes
              /\ [Used(t, o) EXCEPT !.rc = "ERR"] \in Outcomes
              /\ \A b \in Nat : [Used(t, o) EXCEPT !.data = b] \in Outcomes
  <1>1. out[t] \in Outcomes
    BY DEF IInv, TypeOK
  <1> QED BY <1>1 DEF Outcomes, Failed, Reports, Used, Json

(* A call that leaves without touching table or buffers.                   *)
LEMMA LeaveEnds ==
  ASSUME IInv, NEW t \in Threads, pc[t] \notin {"idle", "warnings"},
         call[t].op # "free_rplx", lock \in {NULL, t},
         NEW v \in Outcomes, Leave(t, v),
         UNCHANGED <<closed, table, client, buf>>, limit' \in Limits,
         heap' \subseteq heap, Stored \subseteq heap'
  PROVE  Ends(t)
  BY Open DEF Ends, Leave, IInv, TypeOK

LEMMA CompileEnds ==
  ASSUME IInv, NEW t \in Threads,
         CompileNothing(t) \/ CompileNowhere(t) \/ CompileViolations(t)
  PROVE  Ends(t)
  <1> USE DEF lua, client
  <1>0. limit \in Limits
    BY DEF IInv, TypeOK
  <1>1. CASE CompileNothing(t)
    <2>1. /\ pc[t] = "called" /\ call[t].op = "compile" /\ Return(t, Failed(t))
          /\ UNCHANGED <<lock, closed, lua, client>>
      BY <1>1 DEF CompileNothing
    <2>2. call[t] # NULL /\ Failed(t) \in Outcomes /\ Stored \subseteq heap'
      BY <2>1, Open, Values
    <2> QED BY <1>0, <2>1, <2>2 DEF Ends, IInv, TypeOK, table
  <1>2. CASE CompileNowhere(t)
    <2>1. heap' \subseteq heap /\ Stored \subseteq heap'
      BY <1>2, Open DEF CompileNowhere, Locked
    <2> QED BY <1>0, <1>2, <2>1, LeaveEnds, Values DEF CompileNowhere, Locked
  <1>3. CASE CompileViolations(t)
    <2>1. /\ pc[t] \notin {"idle", "warnings"} /\ call[t].op = "compile"
          /\ heap' \subseteq heap /\ Stored \subseteq heap'
      BY <1>3, Open DEF CompileViolations, At, IInv, PlaceInv
    <2>2. \E v \in Outcomes : Leave(t, v)
      <3>1. \A m \in Json : Reports(t, m) \in Outcomes
        BY Values
      <3> QED BY <1>3, <3>1, Values DEF CompileViolations
    <2> QED BY <1>0, <1>3, <2>1, <2>2, LeaveEnds DEF CompileViolations, At
  <1> QED BY <1>1, <1>2, <1>3

LEMMA LookupEnds ==
  ASSUME IInv, NEW t \in Threads,
         MatchNoPattern(t) \/ MatchNoEncoder(t) \/ TraceNothing(t)
  PROVE  Ends(t)
  <1> USE DEF client
  <1>1. /\ pc[t] = "called" /\ lock = NULL
        /\ call[t].op \in {"match", "trace", "matchfile"}
        /\ UNCHANGED <<closed, table, buf, limit, client>>
        /\ collect_if_needed
    BY DEF MatchNoPattern, MatchNoEncoder, TraceNothing, Locked
  <1>2. heap' \subseteq heap /\ Stored \subseteq heap'
    BY <1>1, Collected
  <1>3. \E v \in Outcomes : Leave(t, v)
    BY Values DEF MatchNoPattern, MatchNoEncoder, TraceNothing
  <1> QED BY <1>1, <1>2, <1>3, LeaveEnds DEF IInv, TypeOK

LEMMA alloc_limitEnds ==
  ASSUME IInv, NEW t \in Threads, alloc_limit(t)
  PROVE  Ends(t)
  <1> USE DEF client
  <1>1. /\ pc[t] = "called" /\ lock = NULL /\ call[t].op = "alloc_limit"
        /\ heap' = heap \cap Reachable
        /\ UNCHANGED <<closed, table, buf, client>>
    BY DEF alloc_limit, Locked
  <1>2. heap' \subseteq heap /\ Stored \subseteq heap'
    BY <1>1, Open DEF Reachable
  <1>3. CASE UNCHANGED <<lock, L, limit>> /\ Return(t, Failed(t))
    <2>1. lock' = NULL /\ L' = <<>>
      BY <1>1, <1>3 DEF IInv, StackInv
    <2> QED BY <1>1, <1>2, <1>3, <2>1, Open, Values DEF Ends, IInv, TypeOK
  <1>4. CASE Leave(t, out[t]) /\ limit' \in Limits
    BY <1>1, <1>2, <1>4, LeaveEnds, Values
  <1>5. \/ UNCHANGED <<lock, L, limit>> /\ Return(t, Failed(t))
        \/ Leave(t, out[t]) /\ limit' \in Limits
    BY DEF alloc_limit, Limits, IInv, TypeOK
  <1> QED BY <1>3, <1>4, <1>5

LEMMA LuaReturnEnds ==
  ASSUME IInv, NEW t \in Threads, LuaReturn(t)
  PROVE  Ends(t)
  <1> USE DEF client
  <1>1. /\ pc[t] = "lua" /\ lock = t /\ call[t].op # "free_rplx"
        /\ UNCHANGED <<closed, table, heap, buf, limit, client>>
        /\ heap' \subseteq heap /\ Stored \subseteq heap' /\ limit' \in Limits
    BY Open DEF LuaReturn, At, IInv, TypeOK
  <1>2. \E v \in Outcomes : Leave(t, v)
    BY Values DEF LuaReturn, config, libpath, load, loadfile, import,
       syntax_op, read_rcfile, execute_rcfile, Says, Converts
  <1> QED BY <1>1, <1>2, LeaveEnds

(* The calls that enter the Lua state.                                     *)
LEMMA CallsEnter ==
  ASSUME IInv, NEW t \in Threads,
         Compile(t) \/ match(t) \/ trace(t) \/ LuaCall(t)
  PROVE  \E to : Enters(t, to)
  <1> USE DEF client
  <1>0. /\ pc[t] = "called" /\ lock = NULL /\ L = <<>> /\ call[t] # NULL
        /\ \A w \in Words : w \in Objects \cup Words
    BY DEF Compile, match, trace, LuaCall, Locked, IInv, StackInv, PlaceInv
  <1>1. CASE Compile(t)
    <2>1. /\ L' \in Seq(Objects \cup Words) /\ Len(L') = 4
          /\ L'[1] = "rplx_table"
      BY <1>0, <1>1, Push4 DEF Compile, Words
    <2>2. Enters(t, "compiling")
      BY <1>0, <1>1, <2>1, Open DEF Compile, Locked, Enters
    <2> QED BY <2>2
  <1>2. CASE match(t)
    <2>1. <<call[t].pat, rplx[call[t].pat]>> \in names
          /\ rplx[call[t].pat] \in Objects
      BY <1>0, <1>2, Lookup DEF match, Locked, Found
    <2>2. /\ L' \in Seq(Objects \cup Words) /\ Len(L') = 3
          /\ L'[2] = rplx[call[t].pat]
      BY <1>0, <1>2, <2>1, Push3 DEF match, Words
    <2>3. heap' \subseteq heap /\ Stored \subseteq heap'
      BY <1>0, <1>2, Collected DEF match
    <2>4. Enters(t, "matching")
      BY <1>0, <1>2, <2>1, <2>2, <2>3 DEF match, Locked, Enters
    <2> QED BY <2>4
  <1>3. CASE trace(t)
    <2>1. <<call[t].pat, rplx[call[t].pat]>> \in names
          /\ rplx[call[t].pat] \in Objects
      BY <1>0, <1>3, Lookup DEF trace, Locked, Found
    <2>2. /\ L' \in Seq(Objects \cup Words) /\ Len(L') = 3
          /\ L'[3] = rplx[call[t].pat]
      BY <1>0, <1>3, <2>1, Push3 DEF trace, Words
    <2>3. heap' \subseteq heap /\ Stored \subseteq heap'
      BY <1>0, <1>3, Collected DEF trace
    <2>4. Enters(t, "tracing")
      BY <1>0, <1>3, <2>1, <2>2, <2>3 DEF trace, Locked, Enters
    <2> QED BY <2>4
  <1>4. CASE LuaCall(t)
    <2>1. PICK op \in LuaOps :
            /\ call[t].op = op
            /\ L' = IF op = "syntax_op" THEN syntax_op_stack
                    ELSE L \o <<"engine", "function", "arguments">>
      BY <1>4 DEF LuaCall, Locked
    <2>2. L' \in Seq(Objects \cup Words) /\ Len(L') = 3
      <3>1. LET s == <<>> \o <<"engine", "function", "arguments">>
            IN  s \in Seq(Objects \cup Words) /\ Len(s) = 3
        BY Push3 DEF Words
      <3> QED BY <1>0, <2>1, <3>1, SyntaxOpStack
    <2>3. Enters(t, "lua")
      BY <1>0, <1>4, <2>1, <2>2, Open DEF LuaCall, Enters
    <2> QED BY <2>3
  <1> QED BY <1>1, <1>2, <1>3, <1>4

(* A run of the matcher that yields nothing, and a trace.                  *)
LEMMA RunEnds ==
  ASSUME IInv, NEW t \in Threads, lock = t, pc[t] \in {"matching", "tracing"},
         NEW o \in Objects, <<call[t].pat, o>> \in names, Reset(o),
         NEW v \in Outcomes, Leave(t, v),
         UNCHANGED <<closed, table, heap, limit, client>>
  PROVE  Ends(t)
  <1>1. call[t] # NULL /\ call[t].op # "free_rplx" /\ Stored \subseteq heap
    BY Open DEF IInv, PlaceInv
  <1>2. /\ buf' \in [Objects -> [block : Nat, by : Threads \cup {NULL}]]
        /\ \A p \in Objects : buf'[p] = buf[p] \/ p = o
    <2> DEFINE B == [block : Nat, by : Threads \cup {NULL}]
    <2>1. buf \in [Objects -> B]
      BY DEF IInv, TypeOK
    <2>2. buf' = [buf EXCEPT ![o] = [buf[o] EXCEPT !.by = NULL]]
      BY DEF Reset
    <2>3. [buf[o] EXCEPT !.by = NULL] \in B
      BY <2>1
    <2> HIDE DEF B
    <2>4. buf' \in [Objects -> B] /\ \A p \in Objects : buf'[p] = buf[p] \/ p = o
      BY <2>1, <2>2, <2>3
    <2> QED BY <2>4 DEF B
  <1>3. limit' \in Limits /\ heap' = heap
    BY DEF IInv, TypeOK
  <1>4. lock' = NULL /\ L' = <<>> /\ \E w \in Outcomes : Return(t, w)
    BY DEF Leave
  <1> HIDE DEF Outcomes
  <1> QED BY <1>1, <1>2, <1>3, <1>4 DEF Ends

LEMMA TraceCallEnds ==
  ASSUME IInv, NEW t \in Threads, TraceCall(t)
  PROVE  Ends(t)
  <1> DEFINE o == L[3]
  <1>1. /\ lock = t /\ pc[t] = "tracing" /\ Reset(o)
        /\ Leave(t, Used(t, o)) \/ Leave(t, [Used(t, o) EXCEPT !.rc = "ERR"])
        /\ UNCHANGED <<closed, table, heap, limit, client>>
    BY DEF TraceCall, At, o
  <1>2. <<call[t].pat, o>> \in names
    BY <1>1 DEF IInv, StackInv
  <1>3. o \in Objects
    BY <1>2 DEF IInv, TypeOK
  <1> HIDE DEF o
  <1>4. \E v \in Outcomes : Leave(t, v)
    BY <1>1, <1>3, Values
  <1> QED BY <1>1, <1>2, <1>3, <1>4, RunEnds

----------------------------------------------------------------------------
(* A call that holds the lock goes on; it may write a buffer of its own.   *)
Moves(t, to) ==
  /\ lock = t /\ pc[t] \in Inside \ {"warnings"}
  /\ Go(t, to)
  /\ UNCHANGED <<lock, closed, table, limit, call, client>>
  /\ L' \in Seq(Objects \cup Words) /\ heap' \subseteq Objects
  /\ buf' \in [Objects -> [block : Nat, by : Threads \cup {NULL}]]
  /\ out' \in [Threads -> Outcomes]
  /\ heap \subseteq heap'
  /\ \A o \in Objects :
       buf'[o] = buf[o] \/ o \notin heap \/ <<call[t].pat, o>> \in names
  /\ \/ to = "violations" /\ call[t].op = "compile"
     \/ /\ to = "ref" /\ call[t].op = "compile"
        /\ Len(L') = 3 /\ L'[1] = "rplx_table" /\ L'[2] \in heap' \ Stored
     \/ /\ to = "encoding" /\ call[t].op = "match"
        /\ <<call[t].pat, out'[t].obj>> \in names
        /\ buf'[out'[t].obj] = [block |-> out'[t].data, by |-> t]

LEMMA MovesKeepsInv ==
  ASSUME IInv, NEW t \in Threads, NEW to, Moves(t, to)
  PROVE  IInv'
  <1> USE DEF IInv, Moves, Go, table, client
  <1>0. /\ \A u \in Threads : pc'[u] = IF u = t THEN to ELSE pc[u]
        /\ \A u \in Threads \ {t} : pc[u] \notin Inside
        /\ call[t] # NULL
        /\ lock = t /\ lock' = t /\ t # NULL
    BY DEF TypeOK, Exclusive, Inside, PlaceInv
  <1>1. TypeOK'
    BY DEF TypeOK, Places, Inside
  <1>2. Exclusive'
    BY <1>0 DEF Exclusive, Inside
  <1>3. PlaceInv'
    BY <1>0 DEF PlaceInv
  <1>4. StackInv'
    <2>1. Stored' = Stored
      BY DEF Stored
    <2>2. \A u \in Threads \ {t} : pc'[u] \notin Inside
      BY <1>0
    <2>3. lock' # NULL /\ pc'[t] = to
      BY <1>0
    <2>4. /\ to = "ref" => /\ Len(L') = 3 /\ L'[1] = "rplx_table"
                          /\ L'[2] \in heap' \ Stored
          /\ to = "encoding" =>
               /\ <<call'[t].pat, out'[t].obj>> \in names'
               /\ buf'[out'[t].obj] = [block |-> out'[t].data, by |-> t]
          /\ to \in {"violations", "ref", "encoding"}
      OBVIOUS
    <2> HIDE DEF IInv, Moves
    <2> QED BY <2>1, <2>2, <2>3, <2>4 DEF StackInv, Inside
  <1>5. FreeListSound'
    BY DEF FreeListSound, Free, Slots
  <1>6. TableInv'
    <2>1. Filled' = Filled /\ Stored' = Stored
      BY DEF Filled, Free, Slots, Stored
    <2>2. /\ TableInv /\ UNCHANGED <<names, rplx, closed, call>>
          /\ heap \subseteq heap' /\ pc[t] # "warnings" /\ to # "warnings"
      OBVIOUS
    <2>3. \A u \in Threads : pc'[u] # "warnings" /\ pc[u] # "warnings"
      BY <1>0, <2>2 DEF Inside
    <2> HIDE DEF IInv, Moves
    <2> QED BY <2>1, <2>2, <2>3 DEF TableInv
  <1>7. ResultsInv'
    <2> SUFFICES ASSUME NEW r \in results
                 PROVE  buf'[r.obj] = buf[r.obj]
      BY DEF ResultsInv
    <2>1. r.obj \in Objects /\ <<r.pat, r.obj>> \in names
      BY Result
    <2>2. call[t].pat # r.pat
      BY <1>0 DEF ResultsInv
    <2>3. r.obj \in heap
      <3>1. r.pat \in Slots /\ r.obj = rplx[r.pat]
        <4>1. \A n \in names : n[1] \in Slots /\ n[2] = rplx[n[1]]
          BY DEF TableInv, Filled
        <4> HIDE DEF IInv, Moves
        <4> QED BY <2>1, <4>1
      <3>2. r.obj \in Stored
        BY <2>1, <3>1 DEF Stored, Slots, TypeOK
      <3>3. ~closed
        BY <1>0 DEF PlaceInv
      <3> QED BY <3>2, <3>3 DEF TableInv
    <2> QED BY <2>1, <2>2, <2>3, OneIndex
  <1> QED BY <1>1, <1>2, <1>3, <1>4, <1>5, <1>6, <1>7

LEMMA CompileCallKeepsInv ==
  ASSUME IInv, NEW t \in Threads, CompileCall(t)
  PROVE  IInv'
  <1> DEFINE S == Objects \cup Words
             below == SubSeq(L, 1, Len(L) - 3)
  <1>1. /\ lock = t /\ pc[t] = "compiling"
        /\ UNCHANGED <<closed, table, limit, client>>
    BY DEF CompileCall, At
  <1>2. /\ call[t].op = "compile" /\ L \in Seq(S) /\ Len(L) = 4
        /\ L[1] = "rplx_table" /\ Stored \subseteq heap
        /\ {"false", "messages"} \subseteq S
    BY <1>1, Open DEF IInv, PlaceInv, StackInv, TypeOK, Words
  <1>3. CASE Leave(t, Failed(t)) /\ UNCHANGED <<heap, buf>>
    <2>1. limit' \in Limits
      BY <1>1 DEF IInv, TypeOK
    <2>2. Ends(t)
      BY <1>1, <1>2, <1>3, <2>1, LeaveEnds, Values DEF client
    <2> QED BY <2>2, EndsKeepsInv
  <1>4. CASE /\ L' = below \o <<"false", "messages">>
             /\ Go(t, "violations")
             /\ UNCHANGED <<lock, call, out, heap, buf>>
    <2>1. L' \in Seq(S)
      BY <1>2, <1>4, Replace
    <2>2. Moves(t, "violations")
      BY <1>1, <1>2, <1>4, <2>1 DEF Moves, Inside, IInv, TypeOK
    <2> QED BY <2>2, MovesKeepsInv
  <1>5. ASSUME NEW o \in Objects \ heap,
               L' = below \o <<o, "messages">>,
               heap' = heap \cup {o},
               buf' = [buf EXCEPT ![o] = [block |-> 0, by |-> NULL]],
               Go(t, "ref"), UNCHANGED <<lock, call, out>>
        PROVE  IInv'
    <2>1. /\ L' \in Seq(S) /\ Len(L') = 3 /\ L'[1] = "rplx_table"
          /\ L'[2] = o
      BY <1>2, <1>5, Replace
    <2>2. /\ buf' \in [Objects -> [block : Nat, by : Threads \cup {NULL}]]
          /\ \A p \in Objects : buf'[p] = buf[p] \/ p = o
      BY <1>5 DEF IInv, TypeOK
    <2>3. L'[2] \in heap' \ Stored
      BY <1>2, <1>5, <2>1
    <2>4. heap' \subseteq Objects /\ out' \in [Threads -> Outcomes]
      BY <1>5 DEF IInv, TypeOK
    <2>5. Moves(t, "ref")
      BY <1>1, <1>2, <1>5, <2>1, <2>2, <2>3, <2>4 DEF Moves, Inside
    <2> QED BY <2>5, MovesKeepsInv
  <1> QED BY <1>3, <1>4, <1>5 DEF CompileCall

----------------------------------------------------------------------------
(* A match returns a result: the block that b was written to, if the       *)
(* pointer c is that of the block.                                         *)
LEMMA DeliversKeepsInv ==
  ASSUME IInv, NEW t \in Threads, lock = t, pc[t] \in {"matching", "encoding"},
         NEW o \in Objects, <<call[t].pat, o>> \in names,
         NEW b \in Nat, NEW v \in Outcomes, v.obj = o, v.data \in Nat,
         "grows" \notin LuaOutput => v.data = b,
         Writes(t, o, b), Delivers(t, v),
         UNCHANGED <<closed, table, heap, limit, calls, names>>
  PROVE  IInv'
  <1> DEFINE new == [pat |-> call[t].pat, obj |-> v.obj, block |-> v.data,
                     by |-> t]
  <1>0. /\ \A u \in Threads : /\ call'[u] = IF u = t THEN NULL ELSE call[u]
                              /\ pc'[u] = IF u = t THEN "idle" ELSE pc[u]
                              /\ u # t => out'[u] = out[u]
        /\ \A u \in Threads \ {t} : pc[u] \notin Inside
        /\ call[t] # NULL /\ call[t].op = "match" /\ ~closed
        /\ results' = results \cup {new} /\ lock' = NULL /\ L' = <<>>
    <2>1. call[t] # NULL /\ ~closed
      BY Open
    <2>2. call[t].op = "match"
      BY DEF PlaceInv, IInv
    <2>3. Return(t, v)
      BY DEF Delivers, Leave
    <2>4. results' = results \cup {new} /\ lock' = NULL /\ L' = <<>>
      BY DEF Delivers, Leave
    <2>5. \A u \in Threads \ {t} : pc[u] \notin Inside
      BY <2>1 DEF Exclusive, IInv
    <2> HIDE DEF new
    <2> QED BY <2>1, <2>2, <2>3, <2>4, <2>5, Returned
  <1> USE DEF IInv, Delivers, Leave, Return, Go, table
  <1>1. call[t].pat \in Nat
    BY Open DEF Requests
  <1>2. new \in [pat : Nat, obj : Objects, block : Nat, by : Threads]
    BY <1>1
  <1>3. /\ buf' \in [Objects -> [block : Nat, by : Threads \cup {NULL}]]
        /\ \A p \in Objects :
             buf'[p] = IF p = o THEN [block |-> b, by |-> t] ELSE buf[p]
    BY DEF Writes, TypeOK
  <1>4. TypeOK'
    <2>1. pc' \in [Threads -> Places]
          /\ call' \in [Threads -> Requests \cup {NULL}]
          /\ out' \in [Threads -> Outcomes]
      BY DEF TypeOK, Places
    <2>2. lock' \in Threads \cup {NULL} /\ L' \in Seq(Objects \cup Words)
      BY <1>0
    <2>3. results' \subseteq [pat : Nat, obj : Objects, block : Nat, by : Threads]
      BY <1>0, <1>2 DEF TypeOK
    <2> QED BY <1>3, <2>1, <2>2, <2>3 DEF TypeOK
  <1>5. Exclusive'
    BY <1>0 DEF Exclusive, Inside
  <1>6. PlaceInv'
    <2>1. \A u \in Threads \ {t} : call[u] = NULL \/ call[u].op # "finalize"
      BY <1>0 DEF PlaceInv
    <2>2. PlaceInv /\ UNCHANGED closed
      OBVIOUS
    <2> HIDE DEF IInv, Delivers
    <2> QED BY <1>0, <2>1, <2>2 DEF PlaceInv
  <1>7. StackInv'
    <2>1. \A u \in Threads : pc'[u] \notin Inside
      BY <1>0 DEF Inside
    <2> HIDE DEF IInv, Delivers
    <2> QED BY <1>0, <2>1 DEF StackInv, Inside
  <1>8. FreeListSound'
    BY DEF FreeListSound, Free, Slots
  <1>9. TableInv'
    <2>1. Filled' = Filled /\ Stored' = Stored
      BY DEF Filled, Free, Slots, Stored
    <2>2. TableInv /\ UNCHANGED <<names, rplx, closed, heap>> /\ pc[t] # "warnings"
      OBVIOUS
    <2> HIDE DEF IInv, Delivers
    <2> QED BY <1>0, <2>1, <2>2 DEF TableInv
  <1>10. ResultsInv'
    <2>1. ASSUME NEW r \in results
          PROVE  /\ <<r.pat, r.obj>> \in names'
                 /\ \A u \in Threads : call'[u] # NULL => call'[u].pat # r.pat
                 /\ "grows" \notin LuaOutput =>
                      buf'[r.obj] = [block |-> r.block, by |-> r.by]
      <3>1. r.obj \in Objects /\ <<r.pat, r.obj>> \in names
        BY Result
      <3>2. /\ \A u \in Threads : call[u] # NULL => call[u].pat # r.pat
            /\ "grows" \notin LuaOutput =>
                 buf[r.obj] = [block |-> r.block, by |-> r.by]
        BY DEF ResultsInv
      <3>3. r.obj # o
        BY <1>0, <3>1, <3>2, OneIndex
      <3> HIDE DEF IInv, Delivers
      <3> QED BY <1>0, <1>3, <3>1, <3>2, <3>3
    <2>2. /\ <<new.pat, new.obj>> \in names'
          /\ \A u \in Threads : call'[u] # NULL => call'[u].pat # new.pat
          /\ "grows" \notin LuaOutput =>
               buf'[new.obj] = [block |-> new.block, by |-> new.by]
      <3>1. <<call[t].pat, o>> \in names /\ v.obj = o
        OBVIOUS
      <3>2. call[t].pat # 0
        BY <3>1 DEF TableInv, Filled, Slots
      <3>3. \A u \in Threads :
              call[u] # NULL /\ call[u].pat = call[t].pat => u = t
        BY <1>0, <3>2 DEF TableInv
      <3> QED BY <1>0, <1>3, <3>1, <3>3
    <2> HIDE DEF IInv, Delivers, new
    <2> QED BY <1>0, <2>1, <2>2 DEF ResultsInv
  <1> QED BY <1>4, <1>5, <1>6, <1>7, <1>8, <1>9, <1>10

LEMMA MatchRunKeepsInv ==
  ASSUME IInv, NEW t \in Threads, MatchRun(t)
  PROVE  IInv'
  <1> DEFINE o == L[2]
             found(b) == [Used(t, o) EXCEPT !.data = Pointer(o, b)]
             stack == <<L[1], o, "encoder", "output", "input", "startpos",
                        "parms">>
  <1>1. /\ lock = t /\ pc[t] = "matching"
        /\ UNCHANGED <<closed, table, heap, limit, calls, names>>
    BY DEF MatchRun, At
  <1>2. <<call[t].pat, o>> \in names /\ call[t].op = "match" /\ Len(L) = 3
    BY <1>1 DEF IInv, StackInv, PlaceInv
  <1>3. o \in Objects /\ buf[o].block \in Nat
    BY <1>2 DEF IInv, TypeOK
  <1>4. \A b \in Nat : found(b) \in Outcomes /\ found(b).obj = o /\ found(b).data = b
    <2> SUFFICES ASSUME NEW b \in Nat
                 PROVE  found(b) \in Outcomes /\ found(b).obj = o /\ found(b).data = b
      OBVIOUS
    <2>1. found(b) \in Outcomes
      BY <1>3, Values DEF Pointer
    <2>2. out[t] \in Outcomes
      BY Values
    <2> QED BY <2>1, <2>2 DEF Outcomes, Used, Pointer
  <1>5. ASSUME Reset(o), UNCHANGED results,
               \/ Leave(t, [Used(t, o) EXCEPT !.rc = "ERR"])
               \/ Leave(t, Used(t, o))
        PROVE  IInv'
    <2>1. UNCHANGED <<closed, table, heap, limit, client>>
      BY <1>1, <1>5 DEF client
    <2>2. \E v \in Outcomes : Leave(t, v)
      BY <1>3, <1>5, Values
    <2>3. Ends(t)
      <3> HIDE DEF o
      <3> QED BY <1>1, <1>2, <1>3, <1>5, <2>1, <2>2, RunEnds
    <2> QED BY <2>3, EndsKeepsInv
  <1>6. ASSUME NEW b \in {buf[o].block, buf[o].block + 1},
               Writes(t, o, b), Delivers(t, found(b))
        PROVE  IInv'
    <2>1. b \in Nat
      BY <1>3
    <2> HIDE DEF o, found
    <2> QED BY <1>1, <1>2, <1>3, <1>4, <1>6, <2>1, DeliversKeepsInv
  <1>7. ASSUME NEW b \in {buf[o].block, buf[o].block + 1},
               Writes(t, o, b), Go(t, "encoding"),
               out' = [out EXCEPT ![t] = found(b)],
               L' = stack, UNCHANGED <<lock, call, results>>
        PROVE  IInv'
    <2>1. b \in Nat
      BY <1>3
    <2>2. stack \in Seq(Objects \cup Words)
      <3>1. L[1] \in Objects \cup Words
        <4>1. L \in Seq(Objects \cup Words)
          BY DEF IInv, TypeOK
        <4> QED BY <1>2, <4>1
      <3> HIDE DEF o
      <3> QED BY <1>3, <3>1 DEF Words
    <2>3. out' \in [Threads -> Outcomes] /\ out'[t] = found(b)
      <3> HIDE DEF found
      <3> QED BY <1>4, <1>7, <2>1 DEF IInv, TypeOK
    <2>4. /\ buf' \in [Objects -> [block : Nat, by : Threads \cup {NULL}]]
          /\ \A p \in Objects : buf'[p] = buf[p] \/ p = o
          /\ buf'[o] = [block |-> b, by |-> t]
      <3> HIDE DEF o
      <3> QED BY <1>3, <1>7, <2>1 DEF Writes, IInv, TypeOK
    <2>5. out'[t].obj = o /\ out'[t].data = b
      BY <1>4, <2>1, <2>3
    <2>6. heap' \subseteq Objects /\ heap \subseteq heap'
      BY <1>1 DEF IInv, TypeOK
    <2> HIDE DEF o, found, stack
    <2>7. Moves(t, "encoding")
      BY <1>1, <1>2, <1>7, <2>2, <2>3, <2>4, <2>5, <2>6
         DEF Moves, Inside, client
    <2> QED BY <2>7, MovesKeepsInv
  <1> HIDE DEF found, stack
  <1> QED BY <1>5, <1>6, <1>7 DEF MatchRun, found, stack

LEMMA MatchEncodeKeepsInv ==
  ASSUME IInv, NEW t \in Threads, MatchEncode(t)
  PROVE  IInv'
  <1> DEFINE o == out[t].obj
  <1>1. /\ lock = t /\ pc[t] = "encoding"
        /\ UNCHANGED <<closed, table, heap, limit, calls, names>>
    BY DEF MatchEncode, At
  <1>2. /\ <<call[t].pat, o>> \in names /\ call[t].op = "match"
        /\ buf[o] = [block |-> out[t].data, by |-> t]
    BY <1>1 DEF IInv, StackInv, PlaceInv
  <1>3. o \in Objects /\ out[t].data \in Nat
    <2>1. o \in Objects
      BY <1>2 DEF IInv, TypeOK
    <2>2. buf[o].block \in Nat
      BY <2>1 DEF IInv, TypeOK
    <2> QED BY <1>2, <2>1, <2>2
  <1>4. ASSUME UNCHANGED <<buf, results>>,
               \/ Leave(t, Failed(t))
               \/ Leave(t, [out[t] EXCEPT !.data = NULL])
        PROVE  IInv'
    <2>1. limit' \in Limits /\ heap' = heap /\ Stored \subseteq heap
      BY <1>1, Open DEF IInv, TypeOK
    <2>2. \E v \in Outcomes : Leave(t, v)
      BY <1>4, Values
    <2>3. UNCHANGED <<closed, table, client, buf>>
      BY <1>1, <1>4 DEF client
    <2>4. Ends(t)
      BY <1>1, <1>2, <2>1, <2>2, <2>3, LeaveEnds
    <2> QED BY <2>4, EndsKeepsInv
  <1>5. ASSUME NEW g \in LuaOutput,
               Writes(t, o, IF g = "grows" THEN out[t].data + 1 ELSE out[t].data),
               Delivers(t, out[t])
        PROVE  IInv'
    <2> DEFINE b == IF g = "grows" THEN out[t].data + 1 ELSE out[t].data
    <2>1. b \in Nat /\ ("grows" \notin LuaOutput => out[t].data = b)
      BY <1>3
    <2>2. out[t] \in Outcomes
      BY Values
    <2>3. Writes(t, o, b)
      BY <1>5
    <2> HIDE DEF b
    <2> QED BY <1>1, <1>2, <1>3, <1>5, <2>1, <2>2, <2>3, DeliversKeepsInv
  <1> QED BY <1>4, <1>5 DEF MatchEncode

----------------------------------------------------------------------------
(* A compilation stores its pattern, and gives the client the index.       *)

LEMMA CompileRefKeepsInv ==
  ASSUME IInv, NEW t \in Threads, CompileRef(t)
  PROVE  IInv'
  <1> DEFINE o == L[2]
             k == IF freelist # 0 THEN freelist ELSE Len(rplx) + 1
  <1>1. /\ pc[t] = "ref" /\ lock = t /\ Len(L) = 3
        /\ o \in heap \ Stored /\ call[t].op = "compile"
        /\ call[t] # NULL /\ ~closed
    BY Open DEF CompileRef, At, IInv, StackInv, PlaceInv
  <1>2. /\ luaL_ref(o) /\ Go(t, "warnings")
        /\ out' = [out EXCEPT ![t].pat = k, ![t].obj = o]
        /\ UNCHANGED <<lock, closed, L, heap, buf, limit, call, calls, names,
                       results>>
    <2>1. L[Len(L) - 1] = o
      BY <1>1
    <2> QED BY <2>1 DEF CompileRef, client
  <1>3. o \in Objects
    BY <1>1 DEF IInv, TypeOK
  <1> HIDE DEF o
  <1>4. /\ rplx' \in Seq(Objects \cup Nat) /\ freelist' \in Nat
        /\ FreeListSound'
        /\ k \in Nat \ {0} /\ k \notin Filled
        /\ Filled' = Filled \cup {k} /\ rplx'[k] = o
        /\ \A j \in Filled : rplx'[j] = rplx[j]
    <2> HIDE DEF k
    <2> QED BY <1>2, <1>3, RefTable DEF k
  <1> HIDE DEF k
  <1>5. /\ \A u \in Threads : /\ pc'[u] = IF u = t THEN "warnings" ELSE pc[u]
                              /\ u # t => out'[u] = out[u]
        /\ out'[t].pat = k /\ out'[t].obj = o /\ out' \in [Threads -> Outcomes]
        /\ \A u \in Threads \ {t} : pc[u] \notin Inside
        /\ t # NULL
    <2>1. out \in [Threads -> Outcomes] /\ pc \in [Threads -> Places]
      BY DEF IInv, TypeOK
    <2>2. out' \in [Threads -> Outcomes] /\ out'[t].pat = k /\ out'[t].obj = o
          /\ \A u \in Threads : u # t => out'[u] = out[u]
      <3> DEFINE v == [out[t] EXCEPT !.pat = k, !.obj = o]
      <3>1. v \in Outcomes /\ v.pat = k /\ v.obj = o
        <4>1. out[t] \in Outcomes
          BY <2>1
        <4> QED BY <1>3, <1>4, <4>1 DEF Outcomes
      <3>2. out' = [out EXCEPT ![t] = v]
        BY <1>2, <2>1
      <3> HIDE DEF v, Outcomes
      <3> QED BY <2>1, <3>1, <3>2
    <2>3. \A u \in Threads : pc'[u] = IF u = t THEN "warnings" ELSE pc[u]
      BY <1>2, <2>1 DEF Go
    <2>4. \A u \in Threads \ {t} : pc[u] \notin Inside
      BY <1>1 DEF IInv, Exclusive
    <2> QED BY <2>2, <2>3, <2>4
  <1>6. \A u \in Threads \ {t} : pc'[u] \notin Inside
    BY <1>5
  <1>7. Stored' = Stored \cup {o}
    <2>1. /\ rplx \in Seq(Objects \cup Nat)
          /\ rplx' \in Seq(Objects \cup Nat)
      BY <1>4 DEF IInv, TypeOK
    <2>2. Stored = {rplx[j] : j \in Filled}
      BY <2>1 DEF Stored, Filled, Free, Slots
    <2>3. Stored' = {rplx'[j] : j \in Filled'}
      BY <2>1 DEF Stored, Filled, Free, Slots
    <2> QED BY <1>4, <2>2, <2>3
  <1>8. TypeOK'
    <2>1. pc' \in [Threads -> Places]
      BY <1>2 DEF IInv, TypeOK, Go, Places, Inside
    <2> QED BY <1>2, <1>4, <1>5, <2>1 DEF IInv, TypeOK
  <1>9. Exclusive'
    BY <1>1, <1>2, <1>5 DEF IInv, Exclusive, Inside
  <1>10. PlaceInv'
    BY <1>1, <1>2, <1>5 DEF IInv, PlaceInv
  <1>11. StackInv'
    BY <1>1, <1>2, <1>5, <1>6 DEF StackInv, Inside
  <1>12. TableInv'
    <2>0. TableInv
      BY DEF IInv
    <2>1. \A n \in names : n[1] \in Filled
      BY <2>0 DEF TableInv
    <2>2. \A u \in Threads : call[u] # NULL => call[u].pat # k
      BY <1>4, <2>0 DEF TableInv
    <2>3. \A j \in Filled : rplx'[j] # o
      BY <1>1, <1>4 DEF Stored, Filled, Free, Slots
    <2>4. \A i, j \in Filled' : rplx'[i] = rplx'[j] => i = j
      BY <1>4, <2>0, <2>3 DEF TableInv
    <2>5. \A u \in Threads : pc'[u] = "warnings" => u = t
      BY <1>6 DEF Inside
    <2>6. \A i \in Filled' :
            \/ \E n \in names : n[1] = i
            \/ \E u \in Threads :
                 call[u] # NULL /\ call[u].op = "free_rplx" /\ call[u].pat = i
            \/ \E u \in Threads : pc'[u] = "warnings" /\ out'[u].pat = i
      <3> SUFFICES ASSUME NEW i \in Filled, i # k
                   PROVE  \/ \E n \in names : n[1] = i
                          \/ \E u \in Threads :
                               /\ call[u] # NULL /\ call[u].op = "free_rplx"
                               /\ call[u].pat = i
        BY <1>4, <1>5
      <3>1. \A u \in Threads : pc[u] # "warnings"
        BY <1>1, <1>5 DEF Inside
      <3> QED BY <2>0, <3>1 DEF TableInv
    <2>7. ~closed' => Stored' \subseteq heap'
      BY <1>1, <1>2, <1>7, <2>0 DEF TableInv
    <2>8. \A n \in names : n[1] \in Filled' /\ n[2] = rplx'[n[1]]
      BY <1>4, <2>0 DEF TableInv
    <2>9. \A u \in Threads : call[u] # NULL /\ call[u].pat # 0 =>
            /\ call[u].pat \in Filled'
            /\ (\E n \in names : n[1] = call[u].pat) <=> call[u].op # "free_rplx"
            /\ \A w \in Threads :
                 call[w] # NULL /\ call[w].pat = call[u].pat => w = u
      BY <1>4, <2>0 DEF TableInv
    <2>10. \A u \in Threads : pc'[u] = "warnings" =>
             /\ out'[u].pat \in Filled' /\ out'[u].obj = rplx'[out'[u].pat]
             /\ \A n \in names : n[1] # out'[u].pat
             /\ \A w \in Threads : call[w] # NULL => call[w].pat # out'[u].pat
      BY <1>4, <1>5, <2>1, <2>2, <2>5
    <2>11. names' = names /\ call' = call
      BY <1>2
    <2> QED BY <2>4, <2>6, <2>7, <2>8, <2>9, <2>10, <2>11 DEF TableInv
  <1>13. ResultsInv'
    BY <1>2 DEF IInv, ResultsInv
  <1> QED BY <1>4, <1>8, <1>9, <1>10, <1>11, <1>12, <1>13 DEF IInv

LEMMA CompileWarningsKeepsInv ==
  ASSUME IInv, NEW t \in Threads, CompileWarnings(t)
  PROVE  IInv'
  <1> DEFINE k == out[t].pat
             o == out[t].obj
  <1>1. /\ pc[t] = "warnings" /\ lock = t
        /\ UNCHANGED <<closed, table, heap, buf, limit, calls, results>>
        /\ names' = names \cup {<<k, o>>}
        /\ \E v \in Outcomes : Leave(t, v)
    BY Values DEF CompileWarnings, At
  <1>2. /\ call[t] # NULL /\ ~closed /\ call[t].op = "compile"
        /\ k \in Filled /\ o = rplx[k] /\ \A n \in names : n[1] # k
        /\ \A u \in Threads : call[u] # NULL => call[u].pat # k
    BY <1>1, Open DEF IInv, PlaceInv, TableInv
  <1>3. k \in Nat /\ o \in Objects
    BY <1>2 DEF Filled, Free, Slots
  <1>4. /\ \A u \in Threads : /\ call'[u] = IF u = t THEN NULL ELSE call[u]
                              /\ pc'[u] = IF u = t THEN "idle" ELSE pc[u]
                              /\ u # t => out'[u] = out[u]
        /\ lock' = NULL /\ L' = <<>>
        /\ \A u \in Threads \ {t} : pc[u] \notin Inside
    BY <1>1 DEF Leave, Return, Go, IInv, TypeOK, Exclusive
  <1>5. \A u \in Threads : pc'[u] \notin Inside
    BY <1>4 DEF Inside
  <1>6. Filled' = Filled /\ Stored' = Stored
    BY <1>1 DEF table, Filled, Free, Slots, Stored
  <1> HIDE DEF k, o
  <1>7. TypeOK'
    <2>1. pc' \in [Threads -> Places]
          /\ call' \in [Threads -> Requests \cup {NULL}]
          /\ out' \in [Threads -> Outcomes]
      BY <1>1 DEF Leave, Return, Go, IInv, TypeOK, Places
    <2>2. lock' \in Threads \cup {NULL} /\ L' \in Seq(Objects \cup Words)
      BY <1>4
    <2> QED BY <1>1, <1>3, <2>1, <2>2 DEF IInv, TypeOK, table
  <1>8. Exclusive'
    BY <1>4, <1>5 DEF Exclusive
  <1>9. PlaceInv'
    BY <1>1, <1>2, <1>4 DEF IInv, PlaceInv
  <1>10. StackInv'
    BY <1>4, <1>5 DEF StackInv, Inside
  <1>11. FreeListSound'
    BY <1>1 DEF table, IInv, FreeListSound, Free, Slots
  <1>12. TableInv'
    <2>0. TableInv /\ UNCHANGED <<rplx, closed, heap>>
      BY <1>1 DEF IInv, table
    <2>1. \A n : n \in names' <=> n \in names \/ n = <<k, o>>
      BY <1>1
    <2>2. \A n \in names' : n[1] \in Filled /\ n[2] = rplx[n[1]]
      BY <1>2, <2>0, <2>1 DEF TableInv
    <2>3. ASSUME NEW u \in Threads, call'[u] # NULL, call'[u].pat # 0
          PROVE  /\ call'[u].pat \in Filled
                 /\ (\E n \in names' : n[1] = call'[u].pat)
                      <=> call'[u].op # "free_rplx"
                 /\ \A w \in Threads :
                      call'[w] # NULL /\ call'[w].pat = call'[u].pat => w = u
      <3>1. call'[u] = call[u] /\ call[u] # NULL /\ call[u].pat # k
        BY <1>2, <1>4, <2>3
      <3>2. (\E n \in names' : n[1] = call[u].pat)
              <=> \E n \in names : n[1] = call[u].pat
        BY <2>1, <3>1
      <3> QED BY <1>4, <2>0, <2>3, <3>1, <3>2 DEF TableInv
    <2>4. \A u \in Threads : pc'[u] # "warnings"
      BY <1>5 DEF Inside
    <2>5. ASSUME NEW i \in Filled
          PROVE  \/ \E n \in names' : n[1] = i
                 \/ \E u \in Threads : /\ call'[u] # NULL
                                       /\ call'[u].op = "free_rplx"
                                       /\ call'[u].pat = i
      <3>1. CASE \E n \in names : n[1] = i
        BY <2>1, <3>1
      <3>2. CASE \E u \in Threads :
                   call[u] # NULL /\ call[u].op = "free_rplx" /\ call[u].pat = i
        BY <1>2, <1>4, <3>2
      <3>3. CASE \E u \in Threads : pc[u] = "warnings" /\ out[u].pat = i
        <4>1. \A u \in Threads : pc[u] = "warnings" => u = t
          BY <1>4 DEF Inside
        <4>2. i = k
          BY <3>3, <4>1 DEF k
        <4>3. <<k, o>> \in names' /\ <<k, o>>[1] = i
          BY <2>1, <4>2
        <4> QED BY <4>3
      <3> QED BY <2>0, <3>1, <3>2, <3>3 DEF TableInv
    <2>6. /\ \A i, j \in Filled : rplx[i] = rplx[j] => i = j
          /\ ~closed' => Stored' \subseteq heap'
      BY <1>6, <2>0 DEF TableInv
    <2>7. rplx' = rplx /\ Filled' = Filled
      BY <1>6, <2>0
    <2> QED BY <2>2, <2>3, <2>4, <2>5, <2>6, <2>7 DEF TableInv
  <1>13. ResultsInv'
    <2>1. ResultsInv /\ UNCHANGED <<buf, results>> /\ names \subseteq names'
      BY <1>1 DEF IInv
    <2>2. \A u \in Threads : call'[u] # NULL => call'[u] = call[u]
      BY <1>4
    <2>3. ASSUME NEW r \in results
          PROVE  /\ <<r.pat, r.obj>> \in names'
                 /\ \A u \in Threads : call'[u] # NULL => call'[u].pat # r.pat
      <3>1. <<r.pat, r.obj>> \in names'
        BY <2>1 DEF ResultsInv
      <3>2. \A u \in Threads : call[u] # NULL => call[u].pat # r.pat
        BY <2>1 DEF ResultsInv
      <3> QED BY <2>2, <3>1, <3>2
    <2> QED BY <2>1, <2>3 DEF ResultsInv
  <1> QED BY <1>7, <1>8, <1>9, <1>10, <1>11, <1>12, <1>13 DEF IInv

----------------------------------------------------------------------------
(* The client's pattern is freed: no other call knows its index.           *)

LEMMA free_rplxKeepsInv ==
  ASSUME IInv, NEW t \in Threads, free_rplx(t)
  PROVE  IInv'
  <1> DEFINE i == call[t].pat
  <1>1. /\ pc[t] = "called" /\ lock = NULL /\ call[t].op = "free_rplx"
        /\ luaL_unref(i) /\ Leave(t, out[t])
        /\ UNCHANGED <<closed, heap, buf, limit, calls, names, results>>
    BY DEF free_rplx, Locked, client
  <1>2. /\ call[t] # NULL /\ ~closed /\ i \in Nat
        /\ i # 0 => /\ i \in Filled /\ \A n \in names : n[1] # i
                    /\ \A u \in Threads \ {t} : call[u] # NULL => call[u].pat # i
        /\ \A u \in Threads : pc[u] \notin Inside
    <2>1. call[t] # NULL /\ ~closed /\ call[t] \in Requests
      BY <1>1, Open
    <2>2. i # 0 => /\ i \in Filled /\ \A n \in names : n[1] # i
                   /\ \A u \in Threads \ {t} : call[u] # NULL => call[u].pat # i
      BY <1>1, <2>1 DEF IInv, TableInv
    <2>3. \A u \in Threads : pc[u] \notin Inside
      BY <1>1, <2>1 DEF IInv, Exclusive
    <2> QED BY <2>1, <2>2, <2>3 DEF Requests
  <1> HIDE DEF i
  <1>3. /\ rplx' \in Seq(Objects \cup Nat) /\ freelist' \in Nat
        /\ FreeListSound' /\ Filled' = Filled \ {i}
        /\ \A j \in Filled' : rplx'[j] = rplx[j]
    <2>1. CASE i # 0
      BY <1>1, <1>2, <2>1, UnrefTable
    <2>2. CASE i = 0
      <3>1. rplx' = rplx /\ freelist' = 0
        BY <1>1, <2>2 DEF luaL_unref
      <3>2. Free' = Free /\ Filled' = Filled /\ 0 \notin Filled
        BY <3>1 DEF Free, Slots, Filled
      <3>3. FreeListSound
        BY DEF IInv
      <3>4. FreeListSound'
        <4> HIDE DEF Free, Slots
        <4> QED BY <3>1, <3>2, <3>3 DEF FreeListSound
      <3> QED BY <2>2, <3>1, <3>2, <3>4 DEF IInv, TypeOK
    <2> QED BY <2>1, <2>2
  <1>4. /\ \A u \in Threads : /\ call'[u] = IF u = t THEN NULL ELSE call[u]
                              /\ pc'[u] = IF u = t THEN "idle" ELSE pc[u]
                              /\ u # t => out'[u] = out[u]
        /\ lock' = NULL /\ L' = <<>>
    BY <1>1, Returned DEF Leave
  <1>5. \A u \in Threads : pc'[u] \notin Inside
    BY <1>2, <1>4 DEF Inside
  <1>6. Stored' \subseteq Stored
    <2>1. /\ rplx \in Seq(Objects \cup Nat)
          /\ rplx' \in Seq(Objects \cup Nat)
      BY <1>3 DEF IInv, TypeOK
    <2>2. Stored = {rplx[j] : j \in Filled}
      BY <2>1 DEF Stored, Filled, Free, Slots
    <2>3. Stored' = {rplx'[j] : j \in Filled'}
      BY <2>1 DEF Stored, Filled, Free, Slots
    <2> QED BY <1>3, <2>2, <2>3
  <1>7. TypeOK'
    <2>1. pc' \in [Threads -> Places]
          /\ call' \in [Threads -> Requests \cup {NULL}]
          /\ out' \in [Threads -> Outcomes]
      BY <1>1 DEF Leave, Return, Go, IInv, TypeOK, Places
    <2>2. lock' \in Threads \cup {NULL} /\ L' \in Seq(Objects \cup Words)
      BY <1>4
    <2> QED BY <1>1, <1>3, <2>1, <2>2 DEF IInv, TypeOK
  <1>8. Exclusive'
    BY <1>4, <1>5 DEF Exclusive
  <1>9. PlaceInv'
    BY <1>1, <1>2, <1>4 DEF IInv, PlaceInv
  <1>10. StackInv'
    BY <1>4, <1>5 DEF StackInv, Inside
  <1>11. TableInv'
    <2>0. TableInv /\ UNCHANGED <<names, closed, heap>>
      BY <1>1 DEF IInv
    <2>1. \A n \in names : n[1] \in Filled' /\ n[2] = rplx'[n[1]]
      <3> SUFFICES ASSUME NEW n \in names
                   PROVE  n[1] \in Filled' /\ n[2] = rplx'[n[1]]
        OBVIOUS
      <3>1. n[1] \in Filled /\ n[2] = rplx[n[1]] /\ n[1] # 0
        BY <2>0 DEF TableInv, Filled, Slots
      <3>2. n[1] # i
        BY <1>2, <3>1
      <3> QED BY <1>3, <3>1, <3>2
    <2>2. ASSUME NEW u \in Threads, call'[u] # NULL, call'[u].pat # 0
          PROVE  /\ call'[u].pat \in Filled'
                 /\ (\E n \in names : n[1] = call'[u].pat)
                      <=> call'[u].op # "free_rplx"
                 /\ \A w \in Threads :
                      call'[w] # NULL /\ call'[w].pat = call'[u].pat => w = u
      <3>1. u # t /\ call'[u] = call[u]
        BY <1>4, <2>2
      <3>2. call[u].pat \in Filled /\ call[u].pat # i
        BY <1>2, <2>0, <2>2, <3>1 DEF TableInv
      <3> QED BY <1>3, <1>4, <2>0, <2>2, <3>1, <3>2 DEF TableInv
    <2>3. \A u \in Threads : pc[u] # "warnings" /\ pc'[u] # "warnings"
      BY <1>2, <1>5 DEF Inside
    <2>4. ASSUME NEW j \in Filled'
          PROVE  \/ \E n \in names : n[1] = j
                 \/ \E u \in Threads : /\ call'[u] # NULL
                                       /\ call'[u].op = "free_rplx"
                                       /\ call'[u].pat = j
      <3>1. j \in Filled /\ j # i
        BY <1>3
      <3>2. \/ \E n \in names : n[1] = j
            \/ \E u \in Threads :
                 call[u] # NULL /\ call[u].op = "free_rplx" /\ call[u].pat = j
        BY <2>0, <2>3, <3>1 DEF TableInv
      <3> QED BY <1>4, <3>1, <3>2 DEF i
    <2>5. \A j, k \in Filled' : rplx'[j] = rplx'[k] => j = k
      BY <1>3, <2>0 DEF TableInv
    <2>6. ~closed' => Stored' \subseteq heap'
      BY <1>6, <2>0 DEF TableInv
    <2>7. names' = names
      BY <2>0
    <2> QED BY <2>1, <2>2, <2>3, <2>4, <2>5, <2>6, <2>7 DEF TableInv
  <1>12. ResultsInv'
    <2>1. ResultsInv /\ UNCHANGED <<buf, results, names>>
      BY <1>1 DEF IInv
    <2>2. \A u \in Threads : call'[u] # NULL => call'[u] = call[u]
      BY <1>4
    <2>3. ASSUME NEW r \in results, NEW u \in Threads, call'[u] # NULL
          PROVE  call'[u].pat # r.pat
      <3>1. call'[u] = call[u] /\ call[u] # NULL
        BY <2>2, <2>3
      <3> QED BY <2>1, <3>1 DEF ResultsInv
    <2> QED BY <2>1, <2>3 DEF ResultsInv
  <1> QED BY <1>3, <1>7, <1>8, <1>9, <1>10, <1>11, <1>12 DEF IInv

(* rosie_finalize is called when nobody else uses the engine.              *)
LEMMA finalizeKeepsInv ==
  ASSUME IInv, NEW t \in Threads, finalize(t)
  PROVE  IInv'
  <1> USE DEF table, client
  <1>1. /\ pc[t] = "called" /\ lock = NULL /\ call[t].op = "finalize"
        /\ lock' = t /\ closed' = TRUE /\ L' = <<>> /\ heap' = {}
        /\ Return(t, out[t])
        /\ UNCHANGED <<table, buf, limit, client>>
    BY DEF finalize, Locked
  <1>2. results = {} /\ \A u \in Threads \ {t} : call[u] = NULL /\ pc[u] = "idle"
    BY <1>1, Open DEF IInv, PlaceInv
  <1>3. \A u \in Threads : call'[u] = NULL /\ pc'[u] = "idle"
    BY <1>1, <1>2 DEF Return, Go, IInv, TypeOK
  <1>4. TypeOK'
    <2>1. pc' \in [Threads -> Places]
          /\ call' \in [Threads -> Requests \cup {NULL}]
          /\ out' \in [Threads -> Outcomes]
      BY <1>1 DEF Return, Go, IInv, TypeOK, Places
    <2>2. L' \in Seq(Objects \cup Words)
      BY <1>1
    <2> QED BY <1>1, <2>1, <2>2 DEF IInv, TypeOK
  <1>5. Exclusive' /\ PlaceInv' /\ StackInv'
    BY <1>1, <1>2, <1>3 DEF Exclusive, Inside, PlaceInv, StackInv
  <1>6. FreeListSound'
    BY <1>1 DEF IInv, FreeListSound, Free, Slots
  <1>7. TableInv'
    <2>1. Filled' = Filled
      BY <1>1 DEF Filled, Free, Slots
    <2>2. \A u \in Threads :
            /\ ~(call[u] # NULL /\ call[u].op = "free_rplx")
            /\ pc[u] # "warnings"
      BY <1>1, <1>2
    <2>3. TableInv /\ UNCHANGED <<names, rplx>> /\ closed'
      BY <1>1 DEF IInv
    <2> QED BY <1>3, <2>1, <2>2, <2>3 DEF TableInv
  <1>8. ResultsInv'
    BY <1>1, <1>2 DEF ResultsInv
  <1> QED BY <1>4, <1>5, <1>6, <1>7, <1>8 DEF IInv

----------------------------------------------------------------------------
LEMMA StutterKeepsInv ==
  ASSUME IInv, UNCHANGED vars
  PROVE  IInv'
  <1> USE DEF vars, lua, client, IInv
  <1>1. TypeOK' /\ Exclusive' /\ PlaceInv'
    BY DEF TypeOK, Exclusive, PlaceInv
  <1>2. StackInv' /\ FreeListSound'
    BY DEF StackInv, Stored, FreeListSound, Free, Slots
  <1>3. TableInv' /\ ResultsInv'
    BY DEF TableInv, Filled, Free, Slots, Stored, ResultsInv
  <1> QED BY <1>1, <1>2, <1>3

LEMMA NextKeepsInv ==
  ASSUME IInv, [Next]_vars
  PROVE  IInv'
  <1>1. ASSUME NEW t \in Threads, Step(t)
        PROVE  IInv'
    <2>1. CASE Ends(t)
      BY <2>1, EndsKeepsInv
    <2>2. CASE \E to : Enters(t, to)
      BY <2>2, EntersKeepsInv
    <2>3. CASE \/ CompileCall(t) \/ CompileRef(t) \/ CompileWarnings(t)
               \/ free_rplx(t) \/ MatchRun(t) \/ MatchEncode(t) \/ finalize(t)
      BY <2>3, CompileCallKeepsInv, CompileRefKeepsInv, CompileWarningsKeepsInv,
         free_rplxKeepsInv, MatchRunKeepsInv, MatchEncodeKeepsInv,
         finalizeKeepsInv
    <2>4. \/ CompileNothing(t) \/ CompileNowhere(t) \/ CompileViolations(t)
          \/ MatchNoPattern(t) \/ MatchNoEncoder(t) \/ TraceNothing(t)
          \/ TraceCall(t) \/ alloc_limit(t) \/ LuaReturn(t)
          => Ends(t)
      BY CompileEnds, LookupEnds, TraceCallEnds, alloc_limitEnds, LuaReturnEnds
    <2>5. Compile(t) \/ match(t) \/ trace(t) \/ LuaCall(t)
          => \E to : Enters(t, to)
      BY CallsEnter
    <2> QED BY <1>1, <2>1, <2>2, <2>3, <2>4, <2>5 DEF Step
  <1>2. ASSUME NEW t \in Threads, ~closed, NEW op \in Ops,
               NEW i \in {0} \cup {n[1] : n \in names}, NEW arg \in Args(op),
               Begin(t, op, i, arg)
        PROVE  IInv'
    BY <1>2, BeginKeepsInv
  <1>3. ASSUME NEW t \in Threads, Examine(t) \/ LuaCollects(t)
        PROVE  IInv'
    BY <1>3, ExamineKeepsInv, LuaCollectsKeepsInv
  <1>4. CASE Rest \/ UNCHANGED vars
    BY <1>4, StutterKeepsInv DEF Rest
  <1> QED BY <1>1, <1>2, <1>3, <1>4 DEF Next

(* The invariant that explains all of the following.                       *)
THEOREM Inductive == Spec => []IInv
  BY InitInv, NextKeepsInv, PTL DEF Spec

(* Every variable has its type.                                            *)
THEOREM TypeCorrect == Spec => []TypeOK
  <1>1. IInv => TypeOK
    BY DEF IInv
  <1> QED BY <1>1, Inductive, PTL

(* Never are two threads inside the Lua state of an engine, and a thread   *)
(* that is inside holds the lock (ACQUIRE_ENGINE_LOCK).                    *)
THEOREM ExclusiveCorrect == Spec => []Exclusive
  <1>1. IInv => Exclusive
    BY DEF IInv
  <1> QED BY <1>1, Inductive, PTL

(* Each call finds the Lua stack empty, and its values where it addresses  *)
(* them, however the calls before it ended.                                *)
THEOREM StackCorrect == Spec => []StackInPlace
  <1>1. IInv => StackInPlace
    BY DEF IInv, StackInv, StackInPlace
  <1> QED BY <1>1, Inductive, PTL

(* The list of free slots that luaL_ref and luaL_unref keep stays sound.   *)
THEOREM FreeListCorrect == Spec => []FreeListSound
  <1>1. IInv => FreeListSound
    BY DEF IInv
  <1> QED BY <1>1, Inductive, PTL

(* Between calls, rplx_table holds exactly the patterns that clients have  *)
(* an index of, or are freeing, each in one slot.                          *)
THEOREM NamesCorrect == Spec => []NamesKept
  <1>1. ASSUME IInv PROVE NamesKept
    <2> SUFFICES ASSUME lock = NULL
                 PROVE  /\ names \subseteq Table
                        /\ \A e \in Table \ names : e[1] \in Leaving
                        /\ \A e, f \in Table : e[2] = f[2] => e[1] = f[1]
      BY DEF NamesKept
    <2>1. TableInv /\ names \subseteq Nat \X Objects
      BY <1>1 DEF IInv, TypeOK
    <2>2. \A e : e \in Table <=> \E i \in Filled : e = <<i, rplx[i]>>
      BY DEF Table, Filled
    <2>3. \A t \in Threads : pc[t] # "warnings"
      BY <1>1 DEF IInv, Exclusive, Inside, PlaceInv
    <2>4. names \subseteq Table
      <3> SUFFICES ASSUME NEW n \in names PROVE n \in Table
        OBVIOUS
      <3>1. n = <<n[1], n[2]>> /\ n[1] \in Filled /\ n[2] = rplx[n[1]]
        BY <2>1 DEF TableInv
      <3> QED BY <2>2, <3>1
    <2>5. ASSUME NEW e \in Table, e \notin names
          PROVE  e[1] \in Leaving
      <3>1. PICK i \in Filled : e = <<i, rplx[i]>>
        BY <2>2
      <3>2. ~ \E n \in names : n[1] = i
        <4> SUFFICES ASSUME NEW n \in names, n[1] = i PROVE FALSE
          OBVIOUS
        <4>1. n = <<n[1], n[2]>> /\ n[2] = rplx[n[1]]
          BY <2>1 DEF TableInv
        <4> QED BY <2>5, <3>1, <4>1
      <3>3. PICK t \in Threads :
              call[t] # NULL /\ call[t].op = "free_rplx" /\ call[t].pat = i
        BY <2>1, <2>3, <3>2 DEF TableInv
      <3> QED BY <3>1, <3>3 DEF Leaving, InCall
    <2>6. \A e, f \in Table : e[2] = f[2] => e[1] = f[1]
      BY <2>1, <2>2 DEF TableInv
    <2> QED BY <2>4, <2>5, <2>6
  <1> QED BY <1>1, Inductive, PTL

(* If the output of every encoder written in Lua fits the buffer that the  *)
(* matcher left, a client's match result stays as it was written until the *)
(* client is done with it.                                                 *)
THEOREM ResultsCorrect ==
  ASSUME "grows" \notin LuaOutput
  PROVE  Spec => []ResultsIntact
  <1>1. ASSUME IInv PROVE ResultsIntact
    <2> SUFFICES ASSUME NEW r \in results
                 PROVE  /\ r.obj \in heap
                        /\ buf[r.obj] = [block |-> r.block, by |-> r.by]
      BY DEF ResultsIntact
    <2>1. <<r.pat, r.obj>> \in names
          /\ buf[r.obj] = [block |-> r.block, by |-> r.by]
      BY <1>1 DEF IInv, ResultsInv
    <2>2. ~closed
      BY <1>1 DEF IInv, PlaceInv
    <2>3. r.pat \in Slots /\ r.obj = rplx[r.pat] /\ r.obj \in Objects
      <3>1. \A n \in names : n[1] \in Slots /\ n[2] = rplx[n[1]] /\ n[2] \in Objects
        BY <1>1 DEF IInv, TableInv, TypeOK, Filled
      <3> QED BY <2>1, <3>1
    <2>4. r.obj \in Stored
      BY <1>1, <2>3 DEF Stored, Slots, IInv, TypeOK
    <2> QED BY <1>1, <2>1, <2>2, <2>4 DEF IInv, TableInv
  <1> QED BY <1>1, Inductive, PTL

----------------------------------------------------------------------------
(* What a call reports                                                     *)

(* The messages are for people if the call failed.                         *)
Plain(v) == v.rc = "ERR" => v.messages # "json"

(* Of a match or a trace that fails, and of a match that has written its   *)
(* output to block b.                                                      *)
UsedFailed(t, o)   == [Used(t, o) EXCEPT !.rc = "ERR"]
UsedFound(t, o, b) == [Used(t, o) EXCEPT !.data = b]

(* The values of a call that is under way, and what it can make of them.   *)
LEMMA Reported ==
  ASSUME IInv, OutInv, NEW t \in Threads, pc[t] # "idle"
  PROVE  /\ Plain(out[t]) /\ Plain(Failed(t))
         /\ Plain([out[t] EXCEPT !.data = NULL])
         /\ Plain([Failed(t) EXCEPT !.messages = "text"])
         /\ Plain([out[t] EXCEPT !.rc = "ERR", !.messages = "text"])
         /\ \A m : /\ Plain(Reports(t, m))
                   /\ Plain([out[t] EXCEPT !.rc = "SUCCESS", !.messages = m])
         /\ \A o : Plain(Used(t, o)) /\ Plain(UsedFailed(t, o))
         /\ \A o, b : Plain(UsedFound(t, o, b))
  <1>1. /\ out[t] \in Outcomes
        /\ out[t].rc = "SUCCESS" /\ out[t].messages = "kept"
    BY Values DEF OutInv
  <1>2. out[t] = [rc |-> "SUCCESS", messages |-> "kept", pat |-> out[t].pat,
                  obj |-> out[t].obj, data |-> out[t].data]
    BY <1>1 DEF Outcomes
  <1> QED BY <1>2 DEF Plain, Failed, Reports, Used, UsedFailed, UsedFound

(* They keep what the call has stored or matched.                          *)
Same(t, v) == v.pat = out[t].pat /\ v.obj = out[t].obj

LEMMA Kept ==
  ASSUME IInv, NEW t \in Threads
  PROVE  /\ Same(t, out[t]) /\ Same(t, Failed(t))
         /\ Same(t, [out[t] EXCEPT !.data = NULL])
         /\ Same(t, [Failed(t) EXCEPT !.messages = "text"])
         /\ Same(t, [out[t] EXCEPT !.rc = "ERR", !.messages = "text"])
         /\ \A m : /\ Same(t, Reports(t, m))
                   /\ Same(t, [out[t] EXCEPT !.rc = "SUCCESS", !.messages = m])
  <1>1. out[t] \in Outcomes
    BY Values
  <1>2. out[t] = [rc |-> out[t].rc, messages |-> out[t].messages,
                  pat |-> out[t].pat, obj |-> out[t].obj, data |-> out[t].data]
    BY <1>1 DEF Outcomes
  <1> QED BY <1>2 DEF Same, Failed, Reports

(* What a match or a trace has used.                                       *)
LEMMA UsedObject ==
  ASSUME IInv, NEW t \in Threads, NEW o, NEW b
  PROVE  /\ Used(t, o).pat = out[t].pat /\ Used(t, o).obj = o
         /\ UsedFailed(t, o).pat = out[t].pat /\ UsedFailed(t, o).obj = o
         /\ UsedFound(t, o, b).pat = out[t].pat /\ UsedFound(t, o, b).obj = o
         /\ UsedFound(t, o, b).rc = out[t].rc
         /\ UsedFound(t, o, b).messages = out[t].messages
  <1>1. out[t] \in Outcomes
    BY Values
  <1>2. out[t] = [rc |-> out[t].rc, messages |-> out[t].messages,
                  pat |-> out[t].pat, obj |-> out[t].obj, data |-> out[t].data]
    BY <1>1 DEF Outcomes
  <1> QED BY <1>2 DEF Used, UsedFailed, UsedFound

(* A call that comes to nothing.                                           *)
Fails(t) == \E v : Return(t, v) /\ Plain(v) /\ v.pat = 0 /\ v.obj = NULL

LEMMA CallsFail ==
  ASSUME IInv, OutInv, NEW t \in Threads,
         \/ CompileNothing(t) \/ CompileNowhere(t) \/ CompileViolations(t)
         \/ MatchNoPattern(t) \/ MatchNoEncoder(t) \/ TraceNothing(t)
         \/ alloc_limit(t) \/ LuaReturn(t) \/ free_rplx(t) \/ finalize(t)
  PROVE  Fails(t)
  <1>1. pc[t] \in {"called", "violations", "lua"}
    BY DEF CompileNothing, CompileNowhere, CompileViolations, MatchNoPattern,
           MatchNoEncoder, TraceNothing, alloc_limit, LuaReturn, free_rplx,
           finalize, Locked, At
  <1>2. out[t].pat = 0 /\ out[t].obj = NULL
    BY <1>1 DEF OutInv
  <1> DEFINE Says1(v) == Return(t, v) /\ Plain(v) /\ v.pat = 0 /\ v.obj = NULL
  <1>3. /\ Return(t, out[t]) => Says1(out[t])
        /\ Return(t, Failed(t)) => Says1(Failed(t))
        /\ LET v == [Failed(t) EXCEPT !.messages = "text"]
           IN  Return(t, v) => Says1(v)
        /\ LET v == [out[t] EXCEPT !.rc = "ERR", !.messages = "text"]
           IN  Return(t, v) => Says1(v)
        /\ \A m \in Json \cup {"text"} :
             /\ Return(t, Reports(t, m)) => Says1(Reports(t, m))
             /\ LET v == [out[t] EXCEPT !.rc = "SUCCESS", !.messages = m]
                IN  Return(t, v) => Says1(v)
    BY <1>1, <1>2, Reported, Kept DEF Same
  <1> HIDE DEF Says1
  <1>4. \E v : Says1(v)
    BY <1>3 DEF CompileNothing, CompileNowhere, CompileViolations,
       MatchNoPattern, MatchNoEncoder, TraceNothing, alloc_limit, LuaReturn,
       free_rplx, finalize, Leave, config, libpath, load, loadfile, import,
       syntax_op, read_rcfile, execute_rcfile, Says, Converts
  <1> QED BY <1>4 DEF Says1, Fails

(* A match or a trace that has used a pattern of the client's.             *)
Uses(t) ==
  /\ call[t].op \in {"match", "trace", "matchfile"}
  /\ \E v : /\ Return(t, v) /\ Plain(v)
            /\ v.pat = 0 /\ <<call[t].pat, v.obj>> \in names

LEMMA TraceUses ==
  ASSUME IInv, OutInv, NEW t \in Threads, TraceCall(t)
  PROVE  Uses(t)
  <1>1. PICK o : o = L[3]
    OBVIOUS
  <1>2. /\ At(t, "tracing")
        /\ Leave(t, Used(t, o)) \/ Leave(t, UsedFailed(t, o))
    BY <1>1 DEF TraceCall, UsedFailed
  <1>3. pc[t] = "tracing"
    BY <1>2 DEF At
  <1>4. /\ call[t].op \in {"trace", "matchfile"}
        /\ <<call[t].pat, o>> \in names
    BY <1>1, <1>3 DEF IInv, PlaceInv, StackInv
  <1>5. out[t].pat = 0
    BY <1>3 DEF OutInv
  <1>6. /\ Plain(Used(t, o)) /\ Used(t, o).pat = 0 /\ Used(t, o).obj = o
        /\ Plain(UsedFailed(t, o)) /\ UsedFailed(t, o).pat = 0
        /\ UsedFailed(t, o).obj = o
    <2>1. /\ Used(t, o).pat = 0 /\ Used(t, o).obj = o
          /\ UsedFailed(t, o).pat = 0 /\ UsedFailed(t, o).obj = o
      BY <1>5, UsedObject
    <2>2. Plain(Used(t, o)) /\ Plain(UsedFailed(t, o))
      BY <1>3, Reported
    <2> QED BY <2>1, <2>2
  <1> QED BY <1>2, <1>4, <1>6 DEF Leave, Uses

(* A run of the matcher goes on to an encoder written in Lua.              *)
Encodes(t) ==
  /\ Go(t, "encoding") /\ UNCHANGED call
  /\ \E v \in Outcomes : /\ out' = [out EXCEPT ![t] = v]
                         /\ v.rc = "SUCCESS" /\ v.messages = "kept" /\ v.pat = 0

LEMMA MatchUses ==
  ASSUME IInv, OutInv, NEW t \in Threads, MatchRun(t)
  PROVE  Uses(t) \/ Encodes(t)
  <1>1. PICK o : o = L[2]
    OBVIOUS
  <1>2. /\ pc[t] = "matching" /\ call[t].op = "match"
        /\ <<call[t].pat, o>> \in names
    BY <1>1 DEF MatchRun, At, IInv, PlaceInv, StackInv
  <1>3. /\ o \in Objects /\ out[t].pat = 0
        /\ out[t].rc = "SUCCESS" /\ out[t].messages = "kept"
    BY <1>2 DEF IInv, TypeOK, OutInv
  <1>4. \/ Leave(t, UsedFailed(t, o)) \/ Leave(t, Used(t, o))
        \/ \E b \in {buf[o].block, buf[o].block + 1} :
             \/ Leave(t, UsedFound(t, o, b))
             \/ /\ Go(t, "encoding") /\ UNCHANGED call
                /\ out' = [out EXCEPT ![t] = UsedFound(t, o, b)]
    BY <1>1 DEF MatchRun, Delivers, Pointer, UsedFailed, UsedFound
  <1>5. /\ Plain(UsedFailed(t, o)) /\ UsedFailed(t, o).pat = 0
        /\ UsedFailed(t, o).obj = o
        /\ Plain(Used(t, o)) /\ Used(t, o).pat = 0 /\ Used(t, o).obj = o
    <2>1. /\ Used(t, o).pat = 0 /\ Used(t, o).obj = o
          /\ UsedFailed(t, o).pat = 0 /\ UsedFailed(t, o).obj = o
      BY <1>3, UsedObject
    <2>2. Plain(Used(t, o)) /\ Plain(UsedFailed(t, o))
      BY <1>2, Reported
    <2> QED BY <2>1, <2>2
  <1>6. ASSUME NEW b \in {buf[o].block, buf[o].block + 1}
        PROVE  /\ Plain(UsedFound(t, o, b)) /\ UsedFound(t, o, b) \in Outcomes
               /\ UsedFound(t, o, b).pat = 0 /\ UsedFound(t, o, b).obj = o
               /\ UsedFound(t, o, b).rc = "SUCCESS"
               /\ UsedFound(t, o, b).messages = "kept"
    <2>1. b \in Nat
      BY <1>3 DEF IInv, TypeOK
    <2>2. UsedFound(t, o, b) \in Outcomes
      BY <1>3, <2>1, Values DEF UsedFound
    <2>3. /\ UsedFound(t, o, b).pat = out[t].pat
          /\ UsedFound(t, o, b).obj = o
          /\ UsedFound(t, o, b).rc = out[t].rc
          /\ UsedFound(t, o, b).messages = out[t].messages
      BY UsedObject
    <2>4. Plain(UsedFound(t, o, b))
      BY <1>2, Reported
    <2> QED BY <1>3, <2>2, <2>3, <2>4
  <1> QED BY <1>2, <1>4, <1>5, <1>6 DEF Leave, Uses, Encodes

LEMMA EncoderUses ==
  ASSUME IInv, OutInv, NEW t \in Threads, MatchEncode(t)
  PROVE  Uses(t)
  <1> DEFINE v0 == [out[t] EXCEPT !.data = NULL]
  <1>1. /\ pc[t] = "encoding" /\ call[t].op = "match"
        /\ <<call[t].pat, out[t].obj>> \in names /\ out[t].pat = 0
    BY DEF MatchEncode, At, IInv, PlaceInv, StackInv, OutInv
  <1>2. \/ Return(t, Failed(t)) \/ Return(t, v0) \/ Return(t, out[t])
    BY DEF MatchEncode, Delivers, Leave
  <1>3. /\ Plain(Failed(t)) /\ Plain(v0) /\ Plain(out[t])
        /\ \A v \in {Failed(t), v0, out[t]} :
             v.pat = 0 /\ v.obj = out[t].obj
    BY <1>1, Reported, Kept DEF Same
  <1> HIDE DEF v0
  <1> QED BY <1>1, <1>2, <1>3 DEF Uses

----------------------------------------------------------------------------
(* The results of a call are kept quiet until it returns.                  *)

LEMMA ReturnKeepsOut ==
  ASSUME IInv, OutInv, ErrorsAreText, NEW t \in Threads,
         NEW v, Return(t, v), Plain(v)
  PROVE  (OutInv /\ ErrorsAreText)'
  <1>1. \A u \in Threads : /\ pc'[u] = IF u = t THEN "idle" ELSE pc[u]
                           /\ u # t => out'[u] = out[u]
    BY Returned
  <1>2. out'[t] = v
    BY DEF Return, IInv, TypeOK
  <1> QED BY <1>1, <1>2 DEF OutInv, ErrorsAreText, Plain

LEMMA GoKeepsOut ==
  ASSUME IInv, OutInv, ErrorsAreText, NEW t \in Threads, pc[t] # "idle",
         NEW to, Go(t, to), UNCHANGED out, pc[t] \notin {"warnings", "encoding"}
  PROVE  (OutInv /\ ErrorsAreText)'
  <1>1. \A u \in Threads : pc'[u] = IF u = t THEN to ELSE pc[u]
    BY DEF Go, IInv, TypeOK
  <1> QED BY <1>1 DEF OutInv, ErrorsAreText

LEMMA RefKeepsOut ==
  ASSUME IInv, OutInv, ErrorsAreText, NEW t \in Threads, CompileRef(t)
  PROVE  (OutInv /\ ErrorsAreText)'
  <1> DEFINE k == IF freelist # 0 THEN freelist ELSE Len(rplx) + 1
             o == L[Len(L) - 1]
             v == [out[t] EXCEPT !.pat = k, !.obj = o]
  <1>1. /\ pc[t] = "ref" /\ Go(t, "warnings")
        /\ out' = [out EXCEPT ![t].pat = k, ![t].obj = o]
    BY DEF CompileRef, At
  <1>2. out[t].rc = "SUCCESS" /\ out[t].messages = "kept" /\ out[t] \in Outcomes
    BY <1>1, Values DEF OutInv
  <1>3. v.rc = "SUCCESS" /\ v.messages = "kept"
    BY <1>2 DEF Outcomes
  <1>4. out' = [out EXCEPT ![t] = v]
    BY <1>1 DEF IInv, TypeOK
  <1> HIDE DEF v
  <1>5. \A u \in Threads : /\ pc'[u] = IF u = t THEN "warnings" ELSE pc[u]
                           /\ out'[u] = IF u = t THEN v ELSE out[u]
    BY <1>1, <1>4 DEF Go, IInv, TypeOK
  <1> QED BY <1>3, <1>5 DEF OutInv, ErrorsAreText

LEMMA EncodesKeepsOut ==
  ASSUME IInv, OutInv, ErrorsAreText, NEW t \in Threads, Encodes(t)
  PROVE  (OutInv /\ ErrorsAreText)'
  <1>1. PICK v \in Outcomes :
          /\ out' = [out EXCEPT ![t] = v]
          /\ v.rc = "SUCCESS" /\ v.messages = "kept" /\ v.pat = 0
    BY DEF Encodes
  <1>2. \A u \in Threads : /\ pc'[u] = IF u = t THEN "encoding" ELSE pc[u]
                           /\ out'[u] = IF u = t THEN v ELSE out[u]
    BY <1>1 DEF Encodes, Go, IInv, TypeOK
  <1> QED BY <1>1, <1>2 DEF OutInv, ErrorsAreText

(* The ways a compilation returns.                                         *)
LEMMA CompileReturns ==
  ASSUME IInv, OutInv, NEW t \in Threads
  PROVE  /\ CompileWarnings(t) =>
              \E v : Return(t, v) /\ Plain(v)
                     /\ v.pat = out[t].pat /\ v.obj = out[t].obj
         /\ CompileCall(t) =>
              \/ Fails(t)
              \/ UNCHANGED <<call, out>> /\ pc[t] = "compiling"
                 /\ \E to \in {"violations", "ref"} : Go(t, to)
  <1>1. ASSUME CompileWarnings(t)
        PROVE  \E v : Return(t, v) /\ Plain(v)
                      /\ v.pat = out[t].pat /\ v.obj = out[t].obj
    <2>1. pc[t] = "warnings"
      BY <1>1 DEF CompileWarnings, At
    <2>2. \/ \E m \in Json : Return(t, Reports(t, m))
          \/ Return(t, Failed(t))
      BY <1>1 DEF CompileWarnings, Leave
    <2>3. Plain(Failed(t)) /\ \A m : Plain(Reports(t, m))
      BY <2>1, Reported
    <2>4. /\ Failed(t).pat = out[t].pat /\ Failed(t).obj = out[t].obj
          /\ \A m \in Json : /\ Reports(t, m).pat = out[t].pat
                             /\ Reports(t, m).obj = out[t].obj
      BY Kept DEF Same
    <2> QED BY <2>2, <2>3, <2>4
  <1>2. ASSUME CompileCall(t)
        PROVE  \/ Fails(t)
               \/ UNCHANGED <<call, out>> /\ pc[t] = "compiling"
                  /\ \E to \in {"violations", "ref"} : Go(t, to)
    <2>1. pc[t] = "compiling"
      BY <1>2 DEF CompileCall, At
    <2>2. \/ Return(t, Failed(t))
          \/ UNCHANGED <<call, out>> /\ \E to \in {"violations", "ref"} : Go(t, to)
      BY <1>2 DEF CompileCall, Leave
    <2>3. Plain(Failed(t)) /\ Failed(t).pat = 0 /\ Failed(t).obj = NULL
      BY <2>1, Reported, Kept DEF Same, OutInv
    <2> QED BY <2>1, <2>2, <2>3 DEF Fails
  <1> QED BY <1>1, <1>2

LEMMA NextKeepsOut ==
  ASSUME IInv, OutInv, ErrorsAreText, [Next]_vars
  PROVE  (OutInv /\ ErrorsAreText)'
  <1>1. ASSUME NEW t \in Threads, Step(t)
        PROVE  (OutInv /\ ErrorsAreText)'
    <2>1. CASE \/ Fails(t) \/ Uses(t) \/ CompileWarnings(t)
      BY <2>1, ReturnKeepsOut, CompileReturns DEF Fails, Uses
    <2>2. CASE Compile(t) \/ match(t) \/ trace(t) \/ LuaCall(t)
      BY <2>2, GoKeepsOut DEF Compile, match, trace, LuaCall, Locked, Acquire
    <2>3. CASE CompileCall(t)
      BY <2>1, <2>3, CompileReturns, GoKeepsOut
    <2>4. CASE CompileRef(t)
      BY <2>4, RefKeepsOut
    <2>5. CASE MatchRun(t) \/ MatchEncode(t) \/ TraceCall(t)
      BY <2>1, <2>5, MatchUses, EncoderUses, TraceUses, EncodesKeepsOut
    <2> QED BY <1>1, <2>1, <2>2, <2>3, <2>4, <2>5, CallsFail DEF Step
  <1>2. ASSUME NEW t \in Threads, NEW op, NEW i, NEW arg, Begin(t, op, i, arg)
        PROVE  (OutInv /\ ErrorsAreText)'
    <2>1. \A u \in Threads : /\ pc'[u] = IF u = t THEN "called" ELSE pc[u]
                             /\ out'[u] = IF u = t THEN Quiet ELSE out[u]
      BY <1>2 DEF Begin, IInv, TypeOK
    <2> QED BY <2>1 DEF OutInv, ErrorsAreText, Quiet
  <1>3. CASE UNCHANGED <<pc, out>>
    BY <1>3 DEF OutInv, ErrorsAreText
  <1> QED BY <1>1, <1>2, <1>3 DEF Next, Examine, LuaCollects, Rest, vars

LEMMA OutInductive == Spec => [](OutInv /\ ErrorsAreText)
  <1>1. Init => OutInv /\ ErrorsAreText
    BY DEF Init, OutInv, ErrorsAreText, Quiet
  <1> QED BY <1>1, NextKeepsOut, Inductive, PTL DEF Spec

(* Until it returns, a call has nothing to report; what it returns is of   *)
(* the pattern that it has stored or matched, or of none.                  *)
THEOREM OutCorrect == Spec => []OutInv
  BY OutInductive, PTL

(* The messages of a call that failed are never JSON (librosie.c, overview *)
(* point 3): no way out of a call reports a failure with the JSON that an  *)
(* earlier conversion has left in the messages.                            *)
THEOREM ErrorsCorrect == Spec => []ErrorsAreText
  BY OutInductive, PTL

----------------------------------------------------------------------------
(* The abstract view of a state                                            *)

LEMMA ReplySame ==
  ASSUME UNCHANGED call, \A u \in Threads : call[u] = NULL => out'[u] = out[u]
  PROVE  Reply' = Reply
  BY DEF Reply

LEMMA ReplyReturn ==
  ASSUME IInv, NEW t \in Threads, NEW v, Return(t, v)
  PROVE  /\ call' = [call EXCEPT ![t] = NULL]
         /\ Reply' = [Reply EXCEPT ![t] = [pat |-> v.pat, obj |-> v.obj]]
  <1>1. \A u \in Threads : /\ call'[u] = IF u = t THEN NULL ELSE call[u]
                           /\ u # t => out'[u] = out[u]
    BY Returned
  <1>2. out'[t] = v
    BY DEF Return, IInv, TypeOK
  <1>3. call' = [call EXCEPT ![t] = NULL]
    BY DEF Return
  <1> QED BY <1>1, <1>2, <1>3 DEF Reply

(* A thread that returns while no compilation has a pattern to hand out.   *)
LEMMA ReturnPatterns ==
  ASSUME IInv, NEW t \in Threads, NEW v, Return(t, v), pc[t] # "warnings",
         rplx' = rplx
  PROVE  Patterns' = Patterns
  <1>1. \A u \in Threads : /\ pc'[u] = IF u = t THEN "idle" ELSE pc[u]
                           /\ u # t => out'[u] = out[u]
    BY Returned
  <1>2. Storing' = Storing
    BY <1>1 DEF Storing
  <1>3. Table' = Table
    BY DEF Table, Slots, Free
  <1> QED BY <1>2, <1>3 DEF Patterns

(* The table holds every pattern that a client may use, and the client may *)
(* use no pattern that a compilation has not handed out.                   *)
LEMMA NamesArePatterns ==
  ASSUME IInv
  PROVE  names \subseteq Patterns
  <1> SUFFICES ASSUME NEW n \in names
               PROVE  n \in Patterns
    OBVIOUS
  <1>1. n = <<n[1], n[2]>> /\ n[1] \in Filled /\ n[2] = rplx[n[1]]
    BY DEF IInv, TypeOK, TableInv
  <1>2. n[1] \notin Storing
    BY DEF IInv, TableInv, Storing
  <1> QED BY <1>1, <1>2 DEF Patterns, Table, Filled

----------------------------------------------------------------------------
(* Each step is one of the abstract engine, or none.                       *)

AbstractStep == [Atomic!Next]_(Atomic!vars)

LEMMA Unseen ==
  ASSUME UNCHANGED <<Patterns, limit, closed, call, Reply>>
  PROVE  AbstractStep
  BY DEF AbstractStep, Atomic!vars

LEMMA FailsIsWithout ==
  ASSUME IInv, NEW t \in Threads, Fails(t), call[t] # NULL,
         call[t].op # "free_rplx", pc[t] # "warnings",
         UNCHANGED <<rplx, limit, closed>>
  PROVE  AbstractStep
  <1>1. PICK v : Return(t, v) /\ v.pat = 0 /\ v.obj = NULL
    BY DEF Fails
  <1>2. Patterns' = Patterns
    BY <1>1, ReturnPatterns
  <1>3. Atomic!Return(t, Atomic!Nothing)
    BY <1>1, ReplyReturn DEF Atomic!Return, Atomic!Nothing
  <1>4. Atomic!Without(t)
    BY <1>2, <1>3 DEF Atomic!Without
  <1> QED BY <1>4 DEF AbstractStep, Atomic!Next

LEMMA UsesIsUse ==
  ASSUME IInv, NEW t \in Threads, Uses(t), call[t] # NULL, pc[t] # "warnings",
         UNCHANGED <<rplx, limit, closed>>
  PROVE  AbstractStep
  <1>1. PICK v : Return(t, v) /\ v.pat = 0 /\ <<call[t].pat, v.obj>> \in names
    BY DEF Uses
  <1>2. Patterns' = Patterns
    BY <1>1, ReturnPatterns
  <1>3. PICK e : e = <<call[t].pat, v.obj>>
    OBVIOUS
  <1>4. e \in Patterns /\ e[1] = call[t].pat /\ e[2] = v.obj
    BY <1>1, <1>3, NamesArePatterns
  <1>5. Atomic!Return(t, [pat |-> 0, obj |-> e[2]])
    BY <1>1, <1>4, ReplyReturn DEF Atomic!Return
  <1>6. call[t].op \in {"match", "trace", "matchfile"}
    BY DEF Uses
  <1>7. Atomic!Use(t)
    BY <1>2, <1>4, <1>5, <1>6 DEF Atomic!Use
  <1> QED BY <1>7 DEF AbstractStep, Atomic!Next

LEMMA alloc_limitIsSetLimit ==
  ASSUME IInv, OutInv, NEW t \in Threads, alloc_limit(t)
  PROVE  AbstractStep
  <1>1. /\ pc[t] = "called" /\ call[t] # NULL /\ call[t].op = "alloc_limit"
        /\ UNCHANGED <<closed, rplx>> /\ limit' \in Limits
    BY Open DEF alloc_limit, Locked, table, IInv, TypeOK, Limits
  <1>2. PICK v : Return(t, v) /\ v.pat = 0 /\ v.obj = NULL
    BY CallsFail DEF Fails
  <1>3. Patterns' = Patterns
    BY <1>1, <1>2, ReturnPatterns
  <1>4. Atomic!Return(t, Atomic!Nothing)
    BY <1>1, <1>2, ReplyReturn DEF Atomic!Return, Atomic!Nothing
  <1>5. Atomic!SetLimit(t)
    BY <1>1, <1>3, <1>4 DEF Atomic!SetLimit
  <1> QED BY <1>1, <1>5 DEF AbstractStep, Atomic!Next

LEMMA finalizeIsFinalize ==
  ASSUME IInv, OutInv, NEW t \in Threads, finalize(t)
  PROVE  AbstractStep
  <1>1. /\ pc[t] = "called" /\ call[t] # NULL /\ call[t].op = "finalize"
        /\ UNCHANGED <<limit, rplx>> /\ closed' = TRUE
    BY Open DEF finalize, Locked, table
  <1>2. PICK v : Return(t, v) /\ v.pat = 0 /\ v.obj = NULL
    BY CallsFail DEF Fails
  <1>3. Patterns' = Patterns
    BY <1>1, <1>2, ReturnPatterns
  <1>4. Atomic!Return(t, Atomic!Nothing)
    BY <1>1, <1>2, ReplyReturn DEF Atomic!Return, Atomic!Nothing
  <1>5. Atomic!Finalize(t)
    BY <1>1, <1>3, <1>4 DEF Atomic!Finalize
  <1> QED BY <1>1, <1>5 DEF AbstractStep, Atomic!Next

(* A slot is given back: the pattern of that index leaves the table.       *)
LEMMA free_rplxIsFree ==
  ASSUME IInv, OutInv, NEW t \in Threads, free_rplx(t)
  PROVE  AbstractStep
  <1>1. /\ pc[t] = "called" /\ call[t] # NULL /\ call[t].op = "free_rplx"
        /\ lock = NULL /\ luaL_unref(call[t].pat)
        /\ UNCHANGED <<limit, closed>>
    BY Open DEF free_rplx, Locked, table
  <1>2. PICK v : Return(t, v) /\ v.pat = 0 /\ v.obj = NULL
    BY CallsFail DEF Fails
  <1>3. PICK i : i = call[t].pat
    OBVIOUS
  <1>4. i # 0 => i \in Filled
    BY <1>1, <1>3 DEF IInv, TableInv
  <1>5. /\ Filled' = Filled \ {i}
        /\ \A j \in Filled' : rplx'[j] = rplx[j]
    <2>1. CASE i # 0
      BY <1>1, <1>3, <1>4, <2>1, UnrefTable
    <2>2. CASE i = 0
      <3>1. rplx' = rplx
        BY <1>1, <1>3, <2>2 DEF luaL_unref
      <3> QED BY <2>2, <3>1 DEF Filled, Free, Slots
    <2> QED BY <2>1, <2>2
  <1>6. \A u \in Threads : pc[u] # "warnings" /\ pc'[u] # "warnings"
    <2>1. \A u \in Threads : pc[u] # "warnings"
      BY <1>1, Open DEF IInv, Exclusive, Inside
    <2> QED BY <1>2, <2>1, Returned
  <1>7. Storing = {} /\ Storing' = {}
    BY <1>6 DEF Storing
  <1>8. /\ Patterns = {<<j, rplx[j]>> : j \in Filled}
        /\ Patterns' = {<<j, rplx'[j]>> : j \in Filled'}
    BY <1>7 DEF Patterns, Table, Filled
  <1>9. Patterns' = {e \in Patterns : e[1] # i}
    BY <1>5, <1>8
  <1>10. Atomic!Return(t, Atomic!Nothing)
    BY <1>1, <1>2, ReplyReturn DEF Atomic!Return, Atomic!Nothing
  <1>11. Atomic!Free(t)
    BY <1>1, <1>3, <1>9, <1>10 DEF Atomic!Free
  <1> QED BY <1>1, <1>11 DEF AbstractStep, Atomic!Next

(* A pattern that is stored is not seen yet.                               *)
LEMMA CompileRefUnseen ==
  ASSUME IInv, NEW t \in Threads, CompileRef(t)
  PROVE  AbstractStep
  <1>1. PICK o : o = L[2]
    OBVIOUS
  <1>2. PICK k : k = IF freelist # 0 THEN freelist ELSE Len(rplx) + 1
    OBVIOUS
  <1>3. /\ pc[t] = "ref" /\ lock = t /\ call[t] # NULL /\ ~closed
        /\ Len(L) = 3 /\ o \in Objects
    BY <1>1, Open DEF CompileRef, At, IInv, StackInv, TypeOK
  <1>4. /\ luaL_ref(o) /\ Go(t, "warnings")
        /\ out' = [out EXCEPT ![t].pat = k, ![t].obj = o]
        /\ UNCHANGED <<closed, limit, call>>
    <2>1. L[Len(L) - 1] = o
      BY <1>1, <1>3
    <2> QED BY <1>2, <2>1 DEF CompileRef
  <1>5. /\ k \notin Filled /\ Filled' = Filled \cup {k} /\ rplx'[k] = o
        /\ \A j \in Filled : rplx'[j] = rplx[j]
    BY <1>2, <1>3, <1>4, RefTable
  <1>6. /\ \A u \in Threads : pc[u] # "warnings"
        /\ \A u \in Threads : pc'[u] = "warnings" <=> u = t
        /\ out'[t].pat = k
        /\ \A u \in Threads : u # t => out'[u] = out[u]
    <2>1. \A u \in Threads : pc[u] # "warnings"
      BY <1>3 DEF IInv, Exclusive, Inside
    <2>2. \A u \in Threads : pc'[u] = IF u = t THEN "warnings" ELSE pc[u]
      BY <1>4 DEF Go, IInv, TypeOK
    <2>3. out'[t].pat = k /\ \A u \in Threads : u # t => out'[u] = out[u]
      BY <1>4 DEF IInv, TypeOK, Outcomes
    <2> QED BY <2>1, <2>2, <2>3
  <1>7. Storing = {} /\ Storing' = {k}
    BY <1>6 DEF Storing
  <1>8. /\ Table = {<<j, rplx[j]>> : j \in Filled}
        /\ Table' = {<<j, rplx'[j]>> : j \in Filled'}
    BY DEF Table, Filled
  <1>9. Patterns' = Patterns
    BY <1>5, <1>7, <1>8 DEF Patterns
  <1>10. Reply' = Reply
    BY <1>3, <1>4, <1>6, ReplySame
  <1> QED BY <1>4, <1>9, <1>10, Unseen

(* The client gets the index of the pattern: now it is in the table.       *)
LEMMA CompileWarningsIsCompile ==
  ASSUME IInv, OutInv, NEW t \in Threads, CompileWarnings(t)
  PROVE  AbstractStep
  <1>1. /\ pc[t] = "warnings" /\ lock = t /\ UNCHANGED <<rplx, closed, limit>>
    BY DEF CompileWarnings, At, table
  <1>2. PICK i, o : i = out[t].pat /\ o = out[t].obj
    OBVIOUS
  <1>3. PICK v : Return(t, v) /\ v.pat = i /\ v.obj = o
    BY <1>2, CompileReturns
  <1>4. /\ call[t] # NULL /\ ~closed /\ call[t].op = "compile"
        /\ i \in Filled /\ o = rplx[i]
        /\ \A j, k \in Filled : rplx[j] = rplx[k] => j = k
    BY <1>1, <1>2, Open DEF IInv, PlaceInv, TableInv
  <1>5. i \in Nat \ {0} /\ o \in Objects
    BY <1>4 DEF Filled, Free, Slots
  <1>6. /\ \A u \in Threads : pc[u] = "warnings" <=> u = t
        /\ \A u \in Threads : pc'[u] # "warnings"
    <2>1. \A u \in Threads : pc[u] = "warnings" => u = t
      BY <1>1, <1>4 DEF IInv, Exclusive, Inside
    <2> QED BY <1>1, <1>3, <2>1, Returned
  <1>7. Storing = {i} /\ Storing' = {}
    BY <1>2, <1>6 DEF Storing
  <1>8. Table' = Table /\ Table = {<<j, rplx[j]>> : j \in Filled}
    BY <1>1 DEF Table, Filled, Slots, Free
  <1>9. /\ Patterns' = Table
        /\ Patterns = {e \in Table : e[1] # i}
    BY <1>7, <1>8 DEF Patterns
  <1>10. Patterns' = Patterns \cup {<<i, o>>}
    BY <1>4, <1>8, <1>9
  <1>11. \A e \in Patterns : e[1] # i /\ e[2] # o
    BY <1>4, <1>8, <1>9
  <1>12. /\ call' = [call EXCEPT ![t] = NULL]
         /\ Reply' = [Reply EXCEPT ![t] = [pat |-> i, obj |-> o]]
    BY <1>3, ReplyReturn
  <1>13. call'[t] = NULL /\ Reply'[t].pat = i /\ Reply'[t].obj = o
    BY <1>12 DEF IInv, TypeOK, Reply
  <1>14. Atomic!Return(t, [pat |-> i, obj |-> o])
    BY <1>4, <1>12 DEF Atomic!Return
  <1>15. Atomic!Compile(t)
    BY <1>1, <1>4, <1>5, <1>10, <1>11, <1>13, <1>14 DEF Atomic!Compile
  <1> QED BY <1>4, <1>15 DEF AbstractStep, Atomic!Next

LEMMA BeginIsCall ==
  ASSUME IInv, NEW t \in Threads, NEW op \in Ops, NEW i, NEW arg,
         Begin(t, op, i, arg), IInv'
  PROVE  AbstractStep
  <1> DEFINE c == [op |-> op, pat |-> i, arg |-> arg]
  <1>1. /\ call[t] = NULL /\ call' = [call EXCEPT ![t] = c]
        /\ pc' = [pc EXCEPT ![t] = "called"] /\ out' = [out EXCEPT ![t] = Quiet]
        /\ UNCHANGED <<rplx, limit, closed>>
    BY DEF Begin, lua, table
  <1> HIDE DEF c
  <1>2. /\ \A u \in Threads : /\ pc'[u] = IF u = t THEN "called" ELSE pc[u]
                              /\ call'[u] = IF u = t THEN c ELSE call[u]
                              /\ u # t => out'[u] = out[u]
        /\ pc'[t] = "called" /\ pc[t] = "idle"
    BY <1>1 DEF IInv, TypeOK, PlaceInv
  <1>3. call'[t] = c /\ c # NULL
    <2>1. call'[t] = NULL <=> pc'[t] = "idle"
      BY DEF IInv, PlaceInv
    <2> QED BY <1>2, <2>1
  <1>4. Patterns' = Patterns
    <2>1. Storing' = Storing
      BY <1>2 DEF Storing
    <2>2. Table' = Table
      BY <1>1 DEF Table, Slots, Free
    <2> QED BY <2>1, <2>2 DEF Patterns
  <1>5. Reply' = [Reply EXCEPT ![t] = NULL]
    BY <1>2, <1>3 DEF Reply
  <1>6. Atomic!Call(t)
    BY <1>1, <1>3, <1>4, <1>5 DEF Atomic!Call
  <1> QED BY <1>6 DEF AbstractStep, Atomic!Next

(* A call that is under way goes on.                                       *)
LEMMA GoUnseen ==
  ASSUME IInv, NEW t \in Threads, pc[t] \notin {"idle", "warnings"},
         NEW to, to # "warnings", Go(t, to),
         \A u \in Threads : u # t => out'[u] = out[u],
         UNCHANGED <<rplx, limit, closed, call>>
  PROVE  AbstractStep
  <1>1. \A u \in Threads : pc'[u] = IF u = t THEN to ELSE pc[u]
    BY DEF Go, IInv, TypeOK
  <1>2. Storing' = Storing
    BY <1>1 DEF Storing
  <1>3. Table' = Table
    BY DEF Table, Slots, Free
  <1>4. Patterns' = Patterns
    BY <1>2, <1>3 DEF Patterns
  <1>5. Reply' = Reply
    BY Open, ReplySame
  <1> QED BY <1>4, <1>5, Unseen

LEMMA StepIsAbstract ==
  ASSUME IInv, OutInv, NEW t \in Threads, Step(t)
  PROVE  AbstractStep
  <1> USE DEF table
  <1>1. CASE \/ CompileNothing(t) \/ CompileNowhere(t) \/ CompileViolations(t)
             \/ MatchNoPattern(t) \/ MatchNoEncoder(t) \/ TraceNothing(t)
             \/ LuaReturn(t)
    <2>1. /\ pc[t] \in {"called", "violations", "lua"}
          /\ call[t].op # "free_rplx" /\ UNCHANGED <<rplx, limit, closed>>
      BY <1>1 DEF CompileNothing, CompileNowhere, CompileViolations,
         MatchNoPattern, MatchNoEncoder, TraceNothing, LuaReturn, Locked, At,
         lua, IInv, PlaceInv
    <2> QED BY <1>1, <2>1, Open, CallsFail, FailsIsWithout
  <1>2. CASE Compile(t) \/ match(t) \/ trace(t) \/ LuaCall(t)
    <2>1. PICK to \in {"compiling", "matching", "tracing", "lua"} :
            /\ pc[t] = "called" /\ Go(t, to)
            /\ UNCHANGED <<rplx, limit, closed, call, out>>
      BY <1>2 DEF Compile, match, trace, LuaCall, Locked, Acquire
    <2> QED BY <2>1, GoUnseen
  <1>3. CASE CompileCall(t)
    <2>1. /\ pc[t] = "compiling" /\ call[t].op = "compile"
          /\ UNCHANGED <<rplx, limit, closed>>
      BY <1>3 DEF CompileCall, At, IInv, PlaceInv
    <2>2. CASE Fails(t)
      BY <2>1, <2>2, Open, FailsIsWithout
    <2>3. CASE /\ UNCHANGED <<call, out>>
               /\ \E to \in {"violations", "ref"} : Go(t, to)
      BY <2>1, <2>3, GoUnseen
    <2> QED BY <1>3, <2>2, <2>3, CompileReturns
  <1>4. CASE MatchRun(t) \/ MatchEncode(t) \/ TraceCall(t)
    <2>1. /\ pc[t] \in {"matching", "encoding", "tracing"}
          /\ UNCHANGED <<rplx, limit, closed>>
      BY <1>4 DEF MatchRun, MatchEncode, TraceCall, At
    <2>2. CASE Uses(t)
      BY <2>1, <2>2, Open, UsesIsUse
    <2>3. CASE Encodes(t)
      <3>1. \A u \in Threads : u # t => out'[u] = out[u]
        BY <2>3 DEF Encodes, IInv, TypeOK
      <3> QED BY <2>1, <2>3, <3>1, GoUnseen DEF Encodes
    <2> QED BY <1>4, <2>2, <2>3, MatchUses, EncoderUses, TraceUses
  <1>5. CASE CompileRef(t)
    BY <1>5, CompileRefUnseen
  <1>6. CASE CompileWarnings(t)
    BY <1>6, CompileWarningsIsCompile
  <1>7. CASE free_rplx(t) \/ alloc_limit(t) \/ finalize(t)
    BY <1>7, free_rplxIsFree, alloc_limitIsSetLimit, finalizeIsFinalize
  <1> QED BY <1>1, <1>2, <1>3, <1>4, <1>5, <1>6, <1>7 DEF Step

LEMMA NextIsAbstract ==
  ASSUME IInv, IInv', OutInv, [Next]_vars
  PROVE  AbstractStep
  <1>1. ASSUME NEW t \in Threads, Step(t)
        PROVE  AbstractStep
    BY <1>1, StepIsAbstract
  <1>2. ASSUME NEW t \in Threads, NEW op \in Ops, NEW i, NEW arg,
               Begin(t, op, i, arg)
        PROVE  AbstractStep
    BY <1>2, BeginIsCall
  <1>3. CASE UNCHANGED <<rplx, limit, closed, pc, call, out>>
    <2>1. Storing' = Storing /\ Table' = Table
      BY <1>3 DEF Storing, Table, Slots, Free
    <2>2. Patterns' = Patterns
      BY <2>1 DEF Patterns
    <2>3. Reply' = Reply
      BY <1>3, ReplySame
    <2> QED BY <1>3, <2>2, <2>3, Unseen
  <1> QED BY <1>1, <1>2, <1>3
      DEF Next, Examine, LuaCollects, Rest, vars, lua, table

LEMMA InitIsAbstract == Init => Atomic!Init
  <1> SUFFICES ASSUME Init PROVE Atomic!Init
    OBVIOUS
  <1>1. Patterns = {}
    BY DEF Init, Patterns, Table, Slots, Free
  <1>2. Reply = [t \in Threads |-> Atomic!Nothing]
    BY DEF Init, Reply, Quiet, Atomic!Nothing
  <1> QED BY <1>1, <1>2 DEF Init, Atomic!Init

(* Every call takes effect alone, when it returns: a compilation that      *)
(* returns an index has added one new pattern under a new index, freeing   *)
(* removes the client's pattern and no other, matches and traces use the   *)
(* pattern that the index was returned for, and a call that fails changes  *)
(* nothing.                                                                *)
THEOREM CallsAtomicCorrect == Spec => CallsAtomic
  <1>1. IInv /\ IInv' /\ OutInv /\ [Next]_vars => AbstractStep
    BY NextIsAbstract
  <1> QED BY <1>1, InitIsAbstract, Inductive, OutCorrect, PTL
      DEF Spec, CallsAtomic, Atomic!Spec, AbstractStep
=============================================================================

------------------------------- MODULE Buffer -------------------------------
(***************************************************************************)
(* A growable buffer (buf.c of rpeg/runtime) and its use from Lua (rbuf.c) *)
(* and by the json encoder.  A buffer starts in storage of its own and     *)
(* moves to the heap when it outgrows that; a "lite" buffer wraps bytes    *)
(* that belong to somebody else.  The heap may be exhausted at any time.   *)
(*                                                                         *)
(* A buffer is [data, initb, n, capacity]; data and initb are locations,   *)
(* and mem[l] are the bytes that are stored at l.                          *)
(***************************************************************************)
EXTENDS ByteCodec

CONSTANTS
  Blocks,              (* what malloc may return                           *)
  INITBUFF, OUTSIDE,   (* the storage in the Buffer, and somebody else's   *)
  NULL,
  INITIAL_BUFFER_SIZE,
  Strings,             (* the byte strings that are added                  *)
  Wrapped,             (* the byte strings that are wrapped                *)
  Numbers,             (* the numbers that are added                       *)
  Positions,           (* the arguments of sub                             *)
  Escape,              (* what the json encoder writes for each byte       *)
  Quote,               (* and the quote around a string                    *)
  Junk,                (* what fresh memory holds                          *)
  MaxText, MaxFile     (* bounds on the lengths of the text and the file   *)

Buffers == [data : Blocks \cup {INITBUFF, OUTSIDE}, initb : {INITBUFF, NULL},
            n : Nat, capacity : Nat]

ASSUME BufferAssumption ==
  /\ NULL \notin Buffers
  /\ NULL \notin {INITBUFF, OUTSIDE} /\ INITBUFF # OUTSIDE
  /\ Blocks \cap {INITBUFF, OUTSIDE, NULL} = {}
  /\ INITIAL_BUFFER_SIZE \in Nat \ {0} /\ MaxText \in Nat /\ MaxFile \in Nat
  /\ Strings \subseteq Seq(Bytes) /\ Wrapped \subseteq Seq(Bytes)
  /\ Numbers \subseteq Int /\ Positions \subseteq Int
  /\ Escape \in [Bytes -> Seq(Bytes)] /\ Quote \in Bytes /\ Junk \in Bytes
  /\ \A c \in Bytes : Len(Escape[c]) <= 6

VARIABLES
  b,      (* the buffer, or NULL                                           *)
  mem,    (* what is stored where: nothing where the buffer has left       *)
  live,   (* the blocks that are allocated                                 *)
  did,    (* the last call, with its arguments and its result             *)
  damage, (* what running out of memory has broken: "none", "freed" (the   *)
          (* buffer points to data that are gone), "text" (bytes are       *)
          (* missing or beyond the end), "twice" (data freed again)        *)
  file    (* what has been written to a file                               *)

vars == <<b, mem, live, did, damage, file>>

bufferisdynamic == b.data # b.initb
bufferislite    == b.initb = NULL
Text            == [i \in 1 .. b.n |-> mem[b.data][i]]

Init ==
  /\ b = NULL
  /\ mem = [l \in Blocks \cup {INITBUFF, OUTSIDE} |-> <<>>] /\ live = {}
  /\ did = [call |-> "none"] /\ damage = "none" /\ file = <<>>

Usable     == b # NULL /\ damage = "none"
Did(name)  == did' = [call |-> name]
Added(s)   == did' = [call |-> "added", what |-> s]

(***************************************************************************)
(* Growing.  buf_prepsize doubles the capacity, or makes just enough room. *)
(* buf_resize gets memory from malloc, or from realloc, which may return   *)
(* the same block.                                                         *)
(***************************************************************************)
HasRoom(additional) == b.capacity - b.n >= additional
(* Mutant: without the case that twice the capacity is too little.         *)
NewSizeDoubled(additional) == 2 * b.capacity
NewSize(additional) ==
  IF 2 * b.capacity - b.n < additional THEN b.n + additional
                                       ELSE 2 * b.capacity

(* realloc keeps all that is stored, malloc is followed by a copy of the n *)
(* bytes in use.                                                           *)
(* Mutant: the first move to the heap forgets the copy.                    *)
KeptByRealloc == IF bufferisdynamic THEN b.capacity ELSE 0
Kept == IF bufferisdynamic THEN b.capacity ELSE b.n
Resized(newsize) ==
  [i \in 1 .. newsize |-> IF i <= Kept THEN mem[b.data][i] ELSE Junk]

(* The string s behind the n bytes in use.                                 *)
Written(cells, s) ==
  [i \in DOMAIN cells |-> IF b.n < i /\ i <= b.n + Len(s) THEN s[i - b.n]
                                                          ELSE cells[i]]

InPlace(s) ==
  /\ mem' = [mem EXCEPT ![b.data] = Written(@, s)]
  /\ b' = [b EXCEPT !.n = b.n + Len(s)]
  /\ UNCHANGED <<live, damage>>
Moved(newsize, s) ==
  \E block \in Blocks :
    /\ block \in live => block = b.data
    /\ mem' = [mem EXCEPT ![b.data] = <<>>,
                          ![block] = Written(Resized(newsize), s)]
    /\ live' = (live \ {b.data}) \cup {block}
    /\ b' = [b EXCEPT !.data = block, !.capacity = newsize,
                      !.n = b.n + Len(s)]
    /\ UNCHANGED damage

Grown(additional, s) ==
  \/ HasRoom(additional) /\ InPlace(s)
  \/ ~ HasRoom(additional) /\ Moved(NewSize(additional), s)

(* Without memory, the data in initb stay, and those on the heap are freed *)
(* although the buffer goes on pointing to them.                           *)
OutOfMemory ==
  /\ IF bufferisdynamic
       THEN /\ live' = live \ {b.data} /\ damage' = "freed"
            /\ mem' = [mem EXCEPT ![b.data] = <<>>]
       ELSE UNCHANGED <<live, damage, mem>>
  /\ UNCHANGED b

(***************************************************************************)
(* The operations.                                                         *)
(***************************************************************************)
buf_new ==
  /\ b = NULL /\ damage = "none" /\ Did("begin")
  /\ b' = [data |-> INITBUFF, initb |-> INITBUFF, n |-> 0,
           capacity |-> INITIAL_BUFFER_SIZE]
  /\ mem' = [mem EXCEPT ![INITBUFF] = [i \in 1 .. INITIAL_BUFFER_SIZE |-> Junk]]
  /\ UNCHANGED <<live, damage, file>>

buf_from_const(s) ==
  /\ b = NULL /\ damage = "none" /\ Did("begin")
  /\ b' = [data |-> OUTSIDE, initb |-> NULL, n |-> Len(s), capacity |-> Len(s)]
  /\ mem' = [mem EXCEPT ![OUTSIDE] = s]
  /\ UNCHANGED <<live, damage, file>>

(* An empty string does nothing.  r_lua_add, r_addint and r_addshort raise *)
(* an error in Lua when nothing is added.                                  *)
buf_addlstring(s) ==
  /\ Usable /\ b.n + Len(s) <= MaxText
  /\ \/ /\ bufferislite /\ Did("refused")
        /\ UNCHANGED <<b, mem, live, damage>>
     \/ /\ ~ bufferislite /\ s = <<>> /\ Added(s)
        /\ UNCHANGED <<b, mem, live, damage>>
     \/ ~ bufferislite /\ s # <<>> /\ Grown(Len(s), s) /\ Added(s)
     \/ /\ ~ bufferislite /\ ~ HasRoom(Len(s)) /\ OutOfMemory
        /\ Did("refused")
  /\ UNCHANGED file

r_addlstring(s) == buf_addlstring(s)
r_addint(i)     == buf_addlstring(int_to_string(i))
r_addshort(i)   == buf_addlstring(short_to_string(i))

(* addlstring_json reserves what the longest text needs, does not look     *)
(* whether it got it, and writes without checks; only the closing quote is *)
(* added with one, whose failure nobody reports.                           *)
JsonText(s) ==
  LET escaped[i \in 0 .. Len(s)] ==
        IF i = 0 THEN <<Quote>> ELSE escaped[i - 1] \o Escape[s[i]]
  IN  Append(escaped[Len(s)], Quote)
Reserved(s) == 2 + 6 * Len(s)

addlstring_json(s) ==
  /\ Usable /\ ~ bufferislite /\ b.n + Reserved(s) <= MaxText
  /\ \/ Grown(Reserved(s), JsonText(s))
     \/ /\ ~ HasRoom(Reserved(s)) /\ ~ bufferisdynamic
        /\ HasRoom(Len(JsonText(s)) - 1) /\ Grown(Len(JsonText(s)), JsonText(s))
     \/ ~ HasRoom(Reserved(s)) /\ bufferisdynamic /\ OutOfMemory
     \/ /\ ~ HasRoom(Reserved(s)) /\ ~ bufferisdynamic
        /\ ~ HasRoom(Len(JsonText(s)))
        /\ damage' = "text" /\ UNCHANGED <<b, mem, live>>
  /\ Added(JsonText(s)) /\ UNCHANGED file

buf_reset ==
  /\ Usable /\ ~ bufferislite
  /\ b' = [b EXCEPT !.n = 0] /\ Did("reset")
  /\ UNCHANGED <<mem, live, damage, file>>

(* buf_substring, from Lua with one index or two.                          *)
start(j) == LET k == IF j = 0 THEN 1 ELSE j
                m == IF k < 0 THEN b.n + k + 1 ELSE k
            IN  IF m < 1 THEN 1 ELSE m
finish(k) == LET m == IF k = 0 THEN b.n ELSE k
                 l == IF m < 0 THEN b.n + m + 1 ELSE m
             IN  IF l > b.n THEN b.n ELSE l
buf_substring(j, k) ==
  IF start(j) > finish(k) \/ start(j) > b.n THEN <<>>
  ELSE SubSeq(mem[b.data], start(j), finish(k))

r_buffsub ==
  /\ Usable
  /\ \E j \in Positions, k \in Positions \cup {b.n} :
       did' = [call |-> "cut", from |-> j, to |-> k,
               piece |-> buf_substring(j, k)]
  /\ UNCHANGED <<b, mem, live, damage, file>>

(* r_lua_writedata: nothing is written of an empty buffer, and when fwrite *)
(* fails some of the bytes may have been written.                          *)
r_lua_writedata ==
  /\ Usable /\ Len(file) + b.n <= MaxFile
  /\ \/ file' = file \o Text /\ Did("written")
     \/ /\ b.n > 0 /\ Did("unwritten")
        /\ \E i \in 0 .. b.n - 1 : file' = file \o SubSeq(mem[b.data], 1, i)
  /\ UNCHANGED <<b, mem, live, damage>>

(* Mutant: the two flags of a buffer are mixed up.                         *)
buffgcMixed ==
  /\ b # NULL /\ b' = NULL /\ Did("end")
  /\ IF bufferislite THEN live' = live \ {b.data} ELSE UNCHANGED live
  /\ mem' = [mem EXCEPT ![b.data] = <<>>] /\ UNCHANGED <<damage, file>>

(* buffgc frees the data that are on the heap, and the buffer.             *)
buffgc ==
  /\ b # NULL /\ b' = NULL /\ Did("end")
  /\ IF bufferisdynamic /\ ~ bufferislite
       THEN /\ live' = live \ {b.data}
            /\ damage' = IF b.data \in live THEN damage ELSE "twice"
       ELSE UNCHANGED <<live, damage>>
  /\ mem' = [mem EXCEPT ![b.data] = <<>>] /\ UNCHANGED file

Next ==
  \/ buf_new
  \/ \E s \in Wrapped : buf_from_const(s)
  \/ \E s \in Strings : r_addlstring(s) \/ addlstring_json(s)
  \/ \E i \in Numbers : r_addint(i) \/ r_addshort(i)
  \/ buf_reset \/ r_buffsub \/ r_lua_writedata \/ buffgc
Spec == Init /\ [][Next]_vars

(***************************************************************************)
(* What holds.                                                             *)
(***************************************************************************)
(* Types: the buffer, its text and what was written are made of bytes, and *)
(* every location holds some.                                              *)
TypeOK ==
  /\ b \in Buffers \cup {NULL}
  /\ mem \in [Blocks \cup {INITBUFF, OUTSIDE} -> Seq(Bytes)]
  /\ live \subseteq Blocks
  /\ damage \in {"none", "freed", "text", "twice"} /\ file \in Seq(Bytes)

(* The bytes in use lie within the capacity, and the capacity is what has  *)
(* been allocated, so that buf_prepsize may hand out a pointer behind them *)
(* (buf_resize, buf_prepsize, addlstring_json); what buf_prepsize computes *)
(* from them is right only then, as the difference is unsigned.            *)
Fits ==
  Usable => b.n <= b.capacity /\ b.capacity = Len(mem[b.data])

(* What is allocated is what the buffer points to and nothing else: no     *)
(* block is lost when it moves, when it is collected, or when it wraps     *)
(* bytes of somebody else, which are never freed (buf_resize, buf_free).   *)
NothingLeaks ==
  damage = "none" =>
    live = IF b # NULL /\ b.data \in Blocks THEN {b.data} ELSE {}

(* A buffer that wraps bytes of somebody else has no storage of its own.   *)
LiteOutside == b # NULL => (bufferislite <=> b.data = OUTSIDE)

(* What the calls rely on and keep. *)
IInv == TypeOK /\ Fits /\ NothingLeaks /\ LiteOutside

(* A buffer is a text: every addition appends wholly or, with an error,    *)
(* not at all, whatever was moved to make room (buf_addlstring, buf_sub-   *)
(* string, buf_write); when memory ran out the buffer is lost.             *)
Condition == IF damage # "none" THEN "lost"
             ELSE IF b = NULL THEN "none"
             ELSE IF bufferislite THEN "wrapped" ELSE "buffer"
Content   == IF b = NULL \/ damage # "none" THEN <<>> ELSE Text
Abstract  == INSTANCE BufferSpec WITH
               Byte <- Bytes, state <- Condition, text <- Content
Implements == Abstract!Spec

==============================================================================

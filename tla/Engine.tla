------------------------------- MODULE Engine -------------------------------
(***************************************************************************)
(* One engine of librosie/librosie.c and the threads that call it.         *)
(*                                                                         *)
(* An engine is a Lua state behind a lock.  Its functions take the lock,   *)
(* work on the Lua stack, call Lua code, and on every way out empty the    *)
(* stack and release the lock.  Compiled patterns (RPLX objects) live in   *)
(* the Lua table rplx_table, where luaL_ref and luaL_unref keep a list of  *)
(* free slots; the client gets the index.  A match result points into the  *)
(* buffer of the pattern, which belongs to the RPLX object.                *)
(*                                                                         *)
(* What Lua code (not in this repository) computes is left open, except    *)
(* that it may fail, collect garbage, and create an RPLX object.           *)
(*                                                                         *)
(* Clients keep to what librosie.c and lib.rs ask of them: a pattern is    *)
(* freed once and not used after that; its match result is given up before *)
(* the next match with it; rosie_finalize is the last call.                *)
(***************************************************************************)
EXTENDS Naturals, Sequences

CONSTANTS
  Threads,
  Objects,      (* the RPLX objects that may exist                         *)
  NULL,
  Ops,          (* the calls that clients make                             *)
  MaxCalls,     (* bound on the calls of a thread                          *)
  MaxBlock,     (* bound on the reallocations of a buffer                  *)
  LuaOutput     (* whether the output of an encoder written in Lua "fits"  *)
                (* the buffer, or it "grows"                               *)

AllOps == {"compile", "free_rplx", "match", "trace", "matchfile",
           "alloc_limit", "config", "libpath", "load", "loadfile", "import",
           "syntax_op", "read_rcfile", "execute_rcfile", "finalize"}

(* A call: the pattern it is about or 0, and what of its arguments decides *)
(* which way it takes.                                                     *)
Requests == [op : AllOps, pat : Nat, arg : {"expression", "noexpression",
  "nopat", "c", "status", "lua", "style", "nostyle", "query", "zero", "low",
  "high", "none"}]

ASSUME EngineAssumption ==
  /\ NULL \notin Threads \cup Objects \cup Requests
  /\ Objects \cap Nat = {}
  /\ Ops \subseteq AllOps
  /\ MaxCalls \in Nat /\ MaxBlock \in Nat
  /\ LuaOutput \subseteq {"fits", "grows"}

Limits == {0, 1}     (* unlimited, or a limit that is accepted             *)

VARIABLES
  lock,         (* who holds the mutex, or NULL                            *)
  closed,       (* rosie_finalize has closed the Lua state                 *)
  L,            (* the Lua stack, bottom first                             *)
  rplx,         (* rplx_table[1 ..]: objects, and links between free slots *)
  freelist,     (* rplx_table[0], the first free slot or 0                 *)
  heap,         (* the RPLX objects that are not collected                 *)
  buf,          (* their output buffers: which block the data are in, and  *)
                (* the thread whose match wrote it                         *)
  limit,        (* alloc_set_limit                                         *)
  pc, call, out,(* of each thread: where it is, its call, what it returns  *)
  calls,
  names,        (* client: the pairs <<index, object>> it may use          *)
  results       (* client: the match results that it holds                 *)

lua    == <<L, rplx, freelist, heap, buf, limit>>
table  == <<rplx, freelist>>
client == <<calls, names, results>>
vars   == <<lock, closed, lua, pc, call, out, client>>

Quiet == [rc |-> "SUCCESS", messages |-> "kept", pat |-> 0, obj |-> NULL,
          data |-> NULL]

Init ==
  /\ lock = NULL /\ closed = FALSE
  /\ L = <<>> /\ rplx = <<>> /\ freelist = 0 /\ heap = {}
  /\ buf = [o \in Objects |-> [block |-> 0, by |-> NULL]]
  /\ limit = 0
  /\ pc = [t \in Threads |-> "idle"]
  /\ call = [t \in Threads |-> NULL]
  /\ out = [t \in Threads |-> Quiet]
  /\ calls = [t \in Threads |-> 0]
  /\ names = {} /\ results = {}

----------------------------------------------------------------------------
(* Clients                                                                 *)

PatternOps == {"free_rplx", "match", "trace", "matchfile"}
Args(op) ==
  CASE op = "compile"     -> {"expression", "noexpression", "nopat"}
    [] op = "match"       -> {"c", "status", "lua"}
    [] op \in {"trace", "matchfile"} -> {"style", "nostyle"}
    [] op = "alloc_limit" -> {"query", "zero", "low", "high"}
    [] OTHER              -> {"none"}

(* No call and no result involves the pattern.                             *)
Unused(i) ==
  /\ \A u \in Threads : call[u] # NULL => call[u].pat # i
  /\ \A r \in results : r.pat # i

InCall == {t \in Threads : call[t] # NULL}

Begin(t, op, i, arg) ==
  /\ call[t] = NULL /\ calls[t] < MaxCalls
  /\ i # 0 => op \in PatternOps /\ Unused(i) /\ \E n \in names : n[1] = i
  /\ \A u \in InCall : call[u].op # "finalize"
  /\ op = "finalize" => InCall = {} /\ results = {}
  /\ call' = [call EXCEPT ![t] = [op |-> op, pat |-> i, arg |-> arg]]
  /\ pc' = [pc EXCEPT ![t] = "called"]
  /\ out' = [out EXCEPT ![t] = Quiet]
  /\ calls' = [calls EXCEPT ![t] = @ + 1]
  /\ names' = IF op = "free_rplx" THEN {n \in names : n[1] # i} ELSE names
  /\ UNCHANGED <<lock, closed, lua, results>>

Examine(t) ==
  \E r \in results :
    /\ r.by = t
    /\ results' = results \ {r}
    /\ UNCHANGED <<lock, closed, lua, pc, call, out, calls, names>>

----------------------------------------------------------------------------
(* The ways in and out                                                     *)

Go(t, to) == pc' = [pc EXCEPT ![t] = to]

Return(t, values) ==
  /\ Go(t, "idle")
  /\ call' = [call EXCEPT ![t] = NULL]
  /\ out' = [out EXCEPT ![t] = values]

At(t, place)   == pc[t] = place /\ lock = t
Locked(t, op)  == pc[t] = "called" /\ call[t].op = op /\ lock = NULL
Acquire(t, to) == lock' = t /\ Go(t, to) /\ UNCHANGED call

(* Mutants: a way out that leaves the Lua stack as it is; one that keeps   *)
(* the lock.                                                               *)
LeaveDirty(t, values) ==
  /\ lock' = NULL
  /\ Return(t, values)
  /\ UNCHANGED L
LeaveLocked(t, values) ==
  /\ Return(t, values)
  /\ L' = <<>>
  /\ lock' = IF values.rc = "ERR" THEN t ELSE NULL

(* lua_settop(L, 0); RELEASE_ENGINE_LOCK(e); return                        *)
Leave(t, values) ==
  /\ L' = <<>>
  /\ lock' = NULL
  /\ Return(t, values)

Failed(t)     == [out[t] EXCEPT !.rc = "ERR"]
Reports(t, m) == [out[t] EXCEPT !.messages = m]
Used(t, o)    == [out[t] EXCEPT !.obj = o]

(* What to_json_string makes of a table that it can convert.               *)
Json == {"null", "json"}

Stored    == {rplx[k] : k \in DOMAIN rplx} \cap Objects
Reachable == Stored \cup ({L[k] : k \in DOMAIN L} \cap Objects)

collect_if_needed ==
  heap' \in IF limit = 0 THEN {heap} ELSE {heap, heap \cap Reachable}

(* Lua collects garbage when it likes to.                                  *)
LuaCollects(t) ==
  /\ lock = t /\ pc[t] \in {"compiling", "encoding", "tracing", "lua"}
  /\ heap' = heap \cap Reachable /\ heap' # heap
  /\ UNCHANGED <<lock, closed, L, table, buf, limit, pc, call, out, client>>

----------------------------------------------------------------------------
(* rosie_compile                                                           *)

CompileNothing(t) ==
  /\ pc[t] = "called" /\ call[t].op = "compile"
  /\ call[t].arg = "noexpression"
  /\ Return(t, Failed(t))
  /\ UNCHANGED <<lock, closed, lua, client>>

CompileNowhere(t) ==
  /\ Locked(t, "compile") /\ call[t].arg = "nopat"
  /\ Leave(t, Failed(t))
  /\ UNCHANGED <<closed, table, heap, buf, limit, client>>

Compile(t) ==
  /\ Locked(t, "compile") /\ call[t].arg = "expression"
  /\ Acquire(t, "compiling")
  /\ L' = L \o <<"rplx_table", "compile", "engine", "expression">>
  /\ UNCHANGED <<closed, table, heap, buf, limit, out, client>>

(* The compile function of the engine returns an RPLX object, or false, and *)
(* messages.                                                               *)
CompileCall(t) ==
  /\ At(t, "compiling")
  /\ UNCHANGED <<closed, table, limit, client>>
  /\ LET below == SubSeq(L, 1, Len(L) - 3) IN
     \/ Leave(t, Failed(t)) /\ UNCHANGED <<heap, buf>>
     \/ /\ L' = below \o <<"false", "messages">>
        /\ Go(t, "violations")
        /\ UNCHANGED <<lock, call, out, heap, buf>>
     \/ \E o \in Objects \ heap :
          /\ L' = below \o <<o, "messages">>
          /\ heap' = heap \cup {o}
          /\ buf' = [buf EXCEPT ![o] = [block |-> 0, by |-> NULL]]
          /\ Go(t, "ref")
          /\ UNCHANGED <<lock, call, out>>

CompileViolations(t) ==
  /\ At(t, "violations")
  /\ \/ \E m \in Json : Leave(t, Reports(t, m))
     \/ Leave(t, [Failed(t) EXCEPT !.messages = "text"])
  /\ UNCHANGED <<closed, table, heap, buf, limit, client>>

luaL_ref(o) ==
  IF freelist # 0
  THEN /\ rplx' = [rplx EXCEPT ![freelist] = o]
       /\ freelist' = rplx[freelist]
  ELSE /\ rplx' = Append(rplx, o)
       /\ UNCHANGED freelist

(* Mutant: the index is taken to be that of a new slot.                    *)
CompileRefLast(t) ==
  /\ At(t, "ref") /\ L[1] = "rplx_table"
  /\ luaL_ref(L[Len(L) - 1])
  /\ out' = [out EXCEPT
       ![t].pat = Len(rplx) + 1, ![t].obj = L[Len(L) - 1]]
  /\ Go(t, "warnings")
  /\ UNCHANGED <<lock, closed, L, heap, buf, limit, call, client>>

CompileRef(t) ==
  /\ At(t, "ref") /\ L[1] = "rplx_table"
  /\ luaL_ref(L[Len(L) - 1])
  /\ out' = [out EXCEPT
       ![t].pat = IF freelist # 0 THEN freelist ELSE Len(rplx) + 1,
       ![t].obj = L[Len(L) - 1]]
  /\ Go(t, "warnings")
  /\ UNCHANGED <<lock, closed, L, heap, buf, limit, call, client>>

(* The client takes the index, also from a call that fails now.            *)
CompileWarnings(t) ==
  /\ At(t, "warnings")
  /\ \/ \E m \in Json : Leave(t, Reports(t, m))
     \/ Leave(t, Failed(t))
  /\ names' = names \cup {<<out[t].pat, out[t].obj>>}
  /\ UNCHANGED <<closed, table, heap, buf, limit, calls, results>>

----------------------------------------------------------------------------
(* rosie_free_rplx                                                         *)

(* Mutant: nil is stored in the slot.                                      *)
luaL_unrefNil(i) ==
  /\ rplx' = IF i = 0 THEN rplx ELSE [rplx EXCEPT ![i] = NULL]
  /\ freelist' = i

luaL_unref(i) ==
  /\ rplx' = IF i = 0 THEN rplx ELSE [rplx EXCEPT ![i] = freelist]
  /\ freelist' = i

(* Mutants: the pattern is freed twice, or not at all.                     *)
free_rplxTwice(t) ==
  /\ Locked(t, "free_rplx")
  /\ \E i \in {call[t].pat} :
       /\ rplx' = IF i = 0 THEN rplx ELSE [rplx EXCEPT ![i] = i]
       /\ freelist' = i
  /\ Leave(t, out[t])
  /\ UNCHANGED <<closed, heap, buf, limit, client>>
free_rplxNever(t) ==
  /\ Locked(t, "free_rplx")
  /\ Leave(t, out[t])
  /\ UNCHANGED <<closed, table, heap, buf, limit, client>>

free_rplx(t) ==
  /\ Locked(t, "free_rplx")
  /\ luaL_unref(call[t].pat)
  /\ Leave(t, out[t])
  /\ UNCHANGED <<closed, heap, buf, limit, client>>

----------------------------------------------------------------------------
(* rosie_match2                                                            *)

Found(i) == i \in DOMAIN rplx /\ rplx[i] \in Objects

(* ERR_NO_PATTERN                                                          *)
MatchNoPattern(t) ==
  /\ Locked(t, "match") /\ ~Found(call[t].pat)
  /\ collect_if_needed
  /\ Leave(t, out[t])
  /\ UNCHANGED <<closed, table, buf, limit, client>>

(* lookup_encoder fails.                                                   *)
MatchNoEncoder(t) ==
  /\ Locked(t, "match") /\ Found(call[t].pat) /\ call[t].arg = "lua"
  /\ collect_if_needed
  /\ Leave(t, Failed(t))
  /\ UNCHANGED <<closed, table, buf, limit, client>>

match(t) ==
  /\ Locked(t, "match") /\ Found(call[t].pat)
  /\ collect_if_needed
  /\ Acquire(t, "matching")
  /\ L' = L \o <<"rplx_table", rplx[call[t].pat], "encoder">>
  /\ UNCHANGED <<closed, table, buf, limit, out, client>>

(* The buffer of o is reset; it is written, in this block or a new one.    *)
Reset(o)      == buf' = [buf EXCEPT ![o].by = NULL]
Writes(t, o, b) ==
  b <= MaxBlock /\ buf' = [buf EXCEPT ![o] = [block |-> b, by |-> t]]

(* Mutant: the pointer is copied before the encoder has run.               *)
PointerBefore(o, b) == buf[o].block

(* The pointer that is copied from the buffer.                             *)
Pointer(o, b) == b

(* The client gets pointer and length.                                     *)
Delivers(t, values) ==
  /\ Leave(t, values)
  /\ results' = results \cup {[pat |-> call[t].pat, obj |-> values.obj,
                               block |-> values.data, by |-> t]}

(* r_match_C2 on the pattern at index 2 of the stack                       *)
MatchRun(t) ==
  /\ At(t, "matching")
  /\ UNCHANGED <<closed, table, heap, limit, calls, names>>
  /\ LET o == L[2] IN
     \/ Reset(o) /\ Leave(t, [Used(t, o) EXCEPT !.rc = "ERR"])
        /\ UNCHANGED results
     \/ Reset(o) /\ Leave(t, Used(t, o)) /\ UNCHANGED results
     \/ /\ call[t].arg # "status"
        /\ \E b \in {buf[o].block, buf[o].block + 1} :
             /\ Writes(t, o, b)
             /\ LET found == [Used(t, o) EXCEPT !.data = Pointer(o, b)] IN
                \/ call[t].arg = "c" /\ Delivers(t, found)
                \/ /\ call[t].arg = "lua"
                   /\ Go(t, "encoding")
                   /\ out' = [out EXCEPT ![t] = found]
                   /\ L' = <<L[1], o, "encoder", "output", "input", "startpos",
                             "parms">>
                   /\ UNCHANGED <<lock, call, results>>

(* Mutant: a match whose encoder failed is tried again.                    *)
MatchEncodeRetrying(t) ==
  /\ At(t, "encoding")
  /\ Go(t, "matching")
  /\ L' = SubSeq(L, 1, 3)
  /\ UNCHANGED <<lock, closed, table, heap, buf, limit, call, out, client>>

(* The encoder fails, reports ERR_NO_ENCODER, or returns a string, which   *)
(* is copied to the buffer; only the length in the result is updated.      *)
MatchEncode(t) ==
  /\ At(t, "encoding")
  /\ UNCHANGED <<closed, table, heap, limit, calls, names>>
  /\ \/ Leave(t, Failed(t)) /\ UNCHANGED <<buf, results>>
     \/ Leave(t, [out[t] EXCEPT !.data = NULL]) /\ UNCHANGED <<buf, results>>
     \/ \E g \in LuaOutput :
          /\ Writes(t, out[t].obj,
                    IF g = "grows" THEN out[t].data + 1 ELSE out[t].data)
          /\ Delivers(t, out[t])

----------------------------------------------------------------------------
(* rosie_trace, rosie_matchfile                                            *)

TraceNothing(t) ==
  /\ \E op \in {"trace", "matchfile"} : Locked(t, op)
  /\ collect_if_needed
  /\ ~Found(call[t].pat) \/ call[t].arg = "nostyle"
  /\ Leave(t, out[t])
  /\ UNCHANGED <<closed, table, buf, limit, client>>

trace(t) ==
  /\ \E op \in {"trace", "matchfile"} : Locked(t, op)
  /\ collect_if_needed
  /\ Found(call[t].pat) /\ call[t].arg = "style"
  /\ Acquire(t, "tracing")
  /\ L' = L \o <<"function", "engine", rplx[call[t].pat]>>
  /\ UNCHANGED <<closed, table, buf, limit, out, client>>

TraceCall(t) ==
  /\ At(t, "tracing")
  /\ \E o \in {L[3]} :
       /\ Reset(o)
       /\ Leave(t, Used(t, o)) \/ Leave(t, [Used(t, o) EXCEPT !.rc = "ERR"])
  /\ UNCHANGED <<closed, table, heap, limit, client>>

----------------------------------------------------------------------------
(* rosie_alloc_limit: two full collections; a limit that is too small is   *)
(* refused, without lua_settop.                                            *)
alloc_limit(t) ==
  /\ Locked(t, "alloc_limit")
  /\ heap' = heap \cap Reachable
  /\ \/ call[t].arg = "low" /\ Return(t, Failed(t))
        /\ UNCHANGED <<lock, L, limit>>
     \/ call[t].arg = "query" /\ UNCHANGED limit /\ Leave(t, out[t])
     \/ call[t].arg = "zero" /\ limit' = 0 /\ Leave(t, out[t])
     \/ call[t].arg = "high" /\ limit' = 1 /\ Leave(t, out[t])
  /\ UNCHANGED <<closed, table, buf, client>>

----------------------------------------------------------------------------
(* Calls that only run a Lua function: how they enter, and how they report *)

LuaOps == {"config", "libpath", "load", "loadfile", "import", "syntax_op",
           "read_rcfile", "execute_rcfile"}

(* rosie_syntax_op replaces the value at index 1 by the function.          *)
syntax_op_stack ==
  [L \o <<"nil", "engine">> EXCEPT ![1] = "function"] \o <<"input">>

LuaCall(t) ==
  /\ \E op \in LuaOps :
       /\ Locked(t, op)
       /\ L' = IF op = "syntax_op" THEN syntax_op_stack
               ELSE L \o <<"engine", "function", "arguments">>
  /\ Acquire(t, "lua")
  /\ UNCHANGED <<closed, table, heap, buf, limit, out, client>>

Says(t, rc, m) == Leave(t, [out[t] EXCEPT !.rc = rc, !.messages = m])
Converts(t)    == \E m \in Json : Says(t, "SUCCESS", m)

\* rosie_config: the call or the conversion of its value may fail
config(t)  == Leave(t, out[t]) \/ Leave(t, Failed(t))
libpath(t) == Leave(t, out[t]) \/ Leave(t, Failed(t))
\* rosie_load reports success also when the conversion fails.
load(t) ==
  Says(t, "ERR", "text") \/ Converts(t) \/ Says(t, "SUCCESS", "text")
loadfile(t) == Leave(t, Failed(t)) \/ Converts(t)
import(t)   == Leave(t, Failed(t)) \/ Converts(t)
\* Mutant: the messages stay when the conversion of the result fails.
syntax_opKeeping(t) ==
  \/ Leave(t, Failed(t)) \/ Leave(t, out[t])
  \/ Converts(t) \/ \E m \in Json : Says(t, "ERR", m)
\* No messages, or converted ones; then the result is converted.
syntax_op(t) ==
  \/ Leave(t, Failed(t)) \/ Leave(t, out[t])
  \/ Converts(t) \/ Says(t, "ERR", "text")
\* The conversion of the options may fail; that of the messages is reported
\* as a success.
read_rcfile(t) ==
  \/ Leave(t, Failed(t)) \/ Leave(t, out[t])
  \/ Converts(t) \/ Says(t, "SUCCESS", "text")
execute_rcfile(t) ==
  \/ Leave(t, Failed(t)) \/ Leave(t, out[t])
  \/ Converts(t) \/ Says(t, "ERR", "text")

LuaReturn(t) ==
  /\ At(t, "lua")
  /\ \/ call[t].op = "config"         /\ config(t)
     \/ call[t].op = "libpath"        /\ libpath(t)
     \/ call[t].op = "load"           /\ load(t)
     \/ call[t].op = "loadfile"       /\ loadfile(t)
     \/ call[t].op = "import"         /\ import(t)
     \/ call[t].op = "syntax_op"      /\ syntax_op(t)
     \/ call[t].op = "read_rcfile"    /\ read_rcfile(t)
     \/ call[t].op = "execute_rcfile" /\ execute_rcfile(t)
  /\ UNCHANGED <<closed, table, heap, buf, limit, client>>

----------------------------------------------------------------------------
(* rosie_finalize closes the Lua state and frees the engine with the lock  *)
(* in it, which it does not release.                                       *)
finalize(t) ==
  /\ Locked(t, "finalize")
  /\ lock' = t /\ closed' = TRUE
  /\ L' = <<>> /\ heap' = {}
  /\ Return(t, out[t])
  /\ UNCHANGED <<table, buf, limit, client>>

Step(t) ==
  \/ CompileNothing(t) \/ CompileNowhere(t) \/ Compile(t) \/ CompileCall(t)
  \/ CompileViolations(t) \/ CompileRef(t) \/ CompileWarnings(t)
  \/ free_rplx(t)
  \/ MatchNoPattern(t) \/ MatchNoEncoder(t) \/ match(t) \/ MatchRun(t)
  \/ MatchEncode(t)
  \/ TraceNothing(t) \/ trace(t) \/ TraceCall(t)
  \/ alloc_limit(t) \/ LuaCall(t) \/ LuaReturn(t) \/ finalize(t)

(* No thread calls any more.                                               *)
Rest == InCall = {} /\ UNCHANGED vars

Next ==
  \/ \E t \in Threads :
       \/ /\ ~closed
          /\ \E op \in Ops : \E i \in {0} \cup {n[1] : n \in names} :
             \E arg \in Args(op) : Begin(t, op, i, arg)
       \/ Examine(t) \/ LuaCollects(t) \/ Step(t)
  \/ Rest
Spec == Init /\ [][Next]_vars /\ \A t \in Threads : WF_vars(Step(t))

----------------------------------------------------------------------------
(* Properties                                                              *)

Slots == 1 .. Len(rplx)
Free  == {i \in Slots : rplx[i] \notin Objects}
Table == {<<i, rplx[i]>> : i \in Slots \ Free}

(* What is on the Lua stack, other than RPLX objects.                      *)
Words == {"rplx_table", "compile", "engine", "expression", "false",
  "messages", "encoder", "output", "input", "startpos", "parms", "function",
  "nil", "arguments"}

(* The places where a thread holds the lock.                               *)
Inside == {"compiling", "violations", "ref", "warnings", "matching",
           "encoding", "tracing", "lua"}

Places == {"idle", "called"} \cup Inside
Outcomes == [rc : {"SUCCESS", "ERR"}, messages : {"kept", "null", "json",
  "text"}, pat : Nat, obj : Objects \cup {NULL}, data : Nat \cup {NULL}]

(* Every variable has its type.                                            *)
TypeOK ==
  /\ lock \in Threads \cup {NULL} /\ closed \in BOOLEAN
  /\ L \in Seq(Objects \cup Words)
  /\ rplx \in Seq(Objects \cup Nat) /\ freelist \in Nat
  /\ heap \subseteq Objects
  /\ buf \in [Objects -> [block : Nat, by : Threads \cup {NULL}]]
  /\ limit \in Limits
  /\ pc \in [Threads -> Places]
  /\ call \in [Threads -> Requests \cup {NULL}]
  /\ out \in [Threads -> Outcomes]
  /\ calls \in [Threads -> Nat]
  /\ names \subseteq Nat \X Objects
  /\ results \subseteq [pat : Nat, obj : Objects, block : Nat, by : Threads]

(* One thread at a time is inside the Lua state, and a lock that is held   *)
(* is held by it or by the thread that closed the engine.                  *)
Exclusive ==
  \A t \in Threads : lock = t /\ ~closed <=> pc[t] \in Inside

(* The code addresses the Lua stack from its bottom: index 1 is the table  *)
(* when luaL_ref stores a pattern, index 2 the pattern of the client's     *)
(* index when a match runs, and rosie_syntax_op finds three values.  So    *)
(* every call must find the stack empty, whatever went wrong before.       *)
StackInPlace ==
  /\ lock = NULL => L = <<>>
  /\ \A t \in Threads :
       /\ pc[t] = "ref" => L[1] = "rplx_table"
       /\ pc[t] = "matching" => <<call[t].pat, L[2]>> \in names
       /\ pc[t] = "lua" => Len(L) = 3      \* asserted by rosie_syntax_op

(* Between the calls the table holds what the clients have an index of,    *)
(* each index naming the pattern it was returned for: nothing is lost when *)
(* a call fails and no index is given out twice.                           *)
Leaving == {call[t].pat : t \in {u \in InCall : call[u].op = "free_rplx"}}
NamesKept ==
  lock = NULL =>
    /\ names \subseteq Table
    /\ \A e \in Table \ names : e[1] \in Leaving
    /\ \A e, f \in Table : e[2] = f[2] => e[1] = f[1]

(* The list of free slots never leads to a slot in use and never meets a   *)
(* slot twice, so luaL_ref does not hand an index out again.               *)
FreeListSound ==
  /\ freelist \in Free \cup {0}
  /\ \A i \in Free :
       /\ rplx[i] \in Free \cup {0}
       /\ rplx[i] = freelist => freelist = 0
       /\ \A j \in Free : rplx[i] = rplx[j] => i = j \/ rplx[i] = 0

(* What a client was given of a match is still in the buffer it points     *)
(* into, as it was written, until the client is done with it.              *)
ResultsIntact ==
  \A r \in results :
    r.obj \in heap /\ buf[r.obj] = [block |-> r.block, by |-> r.by]

(* The overview in librosie.c, point (3): the messages of a call that      *)
(* failed are text for people.                                             *)
ErrorsAreText ==
  \A t \in Threads : out[t].rc = "ERR" => out[t].messages # "json"

(* Every call returns.                                                     *)
CallsReturn == \A t \in Threads : call[t] # NULL ~> call[t] = NULL

----------------------------------------------------------------------------
(* The inductive invariant: why the safety properties above hold.          *)

(* The place of a thread fits its call; rosie_finalize is alone.           *)
PlaceInv ==
  /\ \A t \in Threads :
       /\ call[t] = NULL <=> pc[t] = "idle"
       /\ pc[t] \in {"compiling", "violations", "ref", "warnings"} =>
            call[t].op = "compile"
       /\ pc[t] \in {"matching", "encoding"} => call[t].op = "match"
       /\ pc[t] = "tracing" => call[t].op \in {"trace", "matchfile"}
       /\ pc[t] = "lua" => call[t].op \in LuaOps
       /\ call[t] # NULL /\ call[t].op = "finalize" =>
            results = {} /\ \A u \in Threads \ {t} : call[u] = NULL
  /\ closed =>
       lock # NULL /\ results = {} /\ \A t \in Threads : call[t] = NULL

(* What a call that holds the lock relies on.                              *)
StackInv ==
  /\ lock = NULL => L = <<>>
  /\ \A t \in Threads :
       /\ pc[t] = "compiling" => Len(L) = 4 /\ L[1] = "rplx_table"
       /\ pc[t] = "ref" =>
            Len(L) = 3 /\ L[1] = "rplx_table" /\ L[2] \in heap \ Stored
       /\ pc[t] = "matching" => Len(L) = 3 /\ <<call[t].pat, L[2]>> \in names
       /\ pc[t] = "encoding" =>
            /\ <<call[t].pat, out[t].obj>> \in names
            /\ buf[out[t].obj] = [block |-> out[t].data, by |-> t]
       /\ pc[t] = "tracing" => Len(L) = 3 /\ <<call[t].pat, L[3]>> \in names
       /\ pc[t] = "lua" => Len(L) = 3

(* Who refers to a slot in use: a client that may use it, a call that      *)
(* frees it, or the compilation that stored it; no two calls use the same. *)
Filled == Slots \ Free
TableInv ==
  /\ \A n \in names : n[1] \in Filled /\ n[2] = rplx[n[1]]
  /\ \A t \in Threads : call[t] # NULL /\ call[t].pat # 0 =>
       /\ call[t].pat \in Filled
       /\ (\E n \in names : n[1] = call[t].pat) <=> call[t].op # "free_rplx"
       /\ \A u \in Threads :
            call[u] # NULL /\ call[u].pat = call[t].pat => u = t
  /\ \A t \in Threads : pc[t] = "warnings" =>
       /\ out[t].pat \in Filled /\ out[t].obj = rplx[out[t].pat]
       /\ \A n \in names : n[1] # out[t].pat
       /\ \A u \in Threads : call[u] # NULL => call[u].pat # out[t].pat
  /\ \A i \in Filled :
       \/ \E n \in names : n[1] = i
       \/ \E t \in Threads :
            call[t] # NULL /\ call[t].op = "free_rplx" /\ call[t].pat = i
       \/ \E t \in Threads : pc[t] = "warnings" /\ out[t].pat = i
  /\ \A i, j \in Filled : rplx[i] = rplx[j] => i = j
  /\ ~closed => Stored \subseteq heap

(* A result is of a pattern that no call uses.  If the output of encoders  *)
(* written in Lua fits, it is in its buffer.                               *)
ResultsInv ==
  \A r \in results :
    /\ <<r.pat, r.obj>> \in names
    /\ \A u \in Threads : call[u] # NULL => call[u].pat # r.pat
    /\ "grows" \notin LuaOutput =>
         buf[r.obj] = [block |-> r.block, by |-> r.by]

(* What a call would return now: it has nothing to report until it leaves, *)
(* and no pattern but the one it has stored or matched.                    *)
OutInv ==
  \A t \in Threads :
    /\ pc[t] # "idle" => out[t].rc = "SUCCESS" /\ out[t].messages = "kept"
    /\ pc[t] \notin {"idle", "warnings"} => out[t].pat = 0
    /\ pc[t] \notin {"idle", "warnings", "encoding"} => out[t].obj = NULL

IInv ==
  /\ TypeOK /\ Exclusive /\ PlaceInv /\ StackInv
  /\ FreeListSound /\ TableInv /\ ResultsInv

----------------------------------------------------------------------------
(* The engine implements EngineSpec.  A call takes effect when it returns: *)
(* until then the pattern that a compilation has stored is not in the      *)
(* table.                                                                  *)
Storing  == {out[t].pat : t \in {u \in Threads : pc[u] = "warnings"}}
Patterns == {e \in Table : e[1] \notin Storing}
Reply    == [t \in Threads |->
               IF call[t] = NULL THEN [pat |-> out[t].pat, obj |-> out[t].obj]
               ELSE NULL]

Atomic == INSTANCE EngineSpec WITH
  Indices   <- Nat \ {0},
  patterns  <- Patterns,
  finalized <- closed,
  pending   <- call,
  reply     <- Reply
CallsAtomic == Atomic!Spec
=============================================================================

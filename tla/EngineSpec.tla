----------------------------- MODULE EngineSpec -----------------------------
(***************************************************************************)
(* What an engine promises its clients: a table of compiled patterns and   *)
(* an allocation limit, on which every call takes effect alone, at one     *)
(* moment between the call and its return.                                 *)
(***************************************************************************)
CONSTANTS
  Threads,
  Objects,    (* compiled patterns                                         *)
  Indices,    (* what a client gets for them                               *)
  Limits,
  NULL

VARIABLES
  patterns,   (* the pairs <<index, object>> of the table                  *)
  limit,
  finalized,
  pending,    (* the call each thread is in, or NULL                       *)
  reply       (* what its last call returned, NULL during a call           *)

vars == <<patterns, limit, finalized, pending, reply>>

Nothing == [pat |-> 0, obj |-> NULL]

Init ==
  /\ patterns = {} /\ limit = 0 /\ finalized = FALSE
  /\ pending = [t \in Threads |-> NULL]
  /\ reply = [t \in Threads |-> Nothing]

Call(t) ==
  /\ pending[t] = NULL /\ pending'[t] # NULL
  /\ pending' = [pending EXCEPT ![t] = pending'[t]]
  /\ reply' = [reply EXCEPT ![t] = NULL]
  /\ UNCHANGED <<patterns, limit, finalized>>

Return(t, value) ==
  /\ pending[t] # NULL
  /\ pending' = [pending EXCEPT ![t] = NULL]
  /\ reply' = [reply EXCEPT ![t] = value]

(* A call that fails, or that leaves the table and the limit alone.        *)
Without(t) ==
  /\ Return(t, Nothing)
  /\ pending[t].op # "free_rplx"
  /\ UNCHANGED <<patterns, limit, finalized>>

(* The client gets a new index for a new pattern.                          *)
Compile(t) ==
  LET i == reply'[t].pat
      o == reply'[t].obj
  IN  /\ pending[t].op = "compile" /\ pending'[t] = NULL
      /\ i \in Indices /\ o \in Objects
      /\ \A e \in patterns : e[1] # i /\ e[2] # o
      /\ patterns' = patterns \cup {<<i, o>>}
      /\ Return(t, [pat |-> i, obj |-> o])
      /\ UNCHANGED <<limit, finalized>>

Free(t) ==
  /\ pending[t].op = "free_rplx"
  /\ patterns' = {e \in patterns : e[1] # pending[t].pat}
  /\ Return(t, Nothing)
  /\ UNCHANGED <<limit, finalized>>

(* rosie_match, rosie_trace, rosie_matchfile                               *)
Use(t) ==
  \E e \in patterns :
    /\ pending[t].op \in {"match", "trace", "matchfile"}
    /\ e[1] = pending[t].pat
    /\ Return(t, [pat |-> 0, obj |-> e[2]])
    /\ UNCHANGED <<patterns, limit, finalized>>

SetLimit(t) ==
  /\ pending[t].op = "alloc_limit"
  /\ limit' \in Limits
  /\ Return(t, Nothing)
  /\ UNCHANGED <<patterns, finalized>>

Finalize(t) ==
  /\ pending[t].op = "finalize"
  /\ finalized' = TRUE
  /\ Return(t, Nothing)
  /\ UNCHANGED <<patterns, limit>>

Next == \E t \in Threads :
  \/ Call(t)
  \/ pending[t] # NULL /\ ( \/ Without(t) \/ Compile(t) \/ Free(t)
                            \/ Use(t) \/ SetLimit(t) \/ Finalize(t) )
Spec == Init /\ [][Next]_vars
=============================================================================

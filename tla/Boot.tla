-------------------------------- MODULE Boot --------------------------------
(***************************************************************************)
(* Start-up of the library, librosie/librosie.c: rosie_home_init and       *)
(* rosie_new called from several threads, the one-time initialisation they *)
(* share, and the boot of a new engine.                                    *)
(*                                                                         *)
(* A home directory is passed by pointer.  A pointer is NULL or <<t, n>>:  *)
(* the string that thread t passed in its n-th call, which it may free     *)
(* when that call returns.  'install' is what is found at the home that    *)
(* set_bootscript was given (for NULL, at the place next to the library):  *)
(*   "unusable"  set_bootscript gives up (a path is too long, ...)         *)
(*   "absent"    there is no boot script: realpath returns NULL, and the   *)
(*               name of the script is that of none                        *)
(*   "corrupt"   the boot script fails to run                              *)
(*   "broken"    the boot function raises an error                         *)
(*   "good"                                                                *)
(***************************************************************************)
EXTENDS Naturals

CONSTANTS
  Threads,
  Homes,      (* what clients pass to rosie_home_init                      *)
  NULL,
  MaxCalls    (* bound on the calls of a thread                            *)

ASSUME BootAssumption ==
  /\ NULL \notin Homes /\ NULL \notin Threads \X Nat /\ NULL \notin Threads
  /\ MaxCalls \in Nat

Kinds == {"unusable", "absent", "corrupt", "broken", "good"}

VARIABLES
  initialized,      (* the pthread_once_t                                  *)
  temp_rosie_home,  (* the pointer that rosie_home_init leaves             *)
  local,            (* local_rosie_home_ptr of initialize                  *)
  home, install,    (* the home that set_bootscript was given, and what is *)
                    (* there                                               *)
  all_is_lost,
  booting,          (* the thread that holds the lock, or NULL             *)
  pc, op, arg,      (* of each thread: where it is, in which call, with    *)
  calls,            (* which home; how many calls it has begun             *)
  held,             (* what rosie_new has allocated and not handed over    *)
  result,           (* what the last call reported                         *)
  given             (* history: the homes of the calls begun before the    *)
                    (* initialisation was over                             *)

settled == <<home, install, all_is_lost>>
once    == <<initialized, temp_rosie_home, local, settled>>
client  == <<op, arg, calls, given>>
vars    == <<once, booting, pc, client, held, result>>

Init ==
  /\ initialized = "never"
  /\ temp_rosie_home = NULL /\ local = NULL
  /\ home = NULL /\ install = "unknown"
  /\ all_is_lost = TRUE
  /\ booting = NULL
  /\ pc = [t \in Threads |-> "idle"]
  /\ op = [t \in Threads |-> "none"]
  /\ arg = [t \in Threads |-> NULL]
  /\ calls = [t \in Threads |-> 0]
  /\ held = [t \in Threads |-> {}]
  /\ result = [t \in Threads |-> "none"]
  /\ given = {}

Go(t, from, to) == pc[t] = from /\ pc' = [pc EXCEPT ![t] = to]
Return(t, from, res) ==
  Go(t, from, "idle") /\ result' = [result EXCEPT ![t] = res]

----------------------------------------------------------------------------
(* Calls: rosie_home_init with a home or NULL, and rosie_new, which begins *)
(* by calling rosie_home_init with NULL.                                   *)

(* Mutant: the home is noted only when it is not too late anyway.          *)
BeginUnnoted(t, o, h) ==
  /\ Go(t, "idle", "once")
  /\ calls[t] < MaxCalls
  /\ calls' = [calls EXCEPT ![t] = @ + 1]
  /\ op' = [op EXCEPT ![t] = o]
  /\ arg' = [arg EXCEPT ![t] = h]
  /\ result' = [result EXCEPT ![t] = "none"]
  /\ given' = IF initialized = "done" THEN given ELSE given \cup {h}
  /\ UNCHANGED <<once, booting, held>>

Begin(t, o, h) ==
  /\ Go(t, "idle", "once")
  /\ calls[t] < MaxCalls
  /\ calls' = [calls EXCEPT ![t] = @ + 1]
  /\ op' = [op EXCEPT ![t] = o]
  /\ arg' = [arg EXCEPT ![t] = h]
  /\ result' = [result EXCEPT ![t] = "none"]
  /\ temp_rosie_home' = IF h = NULL THEN NULL ELSE <<t, calls[t] + 1>>
  /\ given' = IF initialized = "done" THEN given ELSE given \cup {h}
  /\ UNCHANGED <<initialized, local, settled, booting, held>>

RosieHomeInit(t) == \E h \in Homes \cup {NULL} : Begin(t, "init", h)
RosieNew(t)      == Begin(t, "new", NULL)

----------------------------------------------------------------------------
(* pthread_once(&initialized, initialize)                                  *)

(* Mutants: a flag that is set too late; one that is set too early.        *)
EnterOnceLate(t) ==
  /\ initialized \in {"never", "running"}
  /\ initialized' = "running"
  /\ Go(t, "once", "initialize")
  /\ UNCHANGED <<client, temp_rosie_home, local, settled, booting, held,
                 result>>
SkipOnceEarly(t) ==
  /\ initialized \in {"running", "done"}
  /\ Go(t, "once", "initialized")
  /\ UNCHANGED <<client, once, booting, held, result>>

EnterOnce(t) ==
  /\ initialized = "never"
  /\ initialized' = "running"
  /\ Go(t, "once", "initialize")
  /\ UNCHANGED <<client, temp_rosie_home, local, settled, booting, held,
                 result>>

SkipOnce(t) ==
  /\ initialized = "done"
  /\ Go(t, "once", "initialized")
  /\ UNCHANGED <<client, once, booting, held, result>>

LoadHome(t) ==
  /\ Go(t, "initialize", "bootscript")
  /\ local' = temp_rosie_home
  /\ UNCHANGED <<client, initialized, temp_rosie_home, settled, booting, held,
                 result>>

(* The string at a pointer.                                                *)
Deref(p) == IF p = NULL THEN NULL ELSE arg[p[1]]

SetBootscript(t) ==
  /\ Go(t, "bootscript", "initialized")
  /\ home' = Deref(local)
  /\ install' \in Kinds
  /\ all_is_lost' = (install' = "unusable")
  /\ initialized' = "done"
  /\ UNCHANGED <<client, temp_rosie_home, local, booting, held, result>>

----------------------------------------------------------------------------
(* The rest of rosie_home_init and rosie_new                               *)

FinishInit(t) ==
  /\ op[t] = "init"
  /\ Return(t, "initialized", IF all_is_lost THEN "failed" ELSE "ok")
  /\ UNCHANGED <<client, once, booting, held>>

(* Mutant: a failed initialisation is tried again.                         *)
GiveUpRetrying(t) ==
  /\ op[t] = "new" /\ all_is_lost
  /\ Go(t, "initialized", "once")
  /\ UNCHANGED <<client, once, booting, held, result>>

GiveUp(t) ==
  /\ op[t] = "new" /\ all_is_lost
  /\ Return(t, "initialized", "failed")
  /\ UNCHANGED <<client, once, booting, held>>

(* malloc and newstate                                                     *)
Allocate(t) ==
  /\ op[t] = "new" /\ ~all_is_lost
  /\ Go(t, "initialized", "boot")
  /\ held' = [held EXCEPT ![t] = {"engine", "state"}]
  /\ UNCHANGED <<client, once, booting, result>>

AcquireBooting(t) ==
  /\ booting = NULL
  /\ booting' = t
  /\ Go(t, "boot", "load")
  /\ UNCHANGED <<client, once, held, result>>

(* Mutants: a failure that keeps the lock; one that goes unnoticed.        *)
BootStepKeepingLock(t, from, to, bad) ==
  /\ UNCHANGED <<client, once, held, result>>
  /\ IF install = bad
     THEN Go(t, from, "fail") /\ UNCHANGED booting
     ELSE Go(t, from, to) /\ booting' = IF to = "setup" THEN NULL ELSE booting
BootStepUnnoticed(t, from, to, bad) ==
  /\ UNCHANGED <<client, once, held, result>>
  /\ Go(t, from, to) /\ booting' = IF to = "setup" THEN NULL ELSE booting

(* A step of boot: on a failure it releases the lock, otherwise it goes on *)
(* and releases it at the end.                                             *)
BootStep(t, from, to, bad) ==
  /\ UNCHANGED <<client, once, held, result>>
  /\ IF install = bad
     THEN Go(t, from, "fail") /\ booting' = NULL
     ELSE Go(t, from, to) /\ booting' = IF to = "setup" THEN NULL ELSE booting

LoadScript(t)   == BootStep(t, "load", "run", "absent")
RunScript(t)    == BootStep(t, "run", "call", "corrupt")
CallBoot(t)     == BootStep(t, "call", "setup", "broken")

(* rosie.engine.new() and the registry                                     *)
SetUp(t) ==
  /\ Return(t, "setup", "engine")
  /\ held' = [held EXCEPT ![t] = {}]
  /\ UNCHANGED <<client, once, booting>>
SetUpFails(t) ==
  /\ Go(t, "setup", "fail")
  /\ UNCHANGED <<client, once, booting, held, result>>

(* Mutant: the state is not closed.                                        *)
FailLeaking(t) ==
  /\ Return(t, "fail", "failed")
  /\ held' = [held EXCEPT ![t] = @ \ {"engine"}]
  /\ UNCHANGED <<client, once, booting>>

\* fail_state and fail_engine
Fail(t) ==
  /\ Return(t, "fail", "failed")
  /\ held' = [held EXCEPT ![t] = {}]
  /\ UNCHANGED <<client, once, booting>>

Step(t) ==
  \/ EnterOnce(t) \/ SkipOnce(t) \/ LoadHome(t) \/ SetBootscript(t)
  \/ FinishInit(t) \/ GiveUp(t) \/ Allocate(t) \/ AcquireBooting(t)
  \/ LoadScript(t) \/ RunScript(t) \/ CallBoot(t)
  \/ SetUp(t) \/ SetUpFails(t) \/ Fail(t)

(* No thread calls any more.                                               *)
Rest == (\A t \in Threads : pc[t] = "idle") /\ UNCHANGED vars

Next == \/ \E t \in Threads : RosieHomeInit(t) \/ RosieNew(t) \/ Step(t)
        \/ Rest
Spec == Init /\ [][Next]_vars /\ \A t \in Threads : WF_vars(Step(t))

----------------------------------------------------------------------------
(* Properties                                                              *)

Pointers == {NULL} \cup (Threads \X Nat)
Places == {"idle", "once", "initialize", "bootscript", "initialized", "boot",
           "load", "run", "call", "setup", "fail"}

(* Every variable has its type.                                            *)
TypeOK ==
  /\ install \in Kinds \cup {"unknown"}
  /\ initialized \in {"never", "running", "done"}
  /\ temp_rosie_home \in Pointers /\ local \in Pointers
  /\ home \in Homes \cup {NULL}
  /\ all_is_lost \in BOOLEAN
  /\ booting \in Threads \cup {NULL}
  /\ pc \in [Threads -> Places]
  /\ op \in [Threads -> {"none", "init", "new"}]
  /\ arg \in [Threads -> Homes \cup {NULL}]
  /\ calls \in [Threads -> Nat]
  /\ held \in [Threads -> SUBSET {"engine", "state"}]
  /\ result \in [Threads -> {"none", "ok", "failed", "engine"}]
  /\ given \in SUBSET (Homes \cup {NULL})

(* The comment at temp_rosie_home: the pointer is used only during the     *)
(* call of rosie_home_init that stored it.                                 *)
InCall(p) == p # NULL => calls[p[1]] = p[2] /\ pc[p[1]] # "idle"
HomeInLife == \A t \in Threads : pc[t] = "bootscript" => InCall(local)

(* The comment in rosie_home_init: the library is initialised with the     *)
(* home of one of the threads that called it in time.                      *)
HomeGiven == initialized = "done" => home \in given

(* Initialisation is settled once and for all.                             *)
SettledOnce ==
  [][initialized = "done" => UNCHANGED <<initialized, settled>>]_vars

(* An engine is returned only if its boot succeeded.                       *)
EnginesBooted ==
  \A t \in Threads :
    result[t] = "engine" => ~all_is_lost /\ install = "good"

(* A call that returns has handed over or freed what it allocated.         *)
NothingLeaks == \A t \in Threads : pc[t] = "idle" => held[t] = {}

(* One thread at a time boots an engine, and no other way out keeps the    *)
(* lock.                                                                   *)
BootingExclusive ==
  \A t \in Threads : booting = t <=> pc[t] \in {"load", "run", "call"}

(* Every call returns, whatever is installed.                              *)
CallsReturn == \A t \in Threads : pc[t] # "idle" ~> pc[t] = "idle"

----------------------------------------------------------------------------
(* The inductive invariant: why HomeGiven, HomeInLife, EnginesBooted,      *)
(* NothingLeaks and BootingExclusive hold.                                 *)

Initialising == {"initialize", "bootscript"}
Before       == {"idle", "once", "initialize", "bootscript"}

(* Exactly one thread initialises while initialisation runs, and no thread *)
(* gets past it before it is done.                                         *)
OnceInv ==
  /\ \A t \in Threads : pc[t] \in Initialising => initialized = "running"
  /\ \A t, u \in Threads :
       pc[t] \in Initialising /\ pc[u] \in Initialising => t = u
  /\ initialized # "done" => \A t \in Threads : pc[t] \in Before

(* Until then the pointers are those of calls in progress, whose homes are *)
(* among the given ones.                                                   *)
PointerInv ==
  /\ initialized # "done" =>
       /\ InCall(temp_rosie_home)
       /\ temp_rosie_home = NULL /\ given # {} => NULL \in given
       /\ \A t \in Threads : pc[t] # "idle" => arg[t] \in given
  /\ \A t \in Threads :
       pc[t] = "bootscript" => InCall(local) /\ Deref(local) \in given

(* What the place of a thread in rosie_new says of the installation.       *)
PlaceInv ==
  /\ initialized = "done" =>
       install \in Kinds /\ all_is_lost = (install = "unusable")
  /\ \A t \in Threads :
       /\ pc[t] \in {"boot", "load", "run", "call", "setup", "fail"} =>
            initialized = "done" /\ install # "unusable"
       /\ pc[t] \in {"run", "call", "setup"} => install # "absent"
       /\ pc[t] \in {"call", "setup"} => install # "corrupt"
       /\ pc[t] = "setup" => install # "broken"
       /\ pc[t] \in Before \cup {"initialized"} => held[t] = {}
       /\ result[t] = "engine" => initialized = "done"

(* All of it, with the invariants it needs of those above.                 *)
IInv ==
  /\ TypeOK /\ OnceInv /\ PointerInv /\ PlaceInv
  /\ HomeGiven /\ EnginesBooted /\ BootingExclusive
=============================================================================

----------------------------- MODULE BootProof -----------------------------
(***************************************************************************)
(* Start-up is safe for any number of threads, homes and calls.            *)
(***************************************************************************)
EXTENDS Boot, TLAPS

USE BootAssumption


USE DEF Go, Return, client, once, settled, Initialising, Before, Places, Pointers

LEMMA InitInv == Init => IInv
  BY DEF Init, IInv, TypeOK, OnceInv, PointerInv, PlaceInv, HomeGiven,
         EnginesBooted, BootingExclusive, InCall, Kinds

(* A step of thread t in a call changes the place of t only.               *)
LEMMA StepKeepsInv ==
  ASSUME IInv, NEW t \in Threads, Step(t)
  PROVE  IInv'
  <1> USE DEF IInv, TypeOK
  <1>1. CASE EnterOnce(t)
    <2>1. TypeOK' BY <1>1 DEF EnterOnce
    <2>2. OnceInv' BY <1>1 DEF EnterOnce, OnceInv
    <2>3. PointerInv' BY <1>1 DEF EnterOnce, PointerInv, InCall, Deref
    <2>4. PlaceInv' BY <1>1 DEF EnterOnce, PlaceInv
    <2>5. HomeGiven' /\ EnginesBooted' /\ BootingExclusive'
      BY <1>1 DEF EnterOnce, HomeGiven, EnginesBooted, BootingExclusive
    <2> QED BY <2>1, <2>2, <2>3, <2>4, <2>5
  <1>2. CASE SkipOnce(t)
    <2>1. TypeOK' BY <1>2 DEF SkipOnce
    <2>2. OnceInv' BY <1>2 DEF SkipOnce, OnceInv
    <2>3. PointerInv' BY <1>2 DEF SkipOnce, PointerInv, OnceInv, InCall, Deref
    <2>4. PlaceInv' BY <1>2 DEF SkipOnce, PlaceInv
    <2>5. HomeGiven' /\ EnginesBooted' /\ BootingExclusive'
      BY <1>2 DEF SkipOnce, HomeGiven, EnginesBooted, BootingExclusive, PlaceInv
    <2> QED BY <2>1, <2>2, <2>3, <2>4, <2>5
  <1>3. CASE LoadHome(t)
    <2>1. TypeOK' BY <1>3 DEF LoadHome
    <2>2. OnceInv' BY <1>3 DEF LoadHome, OnceInv
    <2>3. PointerInv' BY <1>3 DEF LoadHome, PointerInv, OnceInv, InCall, Deref
    <2>4. PlaceInv' BY <1>3 DEF LoadHome, PlaceInv
    <2>5. HomeGiven' /\ EnginesBooted' /\ BootingExclusive'
      BY <1>3 DEF LoadHome, HomeGiven, EnginesBooted, BootingExclusive, PlaceInv
    <2> QED BY <2>1, <2>2, <2>3, <2>4, <2>5
  <1>4. CASE SetBootscript(t)
    <2>1. TypeOK' BY <1>4 DEF SetBootscript, PointerInv, Kinds
    <2>2. OnceInv' BY <1>4 DEF SetBootscript, OnceInv
    <2>3. PointerInv' BY <1>4 DEF SetBootscript, PointerInv, OnceInv, InCall, Deref
    <2>4. PlaceInv' BY <1>4 DEF SetBootscript, PlaceInv, OnceInv
    <2>5. HomeGiven' /\ EnginesBooted' /\ BootingExclusive'
      BY <1>4 DEF SetBootscript, HomeGiven, EnginesBooted, BootingExclusive,
                  PlaceInv, OnceInv, PointerInv
    <2> QED BY <2>1, <2>2, <2>3, <2>4, <2>5
  <1>5. CASE FinishInit(t)
    <2>1. TypeOK' BY <1>5 DEF FinishInit
    <2>2. OnceInv' BY <1>5 DEF FinishInit, OnceInv
    <2>3. PointerInv' BY <1>5 DEF FinishInit, PointerInv, OnceInv, InCall, Deref
    <2>4. PlaceInv' BY <1>5 DEF FinishInit, PlaceInv
    <2>5. HomeGiven' /\ EnginesBooted' /\ BootingExclusive'
      BY <1>5 DEF FinishInit, HomeGiven, EnginesBooted, BootingExclusive, PlaceInv
    <2> QED BY <2>1, <2>2, <2>3, <2>4, <2>5
  <1>6. CASE GiveUp(t)
    <2>1. TypeOK' BY <1>6 DEF GiveUp
    <2>2. OnceInv' BY <1>6 DEF GiveUp, OnceInv
    <2>3. PointerInv' BY <1>6 DEF GiveUp, PointerInv, OnceInv, InCall, Deref
    <2>4. PlaceInv' BY <1>6 DEF GiveUp, PlaceInv
    <2>5. HomeGiven' /\ EnginesBooted' /\ BootingExclusive'
      BY <1>6 DEF GiveUp, HomeGiven, EnginesBooted, BootingExclusive, PlaceInv
    <2> QED BY <2>1, <2>2, <2>3, <2>4, <2>5
  <1>7. CASE Allocate(t)
    <2>1. TypeOK' BY <1>7 DEF Allocate
    <2>2. OnceInv' BY <1>7 DEF Allocate, OnceInv
    <2>3. PointerInv' BY <1>7 DEF Allocate, PointerInv, OnceInv, InCall, Deref
    <2>4. PlaceInv' BY <1>7 DEF Allocate, PlaceInv, OnceInv
    <2>5. HomeGiven' /\ EnginesBooted' /\ BootingExclusive'
      BY <1>7 DEF Allocate, HomeGiven, EnginesBooted, BootingExclusive, PlaceInv
    <2> QED BY <2>1, <2>2, <2>3, <2>4, <2>5
  <1>8. CASE AcquireBooting(t)
    <2>1. TypeOK' BY <1>8 DEF AcquireBooting
    <2>2. OnceInv' BY <1>8 DEF AcquireBooting, OnceInv
    <2>3. PointerInv' BY <1>8 DEF AcquireBooting, PointerInv, OnceInv, InCall, Deref
    <2>4. PlaceInv' BY <1>8 DEF AcquireBooting, PlaceInv
    <2>5. HomeGiven' /\ EnginesBooted' /\ BootingExclusive'
      BY <1>8 DEF AcquireBooting, HomeGiven, EnginesBooted, BootingExclusive, PlaceInv
    <2> QED BY <2>1, <2>2, <2>3, <2>4, <2>5
  <1>9. CASE LoadScript(t)
    <2>1. TypeOK' BY <1>9 DEF LoadScript, BootStep
    <2>2. OnceInv' BY <1>9 DEF LoadScript, BootStep, OnceInv
    <2>3. PointerInv' BY <1>9 DEF LoadScript, BootStep, PointerInv, OnceInv, InCall, Deref
    <2>4. PlaceInv' BY <1>9 DEF LoadScript, BootStep, PlaceInv
    <2>5. HomeGiven' /\ EnginesBooted' /\ BootingExclusive'
      BY <1>9 DEF LoadScript, BootStep, HomeGiven, EnginesBooted, BootingExclusive, PlaceInv
    <2> QED BY <2>1, <2>2, <2>3, <2>4, <2>5
  <1>10. CASE RunScript(t)
    <2>1. TypeOK' BY <1>10 DEF RunScript, BootStep
    <2>2. OnceInv' BY <1>10 DEF RunScript, BootStep, OnceInv
    <2>3. PointerInv' BY <1>10 DEF RunScript, BootStep, PointerInv, OnceInv, InCall, Deref
    <2>4. PlaceInv' BY <1>10 DEF RunScript, BootStep, PlaceInv
    <2>5. HomeGiven' /\ EnginesBooted' /\ BootingExclusive'
      BY <1>10 DEF RunScript, BootStep, HomeGiven, EnginesBooted, BootingExclusive, PlaceInv
    <2> QED BY <2>1, <2>2, <2>3, <2>4, <2>5
  <1>11. CASE CallBoot(t)
    <2>1. TypeOK' BY <1>11 DEF CallBoot, BootStep
    <2>2. OnceInv' BY <1>11 DEF CallBoot, BootStep, OnceInv
    <2>3. PointerInv' BY <1>11 DEF CallBoot, BootStep, PointerInv, OnceInv, InCall, Deref
    <2>4. PlaceInv' BY <1>11 DEF CallBoot, BootStep, PlaceInv
    <2>5. HomeGiven' /\ EnginesBooted' /\ BootingExclusive'
      BY <1>11 DEF CallBoot, BootStep, HomeGiven, EnginesBooted, BootingExclusive, PlaceInv
    <2> QED BY <2>1, <2>2, <2>3, <2>4, <2>5
  <1>12. CASE SetUp(t)
    <2>1. TypeOK' BY <1>12 DEF SetUp
    <2>2. OnceInv' BY <1>12 DEF SetUp, OnceInv
    <2>3. PointerInv' BY <1>12 DEF SetUp, PointerInv, OnceInv, InCall, Deref
    <2>4. PlaceInv' BY <1>12 DEF SetUp, PlaceInv
    <2>5. HomeGiven' /\ EnginesBooted' /\ BootingExclusive'
      BY <1>12 DEF SetUp, HomeGiven, EnginesBooted, BootingExclusive, PlaceInv,
                   Kinds
    <2> QED BY <2>1, <2>2, <2>3, <2>4, <2>5
  <1>13. CASE SetUpFails(t)
    <2>1. TypeOK' BY <1>13 DEF SetUpFails
    <2>2. OnceInv' BY <1>13 DEF SetUpFails, OnceInv
    <2>3. PointerInv' BY <1>13 DEF SetUpFails, PointerInv, OnceInv, InCall, Deref
    <2>4. PlaceInv' BY <1>13 DEF SetUpFails, PlaceInv
    <2>5. HomeGiven' /\ EnginesBooted' /\ BootingExclusive'
      BY <1>13 DEF SetUpFails, HomeGiven, EnginesBooted, BootingExclusive, PlaceInv
    <2> QED BY <2>1, <2>2, <2>3, <2>4, <2>5
  <1>14. CASE Fail(t)
    <2>1. TypeOK' BY <1>14 DEF Fail
    <2>2. OnceInv' BY <1>14 DEF Fail, OnceInv
    <2>3. PointerInv' BY <1>14 DEF Fail, PointerInv, OnceInv, InCall, Deref
    <2>4. PlaceInv' BY <1>14 DEF Fail, PlaceInv
    <2>5. HomeGiven' /\ EnginesBooted' /\ BootingExclusive'
      BY <1>14 DEF Fail, HomeGiven, EnginesBooted, BootingExclusive, PlaceInv
    <2> QED BY <2>1, <2>2, <2>3, <2>4, <2>5
  <1> QED BY <1>1, <1>2, <1>3, <1>4, <1>5, <1>6, <1>7, <1>8, <1>9, <1>10, <1>11, <1>12, <1>13, <1>14 DEF Step

(* A new call keeps the pointers of the calls in progress.                 *)
LEMMA BeginKeepsInv ==
  ASSUME IInv, NEW t \in Threads, NEW o \in {"init", "new"},
         NEW h \in Homes \cup {NULL}, Begin(t, o, h)
  PROVE  IInv'
  <1> USE DEF IInv, TypeOK, Begin
  <1>1. TypeOK' OBVIOUS
  <1>2. OnceInv' BY DEF OnceInv
  <1>3. PointerInv' BY DEF PointerInv, InCall, Deref
  <1>4. PlaceInv' BY DEF PlaceInv
  <1>5. HomeGiven' /\ EnginesBooted' /\ BootingExclusive'
    BY DEF HomeGiven, EnginesBooted, BootingExclusive
  <1> QED BY <1>1, <1>2, <1>3, <1>4, <1>5

LEMMA StutterKeepsInv == IInv /\ UNCHANGED vars => IInv'
  BY DEF vars, IInv, TypeOK, OnceInv, PointerInv, PlaceInv, HomeGiven,
         EnginesBooted, BootingExclusive, InCall, Deref

THEOREM Inductive == Spec => []IInv
  <1>1. IInv /\ [Next]_vars => IInv'
    <2> SUFFICES ASSUME IInv, [Next]_vars PROVE IInv'
      OBVIOUS
    <2>1. ASSUME NEW t \in Threads, RosieHomeInit(t) PROVE IInv'
      BY <2>1, BeginKeepsInv DEF RosieHomeInit
    <2>2. ASSUME NEW t \in Threads, RosieNew(t) PROVE IInv'
      BY <2>2, BeginKeepsInv DEF RosieNew
    <2>3. ASSUME NEW t \in Threads, Step(t) PROVE IInv'
      BY <2>3, StepKeepsInv
    <2>4. CASE UNCHANGED vars
      BY <2>4, StutterKeepsInv
    <2> QED BY <2>1, <2>2, <2>3, <2>4 DEF Next, Rest
  <1> QED BY InitInv, <1>1, PTL DEF Spec

(* The pointer that rosie_home_init leaves for initialize is that of a     *)
(* call that has not returned, whichever threads race.                     *)
THEOREM HomeInLifeCorrect == Spec => []HomeInLife
  <1>1. IInv => HomeInLife
    BY DEF IInv, PointerInv, HomeInLife
  <1> QED BY Inductive, <1>1, PTL

(* The library gets the home of one of the calls that came in time.        *)
THEOREM HomeGivenCorrect == Spec => []HomeGiven
  <1>1. IInv => HomeGiven
    BY DEF IInv
  <1> QED BY Inductive, <1>1, PTL

(* The home and the verdict on it never change again.                      *)
THEOREM SettledCorrect == Spec => SettledOnce
  <1>1. IInv /\ [Next]_vars => [initialized = "done" =>
                                  UNCHANGED <<initialized, settled>>]_vars
    <2> SUFFICES ASSUME IInv, Next, initialized = "done"
                 PROVE  UNCHANGED <<initialized, settled>>
      OBVIOUS
    <2>1. ASSUME NEW t \in Threads, Step(t)
          PROVE  UNCHANGED <<initialized, settled>>
      <3>1. pc[t] \notin Initialising
        BY DEF IInv, OnceInv
      <3> QED
        BY <2>1, <3>1 DEF Step, EnterOnce, SkipOnce, LoadHome, SetBootscript,
             FinishInit, GiveUp, Allocate, AcquireBooting, LoadScript,
             RunScript, CallBoot, BootStep, SetUp, SetUpFails, Fail
    <2>2. ASSUME NEW t \in Threads, RosieHomeInit(t) \/ RosieNew(t)
          PROVE  UNCHANGED <<initialized, settled>>
      BY <2>2 DEF RosieHomeInit, RosieNew, Begin
    <2> QED BY <2>1, <2>2 DEF Next, Rest, vars
  <1> QED BY Inductive, <1>1, PTL DEF Spec, SettledOnce

(* A thread that boots an engine is alone in it, and no failure leaves the *)
(* lock behind.                                                            *)
THEOREM BootingCorrect == Spec => []BootingExclusive
  <1>1. IInv => BootingExclusive
    BY DEF IInv
  <1> QED BY Inductive, <1>1, PTL

(* An engine that a client gets has been booted.                           *)
THEOREM EnginesCorrect == Spec => []EnginesBooted
  <1>1. IInv => EnginesBooted
    BY DEF IInv
  <1> QED BY Inductive, <1>1, PTL

(* Every engine that was allocated is in the hands of the call that makes  *)
(* it or of a client, whichever step of rosie_new failed.                  *)
THEOREM NothingLeaksCorrect == Spec => []NothingLeaks
  <1>1. IInv => NothingLeaks
    BY DEF IInv, PlaceInv, NothingLeaks
  <1> QED BY Inductive, <1>1, PTL
=============================================================================

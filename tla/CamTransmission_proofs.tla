------------------------ MODULE CamTransmission_proofs ------------------------
(***************************************************************************)
(* Theorems about CamTransmission.                                         *)
(***************************************************************************)
EXTENDS CamTransmission, FiniteSetTheorems, TLAPS

LEMMA Periods ==
  /\ CheckPeriod \in Nat /\ GenMin \in Nat /\ GenMax \in Nat /\ GenDcc \in Nat
  /\ LfPeriod \in Nat /\ NGenCam \in Nat
  /\ GenMin <= GenMax /\ 0 < GenMax /\ 0 < NGenCam
BY PeriodAssumption

LEMMA CutBounds ==
  ASSUME NEW n \in Nat, NEW max \in Nat
  PROVE  Cut(n, max) \in 0..max
BY DEF Cut

LEMMA OlderBounds ==
  ASSUME NEW max \in Nat, NEW age \in Age(max)
  PROVE  Older(age, max) \in Age(max)
BY NeverAssumption DEF Age, Older, Cut

LEMMA ClampedBounds ==
  ASSUME NEW e \in 0..GenMax
  PROVE  Clamped(e) \in GenMin..GenMax
BY Periods DEF Clamped, Cut

-----------------------------------------------------------------------------
(* The variables keep their shape: in particular T_GenCam stays between    *)
(* its bounds and the count of condition 1 CAMs below N_GenCam             *)
(* (_update_send_state).                                                   *)
THEOREM TypeCorrect == Spec => []TypeOK
<1>1. Init => TypeOK
  <2> SUFFICES ASSUME Init PROVE TypeOK
    OBVIOUS
  <2>1. NoCam \in Cam
    BY Periods DEF NoCam, Cam
  <2>2. cam \in [Timer -> Cam]
    BY <2>1 DEF Init
  <2>3. timer \in [Timer -> TimerStep] /\ left \in [Timer -> 0..CheckPeriod]
    BY Periods DEF Init, TimerStep
  <2>4. pc \in [Thread -> {"idle"} \cup Callback \cup Schedule \cup AppStep]
    BY DEF Init
  <2>5. genCam \in GenMin..GenMax /\ highCams \in 0..(NGenCam - 1)
        /\ wait \in 0..(GenMax + 1)
    BY Periods DEF Init
  <2> QED
    BY <2>2, <2>3, <2>4, <2>5 DEF Init, TypeOK, Age
<1>2. TypeOK /\ [Next]_vars => TypeOK'
  <2> SUFFICES ASSUME TypeOK, [Next]_vars PROVE TypeOK'
    OBVIOUS
  <2> USE DEF TypeOK, Goto
  <2>1. CASE Start
    BY <2>1 DEF Start, rules, history, AppStep
  <2>2. CASE Reset
    <3>1. genCam' \in GenMin..GenMax /\ highCams' \in 0..(NGenCam - 1)
          /\ wait' \in 0..(GenMax + 1)
      BY <2>2, Periods DEF Reset
    <3> QED
      BY <2>2, <3>1 DEF Reset, service, Schedule, Age, CountReset
  <2>3. CASE Stop
    BY <2>3 DEF Stop, rules, history, AppStep
  <2>4. CASE Cancel
    <3>1. timer' \in [Timer -> TimerStep]
      BY <2>4 DEF Cancel, StopTimer, Cancelled, TimerStep
    <3>2. left' \in [Timer -> 0..CheckPeriod]
      BY <2>4, Periods DEF Cancel
    <3> QED
      BY <2>4, <3>1, <3>2 DEF Cancel, rules, history, AppStep
  <2>5. CASE Clear
    <3>1. timer' \in [Timer -> TimerStep]
      BY <2>5 DEF Clear, Dropped, TimerStep
    <3> QED
      BY <2>5, <3>1 DEF Clear, rules, history
  <2>6. CASE LocationCallback
    BY <2>6, Periods DEF LocationCallback, service, rules
  <2>7. CASE Tick
    <3>1. left' \in [Timer -> 0..CheckPeriod]
      BY <2>7, Periods DEF Tick
    <3>2. cam' \in [Timer -> Cam]
      BY <2>7, CutBounds, Periods DEF Tick, Cam, Cut
    <3>3. camAge' \in Age(GenMax) /\ lfAge' \in Age(LfPeriod)
          /\ txAge' \in Age(GenMax + GenDcc) /\ txLfAge' \in Age(LfPeriod)
      BY <2>7, OlderBounds, Periods DEF Tick
    <3>4. wait' \in 0..(GenMax + 1)
      BY <2>7, Periods DEF Tick, Cut
    <3> QED
      BY <2>7, <3>1, <3>2, <3>3, <3>4 DEF Tick
  <2>8. ASSUME NEW x \in Thread, ScheduleNext(x) PROVE TypeOK'
    <3>1. CASE CheckActive(x)
      BY <3>1 DEF CheckActive, service, rules, history, Schedule
    <3>2. CASE Assign(x)
      <4>1. PICK t \in Timer :
              /\ ref' = t
              /\ timer' = [Dropped EXCEPT ![t] = "made"]
              /\ \E d \in 0..CheckPeriod : left' = [left EXCEPT ![t] = d]
        <5>1. \A d \in {CheckPeriod} : d \in 0..CheckPeriod
          BY Periods
        <5> QED
          BY <3>2, <5>1 DEF Assign
      <4>2. timer' \in [Timer -> TimerStep]
        BY <4>1 DEF Dropped, TimerStep
      <4> QED
        BY <3>2, <4>1, <4>2 DEF Assign, rules, history, Schedule
    <3>3. CASE SetDaemon(x)
      BY <3>3 DEF SetDaemon, service, rules, history, Schedule
    <3>4. CASE Launch(x)
      <4>1. timer' \in [Timer -> TimerStep]
        BY <3>4 DEF Launch, NotStarted, TimerStep
      <4> QED
        BY <3>4, <4>1 DEF Launch, rules, history
    <3> QED
      BY <2>8, <3>1, <3>2, <3>3, <3>4 DEF ScheduleNext
  <2>9. ASSUME NEW t \in Timer, Elapse(t) PROVE TypeOK'
    BY <2>9 DEF Elapse, rules, history, TimerStep, Callback, Thread
  <2>10. ASSUME NEW t \in Timer, CheckCamConditions(t) PROVE TypeOK'
    <3>1. CASE Enter(t)
      BY <3>1 DEF Enter, service, rules, history, Callback, Thread
    <3>2. CASE Evaluate(t)
      <4>1. cam' \in [Timer -> Cam]
        <5>1. CASE cam' = cam
          BY <5>1
        <5>2. CASE cam' # cam
          <6>1. PICK moved \in BOOLEAN :
                  cam' = [cam EXCEPT ![t] =
                    [age |-> 0, high |-> FirstDue \/ HighDue(moved), lf |-> IncludeLf,
                     elapsed |-> IF FirstDue THEN 0 ELSE camAge]]
            BY <3>2, <5>2 DEF Evaluate
          <6>2. IncludeLf \in BOOLEAN /\ (FirstDue \/ HighDue(moved)) \in BOOLEAN
            BY DEF IncludeLf, FirstDue, HighDue
          <6>3. (IF FirstDue THEN 0 ELSE camAge) \in 0..GenMax
            BY Periods DEF FirstDue, Age
          <6>4. [age |-> 0, high |-> FirstDue \/ HighDue(moved), lf |-> IncludeLf,
                 elapsed |-> IF FirstDue THEN 0 ELSE camAge] \in Cam
            BY <6>2, <6>3, Periods DEF Cam
          <6> QED
            BY <6>1, <6>4
        <5> QED
          BY <5>1, <5>2
      <4>2. pc' \in [Thread -> {"idle"} \cup Callback \cup Schedule \cup AppStep]
        BY <3>2 DEF Evaluate, Callback, Schedule, Thread
      <4> QED
        BY <3>2, <4>1, <4>2 DEF Evaluate, service, rules, history
    <3>3. CASE Transmit(t)
      <4>0. cam[t] \in Cam
        OBVIOUS
      <4>1. txAge' \in Age(GenMax + GenDcc) /\ txLfAge' \in Age(LfPeriod)
        BY <3>3, <4>0, Periods DEF Transmit, Cam, Age, Cut
      <4>2. cam' \in [Timer -> Cam]
        BY <3>3, Periods DEF Transmit, Cam, NoCam
      <4>3. pc' \in [Thread -> {"idle"} \cup Callback \cup Schedule \cup AppStep]
        BY <3>3 DEF Transmit, AfterFailure, Callback, Schedule, Thread
      <4>4. wait' \in 0..(GenMax + 1)
        BY <3>3, Periods DEF Transmit
      <4> QED
        BY <3>3, <4>1, <4>2, <4>3, <4>4 DEF Transmit, service, rules
    <3>4. CASE Update(t)
      <4>0. cam[t] \in Cam
        OBVIOUS
      <4>1. highCams' \in 0..(NGenCam - 1)
        BY <3>4, Periods DEF Update
      <4>2. genCam' \in GenMin..GenMax
        BY <3>4, <4>0, ClampedBounds, Periods DEF Update, Cam
      <4>3. camAge' \in Age(GenMax) /\ lfAge' \in Age(LfPeriod)
        BY <3>4, <4>0, Periods DEF Update, LfTime, Cam, Age, Cut
      <4>4. cam' \in [Timer -> Cam]
        BY <3>4, Periods DEF Update, Cam, NoCam
      <4>5. pc' \in [Thread -> {"idle"} \cup Callback \cup Schedule \cup AppStep]
        BY <3>4 DEF Update, Schedule, Thread
      <4> QED
        BY <3>4, <4>1, <4>2, <4>3, <4>4, <4>5 DEF Update, service, history
    <3> QED
      BY <2>10, <3>1, <3>2, <3>3, <3>4 DEF CheckCamConditions
  <2>11. CASE UNCHANGED vars
    BY <2>11 DEF vars, service, rules, history
  <2> QED
    BY <2>1, <2>2, <2>3, <2>4, <2>5, <2>6, <2>7, <2>8, <2>9, <2>10, <2>11
    DEF Next, AppNext, TimerNext, Thread
<1> QED
  BY <1>1, <1>2, PTL DEF Spec
-----------------------------------------------------------------------------
(* While stop() cancels and forgets the timer the service is not active:   *)
(* only start(), of the same thread, makes it so.                          *)
StopInactive == pc[App] \in {"cancel", "clear"} => ~active

LEMMA AppIsNoTimer == App \in Thread /\ App \notin Timer
BY TimerAssumption DEF Thread

(* An active service always has a callback, an armed timer or a thread     *)
(* about to make one, for any number of timers and any failures            *)
(* (_check_cam_conditions, _schedule_next_check, start, stop).             *)
THEOREM AlwaysAlive == Spec => []ServiceAlive
<1> DEFINE IInv == ServiceAlive /\ StopInactive
<1>1. Init => IInv
  BY AppIsNoTimer DEF Init, ServiceAlive, StopInactive
<1>2. TypeOK /\ IInv /\ [Next]_vars => IInv'
  <2> SUFFICES ASSUME TypeOK, ServiceAlive, StopInactive, [Next]_vars
               PROVE  ServiceAlive' /\ StopInactive'
    OBVIOUS
  <2>0. /\ pc \in [Thread -> {"idle"} \cup Callback \cup Schedule \cup AppStep]
        /\ timer \in [Timer -> TimerStep]
        /\ \A t \in Timer : t \in Thread /\ t # App
    BY AppIsNoTimer DEF TypeOK, Thread
  <2>10. ref \in Timer \cup {NoTimer}
    BY DEF TypeOK
  <2> USE <2>0, AppIsNoTimer DEF Goto
  <2>1. CASE Start
    BY <2>1 DEF Start, ServiceAlive, Driven, StopInactive
  <2>2. CASE Reset
    BY <2>2 DEF Reset, service, ServiceAlive, Driven, StopInactive
  <2>3. CASE Stop
    BY <2>3 DEF Stop, ServiceAlive, StopInactive
  <2>4. CASE Cancel
    BY <2>4 DEF Cancel, ServiceAlive, StopInactive
  <2>5. CASE Clear
    BY <2>5 DEF Clear, ServiceAlive, StopInactive
  <2>6. CASE LocationCallback \/ Tick \/ UNCHANGED vars
    BY <2>6 DEF LocationCallback, Tick, vars, service, ServiceAlive, Driven, StopInactive
  <2>7. ASSUME NEW x \in Thread, ScheduleNext(x) PROVE ServiceAlive' /\ StopInactive'
    <3>1. CASE CheckActive(x)
      BY <3>1 DEF CheckActive, service, ServiceAlive, Driven, StopInactive
    <3>2. CASE Assign(x)
      <4>1. PICK t \in Timer : ref' = t /\ timer' = [Dropped EXCEPT ![t] = "made"]
        BY <3>2 DEF Assign
      <4>2. ref' # NoTimer /\ timer'[ref'] = "made"
        BY <4>1, TimerAssumption DEF Dropped
      <4>3. pc' = [pc EXCEPT ![x] = "daemon"] /\ active' = active
        BY <3>2 DEF Assign
      <4>4. Driven'
        BY <4>2, <4>3 DEF Driven
      <4> QED
        BY <4>3, <4>4 DEF ServiceAlive, StopInactive
    <3>3. CASE SetDaemon(x)
      BY <3>3 DEF SetDaemon, service, NotStarted, ServiceAlive, Driven, StopInactive,
         Callback
    <3>4. CASE Launch(x)
      <4>1. /\ pc[x] = "launch" /\ pc' = [pc EXCEPT ![x] = "idle"]
            /\ ref' = ref /\ active' = active
        BY <3>4 DEF Launch
      <4>2. CASE ref # NoTimer /\ timer[ref] = "made"
        <5>1. ref \in Timer /\ timer'[ref] = "armed"
          BY <2>10, <3>4, <4>2 DEF Launch, NotStarted
        <5> QED
          BY <4>1, <5>1 DEF ServiceAlive, Driven, StopInactive
      <4>3. CASE ~(ref # NoTimer /\ timer[ref] = "made")
        <5>1. \A t \in Timer : timer[t] = "armed" => timer'[t] = "armed"
          BY <3>4 DEF Launch, NotStarted
        <5>2. \A y \in Thread : pc[y] # "launch" => pc'[y] = pc[y]
          BY <4>1
        <5> QED
          BY <4>1, <4>3, <5>1, <5>2 DEF ServiceAlive, Driven, StopInactive, Callback
      <4> QED
        BY <4>2, <4>3
    <3> QED
      BY <2>7, <3>1, <3>2, <3>3, <3>4 DEF ScheduleNext
  <2>8. ASSUME NEW t \in Timer, Elapse(t) PROVE ServiceAlive' /\ StopInactive'
    BY <2>8 DEF Elapse, ServiceAlive, Driven, StopInactive, Callback
  <2>9. ASSUME NEW t \in Timer, CheckCamConditions(t)
        PROVE  ServiceAlive' /\ StopInactive'
    <3>1. CASE Enter(t)
      BY <3>1 DEF Enter, service, ServiceAlive, Driven, StopInactive, Callback
    <3>2. CASE Evaluate(t)
      BY <3>2 DEF Evaluate, service, ServiceAlive, Driven, StopInactive, Callback
    <3>3. CASE Transmit(t)
      BY <3>3 DEF Transmit, AfterFailure, service, ServiceAlive, Driven, StopInactive,
         Callback
    <3>4. CASE Update(t)
      BY <3>4 DEF Update, service, ServiceAlive, Driven, StopInactive, Callback
    <3> QED
      BY <2>9, <3>1, <3>2, <3>3, <3>4 DEF CheckCamConditions
  <2> QED
    BY <2>1, <2>2, <2>3, <2>4, <2>5, <2>6, <2>7, <2>8, <2>9
    DEF Next, AppNext, TimerNext
<1> QED
  BY <1>1, <1>2, TypeCorrect, PTL DEF Spec
-----------------------------------------------------------------------------
(* The chain of timers when start() and stop() are not called during a     *)
(* callback.  One timer is busy at most, none is while the application's   *)
(* thread makes one, the armed one is the one _timer holds (so that stop() *)
(* finds it), and a callback of a service that was stopped has not yet     *)
(* gone past its first test.                                               *)
Busy(t) == timer[t] = "armed" \/ pc[t] # "idle"
ChainInv ==
  /\ \A t, u \in Timer : Busy(t) /\ Busy(u) => t = u
  /\ \A t \in Timer : timer[t] = "armed" => pc[t] = "idle" /\ ref = t
  /\ pc[App] \in {"reset"} \cup Schedule => active /\ \A t \in Timer : ~Busy(t)
  /\ ~active => \A t \in Timer : pc[t] \in {"idle", "entry"}
  /\ ~active /\ pc[App] # "cancel" => \A t \in Timer : timer[t] # "armed"
  /\ StopInactive

LEMMA ChainInvariant ==
  ASSUME Calm
  PROVE  Spec => []ChainInv
<1>1. Init => ChainInv
  BY AppIsNoTimer DEF Init, ChainInv, Busy, StopInactive, Thread, Schedule
<1>2. TypeOK /\ ChainInv /\ [Next]_vars => ChainInv'
  <2> SUFFICES ASSUME TypeOK, ChainInv, [Next]_vars
               PROVE  ChainInv'
    OBVIOUS
  <2>0. /\ pc \in [Thread -> {"idle"} \cup Callback \cup Schedule \cup AppStep]
        /\ timer \in [Timer -> TimerStep]
        /\ ref \in Timer \cup {NoTimer}
        /\ \A t \in Timer : t \in Thread /\ t # App /\ t # NoTimer
    BY AppIsNoTimer, TimerAssumption DEF TypeOK, Thread
  <2> USE <2>0, AppIsNoTimer DEF Goto, ChainInv, Busy, StopInactive, Schedule
  <2>1. CASE Start
    <3>1. /\ Startable /\ NoCallback /\ pc[App] = "idle"
          /\ pc' = [pc EXCEPT ![App] = "reset"]
          /\ active' = TRUE /\ timer' = timer /\ ref' = ref
      BY <2>1 DEF Start
    <3>2. ~active
      BY <3>1 DEF Startable
    <3>3. \A t \in Timer : timer'[t] # "armed" /\ pc'[t] = "idle"
      BY <3>1, <3>2 DEF NoCallback
    <3> QED
      BY <3>1, <3>3
  <2>2. CASE Reset
    BY <2>2 DEF Reset, service
  <2>3. CASE Stop
    BY <2>3 DEF Stop, NoCallback
  <2>4. CASE Cancel
    <3>1. \A t \in Timer : timer'[t] # "armed"
      BY <2>4 DEF Cancel, StopTimer, Cancelled
    <3> QED
      BY <2>4, <3>1 DEF Cancel
  <2>5. CASE Clear
    <3>1. \A t \in Timer : timer'[t] # "armed"
      BY <2>5 DEF Clear, Dropped
    <3> QED
      BY <2>5, <3>1 DEF Clear
  <2>6. CASE LocationCallback \/ Tick \/ UNCHANGED vars
    BY <2>6 DEF LocationCallback, Tick, vars, service
  <2>7. ASSUME NEW x \in Thread, ScheduleNext(x) PROVE ChainInv'
    <3>0. active /\ \A t \in Timer : timer[t] # "armed" /\ (pc[t] # "idle" => t = x)
      BY <2>7 DEF ScheduleNext, CheckActive, Assign, SetDaemon, Launch, Thread
    <3>1. CASE CheckActive(x)
      BY <3>0, <3>1 DEF CheckActive, service
    <3>2. CASE Assign(x)
      <4>1. \A t \in Timer : timer'[t] # "armed"
        BY <3>0, <3>2 DEF Assign, Dropped
      <4> QED
        BY <3>0, <3>2, <4>1 DEF Assign
    <3>3. CASE SetDaemon(x)
      BY <3>0, <3>3 DEF SetDaemon, service
    <3>4. CASE Launch(x)
      <4>1. \A t \in Timer : timer'[t] = "armed" => t = ref
        BY <3>0, <3>4 DEF Launch, NotStarted
      <4>2. \A t \in Timer : pc'[t] = "idle"
        BY <3>0, <3>4 DEF Launch
      <4>3. pc'[App] \notin {"reset", "check", "assign", "daemon", "launch"}
        BY <3>0, <3>4 DEF Launch, Thread
      <4> QED
        BY <3>0, <3>4, <4>1, <4>2, <4>3 DEF Launch
    <3> QED
      BY <2>7, <3>1, <3>2, <3>3, <3>4 DEF ScheduleNext
  <2>8. ASSUME NEW t \in Timer, Elapse(t) PROVE ChainInv'
    BY <2>8 DEF Elapse
  <2>9. ASSUME NEW t \in Timer, CheckCamConditions(t) PROVE ChainInv'
    <3>1. CASE Enter(t)
      BY <3>1 DEF Enter, service
    <3>2. CASE Evaluate(t)
      BY <3>2 DEF Evaluate, service
    <3>3. CASE Transmit(t)
      BY <3>3 DEF Transmit, AfterFailure, service
    <3>4. CASE Update(t)
      BY <3>4 DEF Update, service
    <3> QED
      BY <2>9, <3>1, <3>2, <3>3, <3>4 DEF CheckCamConditions
  <2> QED
    BY <2>1, <2>2, <2>3, <2>4, <2>5, <2>6, <2>7, <2>8, <2>9
    DEF Next, AppNext, TimerNext
<1> QED
  BY <1>1, <1>2, TypeCorrect, PTL DEF Spec

(* As long as start() and stop() are not called during a callback, there   *)
(* is one chain of timers and callbacks (start, stop,                      *)
(* _schedule_next_check).                                                  *)
THEOREM CalmOneChain ==
  ASSUME Calm
  PROVE  Spec => []OneChain
<1>1. ChainInv => OneChain
  <2> DEFINE S == {t \in Timer : timer[t] = "armed" \/ pc[t] # "idle"}
  <2> SUFFICES ASSUME ChainInv PROVE Cardinality(S) <= 1
    BY DEF OneChain
  <2>1. CASE S = {}
    BY <2>1, FS_EmptySet
  <2>2. CASE S # {}
    <3>1. PICK t \in S : TRUE
      BY <2>2
    <3>2. S = {t}
      BY <3>1 DEF ChainInv, Busy
    <3>3. Cardinality({t}) = 1
      BY FS_Singleton
    <3> QED
      BY <3>2, <3>3
  <2> QED
    BY <2>1, <2>2
<1> QED
  BY <1>1, ChainInvariant, PTL

(* ... and stop() leaves no armed timer behind (stop).                     *)
THEOREM CalmStopCancels ==
  ASSUME Calm
  PROVE  Spec => []StopCancels
<1>1. ChainInv => StopCancels
  BY DEF ChainInv, StopCancels
<1> QED
  BY <1>1, ChainInvariant, PTL
-----------------------------------------------------------------------------
(* The times the rules go by (_last_cam_time_ms, _last_lf_time_ms) and     *)
(* those of the CAMs that were sent.  They agree, but for the time between *)
(* the sending of a CAM and _update_send_state.                            *)
SpacedInv ==
  /\ (\A t \in Timer : pc[t] # "update") =>
       /\ txAge # Never => camAge # Never /\ txAge >= camAge
       /\ lfAge = txLfAge
       /\ ~counted => txLfAge = Never
  /\ \A t \in Timer :
       /\ pc[t] = "transmit" /\ txAge # Never /\ cam[t].elapsed > 0 =>
            txAge - cam[t].age >= GenDcc
       /\ pc[t] = "update" =>
            /\ txAge # Never /\ txAge >= cam[t].age
            /\ txLfAge = LfTime(t)

CalmInv == TypeOK /\ ChainInv

LEMMA CalmTypes ==
  ASSUME CalmInv
  PROVE  /\ camAge = Never \/ camAge \in 0..GenMax
         /\ lfAge = Never \/ lfAge \in 0..LfPeriod
         /\ txAge = Never \/ txAge \in 0..(GenMax + GenDcc)
         /\ txLfAge = Never \/ txLfAge \in 0..LfPeriod
         /\ genCam \in 0..GenMax
         /\ \A t \in Timer : /\ cam[t] \in Cam
                             /\ cam[t].age \in 0..GenMax
                             /\ cam[t].elapsed \in 0..GenMax
                             /\ left[t] \in 0..CheckPeriod
         /\ Never \notin Nat
BY Periods, NeverAssumption DEF CalmInv, TypeOK, Age, Cam

(* Steps that leave the times and the CAM alone.                           *)
LEMMA SpacedFrame ==
  ASSUME SpacedInv, UNCHANGED <<camAge, lfAge, counted, txAge, txLfAge, cam>>,
         \A t \in Timer : /\ pc'[t] = "transmit" => pc[t] = "transmit"
                          /\ pc'[t] = "update" <=> pc[t] = "update"
  PROVE  SpacedInv'
BY DEF SpacedInv, LfTime

LEMMA TickSpaced ==
  ASSUME CalmInv, SpacedInv, Tick
  PROVE  SpacedInv'
<1>0. /\ pc' = pc /\ counted' = counted
      /\ camAge' = Older(camAge, GenMax) /\ lfAge' = Older(lfAge, LfPeriod)
      /\ txAge' = Older(txAge, GenMax + GenDcc) /\ txLfAge' = Older(txLfAge, LfPeriod)
      /\ \A t \in Timer : pc[t] \in {"transmit", "update"} =>
           cam'[t] = [cam[t] EXCEPT !.age = Cut(cam[t].age + 1, GenMax)]
  BY DEF Tick
<1>1. \A t \in Timer : pc[t] \in {"transmit", "update"} =>
        /\ cam'[t].age = Cut(cam[t].age + 1, GenMax)
        /\ cam'[t].elapsed = cam[t].elapsed
        /\ cam'[t].lf = cam[t].lf
  BY <1>0, CalmTypes DEF Cam
<1>2. camAge' = Never <=> camAge = Never
  BY <1>0, CalmTypes, Periods DEF Older, Cut
<1>3. /\ txAge' = Never <=> txAge = Never
      /\ txLfAge' = Never <=> txLfAge = Never
  BY <1>0, CalmTypes, Periods DEF Older, Cut
<1>4. CASE \A t \in Timer : pc[t] # "update"
  <2>1. txAge' # Never => camAge' # Never /\ txAge' >= camAge'
    BY <1>0, <1>2, <1>3, <1>4, CalmTypes, Periods DEF SpacedInv, Older, Cut
  <2>2. lfAge' = txLfAge' /\ (~counted' => txLfAge' = Never)
    BY <1>0, <1>3, <1>4 DEF SpacedInv
  <2>3. ASSUME NEW t \in Timer, pc[t] = "transmit", txAge' # Never, cam'[t].elapsed > 0
        PROVE  txAge' - cam'[t].age >= GenDcc
    <3>1. txAge # Never /\ txAge - cam[t].age >= GenDcc
      BY <1>1, <1>3, <2>3 DEF SpacedInv
    <3> QED
      BY <1>0, <1>1, <2>3, <3>1, CalmTypes, Periods DEF Older, Cut
  <2> QED
    BY <1>0, <1>4, <2>1, <2>2, <2>3 DEF SpacedInv
<1>5. ASSUME NEW t \in Timer, pc[t] = "update"
      PROVE  SpacedInv'
  <2>1. \A u \in Timer : pc[u] # "idle" => u = t
    BY <1>5 DEF CalmInv, ChainInv, Busy
  <2>2. txAge # Never /\ txAge >= cam[t].age /\ txLfAge = LfTime(t)
    BY <1>5 DEF SpacedInv
  <2>3. txAge' # Never /\ txAge' >= cam'[t].age
    BY <1>0, <1>1, <1>5, <2>2, CalmTypes, Periods DEF Older, Cut
  <2>4. txLfAge' = LfTime(t)'
    <3>1. CASE cam[t].lf
      BY <1>0, <1>1, <1>5, <2>2, <3>1, CalmTypes, Periods, PeriodAssumption
      DEF LfTime, Older, Cut
    <3>2. CASE ~cam[t].lf
      BY <1>0, <1>1, <1>5, <2>2, <3>2 DEF LfTime
    <3> QED
      BY <3>1, <3>2
  <2> QED
    BY <1>0, <1>5, <2>1, <2>3, <2>4 DEF SpacedInv
<1> QED
  BY <1>4, <1>5

LEMMA CheckSpaced ==
  ASSUME CalmInv, SpacedInv, "ldm" \notin Failures,
         NEW t \in Timer, CheckCamConditions(t)
  PROVE  SpacedInv'
<1>0. /\ pc \in [Thread -> {"idle"} \cup Callback \cup Schedule \cup AppStep]
      /\ t \in Thread
      /\ \A u \in Timer : u \in Thread /\ (pc[u] # "idle" => u = t)
      /\ pc[t] # "idle"
  BY DEF CalmInv, TypeOK, ChainInv, Busy, Thread, CheckCamConditions, Enter,
     Evaluate, Transmit, Update
<1>1. CASE Enter(t)
  BY <1>0, <1>1, SpacedFrame DEF Enter, Goto, rules, history
<1>2. CASE Evaluate(t)
  <2>1. /\ UNCHANGED <<camAge, lfAge, counted, txAge, txLfAge>>
        /\ pc[t] = "evaluate"
        /\ pc' = [pc EXCEPT ![t] = "transmit"] \/ pc' = [pc EXCEPT ![t] = "check"]
    BY <1>2 DEF Evaluate, Goto, rules, history
  <2>2. \A u \in Timer : pc[u] # "update" /\ pc'[u] # "update"
    BY <1>0, <2>1
  <2>3. ASSUME NEW u \in Timer, pc'[u] = "transmit", txAge # Never, cam'[u].elapsed > 0
        PROVE  txAge - cam'[u].age >= GenDcc
    <3>1. u = t /\ pc'[t] = "transmit"
      BY <1>0, <2>1, <2>3
    <3>2. PICK moved \in BOOLEAN :
            /\ FirstDue \/ HighDue(moved) \/ TimeDue
            /\ cam' = [cam EXCEPT ![t] =
                 [age |-> 0, high |-> FirstDue \/ HighDue(moved), lf |-> IncludeLf,
                  elapsed |-> IF FirstDue THEN 0 ELSE camAge]]
      BY <1>0, <1>2, <3>1 DEF Evaluate, Goto
    <3>3. cam'[t].age = 0 /\ cam'[t].elapsed = IF FirstDue THEN 0 ELSE camAge
      BY <3>2 DEF CalmInv, TypeOK
    <3>4. ~FirstDue /\ camAge >= GenDcc
      BY <2>3, <3>1, <3>2, <3>3 DEF HighDue, TimeDue, DccElapsed
    <3>5. camAge # Never /\ txAge >= camAge
      BY <2>2, <2>3 DEF SpacedInv
    <3> QED
      BY <2>3, <3>1, <3>3, <3>4, <3>5, CalmTypes, Periods
  <2> QED
    BY <2>1, <2>2, <2>3 DEF SpacedInv
<1>3. CASE Transmit(t)
  <2>0. UNCHANGED <<camAge, lfAge, counted>> /\ pc[t] = "transmit"
    BY <1>3 DEF Transmit, rules
  <2>1. CASE pc' = [pc EXCEPT ![t] = "update"] /\ cam' = cam /\ txAge' = cam[t].age
             /\ txLfAge' = IF cam[t].lf THEN Cut(cam[t].age, LfPeriod) ELSE txLfAge
    <3>1. lfAge = txLfAge
      BY <1>0, <2>0 DEF SpacedInv
    <3>2. txLfAge' = LfTime(t)'
      BY <2>0, <2>1, <3>1 DEF LfTime
    <3>3. txAge' # Never /\ txAge' >= cam'[t].age
      BY <2>1, CalmTypes, Periods
    <3> QED
      BY <1>0, <2>1, <3>2, <3>3 DEF SpacedInv
  <2>2. CASE pc' = [pc EXCEPT ![t] = "check"] /\ UNCHANGED <<txAge, txLfAge>>
    <3>1. \A u \in Timer : pc'[u] # "update" /\ pc'[u] # "transmit" /\ pc[u] # "update"
      BY <1>0, <2>0, <2>2
    <3> QED
      BY <2>0, <2>2, <3>1 DEF SpacedInv
  <2> QED
    BY <1>3, <2>1, <2>2 DEF Transmit, Goto, AfterFailure
<1>4. CASE Update(t)
  <2>1. /\ camAge' = cam[t].age /\ lfAge' = LfTime(t) /\ counted' = TRUE
        /\ UNCHANGED <<txAge, txLfAge>> /\ pc' = [pc EXCEPT ![t] = "check"]
        /\ pc[t] = "update"
    BY <1>4 DEF Update, Goto, history
  <2>2. \A u \in Timer : pc'[u] # "update" /\ pc'[u] # "transmit"
    BY <1>0, <2>1
  <2>3. camAge' # Never
    BY <2>1, CalmTypes, Periods
  <2> QED
    BY <2>1, <2>2, <2>3 DEF SpacedInv
<1> QED
  BY <1>1, <1>2, <1>3, <1>4 DEF CheckCamConditions

LEMMA SpacedStep ==
  ASSUME CalmInv, SpacedInv, "ldm" \notin Failures, [Next]_vars
  PROVE  SpacedInv'
<1>0. /\ pc \in [Thread -> {"idle"} \cup Callback \cup Schedule \cup AppStep]
      /\ App \in Thread /\ \A t \in Timer : t \in Thread /\ t # App
  BY AppIsNoTimer DEF CalmInv, TypeOK, Thread
<1> USE DEF Goto
<1>1. CASE Start \/ Stop \/ Cancel \/ Clear
  <2>1. UNCHANGED <<rules, cam, history>> /\ \A t \in Timer : pc'[t] = pc[t]
    BY <1>0, <1>1 DEF Start, Stop, Cancel, Clear
  <2> QED
    BY <2>1, SpacedFrame DEF rules, history
<1>2. CASE Reset
  <2>1. \A t \in Timer : pc'[t] = "idle"
    BY <1>0, <1>2 DEF Reset, CalmInv, ChainInv, Busy
  <2> QED
    BY <1>2, <2>1 DEF Reset, SpacedInv
<1>3. CASE LocationCallback
  BY <1>3, SpacedFrame DEF LocationCallback, rules
<1>4. ASSUME NEW x \in Thread, ScheduleNext(x) PROVE SpacedInv'
  <2>1. /\ UNCHANGED <<rules, cam, history>>
        /\ pc[x] \in Schedule
        /\ \E s \in {"idle", "assign", "daemon", "launch"} : pc' = [pc EXCEPT ![x] = s]
    BY <1>4 DEF ScheduleNext, CheckActive, Assign, SetDaemon, Launch, Schedule
  <2>2. \A t \in Timer : /\ pc'[t] = "transmit" => pc[t] = "transmit"
                         /\ pc'[t] = "update" <=> pc[t] = "update"
    BY <1>0, <2>1 DEF Schedule
  <2> QED
    BY <2>1, <2>2, SpacedFrame DEF rules, history
<1>5. ASSUME NEW t \in Timer, Elapse(t) PROVE SpacedInv'
  <2>1. /\ UNCHANGED <<rules, cam, history>>
        /\ pc[t] = "idle" /\ pc' = [pc EXCEPT ![t] = "entry"]
    BY <1>5 DEF Elapse, CalmInv, ChainInv
  <2> QED
    BY <1>0, <2>1, SpacedFrame DEF rules, history
<1>6. CASE UNCHANGED vars
  BY <1>6, SpacedFrame DEF vars, rules, history
<1> QED
  BY <1>0, <1>1, <1>2, <1>3, <1>4, <1>5, <1>6, TickSpaced, CheckSpaced
  DEF Next, AppNext, TimerNext

(* While start() and stop() are not called during a callback and the Local *)
(* Dynamic Map does not raise (a CAM that is sent and then fails is not    *)
(* remembered), no CAM follows another within T_GenCam_DCC and the         *)
(* low-frequency container keeps its period, whatever is late and          *)
(* whichever CAMs cannot be built or sent (_evaluate_and_maybe_send,       *)
(* _should_include_lf, _update_send_state).                                *)
THEOREM CalmRegular ==
  ASSUME Calm, "ldm" \notin Failures
  PROVE  Spec => CamsRegular
<1>1. Init => SpacedInv
  <2> SUFFICES ASSUME Init PROVE SpacedInv
    OBVIOUS
  <2>1. \A t \in Timer : pc[t] = "idle"
    BY DEF Init, Thread
  <2> QED
    BY <2>1 DEF Init, SpacedInv
<1>2. CalmInv /\ SpacedInv /\ [Next]_vars => SpacedInv'
  BY SpacedStep
<1>3. Spec => []CalmInv
  BY TypeCorrect, ChainInvariant, PTL DEF CalmInv
<1>4. CalmInv /\ SpacedInv =>
        [\A t \in Timer :
           /\ Transmit(t) /\ pc'[t] = "update"
           /\ txAge # Never /\ cam[t].elapsed > 0 /\ cam[t].age < GenMax
           => txAge - cam[t].age >= GenDcc]_vars
  BY DEF SpacedInv, Transmit
<1>5. CalmInv /\ SpacedInv =>
        [\A t \in Timer :
           Evaluate(t) /\ pc'[t] = "transmit"
             => (cam'[t].lf <=> txLfAge \in {Never, LfPeriod})]_vars
  <2> SUFFICES ASSUME CalmInv, SpacedInv, NEW t \in Timer, Evaluate(t), pc'[t] = "transmit"
               PROVE  cam'[t].lf <=> txLfAge \in {Never, LfPeriod}
    OBVIOUS
  <2>1. \A u \in Timer : pc[u] # "update"
    BY DEF Evaluate, CalmInv, ChainInv, Busy
  <2>2. lfAge = txLfAge /\ (~counted => txLfAge = Never)
    BY <2>1 DEF SpacedInv
  <2>3. cam'[t].lf = IncludeLf
    <3>1. \E h, e : cam' = [cam EXCEPT ![t] = [age |-> 0, high |-> h, lf |-> IncludeLf, elapsed |-> e]]
      <4>1. pc \in [Thread -> {"idle"} \cup Callback \cup Schedule \cup AppStep] /\ t \in Thread
        BY DEF CalmInv, TypeOK, Thread
      <4> QED
        BY <4>1 DEF Evaluate, Goto
    <3> QED
      BY <3>1 DEF CalmInv, TypeOK
  <2>4. IncludeLf <=> txLfAge \in {Never, LfPeriod}
    BY <2>2, CalmTypes, Periods DEF IncludeLf
  <2> QED
    BY <2>3, <2>4
<1> QED
  BY <1>1, <1>2, <1>3, <1>4, <1>5, PTL DEF Spec, CamsRegular, CamsSpaced, LfRegular
-----------------------------------------------------------------------------
(* How long it is since a CAM was due, at a point of the chain that is l   *)
(* before the next check: no more than one T_CheckCamGen before the first  *)
(* CAM; then as long as it is since the last one, and the checks fall on   *)
(* multiples of T_CheckCamGen after it.                                    *)
Grid(n) == \E k \in Nat : n = k * CheckPeriod
Between(l) ==
  IF camAge = Never THEN wait + l <= CheckPeriod
                    ELSE wait = camAge /\ Grid(camAge + l) /\ camAge + l <= GenMax

ChainOnTime ==
  /\ pc[App] \in Schedule => camAge = Never /\ wait = 0
  /\ \A t \in Timer :
       /\ timer[t] = "armed" => Between(left[t])
       /\ pc[t] \in {"entry", "evaluate"} => Between(0)
       /\ pc[t] \in {"transmit", "update"} => fix /\ cam[t].age = 0
       /\ pc[t] = "update" => wait = 0
       /\ pc[t] \in Schedule => Between(CheckPeriod)
       /\ pc[t] \in {"daemon", "launch"} /\ ref # NoTimer => left[ref] = CheckPeriod

PunctualInv ==
  ~troubled => /\ wait <= GenMax
               /\ ~fix => wait = 0 /\ camAge = Never
               /\ active /\ pc[App] # "reset" => ChainOnTime

(* A check before T_GenCamMax is followed by another one.                  *)
LEMMA NextOnGrid ==
  ASSUME NEW a \in Nat, Grid(a), Grid(GenMax), a < GenMax
  PROVE  Grid(a + CheckPeriod) /\ a + CheckPeriod <= GenMax
<1>1. PICK i \in Nat : a = i * CheckPeriod
  BY DEF Grid
<1>2. PICK k \in Nat : GenMax = k * CheckPeriod
  BY DEF Grid
<1>3. CheckPeriod \in Nat /\ 0 < CheckPeriod
  BY PeriodAssumption
<1>4. a + CheckPeriod = (i + 1) * CheckPeriod
  BY <1>1, <1>3
<1>5. i < k
  BY <1>1, <1>2, <1>3
<1>6. (i + 1) * CheckPeriod <= k * CheckPeriod
  BY <1>3, <1>5
<1> QED
  BY <1>2, <1>4, <1>6 DEF Grid

LEMMA GridZero == Grid(0) /\ Grid(CheckPeriod)
<1>1. 0 = 0 * CheckPeriod /\ CheckPeriod = 1 * CheckPeriod
  BY Periods
<1> QED
  BY <1>1 DEF Grid

PunctualTypes ==
  /\ wait \in Nat /\ troubled \in BOOLEAN /\ active \in BOOLEAN /\ fix \in BOOLEAN
  /\ pc \in [Thread -> {"idle"} \cup Callback \cup Schedule \cup AppStep]
  /\ timer \in [Timer -> TimerStep]
  /\ ref \in Timer \cup {NoTimer}

LEMMA CalmShape ==
  ASSUME CalmInv
  PROVE  PunctualTypes
BY Periods DEF CalmInv, TypeOK, PunctualTypes

LEMMA TickPunctual ==
  ASSUME CalmInv, ServiceAlive, PunctualInv, Tick
  PROVE  PunctualInv'
<1> SUFFICES ASSUME ~troubled' PROVE PunctualInv'
  BY DEF PunctualInv
<1>1. /\ ~troubled /\ Idle
      /\ UNCHANGED <<active, ref, timer, pc, fix>>
      /\ camAge' = Older(camAge, GenMax)
      /\ wait' = IF active /\ fix THEN Cut(wait + 1, GenMax + 1) ELSE 0
      /\ \A t \in Timer : timer[t] = "armed" =>
           left[t] > 0 /\ left'[t] = left[t] - 1
  BY DEF Tick, Idle
<1>2. \A x \in Thread : pc'[x] = "idle"
  BY <1>1 DEF Idle
<1>3. camAge' = Never <=> camAge = Never
  BY <1>1, CalmTypes, Periods DEF Older, Cut
<1>4. ~fix => wait' = 0 /\ camAge' = Never
  BY <1>1, <1>3 DEF PunctualInv
<1>5. CASE ~active
  BY <1>1, <1>4, <1>5, Periods DEF PunctualInv
<1>6. CASE active
  <2>1. PICK t \in Timer : timer[t] = "armed"
    BY <1>1, <1>6 DEF ServiceAlive, Driven, Idle, Callback, Thread
  <2>2. ChainOnTime
    BY <1>1, <1>2, <1>6, AppIsNoTimer DEF PunctualInv
  <2>3. ASSUME NEW u \in Timer, timer[u] = "armed"
        PROVE  Between(left[u])' /\ wait' <= GenMax
    <3>1. /\ Between(left[u]) /\ left[u] > 0 /\ left[u] \in 0..CheckPeriod
          /\ left'[u] = left[u] - 1
      BY <1>1, <2>2, <2>3, CalmTypes DEF ChainOnTime
    <3>2. CASE camAge = Never
      <4>1. wait + left[u] <= CheckPeriod /\ CheckPeriod <= GenMax
        BY <3>1, <3>2, PeriodAssumption, Periods DEF Between
      <4>2. wait' <= wait + 1 /\ wait' \in Nat /\ wait \in Nat
        BY <1>1, CalmShape, Periods DEF Cut, PunctualTypes
      <4>3. wait' + left'[u] <= CheckPeriod /\ wait' <= GenMax
        BY <3>1, <4>1, <4>2, Periods
      <4> QED
        BY <1>3, <3>2, <4>3 DEF Between
    <3>3. CASE camAge # Never
      <4>1. /\ camAge \in 0..GenMax
            /\ wait = camAge /\ Grid(camAge + left[u]) /\ camAge + left[u] <= GenMax
            /\ fix
        BY <1>1, <3>1, <3>3, CalmTypes DEF Between, PunctualInv
      <4>2. camAge' = camAge + 1 /\ wait' = camAge + 1
        BY <1>1, <1>6, <3>1, <3>3, <4>1, Periods DEF Older, Cut
      <4>3. camAge' + left'[u] = camAge + left[u]
        BY <3>1, <4>1, <4>2, Periods
      <4>4. Grid(camAge' + left'[u]) /\ camAge' + left'[u] <= GenMax /\ wait' = camAge'
        BY <4>1, <4>2, <4>3
      <4>5. wait' <= GenMax
        BY <3>1, <4>1, <4>2, Periods
      <4> QED
        BY <1>3, <3>3, <4>4, <4>5 DEF Between
    <3> QED
      BY <3>2, <3>3
  <2>4. ChainOnTime'
    <3>1. \A u \in Timer : pc'[u] = "idle" /\ pc'[App] = "idle"
      BY <1>2, AppIsNoTimer DEF Thread
    <3>2. \A u \in Timer : timer'[u] = "armed" => Between(left[u])'
      BY <1>1, <2>3
    <3> QED
      BY <3>1, <3>2 DEF ChainOnTime, Schedule
  <2> QED
    BY <1>4, <2>1, <2>3, <2>4, <1>1 DEF PunctualInv
<1> QED
  BY <1>5, <1>6, CalmShape DEF PunctualTypes

(* Steps that move no time and nothing in the chain.                       *)
LEMMA PunctualFrame ==
  ASSUME CalmInv, PunctualInv, UNCHANGED <<camAge, wait, troubled, fix>>,
         active' /\ pc'[App] # "reset" =>
           /\ active /\ pc[App] # "reset"
           /\ pc'[App] \in Schedule => pc[App] \in Schedule
           /\ \A t \in Timer :
                /\ timer'[t] = "armed" /\ ~(timer[t] = "armed" /\ left'[t] = left[t])
                     => Between(left'[t])
                /\ pc'[t] \in {"entry", "evaluate"} /\ pc[t] \notin {"entry", "evaluate"}
                     => Between(0)
                /\ pc'[t] \in {"transmit", "update"} => pc'[t] = pc[t] /\ cam'[t] = cam[t]
                /\ pc'[t] \in Schedule => pc[t] \in Schedule
                /\ pc'[t] \in {"daemon", "launch"} =>
                     \/ UNCHANGED <<ref, left>> /\ pc[t] \in {"daemon", "launch"}
                     \/ left'[ref'] = CheckPeriod
  PROVE  PunctualInv'
<1>1. \A l : Between(l) <=> (IF camAge' = Never THEN wait' + l <= CheckPeriod
             ELSE wait' = camAge' /\ Grid(camAge' + l) /\ camAge' + l <= GenMax)
  BY DEF Between
<1> SUFFICES ASSUME ~troubled', active', pc'[App] # "reset" PROVE ChainOnTime'
  BY DEF PunctualInv
<1>2. ChainOnTime
  BY DEF PunctualInv
<1>3. pc'[App] \in Schedule => camAge' = Never /\ wait' = 0
  BY <1>2 DEF ChainOnTime
<1>4. ASSUME NEW t \in Timer
      PROVE  /\ timer'[t] = "armed" => Between(left[t])'
             /\ pc'[t] \in {"entry", "evaluate"} => Between(0)'
             /\ pc'[t] \in {"transmit", "update"} => fix' /\ cam'[t].age = 0
             /\ pc'[t] = "update" => wait' = 0
             /\ pc'[t] \in Schedule => Between(CheckPeriod)'
             /\ pc'[t] \in {"daemon", "launch"} /\ ref' # NoTimer => left'[ref'] = CheckPeriod
  <2>1. timer'[t] = "armed" => Between(left[t])'
    BY <1>2, <1>1 DEF ChainOnTime, Between
  <2>2. pc'[t] \in {"entry", "evaluate"} => Between(0)'
    BY <1>2, <1>1 DEF ChainOnTime, Between
  <2>3. pc'[t] \in Schedule => Between(CheckPeriod)'
    BY <1>2, <1>1 DEF ChainOnTime, Between
  <2> QED
    BY <1>2, <2>1, <2>2, <2>3 DEF ChainOnTime
<1> QED
  BY <1>3, <1>4 DEF ChainOnTime

LEMMA ChainPunctual ==
  ASSUME CalmInv, PunctualInv, NEW x \in Thread, ScheduleNext(x)
  PROVE  PunctualInv'
<1>0. /\ PunctualTypes /\ App \in Thread
      /\ \A t \in Timer : t \in Thread /\ t # App /\ t # NoTimer
      /\ UNCHANGED <<camAge, wait, troubled, fix, cam, active>>
      /\ pc[x] \in Schedule
  <2>1. \A t \in Timer : t \in Thread /\ t # App /\ t # NoTimer
    BY AppIsNoTimer, TimerAssumption DEF Thread
  <2>2. UNCHANGED <<camAge, wait, troubled, fix, cam, active>> /\ pc[x] \in Schedule
    BY DEF ScheduleNext, CheckActive, Assign, SetDaemon, Launch, service, rules, history, Schedule
  <2> QED
    BY <2>1, <2>2, CalmShape, AppIsNoTimer
<1>1. active /\ \A t \in Timer : timer[t] # "armed" /\ (pc[t] # "idle" => t = x)
  <2>1. CASE x = App
    BY <1>0, <2>1 DEF CalmInv, ChainInv, Busy
  <2>2. CASE x # App
    BY <1>0, <2>2 DEF CalmInv, ChainInv, Busy, Thread, Schedule
  <2> QED
    BY <2>1, <2>2
<1> USE DEF PunctualTypes, Goto, Schedule
<1>2. CASE CheckActive(x)
  <2>1. UNCHANGED <<timer, left, ref>> /\ pc' = [pc EXCEPT ![x] = IF active THEN "assign" ELSE "idle"]
        /\ pc[x] = "check"
    BY <1>2 DEF CheckActive, service
  <2> QED
    BY <1>0, <1>1, <2>1, PunctualFrame
<1>3. CASE Assign(x)
  <2>1. PICK u \in Timer, d \in Nat :
          /\ ref' = u /\ timer' = [Dropped EXCEPT ![u] = "made"]
          /\ left' = [left EXCEPT ![u] = d]
          /\ x # App => d = CheckPeriod
    <3>1. PICK u \in Timer :
            /\ ref' = u /\ timer' = [Dropped EXCEPT ![u] = "made"]
            /\ \E d \in IF x = App THEN 0..CheckPeriod ELSE {CheckPeriod} :
                 left' = [left EXCEPT ![u] = d]
      BY <1>3 DEF Assign
    <3>2. PICK d \in IF x = App THEN 0..CheckPeriod ELSE {CheckPeriod} :
            left' = [left EXCEPT ![u] = d]
      BY <3>1
    <3>3. d \in Nat /\ (x # App => d = CheckPeriod)
      BY <3>2, Periods
    <3> QED
      BY <3>1, <3>2, <3>3
  <2>2. /\ \A t \in Timer : timer'[t] # "armed"
        /\ left'[u] = d
        /\ pc' = [pc EXCEPT ![x] = "daemon"] /\ pc[x] = "assign"
    BY <1>1, <1>3, <2>1 DEF Assign, Dropped, CalmInv, TypeOK
  <2>3. \A t \in Timer : pc'[t] \in {"daemon", "launch"} => left'[ref'] = CheckPeriod
    BY <1>0, <1>1, <2>1, <2>2
  <2> QED
    BY <1>0, <1>1, <2>2, <2>3, PunctualFrame
<1>4. CASE SetDaemon(x)
  <2>1. UNCHANGED <<timer, left, ref>> /\ pc' = [pc EXCEPT ![x] = IF NotStarted THEN "launch" ELSE "idle"]
        /\ pc[x] = "daemon"
    BY <1>4 DEF SetDaemon, service
  <2> QED
    BY <1>0, <1>1, <2>1, PunctualFrame
<1>5. CASE Launch(x)
  <2>1. /\ UNCHANGED <<left, ref>> /\ pc' = [pc EXCEPT ![x] = "idle"]
        /\ pc[x] = "launch"
        /\ \A t \in Timer : timer'[t] = "armed" => t = ref
    BY <1>1, <1>5 DEF Launch, NotStarted
  <2>2. \A t \in Timer : pc'[t] = "idle"
    BY <1>0, <1>1, <2>1
  <2>3. pc'[App] \notin Schedule \cup {"reset"}
    <3>1. CASE x = App
      BY <1>0, <2>1, <3>1
    <3>2. CASE x # App
      <4>1. x \in Timer /\ Busy(x) /\ pc'[App] = pc[App]
        BY <1>0, <2>1, <3>2 DEF Busy, Thread
      <4> QED
        BY <4>1 DEF CalmInv, ChainInv
    <3> QED
      BY <3>1, <3>2
  <2>4. ASSUME ~troubled, NEW t \in Timer, timer'[t] = "armed"
        PROVE  Between(left'[t])
    <3>1. t = ref /\ left'[t] = left[t] /\ left[t] \in 0..CheckPeriod /\ wait \in Nat
      BY <1>0, <2>1, <2>4, CalmTypes
    <3>2. pc[App] # "reset" /\ ChainOnTime
      <4>1. pc[App] # "reset"
        BY <1>0, <2>1 DEF CalmInv, ChainInv, Busy, Thread
      <4> QED
        BY <1>1, <2>4, <4>1 DEF PunctualInv
    <3>3. CASE x = App
      <4>1. camAge = Never /\ wait = 0
        BY <2>1, <3>2, <3>3 DEF ChainOnTime
      <4> QED
        BY <3>1, <4>1, Periods DEF Between
    <3>4. CASE x # App
      <4>1. x \in Timer /\ Between(CheckPeriod) /\ left[ref] = CheckPeriod
        BY <1>0, <2>1, <3>1, <3>2, <3>4 DEF ChainOnTime, Thread
      <4> QED
        BY <3>1, <4>1
    <3> QED
      BY <3>3, <3>4
  <2>5. CASE troubled
    BY <1>0, <2>5 DEF PunctualInv
  <2> QED
    BY <1>0, <1>1, <2>1, <2>2, <2>3, <2>4, <2>5, PunctualFrame
<1> QED
  BY <1>2, <1>3, <1>4, <1>5 DEF ScheduleNext

LEMMA CheckPunctual ==
  ASSUME CalmInv, PunctualInv, Grid(GenMax), NEW t \in Timer,
         Elapse(t) \/ CheckCamConditions(t)
  PROVE  PunctualInv'
<1>0. /\ PunctualTypes /\ App \in Thread /\ t \in Thread
      /\ \A u \in Timer : u \in Thread /\ u # App /\ u # NoTimer
      /\ active' = active /\ fix' = fix
  BY CalmShape, AppIsNoTimer, TimerAssumption
  DEF Thread, Elapse, CheckCamConditions, Enter, Evaluate, Transmit, Update, service
<1>1. \A u \in Timer : Busy(u) => u = t
  BY DEF CalmInv, ChainInv, Busy, Elapse, CheckCamConditions, Enter, Evaluate, Transmit, Update
<1>2. pc[App] \notin {"reset"} \cup Schedule
  BY <1>0 DEF CalmInv, ChainInv, Busy, Elapse, CheckCamConditions, Enter, Evaluate, Transmit, Update
<1>3. active => (troubled \/ ChainOnTime)
  BY <1>0, <1>2 DEF PunctualInv
<1> USE DEF PunctualTypes, Goto, Schedule
<1>4. CASE Elapse(t)
  <2>1. /\ timer[t] = "armed" /\ left[t] = 0 /\ timer' = [timer EXCEPT ![t] = "idle"]
        /\ pc' = [pc EXCEPT ![t] = "entry"]
        /\ UNCHANGED <<left, ref, camAge, wait, troubled, cam>>
    BY <1>4 DEF Elapse, rules, history
  <2>2. active /\ ~troubled => Between(0)
    BY <1>3, <2>1 DEF ChainOnTime
  <2>3. CASE troubled
    BY <2>1, <2>3 DEF PunctualInv
  <2> QED
    BY <1>0, <1>2, <2>1, <2>2, <2>3, PunctualFrame
<1>5. CASE Enter(t)
  <2>1. /\ pc[t] = "entry" /\ pc' = [pc EXCEPT ![t] = IF active THEN "evaluate" ELSE "idle"]
        /\ UNCHANGED <<timer, left, ref, camAge, wait, troubled, cam>>
    BY <1>5 DEF Enter, service, rules, history
  <2> QED
    BY <1>0, <1>2, <2>1, PunctualFrame
<1>6. ASSUME Evaluate(t) \/ Transmit(t) \/ Update(t), ~troubled'
      PROVE  PunctualInv'
  <2>1. /\ UNCHANGED <<timer, left, ref>> /\ ~troubled /\ pc[t] \in {"evaluate", "transmit", "update"}
    BY <1>6, <1>0 DEF Evaluate, Transmit, Update, service, history
  <2>2. active /\ ChainOnTime
    <3>1. active
      BY <2>1 DEF CalmInv, ChainInv
    <3> QED
      BY <1>3, <2>1, <3>1
  <2>3. ASSUME NEW s, s \notin {"entry", "evaluate", "daemon", "launch", "assign"},
               pc' = [pc EXCEPT ![t] = s],
               s \in {"transmit", "update"} => fix /\ cam'[t].age = 0,
               s = "update" => wait' = 0,
               s = "check" => Between(CheckPeriod)',
               wait' <= GenMax, ~fix => wait' = 0 /\ camAge' = Never
        PROVE  PunctualInv'
    <3>1. pc'[t] = s /\ pc'[App] = pc[App] /\ \A u \in Timer : u # t => pc'[u] = "idle" /\ timer'[u] # "armed"
      BY <1>0, <1>1, <2>1, <2>3 DEF Busy
    <3>2. timer'[t] # "armed"
      BY <2>1 DEF CalmInv, ChainInv
    <3>3. ChainOnTime'
      BY <1>0, <1>2, <2>3, <3>1, <3>2 DEF ChainOnTime
    <3> QED
      BY <1>0, <2>3, <3>3 DEF PunctualInv
  <2>4. CASE Evaluate(t)
    <3>1. /\ pc[t] = "evaluate" /\ UNCHANGED <<camAge, wait>>
          /\ wait <= GenMax /\ (~fix => wait = 0 /\ camAge = Never)
          /\ Between(0)
      BY <2>1, <2>2, <2>4 DEF Evaluate, rules, history, PunctualInv, ChainOnTime
    <3>2. PICK moved \in BOOLEAN :
            LET high == FirstDue \/ HighDue(moved)
            IN IF fix /\ (high \/ TimeDue)
               THEN /\ cam' = [cam EXCEPT ![t] =
                         [age |-> 0, high |-> high, lf |-> IncludeLf,
                          elapsed |-> IF FirstDue THEN 0 ELSE camAge]]
                    /\ Goto(t, "transmit")
               ELSE cam' = cam /\ Goto(t, "check")
      BY <2>4 DEF Evaluate
    <3>3. CASE fix /\ (FirstDue \/ HighDue(moved) \/ TimeDue)
      <4>1. cam'[t].age = 0 /\ pc' = [pc EXCEPT ![t] = "transmit"]
        BY <3>2, <3>3 DEF CalmInv, TypeOK
      <4> QED
        BY <3>1, <3>3, <4>1, <2>3
    <3>4. CASE ~(fix /\ (FirstDue \/ HighDue(moved) \/ TimeDue))
      <4>1. pc' = [pc EXCEPT ![t] = "check"]
        BY <3>2, <3>4
      <4>2. Between(CheckPeriod)
        <5>1. CASE camAge = Never
          BY <3>1, <3>4, <5>1, Periods DEF FirstDue, Between
        <5>2. CASE camAge # Never
          <6>1. fix /\ camAge \in 0..GenMax /\ wait = camAge /\ Grid(camAge + 0)
            BY <3>1, <5>2, CalmTypes DEF Between
          <6>2. camAge < GenMax
            BY <3>4, <5>2, <6>1, CalmTypes, Periods, PeriodAssumption
            DEF TimeDue, FirstDue, DccElapsed, TimeUp
          <6>3. camAge + 0 = camAge
            BY <6>1, Periods
          <6>4. Grid(camAge + CheckPeriod) /\ camAge + CheckPeriod <= GenMax
            BY <6>1, <6>2, <6>3, NextOnGrid, Periods
          <6> QED
            BY <5>2, <6>1, <6>4 DEF Between
        <5> QED
          BY <5>1, <5>2
      <4>3. Between(CheckPeriod)'
        BY <3>1, <4>2 DEF Between
      <4> QED
        BY <3>1, <4>1, <4>3, <2>3
    <3> QED
      BY <3>3, <3>4
  <2>5. CASE Transmit(t)
    <3>1. /\ pc[t] = "transmit" /\ UNCHANGED <<camAge, cam>> /\ wait' = 0
          /\ pc' = [pc EXCEPT ![t] = "update"]
      BY <1>6, <2>1, <2>5 DEF Transmit, rules
    <3>2. fix /\ cam[t].age = 0
      BY <2>2, <3>1 DEF ChainOnTime
    <3>3. wait' <= GenMax /\ cam'[t].age = 0
      BY <3>1, <3>2, Periods
    <3> QED
      BY <3>1, <3>2, <3>3, <2>3
  <2>6. CASE Update(t)
    <3>1. /\ pc[t] = "update" /\ camAge' = cam[t].age /\ wait' = wait
          /\ pc' = [pc EXCEPT ![t] = "check"]
      BY <2>6 DEF Update, history
    <3>2. fix /\ cam[t].age = 0 /\ wait = 0
      BY <2>2, <3>1 DEF ChainOnTime
    <3>3. Grid(CheckPeriod) /\ CheckPeriod <= GenMax
      BY GridZero, PeriodAssumption, Periods
    <3>4. camAge' = 0 /\ wait' = 0 /\ 0 # Never /\ 0 + CheckPeriod = CheckPeriod
      BY <3>1, <3>2, Periods, NeverAssumption
    <3>5. Between(CheckPeriod)'
      <4>1. camAge' # Never /\ wait' = camAge' /\ camAge' + CheckPeriod = CheckPeriod
        BY <3>4
      <4> QED
        BY <3>3, <4>1 DEF Between
    <3>6. wait' <= GenMax
      BY <3>4, Periods
    <3> QED
      BY <3>1, <3>2, <3>5, <3>6, <2>3
  <2> QED
    BY <1>6, <2>4, <2>5, <2>6
<1> QED
  BY <1>4, <1>5, <1>6 DEF CheckCamConditions, PunctualInv

LEMMA PunctualStep ==
  ASSUME CalmInv, ServiceAlive, PunctualInv, Grid(GenMax), [Next]_vars
  PROVE  PunctualInv'
<1>0. /\ PunctualTypes /\ App \in Thread
      /\ \A t \in Timer : t \in Thread /\ t # App
  BY CalmShape, AppIsNoTimer DEF Thread
<1> USE DEF PunctualTypes, Goto
<1>1. CASE Start
  <2>1. pc'[App] = "reset" /\ UNCHANGED <<camAge, wait, troubled, fix>>
    BY <1>0, <1>1 DEF Start, rules, history
  <2> QED
    BY <2>1, PunctualFrame
<1>2. CASE Stop
  <2>1. ~active' /\ UNCHANGED <<camAge, wait, troubled, fix>>
    BY <1>2 DEF Stop, rules, history
  <2> QED
    BY <2>1, PunctualFrame
<1>3. CASE Cancel \/ Clear
  <2>1. ~active' /\ UNCHANGED <<camAge, wait, troubled, fix>>
    BY <1>3 DEF Cancel, Clear, rules, history, CalmInv, ChainInv, StopInactive
  <2> QED
    BY <2>1, PunctualFrame
<1>4. CASE Reset
  <2>1. /\ camAge' = Never /\ wait' = 0 /\ fix' = fix /\ timer' = timer
        /\ pc' = [pc EXCEPT ![App] = "check"]
        /\ \A t \in Timer : pc'[t] = "idle" /\ timer'[t] # "armed"
    BY <1>0, <1>4 DEF Reset, service, CalmInv, ChainInv, Busy
  <2>2. ChainOnTime'
    BY <2>1 DEF ChainOnTime, Schedule
  <2> QED
    BY <2>1, <2>2, Periods DEF PunctualInv
<1>5. CASE LocationCallback
  <2>1. /\ ~fix /\ fix' = TRUE /\ wait' = 0
        /\ UNCHANGED <<camAge, active, ref, timer, left, pc, troubled, cam>>
    BY <1>5 DEF LocationCallback, service, rules
  <2> SUFFICES ASSUME ~troubled PROVE PunctualInv'
    BY <2>1 DEF PunctualInv
  <2>2. camAge = Never /\ wait = 0
    BY <2>1 DEF PunctualInv
  <2>3. active /\ pc[App] # "reset" => ChainOnTime'
    BY <2>1, <2>2 DEF PunctualInv, ChainOnTime, Between
  <2> QED
    BY <2>1, <2>2, <2>3, Periods DEF PunctualInv
<1>6. CASE UNCHANGED vars
  BY <1>6, PunctualFrame DEF vars, service, rules, history
<1> QED
  BY <1>0, <1>1, <1>2, <1>3, <1>4, <1>5, <1>6, TickPunctual, ChainPunctual, CheckPunctual
  DEF Next, AppNext, TimerNext

(* As long as no thread is late and every CAM can be sent, a service that  *)
(* has a position never lets T_GenCamMax pass without a CAM, whenever it   *)
(* was started and wherever the vehicle's dynamics put the CAMs.  The      *)
(* checks come every T_CheckCamGen, so T_GenCamMax must be a multiple of   *)
(* it, as it is (100 ms and 1000 ms); start() and stop() are not called    *)
(* during a callback (_check_cam_conditions, _evaluate_and_maybe_send).    *)
THEOREM CalmInTime ==
  ASSUME Calm, \E k \in Nat : GenMax = k * CheckPeriod
  PROVE  Spec => []CamsInTime
<1>1. Init => PunctualInv
  BY Periods DEF Init, PunctualInv
<1>2. Grid(GenMax)
  BY DEF Grid
<1>3. CalmInv /\ ServiceAlive /\ PunctualInv /\ [Next]_vars => PunctualInv'
  BY <1>2, PunctualStep
<1>4. Spec => []CalmInv
  BY TypeCorrect, ChainInvariant, PTL DEF CalmInv
<1>5. PunctualInv => CamsInTime
  BY DEF PunctualInv, CamsInTime
<1> QED
  BY <1>1, <1>3, <1>4, <1>5, AlwaysAlive, PTL DEF Spec
=============================================================================

-------------------------- MODULE CamTransmission --------------------------
(***************************************************************************)
(* When a vehicle sends Cooperative Awareness Messages: the class          *)
(* CAMTransmissionManagement                                               *)
(* (src/src/flexstack/facilities/ca_basic_service/                         *)
(* cam_transmission_management.py), a chain of timers whose callbacks      *)
(* decide whether a CAM is due, send it, and start the next timer.         *)
(*                                                                         *)
(* None of its state has a lock, except for the position.  An application  *)
(* thread starts and stops the service while callbacks run in the threads  *)
(* of their timers; each action is what one thread does between two points *)
(* where the others matter.  Time is kept as ages, each cut where nothing  *)
(* looks further.                                                          *)
(*                                                                         *)
(* The special-vehicle container follows the rule, and so the times, of    *)
(* the low-frequency container; the very-low-frequency and two-wheeler     *)
(* containers and the path history decide nothing.  They are left out.     *)
(***************************************************************************)
EXTENDS Integers, FiniteSets

CONSTANTS
  Timer,       \* identities for threading.Timer objects
  App,         \* the application thread
  NoTimer,     \* _timer is None
  Never,       \* a time that is None
  CheckPeriod, \* T_CHECK_CAM_GEN
  GenMin,      \* T_GEN_CAM_MIN
  GenMax,      \* T_GEN_CAM_MAX
  GenDcc,      \* T_GEN_CAM_DCC
  LfPeriod,    \* T_GEN_CAM_LF_MS
  NGenCam,     \* N_GEN_CAM_DEFAULT
  Failures,    \* what can go wrong with a CAM, see Transmit
  Calm         \* start and stop are only called while no callback runs

ASSUME TimerAssumption == App \notin Timer /\ NoTimer \notin Timer
ASSUME NeverAssumption == Never \notin Nat
ASSUME PeriodAssumption ==
  /\ {CheckPeriod, GenMin, GenMax, GenDcc, LfPeriod, NGenCam} \subseteq Nat \ {0}
  /\ CheckPeriod <= GenMin /\ GenMin <= GenDcc
  /\ GenDcc <= GenMax /\ LfPeriod <= GenMax
ASSUME SwitchAssumption ==
  /\ Failures \subseteq {"build", "send", "ldm"}
  /\ Calm \in BOOLEAN

VARIABLES
  active,      \* _active
  ref,         \* _timer
  timer,       \* timer[t]: what each Timer object is doing
  left,        \* left[t]: time until it elapses, once it is started
  pc,          \* where each thread is
  fix,         \* whether there is a position
  camAge,      \* time since _last_cam_time_ms
  lfAge,       \* time since _last_lf_time_ms
  counted,     \* whether _cam_count is positive
  genCam,      \* t_gen_cam
  highCams,    \* _n_gen_cam_counter
  cam,         \* cam[t]: the CAM the thread of t is about to send
  txAge,       \* history: time since a CAM sent since the service started
  txLfAge,     \* history: time since one with the low-frequency container
  troubled,    \* history: since it started a thread was late or a CAM failed
  wait         \* history: time since a CAM should have been sent, if not troubled

service == <<active, ref, timer, left>>
rules == <<camAge, lfAge, counted, genCam, highCams>>
history == <<txAge, txLfAge, troubled, wait>>
vars == <<service, pc, fix, rules, cam, history>>

Thread == Timer \cup {App}
TimerStep == {"idle", "made", "cancelled", "armed"}
Callback == {"entry", "evaluate", "transmit", "update"}
Schedule == {"check", "assign", "daemon", "launch"}
AppStep == {"reset", "cancel", "clear"}
Age(max) == (0..max) \cup {Never}
Cam == [age : 0..GenMax, elapsed : 0..GenMax, high : BOOLEAN, lf : BOOLEAN]
NoCam == [age |-> 0, elapsed |-> 0, high |-> FALSE, lf |-> FALSE]

Cut(n, max) == IF n > max THEN max ELSE n
Older(age, max) == IF age = Never THEN Never ELSE Cut(age + 1, max)

Init ==
  /\ active = FALSE
  /\ ref = NoTimer
  /\ timer = [t \in Timer |-> "idle"]
  /\ left = [t \in Timer |-> 0]
  /\ pc = [x \in Thread |-> "idle"]
  /\ fix = FALSE
  /\ camAge = Never /\ lfAge = Never
  /\ counted = FALSE
  /\ genCam = GenMax /\ highCams = 0
  /\ cam = [t \in Timer |-> NoCam]
  /\ txAge = Never /\ txLfAge = Never
  /\ troubled = FALSE /\ wait = 0

Goto(x, step) == pc' = [pc EXCEPT ![x] = step]
NoCallback == \A t \in Timer : pc[t] = "idle"

-----------------------------------------------------------------------------
(* Slip: start() does not look whether the service is active.              *)
StartableAlways == TRUE
Startable == ~active

(* start(): _active is set ...                                             *)
Start ==
  /\ pc[App] = "idle"
  /\ Startable
  /\ Calm => NoCallback
  /\ active' = TRUE
  /\ Goto(App, "reset")
  /\ UNCHANGED <<ref, timer, left, fix, rules, cam, history>>

CountReset == FALSE

(* ... and the rest of the state reset.                                    *)
Reset ==
  /\ pc[App] = "reset"
  /\ counted' = CountReset
  /\ camAge' = Never /\ lfAge' = Never
  /\ genCam' = GenMax /\ highCams' = 0
  /\ txAge' = Never /\ txLfAge' = Never
  /\ troubled' = FALSE /\ wait' = 0
  /\ Goto(App, "check")
  /\ UNCHANGED <<service, fix, cam>>

(* stop(): _active is cleared ...                                          *)
Stop ==
  /\ pc[App] = "idle"
  /\ active
  /\ Calm => NoCallback
  /\ active' = FALSE
  /\ Goto(App, "cancel")
  /\ UNCHANGED <<ref, timer, left, fix, rules, cam, history>>

(* Timer.cancel(): a timer that is armed does not call back, one that is   *)
(* not started yet will not, and for one that has elapsed it is too late.  *)
Cancelled(t) ==
  CASE timer[t] = "armed" -> "idle" [] timer[t] = "made" -> "cancelled"
    [] OTHER -> timer[t]
StopTimer ==
  [t \in Timer |-> IF t = ref THEN Cancelled(t) ELSE timer[t]]

(* ... the timer cancelled ...                                             *)
Cancel ==
  /\ pc[App] = "cancel"
  /\ timer' = StopTimer
  /\ left' = [t \in Timer |-> IF timer'[t] \in {"made", "armed"} THEN left[t] ELSE 0]
  /\ Goto(App, IF ref = NoTimer THEN "idle" ELSE "clear")
  /\ UNCHANGED <<active, ref, fix, rules, cam, history>>

(* A timer that was never started is gone when _timer no longer holds it.  *)
Dropped == [t \in Timer |-> IF timer[t] = "armed" THEN "armed" ELSE "idle"]

(* ... and forgotten.                                                      *)
Clear ==
  /\ pc[App] = "clear"
  /\ ref' = NoTimer
  /\ timer' = Dropped
  /\ Goto(App, "idle")
  /\ UNCHANGED <<active, left, fix, rules, cam, history>>

(* location_service_callback                                               *)
LocationCallback ==
  /\ ~fix
  /\ fix' = TRUE
  /\ wait' = 0
  /\ UNCHANGED <<service, pc, rules, cam, txAge, txLfAge, troubled>>

-----------------------------------------------------------------------------
(* _schedule_next_check, by the application's thread or a timer's.         *)

CheckActive(x) ==
  /\ pc[x] = "check"
  /\ Goto(x, IF active THEN "assign" ELSE "idle")
  /\ UNCHANGED <<service, fix, rules, cam, history>>

(* A Timer object nothing refers to (identities are used again; guarded by *)
(* the size of Timer).                                                     *)
Unused(t) == timer[t] # "armed" /\ pc[t] = "idle" /\ ref # t

(* self._timer = threading.Timer(...); start() takes a random delay.       *)
Assign(x) ==
  /\ pc[x] = "assign"
  /\ \E t \in Timer :
       /\ Unused(t)
       /\ ref' = t
       /\ timer' = [Dropped EXCEPT ![t] = "made"]
       /\ \E d \in IF x = App THEN 0..CheckPeriod ELSE {CheckPeriod} :
            left' = [left EXCEPT ![t] = d]
  /\ Goto(x, "daemon")
  /\ UNCHANGED <<active, fix, rules, cam, history>>

(* _timer may be None, or the timer of another thread, started already:    *)
(* then setting daemon or starting it raises.                              *)
NotStarted == ref # NoTimer /\ timer[ref] \in {"made", "cancelled"}

SetDaemon(x) ==
  /\ pc[x] = "daemon"
  /\ Goto(x, IF NotStarted THEN "launch" ELSE "idle")
  /\ UNCHANGED <<service, fix, rules, cam, history>>

Launch(x) ==
  /\ pc[x] = "launch"
  /\ timer' = IF NotStarted
              THEN [timer EXCEPT ![ref] = IF @ = "made" THEN "armed" ELSE "idle"]
              ELSE timer
  /\ Goto(x, "idle")
  /\ UNCHANGED <<active, ref, left, fix, rules, cam, history>>

ScheduleNext(x) == CheckActive(x) \/ Assign(x) \/ SetDaemon(x) \/ Launch(x)

-----------------------------------------------------------------------------
(* _check_cam_conditions, by the thread of a timer.                        *)

Elapse(t) ==
  /\ timer[t] = "armed" /\ left[t] = 0
  /\ timer' = [timer EXCEPT ![t] = "idle"]
  /\ Goto(t, "entry")
  /\ UNCHANGED <<active, ref, left, fix, rules, cam, history>>

Enter(t) ==
  /\ pc[t] = "entry"
  /\ Goto(t, IF active THEN "evaluate" ELSE "idle")
  /\ UNCHANGED <<service, fix, rules, cam, history>>

(* Slip: condition 1 does not wait for T_GenCam_DCC.                       *)
AnyTime(age) == TRUE
DccElapsed(age) == age >= GenDcc
(* Slips: condition 2 comes one moment late, or never.                     *)
TimeUpLate(age) == age > genCam
NeverUp(age) == FALSE
TimeUp(age) == age >= genCam

(* _evaluate_and_maybe_send: the conditions under which a CAM is due.      *)
FirstDue == camAge = Never
HighDue(moved) == ~FirstDue /\ moved /\ DccElapsed(camAge)
TimeDue == ~FirstDue /\ DccElapsed(camAge) /\ TimeUp(camAge)

(* _should_include_lf                                                      *)
IncludeLf == ~counted \/ lfAge = Never \/ lfAge >= LfPeriod

(* moved is _check_dynamics: anything may have changed since the last CAM. *)
Evaluate(t) ==
  /\ pc[t] = "evaluate"
  /\ \E moved \in BOOLEAN :
       LET high == FirstDue \/ HighDue(moved)
       IN IF fix /\ (high \/ TimeDue)
          THEN /\ cam' = [cam EXCEPT ![t] =
                    [age |-> 0, high |-> high, lf |-> IncludeLf,
                     elapsed |-> IF FirstDue THEN 0 ELSE camAge]]
               /\ Goto(t, "transmit")
          ELSE cam' = cam /\ Goto(t, "check")
  /\ UNCHANGED <<service, fix, rules, history>>

(* Slip: an exception ends the chain.                                      *)
AfterFailureNothing == "idle"
(* finally: self._schedule_next_check()                                    *)
AfterFailure == "check"

(* _generate_and_send_cam up to _send_cam.  The CAM is sent, or its        *)
(* construction raises, or its coding or the request to BTP does, or it is *)
(* sent and the Local Dynamic Map raises.                                  *)
Transmit(t) ==
  /\ pc[t] = "transmit"
  /\ \E outcome \in {"sent"} \cup Failures :
       /\ Goto(t, IF outcome = "sent" THEN "update" ELSE AfterFailure)
       /\ IF outcome \in {"sent", "ldm"}
          THEN /\ txAge' = cam[t].age
               /\ txLfAge' = IF cam[t].lf THEN Cut(cam[t].age, LfPeriod)
                                          ELSE txLfAge
               /\ wait' = 0
          ELSE UNCHANGED <<txAge, txLfAge, wait>>
       /\ troubled' = (troubled \/ outcome # "sent")
       /\ cam' = IF outcome = "sent" THEN cam ELSE [cam EXCEPT ![t] = NoCam]
  /\ UNCHANGED <<service, fix, rules>>

(* Slip: the time of the first CAM is taken as it is.                      *)
Unclamped(e) == e
Clamped(e) == IF e < GenMin THEN GenMin ELSE Cut(e, GenMax)

LfTime(t) == IF cam[t].lf THEN Cut(cam[t].age, LfPeriod) ELSE lfAge

(* _update_send_state                                                      *)
Update(t) ==
  /\ pc[t] = "update"
  /\ LET enough == highCams + 1 >= NGenCam
     IN IF cam[t].high
        THEN /\ highCams' = IF enough THEN 0 ELSE highCams + 1
             /\ genCam' = IF enough THEN GenMax ELSE Clamped(cam[t].elapsed)
        ELSE highCams' = 0 /\ genCam' = GenMax
  /\ camAge' = cam[t].age
  /\ lfAge' = LfTime(t)
  /\ counted' = TRUE
  /\ cam' = [cam EXCEPT ![t] = NoCam]
  /\ Goto(t, "check")
  /\ UNCHANGED <<service, fix, history>>

CheckCamConditions(t) == Enter(t) \/ Evaluate(t) \/ Transmit(t) \/ Update(t)

-----------------------------------------------------------------------------
(* Nothing is to be done now.                                              *)
Idle == /\ \A x \in Thread : pc[x] = "idle"
        /\ \A t \in Timer : timer[t] = "armed" => left[t] > 0

Tick ==
  /\ left' = [t \in Timer |-> IF timer[t] = "armed" /\ left[t] > 0
                              THEN left[t] - 1 ELSE left[t]]
  /\ camAge' = Older(camAge, GenMax)
  /\ lfAge' = Older(lfAge, LfPeriod)
  /\ cam' = [t \in Timer |->
       IF pc[t] \in {"transmit", "update"}
       THEN [cam[t] EXCEPT !.age = Cut(@ + 1, GenMax)] ELSE cam[t]]
  /\ txAge' = Older(txAge, GenMax + GenDcc)
  /\ txLfAge' = Older(txLfAge, LfPeriod)
  /\ troubled' = (troubled \/ ~Idle)
  /\ wait' = IF active /\ fix /\ ~troubled' THEN Cut(wait + 1, GenMax + 1) ELSE 0
  /\ UNCHANGED <<active, ref, timer, pc, fix, counted, genCam, highCams>>

TimerNext(t) == ScheduleNext(t) \/ Elapse(t) \/ CheckCamConditions(t)
AppNext == Reset \/ Cancel \/ Clear \/ ScheduleNext(App)

Next ==
  \/ Start \/ Stop \/ LocationCallback \/ Tick \/ AppNext
  \/ \E t \in Timer : TimerNext(t)

Spec == Init /\ [][Next]_vars

(* Threads run and time passes; the application need do nothing.           *)
FairSpec ==
  /\ Spec
  /\ WF_vars(Tick) /\ WF_vars(AppNext)
  /\ \A t \in Timer : WF_vars(TimerNext(t))

-----------------------------------------------------------------------------
(* The shape of the state.                                                 *)
TypeOK ==
  /\ active \in BOOLEAN /\ fix \in BOOLEAN
  /\ counted \in BOOLEAN /\ troubled \in BOOLEAN
  /\ ref \in Timer \cup {NoTimer}
  /\ timer \in [Timer -> TimerStep] /\ left \in [Timer -> 0..CheckPeriod]
  /\ pc \in [Thread -> {"idle"} \cup Callback \cup Schedule \cup AppStep]
  /\ camAge \in Age(GenMax) /\ lfAge \in Age(LfPeriod)
  /\ genCam \in GenMin..GenMax /\ highCams \in 0..(NGenCam - 1)
  /\ cam \in [Timer -> Cam]
  /\ txAge \in Age(GenMax + GenDcc) /\ txLfAge \in Age(LfPeriod)
  /\ wait \in 0..(GenMax + 1)

(* Somebody will look again: a callback, a timer that is armed, a thread   *)
(* about to make one, or one about to start the timer that was made.       *)
Driven ==
  \/ \E t \in Timer : pc[t] \in Callback \/ timer[t] = "armed"
  \/ \E x \in Thread : pc[x] \in {"reset", "check", "assign"}
  \/ /\ ref # NoTimer /\ timer[ref] = "made"
     /\ \E x \in Thread : pc[x] \in {"daemon", "launch"}

(* An active service is never left without a timer, however start and stop *)
(* cross with callbacks, and whatever a callback raises                    *)
(* (_check_cam_conditions, _schedule_next_check).                          *)
ServiceAlive == active => Driven

(* There is one chain of timers and callbacks (start, stop).               *)
OneChain ==
  Cardinality({t \in Timer : timer[t] = "armed" \/ pc[t] # "idle"}) <= 1

(* stop(): "Cancels the T_CheckCamGen timer".                              *)
StopCancels ==
  ~active /\ pc[App] = "idle" => \A t \in Timer : timer[t] # "armed"

(* While the service runs, a CAM that condition 1 or 2 of                  *)
(* _evaluate_and_maybe_send asks for was due T_GenCam_DCC or more after    *)
(* the one sent before it (a CAM sent within T_GenCamMax of being due).    *)
CamsSpaced ==
  [][\A t \in Timer :
       /\ Transmit(t) /\ pc'[t] = "update"
       /\ txAge # Never /\ cam[t].elapsed > 0 /\ cam[t].age < GenMax
       => txAge - cam[t].age >= GenDcc]_vars

(* The low-frequency container is in the first CAM that is sent, and then  *)
(* every T_GenCamLF, no earlier and no later (_should_include_lf).         *)
LfRegular ==
  [][\A t \in Timer :
       Evaluate(t) /\ pc'[t] = "transmit"
         => (cam'[t].lf <=> txLfAge \in {Never, LfPeriod})]_vars

(* Neither are CAMs too close together, nor their containers off their     *)
(* period (_evaluate_and_maybe_send, _should_include_lf).                  *)
CamsRegular == CamsSpaced /\ LfRegular

(* With a position, punctual threads and CAMs that can be sent, no more    *)
(* than T_GenCamMax passes without one (_evaluate_and_maybe_send,          *)
(* t_gen_cam).                                                             *)
CamsInTime == ~troubled => wait <= GenMax

(* As long as the service is active and knows where it is, it goes on      *)
(* transmitting, whatever has failed before (_check_cam_conditions).       *)
CamsKeepComing ==
  <>[](active /\ fix) => []<>(\E t \in Timer : pc[t] = "transmit")
=============================================================================

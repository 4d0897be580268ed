----------------------- MODULE LocationService_proofs -----------------------
(* Proofs about LocationService, for every set of stations, requests and   *)
(* timers and every bound.                                                 *)
EXTENDS ServiceThreads, TLAPS

USE DEF Searching, Exhausted, Counted, Emptied, FlagCleared

(* What a thread that is inside gn_data_request_guc works on is a request, *)
(* and so its target is an address.                                        *)
LEMMA CurrentIsRequest ==
  ASSUME TypeOK, NEW th \in Thread, Working(th) \/ pc[th] = "done"
  PROVE  current(th) \in Request /\ target(th) \in Addr
<1>1. CASE th = Rx
  <2>1. flush \in Seq(Request) /\ flush # <<>>
    BY <1>1 DEF TypeOK
  <2>. QED
    BY <1>1, <2>1, DestAssumption DEF current, target
<1>2. CASE th # Rx
  BY <1>2, DestAssumption DEF Thread, current, target
<1>. QED
  BY <1>1, <1>2

(* The identity given to a new Timer object is one that nothing refers to. *)
LEMMA FreshIsUnused ==
  ASSUME FreshExists
  PROVE  Fresh \in Timer /\ Unused(Fresh)
BY DEF FreshExists, Fresh

LEMMA AppendNotEmpty ==
  ASSUME NEW S, NEW s \in Seq(S), NEW x \in S
  PROVE  Append(s, x) # <<>>
<1>1. Len(Append(s, x)) = Len(s) + 1
  OBVIOUS
<1>2. Len(s) \in Nat /\ Len(<<>>) = 0
  OBVIOUS
<1>. QED
  BY <1>1, <1>2

LEMMA CancelledType ==
  ASSUME timer \in [Timer -> TimerStep], NEW t
  PROVE  Cancelled(t) \in [Timer -> TimerStep]
BY DEF Cancelled, TimerStep

-----------------------------------------------------------------------------
(* Type correctness.                                                       *)

LEMMA InitType == Init => TypeOK
<1> SUFFICES ASSUME Init PROVE TypeOK
  OBVIOUS
<1>1. (CHOOSE a \in Addr : TRUE) \in Addr
  BY AddrAssumption
<1>2. <<>> \in Seq(Request) /\ <<>> \in Seq({"zero", "heard"})
  OBVIOUS
<1>3. /\ position \in [Addr -> Position]
      /\ lsPending \subseteq Addr
      /\ buffer \in [Addr -> Seq(Request)]
      /\ counter \in [Addr -> 0..MaxRetrans]
      /\ lsTimer \in [Addr -> Timer \cup {NoTimer}]
  BY <1>2, BoundAssumption DEF Init, Position
<1>4. /\ timer \in [Timer -> TimerStep]
      /\ sought \in [Timer -> Addr]
      /\ started \in [Thread \cup Timer -> Timer \cup {NoTimer}]
      /\ pc \in [Thread -> RequestStep]
  BY <1>1 DEF Init, TimerStep, RequestStep
<1>5. /\ rx \in [step : ReceiveStep, from : Addr, reply : BOOLEAN]
      /\ flush \in Seq(Request)
      /\ packets \in 0..MaxPackets
  BY <1>1, <1>2, BoundAssumption DEF Init, ReceiveStep
<1>6. /\ sent \in [Request -> Seq({"zero", "heard"})]
      /\ omitted \subseteq Request
      /\ abandoned \subseteq Request
  BY <1>2 DEF Init
<1>7. ~(Working(Rx) \/ pc[Rx] = "done")
  BY DEF Init, Working, Thread
<1>. QED
  BY <1>3, <1>4, <1>5, <1>6, <1>7 DEF TypeOK

(* Steps of a thread inside gn_data_request_guc.                           *)
LEMMA RequestType ==
  ASSUME TypeOK, NEW th \in Thread, RequestNext(th)
  PROVE  TypeOK'
<1>. DEFINE r == current(th)
            a == target(th)
<1>1. Working(th)
  BY DEF RequestNext, LookupMiss, LookupHit, JoinSearch, BeginSearch,
         StartTimer, StoreTimer, Working
<1>2. r \in Request /\ a \in Addr
  BY <1>1, CurrentIsRequest
<1>3. UNCHANGED <<rx, flush, packets>>
  BY DEF RequestNext, LookupMiss, LookupHit, JoinSearch, BeginSearch,
         StartTimer, StoreTimer, receiver
<1>4. /\ pc' \in [Thread -> RequestStep]
      /\ \A y \in Thread : y # th => pc'[y] = pc[y]
  BY DEF RequestNext, LookupMiss, LookupHit, JoinSearch, BeginSearch,
         StartTimer, StoreTimer, Advance, TypeOK, RequestStep
<1>5. (Working(Rx) \/ pc[Rx] = "done" => rx.step = "flush" /\ flush # <<>>)'
  BY <1>1, <1>3, <1>4 DEF TypeOK, Working, Thread
<1>6. CASE LookupMiss(th)
  BY <1>3, <1>4, <1>5, <1>6
  DEF LookupMiss, TypeOK, table, search, timers, outcome
<1>7. CASE LookupHit(th)
  <2>1. position[a] \in {"zero", "heard"}
    BY <1>2, <1>7 DEF LookupHit, TypeOK, Position
  <2>2. Append(sent[r], position[a]) \in Seq({"zero", "heard"})
    BY <1>2, <2>1 DEF TypeOK
  <2>3. sent' \in [Request -> Seq({"zero", "heard"})] /\ omitted' \subseteq Request
    BY <1>2, <1>7, <2>2 DEF LookupHit, TypeOK
  <2>. QED
    BY <1>3, <1>4, <1>5, <1>7, <2>3
    DEF LookupHit, TypeOK, table, search, timers
<1>8. CASE JoinSearch(th)
  <2>1. Append(buffer[a], r) \in Seq(Request)
    BY <1>2 DEF TypeOK
  <2>2. buffer' \in [Addr -> Seq(Request)]
    BY <1>2, <1>8, <2>1 DEF JoinSearch, TypeOK
  <2>. QED
    BY <1>3, <1>4, <1>5, <1>8, <2>2
    DEF JoinSearch, TypeOK, table, timers, outcome
<1>9. CASE BeginSearch(th)
  <2>1. <<r>> \in Seq(Request)
    BY <1>2
  <2>2. /\ position' \in [Addr -> Position]
        /\ lsPending' \subseteq Addr
        /\ buffer' \in [Addr -> Seq(Request)]
        /\ counter' \in [Addr -> 0..MaxRetrans]
    BY <1>2, <1>9, <2>1, BoundAssumption DEF BeginSearch, TypeOK, Position
  <2>. QED
    BY <1>3, <1>4, <1>5, <1>9, <2>2 DEF BeginSearch, TypeOK, timers, outcome
<1>10. CASE StartTimer(th)
  <2>1. Fresh \in Timer
    BY <1>10, FreshIsUnused DEF StartTimer
  <2>2. /\ timer' \in [Timer -> TimerStep]
        /\ sought' \in [Timer -> Addr]
        /\ started' \in [Thread \cup Timer -> Timer \cup {NoTimer}]
    BY <1>2, <1>10, <2>1 DEF StartTimer, TypeOK, TimerStep
  <2>. QED
    BY <1>3, <1>4, <1>5, <1>10, <2>2
    DEF StartTimer, TypeOK, table, search, outcome
<1>11. CASE StoreTimer(th)
  <2>1. timer' \in [Timer -> TimerStep]
    BY <1>11, CancelledType DEF StoreTimer, TypeOK
  <2>2. /\ lsTimer' \in [Addr -> Timer \cup {NoTimer}]
        /\ started' \in [Thread \cup Timer -> Timer \cup {NoTimer}]
    BY <1>2, <1>11 DEF StoreTimer, TypeOK
  <2>. QED
    BY <1>3, <1>4, <1>5, <1>11, <2>1, <2>2
    DEF StoreTimer, TypeOK, table, outcome
<1>. QED
  BY <1>6, <1>7, <1>8, <1>9, <1>10, <1>11 DEF RequestNext

(* Steps of the thread of a timer.                                         *)
LEMMA TimerType ==
  ASSUME TypeOK, NEW t \in Timer, TimerNext(t)
  PROVE  TypeOK'
<1>1. sought[t] \in Addr
  BY DEF TypeOK
<1>2. UNCHANGED <<pc, rx, flush, packets, sent, omitted, position>>
  BY DEF TimerNext, Elapse, GiveUp, Retransmit, RestartTimer, StoreRestarted,
         table, receiver, outcome
<1>3. (Working(Rx) \/ pc[Rx] = "done" => rx.step = "flush" /\ flush # <<>>)'
  BY <1>2 DEF TypeOK, Working
<1>4. CASE Elapse(t)
  BY <1>2, <1>3, <1>4 DEF Elapse, TypeOK, TimerStep, table, search, outcome
<1>5. CASE GiveUp(t)
  <2>1. {buffer[sought[t]][i] : i \in 1..Len(buffer[sought[t]])} \subseteq Request
    BY <1>1 DEF TypeOK
  <2>2. /\ abandoned' \subseteq Request
        /\ lsPending' \subseteq Addr
    BY <1>5, <2>1 DEF GiveUp, TypeOK
  <2>3. /\ buffer' \in [Addr -> Seq(Request)]
        /\ lsTimer' \in [Addr -> Timer \cup {NoTimer}]
        /\ counter' \in [Addr -> 0..MaxRetrans]
        /\ timer' \in [Timer -> TimerStep]
    BY <1>1, <1>5, BoundAssumption DEF GiveUp, TypeOK, TimerStep
  <2>. QED
    BY <1>2, <1>3, <1>5, <2>2, <2>3 DEF GiveUp, TypeOK
<1>6. CASE Retransmit(t)
  <2>1. counter[sought[t]] + 1 \in 0..MaxRetrans
    BY <1>1, <1>6, BoundAssumption DEF Retransmit, TypeOK
  <2>2. /\ counter' \in [Addr -> 0..MaxRetrans]
        /\ timer' \in [Timer -> TimerStep]
    BY <1>1, <1>6, <2>1 DEF Retransmit, TypeOK, TimerStep
  <2>. QED
    BY <1>2, <1>3, <1>6, <2>2 DEF Retransmit, TypeOK, table, outcome
<1>7. CASE RestartTimer(t)
  <2>1. Fresh \in Timer
    BY <1>7, FreshIsUnused DEF RestartTimer
  <2>2. /\ timer' \in [Timer -> TimerStep]
        /\ sought' \in [Timer -> Addr]
        /\ started' \in [Thread \cup Timer -> Timer \cup {NoTimer}]
    BY <1>1, <1>7, <2>1 DEF RestartTimer, TypeOK, TimerStep
  <2>. QED
    BY <1>2, <1>3, <1>7, <2>2 DEF RestartTimer, TypeOK, table, search, outcome
<1>8. CASE StoreRestarted(t)
  <2>1. /\ lsTimer' \in [Addr -> Timer \cup {NoTimer}]
        /\ started' \in [Thread \cup Timer -> Timer \cup {NoTimer}]
        /\ timer' \in [Timer -> TimerStep]
    BY <1>1, <1>8 DEF StoreRestarted, TypeOK, TimerStep
  <2>. QED
    BY <1>2, <1>3, <1>8, <2>1 DEF StoreRestarted, TypeOK, table, outcome
<1>. QED
  BY <1>4, <1>5, <1>6, <1>7, <1>8 DEF TimerNext

(* Steps of the receive thread.                                            *)
LEMMA ReceiveType ==
  ASSUME TypeOK, NEW a \in Addr, NEW reply \in BOOLEAN, Receive(a, reply)
  PROVE  TypeOK'
<1>1. ~(Working(Rx) \/ pc[Rx] = "done")
  BY DEF Receive, TypeOK
<1>2. /\ position' \in [Addr -> Position]
      /\ rx' \in [step : ReceiveStep, from : Addr, reply : BOOLEAN]
      /\ packets' \in 0..MaxPackets
  BY BoundAssumption DEF Receive, TypeOK, Position, ReceiveStep
<1>. QED
  BY <1>1, <1>2 DEF Receive, TypeOK, Working, search, timers, outcome

LEMMA ReceiverType ==
  ASSUME TypeOK, ReceiverNext
  PROVE  TypeOK'
<1>0. /\ rx.step \in ReceiveStep /\ rx.from \in Addr /\ rx.reply \in BOOLEAN
      /\ rx = [step |-> rx.step, from |-> rx.from, reply |-> rx.reply]
  BY DEF TypeOK
<1>1. CASE UpdatePosition
  <2>1. /\ position' \in [Addr -> Position]
        /\ rx' \in [step : ReceiveStep, from : Addr, reply : BOOLEAN]
    BY <1>0, <1>1 DEF UpdatePosition, TypeOK, Position, ReceiveStep
  <2>2. ~(Working(Rx) \/ pc[Rx] = "done")
    BY <1>1 DEF UpdatePosition, TypeOK
  <2>. QED
    BY <1>1, <2>1, <2>2 DEF UpdatePosition, TypeOK, Working, search, timers, outcome
<1>2. CASE RefreshTable
  <2>1. /\ position' \in [Addr -> Position]
        /\ lsPending' \subseteq Addr
    BY <1>2 DEF RefreshTable, TypeOK, Position
  <2>2. rx' \in [step : ReceiveStep, from : Addr, reply : BOOLEAN]
    BY <1>0, <1>2 DEF RefreshTable, TypeOK, ReceiveStep
  <2>3. ~(Working(Rx) \/ pc[Rx] = "done")
    BY <1>2 DEF RefreshTable, TypeOK
  <2>. QED
    BY <1>2, <2>1, <2>2, <2>3 DEF RefreshTable, TypeOK, Working, search, timers, outcome
<1>3. CASE FinishSearch
  <2>1. timer' \in [Timer -> TimerStep]
    BY <1>3, CancelledType DEF FinishSearch, TypeOK
  <2>2. /\ lsTimer' \in [Addr -> Timer \cup {NoTimer}]
        /\ counter' \in [Addr -> 0..MaxRetrans]
        /\ flush' \in Seq(Request)
        /\ buffer' \in [Addr -> Seq(Request)]
        /\ lsPending' \subseteq Addr
    BY <1>0, <1>3, BoundAssumption DEF FinishSearch, TypeOK
  <2>3. rx' \in [step : ReceiveStep, from : Addr, reply : BOOLEAN]
    BY <1>0, <1>3 DEF FinishSearch, TypeOK, ReceiveStep
  <2>4. ~(Working(Rx) \/ pc[Rx] = "done")
    BY <1>3 DEF FinishSearch, TypeOK
  <2>. QED
    BY <1>3, <2>1, <2>2, <2>3, <2>4 DEF FinishSearch, TypeOK, Working, outcome
<1>4. CASE FlushNext
  <2>1. pc' \in [Thread -> RequestStep]
    BY <1>4 DEF FlushNext, Advance, TypeOK, RequestStep
  <2>. QED
    BY <1>4, <2>1
    DEF FlushNext, TypeOK, table, search, timers, receiver, outcome
<1>5. CASE FlushOver
  <2>1. /\ pc' \in [Thread -> RequestStep]
        /\ pc'[Rx] = "idle"
    BY <1>5 DEF FlushOver, Advance, TypeOK, RequestStep, Thread
  <2>2. flush' \in Seq(Request)
    <3>1. CASE pc[Rx] = "done" /\ flush' = Tail(flush)
      <4>1. flush \in Seq(Request) /\ flush # <<>>
        BY <3>1 DEF TypeOK
      <4>. QED
        BY <3>1, <4>1
    <3>2. CASE UNCHANGED flush
      BY <3>2 DEF TypeOK
    <3>. QED
      BY <1>5, <3>1, <3>2 DEF FlushOver
  <2>3. rx' \in [step : ReceiveStep, from : Addr, reply : BOOLEAN]
    BY <1>0, <1>5 DEF FlushOver, TypeOK, ReceiveStep
  <2>. QED
    BY <1>5, <2>1, <2>2, <2>3
    DEF FlushOver, TypeOK, Working, table, search, timers, outcome
<1>. QED
  BY <1>1, <1>2, <1>3, <1>4, <1>5 DEF ReceiverNext

LEMMA IssueType ==
  ASSUME TypeOK, NEW r \in Request, Issue(r)
  PROVE  TypeOK'
<1>1. r # Rx
  BY RxAssumption
<1>2. /\ pc' \in [Thread -> RequestStep]
      /\ pc'[Rx] = pc[Rx]
  BY <1>1 DEF Issue, Advance, TypeOK, RequestStep, Thread
<1>. QED
  BY <1>2 DEF Issue, TypeOK, Working, table, search, timers, receiver, outcome

LEMMA NextType ==
  ASSUME TypeOK, [Next]_vars
  PROVE  TypeOK'
<1>1. CASE UNCHANGED vars
  BY <1>1 DEF vars, TypeOK, Working, table, search, timers, receiver, outcome
<1>2. CASE Next
  BY <1>2, IssueType, RequestType, TimerType, ReceiveType, ReceiverType DEF Next
<1>. QED
  BY <1>1, <1>2

(* Every variable of the Location Service keeps its type; in particular    *)
(* the counter of _ls_retransmit never passes itsGnLocationServiceMaxRetrans*)
(* and the receive thread only works on a request while its flush list is  *)
(* not exhausted.                                                          *)
THEOREM TypeCorrect == Spec => []TypeOK
<1>1. Init => TypeOK
  BY InitType
<1>2. TypeOK /\ [Next]_vars => TypeOK'
  BY NextType
<1>. QED
  BY <1>1, <1>2, PTL DEF Spec

-----------------------------------------------------------------------------
(* The pending flag and the buffer.                                        *)

LEMMA PendingStep ==
  ASSUME TypeOK, PendingHasBuffer, Next
  PROVE  PendingHasBuffer'
<1>1. ASSUME NEW th \in Thread, RequestNext(th)
      PROVE  PendingHasBuffer'
  <2>0. current(th) \in Request /\ target(th) \in Addr
    BY <1>1, CurrentIsRequest
    DEF RequestNext, LookupMiss, LookupHit, JoinSearch, BeginSearch,
        StartTimer, StoreTimer, Working
  <2>1. CASE JoinSearch(th)
    <3>0. buffer[target(th)] \in Seq(Request)
      BY <2>0 DEF TypeOK
    <3>1. Append(buffer[target(th)], current(th)) # <<>>
      BY <2>0, <3>0, AppendNotEmpty
    <3>. QED
      BY <2>0, <2>1, <3>1 DEF JoinSearch, PendingHasBuffer, TypeOK, table
  <2>2. CASE BeginSearch(th)
    <3>1. <<current(th)>> # <<>>
      OBVIOUS
    <3>. QED
      BY <2>0, <2>2, <3>1 DEF BeginSearch, PendingHasBuffer, TypeOK
  <2>3. CASE LookupMiss(th) \/ LookupHit(th) \/ StartTimer(th) \/ StoreTimer(th)
    BY <2>3
    DEF LookupMiss, LookupHit, StartTimer, StoreTimer, PendingHasBuffer, table, search
  <2>. QED
    BY <1>1, <2>1, <2>2, <2>3 DEF RequestNext
<1>2. ASSUME NEW t \in Timer, TimerNext(t)
      PROVE  PendingHasBuffer'
  <2>1. CASE GiveUp(t)
    BY <2>1 DEF GiveUp, PendingHasBuffer, TypeOK
  <2>2. CASE Elapse(t) \/ Retransmit(t) \/ RestartTimer(t) \/ StoreRestarted(t)
    BY <2>2
    DEF Elapse, Retransmit, RestartTimer, StoreRestarted, PendingHasBuffer, table, search
  <2>. QED
    BY <1>2, <2>1, <2>2 DEF TimerNext
<1>3. ASSUME NEW a \in Addr, NEW reply \in BOOLEAN, Receive(a, reply)
      PROVE  PendingHasBuffer'
  BY <1>3 DEF Receive, PendingHasBuffer, search
<1>4. CASE ReceiverNext
  <2>1. CASE FinishSearch
    BY <2>1 DEF FinishSearch, PendingHasBuffer, TypeOK
  <2>2. CASE RefreshTable
    BY <2>2 DEF RefreshTable, PendingHasBuffer, search
  <2>3. CASE UpdatePosition \/ FlushNext \/ FlushOver
    BY <2>3 DEF UpdatePosition, FlushNext, FlushOver, PendingHasBuffer, table, search
  <2>. QED
    BY <1>4, <2>1, <2>2, <2>3 DEF ReceiverNext
<1>5. ASSUME NEW r \in Request, Issue(r)
      PROVE  PendingHasBuffer'
  BY <1>5 DEF Issue, PendingHasBuffer, table, search
<1>. QED
  BY <1>1, <1>2, <1>3, <1>4, <1>5 DEF Next

(* An entry marked ls_pending always belongs to a search with a request in *)
(* its buffer, however the receive, timer and application threads meet.    *)
THEOREM PendingSafe == Spec => []PendingHasBuffer
<1>1. Init => PendingHasBuffer
  BY DEF Init, PendingHasBuffer
<1>2. TypeOK /\ PendingHasBuffer /\ [Next]_vars => PendingHasBuffer'
  BY PendingStep DEF vars, PendingHasBuffer, table, search
<1>. QED
  BY <1>1, <1>2, TypeCorrect, PTL DEF Spec

-----------------------------------------------------------------------------
(* Timers: nothing buffered is ever stranded.                              *)

(* A thread that is still inside gn_ls_request keeps its target: only the  *)
(* receive thread changes the list it flushes, between two requests.       *)
LEMMA TargetStable ==
  ASSUME TypeOK, Next, NEW th \in Thread, Working(th)
  PROVE  target(th)' = target(th)
<1>1. th # Rx => target(th)' = target(th)
  BY DEF target, current
<1>2. ASSUME th = Rx PROVE flush' = flush
  <2>0. rx.step = "flush" /\ flush # <<>> /\ pc[Rx] \notin {"idle", "done"}
    BY <1>2 DEF TypeOK, Working
  <2>1. ASSUME NEW x \in Thread, RequestNext(x) PROVE flush' = flush
    BY <2>1 DEF RequestNext, LookupMiss, LookupHit, JoinSearch, BeginSearch,
                StartTimer, StoreTimer, receiver
  <2>2. ASSUME NEW t \in Timer, TimerNext(t) PROVE flush' = flush
    BY <2>2 DEF TimerNext, Elapse, GiveUp, Retransmit, RestartTimer,
                StoreRestarted, receiver
  <2>3. ASSUME NEW a \in Addr, NEW reply \in BOOLEAN, Receive(a, reply)
        PROVE flush' = flush
    BY <2>3 DEF Receive
  <2>4. CASE ReceiverNext
    BY <2>0, <2>4 DEF ReceiverNext, UpdatePosition, RefreshTable,
                      FinishSearch, FlushNext, FlushOver, receiver
  <2>5. ASSUME NEW r \in Request, Issue(r) PROVE flush' = flush
    BY <2>5 DEF Issue, receiver
  <2>. QED
    BY <2>1, <2>2, <2>3, <2>4, <2>5 DEF Next
<1>. QED
  BY <1>1, <1>2 DEF target, current

StrandInv == TypeOK /\ PendingHasBuffer /\ TimerBookkeeping /\ NeverStranded

(* Whatever leaves the timers, the steps "start" and "store", and the      *)
(* buffers alone preserves the bookkeeping.                                *)
LEMMA BookkeepingFrame ==
  ASSUME TypeOK, Next, TimerBookkeeping, UNCHANGED <<timers, lsTimer>>,
         \A th \in Thread : pc'[th] = "store" => pc[th] = "store"
  PROVE  TimerBookkeeping'
<1>1. \A th \in Thread : pc'[th] = "store" => target(th)' = target(th)
  BY TargetStable DEF Working
<1>. QED
  BY <1>1 DEF TimerBookkeeping, Carries, timers

LEMMA StrandedFrame ==
  ASSUME TypeOK, Next, NeverStranded, UNCHANGED timers,
         \A th \in Thread : pc[th] = "start" => pc'[th] = "start",
         \A a \in Addr : buffer'[a] # <<>> => buffer[a] # <<>>
  PROVE  NeverStranded'
<1> SUFFICES ASSUME NEW a \in Addr, buffer'[a] # <<>>
             PROVE  Driven(a)'
  BY DEF NeverStranded
<1>1. Driven(a)
  BY DEF NeverStranded
<1>2. CASE \E th \in Thread : pc[th] = "start" /\ target(th) = a
  BY <1>2, TargetStable DEF Driven, Working
<1>3. CASE \E t \in Timer : timer[t] # "idle" /\ sought[t] = a
  BY <1>3 DEF Driven, timers
<1>. QED
  BY <1>1, <1>2, <1>3 DEF Driven

(* Cancelling a timer of address a leaves every other address its driver.  *)
LEMMA CancelKeepsOthers ==
  ASSUME TypeOK, TimerBookkeeping, NEW a \in Addr,
         NEW t \in Timer, timer[t] # "idle", sought[t] # a
  PROVE  Cancelled(lsTimer[a])[t] = timer[t]
<1>1. lsTimer[a] # t
  BY TimerAssumption DEF TimerBookkeeping
<1>. QED
  BY <1>1 DEF Cancelled

LEMMA StartTimerStep ==
  ASSUME StrandInv, Next, NEW th \in Thread, StartTimer(th)
  PROVE  TimerBookkeeping' /\ NeverStranded'
<1>. USE DEF StrandInv
<1>1. Fresh \in Timer /\ Unused(Fresh)
  BY FreshIsUnused DEF StartTimer
<1>2. /\ target(th) \in Addr
      /\ \A x \in Thread : Working(x) => target(x)' = target(x)
  BY CurrentIsRequest, TargetStable DEF StartTimer, Working
<1>3. /\ started'[th] = Fresh
      /\ \A x \in Thread \cup Timer : x # th => started'[x] = started[x]
      /\ pc'[th] = "store"
      /\ \A x \in Thread : x # th => pc'[x] = pc[x]
      /\ timer'[Fresh] = "armed"
      /\ sought'[Fresh] = target(th)
      /\ \A u \in Timer : u # Fresh => timer'[u] = timer[u] /\ sought'[u] = sought[u]
      /\ lsTimer' = lsTimer
      /\ buffer' = buffer
  BY <1>1 DEF StartTimer, Advance, TypeOK, search
<1>4. th \notin Timer
  BY TimerAssumption DEF Thread
<1>5. TimerBookkeeping'
  <2>1. \A a \in Addr : lsTimer'[a] # NoTimer => sought'[lsTimer'[a]] = a
    BY <1>1, <1>3 DEF TimerBookkeeping, Unused, TypeOK
  <2>2. ASSUME NEW x \in Thread, pc'[x] = "store" PROVE Carries(x, target(x))'
    <3>1. CASE x = th
      <4>1. target(th)' = target(th)
        BY <1>2 DEF StartTimer, Working
      <4>. QED
        BY <1>1, <1>3, <3>1, <4>1 DEF Carries
    <3>2. CASE x # th
      <4>1. Carries(x, target(x)) /\ target(x)' = target(x)
        BY <1>2, <1>3, <2>2, <3>2 DEF TimerBookkeeping, Working
      <4>. QED
        BY <1>1, <1>3, <3>2, <4>1 DEF Carries, Unused
    <3>. QED
      BY <3>1, <3>2
  <2>3. ASSUME NEW t \in Timer, timer'[t] = "store" PROVE Carries(t, sought[t])'
    BY <1>1, <1>3, <1>4, <2>3 DEF TimerBookkeeping, Carries, Unused
  <2>4. ASSUME NEW x \in Thread \cup Timer, NEW y \in Thread \cup Timer,
               started'[x] # NoTimer, started'[x] = started'[y]
        PROVE  x = y
    BY <1>1, <1>3, <2>4 DEF TimerBookkeeping, Unused
  <2>5. ASSUME NEW x \in Thread \cup Timer, NEW a \in Addr, started'[x] # NoTimer
        PROVE  lsTimer'[a] # started'[x]
    BY <1>1, <1>3, <2>5 DEF TimerBookkeeping, Unused
  <2>. QED
    BY <2>1, <2>2, <2>3, <2>4, <2>5 DEF TimerBookkeeping
<1>6. NeverStranded'
  <2> SUFFICES ASSUME NEW a \in Addr, buffer[a] # <<>>
               PROVE  Driven(a)'
    BY <1>3 DEF NeverStranded
  <2>1. CASE a = target(th)
    BY <1>1, <1>3, <2>1 DEF Driven
  <2>2. CASE a # target(th) /\ \E x \in Thread : pc[x] = "start" /\ target(x) = a
    BY <1>2, <1>3, <2>2 DEF Driven, Working
  <2>3. CASE \E t \in Timer : timer[t] # "idle" /\ sought[t] = a
    BY <1>1, <1>3, <2>3 DEF Driven, Unused
  <2>. QED
    BY <2>1, <2>2, <2>3 DEF NeverStranded, Driven
<1>. QED
  BY <1>5, <1>6

LEMMA StoreTimerStep ==
  ASSUME StrandInv, Next, NEW th \in Thread, StoreTimer(th)
  PROVE  TimerBookkeeping' /\ NeverStranded'
<1>. USE DEF StrandInv
<1>. DEFINE a == target(th)
            own == started[th]
<1>1. /\ a \in Addr
      /\ \A x \in Thread : Working(x) => target(x)' = target(x)
  BY CurrentIsRequest, TargetStable DEF StoreTimer, Working
<1>2. /\ Carries(th, a)
      /\ own \in Timer
      /\ own # NoTimer
      /\ \A b \in Addr : lsTimer[b] # own
  BY TimerAssumption DEF StoreTimer, TimerBookkeeping, Carries
<1>3. /\ started'[th] = NoTimer
      /\ \A x \in Thread \cup Timer : x # th => started'[x] = started[x]
      /\ pc'[th] = "done"
      /\ \A x \in Thread : x # th => pc'[x] = pc[x]
      /\ sought' = sought
      /\ lsTimer'[a] = own
      /\ \A b \in Addr : b # a => lsTimer'[b] = lsTimer[b]
      /\ buffer' = buffer
  BY <1>1 DEF StoreTimer, Advance, TypeOK
<1>4. /\ timer' = Cancelled(lsTimer[a])
      /\ \A t \in Timer : t # lsTimer[a] => timer'[t] = timer[t]
      /\ \A t \in Timer : timer'[t] = "store" => timer[t] = "store"
  BY DEF StoreTimer, Cancelled
<1>5. TimerBookkeeping'
  <2>1. \A b \in Addr : lsTimer'[b] # NoTimer => sought'[lsTimer'[b]] = b
    BY <1>1, <1>2, <1>3 DEF TimerBookkeeping, Carries
  <2>2. ASSUME NEW x \in Thread, pc'[x] = "store" PROVE Carries(x, target(x))'
    <3>1. x # th /\ Carries(x, target(x)) /\ target(x)' = target(x)
      BY <1>1, <1>3, <2>2 DEF TimerBookkeeping, Working
    <3>2. started[x] # NoTimer /\ started[x] # lsTimer[a]
      BY <1>1, <3>1, TimerAssumption DEF TimerBookkeeping, Carries
    <3>. QED
      BY <1>3, <1>4, <3>1, <3>2 DEF Carries
  <2>3. ASSUME NEW t \in Timer, timer'[t] = "store" PROVE Carries(t, sought[t])'
    <3>1. t # th /\ Carries(t, sought[t])
      BY <1>4, <2>3, TimerAssumption DEF TimerBookkeeping, Thread
    <3>2. started[t] # NoTimer /\ started[t] # lsTimer[a]
      BY <1>1, <3>1, TimerAssumption DEF TimerBookkeeping, Carries
    <3>. QED
      BY <1>3, <1>4, <3>1, <3>2 DEF Carries
  <2>4. ASSUME NEW x \in Thread \cup Timer, NEW y \in Thread \cup Timer,
               started'[x] # NoTimer, started'[x] = started'[y]
        PROVE  x = y
    BY <1>3, <2>4 DEF TimerBookkeeping
  <2>5. ASSUME NEW x \in Thread \cup Timer, NEW b \in Addr, started'[x] # NoTimer
        PROVE  lsTimer'[b] # started'[x]
    BY <1>1, <1>2, <1>3, <2>5 DEF TimerBookkeeping
  <2>. QED
    BY <2>1, <2>2, <2>3, <2>4, <2>5 DEF TimerBookkeeping
<1>6. NeverStranded'
  <2> SUFFICES ASSUME NEW b \in Addr, buffer[b] # <<>>
               PROVE  Driven(b)'
    BY <1>3 DEF NeverStranded
  <2>1. CASE b = a
    BY <1>2, <1>3, <1>4, <2>1 DEF Driven, Carries
  <2>2. CASE \E x \in Thread : pc[x] = "start" /\ target(x) = b
    BY <1>1, <1>3, <2>2 DEF Driven, Working, StoreTimer
  <2>3. CASE b # a /\ \E t \in Timer : timer[t] # "idle" /\ sought[t] = b
    BY <1>1, <1>3, <1>4, <2>3, CancelKeepsOthers DEF Driven
  <2>. QED
    BY <2>1, <2>2, <2>3 DEF NeverStranded, Driven
<1>. QED
  BY <1>5, <1>6

LEMMA RequestKeepsStrandInv ==
  ASSUME StrandInv, Next, NEW th \in Thread, RequestNext(th)
  PROVE  TimerBookkeeping' /\ NeverStranded'
<1>. USE DEF StrandInv
<1>0. Working(th)
  BY DEF RequestNext, LookupMiss, LookupHit, JoinSearch, BeginSearch,
         StartTimer, StoreTimer, Working
<1>1. CASE LookupMiss(th) \/ LookupHit(th)
  <2>1. /\ UNCHANGED <<timers, lsTimer, buffer>>
        /\ \A x \in Thread : pc'[x] \in {"start", "store"} <=> pc[x] \in {"start", "store"}
        /\ \A x \in Thread : x # th => pc'[x] = pc[x]
        /\ pc[th] = "lookup" /\ pc'[th] \notin {"start", "store"}
    BY <1>1 DEF LookupMiss, LookupHit, Advance, TypeOK, search, timers
  <2>. QED
    BY <2>1, BookkeepingFrame, StrandedFrame
<1>2. CASE JoinSearch(th)
  <2>0. current(th) \in Request /\ target(th) \in Addr
    BY <1>0, CurrentIsRequest
  <2>1. /\ UNCHANGED <<timers, lsTimer>>
        /\ \A x \in Thread : x # th => pc'[x] = pc[x]
        /\ pc[th] = "search" /\ pc'[th] = "done"
    BY <1>2 DEF JoinSearch, Advance, TypeOK
  <2>2. \A a \in Addr : buffer'[a] # <<>> => buffer[a] # <<>>
    BY <1>2, <2>0 DEF JoinSearch, PendingHasBuffer, TypeOK
  <2>. QED
    BY <2>1, <2>2, BookkeepingFrame, StrandedFrame
<1>3. CASE BeginSearch(th)
  <2>0. /\ target(th) \in Addr
        /\ \A x \in Thread : Working(x) => target(x)' = target(x)
    BY <1>0, CurrentIsRequest, TargetStable
  <2>1. /\ UNCHANGED <<timers, lsTimer>>
        /\ \A x \in Thread : x # th => pc'[x] = pc[x]
        /\ pc[th] = "search" /\ pc'[th] = "start"
        /\ \A a \in Addr : a # target(th) => buffer'[a] = buffer[a]
    BY <1>3, <2>0 DEF BeginSearch, Advance, TypeOK
  <2>2. TimerBookkeeping'
    BY <2>1, BookkeepingFrame
  <2>3. NeverStranded'
    <3> SUFFICES ASSUME NEW a \in Addr, buffer'[a] # <<>>
                 PROVE  Driven(a)'
      BY DEF NeverStranded
    <3>1. CASE a = target(th)
      BY <1>0, <2>0, <2>1, <3>1 DEF Driven
    <3>2. CASE a # target(th)
      <4>1. Driven(a)
        BY <2>1, <3>2 DEF NeverStranded
      <4>. QED
        BY <2>0, <2>1, <4>1 DEF Driven, Working, timers
    <3>. QED
      BY <3>1, <3>2
  <2>. QED
    BY <2>2, <2>3
<1>. QED
  BY <1>1, <1>2, <1>3, StartTimerStep, StoreTimerStep DEF RequestNext

LEMMA TimerKeepsStrandInv ==
  ASSUME StrandInv, Next, PromptStore, NEW t \in Timer, TimerNext(t)
  PROVE  TimerBookkeeping' /\ NeverStranded'
<1>. USE DEF StrandInv
<1>0. /\ UNCHANGED <<pc, flush>>
      /\ \A x \in Thread : target(x)' = target(x)
      /\ sought[t] \in Addr
      /\ t \notin Thread
  BY TimerAssumption
  DEF TimerNext, Elapse, GiveUp, Retransmit, RestartTimer, StoreRestarted,
      table, receiver, outcome, target, current, TypeOK, Thread
<1>1. CASE Elapse(t)
  <2>1. /\ UNCHANGED <<buffer, lsTimer, sought, started>>
        /\ timer' = [timer EXCEPT ![t] = "elapsed"]
        /\ timer[t] = "armed"
        /\ \A x \in Thread \cup Timer : started[x] # t
    BY <1>1 DEF Elapse, search, Recorded
  <2>2. TimerBookkeeping'
    BY <1>0, <2>1 DEF TimerBookkeeping, Carries, TypeOK
  <2>3. NeverStranded'
    BY <1>0, <2>1 DEF NeverStranded, Driven, TypeOK
  <2>. QED
    BY <2>2, <2>3
<1>2. CASE GiveUp(t)
  <2>1. /\ UNCHANGED <<sought, started>>
        /\ buffer' = [buffer EXCEPT ![sought[t]] = <<>>]
        /\ lsTimer' = [lsTimer EXCEPT ![sought[t]] = NoTimer]
        /\ timer' = [timer EXCEPT ![t] = "idle"]
        /\ timer[t] = "elapsed"
    BY <1>2 DEF GiveUp
  <2>2. TimerBookkeeping'
    <3>1. \A a \in Addr : lsTimer'[a] \in {lsTimer[a], NoTimer}
      BY <1>0, <2>1 DEF TypeOK
    <3>. QED
      BY <1>0, <2>1, <3>1 DEF TimerBookkeeping, Carries, TypeOK
  <2>3. NeverStranded'
    <3> SUFFICES ASSUME NEW a \in Addr, buffer'[a] # <<>>
                 PROVE  Driven(a)'
      BY DEF NeverStranded
    <3>1. a # sought[t] /\ buffer[a] # <<>>
      BY <1>0, <2>1 DEF TypeOK
    <3>. QED
      BY <1>0, <2>1, <3>1 DEF NeverStranded, Driven, TypeOK
  <2>. QED
    BY <2>2, <2>3
<1>3. CASE Retransmit(t)
  <2>1. /\ UNCHANGED <<buffer, lsTimer, sought, started>>
        /\ timer' = [timer EXCEPT ![t] = "resend"]
        /\ timer[t] = "elapsed"
    BY <1>3 DEF Retransmit
  <2>2. TimerBookkeeping'
    BY <1>0, <2>1 DEF TimerBookkeeping, Carries, TypeOK
  <2>3. NeverStranded'
    BY <1>0, <2>1 DEF NeverStranded, Driven, TypeOK
  <2>. QED
    BY <2>2, <2>3
<1>4. CASE RestartTimer(t)
  <2>1. Fresh \in Timer /\ Unused(Fresh)
    BY <1>4, FreshIsUnused DEF RestartTimer
  <2>2. Fresh # t
    BY <1>4, <2>1 DEF RestartTimer, Unused
  <2>3. /\ UNCHANGED <<buffer, lsTimer>>
        /\ timer[t] = "resend" /\ timer'[t] = "store" /\ sought'[t] = sought[t]
        /\ timer'[Fresh] = "armed" /\ sought'[Fresh] = sought[t]
        /\ \A u \in Timer : u \notin {t, Fresh} =>
             timer'[u] = timer[u] /\ sought'[u] = sought[u]
        /\ started'[t] = Fresh
        /\ \A x \in Thread \cup Timer : x # t => started'[x] = started[x]
    BY <1>4, <2>1, <2>2 DEF RestartTimer, TypeOK, search
  <2>4. TimerBookkeeping'
    <3>1. \A a \in Addr : lsTimer'[a] # NoTimer => sought'[lsTimer'[a]] = a
      BY <2>1, <2>3 DEF TimerBookkeeping, Unused, TypeOK
    <3>2. ASSUME NEW x \in Thread, pc'[x] = "store" PROVE Carries(x, target(x))'
      BY <1>0, <2>1, <2>3, <3>2 DEF TimerBookkeeping, Carries, Unused
    <3>3. ASSUME NEW u \in Timer, timer'[u] = "store" PROVE Carries(u, sought[u])'
      BY <2>1, <2>2, <2>3, <3>3 DEF TimerBookkeeping, Carries, Unused
    <3>4. ASSUME NEW x \in Thread \cup Timer, NEW y \in Thread \cup Timer,
                 started'[x] # NoTimer, started'[x] = started'[y]
          PROVE  x = y
      BY <2>1, <2>3, <3>4 DEF TimerBookkeeping, Unused
    <3>5. ASSUME NEW x \in Thread \cup Timer, NEW a \in Addr, started'[x] # NoTimer
          PROVE  lsTimer'[a] # started'[x]
      BY <2>1, <2>3, <3>5 DEF TimerBookkeeping, Unused
    <3>. QED
      BY <3>1, <3>2, <3>3, <3>4, <3>5 DEF TimerBookkeeping
  <2>5. NeverStranded'
    BY <1>0, <2>1, <2>3 DEF NeverStranded, Driven, Unused
  <2>. QED
    BY <2>4, <2>5
<1>5. CASE StoreRestarted(t)
  <2>1. /\ UNCHANGED <<buffer, sought>>
        /\ lsTimer' = [lsTimer EXCEPT ![sought[t]] = started[t]]
        /\ started' = [started EXCEPT ![t] = NoTimer]
        /\ timer' = [timer EXCEPT ![t] = "idle"]
        /\ timer[t] = "store"
        /\ Carries(t, sought[t])
    BY <1>5 DEF StoreRestarted, TimerBookkeeping
  <2>2. started[t] \in Timer /\ started[t] # t /\ started[t] # NoTimer
    BY <2>1, TimerAssumption DEF Carries
  <2>3. TimerBookkeeping'
    <3>1. \A a \in Addr : lsTimer'[a] # NoTimer => sought'[lsTimer'[a]] = a
      BY <1>0, <2>1 DEF TimerBookkeeping, Carries, TypeOK
    <3>2. ASSUME NEW x \in Thread, pc'[x] = "store" PROVE Carries(x, target(x))'
      BY <1>0, <2>1, <3>2 DEF TimerBookkeeping, Carries, TypeOK
    <3>3. ASSUME NEW u \in Timer, timer'[u] = "store" PROVE Carries(u, sought[u])'
      BY <1>0, <2>1, <3>3 DEF TimerBookkeeping, Carries, TypeOK
    <3>4. ASSUME NEW x \in Thread \cup Timer, NEW y \in Thread \cup Timer,
                 started'[x] # NoTimer, started'[x] = started'[y]
          PROVE  x = y
      BY <2>1, <3>4 DEF TimerBookkeeping, TypeOK
    <3>5. ASSUME NEW x \in Thread \cup Timer, NEW a \in Addr, started'[x] # NoTimer
          PROVE  lsTimer'[a] # started'[x]
      BY <1>0, <2>1, <2>2, <3>5 DEF TimerBookkeeping, TypeOK
    <3>. QED
      BY <3>1, <3>2, <3>3, <3>4, <3>5 DEF TimerBookkeeping
  <2>4. NeverStranded'
    <3> SUFFICES ASSUME NEW a \in Addr, buffer[a] # <<>>
                 PROVE  Driven(a)'
      BY <2>1 DEF NeverStranded
    <3>1. CASE a = sought[t]
      BY <2>1, <2>2, <3>1 DEF Driven, Carries, TypeOK
    <3>2. CASE a # sought[t]
      BY <1>0, <2>1, <3>2 DEF NeverStranded, Driven, TypeOK
    <3>. QED
      BY <3>1, <3>2
  <2>. QED
    BY <2>3, <2>4
<1>. QED
  BY <1>1, <1>2, <1>3, <1>4, <1>5 DEF TimerNext

LEMMA ReceiverKeepsStrandInv ==
  ASSUME StrandInv, Next, ReceiverNext
  PROVE  TimerBookkeeping' /\ NeverStranded'
<1>. USE DEF StrandInv
<1>1. CASE FinishSearch
  <2>. DEFINE a == rx.from
  <2>1. /\ a \in Addr
        /\ UNCHANGED <<sought, started, pc>>
        /\ \A x \in Thread : Working(x) => target(x)' = target(x)
    BY <1>1, TargetStable DEF FinishSearch, TypeOK
  <2>2. /\ timer' = Cancelled(lsTimer[a])
        /\ lsTimer' = [lsTimer EXCEPT ![a] = NoTimer]
        /\ buffer' = [buffer EXCEPT ![a] = <<>>]
        /\ \A t \in Timer : t # lsTimer[a] => timer'[t] = timer[t]
        /\ \A t \in Timer : timer'[t] = "store" => timer[t] = "store"
    BY <1>1 DEF FinishSearch, Cancelled
  <2>3. ASSUME NEW x \in Thread \cup Timer, NEW b, Carries(x, b)
        PROVE  Carries(x, b)'
    <3>1. started[x] # NoTimer /\ started[x] # lsTimer[a]
      BY <2>1, <2>3, TimerAssumption DEF TimerBookkeeping, Carries
    <3>. QED
      BY <2>1, <2>2, <2>3, <3>1 DEF Carries
  <2>4. TimerBookkeeping'
    <3>1. \A b \in Addr : lsTimer'[b] \in {lsTimer[b], NoTimer}
      BY <2>1, <2>2 DEF TypeOK
    <3>2. ASSUME NEW x \in Thread, pc'[x] = "store" PROVE Carries(x, target(x))'
      <4>1. Carries(x, target(x)) /\ target(x)' = target(x)
        BY <2>1, <3>2 DEF TimerBookkeeping, Working
      <4>2. PICK b : b = target(x)
        OBVIOUS
      <4>3. Carries(x, b)' /\ target(x)' = b
        BY <2>3, <4>1, <4>2
      <4>. QED
        BY <4>3 DEF Carries
    <3>3. ASSUME NEW u \in Timer, timer'[u] = "store" PROVE Carries(u, sought[u])'
      BY <2>1, <2>2, <2>3, <3>3 DEF TimerBookkeeping, Carries
    <3>. QED
      BY <2>1, <3>1, <3>2, <3>3 DEF TimerBookkeeping
  <2>5. NeverStranded'
    <3> SUFFICES ASSUME NEW b \in Addr, buffer'[b] # <<>>
                 PROVE  Driven(b)'
      BY DEF NeverStranded
    <3>1. b # a /\ Driven(b)
      BY <2>1, <2>2 DEF NeverStranded, TypeOK
    <3>2. CASE \E x \in Thread : pc[x] = "start" /\ target(x) = b
      BY <2>1, <3>2 DEF Driven, Working
    <3>3. CASE \E t \in Timer : timer[t] # "idle" /\ sought[t] = b
      BY <2>1, <2>2, <3>1, <3>3, CancelKeepsOthers DEF Driven
    <3>. QED
      BY <3>1, <3>2, <3>3 DEF Driven
  <2>. QED
    BY <2>4, <2>5
<1>2. CASE UpdatePosition \/ RefreshTable \/ FlushNext \/ FlushOver
  <2>1. /\ UNCHANGED <<timers, lsTimer, buffer>>
        /\ \A x \in Thread : x # Rx => pc'[x] = pc[x]
        /\ pc'[Rx] # pc[Rx] => /\ pc[Rx] \notin {"start", "store"}
                              /\ pc'[Rx] \notin {"start", "store"}
    <3>1. CASE UpdatePosition \/ RefreshTable
      BY <3>1 DEF UpdatePosition, RefreshTable, search, timers
    <3>2. CASE FlushNext
      BY <3>2 DEF FlushNext, Advance, TypeOK, Thread, search, timers
    <3>3. CASE FlushOver
      <4>1. pc[Rx] \notin {"start", "store"}
        BY <3>3 DEF FlushOver, TypeOK, Working
      <4>. QED
        BY <3>3, <4>1 DEF FlushOver, Advance, TypeOK, Thread, search, timers
    <3>. QED
      BY <1>2, <3>1, <3>2, <3>3
  <2>2. /\ \A x \in Thread : pc'[x] = "store" => pc[x] = "store"
        /\ \A x \in Thread : pc[x] = "start" => pc'[x] = "start"
    BY <2>1
  <2>. QED
    BY <2>1, <2>2, BookkeepingFrame, StrandedFrame
<1>. QED
  BY <1>1, <1>2 DEF ReceiverNext

(* Init => StrandInv, and every step keeps it.                             *)
LEMMA StrandInvInductive ==
  ASSUME PromptStore
  PROVE  /\ Init => StrandInv
         /\ StrandInv /\ [Next]_vars => StrandInv'
<1>1. Init => StrandInv
  BY InitType, TimerAssumption
  DEF Init, StrandInv, PendingHasBuffer, TimerBookkeeping, NeverStranded, Thread
<1>2. ASSUME StrandInv, Next PROVE StrandInv'
  <2>0. TypeOK' /\ PendingHasBuffer'
    BY <1>2, NextType, PendingStep DEF StrandInv
  <2>1. ASSUME NEW a \in Addr, NEW reply \in BOOLEAN, Receive(a, reply)
        PROVE  TimerBookkeeping' /\ NeverStranded'
    BY <1>2, <2>1, BookkeepingFrame, StrandedFrame
    DEF Receive, StrandInv, search, timers
  <2>2. ASSUME NEW r \in Request, Issue(r)
        PROVE  TimerBookkeeping' /\ NeverStranded'
    <3>1. /\ UNCHANGED <<timers, lsTimer, buffer>>
          /\ \A x \in Thread : pc'[x] = "store" => pc[x] = "store"
          /\ \A x \in Thread : pc[x] = "start" => pc'[x] = "start"
      BY <1>2, <2>2 DEF Issue, Advance, StrandInv, TypeOK, search, timers
    <3>. QED
      BY <1>2, <3>1, BookkeepingFrame, StrandedFrame DEF StrandInv
  <2>3. TimerBookkeeping' /\ NeverStranded'
    BY <1>2, <2>1, <2>2, RequestKeepsStrandInv, TimerKeepsStrandInv, ReceiverKeepsStrandInv DEF Next
  <2>. QED
    BY <2>0, <2>3 DEF StrandInv
<1>3. ASSUME StrandInv, UNCHANGED vars PROVE StrandInv'
  BY <1>3
  DEF vars, StrandInv, TypeOK, PendingHasBuffer, TimerBookkeeping, NeverStranded,
      Driven, Carries, Working, target, current, table, search, timers,
      receiver, outcome
<1>. QED
  BY <1>1, <1>2, <1>3

(* With timers recorded before they elapse, a request in a buffer always   *)
(* has a thread or a timer that will come back for it.                     *)
THEOREM StrandedNever ==
  ASSUME PromptStore
  PROVE  Spec => []NeverStranded
<1>1. Init => StrandInv
  BY StrandInvInductive
<1>2. StrandInv /\ [Next]_vars => StrandInv'
  BY StrandInvInductive
<1>3. StrandInv => NeverStranded
  BY DEF StrandInv
<1>. QED
  BY <1>1, <1>2, <1>3, PTL DEF Spec

(* The bookkeeping the argument rests on.                                  *)
THEOREM BookkeepingKept ==
  ASSUME PromptStore
  PROVE  Spec => []TimerBookkeeping
<1>1. Init => StrandInv
  BY StrandInvInductive
<1>2. StrandInv /\ [Next]_vars => StrandInv'
  BY StrandInvInductive
<1>3. StrandInv => TimerBookkeeping
  BY DEF StrandInv
<1>. QED
  BY <1>1, <1>2, <1>3, PTL DEF Spec

-----------------------------------------------------------------------------
(* Who holds a request, and the refinement of RequestDelivery.             *)

Holds(s, r) == \E i \in 1..Len(s) : s[i] = r
Distinct(s) == \A i, j \in 1..Len(s) : s[i] = s[j] => i = j

(* The thread of the request itself has left it to others.                 *)
Parted == {"start", "store", "done"}

(* A request is in one place: with its own thread, in the buffer of its    *)
(* destination, or in the flush list; and nothing has become of it yet.    *)
HolderInv ==
  /\ \A a \in Addr, r \in Request :
       Holds(buffer[a], r) => dest[r] = a /\ pc[r] \in Parted
  /\ \A a \in Addr : Distinct(buffer[a])
  /\ \A r \in Request : Holds(flush, r) => pc[r] \in Parted
  /\ Distinct(flush)
  /\ \A r \in Request : ~(InBuffer(r) /\ InFlush(r))
  /\ \A r \in Request :
       pc[r] = "idle" \/ Held(r) => sent[r] = <<>> /\ r \notin omitted \cup abandoned
  /\ rx.step # "flush" => flush = <<>>

DeliveryInv == TypeOK /\ HolderInv

LEMMA HoldsAppend ==
  ASSUME NEW S, NEW s \in Seq(S), NEW x \in S
  PROVE  /\ \A r : Holds(Append(s, x), r) <=> Holds(s, r) \/ r = x
         /\ Distinct(s) /\ ~Holds(s, x) => Distinct(Append(s, x))
<1>. DEFINE t == Append(s, x)
            n == Len(s)
<1>1. /\ n \in Nat
      /\ Len(t) = n + 1
      /\ \A i \in 1..n : t[i] = s[i]
      /\ t[n + 1] = x
  OBVIOUS
<1>2. \A i \in 1..(n + 1) : i \in 1..n \/ i = n + 1
  BY <1>1
<1>3. \A r : Holds(t, r) <=> Holds(s, r) \/ r = x
  <2>. HIDE DEF t
  <2>. QED
    BY <1>1, <1>2 DEF Holds
<1>4. ASSUME Distinct(s), ~Holds(s, x) PROVE Distinct(t)
  <2>. HIDE DEF t
  <2>. QED
    BY <1>1, <1>2, <1>4 DEF Holds, Distinct
<1>. QED
  BY <1>3, <1>4

LEMMA HoldsTail ==
  ASSUME NEW S, NEW s \in Seq(S), s # <<>>
  PROVE  /\ \A r : Holds(Tail(s), r) <=> \E i \in 2..Len(s) : s[i] = r
         /\ Distinct(s) => Distinct(Tail(s))
<1>. DEFINE t == Tail(s)
            n == Len(s)
<1>1. /\ n \in Nat /\ n >= 1
      /\ Len(t) = n - 1
      /\ \A i \in 1..(n - 1) : t[i] = s[i + 1]
  OBVIOUS
<1>2. /\ \A i \in 1..(n - 1) : i + 1 \in 2..n /\ i + 1 \in 1..n
      /\ \A i \in 2..n : i - 1 \in 1..(n - 1) /\ (i - 1) + 1 = i
  BY <1>1
<1>3. \A r : Holds(t, r) <=> \E i \in 2..n : s[i] = r
  <2>. HIDE DEF t
  <2>1. ASSUME NEW r, Holds(t, r) PROVE \E i \in 2..n : s[i] = r
    BY <1>1, <1>2, <2>1 DEF Holds
  <2>2. ASSUME NEW i \in 2..n PROVE Holds(t, s[i])
    <3>1. i - 1 \in 1..Len(t) /\ t[i - 1] = s[i]
      BY <1>1, <1>2
    <3>. QED
      BY <3>1 DEF Holds
  <2>. QED
    BY <2>1, <2>2
<1>4. ASSUME Distinct(s) PROVE Distinct(t)
  <2>. HIDE DEF t
  <2>1. ASSUME NEW i \in 1..(n - 1), NEW j \in 1..(n - 1), t[i] = t[j] PROVE i = j
    <3>1. i + 1 = j + 1
      BY <1>1, <1>2, <1>4, <2>1 DEF Distinct
    <3>. QED
      BY <3>1
  <2>. QED
    BY <1>1, <2>1 DEF Distinct
<1>. QED
  BY <1>3, <1>4

(* What the definition of fate says, now and after a step.                 *)
FateIs(r) ==
  /\ pc[r] = "idle" => fate[r] = "new"
  /\ pc[r] # "idle" /\ Held(r) => fate[r] = "held"
  /\ pc[r] # "idle" /\ ~Held(r) =>
       /\ sent[r] # <<>> => fate[r] = "sent"
       /\ sent[r] = <<>> /\ r \in omitted => fate[r] = "omitted"
       /\ sent[r] = <<>> /\ r \notin omitted /\ r \in abandoned => fate[r] = "abandoned"
       /\ sent[r] = <<>> /\ r \notin omitted \cup abandoned => fate[r] = "lost"

LEMMA FateMeaning ==
  ASSUME NEW r \in Request
  PROVE  FateIs(r) /\ FateIs(r)'
<1>1. FateIs(r)
  BY DEF FateIs, fate
<1>2. FateIs(r)'
  BY DEF FateIs, fate
<1>. QED
  BY <1>1, <1>2

LEMMA FateIsFunction ==
  /\ fate = [r \in Request |-> fate[r]]
  /\ fate' = [r \in Request |-> fate'[r]]
BY DEF fate

(* A request whose situation a step does not change keeps its fate.        *)
LEMMA FateKept ==
  ASSUME NEW r \in Request,
         pc'[r] = "idle" <=> pc[r] = "idle",
         Held(r)' <=> Held(r),
         pc[r] # "idle" /\ ~Held(r) =>
           /\ sent'[r] = sent[r]
           /\ r \in omitted' <=> r \in omitted
           /\ r \in abandoned' <=> r \in abandoned
  PROVE  fate'[r] = fate[r]
<1>1. CASE pc[r] = "idle"
  BY <1>1, FateMeaning DEF FateIs
<1>2. CASE pc[r] # "idle" /\ Held(r)
  BY <1>2, FateMeaning DEF FateIs
<1>3. CASE pc[r] # "idle" /\ ~Held(r)
  BY <1>3, FateMeaning DEF FateIs
<1>. QED
  BY <1>1, <1>2, <1>3

(* Steps that move no request from hand to hand.                           *)
LEMMA Stutters ==
  ASSUME UNCHANGED outcome,
         \A r \in Request : /\ pc'[r] = "idle" <=> pc[r] = "idle"
                            /\ Held(r)' <=> Held(r)
  PROVE  UNCHANGED Delivery!vars
<1>1. \A r \in Request : fate'[r] = fate[r]
  BY FateKept DEF outcome
<1>2. fate' = fate
  BY <1>1, FateIsFunction
<1>3. copies' = copies
  BY DEF copies, outcome
<1>. QED
  BY <1>2, <1>3 DEF Delivery!vars

(* A request is buffered at its own destination only.                      *)
LEMMA BufferOf ==
  ASSUME HolderInv, NEW r \in Request
  PROVE  InBuffer(r) <=> Holds(buffer[dest[r]], r)
BY DestAssumption DEF HolderInv, InBuffer, Holds

(* Steps that leave every request where it is.                             *)
LEMMA RequestsStay ==
  ASSUME HolderInv,
         UNCHANGED <<buffer, outcome>>,
         flush' = flush \/ (flush # <<>> /\ flush \in Seq(Request) /\ flush' = Tail(flush)),
         rx'.step # "flush" => flush' = <<>>,
         \A r \in Request : /\ pc'[r] = pc[r] \/ {pc[r], pc'[r]} \subseteq Parted
                               \/ {pc[r], pc'[r]} \subseteq {"lookup", "search"}
                            /\ InFlush(r)' <=> InFlush(r)
  PROVE  HolderInv' /\ UNCHANGED Delivery!vars
<1>1. \A r \in Request : /\ InBuffer(r)' <=> InBuffer(r)
                         /\ Held(r)' <=> Held(r)
                         /\ pc'[r] = "idle" <=> pc[r] = "idle"
                         /\ pc[r] \in Parted => pc'[r] \in Parted
  BY DEF Held, InBuffer, Parted
<1>2. Distinct(flush') /\ \A r \in Request : Holds(flush', r) => Holds(flush, r)
  <2>1. CASE flush' = flush
    BY <2>1 DEF HolderInv
  <2>2. CASE flush # <<>> /\ flush \in Seq(Request) /\ flush' = Tail(flush)
    <3>1. Distinct(flush')
      BY <2>2, HoldsTail DEF HolderInv
    <3>2. ASSUME NEW r \in Request, Holds(flush', r) PROVE Holds(flush, r)
      <4>1. \E i \in 2..Len(flush) : flush[i] = r
        BY <2>2, <3>2, HoldsTail
      <4>. QED
        BY <2>2, <4>1 DEF Holds
    <3>. QED
      BY <3>1, <3>2
  <2>. QED
    BY <2>1, <2>2
<1>3. HolderInv'
  BY <1>1, <1>2 DEF HolderInv, outcome
<1>4. UNCHANGED Delivery!vars
  BY <1>1, Stutters
<1>. QED
  BY <1>3, <1>4

(* A thread between lookup and search is the only holder of its request.   *)
LEMMA OnlyHolder ==
  ASSUME DeliveryInv, NEW th \in Thread, pc[th] \in {"lookup", "search"}
  PROVE  /\ current(th) \in Request
         /\ Held(current(th)) /\ ~InBuffer(current(th))
         /\ pc[current(th)] # "idle"
         /\ th # Rx => ~Holds(flush, current(th))
         /\ th = Rx => pc[current(th)] \in Parted
<1>. DEFINE r == current(th)
<1>1. r \in Request
  BY CurrentIsRequest DEF DeliveryInv, Working
<1>2. CASE th = Rx
  <2>1. flush \in Seq(Request) /\ flush # <<>> /\ r = Head(flush)
    BY <1>2 DEF DeliveryInv, TypeOK, Working, current
  <2>2. 1 \in 1..Len(flush) /\ flush[1] = r
    BY <2>1
  <2>3. InFlush(r) /\ Holds(flush, r)
    BY <1>2, <2>2 DEF InFlush, Holds
  <2>. QED
    BY <1>1, <1>2, <2>3 DEF DeliveryInv, HolderInv, Held, Parted
<1>3. CASE th # Rx
  <2>1. r = th /\ pc[r] \notin Parted /\ pc[r] # "idle"
    BY <1>3 DEF current, Parted
  <2>2. ~InBuffer(r)
    BY <1>1, <2>1, BufferOf, DestAssumption DEF DeliveryInv, HolderInv
  <2>. QED
    BY <1>1, <1>3, <2>1, <2>2 DEF DeliveryInv, HolderInv, Held
<1>. QED
  BY <1>2, <1>3

(* Leaving the lookup or the search, it has let go of it, and of no other. *)
LEMMA LetsGo ==
  ASSUME DeliveryInv, NEW th \in Thread, pc[th] \in {"lookup", "search"},
         NEW c \in Request, c = current(th),
         NEW step \in {"start", "done"}, Advance(th, step), UNCHANGED receiver
  PROVE  /\ pc'[c] \in Parted
         /\ ~InFlush(c)'
         /\ \A r \in Request : r # c =>
              pc'[r] = pc[r] /\ (InFlush(r)' <=> InFlush(r))
<1>1. /\ pc' = [pc EXCEPT ![th] = step] /\ pc \in [Thread -> RequestStep]
      /\ flush' = flush
      /\ flush \in Seq(Request)
  BY DEF DeliveryInv, TypeOK, Advance, receiver
<1>2. c \in Request /\ th # Rx => ~Holds(flush, c)
  BY OnlyHolder
<1>3. CASE th = Rx
  <2>1. /\ c = Head(flush) /\ flush # <<>> /\ pc[c] \in Parted /\ c \in Request
    BY <1>3, OnlyHolder DEF DeliveryInv, TypeOK, Working, current
  <2>2. flush[1] = c /\ 1 \in 1..Len(flush) /\ Distinct(flush)
    BY <1>1, <2>1 DEF DeliveryInv, HolderInv
  <2>3. pc'[Rx] = step /\ pc'[Rx] \notin {"idle", "lookup", "search"} /\ \A r \in Request : pc'[r] = pc[r]
    BY <1>1, <1>3, RxAssumption DEF Thread
  <2>4. ~InFlush(c)'
    BY <1>1, <2>2, <2>3 DEF InFlush, Distinct
  <2>5. ASSUME NEW r \in Request, r # c PROVE InFlush(r)' <=> InFlush(r)
    BY <1>1, <2>2, <2>3, <2>5 DEF InFlush
  <2>. QED
    BY <2>1, <2>3, <2>4, <2>5
<1>4. CASE th # Rx
  <2>1. c = th /\ ~Holds(flush, c) /\ c \in Request
    BY <1>4, OnlyHolder DEF current
  <2>2. pc'[c] = step /\ pc'[Rx] = pc[Rx] /\ \A r \in Request : r # c => pc'[r] = pc[r]
    BY <1>1, <1>4, <2>1 DEF Thread
  <2>3. \A r \in Request : InFlush(r)' <=> InFlush(r)
    BY <1>1, <2>2 DEF InFlush
  <2>4. ~InFlush(c)
    BY <2>1 DEF InFlush, Holds
  <2>. QED
    BY <2>1, <2>2, <2>3, <2>4 DEF Parted
<1>. QED
  BY <1>3, <1>4

(* LookupHit is Send or Omit.                                              *)
LEMMA HitDelivers ==
  ASSUME DeliveryInv, NEW th \in Thread, LookupHit(th)
  PROVE  HolderInv' /\ Delivery!Next
<1>0. PICK c \in Request : c = current(th)
  BY OnlyHolder DEF LookupHit
<1>. DEFINE de == position[target(th)]
<1>1. /\ c \in Request /\ Held(c) /\ ~InBuffer(c) /\ pc[c] # "idle"
      /\ pc'[c] \in Parted /\ ~InFlush(c)'
      /\ \A r \in Request : r # c => pc'[r] = pc[r] /\ (InFlush(r)' <=> InFlush(r))
  BY <1>0, OnlyHolder, LetsGo DEF LookupHit, Parted
<1>2. UNCHANGED <<buffer, flush, abandoned, rx>> /\ sent[c] = <<>> /\ c \notin omitted \cup abandoned
  BY <1>1 DEF LookupHit, search, receiver, DeliveryInv, HolderInv
<1>3. \A r \in Request : InBuffer(r)' <=> InBuffer(r)
  BY <1>2 DEF InBuffer
<1>4. /\ ~Held(c)' /\ pc'[c] # "idle"
      /\ \A r \in Request : r # c => (Held(r)' <=> Held(r))
  BY <1>1, <1>3 DEF Held, Parted
<1>5. \/ /\ sent' = [sent EXCEPT ![c] = Append(sent[c], de)]
         /\ omitted' = omitted
      \/ /\ omitted' = omitted \cup {c}
         /\ sent' = sent
  BY <1>0 DEF LookupHit
<1>6. \A r \in Request : r # c => sent'[r] = sent[r] /\ (r \in omitted' <=> r \in omitted)
  BY <1>5 DEF DeliveryInv, TypeOK
<1>7. HolderInv'
  <2>1. \A r \in Request : pc[r] \in Parted => pc'[r] \in Parted
    BY <1>1
  <2>. QED
    BY <1>1, <1>2, <1>3, <1>4, <1>6, <2>1 DEF DeliveryInv, HolderInv
<1>8. \A r \in Request : r # c => fate'[r] = fate[r]
  BY <1>1, <1>2, <1>4, <1>6, FateKept
<1>9. fate[c] = "held"
  BY <1>1, FateMeaning DEF FateIs
<1>10. CASE sent' = [sent EXCEPT ![c] = Append(sent[c], de)]
  <2>1. sent'[c] = Append(<<>>, de) /\ Append(<<>>, de) # <<>> /\ Len(sent'[c]) = Len(sent[c]) + 1
    BY <1>1, <1>2, <1>10 DEF DeliveryInv, TypeOK
  <2>2. fate'[c] = "sent"
    BY <1>1, <1>4, <2>1, FateMeaning DEF FateIs
  <2>3. fate' = [fate EXCEPT ![c] = "sent"]
    BY <1>1, <1>8, <2>2, FateIsFunction
  <2>4. copies' = [copies EXCEPT ![c] = @ + 1]
    BY <1>1, <1>6, <2>1 DEF copies
  <2>. QED
    BY <1>1, <1>7, <1>9, <2>3, <2>4 DEF Delivery!Next, Delivery!Send
<1>11. CASE omitted' = omitted \cup {c} /\ sent' = sent
  <2>1. fate'[c] = "omitted"
    BY <1>1, <1>2, <1>4, <1>11, FateMeaning DEF FateIs
  <2>2. fate' = [fate EXCEPT ![c] = "omitted"]
    BY <1>1, <1>8, <2>1, FateIsFunction
  <2>3. copies' = copies
    BY <1>11 DEF copies
  <2>. QED
    BY <1>1, <1>7, <1>9, <2>2, <2>3 DEF Delivery!Next, Delivery!Omit
<1>. QED
  BY <1>5, <1>10, <1>11

(* JoinSearch hands the request to the buffer.                             *)
LEMMA JoinDelivers ==
  ASSUME DeliveryInv, NEW th \in Thread, JoinSearch(th)
  PROVE  HolderInv' /\ UNCHANGED Delivery!vars
<1>0. PICK c \in Request : c = current(th)
  BY OnlyHolder DEF JoinSearch
<1>. DEFINE a == dest[c]
<1>1. /\ c \in Request /\ Held(c) /\ ~InBuffer(c) /\ pc[c] # "idle"
      /\ pc'[c] \in Parted /\ ~InFlush(c)'
      /\ \A r \in Request : r # c => pc'[r] = pc[r] /\ (InFlush(r)' <=> InFlush(r))
  BY <1>0, OnlyHolder, LetsGo DEF JoinSearch, Parted
<1>2. /\ UNCHANGED <<flush, rx, outcome>>
      /\ a \in Addr /\ buffer[a] \in Seq(Request)
      /\ buffer' = [buffer EXCEPT ![a] = Append(buffer[a], c)]
      /\ DOMAIN buffer = Addr
  BY <1>0, <1>1, DestAssumption DEF JoinSearch, receiver, target, DeliveryInv, TypeOK
<1>3. ~Holds(buffer[a], c)
  BY <1>1, BufferOf DEF DeliveryInv
<1>4. /\ Distinct(buffer'[a])
      /\ \A r : Holds(buffer'[a], r) <=> Holds(buffer[a], r) \/ r = c
      /\ \A b \in Addr : b # a => buffer'[b] = buffer[b]
  BY <1>1, <1>2, <1>3, HoldsAppend DEF DeliveryInv, HolderInv
<1>5. \A r \in Request : InBuffer(r)' <=> InBuffer(r) \/ r = c
  BY <1>2, <1>4 DEF InBuffer, Holds
<1>6. \A r \in Request : Held(r)' <=> Held(r)
  BY <1>1, <1>5 DEF Held, Parted
<1>7. \A r \in Request : (pc'[r] = "idle" <=> pc[r] = "idle") /\ (pc[r] \in Parted => pc'[r] \in Parted)
  BY <1>1 DEF Parted
<1>8. HolderInv'
  <2>1. \A b \in Addr, r \in Request :
          Holds(buffer'[b], r) => dest[r] = b /\ pc'[r] \in Parted
    BY <1>1, <1>4, <1>7 DEF DeliveryInv, HolderInv
  <2>2. \A b \in Addr : Distinct(buffer'[b])
    BY <1>4 DEF DeliveryInv, HolderInv
  <2>3. \A r \in Request : ~(InBuffer(r)' /\ InFlush(r)')
    BY <1>1, <1>5 DEF DeliveryInv, HolderInv
  <2>. QED
    BY <1>2, <1>6, <1>7, <2>1, <2>2, <2>3 DEF DeliveryInv, HolderInv, outcome
<1>. QED
  BY <1>2, <1>6, <1>7, <1>8, Stutters

(* BeginSearch drops whatever an earlier search had buffered.              *)
LEMMA BeginDelivers ==
  ASSUME DeliveryInv, NEW th \in Thread, BeginSearch(th)
  PROVE  HolderInv' /\ Delivery!Next
<1>0. PICK c \in Request : c = current(th)
  BY OnlyHolder DEF BeginSearch
<1>. DEFINE a == dest[c]
            R == {r \in Request : Holds(buffer[a], r)}
<1>1. /\ c \in Request /\ Held(c) /\ ~InBuffer(c) /\ pc[c] # "idle"
      /\ pc'[c] \in Parted /\ ~InFlush(c)'
      /\ \A r \in Request : r # c => pc'[r] = pc[r] /\ (InFlush(r)' <=> InFlush(r))
  BY <1>0, OnlyHolder, LetsGo DEF BeginSearch, Parted
<1>2. /\ UNCHANGED <<flush, rx, sent, omitted, abandoned>>
      /\ a \in Addr
      /\ buffer' = [buffer EXCEPT ![a] = <<c>>]
      /\ DOMAIN buffer = Addr
  BY <1>0, <1>1, DestAssumption DEF BeginSearch, receiver, target, DeliveryInv, TypeOK, outcome
<1>3. /\ Distinct(buffer'[a])
      /\ \A r : Holds(buffer'[a], r) <=> r = c
      /\ \A b \in Addr : b # a => buffer'[b] = buffer[b]
  BY <1>2 DEF Distinct, Holds
<1>4. \A r \in Request : InBuffer(r)' <=> (InBuffer(r) /\ r \notin R) \/ r = c
  <2>1. \A r \in Request : InBuffer(r) <=> Holds(buffer[dest[r]], r)
    BY BufferOf DEF DeliveryInv
  <2>2. \A r \in Request : InBuffer(r)' <=> \E b \in Addr : Holds(buffer'[b], r)
    BY DEF InBuffer, Holds
  <2>3. \A b \in Addr, r \in Request : Holds(buffer[b], r) => dest[r] = b
    BY DEF DeliveryInv, HolderInv
  <2>. QED
    BY <1>2, <1>3, <2>1, <2>2, <2>3, DestAssumption
<1>5. \A r \in R : /\ InBuffer(r) /\ Held(r) /\ ~InFlush(r) /\ r # c
                   /\ pc[r] \in Parted /\ pc'[r] = pc[r]
                   /\ sent[r] = <<>> /\ r \notin omitted \cup abandoned
  <2>1. \A r \in R : InBuffer(r) /\ pc[r] \in Parted
    BY <1>2 DEF InBuffer, Holds, DeliveryInv, HolderInv
  <2>. QED
    BY <1>1, <2>1 DEF DeliveryInv, HolderInv, Held
<1>6. \A r \in R : ~Held(r)'
  BY <1>1, <1>4, <1>5 DEF Held, Parted
<1>7. \A r \in Request : r \notin R => (Held(r)' <=> Held(r))
  BY <1>1, <1>4 DEF Held, Parted
<1>8. \A r \in Request : (pc'[r] = "idle" <=> pc[r] = "idle") /\ (pc[r] \in Parted => pc'[r] \in Parted)
  BY <1>1 DEF Parted
<1>9. HolderInv'
  <2>1. \A b \in Addr, r \in Request :
          Holds(buffer'[b], r) => dest[r] = b /\ pc'[r] \in Parted
    BY <1>1, <1>3, <1>8 DEF DeliveryInv, HolderInv
  <2>2. \A b \in Addr : Distinct(buffer'[b])
    BY <1>3 DEF DeliveryInv, HolderInv
  <2>3. \A r \in Request : ~(InBuffer(r)' /\ InFlush(r)')
    BY <1>1, <1>4 DEF DeliveryInv, HolderInv
  <2>4. \A r \in Request : pc'[r] = "idle" \/ Held(r)' => pc[r] = "idle" \/ Held(r)
    BY <1>6, <1>7, <1>8
  <2>. QED
    BY <1>2, <1>8, <2>1, <2>2, <2>3, <2>4 DEF DeliveryInv, HolderInv
<1>10. \A r \in Request : r \notin R => fate'[r] = fate[r]
  BY <1>2, <1>7, <1>8, FateKept
<1>11. \A r \in R : fate[r] = "held" /\ fate'[r] = "lost"
  BY <1>2, <1>5, <1>6, FateMeaning DEF FateIs, Parted
<1>12. Delivery!Drop(R, "lost")
  <2>1. fate' = [r \in Request |-> IF r \in R THEN "lost" ELSE fate[r]]
    BY <1>10, <1>11, FateIsFunction
  <2>2. copies' = copies
    BY <1>2 DEF copies
  <2>. QED
    BY <1>11, <2>1, <2>2 DEF Delivery!Drop
<1>13. R \in SUBSET Request
  OBVIOUS
<1>. QED
  BY <1>9, <1>12, <1>13 DEF Delivery!Next

(* GiveUp abandons the whole buffer.                                       *)
LEMMA GiveUpDelivers ==
  ASSUME DeliveryInv, NEW t \in Timer, GiveUp(t)
  PROVE  HolderInv' /\ Delivery!Next
<1>. DEFINE a == sought[t]
            R == {r \in Request : Holds(buffer[a], r)}
<1>1. /\ UNCHANGED <<pc, flush, rx, sent, omitted>>
      /\ a \in Addr /\ buffer[a] \in Seq(Request)
      /\ buffer' = [buffer EXCEPT ![a] = <<>>]
      /\ DOMAIN buffer = Addr
      /\ abandoned' = abandoned \cup {buffer[a][i] : i \in 1..Len(buffer[a])}
  BY DEF GiveUp, receiver, DeliveryInv, TypeOK
<1>2. abandoned' = abandoned \cup R
  <2>1. {buffer[a][i] : i \in 1..Len(buffer[a])} = R
    BY <1>1 DEF Holds
  <2>. QED
    BY <1>1, <2>1
<1>3. /\ Distinct(buffer'[a])
      /\ \A r : ~Holds(buffer'[a], r)
      /\ \A b \in Addr : b # a => buffer'[b] = buffer[b]
  BY <1>1 DEF Distinct, Holds
<1>4. \A r \in Request : InBuffer(r)' <=> InBuffer(r) /\ r \notin R
  <2>1. \A r \in Request : InBuffer(r) <=> Holds(buffer[dest[r]], r)
    BY BufferOf DEF DeliveryInv
  <2>2. \A r \in Request : InBuffer(r)' <=> \E b \in Addr : Holds(buffer'[b], r)
    BY DEF InBuffer, Holds
  <2>3. \A b \in Addr, r \in Request : Holds(buffer[b], r) => dest[r] = b
    BY DEF DeliveryInv, HolderInv
  <2>. QED
    BY <1>1, <1>3, <2>1, <2>2, <2>3, DestAssumption
<1>5. \A r \in Request : InFlush(r)' <=> InFlush(r)
  BY <1>1 DEF InFlush
<1>6. \A r \in R : /\ InBuffer(r) /\ Held(r) /\ ~InFlush(r) /\ pc[r] \in Parted
                   /\ sent[r] = <<>> /\ r \notin omitted \cup abandoned
  <2>1. \A r \in R : InBuffer(r) /\ pc[r] \in Parted
    BY <1>1 DEF InBuffer, Holds, DeliveryInv, HolderInv
  <2>. QED
    BY <2>1 DEF DeliveryInv, HolderInv, Held
<1>7. /\ \A r \in R : ~Held(r)'
      /\ \A r \in Request : r \notin R => (Held(r)' <=> Held(r))
  BY <1>1, <1>4, <1>5, <1>6 DEF Held, Parted
<1>8. HolderInv'
  <2>1. \A b \in Addr, r \in Request :
          Holds(buffer'[b], r) => dest[r] = b /\ pc'[r] \in Parted
    BY <1>1, <1>3 DEF DeliveryInv, HolderInv
  <2>2. \A b \in Addr : Distinct(buffer'[b])
    BY <1>3 DEF DeliveryInv, HolderInv
  <2>3. \A r \in Request : ~(InBuffer(r)' /\ InFlush(r)')
    BY <1>4, <1>5 DEF DeliveryInv, HolderInv
  <2>4. \A r \in Request : pc'[r] = "idle" \/ Held(r)' =>
          sent'[r] = <<>> /\ r \notin omitted' \cup abandoned'
    <3>1. \A r \in Request : pc'[r] = "idle" \/ Held(r)' =>
            /\ pc[r] = "idle" \/ Held(r)
            /\ r \notin R
      BY <1>1, <1>6, <1>7 DEF Parted
    <3>. QED
      BY <1>1, <1>2, <3>1 DEF DeliveryInv, HolderInv
  <2>. QED
    BY <1>1, <2>1, <2>2, <2>3, <2>4 DEF DeliveryInv, HolderInv
<1>9. \A r \in Request : r \notin R => fate'[r] = fate[r]
  BY <1>1, <1>2, <1>7, FateKept
<1>10. \A r \in R : fate[r] = "held" /\ fate'[r] = "abandoned"
  BY <1>1, <1>2, <1>6, <1>7, FateMeaning DEF FateIs, Parted
<1>11. Delivery!Drop(R, "abandoned")
  <2>1. fate' = [r \in Request |-> IF r \in R THEN "abandoned" ELSE fate[r]]
    BY <1>9, <1>10, FateIsFunction
  <2>2. copies' = copies
    BY <1>1 DEF copies
  <2>. QED
    BY <1>10, <2>1, <2>2 DEF Delivery!Drop
<1>12. R \in SUBSET Request
  OBVIOUS
<1>. QED
  BY <1>8, <1>11, <1>12 DEF Delivery!Next

(* FinishSearch hands the buffer to the receive thread.                    *)
LEMMA FinishDelivers ==
  ASSUME DeliveryInv, FinishSearch
  PROVE  HolderInv' /\ UNCHANGED Delivery!vars
<1>. DEFINE a == rx.from
<1>1. /\ UNCHANGED <<pc, outcome>>
      /\ a \in Addr
      /\ buffer' = [buffer EXCEPT ![a] = <<>>]
      /\ flush' = buffer[a]
      /\ flush = <<>>
      /\ rx'.step = "flush"
      /\ DOMAIN buffer = Addr
  BY DEF FinishSearch, DeliveryInv, TypeOK, HolderInv
<1>2. pc[Rx] = "idle"
  BY DEF FinishSearch, DeliveryInv, TypeOK, Working, RequestStep, Thread
<1>3. /\ Distinct(buffer'[a])
      /\ \A r : ~Holds(buffer'[a], r)
      /\ \A b \in Addr : b # a => buffer'[b] = buffer[b]
  BY <1>1 DEF Distinct, Holds
<1>4. \A r \in Request : InBuffer(r)' <=> InBuffer(r) /\ ~Holds(buffer[a], r)
  <2>1. \A r \in Request : InBuffer(r) <=> Holds(buffer[dest[r]], r)
    BY BufferOf DEF DeliveryInv
  <2>2. \A r \in Request : InBuffer(r)' <=> \E b \in Addr : Holds(buffer'[b], r)
    BY DEF InBuffer, Holds
  <2>3. \A b \in Addr, r \in Request : Holds(buffer[b], r) => dest[r] = b
    BY DEF DeliveryInv, HolderInv
  <2>. QED
    BY <1>1, <1>3, <2>1, <2>2, <2>3, DestAssumption
<1>5. \A r \in Request : /\ InFlush(r)' <=> Holds(buffer[a], r)
                         /\ ~InFlush(r)
  BY <1>1, <1>2 DEF InFlush, Holds
<1>6. \A r \in Request : Holds(buffer[a], r) => InBuffer(r) /\ pc[r] \in Parted
  BY <1>1 DEF InBuffer, Holds, DeliveryInv, HolderInv
<1>7. \A r \in Request : Held(r)' <=> Held(r)
  BY <1>1, <1>4, <1>5, <1>6 DEF Held
<1>8. HolderInv'
  <2>1. \A b \in Addr, r \in Request :
          Holds(buffer'[b], r) => dest[r] = b /\ pc'[r] \in Parted
    BY <1>1, <1>3 DEF DeliveryInv, HolderInv
  <2>2. \A b \in Addr : Distinct(buffer'[b])
    BY <1>3 DEF DeliveryInv, HolderInv
  <2>3. \A r \in Request : ~(InBuffer(r)' /\ InFlush(r)')
    BY <1>4, <1>5
  <2>4. Distinct(flush') /\ \A r \in Request : Holds(flush', r) => pc'[r] \in Parted
    BY <1>1, <1>6 DEF DeliveryInv, HolderInv
  <2>. QED
    BY <1>1, <1>7, <2>1, <2>2, <2>3, <2>4 DEF DeliveryInv, HolderInv, outcome
<1>. QED
  BY <1>1, <1>7, <1>8, Stutters

(* The other steps of the receive thread.                                  *)
LEMMA ReceiverDelivers ==
  ASSUME DeliveryInv, UpdatePosition \/ RefreshTable \/ FlushNext \/ FlushOver
  PROVE  HolderInv' /\ UNCHANGED Delivery!vars
<1>0. /\ flush \in Seq(Request) /\ pc \in [Thread -> RequestStep]
      /\ rx \in [step : ReceiveStep, from : Addr, reply : BOOLEAN]
      /\ rx.step # "flush" => flush = <<>>
      /\ Rx \in Thread /\ Rx \notin Request
  BY RxAssumption DEF DeliveryInv, TypeOK, HolderInv, Thread
<1>1. CASE UpdatePosition \/ RefreshTable
  <2>1. UNCHANGED <<buffer, outcome, pc, flush>> /\ flush = <<>>
    BY <1>0, <1>1 DEF UpdatePosition, RefreshTable, search
  <2>2. \A r \in Request : InFlush(r)' <=> InFlush(r)
    BY <2>1 DEF InFlush
  <2>. QED
    BY <2>1, <2>2, RequestsStay DEF DeliveryInv
<1>2. CASE FlushNext
  <2>1. /\ UNCHANGED <<buffer, outcome, flush, rx>>
        /\ pc[Rx] = "idle" /\ pc'[Rx] = "lookup"
        /\ \A r \in Request : pc'[r] = pc[r]
    BY <1>0, <1>2 DEF FlushNext, Advance, receiver, search, Thread
  <2>2. \A r \in Request : InFlush(r)' <=> InFlush(r)
    BY <2>1 DEF InFlush
  <2>. QED
    BY <1>0, <2>1, <2>2, RequestsStay DEF DeliveryInv
<1>3. CASE FlushOver
  <2>1. /\ UNCHANGED <<buffer, outcome>>
        /\ pc'[Rx] = "idle"
        /\ \A r \in Request : pc'[r] = pc[r]
    BY <1>0, <1>3 DEF FlushOver, Advance, search, Thread
  <2>2. CASE pc[Rx] = "done" /\ flush' = Tail(flush) /\ UNCHANGED rx
    <3>1. flush # <<>> /\ rx'.step = "flush"
      BY <1>3, <2>2 DEF FlushOver, DeliveryInv, TypeOK
    <3>2. \A r \in Request : InFlush(r)' <=> Holds(flush', r)
      BY <2>1 DEF InFlush, Holds
    <3>3. \A r \in Request : Holds(Tail(flush), r) <=> \E i \in 2..Len(flush) : flush[i] = r
      BY <1>0, <3>1, HoldsTail
    <3>4. Len(flush) \in Nat
      BY <1>0
    <3>5. \A r \in Request : InFlush(r) <=> \E i \in 2..Len(flush) : flush[i] = r
      BY <2>2, <3>4 DEF InFlush
    <3>6. \A r \in Request : InFlush(r)' <=> InFlush(r)
      BY <2>2, <3>2, <3>3, <3>5
    <3>. QED
      BY <1>0, <2>1, <2>2, <3>1, <3>6, RequestsStay DEF DeliveryInv
  <2>3. CASE flush = <<>> /\ flush' = flush
    <3>1. \A r \in Request : InFlush(r)' <=> InFlush(r)
      BY <2>3 DEF InFlush
    <3>. QED
      BY <2>1, <2>3, <3>1, RequestsStay DEF DeliveryInv
  <2>. QED
    BY <1>3, <2>2, <2>3 DEF FlushOver
<1>. QED
  BY <1>1, <1>2, <1>3

(* The steps of gn_data_request_guc and gn_ls_request that hand nothing on.*)
LEMMA WorkDelivers ==
  ASSUME DeliveryInv, NEW th \in Thread,
         LookupMiss(th) \/ StartTimer(th) \/ StoreTimer(th)
  PROVE  HolderInv' /\ UNCHANGED Delivery!vars
<1>1. /\ UNCHANGED <<buffer, outcome, flush, rx>>
      /\ \A x \in Thread : /\ x # th => pc'[x] = pc[x]
                           /\ \/ pc'[x] = pc[x]
                              \/ {pc[x], pc'[x]} \subseteq Parted
                              \/ {pc[x], pc'[x]} \subseteq {"lookup", "search"}
      /\ rx.step # "flush" => flush = <<>>
  BY DEF LookupMiss, StartTimer, StoreTimer, Advance, receiver, search, Parted,
         DeliveryInv, TypeOK, HolderInv
<1>2. pc'[Rx] \in {"idle", "lookup", "search"} <=> pc[Rx] \in {"idle", "lookup", "search"}
  BY <1>1 DEF Parted, Thread
<1>3. \A r \in Request : InFlush(r)' <=> InFlush(r)
  BY <1>1, <1>2 DEF InFlush
<1>. QED
  BY <1>1, <1>3, RequestsStay DEF DeliveryInv, Thread

(* Issue is Accept.                                                        *)
LEMMA IssueDelivers ==
  ASSUME DeliveryInv, NEW r \in Request, Issue(r)
  PROVE  HolderInv' /\ Delivery!Next
<1>1. /\ UNCHANGED <<buffer, flush, rx, sent, omitted, abandoned>>
      /\ pc[r] = "idle" /\ pc'[r] = "lookup" /\ pc'[Rx] = pc[Rx]
      /\ \A q \in Request : q # r => pc'[q] = pc[q]
  BY RxAssumption DEF Issue, Advance, receiver, search, outcome, DeliveryInv, TypeOK, Thread
<1>2. \A q \in Request : (InBuffer(q)' <=> InBuffer(q)) /\ (InFlush(q)' <=> InFlush(q))
  BY <1>1 DEF InBuffer, InFlush
<1>3. \A q \in Request : q # r => (Held(q)' <=> Held(q))
  BY <1>1, <1>2 DEF Held
<1>4. Held(r)'
  BY <1>1 DEF Held
<1>5. \A q \in Request : pc[q] \in Parted => pc'[q] \in Parted
  BY <1>1 DEF Parted
<1>6. HolderInv'
  BY <1>1, <1>2, <1>3, <1>5 DEF DeliveryInv, HolderInv
<1>7. \A q \in Request : q # r => fate'[q] = fate[q]
  BY <1>1, <1>3, FateKept
<1>8. fate[r] = "new" /\ fate'[r] = "held"
  BY <1>1, <1>4, FateMeaning DEF FateIs
<1>9. fate' = [fate EXCEPT ![r] = "held"]
  BY <1>7, <1>8, FateIsFunction
<1>10. copies' = copies
  BY <1>1 DEF copies
<1>. QED
  BY <1>6, <1>8, <1>9, <1>10 DEF Delivery!Next, Delivery!Accept

LEMMA DeliveryStep ==
  ASSUME DeliveryInv, Next
  PROVE  HolderInv' /\ [Delivery!Next]_Delivery!vars
<1>1. ASSUME NEW r \in Request, Issue(r)
      PROVE  HolderInv' /\ Delivery!Next
  BY <1>1, IssueDelivers
<1>2. ASSUME NEW th \in Thread, RequestNext(th)
      PROVE  HolderInv' /\ (Delivery!Next \/ UNCHANGED Delivery!vars)
  BY <1>2, HitDelivers, JoinDelivers, BeginDelivers, WorkDelivers DEF RequestNext
<1>3. ASSUME NEW t \in Timer, TimerNext(t)
      PROVE  HolderInv' /\ (Delivery!Next \/ UNCHANGED Delivery!vars)
  <2>1. CASE GiveUp(t)
    BY <2>1, GiveUpDelivers
  <2>2. CASE Elapse(t) \/ Retransmit(t) \/ RestartTimer(t) \/ StoreRestarted(t)
    <3>1. UNCHANGED <<buffer, outcome, pc, flush, rx>>
      BY <2>2 DEF Elapse, Retransmit, RestartTimer, StoreRestarted, search, receiver
    <3>2. \A r \in Request : InFlush(r)' <=> InFlush(r)
      BY <3>1 DEF InFlush
    <3>. QED
      BY <3>1, <3>2, RequestsStay DEF DeliveryInv, HolderInv
  <2>. QED
    BY <1>3, <2>1, <2>2 DEF TimerNext
<1>4. ASSUME NEW a \in Addr, NEW reply \in BOOLEAN, Receive(a, reply)
      PROVE  HolderInv' /\ UNCHANGED Delivery!vars
  <2>1. UNCHANGED <<buffer, outcome, pc, flush>> /\ flush = <<>>
    BY <1>4 DEF Receive, search, DeliveryInv, HolderInv
  <2>2. \A r \in Request : InFlush(r)' <=> InFlush(r)
    BY <2>1 DEF InFlush
  <2>. QED
    BY <2>1, <2>2, RequestsStay DEF DeliveryInv
<1>5. CASE ReceiverNext
  BY <1>5, FinishDelivers, ReceiverDelivers DEF ReceiverNext
<1>. QED
  BY <1>1, <1>2, <1>3, <1>4, <1>5 DEF Next

LEMMA DeliveryInit ==
  ASSUME Init
  PROVE  DeliveryInv /\ Delivery!Init
<1>1. \A r \in Request : ~InBuffer(r) /\ ~InFlush(r) /\ pc[r] = "idle" /\ sent[r] = <<>>
  BY DEF Init, InBuffer, InFlush, Thread
<1>2. HolderInv
  BY <1>1 DEF Init, HolderInv, Holds, Distinct
<1>3. fate = [r \in Request |-> "new"]
  BY <1>1, FateMeaning, FateIsFunction DEF FateIs
<1>4. copies = [r \in Request |-> 0]
  BY <1>1 DEF copies
<1>. QED
  BY <1>2, <1>3, <1>4, InitType DEF DeliveryInv, Delivery!Init

(* However the application, timer and receive threads meet, a GeoUnicast   *)
(* request is transmitted at most once, is never sent after its search     *)
(* gave it up, and is never held by two threads or buffers: every step of  *)
(* the Location Service is a step of RequestDelivery or none.              *)
THEOREM ImplementsDelivery == Spec => DeliversAtMostOnce
<1>1. Init => DeliveryInv /\ Delivery!Init
  BY DeliveryInit
<1>2. DeliveryInv /\ [Next]_vars => DeliveryInv' /\ [Delivery!Next]_Delivery!vars
  <2> SUFFICES ASSUME DeliveryInv, [Next]_vars
               PROVE  DeliveryInv' /\ [Delivery!Next]_Delivery!vars
    OBVIOUS
  <2>1. TypeOK'
    BY NextType DEF DeliveryInv
  <2>2. CASE Next
    BY <2>1, <2>2, DeliveryStep DEF DeliveryInv
  <2>3. CASE UNCHANGED vars
    <3>1. UNCHANGED <<buffer, outcome, pc, flush, rx>>
      BY <2>3 DEF vars, search, receiver
    <3>2. \A r \in Request : InFlush(r)' <=> InFlush(r)
      BY <3>1 DEF InFlush
    <3>3. HolderInv' /\ UNCHANGED Delivery!vars
      BY <3>1, <3>2, RequestsStay DEF DeliveryInv, HolderInv
    <3>. QED
      BY <2>1, <3>3 DEF DeliveryInv
  <2>. QED
    BY <2>2, <2>3
<1>. QED
  BY <1>1, <1>2, PTL DEF Spec, DeliversAtMostOnce, Delivery!Spec
-----------------------------------------------------------------------------
(* The CAM service of ServiceThreads, with the theorems about it.          *)
Cams == INSTANCE CamTransmission_proofs WITH
  Timer <- CamTimer, Calm <- FALSE, timer <- camTimer, pc <- camPc

(* Race and Cams are instances of one module: their definitions agree.     *)
LEMMA SameNext == Race!Next => Cams!Next
BY Zenon DEF
  Race!Next, Cams!Next, Race!Start, Cams!Start, Race!Stop, Cams!Stop,
  Race!LocationCallback, Cams!LocationCallback, Race!Tick, Cams!Tick,
  Race!AppNext, Cams!AppNext, Race!TimerNext, Cams!TimerNext, Race!Reset,
  Cams!Reset, Race!Cancel, Cams!Cancel, Race!Clear, Cams!Clear,
  Race!ScheduleNext, Cams!ScheduleNext, Race!Elapse, Cams!Elapse,
  Race!CheckCamConditions, Cams!CheckCamConditions, Race!CheckActive,
  Cams!CheckActive, Race!Assign, Cams!Assign, Race!SetDaemon, Cams!SetDaemon,
  Race!Launch, Cams!Launch, Race!Enter, Cams!Enter, Race!Evaluate,
  Cams!Evaluate, Race!Transmit, Cams!Transmit, Race!Update, Cams!Update,
  Race!Goto, Cams!Goto, Race!NoCallback, Cams!NoCallback, Race!Startable,
  Cams!Startable, Race!CountReset, Cams!CountReset, Race!Cancelled,
  Cams!Cancelled, Race!StopTimer, Cams!StopTimer, Race!Dropped, Cams!Dropped,
  Race!Unused, Cams!Unused, Race!NotStarted, Cams!NotStarted,
  Race!DccElapsed, Cams!DccElapsed, Race!TimeUp, Cams!TimeUp, Race!FirstDue,
  Cams!FirstDue, Race!HighDue, Cams!HighDue, Race!TimeDue, Cams!TimeDue,
  Race!IncludeLf, Cams!IncludeLf, Race!AfterFailure, Cams!AfterFailure,
  Race!Clamped, Cams!Clamped, Race!LfTime, Cams!LfTime, Race!Idle, Cams!Idle,
  Race!Thread, Cams!Thread, Race!Cut, Cams!Cut, Race!Older, Cams!Older,
  Race!Age, Cams!Age, Race!service, Cams!service, Race!rules, Cams!rules,
  Race!history, Cams!history, Race!NoCam, Cams!NoCam

LEMMA SameVars == UNCHANGED Race!vars => UNCHANGED Cams!vars
BY DEF Race!vars, Cams!vars, Race!service, Cams!service, Race!rules, Cams!rules,
  Race!history, Cams!history

LEMMA SamePromise == Cams!ServiceAlive => ServiceAlive
BY DEF Cams!ServiceAlive, ServiceAlive, Race!ServiceAlive, Race!Driven, Cams!Driven,
  Race!Callback, Cams!Callback, Race!Thread, Cams!Thread

(* In every interleaving of start() and stop() with callbacks, whatever    *)
(* these raise, an active CAM service goes on: it has a callback, an armed *)
(* timer or a thread about to make one (AlwaysAlive, for the service of    *)
(* ServiceThreads; _check_cam_conditions, _schedule_next_check).           *)
THEOREM RaceAlive == Race!Spec => []ServiceAlive
<1>1. Cams!Spec => []Cams!ServiceAlive
  BY RaceAssumption, Cams!AlwaysAlive
    DEF Race!TimerAssumption, Race!NeverAssumption, Race!PeriodAssumption,
        Race!SwitchAssumption, Cams!TimerAssumption, Cams!NeverAssumption,
        Cams!PeriodAssumption, Cams!SwitchAssumption
<1>2. Race!Init => Cams!Init
  BY DEF Race!Init, Cams!Init, Race!Thread, Cams!Thread, Race!NoCam, Cams!NoCam
<1>3. [Race!Next]_(Race!vars) => [Cams!Next]_(Cams!vars)
  BY SameNext, SameVars
<1> QED
  BY <1>1, <1>2, <1>3, SamePromise, PTL DEF Race!Spec, Cams!Spec
=============================================================================

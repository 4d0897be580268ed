-------------------------- MODULE LocationService --------------------------
(***************************************************************************)
(* The GeoNetworking Location Service of the router                        *)
(* (src/src/flexstack/geonet/router.py): a GeoUnicast request for a        *)
(* station the location table does not know starts a search, is kept in    *)
(* the search's buffer, and is processed again when the reply arrives.     *)
(*                                                                         *)
(* Three kinds of thread meet here: the application threads (one per       *)
(* request), the timer threads (one per threading.Timer that elapses) and  *)
(* the receive thread of the link layer.  Each action is what one thread   *)
(* does between two points where another thread can get in: a critical     *)
(* section of _ls_lock or of loc_t_lock, or the code between two of them.  *)
(***************************************************************************)
EXTENDS Naturals, Sequences

CONSTANTS
  Addr,            \* GeoNetworking addresses of other stations
  Request,         \* GeoUnicast GNDataRequest objects, one thread for each
  dest,            \* destination of each request
  Scf,             \* requests whose traffic class has store-carry-forward
  Timer,           \* identities for threading.Timer objects
  NoTimer,         \* no entry in _ls_timers
  Rx,              \* the receive thread
  MaxRetrans,      \* itsGnLocationServiceMaxRetrans
  MaxPackets,      \* bound: packets received in a behaviour
  HeardMayExpire,  \* whether a heard position can exceed itsGnLifetimeLocTE
  PromptStore      \* whether a timer is recorded before it can elapse

ASSUME DestAssumption == dest \in [Request -> Addr]
ASSUME ScfAssumption == Scf \subseteq Request
ASSUME AddrAssumption == Addr # {}
ASSUME RxAssumption == Rx \notin Request
ASSUME TimerAssumption ==
  NoTimer \notin Timer /\ Timer \cap (Request \cup {Rx}) = {}
ASSUME BoundAssumption == MaxRetrans \in Nat /\ MaxPackets \in Nat
ASSUME SwitchAssumption == HeardMayExpire \in BOOLEAN /\ PromptStore \in BOOLEAN

VARIABLES
  position,    \* location table: no entry, entry with the zero PV, heard PV
  lsPending,   \* addresses whose entry has ls_pending set
  buffer,      \* _ls_packet_buffers; an absent key is the empty sequence
  counter,     \* _ls_retransmit_counters; an absent key is 0
  lsTimer,     \* _ls_timers
  timer,       \* what each Timer object and the thread it starts is doing
  sought,      \* the argument of each Timer object
  started,     \* the timer a thread has started and not yet recorded
  pc,          \* where each thread is in gn_data_request_guc
  rx,          \* the packet the receive thread is handling, and its step
  flush,       \* requests the receive thread took from a buffer
  packets,     \* packets received so far
  sent,        \* for each request, the DE position of every GUC packet sent
  omitted,     \* requests accepted and then left unsent (SCF stub)
  abandoned    \* requests discarded by a search that gave up

table == <<position, lsPending>>
search == <<buffer, counter, lsTimer>>
timers == <<timer, sought, started>>
receiver == <<rx, flush, packets>>
outcome == <<sent, omitted, abandoned>>
vars == <<table, search, timers, pc, receiver, outcome>>

Thread == Request \cup {Rx}
Position == {"none", "zero", "heard"}
RequestStep == {"idle", "lookup", "search", "start", "store", "done"}
TimerStep == {"idle", "armed", "elapsed", "resend", "store"}
ReceiveStep == {"idle", "update", "refresh", "finish", "flush"}

(* The request a thread is processing: its own, or the first one the       *)
(* receive thread has still to flush.                                      *)
current(th) == IF th = Rx THEN Head(flush) ELSE th
target(th) == dest[current(th)]

Working(th) == pc[th] \in {"lookup", "search", "start", "store"}

(* Requests held in the memory of some thread or in a buffer.              *)
InBuffer(r) == \E a \in Addr : \E i \in 1..Len(buffer[a]) : buffer[a][i] = r
InFlush(r) == \E i \in 1..Len(flush) :
                /\ flush[i] = r
                /\ i = 1 => pc[Rx] \in {"idle", "lookup", "search"}
Held(r) == pc[r] \in {"lookup", "search"} \/ InBuffer(r) \/ InFlush(r)

Init ==
  /\ position = [a \in Addr |-> "none"]
  /\ lsPending = {}
  /\ buffer = [a \in Addr |-> <<>>]
  /\ counter = [a \in Addr |-> 0]
  /\ lsTimer = [a \in Addr |-> NoTimer]
  /\ timer = [t \in Timer |-> "idle"]
  /\ sought = [t \in Timer |-> CHOOSE a \in Addr : TRUE]
  /\ started = [x \in Thread \cup Timer |-> NoTimer]
  /\ pc = [th \in Thread |-> "idle"]
  /\ rx = [step |-> "idle", from |-> CHOOSE a \in Addr : TRUE, reply |-> FALSE]
  /\ flush = <<>>
  /\ packets = 0
  /\ sent = [r \in Request |-> <<>>]
  /\ omitted = {}
  /\ abandoned = {}

-----------------------------------------------------------------------------
(* gn_data_request_guc and gn_ls_request, by any thread.                   *)

Advance(th, step) == pc' = [pc EXCEPT ![th] = step]

(* The parts of the critical sections that a slip could change.  Each is   *)
(* preceded by the slip, which the properties must tell from the code.     *)

(* entry is not None and entry.ls_pending                                  *)
Searching(a) == a \in lsPending

Exhausted(a) == counter[a] >= MaxRetrans

(* Slip: retransmissions are not counted.                                  *)
CountedNever(a) == counter
Counted(a) == [counter EXCEPT ![a] = @ + 1]

(* Slip: the buffer is read and not removed.                               *)
EmptiedNever(a) == buffer
Emptied(a) == [buffer EXCEPT ![a] = <<>>]

(* Slip: ls_pending stays set.                                             *)
FlagKept(a) == lsPending
FlagCleared(a) == lsPending \ {a}

Issue(r) ==
  /\ pc[r] = "idle"
  /\ Advance(r, "lookup")
  /\ UNCHANGED <<table, search, timers, receiver, outcome>>

(* No entry for the destination: the request goes to the Location Service. *)
LookupMiss(th) ==
  /\ pc[th] = "lookup"
  /\ position[target(th)] = "none"
  /\ Advance(th, "search")
  /\ UNCHANGED <<table, search, timers, receiver, outcome>>

(* Any entry will do, the placeholder of a running search included: the    *)
(* packet is built from its PV.  With SCF, no neighbour or no progress     *)
(* towards the destination leaves the packet unsent.                       *)
LookupHit(th) ==
  /\ pc[th] = "lookup"
  /\ LET r == current(th)
         de == position[target(th)]
     IN /\ de # "none"
        /\ \/ /\ sent' = [sent EXCEPT ![r] = Append(@, de)]
              /\ UNCHANGED omitted
           \/ /\ r \in Scf
              /\ omitted' = omitted \cup {r}
              /\ UNCHANGED sent
  /\ Advance(th, "done")
  /\ UNCHANGED <<table, search, timers, receiver, abandoned>>

(* First critical section of gn_ls_request, a search already pending.      *)
JoinSearch(th) ==
  /\ pc[th] = "search"
  /\ Searching(target(th))
  /\ buffer' = [buffer EXCEPT ![target(th)] = Append(@, current(th))]
  /\ Advance(th, "done")
  /\ UNCHANGED <<table, counter, lsTimer, timers, receiver, outcome>>

(* First critical section of gn_ls_request, no search pending.             *)
BeginSearch(th) ==
  /\ pc[th] = "search"
  /\ ~Searching(target(th))
  /\ LET addr == target(th)
     IN /\ position' = [position EXCEPT ![addr] = IF @ = "none" THEN "zero" ELSE @]
        /\ lsPending' = lsPending \cup {addr}
        /\ buffer' = [buffer EXCEPT ![addr] = <<current(th)>>]
        /\ counter' = [counter EXCEPT ![addr] = 0]
  /\ Advance(th, "start")
  /\ UNCHANGED <<lsTimer, timers, receiver, outcome>>

Unused(t) ==
  /\ timer[t] = "idle"
  /\ \A a \in Addr : lsTimer[a] # t
  /\ \A x \in Thread \cup Timer : started[x] # t

(* A new Timer object: an identity nothing refers to (identities are used  *)
(* again; guarded by the size of Timer).                                   *)
Fresh == CHOOSE t \in Timer : Unused(t)
FreshExists == \E t \in Timer : Unused(t)

(* Outside the lock: the LS Request is broadcast and the timer started.    *)
StartTimer(th) ==
  /\ pc[th] = "start"
  /\ FreshExists
  /\ timer' = [timer EXCEPT ![Fresh] = "armed"]
  /\ sought' = [sought EXCEPT ![Fresh] = target(th)]
  /\ started' = [started EXCEPT ![th] = Fresh]
  /\ Advance(th, "store")
  /\ UNCHANGED <<table, search, receiver, outcome>>

(* Timer.cancel(): no effect on a timer that has elapsed.                  *)
Cancelled(t) ==
  [u \in Timer |-> IF u = t /\ timer[u] = "armed" THEN "idle" ELSE timer[u]]

(* Second critical section of gn_ls_request.                               *)
StoreTimer(th) ==
  /\ pc[th] = "store"
  /\ timer' = Cancelled(lsTimer[target(th)])
  /\ lsTimer' = [lsTimer EXCEPT ![target(th)] = started[th]]
  /\ started' = [started EXCEPT ![th] = NoTimer]
  /\ Advance(th, "done")
  /\ UNCHANGED <<table, buffer, counter, sought, receiver, outcome>>

-----------------------------------------------------------------------------
(* _ls_retransmit, by the thread of timer t.                               *)

Recorded(t) == \A x \in Thread \cup Timer : started[x] # t

Elapse(t) ==
  /\ timer[t] = "armed"
  /\ PromptStore => Recorded(t)
  /\ timer' = [timer EXCEPT ![t] = "elapsed"]
  /\ UNCHANGED <<table, search, sought, started, pc, receiver, outcome>>

GiveUp(t) ==
  /\ timer[t] = "elapsed"
  /\ LET addr == sought[t]
     IN /\ Exhausted(addr)
        /\ abandoned' = abandoned \cup {buffer[addr][i] : i \in 1..Len(buffer[addr])}
        /\ buffer' = Emptied(addr)
        /\ lsTimer' = [lsTimer EXCEPT ![addr] = NoTimer]
        /\ counter' = [counter EXCEPT ![addr] = 0]
        /\ lsPending' = FlagCleared(addr)
  /\ timer' = [timer EXCEPT ![t] = "idle"]
  /\ UNCHANGED <<position, sought, started, pc, receiver, sent, omitted>>

Retransmit(t) ==
  /\ timer[t] = "elapsed"
  /\ ~Exhausted(sought[t])
  /\ counter' = Counted(sought[t])
  /\ timer' = [timer EXCEPT ![t] = "resend"]
  /\ UNCHANGED <<table, buffer, lsTimer, sought, started, pc, receiver, outcome>>

(* Outside the lock: the LS Request is resent and a new timer started.     *)
RestartTimer(t) ==
  /\ timer[t] = "resend"
  /\ FreshExists
  /\ timer' = [timer EXCEPT ![Fresh] = "armed", ![t] = "store"]
  /\ sought' = [sought EXCEPT ![Fresh] = sought[t]]
  /\ started' = [started EXCEPT ![t] = Fresh]
  /\ UNCHANGED <<table, search, pc, receiver, outcome>>

(* The new timer replaces whatever _ls_timers held, without cancelling it. *)
StoreRestarted(t) ==
  /\ timer[t] = "store"
  /\ lsTimer' = [lsTimer EXCEPT ![sought[t]] = started[t]]
  /\ started' = [started EXCEPT ![t] = NoTimer]
  /\ timer' = [timer EXCEPT ![t] = "idle"]
  /\ UNCHANGED <<table, buffer, counter, sought, pc, receiver, outcome>>

-----------------------------------------------------------------------------
(* The receive thread: a packet of another station (gn_data_indicate_ls_   *)
(* reply for a reply to this station, the other gn_data_indicate_* for the *)
(* rest), through LocationTable.new_*_packet.                              *)

Receive(a, reply) ==
  /\ rx.step = "idle"
  /\ packets < MaxPackets
  /\ packets' = packets + 1
  /\ position' = [position EXCEPT ![a] = IF @ = "none" THEN "zero" ELSE @]
  /\ rx' = [step |-> "update", from |-> a, reply |-> reply]
  /\ UNCHANGED <<lsPending, search, timers, pc, flush, outcome>>

UpdatePosition ==
  /\ rx.step = "update"
  /\ position' = [position EXCEPT ![rx.from] = "heard"]
  /\ rx' = [rx EXCEPT !.step = "refresh"]
  /\ UNCHANGED <<lsPending, search, timers, pc, flush, packets, outcome>>

(* refresh_table drops every entry whose PV is too old: the placeholders,  *)
(* whose timestamp is zero, and, if the clock has it so, heard ones.       *)
RefreshTable ==
  /\ rx.step = "refresh"
  /\ \E stale \in SUBSET {a \in Addr : position[a] = "heard"} :
       /\ ~HeardMayExpire => stale = {}
       /\ position' = [a \in Addr |-> IF position[a] = "zero" \/ a \in stale
                                      THEN "none" ELSE position[a]]
       /\ lsPending' = {a \in lsPending : position[a] = "heard" /\ a \notin stale}
  /\ rx' = [rx EXCEPT !.step = IF rx.reply THEN "finish" ELSE "idle"]
  /\ UNCHANGED <<search, timers, pc, flush, packets, outcome>>

(* Critical section of gn_data_indicate_ls_reply, and the cancel after it. *)
FinishSearch ==
  /\ rx.step = "finish"
  /\ LET addr == rx.from
     IN /\ timer' = Cancelled(lsTimer[addr])
        /\ lsTimer' = [lsTimer EXCEPT ![addr] = NoTimer]
        /\ counter' = [counter EXCEPT ![addr] = 0]
        /\ flush' = buffer[addr]
        /\ buffer' = Emptied(addr)
        /\ lsPending' = FlagCleared(addr)
  /\ rx' = [rx EXCEPT !.step = "flush"]
  /\ UNCHANGED <<position, sought, started, pc, packets, outcome>>

(* The loop over the buffered requests: gn_data_request_guc for each.      *)
FlushNext ==
  /\ rx.step = "flush"
  /\ flush # <<>>
  /\ pc[Rx] = "idle"
  /\ Advance(Rx, "lookup")
  /\ UNCHANGED <<table, search, timers, receiver, outcome>>

FlushOver ==
  /\ rx.step = "flush"
  /\ \/ /\ pc[Rx] = "done"
        /\ flush' = Tail(flush)
        /\ UNCHANGED rx
     \/ /\ flush = <<>>
        /\ rx' = [rx EXCEPT !.step = "idle"]
        /\ UNCHANGED flush
  /\ Advance(Rx, "idle")
  /\ UNCHANGED <<table, search, timers, packets, outcome>>

-----------------------------------------------------------------------------
RequestNext(th) ==
  \/ LookupMiss(th) \/ LookupHit(th)
  \/ JoinSearch(th) \/ BeginSearch(th)
  \/ StartTimer(th) \/ StoreTimer(th)

TimerNext(t) ==
  \/ Elapse(t) \/ GiveUp(t) \/ Retransmit(t)
  \/ RestartTimer(t) \/ StoreRestarted(t)

ReceiverNext ==
  UpdatePosition \/ RefreshTable \/ FinishSearch \/ FlushNext \/ FlushOver

Next ==
  \/ \E r \in Request : Issue(r)
  \/ \E th \in Thread : RequestNext(th)
  \/ \E t \in Timer : TimerNext(t)
  \/ \E a \in Addr, reply \in BOOLEAN : Receive(a, reply)
  \/ ReceiverNext

Spec == Init /\ [][Next]_vars

(* Threads run and timers elapse; nobody has to issue a request or answer. *)
FairSpec ==
  /\ Spec
  /\ \A th \in Thread : WF_vars(RequestNext(th))
  /\ \A t \in Timer : WF_vars(TimerNext(t))
  /\ WF_vars(ReceiverNext)

-----------------------------------------------------------------------------
(* Properties.                                                             *)

TypeOK ==
  /\ position \in [Addr -> Position]
  /\ lsPending \subseteq Addr
  /\ buffer \in [Addr -> Seq(Request)]
  /\ counter \in [Addr -> 0..MaxRetrans]
  /\ lsTimer \in [Addr -> Timer \cup {NoTimer}]
  /\ timer \in [Timer -> TimerStep]
  /\ sought \in [Timer -> Addr]
  /\ started \in [Thread \cup Timer -> Timer \cup {NoTimer}]
  /\ pc \in [Thread -> RequestStep]
  /\ rx \in [step : ReceiveStep, from : Addr, reply : BOOLEAN]
  /\ flush \in Seq(Request)
  /\ Working(Rx) \/ pc[Rx] = "done" => rx.step = "flush" /\ flush # <<>>
  /\ packets \in 0..MaxPackets
  /\ sent \in [Request -> Seq({"zero", "heard"})]
  /\ omitted \subseteq Request
  /\ abandoned \subseteq Request

(* An entry marked ls_pending belongs to a search that has a request to    *)
(* deliver: no thread leaves the flag behind when it empties the buffer    *)
(* (a flag left behind would swallow every later request of gn_ls_request).*)
PendingHasBuffer == \A a \in lsPending : buffer[a] # <<>>

(* Someone will look at a: a thread about to start its timer, or a timer   *)
(* that is armed or whose callback is running.                             *)
Driven(a) ==
  \/ \E th \in Thread : pc[th] = "start" /\ target(th) = a
  \/ \E t \in Timer : timer[t] # "idle" /\ sought[t] = a

(* A buffered request is never stranded: while a buffer holds one, some    *)
(* timer will retransmit or give up, whatever replies, cancels and new     *)
(* searches crossed on the way.                                            *)
NeverStranded == \A a \in Addr : buffer[a] # <<>> => Driven(a)

(* A timer x has started for address a and will record in _ls_timers.      *)
Carries(x, a) ==
  /\ started[x] \in Timer
  /\ timer[started[x]] = "armed"
  /\ sought[started[x]] = a

(* Why nothing is stranded, given PromptStore: between timer.start() and   *)
(* the second critical section the new timer is known to one thread only,  *)
(* so that no reply and no other search can cancel it, and what _ls_timers *)
(* holds for an address is a timer of that address.                        *)
TimerBookkeeping ==
  /\ \A a \in Addr : lsTimer[a] # NoTimer => sought[lsTimer[a]] = a
  /\ \A th \in Thread : pc[th] = "store" => Carries(th, target(th))
  /\ \A t \in Timer : timer[t] = "store" => Carries(t, sought[t])
  /\ \A x, y \in Thread \cup Timer :
       started[x] # NoTimer /\ started[x] = started[y] => x = y
  /\ \A x \in Thread \cup Timer, a \in Addr :
       started[x] # NoTimer => lsTimer[a] # started[x]

(* gn_ls_request, docstring: a buffered request is (re-)processed when the *)
(* reply arrives, and _ls_retransmit discards it when the search gives up: *)
(* no request the router accepted disappears in any other way.             *)
NoRequestLost ==
  \A r \in Request : \/ pc[r] = "idle" \/ Held(r)
                     \/ sent[r] # <<>> \/ r \in omitted \cup abandoned

(* The promise of RequestDelivery: the fate of each request, and how often *)
(* it went out.                                                            *)
fate ==
  [r \in Request |-> CASE pc[r] = "idle" -> "new"
                       [] pc[r] # "idle" /\ Held(r) -> "held"
                       [] OTHER -> IF sent[r] # <<>> THEN "sent"
                                   ELSE IF r \in omitted THEN "omitted"
                                   ELSE IF r \in abandoned THEN "abandoned"
                                   ELSE "lost"]
copies == [r \in Request |-> Len(sent[r])]

Delivery == INSTANCE RequestDelivery WITH Request <- Request, fate <- fate, copies <- copies

(* A request moves from hand to hand (its thread, a buffer, the receive    *)
(* thread, perhaps a buffer again) without being transmitted twice, sent   *)
(* after it was given up, or held by two at once.                          *)
DeliversAtMostOnce == Delivery!Spec

(* Every request is settled: sent, omitted, abandoned with its search, or  *)
(* overwritten, but not kept for ever.                                     *)
RequestSettles == Delivery!Settled

(* The air falls silent: with finitely many requests and packets, no chain *)
(* of timers keeps retransmitting for ever, orphaned ones included.        *)
TimersDieOut == <>[](\A t \in Timer : timer[t] = "idle")
=============================================================================

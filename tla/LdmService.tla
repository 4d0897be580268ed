---------------------------- MODULE LdmService ----------------------------
(***************************************************************************)
(* The Local Dynamic Map                                                   *)
(* (src/src/flexstack/facilities/local_dynamic_map): the dictionary of     *)
(* records, the maintenance that discards obsolete ones, the service that  *)
(* notifies subscribers, and the interfaces of data providers (IF.LDM.3)   *)
(* and data consumers (IF.LDM.4).                                          *)
(*                                                                         *)
(* LDMFactory chooses for maintenance and for service either a thread of   *)
(* its own or the "reactive" form, in which the thread that adds a record  *)
(* does the work.  A thread takes one step per lock region or callback.    *)
(* Records are kept by their age and place, their content is left out:     *)
(* all of them match every subscription.  Ages are in seconds, because     *)
(* timestamps count whole seconds only (TimestampIts); the intervals of    *)
(* collections and attendances, which are measured with another clock,     *)
(* are over at a second or between two seconds.                            *)
(***************************************************************************)
EXTENDS Integers, Sequences, FiniteSets, SequencesExt

CONSTANTS
  Caller,       \* threads that may use the interfaces
  Keeper,       \* LDMMaintenanceThread
  Server,       \* LDMServiceThreads
  Provider,     \* ITS-AIDs of data providers
  Consumer,     \* ITS-AIDs of data consumers
  Sub,          \* subscriptions
  Owner,        \* Owner[s]: application_id
  Notify,       \* Notify[s]: notify_time in seconds, 0 stands for None too
  Many,         \* Many[s]: multiplicity, at least one record is needed
  Filtered,     \* the subscriptions with a filter
  Valid,        \* time validity of the records, in seconds
  MaxId,        \* bound on the number of records
  MaxSubs,      \* bound on the number of subscriptions
  Stall,        \* bound on the seconds a thread waits with a timestamp it read
  None,         \* no timestamp
  Ways          \* what LDMFactory may be asked for, and the threads that call

Thread == Caller \cup {Keeper, Server}
Id == 0..MaxId - 1

ASSUME ThreadAssumption ==
  /\ Keeper \notin Caller /\ Server \notin Caller /\ Keeper # Server
  /\ IsFiniteSet(Caller)
ASSUME AppAssumption == Provider \subseteq Nat /\ Consumer \subseteq Nat
ASSUME SubAssumption ==
  /\ Owner \in [Sub -> Consumer] /\ Notify \in [Sub -> Nat]
  /\ Many \in [Sub -> Nat \ {0}] /\ Filtered \subseteq Sub
ASSUME BoundAssumption == {Valid, MaxId, MaxSubs, Stall} \subseteq Nat
Way == {"Reactive", "Thread"}
ASSUME WayAssumption ==
  Ways \subseteq [maintenance : Way, service : Way, callers : SUBSET Caller]
ASSUME NoneAssumption == None \notin Nat

VARIABLES
  way,        \* the maintenance and the service chosen, and the threads that call
  store,      \* DictionaryDataBase.database
  nextId,     \* DictionaryDataBase._next_id
  providers,  \* data_provider_its_aid
  consumers,  \* data_consumer_its_aid
  subs,       \* subscriptions
  last,       \* last_checked_subscriptions_time, as ages in seconds
  collectDue, attendDue,      \* whether their intervals are over
  at,         \* at[t]: what thread t does next
  snap,       \* snap[t]: records it has yet to look at, with the pass it is in
  todo,       \* todo[t]: subscriptions it has yet to look at
  drop,       \* drop[t]: subscriptions it will remove
  target,     \* target[t]: the record it will update
  read,       \* read[t]: seconds since it read current_time
  told,       \* history: age of the timestamp of a subscriber's last notification
              \* since it cancelled
  bye         \* history: notifications since the subscriber deregistered, and
              \* since a callback raised

clock == <<collectDue, attendDue>>
data == <<store, nextId>>
apps == <<providers, consumers>>
local == <<at, snap, todo, drop, target, read>>
vars == <<way, clock, data, apps, subs, last, local, told, bye>>

Place == {"kept", "dropped"}
Record == [age : 0..Valid + 1, place : Place, bare : BOOLEAN]
Records == UNION {[I -> Record] : I \in SUBSET Id}
Nothing == [i \in {} |-> 0]
Late(s) == Stall + (IF Notify[s] = 0 THEN 1 ELSE Notify[s])   \* older is as good

TypeOK ==
  /\ way \in Ways
  /\ store \in Records /\ nextId \in 0..MaxId /\ DOMAIN store \subseteq 0..nextId - 1
  /\ providers \subseteq Provider /\ consumers \subseteq Consumer
  /\ subs \in Seq(Sub) /\ Len(subs) <= MaxSubs
  /\ last \in [Sub -> Nat \cup {None}] /\ told \in [Sub -> Nat]
  /\ \A s \in Sub : last[s] \in 0..Late(s) \cup {None} /\ told[s] \in 0..Late(s)
  /\ collectDue \in BOOLEAN /\ attendDue \in BOOLEAN
  /\ at \in [Thread -> {"idle", "collect", "time", "area", "attend", "serve",
                        "process", "callback", "check", "cancel", "write", "dead"}]
  /\ snap \in [Thread -> Records] /\ todo \in [Thread -> Seq(Sub)]
  /\ drop \in [Thread -> SUBSET Sub] /\ target \in [Thread -> Id \cup {None}]
  /\ read \in [Thread -> 0..Stall]
  /\ bye \in [Sub -> Nat]

Init ==
  /\ way \in Ways
  /\ store = Nothing /\ nextId = 0
  /\ providers = {} /\ consumers = {} /\ subs = <<>>
  /\ last = [s \in Sub |-> None] /\ told = [s \in Sub |-> Late(s)]
  /\ bye = [s \in Sub |-> 0]
  /\ collectDue = FALSE /\ attendDue = (way.service = "Thread")
  /\ at = [t \in Thread |-> "idle"] /\ snap = [t \in Thread |-> Nothing]
  /\ todo = [t \in Thread |-> <<>>] /\ drop = [t \in Thread |-> {}]
  /\ target = [t \in Thread |-> None] /\ read = [t \in Thread |-> 0]
---------------------------------------------------------------------------
(* Time.                                                                   *)

Older(age, max) == IF age = None \/ age = max THEN age ELSE age + 1
Without(records, i) == [j \in DOMAIN records \ {i} |-> records[j]]
Aged(records) == [i \in DOMAIN records |->
                    [records[i] EXCEPT !.age = Older(@, Valid + 1)]]

Second ==
  /\ \A t \in Thread : at[t] = "process" => read[t] < Stall
  /\ read' = [t \in Thread |-> IF at[t] = "process" THEN read[t] + 1 ELSE read[t]]
  /\ store' = Aged(store) /\ snap' = [t \in Thread |-> Aged(snap[t])]
  /\ last' = [s \in Sub |-> Older(last[s], Late(s))]
  /\ told' = [s \in Sub |-> Older(told[s], Late(s))]
  /\ collectDue' = TRUE /\ attendDue' = TRUE
  /\ UNCHANGED <<way, nextId, apps, subs, at, todo, drop, target, bye>>

HalfSecond ==
  /\ ~attendDue /\ attendDue' = TRUE
  /\ UNCHANGED <<way, collectDue, data, apps, subs, last, local, told, bye>>
---------------------------------------------------------------------------
(* Threads.                                                                *)

Goes(t, l) == at' = [at EXCEPT ![t] = l]

\* After a record was added, and after a collection: a caller attends the
\* subscriptions if this is its business and the last time is long enough ago.
AfterCollection(t) ==
  IF t \in Caller /\ way.service = "Reactive" /\ attendDue THEN "attend" ELSE "idle"

AfterInsertion(t) ==
  IF way.maintenance = "Reactive" /\ collectDue THEN "collect" ELSE AfterCollection(t)

\* An exception ends a thread of the map; it passes through the call of a caller.
Raised(t) ==
  /\ Goes(t, IF t \in Caller THEN "idle" ELSE "dead")
  /\ snap' = [snap EXCEPT ![t] = Nothing]
  /\ todo' = [todo EXCEPT ![t] = <<>>]
  /\ drop' = [drop EXCEPT ![t] = {}]
  /\ UNCHANGED <<target, read>>

WakeKeeper ==
  /\ way.maintenance = "Thread" /\ at[Keeper] = "idle" /\ collectDue
  /\ Goes(Keeper, "collect")
  /\ UNCHANGED <<way, clock, data, apps, subs, last, snap, todo, drop,
                 target, read, told, bye>>

WakeServer ==
  /\ way.service = "Thread" /\ at[Server] = "idle" /\ attendDue
  /\ Goes(Server, "attend")
  /\ UNCHANGED <<way, clock, data, apps, subs, last, snap, todo, drop,
                 target, read, told, bye>>
---------------------------------------------------------------------------
(* Providers: IF.LDM.3.                                                    *)

RegisterProvider(a) ==
  /\ a \notin providers /\ providers' = providers \cup {a}
  /\ UNCHANGED <<way, clock, data, consumers, subs, last, local, told, bye>>

DeregisterProvider(a) ==
  /\ a \in providers /\ providers' = providers \ {a}
  /\ UNCHANGED <<way, clock, data, consumers, subs, last, local, told, bye>>

Stored(i, r) == [j \in DOMAIN store \cup {i} |-> IF j = i THEN r ELSE store[j]]

(* The index that insert() gives.                                          *)
NewId == nextId

Add(t) ==
  /\ at[t] = "idle" /\ providers # {} /\ nextId < MaxId
  /\ \E p \in Place :
       store' = Stored(NewId, [age |-> 0, place |-> p, bare |-> FALSE])
  /\ nextId' = nextId + 1
  /\ Goes(t, AfterInsertion(t))
  /\ UNCHANGED <<way, clock, apps, subs, last, snap, todo, drop,
                 target, read, told, bye>>

\* The record stays; its number is taken out of the set of registered providers.
Delete(i) ==
  /\ i \in DOMAIN store
  /\ providers' = providers \ {i}
  /\ UNCHANGED <<way, clock, data, consumers, subs, last, local, told, bye>>

UpdateExists(t, i) ==
  /\ at[t] = "idle" /\ i \in DOMAIN store
  /\ Goes(t, "write") /\ target' = [target EXCEPT ![t] = i]
  /\ UNCHANGED <<way, clock, data, apps, subs, last, snap, todo, drop,
                 read, told, bye>>

\* The data object is written in the place of the record around it, with no
\* look at whether the record is still there.
UpdateWrite(t) ==
  /\ at[t] = "write"
  /\ store' = Stored(target[t], [age |-> 0, place |-> "kept", bare |-> TRUE])
  /\ Goes(t, "idle") /\ target' = [target EXCEPT ![t] = None]
  /\ UNCHANGED <<way, clock, nextId, apps, subs, last, snap, todo, drop,
                 read, told, bye>>
---------------------------------------------------------------------------
(* Maintenance: collect_trash.  It looks at the records that were there,   *)
(* once for their time and once for their place.                           *)

Obsolete(r, pass) ==
  IF pass = "time" THEN r.age > Valid ELSE r.place = "dropped"

Outdated(r) == \E pass \in {"time", "area"} : Obsolete(r, pass)

(* Slip: the timestamp is not compared.                                    *)
SameContent(r, q) == r.place = q.place /\ r.bare = q.bare
Same(r, q) == r = q

\* remove(): a record that equals the given one is deleted, if there is one.
Removals(r) ==
  LET found == {i \in DOMAIN store : Same(store[i], r)}
  IN IF found = {} THEN {store} ELSE {Without(store, i) : i \in found}

Collect(t) ==
  /\ at[t] = "collect"
  /\ Goes(t, "time") /\ snap' = [snap EXCEPT ![t] = store]
  /\ UNCHANGED <<way, clock, data, apps, subs, last, todo, drop,
                 target, read, told, bye>>

Examine(t) ==
  /\ at[t] \in {"time", "area"} /\ snap[t] # Nothing
  /\ LET i == CHOOSE i \in DOMAIN snap[t] : \A j \in DOMAIN snap[t] : i <= j
         r == snap[t][i]
     IN IF r.bare
          THEN Raised(t) /\ UNCHANGED store
          ELSE /\ snap' = [snap EXCEPT ![t] = Without(@, i)]
               /\ store' \in IF Obsolete(r, at[t]) THEN Removals(r) ELSE {store}
               /\ UNCHANGED <<at, todo, drop, target, read>>
  /\ UNCHANGED <<way, clock, nextId, apps, subs, last, told, bye>>

SecondPass(t) ==
  /\ at[t] = "time" /\ snap[t] = Nothing
  /\ Goes(t, "area") /\ snap' = [snap EXCEPT ![t] = store]
  /\ UNCHANGED <<way, clock, data, apps, subs, last, todo, drop,
                 target, read, told, bye>>

(* Slip: the thread does not come back.                                    *)
CollectedOnce(t) ==
  /\ at[t] = "area" /\ snap[t] = Nothing
  /\ Goes(t, IF t = Keeper THEN "dead" ELSE AfterCollection(t)) /\ collectDue' = FALSE
  /\ UNCHANGED <<way, attendDue, data, apps, subs, last, snap,
                 todo, drop, target, read, told, bye>>
Collected(t) ==
  /\ at[t] = "area" /\ snap[t] = Nothing
  /\ Goes(t, AfterCollection(t)) /\ collectDue' = FALSE
  /\ UNCHANGED <<way, attendDue, data, apps, subs, last, snap,
                 todo, drop, target, read, told, bye>>
---------------------------------------------------------------------------
(* Service: attend_subscriptions.                                          *)

Attend(t) ==
  /\ at[t] = "attend"
  /\ Goes(t, "serve") /\ todo' = [todo EXCEPT ![t] = subs]
  /\ UNCHANGED <<way, clock, data, apps, subs, last, snap, drop,
                 target, read, told, bye>>

Spoiled == \E i \in DOMAIN store : store[i].bare
Enough(s) == Cardinality(DOMAIN store) >= Many[s]
Current(t) == Head(todo[t])

\* search_data, and the time that process_notifications reads before it takes
\* the lock.  A search that meets a record without its frame fails, unless
\* the subscription has a filter: then it finds nothing.
Search(t) ==
  /\ at[t] = "serve" /\ todo[t] # <<>>
  /\ LET s == Current(t) IN
       \/ /\ Spoiled /\ s \notin Filtered
          /\ Raised(t)
       \/ /\ ~Spoiled /\ Enough(s)
          /\ Goes(t, "process") /\ read' = [read EXCEPT ![t] = 0]
          /\ UNCHANGED <<snap, todo, drop, target>>
       \/ /\ IF Spoiled THEN s \in Filtered ELSE ~Enough(s)
          /\ todo' = [todo EXCEPT ![t] = Tail(@)] /\ UNCHANGED <<at, snap, drop, target, read>>
  /\ UNCHANGED <<way, clock, data, apps, subs, last, told, bye>>

(* Slip: the clock is read again for the comparison.                       *)
TooSoonByNow(s, now) == last[s] # None /\ Notify[s] > last[s]
(* Slip: the times are subtracted the wrong way round.                     *)
TooSoonSwapped(s, now) == Notify[s] > now - (IF last[s] = None THEN now ELSE last[s])
\* process_notifications, up to the callback.
TooSoon(s, now) == Notify[s] > (IF last[s] = None THEN now ELSE last[s]) - now

Process(t) ==
  /\ at[t] = "process"
  /\ LET s == Current(t) IN
       IF TooSoon(s, read[t])
         THEN /\ Goes(t, "check") /\ UNCHANGED told
              /\ last' = [last EXCEPT ![s] = IF @ = None THEN read[t] ELSE @]
         ELSE /\ Goes(t, "callback")
              /\ last' = [last EXCEPT ![s] = read[t]]
              /\ told' = [told EXCEPT ![s] = read[t]]
  /\ read' = [read EXCEPT ![t] = 0]
  /\ UNCHANGED <<way, clock, data, apps, subs, snap, todo, drop, target, bye>>

Callback(t) ==
  /\ at[t] = "callback"
  /\ \/ /\ Goes(t, "check") /\ UNCHANGED <<snap, todo, drop, target, read>>
        /\ bye' = [bye EXCEPT ![Current(t)] =
                     IF Owner[Current(t)] \in consumers THEN 0
                     ELSE Older(@, Cardinality(Thread))]
     \/ Raised(t) /\ bye' = [s \in Sub |-> 0]
  /\ UNCHANGED <<way, clock, data, apps, subs, last, told>>

Check(t) ==
  /\ at[t] = "check"
  /\ drop' = IF Owner[Current(t)] \in consumers THEN drop
             ELSE [drop EXCEPT ![t] = @ \cup {Current(t)}]
  /\ todo' = [todo EXCEPT ![t] = Tail(@)] /\ Goes(t, "serve")
  /\ UNCHANGED <<way, clock, data, apps, subs, last, snap, target, read, told, bye>>

(* Slip: the list keeps the subscription.                                  *)
RemoveNothing(t) ==
  /\ at[t] \in {"serve", "cancel"} /\ todo[t] = <<>>
  /\ \E s \in drop[t] : drop' = [drop EXCEPT ![t] = @ \ {s}]
  /\ UNCHANGED <<way, clock, data, apps, subs, last, told, at, snap, todo,
                 target, read, bye>>
\* remove_subscription, for each of the subscriptions found.
RemoveSub(t) ==
  /\ at[t] \in {"serve", "cancel"} /\ todo[t] = <<>>
  /\ \E s \in drop[t] :
       /\ subs' = IF Contains(subs, s) THEN RemoveFirst(subs, s) ELSE subs
       /\ last' = [last EXCEPT ![s] = None] /\ told' = [told EXCEPT ![s] = Late(s)]
       /\ drop' = [drop EXCEPT ![t] = @ \ {s}]
  /\ UNCHANGED <<way, clock, data, apps, at, snap, todo, target, read, bye>>

Attended(t) ==
  /\ at[t] \in {"serve", "cancel"} /\ todo[t] = <<>> /\ drop[t] = {}
  /\ Goes(t, "idle")
  /\ attendDue' = (attendDue /\ at[t] = "cancel")
  /\ UNCHANGED <<way, collectDue, data, apps, subs, last, snap,
                 todo, drop, target, read, told, bye>>
---------------------------------------------------------------------------
(* Consumers: IF.LDM.4.                                                    *)

RegisterConsumer(a) ==
  /\ a \notin consumers /\ consumers' = consumers \cup {a}
  /\ bye' = [s \in Sub |-> IF Owner[s] = a THEN 0 ELSE bye[s]]
  /\ UNCHANGED <<way, clock, data, providers, subs, last, local, told>>

DeregisterConsumer(a) ==
  /\ a \in consumers /\ consumers' = consumers \ {a}
  /\ UNCHANGED <<way, clock, data, providers, subs, last, local, told, bye>>

\* An application does not repeat a subscription that it holds.
Subscribe(s) ==
  /\ Owner[s] \in consumers /\ ~Contains(subs, s) /\ Len(subs) < MaxSubs
  /\ subs' = Append(subs, s) /\ last' = [last EXCEPT ![s] = 0]
  /\ UNCHANGED <<way, clock, data, apps, local, told, bye>>

\* delete_subscription copies the list; RemoveSub does the rest.
Unsubscribe(t, s) ==
  /\ at[t] = "idle" /\ consumers # {} /\ Contains(subs, s)
  /\ Goes(t, "cancel") /\ drop' = [drop EXCEPT ![t] = {s}]
  /\ UNCHANGED <<way, clock, data, apps, subs, last, snap, todo, target,
                 read, told, bye>>
---------------------------------------------------------------------------
Step(t) ==
  \/ Collect(t) \/ Examine(t) \/ SecondPass(t) \/ Collected(t)
  \/ Attend(t) \/ Search(t) \/ Process(t) \/ Callback(t) \/ Check(t)
  \/ RemoveSub(t) \/ Attended(t)

Call(t) ==
  \/ Add(t) \/ UpdateWrite(t)
  \/ \E i \in Id : UpdateExists(t, i)
  \/ \E s \in Sub : Unsubscribe(t, s)

Application ==
  \/ \E a \in Provider : RegisterProvider(a) \/ DeregisterProvider(a)
  \/ \E a \in Consumer : RegisterConsumer(a) \/ DeregisterConsumer(a)
  \/ \E s \in Sub : Subscribe(s)
  \/ \E i \in Id : Delete(i)

Next ==
  \/ Second \/ HalfSecond \/ Application \/ WakeKeeper \/ WakeServer
  \/ \E t \in Thread : Step(t)
  \/ \E t \in way.callers : Call(t)

\* Time goes on and the threads of the map are scheduled; applications need
\* not call anything.
Fairness ==
  /\ WF_vars(Second)
  /\ WF_vars(WakeKeeper \/ Step(Keeper)) /\ WF_vars(WakeServer \/ Step(Server))

Spec == Init /\ [][Next]_vars /\ Fairness
---------------------------------------------------------------------------
(* The timestamps of two notifications of a subscription are at least its  *)
(* notification interval apart, whichever threads attend the subscriptions *)
(* with a time they read before (process_notifications).                   *)
NotTooOften ==
  [][\A t \in Thread : at[t] = "process" /\ at'[t] = "callback"
       => told[Current(t)] - read[t] >= Notify[Current(t)]]_vars

(* A consumer that has deregistered gets at most one more notification of  *)
(* a subscription from each thread that attends them (attend_subscriptions *)
(* removes the subscription after it), if no callback raises.              *)
Attenders == IF way.service = "Thread" THEN {Server} ELSE way.callers
Farewell == \A s \in Sub : bye[s] <= Cardinality(Attenders)

(* The map implements LdmStore: whatever runs at the same time, an         *)
(* identifier is not given twice and a record does not go too early.       *)
Life == [i \in Id |->
  IF i \in DOMAIN store THEN IF store[i].bare THEN "replaced" ELSE "stored"
  ELSE IF i < nextId THEN "gone" ELSE "unused"]
MayGo == {i \in Id : i < nextId /\
            (i \in DOMAIN store => store[i].bare \/ Outdated(store[i]))}
Promise == INSTANCE LdmStore WITH life <- Life, obsolete <- MayGo
KeepsPromise == Promise!Spec

(* The maintenance thread discards every obsolete record, unless a record  *)
(* was updated: the collection fails at such a record.                     *)
Cleaned ==
  \A i \in Id :
    way.maintenance = "Thread" /\ i \in DOMAIN store /\ Outdated(store[i])
    ~> i \notin DOMAIN store \/ Spoiled

(* The service thread goes on notifying a subscriber as long as there is   *)
(* enough data for it, no callback raises and no record was updated.       *)
Hungry(s) ==
  /\ way.service = "Thread" /\ at[Server] # "dead" /\ ~Spoiled
  /\ Contains(subs, s) /\ Enough(s)
Served == \A s \in Sub : Hungry(s) ~> ~Hungry(s) \/ told[s] <= Stall
===========================================================================

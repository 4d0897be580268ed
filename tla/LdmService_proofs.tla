------------------------- MODULE LdmService_proofs -------------------------
(***************************************************************************)
(* What holds of the Local Dynamic Map for any number of threads,          *)
(* applications, subscriptions and records: it implements LdmStore, and it *)
(* notifies nobody too often.                                              *)
(***************************************************************************)
EXTENDS LdmService, FiniteSetTheorems, TLAPS

USE BoundAssumption, NoneAssumption
---------------------------------------------------------------------------
(* The records: the numbers in use are those that were given, and a thread *)
(* updates one of them.                                                    *)
StoreSafe ==
  /\ nextId \in 0..MaxId /\ store \in Records /\ DOMAIN store \subseteq 0..nextId - 1
  /\ at = [t \in Thread |-> at[t]] /\ target \in [Thread -> Id \cup {None}]
  /\ \A t \in Thread : at[t] = "write" => target[t] \in 0..nextId - 1
  /\ snap \in [Thread -> Records]

LEMMA RecordsDef ==
  ASSUME NEW f
  PROVE  f \in Records <=>
           f = [i \in DOMAIN f |-> f[i]] /\ DOMAIN f \subseteq Id
             /\ \A i \in DOMAIN f : f[i] \in Record
BY DEF Records

LEMMA StoredRecords ==
  ASSUME NEW i \in Id, NEW r \in Record, store \in Records
  PROVE  /\ Stored(i, r) \in Records /\ DOMAIN Stored(i, r) = DOMAIN store \cup {i}
         /\ \A j \in DOMAIN Stored(i, r) :
              Stored(i, r)[j] = IF j = i THEN r ELSE store[j]
BY RecordsDef DEF Stored

LEMMA AgedRecords ==
  ASSUME NEW f \in Records
  PROVE  /\ Aged(f) \in Records /\ DOMAIN Aged(f) = DOMAIN f
         /\ \A i \in DOMAIN f : /\ Aged(f)[i].bare <=> f[i].bare
                                /\ Outdated(f[i]) => Outdated(Aged(f)[i])
<1>1. \A i \in DOMAIN f : f[i] \in Record
  BY RecordsDef
<1>2. ASSUME NEW r \in Record
      PROVE  /\ [r EXCEPT !.age = Older(@, Valid + 1)] \in Record
             /\ [r EXCEPT !.age = Older(@, Valid + 1)].bare <=> r.bare
             /\ Outdated(r) => Outdated([r EXCEPT !.age = Older(@, Valid + 1)])
  BY <1>2 DEF Record, Older, Outdated, Obsolete
<1> QED BY <1>1, <1>2, RecordsDef DEF Aged

LEMMA WithoutRecords ==
  ASSUME NEW f \in Records, NEW i
  PROVE  /\ Without(f, i) \in Records /\ DOMAIN Without(f, i) = DOMAIN f \ {i}
         /\ \A j \in DOMAIN f \ {i} : Without(f, i)[j] = f[j]
BY RecordsDef DEF Without

(* What remove() deletes equals the record it was given.                   *)
LEMMA Removal ==
  ASSUME NEW r, NEW f \in Removals(r), f # store
  PROVE  \E i \in DOMAIN store : store[i] = r /\ f = Without(store, i)
BY DEF Removals, Same
---------------------------------------------------------------------------
(* What a step may do to the records.                                      *)
Kept == store' = store /\ nextId' = nextId
Added ==
  /\ nextId < MaxId /\ nextId' = nextId + 1
  /\ \E r \in Record : ~r.bare /\ store' = Stored(nextId, r)
Updated ==
  /\ nextId' = nextId
  /\ \E i \in 0..nextId - 1, r \in Record : r.bare /\ store' = Stored(i, r)
Discarded ==
  /\ nextId' = nextId
  /\ \E i \in DOMAIN store :
       ~store[i].bare /\ Outdated(store[i]) /\ store' = Without(store, i)
Grown == store' = Aged(store) /\ nextId' = nextId
StoreStep == Kept \/ Added \/ Updated \/ Discarded \/ Grown

LEMMA StaysSafe ==
  ASSUME StoreSafe, Kept, at' = at, target' = target, snap' = snap
  PROVE  StoreSafe'
BY DEF StoreSafe, Kept

(* A thread that moves on does not start to write.                         *)
Label == {"idle", "collect", "time", "area", "attend", "serve", "process", "callback",
          "check", "cancel", "dead"}
Moves(t) == \E l \in Label : Goes(t, l)

LEMMA GoesSafe ==
  ASSUME StoreSafe, Kept, NEW t \in Thread, Moves(t), target' = target,
         snap' \in [Thread -> Records]
  PROVE  StoreSafe'
<1>1. PICK l \in Label : at' = [at EXCEPT ![t] = l]
  BY DEF Moves, Goes
<1>2. l # "write"
  BY DEF Label
<1> QED BY <1>1, <1>2 DEF StoreSafe, Kept

LEMMA RaisedSafe ==
  ASSUME StoreSafe, Kept, NEW t \in Thread, Raised(t)
  PROVE  StoreSafe'
<1>1. Nothing \in Records
  BY RecordsDef DEF Nothing
<1>2. snap' \in [Thread -> Records] /\ target' = target
  BY <1>1 DEF Raised, StoreSafe
<1>3. CASE t \in Caller
  BY <1>2, <1>3, GoesSafe DEF Moves, Label, Raised
<1>4. CASE t \notin Caller
  BY <1>2, <1>4, GoesSafe DEF Moves, Label, Raised
<1> QED BY <1>3, <1>4

LEMMA ServiceSafe ==
  ASSUME StoreSafe, NEW t \in Thread,
         Collect(t) \/ SecondPass(t) \/ Collected(t) \/ Attend(t) \/ Search(t)
           \/ Process(t) \/ Callback(t) \/ Check(t) \/ RemoveSub(t) \/ Attended(t)
  PROVE  StoreSafe' /\ Kept
<1>1. Kept
  BY DEF Kept, data, Collect, SecondPass, Collected, Attend, Search, Process, Callback,
         Check, RemoveSub, Attended
<1>2. snap \in [Thread -> Records] /\ store \in Records
  BY DEF StoreSafe
<1>3. CASE Collect(t) \/ SecondPass(t)
  BY <1>1, <1>2, <1>3, GoesSafe DEF Moves, Label, Collect, SecondPass
<1>4. CASE Collected(t)
  <2>1. CASE Goes(t, "attend")
    BY <1>1, <1>2, <1>4, <2>1, GoesSafe DEF Moves, Label, Collected
  <2>2. CASE Goes(t, "idle")
    BY <1>1, <1>2, <1>4, <2>2, GoesSafe DEF Moves, Label, Collected
  <2> QED BY <1>4, <2>1, <2>2 DEF Collected, AfterCollection
<1>5. CASE Attend(t)
  BY <1>1, <1>2, <1>5, GoesSafe DEF Moves, Label, Attend
<1>6. CASE Search(t)
  <2>1. CASE Raised(t)
    BY <1>1, <2>1, RaisedSafe
  <2>2. CASE Goes(t, "process") /\ UNCHANGED <<snap, target>>
    BY <1>1, <1>2, <2>2, GoesSafe DEF Moves, Label
  <2>3. CASE UNCHANGED <<at, snap, target>>
    BY <1>1, <2>3, StaysSafe
  <2> QED BY <1>6, <2>1, <2>2, <2>3 DEF Search
<1>7. CASE Process(t)
  <2>1. CASE Goes(t, "check")
    BY <1>1, <1>2, <1>7, <2>1, GoesSafe DEF Moves, Label, Process
  <2>2. CASE Goes(t, "callback")
    BY <1>1, <1>2, <1>7, <2>2, GoesSafe DEF Moves, Label, Process
  <2> QED BY <1>7, <2>1, <2>2 DEF Process
<1>8. CASE Callback(t)
  <2>1. CASE Raised(t)
    BY <1>1, <2>1, RaisedSafe
  <2>2. CASE Goes(t, "check") /\ UNCHANGED <<snap, target>>
    BY <1>1, <1>2, <2>2, GoesSafe DEF Moves, Label
  <2> QED BY <1>8, <2>1, <2>2 DEF Callback
<1>9. CASE Check(t)
  BY <1>1, <1>2, <1>9, GoesSafe DEF Moves, Label, Check
<1>10. CASE RemoveSub(t)
  BY <1>1, <1>10, StaysSafe DEF RemoveSub
<1>11. CASE Attended(t)
  BY <1>1, <1>2, <1>11, GoesSafe DEF Moves, Label, Attended
<1> QED BY <1>3, <1>4, <1>5, <1>6, <1>7, <1>8, <1>9, <1>10, <1>11

LEMMA ExamineSafe ==
  ASSUME StoreSafe, NEW t \in Thread, Examine(t)
  PROVE  StoreSafe' /\ (Kept \/ Discarded)
<1> DEFINE i == CHOOSE i \in DOMAIN snap[t] : \A j \in DOMAIN snap[t] : i <= j
           r == snap[t][i]
<1>1. nextId' = nextId
  BY DEF Examine
<1>2. CASE r.bare
  <2>1. Raised(t) /\ Kept
    BY <1>1, <1>2 DEF Examine, Kept
  <2> QED BY <2>1, RaisedSafe
<1>3. CASE ~r.bare
  <2>1. /\ snap' = [snap EXCEPT ![t] = Without(snap[t], i)]
        /\ store' \in IF Obsolete(r, at[t]) THEN Removals(r) ELSE {store}
        /\ at' = at /\ target' = target /\ at[t] \in {"time", "area"}
    BY <1>3 DEF Examine, StoreSafe
  <2>2. snap' \in [Thread -> Records]
    <3>1. snap[t] \in Records
      BY DEF StoreSafe
    <3> HIDE DEF i
    <3> QED BY <2>1, <3>1, WithoutRecords DEF StoreSafe
  <2> HIDE DEF r
  <2>3. Kept \/ Discarded
    <3>1. CASE store' = store
      BY <1>1, <3>1 DEF Kept
    <3>2. CASE store' # store
      <4>1. Obsolete(r, at[t]) /\ store' \in Removals(r)
        BY <2>1, <3>2
      <4>2. \E k \in DOMAIN store : store[k] = r /\ store' = Without(store, k)
        BY <4>1, <3>2, Removal
      <4>3. Outdated(r)
        BY <4>1, <2>1 DEF Outdated
      <4> QED BY <1>1, <1>3, <4>2, <4>3 DEF Discarded
    <3> QED BY <3>1, <3>2
  <2>4. store' \in Records /\ DOMAIN store' \subseteq DOMAIN store
    <3>1. CASE Kept
      BY <3>1 DEF Kept, StoreSafe
    <3>2. CASE Discarded
      <4>1. PICK k \in DOMAIN store : store' = Without(store, k)
        BY <3>2 DEF Discarded
      <4>2. store \in Records
        BY DEF StoreSafe
      <4> QED BY <4>1, <4>2, WithoutRecords
    <3> QED BY <2>3, <3>1, <3>2
  <2> QED BY <1>1, <2>1, <2>2, <2>3, <2>4 DEF StoreSafe
<1> QED BY <1>2, <1>3

LEMMA CallSafe ==
  ASSUME StoreSafe, NEW t \in Thread, Call(t)
  PROVE  StoreSafe' /\ (Kept \/ Added \/ Updated)
<1>1. CASE Add(t)
  <2>1. PICK p \in Place :
          store' = Stored(nextId, [age |-> 0, place |-> p, bare |-> FALSE])
    BY <1>1 DEF Add, NewId
  <2> DEFINE r == [age |-> 0, place |-> p, bare |-> FALSE]
  <2>2. r \in Record /\ ~r.bare
    BY DEF Record
  <2>3. /\ nextId < MaxId /\ nextId' = nextId + 1 /\ nextId \in Id
        /\ target' = target /\ snap' = snap
    BY <1>1 DEF Add, StoreSafe, Id
  <2>4. Moves(t)
    BY <1>1 DEF Add, AfterInsertion, AfterCollection, Moves, Label
  <2>5. PICK l \in Label : at' = [at EXCEPT ![t] = l]
    BY <2>4 DEF Moves, Goes
  <2>6. l # "write"
    BY DEF Label
  <2> HIDE DEF r
  <2>7. store' \in Records /\ DOMAIN store' = DOMAIN store \cup {nextId}
    <3>1. store' = Stored(nextId, r) /\ store \in Records
      BY <2>1 DEF r, StoreSafe
    <3> QED BY <3>1, <2>2, <2>3, StoredRecords
  <2>8. Added
    BY <2>1, <2>2, <2>3 DEF Added, r
  <2>9. StoreSafe'
    BY <2>3, <2>5, <2>6, <2>7 DEF StoreSafe, Id
  <2> QED BY <2>8, <2>9
<1>2. CASE UpdateWrite(t)
  <2> DEFINE r == [age |-> 0, place |-> "kept", bare |-> TRUE]
  <2>0. store \in Records
    BY DEF StoreSafe
  <2>1. /\ store' = Stored(target[t], r) /\ nextId' = nextId /\ snap' = snap
        /\ at' = [at EXCEPT ![t] = "idle"] /\ target' = [target EXCEPT ![t] = None]
    BY <1>2 DEF UpdateWrite, Goes
  <2>2. r \in Record /\ r.bare
    BY DEF Record, Place
  <2>3. target[t] \in 0..nextId - 1 /\ target[t] \in Id
    BY <1>2 DEF UpdateWrite, StoreSafe, Id
  <2> HIDE DEF r
  <2>4. store' \in Records /\ DOMAIN store' = DOMAIN store \cup {target[t]}
    BY <2>0, <2>1, <2>2, <2>3, StoredRecords
  <2>5. Updated
    BY <2>1, <2>2, <2>3 DEF Updated
  <2>6. StoreSafe'
    BY <2>1, <2>3, <2>4 DEF StoreSafe
  <2> QED BY <2>5, <2>6
<1>3. ASSUME NEW i \in Id, UpdateExists(t, i)
      PROVE  StoreSafe' /\ Kept
  BY <1>3 DEF UpdateExists, Goes, StoreSafe, Kept, data
<1>4. ASSUME NEW s \in Sub, Unsubscribe(t, s)
      PROVE  StoreSafe' /\ Kept
  BY <1>4, GoesSafe DEF Unsubscribe, Moves, Label, StoreSafe, Kept, data
<1> QED BY <1>1, <1>2, <1>3, <1>4 DEF Call

LEMMA SecondSafe ==
  ASSUME StoreSafe, Second
  PROVE  StoreSafe' /\ Grown
<1>1. /\ store' = Aged(store) /\ snap' = [t \in Thread |-> Aged(snap[t])]
      /\ nextId' = nextId /\ at' = at /\ target' = target
  BY DEF Second
<1>2. snap' \in [Thread -> Records]
  BY <1>1, AgedRecords DEF StoreSafe
<1>3. store' \in Records /\ DOMAIN store' = DOMAIN store
  BY <1>1, AgedRecords DEF StoreSafe
<1> QED BY <1>1, <1>2, <1>3 DEF StoreSafe, Grown

LEMMA NextSafe ==
  ASSUME way \in Ways, StoreSafe, [Next]_vars
  PROVE  StoreSafe' /\ StoreStep
<1>1. CASE Second
  BY <1>1, SecondSafe DEF StoreStep
<1>2. CASE HalfSecond \/ Application \/ UNCHANGED vars
  <2>1. Kept /\ UNCHANGED local
    BY <1>2 DEF HalfSecond, Application, RegisterProvider, DeregisterProvider,
       RegisterConsumer, DeregisterConsumer, Subscribe, Delete, vars, Kept, data
  <2> QED BY <2>1, StaysSafe DEF local, StoreStep
<1>3. CASE WakeKeeper \/ WakeServer
  <2>1. Kept /\ target' = target /\ snap' \in [Thread -> Records]
    BY <1>3 DEF WakeKeeper, WakeServer, Kept, data, StoreSafe
  <2>2. Moves(Keeper) \/ Moves(Server)
    BY <1>3 DEF WakeKeeper, WakeServer, Moves, Label
  <2> QED BY <2>1, <2>2, GoesSafe DEF StoreStep, Thread
<1>4. ASSUME NEW t \in Thread, Step(t)
      PROVE  StoreSafe' /\ StoreStep
  BY <1>4, ServiceSafe, ExamineSafe DEF Step, StoreStep
<1>5. ASSUME NEW t \in way.callers, Call(t)
      PROVE  StoreSafe' /\ StoreStep
  BY <1>5, CallSafe, WayAssumption DEF StoreStep, Thread
<1> QED BY <1>1, <1>2, <1>3, <1>4, <1>5 DEF Next

LEMMA WayKept == ASSUME way \in Ways, [Next]_vars PROVE way' \in Ways
BY DEF Next, vars, Second, HalfSecond, Application, WakeKeeper, WakeServer, Step, Call,
   RegisterProvider, DeregisterProvider, RegisterConsumer, DeregisterConsumer, Subscribe,
   Delete, Collect, Examine, SecondPass, Collected, Attend, Search, Process, Callback,
   Check, RemoveSub, Attended, Add, UpdateWrite, UpdateExists, Unsubscribe

LEMMA StartsSafe == Init => way \in Ways /\ StoreSafe
<1> SUFFICES ASSUME Init PROVE way \in Ways /\ StoreSafe
  OBVIOUS
<1>1. Nothing \in Records /\ DOMAIN Nothing = {}
  BY RecordsDef DEF Nothing
<1> QED BY <1>1 DEF Init, StoreSafe
---------------------------------------------------------------------------
(* What it means for LdmStore.                                             *)

LEMMA LifeType ==
  /\ Life = [i \in Id |-> Life[i]]
  /\ \A i \in Id : /\ i \in DOMAIN store /\ store[i].bare => Life[i] = "replaced"
                   /\ i \in DOMAIN store /\ ~store[i].bare => Life[i] = "stored"
                   /\ i \notin DOMAIN store /\ i < nextId => Life[i] = "gone"
                   /\ i \notin DOMAIN store /\ ~(i < nextId) => Life[i] = "unused"
BY DEF Life

(* LifeType of the next state.                                             *)
LEMMA LifeTypeNext ==
  /\ Life' = [i \in Id |-> Life'[i]]
  /\ \A i \in Id : /\ i \in DOMAIN store' /\ store'[i].bare => Life'[i] = "replaced"
                   /\ i \in DOMAIN store' /\ ~store'[i].bare => Life'[i] = "stored"
                   /\ i \notin DOMAIN store' /\ i < nextId' => Life'[i] = "gone"
                   /\ i \notin DOMAIN store' /\ ~(i < nextId') => Life'[i] = "unused"
BY DEF Life

LEMMA StepRefines ==
  ASSUME StoreSafe, StoreSafe', StoreStep
  PROVE  [Promise!Next]_<<Life, MayGo>>
<1> USE DEF Promise!Id
<1>1. store = [i \in DOMAIN store |-> store[i]] /\ \A i \in DOMAIN store : store[i] \in Record
  BY RecordsDef DEF StoreSafe
<1>0. /\ store \in Records /\ DOMAIN store \subseteq 0..nextId - 1
      /\ nextId \in 0..MaxId /\ MaxId \in Nat
  BY DEF StoreSafe
<1>2. CASE Kept
  BY <1>2 DEF Kept, Life, MayGo
<1>3. CASE Grown
  <2>1. DOMAIN store' = DOMAIN store /\ nextId' = nextId
        /\ \A i \in DOMAIN store : /\ store'[i].bare <=> store[i].bare
                                   /\ Outdated(store[i]) => Outdated(store'[i])
    BY <1>3, AgedRecords, <1>0 DEF Grown
  <2>2. Life' = Life
    <3>1. \A i \in Id : Life'[i] = Life[i]
      BY <2>1, <1>0, LifeType, LifeTypeNext
    <3> QED BY <3>1, LifeType, LifeTypeNext
  <2>3. MayGo \subseteq MayGo'
    <3>1. ASSUME NEW i \in Id, i < nextId,
                 i \in DOMAIN store => store[i].bare \/ Outdated(store[i])
          PROVE  i < nextId' /\ (i \in DOMAIN store' => store'[i].bare \/ Outdated(store'[i]))
      BY <2>1, <3>1
    <3> QED BY <3>1 DEF MayGo
  <2> QED BY <2>2, <2>3 DEF Id, Promise!Next, Promise!Age
<1>4. CASE Added
  <2>1. PICK r \in Record : ~r.bare /\ store' = Stored(nextId, r)
    BY <1>4 DEF Added
  <2>2. nextId \in Id /\ nextId' = nextId + 1 /\ nextId \notin DOMAIN store
    BY <1>4 DEF Id, Added, StoreSafe
  <2>3. /\ DOMAIN store' = DOMAIN store \cup {nextId} /\ ~store'[nextId].bare
        /\ \A j \in DOMAIN store : store'[j] = store[j]
    <3>1. /\ DOMAIN store' = DOMAIN store \cup {nextId}
          /\ \A j \in DOMAIN store' : store'[j] = IF j = nextId THEN r ELSE store[j]
      BY <2>1, <2>2, StoredRecords, <1>0, ZenonT(60)
    <3>2. store'[nextId] = r
      BY <3>1
    <3> QED BY <2>1, <2>2, <3>1, <3>2
  <2>4. Life' = [Life EXCEPT ![nextId] = "stored"]
    <3>1. \A i \in Id : Life'[i] = IF i = nextId THEN "stored" ELSE Life[i]
      <4>1. ASSUME NEW i \in Id, i \in DOMAIN store PROVE Life'[i] = Life[i] /\ i # nextId
        <5>1. i \in DOMAIN store' /\ store'[i] = store[i] /\ i # nextId
          BY <4>1, <2>2, <2>3
        <5>2. store'[i].bare <=> store[i].bare
          BY <5>1
        <5> QED BY <4>1, <5>1, <5>2, LifeType, LifeTypeNext
      <4>2. ASSUME NEW i \in Id, i \notin DOMAIN store, i # nextId PROVE Life'[i] = Life[i]
        <5>1. i \notin DOMAIN store' /\ (i < nextId' <=> i < nextId)
          BY <4>2, <2>2, <2>3, <1>0 DEF Id
        <5> QED BY <4>2, <5>1, LifeType, LifeTypeNext
      <4>3. Life'[nextId] = "stored"
        BY <2>2, <2>3, LifeTypeNext
      <4> QED BY <4>1, <4>2, <4>3
    <3> QED BY <3>1, LifeType, LifeTypeNext
  <2>5. Life[nextId] = "unused" /\ \A j \in 0..nextId - 1 : Life[j] # "unused"
    BY <2>2, <1>0 DEF Id, Life
  <2>6. MayGo \subseteq MayGo'
    <3>1. ASSUME NEW i \in Id, i < nextId,
                 i \in DOMAIN store => store[i].bare \/ Outdated(store[i])
          PROVE  i < nextId' /\ (i \in DOMAIN store' => store'[i].bare \/ Outdated(store'[i]))
      BY <2>2, <2>3, <3>1, <1>0 DEF Id
    <3> QED BY <3>1 DEF MayGo
  <2> QED BY <2>2, <2>4, <2>5, <2>6 DEF Id, Promise!Next, Promise!Insert, Promise!Becomes
<1>5. CASE Updated
  <2>1. PICK i \in 0..nextId - 1, r \in Record : r.bare /\ store' = Stored(i, r)
    BY <1>5 DEF Updated
  <2>2. i \in Id /\ i < nextId /\ nextId' = nextId
    BY <1>5 DEF Id, Updated, StoreSafe
  <2>3. /\ DOMAIN store' = DOMAIN store \cup {i} /\ store'[i].bare
        /\ \A j \in DOMAIN store \ {i} : store'[j] = store[j]
    <3>1. /\ DOMAIN store' = DOMAIN store \cup {i}
          /\ \A j \in DOMAIN store' : store'[j] = IF j = i THEN r ELSE store[j]
      <4>1. i \in Id /\ r \in Record /\ store \in Records /\ store' = Stored(i, r)
        BY <2>1, <2>2, <1>0
      <4> QED BY <4>1, StoredRecords
    <3>2. store'[i] = r
      BY <3>1
    <3> QED BY <2>1, <2>2, <3>1, <3>2
  <2>4. Life' = [Life EXCEPT ![i] = "replaced"]
    BY <2>2, <2>3 DEF Id, Life
  <2>5. Life[i] # "unused"
    BY <2>2 DEF Id, Life
  <2>6. MayGo \subseteq MayGo'
    BY <2>2, <2>3 DEF Id, MayGo
  <2> QED BY <2>2, <2>4, <2>5, <2>6 DEF Id, Promise!Next, Promise!Replace, Promise!Becomes
<1>6. CASE Discarded
  <2>1. PICK i \in DOMAIN store :
          ~store[i].bare /\ Outdated(store[i]) /\ store' = Without(store, i)
    BY <1>6 DEF Discarded
  <2>2. i \in Id /\ i < nextId /\ nextId' = nextId
    BY <1>6 DEF Id, Discarded, StoreSafe
  <2>3. DOMAIN store' = DOMAIN store \ {i} /\ \A j \in DOMAIN store \ {i} : store'[j] = store[j]
    BY <2>1, WithoutRecords, <1>0
  <2>4. Life' = [Life EXCEPT ![i] = "gone"]
    BY <2>2, <2>3 DEF Id, Life
  <2>5. MayGo \subseteq MayGo' /\ i \in MayGo
    BY <2>1, <2>2, <2>3 DEF Id, MayGo
  <2>6. Life[i] = "stored"
    BY <2>1, <2>2 DEF Id, Life
  <2> QED BY <2>2, <2>4, <2>5, <2>6 DEF Id, Promise!Next, Promise!Discard, Promise!Becomes
<1> QED BY <1>2, <1>3, <1>4, <1>5, <1>6 DEF StoreStep

(* Whatever runs at the same time, the map implements LdmStore.            *)
THEOREM Implements == Spec => KeepsPromise
<1>1. Init => Life = [i \in Id |-> "unused"] /\ MayGo = {}
  BY DEF Init, Life, MayGo, Nothing, Id
<1>2. Init => Promise!Init
  BY <1>1 DEF Promise!Init, Promise!Id, Id
<1>3. way \in Ways /\ StoreSafe /\ [Next]_vars => (way \in Ways /\ StoreSafe)'
  BY NextSafe, WayKept
<1>4. StoreSafe /\ StoreSafe' /\ way \in Ways /\ [Next]_vars => [Promise!Next]_<<Life, MayGo>>
  BY NextSafe, StepRefines
<1> QED BY StartsSafe, <1>2, <1>3, <1>4, PTL DEF Spec, KeepsPromise, Promise!Spec
---------------------------------------------------------------------------
(* Lists without repetition: the subscriptions, and those that a thread    *)
(* has copied.                                                             *)
List(q) == q \in Seq(Sub) /\ IsInjective(q)

LEMMA NoneLeft == List(<<>>) /\ \A s : ~Contains(<<>>, s)
BY DEF List, IsInjective, Contains

LEMMA FirstGone ==
  ASSUME NEW q, List(q), q # <<>>
  PROVE  /\ List(Tail(q)) /\ Head(q) \in Sub /\ Contains(q, Head(q))
         /\ ~Contains(Tail(q), Head(q))
         /\ \A s : Contains(Tail(q), s) => Contains(q, s)
<1>1. /\ q \in Seq(Sub) /\ Len(q) \in Nat /\ Len(q) > 0 /\ DOMAIN q = 1..Len(q)
      /\ \A i, j \in 1..Len(q) : q[i] = q[j] => i = j
  BY DEF List, IsInjective
<1>2. /\ Tail(q) \in Seq(Sub) /\ Len(Tail(q)) = Len(q) - 1
      /\ DOMAIN Tail(q) = 1..Len(q) - 1
      /\ \A i \in 1..Len(q) - 1 : Tail(q)[i] = q[i + 1]
      /\ Head(q) = q[1] /\ Head(q) \in Sub
  BY <1>1
<1>3. \A i \in 1..Len(q) - 1 : i + 1 \in 1..Len(q) /\ i + 1 # 1
  BY <1>1
<1>4. IsInjective(Tail(q))
  <2> SUFFICES ASSUME NEW i \in 1..Len(q) - 1, NEW j \in 1..Len(q) - 1,
                      Tail(q)[i] = Tail(q)[j]
               PROVE  i = j
    BY <1>2 DEF IsInjective
  <2>1. q[i + 1] = q[j + 1]
    BY <1>2
  <2>2. i + 1 = j + 1
    BY <1>1, <1>3, <2>1
  <2> QED BY <2>2
<1>5. Contains(q, Head(q))
  BY <1>1, <1>2 DEF Contains
<1>6. ~Contains(Tail(q), Head(q))
  <2> SUFFICES ASSUME NEW i \in 1..Len(q) - 1, Tail(q)[i] = Head(q) PROVE FALSE
    BY <1>2 DEF Contains
  <2>1. q[i + 1] = q[1] /\ 1 \in 1..Len(q)
    BY <1>1, <1>2
  <2> QED BY <1>1, <1>3, <2>1
<1>7. ASSUME NEW s, Contains(Tail(q), s) PROVE Contains(q, s)
  <2>1. PICK i \in 1..Len(q) - 1 : Tail(q)[i] = s
    BY <1>2, <1>7 DEF Contains
  <2>2. i + 1 \in 1..Len(q) /\ q[i + 1] = s
    BY <1>2, <1>3, <2>1
  <2> QED BY <2>2 DEF Contains
<1> QED BY <1>2, <1>4, <1>5, <1>6, <1>7 DEF List

LEMMA Appended ==
  ASSUME NEW q, List(q), NEW s \in Sub, ~Contains(q, s)
  PROVE  /\ List(Append(q, s))
         /\ \A u : Contains(Append(q, s), u) => u = s \/ Contains(q, u)
<1> DEFINE n == Len(q)
<1>1. /\ q \in Seq(Sub) /\ n \in Nat /\ DOMAIN q = 1..n
      /\ \A i, j \in 1..n : q[i] = q[j] => i = j
      /\ \A i \in 1..n : q[i] # s
  BY DEF List, IsInjective, Contains
<1>2. /\ Append(q, s) \in Seq(Sub) /\ Len(Append(q, s)) = n + 1
      /\ DOMAIN Append(q, s) = 1..n + 1
      /\ \A i \in 1..n : Append(q, s)[i] = q[i]
      /\ Append(q, s)[n + 1] = s
  BY <1>1
<1>3. \A i \in 1..n + 1 : i \in 1..n \/ i = n + 1
  BY <1>1
<1> HIDE DEF n
<1>4. IsInjective(Append(q, s))
  BY <1>1, <1>2, <1>3 DEF IsInjective
<1>5. ASSUME NEW u, Contains(Append(q, s), u) PROVE u = s \/ Contains(q, u)
  BY <1>1, <1>2, <1>3, <1>5 DEF Contains, n
<1> QED BY <1>2, <1>4, <1>5 DEF List

LEMMA FirstRemoved ==
  ASSUME NEW q, List(q), NEW s, Contains(q, s)
  PROVE  /\ List(RemoveFirst(q, s)) /\ ~Contains(RemoveFirst(q, s), s)
         /\ Len(RemoveFirst(q, s)) = Len(q) - 1
         /\ \A u : Contains(RemoveFirst(q, s), u) => Contains(q, u)
<1> DEFINE n == Len(q)
           hits == {i \in 1..n : q[i] = s}
           r == RemoveFirst(q, s)
<1>1. /\ q \in Seq(Sub) /\ n \in Nat /\ DOMAIN q = 1..n
      /\ \A i, j \in 1..n : q[i] = q[j] => i = j
  BY DEF List, IsInjective
<1>2. PICK k \in 1..n : q[k] = s
  BY DEF Contains
<1>3. hits = {k}
  BY <1>1, <1>2
<1>4. SelectInSeq(q, LAMBDA v : v = s) = k
  <2>1. Min(hits) = k
    BY <1>3 DEF Min
  <2> QED BY <1>3, <2>1 DEF SelectInSeq
<1>5. r = SubSeq(q, 1, k - 1) \o SubSeq(q, k + 1, n)
  BY <1>2, <1>4 DEF RemoveFirst, RemoveAt
<1> HIDE DEF r, n
<1>6. /\ r \in Seq(Sub) /\ Len(r) = n - 1 /\ DOMAIN r = 1..n - 1
      /\ \A i \in 1..n - 1 : r[i] = IF i < k THEN q[i] ELSE q[i + 1]
  <2> DEFINE a == SubSeq(q, 1, k - 1)
             b == SubSeq(q, k + 1, n)
  <2>1. /\ a \in Seq(Sub) /\ Len(a) = k - 1 /\ \A i \in 1..k - 1 : a[i] = q[i]
        /\ b \in Seq(Sub) /\ Len(b) = n - k /\ \A i \in 1..n - k : b[i] = q[k + i]
    <3>1. n \in Nat /\ k \in 1..n /\ k - 1 \in Nat /\ \A i \in 1..n : q[i] \in Sub
      BY <1>1, <1>2 DEF n
    <3>2. \A i \in 1..k - 1 : q[i] \in Sub
      BY <3>1
    <3>3. a \in Seq(Sub) /\ Len(a) = k - 1 /\ \A i \in 1..k - 1 : a[i] = q[i]
      BY <3>1, <3>2
    <3>4. \A i \in k + 1..n : q[i] \in Sub
      BY <3>1
    <3>5. b \in Seq(Sub) /\ Len(b) = n - k /\ \A i \in 1..n - k : b[i] = q[k + i]
      BY <3>1, <3>4
    <3> QED BY <3>3, <3>5
  <2>2. r = a \o b
    BY <1>5
  <2> HIDE DEF a, b
  <2>3. /\ r \in Seq(Sub) /\ Len(r) = n - 1
        /\ \A i \in 1..n - 1 : r[i] = IF i <= k - 1 THEN a[i] ELSE b[i - (k - 1)]
    BY <1>1, <1>2, <2>1, <2>2
  <2>4. ASSUME NEW i \in 1..n - 1 PROVE r[i] = IF i < k THEN q[i] ELSE q[i + 1]
    <3>1. CASE i < k
      BY <1>1, <2>1, <2>3, <3>1
    <3>2. CASE ~(i < k)
      <4>1. r[i] = b[i - (k - 1)] /\ i - (k - 1) \in 1..n - k /\ k + (i - (k - 1)) = i + 1
        BY <1>1, <2>3, <3>2
      <4>2. b[i - (k - 1)] = q[k + (i - (k - 1))]
        BY <2>1, <4>1
      <4> QED BY <3>2, <4>1, <4>2
    <3> QED BY <3>1, <3>2
  <2> QED BY <2>3, <2>4
<1>7. ASSUME NEW i \in 1..n - 1
      PROVE  \E j \in 1..n : j # k /\ r[i] = q[j] /\ j = IF i < k THEN i ELSE i + 1
  BY <1>1, <1>2, <1>6
<1>8. IsInjective(r)
  <2> SUFFICES ASSUME NEW i \in 1..n - 1, NEW j \in 1..n - 1, r[i] = r[j] PROVE i = j
    BY <1>6 DEF IsInjective
  <2> QED BY <1>1, <1>7
<1>9. \A i \in 1..n - 1 : r[i] # s
  BY <1>1, <1>2, <1>7
<1>10. ASSUME NEW u, Contains(r, u) PROVE Contains(q, u)
  BY <1>6, <1>7, <1>10 DEF Contains, n
<1> QED BY <1>6, <1>8, <1>9, <1>10 DEF List, Contains, r, n
---------------------------------------------------------------------------
(* A thread that attends the subscriptions: where it is, what it has yet   *)
(* to look at and what it will remove fit together.                        *)
Serving == {"serve", "process", "callback", "check"}

Fits(t, l, q, d) ==
  /\ List(q) /\ d \subseteq Sub
  /\ l \in Serving \ {"serve"} => q # <<>>
  /\ l \notin Serving => q = <<>>
  /\ l \notin Serving \cup {"cancel"} => d = {}
  /\ l \in Serving \cup {"attend"} => t \in Attenders
  /\ t \in Caller /\ l # "idle" => t \in way.callers

ServiceInv ==
  /\ List(subs)
  /\ at = [t \in Thread |-> at[t]] /\ todo = [t \in Thread |-> todo[t]]
  /\ drop = [t \in Thread |-> drop[t]]
  /\ \A t \in Thread : Fits(t, at[t], todo[t], drop[t])

(* It will not notify s again before the next attendance, or cannot.       *)
DoneAs(l, q, d, s) ==
  \/ l = "check" /\ Head(q) = s
  \/ Spoiled /\ ~(l \in {"process", "callback"} /\ Head(q) = s)
  \/ ~Contains(q, s) /\ (s \in d \/ ~Contains(subs, s))

Done(t, s) == DoneAs(at[t], todo[t], drop[t], s)

Turns(t, l, q, d) ==
  /\ at' = [at EXCEPT ![t] = l] /\ todo' = [todo EXCEPT ![t] = q]
  /\ drop' = [drop EXCEPT ![t] = d]

LEMMA SpoiledStays ==
  ASSUME StoreSafe, StoreStep, Spoiled
  PROVE  Spoiled'
<1>0. /\ store \in Records /\ DOMAIN store \subseteq 0..nextId - 1
      /\ nextId \in 0..MaxId /\ MaxId \in Nat
  BY DEF StoreSafe
<1>1. PICK i \in DOMAIN store : store[i].bare
  BY DEF Spoiled
<1>2. CASE Kept
  BY <1>1, <1>2 DEF Kept, Spoiled
<1>3. CASE Grown
  BY <1>0, <1>1, <1>3, AgedRecords DEF Grown, Spoiled
<1>4. CASE Added
  <2>1. PICK r \in Record : store' = Stored(nextId, r)
    BY <1>4 DEF Added
  <2>2. nextId \in Id /\ i # nextId /\ store \in Records
    BY <1>0, <1>4 DEF Added, Id
  <2>3. /\ DOMAIN store' = DOMAIN store \cup {nextId}
        /\ \A j \in DOMAIN store' : store'[j] = IF j = nextId THEN r ELSE store[j]
    BY <2>1, <2>2, StoredRecords
  <2>4. i \in DOMAIN store' /\ store'[i] = store[i]
    BY <2>2, <2>3
  <2> QED BY <1>1, <2>4 DEF Spoiled
<1>5. CASE Updated
  <2>1. PICK k \in 0..nextId - 1, r \in Record : r.bare /\ store' = Stored(k, r)
    BY <1>5 DEF Updated
  <2>2. k \in Id /\ r \in Record /\ store \in Records /\ store' = Stored(k, r)
    BY <1>0, <2>1 DEF Id
  <2>3. /\ DOMAIN store' = DOMAIN store \cup {k}
        /\ \A j \in DOMAIN store' : store'[j] = IF j = k THEN r ELSE store[j]
    BY <2>2, StoredRecords, ZenonT(60)
  <2>4. k \in DOMAIN store' /\ store'[k] = r
    BY <2>3
  <2> QED BY <2>1, <2>4 DEF Spoiled
<1>6. CASE Discarded
  <2>1. PICK k \in DOMAIN store : ~store[k].bare /\ store' = Without(store, k)
    BY <1>6 DEF Discarded
  <2>2. i # k
    BY <1>1, <2>1
  <2>3. i \in DOMAIN store' /\ store'[i] = store[i]
    BY <1>0, <2>1, <2>2, WithoutRecords
  <2> QED BY <1>1, <2>3 DEF Spoiled
<1> QED BY <1>2, <1>3, <1>4, <1>5, <1>6 DEF StoreStep

(* One thread moves, the others stay where they are.                       *)
LEMMA Turned ==
  ASSUME ServiceInv, way' = way, List(subs'), Spoiled => Spoiled',
         NEW t \in Thread, NEW l, NEW q, NEW d, Fits(t, l, q, d), Turns(t, l, q, d)
  PROVE  /\ ServiceInv'
         /\ \A s : /\ Contains(subs', s) => Contains(subs, s)
                   /\ Done(t, s) => DoneAs(l, q, d, s)'
                   => \A u \in Thread : Done(u, s) => Done(u, s)'
<1>1. /\ at = [u \in Thread |-> at[u]] /\ todo = [u \in Thread |-> todo[u]]
      /\ drop = [u \in Thread |-> drop[u]]
  BY DEF ServiceInv
<1>2. /\ at' = [u \in Thread |-> at'[u]] /\ todo' = [u \in Thread |-> todo'[u]]
      /\ drop' = [u \in Thread |-> drop'[u]]
      /\ at'[t] = l /\ todo'[t] = q /\ drop'[t] = d
      /\ \A u \in Thread \ {t} : at'[u] = at[u] /\ todo'[u] = todo[u] /\ drop'[u] = drop[u]
  BY <1>1 DEF Turns
<1>3. \A u, m, p, e : Fits(u, m, p, e)' <=> Fits(u, m, p, e)
  BY DEF Fits, Attenders
<1>4. \A u \in Thread : Fits(u, at[u], todo[u], drop[u])'
  BY <1>2, <1>3 DEF ServiceInv, Fits, Attenders
<1>5. ServiceInv'
  BY <1>2, <1>4 DEF ServiceInv
<1>6. ASSUME NEW s, Contains(subs', s) => Contains(subs, s),
             Done(t, s) => DoneAs(l, q, d, s)',
             NEW u \in Thread, Done(u, s)
      PROVE  Done(u, s)'
  <2>1. CASE u = t
    BY <1>2, <1>6, <2>1 DEF Done, DoneAs
  <2>2. CASE u # t
    BY <1>2, <1>6, <2>2 DEF Done, DoneAs
  <2> QED BY <2>1, <2>2
<1> QED BY <1>5, <1>6

(* Nobody moves.                                                           *)
LEMMA NoneTurned ==
  ASSUME ServiceInv, way' = way, List(subs'), Spoiled => Spoiled',
         UNCHANGED <<at, todo, drop>>
  PROVE  /\ ServiceInv'
         /\ \A s : (Contains(subs', s) => Contains(subs, s))
                   => \A u \in Thread : Done(u, s) => Done(u, s)'
BY DEF ServiceInv, Fits, Attenders, Done, DoneAs
(* A step keeps s done for those that are done with it.                    *)
Settled(s) == \A u \in Thread : Done(u, s) => Done(u, s)'

(* A thread goes on and keeps its lists.                                   *)
LEMMA Moved ==
  ASSUME ServiceInv, way' = way, subs' = subs, Spoiled => Spoiled',
         NEW t \in Thread, NEW l, at' = [at EXCEPT ![t] = l], UNCHANGED <<todo, drop>>,
         Fits(t, l, todo[t], drop[t]), at[t] # "check",
         l \in {"process", "callback"} => at[t] = "process" \/ ~Spoiled
  PROVE  ServiceInv' /\ \A s : Settled(s)
<1>1. Turns(t, l, todo[t], drop[t])
  BY DEF Turns, ServiceInv
<1>2. List(subs')
  BY DEF ServiceInv
<1>3. ASSUME NEW s, Done(t, s) PROVE DoneAs(l, todo[t], drop[t], s)'
  BY <1>3 DEF Done, DoneAs
<1> QED BY <1>1, <1>2, <1>3, Turned DEF Settled

(* An exception ends what the thread was doing.                            *)
LEMMA RaisedTurns ==
  ASSUME ServiceInv, NEW t \in Thread, Raised(t)
  PROVE  \E l \in {"idle", "dead"} : Turns(t, l, <<>>, {}) /\ Fits(t, l, <<>>, {})
BY NoneLeft DEF Raised, Goes, Turns, Fits, Serving

LEMMA CollectSettled ==
  ASSUME ServiceInv, Spoiled => Spoiled', NEW t \in Thread,
         Collect(t) \/ SecondPass(t) \/ Collected(t) \/ Examine(t)
  PROVE  ServiceInv' /\ \A s : Settled(s)
<1>0. /\ Fits(t, at[t], todo[t], drop[t]) /\ way' = way /\ subs' = subs
      /\ at[t] \in {"collect", "time", "area"}
  BY DEF ServiceInv, Collect, SecondPass, Collected, Examine
<1>1. CASE Collect(t)
  <2>1. Fits(t, "time", todo[t], drop[t])
    BY <1>0 DEF Fits, Serving
  <2> QED BY <1>0, <1>1, <2>1, Moved DEF Collect, Goes
<1>2. CASE SecondPass(t)
  <2>1. Fits(t, "area", todo[t], drop[t])
    BY <1>0 DEF Fits, Serving
  <2> QED BY <1>0, <1>2, <2>1, Moved DEF SecondPass, Goes
<1>3. CASE Collected(t)
  <2>1. Fits(t, AfterCollection(t), todo[t], drop[t])
    BY <1>0 DEF Fits, Serving, AfterCollection, Attenders
  <2>2. AfterCollection(t) \notin {"process", "callback"}
    BY DEF AfterCollection
  <2> QED BY <1>0, <1>3, <2>1, <2>2, Moved DEF Collected, Goes
<1>4. CASE Examine(t)
  <2>1. CASE UNCHANGED <<at, todo, drop>>
    BY <1>0, <2>1, NoneTurned DEF Settled, ServiceInv
  <2>2. CASE Raised(t)
    <3>1. PICK l \in {"idle", "dead"} : Turns(t, l, <<>>, {}) /\ Fits(t, l, <<>>, {})
      BY <2>2, RaisedTurns
    <3>2. todo[t] = <<>> /\ drop[t] = {}
      BY <1>0 DEF Fits, Serving
    <3>3. ASSUME NEW s, Done(t, s) PROVE DoneAs(l, <<>>, {}, s)'
      BY <1>0, <3>2, <3>3 DEF Done, DoneAs
    <3> QED BY <1>0, <3>1, <3>3, Turned DEF Settled, ServiceInv
  <2> QED BY <1>4, <2>1, <2>2 DEF Examine
<1> QED BY <1>1, <1>2, <1>3, <1>4

LEMMA AttendSettled ==
  ASSUME ServiceInv, Spoiled => Spoiled', NEW t \in Thread, Attend(t)
  PROVE  ServiceInv' /\ \A s : Settled(s)
<1>0. /\ Fits(t, at[t], todo[t], drop[t]) /\ way' = way /\ subs' = subs
      /\ at[t] = "attend" /\ List(subs)
  BY DEF ServiceInv, Attend
<1>1. todo[t] = <<>> /\ drop[t] = {} /\ t \in Attenders
  BY <1>0 DEF Fits, Serving
<1>5. PICK q : q = subs
  OBVIOUS
<1>2. Turns(t, "serve", q, {}) /\ Fits(t, "serve", q, {})
  BY <1>0, <1>1, <1>5 DEF Attend, Goes, Turns, Fits, Serving, ServiceInv
<1>3. ASSUME NEW s, Done(t, s) PROVE DoneAs("serve", q, {}, s)'
  BY <1>0, <1>1, <1>5, <1>3 DEF Done, DoneAs
<1> QED BY <1>0, <1>2, <1>3, Turned DEF Settled

LEMMA SearchSettled ==
  ASSUME ServiceInv, Spoiled => Spoiled', NEW t \in Thread, Search(t)
  PROVE  ServiceInv' /\ \A s : Settled(s)
<1>0. /\ Fits(t, at[t], todo[t], drop[t]) /\ way' = way /\ subs' = subs
      /\ at[t] = "serve" /\ List(subs) /\ todo[t] # <<>> /\ List(todo[t])
  BY DEF ServiceInv, Search, Fits
<1>1. CASE Spoiled /\ Raised(t)
  <2>1. PICK l \in {"idle", "dead"} : Turns(t, l, <<>>, {}) /\ Fits(t, l, <<>>, {})
    BY <1>1, RaisedTurns
  <2>2. ASSUME NEW s PROVE DoneAs(l, <<>>, {}, s)'
    BY <1>1 DEF DoneAs
  <2> QED BY <1>0, <2>1, <2>2, Turned DEF Settled
<1>2. CASE ~Spoiled /\ Goes(t, "process") /\ UNCHANGED <<todo, drop>>
  <2>1. Fits(t, "process", todo[t], drop[t])
    BY <1>0 DEF Fits, Serving
  <2> QED BY <1>0, <1>2, <2>1, Moved DEF Goes
<1>3. CASE todo' = [todo EXCEPT ![t] = Tail(@)] /\ UNCHANGED <<at, drop>>
  <2>0. PICK q, d : q = Tail(todo[t]) /\ d = drop[t]
    OBVIOUS
  <2>1. List(q) /\ \A s : Contains(q, s) => Contains(todo[t], s)
    BY <1>0, <2>0, FirstGone
  <2>2. Turns(t, "serve", q, d) /\ Fits(t, "serve", q, d)
    BY <1>0, <1>3, <2>0, <2>1 DEF Turns, Fits, Serving, ServiceInv
  <2>3. ASSUME NEW s, Done(t, s) PROVE DoneAs("serve", q, d, s)'
    BY <1>0, <2>0, <2>1, <2>3 DEF Done, DoneAs
  <2> QED BY <1>0, <2>2, <2>3, Turned DEF Settled
<1> QED BY <1>1, <1>2, <1>3 DEF Search

LEMMA ProcessSettled ==
  ASSUME ServiceInv, Spoiled => Spoiled', NEW t \in Thread, Process(t)
  PROVE  ServiceInv' /\ \A s : Settled(s)
<1>0. /\ Fits(t, at[t], todo[t], drop[t]) /\ way' = way /\ subs' = subs
      /\ at[t] = "process" /\ UNCHANGED <<todo, drop>>
  BY DEF ServiceInv, Process
<1>1. Fits(t, "check", todo[t], drop[t]) /\ Fits(t, "callback", todo[t], drop[t])
  BY <1>0 DEF Fits, Serving
<1>2. CASE Goes(t, "check")
  BY <1>0, <1>1, <1>2, Moved DEF Goes
<1>3. CASE Goes(t, "callback")
  BY <1>0, <1>1, <1>3, Moved DEF Goes
<1> QED BY <1>2, <1>3 DEF Process

(* A callback that raises resets the count; another one makes its thread   *)
(* done with the subscription.                                             *)
LEMMA CallbackSettled ==
  ASSUME ServiceInv, Spoiled => Spoiled', NEW t \in Thread, Callback(t)
  PROVE  /\ ServiceInv'
         /\ \/ bye' = [s \in Sub |-> 0]
            \/ /\ \A s : Settled(s)
               /\ bye' = [bye EXCEPT ![Current(t)] =
                            IF Owner[Current(t)] \in consumers THEN 0
                            ELSE Older(@, Cardinality(Thread))]
               /\ ~Done(t, Current(t)) /\ Done(t, Current(t))' /\ t \in Attenders
               /\ Current(t)' = Current(t) /\ Current(t) \in Sub
<1>0. /\ Fits(t, at[t], todo[t], drop[t]) /\ way' = way /\ subs' = subs
      /\ at[t] = "callback" /\ List(subs) /\ t \in Attenders
      /\ List(todo[t]) /\ todo[t] # <<>>
  BY DEF ServiceInv, Callback, Fits, Serving
<1>1. CASE Raised(t) /\ bye' = [s \in Sub |-> 0]
  <2>1. PICK l \in {"idle", "dead"} : Turns(t, l, <<>>, {}) /\ Fits(t, l, <<>>, {})
    BY <1>1, RaisedTurns
  <2> QED BY <1>0, <1>1, <2>1, Turned
<1>2. CASE /\ Goes(t, "check") /\ UNCHANGED <<todo, drop>>
           /\ bye' = [bye EXCEPT ![Current(t)] =
                        IF Owner[Current(t)] \in consumers THEN 0
                        ELSE Older(@, Cardinality(Thread))]
  <2>1. Fits(t, "check", todo[t], drop[t])
    BY <1>0 DEF Fits, Serving
  <2>2. ServiceInv' /\ \A s : Settled(s)
    BY <1>0, <1>2, <2>1, Moved DEF Goes
  <2>3. Current(t) \in Sub /\ Contains(todo[t], Current(t)) /\ Current(t)' = Current(t)
    BY <1>0, <1>2, FirstGone DEF Current
  <2>4. at'[t] = "check" /\ todo'[t] = todo[t]
    BY <1>2 DEF Goes, ServiceInv
  <2>5. ~Done(t, Current(t)) /\ Done(t, Current(t))'
    BY <1>0, <2>3, <2>4 DEF Done, DoneAs, Current
  <2> QED BY <1>0, <1>2, <2>2, <2>3, <2>5
<1> QED BY <1>1, <1>2 DEF Callback

LEMMA CheckSettled ==
  ASSUME ServiceInv, Spoiled => Spoiled', NEW t \in Thread, Check(t)
  PROVE  ServiceInv' /\ \A s \in Sub : Owner[s] \notin consumers => Settled(s)
<1>0. /\ Fits(t, at[t], todo[t], drop[t]) /\ way' = way /\ subs' = subs
      /\ at[t] = "check" /\ List(subs) /\ todo[t] # <<>> /\ List(todo[t])
  BY DEF ServiceInv, Check, Fits, Serving
<1>5. PICK q : q = Tail(todo[t])
  OBVIOUS
<1>1. /\ List(q) /\ \A s : Contains(q, s) => Contains(todo[t], s)
      /\ ~Contains(q, Current(t)) /\ Current(t) \in Sub
  BY <1>0, <1>5, FirstGone DEF Current
<1>2. PICK d \in SUBSET Sub :
        /\ drop' = [drop EXCEPT ![t] = d] /\ drop[t] \subseteq d
        /\ Owner[Current(t)] \notin consumers => Current(t) \in d
  <2>1. CASE Owner[Current(t)] \in consumers
    <3>1. drop' = [drop EXCEPT ![t] = drop[t]] /\ drop[t] \in SUBSET Sub
      BY <1>0, <2>1 DEF Check, ServiceInv, Fits
    <3> QED BY <2>1, <3>1
  <2>2. CASE Owner[Current(t)] \notin consumers
    <3>1. /\ drop' = [drop EXCEPT ![t] = drop[t] \cup {Current(t)}]
          /\ drop[t] \cup {Current(t)} \in SUBSET Sub
      BY <1>0, <1>1, <2>2 DEF Check, ServiceInv, Fits
    <3> QED BY <2>2, <3>1
  <2> QED BY <2>1, <2>2
<1>3. Turns(t, "serve", q, d) /\ Fits(t, "serve", q, d)
  BY <1>0, <1>5, <1>1, <1>2 DEF Check, Goes, Turns, Fits, Serving
<1>4. ASSUME NEW s \in Sub, Owner[s] \notin consumers, Done(t, s)
      PROVE  DoneAs("serve", q, d, s)'
  BY <1>0, <1>1, <1>2, <1>4 DEF Done, DoneAs, Current
<1> QED BY <1>0, <1>3, <1>4, Turned DEF Settled

LEMMA RemoveSettled ==
  ASSUME ServiceInv, Spoiled => Spoiled', NEW t \in Thread, RemoveSub(t)
  PROVE  ServiceInv' /\ \A s : Settled(s)
<1>0. /\ Fits(t, at[t], todo[t], drop[t]) /\ way' = way
      /\ at[t] \in {"serve", "cancel"} /\ todo[t] = <<>> /\ List(subs)
  BY DEF ServiceInv, RemoveSub
<1>1. PICK x \in drop[t] :
        /\ subs' = IF Contains(subs, x) THEN RemoveFirst(subs, x) ELSE subs
        /\ drop' = [drop EXCEPT ![t] = drop[t] \ {x}] /\ UNCHANGED <<at, todo>>
  BY DEF RemoveSub, ServiceInv
<1>2. /\ List(subs') /\ ~Contains(subs', x)
      /\ \A s : Contains(subs', s) => Contains(subs, s)
  BY <1>0, <1>1, FirstRemoved
<1>5. PICK l, d : l = at[t] /\ d = drop[t] \ {x}
  OBVIOUS
<1>3. Turns(t, l, <<>>, d) /\ Fits(t, l, <<>>, d)
  BY <1>0, <1>1, <1>5, NoneLeft DEF Turns, Fits, Serving, ServiceInv
<1>4. ASSUME NEW s, Done(t, s) PROVE DoneAs(l, <<>>, d, s)'
  BY <1>0, <1>1, <1>2, <1>5, <1>4, NoneLeft DEF Done, DoneAs
<1> QED BY <1>0, <1>2, <1>3, <1>4, Turned DEF Settled

LEMMA AttendedSettled ==
  ASSUME ServiceInv, Spoiled => Spoiled', NEW t \in Thread, Attended(t)
  PROVE  ServiceInv' /\ \A s : Settled(s)
<1>0. /\ Fits(t, at[t], todo[t], drop[t]) /\ way' = way /\ subs' = subs
      /\ at[t] \in {"serve", "cancel"} /\ todo[t] = <<>> /\ drop[t] = {}
  BY DEF ServiceInv, Attended
<1>1. Fits(t, "idle", todo[t], drop[t])
  BY <1>0 DEF Fits, Serving
<1> QED BY <1>0, <1>1, Moved DEF Attended, Goes

LEMMA StepSettled ==
  ASSUME ServiceInv, Spoiled => Spoiled', NEW t \in Thread, Step(t), ~Callback(t)
  PROVE  ServiceInv' /\ \A s \in Sub : Owner[s] \notin consumers => Settled(s)
BY CollectSettled, AttendSettled, SearchSettled, ProcessSettled, CheckSettled,
   RemoveSettled, AttendedSettled DEF Step

LEMMA CallSettled ==
  ASSUME ServiceInv, way \in Ways, Spoiled => Spoiled', NEW t \in way.callers, Call(t)
  PROVE  ServiceInv' /\ \A s : Settled(s)
<1>0. /\ t \in Thread /\ t \in Caller /\ Fits(t, at[t], todo[t], drop[t])
      /\ way' = way /\ subs' = subs /\ List(subs)
  BY WayAssumption DEF ServiceInv, Call, Add, UpdateWrite, UpdateExists, Unsubscribe, Thread
<1>1. CASE Add(t)
  <2>1. Fits(t, AfterInsertion(t), todo[t], drop[t])
    BY <1>0, <1>1, ThreadAssumption DEF Add, Fits, Serving, AfterInsertion, AfterCollection, Attenders
  <2>2. AfterInsertion(t) \notin {"process", "callback"}
    BY DEF AfterInsertion, AfterCollection
  <2>3. at[t] # "check" /\ at' = [at EXCEPT ![t] = AfterInsertion(t)] /\ UNCHANGED <<todo, drop>>
    BY <1>1 DEF Add, Goes
  <2> QED BY <1>0, <2>1, <2>2, <2>3, Moved
<1>2. CASE UpdateWrite(t)
  <2>1. Fits(t, "idle", todo[t], drop[t])
    BY <1>0, <1>2 DEF UpdateWrite, Fits, Serving
  <2> QED BY <1>0, <1>2, <2>1, Moved DEF UpdateWrite, Goes
<1>3. ASSUME NEW i \in Id, UpdateExists(t, i) PROVE ServiceInv' /\ \A s : Settled(s)
  <2>1. Fits(t, "write", todo[t], drop[t])
    BY <1>0, <1>3 DEF UpdateExists, Fits, Serving
  <2> QED BY <1>0, <1>3, <2>1, Moved DEF UpdateExists, Goes
<1>4. ASSUME NEW x \in Sub, Unsubscribe(t, x) PROVE ServiceInv' /\ \A s : Settled(s)
  <2>1. at[t] = "idle" /\ todo[t] = <<>> /\ drop[t] = {}
    BY <1>0, <1>4 DEF Unsubscribe, Fits, Serving
  <2>2. Turns(t, "cancel", <<>>, {x}) /\ Fits(t, "cancel", <<>>, {x})
    BY <1>0, <1>4, <2>1, NoneLeft DEF Unsubscribe, Goes, Turns, Fits, Serving, ServiceInv
  <2>3. ASSUME NEW s, Done(t, s) PROVE DoneAs("cancel", <<>>, {x}, s)'
    BY <1>0, <2>1, <2>3 DEF Done, DoneAs
  <2> QED BY <1>0, <2>2, <2>3, Turned DEF Settled
<1> QED BY <1>1, <1>2, <1>3, <1>4 DEF Call
LEMMA WayStays == ASSUME [Next]_vars PROVE way' = way
BY DEF Next, vars, Second, HalfSecond, Application, WakeKeeper, WakeServer, Step, Call,
   RegisterProvider, DeregisterProvider, RegisterConsumer, DeregisterConsumer, Subscribe,
   Delete, Collect, Examine, SecondPass, Collected, Attend, Search, Process, Callback,
   Check, RemoveSub, Attended, Add, UpdateWrite, UpdateExists, Unsubscribe

LEMMA NextSettled ==
  ASSUME way \in Ways, StoreSafe, ServiceInv, [Next]_vars,
         \A t \in Thread : ~Callback(t)
  PROVE  ServiceInv' /\ \A s \in Sub : Owner[s] \notin consumers => Settled(s)
<1>0. (Spoiled => Spoiled') /\ way' = way
  BY NextSafe, SpoiledStays, WayStays
<1>1. CASE UNCHANGED <<at, todo, drop, subs>>
  BY <1>0, <1>1, NoneTurned DEF ServiceInv, Settled
<1>2. CASE Second \/ HalfSecond \/ UNCHANGED vars
  BY <1>1, <1>2 DEF Second, HalfSecond, vars, local
<1>3. CASE Application
  <2>1. ASSUME NEW x \in Sub, Subscribe(x)
        PROVE  ServiceInv' /\ \A s \in Sub : Owner[s] \notin consumers => Settled(s)
    <3>1. /\ Owner[x] \in consumers /\ ~Contains(subs, x) /\ subs' = Append(subs, x)
          /\ UNCHANGED <<at, todo, drop>>
      BY <2>1 DEF Subscribe, local
    <3>2. List(subs') /\ \A s : Contains(subs', s) => s = x \/ Contains(subs, s)
      BY <3>1, Appended DEF ServiceInv
    <3> QED BY <1>0, <3>1, <3>2, NoneTurned DEF Settled
  <2> QED BY <1>1, <1>3, <2>1 DEF Application, RegisterProvider, DeregisterProvider,
         RegisterConsumer, DeregisterConsumer, Delete, local
<1>4. CASE WakeKeeper
  <2>1. Keeper \in Thread /\ at[Keeper] = "idle" /\ Fits(Keeper, "collect", todo[Keeper], drop[Keeper])
    BY <1>4, ThreadAssumption DEF WakeKeeper, ServiceInv, Fits, Serving, Thread
  <2> QED BY <1>0, <1>4, <2>1, Moved DEF WakeKeeper, Goes
<1>5. CASE WakeServer
  <2>1. Server \in Thread /\ at[Server] = "idle" /\ Fits(Server, "attend", todo[Server], drop[Server])
    BY <1>5, ThreadAssumption DEF WakeServer, ServiceInv, Fits, Serving, Thread, Attenders
  <2> QED BY <1>0, <1>5, <2>1, Moved DEF WakeServer, Goes
<1>6. ASSUME NEW t \in Thread, Step(t)
      PROVE  ServiceInv' /\ \A s \in Sub : Owner[s] \notin consumers => Settled(s)
  BY <1>0, <1>6, StepSettled
<1>7. ASSUME NEW t \in way.callers, Call(t)
      PROVE  ServiceInv' /\ \A s \in Sub : Owner[s] \notin consumers => Settled(s)
  BY <1>0, <1>7, CallSettled
<1> QED BY <1>2, <1>3, <1>4, <1>5, <1>6, <1>7 DEF Next

LEMMA ServiceStays ==
  ASSUME way \in Ways, StoreSafe, ServiceInv, [Next]_vars
  PROVE  ServiceInv'
BY NextSettled, CallbackSettled, NextSafe, SpoiledStays

LEMMA StartsFit == Init => ServiceInv
BY NoneLeft DEF Init, ServiceInv, Fits, Serving
---------------------------------------------------------------------------
(* Farewell.  A subscriber that has deregistered was notified by no more   *)
(* threads than are done with it.                                          *)
Finished(s) == {t \in Attenders : Done(t, s)}

FarewellInv ==
  /\ bye \in [Sub -> Nat]
  /\ \A s \in Sub : /\ Owner[s] \in consumers => bye[s] = 0
                    /\ bye[s] <= Cardinality(Finished(s))

LEMMA FewAttend ==
  ASSUME way \in Ways, NEW T \in SUBSET Attenders
  PROVE  /\ IsFiniteSet(Attenders) /\ IsFiniteSet(T) /\ Attenders \subseteq Thread
         /\ Cardinality(T) \in Nat /\ Cardinality(Attenders) \in Nat
         /\ Cardinality(T) <= Cardinality(Attenders)
<1>1. way.callers \subseteq Caller /\ IsFiniteSet(Caller)
  BY WayAssumption, ThreadAssumption
<1>2. IsFiniteSet(way.callers) /\ IsFiniteSet({Server})
  BY <1>1, FS_Subset, FS_Singleton
<1>3. IsFiniteSet(Attenders) /\ Attenders \subseteq Thread
  BY <1>1, <1>2 DEF Attenders, Thread
<1> QED BY <1>3, FS_Subset, FS_CardinalityType

LEMMA MoreFinished ==
  ASSUME way \in Ways, way' = way, NEW s, Settled(s)
  PROVE  /\ Cardinality(Finished(s)) <= Cardinality(Finished(s)')
         /\ \A t \in Attenders : ~Done(t, s) /\ Done(t, s)'
              => Cardinality(Finished(s)) + 1 <= Cardinality(Finished(s)')
<1>1. Attenders' = Attenders /\ Attenders \subseteq Thread
  BY FewAttend DEF Attenders
<1>2. /\ Finished(s) \subseteq Finished(s)' /\ Finished(s)' \subseteq Attenders
      /\ Finished(s) \subseteq Attenders
  BY <1>1 DEF Finished, Settled
<1>3. /\ IsFiniteSet(Finished(s)') /\ IsFiniteSet(Finished(s))
      /\ Cardinality(Finished(s)) \in Nat
  BY <1>2, FewAttend
<1>4. Cardinality(Finished(s)) <= Cardinality(Finished(s)')
  BY <1>2, <1>3, FS_Subset
<1>5. ASSUME NEW t \in Attenders, ~Done(t, s), Done(t, s)'
      PROVE  Cardinality(Finished(s)) + 1 <= Cardinality(Finished(s)')
  <2>1. t \notin Finished(s) /\ Finished(s) \cup {t} \subseteq Finished(s)'
    BY <1>1, <1>2, <1>5 DEF Finished
  <2>2. Cardinality(Finished(s) \cup {t}) = Cardinality(Finished(s)) + 1
    BY <1>3, <2>1, FS_AddElement
  <2> QED BY <1>3, <2>1, <2>2, FS_Subset
<1> QED BY <1>4, <1>5

LEMMA FarewellStep ==
  ASSUME way \in Ways, StoreSafe, ServiceInv, FarewellInv, [Next]_vars
  PROVE  FarewellInv'
<1>0. way' = way /\ (Spoiled => Spoiled')
  BY WayStays, NextSafe, SpoiledStays
<1>1. \A s : Cardinality(Finished(s)') \in Nat /\ Cardinality(Finished(s)) \in Nat
  <2>1. Attenders' = Attenders
    BY <1>0 DEF Attenders
  <2>2. \A s : Finished(s)' \subseteq Attenders /\ Finished(s) \subseteq Attenders
    BY <2>1 DEF Finished
  <2> QED BY <2>2, FewAttend
<1>2. CASE \A t \in Thread : ~Callback(t)
  <2>1. \A s \in Sub : Owner[s] \notin consumers => Settled(s)
    BY <1>2, NextSettled
  <2>2. /\ bye' \in [Sub -> Nat]
        /\ \A s \in Sub : \/ bye'[s] = 0
                          \/ /\ bye'[s] = bye[s]
                             /\ Owner[s] \in consumers' => Owner[s] \in consumers
    <3>1. CASE UNCHANGED bye /\ consumers' \subseteq consumers
      BY <3>1 DEF FarewellInv
    <3>2. ASSUME NEW a \in Consumer, RegisterConsumer(a)
          PROVE  <2>2
      BY <3>2 DEF RegisterConsumer, FarewellInv
    <3>3. CASE \/ Second \/ HalfSecond \/ WakeKeeper \/ WakeServer \/ UNCHANGED vars
      BY <3>1, <3>3 DEF Second, HalfSecond, WakeKeeper, WakeServer, vars, apps
    <3>4. CASE Application
      BY <3>1, <3>2, <3>4 DEF Application, RegisterProvider, DeregisterProvider,
         DeregisterConsumer, Subscribe, Delete, apps
    <3>5. ASSUME NEW t \in Thread, Step(t) PROVE <2>2
      <4>1. UNCHANGED bye /\ consumers' = consumers
        BY <1>2, <3>5 DEF Step, apps, Collect, Examine, SecondPass, Collected, Attend, Search,
           Process, Check, RemoveSub, Attended
      <4> QED BY <3>1, <4>1
    <3>6. ASSUME NEW t \in way.callers, Call(t) PROVE <2>2
      <4>1. UNCHANGED bye /\ consumers' = consumers
        BY <3>6 DEF Call, apps, Add, UpdateWrite, UpdateExists, Unsubscribe
      <4> QED BY <3>1, <4>1
    <3> QED BY <3>3, <3>4, <3>5, <3>6 DEF Next
  <2>3. ASSUME NEW s \in Sub
        PROVE  /\ Owner[s] \in consumers' => bye'[s] = 0
               /\ bye'[s] <= Cardinality(Finished(s)')
    <3>1. CASE bye'[s] = 0
      BY <1>1, <3>1
    <3>2. CASE Owner[s] \in consumers /\ bye'[s] = bye[s]
      BY <1>1, <3>2 DEF FarewellInv
    <3>3. CASE /\ Owner[s] \notin consumers /\ Owner[s] \notin consumers'
               /\ bye'[s] = bye[s]
      <4>1. Cardinality(Finished(s)) <= Cardinality(Finished(s)')
        BY <1>0, <2>1, <3>3, MoreFinished
      <4>2. bye[s] \in Nat /\ bye[s] <= Cardinality(Finished(s))
        BY DEF FarewellInv
      <4> QED BY <1>1, <3>3, <4>1, <4>2
    <3> QED BY <2>2, <3>1, <3>2, <3>3
  <2> QED BY <2>2, <2>3 DEF FarewellInv
<1>3. ASSUME NEW t \in Thread, Callback(t) PROVE FarewellInv'
  <2>1. consumers' = consumers
    BY <1>3 DEF Callback, apps
  <2>2. CASE bye' = [s \in Sub |-> 0]
    BY <1>1, <2>2 DEF FarewellInv
  <2>3. CASE /\ \A s : Settled(s)
             /\ bye' = [bye EXCEPT ![Current(t)] =
                          IF Owner[Current(t)] \in consumers THEN 0
                          ELSE Older(@, Cardinality(Thread))]
             /\ ~Done(t, Current(t)) /\ Done(t, Current(t))' /\ t \in Attenders
             /\ Current(t)' = Current(t) /\ Current(t) \in Sub
    <3>1. PICK c \in Sub : c = Current(t)
      BY <2>3
    <3>2. ~Done(t, c) /\ Done(t, c)'
      BY <2>3, <3>1
    <3>3. Cardinality(Finished(c)) + 1 <= Cardinality(Finished(c)')
      BY <1>0, <2>3, <3>2, MoreFinished
    <3>4. /\ bye[c] \in Nat /\ bye[c] <= Cardinality(Finished(c)) /\ bye \in [Sub -> Nat]
          /\ Older(bye[c], Cardinality(Thread)) \in {bye[c], bye[c] + 1}
      BY DEF FarewellInv, Older
    <3>5. /\ bye' \in [Sub -> Nat]
          /\ \A s \in Sub \ {c} : bye'[s] = bye[s]
          /\ Owner[c] \in consumers => bye'[c] = 0
          /\ bye'[c] \in {0, bye[c], bye[c] + 1}
      BY <2>3, <3>1, <3>4
    <3>6. bye'[c] <= Cardinality(Finished(c)')
      BY <1>1, <3>3, <3>4, <3>5
    <3>7. ASSUME NEW s \in Sub \ {c} PROVE bye'[s] <= Cardinality(Finished(s)')
      <4>1. Cardinality(Finished(s)) <= Cardinality(Finished(s)')
        BY <1>0, <2>3, MoreFinished
      <4>2. bye[s] \in Nat /\ bye[s] <= Cardinality(Finished(s))
        BY DEF FarewellInv
      <4> QED BY <1>1, <3>5, <4>1, <4>2
    <3> QED BY <2>1, <3>5, <3>6, <3>7 DEF FarewellInv
  <2> QED BY <1>0, <1>3, <2>2, <2>3, CallbackSettled
<1> QED BY <1>2, <1>3

LEMMA ServiceInvariant == Spec => [](way \in Ways /\ StoreSafe /\ ServiceInv)
<1>1. Init => way \in Ways /\ StoreSafe /\ ServiceInv
  BY StartsSafe, StartsFit
<1>2. way \in Ways /\ StoreSafe /\ ServiceInv /\ [Next]_vars
        => (way \in Ways /\ StoreSafe /\ ServiceInv)'
  BY NextSafe, WayKept, ServiceStays
<1> QED BY <1>1, <1>2, PTL DEF Spec

LEMMA StartsFarewell == Init => FarewellInv
<1> SUFFICES ASSUME Init PROVE FarewellInv
  OBVIOUS
<1>1. \A s : Cardinality(Finished(s)) \in Nat
  BY FewAttend DEF Init, Finished
<1> QED BY <1>1 DEF Init, FarewellInv

(* However attendances, cancellations and registrations meet, a consumer   *)
(* that has deregistered is notified of a subscription once more by each   *)
(* attending thread at most, unless a callback raises                      *)
(* (attend_subscriptions, delete_subscription).                            *)
THEOREM FarewellKept == Spec => []Farewell
<1>1. way \in Ways /\ FarewellInv => Farewell
  <2> SUFFICES ASSUME way \in Ways, FarewellInv, NEW s \in Sub
               PROVE  bye[s] <= Cardinality(Attenders)
    BY DEF Farewell
  <2>1. /\ Finished(s) \subseteq Attenders /\ bye[s] \in Nat
        /\ bye[s] <= Cardinality(Finished(s))
    BY DEF Finished, FarewellInv
  <2>2. /\ Cardinality(Finished(s)) <= Cardinality(Attenders)
        /\ Cardinality(Finished(s)) \in Nat /\ Cardinality(Attenders) \in Nat
    BY <2>1, FewAttend
  <2> QED BY <2>1, <2>2
<1> QED BY <1>1, StartsFarewell, ServiceInvariant, FarewellStep, PTL DEF Spec
---------------------------------------------------------------------------
(* Notification intervals.  last_checked_subscriptions_time is never after *)
(* the timestamp of the last notification, and so no younger than it       *)
(* should be.                                                              *)
Spaced(s) ==
  /\ told[s] \in 0..Late(s)
  /\ last[s] = None => told[s] = Late(s)
  /\ last[s] # None => last[s] \in 0..Late(s) /\ last[s] <= told[s]

IntervalInv ==
  /\ read \in [Thread -> 0..Stall]
  /\ last = [s \in Sub |-> last[s]] /\ told = [s \in Sub |-> told[s]]
  /\ \A s \in Sub : Spaced(s)

LEMMA LateBounds ==
  ASSUME NEW s \in Sub
  PROVE  /\ Late(s) \in Nat /\ Stall \in Nat /\ Notify[s] \in Nat
         /\ Stall < Late(s) /\ Notify[s] + Stall <= Late(s)
BY SubAssumption DEF Late

LEMMA NextSpaced ==
  ASSUME NEW s \in Sub, Spaced(s),
         \/ last'[s] = last[s] /\ told'[s] = told[s]
         \/ last'[s] = None /\ told'[s] = Late(s)
         \/ last'[s] = 0 /\ told'[s] = told[s]
         \/ \E now \in 0..Stall : last'[s] = now /\ told'[s] = now
         \/ last[s] = None /\ last'[s] \in 0..Stall /\ told'[s] = told[s]
         \/ last'[s] = Older(last[s], Late(s)) /\ told'[s] = Older(told[s], Late(s))
  PROVE  Spaced(s)'
<1>1. 0 # None
  OBVIOUS
<1>2. /\ Late(s) \in Nat /\ Stall \in Nat /\ Stall < Late(s)
      /\ told[s] \in Nat /\ told[s] <= Late(s)
  BY LateBounds DEF Spaced
<1>3. CASE last'[s] = Older(last[s], Late(s)) /\ told'[s] = Older(told[s], Late(s))
  <2>1. CASE last[s] = None
    BY <1>2, <1>3, <2>1 DEF Spaced, Older
  <2>2. CASE last[s] # None
    <3>1. last[s] \in Nat /\ last[s] <= told[s]
      BY <1>2, <2>2 DEF Spaced
    <3> QED BY <1>2, <1>3, <2>2, <3>1 DEF Spaced, Older
  <2> QED BY <2>1, <2>2
<1>4. CASE \E now \in 0..Stall : last'[s] = now /\ told'[s] = now
  BY <1>2, <1>4 DEF Spaced
<1>5. CASE last[s] = None /\ last'[s] \in 0..Stall /\ told'[s] = told[s]
  BY <1>2, <1>5 DEF Spaced
<1>6. CASE last'[s] = last[s] /\ told'[s] = told[s]
  BY <1>6 DEF Spaced
<1>7. CASE \/ last'[s] = None /\ told'[s] = Late(s)
           \/ last'[s] = 0 /\ told'[s] = told[s]
  BY <1>1, <1>2, <1>7 DEF Spaced
<1> QED BY <1>3, <1>4, <1>5, <1>6, <1>7

LEMMA ProcessSpaced ==
  ASSUME ServiceInv, IntervalInv, NEW t \in Thread, Process(t)
  PROVE  IntervalInv'
<1>1. PICK c \in Sub, now \in 0..Stall : c = Current(t) /\ now = read[t]
  BY FirstGone DEF Process, ServiceInv, Fits, Serving, IntervalInv, Current
<1>2. /\ last = [s \in Sub |-> last[s]] /\ told = [s \in Sub |-> told[s]]
      /\ now \in Nat /\ now - now = 0 /\ now # None
  BY <1>1 DEF IntervalInv
<1>3. read' \in [Thread -> 0..Stall]
  BY DEF Process, IntervalInv
<1>4. CASE TooSoon(c, now)
  <2>1. told' = told /\ last' = [last EXCEPT ![c] = IF @ = None THEN now ELSE @]
    BY <1>1, <1>4 DEF Process
  <2>2. ASSUME NEW s \in Sub PROVE Spaced(s)'
    <3>1. Spaced(s)
      BY DEF IntervalInv
    <3>2. CASE s = c /\ last[c] = None
      <4>1. last'[s] = now /\ told'[s] = told[s] /\ last[s] = None
        BY <1>2, <2>1, <3>2
      <4> QED BY <1>1, <3>1, <4>1, NextSpaced
    <3>3. CASE ~(s = c /\ last[c] = None)
      <4>1. last'[s] = last[s] /\ told'[s] = told[s]
        BY <1>2, <2>1, <3>3
      <4> QED BY <3>1, <4>1, NextSpaced
    <3> QED BY <3>2, <3>3
  <2>3. last' = [s \in Sub |-> last'[s]]
    BY <1>2, <2>1
  <2> QED BY <1>2, <1>3, <2>1, <2>2, <2>3 DEF IntervalInv
<1>5. CASE ~TooSoon(c, now)
  <2>1. last' = [last EXCEPT ![c] = now] /\ told' = [told EXCEPT ![c] = now]
    BY <1>1, <1>5 DEF Process
  <2>2. ASSUME NEW s \in Sub PROVE Spaced(s)'
    <3>1. Spaced(s)
      BY DEF IntervalInv
    <3>2. CASE s = c
      <4>1. last'[s] = now /\ told'[s] = now
        BY <1>2, <2>1, <3>2
      <4> QED BY <1>1, <3>1, <4>1, NextSpaced
    <3>3. CASE s # c
      <4>1. last'[s] = last[s] /\ told'[s] = told[s]
        BY <1>2, <2>1, <3>3
      <4> QED BY <3>1, <4>1, NextSpaced
    <3> QED BY <3>2, <3>3
  <2>3. last' = [s \in Sub |-> last'[s]] /\ told' = [s \in Sub |-> told'[s]]
    BY <1>2, <2>1
  <2> QED BY <1>3, <2>2, <2>3 DEF IntervalInv
<1> QED BY <1>4, <1>5

LEMMA RemoveSpaced ==
  ASSUME ServiceInv, IntervalInv, NEW t \in Thread, RemoveSub(t)
  PROVE  IntervalInv'
<1>1. PICK c \in drop[t] :
        /\ last' = [last EXCEPT ![c] = None] /\ told' = [told EXCEPT ![c] = Late(c)]
        /\ read' = read
  BY DEF RemoveSub
<1>2. /\ last = [s \in Sub |-> last[s]] /\ told = [s \in Sub |-> told[s]]
  BY DEF IntervalInv
<1>3. ASSUME NEW s \in Sub PROVE Spaced(s)'
  <2>1. Spaced(s)
    BY DEF IntervalInv
  <2>2. CASE s = c
    <3>1. last'[s] = None /\ told'[s] = Late(s)
      BY <1>1, <1>2, <2>2
    <3> QED BY <2>1, <3>1, NextSpaced
  <2>3. CASE s # c
    <3>1. last'[s] = last[s] /\ told'[s] = told[s]
      BY <1>1, <1>2, <2>3
    <3> QED BY <2>1, <3>1, NextSpaced
  <2> QED BY <2>2, <2>3
<1>4. last' = [s \in Sub |-> last'[s]] /\ told' = [s \in Sub |-> told'[s]]
  BY <1>1, <1>2
<1> QED BY <1>1, <1>3, <1>4 DEF IntervalInv

LEMMA SubscribeSpaced ==
  ASSUME IntervalInv, NEW c \in Sub, Subscribe(c)
  PROVE  IntervalInv'
<1>1. last' = [last EXCEPT ![c] = 0] /\ told' = told /\ read' = read
  BY DEF Subscribe, local
<1>2. last = [s \in Sub |-> last[s]]
  BY DEF IntervalInv
<1>3. ASSUME NEW s \in Sub PROVE Spaced(s)'
  <2>1. Spaced(s) /\ told'[s] = told[s] /\ (last'[s] = 0 \/ last'[s] = last[s])
    BY <1>1, <1>2 DEF IntervalInv
  <2> QED BY <2>1, NextSpaced
<1>4. last' = [s \in Sub |-> last'[s]]
  BY <1>1, <1>2
<1> QED BY <1>1, <1>3, <1>4 DEF IntervalInv

LEMMA SecondSpaced ==
  ASSUME IntervalInv, Second
  PROVE  IntervalInv'
<1>1. read' \in [Thread -> 0..Stall]
  <2>1. ASSUME NEW t \in Thread
        PROVE  (IF at[t] = "process" THEN read[t] + 1 ELSE read[t]) \in 0..Stall
    BY DEF Second, IntervalInv
  <2> QED BY <2>1 DEF Second
<1>2. /\ last' = [s \in Sub |-> Older(last[s], Late(s))]
      /\ told' = [s \in Sub |-> Older(told[s], Late(s))]
  BY DEF Second
<1>3. ASSUME NEW s \in Sub PROVE Spaced(s)'
  BY <1>2, NextSpaced DEF IntervalInv
<1> QED BY <1>1, <1>2, <1>3 DEF IntervalInv

LEMMA StaysSpaced ==
  ASSUME IntervalInv, last' = last, told' = told, read' \in [Thread -> 0..Stall]
  PROVE  IntervalInv'
BY DEF IntervalInv, Spaced

LEMMA StepSpaced ==
  ASSUME ServiceInv, IntervalInv, NEW t \in Thread, Step(t)
  PROVE  IntervalInv'
<1>0. read \in [Thread -> 0..Stall]
  BY DEF IntervalInv
<1>1. CASE Collect(t) \/ SecondPass(t) \/ Collected(t) \/ Attend(t) \/ Check(t) \/ Attended(t)
  BY <1>0, <1>1, StaysSpaced
     DEF Collect, SecondPass, Collected, Attend, Check, Attended
<1>2. CASE Examine(t) \/ Callback(t)
  <2>1. last' = last /\ told' = told /\ read' = read
    BY <1>2 DEF Examine, Callback, Raised
  <2> QED BY <1>0, <2>1, StaysSpaced
<1>3. CASE Search(t)
  <2>1. last' = last /\ told' = told /\ (read' = read \/ read' = [read EXCEPT ![t] = 0])
    BY <1>3 DEF Search, Raised
  <2> QED BY <1>0, <2>1, StaysSpaced
<1> QED BY <1>1, <1>2, <1>3, ProcessSpaced, RemoveSpaced DEF Step

LEMMA IntervalStep ==
  ASSUME way \in Ways, ServiceInv, IntervalInv, [Next]_vars
  PROVE  IntervalInv'
<1>0. read \in [Thread -> 0..Stall]
  BY DEF IntervalInv
<1>1. CASE HalfSecond \/ WakeKeeper \/ WakeServer \/ UNCHANGED vars
  BY <1>0, <1>1, StaysSpaced DEF HalfSecond, WakeKeeper, WakeServer, vars, local
<1>2. CASE Application
  BY <1>0, <1>2, StaysSpaced, SubscribeSpaced DEF Application, RegisterProvider,
     DeregisterProvider, RegisterConsumer, DeregisterConsumer, Delete, local
<1>3. ASSUME NEW t \in way.callers, Call(t) PROVE IntervalInv'
  <2>1. last' = last /\ told' = told /\ read' = read
    BY <1>3 DEF Call, Add, UpdateWrite, UpdateExists, Unsubscribe
  <2> QED BY <1>0, <2>1, StaysSpaced
<1> QED BY <1>1, <1>2, <1>3, SecondSpaced, StepSpaced DEF Next

(* Only process_notifications gets from its comparison to the callback.    *)
LEMMA OnlyProcess ==
  ASSUME ServiceInv, [Next]_vars, way \in Ways, NEW t \in Thread,
         at[t] = "process", at'[t] = "callback"
  PROVE  Process(t)
<1>0. at = [u \in Thread |-> at[u]]
  BY DEF ServiceInv
<1>1. ASSUME NEW u \in Thread, u # t, NEW l, Goes(u, l) PROVE FALSE
  BY <1>0, <1>1 DEF Goes
<1>2. ASSUME Goes(t, "check") \/ Goes(t, "serve") \/ Goes(t, "idle") \/ Goes(t, "dead")
      PROVE  FALSE
  BY <1>0, <1>2 DEF Goes
<1>3. at' # at
  OBVIOUS
<1>4. CASE Second \/ HalfSecond \/ Application \/ UNCHANGED vars
  BY <1>3, <1>4 DEF Second, HalfSecond, Application, RegisterProvider, DeregisterProvider,
     RegisterConsumer, DeregisterConsumer, Subscribe, Delete, vars, local
<1>5. CASE WakeKeeper \/ WakeServer
  BY <1>1, <1>5 DEF WakeKeeper, WakeServer, Thread
<1>6. ASSUME NEW u \in Thread, Step(u) PROVE Process(t)
  <2>1. CASE u = t
    <3>1. /\ ~Collect(t) /\ ~Examine(t) /\ ~SecondPass(t) /\ ~Collected(t) /\ ~Attend(t)
          /\ ~Search(t) /\ ~Callback(t) /\ ~Check(t) /\ ~RemoveSub(t) /\ ~Attended(t)
      BY DEF Collect, Examine, SecondPass, Collected, Attend, Search, Callback, Check,
         RemoveSub, Attended
    <3> QED BY <1>6, <2>1, <3>1 DEF Step
  <2>2. CASE u # t
    <3>1. at' = at \/ \E l : Goes(u, l)
      BY <1>6 DEF Step, Collect, Examine, SecondPass, Collected, Attend, Search, Process,
         Callback, Check, RemoveSub, Attended, Raised
    <3> QED BY <1>1, <1>3, <2>2, <3>1
  <2> QED BY <2>1, <2>2
<1>7. ASSUME NEW u \in way.callers, Call(u) PROVE FALSE
  <2>1. u \in Thread /\ at[u] # "process"
    BY <1>7, WayAssumption DEF Thread, Call, Add, UpdateWrite, UpdateExists, Unsubscribe
  <2>2. \E l : Goes(u, l)
    BY <1>7 DEF Call, Add, UpdateWrite, UpdateExists, Unsubscribe
  <2> QED BY <1>1, <2>1, <2>2
<1> QED BY <1>4, <1>5, <1>6, <1>7 DEF Next

LEMMA NotSooner ==
  ASSUME way \in Ways, ServiceInv, IntervalInv, [Next]_vars, NEW t \in Thread,
         at[t] = "process", at'[t] = "callback"
  PROVE  told[Current(t)] - read[t] >= Notify[Current(t)]
<1>1. Process(t)
  BY OnlyProcess
<1>2. PICK c \in Sub, now \in 0..Stall : c = Current(t) /\ now = read[t]
  BY FirstGone DEF ServiceInv, Fits, Serving, IntervalInv, Current
<1>3. ~TooSoon(c, now)
  <2>1. CASE TooSoon(c, now)
    <3>1. at' = [at EXCEPT ![t] = "check"]
      BY <1>1, <1>2, <2>1 DEF Process, Goes
    <3> QED BY <3>1 DEF ServiceInv
  <2> QED BY <2>1
<1>4. /\ Late(c) \in Nat /\ Stall \in Nat /\ Notify[c] \in Nat
      /\ Stall < Late(c) /\ Notify[c] + Stall <= Late(c)
  BY LateBounds
<1>5. CASE last[c] = None
  <2>1. told[c] = Late(c) /\ now \in Nat /\ now <= Stall
    BY <1>4, <1>5 DEF IntervalInv, Spaced
  <2> QED BY <1>2, <1>4, <2>1
<1>6. CASE last[c] # None
  <2>1. /\ last[c] \in Nat /\ told[c] \in Nat /\ last[c] <= told[c]
        /\ now \in Nat /\ Notify[c] <= last[c] - now
    BY <1>3, <1>4, <1>6 DEF IntervalInv, Spaced, TooSoon
  <2> QED BY <1>2, <1>4, <2>1
<1> QED BY <1>5, <1>6

LEMMA StartsSpaced == Init => IntervalInv
<1> SUFFICES ASSUME Init PROVE IntervalInv
  OBVIOUS
<1>1. \A s \in Sub : Late(s) \in 0..Late(s)
  BY LateBounds
<1> QED BY <1>1 DEF Init, IntervalInv, Spaced

(* Whichever threads attend a subscription, with a time they read whenever *)
(* before, its notifications carry times at least its interval apart       *)
(* (process_notifications).                                                *)
THEOREM NeverTooOften == Spec => NotTooOften
<1>1. /\ way \in Ways /\ ServiceInv /\ IntervalInv /\ [Next]_vars
      => [\A t \in Thread : at[t] = "process" /\ at'[t] = "callback"
            => told[Current(t)] - read[t] >= Notify[Current(t)]]_vars
  BY NotSooner
<1> QED
  BY <1>1, StartsSpaced, ServiceInvariant, IntervalStep, PTL DEF Spec, NotTooOften
---------------------------------------------------------------------------
(* The types of all variables.                                             *)
Labels == Label \cup {"write"}

Shape ==
  /\ providers \subseteq Provider /\ consumers \subseteq Consumer
  /\ Len(subs) <= MaxSubs
  /\ \A t \in Thread : at[t] \in Labels

LEMMA ClockType ==
  ASSUME collectDue \in BOOLEAN, attendDue \in BOOLEAN, [Next]_vars
  PROVE  collectDue' \in BOOLEAN /\ attendDue' \in BOOLEAN
<1>1. collectDue' \in {collectDue, TRUE, FALSE}
  BY DEF Next, vars, Second, HalfSecond, Application, WakeKeeper, WakeServer, Step, Call,
     RegisterProvider, DeregisterProvider, RegisterConsumer, DeregisterConsumer, Subscribe,
     Delete, Collect, Examine, SecondPass, Collected, Attend, Search, Process, Callback,
     Check, RemoveSub, Attended, Add, UpdateWrite, UpdateExists, Unsubscribe, clock
<1>2. attendDue' \in {attendDue, TRUE, FALSE}
  <2>1. CASE HalfSecond \/ Second
    BY <2>1 DEF HalfSecond, Second
  <2>2. ASSUME NEW t \in Thread, Attended(t) PROVE attendDue' \in {attendDue, FALSE}
    <3>1. attendDue' = (attendDue /\ at[t] = "cancel")
      BY <2>2 DEF Attended
    <3> QED BY <3>1, Zenon
  <2>3. CASE UNCHANGED attendDue
    BY <2>3
  <2> QED
    BY <2>1, <2>2, <2>3
    DEF Next, vars, Application, WakeKeeper, WakeServer, Step, Call,
       RegisterProvider, DeregisterProvider, RegisterConsumer, DeregisterConsumer, Subscribe,
       Delete, Collect, Examine, SecondPass, Collected, Attend, Search, Process, Callback,
       Check, RemoveSub, Add, UpdateWrite, UpdateExists, Unsubscribe, clock
<1> QED BY <1>1, <1>2, Zenon

(* A thread goes to one of the labels.                                     *)
LEMMA LabelsKept ==
  ASSUME StoreSafe, \A t \in Thread : at[t] \in Labels, [Next]_vars
  PROVE  \A t \in Thread : at'[t] \in Labels
<1>1. ASSUME NEW t, NEW l \in Labels, Goes(t, l)
      PROVE  \A u \in Thread : at'[u] \in Labels
  BY <1>1 DEF Goes, StoreSafe
<1>2. CASE UNCHANGED at
  BY <1>2
<1>3. ASSUME NEW t, Raised(t) PROVE \A u \in Thread : at'[u] \in Labels
  <2>1. \E l \in {"idle", "dead"} : Goes(t, l)
    BY <1>3 DEF Raised
  <2> QED BY <1>1, <2>1 DEF Labels, Label
<1>4. CASE \/ Second \/ HalfSecond \/ Application \/ UNCHANGED vars
  BY <1>2, <1>4 DEF Second, HalfSecond, Application, RegisterProvider, DeregisterProvider,
     RegisterConsumer, DeregisterConsumer, Subscribe, Delete, vars, local
<1>5. CASE WakeKeeper \/ WakeServer
  BY <1>1, <1>5 DEF WakeKeeper, WakeServer, Labels, Label
<1>6. ASSUME NEW t \in Thread, Step(t) PROVE \A u \in Thread : at'[u] \in Labels
  <2>1. CASE Examine(t) \/ Search(t) \/ Callback(t) \/ RemoveSub(t)
    <3>1. \/ Raised(t) \/ UNCHANGED at
          \/ \E l \in {"process", "check"} : Goes(t, l)
      BY <2>1 DEF Examine, Search, Callback, RemoveSub
    <3> QED BY <1>1, <1>2, <1>3, <3>1 DEF Labels, Label
  <2>2. CASE \/ Collect(t) \/ SecondPass(t) \/ Collected(t) \/ Attend(t)
             \/ Process(t) \/ Check(t) \/ Attended(t)
    <3>1. \E l \in {"time", "area", "idle", "attend", "serve", "check", "callback"} :
            Goes(t, l)
      BY <2>2 DEF Collect, SecondPass, Collected, AfterCollection, Attend, Process, Check,
         Attended
    <3> QED BY <1>1, <3>1 DEF Labels, Label
  <2> QED BY <1>6, <2>1, <2>2 DEF Step
<1>7. ASSUME NEW t \in way.callers, Call(t) PROVE \A u \in Thread : at'[u] \in Labels
  <2>1. \E l \in {"collect", "attend", "idle", "write", "cancel"} : Goes(t, l)
    BY <1>7 DEF Call, Add, AfterInsertion, AfterCollection, UpdateWrite, UpdateExists,
       Unsubscribe
  <2> QED BY <1>1, <2>1 DEF Labels, Label
<1> QED BY <1>4, <1>5, <1>6, <1>7 DEF Next

(* The list of subscriptions does not outgrow its bound.                   *)
LEMMA SubsKept ==
  ASSUME ServiceInv, Len(subs) <= MaxSubs, [Next]_vars
  PROVE  Len(subs') <= MaxSubs
<1>1. Len(subs) \in Nat /\ MaxSubs \in Nat
  BY DEF ServiceInv, List
<1>2. CASE UNCHANGED subs
  BY <1>2
<1>3. ASSUME NEW s \in Sub, Subscribe(s) PROVE Len(subs') <= MaxSubs
  <2>1. subs' = Append(subs, s) /\ Len(subs) < MaxSubs
    BY <1>3 DEF Subscribe
  <2>2. Len(subs') = Len(subs) + 1
    BY <2>1 DEF ServiceInv, List
  <2> QED BY <1>1, <2>1, <2>2
<1>4. ASSUME NEW t \in Thread, RemoveSub(t) PROVE Len(subs') <= MaxSubs
  <2>1. PICK s : subs' = IF Contains(subs, s) THEN RemoveFirst(subs, s) ELSE subs
    BY <1>4 DEF RemoveSub
  <2>2. Len(subs') \in {Len(subs), Len(subs) - 1}
    BY <2>1, FirstRemoved DEF ServiceInv
  <2> QED BY <1>1, <2>2
<1> QED
  BY <1>2, <1>3, <1>4
  DEF Next, vars, Second, HalfSecond, Application, WakeKeeper, WakeServer, Step, Call,
     RegisterProvider, DeregisterProvider, RegisterConsumer, DeregisterConsumer,
     Delete, Collect, Examine, SecondPass, Collected, Attend, Search, Process, Callback,
     Check, Attended, Add, UpdateWrite, UpdateExists, Unsubscribe

LEMMA AppsKept ==
  ASSUME providers \subseteq Provider, consumers \subseteq Consumer, [Next]_vars
  PROVE  providers' \subseteq Provider /\ consumers' \subseteq Consumer
<1>1. CASE Application
  BY <1>1 DEF Application, RegisterProvider, DeregisterProvider, RegisterConsumer,
     DeregisterConsumer, Subscribe, Delete, apps
<1>2. CASE ~Application
  <2>1. UNCHANGED <<providers, consumers>>
    BY <1>2
    DEF Next, vars, Second, HalfSecond, WakeKeeper, WakeServer, Step, Call,
       Collect, Examine, SecondPass, Collected, Attend, Search, Process, Callback,
       Check, RemoveSub, Attended, Add, UpdateWrite, UpdateExists, Unsubscribe, apps
  <2> QED BY <2>1
<1> QED BY <1>1, <1>2

(* The map keeps the shape of its state, for any number of threads,        *)
(* applications, subscriptions and records: records only in slots that     *)
(* were given, lists of subscriptions within their bounds, ages capped.    *)
THEOREM TypeCorrect == Spec => []TypeOK
<1> DEFINE Times == collectDue \in BOOLEAN /\ attendDue \in BOOLEAN
<1>1. Init => Shape /\ Times /\ IntervalInv /\ FarewellInv
  <2> SUFFICES ASSUME Init PROVE Shape /\ Times /\ IntervalInv /\ FarewellInv
    OBVIOUS
  <2>1. Shape
    BY DEF Init, Shape, Labels, Label
  <2>2. Times
    BY Zenon DEF Init
  <2>3. IntervalInv /\ FarewellInv
    BY StartsSpaced, StartsFarewell
  <2> QED BY <2>1, <2>2, <2>3
<1>2. /\ way \in Ways /\ StoreSafe /\ ServiceInv /\ Shape /\ [Next]_vars => Shape'
  BY LabelsKept, SubsKept, AppsKept DEF Shape
<1>3. Times /\ [Next]_vars => Times'
  BY ClockType
<1>4. /\ way \in Ways /\ StoreSafe /\ ServiceInv /\ Shape /\ Times /\ IntervalInv
      /\ FarewellInv
      => TypeOK
  <2> SUFFICES ASSUME way \in Ways, StoreSafe, ServiceInv, Shape, Times, IntervalInv,
                      FarewellInv
               PROVE  TypeOK
    OBVIOUS
  <2>1. /\ store \in Records /\ nextId \in 0..MaxId /\ DOMAIN store \subseteq 0..nextId - 1
        /\ snap \in [Thread -> Records] /\ target \in [Thread -> Id \cup {None}]
    BY DEF StoreSafe
  <2>2. /\ providers \subseteq Provider /\ consumers \subseteq Consumer
        /\ Len(subs) <= MaxSubs
    BY DEF Shape
  <2>3. /\ subs \in Seq(Sub) /\ todo \in [Thread -> Seq(Sub)]
        /\ drop \in [Thread -> SUBSET Sub]
    BY DEF ServiceInv, Fits, List
  <2>4. at \in [Thread -> {"idle", "collect", "time", "area", "attend", "serve",
                           "process", "callback", "check", "cancel", "write", "dead"}]
    BY DEF ServiceInv, Shape, Labels, Label
  <2>5. \A s \in Sub : last[s] \in 0..Late(s) \cup {None} /\ told[s] \in 0..Late(s)
    BY DEF IntervalInv, Spaced
  <2>6. last \in [Sub -> Nat \cup {None}] /\ told \in [Sub -> Nat]
    BY <2>5, LateBounds DEF IntervalInv
  <2>7. read \in [Thread -> 0..Stall] /\ bye \in [Sub -> Nat]
    BY DEF IntervalInv, FarewellInv
  <2> QED BY <2>1, <2>2, <2>3, <2>4, <2>5, <2>6, <2>7, Zenon DEF TypeOK
<1> HIDE DEF Times
<1> QED
  BY <1>1, <1>2, <1>3, <1>4, ServiceInvariant, IntervalStep, FarewellStep, PTL DEF Spec
===========================================================================

------------------------- MODULE GeoBroadcast_proofs -------------------------
(***************************************************************************)
(* The invariants of the dissemination of a packet, for every network,     *)
(* area, hop limit and forwarding algorithm, and of a unicast packet       *)
(* through every network (NetworkServices).                                *)
(***************************************************************************)
EXTENDS NetworkServices, FiniteSetTheorems, TLAPS

USE NetworkAssumption, KindAssumption
USE DEF Known, BufferCleared, Decremented, HopsLeft

Timer == [id : Nat, rhl : 1..MaxHops, phase : Phase]

-----------------------------------------------------------------------------
(* Types.  The identity of a new timer is a number because the timers of a *)
(* station are finitely many.                                              *)
TypeInv == TypeOK /\ \A n \in Node : IsFiniteSet(timers[n])

LEMMA FreeIdOK ==
  ASSUME TypeInv, NEW n \in Node PROVE FreeId(n) \in Nat \ {0}
<1> DEFINE T == timers[n]
           k == Cardinality(T) + 1
           Ids == {t.id : t \in T}
<1>1. IsFiniteSet(T) /\ Cardinality(T) \in Nat
  BY FS_CardinalityType DEF TypeInv
<1>2. IsFiniteSet(Ids) /\ Cardinality(Ids) <= Cardinality(T)
  <2> HIDE DEF T
  <2> DEFINE f == [t \in T |-> t.id]
  <2>1. f \in Surjection(T, Ids)
    BY DEF Surjection
  <2> QED BY <1>1, <2>1, FS_Surjection
<1>3. IsFiniteSet(1..k) /\ Cardinality(1..k) = k
  <2>1. 1 \in Int /\ k \in Int /\ 1 <= k
    BY <1>1
  <2> HIDE DEF k
  <2>2. /\ IsFiniteSet(1..k)
        /\ Cardinality(1..k) = IF 1 > k THEN 0 ELSE k - 1 + 1
    BY <2>1, FS_Interval
  <2> QED BY <2>1, <2>2
<1>4. \E i \in 1..k : i \notin Ids
  <2>1. SUFFICES ASSUME 1..k \subseteq Ids PROVE FALSE
    OBVIOUS
  <2>2. Cardinality(1..k) <= Cardinality(Ids)
    BY <1>2, <2>1, FS_Subset
  <2>3. Cardinality(Ids) \in Nat
    BY <1>2, FS_CardinalityType
  <2> QED BY <1>1, <1>2, <1>3, <2>2, <2>3
<1>5. \E i \in 1..k : \A t \in T : t.id # i
  BY <1>4
<1>6. FreeId(n) \in 1..k
  BY <1>5 DEF FreeId
<1> QED BY <1>1, <1>6

LEMMA FramesOK ==
  ASSUME NEW n \in Node, NEW r \in 1..MaxHops PROVE Frames(n, r) \subseteq Frame
BY DEF Frames, Frame

LEMMA InitTypes == Init => TypeInv
<1> SUFFICES ASSUME Init PROVE TypeInv
  OBVIOUS
<1>1. IsFiniteSet({})
  BY FS_EmptySet
<1>2. requested \in BOOLEAN
  BY DEF Init
<1>3. /\ air \subseteq Frame /\ heard \subseteq Node \ {Source}
  BY DEF Init
<1>4. /\ buffer \in [Node -> Nat]
      /\ indicated \in [Node -> 0..2] /\ sent \in [Node -> 0..2]
  BY DEF Init
<1>5. timers \in [Node -> SUBSET Timer]
  BY DEF Init
<1> QED BY <1>1, <1>2, <1>3, <1>4, <1>5 DEF Init, TypeInv, TypeOK, Timer

LEMMA RequestTypes == ASSUME TypeInv, Request PROVE TypeInv'
<1>1. Frames(Source, MaxHops) \subseteq Frame
  BY FramesOK
<1>2. air' \subseteq Frame /\ sent' \in [Node -> 0..2]
  BY <1>1 DEF Request, TypeInv, TypeOK
<1> QED BY <1>2 DEF Request, TypeInv, TypeOK

LEMMA AcceptTypes ==
  ASSUME TypeInv, NEW n \in Node, Accept(n)
  PROVE  /\ heard' \subseteq Node \ {Source}
         /\ indicated' \in [Node -> 0..2]
         /\ requested' \in BOOLEAN
BY DEF Accept, TypeInv, TypeOK, AtMostTwo

LEMMA SendTypes ==
  ASSUME TypeInv, NEW f \in air, ReceiveAndSend(f) PROVE TypeInv'
<1>1. f \in Frame /\ f.to \in Node /\ f.rhl - 1 \in 1..MaxHops
  BY DEF ReceiveAndSend, TypeInv, TypeOK, Frame
<1>2. air' \subseteq Frame
  BY <1>1, FramesOK DEF ReceiveAndSend, TypeInv, TypeOK
<1>3. sent' \in [Node -> 0..2]
  BY <1>1 DEF ReceiveAndSend, TypeInv, TypeOK, AtMostTwo, Frame
<1> QED BY <1>1, <1>2, <1>3, AcceptTypes DEF ReceiveAndSend, TypeInv, TypeOK

LEMMA BufferTypes ==
  ASSUME TypeInv, NEW f \in air, ReceiveAndBuffer(f) PROVE TypeInv'
<1> DEFINE n == f.to
           new == [id |-> FreeId(n), rhl |-> f.rhl - 1, phase |-> "waiting"]
<1>1. f \in Frame /\ n \in Node /\ f.rhl - 1 \in 1..MaxHops
  BY DEF ReceiveAndBuffer, TypeInv, TypeOK, Frame
<1>2. new \in Timer
  BY <1>1, FreeIdOK DEF Timer, Phase
<1>3. CASE CbfStart(n, f.rhl - 1)
  <2>1. /\ timers' = [timers EXCEPT ![n] = @ \cup {new}]
        /\ buffer' \in [Node -> Nat]
    BY <1>1, <1>3, FreeIdOK DEF CbfStart, TypeInv, TypeOK
  <2>2. timers' \in [Node -> SUBSET Timer]
    BY <1>1, <1>2, <2>1 DEF TypeInv, TypeOK, Timer
  <2>3. \A m \in Node : IsFiniteSet(timers'[m])
    <3>1. IsFiniteSet(timers[n] \cup {new})
      BY <1>1, FS_AddElement DEF TypeInv
    <3> QED BY <1>1, <2>1, <3>1 DEF TypeInv, TypeOK
  <2> QED BY <1>1, <2>1, <2>2, <2>3, AcceptTypes
          DEF ReceiveAndBuffer, TypeInv, TypeOK, Timer
<1>4. CASE CbfSuppress(n)
  <2>1. /\ timers' = [timers EXCEPT ![n] = Cancelled(n)]
        /\ buffer' \in [Node -> Nat] /\ Cancelled(n) \subseteq timers[n]
    BY <1>1, <1>4 DEF CbfSuppress, Cancelled, TypeInv, TypeOK
  <2>2. timers' \in [Node -> SUBSET Timer]
    BY <1>1, <2>1 DEF TypeInv, TypeOK, Timer
  <2>3. \A m \in Node : IsFiniteSet(timers'[m])
    <3>1. IsFiniteSet(Cancelled(n))
      BY <1>1, <2>1, FS_Subset DEF TypeInv
    <3> QED BY <1>1, <2>1, <3>1 DEF TypeInv, TypeOK
  <2> QED BY <1>1, <2>1, <2>2, <2>3, AcceptTypes
          DEF ReceiveAndBuffer, TypeInv, TypeOK, Timer
<1> QED BY <1>3, <1>4 DEF ReceiveAndBuffer

LEMMA ElapseTypes ==
  ASSUME TypeInv, NEW n \in Node, NEW t \in timers[n], Elapse(n, t)
  PROVE  TypeInv'
<1> DEFINE u == [t EXCEPT !.phase = "elapsed"]
<1>1. timers' = [timers EXCEPT ![n] = (@ \ {t}) \cup {u}]
  BY DEF Elapse
<1>2. t \in Timer /\ u \in Timer
  BY DEF TypeInv, TypeOK, Timer, Phase
<1>3. timers' \in [Node -> SUBSET Timer]
  BY <1>1, <1>2 DEF TypeInv, TypeOK, Timer
<1>4. IsFiniteSet((timers[n] \ {t}) \cup {u})
  <2>1. IsFiniteSet(timers[n] \ {t})
    BY FS_Subset DEF TypeInv
  <2> QED BY <2>1, FS_AddElement
<1>5. \A m \in Node : IsFiniteSet(timers'[m])
  BY <1>1, <1>4 DEF TypeInv, TypeOK
<1> QED BY <1>3, <1>5 DEF Elapse, TypeInv, TypeOK, Timer

LEMMA TimeoutTypes ==
  ASSUME TypeInv, NEW n \in Node, NEW t \in timers[n], CbfTimeout(n, t)
  PROVE  TypeInv'
<1>1. timers' = [timers EXCEPT ![n] = @ \ {t}] /\ t \in Timer
  BY DEF CbfTimeout, TypeInv, TypeOK, Timer
<1>2. timers' \in [Node -> SUBSET Timer]
  BY <1>1 DEF TypeInv, TypeOK, Timer
<1>3. \A m \in Node : IsFiniteSet(timers'[m])
  <2>1. IsFiniteSet(timers[n] \ {t})
    BY FS_Subset DEF TypeInv
  <2> QED BY <1>1, <2>1 DEF TypeInv, TypeOK
<1>4. Frames(n, t.rhl) \subseteq Frame
  BY <1>1, FramesOK DEF Timer
<1>5. /\ air' \subseteq Frame /\ buffer' \in [Node -> Nat]
      /\ sent' \in [Node -> 0..2]
  BY <1>4 DEF CbfTimeout, TypeInv, TypeOK, AtMostTwo
<1> QED BY <1>2, <1>3, <1>5 DEF CbfTimeout, TypeInv, TypeOK, Timer

LEMMA NextTypes == TypeInv /\ [Next]_vars => TypeInv'
<1> SUFFICES ASSUME TypeInv, [Next]_vars PROVE TypeInv'
  OBVIOUS
<1>1. ASSUME NEW f \in air, ReceiveOwn(f) \/ ReceiveDuplicate(f) \/ Lose(f)
      PROVE  TypeInv'
  BY <1>1 DEF ReceiveOwn, ReceiveDuplicate, Lose, TypeInv, TypeOK, Frame
<1>2. ASSUME NEW f \in air, ReceiveAndStop(f) PROVE TypeInv'
  <2>1. f.to \in Node
    BY DEF TypeInv, TypeOK, Frame
  <2> QED BY <1>2, <2>1, AcceptTypes DEF ReceiveAndStop, TypeInv, TypeOK
<1>3. ASSUME NEW n \in Node, Forget(n) PROVE TypeInv'
  BY <1>3 DEF Forget, TypeInv, TypeOK
<1>4. CASE UNCHANGED vars
  BY <1>4 DEF vars, TypeInv, TypeOK
<1> QED BY <1>1, <1>2, <1>3, <1>4, RequestTypes, SendTypes, BufferTypes,
           ElapseTypes, TimeoutTypes DEF Next, Receive

LEMMA AlwaysTypes == Spec => []TypeInv
BY InitTypes, NextTypes, PTL DEF Spec

(* The shape of the state of the network (GeoBroadcast).                   *)
THEOREM TypeCorrect == Spec => []TypeOK
<1>1. TypeInv => TypeOK
  BY DEF TypeInv
<1> QED BY <1>1, AlwaysTypes, PTL

-----------------------------------------------------------------------------
(* The hop limit: also a buffered frame knows how far it has come.         *)
HopsInv ==
  /\ HopsBounded
  /\ \A n \in Node : \A t \in timers[n] : Hops[n] + t.rhl <= MaxHops

LEMMA FramesHops ==
  ASSUME NEW n \in Node, NEW r \in Int, Hops[n] + r <= MaxHops
  PROVE  \A f \in Frames(n, r) : Hops[f.from] + f.rhl <= MaxHops
BY DEF Frames

(* The station a frame reaches is one hop further.                         *)
LEMMA OneHop ==
  ASSUME TypeInv, HopsInv, NEW f \in air, f.to \in Reach[f.from]
  PROVE  /\ Hops[f.to] + (f.rhl - 1) <= MaxHops
         /\ Hops[f.to] <= MaxHops
BY DEF TypeInv, TypeOK, HopsInv, HopsBounded, Frame

(* Frames only travel between stations in range.                           *)
RangeInv == \A f \in air : f.to \in Reach[f.from]

LEMMA NextRange == TypeInv /\ RangeInv /\ [Next]_vars => RangeInv'
<1> SUFFICES ASSUME TypeInv, RangeInv, [Next]_vars PROVE RangeInv'
  OBVIOUS
<1>1. \A n \in Node, r \in Int : \A f \in Frames(n, r) : f.to \in Reach[f.from]
  BY DEF Frames
<1>2. CASE Request
  BY <1>1, <1>2 DEF Request, RangeInv
<1>3. ASSUME NEW f \in air, Receive(f) \/ Lose(f) PROVE RangeInv'
  <2>1. f.to \in Node /\ f.rhl - 1 \in Int
    BY DEF TypeInv, TypeOK, Frame
  <2>2. air' \subseteq air \/ air' \subseteq air \cup Frames(f.to, f.rhl - 1)
    BY <1>3 DEF Receive, ReceiveOwn, ReceiveDuplicate, ReceiveAndSend,
                ReceiveAndBuffer, ReceiveAndStop, Lose
  <2> QED BY <1>1, <2>1, <2>2 DEF RangeInv
<1>4. ASSUME NEW n \in Node, NEW t \in timers[n],
             Elapse(n, t) \/ CbfTimeout(n, t)
      PROVE  RangeInv'
  <2>1. t.rhl \in Int
    BY DEF TypeInv, TypeOK
  <2>2. air' \subseteq air \/ air' \subseteq air \cup Frames(n, t.rhl)
    BY <1>4 DEF Elapse, CbfTimeout
  <2> QED BY <1>1, <2>1, <2>2 DEF RangeInv
<1>5. CASE (\E n \in Node : Forget(n)) \/ UNCHANGED vars
  BY <1>5 DEF Forget, vars, RangeInv
<1> QED BY <1>2, <1>3, <1>4, <1>5 DEF Next

LEMMA NextHops ==
  TypeInv /\ TypeInv' /\ RangeInv /\ HopsInv /\ [Next]_vars => HopsInv'
<1> SUFFICES ASSUME TypeInv, TypeInv', RangeInv, HopsInv, [Next]_vars
             PROVE  HopsInv'
  OBVIOUS
<1>1. CASE Request
  <2>1. Hops[Source] + MaxHops <= MaxHops
    OBVIOUS
  <2> QED BY <1>1, <2>1, FramesHops DEF Request, HopsInv, HopsBounded
<1>2. ASSUME NEW f \in air, Receive(f) \/ Lose(f) PROVE HopsInv'
  <2>1. /\ f.to \in Node /\ f.rhl - 1 \in Int
        /\ Hops[f.to] + (f.rhl - 1) <= MaxHops /\ Hops[f.to] <= MaxHops
    BY OneHop DEF TypeInv, TypeOK, Frame, RangeInv
  <2>2. /\ air' \subseteq air \cup Frames(f.to, f.rhl - 1)
        /\ heard' \subseteq heard \cup {f.to}
    BY <1>2 DEF Receive, ReceiveOwn, ReceiveDuplicate, ReceiveAndSend,
                ReceiveAndBuffer, ReceiveAndStop, Lose, Accept
  <2>3. HopsBounded'
    BY <2>1, <2>2, FramesHops DEF HopsInv, HopsBounded
  <2>4. \A n \in Node : \A t \in timers'[n] : t \in timers[n] \/
          (n = f.to /\ t.rhl = f.rhl - 1)
    BY <1>2, <2>1 DEF Receive, ReceiveOwn, ReceiveDuplicate, ReceiveAndSend,
                ReceiveAndBuffer, ReceiveAndStop, Lose, CbfStart, CbfSuppress,
                Cancelled, TypeInv, TypeOK
  <2> QED BY <2>1, <2>3, <2>4 DEF HopsInv
<1>3. ASSUME NEW n \in Node, NEW t \in timers[n], Elapse(n, t)
      PROVE  HopsInv'
  <2>1. \A m \in Node : \A u \in timers'[m] : u \in timers[m] \/
          (m = n /\ u.rhl = t.rhl)
    BY <1>3 DEF Elapse, TypeInv, TypeOK
  <2> QED BY <1>3, <2>1 DEF Elapse, HopsInv, HopsBounded
<1>4. ASSUME NEW n \in Node, NEW t \in timers[n], CbfTimeout(n, t)
      PROVE  HopsInv'
  <2>1. t.rhl \in Int /\ Hops[n] + t.rhl <= MaxHops
    BY DEF TypeInv, TypeOK, HopsInv
  <2>2. air' \subseteq air \cup Frames(n, t.rhl) /\ heard' = heard
    BY <1>4 DEF CbfTimeout
  <2>3. \A m \in Node : timers'[m] \subseteq timers[m]
    BY <1>4 DEF CbfTimeout, TypeInv, TypeOK
  <2> QED BY <2>1, <2>2, <2>3, FramesHops DEF HopsInv, HopsBounded
<1>5. CASE (\E n \in Node : Forget(n)) \/ UNCHANGED vars
  BY <1>5 DEF Forget, vars, HopsInv, HopsBounded
<1> QED BY <1>1, <1>2, <1>3, <1>4, <1>5 DEF Next

(* The hop limit of every frame bounds how far it has come, and no station *)
(* more than MaxHops away hears of the packet, in any network and also     *)
(* when stations forget (set_rhl in gn_data_forward_gbc).                  *)
THEOREM HopsAlwaysBounded == Spec => []HopsBounded
<1>1. Init => RangeInv /\ HopsInv
  BY DEF Init, RangeInv, HopsInv, HopsBounded
<1>2. /\ TypeInv /\ TypeInv' /\ RangeInv /\ HopsInv /\ [Next]_vars
      => (RangeInv /\ HopsInv)'
  BY NextRange, NextHops
<1>3. HopsInv => HopsBounded
  BY DEF HopsInv
<1> QED BY <1>1, <1>2, <1>3, AlwaysTypes, PTL DEF Spec

-----------------------------------------------------------------------------
(* Once.  A station that has not heard the packet has done nothing with    *)
(* it, and one that still has it in the buffer has not sent it.            *)
OnceInv ==
  /\ ~requested => sent[Source] = 0
  /\ buffer[Source] = 0 /\ indicated[Source] = 0 /\ sent[Source] <= 1
  /\ \A n \in Node \ {Source} :
       /\ n \notin heard => sent[n] = 0 /\ indicated[n] = 0 /\ buffer[n] = 0
       /\ buffer[n] # 0 => sent[n] = 0
       /\ sent[n] <= 1 /\ indicated[n] <= 1

LEMMA NextOnce ==
  ASSUME ~CanForget PROVE TypeInv /\ OnceInv /\ [Next]_vars => OnceInv'
<1> SUFFICES ASSUME TypeInv, OnceInv, [Next]_vars PROVE OnceInv'
  OBVIOUS
<1>1. CASE Request
  BY <1>1 DEF Request, OnceInv, TypeInv, TypeOK
<1>2. ASSUME NEW f \in air,
             ReceiveOwn(f) \/ ReceiveDuplicate(f) \/ Lose(f)
      PROVE  OnceInv'
  BY <1>2 DEF ReceiveOwn, ReceiveDuplicate, Lose, OnceInv
<1>3. ASSUME NEW f \in air,
             ReceiveAndSend(f) \/ ReceiveAndBuffer(f) \/ ReceiveAndStop(f)
      PROVE  OnceInv'
  <2> DEFINE n == f.to
  <2>1. /\ n \in Node \ {Source} /\ n \notin heard /\ heard' = heard \cup {n}
        /\ sent[n] = 0 /\ indicated[n] = 0 /\ buffer[n] = 0
        /\ requested' = requested
    BY <1>3 DEF ReceiveAndSend, ReceiveAndBuffer, ReceiveAndStop, Accept,
                OnceInv, TypeInv, TypeOK, Frame
  <2>2. /\ indicated'[n] <= 1
        /\ \A m \in Node \ {n} : indicated'[m] = indicated[m]
    BY <1>3, <2>1 DEF ReceiveAndSend, ReceiveAndBuffer, ReceiveAndStop, Accept,
                      AtMostTwo, TypeInv, TypeOK
  <2>3. /\ sent'[n] <= 1 /\ (buffer'[n] # 0 => sent'[n] = 0)
        /\ \A m \in Node \ {n} : sent'[m] = sent[m] /\ buffer'[m] = buffer[m]
    BY <1>3, <2>1 DEF ReceiveAndSend, ReceiveAndBuffer, ReceiveAndStop,
                      CbfStart, CbfSuppress, AtMostTwo, TypeInv, TypeOK
  <2> HIDE DEF n
  <2> QED BY <2>1, <2>2, <2>3 DEF OnceInv
<1>4. ASSUME NEW n \in Node, NEW t \in timers[n],
             Elapse(n, t) \/ CbfTimeout(n, t)
      PROVE  OnceInv'
  BY <1>4 DEF Elapse, CbfTimeout, OnceInv, AtMostTwo, TypeInv, TypeOK
<1>5. CASE UNCHANGED vars
  BY <1>5 DEF vars, OnceInv
<1> QED BY <1>1, <1>2, <1>3, <1>4, <1>5 DEF Next, Receive, Forget

(* While the duplicate packet lists remember the packet, every station     *)
(* sends and delivers it at most once, in any network and for any hop      *)
(* limit, area and forwarding algorithm (check_duplicate_sn,               *)
(* gn_area_cbf_forwarding, _cbf_timeout).                                  *)
THEOREM OnceOnly == ASSUME ~CanForget PROVE Spec => []ForwardsOnce
<1>1. Init => OnceInv
  BY DEF Init, OnceInv
<1>2. TypeInv /\ OnceInv /\ [Next]_vars => OnceInv'
  BY NextOnce
<1>3. TypeInv /\ OnceInv => ForwardsOnce
  BY DEF OnceInv, ForwardsOnce
<1> QED BY <1>1, <1>2, <1>3, AlwaysTypes, PTL DEF Spec

-----------------------------------------------------------------------------
LEMMA NextBuffered ==
  TypeInv /\ BufferedHasTimer /\ [Next]_vars => BufferedHasTimer'
<1> SUFFICES ASSUME TypeInv, BufferedHasTimer, [Next]_vars
             PROVE  BufferedHasTimer'
  OBVIOUS
<1>1. ASSUME NEW f \in air, ReceiveAndBuffer(f) PROVE BufferedHasTimer'
  <2>1. f.to \in Node
    BY DEF TypeInv, TypeOK, Frame
  <2>2. CASE CbfStart(f.to, f.rhl - 1)
    <3> DEFINE n == f.to
               new == [id |-> FreeId(n), rhl |-> f.rhl - 1, phase |-> "waiting"]
    <3>1. /\ buffer' = [buffer EXCEPT ![n] = FreeId(n)]
          /\ timers' = [timers EXCEPT ![n] = @ \cup {new}]
      BY <2>2 DEF CbfStart
    <3>2. new \in timers'[n] /\ new.id = buffer'[n]
      BY <2>1, <3>1 DEF TypeInv, TypeOK
    <3>3. \A m \in Node \ {n} : buffer'[m] = buffer[m] /\ timers'[m] = timers[m]
      BY <2>1, <3>1 DEF TypeInv, TypeOK
    <3> HIDE DEF new
    <3> QED BY <3>2, <3>3 DEF BufferedHasTimer
  <2>3. CASE CbfSuppress(f.to)
    BY <2>1, <2>3 DEF CbfSuppress, BufferedHasTimer, TypeInv, TypeOK
  <2> QED BY <1>1, <2>2, <2>3 DEF ReceiveAndBuffer
<1>2. ASSUME NEW n \in Node, NEW t \in timers[n], Elapse(n, t)
      PROVE  BufferedHasTimer'
  <2>1. [t EXCEPT !.phase = "elapsed"].id = t.id
    BY DEF TypeInv, TypeOK
  <2> QED BY <1>2, <2>1 DEF Elapse, BufferedHasTimer, TypeInv, TypeOK
<1>3. ASSUME NEW n \in Node, NEW t \in timers[n], CbfTimeout(n, t)
      PROVE  BufferedHasTimer'
  BY <1>3 DEF CbfTimeout, BufferedHasTimer, TypeInv, TypeOK
<1>4. CASE UNCHANGED <<buffer, timers>>
  BY <1>4 DEF BufferedHasTimer
<1> QED BY <1>1, <1>2, <1>3, <1>4
        DEF Next, Receive, Request, ReceiveOwn, ReceiveDuplicate,
            ReceiveAndSend, ReceiveAndStop, Lose, Forget, vars

(* A packet in the contention buffer always has the timer that takes it    *)
(* out, in any network and also when stations forget, so that timers are   *)
(* cancelled, late and restarted (_cbf_buffer, _cbf_timeout).              *)
THEOREM BufferedAlwaysHasTimer == Spec => []BufferedHasTimer
<1>1. Init => BufferedHasTimer
  BY DEF Init, BufferedHasTimer
<1> QED BY <1>1, NextBuffered, AlwaysTypes, PTL DEF Spec
-----------------------------------------------------------------------------
(* A packet that waits for its destination to be found (PacketForwarding). *)
(* The invariant: nothing has been sent before the search is over, all     *)
(* frames of data are of one packet, and who has delivered it knows it.    *)
Payload == IF job = "topo" THEN <<"tsb", 0>> ELSE <<"guc", 0>>
Apt(f) == f.to \in Router /\ (Fwd!Sort(f) \in {"guc", "tsb"} => f.pkt = Payload)

CarriageInv ==
  /\ stage \in {"new", "seeking"} => number = 0
  /\ stage = "seeking" => job = "unicast"
  /\ \A f \in frames : Apt(f)
  /\ seen = [n \in Router |-> seen[n]] /\ delivered \in [Router -> Nat]
  /\ \A n \in Router :
       "forget" \notin trouble =>
         delivered[n] = 0 \/ (delivered[n] = 1 /\ Payload \in seen[n])

LEMMA Network ==
  /\ {Source, Dest} \subseteq Router
  /\ Links \in [Router -> SUBSET Router] /\ MaxHops \in Nat \ {0}
BY ForwardingAssumption DEF Fwd!NetworkAssumption

LEMMA SentApt ==
  ASSUME NEW n \in Router, NEW pkt, NEW r, NEW pos, NEW f \in Fwd!Frames(n, pkt, r, pos)
  PROVE  f.to \in Router /\ f.pkt = pkt
BY Network DEF Fwd!Frames

LEMMA OnwardApt ==
  ASSUME NEW f, Apt(f), NEW pos, NEW next \in Fwd!OnwardOrNot(f, pos), NEW g \in next
  PROVE  Apt(g)
<1>1. g \in Fwd!Frames(f.to, f.pkt, f.rhl - 1, pos)
  BY DEF Fwd!OnwardOrNot, Fwd!Onward
<1>2. g.to \in Router /\ g.pkt = f.pkt
  BY <1>1, SentApt DEF Apt
<1> QED BY <1>2 DEF Apt, Fwd!Sort

(* A handler that takes a packet, and perhaps delivers it.                 *)
LEMMA Accepting ==
  ASSUME CarriageInv, NEW f \in frames, NEW next, \A g \in next : Apt(g),
         Fwd!Accept(f, next),
         stage' = "sent" \/ UNCHANGED <<stage, number>>,
         \/ UNCHANGED delivered
         \/ f.pkt = Payload /\ delivered' = Fwd!Delivered(f.to)
  PROVE  CarriageInv'
<1>1. /\ f.to \in Router /\ f.pkt \notin seen[f.to]
      /\ seen' = [seen EXCEPT ![f.to] = @ \cup {f.pkt}]
      /\ frames' = (frames \ {f}) \cup next /\ job' = job /\ trouble' = trouble
      /\ Payload' = Payload
  BY DEF Fwd!Accept, Fwd!Elsewhere, CarriageInv, Apt, Payload
<1>2. \A g \in frames' : Apt(g)'
  BY <1>1 DEF CarriageInv, Apt, Fwd!Sort
<1>3. seen' = [n \in Router |-> seen'[n]] /\ \A n \in Router : seen[n] \subseteq seen'[n]
  BY <1>1 DEF CarriageInv
<1>4. delivered' \in [Router -> Nat]
  BY <1>1 DEF CarriageInv, Fwd!Delivered
<1>5. ASSUME NEW n \in Router, "forget" \notin trouble
      PROVE  delivered'[n] = 0 \/ (delivered'[n] = 1 /\ Payload \in seen'[n])
  <2>1. delivered[n] = 0 \/ (delivered[n] = 1 /\ Payload \in seen[n])
    BY <1>5 DEF CarriageInv
  <2>2. CASE delivered'[n] = delivered[n]
    BY <1>3, <2>1, <2>2
  <2>3. CASE n = f.to /\ f.pkt = Payload /\ delivered' = Fwd!Delivered(f.to)
    <3>1. delivered[n] = 0
      BY <1>1, <2>1, <2>3
    <3>2. delivered'[n] = 1 /\ Payload \in seen'[n]
      BY <1>1, <2>3, <3>1 DEF CarriageInv, Fwd!Delivered
    <3> QED BY <3>2
  <2> QED BY <2>2, <2>3 DEF CarriageInv, Fwd!Delivered
<1> QED BY <1>1, <1>2, <1>3, <1>4, <1>5 DEF CarriageInv

LEMMA ReceiveCarriage ==
  ASSUME CarriageInv, NEW f \in frames, Fwd!Receive(f)
  PROVE  CarriageInv'
<1>0. Apt(f)
  BY DEF CarriageInv
<1>1. CASE Fwd!ReceiveKnown(f)
  BY <1>1 DEF Fwd!ReceiveKnown, Fwd!Elsewhere, CarriageInv, Apt, Payload
<1>2. CASE Fwd!ReceiveLsRequest(f)
  <2>1. UNCHANGED <<stage, number, delivered>>
    BY <1>2 DEF Fwd!ReceiveLsRequest
  <2>2. ASSUME NEW next \in Fwd!Replies(f), Fwd!Accept(f, next)
        PROVE  CarriageInv'
    <3>1. ASSUME NEW g \in next PROVE Apt(g)
      <4>1. g \in Fwd!Frames(Dest, <<"rep", f.pkt[2]>>, MaxHops, moved)
        BY <3>1 DEF Fwd!Replies
      <4>2. g.to \in Router /\ g.pkt = <<"rep", f.pkt[2]>>
        BY <4>1, SentApt, Network
      <4> QED BY <4>2 DEF Apt, Fwd!Sort
    <3> QED BY <2>1, <2>2, <3>1, Accepting
  <2>3. ASSUME NEW next \in Fwd!OnwardOrNot(f, f.pos), Fwd!Accept(f, next)
        PROVE  CarriageInv'
    BY <1>0, <2>1, <2>3, OnwardApt, Accepting
  <2> QED BY <1>2, <2>2, <2>3 DEF Fwd!ReceiveLsRequest
<1>3. CASE Fwd!Answer(f)
  <2>1. /\ stage' = "sent" /\ UNCHANGED delivered /\ number = 0 /\ job = "unicast"
    BY <1>3 DEF Fwd!Answer, Fwd!Flushed, CarriageInv
  <2>2. ASSUME NEW pos, Fwd!Accept(f, Fwd!Frames(Source, <<"guc", number>>, MaxHops, pos))
        PROVE  CarriageInv'
    <3>1. PICK next : next = Fwd!Frames(Source, <<"guc", number>>, MaxHops, pos)
      OBVIOUS
    <3>2. ASSUME NEW g \in next PROVE Apt(g)
      <4>1. g.to \in Router /\ g.pkt = <<"guc", 0>>
        BY <2>1, <3>1, <3>2, SentApt, Network
      <4> QED BY <2>1, <4>1 DEF Apt, Payload
    <3>3. Fwd!Accept(f, next)
      BY <2>2, <3>1
    <3> QED BY <2>1, <3>2, <3>3, Accepting
  <2>3. CASE Fwd!Accept(f, {})
    BY <2>1, <2>3, Accepting
  <2> QED BY <1>3, <2>2, <2>3 DEF Fwd!Answer
<1>4. CASE Fwd!ReceiveLsReply(f)
  <2>1. UNCHANGED <<stage, number, delivered>>
    BY <1>4 DEF Fwd!ReceiveLsReply
  <2>2. ASSUME NEW next, next = {} \/ next \in Fwd!OnwardOrNot(f, f.pos), Fwd!Accept(f, next)
        PROVE  CarriageInv'
    BY <1>0, <2>1, <2>2, OnwardApt, Accepting
  <2> QED BY <1>4, <2>2 DEF Fwd!ReceiveLsReply
<1>5. CASE Fwd!ReceiveUnicast(f)
  <2>1. UNCHANGED <<stage, number>> /\ f.pkt = Payload
    BY <1>0, <1>5 DEF Fwd!ReceiveUnicast, Apt
  <2>2. CASE f.to = Dest /\ Fwd!Accept(f, {}) /\ delivered' = Fwd!Delivered(Dest)
    BY <2>1, <2>2, Accepting
  <2>3. ASSUME NEW pos, NEW next, next = {} \/ next \in Fwd!OnwardOrNot(f, pos),
               Fwd!Accept(f, next), UNCHANGED delivered
        PROVE  CarriageInv'
    BY <1>0, <2>1, <2>3, OnwardApt, Accepting
  <2> QED BY <1>5, <2>2, <2>3 DEF Fwd!ReceiveUnicast
<1>6. CASE Fwd!ReceiveTopo(f)
  <2>1. UNCHANGED <<stage, number>> /\ f.pkt = Payload /\ delivered' = Fwd!Delivered(f.to)
    BY <1>0, <1>6 DEF Fwd!ReceiveTopo, Apt
  <2>2. ASSUME NEW next, next = {} \/ next \in Fwd!OnwardOrNot(f, f.pos), Fwd!Accept(f, next)
        PROVE  CarriageInv'
    BY <1>0, <2>1, <2>2, OnwardApt, Accepting
  <2> QED BY <1>6, <2>2 DEF Fwd!ReceiveTopo
<1> QED BY <1>1, <1>2, <1>3, <1>4, <1>5, <1>6 DEF Fwd!Receive

LEMMA NextCarriage == CarriageInv /\ [Fwd!Next]_fwdVars => CarriageInv'
<1> SUFFICES ASSUME CarriageInv, [Fwd!Next]_fwdVars PROVE CarriageInv'
  OBVIOUS
<1>1. ASSUME NEW pkt, pkt[1] = "req" \/ pkt = Payload, NEW next, NEW r, NEW pos,
             next = Fwd!Frames(Source, pkt, r, pos), frames' = frames \cup next,
             UNCHANGED <<job, trouble, number, seen, delivered>>,
             stage' = "seeking" => job = "unicast" /\ stage \in {"new", "seeking"},
             stage' # "new"
      PROVE  CarriageInv'
  <2>1. Payload' = Payload
    BY <1>1 DEF Payload
  <2>2. ASSUME NEW g \in next PROVE Apt(g)
    <3>1. g.to \in Router /\ g.pkt = pkt
      BY <1>1, <2>2, SentApt, Network
    <3> QED BY <1>1, <3>1 DEF Apt, Fwd!Sort
  <2>3. \A g \in frames' : Apt(g)'
    BY <1>1, <2>1, <2>2 DEF CarriageInv, Apt, Fwd!Sort
  <2> QED BY <1>1, <2>1, <2>3 DEF CarriageInv
<1>2. CASE Fwd!Request
  <2>1. /\ frames' = frames \cup Fwd!Frames(Source, <<"req", 0>>, MaxHops, 0)
        /\ stage' = "seeking" /\ job = "unicast" /\ stage = "new"
        /\ UNCHANGED <<job, trouble, number, seen, delivered>>
    BY <1>2 DEF Fwd!Request, Fwd!Elsewhere
  <2>2. <<"req", 0>>[1] = "req"
    OBVIOUS
  <2> QED BY <1>1, <2>1, <2>2
<1>3. CASE Fwd!Retransmit
  <2>1. stage = "seeking" /\ UNCHANGED <<job, trouble, number, seen, delivered>>
    BY <1>3 DEF Fwd!Retransmit, Fwd!Elsewhere
  <2>2. CASE stage' = "abandoned" /\ UNCHANGED frames
    BY <2>1, <2>2 DEF CarriageInv, Apt, Payload
  <2>3. CASE /\ frames' = frames \cup Fwd!Frames(Source, <<"req", tries + 1>>, MaxHops, 0)
             /\ UNCHANGED stage
    <3>1. <<"req", tries + 1>>[1] = "req" /\ job = "unicast"
      BY <2>1 DEF CarriageInv
    <3> QED BY <1>1, <2>1, <2>3, <3>1
  <2> QED BY <1>3, <2>2, <2>3 DEF Fwd!Retransmit
<1>4. CASE Fwd!Topo
  <2>1. /\ frames' = frames \cup Fwd!Frames(Source, <<"tsb", 0>>, MaxHops, 0)
        /\ stage' = "sent" /\ <<"tsb", 0>> = Payload
        /\ UNCHANGED <<job, trouble, number, seen, delivered>>
    BY <1>4 DEF Fwd!Topo, Fwd!Elsewhere, Payload
  <2> QED BY <1>1, <2>1
<1>5. ASSUME NEW f \in frames, Fwd!Receive(f) PROVE CarriageInv'
  BY <1>5, ReceiveCarriage
<1>6. ASSUME NEW f \in frames, Fwd!Lose(f) PROVE CarriageInv'
  BY <1>6 DEF Fwd!Lose, CarriageInv, Apt, Payload
<1>7. CASE Fwd!Move \/ UNCHANGED fwdVars
  BY <1>7 DEF Fwd!Move, fwdVars, CarriageInv, Apt, Payload
<1>8. ASSUME NEW n \in Router, Fwd!Forget(n) PROVE CarriageInv'
  <2>1. /\ "forget" \in trouble /\ seen' = [m \in Router |-> seen'[m]]
        /\ UNCHANGED <<job, trouble, stage, number, frames, delivered>>
    BY <1>8 DEF Fwd!Forget, CarriageInv
  <2> QED BY <2>1 DEF CarriageInv, Apt, Payload
<1> QED BY <1>2, <1>3, <1>4, <1>5, <1>6, <1>7, <1>8 DEF Fwd!Next

(* However often a search is repeated and answered, and whatever its       *)
(* frames do, the packet that waited for it is delivered once at most, and *)
(* so is a broadcast, in every network (check_duplicate_sn, the flush in   *)
(* gn_data_indicate_ls_reply).                                             *)
THEOREM AlwaysArrivesOnce == Fwd!Spec => []ArrivesOnce
<1>1. Fwd!Init => CarriageInv
  <2> SUFFICES ASSUME Fwd!Init
               PROVE  CarriageInv
    OBVIOUS
  <2>1. /\ stage = "new" /\ number = 0 /\ frames = {}
        /\ seen = [n \in Router |-> {}] /\ delivered = [n \in Router |-> 0]
    BY DEF Fwd!Init
  <2> QED BY <2>1 DEF CarriageInv
<1>2. CarriageInv => ArrivesOnce
  BY DEF CarriageInv, ArrivesOnce, Fwd!ArrivesOnce
<1> QED BY <1>1, <1>2, NextCarriage, PTL DEF Fwd!Spec, Fwd!vars, fwdVars
-----------------------------------------------------------------------------
(* The frames of PacketForwarding.                                         *)

LEMMA Sizes == LsRetrans \in Nat /\ MaxHops \in Nat /\ 0 < MaxHops
BY ForwardingAssumption DEF Fwd!NetworkAssumption

LEMMA SentFit ==
  ASSUME NEW n \in Router, NEW pkt \in Fwd!Packet, NEW r \in 1..MaxHops, NEW pos \in {0, 1}
  PROVE  Fwd!Frames(n, pkt, r, pos) \subseteq Fwd!Frame
<1> SUFFICES ASSUME NEW m \in Links[n]
             PROVE  [from |-> n, to |-> m, pkt |-> pkt, rhl |-> r, pos |-> pos] \in Fwd!Frame
  BY DEF Fwd!Frames
<1>1. m \in Router
  BY Network
<1> QED BY <1>1 DEF Fwd!Frame

LEMMA OnwardFit ==
  ASSUME NEW f \in Fwd!Frame, NEW pos \in {0, 1}, NEW next \in Fwd!OnwardOrNot(f, pos)
  PROVE  next \subseteq Fwd!Frame
<1>1. f.to \in Router /\ f.pkt \in Fwd!Packet /\ f.rhl \in 1..MaxHops
  BY DEF Fwd!Frame
<1>2. CASE f.rhl > 1
  <2>1. f.rhl - 1 \in 1..MaxHops
    BY <1>1, <1>2, Sizes
  <2>2. Fwd!Frames(f.to, f.pkt, f.rhl - 1, pos) \subseteq Fwd!Frame
    BY <1>1, <2>1, SentFit
  <2> QED BY <1>2, <2>2 DEF Fwd!OnwardOrNot, Fwd!Onward
<1>3. CASE ~(f.rhl > 1)
  BY <1>3 DEF Fwd!OnwardOrNot, Fwd!Onward
<1> QED BY <1>2, <1>3

(* The packets: a request has the number of its repetition, a reply that   *)
(* of the request it answers.                                              *)
LEMMA PacketsFit ==
  /\ \A k \in 0..LsRetrans : <<"req", k>> \in Fwd!Packet /\ <<"rep", k>> \in Fwd!Packet
  /\ \A k \in {0, 1} : <<"guc", k>> \in Fwd!Packet
  /\ <<"tsb", 0>> \in Fwd!Packet
  /\ \A pkt \in Fwd!Packet : pkt[1] = "req" => pkt[2] \in 0..LsRetrans
BY DEF Fwd!Packet

LEMMA ViewsFit ==
  ASSUME Fwd!TypeOK, NEW n, NEW view \in Fwd!Views(n), NEW pos \in {0, 1}
  PROVE  Fwd!Refreshed(view, pos) \in {0, 1}
<1>1. moved \in {0, 1} /\ 0..moved \subseteq {0, 1}
  BY DEF Fwd!TypeOK
<1>2. view.pos \in {0, 1}
  BY <1>1 DEF Fwd!Views
<1> QED BY <1>2 DEF Fwd!Refreshed

LEMMA AcceptFit ==
  ASSUME Fwd!TypeOK, NEW f \in frames, NEW next \in SUBSET Fwd!Frame, Fwd!Accept(f, next),
         stage' \in {stage, "sent"}, number' \in 0..2,
         delivered' \in {delivered, Fwd!Delivered(f.to)}
  PROVE  Fwd!TypeOK'
<1>1. f.to \in Router /\ f.pkt \in Fwd!Packet
  BY DEF Fwd!TypeOK, Fwd!Frame
<1>2. /\ seen' = [seen EXCEPT ![f.to] = @ \cup {f.pkt}] /\ frames' = (frames \ {f}) \cup next
      /\ UNCHANGED <<moved, tries, lost>>
  BY DEF Fwd!Accept, Fwd!Elsewhere
<1>3. seen' \in [Router -> SUBSET Fwd!Packet]
  BY <1>1, <1>2 DEF Fwd!TypeOK
<1>4. delivered' \in [Router -> 0..2]
  <2>1. delivered \in [Router -> 0..2]
    BY DEF Fwd!TypeOK
  <2>2. delivered[f.to] \in 0..2
    BY <1>1, <2>1
  <2>3. (IF delivered[f.to] = 2 THEN 2 ELSE delivered[f.to] + 1) \in 0..2
    BY <2>2
  <2> QED BY <2>1, <2>3 DEF Fwd!Delivered
<1>5. frames' \subseteq Fwd!Frame
  BY <1>2 DEF Fwd!TypeOK
<1> QED BY <1>2, <1>3, <1>4, <1>5 DEF Fwd!TypeOK

LEMMA ReceiveFit ==
  ASSUME Fwd!TypeOK, NEW f \in frames, Fwd!Receive(f)
  PROVE  Fwd!TypeOK'
<1>0. /\ f \in Fwd!Frame /\ f.to \in Router /\ f.pkt \in Fwd!Packet /\ f.pos \in {0, 1}
      /\ number \in 0..2 /\ moved \in {0, 1} /\ {} \in SUBSET Fwd!Frame
  BY DEF Fwd!TypeOK, Fwd!Frame
<1>1. CASE Fwd!ReceiveKnown(f)
  BY <1>1 DEF Fwd!ReceiveKnown, Fwd!Elsewhere, Fwd!TypeOK
<1>2. ASSUME UNCHANGED number, stage' \in {stage, "sent"},
             delivered' \in {delivered, Fwd!Delivered(f.to)},
             NEW pos \in {0, 1}, NEW next, next = {} \/ next \in Fwd!OnwardOrNot(f, pos),
             Fwd!Accept(f, next)
      PROVE  Fwd!TypeOK'
  <2>1. next \in SUBSET Fwd!Frame
    BY <1>0, <1>2, OnwardFit
  <2> QED BY <1>0, <1>2, <2>1, AcceptFit
<1>3. CASE Fwd!ReceiveLsRequest(f)
  <2>1. UNCHANGED <<stage, number, delivered>>
    BY <1>3 DEF Fwd!ReceiveLsRequest
  <2>2. ASSUME NEW next \in Fwd!Replies(f), Fwd!Accept(f, next)
        PROVE  Fwd!TypeOK'
    <3>1. f.pkt[2] \in 0..LsRetrans
      BY <1>0, <1>3, PacketsFit DEF Fwd!ReceiveLsRequest, Fwd!Sort
    <3>2. MaxHops \in 1..MaxHops
      BY Sizes
    <3>3. Fwd!Frames(Dest, <<"rep", f.pkt[2]>>, MaxHops, moved) \in SUBSET Fwd!Frame
      BY <1>0, <3>1, <3>2, PacketsFit, SentFit, Network
    <3>4. next \in SUBSET Fwd!Frame
      BY <3>3 DEF Fwd!Replies
    <3> QED BY <1>0, <2>1, <2>2, <3>4, AcceptFit
  <2>3. ASSUME NEW next \in Fwd!OnwardOrNot(f, f.pos), Fwd!Accept(f, next)
        PROVE  Fwd!TypeOK'
    BY <1>0, <1>2, <2>1, <2>3
  <2> QED BY <1>3, <2>2, <2>3 DEF Fwd!ReceiveLsRequest
<1>4. CASE Fwd!Answer(f)
  <2>1. stage' = "sent" /\ UNCHANGED delivered
    BY <1>4 DEF Fwd!Answer, Fwd!Flushed
  <2>2. ASSUME NEW pos \in {0, 1}, number < 2, number' = number + 1,
               Fwd!Accept(f, Fwd!Frames(Source, <<"guc", number>>, MaxHops, pos))
        PROVE  Fwd!TypeOK'
    <3>1. PICK next : next = Fwd!Frames(Source, <<"guc", number>>, MaxHops, pos)
      OBVIOUS
    <3>2. number \in {0, 1} /\ MaxHops \in 1..MaxHops /\ number' \in 0..2
      BY <1>0, <2>2, Sizes
    <3>3. next \in SUBSET Fwd!Frame
      BY <3>1, <3>2, PacketsFit, SentFit, Network
    <3>4. Fwd!Accept(f, next)
      BY <2>2, <3>1
    <3> QED BY <2>1, <3>2, <3>3, <3>4, AcceptFit
  <2>3. CASE Fwd!Accept(f, {}) /\ UNCHANGED number
    BY <1>0, <2>1, <2>3, AcceptFit
  <2>4. \A view \in Fwd!Views(Source) : Fwd!Refreshed(view, f.pos) \in {0, 1}
    BY <1>0, ViewsFit
  <2> QED BY <1>4, <2>2, <2>3, <2>4 DEF Fwd!Answer
<1>5. CASE Fwd!ReceiveLsReply(f)
  <2>1. UNCHANGED <<stage, number, delivered>>
    BY <1>5 DEF Fwd!ReceiveLsReply
  <2>2. ASSUME NEW next, next = {} \/ next \in Fwd!OnwardOrNot(f, f.pos), Fwd!Accept(f, next)
        PROVE  Fwd!TypeOK'
    BY <1>0, <1>2, <2>1, <2>2
  <2> QED BY <1>5, <2>2 DEF Fwd!ReceiveLsReply
<1>6. CASE Fwd!ReceiveUnicast(f)
  <2>1. UNCHANGED <<stage, number>>
    BY <1>6 DEF Fwd!ReceiveUnicast
  <2>2. CASE f.to = Dest /\ Fwd!Accept(f, {}) /\ delivered' = Fwd!Delivered(Dest)
    BY <1>0, <2>1, <2>2, AcceptFit
  <2>3. ASSUME NEW pos \in {0, 1}, NEW next, next = {} \/ next \in Fwd!OnwardOrNot(f, pos),
               Fwd!Accept(f, next), UNCHANGED delivered
        PROVE  Fwd!TypeOK'
    BY <1>2, <2>1, <2>3
  <2>4. \A view \in Fwd!Views(f.to) : Fwd!Refreshed(view, f.pos) \in {0, 1}
    BY <1>0, ViewsFit
  <2> QED BY <1>6, <2>2, <2>3, <2>4 DEF Fwd!ReceiveUnicast
<1>7. CASE Fwd!ReceiveTopo(f)
  <2>1. UNCHANGED <<stage, number>> /\ delivered' = Fwd!Delivered(f.to)
    BY <1>7 DEF Fwd!ReceiveTopo
  <2>2. ASSUME NEW next, next = {} \/ next \in Fwd!OnwardOrNot(f, f.pos), Fwd!Accept(f, next)
        PROVE  Fwd!TypeOK'
    BY <1>0, <1>2, <2>1, <2>2
  <2> QED BY <1>7, <2>2 DEF Fwd!ReceiveTopo
<1> QED BY <1>1, <1>3, <1>4, <1>5, <1>6, <1>7 DEF Fwd!Receive

LEMMA NextFits == Fwd!TypeOK /\ [Fwd!Next]_fwdVars => Fwd!TypeOK'
<1> SUFFICES ASSUME Fwd!TypeOK, [Fwd!Next]_fwdVars PROVE Fwd!TypeOK'
  OBVIOUS
<1>0. MaxHops \in 1..MaxHops /\ LsRetrans \in Nat /\ tries \in 0..LsRetrans /\ lost \in Nat
  BY Sizes DEF Fwd!TypeOK
<1>1. ASSUME NEW pkt \in Fwd!Packet, frames' = frames \cup Fwd!Frames(Source, pkt, MaxHops, 0),
             stage' \in {stage, "seeking", "sent"}, tries' \in 0..LsRetrans,
             UNCHANGED <<moved, lost, number, seen, delivered>>
      PROVE  Fwd!TypeOK'
  <2>1. Fwd!Frames(Source, pkt, MaxHops, 0) \subseteq Fwd!Frame
    BY <1>0, SentFit, Network
  <2> QED BY <1>1, <2>1 DEF Fwd!TypeOK
<1>2. CASE Fwd!Request
  <2>1. /\ frames' = frames \cup Fwd!Frames(Source, <<"req", 0>>, MaxHops, 0)
        /\ stage' = "seeking"
        /\ UNCHANGED <<tries, moved, lost, number, seen, delivered>>
    BY <1>2 DEF Fwd!Request, Fwd!Elsewhere
  <2>2. 0 \in 0..LsRetrans /\ tries' \in 0..LsRetrans
    BY <1>0, <2>1
  <2>3. <<"req", 0>> \in Fwd!Packet
    BY <2>2, PacketsFit
  <2> QED BY <1>1, <2>1, <2>2, <2>3
<1>3. CASE Fwd!Retransmit
  <2>1. UNCHANGED <<moved, lost, number, seen, delivered>>
    BY <1>3 DEF Fwd!Retransmit, Fwd!Elsewhere
  <2>2. CASE stage' = "abandoned" /\ UNCHANGED <<tries, frames>>
    BY <2>1, <2>2 DEF Fwd!TypeOK
  <2>3. CASE /\ ~(tries >= LsRetrans) /\ tries' = tries + 1 /\ UNCHANGED stage
             /\ frames' = frames \cup Fwd!Frames(Source, <<"req", tries + 1>>, MaxHops, 0)
    <3>1. tries + 1 \in 0..LsRetrans
      BY <1>0, <2>3
    <3> QED BY <1>1, <2>1, <2>3, <3>1, PacketsFit
  <2> QED BY <1>3, <2>2, <2>3 DEF Fwd!Retransmit, Fwd!GivesUp
<1>4. CASE Fwd!Topo
  BY <1>0, <1>1, <1>4, PacketsFit DEF Fwd!Topo, Fwd!Elsewhere
<1>5. ASSUME NEW f \in frames, Fwd!Receive(f) PROVE Fwd!TypeOK'
  BY <1>5, ReceiveFit
<1>6. ASSUME NEW f \in frames, Fwd!Lose(f) PROVE Fwd!TypeOK'
  BY <1>0, <1>6 DEF Fwd!Lose, Fwd!TypeOK
<1>7. CASE Fwd!Move \/ UNCHANGED fwdVars
  BY <1>7 DEF Fwd!Move, fwdVars, Fwd!TypeOK
<1>8. ASSUME NEW n \in Router, Fwd!Forget(n) PROVE Fwd!TypeOK'
  BY <1>8 DEF Fwd!Forget, Fwd!TypeOK
<1> QED BY <1>2, <1>3, <1>4, <1>5, <1>6, <1>7, <1>8 DEF Fwd!Next

(* Whatever is repeated, answered, forwarded and late, no frame is sent    *)
(* with a hop limit of 0 or above the first one, no request with a number  *)
(* beyond the retransmissions, and the state keeps its shape, in every     *)
(* network (gn_data_indicate_ls_request, gn_data_indicate_guc,             *)
(* _ls_retransmit).                                                        *)
THEOREM FramesFit == Fwd!Spec => []Fwd!TypeOK
<1>1. Fwd!Init => Fwd!TypeOK
  <2> SUFFICES ASSUME Fwd!Init PROVE Fwd!TypeOK
    OBVIOUS
  <2>1. /\ stage = "new" /\ tries = 0 /\ number = 0 /\ moved = 0 /\ lost = 0 /\ frames = {}
        /\ seen = [n \in Router |-> {}] /\ delivered = [n \in Router |-> 0]
    BY DEF Fwd!Init
  <2> QED BY <2>1, Sizes DEF Fwd!TypeOK
<1> QED BY <1>1, NextFits, PTL DEF Fwd!Spec, Fwd!vars, fwdVars
=============================================================================

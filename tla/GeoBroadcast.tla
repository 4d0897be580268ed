---------------------------- MODULE GeoBroadcast ----------------------------
(***************************************************************************)
(* One GeoBroadcast or GeoAnycast packet on its way through a network of   *)
(* routers (src/src/flexstack/geonet/router.py): the source, the           *)
(* duplicate check, delivery inside the area, the choice of a forwarding   *)
(* algorithm, contention-based forwarding with its timers, and greedy      *)
(* forwarding towards the area.                                            *)
(*                                                                         *)
(* The link layer always broadcasts; a frame reaches each station in range *)
(* on its own, at any time and in any order, or is lost.  Stations stand   *)
(* still.  What a station knows of its neighbours comes and goes with      *)
(* their beacons and is left open.                                         *)
(***************************************************************************)
EXTENDS Integers, FiniteSets

CONSTANTS
  Node,        \* the stations
  Source,      \* the station whose application requests the transmission
  Reach,       \* Reach[n]: the stations in radio range of n
  Hops,        \* Hops[n]: a lower bound of the hops from the source to n
  Distance,    \* Distance[n]: from station n to the centre of the area
  Radius,      \* extent of the area
  MaxHops,     \* remaining hop limit at the source
  Kind,        \* "GBC" or "GAC"
  Algorithm,   \* Algorithm[n]: itsGnAreaForwardingAlgorithm, "CBF" or "SIMPLE"
  Scf,         \* store-carry-forward flag of the traffic class
  CanLose,     \* whether frames may be lost
  CanRefuse,   \* whether area size or data rate may forbid forwarding
  CanForget    \* whether a duplicate packet list may lose the packet

ASSUME NetworkAssumption ==
  /\ Source \in Node
  /\ Reach \in [Node -> SUBSET Node] /\ \A n \in Node : n \notin Reach[n]
  /\ Hops \in [Node -> Nat] /\ Hops[Source] = 0
  /\ \A n \in Node : \A m \in Reach[n] : Hops[m] <= Hops[n] + 1
  /\ Distance \in [Node -> Nat] /\ Radius \in Nat /\ MaxHops \in Nat \ {0}
ASSUME KindAssumption ==
  /\ Kind \in {"GBC", "GAC"} /\ Algorithm \in [Node -> {"CBF", "SIMPLE"}]
  /\ {Scf, CanLose, CanRefuse, CanForget} \subseteq BOOLEAN

VARIABLES
  requested,  \* whether the application has asked for the packet
  air,        \* frames on their way: [from, to, rhl]
  heard,      \* stations whose location table knows the packet
  buffer,     \* buffer[n]: the timer _cbf_buffer holds for the packet, or 0
  timers,     \* timers[n]: [id, rhl, phase], the timers not yet finished
  indicated,  \* history: stations that have delivered the packet, or twice
  sent        \* history: frames sent by a station, counted up to 2

vars == <<requested, air, heard, buffer, timers, indicated, sent>>

Phase == {"waiting", "elapsed"}
Frame == [from : Node, to : Node, rhl : 1..MaxHops]

Init ==
  /\ requested = FALSE
  /\ air = {}
  /\ heard = {}
  /\ buffer = [n \in Node |-> 0]
  /\ timers = [n \in Node |-> {}]
  /\ indicated = [n \in Node |-> 0]
  /\ sent = [n \in Node |-> 0]

-----------------------------------------------------------------------------
(* gn_geometric_function_f >= 0                                            *)
Inside(n) == Distance[n] <= Radius

Frames(n, r) == {[from |-> n, to |-> m, rhl |-> r] : m \in Reach[n]}

AtMostTwo(k) == IF k > 2 THEN 2 ELSE k

(* Slip: the hop limit goes out as it came in.                             *)
Unchanged(rhl) == rhl
(* Slip: it is reduced by the check and again by the forwarding.           *)
DecrementedTwice(rhl) == rhl - 2
(* basic_header.set_rhl(basic_header.rhl - 1)                              *)
Decremented(rhl) == rhl - 1

(* new_rhl > 0; a hop limit is never 0 on arrival, so that the test of GAC *)
(* for 0 is the same one.                                                  *)
HopsLeft(rhl) == Decremented(rhl) > 0

(* Slip: with no neighbour nearer to the area any packet waits.            *)
GreedyOnlyNearer(n, known) == \E m \in known : Distance[m] < Distance[n]
(* gn_greedy_forwarding: a neighbour nearer to the area, or a packet that  *)
(* may not wait.                                                           *)
Greedy(n, known) ==
  \/ \E m \in known : Distance[m] < Distance[n]
  \/ ~Scf

(* gn_forwarding_algorithm_selection; positioned tells whether the table   *)
(* has the position of the sender.                                         *)
Selection(n, sender, positioned) ==
  IF Inside(n) THEN "area"
  ELSE IF positioned /\ Inside(sender) THEN "discard" ELSE "nonarea"

(* Whether a station outside the area sends the packet at once.            *)
SendsNonArea(n, known, positioned) ==
  /\ Selection(n, Source, positioned) = "nonarea"
  /\ Greedy(n, known)

(* gn_data_forward_gbc: no neighbour and SCF sends as well.                *)
GbcSendsNow(n, known, positioned) ==
  \/ known = {} /\ Scf
  \/ Inside(n) /\ Algorithm[n] = "SIMPLE"
  \/ SendsNonArea(n, known, positioned)
GbcBuffers(n, known) ==
  ~(known = {} /\ Scf) /\ Inside(n) /\ Algorithm[n] = "CBF"

(* gn_data_indicate_gac: inside, the packet stops; with no neighbour it    *)
(* waits for one that never comes.                                         *)
GacSendsNow(n, known, positioned) ==
  /\ ~Inside(n)
  /\ ~(known = {} /\ Scf)
  /\ SendsNonArea(n, known, positioned)

SendsNow(n, known, positioned) ==
  CASE Kind = "GBC" -> GbcSendsNow(n, known, positioned)
    [] Kind = "GAC" -> GacSendsNow(n, known, positioned)

-----------------------------------------------------------------------------
(* gn_data_request_gbc, and gn_data_request_gac which calls it.  The       *)
(* buffer for packets without a neighbour is a stub that drops them; an    *)
(* area above itsGnMaxGeoAreaSize is refused.                              *)
Request ==
  /\ ~requested
  /\ requested' = TRUE
  /\ \/ CanRefuse /\ UNCHANGED <<air, sent>>
     \/ \E known \in SUBSET Reach[Source] :
          LET goes == /\ ~(known = {} /\ Scf)
                      /\ Inside(Source) \/ Greedy(Source, known)
          IN IF goes
             THEN /\ air' = Frames(Source, MaxHops)
                  /\ sent' = [sent EXCEPT ![Source] = 1]
             ELSE UNCHANGED <<air, sent>>
  /\ UNCHANGED <<heard, buffer, timers, indicated>>

(* duplicate_address_detection: the source drops its own packet.           *)
ReceiveOwn(f) ==
  /\ f.to = Source
  /\ air' = air \ {f}
  /\ UNCHANGED <<requested, heard, buffer, timers, indicated, sent>>

(* Slip: a duplicate goes on to the contention buffer.                     *)
KnownUnbuffered(n) == n \in heard /\ buffer[n] = 0
(* check_duplicate_sn                                                      *)
Known(n) == n \in heard

(* The packet is in the duplicate packet list: it is dropped before        *)
(* anything is forwarded, delivered or taken out of the buffer.            *)
ReceiveDuplicate(f) ==
  /\ f.to # Source /\ Known(f.to)
  /\ air' = air \ {f}
  /\ UNCHANGED <<requested, heard, buffer, timers, indicated, sent>>

(* What every new packet does: the table learns it, and inside the area    *)
(* the application gets it.                                                *)
Accept(n) ==
  /\ n # Source /\ ~Known(n)
  /\ heard' = heard \cup {n}
  /\ indicated' = IF Inside(n)
                  THEN [indicated EXCEPT ![n] = AtMostTwo(@ + 1)]
                  ELSE indicated
  /\ UNCHANGED <<requested>>

(* The key of the packet leaves _cbf_buffer.                               *)
BufferCleared(n) == [buffer EXCEPT ![n] = 0]

(* gn_area_cbf_forwarding, a key that is not in the buffer: it is entered  *)
(* with a new timer.                                                       *)
FreeId(n) == CHOOSE i \in 1..(Cardinality(timers[n]) + 1) :
               \A t \in timers[n] : t.id # i
CbfStart(n, r) ==
  /\ buffer[n] = 0
  /\ buffer' = [buffer EXCEPT ![n] = FreeId(n)]
  /\ timers' = [timers EXCEPT ![n] =
       @ \cup {[id |-> FreeId(n), rhl |-> r, phase |-> "waiting"]}]

(* Timer.cancel stops a timer that is waiting, not one that has elapsed.   *)
Cancelled(n) ==
  {t \in timers[n] : ~(t.id = buffer[n] /\ t.phase = "waiting")}

(* gn_area_cbf_forwarding, a key that is there already.                    *)
CbfSuppress(n) ==
  /\ buffer[n] # 0
  /\ buffer' = BufferCleared(n)
  /\ timers' = [timers EXCEPT ![n] = Cancelled(n)]

(* gn_data_indicate_gbc and gn_data_indicate_gac: a new packet, forwarded  *)
(* at once ...                                                             *)
ReceiveAndSend(f) ==
  /\ Accept(f.to)
  /\ HopsLeft(f.rhl)
  /\ \E known \in SUBSET Reach[f.to], positioned \in BOOLEAN :
       SendsNow(f.to, known, positioned)
  /\ air' = (air \ {f}) \cup Frames(f.to, Decremented(f.rhl))
  /\ sent' = [sent EXCEPT ![f.to] = AtMostTwo(@ + 1)]
  /\ UNCHANGED <<buffer, timers>>

(* ... left to contend for the channel, or taken out of the contention ... *)
ReceiveAndBuffer(f) ==
  /\ Accept(f.to)
  /\ Kind = "GBC"
  /\ HopsLeft(f.rhl)
  /\ \E known \in SUBSET Reach[f.to] : GbcBuffers(f.to, known)
  /\ CbfStart(f.to, Decremented(f.rhl)) \/ CbfSuppress(f.to)
  /\ air' = air \ {f}
  /\ UNCHANGED sent

(* ... or not forwarded: its last hop, too large an area or too high a     *)
(* rate, an anycast at its goal, no progress, or a source in the area.     *)
ReceiveAndStop(f) ==
  /\ Accept(f.to)
  /\ \/ ~HopsLeft(f.rhl)
     \/ CanRefuse
     \/ \E known \in SUBSET Reach[f.to], positioned \in BOOLEAN :
          /\ ~SendsNow(f.to, known, positioned)
          /\ Kind = "GBC" => ~GbcBuffers(f.to, known)
  /\ air' = air \ {f}
  /\ UNCHANGED <<buffer, timers, sent>>

Receive(f) ==
  \/ ReceiveOwn(f) \/ ReceiveDuplicate(f)
  \/ ReceiveAndSend(f) \/ ReceiveAndBuffer(f) \/ ReceiveAndStop(f)

Lose(f) ==
  /\ CanLose
  /\ air' = air \ {f}
  /\ UNCHANGED <<requested, heard, buffer, timers, indicated, sent>>

(* A timer elapses: its thread goes for _cbf_lock.                         *)
Elapse(n, t) ==
  /\ t.phase = "waiting"
  /\ timers' = [timers EXCEPT ![n] =
       (@ \ {t}) \cup {[t EXCEPT !.phase = "elapsed"]}]
  /\ UNCHANGED <<requested, air, heard, buffer, indicated, sent>>

(* _cbf_timeout: the key counts, not the timer it was entered with.        *)
CbfTimeout(n, t) ==
  /\ t.phase = "elapsed"
  /\ timers' = [timers EXCEPT ![n] = @ \ {t}]
  /\ IF buffer[n] # 0
     THEN /\ buffer' = BufferCleared(n)
          /\ air' = air \cup Frames(n, t.rhl)
          /\ sent' = [sent EXCEPT ![n] = AtMostTwo(@ + 1)]
     ELSE UNCHANGED <<buffer, air, sent>>
  /\ UNCHANGED <<requested, heard, indicated>>

(* The entry of the source expires or is dropped by refresh_table, or the  *)
(* packet leaves the list after itsGnDPLLength others.                     *)
Forget(n) ==
  /\ CanForget
  /\ n \in heard
  /\ heard' = heard \ {n}
  /\ UNCHANGED <<requested, air, buffer, timers, indicated, sent>>

Next ==
  \/ Request
  \/ \E f \in air : Receive(f) \/ Lose(f)
  \/ \E n \in Node : \/ \E t \in timers[n] : Elapse(n, t) \/ CbfTimeout(n, t)
                     \/ Forget(n)

Spec == Init /\ [][Next]_vars

(* Frames arrive, timers elapse and their threads run; the application     *)
(* asks.                                                                   *)
FairSpec ==
  /\ Spec
  /\ WF_vars(Request)
  /\ \A n \in Node : WF_vars(\E f \in air : f.to = n /\ Receive(f))
  /\ \A n \in Node : WF_vars(\E t \in timers[n] : Elapse(n, t) \/ CbfTimeout(n, t))

-----------------------------------------------------------------------------
(* The shape of the state.                                                 *)
TypeOK ==
  /\ requested \in BOOLEAN
  /\ air \subseteq Frame
  /\ heard \subseteq Node \ {Source}
  /\ buffer \in [Node -> Nat]
  /\ timers \in [Node -> SUBSET [id : Nat, rhl : 1..MaxHops, phase : Phase]]
  /\ indicated \in [Node -> 0..2] /\ sent \in [Node -> 0..2]

(* While the duplicate packet lists remember the packet, every station     *)
(* sends it at most once and delivers it at most once, whatever the frames *)
(* and timers do (check_duplicate_sn with gn_area_cbf_forwarding).         *)
ForwardsOnce == \A n \in Node : sent[n] <= 1 /\ indicated[n] <= 1

(* The hop limit of a frame tells how far the packet may have come, so     *)
(* that no station more than MaxHops away hears of it                      *)
(* (set_rhl in gn_data_forward_gbc).                                       *)
HopsBounded ==
  /\ \A f \in air : Hops[f.from] + f.rhl <= MaxHops
  /\ \A n \in heard : Hops[n] <= MaxHops

(* A packet in the contention buffer has a timer that will take it out,    *)
(* cancelled and late timers included (_cbf_buffer, _cbf_timeout).         *)
BufferedHasTimer ==
  \A n \in Node : buffer[n] # 0 => \E t \in timers[n] : t.id = buffer[n]

(* Without losses the packet reaches every station inside the area         *)
(* (gn_data_forward_gbc).                                                  *)
FloodReaches ==
  \A n \in Node \ {Source} : Inside(n) => <>(indicated[n] > 0)

(* Without losses a packet sent from outside reaches some station inside   *)
(* (gn_data_indicate_gac, gn_greedy_forwarding).                           *)
AnycastArrives == <>(\E n \in Node : Inside(n) /\ indicated[n] > 0)

(* The broadcast dies out, even if stations forget what they have heard    *)
(* (the hop limit).                                                        *)
StormDiesOut == <>[](air = {} /\ \A n \in Node : timers[n] = {})
=============================================================================

-------------------------- MODULE PacketForwarding --------------------------
(***************************************************************************)
(* A unicast packet on its way to a station that its source has to look    *)
(* for first, and a topologically scoped broadcast, through a network of   *)
(* routers (src/src/flexstack/geonet/router.py): the LS request that is    *)
(* flooded and repeated, the LS reply that is flooded back, the packet     *)
(* that was waiting for it, and greedy forwarding towards a station that   *)
(* moves.                                                                  *)
(*                                                                         *)
(* What the threads of one router do to each other during a lookup is in   *)
(* LocationService; here a handler is one step.  The link layer always     *)
(* broadcasts, replies and unicast packets too.                            *)
(***************************************************************************)
EXTENDS Integers, FiniteSets

CONSTANTS
  Node,        \* the stations
  Source,      \* the station whose application sends
  Dest,        \* the station that it sends to
  Reach,       \* Reach[n]: the stations in radio range of n
  Place,       \* Place[n]: where n is, on a line
  Later,       \* where Dest is when it has moved
  MaxHops,     \* itsGnDefaultHopLimit
  MaxRetrans,  \* itsGnLocationServiceMaxRetrans
  Scf,         \* store-carry-forward flag of the traffic class
  Scenarios    \* what is sent, and what goes wrong: see below

(* "lookup": MaxRetrans frames of the lookup are lost.  "loss": any frames *)
(* are.  "move": the destination moves.  "unaware": stations miss beacons  *)
(* of their neighbours.  "late": the retransmission timer is faster than   *)
(* the answer.  "refuse": a station does not forward, because the source   *)
(* sends too much.  "forget": entries of location tables expire.           *)
Trouble == {"lookup", "loss", "move", "unaware", "late", "refuse", "forget"}
ScenarioAssumption ==
  Scenarios \subseteq [job : {"unicast", "topo"}, trouble : SUBSET Trouble]
NetworkAssumption ==
  /\ {Source, Dest} \subseteq Node /\ Source # Dest
  /\ Reach \in [Node -> SUBSET Node] /\ \A n \in Node : n \notin Reach[n]
  /\ Place \in [Node -> Int] /\ Later \in Int
  /\ MaxHops \in Nat \ {0} /\ MaxRetrans \in Nat /\ Scf \in BOOLEAN

VARIABLES
  job, trouble, \* the scenario
  stage,        \* of the request: "new", "seeking", "sent", "abandoned"
  tries,        \* _ls_retransmit_counters
  sent,         \* unicast packets sent by the source, which number them
  moved,        \* which position of Dest is the current one, 0 or 1
  air,          \* frames on their way
  seen,         \* seen[n]: the packets in the duplicate packet lists of n
  delivered,    \* history: delivered[n], how often n got the data, up to 2
  lost          \* frames lost, under "lookup"

vars == <<job, trouble, stage, tries, sent, moved, air, seen, delivered, lost>>

(* The packets and their source and number.                                *)
Packet == ({"req", "rep"} \X (0..MaxRetrans)) \cup ({"guc"} \X {0, 1}) \cup {<<"tsb", 0>>}
Sort(f) == f.pkt[1]
Origin(pkt) == IF pkt[1] = "rep" THEN Dest ELSE Source
(* pos is the position of Dest that the packet tells of.                   *)
Frame == [from : Node, to : Node, pkt : Packet, rhl : 1..MaxHops, pos : {0, 1}]

Init ==
  /\ \E sc \in Scenarios : job = sc.job /\ trouble = sc.trouble
  /\ stage = "new" /\ tries = 0 /\ sent = 0 /\ moved = 0
  /\ air = {}
  /\ seen = [n \in Node |-> {}]
  /\ delivered = [n \in Node |-> 0]
  /\ lost = 0

-----------------------------------------------------------------------------
(* The frames to the station that the packet comes from are left out: it   *)
(* drops them (duplicate_address_detection).                               *)
Frames(n, pkt, r, pos) ==
  {[from |-> n, to |-> m, pkt |-> pkt, rhl |-> r, pos |-> pos] :
     m \in Reach[n] \ {Origin(pkt)}}

(* A station's neighbours and the position it has of Dest.                 *)
Views(n) ==
  IF "unaware" \in trouble
  THEN [near : SUBSET Reach[n], pos : 0..moved]
  ELSE {[near |-> Reach[n], pos |-> moved]}

Position(n, pos) == IF n = Dest /\ pos = 1 THEN Later ELSE Place[n]
DistanceM(n, m, view, pos) ==
  LET far == Position(n, view.pos) - Position(m, pos) IN IF far < 0 THEN -far ELSE far

(* Slip: the position in the packet is never corrected.                    *)
NeverRefreshed(view, pos) == pos
(* The destination is a neighbour, and the table has a newer position.     *)
Refreshed(view, pos) ==
  IF Dest \in view.near /\ view.pos > pos THEN view.pos ELSE pos

(* gn_greedy_forwarding towards position pos of Dest, and before it the    *)
(* packet without a neighbour that may wait: both are kept for ever.       *)
Greedy(n, view, pos) ==
  \/ \E m \in view.near :
       DistanceM(m, Dest, view, pos) < DistanceM(n, Dest, view, pos)
  \/ ~Scf

(* A request for a location, and what waits for it, is kept.               *)
Elsewhere == UNCHANGED <<job, trouble, moved, lost>>

(* gn_data_request_guc for a station that is not in the table:             *)
(* gn_ls_request keeps the request and floods an LS request.               *)
Request ==
  /\ job = "unicast" /\ stage = "new"
  /\ stage' = "seeking"
  /\ air' = air \cup Frames(Source, <<"req", 0>>, MaxHops, 0)
  /\ Elsewhere /\ UNCHANGED <<tries, sent, seen, delivered>>

GivesUp == tries >= MaxRetrans

(* _ls_retransmit: after all that the request has set off, or, late, when  *)
(* the answer is still on its way.                                         *)
Retransmit ==
  /\ stage = "seeking"
  /\ \A f \in air : Sort(f) = "rep" /\ "late" \in trouble
  /\ IF GivesUp
     THEN stage' = "abandoned" /\ UNCHANGED <<tries, air>>
     ELSE /\ tries' = tries + 1
          /\ air' = air \cup Frames(Source, <<"req", tries + 1>>, MaxHops, 0)
          /\ UNCHANGED stage
  /\ Elsewhere /\ UNCHANGED <<sent, seen, delivered>>

(* A TSB packet.  GNDataRequest refuses it (gn_data_request): it comes     *)
(* from a station of another make.                                         *)
Topo ==
  /\ job = "topo" /\ stage = "new"
  /\ stage' = "sent"
  /\ air' = air \cup Frames(Source, <<"tsb", 0>>, MaxHops, 0)
  /\ Elsewhere /\ UNCHANGED <<tries, sent, seen, delivered>>

-----------------------------------------------------------------------------
(* A frame arrives.                                                        *)

(* check_duplicate_sn: it is dropped.                                      *)
ReceiveKnown(f) ==
  /\ f.pkt \in seen[f.to]
  /\ air' = air \ {f}
  /\ Elsewhere /\ UNCHANGED <<stage, tries, sent, seen, delivered>>

(* The location table learns the packet, and the frame gives way to others.*)
Accept(f, next) ==
  /\ f.pkt \notin seen[f.to]
  /\ seen' = [seen EXCEPT ![f.to] = @ \cup {f.pkt}]
  /\ air' = (air \ {f}) \cup next
  /\ Elsewhere /\ UNCHANGED tries

(* A packet is sent on, unless it was its last hop.                        *)
Onward(f, pos) ==
  IF f.rhl > 1 THEN Frames(f.to, f.pkt, f.rhl - 1, pos) ELSE {}
(* The data rate of the source may forbid it.                              *)
OnwardOrNot(f, pos) ==
  {Onward(f, pos)} \cup (IF "refuse" \in trouble THEN {{}} ELSE {})

(* The destination answers, unless the entry of the source is gone again.  *)
Replies(f) ==
  {Frames(Dest, <<"rep", f.pkt[2]>>, MaxHops, moved)}
    \cup (IF "forget" \in trouble THEN {{}} ELSE {})

(* gn_data_indicate_ls_request                                             *)
ReceiveLsRequest(f) ==
  /\ Sort(f) = "req"
  /\ IF f.to = Dest
     THEN \E next \in Replies(f) : Accept(f, next)
     ELSE \E next \in OnwardOrNot(f, f.pos) : Accept(f, next)
  /\ UNCHANGED <<stage, sent, delivered>>

(* Slip: the buffer is not emptied.                                        *)
FlushedAgain == "seeking"
Flushed == "sent"

(* gn_data_indicate_ls_reply, at the source, whose buffer holds the        *)
(* request: gn_data_request_guc, which sends it or drops it.               *)
Answer(f) ==
  /\ Sort(f) = "rep" /\ f.to = Source /\ stage = "seeking"
  /\ stage' = Flushed
  /\ \E view \in Views(Source) :
       LET pos == Refreshed(view, f.pos)
       IN IF Greedy(Source, view, pos) /\ sent < 2
          THEN /\ Accept(f, Frames(Source, <<"guc", sent>>, MaxHops, pos))
               /\ sent' = sent + 1
          ELSE Accept(f, {}) /\ UNCHANGED sent
  /\ UNCHANGED delivered

(* At the source, with nothing left to send, or at another station.        *)
ReceiveLsReply(f) ==
  /\ Sort(f) = "rep"
  /\ f.to = Source => stage # "seeking"
  /\ IF f.to = Source
     THEN Accept(f, {})
     ELSE \E next \in OnwardOrNot(f, f.pos) : Accept(f, next)
  /\ UNCHANGED <<stage, sent, delivered>>

Delivered(n) ==
  [delivered EXCEPT ![n] = IF @ = 2 THEN 2 ELSE @ + 1]

(* gn_data_indicate_guc                                                    *)
ReceiveUnicast(f) ==
  /\ Sort(f) = "guc"
  /\ IF f.to = Dest
     THEN Accept(f, {}) /\ delivered' = Delivered(Dest)
     ELSE /\ \E view \in Views(f.to) :
               LET pos == Refreshed(view, f.pos)
               IN \E next \in IF Greedy(f.to, view, pos) THEN OnwardOrNot(f, pos)
                                                          ELSE {{}} : Accept(f, next)
          /\ UNCHANGED delivered
  /\ UNCHANGED <<stage, sent>>

(* No neighbours: it is kept for ever.                                     *)
Waits(view) == view.near = {} /\ Scf

(* gn_data_indicate_tsb                                                    *)
ReceiveTopo(f) ==
  /\ Sort(f) = "tsb"
  /\ \E view \in Views(f.to) :
       \E next \in IF Waits(view) THEN {{}} ELSE OnwardOrNot(f, f.pos) :
         Accept(f, next)
  /\ delivered' = Delivered(f.to)
  /\ UNCHANGED <<stage, sent>>

Receive(f) ==
  \/ ReceiveKnown(f) \/ ReceiveLsRequest(f) \/ Answer(f) \/ ReceiveLsReply(f)
  \/ ReceiveUnicast(f) \/ ReceiveTopo(f)

-----------------------------------------------------------------------------
(* What happens around the routers.                                        *)

Lose(f) ==
  /\ \/ "loss" \in trouble
     \/ "lookup" \in trouble /\ Sort(f) \in {"req", "rep"} /\ lost < MaxRetrans
  /\ air' = air \ {f}
  /\ lost' = IF "loss" \in trouble THEN lost ELSE lost + 1
  /\ UNCHANGED <<job, trouble, stage, tries, sent, moved, seen, delivered>>

Move ==
  /\ "move" \in trouble /\ moved = 0
  /\ moved' = 1
  /\ UNCHANGED <<job, trouble, stage, tries, sent, air, seen, delivered, lost>>

(* The entry of the source of a packet expires, with its list.             *)
Forget(n) ==
  /\ "forget" \in trouble
  /\ \E p \in seen[n] : seen' = [seen EXCEPT ![n] = @ \ {p}]
  /\ UNCHANGED <<job, trouble, stage, tries, sent, moved, air, delivered, lost>>

Next ==
  \/ Request \/ Retransmit \/ Topo \/ Move
  \/ \E f \in air : Receive(f) \/ Lose(f)
  \/ \E n \in Node : Forget(n)

Spec == Init /\ [][Next]_vars

(* The application sends, and the receive thread of every station and the  *)
(* timer's go on.                                                          *)
FairSpec ==
  /\ Spec
  /\ WF_vars(Request \/ Topo) /\ WF_vars(Retransmit)
  /\ \A n \in Node : WF_vars(\E f \in air : f.to = n /\ Receive(f))

-----------------------------------------------------------------------------
(* The shape of the state.                                                 *)
TypeOK ==
  /\ stage \in {"new", "seeking", "sent", "abandoned"}
  /\ tries \in 0..MaxRetrans /\ sent \in 0..2 /\ moved \in {0, 1}
  /\ air \subseteq Frame
  /\ seen \in [Node -> SUBSET Packet]
  /\ delivered \in [Node -> 0..2] /\ lost \in Nat

(* However often a lookup is repeated and answered, and however late, what *)
(* waited for it arrives no more than once, as a broadcast does            *)
(* (check_duplicate_sn, the flush in gn_data_indicate_ls_reply); the lists *)
(* must not forget.                                                        *)
ArrivesOnce ==
  "forget" \notin trouble => \A n \in Node : delivered[n] <= 1

(* A unicast packet gets to its destination although that one has to be    *)
(* looked for, moves, and MaxRetrans frames of the lookup are lost         *)
(* (_ls_retransmit, step 8 of gn_data_indicate_guc).                       *)
UnicastArrives ==
  job = "unicast" /\ trouble \subseteq {"lookup", "move"}
    => <>(delivered[Dest] > 0)

(* Without losses a TSB packet gets to every station (gn_data_indicate_tsb)*)
TopoReaches ==
  job = "topo" /\ trouble = {} => \A n \in Node \ {Source} : <>(delivered[n] > 0)

(* Floods die out, even among stations that forget what they have heard    *)
(* (the hop limit), and the search for a station ends (_ls_retransmit).    *)
FloodsEnd == <>[](air = {} /\ stage # "seeking")
=============================================================================

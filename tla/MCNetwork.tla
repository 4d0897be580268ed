------------------------------ MODULE MCNetwork -----------------------------
(***************************************************************************)
(* Small networks for TLC in which nothing is lost but what can be made    *)
(* good: a behaviour is one of a broadcast, of an anycast that is sent     *)
(* from outside its area (GeoBroadcast), of a unicast or topologically     *)
(* scoped packet (PacketForwarding), or of the threads of one station that *)
(* looks for another (LocationService).                                    *)
(***************************************************************************)
EXTENDS MCGeoBroadcast, NetworkServices

CONSTANTS
  r1, r2, t1, t2, t3, t4, t5, t6, NoTimer, Rx

VARIABLES
  part, \* "broadcast", "anycast", "forward" or "lookup"
  position, lsPending, lsBuffer, counter, lsTimer, timer, sought, started, pc, rx,
  flush, packets, lsSent, omitted, abandoned

Any == INSTANCE GeoBroadcast WITH
  Kind <- "GAC", Distance <- SourceFar, Radius <- 1, Algorithm <- Contending

(* A lollipop.          s --- a --- b                                      *)
(*                             \   /                                       *)
(*                               c                                         *)
Lollipop == [n \in Four |->
  CASE n = s -> {a} [] n = a -> {s, b, c} [] n = b -> {a, c} [] n = c -> {a, b}]
Places == [n \in Four |-> CASE n = s -> 0 [] n \in {a, b} -> 2 [] n = c -> 3]

(* Two requests for one station; the second has store-carry-forward.       *)
Requests == {r1, r2}
LsTimers == {t1, t2, t3, t4, t5, t6}
Ls == INSTANCE LocationService WITH
  Addr <- {a}, Request <- Requests, dest <- [r \in Requests |-> a], Scf <- {r2},
  Timer <- LsTimers, MaxRetrans <- LsRetrans, MaxPackets <- 1,
  HeardMayExpire <- TRUE, PromptStore <- TRUE, buffer <- lsBuffer, sent <- lsSent

(* What goes wrong in the scenarios, together.                             *)
Unicast(t) == [job |-> "unicast", trouble |-> t]
Topo(t) == [job |-> "topo", trouble |-> t]
Scenes ==
  {Unicast({"lookup", "move"}), Unicast({"move", "unaware"}), Unicast({"refuse"}),
   Unicast({"late"}), Topo({}), Topo({"unaware"}), Topo({"loss", "refuse", "forget"})}

lsVars == <<position, lsPending, lsBuffer, counter, lsTimer, timer, sought, started, pc,
            rx, flush, packets, lsSent, omitted, abandoned>>
allVars == <<vars, part, fwdVars, lsVars>>

PartInit ==
  /\ Init /\ Fwd!Init /\ Ls!Init
  /\ part \in {"broadcast", "anycast", "forward", "lookup"}
  /\ part # "forward" => trouble = {} /\ job = "topo"

PartNext ==
  /\ \/ part = "broadcast" /\ Next /\ UNCHANGED <<fwdVars, lsVars>>
     \/ part = "anycast" /\ Any!Next /\ UNCHANGED <<fwdVars, lsVars>>
     \/ part = "forward" /\ Fwd!Next /\ UNCHANGED <<vars, lsVars>>
     \/ part = "lookup" /\ Ls!Next /\ UNCHANGED <<vars, fwdVars>>
  /\ UNCHANGED part

Sends ==
  \/ part = "broadcast" /\ Request
  \/ part = "anycast" /\ Any!Request
Hears(n) == \E f \in air :
  \/ part = "broadcast" /\ f.to = n /\ Receive(f)
  \/ part = "anycast" /\ f.to = n /\ Any!Receive(f)
Timers(n) == \E t \in timers[n] :
  \/ part = "broadcast" /\ (Elapse(n, t) \/ CbfTimeout(n, t))
  \/ part = "anycast" /\ (Any!Elapse(n, t) \/ Any!CbfTimeout(n, t))

(* The fairness of the modules.                                            *)
PartSpec ==
  /\ PartInit /\ [][PartNext]_allVars
  /\ WF_vars(Sends)
  /\ \A n \in Node : WF_vars(Hears(n)) /\ WF_vars(Timers(n))
  /\ WF_fwdVars(part = "forward" /\ (Fwd!Request \/ Fwd!Topo))
  /\ WF_fwdVars(part = "forward" /\ Fwd!Retransmit)
  /\ \A n \in Four : WF_fwdVars(
       part = "forward" /\ \E f \in frames : f.to = n /\ Fwd!Receive(f))
  /\ \A th \in Requests \cup {Rx} : WF_lsVars(part = "lookup" /\ Ls!RequestNext(th))
  /\ \A t \in LsTimers : WF_lsVars(part = "lookup" /\ Ls!TimerNext(t))
  /\ WF_lsVars(part = "lookup" /\ Ls!ReceiverNext)

-----------------------------------------------------------------------------
(* FloodReaches of GeoBroadcast (gn_data_forward_gbc) and TopoReaches of   *)
(* PacketForwarding (gn_data_indicate_tsb).                                *)
BroadcastsReach ==
  /\ part = "broadcast" => FloodReaches
  /\ part = "forward" => Fwd!TopoReaches

(* AnycastArrives of GeoBroadcast (gn_data_indicate_gac,                   *)
(* gn_greedy_forwarding).                                                  *)
AnycastReaches == part = "anycast" => Any!AnycastArrives

(* UnicastArrives of PacketForwarding (_ls_retransmit,                     *)
(* gn_data_indicate_guc).                                                  *)
UnicastArrives == part = "forward" => Fwd!UnicastArrives

(* RequestSettles of LocationService (gn_ls_request, _ls_retransmit,       *)
(* gn_data_indicate_ls_reply).                                             *)
LookupSettles == part = "lookup" => Ls!RequestSettles

(* FloodsEnd of PacketForwarding (set_rhl, _ls_retransmit) and             *)
(* TimersDieOut of LocationService (_ls_retransmit).                       *)
SilenceReturns ==
  /\ part = "forward" => Fwd!FloodsEnd
  /\ part = "lookup" => Ls!TimersDieOut
=============================================================================

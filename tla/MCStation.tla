------------------------------ MODULE MCStation -----------------------------
(***************************************************************************)
(* Small instances, for TLC, of what the threads of a station do on their  *)
(* own: a behaviour is one of the CAM service, or of one of the services   *)
(* below.                                                                  *)
(***************************************************************************)
EXTENDS StationServices

CONSTANTS t1, t2, t3, t4

VARIABLES
  part, \* "cam", "den", "vam", "map", "reception", "beacon" or "congestion"
  way, store, nextId, providers, consumers, subs, checked, collectDue, attendDue, at,
  snap, todo, drop, target, read, told, bye

ldmVars == <<way, store, nextId, providers, consumers, subs, checked, collectDue,
             attendDue, at, snap, todo, drop, target, read, told, bye>>

(* A packet that arrives, and others that each fail in one way.            *)
Good == [nh |-> "common", verified |-> TRUE, sound |-> TRUE, ht |-> "data",
         handler |-> "pass", btp |-> TRUE, port |-> TRUE, app |-> "returns"]
Packets ==
  {Good, [Good EXCEPT !.nh = "secured"], [Good EXCEPT !.ht = "any"],
   [Good EXCEPT !.app = "raises"]}

(* A Local Dynamic Map with threads of its own.  In the second way only    *)
(* the caller collects: a record stays when no other one is added.         *)
Threads == [maintenance |-> "Thread", service |-> "Thread", callers |-> {App}]
Mixture == [maintenance |-> "Reactive", service |-> "Thread", callers |-> {App}]
Ldm == INSTANCE LdmService WITH
  Caller <- {App}, Keeper <- t1, Server <- t2, Provider <- {1}, Consumer <- {2},
  Sub <- {t3}, Owner <- [x \in {t3} |-> 2], Notify <- [x \in {t3} |-> 1],
  Many <- [x \in {t3} |-> 1], Filtered <- {}, Valid <- 0, MaxId <- 1, MaxSubs <- 1,
  Stall <- 1, None <- Never, Ways <- {Threads, Mixture}, last <- checked

-----------------------------------------------------------------------------
(* A part that does not run stays in one of its initial states.            *)
PartInit ==
  /\ part \in {"cam", "den", "vam", "map", "reception", "beacon", "congestion"}
  /\ Init /\ Den!Init /\ Vam!Init /\ Ldm!Init /\ Rx!Init /\ Bcn!Init /\ Dcc!Init
  /\ part # "vam" => now = 0 /\ ~passive
  /\ part # "map" => way = Threads
  /\ part # "reception" => ~cv2x /\ ~security
  /\ part # "beacon" => punctual
  /\ part # "congestion" => slower = 1

CamNext == part = "cam" /\ Next
DenNext == part = "den" /\ Den!Next
VamNext == part = "vam" /\ Vam!Next
LdmNext == part = "map" /\ Ldm!Next
RxNext == part = "reception" /\ Rx!Next
BcnNext == part = "beacon" /\ Bcn!Next
DccNext == part = "congestion" /\ Dcc!Next
PartNext ==
  /\ \/ CamNext /\ UNCHANGED <<denVars, vamVars, ldmVars, rxVars, beaconVars, dccVars>>
     \/ DenNext /\ UNCHANGED <<vars, vamVars, ldmVars, rxVars, beaconVars, dccVars>>
     \/ VamNext /\ UNCHANGED <<vars, denVars, ldmVars, rxVars, beaconVars, dccVars>>
     \/ LdmNext /\ UNCHANGED <<vars, denVars, vamVars, rxVars, beaconVars, dccVars>>
     \/ RxNext /\ UNCHANGED <<vars, denVars, vamVars, ldmVars, beaconVars, dccVars>>
     \/ BcnNext /\ UNCHANGED <<vars, denVars, vamVars, ldmVars, rxVars, dccVars>>
     \/ DccNext /\ UNCHANGED <<vars, denVars, vamVars, ldmVars, rxVars, beaconVars>>
  /\ UNCHANGED part

(* The fairness of the modules.                                            *)
PartSpec ==
  /\ PartInit /\ [][PartNext]_<<vars, part, denVars, vamVars, ldmVars, rxVars, beaconVars, dccVars>>
  /\ WF_vars(part = "cam" /\ Tick) /\ WF_vars(part = "cam" /\ AppNext)
  /\ \A t \in Timer : WF_vars(part = "cam" /\ TimerNext(t))
  /\ WF_denVars(part = "den" /\ Den!AppNext)
  /\ \A e \in 1..Events : WF_denVars(part = "den" /\ Den!ThreadNext(e))
  /\ WF_ldmVars(part = "map" /\ Ldm!Second)
  /\ WF_ldmVars(part = "map" /\ (Ldm!WakeKeeper \/ Ldm!Step(t1)))
  /\ WF_ldmVars(part = "map" /\ (Ldm!WakeServer \/ Ldm!Step(t2)))
  /\ WF_rxVars(part = "reception" /\ (Rx!StopJoin \/ Rx!StopPut \/ Rx!StopWait))
  /\ WF_rxVars(part = "reception" /\ (Rx!Check \/ Rx!TakeNothing \/ Rx!Leave))
  /\ WF_rxVars(part = "reception" /\ Rx!Feed)
  /\ WF_rxVars(part = "reception" /\ Rx!FeedSentinel)
  /\ WF_rxVars(part = "reception" /\ Rx!Handle)

-----------------------------------------------------------------------------
(* CamsKeepComing of CamTransmission (_check_cam_conditions).              *)
CamsGoOn == part = "cam" => CamsKeepComing

(* Announced of DenService (trigger_denm_messages).                        *)
Announced == part = "den" => Den!Announced

(* Cleaned of LdmService (_auto_purge_loop, collect_trash).                *)
MapCleaned == part = "map" => Ldm!Cleaned

(* Served of LdmService (subscriptions_service_thread).                    *)
MapServed == part = "map" => Ldm!Served

(* StopReturns of PacketReception (PythonCV2XLinkLayer.stop).              *)
StopReturns == part = "reception" => Rx!StopReturns

(* StopStops of PacketReception: "Stops the receive process, callback      *)
(* thread, and cleans up resources" (PythonCV2XLinkLayer.stop).            *)
StopStops == part = "reception" => Rx!StopStops
=============================================================================

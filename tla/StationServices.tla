-------------------------- MODULE StationServices --------------------------
(***************************************************************************)
(* The services of one station besides the CAM service, which this module  *)
(* extends: DEN service, VAM transmission, reception, beacons, congestion  *)
(* control.  Each keeps its own variables; what a service promises is      *)
(* stated here under one name, for every value of its constants.           *)
(***************************************************************************)
EXTENDS CamTransmission

CONSTANTS
  Events, Period, Interval,             \* DenService
  Wrap, GenVam, LfMin, Gap, MaxAge,     \* VamTransmission
  Packet, PipeSize, Received, None,     \* PacketReception
  Retransmit, Jitter, Punctual, MaxRefused, \* BeaconService
  OnTimes, Slower, MinGap, MaxGap       \* CongestionControl

VARIABLES
  app, tpv, position, denPc, spent, denm, sent,
  now, last, vamLfAge, alive, passive, operation, posAge, vamTxAge, vamTxLfAge, silent,
  cv2x, security, main, frozen, stopping, process, buffer, sentinel, pipe, handler,
  taken, handled,
  punctual, beacon, timeout, waited, reset, shb, quiet, refused,
  band, state, slower, since, interval, steady, gap

denVars == <<app, tpv, position, denPc, spent, denm, sent>>
vamVars == <<now, last, vamLfAge, alive, passive, operation, posAge, vamTxAge,
             vamTxLfAge, silent>>
rxVars == <<cv2x, security, main, frozen, stopping, process, buffer, sentinel, pipe,
            handler, taken, handled>>
beaconVars == <<punctual, beacon, timeout, waited, reset, shb, quiet, refused>>
dccVars == <<band, state, slower, since, interval, steady, gap>>

Den == INSTANCE DenService WITH pc <- denPc
Vam == INSTANCE VamTransmission WITH
  lfAge <- vamLfAge, txAge <- vamTxAge, txLfAge <- vamTxLfAge, wait <- silent
Rx == INSTANCE PacketReception
Bcn == INSTANCE BeaconService
Dcc == INSTANCE CongestionControl

ASSUME ServicesAssumption ==
  /\ Den!EventAssumption /\ Vam!PeriodAssumption /\ Rx!PacketAssumption
  /\ Bcn!BeaconAssumption /\ Dcc!GateAssumption

-----------------------------------------------------------------------------
(* The shape of the state of the CAM service and of the others: TypeOK of  *)
(* each.                                                                   *)
ServicesTyped ==
  /\ TypeOK /\ Den!TypeOK /\ Vam!TypeOK
  /\ Rx!TypeOK /\ Bcn!TypeOK /\ Dcc!TypeOK

(* NeverOlder of DenService (trigger_denm_sending).                        *)
NeverOlder == Den!NeverOlder

(* OwnPosition of DenService (event_position of DENRequest).               *)
OwnPosition == Den!OwnPosition

(* VamsInTime of VamTransmission (location_service_callback).              *)
VamsInTime == Vam!VamsInTime

(* LfInTime of VamTransmission (_attach_lf_container_if_due).              *)
LfInTime == Vam!LfInTime

(* HandledBeforeStop of PacketReception (PythonCV2XLinkLayer.stop).        *)
HandledBeforeStop == Rx!HandledBeforeStop

(* NeverSilent of BeaconService (beacon_service_thread).                   *)
NeverSilent == Bcn!NeverSilent

(* NotRedundant of BeaconService (beacon_service_thread).                  *)
NotRedundant == Bcn!NotRedundant

(* Settles and GateKept of CongestionControl (DccReactive, GateKeeper).    *)
CongestionControlled == Dcc!Settles /\ Dcc!GateKept
=============================================================================

-------------------------- MODULE CongestionControl -------------------------
(***************************************************************************)
(* Decentralised congestion control (src/src/flexstack/management): the    *)
(* states of DccReactive, and the GateKeeper that admits packets while     *)
(* DccAdaptive changes the duty cycle under it.                            *)
(*                                                                         *)
(* A channel busy ratio is the band of the table that it lies in.  The     *)
(* duty cycle comes as delta_max / delta, a power of two, so that the      *)
(* intervals are whole numbers (a part of a tick is under MinGap and       *)
(* rounded up to it); how DccAdaptive.update finds it, by filters over     *)
(* reals, is left out.                                                     *)
(***************************************************************************)
EXTENDS Integers

CONSTANTS
  OnTimes, \* T_on / delta_max of the packets
  Slower,  \* values of delta_max / delta
  MinGap,  \* GATE_OPEN_MIN_INTERVAL_S
  MaxGap,  \* GATE_OPEN_MAX_INTERVAL_S
  Never    \* _t_pg of a gate that no packet has passed

GateAssumption ==
  /\ OnTimes \cup Slower \cup {MinGap, MaxGap} \subseteq Nat \ {0}
  /\ MinGap <= MaxGap /\ Never \notin Int

VARIABLES
  band,     \* band of the last channel busy ratio
  state,    \* DccReactive.state
  slower,   \* delta_max / _delta
  since,    \* t - _t_pg
  interval, \* _t_go - _t_pg
  steady,   \* history: updates of DccReactive since the band changed
  gap       \* history: time between the last two admissions

vars == <<band, state, slower, since, interval, steady, gap>>

(* RELAXED, ACTIVE_1, ACTIVE_2, ACTIVE_3, RESTRICTIVE                      *)
State == 0..4

Init ==
  /\ band = 0 /\ state = 0 /\ steady = 0
  /\ slower \in Slower
  /\ since = Never /\ interval = 0 /\ gap = Never

-----------------------------------------------------------------------------
(* One step towards the target.                                            *)
Step(target) ==
  CASE target > state -> state + 1 [] target < state -> state - 1 [] OTHER -> state

(* DccReactive.update                                                      *)
Update(b) ==
  /\ band' = b
  /\ state' = Step(b)
  /\ steady' = IF b # band THEN 1 ELSE IF steady = 5 THEN 5 ELSE steady + 1
  /\ UNCHANGED <<slower, since, interval, gap>>

Clamp(x) == IF x < MinGap THEN MinGap ELSE IF x > MaxGap THEN MaxGap ELSE x

(* is_open                                                                 *)
IsOpen == since # Never => since >= interval

(* admit_packet                                                            *)
AdmitPacket(on) ==
  /\ IsOpen
  /\ since' = 0 /\ interval' = Clamp(on * slower)
  /\ gap' = since
  /\ UNCHANGED <<band, state, slower, steady>>

(* Slip: the bounds are forgotten.                                         *)
Unclamped(new) == (interval * new) \div slower
(* Equation B.2.                                                           *)
Rescaled(new) == Clamp((interval * new) \div slower)

(* update_delta                                                            *)
UpdateDelta(new) ==
  /\ new # slower /\ slower' = new
  /\ interval' = IF IsOpen THEN interval ELSE Rescaled(new)
  /\ UNCHANGED <<band, state, since, steady, gap>>

Tick ==
  /\ since # Never /\ since < 2 * MaxGap
  /\ since' = since + 1
  /\ UNCHANGED <<band, state, slower, interval, steady, gap>>

Next ==
  \/ Tick
  \/ \E b \in State : Update(b)
  \/ \E on \in OnTimes : AdmitPacket(on)
  \/ \E new \in Slower : UpdateDelta(new)

Spec == Init /\ [][Next]_vars

-----------------------------------------------------------------------------
(* The shape of the state.                                                 *)
TypeOK ==
  /\ {band, state} \subseteq State /\ steady \in 0..5
  /\ slower \in Slower
  /\ {since, gap} \subseteq (0..(2 * MaxGap)) \cup {Never}
  /\ interval \in 0..MaxGap

(* DccReactive reaches the state of the load within four updates, from     *)
(* wherever it was, and stays there (update, one step at a time).          *)
Settles == steady >= 4 => state = band

(* However the duty cycle changes while the gate is closed, and however    *)
(* often, two packets are never admitted within MinGap, and a packet is    *)
(* never refused once MaxGap has passed (admit_packet, update_delta).      *)
GateKept ==
  /\ gap # Never => gap >= MinGap
  /\ since # Never /\ since >= MaxGap => IsOpen
=============================================================================

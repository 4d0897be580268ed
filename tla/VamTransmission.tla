-------------------------- MODULE VamTransmission --------------------------
(***************************************************************************)
(* When a station sends VRU awareness messages: location_service_callback, *)
(* _attach_lf_container_if_due and send_next_vam of                        *)
(* src/src/flexstack/facilities/vru_awareness_service/                     *)
(* vam_transmission_management.py, called by the thread of the location    *)
(* service (src/src/flexstack/utils).                                      *)
(*                                                                         *)
(* What a VAM says of clusters, and the manager that changes while it is   *)
(* built, are in VruCluster; here it is passive or not, and has an         *)
(* operation to announce or not.  Generation times are taken modulo Wrap.  *)
(***************************************************************************)
EXTENDS Integers

CONSTANTS
  Wrap,      \* 65536, of GenerationDeltaTime
  GenVam,    \* t_genvam, T_GENVAMMIN
  LfMin,     \* T_GENVAM_LFMIN
  Gap,       \* positions come no further apart than this
  MaxAge,    \* ages are counted so far
  Never      \* no time

PeriodAssumption ==
  /\ {Wrap, GenVam, LfMin, Gap, MaxAge} \subseteq Nat \ {0}
  /\ GenVam + Gap <= Wrap /\ MaxAge >= LfMin /\ MaxAge >= GenVam + 2 * Gap
  /\ Never \notin Nat

VARIABLES
  now,       \* the time, modulo Wrap
  last,      \* last_vam_generation_delta_time
  lfAge,     \* time since last_lf_vam_time
  alive,     \* the thread of the location service has not ended
  passive,   \* should_transmit_vam is false
  operation, \* get_cluster_operation_container gives one
  posAge,    \* time since the last position
  txAge,     \* history: time since the last VAM was sent
  txLfAge,   \* history: time since one with the low-frequency container was
  wait       \* history: time since then, or since it was passive

vars == <<now, last, lfAge, alive, passive, operation, posAge, txAge, txLfAge, wait>>

Age == (0..MaxAge) \cup {Never}
Older(age) == IF age = Never \/ age = MaxAge THEN age ELSE age + 1

Init ==
  /\ now \in 0..(Wrap - 1)
  /\ last = Never /\ lfAge = Never
  /\ alive = TRUE
  /\ passive \in BOOLEAN /\ operation = FALSE
  /\ posAge = 0
  /\ txAge = Never /\ txLfAge = Never /\ wait = 0

-----------------------------------------------------------------------------
(* Slip: the difference of the remainders.                                 *)
ElapsedUnwrapped == now - last
(* GenerationDeltaTime.__sub__                                             *)
Elapsed == (now - last) % Wrap

(* The first VAM, or T_GenVam after the last one.                          *)
TimeDue == last # Never => Elapsed >= GenVam

(* _attach_lf_container_if_due                                             *)
LfDue == Never \notin {last, lfAge} /\ lfAge < LfMin => operation

(* Slip: every VAM counts.                                                 *)
LfNotedAlways == 0
LfNoted == IF LfDue THEN 0 ELSE lfAge

(* Raised in the callback, it ends the thread that calls it.               *)
Raise ==
  /\ alive' = FALSE
  /\ UNCHANGED <<last, txAge, txLfAge, wait>>

(* send_next_vam: the time of the container is noted first; the Local      *)
(* Dynamic Map, the coder or BTP may raise, or the VAM is sent and its     *)
(* time noted.                                                             *)
SendNextVam ==
  /\ lfAge' = LfNoted
  /\ \/ Raise
     \/ /\ last' = now
        /\ txAge' = 0 /\ wait' = 0
        /\ txLfAge' = IF LfDue THEN 0 ELSE txLfAge
        /\ UNCHANGED alive

(* A position, with a fix or without: then comparing it with the last one  *)
(* raises.  changed tells if position, speed or heading are too far off.   *)
LocationCallback ==
  /\ alive
  /\ posAge' = 0
  /\ \/ ~passive /\ TimeDue /\ SendNextVam
     \/ /\ ~passive /\ ~TimeDue
        /\ \E changed \in BOOLEAN :
             IF changed THEN SendNextVam
             ELSE UNCHANGED <<last, lfAge, alive, txAge, txLfAge, wait>>
     \/ ~passive /\ ~TimeDue /\ Raise /\ UNCHANGED lfAge
     \/ passive /\ UNCHANGED <<last, lfAge, alive, txAge, txLfAge, wait>>
  /\ UNCHANGED <<now, passive, operation>>

(* The clustering manager changes its mind.                                *)
Clustering ==
  /\ passive' \in BOOLEAN /\ operation' \in BOOLEAN
  /\ <<passive', operation'>> # <<passive, operation>>
  /\ wait' = IF passive' THEN 0 ELSE wait
  /\ UNCHANGED <<now, last, lfAge, alive, posAge, txAge, txLfAge>>

(* Positions come in time, as long as there is a thread for them.          *)
Tick ==
  /\ alive => posAge < Gap
  /\ now' = (now + 1) % Wrap
  /\ posAge' = IF alive THEN posAge + 1 ELSE posAge
  /\ lfAge' = Older(lfAge) /\ txAge' = Older(txAge) /\ txLfAge' = Older(txLfAge)
  /\ wait' = IF passive \/ ~alive THEN 0 ELSE Older(wait)
  /\ UNCHANGED <<last, alive, passive, operation>>

Next == LocationCallback \/ Clustering \/ Tick
Spec == Init /\ [][Next]_vars

-----------------------------------------------------------------------------
(* The shape of the state.                                                 *)
TypeOK ==
  /\ now \in 0..(Wrap - 1) /\ last \in (0..(Wrap - 1)) \cup {Never}
  /\ {alive, passive, operation} \subseteq BOOLEAN
  /\ posAge \in 0..Gap
  /\ {lfAge, txAge, txLfAge} \subseteq Age /\ wait \in 0..MaxAge

(* A station that is not passive is never silent for longer than T_GenVam  *)
(* and the two positions before and after it, however long it was passive  *)
(* and whatever the remainders say then (location_service_callback,        *)
(* GenerationDeltaTime).                                                   *)
VamsInTime == wait < GenVam + 2 * Gap

(* No VAM is sent T_GenVamLFMin or more after the last one with the low-   *)
(* frequency container without having it too, although the time of the     *)
(* container is noted before the VAM is sent (_attach_lf_container_if_due).*)
LfInTime ==
  [][txAge' = 0 /\ txLfAge' # 0 => txLfAge # Never /\ txLfAge < LfMin]_vars

=============================================================================

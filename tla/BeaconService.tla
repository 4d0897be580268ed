---------------------------- MODULE BeaconService ---------------------------
(***************************************************************************)
(* Beacons and the single-hop broadcasts that make them unnecessary:       *)
(* beacon_service_thread, gn_data_request_beacon and the end of            *)
(* gn_data_request_shb in src/src/flexstack/geonet/router.py.              *)
(*                                                                         *)
(* A thread may be held up for any time, unless Punctual; the clock of     *)
(* Event.wait is the model's.                                              *)
(***************************************************************************)
EXTENDS Integers

CONSTANTS
  Retransmit, \* itsGnBeaconServiceRetransmitTimer
  Jitter,     \* itsGnBeaconServiceMaxJitter
  Punctual,   \* no time passes while a thread can go on: TRUE, FALSE or both
  MaxRefused  \* bound on the beacons refused one after the other
BeaconAssumption ==
  /\ Retransmit \in Nat \ {0} /\ {Jitter, MaxRefused} \subseteq Nat
  /\ Punctual \subseteq BOOLEAN

VARIABLES
  punctual, \* one of Punctual
  beacon,   \* the thread of the service: "send", "wait", "clear", "ended"
  timeout,  \* of its waits
  waited,   \* how long it has been in this one
  reset,    \* _beacon_reset_event
  shb,      \* a thread that sends packets: "idle", "sent"
  quiet,    \* history: time since the station sent anything
  refused   \* history: beacons that were not sent since then

vars == <<punctual, beacon, timeout, waited, reset, shb, quiet, refused>>

Longest == Retransmit + Jitter
\* Where the history of the time ends.
MaxQuiet == (MaxRefused + 1) * Longest

Init ==
  /\ punctual \in Punctual
  /\ beacon = "send" /\ timeout = Retransmit /\ waited = 0
  /\ reset = FALSE /\ shb = "idle" /\ quiet = 0 /\ refused = 0

-----------------------------------------------------------------------------
(* gn_data_request_beacon: the link layer sends the beacon, or refuses it  *)
(* (PacketTooLongException, SendingException), which nobody is told, or    *)
(* raises an OSError, which ends the thread.  The jitter is drawn for all  *)
(* waits that follow.                                                      *)
StartWait ==
  /\ beacon' = "wait" /\ waited' = 0
  /\ \E j \in 0..Jitter : timeout' = Retransmit + j
  /\ UNCHANGED <<punctual, reset, shb>>

Send == beacon = "send" /\ quiet' = 0 /\ refused' = 0 /\ StartWait

Refuse ==
  /\ beacon = "send" /\ refused < MaxRefused
  /\ refused' = refused + 1
  /\ StartWait
  /\ UNCHANGED quiet

Raise ==
  /\ beacon = "send"
  /\ beacon' = "ended"
  /\ UNCHANGED <<punctual, timeout, waited, reset, shb, quiet, refused>>

TimeOut ==
  /\ beacon = "wait" /\ waited >= timeout /\ ~reset
  /\ beacon' = "send"
  /\ UNCHANGED <<punctual, timeout, waited, reset, shb, quiet, refused>>

(* Slip: if for while.                                                     *)
AfterResetOnce == "send"
AfterReset == "wait"

Wake ==
  /\ beacon = "wait" /\ reset
  /\ beacon' = "clear"
  /\ UNCHANGED <<punctual, timeout, waited, reset, shb, quiet, refused>>

Clear ==
  /\ beacon = "clear"
  /\ beacon' = AfterReset /\ reset' = FALSE /\ waited' = 0
  /\ UNCHANGED <<punctual, timeout, shb, quiet, refused>>

(* gn_data_request_shb, steps 6 and 7: a packet that is not sent does not  *)
(* get there.                                                              *)
ShbSend ==
  /\ shb = "idle"
  /\ shb' = "sent" /\ quiet' = 0 /\ refused' = 0
  /\ UNCHANGED <<punctual, beacon, timeout, waited, reset>>

(* Slip: it resets the timer all the same.                                 *)
RefusedResets == TRUE
Refused == reset

ShbRefused ==
  /\ shb = "idle"
  /\ reset' = Refused
  /\ UNCHANGED <<punctual, beacon, timeout, waited, shb, quiet, refused>>

ShbReset ==
  /\ shb = "sent"
  /\ shb' = "idle" /\ reset' = TRUE
  /\ UNCHANGED <<punctual, beacon, timeout, waited, quiet, refused>>

(* A thread that can go on.                                                *)
Busy ==
  \/ beacon \in {"send", "clear"} \/ shb = "sent"
  \/ beacon = "wait" /\ (reset \/ waited >= timeout)

Tick ==
  /\ punctual => ~Busy
  /\ waited' = IF waited <= Longest THEN waited + 1 ELSE waited
  /\ quiet' = IF quiet <= MaxQuiet THEN quiet + 1 ELSE quiet
  /\ UNCHANGED <<punctual, beacon, timeout, reset, shb, refused>>

Next ==
  \/ Send \/ Refuse \/ Raise
  \/ TimeOut \/ Wake \/ Clear \/ ShbSend \/ ShbRefused \/ ShbReset \/ Tick
Spec == Init /\ [][Next]_vars

-----------------------------------------------------------------------------
(* The shape of the state.                                                 *)
TypeOK ==
  /\ beacon \in {"send", "wait", "clear", "ended"} /\ shb \in {"idle", "sent"}
  /\ timeout \in Retransmit..Longest /\ waited \in 0..(Longest + 1)
  /\ quiet \in 0..(MaxQuiet + 1) /\ refused \in 0..MaxRefused
  /\ {punctual, reset} \subseteq BOOLEAN

(* With punctual threads, a station is never silent for longer than the    *)
(* timer and its jitter, and once more for each beacon that was refused    *)
(* meanwhile; a packet that is refused does not make it silent any longer  *)
(* (beacon_service_thread).                                                *)
NeverSilent == punctual /\ beacon # "ended" => quiet <= (refused + 1) * Longest

(* "no redundant beacon is emitted immediately after an SHB"               *)
(* (beacon_service_thread): however late the threads are, and even if two  *)
(* packets reset the timer once, one is only due when the station has been *)
(* silent for the timer, or when a thread that has just sent is about to   *)
(* reset it.                                                               *)
NotRedundant ==
  [][beacon # "send" /\ beacon' = "send" => quiet >= Retransmit \/ shb = "sent"]_vars
=============================================================================

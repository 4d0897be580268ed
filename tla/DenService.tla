----------------------------- MODULE DenService -----------------------------
(***************************************************************************)
(* The road hazard signalling application and the DEN service              *)
(* (emergency_vehicle_approaching_service.py, service_access_point.py and  *)
(* denm_transmission_management.py under src/src/flexstack): the           *)
(* application triggers one event after the other, and each gets a thread  *)
(* of its own that sends a DENM again and again.                           *)
(*                                                                         *)
(* The position of the event is one dictionary of the application, which   *)
(* every request refers to and the next event overwrites, one value after  *)
(* the other, as far as its tpv has them.  A value is the number of the    *)
(* event that wrote it, 0 before.                                          *)
(***************************************************************************)
EXTENDS Integers, Sequences

CONSTANTS
  Events,     \* the number of events, triggered in order
  Period,     \* time_period of a request
  Interval    \* denm_interval of a request

EventAssumption == {Events, Period, Interval} \subseteq Nat \ {0}

VARIABLES
  app,        \* what the application does, and for which event
  tpv,        \* tpv[e]: the fields that event e is given
  position,   \* event_position
  pc,         \* pc[e]: what the thread of e does
  spent,      \* spent[e]: its transmission_time
  denm,       \* denm[e]: the values it has read for its next DENM
  sent        \* history: sent[e], the DENMs of e, each with what it told

vars == <<app, tpv, position, pc, spent, denm, sent>>

Event == 1..Events
Field == {"latitude", "longitude"}
(* A DENM has the position twice: as it is coded, and as the area to send  *)
(* it to; it takes the four values in this order.                          *)
Reads == <<"latitude", "longitude", "latitude", "longitude">>

Init ==
  /\ app = [event |-> 1, step |-> "latitude"]
  /\ tpv = [e \in Event |-> {}]
  /\ position = [f \in Field |-> 0]
  /\ pc = [e \in Event |-> "none"]
  /\ spent = [e \in Event |-> 0]
  /\ denm = [e \in Event |-> <<>>]
  /\ sent = [e \in Event |-> <<>>]

-----------------------------------------------------------------------------
(* Slip: the thread is started first.                                      *)
AfterLatitudeStart == "start"
AfterLatitude == "longitude"

(* trigger_denm_sending: what the tpv has of the position is written ...   *)
Written(f, keys) == IF f \in keys THEN [position EXCEPT ![f] = app.event] ELSE position

WriteLatitude ==
  /\ app.step = "latitude" /\ app.event \in Event
  /\ \E keys \in SUBSET Field :
       /\ tpv' = [tpv EXCEPT ![app.event] = keys]
       /\ position' = Written("latitude", keys)
  /\ app' = [app EXCEPT !.step = AfterLatitude]
  /\ UNCHANGED <<pc, spent, denm, sent>>

WriteLongitude ==
  /\ app.step = "longitude"
  /\ position' = Written("longitude", tpv[app.event])
  /\ app' = [app EXCEPT !.step = "start"]
  /\ UNCHANGED <<tpv, pc, spent, denm, sent>>

(* ... and a thread started (request_denm_sending).                        *)
StartThread ==
  /\ app.step = "start"
  /\ pc' = [pc EXCEPT ![app.event] = "check"]
  /\ app' = [event |-> app.event + 1, step |-> "latitude"]
  /\ UNCHANGED <<tpv, position, spent, denm, sent>>

(* Slip: one more is sent at the end.                                      *)
GoesOnOnce(e) == spent[e] <= Period
GoesOn(e) == spent[e] < Period

(* trigger_denm_messages: the loop ...                                     *)
Check(e) ==
  /\ pc[e] = "check"
  /\ pc' = [pc EXCEPT ![e] = IF GoesOn(e) THEN "read" ELSE "ended"]
  /\ UNCHANGED <<app, tpv, position, spent, denm, sent>>

(* ... a new DENM, with the values read one by one (fullfill_with_denreq-  *)
(* uest only takes the reference; encode and Area in transmit_denm) ...    *)
Read(e) ==
  /\ pc[e] = "read"
  /\ Len(denm[e]) < Len(Reads)
  /\ denm' = [denm EXCEPT ![e] = Append(@, position[Reads[Len(@) + 1]])]
  /\ UNCHANGED <<app, tpv, position, pc, spent, sent>>

(* ... which is sent, and time.sleep.                                      *)
Transmit(e) ==
  /\ pc[e] = "read" /\ Len(denm[e]) = Len(Reads)
  /\ pc' = [pc EXCEPT ![e] = "sleep"]
  /\ sent' = [sent EXCEPT ![e] = Append(@, denm[e])]
  /\ denm' = [denm EXCEPT ![e] = <<>>]
  /\ UNCHANGED <<app, tpv, position, spent>>

(* What encode or the sending raises, at any repetition, ends the thread.  *)
Fail(e) ==
  /\ pc[e] = "read"
  /\ pc' = [pc EXCEPT ![e] = "failed"]
  /\ denm' = [denm EXCEPT ![e] = <<>>]
  /\ UNCHANGED <<app, tpv, position, spent, sent>>

(* The thread wakes up when the others have done what they did before.     *)
Wake(e) ==
  /\ pc[e] = "sleep"
  /\ spent' = [spent EXCEPT ![e] = @ + Interval]
  /\ pc' = [pc EXCEPT ![e] = "check"]
  /\ UNCHANGED <<app, tpv, position, denm, sent>>

AppNext == WriteLatitude \/ WriteLongitude \/ StartThread
ThreadNext(e) == Check(e) \/ Read(e) \/ Transmit(e) \/ Fail(e) \/ Wake(e)
Next == AppNext \/ \E e \in Event : ThreadNext(e)

Spec == Init /\ [][Next]_vars

(* Threads run; the application triggers all events.                       *)
FairSpec == Spec /\ WF_vars(AppNext) /\ \A e \in Event : WF_vars(ThreadNext(e))

-----------------------------------------------------------------------------
(* The shape of the state.                                                 *)
TypeOK ==
  /\ app \in [event : 1..(Events + 1), step : Field \cup {"start"}]
  /\ tpv \in [Event -> SUBSET Field]
  /\ position \in [Field -> 0..Events]
  /\ pc \in [Event -> {"none", "check", "read", "sleep", "ended", "failed"}]
  /\ \A e \in Event :
       /\ spent[e] \in Nat
       /\ denm[e] \in Seq(0..Events) /\ Len(denm[e]) <= Len(Reads)

(* Whatever other events do to the position in the meantime, and however   *)
(* the reads cross, a DENM tells no value older than the newest that the   *)
(* application was given with its event or with one before it, and no two  *)
(* DENMs of an event go back in time (trigger_denm_sending).               *)
NeverOlder ==
  \A e \in Event : \A i \in 1..Len(sent[e]) : \A k \in 1..Len(Reads) :
    /\ \A x \in 1..e : Reads[k] \in tpv[x] => sent[e][i][k] >= x
    /\ i > 1 => sent[e][i][k] >= sent[e][i - 1][k]

(* "Position of the hazard" (event_position of DENRequest): a DENM of an   *)
(* event tells where that event is, in the fields it was given.            *)
OwnPosition ==
  \A e \in Event : \A i \in 1..Len(sent[e]) : \A k \in 1..Len(Reads) :
    Reads[k] \in tpv[e] => sent[e][i][k] = e

(* Every event is announced as often as its period asks for, unless one of *)
(* its own DENMs fails, and no other event takes any of it away            *)
(* (trigger_denm_messages, request_denm_sending).                          *)
Announced ==
  \A e \in Event :
    <>[](pc[e] = "failed" \/ Len(sent[e]) = (Period + Interval - 1) \div Interval)
=============================================================================

----------------------- MODULE StationServices_proofs -----------------------
(***************************************************************************)
(* The invariants of the services of a station, for every value of their   *)
(* constants.                                                              *)
(***************************************************************************)
EXTENDS StationServices, CamTransmission_proofs, Sequences

-----------------------------------------------------------------------------
(* Congestion control.                                                     *)

(* How far the state is behind the load, and why the gate keeps its        *)
(* bounds: once a packet was admitted the interval lies in them.           *)
CongestionInv ==
  /\ Dcc!TypeOK
  /\ steady < 5 => state - band <= 4 - steady /\ band - state <= 4 - steady
  /\ steady = 5 => state = band
  /\ since # Never => interval \in MinGap..MaxGap
  /\ gap # Never => gap >= MinGap

LEMMA GateBounds ==
  /\ MinGap \in Nat /\ MaxGap \in Nat /\ 0 < MinGap /\ MinGap <= MaxGap
  /\ OnTimes \subseteq Nat /\ Slower \subseteq Nat \ {0} /\ Never \notin Int
BY ServicesAssumption DEF Dcc!GateAssumption

LEMMA ClampBounds ==
  ASSUME NEW x \in Int
  PROVE  Dcc!Clamp(x) \in MinGap..MaxGap
BY GateBounds DEF Dcc!Clamp

LEMMA CongestionStep == CongestionInv /\ [Dcc!Next]_dccVars => CongestionInv'
<1> SUFFICES ASSUME CongestionInv, [Dcc!Next]_dccVars PROVE CongestionInv'
  OBVIOUS
<1> USE GateBounds
<1>1. ASSUME NEW b \in Dcc!State, Dcc!Update(b) PROVE CongestionInv'
  BY <1>1 DEF CongestionInv, Dcc!TypeOK, Dcc!Update, Dcc!Step, Dcc!State
<1>2. ASSUME NEW on \in OnTimes, Dcc!AdmitPacket(on) PROVE CongestionInv'
  <2>1. on * slower \in Int
    BY DEF CongestionInv, Dcc!TypeOK
  <2>2. interval' \in MinGap..MaxGap
    BY <1>2, <2>1, ClampBounds DEF Dcc!AdmitPacket
  <2> QED
    BY <1>2, <2>2 DEF CongestionInv, Dcc!TypeOK, Dcc!AdmitPacket, Dcc!IsOpen
<1>3. ASSUME NEW new \in Slower, Dcc!UpdateDelta(new) PROVE CongestionInv'
  <2>1. (interval * new) \div slower \in Int
    BY DEF CongestionInv, Dcc!TypeOK
  <2>2. interval' \in MinGap..MaxGap \/ interval' = interval
    BY <1>3, <2>1, ClampBounds DEF Dcc!UpdateDelta, Dcc!Rescaled
  <2> QED
    BY <1>3, <2>2 DEF CongestionInv, Dcc!TypeOK, Dcc!UpdateDelta
<1>4. CASE Dcc!Tick
  BY <1>4 DEF CongestionInv, Dcc!TypeOK, Dcc!Tick
<1>5. CASE UNCHANGED dccVars
  BY <1>5 DEF CongestionInv, Dcc!TypeOK, dccVars
<1> QED
  BY <1>1, <1>2, <1>3, <1>4, <1>5 DEF Dcc!Next

LEMMA CongestionInvariant == Dcc!Spec => []CongestionInv
<1>1. Dcc!Init => CongestionInv
  BY GateBounds DEF Dcc!Init, CongestionInv, Dcc!TypeOK, Dcc!State
<1> QED
  BY <1>1, CongestionStep, PTL DEF Dcc!Spec, Dcc!vars, dccVars

(* The state of DccReactive settles within four updates, and the gate of   *)
(* GateKeeper never opens early nor stays shut too long, for any bounds    *)
(* and any course of the duty cycle.                                       *)
THEOREM AlwaysControlled == Dcc!Spec => []CongestionControlled
<1>1. CongestionInv => CongestionControlled
  BY GateBounds
  DEF CongestionInv, CongestionControlled, Dcc!TypeOK, Dcc!State, Dcc!Settles,
      Dcc!GateKept, Dcc!IsOpen
<1> QED
  BY <1>1, CongestionInvariant, PTL

-----------------------------------------------------------------------------
(* Beacons.                                                                *)

LEMMA BeaconBounds ==
  /\ Retransmit \in Nat /\ Jitter \in Nat /\ 0 < Retransmit
  /\ MaxRefused \in Nat /\ Punctual \subseteq BOOLEAN
BY ServicesAssumption DEF Bcn!BeaconAssumption

(* Silence and the wait of the thread: with punctual threads the station   *)
(* has been silent no longer than its thread has waited, now and for the   *)
(* beacons that were refused, and not at all while a packet's reset is     *)
(* under way; with any threads it has been silent as long as the thread    *)
(* has waited, but for such a packet.                                      *)
BeaconInv ==
  /\ Bcn!TypeOK
  /\ punctual /\ beacon # "ended" =>
       /\ quiet <= (refused + 1) * Bcn!Longest
       /\ beacon = "wait" =>
            quiet <= refused * Bcn!Longest + waited /\ waited <= timeout
       /\ shb = "sent" \/ reset \/ beacon = "clear" => quiet = 0
  /\ beacon = "wait" => waited <= quiet \/ reset \/ shb = "sent"

(* The products, so that the rest is linear.                               *)
LEMMA BeaconProducts ==
  ASSUME NEW n \in Nat
  PROVE  /\ Bcn!Longest \in Nat /\ Retransmit <= Bcn!Longest
         /\ n * Bcn!Longest \in Nat
         /\ (n + 1) * Bcn!Longest = n * Bcn!Longest + Bcn!Longest
         /\ Bcn!MaxQuiet \in Nat /\ Bcn!Longest <= Bcn!MaxQuiet
         /\ n <= MaxRefused => (n + 1) * Bcn!Longest <= Bcn!MaxQuiet
<1>1. Bcn!Longest \in Nat /\ Retransmit <= Bcn!Longest
  BY BeaconBounds DEF Bcn!Longest
<1>2. ASSUME NEW k \in Nat, NEW m \in Nat
      PROVE  /\ m * k \in Nat /\ (m + 1) * k = m * k + k
  OBVIOUS
<1>3. ASSUME NEW k \in Nat, NEW m \in Nat, NEW d \in Nat
      PROVE  (m + 1) * k <= (m + d + 1) * k
  <2>1. (m + d + 1) * k = (m + 1) * k + d * k
    OBVIOUS
  <2>2. d * k \in Nat /\ (m + 1) * k \in Nat
    OBVIOUS
  <2> QED BY <2>1, <2>2
<1>4. n <= MaxRefused => \E d \in Nat : MaxRefused = n + d
  <2>1. n <= MaxRefused => MaxRefused - n \in Nat /\ MaxRefused = n + (MaxRefused - n)
    BY BeaconBounds
  <2> QED BY <2>1
<1>5. MaxRefused * Bcn!Longest \in Nat
      /\ (MaxRefused + 1) * Bcn!Longest = MaxRefused * Bcn!Longest + Bcn!Longest
  BY <1>1, <1>2, BeaconBounds
<1> QED BY <1>1, <1>2, <1>3, <1>4, <1>5, BeaconBounds DEF Bcn!MaxQuiet

LEMMA BeaconStep == BeaconInv /\ [Bcn!Next]_beaconVars => BeaconInv'
<1> SUFFICES ASSUME BeaconInv, [Bcn!Next]_beaconVars PROVE BeaconInv'
  OBVIOUS
<1> USE BeaconBounds
<1>0. refused \in Nat /\ refused <= MaxRefused
  BY DEF BeaconInv, Bcn!TypeOK
<1>a. /\ Bcn!Longest \in Nat /\ Retransmit <= Bcn!Longest
      /\ refused * Bcn!Longest \in Nat
      /\ (refused + 1) * Bcn!Longest = refused * Bcn!Longest + Bcn!Longest
      /\ Bcn!MaxQuiet \in Nat /\ Bcn!Longest <= Bcn!MaxQuiet
      /\ (refused + 1) * Bcn!Longest <= Bcn!MaxQuiet
  BY <1>0, BeaconProducts
<1>b. \A x \in 0..Jitter : Retransmit + x \in Retransmit..Bcn!Longest
  BY DEF Bcn!Longest
<1> USE DEF BeaconInv, Bcn!TypeOK
<1>1. CASE Bcn!Send \/ Bcn!Refuse
  <2>1. /\ beacon = "send" /\ beacon' = "wait" /\ waited' = 0
        /\ timeout' \in Retransmit..Bcn!Longest
        /\ UNCHANGED <<punctual, reset, shb>>
    BY <1>1, <1>b DEF Bcn!Send, Bcn!Refuse, Bcn!StartWait
  <2>2. CASE Bcn!Send
    <3>1. quiet' = 0 /\ refused' = 0
      BY <2>2 DEF Bcn!Send
    <3>2. 0 * Bcn!Longest = 0 /\ (0 + 1) * Bcn!Longest = Bcn!Longest
      BY <1>a
    <3>3. /\ quiet' <= (refused' + 1) * Bcn!Longest
          /\ quiet' <= refused' * Bcn!Longest + waited'
      BY <1>a, <2>1, <3>1, <3>2
    <3> QED BY <1>0, <1>a, <2>1, <3>1, <3>3
  <2>3. CASE Bcn!Refuse
    <3>1. quiet' = quiet /\ refused' = refused + 1 /\ refused' \in 0..MaxRefused
      BY <1>0, <2>3 DEF Bcn!Refuse
    <3>a. PICK m \in Nat : m = refused'
      BY <1>0, <3>1
    <3>b. /\ m * Bcn!Longest \in Nat
          /\ (m + 1) * Bcn!Longest = m * Bcn!Longest + Bcn!Longest
      BY BeaconProducts
    <3>2. /\ refused' * Bcn!Longest \in Nat
          /\ (refused' + 1) * Bcn!Longest = refused' * Bcn!Longest + Bcn!Longest
      BY <3>a, <3>b
    <3>3. punctual => quiet <= refused' * Bcn!Longest
      BY <2>1, <3>1
    <3> QED BY <1>a, <2>1, <3>1, <3>2, <3>3
  <2> QED BY <1>1, <2>2, <2>3
<1>2. CASE Bcn!Raise
  BY <1>2 DEF Bcn!Raise
<1>3. CASE Bcn!TimeOut
  BY <1>a, <1>3 DEF Bcn!TimeOut
<1>4. CASE Bcn!Wake
  BY <1>4 DEF Bcn!Wake
<1>5. CASE Bcn!Clear
  <2>1. {punctual', reset'} \subseteq BOOLEAN
    BY <1>5, Zenon DEF Bcn!Clear
  <2> QED
    BY <1>a, <1>5, <2>1 DEF Bcn!Clear, Bcn!AfterReset
<1>6. CASE Bcn!ShbSend
  <2>1. 0 * Bcn!Longest = 0 /\ (0 + 1) * Bcn!Longest = Bcn!Longest
    BY <1>a
  <2>2. /\ refused' = 0 /\ quiet' = 0 /\ shb' = "sent"
        /\ UNCHANGED <<punctual, beacon, timeout, waited, reset>>
    BY <1>6 DEF Bcn!ShbSend
  <2>3. /\ quiet' <= (refused' + 1) * Bcn!Longest
        /\ quiet' <= refused' * Bcn!Longest + waited'
    BY <1>a, <2>1, <2>2
  <2> QED BY <1>a, <2>2, <2>3
<1>7. CASE Bcn!ShbRefused
  BY <1>7 DEF Bcn!ShbRefused, Bcn!Refused
<1>8. CASE Bcn!ShbReset
  BY <1>8 DEF Bcn!ShbReset
<1>9. CASE Bcn!Tick
  <2>1. /\ UNCHANGED <<punctual, beacon, timeout, reset, shb, refused>>
        /\ waited' = IF waited <= Bcn!Longest THEN waited + 1 ELSE waited
        /\ quiet' = IF quiet <= Bcn!MaxQuiet THEN quiet + 1 ELSE quiet
        /\ punctual => ~Bcn!Busy
    BY <1>9 DEF Bcn!Tick
  <2> QED BY <1>a, <2>1 DEF Bcn!Busy
<1>10. CASE UNCHANGED beaconVars
  BY <1>10 DEF beaconVars
<1> QED
  BY <1>1, <1>2, <1>3, <1>4, <1>5, <1>6, <1>7, <1>8, <1>9, <1>10 DEF Bcn!Next

LEMMA BeaconInvariant == Bcn!Spec => []BeaconInv
<1>1. Bcn!Init => BeaconInv
  <2> SUFFICES ASSUME Bcn!Init PROVE BeaconInv
    OBVIOUS
  <2>1. {punctual, reset} \subseteq BOOLEAN
    BY BeaconBounds, Zenon DEF Bcn!Init
  <2>2. 0 * Bcn!Longest \in Nat /\ (0 + 1) * Bcn!Longest \in Nat /\ Bcn!MaxQuiet \in Nat
    BY BeaconProducts
  <2> QED
    BY <2>1, <2>2, BeaconBounds DEF Bcn!Init, BeaconInv, Bcn!TypeOK, Bcn!Longest
<1> QED
  BY <1>1, BeaconStep, PTL DEF Bcn!Spec, Bcn!vars, beaconVars

(* With punctual threads a station is never silent for longer than timer   *)
(* and jitter, once more for each beacon that is refused                   *)
(* (beacon_service_thread).                                                *)
THEOREM AlwaysHeard == Bcn!Spec => []NeverSilent
<1>1. BeaconInv => NeverSilent
  BY DEF BeaconInv, NeverSilent, Bcn!NeverSilent
<1> QED
  BY <1>1, BeaconInvariant, PTL

(* However late the threads are, no beacon follows a packet too soon       *)
(* (gn_data_request_shb, beacon_service_thread).                           *)
THEOREM BeaconsNeeded == Bcn!Spec => NotRedundant
<1>1. BeaconInv /\ [Bcn!Next]_beaconVars =>
        [beacon # "send" /\ beacon' = "send" => quiet >= Retransmit \/ shb = "sent"]_beaconVars
  BY BeaconBounds
  DEF BeaconInv, Bcn!TypeOK, Bcn!Longest, Bcn!Next, Bcn!Send, Bcn!TimeOut, Bcn!Wake,
      Bcn!Refuse, Bcn!Raise, Bcn!StartWait, Bcn!Clear, Bcn!AfterReset, Bcn!ShbSend, Bcn!ShbRefused, Bcn!ShbReset, Bcn!Tick
<1> QED
  BY <1>1, BeaconInvariant, PTL DEF Bcn!Spec, Bcn!vars, beaconVars, NotRedundant, Bcn!NotRedundant

-----------------------------------------------------------------------------
(* DENMs.                                                                  *)

LEMMA EventBounds ==
  /\ Events \in Nat /\ 0 < Events /\ Period \in Nat /\ Interval \in Nat
  /\ 0 < Period /\ 0 < Interval
BY ServicesAssumption DEF Den!EventAssumption

(* The application is done with field f of event x.                        *)
Past(x, f) ==
  \/ x < app.event
  \/ /\ x = app.event
     /\ app.step # f /\ (f = "longitude" => app.step # "latitude")

(* The position is no older than the newest value given, and no newer than *)
(* the event at hand; a thread only runs for an event before that one.     *)
PositionInv ==
  /\ app \in [event : 1..(Events + 1), step : Den!Field \cup {"start"}]
  /\ tpv \in [Den!Event -> SUBSET Den!Field]
  /\ position \in [Den!Field -> 0..Events]
  /\ denPc \in [Den!Event -> {"none", "check", "read", "sleep", "ended", "failed"}]
  /\ app.step # "latitude" => app.event <= Events
  /\ \A f \in Den!Field : position[f] <= app.event
  /\ \A f \in Den!Field, x \in Den!Event : f \in tpv[x] /\ Past(x, f) => x <= position[f]
  /\ \A e \in Den!Event : denPc[e] # "none" => e < app.event

(* A value told for event e lies between the newest one that was given up  *)
(* to this event and the position as it is now.                            *)
Told(e, told) ==
  /\ told \in Seq(0..Events) /\ Len(told) <= 4
  /\ told # <<>> => e < app.event
  /\ \A k \in 1..Len(told) :
       /\ told[k] <= position[Den!Reads[k]]
       /\ \A x \in 1..e : Den!Reads[k] \in tpv[x] => x <= told[k]

(* DENMs of one event are in the order of the positions they tell, the     *)
(* one that is being built included.                                       *)
DenmInv(e) ==
  /\ Told(e, denm[e])
  /\ sent[e] \in Seq(Seq(0..Events))
  /\ \A i \in 1..Len(sent[e]) :
       /\ Told(e, sent[e][i]) /\ Len(sent[e][i]) = 4
       /\ i > 1 => \A k \in 1..4 : sent[e][i][k] >= sent[e][i - 1][k]
  /\ Len(sent[e]) > 0 =>
       \A k \in 1..Len(denm[e]) : denm[e][k] >= sent[e][Len(sent[e])][k]

EventInv ==
  /\ PositionInv
  /\ spent \in [Den!Event -> Nat]
  /\ denm \in [Den!Event -> Seq(0..Events)]
  /\ DOMAIN sent = Den!Event /\ \A e \in Den!Event : DenmInv(e)

LEMMA FieldsRead ==
  /\ Len(Den!Reads) = 4
  /\ \A k \in 1..4 : Den!Reads[k] \in Den!Field
BY DEF Den!Reads, Den!Field

(* The position never goes back, and no tpv of an event before the one at  *)
(* hand changes.                                                           *)
Onward ==
  /\ \A f \in Den!Field : position'[f] >= position[f]
  /\ \A x \in Den!Event : x < app.event => tpv'[x] = tpv[x]
  /\ app'.event >= app.event

LEMMA WriteStep ==
  ASSUME PositionInv, Den!WriteLatitude \/ Den!WriteLongitude
  PROVE  PositionInv' /\ Onward
<1> USE EventBounds
<1>1. PICK f \in Den!Field, keys \in SUBSET Den!Field, new \in Den!Field \cup {"start"} :
        /\ app.event \in Den!Event /\ app.step = f
        /\ \/ f = "latitude" /\ new = "longitude"
           \/ f = "longitude" /\ new = "start"
        /\ app' = [app EXCEPT !.step = new]
        /\ tpv' = [tpv EXCEPT ![app.event] = keys]
        /\ f = "longitude" => tpv' = tpv
        /\ position' = IF f \in keys THEN [position EXCEPT ![f] = app.event] ELSE position
        /\ denPc' = denPc
  <2>1. CASE Den!WriteLatitude
    BY <2>1 DEF PositionInv, Den!WriteLatitude, Den!AfterLatitude, Den!Written, Den!Field
  <2>2. CASE Den!WriteLongitude
    <3>1. app.event \in Den!Event /\ tpv[app.event] \in SUBSET Den!Field
          /\ tpv = [tpv EXCEPT ![app.event] = tpv[app.event]]
      BY <2>2 DEF PositionInv, Den!WriteLongitude, Den!Event
    <3> QED
      BY <2>2, <3>1 DEF PositionInv, Den!WriteLongitude, Den!Written, Den!Field
  <2> QED BY <2>1, <2>2
<1>2. /\ app'.event = app.event /\ app'.step = new /\ app' \in [event : 1..(Events + 1), step : Den!Field \cup {"start"}]
      /\ app.event \in 1..Events
  BY <1>1 DEF PositionInv, Den!Event
<1>3. /\ tpv' \in [Den!Event -> SUBSET Den!Field] /\ tpv'[app.event] = keys
      /\ \A x \in Den!Event : x # app.event => tpv'[x] = tpv[x]
  BY <1>1 DEF PositionInv
<1>4. /\ position' \in [Den!Field -> 0..Events]
      /\ \A g \in Den!Field : g # f => position'[g] = position[g]
      /\ f \in keys => position'[f] = app.event
      /\ f \notin keys => position'[f] = position[f]
  BY <1>1, <1>2 DEF PositionInv
<1>5. \A g \in Den!Field : position'[g] >= position[g] /\ position'[g] <= app.event
  <2> SUFFICES ASSUME NEW g \in Den!Field
               PROVE  position'[g] >= position[g] /\ position'[g] <= app.event
    OBVIOUS
  <2>1. position[g] \in Int /\ position[g] <= app.event
    BY DEF PositionInv
  <2>2. CASE g = f /\ f \in keys
    <3>1. position'[g] = app.event /\ app.event \in Int
      BY <1>2, <1>4, <2>2
    <3> QED BY <2>1, <3>1
  <2>3. CASE ~(g = f /\ f \in keys)
    <3>1. position'[g] = position[g]
      BY <1>4, <2>3
    <3> QED BY <2>1, <3>1
  <2> QED BY <2>2, <2>3
<1>6. ASSUME NEW g \in Den!Field, NEW x \in Den!Event, g \in tpv'[x], Past(x, g)'
      PROVE  x <= position'[g]
  <2>1. CASE x = app.event /\ g = f
    BY <1>2, <1>3, <1>4, <1>6, <2>1
  <2>2. CASE x # app.event
    <3>1. Past(x, g) /\ g \in tpv[x]
      BY <1>2, <1>3, <1>6, <2>2 DEF Past
    <3>2. x <= position[g] /\ position[g] \in Int /\ x \in Int
      BY <3>1 DEF PositionInv, Den!Event
    <3>3. position'[g] \in Int /\ position'[g] >= position[g]
      BY <1>4, <1>5
    <3> QED BY <3>2, <3>3
  <2>3. CASE x = app.event /\ g # f
    <3>1. f = "longitude" /\ g = "latitude"
      BY <1>1, <1>2, <1>6, <2>3 DEF Past, Den!Field, Den!Event
    <3>2. g \in tpv[x] /\ Past(x, g)
      BY <1>1, <1>6, <2>3, <3>1 DEF Past
    <3> QED BY <1>4, <2>3, <3>2 DEF PositionInv
  <2> QED BY <2>1, <2>2, <2>3
<1>7. Onward
  BY <1>2, <1>3, <1>5 DEF Onward, PositionInv, Den!Event
<1>8. /\ denPc' \in [Den!Event -> {"none", "check", "read", "sleep", "ended", "failed"}]
      /\ \A e \in Den!Event : denPc'[e] # "none" => e < app'.event
      /\ app'.step # "latitude" => app'.event <= Events
  BY <1>1, <1>2 DEF PositionInv
<1> QED BY <1>2, <1>3, <1>4, <1>5, <1>6, <1>7, <1>8 DEF PositionInv

LEMMA PositionStep ==
  ASSUME PositionInv, [Den!Next]_denVars
  PROVE  PositionInv' /\ Onward
<1> USE EventBounds
<1>1. CASE Den!WriteLatitude \/ Den!WriteLongitude
  BY <1>1, WriteStep
<1>2. CASE Den!StartThread
  <2>1. /\ app.step = "start" /\ app.event \in Den!Event
        /\ app'.event = app.event + 1 /\ app'.step = "latitude"
        /\ app' \in [event : 1..(Events + 1), step : Den!Field \cup {"start"}]
        /\ UNCHANGED <<tpv, position>>
    BY <1>2 DEF Den!StartThread, PositionInv, Den!Event, Den!Field
  <2>2. /\ denPc' \in [Den!Event -> {"none", "check", "read", "sleep", "ended", "failed"}]
        /\ \A e \in Den!Event : e # app.event => denPc'[e] = denPc[e]
    BY <1>2 DEF Den!StartThread, PositionInv
  <2>3. \A x \in Den!Event, f \in Den!Field : Past(x, f)' => Past(x, f)
    BY <2>1 DEF Past, Den!Event, Den!Field
  <2>4. \A e \in Den!Event : denPc'[e] # "none" => e < app'.event
    BY <2>1, <2>2 DEF PositionInv, Den!Event
  <2>5. \A f \in Den!Field : position[f] \in Int /\ position[f] <= app'.event
    BY <2>1 DEF PositionInv, Den!Event
  <2>6. Onward
    BY <2>1, <2>5 DEF Onward, Den!Event
  <2> QED BY <2>1, <2>2, <2>3, <2>4, <2>5, <2>6 DEF PositionInv
<1>3. CASE UNCHANGED <<app, tpv, position>>
           /\ denPc' \in [Den!Event -> {"none", "check", "read", "sleep", "ended", "failed"}]
           /\ \A x \in Den!Event : denPc'[x] # "none" => denPc[x] # "none"
  BY <1>3 DEF PositionInv, Past, Onward
<1>4. ASSUME NEW e \in Den!Event, Den!ThreadNext(e)
      PROVE  PositionInv' /\ Onward
  <2>1. /\ UNCHANGED <<app, tpv, position>>
        /\ denPc' \in [Den!Event -> {"none", "check", "read", "sleep", "ended", "failed"}]
        /\ \A x \in Den!Event : denPc'[x] # "none" => denPc[x] # "none"
    BY <1>4 DEF PositionInv, Den!ThreadNext, Den!Check, Den!Read, Den!Transmit, Den!Fail, Den!Wake
  <2> QED
    BY <1>3, <2>1
<1>5. CASE UNCHANGED denVars
  BY <1>3, <1>5 DEF denVars, PositionInv
<1> QED
  BY <1>1, <1>2, <1>4, <1>5 DEF Den!Next, Den!AppNext

(* What was told stays between its bounds.                                 *)
LEMMA ToldStays ==
  ASSUME PositionInv, PositionInv', NEW e \in Den!Event, NEW told, Told(e, told), Onward
  PROVE  Told(e, told)'
<1>1. CASE told = <<>>
  BY <1>1 DEF Told
<1>2. CASE told # <<>>
  <2>1. e < app.event /\ e < app'.event /\ e \in 1..Events
    BY <1>2 DEF Told, Onward, PositionInv, Den!Event
  <2>2. ASSUME NEW k \in 1..Len(told)
        PROVE  /\ told[k] <= position'[Den!Reads[k]]
               /\ \A x \in 1..e : Den!Reads[k] \in tpv'[x] => x <= told[k]
    <3>1. k \in 1..4 /\ told[k] \in Int
      BY EventBounds DEF Told
    <3>2. Den!Reads[k] \in Den!Field
      BY <3>1, FieldsRead
    <3>3. /\ position[Den!Reads[k]] \in Int /\ position'[Den!Reads[k]] \in Int
          /\ position'[Den!Reads[k]] >= position[Den!Reads[k]]
      BY <3>2, EventBounds DEF PositionInv, Onward
    <3>4. \A x \in 1..e : x \in Den!Event /\ x < app.event
      BY <2>1, EventBounds DEF PositionInv, Den!Event
    <3>5. \A x \in 1..e : tpv'[x] = tpv[x]
      BY <3>4 DEF Onward
    <3> QED BY <3>1, <3>3, <3>5 DEF Told
  <2> QED BY <2>1, <2>2 DEF Told
<1> QED BY <1>1, <1>2

LEMMA EventStep == EventInv /\ [Den!Next]_denVars => EventInv'
<1> SUFFICES ASSUME EventInv, [Den!Next]_denVars PROVE EventInv'
  OBVIOUS
<1> USE EventBounds
<1>1. PositionInv' /\ Onward
  BY PositionStep DEF EventInv
<1>2. ASSUME UNCHANGED <<denm, sent>>, spent' \in [Den!Event -> Nat] PROVE EventInv'
  <2> SUFFICES ASSUME NEW e \in Den!Event PROVE DenmInv(e)'
    BY <1>1, <1>2 DEF EventInv
  <2>1. \A told : Told(e, told) => Told(e, told)'
    BY <1>1, ToldStays DEF EventInv
  <2> QED
    BY <1>2, <2>1 DEF EventInv, DenmInv
<1>3. CASE Den!AppNext
  BY <1>2, <1>3 DEF EventInv, Den!AppNext, Den!WriteLatitude, Den!WriteLongitude, Den!StartThread
<1>4. ASSUME NEW e \in Den!Event, Den!Check(e) PROVE EventInv'
  BY <1>2, <1>4 DEF EventInv, Den!Check
<1>5. ASSUME NEW e \in Den!Event, Den!Wake(e) PROVE EventInv'
  <2>1. spent' \in [Den!Event -> Nat]
    BY <1>5 DEF EventInv, Den!Wake
  <2> QED BY <1>2, <1>5, <2>1 DEF Den!Wake
<1>6. ASSUME NEW e \in Den!Event, Den!Read(e) PROVE EventInv'
  <2> DEFINE new == position[Den!Reads[Len(denm[e]) + 1]]
             n == Len(denm[e])
             d == Append(denm[e], new)
  <2>1. n \in 0..3 /\ denm[e] \in Seq(0..Events) /\ Den!Reads[n + 1] \in Den!Field
    <3>1. denm[e] \in Seq(0..Events)
      BY DEF EventInv
    <3>a. Len(denm[e]) < Len(Den!Reads)
      BY <1>6 DEF Den!Read
    <3>b. Len(denm[e]) \in Nat
      BY <3>1
    <3> HIDE DEF n
    <3>2. n \in Nat /\ n < 4
      BY <3>a, <3>b, FieldsRead DEF n
    <3>3. n \in 0..3 /\ n + 1 \in 1..4
      BY <3>2
    <3> QED BY <3>1, <3>2, <3>3, FieldsRead
  <2>2. /\ new \in 0..Events /\ e < app.event
        /\ \A x \in 1..e : Den!Reads[n + 1] \in tpv[x] => x <= new
    <3>1. denPc[e] # "none" /\ e \in 1..Events
      BY <1>6 DEF Den!Read, Den!Event
    <3>2. e < app.event /\ app.event \in 1..(Events + 1)
      BY <3>1 DEF EventInv, PositionInv
    <3>3. \A x \in 1..e : x \in Den!Event /\ x < app.event
      BY <3>1, <3>2 DEF Den!Event
    <3> QED BY <2>1, <3>2, <3>3 DEF EventInv, PositionInv, Past
  <2>3. /\ d \in Seq(0..Events) /\ Len(d) = n + 1 /\ d[n + 1] = new
        /\ \A k \in 1..n : d[k] = denm[e][k]
    BY <2>1, <2>2
  <2>4. UNCHANGED <<app, tpv, position, sent, spent>>
        /\ denm' = [denm EXCEPT ![e] = d]
    BY <1>6 DEF Den!Read
  <2> HIDE DEF d, n
  <2>a. /\ Told(e, denm[e]) /\ n = Len(denm[e]) /\ new = position[Den!Reads[n + 1]]
        /\ e \in 1..Events
    BY DEF EventInv, DenmInv, n, Den!Event
  <2>5. denm' \in [Den!Event -> Seq(0..Events)] /\ denm'[e] = d
        /\ \A x \in Den!Event \ {e} : denm'[x] = denm[x]
    BY <2>3, <2>4 DEF EventInv
  <2>6. DenmInv(e)'
    <3>1. Told(e, d)
      <4> SUFFICES ASSUME NEW k \in 1..(n + 1)
                   PROVE  /\ d[k] <= position[Den!Reads[k]]
                          /\ \A x \in 1..e : Den!Reads[k] \in tpv[x] => x <= d[k]
        BY <2>1, <2>2, <2>3 DEF Told
      <4>1. CASE k = n + 1
        BY <2>2, <2>3, <2>a, <4>1
      <4>2. CASE k \in 1..n
        BY <2>1, <2>3, <2>a, <4>2 DEF Told
      <4> QED BY <2>1, <4>1, <4>2
    <3>2. Len(sent[e]) > 0 => \A k \in 1..(n + 1) : d[k] >= sent[e][Len(sent[e])][k]
      <4> SUFFICES ASSUME Len(sent[e]) > 0
                   PROVE  \A k \in 1..(n + 1) : d[k] >= sent[e][Len(sent[e])][k]
        OBVIOUS
      <4>0. \A k \in 1..Len(denm[e]) : denm[e][k] >= sent[e][Len(sent[e])][k]
        BY DEF EventInv, DenmInv
      <4>1. Len(sent[e]) \in 1..Len(sent[e]) /\ n + 1 \in 1..4
        BY <2>1 DEF EventInv, DenmInv
      <4>2. Told(e, sent[e][Len(sent[e])]) /\ Len(sent[e][Len(sent[e])]) = 4
        BY <4>1 DEF EventInv, DenmInv
      <4>3. sent[e][Len(sent[e])][n + 1] <= position[Den!Reads[n + 1]]
        BY <4>1, <4>2 DEF Told
      <4>4. sent[e][Len(sent[e])][n + 1] \in Int
        BY <4>1, <4>2 DEF Told
      <4>5. d[n + 1] >= sent[e][Len(sent[e])][n + 1]
        BY <2>2, <2>3, <2>a, <4>3, <4>4
      <4>6. \A k \in 1..(n + 1) : k \in 1..n \/ k = n + 1
        BY <2>1
      <4> QED BY <2>3, <2>a, <4>0, <4>5, <4>6
    <3> QED
      BY <2>3, <2>4, <2>5, <3>1, <3>2 DEF EventInv, DenmInv, Told
  <2>7. ASSUME NEW x \in Den!Event \ {e} PROVE DenmInv(x)'
    BY <2>4, <2>5, ZenonT(60) DEF EventInv, DenmInv, Told
  <2> QED
    BY <1>1, <2>4, <2>5, <2>6, <2>7 DEF EventInv
<1>7. ASSUME NEW e \in Den!Event, Den!Transmit(e) \/ Den!Fail(e) PROVE EventInv'
  <2> DEFINE d == denm[e]
             n == Len(sent[e])
  <2>0. Den!Transmit(e) => Len(d) = 4
    BY FieldsRead DEF EventInv, DenmInv, Den!Transmit
  <2>1. /\ d \in Seq(0..Events) /\ Told(e, d)
        /\ sent[e] \in Seq(Seq(0..Events)) /\ n \in Nat
    BY DEF EventInv, DenmInv
  <2>2. /\ UNCHANGED <<app, tpv, position, spent>> /\ denm' = [denm EXCEPT ![e] = <<>>]
        /\ \/ sent' = sent
           \/ sent' = [sent EXCEPT ![e] = Append(@, d)] /\ Len(d) = 4
    BY <1>7, <2>0 DEF Den!Transmit, Den!Fail
  <2>3. /\ denm' \in [Den!Event -> Seq(0..Events)] /\ denm'[e] = <<>>
        /\ \A x \in Den!Event \ {e} : denm'[x] = denm[x]
    BY <2>2 DEF EventInv
  <2>4. DOMAIN sent' = Den!Event /\ \A x \in Den!Event \ {e} : sent'[x] = sent[x]
    BY <2>2 DEF EventInv
  <2>5. sent'[e] = sent[e] \/ (sent'[e] = Append(sent[e], d) /\ Len(d) = 4)
    BY <2>2 DEF EventInv
  <2>6. ASSUME NEW x \in Den!Event \ {e} PROVE DenmInv(x)'
    <3>1. DenmInv(x) /\ denm'[x] = denm[x] /\ sent'[x] = sent[x]
          /\ UNCHANGED <<app, tpv, position>>
      BY <2>2, <2>3, <2>4 DEF EventInv
    <3> QED BY <3>1 DEF DenmInv, Told
  <2>7. Told(e, <<>>)
    BY DEF Told
  <2>8. CASE sent'[e] = sent[e]
    <3>1. DenmInv(e)'
      <4>1. DenmInv(e) /\ UNCHANGED <<app, tpv, position>> /\ Len(<<>>) = 0
        BY <2>2 DEF EventInv
      <4> QED BY <2>3, <2>7, <2>8, <4>1 DEF DenmInv, Told
    <3> QED BY <1>1, <2>2, <2>3, <2>4, <2>6, <3>1 DEF EventInv
  <2>a. n \in Nat /\ n = Len(sent[e])
    BY <2>1
  <2>9. CASE sent'[e] = Append(sent[e], d) /\ Len(d) = 4
    <3> DEFINE s == Append(sent[e], d)
    <3>1. /\ s \in Seq(Seq(0..Events)) /\ Len(s) = n + 1 /\ s[n + 1] = d
          /\ \A i \in 1..n : s[i] = sent[e][i]
      <4>1. PICK q : q = sent[e]
        OBVIOUS
      <4>2. PICK c : c = d
        OBVIOUS
      <4>3. q \in Seq(Seq(0..Events)) /\ c \in Seq(0..Events)
        BY <2>1, <4>1, <4>2
      <4>4. /\ Append(q, c) \in Seq(Seq(0..Events)) /\ Len(Append(q, c)) = Len(q) + 1
            /\ Append(q, c)[Len(q) + 1] = c /\ \A i \in 1..Len(q) : Append(q, c)[i] = q[i]
        BY <4>3
      <4> QED BY <4>1, <4>2, <4>4
    <3> HIDE DEF s, n
    <3>a. DenmInv(e)
      BY DEF EventInv
    <3>b. \A i \in 1..(n + 1) : i = n + 1 \/ i \in 1..n
      BY <2>a
    <3>2. \A i \in 1..(n + 1) : Told(e, s[i]) /\ Len(s[i]) = 4
      BY <2>1, <2>9, <2>a, <3>1, <3>a, <3>b DEF DenmInv
    <3>3. ASSUME NEW i \in 1..(n + 1), i > 1, NEW k \in 1..4
          PROVE  s[i][k] >= s[i - 1][k]
      <4>1. CASE i = n + 1
        <5>1. s[i] = d /\ i - 1 = n /\ n > 0 /\ n \in 1..n
          BY <2>a, <3>1, <3>3, <4>1
        <5>2. d[k] >= sent[e][n][k]
          BY <2>9, <2>a, <3>a, <5>1 DEF DenmInv
        <5> QED BY <3>1, <5>1, <5>2
      <4>2. CASE i \in 1..n
        <5>1. s[i] = sent[e][i] /\ i - 1 \in 1..n /\ s[i - 1] = sent[e][i - 1]
          <6>1. i - 1 \in 1..n
            BY <2>a, <3>3, <4>2
          <6> QED BY <3>1, <4>2, <6>1
        <5> QED BY <2>a, <3>3, <3>a, <4>2, <5>1 DEF DenmInv
      <4> QED BY <3>b, <4>1, <4>2
    <3>4. DenmInv(e)'
      <4>1. sent'[e] = s /\ UNCHANGED <<app, tpv, position>> /\ denm'[e] = <<>> /\ Len(<<>>) = 0
        BY <2>2, <2>3, <2>9 DEF s
      <4>2. \A told : Told(e, told) => Told(e, told)'
        BY <4>1 DEF Told
      <4>3. /\ Told(e, denm[e])' /\ sent'[e] \in Seq(Seq(0..Events))
            /\ Len(sent'[e]) = n + 1 /\ 1..Len(denm'[e]) = {}
        BY <2>7, <3>1, <4>1, <4>2
      <4>4. \A i \in 1..(n + 1) : Told(e, sent[e][i])' /\ Len(sent'[e][i]) = 4
        BY <3>2, <4>1, <4>2
      <4> QED BY <3>3, <4>1, <4>3, <4>4 DEF DenmInv
    <3> QED BY <1>1, <2>2, <2>3, <2>4, <2>6, <3>4 DEF EventInv
  <2> QED BY <2>5, <2>8, <2>9
<1>8. CASE UNCHANGED denVars
  BY <1>2, <1>8 DEF denVars, EventInv
<1> QED
  BY <1>3, <1>4, <1>5, <1>6, <1>7, <1>8 DEF Den!Next, Den!ThreadNext

LEMMA EventInvariant == Den!Spec => []EventInv
<1>1. Den!Init => EventInv
  <2> SUFFICES ASSUME Den!Init PROVE EventInv
    OBVIOUS
  <2>1. PositionInv
    BY EventBounds DEF Den!Init, PositionInv, Den!Field, Den!Event
  <2>2. \A e \in Den!Event : DenmInv(e)
    BY DEF Den!Init, DenmInv, Told
  <2> QED
    BY <2>1, <2>2 DEF Den!Init, EventInv
<1> QED
  BY <1>1, EventStep, PTL DEF Den!Spec, Den!vars, denVars

(* Whatever other events do to the position meanwhile, no DENM tells one   *)
(* older than its own event, and those of an event never go back           *)
(* (trigger_denm_sending), for any number of events.                       *)
THEOREM PositionsNeverOlder == Den!Spec => []NeverOlder
<1>1. EventInv => NeverOlder
  BY FieldsRead DEF EventInv, DenmInv, Told, NeverOlder, Den!NeverOlder
<1> QED
  BY <1>1, EventInvariant, PTL

(* The loop of a thread: it has slept for as many intervals as it has sent *)
(* DENMs, and builds and sends one only within its period.                 *)
CountInv(e) ==
  /\ denPc[e] # "sleep" => spent[e] = Interval * Len(sent[e])
  /\ denPc[e] = "sleep" =>
       Len(sent[e]) > 0 /\ spent[e] = Interval * (Len(sent[e]) - 1)
  /\ Len(sent[e]) > 0 => Interval * (Len(sent[e]) - 1) < Period
  /\ denPc[e] \in {"read", "failed"} => spent[e] < Period
  /\ denPc[e] = "ended" => spent[e] >= Period

LEMMA CountStep ==
  ASSUME EventInv, NEW e \in Den!Event, CountInv(e), [Den!Next]_denVars
  PROVE  CountInv(e)'
<1> USE EventBounds
<1>0. /\ denPc = [x \in Den!Event |-> denPc[x]] /\ spent = [x \in Den!Event |-> spent[x]]
      /\ DOMAIN sent = Den!Event /\ sent[e] \in Seq(Seq(0..Events))
      /\ spent[e] \in Nat /\ Len(sent[e]) \in Nat /\ denm[e] \in Seq(0..Events)
  BY DEF EventInv, PositionInv, DenmInv
<1>1. CASE UNCHANGED <<denPc, spent, sent>>
  BY <1>1 DEF CountInv
<1>2. CASE Den!WriteLatitude \/ Den!WriteLongitude \/ UNCHANGED denVars
  BY <1>1, <1>2 DEF Den!WriteLatitude, Den!WriteLongitude, denVars
<1>3. CASE Den!StartThread
  <2>1. /\ spent' = spent /\ sent' = sent
        /\ denPc'[e] = denPc[e] \/ (denPc[e] = "none" /\ denPc'[e] = "check")
    BY <1>0, <1>3 DEF Den!StartThread, EventInv, PositionInv
  <2> QED BY <2>1 DEF CountInv
<1>4. ASSUME NEW x \in Den!Event, Den!ThreadNext(x) PROVE CountInv(e)'
  <2>1. CASE x # e
    <3>1. denPc'[e] = denPc[e] /\ spent'[e] = spent[e] /\ sent'[e] = sent[e]
      BY <1>0, <1>4, <2>1 DEF Den!ThreadNext, Den!Check, Den!Read, Den!Transmit, Den!Fail, Den!Wake
    <3> QED BY <3>1 DEF CountInv
  <2>2. CASE Den!Check(e)
    <3>1. /\ spent' = spent /\ sent' = sent /\ denPc[e] = "check"
          /\ denPc'[e] = IF spent[e] < Period THEN "read" ELSE "ended"
      BY <1>0, <2>2 DEF Den!Check, Den!GoesOn
    <3> QED BY <1>0, <3>1 DEF CountInv
  <2>3. CASE Den!Read(e)
    BY <1>1, <2>3 DEF Den!Read
  <2>4. CASE Den!Transmit(e)
    <3>1. /\ spent' = spent /\ denPc[e] = "read" /\ denPc'[e] = "sleep"
          /\ sent'[e] = Append(sent[e], denm[e])
      BY <1>0, <2>4 DEF Den!Transmit
    <3>2. PICK n \in Nat : n = Len(sent[e])
      BY <1>0
    <3>3. PICK m \in Nat : m = Len(sent'[e]) /\ m = n + 1
      BY <1>0, <3>1, <3>2
    <3>4. spent[e] = Interval * n /\ spent[e] < Period /\ m - 1 = n /\ m > 0
      BY <3>1, <3>2, <3>3 DEF CountInv
    <3> QED BY <3>1, <3>3, <3>4 DEF CountInv
  <2>6. CASE Den!Fail(e)
    <3>1. /\ UNCHANGED <<spent, sent>> /\ denPc[e] = "read" /\ denPc'[e] = "failed"
      BY <1>0, <2>6 DEF Den!Fail
    <3> QED BY <3>1 DEF CountInv
  <2>5. CASE Den!Wake(e)
    <3>1. /\ sent' = sent /\ denPc[e] = "sleep" /\ denPc'[e] = "check"
          /\ spent'[e] = spent[e] + Interval
      BY <1>0, <2>5 DEF Den!Wake
    <3>2. PICK n \in Nat : n = Len(sent[e])
      BY <1>0
    <3>3. Interval * (n - 1) + Interval = Interval * n
      OBVIOUS
    <3> QED BY <3>1, <3>2, <3>3 DEF CountInv
  <2> QED BY <1>4, <2>1, <2>2, <2>3, <2>4, <2>5, <2>6 DEF Den!ThreadNext
<1> QED BY <1>2, <1>3, <1>4 DEF Den!Next, Den!AppNext

(* The number of intervals that are needed to fill a period.               *)
LEMMA RoundedUp ==
  ASSUME NEW p \in Nat \ {0}, NEW i \in Nat \ {0}, NEW n \in Nat,
         i * n >= p, n > 0 => i * (n - 1) < p
  PROVE  n = (p + i - 1) \div i
<1>1. PICK q \in Int : q = (p + i - 1) \div i
  OBVIOUS
<1>2. i * q <= p + i - 1 /\ p + i - 1 < i * q + i
  BY <1>1
<1>3. n > 0 /\ i * (n - 1) = i * n - i
  OBVIOUS
<1>4. ASSUME NEW a \in Int, NEW b \in Int, a < b PROVE i * a + i <= i * b
  <2>1. PICK d \in Nat : b = a + 1 + d
    BY <1>4
  <2>2. i * b = i * a + i + i * d
    BY <2>1
  <2>3. i * d >= 0
    OBVIOUS
  <2> QED BY <2>2, <2>3
<1>5. CASE n < q
  BY <1>2, <1>4, <1>5
<1>6. CASE q < n
  <2>1. i * q + i <= i * n
    BY <1>4, <1>6
  <2>2. i * n - i < p
    BY <1>3
  <2> QED BY <1>2, <2>1, <2>2
<1> QED BY <1>1, <1>5, <1>6

LEMMA RoundedDown ==
  ASSUME NEW p \in Nat \ {0}, NEW i \in Nat \ {0}, NEW n \in Nat, i * n < p
  PROVE  n < (p + i - 1) \div i
<1>1. PICK q \in Int : q = (p + i - 1) \div i
  OBVIOUS
<1>2. p + i - 1 < i * q + i
  BY <1>1
<1>3. CASE q <= n
  <2>1. PICK d \in Nat : n = q + d
    BY <1>3
  <2>2. i * n = i * q + i * d /\ i * d >= 0
    BY <2>1
  <2> QED BY <1>2, <2>2
<1> QED BY <1>1, <1>3

(* A thread that comes to the end of its loop has sent as many DENMs as    *)
(* its period asks for, one that a failure ends, at whatever repetition,   *)
(* fewer, for any period and interval and whatever happens to other        *)
(* events; it is a matter of liveness that it ends                         *)
(* (trigger_denm_messages).                                                *)
THEOREM EndsAnnounced ==
  Den!Spec => [](\A e \in Den!Event :
                  /\ denPc[e] = "ended" =>
                       Len(sent[e]) = (Period + Interval - 1) \div Interval
                  /\ denPc[e] = "failed" =>
                       Len(sent[e]) < (Period + Interval - 1) \div Interval)
<1> DEFINE Counted == \A e \in Den!Event : CountInv(e)
           Full == \A e \in Den!Event :
                     /\ denPc[e] = "ended" =>
                          Len(sent[e]) = (Period + Interval - 1) \div Interval
                     /\ denPc[e] = "failed" =>
                          Len(sent[e]) < (Period + Interval - 1) \div Interval
<1>1. Den!Init => Counted
  BY EventBounds DEF Den!Init, CountInv
<1>2. EventInv /\ Counted /\ [Den!Next]_denVars => Counted'
  BY CountStep
<1>3. EventInv /\ Counted => Full
  <2> SUFFICES ASSUME EventInv, Counted, NEW e \in Den!Event
               PROVE  /\ denPc[e] = "ended" =>
                           Len(sent[e]) = (Period + Interval - 1) \div Interval
                      /\ denPc[e] = "failed" =>
                           Len(sent[e]) < (Period + Interval - 1) \div Interval
    OBVIOUS
  <2>1. PICK n \in Nat : n = Len(sent[e])
    BY DEF EventInv, DenmInv
  <2>2. Period \in Nat \ {0} /\ Interval \in Nat \ {0}
    BY EventBounds
  <2>3. CASE denPc[e] = "ended"
    <3>1. Interval * n >= Period /\ (n > 0 => Interval * (n - 1) < Period)
      BY <2>1, <2>3 DEF CountInv
    <3>2. n = (Period + Interval - 1) \div Interval
      BY ONLY <2>2, <3>1, RoundedUp
    <3> QED BY <2>1, <2>3, <3>2
  <2>4. CASE denPc[e] = "failed"
    <3>1. Interval * n < Period
      BY <2>1, <2>4 DEF CountInv
    <3>2. n < (Period + Interval - 1) \div Interval
      BY ONLY <2>2, <3>1, RoundedDown
    <3> QED BY <2>1, <2>4, <3>2
  <2> QED BY <2>3, <2>4
<1> HIDE DEF Counted, Full
<1>4. Den!Spec => []Full
  BY <1>1, <1>2, <1>3, EventInvariant, PTL DEF Den!Spec, Den!vars, denVars
<1> QED BY <1>4 DEF Full

-----------------------------------------------------------------------------
(* VAMs.                                                                   *)

LEMMA VamBounds ==
  /\ Wrap \in Nat /\ GenVam \in Nat /\ LfMin \in Nat /\ Gap \in Nat /\ MaxAge \in Nat
  /\ 0 < Wrap /\ 0 < GenVam /\ 0 < LfMin /\ 0 < Gap
  /\ GenVam + Gap <= Wrap /\ LfMin <= MaxAge /\ GenVam + 2 * Gap <= MaxAge
  /\ Never \notin Nat
BY ServicesAssumption DEF Vam!PeriodAssumption

(* The remainder of a difference of remainders, or of one more.            *)
LEMMA Remainder ==
  ASSUME NEW W \in Nat \ {0}, NEW x \in Int, -W < x, x <= W
  PROVE  x % W = IF x < 0 THEN x + W ELSE IF x = W THEN 0 ELSE x
<1> DEFINE q == x \div W
           r == x % W
           p == W * q
<1>1. /\ r \in 0..(W - 1) /\ q \in Int
      /\ x = p + r
  BY SMT
<1>2. q > 1 => p >= 2 * W
  BY <1>1
<1>3. q < -1 => p <= W * (-2)
  BY <1>1
<1>4. q \in {1, 0, -1} => p \in {W, 0, -W}
  BY <1>1
<1>5. p \in Int
  BY <1>1
<1> HIDE DEF q, r, p
<1>6. p \in {W, 0, -W}
  BY <1>1, <1>2, <1>3, <1>4, <1>5
<1> QED BY <1>1, <1>6 DEF r

(* How long a station may have been silent.  Since the last position, or   *)
(* else that position found the last VAM less than T_GenVam old by the     *)
(* remainders, and from there the remainders grow with the silence.        *)
(* As long as the thread lives, the time noted for the container is that   *)
(* of the last VAM that had it.                                            *)
SilenceInv ==
  /\ Vam!TypeOK
  /\ silent < GenVam + 2 * Gap
  /\ passive => silent = 0
  /\ alive =>
       \/ silent <= posAge
       \/ /\ last # Never
          /\ posAge <= Vam!Elapsed /\ Vam!Elapsed < GenVam + posAge
          /\ silent <= Vam!Elapsed + Gap
  /\ alive => vamLfAge = vamTxLfAge
  /\ vamTxAge = 0 /\ vamTxLfAge # 0 => vamTxLfAge # Never /\ vamTxLfAge < LfMin

LEMMA ElapsedGrows ==
  ASSUME Vam!TypeOK, last # Never, Vam!Elapsed + 1 < Wrap,
         now' = (now + 1) % Wrap, last' = last
  PROVE  Vam!Elapsed' = Vam!Elapsed + 1
<1>1. now \in 0..(Wrap - 1) /\ last \in 0..(Wrap - 1)
  BY DEF Vam!TypeOK
<1>2. Vam!Elapsed = IF now < last THEN now - last + Wrap ELSE now - last
  BY <1>1, VamBounds, Remainder DEF Vam!Elapsed
<1>3. now' = IF now + 1 = Wrap THEN 0 ELSE now + 1
  BY <1>1, VamBounds, Remainder
<1>4. now' \in 0..(Wrap - 1)
  BY <1>1, <1>3, VamBounds
<1>5. Vam!Elapsed' = IF now' < last THEN now' - last + Wrap ELSE now' - last
  BY <1>1, <1>4, VamBounds, Remainder DEF Vam!Elapsed
<1> QED
  BY <1>1, <1>2, <1>3, <1>5, VamBounds

LEMMA SilenceStep == SilenceInv /\ [Vam!Next]_vamVars => SilenceInv'
<1> SUFFICES ASSUME SilenceInv, [Vam!Next]_vamVars PROVE SilenceInv'
  OBVIOUS
<1> USE VamBounds
<1>e. last # Never => Vam!Elapsed \in 0..(Wrap - 1)
  BY Remainder DEF SilenceInv, Vam!TypeOK, Vam!Elapsed
<1>1. CASE Vam!LocationCallback
  <2>1. {alive', passive', operation'} \subseteq BOOLEAN
    BY <1>1, Zenon DEF Vam!LocationCallback, Vam!SendNextVam, Vam!Raise, SilenceInv, Vam!TypeOK
  <2>2. /\ alive /\ posAge' = 0 /\ UNCHANGED <<now, passive, operation>>
    BY <1>1 DEF Vam!LocationCallback
  <2>3. CASE Vam!SendNextVam
    <3>1. vamLfAge' \in Vam!Age
      BY <2>3 DEF Vam!SendNextVam, Vam!LfNoted, SilenceInv, Vam!TypeOK, Vam!Age
    <3>2. CASE Vam!Raise
      BY <2>1, <2>2, <3>1, <3>2 DEF Vam!Raise, SilenceInv, Vam!TypeOK
    <3>3. CASE ~Vam!Raise
      <4>1. /\ last' = now /\ vamTxAge' = 0 /\ silent' = 0 /\ alive' = alive
            /\ vamTxLfAge' = IF Vam!LfDue THEN 0 ELSE vamTxLfAge
            /\ vamLfAge' = IF Vam!LfDue THEN 0 ELSE vamLfAge
        BY <2>3, <3>3 DEF Vam!SendNextVam, Vam!LfNoted
      <4>2. Vam!TypeOK'
        BY <2>1, <2>2, <3>1, <4>1 DEF SilenceInv, Vam!TypeOK, Vam!Age
      <4>3. ~Vam!LfDue => vamLfAge # Never /\ vamLfAge < LfMin
        BY DEF Vam!LfDue
      <4> QED
        BY <2>2, <4>1, <4>2, <4>3 DEF SilenceInv
    <3> QED BY <3>2, <3>3
  <2>4. CASE UNCHANGED <<last, vamLfAge, alive, vamTxAge, vamTxLfAge, silent>> /\ ~passive /\ ~Vam!TimeDue
    <3>1. Vam!Elapsed' = Vam!Elapsed
      BY <2>2, <2>4 DEF Vam!Elapsed
    <3> QED
      BY <1>e, <2>1, <2>2, <2>4, <3>1 DEF Vam!TimeDue, SilenceInv, Vam!TypeOK, Vam!Age
  <2>5. CASE Vam!Raise /\ UNCHANGED vamLfAge
    BY <2>1, <2>2, <2>5 DEF Vam!Raise, SilenceInv, Vam!TypeOK, Vam!Age
  <2>6. CASE passive /\ UNCHANGED <<last, vamLfAge, alive, vamTxAge, vamTxLfAge, silent>>
    BY <2>1, <2>2, <2>6 DEF SilenceInv, Vam!TypeOK, Vam!Age
  <2> QED
    BY <1>1, <2>3, <2>4, <2>5, <2>6 DEF Vam!LocationCallback
<1>2. CASE Vam!Clustering
  <2>1. {alive', passive', operation'} \subseteq BOOLEAN
    BY <1>2, Zenon DEF Vam!Clustering, SilenceInv, Vam!TypeOK
  <2>2. Vam!Elapsed' = Vam!Elapsed
    BY <1>2 DEF Vam!Clustering, Vam!Elapsed
  <2> QED
    BY <1>2, <1>e, <2>1, <2>2 DEF Vam!Clustering, SilenceInv, Vam!TypeOK, Vam!Age
<1>3. CASE Vam!Tick
  <2>1. {alive', passive', operation'} \subseteq BOOLEAN
    BY <1>3, Zenon DEF Vam!Tick, SilenceInv, Vam!TypeOK
  <2>2. now' \in 0..(Wrap - 1)
    <3>1. now \in 0..(Wrap - 1) /\ now' = (now + 1) % Wrap
      BY <1>3 DEF Vam!Tick, SilenceInv, Vam!TypeOK
    <3>2. (now + 1) % Wrap = IF now + 1 = Wrap THEN 0 ELSE now + 1
      BY <3>1, Remainder
    <3> QED BY <3>1, <3>2
  <2>3. /\ {vamLfAge', vamTxAge', vamTxLfAge'} \subseteq Vam!Age /\ silent' \in 0..MaxAge
        /\ silent' = 0 \/ silent' <= silent + 1
    BY <1>3 DEF Vam!Tick, Vam!Older, Vam!Age, SilenceInv, Vam!TypeOK
  <2>4. alive => /\ posAge < Gap /\ posAge' = posAge + 1 /\ vamLfAge' = vamTxLfAge'
    BY <1>3 DEF Vam!Tick, SilenceInv
  <2>5. ~alive => posAge' = posAge /\ silent' = 0
    BY <1>3 DEF Vam!Tick
  <2>6. vamTxAge' # 0
    BY <1>3 DEF Vam!Tick, Vam!Older, Vam!Age, SilenceInv, Vam!TypeOK
  <2>7. /\ UNCHANGED <<last, alive, passive, operation>> /\ now' = (now + 1) % Wrap
        /\ passive => silent' = 0
    BY <1>3 DEF Vam!Tick
  <2>8. Vam!TypeOK'
    BY <2>1, <2>2, <2>3, <2>4, <2>5, <2>7 DEF SilenceInv, Vam!TypeOK
  <2>9. last # Never /\ Vam!Elapsed + 1 < Wrap => Vam!Elapsed' = Vam!Elapsed + 1
    BY <2>7, ElapsedGrows DEF SilenceInv
  <2> HIDE DEF Vam!TypeOK
  <2>10. posAge \in 0..Gap /\ silent \in 0..MaxAge
    BY DEF SilenceInv, Vam!TypeOK
  <2> QED
    BY <1>e, <2>3, <2>4, <2>5, <2>6, <2>7, <2>8, <2>9, <2>10 DEF SilenceInv
<1>4. CASE UNCHANGED vamVars
  <2>1. Vam!Elapsed' = Vam!Elapsed
    BY <1>4 DEF vamVars, Vam!Elapsed
  <2> QED BY <1>4, <2>1 DEF vamVars, SilenceInv, Vam!TypeOK
<1> QED
  BY <1>1, <1>2, <1>3, <1>4 DEF Vam!Next

LEMMA SilenceInvariant == Vam!Spec => []SilenceInv
<1>1. Vam!Init => SilenceInv
  <2> SUFFICES ASSUME Vam!Init PROVE SilenceInv
    OBVIOUS
  <2>1. {alive, passive, operation} \subseteq BOOLEAN
    BY Zenon DEF Vam!Init
  <2> QED
    BY <2>1, VamBounds DEF Vam!Init, SilenceInv, Vam!TypeOK, Vam!Age
<1> QED
  BY <1>1, SilenceStep, PTL DEF Vam!Spec, Vam!vars, vamVars

(* A station that is not passive sends a VAM in time, whatever the         *)
(* remainders of its clock say after a passive phase of any length         *)
(* (location_service_callback).                                            *)
THEOREM VamsAlwaysInTime == Vam!Spec => []VamsInTime
<1>1. SilenceInv => VamsInTime
  BY DEF SilenceInv, VamsInTime, Vam!VamsInTime
<1> QED
  BY <1>1, SilenceInvariant, PTL

(* No VAM goes without the low-frequency container once it is due, though  *)
(* its time is noted before the VAM is sent (_attach_lf_container_if_due). *)
THEOREM ContainerInTime == Vam!Spec => LfInTime
<1>1. SilenceInv /\ SilenceInv' /\ [Vam!Next]_vamVars =>
        [vamTxAge' = 0 /\ vamTxLfAge' # 0 => vamTxLfAge # Never /\ vamTxLfAge < LfMin]_vamVars
  <2> SUFFICES ASSUME SilenceInv, SilenceInv', Vam!Next, vamTxAge' = 0, vamTxLfAge' # 0
               PROVE  vamTxLfAge # Never /\ vamTxLfAge < LfMin
    OBVIOUS
  <2>1. vamTxLfAge' = vamTxLfAge
    BY VamBounds
    DEF Vam!Next, Vam!LocationCallback, Vam!SendNextVam, Vam!Raise, Vam!Clustering, Vam!Tick,
        Vam!Older, Vam!Age, SilenceInv, Vam!TypeOK
  <2> QED BY <2>1 DEF SilenceInv
<1> QED
  BY <1>1, SilenceInvariant, PTL DEF Vam!Spec, Vam!vars, vamVars, LfInTime, Vam!LfInTime

-----------------------------------------------------------------------------
(* Reception.                                                              *)

LEMMA PipeBounds ==
  PipeSize \in Nat /\ Received \in Nat /\ None \notin Packet
BY ServicesAssumption DEF Rx!PacketAssumption

(* The None that stop puts has arrived in the pipe.                        *)
Closed == Len(pipe) > 0 /\ pipe[Len(pipe)] = None

Quiescent == process = "gone" /\ buffer = <<>>

(* Every packet taken is handled, in the buffer or in the pipe, until one  *)
(* ends the thread; None comes once, behind all of them, because stop only *)
(* puts it when the process is gone with its buffer written.               *)
QueueInv ==
  /\ buffer \in Seq(Packet) /\ pipe \in Seq(Packet \cup {None})
  /\ taken \in Nat /\ handled \in Nat /\ sentinel \in BOOLEAN
  /\ handler # "raised" =>
       taken = handled + Len(buffer) + Len(pipe) - IF Closed THEN 1 ELSE 0
  /\ \A i \in 1..Len(pipe) : pipe[i] = None => i = Len(pipe)
  /\ main \in {"register", "freeze", "start"} => handler = "none"
  /\ process = "gone" => Quiescent
  /\ main \in {"put", "wait", "stopped"} => Quiescent
  /\ sentinel \/ Closed \/ handler = "returned" => main \in {"wait", "stopped"}
  /\ sentinel => ~Closed
  /\ handler = "returned" => pipe = <<>> /\ ~sentinel

LEMMA MainStep == QueueInv /\ Rx!Main => QueueInv'
<1> SUFFICES ASSUME QueueInv, Rx!Main PROVE QueueInv'
  OBVIOUS
<1>1. UNCHANGED <<buffer, pipe, taken, handled>>
  BY DEF Rx!Main, Rx!Register, Rx!FreezeCallbacks, Rx!Start, Rx!StopSet, Rx!SetEvent,
         Rx!StopJoin, Rx!StopPut, Rx!StopWait
<1>2. Closed' = Closed
  BY <1>1 DEF Closed
<1>3. sentinel' \in BOOLEAN
  BY Zenon DEF Rx!Main, Rx!Register, Rx!FreezeCallbacks, Rx!Start, Rx!StopSet, Rx!SetEvent,
         Rx!StopJoin, Rx!StopPut, Rx!StopWait, QueueInv
<1> USE <1>1, <1>2, <1>3 DEF QueueInv, Quiescent
<1>4. CASE Rx!Register
  BY <1>4 DEF Rx!Register
<1>5. CASE Rx!FreezeCallbacks
  BY <1>5 DEF Rx!FreezeCallbacks
<1>6. CASE Rx!Start
  BY <1>6 DEF Rx!Start
<1>7. CASE Rx!StopSet
  BY <1>7 DEF Rx!StopSet, Rx!SetEvent
<1>8. CASE Rx!StopJoin
  BY <1>8 DEF Rx!StopJoin
<1>9. CASE Rx!StopPut
  BY <1>9 DEF Rx!StopPut
<1>10. CASE Rx!StopWait
  BY <1>10 DEF Rx!StopWait
<1> QED
  BY <1>4, <1>5, <1>6, <1>7, <1>8, <1>9, <1>10 DEF Rx!Main

(* The pipe takes a packet of the buffer, or None.                         *)
LEMMA FeedStep == QueueInv /\ (Rx!Feed \/ Rx!FeedSentinel) => QueueInv'
<1> SUFFICES ASSUME QueueInv, Rx!Feed \/ Rx!FeedSentinel PROVE QueueInv'
  OBVIOUS
<1> DEFINE n == Len(pipe)
<1>1. n \in Nat /\ ~Closed /\ UNCHANGED <<main, process, handler, taken, handled>>
  BY DEF QueueInv, Quiescent, Rx!Feed, Rx!FeedSentinel
<1>2. \A i \in 1..n : pipe[i] # None
  BY <1>1 DEF QueueInv, Closed
<1>3. \A i \in 1..(n + 1) : i \in 1..n \/ i = n + 1
  BY <1>1
<1>b. sentinel' \in BOOLEAN
  BY Zenon DEF Rx!Feed, Rx!FeedSentinel, QueueInv
<1>4. CASE Rx!Feed
  <2>1. /\ Head(buffer) \in Packet /\ buffer' = Tail(buffer) /\ buffer' \in Seq(Packet)
        /\ Len(buffer') = Len(buffer) - 1 /\ Len(buffer) \in Nat
        /\ pipe' = Append(pipe, Head(buffer)) /\ sentinel' = sentinel
    BY <1>4 DEF Rx!Feed, QueueInv
  <2>2. /\ pipe' \in Seq(Packet \cup {None}) /\ Len(pipe') = n + 1
        /\ pipe'[n + 1] \in Packet /\ \A i \in 1..n : pipe'[i] = pipe[i]
    BY <2>1 DEF QueueInv
  <2> HIDE DEF n
  <2>3. \A i \in 1..(n + 1) : pipe'[i] # None
    BY <1>2, <1>3, <2>2, PipeBounds
  <2>4. ~Closed'
    BY <1>1, <2>2, <2>3 DEF Closed
  <2>5. ~Quiescent
    BY <1>4 DEF Rx!Feed, Quiescent
  <2>6. taken \in Nat /\ handled \in Nat /\ (handler # "raised" => taken = handled + Len(buffer) + n)
    BY <1>1 DEF QueueInv, n
  <2> QED
    <3>1. /\ main \notin {"put", "wait", "stopped"} /\ process # "gone"
          /\ handler # "returned" /\ ~sentinel
      BY <2>5 DEF QueueInv
    <3>2. handler' # "raised" =>
            taken' = handled' + Len(buffer') + Len(pipe') - IF Closed' THEN 1 ELSE 0
      <4>1. /\ Len(buffer') = Len(buffer) - 1 /\ Len(buffer) \in Nat
            /\ Len(pipe') = n + 1 /\ n \in Nat /\ UNCHANGED <<handler, taken, handled>>
        BY <1>1, <2>1, <2>2
      <4>2. handled + Len(buffer) + n = handled + (Len(buffer) - 1) + (n + 1) - 0
        BY <2>6, <4>1
      <4> QED BY <2>4, <2>6, <4>1, <4>2
    <3>3. \A i \in 1..Len(pipe') : pipe'[i] = None => i = Len(pipe')
      BY <2>2, <2>3
    <3> QED
      BY <1>1, <1>b, <2>1, <2>2, <2>4, <2>6, <3>1, <3>2, <3>3 DEF QueueInv
<1>5. CASE Rx!FeedSentinel
  <2>1. /\ sentinel /\ sentinel' = FALSE /\ buffer' = buffer /\ pipe' = Append(pipe, None)
    BY <1>5 DEF Rx!FeedSentinel
  <2>2. /\ pipe' \in Seq(Packet \cup {None}) /\ Len(pipe') = n + 1
        /\ pipe'[n + 1] = None /\ \A i \in 1..n : pipe'[i] = pipe[i]
    BY <2>1 DEF QueueInv
  <2>3. main \in {"wait", "stopped"} /\ handler # "returned" /\ Quiescent
    BY <2>1 DEF QueueInv
  <2>4. /\ taken \in Nat /\ handled \in Nat /\ Len(buffer) \in Nat
        /\ handler # "raised" => taken = handled + Len(buffer) + n
    BY <1>1 DEF QueueInv
  <2>5. Quiescent'
    BY <1>1, <2>1, <2>3 DEF Quiescent
  <2> HIDE DEF n
  <2>6. Closed'
    BY <1>1, <2>2 DEF Closed
  <2>7. \A i \in 1..(n + 1) : pipe'[i] = None => i = n + 1
    BY <1>2, <1>3, <2>2
  <2>8. /\ taken' = taken /\ handled' = handled /\ buffer' = buffer /\ handler' = handler
        /\ main' = main /\ ~sentinel'
    BY <1>1, <1>b, <2>1, <2>3 DEF Quiescent
  <2>9. handler' # "raised" =>
          taken' = handled' + Len(buffer') + Len(pipe') - IF Closed' THEN 1 ELSE 0
    BY <2>2, <2>4, <2>6, <2>8, <1>1
  <2> QED
    BY <2>1, <2>2, <2>3, <2>4, <2>5, <2>6, <2>7, <2>8, <2>9 DEF QueueInv
<1> QED BY <1>4, <1>5

(* The thread of the C-V2X link layer takes what is first in the pipe.     *)
LEMMA HandleStep == QueueInv /\ Rx!Handle => QueueInv'
<1> SUFFICES ASSUME QueueInv, Rx!Handle PROVE QueueInv'
  OBVIOUS
<1> DEFINE n == Len(pipe)
<1>1. /\ n \in Nat /\ n > 0 /\ pipe' = Tail(pipe) /\ pipe' \in Seq(Packet \cup {None})
      /\ Len(pipe') = n - 1 /\ Head(pipe) = pipe[1]
      /\ \A i \in 1..(n - 1) : pipe'[i] = pipe[i + 1]
  BY DEF QueueInv, Rx!Handle
<1>2. /\ UNCHANGED <<main, process, buffer, sentinel, taken>> /\ handler = "listening"
      /\ Quiescent' = Quiescent /\ Len(buffer) \in Nat
      /\ taken \in Nat /\ handled \in Nat /\ taken = handled + Len(buffer) + n - IF Closed THEN 1 ELSE 0
  BY DEF QueueInv, Rx!Handle, Quiescent
<1> HIDE DEF n
<1>3. \A i \in 1..n : pipe[i] = None => i = n
  BY DEF QueueInv, n
<1>4. Closed <=> pipe[n] = None
  BY <1>1 DEF Closed, n
<1>5. \A i \in 1..(n - 1) : pipe'[i] = None => i = n - 1
  <2> TAKE i \in 1..(n - 1)
  <2>1. i + 1 \in 1..n /\ pipe'[i] = pipe[i + 1]
    BY <1>1
  <2> QED BY <1>1, <1>3, <2>1
<1>6. CASE Head(pipe) = None
  <2>1. n = 1 /\ Closed
    BY <1>1, <1>3, <1>4, <1>6
  <2>2. pipe' = <<>> /\ Len(pipe') = 0
    BY <1>1, <2>1
  <2>3. ~Closed'
    BY <2>2 DEF Closed
  <2>4. handler' = "returned" /\ handled' = handled
    BY <1>6 DEF Rx!Handle
  <2>5. ~sentinel /\ main \in {"wait", "stopped"} /\ Quiescent
    BY <2>1 DEF QueueInv
  <2> QED
    BY <1>1, <1>2, <1>5, <2>1, <2>2, <2>3, <2>4, <2>5 DEF QueueInv, Quiescent
<1>7. CASE Head(pipe) # None
  <2>1. \/ handler' = "raised" /\ handled' = handled
        \/ handled' = handled + 1 /\ handler' = handler
    BY <1>7 DEF Rx!Handle, Rx!Call
  <2>2. Closed' = Closed
    <3>1. CASE n = 1
      <4>1. ~Closed
        BY <1>1, <1>4, <1>7, <3>1
      <4>2. Len(pipe') = 0
        BY <1>1, <3>1
      <4> QED BY <4>1, <4>2 DEF Closed
    <3>2. CASE n > 1
      <4>1. n - 1 \in 1..(n - 1) /\ (n - 1) + 1 = n
        BY <1>1, <3>2
      <4>2. pipe'[n - 1] = pipe[n] /\ Len(pipe') = n - 1 /\ n - 1 > 0
        BY <1>1, <3>2, <4>1
      <4> QED BY <1>4, <4>2 DEF Closed
    <3> QED BY <1>1, <3>1, <3>2
  <2>3. main \notin {"register", "freeze", "start"}
    BY <1>2 DEF QueueInv
  <2> QED
    BY <1>1, <1>2, <1>5, <2>1, <2>2, <2>3 DEF QueueInv
<1> QED BY <1>6, <1>7

LEMMA QueueStep == QueueInv /\ [Rx!Next]_rxVars => QueueInv'
<1> SUFFICES ASSUME QueueInv, [Rx!Next]_rxVars PROVE QueueInv'
  OBVIOUS
<1>1. ASSUME NEW p \in Packet, Rx!RawReceive(p) PROVE QueueInv'
  <2>1. Closed' = Closed /\ Quiescent' = Quiescent
    BY <1>1 DEF Rx!RawReceive, Closed, Quiescent
  <2> QED
    BY <1>1, <2>1 DEF QueueInv, Rx!RawReceive, Rx!Call
<1>2. ASSUME NEW p \in Packet, Rx!Take(p) PROVE QueueInv'
  <2>1. Closed' = Closed /\ process' = "check"
    BY <1>2 DEF Rx!Take, Closed
  <2>2. ~Quiescent
    BY <1>2 DEF Rx!Take, Quiescent
  <2>3. buffer' \in Seq(Packet) /\ Len(buffer') = Len(buffer) + 1 /\ Len(buffer) \in Nat
    BY <1>2 DEF Rx!Take, QueueInv
  <2> QED
    BY <1>2, <2>1, <2>2, <2>3 DEF QueueInv, Rx!Take
<1>3. CASE Rx!Check \/ Rx!TakeNothing \/ Rx!Leave \/ UNCHANGED rxVars
  <2>1. Closed' = Closed
    BY <1>3 DEF Rx!Check, Rx!TakeNothing, Rx!Leave, rxVars, Closed
  <2> QED
    BY <1>3, <2>1 DEF QueueInv, Quiescent, Rx!Check, Rx!TakeNothing, Rx!Leave, rxVars
<1> QED
  BY <1>1, <1>2, <1>3, MainStep, FeedStep, HandleStep DEF Rx!Next

LEMMA QueueStart == Rx!Init => QueueInv
<1> SUFFICES ASSUME Rx!Init PROVE QueueInv
  OBVIOUS
<1>1. Len(<<>>) = 0 /\ 1..0 = {}
  OBVIOUS
<1>2. sentinel \in BOOLEAN
  BY Zenon DEF Rx!Init
<1> QED BY <1>1, <1>2 DEF Rx!Init, QueueInv, Closed

(* What the process has taken is handled before stop returns, for pipes    *)
(* and behaviours of any length (PythonCV2XLinkLayer.stop).                *)
THEOREM AlwaysHandledBeforeStop == Rx!Spec => []HandledBeforeStop
<1>1. QueueInv => HandledBeforeStop
  <2>1. Len(<<>>) = 0
    OBVIOUS
  <2> QED
    BY <2>1 DEF QueueInv, Quiescent, Closed, HandledBeforeStop, Rx!HandledBeforeStop
<1> QED
  BY <1>1, QueueStart, QueueStep, PTL DEF Rx!Spec, Rx!vars, Rx!Setting, rxVars

-----------------------------------------------------------------------------
(* The types of all services.                                              *)

(* No more is handled than was taken; a thread that a packet has ended     *)
(* handles nothing any more.                                               *)
ReceptionInv == QueueInv /\ Rx!TypeOK /\ handled <= taken

LEMMA NotMoreHandled == QueueInv /\ handler # "raised" => handled <= taken
<1> SUFFICES ASSUME QueueInv, handler # "raised" PROVE handled <= taken
  OBVIOUS
<1>1. /\ taken = handled + Len(buffer) + Len(pipe) - IF Closed THEN 1 ELSE 0
      /\ Len(buffer) \in Nat /\ Len(pipe) \in Nat /\ taken \in Nat /\ handled \in Nat
      /\ Closed => Len(pipe) > 0
  BY DEF QueueInv, Closed
<1> QED BY <1>1

LEMMA ReceptionStep == ReceptionInv /\ [Rx!Next]_rxVars => ReceptionInv'
<1> SUFFICES ASSUME ReceptionInv, [Rx!Next]_rxVars PROVE ReceptionInv'
  OBVIOUS
<1>1. QueueInv'
  BY QueueStep DEF ReceptionInv
<1>2. {cv2x', security', frozen', stopping', sentinel'} \subseteq BOOLEAN
  <2>1. UNCHANGED <<cv2x, security>>
    BY DEF Rx!Next, Rx!Main, Rx!Register, Rx!FreezeCallbacks, Rx!Start, Rx!StopSet,
           Rx!StopJoin, Rx!StopPut, Rx!StopWait, Rx!RawReceive, Rx!Check, Rx!Take,
           Rx!TakeNothing, Rx!Leave, Rx!Feed, Rx!FeedSentinel, Rx!Handle, Rx!Setting, rxVars
  <2>2. frozen' \in {frozen, TRUE} /\ stopping' \in {stopping, TRUE}
    BY DEF Rx!Next, Rx!Main, Rx!Register, Rx!FreezeCallbacks, Rx!Start, Rx!StopSet,
           Rx!StopJoin, Rx!StopPut, Rx!StopWait, Rx!RawReceive, Rx!Check, Rx!Take,
           Rx!TakeNothing, Rx!Leave, Rx!Feed, Rx!FeedSentinel, Rx!Handle, Rx!SetEvent, rxVars
  <2>3. sentinel' \in BOOLEAN
    BY <1>1 DEF QueueInv
  <2> QED
    BY <2>1, <2>2, <2>3, Zenon DEF ReceptionInv, Rx!TypeOK
<1>3. /\ main' \in {"register", "freeze", "start", "run", "join", "put", "wait", "stopped"}
      /\ process' \in {"none", "check", "receive", "leaving", "gone"}
      /\ handler' \in {"none", "listening", "raised", "returned"}
  BY DEF ReceptionInv, Rx!TypeOK, Rx!Next, Rx!Main, Rx!Register, Rx!FreezeCallbacks,
         Rx!Start, Rx!StopSet, Rx!StopJoin, Rx!StopPut, Rx!StopWait, Rx!RawReceive,
         Rx!Check, Rx!Take, Rx!TakeNothing, Rx!Leave, Rx!Feed, Rx!FeedSentinel,
         Rx!Handle, Rx!Call, rxVars
<1>4. Len(pipe') <= PipeSize
  <2>1. Len(pipe) \in Nat /\ Len(pipe) <= PipeSize
    BY DEF ReceptionInv, QueueInv, Rx!TypeOK
  <2>2. CASE UNCHANGED pipe
    BY <2>1, <2>2
  <2>3. CASE Rx!Feed \/ Rx!FeedSentinel
    <3>1. Len(pipe) < PipeSize /\ \E x : pipe' = Append(pipe, x)
      BY <2>3 DEF Rx!Feed, Rx!FeedSentinel
    <3>2. Len(pipe') = Len(pipe) + 1
      BY <3>1 DEF ReceptionInv, QueueInv
    <3> QED BY <2>1, <3>1, <3>2, PipeBounds
  <2>4. CASE Rx!Handle
    <3>1. pipe # <<>> /\ pipe' = Tail(pipe)
      BY <2>4 DEF Rx!Handle
    <3>2. Len(pipe') = Len(pipe) - 1
      BY <3>1 DEF ReceptionInv, QueueInv
    <3> QED BY <2>1, <3>2, PipeBounds
  <2> QED
    BY <2>2, <2>3, <2>4
    DEF Rx!Next, Rx!Main, Rx!Register, Rx!FreezeCallbacks, Rx!Start, Rx!StopSet,
        Rx!StopJoin, Rx!StopPut, Rx!StopWait, Rx!RawReceive, Rx!Check, Rx!Take,
        Rx!TakeNothing, Rx!Leave, rxVars
<1>5. taken \in Nat /\ handled \in Nat /\ handled <= taken /\ taken <= Received
  BY PipeBounds DEF ReceptionInv, QueueInv, Rx!TypeOK
<1>6. taken' \in Nat /\ handled' \in Nat
  BY <1>1 DEF QueueInv
<1>7. taken' <= Received /\ taken' >= taken
  BY <1>5, PipeBounds
  DEF Rx!Next, Rx!Main, Rx!Register, Rx!FreezeCallbacks, Rx!Start, Rx!StopSet,
      Rx!StopJoin, Rx!StopPut, Rx!StopWait, Rx!RawReceive, Rx!Check, Rx!Take,
      Rx!TakeNothing, Rx!Leave, Rx!Feed, Rx!FeedSentinel, Rx!Handle, rxVars
<1>8. handled' <= taken'
  <2>1. CASE handler' # "raised"
    <3>1. (QueueInv /\ handler # "raised" => handled <= taken)'
      BY NotMoreHandled, PTL
    <3> QED BY <1>1, <2>1, <3>1
  <2>2. CASE handler' = "raised"
    <3>1. handled' = handled
      BY <2>2
      DEF Rx!Next, Rx!Main, Rx!Register, Rx!FreezeCallbacks, Rx!Start, Rx!StopSet,
          Rx!StopJoin, Rx!StopPut, Rx!StopWait, Rx!RawReceive, Rx!Check, Rx!Take,
          Rx!TakeNothing, Rx!Leave, Rx!Feed, Rx!FeedSentinel, Rx!Handle, Rx!Call, rxVars
    <3> QED BY <1>5, <1>6, <1>7, <3>1
  <2> QED BY <2>1, <2>2
<1>9. {taken', handled'} \subseteq 0..Received
  BY <1>6, <1>7, <1>8, PipeBounds
<1>10. buffer' \in Seq(Packet)
  BY <1>1 DEF QueueInv
<1> QED
  BY <1>1, <1>2, <1>3, <1>4, <1>8, <1>9, <1>10, Zenon DEF ReceptionInv, Rx!TypeOK

(* Every service keeps the shape of its state, for every value of its      *)
(* constants: the history of elapsed times the CAM service takes its       *)
(* interval from, the packets in buffer and pipe, the DENMs under way.     *)
THEOREM AlwaysTyped ==
  Spec /\ Den!Spec /\ Vam!Spec /\ Rx!Spec /\ Bcn!Spec /\ Dcc!Spec => []ServicesTyped
<1>1. Den!Spec => []Den!TypeOK
  <2>1. EventInv => Den!TypeOK
    <3> SUFFICES ASSUME EventInv PROVE Den!TypeOK
      OBVIOUS
    <3>1. ASSUME NEW e \in Den!Event
          PROVE  spent[e] \in Nat /\ denm[e] \in Seq(0..Events) /\ Len(denm[e]) <= Len(Den!Reads)
      BY FieldsRead DEF EventInv, DenmInv, Told
    <3> QED BY <3>1 DEF EventInv, PositionInv, Den!TypeOK
  <2> QED BY <2>1, EventInvariant, PTL
<1>2. Vam!Spec => []Vam!TypeOK
  <2>1. SilenceInv => Vam!TypeOK
    BY DEF SilenceInv
  <2> QED BY <2>1, SilenceInvariant, PTL
<1>3. Rx!Spec => []Rx!TypeOK
  <2>1. Rx!Init => ReceptionInv
    <3> SUFFICES ASSUME Rx!Init PROVE ReceptionInv
      OBVIOUS
    <3>1. {cv2x, security, frozen, stopping, sentinel} \subseteq BOOLEAN
      BY Zenon DEF Rx!Init
    <3>2. /\ buffer \in Seq(Packet) /\ Len(pipe) <= PipeSize
          /\ {taken, handled} \subseteq 0..Received /\ handled <= taken
      BY PipeBounds DEF Rx!Init
    <3>3. /\ main \in {"register", "freeze", "start", "run", "join", "put", "wait", "stopped"}
          /\ process \in {"none", "check", "receive", "leaving", "gone"}
          /\ handler \in {"none", "listening", "raised", "returned"}
      BY DEF Rx!Init
    <3>4. Rx!TypeOK
      BY <3>1, <3>2, <3>3, Zenon DEF Rx!TypeOK
    <3> QED BY QueueStart, <3>2, <3>4 DEF ReceptionInv
  <2>2. ReceptionInv => Rx!TypeOK
    BY DEF ReceptionInv
  <2> QED
    BY <2>1, <2>2, ReceptionStep, PTL DEF Rx!Spec, Rx!vars, Rx!Setting, rxVars
<1>4. Bcn!Spec => []Bcn!TypeOK
  <2>1. BeaconInv => Bcn!TypeOK
    BY DEF BeaconInv
  <2> QED BY <2>1, BeaconInvariant, PTL
<1>5. Dcc!Spec => []Dcc!TypeOK
  <2>1. CongestionInv => Dcc!TypeOK
    BY DEF CongestionInv
  <2> QED BY <2>1, CongestionInvariant, PTL
<1> QED
  BY <1>1, <1>2, <1>3, <1>4, <1>5, TypeCorrect, PTL DEF ServicesTyped
=============================================================================

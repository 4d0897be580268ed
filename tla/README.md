# FlexStack in TLA+

FlexStack (`src/src/flexstack/`) is a C-ITS stack in Python: GeoNetworking and
BTP, the Cooperative Awareness, DEN and VRU awareness services, the Local
Dynamic Map, congestion control and message security.  This directory holds
TLA+ models of its components, the instances TLC checks, and theorems about
them that TLAPS proves for every value of their constants.

`PROJECT.json` lists components, runs, mutants (a plausible slip for each
property, which makes TLC refute it), the source lines of every definition,
findings, hazards and theorems.  Paths below are relative to
`src/src/flexstack/`.

    tlc -workers 2 -config STATION.cfg MCStation
    tlapm LocationService_proofs.tla

## 1. Inventory

### The parts and how they interact

    application   CAM service      VRU service       DEN service     LDM clients
                     |  location updates, timers, threads  |              |
                     +----------------- BTP ---------------+------ Local Dynamic Map
                                         |
                               GeoNetworking router ---- sign / verify, certificates
                                 |  location table
                                 |  Location Service
                                 |  CBF buffer, beacons
                                     link layer (receive thread)

Requests go down in the thread of the caller (an application, a timer, or the
thread of one DENM); packets come up in the receive thread of the link layer,
which runs every handler up to the Local Dynamic Map and the applications.
Timers are `threading.Timer` objects, each with a thread of its own.  Threads
meet in shared objects, some of them with a lock and some without; this is where
most of what is hard to test lies.

| Component | State | Operations | What makes it correct |
|---|---|---|---|
| Location Service (`geonet/router.py`) | placeholders with `ls_pending`, buffers, timers, counters | request, search, retransmit, give up, reply, flush | a request is queued while its station is sought, sent once, never stranded; retransmission stops with the search |
| Location table (`geonet/location_table.py`) | entries: position, neighbour flag, duplicate packet list | the `new_*_packet` handlers, `ensure_entry`, `refresh_table` | the newest unexpired position is listed; a repeated packet is recognised; what expired goes (all three only as far as a clock cut to seconds lets them) |
| Timestamps (`geonet/position_vector.py`) | - | order and difference modulo 2^32 | agree with real time over less than half a period |
| GBC, GAC (`geonet/router.py`) | contention buffer, its timers, duplicate packet lists | request and reception, CBF, greedy | sent and delivered once per station, reaches the area, dies out |
| GUC, TSB (`geonet/router.py`) | duplicate packet lists, location table | request, forward, indicate | the packet arrives once, also at a station that moved |
| Beacons (`geonet/router.py`) | event | beacon thread, SHB reset | no longer silent than the refused beacons account for, no beacon soon after an SHB |
| BTP (`btp/router.py`) | callbacks by port, frozen or not | register, freeze, indicate | an indication reaches the callback of its port |
| CAM service (`facilities/ca_basic_service/`) | `_active`, `_timer`, T_GenCam, times of the last CAM | start, stop, position, timer callback | one chain of timers, alive while active; CAMs neither too close nor too far apart |
| VRU clustering (`facilities/vru_awareness_service/vru_clustering.py`) | state, join and leave substates, cluster, nearby tables | role on/off, create, join, leave, break up, received VAM, update | fields agree; a passive station is silent; leader and members agree; nobody stays silent without a leader |
| VAM service (`.../vam_transmission_management.py`) | last VAM | position callback, VAM | a VAM in time across the wrap of its clock, the low-frequency container too |
| DEN service, road hazard application | one position, a thread per event | trigger, repetition until the end | an event is repeated for its time, and tells its own position |
| LDM service (`facilities/local_dynamic_map/ldm_service*.py`, `if_ldm_*.py`) | providers, consumers, subscriptions | register, subscribe, cancel, add, update, delete, attend | a subscriber is notified while subscribed, and no more often than it asked for |
| LDM maintenance and stores | records by number | add, update, remove, collect | an expired record goes, no other does |
| DCC (`management/`) | state; duty cycle, gate times | update; packet, tick | the state of the band in the end; gate gaps within bounds |
| Signing, P2PCD (`security/sign_service.py`, `verify_service.py`) | certificates unknown and requested | sign, verify, notify | stations that hear each other get to know each other |
| Certificate library (`security/certificate_library.py`) | roots, authorities, tickets | add, verify a sequence | every certificate held has a chain to a root |
| Link layer (`linklayer/`) | thread, or process, queue and thread | receive, stop | packets taken are handled before the stop; `stop` returns |

Without state to speak of, and left aside: coders, headers, ASN.1,
cryptography, the PKI client, clock and GPS sources, examples (section 5).

### Hard behaviours

* Threads between two critical sections: the Location Service starts a timer
  outside its lock and records it later; the CAM and the signing service have no
  lock at all; subscriptions are copied and served without one; a VAM is built
  from three questions to a manager that may change in between.
* The air loses, repeats and reorders frames; every station forwards on its own.
* Timers that elapse while they are cancelled, and retries of what is over.
* Entries that expire between two steps of a protocol.
* Clocks modulo 2^32 and 2^16, and one cut to seconds.
* Steps that fail halfway: a CAM sent and then refused by the Local Dynamic Map,
  a VAM whose container raises, a callback that ends the thread of a service.

Each is listed at its line under `hazards` in `PROJECT.json`, with the
properties about it, or with what was found instead of a property.

## 2. Modules

| Module | Models | About the code |
|---|---|---|
| `RequestDelivery` | abstract: the fate of a unicast request | the promise of `gn_data_request_guc` |
| `LocationService` | threads of a lookup; implements `RequestDelivery` | `geonet/router.py`, LS |
| `Timestamp` | TST | `geonet/position_vector.py` |
| `LocationTable` | the table, over `Timestamp` | `geonet/location_table.py` |
| `GeoBroadcast` | a GBC or GAC packet through a network | `geonet/router.py`, GBC, GAC, CBF |
| `PacketForwarding` | a unicast packet from lookup to delivery, and a TSB packet, through a network | `geonet/router.py`, GUC, TSB, LS |
| `BeaconService` | the beacon thread and what resets it | `geonet/router.py`, beacons, SHB |
| `PacketReception` | link layer, dispatch, BTP, `stop` | `linklayer/`, `btp/router.py` |
| `CamTransmission` | the CAM timer chain | `cam_transmission_management.py` |
| `VamTransmission` | when a VAM goes out | `vam_transmission_management.py` |
| `VruCluster` | cluster managers that exchange VAMs | `vru_clustering.py`, and its users |
| `DenService` | events and their threads | DEN service, road hazard application |
| `LdmStore` | abstract: the life of a record | the promise of the Local Dynamic Map |
| `LdmService` | store, maintenance, service, interfaces; implements `LdmStore` | `local_dynamic_map/` |
| `CongestionControl` | `DccReactive`, `GateKeeper` | `management/` |
| `CertificateLibrary` | chains of trust (operators, no state) | `certificate_library.py`, `certificate.py` |
| `CertificateDistribution` | stations that sign, verify and ask for certificates | `sign_service.py`, `verify_service.py` |
| `StationServices` | the services of one station side by side (over `CamTransmission`) | - |
| `NetworkServices` | the packets of a network side by side (over `GeoBroadcast`) | - |
| `ClusterServices` | clusters where nothing fails, where leaders vanish and where all else fails (over `VruCluster`) | - |
| `ServiceThreads` | Location Service and CAM service, threads at will (over `LocationService`) | - |
| `MC*` | instances for TLC | - |
| `*_proofs` | theorems | - |

An action is what one thread does between two points where another may get in: a
critical section, or the code between two.  Operators headed "Slip" are not part
of the model: each is the mistake that a mutant puts in the place of the operator
after it.

`LocationService`.  `position` is the table as far as unicast sees it: no entry,
the placeholder, or a heard one.  `Issue`, `LookupMiss`, `LookupHit` are
`gn_data_request` and `gn_data_request_guc`; `JoinSearch`, `BeginSearch`,
`StartTimer`, `StoreTimer` the regions of `gn_ls_request`; `Elapse`, `GiveUp`,
`Retransmit`, `RestartTimer`, `StoreRestarted` those of `_ls_retransmit`;
`Receive` to `FlushOver` a reception and `gn_data_indicate_ls_reply`.
`PromptStore` (a timer is recorded before it can elapse, that is within 1 s) holds
in all runs; `HeardMayExpire` lets heard positions pass their lifetime of 20 s.

`LocationTable`.  Only the receive thread updates the table, so one packet is one
action with its whole handler; `newest` and `recent` record what was heard.
`refresh_table` compares with the last whole second (`LastSecond`), as the code
does: a position from within the current second looks almost 2^32 ms old and is
dropped at once, with its list of packets.  `settled` is the newest position heard
since that last happened; it is what the table promises something about.
`ZeroTst` allows positions acquired at timestamp 0 (excluded in the runs).

`GeoBroadcast`.  Stations stand still; frames reach each station in range in any
order, or get lost.  `Receive` is the handler of a frame with all its branches,
`Elapse` and `CbfTimeout` the contention timers, `Forget` the loss of a duplicate
packet list.  What a station knows of its neighbours is left open: any choice the
algorithms may make from some table is allowed.

`PacketForwarding`.  One packet from a station to another that it has to look
for: flooding of the LS request and reply, retransmissions, the flush, greedy
forwarding and the refresh of the destination's position at relays.  A scenario
names what goes wrong (`Trouble`: frames lost, a destination that moves, tables
that miss neighbours or forget, refusal, an early timer).  The link layer
broadcasts replies and unicast packets too, which is why each is a packet to be
recognised by every station.

`CamTransmission`.  `timer` and `left` are the Timer objects, `pc` the threads:
`start`, `stop`, `_schedule_next_check` statement by statement (`self._timer` is
read anew by each), and the callback.  `Transmit` may fail in three ways: `build`
(construction raises), `send` (coding or BTP raises), `ldm` (sent, then refused).
`Calm` lets start and stop come only while no callback runs.  The history variable
`troubled` says that a thread was late or a CAM failed; `CamsInTime` promises
nothing then.

`VamTransmission`.  One thread calls `location_service_callback`; times are
remainders modulo 65536 ms (`Wrap`).  A VAM that raises ends that thread, so that
nothing is promised afterwards (`alive`).

`VruCluster`.  The manager of a station is a record, each of its operations, which
holds its lock, an operator from manager to manager; building a VAM asks it three
times, each an action.  A second is one step (`Tick`), after which each station
calls `update` and builds a VAM.  `Trouble` names what may happen: lost VAMs,
switching the role off (a leader vanishes without a word), breakup for a CPM, an application that starts something
during a join or leave, identifiers used again, changes while a VAM is built.

`DenService`.  The position is one dictionary of which every request holds a
reference; a value is the number of the event that wrote it, and a DENM reads it
four times.  An event writes the fields its `tpv` has, any or none: what is missing
stays as an earlier event left it.  `Fail` is an exception of coding or sending, at
any repetition.  `PacketReception`.  `multiprocessing.Queue` is a buffer in the
process that puts, whose feeder thread writes to a bounded pipe.
`BeaconService`.  `Event.wait` and `Event.clear` are steps of their own, so that an
SHB may come in between.  A beacon that the link layer takes is `Send`, one that it
refuses with an exception the code swallows `Refuse` (the thread waits a whole timer
all the same), and any other exception (`Raise`) ends the thread.
`CongestionControl`.  Channel load is the band of the
table it lies in, duty cycles are powers of two.

`LdmService`.  A thread takes one step per lock region or callback; `LDMFactory`
chooses reactive or threaded forms (`way`).  The age of records is what decides:
content is left out, all records match all subscriptions.  Ages are whole seconds
as in the code (`TimestampIts`).

`CertificateDistribution`.  A CAM is signed in four steps (`Header`, `Pop`,
`SetUpSigner`, `Encode`) between which the receive thread changes the lists.  A
verification is a step up to the first thing it tells the `SignService`; then
`FlagUnknown` is the second half of `notify_unknown_at`, `AnswerNext` one round of
the loop of `notify_inline_p2pcd_request`, and `LookUp`, `TakeOff` and `Keep` are
`notify_received_ca_certificate`, which looks a request up and takes it off without
a lock, against `Pop`.  When the CAM was faster, `remove` raises `ValueError`, which
nothing catches: the receive thread ends (`dead`), and the station is `Deaf` from
then on.  `Overhear` brings messages of stations that are not modelled.  The list of unknown tickets in a message is the list
itself and not a copy: a CAM whose list changed is encoded twice in different
ways and its signature does not fit (`genuine`).

Left abstract where no property tells the difference: contents of messages beyond
what a handler branches on, distances, the packet data rate (refusal is a
choice), cryptography (a signature fits or not).

## 3. Runs

A behaviour of `MCStation`, `MCNetwork`, `MCLocationTable`, `MCLocationService`
and `MCVruCluster` is of one *part*: one of several instances, chosen in the
initial state, that share a run and never meet.  A property of one part holds in
the others because they leave its variables alone, or is stated for its part.
The instances and what each promises are in `StationServices`, `NetworkServices`,
`ServiceThreads` and `ClusterServices`, for all values of the constants, so that
what a run checks is word for word what a theorem states; the `MC` modules add
the values and the choice of a part.

| Run | Shows |
|---|---|
| `station` (`MCStation`) | parts cam, den, vam, map, reception, beacon, congestion: what the threads of one station do on their own |
| `network` (`MCNetwork`) | parts broadcast, anycast, forward, lookup: what a network delivers, in every order of frames and timers |
| `table` (`MCLocationTable`) | parts table and storm: packets late, repeated and reordered across the wrap of the timestamp; a broadcast among stations that forget it |
| `threads` (`MCLocationService`) | parts search and cams: the safety of the Location Service and of the CAM service in every interleaving, start and stop during callbacks and all failures included |
| `vru` (`MCVruCluster`) | parts calm (no `Trouble`), fickle (`role`: leaders vanish) and wild (all the rest of `Trouble`) |
| `ldm` (`MCLdmService`) | two callers, a collector and a service thread, threaded or reactive |
| `sec` (`MCCertificates`) | two stations that are strangers, with losses; or one among others that are not modelled, who ask for an authority and send it, so that the two threads meet, and an application that presents a forbidden ticket |
| `den_position` (violated) | a later event changes the position that an earlier one repeats |
| `cv2x_stop` (violated) | `stop` waits for ever after a handler raised |
| `ldm_delete` (violated) | a record deleted with success is still there |
| `lt_trunc` (violated) | a position younger than the last whole second is deleted at once |
| `ls_lost` (violated) | a third station's packet drops the placeholder; the next search overwrites the buffer |

What the properties say (each is stated in full above its definition):

* CAM: `OneChain` of timers and `CamsRegular` (no CAM within T_GenCam_DCC of
  another, low-frequency container on its period) when start and stop do not meet
  a callback; `CamsInTime`; `CamsGoOn` after failures; `ServiceAlive`
  without any condition.
* VAM: `VamsInTime`, `LfInTime`.  DENM: `NeverOlder` (a repetition never goes back
  before what its event or an earlier one wrote), `Announced` (for all of its period,
  unless it fails itself, and though others do).
* Map: `MapCleaned`, `MapServed`, `NotTooOften`, `Farewell` (how much a subscriber
  may still hear after it left), `KeepsPromise` (`LdmStore`).
* Reception: `HandledBeforeStop`, `StopReturns` (when no handler has raised).
* Beacons: `NeverSilent` (the silence is at most one timer, and one more for each
  beacon refused in it), `NotRedundant`.  Congestion: `CongestionControlled`.
* Forwarding: `ForwardsOnce`, `ArrivesOnce`, `BroadcastsReach`, `AnycastReaches`,
  `UnicastArrives`, `StormDiesOut`.  Lookup: `LookupSettles`, `SilenceReturns`,
  `NeverStranded`, `DeliversAtMostOnce` (`RequestDelivery`).
* Table: `AcceptedOnce` (a number is accepted once while its station stays in the
  table), `SettledIsListed` (what `refresh_table` did not drop at once is listed
  until it expires), both with the code's clock.  That the newest position is
  listed whatever second it is from, `NewestIsListed`, is what `lt_trunc` refutes.
* Clusters: `Consistent`, `PassiveSilent`; in calm behaviours `CalmMembersCounted`,
  `CalmNoGhosts`; `NobodyStuck`: where nothing fails a breakup frees the members and
  joins end, and where leaders vanish the continuity timeout frees them.
* Security: `ChainOfTrust`, `AnsweredSoon`, `Acquainted`.

### Bounds and why they are enough

* CAM: two timers for a calm service (one that calls back while the next is made),
  three where chains may double.  Periods are small integers in the order of the
  code's (T_CheckCamGen <= T_GenCamMin <= T_GenCam_DCC <= T_GenCamMax).  In
  `station` T_GenCam_DCC is above T_CheckCamGen, which the comment on the constant
  allows, because at equality the timer alone would space the CAMs.
* VAM: a wrap of 8 that passes several times while a station is passive.
* DENM: two events, two repetitions each, either of which may fail at any.
* Beacons: at most two refusals in a silence (`MaxRefused`).
* Reception: three packets, a pipe that holds one, packets that fail in each way
  that the caller tells apart.
* Map: one or two records, one subscription, records out of date after a second;
  a thread may hold a timestamp for a second (`Stall`).
* Location Service: two requests, up to two packets, one retransmission (the
  counter reaches its limit), six timers, more than threads ever need at once.
* Table: a second of two instants, so that the clock of `refresh_table` is really
  cut; a period of 16 which wraps halfway, a lifetime of 3, delays up to 3 (a
  packet may arrive expired), two stations, three sequence numbers over lists of
  two.  `SilenceAssumption` keeps a behaviour under half a period (24 days in the
  code), beyond which no comparison means anything.  The run ends at `MaxClock`.
* Networks: a ladder of five (two paths, two forwarders that hear each other, an
  end two hops away), a diamond and a lollipop of four; three hops, one more than
  the shortest way, so that packets come back.
* Clusters: two stations, who both may lead; one identifier each, or one for all
  where identifiers may come back.  Periods of one or two VAMs; a leave is
  announced for two, because the code's promise needs more than one VAM.  The role
  is switched in a part of its own (`fickle`), as all of `Trouble` at once is beyond
  TLC; `AlwaysConsistent` and `PassiveAlwaysSilent` are proved for every combination.
* Security: two authorities under a root, tickets of each, and one that its
  authority must not issue; an inbox of one.  `World` says which stations are there
  and what else comes in.  The strangers send CAMs and DENMs; the messages of the
  others are four: two full certificates, one permitted and one not, a request for
  an authority and for a ticket, and an authority.  That is what it takes for each
  branch of `notify_*`, the one that ends the thread included.

The one symmetry used is that of the CAM service's timers in `threads`, a run of
safety properties only.

Deadlock is not checked where the system may rightly stop: no timer is armed, all
packets are delivered, a bound is reached, a service was stopped.  It is checked in
`vru`, where time always passes.

### Fairness

Threads run and timers elapse: weak fairness of each thread's next step (the
system scheduler is fair, and no lock is held across a wait).  Where time is
modelled it passes.  Nothing obliges an application to start or stop, a station to
answer, or a frame to get through: `network` excludes losses but for those the
lookup makes good (at most as many as there are retransmissions).  A packet that
a property is about is asked for, hence fairness of `Request`.  The threads of a
link layer only run on while the code has them run: the handler that raised
does not.  `sec` uses strong fairness: a station signs again and again although its steps
are disabled by a full inbox, more than a second passes again and again since the
last certificate, and of infinitely many CAMs with the certificate one is heard.

## 4. Theorems

Each holds for every value of the constants that satisfies the ASSUMEs of the
module.  Every invariant of a passing run, and every action property but those
of liveness, is stated by one of them.

| Theorem | Argument |
|---|---|
| `LocationService_proofs!TypeCorrect` | inductive, one lemma per thread kind |
| `PendingSafe` | `TypeOK /\ PendingHasBuffer` is inductive: flag and buffer change in one critical section, except that an entry may go first, which only clears the flag |
| `StrandedNever`, `BookkeepingKept` (given `PromptStore`) | `StrandInv`: `NeverStranded` alone is not inductive, since a cancel might hit the timer of another thread; `TimerBookkeeping` says that a timer not yet recorded is known to one thread only, and what is recorded belongs to its address |
| `ImplementsDelivery` | refinement of `RequestDelivery`: by `HolderInv` a request is in one place only, with its thread, in the buffer of its destination or in the flush list, there once, and nothing has become of it yet; every step moves requests, hands one over, drops some or leaves them alone |
| `RaceAlive` | `AlwaysAlive` (below), for the CAM service of `ServiceThreads` |
| `LocationTable_proofs!TstMinusIsAge`, `TstGtIsLater`, `TstGtAsymmetric`, `TstGtTotal` | modular arithmetic, from Euclid's division |
| `TypeCorrect`, `DplAlwaysAgrees` | inductive |
| `SettledKept`, `AcceptedOnceOnly`, `ExpiredDropped` (no position of timestamp 0, less than half a period; any length of a second) | `IInv`: what is listed comes from an instant not before the first, and is that of `settled` unless that expired; the remembered numbers are those of `recent` |
| `GeoBroadcast_proofs!TypeCorrect`, `HopsAlwaysBounded` | frames come from stations in range, and `Hops + rhl <= MaxHops` also for the packets in buffers |
| `OnceOnly` (no forgetting) | `OnceInv`: a station that has not heard the packet has done nothing, and one that still buffers it has not sent it |
| `BufferedAlwaysHasTimer` | inductive with types: identities of live timers are distinct |
| `AlwaysArrivesOnce` (of `NetworkServices`; no forgetting) | `CarriageInv`: nothing is sent before the search is over, all frames of data are of one packet, and who has delivered it has it in its list |
| `FramesFit` | inductive: an answer repeats a number that was received, and a frame goes on with its hop limit lowered and above 0 |
| `CamTransmission_proofs!TypeCorrect` | inductive |
| `AlwaysAlive` | with `StopInactive` (while stop is at work the service is not active): any number of timers, any interleaving, any failures |
| `CalmOneChain`, `CalmStopCancels` (given `Calm`) | `ChainInv`: at most one busy timer, the armed one is the one `_timer` holds, and none is busy while the application's thread makes one |
| `CalmRegular` (given `Calm`, the map refuses no CAM) | `SpacedInv`: the times the rules go by are those of what went out, except between sending and `_update_send_state`, where the CAM at hand has them |
| `CalmInTime` (given `Calm`, T_GenCamMax a multiple of T_CheckCamGen) | `PunctualInv`: while no thread is late, the wait is the age of the last CAM, and every check to come falls on a multiple of T_CheckCamGen after it, at T_GenCamMax the latest |
| `StationServices_proofs!AlwaysTyped` | an inductive invariant for each service: its types with what follows in the rows below, and that no more packets are handled than were taken |
| `PositionsNeverOlder`, `EndsAnnounced` | `EventInv`: each field of the position is at least the last event whose `tpv` had it, and never goes back; what a DENM tells lies between the last such event up to its own and the position now. `CountInv`: a thread has slept as many intervals as it has sent DENMs, so that one that ends has sent all and one that fails has not |
| `VamsAlwaysInTime`, `ContainerInTime` | `SilenceInv`: the silence is no longer than the position is old, or the remainder since the last VAM was below T_GenVam at the last position and grows with the silence from there; the time noted for the container is that of the last VAM that had it |
| `AlwaysHandledBeforeStop` | `QueueInv`: every packet taken is handled, in the buffer or in the pipe until one ends the thread, and the None of `stop` comes once, behind all of them |
| `AlwaysHeard`, `BeaconsNeeded` | `BeaconInv`: with punctual threads the silence is no longer than the thread has waited and the whole timers it waited for refused beacons; with any threads it is as long, but for a packet whose reset is on its way |
| `AlwaysControlled` | `CongestionInv`: after k updates in a band the state is at most 4 - k away from it; once a packet was admitted the interval is within its bounds |
| `LdmService_proofs!Implements` | refinement of `LdmStore`: `StoreSafe` (identifiers in use are below `_next_id`, and a thread about to write has one of them) is inductive, and every step of every thread adds, replaces, discards an outdated record, ages or leaves the store alone |
| `LdmService_proofs!TypeCorrect` | inductive, by the fields that a thread may write |
| `FarewellKept` | `FarewellInv`: a consumer that left was notified of a subscription by no more threads than are done with it, that is will not notify it again before the next attendance; with `ServiceInv`, by which a thread has each subscription once in its list |
| `NeverTooOften` | `IntervalInv`: the age kept of the last check is never greater than that of the last notification |
| `CertificateDistribution_proofs!SequenceSound`, `AlwaysTrusted` | adding a certificate keeps every chain: `Anchored` is preserved by each operation of the library, whatever the message |
| `AlwaysAnswered` | `AnswerInv`: an answer that is owed is in the CAM about to be sent, or in the flag that `set_up_signer` reads, and then not both CAMs are gone |
| `VruCluster_proofs!TypeCorrect`, `AlwaysConsistent`, `PassiveAlwaysSilent` | any number of stations, all of `Trouble`: one lemma per operation of the manager, from manager to manager, then the actions |
| `CalmAlwaysCounted`, `CalmNeverGhosts` (given at most `cpm` and `threads` of `Trouble`, joins and leaves announced for two rounds) | `CalmInv`: who has announced a join for a round is counted or its VAM is still to be sent or read; who has left a cluster for a round and is still counted has a VAM on its way that says so; the leader of a cluster and the station that deals with it go one round at a time. A change of the manager within the building of a VAM may cost one announcement and not two |

Where a condition is given it is needed: a position of timestamp 0 is overwritten by
older ones; half a period on, what is later looks earlier; a stop
and start during a callback leave two chains that both send; a timer that elapses
unrecorded hands over to one that is then cancelled; a station that forgets a
packet takes it for new; a CAM that was sent and then refused by the map is not
remembered, so that the next may follow at once; were T_GenCamMax no multiple of
T_CheckCamGen (1000 and 100 ms in the code) the check that finds a CAM due would
come after it; with one round a join or a leave may end before it was announced.

Most of the properties are far from inductive.  `CamsInTime` bounds a wait, and
needs the grid on which the checks fall; `Farewell` bounds a count, and needs to
know what each thread has yet to attend; `HandledBeforeStop` compares two counts,
and needs to know where every packet is; `CalmMembersCounted` relates two
stations, and needs the VAMs between them, sent and still to be sent.

Only model-checked: liveness, which is out of the prover's reach
(`CamsGoOn`, `Announced` but for what `EndsAnnounced` says, `MapCleaned`,
`MapServed`, `StopReturns`, `BroadcastsReach`, `AnycastReaches`, `UnicastArrives`,
`LookupSettles`, `SilenceReturns`, `StormDiesOut`, `NobodyStuck`, `Acquainted`).
The types of `CertificateDistribution` are not proved as a whole: that its lists
never hold a ticket twice rests on `SelectSeq`, a recursive definition about which
the provers' library states nothing.  The proofs above need no more of them than
the part called `Shaped` and `AllSound`.

## 5. Not modelled

Over half of the repository's lines are ASN.1 texts in strings (`cam_asn1.py`,
`vam_asn1.py`, `utils/asn1/`, `security/asn1/`, some 25 000 lines) and several
thousand more are data classes and coders (`ldm_classes.py`, headers, message
contents, path history): nothing in them has a state or an order of steps, and
the models stand for them by the fields that handlers branch on.  The share of
lines the models cover is low for that reason.

* Coding of messages, headers, positions and certificates; cryptography; clock and
  GPS sources: functions without state, or inputs of the models.
* The reception of CAMs and DENMs: a decoder and a call of the map, in the thread
  that `PacketReception` models.
* The PKI client: one thread that builds a message, posts it and decodes the
  answer, and raises on any failure without a retry; there is no behaviour over time.
* The issuing of certificates (`OwnCertificate`) and validity periods, which
  `verify` does not look at.
* The store on disk (TinyDB), deletion of the whole database, and a change of the area of
  maintenance; requests for data objects (no state), filters and orders.
* The adaptive filter of DCC and the packet data rate, which compute with reals;
  the geometry of areas.
* `GeoBroadcast` and `PacketForwarding` follow one packet at a time; the two do not
  meet except through duplicate packet lists and positions, which `LocationTable`
  has for several stations.

## 6. What the models do that may surprise

Behaviours of the code that no run states as a property, found while modelling;
the models contain those of the parts they cover, and the properties are stated so
as to be true of them.

GeoNetworking: a request issued during a search goes to the placeholder's zero
position (`geonet/router.py:961`); a retransmission that waits for `_ls_lock` goes
on after the reply (1328); a late CBF callback sends a packet entered anew (505);
hearing a buffered packet again does not silence a station, since the duplicate
check comes first (1622); the position of the source stands for that of the sender, so that a packet may
leave the area (665); a position acquired at timestamp 0 is overwritten by an older one
and a GBC packet clears the neighbour flag (`location_table.py:84`, `212`).  LS,
GUC, TSB and beacon packets are never signed and so dropped where `itsGnSecurity`
is ENABLED; packets with store-carry-forward and no neighbour are dropped by a
stub; a TSB of more than one hop cannot be requested.  An OSError ends the beacon
thread, and any exception of a handler but two kinds ends the receive thread
(`raw_link_layer.py:123`).

CAM, VAM, DENM: `stop` during `_schedule_next_check` leaves a timer armed
(`cam_transmission_management.py:749`), stop and start during a callback leave two
chains (697), and a CAM that the map refuses was sent (1011).  A VAM follows
another within T_GenVam when position, speed or heading changed
(`vam_transmission_management.py:615` says otherwise); an exception in one callback
ends the location thread for all services.  The sequence number of every DENM of a
station is 0, and the detection time of an application is set once.

Clusters: while a breakup ends, a VAM being built lets a waiting joiner join the
dissolved cluster, whose former leader's VAMs it then takes for a heartbeat, and it
stays silent.  The `CHOICE` of the cluster's shape is built as a dict
(`vru_clustering.py:697`); whether a leader's VAM can be coded so is outside the
models.  Lost leaves are counted for ever.  Nothing in the repository calls
`update`, on which every timeout of a cluster rests: the models assume that an
application does.

Local Dynamic Map: an update stores the bare data object, so that searches and
collections raise `KeyError` and end their threads; it puts back a record deleted
meanwhile; its answer is always 2.  The reading of the clock comes before the lock, so that
a waiting thread works with an old time.  Two equal subscriptions and one
cancellation leave one.  A consumer that registers again may lose its new
subscription to an attendance that began before.  A callback that raises ends the
service thread.  The area test removes records near the reference and uses `^ 2`
(exclusive or) for a square.

Security: `unknown_ats` never forgets a ticket, and an authority received on
request is never added, since it comes without its issuer (`sign_service.py:361`).
`requested_ats` may be emptied between the test and `pop(0)` (266), which raises;
the other way round `remove` raises (358) and ends the receive thread, after which a
station learns of nobody any more: `Acquainted` does not hold without its `Deaf`.

Congestion control: a gate clamped to its bounds forgets the duty cycle it was
computed for, so that repeated updates drift from the formula.  Nothing else in
the repository uses these classes.

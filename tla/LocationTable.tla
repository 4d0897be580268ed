--------------------------- MODULE LocationTable ---------------------------
(***************************************************************************)
(* The location table of the router: position, neighbour flag and          *)
(* duplicate packet list of every station heard                            *)
(* (src/src/flexstack/geonet/location_table.py).  Only the receive thread  *)
(* of the link layer updates and refreshes it, so that one packet is one   *)
(* action: the entry is found or made, checked for duplicates, updated,    *)
(* and the whole table refreshed.  Application threads add placeholders.   *)
(*                                                                         *)
(* The environment is the clock and the air: packets are delayed by up to  *)
(* MaxDelay, reordered, repeated and lost at will.                         *)
(***************************************************************************)
EXTENDS Timestamp, Sequences, FiniteSets

CONSTANTS
  Station,    \* GeoNetworking addresses of other stations
  SeqNo,      \* sequence numbers of multi-hop packets
  DplLength,  \* itsGnDPLLength
  Lifetime,   \* itsGnLifetimeLocTE, in milliseconds
  Second,     \* milliseconds in a second: refresh_table reads whole seconds
  MaxDelay,   \* bound: age of a position vector when its packet arrives
  Start,      \* first instant of a behaviour
  MaxClock,   \* bound: last instant
  ZeroTst     \* whether a position may be acquired when the timestamp is 0

ASSUME DplAssumption == DplLength \in Nat \ {0}
ASSUME ClockAssumption ==
  /\ Lifetime \in Nat /\ Second \in Nat \ {0} /\ MaxDelay \in Nat
  /\ Lifetime + Second <= Wrap
  /\ Start \in Nat /\ Lifetime < Start
  /\ MaxClock \in Nat
  /\ ZeroTst \in BOOLEAN

VARIABLES
  clock,    \* TimeService.time(), in milliseconds
  locT,     \* loc_t: the entries, by address
  newest,   \* history: when the newest position heard from a station is from
  settled,  \* history: the same since the station was last dropped for a
            \* position younger than the last whole second, or 0
  recent    \* history: the last sequence numbers accepted from a station

vars == <<clock, locT, newest, settled, recent>>

(* A LocationTableEntry, without the packet data rate, an average read     *)
(* only by the forwarding limit, and without ls_pending, the business of   *)
(* LocationService.                                                        *)
EntryType == [tst : Tst, neighbour : BOOLEAN,
              deque : Seq(SeqNo), set : SUBSET SeqNo]

NewEntry == [tst |-> 0, neighbour |-> FALSE, deque |-> <<>>, set |-> {}]

Present == DOMAIN locT
EntryOf(s) == IF s \in Present THEN locT[s] ELSE NewEntry

Init ==
  /\ clock = Start
  /\ locT = [s \in {} |-> NewEntry]
  /\ newest = [s \in Station |-> 0]
  /\ settled = [s \in Station |-> 0]
  /\ recent = [s \in Station |-> <<>>]

-----------------------------------------------------------------------------
(* Slip: only the packet to be evicted next is recognised.                 *)
IsOldest(e, sn) == e.deque # <<>> /\ sn = Head(e.deque)
(* LocationTableEntry.check_duplicate_sn                                   *)
IsDuplicate(e, sn) == sn \in e.set

Full(e) == Len(e.deque) = DplLength

Evict(e) == IF Full(e)
            THEN [e EXCEPT !.deque = Tail(@), !.set = @ \ {Head(e.deque)}]
            ELSE e

Remember(e, sn) ==
  LET f == Evict(e)
  IN [f EXCEPT !.deque = Append(@, sn), !.set = @ \cup {sn}]

(* LocationTableEntry.update_position_vector: a stored timestamp of 0 is   *)
(* taken for the initial entry.                                            *)
Accepts(e, t) == e.tst = 0 \/ TstGt(TstOf(t), e.tst)
Moved(e, t) == IF Accepts(e, t) THEN [e EXCEPT !.tst = TstOf(t)] ELSE e

(* LocationTable.refresh_table: the age is taken modulo Wrap, from a clock *)
(* cut to whole seconds, so that a position younger than the last whole    *)
(* second looks the oldest of all.                                         *)
LastSecond == (clock \div Second) * Second
Fresh(e) == TstMinus(TstOf(LastSecond), e.tst) <= Lifetime

Refreshed(t) == [s \in {x \in DOMAIN t : Fresh(t[x])} |-> t[s]]

(* Station s is heard: its entry becomes e and the table is refreshed.     *)
Update(s, e) ==
  locT' = Refreshed([x \in Present \cup {s} |-> IF x = s THEN e ELSE locT[x]])

Expired(when) == clock - when > Lifetime

LastOnes(q) == IF Len(q) > DplLength THEN Tail(q) ELSE q

(* History: t is when the position in the packet is from, sns its sequence *)
(* number.  A station is a stranger again once it is dropped after its     *)
(* position expired, or for a position younger than the last whole second. *)
Later(x, y) == IF x > y THEN x ELSE y

Note(s, t, sns) ==
  /\ newest' = [newest EXCEPT ![s] = Later(t, @)]
  /\ settled' = [settled EXCEPT ![s] =
       IF Later(t, @) <= LastSecond THEN Later(t, @) ELSE 0]
  /\ recent' = [x \in Station |->
       IF x \notin DOMAIN locT' /\ Expired(settled'[x]) THEN <<>>
       ELSE IF x = s THEN LastOnes(recent[x] \o sns) ELSE recent[x]]

-----------------------------------------------------------------------------
(* The instants a position in a packet received now may come from.         *)
Instants == {t \in Start..clock :
               clock - t <= MaxDelay /\ (TstOf(t) = 0 => ZeroTst)}

Tick ==
  /\ clock < MaxClock
  /\ clock' = clock + 1
  /\ UNCHANGED <<locT, newest, settled, recent>>

(* ensure_entry: the location service makes a placeholder.                 *)
EnsureEntry(s) ==
  /\ s \notin Present
  /\ locT' = [x \in Present \cup {s} |-> EntryOf(x)]
  /\ UNCHANGED <<clock, newest, settled, recent>>

(* new_shb_packet: beacons and single-hop broadcasts carry no sequence     *)
(* number, and come from a neighbour.                                      *)
NewShbPacket(s, t) ==
  /\ Update(s, [Moved(EntryOf(s), t) EXCEPT !.neighbour = TRUE])
  /\ Note(s, t, <<>>)
  /\ UNCHANGED clock

(* new_guc_packet, new_tsb_packet, new_gac_packet, new_ls_request_packet   *)
(* and new_ls_reply_packet.  A duplicate raises before anything else is    *)
(* done; the flag of an entry that was there already is left alone.        *)
NewMultiHopPacket(s, sn, t) ==
  /\ ~IsDuplicate(EntryOf(s), sn)
  /\ Update(s, Moved(Remember(EntryOf(s), sn), t))
  /\ Note(s, t, <<sn>>)
  /\ UNCHANGED clock

(* new_gbc_packet: as above, but the flag is always cleared.               *)
NewGbcPacket(s, sn, t) ==
  /\ ~IsDuplicate(EntryOf(s), sn)
  /\ Update(s, [Moved(Remember(EntryOf(s), sn), t) EXCEPT !.neighbour = FALSE])
  /\ Note(s, t, <<sn>>)
  /\ UNCHANGED clock

Receive ==
  \E s \in Station, t \in Instants :
    \/ NewShbPacket(s, t)
    \/ \E sn \in SeqNo : NewMultiHopPacket(s, sn, t) \/ NewGbcPacket(s, sn, t)

Next ==
  \/ Tick
  \/ \E s \in Station : EnsureEntry(s)
  \/ Receive

Spec == Init /\ [][Next]_vars

-----------------------------------------------------------------------------
(* The shape of the state.                                                 *)
TypeOK ==
  /\ clock \in Nat
  /\ Present \subseteq Station /\ locT \in [Present -> EntryType]
  /\ newest \in [Station -> Nat] /\ settled \in [Station -> Nat]
  /\ recent \in [Station -> Seq(SeqNo)]

(* The ring buffer and the set beside it always hold the same sequence     *)
(* numbers, each once and at most itsGnDPLLength of them                   *)
(* (dpl_deque and dpl_set of LocationTableEntry).                          *)
DplAgreesIn(e) ==
  /\ e.set = {e.deque[i] : i \in 1..Len(e.deque)}
  /\ \A i, j \in 1..Len(e.deque) : e.deque[i] = e.deque[j] => i = j
  /\ Len(e.deque) <= DplLength
DplAgrees == \A s \in Present : DplAgreesIn(locT[s])

(* Among the last itsGnDPLLength multi-hop packets accepted from a station *)
(* no sequence number occurs twice, however the packets are repeated or    *)
(* reordered and although entries come and go, as long as the table does   *)
(* not drop the station: its position expires, or a packet is received in  *)
(* the same second its position is from (check_duplicate_sn with           *)
(* refresh_table).                                                         *)
AcceptedOnce ==
  \A s \in Station : \A i, j \in 1..Len(recent[s]) :
    recent[s][i] = recent[s][j] => i = j

(* Until it expires, the newest position heard from a station since it was *)
(* last dropped for one younger than the last whole second is the one in   *)
(* the table, across delays, reordering, the wrap of the timestamp and the *)
(* placeholders of the location service (update_position_vector with       *)
(* refresh_table).                                                         *)
SettledIsListed ==
  \A s \in Station :
    ~Expired(settled[s]) => s \in Present /\ locT[s].tst = TstOf(settled[s])

(* Until it expires, the newest position heard from a station is the one   *)
(* in the table.  It is not: one younger than the last whole second is not *)
(* (refresh_table).                                                        *)
NewestIsListed ==
  \A s \in Station :
    ~Expired(newest[s]) => s \in Present /\ locT[s].tst = TstOf(newest[s])

(* A packet, whoever sends it, leaves no station listed whose position     *)
(* expired a second ago or longer (refresh_table).  Placeholders are       *)
(* another matter: in the Lifetime after the timestamp wraps their 0 looks *)
(* young.                                                                  *)
ReceptionDropsExpired ==
  [][Receive => \A s \in DOMAIN locT' :
       locT'[s].tst # 0 => clock - settled'[s] < Lifetime + Second]_vars
=============================================================================

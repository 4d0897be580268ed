---------------------------- MODULE VruCluster ----------------------------
(***************************************************************************)
(* VRU clusters: VBSClusteringManager                                      *)
(* (src/src/flexstack/facilities/vru_awareness_service/vru_clustering.py)  *)
(* in several stations that exchange VRU awareness messages (VAMs), with   *)
(* the part of VAMTransmissionManagement and VAMReceptionManagement that   *)
(* joins them.                                                             *)
(*                                                                         *)
(* The manager of a station is a record and each of its operations, which  *)
(* holds the manager's lock, an operator from a manager to a manager.  The *)
(* transmission of a VAM asks the manager three times, without the lock in *)
(* between: each time is an action.  Times are kept as ages, which stop    *)
(* where nothing looks further; positions, speeds, profiles and reasons    *)
(* are left out, except for the reason that lets members stay.             *)
(***************************************************************************)
EXTENDS Integers, FiniteSets

CONSTANTS
  Station,     \* the stations in reach of each other
  MaxId,       \* cluster identifiers are 1..MaxId, 0 is a cluster without one
  None,        \* no station, no cluster, no VAM
  Never,       \* a time that is None
  NumCreate,   \* NUM_CREATE_CLUSTER
  JoinNotify,  \* TIME_CLUSTER_JOIN_NOTIFICATION
  JoinSuccess, \* TIME_CLUSTER_JOIN_SUCCESS
  LeaveNotify, \* TIME_CLUSTER_LEAVE_NOTIFICATION
  Warning,     \* TIME_CLUSTER_BREAKUP_WARNING
  Continuity,  \* TIME_CLUSTER_CONTINUITY
  Creators,    \* the stations that create clusters
  Trouble      \* what may happen, see below

(* "loss": VAMs are lost.  "role": stations stop being VRUs.  "cpm":       *)
(* clusters are broken up because a CPM reports them.  "careless": the     *)
(* application starts something new while a join or leave is going on.     *)
(* "reuse": a cluster gets the identifier of an earlier one.  "threads":   *)
(* the manager changes while a VAM is being built.                         *)
ASSUME TroubleAssumption ==
  Trouble \subseteq {"loss", "role", "cpm", "careless", "reuse", "threads"}
ASSUME IdAssumption == MaxId \in Nat /\ None \notin 0..MaxId
ASSUME StationAssumption == None \notin Station /\ Creators \subseteq Station
ASSUME TimeAssumption ==
  /\ {JoinNotify, JoinSuccess, LeaveNotify, Warning, Continuity} \subseteq Nat \ {0}
  /\ JoinSuccess <= JoinNotify /\ LeaveNotify <= JoinNotify
  /\ Never \notin Nat
ASSUME CreateAssumption == NumCreate \in Nat

VARIABLES
  mgr,   \* mgr[s]: the clustering manager of s
  pc,    \* pc[s]: how far the transmission of a VAM is
  draft, \* draft[s]: the cluster information in the VAM that s builds
  inbox, \* inbox[s][f]: the VAM from f that s has received and not processed
  due,   \* what s has still to do now: "update", a "vam"
  used   \* history: the identifiers not to be used again

vars == <<mgr, pc, draft, inbox, due, used>>

Id == 1..MaxId
Age(max) == (0..max) \cup {Never}
Older(age, max) == IF age = Never \/ age = max THEN age ELSE age + 1

Manager ==
  [state : {"idle", "standalone", "leader", "passive"},
   cluster : Id \cup {None}, members : SUBSET Station,
   warning : Age(Warning), cpm : BOOLEAN,
   joined : 0..MaxId \cup {None}, leader : Station \cup {None},
   beat : Age(Continuity),
   join : {"none", "notify", "waiting", "cancelled", "failed", "joined"},
   target : 0..MaxId \cup {None}, joinAge : Age(JoinNotify),
   quitAge : Age(LeaveNotify),
   leaving : BOOLEAN, left : 0..MaxId \cup {None}, leaveAge : Age(LeaveNotify),
   near : SUBSET Station, seen : SUBSET (0..MaxId)]

(* A VAM: its sender, the cluster it leads, and what it announces.         *)
VAM == [from : Station, info : Id \cup {None},
        op : {"none", "join", "leave", "breakup", "cpm"},
        about : 0..MaxId \cup {None}]
ASSUME NoneAssumption == None \notin VAM

Fresh ==
  [state |-> "standalone", cluster |-> None, members |-> {},
   warning |-> Never, cpm |-> FALSE,
   joined |-> None, leader |-> None, beat |-> Never,
   join |-> "none", target |-> None, joinAge |-> Never, quitAge |-> Never,
   leaving |-> FALSE, left |-> None, leaveAge |-> Never,
   near |-> {}, seen |-> {}]

Init ==
  /\ mgr = [s \in Station |-> Fresh]
  /\ pc = [s \in Station |-> "idle"]
  /\ draft = [s \in Station |-> None]
  /\ inbox = [s \in Station |-> [f \in Station |-> None]]
  /\ due = [s \in Station |-> {"update", "vam"}]
  /\ used = {}

-----------------------------------------------------------------------------
(* Operations of the manager.                                              *)

(* Slip: the attempt to join outlives the role.                            *)
RoleOffKeepsJoin(m) ==
  [m EXCEPT !.state = "idle", !.cluster = None, !.members = {},
            !.warning = Never, !.cpm = FALSE, !.joined = None,
            !.leader = None, !.beat = Never, !.leaving = FALSE]
(* set_vru_role_off                                                        *)
RoleOff(m) ==
  [m EXCEPT !.state = "idle", !.cluster = None, !.members = {},
            !.warning = Never, !.cpm = FALSE, !.joined = None,
            !.leader = None, !.beat = Never, !.join = "none",
            !.leaving = FALSE]

(* try_create_cluster, when it succeeds; seen is what has been heard since *)
(* identifiers were last forgotten.                                        *)
Created(m, id, seen) ==
  [m EXCEPT !.state = "leader", !.cluster = id, !.seen = seen]

(* initiate_join *)
Joining(m, id) ==
  [m EXCEPT !.join = "notify", !.target = id, !.joinAge = 0]

(* Slip: nobody is told.                                                   *)
AbandonedSilently(m, how) == [m EXCEPT !.join = "none", !.target = None]
(* cancel_join and confirm_join_failed: how the attempt ended.             *)
Abandoned(m, how) == [m EXCEPT !.join = how, !.quitAge = 0]

(* _do_leave_to_standalone *)
Left(m) ==
  [m EXCEPT !.leaving = TRUE, !.left = m.joined, !.leaveAge = 0,
            !.joined = None, !.leader = None, !.beat = Never,
            !.join = "none", !.target = None, !.state = "standalone"]

(* trigger_breakup_cluster *)
Warned(m, cpm) == [m EXCEPT !.warning = 0, !.cpm = cpm]

(* confirm_join_failed, when the leader has been silent for too long.      *)
GivenUp(m) == IF m.joinAge >= JoinSuccess THEN Abandoned(m, "failed") ELSE m

(* _update_standalone: the attempt to join ...                             *)
JoinUpdated(m) ==
  CASE m.join = "notify" ->
         IF m.joinAge >= JoinNotify
         THEN [m EXCEPT !.join = "waiting", !.joinAge = 0] ELSE m
    [] m.join = "waiting" -> GivenUp(m)
    [] m.join \in {"cancelled", "failed"} ->
         IF m.quitAge >= LeaveNotify
         THEN [m EXCEPT !.join = "none", !.target = None, !.quitAge = Never]
         ELSE m
    [] OTHER -> m

(* Slip: it waits for the attempt to join.                                 *)
LeaveUpdatedAfterJoin(m) ==
  IF m.join = "none" /\ m.leaving /\ m.leaveAge >= LeaveNotify
  THEN [m EXCEPT !.leaving = FALSE, !.left = None, !.leaveAge = Never] ELSE m
(* ... and the notification that the station has left.                     *)
LeaveUpdated(m) ==
  IF m.leaving /\ m.leaveAge >= LeaveNotify
  THEN [m EXCEPT !.leaving = FALSE, !.left = None, !.leaveAge = Never] ELSE m

(* _update_leader *)
LeaderUpdated(m) ==
  IF m.warning # Never /\ m.warning >= Warning
  THEN [m EXCEPT !.cluster = None, !.members = {}, !.warning = Never,
                 !.cpm = FALSE, !.state = "standalone"]
  ELSE m

(* Slip: nobody notices that the leader is lost.                           *)
PassiveUpdatedOnly(m) == LeaveUpdated(m)
(* _update_passive *)
PassiveUpdated(m) ==
  IF m.beat # Never /\ m.beat >= Continuity THEN Left(m) ELSE LeaveUpdated(m)

(* update, with the stations that have not been heard for T_GenVamMax.     *)
Updated(m, gone) ==
  LET n == [m EXCEPT !.near = @ \ gone]
  IN CASE n.state = "standalone" -> LeaveUpdated(JoinUpdated(n))
       [] n.state = "leader" -> LeaderUpdated(n)
       [] n.state = "passive" -> PassiveUpdated(n)
       [] OTHER -> n

(* get_cluster_information_container *)
Information(m) == IF m.state = "leader" THEN m.cluster ELSE None

(* What a station announces, and about which cluster.                      *)
LeaveInfo(m) ==
  IF m.leaving THEN [op |-> "leave", about |-> m.left]
               ELSE [op |-> "none", about |-> None]
(* Slip: a join is not announced.                                          *)
OperationWithoutJoin(m) ==
  CASE m.state = "standalone" /\ m.join \in {"cancelled", "failed"} ->
         [op |-> "leave", about |-> m.target]
    [] m.state = "leader" /\ m.warning # Never ->
         [op |-> IF m.cpm THEN "cpm" ELSE "breakup", about |-> None]
    [] OTHER -> LeaveInfo(m)
(* get_cluster_operation_container                                         *)
Operation(m) ==
  CASE m.state = "standalone" ->
         (CASE m.join = "notify" -> [op |-> "join", about |-> m.target]
            [] m.join \in {"cancelled", "failed"} ->
                 [op |-> "leave", about |-> m.target]
            [] OTHER -> LeaveInfo(m))
    [] m.state = "passive" -> LeaveInfo(m)
    [] m.state = "leader" /\ m.warning # Never ->
         [op |-> IF m.cpm THEN "cpm" ELSE "breakup", about |-> None]
    [] OTHER -> [op |-> "none", about |-> None]

(* should_transmit_vam *)
ShouldTransmit(m) ==
  \/ m.state \in {"standalone", "leader"}
  \/ m.state = "passive" /\ m.leaving

(* _process_received_vam: the tables, and the join that the VAM completes. *)
Noted(m, vam) ==
  [m EXCEPT !.near = @ \cup {vam.from},
            !.seen = @ \cup ({vam.info} \ {None})]
Joined(m, vam) ==
  IF /\ vam.info # None
     /\ m.state = "standalone" /\ m.join = "waiting" /\ m.target = vam.info
  THEN [m EXCEPT !.join = "joined", !.joined = m.target,
                 !.leader = vam.from, !.beat = 0, !.state = "passive"]
  ELSE m

(* A leader counts who joins and leaves.                                   *)
Counted(m, vam) ==
  IF m.state # "leader" \/ vam.about # m.cluster THEN m
  ELSE CASE vam.op = "join" -> [m EXCEPT !.members = @ \cup {vam.from}]
         [] vam.op = "leave" -> [m EXCEPT !.members = @ \ {vam.from}]
         [] OTHER -> m

(* A member leaves a cluster that is broken up.                            *)
Disbanded(m, vam) ==
  IF /\ vam.op = "breakup" /\ m.state = "passive"
     /\ m.leader = vam.from \/ m.joined = 0
  THEN Left(m) ELSE m

(* The leader is alive.                                                    *)
Refreshed(m, vam) ==
  IF m.state = "passive" /\ m.leader = vam.from THEN [m EXCEPT !.beat = 0] ELSE m

Received(m, vam) ==
  Refreshed(Disbanded(Counted(Joined(Noted(m, vam), vam), vam), vam), vam)

(* Time passes.                                                            *)
Aged(m) ==
  [m EXCEPT !.warning = Older(@, Warning), !.beat = Older(@, Continuity),
            !.joinAge = Older(@, JoinNotify), !.quitAge = Older(@, LeaveNotify),
            !.leaveAge = Older(@, LeaveNotify)]

-----------------------------------------------------------------------------
(* What the application of a station does.                                 *)

(* The application may have its own thread, or the one of the positions.   *)
Undisturbed(s) == "threads" \in Trouble \/ pc[s] = "idle"

Becomes(s, m) ==
  /\ Undisturbed(s)
  /\ mgr' = [mgr EXCEPT ![s] = m]
  /\ UNCHANGED <<pc, draft, inbox, due, used>>

(* No join and no leave is going on; try_create_cluster looks at neither.  *)
Quiet(m) == "careless" \in Trouble \/ (m.join = "none" /\ ~m.leaving)

SetRoleOn(s) ==
  /\ mgr[s].state = "idle"
  /\ Becomes(s, [mgr[s] EXCEPT !.state = "standalone"])

SetRoleOff(s) ==
  /\ "role" \in Trouble /\ mgr[s].state # "idle"
  /\ Becomes(s, RoleOff(mgr[s]))

TryCreate(s) ==
  /\ s \in Creators
  /\ mgr[s].state = "standalone" /\ Quiet(mgr[s])
  /\ Cardinality(mgr[s].near) >= NumCreate
  /\ \E recent \in SUBSET mgr[s].seen, id \in Id \ used :
       /\ id \notin recent
       /\ mgr' = [mgr EXCEPT ![s] = Created(@, id, recent)]
       /\ used' = IF "reuse" \in Trouble THEN used ELSE used \cup {id}
  /\ Undisturbed(s)
  /\ UNCHANGED <<pc, draft, inbox, due>>

(* The identifier is one that was heard, and so never 0.                   *)
InitiateJoin(s) ==
  /\ mgr[s].state = "standalone" /\ mgr[s].join = "none" /\ Quiet(mgr[s])
  /\ \E id \in mgr[s].seen : Becomes(s, Joining(mgr[s], id))

CancelJoin(s) ==
  /\ mgr[s].join \in {"notify", "waiting"}
  /\ Becomes(s, Abandoned(mgr[s], "cancelled"))

TriggerLeave(s) ==
  /\ mgr[s].state = "passive"
  /\ Becomes(s, Left(mgr[s]))

TriggerBreakup(s) ==
  /\ mgr[s].state = "leader" /\ mgr[s].warning = Never
  /\ \E cpm \in BOOLEAN :
       /\ cpm => "cpm" \in Trouble
       /\ Becomes(s, Warned(mgr[s], cpm))

(* The stations that may not have been heard for T_GenVamMax: those that   *)
(* are silent, or anyone if VAMs get lost.                                 *)
Lapsing(s) ==
  IF "loss" \in Trouble THEN mgr[s].near
  ELSE {f \in mgr[s].near : ~ShouldTransmit(mgr[f])}

Update(s) ==
  /\ "update" \in due[s]
  /\ Undisturbed(s)
  /\ \E gone \in SUBSET Lapsing(s) :
       mgr' = [mgr EXCEPT ![s] = Updated(@, gone)]
  /\ due' = [due EXCEPT ![s] = @ \ {"update"}]
  /\ UNCHANGED <<pc, draft, inbox, used>>

-----------------------------------------------------------------------------
(* A position makes the station send a VAM.                                *)

LocationCallback(s) ==
  /\ pc[s] = "idle" /\ "vam" \in due[s]
  /\ pc' = [pc EXCEPT ![s] = IF ShouldTransmit(mgr[s]) THEN "inform" ELSE "idle"]
  /\ due' = [due EXCEPT ![s] = @ \ {"vam"}]
  /\ UNCHANGED <<mgr, draft, inbox, used>>

Inform(s) ==
  /\ pc[s] = "inform"
  /\ draft' = [draft EXCEPT ![s] = Information(mgr[s])]
  /\ pc' = [pc EXCEPT ![s] = "operate"]
  /\ UNCHANGED <<mgr, inbox, due, used>>

(* The VAM reaches every other station, or some of them.                   *)
Operate(s) ==
  /\ pc[s] = "operate"
  /\ LET o == Operation(mgr[s])
         vam == [from |-> s, info |-> draft[s], op |-> o.op, about |-> o.about]
     IN \E heard \in SUBSET (Station \ {s}) :
          /\ "loss" \in Trouble \/ heard = Station \ {s}
          /\ inbox' = [r \in Station |->
               IF r \in heard THEN [inbox[r] EXCEPT ![s] = vam] ELSE inbox[r]]
  /\ pc' = [pc EXCEPT ![s] = "idle"]
  /\ draft' = [draft EXCEPT ![s] = None]
  /\ UNCHANGED <<mgr, due, used>>

(* reception_callback *)
Receive(s) ==
  \E f \in Station :
    /\ inbox[s][f] # None
    /\ mgr' = [mgr EXCEPT ![s] = Received(@, inbox[s][f])]
    /\ inbox' = [inbox EXCEPT ![s][f] = None]
    /\ UNCHANGED <<pc, draft, due, used>>

Busy == \E s \in Station :
  pc[s] # "idle" \/ due[s] # {} \/ \E f \in Station : inbox[s][f] # None

(* Time passes when everybody has updated, sent and received.              *)
Tick ==
  /\ ~Busy
  /\ mgr' = [s \in Station |-> Aged(mgr[s])]
  /\ due' = [s \in Station |-> {"update", "vam"}]
  /\ UNCHANGED <<pc, draft, inbox, used>>

AppNext(s) ==
  \/ SetRoleOn(s) \/ SetRoleOff(s) \/ TryCreate(s) \/ InitiateJoin(s)
  \/ CancelJoin(s) \/ TriggerLeave(s) \/ TriggerBreakup(s)
Work(s) ==
  Update(s) \/ LocationCallback(s) \/ Inform(s) \/ Operate(s) \/ Receive(s)
Next == Tick \/ \E s \in Station : AppNext(s) \/ Work(s)

Spec == Init /\ [][Next]_vars
(* Positions arrive, VAMs are processed and update() is called; the        *)
(* application need do nothing else.                                       *)
FairSpec == Spec /\ WF_vars(Tick) /\ \A s \in Station : WF_vars(Work(s))

-----------------------------------------------------------------------------
(* The shape of the state.                                                 *)
TypeOK ==
  /\ mgr \in [Station -> Manager]
  /\ pc \in [Station -> {"idle", "inform", "operate"}]
  /\ draft \in [Station -> Id \cup {None}]
  /\ inbox \in [Station -> [Station -> VAM \cup {None}]]
  /\ due \in [Station -> SUBSET {"update", "vam"}]
  /\ used \in SUBSET Id

(* The parts of a manager agree, whatever the application and the air do:  *)
(* a leader has a cluster, a member a leader, and every phase the time at  *)
(* which it began (the assertions in _update_standalone, _update_passive). *)
Consistent ==
  \A s \in Station :
    LET m == mgr[s]
    IN /\ m.state = "leader" <=> m.cluster # None
       /\ m.state = "passive" <=> m.join = "joined"
       /\ m.state = "passive" =>
            m.joined # None /\ m.leader # None /\ m.beat # Never
       /\ m.join \in {"notify", "waiting"} => m.joinAge # Never
       /\ m.join \in {"cancelled", "failed"} => m.quitAge # Never
       /\ m.leaving => m.leaveAge # Never

(* A passive station is silent: it has always finished announcing that it  *)
(* left its last cluster when it becomes a member of the next one, so that *)
(* should_transmit_vam never makes its exception.                          *)
PassiveSilent == \A s \in Station :
  mgr[s].state = "passive" => ~ShouldTransmit(mgr[s])

(* The leader of a member counts it, although a join is completed by a VAM *)
(* that does not say whether the leader has heard of it                    *)
(* (_process_received_vam, _complete_join).                                *)
MembersCounted ==
  \A s \in Station :
    LET m == mgr[s]
    IN m.state = "passive" /\ mgr[m.leader].cluster = m.joined
         => s \in mgr[m.leader].members

(* Whom a leader counts is joining, a member, or about to tell that it is  *)
(* not, although members are never forgotten (_process_received_vam).      *)
NoGhosts ==
  \A l \in Station : \A s \in mgr[l].members :
    \/ mgr[s].join # "none" \/ mgr[s].leaving
    \/ pc[s] # "idle" \/ inbox[l][s] # None

(* The leader of s leads no more.                                          *)
Orphan(s) == mgr[s].state = "passive" /\ mgr[mgr[s].leader].state # "leader"

(* The breakup of a cluster sets its members free: nobody stays silent for *)
(* a station that leads no more (_process_cluster_breakup_info,            *)
(* _update_leader).                                                        *)
OrphansReturn == \A s \in Station : ~<>[]Orphan(s)

(* The leader of s is lost without notice: it sends nothing any more.      *)
Deserted(s) ==
  /\ mgr[s].state = "passive"
  /\ mgr[mgr[s].leader].state \in {"idle", "passive"}

(* "If no cluster VAM arrives within this window, the leader is assumed    *)
(* lost": nobody stays silent for a leader that is silent itself           *)
(* (TIME_CLUSTER_CONTINUITY, _update_passive).                             *)
DesertedReturn == \A s \in Station : ~<>[]Deserted(s)

(* An attempt to join ends: the station is a member or has given up        *)
(* (_update_standalone).                                                   *)
JoinEnds == \A s \in Station :
  mgr[s].join # "none" ~> mgr[s].join \in {"none", "joined"}
=============================================================================

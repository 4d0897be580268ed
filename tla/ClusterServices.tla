--------------------------- MODULE ClusterServices --------------------------
(***************************************************************************)
(* The VRU clusters of VruCluster in three worlds: a behaviour is one of   *)
(* the first, whose Trouble is chosen, of the second, Fickle, where        *)
(* leaders vanish, or of the third, Wild, where everything else may go     *)
(* wrong.                                                                  *)
(***************************************************************************)
EXTENDS VruCluster

CONSTANTS WildCreators, WildMaxId \* Creators and MaxId of Fickle and Wild

VARIABLE part \* "calm", "fickle" or "wild"

Fickle == INSTANCE VruCluster WITH
  Creators <- WildCreators, MaxId <- WildMaxId,
  Trouble <- {"role"}

Wild == INSTANCE VruCluster WITH
  Creators <- WildCreators, MaxId <- WildMaxId,
  Trouble <- {"loss", "cpm", "careless", "reuse", "threads"}

PartInit ==
  \/ part = "calm" /\ Init
  \/ part = "fickle" /\ Fickle!Init
  \/ part = "wild" /\ Wild!Init
PartNext ==
  /\ \/ part = "calm" /\ Next
     \/ part = "fickle" /\ Fickle!Next
     \/ part = "wild" /\ Wild!Next
  /\ UNCHANGED part

(* Fairness is only needed in the first two, where a Tick is the same.     *)
PartSpec ==
  /\ PartInit /\ [][PartNext]_<<vars, part>>
  /\ WF_vars(part # "wild" /\ Tick)
  /\ \A s \in Station : WF_vars(
       \/ part = "calm" /\ Work(s)
       \/ part = "fickle" /\ Fickle!Work(s))

-----------------------------------------------------------------------------
(* MembersCounted of VruCluster, when all VAMs arrive                      *)
(* (_process_received_vam, _complete_join).                                *)
CalmMembersCounted == part = "calm" => MembersCounted

(* NoGhosts of VruCluster, when all VAMs arrive (_process_received_vam).   *)
CalmNoGhosts == part = "calm" => NoGhosts

(* A breakup that is heard sets everybody free, attempts to join end, and  *)
(* a leader that vanishes is noticed, whatever its members do meanwhile    *)
(* (TIME_CLUSTER_CONTINUITY, _update_passive, _update_standalone).         *)
NobodyStuck ==
  /\ part = "calm" => OrphansReturn /\ JoinEnds
  /\ part = "fickle" => DesertedReturn
=============================================================================

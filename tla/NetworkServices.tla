-------------------------- MODULE NetworkServices --------------------------
(***************************************************************************)
(* The other packets of a network besides the broadcast of GeoBroadcast,   *)
(* which this module extends: a unicast packet or a topologically scoped   *)
(* one (PacketForwarding), in a network of its own from the same source.   *)
(***************************************************************************)
EXTENDS GeoBroadcast

CONSTANTS
  Router, Dest, Links, Place, Later, LsRetrans, Carried, Scenarios \* PacketForwarding

VARIABLES job, trouble, stage, tries, number, moved, frames, seen, delivered, lost

fwdVars == <<job, trouble, stage, tries, number, moved, frames, seen, delivered, lost>>

Fwd == INSTANCE PacketForwarding WITH
  Node <- Router, Reach <- Links, MaxRetrans <- LsRetrans, Scf <- Carried,
  sent <- number, air <- frames

ASSUME ForwardingAssumption == Fwd!NetworkAssumption /\ Fwd!ScenarioAssumption

-----------------------------------------------------------------------------
(* ArrivesOnce of PacketForwarding (check_duplicate_sn,                    *)
(* gn_data_indicate_ls_reply).                                             *)
ArrivesOnce == Fwd!ArrivesOnce
=============================================================================

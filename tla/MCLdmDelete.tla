---------------------------- MODULE MCLdmDelete ----------------------------
(***************************************************************************)
(* The deletions that IF.LDM.3 has answered with SUCCEED, for TLC.         *)
(***************************************************************************)
EXTENDS MCLdmService

VARIABLE deleted   \* the records deleted with success

DeleteInit == Init /\ deleted = {}
DeleteNext ==
  \/ Next /\ UNCHANGED deleted
  \/ \E i \in Id : Delete(i) /\ deleted' = deleted \cup {i}
DeleteSpec == DeleteInit /\ [][DeleteNext]_<<vars, deleted>>

(* A record that a provider has deleted with success is not in the map     *)
(* any more (delete_provider_data).                                        *)
DeletedIsGone == deleted \cap DOMAIN store = {}
=============================================================================

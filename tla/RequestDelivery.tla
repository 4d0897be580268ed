-------------------------- MODULE RequestDelivery --------------------------
(***************************************************************************)
(* What the router promises of a GeoUnicast request it has accepted: it is *)
(* held until it meets one fate, and it is transmitted at most once.  The  *)
(* promise is implicit in gn_data_request_guc, gn_ls_request and           *)
(* _ls_retransmit (src/src/flexstack/geonet/router.py); LocationService    *)
(* is shown to implement it.                                               *)
(***************************************************************************)
EXTENDS Naturals

CONSTANT Request   \* GeoUnicast requests

VARIABLES
  fate,      \* where each request has got to
  copies     \* GUC packets transmitted for each request

vars == <<fate, copies>>

Init ==
  /\ fate = [r \in Request |-> "new"]
  /\ copies = [r \in Request |-> 0]

Accept(r) ==
  /\ fate[r] = "new"
  /\ fate' = [fate EXCEPT ![r] = "held"]
  /\ UNCHANGED copies

Send(r) ==
  /\ fate[r] = "held"
  /\ fate' = [fate EXCEPT ![r] = "sent"]
  /\ copies' = [copies EXCEPT ![r] = @ + 1]

Omit(r) ==
  /\ fate[r] = "held"
  /\ fate' = [fate EXCEPT ![r] = "omitted"]
  /\ UNCHANGED copies

(* A whole buffer meets its end at once: given up with its search, or      *)
(* overwritten by another.                                                 *)
Drop(R, end) ==
  /\ \A r \in R : fate[r] = "held"
  /\ fate' = [r \in Request |-> IF r \in R THEN end ELSE fate[r]]
  /\ UNCHANGED copies

Next ==
  \/ \E r \in Request : Accept(r) \/ Send(r) \/ Omit(r)
  \/ \E R \in SUBSET Request, end \in {"abandoned", "lost"} : Drop(R, end)

Spec == Init /\ [][Next]_vars

(* A held request does not stay held for ever.                             *)
Settled == \A r \in Request : fate[r] = "held" ~> fate[r] # "held"
=============================================================================

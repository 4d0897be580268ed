------------------------- MODULE MCLocationService -------------------------
(***************************************************************************)
(* A small instance of ServiceThreads for TLC.  A behaviour is of one of   *)
(* the two services.                                                       *)
(***************************************************************************)
EXTENDS ServiceThreads, TLC

CONSTANTS d1, d2, r1, r2, t1, t2, t3, t4, t5, t6, u1, u2, u3

VARIABLE part \* "search" or "cams"

(* Every request for the one station d1.                                   *)
OneDest == [r \in Request |-> d1]

(* The timers of the CAM service are interchangeable; those of the other  *)
(* service are taken in their order.                                      *)
Symmetry == Permutations({u1, u2, u3})

PartInit == part \in {"search", "cams"} /\ Init /\ Race!Init
PartNext ==
  /\ \/ part = "search" /\ Next /\ UNCHANGED camVars
     \/ part = "cams" /\ Race!Next /\ UNCHANGED vars
  /\ UNCHANGED part
PartSpec == PartInit /\ [][PartNext]_<<vars, part, camVars>>
=============================================================================

-------------------------- MODULE MCLocationTable --------------------------
(***************************************************************************)
(* Small instances, for TLC, of LocationTable, and of GeoBroadcast among   *)
(* stations whose tables forget: a behaviour is one or the other.          *)
(***************************************************************************)
EXTENDS LocationTable

CONSTANTS s, a, b, c

(* The timestamp is compared with, and subtracted from, those of instants  *)
(* less than half a period away.                                           *)
ASSUME SilenceAssumption == MaxClock - Start < Half

VARIABLES
  part, \* "table" or "storm"
  requested, air, heard, buffer, timers, indicated, sent

(* A diamond.           s --- a                                            *)
(*                      |  /  |                                            *)
(*                      b --- c                                            *)
Four == {s, a, b, c}
Diamond == [n \in Four |->
  CASE n = s -> {a, b} [] n = a -> {s, b, c} [] n = b -> {s, a, c}
    [] n = c -> {a, b}]

(* One station is set up without contention; anything may be lost, refused *)
(* and forgotten.                                                          *)
Storm == INSTANCE GeoBroadcast WITH
  Node <- Four, Source <- s, Reach <- Diamond,
  Hops <- [n \in Four |-> CASE n = s -> 0 [] n = c -> 2 [] OTHER -> 1],
  Distance <- [n \in Four |-> CASE n = s -> 2 [] n = b -> 0 [] OTHER -> 1],
  Radius <- 2, MaxHops <- 3, Kind <- "GBC",
  Algorithm <- [n \in Four |-> IF n = a THEN "SIMPLE" ELSE "CBF"],
  Scf <- TRUE, CanLose <- TRUE, CanRefuse <- TRUE, CanForget <- TRUE

stormVars == <<requested, air, heard, buffer, timers, indicated, sent>>

PartInit == part \in {"table", "storm"} /\ Init /\ Storm!Init
PartNext ==
  /\ \/ part = "table" /\ Next /\ UNCHANGED stormVars
     \/ part = "storm" /\ Storm!Next /\ UNCHANGED vars
  /\ UNCHANGED part

(* The fairness of GeoBroadcast.                                           *)
PartSpec ==
  /\ PartInit /\ [][PartNext]_<<vars, part, stormVars>>
  /\ WF_stormVars(part = "storm" /\ Storm!Request)
  /\ \A n \in Four : WF_stormVars(
       part = "storm" /\ \E f \in air : f.to = n /\ Storm!Receive(f))
  /\ \A n \in Four : WF_stormVars(
       part = "storm" /\ \E t \in timers[n] : Storm!Elapse(n, t) \/ Storm!CbfTimeout(n, t))

-----------------------------------------------------------------------------
(* StormDiesOut of GeoBroadcast (set_rhl in gn_data_forward_gbc).          *)
StormDiesOut == part = "storm" => Storm!StormDiesOut
=============================================================================

--------------------------- MODULE MCGeoBroadcast ---------------------------
(***************************************************************************)
(* Small instances of GeoBroadcast for TLC.                                *)
(***************************************************************************)
EXTENDS GeoBroadcast

CONSTANTS s, a, b, c, d

(* A ladder.            s --- a --- c                                      *)
(*                        \   |     |                                      *)
(*                          - b --- d                                      *)
Five == {s, a, b, c, d}
Ladder == [n \in Five |->
  CASE n = s -> {a, b} [] n = a -> {s, b, c} [] n = b -> {s, a, d}
    [] n = c -> {a, d} [] n = d -> {b, c}]
LadderHops == [n \in Five |->
  CASE n = s -> 0 [] n \in {a, b} -> 1 [] OTHER -> 2]

Four == {s, a, b, c}

(* One station is set up without contention.                               *)
Mixed == [n \in Node |-> IF n = a THEN "SIMPLE" ELSE "CBF"]
Contending == [n \in Node |-> "CBF"]

(* The source near the centre of the area.                                 *)
SourceNear == [n \in Node |->
  CASE n = s -> 2 [] n = a -> 1 [] n = b -> 0 [] n = c -> 1 [] OTHER -> 3]
(* The source at the far end.                                              *)
SourceFar == [n \in Node |->
  CASE n = s -> 3 [] n \in {a, b} -> 2 [] n = c -> 1 [] OTHER -> 0]
=============================================================================

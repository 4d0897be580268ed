---------------------------- MODULE MCVruCluster ----------------------------
(***************************************************************************)
(* ClusterServices for TLC: two stations, where nothing goes wrong in the  *)
(* first world, and only one creates clusters in the wild one.             *)
(***************************************************************************)
EXTENDS ClusterServices

CONSTANTS s1, s2

Stations == {s1, s2}
OnlyFirst == {s1}
=============================================================================

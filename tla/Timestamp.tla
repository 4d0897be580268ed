----------------------------- MODULE Timestamp -----------------------------
(***************************************************************************)
(* The timestamp TST of a position vector: milliseconds modulo 2^32, with  *)
(* the comparison and subtraction of class TST                             *)
(* (src/src/flexstack/geonet/position_vector.py).                          *)
(***************************************************************************)
EXTENDS Integers

CONSTANT Wrap   \* 2^32 in the code

ASSUME WrapAssumption == Wrap \in Nat \ {0} /\ Wrap % 2 = 0

Tst == 0..(Wrap - 1)
Half == Wrap \div 2

(* The timestamp of the instant t.                                         *)
TstOf(t) == t % Wrap

(* Slip: plain comparison, blind to the wrap.                              *)
TstPlainGt(a, b) == a > b
(* TST.__gt__                                                              *)
TstGt(a, b) == \/ a > b /\ a - b <= Half
               \/ b > a /\ b - a > Half

(* TST.__sub__                                                             *)
TstMinus(a, b) == IF a - b < 0 THEN a - b + Wrap ELSE a - b
=============================================================================

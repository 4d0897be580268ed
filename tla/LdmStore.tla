----------------------------- MODULE LdmStore -----------------------------
(***************************************************************************)
(* What the Local Dynamic Map promises of the records it stores, whoever   *)
(* adds, updates, collects or searches at the same time: an identifier is  *)
(* given once, and a record that nobody has replaced stays until it is     *)
(* obsolete, that is, out of date or to be dropped for its place.          *)
(***************************************************************************)
EXTENDS Integers

CONSTANT MaxId   \* identifiers are 0..MaxId - 1

VARIABLES
  life,     \* life[i]: what has become of the record with identifier i
  obsolete  \* the records that may go

Id == 0..MaxId - 1

Init == life = [i \in Id |-> "unused"] /\ obsolete = {}

Becomes(i, l) == life' = [life EXCEPT ![i] = l]

\* Identifiers are given in ascending order.
Insert(i) ==
  /\ life[i] = "unused" /\ \A j \in 0..i - 1 : life[j] # "unused"
  /\ Becomes(i, "stored")

\* Also a record that is gone can be replaced, see LdmService!UpdateWrite.
Replace(i) == life[i] # "unused" /\ Becomes(i, "replaced")

Discard(i) ==
  /\ life[i] = "stored" /\ i \in obsolete
  /\ Becomes(i, "gone")

Age == UNCHANGED life

Next ==
  /\ Age \/ \E i \in Id : Insert(i) \/ Replace(i) \/ Discard(i)
  /\ obsolete \subseteq obsolete'

Spec == Init /\ [][Next]_<<life, obsolete>>
===========================================================================

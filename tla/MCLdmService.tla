--------------------------- MODULE MCLdmService ---------------------------
(***************************************************************************)
(* Small instances of LdmService for TLC.                                  *)
(***************************************************************************)
EXTENDS LdmService

CONSTANTS c1, c2, p, q
OneConsumer == [s \in Sub |-> 2]
OwnNotify == [s \in Sub |-> IF s = p THEN 1 ELSE 0]
Threads == [maintenance |-> "Thread", service |-> "Thread", callers |-> {c1}]
Reactive == [maintenance |-> "Reactive", service |-> "Reactive", callers |-> {c1, c2}]
OwnWays == {Reactive, Threads}
OwnMany == [s \in Sub |-> 1]
===========================================================================

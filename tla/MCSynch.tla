------------------------------ MODULE MCSynch -------------------------------
(***************************************************************************)
(* Instances of Synch for TLC.                                             *)
(***************************************************************************)
EXTENDS Synch

CONSTANTS t1, t2, t3

Ascending == [t \in Threads |-> IF t = t1 THEN 1 ELSE IF t = t2 THEN 2 ELSE 3]
Equal == [t \in Threads |-> 1]
Zero == [s \in Semas |-> 0]
=============================================================================

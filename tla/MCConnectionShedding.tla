------------------------ MODULE MCConnectionShedding ------------------------
(* Small instances of ConnectionShedding. *)
EXTENDS ConnectionShedding, TLC

CONSTANTS i1, i2

(* One machine has all connections; the other is brought up for it. *)
Alone == [i \in Instance |-> IF i = i1 THEN 5 ELSE 0]
=============================================================================

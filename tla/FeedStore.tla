----------------------------- MODULE FeedStore -----------------------------
(***************************************************************************)
(* What the import of static feeds promises to the rest of the service,    *)
(* which only reads the partitions: the data served for a feed is replaced *)
(* in one step by a whole published version, it never goes back to an      *)
(* older one, and what is recorded as imported is never ahead of it.       *)
(***************************************************************************)
EXTENDS Naturals

CONSTANTS Feed, MaxVersion

VARIABLES
  published,  \* the newest version each feed's agency has published
  served,     \* the version the partitions hold, 0 before the first import
  recorded    \* the version import_metadata claims, 0 if it claims none

Init ==
  /\ published = [f \in Feed |-> 1]
  /\ served = [f \in Feed |-> 0]
  /\ recorded = [f \in Feed |-> 0]

Publish(f) ==
  /\ published[f] < MaxVersion
  /\ published' = [published EXCEPT ![f] = @ + 1]
  /\ UNCHANGED <<served, recorded>>

(* A sync replaces the data by a version at least as new. *)
Replace(f) ==
  /\ \E v \in 1..published[f] :
       /\ v >= served[f]
       /\ served' = [served EXCEPT ![f] = v]
  /\ UNCHANGED <<published, recorded>>

(* The metadata of a resource that could not be identified claims nothing. *)
Record(f) ==
  /\ \E v \in 0..served[f] : recorded' = [recorded EXCEPT ![f] = v]
  /\ UNCHANGED <<published, served>>

Next == \E f \in Feed : Publish(f) \/ Replace(f) \/ Record(f)

Spec == Init /\ [][Next]_<<published, served, recorded>>
=============================================================================

---------------------------- MODULE MCGtfsSync ----------------------------
(* Small instances of GtfsSync: two importers, one or two hosts and feeds. *)
EXTENDS GtfsSync, TLC

CONSTANTS i1, i2, f1, f2, h1

OneFeed == {f1}
TwoFeeds == {f1, f2}

(* Each importer in its own container, or both in one. *)
OwnHost == [i \in Importer |-> i]
SameHost == [i \in Importer |-> CHOOSE h \in Host : TRUE]

(* With a host of its own, an importer may be exchanged for the other. *)
Symmetry == Permutations(Importer)

(* A server that dates its archives, and one that only tags them. *)
Dated == [f \in Feed |-> {"lastModified", "etag"}]
Tagged == [f \in Feed |-> {"etag"}]
===========================================================================

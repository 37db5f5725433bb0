------------------------- MODULE MCScheduleGateway -------------------------
(* Small instances of ScheduleGateway. *)
EXTENDS ScheduleGateway, TLC

CONSTANTS c1, c2, f1, f2, unknown

(* A malformed message, a feed code that is not loaded, and a subscription
   without feed code to routes of several feeds. *)
Requests ==
  {[wellFormed |-> FALSE, feedCode |-> f1, routeFeeds |-> {f1}],
   [wellFormed |-> TRUE, feedCode |-> unknown, routeFeeds |-> {f1}],
   [wellFormed |-> TRUE, feedCode |-> Nothing, routeFeeds |-> {f1, f2, unknown}]}

(* Version 3 differs from version 2 only in what is not compared. *)
ShownParts == <<"a", "b", "b">>
=============================================================================

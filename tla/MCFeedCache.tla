----------------------------- MODULE MCFeedCache -----------------------------
(* A small instance of FeedCache: a server on UTC and an agency eight hours
   behind. *)
EXTENDS FeedCache

CONSTANTS c1, c2

MCTtl == [w \in What |-> IF w = "days" THEN 12 ELSE 4]

MCShift == -8

(* The keys of schedules have nothing in common with the others. *)
MCWorkloads ==
  {[c \in Caller |-> IF c = c1 THEN {"days"} ELSE {}],
   [c \in Caller |-> IF c = c1 THEN {"stops"} ELSE {"areas"}],
   [c \in Caller |-> {"areas"}]}
=============================================================================

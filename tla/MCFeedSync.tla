------------------------------ MODULE MCFeedSync ------------------------------
(* A small instance of FeedSync: two feeds, two syncs that may overlap. *)
EXTENDS FeedSync

CONSTANTS f1, f2

MCFeeds == <<f1, f2>>
=============================================================================

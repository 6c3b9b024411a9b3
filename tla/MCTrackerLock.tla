--------------------------- MODULE MCTrackerLock ---------------------------
(* Two names and frames of up to two armors: a foreign name before and     *)
(* after an own one in the same frame, and counters small enough to reach. *)
EXTENDS TrackerLock

CONSTANTS hero, sentry

MCNames == {hero, sentry}
=============================================================================

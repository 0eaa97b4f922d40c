---------------------------- MODULE MCRateLimit ----------------------------
(***************************************************************************)
(* RateLimit for TLC: a limit of three, seconds of three ticks, and a      *)
(* clock that runs for three seconds, so that a window opens at each tick  *)
(* of a second and a burst falls on each side of its end.                  *)
(***************************************************************************)
EXTENDS RateLimit
=============================================================================

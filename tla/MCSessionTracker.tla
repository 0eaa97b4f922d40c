-------------------------- MODULE MCSessionTracker --------------------------
(***************************************************************************)
(* Instances of SessionTracker for TLC: five connections from two          *)
(* addresses with a limit of two, so that both addresses can be at the     *)
(* limit, with live or with panicked sessions, and another is refused.     *)
(***************************************************************************)
EXTENDS SessionTracker

CONSTANTS t1, t2, t3, t4, t5, a1, a2

MCTasks == {t1, t2, t3, t4, t5}
MCAddresses == {a1, a2}

=============================================================================

------------------------------- MODULE MCTray -------------------------------
(* A small instance of Tray for TLC.  Its run checks liveness, so its      *)
(* notifications are not a symmetry set.                                   *)
EXTENDS Tray

=============================================================================

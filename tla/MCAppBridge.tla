---------------------------- MODULE MCAppBridge ----------------------------
(* Small instances of AppBridge for TLC.                                   *)
EXTENDS AppBridge, TLC

(* Applications and frames are interchangeable.                            *)
Symmetry == Permutations(Installed) \cup Permutations(Frames)

=============================================================================

---------------------------- MODULE MCShellView ----------------------------
(* Small instances of ShellView for TLC.                                   *)
EXTENDS ShellView, TLC

(* Watchfaces are interchangeable.                                         *)
Symmetry == Permutations(Faces)

=============================================================================

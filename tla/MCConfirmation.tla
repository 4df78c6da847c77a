--------------------------- MODULE MCConfirmation ---------------------------
(* Small instances of Confirmation for TLC.                                *)
EXTENDS Confirmation, TLC

(* Calls and shells are interchangeable; the run that checks liveness does *)
(* without.                                                                *)
Symmetry == Permutations(Requests) \cup Permutations(Shells)

=============================================================================

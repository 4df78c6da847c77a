----------------------------- MODULE MCAppStore -----------------------------
(* Small instances of AppStore for TLC.                                    *)
EXTENDS AppStore, TLC

(* Jobs, versions and names are interchangeable; processes are not.        *)
Symmetry == Permutations(Jobs) \cup Permutations(Versions) \cup Permutations(Names)

=============================================================================

------------------------------ MODULE MCWallet ------------------------------
(* Small instances of Wallet for TLC.                                      *)
EXTENDS Wallet, TLC

(* Calls and passphrases are interchangeable.                              *)
Symmetry == Permutations(Calls) \cup Permutations(Passphrases)

=============================================================================

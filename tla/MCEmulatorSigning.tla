------------------------- MODULE MCEmulatorSigning -------------------------
(* A small instance of EmulatorSigning for TLC: one call is made by a page *)
(* and one by a client of its own.                                         *)
EXTENDS EmulatorSigning

CONSTANTS c1, c2, p1, p2, t1

MCMaker == c1 :> p1 @@ c2 :> t1

(* No more confirmations than calls, so no ids beyond them.                *)
MCIds == 1..Cardinality(Calls)
=============================================================================

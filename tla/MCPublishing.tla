---------------------------- MODULE MCPublishing ----------------------------
(* A small instance of Publishing for TLC.                                 *)
EXTENDS Publishing, TLC

CONSTANTS Plain

MCIdForm == [i \in Ids |-> "plain"]

(* manifest.json, index.html and app.js.                                   *)
MCSize  == [b \in {Plain, Spoilt} |-> 3]
MCShape == [b \in {Plain, Spoilt} |-> "plain"]

Man(i, v, form) == [man |-> [id |-> i, ver |-> v, form |-> form], body |-> Plain]

(* Two versions of an application, and the second as only the command line *)
(* tool takes it.                                                          *)
MCTrees == {Man(1, 1, "plain"), Man(1, 2, "plain"), Man(1, 2, "no entry")}

Symmetry == Permutations(Keys)

=============================================================================

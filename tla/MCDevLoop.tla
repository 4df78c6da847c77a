----------------------------- MODULE MCDevLoop -----------------------------
(* A small instance of DevLoop for TLC.                                    *)
EXTENDS DevLoop
=============================================================================

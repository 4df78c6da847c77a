---------------------------- MODULE MCShellLink ----------------------------
(* A small instance of ShellLink for TLC.                                  *)
EXTENDS ShellLink
=============================================================================

----------------------------- MODULE MCConsole -----------------------------
(* Console on a small instance. *)
EXTENDS Console, TLC

CONSTANTS w1, w2, plain, mistyped
=============================================================================

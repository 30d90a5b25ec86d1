------------------------------- MODULE MCWal -------------------------------
(* Wal on a small instance: the clicks are model values. *)
EXTENDS Wal, TLC

CONSTANTS w1, w2, w3, plain, urgent, mistyped, malformed

MCWriters == {w1, w2, w3}
MCClicks == {plain, urgent, mistyped, malformed}
MCMalformed == {malformed}
MCThrowing == {mistyped}
=============================================================================

----------------------------- MODULE MCLongPoll -----------------------------
(* LongPoll on a small instance: one click passes the filter, one does not. *)
EXTENDS LongPoll, TLC

CONSTANTS w1, w2, p1, wanted, other, mistyped

MCClicks == {wanted, other, mistyped}
MCThrowing == {mistyped}
MCWanted == {wanted}
=============================================================================

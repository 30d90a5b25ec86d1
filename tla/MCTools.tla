------------------------------ MODULE MCTools ------------------------------
(* Tools on a small instance: the clicks are those its calls append. *)
EXTENDS Tools, TLC

CONSTANTS w1, w2, alice, bob, path

MCClicks == ToolClicks

\* A release whose task id validate_click rejects.
MCMalformed == {ClickOf("RELEASE", bob, path)}
=============================================================================

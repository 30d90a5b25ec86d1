------------------------------- MODULE MCStdio -------------------------------
(* Stdio on a small instance: the lines stand for what clients send. *)
EXTENDS Stdio, TLC

CONSTANTS b1, b2

Call(method, target) ==
  [json |-> TRUE, version |-> "2.0", id |-> "1", nested |-> FALSE, method |-> method,
   result |-> FALSE, error |-> FALSE, typed |-> TRUE, target |-> target]

Post2 == [Call("tools/call", "cc.post_clack") EXCEPT !.id = "2"]
Wait1 == Call("tools/call", "cc.wait")

\* One client sends anything, the other posts and waits.
MCLines ==
  b1 :> {[Call("initialize", "agent") EXCEPT !.id = "odd"],
         [Call("initialize", "") EXCEPT !.id = "a"],
         Post2, Wait1,
         [Call("resources/read", "cc://nowhere") EXCEPT !.typed = FALSE],
         [Call("notifications/initialized", "") EXCEPT !.id = "none"],
         [Call("notifications/cancelled", "") EXCEPT !.id = "none", !.nested = TRUE],
         [Call("none", "") EXCEPT !.result = TRUE],
         [Call("none", "") EXCEPT !.id = "odd"], [Call("none", "") EXCEPT !.json = FALSE]}
  @@ b2 :> {Post2, Wait1}

MCMaxLines == b1 :> 2 @@ b2 :> 1

MCKinds == {b1 :> k @@ b2 :> "bridge" : k \in {"bridge", "embedded"}}
=============================================================================

------------------------------- MODULE MCHub -------------------------------
(* Hub on small instances, with the clicks each run needs. *)
EXTENDS Hub, TLC

CONSTANTS w1, w2, alice, bob, t1

Plain == [verb |-> "OBSERVE", agent |-> alice, task |-> NoTask, parent |-> 0,
            hitl |-> FALSE, ref |-> 0, mistyped |-> FALSE]
OnTask(v, a) == [Plain EXCEPT !.verb = v, !.agent = a, !.task = t1]
Referring(v, e) == [Plain EXCEPT !.verb = v, !.agent = bob, !.ref = e]
Mistyped(c) == [c EXCEPT !.mistyped = TRUE]

Artifact == [OnTask("ARTIFACT", alice) EXCEPT !.hitl = TRUE]

\* Agents and people around one task: work, a claim posted as a reply, reviews.
ReviewClicks ==
  {Artifact, [OnTask("CLAIM", alice) EXCEPT !.parent = 1], OnTask("ANNOUNCE", alice),
   Referring("APPROVE", 1), Referring("REJECT", 2),
   Mistyped(Referring("APPROVE", 2)), Mistyped(OnTask("PROGRESS", alice))}

\* The life of one task that two agents work on.
BoardClicks ==
  {OnTask("CLAIM", alice), OnTask("CLAIM", bob), OnTask("ANNOUNCE", alice),
   OnTask("COMPLETE", bob), Mistyped(OnTask("PROGRESS", alice))}

MCThrowing == {c \in Clicks : c.mistyped /\ TypedReader(c) # "none"}
=============================================================================

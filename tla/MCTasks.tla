------------------------------- MODULE MCTasks -------------------------------
(* Tasks on a small instance: two agents, one task. *)
EXTENDS Tasks, TLC

CONSTANTS w1, w2, alice, bob, t1, frontend

\* What no other tool sends: announcements, failures, a mistyped payload, an
\* answer that names no task.
MCPosted ==
  {Click("ANNOUNCE", alice, t1, 0),
   Click("ANSWER", bob, NoTask, 1),
   [Click("ERROR", bob, t1, 0) EXCEPT !.mistyped = TRUE]}

MCClicks == Direct \cup AfterRead

MCOffered ==
  MCPosted \cup {ReportProgress(alice, t1), PostArtifact(bob, t1)}

MCThrowing == {c \in Clicks : c.mistyped /\ TypedReader(c) # "none"}

Symmetry == Permutations(Writers)
=============================================================================

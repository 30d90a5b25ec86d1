----------------------------- MODULE MCQueries -----------------------------
(* Queries over byte strings of a four-letter alphabet: 1 is a letter, 2 the  *)
(* slash, 3 the digit one.  Of the epochs 2..4 the key of the first holds a   *)
(* slash and the key of the last carries into the next byte; the first byte   *)
(* of a key stays 0, which is in no id.                                       *)
EXTENDS Queries

a == <<1>>
aa == <<1, 1>>
asa == <<1, 2, 1>>   \* an id with a slash, as validation admits
long == <<1, 1, 1, 1>>

MCAgents == {a, aa, asa}
MCTasks == {a, aa, asa}
MCNoTask == <<>>
MCIdBytes == {1, 2, 3}

Plain == [verb |-> "OBSERVE", agent |-> a, task |-> <<>>, parent |-> 0, hitl |-> FALSE,
          ref |-> 0, mistyped |-> FALSE, subject |-> <<>>, slice |-> <<>>, odd |-> FALSE]
On(v, ag, t) == [Plain EXCEPT !.verb = v, !.agent = ag, !.task = t]

Artifact(ag, t) == On("ARTIFACT", ag, t)
Refer(v, ag, e) == [On(v, ag, <<>>) EXCEPT !.ref = e]
Answer(e) == [On("ANSWER", a, <<>>) EXCEPT !.parent = e]

\* What each projection and the loop of cc.get_task do something with, verdicts and
\* replies to any epoch, one without a row included, ids with a slash, an unknown
\* verb, and lengths that do not fit.
MCClicks ==
  {On("CLAIM", a, a), [On("CLAIM", aa, a) EXCEPT !.slice = a], On("CLAIM", asa, asa),
   [On("CLAIM", a, a) EXCEPT !.slice = asa], On("COMPLETE", a, a), On("YIELD", aa, a),
   On("HALT", aa, a), On("ANNOUNCE", a, <<>>), On("HEARTBEAT", a, <<>>),
   On("HEARTBEAT", aa, <<>>),
   [Artifact(a, a) EXCEPT !.hitl = TRUE], [Artifact(aa, asa) EXCEPT !.odd = TRUE], Artifact(a, aa),
   [Refer("APPROVE", a, 3) EXCEPT !.hitl = TRUE],
   [On("Approve", aa, a) EXCEPT !.subject = <<1, 1, 1>>],
   [Plain EXCEPT !.subject = long], [Plain EXCEPT !.agent = long]}
  \cup {Refer("APPROVE", a, e) : e \in {2, 3}} \cup {Refer("REJECT", aa, 2)}
  \cup {Answer(e) : e \in 1..3}
=============================================================================

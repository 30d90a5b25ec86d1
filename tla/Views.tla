------------------------------- MODULE Views -------------------------------
(***************************************************************************)
(* views/materializer.hpp: what each projection does to its table for the  *)
(* clack of epoch e and click c, as operators on the tables.               *)
(*                                                                         *)
(* A click is reduced to what the projections look at: its verb, agent,    *)
(* task, parent, whether hitl_req or blocking is set (hitl), the epoch_ref *)
(* of its payload (ref), and whether a payload field has another type than *)
(* the projection reads it as (mistyped).  Percentages, summaries and load *)
(* are left out.                                                           *)
(***************************************************************************)
EXTENDS Naturals

CONSTANTS Agents, Tasks, NoAgent,
          NoTask,    \* the empty task_id
          NoRow      \* no row in a table under a key

Verdicts == {"APPROVE", "REJECT"}
BoardVerbs == {"ANNOUNCE", "CLAIM", "PROGRESS", "COMPLETE", "ERROR", "HALT"}

\* The tables, named as in Materializer::open.
Tables == <<"agent_log", "task_board", "thread_tree", "agent_presence",
            "artifact_index", "hitl_queue">>

NoViews == [agent_log      |-> {},  \* <<agent, epoch>>
            task_board     |-> [t \in Tasks |-> NoRow],
            thread_tree    |-> {},  \* <<root, depth, epoch>>
            agent_presence |-> [a \in Agents |-> NoRow],
            artifact_index |-> {},  \* [task, epoch, review]
            hitl_queue     |-> {}]  \* epochs

\* project_agent_log
ProjectAgentLog(log, e, c) == log \cup {<<c.agent, e>>}

\* A faulty variant: the verb stored as the status.
StatusIsVerb(verb) == verb

\* The status a board verb leaves.  The state of an existing row is rebuilt
\* from a fresh TaskState, whose status is Unclaimed; Announce sets nothing.
StatusAfter(verb) ==
  CASE verb = "ANNOUNCE" -> "unclaimed"
    [] verb = "CLAIM"    -> "claimed"
    [] verb = "PROGRESS" -> "in_progress"
    [] verb = "COMPLETE" -> "completed"
    [] verb = "ERROR"    -> "errored"
    [] verb = "HALT"     -> "halted"

\* project_task_board: created_epoch and owner_agent are read back from the
\* row, the rest is overwritten.
ProjectTaskBoard(board, e, c) ==
  IF c.task = NoTask \/ c.verb \notin BoardVerbs THEN board
  ELSE LET row == board[c.task]
           owner == IF row = NoRow THEN NoAgent ELSE row.owner
       IN [board EXCEPT ![c.task] =
            [status  |-> StatusAfter(c.verb),
             owner   |-> IF c.verb = "CLAIM" THEN c.agent ELSE owner,
             created |-> IF row = NoRow THEN e ELSE row.created,
             last    |-> e,
             verb    |-> c.verb]]

\* project_thread_tree: the parent is the root, whatever its own parent is.
ProjectThreadTree(tree, e, c) ==
  IF c.parent = 0 THEN tree ELSE tree \cup {<<c.parent, 1, e>>}

\* A faulty variant: a heartbeat does not read the row it merges with.
ProjectPresenceUnmerged(presence, e, c) ==
  CASE c.verb = "ANNOUNCE" ->
         [presence EXCEPT ![c.agent] = [last |-> e, profile |-> e]]
    [] c.verb = "HEARTBEAT" ->
         [presence EXCEPT ![c.agent] = [last |-> e, profile |-> 0]]
    [] OTHER -> presence

\* project_presence: an announcement replaces the profile (capabilities and
\* model, here the epoch that gave them), a heartbeat keeps it.
ProjectPresence(presence, e, c) ==
  LET row == presence[c.agent] IN
  CASE c.verb = "ANNOUNCE" ->
         [presence EXCEPT ![c.agent] = [last |-> e, profile |-> e]]
    [] c.verb = "HEARTBEAT" ->
         [presence EXCEPT ![c.agent] =
           [last |-> e, profile |-> IF row = NoRow THEN 0 ELSE row.profile]]
    [] OTHER -> presence

\* A faulty variant: the table keyed by the task alone, so that an artifact
\* takes the place of the task's last one.
ProjectArtifactIndexByTask(index, e, c) ==
  CASE c.verb = "ARTIFACT" ->
         {a \in index : a.task # c.task}
           \cup {[task |-> c.task, epoch |-> e, review |-> "pending"]}
    [] c.verb \in Verdicts /\ c.ref # 0 ->
         {IF a.epoch = c.ref
            THEN [a EXCEPT !.review =
                   IF c.verb = "APPROVE" THEN "approved" ELSE "rejected"]
            ELSE a : a \in index}
    [] OTHER -> index

\* project_artifact_index: an artifact enters as pending; a verdict marks every
\* entry of the epoch it refers to.
ProjectArtifactIndex(index, e, c) ==
  CASE c.verb = "ARTIFACT" ->
         {a \in index : <<a.task, a.epoch>> # <<c.task, e>>}
           \cup {[task |-> c.task, epoch |-> e, review |-> "pending"]}
    [] c.verb \in Verdicts /\ c.ref # 0 ->
         {IF a.epoch = c.ref
            THEN [a EXCEPT !.review =
                   IF c.verb = "APPROVE" THEN "approved" ELSE "rejected"]
            ELSE a : a \in index}
    [] OTHER -> index

\* A faulty variant: only an approval removes the item.
ProjectHitlQueueApproveOnly(queue, e, c) ==
  (IF c.hitl THEN queue \cup {e} ELSE queue)
    \ (IF c.verb = "APPROVE" /\ c.ref # 0 THEN {c.ref} ELSE {})

\* project_hitl_queue: first the insertion, then the removal.
ProjectHitlQueue(queue, e, c) ==
  (IF c.hitl THEN queue \cup {e} ELSE queue)
    \ (IF c.verb \in Verdicts /\ c.ref # 0 THEN {c.ref} ELSE {})

\* Materializer::on_clack, one table at a time.
Projected(views, table, e, c) ==
  CASE table = "agent_log" ->
         [views EXCEPT !.agent_log = ProjectAgentLog(@, e, c)]
    [] table = "task_board" ->
         [views EXCEPT !.task_board = ProjectTaskBoard(@, e, c)]
    [] table = "thread_tree" ->
         [views EXCEPT !.thread_tree = ProjectThreadTree(@, e, c)]
    [] table = "agent_presence" ->
         [views EXCEPT !.agent_presence = ProjectPresence(@, e, c)]
    [] table = "artifact_index" ->
         [views EXCEPT !.artifact_index = ProjectArtifactIndex(@, e, c)]
    [] table = "hitl_queue" ->
         [views EXCEPT !.hitl_queue = ProjectHitlQueue(@, e, c)]

\* The projection that reads a typed field of this verb's payload: json::value
\* throws there when the field has another type.
TypedReader(c) ==
  CASE c.verb \in {"PROGRESS", "COMPLETE", "ERROR"} /\ c.task # NoTask ->
         "task_board"
    [] c.verb \in {"ANNOUNCE", "HEARTBEAT"} -> "agent_presence"
    [] c.verb \in Verdicts \cup {"ARTIFACT"} -> "artifact_index"
    [] OTHER -> "none"

ThrowsIn(table, c) == c.mistyped /\ TypedReader(c) = table
=============================================================================

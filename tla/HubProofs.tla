----------------------------- MODULE HubProofs -----------------------------
(***************************************************************************)
(* Theorems about Hub and Tasks, for any agents, tasks, clicks and writers:*)
(* what the views show, that an acknowledged clack, or one with a later    *)
(* turn, is in every table and that a verdict empties the review queue;    *)
(* and the tools that read before they append.                             *)
(*                                                                         *)
(* These tools carry what they read across the appends of others.  Why a   *)
(* reply that names a task still has its clack's: the clack is a row of    *)
(* the log when it is read, and by HubInv no row changes and no later      *)
(* append is given its epoch.                                              *)
(***************************************************************************)
EXTENDS Tasks, WalProofs

-----------------------------------------------------------------------------
(* The hub and its log *)

\* A step of the hub is one of its log, or leaves the log alone.
LEMMA HubStepIsWalStep == [HubNext]_hubVars => [Next]_walVars
<1> SUFFICES ASSUME [HubNext]_hubVars PROVE [Next]_walVars
  OBVIOUS
<1>1. CASE LogStep
  BY <1>1 DEF LogStep, Next, Advance
<1>2. CASE HubStop
  BY <1>2 DEF HubStop, Next
<1>3. ASSUME NEW w \in Writers, NEW c \in Clicks, Submit(w, c)
      PROVE  [Next]_walVars
  BY <1>3 DEF Submit, Next
<1>4. ASSUME NEW w \in Writers, TakeTurn(w) PROVE [Next]_walVars
  BY <1>4 DEF TakeTurn, Next, Advance
<1>5. ASSUME NEW w \in Writers, Project(w) PROVE [Next]_walVars
  BY <1>5 DEF Project
<1>6. ASSUME NEW w \in Writers, ListenersDone(w) PROVE [Next]_walVars
  BY <1>6 DEF ListenersDone, Next, Advance
<1>7. ASSUME NEW w \in Writers, ProjectionThrows(w) PROVE [Next]_walVars
  BY <1>7 DEF ProjectionThrows, Next, Advance
<1>8. CASE UNCHANGED hubVars
  BY <1>8 DEF hubVars, walVars
<1>9. QED
  BY <1>1, <1>2, <1>3, <1>4, <1>5, <1>6, <1>7, <1>8 DEF HubNext

\* So what WalProofs shows of the log holds of the hub's.
LEMMA HubImplementsWal == HubSpec => Spec
<1>1. HubInit => Init
  BY DEF HubInit
<1>2. QED
  BY <1>1, HubStepIsWalStep, PTL DEF HubSpec, Spec

-----------------------------------------------------------------------------
(* The views *)

TablesOf(log, board, tree, presence, index, queue) ==
  [agent_log |-> log, task_board |-> board, thread_tree |-> tree,
   agent_presence |-> presence, artifact_index |-> index, hitl_queue |-> queue]

\* Which fields the tables and their rows have.
ViewsShape ==
  /\ views = TablesOf(views.agent_log, views.task_board, views.thread_tree,
                      views.agent_presence, views.artifact_index, views.hitl_queue)
  /\ views.task_board = [t \in Tasks |-> views.task_board[t]]
  /\ views.agent_presence = [a \in Agents |-> views.agent_presence[a]]
  /\ \A a \in views.artifact_index :
       a = [task |-> a.task, epoch |-> a.epoch, review |-> a.review]
  /\ done \in 0..6

\* Sound views stay sound while only the log grows.
LEMMA ViewsSoundStays ==
  ASSUME HubInv, [Next]_walVars, ViewsSound, views' = views
  PROVE  ViewsSound'
<1>1. \A e \in Stored : e \in Stored' /\ store'[e] = store[e]
  BY RowStays DEF Stored
<1>2. AgentLogSound'
  BY <1>1 DEF ViewsSound, AgentLogSound
<1>3. BoardSound'
  BY <1>1 DEF ViewsSound, BoardSound, RowSound
<1>4. IndexSound'
  BY <1>1 DEF ViewsSound, IndexSound, Verdict
<1>5. QueueSound'
  BY <1>1 DEF ViewsSound, QueueSound
<1>6. TreeSound'
  BY <1>1 DEF ViewsSound, TreeSound
<1>7. PresenceSound'
  BY <1>1 DEF ViewsSound, PresenceSound, OwnClacks
<1>8. QED
  BY <1>2, <1>3, <1>4, <1>5, <1>6, <1>7 DEF ViewsSound

\* One projection of a clack that is in the log.
LEMMA ProjectionSound ==
  ASSUME ViewsShape, ViewsSound, UNCHANGED store,
         NEW e \in Stored, NEW n \in 1..6,
         views' = Projected(views, Tables[n], e, store[e])
  PROVE  /\ ViewsSound'
         /\ done' \in 0..6 => ViewsShape'
<1> DEFINE c == store[e]
\* What a table that stays the same was, it is.
<1>1. views'.agent_log = views.agent_log => AgentLogSound'
  BY DEF ViewsSound, AgentLogSound, Stored
<1>2. views'.task_board = views.task_board => BoardSound'
  BY DEF ViewsSound, BoardSound, RowSound, Stored
<1>3. views'.artifact_index = views.artifact_index => IndexSound'
  BY DEF ViewsSound, IndexSound, Verdict, Stored
<1>4. views'.hitl_queue = views.hitl_queue => QueueSound'
  BY DEF ViewsSound, QueueSound, Stored
<1>5. views'.thread_tree = views.thread_tree => TreeSound'
  BY DEF ViewsSound, TreeSound, Stored
<1>6. views'.agent_presence = views.agent_presence => PresenceSound'
  BY DEF ViewsSound, PresenceSound, OwnClacks, Stored
<1>7. CASE n = 1
  <2>1. views' = TablesOf(
          ProjectAgentLog(views.agent_log, e, c), views.task_board, views.thread_tree,
          views.agent_presence, views.artifact_index, views.hitl_queue)
    BY <1>7 DEF Projected, Tables, TablesOf, ViewsShape
  <2>2. /\ views'.agent_log = ProjectAgentLog(views.agent_log, e, c)
        /\ views'.task_board = views.task_board
        /\ views'.thread_tree = views.thread_tree
        /\ views'.agent_presence = views.agent_presence
        /\ views'.artifact_index = views.artifact_index
        /\ views'.hitl_queue = views.hitl_queue
    BY <2>1 DEF TablesOf
  <2>3. AgentLogSound'
    BY <2>2 DEF ViewsSound, AgentLogSound, ProjectAgentLog, Stored
  <2>4. done' \in 0..6 => ViewsShape'
    BY <2>1, <2>2 DEF ViewsShape
  <2>5. QED
    BY <1>2, <1>3, <1>4, <1>5, <1>6, <2>2, <2>3, <2>4 DEF ViewsSound
<1>8. CASE n = 2
  <2>1. views' = TablesOf(
          views.agent_log, ProjectTaskBoard(views.task_board, e, c), views.thread_tree,
          views.agent_presence, views.artifact_index, views.hitl_queue)
    BY <1>8 DEF Projected, Tables, TablesOf, ViewsShape
  <2>2. /\ views'.agent_log = views.agent_log
        /\ views'.task_board = ProjectTaskBoard(views.task_board, e, c)
        /\ views'.thread_tree = views.thread_tree
        /\ views'.agent_presence = views.agent_presence
        /\ views'.artifact_index = views.artifact_index
        /\ views'.hitl_queue = views.hitl_queue
    BY <2>1 DEF TablesOf
  <2>3. views'.task_board = [t \in Tasks |-> views'.task_board[t]]
    BY <2>2 DEF ProjectTaskBoard, ViewsShape
  <2>4. BoardSound'
    <3> SUFFICES ASSUME NEW t \in Tasks, views'.task_board[t] # NoRow
                 PROVE  RowSound(t, views.task_board[t])'
      BY DEF BoardSound
    <3>1. CASE views'.task_board[t] = views.task_board[t]
      BY <3>1 DEF ViewsSound, BoardSound, RowSound, Stored
    <3>2. CASE t = c.task /\ c.task # NoTask /\ c.verb \in BoardVerbs
      <4> DEFINE row == views.task_board[t]
                 new == views'.task_board[t]
      <4>1. /\ new.last = e /\ new.verb = c.verb /\ new.status = StatusAfter(c.verb)
            /\ new.created = IF row = NoRow THEN e ELSE row.created
            /\ new.owner = IF c.verb = "CLAIM" THEN c.agent
                           ELSE IF row = NoRow THEN NoAgent ELSE row.owner
        <5> DEFINE written ==
              [status  |-> StatusAfter(c.verb),
               owner   |-> IF c.verb = "CLAIM" THEN c.agent
                           ELSE IF row = NoRow THEN NoAgent ELSE row.owner,
               created |-> IF row = NoRow THEN e ELSE row.created,
               last    |-> e,
               verb    |-> c.verb]
        <5>1. views'.task_board = [views.task_board EXCEPT ![t] = written]
          BY <2>2, <3>2, Zenon DEF ProjectTaskBoard
        <5>2. t \in DOMAIN views.task_board
          BY DEF ViewsShape
        <5>3. new = written
          <6> HIDE DEF written
          <6>1. QED
            BY <5>1, <5>2
        <5> HIDE DEF row, new
        <5>4. QED
          BY <5>3
      <4>2. row # NoRow => RowSound(t, row)
        BY DEF ViewsSound, BoardSound
      <4> HIDE DEF row, new
      <4>3. RowSound(t, new)
        BY <3>2, <4>1, <4>2 DEF RowSound
      <4>4. QED
        BY <4>3 DEF RowSound, Stored, new
    <3>3. t # c.task \/ c.task = NoTask \/ c.verb \notin BoardVerbs =>
            views'.task_board[t] = views.task_board[t]
      <4>1. \/ views'.task_board = views.task_board
            \/ \E r : views'.task_board = [views.task_board EXCEPT ![c.task] = r]
        <5>1. CASE c.task = NoTask \/ c.verb \notin BoardVerbs
          BY <2>2, <5>1, Zenon DEF ProjectTaskBoard
        <5>2. CASE ~(c.task = NoTask \/ c.verb \notin BoardVerbs)
          <6> DEFINE row == views.task_board[c.task]
                     r == [status  |-> StatusAfter(c.verb),
                           owner   |-> IF c.verb = "CLAIM" THEN c.agent
                                       ELSE IF row = NoRow THEN NoAgent ELSE row.owner,
                           created |-> IF row = NoRow THEN e ELSE row.created,
                           last    |-> e,
                           verb    |-> c.verb]
          <6>1. views'.task_board = [views.task_board EXCEPT ![c.task] = r]
            BY <2>2, <5>2, Zenon DEF ProjectTaskBoard
          <6> HIDE DEF r
          <6>2. QED
            BY <6>1
        <5>3. QED
          BY <5>1, <5>2
      <4>2. c.task = NoTask \/ c.verb \notin BoardVerbs =>
              views'.task_board = views.task_board
        BY <2>2, Zenon DEF ProjectTaskBoard
      <4>3. t \in DOMAIN views.task_board
        BY DEF ViewsShape
      <4>4. CASE c.task = NoTask \/ c.verb \notin BoardVerbs
        BY <4>2, <4>4
      <4>5. ASSUME t # c.task PROVE views'.task_board[t] = views.task_board[t]
        BY <4>1, <4>3, <4>5
      <4>6. QED
        BY <4>4, <4>5
    <3>4. QED
      BY <3>1, <3>2, <3>3
  <2>5. done' \in 0..6 => ViewsShape'
    BY <2>1, <2>2, <2>3 DEF ViewsShape
  <2>6. QED
    BY <1>1, <1>3, <1>4, <1>5, <1>6, <2>2, <2>4, <2>5 DEF ViewsSound
<1>9. CASE n = 3
  <2>1. views' = TablesOf(
          views.agent_log, views.task_board, ProjectThreadTree(views.thread_tree, e, c),
          views.agent_presence, views.artifact_index, views.hitl_queue)
    BY <1>9 DEF Projected, Tables, TablesOf, ViewsShape
  <2>2. /\ views'.agent_log = views.agent_log
        /\ views'.task_board = views.task_board
        /\ views'.thread_tree = ProjectThreadTree(views.thread_tree, e, c)
        /\ views'.agent_presence = views.agent_presence
        /\ views'.artifact_index = views.artifact_index
        /\ views'.hitl_queue = views.hitl_queue
    BY <2>1 DEF TablesOf
  <2>3. done' \in 0..6 => ViewsShape'
    BY <2>1, <2>2 DEF ViewsShape
  <2>4. TreeSound'
    <3>1. c.parent # 0 => views'.thread_tree = views.thread_tree \cup {<<c.parent, 1, e>>}
      BY <2>2 DEF ProjectThreadTree
    <3>2. c.parent = 0 => views'.thread_tree = views.thread_tree
      BY <2>2 DEF ProjectThreadTree
    <3>3. \A x \in views'.thread_tree :
            x \in views.thread_tree \/ x = <<c.parent, 1, e>>
      BY <3>1, <3>2
    <3>4. <<c.parent, 1, e>>[3] = e /\ <<c.parent, 1, e>>[1] = c.parent
      OBVIOUS
    <3>5. QED
      BY <3>3, <3>4 DEF ViewsSound, TreeSound, Stored
  <2>5. QED
    BY <1>1, <1>2, <1>3, <1>4, <1>6, <2>2, <2>3, <2>4 DEF ViewsSound
<1>10. CASE n = 4
  <2>1. views' = TablesOf(
          views.agent_log, views.task_board, views.thread_tree,
          ProjectPresence(views.agent_presence, e, c), views.artifact_index, views.hitl_queue)
    BY <1>10 DEF Projected, Tables, TablesOf, ViewsShape
  <2>2. /\ views'.agent_log = views.agent_log
        /\ views'.task_board = views.task_board
        /\ views'.thread_tree = views.thread_tree
        /\ views'.agent_presence = ProjectPresence(views.agent_presence, e, c)
        /\ views'.artifact_index = views.artifact_index
        /\ views'.hitl_queue = views.hitl_queue
    BY <2>1 DEF TablesOf
  <2>3. done' \in 0..6 => ViewsShape'
    <3>1. views'.agent_presence = [a \in Agents |-> views'.agent_presence[a]]
      BY <2>2 DEF ProjectPresence, ViewsShape
    <3>2. QED
      BY <2>1, <2>2, <3>1 DEF ViewsShape
  <2>4. PresenceSound'
    <3> DEFINE Good(a, row) ==
                 /\ row.last \in OwnClacks(a, {"ANNOUNCE", "HEARTBEAT"})
                 /\ row.profile # 0 => row.profile \in OwnClacks(a, {"ANNOUNCE"})
    <3>1. \A a \in Agents : views.agent_presence[a] # NoRow => Good(a, views.agent_presence[a])
      BY DEF ViewsSound, PresenceSound
    <3>2. ASSUME NEW a \in Agents, views'.agent_presence[a] # NoRow
          PROVE  Good(a, views'.agent_presence[a])
      <4>1. CASE a = c.agent /\ c.verb = "ANNOUNCE"
        <5>1. views'.agent_presence[a] = [last |-> e, profile |-> e]
          BY <2>2, <4>1 DEF ProjectPresence, ViewsShape
        <5>2. QED
          BY <4>1, <5>1 DEF OwnClacks
      <4>2. CASE a = c.agent /\ c.verb = "HEARTBEAT"
        <5> DEFINE old == views.agent_presence[a]
        <5>1. views'.agent_presence[a] =
                [last |-> e, profile |-> IF old = NoRow THEN 0 ELSE old.profile]
          BY <2>2, <4>2 DEF ProjectPresence, ViewsShape
        <5>2. QED
          BY <3>1, <4>2, <5>1 DEF OwnClacks
      <4>3. CASE ~(a = c.agent /\ c.verb \in {"ANNOUNCE", "HEARTBEAT"})
        <5>1. views'.agent_presence[a] = views.agent_presence[a]
          BY <2>2, <4>3 DEF ProjectPresence, ViewsShape
        <5>2. QED
          BY <3>1, <3>2, <5>1
      <4>4. QED
        BY <4>1, <4>2, <4>3
    <3>3. QED
      BY <3>2 DEF PresenceSound, OwnClacks, Stored
  <2>5. QED
    BY <1>1, <1>2, <1>3, <1>4, <1>5, <2>2, <2>3, <2>4 DEF ViewsSound
<1>11. CASE n = 5
  <2>1. views' = TablesOf(
          views.agent_log, views.task_board, views.thread_tree,
          views.agent_presence, ProjectArtifactIndex(views.artifact_index, e, c), views.hitl_queue)
    BY <1>11 DEF Projected, Tables, TablesOf, ViewsShape
  <2>2. /\ views'.agent_log = views.agent_log
        /\ views'.task_board = views.task_board
        /\ views'.thread_tree = views.thread_tree
        /\ views'.agent_presence = views.agent_presence
        /\ views'.artifact_index = ProjectArtifactIndex(views.artifact_index, e, c)
        /\ views'.hitl_queue = views.hitl_queue
    BY <2>1 DEF TablesOf
  <2>3. IndexSound' /\ \A a \in views'.artifact_index :
          a = [task |-> a.task, epoch |-> a.epoch, review |-> a.review]
    <3>1. CASE c.verb = "ARTIFACT"
      BY <2>2, <3>1
         DEF ViewsSound, IndexSound, ViewsShape, ProjectArtifactIndex, Verdict, Stored
    <3>2. CASE c.verb \in Verdicts /\ c.ref # 0
      <4>1. \A a \in views'.artifact_index :
              \E b \in views.artifact_index :
                \/ a = b
                \/ a = [b EXCEPT !.review = "approved"] /\ b.epoch = c.ref
                \/ a = [b EXCEPT !.review = "rejected"] /\ b.epoch = c.ref
        BY <2>2, <3>2 DEF ProjectArtifactIndex, Verdicts
      <4>2. \A a \in views'.artifact_index :
              /\ a = [task |-> a.task, epoch |-> a.epoch, review |-> a.review]
              /\ \E b \in views.artifact_index :
                   /\ a.epoch = b.epoch /\ a.task = b.task
                   /\ a = b \/ b.epoch = c.ref
        BY <4>1 DEF ViewsShape
      <4>3. IndexSound'
        BY <3>2, <4>2 DEF ViewsSound, IndexSound, Verdict, Stored
      <4>4. QED
        BY <4>2, <4>3
    <3>3. CASE c.verb # "ARTIFACT" /\ ~(c.verb \in Verdicts /\ c.ref # 0)
      BY <2>2, <3>3 DEF ViewsSound, IndexSound, ViewsShape, ProjectArtifactIndex, Verdict, Stored
    <3>4. QED
      BY <3>1, <3>2, <3>3
  <2>4. done' \in 0..6 => ViewsShape'
    BY <2>1, <2>2, <2>3 DEF ViewsShape
  <2>5. QED
    BY <1>1, <1>2, <1>4, <1>5, <1>6, <2>2, <2>3, <2>4 DEF ViewsSound
<1>12. CASE n = 6
  <2>1. views' = TablesOf(
          views.agent_log, views.task_board, views.thread_tree,
          views.agent_presence, views.artifact_index, ProjectHitlQueue(views.hitl_queue, e, c))
    BY <1>12 DEF Projected, Tables, TablesOf, ViewsShape
  <2>2. /\ views'.agent_log = views.agent_log
        /\ views'.task_board = views.task_board
        /\ views'.thread_tree = views.thread_tree
        /\ views'.agent_presence = views.agent_presence
        /\ views'.artifact_index = views.artifact_index
        /\ views'.hitl_queue = ProjectHitlQueue(views.hitl_queue, e, c)
    BY <2>1 DEF TablesOf
  <2>3. QueueSound'
    BY <2>2 DEF ViewsSound, QueueSound, ProjectHitlQueue, Stored
  <2>4. done' \in 0..6 => ViewsShape'
    BY <2>1, <2>2 DEF ViewsShape
  <2>5. QED
    BY <1>1, <1>2, <1>3, <1>5, <1>6, <2>2, <2>3, <2>4 DEF ViewsSound
<1>13. QED
  BY <1>7, <1>8, <1>9, <1>10, <1>11, <1>12

\* The log's invariant and the views' hold together.
LEMMA ViewsSoundInductive ==
  ASSUME Recovers
  PROVE  HubSpec => [](HubInv /\ ViewsShape /\ ViewsSound)
<1>1. HubInit => ViewsShape /\ ViewsSound
  BY DEF HubInit, NoViews, TablesOf, ViewsShape, ViewsSound, AgentLogSound, BoardSound,
         TreeSound, PresenceSound, IndexSound, QueueSound
<1>2. HubInv /\ ViewsShape /\ ViewsSound /\ [HubNext]_hubVars =>
        ViewsShape' /\ ViewsSound'
  <2> SUFFICES ASSUME HubInv, ViewsShape, ViewsSound, [HubNext]_hubVars
               PROVE  ViewsShape' /\ ViewsSound'
    OBVIOUS
  <2>1. [Next]_walVars
    BY HubStepIsWalStep
  <2>2. ASSUME views' = views, done' \in 0..6 PROVE ViewsShape' /\ ViewsSound'
    BY <2>1, <2>2, ViewsSoundStays DEF ViewsShape
  <2>3. ASSUME NEW w \in Writers, Project(w) PROVE ViewsShape' /\ ViewsSound'
    <3>1. done \in 0..5 /\ done' = done + 1 /\ UNCHANGED store
      BY <2>3 DEF Project, ViewsShape, Tables, walVars
    <3>2. CASE views' = Projected(views, Tables[done + 1], epoch[w], click[w])
      <4>1. epoch[w] \in Stored /\ click[w] = store[epoch[w]]
        BY <2>3, WalAssumption
           DEF Project, HubInv, OwnRowWritten, TypeInv, TypeOK, LocalsInUse, Stored
      <4>2. done + 1 \in 1..6
        BY <3>1
      <4>3. QED
        BY <3>1, <3>2, <4>1, <4>2, ProjectionSound
    <3>3. CASE views' = views
      BY <2>2, <3>1, <3>3
    <3>4. QED
      BY <2>3, <3>2, <3>3 DEF Project
  <2>4. CASE LogStep
    BY <2>2, <2>4 DEF LogStep, ViewsShape
  <2>5. CASE HubStop
    BY <2>2, <2>5 DEF HubStop
  <2>6. ASSUME NEW w \in Writers, NEW c \in Clicks, Submit(w, c)
        PROVE  ViewsShape' /\ ViewsSound'
    BY <2>2, <2>6 DEF Submit, ViewsShape
  <2>7. ASSUME NEW w \in Writers, TakeTurn(w)
        PROVE  ViewsShape' /\ ViewsSound'
    BY <2>2, <2>7 DEF TakeTurn, ViewsShape
  <2>8. ASSUME NEW w \in Writers, ListenersDone(w) \/ ProjectionThrows(w)
        PROVE  ViewsShape' /\ ViewsSound'
    BY <2>2, <2>8 DEF ListenersDone, ProjectionThrows
  <2>9. CASE UNCHANGED hubVars
    BY <2>2, <2>9 DEF hubVars, ViewsShape
  <2>10. QED
    BY <2>3, <2>4, <2>5, <2>6, <2>7, <2>8, <2>9 DEF HubNext
<1>3. HubSpec => []HubInv
  BY HubImplementsWal, HubInvInductive, PTL
<1>4. QED
  BY <1>1, <1>2, <1>3, PTL DEF HubSpec

\* The views show nothing that the log does not hold, whatever fails between the
\* log's put and the six puts into the views, in whatever order listeners run.
THEOREM ViewsAreSound ==
  ASSUME Recovers
  PROVE  HubSpec => []ViewsSound
  BY ViewsSoundInductive, PTL

-----------------------------------------------------------------------------
(* The projections, table by table *)

\* One projection changes its own table and no other.
LEMMA ProjectedTables ==
  ASSUME ViewsShape, NEW n \in 1..6, NEW e, NEW c,
         views' = Projected(views, Tables[n], e, c)
  PROVE  /\ views'.agent_log =
              IF n = 1 THEN ProjectAgentLog(views.agent_log, e, c) ELSE views.agent_log
         /\ views'.task_board =
              IF n = 2 THEN ProjectTaskBoard(views.task_board, e, c) ELSE views.task_board
         /\ views'.thread_tree =
              IF n = 3 THEN ProjectThreadTree(views.thread_tree, e, c) ELSE views.thread_tree
         /\ views'.agent_presence =
              IF n = 4 THEN ProjectPresence(views.agent_presence, e, c)
                       ELSE views.agent_presence
         /\ views'.artifact_index =
              IF n = 5 THEN ProjectArtifactIndex(views.artifact_index, e, c)
                       ELSE views.artifact_index
         /\ views'.hitl_queue =
              IF n = 6 THEN ProjectHitlQueue(views.hitl_queue, e, c) ELSE views.hitl_queue
<1> USE DEF Projected, Tables, TablesOf
<1>1. views = TablesOf(views.agent_log, views.task_board, views.thread_tree,
                      views.agent_presence, views.artifact_index, views.hitl_queue)
  BY DEF ViewsShape
<1>2. CASE n = 1
  BY <1>1, <1>2
<1>3. CASE n = 2
  BY <1>1, <1>3
<1>4. CASE n = 3
  BY <1>1, <1>4
<1>5. CASE n = 4
  BY <1>1, <1>5
<1>6. CASE n = 5
  BY <1>1, <1>6
<1>7. CASE n = 6
  BY <1>1, <1>7
<1>8. QED
  BY <1>2, <1>3, <1>4, <1>5, <1>6, <1>7

\* A board verb leaves one of the six statuses.
LEMMA StatusTyped ==
  ASSUME NEW verb \in BoardVerbs
  PROVE  StatusAfter(verb) \in {"unclaimed", "claimed", "in_progress", "completed",
                                "errored", "halted"}
  BY DEF StatusAfter, BoardVerbs

\* Each projection keeps the type of its table.
LEMMA BoardTyped ==
  ASSUME NEW board \in [Tasks -> TaskState \cup {NoRow}], NEW e \in Epochs, NEW c \in Clicks
  PROVE  /\ ProjectTaskBoard(board, e, c) \in [Tasks -> TaskState \cup {NoRow}]
         /\ \A t \in Tasks :
              IF t = c.task /\ c.task # NoTask /\ c.verb \in BoardVerbs
                THEN LET row == ProjectTaskBoard(board, e, c)[t] IN
                       /\ row \in TaskState /\ row.last = e
                       /\ c.verb = "CLAIM" => row.owner = c.agent
                       /\ c.verb # "CLAIM" /\ board[t] # NoRow => row.owner = board[t].owner
                ELSE ProjectTaskBoard(board, e, c)[t] = board[t]
<1>1. CASE c.task = NoTask \/ c.verb \notin BoardVerbs
  BY <1>1 DEF ProjectTaskBoard
<1>2. CASE c.task # NoTask /\ c.verb \in BoardVerbs
  <2> DEFINE row == board[c.task]
             owner == IF row = NoRow THEN NoAgent ELSE row.owner
             new == [status  |-> StatusAfter(c.verb),
                     owner   |-> IF c.verb = "CLAIM" THEN c.agent ELSE owner,
                     created |-> IF row = NoRow THEN e ELSE row.created,
                     last    |-> e,
                     verb    |-> c.verb]
  <2>1. c.task \in Tasks /\ c.agent \in Agents
    BY <1>2, HubAssumption
  <2>2. owner \in Agents \cup {NoAgent} /\ (row # NoRow => row.created \in Epochs)
    BY <2>1 DEF TaskState
  <2>3. new \in TaskState
    BY <1>2, <2>1, <2>2, StatusTyped DEF TaskState
  <2>4. ProjectTaskBoard(board, e, c) = [board EXCEPT ![c.task] = new]
    BY <1>2 DEF ProjectTaskBoard
  <2>5. /\ new.last = e /\ (c.verb = "CLAIM" => new.owner = c.agent)
        /\ c.verb # "CLAIM" /\ row # NoRow => new.owner = row.owner
    OBVIOUS
  <2> HIDE DEF new
  <2>6. QED
    BY <1>2, <2>1, <2>3, <2>4, <2>5
<1>3. QED
  BY <1>1, <1>2

\* A projection keeps the type of agent_presence, and gives its agent a row.
LEMMA PresenceTyped ==
  ASSUME NEW presence \in [Agents -> Presence \cup {NoRow}], NEW e \in Epochs,
         NEW c \in Clicks
  PROVE  /\ ProjectPresence(presence, e, c) \in [Agents -> Presence \cup {NoRow}]
         /\ \A a \in Agents :
              IF a = c.agent /\ c.verb \in {"ANNOUNCE", "HEARTBEAT"}
                THEN LET row == ProjectPresence(presence, e, c)[a] IN
                       /\ row \in Presence /\ row.last = e
                       /\ presence[a] # NoRow => row.profile \in {e, presence[a].profile}
                       /\ c.verb = "ANNOUNCE" => row.profile = e
                ELSE ProjectPresence(presence, e, c)[a] = presence[a]
<1>1. c.agent \in Agents /\ e \in 0..MaxEpoch /\ 0 \in 0..MaxEpoch
  BY HubAssumption, WalAssumption DEF Epochs
<1>2. presence[c.agent] # NoRow => presence[c.agent].profile \in 0..MaxEpoch
  BY <1>1 DEF Presence
<1>3. /\ [last |-> e, profile |-> e] \in Presence
      /\ [last |-> e, profile |-> IF presence[c.agent] = NoRow THEN 0
                                  ELSE presence[c.agent].profile] \in Presence
  BY <1>1, <1>2 DEF Presence
<1>4. QED
  BY <1>1, <1>3 DEF ProjectPresence

\* The index keeps its type, whatever is reviewed.
LEMMA IndexTyped ==
  ASSUME NEW index, NEW e \in Epochs, NEW c \in Clicks,
         index \subseteq [task : Tasks \cup {NoTask}, epoch : Epochs,
                          review : {"pending", "approved", "rejected"}]
  PROVE  ProjectArtifactIndex(index, e, c) \subseteq
           [task : Tasks \cup {NoTask}, epoch : Epochs,
            review : {"pending", "approved", "rejected"}]
<1>1. c.task \in Tasks \cup {NoTask}
  BY HubAssumption
<1>2. QED
  BY <1>1 DEF ProjectArtifactIndex

\* An artifact enters the index with its clack, and keeps its task and epoch.
LEMMA IndexKeeps ==
  ASSUME NEW index, NEW e, NEW c, NEW r \in index,
         index \subseteq [task : Tasks \cup {NoTask}, epoch : Epochs,
                          review : {"pending", "approved", "rejected"}]
  PROVE  \E q \in ProjectArtifactIndex(index, e, c) : q.task = r.task /\ q.epoch = r.epoch
<1>1. CASE c.verb = "ARTIFACT"
  <2> DEFINE new == [task |-> c.task, epoch |-> e, review |-> "pending"]
             kept == {a \in index : <<a.task, a.epoch>> # <<c.task, e>>}
  <2>1. ProjectArtifactIndex(index, e, c) = kept \cup {new}
    BY <1>1 DEF ProjectArtifactIndex, Verdicts
  <2>2. new.task = c.task /\ new.epoch = e
    OBVIOUS
  <2>3. r \in kept \/ (r.task = c.task /\ r.epoch = e)
    OBVIOUS
  <2> HIDE DEF new, kept
  <2>4. QED
    BY <2>1, <2>2, <2>3
<1>2. CASE c.verb \in Verdicts /\ c.ref # 0
  <2> DEFINE mark(a) == IF a.epoch = c.ref
                          THEN [a EXCEPT !.review =
                                 IF c.verb = "APPROVE" THEN "approved" ELSE "rejected"]
                          ELSE a
  <2>1. ProjectArtifactIndex(index, e, c) = {mark(a) : a \in index}
    BY <1>2 DEF ProjectArtifactIndex, Verdicts
  <2>2. mark(r).task = r.task /\ mark(r).epoch = r.epoch
    OBVIOUS
  <2> HIDE DEF mark
  <2>3. QED
    BY <2>1, <2>2
<1>3. CASE c.verb # "ARTIFACT" /\ ~(c.verb \in Verdicts /\ c.ref # 0)
  BY <1>3 DEF ProjectArtifactIndex
<1>4. QED
  BY <1>1, <1>2, <1>3

\* Table by table, a projection keeps the types of the views.
LEMMA ProjectionTyped ==
  ASSUME ViewsShape, ViewsTypeOK, NEW n \in 1..6, NEW e \in Epochs, NEW c \in Clicks,
         views' = Projected(views, Tables[n], e, c)
  PROVE  ViewsTypeOK'
<1>1. views'.agent_log \subseteq Agents \X Epochs
  BY ProjectedTables, HubAssumption DEF ViewsTypeOK, ProjectAgentLog
<1>2. views'.task_board \in [Tasks -> TaskState \cup {NoRow}]
  BY ProjectedTables, BoardTyped DEF ViewsTypeOK
<1>3. views'.thread_tree \subseteq Nat \X {1} \X Epochs
  <2>1. <<c.parent, 1, e>> \in Nat \X {1} \X Epochs
    BY HubAssumption
  <2>2. \/ views'.thread_tree = views.thread_tree
        \/ c.parent # 0 /\ views'.thread_tree = views.thread_tree \cup {<<c.parent, 1, e>>}
    <3>1. \/ views'.thread_tree = views.thread_tree
          \/ views'.thread_tree = ProjectThreadTree(views.thread_tree, e, c)
      BY ProjectedTables
    <3>2. QED
      BY <3>1, Zenon DEF ProjectThreadTree
  <2>3. QED
    BY <2>1, <2>2 DEF ViewsTypeOK
<1>4. views'.agent_presence \in [Agents -> Presence \cup {NoRow}]
  BY ProjectedTables, PresenceTyped DEF ViewsTypeOK
<1>5. views'.artifact_index \subseteq
        [task : Tasks \cup {NoTask}, epoch : Epochs,
         review : {"pending", "approved", "rejected"}]
  BY ProjectedTables, IndexTyped DEF ViewsTypeOK
<1>6. views'.hitl_queue \subseteq Epochs
  BY ProjectedTables DEF ViewsTypeOK, ProjectHitlQueue
<1>7. QED
  BY <1>1, <1>2, <1>3, <1>4, <1>5, <1>6 DEF ViewsTypeOK

\* The log only grows.
LEMMA StoredGrows ==
  ASSUME HubInv, [Next]_walVars
  PROVE  \A e \in Stored : e \in Stored' /\ store'[e] = store[e]
  BY RowStays DEF Stored

\* An append under way was under way before, with the same click and epoch, or
\* a client has just sent its click.
LEMMA AppendUnderWay ==
  ASSUME TypeInv, [HubNext]_hubVars, NEW w \in Writers, pc'[w] # "idle"
  PROVE  \/ pc[w] # "idle" /\ click'[w] = click[w] /\ epoch'[w] = epoch[w]
         \/ /\ pc[w] = "idle" /\ pc'[w] = "put" /\ epoch'[w] = counter + 1
            /\ click'[w] \in Clicks /\ Submit(w, click'[w])
<1> USE DEF TypeInv, TypeOK
<1>1. CASE LogStep
  BY <1>1 DEF LogStep, Open, Recover, local, Put, PutFails, Publish, Leave
<1>2. CASE HubStop
  BY <1>2 DEF HubStop, Stop
<1>3. ASSUME NEW v \in Writers, NEW c \in Clicks, Submit(v, c)
      PROVE  \/ pc[w] # "idle" /\ click'[w] = click[w] /\ epoch'[w] = epoch[w]
             \/ /\ pc[w] = "idle" /\ pc'[w] = "put" /\ epoch'[w] = counter + 1
                /\ click'[w] \in Clicks /\ Submit(w, click'[w])
  <2>1. CASE v = w
    <3>1. pc[w] = "idle" /\ pc'[w] = "put" /\ epoch'[w] = counter + 1 /\ click'[w] = c
      BY <1>3, <2>1 DEF Submit, Begin
    <3>2. QED
      BY <1>3, <2>1, <3>1
  <2>2. CASE v # w
    BY <1>3, <2>2 DEF Submit, Begin
  <2>3. QED
    BY <2>1, <2>2
<1>4. ASSUME NEW v \in Writers, TakeTurn(v)
      PROVE  pc[w] # "idle" /\ click'[w] = click[w] /\ epoch'[w] = epoch[w]
  BY <1>4 DEF TakeTurn, EnterListeners
<1>5. ASSUME NEW v \in Writers, Project(v)
      PROVE  pc[w] # "idle" /\ click'[w] = click[w] /\ epoch'[w] = epoch[w]
  BY <1>5 DEF Project, walVars
<1>6. ASSUME NEW v \in Writers, ListenersDone(v) \/ ProjectionThrows(v)
      PROVE  pc[w] # "idle" /\ click'[w] = click[w] /\ epoch'[w] = epoch[w]
  BY <1>6 DEF ListenersDone, ProjectionThrows, LeaveListeners, ListenerThrows, Leave
<1>7. CASE UNCHANGED hubVars
  BY <1>7 DEF hubVars, walVars
<1>8. QED
  BY <1>1, <1>2, <1>3, <1>4, <1>5, <1>6, <1>7 DEF HubNext

\* A writer past the lock that stays in append() does not go back.
LEMMA WriterAdvances ==
  ASSUME TypeInv, [HubNext]_hubVars, NEW w \in Writers,
         pc[w] \in {"listen", "publish"}, pc'[w] # "idle"
  PROVE  pc'[w] \in {"listen", "publish"} /\ (pc[w] = "publish" => pc'[w] = "publish")
<1> USE DEF TypeInv, TypeOK
<1>1. CASE LogStep \/ HubStop
  BY <1>1 DEF LogStep, HubStop, Open, Recover, Stop, local, Put, PutFails, Publish, Leave
<1>2. ASSUME NEW v \in Writers, NEW c \in Clicks, Submit(v, c)
      PROVE  pc'[w] = pc[w]
  BY <1>2 DEF Submit, Begin
<1>3. ASSUME NEW v \in Writers, TakeTurn(v) PROVE pc'[w] = pc[w]
  BY <1>3 DEF TakeTurn, EnterListeners
<1>4. ASSUME NEW v \in Writers, Project(v) PROVE pc'[w] = pc[w]
  BY <1>4 DEF Project, walVars
<1>5. ASSUME NEW v \in Writers, ListenersDone(v) \/ ProjectionThrows(v)
      PROVE  pc'[w] = pc[w] \/ pc'[w] = "publish"
  BY <1>5 DEF ListenersDone, ProjectionThrows, LeaveListeners, ListenerThrows, Leave
<1>6. CASE UNCHANGED hubVars
  BY <1>6 DEF hubVars, walVars
<1>7. QED
  BY <1>1, <1>2, <1>3, <1>4, <1>5, <1>6 DEF HubNext

\* Every step leaves the views and lost alone, except a projection.
LEMMA OnlyProjectMovesViews ==
  ASSUME [HubNext]_hubVars, ~\E w \in Writers : Project(w)
  PROVE  views' = views /\ lost' = lost
<1>1. ASSUME NEW w \in Writers, NEW c \in Clicks, Submit(w, c)
      PROVE  views' = views /\ lost' = lost
  BY <1>1 DEF Submit
<1>2. ASSUME NEW w \in Writers, ListenersDone(w) \/ ProjectionThrows(w)
      PROVE  views' = views /\ lost' = lost
  BY <1>2 DEF ListenersDone, ProjectionThrows
<1>3. CASE UNCHANGED hubVars
  BY <1>3 DEF hubVars
<1>4. QED
  BY <1>1, <1>2, <1>3 DEF HubNext, LogStep, HubStop, TakeTurn

\* A clack is acknowledged by the writer that publishes it.
LEMMA AckedByPublish ==
  ASSUME [HubNext]_hubVars
  PROVE  \/ acked' = acked
         \/ \E w \in Writers : Publish(w) /\ UNCHANGED <<views, done, lost>>
<1>1. ASSUME NEW w \in Writers, NEW c \in Clicks, Submit(w, c) PROVE acked' = acked
  BY <1>1 DEF Submit, Begin
<1>2. ASSUME NEW w \in Writers,
             TakeTurn(w) \/ Project(w) \/ ListenersDone(w) \/ ProjectionThrows(w)
      PROVE  acked' = acked
  BY <1>2 DEF TakeTurn, EnterListeners, Project, walVars, ListenersDone, LeaveListeners,
              ProjectionThrows, ListenerThrows
<1>3. CASE UNCHANGED hubVars
  BY <1>3 DEF hubVars, walVars
<1>4. QED
  BY <1>1, <1>2, <1>3
     DEF HubNext, LogStep, HubStop, Open, Recover, Stop, durable, Put, PutFails

\* The clack a projection is given is a row of the log.
LEMMA ProjectedIsStored ==
  ASSUME HubInv, ViewsShape, NEW w \in Writers, Project(w)
  PROVE  /\ epoch[w] \in Stored /\ click[w] = store[epoch[w]] /\ click[w] \in Clicks
         /\ done + 1 \in 1..6 /\ done' = done + 1 /\ UNCHANGED walVars
         /\ ~ThrowsIn(Tables[done + 1], click[w])
         /\ \/ /\ views' = Projected(views, Tables[done + 1], epoch[w], click[w])
               /\ lost' = lost
            \/ views' = views /\ lost' = lost \cup {epoch[w]}
<1>1. done + 1 \in 1..6 /\ done' = done + 1 /\ UNCHANGED walVars
  BY DEF Project, ViewsShape, Tables
<1>2. epoch[w] \in Stored /\ click[w] = store[epoch[w]] /\ click[w] \in Clicks
  BY WalAssumption
     DEF Project, HubInv, OwnRowWritten, TypeInv, TypeOK, LocalsInUse, Stored
<1>3. QED
  BY <1>1, <1>2 DEF Project

\* Every step keeps the types of the views.
LEMMA ViewsTypesStep ==
  ASSUME HubInv, ViewsShape, ViewsTypeOK, lost \subseteq Stored, [HubNext]_hubVars
  PROVE  ViewsTypeOK' /\ (lost \subseteq Stored)'
<1>1. \A e \in Stored : e \in Stored'
  BY HubStepIsWalStep, StoredGrows
<1>2. ASSUME NEW w \in Writers, Project(w) PROVE ViewsTypeOK' /\ lost' \subseteq Stored'
  <2>1. lost' \subseteq Stored'
    BY <1>1, <1>2, ProjectedIsStored
  <2>2. epoch[w] \in Epochs /\ click[w] \in Clicks /\ done + 1 \in 1..6
    BY <1>2, ProjectedIsStored DEF Stored
  <2>3. CASE views' = views
    BY <2>1, <2>3 DEF ViewsTypeOK
  <2>4. CASE views' = Projected(views, Tables[done + 1], epoch[w], click[w])
    BY <2>1, <2>2, <2>4, ProjectionTyped
  <2>5. QED
    BY <1>2, <2>3, <2>4, ProjectedIsStored
<1>3. CASE views' = views /\ lost' = lost
  BY <1>1, <1>3 DEF ViewsTypeOK
<1>4. QED
  BY <1>2, <1>3, OnlyProjectMovesViews

\* The turns change when one is taken, and are not forgotten.
LEMMA TurnsMove ==
  ASSUME [HubNext]_hubVars
  PROVE  /\ order \subseteq order'
         /\ \/ order' = order /\ ~\E w \in Writers : TakeTurn(w)
            \/ \E w \in Writers : TakeTurn(w)
<1>1. ASSUME NEW w \in Writers, NEW c \in Clicks, Submit(w, c) PROVE order' = order
  BY <1>1 DEF Submit
<1>2. ASSUME NEW w \in Writers, TakeTurn(w) PROVE order \subseteq order'
  BY <1>2 DEF TakeTurn
<1>3. ASSUME NEW w \in Writers, Project(w) \/ ListenersDone(w) \/ ProjectionThrows(w)
      PROVE  order' = order
  BY <1>3 DEF Project, ListenersDone, ProjectionThrows, history
<1>4. CASE LogStep \/ HubStop \/ UNCHANGED hubVars
  BY <1>4 DEF LogStep, HubStop, hubVars, history
<1>5. order \subseteq order' /\ (order' = order \/ \E w \in Writers : TakeTurn(w))
  BY <1>1, <1>2, <1>3, <1>4 DEF HubNext
<1>6. QED
  BY <1>5

\* Where a sender could have learnt an epoch is noted when the click is sent.
LEMMA SawInMoves ==
  ASSUME [HubNext]_hubVars
  PROVE  \/ sawIn' = sawIn
         \/ \E w \in Writers, c \in Clicks : Submit(w, c)
<1>1. ASSUME NEW w \in Writers,
             TakeTurn(w) \/ Project(w) \/ ListenersDone(w) \/ ProjectionThrows(w)
      PROVE  sawIn' = sawIn
  BY <1>1 DEF TakeTurn, Project, ListenersDone, ProjectionThrows, history
<1>2. CASE LogStep \/ HubStop \/ UNCHANGED hubVars
  BY <1>2 DEF LogStep, HubStop, hubVars, history
<1>3. QED
  BY <1>1, <1>2 DEF HubNext

HistoryTypeOK ==
  /\ order \subseteq Epochs \X Epochs
  /\ sawIn \in [Epochs -> {"views", "elsewhere"}]

\* The history variables keep their types.
LEMMA HistoryTypesStep ==
  ASSUME TypeInv, HistoryTypeOK, [HubNext]_hubVars
  PROVE  HistoryTypeOK'
<1>1. order' \subseteq Epochs \X Epochs
  <2>1. ASSUME NEW w \in Writers, TakeTurn(w) PROVE order' \subseteq Epochs \X Epochs
    <3>1. epoch[w] \in Epochs
      BY <2>1 DEF TakeTurn, EnterListeners, TypeInv, LocalsInUse
    <3> DEFINE earlier == {d \in Epochs : d = epoch[w] \/ <<d, d>> \in order}
               turns == {<<d, epoch[w]>> : d \in earlier}
    <3>2. order' = order \cup turns
      BY <2>1, Zenon DEF TakeTurn
    <3>3. earlier \subseteq Epochs
      OBVIOUS
    <3> HIDE DEF earlier
    <3>4. turns \subseteq Epochs \X Epochs
      BY <3>1, <3>3
    <3> HIDE DEF turns
    <3>5. QED
      BY <3>2, <3>4 DEF HistoryTypeOK
  <2>2. QED
    BY <2>1, TurnsMove DEF HistoryTypeOK
<1>2. sawIn' \in [Epochs -> {"views", "elsewhere"}]
  <2>1. ASSUME NEW w \in Writers, NEW c \in Clicks, Submit(w, c)
        PROVE  sawIn' \in [Epochs -> {"views", "elsewhere"}]
    BY <2>1 DEF Submit, SeenIn, HistoryTypeOK
  <2>2. QED
    BY <2>1, SawInMoves DEF HistoryTypeOK
<1>3. QED
  BY <1>1, <1>2 DEF HistoryTypeOK

\* The types, and what they rest on.
HubTypesInv ==
  /\ HubInv /\ ViewsShape /\ ViewsSound /\ ViewsTypeOK
  /\ HistoryTypeOK /\ lost \subseteq Stored

\* The types of the views, with what they rest on.
LEMMA HubTypesInductive ==
  ASSUME Recovers
  PROVE  HubSpec => []HubTypesInv
<1>1. HubInit => ViewsTypeOK /\ HistoryTypeOK /\ lost \subseteq Stored
  BY DEF HubInit, NoViews, ViewsTypeOK, HistoryTypeOK
<1>2. HubInv /\ ViewsShape /\ ViewsTypeOK /\ HistoryTypeOK
        /\ lost \subseteq Stored /\ [HubNext]_hubVars =>
          ViewsTypeOK' /\ HistoryTypeOK' /\ (lost \subseteq Stored)'
  BY ViewsTypesStep, HistoryTypesStep DEF HubInv
<1>3. QED
  BY <1>1, <1>2, ViewsSoundInductive, PTL DEF HubSpec, HubTypesInv

\* The tables of the views hold what their readers parse.
LEMMA HubTypeCorrect ==
  ASSUME Recovers
  PROVE  HubSpec => []HubTypeOK
<1>1. HubTypesInv => HubTypeOK
  BY DEF HubTypesInv, HubTypeOK, HubInv, TypeInv, ViewsShape, HistoryTypeOK, Tables
<1>2. QED
  BY <1>1, HubTypesInductive, PTL

-----------------------------------------------------------------------------
(* Turns *)

\* e has had its turn with the listeners.
HadTurn(e) == <<e, e>> \in order

\* Whoever is in the listeners, or through, has had its turn, as has whatever is
\* acknowledged; whoever is in them has had the last one.
TurnsInv ==
  /\ \A w \in Writers : pc[w] \in {"listen", "publish"} => HadTurn(epoch[w])
  /\ \A w \in Writers : pc[w] = "listen" =>
       \A e \in Epochs : HadTurn(e) => NotBefore(epoch[w], e)
  /\ \A a \in acked : HadTurn(a.epoch)

\* A step of the hub keeps that.
LEMMA TurnsStep ==
  ASSUME HubInv, TurnsInv, [HubNext]_hubVars
  PROVE  TurnsInv'
<1> USE DEF HubInv, TypeInv, TypeOK
<1>1. ASSUME NEW w \in Writers, TakeTurn(w) PROVE TurnsInv'
  <2>1. /\ epoch[w] \in Epochs /\ epoch' = epoch /\ acked' = acked
        /\ pc' = [pc EXCEPT ![w] = "listen"] /\ listenersMu = NoWriter
    BY <1>1 DEF TakeTurn, EnterListeners, LocalsInUse
  <2>2. \A v \in Writers : pc[v] # "listen"
    BY <2>1, WalAssumption DEF ListenersExclusive
  <2>3. /\ order \subseteq order' /\ <<epoch[w], epoch[w]>> \in order'
        /\ \A e \in Epochs : <<e, e>> \in order \/ e = epoch[w] => <<e, epoch[w]>> \in order'
    BY <1>1, <2>1 DEF TakeTurn
  <2>4. \A e \in Epochs : <<e, e>> \in order' => <<e, e>> \in order \/ e = epoch[w]
    BY <1>1 DEF TakeTurn
  <2>5. QED
    BY <2>1, <2>2, <2>3, <2>4 DEF TurnsInv, HadTurn, NotBefore
<1>2. CASE order' = order /\ ~\E w \in Writers : TakeTurn(w)
  <2>1. ASSUME NEW w \in Writers, pc'[w] \in {"listen", "publish"}
        PROVE  /\ epoch'[w] = epoch[w] /\ pc[w] \in {"listen", "publish"}
               /\ pc'[w] = "listen" => pc[w] = "listen"
    <3>1. CASE LogStep \/ HubStop
      BY <2>1, <3>1 DEF LogStep, HubStop, Open, Recover, Stop, local, Put, PutFails,
                        Publish, Leave
    <3>2. ASSUME NEW v \in Writers, NEW c \in Clicks, Submit(v, c)
          PROVE  /\ epoch'[w] = epoch[w] /\ pc[w] \in {"listen", "publish"}
                 /\ pc'[w] = "listen" => pc[w] = "listen"
      BY <2>1, <3>2 DEF Submit, Begin
    <3>3. ASSUME NEW v \in Writers, Project(v) \/ ListenersDone(v) \/ ProjectionThrows(v)
          PROVE  /\ epoch'[w] = epoch[w] /\ pc[w] \in {"listen", "publish"}
                 /\ pc'[w] = "listen" => pc[w] = "listen"
      BY <2>1, <3>3 DEF Project, walVars, ListenersDone, LeaveListeners, ProjectionThrows,
                        ListenerThrows, Leave
    <3>4. CASE UNCHANGED hubVars
      BY <2>1, <3>4 DEF hubVars, walVars
    <3>5. QED
      BY <1>2, <3>1, <3>2, <3>3, <3>4 DEF HubNext
  <2>2. \A a \in acked' : HadTurn(a.epoch)
    <3>1. ASSUME NEW w \in Writers, Publish(w) PROVE \A a \in acked' : HadTurn(a.epoch)
      BY <3>1 DEF Publish, Clack, TurnsInv
    <3>2. QED
      BY <3>1, AckedByPublish DEF TurnsInv
  <2>3. QED
    BY <1>2, <2>1, <2>2 DEF TurnsInv, HadTurn, NotBefore
<1>3. QED
  BY <1>1, <1>2, TurnsMove

-----------------------------------------------------------------------------
(* Read your writes *)

\* Some verdict of the log is about e, some claim of task t is by a, with a turn
\* no earlier than e's; log is the table "clacks", ord the turns.
Answered(log, ord, e) ==
  \E d \in Epochs : log[d] # NoClick /\ Verdict(log[d], e) /\ <<e, d>> \in ord
ClaimedBy(log, ord, e, t, a) ==
  \E d \in Epochs : /\ log[d] # NoClick /\ <<e, d>> \in ord /\ log[d].agent = a
                     /\ log[d].verb = "CLAIM" /\ log[d].task = t

\* A board row, a presence row, that is the work of c, of epoch e, or of clacks
\* with later turns.
BoardRowShows(row, log, ord, e, c) ==
  /\ row # NoRow /\ <<e, row.last>> \in ord
  /\ c.verb = "CLAIM" => ClaimedBy(log, ord, e, c.task, row.owner)
PresenceRowShows(row, ord, e, c) ==
  /\ row # NoRow /\ <<e, row.last>> \in ord
  /\ c.verb = "ANNOUNCE" => <<e, row.profile>> \in ord

\* The n-th table of v shows the clack.
InTable(v, log, ord, n, e, c) ==
  /\ n = 1 => <<c.agent, e>> \in v.agent_log
  /\ n = 2 => (c.task # NoTask /\ c.verb \in BoardVerbs =>
                 BoardRowShows(v.task_board[c.task], log, ord, e, c))
  /\ n = 3 => (c.parent # 0 => <<c.parent, 1, e>> \in v.thread_tree)
  /\ n = 4 => (c.verb \in {"ANNOUNCE", "HEARTBEAT"} =>
                 PresenceRowShows(v.agent_presence[c.agent], ord, e, c))
  /\ n = 5 => (c.verb = "ARTIFACT" =>
                 \E r \in v.artifact_index : r.task = c.task /\ r.epoch = e)
  /\ n = 6 => (c.hitl => e \in v.hitl_queue \/ Answered(log, ord, e))

Shows(v, log, ord, k, e, c) == \A n \in 1..6 : n <= k => InTable(v, log, ord, n, e, c)

\* What the tables show of a clack grows with its projections, until all show it.
ShownInv ==
  /\ listenersMu = NoWriter => done = 0
  /\ \A w \in Writers : epoch[w] \notin lost =>
       /\ pc[w] = "listen" => Shows(views, store, order, done, epoch[w], click[w])
       /\ pc[w] = "publish" => Shows(views, store, order, 6, epoch[w], click[w])
  /\ \A a \in acked : a.epoch \notin lost => Shows(views, store, order, 6, a.epoch, a.click)

\* No projection takes out of a table what another clack put in, but for a
\* verdict, which takes its item out of the queue, and for the rows of a task
\* and an agent, which it makes its own.
LEMMA InTableStays ==
  ASSUME ViewsShape, ViewsTypeOK, NEW m \in 1..6, NEW d \in Stored, store[d] \in Clicks,
         views' = Projected(views, Tables[m], d, store[d]), store' = store,
         NEW n \in 1..6, NEW e \in Epochs, NEW c \in Clicks,
         order' = order, <<e, d>> \in order,
         InTable(views, store, order, n, e, c)
  PROVE  InTable(views', store', order', n, e, c)
<1> DEFINE x == store[d]
<1>0. /\ x \in Clicks /\ x.agent \in Agents /\ c.agent \in Agents
      /\ x.task # NoTask => x.task \in Tasks
      /\ c.task # NoTask => c.task \in Tasks
      /\ d \in Epochs
  BY HubAssumption DEF Stored
<1>1. CASE n = 1
  BY <1>1, ProjectedTables DEF InTable, ProjectAgentLog
<1>2. CASE n = 2
  <2>1. CASE m = 2
    <3>1. views'.task_board = ProjectTaskBoard(views.task_board, d, x)
      BY <2>1, ProjectedTables
    <3> DEFINE t == c.task
               old == views.task_board[t]
               new == views'.task_board[t]
    <3>2. ASSUME t \in Tasks, BoardRowShows(old, store, order, e, c)
          PROVE  BoardRowShows(new, store, order, e, c)
      <4>1. CASE t = x.task /\ x.task # NoTask /\ x.verb \in BoardVerbs
        <5>1. /\ new \in TaskState /\ new.last = d
              /\ x.verb = "CLAIM" => new.owner = x.agent
              /\ x.verb # "CLAIM" => new.owner = old.owner
          BY <1>0, <3>1, <3>2, <4>1, BoardTyped DEF ViewsTypeOK, BoardRowShows
        <5>2. new # NoRow
          BY <5>1, HubAssumption
        <5>3. x.verb = "CLAIM" => ClaimedBy(store, order, e, t, new.owner)
          BY <1>0, <4>1, <5>1 DEF ClaimedBy, Stored
        <5>4. x.verb # "CLAIM" /\ c.verb = "CLAIM" =>
                ClaimedBy(store, order, e, t, new.owner)
          BY <3>2, <5>1 DEF BoardRowShows
        <5> HIDE DEF new, old, x
        <5>5. QED
          BY <5>1, <5>2, <5>3, <5>4 DEF BoardRowShows
      <4>2. CASE ~(t = x.task /\ x.task # NoTask /\ x.verb \in BoardVerbs)
        <5>1. new = old
          BY <1>0, <3>1, <3>2, <4>2, BoardTyped DEF ViewsTypeOK
        <5>2. QED
          BY <3>2, <5>1
      <4>3. QED
        BY <4>1, <4>2
    <3>3. QED
      BY <1>0, <1>2, <3>2 DEF InTable
  <2>2. CASE m # 2
    BY <1>2, <2>2, ProjectedTables DEF InTable
  <2>3. QED
    BY <2>1, <2>2
<1>3. CASE n = 3
  <2>1. views.thread_tree \subseteq views'.thread_tree
    BY ProjectedTables DEF ProjectThreadTree
  <2>2. QED
    BY <1>3, <2>1 DEF InTable
<1>4. CASE n = 4
  <2>1. CASE m = 4
    <3>1. views'.agent_presence = ProjectPresence(views.agent_presence, d, x)
      BY <2>1, ProjectedTables
    <3> DEFINE old == views.agent_presence[c.agent]
               new == views'.agent_presence[c.agent]
    <3>2. ASSUME PresenceRowShows(old, order, e, c)
          PROVE  PresenceRowShows(new, order, e, c)
      <4>1. CASE c.agent = x.agent /\ x.verb \in {"ANNOUNCE", "HEARTBEAT"}
        <5>1. /\ new \in Presence /\ new.last = d
              /\ new.profile = d \/ new.profile = old.profile
          BY <1>0, <3>1, <3>2, <4>1, PresenceTyped DEF ViewsTypeOK, PresenceRowShows
        <5>2. new # NoRow
          BY <5>1, HubAssumption
        <5> HIDE DEF new, old, x
        <5>3. QED
          BY <3>2, <5>1, <5>2 DEF PresenceRowShows
      <4>2. CASE ~(c.agent = x.agent /\ x.verb \in {"ANNOUNCE", "HEARTBEAT"})
        <5>1. new = old
          BY <1>0, <3>1, <4>2, PresenceTyped DEF ViewsTypeOK
        <5>2. QED
          BY <3>2, <5>1
      <4>3. QED
        BY <4>1, <4>2
    <3>3. QED
      BY <1>4, <3>2 DEF InTable
  <2>2. CASE m # 4
    BY <1>4, <2>2, ProjectedTables DEF InTable
  <2>3. QED
    BY <2>1, <2>2
<1>5. CASE n = 5
  <2>1. CASE m = 5
    <3>1. views'.artifact_index = ProjectArtifactIndex(views.artifact_index, d, x)
      BY <2>1, ProjectedTables
    <3>2. \A r \in views.artifact_index : \E q \in views'.artifact_index :
            q.task = r.task /\ q.epoch = r.epoch
      BY <3>1, IndexKeeps DEF ViewsTypeOK
    <3>3. QED
      BY <1>5, <3>2 DEF InTable
  <2>2. CASE m # 5
    BY <1>5, <2>2, ProjectedTables DEF InTable
  <2>3. QED
    BY <2>1, <2>2
<1>6. CASE n = 6
  <2>1. \/ e \in views.hitl_queue => e \in views'.hitl_queue
        \/ Verdict(x, e)
    BY ProjectedTables DEF ProjectHitlQueue, Verdict
  <2>2. Verdict(x, e) => Answered(store', order', e)
    BY <1>0 DEF Answered, Stored
  <2>3. QED
    BY <1>6, <2>1, <2>2 DEF InTable
<1>7. QED
  BY <1>1, <1>2, <1>3, <1>4, <1>5, <1>6

\* A projection puts its clack into its table.
LEMMA InTableAfter ==
  ASSUME ViewsShape, ViewsTypeOK, NEW n \in 1..6, NEW d \in Stored, store[d] \in Clicks,
         views' = Projected(views, Tables[n], d, store[d]), store' = store,
         order' = order, <<d, d>> \in order
  PROVE  InTable(views', store', order', n, d, store[d])
<1> DEFINE x == store[d]
<1>0. /\ x \in Clicks /\ x.agent \in Agents /\ d \in Epochs
      /\ x.task # NoTask => x.task \in Tasks
  BY HubAssumption DEF Stored
<1>1. CASE n = 1
  BY <1>1, ProjectedTables DEF InTable, ProjectAgentLog
<1>2. CASE n = 2
  <2>1. views'.task_board = ProjectTaskBoard(views.task_board, d, x)
    BY <1>2, ProjectedTables
  <2> DEFINE new == views'.task_board[x.task]
  <2>2. ASSUME x.task \in Tasks, x.task # NoTask, x.verb \in BoardVerbs
        PROVE  BoardRowShows(new, store, order, d, x)
    <3>1. /\ new \in TaskState /\ new.last = d
          /\ x.verb = "CLAIM" => new.owner = x.agent
      BY <1>0, <2>1, <2>2, BoardTyped DEF ViewsTypeOK
    <3>2. x.verb = "CLAIM" => ClaimedBy(store, order, d, x.task, new.owner)
      BY <1>0, <3>1 DEF ClaimedBy, Stored
    <3>3. new # NoRow
      BY <3>1, HubAssumption
    <3> HIDE DEF new, x
    <3>4. QED
      BY <3>1, <3>2, <3>3 DEF BoardRowShows
  <2>3. QED
    BY <1>0, <1>2, <2>2 DEF InTable
<1>3. CASE n = 3
  <2>1. x.parent # 0 => views'.thread_tree = views.thread_tree \cup {<<x.parent, 1, d>>}
    BY <1>3, ProjectedTables DEF ProjectThreadTree
  <2>2. x.parent # 0 => <<x.parent, 1, d>> \in views'.thread_tree
    BY <2>1
  <2>3. QED
    BY <1>3, <2>2 DEF InTable
<1>4. CASE n = 4
  <2>1. views'.agent_presence = ProjectPresence(views.agent_presence, d, x)
    BY <1>4, ProjectedTables
  <2> DEFINE new == views'.agent_presence[x.agent]
  <2>2. ASSUME x.verb \in {"ANNOUNCE", "HEARTBEAT"}
        PROVE  PresenceRowShows(new, order, d, x)
    <3>1. new \in Presence /\ new.last = d /\ (x.verb = "ANNOUNCE" => new.profile = d)
      BY <1>0, <2>1, <2>2, PresenceTyped DEF ViewsTypeOK
    <3>2. new # NoRow
      BY <3>1, HubAssumption
    <3> HIDE DEF new, x
    <3>3. QED
      BY <3>1, <3>2 DEF PresenceRowShows
  <2>3. QED
    BY <1>4, <2>2 DEF InTable
<1>5. CASE n = 5
  <2>1. views'.artifact_index = ProjectArtifactIndex(views.artifact_index, d, x)
    BY <1>5, ProjectedTables
  <2> DEFINE new == [task |-> x.task, epoch |-> d, review |-> "pending"]
  <2>2. new.task = x.task /\ new.epoch = d
    OBVIOUS
  <2>3. ASSUME x.verb = "ARTIFACT" PROVE new \in views'.artifact_index
    BY <2>1, <2>3 DEF ProjectArtifactIndex, Verdicts
  <2> HIDE DEF new
  <2>4. QED
    BY <1>5, <2>2, <2>3 DEF InTable
<1>6. CASE n = 6
  <2>1. x.hitl => d \in views'.hitl_queue \/ Verdict(x, d)
    BY <1>6, ProjectedTables DEF ProjectHitlQueue, Verdict
  <2>2. Verdict(x, d) => Answered(store', order', d)
    BY <1>0 DEF Answered, Stored
  <2>3. QED
    BY <1>6, <2>1, <2>2 DEF InTable
<1>7. QED
  BY <1>1, <1>2, <1>3, <1>4, <1>5, <1>6

\* What the tables show of a clack that had its turn they show for ever.
LEMMA ShowsStays ==
  ASSUME HubTypesInv, TurnsInv, [HubNext]_hubVars,
         NEW k \in Nat, NEW e \in Epochs, NEW c \in Clicks, HadTurn(e),
         Shows(views, store, order, k, e, c)
  PROVE  Shows(views', store', order', k, e, c)
<1>1. ASSUME NEW w \in Writers, Project(w) PROVE Shows(views', store', order', k, e, c)
  <2>1. /\ store' = store /\ order' = order /\ epoch[w] \in Stored
        /\ store[epoch[w]] \in Clicks /\ <<e, epoch[w]>> \in order
        /\ done + 1 \in 1..6
        /\ \/ views' = Projected(views, Tables[done + 1], epoch[w], store[epoch[w]])
           \/ views' = views
    BY <1>1, ProjectedIsStored
       DEF HubTypesInv, walVars, TurnsInv, NotBefore, Project, history
  <2>2. CASE views' = views
    BY <2>1, <2>2
  <2>3. CASE views' = Projected(views, Tables[done + 1], epoch[w], store[epoch[w]])
    BY <2>1, <2>3, InTableStays DEF HubTypesInv, Shows
  <2>4. QED
    BY <2>1, <2>2, <2>3
<1>2. CASE views' = views
  <2>1. order \subseteq order' /\ \A d \in Stored : store'[d] = store[d] /\ store'[d] # NoClick
    BY StoredGrows, HubStepIsWalStep, TurnsMove DEF HubTypesInv, Stored
  <2>2. Answered(store, order, e) => Answered(store', order', e)
    BY <2>1 DEF Answered, Stored
  <2>3. \A t, a : ClaimedBy(store, order, e, t, a) => ClaimedBy(store', order', e, t, a)
    BY <2>1 DEF ClaimedBy, Stored
  <2>4. \A row : BoardRowShows(row, store, order, e, c) => BoardRowShows(row, store', order', e, c)
    BY <2>1, <2>3 DEF BoardRowShows
  <2>5. \A row : PresenceRowShows(row, order, e, c) => PresenceRowShows(row, order', e, c)
    BY <2>1 DEF PresenceRowShows
  <2>6. \A n \in 1..6 : InTable(views, store, order, n, e, c) =>
                        InTable(views', store', order', n, e, c)
    BY <1>2, <2>2, <2>4, <2>5 DEF InTable
  <2>7. QED
    BY <2>6 DEF Shows
<1>3. QED
  BY <1>1, <1>2, OnlyProjectMovesViews

\* A step keeps what the tables show of every clack under way or acknowledged.
LEMMA ShownStep ==
  ASSUME HubTypesInv, HubInv', TurnsInv, ShownInv, [HubNext]_hubVars
  PROVE  ShownInv'
<1> DEFINE ShownOf(w) ==
      epoch[w] \notin lost =>
        /\ pc[w] = "listen" => Shows(views, store, order, done, epoch[w], click[w])
        /\ pc[w] = "publish" => Shows(views, store, order, 6, epoch[w], click[w])
    AckedShown ==
      \A a \in acked : a.epoch \notin lost => Shows(views, store, order, 6, a.epoch, a.click)
<1> USE DEF HubTypesInv, HubInv, TypeInv, TypeOK
<1>0. lost \subseteq lost' /\ done \in 0..6
  <2>1. ASSUME NEW w \in Writers, Project(w) PROVE lost \subseteq lost'
    BY <2>1, ProjectedIsStored
  <2>2. QED
    BY <2>1, OnlyProjectMovesViews DEF ViewsShape
\* A writer that stays where it is, at the same done, shows what it showed.
<1>1. ASSUME NEW w \in Writers, pc'[w] = pc[w], epoch'[w] = epoch[w], click'[w] = click[w],
             pc[w] = "listen" => done' = done
      PROVE  ShownOf(w)'
  <2>1. CASE pc[w] \in {"listen", "publish"}
    <3>1. epoch[w] \in Epochs /\ click[w] \in Clicks /\ HadTurn(epoch[w])
      BY <2>1 DEF LocalsInUse, TurnsInv
    <3>2. QED
      BY <1>0, <1>1, <3>1, ShowsStays DEF ShownInv
  <2>2. CASE pc[w] \notin {"listen", "publish"}
    BY <1>1, <2>2
  <2>3. QED
    BY <2>1, <2>2
<1>2. acked' = acked => AckedShown'
  BY <1>0, ShowsStays DEF ShownInv, TurnsInv
<1>3. \A w \in Writers : pc'[w] \notin {"listen", "publish"} => ShownOf(w)'
  OBVIOUS
<1>4. \A w \in Writers : pc[w] = "listen" => listenersMu = w /\ w # NoWriter
  BY WalAssumption DEF ListenersExclusive
<1> HIDE DEF HubTypesInv, HubInv, TypeInv
<1>5. SUFFICES /\ (listenersMu = NoWriter => done = 0)'
               /\ \A w \in Writers : ShownOf(w)'
               /\ AckedShown'
  BY DEF ShownInv
<1> HIDE DEF ShownOf, AckedShown
<1> DEFINE Goal == /\ (listenersMu = NoWriter => done = 0)'
                   /\ \A w \in Writers : ShownOf(w)'
                   /\ AckedShown'
<1>6. ASSUME NEW w \in Writers, Project(w) PROVE Goal
  <2>1. /\ epoch[w] \in Epochs /\ click[w] = store[epoch[w]] /\ click[w] \in Clicks
        /\ epoch[w] \in Stored /\ pc[w] = "listen"
        /\ done' = done + 1 /\ done + 1 \in 1..6 /\ UNCHANGED walVars
        /\ order' = order /\ HadTurn(epoch[w])
    BY <1>6, ProjectedIsStored DEF HubTypesInv, Stored, Project, history, TurnsInv
  <2>2. ShownOf(w)'
    <3> SUFFICES ASSUME epoch[w] \notin lost'
                 PROVE  Shows(views', store', order', done + 1, epoch[w], click[w])
      BY <2>1 DEF walVars, ShownOf
    <3>1. views' = Projected(views, Tables[done + 1], epoch[w], click[w])
      BY <1>6, ProjectedIsStored DEF HubTypesInv
    <3>2. InTable(views', store', order', done + 1, epoch[w], click[w])
      BY <2>1, <3>1, InTableAfter DEF HubTypesInv, walVars, HadTurn
    <3>3. Shows(views, store, order, done, epoch[w], click[w])
      BY <1>0, <2>1 DEF ShownInv
    <3>4. Shows(views', store', order', done, epoch[w], click[w])
      BY <1>0, <2>1, <3>3, ShowsStays
    <3>5. QED
      BY <1>0, <3>2, <3>4 DEF Shows
  <2>3. ASSUME NEW v \in Writers \ {w} PROVE ShownOf(v)'
    BY <1>1, <1>4, <2>1 DEF walVars
  <2>4. (listenersMu = NoWriter => done = 0)'
    BY <1>4, <2>1 DEF walVars
  <2>5. QED
    BY <1>2, <2>1, <2>2, <2>3, <2>4 DEF walVars
<1>7. CASE (Open \/ Recover) /\ UNCHANGED <<views, done, lost>>
  <2>1. UNCHANGED <<pc, epoch, click, acked, listenersMu, done>>
    BY <1>7 DEF Open, Recover, local
  <2>2. QED
    BY <1>1, <1>2, <2>1 DEF ShownInv
<1>8. CASE HubStop
  <2>1. acked' = acked /\ done' = 0 /\ \A w \in Writers : pc'[w] = "idle"
    BY <1>8 DEF HubStop, Stop, durable
  <2>2. QED
    BY <1>2, <1>3, <2>1
<1>9. ASSUME NEW w \in Writers, NEW c \in Clicks, Submit(w, c) PROVE Goal
  <2>1. /\ UNCHANGED <<acked, listenersMu, done>> /\ pc'[w] = "put"
        /\ \A v \in Writers \ {w} :
             pc'[v] = pc[v] /\ epoch'[v] = epoch[v] /\ click'[v] = click[v]
    BY <1>9 DEF Submit, Begin, HubTypesInv, HubInv, TypeInv
  <2>2. QED
    BY <1>1, <1>2, <1>3, <2>1 DEF ShownInv
<1>10. ASSUME NEW w \in Writers, Put(w) \/ PutFails(w), UNCHANGED <<views, done, lost>>
       PROVE  Goal
  <2>1. /\ UNCHANGED <<acked, listenersMu, done>> /\ pc'[w] \in {"lock", "idle"}
        /\ \A v \in Writers \ {w} :
             pc'[v] = pc[v] /\ epoch'[v] = epoch[v] /\ click'[v] = click[v]
    BY <1>10 DEF Put, PutFails, Leave, HubTypesInv, HubInv, TypeInv
  <2>2. QED
    BY <1>1, <1>2, <1>3, <2>1 DEF ShownInv
<1>11. ASSUME NEW w \in Writers, TakeTurn(w)
       PROVE  Goal
  <2>1. /\ UNCHANGED acked /\ pc'[w] = "listen" /\ listenersMu' = w /\ done' = 0
        /\ w # NoWriter
        /\ \A v \in Writers \ {w} :
             pc'[v] = pc[v] /\ epoch'[v] = epoch[v] /\ click'[v] = click[v]
    BY <1>11, WalAssumption
       DEF TakeTurn, EnterListeners, HubTypesInv, HubInv, TypeInv, ShownInv
  <2>2. ShownOf(w)'
    BY <2>1 DEF ShownOf, Shows
  <2>3. \A v \in Writers \ {w} : ShownOf(v)'
    BY <1>1, <1>11, <2>1 DEF TakeTurn
  <2>4. QED
    BY <1>2, <2>1, <2>2, <2>3
<1>12. ASSUME NEW w \in Writers, Publish(w), UNCHANGED <<views, done, lost>>
       PROVE  Goal
  <2>1. /\ UNCHANGED <<listenersMu, done>> /\ pc'[w] = "idle"
        /\ acked' = acked \cup {Clack(epoch[w], click[w])}
        /\ epoch[w] \in Epochs /\ click[w] \in Clicks /\ pc[w] = "publish"
        /\ \A v \in Writers \ {w} :
             pc'[v] = pc[v] /\ epoch'[v] = epoch[v] /\ click'[v] = click[v]
    BY <1>12 DEF Publish, Leave, HubTypesInv, HubInv, TypeInv, LocalsInUse
  <2>2. epoch[w] \notin lost => Shows(views', store', order', 6, epoch[w], click[w])
    BY <2>1, ShowsStays DEF ShownInv, TurnsInv
  <2>3. \A a \in acked : a.epoch \notin lost => Shows(views', store', order', 6, a.epoch, a.click)
    BY ShowsStays DEF ShownInv, TurnsInv, HubTypesInv, HubInv, TypeInv
  <2>4. AckedShown'
    BY <1>12, <2>1, <2>2, <2>3 DEF AckedShown, Clack
  <2>5. QED
    BY <1>1, <1>3, <2>1, <2>4 DEF ShownInv
<1>13. ASSUME NEW w \in Writers, ListenersDone(w) PROVE Goal
  <2>1. /\ UNCHANGED <<acked, store, views, lost, order>> /\ pc'[w] = "publish" /\ done' = 0
        /\ pc[w] = "listen" /\ done = 6
        /\ \A v \in Writers : epoch'[v] = epoch[v] /\ click'[v] = click[v]
        /\ \A v \in Writers \ {w} : pc'[v] = pc[v]
    BY <1>13 DEF ListenersDone, history, LeaveListeners, HubTypesInv, HubInv, TypeInv, Tables
  <2>2. ShownOf(w)'
    BY <2>1 DEF ShownOf, ShownInv
  <2>3. \A v \in Writers \ {w} : ShownOf(v)'
    BY <1>1, <1>4, <2>1
  <2>4. QED
    BY <1>2, <2>1, <2>2, <2>3
<1>14. ASSUME NEW w \in Writers, ProjectionThrows(w) PROVE Goal
  <2>1. /\ acked' = acked /\ pc'[w] = "idle" /\ done' = 0 /\ pc[w] = "listen"
        /\ \A v \in Writers \ {w} :
             pc'[v] = pc[v] /\ epoch'[v] = epoch[v] /\ click'[v] = click[v]
    BY <1>14 DEF ProjectionThrows, ListenerThrows, Leave, HubTypesInv, HubInv, TypeInv
  <2>2. \A v \in Writers \ {w} : ShownOf(v)'
    BY <1>1, <1>4, <2>1
  <2>3. QED
    BY <1>2, <1>3, <2>1, <2>2
<1>15. CASE UNCHANGED hubVars
  <2>1. UNCHANGED <<pc, epoch, click, acked, listenersMu, done>>
    BY <1>15 DEF hubVars, walVars
  <2>2. QED
    BY <1>1, <1>2, <2>1 DEF ShownInv
<1>16. QED
  BY <1>6, <1>7, <1>8, <1>9, <1>10, <1>11, <1>12, <1>13, <1>14, <1>15
     DEF HubNext, LogStep

\* The invariant of reading your writes.
LEMMA ShownInductive ==
  ASSUME Recovers
  PROVE  HubSpec => [](HubTypesInv /\ TurnsInv /\ ShownInv)
<1>1. HubInit => TurnsInv /\ ShownInv
  BY DEF HubInit, Init, TurnsInv, ShownInv
<1>2. HubTypesInv /\ HubTypesInv' /\ TurnsInv /\ ShownInv /\ [HubNext]_hubVars =>
        TurnsInv' /\ ShownInv'
  BY TurnsStep, ShownStep DEF HubTypesInv
<1>3. QED
  BY <1>1, <1>2, HubTypesInductive, PTL DEF HubSpec

\* Read your writes: once append() has returned, every table shows the clack, or
\* the work of a clack that came to the listeners after it, if no put into the
\* views store failed for it, whatever other appends, crashes, restarts and
\* throwing listeners did.
THEOREM AcknowledgedIsShown ==
  ASSUME Recovers
  PROVE  HubSpec => []AckedIsProjected
<1>1. HubTypesInv /\ ShownInv => AckedIsProjected
  <2> SUFFICES ASSUME HubTypesInv, ShownInv, NEW a \in acked, a.epoch \notin lost
               PROVE  LET c == a.click  e == a.epoch IN
                 /\ <<c.agent, e>> \in views.agent_log
                 /\ c.parent # 0 => <<c.parent, 1, e>> \in views.thread_tree
                 /\ c.verb = "ARTIFACT" =>
                      \E r \in views.artifact_index : r.task = c.task /\ r.epoch = e
                 /\ c.task # NoTask /\ c.verb \in BoardVerbs =>
                      LET row == views.task_board[c.task] IN
                        /\ row # NoRow /\ NotBefore(row.last, e)
                        /\ c.verb = "CLAIM" => \E d \in Stored :
                             /\ NotBefore(d, e) /\ store[d].agent = row.owner
                             /\ store[d].verb = "CLAIM" /\ store[d].task = c.task
                 /\ c.verb \in {"ANNOUNCE", "HEARTBEAT"} =>
                      LET row == views.agent_presence[c.agent] IN
                        /\ row # NoRow /\ NotBefore(row.last, e)
                        /\ c.verb = "ANNOUNCE" => NotBefore(row.profile, e)
                 /\ c.hitl => \/ e \in views.hitl_queue
                              \/ \E d \in Stored : Verdict(store[d], e) /\ NotBefore(d, e)
    BY Zenon DEF AckedIsProjected
  <2> DEFINE c == a.click
             e == a.epoch
  <2>1. \A n \in 1..6 : InTable(views, store, order, n, e, c)
    BY DEF ShownInv, Shows
  <2>2. /\ InTable(views, store, order, 1, e, c) /\ InTable(views, store, order, 2, e, c)
        /\ InTable(views, store, order, 3, e, c) /\ InTable(views, store, order, 4, e, c)
        /\ InTable(views, store, order, 5, e, c) /\ InTable(views, store, order, 6, e, c)
    BY <2>1
  <2>3. Answered(store, order, e) => \E d \in Stored : Verdict(store[d], e) /\ NotBefore(d, e)
    BY DEF Answered, Stored, NotBefore
  <2>4. \A t, b : ClaimedBy(store, order, e, t, b) => \E d \in Stored :
          /\ NotBefore(d, e) /\ store[d].agent = b
          /\ store[d].verb = "CLAIM" /\ store[d].task = t
    BY DEF ClaimedBy, Stored, NotBefore
  <2> HIDE DEF c, e
  <2>5. c.task # NoTask /\ c.verb \in BoardVerbs =>
          LET row == views.task_board[c.task] IN
            /\ row # NoRow /\ NotBefore(row.last, e)
            /\ c.verb = "CLAIM" => \E d \in Stored :
                 /\ NotBefore(d, e) /\ store[d].agent = row.owner
                 /\ store[d].verb = "CLAIM" /\ store[d].task = c.task
    BY <2>2, <2>4 DEF InTable, BoardRowShows, NotBefore
  <2>6. c.verb \in {"ANNOUNCE", "HEARTBEAT"} =>
          LET row == views.agent_presence[c.agent] IN
            /\ row # NoRow /\ NotBefore(row.last, e)
            /\ c.verb = "ANNOUNCE" => NotBefore(row.profile, e)
    BY <2>2 DEF InTable, PresenceRowShows, NotBefore
  <2>7. /\ <<c.agent, e>> \in views.agent_log
        /\ c.parent # 0 => <<c.parent, 1, e>> \in views.thread_tree
        /\ c.verb = "ARTIFACT" =>
             \E r \in views.artifact_index : r.task = c.task /\ r.epoch = e
        /\ c.hitl => \/ e \in views.hitl_queue
                     \/ \E d \in Stored : Verdict(store[d], e) /\ NotBefore(d, e)
    BY <2>2, <2>3 DEF InTable
  <2>8. QED
    BY <2>5, <2>6, <2>7, Zenon DEF c, e
<1>2. QED
  BY <1>1, ShownInductive, PTL

-----------------------------------------------------------------------------
(* Resolved reviews *)

\* The listeners have been given the clack of e.
Entered(e) ==
  e \in Stored /\ \A v \in Writers : epoch[v] = e => pc[v] \in {"listen", "publish"}

\* The listeners are through with the clack of e.
Passed(e) ==
  e \in Stored /\ \A v \in Writers : epoch[v] = e => pc[v] = "publish"

\* No artifact of e waits for its review in the index of v.
Reviewed(v, e) == \A r \in v.artifact_index : r.epoch = e => r.review # "pending"

\* A client that saw an epoch in the views refers to a clack the listeners have
\* been given; when the listeners are given the verdict they are through with the
\* clack, so that nothing is entered for it after the verdict's own projections.
ReviewOf(e) ==
  /\ e \in Shown => Entered(e)
  /\ \A w \in Writers : pc[w] # "idle" /\ click[w].ref = e /\ sawIn[epoch[w]] = "views" =>
       /\ Entered(e)
       /\ pc[w] \in {"listen", "publish"} => Passed(e)
       /\ pc[w] \in {"listen", "publish"} /\ Verdict(click[w], e) /\ epoch[w] \notin lost =>
            /\ pc[w] = "publish" \/ done >= 5 => Reviewed(views, e)
            /\ pc[w] = "publish" \/ done = 6 => e \notin views.hitl_queue
  /\ \A a \in acked : a.click.ref = e /\ sawIn[a.epoch] = "views" =>
       /\ Passed(e)
       /\ Verdict(a.click, e) /\ a.epoch \notin lost =>
            Reviewed(views, e) /\ e \notin views.hitl_queue

ReviewInv == \A e \in Epochs : ReviewOf(e)

\* How a writer came to be, or stays, past the lock.
LEMMA PastTheLock ==
  ASSUME HubInv, [HubNext]_hubVars, NEW w \in Writers, pc'[w] \in {"listen", "publish"}
  PROVE  \/ EnterListeners(w) /\ pc'[w] = "listen" /\ UNCHANGED <<views, done, lost>>
         \/ Project(w) /\ pc'[w] = "listen"
         \/ ListenersDone(w) /\ pc'[w] = "publish"
         \/ pc'[w] = pc[w] /\ (pc[w] = "listen" => done' = done)
<1> USE DEF HubInv, TypeInv, TypeOK
<1>0. \A v \in Writers : pc[v] = "listen" => listenersMu = v
  BY DEF ListenersExclusive
<1>1. CASE (Open \/ Recover) /\ done' = done
  BY <1>1 DEF Open, Recover, local
<1>2. CASE HubStop
  BY <1>2 DEF HubStop, Stop
<1>3. ASSUME NEW v \in Writers, NEW c \in Clicks, Submit(v, c)
      PROVE  pc'[w] = pc[w] /\ (pc[w] = "listen" => done' = done)
  BY <1>3 DEF Submit, Begin
<1>4. ASSUME NEW v \in Writers, Put(v) \/ PutFails(v) \/ Publish(v), done' = done
      PROVE  pc'[w] = pc[w] /\ (pc[w] = "listen" => done' = done)
  BY <1>4 DEF Put, PutFails, Publish, Leave
<1>5. ASSUME NEW v \in Writers, TakeTurn(v)
      PROVE  \/ /\ EnterListeners(w) /\ pc'[w] = "listen"
                /\ UNCHANGED <<views, done, lost>>
             \/ pc'[w] = pc[w] /\ (pc[w] = "listen" => done' = done)
  BY <1>5 DEF TakeTurn, EnterListeners
<1>6. ASSUME NEW v \in Writers, Project(v)
      PROVE  \/ Project(w) /\ pc'[w] = "listen"
             \/ pc'[w] = pc[w] /\ (pc[w] = "listen" => done' = done)
  <2>1. pc' = pc /\ pc[v] = "listen"
    BY <1>6 DEF Project, walVars
  <2>2. CASE v = w
    BY <1>6, <2>1, <2>2
  <2>3. CASE v # w
    BY <1>0, <2>1, <2>3
  <2>4. QED
    BY <2>2, <2>3
<1>7. ASSUME NEW v \in Writers, ListenersDone(v)
      PROVE  \/ ListenersDone(w) /\ pc'[w] = "publish"
             \/ pc'[w] = pc[w] /\ (pc[w] = "listen" => done' = done)
  <2>1. pc[v] = "listen" /\ pc' = [pc EXCEPT ![v] = "publish"]
    BY <1>7 DEF ListenersDone, LeaveListeners
  <2>2. CASE v = w
    BY <1>7, <2>1, <2>2
  <2>3. CASE v # w
    BY <1>0, <2>1, <2>3
  <2>4. QED
    BY <2>2, <2>3
<1>8. ASSUME NEW v \in Writers, ProjectionThrows(v)
      PROVE  pc'[w] = pc[w] /\ (pc[w] = "listen" => done' = done)
  BY <1>0, <1>8 DEF ProjectionThrows, ListenerThrows, Leave
<1>9. CASE UNCHANGED hubVars
  BY <1>9 DEF hubVars, walVars
<1>10. QED
  BY <1>1, <1>2, <1>3, <1>4, <1>5, <1>6, <1>7, <1>8, <1>9 DEF HubNext, LogStep

\* Once the listeners have a clack, or are through with it, that stays so.
LEMMA EnteredStays ==
  ASSUME HubInv, HubInv', [HubNext]_hubVars, NEW e \in Epochs, Entered(e)
  PROVE  Entered(e)' /\ (Passed(e) => Passed(e)')
<1>1. e \in Stored'
  BY StoredGrows, HubStepIsWalStep DEF Entered
<1>2. ASSUME NEW v \in Writers, epoch'[v] = e
      PROVE  /\ pc'[v] \in {"listen", "publish"}
             /\ Passed(e) => pc'[v] = "publish"
  <2>1. pc'[v] # "idle"
    BY <1>2 DEF HubInv, TypeInv, LocalsInUse, Epochs
  <2>2. CASE pc[v] # "idle" /\ click'[v] = click[v] /\ epoch'[v] = epoch[v]
    <3>1. pc[v] \in {"listen", "publish"} /\ (Passed(e) => pc[v] = "publish")
      BY <1>2, <2>2 DEF Entered, Passed
    <3>2. pc[v] \in {"listen", "publish"} /\ pc'[v] # "idle" =>
            pc'[v] \in {"listen", "publish"} /\ (pc[v] = "publish" => pc'[v] = "publish")
      BY WriterAdvances DEF HubInv
    <3>3. QED
      BY <2>1, <3>1, <3>2
  <2>3. CASE Submit(v, click'[v]) /\ epoch'[v] = counter + 1
    BY <1>2, <2>3 DEF Submit, Begin, Entered, HubInv, CounterCovers, TypeInv, TypeOK
  <2>4. QED
    BY <2>1, <2>2, <2>3, AppendUnderWay DEF HubInv
<1>3. QED
  BY <1>1, <1>2 DEF Entered, Passed

\* A projection enters at most its own clack, and a verdict's clears its item.
LEMMA IndexAfter ==
  ASSUME NEW index, NEW d \in Epochs, NEW c, NEW e \in Epochs,
         index \subseteq [task : Tasks \cup {NoTask}, epoch : Epochs,
                          review : {"pending", "approved", "rejected"}]
  PROVE  /\ \A q \in ProjectArtifactIndex(index, d, c) : q.epoch = e =>
              e = d \/ \E r \in index : r.epoch = e
         /\ e # d /\ (\A r \in index : r.epoch = e => r.review # "pending") =>
              \A q \in ProjectArtifactIndex(index, d, c) : q.epoch = e => q.review # "pending"
         /\ Verdict(c, e) =>
              \A q \in ProjectArtifactIndex(index, d, c) : q.epoch = e => q.review # "pending"
<1>1. CASE c.verb = "ARTIFACT"
  BY <1>1 DEF ProjectArtifactIndex, Verdicts, Verdict
<1>2. CASE c.verb \in Verdicts /\ c.ref # 0
  <2> DEFINE mark(a) == IF a.epoch = c.ref
                          THEN [a EXCEPT !.review =
                                 IF c.verb = "APPROVE" THEN "approved" ELSE "rejected"]
                          ELSE a
  <2>1. ProjectArtifactIndex(index, d, c) = {mark(a) : a \in index}
    BY <1>2 DEF ProjectArtifactIndex, Verdicts
  <2>2. \A a \in index : /\ mark(a).epoch = a.epoch
                         /\ mark(a) = a \/ mark(a).review # "pending"
                         /\ a.epoch = c.ref => mark(a).review # "pending"
    OBVIOUS
  <2> HIDE DEF mark
  <2>3. QED
    BY <2>1, <2>2 DEF Verdict
<1>3. CASE c.verb # "ARTIFACT" /\ ~(c.verb \in Verdicts /\ c.ref # 0)
  BY <1>3 DEF ProjectArtifactIndex, Verdict, Epochs
<1>4. QED
  BY <1>1, <1>2, <1>3

\* What the next step of the views does for one epoch e: it shows e only if it did
\* before or e is the projected clack's, and nothing returns that is passed.
LEMMA ReviewMoves ==
  ASSUME HubTypesInv, [HubNext]_hubVars, NEW e \in Epochs
  PROVE  /\ e \in Shown' => e \in Shown \/ \E w \in Writers : Project(w) /\ epoch[w] = e
         /\ Passed(e) /\ Reviewed(views, e) => Reviewed(views', e)
         /\ Passed(e) /\ e \notin views.hitl_queue => e \notin views'.hitl_queue
         /\ lost \subseteq lost'
<1>1. ASSUME NEW w \in Writers, Project(w),
             views' = Projected(views, Tables[done + 1], epoch[w], click[w])
      PROVE  /\ e \in Shown' => e \in Shown \/ epoch[w] = e
             /\ Passed(e) /\ Reviewed(views, e) => Reviewed(views', e)
             /\ Passed(e) /\ e \notin views.hitl_queue => e \notin views'.hitl_queue
  <2>1. epoch[w] \in Epochs /\ done + 1 \in 1..6 /\ pc[w] = "listen"
    BY <1>1, ProjectedIsStored DEF HubTypesInv, Stored, Project
  <2>2. \/ views'.artifact_index = views.artifact_index
        \/ views'.artifact_index =
             ProjectArtifactIndex(views.artifact_index, epoch[w], click[w])
    BY <1>1, <2>1, ProjectedTables DEF HubTypesInv
  <2>3. \/ views'.hitl_queue = views.hitl_queue
        \/ views'.hitl_queue = ProjectHitlQueue(views.hitl_queue, epoch[w], click[w])
    BY <1>1, <2>1, ProjectedTables DEF HubTypesInv
  <2>4. Passed(e) => e # epoch[w]
    BY <2>1 DEF Passed
  <2>5. /\ \A q \in views'.artifact_index : q.epoch = e =>
              e = epoch[w] \/ \E r \in views.artifact_index : r.epoch = e
        /\ e # epoch[w] /\ Reviewed(views, e) => Reviewed(views', e)
    <3>1. CASE views'.artifact_index = views.artifact_index
      BY <3>1 DEF Reviewed
    <3>2. CASE views'.artifact_index =
                 ProjectArtifactIndex(views.artifact_index, epoch[w], click[w])
      <4> DEFINE index == views.artifact_index
                 index2 == views'.artifact_index
      <4>1. /\ \A q \in index2 : q.epoch = e =>
                  e = epoch[w] \/ \E r \in index : r.epoch = e
            /\ e # epoch[w] /\ (\A r \in index : r.epoch = e => r.review # "pending")
                 => \A r \in index2 : r.epoch = e => r.review # "pending"
        <5>1. index \subseteq [task : Tasks \cup {NoTask}, epoch : Epochs,
                               review : {"pending", "approved", "rejected"}]
          BY DEF HubTypesInv, ViewsTypeOK
        <5> HIDE DEF index
        <5>2. /\ \A q \in ProjectArtifactIndex(index, epoch[w], click[w]) : q.epoch = e =>
                    e = epoch[w] \/ \E r \in index : r.epoch = e
              /\ e # epoch[w] /\ (\A r \in index : r.epoch = e => r.review # "pending") =>
                   \A q \in ProjectArtifactIndex(index, epoch[w], click[w]) :
                     q.epoch = e => q.review # "pending"
          BY <2>1, <5>1, IndexAfter
        <5>3. index2 = ProjectArtifactIndex(index, epoch[w], click[w])
          BY <3>2 DEF index
        <5> HIDE DEF index2
        <5>4. QED
          BY <5>2, <5>3
      <4>2. QED
        BY <4>1 DEF Reviewed
    <3>3. QED
      BY <2>2, <3>1, <3>2
  <2>6. e \in views'.hitl_queue => e = epoch[w] \/ e \in views.hitl_queue
    BY <2>3 DEF ProjectHitlQueue
  <2>7. QED
    BY <2>4, <2>5, <2>6 DEF Shown
<1>2. ASSUME views' = views
      PROVE  /\ e \in Shown' => e \in Shown
             /\ Reviewed(views, e) => Reviewed(views', e)
             /\ e \notin views.hitl_queue => e \notin views'.hitl_queue
  BY <1>2 DEF Shown
<1>3. ASSUME NEW w \in Writers, Project(w)
      PROVE  /\ lost \subseteq lost'
             /\ \/ views' = views
                \/ views' = Projected(views, Tables[done + 1], epoch[w], click[w])
  BY <1>3, ProjectedIsStored DEF HubTypesInv
<1>4. QED
  BY <1>1, <1>2, <1>3, OnlyProjectMovesViews

\* The verdict's own projections: the fifth reviews its artifact, the sixth takes
\* its item out of the queue.
LEMMA VerdictProjects ==
  ASSUME HubTypesInv, NEW w \in Writers, Project(w), epoch[w] \notin lost',
         NEW e \in Epochs, Verdict(click[w], e)
  PROVE  /\ done = 4 => Reviewed(views', e)
         /\ done = 5 => e \notin views'.hitl_queue
<1>1. /\ views' = Projected(views, Tables[done + 1], epoch[w], click[w])
      /\ epoch[w] \in Epochs /\ done + 1 \in 1..6
  BY ProjectedIsStored DEF HubTypesInv, Stored
<1>2. CASE done = 4
  <2>1. views'.artifact_index =
          ProjectArtifactIndex(views.artifact_index, epoch[w], click[w])
    BY <1>1, <1>2, ProjectedTables DEF HubTypesInv
  <2>2. QED
    BY <1>1, <1>2, <2>1, IndexAfter DEF HubTypesInv, ViewsTypeOK, Reviewed
<1>3. CASE done = 5
  <2>1. views'.hitl_queue = ProjectHitlQueue(views.hitl_queue, epoch[w], click[w])
    BY <1>1, <1>3, ProjectedTables DEF HubTypesInv
  <2>2. e # 0
    BY DEF Epochs
  <2>3. QED
    BY <1>3, <2>1, <2>2 DEF ProjectHitlQueue, Verdict
<1>4. QED
  BY <1>2, <1>3

\* What is noted of a clack under way or acknowledged is not changed.
LEMMA SawInStays ==
  ASSUME HubTypesInv, [HubNext]_hubVars
  PROVE  /\ \A w \in Writers : pc[w] # "idle" => sawIn'[epoch[w]] = sawIn[epoch[w]]
         /\ \A a \in acked : sawIn'[a.epoch] = sawIn[a.epoch]
<1>1. ASSUME NEW v \in Writers, NEW c \in Clicks, Submit(v, c)
      PROVE  \A e \in Epochs : e <= counter => sawIn'[e] = sawIn[e]
  <2>1. sawIn' = [sawIn EXCEPT ![counter + 1] = SeenIn(c.ref)] /\ counter \in Nat
    BY <1>1 DEF Submit, Begin, HubTypesInv, HubInv, TypeInv, TypeOK
  <2>2. \A e \in Epochs : e <= counter => e # counter + 1
    BY <2>1 DEF Epochs
  <2>3. QED
    BY <2>1, <2>2 DEF HubTypesInv, HistoryTypeOK
<1>2. ASSUME NEW v \in Writers, NEW c \in Clicks, Submit(v, c)
      PROVE  /\ \A w \in Writers : pc[w] # "idle" => epoch[w] \in Epochs /\ epoch[w] <= counter
             /\ \A a \in acked : a.epoch \in Epochs /\ a.epoch <= counter
  <2>1. phase = "serving"
    BY <1>2 DEF Submit, Begin
  <2>2. \A a \in acked : a.epoch \in Stored
    BY WalAssumption DEF HubTypesInv, HubInv, TypeInv, TypeOK, AckedDurable, Stored
  <2>3. QED
    BY <2>1, <2>2
       DEF HubTypesInv, HubInv, TypeInv, LocalsInUse, CounterCovers, Stored
<1>3. QED
  BY <1>1, <1>2, SawInMoves

\* A step keeps what is known of one item and its verdicts.
LEMMA ReviewStep ==
  ASSUME HubTypesInv, HubTypesInv', ShownInv, NEW e \in Epochs, ReviewOf(e),
         [HubNext]_hubVars
  PROVE  ReviewOf(e)'
<1> DEFINE Referred(w) == Entered(e) /\ (pc[w] \in {"listen", "publish"} => Passed(e))
    Cleared(w) ==
      pc[w] \in {"listen", "publish"} /\ Verdict(click[w], e) /\ epoch[w] \notin lost =>
        /\ pc[w] = "publish" \/ done >= 5 => Reviewed(views, e)
        /\ pc[w] = "publish" \/ done = 6 => e \notin views.hitl_queue
<1>1. HubInv /\ HubInv' /\ done \in 0..6
  BY DEF HubTypesInv, ViewsShape
<1>2. Entered(e) => Entered(e)' /\ (Passed(e) => Passed(e)')
  BY <1>1, EnteredStays
<1>3. /\ Passed(e) /\ Reviewed(views, e) => Reviewed(views', e)
      /\ Passed(e) /\ e \notin views.hitl_queue => e \notin views'.hitl_queue
      /\ lost \subseteq lost'
  BY ReviewMoves
<1>4. (e \in Shown => Entered(e))'
  <2>1. ASSUME NEW w \in Writers, Project(w), epoch[w] = e PROVE Entered(e)
    <3>1. e \in Stored /\ pc[w] = "listen"
      BY <2>1, ProjectedIsStored DEF HubTypesInv, Project
    <3>2. \A v \in Writers : epoch[v] = e => v = w
      BY <2>1, <1>1 DEF HubInv, EpochExclusive, Epochs
    <3>3. QED
      BY <3>1, <3>2 DEF Entered
  <2>2. e \in Shown' => Entered(e)
    BY <2>1, ReviewMoves DEF ReviewOf
  <2>3. QED
    BY <1>2, <2>2
<1>5. ASSUME NEW w \in Writers, pc'[w] # "idle", click'[w].ref = e,
             sawIn'[epoch'[w]] = "views"
      PROVE  Referred(w)' /\ Cleared(w)'
  <2>1. CASE pc[w] # "idle" /\ click'[w] = click[w] /\ epoch'[w] = epoch[w]
    <3>1. Referred(w) /\ Cleared(w)
      BY <1>5, <2>1, SawInStays DEF ReviewOf
    <3>2. Entered(e)'
      BY <1>2, <3>1
    <3>3. CASE EnterListeners(w) /\ pc'[w] = "listen" /\ UNCHANGED <<views, done, lost>>
      <4>1. pc[w] = "lock" /\ listenersMu = NoWriter
        BY <3>3 DEF EnterListeners
      <4>2. \A v \in Writers : pc'[v] = "listen" => v = w
        BY <1>1, <3>3 DEF HubInv, ListenersExclusive
      <4>3. epoch[w] # e
        BY <3>1, <4>1 DEF Entered
      <4>4. Passed(e)'
        BY <2>1, <3>2, <4>2, <4>3 DEF Entered, Passed
      <4>5. done' = 0
        BY <3>3, <4>1 DEF ShownInv
      <4>6. QED
        BY <3>2, <3>3, <4>4, <4>5
    <3>4. CASE Project(w) /\ pc'[w] = "listen"
      <4>1. pc[w] = "listen" /\ done' = done + 1
        BY <3>4 DEF Project
      <4>2. Passed(e) /\ Passed(e)'
        BY <1>2, <3>1, <4>1
      <4>3. Cleared(w)'
        <5> SUFFICES ASSUME Verdict(click[w], e), epoch[w] \notin lost'
                     PROVE  /\ done' >= 5 => Reviewed(views', e)
                            /\ done' = 6 => e \notin views'.hitl_queue
          BY <2>1, <3>4 DEF Verdict
        <5>1. done >= 5 => Reviewed(views, e)
          BY <1>3, <3>1, <4>1
        <5>2. QED
          BY <1>1, <1>3, <3>4, <4>1, <4>2, <5>1, VerdictProjects
      <4>4. QED
        BY <3>2, <4>2, <4>3
    <3>5. CASE ListenersDone(w) /\ pc'[w] = "publish"
      <4>1. pc[w] = "listen" /\ done = 6
        BY <3>5 DEF ListenersDone, LeaveListeners, Tables
      <4>2. Passed(e) /\ Passed(e)'
        BY <1>2, <3>1, <4>1
      <4>3. QED
        BY <1>3, <2>1, <3>1, <3>2, <4>1, <4>2 DEF Verdict
    <3>6. CASE pc'[w] = pc[w] /\ (pc[w] = "listen" => done' = done)
      BY <1>2, <1>3, <2>1, <3>1, <3>6 DEF Verdict
    <3>7. CASE pc'[w] \notin {"listen", "publish"}
      BY <3>2, <3>7
    <3>8. QED
      BY <1>1, <3>3, <3>4, <3>5, <3>6, <3>7, PastTheLock
  <2>2. CASE /\ pc'[w] = "put" /\ epoch'[w] = counter + 1
            /\ click'[w] \in Clicks /\ Submit(w, click'[w])
    <3>1. e \in Shown
      <4>1. counter + 1 \in Epochs /\ e # 0
        BY <2>2 DEF Submit, Begin, Epochs, HubTypesInv, HubInv, TypeInv, TypeOK
      <4>2. sawIn' = [sawIn EXCEPT ![counter + 1] = SeenIn(e)]
        BY <1>5, <2>2 DEF Submit
      <4>3. SeenIn(e) = "views"
        BY <1>5, <2>2, <4>1, <4>2 DEF HubTypesInv, HistoryTypeOK
      <4>4. QED
        BY <4>1, <4>3 DEF SeenIn
    <3>2. Entered(e)'
      BY <1>2, <3>1 DEF ReviewOf
    <3>3. QED
      BY <2>2, <3>2
  <2>3. QED
    BY <1>1, <1>5, <2>1, <2>2, AppendUnderWay DEF HubInv
<1>6. ASSUME NEW a \in acked', a.click.ref = e, sawIn'[a.epoch] = "views"
      PROVE  /\ Passed(e)'
             /\ Verdict(a.click, e) /\ a.epoch \notin lost' =>
                  Reviewed(views', e) /\ e \notin views'.hitl_queue
  <2>1. CASE a \in acked
    <3>1. Passed(e) /\ Passed(e)'
      BY <1>2, <1>6, <2>1, SawInStays DEF ReviewOf, Passed, Entered
    <3>2. QED
      BY <1>3, <1>6, <2>1, <3>1, SawInStays DEF ReviewOf
  <2>2. ASSUME NEW w \in Writers, Publish(w), a = Clack(epoch[w], click[w]),
               UNCHANGED <<views, done, lost>>
        PROVE  /\ Passed(e)'
               /\ Verdict(a.click, e) /\ a.epoch \notin lost' =>
                    Reviewed(views', e) /\ e \notin views'.hitl_queue
    <3>1. /\ pc[w] = "publish" /\ click[w].ref = e /\ a.click = click[w]
          /\ a.epoch = epoch[w] /\ sawIn[epoch[w]] = "views"
      BY <1>6, <2>2, SawInStays DEF Publish, Clack
    <3>2. Passed(e) /\ Passed(e)'
      BY <1>2, <3>1 DEF ReviewOf
    <3>3. QED
      BY <1>3, <2>2, <3>1, <3>2 DEF ReviewOf
  <2>3. QED
    BY <2>1, <2>2, AckedByPublish DEF Publish
<1>7. QED
  BY <1>4, <1>5, <1>6 DEF ReviewOf

\* "Remove from queue on APPROVE/REJECT": once the verdict of a client that saw
\* the item in the views is acknowledged, and no put failed for it, the item is out
\* of the queue and its artifact is reviewed, for good.
THEOREM VerdictsEmptyTheQueue ==
  ASSUME Recovers
  PROVE  HubSpec => []ResolvedLeavesQueue
<1>1. HubInit => ReviewInv
  BY DEF HubInit, Init, ReviewInv, ReviewOf, Shown, NoViews
<1>2. HubTypesInv /\ HubTypesInv' /\ ShownInv /\ ReviewInv /\ [HubNext]_hubVars => ReviewInv'
  <2> SUFFICES ASSUME HubTypesInv, HubTypesInv', ShownInv, ReviewInv, [HubNext]_hubVars
               PROVE  ReviewInv'
    OBVIOUS
  <2>1. ASSUME NEW e \in Epochs PROVE ReviewOf(e)'
    BY ReviewStep DEF ReviewInv
  <2>2. QED
    BY <2>1 DEF ReviewInv
<1>3. HubTypesInv /\ ReviewInv => ResolvedLeavesQueue
  <2> SUFFICES ASSUME HubTypesInv, ReviewInv, NEW a \in acked,
                      a.click.verb \in Verdicts, a.epoch \notin lost,
                      sawIn[a.epoch] = "views"
               PROVE  Resolves(a)
    BY DEF ResolvedLeavesQueue, AckedVerdicts
  <2>1. CASE a.click.ref \in Epochs
    BY <2>1 DEF ReviewInv, ReviewOf, Verdict, Reviewed, Resolves
  <2>2. CASE a.click.ref \notin Epochs
    BY <2>2 DEF HubTypesInv, ViewsTypeOK, Resolves
  <2>3. QED
    BY <2>1, <2>2
<1>4. QED
  BY <1>1, <1>2, <1>3, ShownInductive, PTL DEF HubSpec

-----------------------------------------------------------------------------
(* The tools that read before they append *)

\* What is between a tool's read and its append is something a client can send.
CallsTyped == \A w \in Writers : call[w] # NoCall => call[w].click \in Clicks

\* The replies that name a task.
TaskReplies == {c \in Replies : c.task # NoTask}

\* Such a reply follows its clack from the read on: while the tool holds it, ...
CallsFollow ==
  \A w \in Writers : call[w] # NoCall /\ call[w].click \in TaskReplies =>
    Follows(call[w].click)

\* ... and while append() does, with an epoch above the clack's.
AppendsFollow ==
  \A w \in Writers : pc[w] # "idle" /\ click[w] \in TaskReplies =>
    click[w].parent < epoch[w] /\ Follows(click[w])

TasksInv == CallsFollow /\ AppendsFollow /\ RepliesFollowTask

-----------------------------------------------------------------------------
(* The tools' steps are steps of the hub *)

\* What a tool that reads nothing appends is no reply of the other tools.
LEMMA DirectIsNoReply == \A c \in Direct : c \notin Replies
<1>1. \A c \in Replies : c.verb \in {"ACK", "ANSWER"}
  <2>1. \A a \in Agents, t \in Tasks, s \in Slices : ClaimClick(a, t, s).verb = "CLAIM"
    BY DEF ClaimClick, Click
  <2>2. \A v \in {"ACK", "ANSWER"}, a \in Agents, t \in Tasks \cup {NoTask}, e \in Epochs :
          Click(v, a, t, e).verb = v
    BY DEF Click
  <2>3. QED
    <3> SUFFICES ASSUME NEW c \in AfterRead, c.verb # "CLAIM"
                 PROVE  c.verb \in {"ACK", "ANSWER"}
      BY DEF Replies
    <3>1. \/ \E a \in Agents, t \in Tasks, s \in Slices : c = ClaimClick(a, t, s)
          \/ \E v \in {"ACK", "ANSWER"}, a \in Agents, t \in Tasks \cup {NoTask},
                e \in Epochs : c = Click(v, a, t, e)
      BY DEF AfterRead
    <3>2. CASE \E a \in Agents, t \in Tasks, s \in Slices : c = ClaimClick(a, t, s)
      BY <2>1, <3>2
    <3>3. CASE \E v \in {"ACK", "ANSWER"}, a \in Agents, t \in Tasks \cup {NoTask},
                  e \in Epochs : c = Click(v, a, t, e)
      <4> PICK v \in {"ACK", "ANSWER"}, a \in Agents, t \in Tasks \cup {NoTask},
               e \in Epochs : c = Click(v, a, t, e)
        BY <3>3
      <4> QED
        BY <2>2
    <3>4. QED
      BY <3>1, <3>2, <3>3
<1>2. ASSUME NEW c \in Direct, c \notin Posted PROVE c.verb \notin {"ACK", "ANSWER"}
  <2>1. CASE \E a \in Agents : c = Heartbeat(a)
    BY <2>1 DEF Heartbeat, Click
  <2>2. CASE \E a \in Agents, t \in Tasks :
               c \in {ReportProgress(a, t), CompleteTask(a, t), PostArtifact(a, t), Ask(a, t)}
    BY <2>2 DEF ReportProgress, CompleteTask, PostArtifact, Ask, Click
  <2>3. QED
    <3>1. \/ \E a \in Agents : c = Heartbeat(a)
          \/ \E a \in Agents, t \in Tasks :
                c \in {ReportProgress(a, t), CompleteTask(a, t), PostArtifact(a, t), Ask(a, t)}
      BY <1>2 DEF Direct
    <3>2. QED
      BY <2>1, <2>2, <3>1
<1>3. \A c \in Posted : c \notin Replies
  BY Zenon DEF Replies
<1>4. QED
  BY <1>1, <1>2, <1>3

\* A reply is a click, and has the row's task if it names one.
LEMMA ReplyIsClick ==
  ASSUME TypeInv, NEW e \in Epochs, NEW verb \in {"ACK", "ANSWER"}, NEW a \in Agents
  PROVE  LET c == Click(verb, a, OriginTask(e), e)
         IN c \in Clicks /\ (c.task # NoTask => Follows(c))
<1>1. e \in Stored => store[e] \in Clicks
  BY DEF TypeInv, TypeOK, Stored
<1>2. /\ OriginTask(e) \in Tasks \cup {NoTask}
      /\ OriginTask(e) # NoTask => e \in Stored /\ OriginTask(e) = store[e].task
  BY <1>1, HubAssumption DEF OriginTask, Stored
<1>3. Click(verb, a, OriginTask(e), e) \in AfterRead
  BY <1>2 DEF AfterRead
<1>4. QED
  BY <1>2, <1>3, TasksAssumption DEF Follows, Click

\* Housekeeping is what HubNext does besides calls and the end of the process.
LEMMA HousekeepingIsHubNext == Housekeeping => HubNext
  BY DEF Housekeeping, HubNext

\* One step of the tools, with typed calls: the hub's step, and calls stay typed.
LEMMA TasksStep ==
  ASSUME TypeInv, CallsTyped, [TasksNext]_taskVars
  PROVE  [HubNext]_hubVars /\ CallsTyped'
<1> USE TasksAssumption DEF CallsTyped
<1>1. CASE Housekeeping /\ UNCHANGED <<call, get>>
  BY <1>1, HousekeepingIsHubNext
<1>2. CASE TasksStop
  BY <1>2 DEF TasksStop, HubNext, NoCalls
<1>3. ASSUME NEW w \in Writers, NEW c \in Offered, CallDirect(w, c)
      PROVE  [HubNext]_hubVars /\ CallsTyped'
  BY <1>3 DEF CallDirect, HubNext
<1>4. ASSUME NEW w \in Writers, NEW a \in Agents, NEW t \in Tasks, NEW s \in Slices,
             ClaimTask(w, a, t, s)
      PROVE  [HubNext]_hubVars /\ CallsTyped'
  <2>1. ClaimClick(a, t, s) \in Clicks
    BY DEF AfterRead
  <2>2. UNCHANGED hubVars
    BY <1>4 DEF ClaimTask
  <2>3. \A v \in Writers : call'[v] # NoCall => call'[v].click \in Clicks
    BY <1>4, <2>1 DEF ClaimTask
  <2>4. QED
    BY <2>2, <2>3
<1>5. ASSUME NEW w \in Writers, NEW a \in Agents, NEW verb \in {"ACK", "ANSWER"},
             NEW e \in Epochs, Reply(w, verb, a, e)
      PROVE  [HubNext]_hubVars /\ CallsTyped'
  <2>1. Click(verb, a, OriginTask(e), e) \in Clicks
    BY <1>5, ReplyIsClick DEF Reply
  <2>2. UNCHANGED hubVars
    BY <1>5 DEF Reply
  <2>3. \A v \in Writers : call'[v] # NoCall => call'[v].click \in Clicks
    BY <1>5, <2>1 DEF Reply
  <2>4. QED
    BY <2>2, <2>3
<1>6. ASSUME NEW w \in Writers, CallAppends(w)
      PROVE  [HubNext]_hubVars /\ CallsTyped'
  <2>1. call[w].click \in Clicks /\ Submit(w, call[w].click)
    BY <1>6 DEF CallAppends
  <2>2. HubNext
    BY <2>1 DEF HubNext
  <2>3. CallsTyped'
    BY <1>6 DEF CallAppends
  <2>4. QED
    BY <2>2, <2>3
<1>7. ASSUME NEW t \in Tasks, GetState(t) PROVE [HubNext]_hubVars /\ CallsTyped'
  BY <1>7 DEF GetState
<1>8. CASE GetArtifacts \/ GetLog
  BY <1>8 DEF GetArtifacts, GetLog
<1>9. CASE UNCHANGED taskVars
  BY <1>9 DEF taskVars
<1>10. QED
  BY <1>1, <1>2, <1>3, <1>4, <1>5, <1>6, <1>7, <1>8, <1>9 DEF TasksNext

\* The tools use the hub as any client does, so what is shown of its log and its
\* views holds here too.
LEMMA TasksImplementHub == TasksSpec => HubSpec
<1>1. TasksInit => HubInit /\ TypeInv /\ CallsTyped
  <2>1. TasksInit => TypeInv
    BY WalAssumption
       DEF TasksInit, HubInit, Init, TypeInv, TypeOK, LocalsInUse, Epochs
  <2>2. TasksInit => CallsTyped
    BY DEF TasksInit, CallsTyped, NoCalls
  <2>3. QED
    BY <2>1, <2>2 DEF TasksInit
<1>2. TypeInv /\ CallsTyped /\ [TasksNext]_taskVars =>
        [HubNext]_hubVars /\ TypeInv' /\ CallsTyped'
  <2> SUFFICES ASSUME TypeInv, CallsTyped, [TasksNext]_taskVars
               PROVE  [HubNext]_hubVars /\ TypeInv' /\ CallsTyped'
    OBVIOUS
  <2>1. [HubNext]_hubVars /\ CallsTyped'
    BY TasksStep
  <2>2. QED
    BY <2>1, HubStepIsWalStep, TypeInvStep
<1>3. QED
  BY <1>1, <1>2, PTL DEF TasksSpec, HubSpec
-----------------------------------------------------------------------------
(* Replies *)

\* What follows a row of the log does so for ever.
LEMMA FollowsStays ==
  ASSUME HubInv, [Next]_walVars, NEW c, Follows(c)
  PROVE  Follows(c)'
<1>1. c.parent \in Epochs /\ store[c.parent] # NoClick
  BY DEF Follows, Stored
<1>2. store'[c.parent] = store[c.parent]
  BY <1>1, RowStays
<1>3. QED
  BY <1>1, <1>2 DEF Follows, Stored

\* Appends under way, and the log, follow through every step of the hub that
\* begins no append or one that follows.
LEMMA AppendsStep ==
  ASSUME HubInv, TypeInv', [Next]_walVars, AppendsFollow, RepliesFollowTask,
         \A w \in Writers, c \in Clicks :
           Begin(w, c) /\ c \in TaskReplies => Follows(c)
  PROVE  AppendsFollow' /\ RepliesFollowTask'
<1>1. AppendsFollow'
  <2> SUFFICES ASSUME NEW w \in Writers, (pc[w] # "idle")', (click[w] \in TaskReplies)'
               PROVE  (click[w].parent < epoch[w] /\ Follows(click[w]))'
    BY DEF AppendsFollow
  <2>1. CASE pc[w] # "idle" /\ click'[w] = click[w] /\ epoch'[w] = epoch[w]
    <3>1. click[w].parent < epoch[w] /\ Follows(click[w])
      BY <2>1 DEF AppendsFollow
    <3>2. ASSUME NEW c, c = click[w] PROVE Follows(c)'
      BY <3>1, <3>2, FollowsStays
    <3>3. QED
      BY <2>1, <3>1, <3>2 DEF Follows, Stored
  <2>2. ASSUME NEW c \in Clicks, Begin(w, c)
        PROVE  (click[w].parent < epoch[w] /\ Follows(click[w]))'
    <3>1. click'[w] = c /\ epoch'[w] = counter + 1
      BY <2>2 DEF Begin, HubInv, TypeInv, TypeOK
    <3>2. Follows(c)
      BY <2>2, <3>1
    <3>3. c.parent < counter + 1
      BY <2>2, <3>2 DEF Follows, Begin, HubInv, TypeInv, TypeOK, CounterCovers, Stored, Epochs
    <3>4. Follows(c)'
      BY <3>2, FollowsStays
    <3>5. QED
      BY <3>1, <3>3, <3>4 DEF Follows, Stored
  <2>3. \/ pc[w] # "idle" /\ click'[w] = click[w] /\ epoch'[w] = epoch[w]
        \/ \E c \in Clicks : Begin(w, c)
    BY DEF Next, walVars, Advance, Open, Recover, Stop, local, Begin, Put, PutFails,
           Leave, EnterListeners, LeaveListeners, ListenerThrows, Publish,
           HubInv, TypeInv, TypeOK
  <2>4. QED
    BY <2>1, <2>2, <2>3
<1>2. RepliesFollowTask'
  <2> SUFFICES ASSUME NEW e \in Epochs, (e \in Stored)', (store[e] \in TaskReplies)'
               PROVE  (store[e].parent < e /\ Follows(store[e]))'
    BY DEF RepliesFollowTask, TaskReplies, Stored
  <2>1. CASE e \in Stored
    <3>1. store'[e] = store[e]
      BY <2>1, RowStays DEF Stored
    <3>2. store[e].parent < e /\ Follows(store[e])
      BY <2>1, <3>1 DEF RepliesFollowTask, TaskReplies
    <3>3. ASSUME NEW c, c = store[e] PROVE Follows(c)'
      BY <3>2, <3>3, FollowsStays
    <3>4. QED
      BY <3>1, <3>2, <3>3 DEF Follows, Stored
  <2>2. CASE e \notin Stored
    <3>1. PICK w \in Writers : Put(w) /\ epoch[w] = e
      <4>1. store' # store
        BY <2>2 DEF Stored
      <4>2. PICK w \in Writers : Put(w)
        BY <4>1 DEF Next, walVars, Advance, Open, Recover, Stop, durable, Begin,
             PutFails, EnterListeners, LeaveListeners, ListenerThrows, Publish
      <4>3. epoch[w] = e
        BY <2>2, <4>2 DEF Put, Stored, HubInv, TypeInv, TypeOK
      <4>4. QED
        BY <4>2, <4>3
    <3>2. store'[e] = click[w] /\ pc[w] # "idle"
      BY <3>1 DEF Put, HubInv, TypeInv, TypeOK
    <3>3. click[w].parent < e /\ Follows(click[w])
      BY <3>1, <3>2 DEF AppendsFollow
    <3>4. ASSUME NEW c, c = click[w] PROVE Follows(c)'
      BY <3>3, <3>4, FollowsStays
    <3>5. QED
      BY <3>2, <3>3, <3>4 DEF Follows, Stored
  <2>3. QED
    BY <2>1, <2>2
<1>3. QED
  BY <1>1, <1>2
\* The appends that begin are those of the tools: a reply among them follows.
LEMMA BegunFollows ==
  ASSUME TypeInv, CallsFollow, [TasksNext]_taskVars,
         NEW w \in Writers, NEW c \in TaskReplies, Begin(w, c)
  PROVE  Follows(c)
<1> USE DEF TypeInv, TypeOK
<1>1. pc[w] = "idle" /\ pc'[w] = "put" /\ click'[w] = c
  BY DEF Begin
<1>2. CASE Housekeeping
  BY <1>1, <1>2 DEF Housekeeping, LogStep, Open, Recover, local, Put, PutFails, Leave,
     TakeTurn, EnterListeners, Publish, Project, walVars, ListenersDone, LeaveListeners,
     ProjectionThrows, ListenerThrows
<1>3. CASE TasksStop
  BY <1>1, <1>3 DEF TasksStop, HubStop, Stop
<1>4. ASSUME NEW v \in Writers, NEW d \in Offered, CallDirect(v, d)
      PROVE  Follows(c)
  <2>1. click'[w] = d
    BY <1>1, <1>4 DEF CallDirect, Submit, Begin
  <2>2. d \notin TaskReplies
    BY DirectIsNoReply, TasksAssumption DEF TaskReplies
  <2>3. QED
    BY <1>1, <2>1, <2>2
<1>5. ASSUME NEW v \in Writers, CallAppends(v) PROVE Follows(c)
  <2>1. v = w /\ c = call[w].click
    BY <1>1, <1>5 DEF CallAppends, Submit, Begin
  <2>2. QED
    BY <1>5, <2>1 DEF CallAppends, CallsFollow
<1>6. CASE UNCHANGED hubVars
  BY <1>1, <1>6 DEF hubVars, walVars
<1>7. QED
  BY <1>2, <1>3, <1>4, <1>5, <1>6
     DEF TasksNext, taskVars, ClaimTask, Reply, GetState, GetArtifacts, GetLog

\* The calls between read and append follow.
LEMMA CallsStep ==
  ASSUME HubInv, TypeInv', CallsTyped, CallsFollow, [Next]_walVars,
         [TasksNext]_taskVars
  PROVE  CallsFollow'
<1>1. ASSUME NEW w \in Writers, call'[w] = call[w], call[w] # NoCall,
             call[w].click \in TaskReplies
      PROVE  Follows(call[w].click)'
  <2>1. ASSUME NEW c, c = call[w].click PROVE Follows(c)'
    BY <1>1, <2>1, FollowsStays DEF CallsFollow
  <2>2. QED
    BY <1>1, <2>1 DEF Follows, Stored
<1>2. CASE UNCHANGED call
  BY <1>1, <1>2 DEF CallsFollow
<1>3. CASE TasksStop
  BY <1>3 DEF TasksStop, NoCalls, CallsFollow
<1>4. ASSUME NEW w \in Writers, NEW a \in Agents, NEW t \in Tasks, NEW s \in Slices,
             ClaimTask(w, a, t, s)
      PROVE  CallsFollow'
  <2>1. ClaimClick(a, t, s) \notin TaskReplies
    BY DEF TaskReplies, Replies, ClaimClick, Click
  <2>2. \A v \in Writers : call'[v] = call[v] \/ call'[v].click = ClaimClick(a, t, s)
    BY <1>4 DEF ClaimTask
  <2>3. QED
    BY <1>1, <2>1, <2>2 DEF CallsFollow
<1>5. ASSUME NEW w \in Writers, NEW a \in Agents, NEW verb \in {"ACK", "ANSWER"},
             NEW e \in Epochs, Reply(w, verb, a, e)
      PROVE  CallsFollow'
  <2> DEFINE c == Click(verb, a, OriginTask(e), e)
  <2>1. c \in TaskReplies => Follows(c)
    BY ReplyIsClick DEF TaskReplies, HubInv
  <2>2. store' = store
    BY <1>5 DEF Reply, hubVars, walVars
  <2>3. \A v \in Writers : call'[v] = call[v] \/ call'[v].click = c
    BY <1>5 DEF Reply
  <2> HIDE DEF c
  <2>4. QED
    BY <1>1, <2>1, <2>2, <2>3 DEF CallsFollow, Follows, Stored
<1>6. ASSUME NEW w \in Writers, CallAppends(w) PROVE CallsFollow'
  <2>1. \A v \in Writers : call'[v] = call[v] \/ call'[v] = NoCall
    BY <1>6 DEF CallAppends
  <2>2. QED
    BY <1>1, <2>1 DEF CallsFollow
<1>7. QED
  BY <1>2, <1>3, <1>4, <1>5, <1>6
     DEF TasksNext, taskVars, CallDirect, GetState, GetArtifacts, GetLog

\* A reply in the log that names a task belongs to the task of the clack its parent
\* names, through concurrent appends, failed writes, crashes and restarts.
THEOREM RepliesKeepTheTask ==
  ASSUME Recovers
  PROVE  TasksSpec => []RepliesFollowTask
<1>1. TasksInit => CallsTyped /\ TasksInv
  BY WalAssumption
     DEF TasksInit, HubInit, Init, CallsTyped, NoCalls, TasksInv, CallsFollow,
         AppendsFollow, RepliesFollowTask, Stored
<1>2. HubInv /\ HubInv' /\ CallsTyped /\ TasksInv /\ [TasksNext]_taskVars =>
        CallsTyped' /\ TasksInv'
  <2> SUFFICES ASSUME HubInv, HubInv', CallsTyped, TasksInv, [TasksNext]_taskVars
               PROVE  CallsTyped' /\ TasksInv'
    OBVIOUS
  <2>1. TypeInv /\ TypeInv'
    BY DEF HubInv
  <2>2. [Next]_walVars /\ CallsTyped'
    BY <2>1, TasksStep, HubStepIsWalStep
  <2>3. \A w \in Writers, c \in Clicks : Begin(w, c) /\ c \in TaskReplies => Follows(c)
    BY <2>1, BegunFollows DEF TasksInv
  <2>4. AppendsFollow' /\ RepliesFollowTask'
    BY <2>1, <2>2, <2>3, AppendsStep DEF TasksInv
  <2>5. CallsFollow'
    BY <2>1, <2>2, CallsStep DEF TasksInv
  <2>6. QED
    BY <2>2, <2>4, <2>5 DEF TasksInv
<1>3. TasksSpec => []HubInv
  BY TasksImplementHub, HubImplementsWal, HubInvInductive, PTL
<1>4. QED
  BY <1>1, <1>2, <1>3, PTL DEF TasksSpec, TasksInv

-----------------------------------------------------------------------------
(* Types *)

CallsTypeOK ==
  /\ call \in [Writers -> [click : Clicks, warn : Agents \cup {NoAgent}] \cup {NoCall}]
  /\ get \in Get

\* Whoever a claim is warned of is an agent, or nobody.
LEMMA WarningTyped ==
  ASSUME ViewsTypeOK, NEW a \in Agents, NEW t \in Tasks
  PROVE  Warning(a, t) \in Agents \cup {NoAgent}
  BY DEF Warning, ViewsTypeOK, TaskState

\* A step keeps the types of what the task tools hold.
LEMMA CallsTypeStep ==
  ASSUME TypeInv, ViewsTypeOK, CallsTyped, CallsTypeOK, [TasksNext]_taskVars
  PROVE  CallsTypeOK'
<1> USE TasksAssumption DEF CallsTypeOK
<1>1. NoCalls \in [Writers -> {NoCall}] /\ NoGet \in Get
  BY DEF NoCalls, NoGet, Get
<1>2. CASE UNCHANGED <<call, get>>
  BY <1>2
<1>3. CASE TasksStop
  BY <1>1, <1>3 DEF TasksStop
<1>4. ASSUME NEW w \in Writers, NEW a \in Agents, NEW t \in Tasks, NEW s \in Slices,
             ClaimTask(w, a, t, s)
      PROVE  CallsTypeOK'
  <2>1. ClaimClick(a, t, s) \in Clicks
    BY DEF AfterRead
  <2>2. QED
    BY <1>4, <2>1, WarningTyped DEF ClaimTask
<1>5. ASSUME NEW w \in Writers, NEW a \in Agents, NEW verb \in {"ACK", "ANSWER"},
             NEW e \in Epochs, Reply(w, verb, a, e)
      PROVE  CallsTypeOK'
  <2>1. Click(verb, a, OriginTask(e), e) \in Clicks
    BY <1>5, ReplyIsClick DEF Reply
  <2>2. QED
    BY <1>5, <2>1 DEF Reply
<1>6. ASSUME NEW w \in Writers, CallAppends(w) PROVE CallsTypeOK'
  BY <1>6 DEF CallAppends
<1>7. ASSUME NEW t \in Tasks, GetState(t) PROVE CallsTypeOK'
  BY <1>7 DEF GetState, Get, NoGet, ViewsTypeOK
<1>8. CASE GetArtifacts
  <2>1. {a.epoch : a \in {a \in views.artifact_index : a.task = get.task}} \subseteq Epochs
    BY DEF ViewsTypeOK
  <2>2. QED
    BY <1>8, <2>1 DEF GetArtifacts, Get
<1>9. CASE GetLog
  BY <1>1, <1>9 DEF GetLog
<1>10. QED
  BY <1>2, <1>3, <1>4, <1>5, <1>6, <1>7, <1>8, <1>9
     DEF TasksNext, taskVars, CallDirect

\* What holds of the hub's views holds while the tools use it.
LEMMA ToolsKeepTheViews ==
  ASSUME Recovers
  PROVE  TasksSpec => [](HubTypesInv /\ TurnsInv /\ ShownInv)
  BY TasksImplementHub, ShownInductive, PTL

\* The types of the task tools.
LEMMA CallsTypeInductive ==
  ASSUME Recovers
  PROVE  TasksSpec => [](CallsTyped /\ CallsTypeOK)
<1>1. TasksInit => CallsTyped /\ CallsTypeOK
  BY DEF TasksInit, CallsTyped, CallsTypeOK, NoCalls, NoGet, Get
<1>2. HubTypesInv /\ CallsTyped /\ CallsTypeOK /\ [TasksNext]_taskVars =>
        CallsTyped' /\ CallsTypeOK'
  BY CallsTypeStep, TasksStep DEF HubTypesInv, HubInv
<1>3. QED
  BY <1>1, <1>2, ToolsKeepTheViews, PTL DEF TasksSpec

\* What a tool holds between its read and its append, and what cc.get_task has
\* read, is well formed, like the tables of the hub.
THEOREM TasksTypeCorrect ==
  ASSUME Recovers
  PROVE  TasksSpec => []TasksTypeOK
<1>1. CallsTypeOK /\ HubTypeOK => TasksTypeOK
  BY DEF CallsTypeOK, TasksTypeOK
<1>2. QED
  BY <1>1, CallsTypeInductive, TasksImplementHub, HubTypeCorrect, PTL

-----------------------------------------------------------------------------
(* cc.get_task *)

\* The rows of a task, in the log at any place.
RowsOf(t) == {e \in Stored : store[e].task = t}

\* What the reader has read so far is the work of clacks of its task.
GetSound ==
  /\ get.pc # "idle" /\ get.state # NoRow => RowSound(get.task, get.state)
  /\ get.pc = "log" => get.artifacts \subseteq RowsOf(get.task)

\* A row that is the work of clacks of its task stays so.
LEMMA RowSoundStays ==
  ASSUME HubInv, [Next]_walVars, NEW t, NEW r, RowSound(t, r)
  PROVE  RowSound(t, r)'
  BY StoredGrows DEF RowSound

\* What cc.get_task has read stays in the log while it reads on.
LEMMA GetSoundStep ==
  ASSUME HubInv, ViewsSound, CallsTypeOK, GetSound, [Next]_walVars, [TasksNext]_taskVars
  PROVE  GetSound'
<1>0. \A e \in Stored : e \in Stored' /\ store'[e] = store[e]
  BY StoredGrows
<1>1. CASE UNCHANGED get
  <2>1. ASSUME NEW t, NEW r, t = get.task, r = get.state, RowSound(t, r)
        PROVE  RowSound(t, r)'
    BY <2>1, RowSoundStays
  <2>2. RowsOf(get.task) \subseteq RowsOf(get.task)'
    BY <1>0, <1>1 DEF RowsOf
  <2>3. QED
    BY <1>1, <2>1, <2>2 DEF GetSound, RowSound
<1>2. CASE TasksStop \/ GetLog
  BY <1>2 DEF TasksStop, GetLog, NoGet, GetSound
<1>3. ASSUME NEW t \in Tasks, GetState(t) PROVE GetSound'
  <2>1. get'.pc = "artifacts" /\ get'.task = t /\ get'.state = views.task_board[t]
    BY <1>3 DEF GetState, NoGet
  <2>2. views.task_board[t] # NoRow => RowSound(t, views.task_board[t])
    BY DEF ViewsSound, BoardSound
  <2>3. UNCHANGED store
    BY <1>3 DEF GetState, hubVars, walVars
  <2>4. QED
    BY <2>1, <2>2, <2>3 DEF GetSound, RowSound, Stored
<1>4. CASE GetArtifacts
  <2>1. /\ get.pc = "artifacts"
        /\ get'.pc = "log" /\ get'.task = get.task /\ get'.state = get.state
        /\ get'.artifacts =
             {a.epoch : a \in {a \in views.artifact_index : a.task = get.task}}
    BY <1>4 DEF GetArtifacts, CallsTypeOK, Get
  <2>2. get'.artifacts \subseteq RowsOf(get.task)
    BY <2>1 DEF ViewsSound, IndexSound, RowsOf
  <2>3. UNCHANGED store
    BY <1>4 DEF GetArtifacts, hubVars, walVars
  <2>4. QED
    BY <2>1, <2>2, <2>3 DEF GetSound, RowSound, RowsOf, Stored
<1>5. QED
  BY <1>1, <1>2, <1>3, <1>4
     DEF TasksNext, taskVars, CallDirect, ClaimTask, Reply, CallAppends

\* A row of a task is listed, or the windows leave it out.
LEMMA RowsAreAccounted ==
  ASSUME NEW t, NEW e \in RowsOf(t)
  PROVE  \/ e \in Recent(t)
         \/ e \in OfTask(t) /\ Cardinality({d \in OfTask(t) : d > e}) >= RecentCap
         \/ /\ e \in Stored /\ store[e].task = t
            /\ Cardinality({d \in Stored : d < e}) >= TaskRows
<1>1. /\ {d \in Stored : d < e} \in SUBSET Epochs
      /\ {d \in OfTask(t) : d > e} \in SUBSET Epochs
  BY DEF OfTask, RowsRead, Stored
<1>2. /\ Cardinality({d \in Stored : d < e}) \in Nat
      /\ Cardinality({d \in OfTask(t) : d > e}) \in Nat
  BY <1>1, EpochsFinite
<1>3. e \in Stored /\ store[e].task = t
  BY DEF RowsOf
<1>4. CASE Cardinality({d \in Stored : d < e}) >= TaskRows
  BY <1>3, <1>4
<1>5. CASE Cardinality({d \in Stored : d < e}) < TaskRows
  <2>1. e \in OfTask(t)
    BY <1>3, <1>5 DEF OfTask, RowsRead
  <2>2. QED
    BY <1>2, <2>1, TasksAssumption DEF Recent
<1>6. QED
  BY <1>2, <1>4, <1>5, TasksAssumption

\* A cc.get_task answer agrees with itself: what its state and its artifacts come
\* from is in the part it reads last, or its windows leave it out, although the log
\* and the views move between its three reads.
THEOREM SnapshotsAgree ==
  ASSUME Recovers
  PROVE  TasksSpec => SnapshotAgrees
<1>1. TasksInit => GetSound
  BY DEF TasksInit, NoGet, GetSound
<1>2. HubTypesInv /\ CallsTyped /\ CallsTypeOK /\ GetSound /\ [TasksNext]_taskVars => GetSound'
  BY GetSoundStep, TasksStep, HubStepIsWalStep DEF HubTypesInv, HubInv
<1>3. GetSound =>
        [GetLog =>
           LET t == get.task
               Accounted(e) ==
                 \/ e \in Recent(t)
                 \/ e \in OfTask(t) /\ Cardinality({d \in OfTask(t) : d > e}) >= RecentCap
                 \/ /\ e \in Stored /\ store[e].task = t
                    /\ Cardinality({d \in Stored : d < e}) >= TaskRows
           IN /\ \A e \in get.artifacts : Accounted(e)
              /\ get.state # NoRow =>
                   /\ Accounted(get.state.created) /\ Accounted(get.state.last)
                   /\ get.state.owner # NoAgent => \E e \in Stored :
                        /\ Accounted(e) /\ store[e].verb = "CLAIM"
                        /\ store[e].agent = get.state.owner]_taskVars
  <2> SUFFICES ASSUME GetSound, GetLog
      PROVE LET t == get.task
                Accounted(e) ==
                  \/ e \in Recent(t)
                  \/ e \in OfTask(t) /\ Cardinality({d \in OfTask(t) : d > e}) >= RecentCap
                  \/ /\ e \in Stored /\ store[e].task = t
                     /\ Cardinality({d \in Stored : d < e}) >= TaskRows
            IN /\ \A e \in get.artifacts : Accounted(e)
               /\ get.state # NoRow =>
                    /\ Accounted(get.state.created) /\ Accounted(get.state.last)
                    /\ get.state.owner # NoAgent => \E e \in Stored :
                         /\ Accounted(e) /\ store[e].verb = "CLAIM"
                         /\ store[e].agent = get.state.owner
    OBVIOUS
  <2> DEFINE t == get.task
             Accounted(e) ==
               \/ e \in Recent(t)
               \/ e \in OfTask(t) /\ Cardinality({d \in OfTask(t) : d > e}) >= RecentCap
               \/ /\ e \in Stored /\ store[e].task = t
                  /\ Cardinality({d \in Stored : d < e}) >= TaskRows
  <2>1. \A e \in RowsOf(t) : Accounted(e)
    BY RowsAreAccounted
  <2>2. get.pc = "log"
    BY DEF GetLog
  <2> HIDE DEF Accounted
  <2>3. \A e \in get.artifacts : Accounted(e)
    BY <2>1, <2>2 DEF GetSound
  <2>4. ASSUME get.state # NoRow
        PROVE  /\ Accounted(get.state.created) /\ Accounted(get.state.last)
               /\ get.state.owner # NoAgent => \E e \in Stored :
                    /\ Accounted(e) /\ store[e].verb = "CLAIM"
                    /\ store[e].agent = get.state.owner
    <3>1. RowSound(t, get.state)
      BY <2>2, <2>4 DEF GetSound
    <3>2. get.state.created \in RowsOf(t) /\ get.state.last \in RowsOf(t)
      BY <3>1 DEF RowSound, RowsOf
    <3>3. get.state.owner # NoAgent => \E e \in RowsOf(t) :
             store[e].verb = "CLAIM" /\ store[e].agent = get.state.owner
      BY <3>1 DEF RowSound, RowsOf
    <3>4. RowsOf(t) \subseteq Stored
      BY DEF RowsOf
    <3>5. QED
      BY <2>1, <3>2, <3>3, <3>4
  <2>5. QED
    BY <2>3, <2>4 DEF Accounted
<1>4. QED
  BY <1>1, <1>2, <1>3, ToolsKeepTheViews, CallsTypeInductive, PTL
     DEF TasksSpec, SnapshotAgrees

-----------------------------------------------------------------------------
(* cc.claim_task *)

\* A claim is warned of an agent that did claim the task, and it is warned when
\* others have claimed it and the task has known nothing but claims and reports of
\* progress, all acknowledged and in the views.  An agent without an id, which
\* validate_click lets through, owns nothing that the board could show.
THEOREM ClaimsAreWarned ==
  ASSUME Recovers, NoAgent \notin Agents
  PROVE  TasksSpec => ClaimWarnings
<1>1. ASSUME HubTypesInv, ShownInv, CallsTypeOK,
             NEW w \in Writers, NEW a \in Agents, NEW t \in Tasks, NEW s \in Slices,
             ClaimTask(w, a, t, s)
      PROVE  LET work == {e \in Stored : store[e].task = t /\ store[e].verb \in BoardVerbs}
                 claims == {e \in work : store[e].verb = "CLAIM"}
                 warn == call'[w].warn
             IN /\ warn # NoAgent => warn # a /\ \E e \in claims : store[e].agent = warn
                /\ /\ claims # {} /\ \A e \in claims : store[e].agent # a
                   /\ \A e \in work : /\ store[e].verb \in {"CLAIM", "PROGRESS"}
                                      /\ Clack(e, store[e]) \in acked /\ e \notin lost
                   => warn # NoAgent
  <2> DEFINE work == {e \in Stored : store[e].task = t /\ store[e].verb \in BoardVerbs}
             claims == {e \in work : store[e].verb = "CLAIM"}
             row == views.task_board[t]
             warn == call'[w].warn
  <2>1. warn = Warning(a, t)
    BY <1>1 DEF ClaimTask, CallsTypeOK
  <2>2. row # NoRow => RowSound(t, row) /\ row \in TaskState
    BY <1>1 DEF HubTypesInv, ViewsSound, BoardSound, ViewsTypeOK
  <2>3. row # NoRow /\ row.owner # NoAgent => \E e \in claims : store[e].agent = row.owner
    BY <2>2 DEF RowSound, BoardVerbs
  <2>4. warn # NoAgent => warn # a /\ \E e \in claims : store[e].agent = warn
    BY <2>1, <2>3 DEF Warning
  <2>5. ASSUME claims # {}, \A e \in claims : store[e].agent # a,
               \A e \in work : /\ store[e].verb \in {"CLAIM", "PROGRESS"}
                              /\ Clack(e, store[e]) \in acked /\ e \notin lost
        PROVE  warn # NoAgent
    <3>1. PICK e \in claims : TRUE
      BY <2>5
    <3>2. t # NoTask /\ store[e].task = t /\ store[e].verb = "CLAIM"
      BY <3>1, HubAssumption
    <3>3. InTable(views, store, order, 2, e, store[e])
      <4>1. Clack(e, store[e]) \in acked /\ e \notin lost
        BY <2>5, <3>1
      <4>2. Shows(views, store, order, 6, e, store[e])
        BY <1>1, <4>1 DEF ShownInv, Clack
      <4>3. QED
        BY <4>2 DEF Shows
    <3>4. row # NoRow /\ row.owner # NoAgent
      <4>1. BoardRowShows(row, store, order, e, store[e])
        BY <3>2, <3>3 DEF InTable, BoardVerbs
      <4>2. \A d \in Epochs : store[d] # NoClick => store[d].agent \in Agents
        BY <1>1, HubAssumption DEF HubTypesInv, HubInv, TypeInv, TypeOK
      <4>3. QED
        BY <3>2, <4>1, <4>2 DEF BoardRowShows, ClaimedBy
    <3>5. row.owner # a
      BY <2>3, <2>5, <3>4
    <3>6. row.last \in work /\ row.status \in {"claimed", "in_progress"}
      <4>1. RowSound(t, row) /\ row.verb \in BoardVerbs
        BY <2>2, <3>4 DEF TaskState
      <4>2. row.last \in work /\ row.verb = store[row.last].verb
        BY <4>1 DEF RowSound
      <4>3. row.verb \in {"CLAIM", "PROGRESS"} /\ row.status = StatusAfter(row.verb)
        BY <2>5, <4>1, <4>2 DEF RowSound
      <4>4. QED
        BY <4>2, <4>3 DEF StatusAfter
    <3>7. QED
      BY <2>1, <3>4, <3>5, <3>6 DEF Warning
  <2>6. QED
    BY <2>4, <2>5
<1>2. HubTypesInv /\ ShownInv /\ CallsTypeOK =>
        [\A w \in Writers, a \in Agents, t \in Tasks, s \in Slices :
           ClaimTask(w, a, t, s) =>
           LET work == {e \in Stored : store[e].task = t /\ store[e].verb \in BoardVerbs}
               claims == {e \in work : store[e].verb = "CLAIM"}
               warn == call'[w].warn
           IN /\ warn # NoAgent => warn # a /\ \E e \in claims : store[e].agent = warn
              /\ /\ claims # {} /\ \A e \in claims : store[e].agent # a
                 /\ \A e \in work : /\ store[e].verb \in {"CLAIM", "PROGRESS"}
                                    /\ Clack(e, store[e]) \in acked /\ e \notin lost
                 => warn # NoAgent]_taskVars
  BY <1>1
<1>3. QED
  BY <1>2, ToolsKeepTheViews, CallsTypeInductive, PTL DEF TasksSpec, ClaimWarnings
=============================================================================

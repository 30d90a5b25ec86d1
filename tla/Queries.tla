------------------------------ MODULE Queries ------------------------------
(***************************************************************************)
(* The read side: Wal::read_range and read_one, the queries of             *)
(* materializer.hpp and the tools of mcp_server.hpp that ask them.  The    *)
(* queries are operators; the state they are asked in is a log whose rows  *)
(* are put in any order and projected in any other, as overtaking appends  *)
(* do, some of them never.  The six projections of a clack are one step:   *)
(* every query reads one table.  How they fail half way is the matter of   *)
(* Hub; no projection throws here and no put into the views is lost.       *)
(*                                                                         *)
(* A click has, besides the fields of Views, its subject, the slice a      *)
(* claim names in its payload, and odd: the content of an artifact that is *)
(* no string.                                                              *)
(***************************************************************************)
EXTENDS Views, Codec

CONSTANTS Clicks, FirstEpoch, MaxEpoch,
          WindowFactor, WindowMin,  \* cc.query_timeline reads this many rows
          TaskRows, RecentCap       \* cc.get_task reads rows, shows the last ones

\* The rows of task_board and agent_presence.
TaskState == [status : {StatusAfter(v) : v \in BoardVerbs}, owner : Agents \cup {NoAgent},
              created : Nat, last : Nat, verb : BoardVerbs]
Presence == [last : Nat, profile : Nat]

\* A verb may come under any name.
ClickType ==
  [verb : Verbs \cup {c.verb : c \in Clicks}, agent : Seq(Byte), task : Seq(Byte), subject : Seq(Byte),
   parent : 0..(Power[Width] - 1), ref : Nat, slice : Seq(Byte),
   hitl : BOOLEAN, odd : BOOLEAN, mistyped : {FALSE}]

ASSUME QueriesAssumption ==
  /\ \A c \in Clicks : c \in ClickType
  /\ \A c \in Clicks : ValidClick(c) => c.agent \in Agents /\ c.task \in Tasks \cup {NoTask}
  /\ \A id \in Agents \cup Tasks : id \in Seq(IdBytes)
  /\ IsFiniteSet(Tasks)
  /\ NoTask = <<>> /\ NoTask \notin Tasks /\ NoRow \notin TaskState \cup Presence
  /\ MaxEpoch < Power[Width]
  /\ {FirstEpoch, MaxEpoch, WindowFactor, WindowMin, TaskRows, RecentCap}
       \subseteq Nat \ {0}

VARIABLES log,   \* the table clacks: frames by epoch
          views, \* the tables of the materializer
          order  \* history: the turns the clacks had with the listeners,
                 \* <<d, e>> when d's was no later than e's

queryVars == <<log, views, order>>

QueriesInit == log = <<>> /\ views = NoViews /\ order = {}

Logged == DOMAIN log

\* The clack of an epoch, and the click in it.
At(e) == Deserialize(log[e])
ClickAt(e) == At(e).click

\* The epochs whose clacks have been projected.
Seen == {e \in Logged : <<e, e>> \in order}

\* Materializer::on_clack: each projection has a table of its own.
OnClack(v, e, c) ==
  [agent_log      |-> ProjectAgentLog(v.agent_log, e, c),
   task_board     |-> ProjectTaskBoard(v.task_board, e, c),
   thread_tree    |-> ProjectThreadTree(v.thread_tree, e, c),
   agent_presence |-> ProjectPresence(v.agent_presence, e, c),
   artifact_index |-> ProjectArtifactIndex(v.artifact_index, e, c),
   hitl_queue     |-> ProjectHitlQueue(v.hitl_queue, e, c)]

\* A click as append() takes it over.
Named(c) == [c EXCEPT !.verb = StrToVerb(@)]

\* append() puts the row of an epoch it was given, whatever other rows are there
\* by then; nothing checks the epochs the click refers to.
Write(e, c) ==
  /\ e \in (FirstEpoch..MaxEpoch) \ Logged
  /\ ValidClick(c)
  /\ log' = [d \in Logged \cup {e} |-> IF d = e THEN Serialize(e, Named(c)) ELSE log[d]]
  /\ UNCHANGED <<views, order>>

\* The turn of a clack with the listeners.
Project(e) ==
  /\ e \in Logged \ Seen
  /\ views' = OnClack(views, e, ClickAt(e))
  /\ order' = order \cup {<<d, e>> : d \in Seen \cup {e}}
  /\ UNCHANGED log

QueriesNext ==
  \E e \in FirstEpoch..MaxEpoch : Project(e) \/ \E c \in Clicks : Write(e, c)

QueriesSpec == QueriesInit /\ [][QueriesNext]_queryVars

-----------------------------------------------------------------------------
(* Reads of the log *)

\* The clacks of scanned rows; a row that does not decode is passed over.
Read(rows) ==
  LET fitting == Kept(rows, {r \in Range(rows) : Fits(r.frame)})
  IN [i \in DOMAIN fitting |-> Deserialize(fitting[i].frame)]

WalRows == {[key |-> EpochKey(e), frame |-> log[e]] : e \in Logged}

ReadRange(since, limit) ==
  FirstOf(limit, Read(Kept(PrefixScan(WalRows, <<>>),
                           {r \in WalRows : ~Precedes(r.key, EpochKey(since))})))

\* What passes the filters of cc.query_timeline: an empty one is none.
Matching(clacks, verbs, task, agent) ==
  {c \in clacks : /\ verbs # {} => c.click.verb \in verbs
                  /\ task # <<>> => c.click.task = task
                  /\ agent # <<>> => c.click.agent = agent}

Window(limit) ==
  IF limit * WindowFactor < WindowMin THEN WindowMin ELSE limit * WindowFactor

\* cc.query_timeline
QueryTimeline(since, limit, verbs, task, agent) ==
  LET read == ReadRange(since, Window(limit))
  IN FirstOf(limit, Kept(read, Matching(Range(read), verbs, task, agent)))

-----------------------------------------------------------------------------
(* Queries of the materializer *)

\* The rows of agent_log whose keys have a prefix.
AgentRows(prefix) ==
  PrefixScan({[key |-> Slashed(r[1], EpochKey(r[2])), frame |-> log[r[2]]] :
                r \in views.agent_log}, prefix)

\* Faulty variant: the prefix without its slash and epoch.
QueryAgentLogUnslashed(agent, since, limit) == FirstOf(limit, Read(AgentRows(agent)))

\* query_agent_log and its tool: the start epoch is part of the prefix.
QueryAgentLog(agent, since, limit) ==
  FirstOf(limit, Read(AgentRows(Slashed(agent, EpochKey(since)))))

\* query_task: the row, or NoRow for not_found.
QueryTask(task) == views.task_board[task]

\* query_tasks, for the statuses that pass: task ids in key order.
TasksWith(statuses, limit) ==
  FirstOf(limit, PrefixScan(
    {[key |-> t, row |-> views.task_board[t]] :
       t \in {t \in Tasks : /\ views.task_board[t] # NoRow
                            /\ views.task_board[t].status \in statuses}}, <<>>))

\* cc.query_tasks without a filter.  With one it compares each status with a
\* string_view over a string already freed (mcp_server.hpp:223-225).
QueryAllTasks(limit) == TasksWith({StatusAfter(v) : v \in BoardVerbs}, limit)

\* std::stoi of the bytes between two slashes: 1, or an exception.
StoiThrows(text) == text = <<>> \/ Head(text) # One

DepthText(key) ==
  LET first == SelectInSeq(key, LAMBDA b : b = Slash)
      rest == SubSeq(key, first + 1, Len(key))
  IN SubSeq(rest, 1, SelectInSeq(rest, LAMBDA b : b = Slash) - 1)

\* A faulty variant: the depth after the epoch.
ThreadKeyDepthLast(root, e) == Slashed(Slashed(EpochKey(root), EpochKey(e)), <<One>>)

ThreadKey(root, e) == Slashed(Slashed(EpochKey(root), <<One>>), EpochKey(e))

ThreadRows(root) ==
  PrefixScan({[key |-> ThreadKey(r[1], r[3]), frame |-> log[r[3]]] :
                r \in views.thread_tree}, EpochKey(root) \o <<Slash>>)

\* query_thread throws as soon as one depth does not parse.
QueryThreadThrows(root) ==
  LET rows == ThreadRows(root) IN \E i \in DOMAIN rows : StoiThrows(DepthText(rows[i].key))

QueryThread(root) == Read(ThreadRows(root))

QueryPresence ==
  PrefixScan({[key |-> a, row |-> views.agent_presence[a]] :
                a \in {a \in Agents : views.agent_presence[a] # NoRow}}, <<>>)

\* Faulty variant: the prefix without its slash.
QueryArtifactsUnslashed(task) ==
  PrefixScan({[key |-> Slashed(a.task, EpochKey(a.epoch)), entry |-> a] :
                a \in views.artifact_index}, task)

QueryArtifacts(task) ==
  PrefixScan({[key |-> Slashed(a.task, EpochKey(a.epoch)), entry |-> a] :
                a \in views.artifact_index}, Slashed(task, <<>>))

\* query_artifacts throws on a content that is no string, which the projection
\* copied as it was; cc.get_task with it.
QueryArtifactsThrows(task) ==
  LET rows == QueryArtifacts(task)
  IN \E i \in DOMAIN rows : log[rows[i].entry.epoch].click.odd

QueryHitlQueue ==
  Read(PrefixScan({[key |-> EpochKey(e), frame |-> log[e]] : e \in views.hitl_queue},
                  <<>>))

-----------------------------------------------------------------------------
(* cc.get_task *)

TaskClacks(task) ==
  LET read == ReadRange(0, TaskRows) IN Kept(read, {c \in Range(read) : c.click.task = task})

Recent(task) == LastOf(RecentCap, TaskClacks(task))

\* Faulty variant: yielding does not clear.
TrackYieldIgnored(slices, c) ==
  IF c.click.verb = "CLAIM"
    THEN {s \in slices : s.key # Slashed(c.click.agent, c.click.slice)}
           \cup {[key |-> Slashed(c.click.agent, c.click.slice), epoch |-> c.epoch]}
  ELSE IF c.click.verb = "COMPLETE"
    THEN {s \in slices : ~IsPrefix(Slashed(c.click.agent, <<>>), s.key)}
  ELSE slices

\* One turn of the loop over the clacks of the task.
Track(slices, c) ==
  IF c.click.verb = "CLAIM"
    THEN {s \in slices : s.key # Slashed(c.click.agent, c.click.slice)}
           \cup {[key |-> Slashed(c.click.agent, c.click.slice), epoch |-> c.epoch]}
  ELSE IF c.click.verb \in {"COMPLETE", "YIELD"}
    THEN {s \in slices : ~IsPrefix(Slashed(c.click.agent, <<>>), s.key)}
  ELSE slices

\* The loop.
ActiveSlices(clacks) ==
  LET after[i \in 0..Len(clacks)] == IF i = 0 THEN {} ELSE Track(after[i - 1], clacks[i])
  IN after[Len(clacks)]

\* The claimants, their keys split at the first slash.
ActiveClaimants(task) ==
  {LET i == SelectInSeq(s.key, LAMBDA b : b = Slash) IN
     [agent |-> SubSeq(s.key, 1, i - 1), slice |-> SubSeq(s.key, i + 1, Len(s.key)),
      epoch |-> s.epoch] : s \in ActiveSlices(TaskClacks(task))}

-----------------------------------------------------------------------------
(* Properties: the answers against what the log says *)

\* The clacks as they were appended, and those that are in the views.
Clacks == {At(e) : e \in Logged}
Shown == {c \in Clacks : c.epoch \in Seen}

SlashFree(s) == Slash \notin Range(s)

\* The clacks of S in the order of their epochs.
Chronicle(S) ==
  [i \in 1..Cardinality(S) |->
     CHOOSE c \in S : Cardinality({d \in S : d.epoch < c.epoch}) = i - 1]

\* d's turn with the listeners was no later than c's.
NoLater(d, c) == <<d.epoch, c.epoch>> \in order

\* Of the clacks of S, the one projected last, and first.
Latest(S) == CHOOSE c \in S : \A d \in S : NoLater(d, c)
Earliest(S) == CHOOSE c \in S : \A d \in S : NoLater(c, d)

\* Every row of the log decodes to what was appended under its key: whatever
\* validation admits fits the header's length fields (codec.hpp:136-139), and
\* the bytes of the keys order the rows as their epochs do and give them back
\* (codec.hpp:36-53), so that recover() finds the last one.
RowsRoundTrip ==
  \A e \in Logged :
    /\ Fits(log[e])
    /\ \E c \in Clicks : At(e) = [epoch |-> e, click |-> Named(c)]
    /\ KeyToEpoch(EpochKey(e)) = e
    /\ \A f \in Logged : Precedes(EpochKey(e), EpochKey(f)) <=> e < f

\* cc.query_timeline: the first clacks that match, in order; it may stop early
\* only when the window it filters is full.
TimelineExact ==
  \A since \in {0} \cup Logged, limit \in 1..MaxEpoch, verbs \in {{}, {"CLAIM"}},
     task \in {<<>>} \cup Tasks, agent \in {<<>>} \cup Agents :
    LET matching == Chronicle(Matching({c \in Clacks : c.epoch >= since}, verbs, task, agent))
        answer == QueryTimeline(since, limit, verbs, task, agent)
        rows == Cardinality({e \in Logged : e >= since})
    IN /\ IsPrefix(answer, matching)
       /\ rows <= Window(limit) => answer = FirstOf(limit, matching)

\* A task's row is a function of the log and of the turns its clacks had with the
\* listeners: the owner claimed in the last of the claims' turns, the row's epochs
\* had the first and the last turn, and the status is what the last board verb
\* leaves.  What an announcement leaves is not said: the code resets the status
\* and its comment says that it does not (materializer.hpp:323-347).
\* cc.query_tasks lists the rows, each once, in the order of the ids.
TaskFromLog ==
  LET board(t) == {c \in Shown : c.click.task = t /\ c.click.verb \in BoardVerbs}
      claims(t) == {c \in Shown : c.click.task = t /\ c.click.verb = "CLAIM"}
      answer == QueryAllTasks(Cardinality(Tasks))
  IN /\ \A t \in Tasks :
          IF board(t) = {} THEN QueryTask(t) = NoRow
          ELSE LET row == QueryTask(t)  newest == Latest(board(t)) IN
               /\ row.last = newest.epoch
               /\ row.created = Earliest(board(t)).epoch
               /\ newest.click.verb # "ANNOUNCE" =>
                    row.status = StatusAfter(newest.click.verb)
               /\ row.owner = IF claims(t) = {} THEN NoAgent
                              ELSE Latest(claims(t)).click.agent
     /\ {answer[i].key : i \in DOMAIN answer} = {t \in Tasks : board(t) # {}}
     /\ \A i \in DOMAIN answer :
          /\ answer[i].row = QueryTask(answer[i].key)
          /\ i > 1 => Precedes(answer[i - 1].key, answer[i].key)

\* Presence: an agent is listed once it has announced itself or sent a
\* heartbeat, with the sign of life and the announcement projected last.
PresenceFromLog ==
  LET signs(a) == {c \in Shown : c.click.agent = a
                                      /\ c.click.verb \in {"ANNOUNCE", "HEARTBEAT"}}
      profiles(a) == {c \in signs(a) : c.click.verb = "ANNOUNCE"}
  IN /\ {r.key : r \in Range(QueryPresence)} = {a \in Agents : signs(a) # {}}
     /\ \A r \in Range(QueryPresence) :
          /\ r.row.last = Latest(signs(r.key)).epoch
          /\ r.row.profile = IF profiles(r.key) = {} THEN 0
                             ELSE Latest(profiles(r.key)).epoch

\* What one reads of tasks and agents.
BoardsFromLog == TaskFromLog /\ PresenceFromLog

\* The replies to a root, in order.
Replies(root) == Chronicle({c \in Shown : c.click.parent = root})

\* cc.query_thread lists the replies to an epoch, with a row or without, in order,
\* each at depth 1, if the root's key holds no byte '/' (materializer.hpp:229-236).
ThreadFromLog ==
  \A root \in 1..MaxEpoch : SlashFree(EpochKey(root)) =>
    ~QueryThreadThrows(root) /\ QueryThread(root) = Replies(root)

\* The verdicts on a clack that were projected after it.
VerdictsSince(e) ==
  {c \in Shown : c.click.verb \in Verdicts /\ c.click.ref = e
                      /\ <<e, c.epoch>> \in order}

\* cc.query_artifacts lists a task's artifacts in order, with the last verdict on
\* each that was projected after it; what it lists besides belongs to a task whose
\* id goes on with a slash.  One content that is no string among them, and it throws
\* instead (materializer.hpp:281).
ArtifactsFromLog ==
  LET review(e) == IF VerdictsSince(e) = {} THEN "pending"
                   ELSE IF Latest(VerdictsSince(e)).click.verb = "APPROVE" THEN "approved"
                   ELSE "rejected"
  IN \A t \in Tasks : ~QueryArtifactsThrows(t) =>
       LET rows == QueryArtifacts(t)
           own == Kept(rows, {r \in Range(rows) : r.entry.task = t})
       IN /\ [i \in DOMAIN own |-> own[i].entry.epoch] =
               LET made == Chronicle({c \in Shown :
                                        c.click.task = t /\ c.click.verb = "ARTIFACT"})
               IN [i \in DOMAIN made |-> made[i].epoch]
          /\ \A i \in DOMAIN rows :
               /\ rows[i].entry.review = review(rows[i].entry.epoch)
               /\ IsPrefix(Slashed(t, <<>>), Slashed(rows[i].entry.task, <<>>))

\* The HITL queue is, in order, what was flagged and had no verdict projected
\* since; a verdict projected before its item leaves the item for ever.
HitlFromLog ==
  QueryHitlQueue =
    Chronicle({c \in Shown : c.click.hitl /\ VerdictsSince(c.epoch) = {}})

\* What one reads of reviews.
ReviewsFromLog == ArtifactsFromLog /\ HitlFromLog

\* cc.get_task names as claimants exactly the agents, by slice, that claimed and
\* have not completed or yielded since, as long as nobody's id holds a '/'; and
\* of a log within its window it shows the newest clacks of the task.
GetTaskFromLog ==
  \A t \in Tasks :
    Cardinality(Logged) <= TaskRows =>
      /\ Recent(t) = LastOf(RecentCap, Chronicle({c \in Clacks : c.click.task = t}))
      /\ (\A c \in Clacks : SlashFree(c.click.agent)) =>
           ActiveClaimants(t) =
             {[agent |-> c.click.agent, slice |-> c.click.slice, epoch |-> c.epoch] :
                c \in {c \in Clacks :
                         /\ c.click.task = t /\ c.click.verb = "CLAIM"
                         /\ \A d \in Clacks :
                              d.click.task = t /\ d.click.agent = c.click.agent /\ d.epoch > c.epoch =>
                                /\ d.click.verb \notin {"COMPLETE", "YIELD"}
                                /\ d.click.verb = "CLAIM" => d.click.slice # c.click.slice}}

\* cc.query_agent_log answers, in order and each once, clacks that have been
\* projected, of the agent that was asked for and from the start epoch on, also
\* when ids go on with one another or with a slash.  That it answers all of them
\* (tool_catalog.hpp:117,120) is not so: its prefix ends in the start epoch
\* (materializer.hpp:147).
AgentLogOwn ==
  \A a \in Agents, since \in {0} \cup Logged :
    LET answer == QueryAgentLog(a, since, MaxEpoch)
    IN /\ Range(answer) \subseteq {c \in Shown : c.click.agent = a /\ c.epoch >= since}
       /\ answer = Chronicle(Range(answer))
=============================================================================

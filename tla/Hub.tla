-------------------------------- MODULE Hub --------------------------------
(***************************************************************************)
(* The hub as AppContext::create wires it: the log of Wal with the         *)
(* materializer as its listener.  The six projections of a clack are six   *)
(* puts into the views store, which has its own files: a crash, a throw or *)
(* a failed put can fall between any two of them, and nothing replays the  *)
(* log into the views at the next start.                                   *)
(*                                                                         *)
(* Clicks are the records of Views.  In Wal's terms the listeners throw    *)
(* for the clicks whose payload is mistyped.                               *)
(***************************************************************************)
EXTENDS Wal, Views

CONSTANT MaxLost  \* bound: clacks with a failed put into the views store

TaskState == [status : {"unclaimed", "claimed", "in_progress", "completed",
                        "errored", "halted"},
              owner : Agents \cup {NoAgent},
              created : Epochs, last : Epochs, verb : BoardVerbs]

Presence == [last : Epochs, profile : 0..MaxEpoch]

ASSUME HubAssumption ==
  /\ \A c \in Clicks : /\ c.agent \in Agents /\ c.task \in Tasks \cup {NoTask}
                       /\ c.ref \in Nat /\ c.parent \in Nat
  /\ Throwing = {c \in Clicks : c.mistyped /\ TypedReader(c) # "none"}
  /\ NoRow \notin TaskState \cup Presence /\ NoTask \notin Tasks
  /\ MaxLost \in Nat

VARIABLES views,  \* the tables of the views store, durable
          done,   \* how many projections of the lock holder's clack have run
          lost,   \* epochs with a put into the views store that failed
          order,  \* history: the turns the clacks had with the listeners,
                  \* <<d, e>> when d's was no later than e's
          sawIn   \* history: where its sender could have learnt the epoch that
                  \* the clack refers to, when it was sent

history == <<order, sawIn>>
hubVars == <<walVars, views, done, lost, history>>

\* What each table holds.
ViewsTypeOK ==
  /\ views.agent_log \subseteq Agents \X Epochs
  /\ views.task_board \in [Tasks -> TaskState \cup {NoRow}]
  /\ views.thread_tree \subseteq Nat \X {1} \X Epochs
  /\ views.agent_presence \in [Agents -> Presence \cup {NoRow}]
  /\ views.artifact_index \subseteq
       [task : Tasks \cup {NoTask}, epoch : Epochs,
        review : {"pending", "approved", "rejected"}]
  /\ views.hitl_queue \subseteq Epochs

HubTypeOK ==
  /\ TypeOK
  /\ done \in 0..Len(Tables)
  /\ lost \subseteq Stored
  /\ order \subseteq Epochs \X Epochs
  /\ sawIn \in [Epochs -> {"views", "elsewhere"}]
  /\ ViewsTypeOK

HubInit ==
  /\ Init /\ views = NoViews /\ done = 0 /\ lost = {}
  /\ order = {} /\ sawIn = [e \in Epochs |-> "elsewhere"]

\* The epochs a client can learn from the views (cc.query_hitl_queue,
\* cc.get_task).
Shown == views.hitl_queue \cup {a.epoch : a \in views.artifact_index}

\* It may take one from the log (cc.query_timeline, cc.wait), or make one up.
SeenIn(e) == IF e \in Shown \cup {0} THEN "views" ELSE "elsewhere"

\* A client sends a click.  Nothing checks the epochs it names: they may be
\* without a row, or not yet allocated.
Submit(w, c) ==
  /\ Begin(w, c)
  /\ sawIn' = [sawIn EXCEPT ![counter + 1] = SeenIn(c.ref)]
  /\ UNCHANGED <<views, done, lost, order>>

\* The listeners' mutex is taken: the clack's turn.
TakeTurn(w) ==
  /\ EnterListeners(w)
  /\ LET e == epoch[w] IN
       order' = order \cup {<<d, e>> : d \in {d \in Epochs : d = e \/ <<d, d>> \in order}}
  /\ UNCHANGED <<views, done, lost, sawIn>>

\* The next projection of the clack whose listeners run; the code ignores
\* whether its put succeeded.
Project(w) ==
  /\ pc[w] = "listen"
  /\ done < Len(Tables)
  /\ LET table == Tables[done + 1] IN
       /\ ~ThrowsIn(table, click[w])
       /\ \/ /\ views' = Projected(views, table, epoch[w], click[w])
             /\ UNCHANGED lost
          \/ /\ Cardinality(lost \cup {epoch[w]}) <= MaxLost
             /\ lost' = lost \cup {epoch[w]}
             /\ UNCHANGED views
  /\ done' = done + 1
  /\ UNCHANGED <<walVars, history>>

\* The materializer is through; the broadcast, the rest of the listener, is
\* the append to delivered.
ListenersDone(w) ==
  /\ done = Len(Tables)
  /\ LeaveListeners(w)
  /\ done' = 0
  /\ UNCHANGED <<views, lost, history>>

\* A projection throws: the tables after it and the broadcast are skipped.
ProjectionThrows(w) ==
  /\ pc[w] = "listen"
  /\ done < Len(Tables)
  /\ ThrowsIn(Tables[done + 1], click[w])
  /\ ListenerThrows(w)
  /\ done' = 0
  /\ UNCHANGED <<views, lost, history>>

\* The other steps of the log.
LogStep ==
  /\ \/ Open \/ Recover
     \/ \E w \in Writers : Put(w) \/ PutFails(w) \/ Publish(w)
  /\ UNCHANGED <<views, done, lost, history>>

HubStop == Stop /\ done' = 0 /\ UNCHANGED <<views, lost, history>>

HubNext ==
  \/ LogStep \/ HubStop
  \/ \E w \in Writers :
       \/ \E c \in Clicks : Submit(w, c)
       \/ TakeTurn(w) \/ Project(w) \/ ListenersDone(w) \/ ProjectionThrows(w)

HubSpec == HubInit /\ [][HubNext]_hubVars

-----------------------------------------------------------------------------
(* Properties *)

Verdict(c, e) == c.verb \in Verdicts /\ c.ref = e

\* e had its turn with the listeners, and d's was no earlier.
NotBefore(d, e) == <<e, d>> \in order

\* Read your writes ("no eventual consistency", README.md:26): once append() has
\* returned, and if no put into the views store failed for it, every table it
\* belongs to shows the clack, or the work of a clack whose turn with the
\* listeners came later (that one may have the smaller epoch), whatever other
\* appends, crashes and throwing listeners did.  The agent's log, the thread and
\* the index show the clack itself; the task's row, its owner, the agent's
\* presence and its profile may be a later one's, and the item may be resolved.
AckedIsProjected ==
  \A a \in {a \in acked : a.epoch \notin lost} :
    LET c == a.click  e == a.epoch IN
    /\ <<c.agent, e>> \in views.agent_log
    /\ c.parent # 0 => <<c.parent, 1, e>> \in views.thread_tree
    /\ c.verb = "ARTIFACT" =>
         \E r \in views.artifact_index : r.task = c.task /\ r.epoch = e
    /\ c.task # NoTask /\ c.verb \in BoardVerbs =>
         LET row == views.task_board[c.task] IN
           /\ row # NoRow /\ NotBefore(row.last, e)
           /\ c.verb = "CLAIM" => \E d \in Stored :
                /\ NotBefore(d, e) /\ store[d].agent = row.owner
                /\ store[d].verb = "CLAIM" /\ store[d].task = c.task
    /\ c.verb \in {"ANNOUNCE", "HEARTBEAT"} =>
         LET row == views.agent_presence[c.agent] IN
           /\ row # NoRow /\ NotBefore(row.last, e)
           /\ c.verb = "ANNOUNCE" => NotBefore(row.profile, e)
    /\ c.hitl => \/ e \in views.hitl_queue
                 \/ \E d \in Stored : Verdict(store[d], e) /\ NotBefore(d, e)

AgentLogSound ==
  \A r \in views.agent_log : r[2] \in Stored /\ store[r[2]].agent = r[1]

\* A task's row is made of clacks about the task, its status by the last of them.
RowSound(t, r) ==
  /\ {r.created, r.last} \subseteq {e \in Stored : store[e].task = t}
  /\ store[r.last].verb = r.verb /\ r.status = StatusAfter(r.verb)
  /\ r.owner # NoAgent => \E e \in Stored :
       store[e].verb = "CLAIM" /\ store[e].task = t /\ store[e].agent = r.owner

BoardSound ==
  \A t \in Tasks : views.task_board[t] # NoRow => RowSound(t, views.task_board[t])

\* A node is a reply that names the root.
TreeSound ==
  \A n \in views.thread_tree : n[3] \in Stored /\ store[n[3]].parent = n[1]

OwnClacks(a, verbs) == {e \in Stored : store[e].agent = a /\ store[e].verb \in verbs}

\* An agent's row is its own announcements and heartbeats.
PresenceSound ==
  \A a \in Agents : LET row == views.agent_presence[a] IN row # NoRow =>
    /\ row.last \in OwnClacks(a, {"ANNOUNCE", "HEARTBEAT"})
    /\ row.profile # 0 => row.profile \in OwnClacks(a, {"ANNOUNCE"})

IndexSound ==
  \A r \in views.artifact_index :
    /\ r.epoch \in Stored /\ store[r.epoch].verb = "ARTIFACT"
    /\ store[r.epoch].task = r.task
    /\ r.review # "pending" => \E e \in Stored : Verdict(store[e], r.epoch)

QueueSound == \A e \in views.hitl_queue : e \in Stored /\ store[e].hitl

\* The views invent nothing: each row of the six tables is the work of clacks of
\* the log, even when puts into the views store fail, listeners throw and the
\* hub restarts.
ViewsSound ==
  /\ AgentLogSound /\ BoardSound /\ TreeSound
  /\ PresenceSound /\ IndexSound /\ QueueSound

\* An acknowledged verdict, its own puts granted, leaves its item out of the
\* queue and its artifact reviewed.
Resolves(a) ==
  /\ a.click.ref \notin views.hitl_queue
  /\ \A r \in views.artifact_index :
       r.epoch = a.click.ref => r.review # "pending"

\* The acknowledged verdicts whose sender had seen the item in the views.
AckedVerdicts ==
  {a \in acked : /\ a.click.verb \in Verdicts /\ a.epoch \notin lost
                 /\ sawIn[a.epoch] = "views"}

\* "Remove from queue on APPROVE/REJECT" (materializer.hpp:470): so it is for a
\* verdict whose sender had seen the item in the views, even when the item's
\* own projections were still running then.  The verdict of one who read the
\* item's row in the log may have its turn before the item, which then stays.
ResolvedLeavesQueue == \A a \in AckedVerdicts : Resolves(a)

\* The task board follows the log: a task's row is never older than an
\* acknowledged clack about it, and its owner made the last acknowledged claim
\* or a later one ("boring, deterministic", README.md:25).
BoardFollowsLog ==
  \A a \in acked : LET t == a.click.task IN
    t # NoTask /\ a.click.verb \in BoardVerbs =>
      /\ views.task_board[t].last >= a.epoch
      /\ a.click.verb = "CLAIM" => \E e \in Stored :
           /\ e >= a.epoch
           /\ store[e].verb = "CLAIM" /\ store[e].task = t
           /\ store[e].agent = views.task_board[t].owner
=============================================================================

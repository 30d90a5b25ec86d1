------------------------------- MODULE Tasks -------------------------------
(***************************************************************************)
(* The tools agents work on tasks with (mcp/mcp_server.hpp), over the hub  *)
(* of Hub: what each appends, what it reads first, and cc.get_task, which  *)
(* reads three stores one after the other.  Requests run on several        *)
(* threads, so the log and the views move between a tool's read and its    *)
(* append, and between two reads.                                          *)
(*                                                                         *)
(* A task id the tool makes up (ensure_task) is one more member of Tasks.  *)
(* Arguments a tool rejects before it appends leave no trace here.         *)
(***************************************************************************)
EXTENDS Hub

CONSTANTS Posted,   \* what cc.post_clack is called with
          Offered,  \* bound: the appends without a read that are explored
          Slices,   \* the slices of a task that claims name
          NoSlice,  \* the empty slice
          TaskRows,   \* the rows cc.get_task reads at most, 2048 in the code
          RecentCap,  \* the clacks it lists at most, 64 in the code
          NoCall

VARIABLES call,  \* the tool each thread is in, between its read and its append
          get    \* the one cc.get_task

taskVars == <<hubVars, call, get>>

\* pc of the reader, its task, and what it has read so far: the task's state, the
\* epochs of its artifacts.
Get == [pc : {"idle", "artifacts", "log"}, task : Tasks \cup {NoTask},
        state : TaskState \cup {NoRow}, artifacts : SUBSET Epochs]

TasksTypeOK ==
  /\ HubTypeOK
  /\ call \in [Writers -> [click : Clicks, warn : Agents \cup {NoAgent}] \cup {NoCall}]
  /\ get \in Get

NoCalls == [w \in Writers |-> NoCall]
NoGet == [pc |-> "idle", task |-> NoTask, state |-> NoRow, artifacts |-> {}]

TasksInit == HubInit /\ call = NoCalls /\ get = NoGet

-----------------------------------------------------------------------------
(* What the tools append *)

Click(verb, a, t, parent) ==
  [verb |-> verb, agent |-> a, task |-> t, parent |-> parent, hitl |-> FALSE,
   ref |-> 0, mistyped |-> FALSE, slice |-> NoSlice]

ClaimClick(a, t, s) == [Click("CLAIM", a, t, 0) EXCEPT !.slice = s]
ReportProgress(a, t) == Click("PROGRESS", a, t, 0)
CompleteTask(a, t) == Click("COMPLETE", a, t, 0)
PostArtifact(a, t) == Click("ARTIFACT", a, t, 0)
Ask(a, t) == Click("ASK", a, t, 0)
Heartbeat(a) == Click("HEARTBEAT", a, NoTask, 0)

\* The tools that append without reading anything.
Direct ==
  Posted \cup {Heartbeat(a) : a \in Agents}
  \cup UNION {{ReportProgress(a, t), CompleteTask(a, t), PostArtifact(a, t), Ask(a, t)} :
              a \in Agents, t \in Tasks}

\* The tools that read before they append.
AfterRead ==
  {ClaimClick(a, t, s) : a \in Agents, t \in Tasks, s \in Slices}
  \cup {Click(verb, a, t, e) : verb \in {"ACK", "ANSWER"}, a \in Agents,
                               t \in Tasks \cup {NoTask}, e \in Epochs}

ASSUME TasksAssumption ==
  /\ Offered \subseteq Direct /\ Direct \cup AfterRead \subseteq Clicks
  /\ Malformed = {} /\ NoSlice \in Slices
  /\ TaskRows \in Nat /\ RecentCap \in Nat

-----------------------------------------------------------------------------
(* The tools *)

Free(w) == phase = "serving" /\ pc[w] = "idle" /\ call[w] = NoCall

CallDirect(w, c) == Free(w) /\ Submit(w, c) /\ UNCHANGED <<call, get>>

\* A faulty variant: a task in progress counts as free.
WarningClaimedOnly(a, t) ==
  LET row == views.task_board[t] IN
    IF row # NoRow /\ row.owner \notin {NoAgent, a} /\ row.status = "claimed"
    THEN row.owner ELSE NoAgent

\* cc.claim_task: who its answer says has claimed the task already.  The board
\* keeps no slice.
Warning(a, t) ==
  LET row == views.task_board[t] IN
    IF row # NoRow /\ row.owner \notin {NoAgent, a} /\ row.status \in {"claimed", "in_progress"}
    THEN row.owner ELSE NoAgent

\* cc.claim_task up to its append, which takes place whatever it found.
ClaimTask(w, a, t, s) ==
  /\ Free(w)
  /\ call' = [call EXCEPT ![w] = [click |-> ClaimClick(a, t, s), warn |-> Warning(a, t)]]
  /\ UNCHANGED <<hubVars, get>>

\* read_one: the task of the clack with this epoch, if there is one.
OriginTask(e) == IF store[e] = NoClick THEN NoTask ELSE store[e].task

\* cc.ack and cc.answer up to their append, of any epoch.
Reply(w, verb, a, e) ==
  /\ Free(w)
  /\ call' = [call EXCEPT ![w] =
       [click |-> Click(verb, a, OriginTask(e), e), warn |-> NoAgent]]
  /\ UNCHANGED <<hubVars, get>>

\* ... and their append.
CallAppends(w) ==
  /\ call[w] # NoCall
  /\ Submit(w, call[w].click)
  /\ call' = [call EXCEPT ![w] = NoCall]
  /\ UNCHANGED get

-----------------------------------------------------------------------------
(* cc.get_task *)

\* A faulty variant: the log up to the epoch published to the waiters.
RowsReadPublished == {e \in Stored : e <= latest}

\* read_range(0, 2048): the first rows of the log.
RowsRead == {e \in Stored : Cardinality({d \in Stored : d < e}) < TaskRows}

\* Those of the task, and the last of them, which the answer lists.
OfTask(t) == {e \in RowsRead : store[e].task = t}
Recent(t) == {e \in OfTask(t) : Cardinality({d \in OfTask(t) : d > e}) < RecentCap}

GetState(t) ==
  /\ phase = "serving" /\ get.pc = "idle"
  /\ get' = [NoGet EXCEPT !.pc = "artifacts", !.task = t, !.state = views.task_board[t]]
  /\ UNCHANGED <<hubVars, call>>

GetArtifacts ==
  /\ get.pc = "artifacts"
  /\ get' = [get EXCEPT !.pc = "log",
               !.artifacts = {a.epoch : a \in {a \in views.artifact_index : a.task = get.task}}]
  /\ UNCHANGED <<hubVars, call>>

\* The clacks listed are read last; then it answers.
GetLog ==
  /\ get.pc = "log"
  /\ get' = NoGet
  /\ UNCHANGED <<hubVars, call>>

-----------------------------------------------------------------------------

\* What the hub does by itself: all of HubNext but the calls and the end.
Housekeeping ==
  \/ LogStep
  \/ \E w \in Writers :
       TakeTurn(w) \/ Project(w) \/ ListenersDone(w) \/ ProjectionThrows(w)

TasksStop == HubStop /\ call' = NoCalls /\ get' = NoGet

TasksNext ==
  \/ Housekeeping /\ UNCHANGED <<call, get>>
  \/ TasksStop
  \/ \E w \in Writers :
       \/ \E c \in Offered : CallDirect(w, c)
       \/ \E a \in Agents :
            \/ \E t \in Tasks, s \in Slices : ClaimTask(w, a, t, s)
            \/ \E verb \in {"ACK", "ANSWER"}, e \in Epochs : Reply(w, verb, a, e)
       \/ CallAppends(w)
  \/ \E t \in Tasks : GetState(t)
  \/ GetArtifacts \/ GetLog

TasksSpec == TasksInit /\ [][TasksNext]_taskVars

-----------------------------------------------------------------------------
(* Properties *)

\* "If the task is already claimed by ANOTHER agent ... surface that"
\* (mcp_server.hpp:447-448): a claim is warned when others have claimed the task,
\* nobody but claimants and reporters has touched it, and all of that is
\* acknowledged and in the views.  It is warned only of an agent that did claim
\* the task.  Claims that are being appended, or whose views are lost, go unseen.
\* The comment goes on "on the SAME slice"; the code compares no slices, and so
\* neither does this property.
ClaimWarnings ==
  [][\A w \in Writers, a \in Agents, t \in Tasks, s \in Slices :
       ClaimTask(w, a, t, s) =>
         LET work == {e \in Stored : store[e].task = t /\ store[e].verb \in BoardVerbs}
             claims == {e \in work : store[e].verb = "CLAIM"}
             warn == call'[w].warn
         IN /\ warn # NoAgent => warn # a /\ \E e \in claims : store[e].agent = warn
            /\ /\ claims # {} /\ \A e \in claims : store[e].agent # a
               /\ \A e \in work : /\ store[e].verb \in {"CLAIM", "PROGRESS"}
                                  /\ Clack(e, store[e]) \in acked /\ e \notin lost
               => warn # NoAgent]_taskVars

\* The replies that only cc.ack and cc.answer make; cc.post_clack may post one
\* with any task.
Replies == {c \in AfterRead : c.verb # "CLAIM"} \ Posted

\* A reply has the task of the clack it replies to.
Follows(c) == c.parent \in Stored /\ c.task = store[c.parent].task

\* "Echo task_id from the acked clack" (mcp_server.hpp:532, 569): a reply in the
\* log that names a task belongs to the task of the clack its parent names, and
\* comes after it, although the task is read before the append, and the process
\* may die, restart and number on between.  A reply to an epoch without a row
\* names no task, also when a row comes there later.
RepliesFollowTask ==
  \A e \in Stored : store[e] \in Replies /\ store[e].task # NoTask =>
    store[e].parent < e /\ Follows(store[e])

\* A cc.get_task answer agrees with itself: the clacks that its state and its
\* artifacts come from are among those it lists, though every part is read at
\* another time, unless 64 later clacks of the task are or the clack is not
\* among the first 2048 rows of the log.
SnapshotAgrees ==
  [][GetLog =>
       LET t == get.task
           Accounted(e) ==
             \/ e \in Recent(t)
             \/ e \in OfTask(t) /\ Cardinality({d \in OfTask(t) : d > e}) >= RecentCap
             \/ /\ e \in Stored /\ store[e].task = t
                /\ Cardinality({d \in Stored : d < e}) >= TaskRows
       IN /\ \A e \in get.artifacts : Accounted(e)
          /\ get.state # NoRow =>
               /\ Accounted(get.state.created) /\ Accounted(get.state.last)
               /\ get.state.owner # NoAgent => \E e \in Stored :
                    /\ Accounted(e) /\ store[e].verb = "CLAIM"
                    /\ store[e].agent = get.state.owner]_taskVars
=============================================================================

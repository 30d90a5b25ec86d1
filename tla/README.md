# Verification of click-clack

TLA+ specifications of the hub, TLC configurations that check them on small
instances, and TLAPS proofs for every value of their constants. Paths are
relative to the repository root; `wal.hpp` stands for
`backend/include/click_clack/core/wal.hpp`, and so on.

click-clack is a single process that accepts *clacks* (events), gives each an
epoch, appends it to a log, projects it into views, and serves both to agents
(MCP tools over HTTP, a stdio bridge, or a C API inside a Bun process) and to
people (a WebSocket console).

## Inventory

| Component | State | Operations | Talks to |
|---|---|---|---|
| Log, `core/wal.hpp`, `core/epoch.hpp` | table `clacks` (durable), epoch counter, `latest_epoch_`, listeners | open, recover, close, append, read_range, read_one, wait_for_next | calls its listeners inside append |
| Materializer, `views/materializer.hpp` | six durable tables | on_clack (six projections), seven queries | listener of the log |
| Wiring, `app_context.hpp` | the objects and their order | create | log, materializer, broadcast |
| MCP tools, `mcp/mcp_server.hpp` | reservations and pins, in memory | some twenty-five tools; `cc.wait` blocks; several read before they append | append, queries |
| Dispatcher and endpoint, `mcp/dispatcher.hpp`, `protocol.hpp`, `http_transport.hpp`, `tool_catalog.hpp` | a session: per request behind `POST /mcp`, per handle behind the C API | classify, dispatch, list | tools |
| HTTP API, `transport/http_controller.hpp` | none | health, metrics, tools, call | tools |
| WebSocket, `transport/ws_controller.hpp` | connections, subscriptions | post, subscribe, unsubscribe, broadcast, snapshot | append, queries |
| C API, `src/capi.cpp`; Bun binding and `click-clack-mcp`, `bindings/bun` | a hub per handle, a thread-local error | open, dispatch, free; a line loop over stdin | log, materializer, tools, dispatcher |
| Stdio bridge, `src/mcp_bridge_main.cpp` | none | one HTTP request per line | endpoint |
| Console, `frontend/src/app` | socket, timeline, tasks, agents, HITL queue, pins | connect, reconnect, subscribe, apply frames | WebSocket, HTTP |

What makes it hard:

- **Concurrency.** Drogon serves requests on four threads. `append()` has no
  lock of its own: it increments an atomic, puts a row, runs the listeners
  under one mutex and publishes under another, and appends overtake one another
  between any two of these. Reservations hold a second mutex across an append.
- **Failure.** A put fails after an epoch was taken; a listener throws on a
  mistyped payload after the row is durable (nothing in `McpServer::dispatch`
  catches it); the process dies anywhere. The log and the views are two stores
  and nothing replays the one into the other.
- **Ordering.** Epoch order, put order, listener order, publication order and
  the order of answers are five different orders.
- **Timeouts.** `cc.wait` reads the table and the published epoch at different
  moments, loops, and gives up at a deadline. While it waits it blocks one of the
  hub's event loops, or the only thread of an embedded host.
- **Keys.** Epochs are big-endian bytes inside composite keys whose separator `/`
  may occur in an id and in an epoch; the log's header holds lengths in one byte.

What correctness means, per component: the *log* keeps what it acknowledged,
never reuses an epoch and never changes a row; the *long poll* misses nothing and
returns; the *views* contain what was acknowledged and nothing else, and agree
with the log's order; the *queries* answer what the log says; *reservations*
report every takeover and agree with the log; *pins* respect the operator and the
cap; the *task tools* warn of the claims they can see and reply on the right task;
the *stdio servers* give each line at most its own answer, and each request one;
the *console* shows what the log and the views hold. `PROJECT.json` lists the
single hazards with their lines.

## Modules

| Module | Models | Extends |
|---|---|---|
| `Ledger` | abstract: an append-only ledger with reserved, committed and acknowledged entries | |
| `Wal` | the log: lifecycle and `append()` step by step | |
| `LongPoll` | `cc.wait` over `read_range` and `wait_for_next` | `Wal` |
| `Views` | the six projections as operators on the tables | |
| `Hub` | log, materializer and restart as `AppContext` composes them | `Wal`, `Views` |
| `Tasks` | the tools that post, claim, report, ask and reply, and `cc.get_task` | `Hub` |
| `Tools` | reservations and pins, with the appends of their calls | `Wal` |
| `Codec` | keys as bytes, the frame of a clack | |
| `Queries` | `read_range`, the seven queries and the tools over them, on bytes | `Views`, `Codec` |
| `Rpc` | the answer to one JSON-RPC line: classify, dispatch, error codes | |
| `LineServer` | abstract: a server that answers lines in turn | `Rpc` |
| `Stdio` | the bridge, the embedded server, the hub's event loops | `Rpc` |
| `Console` | the WebSocket controller and one browser, connection by connection | `Wal` |
| `MCWal`, `MCLongPoll`, `MCHub`, `MCTasks`, `MCTools`, `MCQueries`, `MCStdio`, `MCConsole` | instances for TLC | |
| `WalProofs`, `PollProofs`, `ToolsProofs`, `StdioProofs`, `ConsoleProofs`, `CodecProofs`, `QueriesProofs` | theorems | `Wal`, `LongPoll`, `Tools`, `Stdio`, `Console`, `Codec`, `Queries` |
| `HubProofs` | theorems about `Hub`, what its views show, and `Tasks` | `Tasks` |

**Wal.** `phase` is the life of the process; `counter`, `store`, `latest` and
`listenersMu` are `EpochCounter::counter_`, the table, `latest_epoch_` and
`listeners_mu_`; `pc`, `epoch`, `click` are where each request thread is in
`append()` and its locals. `delivered` and `acked` are history. `Begin` is the
validation and the atomic increment, `Put`/`PutFails` the put, `EnterListeners`,
`LeaveListeners`, `ListenerThrows` the critical section, `Publish` the store,
`notify_all` and the return. Reads of the whole table are atomic (a snapshot of
the storage engine). `Stop` is both `close()` and a crash: what the put returned
for survives, nothing else does; a loss of the machine, which the storage
engine's write options decide, is not modelled. `Recovers` says whether the host
calls `recover()`: the hub does, the C API does not.

**LongPoll.** `poll[p]` holds the locals of one call. `FirstLook` is the fast
path; then each turn of the loop looks at the clock (`Block`, or `GiveUp` when the
deadline has passed, at once for a timeout of 0), at the published epoch (`Wake` and
`TimeUp`, the two ways `wait_for_next` ends) and at the table (`Look`, which answers or
moves `since`), each a step of its own between which appends move. The filter is the
set `Wanted`, the window of one read is `Window`.

**Views, Hub.** A click is reduced to what the projections branch on; the epochs it
names may be any, with a row, without one, or not yet allocated. `TakeTurn` is a clack's
turn with the listeners. `Project` runs the next of the six projections in the order of
`Materializer::on_clack`; `ProjectionThrows` is the exception `json::value` raises for a
mistyped field, in the table where it is read. A put into the views may fail unnoticed:
`lost` holds the epochs it happened to, `MaxLost` bounds them. `ListenersDone` ends the
listener, whose second half, the broadcast, is the append to `delivered`. Two histories
serve the properties: `order`, the turns the clacks had, and `sawIn`, where the sender of
a click could have learnt the epoch it names (the views, or elsewhere).

**Tasks.** `call[w]` is what a tool carries from its read to its append: the warning
of `cc.claim_task`, the task that `cc.ack` and `cc.answer` read from their parent, or
none when the epoch they were given has no row (`ClaimTask`, `Reply`, then
`CallAppends`); a tool that reads nothing is `CallDirect`. `get` is one `cc.get_task`,
whose three reads are three steps; the last sees the first `TaskRows` rows of the log
(2048 in the code) and lists the last `RecentCap` clacks of the task among them (64).
Everything else the hub does by itself is `Housekeeping`, taken from `Hub`.

**Tools.** Everything a call does under a mutex up to its first access to
something the mutex does not protect is one step: nobody else can observe it in
between. `Reserve` locks, checks and enters `append()` with the mutex held;
`ReserveDone` updates the index and unlocks. `Release`, `VotePin` and
`PinOverride` update, unlock, and append afterwards (`Audit`, `AuditDone`).
`Expiry` is 64-bit arithmetic, modulo `Wrap`.

**Codec, Queries.** Bytes are numbers below `Base`, strings are sequences of them,
so that prefixes, separators, carries and lengths are what they are in the code
(`Base` 256, `Width` 8 there). `Serialize` keeps the widths of the header's length
fields, `Deserialize` cuts the frame by them. A query is an operator over the
tables; the state machine only puts rows (`Write`, of any epoch not yet used) and
projects them (`Project`), in two independent orders, as overtaking appends do, some of
them never, and each query is compared with what the log and the order of the turns say,
computed without keys. The six projections of a clack are one step here, since every
query reads one table; how they fail half way is the matter of `Hub`. What the code
computes in a loop is a recursive function (`Power`, the shift; `ActiveSlices`, the
loop of `cc.get_task`) or a selection in order (`Kept`, a filter). The status filter
of `cc.query_tasks` is left out: it compares with freed memory (`mcp_server.hpp:224`).

**Rpc, LineServer, Stdio.** `Rpc` follows a line through `protocol.hpp` and
`dispatcher.hpp` to an id and a code; `HandlePost` and `CcHubJsonrpc` are its two
hosts, which differ in what an exception becomes. In `Stdio` each client has a
server that reads a line, gets an answer and writes it. The bridge opens a
connection per line (`Dial`), a loop of the hub takes it up (`Handle`), a
`cc.wait` keeps the loop until a clack comes or its time is up. The embedded
server calls into its own hub and blocks with it. Faults: the hub dies and comes
back, a connection breaks before or within an answer. `LineServer` is what both
servers promise; `Stdio` is shown to implement it.

**Console.** `socket`, `ws`, `timer`, `connected`, `timeline` are the browser's
(`WsService`, `HubStateService`), `clients`, `asked`, `reading` the controller's,
`wire` the frames in between, in order. `Connect` is `connect()` with the
`disconnect()` it starts with; `OnClose` sets the timer, `TimerFires` connects
again, `OnOpen` subscribes again. A subscription is answered in two steps,
`ReadSnapshot` and `SendSnapshot`, because the code holds no lock from the one to
the other; `Broadcast` is the end of the listener, `Skip` a listener that throws before
it. The history `crossed` says that a broadcast fell between a snapshot's read and its
sending and is not in it, or comes after a snapshot that has its clack, or was skipped.
Frames of one connection are
taken to arrive in the order of the calls to `send`, also from two threads. Both
ends notice the end of a connection in one step (`Gone`): a frame sent in between
would reach nobody. Acknowledgements and errors change no more than `lastEpoch`
and are left out.

Each module keeps faulty variants of a few actions next to them: the slip one
could make in that code, used to show that the properties notice.

## What the runs check

| Run | Instance | Shows |
|---|---|---|
| `WalHub` | 3 threads, 3 epochs, 4 clicks (one malformed, one throwing) | `AckedDurable`, `EpochExclusive`, `AppendOnly`, `RealTimeOrder`, `AppendReturns`, refinement of `Ledger` |
| `PollSerial` | 1 appending thread, 1 waiter, 4 epochs, a window of 2 rows | `NoMissedMatch`, `AnswerInLog`, `PollReturns` |
| `HubReview` | 2 threads, 3 epochs, artifacts, claims, replies, verdicts on any epoch, mistyped payloads, a clack whose puts into the views fail | `AckedIsProjected`, `ResolvedLeavesQueue`, `ViewsSound` |
| `HubTasks` | 2 threads (interchangeable), 2 agents, 1 task, 2 epochs; every task tool, a mistyped payload, a reply posted by hand, one `cc.get_task` with windows of 2 rows and 1 clack | `RepliesFollowTask`, `ClaimWarnings`, `SnapshotAgrees` |
| `ToolsHub` | 2 threads, 2 agents, 1 path, 2 pins at a cap of 1, 2 epochs, expiring and overflowing ttls | `ReservationLogged`, `NewestReservation`, `NoSilentTakeover`, `EvictionKeeps`, `CallsReturn` |
| `Queries` | every log of epochs 2..4 with gaps, put in any order, from 23 clicks, every row projected at any time or never; 4 byte values, 3-byte keys, windows of 2 rows | `RowsRoundTrip`, `BoardsFromLog`, `ThreadFromLog`, `ReviewsFromLog`, `GetTaskFromLog`, `AgentLogOwn` |
| `Stdio` | 2 clients, one behind a bridge or embedded, 2 lines and 1, 2 event loops, 1 fault | `RepliesCorrelate`, `PostsByCaller`, `ImplementsLineServer`, `RequestsAnswered` |
| `ConsoleHub` | 2 threads, 3 epochs, a click whose listener throws, a snapshot of 2 rows, a browser with a socket and its predecessor, connections that break at will, restarts | `OneConnection`, `TimelineComplete`, `KeepsTrying` |

Each run but `HubReview` and `Queries` also has its module's type invariant.

The bounds: two threads are what an overtaking needs, and `WalHub` has a third so that
two wait for one mutex. Three epochs allow an acknowledged clack, a gap left by a failed
put or a crash, and a later append, before and after a restart. A restart may happen at
any state, any number of times. `PollSerial` has logs longer than the window, so that a
call moves on behind it. `HubTasks` has two epochs because each of its properties
relates two clacks: a claim and the row it is warned of, a reply and its parent, a row
and what a snapshot lists, and its list holds one clack, so that the older of two falls
out. `ToolsHub` has two epochs because every property of its calls relates two of them;
its cap is one pin and `DropShare` is 1 there (100 000 and 10 in the code), the smallest
cap at which an eviction has something to drop. In `Queries` the key of epoch 2
holds the byte of `/` and the key of epoch 4 carries into the next byte, while the high
byte stays 0 (the assumption of the theorem `Reviews`); ids hold `/` and are prefixes of
one another; a field longer than the header's length field can hold is offered, as is an
artifact whose content is no string. `cc.get_task` reads two rows there and shows one:
its claims are checked on pairs of clacks, which is what one turn of its loop relates,
and on longer logs by the theorem `GetTask`. In
`Stdio` two bridges can fill both event loops with `cc.wait`, and one fault falls
anywhere; the lines are every class that `Rpc` tells apart (requests, notifications with
and without the text `"id"` in them, responses, lines that are no JSON, ids of a wrong
type, mistyped params). In `ConsoleHub` the third epoch makes a log that no snapshot
holds. `MaxEpoch`, `MaxClock`, `MaxLost`, `MaxLines`, `MaxFaults` and `Offered` (the
appends without a read that are explored) are the only bounds; in `Tools`, `Free` also
keeps an epoch for each call that has still to append, so that the bound itself never
leaves a call hanging. `Queries` and `Stdio` really stop, when the epochs or the lines
are used up; the other runs check for deadlock.

Disagreements between the code and what it says of itself, each a run in which TLC
finds the behaviour (details in `PROJECT.json`, "findings"):

| Run | Refuted | Behaviour |
|---|---|---|
| `WalFfi` | `AppendOnly` | the C API does not recover the counter; a reopened hub overwrites its first rows |
| `PollConcurrent` | `NoMissedMatch` | `cc.wait` moves past an epoch that is not in the table yet and looks in vain |
| `HubOrder` | `BoardFollowsLog` | projections run in mutex order: the older of two claims wins the board |
| `ConsoleRace` | `TimelineFollowsLog` | a snapshot read before a broadcast and sent after it wipes the clack off the timeline |

Next to each stands what does hold, in a passing run and as a theorem: `AppendOnly` with
`recover()`, `NoMissedMatch` with one appending thread, `BoardsFromLog` (the board
follows the order of the turns, which `HubOrder` shows is not the log's) and
`AckedIsProjected`, `TimelineComplete`.

### Seen while modelling, without a run

Each of these is in the model as it is in the code, unless it says otherwise, and the
properties are worded around it.

Long poll:

- `cc.wait` moves `since` to the published epoch also when there are more rows than its
  window in between (`mcp_server.hpp:792`, `821`): it passes over matches behind the
  window and times out, with one appending thread, too. `NoMissedMatch` is about the
  matches the window can show.
- It answers with the clack at its anchor (`mcp_server.hpp:803`, `read_range` is
  inclusive), though `tool_catalog.hpp:273` says "strictly greater".
- What is acknowledged between its last look at the table and the deadline it does not
  answer.

Views and queries:

- A crash between a put and its projections leaves a row that the views never show:
  nothing replays it (`app_context.hpp:46`).
- A client that reads an item in the log (`cc.query_timeline`, `cc.wait`) can send a
  verdict that is projected before the item; the item is inserted afterwards and stays
  queued (`materializer.hpp:475`).
- A second ANNOUNCE makes a claimed task unclaimed: the row is rebuilt from a fresh
  `TaskState`, though `materializer.hpp:344` says "leaves status alone".
- `cc.query_agent_log` scans for keys that begin with the agent and the start epoch
  (`materializer.hpp:147`): from 0 it answers nothing, from an epoch of the agent that
  clack only, though `tool_catalog.hpp:117` and `:120` promise every clack.
- `cc.query_tasks` with a filter compares each status with a string already freed
  (`mcp_server.hpp:224`); not modelled.
- `cc.query_thread` throws for a root with a reply whose key holds the byte of `/`, such
  as epoch 47 (`materializer.hpp:231`).
- One artifact whose content is no string makes `cc.query_artifacts` and `cc.get_task` of
  its task throw from then on (`materializer.hpp:281`).

Log and tools:

- `cc.claim_task` warns whatever slices the two claims name (`mcp_server.hpp:454`),
  though its comment says "on the SAME slice" (`:447-448`).
- A huge `ttl_ms` overflows 64 bits (`mcp_server.hpp:599`): the reservation is over when
  it is made.
- A clack whose projection throws is not broadcast either.
- `cc.release_path` erases its entry before its append: the log may show a RELEASE
  after a reservation it did not release (`mcp_server.hpp:637`).
- Ids with `/` mix the claimants of `cc.get_task` and the artifacts of one task with
  those of another.
- A timeline snapshot holds the oldest 1000 clacks, `cc.get_task` reads the oldest
  2048.
- `cc.ack` and `cc.answer` take any epoch and append a reply without a task to one that
  has no row; a row that comes there later has a reply of another task.

Servers:

- The bridge takes a line for a request when the text `"id"` occurs anywhere in it,
  though `mcp_bridge_main.cpp:9` says it looks for an id; it answers a client's
  response with "hub unreachable", and drops a line that does not parse when it has no
  `"id"`.
- `null` or mistyped params make the dispatcher throw: a 500 page behind `POST /mcp`,
  -32603 with a null id behind the C API.
- The hub process has a session per request, so `initialize` names nobody there.
- An embedded `cc.wait` is never woken: nothing else runs in its process.
- `http_controller.hpp:102` defaults `args` to null, on which `args.value` throws.
- `click-clack-mcp` defaults its log to `<cwd>/.click-clack/wal`
  (`click-clack-mcp.ts:10`, `:57`), which the path sandbox of `cc_hub_open` rejects
  (`capi.cpp:84`, `path_sandbox.hpp:49`): without a path it exits with 2.

Console:

- A clack put before a snapshot's read and broadcast after its sending shows twice
  (`crossed` covers it, like the loss of `ConsoleRace`).
- Calling `connect()` or `disconnect()` on an open socket, which the console never
  does, would start reconnections that do not end, because the old socket's
  `onclose` schedules one (`ws.service.ts:31-34`).
- The console's verdict uses a verb and a payload key the hub does not know.

## Fairness

Weak fairness of a thread's own steps inside `append()`, `cc.wait` or a tool call:
the code has no wait there but its mutexes and the bounded `wait_for`, whose
deadline passes. Nothing is fair about the start of a call, the clock, a crash, a
restart or the outcome of a put. `std::mutex` is not fair, yet weak fairness
suffices for `EnterListeners`: epochs are bounded in an instance, so overtaking
is. In the code a stream of appends could starve one thread; this is not excluded
by what is checked here. In `Stdio` the servers run and deadlines pass (weak
fairness of `Serve` and `Expires`), and each ready connection is taken up in the end
although its loop blocks again and again (strong fairness of `Handle`, per loop and
client): a poll of the event loop returns every connection that is ready, and it
handles them all before it polls again. Nothing makes a client send or the hub come
back. In `Console` the browser's event loop is fair (the page is opened, callbacks
run, timers fire); the network and the hub are not: a connection may break every
time.

## What is proved

`WalProofs`, for any writers, clicks and `MaxEpoch`:

- `TypeCorrect`, without assuming `Recovers`.
- `HubInvInductive`: the inductive invariant `HubInv`. The safety of the log
  rests on `CounterCovers` (while the process serves, the counter is at least
  every epoch that names a row or is in use) together with `EpochExclusive`.
  Neither `AckedDurable` nor `AppendOnly` is inductive without them: one needs to
  know that the row an append is about to write does not exist, hence that its
  epoch is new, hence that the counter was recovered from the table. This is the
  single use of `Recovers`, and `WalFfi` shows that it is needed.
- From it: `AckedClacksAreDurable`, `EpochsAreExclusive`,
  `ListenersAreExclusive`, `PublishedEpochIsStored`, `LogIsAppendOnly`,
  `EpochsFollowRealTime`.
- `HubImplementsLedger`: `Wal` refines `Ledger` under the mapping that forgets the
  counter, the mutex and the publication.

Every composed module uses the log's own actions, and lemmas say so
(`PollImplementsWal`, `HubImplementsWal`, `TasksImplementHub`, `ToolsImplementWal`,
`ConsoleImplementsWal`): they follow from the way the modules are built and are there
to carry all of the above over, and `HubInv` may be
used in each proof below. One consequence carries most of them, `RowStays`: once a row
is there, it stays. `TypeInv` needs no recovery, and neither do the theorems below that
do not name `Recovers`.

`PollProofs`, for any writers, waiters, filter and window:

- `PollTypeCorrect`, and `AnswersAreInLog`: what `cc.wait` answers with are rows of the
  log that pass the filter, from the anchor on. `PollInv` adds `Forward`: the loop moves
  `since` only forward from the anchor, and never past the epoch that woke it.
- `NothingIsMissed`, with one appending thread (`OneWriter`): a look in vain leaves
  behind no match acknowledged by then that its window could show. What is acknowledged
  after that look, before the call looks at the clock and gives up, it does not promise,
  as the code does not. `SerialInv` adds `Published` (the published epoch has every
  acknowledged clack behind it and the append in flight ahead of it) and `PassedOver`: no
  row between the anchor and `since` matches, as long as the window holds them all.
  `Published` is what fails with two threads, and with it the property (`PollConcurrent`):
  the hub, with four, has the theorem's assumption only while its clients append one at a
  time.

`HubProofs`, for any agents, tasks, clicks and writers, of the views:

- `ViewsAreSound`: each row of the six tables is the work of clacks of the log, its
  statuses, tasks, owners, profiles and replies included, whatever projections throw,
  whichever of their puts are lost, in whatever order listeners run. `ProjectionSound` is
  the step: a projection of a row of the log keeps each of the tables' parts. It is a row
  of the log that is projected because by then the append has put it (`OwnRowWritten`).
- `AcknowledgedIsShown`, read your writes: an acknowledged clack none of whose puts was
  lost is in the agent's log, the thread and the index, and the row of its task, the
  owner, the presence and the profile are its own work or that of a clack with a later
  turn; the item it is, is queued or was resolved by a later turn. `ShownInv` follows it
  through the listener: after `done` projections the first `done` tables show the clack
  (`Shows`), and they keep showing it (`InTableStays`), because the clack that takes over
  has its turn now, later than all before (`TurnsInv`: the turns are in one order, and an
  append past the mutex has had its turn).
- `VerdictsEmptyTheQueue`: an acknowledged verdict whose sender saw the item in the views
  leaves its item out of the queue and its artifact reviewed, for good, while others may
  send verdicts on any epoch. `ReviewInv` says of each epoch that the listeners have been
  given the clack that the views show or its sender saw (`Entered`), and are through with
  it when they are given its verdict (`Passed`), so that nothing inserts the item again. A
  client that reads the log may send its verdict first.

and of the task tools:

- `TasksTypeCorrect`.
- `RepliesKeepTheTask`: a reply of `cc.ack` or `cc.answer`, to any epoch, that names a
  task has the task of the clack its parent names. `RepliesFollowTask` is not inductive:
  the task is read long before the row is written. `TasksInv` adds that a reply with a
  task already follows its clack while the tool holds it and while `append()` does, with
  an epoch above the clack's; it is kept because by `HubInv` no row changes (`RowStays`)
  and a new epoch exceeds all stored ones. So it, too, needs `Recovers`. A reply whose
  parent had no row names no task, and nothing more can be said of it.
- `SnapshotsAgree`: the three reads of `cc.get_task` agree: what the state and the
  artifacts come from is listed, or 64 later clacks of the task are, or it is not among
  the first 2048 rows. `GetSound` says that what has been read so far comes from rows of
  the log, which are still there at the last read; the rest is what the windows keep.
- `ClaimsAreWarned`: the warning of `cc.claim_task` is right, and given when it can be. It
  needs `ShownInv` for the claims that were acknowledged, and that no agent has the empty
  id (`NoAgent \notin Agents`): `validate_click` admits it, and a claim of it gives the
  board an owner that reads as none.

`ToolsProofs`, for any agents, paths, ttls, clock and writers, around `ToolsInv`:

- `NoTakeoverIsSilent`: `ReserveExclusive` (reserve_mu_ is held by the one call that
  reserves) keeps `ConflictCurrent` (the conflict found at the start is still the
  holder), release and other reservations having to wait for the mutex.
- `ReservationsAreLogged`: an entry is written from locals of the call, long after
  `append()` took its epoch; `ReserveBacked` says that the two epochs are one, and that
  the row is there once `append()` is through.
- `NewestIsHolder`: `InFlightNewest` says that the call under way has the newest epoch of
  all RESERVE clacks. It needs `AuditBacked`: nobody else appends one.
- `EvictionsKeepOverrides`: no call but an override of the same epoch undoes an override,
  and at the cap a call makes room for the pin it adds, unless all are overrides. It
  needs the pins to be finitely many, which is inductive, and a cap of at least
  `DropShare` (the code has 100 000 and 10): a smaller one would evict none. That some
  pin is the stalest is `SmallestNumber`, the smallest member of a set of numbers.
- `ToolsTypeCorrect`.

`StdioProofs`, for any clients, lines, event loops and faults, without an assumption
but the types of the lines:

- `StdioTypeCorrect` and, from the same `ServersInv`, what a server holds: it is its
  host's answer to the line the server is at, or what a fault has left of it.
- `AnswersCorrelate`: an answer no fault has touched names its request's id.
- `ServersAnswerLines`: the bridge and the embedded server implement `LineServer`, which
  reads a line, writes nothing but what may answer it, and reads on. `ReadInput` is its
  `ReadLine`, an `Emit` that writes is its `WriteLine` (`EmitAnswers`, by `ServersInv`),
  and everything else, the faults included, a stutter (`LinesMove`).
- `PostsAreTheCallers`: a clack has the name its session was given last, no line appends
  two, and an answered `cc.post_clack` was appended. `PostsInv` says where a line can be:
  queued once and then not yet appended (`Queued`), or taken up (`PostedOnce`), and that a
  request that outlives its connection is of a line already left behind (`Behind`).

`ConsoleProofs`, for any sockets, writers and restarts:

- `ConsoleTypeCorrect` and `OneConnectionAtATime`, in either host: `ConsoleInv` says
  that any socket not yet closed is the current one (`OneSocket`), so its `onclose` is
  the only one that can set the timer.
- `TimelineIsComplete`: once all is delivered the timeline is the log, each clack once,
  whatever is appended and broadcast while subscriptions are answered, unless a
  broadcast crossed the answer to the last subscription or was skipped (`crossed`), and
  if the log fits a snapshot. In between, `TimelineInv` says that with the frames on the
  wire it will be: either it and the clacks on their way are what has been broadcast
  (`Current`), or a snapshot on its way and the clacks behind it are (`Renewed`), and a
  read not yet sent lacks no clack that has been broadcast (`ReadsAreFresh`). It assumes
  `Recovers` alone. That a crossing does lose a clack is `ConsoleRace`: the theorem says
  there is no other way.

`CodecProofs`, for any alphabet, widths and limits:

- `KeyRoundTrip`, `KeysAscend`: a key gives its epoch back, and the byte order of keys is
  the order of epochs. `Digits` says what each byte is; `PrecedesOrders` that the storage
  engine's order is a strict total one.
- `Cut`: texts laid one after the other are found again at their lengths, which with the
  limits of `ValidClick` makes a frame round trip (`FrameRoundTrip` in `QueriesProofs`).
- Listings: `Lists(s, S, R)` says that the sequence `s` is the set `S` in the order `R`.
  A scan lists the rows it hits by their keys (`ScanLists`), a filter of a listing lists
  the intersection (`KeptLists`), a limit its lowest elements (`FirstOfLists`), and a set
  has one listing in an order (`ListsOnce`).

No induction is needed over an operator: a recursive function is what its equation says
because a smallest number at which it is not would contradict the equation
(`SmallestNumber`, `PowerIs`), and a listing is determined without counting along it.

`QueriesProofs`, for any clicks, ids, windows and lengths, around
`QueriesInvariant`: `LogInv`, every row is the frame of a click that validation admits, at
an epoch the counter gives out; and `ViewsInv`, the turns are in one order (`OrderInv`) and
every table is what its definition by the projected clacks and that order says
(`ViewsAre`). None of the six invariants below is inductive: they speak of answers, which a
later put or turn may change. The invariant says instead what one turn, which is the last,
adds to each table, and the answers follow from it.

- `RoundTrip`: rows decode to what was appended, under keys in epoch order.
- `Timeline`: `cc.query_timeline` answers the first clacks that match, in order
  (`TimelineExact`, which is in no run: a scan costs TLC too much).
- `Thread`: `cc.query_thread` lists the projected replies to an epoch whose key holds no
  `/`. The scan by the root finds them only, because depth and epoch follow a first
  slash (`ThreadHits`), and in order, because the epoch comes last in the key.
- `Boards`: the task board, `cc.query_tasks` without a filter and presence are functions
  of the log and the order of the turns: the last turn of a claim makes the owner, the
  last of a board verb the status. An instance has finitely many tasks, so that they can
  be listed.
- `Reviews`: artifacts with the last verdict projected after each, and the HITL queue of
  the items no verdict was projected after; verdicts may name any epoch. It assumes that
  the high byte of an epoch is 0 (`MaxEpoch < Power[Width - 1]`: below 256^7 appends)
  and that no id holds a byte 0 (`validate_id_field`): otherwise an id could go on into
  another row's epoch, and that row would be listed under a task it has nothing to do
  with.
- `GetTask`: the loop over the clacks of a task leaves the claims that nothing later
  ended (`LiveIs`: after `i` clacks, the claims among them that none of them ended), and
  their keys, of agents without a slash, tell agents and slices apart (`KeysApart`).

The assumptions are otherwise the named ones of the modules (`WalAssumption`,
`PollAssumption`, `HubAssumption`, `TasksAssumption`, `ToolsAssumption`,
`StdioAssumption`, `ConsoleAssumption`, `CodecAssumption`, `QueriesAssumption`), and
`Recovers` where a theorem says so. `QueriesAssumption` says that the epochs of an
instance fit the bytes of a key and that an admitted click names a known agent and task.

Only model-checked are `AgentLogOwn` and the liveness: `AppendReturns`, `PollReturns`,
`CallsReturn`, `RequestsAnswered`, `KeepsTrying`. The proof system does not reach
fairness. Every other
property of a passing run is a theorem above. The refuted properties have none, of course;
those that hold under a condition (`AppendOnly` with `Recovers`, `NoMissedMatch` with one
writer) are theorems under it.

## Not modelled

The tool catalogue (static schemas nothing reads back); the HTTP API's pages; the
path sandbox, argument and environment parsing, origin checks; the `as_agent`
override; checksums and the payload's limit; the 1 MiB limit of a body; a
connection that goes silent without ending (the bridge's `recv` has no timeout);
what `cc.query_pins` and `cc.query_reservations` say about an entry; rendering;
the storage engine below one atomic put, delete or scan. `PROJECT.json` gives the
reason for each component.

## Plan

1. `AgentLogOwn` as a theorem: the agent's log as a seventh part of `ViewsAre`.
2. `cc.wait` with several appending threads: that a match acknowledged before the call
   began is never missed, and which overlaps of later appends it takes to miss one.
3. The console's other views (tasks, agents, HITL queue), which change with a snapshot
   alone, once the code says how fresh they are to be.

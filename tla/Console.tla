------------------------------ MODULE Console ------------------------------
(***************************************************************************)
(* One operator console on the hub: transport/ws_controller.hpp on the     *)
(* server, services/ws.service.ts and services/hub-state.service.ts in the *)
(* browser, over the log of Wal.                                           *)
(*                                                                         *)
(* A connection carries frames in the order the hub sends them.  The hub   *)
(* answers a subscription in two steps, a read of the log and a send,      *)
(* neither under mu_, while other threads broadcast.  Of the views only    *)
(* the timeline is modelled; the others change with a snapshot alone.      *)
(***************************************************************************)
EXTENDS Wal

CONSTANT SnapshotLimit  \* rows of a timeline snapshot (1000)

ASSUME ConsoleAssumption ==
  /\ SnapshotLimit \in Nat \ {0}
  /\ NoClick \notin Epochs

\* WebSocket objects; the browser never needs more than the current one and
\* its predecessor.
Sockets == {1, 2}

VARIABLES
  socket,     \* the state of each WebSocket object
  ws,         \* WsService.ws, 0 for null
  timer,      \* WsService.reconnectTimer is set
  connected,  \* WsService.connected
  timeline,   \* HubStateService.timeline, as epochs
  clients,    \* clients_: the sockets the hub broadcasts to
  asked,      \* the subscriptions on their way to the hub
  reading,    \* per socket, the rows read for its snapshot, or {NoClick}
  wire,       \* per socket, the frames on their way to the browser
  crossed     \* history: a broadcast crossed the answer to the last subscription
              \* (it fell between the read and the sending of a snapshot that
              \* lacks its clack, or comes after one that has it), or a listener
              \* threw before its broadcast

browser == <<socket, ws, timer, connected, timeline>>
server  == <<clients, asked, reading, wire>>
consoleVars == <<walVars, browser, server, crossed>>

Frame == [type : {"clack"}, epoch : Epochs]
           \cup [type : {"snapshot"}, rows : SUBSET Epochs]

\* "accepted": the hub has it, the browser has yet to hear; "lost": onclose is
\* still to come.  The hub broadcasts to the connected sockets and to no others.
ConsoleTypeOK ==
  /\ TypeOK
  /\ socket \in [Sockets -> {"free", "connecting", "accepted", "open", "lost", "closed"}]
  /\ ws \in Sockets \cup {0}
  /\ timer \in BOOLEAN /\ connected \in BOOLEAN
  /\ timeline \in Seq(Epochs)
  /\ clients = {s \in Sockets : socket[s] \in {"accepted", "open"}}
  /\ asked \subseteq clients
  /\ reading \in [Sockets -> (SUBSET Epochs) \cup {{NoClick}}]
  /\ wire \in [Sockets -> Seq(Frame)]
  /\ crossed \in BOOLEAN

NotReading == {NoClick}

ConsoleInit ==
  /\ Init
  /\ socket = [s \in Sockets |-> "free"]
  /\ ws = 0
  /\ timer = FALSE
  /\ connected = FALSE
  /\ timeline = <<>>
  /\ clients = {}
  /\ asked = {}
  /\ reading = [s \in Sockets |-> NotReading]
  /\ wire = [s \in Sockets |-> <<>>]
  /\ crossed = FALSE

Live == {s \in Sockets : socket[s] \in {"connecting", "accepted", "open"}}

-----------------------------------------------------------------------------
(* WsService *)

\* connect(): disconnect(), which clears the timer and closes the socket there
\* may be, then a new WebSocket.
Connect(s) ==
  /\ s # ws
  /\ socket' = [d \in Sockets |-> IF d = s THEN "connecting"
                                  ELSE IF d \in Live THEN "lost" ELSE "free"]
  /\ ws' = s
  /\ timer' = FALSE
  /\ connected' = FALSE

\* HubStateService.init, once, when the shell component starts.
Start(s) ==
  /\ ws = 0
  /\ Connect(s)
  /\ UNCHANGED <<walVars, timeline, server, crossed>>

\* The timer of scheduleReconnect rings.
TimerFires(s) ==
  /\ timer
  /\ Connect(s)
  /\ UNCHANGED <<walVars, timeline, server, crossed>>

\* onopen: connected, and HubStateService subscribes again.
OnOpen(s) ==
  /\ socket[s] = "accepted"
  /\ socket' = [socket EXCEPT ![s] = "open"]
  /\ connected' = TRUE
  /\ asked' = asked \cup {s}
  /\ UNCHANGED <<walVars, ws, timer, timeline, clients, reading, wire, crossed>>

\* Faulty variants: only a connection that was up is tried again; the flag left.
OnCloseIfConnected(s) ==
  /\ socket[s] = "lost"
  /\ socket' = [socket EXCEPT ![s] = "closed"]
  /\ timer' = connected
  /\ connected' = FALSE
  /\ UNCHANGED <<walVars, ws, timeline, server, crossed>>

OnCloseStale(s) ==
  /\ socket[s] = "lost"
  /\ socket' = [socket EXCEPT ![s] = "closed"]
  /\ timer' = TRUE
  /\ UNCHANGED <<walVars, ws, connected, timeline, server, crossed>>

\* onclose, after onerror or without it: the reconnection in two seconds.
OnClose(s) ==
  /\ socket[s] = "lost"
  /\ socket' = [socket EXCEPT ![s] = "closed"]
  /\ connected' = FALSE
  /\ timer' = TRUE
  /\ UNCHANGED <<walVars, ws, timeline, server, crossed>>

-----------------------------------------------------------------------------
(* HubStateService *)

\* The rows of a snapshot in the order of their epochs.
Ascending(rows) ==
  [i \in 1..Cardinality(rows) |->
    CHOOSE e \in rows : Cardinality({d \in rows : d < e}) = i - 1]

\* Faulty variant: a snapshot goes behind what is there.
ReceiveAppends(s) ==
  /\ socket[s] = "open"
  /\ wire[s] # <<>>
  /\ LET frame == Head(wire[s]) IN
       timeline' = timeline \o (IF frame.type = "clack" THEN <<frame.epoch>>
                                ELSE Ascending(frame.rows))
  /\ wire' = [wire EXCEPT ![s] = Tail(@)]
  /\ UNCHANGED <<walVars, socket, ws, timer, connected, clients, asked, reading, crossed>>

\* onmessage: handleMessage appends a clack, applySnapshot replaces everything.
Receive(s) ==
  /\ socket[s] = "open"
  /\ wire[s] # <<>>
  /\ LET frame == Head(wire[s]) IN
       timeline' = IF frame.type = "clack" THEN Append(timeline, frame.epoch)
                   ELSE Ascending(frame.rows)
  /\ wire' = [wire EXCEPT ![s] = Tail(@)]
  /\ UNCHANGED <<walVars, socket, ws, timer, connected, clients, asked, reading, crossed>>

-----------------------------------------------------------------------------
(* HubWebSocketController *)

\* handleNewConnection: from here on the connection gets broadcasts.
Accept(s) ==
  /\ phase = "serving"
  /\ socket[s] = "connecting"
  /\ socket' = [socket EXCEPT ![s] = "accepted"]
  /\ clients' = clients \cup {s}
  /\ UNCHANGED <<walVars, ws, timer, connected, timeline, asked, reading, wire, crossed>>

\* handle_subscribe, send_snapshot: the read.
ReadSnapshot(s) ==
  /\ phase = "serving"
  /\ s \in asked
  /\ asked' = asked \ {s}
  /\ reading' = [reading EXCEPT ![s] =
       {e \in Stored : Cardinality({d \in Stored : d < e}) < SnapshotLimit}]
  /\ crossed' = FALSE
  /\ UNCHANGED <<walVars, browser, clients, wire>>

\* ... and the send.
SendSnapshot(s) ==
  /\ reading[s] # NotReading
  /\ wire' = [wire EXCEPT ![s] =
       Append(@, [type |-> "snapshot", rows |-> reading[s]])]
  /\ reading' = [reading EXCEPT ![s] = NotReading]
  /\ crossed' = (crossed \/ \E w \in Writers :
                   pc[w] \in {"lock", "listen"} /\ epoch[w] \in reading[s])
  /\ UNCHANGED <<walVars, browser, clients, asked>>

\* broadcast, the end of the listener: one frame to every client.
Broadcast(w) ==
  /\ LeaveListeners(w)
  /\ wire' = [s \in Sockets |->
       IF s \in clients
         THEN Append(wire[s], [type |-> "clack", epoch |-> epoch[w]])
         ELSE wire[s]]
  /\ crossed' = (crossed \/ \E s \in Sockets :
                   reading[s] # NotReading /\ epoch[w] \notin reading[s])
  /\ UNCHANGED <<browser, clients, asked, reading>>

\* A listener throws: there is no broadcast.
Skip(w) == ListenerThrows(w) /\ crossed' = TRUE /\ UNCHANGED <<browser, server>>

-----------------------------------------------------------------------------
(* The network and the hub's process *)

\* Faulty variant: handleConnectionClosed leaves the client in clients_.
GoneKept(gone) ==
  /\ socket' = [s \in Sockets |-> IF s \in gone THEN "lost" ELSE socket[s]]
  /\ asked' = asked \ gone
  /\ reading' = [s \in Sockets |-> IF s \in gone THEN NotReading ELSE reading[s]]
  /\ wire' = [s \in Sockets |-> IF s \in gone THEN <<>> ELSE wire[s]]
  /\ UNCHANGED <<ws, timer, connected, timeline, clients>>

\* The connections of `gone` are over: handleConnectionClosed on one side, what
\* was on the wire is lost, and onclose comes on the other.  The two sides
\* notice together: what the hub sends in between reaches nobody.
Gone(gone) ==
  /\ socket' = [s \in Sockets |-> IF s \in gone THEN "lost" ELSE socket[s]]
  /\ clients' = clients \ gone
  /\ asked' = asked \ gone
  /\ reading' = [s \in Sockets |-> IF s \in gone THEN NotReading ELSE reading[s]]
  /\ wire' = [s \in Sockets |-> IF s \in gone THEN <<>> ELSE wire[s]]
  /\ UNCHANGED <<ws, timer, connected, timeline>>

\* A connection breaks, or an attempt fails.
Break(s) == s \in Live /\ Gone({s}) /\ UNCHANGED <<walVars, crossed>>

HubStops ==
  /\ Stop /\ Gone({s \in Sockets : socket[s] \in {"accepted", "open"}})
  /\ UNCHANGED crossed

-----------------------------------------------------------------------------

Post(w, c) == Begin(w, c) /\ UNCHANGED <<browser, server, crossed>>

BrowserStep(s) == TimerFires(s) \/ OnOpen(s) \/ OnClose(s) \/ Receive(s)
HubStep(s) == ReadSnapshot(s) \/ SendSnapshot(s)

ConsoleNext ==
  \/ (Open \/ Recover) /\ UNCHANGED <<browser, server, crossed>>
  \/ HubStops
  \/ \E s \in Sockets :
       Start(s) \/ BrowserStep(s) \/ Accept(s) \/ HubStep(s) \/ Break(s)
  \/ \E w \in Writers :
       \/ \E c \in Clicks : Post(w, c)
       \/ /\ Put(w) \/ PutFails(w) \/ EnterListeners(w) \/ Publish(w)
          /\ UNCHANGED <<browser, server, crossed>>
       \/ Broadcast(w) \/ Skip(w)

ConsoleSpec == ConsoleInit /\ [][ConsoleNext]_consoleVars

\* The page is opened, its event loop runs and its timers fire.
FairConsoleSpec ==
  /\ ConsoleSpec
  /\ WF_consoleVars(\E s \in Sockets : Start(s) \/ BrowserStep(s))

-----------------------------------------------------------------------------
(* Properties *)

\* The status line tells the truth and there is one connection: `connected`
\* only while the current socket is open or its end has yet to be noticed, never
\* a second live socket, never a pending reconnection beside a live one.
OneConnection ==
  /\ Cardinality(Live) <= 1
  /\ Live # {} => ws \in Live /\ ~timer
  /\ connected => ws # 0 /\ socket[ws] \in {"open", "lost"}

\* The console never gives up: whatever breaks, as often as it may, it has a
\* connection or an attempt at one again and again ("reconnecting socket",
\* ws.service.ts:4).
KeepsTrying == []<>(Live # {})

\* Nothing is on its way to the browser or to the log.
Settled ==
  /\ phase = "serving"
  /\ \A w \in Writers : pc[w] = "idle"
  /\ ws # 0
  /\ socket[ws] = "open"
  /\ ws \notin asked
  /\ reading[ws] = NotReading
  /\ wire[ws] = <<>>

ShowsLog ==
  /\ {timeline[i] : i \in DOMAIN timeline} = Stored
  /\ Len(timeline) = Cardinality(Stored)

\* "Inspecting the ledger in real time" (README.md:41): once things have settled
\* the timeline shows every clack of a log that fits a snapshot, and shows it
\* once, across any reconnections and restarts, unless a broadcast crossed the
\* answer to the last subscription or was skipped.
TimelineComplete ==
  Settled /\ ~crossed /\ Cardinality(Stored) <= SnapshotLimit => ShowsLog

\* The same, whatever crossed.
TimelineFollowsLog ==
  Settled /\ Cardinality(Stored) <= SnapshotLimit => ShowsLog
=============================================================================

------------------------------- MODULE Stdio --------------------------------
(***************************************************************************)
(* The two stdio servers agents start: cc-mcp-bridge                       *)
(* (mcp_bridge_main.cpp), which posts each line to the hub over a          *)
(* connection of its own, and click-clack-mcp (bindings/bun), which hands  *)
(* each line to a hub in its own process through the C API.  The hub       *)
(* process serves the connections on a few event loops (main.cpp); a       *)
(* cc.wait blocks the loop it runs on.                                     *)
(*                                                                         *)
(* The fault model: the hub process dies and is started again, and a       *)
(* connection breaks before the answer, or within it.  A connection that   *)
(* goes silent without breaking is left out.                               *)
(***************************************************************************)
EXTENDS Rpc, FiniteSets

CONSTANTS Clients, \* agents, each with a stdio server
          Lines,   \* the lines each of them may send
          Loops,   \* event loops of the hub
          Kinds,   \* which server each client started
          MaxLines,  \* bound: lines of each client
          MaxFaults, \* bound: hub deaths and broken connections
          NoRequest

Requests == UNION {{b} \X (1..MaxLines[b]) : b \in Clients}

ASSUME StdioAssumption ==
  /\ MaxLines \in [Clients -> Nat] /\ MaxFaults \in Nat
  /\ Kinds \subseteq [Clients -> {"bridge", "embedded"}]
  /\ \A b \in Clients : Lines[b] \subseteq RpcLine
  /\ NoRequest \notin Requests

VARIABLES
  kind,    \* which server each client started
  hub,     \* "up" or "down"
  inbox,   \* the requests each loop has not taken up: <<client, line number>>
  waiting, \* the cc.wait each loop is blocked in, or NoRequest
  since,   \* how many clacks that loop's cc.wait started after
  pc,      \* what each server is doing
  body,    \* the answer it has from its host
  clean,   \* no fault has touched its current request
  caller,  \* the caller_agent_id of an embedded hub's one session
  posts,   \* the clacks appended by cc.post_clack: [by, of, as]
  faults,
  sent, out  \* as in LineServer; an answer also records clean

stdioVars == <<kind, hub, inbox, waiting, since, pc, body, clean, caller, posts,
               faults, sent, out>>

Ids == Numbers \cup Names \cup {"null"}
Codes == ErrorCodes \cup {Done, Page, Fragment}
Replies == [id : Ids, code : Codes]

Identities == {Anonymous} \cup UNION {{l.target : l \in Lines[b]} : b \in Clients}

StdioTypeOK ==
  /\ kind \in Kinds
  /\ hub \in {"up", "down"}
  /\ inbox \in [Loops -> SUBSET Requests]
  /\ waiting \in [Loops -> Requests \cup {NoRequest}]
  /\ since \in [Loops -> Nat]
  /\ pc \in [Clients -> {"read", "dial", "posted", "blocked", "emit"}]
  /\ body \in [Clients -> Replies \cup {NoReply}]
  /\ clean \in [Clients -> BOOLEAN]
  /\ caller \in [Clients -> Identities]
  /\ posts \subseteq [by : Clients, of : Nat \ {0}, as : Identities]
  /\ faults \in 0..MaxFaults
  /\ sent \in [Clients -> Seq(RpcLine)]
  /\ out \in [Clients -> Seq([of : Nat, reply : Replies, clean : BOOLEAN])]
  /\ \A b \in Clients :
       /\ Len(sent[b]) <= MaxLines[b]
       /\ \A i \in DOMAIN out[b] : out[b][i].of \in DOMAIN sent[b]

NoInbox == [l \in Loops |-> {}]
NoWaits == [l \in Loops |-> NoRequest]

StdioInit ==
  /\ kind \in Kinds
  /\ hub = "up" /\ inbox = NoInbox /\ waiting = NoWaits
  /\ since = [l \in Loops |-> 0]
  /\ pc = [b \in Clients |-> "read"]
  /\ body = [b \in Clients |-> NoReply]
  /\ clean = [b \in Clients |-> TRUE]
  /\ caller = [b \in Clients |-> Anonymous]
  /\ posts = {} /\ faults = 0
  /\ sent = [b \in Clients |-> <<>>] /\ out = [b \in Clients |-> <<>>]

Current(b) == <<b, Len(sent[b])>>
Line(q) == sent[q[1]][q[2]]

hubState == <<hub, inbox, waiting, since>>

-----------------------------------------------------------------------------
(* Both servers: the loops over standard input *)

\* getline, or the text up to the next newline.
ReadInput(b) ==
  /\ pc[b] = "read" /\ Len(sent[b]) < MaxLines[b]
  /\ \E l \in Lines[b] : sent' = [sent EXCEPT ![b] = Append(@, l)]
  /\ pc' = [pc EXCEPT ![b] = "dial"]
  /\ clean' = [clean EXCEPT ![b] = TRUE]
  /\ UNCHANGED <<kind, hubState, body, caller, posts, faults, out>>

\* The bridge's test for a notification: no text "id" in the line.
MentionsId(l) == l.id # "none" \/ l.nested

\* A faulty variant: what came back is written, whatever the line was.
WrittenAlways(b) == IF body[b] = NoReply THEN Reply("null", Unreachable) ELSE body[b]

\* What is written for the body that came back, or NoReply for nothing.
Written(b) ==
  IF kind[b] = "embedded" THEN body[b]
  ELSE IF ~MentionsId(Line(Current(b))) THEN NoReply
  ELSE IF body[b] = NoReply THEN Reply("null", Unreachable)
  ELSE body[b]

Emit(b) ==
  /\ pc[b] = "emit"
  /\ out' = IF Written(b) = NoReply THEN out
            ELSE [out EXCEPT ![b] = Append(@,
                    [of |-> Len(sent[b]), reply |-> Written(b), clean |-> clean[b]])]
  /\ pc' = [pc EXCEPT ![b] = "read"]
  /\ body' = [body EXCEPT ![b] = NoReply]
  /\ UNCHANGED <<kind, hubState, clean, caller, posts, faults, sent>>

Post(q, as) == posts \cup {[by |-> q[1], of |-> q[2], as |-> as]}

-----------------------------------------------------------------------------
(* cc-mcp-bridge and the hub process *)

\* post_json: one connection per line; a loop of the hub will read it.
Dial(b) ==
  /\ pc[b] = "dial" /\ kind[b] = "bridge"
  /\ IF hub = "up"
     THEN /\ \E l \in Loops : inbox' = [inbox EXCEPT ![l] = @ \cup {Current(b)}]
          /\ pc' = [pc EXCEPT ![b] = "posted"]
          /\ UNCHANGED clean
     ELSE /\ pc' = [pc EXCEPT ![b] = "emit"]
          /\ clean' = [clean EXCEPT ![b] = FALSE]
          /\ UNCHANGED inbox
  /\ UNCHANGED <<kind, hub, waiting, since, body, caller, posts, faults, sent, out>>

\* The hub answers on the request's connection, if that is still open.
Answers(q, reply) ==
  LET b == q[1] IN
    IF pc[b] = "posted" /\ q = Current(b)
    THEN pc' = [pc EXCEPT ![b] = "emit"] /\ body' = [body EXCEPT ![b] = reply]
    ELSE UNCHANGED <<pc, body>>

\* handle_post on an event loop, with a session of its own.
Handle(l, q) ==
  /\ hub = "up" /\ waiting[l] = NoRequest
  /\ q \in inbox[l]
  /\ inbox' = [inbox EXCEPT ![l] = @ \ {q}]
  /\ IF Calls(Line(q), "cc.wait")
     THEN /\ waiting' = [waiting EXCEPT ![l] = q]
          /\ since' = [since EXCEPT ![l] = Cardinality(posts)]
          /\ UNCHANGED <<pc, body, posts>>
     ELSE /\ Answers(q, HandlePost(Line(q)))
          /\ posts' = IF Calls(Line(q), "cc.post_clack") THEN Post(q, Anonymous) ELSE posts
          /\ UNCHANGED <<waiting, since>>
  /\ UNCHANGED <<kind, hub, clean, caller, faults, sent, out>>

\* The cc.wait that blocks a loop returns.
WaitReturns(l) ==
  /\ waiting[l] # NoRequest
  /\ Answers(waiting[l], HandlePost(Line(waiting[l])))
  /\ waiting' = [waiting EXCEPT ![l] = NoRequest]
  /\ since' = [since EXCEPT ![l] = 0]
  /\ UNCHANGED <<kind, hub, inbox, clean, caller, posts, faults, sent, out>>

\* ... because of a new clack,
Wakes(l) == Cardinality(posts) > since[l] /\ WaitReturns(l)

\* A faulty variant: no deadline.
ExpiresNever(l) == FALSE

\* ... or because a match was there already, or its time is up.
Expires(l) == WaitReturns(l)

HubStops ==
  /\ hub = "up" /\ faults < MaxFaults
  /\ hub' = "down" /\ inbox' = NoInbox /\ waiting' = NoWaits
  /\ since' = [l \in Loops |-> 0]
  /\ faults' = faults + 1
  /\ pc' = [b \in Clients |-> IF pc[b] = "posted" THEN "emit" ELSE pc[b]]
  /\ clean' = [b \in Clients |-> clean[b] /\ pc[b] # "posted"]
  /\ UNCHANGED <<kind, body, caller, posts, sent, out>>

HubStarts ==
  /\ hub = "down" /\ hub' = "up"
  /\ UNCHANGED <<kind, inbox, waiting, since, pc, body, clean, caller, posts,
                 faults, sent, out>>

\* The connection breaks before the answer has begun (the hub may still take the
\* request up), or within it.
Breaks(b) ==
  /\ kind[b] = "bridge" /\ faults < MaxFaults
  /\ \/ pc[b] = "posted" /\ UNCHANGED body
     \/ /\ pc[b] = "emit" /\ body[b] # NoReply
        /\ \E rest \in {NoReply, Reply("null", Fragment)} :
             body' = [body EXCEPT ![b] = rest]
  /\ pc' = [pc EXCEPT ![b] = "emit"]
  /\ clean' = [clean EXCEPT ![b] = FALSE]
  /\ faults' = faults + 1
  /\ UNCHANGED <<kind, hubState, caller, posts, sent, out>>

-----------------------------------------------------------------------------
(* click-clack-mcp *)

\* dispatchLine: the call into the library returns, or blocks in cc.wait.
Dispatched(b) ==
  /\ pc[b] = "dial" /\ kind[b] = "embedded"
  /\ LET l == Line(Current(b)) IN
       IF Calls(l, "cc.wait")
       THEN pc' = [pc EXCEPT ![b] = "blocked"] /\ UNCHANGED <<body, caller, posts>>
       ELSE /\ pc' = [pc EXCEPT ![b] = "emit"]
            /\ body' = [body EXCEPT ![b] = CcHubJsonrpc(l)]
            /\ caller' = [caller EXCEPT ![b] = Caller(l, @)]
            /\ posts' = IF Calls(l, "cc.post_clack")
                        THEN Post(Current(b), caller[b]) ELSE posts
  /\ UNCHANGED <<kind, hubState, clean, faults, sent, out>>

\* Nothing else runs in this process: unless a match was there already, only the
\* deadline ends its cc.wait.
EmbeddedExpires(b) ==
  /\ pc[b] = "blocked"
  /\ pc' = [pc EXCEPT ![b] = "emit"]
  /\ body' = [body EXCEPT ![b] = CcHubJsonrpc(Line(Current(b)))]
  /\ UNCHANGED <<kind, hubState, clean, caller, posts, faults, sent, out>>

-----------------------------------------------------------------------------

Serve(b) == Dial(b) \/ Dispatched(b) \/ EmbeddedExpires(b) \/ Emit(b)

StdioNext ==
  \/ \E b \in Clients : ReadInput(b) \/ Serve(b) \/ Breaks(b)
  \/ \E l \in Loops : (\E q \in Requests : Handle(l, q)) \/ Wakes(l) \/ Expires(l)
  \/ HubStops \/ HubStarts

StdioSpec == StdioInit /\ [][StdioNext]_stdioVars

\* The servers and the hub's threads are scheduled, a loop's poll returns every
\* connection that is ready, and a deadline passes.  Nothing makes a client
\* send, nor the hub be started again.
FairStdioSpec ==
  /\ StdioSpec
  /\ \A b \in Clients : WF_stdioVars(Serve(b))
  /\ \A l \in Loops : WF_stdioVars(Expires(l))
  /\ \A l \in Loops, b \in Clients :
       SF_stdioVars(\E q \in inbox[l] : q[1] = b /\ Handle(l, q))

-----------------------------------------------------------------------------
(* Properties *)

Answered(b) == [i \in DOMAIN out[b] |-> [of |-> out[b][i].of, reply |-> out[b][i].reply]]

LS == INSTANCE LineServer WITH out <- [b \in Clients |-> Answered(b)]

\* Both servers promise what LineServer states (mcp_bridge_main.cpp:5-9,
\* click-clack-mcp.ts:4-7): with the hub dying, coming back and answering
\* requests whose connection is gone, no answer reaches another line than its own.
ImplementsLineServer == LS!LineSpec

\* A request as the protocol means it, for a method whose params are as read.
Proper(l) ==
  l.json /\ l.version = "2.0" /\ l.id \in Numbers \cup Names /\ Kind(l) = "Request" /\ l.typed

\* An answer no fault has touched names the request's id, and a proper request is
\* never told that the hub failed it (dispatcher.hpp:52).
RepliesCorrelate ==
  \A b \in Clients : \A i \in DOMAIN out[b] :
    LET l == sent[b][out[b][i].of] IN
      out[b][i].clean /\ Proper(l) =>
        /\ out[b][i].reply.id = l.id
        /\ out[b][i].reply.code \notin {ParseError, InvalidRequest, InternalError,
                                        Unreachable, Page, Fragment}

\* Each request is answered in the end, though its loop may be blocked by the
\* cc.wait of another client and the hub may die under it.
RequestsAnswered ==
  \A b \in Clients : \A n \in 1..MaxLines[b] :
    (Len(sent[b]) = n /\ Proper(sent[b][n])) ~> (\E i \in DOMAIN out[b] : out[b][i].of = n)

\* The lines before the n-th that named the agent: initialize requests with a
\* name.
Naming(lines, n) ==
  {i \in 1..(n - 1) :
     LET l == lines[i] IN
       /\ l.json /\ l.typed /\ Kind(l) = "Request"
       /\ l.method = "initialize" /\ l.target # ""}

\* The last of them gave this name; without one it is the new session's.
NamedBy(name, lines, n) ==
  LET named == Naming(lines, n) IN
    IF named = {} THEN name = Anonymous
    ELSE \E i \in named : (\A j \in named : j <= i) /\ name = lines[i].target

\* A clack carries the name its session's last named initialize gave: an
\* embedded hub has one session, the hub process one per request (so that there
\* initialize never counts).  No line appends two clacks, and an answered
\* cc.post_clack was appended.
PostsByCaller ==
  /\ \A p \in posts :
       IF kind[p.by] = "bridge" THEN p.as = Anonymous
       ELSE NamedBy(p.as, sent[p.by], p.of)
  /\ \A p, q \in posts : p.by = q.by /\ p.of = q.of => p = q
  /\ \A b \in Clients : \A i \in DOMAIN out[b] :
       /\ Calls(sent[b][out[b][i].of], "cc.post_clack")
       /\ out[b][i].reply.code = Done
       => \E p \in posts : p.by = b /\ p.of = out[b][i].of
=============================================================================

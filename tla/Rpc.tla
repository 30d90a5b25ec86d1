-------------------------------- MODULE Rpc --------------------------------
(***************************************************************************)
(* How the hub answers one JSON-RPC line: mcp/protocol.hpp,                *)
(* mcp/dispatcher.hpp and the two hosts that call them, the POST /mcp      *)
(* endpoint and cc_hub_jsonrpc of the C API.                               *)
(*                                                                         *)
(* A line is reduced to what these branch on: whether it parses (json),    *)
(* its jsonrpc field (version: "2.0", "other", which stands also for a     *)
(* line that is no object, or "mistyped"), its id (a number, a name,       *)
(* "none", "null", or "odd" for one that is neither integer nor string),   *)
(* whether the text "id" occurs elsewhere in it (nested), its method,      *)
(* whether it has a result or an error member, whether its params have the *)
(* types that are read (typed) and what they name (target: a tool, a       *)
(* resource, the client; "" when missing).                                 *)
(***************************************************************************)
EXTENDS Integers, Sequences

\* The error codes of mcp/protocol.hpp and of the bridge.
ParseError == -32700
InvalidRequest == -32600
MethodNotFound == -32601
InvalidParams == -32602
InternalError == -32603
ResourceNotFound == -32002
Unreachable == -32000

ErrorCodes == {ParseError, InvalidRequest, MethodNotFound, InvalidParams,
               InternalError, ResourceNotFound, Unreachable}

Done == 0     \* the code of an answer that carries a result
Page == 1     \* a body that is no JSON-RPC at all
Fragment == 2 \* the beginning of an answer

Reply(id, code) == [id |-> id, code |-> code]
NoReply == Reply("none", Done)  \* an empty body

Numbers == {"1", "2"}   \* the ids that are integers
Names == {"a", "b"}     \* the ids that are strings

\* The lines.
RpcLine ==
  [json : BOOLEAN, version : {"2.0", "other", "mistyped"},
   id : Numbers \cup Names \cup {"none", "null", "odd"}, nested : BOOLEAN,
   method : STRING, result : BOOLEAN, error : BOOLEAN, typed : BOOLEAN, target : STRING]

\* A faulty variant: integers only.
RpcIdIntegers(l) == IF l.id \in Numbers THEN l.id ELSE "null"

\* A faulty variant: an id of any type is kept.
RpcIdVerbatim(l) == l.id

\* RpcId::from_json: an id of another type becomes null.
RpcId(l) == IF l.id \in Numbers \cup Names THEN l.id ELSE "null"

\* classify's has_id.
HasId(l) == l.id \notin {"none", "null"}

\* classify, of a line whose version is not mistyped.
Kind(l) ==
  IF l.version # "2.0" THEN "Invalid"
  ELSE IF l.error /\ HasId(l) THEN "ResponseError"
  ELSE IF l.result /\ HasId(l) THEN "Response"
  ELSE IF l.method = "none" THEN "Invalid"
  ELSE IF HasId(l) THEN "Request" ELSE "Notification"

\* The handlers that read typed members of params; json::value throws there.
ReadsParams == {"initialize", "tools/call", "resources/read"}

OtherMethods == {"ping", "tools/list", "resources/list", "resources/templates/list",
                 "resources/subscribe", "resources/unsubscribe", "prompts/list",
                 "logging/setLevel", "completion/complete"}

\* What escapes classify or a handler as an exception.
Throws(l) ==
  \/ l.version = "mistyped"
  \/ Kind(l) = "Request" /\ l.method \in ReadsParams /\ ~l.typed

\* The names in McpServer's table that the lines call, and the resources.
ToolNames == {"cc.post_clack", "cc.wait"}
Resources == {"cc://timeline", "cc://tasks", "cc://presence", "cc://hitl"}

\* on_tools_call: a tool's own error is a result all the same (isError).
OnToolsCall(l) == IF l.target \in ToolNames THEN Done ELSE InvalidParams

\* on_resources_read
OnResourcesRead(l) ==
  CASE l.target = ""         -> InvalidParams
    [] l.target \in Resources -> Done
    [] OTHER                 -> ResourceNotFound

\* handle_request
RequestCode(l) ==
  CASE l.method = "tools/call"     -> OnToolsCall(l)
    [] l.method = "resources/read" -> OnResourcesRead(l)
    [] l.method \in {"initialize"} \cup OtherMethods -> Done
    [] OTHER -> MethodNotFound

\* Dispatcher::dispatch; the id of an invalid line is only known with version 2.0.
Dispatch(l) ==
  CASE Kind(l) = "Request" -> Reply(RpcId(l), RequestCode(l))
    [] Kind(l) = "Invalid" ->
         Reply(IF l.version = "2.0" THEN RpcId(l) ELSE "null", InvalidRequest)
    [] OTHER -> NoReply

\* McpHttpController::handle_post: the body of the answer; a thrown exception is
\* answered by the server's own page.
HandlePost(l) ==
  IF ~l.json THEN Reply("null", ParseError)
  ELSE IF Throws(l) THEN Reply("null", Page)
  ELSE Dispatch(l)

\* cc_hub_jsonrpc catches the exception, the id is lost.
CcHubJsonrpc(l) ==
  IF ~l.json THEN Reply("null", ParseError)
  ELSE IF Throws(l) THEN Reply("null", InternalError)
  ELSE Dispatch(l)

\* A tools/call that reaches the tool of this name.
Calls(l, tool) ==
  /\ l.json /\ ~Throws(l)
  /\ Kind(l) = "Request" /\ l.method = "tools/call" /\ l.target = tool

Anonymous == "vscode-copilot"  \* the identity a new Session has

\* Faulty variant: any initialize sets the identity, also one without a name.
CallerUnnamed(l, caller) ==
  IF l.json /\ ~Throws(l) /\ Kind(l) = "Request" /\ l.method = "initialize"
  THEN l.target ELSE caller

\* on_initialize: who the session's later calls are made by.
Caller(l, caller) ==
  IF l.json /\ ~Throws(l) /\ Kind(l) = "Request" /\ l.method = "initialize"
     /\ l.target # "" THEN l.target ELSE caller

=============================================================================

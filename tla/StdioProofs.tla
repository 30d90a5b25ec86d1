---------------------------- MODULE StdioProofs ----------------------------
(***************************************************************************)
(* Theorems about Stdio, for any clients, lines, event loops, servers and  *)
(* number of faults.                                                       *)
(***************************************************************************)
EXTENDS Stdio, TLAPS, FiniteSetTheorems, SequenceTheorems

-----------------------------------------------------------------------------
(* What a host answers to a line *)

\* The answer of the host a server of this kind has.
HostAnswer(k, l) == IF k = "bridge" THEN HandlePost(l) ELSE CcHubJsonrpc(l)

\* A request is answered under its own id, or null.
LEMMA RpcIdTyped == \A l : RpcId(l) \in Ids
  BY DEF RpcId, Ids

\* The codes a request that is dispatched may be answered with.
LEMMA RequestCodeOf ==
  ASSUME NEW l
  PROVE  RequestCode(l) \in {Done, InvalidParams, ResourceNotFound, MethodNotFound}
<1>1. OnToolsCall(l) \in {Done, InvalidParams}
  BY DEF OnToolsCall
<1>2. OnResourcesRead(l) \in {InvalidParams, Done, ResourceNotFound}
  BY DEF OnResourcesRead
<1>3. CASE l.method = "tools/call"
  BY <1>1, <1>3 DEF RequestCode, OtherMethods
<1>4. CASE l.method = "resources/read"
  BY <1>2, <1>4 DEF RequestCode, OtherMethods
<1>5. CASE l.method \notin {"tools/call", "resources/read"}
  BY <1>5 DEF RequestCode
<1>6. QED
  BY <1>3, <1>4, <1>5

\* The dispatcher answers with a reply or not at all.
LEMMA DispatchTyped ==
  ASSUME NEW l
  PROVE  Dispatch(l) \in Replies \cup {NoReply}
<1>1. CASE Kind(l) = "Request"
  <2>1. Dispatch(l) = Reply(RpcId(l), RequestCode(l))
    BY <1>1 DEF Dispatch
  <2>2. RequestCode(l) \in Codes
    BY RequestCodeOf DEF Codes, ErrorCodes
  <2>3. QED
    BY <2>1, <2>2, RpcIdTyped DEF Reply, Replies
<1>2. CASE Kind(l) = "Invalid"
  <2>1. \E id \in {RpcId(l), "null"} : Dispatch(l) = Reply(id, InvalidRequest)
    BY <1>2 DEF Dispatch
  <2>2. InvalidRequest \in Codes /\ "null" \in Ids
    BY DEF Codes, ErrorCodes, Ids
  <2>3. QED
    BY <2>1, <2>2, RpcIdTyped DEF Reply, Replies
<1>3. CASE Kind(l) \notin {"Request", "Invalid"}
  BY <1>3 DEF Dispatch
<1>4. QED
  BY <1>1, <1>2, <1>3

\* So do both hosts.
LEMMA HostAnswerTyped ==
  ASSUME NEW k, NEW l
  PROVE  HostAnswer(k, l) \in Replies \cup {NoReply}
<1>1. \A code \in {ParseError, Page, InternalError} : Reply("null", code) \in Replies
  BY DEF Reply, Replies, Ids, Codes, ErrorCodes
<1>2. QED
  BY <1>1, DispatchTyped DEF HostAnswer, HandlePost, CcHubJsonrpc

\* An answer under an id is the same behind either host.
LEMMA SameAnswer ==
  ASSUME NEW k, NEW l, HostAnswer(k, l).id # "null"
  PROVE  HostAnswer(k, l) = CcHubJsonrpc(l)
  BY DEF HostAnswer, HandlePost, CcHubJsonrpc, Reply

\* A request as the protocol means it is dispatched, under its id.
LEMMA ProperAnswer ==
  ASSUME NEW k, NEW l \in RpcLine, Proper(l)
  PROVE  /\ HostAnswer(k, l).id = l.id
         /\ HostAnswer(k, l).code \notin
              {ParseError, InvalidRequest, InternalError, Unreachable, Page, Fragment}
         /\ HostAnswer(k, l) # NoReply
         /\ MentionsId(l)
<1>1. l.json /\ ~Throws(l) /\ Kind(l) = "Request" /\ l.id \in Numbers \cup Names
  BY DEF Proper, Throws
<1>2. HostAnswer(k, l) = Reply(l.id, RequestCode(l))
  BY <1>1 DEF HostAnswer, HandlePost, CcHubJsonrpc, Dispatch, RpcId
<1>3. l.id # "none"
  BY <1>1 DEF Numbers, Names
<1>4. RequestCode(l) \notin
        {ParseError, InvalidRequest, InternalError, Unreachable, Page, Fragment}
  BY RequestCodeOf
  DEF Done, InvalidParams, ResourceNotFound, MethodNotFound, ParseError, InvalidRequest,
      InternalError, Unreachable, Page, Fragment
<1>5. QED
  BY <1>2, <1>3, <1>4 DEF Reply, NoReply, MentionsId

\* A call of a tool is answered with a result.
LEMMA CallAnswer ==
  ASSUME NEW k, NEW l \in RpcLine, NEW tool \in ToolNames, Calls(l, tool)
  PROVE  /\ HostAnswer(k, l) = Reply(RpcId(l), Done) /\ HostAnswer(k, l) # NoReply
         /\ MentionsId(l)
<1>1. HasId(l)
  BY DEF Calls, Kind
<1>2. RequestCode(l) = Done
  BY DEF Calls, RequestCode, OnToolsCall, OtherMethods
<1>3. HostAnswer(k, l) = Reply(RpcId(l), Done)
  BY <1>2 DEF Calls, HostAnswer, HandlePost, CcHubJsonrpc, Dispatch
<1>4. RpcId(l) # "none"
  BY RpcIdTyped DEF Ids, Numbers, Names
<1>5. QED
  BY <1>1, <1>3, <1>4 DEF Reply, NoReply, HasId, MentionsId

\* LineServer reads lines as Stdio does.
LEMMA SameReading ==
  ASSUME NEW l
  PROVE  /\ LS!Kind(l) = Kind(l) /\ LS!RpcId(l) = RpcId(l)
         /\ LS!CcHubJsonrpc(l) = CcHubJsonrpc(l)
         /\ \A id, code : LS!Reply(id, code) = Reply(id, code)
         /\ LS!Done = Done /\ LS!Page = Page /\ LS!Fragment = Fragment
         /\ LS!ErrorCodes = ErrorCodes
<1>1. /\ LS!ParseError = ParseError /\ LS!InvalidRequest = InvalidRequest
      /\ LS!MethodNotFound = MethodNotFound /\ LS!InvalidParams = InvalidParams
      /\ LS!InternalError = InternalError /\ LS!ResourceNotFound = ResourceNotFound
      /\ LS!Unreachable = Unreachable
      /\ LS!Done = Done /\ LS!Page = Page /\ LS!Fragment = Fragment
  BY DEF LS!ParseError, LS!InvalidRequest, LS!MethodNotFound, LS!InvalidParams,
         LS!InternalError, LS!ResourceNotFound, LS!Unreachable, LS!Done, LS!Page,
         LS!Fragment, ParseError, InvalidRequest, MethodNotFound, InvalidParams,
         InternalError, ResourceNotFound, Unreachable, Done, Page, Fragment
<1>2. \A id, code : LS!Reply(id, code) = Reply(id, code)
  BY DEF LS!Reply, Reply
<1>3. LS!NoReply = NoReply
  BY <1>1, <1>2 DEF LS!NoReply, NoReply
<1>4. LS!RpcId(l) = RpcId(l) /\ LS!HasId(l) = HasId(l)
  BY DEF LS!RpcId, RpcId, LS!HasId, HasId, LS!Numbers, Numbers, LS!Names, Names
<1>5. LS!Kind(l) = Kind(l)
  BY <1>4 DEF LS!Kind, Kind
<1>6. LS!Throws(l) = Throws(l)
  BY <1>5 DEF LS!Throws, Throws, LS!ReadsParams, ReadsParams
<1>7. LS!RequestCode(l) = RequestCode(l)
  <2>1. LS!OnToolsCall(l) = OnToolsCall(l)
    BY <1>1 DEF LS!OnToolsCall, OnToolsCall, LS!ToolNames, ToolNames
  <2>2. LS!OnResourcesRead(l) = OnResourcesRead(l)
    BY <1>1 DEF LS!OnResourcesRead, OnResourcesRead, LS!Resources, Resources
  <2>3. QED
    BY <1>1, <2>1, <2>2 DEF LS!RequestCode, RequestCode, LS!OtherMethods, OtherMethods
<1>8. LS!Dispatch(l) = Dispatch(l)
  BY <1>1, <1>2, <1>3, <1>4, <1>5, <1>7 DEF LS!Dispatch, Dispatch
<1>9. LS!CcHubJsonrpc(l) = CcHubJsonrpc(l)
  BY <1>1, <1>2, <1>6, <1>8 DEF LS!CcHubJsonrpc, CcHubJsonrpc
<1>10. LS!ErrorCodes = ErrorCodes
  BY <1>1 DEF LS!ErrorCodes, ErrorCodes
<1>11. QED
  BY <1>1, <1>2, <1>4, <1>5, <1>9, <1>10

\* A plain notification is not answered by the library, and the bridge sees no id.
LEMMA PlainAnswer ==
  ASSUME NEW l \in RpcLine, LS!Plain(l)
  PROVE  CcHubJsonrpc(l) = NoReply /\ ~MentionsId(l)
<1>1. /\ l.json /\ l.version = "2.0" /\ Kind(l) = "Notification" /\ ~MentionsId(l)
  BY SameReading DEF LS!Plain, MentionsId
<1>2. ~Throws(l)
  BY <1>1 DEF Throws
<1>3. Dispatch(l) = NoReply
  BY <1>1 DEF Dispatch
<1>4. QED
  BY <1>1, <1>2, <1>3 DEF CcHubJsonrpc
-----------------------------------------------------------------------------
(* The inductive invariant *)

\* The line a server is at.
LastLine(b) == sent[b][Len(sent[b])]

\* Clients send their own lines.
SentLines == \A b \in Clients : \A i \in DOMAIN sent[b] : sent[b][i] \in Lines[b]

\* A server answers one line at a time: what it holds is its host's answer to the
\* line it is at, unless a fault has cut that short.
ServerInv(b) ==
  /\ pc[b] = "posted" => kind[b] = "bridge"
  /\ pc[b] = "blocked" => kind[b] = "embedded" /\ Calls(LastLine(b), "cc.wait")
  /\ pc[b] # "read" => Len(sent[b]) > 0
  /\ pc[b] # "emit" => body[b] = NoReply
  /\ pc[b] = "emit" =>
       \/ body[b] = HostAnswer(kind[b], LastLine(b))
       \/ /\ kind[b] = "bridge" /\ ~clean[b]
          /\ body[b] \in {NoReply, Reply("null", Fragment)}
  /\ \A i \in DOMAIN out[b] :
       out[b][i].of <= Len(sent[b]) /\ (pc[b] # "read" => out[b][i].of < Len(sent[b]))

ServersInv == StdioTypeOK /\ SentLines /\ \A b \in Clients : ServerInv(b)

\* The n-th line of a client has been sent on.
Behind(b, n) == n <= Len(sent[b]) /\ (pc[b] = "dial" => n < Len(sent[b]))

\* A queued request is of a bridge, queued once, and has appended nothing yet.
Queued ==
  \A l \in Loops : \A q \in inbox[l] :
    /\ kind[q[1]] = "bridge" /\ Behind(q[1], q[2])
    /\ \A p \in posts : p.by = q[1] => p.of # q[2]
    /\ \A m \in Loops : q \in inbox[m] => m = l

\* What blocks a loop is a cc.wait.
Waits ==
  \A l \in Loops : waiting[l] # NoRequest =>
    waiting[l][2] <= Len(sent[waiting[l][1]]) /\ Calls(Line(waiting[l]), "cc.wait")

\* A line appends one clack at most, once it is taken up.
PostedOnce ==
  /\ \A p \in posts : Behind(p.by, p.of)
  /\ \A p, q \in posts : p.by = q.by /\ p.of = q.of => p = q

\* The session of an embedded hub has the name the lines dispatched gave it.
CallerNamed ==
  \A b \in Clients : kind[b] = "embedded" =>
    NamedBy(caller[b], sent[b],
            IF pc[b] \in {"dial", "blocked"} THEN Len(sent[b]) ELSE Len(sent[b]) + 1)

PostsNamed ==
  \A p \in posts :
    IF kind[p.by] = "bridge" THEN p.as = Anonymous ELSE NamedBy(p.as, sent[p.by], p.of)

\* A cc.post_clack whose host has answered was appended.
Appended(b, n) == \E p \in posts : p.by = b /\ p.of = n

AnswersAppended ==
  \A b \in Clients :
    /\ /\ pc[b] = "emit" /\ Calls(LastLine(b), "cc.post_clack")
       /\ body[b] = HostAnswer(kind[b], LastLine(b))
       => Appended(b, Len(sent[b]))
    /\ \A i \in DOMAIN out[b] :
         /\ Calls(sent[b][out[b][i].of], "cc.post_clack")
         /\ out[b][i].reply.code = Done
         => Appended(b, out[b][i].of)

PostsInv ==
  Queued /\ Waits /\ PostedOnce /\ CallerNamed /\ PostsNamed /\ AnswersAppended

-----------------------------------------------------------------------------
(* Every step of a server keeps its part *)

\* The line a server is at is one of its client's.
LEMMA AtLine ==
  ASSUME ServersInv, NEW b \in Clients, pc[b] # "read"
  PROVE  /\ Len(sent[b]) \in 1..MaxLines[b]
         /\ LastLine(b) \in RpcLine /\ LastLine(b) \in Lines[b]
         /\ Current(b) \in Requests
         /\ Current(b)[1] = b /\ Current(b)[2] = Len(sent[b])
         /\ Line(Current(b)) = LastLine(b)
<1>1. sent[b] \in Seq(RpcLine) /\ Len(sent[b]) > 0 /\ Len(sent[b]) <= MaxLines[b]
      /\ MaxLines[b] \in Nat
  BY StdioAssumption DEF ServersInv, ServerInv, StdioTypeOK
<1>2. Len(sent[b]) \in 1..MaxLines[b] /\ Len(sent[b]) \in DOMAIN sent[b]
  BY <1>1
<1>3. LastLine(b) \in RpcLine /\ LastLine(b) \in Lines[b]
  BY <1>1, <1>2 DEF LastLine, ServersInv, SentLines
<1>4. Current(b) \in {b} \X (1..MaxLines[b])
  BY <1>2 DEF Current
<1>5. QED
  BY <1>2, <1>3, <1>4 DEF Requests, Current, Line, LastLine

\* A server no step touches keeps its part.
LEMMA ServerStays ==
  ASSUME NEW b \in Clients, ServerInv(b), kind' = kind, pc'[b] = pc[b], body'[b] = body[b],
         clean'[b] = clean[b], sent'[b] = sent[b], out'[b] = out[b]
  PROVE  ServerInv(b)'
  BY DEF ServerInv, LastLine

\* What a server holds is its answer to its line: reading a line keeps that, ...
LEMMA ReadInputServes ==
  ASSUME ServersInv, NEW b \in Clients, ReadInput(b)
  PROVE  ServersInv'
<1>1. PICK l \in Lines[b] : sent' = [sent EXCEPT ![b] = Append(@, l)]
  BY DEF ReadInput
<1>2. /\ l \in RpcLine /\ sent \in [Clients -> Seq(RpcLine)] /\ sent[b] \in Seq(RpcLine)
      /\ Len(sent[b]) < MaxLines[b] /\ MaxLines[b] \in Nat /\ pc[b] = "read"
      /\ out \in [Clients -> Seq([of : Nat, reply : Replies, clean : BOOLEAN])]
  BY StdioAssumption DEF ServersInv, StdioTypeOK, ReadInput
<1>3. /\ sent' \in [Clients -> Seq(RpcLine)]
      /\ sent'[b] = Append(sent[b], l)
      /\ Len(sent[b]) \in Nat /\ Len(sent'[b]) = Len(sent[b]) + 1
      /\ DOMAIN sent[b] = 1..Len(sent[b]) /\ DOMAIN sent'[b] = 1..(Len(sent[b]) + 1)
      /\ \A i \in DOMAIN sent[b] : sent'[b][i] = sent[b][i]
      /\ sent'[b][Len(sent[b]) + 1] = l
      /\ \A a \in Clients \ {b} : sent'[a] = sent[a]
  BY <1>1, <1>2
<1>4. /\ UNCHANGED <<kind, hub, inbox, waiting, since, body, caller, posts, faults, out>>
      /\ pc' = [pc EXCEPT ![b] = "dial"] /\ clean' = [clean EXCEPT ![b] = TRUE]
  BY DEF ReadInput, hubState
<1>5. StdioTypeOK'
  <2>1. ASSUME NEW a \in Clients
        PROVE  Len(sent'[a]) <= MaxLines[a] /\ \A i \in DOMAIN out'[a] : out'[a][i].of \in DOMAIN sent'[a]
    <3>1. CASE a = b
      BY <1>2, <1>3, <1>4, <3>1 DEF ServersInv, StdioTypeOK
    <3>2. CASE a # b
      BY <1>3, <1>4, <3>2 DEF ServersInv, StdioTypeOK
    <3>3. QED
      BY <3>1, <3>2
  <2>2. pc' \in [Clients -> {"read", "dial", "posted", "blocked", "emit"}]
        /\ clean' \in [Clients -> BOOLEAN]
    BY <1>4 DEF ServersInv, StdioTypeOK
  <2>3. QED
    BY <1>3, <1>4, <2>1, <2>2 DEF ServersInv, StdioTypeOK
<1>6. SentLines'
  <2> SUFFICES ASSUME NEW a \in Clients, NEW i \in DOMAIN sent'[a] PROVE sent'[a][i] \in Lines[a]
    BY DEF SentLines
  <2>1. CASE a = b /\ i \in DOMAIN sent[b]
    BY <1>3, <2>1 DEF ServersInv, SentLines
  <2>2. CASE a = b /\ i = Len(sent[b]) + 1
    BY <1>3, <2>2
  <2>3. CASE a # b
    BY <1>3, <2>3 DEF ServersInv, SentLines
  <2>4. QED
    BY <1>3, <2>1, <2>2, <2>3
<1>7. ServerInv(b)'
  <2>1. pc'[b] = "dial" /\ body'[b] = body[b] /\ body[b] = NoReply
    BY <1>2, <1>4 DEF ServersInv, ServerInv, StdioTypeOK
  <2>2. ASSUME NEW i \in DOMAIN out'[b] PROVE out'[b][i].of <= Len(sent'[b]) /\ out'[b][i].of < Len(sent'[b])
    <3>1. i \in DOMAIN out[b] /\ out[b][i].of \in DOMAIN sent[b]
      BY <1>4 DEF ServersInv, StdioTypeOK
    <3>2. QED
      BY <1>3, <1>4, <3>1
  <2>3. QED
    BY <1>3, <2>1, <2>2 DEF ServerInv
<1>8. ASSUME NEW a \in Clients, a # b PROVE ServerInv(a)'
  BY <1>3, <1>4, <1>8, ServerStays DEF ServersInv, StdioTypeOK
<1>9. QED
  BY <1>5, <1>6, <1>7, <1>8 DEF ServersInv

\* A step that reads and writes no line keeps the invariant if it keeps the types
\* and each server's part.
LEMMA SilentServes ==
  ASSUME ServersInv, UNCHANGED <<kind, sent, out>>,
         hub' \in {"up", "down"}, inbox' \in [Loops -> SUBSET Requests],
         waiting' \in [Loops -> Requests \cup {NoRequest}], since' \in [Loops -> Nat],
         pc' \in [Clients -> {"read", "dial", "posted", "blocked", "emit"}],
         body' \in [Clients -> Replies \cup {NoReply}],
         clean' \in [Clients -> BOOLEAN], caller' \in [Clients -> Identities],
         posts' \subseteq [by : Clients, of : Nat \ {0}, as : Identities],
         faults' \in 0..MaxFaults,
         \A b \in Clients : ServerInv(b)'
  PROVE  ServersInv'
<1>1. StdioTypeOK'
  BY DEF ServersInv, StdioTypeOK
<1>2. SentLines'
  BY DEF ServersInv, SentLines
<1>3. QED
  BY <1>1, <1>2 DEF ServersInv

\* A clack a line appends is of its types.
LEMMA PostTyped ==
  ASSUME ServersInv, NEW q \in Requests, NEW as \in Identities
  PROVE  Post(q, as) \subseteq [by : Clients, of : Nat \ {0}, as : Identities]
<1>1. q[1] \in Clients /\ q[2] \in Nat \ {0}
  BY StdioAssumption DEF Requests
<1> DEFINE clack == [by |-> q[1], of |-> q[2], as |-> as]
           clacks == [by : Clients, of : Nat \ {0}, as : Identities]
<1>2. clack \in clacks /\ posts \in SUBSET clacks /\ Post(q, as) = posts \cup {clack}
  BY <1>1 DEF Post, ServersInv, StdioTypeOK
<1> HIDE DEF clack, clacks
<1>3. Post(q, as) \subseteq clacks
  BY <1>2
<1>4. QED
  BY <1>3 DEF clacks

\* ... a connection brings a request to a loop, ...
LEMMA DialServes ==
  ASSUME ServersInv, NEW b \in Clients, Dial(b)
  PROVE  ServersInv'
<1>0. /\ pc[b] = "dial" /\ kind[b] = "bridge" /\ ServerInv(b) /\ StdioTypeOK
      /\ UNCHANGED <<kind, hub, waiting, since, body, caller, posts, faults, sent, out>>
  BY DEF Dial, ServersInv
<1>1. Current(b) \in Requests
  BY <1>0, AtLine
<1>2. CASE hub = "up"
  <2>1. PICK l \in Loops : inbox' = [inbox EXCEPT ![l] = @ \cup {Current(b)}]
    BY <1>2 DEF Dial
  <2>2. inbox' \in [Loops -> SUBSET Requests]
    BY <1>0, <1>1, <2>1 DEF StdioTypeOK
  <2>3. pc' = [pc EXCEPT ![b] = "posted"] /\ UNCHANGED clean
    BY <1>2 DEF Dial
  <2>4. pc' \in [Clients -> {"read", "dial", "posted", "blocked", "emit"}]
        /\ pc'[b] = "posted" /\ \A a \in Clients : a # b => pc'[a] = pc[a]
    BY <1>0, <2>3 DEF StdioTypeOK
  <2>5. ServerInv(b)'
    BY <1>0, <2>3, <2>4 DEF ServerInv, LastLine
  <2>6. ASSUME NEW a \in Clients, a # b PROVE ServerInv(a)'
    BY <1>0, <2>3, <2>4, <2>6, ServerStays DEF ServersInv
  <2>7. QED
    BY <1>0, <2>2, <2>3, <2>4, <2>5, <2>6, SilentServes DEF StdioTypeOK
<1>3. CASE hub # "up"
  <2>1. /\ pc' = [pc EXCEPT ![b] = "emit"] /\ clean' = [clean EXCEPT ![b] = FALSE]
        /\ UNCHANGED inbox
    BY <1>3 DEF Dial
  <2>2. pc' \in [Clients -> {"read", "dial", "posted", "blocked", "emit"}]
        /\ clean' \in [Clients -> BOOLEAN] /\ pc'[b] = "emit" /\ clean'[b] = FALSE
        /\ \A a \in Clients : a # b => pc'[a] = pc[a] /\ clean'[a] = clean[a]
    BY <1>0, <2>1 DEF StdioTypeOK
  <2>3. ServerInv(b)'
    BY <1>0, <2>1, <2>2 DEF ServerInv, LastLine
  <2>4. ASSUME NEW a \in Clients, a # b PROVE ServerInv(a)'
    BY <1>0, <2>1, <2>2, <2>4, ServerStays DEF ServersInv
  <2>5. QED
    BY <1>0, <2>1, <2>2, <2>3, <2>4, SilentServes DEF StdioTypeOK
<1>4. QED
  BY <1>2, <1>3

\* The hub's answer to a request leaves every server's part.
LEMMA AnswersServe ==
  ASSUME ServersInv, NEW q \in Requests, Answers(q, HandlePost(Line(q))),
         UNCHANGED <<kind, clean, sent, out>>
  PROVE  /\ pc' \in [Clients -> {"read", "dial", "posted", "blocked", "emit"}]
         /\ body' \in [Clients -> Replies \cup {NoReply}]
         /\ \A b \in Clients : ServerInv(b)'
<1> DEFINE b == q[1]
           reply == HandlePost(Line(q))
<1>1. b \in Clients
  BY DEF Requests
<1>2. CASE pc[b] = "posted" /\ q = Current(b)
  <2>1. pc' = [pc EXCEPT ![b] = "emit"] /\ body' = [body EXCEPT ![b] = reply]
    BY <1>2 DEF Answers
  <2>2. ServerInv(b) /\ kind[b] = "bridge" /\ Line(q) = LastLine(b)
    BY <1>1, <1>2, AtLine DEF ServersInv, ServerInv
  <2>3. reply = HostAnswer(kind[b], LastLine(b)) /\ reply \in Replies \cup {NoReply}
    BY <2>2, HostAnswerTyped DEF HostAnswer
  <2> HIDE DEF b, reply
  <2>4. /\ pc' \in [Clients -> {"read", "dial", "posted", "blocked", "emit"}]
        /\ pc'[b] = "emit" /\ \A a \in Clients : a # b => pc'[a] = pc[a]
    BY <1>1, <2>1 DEF ServersInv, StdioTypeOK
  <2>5. /\ body' \in [Clients -> Replies \cup {NoReply}]
        /\ body'[b] = reply /\ \A a \in Clients : a # b => body'[a] = body[a]
    BY <1>1, <2>1, <2>3 DEF ServersInv, StdioTypeOK
  <2>6. LastLine(b)' = LastLine(b)
    BY DEF LastLine
  <2>7. ServerInv(b)'
    BY <1>2, <2>2, <2>3, <2>4, <2>5, <2>6 DEF ServerInv
  <2>8. ASSUME NEW a \in Clients, a # b PROVE ServerInv(a)'
    BY <2>4, <2>5, <2>8, ServerStays DEF ServersInv
  <2>9. QED
    BY <2>4, <2>5, <2>7, <2>8
<1>3. CASE ~(pc[b] = "posted" /\ q = Current(b))
  <2>1. UNCHANGED <<pc, body>>
    BY <1>3 DEF Answers
  <2>2. ASSUME NEW a \in Clients PROVE ServerInv(a)'
    BY <2>1, ServerStays DEF ServersInv
  <2>3. QED
    BY <2>1, <2>2 DEF ServersInv, StdioTypeOK
<1>4. QED
  BY <1>2, <1>3

\* ... a loop answers as its host does, or waits, ...
LEMMA HandleServes ==
  ASSUME ServersInv, NEW l \in Loops, NEW q \in Requests, Handle(l, q),
         IsFiniteSet(posts)
  PROVE  ServersInv'
<1>0. StdioTypeOK /\ UNCHANGED <<kind, hub, clean, caller, faults, sent, out>>
  BY DEF Handle, ServersInv
<1>1. inbox' \in [Loops -> SUBSET Requests]
  BY <1>0 DEF Handle, StdioTypeOK
<1>2. CASE Calls(Line(q), "cc.wait")
  <2>1. /\ waiting' = [waiting EXCEPT ![l] = q]
        /\ since' = [since EXCEPT ![l] = Cardinality(posts)]
        /\ UNCHANGED <<pc, body, posts>>
    BY <1>2 DEF Handle
  <2>2. Cardinality(posts) \in Nat
    BY FS_CardinalityType
  <2>3. waiting' \in [Loops -> Requests \cup {NoRequest}] /\ since' \in [Loops -> Nat]
    BY <1>0, <2>1, <2>2 DEF StdioTypeOK
  <2>4. ASSUME NEW a \in Clients PROVE ServerInv(a)'
    BY <1>0, <2>1, ServerStays DEF ServersInv
  <2>5. QED
    BY <1>0, <1>1, <2>1, <2>3, <2>4, SilentServes DEF StdioTypeOK
<1>3. CASE ~Calls(Line(q), "cc.wait")
  <2>1. /\ Answers(q, HandlePost(Line(q)))
        /\ posts' = IF Calls(Line(q), "cc.post_clack") THEN Post(q, Anonymous) ELSE posts
        /\ UNCHANGED <<waiting, since>>
    BY <1>3 DEF Handle
  <2>2. posts' \subseteq [by : Clients, of : Nat \ {0}, as : Identities]
    <3>1. Anonymous \in Identities
      BY DEF Identities
    <3>2. QED
      BY <1>0, <2>1, <3>1, PostTyped DEF StdioTypeOK
  <2>3. QED
    BY <1>0, <1>1, <2>1, <2>2, AnswersServe, SilentServes DEF StdioTypeOK
<1>4. QED
  BY <1>2, <1>3

\* ... a wait that returns answers its own request, ...
LEMMA WaitReturnServes ==
  ASSUME ServersInv, NEW l \in Loops, WaitReturns(l)
  PROVE  ServersInv'
<1>0. StdioTypeOK /\ UNCHANGED <<kind, hub, inbox, clean, caller, posts, faults, sent, out>>
      /\ Answers(waiting[l], HandlePost(Line(waiting[l])))
  BY DEF WaitReturns, ServersInv
<1>1. waiting[l] \in Requests
  BY <1>0 DEF WaitReturns, StdioTypeOK
<1>2. waiting' \in [Loops -> Requests \cup {NoRequest}] /\ since' \in [Loops -> Nat]
  BY <1>0 DEF WaitReturns, StdioTypeOK
<1>3. /\ pc' \in [Clients -> {"read", "dial", "posted", "blocked", "emit"}]
      /\ body' \in [Clients -> Replies \cup {NoReply}]
      /\ \A b \in Clients : ServerInv(b)'
  BY <1>0, <1>1, AnswersServe
<1>4. QED
  BY <1>0, <1>2, <1>3, SilentServes DEF StdioTypeOK

\* A name an initialize gives is one of the identities.
LEMMA CallerTyped ==
  ASSUME NEW b \in Clients, NEW l \in Lines[b], NEW c \in Identities
  PROVE  Caller(l, c) \in Identities
<1>1. l.target \in Identities
  BY DEF Identities
<1>2. QED
  BY <1>1 DEF Caller

\* ... the embedded server answers itself, ...
LEMMA DispatchedServes ==
  ASSUME ServersInv, NEW b \in Clients, Dispatched(b)
  PROVE  ServersInv'
<1> DEFINE l == Line(Current(b))
<1>0. /\ pc[b] = "dial" /\ kind[b] = "embedded" /\ ServerInv(b) /\ StdioTypeOK
      /\ UNCHANGED <<kind, hub, inbox, waiting, since, clean, faults, sent, out>>
  BY DEF Dispatched, ServersInv, hubState
<1>1. /\ l = LastLine(b) /\ l \in RpcLine /\ l \in Lines[b] /\ Current(b) \in Requests
      /\ LastLine(b)' = LastLine(b)
  BY <1>0, AtLine DEF LastLine
<1>2. CASE Calls(l, "cc.wait")
  <2>1. pc' = [pc EXCEPT ![b] = "blocked"] /\ UNCHANGED <<body, caller, posts>>
    BY <1>2 DEF Dispatched
  <2>2. /\ pc' \in [Clients -> {"read", "dial", "posted", "blocked", "emit"}]
        /\ pc'[b] = "blocked" /\ \A a \in Clients : a # b => pc'[a] = pc[a]
    BY <1>0, <2>1 DEF StdioTypeOK
  <2>3. ServerInv(b)'
    BY <1>0, <1>1, <1>2, <2>1, <2>2 DEF ServerInv
  <2>4. ASSUME NEW a \in Clients, a # b PROVE ServerInv(a)'
    BY <1>0, <2>1, <2>2, <2>4, ServerStays DEF ServersInv
  <2>5. QED
    BY <1>0, <2>1, <2>2, <2>3, <2>4, SilentServes DEF StdioTypeOK
<1>3. CASE ~Calls(l, "cc.wait")
  <2>1. /\ pc' = [pc EXCEPT ![b] = "emit"]
        /\ body' = [body EXCEPT ![b] = CcHubJsonrpc(l)]
        /\ caller' = [caller EXCEPT ![b] = Caller(l, @)]
        /\ posts' = IF Calls(l, "cc.post_clack") THEN Post(Current(b), caller[b]) ELSE posts
    BY <1>3 DEF Dispatched
  <2>2. /\ CcHubJsonrpc(l) = HostAnswer(kind[b], LastLine(b))
        /\ CcHubJsonrpc(l) \in Replies \cup {NoReply}
    <3>1. CcHubJsonrpc(l) = HostAnswer(kind[b], l)
      BY <1>0 DEF HostAnswer
    <3>2. QED
      BY <1>1, <3>1, HostAnswerTyped
  <2>3. caller[b] \in Identities /\ Caller(l, caller[b]) \in Identities
    BY <1>0, <1>1, CallerTyped DEF StdioTypeOK
  <2>4. posts' \subseteq [by : Clients, of : Nat \ {0}, as : Identities]
    BY <1>0, <1>1, <2>1, <2>3, PostTyped DEF StdioTypeOK
  <2> HIDE DEF l
  <2>5. caller' \in [Clients -> Identities]
    BY <1>0, <2>1, <2>3 DEF StdioTypeOK
  <2>6. /\ pc' \in [Clients -> {"read", "dial", "posted", "blocked", "emit"}]
        /\ pc'[b] = "emit" /\ \A a \in Clients : a # b => pc'[a] = pc[a]
    BY <1>0, <2>1 DEF StdioTypeOK
  <2>7. /\ body' \in [Clients -> Replies \cup {NoReply}]
        /\ body'[b] = CcHubJsonrpc(l) /\ \A a \in Clients : a # b => body'[a] = body[a]
    BY <1>0, <2>1, <2>2 DEF StdioTypeOK
  <2>8. ServerInv(b)'
    BY <1>0, <1>1, <2>2, <2>6, <2>7 DEF ServerInv
  <2>9. ASSUME NEW a \in Clients, a # b PROVE ServerInv(a)'
    BY <1>0, <2>6, <2>7, <2>9, ServerStays DEF ServersInv
  <2>10. QED
    BY <1>0, <2>4, <2>5, <2>6, <2>7, <2>8, <2>9, SilentServes DEF StdioTypeOK
<1>4. QED
  BY <1>2, <1>3

\* ... or ends its wait, ...
LEMMA EmbeddedExpiresServes ==
  ASSUME ServersInv, NEW b \in Clients, EmbeddedExpires(b)
  PROVE  ServersInv'
<1>0. /\ pc[b] = "blocked" /\ ServerInv(b) /\ StdioTypeOK
      /\ UNCHANGED <<kind, hub, inbox, waiting, since, clean, caller, posts, faults, sent, out>>
      /\ pc' = [pc EXCEPT ![b] = "emit"]
  BY DEF EmbeddedExpires, ServersInv, hubState
<1> DEFINE answer == CcHubJsonrpc(LastLine(b))
<1>1. body' = [body EXCEPT ![b] = answer] /\ LastLine(b)' = LastLine(b)
  BY <1>0, AtLine DEF EmbeddedExpires, LastLine
<1>2. answer = HostAnswer(kind[b], LastLine(b))
  BY <1>0 DEF ServerInv, HostAnswer
<1>3. answer \in Replies \cup {NoReply}
  BY <1>2, HostAnswerTyped
<1> HIDE DEF answer
<1>4. /\ pc' \in [Clients -> {"read", "dial", "posted", "blocked", "emit"}]
      /\ pc'[b] = "emit" /\ \A a \in Clients : a # b => pc'[a] = pc[a]
  BY <1>0 DEF StdioTypeOK
<1>5. /\ body' \in [Clients -> Replies \cup {NoReply}]
      /\ body'[b] = answer /\ \A a \in Clients : a # b => body'[a] = body[a]
  BY <1>0, <1>1, <1>3 DEF StdioTypeOK
<1>6. ServerInv(b)'
  BY <1>0, <1>1, <1>2, <1>4, <1>5 DEF ServerInv
<1>7. ASSUME NEW a \in Clients, a # b PROVE ServerInv(a)'
  BY <1>0, <1>4, <1>5, <1>7, ServerStays DEF ServersInv
<1>8. QED
  BY <1>0, <1>4, <1>5, <1>6, <1>7, SilentServes DEF StdioTypeOK

\* ... a broken connection leaves a part of the answer or none, ...
LEMMA BreaksServes ==
  ASSUME ServersInv, NEW b \in Clients, Breaks(b)
  PROVE  ServersInv'
<1>0. /\ pc[b] \in {"posted", "emit"} /\ kind[b] = "bridge" /\ ServerInv(b) /\ StdioTypeOK
      /\ UNCHANGED <<kind, hub, inbox, waiting, since, caller, posts, sent, out>>
      /\ pc' = [pc EXCEPT ![b] = "emit"] /\ clean' = [clean EXCEPT ![b] = FALSE]
      /\ faults' = faults + 1 /\ faults < MaxFaults
  BY DEF Breaks, ServersInv, hubState
<1> DEFINE cut == Reply("null", Fragment)
<1>1. \E rest \in {NoReply, cut} : body' = [body EXCEPT ![b] = rest]
  <2>1. CASE pc[b] = "posted" /\ UNCHANGED body
    BY <1>0, <2>1 DEF ServerInv, StdioTypeOK
  <2>2. CASE \E rest \in {NoReply, cut} : body' = [body EXCEPT ![b] = rest]
    BY <2>2
  <2>3. QED
    BY <2>1, <2>2 DEF Breaks
<1>2. cut \in Replies
  BY DEF Reply, Replies, Ids, Codes
<1> HIDE DEF cut
<1>3. /\ pc' \in [Clients -> {"read", "dial", "posted", "blocked", "emit"}]
      /\ clean' \in [Clients -> BOOLEAN]
      /\ pc'[b] = "emit" /\ clean'[b] = FALSE
      /\ \A a \in Clients : a # b => pc'[a] = pc[a] /\ clean'[a] = clean[a]
  BY <1>0 DEF StdioTypeOK
<1>4. /\ body' \in [Clients -> Replies \cup {NoReply}]
      /\ body'[b] \in {NoReply, cut} /\ \A a \in Clients : a # b => body'[a] = body[a]
  BY <1>0, <1>1, <1>2 DEF StdioTypeOK
<1>5. ServerInv(b)'
  BY <1>0, <1>3, <1>4 DEF ServerInv, cut
<1>6. ASSUME NEW a \in Clients, a # b PROVE ServerInv(a)'
  BY <1>0, <1>3, <1>4, <1>6, ServerStays DEF ServersInv
<1>7. faults' \in 0..MaxFaults
  BY <1>0, StdioAssumption DEF StdioTypeOK
<1>8. QED
  BY <1>0, <1>3, <1>4, <1>5, <1>6, <1>7, SilentServes DEF StdioTypeOK

\* ... so does the end of the hub, ...
LEMMA HubStopsServes ==
  ASSUME ServersInv, HubStops
  PROVE  ServersInv'
<1>0. /\ StdioTypeOK /\ UNCHANGED <<kind, body, caller, posts, sent, out>>
      /\ hub' = "down" /\ inbox' = NoInbox /\ waiting' = NoWaits
      /\ since' = [l \in Loops |-> 0] /\ faults' = faults + 1 /\ faults < MaxFaults
      /\ pc' = [b \in Clients |-> IF pc[b] = "posted" THEN "emit" ELSE pc[b]]
      /\ clean' = [b \in Clients |-> clean[b] /\ pc[b] # "posted"]
  BY DEF HubStops, ServersInv
<1>1. /\ inbox' \in [Loops -> SUBSET Requests] /\ since' \in [Loops -> Nat]
      /\ waiting' \in [Loops -> Requests \cup {NoRequest}]
  BY <1>0 DEF NoInbox, NoWaits
<1>2. faults' \in 0..MaxFaults
  BY <1>0, StdioAssumption DEF StdioTypeOK
<1>3. /\ pc' \in [Clients -> {"read", "dial", "posted", "blocked", "emit"}]
      /\ clean' \in [Clients -> BOOLEAN]
  BY <1>0 DEF StdioTypeOK
<1>4. ASSUME NEW a \in Clients PROVE ServerInv(a)'
  <2>1. ServerInv(a) /\ LastLine(a)' = LastLine(a)
    BY <1>0 DEF ServersInv, LastLine
  <2>2. CASE pc[a] = "posted"
    <3>1. pc'[a] = "emit" /\ clean'[a] = FALSE
      BY <1>0, <2>2
    <3>2. QED
      BY <1>0, <2>1, <2>2, <3>1 DEF ServerInv
  <2>3. CASE pc[a] # "posted"
    <3>1. pc'[a] = pc[a] /\ clean'[a] = clean[a]
      BY <1>0, <2>3 DEF StdioTypeOK
    <3>2. QED
      BY <1>0, <2>1, <3>1, ServerStays
  <2>4. QED
    BY <2>2, <2>3
<1>5. QED
  BY <1>0, <1>1, <1>2, <1>3, <1>4, SilentServes DEF StdioTypeOK

\* What is written about a line: the host's answer to it, or one that names no id
\* after a fault, and nothing about a plain notification.
LEMMA WrittenAnswers ==
  ASSUME ServersInv, NEW b \in Clients, pc[b] = "emit", Written(b) # NoReply
  PROVE  /\ Written(b) \in Replies
         /\ Written(b).id # "null" => Written(b) = CcHubJsonrpc(LastLine(b))
         /\ ~LS!Plain(LastLine(b))
         /\ clean[b] /\ Proper(LastLine(b)) => Written(b) = HostAnswer(kind[b], LastLine(b))
         /\ Written(b).code = Done =>
              Written(b) = body[b] /\ body[b] = HostAnswer(kind[b], LastLine(b))
<1> DEFINE answer == HostAnswer(kind[b], LastLine(b))
           cut == Reply("null", Fragment)
           lost == Reply("null", Unreachable)
<1>1. /\ LastLine(b) \in RpcLine /\ Line(Current(b)) = LastLine(b) /\ ServerInv(b)
      /\ kind[b] \in {"bridge", "embedded"}
  BY AtLine, StdioAssumption DEF ServersInv, StdioTypeOK
<1>2. \/ body[b] = answer
      \/ kind[b] = "bridge" /\ ~clean[b] /\ body[b] \in {NoReply, cut}
  BY <1>1 DEF ServerInv
<1>3. /\ cut \in Replies /\ cut.id = "null" /\ cut.code # Done
      /\ lost \in Replies /\ lost.id = "null" /\ lost.code # Done /\ cut # NoReply
  BY DEF Reply, Replies, Ids, Codes, ErrorCodes, Done, Fragment, Unreachable, NoReply
<1>4. \/ Written(b) = body[b] /\ body[b] # NoReply
      \/ kind[b] = "bridge" /\ Written(b) = lost /\ body[b] = NoReply
  BY <1>1 DEF Written
<1>5. kind[b] = "bridge" => MentionsId(LastLine(b))
  <2>1. kind[b] = "bridge" => MentionsId(Line(Current(b)))
    BY DEF Written
  <2>2. QED
    BY <1>1, <2>1 DEF MentionsId
<1>6. answer \in Replies \cup {NoReply}
  BY HostAnswerTyped
<1>7. answer.id # "null" => answer = CcHubJsonrpc(LastLine(b))
  BY SameAnswer
<1>8. kind[b] = "embedded" => answer = CcHubJsonrpc(LastLine(b))
  BY DEF HostAnswer
<1>9. Proper(LastLine(b)) => answer # NoReply
  BY <1>1, ProperAnswer
<1>10. LS!Plain(LastLine(b)) =>
         CcHubJsonrpc(LastLine(b)) = NoReply /\ ~MentionsId(LastLine(b))
  BY <1>1, PlainAnswer
<1> HIDE DEF answer, cut, lost
<1>11. Written(b) \in Replies
  BY <1>2, <1>3, <1>4, <1>6
<1>12. Written(b).id # "null" => Written(b) = CcHubJsonrpc(LastLine(b))
  BY <1>2, <1>3, <1>4, <1>7
<1>13. ~LS!Plain(LastLine(b))
  BY <1>1, <1>2, <1>4, <1>5, <1>8, <1>10
<1>14. clean[b] /\ Proper(LastLine(b)) => Written(b) = answer
  BY <1>2, <1>4, <1>9
<1>15. Written(b).code = Done => Written(b) = body[b] /\ body[b] = answer
  BY <1>2, <1>3, <1>4
<1>16. QED
  BY <1>11, <1>12, <1>13, <1>14, <1>15 DEF answer

\* What a server writes comes after what it wrote before.
LEMMA EmitWrites ==
  ASSUME ServersInv, NEW b \in Clients, Emit(b)
  PROVE  /\ out' \in [Clients -> Seq([of : Nat, reply : Replies, clean : BOOLEAN])]
         /\ \A a \in Clients : a # b => out'[a] = out[a]
         /\ Written(b) = NoReply => out'[b] = out[b]
         /\ Written(b) # NoReply =>
              /\ Len(out[b]) \in Nat /\ DOMAIN out[b] = 1..Len(out[b])
              /\ DOMAIN out'[b] = 1..(Len(out[b]) + 1)
              /\ \A i \in DOMAIN out[b] : out'[b][i] = out[b][i]
              /\ out'[b][Len(out[b]) + 1] =
                   [of |-> Len(sent[b]), reply |-> Written(b), clean |-> clean[b]]
              /\ out'[b] = Append(out[b],
                   [of |-> Len(sent[b]), reply |-> Written(b), clean |-> clean[b]])
              /\ [of |-> Len(sent[b]), reply |-> Written(b), clean |-> clean[b]]
                   \in [of : Nat, reply : Replies, clean : BOOLEAN]
<1> DEFINE answers == [of : Nat, reply : Replies, clean : BOOLEAN]
           answer == [of |-> Len(sent[b]), reply |-> Written(b), clean |-> clean[b]]
<1>1. out \in [Clients -> Seq(answers)] /\ pc[b] = "emit"
      /\ out' = IF Written(b) = NoReply THEN out
                ELSE [out EXCEPT ![b] = Append(@, answer)]
  BY DEF Emit, ServersInv, StdioTypeOK
<1>2. Written(b) # NoReply => answer \in answers
  <2>1. Len(sent[b]) \in Nat /\ clean[b] \in BOOLEAN
    BY DEF ServersInv, StdioTypeOK
  <2>2. Written(b) # NoReply => Written(b) \in Replies
    BY <1>1, WrittenAnswers
  <2>3. QED
    BY <2>1, <2>2
<1> HIDE DEF answers, answer
<1>3. CASE Written(b) = NoReply
  BY <1>1, <1>3 DEF answers
<1>4. CASE Written(b) # NoReply
  <2>1. answer \in answers /\ out[b] \in Seq(answers) /\ out' = [out EXCEPT ![b] = Append(@, answer)]
    BY <1>1, <1>2, <1>4
  <2>2. /\ out' \in [Clients -> Seq(answers)] /\ out'[b] = Append(out[b], answer)
        /\ \A a \in Clients : a # b => out'[a] = out[a]
    BY <1>1, <2>1
  <2>3. /\ Len(out[b]) \in Nat /\ DOMAIN out[b] = 1..Len(out[b])
        /\ DOMAIN out'[b] = 1..(Len(out[b]) + 1)
        /\ \A i \in DOMAIN out[b] : out'[b][i] = out[b][i]
        /\ out'[b][Len(out[b]) + 1] = answer
    BY <2>1, <2>2
  <2>4. QED
    BY <1>4, <2>1, <2>2, <2>3 DEF answers, answer
<1>5. QED
  BY <1>3, <1>4

\* ... and what is written is what was held.
LEMMA EmitServes ==
  ASSUME ServersInv, NEW b \in Clients, Emit(b)
  PROVE  ServersInv'
<1>0. /\ pc[b] = "emit" /\ ServerInv(b) /\ StdioTypeOK
      /\ UNCHANGED <<kind, hub, inbox, waiting, since, clean, caller, posts, faults, sent>>
      /\ pc' = [pc EXCEPT ![b] = "read"] /\ body' = [body EXCEPT ![b] = NoReply]
  BY DEF Emit, ServersInv, hubState
<1>1. /\ pc' \in [Clients -> {"read", "dial", "posted", "blocked", "emit"}]
      /\ body' \in [Clients -> Replies \cup {NoReply}]
      /\ pc'[b] = "read" /\ body'[b] = NoReply
      /\ \A a \in Clients : a # b => pc'[a] = pc[a] /\ body'[a] = body[a]
  BY <1>0 DEF StdioTypeOK
<1>2. /\ Len(sent[b]) \in Nat /\ Len(sent[b]) \in DOMAIN sent[b]
      /\ DOMAIN sent[b] = 1..Len(sent[b])
  <2>1. sent[b] \in Seq(RpcLine) /\ Len(sent[b]) > 0
    BY <1>0 DEF StdioTypeOK, ServerInv
  <2>2. QED
    BY <2>1
<1>3. \A i \in DOMAIN out'[b] :
        out'[b][i].of \in DOMAIN sent[b] /\ out'[b][i].of <= Len(sent[b])
  <2>1. \A i \in DOMAIN out[b] : out[b][i].of \in DOMAIN sent[b]
    BY <1>0 DEF StdioTypeOK
  <2>2. CASE Written(b) = NoReply
    <3>1. out'[b] = out[b]
      BY <2>2, EmitWrites
    <3>2. QED
      BY <1>2, <2>1, <3>1
  <2>3. CASE Written(b) # NoReply
    <3>1. ASSUME NEW i \in DOMAIN out'[b] PROVE out'[b][i].of \in DOMAIN sent[b]
      <4>1. /\ Len(out[b]) \in Nat /\ DOMAIN out[b] = 1..Len(out[b])
            /\ DOMAIN out'[b] = 1..(Len(out[b]) + 1)
            /\ \A j \in DOMAIN out[b] : out'[b][j] = out[b][j]
            /\ out'[b][Len(out[b]) + 1].of = Len(sent[b])
        <5> DEFINE answer == [of |-> Len(sent[b]), reply |-> Written(b), clean |-> clean[b]]
        <5>1. answer.of = Len(sent[b])
          OBVIOUS
        <5> HIDE DEF answer
        <5>2. /\ Len(out[b]) \in Nat /\ DOMAIN out[b] = 1..Len(out[b])
              /\ DOMAIN out'[b] = 1..(Len(out[b]) + 1)
              /\ \A j \in DOMAIN out[b] : out'[b][j] = out[b][j]
              /\ out'[b][Len(out[b]) + 1] = answer
          BY <2>3, EmitWrites DEF answer
        <5>3. QED
          BY <5>1, <5>2
      <4>2. i \in DOMAIN out[b] \/ i = Len(out[b]) + 1
        BY <4>1
      <4>3. QED
        BY <1>2, <2>1, <4>1, <4>2
    <3>2. QED
      BY <1>2, <3>1
  <2>4. QED
    BY <2>2, <2>3
<1>4. StdioTypeOK'
  <2>1. ASSUME NEW a \in Clients
        PROVE  Len(sent'[a]) <= MaxLines[a] /\ \A i \in DOMAIN out'[a] : out'[a][i].of \in DOMAIN sent'[a]
    <3>1. CASE a = b
      BY <1>0, <1>3, <3>1 DEF StdioTypeOK
    <3>2. CASE a # b
      BY <1>0, <3>2, EmitWrites DEF StdioTypeOK
    <3>3. QED
      BY <3>1, <3>2
  <2>2. out' \in [Clients -> Seq([of : Nat, reply : Replies, clean : BOOLEAN])]
    BY EmitWrites
  <2>3. QED
    BY <1>0, <1>1, <2>1, <2>2 DEF StdioTypeOK
<1>5. SentLines'
  BY <1>0 DEF ServersInv, SentLines
<1>6. ServerInv(b)'
  BY <1>0, <1>1, <1>3 DEF ServerInv
<1>7. ASSUME NEW a \in Clients, a # b PROVE ServerInv(a)'
  <2>1. out'[a] = out[a]
    BY <1>7, EmitWrites
  <2>2. QED
    BY <1>0, <1>1, <1>7, <2>1, ServerStays DEF ServersInv
<1>8. QED
  BY <1>4, <1>5, <1>6, <1>7 DEF ServersInv

-----------------------------------------------------------------------------
(* The types and the servers *)

\* Only finitely many clacks are appended by the lines.
LEMMA PostsFinite ==
  ASSUME IsFiniteSet(posts), [StdioNext]_stdioVars
  PROVE  IsFiniteSet(posts')
<1>1. \A q, as : IsFiniteSet(Post(q, as))
  BY FS_AddElement DEF Post
<1>2. posts' = posts \/ \E q, as : posts' = Post(q, as)
  <2>1. ASSUME NEW b \in Clients, ReadInput(b) \/ Serve(b) \/ Breaks(b)
        PROVE  posts' = posts \/ \E q, as : posts' = Post(q, as)
    BY <2>1 DEF ReadInput, Serve, Dial, Dispatched, EmbeddedExpires, Emit, Breaks
  <2>2. ASSUME NEW l \in Loops, (\E q \in Requests : Handle(l, q)) \/ Wakes(l) \/ Expires(l)
        PROVE  posts' = posts \/ \E q, as : posts' = Post(q, as)
    BY <2>2 DEF Handle, Wakes, Expires, WaitReturns
  <2>3. CASE HubStops \/ HubStarts \/ UNCHANGED stdioVars
    BY <2>3 DEF HubStops, HubStarts, stdioVars
  <2>4. QED
    BY <2>1, <2>2, <2>3 DEF StdioNext
<1>3. QED
  BY <1>1, <1>2

\* The invariant of the servers.
LEMMA ServersInductive == StdioSpec => [](IsFiniteSet(posts) /\ ServersInv)
<1>1. StdioInit => IsFiniteSet(posts) /\ ServersInv
  <2> SUFFICES ASSUME StdioInit PROVE IsFiniteSet(posts) /\ ServersInv
    OBVIOUS
  <2>1. IsFiniteSet(posts)
    BY FS_EmptySet DEF StdioInit
  <2>2. /\ sent \in [Clients -> Seq(RpcLine)]
        /\ out \in [Clients -> Seq([of : Nat, reply : Replies, clean : BOOLEAN])]
        /\ \A b \in Clients : sent[b] = <<>> /\ out[b] = <<>>
    BY DEF StdioInit
  <2>3. StdioTypeOK
    <3>1. \A b \in Clients : MaxLines[b] \in Nat /\ Len(sent[b]) = 0 /\ DOMAIN out[b] = {}
      BY <2>2, StdioAssumption
    <3>2. 0 \in 0..MaxFaults
      BY StdioAssumption
    <3>3. /\ \A b \in Clients :
              /\ Len(sent[b]) <= MaxLines[b]
              /\ \A i \in DOMAIN out[b] : out[b][i].of \in DOMAIN sent[b]
      BY <3>1
    <3>4. Anonymous \in Identities
      BY DEF Identities
    <3>5. QED
      BY <2>2, <3>2, <3>3, <3>4 DEF StdioInit, StdioTypeOK, NoInbox, NoWaits
  <2>4. SentLines
    BY <2>2 DEF SentLines
  <2>5. \A b \in Clients : ServerInv(b)
    BY <2>2 DEF ServerInv, StdioInit
  <2>6. QED
    BY <2>1, <2>3, <2>4, <2>5 DEF ServersInv
<1>2. (IsFiniteSet(posts) /\ ServersInv) /\ [StdioNext]_stdioVars
      => (IsFiniteSet(posts) /\ ServersInv)'
  <2> SUFFICES ASSUME IsFiniteSet(posts), ServersInv, [StdioNext]_stdioVars
               PROVE  ServersInv'
    BY PostsFinite
  <2>1. ASSUME NEW b \in Clients, ReadInput(b) \/ Serve(b) \/ Breaks(b) PROVE ServersInv'
    BY <2>1, ReadInputServes, DialServes, DispatchedServes, EmbeddedExpiresServes,
       EmitServes, BreaksServes DEF Serve
  <2>2. ASSUME NEW l \in Loops, NEW q \in Requests, Handle(l, q) PROVE ServersInv'
    BY <2>2, HandleServes
  <2>3. ASSUME NEW l \in Loops, Wakes(l) \/ Expires(l) PROVE ServersInv'
    BY <2>3, WaitReturnServes DEF Wakes, Expires
  <2>4. CASE HubStops
    BY <2>4, HubStopsServes
  <2>5. CASE HubStarts \/ UNCHANGED stdioVars
    <3>1. StdioTypeOK /\ hub' \in {"up", "down"}
          /\ UNCHANGED <<kind, inbox, waiting, since, pc, body, clean, caller, posts,
                         faults, sent, out>>
      BY <2>5 DEF HubStarts, stdioVars, ServersInv, StdioTypeOK
    <3>2. ASSUME NEW a \in Clients PROVE ServerInv(a)'
      BY <3>1, ServerStays DEF ServersInv
    <3>3. QED
      BY <3>1, <3>2, SilentServes DEF StdioTypeOK
  <2>6. QED
    BY <2>1, <2>2, <2>3, <2>4, <2>5 DEF StdioNext
<1>3. QED
  BY <1>1, <1>2, PTL DEF StdioSpec

\* The variables of the stdio servers and of their hosts keep their types: every
\* answer written is a reply to a line that was read.
THEOREM StdioTypeCorrect == StdioSpec => []StdioTypeOK
<1>1. ServersInv => StdioTypeOK
  BY DEF ServersInv
<1>2. QED
  BY <1>1, ServersInductive, PTL

-----------------------------------------------------------------------------
(* What was read and written stays *)

\* Only two steps touch the lines and the answers.
LEMMA LinesMove ==
  ASSUME [StdioNext]_stdioVars
  PROVE  \/ UNCHANGED <<sent, out>>
         \/ \E b \in Clients : ReadInput(b) \/ Emit(b)
<1>1. ASSUME NEW b \in Clients, Dial(b) \/ Dispatched(b) \/ EmbeddedExpires(b) \/ Breaks(b)
      PROVE  UNCHANGED <<sent, out>>
  BY <1>1 DEF Dial, Dispatched, EmbeddedExpires, Breaks
<1>2. ASSUME NEW l \in Loops, (\E q \in Requests : Handle(l, q)) \/ Wakes(l) \/ Expires(l)
      PROVE  UNCHANGED <<sent, out>>
  BY <1>2 DEF Handle, Wakes, Expires, WaitReturns
<1>3. CASE HubStops \/ HubStarts \/ UNCHANGED stdioVars
  BY <1>3 DEF HubStops, HubStarts, stdioVars
<1>4. QED
  BY <1>1, <1>2, <1>3 DEF StdioNext, Serve

\* The lines read so far stay as they are.
LEMMA LinesStay ==
  ASSUME ServersInv, [StdioNext]_stdioVars, NEW b \in Clients
  PROVE  /\ DOMAIN sent[b] = 1..Len(sent[b]) /\ DOMAIN sent'[b] = 1..Len(sent'[b])
         /\ Len(sent[b]) \in Nat /\ Len(sent'[b]) \in Nat
         /\ Len(sent[b]) <= Len(sent'[b])
         /\ \A i \in 1..Len(sent[b]) : sent'[b][i] = sent[b][i]
<1>0. sent \in [Clients -> Seq(RpcLine)]
  BY DEF ServersInv, StdioTypeOK
<1>1. CASE UNCHANGED <<sent, out>>
  BY <1>0, <1>1
<1>2. ASSUME NEW a \in Clients, ReadInput(a)
      PROVE  /\ DOMAIN sent'[b] = 1..Len(sent'[b]) /\ Len(sent'[b]) \in Nat
             /\ Len(sent[b]) <= Len(sent'[b])
             /\ \A i \in 1..Len(sent[b]) : sent'[b][i] = sent[b][i]
  <2>1. PICK l \in Lines[a] : sent' = [sent EXCEPT ![a] = Append(@, l)]
    BY <1>2 DEF ReadInput
  <2>2. l \in RpcLine
    BY StdioAssumption
  <2>3. sent'[b] = (IF b = a THEN Append(sent[b], l) ELSE sent[b]) /\ sent[b] \in Seq(RpcLine)
    BY <1>0, <2>1
  <2>4. QED
    BY <2>2, <2>3
<1>3. ASSUME NEW a \in Clients, Emit(a)
      PROVE  UNCHANGED sent
  BY <1>3 DEF Emit
<1>4. QED
  BY <1>0, <1>1, <1>2, <1>3, LinesMove

\* Every answer was there before, about the same line, or is just written.
LEMMA AnswersStay ==
  ASSUME ServersInv, [StdioNext]_stdioVars, NEW b \in Clients, NEW i \in DOMAIN out'[b]
  PROVE  \/ /\ i \in DOMAIN out[b] /\ out'[b][i] = out[b][i]
            /\ out[b][i].of \in 1..Len(sent[b])
            /\ sent'[b][out[b][i].of] = sent[b][out[b][i].of]
         \/ /\ Emit(b) /\ pc[b] = "emit" /\ Written(b) # NoReply /\ UNCHANGED <<kind, sent, posts>>
            /\ out'[b][i] = [of |-> Len(sent[b]), reply |-> Written(b), clean |-> clean[b]]
<1>1. ASSUME i \in DOMAIN out[b], out'[b][i] = out[b][i]
      PROVE  /\ out[b][i].of \in 1..Len(sent[b])
             /\ sent'[b][out[b][i].of] = sent[b][out[b][i].of]
  <2>1. out[b][i].of \in DOMAIN sent[b]
    BY <1>1 DEF ServersInv, StdioTypeOK
  <2>2. QED
    BY <2>1, LinesStay
<1>2. CASE out'[b] = out[b]
  BY <1>1, <1>2
<1>3. ASSUME Emit(b), Written(b) # NoReply
      PROVE  \/ i \in DOMAIN out[b] /\ out'[b][i] = out[b][i]
             \/ out'[b][i] = [of |-> Len(sent[b]), reply |-> Written(b), clean |-> clean[b]]
  <2> DEFINE answer == [of |-> Len(sent[b]), reply |-> Written(b), clean |-> clean[b]]
  <2> HIDE DEF answer
  <2>1. /\ Len(out[b]) \in Nat /\ DOMAIN out[b] = 1..Len(out[b])
        /\ DOMAIN out'[b] = 1..(Len(out[b]) + 1)
        /\ \A j \in DOMAIN out[b] : out'[b][j] = out[b][j]
        /\ out'[b][Len(out[b]) + 1] = answer
    BY <1>3, EmitWrites DEF answer
  <2>2. i \in DOMAIN out[b] \/ i = Len(out[b]) + 1
    BY <2>1
  <2>3. QED
    BY <2>1, <2>2 DEF answer
<1>4. Emit(b) => pc[b] = "emit" /\ UNCHANGED <<kind, sent, posts>>
  BY DEF Emit
<1>5. ASSUME out'[b] # out[b] PROVE Emit(b) /\ Written(b) # NoReply
  <2>1. ASSUME NEW a \in Clients, ReadInput(a) PROVE FALSE
    BY <1>5, <2>1 DEF ReadInput
  <2>2. ASSUME NEW a \in Clients, Emit(a), a # b PROVE FALSE
    BY <1>5, <2>2, EmitWrites
  <2>3. CASE Emit(b)
    BY <1>5, <2>3, EmitWrites
  <2>4. QED
    BY <1>5, <2>1, <2>2, <2>3, LinesMove
<1>6. QED
  BY <1>1, <1>2, <1>3, <1>4, <1>5

\* An answer no fault has touched names its request's id, and no proper request
\* is told that the hub failed it: however the hub dies, comes back and answers
\* requests that nobody waits for.
THEOREM AnswersCorrelate == StdioSpec => []RepliesCorrelate
<1>1. StdioInit => RepliesCorrelate
  BY DEF StdioInit, RepliesCorrelate
<1>2. RepliesCorrelate /\ ServersInv /\ [StdioNext]_stdioVars => RepliesCorrelate'
  <2> SUFFICES ASSUME RepliesCorrelate, ServersInv, [StdioNext]_stdioVars,
                      NEW b \in Clients, NEW i \in DOMAIN out'[b],
                      out'[b][i].clean, Proper(sent'[b][out'[b][i].of])
               PROVE  /\ out'[b][i].reply.id = sent'[b][out'[b][i].of].id
                      /\ out'[b][i].reply.code \notin
                           {ParseError, InvalidRequest, InternalError, Unreachable,
                            Page, Fragment}
    BY DEF RepliesCorrelate, Proper, Kind, HasId
  <2>1. CASE /\ i \in DOMAIN out[b] /\ out'[b][i] = out[b][i]
             /\ sent'[b][out[b][i].of] = sent[b][out[b][i].of]
    BY <2>1 DEF RepliesCorrelate
  <2>2. CASE /\ pc[b] = "emit" /\ Written(b) # NoReply /\ UNCHANGED <<kind, sent, posts>>
             /\ out'[b][i] = [of |-> Len(sent[b]), reply |-> Written(b), clean |-> clean[b]]
    <3>1. /\ sent'[b][out'[b][i].of] = LastLine(b) /\ clean[b] /\ Proper(LastLine(b))
          /\ out'[b][i].reply = Written(b)
      BY <2>2 DEF LastLine
    <3>2. Written(b) = HostAnswer(kind[b], LastLine(b)) /\ LastLine(b) \in RpcLine
      BY <2>2, <3>1, WrittenAnswers, AtLine
    <3>3. QED
      BY <3>1, <3>2, ProperAnswer
  <2>3. QED
    BY <2>1, <2>2, AnswersStay
<1>3. QED
  BY <1>1, <1>2, ServersInductive, PTL DEF StdioSpec

-----------------------------------------------------------------------------
(* The refinement of LineServer *)

\* What LineServer sees of an answer, and of a server's answers.
Seen(r) == [of |-> r.of, reply |-> r.reply]

SeenAll(s) == [i \in DOMAIN s |-> Seen(s[i])]

\* The answers as LineServer sees them: without the mark of a fault.
LEMMA AnsweredIs ==
  ASSUME NEW b
  PROVE  /\ Answered(b) = SeenAll(out[b])
         /\ DOMAIN Answered(b) = DOMAIN out[b]
         /\ \A i \in DOMAIN out[b] : Answered(b)[i] = Seen(out[b][i])
  BY DEF Answered, SeenAll, Seen

\* One answer more is one answer more seen.
LEMMA SeenTyped ==
  ASSUME NEW s \in Seq([of : Nat, reply : Replies, clean : BOOLEAN])
  PROVE  SeenAll(s) \in Seq([of : Nat, reply : Replies]) /\ Len(SeenAll(s)) = Len(s)
<1> DEFINE values == [of : Nat, reply : Replies]
<1>1. Len(s) \in Nat /\ DOMAIN s = 1..Len(s)
  OBVIOUS
<1>2. ASSUME NEW i \in 1..Len(s) PROVE Seen(s[i]) \in values
  <2>1. s[i] \in [of : Nat, reply : Replies, clean : BOOLEAN]
    BY ElementOfSeq
  <2>2. QED
    BY <2>1 DEF Seen
<1>3. SeenAll(s) = [i \in 1..Len(s) |-> Seen(s[i])]
  BY <1>1 DEF SeenAll
<1> HIDE DEF values
<1>4. SeenAll(s) \in [1..Len(s) -> values]
  BY <1>2, <1>3
<1>5. SeenAll(s) \in Seq(values)
  BY <1>1, <1>4, SeqDef
<1>6. Len(SeenAll(s)) = Len(s)
  BY <1>1, <1>4, <1>5
<1>7. QED
  BY <1>5, <1>6 DEF values

\* One answer more is one more there.
LEMMA SeenGrows ==
  ASSUME NEW s \in Seq([of : Nat, reply : Replies, clean : BOOLEAN]),
         NEW r \in [of : Nat, reply : Replies, clean : BOOLEAN]
  PROVE  SeenAll(Append(s, r)) = Append(SeenAll(s), Seen(r))
<1> DEFINE values == [of : Nat, reply : Replies]
           answers == [of : Nat, reply : Replies, clean : BOOLEAN]
<1>1. Seen(r) \in values
  BY DEF Seen
<1>2. SeenAll(s) \in Seq(values) /\ Len(SeenAll(s)) = Len(s) /\ s \in Seq(answers) /\ r \in answers
  BY SeenTyped
<1>3. SeenAll(Append(s, r)) \in Seq(values) /\ Len(SeenAll(Append(s, r))) = Len(Append(s, r))
  BY SeenTyped, AppendProperties
<1> HIDE DEF values, answers
<1>4. /\ Append(s, r) \in Seq(answers) /\ Len(Append(s, r)) = Len(s) + 1 /\ Len(s) \in Nat
      /\ DOMAIN Append(s, r) = 1..(Len(s) + 1) /\ DOMAIN s = 1..Len(s)
      /\ \A i \in 1..Len(s) : Append(s, r)[i] = s[i]
      /\ Append(s, r)[Len(s) + 1] = r
  BY <1>2
<1>5. /\ Append(SeenAll(s), Seen(r)) \in Seq(values)
      /\ Len(Append(SeenAll(s), Seen(r))) = Len(s) + 1
      /\ \A i \in 1..Len(s) : Append(SeenAll(s), Seen(r))[i] = SeenAll(s)[i]
      /\ Append(SeenAll(s), Seen(r))[Len(s) + 1] = Seen(r)
  BY <1>1, <1>2, AppendProperties
<1>6. ASSUME NEW i \in 1..(Len(s) + 1)
      PROVE  SeenAll(Append(s, r))[i] = Append(SeenAll(s), Seen(r))[i]
  <2>1. SeenAll(Append(s, r))[i] = Seen(Append(s, r)[i])
    BY <1>4 DEF SeenAll
  <2>2. CASE i = Len(s) + 1
    BY <1>4, <1>5, <2>1, <2>2
  <2>3. CASE i # Len(s) + 1
    <3>1. i \in 1..Len(s) /\ i \in DOMAIN s
      BY <1>4, <2>3
    <3>2. SeenAll(s)[i] = Seen(s[i])
      BY <3>1 DEF SeenAll
    <3>3. QED
      BY <1>4, <1>5, <2>1, <3>1, <3>2
  <2>4. QED
    BY <2>2, <2>3
<1>7. QED
  BY <1>3, <1>4, <1>5, <1>6, SeqEqual

\* An answer written appends one answer to what LineServer sees.
LEMMA AnsweredGrows ==
  ASSUME ServersInv, NEW b \in Clients, Emit(b), Written(b) # NoReply
  PROVE  Answered(b)' = Append(Answered(b), [of |-> Len(sent[b]), reply |-> Written(b)])
<1> DEFINE answers == [of : Nat, reply : Replies, clean : BOOLEAN]
           answer == [of |-> Len(sent[b]), reply |-> Written(b), clean |-> clean[b]]
<1>1. out'[b] = Append(out[b], answer) /\ answer \in answers
  BY EmitWrites
<1>2. out[b] \in Seq(answers)
  BY DEF ServersInv, StdioTypeOK
<1>3. Seen(answer) = [of |-> Len(sent[b]), reply |-> Written(b)]
  BY DEF Seen
<1> HIDE DEF answer
<1>4. SeenAll(out'[b]) = Append(SeenAll(out[b]), Seen(answer))
  BY <1>1, <1>2, SeenGrows
<1>5. Answered(b)' = SeenAll(out'[b]) /\ Answered(b) = SeenAll(out[b])
  BY DEF Answered, SeenAll, Seen
<1>6. QED
  BY <1>3, <1>4, <1>5

\* LineServer writes an answer.
LEMMA EmitAnswers ==
  ASSUME ServersInv, NEW b \in Clients, Emit(b), Written(b) # NoReply
  PROVE  LS!WriteLine(b)
<1> DEFINE answers == [a \in Clients |-> Answered(a)]
           l == LastLine(b)
           w == Written(b)
<1>1. pc[b] = "emit" /\ sent' = sent /\ Len(sent[b]) \in Nat /\ Len(sent[b]) > 0 /\ ServerInv(b)
  BY DEF Emit, ServersInv, StdioTypeOK, ServerInv
<1>2. \A i \in DOMAIN answers[b] : answers[b][i].of < Len(sent[b])
  <2>1. ASSUME NEW i \in DOMAIN Answered(b) PROVE Answered(b)[i].of < Len(sent[b])
    <3>1. i \in DOMAIN out[b] /\ Answered(b)[i] = Seen(out[b][i])
      BY AnsweredIs
    <3>2. Answered(b)[i].of = out[b][i].of
      BY <3>1 DEF Seen
    <3>3. QED
      BY <1>1, <3>1, <3>2 DEF ServerInv
  <2>2. QED
    BY <2>1
<1>3. answers' = [answers EXCEPT ![b] = Append(@, [of |-> Len(sent[b]), reply |-> w])]
  <2>1. \A a \in Clients : a # b => Answered(a)' = Answered(a)
    BY EmitWrites DEF Answered
  <2>2. Answered(b)' = Append(Answered(b), [of |-> Len(sent[b]), reply |-> w])
    BY AnsweredGrows
  <2> HIDE DEF w
  <2>3. QED
    BY <2>1, <2>2
<1>4. /\ w \in Replies /\ (w.id # "null" => w = CcHubJsonrpc(l)) /\ ~LS!Plain(l)
  BY <1>1, WrittenAnswers
<1>5. /\ w = LS!Reply(w.id, w.code)
      /\ w.id \in {LS!RpcId(l), "null"}
      /\ w.code \in LS!ErrorCodes \cup {LS!Done, LS!Page, LS!Fragment}
  <2>1. w = Reply(w.id, w.code) /\ w.code \in Codes
    BY <1>4 DEF Replies, Reply
  <2>2. CcHubJsonrpc(l).id \in {RpcId(l), "null", "none"}
    BY DEF CcHubJsonrpc, Dispatch, Reply, NoReply
  <2>3. w.id # "none"
    BY <1>4 DEF Replies, Ids, Numbers, Names
  <2> HIDE DEF w, l
  <2>4. w.id \in {RpcId(l), "null"}
    BY <1>4, <2>2, <2>3
  <2>5. QED
    BY <2>1, <2>4, SameReading DEF Codes
<1>6. LS!MayAnswer(l, w)
  BY <1>4, SameReading DEF LS!MayAnswer
<1> HIDE DEF w
<1>7. \E id \in {LS!RpcId(l), "null"}, code \in LS!ErrorCodes \cup {LS!Done, LS!Page, LS!Fragment} :
        /\ LS!MayAnswer(l, LS!Reply(id, code))
        /\ answers' = [answers EXCEPT ![b] =
             Append(@, [of |-> Len(sent[b]), reply |-> LS!Reply(id, code)])]
  BY <1>3, <1>5, <1>6
<1>8. QED
  BY <1>1, <1>2, <1>7 DEF LS!WriteLine, LS!Silent, LastLine

\* Both stdio servers do what LineServer promises: they read lines in order, write
\* at most one answer to each before the next is read, and what they write answers
\* that line.
THEOREM ServersAnswerLines == StdioSpec => ImplementsLineServer
<1>1. StdioInit => LS!LineInit
  <2> SUFFICES ASSUME StdioInit
               PROVE  sent = [b \in Clients |-> <<>>]
                      /\ [b \in Clients |-> Answered(b)] = [b \in Clients |-> <<>>]
    BY DEF LS!LineInit
  <2>1. ASSUME NEW b \in Clients PROVE Answered(b) = <<>>
    <3>1. out[b] = <<>> /\ DOMAIN out[b] = {}
      BY DEF StdioInit
    <3>2. QED
      BY <3>1 DEF Answered
  <2>2. QED
    BY <2>1 DEF StdioInit
<1>2. ServersInv /\ [StdioNext]_stdioVars
      => [LS!LineNext]_<<sent, [b \in Clients |-> Answered(b)]>>
  <2> SUFFICES ASSUME ServersInv, [StdioNext]_stdioVars
               PROVE  [LS!LineNext]_<<sent, [b \in Clients |-> Answered(b)]>>
    OBVIOUS
  <2>1. CASE UNCHANGED <<sent, out>>
    BY <2>1 DEF Answered
  <2>2. ASSUME NEW b \in Clients, ReadInput(b)
        PROVE  LS!LineNext
    <3>1. LS!ReadLine(b)
      BY <2>2 DEF ReadInput, LS!ReadLine, Answered
    <3>2. QED
      BY <3>1 DEF LS!LineNext
  <2>3. ASSUME NEW b \in Clients, Emit(b), Written(b) # NoReply
        PROVE  LS!LineNext
    BY <2>3, EmitAnswers DEF LS!LineNext
  <2>4. ASSUME NEW b \in Clients, Emit(b), Written(b) = NoReply
        PROVE  UNCHANGED <<sent, out>>
    BY <2>4 DEF Emit
  <2>5. QED
    BY <2>1, <2>2, <2>3, <2>4, LinesMove DEF Answered
<1>3. QED
  BY <1>1, <1>2, ServersInductive, PTL DEF StdioSpec, ImplementsLineServer, LS!LineSpec

-----------------------------------------------------------------------------
(* Who appended what *)

\* What a step does to one server: a step of its own, the end of its wait for the
\* hub process, or nothing.
LEMMA ServerMoves ==
  ASSUME ServersInv, [StdioNext]_stdioVars, NEW b \in Clients
  PROVE  \/ ReadInput(b) \/ Dial(b) \/ Dispatched(b) \/ EmbeddedExpires(b) \/ Emit(b)
         \/ Breaks(b)
         \/ /\ pc[b] = "posted" /\ pc'[b] = "emit"
            /\ sent'[b] = sent[b] /\ caller'[b] = caller[b]
            /\ \/ body'[b] = body[b]
               \/ \E l \in Loops :
                    Handle(l, Current(b)) /\ ~Calls(Line(Current(b)), "cc.wait")
               \/ \E l \in Loops : waiting[l] = Current(b) /\ waiting[l] # NoRequest
         \/ /\ pc'[b] = pc[b] /\ body'[b] = body[b]
            /\ sent'[b] = sent[b] /\ caller'[b] = caller[b]
<1> DEFINE Alone == /\ pc'[b] = pc[b] /\ body'[b] = body[b]
                    /\ sent'[b] = sent[b] /\ caller'[b] = caller[b]
<1>0. /\ pc \in [Clients -> {"read", "dial", "posted", "blocked", "emit"}]
      /\ body \in [Clients -> Replies \cup {NoReply}] /\ caller \in [Clients -> Identities]
      /\ sent \in [Clients -> Seq(RpcLine)]
  BY DEF ServersInv, StdioTypeOK
<1>1. ASSUME NEW a \in Clients, a # b,
             ReadInput(a) \/ Dial(a) \/ Dispatched(a) \/ EmbeddedExpires(a) \/ Breaks(a)
      PROVE  Alone
  BY <1>0, <1>1 DEF ReadInput, Dial, Dispatched, EmbeddedExpires, Breaks
<1>2. ASSUME NEW a \in Clients, a # b, Emit(a) PROVE Alone
  BY <1>0, <1>2 DEF Emit
<1>3. ASSUME NEW q \in Requests, Answers(q, HandlePost(Line(q))), UNCHANGED <<sent, caller>>
      PROVE  \/ Alone
             \/ /\ q = Current(b) /\ pc[b] = "posted" /\ pc'[b] = "emit"
                /\ sent'[b] = sent[b] /\ caller'[b] = caller[b]
  <2>1. CASE pc[q[1]] = "posted" /\ q = Current(q[1])
    <3>1. pc' = [pc EXCEPT ![q[1]] = "emit"]
          /\ body' = [body EXCEPT ![q[1]] = HandlePost(Line(q))]
      BY <1>3, <2>1 DEF Answers
    <3>2. QED
      BY <1>0, <1>3, <2>1, <3>1
  <2>2. CASE ~(pc[q[1]] = "posted" /\ q = Current(q[1]))
    BY <1>3, <2>2 DEF Answers
  <2>3. QED
    BY <2>1, <2>2
<1>4. ASSUME NEW l \in Loops, NEW q \in Requests, Handle(l, q)
      PROVE  \/ Alone
             \/ /\ q = Current(b) /\ ~Calls(Line(q), "cc.wait")
                /\ pc[b] = "posted" /\ pc'[b] = "emit"
                /\ sent'[b] = sent[b] /\ caller'[b] = caller[b]
  <2>1. UNCHANGED <<sent, caller>>
    BY <1>4 DEF Handle
  <2>2. CASE Calls(Line(q), "cc.wait")
    BY <1>4, <2>1, <2>2 DEF Handle
  <2>3. CASE ~Calls(Line(q), "cc.wait")
    <3>1. Answers(q, HandlePost(Line(q)))
      BY <1>4, <2>3 DEF Handle
    <3> HIDE DEF Alone
    <3>2. QED
      BY <1>3, <2>1, <2>3, <3>1
  <2>4. QED
    BY <2>2, <2>3
<1>5. ASSUME NEW l \in Loops, WaitReturns(l)
      PROVE  \/ Alone
             \/ /\ waiting[l] = Current(b) /\ waiting[l] # NoRequest
                /\ pc[b] = "posted" /\ pc'[b] = "emit"
                /\ sent'[b] = sent[b] /\ caller'[b] = caller[b]
  <2>1. waiting[l] \in Requests /\ waiting[l] # NoRequest /\ UNCHANGED <<sent, caller>>
        /\ Answers(waiting[l], HandlePost(Line(waiting[l])))
    BY <1>5 DEF WaitReturns, ServersInv, StdioTypeOK
  <2> HIDE DEF Alone
  <2>2. QED
    BY <1>3, <2>1
<1>6. CASE HubStops
  BY <1>0, <1>6 DEF HubStops
<1>7. CASE HubStarts \/ UNCHANGED stdioVars
  BY <1>7 DEF HubStarts, stdioVars
<1> HIDE DEF Alone
<1>8. QED
  <2>1. CASE \E a \in Clients : ReadInput(a) \/ Serve(a) \/ Breaks(a)
    <3> PICK a \in Clients : ReadInput(a) \/ Serve(a) \/ Breaks(a)
      BY <2>1
    <3>1. CASE a = b
      BY <3>1 DEF Serve
    <3>2. CASE a # b
      <4>1. Alone
        BY <1>1, <1>2, <3>2 DEF Serve
      <4>2. QED
        BY <4>1 DEF Alone
    <3>3. QED
      BY <3>1, <3>2
  <2>2. ASSUME NEW l \in Loops, NEW q \in Requests, Handle(l, q)
        PROVE  \/ Alone
               \/ /\ pc[b] = "posted" /\ pc'[b] = "emit"
                  /\ sent'[b] = sent[b] /\ caller'[b] = caller[b]
                  /\ \E m \in Loops :
                       Handle(m, Current(b)) /\ ~Calls(Line(Current(b)), "cc.wait")
    BY <1>4, <2>2
  <2>3. ASSUME NEW l \in Loops, Wakes(l) \/ Expires(l)
        PROVE  \/ Alone
               \/ /\ pc[b] = "posted" /\ pc'[b] = "emit"
                  /\ sent'[b] = sent[b] /\ caller'[b] = caller[b]
                  /\ \E m \in Loops : waiting[m] = Current(b) /\ waiting[m] # NoRequest
    BY <1>5, <2>3 DEF Wakes, Expires
  <2>4. CASE HubStops
    BY <1>6, <2>4
  <2>5. CASE HubStarts \/ UNCHANGED stdioVars
    BY <1>7, <2>5
  <2>6. QED
    BY <2>1, <2>2, <2>3, <2>4, <2>5 DEF StdioNext, Alone

\* No step changes the kind of a server; clacks are only added.
LEMMA KindStays ==
  ASSUME [StdioNext]_stdioVars
  PROVE  kind' = kind
  BY DEF StdioNext, stdioVars, ReadInput, Serve, Dial, Dispatched, EmbeddedExpires, Emit,
         Breaks, Handle, Wakes, Expires, WaitReturns, HubStops, HubStarts

\* A clack is from a request the hub took up, or from a line its own hub took.
LEMMA NewPosts ==
  ASSUME [StdioNext]_stdioVars
  PROVE  \/ posts' = posts
         \/ \E l \in Loops : \E q \in Requests :
              Handle(l, q) /\ q \in inbox[l] /\ posts' = Post(q, Anonymous)
         \/ \E b \in Clients : Dispatched(b) /\ posts' = Post(Current(b), caller[b])
<1>1. ASSUME NEW b \in Clients, ReadInput(b) \/ Serve(b) \/ Breaks(b)
      PROVE  posts' = posts \/ (Dispatched(b) /\ posts' = Post(Current(b), caller[b]))
  BY <1>1 DEF ReadInput, Serve, Dial, Dispatched, EmbeddedExpires, Emit, Breaks
<1>2. ASSUME NEW l \in Loops, NEW q \in Requests, Handle(l, q)
      PROVE  posts' = posts \/ (q \in inbox[l] /\ posts' = Post(q, Anonymous))
  BY <1>2 DEF Handle
<1>3. ASSUME NEW l \in Loops, Wakes(l) \/ Expires(l) PROVE posts' = posts
  BY <1>3 DEF Wakes, Expires, WaitReturns
<1>4. CASE HubStops \/ HubStarts \/ UNCHANGED stdioVars
  BY <1>4 DEF HubStops, HubStarts, stdioVars
<1>5. QED
  BY <1>1, <1>2, <1>3, <1>4 DEF StdioNext

\* So clacks are only added.
LEMMA PostsGrow ==
  ASSUME [StdioNext]_stdioVars
  PROVE  posts \subseteq posts'
<1>1. \A q, as : posts \subseteq Post(q, as)
  BY DEF Post
<1>2. QED
  BY <1>1, NewPosts

\* What has been sent on stays so.
LEMMA BehindStays ==
  ASSUME ServersInv, [StdioNext]_stdioVars, NEW b \in Clients, NEW n \in Nat, Behind(b, n)
  PROVE  Behind(b, n)'
<1>0. Len(sent[b]) \in Nat /\ Len(sent'[b]) \in Nat /\ Len(sent[b]) <= Len(sent'[b])
  BY LinesStay
<1>1. CASE ReadInput(b)
  <2>1. Len(sent'[b]) = Len(sent[b]) + 1
    <3>1. PICK l \in Lines[b] : sent' = [sent EXCEPT ![b] = Append(@, l)]
      BY <1>1 DEF ReadInput
    <3>2. sent \in [Clients -> Seq(RpcLine)] /\ l \in RpcLine
      BY StdioAssumption DEF ServersInv, StdioTypeOK
    <3>3. sent'[b] = Append(sent[b], l) /\ sent[b] \in Seq(RpcLine)
      BY <3>1, <3>2
    <3>4. QED
      BY <3>2, <3>3
  <2>2. QED
    BY <1>0, <2>1 DEF Behind
<1>2. ASSUME pc'[b] = "dial", ~ReadInput(b) PROVE pc[b] = "dial" /\ sent'[b] = sent[b]
  <2>1. pc \in [Clients -> {"read", "dial", "posted", "blocked", "emit"}]
    BY DEF ServersInv, StdioTypeOK
  <2>2. ~(Dial(b) \/ Dispatched(b) \/ EmbeddedExpires(b) \/ Emit(b) \/ Breaks(b))
    BY <1>2, <2>1 DEF Dial, Dispatched, EmbeddedExpires, Emit, Breaks
  <2>3. QED
    BY <1>2, <2>2, ServerMoves
<1>3. QED
  BY <1>0, <1>1, <1>2 DEF Behind

\* A line a server has just sent on.
LEMMA SentOn ==
  ASSUME ServersInv, NEW b \in Clients, Dial(b) \/ Dispatched(b)
  PROVE  Behind(b, Len(sent[b]))' /\ pc[b] = "dial" /\ ~Behind(b, Len(sent[b]))
<1>1. pc \in [Clients -> {"read", "dial", "posted", "blocked", "emit"}] /\ Len(sent[b]) \in Nat
  BY DEF ServersInv, StdioTypeOK
<1>2. pc[b] = "dial" /\ pc'[b] # "dial" /\ sent' = sent
  BY <1>1 DEF Dial, Dispatched
<1>3. QED
  BY <1>1, <1>2 DEF Behind

\* A request is what its two parts say.
LEMMA RequestParts ==
  ASSUME NEW q \in Requests
  PROVE  q[1] \in Clients /\ q[2] \in Nat \ {0} /\ q = <<q[1], q[2]>>
  BY StdioAssumption DEF Requests

\* Queued requests stay what they are.
LEMMA QueuedStays ==
  ASSUME ServersInv, Queued, PostedOnce, [StdioNext]_stdioVars
  PROVE  Queued'
<1> SUFFICES ASSUME NEW l \in Loops, NEW q \in inbox'[l]
             PROVE  /\ kind'[q[1]] = "bridge" /\ Behind(q[1], q[2])'
                    /\ \A p \in posts' : p.by = q[1] => p.of # q[2]
                    /\ \A m \in Loops : q \in inbox'[m] => m = l
  BY DEF Queued
<1>0. /\ inbox \in [Loops -> SUBSET Requests] /\ kind' = kind
      /\ posts \subseteq [by : Clients, of : Nat \ {0}, as : Identities]
  BY KindStays DEF ServersInv, StdioTypeOK
<1>1. ASSUME q \in inbox[l], \A m \in Loops : q \in inbox'[m] => q \in inbox[m]
      PROVE  /\ kind'[q[1]] = "bridge" /\ Behind(q[1], q[2])'
             /\ \A m \in Loops : q \in inbox'[m] => m = l
  <2>1. q \in Requests /\ q[1] \in Clients /\ q[2] \in Nat
    BY <1>0, <1>1, RequestParts
  <2>2. kind[q[1]] = "bridge" /\ Behind(q[1], q[2]) /\ \A m \in Loops : q \in inbox[m] => m = l
    BY <1>1 DEF Queued
  <2>3. QED
    BY <1>0, <1>1, <2>1, <2>2, BehindStays
<1>2. ASSUME \A m \in Loops : inbox'[m] \subseteq inbox[m]
      PROVE  q \in inbox[l] /\ \A m \in Loops : q \in inbox'[m] => q \in inbox[m]
  BY <1>2
<1>3. ASSUME q \in inbox[l], posts' = posts
      PROVE  \A p \in posts' : p.by = q[1] => p.of # q[2]
  BY <1>3 DEF Queued
<1>4. CASE \E b \in Clients : Dial(b)
  <2> PICK b \in Clients : Dial(b)
    BY <1>4
  <2>0. posts' = posts
    BY DEF Dial
  <2>1. CASE q \in inbox[l] /\ q # Current(b)
    <3>1. \A m \in Loops : q \in inbox'[m] => q \in inbox[m]
      BY <1>0, <2>1 DEF Dial
    <3>2. QED
      BY <1>1, <1>3, <2>0, <2>1, <3>1
  <2>2. CASE q = Current(b)
    <3>1. q[1] = b /\ q[2] = Len(sent[b])
      BY <2>2 DEF Current
    <3>2. \A m \in Loops : q \notin inbox[m]
      BY <3>1, SentOn DEF Queued
    <3>3. kind'[q[1]] = "bridge" /\ Behind(q[1], q[2])'
      <4>1. kind[b] = "bridge" /\ Behind(b, Len(sent[b]))' /\ sent' = sent
        BY <3>1, SentOn DEF Dial
      <4>2. QED
        BY <1>0, <3>1, <4>1 DEF Behind
    <3>4. \A p \in posts' : p.by = q[1] => p.of # q[2]
      BY <2>0, <3>1, SentOn DEF PostedOnce
    <3>5. \A m \in Loops : q \in inbox'[m] => m = l
      <4>1. PICK k \in Loops : inbox' = [inbox EXCEPT ![k] = @ \cup {Current(b)}] \/ inbox' = inbox
        BY DEF Dial
      <4>2. QED
        BY <1>0, <3>2, <4>1
    <3>6. QED
      BY <3>3, <3>4, <3>5
  <2>3. q \in inbox[l] \/ q = Current(b)
    BY <1>0 DEF Dial
  <2>4. QED
    BY <2>1, <2>2, <2>3
<1>5. ASSUME ~\E b \in Clients : Dial(b)
      PROVE  \A m \in Loops : inbox'[m] \subseteq inbox[m]
  <2>1. ASSUME NEW b \in Clients, ReadInput(b) \/ Dispatched(b) \/ EmbeddedExpires(b) \/ Emit(b) \/ Breaks(b)
        PROVE  inbox' = inbox
    BY <2>1 DEF ReadInput, Dispatched, EmbeddedExpires, Emit, Breaks, hubState
  <2>2. ASSUME NEW k \in Loops, NEW r \in Requests, Handle(k, r)
        PROVE  inbox' = [inbox EXCEPT ![k] = @ \ {r}]
    BY <2>2 DEF Handle
  <2>3. ASSUME NEW k \in Loops, Wakes(k) \/ Expires(k) PROVE inbox' = inbox
    BY <2>3 DEF Wakes, Expires, WaitReturns
  <2>4. CASE HubStops \/ HubStarts \/ UNCHANGED stdioVars
    BY <2>4 DEF HubStops, HubStarts, stdioVars, NoInbox
  <2>5. QED
    BY <1>0, <1>5, <2>1, <2>2, <2>3, <2>4 DEF StdioNext, Serve
<1>6. CASE (~\E b \in Clients : Dial(b)) /\ posts' = posts
  BY <1>1, <1>2, <1>3, <1>5, <1>6
<1>7. CASE \E k \in Loops : \E r \in Requests :
             Handle(k, r) /\ r \in inbox[k] /\ posts' = Post(r, Anonymous)
  <2> PICK k \in Loops, r \in Requests :
             Handle(k, r) /\ r \in inbox[k] /\ posts' = Post(r, Anonymous)
    BY <1>7
  <2>1. inbox' = [inbox EXCEPT ![k] = @ \ {r}]
    BY DEF Handle
  <2>2. /\ \A m \in Loops : inbox'[m] \subseteq inbox[m]
        /\ q \in inbox[l] /\ q # r /\ q \in Requests
    BY <1>0, <2>1 DEF Queued
  <2>3. ASSUME NEW p \in posts', p.by = q[1] PROVE p.of # q[2]
    <3>1. CASE p \in posts
      BY <2>2, <2>3, <3>1 DEF Queued
    <3>2. CASE p = [by |-> r[1], of |-> r[2], as |-> Anonymous]
      BY <2>2, <2>3, <3>2, RequestParts
    <3>3. QED
      BY <3>1, <3>2 DEF Post
  <2>4. QED
    BY <1>1, <1>2, <2>2, <2>3
<1>8. CASE (~\E b \in Clients : Dial(b)) /\ \E b \in Clients : Dispatched(b) /\ posts' = Post(Current(b), caller[b])
  <2> PICK b \in Clients : Dispatched(b) /\ posts' = Post(Current(b), caller[b])
    BY <1>8
  <2>1. q \in inbox[l] /\ kind[b] = "embedded"
    BY <1>2, <1>5, <1>8 DEF Dispatched
  <2>2. ASSUME NEW p \in posts', p.by = q[1] PROVE p.of # q[2]
    <3>1. CASE p \in posts
      BY <2>1, <2>2, <3>1 DEF Queued
    <3>2. CASE p = [by |-> Current(b)[1], of |-> Current(b)[2], as |-> caller[b]]
      BY <2>1, <2>2, <3>2 DEF Queued, Current
    <3>3. QED
      BY <3>1, <3>2 DEF Post
  <2>3. QED
    BY <1>1, <1>2, <1>5, <1>8, <2>1, <2>2
<1>9. QED
  BY <1>4, <1>6, <1>7, <1>8, NewPosts

\* What blocks a loop stays a cc.wait.
LEMMA WaitsStay ==
  ASSUME ServersInv, Queued, Waits, [StdioNext]_stdioVars
  PROVE  Waits'
<1> SUFFICES ASSUME NEW l \in Loops, waiting'[l] # NoRequest
             PROVE  /\ waiting'[l][2] <= Len(sent'[waiting'[l][1]])
                    /\ Calls(sent'[waiting'[l][1]][waiting'[l][2]], "cc.wait")
  BY DEF Waits, Line
<1>0. /\ waiting \in [Loops -> Requests \cup {NoRequest}] /\ NoRequest \notin Requests
      /\ inbox \in [Loops -> SUBSET Requests]
  BY StdioAssumption DEF ServersInv, StdioTypeOK
<1>1. ASSUME NEW q \in Requests, q[2] <= Len(sent[q[1]]), Calls(Line(q), "cc.wait")
      PROVE  q[2] <= Len(sent'[q[1]]) /\ Calls(sent'[q[1]][q[2]], "cc.wait")
  <2>1. q[1] \in Clients /\ q[2] \in Nat \ {0}
    BY RequestParts
  <2>2. /\ Len(sent[q[1]]) \in Nat /\ Len(sent'[q[1]]) \in Nat
        /\ Len(sent[q[1]]) <= Len(sent'[q[1]])
        /\ \A i \in 1..Len(sent[q[1]]) : sent'[q[1]][i] = sent[q[1]][i]
    BY <2>1, LinesStay
  <2>3. sent'[q[1]][q[2]] = Line(q)
    BY <1>1, <2>1, <2>2 DEF Line
  <2>4. QED
    BY <1>1, <2>1, <2>2, <2>3
<1>2. CASE waiting'[l] = waiting[l]
  BY <1>0, <1>1, <1>2 DEF Waits
<1>3. ASSUME NEW k \in Loops, NEW q \in Requests, Handle(k, q), waiting'[l] # waiting[l]
      PROVE  waiting'[l] = q /\ q[2] <= Len(sent[q[1]]) /\ Calls(Line(q), "cc.wait")
  <2>1. q \in inbox[k]
    BY <1>3 DEF Handle
  <2>2. Calls(Line(q), "cc.wait") /\ waiting' = [waiting EXCEPT ![k] = q]
    BY <1>3 DEF Handle
  <2>3. q[2] <= Len(sent[q[1]])
    BY <2>1 DEF Queued, Behind
  <2>4. QED
    BY <1>0, <1>3, <2>2, <2>3
<1>4. ASSUME NEW k \in Loops, Wakes(k) \/ Expires(k) PROVE waiting'[l] = waiting[l]
  BY <1>0, <1>4 DEF Wakes, Expires, WaitReturns
<1>5. ASSUME NEW b \in Clients, ReadInput(b) \/ Serve(b) \/ Breaks(b)
      PROVE  waiting'[l] = waiting[l]
  BY <1>5 DEF ReadInput, Serve, Dial, Dispatched, EmbeddedExpires, Emit, Breaks, hubState
<1>6. CASE HubStops
  BY <1>6 DEF HubStops, NoWaits
<1>7. CASE HubStarts \/ UNCHANGED stdioVars
  BY <1>2, <1>7 DEF HubStarts, stdioVars
<1>8. QED
  BY <1>1, <1>2, <1>3, <1>4, <1>5, <1>6, <1>7 DEF StdioNext

\* No line appends two clacks.
LEMMA PostedOnceStays ==
  ASSUME ServersInv, Queued, PostedOnce, [StdioNext]_stdioVars
  PROVE  PostedOnce'
<1>0. posts \subseteq [by : Clients, of : Nat \ {0}, as : Identities]
      /\ inbox \in [Loops -> SUBSET Requests]
  BY DEF ServersInv, StdioTypeOK
<1>1. ASSUME NEW p \in posts PROVE Behind(p.by, p.of)'
  <2>1. p.by \in Clients /\ p.of \in Nat /\ Behind(p.by, p.of)
    BY <1>0, <1>1 DEF PostedOnce
  <2>2. QED
    BY <2>1, BehindStays
<1>2. ASSUME NEW q \in Requests, NEW as, posts' = Post(q, as),
             \A p \in posts : p.by = q[1] => p.of # q[2], Behind(q[1], q[2])'
      PROVE  PostedOnce'
  <2> DEFINE new == [by |-> q[1], of |-> q[2], as |-> as]
  <2>1. posts' = posts \cup {new} /\ new.by = q[1] /\ new.of = q[2]
    BY <1>2 DEF Post
  <2> HIDE DEF new
  <2>2. \A p \in posts' : Behind(p.by, p.of)'
    BY <1>1, <1>2, <2>1 DEF Behind
  <2>3. ASSUME NEW p \in posts', NEW r \in posts', p.by = r.by, p.of = r.of PROVE p = r
    BY <1>2, <2>1, <2>3 DEF PostedOnce
  <2>4. QED
    BY <2>2, <2>3 DEF PostedOnce
<1>3. CASE posts' = posts
  BY <1>1, <1>3 DEF PostedOnce
<1>4. ASSUME NEW l \in Loops, NEW q \in Requests, q \in inbox[l], posts' = Post(q, Anonymous)
      PROVE  PostedOnce'
  <2>1. /\ Behind(q[1], q[2]) /\ \A p \in posts : p.by = q[1] => p.of # q[2]
    BY <1>4 DEF Queued
  <2>2. Behind(q[1], q[2])'
    BY <2>1, RequestParts, BehindStays
  <2>3. QED
    BY <1>2, <1>4, <2>1, <2>2
<1>5. ASSUME NEW b \in Clients, Dispatched(b), posts' = Post(Current(b), caller[b])
      PROVE  PostedOnce'
  <2>1. Behind(b, Len(sent[b]))' /\ ~Behind(b, Len(sent[b])) /\ sent' = sent /\ pc[b] # "read"
    BY <1>5, SentOn DEF Dispatched
  <2>2. PICK q \in Requests, as \in {caller[b]} : q = Current(b) /\ as = caller[b]
    BY <2>1, AtLine
  <2>3. q[1] = b /\ q[2] = Len(sent[b]) /\ posts' = Post(q, as)
    BY <1>5, <2>1, <2>2, AtLine
  <2>4. \A p \in posts : p.by = q[1] => p.of # q[2]
    BY <2>1, <2>3 DEF PostedOnce
  <2>5. Behind(q[1], q[2])'
    BY <2>1, <2>3 DEF Behind
  <2>6. QED
    BY <1>2, <2>3, <2>4, <2>5
<1>6. QED
  BY <1>3, <1>4, <1>5, NewPosts

-----------------------------------------------------------------------------
(* Whose name a clack carries *)

\* The n-th line does not name itself, and later lines do not count.
LEMMA NamedStays ==
  ASSUME NEW name, NEW lines, NEW more, NEW n \in Nat \ {0}, NamedBy(name, lines, n),
         \A i \in 1..(n - 1) : more[i] = lines[i]
  PROVE  NamedBy(name, more, n)
<1>1. Naming(more, n) = Naming(lines, n)
  BY DEF Naming
<1>2. \A i \in Naming(lines, n) : more[i] = lines[i]
  BY DEF Naming
<1>3. QED
  BY <1>1, <1>2 DEF NamedBy

\* A line that gives its session a name.
GivesName(l) ==
  l.json /\ l.typed /\ Kind(l) = "Request" /\ l.method = "initialize" /\ l.target # ""

\* The lines that name the session.
LEMMA NamingIs ==
  ASSUME NEW lines, NEW n, NEW i
  PROVE  i \in Naming(lines, n) <=> i \in 1..(n - 1) /\ GivesName(lines[i])
  BY Zenon DEF Naming, GivesName

\* A session has the name of the line that gives one.
LEMMA CallerIs ==
  ASSUME NEW l \in RpcLine, NEW name
  PROVE  Caller(l, name) = IF GivesName(l) THEN l.target ELSE name
<1>1. Kind(l) = "Request" => l.version = "2.0"
  BY DEF Kind
<1>2. CASE Kind(l) = "Request" /\ l.method = "initialize"
  <2>1. ~Throws(l) <=> l.typed
    BY <1>1, <1>2 DEF Throws, ReadsParams
  <2>2. QED
    BY <1>2, <2>1 DEF Caller, GivesName
<1>3. CASE ~(Kind(l) = "Request" /\ l.method = "initialize")
  BY <1>3 DEF Caller, GivesName
<1>4. QED
  BY <1>2, <1>3

\* Dispatching a line makes the session's name the one that line gives, or leaves it.
LEMMA NamedNext ==
  ASSUME NEW name, NEW lines, NEW n \in Nat \ {0}, NamedBy(name, lines, n),
         lines[n] \in RpcLine
  PROVE  NamedBy(Caller(lines[n], name), lines, n + 1)
<1>1. /\ \A i : i \in Naming(lines, n) <=> i \in 1..(n - 1) /\ GivesName(lines[i])
      /\ \A i : i \in Naming(lines, n + 1) <=> i \in 1..n /\ GivesName(lines[i])
  BY NamingIs
<1>2. Caller(lines[n], name) = IF GivesName(lines[n]) THEN lines[n].target ELSE name
  BY CallerIs
<1>3. CASE GivesName(lines[n])
  <2>1. n \in Naming(lines, n + 1) /\ \A j \in Naming(lines, n + 1) : j <= n
    BY <1>1, <1>3
  <2>2. QED
    BY <1>2, <1>3, <2>1 DEF NamedBy
<1>4. CASE ~GivesName(lines[n])
  <2>1. Naming(lines, n + 1) = Naming(lines, n)
    <3>1. ASSUME NEW i PROVE i \in Naming(lines, n + 1) <=> i \in Naming(lines, n)
      <4>1. i \in 1..n <=> i \in 1..(n - 1) \/ i = n
        OBVIOUS
      <4>2. QED
        BY <1>1, <1>4, <4>1
    <3>2. QED
      BY <3>1
  <2>2. QED
    BY <1>2, <1>4, <2>1 DEF NamedBy
<1>5. QED
  BY <1>3, <1>4

\* An embedded hub's session keeps the name its lines gave it.
LEMMA CallerNamedStays ==
  ASSUME ServersInv, CallerNamed, [StdioNext]_stdioVars
  PROVE  CallerNamed'
<1> SUFFICES ASSUME NEW b \in Clients, kind'[b] = "embedded"
             PROVE  NamedBy(caller'[b], sent'[b],
                            IF pc'[b] \in {"dial", "blocked"}
                            THEN Len(sent'[b]) ELSE Len(sent'[b]) + 1)
  BY DEF CallerNamed
<1> DEFINE n == IF pc[b] \in {"dial", "blocked"} THEN Len(sent[b]) ELSE Len(sent[b]) + 1
<1>0. /\ kind[b] = "embedded" /\ ServerInv(b)
      /\ pc \in [Clients -> {"read", "dial", "posted", "blocked", "emit"}]
      /\ caller \in [Clients -> Identities] /\ Len(sent[b]) \in Nat
  BY KindStays DEF ServersInv, StdioTypeOK
<1>1. NamedBy(caller[b], sent[b], n)
  BY <1>0 DEF CallerNamed
<1>2. CASE pc'[b] = pc[b] /\ sent'[b] = sent[b] /\ caller'[b] = caller[b]
  BY <1>1, <1>2
<1>3. CASE ReadInput(b)
  <2>1. PICK l \in Lines[b] : sent' = [sent EXCEPT ![b] = Append(@, l)]
    BY <1>3 DEF ReadInput
  <2>2. sent \in [Clients -> Seq(RpcLine)] /\ l \in RpcLine
    BY StdioAssumption DEF ServersInv, StdioTypeOK
  <2>3. sent'[b] = Append(sent[b], l) /\ sent[b] \in Seq(RpcLine)
    BY <2>1, <2>2
  <2>4. Len(sent'[b]) = Len(sent[b]) + 1 /\ \A i \in 1..Len(sent[b]) : sent'[b][i] = sent[b][i]
    BY <2>2, <2>3
  <2>5. pc[b] = "read" /\ pc'[b] = "dial" /\ caller'[b] = caller[b]
    BY <1>0, <1>3 DEF ReadInput
  <2>6. /\ NamedBy(caller[b], sent[b], Len(sent[b]) + 1) /\ Len(sent[b]) + 1 \in Nat \ {0}
        /\ \A i \in 1..((Len(sent[b]) + 1) - 1) : sent'[b][i] = sent[b][i]
    BY <1>0, <1>1, <2>4, <2>5
  <2> HIDE DEF n
  <2>7. NamedBy(caller[b], sent'[b], Len(sent[b]) + 1)
    BY <2>6, NamedStays
  <2>8. QED
    BY <2>4, <2>5, <2>7
<1>4. CASE pc[b] \in {"dial", "blocked"} /\ pc'[b] = "emit" /\ sent'[b] = sent[b]
           /\ caller'[b] = Caller(LastLine(b), caller[b])
  <2>1. Len(sent[b]) \in Nat \ {0} /\ LastLine(b) \in RpcLine
    BY <1>4, AtLine
  <2>2. NamedBy(Caller(sent[b][Len(sent[b])], caller[b]), sent[b], Len(sent[b]) + 1)
    BY <1>1, <1>4, <2>1, NamedNext DEF LastLine
  <2>3. QED
    BY <1>4, <2>2 DEF LastLine
<1>5. CASE Dispatched(b)
  <2>1. pc[b] = "dial" /\ sent' = sent /\ Line(Current(b)) = LastLine(b)
    BY <1>5, AtLine DEF Dispatched
  <2>2. CASE Calls(Line(Current(b)), "cc.wait")
    <3>1. pc'[b] = "blocked" /\ caller' = caller
      BY <1>0, <1>5, <2>2 DEF Dispatched
    <3>2. QED
      BY <1>1, <2>1, <3>1
  <2>3. CASE ~Calls(Line(Current(b)), "cc.wait")
    <3>1. pc'[b] = "emit" /\ caller'[b] = Caller(LastLine(b), caller[b])
      BY <1>0, <1>5, <2>1, <2>3 DEF Dispatched
    <3>2. QED
      BY <1>4, <2>1, <3>1
  <2>4. QED
    BY <2>2, <2>3
<1>6. CASE EmbeddedExpires(b)
  <2>1. pc[b] = "blocked" /\ pc'[b] = "emit" /\ sent' = sent /\ caller' = caller
    BY <1>0, <1>6 DEF EmbeddedExpires
  <2>2. Calls(LastLine(b), "cc.wait")
    BY <1>0, <2>1 DEF ServerInv
  <2>3. Caller(LastLine(b), caller[b]) = caller[b]
    BY <2>2 DEF Calls, Caller
  <2>4. QED
    BY <1>4, <2>1, <2>3
<1>7. CASE Emit(b)
  <2>1. pc[b] = "emit" /\ pc'[b] = "read" /\ sent' = sent /\ caller' = caller
    BY <1>0, <1>7 DEF Emit
  <2>2. QED
    BY <1>1, <2>1
<1>8. ~Dial(b) /\ ~Breaks(b) /\ pc[b] # "posted"
  BY <1>0 DEF Dial, Breaks, ServerInv
<1>9. QED
  BY <1>2, <1>3, <1>5, <1>6, <1>7, <1>8, ServerMoves

\* A clack carries the name of the session that appended it.
LEMMA PostsNamedStays ==
  ASSUME ServersInv, Queued, PostedOnce, CallerNamed, PostsNamed, [StdioNext]_stdioVars
  PROVE  PostsNamed'
<1> SUFFICES ASSUME NEW p \in posts'
             PROVE  IF kind'[p.by] = "bridge" THEN p.as = Anonymous
                    ELSE NamedBy(p.as, sent'[p.by], p.of)
  BY DEF PostsNamed
<1>0. kind' = kind /\ posts \subseteq [by : Clients, of : Nat \ {0}, as : Identities]
  BY KindStays DEF ServersInv, StdioTypeOK
<1>1. CASE p \in posts
  <2>1. p.by \in Clients /\ p.of \in Nat \ {0} /\ p.of <= Len(sent[p.by])
    BY <1>0, <1>1 DEF PostedOnce, Behind
  <2>2. \A i \in 1..(p.of - 1) : sent'[p.by][i] = sent[p.by][i]
    BY <2>1, LinesStay
  <2>3. CASE kind[p.by] = "bridge"
    BY <1>0, <1>1, <2>3 DEF PostsNamed
  <2>4. CASE kind[p.by] # "bridge"
    <3>1. NamedBy(p.as, sent[p.by], p.of)
      BY <1>1, <2>4 DEF PostsNamed
    <3>2. NamedBy(p.as, sent'[p.by], p.of)
      BY <2>1, <2>2, <3>1, NamedStays
    <3>3. QED
      BY <1>0, <2>4, <3>2
  <2>5. QED
    BY <2>3, <2>4
<1>2. ASSUME NEW l \in Loops, NEW q \in Requests, q \in inbox[l], posts' = Post(q, Anonymous),
             p \notin posts
      PROVE  kind'[p.by] = "bridge" /\ p.as = Anonymous
  <2>1. p = [by |-> q[1], of |-> q[2], as |-> Anonymous]
    BY <1>2 DEF Post
  <2>2. QED
    BY <1>0, <1>2, <2>1 DEF Queued
<1>3. ASSUME NEW b \in Clients, Dispatched(b), posts' = Post(Current(b), caller[b]), p \notin posts
      PROVE  kind'[p.by] # "bridge" /\ NamedBy(p.as, sent'[p.by], p.of)
  <2>1. p = [by |-> b, of |-> Len(sent[b]), as |-> caller[b]]
    BY <1>3 DEF Post, Current
  <2>2. kind[b] = "embedded" /\ pc[b] = "dial" /\ sent' = sent
    BY <1>3 DEF Dispatched
  <2>3. NamedBy(caller[b], sent[b], Len(sent[b]))
    BY <2>2 DEF CallerNamed
  <2>4. QED
    BY <1>0, <2>1, <2>2, <2>3
<1>4. QED
  BY <1>1, <1>2, <1>3, NewPosts

-----------------------------------------------------------------------------
(* An answered post was appended *)

\* A call of one tool is no call of another.
LEMMA OneTool ==
  ASSUME NEW l, Calls(l, "cc.wait")
  PROVE  ~Calls(l, "cc.post_clack")
  BY DEF Calls

\* Once a server holds its host's answer to a cc.post_clack, the clack is there.
LEMMA AnswerMeansAppended ==
  ASSUME ServersInv, Waits, AnswersAppended, [StdioNext]_stdioVars, NEW b \in Clients,
         pc'[b] = "emit", Calls(LastLine(b), "cc.post_clack")',
         body'[b] = HostAnswer(kind[b], LastLine(b)')
  PROVE  \E p \in posts' : p.by = b /\ p.of = Len(sent'[b])
<1>0. /\ pc \in [Clients -> {"read", "dial", "posted", "blocked", "emit"}]
      /\ body \in [Clients -> Replies \cup {NoReply}] /\ ServerInv(b)
  BY DEF ServersInv, StdioTypeOK
<1>1. /\ posts \subseteq posts'
      /\ ~ReadInput(b) /\ ~Emit(b)
  BY <1>0, PostsGrow DEF ReadInput, Emit
<1>2. sent'[b] = sent[b] /\ LastLine(b)' = LastLine(b)
  <2>1. sent'[b] = sent[b]
    BY <1>1, ServerMoves DEF Dial, Dispatched, EmbeddedExpires, Breaks
  <2>2. QED
    BY <2>1 DEF LastLine
<1>3. Calls(LastLine(b), "cc.post_clack") /\ body'[b] = HostAnswer(kind[b], LastLine(b))
  BY <1>2
<1>4. pc[b] # "read"
  BY <1>0, <1>1, ServerMoves DEF Dial, Dispatched, EmbeddedExpires, Breaks
<1>5. /\ LastLine(b) \in RpcLine /\ Line(Current(b)) = LastLine(b)
      /\ Current(b)[1] = b /\ Current(b)[2] = Len(sent[b]) /\ Current(b) \in Requests
  BY <1>4, AtLine
<1>6. body'[b] # NoReply /\ body'[b].code = Done
  <2>1. "cc.post_clack" \in ToolNames
    BY DEF ToolNames
  <2>2. HostAnswer(kind[b], LastLine(b)) = Reply(RpcId(LastLine(b)), Done)
        /\ HostAnswer(kind[b], LastLine(b)) # NoReply
    BY <1>3, <1>5, <2>1, CallAnswer
  <2>3. QED
    BY <1>3, <2>2 DEF Reply
<1>7. ~Calls(LastLine(b), "cc.wait")
  BY <1>3, OneTool
<1>8. ASSUME NEW as, posts' = Post(Current(b), as)
      PROVE  \E p \in posts' : p.by = b /\ p.of = Len(sent'[b])
  <2> DEFINE new == [by |-> b, of |-> Len(sent[b]), as |-> as]
  <2>1. new \in posts' /\ new.by = b /\ new.of = Len(sent[b])
    BY <1>5, <1>8 DEF Post
  <2> HIDE DEF new
  <2>2. QED
    BY <1>2, <2>1
<1>9. CASE Dispatched(b)
  <2>1. posts' = Post(Current(b), caller[b])
    BY <1>3, <1>5, <1>7, <1>9 DEF Dispatched
  <2>2. PICK as \in {caller[b]} : as = caller[b]
    OBVIOUS
  <2>3. QED
    BY <1>8, <2>1, <2>2
<1>10. ~Dial(b)
  <2>1. Dial(b) => body'[b] = NoReply
    BY <1>0 DEF Dial, ServerInv
  <2>2. QED
    BY <1>6, <2>1
<1>11. ~EmbeddedExpires(b)
  BY <1>0, <1>7 DEF EmbeddedExpires, ServerInv
<1>12. ~Breaks(b)
  <2>1. Breaks(b) => body'[b] = NoReply \/ body'[b] = Reply("null", Fragment)
    BY <1>0 DEF Breaks, ServerInv
  <2>2. QED
    BY <1>6, <2>1 DEF Reply, Done, Fragment
<1>13. CASE pc[b] = "posted"
  <2>1. body'[b] # body[b]
    BY <1>0, <1>6, <1>13 DEF ServerInv
  <2>2. ~\E l \in Loops : waiting[l] = Current(b) /\ waiting[l] # NoRequest
    BY <1>5, <1>7 DEF Waits
  <2>3. PICK l \in Loops : Handle(l, Current(b)) /\ ~Calls(Line(Current(b)), "cc.wait")
    BY <1>0, <1>1, <1>9, <1>10, <1>11, <1>12, <1>13, <2>1, <2>2, ServerMoves DEF Dispatched
  <2>4. posts' = Post(Current(b), Anonymous)
    BY <1>3, <1>5, <2>3 DEF Handle
  <2>5. QED
    BY <1>8, <2>4
<1>14. CASE pc[b] = pc'[b] /\ body'[b] = body[b]
  <2>1. \E p \in posts : p.by = b /\ p.of = Len(sent[b])
    BY <1>3, <1>14 DEF AnswersAppended, Appended
  <2>2. QED
    BY <1>1, <1>2, <2>1
<1>15. QED
  BY <1>1, <1>9, <1>10, <1>11, <1>12, <1>13, <1>14, ServerMoves

\* A step keeps it that an answered post was appended.
LEMMA AnswersAppendedStays ==
  ASSUME ServersInv, Waits, AnswersAppended, [StdioNext]_stdioVars
  PROVE  AnswersAppended'
<1>0. kind' = kind /\ posts \subseteq posts'
  BY KindStays, PostsGrow
<1>1. ASSUME NEW b \in Clients, pc'[b] = "emit", Calls(LastLine(b), "cc.post_clack")',
             body'[b] = HostAnswer(kind'[b], LastLine(b)')
      PROVE  \E p \in posts' : p.by = b /\ p.of = Len(sent'[b])
  BY <1>0, <1>1, AnswerMeansAppended
<1>2. ASSUME NEW b \in Clients, NEW i \in DOMAIN out'[b],
             Calls(sent'[b][out'[b][i].of], "cc.post_clack"), out'[b][i].reply.code = Done
      PROVE  \E p \in posts' : p.by = b /\ p.of = out'[b][i].of
  <2>1. CASE /\ i \in DOMAIN out[b] /\ out'[b][i] = out[b][i]
             /\ sent'[b][out[b][i].of] = sent[b][out[b][i].of]
    <3>1. \E p \in posts : p.by = b /\ p.of = out[b][i].of
      BY <1>2, <2>1 DEF AnswersAppended, Appended
    <3>2. QED
      BY <1>0, <2>1, <3>1
  <2>2. CASE /\ pc[b] = "emit" /\ Written(b) # NoReply /\ UNCHANGED <<kind, sent, posts>>
             /\ out'[b][i] = [of |-> Len(sent[b]), reply |-> Written(b), clean |-> clean[b]]
    <3>1. /\ out'[b][i].of = Len(sent[b]) /\ Written(b).code = Done
          /\ Calls(LastLine(b), "cc.post_clack")
      BY <1>2, <2>2 DEF LastLine
    <3>2. body[b] = HostAnswer(kind[b], LastLine(b))
      BY <2>2, <3>1, WrittenAnswers
    <3>3. \E p \in posts : p.by = b /\ p.of = Len(sent[b])
      BY <2>2, <3>1, <3>2 DEF AnswersAppended, Appended
    <3>4. QED
      BY <2>2, <3>1, <3>3
  <2>3. QED
    BY <2>1, <2>2, AnswersStay
<1>3. QED
  BY <1>1, <1>2 DEF AnswersAppended, Appended, LastLine

\* The invariant of the posts.
LEMMA PostsInductive == StdioSpec => []PostsInv
<1>1. StdioInit => PostsInv
  <2> SUFFICES ASSUME StdioInit PROVE PostsInv
    OBVIOUS
  <2>1. Queued /\ Waits /\ PostedOnce /\ PostsNamed
    BY DEF StdioInit, NoInbox, NoWaits, Queued, Waits, PostedOnce, PostsNamed
  <2>2. CallerNamed
    <3> SUFFICES ASSUME NEW b \in Clients PROVE NamedBy(caller[b], sent[b], Len(sent[b]) + 1)
                                                /\ pc[b] = "read"
      BY DEF CallerNamed
    <3>1. caller[b] = Anonymous /\ pc[b] = "read" /\ Len(sent[b]) + 1 = 1
      BY DEF StdioInit
    <3>2. Naming(sent[b], 1) = {}
      BY DEF Naming
    <3>3. QED
      BY <3>1, <3>2 DEF NamedBy
  <2>3. AnswersAppended
    BY DEF StdioInit, AnswersAppended
  <2>4. QED
    BY <2>1, <2>2, <2>3 DEF PostsInv
<1>2. PostsInv /\ ServersInv /\ [StdioNext]_stdioVars => PostsInv'
  BY QueuedStays, WaitsStay, PostedOnceStays, CallerNamedStays, PostsNamedStays,
     AnswersAppendedStays DEF PostsInv
<1>3. QED
  BY <1>1, <1>2, ServersInductive, PTL DEF StdioSpec

\* A clack carries the name its session was given last, no line appends two, and
\* an answered cc.post_clack was appended: also when the hub takes a request up
\* whose connection is gone, or dies before it answers.
THEOREM PostsAreTheCallers == StdioSpec => []PostsByCaller
<1>1. ServersInv /\ PostsInv => PostsByCaller
  BY DEF PostsInv, PostsNamed, PostedOnce, AnswersAppended, Appended, PostsByCaller
<1>2. QED
  BY <1>1, ServersInductive, PostsInductive, PTL
=============================================================================

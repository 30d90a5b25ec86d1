----------------------------- MODULE LineServer -----------------------------
(***************************************************************************)
(* What a stdio server promises a client, whichever host is behind it: it  *)
(* reads lines in order, writes at most one answer to each, before it      *)
(* reads the next, and what it writes answers that line.                   *)
(***************************************************************************)
EXTENDS Rpc

CONSTANTS Clients,
          Lines   \* the lines each client may send

VARIABLES sent, \* the lines each client's server has read
          out   \* its answers: [of : position in sent, reply]

\* A notification that parses, with no text "id" anywhere.
Plain(l) ==
  l.json /\ l.version = "2.0" /\ Kind(l) = "Notification" /\ l.id = "none" /\ ~l.nested

\* An answer to a line: the dispatcher's own, or one that names no id.  A plain
\* notification has none.
MayAnswer(l, r) ==
  /\ r.id # "null" => r = CcHubJsonrpc(l)
  /\ ~Plain(l)

LineInit == sent = [b \in Clients |-> <<>>] /\ out = [b \in Clients |-> <<>>]

\* Nothing is written yet about the last line read.
Silent(b) == \A i \in DOMAIN out[b] : out[b][i].of < Len(sent[b])

ReadLine(b) ==
  /\ \E l \in Lines[b] : sent' = [sent EXCEPT ![b] = Append(@, l)]
  /\ UNCHANGED out

WriteLine(b) ==
  /\ Len(sent[b]) > 0 /\ Silent(b)
  /\ LET l == sent[b][Len(sent[b])] IN
       \E id \in {RpcId(l), "null"}, code \in ErrorCodes \cup {Done, Page, Fragment} :
         /\ MayAnswer(l, Reply(id, code))
         /\ out' = [out EXCEPT ![b] =
              Append(@, [of |-> Len(sent[b]), reply |-> Reply(id, code)])]
  /\ UNCHANGED sent

LineNext == \E b \in Clients : ReadLine(b) \/ WriteLine(b)

LineSpec == LineInit /\ [][LineNext]_<<sent, out>>
=============================================================================

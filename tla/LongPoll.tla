------------------------------ MODULE LongPoll ------------------------------
(***************************************************************************)
(* cc.wait (mcp/mcp_server.hpp) on top of Wal::wait_for_next and           *)
(* Wal::read_range (core/wal.hpp): request threads that block until a      *)
(* clack that passes their filter is in the log, or until their deadline,  *)
(* while the writers of Wal append.                                        *)
(*                                                                         *)
(* The waiter's look at the table, its look at the clock and its look at   *)
(* latest_epoch_ are separate steps, between which any append may move.    *)
(***************************************************************************)
EXTENDS Wal

CONSTANTS Pollers,  \* request threads inside cc.wait
          Wanted,   \* the clicks the filter lets through
          Limit,    \* clacks an answer holds at most
          Window    \* rows one look reads: max(limit * 4, 64)

ASSUME PollAssumption ==
  /\ Limit \in Nat \ {0}
  /\ Window \in Nat /\ Window >= Limit
  /\ Wanted \subseteq Clicks

VARIABLE poll  \* the last or current call of each poller

\* pc       "idle", "first" (about to take the fast path), "clock" (at the head
\*          of the loop), "blocked" (in wait_for_next), "look" (woken)
\* anchor   its argument since_epoch
\* since    the local since, which the loop moves
\* woken    the local new_epoch, what wait_for_next returned
\* outcome  what the call returned
\* found    the epochs of its answer
Poll == [pc : {"idle", "first", "clock", "blocked", "look"},
         anchor : 0..MaxEpoch, since : 0..MaxEpoch, woken : 0..MaxEpoch,
         outcome : {"none", "found", "timed_out"}, found : SUBSET Epochs]

pollVars == <<walVars, poll>>

PollTypeOK == TypeOK /\ poll \in [Pollers -> Poll]

Started(from, where) ==
  [pc |-> where, anchor |-> from, since |-> from, woken |-> 0,
   outcome |-> "none", found |-> {}]

NoPolls == [p \in Pollers |-> Started(0, "idle")]

PollInit == Init /\ poll = NoPolls

-----------------------------------------------------------------------------
(* Reading the log *)

\* The n smallest members of S.
Smallest(n, S) == {e \in S : Cardinality({d \in S : d < e}) < n}

\* Wal::read_range: the first n rows whose key is at least from.
ReadRange(from, n) == Smallest(n, {e \in Stored : e >= from})

\* A faulty variant: the filter forgotten.
CollectUnfiltered(from) == Smallest(Limit, ReadRange(from, Window))

\* The lambda collect: the first Limit rows of a window that pass the filter.
Collect(from) ==
  Smallest(Limit, {e \in ReadRange(from, Window) : store[e] \in Wanted})

-----------------------------------------------------------------------------
(* cc.wait *)

PollBegin(p, e) ==
  /\ phase = "serving"
  /\ poll[p].pc = "idle"
  /\ poll' = [poll EXCEPT ![p] = Started(e, "first")]

\* The call returns, with an answer or without.
Answer(p, epochs) ==
  poll' = [poll EXCEPT
    ![p].pc = "idle",
    ![p].outcome = IF epochs = {} THEN "timed_out" ELSE "found",
    ![p].found = epochs]

\* One look at the table from the local since: it answers, or the loop goes on
\* with `next` for since.
LookThen(p, next) ==
  LET batch == Collect(poll[p].since) IN
    \/ batch # {} /\ Answer(p, batch)
    \/ batch = {} /\ poll' = [poll EXCEPT ![p].pc = "clock", ![p].since = next]

\* The fast path.
FirstLook(p) == poll[p].pc = "first" /\ LookThen(p, poll[p].since)

\* now < deadline: into wait_for_next.
Block(p) == poll[p].pc = "clock" /\ poll' = [poll EXCEPT ![p].pc = "blocked"]

\* The deadline has passed, at once for a timeout_ms of 0.
GiveUp(p) == poll[p].pc = "clock" /\ Answer(p, {})

\* A faulty variant: woken with the last epoch allocated, which may not be in
\* the log yet.
WakeWithCounter(p) ==
  /\ poll[p].pc = "blocked"
  /\ latest > poll[p].since
  /\ poll' = [poll EXCEPT ![p].pc = "look", ![p].woken = counter]

\* wait_for_next returns because its predicate holds.
Wake(p) ==
  /\ poll[p].pc = "blocked"
  /\ latest > poll[p].since
  /\ poll' = [poll EXCEPT ![p].pc = "look", ![p].woken = latest]

\* A faulty variant: the wait only gives up when the log is behind since.
TimeUpStrict(p) ==
  /\ poll[p].pc = "blocked"
  /\ latest < poll[p].since
  /\ Answer(p, {})

\* wait_for_next returns because the time is up: new_epoch <= since.
TimeUp(p) ==
  /\ poll[p].pc = "blocked"
  /\ latest <= poll[p].since
  /\ Answer(p, {})

\* A faulty variant: since moved past the new epoch.
LookSkipping(p) == poll[p].pc = "look" /\ LookThen(p, poll[p].woken + 1)

\* The look after a wake-up; with no match, since becomes the new epoch.
Look(p) == poll[p].pc = "look" /\ LookThen(p, poll[p].woken)

PollStep(p) ==
  FirstLook(p) \/ Block(p) \/ GiveUp(p) \/ Wake(p) \/ TimeUp(p) \/ Look(p)

-----------------------------------------------------------------------------

PollNext ==
  \/ (Open \/ Recover) /\ UNCHANGED poll
  \/ Stop /\ poll' = NoPolls
  \/ \E w \in Writers :
       /\ (\E c \in Clicks : Begin(w, c)) \/ Advance(w)
       /\ UNCHANGED poll
  \/ \E p \in Pollers :
       /\ (\E e \in 0..MaxEpoch : PollBegin(p, e)) \/ PollStep(p)
       /\ UNCHANGED walVars

PollSpec == PollInit /\ [][PollNext]_pollVars

\* Threads inside append() and cc.wait are scheduled again and again, and the
\* deadline of a wait passes.
FairPollSpec ==
  /\ PollSpec
  /\ \A w \in Writers : WF_pollVars(Advance(w) /\ UNCHANGED poll)
  /\ \A p \in Pollers : WF_pollVars(PollStep(p) /\ UNCHANGED walVars)

-----------------------------------------------------------------------------
(* Properties *)

\* The acknowledged clacks a call that began at this anchor is waiting for.
Due(p) == {a \in acked : a.click \in Wanted /\ a.epoch > poll[p].anchor}

\* The call looks in vain: at the table, or at latest_epoch_ when its time is up.
LooksInVain(p) ==
  \/ TimeUp(p)
  \/ poll[p].pc \in {"first", "look"} /\ poll'[p].pc = "clock"

\* "Blocks server-side until a clack matching the supplied filters arrives (or
\* timeout)" (mcp_server.hpp:761-762): a look that finds nothing, so the last one
\* of every call that reports a timeout, leaves behind no matching clack newer
\* than the anchor that was acknowledged by then, although the loop has moved
\* since.  What is acknowledged between that look and the look at the clock is
\* not answered, and of more rows than the window holds from the anchor on,
\* those behind it may never be looked at.
NoMissedMatch ==
  [][\A p \in Pollers :
       LooksInVain(p) /\ Cardinality({e \in Stored : e >= poll[p].anchor}) <= Window
         => Due(p) = {}]_pollVars

\* An answer holds rows of the log that pass the filter, never a row whose
\* number was skipped or that a later append replaced, and none older than the
\* call's anchor (the anchor's own row it may hold, mcp_server.hpp:803).
AnswerInLog ==
  \A p \in Pollers : \A e \in poll[p].found : e >= poll[p].anchor /\ store[e] \in Wanted

\* Every call returns, whatever is appended meanwhile.
PollReturns == \A p \in Pollers : poll[p].pc # "idle" ~> poll[p].pc = "idle"
=============================================================================

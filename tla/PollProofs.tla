----------------------------- MODULE PollProofs -----------------------------
(***************************************************************************)
(* Theorems about LongPoll, for any writers, pollers, filter and window.   *)
(***************************************************************************)
EXTENDS LongPoll, WalProofs

\* The loop of cc.wait only moves since forward from the anchor.
Forward ==
  \A p \in Pollers :
    /\ poll[p].anchor <= poll[p].since
    /\ poll[p].pc = "look" => poll[p].since <= poll[p].woken

PollInv == PollTypeOK /\ Forward /\ AnswerInLog

\* A waiter reads the log and leaves it alone.
LEMMA PollStepIsWalStep == [PollNext]_pollVars => [Next]_walVars
  BY DEF PollNext, pollVars, Next

\* Every behaviour with waiters is one of the log.
LEMMA PollImplementsWal == PollSpec => Spec
<1>1. PollInit => Init
  BY DEF PollInit
<1>2. QED
  BY <1>1, PollStepIsWalStep, PTL DEF PollSpec, Spec

\* What a look collects are matching rows from since on.
LEMMA CollectMatches ==
  ASSUME NEW from, NEW e \in Collect(from)
  PROVE  e \in Stored /\ e >= from /\ store[e] \in Wanted
  BY DEF Collect, Smallest, ReadRange

\* A step of one call keeps the invariant if it keeps that call's part.
LEMMA CallKeeps ==
  ASSUME PollInv, TypeOK', UNCHANGED store, NEW p \in Pollers, NEW r \in Poll,
         poll' = [poll EXCEPT ![p] = r],
         r.anchor <= r.since, r.pc = "look" => r.since <= r.woken,
         \A e \in r.found : e >= r.anchor /\ store[e] \in Wanted
  PROVE  PollInv'
<1>1. poll'[p] = r /\ \A q \in Pollers \ {p} : poll'[q] = poll[q]
  BY DEF PollInv, PollTypeOK
<1>2. PollTypeOK'
  BY DEF PollInv, PollTypeOK
<1>3. Forward'
  BY <1>1 DEF PollInv, Forward
<1>4. AnswerInLog'
  BY <1>1 DEF PollInv, AnswerInLog
<1>5. QED
  BY <1>2, <1>3, <1>4 DEF PollInv

\* An answer with matching rows from the anchor on keeps the invariant.
LEMMA AnswerKeeps ==
  ASSUME PollInv, TypeOK', UNCHANGED store, NEW p \in Pollers,
         NEW epochs \in SUBSET Epochs, Answer(p, epochs),
         \A e \in epochs : e >= poll[p].anchor /\ store[e] \in Wanted
  PROVE  PollInv'
<1> DEFINE outcome == IF epochs = {} THEN "timed_out" ELSE "found"
           r == [poll[p] EXCEPT !.pc = "idle", !.outcome = outcome, !.found = epochs]
<1>1. poll[p] \in Poll /\ outcome \in {"none", "found", "timed_out"}
  BY DEF PollInv, PollTypeOK
<1>2. poll' = [poll EXCEPT ![p] = r]
  BY DEF Answer
<1> HIDE DEF outcome
<1>3. r \in Poll /\ r.pc = "idle" /\ r.found = epochs
      /\ r.anchor = poll[p].anchor /\ r.since = poll[p].since
  BY <1>1 DEF Poll
<1>4. r.anchor <= r.since
  BY <1>3 DEF PollInv, Forward
<1> HIDE DEF r
<1>5. QED
  BY <1>2, <1>3, <1>4, CallKeeps

\* One look keeps the invariant, if since only moves forward.
LEMMA LookKeeps ==
  ASSUME PollInv, TypeOK', UNCHANGED store, NEW p \in Pollers,
         NEW next \in 0..MaxEpoch, poll[p].since <= next, LookThen(p, next)
  PROVE  PollInv'
<1> DEFINE batch == Collect(poll[p].since)
           r == [poll[p] EXCEPT !.pc = "clock", !.since = next]
<1>1. poll[p] \in Poll /\ poll[p].anchor <= poll[p].since
  BY DEF PollInv, PollTypeOK, Forward
<1>2. /\ batch \in SUBSET Epochs
      /\ \A e \in batch : e >= poll[p].anchor /\ store[e] \in Wanted
  BY <1>1, CollectMatches, WalAssumption DEF Stored, Poll, Epochs
<1>3. CASE Answer(p, batch)
  BY <1>2, <1>3, AnswerKeeps
<1>4. CASE poll' = [poll EXCEPT ![p].pc = "clock", ![p].since = next]
  <2>1. poll' = [poll EXCEPT ![p] = r]
    BY <1>4
  <2>2. r \in Poll /\ r.pc = "clock" /\ r.found = poll[p].found
        /\ r.anchor = poll[p].anchor /\ r.since = next
    BY <1>1 DEF Poll
  <2>3. r.anchor <= r.since
    BY <1>1, <2>2, WalAssumption DEF Poll
  <2>4. \A e \in r.found : e >= r.anchor /\ store[e] \in Wanted
    BY <2>2 DEF PollInv, AnswerInLog
  <2> HIDE DEF r
  <2>5. QED
    BY <2>1, <2>2, <2>3, <2>4, CallKeeps
<1>5. QED
  BY <1>3, <1>4 DEF LookThen

\* The invariant of cc.wait holds, whatever is appended, lost or restarted.
LEMMA PollInvInductive ==
  ASSUME Recovers
  PROVE  PollSpec => []PollInv
<1> USE WalAssumption DEF PollInv, PollTypeOK, Poll, Forward, AnswerInLog, Epochs
<1>1. PollInit => PollInv
  BY DEF PollInit, Init, TypeOK, NoPolls, Started
<1>2. HubInv /\ HubInv' /\ PollInv /\ [PollNext]_pollVars => PollInv'
  <2> SUFFICES ASSUME HubInv, HubInv', PollInv, [PollNext]_pollVars PROVE PollInv'
    OBVIOUS
  <2>1. TypeOK'
    BY DEF HubInv, TypeInv
  <2>2. \A e \in Epochs : store[e] # NoClick => store'[e] = store[e]
    BY PollStepIsWalStep, RowStays
  <2>3. ASSUME UNCHANGED poll PROVE PollInv'
    <3>1. \A p \in Pollers : \A e \in poll[p].found : store[e] # NoClick
      BY PollAssumption
    <3>2. QED
      BY <2>1, <2>2, <2>3, <3>1
  <2>4. CASE Stop /\ poll' = NoPolls
    BY <2>1, <2>4 DEF NoPolls, Started
  <2>5. ASSUME NEW p \in Pollers, NEW e \in 0..MaxEpoch, PollBegin(p, e), UNCHANGED walVars
        PROVE  PollInv'
    BY <2>1, <2>5, CallKeeps DEF PollBegin, Started, walVars
  <2>6. ASSUME NEW p \in Pollers, FirstLook(p), UNCHANGED walVars PROVE PollInv'
    BY <2>1, <2>6, LookKeeps DEF FirstLook, walVars
  <2>7. ASSUME NEW p \in Pollers, Wake(p), UNCHANGED walVars PROVE PollInv'
    <3> DEFINE r == [poll[p] EXCEPT !.pc = "look", !.woken = latest]
    <3>1. poll' = [poll EXCEPT ![p] = r]
      BY <2>7 DEF Wake
    <3>2. r \in Poll /\ r.pc = "look" /\ r.found = poll[p].found
          /\ r.anchor = poll[p].anchor /\ r.since = poll[p].since /\ r.woken = latest
      BY DEF TypeOK
    <3>3. r.anchor <= r.since /\ r.since <= r.woken
      BY <2>7, <3>2 DEF Wake, TypeOK
    <3>4. \A e \in r.found : e >= r.anchor /\ store[e] \in Wanted
      BY <3>2
    <3> HIDE DEF r
    <3>5. UNCHANGED store
      BY <2>7 DEF walVars
    <3>6. QED
      BY <2>1, <3>1, <3>2, <3>3, <3>4, <3>5, CallKeeps
  <2>8. ASSUME NEW p \in Pollers, TimeUp(p), UNCHANGED walVars PROVE PollInv'
    BY <2>1, <2>8, AnswerKeeps DEF TimeUp, walVars
  <2>9. ASSUME NEW p \in Pollers, Look(p), UNCHANGED walVars PROVE PollInv'
    BY <2>1, <2>9, LookKeeps DEF Look, walVars
  <2>10. ASSUME NEW p \in Pollers, Block(p), UNCHANGED walVars PROVE PollInv'
    <3> DEFINE r == [poll[p] EXCEPT !.pc = "blocked"]
    <3>1. poll' = [poll EXCEPT ![p] = r]
      BY <2>10 DEF Block
    <3>2. r \in Poll /\ r.pc = "blocked" /\ r.found = poll[p].found
          /\ r.anchor = poll[p].anchor /\ r.since = poll[p].since
      OBVIOUS
    <3>3. r.anchor <= r.since /\ \A e \in r.found : e >= r.anchor /\ store[e] \in Wanted
      BY <3>2
    <3> HIDE DEF r
    <3>4. UNCHANGED store
      BY <2>10 DEF walVars
    <3>5. QED
      BY <2>1, <3>1, <3>2, <3>3, <3>4, CallKeeps
  <2>11. ASSUME NEW p \in Pollers, GiveUp(p), UNCHANGED walVars PROVE PollInv'
    BY <2>1, <2>11, AnswerKeeps DEF GiveUp, walVars
  <2>12. CASE UNCHANGED pollVars
    BY <2>3, <2>12 DEF pollVars
  <2>13. QED
    BY <2>3, <2>4, <2>5, <2>6, <2>7, <2>8, <2>9, <2>10, <2>11, <2>12 DEF PollNext, PollStep
<1>3. PollSpec => []HubInv
  BY PollImplementsWal, HubInvInductive, PTL
<1>4. QED
  BY <1>1, <1>2, <1>3, PTL DEF PollSpec
\* Every call of cc.wait has locals of their types.
THEOREM PollTypeCorrect ==
  ASSUME Recovers
  PROVE  PollSpec => []PollTypeOK
  BY PollInvInductive, PTL DEF PollInv

\* Whatever is appended, lost or restarted meanwhile, an answer of cc.wait holds
\* rows of the log that pass its filter and are no older than its anchor.
THEOREM AnswersAreInLog ==
  ASSUME Recovers
  PROVE  PollSpec => []AnswerInLog
  BY PollInvInductive, PTL DEF PollInv
-----------------------------------------------------------------------------
(* What a look sees *)

\* The n smallest of at most n epochs are all of them.
LEMMA SmallestAll ==
  ASSUME NEW n \in Nat, NEW S \in SUBSET Epochs, Cardinality(S) <= n
  PROVE  Smallest(n, S) = S
<1> SUFFICES ASSUME NEW e \in S PROVE Cardinality({d \in S : d < e}) < n
  BY DEF Smallest
<1> DEFINE below == Cardinality({d \in S : d < e})
<1>1. below \in Nat /\ below < Cardinality(S) /\ Cardinality(S) \in Nat
  BY FewerBelow, EpochsFinite
<1> HIDE DEF below
<1>2. below < n
  BY <1>1
<1>3. QED
  BY <1>2 DEF below

\* Unless n is 0, only an empty set has no n smallest members.
LEMMA SmallestNone ==
  ASSUME NEW n \in Nat \ {0}, NEW S \in SUBSET Epochs, Smallest(n, S) = {}
  PROVE  S = {}
<1> SUFFICES ASSUME S # {} PROVE FALSE
  OBVIOUS
<1>1. PICK e \in S : \A d \in S : ~(d < e)
  BY SmallestMember
<1>2. {d \in S : d < e} = {}
  BY <1>1
<1>3. Cardinality({d \in S : d < e}) = 0
  BY <1>2, FS_EmptySet
<1>4. e \in Smallest(n, S)
  BY <1>3 DEF Smallest
<1>5. QED
  BY <1>4

\* The rows a call that began at this anchor may answer with.
Behind(anchor) == {e \in Stored : e >= anchor}

\* A look that comes back empty, in a log whose rows from the anchor on fit the
\* window, has ruled out every row from since on.
LEMMA EmptyLook ==
  ASSUME NEW anchor \in 0..MaxEpoch, NEW from \in 0..MaxEpoch, anchor <= from,
         Cardinality(Behind(anchor)) <= Window, Collect(from) = {},
         NEW e \in Stored, e >= from
  PROVE  store[e] \notin Wanted
<1> DEFINE rows == {d \in Stored : d >= from}
           matches == {d \in rows : store[d] \in Wanted}
<1>1. Behind(anchor) \in SUBSET Epochs /\ rows \in SUBSET Epochs
  BY DEF Behind, Stored
<1>2. rows \in SUBSET Behind(anchor)
  BY WalAssumption DEF Behind, Stored, Epochs
<1>3. Cardinality(rows) <= Cardinality(Behind(anchor))
  <2>1. IsFiniteSet(Behind(anchor))
    BY <1>1, EpochsFinite
  <2> HIDE DEF rows
  <2>2. QED
    BY <2>1, <1>2, FS_Subset
<1>4. Cardinality(rows) <= Window /\ Window \in Nat
  <2> HIDE DEF rows
  <2>1. Cardinality(rows) \in Nat /\ Cardinality(Behind(anchor)) \in Nat
    BY <1>1, EpochsFinite
  <2>2. QED
    BY <2>1, <1>3, PollAssumption
<1>5. ReadRange(from, Window) = rows
  <2> SUFFICES Smallest(Window, rows) = rows
    BY DEF ReadRange
  <2> HIDE DEF rows
  <2>1. QED
    BY <1>1, <1>4, SmallestAll
<1>6. Smallest(Limit, matches) = {}
  BY <1>5 DEF Collect
<1>7. matches \in SUBSET Epochs
  BY <1>1
<1>8. matches = {}
  <2> HIDE DEF matches
  <2>1. QED
    BY <1>6, <1>7, SmallestNone, PollAssumption
<1>9. QED
  BY <1>8
-----------------------------------------------------------------------------
(* A single writer: nothing is missed *)

\* With one append at a time, the epoch the notifier publishes has every
\* acknowledged clack behind it and the append in flight ahead.
Published ==
  phase = "serving" =>
    /\ \A a \in acked : a.epoch <= latest
    /\ \A w \in Writers : epoch[w] # 0 => latest < epoch[w]

\* A call's since never runs ahead of what is published, and the rows it has
\* passed were ruled out, if the window held them all.
PassedOver(p) ==
  poll[p].pc # "idle" =>
    /\ phase = "serving"
    /\ poll[p].since = poll[p].anchor \/ poll[p].since <= latest
    /\ poll[p].pc = "look" => poll[p].woken <= latest
    /\ Cardinality(Behind(poll[p].anchor)) <= Window =>
         \A e \in Stored : poll[p].anchor < e /\ e <= poll[p].since =>
           store[e] \notin Wanted

SerialInv == Published /\ \A p \in Pollers : PassedOver(p)

\* One append at a time: no two requests call append() at once.
OneWriter == \A v, w \in Writers : v = w

\* While the process serves, rows come only after the published epoch, which
\* only grows.
LEMMA LogMoves ==
  ASSUME OneWriter, HubInv, Published, phase = "serving", phase' = "serving",
         [Next]_walVars
  PROVE  /\ latest <= latest'
         /\ \A e \in Epochs : store'[e] # store[e] => latest < e
         /\ Published'
<1> USE WalAssumption DEF Epochs
<1> SUFFICES ASSUME [Next]_walVars PROVE
         /\ latest <= latest'
         /\ \A e \in Epochs : store'[e] # store[e] => latest < e
         /\ Published'
  OBVIOUS
<1>0. TypeOK /\ LocalsInUse /\ latest <= counter
  BY DEF HubInv, TypeInv, CounterCovers, LatestIsStored, TypeOK, Stored
<1>1. CASE UNCHANGED walVars
  BY <1>0, <1>1 DEF walVars, Published, TypeOK
<1>2. CASE Open \/ Recover \/ Stop
  BY <1>2 DEF Open, Recover, Stop
<1>3. ASSUME NEW w \in Writers, NEW c \in Clicks, Begin(w, c) PROVE
         /\ latest <= latest'
         /\ \A e \in Epochs : store'[e] # store[e] => latest < e
         /\ Published'
  BY <1>0, <1>3 DEF Begin, Published, TypeOK
<1>4. ASSUME NEW w \in Writers, Put(w) PROVE
         /\ latest <= latest'
         /\ \A e \in Epochs : store'[e] # store[e] => latest < e
         /\ Published'
  BY <1>0, <1>4 DEF Put, Published, TypeOK, LocalsInUse
<1>5. ASSUME NEW w \in Writers,
             PutFails(w) \/ ListenerThrows(w) \/ EnterListeners(w) \/ LeaveListeners(w)
      PROVE
         /\ latest <= latest'
         /\ \A e \in Epochs : store'[e] # store[e] => latest < e
         /\ Published'
  <2>1. UNCHANGED <<store, latest, acked>>
    BY <1>5 DEF PutFails, ListenerThrows, EnterListeners, LeaveListeners
  <2>2. \A v \in Writers : epoch'[v] = epoch[v] \/ epoch'[v] = 0
    BY <1>0, <1>5 DEF PutFails, ListenerThrows, EnterListeners, LeaveListeners, Leave, TypeOK
  <2>3. QED
    BY <1>0, <2>1, <2>2 DEF Published, TypeOK
<1>6. ASSUME NEW w \in Writers, Publish(w) PROVE
         /\ latest <= latest'
         /\ \A e \in Epochs : store'[e] # store[e] => latest < e
         /\ Published'
  <2>1. epoch[w] \in Epochs /\ latest < epoch[w] /\ latest' = epoch[w]
    BY <1>0, <1>6 DEF Publish, LocalsInUse, Published
  <2>2. \A a \in acked' : a.epoch <= latest'
    BY <1>0, <1>6, <2>1 DEF Publish, Clack, Published, TypeOK
  <2>3. \A v \in Writers : epoch'[v] = 0
    BY <1>0, <1>6 DEF Publish, Leave, OneWriter, TypeOK
  <2>4. QED
    BY <1>0, <1>6, <2>1, <2>2, <2>3 DEF Publish, Published, TypeOK
<1>7. QED
  BY <1>1, <1>2, <1>3, <1>4, <1>5, <1>6 DEF Next, Advance

\* A process that starts to serve has published its last row, and no append is
\* under way.
LEMMA PublishedStep ==
  ASSUME OneWriter, Recovers, HubInv, HubInv', Published, [Next]_walVars
  PROVE  Published'
<1> USE WalAssumption
<1> SUFFICES ASSUME phase' = "serving" PROVE Published'
  BY DEF Published
<1>1. CASE phase = "serving"
  BY <1>1, LogMoves
<1>2. CASE phase # "serving"
  <2>1. Recover
    BY <1>2 DEF Next, Advance, Open, Stop, Begin, Put, PutFails, EnterListeners,
                LeaveListeners, ListenerThrows, Publish, walVars, HubInv, IdleUnlessServing
  <2>2. \A a \in acked' : a.epoch \in Stored
    BY <2>1, WalAssumption DEF Recover, HubInv, AckedDurable, TypeInv, TypeOK, Stored
  <2>3. \A a \in acked' : a.epoch <= latest'
    BY <2>1, <2>2 DEF Recover
  <2>4. \A w \in Writers : epoch'[w] = 0
    BY <1>2, <2>1 DEF Recover, local, HubInv, IdleUnlessServing, TypeInv, LocalsInUse
  <2>5. QED
    BY <2>3, <2>4 DEF Published
<1>3. QED
  BY <1>1, <1>2

\* Rows are added, so that no window that has become too small was large enough.
LEMMA BehindGrows ==
  ASSUME NEW a \in 0..MaxEpoch,
         \A e \in Epochs : store[e] # NoClick => store'[e] = store[e],
         Cardinality(Behind(a)') <= Window
  PROVE  Cardinality(Behind(a)) <= Window
<1> DEFINE before == Behind(a)
           after == Behind(a)'
<1>1. before \in SUBSET Epochs /\ after \in SUBSET Epochs /\ before \in SUBSET after
  BY DEF Behind, Stored
<1> HIDE DEF before, after
<1>2. IsFiniteSet(after) /\ Cardinality(after) \in Nat /\ Cardinality(before) \in Nat
  BY <1>1, EpochsFinite
<1>3. Cardinality(before) <= Cardinality(after)
  BY <1>1, <1>2, FS_Subset
<1>4. Cardinality(after) <= Window
  BY DEF after
<1>5. QED
  BY <1>2, <1>3, <1>4, PollAssumption DEF before

\* While a call waits, a step of the log keeps its part of the invariant.
LEMMA LogKeeps ==
  ASSUME OneWriter, HubInv, Published, PollTypeOK, TypeOK', [Next]_walVars,
         phase = "serving", phase' = "serving", UNCHANGED poll,
         NEW p \in Pollers, PassedOver(p)
  PROVE  PassedOver(p)'
<1> SUFFICES ASSUME poll[p].pc # "idle" PROVE PassedOver(p)'
  BY DEF PassedOver
<1> DEFINE anchor == poll[p].anchor
           since == poll[p].since
           woken == poll[p].woken
<1>0. anchor \in 0..MaxEpoch /\ since \in 0..MaxEpoch /\ woken \in 0..MaxEpoch
      /\ latest \in 0..MaxEpoch /\ latest' \in 0..MaxEpoch
  BY DEF PollTypeOK, Poll, TypeOK
<1>1. /\ latest <= latest'
      /\ \A e \in Epochs : store'[e] # store[e] => latest < e
  BY LogMoves
<1>2. /\ since = anchor \/ since <= latest
      /\ poll[p].pc = "look" => woken <= latest
      /\ Cardinality(Behind(anchor)) <= Window =>
           \A e \in Stored : anchor < e /\ e <= since => store[e] \notin Wanted
  BY DEF PassedOver
<1>3. /\ since = anchor \/ since <= latest'
      /\ poll[p].pc = "look" => woken <= latest'
  BY <1>0, <1>1, <1>2, WalAssumption
<1>4. ASSUME NEW a \in 0..MaxEpoch, a = anchor, Cardinality(Behind(a)') <= Window,
             NEW e \in Stored', a < e, e <= since
      PROVE  store'[e] \notin Wanted
  <2>1. Cardinality(Behind(a)) <= Window
    BY <1>4, RowStays, BehindGrows
  <2>2. e \in Epochs
    BY DEF Stored
  <2>3. ~(latest < e)
    BY <1>0, <1>2, <1>4, <2>2, WalAssumption DEF Epochs
  <2>4. store'[e] = store[e] /\ e \in Stored
    BY <1>1, <2>2, <2>3 DEF Stored
  <2>5. QED
    BY <1>2, <1>4, <2>1, <2>4
<1>5. Cardinality(Behind(anchor)') <= Window =>
        \A e \in Stored' : anchor < e /\ e <= since => store'[e] \notin Wanted
  BY <1>0, <1>4
<1>6. poll'[p] = poll[p] /\ Behind(poll[p].anchor)' = Behind(anchor)'
  OBVIOUS
<1> HIDE DEF anchor, since, woken
<1>7. QED
  BY <1>3, <1>5, <1>6 DEF PassedOver, anchor, since, woken

\* A step of another call leaves this one's part of the invariant alone.
LEMMA OthersKeep ==
  ASSUME NEW p \in Pollers, PassedOver(p), UNCHANGED walVars, poll'[p] = poll[p]
  PROVE  PassedOver(p)'
<1>1. UNCHANGED <<phase, latest, store>>
  BY DEF walVars
<1>2. Stored' = Stored
  BY <1>1 DEF Stored
<1>3. Behind(poll[p].anchor)' = Behind(poll[p].anchor)
  BY <1>2 DEF Behind
<1>4. QED
  BY <1>1, <1>2, <1>3 DEF PassedOver

\* An answer ends the call.
LEMMA AnswerEnds ==
  ASSUME poll \in [Pollers -> Poll], NEW p \in Pollers, NEW epochs, Answer(p, epochs)
  PROVE  poll'[p].pc = "idle"
<1> DEFINE outcome == IF epochs = {} THEN "timed_out" ELSE "found"
           r == [poll[p] EXCEPT !.pc = "idle", !.outcome = outcome, !.found = epochs]
<1>1. poll' = [poll EXCEPT ![p] = r]
  BY DEF Answer
<1> HIDE DEF outcome
<1>2. r.pc = "idle"
  BY DEF Poll
<1> HIDE DEF r
<1>3. QED
  BY <1>1, <1>2

\* A look that moves since to what is published keeps the call's part.
LEMMA LookPasses ==
  ASSUME PollInv, NEW p \in Pollers, poll[p].pc # "idle", PassedOver(p),
         UNCHANGED walVars, NEW next \in 0..MaxEpoch,
         next = poll[p].since \/ next <= latest,
         poll[p].since <= next, LookThen(p, next)
  PROVE  PassedOver(p)'
<1> DEFINE anchor == poll[p].anchor
           since == poll[p].since
<1>0. poll \in [Pollers -> Poll] /\ poll[p] \in Poll
      /\ anchor \in 0..MaxEpoch /\ since \in 0..MaxEpoch /\ anchor <= since
  BY DEF PollInv, PollTypeOK, Poll, Forward
<1>1. CASE \E epochs : Answer(p, epochs)
  <2>1. poll'[p].pc = "idle"
    BY <1>0, <1>1, AnswerEnds
  <2>2. QED
    BY <2>1 DEF PassedOver
<1>2. CASE /\ Collect(since) = {}
           /\ poll' = [poll EXCEPT ![p].pc = "clock", ![p].since = next]
  <2>1. /\ poll'[p].pc = "clock" /\ poll'[p].since = next
        /\ poll'[p].anchor = anchor
    BY <1>0, <1>2 DEF Poll
  <2>2. UNCHANGED <<phase, latest, store>>
    BY DEF walVars
  <2>3. Stored' = Stored
    BY <2>2 DEF Stored
  <2>4. (Behind(poll[p].anchor))' = Behind(anchor)
    BY <2>1, <2>3 DEF Behind
  <2>5. phase = "serving" /\ (next = anchor \/ next <= latest)
    BY <1>0 DEF PassedOver
  <2>6. ASSUME Cardinality(Behind(anchor)) <= Window, NEW e \in Stored, anchor < e, e <= next
        PROVE  store[e] \notin Wanted
    <3>1. e \in 1..MaxEpoch
      BY DEF Stored, Epochs
    <3>2. CASE e <= since
      BY <2>6, <3>2 DEF PassedOver
    <3>3. CASE e >= since
      BY <1>0, <1>2, <2>6, <3>3, EmptyLook
    <3>4. QED
      BY <1>0, <3>1, <3>2, <3>3, WalAssumption
  <2> HIDE DEF anchor, since
  <2>7. QED
    BY <2>1, <2>2, <2>3, <2>4, <2>5, <2>6 DEF PassedOver
<1>3. QED
  BY <1>1, <1>2 DEF LookThen

\* The invariant of a single writer holds.
LEMMA SerialInductive ==
  ASSUME Recovers, OneWriter
  PROVE  PollSpec => [](HubInv /\ PollInv /\ SerialInv)
<1>1. PollInit => SerialInv
  BY DEF PollInit, Init, NoPolls, Started, SerialInv, Published, PassedOver
<1>2. ASSUME HubInv, HubInv', PollInv, PollInv', SerialInv, [PollNext]_pollVars
      PROVE  SerialInv'
  <2>1. Published'
    BY <1>2, PollStepIsWalStep, PublishedStep DEF SerialInv
  <2>2. PollTypeOK /\ TypeOK' /\ Published /\ TypeOK
    BY <1>2 DEF PollInv, PollTypeOK, SerialInv
  <2> SUFFICES ASSUME NEW p \in Pollers PROVE PassedOver(p)'
    BY <2>1 DEF SerialInv
  <2>3. PassedOver(p)
    BY <1>2 DEF SerialInv
  <2>4. CASE (Open \/ Recover) /\ UNCHANGED poll
    BY <2>3, <2>4 DEF PassedOver, Open, Recover
  <2>5. CASE Stop /\ poll' = NoPolls
    BY <2>5 DEF NoPolls, Started, PassedOver
  <2>6. CASE /\ \E w \in Writers : (\E c \in Clicks : Begin(w, c)) \/ Advance(w)
             /\ UNCHANGED poll
    <3>1. phase' = phase /\ [Next]_walVars
      BY <2>6 DEF Advance, Begin, Put, PutFails, EnterListeners, LeaveListeners,
                  ListenerThrows, Publish, Next
    <3>2. CASE phase # "serving"
      <4>1. poll[p].pc = "idle"
        BY <2>3, <3>2 DEF PassedOver
      <4>2. QED
        BY <2>6, <4>1 DEF PassedOver
    <3>3. CASE phase = "serving"
      BY <1>2, <2>2, <2>3, <2>6, <3>1, <3>3, LogKeeps
    <3>4. QED
      BY <3>2, <3>3
  <2>7. ASSUME NEW q \in Pollers, UNCHANGED walVars,
               (\E e \in 0..MaxEpoch : PollBegin(q, e)) \/ PollStep(q)
        PROVE  PassedOver(p)'
    <3>0. poll \in [Pollers -> Poll] /\ poll[p] \in Poll /\ latest \in 0..MaxEpoch
      BY <2>2 DEF PollTypeOK, TypeOK
    <3>1. CASE p # q
      <4>1. poll'[p] = poll[p]
        BY <2>7, <3>0, <3>1 DEF PollBegin, PollStep, FirstLook, Block, GiveUp, Wake,
                                TimeUp, Look, LookThen, Answer
      <4>2. QED
        BY <2>3, <2>7, <4>1, OthersKeep
    <3>2. ASSUME NEW e \in 0..MaxEpoch, PollBegin(p, e) PROVE PassedOver(p)'
      <4>1. phase' = "serving" /\ poll'[p] = Started(e, "first")
        BY <2>7, <3>0, <3>2 DEF PollBegin, walVars
      <4>2. poll'[p].since = poll'[p].anchor /\ poll'[p].pc = "first"
        BY <4>1 DEF Started
      <4>3. \A d \in Stored' : ~(poll'[p].anchor < d /\ d <= poll'[p].since)
        <5>1. poll'[p].anchor \in Nat /\ \A d \in Stored' : d \in Nat
          BY <3>2, <4>1, WalAssumption DEF Started, Stored, Epochs
        <5>2. QED
          BY <4>2, <5>1
      <4>4. QED
        BY <4>1, <4>2, <4>3 DEF PassedOver
    <3>3. CASE FirstLook(p)
      <4>1. poll[p].since \in 0..MaxEpoch
        BY <3>0 DEF Poll
      <4>2. QED
        BY <1>2, <2>3, <2>7, <3>3, <4>1, LookPasses DEF FirstLook
    <3>4. CASE Wake(p)
      <4>1. /\ poll'[p].pc = "look" /\ poll'[p].woken = latest
            /\ poll'[p].since = poll[p].since /\ poll'[p].anchor = poll[p].anchor
            /\ poll[p].pc = "blocked"
        BY <3>0, <3>4 DEF Wake, Poll
      <4>2. UNCHANGED <<phase, latest, store>>
        BY <2>7 DEF walVars
      <4>3. Stored' = Stored
        BY <4>2 DEF Stored
      <4>4. (Behind(poll[p].anchor))' = Behind(poll[p].anchor)
        BY <4>1, <4>3 DEF Behind
      <4>5. QED
        BY <2>3, <3>0, <4>1, <4>2, <4>3, <4>4 DEF PassedOver
    <3>5. CASE TimeUp(p)
      <4>1. poll'[p].pc = "idle"
        BY <3>0, <3>5 DEF TimeUp, Answer, Poll
      <4>2. QED
        BY <4>1 DEF PassedOver
    <3>6. CASE Look(p)
      <4>1. poll[p].woken \in 0..MaxEpoch /\ poll[p].woken <= latest
            /\ poll[p].since <= poll[p].woken
        BY <1>2, <2>3, <3>0, <3>6 DEF Look, Poll, PassedOver, PollInv, Forward
      <4>2. QED
        BY <1>2, <2>3, <2>7, <3>6, <4>1, LookPasses DEF Look
    <3>7. CASE Block(p)
      <4>1. /\ poll'[p].pc = "blocked" /\ poll[p].pc = "clock"
            /\ poll'[p].since = poll[p].since /\ poll'[p].anchor = poll[p].anchor
        BY <3>0, <3>7 DEF Block, Poll
      <4>2. UNCHANGED <<phase, latest, store>>
        BY <2>7 DEF walVars
      <4>3. Stored' = Stored
        BY <4>2 DEF Stored
      <4>4. (Behind(poll[p].anchor))' = Behind(poll[p].anchor)
        BY <4>1, <4>3 DEF Behind
      <4>5. QED
        BY <2>3, <4>1, <4>2, <4>3, <4>4 DEF PassedOver
    <3>8. CASE GiveUp(p)
      <4>1. poll'[p].pc = "idle"
        BY <3>0, <3>8 DEF GiveUp, Answer, Poll
      <4>2. QED
        BY <4>1 DEF PassedOver
    <3>9. QED
      BY <2>7, <3>1, <3>2, <3>3, <3>4, <3>5, <3>6, <3>7, <3>8 DEF PollStep
  <2>8. CASE UNCHANGED pollVars
    BY <2>3, <2>8, OthersKeep DEF pollVars
  <2>9. QED
    BY <1>2, <2>4, <2>5, <2>6, <2>7, <2>8 DEF PollNext
<1>3. PollSpec => []HubInv
  BY PollImplementsWal, HubInvInductive, PTL
<1>4. QED
  BY <1>1, <1>2, <1>3, PollInvInductive, PTL DEF PollSpec

\* With a single writer, a look in vain has missed nothing: no matching clack
\* newer than the anchor was acknowledged by then.
THEOREM NothingIsMissed ==
  ASSUME Recovers, OneWriter
  PROVE  PollSpec => NoMissedMatch
<1>1. ASSUME HubInv, PollInv, SerialInv, [PollNext]_pollVars
      PROVE  [\A p \in Pollers :
                LooksInVain(p)
                /\ Cardinality({e \in Stored : e >= poll[p].anchor}) <= Window
                  => Due(p) = {}]_pollVars
  <2> SUFFICES ASSUME PollNext, NEW p \in Pollers, NEW a \in Due(p), LooksInVain(p),
                      Cardinality(Behind(poll[p].anchor)) <= Window
               PROVE  FALSE
    BY <1>1 DEF Behind
  <2>0. /\ poll \in [Pollers -> Poll] /\ poll[p] \in Poll /\ latest \in 0..MaxEpoch
        /\ poll[p].anchor <= poll[p].since
        /\ PassedOver(p) /\ Published /\ TypeOK
    BY <1>1 DEF PollInv, PollTypeOK, Forward, SerialInv, TypeOK
  <2>1. /\ a.epoch \in Stored /\ a.epoch \in Epochs /\ store[a.epoch] \in Wanted
        /\ poll[p].anchor < a.epoch /\ a \in acked
    BY <1>1, <2>0, WalAssumption, PollAssumption
    DEF Due, HubInv, AckedDurable, TypeOK, Stored
  <2>2. a.epoch \in 0..MaxEpoch /\ poll[p].since \in 0..MaxEpoch
    BY <2>0, <2>1, WalAssumption DEF Epochs, Poll
  <2>3. CASE TimeUp(p)
    <3>1. a.epoch <= poll[p].since
      BY <2>0, <2>1, <2>3, WalAssumption DEF TimeUp, Published, PassedOver, Poll, Epochs
    <3>2. QED
      BY <2>1, <2>0, <2>3, <3>1 DEF TimeUp, PassedOver
  <2>4. CASE poll[p].pc \in {"first", "look"} /\ poll'[p].pc = "clock"
    <3>1. Collect(poll[p].since) = {}
      <4>1. poll' # NoPolls
        BY <2>4 DEF NoPolls, Started
      <4>2. PICK q \in Pollers : (\E e \in 0..MaxEpoch : PollBegin(q, e)) \/ PollStep(q)
        BY <2>4, <4>1 DEF PollNext
      <4>3. q = p
        BY <2>0, <2>4, <4>2 DEF PollBegin, PollStep, FirstLook, Block, GiveUp, Wake,
                                TimeUp, Look, LookThen, Answer
      <4>4. FirstLook(p) \/ Look(p)
        BY <2>0, <2>4, <4>2, <4>3 DEF PollBegin, PollStep, Block, GiveUp, Wake, TimeUp
      <4>5. PICK next : LookThen(p, next)
        BY <4>4 DEF FirstLook, Look
      <4>6. CASE \E epochs : Answer(p, epochs)
        <5>1. poll'[p].pc = "idle"
          BY <2>0, <4>6, AnswerEnds
        <5>2. QED
          BY <2>4, <5>1
      <4>7. QED
        BY <4>5, <4>6 DEF LookThen
    <3>2. CASE a.epoch >= poll[p].since
      BY <2>0, <2>1, <2>2, <3>1, <3>2, EmptyLook DEF Poll
    <3>3. CASE a.epoch <= poll[p].since
      BY <2>0, <2>1, <2>4, <3>3 DEF PassedOver
    <3>4. QED
      BY <2>2, <3>2, <3>3, WalAssumption
  <2>5. QED
    BY <2>3, <2>4 DEF LooksInVain
<1>2. QED
  BY <1>1, SerialInductive, PTL DEF PollSpec, NoMissedMatch
=============================================================================

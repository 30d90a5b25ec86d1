-------------------------------- MODULE Wal --------------------------------
(***************************************************************************)
(* core/wal.hpp and core/epoch.hpp: the write path of the hub, run by      *)
(* several request threads at once, with process crashes and restarts.     *)
(*                                                                         *)
(* append() takes no lock of its own.  Its shared accesses, in order, are: *)
(* the atomic increment of the epoch counter, the put into the table, the  *)
(* listeners under listeners_mu_, and the store of latest_epoch_ under     *)
(* notify_mu_.  Each is one step of a writer, so that several appends      *)
(* overtake one another between any two of them.                           *)
(***************************************************************************)
EXTENDS Naturals, Sequences, FiniteSets

CONSTANTS Writers,    \* request threads that call append()
          Clicks,     \* the clicks clients send
          Malformed,  \* the clicks validate_click rejects
          Throwing,   \* the clicks whose payload makes a listener throw
          MaxEpoch,   \* bound: epochs a bounded instance allocates
          Recovers,   \* TRUE: the hub, whose start calls recover();
                      \* FALSE: the C API, whose cc_hub_open does not
          NoClick,    \* no row in the table under an epoch's key
          NoWriter    \* nobody holds listeners_mu_

ASSUME WalAssumption ==
  /\ MaxEpoch \in Nat
  /\ Recovers \in BOOLEAN
  /\ Malformed \subseteq Clicks
  /\ Throwing \subseteq Clicks
  /\ NoClick \notin Clicks
  /\ NoWriter \notin Writers

Epochs == 1..MaxEpoch

VARIABLES
  phase,        \* "down", "recovering" (opened, recover() running), "serving"
  counter,      \* EpochCounter::counter_
  store,        \* the table "clacks": epoch -> click, or NoClick
  latest,       \* latest_epoch_
  listenersMu,  \* the writer that holds listeners_mu_, or NoWriter
  pc,           \* where each writer is in append()
  epoch,        \* its local ep, 0 outside append()
  click,        \* its argument, NoClick outside append()
  delivered,    \* history: the epochs the listeners were given, in order
  acked         \* history: the clacks whose caller got the epoch back

durable == <<store, acked>>
local   == <<pc, epoch, click>>
walVars == <<phase, counter, store, latest, listenersMu, pc, epoch, click,
             delivered, acked>>

Stored == {e \in Epochs : store[e] # NoClick}

\* The row of acked for a completed append.
Clack(e, c) == [epoch |-> e, click |-> c]

TypeOK ==
  /\ phase \in {"down", "recovering", "serving"}
  /\ counter \in 0..MaxEpoch
  /\ store \in [Epochs -> Clicks \cup {NoClick}]
  /\ latest \in 0..MaxEpoch
  /\ listenersMu \in Writers \cup {NoWriter}
  /\ pc \in [Writers -> {"idle", "put", "lock", "listen", "publish"}]
  /\ epoch \in [Writers -> 0..MaxEpoch]
  /\ click \in [Writers -> Clicks \cup {NoClick}]
  /\ delivered \in Seq(Epochs)
  /\ acked \subseteq [epoch : Epochs, click : Clicks]

Init ==
  /\ phase = "down"
  /\ counter = 0
  /\ store = [e \in Epochs |-> NoClick]
  /\ latest = 0
  /\ listenersMu = NoWriter
  /\ pc = [w \in Writers |-> "idle"]
  /\ epoch = [w \in Writers |-> 0]
  /\ click = [w \in Writers |-> NoClick]
  /\ delivered = <<>>
  /\ acked = {}

-----------------------------------------------------------------------------
\* append() leaves: the locals go, whatever the result.
Leave(w) ==
  /\ pc' = [pc EXCEPT ![w] = "idle"]
  /\ epoch' = [epoch EXCEPT ![w] = 0]
  /\ click' = [click EXCEPT ![w] = NoClick]

(* Faulty variants of actions below, one slip away from the code: each breaks *)
(* a property of this module. *)

\* Recovery that counts rows: a failed put leaves a gap, and a number returns.
RecoverRowCount ==
  /\ phase = "recovering"
  /\ counter' = Cardinality(Stored)
  /\ latest' = Cardinality(Stored)
  /\ phase' = "serving"
  /\ UNCHANGED <<store, listenersMu, local, delivered, acked>>

\* Recovery that takes the counter for the next epoch, not the last one.
RecoverPastLast ==
  /\ phase = "recovering"
  /\ \E last \in Stored \cup {0} :
       /\ \A e \in Stored : e <= last
       /\ counter' = last + 1
       /\ latest' = last
  /\ phase' = "serving"
  /\ UNCHANGED <<store, listenersMu, local, delivered, acked>>

\* An epoch read off the table instead of an atomic counter.
BeginAfterLastRow(w, c) ==
  /\ phase = "serving"
  /\ pc[w] = "idle"
  /\ c \notin Malformed
  /\ \E last \in Stored \cup {0} :
       /\ \A e \in Stored : e <= last
       /\ last < MaxEpoch
       /\ counter' = last + 1
       /\ epoch' = [epoch EXCEPT ![w] = last + 1]
  /\ pc' = [pc EXCEPT ![w] = "put"]
  /\ click' = [click EXCEPT ![w] = c]
  /\ UNCHANGED <<phase, store, latest, listenersMu, delivered, acked>>

\* The result of put_raw ignored.
PutFailsIgnored(w) ==
  /\ pc[w] = "put"
  /\ pc' = [pc EXCEPT ![w] = "lock"]
  /\ UNCHANGED <<phase, counter, store, latest, listenersMu, epoch, click,
                 delivered, acked>>

\* A mutex locked and unlocked by hand stays locked when a listener throws.
ListenerThrowsLocked(w) ==
  /\ pc[w] = "listen"
  /\ click[w] \in Throwing
  /\ Leave(w)
  /\ UNCHANGED <<phase, counter, store, latest, listenersMu, delivered, acked>>

-----------------------------------------------------------------------------
(* Lifecycle *)

\* Wal::open on a new Wal object: counter_ and latest_epoch_ start at 0.
Open ==
  /\ phase = "down"
  /\ phase' = IF Recovers THEN "recovering" ELSE "serving"
  /\ UNCHANGED <<counter, store, latest, listenersMu, local, delivered, acked>>

\* Wal::recover: the counter and the published epoch restart at the largest key
\* of the table, 0 when it is empty.
Recover ==
  /\ phase = "recovering"
  /\ \E last \in Stored \cup {0} :
       /\ \A e \in Stored : e <= last
       /\ counter' = last
       /\ latest' = last
  /\ phase' = "serving"
  /\ UNCHANGED <<store, listenersMu, local, delivered, acked>>

\* The process ends, in order (close) or not (crash): what is in memory is
\* lost, the table stays.
Stop ==
  /\ phase # "down"
  /\ phase' = "down"
  /\ counter' = 0
  /\ latest' = 0
  /\ listenersMu' = NoWriter
  /\ pc' = [w \in Writers |-> "idle"]
  /\ epoch' = [w \in Writers |-> 0]
  /\ click' = [w \in Writers |-> NoClick]
  /\ delivered' = <<>>
  /\ UNCHANGED durable

-----------------------------------------------------------------------------
(* append() *)

\* Validation touches nothing shared and comes first, so a rejected click
\* takes no epoch; then epoch_.next().
Begin(w, c) ==
  /\ phase = "serving"
  /\ pc[w] = "idle"
  /\ c \notin Malformed
  /\ counter < MaxEpoch
  /\ counter' = counter + 1
  /\ pc' = [pc EXCEPT ![w] = "put"]
  /\ epoch' = [epoch EXCEPT ![w] = counter + 1]
  /\ click' = [click EXCEPT ![w] = c]
  /\ UNCHANGED <<phase, store, latest, listenersMu, delivered, acked>>

\* put_raw succeeds: the row is durable and every reader sees it.
Put(w) ==
  /\ pc[w] = "put"
  /\ store' = [store EXCEPT ![epoch[w]] = click[w]]
  /\ pc' = [pc EXCEPT ![w] = "lock"]
  /\ UNCHANGED <<phase, counter, latest, listenersMu, epoch, click,
                 delivered, acked>>

\* put_raw fails: the caller gets the error, the epoch stays unused.
PutFails(w) ==
  /\ pc[w] = "put"
  /\ Leave(w)
  /\ UNCHANGED <<phase, counter, store, latest, listenersMu, delivered, acked>>

EnterListeners(w) ==
  /\ pc[w] = "lock"
  /\ listenersMu = NoWriter
  /\ listenersMu' = w
  /\ pc' = [pc EXCEPT ![w] = "listen"]
  /\ UNCHANGED <<phase, counter, store, latest, epoch, click, delivered, acked>>

\* Every listener ran; the lock_guard goes out of scope.
LeaveListeners(w) ==
  /\ pc[w] = "listen"
  /\ click[w] \notin Throwing
  /\ delivered' = Append(delivered, epoch[w])
  /\ listenersMu' = NoWriter
  /\ pc' = [pc EXCEPT ![w] = "publish"]
  /\ UNCHANGED <<phase, counter, store, latest, epoch, click, acked>>

\* A listener throws: the lock_guard releases the mutex and the exception
\* leaves append() past the publication and the return.
ListenerThrows(w) ==
  /\ pc[w] = "listen"
  /\ click[w] \in Throwing
  /\ listenersMu' = NoWriter
  /\ Leave(w)
  /\ UNCHANGED <<phase, counter, store, latest, delivered, acked>>

\* latest_epoch_.store(epoch) under notify_mu_, notify_all, return.
Publish(w) ==
  /\ pc[w] = "publish"
  /\ latest' = epoch[w]
  /\ acked' = acked \cup {Clack(epoch[w], click[w])}
  /\ Leave(w)
  /\ UNCHANGED <<phase, counter, store, listenersMu, delivered>>

-----------------------------------------------------------------------------

Advance(w) ==
  \/ Put(w) \/ PutFails(w)
  \/ EnterListeners(w) \/ LeaveListeners(w) \/ ListenerThrows(w)
  \/ Publish(w)

Next ==
  \/ Open \/ Recover \/ Stop
  \/ \E w \in Writers : (\E c \in Clicks : Begin(w, c)) \/ Advance(w)

Spec == Init /\ [][Next]_walVars

\* A request thread that is inside append() is scheduled again and again: the
\* code has no wait in it except the mutex.
FairSpec == Spec /\ \A w \in Writers : WF_walVars(Advance(w))

-----------------------------------------------------------------------------
(* Properties *)

\* Whatever append() acknowledged is in the table under the epoch the caller
\* was given, for ever: no later append, failed write, crash or restart
\* replaces or loses it.
AckedDurable == \A a \in acked : store[a.epoch] = a.click

\* Between fetch_add and the end of append() an epoch belongs to one append:
\* nobody else is using it, and before the put no row and no acknowledged
\* clack has it, even one of an earlier run of the process.
EpochExclusive ==
  \A w \in Writers : epoch[w] # 0 =>
    /\ \A v \in Writers \ {w} : epoch[v] # epoch[w]
    /\ \A a \in acked : a.epoch # epoch[w]
    /\ pc[w] = "put" => store[epoch[w]] = NoClick

\* The critical section of listeners_mu_: the projections and the broadcast of
\* two clacks never run at the same time, and the mutex is held exactly while
\* some writer is in it.
ListenersExclusive ==
  \A w \in Writers : pc[w] = "listen" <=> listenersMu = w

\* A row of the table is never changed or removed ("append-only").
AppendOnly ==
  [][\A e \in Epochs : store[e] # NoClick => store'[e] = store[e]]_walVars

\* Epochs respect real time across threads and restarts: an append that starts
\* after another was acknowledged gets a larger epoch.
RealTimeOrder ==
  [][\A w \in Writers : epoch[w] = 0 /\ epoch'[w] # 0 =>
       \A a \in acked : a.epoch < epoch'[w]]_walVars

\* The epoch the long-poll notifier publishes is that of a row: a woken waiter
\* finds something to read.
LatestIsStored == latest # 0 => latest \in Stored

\* No append hangs: every one that took an epoch leaves append(), although the
\* writers queue for listeners_mu_ and a listener may throw.
AppendReturns == \A w \in Writers : pc[w] = "put" ~> pc[w] = "idle"

-----------------------------------------------------------------------------
(* The inductive invariant *)

\* ep and the click are set exactly while append() runs.
LocalsInUse ==
  \A w \in Writers :
    IF pc[w] = "idle" THEN epoch[w] = 0 /\ click[w] = NoClick
                      ELSE epoch[w] \in Epochs /\ click[w] \in Clicks

\* No append runs before the process serves.
IdleUnlessServing == phase # "serving" => \A w \in Writers : pc[w] = "idle"

\* While the process serves, the counter is at or above every epoch in use.
CounterCovers ==
  phase = "serving" =>
    /\ \A e \in Stored : e <= counter
    /\ \A w \in Writers : epoch[w] <= counter

\* Past the put, an append's own row is the one it wrote.
OwnRowWritten ==
  \A w \in Writers : pc[w] \in {"lock", "listen", "publish"} =>
    store[epoch[w]] = click[w]

\* The invariant of either host.
TypeInv == TypeOK /\ LocalsInUse

\* The invariant of the hub, whose start recovers the counter.
HubInv ==
  /\ TypeInv
  /\ ListenersExclusive
  /\ IdleUnlessServing
  /\ CounterCovers
  /\ EpochExclusive
  /\ OwnRowWritten
  /\ AckedDurable
  /\ LatestIsStored

-----------------------------------------------------------------------------
(* Wal implements Ledger *)

LedgerStage(w) == IF pc[w] = "idle" THEN "none"
                  ELSE IF pc[w] = "put" THEN "reserved" ELSE "committed"

pendingBar == [w \in Writers |->
  [stage |-> LedgerStage(w), epoch |-> epoch[w], click |-> click[w]]]

L == INSTANCE Ledger WITH log <- store, pending <- pendingBar

\* Every behaviour of the hub's log is one of an append-only ledger.
ImplementsLedger == L!Spec
=============================================================================

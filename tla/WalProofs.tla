----------------------------- MODULE WalProofs -----------------------------
(***************************************************************************)
(* Theorems about Wal, for any set of writers, any clicks and any MaxEpoch.*)
(*                                                                         *)
(* The safety of the log rests on one fact: while the process serves, the  *)
(* counter is at least every epoch that names a row, and no two appends    *)
(* hold the same epoch.  The counter is volatile and the table is not, so  *)
(* the fact survives a restart only because recover() reads the counter    *)
(* back from the table: the theorems about the log assume Recovers.        *)
(***************************************************************************)
EXTENDS Wal, TLAPS, FiniteSetTheorems, WellFoundedInduction

\* Every step of the log keeps the types, and the locals of append() are set
\* exactly while it runs.
LEMMA TypeInvStep == TypeInv /\ [Next]_walVars => TypeInv'
<1> USE WalAssumption DEF TypeInv, TypeOK, LocalsInUse, Epochs
<1> SUFFICES ASSUME TypeInv, [Next]_walVars PROVE TypeInv'
  OBVIOUS
<1>1. CASE Open
  BY <1>1 DEF Open, local
<1>2. CASE Recover
  BY <1>2 DEF Recover, local, Stored
<1>3. CASE Stop
  BY <1>3 DEF Stop, durable
<1>4. ASSUME NEW w \in Writers, NEW c \in Clicks, Begin(w, c) PROVE TypeInv'
  BY <1>4 DEF Begin
<1>5. ASSUME NEW w \in Writers, Put(w) PROVE TypeInv'
  BY <1>5 DEF Put
<1>6. ASSUME NEW w \in Writers, PutFails(w) PROVE TypeInv'
  BY <1>6 DEF PutFails, Leave
<1>7. ASSUME NEW w \in Writers, EnterListeners(w) PROVE TypeInv'
  BY <1>7 DEF EnterListeners
<1>8. ASSUME NEW w \in Writers, LeaveListeners(w) PROVE TypeInv'
  BY <1>8 DEF LeaveListeners
<1>9. ASSUME NEW w \in Writers, ListenerThrows(w) PROVE TypeInv'
  BY <1>9 DEF ListenerThrows, Leave
<1>10. ASSUME NEW w \in Writers, Publish(w) PROVE TypeInv'
  BY <1>10 DEF Publish, Leave, Clack
<1>11. CASE UNCHANGED walVars
  BY <1>11 DEF walVars
<1>12. QED
  BY <1>1, <1>2, <1>3, <1>4, <1>5, <1>6, <1>7, <1>8, <1>9, <1>10, <1>11
     DEF Next, Advance

\* Type correctness, for either host.
LEMMA TypeInvInductive == Spec => []TypeInv
<1>1. Init => TypeInv
  BY WalAssumption DEF Init, TypeInv, TypeOK, LocalsInUse, Epochs
<1>2. QED
  BY <1>1, TypeInvStep, PTL DEF Spec

\* Every reachable state of the log is well typed (wal.hpp), with or without
\* recover().
THEOREM TypeCorrect == Spec => []TypeOK
  BY TypeInvInductive, PTL DEF TypeInv

-----------------------------------------------------------------------------

\* The hub's invariant holds: what the counter, the locals, the table and the
\* acknowledgements have to do with one another.
LEMMA HubInvInductive ==
  ASSUME Recovers
  PROVE  Spec => []HubInv
<1> USE WalAssumption
<1>1. Init => HubInv
  BY DEF Init, HubInv, TypeInv, TypeOK, LocalsInUse, Epochs, ListenersExclusive,
         IdleUnlessServing, CounterCovers, EpochExclusive, OwnRowWritten,
         AckedDurable, LatestIsStored, Stored
<1>2. HubInv /\ TypeInv' /\ [Next]_walVars => HubInv'
  <2> SUFFICES ASSUME HubInv, TypeInv', [Next]_walVars PROVE HubInv'
    OBVIOUS
  <2> USE DEF HubInv, TypeInv, TypeOK, LocalsInUse, Epochs
  <2> USE DEF ListenersExclusive, IdleUnlessServing, CounterCovers,
              EpochExclusive, OwnRowWritten, AckedDurable, LatestIsStored, Stored
  <2>1. CASE Open
    BY <2>1 DEF Open, local
  <2>2. CASE Recover
    BY <2>2 DEF Recover, local
  <2>3. CASE Stop
    BY <2>3 DEF Stop, durable
  <2>4. ASSUME NEW w \in Writers, NEW c \in Clicks, Begin(w, c) PROVE HubInv'
    \* The new epoch is above the counter, so above every epoch in use.
    <3>1. /\ \A e \in Stored : e < counter'
          /\ \A v \in Writers : epoch[v] < counter'
          /\ \A a \in acked : a.epoch < counter'
      BY <2>4 DEF Begin
    <3>2. EpochExclusive'
      BY <2>4, <3>1 DEF Begin
    <3>3. CounterCovers' /\ OwnRowWritten' /\ AckedDurable' /\ LatestIsStored'
      BY <2>4, <3>1 DEF Begin
    <3>4. ListenersExclusive' /\ IdleUnlessServing'
      BY <2>4 DEF Begin
    <3>5. QED
      BY <3>2, <3>3, <3>4
  <2>5. ASSUME NEW w \in Writers, Put(w) PROVE HubInv'
    \* The put fills an empty row that nobody else was given.
    <3>1. store[epoch[w]] = NoClick /\ \A a \in acked : a.epoch # epoch[w]
      BY <2>5 DEF Put
    <3>2. AckedDurable' /\ LatestIsStored'
      BY <2>5, <3>1 DEF Put
    <3>3. EpochExclusive' /\ OwnRowWritten'
      BY <2>5, <3>1 DEF Put
    <3>4. CounterCovers' /\ ListenersExclusive' /\ IdleUnlessServing'
      BY <2>5 DEF Put
    <3>5. QED
      BY <3>2, <3>3, <3>4
  <2>6. ASSUME NEW w \in Writers, PutFails(w) PROVE HubInv'
    BY <2>6 DEF PutFails, Leave
  <2>7. ASSUME NEW w \in Writers, EnterListeners(w) PROVE HubInv'
    BY <2>7 DEF EnterListeners
  <2>8. ASSUME NEW w \in Writers, LeaveListeners(w) PROVE HubInv'
    BY <2>8 DEF LeaveListeners
  <2>9. ASSUME NEW w \in Writers, ListenerThrows(w) PROVE HubInv'
    BY <2>9 DEF ListenerThrows, Leave
  <2>10. ASSUME NEW w \in Writers, Publish(w) PROVE HubInv'
    BY <2>10 DEF Publish, Leave, Clack
  <2>11. CASE UNCHANGED walVars
    BY <2>11 DEF walVars
  <2>12. QED
    BY <2>1, <2>2, <2>3, <2>4, <2>5, <2>6, <2>7, <2>8, <2>9, <2>10, <2>11
       DEF Next, Advance
<1>3. QED
  BY <1>1, <1>2, TypeInvInductive, PTL DEF Spec

\* Whatever the hub acknowledged stays in the log, through failed writes,
\* throwing listeners, crashes and restarts.
THEOREM AckedClacksAreDurable ==
  ASSUME Recovers
  PROVE  Spec => []AckedDurable
  BY HubInvInductive, PTL DEF HubInv

\* The hub never gives one epoch to two appends.
THEOREM EpochsAreExclusive ==
  ASSUME Recovers
  PROVE  Spec => []EpochExclusive
  BY HubInvInductive, PTL DEF HubInv

\* Listeners of two clacks never run at the same time.
THEOREM ListenersAreExclusive ==
  ASSUME Recovers
  PROVE  Spec => []ListenersExclusive
  BY HubInvInductive, PTL DEF HubInv

\* The published epoch is that of a row.
THEOREM PublishedEpochIsStored ==
  ASSUME Recovers
  PROVE  Spec => []LatestIsStored
  BY HubInvInductive, PTL DEF HubInv

-----------------------------------------------------------------------------

\* The row of an epoch, once there, survives every step.
LEMMA RowStays ==
  ASSUME HubInv, [Next]_walVars, NEW e \in Epochs, store[e] # NoClick
  PROVE  store'[e] = store[e]
<1>1. ASSUME NEW w \in Writers, Put(w) PROVE store'[e] = store[e]
  <2>1. epoch[w] # e
    BY <1>1 DEF Put, HubInv, TypeInv, TypeOK, LocalsInUse, EpochExclusive, Epochs
  <2>2. QED
    BY <1>1, <2>1 DEF Put, HubInv, TypeInv, TypeOK
<1>2. (\A w \in Writers : ~Put(w)) => store' = store
  BY DEF Next, walVars, Advance, Open, Recover, Stop, durable, Begin, PutFails,
         EnterListeners, LeaveListeners, ListenerThrows, Publish
<1>3. QED
  BY <1>1, <1>2

\* No step of the hub changes or removes a row of the log.
THEOREM LogIsAppendOnly ==
  ASSUME Recovers
  PROVE  Spec => AppendOnly
<1>1. HubInv /\ [Next]_walVars =>
        [\A e \in Epochs : store[e] # NoClick => store'[e] = store[e]]_walVars
  BY RowStays
<1>2. QED
  BY <1>1, HubInvInductive, PTL DEF Spec, AppendOnly

\* An append that starts after another one was acknowledged, by whatever thread
\* and in whatever run of the process, gets a larger epoch.
THEOREM EpochsFollowRealTime ==
  ASSUME Recovers
  PROVE  Spec => RealTimeOrder
<1>1. HubInv /\ [Next]_walVars =>
        [\A w \in Writers : epoch[w] = 0 /\ epoch'[w] # 0 =>
           \A a \in acked : a.epoch < epoch'[w]]_walVars
  <2> SUFFICES ASSUME HubInv, Next, NEW w \in Writers,
                      epoch[w] = 0, epoch'[w] # 0, NEW a \in acked
               PROVE  a.epoch < epoch'[w]
    BY DEF walVars
  <2> USE DEF HubInv, TypeInv, TypeOK
  <2>1. ASSUME NEW v \in Writers, NEW c \in Clicks, Begin(v, c)
        PROVE  a.epoch < epoch'[w]
    <3>1. v = w /\ epoch'[w] = counter + 1
      BY <2>1 DEF Begin
    <3>2. a.epoch \in Stored
      BY WalAssumption DEF AckedDurable, Stored
    <3>3. a.epoch <= counter
      BY <2>1, <3>2 DEF Begin, CounterCovers
    <3>4. QED
      BY <3>1, <3>3, <3>2 DEF Stored, Epochs
  <2>2. (\A v \in Writers, c \in Clicks : ~Begin(v, c)) => epoch'[w] \in {epoch[w], 0}
    BY DEF Next, Advance, Open, Recover, Stop, local, Put, PutFails, Leave,
           EnterListeners, LeaveListeners, ListenerThrows, Publish
  <2>3. QED
    BY <2>1, <2>2
<1>2. QED
  BY <1>1, HubInvInductive, PTL DEF Spec, RealTimeOrder

-----------------------------------------------------------------------------
(* Refinement *)

\* What the mapped variable pendingBar is for a writer, field by field.
LEMMA PendingOf ==
  ASSUME TypeInv, NEW w \in Writers
  PROVE  /\ pc[w] = "idle" => pendingBar[w] = L!NoAppend
         /\ pendingBar[w].epoch = epoch[w]
         /\ pendingBar[w].click = click[w]
         /\ pendingBar[w].stage = LedgerStage(w)
         /\ pc[w] = "put" => LedgerStage(w) = "reserved"
         /\ pc[w] \in {"lock", "listen", "publish"} => LedgerStage(w) = "committed"
  BY DEF TypeInv, TypeOK, LocalsInUse, pendingBar, LedgerStage, L!NoAppend

\* A step that moves only w's locals changes pendingBar only at w.
LEMMA PendingElsewhere ==
  ASSUME TypeInv, NEW w \in Writers, NEW v \in Writers \ {w},
         pc'[v] = pc[v], epoch'[v] = epoch[v], click'[v] = click[v]
  PROVE  pendingBar'[v] = pendingBar[v]
  BY DEF pendingBar, LedgerStage

\* Every step of the hub's log is a step of an append-only ledger, or none.
THEOREM HubImplementsLedger ==
  ASSUME Recovers
  PROVE  Spec => ImplementsLedger
<1> USE WalAssumption
<1>1. Init => L!Init
  BY DEF Init, L!Init, pendingBar, LedgerStage, L!NoAppend, Epochs, L!Epochs
<1>2. HubInv /\ HubInv' /\ [Next]_walVars => [L!Next]_(L!ledgerVars)
  <2> SUFFICES ASSUME HubInv, HubInv', [Next]_walVars
               PROVE  [L!Next]_(L!ledgerVars)
    OBVIOUS
  <2>a. TypeInv /\ TypeInv'
    BY DEF HubInv
  <2> USE DEF L!ledgerVars, TypeInv, TypeOK, LocalsInUse
  <2>1. CASE Open
    <3>1. pendingBar' = pendingBar
      BY <2>1 DEF Open, local, pendingBar, LedgerStage
    <3>2. QED
      BY <2>1, <3>1 DEF Open
  <2>2. CASE Recover
    <3>1. pendingBar' = pendingBar
      BY <2>2 DEF Recover, local, pendingBar, LedgerStage
    <3>2. QED
      BY <2>2, <3>1 DEF Recover
  <2>3. CASE Stop
    <3>1. pendingBar' = [w \in Writers |-> L!NoAppend]
      BY <2>3 DEF Stop, pendingBar, LedgerStage, L!NoAppend
    <3>2. L!Abandon
      BY <2>3, <3>1 DEF Stop, durable, L!Abandon
    <3>3. QED
      BY <3>2 DEF L!Next
  <2>4. ASSUME NEW w \in Writers, NEW c \in Clicks, Begin(w, c)
        PROVE  [L!Next]_(L!ledgerVars)
    <3>1. /\ counter + 1 \in L!Epochs
          /\ pendingBar[w] = L!NoAppend
          /\ store[counter + 1] = NoClick
      BY <2>4, <2>a, PendingOf
         DEF Begin, HubInv, CounterCovers, Stored, Epochs, L!Epochs
    <3>2. \A v \in Writers : pendingBar[v].epoch # counter + 1
      BY <2>4, <2>a, PendingOf DEF Begin, HubInv, CounterCovers
    <3>3. \A a \in acked : a.epoch < counter + 1
      BY <2>4, <2>a DEF Begin, HubInv, CounterCovers, AckedDurable, Stored, Epochs
    <3>4. pendingBar' = [pendingBar EXCEPT
            ![w] = [stage |-> "reserved", epoch |-> counter + 1, click |-> c]]
      <4>1. \A v \in Writers \ {w} : pendingBar'[v] = pendingBar[v]
        BY <2>4, <2>a, PendingElsewhere DEF Begin
      <4>2. pendingBar'[w] =
              [stage |-> "reserved", epoch |-> counter + 1, click |-> c]
        BY <2>4, <2>a DEF Begin, pendingBar, LedgerStage
      <4>3. QED
        BY <4>1, <4>2 DEF pendingBar
    <3>5. L!Reserve(w)
      BY <2>4, <3>1, <3>2, <3>3, <3>4 DEF Begin, L!Reserve
    <3>6. QED
      BY <3>5 DEF L!Next
  <2>5. ASSUME NEW w \in Writers, Put(w) PROVE [L!Next]_(L!ledgerVars)
    <3>1. /\ pendingBar[w].stage = "reserved"
          /\ pendingBar[w].epoch = epoch[w]
          /\ pendingBar[w].click = click[w]
      BY <2>5, <2>a, PendingOf DEF Put
    <3>2. pendingBar' = [pendingBar EXCEPT ![w].stage = "committed"]
      <4>1. \A v \in Writers \ {w} : pendingBar'[v] = pendingBar[v]
        BY <2>5, <2>a, PendingElsewhere DEF Put
      <4>2. pendingBar'[w] = [pendingBar[w] EXCEPT !.stage = "committed"]
        BY <2>5, <2>a DEF Put, pendingBar, LedgerStage
      <4>3. QED
        BY <4>1, <4>2 DEF pendingBar
    <3>3. L!Commit(w)
      BY <2>5, <3>1, <3>2 DEF Put, L!Commit
    <3>4. QED
      BY <3>3 DEF L!Next
  <2>6. ASSUME NEW w \in Writers, PutFails(w) \/ ListenerThrows(w)
        PROVE  [L!Next]_(L!ledgerVars)
    <3>1. pendingBar' = [v \in Writers |-> IF v \in {w} THEN L!NoAppend
                                                        ELSE pendingBar[v]]
      <4>1. \A v \in Writers \ {w} : pendingBar'[v] = pendingBar[v]
        BY <2>6, <2>a, PendingElsewhere DEF PutFails, ListenerThrows, Leave
      <4>2. pendingBar'[w] = L!NoAppend
        BY <2>6, <2>a DEF PutFails, ListenerThrows, Leave, pendingBar, LedgerStage, L!NoAppend
      <4>3. QED
        BY <4>1, <4>2 DEF pendingBar
    <3>2. L!Abandon
      <4>1. {w} \in SUBSET Writers
        OBVIOUS
      <4>2. QED
        BY <2>6, <3>1, <4>1 DEF PutFails, ListenerThrows, L!Abandon
    <3>3. QED
      BY <3>2 DEF L!Next
  <2>7. ASSUME NEW w \in Writers, EnterListeners(w) \/ LeaveListeners(w)
        PROVE  [L!Next]_(L!ledgerVars)
    <3>1. pendingBar' = pendingBar
      <4>1. epoch' = epoch /\ click' = click
        BY <2>7, <2>a DEF EnterListeners, LeaveListeners
      <4>2. \A v \in Writers : LedgerStage(v)' = LedgerStage(v)
        BY <2>7, <2>a DEF EnterListeners, LeaveListeners, LedgerStage
      <4>3. QED
        BY <4>1, <4>2 DEF pendingBar
    <3>2. QED
      BY <2>7, <3>1 DEF EnterListeners, LeaveListeners
  <2>8. ASSUME NEW w \in Writers, Publish(w) PROVE [L!Next]_(L!ledgerVars)
    <3>1. /\ pendingBar[w].stage = "committed"
          /\ pendingBar[w].epoch = epoch[w]
          /\ pendingBar[w].click = click[w]
      BY <2>8, <2>a, PendingOf DEF Publish
    <3>2. pendingBar' = [pendingBar EXCEPT ![w] = L!NoAppend]
      <4>1. \A v \in Writers \ {w} : pendingBar'[v] = pendingBar[v]
        BY <2>8, <2>a, PendingElsewhere DEF Publish, Leave
      <4>2. pendingBar'[w] = L!NoAppend
        BY <2>8, <2>a DEF Publish, Leave, pendingBar, LedgerStage, L!NoAppend
      <4>3. QED
        BY <4>1, <4>2 DEF pendingBar
    <3>3. L!Acknowledge(w)
      BY <2>8, <3>1, <3>2 DEF Publish, Clack, L!Acknowledge
    <3>4. QED
      BY <3>3 DEF L!Next
  <2>9. CASE UNCHANGED walVars
    BY <2>9 DEF walVars, pendingBar, LedgerStage
  <2>10. QED
    BY <2>1, <2>2, <2>3, <2>4, <2>5, <2>6, <2>7, <2>8, <2>9 DEF Next, Advance
<1>3. QED
  BY <1>1, <1>2, HubInvInductive, PTL DEF Spec, ImplementsLedger, L!Spec
-----------------------------------------------------------------------------
(* Sets of numbers and of epochs *)

\* A set of epochs is finite.
LEMMA EpochsFinite ==
  ASSUME NEW S \in SUBSET Epochs
  PROVE  IsFiniteSet(S) /\ Cardinality(S) \in Nat
<1>1. IsFiniteSet(Epochs)
  BY WalAssumption, FS_Interval DEF Epochs
<1>2. QED
  BY <1>1, FS_Subset, FS_CardinalityType

\* A set of numbers that is not empty has a smallest member,
LEMMA SmallestNumber ==
  ASSUME NEW S \in SUBSET Nat, S # {}
  PROVE  \E e \in S : \A d \in S : ~(d < e)
<1>1. PICK e \in S : \A d \in S : <<d, e>> \notin OpToRel(<, Nat)
  BY NatLessThanWellFounded, WFMin, Zenon
<1>2. QED
  BY <1>1 DEF OpToRel

\* so has a set of epochs.
LEMMA SmallestMember ==
  ASSUME NEW S \in SUBSET Epochs, S # {}
  PROVE  \E e \in S : \A d \in S : ~(d < e)
  BY WalAssumption, SmallestNumber DEF Epochs

\* Fewer members of a set of epochs lie below one of them than there are.
LEMMA FewerBelow ==
  ASSUME NEW S \in SUBSET Epochs, NEW e \in S
  PROVE  /\ Cardinality({d \in S : d < e}) \in Nat
         /\ Cardinality({d \in S : d < e}) < Cardinality(S)
<1> DEFINE below == {d \in S : d < e}
<1>1. IsFiniteSet(S) /\ Cardinality(S) \in Nat
  BY EpochsFinite
<1>2. IsFiniteSet(S \ {e}) /\ Cardinality(S \ {e}) = Cardinality(S) - 1
  BY <1>1, FS_RemoveElement
<1>3. below \in SUBSET (S \ {e})
  BY WalAssumption DEF Epochs
<1>4. Cardinality(below) \in Nat
  BY EpochsFinite
<1> HIDE DEF below
<1>5. Cardinality(below) <= Cardinality(S \ {e})
  BY <1>2, <1>3, FS_Subset
<1>6. Cardinality(below) \in Nat /\ Cardinality(below) < Cardinality(S)
  BY <1>1, <1>2, <1>4, <1>5
<1>7. QED
  BY <1>6 DEF below
=============================================================================

---------------------------- MODULE ToolsProofs ----------------------------
(***************************************************************************)
(* Theorems about Tools, for any agents, paths, pins, clock and writers.   *)
(*                                                                         *)
(* An entry of the index is written after the append of its clack, from    *)
(* the locals of the call.  It is backed by the log because the call's     *)
(* epoch is the one append() took for its click, because that row is put   *)
(* before the call goes on, and because no row ever changes (HubInv).      *)
(***************************************************************************)
EXTENDS Tools, WalProofs

\* While cc.reserve_path appends, append() works on the call's click and epoch;
\* when it is through, the row is there.
ReserveBacked ==
  \A w \in Writers : In(w, {"RESERVE"}) =>
    LET c == ClickOf("RESERVE", call[w].agent, call[w].subject) IN
      IF pc[w] = "idle" THEN store[call[w].epoch] = c
                        ELSE click[w] = c /\ epoch[w] = call[w].epoch

\* reserve_mu_ is held by the one call that reserves.
ReserveExclusive ==
  /\ reserveMu \in Writers => In(reserveMu, {"RESERVE"})
  /\ \A w \in Writers : In(w, {"RESERVE"}) => reserveMu = w

\* The conflict found at the start of the call is still the path's holder.
ConflictCurrent ==
  \A w \in Writers : In(w, {"RESERVE"}) =>
    LET held == reservations[call[w].subject] IN
      held # NoEntry /\ held.agent # call[w].agent /\ held.expires > call[w].at =>
        call[w].conflict = held.agent

\* An append() outside cc.reserve_path is the audit append of its call.
AuditBacked ==
  \A w \in Writers : pc[w] # "idle" /\ ~In(w, {"RESERVE"}) =>
    In(w, AuditVerbs) /\ click[w] = call[w]

\* The mutex is held across the append: the call's epoch is the newest of the
\* RESERVE clacks.
InFlightNewest ==
  \A w \in Writers, a \in acked :
    In(w, {"RESERVE"}) /\ a.click.verb = "RESERVE" => a.epoch <= call[w].epoch

ToolsInv ==
  /\ ToolsTypeOK
  /\ ReserveBacked /\ AuditBacked
  /\ ReserveExclusive /\ ConflictCurrent
  /\ InFlightNewest /\ ReservationLogged /\ NewestReservation

-----------------------------------------------------------------------------

\* A RESERVE call's click is one of the log's clicks.
LEMMA ReserveClick ==
  ASSUME NEW a \in Agents, NEW p \in Paths
  PROVE  ClickOf("RESERVE", a, p) \in Clicks /\ ClickOf("RESERVE", a, p) # NoClick
  BY ToolsAssumption, WalAssumption DEF ClickOf, ToolClicks

\* The calls use append() as the log offers it.
LEMMA ToolsStepIsWalStep ==
  ASSUME ToolsTypeOK, [ToolsNext]_toolVars
  PROVE  [Next]_walVars
<1>1. ASSUME NEW w \in Writers, StartCall(w) PROVE [Next]_walVars
  <2>1. ASSUME NEW a \in Agents, NEW p \in Paths, NEW ttl \in Ttls, Reserve(w, a, p, ttl)
        PROVE  [Next]_walVars
    BY <2>1, ReserveClick DEF Reserve, ReserveWith, Next
  <2>2. QED
    BY <1>1, <2>1 DEF StartCall, Release, VotePin, PinOverride
<1>2. ASSUME NEW w \in Writers, Audit(w) PROVE [Next]_walVars
  <2>1. call[w] \in Clicks
    BY <1>2, ToolsAssumption
       DEF Audit, In, AuditVerbs, ToolsTypeOK, ReserveCall, ToolClicks
  <2>2. QED
    BY <1>2, <2>1 DEF Audit, Next
<1>3. ASSUME NEW w \in Writers,
             Appending(w) \/ ReserveFails(w) \/ ReserveDone(w) \/ AuditDone(w)
      PROVE  [Next]_walVars
  BY <1>3 DEF Appending, ReserveFails, ReserveDone, AuditDone, Next, Advance
<1>4. CASE Down \/ Tick \/ Open \/ Recover
  BY <1>4 DEF Down, Tick, Next
<1>5. CASE UNCHANGED toolVars
  BY <1>5 DEF toolVars, walVars
<1>6. QED
  BY <1>1, <1>2, <1>3, <1>4, <1>5 DEF ToolsNext, InCall

-----------------------------------------------------------------------------
(* Types *)

\* An expiry is an unsigned number of the clock's width.
LEMMA ExpiryType == \A ttl \in Ttls : now \in Nat => Expiry(ttl) \in 0..(Wrap - 1)
  BY ToolsAssumption DEF Expiry

\* A call of cc.reserve_path starts with locals of their types.
LEMMA ReserveType ==
  ASSUME ToolsTypeOK, NEW w \in Writers, NEW a \in Agents, NEW p \in Paths,
         NEW ttl \in Ttls, Reserve(w, a, p, ttl)
  PROVE  [verb |-> "RESERVE", agent |-> a, subject |-> p, at |-> now,
          expires |-> Expiry(ttl), conflict |-> ConflictFor(a, p),
          epoch |-> counter + 1] \in ReserveCall
<1>1. now \in Nat /\ Expiry(ttl) \in 0..(Wrap - 1)
  BY ExpiryType, ToolsAssumption DEF ToolsTypeOK
<1>2. ConflictFor(a, p) \in Agents \cup {NoAgent}
  BY DEF ConflictFor, ToolsTypeOK, Reservation
<1>3. counter + 1 \in Epochs
  BY WalAssumption DEF Reserve, ReserveWith, Begin, ToolsTypeOK, TypeOK, Epochs
<1>4. QED
  BY <1>1, <1>2, <1>3 DEF ReserveCall

\* Setting a pin keeps the map's type.
LEMMA SetPinType ==
  ASSUME ToolsTypeOK, NEW e \in Pinnable, NEW voters \in SUBSET Agents,
         NEW override \in Overrides, SetPin(e, voters, override)
  PROVE  pins' \in [Pinnable -> PinState \cup {NoEntry}]
<1>1. now \in Nat
  BY ToolsAssumption DEF ToolsTypeOK
<1>2. [voters |-> voters, override |-> override, updated |-> now] \in PinState
  BY <1>1 DEF PinState
<1>3. QED
  BY <1>2 DEF SetPin, ToolsTypeOK

\* What an eviction leaves of a pin, or a fresh one, is a pin.
LEMMA PinAtType ==
  ASSUME ToolsTypeOK, NEW e \in Pinnable
  PROVE  PinAt(e) \in PinState
  BY DEF PinAt, ToolsTypeOK, PinState, Overrides

\* One step keeps the types of what the tools keep, the log's given.
LEMMA ToolsTypeStep ==
  ASSUME ToolsTypeOK, TypeOK', [ToolsNext]_toolVars
  PROVE  ToolsTypeOK'
<1>1. ASSUME NEW w \in Writers, NEW a \in Agents, NEW p \in Paths, NEW ttl \in Ttls,
             Reserve(w, a, p, ttl)
      PROVE  ToolsTypeOK'
  <2>1. call' \in [Writers -> ReserveCall \cup AuditCall \cup {NoCall}]
    BY <1>1, ReserveType DEF Reserve, ReserveWith, ToolsTypeOK
  <2>2. QED
    BY <1>1, <2>1 DEF Reserve, ReserveWith, ToolsTypeOK
<1>2. ASSUME NEW w \in Writers, NEW a \in Agents, NEW p \in Paths, Release(w, a, p)
      PROVE  ToolsTypeOK'
  <2>1. ClickOf("RELEASE", a, p) \in AuditCall
    BY DEF ClickOf, AuditCall
  <2>2. QED
    BY <1>2, <2>1 DEF Release, ToolsTypeOK
<1>3. ASSUME NEW w \in Writers, NEW a \in Agents, NEW e \in Pinnable,
             NEW unvote \in BOOLEAN, VotePin(w, a, e, unvote)
      PROVE  ToolsTypeOK'
  <2>1. ClickOf("OBSERVE", a, e) \in AuditCall
    BY DEF ClickOf, AuditCall
  <2>2. pins' \in [Pinnable -> PinState \cup {NoEntry}]
    <3>1. PinAt(e).voters \in SUBSET Agents /\ PinAt(e).override \in Overrides
      BY PinAtType DEF PinState
    <3>2. CASE unvote
      <4>1. SetPin(e, PinAt(e).voters \ {a}, PinAt(e).override)
        BY <1>3, <3>2 DEF VotePin
      <4>2. QED
        BY <3>1, <4>1, SetPinType
    <3>3. CASE ~unvote
      <4>1. SetPin(e, PinAt(e).voters \cup {a}, PinAt(e).override)
        BY <1>3, <3>3 DEF VotePin
      <4>2. QED
        BY <3>1, <4>1, SetPinType
    <3>4. QED
      BY <3>2, <3>3
  <2>3. QED
    BY <1>3, <2>1, <2>2 DEF VotePin, ToolsTypeOK
<1>4. ASSUME NEW w \in Writers, NEW a \in Agents, NEW e \in Pinnable,
             NEW override \in Overrides, PinOverride(w, a, e, override)
      PROVE  ToolsTypeOK'
  <2>1. ClickOf("DIRECT", a, e) \in AuditCall
    BY DEF ClickOf, AuditCall
  <2>2. pins' \in [Pinnable -> PinState \cup {NoEntry}]
    <3>1. PinAt(e).voters \in SUBSET Agents
      BY PinAtType DEF PinState
    <3>2. QED
      BY <1>4, <3>1, SetPinType DEF PinOverride
  <2>3. QED
    BY <1>4, <2>1, <2>2 DEF PinOverride, ToolsTypeOK
<1>5. ASSUME NEW w \in Writers, ReserveDone(w) PROVE ToolsTypeOK'
  <2>1. call[w] \in ReserveCall
    BY <1>5 DEF ReserveDone, In, ToolsTypeOK, AuditCall
  <2>2. call[w].subject \in Paths /\
        [agent |-> call[w].agent, expires |-> call[w].expires, epoch |-> call[w].epoch]
          \in Reservation
    BY <2>1 DEF ReserveCall, Reservation
  <2>3. QED
    BY <1>5, <2>2 DEF ReserveDone, Return, ToolsTypeOK
<1>6. ASSUME NEW w \in Writers,
             Appending(w) \/ ReserveFails(w) \/ Audit(w) \/ AuditDone(w)
      PROVE  ToolsTypeOK'
  BY <1>6 DEF Appending, ReserveFails, Audit, AuditDone, Return, ToolsTypeOK
<1>7. CASE Down
  BY <1>7 DEF Down, ToolsTypeOK, NoReservations, NoPins, NoCalls
<1>8. CASE Tick
  BY <1>8, ToolsAssumption DEF Tick, ToolsTypeOK
<1>9. CASE UNCHANGED <<now, reserveMu, reservations, pins, call>>
  BY <1>9 DEF ToolsTypeOK
<1>10. QED
  BY <1>1, <1>2, <1>3, <1>4, <1>5, <1>6, <1>7, <1>8, <1>9
     DEF ToolsNext, StartCall, InCall, toolVars

-----------------------------------------------------------------------------
(* The index and the log *)

\* A row that is a RESERVE clack stays.
LEMMA ReserveRowStays ==
  ASSUME HubInv, [Next]_walVars, NEW e \in Epochs, NEW a \in Agents, NEW p \in Paths,
         store[e] = ClickOf("RESERVE", a, p)
  PROVE  store'[e] = ClickOf("RESERVE", a, p)
  BY RowStays, ReserveClick

\* The locals of a call in cc.reserve_path have their types.
LEMMA ReserveCallTyped ==
  ASSUME ToolsTypeOK, NEW w \in Writers, In(w, {"RESERVE"})
  PROVE  call[w] \in ReserveCall
  BY DEF In, ToolsTypeOK, AuditCall

\* What the call of w needs of append() and of the log.
Backed(w) ==
  LET c == ClickOf("RESERVE", call[w].agent, call[w].subject) IN
    IF pc[w] = "idle" THEN store[call[w].epoch] = c
                      ELSE click[w] = c /\ epoch[w] = call[w].epoch

\* A step of the log that leaves w's call and locals alone.
LEMMA BackedFrame ==
  ASSUME HubInv, [Next]_walVars, ToolsInv, NEW w \in Writers, In(w, {"RESERVE"})',
         call'[w] = call[w], pc'[w] = pc[w], click'[w] = click[w], epoch'[w] = epoch[w]
  PROVE  Backed(w)'
<1>1. In(w, {"RESERVE"})
  BY DEF In
<1>2. call[w].agent \in Agents /\ call[w].subject \in Paths /\ call[w].epoch \in Epochs
  BY <1>1, ReserveCallTyped DEF ToolsInv, ReserveCall
<1>3. Backed(w)
  BY <1>1 DEF ToolsInv, ReserveBacked, Backed
<1>4. CASE pc[w] = "idle"
  BY <1>2, <1>3, <1>4, ReserveRowStays DEF Backed
<1>5. CASE pc[w] # "idle"
  BY <1>3, <1>5 DEF Backed
<1>6. QED
  BY <1>4, <1>5

\* The call's epoch and click are append()'s until the row is there.
LEMMA BackedStep ==
  ASSUME HubInv, [Next]_walVars, ToolsInv, [ToolsNext]_toolVars
  PROVE  ReserveBacked'
<1> SUFFICES ASSUME NEW w \in Writers, In(w, {"RESERVE"})'
             PROVE  Backed(w)'
  BY DEF ReserveBacked, Backed
<1>0. TypeOK /\ call \in [Writers -> ReserveCall \cup AuditCall \cup {NoCall}]
  BY DEF ToolsInv, ToolsTypeOK
<1> USE DEF TypeOK
<1>1. ASSUME NEW v \in Writers, NEW a \in Agents, NEW p \in Paths, NEW ttl \in Ttls,
             Reserve(v, a, p, ttl)
      PROVE  Backed(w)'
  <2>1. CASE v # w
    BY <1>0, <1>1, <2>1, BackedFrame DEF Reserve, ReserveWith, Begin
  <2>2. CASE v = w
    <3>1. call'[w].agent = a /\ call'[w].subject = p /\ call'[w].epoch = counter + 1
      BY <1>0, <1>1, <2>2 DEF Reserve, ReserveWith
    <3>2. pc'[w] = "put" /\ click'[w] = ClickOf("RESERVE", a, p) /\ epoch'[w] = counter + 1
      BY <1>0, <1>1, <2>2 DEF Reserve, ReserveWith, Begin
    <3>3. QED
      BY <3>1, <3>2 DEF Backed
  <2>3. QED
    BY <2>1, <2>2
<1>2. ASSUME NEW v \in Writers, NEW c \in AuditCall,
             call' = [call EXCEPT ![v] = c], UNCHANGED walVars
      PROVE  Backed(w)'
  <2>1. v # w
    BY <1>0, <1>2 DEF In, AuditCall
  <2>2. QED
    BY <1>0, <1>2, <2>1, BackedFrame DEF walVars
<1>3. ASSUME NEW v \in Writers, Audit(v) PROVE Backed(w)'
  <2>1. v # w
    BY <1>3 DEF Audit, In, AuditVerbs
  <2>2. QED
    BY <1>0, <1>3, <2>1, BackedFrame DEF Audit, Begin
<1>4. ASSUME NEW v \in Writers, Put(v) \/ EnterListeners(v) \/ LeaveListeners(v),
             UNCHANGED call
      PROVE  Backed(w)'
  <2>1. /\ click' = click /\ epoch' = epoch
        /\ pc'[w] = pc[w] \/ (pc[w] # "idle" /\ pc'[w] # "idle")
    BY <1>0, <1>4 DEF Put, EnterListeners, LeaveListeners
  <2>2. In(w, {"RESERVE"}) /\ (pc[w] # "idle" => Backed(w))
    BY <1>4 DEF In, ToolsInv, ReserveBacked, Backed
  <2>3. QED
    BY <1>4, <2>1, <2>2, BackedFrame DEF Backed
<1>5. ASSUME NEW v \in Writers, Publish(v), UNCHANGED call
      PROVE  Backed(w)'
  <2>1. CASE v # w
    BY <1>0, <1>5, <2>1, BackedFrame DEF Publish, Leave
  <2>2. CASE v = w
    <3>1. pc[w] = "publish" /\ pc'[w] = "idle" /\ UNCHANGED store
      BY <1>0, <1>5, <2>2 DEF Publish, Leave
    <3>2. store[epoch[w]] = click[w]
      BY <3>1 DEF HubInv, OwnRowWritten
    <3>3. Backed(w)
      BY <1>5 DEF In, ToolsInv, ReserveBacked, Backed
    <3>4. QED
      BY <1>5, <3>1, <3>2, <3>3 DEF Backed
  <2>3. QED
    BY <2>1, <2>2
<1>6. ASSUME NEW v \in Writers, ReserveFails(v) \/ ReserveDone(v) \/ AuditDone(v)
      PROVE  Backed(w)'
  <2>1. v # w
    BY <1>0, <1>6 DEF ReserveFails, ReserveDone, AuditDone, Return, In
  <2>2. call'[w] = call[w]
    BY <1>0, <1>6, <2>1 DEF ReserveFails, ReserveDone, AuditDone, Return
  <2>3. pc'[w] = pc[w] /\ click'[w] = click[w] /\ epoch'[w] = epoch[w]
    BY <1>0, <1>6, <2>1
       DEF ReserveFails, ReserveDone, AuditDone, PutFails, Publish, Leave, walVars
  <2>4. QED
    BY <2>2, <2>3, BackedFrame
<1>7. CASE Down
  BY <1>7 DEF Down, NoCalls, In
<1>8. CASE UNCHANGED <<call, pc, click, epoch>>
  BY <1>8, BackedFrame
<1>9. ASSUME NEW v \in Writers, StartCall(v) PROVE Backed(w)'
  <2>1. \A a \in Agents, p \in Paths : ClickOf("RELEASE", a, p) \in AuditCall
    BY DEF ClickOf, AuditCall
  <2>2. \A a \in Agents, e \in Pinnable, verb \in {"OBSERVE", "DIRECT"} :
          ClickOf(verb, a, e) \in AuditCall
    BY DEF ClickOf, AuditCall
  <2>3. QED
    BY <1>1, <1>2, <1>9, <2>1, <2>2 DEF StartCall, Release, VotePin, PinOverride
<1>10. ASSUME NEW v \in Writers, InCall(v) PROVE Backed(w)'
  BY <1>3, <1>4, <1>5, <1>6, <1>10 DEF InCall, Appending
<1>11. CASE (Open \/ Recover) /\ UNCHANGED <<now, reserveMu, reservations, pins, call>>
  BY <1>8, <1>11 DEF Open, Recover, local
<1>12. CASE Tick \/ UNCHANGED toolVars
  BY <1>8, <1>12 DEF Tick, toolVars, walVars
<1>13. QED
  BY <1>7, <1>9, <1>10, <1>11, <1>12 DEF ToolsNext

\* An entry is made from a call whose row is there, and rows stay.
LEMMA LoggedStep ==
  ASSUME HubInv, [Next]_walVars, ToolsInv, [ToolsNext]_toolVars
  PROVE  ReservationLogged'
<1> SUFFICES ASSUME NEW p \in Paths, reservations'[p] # NoEntry
             PROVE  store'[reservations'[p].epoch] =
                      ClickOf("RESERVE", reservations'[p].agent, p)
  BY DEF ReservationLogged
<1>1. CASE reservations'[p] = reservations[p]
  <2>1. reservations[p] \in Reservation
    BY <1>1 DEF ToolsInv, ToolsTypeOK
  <2>2. QED
    BY <1>1, <2>1, ReserveRowStays DEF ToolsInv, ReservationLogged, Reservation
<1>2. CASE reservations'[p] # reservations[p]
  <2>1. PICK w \in Writers : ReserveDone(w) /\ call[w].subject = p
    BY <1>2 DEF ToolsNext, toolVars, Down, NoReservations, Tick, StartCall, InCall,
         Release, Reserve, ReserveWith, VotePin, PinOverride, Appending, ReserveFails,
         ReserveDone, Audit, AuditDone, ToolsInv, ToolsTypeOK
  <2>2. reservations'[p].epoch = call[w].epoch /\ reservations'[p].agent = call[w].agent
    BY <2>1 DEF ReserveDone, ToolsInv, ToolsTypeOK
  <2>3. store[call[w].epoch] = ClickOf("RESERVE", call[w].agent, p)
    BY <2>1 DEF ReserveDone, ToolsInv, ReserveBacked
  <2>4. store' = store
    BY <2>1 DEF ReserveDone, walVars
  <2>5. QED
    BY <2>2, <2>3, <2>4
<1>3. QED
  BY <1>1, <1>2

-----------------------------------------------------------------------------
(* The mutex *)

\* The mutex is taken with the call and given back with it.
LEMMA ExclusiveStep ==
  ASSUME ToolsInv, [ToolsNext]_toolVars
  PROVE  ReserveExclusive'
<1>0. /\ reserveMu \in Writers \cup {NoWriter} /\ NoWriter \notin Writers
      /\ call \in [Writers -> ReserveCall \cup AuditCall \cup {NoCall}]
  BY WalAssumption DEF ToolsInv, ToolsTypeOK
<1> USE DEF ToolsInv, ReserveExclusive
<1>1. ASSUME NEW v \in Writers, NEW a \in Agents, NEW p \in Paths, NEW ttl \in Ttls,
             Reserve(v, a, p, ttl)
      PROVE  ReserveExclusive'
  <2>1. call'[v].verb = "RESERVE" /\ call'[v] \in ReserveCall
    BY <1>0, <1>1, ReserveType DEF Reserve, ReserveWith
  <2>2. \A w \in Writers \ {v} : call'[w] = call[w] /\ ~In(w, {"RESERVE"})
    BY <1>0, <1>1 DEF Reserve, ReserveWith
  <2>3. QED
    BY <1>0, <1>1, <2>1, <2>2, ToolsAssumption DEF Reserve, In
<1>2. ASSUME NEW v \in Writers, NEW c \in AuditCall, call[v] = NoCall,
             call' = [call EXCEPT ![v] = c], UNCHANGED reserveMu
      PROVE  ReserveExclusive'
  BY <1>0, <1>2 DEF In, AuditCall
<1>3. ASSUME NEW v \in Writers, ReserveFails(v) \/ ReserveDone(v)
      PROVE  ReserveExclusive'
  <2>1. reserveMu = v /\ reserveMu' = NoWriter
    BY <1>3 DEF ReserveFails, ReserveDone
  <2>2. \A w \in Writers : ~In(w, {"RESERVE"})'
    BY <1>0, <1>3, <2>1 DEF ReserveFails, ReserveDone, Return, In
  <2>3. QED
    BY <1>0, <2>1, <2>2
<1>4. ASSUME NEW v \in Writers, AuditDone(v) PROVE ReserveExclusive'
  BY <1>0, <1>4 DEF AuditDone, Return, In, AuditVerbs
<1>5. CASE Down
  BY <1>0, <1>5 DEF Down, NoCalls, In
<1>6. CASE UNCHANGED <<call, reserveMu>>
  BY <1>6 DEF In
<1>7. ASSUME NEW v \in Writers, StartCall(v) PROVE ReserveExclusive'
  <2>1. \A a \in Agents, p \in Paths : ClickOf("RELEASE", a, p) \in AuditCall
    BY DEF ClickOf, AuditCall
  <2>2. \A a \in Agents, e \in Pinnable, verb \in {"OBSERVE", "DIRECT"} :
          ClickOf(verb, a, e) \in AuditCall
    BY DEF ClickOf, AuditCall
  <2>3. QED
    BY <1>1, <1>2, <1>7, <2>1, <2>2 DEF StartCall, Release, VotePin, PinOverride, Free
<1>8. ASSUME NEW v \in Writers, InCall(v) PROVE ReserveExclusive'
  BY <1>3, <1>4, <1>6, <1>8 DEF InCall, Appending, Audit
<1>9. QED
  BY <1>5, <1>6, <1>7, <1>8 DEF ToolsNext, Tick, toolVars

\* Nobody else changes an entry while a call that reserves its path is under way.
LEMMA ConflictStep ==
  ASSUME ToolsInv, [ToolsNext]_toolVars
  PROVE  ConflictCurrent'
<1> SUFFICES ASSUME NEW w \in Writers, In(w, {"RESERVE"})',
                    LET held == reservations'[call'[w].subject] IN
                      held # NoEntry /\ held.agent # call'[w].agent
                      /\ held.expires > call'[w].at
             PROVE  call'[w].conflict = reservations'[call'[w].subject].agent
  BY DEF ConflictCurrent
<1>0. /\ reserveMu \in Writers \cup {NoWriter} /\ NoWriter \notin Writers
      /\ call \in [Writers -> ReserveCall \cup AuditCall \cup {NoCall}]
  BY WalAssumption DEF ToolsInv, ToolsTypeOK
<1>1. CASE call'[w] = call[w] /\ UNCHANGED reservations
  BY <1>1 DEF ToolsInv, ConflictCurrent, In
<1>2. ASSUME NEW v \in Writers, NEW a \in Agents, NEW p \in Paths, NEW ttl \in Ttls,
             Reserve(v, a, p, ttl)
      PROVE  call'[w].conflict = reservations'[call'[w].subject].agent
  <2>1. CASE v = w
    <3>1. /\ call'[w].agent = a /\ call'[w].subject = p /\ call'[w].at = now
          /\ call'[w].conflict = ConflictFor(a, p)
      BY <1>0, <1>2, <2>1 DEF Reserve, ReserveWith
    <3>2. UNCHANGED reservations
      BY <1>2 DEF Reserve, ReserveWith
    <3>3. QED
      BY <3>1, <3>2 DEF ConflictFor
  <2>2. CASE v # w
    BY <1>0, <1>1, <1>2, <2>2 DEF Reserve, ReserveWith
  <2>3. QED
    BY <2>1, <2>2
<1>3. ASSUME NEW v \in Writers, NEW a \in Agents, NEW p \in Paths, Release(v, a, p)
      PROVE  call'[w].conflict = reservations'[call'[w].subject].agent
  <2>1. v # w
    BY <1>0, <1>3 DEF Release, ClickOf, In
  <2>2. In(w, {"RESERVE"})
    BY <1>0, <1>3, <2>1 DEF Release, In
  <2>3. QED
    BY <1>0, <1>3, <2>2 DEF Release, ToolsInv, ReserveExclusive
<1>4. ASSUME NEW v \in Writers, NEW a \in Agents, NEW e \in Pinnable,
             \/ \E unvote \in BOOLEAN : VotePin(v, a, e, unvote)
             \/ \E override \in Overrides : PinOverride(v, a, e, override)
      PROVE  call'[w].conflict = reservations'[call'[w].subject].agent
  <2>1. v # w
    BY <1>0, <1>4 DEF VotePin, PinOverride, ClickOf, In
  <2>2. QED
    BY <1>0, <1>1, <1>4, <2>1 DEF VotePin, PinOverride
<1>5. ASSUME NEW v \in Writers, ReserveDone(v)
      PROVE  call'[w].conflict = reservations'[call'[w].subject].agent
  <2>1. v # w
    BY <1>0, <1>5 DEF ReserveDone, Return, In
  <2>2. In(w, {"RESERVE"}) /\ In(v, {"RESERVE"})
    BY <1>0, <1>5, <2>1 DEF ReserveDone, Return, In
  <2>3. QED
    BY <2>1, <2>2 DEF ToolsInv, ReserveExclusive
<1>6. ASSUME NEW v \in Writers, ReserveFails(v) \/ AuditDone(v)
      PROVE  call'[w].conflict = reservations'[call'[w].subject].agent
  <2>1. v # w
    BY <1>0, <1>6 DEF ReserveFails, AuditDone, Return, In
  <2>2. QED
    BY <1>0, <1>1, <1>6, <2>1 DEF ReserveFails, AuditDone, Return
<1>7. CASE Down
  BY <1>7 DEF Down, NoCalls, In
<1>8. CASE UNCHANGED <<reservations, call>>
  BY <1>1, <1>8
<1>9. QED
  BY <1>2, <1>3, <1>4, <1>5, <1>6, <1>7, <1>8
     DEF ToolsNext, StartCall, InCall, Appending, Audit, Tick, toolVars

-----------------------------------------------------------------------------
(* The newest clack of a path *)

\* An audit append works on its call's click as long as it runs.
LEMMA AuditBackedStep ==
  ASSUME ToolsInv, [ToolsNext]_toolVars
  PROVE  AuditBacked'
<1> SUFFICES ASSUME NEW w \in Writers, pc'[w] # "idle", ~In(w, {"RESERVE"})'
             PROVE  (In(w, AuditVerbs) /\ click[w] = call[w])'
  BY DEF AuditBacked
<1>0. TypeOK /\ call \in [Writers -> ReserveCall \cup AuditCall \cup {NoCall}]
  BY DEF ToolsInv, ToolsTypeOK
<1> USE DEF TypeOK
<1>1. CASE call'[w] = call[w] /\ click'[w] = click[w] /\ pc[w] # "idle"
  BY <1>1 DEF ToolsInv, AuditBacked, In
<1>2. ASSUME NEW v \in Writers, NEW a \in Agents, NEW p \in Paths, NEW ttl \in Ttls,
             Reserve(v, a, p, ttl)
      PROVE  (In(w, AuditVerbs) /\ click[w] = call[w])'
  <2>1. call'[v].verb = "RESERVE" /\ call'[v] \in ReserveCall
    BY <1>0, <1>2, ReserveType DEF Reserve, ReserveWith, ToolsInv
  <2>2. v # w
    BY <2>1, ToolsAssumption DEF In
  <2>3. QED
    BY <1>0, <1>1, <1>2, <2>2 DEF Reserve, ReserveWith, Begin
<1>3. ASSUME NEW v \in Writers, NEW c \in AuditCall, call[v] = NoCall,
             call' = [call EXCEPT ![v] = c], UNCHANGED walVars
      PROVE  (In(w, AuditVerbs) /\ click[w] = call[w])'
  <2>1. v # w
    BY <1>3 DEF ToolsInv, AuditBacked, In, walVars
  <2>2. QED
    BY <1>0, <1>1, <1>3, <2>1 DEF walVars
<1>4. ASSUME NEW v \in Writers, Audit(v)
      PROVE  (In(w, AuditVerbs) /\ click[w] = call[w])'
  BY <1>0, <1>1, <1>4 DEF Audit, Begin, In
<1>5. ASSUME NEW v \in Writers,
             Put(v) \/ EnterListeners(v) \/ LeaveListeners(v) \/ Publish(v), UNCHANGED call
      PROVE  (In(w, AuditVerbs) /\ click[w] = call[w])'
  BY <1>0, <1>1, <1>5 DEF Put, EnterListeners, LeaveListeners, Publish, Leave
<1>6. ASSUME NEW v \in Writers, ReserveFails(v) \/ ReserveDone(v) \/ AuditDone(v)
      PROVE  (In(w, AuditVerbs) /\ click[w] = call[w])'
  <2>1. v # w
    <3>1. CASE PutFails(v) \/ Publish(v)
      BY <1>0, <3>1 DEF PutFails, Publish, Leave
    <3>2. CASE ReserveDone(v)
      BY <3>2 DEF ReserveDone, walVars
    <3>3. CASE In(v, AuditVerbs) /\ pc[v] = "idle" /\ UNCHANGED walVars
      BY <3>3 DEF walVars
    <3>4. QED
      BY <1>6, <3>1, <3>2, <3>3 DEF ReserveFails, AuditDone
  <2>2. call'[w] = call[w]
    BY <1>0, <1>6, <2>1 DEF ReserveFails, ReserveDone, AuditDone, Return
  <2>3. pc'[w] = pc[w] /\ click'[w] = click[w]
    BY <1>0, <1>6, <2>1
       DEF ReserveFails, ReserveDone, AuditDone, PutFails, Publish, Leave, walVars
  <2>4. QED
    BY <1>1, <2>2, <2>3
<1>7. CASE Down
  BY <1>7 DEF Down, Stop
<1>8. CASE UNCHANGED <<call, pc, click>>
  BY <1>1, <1>8
<1>9. ASSUME NEW v \in Writers, StartCall(v)
      PROVE  (In(w, AuditVerbs) /\ click[w] = call[w])'
  <2>1. \A a \in Agents, p \in Paths : ClickOf("RELEASE", a, p) \in AuditCall
    BY DEF ClickOf, AuditCall
  <2>2. \A a \in Agents, e \in Pinnable, verb \in {"OBSERVE", "DIRECT"} :
          ClickOf(verb, a, e) \in AuditCall
    BY DEF ClickOf, AuditCall
  <2>3. QED
    BY <1>2, <1>3, <1>9, <2>1, <2>2 DEF StartCall, Release, VotePin, PinOverride, Free
<1>10. ASSUME NEW v \in Writers, InCall(v)
       PROVE  (In(w, AuditVerbs) /\ click[w] = call[w])'
  BY <1>4, <1>5, <1>6, <1>10 DEF InCall, Appending
<1>11. CASE (Open \/ Recover) /\ UNCHANGED <<now, reserveMu, reservations, pins, call>>
  BY <1>8, <1>11 DEF Open, Recover, local
<1>12. CASE Tick \/ UNCHANGED toolVars
  BY <1>8, <1>12 DEF Tick, toolVars, walVars
<1>13. QED
  BY <1>7, <1>9, <1>10, <1>11, <1>12 DEF ToolsNext

\* Which RESERVE clacks a step acknowledges: the one of the call under way.
LEMMA NewReserve ==
  ASSUME HubInv, ToolsInv, [ToolsNext]_toolVars, NEW a \in acked',
         a \notin acked, a.click.verb = "RESERVE"
  PROVE  \E v \in Writers : /\ In(v, {"RESERVE"}) /\ a.epoch = call[v].epoch
                            /\ UNCHANGED <<call, reservations>>
<1>1. PICK v \in Writers : Publish(v) /\ (AuditDone(v) \/ (Appending(v) /\ In(v, {"RESERVE"})))
  <2>1. acked' # acked
    OBVIOUS
  <2>2. ~\E v \in Writers : StartCall(v)
    BY <2>1 DEF StartCall, Reserve, ReserveWith, Begin, Release, VotePin, PinOverride, walVars
  <2>3. ~\E v \in Writers : ReserveFails(v) \/ ReserveDone(v) \/ Audit(v)
    BY <2>1 DEF ReserveFails, PutFails, ReserveDone, Audit, Begin, walVars
  <2>4. ~\E v \in Writers : Put(v) \/ EnterListeners(v) \/ LeaveListeners(v) \/ PutFails(v)
    BY <2>1 DEF Put, EnterListeners, LeaveListeners, PutFails
  <2>5. ~(Down \/ Tick \/ Open \/ Recover)
    BY <2>1 DEF Down, Stop, durable, Tick, Open, Recover, walVars
  <2>6. PICK v \in Writers : AuditDone(v) \/ Appending(v)
    BY <2>1, <2>2, <2>3, <2>5 DEF ToolsNext, InCall, toolVars, walVars
  <2>7. Publish(v) /\ (AuditDone(v) \/ (Appending(v) /\ In(v, {"RESERVE"})))
    <3>1. PutFails(v) \/ Publish(v) \/ UNCHANGED walVars \/ Appending(v)
      BY <2>6 DEF AuditDone
    <3>2. Publish(v) /\ (Appending(v) => In(v, {"RESERVE"}))
      BY <2>1, <2>4, <3>1 DEF walVars, Appending
    <3>3. QED
      BY <2>6, <3>2
  <2>8. QED
    BY <2>7
<1>2. a.epoch = epoch[v] /\ a.click = click[v] /\ pc[v] # "idle"
  BY <1>1 DEF Publish, Clack
<1>3. In(v, {"RESERVE"})
  BY <1>2 DEF ToolsInv, AuditBacked, In, AuditVerbs
<1>4. a.epoch = call[v].epoch
  BY <1>2, <1>3 DEF ToolsInv, ReserveBacked
<1>5. UNCHANGED <<call, reservations>>
  BY <1>1, <1>3 DEF AuditDone, In, AuditVerbs, Appending
<1>6. QED
  BY <1>3, <1>4, <1>5

\* A call in cc.reserve_path after a step was in it before, or starts with it.
LEMMA CallsInReserve ==
  ASSUME ToolsInv, [ToolsNext]_toolVars, NEW w \in Writers, In(w, {"RESERVE"})'
  PROVE  \/ In(w, {"RESERVE"}) /\ call'[w] = call[w]
         \/ /\ call[w] = NoCall /\ call'[w].epoch = counter + 1
            /\ phase = "serving" /\ UNCHANGED acked
<1>0. call \in [Writers -> ReserveCall \cup AuditCall \cup {NoCall}]
  BY DEF ToolsInv, ToolsTypeOK
<1>1. ASSUME NEW v \in Writers, NEW a \in Agents, NEW p \in Paths, NEW ttl \in Ttls,
             Reserve(v, a, p, ttl), call'[w] # call[w]
      PROVE  /\ call[w] = NoCall /\ call'[w].epoch = counter + 1
             /\ phase = "serving" /\ UNCHANGED acked
  BY <1>0, <1>1 DEF Reserve, ReserveWith, Free, Begin
<1>2. ASSUME NEW v \in Writers, NEW c \in AuditCall, call' = [call EXCEPT ![v] = c]
      PROVE  call'[w] = call[w]
  BY <1>0, <1>2 DEF In, AuditCall
<1>3. ASSUME NEW v \in Writers, StartCall(v), call'[w] # call[w]
      PROVE  /\ call[w] = NoCall /\ call'[w].epoch = counter + 1
             /\ phase = "serving" /\ UNCHANGED acked
  <2>1. \A a \in Agents, p \in Paths : ClickOf("RELEASE", a, p) \in AuditCall
    BY DEF ClickOf, AuditCall
  <2>2. \A a \in Agents, e \in Pinnable, verb \in {"OBSERVE", "DIRECT"} :
          ClickOf(verb, a, e) \in AuditCall
    BY DEF ClickOf, AuditCall
  <2>3. QED
    BY <1>1, <1>2, <1>3, <2>1, <2>2 DEF StartCall, Release, VotePin, PinOverride
<1>4. ASSUME NEW v \in Writers, InCall(v) PROVE call'[w] = call[w]
  BY <1>0, <1>4 DEF InCall, Appending, ReserveFails, ReserveDone, Audit, AuditDone, Return, In
<1>5. CASE Down
  BY <1>5 DEF Down, NoCalls, In
<1>6. QED
  BY <1>3, <1>4, <1>5 DEF ToolsNext, Tick, toolVars, In

\* The call's epoch exceeds what was acknowledged when it began, and while it holds
\* the mutex no other RESERVE clack is acknowledged.
LEMMA InFlightStep ==
  ASSUME HubInv, ToolsInv, [ToolsNext]_toolVars
  PROVE  InFlightNewest'
<1> SUFFICES ASSUME NEW w \in Writers, NEW a \in acked', In(w, {"RESERVE"})',
                    a.click.verb = "RESERVE"
             PROVE  a.epoch <= call'[w].epoch
  BY DEF InFlightNewest
<1>1. CASE In(w, {"RESERVE"}) /\ call'[w] = call[w]
  <2>1. CASE a \in acked
    BY <1>1, <2>1 DEF ToolsInv, InFlightNewest
  <2>2. CASE a \notin acked
    <3>1. a.epoch = call[w].epoch
      BY <1>1, <2>2, NewReserve DEF ToolsInv, ReserveExclusive
    <3>2. call[w].epoch \in Nat
      BY <1>1, ReserveCallTyped, WalAssumption DEF ToolsInv, ReserveCall, Epochs
    <3>3. QED
      BY <1>1, <3>1, <3>2
  <2>3. QED
    BY <2>1, <2>2
<1>2. CASE /\ call'[w].epoch = counter + 1
           /\ phase = "serving" /\ UNCHANGED acked
  <2>1. a.epoch \in Epochs /\ store[a.epoch] = a.click /\ a.click \in Clicks
    BY <1>2 DEF HubInv, AckedDurable, TypeInv, TypeOK
  <2>2. a.epoch <= counter
    BY <1>2, <2>1, WalAssumption DEF HubInv, CounterCovers, Stored
  <2>3. QED
    BY <1>2, <2>1, <2>2, WalAssumption DEF HubInv, TypeInv, TypeOK, Epochs
<1>3. QED
  BY <1>1, <1>2, CallsInReserve

\* What a step does to the entry of a path.
LEMMA EntryStep ==
  ASSUME ToolsInv, [ToolsNext]_toolVars, NEW p \in Paths, reservations'[p] # NoEntry
  PROVE  \/ reservations'[p] = reservations[p]
         \/ \E v \in Writers : /\ ReserveDone(v) /\ call[v].subject = p
                               /\ reservations'[p].epoch = call[v].epoch
<1>0. reservations \in [Paths -> Reservation \cup {NoEntry}]
  BY DEF ToolsInv, ToolsTypeOK
<1>1. ASSUME NEW v \in Writers, StartCall(v) PROVE reservations'[p] = reservations[p]
  BY <1>0, <1>1 DEF StartCall, Release, Reserve, ReserveWith, VotePin, PinOverride
<1>2. ASSUME NEW v \in Writers, ReserveDone(v), call[v].subject = p
      PROVE  reservations'[p].epoch = call[v].epoch
  BY <1>0, <1>2 DEF ReserveDone
<1>3. ASSUME NEW v \in Writers, ReserveDone(v), call[v].subject # p
      PROVE  reservations'[p] = reservations[p]
  BY <1>0, <1>3 DEF ReserveDone
<1>4. ASSUME NEW v \in Writers, Appending(v) \/ ReserveFails(v) \/ Audit(v) \/ AuditDone(v)
      PROVE  reservations'[p] = reservations[p]
  BY <1>4 DEF Appending, ReserveFails, Audit, AuditDone
<1>5. CASE Down \/ Tick \/ UNCHANGED reservations
  BY <1>5 DEF Down, NoReservations, Tick
<1>6. QED
  BY <1>1, <1>2, <1>3, <1>4, <1>5 DEF ToolsNext, InCall, toolVars

\* A call of cc.reserve_path that is over with a step.
LEMMA CallsLeave ==
  ASSUME ToolsInv, [ToolsNext]_toolVars, NEW w \in Writers, In(w, {"RESERVE"}),
         ~In(w, {"RESERVE"})'
  PROVE  ReserveFails(w) \/ ReserveDone(w) \/ Down
<1>0. call \in [Writers -> ReserveCall \cup AuditCall \cup {NoCall}]
  BY DEF ToolsInv, ToolsTypeOK
<1>1. call'[w] # call[w]
  BY DEF In
<1>2. ASSUME NEW v \in Writers, StartCall(v) PROVE FALSE
  <2>1. v # w /\ call'[w] = call[w]
    BY <1>0, <1>2 DEF StartCall, Reserve, ReserveWith, Release, VotePin, PinOverride, Free, In
  <2>2. QED
    BY <1>1, <2>1
<1>3. ASSUME NEW v \in Writers, Appending(v) \/ Audit(v) \/ AuditDone(v) PROVE FALSE
  BY <1>0, <1>1, <1>3 DEF Appending, Audit, AuditDone, Return, In, AuditVerbs
<1>4. ASSUME NEW v \in Writers, ReserveFails(v) \/ ReserveDone(v) PROVE v = w
  BY <1>0, <1>1, <1>4 DEF ReserveFails, ReserveDone, Return
<1>5. QED
  BY <1>1, <1>2, <1>3, <1>4 DEF ToolsNext, InCall, Tick, toolVars

\* The entry changes to the call's epoch, which is the newest; a call that leaves no
\* entry has left no clack either.
LEMMA NewestStep ==
  ASSUME HubInv, ToolsInv, [ToolsNext]_toolVars
  PROVE  NewestReservation'
<1> SUFFICES ASSUME NEW p \in Paths, NEW a \in acked', reservations'[p] # NoEntry,
                    a.click.verb = "RESERVE", a.click.subject = p,
                    ~\E w \in Writers : In(w, {"RESERVE"})' /\ call'[w].epoch = a.epoch
             PROVE  reservations'[p].epoch >= a.epoch
  BY DEF NewestReservation
<1>1. a \in acked
  BY NewReserve DEF In
<1>2. CASE \E v \in Writers : /\ ReserveDone(v) /\ call[v].subject = p
                              /\ reservations'[p].epoch = call[v].epoch
  <2>1. PICK v \in Writers : /\ In(v, {"RESERVE"})
                             /\ reservations'[p].epoch = call[v].epoch
    BY <1>2 DEF ReserveDone
  <2>2. a.epoch <= call[v].epoch /\ call[v].epoch \in Nat /\ a.epoch \in Nat
    BY <1>1, <2>1, ReserveCallTyped, WalAssumption
       DEF ToolsInv, InFlightNewest, ReserveCall, HubInv, TypeInv, TypeOK, Epochs
  <2>3. QED
    BY <2>1, <2>2
<1>3. CASE reservations'[p] = reservations[p]
  <2>1. CASE ~\E w \in Writers : In(w, {"RESERVE"}) /\ call[w].epoch = a.epoch
    BY <1>1, <1>3, <2>1 DEF ToolsInv, NewestReservation
  <2>2. ASSUME NEW w \in Writers, In(w, {"RESERVE"}), call[w].epoch = a.epoch
        PROVE  reservations'[p].epoch >= a.epoch
    <3>1. ~In(w, {"RESERVE"})'
      BY <2>2, CallsInReserve DEF In
    <3>2. store[a.epoch] = a.click /\ a.epoch \in Nat \ {0} /\ call[w] \in ReserveCall
      BY <1>1, <2>2, ReserveCallTyped, WalAssumption
         DEF ToolsInv, HubInv, AckedDurable, TypeInv, TypeOK, Epochs
    \* A failed append has acknowledged nothing.
    <3>3. ~ReserveFails(w)
      BY <1>1, <2>2, <3>2 DEF ReserveFails, PutFails, ToolsInv, ReserveBacked, HubInv, EpochExclusive
    \* A call that is over has made the entry.
    <3>4. CASE ReserveDone(w)
      <4>1. ClickOf("RESERVE", call[w].agent, call[w].subject) = a.click
        BY <2>2, <3>2, <3>4 DEF ReserveDone, ToolsInv, ReserveBacked
      <4>2. call[w].subject = p
        BY <4>1 DEF ClickOf
      <4>3. reservations'[p].epoch = call[w].epoch
        BY <3>4, <4>2 DEF ReserveDone, ToolsInv, ToolsTypeOK
      <4>4. QED
        BY <2>2, <3>2, <4>3
    <3>5. ~Down
      BY DEF Down, NoReservations
    <3>6. QED
      BY <2>2, <3>1, <3>3, <3>4, <3>5, CallsLeave
  <2>3. QED
    BY <2>1, <2>2
<1>4. QED
  BY <1>2, <1>3, EntryStep

-----------------------------------------------------------------------------

\* The types hold, whether or not the host recovers its counter.
LEMMA ToolsTypeInductive == ToolsSpec => [](TypeInv /\ ToolsTypeOK)
<1>1. ToolsInit => TypeInv /\ ToolsTypeOK
  BY WalAssumption, ToolsAssumption
     DEF ToolsInit, Init, ToolsTypeOK, TypeInv, LocalsInUse, TypeOK, Epochs,
         NoReservations, NoPins, NoCalls
<1>2. TypeInv /\ ToolsTypeOK /\ [ToolsNext]_toolVars => TypeInv' /\ ToolsTypeOK'
  BY ToolsStepIsWalStep, TypeInvStep, ToolsTypeStep DEF TypeInv
<1>3. QED
  BY <1>1, <1>2, PTL DEF ToolsSpec

\* The tools use the log as any writer does: what holds of the log, holds here.
LEMMA ToolsImplementWal == ToolsSpec => Spec
<1>1. ToolsInit => Init
  BY DEF ToolsInit
<1>2. ToolsTypeOK /\ [ToolsNext]_toolVars => [Next]_walVars
  BY ToolsStepIsWalStep
<1>3. QED
  BY <1>1, <1>2, ToolsTypeInductive, PTL DEF ToolsSpec, Spec

\* The tools' invariant holds, given the log's.
LEMMA ToolsInvInductive ==
  ASSUME Recovers
  PROVE  ToolsSpec => []ToolsInv
<1>1. ToolsInit => ToolsInv
  <2> SUFFICES ASSUME ToolsInit PROVE ToolsInv
    OBVIOUS
  <2>1. ToolsTypeOK
    BY WalAssumption, ToolsAssumption
       DEF ToolsInit, Init, ToolsTypeOK, TypeOK, Epochs, NoReservations, NoPins, NoCalls
  <2>2. \A w \in Writers : pc[w] = "idle" /\ ~In(w, {"RESERVE"})
    BY DEF ToolsInit, Init, NoCalls, In
  <2>3. \A p \in Paths : reservations[p] = NoEntry
    BY DEF ToolsInit, NoReservations
  <2>4. reserveMu \notin Writers
    BY WalAssumption DEF ToolsInit
  <2>5. QED
    BY <2>1, <2>2, <2>3, <2>4
       DEF ToolsInv, ReserveBacked, AuditBacked, ReserveExclusive, ConflictCurrent,
           InFlightNewest, ReservationLogged, NewestReservation
<1>2. HubInv /\ HubInv' /\ ToolsInv /\ [ToolsNext]_toolVars => ToolsInv'
  <2> SUFFICES ASSUME HubInv, HubInv', ToolsInv, [ToolsNext]_toolVars
               PROVE  ToolsInv'
    OBVIOUS
  <2>1. [Next]_walVars
    BY ToolsStepIsWalStep DEF ToolsInv
  <2>2. ToolsTypeOK'
    BY ToolsTypeStep DEF ToolsInv, HubInv, TypeInv
  <2>3. QED
    BY <2>1, <2>2, BackedStep, LoggedStep, ExclusiveStep, ConflictStep,
       AuditBackedStep, InFlightStep, NewestStep DEF ToolsInv
<1>3. ToolsSpec => []HubInv
  BY ToolsImplementWal, HubInvInductive, PTL
<1>4. QED
  BY <1>1, <1>2, <1>3, PTL DEF ToolsSpec

\* Type correctness of the log, the clock, the maps, the mutex and the calls.
THEOREM ToolsTypeCorrect == ToolsSpec => []ToolsTypeOK
  BY ToolsTypeInductive, PTL

\* Every reservation has its RESERVE clack in the log ("the WAL carries the audit
\* trail via RESERVE/RELEASE clacks", mcp_server.hpp:856).
THEOREM ReservationsAreLogged ==
  ASSUME Recovers
  PROVE  ToolsSpec => []ReservationLogged
  BY ToolsInvInductive, PTL DEF ToolsInv

\* A path's entry is the one of its newest RESERVE clack.
THEOREM NewestIsHolder ==
  ASSUME Recovers
  PROVE  ToolsSpec => []NewestReservation
  BY ToolsInvInductive, PTL DEF ToolsInv

\* A takeover is reported to the one who takes over.
THEOREM NoTakeoverIsSilent ==
  ASSUME Recovers
  PROVE  ToolsSpec => NoSilentTakeover
<1>1. ToolsInv =>
        [\A w \in Writers : In(w, {"RESERVE"}) /\ pc[w] = "idle"
           /\ call'[w] = NoCall /\ phase' = "serving" =>
          LET held == reservations[call[w].subject] IN
            held # NoEntry /\ held.agent # call[w].agent /\ held.expires > call[w].at =>
              call[w].conflict = held.agent]_toolVars
  BY DEF ToolsInv, ConflictCurrent
<1>2. QED
  BY <1>1, ToolsInvInductive, PTL DEF NoSilentTakeover

-----------------------------------------------------------------------------
(* The pins *)

\* The pins of a set have a stalest one.
LEMMA StalestMember ==
  ASSUME ToolsTypeOK, NEW S \in SUBSET Pinned, S # {}
  PROVE  \E e \in S : \A d \in S : ~Staler(d, e)
<1> DEFINE times == {pins[d].updated : d \in S}
<1>1. S \subseteq Nat /\ \A d \in S : pins[d].updated \in Nat
  BY ToolsAssumption DEF Pinned, ToolsTypeOK, PinState
<1>2. times \in SUBSET Nat /\ times # {}
  BY <1>1
<1> HIDE DEF times
<1>3. PICK first \in times : \A t \in times : ~(t < first)
  BY <1>2, SmallestNumber
<1> DEFINE oldest == {d \in S : pins[d].updated = first}
<1>4. oldest \in SUBSET Nat /\ oldest # {}
  BY <1>1, <1>3 DEF times
<1> HIDE DEF oldest
<1>5. PICK e \in oldest : \A d \in oldest : ~(d < e)
  BY <1>4, SmallestNumber
<1>6. ASSUME NEW d \in S PROVE ~Staler(d, e)
  <2>1. pins[e].updated = first /\ ~(pins[d].updated < first)
    BY <1>3, <1>5 DEF oldest, times
  <2>2. pins[d].updated = first => ~(d < e)
    BY <1>5 DEF oldest
  <2>3. QED
    BY <2>1, <2>2 DEF Staler
<1>7. QED
  BY <1>5, <1>6 DEF oldest

\* At the cap an eviction drops a pin, if one has no override.
LEMMA EvictsOne ==
  ASSUME ToolsTypeOK, IsFiniteSet(Pinned), DropShare <= MaxPins,
         Cardinality(Pinned) >= MaxPins, Evictable # {}
  PROVE  \E e \in Pinned : e \in Evicted
<1> DEFINE n == Cardinality(Pinned) \div DropShare
<1>1. n \in Nat \ {0}
  <2>1. Cardinality(Pinned) \in Nat /\ Cardinality(Pinned) >= DropShare /\ DropShare \in Nat \ {0}
    BY FS_CardinalityType, ToolsAssumption
  <2>2. QED
    BY <2>1
<1>2. Evictable \in SUBSET Pinned
  BY DEF Evictable
<1>3. PICK e \in Evictable : \A d \in Evictable : ~Staler(d, e)
  BY <1>2, StalestMember
<1>4. {d \in Evictable : Staler(d, e)} = {}
  BY <1>3
<1>5. Cardinality({d \in Evictable : Staler(d, e)}) < n
  BY <1>1, <1>4, FS_EmptySet
<1> HIDE DEF n
<1>6. e \in Stalest(n, Evictable)
  BY <1>5 DEF Stalest
<1>7. ~(Cardinality(Pinned) < MaxPins)
  BY FS_CardinalityType, ToolsAssumption
<1>8. e \in Evicted
  BY <1>6, <1>7 DEF Evicted, n
<1>9. QED
  BY <1>2, <1>8

\* No override is evicted.
LEMMA OverridesKept ==
  ASSUME NEW e \in Evicted
  PROVE  e \in Pinned /\ pins[e].override = "unset"
  BY DEF Evicted, Stalest, Evictable

\* What setting a pin leaves of the others.
LEMMA SetPinned ==
  ASSUME ToolsTypeOK, NEW e \in Pinnable, NEW voters \in SUBSET Agents,
         NEW override \in Overrides, SetPin(e, voters, override)
  PROVE  /\ Pinned' = (Pinned \ Evicted) \cup {e}
         /\ pins'[e] # NoEntry /\ pins'[e].override = override
         /\ \A d \in Pinned \ Evicted : d # e => pins'[d] = pins[d]
<1> DEFINE pin == [voters |-> voters, override |-> override, updated |-> now]
<1>1. pin \in PinState /\ pin.override = override
  BY ToolsAssumption DEF PinState, ToolsTypeOK
<1>2. pin # NoEntry
  BY <1>1, ToolsAssumption
<1>3. pins' = [d \in Pinnable |->
                 IF d = e THEN pin ELSE IF d \in Evicted THEN NoEntry ELSE pins[d]]
  BY DEF SetPin
<1> HIDE DEF pin
<1>4. ASSUME NEW d \in Pinnable PROVE pins'[d] # NoEntry <=> d \in (Pinned \ Evicted) \cup {e}
  BY <1>2, <1>3 DEF Pinned
<1>5. Pinned' = {d \in Pinnable : pins'[d] # NoEntry}
  BY DEF Pinned
<1>6. Pinned \subseteq Pinnable
  BY DEF Pinned
<1>7. QED
  BY <1>1, <1>2, <1>3, <1>4, <1>5, <1>6

\* What a step does to the pins: nothing, or the process ends, or one call sets
\* one pin; a vote leaves the override.
LEMMA PinMoves ==
  ASSUME ToolsTypeOK, [ToolsNext]_toolVars
  PROVE  \/ pins' = pins
         \/ pins' = NoPins /\ phase' = "down"
         \/ \E w \in Writers, e \in Pinnable, voters \in SUBSET Agents, override \in Overrides :
              /\ SetPin(e, voters, override)
              /\ \/ override = PinAt(e).override
                 \/ /\ call[w] = NoCall /\ call'[w] # NoCall
                    /\ call'[w].verb = "DIRECT" /\ call'[w].subject = e
<1>1. ASSUME NEW w \in Writers, NEW a \in Agents, NEW e \in Pinnable,
             NEW unvote \in BOOLEAN, VotePin(w, a, e, unvote)
      PROVE  \E voters \in SUBSET Agents, override \in Overrides :
               SetPin(e, voters, override) /\ override = PinAt(e).override
  <2>1. PinAt(e).voters \in SUBSET Agents /\ PinAt(e).override \in Overrides
    BY PinAtType DEF PinState
  <2>2. PICK voters \in {PinAt(e).voters \ {a}, PinAt(e).voters \cup {a}} :
          SetPin(e, voters, PinAt(e).override)
    BY <1>1 DEF VotePin
  <2>3. QED
    BY <2>1, <2>2
<1>2. ASSUME NEW w \in Writers, NEW a \in Agents, NEW e \in Pinnable,
             NEW override \in Overrides, PinOverride(w, a, e, override)
      PROVE  /\ \E voters \in SUBSET Agents : SetPin(e, voters, override)
             /\ call[w] = NoCall /\ call'[w] # NoCall
             /\ call'[w].verb = "DIRECT" /\ call'[w].subject = e
  <2>1. PinAt(e).voters \in SUBSET Agents /\ SetPin(e, PinAt(e).voters, override)
    BY <1>2, PinAtType DEF PinState, PinOverride
  <2>2. ClickOf("DIRECT", a, e) \in AuditCall
    BY DEF ClickOf, AuditCall
  <2>3. call'[w] = ClickOf("DIRECT", a, e) /\ call[w] = NoCall
    BY <1>2 DEF PinOverride, Free, ToolsTypeOK
  <2>4. QED
    BY <2>1, <2>2, <2>3, ToolsAssumption DEF ClickOf
<1>3. ASSUME NEW w \in Writers, InCall(w)
      PROVE  pins' = pins
  BY <1>3 DEF InCall, Appending, ReserveFails, ReserveDone, Audit, AuditDone
<1>4. ASSUME NEW w \in Writers, NEW a \in Agents, NEW p \in Paths,
             Release(w, a, p) \/ \E ttl \in Ttls : Reserve(w, a, p, ttl)
      PROVE  pins' = pins
  BY <1>4 DEF Release, Reserve, ReserveWith
<1>5. CASE Tick \/ UNCHANGED toolVars \/ UNCHANGED pins
  BY <1>5 DEF Tick, toolVars
<1>6. CASE Down
  BY <1>6 DEF Down, Stop
<1>7. QED
  BY <1>1, <1>2, <1>3, <1>4, <1>5, <1>6 DEF ToolsNext, StartCall

\* Only finitely many pins are set.
LEMMA PinsInductive == ToolsSpec => [](ToolsTypeOK /\ IsFiniteSet(Pinned))
<1>1. ToolsInit => IsFiniteSet(Pinned)
  <2>1. ToolsInit => Pinned = {}
    BY DEF ToolsInit, NoPins, Pinned
  <2>2. QED
    BY <2>1, FS_EmptySet
<1>2. ToolsTypeOK /\ IsFiniteSet(Pinned) /\ [ToolsNext]_toolVars => IsFiniteSet(Pinned)'
  <2> SUFFICES ASSUME ToolsTypeOK, IsFiniteSet(Pinned), [ToolsNext]_toolVars
               PROVE  IsFiniteSet(Pinned')
    OBVIOUS
  <2>1. CASE pins' = pins
    BY <2>1 DEF Pinned
  <2>2. CASE pins' = NoPins
    <3>1. Pinned' = {}
      BY <2>2 DEF Pinned, NoPins
    <3>2. QED
      BY <3>1, FS_EmptySet
  <2>3. ASSUME NEW e \in Pinnable, NEW voters \in SUBSET Agents,
               NEW override \in Overrides, SetPin(e, voters, override)
        PROVE  IsFiniteSet(Pinned')
    <3>1. Pinned' = (Pinned \ Evicted) \cup {e} /\ Pinned \ Evicted \in SUBSET Pinned
      BY <2>3, SetPinned
    <3>2. QED
      BY <3>1, FS_Subset, FS_AddElement
  <2>4. QED
    BY <2>1, <2>2, <2>3, PinMoves
<1>3. QED
  BY <1>1, <1>2, ToolsTypeInductive, PTL DEF ToolsSpec

\* "Preserve entries with an active manual_override" and "bound the pin map"
\* (mcp_server.hpp:884-888): only an override of the same epoch undoes one, and at
\* the cap a call makes room for the pin it adds, unless every pin is an override.
\* A cap below DropShare would drop none (the code has 100000 and 10).
THEOREM EvictionsKeepOverrides ==
  ASSUME DropShare <= MaxPins
  PROVE  ToolsSpec => EvictionKeeps
<1>1. ToolsTypeOK /\ [ToolsNext]_toolVars =>
        [\A e \in Pinned : pins[e].override # "unset" /\ phase' # "down" =>
           /\ pins'[e] # NoEntry
           /\ pins'[e].override # pins[e].override =>
                \E w \in Writers : /\ call[w] = NoCall /\ call'[w] # NoCall
                                   /\ call'[w].verb = "DIRECT" /\ call'[w].subject = e
        ]_toolVars
  <2> SUFFICES ASSUME ToolsTypeOK, [ToolsNext]_toolVars, NEW e \in Pinned,
                      pins[e].override # "unset", phase' # "down"
               PROVE  /\ pins'[e] # NoEntry
                      /\ pins'[e].override # pins[e].override =>
                           \E w \in Writers :
                             /\ call[w] = NoCall /\ call'[w] # NoCall
                             /\ call'[w].verb = "DIRECT" /\ call'[w].subject = e
    OBVIOUS
  <2>1. pins[e] # NoEntry /\ e \notin Evicted
    BY OverridesKept DEF Pinned
  <2>2. CASE pins' = pins
    BY <2>1, <2>2
  <2>3. ASSUME NEW w \in Writers, NEW d \in Pinnable, NEW voters \in SUBSET Agents,
               NEW override \in Overrides, SetPin(d, voters, override),
               \/ override = PinAt(d).override
               \/ /\ call[w] = NoCall /\ call'[w] # NoCall
                  /\ call'[w].verb = "DIRECT" /\ call'[w].subject = d
        PROVE  /\ pins'[e] # NoEntry
               /\ pins'[e].override = pins[e].override
                  \/ (/\ call[w] = NoCall /\ call'[w] # NoCall
                      /\ call'[w].verb = "DIRECT" /\ call'[w].subject = e)
    <3>1. CASE d = e
      <4>1. pins'[e] # NoEntry /\ pins'[e].override = override
        BY <2>3, <3>1, SetPinned
      <4>2. PinAt(e) = pins[e]
        BY <2>1 DEF PinAt
      <4>3. QED
        BY <2>3, <3>1, <4>1, <4>2
    <3>2. CASE d # e
      <4>1. pins'[e] = pins[e]
        BY <2>1, <2>3, <3>2, SetPinned
      <4>2. QED
        BY <2>1, <4>1
    <3>3. QED
      BY <3>1, <3>2
  <2>4. QED
    BY <2>2, <2>3, PinMoves
<1>2. ToolsTypeOK /\ IsFiniteSet(Pinned) /\ [ToolsNext]_toolVars =>
        [Cardinality(Pinned') > Cardinality(Pinned) /\ Cardinality(Pinned) >= MaxPins =>
           Evictable = {}]_toolVars
  <2> SUFFICES ASSUME ToolsTypeOK, IsFiniteSet(Pinned), [ToolsNext]_toolVars,
                      Cardinality(Pinned) >= MaxPins, Evictable # {}
               PROVE  ~(Cardinality(Pinned') > Cardinality(Pinned))
    OBVIOUS
  <2>1. Cardinality(Pinned) \in Nat
    BY FS_CardinalityType
  <2>2. CASE pins' = pins
    BY <2>1, <2>2 DEF Pinned
  <2>3. CASE pins' = NoPins
    <3>1. Pinned' = {}
      BY <2>3 DEF Pinned, NoPins
    <3>2. QED
      BY <2>1, <3>1, FS_EmptySet
  <2>4. ASSUME NEW e \in Pinnable, NEW voters \in SUBSET Agents,
               NEW override \in Overrides, SetPin(e, voters, override)
        PROVE  ~(Cardinality(Pinned') > Cardinality(Pinned))
    <3>1. PICK d \in Pinned : d \in Evicted
      BY EvictsOne
    <3>2. /\ IsFiniteSet(Pinned \ {d}) /\ Cardinality(Pinned \ {d}) = Cardinality(Pinned) - 1
      BY FS_RemoveElement
    <3>3. Pinned' \in SUBSET ((Pinned \ {d}) \cup {e})
      BY <2>4, <3>1, SetPinned
    <3>4. /\ IsFiniteSet((Pinned \ {d}) \cup {e})
          /\ Cardinality((Pinned \ {d}) \cup {e}) \in Nat
          /\ Cardinality((Pinned \ {d}) \cup {e}) <= Cardinality(Pinned)
      <4> DEFINE kept == Pinned \ {d}
      <4>1. IsFiniteSet(kept) /\ Cardinality(kept) = Cardinality(Pinned) - 1
        BY <3>2
      <4> HIDE DEF kept
      <4>2. IsFiniteSet(kept \cup {e})
            /\ Cardinality(kept \cup {e}) \in {Cardinality(kept), Cardinality(kept) + 1}
        BY <4>1, FS_AddElement
      <4>3. Cardinality(kept \cup {e}) \in Nat
        BY <4>2, FS_CardinalityType
      <4>4. QED
        BY <2>1, <4>1, <4>2, <4>3 DEF kept
    <3>5. Cardinality(Pinned') \in Nat
          /\ Cardinality(Pinned') <= Cardinality((Pinned \ {d}) \cup {e})
      BY <3>3, <3>4, FS_Subset, FS_CardinalityType
    <3>6. QED
      BY <2>1, <3>4, <3>5
  <2>5. QED
    BY <2>2, <2>3, <2>4, PinMoves
<1>3. ToolsSpec => OverridesStay
  BY <1>1, PinsInductive, PTL DEF ToolsSpec, OverridesStay
<1>4. ToolsSpec => PinsBounded
  BY <1>2, PinsInductive, PTL DEF ToolsSpec, PinsBounded
<1>5. QED
  BY <1>3, <1>4 DEF EvictionKeeps
=============================================================================

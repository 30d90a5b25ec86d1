------------------------------- MODULE Tools -------------------------------
(***************************************************************************)
(* The tools of mcp/mcp_server.hpp that keep state of their own: the       *)
(* advisory path reservations under reserve_mu_ and the pins under         *)
(* pin_mu_.  Each call also appends a clack through Wal, and the order of  *)
(* the two differs: cc.reserve_path holds its mutex across the append and  *)
(* updates the index after it, the others update and unlock first.         *)
(*                                                                         *)
(* The work under a mutex up to the first shared access that the mutex     *)
(* does not protect is one step.  A clack is reduced to its verb, agent    *)
(* and subject (the path or the epoch).                                    *)
(***************************************************************************)
EXTENDS Wal

CONSTANTS Agents, Paths,
          Pinnable,     \* the epochs clients vote on
          Ttls,         \* reservation lengths, in ticks
          Wrap,         \* the clock arithmetic is modulo Wrap (2^64)
          MaxPins,      \* kMaxPins
          DropShare,    \* an eviction drops size/DropShare pins (10 in the code)
          MaxClock,     \* bound: ticks of the system clock
          NoAgent, NoCall,
          NoEntry       \* no entry in a map under a key

VARIABLES
  now,           \* the system clock
  reserveMu,     \* the thread that holds reserve_mu_, or NoWriter
  reservations,  \* reservations_: path -> Reservation
  pins,          \* pins_: epoch -> PinState
  call           \* the tool call each thread is in

toolVars == <<walVars, now, reserveMu, reservations, pins, call>>

Overrides == {"unset", "pin", "unpin"}
Reservation == [agent : Agents, expires : 0..(Wrap - 1), epoch : Epochs]
PinState == [voters : SUBSET Agents, override : Overrides, updated : Nat]

\* at, expires, conflict and epoch are locals of cc.reserve_path: its now_us,
\* expires_us, the holder its conflict names, and the epoch of its clack.
ReserveCall == [verb : {"RESERVE"}, agent : Agents, subject : Paths, at : Nat,
                expires : 0..(Wrap - 1), conflict : Agents \cup {NoAgent}, epoch : Epochs]
AuditCall == [verb : {"RELEASE"}, agent : Agents, subject : Paths]
               \cup [verb : {"OBSERVE", "DIRECT"}, agent : Agents, subject : Pinnable]

\* The clicks of the calls.
ToolClicks == AuditCall \cup [verb : {"RESERVE"}, agent : Agents, subject : Paths]

ASSUME ToolsAssumption ==
  /\ MaxPins \in Nat /\ DropShare \in Nat \ {0}
  /\ MaxClock \in Nat /\ Wrap \in Nat \ {0}
  /\ Ttls \subseteq Nat /\ Pinnable \subseteq Nat
  /\ ToolClicks \subseteq Clicks
  /\ NoCall \notin ReserveCall \cup AuditCall
  /\ NoEntry \notin Reservation \cup PinState

ToolsTypeOK ==
  /\ TypeOK
  /\ now \in 0..MaxClock
  /\ reserveMu \in Writers \cup {NoWriter}
  /\ reservations \in [Paths -> Reservation \cup {NoEntry}]
  /\ pins \in [Pinnable -> PinState \cup {NoEntry}]
  /\ call \in [Writers -> ReserveCall \cup AuditCall \cup {NoCall}]

NoReservations == [p \in Paths |-> NoEntry]
NoPins == [e \in Pinnable |-> NoEntry]
NoCalls == [w \in Writers |-> NoCall]

ToolsInit ==
  /\ Init
  /\ now = 0
  /\ reserveMu = NoWriter
  /\ reservations = NoReservations
  /\ pins = NoPins
  /\ call = NoCalls

\* The calls that change their map first and append afterwards.
AuditVerbs == {"RELEASE", "OBSERVE", "DIRECT"}

\* The click a call appends.
ClickOf(verb, agent, subject) == [verb |-> verb, agent |-> agent, subject |-> subject]

In(w, verbs) == call[w] # NoCall /\ call[w].verb \in verbs

\* A thread that may start a call.  Bound: MaxEpoch leaves an epoch for every
\* call that has yet to append.
Free(w) ==
  /\ phase = "serving"
  /\ call[w] = NoCall
  /\ counter + Cardinality({v \in Writers : In(v, AuditVerbs) /\ pc[v] = "idle"})
       < MaxEpoch

Return(w) == call' = [call EXCEPT ![w] = NoCall]

-----------------------------------------------------------------------------
(* cc.reserve_path *)

\* The holder the clobber check reports: another agent with time left.
ConflictFor(a, p) ==
  LET r == reservations[p] IN
  IF r # NoEntry /\ r.agent # a /\ r.expires > now THEN r.agent ELSE NoAgent

\* A faulty variant: as if the sum could not overflow.
ExpiryUnwrapped(ttl) == now + ttl

\* now_us + ttl_ms * 1000 in 64 bits: a huge ttl is in the past.
Expiry(ttl) == (now + ttl) % Wrap

ReserveWith(w, a, p, ttl) ==
  /\ Free(w)
  /\ reserveMu = NoWriter
  /\ call' = [call EXCEPT ![w] =
       [verb |-> "RESERVE", agent |-> a, subject |-> p, at |-> now,
        expires |-> Expiry(ttl), conflict |-> ConflictFor(a, p),
        epoch |-> counter + 1]]
  /\ Begin(w, ClickOf("RESERVE", a, p))
  /\ UNCHANGED <<now, reservations, pins>>

\* A faulty variant: the lock_guard scoped to the clobber check.
ReserveUnlocked(w, a, p, ttl) ==
  ReserveWith(w, a, p, ttl) /\ UNCHANGED reserveMu

\* Lock, clock, clobber check, and into append() with the mutex held.
Reserve(w, a, p, ttl) == ReserveWith(w, a, p, ttl) /\ reserveMu' = w

\* Faulty variants: the error return taken with the mutex held; the append's
\* result ignored.
ReserveFailsLocked(w) ==
  /\ In(w, {"RESERVE"})
  /\ PutFails(w)
  /\ Return(w)
  /\ UNCHANGED <<now, reserveMu, reservations, pins>>

ReserveFailsIgnored(w) ==
  /\ In(w, {"RESERVE"})
  /\ PutFails(w)
  /\ UNCHANGED <<now, reserveMu, reservations, pins, call>>

\* The append fails: no entry, the lock_guard unlocks.
ReserveFails(w) ==
  /\ In(w, {"RESERVE"})
  /\ PutFails(w)
  /\ reserveMu' = NoWriter
  /\ Return(w)
  /\ UNCHANGED <<now, reservations, pins>>

\* The append is through: the entry, whoever held the path before.
ReserveDone(w) ==
  /\ In(w, {"RESERVE"})
  /\ pc[w] = "idle"
  /\ LET c == call[w] IN
       reservations' = [reservations EXCEPT ![c.subject] =
         [agent |-> c.agent, expires |-> c.expires, epoch |-> c.epoch]]
  /\ reserveMu' = NoWriter
  /\ Return(w)
  /\ UNCHANGED <<walVars, now, pins>>

-----------------------------------------------------------------------------
(* cc.release_path *)

\* The entry goes, whoever made it; the mutex is free again at once.
Release(w, a, p) ==
  /\ Free(w)
  /\ reserveMu = NoWriter
  /\ reservations' = [reservations EXCEPT ![p] = NoEntry]
  /\ call' = [call EXCEPT ![w] = ClickOf("RELEASE", a, p)]
  /\ UNCHANGED <<walVars, now, reserveMu, pins>>

-----------------------------------------------------------------------------
(* cc.vote_pin, cc.pin_override *)

Pinned == {e \in Pinnable : pins[e] # NoEntry}
Evictable == {e \in Pinned : pins[e].override = "unset"}

\* e was updated before d; ties go to the smaller epoch.
Staler(e, d) == \/ pins[e].updated < pins[d].updated
                \/ pins[e].updated = pins[d].updated /\ e < d

Stalest(n, S) == {e \in S : Cardinality({d \in S : Staler(d, e)}) < n}

\* A faulty variant: operator overrides are evicted too.
EvictedAny ==
  IF Cardinality(Pinned) < MaxPins THEN {}
  ELSE Stalest(Cardinality(Pinned) \div DropShare, Pinned)

\* evict_pins_if_over_cap: the entries it drops.
Evicted ==
  IF Cardinality(Pinned) < MaxPins THEN {}
  ELSE Stalest(Cardinality(Pinned) \div DropShare, Evictable)

\* pins_[e] after the eviction, default-constructed when it is not there.
PinAt(e) ==
  IF pins[e] = NoEntry \/ e \in Evicted
    THEN [voters |-> {}, override |-> "unset", updated |-> 0] ELSE pins[e]

SetPin(e, voters, override) ==
  pins' = [d \in Pinnable |->
    IF d = e THEN [voters |-> voters, override |-> override, updated |-> now]
    ELSE IF d \in Evicted THEN NoEntry ELSE pins[d]]

\* The critical section of cc.vote_pin.
VotePin(w, a, e, unvote) ==
  /\ Free(w)
  /\ LET pin == PinAt(e) IN
       SetPin(e, IF unvote THEN pin.voters \ {a} ELSE pin.voters \cup {a},
              pin.override)
  /\ call' = [call EXCEPT ![w] = ClickOf("OBSERVE", a, e)]
  /\ UNCHANGED <<walVars, now, reserveMu, reservations>>

\* The critical section of cc.pin_override.
PinOverride(w, a, e, override) ==
  /\ Free(w)
  /\ SetPin(e, PinAt(e).voters, override)
  /\ call' = [call EXCEPT ![w] = ClickOf("DIRECT", a, e)]
  /\ UNCHANGED <<walVars, now, reserveMu, reservations>>

-----------------------------------------------------------------------------
(* The audit clack of a release, a vote or an override *)

Audit(w) ==
  /\ In(w, AuditVerbs)
  /\ Begin(w, call[w])
  /\ UNCHANGED <<now, reserveMu, reservations, pins, call>>

\* The call returns with the append, rejected, failed or not: the vote, the
\* override or the release stands, with or without its clack.
AuditDone(w) ==
  /\ In(w, AuditVerbs)
  /\ \/ PutFails(w) \/ Publish(w)
     \/ pc[w] = "idle" /\ call[w] \in Malformed /\ UNCHANGED walVars
  /\ Return(w)
  /\ UNCHANGED <<now, reserveMu, reservations, pins>>

\* The other steps of append(), the same for every call.
Appending(w) ==
  /\ \/ Put(w) \/ EnterListeners(w) \/ LeaveListeners(w)
     \/ In(w, {"RESERVE"}) /\ Publish(w)
  /\ UNCHANGED <<now, reserveMu, reservations, pins, call>>

-----------------------------------------------------------------------------

Tick == now < MaxClock /\ now' = now + 1
        /\ UNCHANGED <<walVars, reserveMu, reservations, pins, call>>

\* Reservations and pins live in memory only.
Down ==
  /\ Stop
  /\ reserveMu' = NoWriter
  /\ reservations' = NoReservations
  /\ pins' = NoPins
  /\ call' = NoCalls
  /\ UNCHANGED now

StartCall(w) ==
  \/ \E a \in Agents, p \in Paths :
       (\E ttl \in Ttls : Reserve(w, a, p, ttl)) \/ Release(w, a, p)
  \/ \E a \in Agents, e \in Pinnable :
       \/ \E unvote \in BOOLEAN : VotePin(w, a, e, unvote)
       \/ \E override \in Overrides : PinOverride(w, a, e, override)

InCall(w) ==
  Appending(w) \/ ReserveFails(w) \/ ReserveDone(w) \/ Audit(w) \/ AuditDone(w)

ToolsNext ==
  \/ (Open \/ Recover) /\ UNCHANGED <<now, reserveMu, reservations, pins, call>>
  \/ Down \/ Tick
  \/ \E w \in Writers : StartCall(w) \/ InCall(w)

ToolsSpec == ToolsInit /\ [][ToolsNext]_toolVars

\* A request thread inside a call is scheduled again and again.
FairToolsSpec == ToolsSpec /\ \A w \in Writers : WF_toolVars(InCall(w))

-----------------------------------------------------------------------------
(* Properties *)

\* Nobody takes a path over unawares: when an entry replaces one of another
\* agent that had time left when the call looked, the call reports that agent
\* as its conflict.  It needs reserve_mu_ from the check to the update.
NoSilentTakeover ==
  [][\A w \in Writers : In(w, {"RESERVE"}) /\ pc[w] = "idle"
        /\ call'[w] = NoCall /\ phase' = "serving" =>
       LET held == reservations[call[w].subject] IN
         held # NoEntry /\ held.agent # call[w].agent /\ held.expires > call[w].at =>
           call[w].conflict = held.agent]_toolVars

\* An entry is backed by its RESERVE clack: "the WAL carries the audit trail via
\* RESERVE/RELEASE clacks" (mcp_server.hpp:856).
ReservationLogged ==
  \A p \in Paths : LET r == reservations[p] IN r # NoEntry =>
    store[r.epoch] = ClickOf("RESERVE", r.agent, p)

\* Two agents that reserve one path after one another: the entry is the one of
\* the newer clack, so the log and the index name the same holder.
NewestReservation ==
  \A p \in Paths, a \in acked :
    /\ reservations[p] # NoEntry
    /\ a.click.verb = "RESERVE" /\ a.click.subject = p
    /\ ~\E w \in Writers : In(w, {"RESERVE"}) /\ call[w].epoch = a.epoch
    => reservations[p].epoch >= a.epoch

\* "Preserve entries with an active manual_override" (mcp_server.hpp:888): only
\* an override of the same epoch, or the end of the process, undoes one.
OverridesStay ==
  [][\A e \in Pinned : pins[e].override # "unset" /\ phase' # "down" =>
       /\ pins'[e] # NoEntry
       /\ pins'[e].override # pins[e].override =>
            \E w \in Writers : /\ call[w] = NoCall /\ call'[w] # NoCall
                               /\ call'[w].verb = "DIRECT" /\ call'[w].subject = e
    ]_toolVars

\* "Bound the pin map" (mcp_server.hpp:884): at the cap it only grows when every
\* entry is an operator's override.
PinsBounded ==
  [][Cardinality(Pinned') > Cardinality(Pinned) /\ Cardinality(Pinned) >= MaxPins =>
       Evictable = {}]_toolVars

\* An eviction makes room, and never with an operator's override.
EvictionKeeps == OverridesStay /\ PinsBounded

\* Every call returns and gives its mutex back, although cc.reserve_path waits
\* for listeners_mu_ while it holds reserve_mu_ and a put may fail in between.
CallsReturn ==
  \A w \in Writers :
    call[w] # NoCall \/ reserveMu = w ~> call[w] = NoCall /\ reserveMu # w
=============================================================================

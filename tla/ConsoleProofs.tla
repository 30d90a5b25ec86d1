--------------------------- MODULE ConsoleProofs ---------------------------
(***************************************************************************)
(* Theorems about Console, for any writers, clicks and length of the log:  *)
(* one connection at a time, and a timeline that shows the log.            *)
(***************************************************************************)
EXTENDS Console, WalProofs

-----------------------------------------------------------------------------
(* The order of a snapshot *)

\* The place of an epoch among others.
Rank(S, e) == Cardinality({d \in S : d < e})

\* A smaller epoch has a smaller rank.
LEMMA RankGrows ==
  ASSUME NEW S \in SUBSET Epochs, NEW d \in S, NEW e \in S, d < e
  PROVE  Rank(S, d) < Rank(S, e)
<1> DEFINE low == {x \in S : x < d}
           high == {x \in S : x < e}
<1>1. \A x \in S : x \in Nat
  BY WalAssumption DEF Epochs
<1>2. low \cup {d} \in SUBSET high /\ d \notin low
  BY <1>1
<1>3. IsFiniteSet(low) /\ Cardinality(low) \in Nat
      /\ IsFiniteSet(high) /\ Cardinality(high) \in Nat
  BY EpochsFinite
<1> HIDE DEF low, high
<1>4. Cardinality(low \cup {d}) = Cardinality(low) + 1
  BY <1>2, <1>3, FS_AddElement
<1>5. Cardinality(low \cup {d}) <= Cardinality(high)
  BY <1>2, <1>3, FS_Subset
<1>6. Cardinality(low) < Cardinality(high)
  BY <1>3, <1>4, <1>5
<1>7. QED
  BY <1>6 DEF Rank, low, high

\* Two epochs do not share a rank.
LEMMA RankUnique ==
  ASSUME NEW S \in SUBSET Epochs, NEW d \in S, NEW e \in S, Rank(S, d) = Rank(S, e)
  PROVE  d = e
<1>1. d \in Nat /\ e \in Nat
  BY WalAssumption DEF Epochs
<1>2. Rank(S, d) \in Nat /\ Rank(S, e) \in Nat
  BY FewerBelow DEF Rank
<1>3. ~(d < e) /\ ~(e < d)
  BY <1>2, RankGrows
<1>4. QED
  BY <1>1, <1>3

\* After an epoch with others above it comes the one of the next rank.
LEMMA NextRank ==
  ASSUME NEW S \in SUBSET Epochs, NEW e \in S, Rank(S, e) + 1 < Cardinality(S)
  PROVE  \E f \in S : Rank(S, f) = Rank(S, e) + 1
<1> DEFINE low == {x \in S : x < e}
           above == {x \in S : e < x}
<1>0. \A x \in S : x \in Nat
  BY WalAssumption DEF Epochs
<1>1. IsFiniteSet(low) /\ Cardinality(low) \in Nat /\ e \notin low
  BY <1>0, EpochsFinite
<1>2. Cardinality(low \cup {e}) = Cardinality(low) + 1
  <2> HIDE DEF low
  <2>1. QED
    BY <1>1, FS_AddElement
<1>3. above # {}
  <2>1. ASSUME above = {} PROVE low \cup {e} = S
    BY <1>0, <2>1
  <2>2. Cardinality(low \cup {e}) # Cardinality(S)
    <3>1. Cardinality(S) \in Nat
      BY EpochsFinite
    <3> HIDE DEF low
    <3>2. QED
      BY <1>1, <1>2, <3>1 DEF Rank, low
  <2>3. QED
    BY <2>1, <2>2
<1>4. above \in SUBSET Epochs
  OBVIOUS
<1>5. PICK f \in above : \A x \in above : ~(x < f)
  <2> HIDE DEF above
  <2>1. QED
    BY <1>3, <1>4, SmallestMember
<1>6. {x \in S : x < f} = low \cup {e}
  BY <1>0, <1>5
<1>7. Rank(S, f) = Rank(S, e) + 1
  BY <1>2, <1>6 DEF Rank
<1>8. QED
  BY <1>7

\* Every rank is taken.
LEMMA RankOnto ==
  ASSUME NEW S \in SUBSET Epochs, NEW i \in Nat, i < Cardinality(S)
  PROVE  \E e \in S : Rank(S, e) = i
<1> DEFINE missing == {j \in Nat : j < Cardinality(S) /\ \A e \in S : Rank(S, e) # j}
<1> SUFFICES ASSUME missing # {} PROVE FALSE
  OBVIOUS
<1>0. Cardinality(S) \in Nat /\ IsFiniteSet(S)
  BY EpochsFinite
<1>1. PICK j \in missing : \A k \in missing : <<k, j>> \notin OpToRel(<, Nat)
  <2>1. missing \subseteq Nat
    OBVIOUS
  <2> HIDE DEF missing
  <2>2. QED
    BY <2>1, NatLessThanWellFounded, WFMin, Zenon
<1>2. \A k \in missing : ~(k < j)
  BY <1>1 DEF OpToRel
<1>3. CASE j = 0
  <2>1. S # {}
    BY <1>0, <1>3, FS_EmptySet
  <2>2. PICK e \in S : \A d \in S : ~(d < e)
    BY <2>1, SmallestMember
  <2>3. {d \in S : d < e} = {}
    BY <2>2
  <2>4. Rank(S, e) = 0
    BY <2>3, FS_EmptySet DEF Rank
  <2>5. QED
    BY <1>3, <2>4
<1>4. CASE j # 0
  <2>1. j - 1 \in Nat /\ j - 1 < j /\ j - 1 < Cardinality(S) /\ j - 1 \notin missing
    BY <1>0, <1>2, <1>4
  <2>2. PICK e \in S : Rank(S, e) = j - 1
    BY <2>1
  <2>3. Rank(S, e) + 1 < Cardinality(S) /\ Rank(S, e) + 1 = j
    BY <2>2
  <2>4. QED
    BY <2>3, NextRank
<1>5. QED
  BY <1>3, <1>4

\* A snapshot in the order of its epochs lists each of its rows once.
LEMMA AscendingLists ==
  ASSUME NEW rows \in SUBSET Epochs
  PROVE  /\ Ascending(rows) \in Seq(Epochs)
         /\ Len(Ascending(rows)) = Cardinality(rows)
         /\ {Ascending(rows)[i] : i \in DOMAIN Ascending(rows)} = rows
<1> DEFINE n == Cardinality(rows)
           sorted == Ascending(rows)
<1>0. n \in Nat
  BY EpochsFinite
<1>1. DOMAIN sorted = 1..n
  BY DEF Ascending
<1>2. ASSUME NEW i \in 1..n
      PROVE  sorted[i] \in rows /\ Rank(rows, sorted[i]) = i - 1
  <2>1. \E e \in rows : Rank(rows, e) = i - 1
    BY <1>0, RankOnto
  <2>2. sorted[i] = CHOOSE e \in rows : Rank(rows, e) = i - 1
    BY DEF Ascending, Rank
  <2> HIDE DEF sorted, n
  <2>3. QED
    BY <2>1, <2>2
<1>3. ASSUME NEW e \in rows PROVE \E i \in 1..n : sorted[i] = e
  <2>1. Rank(rows, e) \in Nat /\ Rank(rows, e) < n
    BY FewerBelow DEF Rank
  <2>2. Rank(rows, e) + 1 \in 1..n
    BY <1>0, <2>1
  <2>3. sorted[Rank(rows, e) + 1] \in rows
        /\ Rank(rows, sorted[Rank(rows, e) + 1]) = Rank(rows, e)
    BY <1>2, <2>1, <2>2
  <2>4. sorted[Rank(rows, e) + 1] = e
    BY <2>3, RankUnique
  <2>5. QED
    BY <2>2, <2>4
<1>4. sorted \in [1..n -> Epochs]
  <2> DEFINE pick(i) == CHOOSE e \in rows : Cardinality({d \in rows : d < e}) = i - 1
  <2>1. sorted = [i \in 1..n |-> pick(i)]
    BY DEF Ascending
  <2>2. \A i \in 1..n : pick(i) \in Epochs
    BY <1>2 DEF Ascending
  <2> HIDE DEF sorted, n, pick
  <2>3. QED
    BY <2>1, <2>2
<1>5. {sorted[i] : i \in DOMAIN sorted} = rows
  <2> HIDE DEF sorted, n
  <2>1. QED
    BY <1>1, <1>2, <1>3
<1> HIDE DEF sorted, n
<1>6. sorted \in Seq(Epochs) /\ Len(sorted) = n
  BY <1>0, <1>1, <1>4
<1>7. QED
  BY <1>5, <1>6 DEF sorted, n
-----------------------------------------------------------------------------
(* The inductive invariant: the connection *)

\* Whatever socket is in use or has yet to be noticed lost is the current one.
OneSocket == \A s \in Sockets : socket[s] \notin {"free", "closed"} => s = ws

\* A pending reconnection is beside no live socket.
TimerAlone == timer => Live = {}

\* `connected` is about the current socket.
ConnectedIsUp == connected => ws # 0 /\ socket[ws] \in {"open", "lost"}

\* A snapshot is read for a client only.
ReadsForClients == \A s \in Sockets : reading[s] # NotReading => s \in clients

ConsoleInv ==
  ConsoleTypeOK /\ OneSocket /\ TimerAlone /\ ConnectedIsUp /\ ReadsForClients

-----------------------------------------------------------------------------
(* The inductive invariant: the timeline *)

\* The rows that have been broadcast, or that a snapshot brought instead.
Shown ==
  {e \in Stored : \A w \in Writers : pc[w] \in {"lock", "listen"} => epoch[w] # e}

\* With the clacks on their way, this timeline shows these rows, each once.
Current(line, frames, rows) ==
  /\ \A i \in DOMAIN frames : frames[i].type = "clack"
  /\ {line[i] : i \in DOMAIN line} \cup {frames[i].epoch : i \in DOMAIN frames} = rows
  /\ Len(line) + Len(frames) = Cardinality(rows)

\* A snapshot is on its way, and with the clacks behind it it shows these rows.
Renewed(frames, rows) ==
  \E k \in DOMAIN frames :
    LET after == {i \in DOMAIN frames : i > k} IN
      /\ frames[k].type = "snapshot"
      /\ \A i \in after : frames[i].type = "clack"
      /\ frames[k].rows \cup {frames[i].epoch : i \in after} = rows
      /\ Cardinality(frames[k].rows) + (Len(frames) - k) = Cardinality(rows)

\* A console whose subscription was answered is or will be up to date.
UpToDate(s) ==
  socket[s] = "open" /\ s \notin asked /\ reading[s] = NotReading =>
    Current(timeline, wire[s], Shown) \/ Renewed(wire[s], Shown)

\* What was read for a snapshot has all that has been broadcast.
ReadsAreFresh ==
  \A s \in Sockets : reading[s] # NotReading =>
    Shown \subseteq reading[s] /\ reading[s] \subseteq Stored

\* The log fits a snapshot.
Fits == Cardinality(Stored) <= SnapshotLimit

TimelineShows == ReadsAreFresh /\ \A s \in Sockets : UpToDate(s)

TimelineInv == ~crossed /\ Fits => TimelineShows

-----------------------------------------------------------------------------
(* One connection *)

\* A console reads the log and leaves it alone.
LEMMA ConsoleStepIsWalStep == [ConsoleNext]_consoleVars => [Next]_walVars
  BY DEF ConsoleNext, consoleVars, Next, Advance, HubStops, Start, BrowserStep,
         TimerFires, OnOpen, OnClose, Receive, Accept, HubStep, ReadSnapshot,
         SendSnapshot, Break, Post, Broadcast, Skip

\* Every behaviour with a console is one of the log.
LEMMA ConsoleImplementsWal == ConsoleSpec => Spec
<1>1. ConsoleInit => Init
  BY DEF ConsoleInit
<1>2. QED
  BY <1>1, ConsoleStepIsWalStep, PTL DEF ConsoleSpec, Spec

\* With no live socket, connect() keeps the invariant.
LEMMA ConnectKeeps ==
  ASSUME ConsoleInv, TypeOK', crossed' \in BOOLEAN, NEW s \in Sockets, Live = {}, Connect(s),
         UNCHANGED <<timeline, server>>
  PROVE  ConsoleInv'
<1>1. /\ socket' = [d \in Sockets |-> IF d = s THEN "connecting" ELSE "free"]
      /\ ws' = s /\ timer' = FALSE /\ connected' = FALSE
      /\ UNCHANGED <<timeline, clients, asked, reading, wire>>
  BY DEF Connect, server
<1>2. clients = {}
  BY DEF ConsoleInv, ConsoleTypeOK, Live
<1>3. ConsoleTypeOK'
  BY <1>1, <1>2 DEF ConsoleInv, ConsoleTypeOK
<1>4. OneSocket' /\ TimerAlone' /\ ConnectedIsUp' /\ ReadsForClients'
  BY <1>1, <1>2 DEF ConsoleInv, OneSocket, TimerAlone, ConnectedIsUp, ReadsForClients
<1>5. QED
  BY <1>3, <1>4 DEF ConsoleInv

\* The end of connections the browser has keeps the invariant.
LEMMA GoneKeeps ==
  ASSUME ConsoleInv, TypeOK', crossed' \in BOOLEAN, NEW gone \in SUBSET Live, Gone(gone)
  PROVE  ConsoleInv'
<1>1. /\ socket \in [Sockets -> {"free", "connecting", "accepted", "open", "lost", "closed"}]
      /\ \A s \in gone : s \in Sockets /\ socket[s] \in {"connecting", "accepted", "open"}
      /\ UNCHANGED <<ws, timer, connected, timeline>>
      /\ clients' = clients \ gone /\ asked' = asked \ gone
      /\ \A s \in Sockets : s \in gone =>
           socket'[s] = "lost" /\ reading'[s] = NotReading /\ wire'[s] = <<>>
      /\ \A s \in Sockets : s \notin gone =>
           socket'[s] = socket[s] /\ reading'[s] = reading[s] /\ wire'[s] = wire[s]
  BY DEF ConsoleInv, ConsoleTypeOK, Live, Gone
<1>2. ConsoleTypeOK'
  <2>1. socket' \in [Sockets -> {"free", "connecting", "accepted", "open", "lost", "closed"}]
    BY <1>1 DEF Gone
  <2>2. reading' \in [Sockets -> (SUBSET Epochs) \cup {{NoClick}}]
    <3> DEFINE values == (SUBSET Epochs) \cup {{NoClick}}
    <3>1. reading \in [Sockets -> values] /\ NotReading \in values
      BY DEF ConsoleInv, ConsoleTypeOK, NotReading
    <3> HIDE DEF values
    <3>2. reading' \in [Sockets -> values]
      BY <3>1 DEF Gone
    <3>3. QED
      BY <3>2 DEF values
  <2>3. wire' \in [Sockets -> Seq(Frame)]
    BY DEF ConsoleInv, ConsoleTypeOK, Gone
  <2>4. clients' = {s \in Sockets : socket'[s] \in {"accepted", "open"}}
    BY <1>1 DEF ConsoleInv, ConsoleTypeOK
  <2>5. asked' \subseteq clients'
    BY <1>1 DEF ConsoleInv, ConsoleTypeOK
  <2>6. QED
    BY <1>1, <2>1, <2>2, <2>3, <2>4, <2>5 DEF ConsoleInv, ConsoleTypeOK
<1>3. OneSocket'
  BY <1>1 DEF ConsoleInv, OneSocket
<1>4. TimerAlone'
  BY <1>1 DEF ConsoleInv, TimerAlone, Live
<1>5. ConnectedIsUp'
  <2>1. ws \in Sockets \cup {0}
    BY DEF ConsoleInv, ConsoleTypeOK
  <2>2. QED
    BY <1>1, <2>1 DEF ConsoleInv, ConnectedIsUp
<1>6. ReadsForClients'
  BY <1>1 DEF ConsoleInv, ReadsForClients
<1>7. QED
  BY <1>2, <1>3, <1>4, <1>5, <1>6 DEF ConsoleInv

\* Frames added to the wires of clients keep the invariant.
LEMMA SendKeeps ==
  ASSUME ConsoleInv, TypeOK', crossed' \in BOOLEAN, UNCHANGED <<browser, clients>>,
         wire' \in [Sockets -> Seq(Frame)], asked' \subseteq asked,
         reading' \in [Sockets -> (SUBSET Epochs) \cup {{NoClick}}],
         \A s \in Sockets : reading'[s] # NotReading => s \in clients
  PROVE  ConsoleInv'
  BY DEF ConsoleInv, ConsoleTypeOK, OneSocket, TimerAlone, ConnectedIsUp,
         ReadsForClients, browser, Live

\* What the browser does with a frame of the wire keeps the invariant.
LEMMA ReceiveKeeps ==
  ASSUME ConsoleInv, TypeOK', crossed' \in BOOLEAN, NEW s \in Sockets, Receive(s)
  PROVE  ConsoleInv'
<1> DEFINE frame == Head(wire[s])
<1>0. wire \in [Sockets -> Seq(Frame)] /\ wire[s] \in Seq(Frame) /\ wire[s] # <<>>
      /\ timeline \in Seq(Epochs)
  BY DEF ConsoleInv, ConsoleTypeOK, Receive
<1>1. frame \in Frame /\ Tail(wire[s]) \in Seq(Frame)
  BY <1>0
<1>2. CASE frame.type = "clack"
  <2>1. frame.epoch \in Epochs
    BY <1>1, <1>2 DEF Frame
  <2>2. timeline' \in Seq(Epochs)
    BY <1>0, <1>2, <2>1 DEF Receive
  <2>3. QED
    BY <1>0, <1>1, <2>2 DEF Receive, ConsoleInv, ConsoleTypeOK, OneSocket, TimerAlone,
                           ConnectedIsUp, ReadsForClients, Live
<1>3. CASE frame.type # "clack"
  <2>1. frame.rows \in SUBSET Epochs
    BY <1>1, <1>3 DEF Frame
  <2>2. timeline' \in Seq(Epochs)
    BY <1>3, <2>1, AscendingLists DEF Receive
  <2>3. QED
    BY <1>0, <1>1, <2>2 DEF Receive, ConsoleInv, ConsoleTypeOK, OneSocket, TimerAlone,
                           ConnectedIsUp, ReadsForClients, Live
<1>4. QED
  BY <1>2, <1>3

\* A step that is not the console's keeps the invariant.
LEMMA AloneKeeps ==
  ASSUME ConsoleInv, TypeOK', crossed' \in BOOLEAN, UNCHANGED <<browser, server>>
  PROVE  ConsoleInv'
  BY DEF ConsoleInv, ConsoleTypeOK, OneSocket, TimerAlone, ConnectedIsUp,
         ReadsForClients, browser, server, Live

\* The console's invariant holds in any host, whatever breaks.
LEMMA ConsoleInvInductive == ConsoleSpec => []ConsoleInv
<1>1. ConsoleInit => ConsoleInv
  <2> SUFFICES ASSUME ConsoleInit PROVE ConsoleInv
    OBVIOUS
  <2>1. TypeOK
    BY WalAssumption DEF ConsoleInit, Init, TypeOK, Epochs
  <2>2. ConsoleTypeOK
    <3> DEFINE values == (SUBSET Epochs) \cup {{NoClick}}
    <3>1. NotReading \in values
      BY DEF NotReading
    <3> HIDE DEF values
    <3>2. reading \in [Sockets -> values]
      BY <3>1 DEF ConsoleInit
    <3>3. wire \in [Sockets -> Seq(Frame)] /\ timeline \in Seq(Epochs)
      BY DEF ConsoleInit
    <3>4. QED
      BY <2>1, <3>2, <3>3 DEF ConsoleInit, ConsoleTypeOK, values
  <2>3. QED
    BY <2>2 DEF ConsoleInit, ConsoleInv, OneSocket, TimerAlone, ConnectedIsUp,
                ReadsForClients, Live
<1>2. ASSUME TypeInv, TypeInv', ConsoleInv, [ConsoleNext]_consoleVars
      PROVE  ConsoleInv'
  <2>0. TypeOK /\ TypeOK' /\ crossed' \in BOOLEAN
    <3>1. crossed \in BOOLEAN
      BY <1>2 DEF ConsoleInv, ConsoleTypeOK
    <3>2. crossed' = crossed \/ crossed' \in BOOLEAN
      BY <1>2 DEF ConsoleNext, consoleVars, HubStops, Start, BrowserStep, TimerFires, OnOpen,
                  OnClose, Receive, Accept, HubStep, ReadSnapshot, SendSnapshot, Break, Post,
                  Broadcast, Skip
    <3>3. QED
      BY <1>2, <3>1, <3>2 DEF TypeInv
  <2>1. ASSUME UNCHANGED <<browser, server>> PROVE ConsoleInv'
    BY <1>2, <2>0, <2>1, AloneKeeps
  <2>2. CASE HubStops
    <3>1. {s \in Sockets : socket[s] \in {"accepted", "open"}} \in SUBSET Live
      BY DEF Live
    <3>2. QED
      BY <1>2, <2>0, <2>2, <3>1, GoneKeeps DEF HubStops
  <2>3. ASSUME NEW s \in Sockets, Start(s) PROVE ConsoleInv'
    <3>1. Live = {}
      BY <1>2, <2>3 DEF Start, Live, Sockets, ConsoleInv, OneSocket
    <3>2. QED
      BY <1>2, <2>0, <2>3, <3>1, ConnectKeeps DEF Start
  <2>4. ASSUME NEW s \in Sockets, TimerFires(s) PROVE ConsoleInv'
    <3>1. Live = {}
      BY <1>2, <2>4 DEF TimerFires, ConsoleInv, TimerAlone
    <3>2. QED
      BY <1>2, <2>0, <2>4, <3>1, ConnectKeeps DEF TimerFires
  <2>5. ASSUME NEW s \in Sockets, OnOpen(s) PROVE ConsoleInv'
    <3>1. s = ws /\ s # 0 /\ s \in clients
      BY <1>2, <2>5 DEF OnOpen, Sockets, ConsoleInv, ConsoleTypeOK, OneSocket
    <3>2. ConsoleTypeOK'
      BY <1>2, <2>0, <2>5, <3>1 DEF OnOpen, ConsoleInv, ConsoleTypeOK
    <3>3. OneSocket' /\ TimerAlone' /\ ConnectedIsUp' /\ ReadsForClients'
      BY <1>2, <2>5, <3>1 DEF OnOpen, ConsoleInv, ConsoleTypeOK, OneSocket, TimerAlone,
                              ConnectedIsUp, ReadsForClients, Live
    <3>4. QED
      BY <3>2, <3>3 DEF ConsoleInv
  <2>6. ASSUME NEW s \in Sockets, OnClose(s) PROVE ConsoleInv'
    <3>1. Live' = {}
      BY <1>2, <2>6 DEF OnClose, ConsoleInv, ConsoleTypeOK, OneSocket, Live
    <3>2. ConsoleTypeOK'
      BY <1>2, <2>0, <2>6 DEF OnClose, ConsoleInv, ConsoleTypeOK, server
    <3>3. OneSocket' /\ TimerAlone' /\ ConnectedIsUp' /\ ReadsForClients'
      BY <1>2, <2>6, <3>1 DEF OnClose, ConsoleInv, ConsoleTypeOK, OneSocket, TimerAlone,
                              ConnectedIsUp, ReadsForClients, server
    <3>4. QED
      BY <3>2, <3>3 DEF ConsoleInv
  <2>7. ASSUME NEW s \in Sockets, Receive(s) PROVE ConsoleInv'
    BY <1>2, <2>0, <2>7, ReceiveKeeps
  <2>8. ASSUME NEW s \in Sockets, Accept(s) PROVE ConsoleInv'
    <3>1. ConsoleTypeOK'
      BY <1>2, <2>0, <2>8 DEF Accept, ConsoleInv, ConsoleTypeOK
    <3>2. OneSocket' /\ TimerAlone' /\ ReadsForClients'
      BY <1>2, <2>8 DEF Accept, ConsoleInv, ConsoleTypeOK, OneSocket, TimerAlone,
                        ReadsForClients, Live
    <3>3. ConnectedIsUp'
      BY <1>2, <2>8 DEF Accept, ConsoleInv, ConsoleTypeOK, OneSocket, ConnectedIsUp
    <3>4. QED
      BY <3>1, <3>2, <3>3 DEF ConsoleInv
  <2>9. ASSUME NEW s \in Sockets, ReadSnapshot(s) PROVE ConsoleInv'
    <3> DEFINE values == (SUBSET Epochs) \cup {{NoClick}}
               rows == {e \in Stored : Cardinality({d \in Stored : d < e}) < SnapshotLimit}
    <3>1. rows \in values /\ reading \in [Sockets -> values]
      BY <1>2 DEF Stored, ConsoleInv, ConsoleTypeOK
    <3>2. reading' = [reading EXCEPT ![s] = rows]
      BY <2>9 DEF ReadSnapshot
    <3> HIDE DEF rows, values
    <3>3. reading' \in [Sockets -> values]
          /\ \A t \in Sockets : t # s => reading'[t] = reading[t]
      BY <3>1, <3>2
    <3>4. UNCHANGED <<browser, clients, wire>> /\ asked' = asked \ {s} /\ s \in asked
      BY <2>9 DEF ReadSnapshot
    <3>5. asked' \subseteq asked /\ s \in clients /\ wire' \in [Sockets -> Seq(Frame)]
      BY <1>2, <3>4 DEF ConsoleInv, ConsoleTypeOK
    <3>6. \A t \in Sockets : reading'[t] # NotReading => t \in clients
      BY <1>2, <3>3, <3>5 DEF ConsoleInv, ReadsForClients
    <3>7. QED
      BY <1>2, <2>0, <3>3, <3>4, <3>5, <3>6, SendKeeps DEF values
  <2>10. ASSUME NEW s \in Sockets, SendSnapshot(s) PROVE ConsoleInv'
    <3> DEFINE frame == [type |-> "snapshot", rows |-> reading[s]]
               values == (SUBSET Epochs) \cup {{NoClick}}
    <3>1. wire \in [Sockets -> Seq(Frame)] /\ reading \in [Sockets -> values]
      BY <1>2 DEF ConsoleInv, ConsoleTypeOK
    <3>2. frame \in Frame
      BY <2>10, <3>1 DEF SendSnapshot, Frame, NotReading
    <3>3. /\ wire' = [wire EXCEPT ![s] = Append(@, frame)]
          /\ reading' = [reading EXCEPT ![s] = NotReading]
          /\ UNCHANGED <<browser, clients, asked>>
      BY <2>10 DEF SendSnapshot
    <3>4. NotReading \in values
      BY DEF NotReading
    <3> HIDE DEF frame, values
    <3>5. wire' \in [Sockets -> Seq(Frame)] /\ reading' \in [Sockets -> values]
      BY <3>1, <3>2, <3>3, <3>4
    <3>6. \A t \in Sockets : reading'[t] # NotReading => t \in clients
      BY <1>2, <3>1, <3>3 DEF ConsoleInv, ReadsForClients
    <3>7. QED
      BY <1>2, <2>0, <3>3, <3>5, <3>6, SendKeeps DEF values
  <2>11. ASSUME NEW s \in Sockets, Break(s) PROVE ConsoleInv'
    BY <1>2, <2>0, <2>11, GoneKeeps DEF Break
  <2>12. ASSUME NEW w \in Writers, Broadcast(w) PROVE ConsoleInv'
    <3>1. epoch[w] \in Epochs
      BY <1>2, <2>12 DEF Broadcast, LeaveListeners, TypeInv, LocalsInUse
    <3> DEFINE frame == [type |-> "clack", epoch |-> epoch[w]]
    <3>2. frame \in Frame
      BY <3>1 DEF Frame
    <3>3. wire' = [s \in Sockets |-> IF s \in clients THEN Append(wire[s], frame) ELSE wire[s]]
          /\ UNCHANGED <<browser, clients, asked, reading>>
      BY <2>12 DEF Broadcast
    <3> HIDE DEF frame
    <3>4. wire' \in [Sockets -> Seq(Frame)]
      BY <1>2, <3>2, <3>3 DEF ConsoleInv, ConsoleTypeOK
    <3>5. /\ reading' \in [Sockets -> (SUBSET Epochs) \cup {{NoClick}}]
          /\ \A s \in Sockets : reading'[s] # NotReading => s \in clients
          /\ asked' \subseteq asked
      BY <1>2, <3>3 DEF ConsoleInv, ConsoleTypeOK, ReadsForClients
    <3>6. QED
      BY <1>2, <2>0, <3>3, <3>4, <3>5, SendKeeps
  <2>13. CASE UNCHANGED consoleVars
    BY <2>1, <2>13 DEF consoleVars
  <2>14. QED
    BY <1>2, <2>1, <2>2, <2>3, <2>4, <2>5, <2>6, <2>7, <2>8, <2>9, <2>10, <2>11, <2>12, <2>13
    DEF ConsoleNext, BrowserStep, HubStep, Post, Skip
<1>3. ConsoleSpec => []TypeInv
  BY ConsoleImplementsWal, TypeInvInductive, PTL
<1>4. QED
  BY <1>1, <1>2, <1>3, PTL DEF ConsoleSpec

\* Browser and hub keep a console's state of its types, in either host.
THEOREM ConsoleTypeCorrect == ConsoleSpec => []ConsoleTypeOK
  BY ConsoleInvInductive, PTL DEF ConsoleInv

\* Whatever breaks and however often the hub restarts, the console has one live
\* connection at most, no reconnection pending beside it, and a status line that
\* speaks of the current socket.
THEOREM OneConnectionAtATime == ConsoleSpec => []OneConnection
<1>1. ConsoleInv => OneConnection
  <2> SUFFICES ASSUME ConsoleInv PROVE OneConnection
    OBVIOUS
  <2>1. Live \in SUBSET {ws}
    BY DEF ConsoleInv, OneSocket, Live
  <2>2. IsFiniteSet({ws}) /\ Cardinality({ws}) = 1
    BY FS_Singleton
  <2>3. Cardinality(Live) <= 1
    BY <2>1, <2>2, FS_Subset
  <2>4. QED
    BY <2>1, <2>3 DEF ConsoleInv, TimerAlone, ConnectedIsUp, OneConnection
<1>2. QED
  BY <1>1, ConsoleInvInductive, PTL

-----------------------------------------------------------------------------
(* What frames do to a timeline *)

ClackFrame(e) == [type |-> "clack", epoch |-> e]

\* Elements of a sequence, and of the sequence one longer.
LEMMA Appended ==
  ASSUME NEW S, NEW q \in Seq(S), NEW x \in S
  PROVE  /\ Append(q, x) \in Seq(S)
         /\ Len(Append(q, x)) = Len(q) + 1 /\ Len(q) \in Nat
         /\ DOMAIN q = 1..Len(q) /\ DOMAIN Append(q, x) = 1..(Len(q) + 1)
         /\ \A i \in DOMAIN q : Append(q, x)[i] = q[i]
         /\ Append(q, x)[Len(q) + 1] = x
  OBVIOUS

\* Elements of a sequence, and of the sequence one shorter.
LEMMA Tailed ==
  ASSUME NEW S, NEW q \in Seq(S), q # <<>>
  PROVE  /\ Tail(q) \in Seq(S) /\ Head(q) = q[1] /\ Head(q) \in S
         /\ Len(q) \in Nat /\ Len(q) >= 1 /\ Len(Tail(q)) = Len(q) - 1
         /\ DOMAIN q = 1..Len(q) /\ DOMAIN Tail(q) = 1..(Len(q) - 1)
         /\ \A i \in DOMAIN Tail(q) : Tail(q)[i] = q[i + 1]
  OBVIOUS

\* Adding an epoch to a set that has not got it.
LEMMA OneMore ==
  ASSUME NEW rows \in SUBSET Epochs, NEW e \in Epochs \ rows
  PROVE  /\ Cardinality(rows) \in Nat
         /\ Cardinality(rows \cup {e}) = Cardinality(rows) + 1
<1>1. IsFiniteSet(rows) /\ Cardinality(rows) \in Nat
  BY EpochsFinite
<1>2. QED
  BY <1>1, FS_AddElement

\* A broadcast is a row more, whether the snapshot has arrived or not.
LEMMA BroadcastAdds ==
  ASSUME NEW line \in Seq(Epochs), NEW frames \in Seq(Frame),
         NEW rows \in SUBSET Epochs, NEW e \in Epochs \ rows,
         Current(line, frames, rows) \/ Renewed(frames, rows)
  PROVE  LET longer == Append(frames, ClackFrame(e)) IN
           Current(line, longer, rows \cup {e}) \/ Renewed(longer, rows \cup {e})
<1> DEFINE n == Len(frames)
           longer == Append(frames, ClackFrame(e))
           more == rows \cup {e}
<1>1. ClackFrame(e) \in Frame /\ ClackFrame(e).type = "clack" /\ ClackFrame(e).epoch = e
  BY DEF ClackFrame, Frame
<1>2. /\ Len(longer) = n + 1 /\ n \in Nat
      /\ DOMAIN frames = 1..n /\ DOMAIN longer = 1..(n + 1)
      /\ \A i \in 1..n : longer[i] = frames[i]
      /\ longer[n + 1].type = "clack" /\ longer[n + 1].epoch = e
  <2> HIDE DEF ClackFrame
  <2>1. QED
    BY <1>1, Appended
<1>3. Cardinality(rows) \in Nat /\ Cardinality(more) = Cardinality(rows) + 1
  BY OneMore
<1> HIDE DEF n, longer, more
<1>4. CASE Current(line, frames, rows)
  <2>1. \A i \in DOMAIN longer : longer[i].type = "clack"
    BY <1>2, <1>4 DEF Current
  <2>2. {longer[i].epoch : i \in DOMAIN longer}
        = {frames[i].epoch : i \in DOMAIN frames} \cup {e}
    BY <1>2
  <2>3. {line[i] : i \in DOMAIN line} \cup {longer[i].epoch : i \in DOMAIN longer} = more
    BY <1>4, <2>2 DEF Current, more
  <2>4. Len(line) + Len(longer) = Cardinality(more)
    <3>1. Len(line) \in Nat
      OBVIOUS
    <3>2. Len(line) + n = Cardinality(rows)
      BY <1>4 DEF Current, n
    <3>3. QED
      BY <1>2, <1>3, <3>1, <3>2
  <2>5. Current(line, longer, more)
    BY <2>1, <2>3, <2>4 DEF Current
  <2>6. QED
    BY <2>5 DEF longer, more
<1>5. CASE Renewed(frames, rows)
  <2> DEFINE after(k) == {i \in DOMAIN frames : i > k}
             later(k) == {i \in DOMAIN longer : i > k}
  <2>1. PICK k \in DOMAIN frames :
          /\ frames[k].type = "snapshot"
          /\ \A i \in after(k) : frames[i].type = "clack"
          /\ frames[k].rows \cup {frames[i].epoch : i \in after(k)} = rows
          /\ Cardinality(frames[k].rows) + (n - k) = Cardinality(rows)
    BY <1>5 DEF Renewed, n
  <2>2. /\ k \in 1..n /\ k \in DOMAIN longer /\ longer[k] = frames[k]
        /\ later(k) = after(k) \cup {n + 1}
    BY <1>2
  <2>3. \A i \in after(k) : longer[i] = frames[i]
    BY <1>2
  <2>4. \A i \in later(k) : longer[i].type = "clack"
    BY <1>2, <2>1, <2>2, <2>3
  <2>5. {longer[i].epoch : i \in later(k)} = {frames[i].epoch : i \in after(k)} \cup {e}
    <3> HIDE DEF later, after
    <3>1. QED
      BY <1>2, <2>2, <2>3
  <2>6. longer[k].rows \cup {longer[i].epoch : i \in later(k)} = more
    BY <2>1, <2>2, <2>5 DEF more
  <2>7. Cardinality(longer[k].rows) + (Len(longer) - k) = Cardinality(more)
    <3>1. frames[k].type = "snapshot" /\ frames[k] \in Frame
      BY <2>1, <1>2
    <3>2. frames[k].rows \in SUBSET Epochs
      BY <3>1 DEF Frame
    <3>3. Cardinality(frames[k].rows) \in Nat
      BY <3>2, EpochsFinite
    <3>4. QED
      BY <1>2, <1>3, <2>1, <2>2, <3>3
  <2>8. Renewed(longer, more)
    BY <2>1, <2>2, <2>4, <2>6, <2>7 DEF Renewed
  <2>9. QED
    BY <2>8 DEF longer, more
<1>6. QED
  BY <1>4, <1>5

\* A snapshot that is sent shows its rows.
LEMMA SnapshotRenews ==
  ASSUME NEW frames \in Seq(Frame), NEW rows \in SUBSET Epochs
  PROVE  Renewed(Append(frames, [type |-> "snapshot", rows |-> rows]), rows)
<1> DEFINE frame == [type |-> "snapshot", rows |-> rows]
           n == Len(frames)
           longer == Append(frames, frame)
<1>1. frame \in Frame /\ frame.type = "snapshot" /\ frame.rows = rows
  BY DEF Frame
<1> HIDE DEF frame
<1>2. /\ Len(longer) = n + 1 /\ n \in Nat /\ DOMAIN longer = 1..(n + 1)
      /\ longer[n + 1] = frame
  BY <1>1, Appended
<1>3. Cardinality(rows) \in Nat
  BY EpochsFinite
<1> HIDE DEF n, longer
<1>4. {i \in DOMAIN longer : i > n + 1} = {}
  BY <1>2
<1>5. Cardinality(longer[n + 1].rows) + (Len(longer) - (n + 1)) = Cardinality(rows)
  BY <1>1, <1>2, <1>3
<1>6. Renewed(longer, rows)
  BY <1>1, <1>2, <1>4, <1>5 DEF Renewed
<1>7. QED
  BY <1>6 DEF longer, frame

\* Taking a frame off the wire leaves what the console will have shown.
LEMMA ReceiptShows ==
  ASSUME NEW line \in Seq(Epochs), NEW frames \in Seq(Frame), frames # <<>>,
         NEW rows \in SUBSET Epochs,
         Current(line, frames, rows) \/ Renewed(frames, rows)
  PROVE  LET frame == Head(frames)
             longer == IF frame.type = "clack" THEN Append(line, frame.epoch)
                       ELSE Ascending(frame.rows)
         IN Current(longer, Tail(frames), rows) \/ Renewed(Tail(frames), rows)
<1> DEFINE frame == Head(frames)
           rest == Tail(frames)
           n == Len(frames)
           longer == IF frame.type = "clack" THEN Append(line, frame.epoch)
                     ELSE Ascending(frame.rows)
<1>1. /\ frame = frames[1] /\ frame \in Frame
      /\ n \in Nat /\ n >= 1 /\ Len(rest) = n - 1
      /\ DOMAIN frames = 1..n /\ DOMAIN rest = 1..(n - 1)
      /\ \A i \in DOMAIN rest : rest[i] = frames[i + 1]
  BY Tailed
<1>2. Cardinality(rows) \in Nat /\ Len(line) \in Nat /\ DOMAIN line = 1..Len(line)
  BY EpochsFinite
<1> HIDE DEF frame, rest, n
<1>3. CASE Current(line, frames, rows)
  <2>1. frame.type = "clack" /\ frame.epoch \in Epochs /\ longer = Append(line, frame.epoch)
    BY <1>1, <1>3 DEF Current, Frame
  <2>2. /\ Len(longer) = Len(line) + 1
        /\ DOMAIN longer = 1..(Len(line) + 1)
        /\ \A i \in DOMAIN line : longer[i] = line[i]
        /\ longer[Len(line) + 1] = frame.epoch
    <3> HIDE DEF longer
    <3>1. QED
      BY <2>1, Appended
  <2> HIDE DEF longer
  <2>3. \A i \in DOMAIN rest : rest[i].type = "clack"
    BY <1>1, <1>3 DEF Current
  <2>4. {longer[i] : i \in DOMAIN longer} = {line[i] : i \in DOMAIN line} \cup {frame.epoch}
    BY <1>2, <2>2
  <2>5. {frames[i].epoch : i \in DOMAIN frames}
        = {frame.epoch} \cup {rest[i].epoch : i \in DOMAIN rest}
    <3>1. \A i \in DOMAIN frames : i = 1 \/ (i - 1 \in DOMAIN rest /\ rest[i - 1] = frames[i])
      BY <1>1
    <3>2. \A i \in DOMAIN rest : i + 1 \in DOMAIN frames /\ rest[i] = frames[i + 1]
      BY <1>1
    <3>3. ASSUME NEW i \in DOMAIN frames
          PROVE  frames[i].epoch \in {frame.epoch} \cup {rest[j].epoch : j \in DOMAIN rest}
      BY <1>1, <3>1
    <3>4. ASSUME NEW i \in DOMAIN rest
          PROVE  rest[i].epoch \in {frames[j].epoch : j \in DOMAIN frames}
      BY <3>2
    <3>5. frame.epoch \in {frames[j].epoch : j \in DOMAIN frames}
      BY <1>1
    <3>6. QED
      BY <3>3, <3>4, <3>5
  <2>6. {longer[i] : i \in DOMAIN longer} \cup {rest[i].epoch : i \in DOMAIN rest} = rows
    BY <1>3, <2>4, <2>5 DEF Current
  <2>7. Len(longer) + Len(rest) = Cardinality(rows)
    BY <1>1, <1>2, <1>3, <2>2 DEF Current, n
  <2>8. Current(longer, rest, rows)
    BY <2>3, <2>6, <2>7 DEF Current
  <2>9. QED
    BY <2>8 DEF longer, rest, frame
<1>4. CASE Renewed(frames, rows)
  <2> DEFINE after(k) == {i \in DOMAIN frames : i > k}
  <2>1. PICK k \in DOMAIN frames :
          /\ frames[k].type = "snapshot"
          /\ \A i \in after(k) : frames[i].type = "clack"
          /\ frames[k].rows \cup {frames[i].epoch : i \in after(k)} = rows
          /\ Cardinality(frames[k].rows) + (n - k) = Cardinality(rows)
    BY <1>4 DEF Renewed, n
  <2>2. k \in 1..n /\ frames[k] \in Frame
    BY <1>1
  <2>3. frames[k].rows \in SUBSET Epochs
    BY <2>1, <2>2 DEF Frame
  <2>4. CASE k = 1
    <3>1. longer = Ascending(frame.rows) /\ frame.rows = frames[k].rows
      BY <1>1, <2>1, <2>4
    <3> HIDE DEF longer
    <3>2. /\ Len(longer) = Cardinality(frame.rows)
          /\ {longer[i] : i \in DOMAIN longer} = frame.rows
      <4>1. frame.rows \in SUBSET Epochs
        BY <2>3, <3>1
      <4>2. QED
        BY <3>1, <4>1, AscendingLists
    <3>3. \A i \in DOMAIN rest : i + 1 \in after(k) /\ rest[i] = frames[i + 1]
      BY <1>1, <2>4
    <3>4. \A i \in after(k) : i - 1 \in DOMAIN rest /\ rest[i - 1] = frames[i]
      BY <1>1, <2>4
    <3>5. \A i \in DOMAIN rest : rest[i].type = "clack"
      BY <2>1, <3>3
    <3>6. {frames[i].epoch : i \in after(k)} = {rest[i].epoch : i \in DOMAIN rest}
      <4> HIDE DEF after
      <4>1. QED
        BY <3>3, <3>4
    <3>7. {longer[i] : i \in DOMAIN longer} \cup {rest[i].epoch : i \in DOMAIN rest} = rows
      BY <2>1, <3>1, <3>2, <3>6
    <3>8. Len(longer) + Len(rest) = Cardinality(rows)
      BY <1>1, <2>1, <2>4, <3>1, <3>2
    <3>9. Current(longer, rest, rows)
      BY <3>5, <3>7, <3>8 DEF Current
    <3>10. QED
      BY <3>9 DEF longer, rest, frame
  <2>5. CASE k # 1
    <3> DEFINE later(j) == {i \in DOMAIN rest : i > j}
    <3>1. k - 1 \in DOMAIN rest /\ rest[k - 1] = frames[k]
      BY <1>1, <2>2, <2>5
    <3>2. \A i \in later(k - 1) : i + 1 \in after(k) /\ rest[i] = frames[i + 1]
      BY <1>1, <2>2, <2>5
    <3>3. \A i \in after(k) : i - 1 \in later(k - 1) /\ rest[i - 1] = frames[i]
      BY <1>1, <2>2, <2>5
    <3>4. \A i \in later(k - 1) : rest[i].type = "clack"
      BY <2>1, <3>2
    <3>5. {frames[i].epoch : i \in after(k)} = {rest[i].epoch : i \in later(k - 1)}
      <4> HIDE DEF after, later
      <4>1. QED
        BY <3>2, <3>3
    <3>6. rest[k - 1].rows \cup {rest[i].epoch : i \in later(k - 1)} = rows
      BY <2>1, <3>1, <3>5
    <3>7. Cardinality(rest[k - 1].rows) + (Len(rest) - (k - 1)) = Cardinality(rows)
      <4>1. Cardinality(frames[k].rows) \in Nat
        BY <2>3, EpochsFinite
      <4>2. QED
        BY <1>1, <2>1, <2>2, <3>1, <4>1
    <3>8. Renewed(rest, rows)
      BY <2>1, <3>1, <3>4, <3>6, <3>7 DEF Renewed
    <3>9. QED
      BY <3>8 DEF rest
  <2>6. QED
    BY <2>4, <2>5
<1>5. QED
  BY <1>3, <1>4

-----------------------------------------------------------------------------
(* The timeline *)

\* A broadcast is what brings a row to the consoles.
LEMMA BroadcastShows ==
  ASSUME HubInv, NEW w \in Writers, LeaveListeners(w)
  PROVE  /\ epoch[w] \in Epochs \ Shown
         /\ Shown' = Shown \cup {epoch[w]}
<1>1. /\ pc[w] = "listen" /\ epoch[w] \in Epochs /\ store[epoch[w]] # NoClick
      /\ \A v \in Writers \ {w} : epoch[v] # epoch[w]
  BY WalAssumption DEF LeaveListeners, HubInv, TypeInv, LocalsInUse, OwnRowWritten,
     EpochExclusive, Epochs
<1>2. /\ UNCHANGED <<store, epoch>> /\ pc'[w] = "publish"
      /\ \A v \in Writers \ {w} : pc'[v] = pc[v]
  BY DEF LeaveListeners, HubInv, TypeInv, TypeOK
<1>3. epoch[w] \notin Shown
  BY <1>1 DEF Shown
<1>4. ASSUME NEW e \in Epochs PROVE e \in Shown' <=> e \in Shown \/ e = epoch[w]
  BY <1>1, <1>2 DEF Shown, Stored
<1>5. QED
  BY <1>1, <1>3, <1>4 DEF Shown, Stored

\* No other step of an append changes what has been shown.
LEMMA NothingElseShows ==
  ASSUME HubInv, NEW w \in Writers,
         \/ \E c \in Clicks : Begin(w, c)
         \/ Put(w) \/ PutFails(w) \/ EnterListeners(w) \/ Publish(w)
  PROVE  Shown' = Shown
<1>0. TypeOK
  BY DEF HubInv, TypeInv
<1>1. ASSUME NEW c \in Clicks, Begin(w, c) PROVE Shown' = Shown
  BY <1>0, <1>1 DEF Begin, Shown, Stored, TypeOK
<1>2. CASE Put(w)
  <2>1. /\ epoch[w] \in Epochs /\ store[epoch[w]] = NoClick
        /\ UNCHANGED epoch /\ pc'[w] = "lock" /\ pc[w] = "put"
        /\ \A v \in Writers \ {w} : pc'[v] = pc[v]
        /\ \A e \in Epochs \ {epoch[w]} : store'[e] = store[e]
    BY <1>0, <1>2, WalAssumption DEF Put, HubInv, TypeInv, LocalsInUse, TypeOK,
       EpochExclusive, Epochs
  <2>2. ASSUME NEW e \in Epochs PROVE e \in Shown' <=> e \in Shown
    BY <2>1 DEF Shown, Stored
  <2>3. QED
    BY <2>2 DEF Shown, Stored
<1>3. CASE PutFails(w) \/ EnterListeners(w) \/ Publish(w)
  <2>1. /\ UNCHANGED store /\ \A v \in Writers \ {w} : pc'[v] = pc[v] /\ epoch'[v] = epoch[v]
        /\ pc'[w] \in {"lock", "listen"} <=> pc[w] \in {"lock", "listen"}
        /\ pc'[w] \in {"lock", "listen"} => epoch'[w] = epoch[w]
    BY <1>0, <1>3 DEF PutFails, EnterListeners, Publish, Leave, TypeOK
  <2>2. \A v \in Writers :
          /\ pc'[v] \in {"lock", "listen"} <=> pc[v] \in {"lock", "listen"}
          /\ pc'[v] \in {"lock", "listen"} => epoch'[v] = epoch[v]
    BY <2>1
  <2>3. QED
    BY <2>1, <2>2 DEF Shown, Stored
<1>4. QED
  BY <1>1, <1>2, <1>3

\* A log that fits a snapshot did so before.
LEMMA FitsBefore ==
  ASSUME HubInv, HubInv', Recovers, [ConsoleNext]_consoleVars, Fits'
  PROVE  Fits /\ Stored \subseteq Stored'
<1>1. [Next]_walVars
  BY ConsoleStepIsWalStep
<1>2. Stored \subseteq Stored'
  BY <1>1, RowStays DEF Stored
<1>3. Stored \in SUBSET Epochs /\ Stored' \in SUBSET Epochs
  BY DEF Stored
<1>4. Cardinality(Stored) <= Cardinality(Stored')
  BY <1>2, <1>3, EpochsFinite, FS_Subset
<1>5. /\ Cardinality(Stored) \in Nat /\ Cardinality(Stored') \in Nat
      /\ SnapshotLimit \in Nat
  BY <1>3, EpochsFinite, ConsoleAssumption
<1>6. QED
  BY <1>2, <1>4, <1>5 DEF Fits

\* A console whose state and whose rows stay is up to date as before.
LEMMA StaysUpToDate ==
  ASSUME NEW s \in Sockets, UpToDate(s), Shown' = Shown, timeline' = timeline,
         socket'[s] = socket[s], wire'[s] = wire[s],
         s \in asked => s \in asked', reading'[s] = reading[s]
  PROVE  UpToDate(s)'
<1>1. SUFFICES ASSUME socket[s] = "open", s \notin asked, reading[s] = NotReading
               PROVE  UpToDate(s)'
  BY DEF UpToDate
<1>2. Current(timeline, wire[s], Shown) \/ Renewed(wire[s], Shown)
  BY <1>1 DEF UpToDate
<1>3. Current(timeline', wire'[s], Shown') \/ Renewed(wire'[s], Shown')
  BY <1>2
<1>4. QED
  BY <1>3 DEF UpToDate

\* While the log fits a snapshot and nothing has crossed the answer to its
\* subscription, a console is up to date.
LEMMA TimelineInductive ==
  ASSUME Recovers
  PROVE  ConsoleSpec => [](HubInv /\ ConsoleInv /\ TimelineInv)
<1>1. ConsoleInit => TimelineInv
  BY DEF ConsoleInit, TimelineInv, TimelineShows, ReadsAreFresh, UpToDate
<1>2. ASSUME HubInv, HubInv', ConsoleInv, ConsoleInv', TimelineInv,
             [ConsoleNext]_consoleVars
      PROVE  TimelineInv'
  <2> SUFFICES ASSUME ~crossed', Fits' PROVE TimelineShows'
    BY DEF TimelineInv
  <2>0. /\ TypeOK /\ TypeOK' /\ LocalsInUse /\ ConsoleTypeOK
        /\ OneSocket /\ ReadsForClients
        /\ Shown \in SUBSET Epochs
        /\ Fits /\ Stored \subseteq Stored'
    BY <1>2, FitsBefore DEF HubInv, TypeInv, ConsoleInv, Shown, Stored
  <2>1. ASSUME NEW s \in Sockets, ReadSnapshot(s) PROVE TimelineShows'
    <3>1. /\ UNCHANGED walVars /\ UNCHANGED <<timeline, socket, wire>>
          /\ s \in asked
          /\ \A t \in Sockets : t # s => reading'[t] = reading[t]
      BY <2>0, <2>1 DEF ReadSnapshot, browser, ConsoleTypeOK
    <3>2. {e \in Stored : Cardinality({d \in Stored : d < e}) < SnapshotLimit} = Stored
      <4>1. Stored \in SUBSET Epochs
        BY DEF Stored
      <4>2. Cardinality(Stored) \in Nat
        BY <4>1, EpochsFinite
      <4>3. ASSUME NEW e \in Stored PROVE Cardinality({d \in Stored : d < e}) < SnapshotLimit
        <5> DEFINE below == Cardinality({d \in Stored : d < e})
        <5>1. below \in Nat /\ below < Cardinality(Stored)
          BY <4>1, FewerBelow
        <5> HIDE DEF below
        <5>2. below < SnapshotLimit
          BY <2>0, <4>2, <5>1, ConsoleAssumption DEF Fits
        <5>3. QED
          BY <5>2 DEF below
      <4>4. QED
        BY <4>3
    <3>3. reading'[s] = Stored /\ Stored # NotReading
      <4>1. reading'[s] = Stored
        BY <2>0, <2>1, <3>2 DEF ReadSnapshot, ConsoleTypeOK
      <4>2. QED
        BY <4>1, ConsoleAssumption DEF Stored, NotReading
    <3>4. ASSUME NEW t \in Sockets, t # s
          PROVE  socket'[t] # "open" /\ reading'[t] = NotReading
      <4>1. s \in clients
        BY <2>0, <3>1 DEF ConsoleTypeOK
      <4>2. t \notin clients
        BY <2>0, <3>4, <4>1 DEF ConsoleTypeOK, OneSocket
      <4>3. QED
        BY <2>0, <3>1, <3>4, <4>2 DEF ConsoleTypeOK, ReadsForClients
    <3>5. Shown' = Shown /\ Stored' = Stored /\ Shown \subseteq Stored
      BY <3>1 DEF Shown, Stored, walVars
    <3>6. ReadsAreFresh'
      BY <3>3, <3>4, <3>5 DEF ReadsAreFresh
    <3>7. \A t \in Sockets : UpToDate(t)'
      BY <3>3, <3>4 DEF UpToDate
    <3>8. QED
      BY <3>6, <3>7 DEF TimelineShows
  <2>2. CASE ~(\E s \in Sockets : ReadSnapshot(s)) /\ ~crossed
    <3>0. ReadsAreFresh /\ \A s \in Sockets : UpToDate(s)
      BY <1>2, <2>0, <2>2 DEF TimelineInv, TimelineShows
    <3>1. ASSUME Shown' = Shown, reading' = reading PROVE ReadsAreFresh'
      BY <2>0, <3>0, <3>1 DEF ReadsAreFresh
    <3>2. ASSUME UNCHANGED walVars PROVE Shown' = Shown
      BY <3>2 DEF Shown, Stored, walVars
    <3>3. ASSUME UNCHANGED <<browser, server>>, Shown' = Shown PROVE TimelineShows'
      <4>1. \A s \in Sockets : UpToDate(s)'
        BY <3>0, <3>3, StaysUpToDate DEF browser, server
      <4>2. ReadsAreFresh'
        BY <3>1, <3>3 DEF server
      <4>3. QED
        BY <4>1, <4>2 DEF TimelineShows
    <3>4. CASE (Open \/ Recover) /\ UNCHANGED <<browser, server>>
      <4>1. UNCHANGED <<store, pc, epoch>>
        BY <3>4 DEF Open, Recover, local
      <4>2. Shown' = Shown
        BY <4>1 DEF Shown, Stored
      <4>3. QED
        BY <3>3, <3>4, <4>2
    <3>5. CASE HubStops
      <4>1. \A s \in Sockets : socket'[s] # "open" /\ reading'[s] = NotReading
        BY <2>0, <3>5 DEF HubStops, Gone, ReadsForClients, ConsoleTypeOK
      <4>2. QED
        BY <4>1 DEF TimelineShows, ReadsAreFresh, UpToDate
    <3>6. ASSUME NEW s \in Sockets, Start(s) \/ TimerFires(s) PROVE TimelineShows'
      <4>1. \A t \in Sockets : socket'[t] # "open"
        BY <3>6 DEF Start, TimerFires, Connect
      <4>2. UNCHANGED walVars /\ reading' = reading
        BY <3>6 DEF Start, TimerFires, server
      <4>3. ReadsAreFresh'
        BY <3>1, <3>2, <4>2
      <4>4. QED
        BY <4>1, <4>3 DEF TimelineShows, UpToDate
    <3>7. ASSUME NEW s \in Sockets, OnOpen(s) \/ OnClose(s) \/ Accept(s) PROVE TimelineShows'
      <4>1. UNCHANGED walVars /\ UNCHANGED <<timeline, reading, wire>>
        BY <3>7 DEF OnOpen, OnClose, Accept, server
      <4>2. \A t \in Sockets : t # s => socket'[t] = socket[t] /\ (t \in asked <=> t \in asked')
        BY <2>0, <3>7 DEF OnOpen, OnClose, Accept, server, ConsoleTypeOK
      <4>3. socket'[s] = "open" => s \in asked'
        BY <2>0, <3>7 DEF OnOpen, OnClose, Accept, ConsoleTypeOK
      <4>4. ReadsAreFresh'
        BY <3>1, <3>2, <4>1
      <4>5. UpToDate(s)'
        BY <4>3 DEF UpToDate
      <4>6. ASSUME NEW t \in Sockets, t # s PROVE UpToDate(t)'
        BY <3>0, <3>2, <4>1, <4>2, <4>6, StaysUpToDate
      <4>7. QED
        BY <4>4, <4>5, <4>6 DEF TimelineShows
    <3>8. ASSUME NEW s \in Sockets, Receive(s) PROVE TimelineShows'
      <4>1. UNCHANGED walVars /\ UNCHANGED <<socket, asked, reading>>
        BY <3>8 DEF Receive
      <4>2. ReadsAreFresh'
        BY <3>1, <3>2, <4>1
      <4>3. ASSUME NEW t \in Sockets, t # s PROVE UpToDate(t)'
        <5>1. socket[t] # "open"
          BY <2>0, <3>8, <4>3 DEF Receive, OneSocket
        <5>2. QED
          BY <4>1, <5>1 DEF UpToDate
      <4>4. UpToDate(s)'
        <5> SUFFICES ASSUME s \notin asked, reading[s] = NotReading PROVE UpToDate(s)'
          BY <4>1 DEF UpToDate
        <5> DEFINE frame == Head(wire[s])
                   longer == IF frame.type = "clack" THEN Append(timeline, frame.epoch)
                             ELSE Ascending(frame.rows)
        <5>1. /\ wire[s] \in Seq(Frame) /\ wire[s] # <<>> /\ timeline \in Seq(Epochs)
              /\ socket[s] = "open"
              /\ timeline' = longer /\ wire'[s] = Tail(wire[s])
          BY <2>0, <3>8 DEF Receive, ConsoleTypeOK
        <5>2. Current(timeline, wire[s], Shown) \/ Renewed(wire[s], Shown)
          BY <3>0, <5>1 DEF UpToDate
        <5>3. Current(longer, Tail(wire[s]), Shown) \/ Renewed(Tail(wire[s]), Shown)
          BY <2>0, <5>1, <5>2, ReceiptShows
        <5> HIDE DEF longer
        <5>4. Current(timeline', wire'[s], Shown') \/ Renewed(wire'[s], Shown')
          BY <3>2, <4>1, <5>1, <5>3
        <5>5. QED
          BY <5>4 DEF UpToDate
      <4>5. QED
        BY <4>2, <4>3, <4>4 DEF TimelineShows
    <3>9. ASSUME NEW s \in Sockets, SendSnapshot(s) PROVE TimelineShows'
      <4>1. /\ UNCHANGED walVars /\ UNCHANGED <<timeline, socket, asked>>
            /\ reading[s] # NotReading /\ reading'[s] = NotReading
            /\ wire'[s] = Append(wire[s], [type |-> "snapshot", rows |-> reading[s]])
            /\ \A t \in Sockets : t # s => reading'[t] = reading[t] /\ wire'[t] = wire[t]
        BY <2>0, <3>9 DEF SendSnapshot, browser, ConsoleTypeOK
      <4>2. \A w \in Writers : pc[w] \in {"lock", "listen"} => epoch[w] \notin reading[s]
        BY <3>9 DEF SendSnapshot
      <4>3. Shown = reading[s]
        <5>1. Shown \subseteq reading[s] /\ reading[s] \subseteq Stored
          BY <3>0, <4>1 DEF ReadsAreFresh
        <5>2. \A e \in reading[s] : e \in Shown
          BY <4>2, <5>1 DEF Shown
        <5>3. QED
          BY <5>1, <5>2
      <4>4. Shown' = Shown
        BY <3>2, <4>1
      <4>5. ReadsAreFresh'
        BY <2>0, <3>0, <4>1, <4>4 DEF ReadsAreFresh
      <4>6. wire[s] \in Seq(Frame)
        BY <2>0 DEF ConsoleTypeOK
      <4>7. Renewed(wire'[s], Shown)
        BY <2>0, <4>1, <4>3, <4>6, SnapshotRenews
      <4>8. Renewed(wire'[s], Shown')
        BY <4>4, <4>7
      <4>9. UpToDate(s)'
        BY <4>8 DEF UpToDate
      <4>10. ASSUME NEW t \in Sockets, t # s PROVE UpToDate(t)'
        BY <3>0, <4>1, <4>4, <4>10, StaysUpToDate
      <4>11. QED
        BY <4>5, <4>9, <4>10 DEF TimelineShows
    <3>10. ASSUME NEW s \in Sockets, Break(s) PROVE TimelineShows'
      <4>1. /\ UNCHANGED walVars /\ UNCHANGED timeline
            /\ socket'[s] = "lost" /\ reading'[s] = NotReading
            /\ \A t \in Sockets : t # s =>
                 /\ socket'[t] = socket[t] /\ reading'[t] = reading[t] /\ wire'[t] = wire[t]
                 /\ t \in asked => t \in asked'
        BY <3>10 DEF Break, Gone
      <4>2. Shown' = Shown
        BY <3>2, <4>1
      <4>3. ReadsAreFresh'
        BY <2>0, <3>0, <4>1, <4>2 DEF ReadsAreFresh
      <4>4. UpToDate(s)'
        BY <4>1 DEF UpToDate
      <4>5. ASSUME NEW t \in Sockets, t # s PROVE UpToDate(t)'
        BY <3>0, <4>1, <4>2, <4>5, StaysUpToDate
      <4>6. QED
        BY <4>3, <4>4, <4>5 DEF TimelineShows
    <3>11. ASSUME NEW w \in Writers, NEW c \in Clicks, Post(w, c) PROVE TimelineShows'
      <4>1. Shown' = Shown /\ UNCHANGED <<browser, server>>
        BY <1>2, <3>11, NothingElseShows DEF Post
      <4>2. QED
        BY <3>3, <4>1
    <3>12. ASSUME NEW w \in Writers, UNCHANGED <<browser, server>>,
                  Put(w) \/ PutFails(w) \/ EnterListeners(w) \/ Publish(w)
           PROVE  TimelineShows'
      <4>1. Shown' = Shown
        BY <1>2, <3>12, NothingElseShows
      <4>2. QED
        BY <3>3, <3>12, <4>1
    <3>13. ASSUME NEW w \in Writers, Broadcast(w) PROVE TimelineShows'
      <4>1. /\ LeaveListeners(w) /\ UNCHANGED <<browser, clients, asked, reading>>
            /\ \A s \in clients : wire'[s] = Append(wire[s], ClackFrame(epoch[w]))
            /\ \A s \in Sockets : reading[s] # NotReading => epoch[w] \in reading[s]
        BY <2>0, <3>13 DEF Broadcast, ClackFrame, ConsoleTypeOK
      <4>2. epoch[w] \in Epochs \ Shown /\ Shown' = Shown \cup {epoch[w]}
        BY <1>2, <4>1, BroadcastShows
      <4>3. ReadsAreFresh'
        BY <2>0, <3>0, <4>1, <4>2 DEF ReadsAreFresh
      <4>4. ASSUME NEW s \in Sockets PROVE UpToDate(s)'
        <5> SUFFICES ASSUME socket[s] = "open", s \notin asked, reading[s] = NotReading
                     PROVE  UpToDate(s)'
          BY <4>1 DEF UpToDate, browser
        <5>1. s \in clients /\ wire[s] \in Seq(Frame) /\ timeline \in Seq(Epochs)
          BY <2>0 DEF ConsoleTypeOK
        <5>2. Current(timeline, wire[s], Shown) \/ Renewed(wire[s], Shown)
          BY <3>0 DEF UpToDate
        <5>3. \/ Current(timeline, wire'[s], Shown \cup {epoch[w]})
              \/ Renewed(wire'[s], Shown \cup {epoch[w]})
          BY <2>0, <4>1, <4>2, <5>1, <5>2, BroadcastAdds
        <5>4. Current(timeline', wire'[s], Shown') \/ Renewed(wire'[s], Shown')
          BY <4>1, <4>2, <5>3 DEF browser
        <5>5. QED
          BY <5>4 DEF UpToDate
      <4>5. QED
        BY <4>3, <4>4 DEF TimelineShows
    <3>14. ASSUME NEW w \in Writers, Skip(w) PROVE FALSE
      BY <3>14 DEF Skip
    <3>15. CASE UNCHANGED consoleVars
      BY <3>2, <3>3, <3>15 DEF consoleVars
    <3>16. QED
      BY <1>2, <2>2, <3>4, <3>5, <3>6, <3>7, <3>8, <3>9, <3>10, <3>11, <3>12, <3>13, <3>14, <3>15
      DEF ConsoleNext, BrowserStep, HubStep
  <2>3. (\E s \in Sockets : ReadSnapshot(s)) \/ ~crossed
    <3>1. crossed \in BOOLEAN
      BY <2>0 DEF ConsoleTypeOK
    <3>2. ASSUME \A s \in Sockets : ~ReadSnapshot(s) PROVE ~crossed
      BY <1>2, <3>1, <3>2 DEF ConsoleNext, consoleVars, HubStops, Start, BrowserStep,
         TimerFires, OnOpen, OnClose, Receive, Accept, HubStep, SendSnapshot, Break, Post,
         Broadcast, Skip
    <3>3. QED
      BY <3>2
  <2>4. QED
    BY <2>1, <2>2, <2>3
<1>3. ConsoleSpec => []HubInv
  BY ConsoleImplementsWal, HubInvInductive, PTL
<1>4. QED
  BY <1>1, <1>2, <1>3, ConsoleInvInductive, PTL DEF ConsoleSpec

\* Then, once things have settled, the timeline shows every clack of a log that
\* fits a snapshot and shows it once, across any reconnections and restarts,
\* whatever is appended while subscriptions are answered, unless a broadcast
\* crossed the last answer or was skipped: no other interleaving loses or doubles
\* a clack.
THEOREM TimelineIsComplete ==
  ASSUME Recovers
  PROVE  ConsoleSpec => []TimelineComplete
<1>1. HubInv /\ ConsoleInv /\ TimelineInv => TimelineComplete
  <2> SUFFICES ASSUME HubInv, ConsoleInv, TimelineInv, Settled, ~crossed,
                      Cardinality(Stored) <= SnapshotLimit
               PROVE  /\ {timeline[i] : i \in DOMAIN timeline} = Stored
                      /\ Len(timeline) = Cardinality(Stored)
    BY DEF TimelineComplete, ShowsLog
  <2>1. /\ ws \in Sockets /\ wire[ws] = <<>> /\ timeline \in Seq(Epochs)
        /\ socket[ws] = "open" /\ ws \notin asked /\ reading[ws] = NotReading
    BY DEF Settled, ConsoleInv, ConsoleTypeOK
  <2>2. Shown = Stored
    BY DEF Settled, Shown
  <2>3. Current(timeline, <<>>, Stored)
    <3>1. Current(timeline, <<>>, Stored) \/ Renewed(<<>>, Stored)
      BY <2>1, <2>2 DEF TimelineInv, Fits, TimelineShows, UpToDate
    <3>2. ~Renewed(<<>>, Stored)
      BY DEF Renewed
    <3>3. QED
      BY <3>1, <3>2
  <2>4. Len(timeline) \in Nat
    BY <2>1
  <2>5. QED
    BY <2>3, <2>4 DEF Current
<1>2. QED
  BY <1>1, TimelineInductive, PTL
=============================================================================

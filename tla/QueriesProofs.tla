---------------------------- MODULE QueriesProofs ----------------------------
(***************************************************************************)
(* Theorems about Queries, for any clicks, ids, windows and lengths: every *)
(* answer of the read side is what the log and the turns its clacks had    *)
(* with the listeners say, whatever the orders of the puts and the turns.  *)
(*                                                                         *)
(* The inductive invariant has two parts.  LogInv: every row is the frame  *)
(* of a click that validation admits, under an epoch the counter gives     *)
(* out.  ViewsInv: the turns are in one order, and each table holds what   *)
(* its definition by the projected clacks and that order says: the verdict *)
(* on an artifact projected last, say, or the epoch of a task projected    *)
(* first.  A turn adds one clack, later than all before it; the answers,   *)
(* which are sequences, follow through listings: a scan lists its rows by  *)
(* their keys, the keys rise with the epochs, and there is one listing of  *)
(* a set in an order.                                                      *)
(***************************************************************************)
EXTENDS Queries, CodecProofs

-----------------------------------------------------------------------------
(* Clicks *)

\* The chronicle of a finite set lists it in the order of its epochs.
LEMMA ChronicleLists ==
  ASSUME NEW S, IsFiniteSet(S),
         \A c \in S : c.epoch \in Nat, \A c, d \in S : c.epoch = d.epoch => c = d
  PROVE  Lists(Chronicle(S), S, ByEpoch(S))
<1>1. ASSUME NEW c \in S PROVE {d \in S : d.epoch < c.epoch} = Under(ByEpoch(S), S, c)
  BY DEF Under, ByEpoch
<1> DEFINE a(i) == CHOOSE c \in S : Cardinality({d \in S : d.epoch < c.epoch}) = i - 1
           b(i) == CHOOSE c \in S : Cardinality(Under(ByEpoch(S), S, c)) = i - 1
<1>2. ASSUME NEW i PROVE a(i) = b(i)
  BY <1>1
<1>3. Chronicle(S) = Listing(S, ByEpoch(S))
  <2>1. Chronicle(S) = [i \in 1..Cardinality(S) |-> a(i)]
    BY DEF Chronicle
  <2>2. Listing(S, ByEpoch(S)) = [i \in 1..Cardinality(S) |-> b(i)]
    BY DEF Listing
  <2> HIDE DEF a, b
  <2>3. QED
    BY <1>2, <2>1, <2>2
<1>4. QED
  BY <1>3, ListingLists, ByEpochOrders

\* What validation admits decodes to what was encoded.
LEMMA FrameRoundTrip ==
  ASSUME NEW e, NEW c \in ClickType, ValidClick(c)
  PROVE  /\ Fits(Serialize(e, c))
         /\ Deserialize(Serialize(e, c)) = [epoch |-> e, click |-> c]
<1> DEFINE f == Serialize(e, c)
           a == Len(c.agent)
           t == Len(c.task)
           s == Len(c.subject)
<1>1. c.agent \in Seq(Byte) /\ c.task \in Seq(Byte) /\ c.subject \in Seq(Byte)
  BY DEF ClickType
<1>2. a \in Nat /\ t \in Nat /\ s \in Nat
  BY <1>1, SeqFacts
<1>3. f.epoch = e /\ f.text = c.agent \o c.task \o c.subject
      /\ f.click = [c EXCEPT !.agent = <<>>, !.task = <<>>, !.subject = <<>>]
      /\ f.lens = <<a % LenWrap, t % LenWrap, s % LenWrap>>
  BY DEF Serialize, Lengths
<1>4. a <= MaxAgentLen /\ t <= MaxTaskLen /\ s <= MaxSubjectLen
  BY DEF ValidClick, ValidIdField
<1>5. LenWrap \in Nat /\ MaxAgentLen \in 0..(LenWrap - 1) /\ MaxTaskLen \in 0..(LenWrap - 1)
      /\ MaxSubjectLen \in 0..(LenWrap - 1)
  BY CodecAssumption
<1> HIDE DEF f, a, t, s
<1>6. ASSUME NEW n \in Nat, NEW m \in 0..(LenWrap - 1), n <= m PROVE n % LenWrap = n
  <2>1. LenWrap \in Nat /\ n < LenWrap
    BY <1>5, <1>6
  <2>2. QED
    BY <2>1, SMTT(30)
<1>7. a % LenWrap = a /\ t % LenWrap = t /\ s % LenWrap = s
  BY <1>2, <1>4, <1>5, <1>6
<1>8. f.lens = <<a, t, s>>
  BY <1>3, <1>7
<1>81. f.lens[1] = a /\ f.lens[2] = t /\ f.lens[3] = s
  BY <1>8
<1>9. /\ Len(f.text) = a + t + s
      /\ SubSeq(f.text, 1, a) = c.agent
      /\ SubSeq(f.text, a + 1, a + t) = c.task
      /\ SubSeq(f.text, a + t + 1, a + t + s) = c.subject
  <2> DEFINE p == c.agent
             q == c.task
             r == c.subject
  <2>1. p \in Seq(Byte) /\ q \in Seq(Byte) /\ r \in Seq(Byte)
    BY <1>1
  <2>2. f.text = p \o q \o r /\ a = Len(p) /\ t = Len(q) /\ s = Len(r)
    BY <1>3 DEF a, t, s
  <2> HIDE DEF p, q, r
  <2>3. /\ Len(p \o q \o r) = Len(p) + Len(q) + Len(r)
        /\ SubSeq(p \o q \o r, 1, Len(p)) = p
        /\ SubSeq(p \o q \o r, Len(p) + 1, Len(p) + Len(q)) = q
        /\ SubSeq(p \o q \o r, Len(p) + Len(q) + 1, Len(p) + Len(q) + Len(r)) = r
    BY <2>1, Cut
  <2>4. /\ Len(f.text) = a + t + s /\ SubSeq(f.text, 1, a) = p
        /\ SubSeq(f.text, a + 1, a + t) = q /\ SubSeq(f.text, a + t + 1, a + t + s) = r
    BY <2>2, <2>3
  <2>5. QED
    BY <2>4 DEF p, q, r
<1>10. Fits(f)
  BY <1>2, <1>81, <1>9 DEF Fits
<1>11. Deserialize(f) = [epoch |-> e, click |-> [f.click EXCEPT !.agent = c.agent, !.task = c.task, !.subject = c.subject]]
  <2>1. Deserialize(f) = [epoch |-> f.epoch,
      click |-> [f.click EXCEPT !.agent = SubSeq(f.text, 1, f.lens[1]),
                                !.task = SubSeq(f.text, f.lens[1] + 1, f.lens[1] + f.lens[2]),
                                !.subject = SubSeq(f.text, f.lens[1] + f.lens[2] + 1, f.lens[1] + f.lens[2] + f.lens[3])]]
    BY DEF Deserialize
  <2>2. QED
    BY <2>1, <1>3, <1>81, <1>9
<1>12. [f.click EXCEPT !.agent = c.agent, !.task = c.task, !.subject = c.subject] = c
  BY <1>3 DEF ClickType
<1>13. QED
  BY <1>10, <1>11, <1>12 DEF f

\* A click that append() takes over keeps everything but an unknown verb.
LEMMA NamedIs ==
  ASSUME NEW c \in Clicks, ValidClick(c)
  PROVE  /\ Named(c) \in ClickType /\ ValidClick(Named(c))
         /\ Named(c).verb \in Verbs
         /\ Named(c).agent = c.agent /\ Named(c).task = c.task
         /\ c.agent \in Agents /\ c.task \in Tasks \cup {NoTask}
<1>1. c \in ClickType /\ c.agent \in Agents /\ c.task \in Tasks \cup {NoTask}
  BY QueriesAssumption
<1>2. StrToVerb(c.verb) \in Verbs
  <2>1. "ANNOUNCE" \in Verbs
    BY DEF Verbs
  <2>2. QED
    BY <2>1 DEF StrToVerb
<1>3. /\ Named(c) \in ClickType /\ Named(c).verb = StrToVerb(c.verb)
      /\ Named(c).agent = c.agent /\ Named(c).task = c.task /\ Named(c).subject = c.subject
  BY <1>1, <1>2 DEF Named, ClickType
<1>4. ValidClick(Named(c))
  BY <1>3 DEF ValidClick
<1>5. QED
  BY <1>1, <1>2, <1>3, <1>4

-----------------------------------------------------------------------------
(* The log *)

\* The row of an epoch is the frame of this click.
IsRow(rows, e, c) == ValidClick(c) /\ rows[e] = Serialize(e, Named(c))

\* Every row of the table is one, at an epoch the counter gives out.
RowsOK(rows) ==
  \A e \in DOMAIN rows :
    e \in FirstEpoch..MaxEpoch /\ \E c \in Clicks : IsRow(rows, e, c)

\* Every row is the frame of a click that validation admits, under such an epoch.
LogInv == RowsOK(log)

\* The bounds of the epochs, as numbers: none is beyond the bytes of a key.
LEMMA Bounds ==
  /\ FirstEpoch \in Nat \ {0} /\ MaxEpoch \in Nat \ {0}
  /\ MaxEpoch < Power[Width] /\ Power[Width] \in Nat
  /\ \A e \in FirstEpoch..MaxEpoch : e \in Nat \ {0} /\ e < Power[Width]
  /\ \A n \in Nat : n <= MaxEpoch => n < Power[Width]
<1>1. FirstEpoch \in Nat \ {0} /\ MaxEpoch \in Nat \ {0} /\ MaxEpoch < Power[Width]
  BY QueriesAssumption
<1>2. Power[Width] \in Nat
  BY PowerIs, CodecAssumption
<1>3. QED
  BY <1>1, <1>2

\* The empty log satisfies the invariant, ...
LEMMA LogInvInit == QueriesInit => LogInv
<1>1. DOMAIN << >> = {}
  OBVIOUS
<1>2. RowsOK(<< >>)
  BY <1>1 DEF RowsOK
<1>3. QED
  BY <1>2 DEF QueriesInit, LogInv

\* ... one row more keeps it, ...
LEMMA RowsGrow ==
  ASSUME NEW rows, RowsOK(rows), NEW e \in (FirstEpoch..MaxEpoch) \ DOMAIN rows,
         NEW c \in Clicks, ValidClick(c), NEW more,
         more = [d \in DOMAIN rows \cup {e} |->
                  IF d = e THEN Serialize(e, Named(c)) ELSE rows[d]]
  PROVE  RowsOK(more)
<1>1. DOMAIN more = DOMAIN rows \cup {e} /\ more[e] = Serialize(e, Named(c))
      /\ \A d \in DOMAIN rows : more[d] = rows[d]
  OBVIOUS
<1>2. IsRow(more, e, c)
  BY <1>1 DEF IsRow
<1>3. ASSUME NEW d \in DOMAIN rows PROVE d \in FirstEpoch..MaxEpoch /\ \E b \in Clicks : IsRow(more, d, b)
  <2>1. d \in FirstEpoch..MaxEpoch /\ \E b \in Clicks : IsRow(rows, d, b)
    BY DEF RowsOK
  <2>2. PICK b \in Clicks : IsRow(rows, d, b)
    BY <2>1
  <2>3. IsRow(more, d, b)
    BY <2>2, <1>1 DEF IsRow
  <2>4. QED
    BY <2>1, <2>3
<1>4. QED
  BY <1>1, <1>2, <1>3 DEF RowsOK

\* ... and so does every step.
LEMMA LogInvStep == LogInv /\ [QueriesNext]_queryVars => LogInv'
<1> SUFFICES ASSUME LogInv, [QueriesNext]_queryVars PROVE LogInv'
  OBVIOUS
<1>1. CASE UNCHANGED queryVars
  BY <1>1 DEF queryVars, LogInv
<1>2. ASSUME NEW e \in FirstEpoch..MaxEpoch, Project(e) PROVE LogInv'
  BY <1>2 DEF Project, LogInv
<1>3. ASSUME NEW e \in FirstEpoch..MaxEpoch, NEW c \in Clicks, Write(e, c) PROVE LogInv'
  <2>1. e \in (FirstEpoch..MaxEpoch) \ DOMAIN log /\ ValidClick(c) /\ RowsOK(log)
        /\ log' = [d \in DOMAIN log \cup {e} |-> IF d = e THEN Serialize(e, Named(c)) ELSE log[d]]
    BY <1>3 DEF Write, Logged, LogInv
  <2>2. QED
    BY <2>1, RowsGrow DEF LogInv
<1>4. QED
  BY <1>1, <1>2, <1>3 DEF QueriesNext

\* The invariant of the log.
LEMMA LogInvInductive == QueriesSpec => []LogInv
  BY LogInvInit, LogInvStep, PTL DEF QueriesSpec

\* What the invariant says of one row.
LEMMA LogRow ==
  ASSUME LogInv, NEW e \in Logged
  PROVE  /\ e \in Nat /\ e \in FirstEpoch..MaxEpoch /\ e <= MaxEpoch /\ e < Power[Width] /\ e # 0
         /\ Fits(log[e]) /\ At(e).epoch = e
         /\ At(e) = [epoch |-> e, click |-> ClickAt(e)]
         /\ ClickAt(e) \in ClickType /\ ClickAt(e).verb \in Verbs
         /\ ClickAt(e).agent \in Agents /\ ClickAt(e).task \in Tasks \cup {NoTask}
         /\ ClickAt(e).ref \in Nat /\ ClickAt(e).parent \in Nat /\ ClickAt(e).parent < Power[Width]
         /\ \E c \in Clicks : At(e) = [epoch |-> e, click |-> Named(c)]
<1>1. e \in FirstEpoch..MaxEpoch /\ e \in Nat /\ e <= MaxEpoch /\ e # 0 /\ e < Power[Width]
  <2>1. e \in FirstEpoch..MaxEpoch
    BY DEF LogInv, RowsOK, Logged
  <2>2. QED
    BY <2>1, Bounds
<1>3. PICK c \in Clicks : IsRow(log, e, c)
  BY DEF LogInv, RowsOK, Logged
<1>4. ValidClick(c) /\ log[e] = Serialize(e, Named(c))
  BY <1>3 DEF IsRow
<1>5. /\ Named(c) \in ClickType /\ ValidClick(Named(c)) /\ Named(c).verb \in Verbs
      /\ Named(c).agent = c.agent /\ Named(c).task = c.task
      /\ c.agent \in Agents /\ c.task \in Tasks \cup {NoTask}
  BY <1>4, NamedIs
<1>6. Fits(log[e]) /\ At(e) = [epoch |-> e, click |-> Named(c)]
  BY <1>4, <1>5, FrameRoundTrip DEF At
<1>7. At(e).epoch = e /\ ClickAt(e) = Named(c)
  BY <1>6 DEF ClickAt
<1>8. ClickAt(e).ref \in Nat /\ ClickAt(e).parent \in Nat /\ ClickAt(e).parent < Power[Width]
  BY <1>5, <1>7, Bounds DEF ClickType
<1>9. \E b \in Clicks : At(e) = [epoch |-> e, click |-> Named(b)]
  BY <1>6
<1>10. QED
  BY <1>1, <1>5, <1>6, <1>7, <1>8, <1>9

\* What validation admits is read back as it was appended, under keys that order
\* the log as its epochs do: no length wraps in its one-byte header field and no
\* epoch is cut in its key (codec.hpp:36-53, 134-139), for any alphabet, widths and
\* limits that CodecAssumption and QueriesAssumption allow.
THEOREM RoundTrip == QueriesSpec => []RowsRoundTrip
<1>1. LogInv => RowsRoundTrip
  <2> SUFFICES ASSUME LogInv, NEW e \in Logged
               PROVE  /\ Fits(log[e])
                      /\ \E c \in Clicks : At(e) = [epoch |-> e, click |-> Named(c)]
                      /\ KeyToEpoch(EpochKey(e)) = e
                      /\ \A f \in Logged : Precedes(EpochKey(e), EpochKey(f)) <=> e < f
    BY DEF RowsRoundTrip
  <2>1. e \in Nat /\ e < Power[Width] /\ \A f \in Logged : f \in Nat /\ f < Power[Width]
    BY LogRow
  <2>2. KeyToEpoch(EpochKey(e)) = e
    BY <2>1, KeyRoundTrip
  <2>3. \A f \in Logged : Precedes(EpochKey(e), EpochKey(f)) <=> e < f
    BY <2>1, KeysAscend
  <2>4. QED
    BY <2>2, <2>3, LogRow
<1>2. QED
  BY <1>1, LogInvInductive, PTL

-----------------------------------------------------------------------------
(* What is read of the log *)

\* The order of the log.
InTime == ByEpoch(Clacks)

\* The clacks are the rows, one by epoch.
LEMMA ClacksAre ==
  ASSUME LogInv
  PROVE  /\ \A e \in Logged : At(e) \in Clacks
         /\ \A c \in Clacks : c.epoch \in Logged /\ c = At(c.epoch) /\ c.epoch \in Nat
         /\ \A c, d \in Clacks : c.epoch = d.epoch => c = d
<1>1. \A e \in Logged : At(e) \in Clacks /\ At(e).epoch = e /\ e \in Nat
  BY LogRow DEF Clacks
<1>2. ASSUME NEW c \in Clacks PROVE c.epoch \in Logged /\ c = At(c.epoch) /\ c.epoch \in Nat
  <2>1. PICK e \in Logged : c = At(e)
    BY DEF Clacks
  <2>2. c.epoch = e /\ e \in Nat
    BY <1>1, <2>1
  <2>3. QED
    BY <2>1, <2>2
<1>3. ASSUME NEW c \in Clacks, NEW d \in Clacks, c.epoch = d.epoch PROVE c = d
  <2>1. c = At(c.epoch) /\ d = At(d.epoch)
    BY <1>2
  <2>2. QED
    BY <1>3, <2>1
<1>4. QED
  BY <1>1, <1>2, <1>3

\* There are finitely many rows and clacks.
LEMMA LoggedFinite ==
  ASSUME LogInv
  PROVE  IsFiniteSet(Logged) /\ \A S \in SUBSET Clacks : IsFiniteSet(S)
<1>1. IsFiniteSet(Logged)
  <2>1. Logged \in SUBSET (FirstEpoch..MaxEpoch)
    BY DEF LogInv, RowsOK, Logged
  <2>2. IsFiniteSet(FirstEpoch..MaxEpoch)
    BY <2>1, Bounds, FS_Interval
  <2>3. QED
    BY <2>1, <2>2, FS_Subset
<1>2. ASSUME NEW S \in SUBSET Clacks PROVE IsFiniteSet(S)
  <2> DEFINE f == [c \in S |-> c.epoch]
  <2>1. f \in [S -> Logged]
    BY ClacksAre
  <2>2. \A c, d \in S : f[c] = f[d] => c = d
    BY ClacksAre
  <2>3. f \in Injection(S, Logged)
    <3>1. DOMAIN f = S
      OBVIOUS
    <3> HIDE DEF f
    <3>2. QED
      BY <2>1, <2>2, <3>1 DEF Injection, IsInjective
  <2> HIDE DEF f
  <2>4. QED
    BY <1>1, <2>3, FS_Injection
<1>3. QED
  BY <1>1, <1>2

\* Time orders the clacks.
LEMMA InTimeOrders ==
  ASSUME LogInv
  PROVE  \A S \in SUBSET Clacks : Orders(InTime, S)
<1>1. Orders(InTime, Clacks)
  BY ClacksAre, ByEpochOrders DEF InTime
<1>2. QED
  BY <1>1 DEF Orders

\* The chronicle of a set of clacks is its one listing by epoch.
LEMMA ChronicleIs ==
  ASSUME LogInv, NEW S \in SUBSET Clacks
  PROVE  /\ Lists(Chronicle(S), S, InTime)
         /\ Len(Chronicle(S)) = Cardinality(S)
<1>1. IsFiniteSet(S)
  BY LoggedFinite
<1>2. \A c \in S : c.epoch \in Nat
  BY ClacksAre
<1>3. \A c, d \in S : c.epoch = d.epoch => c = d
  BY ClacksAre
<1>4. Lists(Chronicle(S), S, ByEpoch(S))
  BY <1>1, <1>2, <1>3, ChronicleLists
<1>5. ByEpoch(S) \subseteq InTime
  BY DEF ByEpoch, InTime
<1>6. Lists(Chronicle(S), S, InTime)
  BY <1>4, <1>5 DEF Lists, Ascending
<1>7. Len(Chronicle(S)) = Cardinality(S)
  <2>1. Cardinality(S) \in Nat
    BY <1>1, FS_CardinalityType
  <2>2. DOMAIN Chronicle(S) = 1..Cardinality(S)
    BY DEF Chronicle
  <2>3. DOMAIN Chronicle(S) = 1..Len(Chronicle(S)) /\ Len(Chronicle(S)) \in Nat
    BY <1>6, SeqFacts DEF Lists
  <2>4. QED
    BY <2>1, <2>2, <2>3
<1>8. QED
  BY <1>6, <1>7

\* A listing of clacks in time is their chronicle.
LEMMA ChronicleOnly ==
  ASSUME LogInv, NEW S \in SUBSET Clacks, NEW s, Lists(s, S, InTime)
  PROVE  s = Chronicle(S)
<1>1. Orders(InTime, S)
  BY InTimeOrders
<1>2. QED
  BY <1>1, ChronicleIs, ListsOnce

-----------------------------------------------------------------------------
(* Rows read as clacks *)

\* Rows that hold frames of the log, listed as their epochs are, read as clacks.
Holds(r) == \E e \in Logged : r.frame = log[e]

\* The rows of S, in the order Q, hold the clacks of C in theirs.
ReadsAs(S, Q, C) ==
  /\ \A r \in S : Holds(r)
  /\ \A r, q \in S : <<r, q>> \in Q => Deserialize(r.frame).epoch < Deserialize(q.frame).epoch
  /\ \A c \in C : \E r \in S : c = Deserialize(r.frame)
  /\ \A r \in S : Deserialize(r.frame) \in C

\* Rows that come in the order of their epochs are read as a chronicle.
LEMMA ReadIs ==
  ASSUME LogInv, NEW S, NEW Q, NEW s, Lists(s, S, Q), NEW C, ReadsAs(S, Q, C)
  PROVE  C \subseteq Clacks /\ Read(s) = Chronicle(C)
<1>1. \A r \in S : Fits(r.frame) /\ Deserialize(r.frame) \in Clacks
  <2>1. ASSUME NEW r \in S PROVE Fits(r.frame) /\ Deserialize(r.frame) \in Clacks
    <3>1. PICK e \in Logged : r.frame = log[e]
      BY DEF Holds, ReadsAs
    <3>2. QED
      BY <3>1, LogRow, ClacksAre DEF At
  <2>2. QED
    BY <2>1
<1>2. C \subseteq Clacks
  BY <1>1 DEF ReadsAs
<1> DEFINE T == {r \in Range(s) : Fits(r.frame)}
           k == Kept(s, T)
           f == [r \in S |-> Deserialize(r.frame)]
<1>3. S \cap T = S
  BY <1>1 DEF Lists
<1>4. Lists(k, S, Q)
  <2>1. Lists(k, S \cap T, Q)
    <3> HIDE DEF T
    <3>1. QED
      BY KeptLists
  <2>2. QED
    BY <1>3, <2>1
<1>5. Read(s) = [i \in DOMAIN k |-> Deserialize(k[i].frame)]
  BY DEF Read
<1> HIDE DEF k, T
<1>6. k \in Seq(S) /\ DOMAIN k = 1..Len(k) /\ \A i \in DOMAIN k : k[i] \in S
  BY <1>4, SeqFacts DEF Lists
<1>7. f \in [S -> C] /\ \A y \in C : \E r \in S : y = f[r]
  BY DEF ReadsAs
<1>8. \A r, q \in S : <<r, q>> \in Q => <<f[r], f[q]>> \in InTime
  BY <1>1 DEF InTime, ByEpoch, ReadsAs
<1>9. Read(s) \in [DOMAIN k -> C] /\ \A i \in DOMAIN k : Read(s)[i] = f[k[i]]
  <2>1. \A r \in S : f[r] = Deserialize(r.frame) /\ f[r] \in C
    BY <1>7
  <2> HIDE DEF f
  <2>2. QED
    BY <1>5, <1>6, <2>1
<1>10. Lists(Read(s), C, InTime)
  <2> DEFINE t == Read(s)
  <2>1. t \in [DOMAIN k -> C] /\ \A i \in DOMAIN k : t[i] = f[k[i]]
    BY <1>9
  <2> HIDE DEF f, t
  <2>11. f \in [S -> C]
    BY <1>7
  <2>12. \A y \in C : \E x \in S : y = f[x]
    BY <1>7
  <2>13. t \in [DOMAIN k -> C]
    BY <2>1
  <2>14. \A i \in DOMAIN k : t[i] = f[k[i]]
    BY <2>1
  <2>2. Lists(t, C, InTime)
    BY <1>4, <1>8, <2>11, <2>12, <2>13, <2>14, MapLists
  <2>3. QED
    BY <2>2 DEF t
<1>11. QED
  BY <1>2, <1>10, ChronicleOnly

\* A table whose keys ascend with the epochs of the frames they hold.
KeyedByEpoch(rows) ==
  /\ \A r \in rows : Holds(r) /\ r.key \in Seq(Nat)
  /\ \A r, q \in rows : \/ r = q
                        \/ Deserialize(r.frame).epoch < Deserialize(q.frame).epoch /\ Precedes(r.key, q.key)
                        \/ Deserialize(q.frame).epoch < Deserialize(r.frame).epoch /\ Precedes(q.key, r.key)

\* A scan of keys that rise with the epochs comes in their order.
LEMMA ScanIs ==
  ASSUME LogInv, NEW rows, NEW prefix, KeyedByEpoch(Hits(rows, prefix))
  PROVE  LET hits == Hits(rows, prefix) IN
         /\ Lists(PrefixScan(rows, prefix), hits, ByKey(hits))
         /\ \A r, q \in hits : <<r, q>> \in ByKey(hits) =>
              Deserialize(r.frame).epoch < Deserialize(q.frame).epoch
         /\ \A r, q \in hits : Deserialize(r.frame).epoch < Deserialize(q.frame).epoch =>
              <<r, q>> \in ByKey(hits)
<1> DEFINE hits == Hits(rows, prefix)
           epoch(r) == Deserialize(r.frame).epoch
<1> SUFFICES ASSUME KeyedByEpoch(hits)
             PROVE  /\ Lists(PrefixScan(rows, prefix), hits, ByKey(hits))
                    /\ \A r, q \in hits : <<r, q>> \in ByKey(hits) => epoch(r) < epoch(q)
                    /\ \A r, q \in hits : epoch(r) < epoch(q) => <<r, q>> \in ByKey(hits)
  OBVIOUS
<1>1. \A r \in hits : epoch(r) \in Logged /\ epoch(r) \in Nat /\ r.key \in Seq(Nat)
  <2>1. ASSUME NEW r \in hits PROVE epoch(r) \in Logged /\ epoch(r) \in Nat /\ r.key \in Seq(Nat)
    <3>1. PICK e \in Logged : r.frame = log[e]
      BY DEF Holds, KeyedByEpoch
    <3>2. epoch(r) = e /\ e \in Nat
      BY <3>1, LogRow DEF At
    <3>3. QED
      BY <3>2 DEF KeyedByEpoch
  <2>2. QED
    BY <2>1
<1>2. \A r, q \in hits : \/ r = q
                         \/ epoch(r) < epoch(q) /\ Precedes(r.key, q.key)
                         \/ epoch(q) < epoch(r) /\ Precedes(q.key, r.key)
  BY DEF KeyedByEpoch
<1>3. \A r, q \in hits : <<r, q>> \in ByKey(hits) <=> Precedes(r.key, q.key)
  BY DEF ByKey
<1> HIDE DEF hits, epoch
<1>4. Orders(ByKey(hits), hits)
  <2>1. \A r \in hits : <<r, r>> \notin ByKey(hits)
    BY <1>1, <1>3, PrecedesOrders
  <2>2. ASSUME NEW r \in hits, NEW q \in hits, NEW p \in hits, <<r, q>> \in ByKey(hits), <<q, p>> \in ByKey(hits)
        PROVE  <<r, p>> \in ByKey(hits)
    <3>1. Precedes(r.key, q.key) /\ Precedes(q.key, p.key)
      BY <2>2, <1>3
    <3>2. r.key \in Seq(Nat) /\ q.key \in Seq(Nat) /\ p.key \in Seq(Nat)
      BY <1>1
    <3>3. Precedes(r.key, p.key)
      BY <3>1, <3>2, PrecedesOrders
    <3>4. QED
      BY <3>3, <1>3
  <2>3. \A r, q \in hits : r = q \/ <<r, q>> \in ByKey(hits) \/ <<q, r>> \in ByKey(hits)
    BY <1>2, <1>3
  <2>4. QED
    BY <2>1, <2>2, <2>3 DEF Orders
<1>5. IsFiniteSet(hits)
  <2> DEFINE f == [r \in hits |-> epoch(r)]
  <2>1. f \in [hits -> Logged]
    BY <1>1
  <2>2. \A r, q \in hits : f[r] = f[q] => r = q
    <3>1. \A r, q \in hits : epoch(r) = epoch(q) => r = q
      BY <1>1, <1>2
    <3>2. QED
      BY <3>1
  <2>3. f \in Injection(hits, Logged)
    <3>1. DOMAIN f = hits
      OBVIOUS
    <3> HIDE DEF f
    <3>2. QED
      BY <2>1, <2>2, <3>1 DEF Injection, IsInjective
  <2> HIDE DEF f
  <2>4. QED
    BY <2>3, LoggedFinite, FS_Injection
<1>6. Lists(PrefixScan(rows, prefix), hits, ByKey(hits))
  BY <1>4, <1>5, ScanLists DEF hits
<1>7. ASSUME NEW r \in hits, NEW q \in hits, <<r, q>> \in ByKey(hits) PROVE epoch(r) < epoch(q)
  <2>1. r # q /\ <<q, r>> \notin ByKey(hits)
    BY <1>7, <1>4 DEF Orders
  <2>2. QED
    BY <2>1, <1>2, <1>3
<1>8. ASSUME NEW r \in hits, NEW q \in hits, epoch(r) < epoch(q) PROVE <<r, q>> \in ByKey(hits)
  <2>1. r # q /\ ~(epoch(q) < epoch(r))
    BY <1>1, <1>8
  <2>2. QED
    BY <2>1, <1>2, <1>3
<1>9. QED
  BY <1>6, <1>7, <1>8

\* Such a scan, read, is the chronicle of the clacks whose rows it hit.
LEMMA ReadScanIs ==
  ASSUME LogInv, NEW rows, NEW prefix, KeyedByEpoch(Hits(rows, prefix)),
         NEW C, \A c \in C : \E r \in Hits(rows, prefix) : c = Deserialize(r.frame),
         \A r \in Hits(rows, prefix) : Deserialize(r.frame) \in C
  PROVE  C \subseteq Clacks /\ Read(PrefixScan(rows, prefix)) = Chronicle(C)
<1> DEFINE hits == Hits(rows, prefix)
<1>1. /\ Lists(PrefixScan(rows, prefix), hits, ByKey(hits))
      /\ \A r, q \in hits : <<r, q>> \in ByKey(hits) => Deserialize(r.frame).epoch < Deserialize(q.frame).epoch
  BY ScanIs
<1>2. \A r \in hits : Holds(r)
  BY DEF KeyedByEpoch
<1> HIDE DEF hits
<1>3. (\A c \in C : \E r \in hits : c = Deserialize(r.frame)) /\ \A r \in hits : Deserialize(r.frame) \in C
  BY DEF hits
<1>4. ReadsAs(hits, ByKey(hits), C)
  BY <1>1, <1>2, <1>3 DEF ReadsAs
<1>5. QED
  BY <1>1, <1>4, ReadIs

-----------------------------------------------------------------------------
(* cc.query_timeline *)

\* The clacks from an epoch on.
From(since) == {c \in Clacks : c.epoch >= since}

\* Every key begins with nothing.
LEMMA EveryPrefix ==
  ASSUME NEW key \in Seq(Nat)
  PROVE  IsPrefix(<< >>, key)
<1>1. << >> \in Seq(Nat) /\ Len(<< >>) = 0 /\ Len(key) \in Nat
  BY EmptySeq, SeqFacts
<1>2. \A i \in 1..Len(<< >>) : << >>[i] = key[i]
  BY <1>1
<1>3. Len(<< >>) <= Len(key)
  BY <1>1
<1>4. QED
  BY <1>1, <1>2, <1>3, PrefixIs

\* The key of an epoch is Width bytes.
LEMMA EpochKeyTyped ==
  ASSUME NEW e \in Nat
  PROVE  EpochKey(e) \in Seq(Byte) /\ EpochKey(e) \in Seq(Nat) /\ Len(EpochKey(e)) = Width
  BY Digits, BytesAreNumbers

\* Wal::read_range reads the first rows from an epoch on.
LEMMA ReadRangeIs ==
  ASSUME LogInv, NEW since \in Nat, since <= MaxEpoch, NEW n \in Nat
  PROVE  ReadRange(since, n) = FirstOf(n, Chronicle(From(since)))
<1> DEFINE row(e) == [key |-> EpochKey(e), frame |-> log[e]]
           hits == Hits(WalRows, << >>)
           scan == PrefixScan(WalRows, << >>)
           T == {r \in WalRows : ~Precedes(r.key, EpochKey(since))}
<1>1. \A e \in Logged : /\ e \in Nat /\ e < Power[Width] /\ row(e) \in WalRows
                        /\ row(e).key = EpochKey(e) /\ row(e).frame = log[e]
                        /\ Deserialize(row(e).frame).epoch = e /\ EpochKey(e) \in Seq(Nat)
  BY LogRow, EpochKeyTyped DEF WalRows, At
<1>2. \A r \in WalRows : \E e \in Logged : r = row(e)
  BY DEF WalRows
<1> HIDE DEF row
<1>3. hits = WalRows
  <2>1. \A r \in WalRows : IsPrefix(<< >>, r.key)
    BY <1>1, <1>2, EveryPrefix
  <2>2. QED
    BY <2>1 DEF Hits
<1>4. KeyedByEpoch(WalRows)
  <2>1. ASSUME NEW r \in WalRows, NEW q \in WalRows
        PROVE  /\ Holds(r) /\ r.key \in Seq(Nat)
               /\ \/ r = q
                  \/ Deserialize(r.frame).epoch < Deserialize(q.frame).epoch /\ Precedes(r.key, q.key)
                  \/ Deserialize(q.frame).epoch < Deserialize(r.frame).epoch /\ Precedes(q.key, r.key)
    <3>1. PICK d \in Logged : r = row(d)
      BY <1>2
    <3>2. PICK e \in Logged : q = row(e)
      BY <1>2
    <3>3. d = e \/ d < e \/ e < d
      BY <1>1
    <3>4. Holds(r) /\ r.key \in Seq(Nat)
      BY <3>1, <1>1 DEF Holds
    <3>5. (d < e => Precedes(r.key, q.key)) /\ (e < d => Precedes(q.key, r.key))
      BY <3>1, <3>2, <1>1, KeysAscend
    <3>6. QED
      BY <3>1, <3>2, <3>3, <3>4, <3>5, <1>1
  <2>2. QED
    BY <2>1 DEF KeyedByEpoch
<1>5. /\ Lists(scan, WalRows, ByKey(WalRows))
      /\ \A r, q \in WalRows : <<r, q>> \in ByKey(WalRows) => Deserialize(r.frame).epoch < Deserialize(q.frame).epoch
  <2>1. KeyedByEpoch(Hits(WalRows, << >>))
    BY <1>3, <1>4
  <2>2. /\ Lists(scan, hits, ByKey(hits))
        /\ \A r, q \in hits : <<r, q>> \in ByKey(hits) => Deserialize(r.frame).epoch < Deserialize(q.frame).epoch
    BY <2>1, ScanIs
  <2>3. QED
    BY <2>2, <1>3
<1> HIDE DEF scan, hits
<1>6. Lists(Kept(scan, T), WalRows \cap T, ByKey(WalRows))
  <2> HIDE DEF T
  <2>1. QED
    BY <1>5, KeptLists
<1>7. WalRows \cap T = T /\ T \subseteq WalRows
  OBVIOUS
<1>8. \A e \in Logged : row(e) \in T <=> e >= since
  <2>1. ASSUME NEW e \in Logged PROVE row(e) \in T <=> e >= since
    <3>1. Precedes(EpochKey(e), EpochKey(since)) <=> e < since
      BY <1>1, KeysAscend, Bounds
    <3>2. row(e) \in T <=> ~(e < since)
      BY <3>1, <1>1
    <3>3. QED
      BY <3>2, <1>1
  <2>2. QED
    BY <2>1
<1>9. /\ \A c \in From(since) : \E r \in T : c = Deserialize(r.frame)
      /\ \A r \in T : Deserialize(r.frame) \in From(since)
  <2>1. ASSUME NEW c \in From(since) PROVE \E r \in T : c = Deserialize(r.frame)
    <3>1. c.epoch \in Logged /\ c = At(c.epoch) /\ c.epoch >= since
      BY ClacksAre DEF From
    <3>2. row(c.epoch) \in T /\ row(c.epoch).frame = log[c.epoch]
      BY <3>1, <1>1, <1>8
    <3>3. QED
      BY <3>1, <3>2 DEF At
  <2>2. ASSUME NEW r \in T PROVE Deserialize(r.frame) \in From(since)
    <3>1. PICK e \in Logged : r = row(e)
      BY <1>2
    <3>2. Deserialize(r.frame) = At(e) /\ e >= since /\ At(e) \in Clacks /\ At(e).epoch = e
      BY <3>1, <1>1, <1>8, ClacksAre, LogRow DEF At
    <3>3. QED
      BY <3>2 DEF From
  <2> HIDE DEF T
  <2>3. QED
    BY <2>1, <2>2
<1>10. \A r \in T : Holds(r)
  BY <1>4 DEF KeyedByEpoch
<1>11. \A r, q \in T : <<r, q>> \in ByKey(WalRows) => Deserialize(r.frame).epoch < Deserialize(q.frame).epoch
  BY <1>5
<1>12. Read(Kept(scan, T)) = Chronicle(From(since))
  <2> HIDE DEF T
  <2>1. QED
    <3>1. ReadsAs(T, ByKey(WalRows), From(since))
      BY <1>9, <1>10, <1>11 DEF ReadsAs
    <3>2. Lists(Kept(scan, T), T, ByKey(WalRows))
      BY <1>6, <1>7
    <3>3. QED
      BY <3>1, <3>2, ReadIs
<1>13. QED
  BY <1>12 DEF ReadRange, scan

\* The filters of cc.query_timeline look at one clack at a time.
LEMMA MatchingIs ==
  ASSUME NEW S, NEW T, S \subseteq T, NEW verbs, NEW task, NEW agent
  PROVE  /\ Matching(S, verbs, task, agent) \subseteq S
         /\ S \cap Matching(S, verbs, task, agent) = S \cap Matching(T, verbs, task, agent)
         /\ T \cap Matching(T, verbs, task, agent) = Matching(T, verbs, task, agent)
  BY DEF Matching

\* Filtering what was read first is the beginning of what would have been read.
LEMMA KeptOfFirst ==
  ASSUME LogInv, NEW A \in SUBSET Clacks, NEW M \in SUBSET A, NEW n \in Nat, NEW T,
         Range(FirstOf(n, Chronicle(A))) \cap T = Range(FirstOf(n, Chronicle(A))) \cap M
  PROVE  LET k == Kept(FirstOf(n, Chronicle(A)), T) IN
         /\ k \in Seq(Clacks) /\ Chronicle(M) \in Seq(Clacks)
         /\ Len(k) <= Len(Chronicle(M)) /\ \A i \in 1..Len(k) : k[i] = Chronicle(M)[i]
         /\ Cardinality(A) <= n => k = Chronicle(M)
<1> DEFINE read == FirstOf(n, Chronicle(A))
           k == Kept(read, T)
           t == Chronicle(M)
<1>1. Lists(Chronicle(A), A, InTime) /\ Len(Chronicle(A)) = Cardinality(A) /\ Lists(t, M, InTime)
  BY ChronicleIs
<1>2. Orders(InTime, A) /\ Orders(InTime, Clacks) /\ Orders(InTime, M)
  BY InTimeOrders
<1>3. /\ Lists(read, Range(read), InTime) /\ Range(read) \subseteq A
      /\ \A x \in A, y \in Range(read) : <<x, y>> \in InTime => x \in Range(read)
  BY <1>1, <1>2, FirstOfLists
<1>4. Range(read) \cap T = Range(read) \cap M
  OBVIOUS
<1> HIDE DEF read
<1>5. Lists(k, Range(read) \cap M, InTime)
  BY <1>3, <1>4, KeptLists
<1> HIDE DEF k, t
<1>6. k \in Seq(Clacks) /\ t \in Seq(Clacks)
  <2>1. Range(read) \cap M \subseteq Clacks /\ M \subseteq Clacks
    OBVIOUS
  <2>2. k \in Seq(Range(read) \cap M) /\ t \in Seq(M)
    BY <1>1, <1>5 DEF Lists
  <2>3. QED
    BY <2>1, <2>2, SeqMonotonic
<1>7. Len(k) <= Len(t) /\ \A i \in 1..Len(k) : k[i] = t[i]
  <2>1. Range(k) = Range(read) \cap M /\ Range(t) = M /\ Ascending(k, InTime) /\ Ascending(t, InTime)
    BY <1>1, <1>5 DEF Lists
  <2>2. \A x \in Range(t), y \in Range(k) : <<x, y>> \in InTime => x \in Range(k)
    BY <2>1, <1>3
  <2>3. Range(k) \subseteq Range(t)
    BY <2>1
  <2>4. QED
    BY <1>2, <1>6, <2>1, <2>2, <2>3, Beginning
<1>8. ASSUME Cardinality(A) <= n PROVE k = t
  <2>1. read = Chronicle(A)
    BY <1>1, <1>8, FirstOfIs DEF Lists, read
  <2>2. Range(read) \cap M = M
    BY <2>1, <1>1 DEF Lists
  <2>3. Lists(k, M, InTime)
    BY <1>5, <2>2
  <2>4. QED
    BY <2>3, ChronicleOnly DEF t
<1>9. QED
  BY <1>6, <1>7, <1>8 DEF k, t, read

\* There are no more clacks from an epoch on than rows.
LEMMA FromIs ==
  ASSUME LogInv, NEW since \in Nat
  PROVE  /\ From(since) \in SUBSET Clacks
         /\ Cardinality(From(since)) <= Cardinality({e \in Logged : e >= since})
<1> DEFINE rows == {e \in Logged : e >= since}
           f == [c \in From(since) |-> c.epoch]
<1>1. rows \in SUBSET Logged /\ IsFiniteSet(rows)
  BY LoggedFinite, FS_Subset
<1>2. f \in [From(since) -> rows]
  BY ClacksAre DEF From
<1>3. \A c, d \in From(since) : f[c] = f[d] => c = d
  BY ClacksAre DEF From
<1>4. f \in Injection(From(since), rows)
  <2>1. DOMAIN f = From(since)
    OBVIOUS
  <2> HIDE DEF f
  <2>2. QED
    BY <1>2, <1>3, <2>1 DEF Injection, IsInjective
<1> HIDE DEF f, rows
<1>5. Cardinality(From(since)) <= Cardinality(rows)
  BY <1>1, <1>4, FS_Injection
<1>6. QED
  BY <1>5 DEF From, rows

\* The window of cc.query_timeline is a number.
LEMMA WindowTyped ==
  ASSUME NEW limit \in Nat
  PROVE  Window(limit) \in Nat
  BY QueriesAssumption DEF Window

\* cc.query_timeline answers with the first clacks that match, in order, and stops
\* early only when its window is full (mcp_server.hpp:154-189), for any window and
\* any limit.
THEOREM Timeline == QueriesSpec => []TimelineExact
<1>1. LogInv => TimelineExact
  <2> SUFFICES ASSUME LogInv, NEW since \in {0} \cup Logged, NEW limit \in 1..MaxEpoch,
                      NEW verbs \in {{}, {"CLAIM"}}, NEW task \in {<<>>} \cup Tasks,
                      NEW agent \in {<<>>} \cup Agents
               PROVE  LET matching == Chronicle(Matching({c \in Clacks : c.epoch >= since}, verbs, task, agent))
                          answer == QueryTimeline(since, limit, verbs, task, agent)
                          rows == Cardinality({e \in Logged : e >= since})
                      IN /\ IsPrefix(answer, matching)
                         /\ rows <= Window(limit) => answer = FirstOf(limit, matching)
    BY Zenon DEF TimelineExact
  <2> DEFINE A == From(since)
             M == Matching(A, verbs, task, agent)
             n == Window(limit)
             read == FirstOf(n, Chronicle(A))
             T == Matching(Range(read), verbs, task, agent)
             k == Kept(read, T)
             t == Chronicle(M)
             rows == Cardinality({e \in Logged : e >= since})
  <2>1. since \in Nat /\ since <= MaxEpoch /\ limit \in Nat
    BY LogRow, Bounds
  <2>2. n \in Nat
    BY <2>1, WindowTyped
  <2>3. A \in SUBSET Clacks /\ Cardinality(A) <= rows
    BY <2>1, FromIs
  <2>4. QueryTimeline(since, limit, verbs, task, agent) = FirstOf(limit, k)
    <3>1. ReadRange(since, n) = read
      BY <2>1, <2>2, ReadRangeIs
    <3> HIDE DEF read, n
    <3>2. QED
      BY <3>1 DEF QueryTimeline, n
  <2>5. Range(read) \subseteq A
    <3>1. Lists(Chronicle(A), A, InTime) /\ Orders(InTime, A)
      BY <2>3, ChronicleIs, InTimeOrders
    <3> HIDE DEF A, n
    <3>2. QED
      BY <2>2, <3>1, FirstOfLists
  <2> HIDE DEF n, A, rows
  <2>6. M \in SUBSET A /\ Range(read) \cap T = Range(read) \cap M
    <3>1. M \subseteq A
      BY DEF Matching
    <3> HIDE DEF read
    <3>2. QED
      BY <2>5, <3>1, MatchingIs
  <2>7. /\ k \in Seq(Clacks) /\ t \in Seq(Clacks)
        /\ Len(k) <= Len(t) /\ \A i \in 1..Len(k) : k[i] = t[i]
        /\ Cardinality(A) <= n => k = t
    <3> HIDE DEF T, M
    <3>1. QED
      BY <2>2, <2>3, <2>6, KeptOfFirst
  <2> HIDE DEF k, t, M, T, read
  <2>8. IsPrefix(FirstOf(limit, k), t)
    <3> DEFINE u == FirstOf(limit, k)
    <3>1. /\ u \in Seq(Clacks) /\ Len(u) = IF limit < Len(k) THEN limit ELSE Len(k)
          /\ \A i \in 1..Len(u) : u[i] = k[i]
      BY <2>1, <2>7, FirstOfIs
    <3> HIDE DEF u
    <3>2. Len(k) \in Nat /\ Len(t) \in Nat /\ Len(u) \in Nat
      BY <2>7, <3>1, SeqFacts
    <3>20. Len(k) <= Len(t)
      BY <2>7
    <3>21. Len(u) = IF limit < Len(k) THEN limit ELSE Len(k)
      BY <3>1
    <3>3. Len(u) <= Len(k) /\ Len(u) <= Len(t) /\ \A i \in 1..Len(u) : i \in 1..Len(k)
      BY <3>2, <3>20, <3>21, <2>1
    <3>4. \A i \in 1..Len(u) : u[i] = t[i]
      BY <3>1, <3>3, <2>7
    <3>5. u \in Seq(Clacks) /\ t \in Seq(Clacks)
      BY <3>1, <2>7
    <3>6. QED
      BY <3>3, <3>4, <3>5, PrefixIs DEF u
  <2>9. rows <= n => FirstOf(limit, k) = FirstOf(limit, t)
    <3>1. rows \in Nat /\ Cardinality(A) \in Nat
      <4>1. IsFiniteSet(A) /\ IsFiniteSet(Logged)
        BY <2>3, LoggedFinite
      <4>2. IsFiniteSet({e \in Logged : e >= since})
        BY <4>1, FS_Subset
      <4>3. QED
        BY <4>1, <4>2, FS_CardinalityType DEF rows
    <3>2. rows <= n => Cardinality(A) <= n
      BY <3>1, <2>2, <2>3
    <3>3. QED
      BY <3>2, <2>7
  <2>10. QED
    BY <2>4, <2>8, <2>9 DEF t, M, A, rows, n, From
<1>2. QED
  BY <1>1, LogInvInductive, PTL

-----------------------------------------------------------------------------
(* What the tables of the materializer are of the log *)

\* The clicks that have been projected, by epoch.
History == [d \in Seen |-> ClickAt(d)]

\* The history g is h and one click more, whose turn p puts after those that o
\* orders.
Grown(h, g, o, p, e, c) ==
  /\ DOMAIN g = DOMAIN h \cup {e} /\ g[e] = c /\ e \notin DOMAIN h
  /\ \A d \in DOMAIN h : g[d] = h[d] /\ d \in Nat /\ d # e /\ d # 0
  /\ e \in Nat /\ e # 0
  /\ \A d, f \in DOMAIN h : <<d, f>> \in p <=> <<d, f>> \in o
  /\ \A d \in DOMAIN g : <<d, e>> \in p
  /\ \A d \in DOMAIN h : <<e, d>> \notin p
  /\ \A d \in DOMAIN g : g[d] \in ClickType /\ g[d].verb \in Verbs
                         /\ g[d].agent \in Agents /\ g[d].task \in Tasks \cup {NoTask}

\* E's newest and oldest in the order o.
IsNewest(o, d, E) == d \in E /\ \A f \in E : <<f, d>> \in o
IsOldest(o, d, E) == d \in E /\ \A f \in E : <<d, f>> \in o

\* The tables, each by the history of clicks h in the order o: the replies, ...
TreeIs(tree, h) ==
  /\ \A d \in DOMAIN h : h[d].parent # 0 => <<h[d].parent, 1, d>> \in tree
  /\ \A x \in tree : \E d \in DOMAIN h : h[d].parent # 0 /\ x = <<h[d].parent, 1, d>>

\* ... the verdicts on epoch d that followed it, ...
VerdictsOn(h, o, d) ==
  {f \in DOMAIN h : h[f].verb \in Verdicts /\ h[f].ref = d /\ <<d, f>> \in o}

\* ... what is flagged and has none, ...
QueueIs(queue, h, o) == queue = {d \in DOMAIN h : h[d].hitl /\ VerdictsOn(h, o, d) = {}}

\* ... what the newest of them makes of an artifact, ...
ReviewIs(review, h, o, d) ==
  \/ VerdictsOn(h, o, d) = {} /\ review = "pending"
  \/ \E f \in VerdictsOn(h, o, d) :
       /\ IsNewest(o, f, VerdictsOn(h, o, d))
       /\ review = IF h[f].verb = "APPROVE" THEN "approved" ELSE "rejected"

\* ... the artifacts, ...
IndexIs(index, h, o) ==
  /\ \A a \in index : \E d \in DOMAIN h : /\ h[d].verb = "ARTIFACT"
                                          /\ a = [task |-> h[d].task, epoch |-> d, review |-> a.review]
                                          /\ ReviewIs(a.review, h, o, d)
  /\ \A d \in DOMAIN h : h[d].verb = "ARTIFACT" => \E a \in index : a.epoch = d

\* ... what the board shows of a task, ...
OnBoard(h, t) == {d \in DOMAIN h : h[d].task = t /\ h[d].verb \in BoardVerbs}
ClaimsOf(h, t) == {d \in DOMAIN h : h[d].task = t /\ h[d].verb = "CLAIM"}

\* ... its row, ...
TaskRowIs(row, h, o, t) ==
  \/ OnBoard(h, t) = {} /\ row = NoRow
  \/ /\ row \in TaskState
     /\ IsOldest(o, row.created, OnBoard(h, t))
     /\ IsNewest(o, row.last, OnBoard(h, t))
     /\ row.status = StatusAfter(h[row.last].verb)
     /\ \/ ClaimsOf(h, t) = {} /\ row.owner = NoAgent
        \/ \E d \in ClaimsOf(h, t) : IsNewest(o, d, ClaimsOf(h, t)) /\ row.owner = h[d].agent

BoardIs(board, h, o) == DOMAIN board = Tasks /\ \A t \in Tasks : TaskRowIs(board[t], h, o, t)

\* ... an agent's signs of life and its announcements, ...
SignsOf(h, a) == {d \in DOMAIN h : h[d].agent = a /\ h[d].verb \in {"ANNOUNCE", "HEARTBEAT"}}
ProfilesOf(h, a) == {d \in DOMAIN h : h[d].agent = a /\ h[d].verb = "ANNOUNCE"}

\* ... and its row.
PresenceRowIs(row, h, o, a) ==
  \/ SignsOf(h, a) = {} /\ row = NoRow
  \/ /\ row \in Presence
     /\ IsNewest(o, row.last, SignsOf(h, a))
     /\ \/ ProfilesOf(h, a) = {} /\ row.profile = 0
        \/ IsNewest(o, row.profile, ProfilesOf(h, a))

PresenceIs(presence, h, o) == DOMAIN presence = Agents /\ \A a \in Agents : PresenceRowIs(presence[a], h, o, a)

\* All of the tables but agent_log, which no theorem is about.
ViewsAre(v, h, o) ==
  /\ TreeIs(v.thread_tree, h) /\ QueueIs(v.hitl_queue, h, o) /\ IndexIs(v.artifact_index, h, o)
  /\ BoardIs(v.task_board, h, o) /\ PresenceIs(v.agent_presence, h, o)

\* The turns are pairs of clacks that had theirs, no two clacks had the same, and
\* the materializer has seen these.
OrderInv ==
  /\ order \subseteq Seen \X Seen
  /\ \A d, f \in Seen : <<d, f>> \in order /\ <<f, d>> \in order => d = f
ViewsInv == OrderInv /\ ViewsAre(views, History, order)

-----------------------------------------------------------------------------
(* The projections *)

\* A projection into thread_tree keeps it what the history says.
LEMMA TreeGrows ==
  ASSUME NEW h, NEW g, NEW o, NEW p, NEW e, NEW c, Grown(h, g, o, p, e, c), NEW tree, TreeIs(tree, h)
  PROVE  TreeIs(ProjectThreadTree(tree, e, c), g)
<1> DEFINE new == ProjectThreadTree(tree, e, c)
<1>1. new = IF c.parent = 0 THEN tree ELSE tree \cup {<<c.parent, 1, e>>}
  BY DEF ProjectThreadTree
<1>2. ASSUME NEW d \in DOMAIN g, g[d].parent # 0 PROVE <<g[d].parent, 1, d>> \in new
  <2>1. CASE d = e
    BY <1>1, <1>2, <2>1 DEF Grown
  <2>2. CASE d # e
    <3>1. d \in DOMAIN h /\ g[d] = h[d]
      BY <2>2 DEF Grown
    <3>2. QED
      BY <3>1, <1>1, <1>2 DEF TreeIs
  <2>3. QED
    BY <2>1, <2>2
<1>3. ASSUME NEW x \in new PROVE \E d \in DOMAIN g : g[d].parent # 0 /\ x = <<g[d].parent, 1, d>>
  <2>1. CASE x \in tree
    <3>1. PICK d \in DOMAIN h : h[d].parent # 0 /\ x = <<h[d].parent, 1, d>>
      BY <2>1 DEF TreeIs
    <3>2. d \in DOMAIN g /\ g[d] = h[d]
      BY DEF Grown
    <3>3. QED
      BY <3>1, <3>2
  <2>2. CASE x \notin tree
    <3>1. c.parent # 0 /\ x = <<c.parent, 1, e>>
      BY <1>1, <2>2
    <3>2. e \in DOMAIN g /\ g[e] = c
      BY DEF Grown
    <3>3. QED
      BY <3>1, <3>2
  <2>3. QED
    BY <2>1, <2>2
<1>4. QED
  BY <1>2, <1>3 DEF TreeIs

\* A set of epochs grows by e or not at all.
LEMMA NewestGrows ==
  ASSUME NEW h, NEW g, NEW o, NEW p, NEW e, NEW c, Grown(h, g, o, p, e, c), NEW E, E \subseteq DOMAIN h
  PROVE  /\ IsNewest(p, e, E \cup {e})
         /\ \A d : IsOldest(o, d, E) => IsOldest(p, d, E \cup {e}) /\ IsOldest(p, d, E)
         /\ \A d : IsNewest(o, d, E) => IsNewest(p, d, E)
         /\ E = {} => IsOldest(p, e, E \cup {e})
<1>1. \A d, f \in E : <<d, f>> \in p <=> <<d, f>> \in o
  BY DEF Grown
<1>2. \A d \in E \cup {e} : <<d, e>> \in p
  BY DEF Grown
<1>3. QED
  BY <1>1, <1>2 DEF IsNewest, IsOldest

\* A verdict is one on an epoch from its turn on; on e only e's own.
LEMMA VerdictsGrow ==
  ASSUME NEW h, NEW g, NEW o, NEW p, NEW e, NEW c, Grown(h, g, o, p, e, c)
  PROVE  /\ \A d \in DOMAIN h : VerdictsOn(g, p, d) = IF c.verb \in Verdicts /\ c.ref = d
                                                     THEN VerdictsOn(h, o, d) \cup {e} ELSE VerdictsOn(h, o, d)
         /\ VerdictsOn(g, p, e) = IF c.verb \in Verdicts /\ c.ref = e THEN {e} ELSE {}
<1>0. DOMAIN g = DOMAIN h \cup {e} /\ g[e] = c /\ e \notin DOMAIN h
      /\ <<e, e>> \in p
      /\ \A d \in DOMAIN h : g[d] = h[d] /\ <<d, e>> \in p /\ <<e, d>> \notin p
  BY DEF Grown
<1>1. ASSUME NEW d \in DOMAIN h
      PROVE VerdictsOn(g, p, d) = IF c.verb \in Verdicts /\ c.ref = d THEN VerdictsOn(h, o, d) \cup {e} ELSE VerdictsOn(h, o, d)
  <2>1. \A f \in DOMAIN h : <<d, f>> \in p <=> <<d, f>> \in o
    BY DEF Grown
  <2>2. QED
    BY <1>0, <2>1 DEF VerdictsOn
<1>2. VerdictsOn(g, p, e) = IF c.verb \in Verdicts /\ c.ref = e THEN {e} ELSE {}
  <2>1. \A f : f \in VerdictsOn(g, p, e) <=>
                f \in DOMAIN g /\ g[f].verb \in Verdicts /\ g[f].ref = e /\ <<e, f>> \in p
    BY DEF VerdictsOn
  <2>2. e \in VerdictsOn(g, p, e) <=> c.verb \in Verdicts /\ c.ref = e
    <3>1. e \in DOMAIN g /\ g[e] = c /\ <<e, e>> \in p
      BY <1>0
    <3>2. e \in VerdictsOn(g, p, e) <=> g[e].verb \in Verdicts /\ g[e].ref = e
      BY <2>1, <3>1, Zenon
    <3>3. QED
      BY <3>1, <3>2
  <2>3. \A f \in VerdictsOn(g, p, e) : f = e
    BY <2>1, <1>0
  <2>4. QED
    BY <2>2, <2>3
<1>3. QED
  BY <1>1, <1>2

\* One into hitl_queue: a verdict takes out what it refers to.
LEMMA QueueGrows ==
  ASSUME NEW h, NEW g, NEW o, NEW p, NEW e, NEW c, Grown(h, g, o, p, e, c), NEW queue, QueueIs(queue, h, o)
  PROVE  QueueIs(ProjectHitlQueue(queue, e, c), g, p)
<1> DEFINE new == ProjectHitlQueue(queue, e, c)
<1>1. \A d : d \in new <=> /\ d \in queue \/ (c.hitl /\ d = e)
                           /\ ~(c.verb \in Verdicts /\ c.ref # 0 /\ d = c.ref)
  BY DEF ProjectHitlQueue
<1>2. \A d \in DOMAIN h : d \in queue <=> h[d].hitl /\ VerdictsOn(h, o, d) = {}
  BY DEF QueueIs
<1>21. queue \subseteq DOMAIN h
  BY DEF QueueIs
<1>3. DOMAIN g = DOMAIN h \cup {e} /\ g[e] = c /\ e \notin DOMAIN h /\ e # 0
      /\ \A d \in DOMAIN h : g[d] = h[d] /\ d # e /\ d # 0
  BY DEF Grown
<1>4. ASSUME NEW d \in DOMAIN h PROVE d \in new <=> g[d].hitl /\ VerdictsOn(g, p, d) = {}
  <2>1. d \in new <=> d \in queue /\ ~(c.verb \in Verdicts /\ c.ref = d)
    BY <1>1, <1>3
  <2>2. VerdictsOn(g, p, d) = {} <=> VerdictsOn(h, o, d) = {} /\ ~(c.verb \in Verdicts /\ c.ref = d)
    BY VerdictsGrow
  <2>3. QED
    BY <2>1, <2>2, <1>2, <1>3
<1>5. e \in new <=> g[e].hitl /\ VerdictsOn(g, p, e) = {}
  <2>1. VerdictsOn(g, p, e) = {} <=> ~(c.verb \in Verdicts /\ c.ref = e)
    BY VerdictsGrow
  <2>3. e \notin queue
    BY <1>3, <1>21
  <2>4. QED
    BY <2>1, <2>3, <1>1, <1>3
<1>6. new \subseteq DOMAIN g
  BY <1>1, <1>3, <1>21
<1>7. \A d \in DOMAIN g : d \in new <=> g[d].hitl /\ VerdictsOn(g, p, d) = {}
  BY <1>3, <1>4, <1>5
<1> HIDE DEF new
<1>8. new = {d \in DOMAIN g : g[d].hitl /\ VerdictsOn(g, p, d) = {}}
  BY <1>6, <1>7
<1>9. QED
  BY <1>8 DEF QueueIs, new

\* A history leaves an artifact one review.
LEMMA ReviewOnce ==
  ASSUME NEW h, NEW o, NEW d, NEW r, NEW q, ReviewIs(r, h, o, d), ReviewIs(q, h, o, d),
         \A f, b \in DOMAIN h : <<f, b>> \in o /\ <<b, f>> \in o => f = b
  PROVE  r = q
<1>1. CASE VerdictsOn(h, o, d) = {}
  BY <1>1 DEF ReviewIs
<1>2. CASE VerdictsOn(h, o, d) # {}
  <2>1. PICK f \in VerdictsOn(h, o, d) : /\ IsNewest(o, f, VerdictsOn(h, o, d))
                                      /\ r = IF h[f].verb = "APPROVE" THEN "approved" ELSE "rejected"
    BY <1>2 DEF ReviewIs
  <2>2. PICK b \in VerdictsOn(h, o, d) : /\ IsNewest(o, b, VerdictsOn(h, o, d))
                                      /\ q = IF h[b].verb = "APPROVE" THEN "approved" ELSE "rejected"
    BY <1>2 DEF ReviewIs
  <2>3. f \in DOMAIN h /\ b \in DOMAIN h /\ <<f, b>> \in o /\ <<b, f>> \in o
    BY <2>1, <2>2 DEF IsNewest, VerdictsOn
  <2>4. f = b
    BY <2>3
  <2>5. QED
    BY <2>1, <2>2, <2>4
<1>3. QED
  BY <1>1, <1>2

\* A verdict renews the review it refers to and leaves the others.
LEMMA ReviewGrows ==
  ASSUME NEW h, NEW g, NEW o, NEW p, NEW e, NEW c, Grown(h, g, o, p, e, c), NEW d \in DOMAIN h
  PROVE  /\ ~(c.verb \in Verdicts /\ c.ref = d) => \A r : ReviewIs(r, h, o, d) => ReviewIs(r, g, p, d)
         /\ c.verb \in Verdicts /\ c.ref = d =>
              ReviewIs(IF c.verb = "APPROVE" THEN "approved" ELSE "rejected", g, p, d)
<1>1. VerdictsOn(g, p, d) = IF c.verb \in Verdicts /\ c.ref = d THEN VerdictsOn(h, o, d) \cup {e} ELSE VerdictsOn(h, o, d)
  BY VerdictsGrow
<1>2. ASSUME ~(c.verb \in Verdicts /\ c.ref = d), NEW r, ReviewIs(r, h, o, d) PROVE ReviewIs(r, g, p, d)
  <2>1. VerdictsOn(g, p, d) = VerdictsOn(h, o, d)
    BY <1>1, <1>2
  <2>2. \A f \in VerdictsOn(h, o, d) : g[f] = h[f]
    BY DEF Grown, VerdictsOn
  <2>3. \A f : IsNewest(o, f, VerdictsOn(h, o, d)) => IsNewest(p, f, VerdictsOn(h, o, d))
    <3>1. VerdictsOn(h, o, d) \subseteq DOMAIN h
      BY DEF VerdictsOn
    <3>2. QED
      BY <3>1, NewestGrows
  <2>4. QED
    BY <1>2, <2>1, <2>2, <2>3 DEF ReviewIs
<1>3. ASSUME c.verb \in Verdicts, c.ref = d
      PROVE ReviewIs(IF c.verb = "APPROVE" THEN "approved" ELSE "rejected", g, p, d)
  <2>1. VerdictsOn(g, p, d) = VerdictsOn(h, o, d) \cup {e} /\ VerdictsOn(h, o, d) \subseteq DOMAIN h
    BY <1>1, <1>3 DEF VerdictsOn
  <2>2. IsNewest(p, e, VerdictsOn(g, p, d)) /\ e \in VerdictsOn(g, p, d)
    BY <2>1, NewestGrows
  <2>3. g[e] = c
    BY DEF Grown
  <2>4. QED
    BY <2>2, <2>3 DEF ReviewIs
<1>4. QED
  BY <1>2, <1>3

\* One into artifact_index.
LEMMA IndexGrows ==
  ASSUME NEW h, NEW g, NEW o, NEW p, NEW e, NEW c, Grown(h, g, o, p, e, c), NEW index, IndexIs(index, h, o)
  PROVE  IndexIs(ProjectArtifactIndex(index, e, c), g, p)
<1> DEFINE new == ProjectArtifactIndex(index, e, c)
           word == IF c.verb = "APPROVE" THEN "approved" ELSE "rejected"
           entry == [task |-> c.task, epoch |-> e, review |-> "pending"]
<1>1. DOMAIN g = DOMAIN h \cup {e} /\ g[e] = c /\ e \notin DOMAIN h /\ e # 0
      /\ \A d \in DOMAIN h : g[d] = h[d] /\ d # e /\ d # 0
  BY DEF Grown
<1>2. \A a \in index : /\ a.epoch \in DOMAIN h /\ h[a.epoch].verb = "ARTIFACT"
                       /\ a = [task |-> h[a.epoch].task, epoch |-> a.epoch, review |-> a.review]
                       /\ ReviewIs(a.review, h, o, a.epoch)
  BY DEF IndexIs
<1>3. \A d \in DOMAIN h : h[d].verb = "ARTIFACT" => \E a \in index : a.epoch = d
  BY DEF IndexIs
<1>4. CASE c.verb = "ARTIFACT"
  <2>1. new = {a \in index : <<a.task, a.epoch>> # <<c.task, e>>} \cup {entry}
    <3>1. ~(c.verb \in Verdicts /\ c.ref # 0)
      BY <1>4 DEF Verdicts
    <3>2. QED
      BY <1>4, <3>1 DEF ProjectArtifactIndex
  <2>2. new = index \cup {entry}
    <3>1. \A a \in index : a.epoch # e
      BY <1>1, <1>2
    <3> HIDE DEF entry
    <3>2. QED
      BY <2>1, <3>1
  <2>3. c.verb \notin Verdicts
    BY <1>4 DEF Verdicts
  <2>4. \A a \in index : ReviewIs(a.review, g, p, a.epoch)
    BY <1>2, <2>3, ReviewGrows
  <2>5. ReviewIs("pending", g, p, e)
    BY <2>3, VerdictsGrow DEF ReviewIs
  <2>6. ASSUME NEW a \in new
        PROVE  \E d \in DOMAIN g : /\ g[d].verb = "ARTIFACT"
                                   /\ a = [task |-> g[d].task, epoch |-> d, review |-> a.review]
                                   /\ ReviewIs(a.review, g, p, d)
    <3>1. CASE a \in index
      <4>1. a.epoch \in DOMAIN g /\ g[a.epoch] = h[a.epoch]
        BY <3>1, <1>1, <1>2
      <4>2. QED
        BY <3>1, <4>1, <1>2, <2>4
    <3>2. CASE a = entry
      <4>1. a.review = "pending" /\ a = [task |-> g[e].task, epoch |-> e, review |-> a.review]
        BY <3>2, <1>1
      <4>2. QED
        BY <4>1, <1>1, <1>4, <2>5
    <3>3. QED
      BY <2>2, <3>1, <3>2
  <2>7. ASSUME NEW d \in DOMAIN g, g[d].verb = "ARTIFACT" PROVE \E a \in new : a.epoch = d
    <3>1. CASE d = e
      <4>1. entry.epoch = e
        OBVIOUS
      <4> HIDE DEF entry, new
      <4>2. QED
        BY <3>1, <4>1, <2>2
    <3>2. CASE d # e
      BY <3>2, <2>2, <2>7, <1>1, <1>3
    <3>3. QED
      BY <3>1, <3>2
  <2>8. QED
    BY <2>6, <2>7 DEF IndexIs
<1>5. CASE c.verb \in Verdicts /\ c.ref # 0
  <2>0. c.verb # "ARTIFACT"
    BY <1>5 DEF Verdicts
  <2> DEFINE ruled(a) == IF a.epoch = c.ref THEN [a EXCEPT !.review = word] ELSE a
  <2>1. (\A b \in new : \E a \in index : b = ruled(a)) /\ \A a \in index : ruled(a) \in new
    BY <1>5, <2>0 DEF ProjectArtifactIndex
  <2> HIDE DEF new
  <2>2. ASSUME NEW a \in index
        PROVE  /\ ruled(a).epoch = a.epoch
               /\ ruled(a) = [task |-> h[a.epoch].task, epoch |-> a.epoch, review |-> ruled(a).review]
               /\ ReviewIs(ruled(a).review, g, p, a.epoch)
    <3>1. CASE a.epoch = c.ref
      <4>1. ruled(a) = [task |-> h[a.epoch].task, epoch |-> a.epoch, review |-> word]
        BY <3>1, <1>2
      <4>2. ReviewIs(word, g, p, a.epoch)
        BY <3>1, <1>2, <1>5, ReviewGrows
      <4> HIDE DEF word, ruled
      <4>3. QED
        BY <4>1, <4>2
    <3>2. CASE a.epoch # c.ref
      <4>1. ReviewIs(a.review, g, p, a.epoch)
        BY <3>2, <1>2, ReviewGrows
      <4>2. ruled(a) = a
        BY <3>2
      <4> HIDE DEF ruled
      <4>3. QED
        BY <4>1, <4>2, <1>2
    <3>3. QED
      BY <3>1, <3>2
  <2> HIDE DEF ruled
  <2>3. ASSUME NEW b \in new
        PROVE  \E d \in DOMAIN g : /\ g[d].verb = "ARTIFACT"
                                   /\ b = [task |-> g[d].task, epoch |-> d, review |-> b.review]
                                   /\ ReviewIs(b.review, g, p, d)
    <3>1. PICK a \in index : b = ruled(a)
      BY <2>1
    <3>2. a.epoch \in DOMAIN g /\ g[a.epoch] = h[a.epoch] /\ h[a.epoch].verb = "ARTIFACT"
      BY <1>1, <1>2
    <3>3. b = [task |-> h[a.epoch].task, epoch |-> a.epoch, review |-> b.review] /\ ReviewIs(b.review, g, p, a.epoch)
      BY <3>1, <2>2
    <3>4. QED
      BY <3>2, <3>3
  <2>4. ASSUME NEW d \in DOMAIN g, g[d].verb = "ARTIFACT" PROVE \E b \in new : b.epoch = d
    <3>1. d # e
      BY <2>0, <2>4, <1>1
    <3>2. PICK a \in index : a.epoch = d
      BY <3>1, <2>4, <1>1, <1>3
    <3>3. ruled(a) \in new /\ ruled(a).epoch = d
      BY <3>2, <2>1, <2>2
    <3>4. QED
      BY <3>3
  <2>5. IndexIs(new, g, p)
    BY <2>3, <2>4 DEF IndexIs
  <2>6. QED
    BY <2>5 DEF new
<1>6. CASE c.verb # "ARTIFACT" /\ ~(c.verb \in Verdicts /\ c.ref # 0)
  <2>1. new = index
    BY <1>6 DEF ProjectArtifactIndex
  <2>2. \A a \in index : ReviewIs(a.review, g, p, a.epoch)
    <3>1. \A a \in index : a.epoch # 0
      BY <1>1, <1>2
    <3>2. \A a \in index : ~(c.verb \in Verdicts /\ c.ref = a.epoch)
      BY <3>1, <1>6
    <3>3. QED
      BY <3>2, <1>2, ReviewGrows
  <2>3. ASSUME NEW a \in index
        PROVE  \E d \in DOMAIN g : /\ g[d].verb = "ARTIFACT"
                                   /\ a = [task |-> g[d].task, epoch |-> d, review |-> a.review]
                                   /\ ReviewIs(a.review, g, p, d)
    <3>1. a.epoch \in DOMAIN g /\ g[a.epoch] = h[a.epoch]
      BY <1>1, <1>2
    <3>2. QED
      BY <3>1, <1>2, <2>2
  <2>4. ASSUME NEW d \in DOMAIN g, g[d].verb = "ARTIFACT" PROVE \E a \in index : a.epoch = d
    BY <1>1, <1>3, <1>6, <2>4
  <2>5. IndexIs(index, g, p)
    BY <2>3, <2>4 DEF IndexIs
  <2>6. QED
    BY <2>1, <2>5
<1>7. QED
  BY <1>4, <1>5, <1>6

-----------------------------------------------------------------------------
(* The projections into boards *)

\* One into task_board.
LEMMA BoardGrows ==
  ASSUME NEW h, NEW g, NEW o, NEW p, NEW e, NEW c, Grown(h, g, o, p, e, c), NEW board, BoardIs(board, h, o)
  PROVE  BoardIs(ProjectTaskBoard(board, e, c), g, p)
<1> DEFINE new == ProjectTaskBoard(board, e, c)
           row == board[c.task]
           moves == c.task # NoTask /\ c.verb \in BoardVerbs
           owner == IF row = NoRow THEN NoAgent ELSE row.owner
           put == [status |-> StatusAfter(c.verb), owner |-> IF c.verb = "CLAIM" THEN c.agent ELSE owner,
                   created |-> IF row = NoRow THEN e ELSE row.created, last |-> e, verb |-> c.verb]
<1>1. DOMAIN g = DOMAIN h \cup {e} /\ g[e] = c /\ e \notin DOMAIN h /\ e # 0 /\ e \in Nat
      /\ \A d \in DOMAIN h : g[d] = h[d] /\ d # e /\ d # 0
  BY DEF Grown
<1>2. c.agent \in Agents /\ c.task \in Tasks \cup {NoTask}
  BY <1>1 DEF Grown
<1>3. NoTask \notin Tasks /\ NoRow \notin TaskState
  BY QueriesAssumption
<1>4. "CLAIM" \in BoardVerbs
  BY DEF BoardVerbs
<1>5. ASSUME NEW t \in Tasks
      PROVE  /\ OnBoard(g, t) = IF moves /\ c.task = t THEN OnBoard(h, t) \cup {e} ELSE OnBoard(h, t)
             /\ ClaimsOf(g, t) = IF c.verb = "CLAIM" /\ c.task = t THEN ClaimsOf(h, t) \cup {e} ELSE ClaimsOf(h, t)
             /\ OnBoard(h, t) \subseteq DOMAIN h /\ ClaimsOf(h, t) \subseteq OnBoard(h, t)
  BY <1>1, <1>3, <1>4 DEF OnBoard, ClaimsOf
<1>6. DOMAIN board = Tasks /\ \A t \in Tasks : TaskRowIs(board[t], h, o, t)
  BY DEF BoardIs
<1>7. new = IF moves THEN [board EXCEPT ![c.task] = put] ELSE board
  BY DEF ProjectTaskBoard
<1>8. ASSUME NEW t \in Tasks, ~(moves /\ c.task = t) PROVE new[t] = board[t] /\ TaskRowIs(board[t], g, p, t)
  <2>1. new[t] = board[t]
    <3> HIDE DEF put
    <3>1. QED
      BY <1>6, <1>7, <1>8
  <2>2. c.verb = "CLAIM" /\ c.task = t => moves
    BY <1>3, <1>4
  <2>3. OnBoard(g, t) = OnBoard(h, t) /\ ClaimsOf(g, t) = ClaimsOf(h, t)
    <3> HIDE DEF moves
    <3>1. QED
      BY <1>5, <1>8, <2>2
  <2>4. \A d \in OnBoard(h, t) : g[d] = h[d]
    BY <1>1, <1>5
  <2>5. \A d \in ClaimsOf(h, t) : g[d] = h[d]
    BY <1>1, <1>5
  <2>6. TaskRowIs(board[t], h, o, t)
    BY <1>6
  <2>61. OnBoard(h, t) \subseteq DOMAIN h /\ ClaimsOf(h, t) \subseteq DOMAIN h
    BY <1>5
  <2>62. \A d : /\ IsNewest(o, d, OnBoard(h, t)) => IsNewest(p, d, OnBoard(h, t)) /\ g[d] = h[d]
                /\ IsOldest(o, d, OnBoard(h, t)) => IsOldest(p, d, OnBoard(h, t))
                /\ IsNewest(o, d, ClaimsOf(h, t)) => IsNewest(p, d, ClaimsOf(h, t))
    <3>1. \A d : IsNewest(o, d, OnBoard(h, t)) => d \in OnBoard(h, t)
      BY DEF IsNewest
    <3>2. \A d : /\ IsNewest(o, d, OnBoard(h, t)) => IsNewest(p, d, OnBoard(h, t))
                 /\ IsOldest(o, d, OnBoard(h, t)) => IsOldest(p, d, OnBoard(h, t))
      BY <2>61, NewestGrows
    <3>3. \A d : IsNewest(o, d, ClaimsOf(h, t)) => IsNewest(p, d, ClaimsOf(h, t))
      BY <2>61, NewestGrows
    <3>4. QED
      BY <3>1, <3>2, <3>3, <2>4
  <2>7. TaskRowIs(board[t], g, p, t)
    BY <2>3, <2>5, <2>6, <2>62 DEF TaskRowIs
  <2>8. QED
    BY <2>1, <2>7
<1>9. ASSUME moves, NEW t \in Tasks, c.task = t PROVE TaskRowIs(put, g, p, t)
  <2>1. OnBoard(g, t) = OnBoard(h, t) \cup {e}
        /\ ClaimsOf(g, t) = (IF c.verb = "CLAIM" THEN ClaimsOf(h, t) \cup {e} ELSE ClaimsOf(h, t))
        /\ OnBoard(h, t) \subseteq DOMAIN h /\ ClaimsOf(h, t) \subseteq DOMAIN h
    <3> HIDE DEF moves, put
    <3>1. QED
      BY <1>5, <1>9
  <2>2. TaskRowIs(row, h, o, t)
    BY <1>6, <1>9
  <2>3. row = NoRow => OnBoard(h, t) = {} /\ ClaimsOf(h, t) = {}
    BY <2>2, <1>3, <1>5 DEF TaskRowIs
  <2>4. row # NoRow => /\ row \in TaskState /\ IsOldest(o, row.created, OnBoard(h, t))
                       /\ \/ ClaimsOf(h, t) = {} /\ row.owner = NoAgent
                          \/ \E d \in ClaimsOf(h, t) : IsNewest(o, d, ClaimsOf(h, t)) /\ row.owner = h[d].agent
    BY <2>2 DEF TaskRowIs
  <2>5. IsNewest(p, e, OnBoard(h, t) \cup {e}) /\ IsNewest(p, e, ClaimsOf(h, t) \cup {e})
        /\ (OnBoard(h, t) = {} => IsOldest(p, e, OnBoard(h, t) \cup {e}))
        /\ \A d : IsOldest(o, d, OnBoard(h, t)) => IsOldest(p, d, OnBoard(h, t) \cup {e})
    <3>1. OnBoard(h, t) \subseteq DOMAIN h /\ ClaimsOf(h, t) \subseteq DOMAIN h
      BY <2>1
    <3> HIDE DEF put, moves
    <3>2. IsNewest(p, e, ClaimsOf(h, t) \cup {e})
      BY <3>1, NewestGrows
    <3>3. QED
      BY <3>1, <3>2, NewestGrows
  <2>6. put.last = e /\ put.status = StatusAfter(c.verb)
        /\ put.owner = (IF c.verb = "CLAIM" THEN c.agent ELSE owner)
        /\ put.created = (IF row = NoRow THEN e ELSE row.created)
    OBVIOUS
  <2>7. put \in TaskState
    <3>1. StatusAfter(c.verb) \in {StatusAfter(v) : v \in BoardVerbs} /\ c.verb \in BoardVerbs
      BY <1>9
    <3>2. owner \in Agents \cup {NoAgent} /\ (IF row = NoRow THEN e ELSE row.created) \in Nat
      BY <2>4, <1>1 DEF TaskState
    <3>3. (IF c.verb = "CLAIM" THEN c.agent ELSE owner) \in Agents \cup {NoAgent}
      BY <3>2, <1>2
    <3> HIDE DEF row, owner
    <3>4. QED
      BY <3>1, <3>2, <3>3, <1>1 DEF TaskState
  <2>8. IsOldest(p, put.created, OnBoard(g, t))
    BY <2>1, <2>3, <2>4, <2>5, <2>6
  <2>9. IsNewest(p, put.last, OnBoard(g, t))
    BY <2>1, <2>5, <2>6
  <2>10. put.status = StatusAfter(g[put.last].verb)
    BY <2>6, <1>1
  <2>11. \/ ClaimsOf(g, t) = {} /\ put.owner = NoAgent
         \/ \E d \in ClaimsOf(g, t) : IsNewest(p, d, ClaimsOf(g, t)) /\ put.owner = g[d].agent
    <3>1. CASE c.verb = "CLAIM"
      BY <3>1, <2>1, <2>5, <2>6, <1>1
    <3>2. CASE c.verb # "CLAIM"
      <4>0. ClaimsOf(h, t) \subseteq DOMAIN h
        BY <2>1
      <4> HIDE DEF put
      <4>1. ClaimsOf(g, t) = ClaimsOf(h, t) /\ put.owner = owner
        <5> HIDE DEF owner
        <5>1. QED
          BY <3>2, <2>1, <2>6
      <4>2. \A d \in ClaimsOf(h, t) : g[d] = h[d]
        BY <4>0, <1>1
      <4>3. CASE row = NoRow
        BY <4>1, <4>3, <2>3
      <4>4. CASE row # NoRow
        <5>1. \A d : IsNewest(o, d, ClaimsOf(h, t)) => IsNewest(p, d, ClaimsOf(h, t))
          BY <4>0, NewestGrows
        <5> HIDE DEF row, owner
        <5>2. owner = row.owner
          BY <4>4 DEF owner
        <5>3. QED
          BY <4>1, <4>2, <4>4, <5>1, <5>2, <2>4
      <4>5. QED
        BY <4>3, <4>4
    <3>3. QED
      BY <3>1, <3>2
  <2> HIDE DEF put
  <2>12. QED
    BY <2>7, <2>8, <2>9, <2>10, <2>11 DEF TaskRowIs
<1> HIDE DEF put
<1>10. \A t \in Tasks : moves /\ c.task = t => new[t] = put
  BY <1>6, <1>7
<1>11. DOMAIN new = Tasks
  BY <1>6, <1>7
<1> HIDE DEF new, moves
<1>12. \A t \in Tasks : TaskRowIs(new[t], g, p, t)
  BY <1>8, <1>9, <1>10
<1>13. QED
  BY <1>11, <1>12 DEF BoardIs, new

\* One into agent_presence.
LEMMA PresenceGrows ==
  ASSUME NEW h, NEW g, NEW o, NEW p, NEW e, NEW c, Grown(h, g, o, p, e, c), NEW presence, PresenceIs(presence, h, o)
  PROVE  PresenceIs(ProjectPresence(presence, e, c), g, p)
<1> DEFINE new == ProjectPresence(presence, e, c)
           b == c.agent
           row == presence[b]
           sign == c.verb \in {"ANNOUNCE", "HEARTBEAT"}
           profile == IF c.verb = "ANNOUNCE" THEN e ELSE IF row = NoRow THEN 0 ELSE row.profile
           put == [last |-> e, profile |-> profile]
<1>1. DOMAIN g = DOMAIN h \cup {e} /\ g[e] = c /\ e \notin DOMAIN h /\ e # 0 /\ e \in Nat
      /\ \A d \in DOMAIN h : g[d] = h[d] /\ d # e /\ d # 0 /\ d \in Nat
  BY DEF Grown
<1>2. b \in Agents
  BY <1>1 DEF Grown
<1>3. NoRow \notin Presence
  BY QueriesAssumption
<1>4. ASSUME NEW a \in Agents
      PROVE  /\ SignsOf(g, a) = (IF sign /\ b = a THEN SignsOf(h, a) \cup {e} ELSE SignsOf(h, a))
             /\ ProfilesOf(g, a) = (IF c.verb = "ANNOUNCE" /\ b = a THEN ProfilesOf(h, a) \cup {e} ELSE ProfilesOf(h, a))
             /\ SignsOf(h, a) \subseteq DOMAIN h /\ ProfilesOf(h, a) \subseteq SignsOf(h, a)
  BY <1>1 DEF SignsOf, ProfilesOf
<1>5. DOMAIN presence = Agents /\ \A a \in Agents : PresenceRowIs(presence[a], h, o, a)
  BY DEF PresenceIs
<1>6. new = IF sign THEN [presence EXCEPT ![b] = put] ELSE presence
  BY DEF ProjectPresence
<1>7. ASSUME NEW a \in Agents, ~(sign /\ b = a) PROVE new[a] = presence[a] /\ PresenceRowIs(presence[a], g, p, a)
  <2>1. new[a] = presence[a]
    <3> HIDE DEF put
    <3>1. QED
      BY <1>5, <1>6, <1>7
  <2>2. c.verb = "ANNOUNCE" /\ b = a => sign
    OBVIOUS
  <2>3. SignsOf(g, a) = SignsOf(h, a) /\ ProfilesOf(g, a) = ProfilesOf(h, a)
    <3> HIDE DEF sign, b
    <3>1. QED
      BY <1>4, <1>7, <2>2
  <2>4. PresenceRowIs(presence[a], h, o, a)
    BY <1>5
  <2>41. SignsOf(h, a) \subseteq DOMAIN h /\ ProfilesOf(h, a) \subseteq DOMAIN h
    BY <1>4
  <2>42. \A d : IsNewest(o, d, SignsOf(h, a)) => IsNewest(p, d, SignsOf(h, a))
    BY <2>41, NewestGrows
  <2>43. \A d : IsNewest(o, d, ProfilesOf(h, a)) => IsNewest(p, d, ProfilesOf(h, a))
    BY <2>41, NewestGrows
  <2>5. PresenceRowIs(presence[a], g, p, a)
    BY <2>3, <2>4, <2>42, <2>43 DEF PresenceRowIs
  <2>6. QED
    BY <2>1, <2>5
<1>8. ASSUME sign PROVE PresenceRowIs(put, g, p, b)
  <2>1. /\ SignsOf(g, b) = SignsOf(h, b) \cup {e}
        /\ ProfilesOf(g, b) = (IF c.verb = "ANNOUNCE" THEN ProfilesOf(h, b) \cup {e} ELSE ProfilesOf(h, b))
        /\ SignsOf(h, b) \subseteq DOMAIN h /\ ProfilesOf(h, b) \subseteq DOMAIN h /\ ProfilesOf(h, b) \subseteq SignsOf(h, b)
    <3> HIDE DEF sign, b
    <3>1. QED
      BY <1>2, <1>4, <1>8
  <2>2. PresenceRowIs(row, h, o, b)
    BY <1>2, <1>5
  <2>3. IsNewest(p, e, SignsOf(g, b)) /\ IsNewest(p, e, ProfilesOf(h, b) \cup {e})
    BY <2>1, NewestGrows
  <2>4. put.last = e /\ put.profile = profile
    OBVIOUS
  <2>5. profile \in Nat /\ \/ ProfilesOf(g, b) = {} /\ profile = 0
                           \/ IsNewest(p, profile, ProfilesOf(g, b))
    <3>1. CASE c.verb = "ANNOUNCE"
      BY <3>1, <2>1, <2>3, <1>1
    <3>2. CASE c.verb # "ANNOUNCE" /\ row = NoRow
      <4>1. SignsOf(h, b) = {}
        BY <3>2, <2>2, <1>3 DEF PresenceRowIs
      <4>2. ProfilesOf(g, b) = {} /\ profile = 0
        BY <3>2, <4>1, <2>1
      <4> HIDE DEF profile
      <4>3. QED
        BY <4>2
    <3>3. CASE c.verb # "ANNOUNCE" /\ row # NoRow
      <4>1. /\ row \in Presence
            /\ (ProfilesOf(h, b) = {} /\ row.profile = 0) \/ IsNewest(o, row.profile, ProfilesOf(h, b))
        BY <3>3, <2>2 DEF PresenceRowIs
      <4>2. ProfilesOf(g, b) = ProfilesOf(h, b) /\ profile = row.profile
        BY <3>3, <2>1
      <4>3. row.profile \in Nat
        BY <4>1 DEF Presence
      <4>31. \A d : IsNewest(o, d, ProfilesOf(h, b)) => IsNewest(p, d, ProfilesOf(h, b))
        BY <2>1, NewestGrows
      <4> HIDE DEF profile, row
      <4>4. QED
        BY <4>1, <4>2, <4>3, <4>31
    <3>4. QED
      BY <3>1, <3>2, <3>3
  <2>6. put \in Presence
    <3> HIDE DEF profile
    <3>1. QED
      BY <1>1, <2>5 DEF Presence
  <2> HIDE DEF put, profile
  <2>7. QED
    BY <2>3, <2>4, <2>5, <2>6 DEF PresenceRowIs
<1> HIDE DEF put
<1>9. sign => new[b] = put
  BY <1>2, <1>5, <1>6
<1>10. DOMAIN new = Agents
  BY <1>5, <1>6
<1> HIDE DEF new, sign
<1>11. \A a \in Agents : PresenceRowIs(new[a], g, p, a)
  BY <1>7, <1>8, <1>9
<1>12. QED
  BY <1>10, <1>11 DEF PresenceIs, new

-----------------------------------------------------------------------------
(* The invariant *)

\* The history is of the epochs that were projected, all of them logged.
LEMMA HistoryIs ==
  /\ DOMAIN History = Seen /\ Seen \subseteq Logged
  /\ \A d \in Seen : History[d] = ClickAt(d)
  BY DEF History, Seen

\* What is shown are the clacks of those epochs.
LEMMA ShownAre ==
  ASSUME LogInv
  PROVE  /\ \A d \in Seen : /\ d \in Logged /\ d \in Nat /\ At(d) \in Shown /\ At(d).epoch = d
                            /\ At(d).click = ClickAt(d) /\ Deserialize(log[d]) = At(d)
         /\ \A c \in Shown : c \in Clacks /\ c.epoch \in Seen /\ c = At(c.epoch) /\ c.click = ClickAt(c.epoch)
  BY LogRow, ClacksAre DEF Shown, Seen, At, ClickAt

\* A row that is put leaves the history as it was.
LEMMA HistoryStays ==
  ASSUME OrderInv, NEW e \in FirstEpoch..MaxEpoch, NEW c \in Clicks, Write(e, c)
  PROVE  Seen' = Seen /\ History' = History
<1>1. e \notin Logged /\ Logged' = Logged \cup {e} /\ order' = order
      /\ \A d \in Logged : log'[d] = log[d]
  BY DEF Write, Logged
<1>2. <<e, e>> \notin order
  BY <1>1 DEF OrderInv, Seen
<1>3. Seen' = Seen
  BY <1>1, <1>2 DEF Seen
<1>4. \A d \in Seen : ClickAt(d)' = ClickAt(d)
  <2>1. \A d \in Seen : log'[d] = log[d]
    BY <1>1, HistoryIs
  <2>2. QED
    BY <2>1 DEF ClickAt, At
<1>5. QED
  BY <1>3, <1>4 DEF History

\* A turn makes it longer by one click, later than the others, ...
LEMMA HistoryGrows ==
  ASSUME LogInv, OrderInv, NEW e \in FirstEpoch..MaxEpoch, Project(e)
  PROVE  Seen' = Seen \cup {e} /\ Grown(History, History', order, order', e, ClickAt(e))
<1>1. e \in Logged \ Seen /\ Logged' = Logged /\ log' = log
      /\ order' = order \cup {<<d, e>> : d \in Seen \cup {e}}
  BY DEF Project, Logged
<1>2. Seen' = Seen \cup {e}
  <2>1. ASSUME NEW d \in Logged PROVE <<d, d>> \in order' <=> <<d, d>> \in order \/ d = e
    BY <1>1
  <2>2. Seen' = {d \in Logged : <<d, d>> \in order'}
    BY <1>1 DEF Seen
  <2>3. QED
    BY <1>1, <2>1, <2>2 DEF Seen
<1>3. \A d : ClickAt(d)' = ClickAt(d)
  BY <1>1 DEF ClickAt, At
<1>4. DOMAIN History' = Seen \cup {e} /\ \A d \in Seen \cup {e} : (History')[d] = ClickAt(d)
  BY <1>2, <1>3 DEF History
<1>5. DOMAIN History = Seen /\ \A d \in Seen : History[d] = ClickAt(d)
  BY HistoryIs
<1>6. ASSUME NEW d \in Seen \cup {e}
      PROVE  /\ d \in Nat /\ d # 0 /\ ClickAt(d) \in ClickType /\ ClickAt(d).verb \in Verbs
             /\ ClickAt(d).agent \in Agents /\ ClickAt(d).task \in Tasks \cup {NoTask}
  <2>1. d \in Logged
    BY <1>1 DEF Seen
  <2>2. QED
    BY <2>1, LogRow
<1>7. /\ \A d, f \in Seen : <<d, f>> \in order' <=> <<d, f>> \in order
      /\ \A d \in Seen \cup {e} : <<d, e>> \in order'
  BY <1>1
<1>8. \A d \in Seen : <<e, d>> \notin order'
  BY <1>1 DEF OrderInv
<1> DEFINE h == History
           g == History'
           p == order'
<1> HIDE DEF h, g, p
<1>9. Grown(h, g, order, p, e, ClickAt(e))
  <2>1. DOMAIN g = DOMAIN h \cup {e} /\ g[e] = ClickAt(e) /\ DOMAIN h = Seen /\ e \notin Seen
        /\ \A d \in Seen : g[d] = h[d] /\ d # e
    BY <1>1, <1>4, <1>5 DEF h, g
  <2>2. \A d \in DOMAIN g : g[d] \in ClickType /\ g[d].verb \in Verbs
                         /\ g[d].agent \in Agents /\ g[d].task \in Tasks \cup {NoTask}
    BY <1>4, <1>6 DEF g
  <2>3. /\ \A d, f \in Seen : <<d, f>> \in p <=> <<d, f>> \in order
        /\ \A d \in Seen \cup {e} : <<d, e>> \in p
        /\ \A d \in Seen : <<e, d>> \notin p
    BY <1>7, <1>8 DEF p
  <2>4. \A d \in Seen \cup {e} : d \in Nat /\ d # 0
    BY <1>6
  <2>5. QED
    BY <2>1, <2>2, <2>3, <2>4 DEF Grown
<1>10. QED
  BY <1>2, <1>9 DEF h, g, p

\* ... and keeps the turns in one order.
LEMMA OrderGrows ==
  ASSUME OrderInv, NEW e \in FirstEpoch..MaxEpoch, Project(e), Seen' = Seen \cup {e}
  PROVE  OrderInv'
<1>1. e \notin Seen /\ order' = order \cup {<<d, e>> : d \in Seen \cup {e}}
  BY DEF Project
<1>2. order \subseteq Seen \X Seen
  BY DEF OrderInv
<1>3. order' \subseteq Seen' \X Seen'
  BY <1>1, <1>2
<1>4. ASSUME NEW d \in Seen', NEW f \in Seen', <<d, f>> \in order', <<f, d>> \in order' PROVE d = f
  <2>1. \A x : <<e, x>> \in order' => x = e
    BY <1>1, <1>2
  <2>2. CASE d = e \/ f = e
    BY <2>1, <2>2, <1>4
  <2>3. CASE d # e /\ f # e
    <3>1. d \in Seen /\ f \in Seen /\ <<d, f>> \in order /\ <<f, d>> \in order
      BY <1>1, <1>4, <2>3
    <3>2. QED
      BY <3>1 DEF OrderInv
  <2>4. QED
    BY <2>2, <2>3
<1>5. QED
  BY <1>3, <1>4 DEF OrderInv

\* Nothing is in the tables and nothing had a turn.
LEMMA ViewsInvInit == QueriesInit => ViewsInv
<1> SUFFICES ASSUME QueriesInit PROVE ViewsInv
  OBVIOUS
<1> DEFINE h == History
<1>0. Seen = {} /\ views = NoViews /\ order = {}
  BY DEF QueriesInit, Seen
<1>1. DOMAIN h = {}
  BY <1>0 DEF History
<1> HIDE DEF h
<1>2. /\ NoViews.thread_tree = {} /\ NoViews.hitl_queue = {} /\ NoViews.artifact_index = {}
      /\ NoViews.task_board = [t \in Tasks |-> NoRow] /\ NoViews.agent_presence = [a \in Agents |-> NoRow]
  BY DEF NoViews
<1>3. TreeIs({}, h) /\ QueueIs({}, h, order) /\ IndexIs({}, h, order)
  BY <1>1 DEF TreeIs, QueueIs, IndexIs
<1>4. \A t : OnBoard(h, t) = {} /\ SignsOf(h, t) = {}
  BY <1>1 DEF OnBoard, SignsOf
<1>5. BoardIs(NoViews.task_board, h, order)
  BY <1>2, <1>4 DEF BoardIs, TaskRowIs
<1>6. PresenceIs(NoViews.agent_presence, h, order)
  BY <1>2, <1>4 DEF PresenceIs, PresenceRowIs
<1>7. ViewsAre(views, h, order)
  BY <1>0, <1>2, <1>3, <1>5, <1>6 DEF ViewsAre
<1>8. OrderInv
  BY <1>0 DEF OrderInv
<1>9. QED
  BY <1>7, <1>8 DEF ViewsInv, h

\* Every turn projects one clack, and nothing else changes the tables.
LEMMA ViewsInvStep == LogInv /\ ViewsInv /\ [QueriesNext]_queryVars => ViewsInv'
<1> SUFFICES ASSUME LogInv, ViewsInv, [QueriesNext]_queryVars PROVE ViewsInv'
  OBVIOUS
<1>0. OrderInv /\ ViewsAre(views, History, order)
  BY DEF ViewsInv
<1>1. CASE UNCHANGED queryVars
  <2>1. log' = log /\ views' = views /\ order' = order
    BY <1>1 DEF queryVars
  <2>2. Seen' = Seen /\ History' = History
    BY <2>1 DEF Seen, Logged, History, ClickAt, At
  <2>3. QED
    BY <1>0, <2>1, <2>2 DEF ViewsInv, OrderInv
<1>2. ASSUME NEW e \in FirstEpoch..MaxEpoch, NEW c \in Clicks, Write(e, c) PROVE ViewsInv'
  <2>1. views' = views /\ order' = order
    BY <1>2 DEF Write
  <2>2. Seen' = Seen /\ History' = History
    BY <1>0, <1>2, HistoryStays
  <2>3. QED
    BY <1>0, <2>1, <2>2 DEF ViewsInv, OrderInv
<1>3. ASSUME NEW e \in FirstEpoch..MaxEpoch, Project(e) PROVE ViewsInv'
  <2> DEFINE h == History
             g == History'
             p == order'
             b == ClickAt(e)
  <2>1. Seen' = Seen \cup {e} /\ Grown(h, g, order, p, e, b)
    BY <1>0, <1>3, HistoryGrows
  <2>2. ViewsAre(views, h, order)
    BY <1>0
  <2>3. views' = OnClack(views, e, b)
    BY <1>3 DEF Project
  <2>31. OrderInv'
    BY <1>0, <1>3, <2>1, OrderGrows
  <2> HIDE DEF h, g, p, b
  <2>4. /\ TreeIs(views.thread_tree, h) /\ QueueIs(views.hitl_queue, h, order)
        /\ IndexIs(views.artifact_index, h, order) /\ BoardIs(views.task_board, h, order)
        /\ PresenceIs(views.agent_presence, h, order)
    BY <2>2 DEF ViewsAre
  <2>41. /\ TreeIs(ProjectThreadTree(views.thread_tree, e, b), g)
         /\ QueueIs(ProjectHitlQueue(views.hitl_queue, e, b), g, p)
         /\ IndexIs(ProjectArtifactIndex(views.artifact_index, e, b), g, p)
    BY <2>1, <2>4, TreeGrows, QueueGrows, IndexGrows
  <2>42. /\ BoardIs(ProjectTaskBoard(views.task_board, e, b), g, p)
         /\ PresenceIs(ProjectPresence(views.agent_presence, e, b), g, p)
    BY <2>1, <2>4, BoardGrows, PresenceGrows
  <2>5. ViewsAre(views', g, p)
    BY <2>3, <2>41, <2>42 DEF ViewsAre, OnClack
  <2>6. QED
    BY <2>31, <2>5 DEF ViewsInv, g, p
<1>4. QED
  BY <1>1, <1>2, <1>3 DEF QueriesNext

\* The inductive invariant: the log is what was put, and the tables are what
\* their definitions say of what was projected.
LEMMA QueriesInvariant == QueriesSpec => [](LogInv /\ ViewsInv)
  BY LogInvInit, LogInvStep, ViewsInvInit, ViewsInvStep, PTL DEF QueriesSpec

-----------------------------------------------------------------------------
(* Keys of several parts *)

\* The bytes of two strings around a slash.
SlashedAt(p, q, i) ==
  IF i <= Len(p) THEN p[i] ELSE IF i = Len(p) + 1 THEN Slash ELSE q[i - Len(p) - 1]

\* Two strings around a slash, byte by byte.
LEMMA SlashedIs ==
  ASSUME NEW p \in Seq(Byte), NEW q \in Seq(Byte)
  PROVE  /\ Slashed(p, q) \in Seq(Byte) /\ Len(Slashed(p, q)) = Len(p) + 1 + Len(q)
         /\ \A i \in 1..(Len(p) + 1 + Len(q)) : Slashed(p, q)[i] = SlashedAt(p, q, i)
<1> DEFINE o == <<Slash>>
           u == p \o o
           v == u \o q
<1>1. Slash \in Byte
  BY CodecAssumption DEF Byte
<1>2. o \in Seq(Byte) /\ Len(o) = 1 /\ o[1] = Slash
  BY <1>1
<1> HIDE DEF o
<1>3. Len(p) \in Nat /\ Len(q) \in Nat
  BY SeqFacts
<1>4. /\ u \in Seq(Byte) /\ Len(u) = Len(p) + 1
      /\ \A i \in 1..(Len(p) + 1) : u[i] = IF i <= Len(p) THEN p[i] ELSE o[i - Len(p)]
  <2>1. p \in Seq(Byte) /\ o \in Seq(Byte)
    BY <1>2
  <2>2. /\ u \in Seq(Byte) /\ Len(u) = Len(p) + Len(o)
        /\ \A i \in 1..(Len(p) + Len(o)) : u[i] = IF i <= Len(p) THEN p[i] ELSE o[i - Len(p)]
    BY <2>1, ConcatProperties
  <2> HIDE DEF u
  <2>3. QED
    BY <2>2, <1>2
<1> HIDE DEF u
<1>5. /\ v \in Seq(Byte) /\ Len(v) = Len(u) + Len(q)
      /\ \A i \in 1..(Len(u) + Len(q)) : v[i] = IF i <= Len(u) THEN u[i] ELSE q[i - Len(u)]
  <2>1. u \in Seq(Byte) /\ q \in Seq(Byte)
    BY <1>4
  <2>2. QED
    BY <2>1, ConcatProperties
<1> HIDE DEF v
<1>6. ASSUME NEW i \in 1..(Len(p) + 1 + Len(q)) PROVE v[i] = SlashedAt(p, q, i)
  <2>1. CASE i <= Len(p)
    <3>1. i <= Len(u) /\ i \in 1..(Len(p) + 1) /\ i \in 1..(Len(u) + Len(q))
      BY <2>1, <1>3, <1>4
    <3>2. QED
      BY <3>1, <2>1, <1>4, <1>5 DEF SlashedAt
  <2>2. CASE i = Len(p) + 1
    <3>1. i <= Len(u) /\ i \in 1..(Len(p) + 1) /\ i \in 1..(Len(u) + Len(q)) /\ ~(i <= Len(p)) /\ i - Len(p) = 1
      BY <2>2, <1>3, <1>4
    <3>2. QED
      BY <3>1, <2>2, <1>2, <1>4, <1>5 DEF SlashedAt
  <2>3. CASE i > Len(p) + 1
    <3>1. ~(i <= Len(u)) /\ i \in 1..(Len(u) + Len(q)) /\ ~(i <= Len(p)) /\ i # Len(p) + 1
          /\ i - Len(u) = i - Len(p) - 1
      BY <2>3, <1>3, <1>4
    <3>2. QED
      BY <3>1, <1>5 DEF SlashedAt
  <2>4. QED
    BY <2>1, <2>2, <2>3, <1>3
<1>7. v = Slashed(p, q)
  BY DEF Slashed, v, u, o
<1>8. Len(v) = Len(p) + 1 + Len(q)
  BY <1>3, <1>4, <1>5
<1>9. QED
  BY <1>5, <1>6, <1>7, <1>8

\* The first part of a key, as far as it holds no slash, ends at the first slash.
LEMMA FirstSlash ==
  ASSUME NEW p \in Seq(Byte), NEW q \in Seq(Byte), SlashFree(p)
  PROVE  /\ SelectInSeq(Slashed(p, q), LAMBDA b : b = Slash) = Len(p) + 1
         /\ SubSeq(Slashed(p, q), 1, Len(p)) = p
         /\ SubSeq(Slashed(p, q), Len(p) + 2, Len(Slashed(p, q))) = q
<1> DEFINE k == Slashed(p, q)
           m == Len(p)
           n == Len(q)
           I == {i \in 1..Len(k) : k[i] = Slash}
<1>1. m \in Nat /\ n \in Nat /\ (\A i \in 1..m : p[i] # Slash) /\ \A i \in 1..m : p[i] \in Byte
  BY SeqFacts DEF SlashFree
<1>2. k \in Seq(Byte) /\ Len(k) = m + 1 + n /\ \A i \in 1..(m + 1 + n) : k[i] = SlashedAt(p, q, i)
  BY SlashedIs
<1>3. SelectInSeq(k, LAMBDA b : b = Slash) = IF I # {} THEN Min(I) ELSE 0
  BY DEF SelectInSeq
<1> HIDE DEF k
<1>4. \A i \in 1..m : k[i] = p[i]
  <2>1. \A i \in 1..m : i \in 1..(m + 1 + n) /\ i <= m
    BY <1>1
  <2>2. QED
    BY <2>1, <1>2 DEF SlashedAt
<1>5. k[m + 1] = Slash /\ m + 1 \in 1..Len(k)
  <2>1. m + 1 \in 1..(m + 1 + n) /\ ~(m + 1 <= m)
    BY <1>1
  <2>2. QED
    BY <2>1, <1>2 DEF SlashedAt
<1>6. \A i \in 1..n : k[m + 1 + i] = q[i]
  <2>1. \A i \in 1..n : /\ m + 1 + i \in 1..(m + 1 + n) /\ ~(m + 1 + i <= m) /\ m + 1 + i # m + 1
                        /\ m + 1 + i - m - 1 = i
    BY <1>1
  <2>2. QED
    BY <2>1, <1>2 DEF SlashedAt
<1> HIDE DEF m, n
<1>7. m + 1 \in I /\ \A i \in I : m + 1 <= i
  <2>1. \A i \in I : i \notin 1..m
    BY <1>1, <1>4
  <2>2. \A i \in I : i \in 1..(m + 1 + n)
    BY <1>2
  <2>3. \A i \in I : m + 1 <= i
    <3> HIDE DEF I
    <3>1. QED
      BY <2>1, <2>2, <1>1
  <2>4. QED
    BY <2>3, <1>5
<1>8. Min(I) = m + 1 /\ I # {}
  <2>1. \A i \in I : i \in Nat
    OBVIOUS
  <2> HIDE DEF I
  <2>2. \A x \in I : (\A y \in I : x =< y) => x = m + 1
    BY <2>1, <1>7, <1>1
  <2>3. QED
    BY <2>2, <1>7 DEF Min
<1>9. SubSeq(k, 1, m) = p
  <2> DEFINE u == SubSeq(k, 1, m)
  <2>1. \A i \in 1..m : k[i] \in Byte
    BY <1>1, <1>4
  <2>2. u \in Seq(Byte) /\ Len(u) = (IF 1 <= m THEN m - 1 + 1 ELSE 0) /\ \A i \in 1..(m - 1 + 1) : u[i] = k[1 + i - 1]
    BY <2>1, <1>1, SubSeqProperties
  <2> HIDE DEF u
  <2>3. m - 1 + 1 = m /\ (IF 1 <= m THEN m - 1 + 1 ELSE 0) = m /\ \A i \in 1..m : 1 + i - 1 = i
    BY <1>1
  <2>4. Len(u) = m /\ \A i \in 1..m : u[i] = p[i]
    BY <2>2, <2>3, <1>4
  <2>5. u = p
    BY <2>2, <2>4, SeqEqual DEF m
  <2>6. QED
    BY <2>5 DEF u
<1>10. SubSeq(k, m + 2, Len(k)) = q
  <2> DEFINE x == m + 2
             y == m + 1 + n
             u == SubSeq(k, x, y)
  <2>0. x \in Int /\ y \in Int /\ y - x + 1 = n /\ (x <= y <=> 1 <= n)
        /\ \A i \in x..y : i \in 1..(m + 1 + n)
    BY <1>1
  <2>4. \A i \in 1..n : x + i - 1 = m + 1 + i
    BY <1>1
  <2> HIDE DEF x
  <2>1. \A i \in x..y : k[i] \in Byte
    BY <2>0, <1>2, SeqFacts
  <2>2. y = Len(k)
    BY <1>2
  <2> HIDE DEF y
  <2>3. /\ u \in Seq(Byte) /\ Len(u) = (IF x <= y THEN y - x + 1 ELSE 0)
        /\ \A i \in 1..(y - x + 1) : u[i] = k[x + i - 1]
    BY <2>0, <2>1, SubSeqProperties
  <2> HIDE DEF u
  <2>5. Len(u) = n /\ \A i \in 1..n : u[i] = q[i]
    <3>1. (IF x <= y THEN y - x + 1 ELSE 0) = n
      BY <2>0, <1>1
    <3>2. QED
      BY <3>1, <2>0, <2>3, <2>4, <1>6
  <2>6. u = q
    BY <2>3, <2>5, SeqEqual DEF n
  <2>7. QED
    BY <2>6, <2>2 DEF u, x
<1>11. QED
  BY <1>3, <1>8, <1>9, <1>10 DEF k, m

\* Two keys agree from the start up to a slash.
LEMMA SlashedBegins ==
  ASSUME NEW p \in Seq(Byte), NEW q \in Seq(Byte), NEW r \in Seq(Byte)
  PROVE  /\ Slashed(p, <<>>) = p \o <<Slash>>
         /\ IsPrefix(Slashed(p, <<>>), Slashed(q, r)) <=>
              Len(p) <= Len(q) + Len(r) /\ \A i \in 1..(Len(p) + 1) : SlashedAt(p, <<>>, i) = SlashedAt(q, r, i)
         /\ IsPrefix(Slashed(p, <<>>), Slashed(p, r))
<1> DEFINE k == Slashed(p, <<>>)
           l == Slashed(q, r)
           m == Len(p)
           n == Len(q) + Len(r)
<1>0. << >> \in Seq(Byte) /\ Len(<< >>) = 0
  BY EmptySeq
<1>1. m \in Nat /\ Len(q) \in Nat /\ Len(r) \in Nat /\ n \in Nat
  BY SeqFacts
<1>2. k \in Seq(Byte) /\ Len(k) = m + 1 /\ \A i \in 1..(m + 1) : k[i] = SlashedAt(p, <<>>, i)
  <2>1. /\ k \in Seq(Byte) /\ Len(k) = m + 1 + Len(<< >>)
        /\ \A i \in 1..(m + 1 + Len(<< >>)) : k[i] = SlashedAt(p, <<>>, i)
    BY <1>0, SlashedIs
  <2>2. m + 1 + Len(<< >>) = m + 1
    BY <1>0, <1>1
  <2>3. QED
    BY <2>1, <2>2
<1>3. l \in Seq(Byte) /\ Len(l) = n + 1 /\ \A i \in 1..(n + 1) : l[i] = SlashedAt(q, r, i)
  <2>1. /\ l \in Seq(Byte) /\ Len(l) = Len(q) + 1 + Len(r)
        /\ \A i \in 1..(Len(q) + 1 + Len(r)) : l[i] = SlashedAt(q, r, i)
    BY SlashedIs
  <2>2. Len(q) + 1 + Len(r) = n + 1
    BY <1>1
  <2>3. QED
    BY <2>1, <2>2
<1>4. Slashed(p, <<>>) = p \o <<Slash>>
  <2>1. <<Slash>> \in Seq(Byte)
    BY CodecAssumption DEF Byte
  <2>2. p \o <<Slash>> \in Seq(Byte)
    BY <2>1, ConcatProperties
  <2>3. QED
    BY <2>2, ConcatEmptySeq DEF Slashed
<1> HIDE DEF k, l, m, n
<1>5. IsPrefix(k, l) <=> m <= n /\ \A i \in 1..(m + 1) : SlashedAt(p, <<>>, i) = SlashedAt(q, r, i)
  <2>1. IsPrefix(k, l) <=> m + 1 <= n + 1 /\ \A i \in 1..(m + 1) : k[i] = l[i]
    BY <1>2, <1>3, PrefixIs
  <2>2. m + 1 <= n + 1 <=> m <= n
    BY <1>1
  <2>3. m <= n => \A i \in 1..(m + 1) : i \in 1..(n + 1)
    BY <1>1
  <2>4. QED
    BY <2>1, <2>2, <2>3, <1>2, <1>3
<1>6. IsPrefix(Slashed(p, <<>>), Slashed(p, r))
  <2> DEFINE j == Slashed(p, r)
  <2>1. j \in Seq(Byte) /\ Len(j) = m + 1 + Len(r) /\ \A i \in 1..(m + 1 + Len(r)) : j[i] = SlashedAt(p, r, i)
    BY SlashedIs DEF m
  <2> HIDE DEF j
  <2>2. \A i \in 1..(m + 1) : SlashedAt(p, <<>>, i) = SlashedAt(p, r, i)
    BY <1>1 DEF SlashedAt, m
  <2>3. m + 1 <= m + 1 + Len(r) /\ \A i \in 1..(m + 1) : i \in 1..(m + 1 + Len(r))
    BY <1>1
  <2>4. Len(k) <= Len(j) /\ \A i \in 1..Len(k) : k[i] = j[i]
    BY <1>2, <2>1, <2>2, <2>3
  <2>5. IsPrefix(k, j)
    BY <2>1, <2>4, <1>2, PrefixIs
  <2>6. QED
    BY <2>5 DEF k, j
<1>7. QED
  BY <1>4, <1>5, <1>6 DEF k, l, m, n

\* A thread key is the root's key, the depth and the reply's key.
LEMMA ThreadKeyIs ==
  ASSUME NEW root \in Nat, NEW e \in Nat
  PROVE  /\ ThreadKey(root, e) = Slashed(EpochKey(root), Slashed(<<One>>, EpochKey(e)))
         /\ ThreadKey(root, e) = (Slashed(EpochKey(root), <<One>>) \o <<Slash>>) \o EpochKey(e)
         /\ Slashed(EpochKey(root), <<One>>) \o <<Slash>> \in Seq(Nat)
         /\ Slashed(<<One>>, EpochKey(e)) \in Seq(Byte) /\ ThreadKey(root, e) \in Seq(Byte)
         /\ <<One>> \in Seq(Byte) /\ <<Slash>> \in Seq(Byte) /\ SlashFree(<<One>>) /\ Len(<<One>>) = 1
<1> DEFINE p == EpochKey(root)
           q == EpochKey(e)
           o == <<One>>
           s == <<Slash>>
<1>1. p \in Seq(Byte) /\ q \in Seq(Byte) /\ Slash \in Byte /\ One \in Byte /\ One # Slash
  BY EpochKeyTyped, CodecAssumption DEF Byte
<1>2. o \in Seq(Byte) /\ s \in Seq(Byte) /\ Len(o) = 1 /\ o[1] = One /\ DOMAIN o = {1}
  BY <1>1
<1>3. SlashFree(o)
  BY <1>1, <1>2 DEF SlashFree, Range
<1> HIDE DEF p, q, o, s
<1>4. ((p \o s \o o) \o s) \o q = p \o s \o (o \o s \o q)
  <2> DEFINE x == p \o s
             y == o \o s
  <2>1. x \in Seq(Byte) /\ y \in Seq(Byte)
    BY <1>1, <1>2, ConcatProperties
  <2> HIDE DEF x, y
  <2>2. (x \o o) \o s = x \o (o \o s)
    BY <2>1, <1>2, ConcatAssociative
  <2>3. (x \o y) \o q = x \o (y \o q)
    BY <2>1, <1>1, ConcatAssociative
  <2>4. QED
    BY <2>2, <2>3 DEF x, y
<1>5. ThreadKey(root, e) = (Slashed(p, o) \o s) \o q
  BY DEF ThreadKey, Slashed, p, q, o, s
<1>6. ThreadKey(root, e) = Slashed(p, Slashed(o, q))
  BY <1>4, <1>5 DEF Slashed, s
<1>7. Slashed(o, q) \in Seq(Byte) /\ Slashed(p, o) \in Seq(Byte) /\ Slashed(p, Slashed(o, q)) \in Seq(Byte)
  BY <1>1, <1>2, SlashedIs
<1>8. Slashed(p, o) \o s \in Seq(Byte)
  BY <1>2, <1>7, ConcatProperties
<1>9. Slashed(p, o) \o s \in Seq(Nat)
  BY <1>8, BytesAreNumbers
<1>10. QED
  BY <1>2, <1>3, <1>5, <1>6, <1>7, <1>9 DEF p, q, o, s

\* The depth is what lies between the slashes.
LEMMA DepthIsOne ==
  ASSUME NEW root \in Nat, NEW e \in Nat, SlashFree(EpochKey(root))
  PROVE  ~StoiThrows(DepthText(ThreadKey(root, e)))
<1> DEFINE p == EpochKey(root)
           o == <<One>>
           r == Slashed(o, EpochKey(e))
           k == ThreadKey(root, e)
           first == SelectInSeq(k, LAMBDA b : b = Slash)
           rest == SubSeq(k, first + 1, Len(k))
<1>1. /\ k = Slashed(p, r) /\ r \in Seq(Byte) /\ p \in Seq(Byte) /\ o \in Seq(Byte)
      /\ EpochKey(e) \in Seq(Byte) /\ SlashFree(o) /\ Len(o) = 1
  BY ThreadKeyIs, EpochKeyTyped
<1>2. Len(p) \in Nat
  BY <1>1, SeqFacts
<1>3. first = Len(p) + 1 /\ SubSeq(k, Len(p) + 2, Len(k)) = r
  <2> HIDE DEF r, o
  <2>1. /\ SelectInSeq(Slashed(p, r), LAMBDA b : b = Slash) = Len(p) + 1
        /\ SubSeq(Slashed(p, r), Len(p) + 2, Len(Slashed(p, r))) = r
    BY <1>1, FirstSlash
  <2> HIDE DEF k, p
  <2>2. QED
    BY <1>1, <2>1
<1>4. rest = r
  <2>1. first + 1 = Len(p) + 2
    BY <1>2, <1>3
  <2>2. QED
    BY <2>1, <1>3
<1>5. SelectInSeq(r, LAMBDA b : b = Slash) = 2 /\ SubSeq(r, 1, 1) = o
  <2> HIDE DEF o
  <2>1. SelectInSeq(r, LAMBDA b : b = Slash) = Len(o) + 1 /\ SubSeq(r, 1, Len(o)) = o
    BY <1>1, FirstSlash
  <2>2. QED
    BY <1>1, <2>1
<1>6. DepthText(k) = SubSeq(rest, 1, SelectInSeq(rest, LAMBDA b : b = Slash) - 1)
  BY DEF DepthText
<1> HIDE DEF rest, k
<1>7. DepthText(k) = o
  <2> HIDE DEF o, r
  <2>1. 2 - 1 = 1
    OBVIOUS
  <2>2. QED
    BY <2>1, <1>4, <1>5, <1>6
<1>8. QED
  BY <1>7 DEF StoiThrows, k

\* The rows a scan by a root finds, when its key holds no slash, are its replies'.
LEMMA ThreadHits ==
  ASSUME LogInv, ViewsInv, NEW root \in 1..MaxEpoch
  PROVE  LET tree == {[key |-> ThreadKey(r[1], r[3]), frame |-> log[r[3]]] : r \in views.thread_tree}
             hits == Hits(tree, EpochKey(root) \o <<Slash>>)
         IN /\ \A r \in hits : \E d \in Seen : /\ ClickAt(d).parent = root
                                               /\ r = [key |-> ThreadKey(root, d), frame |-> log[d]]
            /\ \A d \in Seen : ClickAt(d).parent = root =>
                 [key |-> ThreadKey(root, d), frame |-> log[d]] \in hits
<1> DEFINE h == History
           row(q, d) == [key |-> ThreadKey(q, d), frame |-> log[d]]
           tree == {[key |-> ThreadKey(r[1], r[3]), frame |-> log[r[3]]] : r \in views.thread_tree}
           prefix == EpochKey(root) \o <<Slash>>
           hits == Hits(tree, prefix)
<1>1. DOMAIN h = Seen /\ \A d \in Seen : h[d] = ClickAt(d)
  BY HistoryIs
<1>11. \A d \in Seen : d \in Nat /\ ClickAt(d).parent \in Nat /\ ClickAt(d).parent < Power[Width]
  BY LogRow, HistoryIs
<1>12. root \in Nat /\ root # 0 /\ root < Power[Width]
  BY Bounds
<1>2. TreeIs(views.thread_tree, h)
  BY DEF ViewsInv, ViewsAre
<1>3. ASSUME NEW r \in tree PROVE \E d \in Seen : ClickAt(d).parent # 0 /\ r = row(ClickAt(d).parent, d)
  <2>1. PICK x \in views.thread_tree : r = [key |-> ThreadKey(x[1], x[3]), frame |-> log[x[3]]]
    OBVIOUS
  <2>2. PICK d \in Seen : ClickAt(d).parent # 0 /\ x = <<ClickAt(d).parent, 1, d>>
    BY <1>1, <1>2 DEF TreeIs
  <2>3. x[1] = ClickAt(d).parent /\ x[3] = d
    BY <2>2
  <2>4. QED
    BY <2>1, <2>2, <2>3
<1>4. ASSUME NEW d \in Seen, ClickAt(d).parent # 0 PROVE row(ClickAt(d).parent, d) \in tree
  <2> DEFINE x == <<ClickAt(d).parent, 1, d>>
  <2>1. x \in views.thread_tree
    BY <1>1, <1>2, <1>4 DEF TreeIs
  <2>2. x[1] = ClickAt(d).parent /\ x[3] = d
    OBVIOUS
  <2> HIDE DEF x
  <2>3. QED
    BY <2>1, <2>2
<1>5. \A q, d : row(q, d).key = ThreadKey(q, d)
  OBVIOUS
<1>6. ASSUME NEW q \in Nat, q < Power[Width], NEW d \in Nat
      PROVE  IsPrefix(prefix, ThreadKey(q, d)) <=> q = root
  <2> DEFINE k == EpochKey(root)
             l == EpochKey(q)
             r == Slashed(<<One>>, EpochKey(d))
  <2>1. /\ q \in Nat /\ root \in Nat /\ d \in Nat /\ q < Power[Width] /\ root < Power[Width]
    BY <1>6, <1>12
  <2>2. k \in Seq(Byte) /\ l \in Seq(Byte) /\ Len(k) = Width /\ Len(l) = Width
    BY <2>1, EpochKeyTyped
  <2>3. ThreadKey(q, d) = Slashed(l, r) /\ r \in Seq(Byte)
    BY <2>1, ThreadKeyIs
  <2>31. q = root => k = l
    OBVIOUS
  <2>32. k = l => q = root
    BY <2>1, KeyRoundTrip
  <2>33. prefix = Slashed(k, << >>)
    BY <2>2, SlashedBegins
  <2>34. Width \in Nat
    BY CodecAssumption
  <2> HIDE DEF k, l, r, prefix
  <2>4. q = root => IsPrefix(prefix, ThreadKey(q, d))
    <3>1. IsPrefix(Slashed(k, << >>), Slashed(k, r))
      BY <2>2, <2>3, SlashedBegins
    <3>2. QED
      BY <3>1, <2>3, <2>31, <2>33
  <2>5. ASSUME IsPrefix(prefix, ThreadKey(q, d)) PROVE k = l
    <3>1. \A i \in 1..(Len(k) + 1) : SlashedAt(k, <<>>, i) = SlashedAt(l, r, i)
      <4>1. IsPrefix(Slashed(k, << >>), Slashed(l, r))
        BY <2>5, <2>3, <2>33
      <4>2. QED
        BY <4>1, <2>2, <2>3, SlashedBegins
    <3>2. \A i \in 1..Width : i \in 1..(Width + 1) /\ i <= Width
      BY <2>34
    <3>3. \A i \in 1..Width : k[i] = l[i]
      BY <3>1, <3>2, <2>2 DEF SlashedAt
    <3>4. QED
      BY <3>3, <2>2, SeqEqual
  <2>6. QED
    BY <2>4, <2>5, <2>32
<1> HIDE DEF row, tree, prefix
<1>9. ASSUME NEW r \in hits PROVE \E d \in Seen : ClickAt(d).parent = root /\ r = row(root, d)
  <2>1. r \in tree /\ IsPrefix(prefix, r.key)
    BY DEF Hits
  <2>2. PICK d \in Seen : ClickAt(d).parent # 0 /\ r = row(ClickAt(d).parent, d)
    BY <2>1, <1>3
  <2>3. ClickAt(d).parent = root
    BY <2>1, <2>2, <1>5, <1>6, <1>11
  <2>4. QED
    BY <2>2, <2>3
<1>10. ASSUME NEW d \in Seen, ClickAt(d).parent = root PROVE row(root, d) \in hits
  <2>1. row(root, d) \in tree /\ IsPrefix(prefix, row(root, d).key)
    BY <1>4, <1>5, <1>6, <1>10, <1>11, <1>12
  <2>2. QED
    BY <2>1 DEF Hits
<1>13. QED
  BY <1>9, <1>10 DEF row, tree, prefix

\* Rows with keys that start alike and end with the epoch of their frame.
LEMMA RowsBehind ==
  ASSUME LogInv, NEW rows, NEW p \in Seq(Nat),
         \A r \in rows : \E d \in Logged : r.key = p \o EpochKey(d) /\ r.frame = log[d],
         \A r, q \in rows : r.frame = q.frame => r = q
  PROVE  KeyedByEpoch(rows)
<1>1. \A d \in Logged : /\ d \in Nat /\ d < Power[Width] /\ Deserialize(log[d]).epoch = d
                        /\ EpochKey(d) \in Seq(Nat)
  BY LogRow, EpochKeyTyped DEF At
<1>2. ASSUME NEW r \in rows, NEW q \in rows
      PROVE  /\ Holds(r) /\ r.key \in Seq(Nat)
             /\ \/ r = q
                \/ Deserialize(r.frame).epoch < Deserialize(q.frame).epoch /\ Precedes(r.key, q.key)
                \/ Deserialize(q.frame).epoch < Deserialize(r.frame).epoch /\ Precedes(q.key, r.key)
  <2>1. PICK d \in Logged : r.key = p \o EpochKey(d) /\ r.frame = log[d]
    OBVIOUS
  <2>2. PICK e \in Logged : q.key = p \o EpochKey(e) /\ q.frame = log[e]
    OBVIOUS
  <2>3. Holds(r)
    BY <2>1 DEF Holds
  <2>4. r.key \in Seq(Nat)
    BY <2>1, <1>1, ConcatProperties
  <2> DEFINE k == EpochKey(d)
             l == EpochKey(e)
  <2>41. k \in Seq(Nat) /\ l \in Seq(Nat) /\ (d < e => Precedes(k, l)) /\ (e < d => Precedes(l, k))
    BY <1>1, KeysAscend
  <2>42. r.key = p \o k /\ q.key = p \o l
    BY <2>1, <2>2
  <2> HIDE DEF k, l
  <2>5. d < e => Precedes(r.key, q.key)
    BY <2>41, <2>42, PrecedesBehind
  <2>6. e < d => Precedes(q.key, r.key)
    BY <2>41, <2>42, PrecedesBehind
  <2>7. d = e => r = q
    BY <2>1, <2>2
  <2>8. d < e \/ e < d \/ d = e
    BY <1>1
  <2>9. Deserialize(r.frame).epoch = d /\ Deserialize(q.frame).epoch = e
    BY <2>1, <2>2, <1>1
  <2>10. QED
    BY <2>3, <2>4, <2>5, <2>6, <2>7, <2>8, <2>9
<1>3. QED
  BY <1>2 DEF KeyedByEpoch

\* cc.query_thread lists the replies to an epoch that have been projected, in order
\* and with a row of the epoch itself or without, whenever the root's key holds no
\* byte '/' (materializer.hpp:218-240).
THEOREM Thread == QueriesSpec => []ThreadFromLog
<1>1. ASSUME LogInv, ViewsInv, NEW root \in 1..MaxEpoch, SlashFree(EpochKey(root))
      PROVE  /\ ~QueryThreadThrows(root)
             /\ QueryThread(root) = Replies(root)
  <2> DEFINE row(d) == [key |-> ThreadKey(root, d), frame |-> log[d]]
             tree == {[key |-> ThreadKey(r[1], r[3]), frame |-> log[r[3]]] : r \in views.thread_tree}
             prefix == EpochKey(root) \o <<Slash>>
             hits == Hits(tree, prefix)
             p == Slashed(EpochKey(root), <<One>>) \o <<Slash>>
             C == {c \in Shown : c.click.parent = root}
  <2>1. /\ \A r \in hits : \E d \in Seen : ClickAt(d).parent = root /\ r = row(d)
        /\ \A d \in Seen : ClickAt(d).parent = root => row(d) \in hits
    BY <1>1, ThreadHits
  <2>2. \A d \in Seen : d \in Nat /\ Deserialize(log[d]) = At(d) /\ At(d).epoch = d /\ At(d) \in Shown
                        /\ At(d).click = ClickAt(d) /\ d \in Logged
    BY <1>1, ShownAre
  <2>3. root \in Nat
    BY <1>1
  <2>4. \A d \in Seen : row(d).key = p \o EpochKey(d) /\ row(d).key = ThreadKey(root, d) /\ row(d).frame = log[d]
    BY <2>2, <2>3, ThreadKeyIs
  <2>5. p \in Seq(Nat)
    BY <2>3, ThreadKeyIs
  <2>6. ThreadRows(root) = PrefixScan(tree, prefix)
    BY DEF ThreadRows
  <2> HIDE DEF row, tree, prefix, p
  <2>7. KeyedByEpoch(hits)
    <3>1. \A r \in hits : \E d \in Logged : r.key = p \o EpochKey(d) /\ r.frame = log[d]
      BY <2>1, <2>2, <2>4
    <3>2. \A r, q \in hits : r.frame = q.frame => r = q
      <4>1. ASSUME NEW r \in hits, NEW q \in hits, r.frame = q.frame PROVE r = q
        <5>1. PICK d \in Seen : r = row(d)
          BY <2>1
        <5>2. PICK e \in Seen : q = row(e)
          BY <2>1
        <5>3. log[d] = log[e]
          BY <5>1, <5>2, <4>1, <2>4
        <5>4. d = e
          BY <5>3, <2>2
        <5>5. QED
          BY <5>1, <5>2, <5>4
      <4>2. QED
        BY <4>1
    <3> HIDE DEF hits
    <3>3. QED
      BY <1>1, <3>1, <3>2, <2>5, RowsBehind
  <2>8. ASSUME NEW c \in C PROVE \E r \in hits : c = Deserialize(r.frame)
    <3>1. c.epoch \in Seen /\ c = At(c.epoch)
      BY <1>1, ShownAre
    <3>2. row(c.epoch) \in hits /\ row(c.epoch).frame = log[c.epoch]
      BY <3>1, <2>1, <2>2, <2>4
    <3>3. QED
      BY <3>1, <3>2, <2>2
  <2>9. ASSUME NEW r \in hits PROVE Deserialize(r.frame) \in C
    <3>1. PICK d \in Seen : ClickAt(d).parent = root /\ r = row(d)
      BY <2>1
    <3>2. Deserialize(r.frame) = At(d) /\ At(d).click.parent = root /\ At(d) \in Shown
      BY <3>1, <2>2, <2>4
    <3>3. QED
      BY <3>2
  <2>10. QueryThread(root) = Chronicle(C)
    <3> HIDE DEF C
    <3>1. Read(PrefixScan(tree, prefix)) = Chronicle(C)
      BY <1>1, <2>7, <2>8, <2>9, ReadScanIs
    <3>2. QED
      BY <3>1, <2>6 DEF QueryThread
  <2>11. ~QueryThreadThrows(root)
    <3>1. Lists(ThreadRows(root), hits, ByKey(hits))
      BY <1>1, <2>6, <2>7, ScanIs
    <3>2. \A i \in DOMAIN ThreadRows(root) : ThreadRows(root)[i] \in hits
      <4> HIDE DEF hits
      <4>1. QED
        BY <3>1, SeqFacts DEF Lists
    <3>3. \A r \in hits : ~StoiThrows(DepthText(r.key))
      BY <2>1, <2>2, <2>3, <2>4, <1>1, DepthIsOne
    <3> HIDE DEF hits
    <3>4. QED
      BY <3>2, <3>3 DEF QueryThreadThrows
  <2>12. QED
    BY <2>10, <2>11 DEF Replies
<1>2. LogInv /\ ViewsInv => ThreadFromLog
  BY <1>1 DEF ThreadFromLog
<1>3. QED
  BY <1>2, QueriesInvariant, PTL

-----------------------------------------------------------------------------
(* Sets of clacks *)

\* S holds the clacks of the epochs in E, all of them shown.
ClacksOf(S, E) ==
  S \subseteq Shown /\ E \subseteq Seen /\ (\A f \in E : At(f) \in S) /\ \A c \in S : c.epoch \in E

\* What the turns say of such a set they say of the epochs.
LEMMA ClacksOfIs ==
  ASSUME LogInv, NEW S, NEW E, ClacksOf(S, E)
  PROVE  /\ S = {} <=> E = {}
         /\ \A d \in E : At(d) \in S /\ At(d).epoch = d /\ At(d).click = ClickAt(d) /\ d \in Seen
         /\ \A c \in S : c.epoch \in E /\ c = At(c.epoch)
<1>1. \A d \in E : At(d) \in S /\ At(d).epoch = d /\ At(d).click = ClickAt(d) /\ d \in Seen
  BY ShownAre DEF ClacksOf
<1>2. \A c \in S : c.epoch \in E /\ c = At(c.epoch)
  BY ShownAre DEF ClacksOf
<1>3. QED
  BY <1>1, <1>2

\* The latest clack of a set is that of its newest epoch.
LEMMA LatestIs ==
  ASSUME LogInv, ViewsInv, NEW S, NEW E, ClacksOf(S, E), NEW d, IsNewest(order, d, E)
  PROVE  Latest(S) = At(d) /\ At(d).epoch = d /\ S # {} /\ At(d).click = ClickAt(d)
<1>1. d \in E /\ At(d) \in S /\ At(d).epoch = d /\ At(d).click = ClickAt(d) /\ d \in Seen
      /\ \A f \in E : <<f, d>> \in order
  BY ClacksOfIs DEF IsNewest
<1>2. \A c \in S : c.epoch \in E /\ c = At(c.epoch) /\ c.epoch \in Seen
  BY ClacksOfIs DEF ClacksOf
<1>3. \A c \in S : NoLater(c, At(d))
  BY <1>1, <1>2 DEF NoLater
<1>4. ASSUME NEW c \in S, \A b \in S : NoLater(b, c) PROVE c = At(d)
  <2>1. <<d, c.epoch>> \in order
    BY <1>1, <1>4 DEF NoLater
  <2>2. <<c.epoch, d>> \in order
    BY <1>1, <1>2
  <2>3. c.epoch = d
    BY <2>1, <2>2, <1>1, <1>2 DEF ViewsInv, OrderInv
  <2>4. QED
    BY <2>3, <1>2
<1>5. Latest(S) = At(d)
  BY <1>1, <1>3, <1>4 DEF Latest
<1>6. QED
  BY <1>1, <1>5

\* The earliest is that of its oldest.
LEMMA EarliestIs ==
  ASSUME LogInv, ViewsInv, NEW S, NEW E, ClacksOf(S, E), NEW d, IsOldest(order, d, E)
  PROVE  Earliest(S).epoch = d
<1>1. d \in E /\ At(d) \in S /\ At(d).epoch = d /\ d \in Seen
      /\ \A f \in E : <<d, f>> \in order
  BY ClacksOfIs DEF IsOldest
<1>2. \A c \in S : c.epoch \in E /\ c = At(c.epoch) /\ c.epoch \in Seen
  BY ClacksOfIs DEF ClacksOf
<1>3. \A c \in S : NoLater(At(d), c)
  BY <1>1, <1>2 DEF NoLater
<1>4. ASSUME NEW c \in S, \A b \in S : NoLater(c, b) PROVE c = At(d)
  <2>1. <<c.epoch, d>> \in order
    BY <1>1, <1>4 DEF NoLater
  <2>2. <<d, c.epoch>> \in order
    BY <1>1, <1>2
  <2>3. c.epoch = d
    BY <2>1, <2>2, <1>1, <1>2 DEF ViewsInv, OrderInv
  <2>4. QED
    BY <2>3, <1>2
<1>5. Earliest(S) = At(d)
  BY <1>1, <1>3, <1>4 DEF Earliest
<1>6. QED
  BY <1>1, <1>5

\* The sets of clacks the boards are stated with, by epochs, ...
LEMMA BoardClacks ==
  ASSUME LogInv, NEW t
  PROVE  /\ ClacksOf({c \in Shown : c.click.task = t /\ c.click.verb \in BoardVerbs}, OnBoard(History, t))
         /\ ClacksOf({c \in Shown : c.click.task = t /\ c.click.verb = "CLAIM"}, ClaimsOf(History, t))
         /\ ClacksOf({c \in Shown : c.click.agent = t /\ c.click.verb \in {"ANNOUNCE", "HEARTBEAT"}},
                     SignsOf(History, t))
         /\ ClacksOf({c \in Shown : c.click.agent = t /\ c.click.verb = "ANNOUNCE"}, ProfilesOf(History, t))
<1> DEFINE h == History
<1>1. DOMAIN h = Seen /\ \A d \in Seen : h[d] = ClickAt(d)
  BY HistoryIs
<1>2. \A d \in Seen : At(d) \in Shown /\ At(d).click = h[d]
  BY <1>1, ShownAre
<1>3. \A c \in Shown : c.epoch \in Seen /\ c.click = h[c.epoch]
  BY <1>1, ShownAre
<1> HIDE DEF h
<1>4. ClacksOf({c \in Shown : c.click.task = t /\ c.click.verb \in BoardVerbs}, OnBoard(h, t))
  BY <1>1, <1>2, <1>3 DEF ClacksOf, OnBoard
<1>5. ClacksOf({c \in Shown : c.click.task = t /\ c.click.verb = "CLAIM"}, ClaimsOf(h, t))
  BY <1>1, <1>2, <1>3 DEF ClacksOf, ClaimsOf
<1>6. ClacksOf({c \in Shown : c.click.agent = t /\ c.click.verb \in {"ANNOUNCE", "HEARTBEAT"}}, SignsOf(h, t))
  BY <1>1, <1>2, <1>3 DEF ClacksOf, SignsOf
<1>7. ClacksOf({c \in Shown : c.click.agent = t /\ c.click.verb = "ANNOUNCE"}, ProfilesOf(h, t))
  BY <1>1, <1>2, <1>3 DEF ClacksOf, ProfilesOf
<1>8. QED
  BY <1>4, <1>5, <1>6, <1>7 DEF h

\* ... and the verdicts since a clack.
LEMMA VerdictsAre ==
  ASSUME LogInv, NEW e
  PROVE  /\ ClacksOf(VerdictsSince(e), VerdictsOn(History, order, e))
         /\ VerdictsOn(History, order, e) = {} <=> VerdictsSince(e) = {}
<1> DEFINE h == History
           V == VerdictsOn(h, order, e)
<1>1. DOMAIN h = Seen /\ \A d \in Seen : h[d] = ClickAt(d)
  BY HistoryIs
<1> HIDE DEF h
<1>2. \A d \in V : d \in Seen /\ ClickAt(d).verb \in Verdicts /\ ClickAt(d).ref = e /\ <<e, d>> \in order
  BY <1>1 DEF VerdictsOn
<1>3. \A d \in V : At(d) \in VerdictsSince(e)
  BY <1>2, ShownAre DEF VerdictsSince
<1>4. \A c \in VerdictsSince(e) : c \in Shown /\ c.epoch \in V
  BY <1>1, ShownAre DEF VerdictsSince, VerdictsOn
<1> HIDE DEF V
<1>5. ClacksOf(VerdictsSince(e), V)
  BY <1>2, <1>3, <1>4 DEF ClacksOf
<1>6. V = {} <=> VerdictsSince(e) = {}
  BY <1>5, ClacksOfIs
<1>7. QED
  BY <1>5, <1>6 DEF V, h

-----------------------------------------------------------------------------
(* Reviews *)

\* The HITL queue follows from the invariant.
LEMMA HitlIs ==
  ASSUME LogInv, ViewsInv
  PROVE  HitlFromLog
<1> DEFINE h == History
           row(d) == [key |-> EpochKey(d), frame |-> log[d]]
           table == {row(e) : e \in views.hitl_queue}
           hits == Hits(table, <<>>)
           C == {c \in Shown : c.click.hitl /\ VerdictsSince(c.epoch) = {}}
<1>1. DOMAIN h = Seen /\ \A d \in Seen : h[d] = ClickAt(d)
  BY HistoryIs
<1>2. QueueIs(views.hitl_queue, h, order)
  BY DEF ViewsInv, ViewsAre
<1>3. \A d \in Seen : /\ d \in Nat /\ Deserialize(log[d]) = At(d) /\ At(d).epoch = d /\ At(d) \in Shown
                        /\ At(d).click = ClickAt(d) /\ d \in Logged
  BY ShownAre
<1> HIDE DEF h
<1>4. \A d \in Seen : VerdictsOn(h, order, d) = {} <=> VerdictsSince(d) = {}
  BY VerdictsAre DEF h
<1>5. \A d \in Seen : d \in views.hitl_queue <=> At(d) \in C
  BY <1>1, <1>2, <1>3, <1>4 DEF QueueIs
<1>6. views.hitl_queue \subseteq Seen
  BY <1>1, <1>2 DEF QueueIs
<1>7. \A d \in Seen : row(d).key = EpochKey(d) /\ row(d).frame = log[d] /\ EpochKey(d) \in Seq(Nat)
                        /\ EpochKey(d) = << >> \o EpochKey(d)
  BY <1>3, EpochKeyTyped, ConcatEmptySeq
<1>8. \A r \in table : \E d \in Seen : r = row(d) /\ d \in views.hitl_queue
  BY <1>6
<1>9. \A d \in Seen : d \in views.hitl_queue => row(d) \in table
  OBVIOUS
<1> HIDE DEF row, table
<1>10. hits = table
  BY <1>7, <1>8, EveryPrefix DEF Hits
<1>11. KeyedByEpoch(hits)
  <2>1. << >> \in Seq(Nat)
    BY EmptySeq
  <2>2. \A r \in table : \E d \in Logged : r.key = << >> \o EpochKey(d) /\ r.frame = log[d]
    BY <1>3, <1>7, <1>8
  <2>3. ASSUME NEW r \in table, NEW q \in table, r.frame = q.frame PROVE r = q
    <3>1. PICK d \in Seen : r = row(d)
      BY <1>8
    <3>2. PICK e \in Seen : q = row(e)
      BY <1>8
    <3>3. log[d] = log[e]
      BY <3>1, <3>2, <2>3, <1>7
    <3>4. d = e
      BY <3>3, <1>3
    <3>5. QED
      BY <3>1, <3>2, <3>4
  <2>4. KeyedByEpoch(table)
    BY <2>1, <2>2, <2>3, RowsBehind
  <2>5. QED
    BY <2>4, <1>10
<1>12. ASSUME NEW c \in C PROVE \E r \in hits : c = Deserialize(r.frame)
  <2>1. c.epoch \in Seen /\ c = At(c.epoch)
    BY ShownAre
  <2>2. row(c.epoch) \in hits /\ row(c.epoch).frame = log[c.epoch]
    BY <2>1, <1>5, <1>7, <1>9, <1>10
  <2>3. QED
    BY <2>1, <2>2, <1>3
<1>13. ASSUME NEW r \in hits PROVE Deserialize(r.frame) \in C
  <2>1. PICK d \in Seen : r = row(d) /\ d \in views.hitl_queue
    BY <1>8, <1>10
  <2>2. Deserialize(r.frame) = At(d)
    BY <2>1, <1>3, <1>7
  <2>3. QED
    BY <2>1, <2>2, <1>5
<1>14. QueryHitlQueue = Read(PrefixScan(table, << >>))
  BY DEF QueryHitlQueue, table, row
<1>15. QueryHitlQueue = Chronicle(C)
  <2> HIDE DEF C
  <2>1. QED
    BY <1>11, <1>12, <1>13, <1>14, ReadScanIs
<1>16. QED
  BY <1>15 DEF HitlFromLog

-----------------------------------------------------------------------------
(* Artifacts *)

\* The table of artifacts as it is scanned.
ArtifactRow(a) == [key |-> Slashed(a.task, EpochKey(a.epoch)), entry |-> a]
ArtifactTable == {ArtifactRow(a) : a \in views.artifact_index}

\* Every entry is of one artifact of the log, and every artifact has its entry.
LEMMA EntriesAre ==
  ASSUME LogInv, ViewsInv
  PROVE  /\ \A a \in views.artifact_index :
              /\ a.epoch \in Seen /\ ClickAt(a.epoch).verb = "ARTIFACT" /\ a.task = ClickAt(a.epoch).task
              /\ a.epoch \in Nat /\ a.epoch < Power[Width] /\ a.task \in Seq(Byte)
              /\ EpochKey(a.epoch) \in Seq(Byte) /\ EpochKey(a.epoch) \in Seq(Nat) /\ Len(EpochKey(a.epoch)) = Width
              /\ ReviewIs(a.review, History, order, a.epoch)
         /\ \A a, b \in views.artifact_index : a.epoch = b.epoch => a = b
         /\ \A d \in Seen : ClickAt(d).verb = "ARTIFACT" => \E a \in views.artifact_index : a.epoch = d
<1> DEFINE h == History
<1>1. DOMAIN h = Seen /\ (\A d \in Seen : h[d] = ClickAt(d)) /\ IndexIs(views.artifact_index, h, order)
  BY HistoryIs DEF ViewsInv, ViewsAre
<1> HIDE DEF h
<1>2. ASSUME NEW a \in views.artifact_index
      PROVE  /\ a.epoch \in Seen /\ ClickAt(a.epoch).verb = "ARTIFACT" /\ a.task = ClickAt(a.epoch).task
             /\ a = [task |-> ClickAt(a.epoch).task, epoch |-> a.epoch, review |-> a.review]
             /\ ReviewIs(a.review, h, order, a.epoch)
  <2>1. PICK d \in Seen : /\ ClickAt(d).verb = "ARTIFACT"
                            /\ a = [task |-> ClickAt(d).task, epoch |-> d, review |-> a.review]
                            /\ ReviewIs(a.review, h, order, d)
    BY <1>1 DEF IndexIs
  <2>2. a.epoch = d /\ a.task = ClickAt(d).task
    BY <2>1
  <2>3. QED
    BY <2>1, <2>2
<1>3. ASSUME NEW d \in Seen PROVE d \in Nat /\ d < Power[Width] /\ ClickAt(d).task \in Seq(Byte) /\ d \in Logged
  BY LogRow, HistoryIs DEF ClickType
<1>4. ASSUME NEW a \in views.artifact_index, NEW b \in views.artifact_index, a.epoch = b.epoch PROVE a = b
  <2>1. ReviewIs(a.review, h, order, a.epoch) /\ ReviewIs(b.review, h, order, a.epoch)
    BY <1>2, <1>4
  <2>2. \A f, d \in DOMAIN h : <<f, d>> \in order /\ <<d, f>> \in order => f = d
    BY <1>1 DEF ViewsInv, OrderInv
  <2>3. a.review = b.review
    BY <2>1, <2>2, ReviewOnce
  <2>4. QED
    BY <2>3, <1>2, <1>4
<1>5. \A d \in Seen : ClickAt(d).verb = "ARTIFACT" => \E a \in views.artifact_index : a.epoch = d
  BY <1>1 DEF IndexIs
<1>6. ASSUME NEW a \in views.artifact_index
      PROVE  /\ a.epoch \in Nat /\ a.epoch < Power[Width] /\ a.task \in Seq(Byte)
             /\ EpochKey(a.epoch) \in Seq(Byte) /\ EpochKey(a.epoch) \in Seq(Nat) /\ Len(EpochKey(a.epoch)) = Width
  <2>1. a.epoch \in Nat /\ a.epoch < Power[Width] /\ a.task \in Seq(Byte)
    BY <1>2, <1>3
  <2>2. QED
    BY <2>1, EpochKeyTyped
<1>7. QED
  BY <1>2, <1>4, <1>5, <1>6 DEF h

\* No two entries have the same key: it ends with the entry's epoch.
LEMMA ArtifactKeys ==
  ASSUME LogInv, ViewsInv, NEW a \in views.artifact_index, NEW b \in views.artifact_index
  PROVE  /\ ArtifactRow(a).key \in Seq(Nat) /\ ArtifactRow(a).entry = a
         /\ ArtifactRow(a).key = Slashed(a.task, EpochKey(a.epoch))
         /\ ArtifactRow(a).key = ArtifactRow(b).key => a = b
         /\ a.task = b.task /\ a.epoch < b.epoch => Precedes(ArtifactRow(a).key, ArtifactRow(b).key)
<1> DEFINE s == a.task
           t == b.task
           p == EpochKey(a.epoch)
           q == EpochKey(b.epoch)
<1>1. /\ s \in Seq(Byte) /\ t \in Seq(Byte) /\ p \in Seq(Byte) /\ q \in Seq(Byte)
      /\ Len(p) = Width /\ Len(q) = Width /\ p \in Seq(Nat) /\ q \in Seq(Nat)
      /\ a.epoch \in Nat /\ a.epoch < Power[Width] /\ b.epoch \in Nat /\ b.epoch < Power[Width]
  BY EntriesAre
<1>2. a.epoch < b.epoch => Precedes(p, q)
  BY <1>1, KeysAscend
<1>3. p = q => a = b
  <2>1. p = q => a.epoch = b.epoch
    BY <1>1, KeyRoundTrip
  <2>2. QED
    BY <2>1, EntriesAre
<1>4. /\ ArtifactRow(a).key = Slashed(s, p) /\ ArtifactRow(a).entry = a
      /\ ArtifactRow(b).key = Slashed(t, q)
  BY DEF ArtifactRow
<1>5. Len(s) \in Nat /\ Len(t) \in Nat /\ Width \in Nat
  BY <1>1, SeqFacts, CodecAssumption
<1> HIDE DEF s, t, p, q
<1>6. /\ Slashed(s, p) \in Seq(Byte) /\ Len(Slashed(s, p)) = Len(s) + 1 + Width
      /\ \A i \in 1..(Len(s) + 1 + Width) : Slashed(s, p)[i] = SlashedAt(s, p, i)
  <2>1. /\ Slashed(s, p) \in Seq(Byte) /\ Len(Slashed(s, p)) = Len(s) + 1 + Len(p)
        /\ \A i \in 1..(Len(s) + 1 + Len(p)) : Slashed(s, p)[i] = SlashedAt(s, p, i)
    BY <1>1, SlashedIs
  <2>2. Len(p) = Width
    BY <1>1
  <2>3. QED
    BY <2>1, <2>2
<1>7. /\ Slashed(t, q) \in Seq(Byte) /\ Len(Slashed(t, q)) = Len(t) + 1 + Width
      /\ \A i \in 1..(Len(t) + 1 + Width) : Slashed(t, q)[i] = SlashedAt(t, q, i)
  <2>1. /\ Slashed(t, q) \in Seq(Byte) /\ Len(Slashed(t, q)) = Len(t) + 1 + Len(q)
        /\ \A i \in 1..(Len(t) + 1 + Len(q)) : Slashed(t, q)[i] = SlashedAt(t, q, i)
    BY <1>1, SlashedIs
  <2>2. Len(q) = Width
    BY <1>1
  <2>3. QED
    BY <2>1, <2>2
<1>8. ASSUME Slashed(s, p) = Slashed(t, q) PROVE p = q
  <2>1. Len(s) = Len(t)
    BY <1>5, <1>6, <1>7, <1>8
  <2>2. ASSUME NEW i \in 1..Width PROVE p[i] = q[i]
    <3> DEFINE j == Len(s) + 1 + i
    <3>1. j \in 1..(Len(s) + 1 + Width) /\ ~(j <= Len(s)) /\ j # Len(s) + 1 /\ j - Len(s) - 1 = i
      BY <1>5
    <3> HIDE DEF j
    <3>2. SlashedAt(s, p, j) = p[i] /\ SlashedAt(t, q, j) = q[i]
      BY <3>1, <2>1 DEF SlashedAt
    <3>3. SlashedAt(s, p, j) = SlashedAt(t, q, j)
      BY <3>1, <2>1, <1>6, <1>7, <1>8
    <3>4. QED
      BY <3>2, <3>3
  <2>3. QED
    BY <2>2, <1>1, SeqEqual
<1>9. ASSUME s = t, Precedes(p, q) PROVE Precedes(Slashed(s, p), Slashed(t, q))
  <2> DEFINE u == s \o <<Slash>>
  <2>1. u \in Seq(Nat)
    <3>1. <<Slash>> \in Seq(Byte)
      BY CodecAssumption DEF Byte
    <3>2. u \in Seq(Byte)
      BY <1>1, <3>1, ConcatProperties
    <3>3. QED
      BY <3>2, BytesAreNumbers
  <2>2. Slashed(s, p) = u \o p /\ Slashed(t, q) = u \o q
    BY <1>9 DEF Slashed
  <2> HIDE DEF u
  <2>3. Precedes(u \o p, u \o q)
    BY <2>1, <1>1, <1>9, PrecedesBehind
  <2>4. QED
    BY <2>2, <2>3
<1>10. Slashed(s, p) \in Seq(Nat)
  BY <1>6, BytesAreNumbers
<1>11. QED
  BY <1>2, <1>3, <1>4, <1>8, <1>9, <1>10 DEF s, t, p, q

\* Rows under distinct keys are scanned in the order of their keys.
LEMMA TableScan ==
  ASSUME NEW rows, NEW prefix, IsFiniteSet(Hits(rows, prefix)),
         \A r \in Hits(rows, prefix) : r.key \in Seq(Nat),
         \A r, q \in Hits(rows, prefix) : r.key = q.key => r = q
  PROVE  LET hits == Hits(rows, prefix) IN
         /\ Lists(PrefixScan(rows, prefix), hits, ByKey(hits))
         /\ Orders(ByKey(hits), hits)
<1> DEFINE hits == Hits(rows, prefix)
<1>1. \A r \in hits : r.key \in Seq(Nat)
  OBVIOUS
<1>2. \A r, q \in hits : r.key = q.key => r = q
  OBVIOUS
<1>3. \A r, q \in hits : <<r, q>> \in ByKey(hits) <=> Precedes(r.key, q.key)
  BY DEF ByKey
<1> HIDE DEF hits
<1>4. Orders(ByKey(hits), hits)
  <2>1. \A r \in hits : <<r, r>> \notin ByKey(hits)
    BY <1>1, <1>3, PrecedesOrders
  <2>2. ASSUME NEW r \in hits, NEW q \in hits, NEW p \in hits, <<r, q>> \in ByKey(hits), <<q, p>> \in ByKey(hits)
        PROVE  <<r, p>> \in ByKey(hits)
    <3>1. Precedes(r.key, q.key) /\ Precedes(q.key, p.key)
      BY <2>2, <1>3
    <3>2. r.key \in Seq(Nat) /\ q.key \in Seq(Nat) /\ p.key \in Seq(Nat)
      BY <1>1
    <3>3. Precedes(r.key, p.key)
      BY <3>1, <3>2, PrecedesOrders
    <3>4. QED
      BY <3>3, <1>3
  <2>3. ASSUME NEW r \in hits, NEW q \in hits PROVE r = q \/ <<r, q>> \in ByKey(hits) \/ <<q, r>> \in ByKey(hits)
    <3>1. r.key \in Seq(Nat) /\ q.key \in Seq(Nat)
      BY <1>1
    <3>2. r.key = q.key \/ Precedes(r.key, q.key) \/ Precedes(q.key, r.key)
      BY <3>1, PrecedesOrders
    <3>3. QED
      BY <3>2, <1>2, <1>3
  <2>4. QED
    BY <2>1, <2>2, <2>3 DEF Orders
<1>5. IsFiniteSet(hits)
  BY DEF hits
<1>6. Lists(PrefixScan(rows, prefix), hits, ByKey(hits))
  BY <1>4, <1>5, ScanLists DEF hits
<1>7. QED
  BY <1>4, <1>6 DEF hits

\* A scan of the artifacts lists them in the order of their keys.
LEMMA ArtifactScan ==
  ASSUME LogInv, ViewsInv, NEW prefix
  PROVE  LET hits == Hits(ArtifactTable, prefix) IN
         /\ Lists(PrefixScan(ArtifactTable, prefix), hits, ByKey(hits))
         /\ Orders(ByKey(hits), hits)
<1> DEFINE hits == Hits(ArtifactTable, prefix)
<1>1. \A r \in hits : r.entry \in views.artifact_index /\ r = ArtifactRow(r.entry) /\ r.key \in Seq(Nat)
  <2>1. ASSUME NEW r \in hits PROVE r.entry \in views.artifact_index /\ r = ArtifactRow(r.entry) /\ r.key \in Seq(Nat)
    <3>1. PICK a \in views.artifact_index : r = ArtifactRow(a)
      BY DEF Hits, ArtifactTable
    <3>2. r.entry = a /\ r.key \in Seq(Nat)
      BY <3>1, ArtifactKeys
    <3>3. QED
      BY <3>1, <3>2
  <2>2. QED
    BY <2>1
<1>2. \A r, q \in hits : r.key = q.key => r = q
  <2>1. ASSUME NEW r \in hits, NEW q \in hits, r.key = q.key PROVE r = q
    <3>1. ArtifactRow(r.entry).key = ArtifactRow(q.entry).key
      BY <2>1, <1>1
    <3>2. r.entry = q.entry
      BY <3>1, <1>1, ArtifactKeys
    <3>3. QED
      BY <3>2, <1>1
  <2>2. QED
    BY <2>1
<1> HIDE DEF hits
<1>5. IsFiniteSet(hits)
  <2> DEFINE f == [r \in hits |-> r.entry.epoch]
  <2>1. f \in [hits -> Logged]
    BY <1>1, EntriesAre, HistoryIs
  <2>2. \A r, q \in hits : f[r] = f[q] => r = q
    <3>1. \A r, q \in hits : r.entry.epoch = q.entry.epoch => r = q
      BY <1>1, EntriesAre
    <3>2. QED
      BY <3>1
  <2>3. f \in Injection(hits, Logged)
    <3>1. DOMAIN f = hits
      OBVIOUS
    <3> HIDE DEF f
    <3>2. QED
      BY <2>1, <2>2, <3>1 DEF Injection, IsInjective
  <2> HIDE DEF f
  <2>4. QED
    BY <2>3, LoggedFinite, FS_Injection
<1>6. QED
  BY <1>1, <1>2, <1>5, TableScan DEF hits

\* While epochs do not reach the high byte of their keys, no id goes on into
\* the epoch.
LEMMA TaskPrefix ==
  ASSUME MaxEpoch < Power[Width - 1], 0 \notin IdBytes, NEW t \in Tasks,
         NEW s \in Seq(Byte), NEW e \in Nat, e <= MaxEpoch,
         IsPrefix(Slashed(t, <<>>), Slashed(s, EpochKey(e)))
  PROVE  IsPrefix(Slashed(t, <<>>), Slashed(s, <<>>))
<1> DEFINE k == EpochKey(e)
           m == Len(t)
           n == Len(s)
<1>1. k[1] = 0
  <2>1. Width \in Nat \ {0} /\ Base \in Nat \ {0, 1}
    BY CodecAssumption
  <2>2. Width - 1 \in 0..Width /\ 1 \in 1..Width
    BY <2>1
  <2>3. k[1] = Quotient(e, 1) % Base
    BY <2>2, Digits
  <2>4. Power[Width - 1] \in Nat \ {0} /\ MaxEpoch \in Nat
    BY <2>2, PowerIs, Bounds
  <2>5. e < Power[Width - 1]
    BY <2>4
  <2>6. e \div Power[Width - 1] = 0
    <3>1. ASSUME NEW p \in Nat \ {0}, e < p PROVE e \div p = 0
      BY <3>1, SMTT(30)
    <3>2. QED
      BY <2>4, <2>5, <3>1
  <2>7. 0 % Base = 0
    BY <2>1
  <2>8. QED
    BY <2>3, <2>6, <2>7 DEF Quotient
<1>2. t \in Seq(Byte) /\ k \in Seq(Byte) /\ k \in Seq(Nat) /\ Len(k) = Width /\ Width \in Nat \ {0}
      /\ t \in Seq(IdBytes)
  <2>1. t \in Seq(IdBytes) /\ IdBytes \subseteq Byte
    BY QueriesAssumption, CodecAssumption DEF Byte
  <2>2. t \in Seq(Byte)
    BY <2>1, SeqMonotonic
  <2>3. QED
    BY <2>1, <2>2, EpochKeyTyped, CodecAssumption
<1>3. m \in Nat /\ n \in Nat /\ \A i \in 1..m : t[i] \in IdBytes
  BY <1>2, SeqFacts
<1>4. Slash \in IdBytes /\ Slash # 0
  BY CodecAssumption
<1>5. << >> \in Seq(Byte) /\ Len(<< >>) = 0
  BY EmptySeq
<1> HIDE DEF k
<1>6. m <= n + Width /\ \A i \in 1..(m + 1) : SlashedAt(t, <<>>, i) = SlashedAt(s, k, i)
  <2>1. IsPrefix(Slashed(t, <<>>), Slashed(s, k))
    BY DEF k
  <2>2. Len(t) <= Len(s) + Len(k) /\ \A i \in 1..(Len(t) + 1) : SlashedAt(t, <<>>, i) = SlashedAt(s, k, i)
    BY <2>1, <1>2, SlashedBegins
  <2>3. QED
    BY <2>2, <1>2
<1>7. m <= n
  <2> SUFFICES ASSUME ~(m <= n) PROVE FALSE
    OBVIOUS
  <2> DEFINE j == n + 2
  <2>1. j \in 1..(m + 1) /\ ~(j <= n) /\ j # n + 1 /\ j - n - 1 = 1 /\ (j <= m \/ j = m + 1)
        /\ (j <= m => j \in 1..m)
    BY <1>3
  <2> HIDE DEF j
  <2>2. SlashedAt(s, k, j) = 0
    BY <2>1, <1>1 DEF SlashedAt
  <2>3. SlashedAt(t, <<>>, j) \in IdBytes
    BY <2>1, <1>3, <1>4 DEF SlashedAt
  <2>4. QED
    BY <2>1, <2>2, <2>3, <1>6
<1>8. \A i \in 1..(m + 1) : SlashedAt(t, <<>>, i) = SlashedAt(s, <<>>, i)
  <2>1. \A i \in 1..(m + 1) : i <= n \/ i = n + 1
    BY <1>3, <1>7
  <2>2. \A i \in 1..(m + 1) : SlashedAt(s, k, i) = SlashedAt(s, <<>>, i)
    BY <2>1 DEF SlashedAt
  <2>3. QED
    BY <2>2, <1>6
<1>9. Len(t) <= Len(s) + Len(<< >>)
  BY <1>3, <1>5, <1>7
<1>10. QED
  BY <1>2, <1>5, <1>8, <1>9, SlashedBegins

\* The artifacts of a task by epoch.
Artifacts(t) == {d \in Seen : ClickAt(d).verb = "ARTIFACT" /\ ClickAt(d).task = t}
Less(D) == {p \in D \X D : p[1] < p[2]}

\* A task's own rows, by epoch.
LEMMA OwnArtifacts ==
  ASSUME LogInv, ViewsInv, NEW t \in Tasks
  PROVE  LET rows == QueryArtifacts(t)
             own == Kept(rows, {r \in Range(rows) : r.entry.task = t})
             made == Chronicle({c \in Shown : c.click.task = t /\ c.click.verb = "ARTIFACT"})
         IN [i \in DOMAIN own |-> own[i].entry.epoch] = [i \in DOMAIN made |-> made[i].epoch]
<1> DEFINE prefix == Slashed(t, <<>>)
           hits == Hits(ArtifactTable, prefix)
           rows == QueryArtifacts(t)
           T == {r \in Range(rows) : r.entry.task = t}
           own == Kept(rows, T)
           O == {r \in hits : r.entry.task = t}
           M == {c \in Shown : c.click.task = t /\ c.click.verb = "ARTIFACT"}
           made == Chronicle(M)
           D == Artifacts(t)
           x == [i \in DOMAIN own |-> own[i].entry.epoch]
           y == [i \in DOMAIN made |-> made[i].epoch]
<1>1. rows = PrefixScan(ArtifactTable, prefix)
  BY DEF QueryArtifacts, ArtifactTable, ArtifactRow
<1>2. Lists(rows, hits, ByKey(hits)) /\ Orders(ByKey(hits), hits)
  BY <1>1, ArtifactScan
<1>3. \A r \in hits : r.entry \in views.artifact_index /\ r = ArtifactRow(r.entry)
  <2>1. ASSUME NEW r \in hits PROVE r.entry \in views.artifact_index /\ r = ArtifactRow(r.entry)
    <3>1. PICK a \in views.artifact_index : r = ArtifactRow(a)
      BY DEF Hits, ArtifactTable
    <3>2. r.entry = a
      BY <3>1, ArtifactKeys
    <3>3. QED
      BY <3>1, <3>2
  <2>2. QED
    BY <2>1
<1>4. \A a \in views.artifact_index : a.task = t => ArtifactRow(a) \in O
  <2>1. ASSUME NEW a \in views.artifact_index, a.task = t PROVE ArtifactRow(a) \in O
    <3>1. t \in Seq(Byte) /\ EpochKey(a.epoch) \in Seq(Byte)
      BY <2>1, EntriesAre
    <3>2. ArtifactRow(a).key = Slashed(t, EpochKey(a.epoch)) /\ ArtifactRow(a).entry = a
      BY <2>1, ArtifactKeys
    <3>3. IsPrefix(prefix, ArtifactRow(a).key)
      BY <3>1, <3>2, SlashedBegins
    <3>4. QED
      BY <2>1, <3>2, <3>3 DEF Hits, ArtifactTable
  <2>2. QED
    BY <2>1
<1>5. \A r, q \in hits : <<r, q>> \in ByKey(hits) <=> Precedes(r.key, q.key)
  BY DEF ByKey
<1>6. \A d \in D : d \in Nat
  BY ShownAre DEF Artifacts
<1>7. Orders(Less(D), D)
  <2>1. \A d, e \in D : <<d, e>> \in Less(D) <=> d < e
    BY DEF Less
  <2>2. ASSUME NEW d \in D, NEW e \in D, NEW f \in D
        PROVE  ~(d < d) /\ (d < e /\ e < f => d < f) /\ (d = e \/ d < e \/ e < d)
    BY <1>6
  <2> HIDE DEF D
  <2>3. QED
    BY <2>1, <2>2 DEF Orders
<1> HIDE DEF hits, rows, prefix
<1>8. hits \cap T = O
  BY <1>2 DEF Lists
<1>9. Lists(own, O, ByKey(hits))
  <2>1. Lists(own, hits \cap T, ByKey(hits))
    <3> HIDE DEF T
    <3>1. QED
      BY <1>2, KeptLists
  <2>2. QED
    BY <2>1, <1>8
<1> HIDE DEF own, T
<1>10. Lists(x, D, Less(D))
  <2> DEFINE f == [r \in O |-> r.entry.epoch]
  <2>1. \A r \in O : r.entry.epoch \in D
    BY <1>3, EntriesAre DEF Artifacts
  <2>2. \A d \in D : \E r \in O : d = r.entry.epoch
    <3>1. ASSUME NEW d \in D PROVE \E r \in O : d = r.entry.epoch
      <4>1. PICK a \in views.artifact_index : a.epoch = d
        BY EntriesAre DEF Artifacts
      <4>2. a.task = t
        BY <4>1, EntriesAre DEF Artifacts
      <4>3. ArtifactRow(a) \in O /\ ArtifactRow(a).entry = a
        BY <4>2, <1>4, ArtifactKeys
      <4>4. QED
        BY <4>1, <4>3
    <3>2. QED
      BY <3>1
  <2>3. ASSUME NEW r \in O, NEW q \in O, <<r, q>> \in ByKey(hits) PROVE r.entry.epoch < q.entry.epoch
    <3>1. r # q /\ <<q, r>> \notin ByKey(hits)
      BY <2>3, <1>2 DEF Orders
    <3>2. r.entry.epoch # q.entry.epoch
      BY <3>1, <1>3, EntriesAre
    <3>3. ASSUME q.entry.epoch < r.entry.epoch PROVE FALSE
      <4>1. Precedes(ArtifactRow(q.entry).key, ArtifactRow(r.entry).key)
        BY <3>3, <1>3, ArtifactKeys
      <4>2. Precedes(q.key, r.key)
        BY <4>1, <1>3
      <4>3. QED
        BY <4>2, <3>1, <1>5
    <3>4. r.entry.epoch \in Nat /\ q.entry.epoch \in Nat
      BY <2>1, <1>6
    <3>5. QED
      BY <3>2, <3>3, <3>4
  <2>4. own \in Seq(O) /\ DOMAIN own = 1..Len(own) /\ \A i \in DOMAIN own : own[i] \in O
    BY <1>9, SeqFacts DEF Lists
  <2> HIDE DEF O, D
  <2>5. f \in [O -> D] /\ \A r \in O : f[r] = r.entry.epoch
    BY <2>1
  <2>6. x \in [DOMAIN own -> D] /\ \A i \in DOMAIN own : x[i] = f[own[i]]
    BY <2>4, <2>5
  <2>7. \A d \in D : \E r \in O : d = f[r]
    BY <2>2, <2>5
  <2>8. \A r, q \in O : <<r, q>> \in ByKey(hits) => <<f[r], f[q]>> \in Less(D)
    BY <2>1, <2>3, <2>5 DEF Less
  <2> HIDE DEF f, x
  <2>9. f \in [O -> D] /\ x \in [DOMAIN own -> D] /\ \A i \in DOMAIN own : x[i] = f[own[i]]
    BY <2>5, <2>6
  <2>10. QED
    BY <2>7, <2>8, <2>9, <1>9, MapLists
<1>11. Lists(y, D, Less(D))
  <2> DEFINE f == [c \in M |-> c.epoch]
  <2>0. \A d \in Seen : At(d) \in Shown /\ At(d).epoch = d /\ At(d).click = ClickAt(d)
    BY ShownAre
  <2>1. \A c \in M : c.epoch \in D
    <3>1. ASSUME NEW c \in M PROVE c.epoch \in D
      <4>1. c.epoch \in Seen /\ c = At(c.epoch)
        BY ShownAre
      <4>2. ClickAt(c.epoch) = c.click
        BY <4>1 DEF ClickAt
      <4>3. QED
        BY <4>1, <4>2 DEF Artifacts
    <3>2. QED
      BY <3>1
  <2>2. \A d \in D : \E c \in M : d = c.epoch
    <3>1. ASSUME NEW d \in D PROVE At(d) \in M /\ At(d).epoch = d
      BY <2>0 DEF Artifacts
    <3>2. QED
      BY <3>1
  <2>31. M \subseteq Clacks
    BY ShownAre
  <2>3. Lists(made, M, InTime)
    <3> HIDE DEF M
    <3>1. QED
      BY <2>31, ChronicleIs
  <2> HIDE DEF M, D, made
  <2>4. made \in Seq(M) /\ DOMAIN made = 1..Len(made) /\ \A i \in DOMAIN made : made[i] \in M
    BY <2>3, SeqFacts DEF Lists
  <2>5. f \in [M -> D] /\ \A c \in M : f[c] = c.epoch
    BY <2>1
  <2>6. y \in [DOMAIN made -> D] /\ \A i \in DOMAIN made : y[i] = f[made[i]]
    BY <2>4, <2>5
  <2>7. \A d \in D : \E c \in M : d = f[c]
    BY <2>2, <2>5
  <2>8. \A c, b \in M : <<c, b>> \in InTime => <<f[c], f[b]>> \in Less(D)
    BY <2>1, <2>5, <2>31 DEF Less, InTime, ByEpoch
  <2> HIDE DEF f, y
  <2>9. f \in [M -> D] /\ y \in [DOMAIN made -> D] /\ \A i \in DOMAIN made : y[i] = f[made[i]]
    BY <2>5, <2>6
  <2>10. QED
    BY <2>7, <2>8, <2>9, <2>3, MapLists
<1> HIDE DEF x, y, D
<1>12. x = y
  BY <1>7, <1>10, <1>11, ListsOnce
<1>13. QED
  BY <1>12 DEF x, y, own, made, T, M, rows

\* The rows cc.query_artifacts answers with.
LEMMA ArtifactRows ==
  ASSUME LogInv, ViewsInv, MaxEpoch < Power[Width - 1], 0 \notin IdBytes,
         NEW t \in Tasks, NEW i \in DOMAIN QueryArtifacts(t)
  PROVE  LET a == QueryArtifacts(t)[i].entry IN
         a \in views.artifact_index /\ IsPrefix(Slashed(t, <<>>), Slashed(a.task, <<>>))
<1> DEFINE prefix == Slashed(t, <<>>)
           hits == Hits(ArtifactTable, prefix)
           rows == QueryArtifacts(t)
           r == rows[i]
<1>1. rows = PrefixScan(ArtifactTable, prefix)
  BY DEF QueryArtifacts, ArtifactTable, ArtifactRow
<1>2. Lists(rows, hits, ByKey(hits))
  BY <1>1, ArtifactScan
<1>3. r \in hits
  <2> HIDE DEF hits
  <2>1. QED
    BY <1>2, SeqFacts DEF Lists
<1> HIDE DEF rows, r
<1>4. PICK a \in views.artifact_index : r = ArtifactRow(a)
  BY <1>3 DEF Hits, ArtifactTable
<1>5. r.entry = a /\ r.key = Slashed(a.task, EpochKey(a.epoch)) /\ IsPrefix(prefix, r.key)
  BY <1>3, <1>4, ArtifactKeys DEF Hits
<1>6. a.task \in Seq(Byte) /\ a.epoch \in Nat /\ a.epoch <= MaxEpoch
  BY EntriesAre, LogRow, HistoryIs
<1>7. IsPrefix(Slashed(t, <<>>), Slashed(a.task, <<>>))
  BY <1>5, <1>6, TaskPrefix
<1>8. QED
  BY <1>5, <1>7 DEF r, rows

\* cc.query_artifacts lists the artifacts of a task in order with the verdict on
\* each that was projected last after it, and what it lists besides belongs to a
\* task whose id goes on with a slash; the HITL queue holds what had no verdict
\* since (materializer.hpp:265-307), whatever epochs the verdicts name and in
\* whatever order the appends took their turns.  No id reaches into the epoch of
\* another row's key, because the high byte of an epoch is 0 as long as the counter
\* is below 256^7 and no id holds a byte 0 (input_validation.hpp:37-66).
THEOREM Reviews ==
  ASSUME MaxEpoch < Power[Width - 1], 0 \notin IdBytes
  PROVE  QueriesSpec => []ReviewsFromLog
<1> DEFINE review(e) == IF VerdictsSince(e) = {} THEN "pending"
                        ELSE IF Latest(VerdictsSince(e)).click.verb = "APPROVE" THEN "approved"
                        ELSE "rejected"
<1>1. ASSUME LogInv, ViewsInv, NEW a \in views.artifact_index PROVE a.review = review(a.epoch)
  <2> DEFINE h == History
             e == a.epoch
             V == VerdictsOn(h, order, e)
             S == VerdictsSince(e)
  <2>1. ReviewIs(a.review, h, order, e) /\ e \in Seen /\ DOMAIN h = Seen /\ \A d \in Seen : h[d] = ClickAt(d)
    BY <1>1, EntriesAre, HistoryIs
  <2>2. ClacksOf(S, V) /\ (V = {} <=> S = {})
    BY <1>1, <2>1, VerdictsAre
  <2>3. \A d \in Seen : At(d).click = ClickAt(d)
    BY <1>1, ShownAre
  <2> HIDE DEF h, e
  <2>6. CASE V = {}
    <3>1. S = {} /\ a.review = "pending"
      BY <2>1, <2>2, <2>6 DEF ReviewIs
    <3>2. QED
      BY <3>1 DEF e
  <2>7. CASE V # {}
    <3>1. PICK f \in V : IsNewest(order, f, V) /\ a.review = IF h[f].verb = "APPROVE" THEN "approved" ELSE "rejected"
      BY <2>1, <2>7 DEF ReviewIs
    <3>2. f \in Seen /\ h[f] = At(f).click
      BY <2>1, <2>3 DEF VerdictsOn
    <3> HIDE DEF V, S
    <3>6. Latest(S) = At(f)
      BY <1>1, <2>2, <3>1, LatestIs
    <3>7. S # {}
      BY <2>2, <2>7
    <3>8. QED
      BY <3>1, <3>2, <3>6, <3>7 DEF e, S
  <2>8. QED
    BY <2>6, <2>7
<1>2. ASSUME LogInv, ViewsInv, NEW t \in Tasks
      PROVE  \A i \in DOMAIN QueryArtifacts(t) :
               /\ QueryArtifacts(t)[i].entry.review = review(QueryArtifacts(t)[i].entry.epoch)
               /\ IsPrefix(Slashed(t, <<>>), Slashed(QueryArtifacts(t)[i].entry.task, <<>>))
  <2> HIDE DEF review
  <2>1. \A i \in DOMAIN QueryArtifacts(t) :
          /\ QueryArtifacts(t)[i].entry \in views.artifact_index
          /\ IsPrefix(Slashed(t, <<>>), Slashed(QueryArtifacts(t)[i].entry.task, <<>>))
    BY <1>2, ArtifactRows
  <2>2. QED
    BY <1>1, <1>2, <2>1
<1>3. LogInv /\ ViewsInv => ArtifactsFromLog
  <2> HIDE DEF review
  <2>1. QED
    BY <1>2, OwnArtifacts DEF ArtifactsFromLog, review
<1>4. LogInv /\ ViewsInv => ReviewsFromLog
  BY <1>3, HitlIs DEF ReviewsFromLog
<1>5. QED
  BY <1>4, QueriesInvariant, PTL

-----------------------------------------------------------------------------
(* Boards *)

\* The row of a task against the log.
LEMMA TaskRow ==
  ASSUME LogInv, ViewsInv, NEW t \in Tasks
  PROVE  LET board == {c \in Shown : c.click.task = t /\ c.click.verb \in BoardVerbs}
             claims == {c \in Shown : c.click.task = t /\ c.click.verb = "CLAIM"}
         IN /\ QueryTask(t) = NoRow <=> board = {}
            /\ board = {} \/ LET row == QueryTask(t) IN
                 /\ row.last = Latest(board).epoch
                 /\ row.created = Earliest(board).epoch
                 /\ row.status = StatusAfter(Latest(board).click.verb)
                 /\ row.status \in {StatusAfter(v) : v \in BoardVerbs}
                 /\ row.owner = IF claims = {} THEN NoAgent ELSE Latest(claims).click.agent
<1> DEFINE board == {c \in Shown : c.click.task = t /\ c.click.verb \in BoardVerbs}
           claims == {c \in Shown : c.click.task = t /\ c.click.verb = "CLAIM"}
           h == History
           B == OnBoard(h, t)
           C == ClaimsOf(h, t)
           row == QueryTask(t)
<1>1. ClacksOf(board, B) /\ ClacksOf(claims, C)
  BY BoardClacks
<1>2. TaskRowIs(row, h, order, t)
  BY DEF ViewsInv, ViewsAre, BoardIs, QueryTask
<1>3. DOMAIN h = Seen /\ (\A d \in Seen : h[d] = ClickAt(d)) /\ B \subseteq Seen /\ C \subseteq Seen
  BY HistoryIs DEF OnBoard, ClaimsOf
<1> HIDE DEF board, claims, h, row
<1>4. CASE B = {}
  <2>1. board = {}
    BY <1>1, <1>4 DEF ClacksOf
  <2>2. row = NoRow
    BY <1>2, <1>4 DEF TaskRowIs, IsNewest
  <2>3. QED
    BY <2>1, <2>2 DEF board, row
<1>5. CASE B # {}
  <2>1. /\ IsOldest(order, row.created, B) /\ IsNewest(order, row.last, B) /\ row.status = StatusAfter(h[row.last].verb)
        /\ \/ C = {} /\ row.owner = NoAgent
           \/ \E d \in C : IsNewest(order, d, C) /\ row.owner = h[d].agent
    BY <1>2, <1>5 DEF TaskRowIs
  <2>11. row # NoRow /\ row.status \in {StatusAfter(v) : v \in BoardVerbs}
    BY <1>2, <1>5, QueriesAssumption DEF TaskRowIs, TaskState
  <2>2. row.last \in Seen
    BY <2>1, <1>3 DEF IsNewest
  <2> DEFINE l == row.last
  <2> HIDE DEF B, C, l
  <2>3. board # {} /\ Latest(board) = At(l) /\ At(l).epoch = l /\ At(l).click = h[l]
    <3>1. IsNewest(order, l, B) /\ l \in Seen
      BY <2>1, <2>2 DEF l
    <3>2. QED
      BY <3>1, <1>1, <1>3, LatestIs
  <2>4. row.last = Latest(board).epoch /\ row.status = StatusAfter(Latest(board).click.verb)
    BY <2>1, <2>3 DEF l
  <2>5. row.created = Earliest(board).epoch
    <3> DEFINE o == row.created
    <3>1. IsOldest(order, o, B)
      BY <2>1
    <3> HIDE DEF o
    <3>2. Earliest(board).epoch = o
      BY <3>1, <1>1, EarliestIs
    <3>3. QED
      BY <3>2 DEF o
  <2>6. row.owner = IF claims = {} THEN NoAgent ELSE Latest(claims).click.agent
    <3>1. CASE C = {}
      <4>1. claims = {}
        BY <3>1, <1>1 DEF ClacksOf
      <4>2. QED
        BY <3>1, <4>1, <2>1
    <3>2. CASE C # {}
      <4>1. PICK d \in C : IsNewest(order, d, C) /\ row.owner = h[d].agent
        BY <3>2, <2>1
      <4>2. claims # {} /\ Latest(claims) = At(d) /\ At(d).click = h[d]
        BY <4>1, <1>1, <1>3, LatestIs
      <4>3. QED
        BY <4>1, <4>2
    <3>3. QED
      BY <3>1, <3>2
  <2>7. QED
    BY <2>3, <2>4, <2>5, <2>6, <2>11 DEF board, claims, row
<1>6. QED
  BY <1>4, <1>5

\* The answer to a query of tasks by a set of statuses, when there is room for all.
LEMMA TasksWithIs ==
  ASSUME LogInv, ViewsInv, NEW S, NEW n \in Nat, Cardinality(Tasks) <= n
  PROVE  LET answer == TasksWith(S, n) IN
         /\ \A i \in DOMAIN answer :
              /\ answer[i].key \in Tasks /\ answer[i].row = QueryTask(answer[i].key)
              /\ QueryTask(answer[i].key) # NoRow
              /\ i > 1 => Precedes(answer[i - 1].key, answer[i].key)
         /\ \A t \in Tasks : QueryTask(t) # NoRow /\ QueryTask(t).status \in S =>
              \E i \in DOMAIN answer : answer[i].key = t
<1> DEFINE board == views.task_board
           listed == {t \in Tasks : board[t] # NoRow /\ board[t].status \in S}
           row(t) == [key |-> t, row |-> board[t]]
           table == {row(t) : t \in listed}
           hits == Hits(table, <<>>)
           scan == PrefixScan(table, <<>>)
           answer == TasksWith(S, n)
<1>1. answer = FirstOf(n, scan)
  BY DEF TasksWith
<1>2. \A r \in table : r.key \in listed /\ r = row(r.key) /\ r.row = board[r.key]
  <2>1. \A t : row(t).key = t /\ row(t).row = board[t]
    OBVIOUS
  <2> HIDE DEF row, listed
  <2>2. QED
    BY <2>1
<1>3. \A t \in Tasks : t \in Seq(Byte) /\ t \in Seq(Nat)
  <2>1. ASSUME NEW t \in Tasks PROVE t \in Seq(Byte)
    <3>1. t \in Seq(IdBytes) /\ IdBytes \subseteq Byte
      BY QueriesAssumption, CodecAssumption DEF Byte
    <3>2. QED
      BY <3>1, SeqMonotonic
  <2>2. QED
    BY <2>1, BytesAreNumbers
<1>21. \A t \in listed : row(t) \in table /\ row(t).key = t
  OBVIOUS
<1>4. listed \subseteq Tasks
  OBVIOUS
<1>5. IsFiniteSet(listed) /\ Cardinality(listed) <= Cardinality(Tasks)
  BY <1>4, QueriesAssumption, FS_Subset
<1> HIDE DEF listed, board
<1>6. hits = table
  <2>1. \A r \in table : IsPrefix(<<>>, r.key)
    BY <1>2, <1>3, <1>4, EveryPrefix
  <2> HIDE DEF table
  <2>2. QED
    BY <2>1 DEF Hits
<1>7. IsFiniteSet(table) /\ Cardinality(table) <= Cardinality(listed)
  <2> DEFINE f == [x \in listed |-> row(x)]
  <2>1. DOMAIN f = listed /\ f \in [listed -> table] /\ \A r \in table : \E x \in listed : f[x] = r
    OBVIOUS
  <2> HIDE DEF f, table
  <2>2. f \in Surjection(listed, table)
    BY <2>1 DEF Surjection
  <2>3. QED
    BY <1>5, <2>2, FS_Surjection
<1>71. DOMAIN scan = 1..Cardinality(table)
  BY <1>6 DEF PrefixScan, hits, Hits
<1> HIDE DEF table, hits
<1>8. Lists(scan, table, ByKey(table))
  <2>1. \A r \in table : r.key \in Seq(Nat)
    BY <1>2, <1>3, <1>4
  <2>2. \A r, q \in table : r.key = q.key => r = q
    <3>1. ASSUME NEW r \in table, NEW q \in table, r.key = q.key PROVE r = q
      <4>1. r = row(r.key) /\ q = row(q.key)
        BY <1>2
      <4> HIDE DEF row
      <4>2. QED
        BY <3>1, <4>1
    <3>2. QED
      BY <3>1
  <2>3. /\ IsFiniteSet(Hits(table, <<>>)) /\ (\A r \in Hits(table, <<>>) : r.key \in Seq(Nat))
        /\ \A r, q \in Hits(table, <<>>) : r.key = q.key => r = q
    BY <2>1, <2>2, <1>6, <1>7 DEF hits
  <2>4. Lists(scan, hits, ByKey(hits))
    BY <2>3, TableScan DEF hits
  <2>5. QED
    BY <2>4, <1>6
<1> HIDE DEF scan, answer
<1>9. scan \in Seq(table) /\ DOMAIN scan = 1..Len(scan) /\ Len(scan) \in Nat /\ \A j \in 1..Len(scan) : scan[j] \in table
  BY <1>8, SeqFacts DEF Lists
<1>10. answer = scan
  <2>1. Cardinality(table) \in Nat /\ Cardinality(listed) \in Nat /\ Cardinality(Tasks) \in Nat
    BY <1>5, <1>7, QueriesAssumption, FS_CardinalityType
  <2>2. Len(scan) = Cardinality(table)
    BY <2>1, <1>9, <1>71
  <2>3. Len(scan) <= n
    BY <2>1, <2>2, <1>5, <1>7
  <2>4. QED
    BY <1>1, <1>9, <2>3, FirstOfIs
<1>11. ASSUME NEW i \in DOMAIN scan
       PROVE  /\ scan[i].key \in Tasks /\ scan[i].row = QueryTask(scan[i].key)
              /\ QueryTask(scan[i].key) # NoRow
              /\ i > 1 => Precedes(scan[i - 1].key, scan[i].key)
  <2>1. scan[i] \in table
    BY <1>9
  <2>2. scan[i].key \in listed /\ scan[i].row = board[scan[i].key]
    BY <2>1, <1>2
  <2>3. ASSUME i > 1 PROVE Precedes(scan[i - 1].key, scan[i].key)
    <3> DEFINE j == i - 1
    <3>1. j \in DOMAIN scan /\ j < i
      BY <1>9, <2>3
    <3> HIDE DEF j
    <3>2. <<scan[j], scan[i]>> \in ByKey(table)
      BY <3>1, <1>8 DEF Lists, Ascending
    <3>3. QED
      BY <3>2 DEF ByKey, j
  <2>4. QED
    BY <2>2, <2>3 DEF listed, board, QueryTask
<1>12. ASSUME NEW t \in listed PROVE \E i \in DOMAIN scan : scan[i].key = t
  <2>1. PICK r \in table : r.key = t
    BY <1>21
  <2>2. table = {scan[i] : i \in 1..Len(scan)}
    BY <1>8, SeqFacts DEF Lists
  <2>3. PICK i \in 1..Len(scan) : scan[i] = r
    BY <2>2
  <2>4. QED
    BY <2>1, <2>3, <1>9
<1>13. \A t \in Tasks : QueryTask(t) # NoRow /\ QueryTask(t).status \in S => t \in listed
  BY DEF listed, board, QueryTask
<1>14. QED
  BY <1>10, <1>11, <1>12, <1>13 DEF answer

\* The task board follows from the invariant.
LEMMA TasksAre ==
  ASSUME LogInv, ViewsInv
  PROVE  TaskFromLog
<1> DEFINE board(t) == {c \in Shown : c.click.task = t /\ c.click.verb \in BoardVerbs}
           claims(t) == {c \in Shown : c.click.task = t /\ c.click.verb = "CLAIM"}
           statuses == {StatusAfter(v) : v \in BoardVerbs}
           n == Cardinality(Tasks)
           answer == QueryAllTasks(n)
<1>1. ASSUME NEW t \in Tasks
      PROVE  /\ QueryTask(t) = NoRow <=> board(t) = {}
             /\ board(t) = {} \/ LET row == QueryTask(t) IN
                  /\ row.last = Latest(board(t)).epoch
                  /\ row.created = Earliest(board(t)).epoch
                  /\ row.status = StatusAfter(Latest(board(t)).click.verb)
                  /\ row.status \in statuses
                  /\ row.owner = IF claims(t) = {} THEN NoAgent ELSE Latest(claims(t)).click.agent
  BY TaskRow
<1>2. n \in Nat /\ n <= n
  BY QueriesAssumption, FS_CardinalityType
<1>3. answer = TasksWith(statuses, n)
  BY DEF QueryAllTasks
<1> HIDE DEF board, claims, statuses, n, answer
<1>4. /\ \A i \in DOMAIN answer :
           /\ answer[i].key \in Tasks /\ answer[i].row = QueryTask(answer[i].key)
           /\ QueryTask(answer[i].key) # NoRow
           /\ i > 1 => Precedes(answer[i - 1].key, answer[i].key)
      /\ \A t \in Tasks : QueryTask(t) # NoRow /\ QueryTask(t).status \in statuses =>
           \E i \in DOMAIN answer : answer[i].key = t
  <2>1. Cardinality(Tasks) <= n
    BY <1>2 DEF n
  <2>2. QED
    BY <1>2, <1>3, <2>1, TasksWithIs
<1>5. {answer[i].key : i \in DOMAIN answer} = {t \in Tasks : board(t) # {}}
  <2>1. \A i \in DOMAIN answer : answer[i].key \in Tasks /\ board(answer[i].key) # {}
    BY <1>1, <1>4
  <2>2. \A t \in Tasks : board(t) # {} => \E i \in DOMAIN answer : answer[i].key = t
    BY <1>1, <1>4
  <2>3. QED
    BY <2>1, <2>2
<1>6. ASSUME NEW t \in Tasks
      PROVE  IF board(t) = {} THEN QueryTask(t) = NoRow
             ELSE LET row == QueryTask(t)  newest == Latest(board(t)) IN
                  /\ row.last = newest.epoch
                  /\ row.created = Earliest(board(t)).epoch
                  /\ newest.click.verb # "ANNOUNCE" => row.status = StatusAfter(newest.click.verb)
                  /\ row.owner = IF claims(t) = {} THEN NoAgent ELSE Latest(claims(t)).click.agent
  BY <1>1
<1>7. QED
  BY <1>4, <1>5, <1>6 DEF TaskFromLog, board, claims, answer, n

-----------------------------------------------------------------------------
(* Presence *)

\* query_presence answers with the rows there are.
LEMMA PresenceRows ==
  ASSUME LogInv, ViewsInv
  PROVE  /\ \A r \in Range(QueryPresence) : r.key \in Agents /\ r.row = views.agent_presence[r.key] /\ r.row # NoRow
         /\ \A a \in Agents : views.agent_presence[a] # NoRow =>
              \E r \in Range(QueryPresence) : r.key = a
<1> DEFINE presence == views.agent_presence
           listed == {a \in Agents : presence[a] # NoRow}
           row(a) == [key |-> a, row |-> presence[a]]
           table == {row(a) : a \in listed}
           hits == Hits(table, <<>>)
           scan == PrefixScan(table, <<>>)
<1>1. QueryPresence = scan
  BY DEF QueryPresence
<1>2. \A a : row(a).key = a /\ row(a).row = presence[a]
  OBVIOUS
<1> HIDE DEF row
<1>21. \A r \in table : r.key \in listed /\ r = row(r.key) /\ r.row = presence[r.key]
  <2> HIDE DEF listed
  <2>1. QED
    BY <1>2
<1>22. \A a \in listed : row(a) \in table
  OBVIOUS
<1>3. \A a \in Agents : a \in Seq(Nat)
  <2>1. ASSUME NEW a \in Agents PROVE a \in Seq(Byte)
    <3>1. a \in Seq(IdBytes) /\ IdBytes \subseteq Byte
      BY QueriesAssumption, CodecAssumption DEF Byte
    <3>2. QED
      BY <3>1, SeqMonotonic
  <2>2. QED
    BY <2>1, BytesAreNumbers
<1>4. listed \subseteq Agents
  OBVIOUS
<1>5. IsFiniteSet(listed)
  <2> DEFINE f == [a \in listed |-> presence[a].last]
             h == History
  <2>1. ASSUME NEW a \in listed PROVE presence[a].last \in Logged /\ ClickAt(presence[a].last).agent = a
    <3>1. PresenceRowIs(presence[a], h, order, a) /\ presence[a] # NoRow
      BY DEF ViewsInv, ViewsAre, PresenceIs
    <3>2. presence[a].last \in SignsOf(h, a)
      BY <3>1 DEF PresenceRowIs, IsNewest
    <3>3. QED
      BY <3>2, HistoryIs DEF SignsOf
  <2> HIDE DEF listed, presence
  <2>2. f \in [listed -> Logged] /\ DOMAIN f = listed /\ \A a \in listed : f[a] = presence[a].last
    BY <2>1
  <2> HIDE DEF f
  <2>3. \A a, b \in listed : f[a] = f[b] => a = b
    BY <2>1, <2>2
  <2>4. f \in Injection(listed, Logged)
    BY <2>2, <2>3 DEF Injection, IsInjective
  <2>5. QED
    BY <2>4, LoggedFinite, FS_Injection
<1>6. hits = table
  <2>1. \A r \in table : IsPrefix(<<>>, r.key)
    BY <1>21, <1>3, <1>4, EveryPrefix
  <2> HIDE DEF table
  <2>2. QED
    BY <2>1 DEF Hits
<1> HIDE DEF listed, presence
<1>7. IsFiniteSet(table)
  <2> DEFINE f == [x \in listed |-> row(x)]
  <2>1. DOMAIN f = listed /\ f \in [listed -> table] /\ \A r \in table : \E x \in listed : f[x] = r
    OBVIOUS
  <2> HIDE DEF f, table
  <2>2. f \in Surjection(listed, table)
    BY <2>1 DEF Surjection
  <2>3. QED
    BY <1>5, <2>2, FS_Surjection
<1> HIDE DEF table, hits
<1>8. Lists(scan, table, ByKey(table))
  <2>1. \A r \in table : r.key \in Seq(Nat)
    BY <1>21, <1>3, <1>4
  <2>2. \A r, q \in table : r.key = q.key => r = q
    <3>1. ASSUME NEW r \in table, NEW q \in table, r.key = q.key PROVE r = q
      <4>1. r = row(r.key) /\ q = row(q.key)
        BY <1>21
      <4>2. QED
        BY <3>1, <4>1
    <3>2. QED
      BY <3>1
  <2>3. /\ IsFiniteSet(Hits(table, <<>>)) /\ (\A r \in Hits(table, <<>>) : r.key \in Seq(Nat))
        /\ \A r, q \in Hits(table, <<>>) : r.key = q.key => r = q
    BY <2>1, <2>2, <1>6, <1>7 DEF hits
  <2>4. Lists(scan, hits, ByKey(hits))
    BY <2>3, TableScan DEF hits
  <2>5. QED
    BY <2>4, <1>6
<1>9. Range(QueryPresence) = table
  BY <1>1, <1>8 DEF Lists
<1>10. QED
  BY <1>9, <1>2, <1>21, <1>22 DEF listed, presence

\* Presence follows from the invariant.
LEMMA PresenceAre ==
  ASSUME LogInv, ViewsInv
  PROVE  PresenceFromLog
<1> DEFINE signs(a) == {c \in Shown : c.click.agent = a /\ c.click.verb \in {"ANNOUNCE", "HEARTBEAT"}}
           profiles(a) == {c \in signs(a) : c.click.verb = "ANNOUNCE"}
           h == History
           presence == views.agent_presence
<1>1. ASSUME NEW a \in Agents PROVE /\ signs(a) = {} <=> SignsOf(h, a) = {}
                                    /\ presence[a] = NoRow <=> SignsOf(h, a) = {}
                                    /\ ClacksOf(signs(a), SignsOf(h, a)) /\ ClacksOf(profiles(a), ProfilesOf(h, a))
                                    /\ PresenceRowIs(presence[a], h, order, a)
  <2>1. ClacksOf(signs(a), SignsOf(h, a))
    BY BoardClacks
  <2>2. profiles(a) = {c \in Shown : c.click.agent = a /\ c.click.verb = "ANNOUNCE"}
    OBVIOUS
  <2>3. ClacksOf(profiles(a), ProfilesOf(h, a))
    BY <2>2, BoardClacks
  <2>4. PresenceRowIs(presence[a], h, order, a)
    BY DEF ViewsInv, ViewsAre, PresenceIs
  <2>5. presence[a] = NoRow <=> SignsOf(h, a) = {}
    BY <2>4, QueriesAssumption DEF PresenceRowIs, IsNewest
  <2> HIDE DEF signs, profiles, h, presence
  <2>6. signs(a) = {} <=> SignsOf(h, a) = {}
    BY <2>1 DEF ClacksOf
  <2>7. QED
    BY <2>1, <2>3, <2>4, <2>5, <2>6
<1>2. /\ \A r \in Range(QueryPresence) : r.key \in Agents /\ r.row = presence[r.key] /\ r.row # NoRow
      /\ \A a \in Agents : presence[a] # NoRow => \E r \in Range(QueryPresence) : r.key = a
  BY PresenceRows
<1> HIDE DEF signs, profiles, h, presence
<1>4. {r.key : r \in Range(QueryPresence)} = {a \in Agents : signs(a) # {}}
  <2>1. \A r \in Range(QueryPresence) : r.key \in Agents /\ signs(r.key) # {}
    BY <1>1, <1>2
  <2>2. \A a \in Agents : signs(a) # {} => \E r \in Range(QueryPresence) : r.key = a
    BY <1>1, <1>2
  <2>3. QED
    BY <2>1, <2>2
<1>5. ASSUME NEW r \in Range(QueryPresence)
      PROVE  /\ r.row.last = Latest(signs(r.key)).epoch
             /\ r.row.profile = IF profiles(r.key) = {} THEN 0 ELSE Latest(profiles(r.key)).epoch
  <2> DEFINE a == r.key
             l == r.row.last
             f == r.row.profile
  <2>1. a \in Agents /\ r.row = presence[a] /\ r.row # NoRow
    BY <1>2
  <2>2. /\ IsNewest(order, l, SignsOf(h, a))
        /\ (ProfilesOf(h, a) = {} /\ f = 0) \/ IsNewest(order, f, ProfilesOf(h, a))
    BY <2>1, <1>1 DEF PresenceRowIs
  <2> HIDE DEF a, l, f
  <2>3. ClacksOf(signs(a), SignsOf(h, a)) /\ ClacksOf(profiles(a), ProfilesOf(h, a))
    BY <2>1, <1>1
  <2>4. l = Latest(signs(a)).epoch
    <3>1. Latest(signs(a)) = At(l) /\ At(l).epoch = l
      BY <2>2, <2>3, LatestIs
    <3>2. QED
      BY <3>1
  <2>5. f = IF profiles(a) = {} THEN 0 ELSE Latest(profiles(a)).epoch
    <3>1. CASE ProfilesOf(h, a) = {} /\ f = 0
      <4>1. profiles(a) = {}
        BY <3>1, <2>3 DEF ClacksOf
      <4>2. QED
        BY <3>1, <4>1
    <3>2. CASE IsNewest(order, f, ProfilesOf(h, a))
      <4>1. Latest(profiles(a)) = At(f) /\ At(f).epoch = f /\ profiles(a) # {}
        BY <3>2, <2>3, LatestIs
      <4>2. QED
        BY <4>1
    <3>3. QED
      BY <3>1, <3>2, <2>2
  <2>6. QED
    BY <2>4, <2>5 DEF a, l, f
<1>6. QED
  BY <1>4, <1>5 DEF PresenceFromLog, signs, profiles

\* The rows of cc.query_task, cc.query_tasks and cc.query_presence are functions of
\* the log and of the turns its clacks had with the listeners, whatever order
\* overtaking appends had them in: who claimed in the last turn of a claim, what the
\* last board verb leaves, the sign of life projected last; and a list without a
\* filter names every task that has a row, once and in order, given room for all
\* (materializer.hpp:161-263).
THEOREM Boards == QueriesSpec => []BoardsFromLog
<1>1. LogInv /\ ViewsInv => BoardsFromLog
  BY TasksAre, PresenceAre DEF BoardsFromLog
<1>2. QED
  BY <1>1, QueriesInvariant, PTL

-----------------------------------------------------------------------------
(* cc.get_task *)

\* Keys whose first parts hold no slash agree in their parts.
LEMMA KeysApart ==
  ASSUME NEW p \in Seq(Byte), NEW q \in Seq(Byte), NEW s \in Seq(Byte), NEW r \in Seq(Byte),
         SlashFree(p), SlashFree(s)
  PROVE  /\ Slashed(p, q) = Slashed(s, r) <=> p = s /\ q = r
         /\ IsPrefix(Slashed(p, <<>>), Slashed(s, r)) <=> p = s
<1> DEFINE m == Len(p)
           n == Len(s)
<1>1. m \in Nat /\ n \in Nat /\ Len(r) \in Nat
      /\ (\A i \in 1..m : p[i] # Slash) /\ (\A i \in 1..n : s[i] # Slash)
  BY SeqFacts DEF SlashFree
<1>2. ASSUME Slashed(p, q) = Slashed(s, r) PROVE p = s /\ q = r
  <2> DEFINE k == Slashed(p, q)
             l == Slashed(s, r)
             first(x) == SelectInSeq(x, LAMBDA b : b = Slash)
  <2>1. first(k) = m + 1 /\ SubSeq(k, 1, m) = p /\ SubSeq(k, m + 2, Len(k)) = q
    BY FirstSlash
  <2>2. first(l) = n + 1 /\ SubSeq(l, 1, n) = s /\ SubSeq(l, n + 2, Len(l)) = r
    BY FirstSlash
  <2>3. k = l
    BY <1>2
  <2> HIDE DEF k, l, m, n, first
  <2>4. m = n
    <3>1. m + 1 = n + 1
      BY <2>1, <2>2, <2>3
    <3>2. QED
      BY <3>1, <1>1
  <2>5. QED
    BY <2>1, <2>2, <2>3, <2>4
<1>3. ASSUME IsPrefix(Slashed(p, <<>>), Slashed(s, r)) PROVE p = s
  <2>1. m <= n + Len(r) /\ \A i \in 1..(m + 1) : SlashedAt(p, <<>>, i) = SlashedAt(s, r, i)
    BY <1>3, SlashedBegins
  <2>2. ~(n < m)
    <3> SUFFICES ASSUME n < m PROVE FALSE
      OBVIOUS
    <3> DEFINE j == n + 1
    <3>1. j \in 1..(m + 1) /\ j \in 1..m /\ j <= m /\ ~(j <= n)
      BY <1>1
    <3>2. SlashedAt(s, r, j) = Slash
      BY <3>1 DEF SlashedAt
    <3> HIDE DEF j
    <3>3. SlashedAt(p, <<>>, j) = p[j]
      BY <3>1 DEF SlashedAt
    <3>4. QED
      BY <3>1, <3>2, <3>3, <2>1, <1>1
  <2>3. ~(m < n)
    <3> SUFFICES ASSUME m < n PROVE FALSE
      OBVIOUS
    <3> DEFINE j == m + 1
    <3>1. j \in 1..(m + 1) /\ j \in 1..n /\ j <= n /\ ~(j <= m)
      BY <1>1
    <3>2. SlashedAt(p, <<>>, j) = Slash
      BY <3>1 DEF SlashedAt
    <3> HIDE DEF j
    <3>3. SlashedAt(s, r, j) = s[j]
      BY <3>1 DEF SlashedAt
    <3>4. QED
      BY <3>1, <3>2, <3>3, <2>1, <1>1
  <2>4. m = n
    BY <2>2, <2>3, <1>1
  <2>5. ASSUME NEW i \in 1..m PROVE p[i] = s[i]
    <3>1. i \in 1..(m + 1) /\ i <= m /\ i <= n
      BY <1>1, <2>4
    <3>2. SlashedAt(p, <<>>, i) = p[i] /\ SlashedAt(s, r, i) = s[i]
      BY <3>1 DEF SlashedAt
    <3>3. QED
      BY <3>1, <3>2, <2>1
  <2>6. QED
    BY <2>4, <2>5, SeqEqual
<1>4. IsPrefix(Slashed(p, <<>>), Slashed(p, r))
  BY SlashedBegins
<1>5. QED
  BY <1>2, <1>3, <1>4

-----------------------------------------------------------------------------
(* Claims that stand *)

\* The slice a claim makes active.
SliceOf(c) == [key |-> Slashed(c.click.agent, c.click.slice), epoch |-> c.epoch]

\* What takes the slice of c away.
Ends(d, c) ==
  /\ d.click.agent = c.click.agent
  /\ \/ d.click.verb \in {"COMPLETE", "YIELD"}
     \/ d.click.verb = "CLAIM" /\ d.click.slice = c.click.slice

\* The claims among the first i clacks that none of these has ended.
Live(s, i) ==
  {j \in 1..i : s[j].click.verb = "CLAIM" /\ \A k \in 1..i : j < k => ~Ends(s[k], s[j])}
LiveSlices(s, i) == {SliceOf(s[j]) : j \in Live(s, i)}

\* The keys of slices are unambiguous for such a clack.
Plainly(c) == c.click.agent \in Seq(Byte) /\ c.click.slice \in Seq(Byte) /\ SlashFree(c.click.agent)

\* One turn of the loop over the claims that live so far.
LEMMA LiveGrows ==
  ASSUME NEW s, NEW n \in Nat, NEW i \in 1..n
  PROVE  /\ i - 1 \in 0..n /\ i \in Nat
         /\ \A j \in Live(s, i - 1) : j \in 1..n /\ j # i /\ (j \in Live(s, i) <=> ~Ends(s[i], s[j]))
         /\ \A j \in Live(s, i) : j = i \/ j \in Live(s, i - 1)
         /\ i \in Live(s, i) <=> s[i].click.verb = "CLAIM"
<1>1. i \in Nat /\ i - 1 \in 0..n /\ i \in 1..i /\ i \notin 1..(i - 1)
      /\ \A k \in 1..i : k = i \/ k \in 1..(i - 1)
  OBVIOUS
<1>11. \A k \in 1..(i - 1) : k \in 1..i /\ k \in 1..n /\ k < i /\ k # i
  OBVIOUS
<1>12. \A k \in 1..i : ~(i < k)
  OBVIOUS
<1>2. ASSUME NEW j \in Live(s, i - 1) PROVE j \in 1..n /\ j # i /\ (j \in Live(s, i) <=> ~Ends(s[i], s[j]))
  <2>1. j \in 1..(i - 1) /\ s[j].click.verb = "CLAIM" /\ \A k \in 1..(i - 1) : j < k => ~Ends(s[k], s[j])
    BY DEF Live
  <2>2. j \in 1..i /\ j < i /\ j \in 1..n /\ j # i
    BY <2>1, <1>11
  <2>3. j \in Live(s, i) <=> \A k \in 1..i : j < k => ~Ends(s[k], s[j])
    BY <2>1, <2>2 DEF Live
  <2>4. (\A k \in 1..i : j < k => ~Ends(s[k], s[j])) <=> ~Ends(s[i], s[j])
    BY <2>1, <2>2, <1>1
  <2>5. QED
    BY <2>2, <2>3, <2>4
<1>3. ASSUME NEW j \in Live(s, i), j # i PROVE j \in Live(s, i - 1)
  <2>1. j \in 1..i /\ s[j].click.verb = "CLAIM" /\ \A k \in 1..i : j < k => ~Ends(s[k], s[j])
    BY DEF Live
  <2>2. j \in 1..(i - 1)
    BY <2>1, <1>1, <1>3
  <2>3. QED
    BY <2>1, <2>2, <1>11 DEF Live
<1>4. i \in Live(s, i) <=> s[i].click.verb = "CLAIM"
  BY <1>1, <1>12 DEF Live
<1>5. QED
  BY <1>1, <1>2, <1>3, <1>4

\* Where no id holds a slash the keys of slices tell agents and slices apart,
\* and an agent's prefix finds its own slices only.
LEMMA SlicesApart ==
  ASSUME NEW c, NEW d, Plainly(c), Plainly(d)
  PROVE  /\ SliceOf(c).key = Slashed(d.click.agent, d.click.slice) <=>
              c.click.agent = d.click.agent /\ c.click.slice = d.click.slice
         /\ IsPrefix(Slashed(d.click.agent, <<>>), SliceOf(c).key) <=> d.click.agent = c.click.agent
<1> DEFINE p == d.click.agent
           q == d.click.slice
           s == c.click.agent
           r == c.click.slice
<1>1. p \in Seq(Byte) /\ q \in Seq(Byte) /\ s \in Seq(Byte) /\ r \in Seq(Byte) /\ SlashFree(p) /\ SlashFree(s)
  BY DEF Plainly
<1>2. SliceOf(c).key = Slashed(s, r)
  BY DEF SliceOf
<1> HIDE DEF p, q, s, r
<1>3. (Slashed(p, q) = Slashed(s, r) <=> p = s /\ q = r) /\ (IsPrefix(Slashed(p, <<>>), Slashed(s, r)) <=> p = s)
  BY <1>1, KeysApart
<1>4. (SliceOf(c).key = Slashed(p, q) <=> s = p /\ r = q) /\ (IsPrefix(Slashed(p, <<>>), SliceOf(c).key) <=> p = s)
  BY <1>2, <1>3
<1>5. QED
  BY <1>4 DEF p, q, s, r

\* One turn of the loop keeps the slices of the live claims.
LEMMA TrackLive ==
  ASSUME NEW s, NEW n \in Nat, \A j \in 1..n : Plainly(s[j]), NEW i \in 1..n
  PROVE  LiveSlices(s, i) = Track(LiveSlices(s, i - 1), s[i])
<1> DEFINE old == LiveSlices(s, i - 1)
           new == LiveSlices(s, i)
           c == s[i]
           key == Slashed(c.click.agent, c.click.slice)
<1>1. /\ \A j \in Live(s, i - 1) : j \in 1..n /\ j # i /\ (j \in Live(s, i) <=> ~Ends(c, s[j]))
      /\ \A j \in Live(s, i) : j = i \/ j \in Live(s, i - 1)
      /\ i \in Live(s, i) <=> c.click.verb = "CLAIM"
  BY LiveGrows
<1>2. \A j \in Live(s, i - 1) : /\ SliceOf(s[j]).key = key <=> s[j].click.agent = c.click.agent /\ s[j].click.slice = c.click.slice
                                /\ IsPrefix(Slashed(c.click.agent, <<>>), SliceOf(s[j]).key) <=> c.click.agent = s[j].click.agent
  <2>1. ASSUME NEW j \in Live(s, i - 1)
        PROVE  /\ SliceOf(s[j]).key = key <=> s[j].click.agent = c.click.agent /\ s[j].click.slice = c.click.slice
               /\ IsPrefix(Slashed(c.click.agent, <<>>), SliceOf(s[j]).key) <=> c.click.agent = s[j].click.agent
    <3>1. Plainly(s[j]) /\ Plainly(c)
      BY <1>1
    <3> HIDE DEF c
    <3>2. QED
      BY <3>1, SlicesApart
  <2>2. QED
    BY <2>1
<1>3. \A x : x \in old <=> \E j \in Live(s, i - 1) : x = SliceOf(s[j])
  BY DEF LiveSlices
<1>4. \A x : x \in new <=> \E j \in Live(s, i) : x = SliceOf(s[j])
  BY DEF LiveSlices
<1>5. \A x : x \in new <=> \/ \E j \in Live(s, i - 1) : x = SliceOf(s[j]) /\ ~Ends(c, s[j])
                           \/ c.click.verb = "CLAIM" /\ x = SliceOf(c)
  BY <1>1, <1>4
<1>6. Track(old, c) = IF c.click.verb = "CLAIM" THEN {x \in old : x.key # key} \cup {SliceOf(c)}
                      ELSE IF c.click.verb \in {"COMPLETE", "YIELD"}
                        THEN {x \in old : ~IsPrefix(Slashed(c.click.agent, <<>>), x.key)}
                      ELSE old
  BY DEF Track, SliceOf
<1> HIDE DEF old, new, c, key
<1>7. CASE c.click.verb = "CLAIM"
  <2>1. \A j \in Live(s, i - 1) : Ends(c, s[j]) <=> SliceOf(s[j]).key = key
    BY <1>2, <1>7 DEF Ends
  <2>2. \A x : x \in new <=> (\E j \in Live(s, i - 1) : x = SliceOf(s[j]) /\ x.key # key) \/ x = SliceOf(c)
    BY <2>1, <1>5, <1>7
  <2>3. \A x : x \in new <=> (x \in old /\ x.key # key) \/ x = SliceOf(c)
    BY <2>2, <1>3
  <2>4. new = {x \in old : x.key # key} \cup {SliceOf(c)}
    BY <2>3
  <2>5. QED
    BY <2>4, <1>6, <1>7 DEF new, old, c
<1>8. CASE c.click.verb \in {"COMPLETE", "YIELD"}
  <2>1. \A j \in Live(s, i - 1) : Ends(c, s[j]) <=> IsPrefix(Slashed(c.click.agent, <<>>), SliceOf(s[j]).key)
    BY <1>2, <1>8 DEF Ends
  <2>2. \A x : x \in new <=> \E j \in Live(s, i - 1) : x = SliceOf(s[j]) /\ ~IsPrefix(Slashed(c.click.agent, <<>>), x.key)
    BY <2>1, <1>5, <1>8
  <2>3. \A x : x \in new <=> x \in old /\ ~IsPrefix(Slashed(c.click.agent, <<>>), x.key)
    BY <2>2, <1>3
  <2>4. new = {x \in old : ~IsPrefix(Slashed(c.click.agent, <<>>), x.key)}
    BY <2>3
  <2>5. c.click.verb # "CLAIM"
    BY <1>8
  <2>6. QED
    BY <2>4, <2>5, <1>6, <1>8 DEF new, old, c
<1>9. CASE c.click.verb \notin {"CLAIM", "COMPLETE", "YIELD"}
  <2>1. \A j \in Live(s, i - 1) : ~Ends(c, s[j])
    BY <1>9 DEF Ends
  <2>2. \A x : x \in new <=> x \in old
    BY <2>1, <1>3, <1>5, <1>9
  <2>3. new = old
    BY <2>2
  <2>4. QED
    BY <2>3, <1>6, <1>9 DEF new, old, c
<1>10. QED
  BY <1>7, <1>8, <1>9

\* The loop of cc.get_task.
LEMMA ActiveSlicesAre ==
  ASSUME NEW s, Len(s) \in Nat, \A j \in 1..Len(s) : Plainly(s[j])
  PROVE  ActiveSlices(s) = LiveSlices(s, Len(s))
<1> DEFINE n == Len(s)
           Eq(v) == v = [i \in 0..n |-> IF i = 0 THEN {} ELSE Track(v[i - 1], s[i])]
           w == [i \in 0..n |-> LiveSlices(s, i)]
           value == CHOOSE v : Eq(v)
<1>0. n \in Nat
  OBVIOUS
<1>00. \A i \in 1..n : LiveSlices(s, i) = Track(LiveSlices(s, i - 1), s[i])
  BY TrackLive
<1>1. Eq(w)
  <2>1. ASSUME NEW i \in 0..n
        PROVE  w[i] = IF i = 0 THEN {} ELSE Track(w[i - 1], s[i])
    <3>1. CASE i = 0
      <4>1. 1..0 = {}
        OBVIOUS
      <4>2. LiveSlices(s, 0) = {}
        BY <4>1 DEF LiveSlices, Live
      <4>3. QED
        BY <3>1, <4>2
    <3>2. CASE i # 0
      <4>1. i \in 1..n /\ i - 1 \in 0..n
        BY <3>2, <1>0
      <4>2. QED
        BY <3>2, <4>1, <1>00
    <3>3. QED
      BY <3>1, <3>2
  <2>2. w = [i \in 0..n |-> w[i]]
    OBVIOUS
  <2> HIDE DEF w, n
  <2>3. QED
    BY <2>1, <2>2
<1>2. Eq(value)
  <2> HIDE DEF Eq, w
  <2>1. QED
    BY <1>1
<1>3. ActiveSlices(s) = value[n]
  BY DEF ActiveSlices
<1> HIDE DEF value
<1>4. \A i \in 0..n : value[i] = IF i = 0 THEN {} ELSE Track(value[i - 1], s[i])
  <2> HIDE DEF n
  <2>1. QED
    BY <1>2
<1>5. \A i \in 0..n : w[i] = IF i = 0 THEN {} ELSE Track(w[i - 1], s[i])
  <2> HIDE DEF n, w
  <2>1. QED
    BY <1>1
<1>6. w[n] = LiveSlices(s, n)
  BY <1>0
<1> HIDE DEF Eq, w, n
<1>7. value[n] = w[n]
  <2> DEFINE bad == {i \in 0..n : value[i] # w[i]}
  <2> SUFFICES ASSUME bad # {} PROVE FALSE
    BY <1>0
  <2>1. PICK m \in bad : \A d \in bad : m <= d
    <3>1. bad \in SUBSET Nat
      BY <1>0
    <3> HIDE DEF bad
    <3>2. QED
      BY <3>1, SmallestNumber
  <2>2. m # 0
    BY <1>4, <1>5
  <2>3. m - 1 \in 0..n /\ m - 1 \notin bad
    BY <2>1, <2>2, <1>0
  <2>4. value[m - 1] = w[m - 1]
    BY <2>3
  <2>5. QED
    BY <2>2, <2>4, <1>4, <1>5
<1>8. QED
  BY <1>3, <1>6, <1>7 DEF n

\* Of a log within its window, cc.get_task reads all clacks of the task.
LEMMA TaskClacksAre ==
  ASSUME LogInv, NEW t, Cardinality(Logged) <= TaskRows
  PROVE  TaskClacks(t) = Chronicle({c \in Clacks : c.click.task = t})
<1> DEFINE A == From(0)
           M == {c \in Clacks : c.click.task = t}
           n == TaskRows
           read == FirstOf(n, Chronicle(A))
           T == {c \in Range(read) : c.click.task = t}
<1>1. n \in Nat /\ 0 \in Nat /\ 0 <= MaxEpoch
  BY Bounds, QueriesAssumption
<1>2. ReadRange(0, n) = read
  <2> HIDE DEF read, n
  <2>1. ReadRange(0, n) = FirstOf(n, Chronicle(From(0)))
    BY <1>1, ReadRangeIs
  <2>2. QED
    BY <2>1 DEF read
<1>3. A \in SUBSET Clacks /\ Cardinality(A) <= Cardinality({e \in Logged : e >= 0})
  BY <1>1, FromIs
<1>4. M \in SUBSET A
  BY ClacksAre DEF From
<1>5. Cardinality(A) <= n
  <2>1. {e \in Logged : e >= 0} = Logged
    BY LogRow
  <2>2. Cardinality(A) \in Nat /\ Cardinality(Logged) \in Nat
    BY <1>3, LoggedFinite, FS_CardinalityType
  <2> HIDE DEF A, n
  <2>3. Cardinality(A) <= Cardinality(Logged)
    BY <1>3, <2>1
  <2>4. QED
    BY <1>1, <2>2, <2>3 DEF n
<1>6. Range(read) \subseteq A
  <2>1. Lists(Chronicle(A), A, InTime) /\ Orders(InTime, A)
    BY <1>3, ChronicleIs, InTimeOrders
  <2> HIDE DEF A, n
  <2>2. QED
    BY <1>1, <2>1, FirstOfLists
<1>7. Range(read) \cap T = Range(read) \cap M
  <2>1. \A c \in Range(read) : c \in Clacks
    BY <1>3, <1>6
  <2> HIDE DEF read
  <2>2. QED
    BY <2>1
<1>8. Kept(read, T) = Chronicle(M)
  <2> HIDE DEF T, M, A, n
  <2>1. QED
    BY <1>1, <1>3, <1>4, <1>5, <1>7, KeptOfFirst DEF read
<1>9. TaskClacks(t) = Kept(read, T)
  <2> HIDE DEF read
  <2>1. QED
    BY <1>2 DEF TaskClacks, n
<1>10. QED
  BY <1>8, <1>9

\* The claims among M that nothing later in M has ended.
Standing(M) ==
  {c \in M : /\ c.click.verb = "CLAIM"
             /\ \A d \in M : d.epoch > c.epoch => ~Ends(d, c)}

\* The live claims of a chronicle are the claims nothing later has ended.
LEMMA LiveIs ==
  ASSUME LogInv, NEW M \in SUBSET Clacks
  PROVE  LET s == Chronicle(M) IN
         /\ \A j \in Live(s, Len(s)) : s[j] \in Standing(M)
         /\ \A c \in Standing(M) : \E j \in Live(s, Len(s)) : s[j] = c
         /\ Len(s) \in Nat /\ \A j \in 1..Len(s) : s[j] \in M
<1> DEFINE s == Chronicle(M)
           n == Len(s)
<1>1. Lists(s, M, InTime)
  BY ChronicleIs
<1> HIDE DEF s
<1>2. n \in Nat /\ DOMAIN s = 1..n /\ (\A j \in 1..n : s[j] \in M) /\ M = {s[i] : i \in 1..n}
  BY <1>1, SeqFacts DEF Lists
<1>3. \A j, k \in 1..n : j < k => s[j].epoch < s[k].epoch
  BY <1>1, <1>2 DEF Lists, Ascending, InTime, ByEpoch
<1>4. \A j \in 1..n : s[j].epoch \in Nat
  BY <1>2, ClacksAre
<1> HIDE DEF n
<1>5. \A j, k \in 1..n : s[k].epoch > s[j].epoch <=> j < k
  <2>1. ASSUME NEW j \in 1..n, NEW k \in 1..n PROVE s[k].epoch > s[j].epoch <=> j < k
    <3>1. j < k \/ j = k \/ k < j
      BY <1>2
    <3>2. (j < k => s[j].epoch < s[k].epoch) /\ (k < j => s[k].epoch < s[j].epoch)
      BY <1>3
    <3>3. s[j].epoch \in Nat /\ s[k].epoch \in Nat
      BY <1>4
    <3> DEFINE a == s[j].epoch
               b == s[k].epoch
    <3>4. (j < k => a < b) /\ (k < j => b < a) /\ a \in Nat /\ b \in Nat /\ (j = k => a = b)
      BY <3>2, <3>3
    <3> HIDE DEF a, b
    <3>5. b > a <=> j < k
      BY <3>1, <3>4, <1>2
    <3>6. QED
      BY <3>5 DEF a, b
  <2>2. QED
    BY <2>1
<1>6. ASSUME NEW j \in Live(s, n) PROVE s[j] \in Standing(M)
  <2>1. j \in 1..n /\ s[j].click.verb = "CLAIM" /\ \A k \in 1..n : j < k => ~Ends(s[k], s[j])
    BY DEF Live
  <2>2. ASSUME NEW d \in M, d.epoch > s[j].epoch PROVE ~Ends(d, s[j])
    <3>1. PICK k \in 1..n : d = s[k]
      BY <1>2
    <3>2. QED
      BY <3>1, <2>1, <2>2, <1>5
  <2>3. QED
    BY <2>1, <2>2, <1>2 DEF Standing
<1>7. ASSUME NEW c \in Standing(M) PROVE \E j \in Live(s, n) : s[j] = c
  <2>1. c \in M /\ c.click.verb = "CLAIM" /\ \A d \in M : d.epoch > c.epoch => ~Ends(d, c)
    BY DEF Standing
  <2>2. PICK j \in 1..n : c = s[j]
    BY <2>1, <1>2
  <2>3. \A k \in 1..n : j < k => ~Ends(s[k], s[j])
    BY <2>1, <2>2, <1>2, <1>5
  <2>4. j \in Live(s, n)
    BY <2>1, <2>2, <2>3 DEF Live
  <2>5. QED
    BY <2>2, <2>4
<1>8. QED
  BY <1>2, <1>6, <1>7 DEF s, n

\* A clack of the log whose agent's id holds no slash has such a key.
LEMMA PlainClacks ==
  ASSUME LogInv, NEW c \in Clacks, SlashFree(c.click.agent)
  PROVE  Plainly(c)
<1>1. c.epoch \in Logged /\ c = At(c.epoch)
  BY ClacksAre
<1>2. c.click = ClickAt(c.epoch)
  BY <1>1 DEF ClickAt
<1>3. c.click \in ClickType
  BY <1>1, <1>2, LogRow
<1>4. QED
  BY <1>3 DEF ClickType, Plainly

\* The loop of cc.get_task leaves the claims that stand.
LEMMA ClaimantsAre ==
  ASSUME LogInv, NEW t, Cardinality(Logged) <= TaskRows,
         \A c \in Clacks : SlashFree(c.click.agent)
  PROVE  ActiveClaimants(t) =
           {[agent |-> c.click.agent, slice |-> c.click.slice, epoch |-> c.epoch] :
              c \in Standing({c \in Clacks : c.click.task = t})}
<1> DEFINE M == {c \in Clacks : c.click.task = t}
           s == Chronicle(M)
           n == Len(s)
           split(x) == LET i == SelectInSeq(x.key, LAMBDA b : b = Slash) IN
                       [agent |-> SubSeq(x.key, 1, i - 1), slice |-> SubSeq(x.key, i + 1, Len(x.key)),
                        epoch |-> x.epoch]
           claimant(c) == [agent |-> c.click.agent, slice |-> c.click.slice, epoch |-> c.epoch]
<1>1. TaskClacks(t) = s
  BY TaskClacksAre
<1>2. /\ \A j \in Live(s, n) : s[j] \in Standing(M)
      /\ \A c \in Standing(M) : \E j \in Live(s, n) : s[j] = c
      /\ n \in Nat /\ \A j \in 1..n : s[j] \in M
  <2> HIDE DEF M
  <2>1. M \in SUBSET Clacks
    BY DEF M
  <2>2. QED
    BY <2>1, LiveIs
<1>3. \A j \in 1..n : Plainly(s[j])
  BY <1>2, PlainClacks
<1>4. ASSUME NEW c, Plainly(c) PROVE split(SliceOf(c)) = claimant(c)
  <2> DEFINE p == c.click.agent
             q == c.click.slice
             k == Slashed(p, q)
             i == SelectInSeq(k, LAMBDA b : b = Slash)
  <2>1. p \in Seq(Byte) /\ q \in Seq(Byte) /\ SlashFree(p)
    BY <1>4 DEF Plainly
  <2>2. i = Len(p) + 1 /\ SubSeq(k, 1, Len(p)) = p /\ SubSeq(k, Len(p) + 2, Len(k)) = q
    <3> HIDE DEF p, q
    <3>1. QED
      BY <2>1, FirstSlash
  <2>3. Len(p) \in Nat
    BY <2>1, SeqFacts
  <2>4. SliceOf(c).key = k /\ SliceOf(c).epoch = c.epoch
    BY DEF SliceOf
  <2>5. split(SliceOf(c)) = [agent |-> SubSeq(k, 1, i - 1), slice |-> SubSeq(k, i + 1, Len(k)), epoch |-> c.epoch]
    BY <2>4
  <2> HIDE DEF k, i, split
  <2>6. i - 1 = Len(p) /\ i + 1 = Len(p) + 2
    BY <2>2, <2>3
  <2>7. QED
    BY <2>2, <2>5, <2>6
<1> HIDE DEF s, n
<1>5. ActiveSlices(s) = LiveSlices(s, n)
  BY <1>2, <1>3, ActiveSlicesAre DEF n
<1>6. ActiveClaimants(t) = {split(x) : x \in LiveSlices(s, n)}
  BY <1>1, <1>5 DEF ActiveClaimants
<1> HIDE DEF split, claimant, M
<1>7. ASSUME NEW x \in LiveSlices(s, n) PROVE \E c \in Standing(M) : split(x) = claimant(c)
  <2>1. PICK j \in Live(s, n) : x = SliceOf(s[j])
    BY DEF LiveSlices
  <2>2. Plainly(s[j]) /\ s[j] \in Standing(M)
    BY <1>2, <1>3 DEF Live
  <2>3. QED
    BY <2>1, <2>2, <1>4
<1>8. ASSUME NEW c \in Standing(M) PROVE \E x \in LiveSlices(s, n) : split(x) = claimant(c)
  <2>1. PICK j \in Live(s, n) : s[j] = c
    BY <1>2
  <2>2. SliceOf(c) \in LiveSlices(s, n) /\ Plainly(c)
    BY <2>1, <1>3 DEF LiveSlices, Live
  <2>3. QED
    BY <2>2, <1>4
<1>9. {split(x) : x \in LiveSlices(s, n)} = {claimant(c) : c \in Standing(M)}
  BY <1>7, <1>8
<1>10. QED
  BY <1>6, <1>9 DEF claimant, M

\* cc.get_task names the claims that stand and the newest clacks of the task, of a
\* log within the rows it reads and of agents without a '/' (mcp_server.hpp:701-737).
THEOREM GetTask == QueriesSpec => []GetTaskFromLog
<1>1. ASSUME LogInv, NEW t \in Tasks, Cardinality(Logged) <= TaskRows
      PROVE  Recent(t) = LastOf(RecentCap, Chronicle({c \in Clacks : c.click.task = t}))
  BY <1>1, TaskClacksAre DEF Recent
<1>2. ASSUME LogInv, NEW t \in Tasks, Cardinality(Logged) <= TaskRows,
             \A c \in Clacks : SlashFree(c.click.agent)
      PROVE  ActiveClaimants(t) =
             {[agent |-> c.click.agent, slice |-> c.click.slice, epoch |-> c.epoch] :
                c \in {c \in Clacks :
                         /\ c.click.task = t /\ c.click.verb = "CLAIM"
                         /\ \A d \in Clacks :
                              d.click.task = t /\ d.click.agent = c.click.agent /\ d.epoch > c.epoch =>
                                /\ d.click.verb \notin {"COMPLETE", "YIELD"}
                                /\ d.click.verb = "CLAIM" => d.click.slice # c.click.slice}}
  <2> DEFINE M == {c \in Clacks : c.click.task = t}
             N == {c \in Clacks :
                         /\ c.click.task = t /\ c.click.verb = "CLAIM"
                         /\ \A d \in Clacks :
                              d.click.task = t /\ d.click.agent = c.click.agent /\ d.epoch > c.epoch =>
                                /\ d.click.verb \notin {"COMPLETE", "YIELD"}
                                /\ d.click.verb = "CLAIM" => d.click.slice # c.click.slice}
  <2>1. ASSUME NEW c \in Clacks PROVE c \in N <=> c \in Standing(M)
    BY DEF Standing, Ends
  <2>2. N \subseteq Clacks /\ Standing(M) \subseteq Clacks
    BY DEF Standing
  <2>3. ActiveClaimants(t) = {[agent |-> c.click.agent, slice |-> c.click.slice, epoch |-> c.epoch] : c \in Standing(M)}
    BY <1>2, ClaimantsAre
  <2> HIDE DEF N, M
  <2>4. N = Standing(M)
    BY <2>1, <2>2
  <2>5. QED
    BY <2>3, <2>4 DEF N
<1>3. LogInv => GetTaskFromLog
  BY <1>1, <1>2 DEF GetTaskFromLog
<1>4. QED
  BY <1>3, LogInvInductive, PTL
=============================================================================

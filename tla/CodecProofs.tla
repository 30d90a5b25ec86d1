----------------------------- MODULE CodecProofs -----------------------------
(***************************************************************************)
(* Theorems about Codec, for any alphabet, widths and limits: sequences    *)
(* that list a set in an order, as scans and limits do; the bytes of an    *)
(* epoch's key; the order of the storage engine; the texts of a frame.     *)
(*                                                                         *)
(* What a recursive function computes is proved without induction over an  *)
(* operator: from a smallest counterexample, at a number where the         *)
(* equation fails first.                                                   *)
(***************************************************************************)
EXTENDS Codec, TLAPS, FiniteSetTheorems, WellFoundedInduction, SequenceTheorems

-----------------------------------------------------------------------------
(* Sequences that list a set in an order *)

\* A set of numbers that is not empty has a smallest one; what a proof by
\* induction would need is proved from the smallest counterexample.
LEMMA SmallestNumber ==
  ASSUME NEW S \in SUBSET Nat, S # {}
  PROVE  \E n \in S : \A m \in S : n <= m
<1>1. PICK n \in S : \A m \in S : <<m, n>> \notin OpToRel(<, Nat)
  BY NatLessThanWellFounded, WFMin, Zenon
<1>2. \A m \in S : ~(m < n)
  BY <1>1 DEF OpToRel
<1>3. QED
  BY <1>2

\* There is a function on 0..n with this beginning and this step.
Recursive(X, x0, n, step) ==
  \E g \in [0..n -> X] : g[0] = x0 /\ \A i \in 1..n : g[i] = step[i][g[i - 1]]

\* Such a function exists: the partial ones with the longest domain reach n.
LEMMA Recursion ==
  ASSUME NEW X, NEW x0 \in X, NEW n \in Nat, NEW step \in [1..n -> [X -> X]]
  PROVE  Recursive(X, x0, n, step)
<1> DEFINE Part(m, g) == g \in [0..m -> X] /\ g[0] = x0 /\ \A i \in 1..m : g[i] = step[i][g[i - 1]]
           bad == {m \in Nat : m <= n /\ ~\E g : Part(m, g)}
<1>1. bad = {}
  <2> SUFFICES ASSUME bad # {} PROVE FALSE
    OBVIOUS
  <2>1. PICK m \in bad : \A d \in bad : m <= d
    <3>1. bad \in SUBSET Nat
      OBVIOUS
    <3> HIDE DEF bad
    <3>2. QED
    BY <3>1, SmallestNumber
  <2>3. m # 0
    <3>1. Part(0, [i \in 0..0 |-> x0])
      OBVIOUS
    <3>2. QED
      BY <3>1
  <2>4. m - 1 \in Nat /\ m - 1 < m /\ m <= n /\ m \in Nat
    BY <2>3
  <2>41. m - 1 \notin bad
    <3>1. ~(m <= m - 1)
      BY <2>4
    <3> HIDE DEF bad
    <3>2. QED
      BY <3>1, <2>1
  <2>5. PICK g : Part(m - 1, g)
    BY <2>41, <2>4
  <2> DEFINE h == [i \in 0..m |-> IF i = m THEN step[m][g[m - 1]] ELSE g[i]]
  <2>6. g[m - 1] \in X /\ m \in 1..n
    BY <2>3, <2>4, <2>5
  <2>7. step[m][g[m - 1]] \in X
    BY <2>6
  <2>8. Part(m, h)
    <3>1. h \in [0..m -> X]
      BY <2>4, <2>5, <2>7
    <3>2. h[0] = x0
      BY <2>3, <2>4, <2>5
    <3>3. ASSUME NEW i \in 1..m PROVE h[i] = step[i][h[i - 1]]
      <4>1. h[i - 1] = g[i - 1]
        BY <2>4
      <4>2. CASE i = m
        <5>1. h[i] = step[i][g[i - 1]]
          BY <4>2, <2>4
        <5> HIDE DEF h
        <5>2. QED
          BY <4>1, <5>1
      <4>3. CASE i # m
        BY <4>1, <4>3, <2>4, <2>5
      <4>4. QED
        BY <4>2, <4>3
    <3>4. QED
      BY <3>1, <3>2, <3>3
  <2>9. QED
    BY <2>8, <2>4
<1>2. n \notin bad
  BY <1>1
<1>3. QED
  BY <1>2 DEF Recursive

-----------------------------------------------------------------------------
(* Orders and listings *)

\* R, a set of pairs, orders the elements of S.
Orders(R, S) ==
  /\ \A x \in S : <<x, x>> \notin R
  /\ \A x, y, z \in S : <<x, y>> \in R /\ <<y, z>> \in R => <<x, z>> \in R
  /\ \A x, y \in S : x = y \/ <<x, y>> \in R \/ <<y, x>> \in R

\* What is below x.
Under(R, S, x) == {y \in S : <<y, x>> \in R}

\* s rises.
Ascending(s, R) == \A i, j \in DOMAIN s : i < j => <<s[i], s[j]>> \in R

\* s is S in the order of R.
Lists(s, S, R) == s \in Seq(S) /\ Range(s) = S /\ Ascending(s, R)

\* A set listed as PrefixScan, Kept and Chronicle do it: one counts what is below.
Listing(S, R) ==
  [i \in 1..Cardinality(S) |-> CHOOSE x \in S : Cardinality(Under(R, S, x)) = i - 1]

\* A finite set that R orders, listed: at place i what has i - 1 below it.
LEMMA ListingLists ==
  ASSUME NEW S, IsFiniteSet(S), NEW R, Orders(R, S)
  PROVE  Lists(Listing(S, R), S, R)
<1> DEFINE n == Cardinality(S)
           rank(x) == Cardinality(Under(R, S, x))
           L == Listing(S, R)
<1>1. n \in Nat
  BY FS_CardinalityType
<1>2. ASSUME NEW x \in S PROVE Under(R, S, x) \in SUBSET S /\ IsFiniteSet(Under(R, S, x)) /\ rank(x) \in Nat /\ rank(x) < n
  <2>1. Under(R, S, x) \in SUBSET S /\ Under(R, S, x) # S
    BY DEF Under, Orders
  <2> HIDE DEF n
  <2>2. IsFiniteSet(Under(R, S, x)) /\ rank(x) <= n /\ rank(x) # n
    BY <2>1, FS_Subset DEF n
  <2>3. QED
    BY <2>1, <2>2, <1>1, FS_CardinalityType
<1>3. ASSUME NEW x \in S, NEW y \in S, <<x, y>> \in R PROVE rank(x) < rank(y)
  <2>1. Under(R, S, x) \subseteq Under(R, S, y) /\ Under(R, S, x) # Under(R, S, y)
    BY <1>3 DEF Under, Orders
  <2>2. rank(x) <= rank(y) /\ rank(x) # rank(y)
    BY <2>1, <1>2, FS_Subset
  <2>3. QED
    BY <2>2, <1>2
<1> DEFINE ranks == [x \in S |-> rank(x)]
<1>4. ranks \in Injection(S, 0..(n - 1))
  <2> HIDE DEF n, rank
  <2>1. \A x \in S : ranks[x] \in 0..(n - 1)
    BY <1>1, <1>2
  <2>2. ASSUME NEW x \in S, NEW y \in S, ranks[x] = ranks[y] PROVE x = y
    <3>1. x = y \/ <<x, y>> \in R \/ <<y, x>> \in R
      BY DEF Orders
    <3>2. rank(x) = rank(y) /\ rank(x) \in Nat
      BY <2>2, <1>2
    <3>3. <<x, y>> \notin R /\ <<y, x>> \notin R
      BY <3>2, <1>3
    <3>4. QED
      BY <3>1, <3>3
  <2>3. QED
    BY <2>1, <2>2 DEF Injection, IsInjective
<1>5. ranks \in Surjection(S, 0..(n - 1))
  <2> HIDE DEF n, ranks
  <2>1. IsFiniteSet(0..(n - 1)) /\ Cardinality(0..(n - 1)) = n
    BY FS_Interval, <1>1
  <2>2. QED
    BY <1>4, <2>1, FS_Injection DEF n
<1>6. ASSUME NEW i \in 1..n PROVE L[i] \in S /\ rank(L[i]) = i - 1
  <2>1. \E x \in S : rank(x) = i - 1
    <3>1. i - 1 \in 0..(n - 1)
      BY <1>1
    <3> HIDE DEF n, rank
    <3>2. QED
      BY <3>1, <1>5 DEF Surjection
  <2>2. L[i] = CHOOSE x \in S : rank(x) = i - 1
    BY DEF Listing
  <2> HIDE DEF rank, L
  <2>3. QED
    BY <2>1, <2>2
<1>7. DOMAIN L = 1..n
  BY DEF Listing
<1>8. ASSUME NEW x \in S PROVE L[rank(x) + 1] = x /\ rank(x) + 1 \in 1..n
  <2> HIDE DEF rank, L, n
  <2>1. rank(x) + 1 \in 1..n
    BY <1>1, <1>2
  <2>2. L[rank(x) + 1] \in S /\ rank(L[rank(x) + 1]) = rank(x)
    BY <2>1, <1>6, <1>2
  <2> DEFINE y == L[rank(x) + 1]
  <2>3. y \in S /\ rank(y) = rank(x) /\ rank(x) \in Nat
    BY <2>2, <1>2
  <2> HIDE DEF y
  <2>4. x = y \/ <<x, y>> \in R \/ <<y, x>> \in R
    BY <2>3 DEF Orders
  <2>5. <<x, y>> \notin R /\ <<y, x>> \notin R
    BY <2>3, <1>3
  <2>6. QED
    BY <2>1, <2>4, <2>5 DEF y
<1>9. ASSUME NEW i \in 1..n, NEW j \in 1..n, i < j PROVE <<L[i], L[j]>> \in R
  <2> HIDE DEF rank, L, n
  <2>1. L[i] \in S /\ L[j] \in S /\ rank(L[i]) < rank(L[j])
    BY <1>6, <1>9, <1>1
  <2>2. <<L[j], L[i]>> \notin R /\ L[i] # L[j]
    BY <2>1, <1>3, <1>2
  <2>3. QED
    BY <2>1, <2>2 DEF Orders
<1>10. L \in Seq(S)
  <2>1. L \in [1..n -> S]
    <3>1. L = [i \in 1..n |-> L[i]]
      BY DEF Listing
    <3> HIDE DEF n, L
    <3>2. QED
      BY <3>1, <1>6
  <2> HIDE DEF n, L
  <2>2. QED
    BY <1>1, <2>1, SeqDef
<1>11. Range(L) = S
  <2> HIDE DEF n, L, rank
  <2>1. Range(L) = {L[i] : i \in 1..n}
    BY <1>7 DEF Range
  <2>2. QED
    BY <2>1, <1>6, <1>8
<1> HIDE DEF n, L
<1>12. QED
  BY <1>7, <1>9, <1>10, <1>11 DEF Lists, Ascending, L

\* Two ascending sequences, the elements of one among those of the other and
\* with each all that come before it: the first is how the second begins.
LEMMA Beginning ==
  ASSUME NEW S, NEW R, Orders(R, S), NEW s \in Seq(S), NEW t \in Seq(S),
         Ascending(s, R), Ascending(t, R), Range(s) \subseteq Range(t),
         \A x \in Range(t), y \in Range(s) : <<x, y>> \in R => x \in Range(s)
  PROVE  Len(s) <= Len(t) /\ \A i \in 1..Len(s) : s[i] = t[i]
<1>1. /\ Len(s) \in Nat /\ DOMAIN s = 1..Len(s) /\ \A i \in 1..Len(s) : s[i] \in S
      /\ Len(t) \in Nat /\ DOMAIN t = 1..Len(t) /\ \A i \in 1..Len(t) : t[i] \in S
  BY LenProperties, ElementOfSeq
<1>2. Range(s) = {s[i] : i \in 1..Len(s)} /\ Range(t) = {t[i] : i \in 1..Len(t)}
  BY <1>1 DEF Range
<1> DEFINE bad == {i \in 1..Len(s) : ~(i <= Len(t) /\ s[i] = t[i])}
<1>3. bad = {}
  <2> SUFFICES ASSUME bad # {} PROVE FALSE
    OBVIOUS
  <2>1. PICK i \in bad : \A j \in bad : i <= j
    <3>1. bad \in SUBSET Nat
      BY <1>1
    <3> HIDE DEF bad
    <3>2. QED
    BY <3>1, SmallestNumber
  <2>2. \A j \in 1..(i - 1) : j <= Len(t) /\ s[j] = t[j] /\ j \in 1..Len(s) /\ j \in 1..Len(t) /\ j < i
    BY <2>1, <1>1
  <2>3. i \in 1..Len(s) /\ ~(i <= Len(t) /\ s[i] = t[i])
    OBVIOUS
  <2>4. PICK k \in 1..Len(t) : t[k] = s[i]
    BY <1>2, <2>3
  <2>5. ~(k < i)
    <3> SUFFICES ASSUME k < i PROVE FALSE
      OBVIOUS
    <3>1. s[k] = t[k] /\ k \in 1..Len(s)
      BY <2>2, <2>4, <1>1
    <3>2. <<s[k], s[i]>> \in R
      BY <3>1, <2>3, <1>1 DEF Ascending
    <3>3. QED
      BY <3>1, <3>2, <2>4, <2>3, <1>1 DEF Orders
  <2>6. k # i
    BY <2>3, <2>4, <1>1
  <2>7. i < k /\ i \in 1..Len(t)
    BY <2>5, <2>6, <2>4, <2>3, <1>1
  <2>8. <<t[i], s[i]>> \in R
    BY <2>7, <2>4, <1>1 DEF Ascending
  <2>9. PICK m \in 1..Len(s) : s[m] = t[i]
    <3>1. t[i] \in Range(t) /\ s[i] \in Range(s)
      BY <2>7, <2>3, <1>2
    <3>2. QED
      BY <3>1, <2>8, <1>2
  <2>10. m # i
    BY <2>9, <2>3, <2>7, <1>1
  <2>11. CASE m < i
    <3>1. s[m] = t[m] /\ m \in 1..Len(t)
      BY <2>11, <2>2, <2>9, <1>1
    <3>2. <<t[m], t[i]>> \in R
      BY <3>1, <2>7, <2>11, <1>1 DEF Ascending
    <3>3. QED
      BY <3>1, <3>2, <2>9, <2>7, <1>1 DEF Orders
  <2>12. CASE i < m
    <3>1. <<s[i], t[i]>> \in R
      BY <2>12, <2>9, <2>3, <1>1 DEF Ascending
    <3>2. <<s[i], s[i]>> \in R
      BY <3>1, <2>8, <2>3, <2>7, <1>1 DEF Orders
    <3>3. QED
      BY <3>2, <2>3, <1>1 DEF Orders
  <2>13. QED
    BY <2>10, <2>11, <2>12, <2>9, <2>3, <1>1
<1>4. \A i \in 1..Len(s) : i <= Len(t) /\ s[i] = t[i]
  BY <1>3
<1>5. Len(s) <= Len(t)
  BY <1>4, <1>1
<1>6. QED
  BY <1>4, <1>5

\* There is one listing of a set in an order.
LEMMA ListsOnce ==
  ASSUME NEW S, NEW R, Orders(R, S), NEW s, NEW t, Lists(s, S, R), Lists(t, S, R)
  PROVE  s = t
<1>1. s \in Seq(S) /\ t \in Seq(S) /\ Range(s) = Range(t)
  BY DEF Lists
<1>2. Len(s) <= Len(t) /\ \A i \in 1..Len(s) : s[i] = t[i]
  BY <1>1, Beginning DEF Lists
<1>3. Len(t) <= Len(s)
  BY <1>1, Beginning DEF Lists
<1>4. Len(s) \in Nat /\ Len(t) \in Nat
  BY <1>1, LenProperties
<1>5. QED
  BY <1>1, <1>2, <1>3, <1>4, SeqEqual

\* What every proof about a sequence starts from.
LEMMA SeqFacts ==
  ASSUME NEW S, NEW s \in Seq(S)
  PROVE  /\ Len(s) \in Nat /\ DOMAIN s = 1..Len(s) /\ \A i \in 1..Len(s) : s[i] \in S
         /\ Range(s) = {s[i] : i \in 1..Len(s)}
         /\ Range(s) \subseteq S
<1>1. Len(s) \in Nat /\ DOMAIN s = 1..Len(s) /\ \A i \in 1..Len(s) : s[i] \in S
  BY LenProperties, ElementOfSeq
<1>2. QED
  BY <1>1 DEF Range

\* A sequence given by its elements.
LEMMA ASeq ==
  ASSUME NEW S, NEW n \in Nat, NEW s \in [1..n -> S]
  PROVE  s \in Seq(S) /\ Len(s) = n /\ DOMAIN s = 1..n
<1>1. s \in Seq(S) /\ DOMAIN s = 1..n
  BY SeqDef
<1>2. DOMAIN s = 1..Len(s) /\ Len(s) \in Nat
  BY <1>1, LenProperties
<1>3. QED
  BY <1>1, <1>2

\* The image of an ordered set under a function that keeps the order.
LEMMA MapLists ==
  ASSUME NEW S, NEW R, NEW s, Lists(s, S, R), NEW D, NEW Q, NEW f \in [S -> D],
         \A y \in D : \E x \in S : y = f[x],
         \A x, y \in S : <<x, y>> \in R => <<f[x], f[y]>> \in Q,
         NEW t \in [DOMAIN s -> D], \A i \in DOMAIN s : t[i] = f[s[i]]
  PROVE  Lists(t, D, Q)
<1>1. Len(s) \in Nat /\ DOMAIN s = 1..Len(s) /\ \A i \in 1..Len(s) : s[i] \in S
  BY SeqFacts DEF Lists
<1>2. S = {s[i] : i \in 1..Len(s)}
  BY SeqFacts DEF Lists
<1>3. t \in Seq(D) /\ DOMAIN t = 1..Len(s)
  BY <1>1, ASeq
<1>4. Range(t) = {t[i] : i \in 1..Len(s)} /\ Range(t) \subseteq D
  BY <1>1, <1>3 DEF Range
<1>5. ASSUME NEW y \in D PROVE y \in Range(t)
  <2>1. PICK x \in S : y = f[x]
    OBVIOUS
  <2>2. PICK i \in 1..Len(s) : x = s[i]
    BY <1>2
  <2>3. y = t[i]
    BY <2>1, <2>2, <1>1
  <2>4. QED
    BY <2>3, <1>4
<1>6. Ascending(t, Q)
  <2>1. ASSUME NEW i \in DOMAIN s, NEW j \in DOMAIN s, i < j
        PROVE  <<f[s[i]], f[s[j]]>> \in Q
    <3>1. <<s[i], s[j]>> \in R
      BY <2>1 DEF Lists, Ascending
    <3>2. s[i] \in S /\ s[j] \in S
      BY <1>1
    <3>3. QED
      BY <3>1, <3>2
  <2>2. QED
    BY <2>1, <1>1, <1>3 DEF Ascending
<1>7. Range(t) = D
  BY <1>4, <1>5
<1>8. QED
  BY <1>3, <1>6, <1>7 DEF Lists

\* Of a listing, the elements in T list the intersection.
LEMMA KeptLists ==
  ASSUME NEW S, NEW R, NEW s, Lists(s, S, R), NEW T
  PROVE  Lists(Kept(s, T), S \cap T, R)
<1> DEFINE places == {i \in DOMAIN s : s[i] \in T}
           Q == {p \in places \X places : p[1] < p[2]}
           L == Listing(places, Q)
           f == [i \in places |-> s[i]]
<1>1. /\ Len(s) \in Nat /\ DOMAIN s = 1..Len(s) /\ \A i \in 1..Len(s) : s[i] \in S
      /\ S = {s[i] : i \in 1..Len(s)}
  BY SeqFacts DEF Lists
<1>2. IsFiniteSet(places) /\ places \subseteq 1..Len(s)
  <2>1. IsFiniteSet(1..Len(s)) /\ places \in SUBSET (1..Len(s))
    BY <1>1, FS_Interval
  <2> HIDE DEF places
  <2>2. QED
    BY <2>1, FS_Subset
<1>3. Orders(Q, places)
  <2> SUFFICES /\ \A x \in places : <<x, x>> \notin Q
               /\ \A x, y, z \in places : <<x, y>> \in Q /\ <<y, z>> \in Q => <<x, z>> \in Q
               /\ \A x, y \in places : x = y \/ <<x, y>> \in Q \/ <<y, x>> \in Q
    BY DEF Orders
  <2>1. places \subseteq Nat
    BY <1>2, <1>1
  <2>2. \A x, y \in places : <<x, y>> \in Q <=> x < y
    OBVIOUS
  <2> HIDE DEF places, Q
  <2>3. QED
    BY <2>1, <2>2
<1>4. Lists(L, places, Q)
  <2> HIDE DEF places, Q
  <2>1. QED
    BY <1>2, <1>3, ListingLists DEF L
<1>5. ASSUME NEW i \in places PROVE Under(Q, places, i) = {j \in places : j < i}
  BY <1>2, <1>1 DEF Under
<1>6. \A k \in 1..Cardinality(places) :
        (CHOOSE i \in places : Cardinality({j \in places : j < i}) = k - 1) = L[k]
  <2>1. \A k \in 1..Cardinality(places) :
         L[k] = CHOOSE i \in places : Cardinality(Under(Q, places, i)) = k - 1
    BY DEF Listing
  <2> HIDE DEF L, Q, places
  <2>2. ASSUME NEW k PROVE (CHOOSE i \in places : Cardinality({j \in places : j < i}) = k - 1)
           = (CHOOSE i \in places : Cardinality(Under(Q, places, i)) = k - 1)
    BY <1>5
  <2>3. QED
    BY <2>1, <2>2
<1>7. Kept(s, T) = [k \in 1..Cardinality(places) |-> s[L[k]]]
  <2>1. Kept(s, T) = [k \in 1..Cardinality(places) |->
                       s[CHOOSE i \in places : Cardinality({j \in places : j < i}) = k - 1]]
    BY DEF Kept
  <2> HIDE DEF L, places
  <2>2. QED
    BY <2>1, <1>6
<1>8. DOMAIN L = 1..Cardinality(places) /\ \A k \in DOMAIN L : L[k] \in places
  <2>1. DOMAIN L = 1..Cardinality(places)
    BY DEF Listing
  <2> HIDE DEF places, Q, L
  <2>2. QED
    BY <2>1, <1>4, SeqFacts DEF Lists
<1>9. Kept(s, T) = [k \in DOMAIN L |-> f[L[k]]]
  <2>1. \A k \in DOMAIN L : f[L[k]] = s[L[k]]
    BY <1>8
  <2> HIDE DEF L, f, places
  <2>2. QED
    BY <1>7, <1>8, <2>1
<1>10. f \in [places -> S \cap T] /\ \A y \in S \cap T : \E i \in places : y = f[i]
  BY <1>1
<1>11. \A x, y \in places : <<x, y>> \in Q => <<f[x], f[y]>> \in R
  BY DEF Lists, Ascending
<1>12. Kept(s, T) \in [DOMAIN L -> S \cap T] /\ \A k \in DOMAIN L : Kept(s, T)[k] = f[L[k]]
  <2> HIDE DEF places, Q, L, f
  <2>1. QED
    BY <1>8, <1>9, <1>10
<1>13. QED
  <2> HIDE DEF places, Q, L, f
  <2>1. QED
    BY <1>4, <1>10, <1>11, <1>12, MapLists

\* A limit cuts a sequence at its length.
LEMMA FirstOfIs ==
  ASSUME NEW S, NEW s \in Seq(S), NEW n \in Nat
  PROVE  /\ FirstOf(n, s) \in Seq(S)
         /\ Len(FirstOf(n, s)) = IF n < Len(s) THEN n ELSE Len(s)
         /\ \A i \in 1..Len(FirstOf(n, s)) : FirstOf(n, s)[i] = s[i]
         /\ Len(s) <= n => FirstOf(n, s) = s
<1>1. Len(s) \in Nat /\ DOMAIN s = 1..Len(s) /\ \A i \in 1..Len(s) : s[i] \in S
  BY SeqFacts
<1> DEFINE m == IF n < Len(s) THEN n ELSE Len(s)
<1>2. m \in Nat /\ m <= Len(s)
  BY <1>1
<1>3. FirstOf(n, s) = SubSeq(s, 1, m)
  BY DEF FirstOf
<1> HIDE DEF m
<1>4. SubSeq(s, 1, m) \in Seq(S) /\ Len(SubSeq(s, 1, m)) = m /\ \A i \in 1..m : SubSeq(s, 1, m)[i] = s[i]
  <2>1. \A i \in 1..m : s[i] \in S
    BY <1>1, <1>2
  <2>2. /\ SubSeq(s, 1, m) \in Seq(S)
        /\ Len(SubSeq(s, 1, m)) = IF 1 <= m THEN m - 1 + 1 ELSE 0
        /\ \A i \in 1..(m - 1 + 1) : SubSeq(s, 1, m)[i] = s[1 + i - 1]
    BY <2>1, <1>2, SubSeqProperties
  <2>3. QED
    BY <2>2, <1>2
<1>5. Len(s) <= n => m = Len(s)
  <2>1. Len(s) \in Nat
    BY <1>1
  <2>2. QED
    BY <2>1 DEF m
<1>6. QED
  BY <1>1, <1>3, <1>4, <1>5, SeqEqual DEF m

\* A limit on a listing leaves the lowest elements, in order.
LEMMA FirstOfLists ==
  ASSUME NEW S, NEW R, Orders(R, S), NEW s, Lists(s, S, R), NEW n \in Nat
  PROVE  LET t == FirstOf(n, s) IN
         /\ Lists(t, Range(t), R) /\ Range(t) \subseteq S
         /\ \A x \in S, y \in Range(t) : <<x, y>> \in R => x \in Range(t)
<1> DEFINE t == FirstOf(n, s)
<1>1. /\ Len(s) \in Nat /\ DOMAIN s = 1..Len(s) /\ \A i \in 1..Len(s) : s[i] \in S
      /\ S = {s[i] : i \in 1..Len(s)} /\ s \in Seq(S)
  BY SeqFacts DEF Lists
<1>20. /\ t \in Seq(S) /\ Len(t) = IF n < Len(s) THEN n ELSE Len(s)
       /\ \A i \in 1..Len(t) : t[i] = s[i]
  BY FirstOfIs DEF Lists
<1> HIDE DEF t
<1>2. t \in Seq(S) /\ Len(t) <= Len(s) /\ \A i \in 1..Len(t) : t[i] = s[i]
  <2>1. Len(s) \in Nat
    BY <1>1
  <2>2. QED
    BY <2>1, <1>20
<1>3. Len(t) \in Nat /\ DOMAIN t = 1..Len(t) /\ Range(t) = {t[i] : i \in 1..Len(t)} /\ Range(t) \subseteq S
  BY <1>2, SeqFacts
<1>31. Len(s) \in Nat /\ Len(t) \in Nat /\ Len(t) <= Len(s)
  BY <1>1, <1>2, <1>3
<1>4. Ascending(t, R)
  BY <1>1, <1>2, <1>3 DEF Ascending, Lists
<1>5. t \in Seq(Range(t))
  BY <1>2, SeqOfRange
<1>6. ASSUME NEW x \in S, NEW y \in Range(t), <<x, y>> \in R PROVE x \in Range(t)
  <2>1. PICK i \in 1..Len(t) : y = t[i]
    BY <1>3
  <2>2. PICK j \in 1..Len(s) : x = s[j]
    BY <1>1
  <2>3. j < i
    <3> SUFFICES ASSUME ~(j < i) PROVE FALSE
      OBVIOUS
    <3>1. y = s[i] /\ i \in 1..Len(s)
      <4>1. i \in 1..Len(s)
        BY <1>31
      <4>2. QED
        BY <4>1, <2>1, <1>2
    <3>2. i = j \/ i < j
      BY <1>1, <1>3
    <3>3. x = y \/ <<y, x>> \in R
      BY <3>1, <3>2, <2>2, <1>1 DEF Ascending, Lists
    <3>4. y \in S
      BY <1>3
    <3>5. <<x, x>> \in R
      BY <3>3, <3>4, <1>6 DEF Orders
    <3>6. QED
      BY <3>5 DEF Orders
  <2>4. j \in 1..Len(t) /\ t[j] = x
    <3>1. j \in 1..Len(t)
      BY <2>3, <1>31
    <3>2. QED
      BY <3>1, <2>2, <1>2
  <2>5. QED
    BY <2>4, <1>3
<1>7. QED
  BY <1>3, <1>4, <1>5, <1>6 DEF Lists, t

\* The community modules' prefix, element by element.
LEMMA PrefixIs ==
  ASSUME NEW S, NEW s \in Seq(S), NEW t \in Seq(S)
  PROVE  IsPrefix(s, t) <=> Len(s) <= Len(t) /\ \A i \in 1..Len(s) : s[i] = t[i]
<1>1. /\ Len(s) \in Nat /\ \A i \in 1..Len(s) : s[i] \in S
      /\ Len(t) \in Nat /\ \A i \in 1..Len(t) : t[i] \in S
  BY SeqFacts
<1>2. SUFFICES ASSUME Len(s) <= Len(t)
               PROVE  SubSeq(s, 1, Len(s)) = SubSeq(t, 1, Len(s)) <=> \A i \in 1..Len(s) : s[i] = t[i]
  BY DEF IsPrefix
<1> DEFINE m == Len(s)
           u == SubSeq(t, 1, m)
<1>3. SubSeq(s, 1, m) = s
  BY SubSeqFull
<1>4. u \in Seq(S) /\ Len(u) = m /\ \A i \in 1..m : u[i] = t[i]
  <2>1. \A i \in 1..m : t[i] \in S
    BY <1>1, <1>2
  <2>2. /\ u \in Seq(S)
        /\ Len(u) = IF 1 <= m THEN m - 1 + 1 ELSE 0
        /\ \A i \in 1..(m - 1 + 1) : u[i] = t[1 + i - 1]
    <3> HIDE DEF m
    <3>1. m \in Int
      BY <1>1 DEF m
    <3>2. QED
      BY <2>1, <3>1, SubSeqProperties
  <2>3. QED
    <3> HIDE DEF u
    <3>1. QED
    BY <2>2, <1>1
<1> HIDE DEF u
<1>5. s = u <=> \A i \in 1..Len(s) : s[i] = t[i]
  BY <1>4, SeqEqual
<1>6. QED
  BY <1>3, <1>5 DEF u

-----------------------------------------------------------------------------
(* Scans *)

\* The orders of rows by their keys and of clacks by their epochs; the rows a
\* prefix hits.
ByKey(S) == {p \in S \X S : Precedes(p[1].key, p[2].key)}
ByEpoch(S) == {p \in S \X S : p[1].epoch < p[2].epoch}
Hits(rows, prefix) == {r \in rows : IsPrefix(prefix, r.key)}

\* A prefix scan lists the rows that have the prefix in the order of their keys,
\* wherever that is an order.
LEMMA ScanLists ==
  ASSUME NEW rows, NEW prefix, IsFiniteSet(Hits(rows, prefix)),
         Orders(ByKey(Hits(rows, prefix)), Hits(rows, prefix))
  PROVE  Lists(PrefixScan(rows, prefix), Hits(rows, prefix), ByKey(Hits(rows, prefix)))
<1> DEFINE hits == Hits(rows, prefix)
<1>1. ASSUME NEW r \in hits PROVE {s \in hits : Precedes(s.key, r.key)} = Under(ByKey(hits), hits, r)
  BY DEF Under, ByKey
<1>2. PrefixScan(rows, prefix) = [i \in 1..Cardinality(hits) |->
        CHOOSE r \in hits : Cardinality({s \in hits : Precedes(s.key, r.key)}) = i - 1]
  BY DEF PrefixScan, Hits
<1>3. ASSUME NEW i
      PROVE  (CHOOSE r \in hits : Cardinality({s \in hits : Precedes(s.key, r.key)}) = i - 1)
             = CHOOSE r \in hits : Cardinality(Under(ByKey(hits), hits, r)) = i - 1
  <2> HIDE DEF hits
  <2>1. QED
    BY <1>1
<1>4. PrefixScan(rows, prefix) = Listing(hits, ByKey(hits))
  <2> HIDE DEF hits
  <2>1. QED
    BY <1>2, <1>3 DEF Listing
<1>5. QED
  BY <1>4, ListingLists

\* Epochs that are no two elements' order a set.
LEMMA ByEpochOrders ==
  ASSUME NEW S, \A c \in S : c.epoch \in Nat, \A c, d \in S : c.epoch = d.epoch => c = d
  PROVE  Orders(ByEpoch(S), S)
<1>1. \A c, d \in S : <<c, d>> \in ByEpoch(S) <=> c.epoch < d.epoch
  BY DEF ByEpoch
<1>2. \A c, d \in S : c.epoch < d.epoch \/ d.epoch < c.epoch \/ c.epoch = d.epoch
  OBVIOUS
<1>3. QED
  BY <1>1, <1>2 DEF Orders

\* Quotient and rest of a division.
LEMMA DivisionIs ==
  ASSUME NEW x \in Nat, NEW b \in Nat \ {0}
  PROVE  /\ x \div b \in Nat /\ x % b \in 0..(b - 1)
         /\ x = (x \div b) * b + (x % b)
  BY SMTT(30)

\* To shift by one byte more is to divide once more.
LEMMA DivisionTwice ==
  ASSUME NEW x \in Nat, NEW p \in Nat \ {0}, NEW b \in Nat \ {0}
  PROVE  x \div (b * p) = (x \div p) \div b
  BY SMTT(30)

\* A shift keeps the order.
LEMMA DivisionMonotone ==
  ASSUME NEW x \in Nat, NEW y \in Nat, NEW p \in Nat \ {0}, x <= y
  PROVE  x \div p <= y \div p
  BY SMTT(30)

\* The recursive function Power is what its equation says: such a function
\* exists, and two that satisfy the equation agree.
LEMMA PowerIs ==
  /\ \A n \in 0..Width : Power[n] \in Nat \ {0}
  /\ Power[0] = 1
  /\ \A n \in 1..Width : Power[n] = Base * Power[n - 1]
<1> USE CodecAssumption
<1> DEFINE X == Nat \ {0}
           step == [n \in 1..Width |-> [x \in X |-> Base * x]]
           Eq(g) == g = [n \in 0..Width |-> IF n = 0 THEN 1 ELSE Base * g[n - 1]]
<1>1. step \in [1..Width -> [X -> X]]
  OBVIOUS
<1>2. PICK g \in [0..Width -> X] : g[0] = 1 /\ \A n \in 1..Width : g[n] = step[n][g[n - 1]]
  <2> HIDE DEF step
  <2>1. 1 \in X /\ Width \in Nat
    OBVIOUS
  <2> HIDE DEF X
  <2>2. Recursive(X, 1, Width, step)
    BY <1>1, <2>1, Recursion
  <2>3. QED
    BY <2>2 DEF Recursive
<1>21. ASSUME NEW n \in 1..Width PROVE g[n] = Base * g[n - 1] /\ n - 1 \in 0..Width
  <2>1. g[n] = step[n][g[n - 1]] /\ g[n - 1] \in X /\ n - 1 \in 0..Width
    <3> HIDE DEF step, X
    <3>1. n - 1 \in 0..Width
      OBVIOUS
    <3>2. QED
      BY <3>1, <1>2
  <2>2. \A y \in X : step[n][y] = Base * y
    OBVIOUS
  <2> HIDE DEF step, X
  <2>3. QED
    BY <2>1, <2>2
<1>3. Eq(g)
  <2>1. ASSUME NEW n \in 0..Width
        PROVE  g[n] = IF n = 0 THEN 1 ELSE Base * g[n - 1]
    <3> HIDE DEF step
    <3>1. QED
      BY <1>2, <1>21
  <2> HIDE DEF step
  <2>2. g = [n \in 0..Width |-> g[n]]
    OBVIOUS
  <2>3. QED
    BY <2>1, <2>2
<1>4. Eq(Power)
  <2>1. Power = CHOOSE h : Eq(h)
    BY DEF Power
  <2> HIDE DEF Eq
  <2>2. QED
    BY <1>3, <2>1
<1>5. DOMAIN Power = 0..Width /\ \A n \in 0..Width : Power[n] = IF n = 0 THEN 1 ELSE Base * Power[n - 1]
  BY <1>4
<1>6. \A n \in 0..Width : g[n] = IF n = 0 THEN 1 ELSE Base * g[n - 1]
  BY <1>3
<1> HIDE DEF step, Eq
<1>7. ASSUME NEW n \in 0..Width PROVE Power[n] = g[n]
  <2> DEFINE bad == {i \in 0..Width : Power[i] # g[i]}
  <2> SUFFICES ASSUME bad # {} PROVE FALSE
    OBVIOUS
  <2>1. PICK m \in bad : \A d \in bad : m <= d
    <3>1. bad \in SUBSET Nat
      OBVIOUS
    <3> HIDE DEF bad
    <3>2. QED
      BY <3>1, SmallestNumber
  <2>2. m # 0
    BY <1>5, <1>6
  <2>3. m - 1 \in 0..Width /\ m - 1 \notin bad
    BY <2>1, <2>2
  <2>4. Power[m - 1] = g[m - 1]
    BY <2>3
  <2>5. QED
    BY <2>2, <2>4, <1>5, <1>6
<1>8. \A n \in 0..Width : g[n] \in Nat \ {0}
  BY <1>2
<1>9. QED
  BY <1>5, <1>7, <1>8

-----------------------------------------------------------------------------
(* The keys of epochs *)

\* What is left of an epoch above its last Width - i bytes.
Quotient(e, i) == e \div Power[Width - i]

\* The bytes of an epoch's key, each the rest of a quotient by Base.
LEMMA Digits ==
  ASSUME NEW e \in Nat
  PROVE  /\ EpochKey(e) \in Seq(Byte) /\ Len(EpochKey(e)) = Width
         /\ \A i \in 0..Width : Quotient(e, i) \in Nat
         /\ Quotient(e, Width) = e
         /\ \A i \in 1..Width : EpochKey(e)[i] = Quotient(e, i) % Base
         /\ \A i \in 1..Width : Quotient(e, i) = Quotient(e, i - 1) * Base + EpochKey(e)[i]
<1> USE CodecAssumption
<1>1. ASSUME NEW i \in 0..Width
      PROVE  Width - i \in 0..Width /\ Power[Width - i] \in Nat \ {0} /\ Quotient(e, i) \in Nat
  <2>1. Width - i \in 0..Width
    OBVIOUS
  <2>2. Power[Width - i] \in Nat \ {0}
    BY <2>1, PowerIs
  <2>3. QED
    BY <2>1, <2>2, DivisionIs DEF Quotient
<1>2. Quotient(e, Width) = e
  <2>1. Width - Width = 0 /\ Power[0] = 1
    BY PowerIs
  <2>2. QED
    BY <2>1 DEF Quotient
<1>3. ASSUME NEW i \in 1..Width PROVE EpochKey(e)[i] = Quotient(e, i) % Base
  BY DEF EpochKey, Quotient
<1>4. ASSUME NEW i \in 1..Width PROVE Quotient(e, i) % Base \in Byte
  <2>1. Quotient(e, i) \in Nat
    BY <1>1
  <2>2. QED
    BY <2>1, DivisionIs DEF Byte
<1>5. EpochKey(e) \in [1..Width -> Byte]
  <2>1. \A i \in 1..Width : EpochKey(e)[i] \in Byte
    BY <1>3, <1>4
  <2>2. EpochKey(e) = [i \in 1..Width |-> EpochKey(e)[i]]
    BY DEF EpochKey
  <2>3. QED
    BY <2>1, <2>2
<1>6. EpochKey(e) \in Seq(Byte) /\ Len(EpochKey(e)) = Width
  BY <1>5, ASeq
<1>7. ASSUME NEW i \in 1..Width
      PROVE  Quotient(e, i) = Quotient(e, i - 1) * Base + EpochKey(e)[i]
  <2>1. i \in 0..Width /\ i - 1 \in 0..Width /\ Width - (i - 1) \in 1..Width /\ (Width - (i - 1)) - 1 = Width - i
    OBVIOUS
  <2>2. Power[Width - (i - 1)] = Base * Power[Width - i]
    BY <2>1, PowerIs
  <2>3. Quotient(e, i - 1) = Quotient(e, i) \div Base
    BY <2>1, <2>2, <1>1, DivisionTwice DEF Quotient
  <2>4. Quotient(e, i) \in Nat
    BY <1>1, <2>1
  <2>5. Quotient(e, i) = (Quotient(e, i) \div Base) * Base + (Quotient(e, i) % Base)
    BY <2>4, DivisionIs
  <2>6. QED
    BY <2>3, <2>5, <1>3
<1>8. QED
  BY <1>1, <1>2, <1>3, <1>6, <1>7

\* No bits of an epoch are above the bytes of its key.
LEMMA FirstQuotient ==
  ASSUME NEW e \in Nat, e < Power[Width]
  PROVE  Quotient(e, 0) = 0
<1>1. Power[Width] \in Nat \ {0}
  BY PowerIs, CodecAssumption
<1>2. Quotient(e, 0) = e \div Power[Width]
  BY CodecAssumption DEF Quotient
<1> DEFINE p == Power[Width]
<1> HIDE DEF p
<1>3. p \in Nat \ {0} /\ e < p
  BY <1>1 DEF p
<1>4. e \div p = 0
  BY <1>3, SMTT(30)
<1>5. QED
  BY <1>2, <1>4 DEF p

\* key_to_epoch undoes epoch_key.
THEOREM KeyRoundTrip ==
  ASSUME NEW e \in Nat, e < Power[Width]
  PROVE  KeyToEpoch(EpochKey(e)) = e
<1> USE CodecAssumption
<1> DEFINE key == EpochKey(e)
           Eq(v) == v = [i \in 0..Width |-> IF i = 0 THEN 0 ELSE v[i - 1] * Base + key[i]]
           w == [i \in 0..Width |-> Quotient(e, i)]
           value == CHOOSE v : Eq(v)
<1>1. Eq(w)
  <2>1. ASSUME NEW i \in 0..Width
        PROVE  w[i] = IF i = 0 THEN 0 ELSE w[i - 1] * Base + key[i]
    <3>1. CASE i = 0
      BY <3>1, FirstQuotient
    <3>2. CASE i # 0
      <4>1. i \in 1..Width /\ i - 1 \in 0..Width
        BY <3>2
      <4>2. Quotient(e, i) = Quotient(e, i - 1) * Base + key[i]
        BY <4>1, Digits
      <4>3. QED
        BY <4>1, <4>2, <3>2
    <3>3. QED
      BY <3>1, <3>2
  <2> HIDE DEF key
  <2>2. w = [i \in 0..Width |-> w[i]]
    OBVIOUS
  <2> HIDE DEF w
  <2>3. QED
    BY <2>1, <2>2
<1>2. Eq(value)
  <2> HIDE DEF Eq, w
  <2>1. QED
    BY <1>1
<1>3. KeyToEpoch(key) = value[Width]
  <2>1. Len(key) = Width
    BY Digits
  <2>2. ~(Len(key) < Width)
    BY <2>1
  <2> HIDE DEF key
  <2>3. KeyToEpoch(key) = IF Len(key) < Width THEN 0 ELSE value[Width]
    BY DEF KeyToEpoch
  <2> HIDE DEF value
  <2>4. QED
    BY <2>2, <2>3
<1> HIDE DEF value
<1>4. \A i \in 0..Width : value[i] = IF i = 0 THEN 0 ELSE value[i - 1] * Base + key[i]
  BY <1>2
<1>5. \A i \in 0..Width : w[i] = IF i = 0 THEN 0 ELSE w[i - 1] * Base + key[i]
  BY <1>1
<1>6. w[Width] = e
  BY Digits
<1> HIDE DEF Eq, w, key
<1>7. value[Width] = w[Width]
  <2> DEFINE bad == {i \in 0..Width : value[i] # w[i]}
  <2> SUFFICES ASSUME bad # {} PROVE FALSE
    OBVIOUS
  <2>1. PICK m \in bad : \A d \in bad : m <= d
    <3>1. bad \in SUBSET Nat
      OBVIOUS
    <3> HIDE DEF bad
    <3>2. QED
      BY <3>1, SmallestNumber
  <2>2. m # 0
    BY <1>4, <1>5
  <2>3. m - 1 \in 0..Width /\ m - 1 \notin bad
    BY <2>1, <2>2
  <2>4. value[m - 1] = w[m - 1]
    BY <2>3
  <2>5. QED
    BY <2>2, <2>4, <1>4, <1>5
<1>8. QED
  BY <1>3, <1>6, <1>7 DEF key

-----------------------------------------------------------------------------
(* The order of keys *)

\* The first key is less at byte i, after the same bytes; or it ends first.
Below(k, l, i) ==
  i \in 1..Len(k) /\ i \in 1..Len(l) /\ k[i] < l[i] /\ \A j \in 1..(i - 1) : k[j] = l[j]
Begins(k, l) == Len(k) < Len(l) /\ \A i \in 1..Len(k) : k[i] = l[i]

\* The order of the storage engine, element by element.
LEMMA PrecedesIs ==
  ASSUME NEW k \in Seq(Nat), NEW l \in Seq(Nat)
  PROVE  Precedes(k, l) <=> Begins(k, l) \/ \E i \in Nat : Below(k, l, i)
<1>1. /\ Len(k) \in Nat /\ DOMAIN k = 1..Len(k) /\ \A i \in 1..Len(k) : k[i] \in Nat
      /\ Len(l) \in Nat /\ DOMAIN l = 1..Len(l) /\ \A i \in 1..Len(l) : l[i] \in Nat
  BY SeqFacts
<1>0. Len(k) \in Nat /\ Len(l) \in Nat
  BY <1>1
<1>2. IsStrictPrefix(k, l) <=> Begins(k, l)
  <2>1. IsPrefix(k, l) <=> Len(k) <= Len(l) /\ \A i \in 1..Len(k) : k[i] = l[i]
    <3> DEFINE begins(s, t) == Len(s) <= Len(t) /\ \A i \in 1..Len(s) : s[i] = t[i]
    <3>1. \A S : \A s, t \in Seq(S) : IsPrefix(s, t) <=> begins(s, t)
      BY PrefixIs
    <3> HIDE DEF begins
    <3>2. IsPrefix(k, l) <=> begins(k, l)
      BY <3>1
    <3>3. QED
      BY <3>2 DEF begins
  <2>2. k = l <=> Len(k) = Len(l) /\ \A i \in 1..Len(k) : k[i] = l[i]
    BY SeqEqual
  <2>3. Len(k) <= Len(l) <=> Len(k) < Len(l) \/ Len(k) = Len(l)
    BY <1>0
  <2>4. Len(k) = Len(l) => ~(Len(k) < Len(l))
    BY <1>0
  <2>5. QED
    BY <2>1, <2>2, <2>3, <2>4 DEF IsStrictPrefix, Begins
<1>3. ASSUME NEW i \in 1..Len(k), i \in 1..Len(l)
      PROVE  SubSeq(k, 1, i - 1) = SubSeq(l, 1, i - 1) <=> \A j \in 1..(i - 1) : k[j] = l[j]
  <2> DEFINE n == i - 1
             u == SubSeq(k, 1, n)
             v == SubSeq(l, 1, n)
  <2>1. n \in Nat /\ (\A j \in 1..n : j \in 1..Len(k) /\ j \in 1..Len(l)) /\ n \in Int
    BY <1>0, <1>3
  <2>11. \A j \in 1..n : k[j] \in Nat /\ l[j] \in Nat
    BY <1>1, <2>1
  <2> HIDE DEF n
  <2>2. /\ u \in Seq(Nat) /\ Len(u) = IF 1 <= n THEN n - 1 + 1 ELSE 0
        /\ \A j \in 1..(n - 1 + 1) : u[j] = k[1 + j - 1]
    BY <2>1, <2>11, SubSeqProperties
  <2>3. /\ v \in Seq(Nat) /\ Len(v) = IF 1 <= n THEN n - 1 + 1 ELSE 0
        /\ \A j \in 1..(n - 1 + 1) : v[j] = l[1 + j - 1]
    BY <2>1, <2>11, SubSeqProperties
  <2> HIDE DEF u, v
  <2>4. Len(u) = n /\ Len(v) = n /\ \A j \in 1..n : u[j] = k[j] /\ v[j] = l[j]
    BY <2>1, <2>2, <2>3
  <2>5. u = v <=> \A j \in 1..n : u[j] = v[j]
    BY <2>2, <2>3, <2>4, SeqEqual
  <2>6. u = v <=> \A j \in 1..n : k[j] = l[j]
    BY <2>4, <2>5
  <2>7. QED
    BY <2>6 DEF u, v, n
<1>4. (\E i \in DOMAIN k \cap DOMAIN l : k[i] < l[i] /\ SubSeq(k, 1, i - 1) = SubSeq(l, 1, i - 1))
        <=> \E i \in Nat : Below(k, l, i)
  <2>1. ASSUME NEW i \in DOMAIN k \cap DOMAIN l, k[i] < l[i], SubSeq(k, 1, i - 1) = SubSeq(l, 1, i - 1)
        PROVE  i \in Nat /\ Below(k, l, i)
    BY <2>1, <1>1, <1>3 DEF Below
  <2>2. ASSUME NEW i \in Nat, Below(k, l, i)
        PROVE  i \in DOMAIN k \cap DOMAIN l /\ k[i] < l[i] /\ SubSeq(k, 1, i - 1) = SubSeq(l, 1, i - 1)
    BY <2>2, <1>1, <1>3 DEF Below
  <2>3. QED
    BY <2>1, <2>2
<1>5. QED
  BY <1>2, <1>4 DEF Precedes

\* It is a strict total order of the keys.
LEMMA PrecedesOrders ==
  /\ \A k \in Seq(Nat) : ~Precedes(k, k)
  /\ \A k, l, m \in Seq(Nat) : Precedes(k, l) /\ Precedes(l, m) => Precedes(k, m)
  /\ \A k, l \in Seq(Nat) : k = l \/ Precedes(k, l) \/ Precedes(l, k)
<1>1. ASSUME NEW k \in Seq(Nat) PROVE ~Precedes(k, k)
  <2>1. Len(k) \in Nat /\ \A i \in 1..Len(k) : k[i] \in Nat
    BY SeqFacts
  <2>2. QED
    BY <2>1, PrecedesIs DEF Begins, Below
<1>2. ASSUME NEW k \in Seq(Nat), NEW l \in Seq(Nat), NEW m \in Seq(Nat),
             Precedes(k, l), Precedes(l, m)
      PROVE  Precedes(k, m)
  <2>1. /\ Len(k) \in Nat /\ \A i \in 1..Len(k) : k[i] \in Nat
        /\ Len(l) \in Nat /\ \A i \in 1..Len(l) : l[i] \in Nat
        /\ Len(m) \in Nat /\ \A i \in 1..Len(m) : m[i] \in Nat
    BY SeqFacts
  <2>10. Len(k) \in Nat /\ Len(l) \in Nat /\ Len(m) \in Nat
    BY <2>1
  <2>2. SUFFICES Begins(k, m) \/ \E i \in Nat : Below(k, m, i)
    BY PrecedesIs
  <2>3. CASE Begins(k, l) /\ Begins(l, m)
    BY <2>1, <2>3 DEF Begins
  <2>4. ASSUME Begins(k, l), NEW i \in Nat, Below(l, m, i) PROVE Begins(k, m) \/ \E n \in Nat : Below(k, m, n)
    <3>1. CASE i \in 1..Len(k)
      <4>1. Below(k, m, i)
        BY <2>1, <2>4, <3>1 DEF Begins, Below
      <4>2. QED
        BY <4>1
    <3>2. CASE i \notin 1..Len(k)
      <4>1. Begins(k, m)
        BY <2>1, <2>4, <3>2 DEF Begins, Below
      <4>2. QED
        BY <4>1
    <3>3. QED
      BY <3>1, <3>2
  <2>5. ASSUME NEW i \in Nat, Below(k, l, i), Begins(l, m) PROVE \E n \in Nat : Below(k, m, n)
    <3>1. Below(k, m, i)
      BY <2>1, <2>5 DEF Begins, Below
    <3>2. QED
      BY <3>1
  <2>6. ASSUME NEW i \in Nat, Below(k, l, i), NEW j \in Nat, Below(l, m, j) PROVE \E n \in Nat : Below(k, m, n)
    <3>1. CASE i <= j
      <4>1. i \in 1..Len(k) /\ i \in 1..Len(l) /\ i \in 1..Len(m)
        BY <2>10, <2>6, <3>1 DEF Below
      <4>2. \A n \in 1..(i - 1) : n \in 1..(j - 1)
        BY <2>10, <2>6, <3>1
      <4>3. \A n \in 1..(i - 1) : k[n] = m[n]
        BY <4>2, <2>6 DEF Below
      <4>4. k[i] < m[i]
        <5>1. k[i] < l[i] /\ k[i] \in Nat /\ l[i] \in Nat /\ m[i] \in Nat
          BY <4>1, <2>1, <2>6 DEF Below
        <5>2. CASE i = j
          <6>1. l[i] < m[i]
            BY <5>2, <2>6 DEF Below
          <6>2. QED
            BY <5>1, <6>1
        <5>3. CASE i # j
          <6>1. i \in 1..(j - 1)
            BY <5>3, <4>1, <3>1, <2>10
          <6>2. l[i] = m[i]
            BY <6>1, <2>6 DEF Below
          <6>3. QED
            BY <5>1, <6>2
        <5>4. QED
          BY <5>2, <5>3
      <4>5. Below(k, m, i)
        BY <4>1, <4>3, <4>4 DEF Below
      <4>6. QED
        BY <4>5
    <3>2. CASE j < i
      <4>1. j \in 1..Len(k) /\ j \in 1..Len(l) /\ j \in 1..Len(m) /\ j \in 1..(i - 1)
        BY <2>10, <2>6, <3>2 DEF Below
      <4>2. \A n \in 1..(j - 1) : n \in 1..(i - 1)
        BY <2>10, <2>6, <3>2
      <4>3. \A n \in 1..(j - 1) : k[n] = m[n]
        BY <4>2, <2>6 DEF Below
      <4>4. k[j] < m[j]
        BY <4>1, <2>6 DEF Below
      <4>5. Below(k, m, j)
        BY <4>1, <4>3, <4>4 DEF Below
      <4>6. QED
        BY <4>5
    <3>3. QED
      BY <3>1, <3>2
  <2>7. QED
    BY <1>2, <2>3, <2>4, <2>5, <2>6, PrecedesIs
<1>3. ASSUME NEW k \in Seq(Nat), NEW l \in Seq(Nat), k # l
      PROVE  Precedes(k, l) \/ Precedes(l, k)
  <2>1. /\ Len(k) \in Nat /\ \A i \in 1..Len(k) : k[i] \in Nat
        /\ Len(l) \in Nat /\ \A i \in 1..Len(l) : l[i] \in Nat
    BY SeqFacts
  <2> DEFINE differ == {i \in 1..Len(k) : i \in 1..Len(l) /\ k[i] # l[i]}
  <2>2. CASE differ = {}
    <3>1. \A i \in 1..Len(k) : i \in 1..Len(l) => k[i] = l[i]
      BY <2>2
    <3>2. Len(k) # Len(l)
      BY <3>1, <1>3, SeqEqual
    <3>3. Begins(k, l) \/ Begins(l, k)
      BY <2>1, <3>1, <3>2 DEF Begins
    <3>4. QED
      BY <3>3, PrecedesIs
  <2>3. CASE differ # {}
    <3>1. PICK i \in differ : \A j \in differ : i <= j
      <4>1. differ \in SUBSET Nat
        OBVIOUS
      <4> HIDE DEF differ
      <4>2. QED
        BY <2>3, <4>1, SmallestNumber
    <3>2. i \in Nat /\ i \in 1..Len(k) /\ i \in 1..Len(l) /\ k[i] # l[i]
      OBVIOUS
    <3>3. ASSUME NEW j \in 1..(i - 1) PROVE k[j] = l[j]
      <4>1. j \in 1..Len(k) /\ j \in 1..Len(l) /\ ~(i <= j)
        BY <3>2, <2>1
      <4>2. QED
        BY <4>1, <3>1
    <3> HIDE DEF differ
    <3>4. k[i] < l[i] \/ l[i] < k[i]
      BY <3>2, <2>1
    <3>5. Below(k, l, i) \/ Below(l, k, i)
      BY <3>2, <3>3, <3>4 DEF Below
    <3>6. QED
      BY <3>2, <3>5, PrecedesIs
  <2>4. QED
    BY <2>2, <2>3
<1>4. QED
  BY <1>1, <1>2, <1>3

\* It is kept behind a common beginning.
LEMMA PrecedesBehind ==
  ASSUME NEW p \in Seq(Nat), NEW k \in Seq(Nat), NEW l \in Seq(Nat), Precedes(k, l)
  PROVE  Precedes(p \o k, p \o l)
<1>1. /\ Len(k) \in Nat /\ \A i \in 1..Len(k) : k[i] \in Nat
      /\ Len(l) \in Nat /\ \A i \in 1..Len(l) : l[i] \in Nat
      /\ Len(p) \in Nat
  BY SeqFacts
<1> DEFINE u == p \o k
           v == p \o l
<1>2. /\ u \in Seq(Nat) /\ Len(u) = Len(p) + Len(k)
      /\ \A i \in 1..(Len(p) + Len(k)) : u[i] = IF i <= Len(p) THEN p[i] ELSE k[i - Len(p)]
  BY ConcatProperties
<1>3. /\ v \in Seq(Nat) /\ Len(v) = Len(p) + Len(l)
      /\ \A i \in 1..(Len(p) + Len(l)) : v[i] = IF i <= Len(p) THEN p[i] ELSE l[i - Len(p)]
  BY ConcatProperties
<1> HIDE DEF u, v
<1>4. CASE Begins(k, l)
  <2>1. Len(u) < Len(v)
    BY <1>1, <1>2, <1>3, <1>4 DEF Begins
  <2>2. ASSUME NEW i \in 1..Len(u) PROVE u[i] = v[i]
    <3>0. Len(k) \in Nat /\ Len(l) \in Nat /\ Len(p) \in Nat /\ Len(k) < Len(l) /\ Len(u) = Len(p) + Len(k)
      BY <1>1, <1>2, <1>4 DEF Begins
    <3>1. i \in 1..(Len(p) + Len(k)) /\ i \in 1..(Len(p) + Len(l)) /\ (~(i <= Len(p)) => i - Len(p) \in 1..Len(k))
      BY <3>0
    <3>2. QED
      BY <3>1, <1>2, <1>3, <1>4 DEF Begins
  <2>3. QED
    BY <2>1, <2>2, <1>2, <1>3, PrecedesIs DEF Begins, u, v
<1>5. ASSUME NEW i \in Nat, Below(k, l, i) PROVE Precedes(u, v)
  <2> DEFINE n == Len(p) + i
  <2>1. n \in Nat /\ n \in 1..(Len(p) + Len(k)) /\ n \in 1..(Len(p) + Len(l)) /\ ~(n <= Len(p)) /\ n - Len(p) = i
    BY <1>1, <1>5 DEF Below
  <2>2. u[n] = k[i] /\ v[n] = l[i]
    BY <2>1, <1>2, <1>3
  <2>3. ASSUME NEW j \in 1..(n - 1) PROVE u[j] = v[j]
    <3>1. j \in 1..(Len(p) + Len(k)) /\ j \in 1..(Len(p) + Len(l)) /\ (~(j <= Len(p)) => j - Len(p) \in 1..(i - 1))
      BY <1>1, <2>1
    <3>2. QED
      BY <3>1, <1>2, <1>3, <1>5 DEF Below
  <2> HIDE DEF n
  <2>4. Below(u, v, n)
    BY <2>1, <2>2, <2>3, <1>2, <1>3, <1>5 DEF Below
  <2>5. QED
    BY <2>1, <2>4, <1>2, <1>3, PrecedesIs
<1>6. QED
  BY <1>4, <1>5, PrecedesIs DEF u, v

\* Keys of bytes are keys of numbers.
LEMMA BytesAreNumbers ==
  /\ Byte \subseteq Nat
  /\ \A s \in Seq(Byte) : s \in Seq(Nat)
  BY CodecAssumption, SeqMonotonic DEF Byte

\* The bytes of the keys order the epochs as the numbers do.
THEOREM KeysAscend ==
  ASSUME NEW e \in Nat, NEW f \in Nat, e < Power[Width], f < Power[Width]
  PROVE  Precedes(EpochKey(e), EpochKey(f)) <=> e < f
<1> USE CodecAssumption
<1>1. ASSUME NEW d \in Nat PROVE EpochKey(d) \in Seq(Nat) /\ Len(EpochKey(d)) = Width
  BY Digits, BytesAreNumbers
<1>2. ASSUME NEW c \in Nat, NEW d \in Nat, c < d, c < Power[Width], d < Power[Width]
      PROVE  Precedes(EpochKey(c), EpochKey(d))
  <2> DEFINE differ == {i \in 0..Width : Quotient(c, i) # Quotient(d, i)}
  <2>1. Width \in differ
    BY <1>2, Digits
  <2>2. PICK i \in differ : \A j \in differ : i <= j
    <3>1. differ \in SUBSET Nat
      OBVIOUS
    <3> HIDE DEF differ
    <3>2. QED
      BY <2>1, <3>1, SmallestNumber
  <2>3. 0 \notin differ
    BY <1>2, FirstQuotient
  <2>4. i \in 1..Width /\ i \in Nat
    BY <2>3
  <2>5. \A j \in 0..(i - 1) : Quotient(c, j) = Quotient(d, j)
    BY <2>2, <2>4
  <2> HIDE DEF differ
  <2>6. ASSUME NEW j \in 1..(i - 1) PROVE EpochKey(c)[j] = EpochKey(d)[j]
    <3>1. j \in 1..Width /\ j \in 0..(i - 1)
      BY <2>4
    <3>2. QED
      BY <3>1, <2>5, Digits
  <2>7. Quotient(c, i) <= Quotient(d, i)
    <3>1. Width - i \in 0..Width
      BY <2>4
    <3>2. Power[Width - i] \in Nat \ {0}
      BY <3>1, PowerIs
    <3>3. QED
      BY <3>2, <1>2, DivisionMonotone DEF Quotient
  <2>8. /\ Quotient(c, i) \in Nat /\ Quotient(d, i) \in Nat /\ Quotient(c, i) # Quotient(d, i)
        /\ EpochKey(c)[i] \in Nat /\ EpochKey(d)[i] \in Nat /\ Quotient(c, i - 1) \in Nat
        /\ Quotient(c, i) = Quotient(c, i - 1) * Base + EpochKey(c)[i]
        /\ Quotient(d, i) = Quotient(c, i - 1) * Base + EpochKey(d)[i]
    <3>1. Quotient(c, i) # Quotient(d, i)
      BY <2>2 DEF differ
    <3>2. i - 1 \in 0..Width /\ i \in 0..Width /\ i - 1 \in 0..(i - 1)
      BY <2>4
    <3>3. EpochKey(c)[i] \in Nat /\ EpochKey(d)[i] \in Nat
      BY <1>1, <2>4, SeqFacts
    <3>4. QED
      BY <3>1, <3>2, <3>3, <2>4, <2>5, Digits
  <2>9. EpochKey(c)[i] < EpochKey(d)[i]
    <3> DEFINE q == Quotient(c, i - 1) * Base
    <3>1. q \in Nat
      BY <2>8
    <3>2. Quotient(c, i) = q + EpochKey(c)[i] /\ Quotient(d, i) = q + EpochKey(d)[i]
      BY <2>8
    <3> HIDE DEF q
    <3>3. QED
      BY <3>1, <3>2, <2>7, <2>8
  <2>10. Below(EpochKey(c), EpochKey(d), i)
    BY <2>4, <2>6, <2>9, <1>1 DEF Below
  <2>11. QED
    BY <2>4, <2>10, <1>1, PrecedesIs
<1>3. CASE e < f
  BY <1>3, <1>2
<1>4. CASE e = f
  BY <1>4, <1>1, PrecedesOrders
<1>5. CASE f < e
  <2>1. Precedes(EpochKey(f), EpochKey(e))
    BY <1>5, <1>2
  <2>2. ~Precedes(EpochKey(e), EpochKey(f))
    BY <2>1, <1>1, PrecedesOrders
  <2>3. QED
    BY <2>2, <1>5
<1>6. QED
  BY <1>3, <1>4, <1>5

-----------------------------------------------------------------------------
(* Frames *)

\* What lies one after the other is found again at the lengths.
LEMMA Cut ==
  ASSUME NEW p \in Seq(Byte), NEW q \in Seq(Byte), NEW r \in Seq(Byte)
  PROVE  /\ p \o q \o r \in Seq(Byte) /\ Len(p \o q \o r) = Len(p) + Len(q) + Len(r)
         /\ SubSeq(p \o q \o r, 1, Len(p)) = p
         /\ SubSeq(p \o q \o r, Len(p) + 1, Len(p) + Len(q)) = q
         /\ SubSeq(p \o q \o r, Len(p) + Len(q) + 1, Len(p) + Len(q) + Len(r)) = r
<1>1. Len(p) \in Nat /\ Len(q) \in Nat /\ Len(r) \in Nat
  BY SeqFacts
<1> DEFINE u == p \o q
           v == u \o r
<1>2. /\ u \in Seq(Byte) /\ Len(u) = Len(p) + Len(q)
      /\ \A i \in 1..(Len(p) + Len(q)) : u[i] = IF i <= Len(p) THEN p[i] ELSE q[i - Len(p)]
  BY ConcatProperties
<1> HIDE DEF u
<1>3. /\ v \in Seq(Byte) /\ Len(v) = Len(u) + Len(r)
      /\ \A i \in 1..(Len(u) + Len(r)) : v[i] = IF i <= Len(u) THEN u[i] ELSE r[i - Len(u)]
  <2>1. u \in Seq(Byte) /\ r \in Seq(Byte)
    BY <1>2
  <2>2. QED
    BY <2>1, ConcatProperties
<1> HIDE DEF v
<1>4. Len(v) = Len(p) + Len(q) + Len(r)
  BY <1>2, <1>3
<1>5. ASSUME NEW m \in Nat, NEW x \in Seq(Byte), m + Len(x) <= Len(v),
             \A i \in 1..Len(x) : v[m + i] = x[i]
      PROVE  SubSeq(v, m + 1, m + Len(x)) = x
  <2> DEFINE n == Len(x)
             y == SubSeq(v, m + 1, m + n)
  <2>1. n \in Nat /\ Len(v) \in Nat /\ m + n <= Len(v)
    BY <1>3, <1>5, SeqFacts
  <2>2. \A i \in (m + 1)..(m + n) : v[i] \in Byte
    <3>1. \A i \in (m + 1)..(m + n) : i \in 1..Len(v)
      <4> HIDE DEF n
      <4>1. QED
        BY <2>1
    <3>2. QED
      BY <3>1, <1>3, SeqFacts
  <2> HIDE DEF n
  <2>3. m + 1 \in Int /\ m + n \in Int
    BY <2>1
  <2>4. /\ y \in Seq(Byte) /\ Len(y) = IF m + 1 <= m + n THEN (m + n) - (m + 1) + 1 ELSE 0
        /\ \A i \in 1..((m + n) - (m + 1) + 1) : y[i] = v[m + 1 + i - 1]
    BY <2>2, <2>3, SubSeqProperties
  <2> HIDE DEF y
  <2>5. Len(y) = n /\ \A i \in 1..n : y[i] = v[m + i]
    <3>1. Len(y) = n /\ (m + n) - (m + 1) + 1 = n /\ \A i \in 1..n : m + 1 + i - 1 = m + i
      BY <2>1, <2>4
    <3>2. QED
      BY <3>1, <2>4
  <2>6. \A i \in 1..n : y[i] = x[i]
    BY <2>5, <1>5 DEF n
  <2>7. y = x
    BY <2>4, <2>5, <2>6, SeqEqual DEF n
  <2>8. QED
    BY <2>7 DEF y, n
<1>6. SubSeq(v, 1, Len(p)) = p
  <2>1. \A i \in 1..Len(p) : v[0 + i] = p[i]
    <3>1. \A i \in 1..Len(p) : 0 + i = i /\ i \in 1..(Len(p) + Len(q)) /\ i \in 1..(Len(u) + Len(r)) /\ i <= Len(u) /\ i <= Len(p)
      BY <1>1, <1>2
    <3>2. QED
      BY <3>1, <1>2, <1>3
  <2>2. 0 + Len(p) <= Len(v) /\ 0 \in Nat /\ 0 + 1 = 1 /\ 0 + Len(p) = Len(p)
    BY <1>1, <1>4
  <2>3. SubSeq(v, 0 + 1, 0 + Len(p)) = p
    BY <1>5, <2>1, <2>2
  <2>4. QED
    BY <2>2, <2>3
<1>7. SubSeq(v, Len(p) + 1, Len(p) + Len(q)) = q
  <2>1. \A i \in 1..Len(q) : v[Len(p) + i] = q[i]
    <3>1. \A i \in 1..Len(q) : /\ Len(p) + i \in 1..(Len(p) + Len(q)) /\ Len(p) + i \in 1..(Len(u) + Len(r))
                               /\ Len(p) + i <= Len(u) /\ ~(Len(p) + i <= Len(p)) /\ (Len(p) + i) - Len(p) = i
      BY <1>1, <1>2
    <3>2. QED
      BY <3>1, <1>2, <1>3
  <2>2. Len(p) + Len(q) <= Len(v) /\ Len(p) \in Nat
    BY <1>1, <1>4
  <2>3. QED
    BY <1>5, <2>1, <2>2
<1>8. SubSeq(v, Len(p) + Len(q) + 1, Len(p) + Len(q) + Len(r)) = r
  <2>1. \A i \in 1..Len(r) : v[Len(p) + Len(q) + i] = r[i]
    <3>1. \A i \in 1..Len(r) : /\ Len(p) + Len(q) + i \in 1..(Len(u) + Len(r))
                               /\ ~(Len(p) + Len(q) + i <= Len(u)) /\ (Len(p) + Len(q) + i) - Len(u) = i
      BY <1>1, <1>2
    <3>2. QED
      BY <3>1, <1>3
  <2>2. Len(p) + Len(q) + Len(r) <= Len(v) /\ Len(p) + Len(q) \in Nat
    BY <1>1, <1>4
  <2>3. QED
    BY <1>5, <2>1, <2>2
<1>9. QED
  BY <1>3, <1>4, <1>6, <1>7, <1>8 DEF u, v
=============================================================================

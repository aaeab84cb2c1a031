----------------------------- MODULE CodexProofs -----------------------------
(***************************************************************************)
(* Theorems about what a provider is shown, for any number of messages and *)
(* failures: of CodexSession, its types, and that the model answers to the *)
(* whole history, also when only what follows the baseline is sent; of     *)
(* ProviderTurn, that a message is shown once and results are shown.       *)
(* First the facts about numbers and sequences that these proofs and those *)
(* of the modules that extend this one rest on.                            *)
(***************************************************************************)
EXTENDS CodexSession, ProviderTurn, Subsequence,
        FiniteSetTheorems, WellFoundedInduction, TLAPS

-----------------------------------------------------------------------------
(* Numbers, sequences and their parts                                      *)

LessThan == {ss \in Nat \X Nat : ss[1] < ss[2]}

\* A set of numbers that is not empty has a least one.
LEMMA Least ==
  ASSUME NEW T \in SUBSET Nat, T # {}
  PROVE  \E x \in T : \A y \in T : x <= y
<1>1. IsWellFoundedOn(LessThan, Nat)
  BY NatLessThanWellFounded DEF LessThan, OpToRel
<1>2. PICK x \in T : \A y \in T : ~(<<y, x>> \in LessThan)
  BY <1>1, WFMin
<1>3. ASSUME NEW y \in T PROVE x <= y
  <2>1. x \in Nat /\ y \in Nat
    OBVIOUS
  <2>2. <<y, x>> \notin LessThan
    BY <1>2
  <2>3. ~(y < x)
    BY <2>1, <2>2 DEF LessThan
  <2> QED BY <2>1, <2>3
<1> QED BY <1>3

\* The least of some numbers.
LEMMA MinIs ==
  ASSUME NEW T \in SUBSET Nat, T # {}
  PROVE  Min(T) \in T /\ \A y \in T : Min(T) <= y
BY Least DEF Min

\* Two sequences that are as long and agree at every place are one.
LEMMA SameSeq ==
  ASSUME NEW S, NEW s \in Seq(S), NEW t \in Seq(S), Len(s) = Len(t),
         \A i \in 1..Len(s) : s[i] = t[i]
  PROVE  s = t
OBVIOUS

\* What is in two sequences that are joined.
LEMMA JoinIs ==
  ASSUME NEW S, NEW s \in Seq(S), NEW t \in Seq(S)
  PROVE  /\ s \o t \in Seq(S) /\ Len(s \o t) = Len(s) + Len(t)
         /\ \A j \in 1..(Len(s) + Len(t)) : (s \o t)[j] = IF j <= Len(s) THEN s[j] ELSE t[j - Len(s)]
OBVIOUS

\* A sequence with one more at its end.
LEMMA AppendIs ==
  ASSUME NEW S, NEW s \in Seq(S), NEW e \in S
  PROVE  /\ Append(s, e) \in Seq(S) /\ Len(Append(s, e)) = Len(s) + 1
         /\ Append(s, e)[Len(s) + 1] = e /\ \A j \in 1..Len(s) : Append(s, e)[j] = s[j]
OBVIOUS

\* The end of a sequence.
LEMMA EndIs ==
  ASSUME NEW S, NEW s \in Seq(S), NEW m \in 1..(Len(s) + 1)
  PROVE  /\ SubSeq(s, m, Len(s)) \in Seq(S) /\ Len(SubSeq(s, m, Len(s))) = Len(s) + 1 - m
         /\ \A j \in 1..(Len(s) + 1 - m) : SubSeq(s, m, Len(s))[j] = s[m + j - 1]
OBVIOUS

\* The n-th of some places is one of them, and has so many up to it.
LEMMA PlaceIs ==
  ASSUME NEW len \in Nat, NEW places \in SUBSET (1..len), NEW n \in 1..Cardinality(places)
  PROVE  Place(places, n) \in places /\ Cardinality({j \in places : j <= Place(places, n)}) = n
<1> DEFINE first(i) == {j \in places : j <= i}
           T == {i \in Nat : n <= Cardinality(first(i))}
<1>0. \A j : j \in places => j \in Nat /\ 1 <= j /\ j <= len
  OBVIOUS
<1>1. IsFiniteSet(places)
  <2>1. IsFiniteSet(1..len)
    BY FS_Interval
  <2> QED BY <2>1, FS_Subset
<1>2. \A i \in Nat : IsFiniteSet(first(i)) /\ Cardinality(first(i)) \in Nat
  BY <1>1, FS_Subset, FS_CardinalityType
<1>3. Cardinality(places) \in Nat
  BY <1>1, FS_CardinalityType
<1>4. first(len) = places /\ first(0) = {} /\ n \in Nat /\ n # 0
  BY <1>0, <1>3
<1>5. len \in T
  <2> HIDE DEF first
  <2> QED BY <1>4
<1>6. PICK k \in T : \A y \in T : k <= y
  BY <1>5, Least
<1>60. k \in Nat
  OBVIOUS
<1>7. k # 0
  <2> HIDE DEF first
  <2>1. Cardinality(first(0)) = 0
    BY <1>4, FS_EmptySet
  <2> QED BY <1>4, <1>6, <2>1
<1>8. k - 1 \in Nat /\ k - 1 \notin T
  <2>1. k - 1 \in Nat /\ ~(k <= k - 1)
    BY <1>60, <1>7
  <2> HIDE DEF T
  <2> QED BY <1>6, <2>1
<1>9. Cardinality(first(k - 1)) < n
  <2> HIDE DEF first
  <2> QED BY <1>2, <1>4, <1>8
<1>10. k \in places
  <2> SUFFICES ASSUME k \notin places PROVE FALSE
    OBVIOUS
  <2>1. first(k) = first(k - 1)
    BY <1>0, <1>60, <1>7
  <2> HIDE DEF first
  <2> QED BY <1>6, <1>8, <2>1
<1>11. first(k) = first(k - 1) \cup {k} /\ k \notin first(k - 1)
  BY <1>0, <1>60, <1>7, <1>10
<1>12. Cardinality(first(k)) = Cardinality(first(k - 1)) + 1
  <2> HIDE DEF first
  <2> QED BY <1>2, <1>8, <1>11, FS_AddElement
<1>13. n <= Cardinality(first(k))
  BY <1>6
<1>14. Cardinality(first(k)) = n
  <2> HIDE DEF first
  <2> QED BY <1>2, <1>4, <1>8, <1>9, <1>12, <1>13
<1> QED BY <1>10, <1>14 DEF Place

\* Each of the places is the n-th for the number of those up to it.
LEMMA PlaceOf ==
  ASSUME NEW len \in Nat, NEW places \in SUBSET (1..len), NEW i \in places,
         NEW n, n = Cardinality({j \in places : j <= i})
  PROVE  n \in 1..Cardinality(places) /\ Place(places, n) = i
<1> DEFINE first(k) == {j \in places : j <= k}
<1>0. \A j : j \in places => j \in Nat /\ 1 <= j /\ j <= len
  OBVIOUS
<1>1. IsFiniteSet(places)
  <2>1. IsFiniteSet(1..len)
    BY FS_Interval
  <2> QED BY <2>1, FS_Subset
<1>2. \A k \in Nat : /\ IsFiniteSet(first(k)) /\ Cardinality(first(k)) \in Nat
                     /\ Cardinality(first(k)) <= Cardinality(places)
  BY <1>1, FS_Subset, FS_CardinalityType
<1>3. Cardinality(places) \in Nat /\ i \in Nat /\ i \in first(i)
  BY <1>1, FS_CardinalityType
<1>4. ASSUME NEW x \in places, NEW y \in places, x < y PROVE Cardinality(first(x)) < Cardinality(first(y))
  <2>0. x \in Nat /\ y \in Nat
    BY <1>0
  <2>01. \A j \in first(x) : j \in first(y)
    BY <1>0, <1>4, <2>0
  <2>02. y \in first(y) /\ y \notin first(x)
    BY <1>4, <2>0
  <2>1. first(x) \in SUBSET first(y) /\ first(x) # first(y) /\ x \in Nat /\ y \in Nat
    <3> HIDE DEF first
    <3> QED BY <2>0, <2>01, <2>02
  <2> HIDE DEF first
  <2>2. Cardinality(first(x)) <= Cardinality(first(y)) /\ Cardinality(first(y)) # Cardinality(first(x))
    BY <1>2, <2>1, FS_Subset
  <2> QED BY <1>2, <2>1, <2>2
<1>5. n \in 1..Cardinality(places)
  <2>1. n = Cardinality(first(i))
    OBVIOUS
  <2> HIDE DEF first
  <2>2. Cardinality(first(i)) # 0
    BY <1>2, <1>3, FS_EmptySet
  <2> QED BY <1>2, <1>3, <2>1, <2>2
<1>6. Place(places, n) \in places /\ Cardinality(first(Place(places, n))) = n
  BY <1>5, PlaceIs
<1>7. Place(places, n) = i
  <2>1. n = Cardinality(first(i)) /\ Place(places, n) \in Nat
    BY <1>0, <1>6
  <2> HIDE DEF first
  <2>2. ~(Place(places, n) < i) /\ ~(i < Place(places, n))
    BY <1>2, <1>3, <1>4, <1>6, <2>1
  <2> QED BY <1>3, <2>1, <2>2
<1> QED BY <1>5, <1>7

\* The part of a sequence at some places is made of what is there, and has all of it.
LEMMA AtPlacesIs ==
  ASSUME NEW S, NEW s \in Seq(S), NEW places \in SUBSET (DOMAIN s)
  PROVE  /\ AtPlaces(s, places) \in Seq(S)
         /\ DOMAIN AtPlaces(s, places) = 1..Cardinality(places)
         /\ \A n \in DOMAIN AtPlaces(s, places) : \E i \in places : AtPlaces(s, places)[n] = s[i]
         /\ \A i \in places : \E n \in DOMAIN AtPlaces(s, places) : AtPlaces(s, places)[n] = s[i]
<1>1. Len(s) \in Nat /\ DOMAIN s = 1..Len(s)
  OBVIOUS
<1>2. Cardinality(places) \in Nat
  <2>1. IsFiniteSet(1..Len(s))
    BY <1>1, FS_Interval
  <2> QED BY <1>1, <2>1, FS_Subset, FS_CardinalityType
<1>3. \A n \in 1..Cardinality(places) : Place(places, n) \in places
  BY <1>1, PlaceIs
<1>4. /\ DOMAIN AtPlaces(s, places) = 1..Cardinality(places)
      /\ \A n \in 1..Cardinality(places) : AtPlaces(s, places)[n] = s[Place(places, n)]
  BY DEF AtPlaces
<1>5. \A n \in 1..Cardinality(places) : s[Place(places, n)] \in S
  BY <1>3
<1>6. AtPlaces(s, places) = [n \in 1..Cardinality(places) |-> s[Place(places, n)]]
  BY DEF AtPlaces
<1>7. AtPlaces(s, places) \in Seq(S)
  BY <1>2, <1>5, <1>6
<1>8. ASSUME NEW i \in places PROVE \E n \in 1..Cardinality(places) : Place(places, n) = i
  BY <1>1, PlaceOf
<1>9. ASSUME NEW i \in places PROVE \E n \in DOMAIN AtPlaces(s, places) : AtPlaces(s, places)[n] = s[i]
  BY <1>4, <1>8
<1> QED BY <1>3, <1>4, <1>7, <1>9

\* The places a part of a sequence is made of are not named twice.
LEMMA AtPlacesApart ==
  ASSUME NEW S, NEW s \in Seq(S), NEW places \in SUBSET (DOMAIN s)
  PROVE  \E h : /\ h \in [DOMAIN AtPlaces(s, places) -> places]
                /\ \A n \in DOMAIN AtPlaces(s, places) : AtPlaces(s, places)[n] = s[h[n]]
                /\ \A m, n \in DOMAIN AtPlaces(s, places) : h[m] = h[n] => m = n
<1> DEFINE c == Cardinality(places)
           h == [n \in 1..c |-> Place(places, n)]
<1>1. Len(s) \in Nat /\ DOMAIN s = 1..Len(s)
  OBVIOUS
<1>2. \A n \in 1..c : Place(places, n) \in places /\ Cardinality({j \in places : j <= Place(places, n)}) = n
  BY <1>1, PlaceIs
<1>3. h \in [1..c -> places]
  BY <1>2
<1>4. \A m, n \in 1..c : h[m] = h[n] => m = n
  BY <1>2
<1>5. DOMAIN AtPlaces(s, places) = 1..c /\ \A n \in 1..c : AtPlaces(s, places)[n] = s[h[n]]
  BY DEF AtPlaces
<1> HIDE DEF h
<1> QED BY <1>3, <1>4, <1>5, ZenonT(60)

-----------------------------------------------------------------------------
(* Joining sequences                                                       *)

\* The function FlattenSeq is made of: sequence by sequence, what is joined.
Joins(f, ss, n) == f = [i \in 1..n |-> IF i = 1 THEN ss[i] ELSE f[i - 1] \o ss[i]]

\* There is one, so that FlattenSeq chooses it.
LEMMA JoinsExists ==
  ASSUME NEW ss, NEW n \in Nat
  PROVE  \E f : Joins(f, ss, n)
<1> DEFINE Bad == {m \in Nat : ~\E f : Joins(f, ss, m)}
<1> SUFFICES ASSUME Bad # {} PROVE FALSE
  OBVIOUS
<1>1. PICK m \in Bad : \A k \in Bad : m <= k
  BY Least
<1>2. CASE m = 0
  <2> DEFINE f == [i \in 1..0 |-> <<>>]
  <2>1. Joins(f, ss, 0)
    BY DEF Joins
  <2> QED BY <1>1, <1>2, <2>1
<1>3. CASE m # 0
  <2>1. m - 1 \in Nat /\ m - 1 \notin Bad /\ m \in Nat
    BY <1>1, <1>3
  <2>2. PICK g : Joins(g, ss, m - 1)
    BY <2>1
  <2> DEFINE step == IF m = 1 THEN ss[m] ELSE g[m - 1] \o ss[m]
             f == [i \in 1..m |-> IF i = m THEN step ELSE g[i]]
             h == [i \in 1..m |-> IF i = 1 THEN ss[i] ELSE f[i - 1] \o ss[i]]
  <2>3. \A i \in 1..m - 1 : g[i] = IF i = 1 THEN ss[i] ELSE g[i - 1] \o ss[i]
    BY <2>2 DEF Joins
  <2>4. ASSUME NEW i \in 1..m PROVE f[i] = h[i]
    <3>1. CASE i = m
      <4>1. m # 1 => f[m - 1] = g[m - 1]
        BY <2>1
      <4> QED BY <2>1, <3>1, <4>1
    <3>2. CASE i # m
      <4>1. i \in 1..m - 1 /\ f[i] = g[i]
        BY <2>1, <3>2
      <4>2. i # 1 => f[i - 1] = g[i - 1]
        BY <2>1, <4>1
      <4> QED BY <2>3, <4>1, <4>2
    <3> QED BY <3>1, <3>2
  <2>5. f = h
    BY <2>4
  <2>6. Joins(f, ss, m)
    BY <2>5 DEF Joins
  <2> QED BY <1>1, <2>6
<1> QED BY <1>2, <1>3

LEMMA FlattenIs ==
  ASSUME NEW X, NEW ss \in Seq(Seq(X)), ss # <<>>
  PROVE  \E f : Joins(f, ss, Len(ss)) /\ FlattenSeq(ss) = f[Len(ss)]
<1> DEFINE F == CHOOSE f : Joins(f, ss, Len(ss))
<1>1. Joins(F, ss, Len(ss))
  <2>1. Len(ss) \in Nat
    OBVIOUS
  <2> QED BY <2>1, JoinsExists
<1>2. FlattenSeq(ss) = F[Len(ss)]
  BY DEF FlattenSeq, Joins
<1> QED BY <1>1, <1>2

\* The first n sequences make g: its members are theirs.
Made(g, ss, n, X) ==
  /\ g \in Seq(X)
  /\ \A k \in DOMAIN g : \E i \in 1..n : \E m \in DOMAIN ss[i] : g[k] = ss[i][m]
  /\ \A i \in 1..n : \A m \in DOMAIN ss[i] : \E k \in DOMAIN g : g[k] = ss[i][m]

LEMMA MadeStep ==
  ASSUME NEW X, NEW ss \in Seq(Seq(X)), NEW n \in 1..Len(ss), NEW g, Made(g, ss, n - 1, X)
  PROVE  Made(g \o ss[n], ss, n, X)
<1> DEFINE s == ss[n]
           w == g \o s
<1>1. n \in Nat /\ n - 1 \in Nat /\ s \in Seq(X) /\ g \in Seq(X) /\ n \in 1..n
      /\ \A i \in 1..n : i \in 1..n - 1 \/ i = n
  BY DEF Made
<1> HIDE DEF s
<1>2. /\ w \in Seq(X) /\ Len(w) = Len(g) + Len(s) /\ DOMAIN w = 1..Len(g) + Len(s)
      /\ DOMAIN g = 1..Len(g) /\ DOMAIN s = 1..Len(s) /\ Len(g) \in Nat /\ Len(s) \in Nat
      /\ \A k \in 1..Len(g) + Len(s) : w[k] = IF k <= Len(g) THEN g[k] ELSE s[k - Len(g)]
  BY <1>1
<1> HIDE DEF w
<1>3. ASSUME NEW k \in DOMAIN w
      PROVE  \E i \in 1..n : \E m \in DOMAIN ss[i] : w[k] = ss[i][m]
  <2>1. CASE k <= Len(g)
    <3>1. k \in DOMAIN g /\ w[k] = g[k]
      BY <1>2, <2>1
    <3>2. PICK i \in 1..n - 1 : \E m \in DOMAIN ss[i] : g[k] = ss[i][m]
      BY <3>1 DEF Made
    <3>3. i \in 1..n
      BY <1>1
    <3> QED BY <3>1, <3>2, <3>3
  <2>2. CASE ~(k <= Len(g))
    <3>1. k - Len(g) \in DOMAIN s /\ w[k] = s[k - Len(g)]
      BY <1>2, <2>2
    <3> QED BY <1>1, <3>1 DEF s
  <2> QED BY <2>1, <2>2
<1>4. ASSUME NEW i \in 1..n, NEW m \in DOMAIN ss[i]
      PROVE  \E k \in DOMAIN w : w[k] = ss[i][m]
  <2>1. CASE i \in 1..n - 1
    <3>1. PICK k \in DOMAIN g : g[k] = ss[i][m]
      BY <2>1 DEF Made
    <3>2. k \in DOMAIN w /\ w[k] = g[k]
      BY <1>2
    <3> QED BY <3>1, <3>2
  <2>2. CASE i = n
    <3>1. m \in DOMAIN s
      BY <2>2 DEF s
    <3>2. m \in 1..Len(s) /\ Len(g) + m \in 1..Len(g) + Len(s)
          /\ ~(Len(g) + m <= Len(g)) /\ (Len(g) + m) - Len(g) = m
      BY <1>2, <3>1, SMTT(30), ZenonT(30)
    <3>3. Len(g) + m \in DOMAIN w /\ w[Len(g) + m] = s[m]
      BY <1>2, <3>2
    <3> QED BY <2>2, <3>3 DEF s
  <2> QED BY <1>1, <2>1, <2>2
<1> QED BY <1>2, <1>3, <1>4 DEF Made, w, s

\* What is joined has the members of all sequences and no other.
LEMMA Joined ==
  ASSUME NEW X, NEW ss \in Seq(Seq(X))
  PROVE  Made(FlattenSeq(ss), ss, Len(ss), X)
<1>1. CASE ss = <<>>
  BY <1>1 DEF FlattenSeq, Made
<1>2. CASE ss # <<>>
  <2>1. PICK f : Joins(f, ss, Len(ss)) /\ FlattenSeq(ss) = f[Len(ss)]
    BY <1>2, FlattenIs
  <2> DEFINE L == Len(ss)
             Bad == {n \in Nat : n \in 1..L /\ ~Made(f[n], ss, n, X)}
  <2>2. L \in Nat /\ L \in 1..L /\ \A i \in 1..L : ss[i] \in Seq(X)
    BY <1>2
  <2>3. \A i \in 1..L : f[i] = IF i = 1 THEN ss[i] ELSE f[i - 1] \o ss[i]
    BY <2>1 DEF Joins
  <2>4. Bad = {}
    <3> SUFFICES ASSUME Bad # {} PROVE FALSE
      OBVIOUS
    <3>1. PICK n \in Bad : \A k \in Bad : n <= k
      BY Least
    <3>2. n \in Nat /\ n \in 1..L /\ ~Made(f[n], ss, n, X)
      OBVIOUS
    <3>3. CASE n = 1
      <4>1. f[1] = ss[1] /\ 1 \in 1..1 /\ \A i \in 1..1 : i = 1
        BY <2>3, <3>2, <3>3
      <4>2. ss[1] \in Seq(X)
        BY <2>2, <3>2, <3>3
      <4> QED BY <3>2, <3>3, <4>1, <4>2 DEF Made
    <3>4. CASE n # 1
      <4>1. n - 1 \in 1..L /\ n - 1 \in Nat /\ n - 1 < n
        BY <2>2, <3>2, <3>4
      <4>2. Made(f[n - 1], ss, n - 1, X)
        BY <3>1, <3>2, <4>1
      <4>3. Made(f[n - 1] \o ss[n], ss, n, X)
        BY <3>2, <4>2, MadeStep
      <4> QED BY <2>3, <3>2, <3>4, <4>3
    <3> QED BY <3>3, <3>4
  <2> QED BY <2>1, <2>2, <2>4
<1> QED BY <1>1, <1>2

\* Joining one by one gives the sequence back.
LEMMA Singles ==
  ASSUME NEW X, NEW s \in Seq(X)
  PROVE  FlattenSeq([k \in DOMAIN s |-> <<s[k]>>]) = s
<1> DEFINE ss == [k \in DOMAIN s |-> <<s[k]>>]
           L == Len(s)
<1>1. /\ L \in Nat /\ DOMAIN s = 1..L /\ ss \in Seq(Seq(X)) /\ Len(ss) = L
      /\ \A i \in 1..L : s[i] \in X /\ ss[i] = <<s[i]>>
  <2>1. L \in Nat /\ DOMAIN s = 1..L /\ \A i \in 1..L : s[i] \in X
    OBVIOUS
  <2>2. \A i \in 1..L : <<s[i]>> \in Seq(X)
    BY <2>1
  <2>3. ss = [k \in 1..L |-> <<s[k]>>]
    BY <2>1
  <2> HIDE DEF ss, L
  <2>4. ss \in Seq(Seq(X)) /\ Len(ss) = L /\ \A i \in 1..L : ss[i] = <<s[i]>>
    BY <2>1, <2>2, <2>3
  <2> QED BY <2>1, <2>4
<1> HIDE DEF ss
<1>2. CASE L = 0
  <2>1. s = <<>> /\ ss = <<>>
    BY <1>1, <1>2
  <2> QED BY <1>1, <2>1 DEF FlattenSeq, ss
<1>3. CASE L # 0
  <2>0. ss # <<>>
    BY <1>1, <1>3
  <2>1. PICK f : Joins(f, ss, Len(ss)) /\ FlattenSeq(ss) = f[Len(ss)]
    BY <1>1, <2>0, FlattenIs
  <2> DEFINE Up(n) == f[n] \in Seq(X) /\ Len(f[n]) = n /\ \A k \in 1..n : f[n][k] = s[k]
             Bad == {n \in Nat : n \in 1..L /\ ~Up(n)}
  <2>2. \A i \in 1..L : f[i] = IF i = 1 THEN ss[i] ELSE f[i - 1] \o ss[i]
    BY <1>1, <2>1 DEF Joins
  <2>3. Bad = {}
    <3> SUFFICES ASSUME Bad # {} PROVE FALSE
      OBVIOUS
    <3>1. PICK n \in Bad : \A k \in Bad : n <= k
      BY Least
    <3>2. n \in Nat /\ n \in 1..L /\ ~Up(n)
      OBVIOUS
    <3>3. CASE n = 1
      <4>1. f[1] = <<s[1]>> /\ s[1] \in X /\ \A i \in 1..1 : i = 1
        BY <1>1, <2>2, <3>2, <3>3
      <4> QED BY <3>2, <3>3, <4>1
    <3>4. CASE n # 1
      <4>1. n - 1 \in 1..L /\ n - 1 \in Nat /\ n - 1 < n
        BY <1>1, <3>2, <3>4
      <4>2. Up(n - 1)
        BY <3>1, <3>2, <4>1
      <4> DEFINE g == f[n - 1]
      <4>3. g \in Seq(X) /\ Len(g) = n - 1 /\ \A k \in 1..n - 1 : g[k] = s[k]
        BY <4>2
      <4>4. f[n] = g \o <<s[n]>> /\ s[n] \in X
        BY <1>1, <2>2, <3>2, <3>4
      <4> HIDE DEF g
      <4>5. g \o <<s[n]>> = Append(g, s[n])
        BY <4>3, <4>4
      <4>6. Append(g, s[n]) \in Seq(X) /\ Len(Append(g, s[n])) = n
            /\ \A k \in 1..n : Append(g, s[n])[k] = s[k]
        BY <3>2, <4>3, <4>4
      <4> QED BY <3>2, <4>4, <4>5, <4>6
    <3> QED BY <3>3, <3>4
  <2>4. L \in 1..L
    BY <1>1, <1>3
  <2>5. Up(L)
    BY <2>3, <2>4, <1>1
  <2> DEFINE g == f[L]
  <2>6. g = s
    <3>1. g \in Seq(X) /\ Len(g) = L /\ \A k \in 1..L : g[k] = s[k]
      BY <2>5
    <3> HIDE DEF g
    <3> QED BY <1>1, <3>1
  <2> QED BY <1>1, <2>1, <2>6 DEF ss
<1> QED BY <1>1, <1>2, <1>3

-----------------------------------------------------------------------------
(* Items                                                                   *)

CxItem == [kind : {"user", "reasoning", "text", "call", "output"}, id : CxIds,
           body : Bodies \cup {"none", "orphan"}]

LEMMA OnlyAll ==
  ASSUME NEW X, NEW s \in Seq(X), NEW S, \A k \in DOMAIN s : s[k] \in S
  PROVE  Only(s, S) = s
<1>1. [k \in DOMAIN s |-> IF s[k] \in S THEN <<s[k]>> ELSE <<>>] = [k \in DOMAIN s |-> <<s[k]>>]
  OBVIOUS
<1> QED BY <1>1, Singles DEF Only

LEMMA OnlyNone ==
  ASSUME NEW X, NEW s \in Seq(X), NEW S, \A k \in DOMAIN s : s[k] \notin S
  PROVE  Only(s, S) = <<>>
<1> DEFINE ss == [k \in DOMAIN s |-> <<>>]
<1>1. [k \in DOMAIN s |-> IF s[k] \in S THEN <<s[k]>> ELSE <<>>] = ss
  OBVIOUS
<1>2. ss \in Seq(Seq(X)) /\ Len(ss) \in Nat /\ \A i \in 1..Len(ss) : DOMAIN ss[i] = {}
  <2>1. Len(s) \in Nat /\ DOMAIN s = 1..Len(s) /\ <<>> \in Seq(X) /\ DOMAIN <<>> = {}
    OBVIOUS
  <2>2. ss = [k \in 1..Len(s) |-> <<>>]
    BY <2>1
  <2> HIDE DEF ss
  <2>3. ss \in Seq(Seq(X)) /\ Len(ss) = Len(s)
    BY <2>1, <2>2
  <2> QED BY <2>1, <2>2, <2>3
<1> HIDE DEF ss
<1>3. Made(FlattenSeq(ss), ss, Len(ss), X)
  BY <1>2, Joined
<1>4. \A k \in DOMAIN FlattenSeq(ss) : FALSE
  BY <1>2, <1>3 DEF Made
<1>5. FlattenSeq(ss) = <<>>
  BY <1>3, <1>4 DEF Made
<1> QED BY <1>1, <1>5 DEF Only
-----------------------------------------------------------------------------
(* The history and what a request makes of it                              *)

\* Users and turns have an id each, and a result comes right after the turn it
\* answers; only the last entry may call without a result.
Formed(h, next) ==
  /\ h \in Seq(CxEntry)
  /\ \A i \in DOMAIN h :
       /\ h[i].id < next
       /\ h[i].role = "result" <=> h[i].body # "none"
       /\ h[i].calls => h[i].role = "turn"
       /\ h[i].role = "result" => i > 1 /\ h[i - 1].calls /\ h[i - 1].id = h[i].id
       /\ h[i].calls /\ i < Len(h) => h[i + 1].role = "result"
  /\ \A i, j \in DOMAIN h :
       h[i].role # "result" /\ h[j].role # "result" /\ h[i].id = h[j].id => i = j

\* Items of that history, each result as it is there.
Fit(items, h) ==
  /\ items \in Seq(CxItem)
  /\ \A k \in DOMAIN items :
       /\ items[k].body # "orphan"
       /\ items[k].kind = "output" =>
            \E i \in DOMAIN h : /\ h[i].role = "result" /\ h[i].id = items[k].id
                                /\ h[i].body = items[k].body

\* Items with each result as it was first shown, and no placeholder.
Agrees(items, frozen) ==
  \A k \in DOMAIN items :
    /\ items[k].body # "orphan"
    /\ items[k].kind = "output" =>
         frozen[items[k].id] # "none" /\ items[k].body = frozen[items[k].id]

LEMMA ItemsAre ==
  ASSUME NEW e \in CxEntry, e.calls => e.role = "turn", e.role = "result" <=> e.body # "none"
  PROVE  LET s == ItemsOf(e)
         IN /\ s \in Seq(CxItem)
            /\ \A m \in DOMAIN s :
                 /\ s[m].id = e.id /\ s[m].body # "orphan" /\ (s[m].kind = "call" => e.calls)
                 /\ s[m].kind = "output" => e.role = "result" /\ s[m].body = e.body
            /\ e.role = "result" => \E m \in DOMAIN s : s[m].kind = "output"
<1> DEFINE Item1(kind, body) == Item(kind, e.id, body)
           s == ItemsOf(e)
<1>1. /\ e.role \in {"user", "turn", "result"} /\ e.id \in CxIds /\ e.body \in Bodies \cup {"none"}
      /\ e.calls \in BOOLEAN /\ e.secret \in BOOLEAN
  BY DEF CxEntry
<1>2. \A kind \in {"user", "reasoning", "text", "call", "output"}, body \in Bodies \cup {"none"} :
        /\ Item(kind, e.id, body) \in CxItem /\ Item(kind, e.id, body).kind = kind
        /\ Item(kind, e.id, body).id = e.id /\ Item(kind, e.id, body).body = body
        /\ Item(kind, e.id, body).body # "orphan"
  BY <1>1 DEF Item, CxItem, Bodies
<1>3. CASE e.role = "user"
  <2> DEFINE a == Item("user", e.id, "none")
  <2>1. s = <<a>>
    BY <1>3 DEF ItemsOf
  <2>2. a \in CxItem /\ a.kind = "user" /\ a.id = e.id /\ a.body # "orphan"
    BY <1>2
  <2> HIDE DEF a, s
  <2>3. s \in Seq(CxItem) /\ \A m \in DOMAIN s : s[m] = a
    BY <2>1, <2>2
  <2> QED BY <1>3, <2>2, <2>3 DEF s
<1>4. CASE e.role = "result"
  <2> DEFINE a == Item("output", e.id, e.body)
  <2>1. s = <<a>>
    BY <1>4 DEF ItemsOf
  <2>2. a \in CxItem /\ a.kind = "output" /\ a.id = e.id /\ a.body = e.body /\ a.body # "orphan"
    BY <1>1, <1>2
  <2> HIDE DEF a, s
  <2>3. s \in Seq(CxItem) /\ 1 \in DOMAIN s /\ \A m \in DOMAIN s : s[m] = a
    BY <2>1, <2>2
  <2> QED BY <1>4, <2>2, <2>3 DEF s
<1>5. CASE e.role = "turn"
  <2> DEFINE r == Item("reasoning", e.id, "none")
             t == Item("text", e.id, "none")
             c == Item("call", e.id, "none")
             head == IF e.secret THEN <<r>> ELSE <<>>
             tail == IF e.calls THEN <<c>> ELSE <<>>
             Own(x) == /\ x \in CxItem /\ x.id = e.id /\ x.body # "orphan"
                       /\ x.kind # "output" /\ (x.kind = "call" => e.calls)
  <2>1. s = head \o <<t>> \o tail
    BY <1>5 DEF ItemsOf
  <2>2. r \in CxItem /\ t \in CxItem /\ c \in CxItem /\ Own(r) /\ Own(t) /\ (e.calls => Own(c))
    BY <1>2
  <2> HIDE DEF r, t, c, Own, s
  <2>3. head \in Seq(CxItem) /\ \A m \in DOMAIN head : Own(head[m])
    BY <2>2
  <2>4. tail \in Seq(CxItem) /\ \A m \in DOMAIN tail : Own(tail[m])
    BY <2>2
  <2> HIDE DEF head, tail
  <2>5. <<t>> \in Seq(CxItem) /\ \A m \in DOMAIN <<t>> : Own(<<t>>[m])
    BY <2>2
  <2>6. ASSUME NEW x \in Seq(CxItem), NEW y \in Seq(CxItem),
               \A m \in DOMAIN x : Own(x[m]), \A m \in DOMAIN y : Own(y[m])
        PROVE  x \o y \in Seq(CxItem) /\ \A m \in DOMAIN (x \o y) : Own((x \o y)[m])
    <3>1. /\ x \o y \in Seq(CxItem) /\ DOMAIN (x \o y) = 1..Len(x) + Len(y)
          /\ Len(x) \in Nat /\ Len(y) \in Nat /\ DOMAIN x = 1..Len(x) /\ DOMAIN y = 1..Len(y)
          /\ \A m \in 1..Len(x) + Len(y) :
               (x \o y)[m] = IF m <= Len(x) THEN x[m] ELSE y[m - Len(x)]
      OBVIOUS
    <3>2. \A m \in 1..Len(x) + Len(y) : m \in 1..Len(x) \/ (~(m <= Len(x)) /\ m - Len(x) \in 1..Len(y))
      BY <3>1
    <3>3. ASSUME NEW m \in 1..Len(x) + Len(y) PROVE Own((x \o y)[m])
      <4>1. CASE m \in 1..Len(x)
        BY <2>6, <3>1, <4>1
      <4>2. CASE ~(m <= Len(x)) /\ m - Len(x) \in 1..Len(y)
        BY <2>6, <3>1, <4>2
      <4> QED BY <3>2, <4>1, <4>2
    <3> QED BY <3>1, <3>3
  <2>7. head \o <<t>> \in Seq(CxItem) /\ \A m \in DOMAIN (head \o <<t>>) : Own((head \o <<t>>)[m])
    BY <2>3, <2>5, <2>6
  <2>8. s \in Seq(CxItem) /\ \A m \in DOMAIN s : Own(s[m])
    <3> DEFINE x == head \o <<t>>
    <3>1. x \in Seq(CxItem) /\ \A m \in DOMAIN x : Own(x[m])
      BY <2>7
    <3> HIDE DEF x
    <3>2. x \o tail \in Seq(CxItem) /\ \A m \in DOMAIN (x \o tail) : Own((x \o tail)[m])
      BY <2>4, <2>6, <3>1
    <3> QED BY <2>1, <3>2 DEF x
  <2> QED BY <1>5, <2>8 DEF Own, s
<1> QED BY <1>1, <1>3, <1>4, <1>5

LEMMA ConvertedIs ==
  ASSUME NEW h, NEW next, Formed(h, next), ~TailCalls(h)
  PROVE  Fit(Converted(h), h)
<1> DEFINE ss == [i \in DOMAIN h |-> ItemsOf(h[i])]
           flat == FlattenSeq(ss)
           S == {i \in ToSet(flat) : i.kind = "call"
                   /\ ~\E j \in DOMAIN flat : flat[j].kind = "output" /\ flat[j].id = i.id}
<1>1. /\ h \in Seq(CxEntry) /\ Len(h) \in Nat /\ DOMAIN h = 1..Len(h)
      /\ \A i \in 1..Len(h) : h[i] \in CxEntry
  BY DEF Formed
<1>2. \A i \in 1..Len(h) :
        /\ ItemsOf(h[i]) \in Seq(CxItem)
        /\ \A m \in DOMAIN ItemsOf(h[i]) :
             LET x == ItemsOf(h[i])[m]
             IN /\ x.id = h[i].id /\ x.body # "orphan" /\ (x.kind = "call" => h[i].calls)
                /\ x.kind = "output" => h[i].role = "result" /\ x.body = h[i].body
        /\ h[i].role = "result" =>
             \E m \in DOMAIN ItemsOf(h[i]) : ItemsOf(h[i])[m].kind = "output"
  <2>1. \A i \in 1..Len(h) : /\ h[i].calls => h[i].role = "turn"
                             /\ h[i].role = "result" <=> h[i].body # "none"
    BY <1>1 DEF Formed
  <2> QED BY <1>1, <2>1, ItemsAre
<1>3. ss \in Seq(Seq(CxItem)) /\ Len(ss) = Len(h) /\ \A i \in 1..Len(h) : ss[i] = ItemsOf(h[i])
  BY <1>1, <1>2
<1> HIDE DEF ss
<1>4. Made(flat, ss, Len(ss), CxItem)
  BY <1>3, Joined
<1> HIDE DEF flat
<1>5. ASSUME NEW k \in DOMAIN flat
      PROVE  \E i \in 1..Len(h) :
               /\ flat[k].id = h[i].id /\ flat[k].body # "orphan"
               /\ flat[k].kind = "call" => h[i].calls
               /\ flat[k].kind = "output" => h[i].role = "result" /\ flat[k].body = h[i].body
  <2>1. PICK i \in 1..Len(ss) : \E m \in DOMAIN ss[i] : flat[k] = ss[i][m]
    BY <1>4 DEF Made
  <2>2. i \in 1..Len(h) /\ ss[i] = ItemsOf(h[i])
    BY <1>3, <2>1
  <2>3. PICK m \in DOMAIN ItemsOf(h[i]) : flat[k] = ItemsOf(h[i])[m]
    BY <2>1, <2>2
  <2>4. LET x == ItemsOf(h[i])[m]
        IN /\ x.id = h[i].id /\ x.body # "orphan" /\ (x.kind = "call" => h[i].calls)
           /\ x.kind = "output" => h[i].role = "result" /\ x.body = h[i].body
    BY <1>2, <2>2
  <2> QED BY <2>2, <2>3, <2>4
<1>6. ASSUME NEW k \in DOMAIN flat PROVE flat[k] \notin S
  <2> SUFFICES ASSUME flat[k].kind = "call"
               PROVE  \E j \in DOMAIN flat : flat[j].kind = "output" /\ flat[j].id = flat[k].id
    OBVIOUS
  <2>1. PICK i \in 1..Len(h) : h[i].calls /\ flat[k].id = h[i].id
    BY <1>5
  <2>2. i < Len(h) /\ i + 1 \in 1..Len(h) /\ (i + 1) - 1 = i
    <3>1. i = Len(h) => TailCalls(h)
      BY <1>1, <2>1 DEF TailCalls, Last
    <3>2. i \in 1..Len(h) /\ i # Len(h) /\ Len(h) \in Nat
      BY <1>1, <2>1, <3>1
    <3> QED BY <3>2
  <2>3. h[i + 1].role = "result"
    BY <1>1, <2>1, <2>2 DEF Formed
  <2>4. h[i + 1].id = h[i].id
    <3>1. h[(i + 1) - 1].id = h[i + 1].id
      BY <1>1, <2>2, <2>3 DEF Formed
    <3> QED BY <2>2, <3>1
  <2>5. PICK m \in DOMAIN ss[i + 1] : ss[i + 1][m].kind = "output" /\ ss[i + 1][m].id = h[i].id
    <3>1. ss[i + 1] = ItemsOf(h[i + 1])
      BY <1>3, <2>2
    <3>2. PICK m \in DOMAIN ItemsOf(h[i + 1]) : ItemsOf(h[i + 1])[m].kind = "output"
      BY <1>2, <2>2, <2>3
    <3>3. ItemsOf(h[i + 1])[m].id = h[i + 1].id
      BY <1>2, <2>2, <3>2
    <3> QED BY <2>4, <3>1, <3>2, <3>3
  <2>6. PICK j \in DOMAIN flat : flat[j] = ss[i + 1][m]
    BY <1>3, <1>4, <2>2 DEF Made
  <2> QED BY <2>1, <2>5, <2>6
<1>7. flat \in Seq(CxItem)
  BY <1>4 DEF Made
<1>8. Unanswered(flat) = <<>>
  <2>1. Unanswered(flat) = Only(flat, S)
    BY DEF Unanswered
  <2> HIDE DEF S
  <2> QED BY <1>6, <1>7, <2>1, OnlyNone
<1>9. Converted(h) = flat
  <2>1. Converted(h) = PairOrphans(flat)
    BY DEF Converted, flat, ss
  <2>2. PairOrphans(flat) = flat \o [k \in 1..Len(<<>>) |-> Placeholder(<<>>[k].id)]
    BY <1>8 DEF PairOrphans
  <2>3. [k \in 1..Len(<<>>) |-> Placeholder(<<>>[k].id)] = <<>>
    OBVIOUS
  <2> QED BY <1>7, <2>1, <2>2, <2>3
<1>10. ASSUME NEW k \in DOMAIN flat
       PROVE  /\ flat[k].body # "orphan"
              /\ flat[k].kind = "output" =>
                   \E i \in DOMAIN h : /\ h[i].role = "result" /\ h[i].id = flat[k].id
                                       /\ h[i].body = flat[k].body
  BY <1>1, <1>5
<1> QED BY <1>7, <1>9, <1>10 DEF Fit

\* An id has one result.
LEMMA OneResult ==
  ASSUME NEW h, NEW next, Formed(h, next), NEW i \in DOMAIN h, NEW j \in DOMAIN h,
         h[i].role = "result", h[j].role = "result", h[i].id = h[j].id
  PROVE  i = j
<1>1. h \in Seq(CxEntry) /\ Len(h) \in Nat /\ DOMAIN h = 1..Len(h)
  BY DEF Formed
<1>2. /\ i > 1 /\ h[i - 1].calls /\ h[i - 1].id = h[i].id
      /\ j > 1 /\ h[j - 1].calls /\ h[j - 1].id = h[j].id
  BY DEF Formed
<1>3. i - 1 \in DOMAIN h /\ j - 1 \in DOMAIN h
  BY <1>1, <1>2
<1>4. h[i - 1].role = "turn" /\ h[j - 1].role = "turn"
  BY <1>2, <1>3 DEF Formed
<1>5. i - 1 = j - 1
  BY <1>2, <1>3, <1>4 DEF Formed
<1> QED BY <1>1, <1>5

Freezes == [CxIds -> Bodies \cup {"none"}]

LEMMA FrozenIs ==
  ASSUME NEW h, NEW next, Formed(h, next), NEW items, Fit(items, h), NEW frozen \in Freezes
  PROVE  LET full == Frozen(frozen, items)
             now  == FreezeNow(frozen, full)
         IN /\ full \in Seq(CxItem) /\ now \in Freezes /\ Agrees(full, now)
            /\ \A n \in CxIds : frozen[n] # "none" => now[n] = frozen[n]
            /\ \A n \in CxIds :
                 frozen[n] = "none" /\ now[n] # "none" =>
                   \E i \in DOMAIN h : h[i].role = "result" /\ h[i].id = n /\ h[i].body = now[n]
<1> DEFINE full == Frozen(frozen, items)
           now == FreezeNow(frozen, full)
           L == Len(items)
<1>1. /\ items \in Seq(CxItem) /\ L \in Nat /\ DOMAIN items = 1..L
      /\ \A k \in 1..L : items[k] \in CxItem /\ items[k].body # "orphan"
  BY DEF Fit
<1>2. ASSUME NEW k \in 1..L
      PROVE  LET x == Shown(frozen, items[k])
             IN /\ x \in CxItem /\ x.kind = items[k].kind /\ x.id = items[k].id
                /\ x.body = (IF items[k].kind # "output" \/ frozen[items[k].id] = "none"
                             THEN items[k].body ELSE frozen[items[k].id])
  <2>1. items[k] \in CxItem /\ items[k].body # "orphan"
    BY <1>1
  <2>2. frozen[items[k].id] \in Bodies \cup {"none"}
    BY <2>1 DEF CxItem, Freezes
  <2> QED BY <2>1, <2>2 DEF Shown, CxItem
<1>3. full = [k \in 1..L |-> Shown(frozen, items[k])]
  BY <1>1 DEF Frozen
<1> HIDE DEF full
<1>4. /\ full \in Seq(CxItem) /\ DOMAIN full = 1..L
      /\ \A k \in 1..L :
           /\ full[k] \in CxItem /\ full[k].kind = items[k].kind /\ full[k].id = items[k].id
           /\ full[k].body = (IF items[k].kind # "output" \/ frozen[items[k].id] = "none"
                              THEN items[k].body ELSE frozen[items[k].id])
  BY <1>1, <1>2, <1>3
<1>5. \A k \in 1..L : full[k].body # "orphan"
  <2> TAKE k \in 1..L
  <2>1. items[k].body # "orphan" /\ frozen[items[k].id] # "orphan"
    BY <1>1 DEF CxItem, Freezes, Bodies
  <2> QED BY <1>4, <2>1
\* What an id that was not frozen shows is what the history has.
<1>6. ASSUME NEW k \in 1..L, full[k].kind = "output", frozen[full[k].id] = "none"
      PROVE  \E i \in DOMAIN h : /\ h[i].role = "result" /\ h[i].id = full[k].id
                                 /\ h[i].body = full[k].body
  BY <1>1, <1>4, <1>6 DEF Fit
<1>7. ASSUME NEW n \in CxIds
      PROVE  /\ now[n] \in Bodies \cup {"none"}
             /\ frozen[n] # "none" => now[n] = frozen[n]
             /\ frozen[n] = "none" /\ now[n] # "none" =>
                  \E i \in DOMAIN h : h[i].role = "result" /\ h[i].id = n /\ h[i].body = now[n]
             /\ \A k \in 1..L : full[k].kind = "output" /\ full[k].id = n =>
                  now[n] # "none" /\ full[k].body = now[n]
  <2> DEFINE Some == \E k \in DOMAIN full : full[k].kind = "output" /\ full[k].id = n
                                             /\ full[k].body # "orphan"
             pick == CHOOSE i \in ToSet(full) : i.kind = "output" /\ i.id = n
  <2>1. now[n] = IF frozen[n] # "none" THEN frozen[n] ELSE IF Some THEN pick.body ELSE "none"
    BY DEF FreezeNow
  <2>2. frozen[n] \in Bodies \cup {"none"}
    BY DEF Freezes
  <2>3. CASE frozen[n] # "none"
    <3>1. \A k \in 1..L : full[k].kind = "output" /\ full[k].id = n => full[k].body = frozen[n]
      BY <1>4, <2>3
    <3> HIDE DEF now, Some, pick
    <3> QED BY <2>1, <2>2, <2>3, <3>1
  <2>4. CASE frozen[n] = "none" /\ ~Some
    <3>1. now[n] = "none"
      BY <2>1, <2>4
    <3>2. \A k \in 1..L : ~(full[k].kind = "output" /\ full[k].id = n)
      BY <1>4, <1>5, <2>4
    <3> HIDE DEF now, Some, pick
    <3> QED BY <2>4, <3>1, <3>2
  <2>5. CASE frozen[n] = "none" /\ Some
    <3>1. now[n] = pick.body
      BY <2>1, <2>5
    <3>2. pick \in ToSet(full) /\ pick.kind = "output" /\ pick.id = n
      <4>1. \E i \in ToSet(full) : i.kind = "output" /\ i.id = n
        BY <2>5 DEF ToSet
      <4> QED BY <4>1
    <3>3. PICK p \in 1..L : full[p] = pick
      BY <1>4, <3>2 DEF ToSet
    <3> HIDE DEF now, Some, pick
    <3>4. PICK i \in DOMAIN h : h[i].role = "result" /\ h[i].id = n /\ h[i].body = now[n]
      BY <1>6, <2>5, <3>1, <3>2, <3>3
    <3>5. h[i].body # "none" /\ h[i].body \in Bodies \cup {"none"}
      <4>1. h \in Seq(CxEntry) /\ (h[i].role = "result" <=> h[i].body # "none")
        BY DEF Formed
      <4>2. h[i] \in CxEntry
        BY <4>1
      <4> QED BY <3>4, <4>1, <4>2 DEF CxEntry
    <3>6. ASSUME NEW k \in 1..L, full[k].kind = "output", full[k].id = n
          PROVE  full[k].body = now[n]
      <4>1. PICK j \in DOMAIN h : h[j].role = "result" /\ h[j].id = n /\ h[j].body = full[k].body
        BY <1>6, <2>5, <3>6
      <4>2. i = j
        BY <3>4, <4>1, OneResult
      <4> QED BY <3>4, <4>1, <4>2
    <3> QED BY <2>5, <3>4, <3>5, <3>6
  <2> QED BY <2>3, <2>4, <2>5
<1>8. now \in Freezes
  <2>1. now = [n \in CxIds |-> now[n]]
    BY DEF FreezeNow
  <2> HIDE DEF now
  <2> QED BY <1>7, <2>1 DEF Freezes
<1> HIDE DEF now
<1>9. Agrees(full, now)
  <2> SUFFICES ASSUME NEW k \in 1..L
               PROVE  /\ full[k].body # "orphan"
                      /\ full[k].kind = "output" =>
                           now[full[k].id] # "none" /\ full[k].body = now[full[k].id]
    BY <1>4 DEF Agrees
  <2>1. full[k].id \in CxIds
    BY <1>4 DEF CxItem
  <2> QED BY <1>5, <1>7, <2>1
<1> QED BY <1>4, <1>7, <1>8, <1>9 DEF full, now
-----------------------------------------------------------------------------
(* The invariant                                                           *)

\* A summarized result whose effect no longer waits was not frozen otherwise.
Thawed(h, frozen, pending) ==
  \A i \in DOMAIN h :
    h[i].body = "short" /\ h[i].id \notin pending => frozen[h[i].id] \in {"none", "short"}

\* A request in flight is of a history without a dangling call, all of it or
\* what comes after the baseline.
InFlight ==
  cxFlight.mode # "none" =>
    /\ ~TailCalls(cxHist) /\ Agrees(cxFlight.full, cxFrozen)
    /\ cxFlight.prev = 0 => cxFlight.delta = cxFlight.full
    /\ cxFlight.prev # 0 => /\ cxFlight.mode = "socket" /\ cxBase.id = cxFlight.prev
                            /\ cxFlight.full = Baseline(cxBase) \o cxFlight.delta

\* What the server saw over a socket that is live is the baseline of its epoch.
Continues ==
  cxServer.here /\ cxSocket = "live" /\ cxBase.id # 0 =>
    cxServer.saw = Baseline(cxBase) /\ Agrees(cxServer.saw, cxFrozen)

CxInv ==
  /\ CxTypeOK /\ Formed(cxHist, cxNext) /\ Thawed(cxHist, cxFrozen, cxPending)
  /\ InFlight /\ Continues /\ ModelSeesHistory

LEMMA Types ==
  CxItems = Seq(CxItem)
BY DEF CxItems, CxItem

\* A history goes on.
LEMMA FormedAppend ==
  ASSUME NEW h, NEW next \in Int, NEW m \in Int, next <= m, Formed(h, next),
         NEW e \in CxEntry, e.id < m, e.role = "result" <=> e.body # "none",
         e.calls => e.role = "turn",
         \/ e.role # "result" /\ ~TailCalls(h) /\ ~(e.id < next)
         \/ e.role = "result" /\ TailCalls(h) /\ e.id = Last(h).id
  PROVE  Formed(Append(h, e), m) /\ (~e.calls => ~TailCalls(Append(h, e)))
<1> DEFINE g == Append(h, e)
           L == Len(h)
<1>1. /\ h \in Seq(CxEntry) /\ L \in Nat /\ DOMAIN h = 1..L
      /\ \A i \in 1..L : h[i] \in CxEntry /\ h[i].id \in Int
  <2>1. h \in Seq(CxEntry)
    BY DEF Formed
  <2>2. \A i \in 1..L : h[i] \in CxEntry
    BY <2>1
  <2> QED BY <2>1, <2>2 DEF CxEntry, CxIds
<1>2. /\ g \in Seq(CxEntry) /\ Len(g) = L + 1 /\ DOMAIN g = 1..L + 1
      /\ g[L + 1] = e /\ \A i \in 1..L : g[i] = h[i]
  BY <1>1
<1>3. \A i \in 1..L + 1 : i \in 1..L \/ i = L + 1
  BY <1>1
<1>4. TailCalls(h) => L \in 1..L /\ h[L].calls /\ h[L].id = Last(h).id
  BY <1>1 DEF TailCalls, Last
<1>5. L \in 1..L /\ h[L].calls => TailCalls(h)
  BY <1>1 DEF TailCalls, Last
<1>6. /\ \A i \in 1..L :
           /\ h[i].id < next /\ (h[i].role = "result" <=> h[i].body # "none")
           /\ h[i].calls => h[i].role = "turn"
           /\ h[i].role = "result" => i > 1 /\ h[i - 1].calls /\ h[i - 1].id = h[i].id
           /\ h[i].calls /\ i < L => h[i + 1].role = "result"
      /\ \A i, j \in 1..L :
           h[i].role # "result" /\ h[j].role # "result" /\ h[i].id = h[j].id => i = j
  BY <1>1 DEF Formed
<1> HIDE DEF g, L
<1>7. ASSUME NEW i \in 1..L + 1
      PROVE  /\ g[i].id < m
             /\ g[i].role = "result" <=> g[i].body # "none"
             /\ g[i].calls => g[i].role = "turn"
             /\ g[i].role = "result" => i > 1 /\ g[i - 1].calls /\ g[i - 1].id = g[i].id
             /\ g[i].calls /\ i < L + 1 => g[i + 1].role = "result"
  <2>1. CASE i \in 1..L
    <3>1. g[i] = h[i] /\ h[i].id < next /\ h[i].id \in Int
      BY <1>1, <1>2, <1>6, <2>1
    <3>2. g[i].id < m
      BY <3>1
    <3>3. (g[i].role = "result" <=> g[i].body # "none") /\ (g[i].calls => g[i].role = "turn")
      BY <1>6, <2>1, <3>1
    <3>4. g[i].role = "result" => i > 1 /\ g[i - 1].calls /\ g[i - 1].id = g[i].id
      <4>1. i > 1 => i - 1 \in 1..L
        BY <1>1, <2>1
      <4> QED BY <1>2, <1>6, <2>1, <3>1, <4>1
    <3>5. g[i].calls => g[i + 1].role = "result"
      <4>1. CASE i < L
        <5>1. i + 1 \in 1..L
          BY <1>1, <2>1, <4>1
        <5> QED BY <1>2, <1>6, <2>1, <3>1, <4>1, <5>1
      <4>2. CASE i = L
        BY <1>2, <1>5, <2>1, <3>1, <4>2
      <4> QED BY <1>1, <2>1, <4>1, <4>2
    <3> QED BY <3>2, <3>3, <3>4, <3>5
  <2>2. CASE i = L + 1
    <3>1. g[i] = e /\ ~(i < L + 1)
      BY <1>1, <1>2, <2>2
    <3>2. e.role = "result" => i > 1 /\ g[i - 1].calls /\ g[i - 1].id = e.id
      <4>1. i - 1 = L
        BY <1>1, <2>2
      <4>2. e.role = "result" => L \in 1..L /\ g[L] = h[L] /\ h[L].calls /\ h[L].id = e.id
        BY <1>2, <1>4
      <4>3. L \in 1..L => i > 1
        BY <1>1, <2>2
      <4> QED BY <4>1, <4>2, <4>3
    <3> QED BY <3>1, <3>2
  <2> QED BY <1>3, <2>1, <2>2
<1>8. ASSUME NEW i \in 1..L + 1, NEW j \in 1..L + 1,
             g[i].role # "result", g[j].role # "result", g[i].id = g[j].id
      PROVE  i = j
  <2>1. CASE i \in 1..L /\ j \in 1..L
    BY <1>2, <1>6, <1>8, <2>1
  <2>2. CASE i = L + 1 /\ j \in 1..L
    BY <1>2, <1>6, <1>8, <2>2
  <2>3. CASE i \in 1..L /\ j = L + 1
    BY <1>2, <1>6, <1>8, <2>3
  <2> QED BY <1>3, <2>1, <2>2, <2>3
<1>9. Formed(g, m)
  <2>1. Len(g) = L + 1 /\ DOMAIN g = 1..L + 1 /\ g \in Seq(CxEntry)
    BY <1>2
  <2> QED BY <2>1, <1>7, <1>8 DEF Formed
<1>10. ~e.calls => ~TailCalls(g)
  BY <1>2 DEF TailCalls, Last
<1> QED BY <1>9, <1>10 DEF g

\* Replacing bodies, or hiding the reasoning, leaves a history what it was.
LEMMA FormedLike ==
  ASSUME NEW h, NEW next, Formed(h, next), NEW g \in Seq(CxEntry), DOMAIN g = DOMAIN h,
         \A i \in DOMAIN h : /\ g[i].role = h[i].role /\ g[i].id = h[i].id
                             /\ g[i].calls = h[i].calls
                             /\ g[i].body # "none" <=> h[i].body # "none"
  PROVE  Formed(g, next) /\ (TailCalls(g) <=> TailCalls(h))
<1>1. /\ h \in Seq(CxEntry) /\ Len(h) \in Nat /\ Len(g) \in Nat
      /\ DOMAIN h = 1..Len(h) /\ DOMAIN g = 1..Len(g)
  BY DEF Formed
<1>2. Len(g) = Len(h)
  BY <1>1
<1>3. ASSUME NEW i \in DOMAIN g
      PROVE  /\ g[i].id < next
             /\ g[i].role = "result" <=> g[i].body # "none"
             /\ g[i].calls => g[i].role = "turn"
             /\ g[i].role = "result" => i > 1 /\ g[i - 1].calls /\ g[i - 1].id = g[i].id
             /\ g[i].calls /\ i < Len(g) => g[i + 1].role = "result"
  <2>1. (i > 1 => i - 1 \in DOMAIN h) /\ (i < Len(g) => i + 1 \in DOMAIN h)
    BY <1>1, <1>2
  <2> QED BY <1>1, <1>2, <2>1 DEF Formed
<1>4. \A i, j \in DOMAIN g :
        g[i].role # "result" /\ g[j].role # "result" /\ g[i].id = g[j].id => i = j
  BY DEF Formed
<1>5. Formed(g, next)
  BY <1>3, <1>4 DEF Formed
<1>6. TailCalls(g) <=> TailCalls(h)
  <2>1. CASE Len(h) = 0
    BY <1>1, <1>2, <2>1 DEF TailCalls
  <2>2. CASE Len(h) # 0
    <3>1. Len(h) \in DOMAIN h /\ h # <<>> /\ g # <<>>
      BY <1>1, <1>2, <2>2
    <3> QED BY <1>2, <3>1 DEF TailCalls, Last
  <2> QED BY <2>1, <2>2
<1> QED BY <1>5, <1>6

LEMMA FormedPrefix ==
  ASSUME NEW h, NEW next, Formed(h, next), NEW k \in 0..Len(h)
  PROVE  LET g == SubSeq(h, 1, k)
         IN /\ Formed(g, next) /\ DOMAIN g = 1..k /\ 1..k \subseteq DOMAIN h
            /\ \A i \in 1..k : g[i] = h[i]
<1> DEFINE g == SubSeq(h, 1, k)
<1>1. /\ h \in Seq(CxEntry) /\ Len(h) \in Nat /\ DOMAIN h = 1..Len(h)
      /\ k \in Nat /\ 1..k \subseteq 1..Len(h) /\ k <= Len(h)
  BY DEF Formed
<1>2. g \in Seq(CxEntry) /\ Len(g) = k /\ DOMAIN g = 1..k /\ \A i \in 1..k : g[i] = h[i]
  BY <1>1
<1> HIDE DEF g
<1>3. ASSUME NEW i \in 1..k
      PROVE  /\ g[i].id < next
             /\ g[i].role = "result" <=> g[i].body # "none"
             /\ g[i].calls => g[i].role = "turn"
             /\ g[i].role = "result" => i > 1 /\ g[i - 1].calls /\ g[i - 1].id = g[i].id
             /\ g[i].calls /\ i < Len(g) => g[i + 1].role = "result"
  <2>1. /\ i > 1 => i - 1 \in 1..k
        /\ i < Len(g) => i + 1 \in 1..k /\ i < Len(h)
        /\ i \in DOMAIN h /\ g[i] = h[i]
    BY <1>1, <1>2
  <2> QED BY <1>1, <1>2, <2>1 DEF Formed
<1>4. \A i, j \in 1..k :
        g[i].role # "result" /\ g[j].role # "result" /\ g[i].id = g[j].id => i = j
  BY <1>1, <1>2 DEF Formed
<1>5. Formed(g, next)
  BY <1>2, <1>3, <1>4 DEF Formed
<1> QED BY <1>1, <1>2, <1>5 DEF g

LEMMA FormedLater ==
  ASSUME NEW h, NEW next \in Int, NEW m \in Int, next <= m, Formed(h, next)
  PROVE  Formed(h, m)
<1>1. h \in Seq(CxEntry) /\ \A i \in DOMAIN h : h[i].id \in Int /\ h[i].id < next
  <2>1. h \in Seq(CxEntry)
    BY DEF Formed
  <2>2. \A i \in DOMAIN h : h[i] \in CxEntry
    BY <2>1
  <2> QED BY <2>1, <2>2 DEF Formed, CxEntry, CxIds
<1>2. \A i \in DOMAIN h : h[i].id < m
  BY <1>1
<1> QED BY <1>2 DEF Formed

LEMMA EntriesAre ==
  ASSUME NEW n \in CxIds, NEW c \in BOOLEAN, NEW s \in BOOLEAN, NEW b \in Bodies
  PROVE  /\ User(n) \in CxEntry /\ Turn(n, c, s) \in CxEntry /\ Result(n, b) \in CxEntry
         /\ User(n).role = "user" /\ Turn(n, c, s).role = "turn" /\ Result(n, b).role = "result"
         /\ User(n).id = n /\ Turn(n, c, s).id = n /\ Result(n, b).id = n
         /\ ~User(n).calls /\ Turn(n, c, s).calls = c /\ ~Result(n, b).calls
         /\ User(n).body = "none" /\ Turn(n, c, s).body = "none" /\ Result(n, b).body = b
<1>1. b # "none"
  BY DEF Bodies
<1>2. User(n) \in CxEntry /\ Turn(n, c, s) \in CxEntry /\ Result(n, b) \in CxEntry
  BY DEF User, Turn, Result, CxEntry
<1> QED BY <1>1, <1>2 DEF User, Turn, Result

-----------------------------------------------------------------------------
(* Requests                                                                *)

CxDelta(s, t) == SubSeq(t, Len(s) + 1, Len(t))

LEMMA PrefixAndRest ==
  ASSUME NEW X, NEW s \in Seq(X), NEW t \in Seq(X), IsPrefix(s, t)
  PROVE  t = s \o CxDelta(s, t) /\ CxDelta(s, t) \in Seq(X)
<1> DEFINE r == CxDelta(s, t)
           w == s \o r
<1>1. /\ Len(s) \in Nat /\ Len(t) \in Nat /\ DOMAIN s = 1..Len(s) /\ DOMAIN t = 1..Len(t)
      /\ Len(s) <= Len(t) /\ SubSeq(s, 1, Len(s)) = SubSeq(t, 1, Len(s))
  BY DEF IsPrefix
<1>2. \A k \in 1..Len(s) : s[k] = t[k]
  <2> TAKE k \in 1..Len(s)
  <2>1. SubSeq(s, 1, Len(s))[k] = s[k] /\ SubSeq(t, 1, Len(s))[k] = t[k]
    BY <1>1
  <2> QED BY <1>1, <2>1
<1>3. /\ r \in Seq(X) /\ Len(r) = Len(t) - Len(s) /\ DOMAIN r = 1..Len(t) - Len(s)
      /\ \A k \in 1..Len(t) - Len(s) : r[k] = t[Len(s) + k]
  <2> DEFINE a == Len(s) + 1
             b == Len(t)
  <2>1. a \in Nat /\ b \in Nat /\ a >= 1 /\ a <= b + 1 /\ b <= Len(t) /\ b - a + 1 = Len(t) - Len(s)
        /\ \A k \in 1..Len(t) - Len(s) : a + k - 1 = Len(s) + k
    BY <1>1
  <2>2. r = SubSeq(t, a, b)
    BY DEF CxDelta
  <2> HIDE DEF a, b, r
  <2>3. r = [k \in 1..b - a + 1 |-> t[a + k - 1]] /\ r \in Seq(X) /\ Len(r) = b - a + 1
    <3>1. \A k \in a..b : t[k] \in X
      BY <1>1, <2>1
    <3> QED BY <2>1, <2>2, <3>1
  <2> QED BY <2>1, <2>3
<1> HIDE DEF r
<1>4. /\ w \in Seq(X) /\ Len(w) = Len(t)
      /\ \A k \in 1..Len(t) : w[k] = IF k <= Len(s) THEN s[k] ELSE r[k - Len(s)]
  <2>0. r \in Seq(X)
    BY <1>3
  <2>1. w \in Seq(X) /\ Len(w) = Len(s) + Len(r)
    BY <2>0
  <2>2. Len(s) + Len(r) = Len(t)
    BY <1>1, <1>3
  <2>3. \A k \in 1..Len(s) + Len(r) : w[k] = IF k <= Len(s) THEN s[k] ELSE r[k - Len(s)]
    BY <1>1, <1>3
  <2> QED BY <2>1, <2>2, <2>3
<1> HIDE DEF w
<1>5. \A k \in 1..Len(t) : w[k] = t[k]
  <2> TAKE k \in 1..Len(t)
  <2>1. CASE k <= Len(s)
    <3>1. k \in 1..Len(s)
      BY <1>1, <2>1
    <3> QED BY <1>2, <1>4, <2>1, <3>1
  <2>2. CASE ~(k <= Len(s))
    <3>1. k - Len(s) \in 1..Len(t) - Len(s) /\ Len(s) + (k - Len(s)) = k
      BY <1>1, <2>2
    <3> QED BY <1>3, <1>4, <2>2, <3>1
  <2> QED BY <2>1, <2>2
<1>6. w = t
  BY <1>1, <1>4, <1>5
<1> QED BY <1>3, <1>6 DEF w, r

CxFlights == [mode : {"none", "socket", "http", "rest"}, full : Seq(CxItem),
              delta : Seq(CxItem), prev : 0..CxMaxIds]

\* What is planned is everything, or the rest after the baseline.
LEMMA PlannedIs ==
  ASSUME CxTypeOK, NEW base, base = cxBase \/ base = NoBase, NEW full \in Seq(CxItem)
  PROVE  LET plan == Planned(base, full)
         IN /\ plan.prev \in 0..CxMaxIds /\ plan.delta \in Seq(CxItem)
            /\ plan.prev = 0 => plan.delta = full
            /\ plan.prev # 0 => base.id = plan.prev /\ full = Baseline(base) \o plan.delta
<1>1. base.input \in Seq(CxItem) /\ base.added \in Seq(CxItem) /\ base.id \in 0..CxMaxIds
  <2>1. cxBase \in [input : Seq(CxItem), added : Seq(CxItem), id : 0..CxMaxIds]
    BY Types DEF CxTypeOK
  <2>2. NoBase \in [input : Seq(CxItem), added : Seq(CxItem), id : 0..CxMaxIds]
    BY CodexAssumption DEF NoBase
  <2> HIDE DEF NoBase
  <2> QED BY <2>1, <2>2
<1>2. Baseline(base) \in Seq(CxItem)
  BY <1>1 DEF Baseline
<1>3. CASE base.id # 0 /\ IsPrefix(Baseline(base), full)
  <2>1. Planned(base, full) = [prev |-> base.id, delta |-> CxDelta(Baseline(base), full)]
    BY <1>3 DEF Planned, CxDelta
  <2>2. full = Baseline(base) \o CxDelta(Baseline(base), full)
        /\ CxDelta(Baseline(base), full) \in Seq(CxItem)
    BY <1>2, <1>3, PrefixAndRest
  <2> QED BY <1>1, <1>3, <2>1, <2>2
<1>4. CASE ~(base.id # 0 /\ IsPrefix(Baseline(base), full))
  <2>1. Planned(base, full) = [prev |-> 0, delta |-> full]
    BY <1>4 DEF Planned, Everything
  <2> QED BY <2>1, CodexAssumption
<1> QED BY <1>3, <1>4

\* Items that agree with what is frozen agree with it when more is.
LEMMA AgreesLater ==
  ASSUME NEW items \in Seq(CxItem), NEW frozen \in Freezes, NEW now, Agrees(items, frozen),
         \A n \in CxIds : frozen[n] # "none" => now[n] = frozen[n]
  PROVE  Agrees(items, now)
<1>1. \A k \in DOMAIN items : items[k].id \in CxIds
  <2>1. \A k \in DOMAIN items : items[k] \in CxItem
    OBVIOUS
  <2> QED BY <2>1 DEF CxItem
<1> QED BY <1>1 DEF Agrees

LEMMA IdsAre ==
  ASSUME NEW h, NEW next, Formed(h, next)
  PROVE  \A i \in DOMAIN h : h[i] \in CxEntry /\ h[i].id \in CxIds
<1>1. h \in Seq(CxEntry)
  BY DEF Formed
<1>2. \A i \in DOMAIN h : h[i] \in CxEntry
  BY <1>1
<1> QED BY <1>2 DEF CxEntry

\* What is frozen for the first time is what the history has.
LEMMA ThawedNow ==
  ASSUME NEW h, NEW next, Formed(h, next), NEW frozen, NEW now, NEW pending,
         Thawed(h, frozen, pending),
         \A n \in CxIds : frozen[n] # "none" => now[n] = frozen[n],
         \A n \in CxIds : frozen[n] = "none" /\ now[n] # "none" =>
           \E i \in DOMAIN h : h[i].role = "result" /\ h[i].id = n /\ h[i].body = now[n]
  PROVE  Thawed(h, now, pending)
<1> SUFFICES ASSUME NEW i \in DOMAIN h, h[i].body = "short", h[i].id \notin pending
             PROVE  now[h[i].id] \in {"none", "short"}
  BY DEF Thawed
<1>1. h[i].id \in CxIds /\ frozen[h[i].id] \in {"none", "short"}
  BY IdsAre DEF Thawed
<1>2. CASE frozen[h[i].id] = "none" /\ now[h[i].id] # "none"
  <2>1. PICK j \in DOMAIN h : /\ h[j].role = "result" /\ h[j].id = h[i].id
                              /\ h[j].body = now[h[i].id]
    BY <1>1, <1>2
  <2>2. h[i].role = "result"
    BY DEF Formed
  <2>3. i = j
    BY <2>1, <2>2, OneResult
  <2> QED BY <2>1, <2>3
<1> QED BY <1>1, <1>2

\* A request for a history without a dangling call, in which nothing else is
\* short, in the epoch or a new one.
LEMMA Request ==
  ASSUME CxInv, NEW h, NEW epoch, CxRequest(h, epoch), Formed(h, cxNext'), ~TailCalls(h),
         epoch \in {ThisEpoch, NewEpoch(ThisEpoch)},
         \A i \in DOMAIN h : h[i].body = "short" =>
            \E j \in DOMAIN cxHist : cxHist[j].body = "short" /\ cxHist[j].id = h[i].id,
         cxNext' \in 1..CxMaxIds + 1, UNCHANGED <<cxTransport, cxFull>>
  PROVE  CxInv'
<1> DEFINE full == Frozen(epoch.frozen, Converted(h))
           now == FreezeNow(epoch.frozen, full)
<1>1. /\ CxTypeOK /\ Formed(cxHist, cxNext) /\ Thawed(cxHist, cxFrozen, cxPending)
      /\ InFlight /\ Continues /\ ModelSeesHistory
  BY DEF CxInv
<1>2. /\ cxHist' = h /\ cxFrozen' = now /\ cxBase' = epoch.base /\ cxPending' = epoch.pending
      /\ CxOverSocket(epoch, full) \/ CxOverHttp(epoch, full)
      /\ cxServer' = [cxServer EXCEPT !.here = @ /\ epoch.socket # "none"]
  BY DEF CxRequest
<1>3. \/ /\ epoch.frozen = cxFrozen /\ epoch.base = cxBase /\ epoch.socket = cxSocket
         /\ epoch.pending = cxPending
      \/ /\ epoch.frozen = NothingFrozen /\ epoch.base = NoBase /\ epoch.socket = "none"
         /\ epoch.pending = {}
  BY DEF ThisEpoch, NewEpoch
<1>4. cxFrozen \in Freezes /\ NothingFrozen \in Freezes
  BY <1>1 DEF CxTypeOK, Freezes, NothingFrozen
<1>5. epoch.frozen \in Freezes
  BY <1>3, <1>4
<1>6. /\ full \in Seq(CxItem) /\ now \in Freezes /\ Agrees(full, now)
      /\ \A n \in CxIds : epoch.frozen[n] # "none" => now[n] = epoch.frozen[n]
      /\ \A n \in CxIds : epoch.frozen[n] = "none" /\ now[n] # "none" =>
           \E i \in DOMAIN h : h[i].role = "result" /\ h[i].id = n /\ h[i].body = now[n]
  <2>1. Fit(Converted(h), h)
    BY ConvertedIs
  <2> QED BY <1>5, <2>1, FrozenIs
<1> HIDE DEF full, now
<1>7. cxServer \in [id : 0..CxMaxIds, saw : Seq(CxItem), meant : Seq(CxItem),
                    here : BOOLEAN, fresh : SUBSET CxIds]
  BY <1>1, Types DEF CxTypeOK
<1>8. /\ cxServer' \in [id : 0..CxMaxIds, saw : Seq(CxItem), meant : Seq(CxItem),
                        here : BOOLEAN, fresh : SUBSET CxIds]
      /\ cxServer'.saw = cxServer.saw /\ cxServer'.meant = cxServer.meant
      /\ cxServer'.fresh = cxServer.fresh
      /\ cxServer'.here => cxServer.here /\ epoch.socket # "none"
  BY <1>2, <1>7
\* The frame and the socket.
<1>9. /\ cxFlight' \in CxFlights /\ cxFlight'.full = full
      /\ cxFlight'.prev = 0 => cxFlight'.delta = full
      /\ cxFlight'.prev # 0 => /\ cxFlight'.mode = "socket" /\ epoch.base.id = cxFlight'.prev
                               /\ full = Baseline(epoch.base) \o cxFlight'.delta
      /\ cxSocket' \in {"none", "live", "dead"} /\ cxFaults' \in 0..CxMaxFaults
      /\ cxSocket' = "live" /\ epoch.socket # "none" => epoch.socket = "live"
  <2>1. cxSocket \in {"none", "live", "dead"} /\ cxFaults \in 0..CxMaxFaults
    BY <1>1 DEF CxTypeOK
  <2>2. epoch.socket \in {"none", "live", "dead"}
    BY <1>3, <2>1
  <2>3. CASE CxOverSocket(epoch, full)
    <3> DEFINE plan == Planned(epoch.base, full)
    <3>1. /\ plan.prev \in 0..CxMaxIds /\ plan.delta \in Seq(CxItem)
          /\ plan.prev = 0 => plan.delta = full
          /\ plan.prev # 0 => /\ epoch.base.id = plan.prev
                              /\ full = Baseline(epoch.base) \o plan.delta
      BY <1>1, <1>3, <1>6, PlannedIs, ZenonT(60)
    <3>2. /\ cxFlight' = [mode |-> "socket", full |-> full, prev |-> plan.prev, delta |-> plan.delta]
          /\ cxSocket' = (IF epoch.socket = "none" THEN "live" ELSE epoch.socket)
          /\ cxFaults' = cxFaults
      BY <2>3 DEF CxOverSocket, Fly
    <3> HIDE DEF plan
    <3> QED BY <1>6, <2>1, <2>2, <3>1, <3>2 DEF CxFlights
  <2>4. CASE CxOverHttp(epoch, full)
    <3>1. /\ \/ cxFlight' = [mode |-> "rest", full |-> full, prev |-> 0, delta |-> full]
             \/ cxFlight' = [mode |-> "http", full |-> full, prev |-> 0, delta |-> full]
          /\ cxSocket' = epoch.socket
          /\ cxFaults' = cxFaults \/ (cxFaults < CxMaxFaults /\ cxFaults' = cxFaults + 1)
      BY <2>4 DEF CxOverHttp, Fly, Everything, CxFault
    <3>2. cxFaults' \in 0..CxMaxFaults
      BY <2>1, <3>1, CodexAssumption
    <3>3. /\ cxFlight' \in CxFlights /\ cxFlight'.full = full
          /\ cxFlight'.prev = 0 /\ cxFlight'.delta = full
      <4>1. 0 \in 0..CxMaxIds
        BY CodexAssumption
      <4>2. CASE cxFlight' = [mode |-> "rest", full |-> full, prev |-> 0, delta |-> full]
        BY <1>6, <4>1, <4>2 DEF CxFlights
      <4>3. CASE cxFlight' = [mode |-> "http", full |-> full, prev |-> 0, delta |-> full]
        BY <1>6, <4>1, <4>3 DEF CxFlights
      <4> QED BY <3>1, <4>2, <4>3
    <3> QED BY <2>2, <3>1, <3>2, <3>3
  <2> QED BY <1>2, <2>3, <2>4
<1>10. CxTypeOK'
  <2>1. cxHist' \in Seq(CxEntry)
    BY <1>2 DEF Formed
  <2>2. cxBase' \in [input : CxItems, added : CxItems, id : 0..CxMaxIds]
    <3>1. cxBase \in [input : Seq(CxItem), added : Seq(CxItem), id : 0..CxMaxIds]
      BY <1>1, Types DEF CxTypeOK
    <3>2. NoBase \in [input : Seq(CxItem), added : Seq(CxItem), id : 0..CxMaxIds]
      BY CodexAssumption DEF NoBase
    <3> QED BY <1>2, <1>3, <3>1, <3>2, Types
  <2>3. cxPending' \subseteq CxIds
    BY <1>1, <1>2, <1>3 DEF CxTypeOK
  <2>4. cxTransport' \in CxTransports /\ cxFull' \in BOOLEAN
    BY <1>1 DEF CxTypeOK
  <2>5. cxFrozen' \in [CxIds -> Bodies \cup {"none"}]
    BY <1>2, <1>6 DEF Freezes
  <2> QED BY <1>8, <1>9, <2>1, <2>2, <2>3, <2>4, <2>5, Types DEF CxTypeOK, CxFlights
<1>11. Thawed(h, now, epoch.pending)
  <2>1. Thawed(h, epoch.frozen, epoch.pending)
    <3>1. \A i \in DOMAIN h : h[i].id \in CxIds
      BY IdsAre
    <3> QED BY <1>1, <1>3, <3>1 DEF Thawed, NothingFrozen
  <2> QED BY <1>5, <1>6, <2>1, ThawedNow
<1>12. InFlight'
  BY <1>2, <1>6, <1>9 DEF InFlight, Baseline
<1>13. Continues'
  <2> SUFFICES ASSUME cxServer'.here, cxSocket' = "live", cxBase'.id # 0
               PROVE  cxServer'.saw = Baseline(cxBase') /\ Agrees(cxServer'.saw, cxFrozen')
    BY DEF Continues, Baseline
  <2>1. cxServer.here /\ epoch.socket = "live"
    BY <1>8, <1>9
  <2>2. epoch.frozen = cxFrozen /\ epoch.base = cxBase /\ epoch.socket = cxSocket
    BY <1>3, <2>1
  <2>3. cxServer.saw = Baseline(cxBase) /\ Agrees(cxServer.saw, cxFrozen)
    BY <1>1, <1>2, <2>1, <2>2 DEF Continues
  <2>4. Agrees(cxServer.saw, now)
    BY <1>4, <1>6, <1>7, <2>2, <2>3, AgreesLater
  <2> QED BY <1>2, <1>8, <2>2, <2>3, <2>4
<1>14. ModelSeesHistory'
  BY <1>1, <1>8 DEF ModelSeesHistory
<1> QED BY <1>2, <1>10, <1>11, <1>12, <1>13, <1>14 DEF CxInv

\* What the invariant says of the state, for the proofs about each step.
CxKnown ==
  /\ cxTransport \in CxTransports /\ cxFull \in BOOLEAN
  /\ cxHist \in Seq(CxEntry) /\ cxNext \in 1..CxMaxIds + 1 /\ cxFrozen \in Freezes
  /\ cxBase \in [input : Seq(CxItem), added : Seq(CxItem), id : 0..CxMaxIds]
  /\ cxSocket \in {"none", "live", "dead"} /\ cxPending \subseteq CxIds
  /\ cxFlight \in CxFlights
  /\ cxServer \in [id : 0..CxMaxIds, saw : Seq(CxItem), meant : Seq(CxItem),
                   here : BOOLEAN, fresh : SUBSET CxIds]
  /\ cxFaults \in 0..CxMaxFaults

LEMMA Known == CxKnown <=> CxTypeOK
BY Types DEF CxKnown, CxTypeOK, Freezes, CxFlights

LEMMA FaultTyped ==
  ASSUME CxTypeOK, CxFault \/ UNCHANGED cxFaults PROVE cxFaults' \in 0..CxMaxFaults
<1>1. cxFaults \in 0..CxMaxFaults
  BY DEF CxTypeOK
<1> QED BY <1>1, CodexAssumption DEF CxFault

\* The shorts of a history with one more entry are its own.
LEMMA AppendedShorts ==
  ASSUME NEW h \in Seq(CxEntry), NEW e \in CxEntry, e.body # "short",
         NEW i \in DOMAIN Append(h, e), Append(h, e)[i].body = "short"
  PROVE  i \in DOMAIN h /\ Append(h, e)[i] = h[i]
<1>1. /\ Len(h) \in Nat /\ DOMAIN h = 1..Len(h) /\ DOMAIN Append(h, e) = 1..Len(h) + 1
      /\ \A k \in 1..Len(h) : Append(h, e)[k] = h[k] /\ Append(h, e)[Len(h) + 1] = e
      /\ Append(h, e)[Len(h) + 1] = e
  OBVIOUS
<1>2. i # Len(h) + 1
  BY <1>1
<1> QED BY <1>1, <1>2

LEMMA SendTextKeeps == CxInv /\ CxSendText => CxInv'
<1> SUFFICES ASSUME CxInv, CxSendText PROVE CxInv'
  OBVIOUS
<1> DEFINE closed == Closed(cxHist)
           h == Append(closed, User(cxNext))
<1>1. /\ Formed(cxHist, cxNext) /\ cxNext \in 1..CxMaxIds /\ cxNext' = cxNext + 1
      /\ cxHist \in Seq(CxEntry) /\ cxNext \in Int /\ cxNext' \in 1..CxMaxIds + 1
  <2>1. cxNext \in 1..CxMaxIds + 1
    BY DEF CxInv, CxTypeOK
  <2> QED BY <2>1, CodexAssumption DEF CxInv, CxTypeOK, CxSendText
<1>2. /\ Formed(closed, cxNext) /\ ~TailCalls(closed) /\ closed \in Seq(CxEntry)
      /\ \A i \in DOMAIN closed : closed[i].body = "short" =>
           i \in DOMAIN cxHist /\ closed[i] = cxHist[i]
  <2>1. CASE TailCalls(cxHist)
    <3> DEFINE e == Result(Last(cxHist).id, "aborted")
    <3>1. Last(cxHist).id \in CxIds /\ Last(cxHist).id < cxNext
      <4>1. Len(cxHist) \in DOMAIN cxHist
        BY <1>1, <2>1 DEF TailCalls
      <4>2. cxHist[Len(cxHist)].id \in CxIds /\ cxHist[Len(cxHist)].id < cxNext
        BY <1>1, <4>1, IdsAre DEF Formed
      <4> QED BY <4>2 DEF Last
    <3>2. /\ e \in CxEntry /\ e.role = "result" /\ e.id = Last(cxHist).id /\ ~e.calls
          /\ e.body = "aborted"
      BY <3>1, EntriesAre DEF Bodies
    <3>3. closed = Append(cxHist, e)
      BY <2>1 DEF Closed
    <3> HIDE DEF e, closed
    <3>4. Formed(closed, cxNext) /\ ~TailCalls(closed)
      BY <1>1, <2>1, <3>1, <3>2, <3>3, FormedAppend
    <3>5. closed \in Seq(CxEntry)
      BY <3>4 DEF Formed
    <3> QED BY <1>1, <3>2, <3>3, <3>4, <3>5, AppendedShorts
  <2>2. CASE ~TailCalls(cxHist)
    <3>1. closed = cxHist
      BY <2>2 DEF Closed
    <3> QED BY <1>1, <2>2, <3>1
  <2> QED BY <2>1, <2>2
<1> HIDE DEF closed
<1>3. /\ User(cxNext) \in CxEntry /\ User(cxNext).role = "user" /\ User(cxNext).id = cxNext
      /\ ~User(cxNext).calls /\ User(cxNext).body = "none"
  <2>1. cxNext \in CxIds
    BY <1>1 DEF CxIds
  <2> QED BY <2>1 DEF User, CxEntry
<1>4. Formed(h, cxNext') /\ ~TailCalls(h)
  <2>1. cxNext <= cxNext + 1 /\ cxNext < cxNext + 1 /\ cxNext + 1 \in Int
    BY <1>1
  <2> QED BY <1>1, <1>2, <1>3, <2>1, FormedAppend
<1>5. \A i \in DOMAIN h : h[i].body = "short" =>
        \E j \in DOMAIN cxHist : cxHist[j].body = "short" /\ cxHist[j].id = h[i].id
  <2> SUFFICES ASSUME NEW i \in DOMAIN h, h[i].body = "short"
               PROVE  \E j \in DOMAIN cxHist : cxHist[j].body = "short" /\ cxHist[j].id = h[i].id
    OBVIOUS
  <2>1. i \in DOMAIN closed /\ h[i] = closed[i]
    BY <1>2, <1>3, AppendedShorts
  <2> QED BY <1>2, <2>1
<1>6. /\ CxRequest(h, EpochAtSend) /\ EpochAtSend \in {ThisEpoch, NewEpoch(ThisEpoch)}
      /\ UNCHANGED <<cxTransport, cxFull>>
  BY DEF CxSendText, EpochAtSend, h, closed
<1> HIDE DEF h
<1> QED BY <1>1, <1>4, <1>5, <1>6, Request

LEMMA SendResultKeeps == CxInv /\ CxSendResult => CxInv'
<1> SUFFICES ASSUME CxInv, CxSendResult PROVE CxInv'
  OBVIOUS
<1> DEFINE moved == MetaMoved(cxHist)
           e == Result(Last(cxHist).id, "live")
           h == Append(moved, e)
<1>1. /\ Formed(cxHist, cxNext) /\ TailCalls(cxHist) /\ cxNext' = cxNext
      /\ cxHist \in Seq(CxEntry) /\ cxNext \in Int /\ cxNext' \in 1..CxMaxIds + 1
  BY DEF CxInv, CxTypeOK, CxSendResult
<1>2. \A i \in DOMAIN cxHist : cxHist[i] \in CxEntry
  BY <1>1, IdsAre
<1>3. /\ DOMAIN moved = DOMAIN cxHist /\ moved \in Seq(CxEntry)
      /\ \A i \in DOMAIN cxHist :
           /\ moved[i].role = cxHist[i].role /\ moved[i].id = cxHist[i].id
           /\ moved[i].calls = cxHist[i].calls
           /\ moved[i].body = IF cxHist[i].body = "live" THEN "bare" ELSE cxHist[i].body
  <2> DEFINE M(x) == [x EXCEPT !.body = IF @ = "live" THEN "bare" ELSE @]
  <2>1. ASSUME NEW x \in CxEntry
        PROVE  /\ M(x) \in CxEntry /\ M(x).role = x.role /\ M(x).id = x.id /\ M(x).calls = x.calls
               /\ M(x).body = IF x.body = "live" THEN "bare" ELSE x.body
    BY DEF CxEntry, Bodies
  <2>2. moved = [i \in 1..Len(cxHist) |-> M(cxHist[i])]
    BY <1>1 DEF MetaMoved
  <2> HIDE DEF M, moved
  <2> QED BY <1>1, <1>2, <2>1, <2>2
<1> HIDE DEF moved
<1>4. Formed(moved, cxNext) /\ TailCalls(moved) /\ Last(moved).id = Last(cxHist).id
  <2>1. Formed(moved, cxNext) /\ TailCalls(moved)
    BY <1>1, <1>3, FormedLike
  <2>2. Len(moved) = Len(cxHist) /\ Len(cxHist) \in DOMAIN cxHist
    BY <1>1, <1>3 DEF TailCalls
  <2> QED BY <1>3, <2>1, <2>2 DEF Last
<1>5. /\ e \in CxEntry /\ e.role = "result" /\ e.id = Last(moved).id /\ ~e.calls
      /\ e.body = "live" /\ e.id < cxNext
  <2>1. Last(cxHist).id \in CxIds /\ Last(cxHist).id < cxNext
    <3>1. Len(cxHist) \in DOMAIN cxHist
      BY <1>1 DEF TailCalls
    <3>2. cxHist[Len(cxHist)].id \in CxIds /\ cxHist[Len(cxHist)].id < cxNext
      BY <1>1, <3>1, IdsAre DEF Formed
    <3> QED BY <3>2 DEF Last
  <2> QED BY <1>4, <2>1, EntriesAre DEF Bodies
<1> HIDE DEF e
<1>6. Formed(h, cxNext') /\ ~TailCalls(h)
  BY <1>1, <1>4, <1>5, FormedAppend
<1>7. \A i \in DOMAIN h : h[i].body = "short" =>
        \E j \in DOMAIN cxHist : cxHist[j].body = "short" /\ cxHist[j].id = h[i].id
  <2> SUFFICES ASSUME NEW i \in DOMAIN h, h[i].body = "short"
               PROVE  \E j \in DOMAIN cxHist : cxHist[j].body = "short" /\ cxHist[j].id = h[i].id
    OBVIOUS
  <2>1. i \in DOMAIN moved /\ h[i] = moved[i]
    BY <1>3, <1>5, AppendedShorts
  <2> QED BY <1>3, <2>1
<1>8. /\ CxRequest(h, EpochAtSend) /\ EpochAtSend \in {ThisEpoch, NewEpoch(ThisEpoch)}
      /\ UNCHANGED <<cxTransport, cxFull>>
  BY DEF CxSendResult, EpochAtSend, h, moved, e
<1> HIDE DEF h
<1> QED BY <1>1, <1>6, <1>7, <1>8, Request

-----------------------------------------------------------------------------
(* Outcomes                                                                *)

LEMMA RealIs ==
  ASSUME NEW items \in Seq(CxItem), NEW frozen, Agrees(items, frozen)
  PROVE  Real(items) = items
<1>1. \A k \in DOMAIN items : items[k] \in {i \in ToSet(items) : i.body # "orphan"}
  BY DEF Agrees, ToSet
<1> QED BY <1>1, OnlyAll DEF Real

LEMMA AgreesJoin ==
  ASSUME NEW s \in Seq(CxItem), NEW t \in Seq(CxItem), NEW frozen,
         Agrees(s, frozen), Agrees(t, frozen)
  PROVE  s \o t \in Seq(CxItem) /\ Agrees(s \o t, frozen)
<1> DEFINE w == s \o t
<1>1. /\ w \in Seq(CxItem) /\ DOMAIN w = 1..Len(s) + Len(t)
      /\ Len(s) \in Nat /\ Len(t) \in Nat /\ DOMAIN s = 1..Len(s) /\ DOMAIN t = 1..Len(t)
      /\ \A k \in 1..Len(s) + Len(t) : w[k] = IF k <= Len(s) THEN s[k] ELSE t[k - Len(s)]
  OBVIOUS
<1> HIDE DEF w
<1>2. \A k \in DOMAIN w : (\E m \in DOMAIN s : w[k] = s[m]) \/ (\E m \in DOMAIN t : w[k] = t[m])
  <2> TAKE k \in DOMAIN w
  <2>1. CASE k <= Len(s)
    <3>1. k \in DOMAIN s /\ w[k] = s[k]
      BY <1>1, <2>1
    <3> QED BY <3>1
  <2>2. CASE ~(k <= Len(s))
    <3>1. k - Len(s) \in DOMAIN t /\ w[k] = t[k - Len(s)]
      BY <1>1, <2>2
    <3> QED BY <3>1
  <2> QED BY <2>1, <2>2
<1>3. Agrees(w, frozen)
  BY <1>2 DEF Agrees
<1> QED BY <1>1, <1>3 DEF w

\* A turn that was answered: the history goes on with it, and the next
\* conversion gives its items.
LEMMA AfterTurn ==
  ASSUME CxInv, ~CxIdle, cxNext <= CxMaxIds, NEW c \in BOOLEAN, NEW s \in BOOLEAN
  PROVE  LET turn == Turn(cxNext, c, s)
         IN /\ cxNext \in CxIds /\ cxNext + 1 \in 1..CxMaxIds + 1
            /\ Append(cxHist, turn) \in Seq(CxEntry) /\ Formed(Append(cxHist, turn), cxNext + 1)
            /\ Thawed(Append(cxHist, turn), cxFrozen, cxPending)
            /\ ItemsOf(turn) \in Seq(CxItem) /\ Agrees(ItemsOf(turn), cxFrozen)
            /\ Real(cxFlight.full) = cxFlight.full /\ Agrees(cxFlight.full, cxFrozen)
<1> DEFINE turn == Turn(cxNext, c, s)
           h == Append(cxHist, turn)
<1>1. CxKnown /\ Formed(cxHist, cxNext) /\ Thawed(cxHist, cxFrozen, cxPending)
  BY Known DEF CxInv
<1>2. ~TailCalls(cxHist) /\ Agrees(cxFlight.full, cxFrozen)
  BY DEF CxInv, CxIdle, InFlight
<1>3. cxNext \in CxIds /\ cxNext \in Int /\ cxNext + 1 \in 1..CxMaxIds + 1
      /\ cxNext <= cxNext + 1 /\ cxNext < cxNext + 1 /\ cxNext + 1 \in Int /\ ~(cxNext < cxNext)
  BY <1>1, CodexAssumption DEF CxKnown, CxIds
<1>4. /\ turn \in CxEntry /\ turn.role = "turn" /\ turn.id = cxNext /\ turn.body = "none"
  BY <1>3 DEF Turn, CxEntry
<1> HIDE DEF turn
<1>5. Formed(h, cxNext + 1)
  BY <1>1, <1>2, <1>3, <1>4, FormedAppend
<1>6. Thawed(h, cxFrozen, cxPending)
  <2>1. ASSUME NEW i \in DOMAIN h, h[i].body = "short"
        PROVE  i \in DOMAIN cxHist /\ h[i] = cxHist[i]
    BY <1>1, <1>4, <2>1, AppendedShorts DEF CxKnown
  <2> QED BY <1>1, <2>1 DEF Thawed
<1>7. ItemsOf(turn) \in Seq(CxItem) /\ Agrees(ItemsOf(turn), cxFrozen)
  <2>1. LET t == ItemsOf(turn)
        IN /\ t \in Seq(CxItem)
           /\ \A m \in DOMAIN t :
                /\ t[m].body # "orphan"
                /\ t[m].kind = "output" => turn.role = "result"
    BY <1>4, ItemsAre
  <2> QED BY <1>4, <2>1 DEF Agrees
<1>8. Real(cxFlight.full) = cxFlight.full
  <2>1. cxFlight.full \in Seq(CxItem)
    BY <1>1 DEF CxKnown, CxFlights
  <2> QED BY <1>2, <2>1, RealIs
<1>9. h \in Seq(CxEntry)
  BY <1>5 DEF Formed
<1> QED BY <1>2, <1>3, <1>5, <1>6, <1>7, <1>8, <1>9 DEF turn

LEMMA NoFlightTyped == NoFlight \in CxFlights
<1>1. 0 \in 0..CxMaxIds /\ <<>> \in Seq(CxItem)
  BY CodexAssumption
<1> QED BY <1>1 DEF NoFlight, CxFlights

LEMMA Complete ==
  ASSUME CxInv, NEW calls \in BOOLEAN, NEW secret \in BOOLEAN, NEW full \in BOOLEAN,
         CxComplete(calls, secret, full)
  PROVE  CxInv'
<1> DEFINE turn == Turn(cxNext, calls, secret)
           added == ItemsOf(turn)
           sent == cxFlight.full
           context == (IF cxFlight.prev = 0 THEN <<>> ELSE cxServer.saw) \o cxFlight.delta
           fresh == {cxHist[i].id : i \in {j \in DOMAIN cxHist : cxHist[j].body = "short"}}
                    \ cxPending
<1>1. /\ CxKnown /\ Formed(cxHist, cxNext) /\ Thawed(cxHist, cxFrozen, cxPending)
      /\ InFlight /\ Continues /\ ModelSeesHistory
  BY Known DEF CxInv
<1>2. /\ ~CxIdle /\ cxNext <= CxMaxIds
      /\ cxFlight.mode = "socket" => cxSocket = "live" /\ (cxFlight.prev # 0 => cxServer.here)
      /\ cxHist' = Append(cxHist, turn)
      /\ cxServer' = [id |-> cxNext, saw |-> context \o added, meant |-> sent \o added,
                      here |-> cxFlight.mode = "socket", fresh |-> fresh]
      /\ cxBase' = IF cxFlight.mode = "http" THEN cxBase
                   ELSE [input |-> Real(sent), added |-> added, id |-> cxNext]
      /\ cxNext' = cxNext + 1 /\ cxFlight' = NoFlight /\ cxFull' = full
      /\ UNCHANGED <<cxTransport, cxFrozen, cxSocket, cxPending, cxFaults>>
  BY DEF CxComplete, BaselineAfter
<1>3. /\ cxNext \in CxIds /\ cxNext + 1 \in 1..CxMaxIds + 1
      /\ Append(cxHist, turn) \in Seq(CxEntry) /\ Formed(Append(cxHist, turn), cxNext + 1)
      /\ Thawed(Append(cxHist, turn), cxFrozen, cxPending)
      /\ added \in Seq(CxItem) /\ Agrees(added, cxFrozen)
      /\ Real(sent) = sent /\ Agrees(sent, cxFrozen)
  BY <1>2, AfterTurn
<1>4. sent \in Seq(CxItem) /\ cxFlight.delta \in Seq(CxItem) /\ cxServer.saw \in Seq(CxItem)
  BY <1>1 DEF CxKnown, CxFlights
\* What was sent completes what the server had seen.
<1>5. context = sent
  <2>1. CASE cxFlight.prev = 0
    <3>1. cxFlight.delta = sent
      BY <1>1, <1>2, <2>1 DEF InFlight, CxIdle
    <3>2. <<>> \o sent = sent
      BY <1>4
    <3> QED BY <2>1, <3>1, <3>2
  <2>2. CASE cxFlight.prev # 0
    <3>1. /\ cxFlight.mode = "socket" /\ cxBase.id = cxFlight.prev
          /\ sent = Baseline(cxBase) \o cxFlight.delta
      BY <1>1, <1>2, <2>2 DEF InFlight, CxIdle
    <3>2. cxServer.saw = Baseline(cxBase)
      BY <1>1, <1>2, <2>2, <3>1 DEF Continues
    <3> QED BY <2>2, <3>1, <3>2
  <2> QED BY <2>1, <2>2
<1>6. fresh \subseteq CxIds
  BY <1>1, IdsAre
<1>7. \A n \in fresh : cxFrozen[n] \in {"none", "short"}
  BY <1>1 DEF Thawed
<1> HIDE DEF turn, added, sent, context, fresh
<1> DEFINE saw == sent \o added
<1>8. saw \in Seq(CxItem) /\ Agrees(saw, cxFrozen)
  BY <1>3, <1>4, AgreesJoin
<1>9. /\ cxServer'.saw = saw /\ cxServer'.meant = saw /\ cxServer'.fresh = fresh
      /\ cxServer'.here = (cxFlight.mode = "socket")
  BY <1>2, <1>5
<1> HIDE DEF saw
<1>10. CxKnown'
  <2>1. cxServer' \in [id : 0..CxMaxIds, saw : Seq(CxItem), meant : Seq(CxItem),
                       here : BOOLEAN, fresh : SUBSET CxIds]
    <3>1. cxNext \in 0..CxMaxIds
      BY <1>3 DEF CxIds
    <3>2. cxServer' = [id |-> cxNext, saw |-> saw, meant |-> saw,
                       here |-> cxFlight.mode = "socket", fresh |-> fresh]
      BY <1>2, <1>5 DEF saw
    <3>3. (cxFlight.mode = "socket") \in BOOLEAN
      OBVIOUS
    <3> DEFINE here == cxFlight.mode = "socket"
    <3> HIDE DEF here
    <3>4. cxServer' = [id |-> cxNext, saw |-> saw, meant |-> saw, here |-> here, fresh |-> fresh]
      BY <3>2 DEF here
    <3>5. here \in BOOLEAN
      BY DEF here
    <3> QED BY <1>6, <1>8, <3>1, <3>4, <3>5
  <2>2. cxBase' \in [input : Seq(CxItem), added : Seq(CxItem), id : 0..CxMaxIds]
    <3>1. cxNext \in 0..CxMaxIds
      BY <1>3 DEF CxIds
    <3> DEFINE b == [input |-> Real(sent), added |-> added, id |-> cxNext]
    <3>2. b \in [input : Seq(CxItem), added : Seq(CxItem), id : 0..CxMaxIds]
      BY <1>3, <1>4, <3>1
    <3>3. cxBase' = cxBase \/ cxBase' = b
      BY <1>2
    <3> HIDE DEF b
    <3> QED BY <1>1, <3>2, <3>3 DEF CxKnown
  <2>3. cxFlight' \in CxFlights
    BY <1>2, NoFlightTyped
  <2> QED BY <1>1, <1>2, <1>3, <2>1, <2>2, <2>3 DEF CxKnown
<1>11. Formed(cxHist', cxNext') /\ Thawed(cxHist', cxFrozen', cxPending')
  BY <1>2, <1>3 DEF turn
<1>12. InFlight'
  BY <1>2 DEF InFlight, NoFlight
<1>13. Continues'
  <2> SUFFICES ASSUME cxServer'.here
               PROVE  cxServer'.saw = Baseline(cxBase') /\ Agrees(cxServer'.saw, cxFrozen')
    BY DEF Continues, Baseline
  <2>1. cxFlight.mode = "socket"
    BY <1>9
  <2>2. cxBase' = [input |-> Real(sent), added |-> added, id |-> cxNext]
    BY <1>2, <2>1
  <2>3. Baseline(cxBase') = saw
    BY <1>3, <2>2 DEF Baseline, saw
  <2> QED BY <1>2, <1>8, <1>9, <2>3
<1>14. ModelSeesHistory'
  <2>1. ASSUME NEW k \in DOMAIN saw, saw[k].kind = "output", saw[k].id \in fresh
        PROVE  saw[k].body = "short"
    BY <1>7, <1>8, <2>1 DEF Agrees
  <2> QED BY <1>9, <2>1 DEF ModelSeesHistory, Real
<1>15. CxTypeOK'
  BY <1>10, Types DEF CxKnown, CxTypeOK, Freezes, CxFlights
<1> QED BY <1>11, <1>12, <1>13, <1>14, <1>15 DEF CxInv

LEMMA CutShort == CxInv /\ CxCutShort => CxInv'
<1> SUFFICES ASSUME CxInv, CxCutShort PROVE CxInv'
  OBVIOUS
<1> DEFINE turn == Turn(cxNext, FALSE, FALSE)
           b == [input |-> Real(cxFlight.full), added |-> ItemsOf(turn), id |-> cxBase.id]
<1>1. CxKnown /\ ModelSeesHistory /\ CxTypeOK
  BY Known DEF CxInv
<1>2. /\ ~CxIdle /\ cxNext <= CxMaxIds /\ CxFault
      /\ cxHist' = Append(cxHist, turn) /\ (cxBase' = cxBase \/ cxBase' = b)
      /\ cxSocket' = "dead" /\ cxFull' = FALSE
      /\ cxNext' = cxNext + 1 /\ cxFlight' = NoFlight
      /\ UNCHANGED <<cxTransport, cxFrozen, cxPending, cxServer>>
  BY DEF CxCutShort, CxIdle, BaselineAfter
<1>3. /\ cxNext \in CxIds /\ cxNext + 1 \in 1..CxMaxIds + 1
      /\ Append(cxHist, turn) \in Seq(CxEntry) /\ Formed(Append(cxHist, turn), cxNext + 1)
      /\ Thawed(Append(cxHist, turn), cxFrozen, cxPending)
      /\ ItemsOf(turn) \in Seq(CxItem) /\ Real(cxFlight.full) = cxFlight.full
  BY <1>2, AfterTurn
<1>4. b \in [input : Seq(CxItem), added : Seq(CxItem), id : 0..CxMaxIds]
  <2>1. cxFlight.full \in Seq(CxItem) /\ cxBase.id \in 0..CxMaxIds
    BY <1>1 DEF CxKnown, CxFlights
  <2> QED BY <1>3, <2>1
<1> HIDE DEF turn, b
<1>5. CxTypeOK'
  <2>1. cxFaults' \in 0..CxMaxFaults
    BY <1>1, <1>2, FaultTyped
  <2>2. CxKnown'
    BY <1>1, <1>2, <1>3, <1>4, <2>1, NoFlightTyped DEF CxKnown
  <2> QED BY <2>2, Types DEF CxKnown, CxTypeOK, Freezes, CxFlights
<1>6. Formed(cxHist', cxNext') /\ Thawed(cxHist', cxFrozen', cxPending')
  BY <1>2, <1>3
<1>7. InFlight' /\ Continues'
  BY <1>2 DEF InFlight, NoFlight, Continues
<1>8. ModelSeesHistory'
  BY <1>1, <1>2 DEF ModelSeesHistory
<1> QED BY <1>5, <1>6, <1>7, <1>8 DEF CxInv

\* What is left of a history when its last request is undone.
LEMMA UndoneIs ==
  ASSUME NEW h, NEW next, Formed(h, next)
  PROVE  /\ Formed(Undone(h), next)
         /\ DOMAIN Undone(h) \subseteq DOMAIN h /\ \A i \in DOMAIN Undone(h) : Undone(h)[i] = h[i]
<1> DEFINE kept == {i \in DOMAIN h : \E j \in i..Len(h) : h[j].role = "turn"}
           n == Cardinality(kept)
<1>1. Len(h) \in Nat /\ DOMAIN h = 1..Len(h) /\ kept \subseteq 1..Len(h)
  BY DEF Formed
<1>2. IsFiniteSet(1..Len(h)) /\ Cardinality(1..Len(h)) = Len(h)
  BY <1>1, FS_Interval
<1>3. n \in 0..Len(h)
  <2>1. IsFiniteSet(kept) /\ n <= Cardinality(1..Len(h))
    BY <1>1, <1>2, FS_Subset
  <2>2. n \in Nat
    BY <2>1, FS_CardinalityType
  <2> HIDE DEF n
  <2> QED BY <1>1, <1>2, <2>1, <2>2
<1>4. Undone(h) = h \/ Undone(h) = SubSeq(h, 1, n)
  BY DEF Undone
<1> HIDE DEF n
<1>5. /\ Formed(SubSeq(h, 1, n), next) /\ DOMAIN SubSeq(h, 1, n) \subseteq DOMAIN h
      /\ \A i \in DOMAIN SubSeq(h, 1, n) : SubSeq(h, 1, n)[i] = h[i]
  BY <1>3, FormedPrefix
<1> QED BY <1>4, <1>5

LEMMA FailKeeps == CxInv /\ CxFail => CxInv'
<1> SUFFICES ASSUME CxInv, CxFail PROVE CxInv'
  OBVIOUS
<1>1. /\ CxKnown /\ CxTypeOK /\ Formed(cxHist, cxNext) /\ Thawed(cxHist, cxFrozen, cxPending)
      /\ Continues /\ ModelSeesHistory
  BY Known DEF CxInv
<1>2. /\ cxHist' = Undone(cxHist) /\ cxFlight' = NoFlight /\ (CxFault \/ UNCHANGED cxFaults)
      /\ cxSocket' = IF cxFlight.mode = "socket" THEN "none" ELSE cxSocket
      /\ cxServer' = [cxServer EXCEPT !.here = @ /\ cxFlight.mode # "socket"]
      /\ UNCHANGED <<cxTransport, cxNext, cxFrozen, cxBase, cxPending, cxFull>>
  BY DEF CxFail
<1>3. /\ cxServer' \in [id : 0..CxMaxIds, saw : Seq(CxItem), meant : Seq(CxItem),
                        here : BOOLEAN, fresh : SUBSET CxIds]
      /\ cxServer'.saw = cxServer.saw /\ cxServer'.meant = cxServer.meant
      /\ cxServer'.fresh = cxServer.fresh
      /\ cxServer'.here => cxServer.here /\ cxFlight.mode # "socket"
  BY <1>1, <1>2 DEF CxKnown
<1>4. /\ Formed(cxHist', cxNext) /\ DOMAIN cxHist' \subseteq DOMAIN cxHist
      /\ \A i \in DOMAIN cxHist' : cxHist'[i] = cxHist[i]
  BY <1>1, <1>2, UndoneIs
<1>5. CxTypeOK'
  <2>1. cxFaults' \in 0..CxMaxFaults
    BY <1>1, <1>2, FaultTyped
  <2>2. cxHist' \in Seq(CxEntry)
    BY <1>4 DEF Formed
  <2>3. cxSocket' \in {"none", "live", "dead"}
    BY <1>1, <1>2 DEF CxKnown
  <2>4. CxKnown'
    BY <1>1, <1>2, <1>3, <2>1, <2>2, <2>3, NoFlightTyped DEF CxKnown
  <2> QED BY <2>4, Types DEF CxKnown, CxTypeOK, Freezes, CxFlights
<1>6. Formed(cxHist', cxNext') /\ Thawed(cxHist', cxFrozen', cxPending')
  BY <1>1, <1>2, <1>4 DEF Thawed
<1>7. InFlight'
  BY <1>2 DEF InFlight, NoFlight
<1>8. Continues'
  BY <1>1, <1>2, <1>3 DEF Continues, Baseline
<1>9. ModelSeesHistory'
  BY <1>1, <1>3 DEF ModelSeesHistory
<1> QED BY <1>5, <1>6, <1>7, <1>8, <1>9 DEF CxInv

LEMMA HealKeeps == CxInv /\ CxHeal => CxInv'
<1> SUFFICES ASSUME CxInv, CxHeal PROVE CxInv'
  OBVIOUS
<1> DEFINE h == [i \in DOMAIN cxHist |-> [cxHist[i] EXCEPT !.secret = FALSE]]
           full == Frozen(NothingFrozen, Converted(h))
           now == FreezeNow(NothingFrozen, full)
<1>1. /\ CxKnown /\ CxTypeOK /\ Formed(cxHist, cxNext) /\ InFlight /\ ModelSeesHistory
  BY Known DEF CxInv
<1>2. /\ cxFlight.mode \in {"rest", "http"} /\ CxFault
      /\ cxHist' = h /\ cxFrozen' = now /\ cxBase' = NoBase /\ cxPending' = {}
      /\ cxSocket' = "none"
      /\ cxFlight' = [cxFlight EXCEPT !.full = full, !.delta = full]
      /\ cxServer' = [cxServer EXCEPT !.here = FALSE]
      /\ UNCHANGED <<cxTransport, cxNext, cxFull>>
  BY DEF CxHeal, NewEpoch
<1>3. /\ DOMAIN h = DOMAIN cxHist /\ h \in Seq(CxEntry)
      /\ \A i \in DOMAIN cxHist :
           /\ h[i].role = cxHist[i].role /\ h[i].id = cxHist[i].id
           /\ h[i].calls = cxHist[i].calls /\ h[i].body = cxHist[i].body
  <2> DEFINE M(x) == [x EXCEPT !.secret = FALSE]
  <2>1. ASSUME NEW x \in CxEntry
        PROVE  /\ M(x) \in CxEntry /\ M(x).role = x.role /\ M(x).id = x.id /\ M(x).calls = x.calls
               /\ M(x).body = x.body
    BY DEF CxEntry
  <2>2. h = [i \in 1..Len(cxHist) |-> M(cxHist[i])]
    BY <1>1 DEF CxKnown
  <2>3. cxHist \in Seq(CxEntry) /\ \A i \in DOMAIN cxHist : cxHist[i] \in CxEntry
    BY <1>1, IdsAre DEF CxKnown
  <2> HIDE DEF M, h
  <2> QED BY <2>1, <2>2, <2>3
<1> HIDE DEF h
<1>4. Formed(h, cxNext) /\ ~TailCalls(h)
  <2>1. ~TailCalls(cxHist)
    BY <1>1, <1>2 DEF InFlight
  <2> QED BY <1>1, <1>3, <2>1, FormedLike
<1>5. NothingFrozen \in Freezes /\ \A n \in CxIds : NothingFrozen[n] = "none"
  BY DEF NothingFrozen, Freezes
<1>6. /\ full \in Seq(CxItem) /\ now \in Freezes /\ Agrees(full, now)
      /\ \A n \in CxIds : NothingFrozen[n] # "none" => now[n] = NothingFrozen[n]
      /\ \A n \in CxIds : NothingFrozen[n] = "none" /\ now[n] # "none" =>
           \E i \in DOMAIN h : h[i].role = "result" /\ h[i].id = n /\ h[i].body = now[n]
  <2>1. Fit(Converted(h), h)
    BY <1>4, ConvertedIs
  <2> QED BY <1>4, <1>5, <2>1, FrozenIs
<1> HIDE DEF full, now
<1>7. Thawed(h, now, {})
  <2>1. Thawed(h, NothingFrozen, {})
    BY <1>4, <1>5, IdsAre DEF Thawed
  <2> QED BY <1>4, <1>6, <2>1, ThawedNow
<1>8. /\ cxFlight' \in CxFlights /\ cxFlight'.full = full /\ cxFlight'.delta = full
      /\ cxFlight'.prev = 0
  <2>1. cxFlight \in CxFlights /\ cxFlight.prev = 0
    BY <1>1, <1>2 DEF CxKnown, InFlight
  <2>2. [cxFlight EXCEPT !.full = full] \in CxFlights
    BY <1>6, <2>1 DEF CxFlights
  <2> DEFINE f == [cxFlight EXCEPT !.full = full]
  <2>3. f.full = full /\ f.prev = 0
    BY <2>1 DEF CxFlights
  <2>4. cxFlight' = [f EXCEPT !.delta = full]
    BY <1>2
  <2> HIDE DEF f
  <2>5. f \in CxFlights
    BY <2>2 DEF f
  <2> QED BY <1>6, <2>3, <2>4, <2>5 DEF CxFlights
<1>9. /\ cxServer' \in [id : 0..CxMaxIds, saw : Seq(CxItem), meant : Seq(CxItem),
                        here : BOOLEAN, fresh : SUBSET CxIds]
      /\ cxServer'.saw = cxServer.saw /\ cxServer'.meant = cxServer.meant
      /\ cxServer'.fresh = cxServer.fresh /\ ~cxServer'.here
  BY <1>1, <1>2 DEF CxKnown
<1>10. CxTypeOK'
  <2>1. cxFaults' \in 0..CxMaxFaults
    BY <1>1, <1>2, FaultTyped
  <2>2. NoBase \in [input : Seq(CxItem), added : Seq(CxItem), id : 0..CxMaxIds]
    BY CodexAssumption DEF NoBase
  <2>3. CxKnown'
    BY <1>1, <1>2, <1>3, <1>6, <1>8, <1>9, <2>1, <2>2 DEF CxKnown
  <2> QED BY <2>3, Types DEF CxKnown, CxTypeOK, Freezes, CxFlights
<1>11. Formed(cxHist', cxNext') /\ Thawed(cxHist', cxFrozen', cxPending')
  BY <1>2, <1>4, <1>7
<1>12. InFlight' /\ Continues'
  BY <1>2, <1>4, <1>6, <1>8, <1>9 DEF InFlight, Continues
<1>13. ModelSeesHistory'
  BY <1>1, <1>9 DEF ModelSeesHistory
<1> QED BY <1>10, <1>11, <1>12, <1>13 DEF CxInv

-----------------------------------------------------------------------------
(* Between requests                                                        *)

\* A new epoch between requests, for a history formed as it was.
LEMMA Renewed ==
  ASSUME CxInv, CxIdle, CxEpoch(NewEpoch(ThisEpoch)), cxPending' = {}, Formed(cxHist', cxNext),
         UNCHANGED <<cxTransport, cxNext, cxFull, cxFlight, cxFaults>>
  PROVE  CxInv'
<1>1. CxKnown /\ ModelSeesHistory
  BY Known DEF CxInv
<1>2. /\ cxFrozen' = NothingFrozen /\ cxBase' = NoBase /\ cxSocket' = "none"
      /\ cxServer' = [cxServer EXCEPT !.here = @ /\ "none" # "none"]
  BY DEF CxEpoch, NewEpoch
<1>3. /\ cxServer' \in [id : 0..CxMaxIds, saw : Seq(CxItem), meant : Seq(CxItem),
                        here : BOOLEAN, fresh : SUBSET CxIds]
      /\ cxServer'.saw = cxServer.saw /\ cxServer'.meant = cxServer.meant
      /\ cxServer'.fresh = cxServer.fresh
  BY <1>1, <1>2 DEF CxKnown
<1>4. CxTypeOK'
  <2>1. NoBase \in [input : Seq(CxItem), added : Seq(CxItem), id : 0..CxMaxIds]
    BY CodexAssumption DEF NoBase
  <2>2. NothingFrozen \in Freezes
    BY DEF NothingFrozen, Freezes
  <2>3. cxHist' \in Seq(CxEntry)
    BY DEF Formed
  <2>4. CxKnown'
    BY <1>1, <1>2, <1>3, <2>1, <2>2, <2>3 DEF CxKnown
  <2> QED BY <2>4, Types DEF CxKnown, CxTypeOK, Freezes, CxFlights
<1>5. Thawed(cxHist', cxFrozen', cxPending')
  <2>1. \A i \in DOMAIN cxHist' : cxHist'[i].id \in CxIds
    BY IdsAre
  <2> QED BY <1>2, <2>1 DEF Thawed, NothingFrozen
<1>6. InFlight' /\ Continues'
  BY <1>2 DEF InFlight, Continues, CxIdle
<1>7. ModelSeesHistory'
  BY <1>1, <1>3 DEF ModelSeesHistory
<1> QED BY <1>4, <1>5, <1>6, <1>7 DEF CxInv

LEMMA Summarize ==
  ASSUME CxInv, NEW n \in CxIds, CxSummarize(n)
  PROVE  CxInv'
<1> DEFINE h == [i \in DOMAIN cxHist |->
                  IF cxHist[i].id = n /\ cxHist[i].body # "none"
                  THEN [cxHist[i] EXCEPT !.body = "short"] ELSE cxHist[i]]
<1>1. /\ CxKnown /\ Formed(cxHist, cxNext) /\ Thawed(cxHist, cxFrozen, cxPending)
      /\ Continues /\ ModelSeesHistory
  BY Known DEF CxInv
<1>2. /\ CxIdle /\ cxHist' = h
      /\ \/ CxEpoch(NewEpoch(ThisEpoch)) /\ cxPending' = {}
         \/ UNCHANGED <<cxFrozen, cxBase, cxSocket, cxServer>> /\ cxPending' = cxPending \cup {n}
      /\ UNCHANGED <<cxTransport, cxNext, cxFull, cxFlight, cxFaults>>
  BY DEF CxSummarize
<1>3. /\ DOMAIN h = DOMAIN cxHist /\ h \in Seq(CxEntry)
      /\ \A i \in DOMAIN cxHist :
           /\ h[i].role = cxHist[i].role /\ h[i].id = cxHist[i].id
           /\ h[i].calls = cxHist[i].calls /\ (h[i].body # "none" <=> cxHist[i].body # "none")
           /\ cxHist[i].id # n => h[i] = cxHist[i]
  <2> DEFINE M(x) == IF x.id = n /\ x.body # "none" THEN [x EXCEPT !.body = "short"] ELSE x
  <2>1. ASSUME NEW x \in CxEntry
        PROVE  /\ M(x) \in CxEntry /\ M(x).role = x.role /\ M(x).id = x.id /\ M(x).calls = x.calls
               /\ M(x).body # "none" <=> x.body # "none"
               /\ x.id # n => M(x) = x
    BY DEF CxEntry, Bodies
  <2>2. h = [i \in 1..Len(cxHist) |-> M(cxHist[i])]
    BY <1>1 DEF CxKnown
  <2>3. cxHist \in Seq(CxEntry) /\ \A i \in DOMAIN cxHist : cxHist[i] \in CxEntry
    BY <1>1, IdsAre DEF CxKnown
  <2> HIDE DEF M, h
  <2> QED BY <2>1, <2>2, <2>3
<1> HIDE DEF h
<1>4. Formed(h, cxNext)
  BY <1>1, <1>3, FormedLike
<1>5. CASE CxEpoch(NewEpoch(ThisEpoch)) /\ cxPending' = {}
  BY <1>2, <1>4, <1>5, Renewed
<1>6. CASE UNCHANGED <<cxFrozen, cxBase, cxSocket, cxServer>> /\ cxPending' = cxPending \cup {n}
  <2>1. CxTypeOK'
    <3>1. CxKnown'
      BY <1>1, <1>2, <1>3, <1>6 DEF CxKnown
    <3> QED BY <3>1, Types DEF CxKnown, CxTypeOK, Freezes, CxFlights
  <2>2. Thawed(cxHist', cxFrozen', cxPending')
    BY <1>1, <1>2, <1>3, <1>6 DEF Thawed
  <2>3. InFlight' /\ Continues'
    BY <1>1, <1>2, <1>6 DEF InFlight, Continues, CxIdle, Baseline
  <2>4. ModelSeesHistory'
    BY <1>1, <1>6 DEF ModelSeesHistory
  <2> QED BY <1>2, <1>4, <2>1, <2>2, <2>3, <2>4 DEF CxInv
<1> QED BY <1>2, <1>5, <1>6

-----------------------------------------------------------------------------
(* The theorems                                                            *)

LEMMA Start == CxInit => CxInv
<1> SUFFICES ASSUME CxInit PROVE CxInv
  OBVIOUS
<1>1. /\ cxHist = <<>> /\ cxNext = 1 /\ cxFrozen = NothingFrozen /\ cxBase = NoBase
      /\ cxFlight = NoFlight /\ cxServer = NoServer
  BY DEF CxInit
<1>2. CxTypeOK
  <2>1. NoBase \in [input : Seq(CxItem), added : Seq(CxItem), id : 0..CxMaxIds]
    BY CodexAssumption DEF NoBase
  <2>2. NoServer \in [id : 0..CxMaxIds, saw : Seq(CxItem), meant : Seq(CxItem),
                      here : BOOLEAN, fresh : SUBSET CxIds]
    BY CodexAssumption DEF NoServer
  <2>3. NothingFrozen \in Freezes
    BY DEF NothingFrozen, Freezes
  <2>4. 1 \in 1..CxMaxIds + 1 /\ 0 \in 0..CxMaxFaults /\ <<>> \in Seq(CxEntry)
    BY CodexAssumption
  <2>5. CxKnown
    BY <2>1, <2>2, <2>3, <2>4, NoFlightTyped DEF CxKnown, CxInit
  <2> QED BY <2>5, Known
<1>3. Formed(cxHist, cxNext) /\ Thawed(cxHist, cxFrozen, cxPending)
  BY <1>1 DEF Formed, Thawed
<1>4. InFlight /\ Continues
  BY <1>1 DEF InFlight, NoFlight, Continues, NoServer
<1>5. ModelSeesHistory
  BY <1>1 DEF ModelSeesHistory, NoServer
<1> QED BY <1>2, <1>3, <1>4, <1>5 DEF CxInv

LEMMA Stutter == CxInv /\ UNCHANGED cxVars => CxInv'
BY DEF cxVars, CxInv, CxTypeOK, InFlight, Continues, ModelSeesHistory, Baseline

LEMMA CxSteps == CxInv /\ [CxNext]_cxVars => CxInv'
<1> SUFFICES ASSUME CxInv, [CxNext]_cxVars PROVE CxInv'
  OBVIOUS
<1>1. CASE CxSendText \/ CxSendResult
  BY <1>1, SendTextKeeps, SendResultKeeps
<1>2. CASE \E calls, secret, full \in BOOLEAN : CxComplete(calls, secret, full)
  BY <1>2, Complete
<1>3. CASE CxCutShort \/ CxFail \/ CxHeal
  BY <1>3, CutShort, FailKeeps, HealKeeps
<1>4. CASE \E n \in CxIds : CxSummarize(n)
  BY <1>4, Summarize
<1>5. CASE CxRebuild
  BY <1>5, Renewed DEF CxRebuild, CxInv
<1>6. CASE UNCHANGED cxVars
  BY <1>6, Stutter
<1> QED BY <1>1, <1>2, <1>3, <1>4, <1>5, <1>6 DEF CxNext

LEMMA CodexAlways == CxSpec => []CxInv
<1>1. CxInit => CxInv
  BY Start
<1>2. CxInv /\ [CxNext]_cxVars => CxInv'
  BY CxSteps
<1> QED BY <1>1, <1>2, PTL DEF CxSpec

\* A Codex session's state has its types.
THEOREM CodexTyped == CxSpec => []CxTypeOK
<1>1. CxInv => CxTypeOK
  BY DEF CxInv
<1> QED BY <1>1, CodexAlways, PTL

\* However requests fail, sockets close, epochs start anew and results are
\* summarized, the model answers to the whole history, each item once, also when
\* only what follows the baseline was sent (_codex_plan_continuation), and it is
\* shown a summary whose effect no longer waits (_reset_ws_epoch).
THEOREM HistoryIsSeen == CxSpec => []ModelSeesHistory
<1>1. CxInv => ModelSeesHistory
  BY DEF CxInv
<1> QED BY <1>1, CodexAlways, PTL

-----------------------------------------------------------------------------
(* A request: what a history is                                            *)

PtTurn == [who : {"text", "results", "notice", "model", "calls"}, id : Nat]
PtLine == Seq(PtTurn)

\* No entry stands at two places, but for the notice of an overflow.
Distinct(h) == \A i, j \in DOMAIN h : (i # j /\ h[i] = h[j]) => h[i] = OverflowNotice

\* What was sent and answered in n requests: the last of them is answered if m = n.
Age(e, n, m) ==
  /\ e.who = "notice" => e = OverflowNotice
  /\ e.who = "text" => e.id <= n
  /\ e.who = "results" => e.id < n
  /\ e.who \in {"model", "calls"} => e.id <= m

Aged(h, n, m) == \A i \in DOMAIN h : Age(h[i], n, m)

\* Results stand behind their calls, and only the calls at the end have none.
Paired(h) ==
  \A i \in DOMAIN h :
    /\ h[i].who = "calls" /\ i # Len(h) => h[i + 1] = Turned("results", h[i].id)
    /\ h[i].who = "results" => i # 1 /\ h[i - 1] = Turned("calls", h[i].id)

\* What a provider is shown or keeps
Proper(h, n, m) == h \in PtLine /\ Distinct(h) /\ Aged(h, n, m)

\* A canonical history
Good(h, n, m) == Proper(h, n, m) /\ Paired(h)

Ends(h, e) == h # <<>> /\ h[Len(h)] = e
Has(h, e) == \E i \in DOMAIN h : h[i] = e

\* What tools returned is there, or went in an overflow, or its calls wait for it.
Covers(h, ran, trimmed) ==
  \A c \in ran : \/ Has(h, Turned("results", c)) \/ Turned("results", c) \in trimmed
                 \/ Ends(h, Turned("calls", c))

\* Everything has a type.
PtTyped ==
  /\ ptKind \in PtKinds /\ ptSends \in 0..PtSends /\ ptRebuilds \in 0..PtRebuilds
  /\ ptHist \in PtLine /\ ptSeed \in PtLine
  /\ ptServer \in Seq(PtLine) /\ ptChain \in 0..Len(ptServer)
  /\ ptFly \in [msg : PtTurn, before : PtLine, shown : PtLine, rounds : 0..PtTrims]
  /\ ptLast \in [how : {"answered", "failed"}, msg : PtTurn, call : Nat]
  /\ ptRan \in SUBSET Nat

\* A message in flight is a text or the results of calls that were asked for.
FlightOK ==
  /\ ptSends # 0 /\ ptFly.msg.who \in {"text", "results"}
  /\ ptFly.msg.who = "text" => ptFly.msg.id <= ptSends
  /\ ptFly.msg.who = "results" => ptFly.msg.id < ptSends

\* What a text that failed may meet again does not have it.
RestedOK(h) ==
  (ptLast.how = "failed" /\ ptLast.msg.who = "text") =>
    ptLast.msg.id <= ptSends /\ ~Has(h, ptLast.msg)

CanonicalFlight ==
  /\ Good(ptHist, ptSends, ptSends - 1)
  /\ Ends(ptHist, ptFly.msg) /\ ptFly.shown = ptHist
  /\ Good(ptFly.before, ptSends, ptSends - 1) /\ ~Has(ptFly.before, ptFly.msg)
  /\ ptFly.msg.who = "results" => Ends(ptFly.before, Turned("calls", ptFly.msg.id))
  /\ Covers(ptHist, ptRan, ptTrimmed) /\ Covers(ptFly.before, ptRan, ptTrimmed)

CanonicalRest ==
  /\ Good(ptHist, ptSends, ptSends)
  /\ Covers(ptHist, ptRan, ptTrimmed)
  /\ ptLast.call # 0 => Ends(ptHist, Turned("calls", ptLast.call))
  /\ RestedOK(ptHist)

\* The histories the provider keeps
ServerKeeps(m) ==
  /\ Proper(ptHist, ptSends, m) /\ \A i \in DOMAIN ptHist : ptHist[i].who = "results"
  /\ ptSeed = <<>> \/ (ptSeed = ptHist /\ ptChain = 0)
  /\ \A k \in DOMAIN ptServer : Proper(ptServer[k], ptSends, m)

ServerFlight ==
  /\ ServerKeeps(ptSends - 1) /\ ptSeed = <<>> /\ ptFly.rounds = 0
  /\ Proper(ptFly.shown, ptSends, ptSends - 1)
  /\ ~Has(Kept(ptChain), ptFly.msg)

ServerRest ==
  /\ ServerKeeps(ptSends)
  /\ ptLast.call # 0 => ptLast.call = ptSends
  /\ RestedOK(Kept(ptChain))

PtInv ==
  /\ PtTyped
  /\ Flying => FlightOK
  /\ CanonicalKind => IF Flying THEN CanonicalFlight ELSE CanonicalRest
  /\ ServerKind => IF Flying THEN ServerFlight ELSE ServerRest

-----------------------------------------------------------------------------
(* A request: what the operators on histories keep                         *)

LEMMA LineIs ==
  ASSUME NEW h \in PtLine
  PROVE  /\ Len(h) \in Nat /\ DOMAIN h = 1..Len(h) /\ \A i \in 1..Len(h) : h[i] \in PtTurn
         /\ h # <<>> <=> Len(h) # 0
BY DEF PtLine

LEMMA TurnIs ==
  ASSUME NEW who \in {"text", "results", "notice", "model", "calls"}, NEW id \in Nat
  PROVE  Turned(who, id) \in PtTurn /\ Turned(who, id).who = who /\ Turned(who, id).id = id
BY DEF Turned, PtTurn

LEMMA TurnOf ==
  ASSUME NEW e \in PtTurn
  PROVE  e = Turned(e.who, e.id) /\ e.id \in Nat
         /\ e.who \in {"text", "results", "notice", "model", "calls"}
BY DEF Turned, PtTurn

LEMMA EmptyLine ==
  ASSUME NEW n, NEW m
  PROVE  /\ Good(<<>>, n, m) /\ DOMAIN <<>> = {} /\ <<>> \in PtLine /\ Len(<<>>) = 0
         /\ \A e : ~Has(<<>>, e) /\ ~Ends(<<>>, e)
<1>1. DOMAIN <<>> = {} /\ <<>> \in PtLine /\ Len(<<>>) = 0
  BY DEF PtLine
<1> QED BY <1>1 DEF Good, Proper, Distinct, Aged, Paired, Has, Ends

\* Time goes by.
LEMMA ProperLater ==
  ASSUME NEW n \in Int, NEW m \in Int, NEW nn \in Int, NEW mm \in Int, n <= nn, m <= mm,
         NEW h, Proper(h, n, m)
  PROVE  Proper(h, nn, mm)
<1>1. h \in PtLine /\ Len(h) \in Nat /\ DOMAIN h = 1..Len(h) /\ \A i \in 1..Len(h) : h[i] \in PtTurn
  BY LineIs DEF Proper
<1>2. ASSUME NEW i \in DOMAIN h PROVE Age(h[i], nn, mm)
  <2>1. h[i].id \in Nat /\ Age(h[i], n, m)
    BY <1>1, TurnOf DEF Proper, Aged
  <2> QED BY <2>1 DEF Age
<1> QED BY <1>1, <1>2 DEF Proper, Aged

LEMMA GoodLater ==
  ASSUME NEW n \in Int, NEW m \in Int, NEW nn \in Int, NEW mm \in Int, n <= nn, m <= mm,
         NEW h, Good(h, n, m)
  PROVE  Good(h, nn, mm)
BY ProperLater DEF Good

LEMMA ProperAppend ==
  ASSUME NEW n, NEW m, NEW h, Proper(h, n, m), NEW e \in PtTurn, Age(e, n, m),
         e = OverflowNotice \/ ~Has(h, e)
  PROVE  Proper(Append(h, e), n, m)
<1> DEFINE g == Append(h, e)
<1>1. h \in PtLine /\ Len(h) \in Nat /\ DOMAIN h = 1..Len(h) /\ \A i \in 1..Len(h) : h[i] \in PtTurn
  BY LineIs DEF Proper
<1>2. /\ g \in PtLine /\ Len(g) = Len(h) + 1 /\ DOMAIN g = 1..(Len(h) + 1)
      /\ g[Len(h) + 1] = e /\ \A i \in 1..Len(h) : g[i] = h[i]
  BY <1>1, AppendIs DEF PtLine
<1> HIDE DEF g
<1>3. \A i \in 1..(Len(h) + 1) : i \in 1..Len(h) \/ i = Len(h) + 1
  BY <1>1
<1>4. \A i \in 1..Len(h) : h[i] # e \/ e = OverflowNotice
  BY <1>1 DEF Has
<1>5. Distinct(g)
  BY <1>1, <1>2, <1>3, <1>4 DEF Distinct, Proper
<1>6. Aged(g, n, m)
  BY <1>1, <1>2, <1>3 DEF Aged, Proper
<1> QED BY <1>2, <1>5, <1>6 DEF Proper, g

LEMMA ProperJoin ==
  ASSUME NEW n, NEW m, NEW s, Proper(s, n, m), NEW t, Proper(t, n, m),
         \A i \in DOMAIN s : s[i] = OverflowNotice \/ ~Has(t, s[i])
  PROVE  Proper(s \o t, n, m)
<1> DEFINE g == s \o t
<1>1. s \in PtLine /\ Len(s) \in Nat /\ DOMAIN s = 1..Len(s)
  BY LineIs DEF Proper
<1>2. t \in PtLine /\ Len(t) \in Nat /\ DOMAIN t = 1..Len(t)
  BY LineIs DEF Proper
<1>3. /\ g \in PtLine /\ Len(g) = Len(s) + Len(t)
      /\ \A i \in 1..(Len(s) + Len(t)) : g[i] = IF i <= Len(s) THEN s[i] ELSE t[i - Len(s)]
  BY <1>1, <1>2, JoinIs DEF PtLine
<1>4. DOMAIN g = 1..(Len(s) + Len(t))
  BY <1>3, LineIs
<1> HIDE DEF g
<1>5. \A i \in DOMAIN g : \/ i \in DOMAIN s /\ g[i] = s[i]
                          \/ i - Len(s) \in DOMAIN t /\ g[i] = t[i - Len(s)] /\ i \in Nat
  BY <1>1, <1>2, <1>3, <1>4
<1>6. \A i \in DOMAIN s, j \in DOMAIN t : s[i] = t[j] => s[i] = OverflowNotice
  BY DEF Has
<1>7. ASSUME NEW i \in DOMAIN g, NEW j \in DOMAIN g, i # j, g[i] = g[j] PROVE g[i] = OverflowNotice
  <2>1. CASE i \in DOMAIN s /\ g[i] = s[i] /\ j \in DOMAIN s /\ g[j] = s[j]
    BY <1>7, <2>1 DEF Proper, Distinct
  <2>2. CASE i - Len(s) \in DOMAIN t /\ g[i] = t[i - Len(s)] /\ j - Len(s) \in DOMAIN t /\ g[j] = t[j - Len(s)]
             /\ i \in Nat /\ j \in Nat
    <3>1. i - Len(s) # j - Len(s)
      BY <1>1, <1>7, <2>2
    <3> QED BY <1>7, <2>2, <3>1 DEF Proper, Distinct
  <2> QED BY <1>5, <1>6, <1>7, <2>1, <2>2
<1>8. Aged(g, n, m)
  BY <1>5 DEF Aged, Proper
<1> QED BY <1>3, <1>7, <1>8 DEF Proper, Distinct, g

\* What goes behind a history: results where calls are pending, else no results.
LEMMA GoodAppend ==
  ASSUME NEW n, NEW m, NEW h, Good(h, n, m), NEW e \in PtTurn, Age(e, n, m),
         e = OverflowNotice \/ ~Has(h, e),
         PendingCall(h) => e = Turned("results", h[Len(h)].id),
         e.who = "results" => Ends(h, Turned("calls", e.id))
  PROVE  Good(Append(h, e), n, m)
<1> DEFINE g == Append(h, e)
<1>1. h \in PtLine /\ Len(h) \in Nat /\ DOMAIN h = 1..Len(h) /\ \A i \in 1..Len(h) : h[i] \in PtTurn
  BY LineIs DEF Good, Proper
<1>11. h # <<>> <=> Len(h) # 0
  BY <1>1, LineIs
<1>2. /\ g \in PtLine /\ Len(g) = Len(h) + 1 /\ DOMAIN g = 1..(Len(h) + 1)
      /\ g[Len(h) + 1] = e /\ \A i \in 1..Len(h) : g[i] = h[i]
  BY <1>1, AppendIs DEF PtLine
<1>3. Proper(g, n, m)
  BY ProperAppend DEF Good
<1> HIDE DEF g
<1>4. ASSUME NEW i \in DOMAIN g, g[i].who = "calls", i # Len(g)
      PROVE  g[i + 1] = Turned("results", g[i].id)
  <2>1. i \in 1..Len(h) /\ g[i] = h[i] /\ i + 1 \in Nat
    BY <1>1, <1>2, <1>4
  <2>2. CASE i = Len(h)
    <3>1. h # <<>> /\ h[Len(h)].who = "calls" /\ i + 1 = Len(h) + 1
      BY <1>1, <1>11, <1>4, <2>1, <2>2
    <3>2. e = Turned("results", h[Len(h)].id)
      BY <3>1 DEF PendingCall
    <3> QED BY <1>2, <2>1, <2>2, <3>1, <3>2
  <2>3. CASE i # Len(h)
    <3>1. i + 1 \in 1..Len(h)
      BY <1>1, <2>1, <2>3
    <3> QED BY <1>1, <1>2, <1>4, <2>1, <2>3, <3>1 DEF Good, Paired
  <2> QED BY <2>2, <2>3
<1>5. ASSUME NEW i \in DOMAIN g, g[i].who = "results"
      PROVE  i # 1 /\ g[i - 1] = Turned("calls", g[i].id)
  <2>1. CASE i \in 1..Len(h)
    <3>1. g[i] = h[i] /\ i # 1 /\ h[i - 1] = Turned("calls", h[i].id)
      BY <1>1, <1>2, <1>5, <2>1 DEF Good, Paired
    <3>2. i - 1 \in 1..Len(h)
      BY <1>1, <2>1, <3>1
    <3> QED BY <1>2, <3>1, <3>2
  <2>2. CASE i = Len(h) + 1
    <3>1. h # <<>> /\ h[Len(h)] = Turned("calls", e.id)
      BY <1>2, <1>5, <2>2 DEF Ends
    <3>2. Len(h) # 0 /\ Len(h) \in 1..Len(h) /\ i - 1 = Len(h) /\ i # 1
      BY <1>1, <1>11, <2>2, <3>1
    <3> QED BY <1>2, <2>2, <3>1, <3>2
  <2> QED BY <1>1, <1>2, <2>1, <2>2
<1> QED BY <1>3, <1>4, <1>5 DEF Good, Paired, g

LEMMA HasAppend ==
  ASSUME NEW h \in PtLine, NEW e \in PtTurn
  PROVE  /\ Append(h, e) \in PtLine /\ Ends(Append(h, e), e) /\ Has(Append(h, e), e)
         /\ \A x : Has(h, x) => Has(Append(h, e), x)
         /\ \A x : Has(Append(h, e), x) => x = e \/ Has(h, x)
         /\ \A i \in DOMAIN Append(h, e) : 
                Append(h, e)[i] = e \/ (i \in DOMAIN h /\ Append(h, e)[i] = h[i])
<1> DEFINE g == Append(h, e)
<1>1. h \in PtLine /\ Len(h) \in Nat /\ DOMAIN h = 1..Len(h)
  BY LineIs
<1>2. /\ g \in PtLine /\ Len(g) = Len(h) + 1 /\ DOMAIN g = 1..(Len(h) + 1)
      /\ g[Len(h) + 1] = e /\ \A i \in 1..Len(h) : g[i] = h[i]
  BY <1>1, AppendIs DEF PtLine
<1>3. g # <<>>
  BY <1>1, <1>2, LineIs
<1> HIDE DEF g
<1>4. \A i \in DOMAIN g : g[i] = e \/ (i \in DOMAIN h /\ g[i] = h[i])
  BY <1>1, <1>2
<1>5. \A i \in DOMAIN h : i \in DOMAIN g /\ g[i] = h[i]
  BY <1>1, <1>2
<1>6. Len(h) + 1 \in DOMAIN g
  BY <1>1, <1>2
<1> QED BY <1>2, <1>3, <1>4, <1>5, <1>6 DEF Has, Ends, g

LEMMA GoodPrefix ==
  ASSUME NEW n, NEW m, NEW h, Good(h, n, m), NEW k \in 0..Len(h)
  PROVE  /\ Good(SubSeq(h, 1, k), n, m) /\ Len(SubSeq(h, 1, k)) = k
         /\ \A i \in 1..k : SubSeq(h, 1, k)[i] = h[i]
<1> DEFINE g == SubSeq(h, 1, k)
<1>1. h \in PtLine /\ Len(h) \in Nat /\ DOMAIN h = 1..Len(h)
  BY LineIs DEF Good, Proper
<1>2. g \in PtLine /\ Len(g) = k /\ DOMAIN g = 1..k /\ \A i \in 1..k : g[i] = h[i]
  BY <1>1 DEF PtLine
<1> HIDE DEF g
<1>3. \A i \in 1..k : i \in DOMAIN h /\ g[i] = h[i]
  BY <1>1, <1>2
<1>4. Distinct(g) /\ Aged(g, n, m)
  BY <1>2, <1>3 DEF Good, Proper, Distinct, Aged
<1>5. ASSUME NEW i \in DOMAIN g, g[i].who = "calls", i # Len(g)
      PROVE  g[i + 1] = Turned("results", g[i].id)
  <2>1. i + 1 \in 1..k /\ i # Len(h)
    BY <1>1, <1>2, <1>5
  <2> QED BY <1>2, <1>3, <1>5, <2>1 DEF Good, Paired
<1>6. ASSUME NEW i \in DOMAIN g, g[i].who = "results"
      PROVE  i # 1 /\ g[i - 1] = Turned("calls", g[i].id)
  <2>1. i # 1 /\ h[i - 1] = Turned("calls", h[i].id)
    BY <1>2, <1>3, <1>6 DEF Good, Paired
  <2>2. i - 1 \in 1..k
    BY <1>1, <1>2, <2>1
  <2> QED BY <1>2, <1>3, <2>1, <2>2
<1> QED BY <1>2, <1>4, <1>5, <1>6 DEF Good, Proper, Paired, g

LEMMA GoodRest ==
  ASSUME NEW n, NEW m, NEW h, Good(h, n, m), NEW c \in 1..(Len(h) - 1), h[c].who # "calls"
  PROVE  /\ Good(SubSeq(h, c + 1, Len(h)), n, m) /\ Len(SubSeq(h, c + 1, Len(h))) = Len(h) - c
         /\ \A i \in 1..(Len(h) - c) : SubSeq(h, c + 1, Len(h))[i] = h[c + i]
<1> DEFINE g == SubSeq(h, c + 1, Len(h))
<1>1. h \in PtLine /\ Len(h) \in Nat /\ DOMAIN h = 1..Len(h)
  BY LineIs DEF Good, Proper
<1>2. g \in PtLine /\ Len(g) = Len(h) - c /\ \A i \in 1..(Len(h) - c) : g[i] = h[c + i]
  <2>1. c + 1 \in 1..(Len(h) + 1)
    BY <1>1
  <2>0. \A d \in 1..(Len(h) + 1) :
          /\ SubSeq(h, d, Len(h)) \in Seq(PtTurn) /\ Len(SubSeq(h, d, Len(h))) = Len(h) + 1 - d
          /\ \A i \in 1..(Len(h) + 1 - d) : SubSeq(h, d, Len(h))[i] = h[d + i - 1]
    BY <1>1, EndIs DEF PtLine
  <2>2. /\ g \in PtLine /\ Len(g) = Len(h) + 1 - (c + 1)
        /\ \A i \in 1..(Len(h) + 1 - (c + 1)) : g[i] = h[(c + 1) + i - 1]
    BY <2>0, <2>1 DEF PtLine
  <2> HIDE DEF g
  <2>3. Len(h) + 1 - (c + 1) = Len(h) - c /\ \A i \in 1..(Len(h) - c) : (c + 1) + i - 1 = c + i
    <3>1. \A a, b \in Int : b + 1 - (a + 1) = b - a /\ (a + 1) + b - 1 = a + b
      OBVIOUS
    <3>2. c \in Int /\ Len(h) \in Int /\ \A i \in 1..(Len(h) - c) : i \in Int
      BY <1>1
    <3> QED BY <3>1, <3>2
  <2> QED BY <2>2, <2>3
<1>3. DOMAIN g = 1..(Len(h) - c)
  BY <1>2, LineIs
<1> HIDE DEF g
<1>4. \A i \in DOMAIN g : c + i \in DOMAIN h /\ g[i] = h[c + i] /\ i \in Nat
  BY <1>1, <1>2, <1>3
<1>5. Distinct(g)
  <2>1. \A i, j \in DOMAIN g : i # j => c + i # c + j
    BY <1>3, <1>1
  <2> QED BY <1>4, <2>1 DEF Good, Proper, Distinct
<1>6. Aged(g, n, m)
  BY <1>4 DEF Good, Proper, Aged
<1>7. ASSUME NEW i \in DOMAIN g, g[i].who = "calls", i # Len(g)
      PROVE  g[i + 1] = Turned("results", g[i].id)
  <2>1. i + 1 \in DOMAIN g /\ c + i # Len(h) /\ c + (i + 1) = (c + i) + 1
    BY <1>1, <1>2, <1>3, <1>7
  <2>2. h[(c + i) + 1] = Turned("results", h[c + i].id)
    BY <1>4, <1>7, <2>1 DEF Good, Paired
  <2> QED BY <1>4, <2>1, <2>2
<1>8. ASSUME NEW i \in DOMAIN g, g[i].who = "results"
      PROVE  i # 1 /\ g[i - 1] = Turned("calls", g[i].id)
  <2>1. h[(c + i) - 1] = Turned("calls", h[c + i].id)
    BY <1>4, <1>8 DEF Good, Paired
  <2>2. i # 1
    <3> SUFFICES ASSUME i = 1 PROVE FALSE
      OBVIOUS
    <3>1. h[c] = Turned("calls", h[c + i].id)
      <4>1. (c + i) - 1 = c
        BY <1>1
      <4> QED BY <2>1, <4>1
    <3> QED BY <3>1 DEF Turned
  <2>3. i - 1 \in DOMAIN g /\ c + (i - 1) = (c + i) - 1
    BY <1>1, <1>3, <2>2
  <2> QED BY <1>4, <2>1, <2>2, <2>3
<1> QED BY <1>2, <1>5, <1>6, <1>7, <1>8 DEF Good, Proper, Paired, g

\* Without its tail a history is a part of it, up to an answer.
LEMMA TailIs ==
  ASSUME NEW h \in PtLine
  PROVE  \E k \in 0..Len(h) :
           /\ WithoutTail(h) = SubSeq(h, 1, k)
           /\ k # 0 => h[k].who \in {"model", "calls"}
           /\ \A j \in (k + 1)..Len(h) : h[j].who \notin {"model", "calls"}
<1> DEFINE T == {k \in 0..Len(h) : \A j \in (k + 1)..Len(h) : h[j].who \notin {"model", "calls"}}
<1>1. Len(h) \in Nat /\ DOMAIN h = 1..Len(h)
  BY LineIs
<1>2. Len(h) \in T
  BY <1>1
<1>3. PICK k \in T : \A y \in T : k <= y
  <2>1. T \in SUBSET Nat
    BY <1>1
  <2> HIDE DEF T
  <2> QED BY <1>2, <2>1, Least
<1>4. k \in 0..Len(h) /\ \A j \in (k + 1)..Len(h) : h[j].who \notin {"model", "calls"}
  OBVIOUS
<1>5. k # 0 => h[k].who \in {"model", "calls"}
  <2> SUFFICES ASSUME k # 0, h[k].who \notin {"model", "calls"} PROVE FALSE
    OBVIOUS
  <2>1. k - 1 \in 0..Len(h) /\ ~(k <= k - 1)
    BY <1>1, <1>4
  <2>2. \A j \in ((k - 1) + 1)..Len(h) : j = k \/ j \in (k + 1)..Len(h)
    BY <1>1, <1>4
  <2>3. k - 1 \in T
    BY <1>4, <2>1, <2>2
  <2> HIDE DEF T
  <2> QED BY <1>3, <2>1, <2>3
<1> HIDE DEF T
<1>6. {i \in DOMAIN h : \E j \in i..Len(h) : h[j].who \in {"model", "calls"}} = 1..k
  <2>1. ASSUME NEW i \in DOMAIN h, NEW j \in i..Len(h), h[j].who \in {"model", "calls"} PROVE i \in 1..k
    <3>1. j \notin (k + 1)..Len(h)
      BY <1>4, <2>1
    <3> QED BY <1>1, <1>4, <3>1
  <2>2. ASSUME NEW i \in 1..k PROVE i \in DOMAIN h /\ \E j \in i..Len(h) : h[j].who \in {"model", "calls"}
    <3>1. k # 0 /\ k \in i..Len(h) /\ i \in DOMAIN h
      BY <1>1, <1>4
    <3> QED BY <1>5, <3>1
  <2> QED BY <2>1, <2>2
<1>7. Cardinality(1..k) = k
  BY <1>1, <1>4, FS_Interval
<1>8. WithoutTail(h) = SubSeq(h, 1, k)
  BY <1>6, <1>7 DEF WithoutTail
<1> QED BY <1>4, <1>5, <1>8
\* The results of pending calls are not there yet.
LEMMA NotYet ==
  ASSUME NEW n, NEW m, NEW h, Good(h, n, m), NEW c \in Nat, Ends(h, Turned("calls", c))
  PROVE  ~Has(h, Turned("results", c)) /\ h[Len(h)].who = "calls" /\ h[Len(h)].id = c
<1>1. /\ h \in PtLine /\ Len(h) \in Nat /\ DOMAIN h = 1..Len(h) /\ h # <<>> /\ Len(h) # 0
      /\ h[Len(h)] = Turned("calls", c)
  BY LineIs DEF Good, Proper, Ends
<1>2. /\ Turned("calls", c).who = "calls" /\ Turned("calls", c).id = c
      /\ Turned("results", c).who = "results" /\ Turned("results", c).id = c
  BY TurnIs
<1> SUFFICES ASSUME Has(h, Turned("results", c)) PROVE FALSE
  BY <1>1, <1>2
<1>3. PICK i \in DOMAIN h : h[i] = Turned("results", c)
  BY DEF Has
<1>4. i # 1 /\ h[i - 1] = Turned("calls", c)
  BY <1>2, <1>3 DEF Good, Paired
<1>5. i - 1 \in DOMAIN h /\ Len(h) \in DOMAIN h /\ i - 1 # Len(h)
  BY <1>1, <1>4
<1>6. h[i - 1] = OverflowNotice
  BY <1>1, <1>4, <1>5 DEF Good, Proper, Distinct
<1> QED BY <1>2, <1>4, <1>6 DEF OverflowNotice, Turned

\* A history whose calls have their results is sent as it is.
LEMMA WireIs ==
  ASSUME NEW n, NEW m, NEW h, Good(h, n, m), ~PendingCall(h)
  PROVE  WireGuarded(h) = h
<1>1. h \in PtLine /\ Len(h) \in Nat /\ DOMAIN h = 1..Len(h) /\ (h # <<>> <=> Len(h) # 0)
  BY LineIs DEF Good, Proper
<1>2. ASSUME NEW i \in DOMAIN h
      PROVE  ~(h[i].who = "calls" /\ (i = Len(h) \/ h[i + 1] # Turned("results", h[i].id)))
  <2>1. i = Len(h) => h[i].who # "calls"
    BY <1>1 DEF PendingCall
  <2> QED BY <2>1 DEF Good, Paired
<1>3. [i \in DOMAIN h |->
         IF h[i].who = "calls" /\ (i = Len(h) \/ h[i + 1] # Turned("results", h[i].id))
         THEN <<h[i], Turned("placeholder", h[i].id)>> ELSE <<h[i]>>]
      = [i \in DOMAIN h |-> <<h[i]>>]
  BY <1>2
<1>4. FlattenSeq([k \in DOMAIN h |-> <<h[k]>>]) = h
  BY <1>1, Singles DEF PtLine
<1> QED BY <1>3, <1>4 DEF WireGuarded

\* The check closes the calls that are pending, with what the log has.
LEMMA CheckedIs ==
  ASSUME NEW n \in Nat, NEW h, Good(h, n + 1, n)
  PROVE  /\ Good(HealthChecked(h), n + 1, n) /\ ~PendingCall(HealthChecked(h))
         /\ \A e : Has(h, e) => Has(HealthChecked(h), e)
         /\ \A e : Has(HealthChecked(h), e) => Has(h, e) \/ e.who = "results"
         /\ \A c \in Nat : Ends(h, Turned("calls", c)) => Has(HealthChecked(h), Turned("results", c))
<1>1. /\ h \in PtLine /\ Len(h) \in Nat /\ DOMAIN h = 1..Len(h) /\ \A i \in 1..Len(h) : h[i] \in PtTurn
      /\ (h # <<>> <=> Len(h) # 0)
  BY LineIs DEF Good, Proper
<1>2. CASE ~PendingCall(h)
  <2>1. HealthChecked(h) = h
    BY <1>2 DEF HealthChecked
  <2>2. \A c \in Nat : ~Ends(h, Turned("calls", c))
    BY <1>2, TurnIs DEF Ends, PendingCall
  <2> QED BY <1>2, <2>1, <2>2
<1>3. CASE PendingCall(h)
  <2>0. Len(h) \in 1..Len(h) /\ h # <<>> /\ h[Len(h)].who = "calls"
    BY <1>1, <1>3 DEF PendingCall
  <2>1. PICK c \in Nat : c = h[Len(h)].id
    BY <1>1, <2>0, TurnOf
  <2>2. h[Len(h)] = Turned("calls", c)
    BY <1>1, <2>0, <2>1, TurnOf
  <2>3. PICK e : e = Turned("results", c)
    OBVIOUS
  <2>4. e \in PtTurn /\ e.who = "results" /\ e.id = c
    BY <2>3, TurnIs
  <2>5. ~Has(h, e)
    BY <2>0, <2>2, <2>3, NotYet DEF Ends
  <2>6. c <= n
    BY <2>0, <2>1, <1>1 DEF Good, Proper, Aged, Age
  <2>7. Age(e, n + 1, n)
    BY <2>4, <2>6 DEF Age
  <2>8. HealthChecked(h) = Append(h, e)
    BY <1>3, <2>1, <2>3 DEF HealthChecked
  <2>9. Good(Append(h, e), n + 1, n)
    BY <2>0, <2>1, <2>2, <2>3, <2>4, <2>5, <2>7, GoodAppend DEF Ends
  <2>10. /\ Ends(Append(h, e), e) /\ Has(Append(h, e), e)
         /\ \A x : Has(h, x) => Has(Append(h, e), x)
         /\ \A x : Has(Append(h, e), x) => x = e \/ Has(h, x)
    BY <1>1, <2>4, HasAppend
  <2>11. \A d \in Nat : Ends(h, Turned("calls", d)) => d = c
    BY <2>1, NotYet
  <2>12. ~PendingCall(Append(h, e))
    BY <2>4, <2>10 DEF Ends, PendingCall
  <2> QED BY <2>3, <2>4, <2>8, <2>9, <2>10, <2>11, <2>12
<1> QED BY <1>2, <1>3

\* What is taken back goes with the message, and leaves calls pending whose results went.
LEMMA TailKeeps ==
  ASSUME NEW n, NEW m, NEW h, Good(h, n, m), NEW e \in PtTurn, e.who \in {"text", "results"}, Ends(h, e)
  PROVE  /\ Good(WithoutTail(h), n, m) /\ ~Has(WithoutTail(h), e)
         /\ e.who = "results" => Ends(WithoutTail(h), Turned("calls", e.id))
         /\ \A trimmed : \A ran \in SUBSET Nat : Covers(h, ran, trimmed) => Covers(WithoutTail(h), ran, trimmed)
<1>1. /\ h \in PtLine /\ Len(h) \in Nat /\ DOMAIN h = 1..Len(h) /\ \A i \in 1..Len(h) : h[i] \in PtTurn
      /\ h # <<>> /\ Len(h) # 0 /\ h[Len(h)] = e
  BY LineIs DEF Good, Proper, Ends
<1>2. PICK k \in 0..Len(h) :
        /\ WithoutTail(h) = SubSeq(h, 1, k)
        /\ k # 0 => h[k].who \in {"model", "calls"}
        /\ \A j \in (k + 1)..Len(h) : h[j].who \notin {"model", "calls"}
  BY <1>1, TailIs
<1>3. PICK w : w = WithoutTail(h)
  OBVIOUS
<1>4. Good(w, n, m) /\ Len(w) = k /\ \A i \in 1..k : w[i] = h[i]
  BY <1>2, <1>3, GoodPrefix
<1>5. DOMAIN w = 1..k /\ (w # <<>> <=> k # 0)
  BY <1>4, LineIs DEF Good, Proper
<1>6. Len(h) \notin 1..k
  <2> SUFFICES ASSUME Len(h) \in 1..k PROVE FALSE
    OBVIOUS
  <2>1. k = Len(h) /\ k # 0
    <3>1. Len(h) \in Nat /\ Len(h) # 0
      BY <1>1
    <3> QED BY <3>1
  <2> QED BY <1>1, <1>2, <2>1
<1>7. ASSUME Has(w, e) PROVE FALSE
  <2>1. PICK i \in 1..k : w[i] = e
    BY <1>5, <1>7 DEF Has
  <2>2. i \in DOMAIN h /\ Len(h) \in DOMAIN h /\ i # Len(h) /\ h[i] = h[Len(h)]
    BY <1>1, <1>4, <1>6, <2>1
  <2>3. e = OverflowNotice
    BY <1>1, <2>2 DEF Good, Proper, Distinct
  <2> QED BY <2>3 DEF OverflowNotice, Turned
\* results that went left their calls
<1>8. ASSUME NEW j \in (k + 1)..Len(h), h[j].who = "results"
      PROVE  Ends(w, Turned("calls", h[j].id))
  <2>0. Len(h) \in Nat /\ k \in Nat
    <3>1. Len(h) \in Nat
      BY <1>1
    <3> QED BY <3>1
  <2>1. j \in DOMAIN h /\ j \in Nat
    BY <1>1, <2>0
  <2>2. j # 1 /\ h[j - 1] = Turned("calls", h[j].id)
    BY <1>8, <2>1 DEF Good, Paired
  <2>3. h[j - 1].who = "calls"
    BY <2>2 DEF Turned
  <2>4. j - 1 \notin (k + 1)..Len(h)
    BY <1>2, <2>3
  <2>5. j - 1 = k /\ k \in 1..k /\ k # 0
    BY <1>1, <1>2, <2>2, <2>4
  <2>6. w[k] = Turned("calls", h[j].id)
    BY <1>4, <2>2, <2>5
  <2> QED BY <1>4, <1>5, <2>5, <2>6 DEF Ends
<1>9. e.who = "results" => Ends(w, Turned("calls", e.id))
  <2>1. Len(h) \in (k + 1)..Len(h)
    BY <1>1, <1>2, <1>6
  <2> QED BY <1>1, <1>8, <2>1
<1>10. ASSUME NEW ran \in SUBSET Nat, NEW trimmed, Covers(h, ran, trimmed), NEW c \in ran
       PROVE  \/ Has(w, Turned("results", c)) \/ Turned("results", c) \in trimmed
              \/ Ends(w, Turned("calls", c))
  <2>0. c \in Nat /\ Turned("results", c).who = "results" /\ Turned("results", c).id = c
    BY TurnIs
  <2>1. CASE Has(h, Turned("results", c))
    <3>1. PICK j \in DOMAIN h : h[j] = Turned("results", c)
      BY <2>1 DEF Has
    <3>2. CASE j \in 1..k
      BY <1>4, <1>5, <3>1, <3>2 DEF Has
    <3>3. CASE j \notin 1..k
      <4>1. j \in (k + 1)..Len(h)
        BY <1>1, <1>2, <3>3
      <4> QED BY <1>8, <2>0, <3>1, <4>1
    <3> QED BY <3>2, <3>3
  <2>2. CASE Ends(h, Turned("calls", c))
    BY <1>1, <2>2 DEF Ends, Turned
  <2> QED BY <1>10, <2>1, <2>2 DEF Covers
<1> QED BY <1>3, <1>4, <1>7, <1>9, <1>10 DEF Covers

\* What an overflow leaves.
LEMMA CutKeeps ==
  ASSUME NEW n, NEW m, NEW h, Good(h, n, m), NEW c \in SafeCuts(h), NEW e, Ends(h, e)
  PROVE  /\ Good(SubSeq(h, c + 1, Len(h)), n, m) /\ Ends(SubSeq(h, c + 1, Len(h)), e)
         /\ \A x : Has(h, x) => Has(SubSeq(h, c + 1, Len(h)), x) \/ x \in ToSet(SubSeq(h, 1, c))
<1>1. /\ h \in PtLine /\ Len(h) \in Nat /\ DOMAIN h = 1..Len(h) /\ h[Len(h)] = e
      /\ c \in 1..(Len(h) - 1) /\ h[c].who # "calls"
  BY LineIs DEF Good, Proper, Ends, SafeCuts
<1>2. PICK g : g = SubSeq(h, c + 1, Len(h))
  OBVIOUS
<1>3. Good(g, n, m) /\ Len(g) = Len(h) - c /\ \A i \in 1..(Len(h) - c) : g[i] = h[c + i]
  BY <1>1, <1>2, GoodRest
<1>4. DOMAIN g = 1..(Len(h) - c) /\ (g # <<>> <=> Len(g) # 0)
  BY <1>3, LineIs DEF Good, Proper
<1>5. Ends(g, e)
  <2>1. Len(h) - c \in 1..(Len(h) - c) /\ c + (Len(h) - c) = Len(h) /\ Len(h) - c # 0
    <3>1. \A a \in Nat, b \in Nat : a \in 1..(b - 1) => b - a \in 1..(b - a) /\ a + (b - a) = b /\ b - a # 0
      OBVIOUS
    <3>2. c \in Nat
      BY <1>1
    <3> QED BY <1>1, <3>1, <3>2
  <2>2. g[Len(h) - c] = h[c + (Len(h) - c)]
    BY <1>3, <2>1
  <2>3. g # <<>> /\ g[Len(g)] = h[Len(h)]
    BY <1>3, <1>4, <2>1, <2>2
  <2> QED BY <1>1, <2>3 DEF Ends
<1>6. PICK s : s = SubSeq(h, 1, c)
  OBVIOUS
<1>7. DOMAIN s = 1..c /\ \A i \in 1..c : s[i] = h[i]
  <2>1. c \in 0..Len(h)
    BY <1>1
  <2>2. Good(s, n, m) /\ Len(s) = c /\ \A i \in 1..c : s[i] = h[i]
    BY <1>6, <2>1, GoodPrefix
  <2> QED BY <2>2, LineIs DEF Good, Proper
<1>8. ASSUME NEW x, Has(h, x) PROVE Has(g, x) \/ x \in ToSet(s)
  <2>1. PICK i \in 1..Len(h) : h[i] = x
    BY <1>1, <1>8 DEF Has
  <2>2. CASE i \in 1..c
    BY <1>7, <2>1, <2>2 DEF ToSet
  <2>3. CASE i \notin 1..c
    <3>1. i - c \in 1..(Len(h) - c) /\ c + (i - c) = i
      BY <1>1, <2>3
    <3> QED BY <1>3, <1>4, <2>1, <3>1 DEF Has
  <2> QED BY <2>2, <2>3
<1> QED BY <1>2, <1>3, <1>5, <1>6, <1>8
-----------------------------------------------------------------------------
(* A request: its steps                                                    *)

\* What has been sent when a message goes.
PtSent(msg) == IF msg.who = "results" THEN ptRan \cup {msg.id} ELSE ptRan

LEMMA PtNumbers ==
  ASSUME PtTyped
  PROVE  /\ ptSends \in Nat /\ ptSends + 1 \in Nat /\ ptSends <= ptSends + 1 /\ (ptSends + 1) - 1 = ptSends
         /\ ptSends - 1 \in Int /\ ptSends - 1 <= ptSends
BY ProviderAssumption DEF PtTyped

\* What the next message may be.
LEMMA MessageIs ==
  ASSUME PtTyped, NEW msg \in NextMessages
  PROVE  /\ msg \in PtTurn /\ msg.who \in {"text", "results"}
         /\ msg.who = "results" => ptLast.call # 0 /\ msg = Turned("results", ptLast.call) /\ msg.id = ptLast.call
         /\ msg.who = "text" => \/ msg = Turned("text", ptSends + 1)
                                \/ msg = ptLast.msg /\ ptLast.how = "failed"
<1>1. /\ ptLast.call \in Nat /\ ptLast.msg \in PtTurn /\ ptSends + 1 \in Nat
  BY PtNumbers DEF PtTyped
<1>2. /\ Turned("results", ptLast.call) \in PtTurn /\ Turned("results", ptLast.call).who = "results"
      /\ Turned("results", ptLast.call).id = ptLast.call
      /\ Turned("text", ptSends + 1) \in PtTurn /\ Turned("text", ptSends + 1).who = "text"
  BY <1>1, TurnIs
<1>3. CASE ptLast.call # 0
  BY <1>1, <1>2, <1>3 DEF NextMessages
<1>4. CASE ptLast.call = 0
  BY <1>1, <1>2, <1>4 DEF NextMessages
<1> QED BY <1>3, <1>4

\* A text that goes is not there.
LEMMA TextIsNew ==
  ASSUME PtTyped, NEW msg \in NextMessages, msg.who = "text",
         NEW h, Proper(h, ptSends, ptSends), RestedOK(h)
  PROVE  ~Has(h, msg) /\ msg.id <= ptSends + 1
<1>1. ptSends \in Nat
  BY PtNumbers
<1>2. CASE msg = Turned("text", ptSends + 1)
  <2>1. msg.id = ptSends + 1
    BY <1>2 DEF Turned
  <2> SUFFICES ASSUME Has(h, msg) PROVE FALSE
    BY <1>1, <2>1
  <2>2. PICK i \in DOMAIN h : h[i] = msg
    BY DEF Has
  <2>3. msg.id <= ptSends
    BY <2>2 DEF Proper, Aged, Age
  <2> QED BY <1>1, <2>1, <2>3
<1>3. CASE msg = ptLast.msg /\ ptLast.how = "failed"
  <2>1. ptLast.msg.id <= ptSends /\ ~Has(h, ptLast.msg) /\ ptLast.msg.id \in Nat
    BY <1>3, TurnOf DEF RestedOK, PtTyped
  <2> QED BY <1>1, <1>3, <2>1
<1> QED BY <1>2, <1>3, MessageIs

\* The history a message is sent with, and the one before it.
CanonicalSent(msg, h) ==
  /\ Good(h, ptSends + 1, ptSends) /\ Ends(h, msg)
  /\ Good(ptHist, ptSends + 1, ptSends) /\ ~Has(ptHist, msg)
  /\ msg.who = "results" => Ends(ptHist, Turned("calls", msg.id)) /\ msg.id <= ptSends
  /\ msg.who = "text" => msg.id <= ptSends + 1
  /\ Covers(h, PtSent(msg), ptTrimmed) /\ Covers(ptHist, PtSent(msg), ptTrimmed)

LEMMA CanonicalSends ==
  ASSUME PtTyped, CanonicalKind, CanonicalRest, NEW msg \in NextMessages,
         NEW h, h = RecordedBy(msg)
  PROVE  CanonicalSent(msg, h) /\ ShownBy(msg, h) = h
<1> DEFINE n == ptSends
<1>1. n \in Nat /\ n + 1 \in Nat /\ n <= n + 1 /\ n \in Int /\ n + 1 \in Int
  BY PtNumbers
<1>2. /\ msg \in PtTurn /\ msg.who \in {"text", "results"}
      /\ msg.who = "results" => ptLast.call # 0 /\ msg = Turned("results", ptLast.call) /\ msg.id = ptLast.call
  BY MessageIs
<1>3. Good(ptHist, n, n) /\ Covers(ptHist, ptRan, ptTrimmed) /\ ptRan \in SUBSET Nat
  BY DEF CanonicalRest, PtTyped
<1>4. Good(ptHist, n + 1, n)
  BY <1>1, <1>3, GoodLater
<1>5. h = CanonicalRecord(msg)
  BY DEF RecordedBy, CanonicalKind
<1> HIDE DEF n
<1>6. ASSUME msg.who = "text" PROVE CanonicalSent(msg, h)
  <2>1. ~Has(ptHist, msg) /\ msg.id <= n + 1
    BY <1>6, TextIsNew DEF CanonicalRest, Good, n
  <2>2. PICK w : w = HealthChecked(ptHist)
    OBVIOUS
  <2>3. /\ Good(w, n + 1, n) /\ ~PendingCall(w)
        /\ \A e : Has(ptHist, e) => Has(w, e)
        /\ \A e : Has(w, e) => Has(ptHist, e) \/ e.who = "results"
        /\ \A c \in Nat : Ends(ptHist, Turned("calls", c)) => Has(w, Turned("results", c))
    BY <1>1, <1>4, <2>2, CheckedIs
  <2>4. h = Append(w, msg)
    BY <1>5, <1>6, <2>2 DEF CanonicalRecord
  <2>5. ~Has(w, msg)
    BY <1>6, <2>1, <2>3
  <2>6. Age(msg, n + 1, n)
    BY <1>6, <2>1 DEF Age
  <2>7. Good(h, n + 1, n)
    BY <1>2, <1>6, <2>3, <2>4, <2>5, <2>6, GoodAppend
  <2>8. Ends(h, msg) /\ \A x : Has(w, x) => Has(h, x)
    BY <1>2, <2>3, <2>4, HasAppend DEF Good, Proper
  <2>9. PtSent(msg) = ptRan
    BY <1>6 DEF PtSent
  <2>10. Covers(h, ptRan, ptTrimmed)
    BY <1>3, <2>3, <2>8 DEF Covers
  <2> QED BY <1>3, <1>4, <1>6, <2>1, <2>7, <2>8, <2>9, <2>10 DEF n, CanonicalSent
<1>7. ASSUME msg.who = "results" PROVE CanonicalSent(msg, h)
  <2>1. PICK c \in Nat : c = ptLast.call
    BY DEF PtTyped
  <2>2. msg = Turned("results", c) /\ msg.id = c /\ Ends(ptHist, Turned("calls", c))
    BY <1>2, <1>7, <2>1 DEF CanonicalRest
  <2>3. ~Has(ptHist, msg) /\ ptHist[Len(ptHist)].who = "calls" /\ ptHist[Len(ptHist)].id = c
    BY <1>4, <2>2, NotYet
  <2>4. c <= n
    <3>1. Len(ptHist) \in DOMAIN ptHist
      BY <1>4, <2>2, LineIs DEF Ends, Good, Proper
    <3> QED BY <1>4, <2>3, <3>1 DEF Good, Proper, Aged, Age
  <2>5. Age(msg, n + 1, n)
    BY <1>1, <1>7, <2>2, <2>4 DEF Age
  <2>6. h = Append(ptHist, msg)
    BY <1>5, <1>7 DEF CanonicalRecord
  <2>7. Good(h, n + 1, n)
    BY <1>2, <1>4, <2>2, <2>3, <2>5, <2>6, GoodAppend
  <2>8. Ends(h, msg) /\ Has(h, msg) /\ \A x : Has(ptHist, x) => Has(h, x)
    BY <1>2, <1>4, <2>6, HasAppend DEF Good, Proper
  <2>9. PtSent(msg) = ptRan \cup {c}
    BY <1>7, <2>2 DEF PtSent
  <2>10. \A d \in Nat : Ends(ptHist, Turned("calls", d)) => d = c
    BY <1>4, <2>3, NotYet
  <2>11. Covers(h, PtSent(msg), ptTrimmed)
    BY <1>3, <2>2, <2>8, <2>9, <2>10 DEF Covers
  <2>12. Covers(ptHist, PtSent(msg), ptTrimmed)
    BY <1>3, <2>2, <2>9 DEF Covers
  <2> QED BY <1>4, <1>7, <2>2, <2>3, <2>4, <2>7, <2>8, <2>11, <2>12 DEF n, CanonicalSent
<1>8. CanonicalSent(msg, h) /\ Good(h, ptSends + 1, ptSends) /\ Ends(h, msg)
  BY <1>2, <1>6, <1>7 DEF CanonicalSent
<1>9. ~PendingCall(h)
  BY <1>2, <1>8 DEF Ends, PendingCall
<1>10. WireGuarded(h) = h
  BY <1>8, <1>9, WireIs
<1>11. ShownBy(msg, h) = h
  BY <1>10 DEF ShownBy, CanonicalKind
<1> QED BY <1>8, <1>11

\* What the provider keeps of the last answer
LEMMA ServerKept ==
  ASSUME PtTyped, NEW m, ServerKeeps(m)
  PROVE  Proper(Kept(ptChain), ptSends, m) /\ (ptChain = 0 => Kept(ptChain) = <<>>)
<1>1. CASE ptChain = 0
  BY <1>1, EmptyLine DEF Kept, Good
<1>2. CASE ptChain # 0
  <2>1. ptChain \in DOMAIN ptServer
    <3>1. ptServer \in Seq(PtLine) /\ ptChain \in 0..Len(ptServer)
      BY DEF PtTyped
    <3> QED BY <1>2, <3>1
  <2> QED BY <1>2, <2>1 DEF Kept, ServerKeeps
<1> QED BY <1>1, <1>2

LEMMA ServerSends ==
  ASSUME PtTyped, ServerKind, ServerRest, NEW msg \in NextMessages
  PROVE  /\ Proper(ShownBy(msg, RecordedBy(msg)), ptSends + 1, ptSends)
         /\ Proper(RecordedBy(msg), ptSends + 1, ptSends)
         /\ \A i \in DOMAIN RecordedBy(msg) : RecordedBy(msg)[i].who = "results"
         /\ \A k \in DOMAIN ptServer : Proper(ptServer[k], ptSends + 1, ptSends)
         /\ ~Has(Kept(ptChain), msg)
         /\ msg.who = "results" => msg.id <= ptSends
         /\ msg.who = "text" => msg.id <= ptSends + 1
<1> DEFINE n == ptSends
           keeps == Kept(ptChain)
<1>1. n \in Nat /\ n + 1 \in Nat /\ n <= n + 1 /\ n \in Int /\ n + 1 \in Int
  BY PtNumbers
<1>2. /\ msg \in PtTurn /\ msg.who \in {"text", "results"}
      /\ msg.who = "results" => ptLast.call # 0 /\ msg.id = ptLast.call
  BY MessageIs
<1>3. /\ Proper(keeps, n, n) /\ (ptChain = 0 => keeps = <<>>)
  BY ServerKept DEF ServerRest
<1>4. /\ Proper(ptHist, n, n) /\ \A i \in DOMAIN ptHist : ptHist[i].who = "results"
      /\ ptSeed = <<>> \/ (ptSeed = ptHist /\ ptChain = 0)
      /\ \A k \in DOMAIN ptServer : Proper(ptServer[k], n, n)
      /\ RestedOK(keeps) /\ (ptLast.call # 0 => ptLast.call = n)
  BY DEF ServerRest, ServerKeeps
<1> HIDE DEF n, keeps
<1>5. msg.who = "text" => ~Has(keeps, msg) /\ ~Has(ptHist, msg) /\ msg.id <= n + 1
  <2>1. msg.who = "text" => ~Has(keeps, msg) /\ msg.id <= n + 1
    BY <1>3, <1>4, TextIsNew DEF n
  <2> QED BY <1>4, <2>1 DEF Has
<1>6. msg.who = "results" => ~Has(keeps, msg) /\ ~Has(ptHist, msg) /\ msg.id = n
  <2> SUFFICES ASSUME msg.who = "results", msg.id = n
               PROVE  ~Has(keeps, msg) /\ ~Has(ptHist, msg)
    BY <1>2, <1>4
  <2>1. \A h : Proper(h, n, n) => ~Has(h, msg)
    <3> SUFFICES ASSUME NEW h, Proper(h, n, n), Has(h, msg) PROVE FALSE
      OBVIOUS
    <3>1. PICK i \in DOMAIN h : h[i] = msg
      BY DEF Has
    <3>2. msg.id < n
      BY <3>1 DEF Proper, Aged, Age
    <3> QED BY <1>1, <3>2
  <2> QED BY <1>3, <1>4, <2>1
<1>7. Age(msg, n + 1, n)
  BY <1>1, <1>2, <1>5, <1>6 DEF Age
<1>8. /\ Proper(keeps, n + 1, n) /\ Proper(ptHist, n + 1, n)
      /\ \A k \in DOMAIN ptServer : Proper(ptServer[k], n + 1, n)
  BY <1>1, <1>3, <1>4, ProperLater
<1>9. Proper(Append(keeps, msg), n + 1, n) /\ Proper(Append(ptHist, msg), n + 1, n)
  BY <1>2, <1>5, <1>6, <1>7, <1>8, ProperAppend
<1>10. /\ Proper(RecordedBy(msg), n + 1, n)
       /\ \A i \in DOMAIN RecordedBy(msg) : RecordedBy(msg)[i].who = "results"
  <2>1. ~CanonicalKind
    BY DEF ServerKind, CanonicalKind
  <2>2. CASE ptKind = "gemini" /\ msg.who = "results"
    <3>1. RecordedBy(msg) = Append(ptHist, msg)
      BY <2>1, <2>2 DEF RecordedBy
    <3>2. \A i \in DOMAIN Append(ptHist, msg) : Append(ptHist, msg)[i].who = "results"
      <4>1. \A i \in DOMAIN Append(ptHist, msg) :
              Append(ptHist, msg)[i] = msg \/ (i \in DOMAIN ptHist /\ Append(ptHist, msg)[i] = ptHist[i])
        BY <1>2, <1>4, HasAppend DEF Proper
      <4> QED BY <1>4, <2>2, <4>1
    <3> QED BY <1>9, <3>1, <3>2
  <2>3. CASE ~(ptKind = "gemini" /\ msg.who = "results")
    <3>1. RecordedBy(msg) = ptHist
      BY <2>1, <2>3 DEF RecordedBy
    <3> QED BY <1>4, <1>8, <3>1
  <2> QED BY <2>2, <2>3
<1>11. Proper(ShownBy(msg, RecordedBy(msg)), n + 1, n)
  <2>1. CASE ptKind = "responses"
    <3>1. ShownBy(msg, RecordedBy(msg)) = Append(keeps, msg)
      BY <2>1 DEF ShownBy, ResponsesInput, keeps
    <3> QED BY <1>9, <3>1
  <2>2. CASE ptKind = "gemini"
    <3>1. ShownBy(msg, RecordedBy(msg)) = keeps \o Append(ptSeed, msg)
      BY <2>2 DEF ShownBy, InteractionInput, keeps
    <3>2. CASE ptSeed = <<>>
      <4>1. Append(ptSeed, msg) = <<msg>>
        BY <3>2
      <4>2. keeps \in Seq(PtTurn) /\ msg \in PtTurn
        BY <1>2, <1>3 DEF Proper, PtLine
      <4>3. keeps \o <<msg>> = Append(keeps, msg)
        BY <4>2
      <4> QED BY <1>9, <3>1, <4>1, <4>3
    <3>3. CASE ptSeed = ptHist /\ ptChain = 0
      <4>1. keeps = <<>> /\ Append(ptHist, msg) \in Seq(PtTurn)
        BY <1>3, <1>9, <3>3 DEF Proper, PtLine
      <4>2. keeps \o Append(ptSeed, msg) = Append(ptHist, msg)
        BY <3>3, <4>1
      <4> QED BY <1>9, <3>1, <4>2
    <3> QED BY <1>4, <3>2, <3>3
  <2> QED BY <2>1, <2>2 DEF ServerKind
<1> QED BY <1>1, <1>2, <1>5, <1>6, <1>8, <1>10, <1>11 DEF n, keeps
LEMMA PtFirst == PtInit => PtInv
<1> SUFFICES ASSUME PtInit PROVE PtInv
  OBVIOUS
<1>1. /\ ptKind \in PtKinds /\ ptHist = <<>> /\ ptSeed = <<>> /\ ptChain = 0 /\ ptServer = <<>>
      /\ ptFly = NoRequest /\ ptLast = [how |-> "answered", msg |-> OverflowNotice, call |-> 0]
      /\ ptRan = {} /\ ptSends = 0 /\ ptRebuilds = 0 /\ ~Flying
  BY DEF PtInit, Flying
<1>2. <<>> \in PtLine /\ OverflowNotice \in PtTurn /\ Good(<<>>, 0, 0) /\ \A e : ~Has(<<>>, e) /\ ~Ends(<<>>, e)
  BY EmptyLine, TurnIs DEF OverflowNotice
<1>3. PtTyped
  <2>1. <<>> \in Seq(PtLine) /\ 0 \in 0..Len(<<>>)
    OBVIOUS
  <2>2. 0 \in 0..PtSends /\ 0 \in 0..PtTrims /\ 0 \in 0..PtRebuilds
    BY ProviderAssumption
  <2> QED BY <1>1, <1>2, <2>1, <2>2 DEF PtTyped, NoRequest
<1>4. CanonicalRest
  <2>1. Covers(ptHist, ptRan, ptTrimmed)
    BY <1>1 DEF Covers
  <2> QED BY <1>1, <1>2, <2>1 DEF CanonicalRest, RestedOK
<1>5. ServerRest
  <2>1. ServerKeeps(0)
    BY <1>1, <1>2, EmptyLine DEF ServerKeeps, Good
  <2> QED BY <1>1, <2>1 DEF ServerRest, RestedOK
<1> QED BY <1>1, <1>3, <1>4, <1>5 DEF PtInv

LEMMA SentTyped ==
  ASSUME PtTyped, NEW msg \in PtTurn, ptSends < PtSends, ptSends' = ptSends + 1,
         ptHist' \in PtLine, ptSeed' = <<>>, ptRan' = PtSent(msg),
         NEW shown \in PtLine,
         ptFly' = [msg |-> msg, before |-> ptHist, shown |-> shown, rounds |-> 0],
         UNCHANGED <<ptKind, ptChain, ptServer, ptLast, ptRebuilds>>
  PROVE  PtTyped'
<1>1. ptSends' \in 0..PtSends
  BY PtNumbers, ProviderAssumption
<1>2. ptRan' \in SUBSET Nat
  BY TurnOf DEF PtSent, PtTyped
<1>3. 0 \in 0..PtTrims
  BY ProviderAssumption
<1>4. ptFly' \in [msg : PtTurn, before : PtLine, shown : PtLine, rounds : 0..PtTrims]
  BY <1>3 DEF PtTyped
<1>5. ptSeed' \in PtLine
  BY EmptyLine
<1> QED BY <1>1, <1>2, <1>4, <1>5 DEF PtTyped, PtLine, PtTurn

LEMMA Allowed ==
  ASSUME NEW msg \in PtTurn, msg.who \in {"text", "results"}, ptSends \in Nat, ptSends' = ptSends + 1,
         ptFly'.msg = msg, msg.who = "results" => msg.id <= ptSends, msg.who = "text" => msg.id <= ptSends + 1
  PROVE  FlightOK'
<1>1. msg.id \in Nat
  BY TurnOf
<1> QED BY <1>1 DEF FlightOK

LEMMA PtSendStep ==
  ASSUME PtInv, NEW msg \in NextMessages, PtSend(msg)
  PROVE  PtInv'
<1>1. /\ ~Flying /\ ptSends < PtSends /\ PtTyped
      /\ ptHist' = RecordedBy(msg) /\ ptSends' = ptSends + 1 /\ ptSeed' = <<>>
      /\ ptFly' = [msg |-> msg, before |-> ptHist, shown |-> ShownBy(msg, RecordedBy(msg)), rounds |-> 0]
      /\ ptRan' = PtSent(msg) /\ ptTrimmed' = ptTrimmed
      /\ UNCHANGED <<ptKind, ptChain, ptServer, ptLast, ptRebuilds>>
  BY DEF PtSend, PtInv, PtSent
<1>2. msg \in PtTurn /\ msg.who \in {"text", "results"}
  BY <1>1, MessageIs
<1>3. /\ ptSends \in Nat /\ ptSends + 1 \in Nat /\ (ptSends + 1) - 1 = ptSends
  BY <1>1, PtNumbers
<1>4. Flying'
  <2>1. ptFly'.msg.who # "notice"
    BY <1>1, <1>2
  <2>2. NoRequest.msg.who = "notice"
    BY DEF NoRequest, OverflowNotice, Turned
  <2>3. NoRequest' = NoRequest
    BY DEF NoRequest, OverflowNotice, Turned
  <2> QED BY <2>1, <2>2, <2>3 DEF Flying
<1>5. CASE CanonicalKind
  <2>1. CanonicalSent(msg, ptHist') /\ ShownBy(msg, ptHist') = ptHist'
    <3>1. CanonicalRest
      BY <1>1, <1>5 DEF PtInv
    <3> QED BY <1>1, <1>5, <3>1, CanonicalSends
  <2>2. /\ Good(ptHist', ptSends + 1, ptSends) /\ Ends(ptHist', msg)
        /\ Good(ptHist, ptSends + 1, ptSends) /\ ~Has(ptHist, msg)
        /\ msg.who = "results" => Ends(ptHist, Turned("calls", msg.id)) /\ msg.id <= ptSends
        /\ msg.who = "text" => msg.id <= ptSends + 1
        /\ Covers(ptHist', ptRan', ptTrimmed) /\ Covers(ptHist, ptRan', ptTrimmed)
    BY <1>1, <2>1 DEF CanonicalSent
  <2>3. ptFly' = [msg |-> msg, before |-> ptHist, shown |-> ptHist', rounds |-> 0]
    BY <1>1, <2>1
  <2>4. CanonicalFlight'
    BY <1>1, <1>3, <2>2, <2>3 DEF CanonicalFlight
  <2>5. FlightOK'
    BY <1>1, <1>2, <1>3, <2>2, <2>3, Allowed
  <2>6. PtTyped'
    BY <1>1, <1>2, <1>3, <2>2, <2>3, SentTyped DEF Good, Proper
  <2> QED BY <1>1, <1>4, <1>5, <2>4, <2>5, <2>6 DEF PtInv, CanonicalKind, ServerKind
<1>6. CASE ServerKind
  <2>1. PICK shown : shown = ShownBy(msg, RecordedBy(msg))
    OBVIOUS
  <2>2. /\ Proper(shown, ptSends + 1, ptSends)
        /\ Proper(ptHist', ptSends + 1, ptSends)
        /\ \A i \in DOMAIN ptHist' : ptHist'[i].who = "results"
        /\ \A k \in DOMAIN ptServer : Proper(ptServer[k], ptSends + 1, ptSends)
        /\ ~Has(Kept(ptChain), msg)
        /\ msg.who = "results" => msg.id <= ptSends
        /\ msg.who = "text" => msg.id <= ptSends + 1
    <3>1. ServerRest
      BY <1>1, <1>6 DEF PtInv, ServerKind, CanonicalKind
    <3> QED BY <1>1, <1>6, <2>1, <3>1, ServerSends
  <2>3. ptFly' = [msg |-> msg, before |-> ptHist, shown |-> shown, rounds |-> 0]
    BY <1>1, <2>1
  <2>5. Kept(ptChain)' = Kept(ptChain)
    BY <1>1 DEF Kept
  <2>6. ServerFlight'
    <3>1. (ptSends' - 1) = ptSends
      BY <1>1, <1>3
    <3> QED BY <1>1, <2>2, <2>3, <2>5, <3>1 DEF ServerFlight, ServerKeeps
  <2>7. FlightOK'
    BY <1>1, <1>2, <1>3, <2>2, <2>3, Allowed
  <2>8. PtTyped'
    BY <1>1, <1>2, <1>3, <2>2, <2>3, SentTyped DEF Good, Proper
  <2> QED BY <1>1, <1>4, <1>6, <2>6, <2>7, <2>8 DEF PtInv, CanonicalKind, ServerKind
<1> QED BY <1>1, <1>5, <1>6, ProviderAssumption DEF PtTyped, CanonicalKind, ServerKind
\* What is in flight is the message and its histories.
LEMMA FlightIs ==
  ASSUME PtInv, Flying
  PROVE  /\ PtTyped /\ FlightOK
         /\ ptSends \in Nat /\ ptSends - 1 \in Int /\ ptSends - 1 <= ptSends /\ ptSends # 0
         /\ ptFly.msg \in PtTurn /\ ptFly.msg.who \in {"text", "results"} /\ ptFly.msg.id \in Nat
         /\ CanonicalKind => CanonicalFlight
         /\ ServerKind => ServerFlight
         /\ CanonicalKind \/ ServerKind
         /\ CanonicalKind => ~ServerKind
<1>1. PtTyped /\ FlightOK
  BY DEF PtInv
<1>2. ptFly.msg \in PtTurn
  BY <1>1 DEF PtTyped
<1>3. ptKind \in PtKinds
  BY <1>1 DEF PtTyped
<1> QED BY <1>1, <1>2, <1>3, PtNumbers, TurnOf, ProviderAssumption DEF PtInv, FlightOK, CanonicalKind, ServerKind

\* An answer ends the flight, and so does a failure.
LEMMA EndedIs ==
  ASSUME PtInv, Flying, NEW how \in {"answered", "failed"}, NEW call \in Nat, Ended(how, call),
         ptHist' \in PtLine, ptServer' \in Seq(PtLine), ptChain' \in 0..Len(ptServer')
  PROVE  /\ PtTyped' /\ ~Flying'
         /\ CanonicalKind' = CanonicalKind /\ ServerKind' = ServerKind
         /\ ptLast'.how = how /\ ptLast'.msg = ptFly.msg /\ ptLast'.call = call
         /\ ptSends' = ptSends /\ ptRan' = ptRan /\ ptTrimmed' = ptTrimmed /\ ptSeed' = ptSeed
<1>1. /\ ptFly' = NoRequest /\ ptLast' = [how |-> how, msg |-> ptFly.msg, call |-> call]
      /\ UNCHANGED <<ptKind, ptSeed, ptRan, ptTrimmed, ptSends, ptRebuilds>>
  BY DEF Ended
<1>2. NoRequest' = NoRequest
  BY DEF NoRequest, OverflowNotice, Turned
<1>3. NoRequest \in [msg : PtTurn, before : PtLine, shown : PtLine, rounds : 0..PtTrims]
  <2>1. OverflowNotice \in PtTurn
    BY TurnIs DEF OverflowNotice
  <2>2. <<>> \in PtLine
    BY DEF PtLine
  <2>3. 0 \in 0..PtTrims
    BY ProviderAssumption
  <2> QED BY <2>1, <2>2, <2>3 DEF NoRequest
<1>4. PtTyped /\ ptFly.msg \in PtTurn
  BY FlightIs
<1>5. PtTyped'
  BY <1>1, <1>3, <1>4 DEF PtTyped, PtLine, PtTurn
<1> QED BY <1>1, <1>2, <1>5 DEF Flying, CanonicalKind, ServerKind

\* What an answer adds to a canonical history.
LEMMA AnswerJoins ==
  ASSUME NEW n \in Nat, n # 0, NEW h, Good(h, n, n - 1), NEW e \in PtTurn, Ends(h, e),
         e.who \in {"text", "results"}, NEW add, add = <<>> \/ add = <<OverflowNotice>>,
         NEW b, b = <<>> \/ b = <<Turned("calls", n)>> \/ b = <<Turned("model", n)>>
  PROVE  /\ Good(h \o add \o b, n, n)
         /\ \A x : Has(h, x) => Has(h \o add \o b, x)
         /\ b = <<Turned("calls", n)>> => Ends(h \o add \o b, Turned("calls", n))
<1>1. n \in Int /\ n - 1 \in Int /\ n - 1 <= n /\ ~(n <= n - 1)
  OBVIOUS
<1>2. Good(h, n, n)
  BY <1>1, GoodLater
<1>3. ~PendingCall(h)
  BY DEF Ends, PendingCall
<1>4. OverflowNotice \in PtTurn /\ OverflowNotice.who = "notice"
  BY TurnIs DEF OverflowNotice
<1>5. PICK g : g = h \o add
  OBVIOUS
<1>6. h \in Seq(PtTurn)
  BY DEF Good, Proper, PtLine
<1>7. Good(g, n, n - 1) /\ ~PendingCall(g) /\ \A x : Has(h, x) => Has(g, x)
  <2>1. CASE add = <<>>
    <3>1. g = h
      BY <1>5, <1>6, <2>1
    <3> QED BY <1>3, <3>1
  <2>2. CASE add = <<OverflowNotice>>
    <3>1. g = Append(h, OverflowNotice)
      BY <1>4, <1>5, <1>6, <2>2
    <3>2. Age(OverflowNotice, n, n - 1)
      BY <1>4 DEF Age
    <3>3. Good(g, n, n - 1)
      BY <1>3, <1>4, <3>1, <3>2, GoodAppend
    <3>4. Ends(g, OverflowNotice) /\ \A x : Has(h, x) => Has(g, x)
      BY <1>4, <1>6, <3>1, HasAppend DEF PtLine
    <3> QED BY <1>4, <3>3, <3>4 DEF Ends, PendingCall
  <2> QED BY <2>1, <2>2
<1>8. Good(g, n, n) /\ g \in Seq(PtTurn)
  BY <1>1, <1>7, GoodLater DEF Good, Proper, PtLine
<1>9. CASE b = <<>>
  <2>1. g \o b = g
    BY <1>8, <1>9
  <2> QED BY <1>5, <1>7, <1>8, <1>9, <2>1
<1>10. ASSUME NEW who \in {"calls", "model"}, b = <<Turned(who, n)>>
       PROVE  Good(g \o b, n, n) /\ Ends(g \o b, Turned(who, n)) /\ \A x : Has(g, x) => Has(g \o b, x)
  <2>1. PICK a : a = Turned(who, n)
    OBVIOUS
  <2>2. a \in PtTurn /\ a.who = who /\ a.id = n
    BY <2>1, TurnIs
  <2>3. g \o b = Append(g, a)
    BY <1>8, <1>10, <2>1, <2>2
  <2>4. Age(a, n, n)
    BY <1>1, <2>2 DEF Age
  <2>5. ~Has(g, a)
    <3> SUFFICES ASSUME Has(g, a) PROVE FALSE
      OBVIOUS
    <3>1. PICK i \in DOMAIN g : g[i] = a
      BY DEF Has
    <3>2. Age(a, n, n - 1)
      BY <1>7, <3>1 DEF Good, Proper, Aged
    <3> QED BY <1>1, <2>2, <3>2 DEF Age
  <2>6. Good(Append(g, a), n, n)
    BY <1>7, <1>8, <2>2, <2>4, <2>5, GoodAppend
  <2>7. Ends(Append(g, a), a) /\ \A x : Has(g, x) => Has(Append(g, a), x)
    BY <1>8, <2>2, HasAppend DEF PtLine
  <2> QED BY <2>1, <2>3, <2>6, <2>7
<1> QED BY <1>5, <1>7, <1>9, <1>10

LEMMA PtAnswerStep ==
  ASSUME PtInv, NEW a \in Answers, PtAnswer(a)
  PROVE  PtInv'
<1>1. PICK call : call = IF a # <<>> /\ a[1].who = "calls" THEN a[1].id ELSE 0
  OBVIOUS
<1>2. /\ Flying /\ Ended("answered", call)
      /\ ptHist' = ptHist \o (IF ptFly.rounds > 0 THEN <<OverflowNotice>> ELSE <<>>) \o AnswerEntries(a)
      /\ ptServer' = (IF ServerKind THEN Append(ptServer, ptFly.shown \o a) ELSE ptServer)
      /\ ptChain' = (IF ServerKind THEN Len(ptServer) + 1 ELSE ptChain)
  BY <1>1 DEF PtAnswer
<1>3. PICK n : n = ptSends
  OBVIOUS
<1>4. /\ PtTyped /\ FlightOK /\ n \in Nat /\ n - 1 \in Int /\ n - 1 <= n /\ n # 0
      /\ ptFly.msg \in PtTurn /\ ptFly.msg.who \in {"text", "results"}
      /\ CanonicalKind => CanonicalFlight
      /\ ServerKind => ServerFlight
      /\ CanonicalKind \/ ServerKind
      /\ CanonicalKind => ~ServerKind
  BY <1>2, <1>3, FlightIs
<1>5. PICK c : c = Turned("calls", n)
  OBVIOUS
<1>6. PICK t : t = Turned("model", n)
  OBVIOUS
<1>7. /\ c \in PtTurn /\ c.who = "calls" /\ c.id = n /\ t \in PtTurn /\ t.who = "model" /\ t.id = n
  BY <1>4, <1>5, <1>6, TurnIs
<1>8. a = <<c>> \/ a = <<t>> \/ a = <<>>
  BY <1>3, <1>5, <1>6 DEF Answers
<1>9. (a = <<c>> /\ call = n) \/ (a # <<c>> /\ call = 0)
  <2>1. <<c>> # <<t>> /\ <<c>> # <<>> /\ <<c>>[1] = c /\ <<t>>[1] = t
    BY <1>7
  <2> QED BY <1>1, <1>7, <1>8, <2>1
<1>10. CASE CanonicalKind
  <2>1. /\ Good(ptHist, n, n - 1) /\ Ends(ptHist, ptFly.msg) /\ Covers(ptHist, ptRan, ptTrimmed)
    BY <1>3, <1>4, <1>10 DEF CanonicalFlight
  <2>2. PICK add : add = IF ptFly.rounds > 0 THEN <<OverflowNotice>> ELSE <<>>
    OBVIOUS
  <2>3. PICK b : b = AnswerEntries(a)
    OBVIOUS
  <2>4. (b = <<>> \/ b = <<c>> \/ b = <<t>>) /\ (a = <<c>> => b = <<c>>)
    <3>1. a = <<>> \/ a # <<>>
      OBVIOUS
    <3>2. <<c>> # <<>>
      OBVIOUS
    <3> QED BY <1>3, <1>5, <1>6, <1>8, <1>10, <2>3, <3>2
         DEF AnswerEntries, CanonicalKind, OpenAIAnswer, ClaudeCodeAnswer, AnthropicAnswer
  <2>5. /\ Good(ptHist', n, n)
        /\ \A x : Has(ptHist, x) => Has(ptHist', x)
        /\ b = <<c>> => Ends(ptHist', c)
    <3>1. ptHist' = ptHist \o add \o b
      BY <1>2, <2>2, <2>3
    <3>2. add = <<>> \/ add = <<OverflowNotice>>
      BY <2>2
    <3>3. b = <<>> \/ b = <<Turned("calls", n)>> \/ b = <<Turned("model", n)>>
      BY <1>5, <1>6, <2>4
    <3> HIDE <2>2, <2>3
    <3> QED BY <1>4, <1>5, <2>1, <3>1, <3>2, <3>3, AnswerJoins
  <2>6. /\ PtTyped' /\ ~Flying' /\ CanonicalKind' /\ ~ServerKind'
        /\ ptLast'.how = "answered" /\ ptLast'.call = call
        /\ ptSends' = n /\ ptRan' = ptRan /\ ptTrimmed' = ptTrimmed
    <3>1. ptHist' \in PtLine /\ ptServer' = ptServer /\ ptChain' = ptChain /\ call \in Nat
      BY <1>2, <1>4, <1>9, <1>10, <2>5 DEF Good, Proper
    <3>2. ptServer' \in Seq(PtLine) /\ ptChain' \in 0..Len(ptServer')
      BY <1>4, <3>1 DEF PtTyped
    <3> QED BY <1>2, <1>3, <1>4, <1>10, <3>1, <3>2, EndedIs
  <2>7. Covers(ptHist, ptRan, ptTrimmed)'
    <3>1. \A d \in ptRan : ~Ends(ptHist, Turned("calls", d))
      BY <1>4, <2>1 DEF Ends, Turned
    <3> QED BY <2>1, <2>5, <2>6, <3>1 DEF Covers
  <2>8. CanonicalRest'
    BY <1>5, <1>9, <2>4, <2>5, <2>6, <2>7 DEF CanonicalRest, RestedOK
  <2> QED BY <2>6, <2>8 DEF PtInv
<1>11. CASE ServerKind
  <2>1. /\ ServerKeeps(n - 1) /\ ptSeed = <<>> /\ ptFly.rounds = 0 /\ Proper(ptFly.shown, n, n - 1)
    BY <1>3, <1>4, <1>11 DEF ServerFlight
  <2>2. Proper(ptHist, n, n - 1) /\ \A i \in DOMAIN ptHist : ptHist[i].who = "results"
    BY <1>3, <2>1 DEF ServerKeeps
  <2>3. ptHist' = ptHist
    <3>1. AnswerEntries(a) = <<>>
      BY <1>11 DEF AnswerEntries, ServerKind
    <3>2. ptHist \in Seq(PtTurn)
      BY <2>2 DEF Proper, PtLine
    <3> QED BY <1>2, <2>1, <3>1, <3>2
  <2>4. PICK shown : shown = ptFly.shown \o a
    OBVIOUS
  <2>5. Proper(shown, n, n)
    <3>1. Proper(ptFly.shown, n, n) /\ ptFly.shown \in Seq(PtTurn)
      BY <1>4, <2>1, ProperLater DEF Proper, PtLine
    <3>2. CASE a = <<>>
      <4>1. shown = ptFly.shown
        BY <2>4, <3>1, <3>2
      <4> QED BY <3>1, <4>1
    <3>3. ASSUME NEW e \in {c, t}, a = <<e>> PROVE Proper(shown, n, n)
      <4>1. shown = Append(ptFly.shown, e) /\ e \in PtTurn /\ e.id = n /\ e.who \in {"calls", "model"}
        BY <1>7, <2>4, <3>1, <3>3
      <4>2. ~Has(ptFly.shown, e)
        <5> SUFFICES ASSUME Has(ptFly.shown, e) PROVE FALSE
          OBVIOUS
        <5>1. PICK i \in DOMAIN ptFly.shown : ptFly.shown[i] = e
          BY DEF Has
        <5>2. Age(e, n, n - 1)
          BY <2>1, <5>1 DEF Proper, Aged
        <5> QED BY <1>4, <4>1, <5>2 DEF Age
      <4>3. Age(e, n, n)
        BY <1>4, <4>1 DEF Age
      <4> QED BY <3>1, <4>1, <4>2, <4>3, ProperAppend
    <3> QED BY <1>8, <3>2, <3>3
  <2>6. /\ ptServer' = Append(ptServer, shown) /\ ptServer \in Seq(PtLine) /\ shown \in PtLine
        /\ ptChain' = Len(ptServer) + 1
    BY <1>2, <1>4, <1>11, <2>4, <2>5 DEF PtTyped, Proper
  <2>7. /\ ptServer' \in Seq(PtLine) /\ Len(ptServer') = Len(ptServer) + 1
        /\ ptServer'[Len(ptServer) + 1] = shown /\ \A k \in 1..Len(ptServer) : ptServer'[k] = ptServer[k]
    BY <2>6, AppendIs
  <2>8. /\ Len(ptServer) \in Nat /\ DOMAIN ptServer = 1..Len(ptServer)
        /\ DOMAIN ptServer' = 1..(Len(ptServer) + 1) /\ ptChain' \in 0..Len(ptServer')
    BY <2>6, <2>7
  <2>9. /\ PtTyped' /\ ~Flying' /\ ~CanonicalKind' /\ ServerKind'
        /\ ptLast'.how = "answered" /\ ptLast'.call = call /\ ptSends' = n /\ ptSeed' = <<>>
    <3>1. call \in Nat /\ ptHist' \in PtLine
      BY <1>4, <1>9, <2>2, <2>3 DEF Proper
    <3> QED BY <1>2, <1>3, <1>4, <1>11, <2>1, <2>7, <2>8, <3>1, EndedIs
  <2>10. \A k \in DOMAIN ptServer' : Proper(ptServer'[k], n, n)
    <3>1. \A k \in DOMAIN ptServer : Proper(ptServer[k], n, n)
      <4>1. \A k \in DOMAIN ptServer : Proper(ptServer[k], n, n - 1)
        BY <1>3, <2>1 DEF ServerKeeps
      <4> QED BY <1>4, <4>1, ProperLater
    <3>2. \A k \in 1..(Len(ptServer) + 1) : k \in 1..Len(ptServer) \/ k = Len(ptServer) + 1
      BY <2>8
    <3> QED BY <2>5, <2>7, <2>8, <3>1, <3>2
  <2>11. Proper(ptHist', n, n)
    BY <1>4, <2>2, <2>3, ProperLater
  <2>12. ServerRest'
    BY <1>9, <2>2, <2>3, <2>9, <2>10, <2>11 DEF ServerRest, ServerKeeps, RestedOK
  <2> QED BY <2>9, <2>12 DEF PtInv
<1> QED BY <1>4, <1>10, <1>11
\* A stream that ends early leaves no answer to name.
LEMMA PtIncompleteStep == PtInv /\ PtIncomplete => PtInv'
<1> SUFFICES ASSUME PtInv, PtIncomplete PROVE PtInv'
  OBVIOUS
<1>1. /\ Flying /\ Ended("answered", 0) /\ ptKind = "responses" /\ ptChain' = 0
      /\ ptHist' = ptHist /\ ptServer' = ptServer
  BY DEF PtIncomplete
<1>2. PICK n : n = ptSends
  OBVIOUS
<1>3. /\ PtTyped /\ n \in Nat /\ n - 1 \in Int /\ n - 1 <= n /\ ServerKind /\ ~CanonicalKind /\ ServerFlight
  BY <1>1, <1>2, FlightIs DEF ServerKind
<1>4. /\ Proper(ptHist, n, n - 1) /\ (\A i \in DOMAIN ptHist : ptHist[i].who = "results") /\ ptSeed = <<>>
      /\ \A k \in DOMAIN ptServer : Proper(ptServer[k], n, n - 1)
  BY <1>2, <1>3 DEF ServerFlight, ServerKeeps
<1>5. /\ PtTyped' /\ ~Flying' /\ ~CanonicalKind' /\ ServerKind'
      /\ ptLast'.how = "answered" /\ ptLast'.call = 0 /\ ptSends' = n /\ ptSeed' = <<>>
  <2>1. ptHist' \in PtLine /\ ptServer' \in Seq(PtLine) /\ ptChain' \in 0..Len(ptServer')
    BY <1>1, <1>3 DEF PtTyped
  <2>2. /\ PtTyped' /\ ~Flying' /\ CanonicalKind' = CanonicalKind /\ ServerKind' = ServerKind
        /\ ptLast'.how = "answered" /\ ptLast'.call = 0 /\ ptSends' = ptSends /\ ptSeed' = ptSeed
    BY <1>1, <2>1, EndedIs
  <2> QED BY <1>2, <1>3, <1>4, <2>2
<1>6. Proper(ptHist', n, n) /\ \A k \in DOMAIN ptServer' : Proper(ptServer'[k], n, n)
  BY <1>1, <1>3, <1>4, ProperLater
<1>7. ServerRest'
  BY <1>1, <1>4, <1>5, <1>6 DEF ServerRest, ServerKeeps, RestedOK
<1> QED BY <1>5, <1>7 DEF PtInv

\* After an error, the message is not there and its calls wait.
LEMMA AfterErrorIs ==
  ASSUME PtInv, Flying, CanonicalKind, NEW w, w = AfterError
  PROVE  /\ Good(w, ptSends, ptSends - 1) /\ ~Has(w, ptFly.msg)
         /\ ptFly.msg.who = "results" => Ends(w, Turned("calls", ptFly.msg.id))
         /\ Covers(w, ptRan, ptTrimmed)
<1>1. /\ CanonicalFlight /\ ptFly.msg \in PtTurn /\ ptFly.msg.who \in {"text", "results"} /\ ptRan \in SUBSET Nat
  BY FlightIs DEF PtTyped
<1>2. CASE ptKind = "claude-code"
  <2>1. w = ptFly.before
    BY <1>2 DEF AfterError, Snapshot
  <2> QED BY <1>1, <2>1 DEF CanonicalFlight
<1>3. CASE ptKind \in {"openai", "anthropic"}
  <2>1. w = WithoutTail(ptHist)
    BY <1>3 DEF AfterError, RolledBack, StreamRolledBack
  <2> QED BY <1>1, <2>1, TailKeeps DEF CanonicalFlight
<1> QED BY <1>2, <1>3 DEF CanonicalKind

LEMMA PtFailStep == PtInv /\ PtFail => PtInv'
<1> SUFFICES ASSUME PtInv, PtFail PROVE PtInv'
  OBVIOUS
<1>1. /\ Flying /\ Ended("failed", 0) /\ ptHist' = ResultsRestored(AfterError)
      /\ ptChain' = ptChain /\ ptServer' = ptServer
  BY DEF PtFail
<1>2. PICK n : n = ptSends
  OBVIOUS
<1>20. PICK msg : msg = ptFly.msg
  OBVIOUS
<1>3. /\ PtTyped /\ FlightOK /\ n \in Nat /\ n - 1 \in Int /\ n - 1 <= n /\ n # 0
      /\ msg \in PtTurn /\ msg.who \in {"text", "results"} /\ msg.id \in Nat
      /\ CanonicalKind => CanonicalFlight
      /\ ServerKind => ServerFlight
      /\ CanonicalKind \/ ServerKind
      /\ CanonicalKind => ~ServerKind
  BY <1>1, <1>2, <1>20, FlightIs
<1>30. /\ msg.who = "text" => msg.id <= n
       /\ msg.who = "results" => msg.id < n
  BY <1>2, <1>20, <1>3 DEF FlightOK
<1>31. ptServer' \in Seq(PtLine) /\ ptChain' \in 0..Len(ptServer')
  BY <1>1, <1>3 DEF PtTyped
<1>4. CASE CanonicalKind
  <2>1. PICK w : w = AfterError
    OBVIOUS
  <2>2. /\ Good(w, n, n - 1) /\ ~Has(w, msg)
        /\ msg.who = "results" => Ends(w, Turned("calls", msg.id))
        /\ Covers(w, ptRan, ptTrimmed)
    BY <1>1, <1>2, <1>20, <1>4, <2>1, AfterErrorIs
  <2>3. Good(ptHist', n, n - 1) /\ Covers(ptHist', ptRan, ptTrimmed) /\ (msg.who = "text" => ~Has(ptHist', msg))
    <3>1. CASE msg.who = "text"
      <4>1. ptHist' = w
        BY <1>1, <1>20, <2>1, <3>1 DEF ResultsRestored
      <4> QED BY <2>2, <4>1
    <3>2. CASE msg.who = "results"
      <4>1. PICK c \in Nat : c = msg.id
        BY <1>3
      <4>2. msg = Turned("results", c) /\ Ends(w, Turned("calls", c))
        BY <1>3, <2>2, <3>2, <4>1, TurnOf
      <4>3. w[Len(w)].who = "calls" /\ w[Len(w)].id = c /\ w # <<>>
        BY <2>2, <4>2, NotYet DEF Ends
      <4>4. ptHist' = Append(w, msg)
        BY <1>1, <1>20, <2>1, <3>2, <4>3 DEF ResultsRestored, PendingCall
      <4>5. Age(msg, n, n - 1)
        BY <1>30, <3>2 DEF Age
      <4>6. Good(ptHist', n, n - 1)
        BY <1>3, <2>2, <3>2, <4>1, <4>2, <4>3, <4>4, <4>5, GoodAppend
      <4>7. Has(ptHist', msg) /\ \A x : Has(w, x) => Has(ptHist', x)
        BY <1>3, <2>2, <4>4, HasAppend DEF Good, Proper
      <4>8. \A d \in Nat : Ends(w, Turned("calls", d)) => d = c
        BY <2>2, <4>3, NotYet
      <4>9. ptRan \in SUBSET Nat
        BY <1>3 DEF PtTyped
      <4>10. Covers(ptHist', ptRan, ptTrimmed)
        BY <2>2, <4>2, <4>7, <4>8, <4>9 DEF Covers
      <4> QED BY <3>2, <4>6, <4>10
    <3> QED BY <1>3, <3>1, <3>2
  <2>4. /\ PtTyped' /\ ~Flying' /\ CanonicalKind' /\ ~ServerKind'
        /\ ptLast'.how = "failed" /\ ptLast'.call = 0 /\ ptLast'.msg = msg
        /\ ptSends' = n /\ ptRan' = ptRan /\ ptTrimmed' = ptTrimmed
    <3>1. ptHist' \in PtLine
      BY <2>3 DEF Good, Proper
    <3> QED BY <1>1, <1>2, <1>20, <1>3, <1>31, <1>4, <3>1, EndedIs
  <2>5. Good(ptHist', n, n)
    BY <1>3, <2>3, GoodLater
  <2>6. CanonicalRest'
    BY <1>30, <2>3, <2>4, <2>5 DEF CanonicalRest, RestedOK
  <2> QED BY <2>4, <2>6 DEF PtInv
<1>5. CASE ServerKind
  <2>1. /\ Proper(ptHist, n, n - 1) /\ (\A i \in DOMAIN ptHist : ptHist[i].who = "results") /\ ptSeed = <<>>
        /\ (\A k \in DOMAIN ptServer : Proper(ptServer[k], n, n - 1)) /\ ~Has(Kept(ptChain), msg)
    BY <1>2, <1>20, <1>3, <1>5 DEF ServerFlight, ServerKeeps
  <2>2. ptHist' = ptHist
    <3>1. AfterError = ptHist
      BY <1>5 DEF AfterError, ServerKind
    <3>2. ~PendingCall(ptHist)
      <4>1. ptHist # <<>> => Len(ptHist) \in DOMAIN ptHist
        BY <2>1, LineIs DEF Proper
      <4> QED BY <2>1, <4>1 DEF PendingCall
    <3> QED BY <1>1, <3>1, <3>2 DEF ResultsRestored
  <2>3. /\ PtTyped' /\ ~Flying' /\ ~CanonicalKind' /\ ServerKind'
        /\ ptLast'.how = "failed" /\ ptLast'.call = 0 /\ ptLast'.msg = msg
        /\ ptSends' = n /\ ptSeed' = <<>>
    <3>1. ptHist' \in PtLine
      BY <2>1, <2>2 DEF Proper
    <3> QED BY <1>1, <1>2, <1>20, <1>3, <1>31, <1>5, <2>1, <3>1, EndedIs
  <2>4. Kept(ptChain)' = Kept(ptChain)
    BY <1>1 DEF Kept
  <2>5. Proper(ptHist', n, n) /\ \A k \in DOMAIN ptServer' : Proper(ptServer'[k], n, n)
    <3>1. \A h : Proper(h, n, n - 1) => Proper(h, n, n)
      BY <1>3, ProperLater
    <3> QED BY <1>1, <2>1, <2>2, <3>1
  <2>6. ServerRest'
    BY <1>30, <2>1, <2>2, <2>3, <2>4, <2>5 DEF ServerRest, ServerKeeps, RestedOK
  <2> QED BY <2>3, <2>6 DEF PtInv
<1> QED BY <1>3, <1>4, <1>5

LEMMA PtOverflowStep == PtInv /\ PtOverflow => PtInv'
<1> SUFFICES ASSUME PtInv, PtOverflow PROVE PtInv'
  OBVIOUS
<1>1. PICK cut : cut = Min(SafeCuts(ptHist))
  OBVIOUS
<1>2. PICK rest : rest = SubSeq(ptHist, cut + 1, Len(ptHist))
  OBVIOUS
<1>3. /\ Flying /\ CanonicalKind /\ ptFly.rounds < PtTrims /\ SafeCuts(ptHist) # {}
      /\ ptHist' = rest /\ ptTrimmed' = ptTrimmed \cup ToSet(SubSeq(ptHist, 1, cut))
      /\ ptFly' = [ptFly EXCEPT !.rounds = @ + 1, !.shown = ShownBy(ptFly.msg, rest)]
      /\ UNCHANGED <<ptKind, ptSeed, ptChain, ptServer, ptLast, ptRan, ptSends, ptRebuilds>>
  BY <1>1, <1>2 DEF PtOverflow, MayOverflow
<1>4. PICK n : n = ptSends
  OBVIOUS
<1>40. PICK msg : msg = ptFly.msg
  OBVIOUS
<1>5. /\ PtTyped /\ FlightOK /\ CanonicalFlight /\ ~ServerKind
      /\ msg \in PtTurn /\ msg.who \in {"text", "results"}
  BY <1>3, <1>40, FlightIs
<1>6. Good(ptHist, n, n - 1) /\ Ends(ptHist, msg) /\ Covers(ptHist, ptRan, ptTrimmed)
  BY <1>4, <1>40, <1>5 DEF CanonicalFlight
<1>7. cut \in SafeCuts(ptHist)
  <2>1. SafeCuts(ptHist) \in SUBSET Nat
    BY DEF SafeCuts
  <2> QED BY <1>1, <1>3, <2>1, MinIs
<1>8. /\ Good(rest, n, n - 1) /\ Ends(rest, msg)
      /\ \A x : Has(ptHist, x) => Has(rest, x) \/ x \in ToSet(SubSeq(ptHist, 1, cut))
  BY <1>2, <1>6, <1>7, CutKeeps
<1>9. ShownBy(msg, rest) = rest
  <2>1. ~PendingCall(rest)
    BY <1>5, <1>8 DEF Ends, PendingCall
  <2>2. WireGuarded(rest) = rest
    BY <1>8, <2>1, WireIs
  <2> QED BY <1>3, <2>2 DEF ShownBy, CanonicalKind
<1>10. rest \in PtLine
  BY <1>8 DEF Good, Proper
<1>11. /\ ptFly' \in [msg : PtTurn, before : PtLine, shown : PtLine, rounds : 0..PtTrims]
       /\ ptFly'.msg = msg /\ ptFly'.before = ptFly.before /\ ptFly'.shown = rest
  <2>1. ptFly \in [msg : PtTurn, before : PtLine, shown : PtLine, rounds : 0..PtTrims]
    BY <1>5 DEF PtTyped
  <2>2. ptFly.rounds + 1 \in 0..PtTrims
    BY <1>3, <2>1, ProviderAssumption
  <2> QED BY <1>3, <1>40, <1>9, <1>10, <2>1, <2>2
<1>12. PtTyped'
  BY <1>3, <1>5, <1>10, <1>11 DEF PtTyped, PtLine, PtTurn
<1>13. Flying'
  <2>1. NoRequest' = NoRequest /\ NoRequest.msg.who = "notice"
    BY DEF NoRequest, OverflowNotice, Turned
  <2> QED BY <1>5, <1>11, <2>1 DEF Flying
<1>14. FlightOK'
  BY <1>3, <1>40, <1>5, <1>11 DEF FlightOK
<1>15. Covers(rest, ptRan, ptTrimmed')
  <2>1. \A d \in ptRan : ~Ends(ptHist, Turned("calls", d))
    BY <1>5, <1>6 DEF Ends, Turned
  <2> QED BY <1>3, <1>6, <1>8, <2>1 DEF Covers
<1>16. /\ Good(ptFly.before, n, n - 1) /\ ~Has(ptFly.before, msg)
       /\ msg.who = "results" => Ends(ptFly.before, Turned("calls", msg.id))
       /\ Covers(ptFly.before, ptRan, ptTrimmed')
  BY <1>3, <1>4, <1>40, <1>5 DEF CanonicalFlight, Covers
<1>17. CanonicalFlight'
  BY <1>3, <1>4, <1>8, <1>11, <1>15, <1>16 DEF CanonicalFlight
<1> QED BY <1>3, <1>5, <1>12, <1>13, <1>14, <1>17 DEF PtInv, CanonicalKind, ServerKind

LEMMA PtRebuildStep == PtInv /\ PtRebuild => PtInv'
<1> SUFFICES ASSUME PtInv, PtRebuild PROVE PtInv'
  OBVIOUS
<1>1. /\ ~Flying /\ ptRebuilds < PtRebuilds /\ ptRebuilds' = ptRebuilds + 1
      /\ ptChain' = 0 /\ ptSeed' = (IF ptKind = "gemini" THEN ptHist ELSE <<>>)
      /\ UNCHANGED <<ptKind, ptHist, ptServer, ptFly, ptLast, ptRan, ptTrimmed, ptSends>>
  BY DEF PtRebuild, NewSession, Unchained, SeedTurns
<1>2. PtTyped
  BY DEF PtInv
<1>3. PtTyped' /\ ~Flying'
  <2>1. ptRebuilds' \in 0..PtRebuilds
    BY <1>1, <1>2, ProviderAssumption DEF PtTyped
  <2>2. ptSeed' \in PtLine
    BY <1>1, <1>2 DEF PtTyped, PtLine
  <2>3. ptChain' \in 0..Len(ptServer')
    BY <1>1, <1>2 DEF PtTyped
  <2>4. NoRequest' = NoRequest
    BY DEF NoRequest, OverflowNotice, Turned
  <2> QED BY <1>1, <1>2, <2>1, <2>2, <2>3, <2>4 DEF PtTyped, Flying, PtLine, PtTurn
<1>4. CASE CanonicalKind
  <2>1. CanonicalRest /\ ~ServerKind
    BY <1>1, <1>4 DEF PtInv, CanonicalKind, ServerKind
  <2>2. CanonicalRest'
    BY <1>1, <2>1 DEF CanonicalRest, RestedOK
  <2> QED BY <1>1, <1>3, <1>4, <2>1, <2>2 DEF PtInv, CanonicalKind, ServerKind
<1>5. CASE ServerKind
  <2>1. ServerRest /\ ~CanonicalKind
    BY <1>1, <1>5 DEF PtInv, CanonicalKind, ServerKind
  <2>2. Kept(ptChain)' = <<>>
    BY <1>1 DEF Kept
  <2>3. ~Has(<<>>, ptLast.msg)
    BY DEF Has
  <2>4. ServerRest'
    BY <1>1, <2>1, <2>2, <2>3 DEF ServerRest, ServerKeeps, RestedOK
  <2> QED BY <1>1, <1>3, <1>5, <2>1, <2>4 DEF PtInv, CanonicalKind, ServerKind
<1> QED BY <1>2, <1>4, <1>5, ProviderAssumption DEF PtTyped, CanonicalKind, ServerKind

LEMMA PtStutter == PtInv /\ UNCHANGED ptVars => PtInv'
<1> SUFFICES ASSUME PtInv, UNCHANGED ptVars PROVE PtInv'
  OBVIOUS
<1>1. UNCHANGED <<ptKind, ptHist, ptSeed, ptChain, ptServer, ptFly, ptLast, ptRan, ptTrimmed, ptSends, ptRebuilds>>
  BY DEF ptVars
<1>2. Flying' = Flying /\ CanonicalKind' = CanonicalKind /\ ServerKind' = ServerKind /\ Kept(ptChain)' = Kept(ptChain)
  BY <1>1 DEF Flying, CanonicalKind, ServerKind, Kept, NoRequest, OverflowNotice, Turned
<1>3. PtTyped' = PtTyped /\ FlightOK' = FlightOK
  BY <1>1 DEF PtTyped, FlightOK, PtLine, PtTurn
<1>4. CanonicalFlight' = CanonicalFlight /\ CanonicalRest' = CanonicalRest
  BY <1>1 DEF CanonicalFlight, CanonicalRest, RestedOK
<1>5. ServerFlight' = ServerFlight /\ ServerRest' = ServerRest
  BY <1>1, <1>2 DEF ServerFlight, ServerRest, ServerKeeps, RestedOK
<1> QED BY <1>2, <1>3, <1>4, <1>5 DEF PtInv

LEMMA PtStep == PtInv /\ [PtNext]_ptVars => PtInv'
BY PtSendStep, PtAnswerStep, PtOverflowStep, PtIncompleteStep, PtFailStep, PtRebuildStep, PtStutter DEF PtNext

LEMMA PtAlways == PtSpec => []PtInv
BY PtFirst, PtStep, PTL DEF PtSpec

\* Every value of the provider sessions is of its type.
LEMMA PtTypes == PtInv => PtTypeOK
<1> SUFFICES ASSUME PtInv PROVE PtTypeOK
  OBVIOUS
<1>1. PtTyped
  BY DEF PtInv
<1>2. ptFly.rounds \in 0..PtTrims /\ ptLast.how \in {"answered", "failed"}
  BY <1>1 DEF PtTyped
<1>3. \A e \in ToSet(ptHist) : e.who \in {"text", "results", "notice", "model", "calls"}
  BY <1>1, LineIs, TurnOf DEF PtTyped, ToSet
<1> QED BY <1>1, <1>2, <1>3 DEF PtTyped, PtTypeOK

LEMMA PtShownOnce == PtInv => OnceShown
<1> SUFFICES ASSUME PtInv PROVE OnceShown
  OBVIOUS
<1>1. CASE ~Flying
  <2>1. DOMAIN ptFly.shown = {}
    BY <1>1, EmptyLine DEF Flying, NoRequest
  <2> QED BY <2>1 DEF OnceShown
<1>2. CASE Flying
  <2>1. Distinct(ptFly.shown)
    BY <1>2, FlightIs DEF CanonicalFlight, ServerFlight, Good, Proper
  <2> QED BY <2>1 DEF OnceShown, Distinct
<1> QED BY <1>1, <1>2

LEMMA PtResultsShown == PtInv => ResultsShown
<1> SUFFICES ASSUME PtInv, CanonicalKind, Flying
             PROVE  /\ \A c \in ptRan : Turned("results", c) \in ToSet(ptFly.shown) \cup ptTrimmed
                    /\ \A e \in ToSet(ptFly.shown) : e.who # "placeholder"
  BY DEF ResultsShown
<1>1. /\ CanonicalFlight /\ ptFly.msg.who \in {"text", "results"}
  BY FlightIs
<1>2. /\ ptFly.shown = ptHist /\ Covers(ptHist, ptRan, ptTrimmed) /\ ptHist \in PtLine
      /\ Ends(ptHist, ptFly.msg)
  BY <1>1 DEF CanonicalFlight, Good, Proper
<1>3. \A d \in ptRan : ~Ends(ptHist, Turned("calls", d))
  BY <1>1, <1>2 DEF Ends, Turned
<1>4. \A c \in ptRan : Turned("results", c) \in ToSet(ptFly.shown) \cup ptTrimmed
  BY <1>2, <1>3 DEF Covers, Has, ToSet
<1>5. \A e \in ToSet(ptFly.shown) : e.who # "placeholder"
  BY <1>2, LineIs, TurnOf DEF ToSet
<1> QED BY <1>4, <1>5

\* However often a request fails, is trimmed, rebuilt and made again, the model is shown a message
\* once; and, where the history is the canonical one, what tools returned is in every later request.
THEOREM ShownAlways == PtSpec => [](OnceShown /\ ResultsShown)
BY PtAlways, PtShownOnce, PtResultsShown, PTL
=============================================================================

------------------------------ MODULE Rag_proofs ------------------------------
(***************************************************************************)
(* Proofs about Retrieval and Chunker.                                     *)
(*                                                                         *)
(* Retrieval, for every set of documents and knowledge bases and every k:  *)
(* orders and selections of sequences, the rows of a document, what one    *)
(* search keeps, then the invariant RagInv, in which every hit comes from  *)
(* one of the searches (a map of hits to searches that no program has),    *)
(* and from it that answers are best and that citations hold.              *)
(*                                                                         *)
(* Chunker, for every chunk size, overlap and text: the loop ends, covers  *)
(* the text, repeats no window within another and overlaps neighbours.     *)
(***************************************************************************)
EXTENDS Retrieval, Chunker, FiniteSetTheorems, FunctionTheorems, WellFoundedInduction, TLAPS

-----------------------------------------------------------------------------
(* Sequences as functions.                                                  *)

\* A sequence is a function on its places.
LEMMA SeqHas ==
  ASSUME NEW X, NEW s \in Seq(X)
  PROVE  Len(s) \in Nat /\ DOMAIN s = 1 .. Len(s) /\ \A i \in 1 .. Len(s) : s[i] \in X
  OBVIOUS

\* A function on 1 .. N is a sequence.
LEMMA MakesSeq ==
  ASSUME NEW X, NEW N \in Nat, NEW s \in [1 .. N -> X]
  PROVE  s \in Seq(X) /\ Len(s) = N
  OBVIOUS

\* Two places differ in a coordinate.
LEMMA PairsDiffer ==
  \A a, b \in Nat \X Nat :
    a[2] \in Nat /\ b[2] \in Nat /\ (a # b => a[1] # b[1] \/ a[2] # b[2])
  OBVIOUS

\* What a concatenation has.
LEMMA Joined ==
  ASSUME NEW X, NEW s \in Seq(X), NEW t \in Seq(X)
  PROVE  /\ s \o t \in Seq(X) /\ Len(s \o t) = Len(s) + Len(t)
         /\ \A n \in 1 .. Len(s) : (s \o t)[n] = s[n]
         /\ \A n \in 1 .. Len(t) : (s \o t)[Len(s) + n] = t[n]
  OBVIOUS

-----------------------------------------------------------------------------
(* Finite sets in an order.                                                 *)

IsOrder(S, before) ==
  /\ \A x \in S : <<x, x>> \notin before
  /\ \A x, y \in S : x # y => <<x, y>> \in before \/ <<y, x>> \in before
  /\ \A x, y, z \in S : <<x, y>> \in before /\ <<y, z>> \in before => <<x, z>> \in before

Below(S, before, x) == {y \in S : <<y, x>> \in before}

\* Of two elements the later one has more below it.
LEMMA BelowIsSmaller ==
  ASSUME NEW S, IsFiniteSet(S), NEW before, IsOrder(S, before), NEW x \in S
  PROVE  /\ IsFiniteSet(Below(S, before, x))
         /\ Cardinality(Below(S, before, x)) \in 0 .. Cardinality(S) - 1
         /\ \A y \in S : <<x, y>> \in before =>
              Cardinality(Below(S, before, x)) < Cardinality(Below(S, before, y))
<1>1. \A T \in SUBSET S : IsFiniteSet(T) /\ Cardinality(T) \in Nat
  BY FS_Subset, FS_CardinalityType
<1>2. Below(S, before, x) \in SUBSET S /\ x \notin Below(S, before, x)
  BY DEF Below, IsOrder
<1>3. ASSUME NEW T \in SUBSET S, x \in T, Below(S, before, x) \subseteq T
      PROVE  Cardinality(Below(S, before, x)) < Cardinality(T)
  <2>1. Below(S, before, x) \in SUBSET T /\ Below(S, before, x) # T
    BY <1>2, <1>3
  <2>2. /\ Cardinality(Below(S, before, x)) <= Cardinality(T)
        /\ Cardinality(T) = Cardinality(Below(S, before, x)) => T = Below(S, before, x)
    BY <1>1, <2>1, FS_Subset
  <2>3. Cardinality(T) \in Nat /\ Cardinality(Below(S, before, x)) \in Nat
    BY <1>1, <1>2
  <2> QED
    BY <2>1, <2>2, <2>3
<1>4. Cardinality(Below(S, before, x)) < Cardinality(S)
  BY <1>2, <1>3
<1>5. ASSUME NEW y \in S, <<x, y>> \in before
      PROVE  Cardinality(Below(S, before, x)) < Cardinality(Below(S, before, y))
  <2>1. Below(S, before, y) \in SUBSET S /\ x \in Below(S, before, y)
    BY <1>5 DEF Below
  <2>2. Below(S, before, x) \subseteq Below(S, before, y)
    BY <1>5 DEF Below, IsOrder
  <2> QED
    BY <1>3, <2>1, <2>2
<1>6. Cardinality(Below(S, before, x)) \in Nat /\ Cardinality(S) \in Nat
  BY <1>1, <1>2
<1> QED
  BY <1>1, <1>2, <1>4, <1>5, <1>6

\* Every place of the order is taken by one element.
LEMMA PlacesAreTaken ==
  ASSUME NEW S, IsFiniteSet(S), NEW before, IsOrder(S, before)
  PROVE  /\ \A n \in 1 .. Cardinality(S) : \E x \in S : Cardinality(Below(S, before, x)) = n - 1
         /\ \A x, y \in S : Cardinality(Below(S, before, x)) = Cardinality(Below(S, before, y)) => x = y
<1>1. PICK N \in Nat : N = Cardinality(S)
  BY FS_CardinalityType
<1>2. PICK rank : rank = [x \in S |-> Cardinality(Below(S, before, x))]
  OBVIOUS
<1>3. rank \in [S -> 0 .. N - 1]
  BY <1>1, <1>2, BelowIsSmaller
<1>4. ASSUME NEW x \in S, NEW y \in S, rank[x] = rank[y] PROVE x = y
  <2>1. CASE <<x, y>> \in before
    BY <1>2, <1>3, <1>4, <2>1, BelowIsSmaller
  <2>2. CASE <<y, x>> \in before
    BY <1>2, <1>3, <1>4, <2>2, BelowIsSmaller
  <2> QED
    BY <2>1, <2>2 DEF IsOrder
<1>5. rank \in Injection(S, 0 .. N - 1)
  BY <1>3, <1>4, Fun_IsInj
<1>6. IsFiniteSet(0 .. N - 1) /\ Cardinality(0 .. N - 1) = N
  BY FS_Interval
<1>7. rank \in Surjection(S, 0 .. N - 1)
  BY <1>1, <1>5, <1>6, FS_Injection
<1>8. \A k \in 0 .. N - 1 : \E x \in S : rank[x] = k
  BY <1>7 DEF Surjection
<1>9. ASSUME NEW n \in 1 .. N PROVE \E x \in S : Cardinality(Below(S, before, x)) = n - 1
  <2>1. n - 1 \in 0 .. N - 1
    OBVIOUS
  <2> QED
    BY <1>2, <1>8, <2>1
<1> QED
  BY <1>1, <1>2, <1>4, <1>9

\* What Ordered returns: each element once, at its place.
LEMMA OrderedHolds ==
  ASSUME NEW S, IsFiniteSet(S), NEW before, IsOrder(S, before)
  PROVE  /\ Cardinality(S) \in Nat
         /\ Ordered(S, before) \in [1 .. Cardinality(S) -> S]
         /\ \A x \in S : \E n \in 1 .. Cardinality(S) : Ordered(S, before)[n] = x
         /\ \A m, n \in 1 .. Cardinality(S) :
              m < n <=> <<Ordered(S, before)[m], Ordered(S, before)[n]>> \in before
         /\ \A n \in 1 .. Cardinality(S), x \in S :
              Cardinality(Below(S, before, x)) = n - 1 => Ordered(S, before)[n] = x
<1>0. PICK N \in Nat : N = Cardinality(S)
  BY FS_CardinalityType
<1>1. PICK q : q = Ordered(S, before)
  OBVIOUS
<1>2. q = [n \in 1 .. N |-> CHOOSE x \in S : Cardinality(Below(S, before, x)) = n - 1]
  BY <1>0, <1>1 DEF Ordered, Below
<1>3. \A n \in 1 .. N : q[n] \in S /\ Cardinality(Below(S, before, q[n])) = n - 1
  <2> SUFFICES ASSUME NEW n \in 1 .. N
               PROVE  q[n] \in S /\ Cardinality(Below(S, before, q[n])) = n - 1
    OBVIOUS
  <2>1. \E x \in S : Cardinality(Below(S, before, x)) = n - 1
    BY <1>0, PlacesAreTaken
  <2>2. q[n] = CHOOSE x \in S : Cardinality(Below(S, before, x)) = n - 1
    BY <1>2
  <2> QED
    BY <2>1, <2>2, Zenon
<1>4. q \in [1 .. N -> S]
  BY <1>2, <1>3
<1>5. ASSUME NEW x \in S PROVE \E n \in 1 .. N : q[n] = x
  <2>1. PICK k \in 0 .. N - 1 : k = Cardinality(Below(S, before, x))
    BY <1>0, BelowIsSmaller
  <2>2. k + 1 \in 1 .. N /\ (k + 1) - 1 = k
    OBVIOUS
  <2>3. q[k + 1] = x
    BY <1>3, <2>1, <2>2, PlacesAreTaken
  <2> QED
    BY <2>2, <2>3
<1>6. ASSUME NEW m \in 1 .. N, NEW n \in 1 .. N PROVE m < n <=> <<q[m], q[n]>> \in before
  <2>1. <<q[m], q[n]>> \in before => m - 1 < n - 1
    BY <1>3, BelowIsSmaller
  <2>2. <<q[n], q[m]>> \in before => n - 1 < m - 1
    BY <1>3, BelowIsSmaller
  <2>3. m < n => q[m] # q[n]
    BY <1>3
  <2> QED
    BY <1>3, <2>1, <2>2, <2>3 DEF IsOrder
<1>7. \A n \in 1 .. N, x \in S : Cardinality(Below(S, before, x)) = n - 1 => q[n] = x
  BY <1>3, PlacesAreTaken
<1> QED
  BY <1>0, <1>1, <1>4, <1>5, <1>6, <1>7

\* Numbers upwards: each is there once, and smaller ones come first.
LEMMA UpwardsHolds ==
  ASSUME NEW S \in SUBSET Int, IsFiniteSet(S)
  PROVE  /\ Cardinality(S) \in Nat /\ Upwards(S) \in [1 .. Cardinality(S) -> S]
         /\ \A x \in S : \E n \in 1 .. Cardinality(S) : Upwards(S)[n] = x
         /\ \A m, n \in 1 .. Cardinality(S) : m < n <=> Upwards(S)[m] < Upwards(S)[n]
<1>1. PICK before : before = {p \in S \X S : p[1] < p[2]}
  OBVIOUS
<1>2. \A x, y \in S : <<x, y>> \in before <=> x < y
  BY <1>1
<1>3. IsOrder(S, before)
  BY <1>2 DEF IsOrder
<1>4. Upwards(S) = Ordered(S, before)
  BY <1>1 DEF Upwards
<1>5. /\ Cardinality(S) \in Nat /\ Ordered(S, before) \in [1 .. Cardinality(S) -> S]
      /\ \A x \in S : \E n \in 1 .. Cardinality(S) : Ordered(S, before)[n] = x
      /\ \A m, n \in 1 .. Cardinality(S) :
           m < n <=> <<Ordered(S, before)[m], Ordered(S, before)[n]>> \in before
  BY <1>3, OrderedHolds
<1>6. \A m, n \in 1 .. Cardinality(S) : m < n <=> Ordered(S, before)[m] < Ordered(S, before)[n]
  BY <1>2, <1>5
<1> QED
  BY <1>4, <1>5, <1>6

\* What Only returns: the elements at the places, in order.
LEMMA OnlyHolds ==
  ASSUME NEW X, NEW s \in Seq(X), NEW places \in SUBSET (1 .. Len(s))
  PROVE  \E N \in Nat : \E at \in [1 .. N -> places] :
           /\ Only(s, places) = [n \in 1 .. N |-> s[at[n]]]
           /\ Only(s, places) \in Seq(X) /\ Len(Only(s, places)) = N /\ N <= Len(s)
           /\ \A i \in places : \E n \in 1 .. N : at[n] = i
           /\ \A m, n \in 1 .. N : m < n <=> at[m] < at[n]
<1>1. places \in SUBSET Int /\ Len(s) \in Nat
  OBVIOUS
<1>2. IsFiniteSet(places) /\ Cardinality(places) <= Len(s)
  <2>1. PICK L \in Nat : L = Len(s)
    BY <1>1
  <2>2. IsFiniteSet(1 .. L) /\ Cardinality(1 .. L) = L
    BY FS_Interval
  <2> QED
    BY <2>1, <2>2, FS_Subset
<1>3. PICK N \in Nat : N = Cardinality(places) /\ N <= Len(s)
  BY <1>2, FS_CardinalityType
<1>4. PICK at : at = Upwards(places)
  OBVIOUS
<1>5. /\ at \in [1 .. N -> places]
      /\ \A i \in places : \E n \in 1 .. N : at[n] = i
      /\ \A m, n \in 1 .. N : m < n <=> at[m] < at[n]
  BY <1>1, <1>2, <1>3, <1>4, UpwardsHolds
<1>6. Only(s, places) = [n \in 1 .. N |-> s[at[n]]]
  BY <1>4, <1>5 DEF Only
<1>7. \A n \in 1 .. N : s[at[n]] \in X
  <2>1. \A i \in places : s[i] \in X
    BY <1>1
  <2> QED
    BY <1>5, <2>1
<1>8. Only(s, places) \in Seq(X) /\ Len(Only(s, places)) = N
  BY <1>6, <1>7
<1> QED
  BY <1>3, <1>5, <1>6, <1>8

\* All places give the sequence itself.
LEMMA OnlyAll ==
  ASSUME NEW X, NEW s \in Seq(X)
  PROVE  Only(s, 1 .. Len(s)) = s
<1>0. PICK L \in Nat : L = Len(s)
  OBVIOUS
<1>1. PICK before : before = {p \in (1 .. L) \X (1 .. L) : p[1] < p[2]}
  OBVIOUS
<1>2. \A x, y \in 1 .. L : <<x, y>> \in before <=> x < y
  BY <1>1
<1>3. IsOrder(1 .. L, before) /\ IsFiniteSet(1 .. L) /\ Cardinality(1 .. L) = L
  <2>1. IsFiniteSet(1 .. L) /\ Cardinality(1 .. L) = L
    BY FS_Interval
  <2>2. IsOrder(1 .. L, before)
    BY <1>2 DEF IsOrder
  <2> QED
    BY <2>1, <2>2
<1>4. ASSUME NEW n \in 1 .. L PROVE Cardinality(Below(1 .. L, before, n)) = n - 1
  <2>1. Below(1 .. L, before, n) = 1 .. n - 1
    BY <1>2 DEF Below
  <2>2. Cardinality(1 .. n - 1) = n - 1
    BY FS_Interval
  <2> QED
    BY <2>1, <2>2
<1>5. \A n \in 1 .. L : Ordered(1 .. L, before)[n] = n
  BY <1>3, <1>4, OrderedHolds
<1>6. Ordered(1 .. L, before) \in [1 .. L -> 1 .. L]
  BY <1>3, OrderedHolds
<1>7. Only(s, 1 .. L) = [n \in 1 .. L |-> s[n]]
  BY <1>1, <1>5, <1>6 DEF Only, Upwards
<1> QED
  BY <1>0, <1>7

\* What ByScore returns: the same hits, the best first.
LEMMA ByScoreHolds ==
  ASSUME NEW X, NEW s \in Seq(X), \A i \in 1 .. Len(s) : s[i].score \in Nat
  PROVE  \E at \in [1 .. Len(s) -> 1 .. Len(s)] :
           /\ ByScore(s) = [n \in 1 .. Len(s) |-> s[at[n]]]
           /\ ByScore(s) \in Seq(X) /\ Len(ByScore(s)) = Len(s)
           /\ \A i \in 1 .. Len(s) : \E n \in 1 .. Len(s) : at[n] = i
           /\ \A m, n \in 1 .. Len(s) : at[m] = at[n] => m = n
           /\ \A m, n \in 1 .. Len(s) : m < n => ByScore(s)[m].score >= ByScore(s)[n].score
<1>0. PICK L \in Nat : L = Len(s)
  OBVIOUS
<1>1. PICK before :
        before = {p \in (1 .. L) \X (1 .. L) : \/ s[p[1]].score > s[p[2]].score
                                               \/ s[p[1]].score = s[p[2]].score /\ p[1] < p[2]}
  OBVIOUS
<1>2. PICK v \in [1 .. L -> Nat] : v = [i \in 1 .. L |-> s[i].score]
  BY <1>0
<1>a. ASSUME NEW i \in 1 .. L, NEW j \in 1 .. L
      PROVE  <<i, j>> \in before <=> v[i] > v[j] \/ (v[i] = v[j] /\ i < j)
  <2>1. s[i].score = v[i] /\ s[j].score = v[j]
    BY <1>2
  <2> QED
    BY <1>1, <2>1
<1>3. IsOrder(1 .. L, before)
  <2>1. \A i \in 1 .. L : <<i, i>> \notin before
    BY <1>a
  <2>2. \A i, j \in 1 .. L : i # j => <<i, j>> \in before \/ <<j, i>> \in before
    BY <1>a
  <2>3. ASSUME NEW i \in 1 .. L, NEW j \in 1 .. L, NEW k \in 1 .. L,
               <<i, j>> \in before, <<j, k>> \in before
        PROVE  <<i, k>> \in before
    <3>1. v[i] \in Nat /\ v[j] \in Nat /\ v[k] \in Nat /\ i \in Int /\ j \in Int /\ k \in Int
      OBVIOUS
    <3>2. v[i] > v[j] \/ (v[i] = v[j] /\ i < j)
      BY <1>a, <2>3
    <3>3. v[j] > v[k] \/ (v[j] = v[k] /\ j < k)
      BY <1>a, <2>3
    <3>4. v[i] > v[k] \/ (v[i] = v[k] /\ i < k)
      BY <3>1, <3>2, <3>3
    <3> QED
      BY <1>a, <3>4
  <2> QED
    BY <2>1, <2>2, <2>3 DEF IsOrder
<1>4. IsFiniteSet(1 .. L) /\ Cardinality(1 .. L) = L
  BY FS_Interval
<1>b. /\ Ordered(1 .. L, before) \in [1 .. Cardinality(1 .. L) -> 1 .. L]
      /\ \A i \in 1 .. L : \E n \in 1 .. Cardinality(1 .. L) : Ordered(1 .. L, before)[n] = i
      /\ \A m, n \in 1 .. Cardinality(1 .. L) :
           m < n <=> <<Ordered(1 .. L, before)[m], Ordered(1 .. L, before)[n]>> \in before
  BY <1>3, <1>4, OrderedHolds
<1>5. PICK at : at = Ordered(1 .. L, before)
  OBVIOUS
<1>6. /\ at \in [1 .. L -> 1 .. L]
      /\ \A i \in 1 .. L : \E n \in 1 .. L : at[n] = i
      /\ \A m, n \in 1 .. L : m < n <=> <<at[m], at[n]>> \in before
  BY <1>4, <1>5, <1>b
<1>7. ByScore(s) = [n \in 1 .. L |-> s[at[n]]]
  <2>1. DOMAIN s = 1 .. L /\ DOMAIN at = 1 .. L
    BY <1>0, <1>6
  <2>2. ByScore(s) = [n \in DOMAIN at |-> s[at[n]]]
    BY <1>1, <1>5, <2>1 DEF ByScore
  <2> QED
    BY <2>1, <2>2
<1>8. ByScore(s) \in Seq(X) /\ Len(ByScore(s)) = L
  BY <1>0, <1>6, <1>7
<1>9. ASSUME NEW m \in 1 .. L, NEW n \in 1 .. L, at[m] = at[n] PROVE m = n
  <2>1. <<at[m], at[n]>> \notin before /\ <<at[n], at[m]>> \notin before
    BY <1>3, <1>6, <1>9 DEF IsOrder
  <2>2. ~(m < n) /\ ~(n < m)
    BY <1>6, <2>1
  <2> QED
    BY <2>2
<1>10. \A m, n \in 1 .. L : m < n => ByScore(s)[m].score >= ByScore(s)[n].score
  <2> SUFFICES ASSUME NEW m \in 1 .. L, NEW n \in 1 .. L, m < n
               PROVE  s[at[m]].score >= s[at[n]].score
    BY <1>7
  <2>1. <<at[m], at[n]>> \in before /\ at[m] \in 1 .. L /\ at[n] \in 1 .. L
    BY <1>6
  <2>2. PICK i \in 1 .. L, j \in 1 .. L : i = at[m] /\ j = at[n]
    BY <2>1
  <2>3. v[i] \in Nat /\ v[j] \in Nat /\ (v[i] > v[j] \/ v[i] = v[j])
    BY <1>a, <2>1, <2>2
  <2>4. v[at[m]] >= v[at[n]]
    BY <2>2, <2>3
  <2> QED
    BY <1>2, <2>1, <2>4
<1> QED
  BY <1>0, <1>6, <1>7, <1>8, <1>9, <1>10

-----------------------------------------------------------------------------
(* The rows of a document.                                                  *)

\* A finite union of finite sets is finite.
LEMMA FiniteUnion ==
  ASSUME NEW P \in Nat, NEW part, \A p \in 1 .. P : IsFiniteSet(part[p])
  PROVE  IsFiniteSet(UNION {part[p] : p \in 1 .. P})
<1>1. PICK f : f = [p \in 1 .. P |-> part[p]]
  OBVIOUS
<1>2. PICK T : T = {part[p] : p \in 1 .. P}
  OBVIOUS
<1>3. f \in Surjection(1 .. P, T)
  BY <1>1, <1>2 DEF Surjection
<1>4. IsFiniteSet(1 .. P)
  BY FS_Interval
<1>5. IsFiniteSet(T)
  BY <1>3, <1>4, FS_Surjection
<1>6. \A A \in T : IsFiniteSet(A)
  BY <1>2
<1> QED
  BY <1>2, <1>5, <1>6, FS_UNION

\* Places in a document's order: each is there once.
LEMMA InDocumentHolds ==
  ASSUME NEW S \in SUBSET (Nat \X Nat), IsFiniteSet(S)
  PROVE  /\ Cardinality(S) \in Nat /\ InDocument(S) \in [1 .. Cardinality(S) -> S]
         /\ \A m, n \in 1 .. Cardinality(S) : InDocument(S)[m] = InDocument(S)[n] => m = n
<1>1. PICK before :
        before = {p \in S \X S : \/ p[1][1] < p[2][1]
                                 \/ p[1][1] = p[2][1] /\ p[1][2] < p[2][2]}
  OBVIOUS
<1>2. ASSUME NEW x \in S, NEW y \in S
      PROVE  <<x, y>> \in before <=> x[1] < y[1] \/ (x[1] = y[1] /\ x[2] < y[2])
  <2>1. <<x, y>> \in S \X S /\ <<x, y>>[1] = x /\ <<x, y>>[2] = y
    OBVIOUS
  <2> QED
    BY <1>1, <2>1
<1>3. \A x \in S : x[1] \in Nat /\ x[2] \in Nat
  OBVIOUS
<1>4. IsOrder(S, before)
  <2>1. \A x \in S : <<x, x>> \notin before
    BY <1>2, <1>3
  <2>2. ASSUME NEW x \in S, NEW y \in S, x # y PROVE <<x, y>> \in before \/ <<y, x>> \in before
    <3>1. x[1] # y[1] \/ x[2] # y[2]
      BY <2>2
    <3> QED
      BY <1>2, <1>3, <3>1
  <2>3. ASSUME NEW x \in S, NEW y \in S, NEW z \in S, <<x, y>> \in before, <<y, z>> \in before
        PROVE  <<x, z>> \in before
    <3>1. x[1] < y[1] \/ (x[1] = y[1] /\ x[2] < y[2])
      BY <1>2, <2>3
    <3>2. y[1] < z[1] \/ (y[1] = z[1] /\ y[2] < z[2])
      BY <1>2, <2>3
    <3>3. x[1] < z[1] \/ (x[1] = z[1] /\ x[2] < z[2])
      BY <1>3, <3>1, <3>2
    <3> QED
      BY <1>2, <3>3
  <2> QED
    BY <2>1, <2>2, <2>3 DEF IsOrder
<1>5. InDocument(S) = Ordered(S, before)
  BY <1>1 DEF InDocument
<1>6. /\ Cardinality(S) \in Nat /\ Ordered(S, before) \in [1 .. Cardinality(S) -> S]
      /\ \A m, n \in 1 .. Cardinality(S) :
           m < n <=> <<Ordered(S, before)[m], Ordered(S, before)[n]>> \in before
  BY <1>4, OrderedHolds
<1>7. ASSUME NEW m \in 1 .. Cardinality(S), NEW n \in 1 .. Cardinality(S),
             Ordered(S, before)[m] = Ordered(S, before)[n]
      PROVE  m = n
  <2>1. ~(m < n) /\ ~(n < m)
    BY <1>4, <1>6, <1>7 DEF IsOrder
  <2> QED
    BY <1>6, <2>1
<1> QED
  BY <1>5, <1>6, <1>7

\* What a document's pages are.
LEMMA PagesHold ==
  ASSUME NEW d \in Docs
  PROVE  \E P \in Nat :
           /\ DOMAIN Pages(d) = 1 .. P
           /\ \A p \in 1 .. P :
                /\ \E N \in Nat :
                     /\ DOMAIN Pages(d)[p].pieces = 1 .. N
                     /\ \A i \in 1 .. N : Pages(d)[p].pieces[i].keys \in Seq(ImageKeys)
                /\ \E N \in Nat :
                     /\ DOMAIN Pages(d)[p].images = 1 .. N
                     /\ \A i \in 1 .. N : Pages(d)[p].images[i].key \in ImageKeys
<1>1. PICK pages \in Seq(Page) : pages = Pages(d)
  BY RetrievalAssumption DEF Pages
<1>2. PICK P \in Nat : P = Len(pages)
  BY <1>1
<1>3. DOMAIN pages = 1 .. P /\ \A p \in 1 .. P : pages[p] \in Page
  BY <1>1, <1>2
<1>4. ASSUME NEW p \in 1 .. P
      PROVE  /\ \E N \in Nat :
                  /\ DOMAIN pages[p].pieces = 1 .. N
                  /\ \A i \in 1 .. N : pages[p].pieces[i].keys \in Seq(ImageKeys)
             /\ \E N \in Nat :
                  /\ DOMAIN pages[p].images = 1 .. N
                  /\ \A i \in 1 .. N : pages[p].images[i].key \in ImageKeys
  <2>1. pages[p] \in Page
    BY <1>3
  <2>2. PICK pieces \in Seq([blank : BOOLEAN, keys : Seq(ImageKeys)]) : pieces = pages[p].pieces
    BY <2>1 DEF Page
  <2>3. PICK images \in Seq([key : ImageKeys, described : BOOLEAN]) : images = pages[p].images
    BY <2>1 DEF Page
  <2>4. Len(pieces) \in Nat /\ Len(images) \in Nat
    BY <2>2, <2>3
  <2>5. DOMAIN pieces = 1 .. Len(pieces) /\ \A i \in 1 .. Len(pieces) : pieces[i].keys \in Seq(ImageKeys)
    <3>1. DOMAIN pieces = 1 .. Len(pieces)
      BY <2>2
    <3>2. \A i \in 1 .. Len(pieces) : pieces[i] \in [blank : BOOLEAN, keys : Seq(ImageKeys)]
      BY <2>2, SeqHas
    <3> QED
      BY <3>1, <3>2
  <2>6. DOMAIN images = 1 .. Len(images) /\ \A i \in 1 .. Len(images) : images[i].key \in ImageKeys
    <3>1. DOMAIN images = 1 .. Len(images)
      BY <2>3
    <3>2. \A i \in 1 .. Len(images) : images[i] \in [key : ImageKeys, described : BOOLEAN]
      BY <2>3, SeqHas
    <3> QED
      BY <3>1, <3>2
  <2> QED
    BY <2>2, <2>3, <2>4, <2>5, <2>6
<1> QED
  BY <1>1, <1>3, <1>4

RowNames == {"d", "img"} \X Nat \X Nat
Rows == [data : RowNames, type : {"text", "image"}, keys : Seq(ImageKeys), at : Nat]

\* The data chunks are numbered in order.
LEMMA DataChunksHold ==
  ASSUME NEW d \in Docs
  PROVE  /\ DataChunks(d) \in Seq(Rows)
         /\ \A n \in 1 .. Len(DataChunks(d)) :
              /\ DataChunks(d)[n].data = <<"d", 0, n - 1>> /\ DataChunks(d)[n].type = "text"
              /\ DataChunks(d)[n].at = n - 1
<1>1. PICK P \in Nat :
        /\ DOMAIN Pages(d) = 1 .. P
        /\ \A p \in 1 .. P : \E N \in Nat :
             /\ DOMAIN Pages(d)[p].pieces = 1 .. N
             /\ \A i \in 1 .. N : Pages(d)[p].pieces[i].keys \in Seq(ImageKeys)
  BY PagesHold
<1>2. PICK part :
        part = [p \in 1 .. P |->
                  {<<p, i>> : i \in {j \in DOMAIN Pages(d)[p].pieces : ~Pages(d)[p].pieces[j].blank}}]
  OBVIOUS
<1>3. ASSUME NEW p \in 1 .. P
      PROVE  /\ IsFiniteSet(part[p]) /\ part[p] \subseteq Nat \X Nat
             /\ \A a \in part[p] : Pages(d)[a[1]].pieces[a[2]].keys \in Seq(ImageKeys)
  <2>1. PICK N \in Nat :
          /\ DOMAIN Pages(d)[p].pieces = 1 .. N
          /\ \A i \in 1 .. N : Pages(d)[p].pieces[i].keys \in Seq(ImageKeys)
    BY <1>1
  <2>2. PICK J : J = {j \in 1 .. N : ~Pages(d)[p].pieces[j].blank}
    OBVIOUS
  <2>3. part[p] = {<<p, i>> : i \in J}
    BY <1>2, <2>1, <2>2
  <2>4. IsFiniteSet(J)
    <3>1. IsFiniteSet(1 .. N) /\ J \in SUBSET (1 .. N)
      BY <2>2, FS_Interval
    <3> QED
      BY <3>1, FS_Subset
  <2>5. PICK f : f = [i \in J |-> <<p, i>>]
    OBVIOUS
  <2>6. f \in Surjection(J, part[p])
    BY <2>3, <2>5 DEF Surjection
  <2>7. IsFiniteSet(part[p])
    BY <2>4, <2>6, FS_Surjection
  <2>8. J \subseteq 1 .. N /\ p \in Nat
    BY <2>2
  <2> QED
    BY <2>1, <2>3, <2>7, <2>8
<1>4. PICK S : S = UNION {part[p] : p \in 1 .. P}
  OBVIOUS
<1>5. S \in SUBSET (Nat \X Nat) /\ \A a \in S : Pages(d)[a[1]].pieces[a[2]].keys \in Seq(ImageKeys)
  BY <1>3, <1>4
<1>6. IsFiniteSet(S)
  BY <1>3, <1>4, FiniteUnion
<1>7. Pieces(d) = InDocument(S)
  <2>1. PICK parts :
          parts = {{<<p, i>> : i \in {j \in DOMAIN Pages(d)[p].pieces : ~Pages(d)[p].pieces[j].blank}} :
                     p \in DOMAIN Pages(d)}
    OBVIOUS
  <2>2. parts = {part[p] : p \in 1 .. P}
    BY <1>1, <1>2, <2>1
  <2> QED
    BY <1>4, <2>1, <2>2 DEF Pieces
<1>8. PICK N \in Nat : N = Cardinality(S)
  BY <1>6, FS_CardinalityType
<1>9. PICK at \in [1 .. N -> S] : at = Pieces(d)
  BY <1>5, <1>6, <1>7, <1>8, InDocumentHolds
<1>10. DataChunks(d) =
         [n \in 1 .. N |->
            [data |-> <<"d", 0, n - 1>>, type |-> "text",
             keys |-> Pages(d)[at[n][1]].pieces[at[n][2]].keys, at |-> n - 1]]
  BY <1>9 DEF DataChunks
<1>11. ASSUME NEW n \in 1 .. N
       PROVE  [data |-> <<"d", 0, n - 1>>, type |-> "text",
               keys |-> Pages(d)[at[n][1]].pieces[at[n][2]].keys, at |-> n - 1] \in Rows
  <2>1. at[n] \in S /\ n - 1 \in Nat
    BY <1>9
  <2>2. Pages(d)[at[n][1]].pieces[at[n][2]].keys \in Seq(ImageKeys)
    BY <1>5, <2>1
  <2>3. <<"d", 0, n - 1>> \in RowNames
    BY <2>1 DEF RowNames
  <2> QED
    BY <2>1, <2>2, <2>3 DEF Rows
<1>12. DataChunks(d) \in Seq(Rows) /\ Len(DataChunks(d)) = N
  <2>1. DataChunks(d) \in [1 .. N -> Rows]
    BY <1>10, <1>11
  <2> QED
    BY <2>1, MakesSeq
<1>13. ASSUME NEW n \in 1 .. N
       PROVE  /\ DataChunks(d)[n].data = <<"d", 0, n - 1>>
              /\ DataChunks(d)[n].type = "text" /\ DataChunks(d)[n].at = n - 1
  <2>1. PICK keys : keys = Pages(d)[at[n][1]].pieces[at[n][2]].keys
    OBVIOUS
  <2>2. DataChunks(d)[n] = [data |-> <<"d", 0, n - 1>>, type |-> "text", keys |-> keys, at |-> n - 1]
    BY <1>10, <2>1
  <2> QED
    BY <2>2
<1> QED
  BY <1>12, <1>13

\* A document has a picture at each of its places, once.
LEMMA ImagesHold ==
  ASSUME NEW d \in Docs
  PROVE  \E N \in Nat :
           /\ Images(d) \in [1 .. N -> Nat \X Nat]
           /\ \A m, n \in 1 .. N : Images(d)[m] = Images(d)[n] => m = n
           /\ \A n \in 1 .. N : Picture(d, n).key \in ImageKeys /\ Images(d)[n][2] >= 1
<1>1. PICK P \in Nat :
        /\ DOMAIN Pages(d) = 1 .. P
        /\ \A p \in 1 .. P : \E N \in Nat :
             /\ DOMAIN Pages(d)[p].images = 1 .. N
             /\ \A i \in 1 .. N : Pages(d)[p].images[i].key \in ImageKeys
  BY PagesHold
<1>2. PICK part : part = [p \in 1 .. P |-> {<<p, i>> : i \in DOMAIN Pages(d)[p].images}]
  OBVIOUS
<1>3. ASSUME NEW p \in 1 .. P
      PROVE  /\ IsFiniteSet(part[p]) /\ part[p] \subseteq Nat \X Nat
             /\ \A a \in part[p] : Pages(d)[a[1]].images[a[2]].key \in ImageKeys /\ a[2] >= 1
  <2>1. PICK N \in Nat :
          /\ DOMAIN Pages(d)[p].images = 1 .. N
          /\ \A i \in 1 .. N : Pages(d)[p].images[i].key \in ImageKeys
    BY <1>1
  <2>2. PICK J : J = 1 .. N
    OBVIOUS
  <2>3. part[p] = {<<p, i>> : i \in J}
    BY <1>2, <2>1, <2>2
  <2>4. IsFiniteSet(J)
    BY <2>2, FS_Interval
  <2>5. PICK f : f = [i \in J |-> <<p, i>>]
    OBVIOUS
  <2>6. f \in Surjection(J, part[p])
    BY <2>3, <2>5 DEF Surjection
  <2>7. IsFiniteSet(part[p])
    BY <2>4, <2>6, FS_Surjection
  <2>8. J \subseteq Nat /\ p \in Nat /\ \A i \in J : i >= 1
    BY <2>2
  <2> QED
    BY <2>1, <2>2, <2>3, <2>7, <2>8
<1>4. PICK S : S = UNION {part[p] : p \in 1 .. P}
  OBVIOUS
<1>5. S \in SUBSET (Nat \X Nat) /\ \A a \in S : Pages(d)[a[1]].images[a[2]].key \in ImageKeys /\ a[2] >= 1
  BY <1>3, <1>4
<1>6. IsFiniteSet(S)
  BY <1>3, <1>4, FiniteUnion
<1>7. Images(d) = InDocument(S)
  <2>1. PICK parts : parts = {{<<p, i>> : i \in DOMAIN Pages(d)[p].images} : p \in DOMAIN Pages(d)}
    OBVIOUS
  <2>2. parts = {part[p] : p \in 1 .. P}
    BY <1>1, <1>2, <2>1
  <2> QED
    BY <1>4, <2>1, <2>2 DEF Images
<1>8. PICK N \in Nat : N = Cardinality(S)
  BY <1>6, FS_CardinalityType
<1>9. PICK at \in [1 .. N -> S] : at = Images(d) /\ \A m, n \in 1 .. N : at[m] = at[n] => m = n
  BY <1>5, <1>6, <1>7, <1>8, InDocumentHolds
<1>10. ASSUME NEW n \in 1 .. N PROVE Picture(d, n).key \in ImageKeys /\ Images(d)[n][2] >= 1
  <2>1. at[n] \in S
    BY <1>9
  <2>2. Pages(d)[at[n][1]].images[at[n][2]].key \in ImageKeys /\ at[n][2] >= 1
    BY <1>5, <2>1
  <2> QED
    BY <1>9, <2>2 DEF Picture
<1>11. Images(d) \in [1 .. N -> Nat \X Nat]
  BY <1>5, <1>9
<1> QED
  BY <1>9, <1>10, <1>11

\* The rows of a document: no two have one name, they are numbered upwards, and the
\* pictures, each with a key, come last.
LEMMA RecordsHold ==
  ASSUME NEW d \in Docs
  PROVE  /\ Records[d] \in Seq(Rows)
         /\ \A n \in 1 .. Len(Records[d]) : Records[d][n].type = "image" => Range(Records[d][n].keys) # {}
         /\ \A m, n \in 1 .. Len(Records[d]) : m < n =>
              /\ Records[d][m].at < Records[d][n].at
              /\ Records[d][m].data # Records[d][n].data
              /\ Records[d][m].type = "image" => Records[d][n].type = "image"
<1>1. PICK chunk \in Seq(Rows) : chunk = DataChunks(d)
  BY DataChunksHold
<1>2. PICK C \in Nat : C = Len(chunk)
  BY <1>1
<1>3. \A n \in 1 .. C : chunk[n].data = <<"d", 0, n - 1>> /\ chunk[n].type = "text" /\ chunk[n].at = n - 1
  BY <1>1, <1>2, DataChunksHold
<1>4. PICK N \in Nat :
        /\ Images(d) \in [1 .. N -> Nat \X Nat]
        /\ \A m, n \in 1 .. N : Images(d)[m] = Images(d)[n] => m = n
        /\ \A n \in 1 .. N : Picture(d, n).key \in ImageKeys /\ Images(d)[n][2] >= 1
  BY ImagesHold
<1>5. PICK described \in SUBSET (1 .. N) : described = {i \in DOMAIN Images(d) : Picture(d, i).described}
  BY <1>4
<1>6. IsFiniteSet(described)
  <2>1. IsFiniteSet(1 .. N)
    BY FS_Interval
  <2> QED
    BY <2>1, FS_Subset
<1>7. PICK K \in Nat : K = Cardinality(described)
  BY <1>6, FS_CardinalityType
<1>8. PICK kept \in [1 .. K -> described] :
        kept = Upwards(described) /\ \A m, n \in 1 .. K : m < n <=> kept[m] < kept[n]
  <2>1. described \in SUBSET Int
    BY <1>5
  <2> QED
    BY <1>6, <1>7, <2>1, UpwardsHolds
<1>9. PICK pics : pics = [n \in 1 .. K |-> ImageRow(d, kept[n])]
  OBVIOUS
<1>10. ASSUME NEW i \in 1 .. N
       PROVE  /\ ImageRow(d, i).data = <<"img", Images(d)[i][1], Images(d)[i][2] - 1>>
              /\ ImageRow(d, i).type = "image" /\ ImageRow(d, i).at = C + i - 1
              /\ ImageRow(d, i) \in Rows /\ Range(ImageRow(d, i).keys) # {}
  <2>1. PICK k \in ImageKeys : k = Picture(d, i).key
    BY <1>4
  <2>2. PICK a \in Nat, b \in Nat : a = Images(d)[i][1] /\ b = Images(d)[i][2] - 1
    BY <1>4
  <2>3. ImageRow(d, i) = [data |-> <<"img", a, b>>, type |-> "image", keys |-> <<k>>, at |-> C + i - 1]
    BY <1>1, <1>2, <2>1, <2>2 DEF ImageRow
  <2>4. <<"img", a, b>> \in RowNames /\ <<k>> \in Seq(ImageKeys) /\ C + i - 1 \in Nat
    BY DEF RowNames
  <2>5. k \in Range(<<k>>)
    BY DEF Range
  <2> QED
    BY <2>2, <2>3, <2>4, <2>5 DEF Rows
<1>11. pics \in Seq(Rows) /\ Len(pics) = K
  <2>1. pics \in [1 .. K -> Rows]
    BY <1>8, <1>9, <1>10
  <2> QED
    BY <2>1, MakesSeq
<1>12. PICK rec \in Seq(Rows) : rec = Records[d] /\ rec = chunk \o pics
  <2>1. Records[d] = DataRecords(d)
    BY DEF Records
  <2>2. DOMAIN kept = 1 .. K
    BY <1>8
  <2>3. DataRecords(d) = chunk \o pics
    BY <1>1, <1>5, <1>8, <1>9, <2>2 DEF DataRecords
  <2>4. chunk \o pics \in Seq(Rows)
    BY <1>11
  <2> QED
    BY <2>1, <2>3, <2>4
<1>13. /\ Len(rec) = C + K
       /\ \A n \in 1 .. C : rec[n] = chunk[n]
       /\ \A n \in 1 .. K : rec[C + n] = pics[n]
  <2>1. /\ Len(chunk \o pics) = Len(chunk) + Len(pics)
        /\ \A n \in 1 .. Len(chunk) : (chunk \o pics)[n] = chunk[n]
        /\ \A n \in 1 .. Len(pics) : (chunk \o pics)[Len(chunk) + n] = pics[n]
    <3>1. chunk \in Seq(Rows) /\ pics \in Seq(Rows)
      BY <1>11
    <3> HIDE DEF Rows
    <3> QED
      BY <3>1, Joined
  <2> QED
    BY <1>2, <1>11, <1>12, <2>1
<1>14. ASSUME NEW n \in 1 .. Len(rec), n > C
       PROVE  /\ n - C \in 1 .. K /\ kept[n - C] \in 1 .. N
              /\ rec[n] = ImageRow(d, kept[n - C])
  <2>1. n - C \in 1 .. K /\ C + (n - C) = n
    BY <1>13, <1>14
  <2>2. rec[n] = pics[n - C]
    BY <1>13, <2>1
  <2> QED
    BY <1>5, <1>8, <1>9, <2>1, <2>2
<1>15. ASSUME NEW n \in 1 .. Len(rec), n <= C
       PROVE  rec[n].data = <<"d", 0, n - 1>> /\ rec[n].type = "text" /\ rec[n].at = n - 1
  <2>1. n \in 1 .. C
    BY <1>15
  <2> QED
    BY <1>3, <1>13, <2>1
<1>16. ASSUME NEW n \in 1 .. Len(rec), rec[n].type = "image" PROVE Range(rec[n].keys) # {}
  <2>1. n > C
    <3>1. n \in Nat /\ C \in Nat
      BY <1>16
    <3>2. ASSUME n <= C PROVE FALSE
      <4>1. rec[n].type = "text"
        BY <1>15, <1>16, <3>2
      <4> QED
        BY <1>16, <4>1
    <3> QED
      BY <3>1, <3>2
  <2> QED
    BY <1>10, <1>14, <2>1
<1>17. ASSUME NEW m \in 1 .. Len(rec), NEW n \in 1 .. Len(rec), m < n
       PROVE  /\ rec[m].at < rec[n].at /\ rec[m].data # rec[n].data
              /\ rec[m].type = "image" => rec[n].type = "image"
  <2>0. m \in Nat /\ n \in Nat /\ Len(rec) = C + K
    BY <1>13
  <2>1. CASE n <= C
    <3>1. m <= C
      BY <1>17, <2>0, <2>1
    <3>2. /\ rec[m].at = m - 1 /\ rec[n].at = n - 1 /\ rec[m].type = "text"
          /\ rec[m].data = <<"d", 0, m - 1>> /\ rec[n].data = <<"d", 0, n - 1>>
      BY <1>15, <2>1, <3>1
    <3> QED
      BY <1>17, <2>0, <3>2
  <2>2. CASE m <= C /\ n > C
    <3>1. PICK i \in 1 .. N : rec[n] = ImageRow(d, i)
      BY <1>14, <2>2
    <3>2. /\ rec[m].at = m - 1 /\ rec[n].at = C + i - 1 /\ rec[m].type = "text"
          /\ rec[m].data = <<"d", 0, m - 1>>
          /\ rec[n].data = <<"img", Images(d)[i][1], Images(d)[i][2] - 1>>
      BY <1>10, <1>15, <2>2, <3>1
    <3> QED
      BY <2>0, <2>2, <3>2
  <2>3. CASE m > C
    <3>1. n > C
      BY <1>17, <2>0, <2>3
    <3>2. /\ m - C \in 1 .. K /\ kept[m - C] \in 1 .. N /\ rec[m] = ImageRow(d, kept[m - C])
          /\ n - C \in 1 .. K /\ kept[n - C] \in 1 .. N /\ rec[n] = ImageRow(d, kept[n - C])
      BY <1>14, <2>3, <3>1
    <3>3. kept[m - C] < kept[n - C]
      BY <1>8, <1>17, <2>0, <3>2
    <3>4. PICK i \in 1 .. N, j \in 1 .. N : i = kept[m - C] /\ j = kept[n - C]
      BY <3>2
    <3>5. /\ rec[m].at = C + i - 1 /\ rec[n].at = C + j - 1 /\ i < j
          /\ rec[n].type = "image"
          /\ rec[m].data = <<"img", Images(d)[i][1], Images(d)[i][2] - 1>>
          /\ rec[n].data = <<"img", Images(d)[j][1], Images(d)[j][2] - 1>>
      BY <1>10, <3>2, <3>3, <3>4
    <3>6. rec[m].data # rec[n].data
      <4>1. PICK a \in Nat \X Nat, b \in Nat \X Nat : a = Images(d)[i] /\ b = Images(d)[j] /\ a # b
        BY <1>4, <3>5
      <4>2. a[1] # b[1] \/ a[2] # b[2]
        BY <4>1, PairsDiffer
      <4>3. a[2] - 1 = b[2] - 1 => a[2] = b[2]
        BY PairsDiffer
      <4> QED
        BY <3>5, <4>1, <4>2, <4>3
    <3> QED
      BY <3>5, <3>6
  <2> QED
    BY <2>0, <2>1, <2>2, <2>3
<1> QED
  BY <1>12, <1>16, <1>17

-----------------------------------------------------------------------------
(* Loops.                                                                   *)

\* What holds at first and after each step holds after all of them.
LEMMA StepByStep ==
  ASSUME NEW N \in Nat, NEW T, 0 \in T, \A n \in 0 .. N - 1 : n \in T => n + 1 \in T
  PROVE  \A n \in 0 .. N : n \in T
<1> SUFFICES ASSUME NEW bad \in SUBSET Nat, bad = (0 .. N) \ T, bad # {} PROVE FALSE
  <2>1. (0 .. N) \ T \in SUBSET Nat
    OBVIOUS
  <2> QED
    BY <2>1
<1>1. PICK b \in bad : \A n \in bad : ~(<<n, b>> \in OpToRel(<, Nat))
  BY WFMin, NatLessThanWellFounded
<1>2. b \in 0 .. N /\ b \notin T /\ \A n \in bad : ~(n < b)
  BY <1>1, Zenon DEF OpToRel
<1>3. b # 0
  BY <1>2
<1>4. b - 1 \in 0 .. N - 1 /\ b - 1 \in Nat /\ b - 1 < b /\ b - 1 \in 0 .. N /\ (b - 1) + 1 = b
  BY <1>2, <1>3
<1>5. b - 1 \in T
  BY <1>2, <1>4
<1> QED
  BY <1>2, <1>4, <1>5

Nothing == [selected |-> <<>>, seen |-> {}, deferred |-> <<>>]

\* The first loop: nothing to begin with, and a turn for each hit.
LEMMA TakenIsLoop ==
  ASSUME NEW s, Len(s) \in Nat
  PROVE  \E acc : /\ acc[0] = Nothing
                  /\ \A n \in 1 .. Len(s) : acc[n] = Take(acc[n - 1], s[n])
                  /\ Taken(s) = acc[Len(s)]
<1> DEFINE IsLoop(g, N) == g = [n \in 0 .. N |-> IF n = 0 THEN Nothing ELSE Take(g[n - 1], s[n])]
<1>1. PICK T : T = {N \in 0 .. Len(s) : \E g : IsLoop(g, N)}
  OBVIOUS
<1>2. 0 \in T
  <2>1. PICK g : g = [n \in 0 .. 0 |-> Nothing]
    OBVIOUS
  <2>2. IsLoop(g, 0)
    <3>1. \A n \in 0 .. 0 : n = 0
      OBVIOUS
    <3> QED
      BY <2>1, <3>1
  <2> QED
    BY <1>1, <2>2
<1>3. ASSUME NEW N \in 0 .. Len(s) - 1, N \in T PROVE N + 1 \in T
  <2>1. PICK g : IsLoop(g, N)
    BY <1>1, <1>3
  <2>2. PICK h : h = [n \in 0 .. N + 1 |-> IF n = 0 THEN Nothing ELSE Take(g[n - 1], s[n])]
    OBVIOUS
  <2>3. \A n \in 0 .. N : g[n] = IF n = 0 THEN Nothing ELSE Take(g[n - 1], s[n])
    BY <2>1
  <2>4. \A n \in 0 .. N : h[n] = g[n]
    <3>1. \A n \in 0 .. N : n \in 0 .. N + 1
      OBVIOUS
    <3> QED
      BY <2>2, <2>3, <3>1
  <2>5. \A n \in 0 .. N + 1 : n # 0 => n - 1 \in 0 .. N
    OBVIOUS
  <2>6. h = [n \in 0 .. N + 1 |-> IF n = 0 THEN Nothing ELSE Take(h[n - 1], s[n])]
    BY <2>2, <2>4, <2>5
  <2>7. IsLoop(h, N + 1) /\ N + 1 \in 0 .. Len(s)
    BY <2>6
  <2> QED
    BY <1>1, <2>7
<1>4. Len(s) \in T
  <2>1. PICK L \in Nat : L = Len(s)
    OBVIOUS
  <2>2. \A n \in 0 .. L - 1 : n \in T => n + 1 \in T
    BY <1>3, <2>1
  <2>3. \A n \in 0 .. L : n \in T
    BY <1>2, <2>2, StepByStep
  <2> QED
    BY <2>1, <2>3
<1>5. PICK acc : acc = CHOOSE g : IsLoop(g, Len(s))
  OBVIOUS
<1>6. IsLoop(acc, Len(s))
  BY <1>1, <1>4, <1>5, Zenon
<1>7. Taken(s) = acc[Len(s)]
  BY <1>5, Zenon DEF Taken, Nothing
<1>8. \A n \in 0 .. Len(s) : acc[n] = IF n = 0 THEN Nothing ELSE Take(acc[n - 1], s[n])
  BY <1>6
<1> QED
  BY <1>7, <1>8

\* The second loop: what the first one took, and a turn for each picture that waited.
LEMMA WithImagesIsLoop ==
  ASSUME NEW first, Len(first.deferred) \in Nat
  PROVE  \E acc : /\ acc[0] = first
                  /\ \A n \in 1 .. Len(first.deferred) : acc[n] = TakeImage(acc[n - 1], first.deferred[n])
                  /\ WithImages(first) = acc[Len(first.deferred)]
<1> DEFINE IsLoop(g, N) == g = [n \in 0 .. N |-> IF n = 0 THEN first ELSE TakeImage(g[n - 1], first.deferred[n])]
<1>1. PICK T : T = {N \in 0 .. Len(first.deferred) : \E g : IsLoop(g, N)}
  OBVIOUS
<1>2. 0 \in T
  <2>1. PICK g : g = [n \in 0 .. 0 |-> first]
    OBVIOUS
  <2>2. IsLoop(g, 0)
    <3>1. \A n \in 0 .. 0 : n = 0
      OBVIOUS
    <3> QED
      BY <2>1, <3>1
  <2> QED
    BY <1>1, <2>2
<1>3. ASSUME NEW N \in 0 .. Len(first.deferred) - 1, N \in T PROVE N + 1 \in T
  <2>1. PICK g : IsLoop(g, N)
    BY <1>1, <1>3
  <2>2. PICK h : h = [n \in 0 .. N + 1 |-> IF n = 0 THEN first ELSE TakeImage(g[n - 1], first.deferred[n])]
    OBVIOUS
  <2>3. \A n \in 0 .. N : g[n] = IF n = 0 THEN first ELSE TakeImage(g[n - 1], first.deferred[n])
    BY <2>1
  <2>4. \A n \in 0 .. N : h[n] = g[n]
    <3>1. \A n \in 0 .. N : n \in 0 .. N + 1
      OBVIOUS
    <3> QED
      BY <2>2, <2>3, <3>1
  <2>5. \A n \in 0 .. N + 1 : n # 0 => n - 1 \in 0 .. N
    OBVIOUS
  <2>6. h = [n \in 0 .. N + 1 |-> IF n = 0 THEN first ELSE TakeImage(h[n - 1], first.deferred[n])]
    BY <2>2, <2>4, <2>5
  <2>7. IsLoop(h, N + 1) /\ N + 1 \in 0 .. Len(first.deferred)
    BY <2>6
  <2> QED
    BY <1>1, <2>7
<1>4. Len(first.deferred) \in T
  <2>1. PICK L \in Nat : L = Len(first.deferred)
    OBVIOUS
  <2>2. \A n \in 0 .. L - 1 : n \in T => n + 1 \in T
    BY <1>3, <2>1
  <2>3. \A n \in 0 .. L : n \in T
    BY <1>2, <2>2, StepByStep
  <2> QED
    BY <2>1, <2>3
<1>5. PICK acc : acc = CHOOSE g : IsLoop(g, Len(first.deferred))
  OBVIOUS
<1>6. IsLoop(acc, Len(first.deferred))
  BY <1>1, <1>4, <1>5, Zenon
<1>7. WithImages(first) = acc[Len(first.deferred)]
  BY <1>5, Zenon DEF WithImages
<1>8. \A n \in 0 .. Len(first.deferred) : acc[n] = IF n = 0 THEN first ELSE TakeImage(acc[n - 1], first.deferred[n])
  BY <1>6
<1> QED
  BY <1>7, <1>8

-----------------------------------------------------------------------------
(* What postprocess_search_hits keeps.                                      *)

\* s has elements of t, each place of t at most once.
Picked(s, t, at) ==
  /\ at \in [1 .. Len(s) -> 1 .. Len(t)]
  /\ \A i \in 1 .. Len(s) : s[i] = t[at[i]]
  /\ \A i, j \in 1 .. Len(s) : at[i] = at[j] => i = j

Selection(s, t) == \E at : Picked(s, t, at)

Sorted(s) == \A m, n \in 1 .. Len(s) : m < n => s[m].score >= s[n].score

\* A selection of a selection is one.
LEMMA PickedTwice ==
  ASSUME NEW s, NEW t, NEW u, Len(s) \in Nat, Len(t) \in Nat, Len(u) \in Nat,
         Selection(s, t), Selection(t, u)
  PROVE  Selection(s, u)
<1>1. PICK at : Picked(s, t, at)
  BY DEF Selection
<1>2. PICK bt : Picked(t, u, bt)
  BY DEF Selection
<1>3. PICK ct : ct = [i \in 1 .. Len(s) |-> bt[at[i]]]
  OBVIOUS
<1>4. \A i \in 1 .. Len(s) : at[i] \in 1 .. Len(t) /\ ct[i] = bt[at[i]]
  BY <1>1, <1>3 DEF Picked
<1>5. ct \in [1 .. Len(s) -> 1 .. Len(u)]
  BY <1>2, <1>3, <1>4 DEF Picked
<1>6. \A i \in 1 .. Len(s) : s[i] = u[ct[i]]
  BY <1>1, <1>2, <1>4 DEF Picked
<1>7. \A i, j \in 1 .. Len(s) : ct[i] = ct[j] => i = j
  BY <1>1, <1>2, <1>4 DEF Picked
<1> QED
  BY <1>5, <1>6, <1>7 DEF Picked, Selection

\* Sorting rearranges.
LEMMA SortedIsSelection ==
  ASSUME NEW X, NEW s \in Seq(X), \A i \in 1 .. Len(s) : s[i].score \in Nat
  PROVE  /\ ByScore(s) \in Seq(X) /\ Len(ByScore(s)) = Len(s)
         /\ Selection(ByScore(s), s) /\ Selection(s, ByScore(s)) /\ Sorted(ByScore(s))
<1>1. PICK at \in [1 .. Len(s) -> 1 .. Len(s)] :
        /\ ByScore(s) = [n \in 1 .. Len(s) |-> s[at[n]]]
        /\ ByScore(s) \in Seq(X) /\ Len(ByScore(s)) = Len(s)
        /\ \A i \in 1 .. Len(s) : \E n \in 1 .. Len(s) : at[n] = i
        /\ \A m, n \in 1 .. Len(s) : at[m] = at[n] => m = n
        /\ \A m, n \in 1 .. Len(s) : m < n => ByScore(s)[m].score >= ByScore(s)[n].score
  BY ByScoreHolds
<1>2. Picked(ByScore(s), s, at)
  BY <1>1 DEF Picked
<1>3. PICK bt : bt = [i \in 1 .. Len(s) |-> CHOOSE n \in 1 .. Len(s) : at[n] = i]
  OBVIOUS
<1>4. ASSUME NEW i \in 1 .. Len(s) PROVE bt[i] \in 1 .. Len(s) /\ at[bt[i]] = i
  <2>1. \E n \in 1 .. Len(s) : at[n] = i
    BY <1>1
  <2>2. bt[i] = CHOOSE n \in 1 .. Len(s) : at[n] = i
    BY <1>3
  <2> QED
    BY <2>1, <2>2, Zenon
<1>5. bt \in [1 .. Len(s) -> 1 .. Len(s)]
  BY <1>3, <1>4
<1>6. \A i \in 1 .. Len(s) : s[i] = ByScore(s)[bt[i]]
  BY <1>1, <1>4
<1>7. \A i, j \in 1 .. Len(s) : bt[i] = bt[j] => i = j
  BY <1>4
<1>8. Picked(s, ByScore(s), bt)
  BY <1>1, <1>5, <1>6, <1>7 DEF Picked
<1> QED
  BY <1>1, <1>2, <1>8 DEF Selection, Sorted

\* The best k of at most k are all.
LEMMA TopIsAll ==
  ASSUME NEW X, NEW s \in Seq(X), NEW k \in Nat, Len(s) <= k
  PROVE  Top(s, k) = s
<1>1. PICK L \in Nat : L = Len(s)
  OBVIOUS
<1>2. \E x \in {k, L} : \A y \in {k, L} : x <= y
  BY <1>1
<1>3. PICK m : m = CHOOSE x \in {k, L} : \A y \in {k, L} : x <= y
  OBVIOUS
<1>4. m \in {k, L} /\ \A y \in {k, L} : m <= y
  BY <1>2, <1>3, Zenon
<1>5. m = L
  BY <1>1, <1>4
<1>6. Top(s, k) = SubSeq(s, 1, L)
  BY <1>1, <1>3, <1>5 DEF Top, Min
<1> QED
  BY <1>1, <1>6

\* A text is taken whatever its keys, when no picture was taken before it.
LEMMA TextIsTaken ==
  ASSUME NEW X, NEW acc, acc.selected \in Seq(X),
         \A i \in 1 .. Len(acc.selected) : ~IsImage(acc.selected[i]),
         NEW h, ~IsImage(h)
  PROVE  Take(acc, h) = Taking(acc, acc.selected, h)
<1>1. PICK sel \in Seq(X) : sel = acc.selected
  OBVIOUS
<1>2. PICK others : others = {i \in DOMAIN sel : \/ ~IsImage(sel[i])
                                                \/ Keys(sel[i]) \cap Keys(h) = {}}
  OBVIOUS
<1>3. others = 1 .. Len(sel)
  BY <1>1, <1>2
<1>4. Only(sel, others) = sel
  BY <1>3, OnlyAll
<1>5. Take(acc, h) =
        IF Keys(h) = {} THEN Taking(acc, sel, h)
        ELSE IF Keys(h) \cap acc.seen # {}
          THEN IF IsImage(h) THEN acc ELSE Taking(acc, Only(sel, others), h)
        ELSE IF IsImage(h) THEN [acc EXCEPT !.deferred = Append(@, h)]
        ELSE Taking(acc, sel, h)
  BY <1>1, <1>2, Zenon DEF Take
<1> QED
  BY <1>1, <1>4, <1>5, Zenon

\* Among texts the loop takes every one.
LEMMA TextsAreTaken ==
  ASSUME NEW X, NEW s \in Seq(X), \A i \in 1 .. Len(s) : ~IsImage(s[i])
  PROVE  WithImages(Taken(s)).selected = s
<1>0. PICK L \in Nat : L = Len(s)
  OBVIOUS
<1>1. PICK acc : /\ acc[0] = Nothing
                 /\ \A n \in 1 .. L : acc[n] = Take(acc[n - 1], s[n])
                 /\ Taken(s) = acc[L]
  BY <1>0, TakenIsLoop
<1> DEFINE Holds(a, n) == /\ a = [selected |-> a.selected, seen |-> a.seen, deferred |-> <<>>]
                          /\ a.selected \in Seq(X) /\ Len(a.selected) = n
                          /\ \A i \in 1 .. n : a.selected[i] = s[i]
<1>2. PICK T : T = {n \in 0 .. L : Holds(acc[n], n)}
  OBVIOUS
<1>3. 0 \in T
  <2>1. Nothing.selected = <<>> /\ Nothing.deferred = <<>> /\ <<>> \in Seq(X) /\ Len(<<>>) = 0
    BY DEF Nothing
  <2>2. Nothing = [selected |-> Nothing.selected, seen |-> Nothing.seen, deferred |-> <<>>]
    BY DEF Nothing
  <2>3. 1 .. 0 = {} /\ 0 \in 0 .. L
    OBVIOUS
  <2>4. Holds(Nothing, 0)
    BY <2>1, <2>2, <2>3
  <2> QED
    BY <1>1, <1>2, <2>3, <2>4
<1>4. ASSUME NEW n \in 0 .. L - 1, n \in T PROVE n + 1 \in T
  <2>1. n + 1 \in 1 .. L /\ (n + 1) - 1 = n /\ n + 1 \in 0 .. L
    OBVIOUS
  <2>2. acc[n + 1] = Take(acc[n], s[n + 1])
    BY <1>1, <2>1
  <2>a. PICK sel \in Seq(X) :
          \E seen : /\ acc[n] = [selected |-> sel, seen |-> seen, deferred |-> <<>>]
                    /\ Len(sel) = n /\ \A i \in 1 .. n : sel[i] = s[i]
    BY <1>2, <1>4
  <2>3. PICK seen : /\ acc[n] = [selected |-> sel, seen |-> seen, deferred |-> <<>>]
                    /\ Len(sel) = n /\ \A i \in 1 .. n : sel[i] = s[i]
    BY <2>a
  <2>4. PICK h \in X : h = s[n + 1] /\ ~IsImage(h)
    BY <1>0, <2>1
  <2>5. \A i \in 1 .. n : ~IsImage(sel[i])
    BY <1>0, <2>3
  <2>6. acc[n + 1] = Taking(acc[n], sel, h)
    <3>1. acc[n].selected = sel
      BY <2>3
    <3>2. \A i \in 1 .. Len(sel) : ~IsImage(sel[i])
      BY <2>3, <2>5
    <3> QED
      BY <2>2, <2>4, <3>1, <3>2, TextIsTaken
  <2>7. \E more : acc[n + 1] = [selected |-> Append(sel, h), seen |-> more, deferred |-> <<>>]
    <3>1. acc[n].deferred = <<>>
      BY <2>3
    <3> QED
      BY <2>6, <3>1, Zenon DEF Taking
  <2>8. /\ Append(sel, h) \in Seq(X) /\ Len(Append(sel, h)) = n + 1
        /\ \A i \in 1 .. n + 1 : Append(sel, h)[i] = s[i]
    BY <2>3, <2>4
  <2>9. Holds(acc[n + 1], n + 1)
    BY <2>7, <2>8
  <2> QED
    BY <1>2, <2>1, <2>9
<1>5. \A n \in 0 .. L : n \in T
  <2>1. \A n \in 0 .. L - 1 : n \in T => n + 1 \in T
    BY <1>4
  <2> QED
    BY <1>3, <2>1, StepByStep
<1>6. Holds(acc[L], L)
  BY <1>2, <1>5
<1>7. PICK first : first = Taken(s)
  OBVIOUS
<1>8. first.deferred = <<>> /\ first.selected = s
  <2>1. first.deferred = <<>> /\ first.selected \in Seq(X) /\ Len(first.selected) = L
    BY <1>1, <1>6, <1>7
  <2>2. \A i \in 1 .. L : first.selected[i] = s[i]
    BY <1>1, <1>6, <1>7
  <2> QED
    BY <1>0, <2>1, <2>2
<1>9. WithImages(first) = first
  <2>1. Len(first.deferred) = 0
    BY <1>8
  <2>2. PICK all : all[0] = first /\ WithImages(first) = all[Len(first.deferred)]
    BY <2>1, WithImagesIsLoop
  <2> QED
    BY <2>1, <2>2
<1> QED
  BY <1>7, <1>8, <1>9

\* A picture that waits is the last that waits, and nothing else changes.
LEMMA PutAside ==
  \A r, sel, seen, def, more :
    r = [selected |-> sel, seen |-> seen, deferred |-> def]
      => [r EXCEPT !.deferred = more] = [selected |-> sel, seen |-> seen, deferred |-> more]
  OBVIOUS

\* The first loop has put the first n of s aside.
Waiting(X, s, a, n) ==
  \E def \in Seq(X) : /\ a = [selected |-> <<>>, seen |-> {}, deferred |-> def]
                      /\ Len(def) = n /\ \A i \in 1 .. n : def[i] = s[i]

\* The second loop has taken `sel' among the first n of s.
Part(X, s, sel, seen, n) ==
  /\ sel \in Seq(X) /\ Len(sel) <= n
  /\ \E at \in [1 .. Len(sel) -> 1 .. n] :
       /\ \A i \in 1 .. Len(sel) : sel[i] = s[at[i]]
       /\ \A i, j \in 1 .. Len(sel) : at[i] = at[j] => i = j
  /\ \A i \in 1 .. Len(sel) : Keys(sel[i]) \subseteq seen
  /\ \A i, j \in 1 .. Len(sel) : i # j => Keys(sel[i]) \cap Keys(sel[j]) = {}

\* Among pictures the second loop takes those whose keys no other one has that was taken.
LEMMA PicturesAreTaken ==
  ASSUME NEW X, NEW s \in Seq(X), \A i \in 1 .. Len(s) : IsImage(s[i]) /\ Keys(s[i]) # {}
  PROVE  \E out \in Seq(X) :
           /\ out = WithImages(Taken(s)).selected /\ Len(out) <= Len(s) /\ Selection(out, s)
           /\ \A i, j \in 1 .. Len(out) : i # j => Keys(out[i]) \cap Keys(out[j]) = {}
<1>0. PICK L \in Nat : L = Len(s)
  OBVIOUS
<1>1. PICK acc : /\ acc[0] = Nothing
                 /\ \A n \in 1 .. L : acc[n] = Take(acc[n - 1], s[n])
                 /\ Taken(s) = acc[L]
  BY <1>0, TakenIsLoop
<1>2. PICK T : T = {n \in 0 .. L : Waiting(X, s, acc[n], n)}
  OBVIOUS
<1>3. 0 \in T
  <2>1. 1 .. 0 = {} /\ 0 \in 0 .. L /\ <<>> \in Seq(X) /\ Len(<<>>) = 0
    OBVIOUS
  <2>2. Waiting(X, s, Nothing, 0)
    BY <2>1, Zenon DEF Nothing, Waiting
  <2> QED
    BY <1>1, <1>2, <2>1, <2>2
<1>4. ASSUME NEW n \in 0 .. L - 1, n \in T PROVE n + 1 \in T
  <2>1. n + 1 \in 1 .. L /\ (n + 1) - 1 = n /\ n + 1 \in 0 .. L
    OBVIOUS
  <2>2. acc[n + 1] = Take(acc[n], s[n + 1])
    BY <1>1, <2>1
  <2>3. PICK def \in Seq(X) : /\ acc[n] = [selected |-> <<>>, seen |-> {}, deferred |-> def]
                              /\ Len(def) = n /\ \A i \in 1 .. n : def[i] = s[i]
    BY <1>2, <1>4 DEF Waiting
  <2>4. PICK h \in X : h = s[n + 1] /\ IsImage(h) /\ Keys(h) # {}
    BY <1>0, <2>1
  <2>5. PICK more : more = Append(def, h)
    OBVIOUS
  <2>6. acc[n].seen = {} /\ acc[n].deferred = def
    BY <2>3
  <2>7. Take(acc[n], h) = [acc[n] EXCEPT !.deferred = more]
    <3>1. ~(Keys(h) \cap acc[n].seen # {})
      BY <2>6
    <3>2. Take(acc[n], h) = [acc[n] EXCEPT !.deferred = Append(@, h)]
      BY <2>4, <3>1, Zenon DEF Take
    <3> QED
      BY <2>5, <2>6, <3>2
  <2>8. acc[n + 1] = [selected |-> <<>>, seen |-> {}, deferred |-> more]
    <3>1. PICK r : r = acc[n]
      OBVIOUS
    <3>2. r = [selected |-> <<>>, seen |-> {}, deferred |-> def]
      BY <2>3, <3>1
    <3>3. [r EXCEPT !.deferred = more] = [selected |-> <<>>, seen |-> {}, deferred |-> more]
      <4>1. PICK sel, seen : sel = <<>> /\ seen = {}
        OBVIOUS
      <4>2. r = [selected |-> sel, seen |-> seen, deferred |-> def]
        BY <3>2, <4>1
      <4>3. [r EXCEPT !.deferred = more] = [selected |-> sel, seen |-> seen, deferred |-> more]
        BY <4>2, PutAside
      <4> QED
        BY <4>1, <4>3
    <3> QED
      BY <2>2, <2>4, <2>7, <3>1, <3>3, Zenon
  <2>9. more \in Seq(X) /\ Len(more) = n + 1 /\ \A i \in 1 .. n + 1 : more[i] = s[i]
    BY <2>3, <2>4, <2>5
  <2>10. Waiting(X, s, acc[n + 1], n + 1)
    BY <2>8, <2>9 DEF Waiting
  <2> QED
    BY <1>2, <2>1, <2>10
<1>5. \A n \in 0 .. L : n \in T
  <2>1. \A n \in 0 .. L - 1 : n \in T => n + 1 \in T
    BY <1>4
  <2> QED
    BY <1>3, <2>1, StepByStep
<1>6. PICK first : first = Taken(s)
  OBVIOUS
<1>7. first = [selected |-> <<>>, seen |-> {}, deferred |-> s]
  <2>1. Waiting(X, s, first, L)
    <3>1. L \in T
      BY <1>5
    <3> QED
      BY <1>1, <1>2, <1>6, <3>1
  <2>2. PICK def \in Seq(X) : /\ first = [selected |-> <<>>, seen |-> {}, deferred |-> def]
                              /\ Len(def) = L /\ \A i \in 1 .. L : def[i] = s[i]
    BY <2>1 DEF Waiting
  <2>3. def = s
    BY <1>0, <2>2
  <2> QED
    BY <2>2, <2>3
<1>8. first.deferred = s /\ first.selected = <<>> /\ first.seen = {}
  BY <1>7
<1>9. PICK all : /\ all[0] = first
                 /\ \A n \in 1 .. L : all[n] = TakeImage(all[n - 1], s[n])
                 /\ WithImages(first) = all[L]
  BY <1>0, <1>8, WithImagesIsLoop
<1>10. PICK U : U = {n \in 0 .. L : Part(X, s, all[n].selected, all[n].seen, n)}
  OBVIOUS
<1>11. 0 \in U
  <2>1. 1 .. 0 = {} /\ 0 \in 0 .. L /\ <<>> \in Seq(X) /\ Len(<<>>) = 0
    OBVIOUS
  <2>2. \E at : at \in [1 .. 0 -> 1 .. 0]
    <3>1. [n \in 1 .. 0 |-> n] \in [1 .. 0 -> 1 .. 0]
      OBVIOUS
    <3> QED
      BY <3>1
  <2>3. Part(X, s, <<>>, {}, 0)
    <3>1. PICK none \in Seq(X) : none = <<>> /\ Len(none) = 0
      BY <2>1
    <3>2. \A i \in 1 .. Len(none) : FALSE
      BY <2>1, <3>1
    <3>3. \E at \in [1 .. Len(none) -> 1 .. 0] : /\ \A i \in 1 .. Len(none) : none[i] = s[at[i]]
                                               /\ \A i, j \in 1 .. Len(none) : at[i] = at[j] => i = j
      BY <2>2, <3>1, <3>2
    <3>4. Len(none) <= 0
      BY <3>1
    <3>5. Part(X, s, none, {}, 0)
      BY <3>2, <3>3, <3>4, Zenon DEF Part
    <3> QED
      BY <3>1, <3>5
  <2>4. all[0].selected = <<>> /\ all[0].seen = {}
    BY <1>8, <1>9
  <2>5. Part(X, s, all[0].selected, all[0].seen, 0)
    BY <2>3, <2>4, Zenon
  <2> QED
    BY <1>10, <2>1, <2>5
<1>12. ASSUME NEW n \in 0 .. L - 1, n \in U PROVE n + 1 \in U
  <2>1. n + 1 \in 1 .. L /\ (n + 1) - 1 = n /\ n + 1 \in 0 .. L
    OBVIOUS
  <2>2. all[n + 1] = TakeImage(all[n], s[n + 1])
    BY <1>9, <2>1
  <2>a. PICK sel \in Seq(X) : sel = all[n].selected /\ Part(X, s, sel, all[n].seen, n)
    BY <1>10, <1>12 DEF Part
  <2>3. PICK seen : sel = all[n].selected /\ seen = all[n].seen /\ Part(X, s, sel, seen, n)
    BY <2>a
  <2>4. PICK h \in X : h = s[n + 1]
    BY <1>0, <2>1
  <2>5. PICK N \in Nat : N = Len(sel)
    OBVIOUS
  <2>6. PICK at \in [1 .. N -> 1 .. n] :
          /\ \A i \in 1 .. N : sel[i] = s[at[i]]
          /\ \A i, j \in 1 .. N : at[i] = at[j] => i = j
    BY <2>3, <2>5 DEF Part
  <2>7. CASE Keys(h) \cap seen # {}
    <3>1. all[n + 1] = all[n]
      BY <2>2, <2>3, <2>4, <2>7, Zenon DEF TakeImage
    <3>2. at \in [1 .. N -> 1 .. n + 1]
      BY <2>6
    <3>3. \E bt \in [1 .. Len(sel) -> 1 .. n + 1] : /\ \A i \in 1 .. Len(sel) : sel[i] = s[bt[i]]
                                                 /\ \A i, j \in 1 .. Len(sel) : bt[i] = bt[j] => i = j
      BY <2>5, <2>6, <3>2
    <3>4. Len(sel) <= n + 1
      BY <2>3, <2>5 DEF Part
    <3>5. Part(X, s, sel, seen, n + 1)
      BY <2>3, <3>3, <3>4, Zenon DEF Part
    <3> QED
      BY <1>10, <2>1, <2>3, <3>1, <3>5
  <2>8. CASE Keys(h) \cap seen = {}
    <3>1. PICK more, wider : more = Append(sel, h) /\ wider = seen \cup Keys(h)
      OBVIOUS
    <3>2. all[n + 1] = Taking(all[n], sel, h)
      BY <2>2, <2>3, <2>4, <2>8, Zenon DEF TakeImage
    <3>3. all[n + 1].selected = more /\ all[n + 1].seen = wider
      BY <2>3, <3>1, <3>2 DEF Taking
    <3>4. /\ more \in Seq(X) /\ Len(more) = N + 1 /\ more[N + 1] = h
          /\ \A i \in 1 .. N : more[i] = sel[i]
      BY <2>5, <3>1
    <3>5. PICK bt : bt = [i \in 1 .. N + 1 |-> IF i = N + 1 THEN n + 1 ELSE at[i]]
      OBVIOUS
    <3>6. \A i \in 1 .. N : bt[i] = at[i] /\ bt[i] \in 1 .. n /\ more[i] = sel[i]
      BY <2>6, <3>4, <3>5
    <3>7. bt[N + 1] = n + 1
      BY <3>5
    <3>8. \A i \in 1 .. N + 1 : i = N + 1 \/ i \in 1 .. N
      OBVIOUS
    <3>9. bt \in [1 .. N + 1 -> 1 .. n + 1]
      BY <3>5, <3>6, <3>7, <3>8
    <3>10. \A i \in 1 .. N + 1 : more[i] = s[bt[i]]
      BY <2>4, <2>6, <3>4, <3>6, <3>7, <3>8
    <3>11. \A i, j \in 1 .. N + 1 : bt[i] = bt[j] => i = j
      BY <2>6, <3>6, <3>7, <3>8
    <3>12. \A i \in 1 .. N : Keys(more[i]) \subseteq seen
      BY <2>3, <2>5, <3>6 DEF Part
    <3>13. \A i \in 1 .. N + 1 : Keys(more[i]) \subseteq wider
      BY <3>1, <3>4, <3>8, <3>12
    <3>14. \A i, j \in 1 .. N : i # j => Keys(more[i]) \cap Keys(more[j]) = {}
      BY <2>3, <2>5, <3>6 DEF Part
    <3>15. \A i \in 1 .. N : Keys(more[i]) \cap Keys(more[N + 1]) = {}
      BY <2>8, <3>4, <3>12
    <3>16. \A i, j \in 1 .. N + 1 : i # j => Keys(more[i]) \cap Keys(more[j]) = {}
      BY <3>8, <3>14, <3>15
    <3>17. N + 1 <= n + 1
      BY <2>3, <2>5 DEF Part
    <3>a. \E ct \in [1 .. Len(more) -> 1 .. n + 1] : /\ \A i \in 1 .. Len(more) : more[i] = s[ct[i]]
                                                  /\ \A i, j \in 1 .. Len(more) : ct[i] = ct[j] => i = j
      <4>1. /\ bt \in [1 .. Len(more) -> 1 .. n + 1]
            /\ \A i \in 1 .. Len(more) : more[i] = s[bt[i]]
            /\ \A i, j \in 1 .. Len(more) : bt[i] = bt[j] => i = j
        BY <3>4, <3>9, <3>10, <3>11
      <4> QED
        BY <4>1, Zenon
    <3>18. Part(X, s, more, wider, n + 1)
      BY <3>4, <3>a, <3>13, <3>16, <3>17, Zenon DEF Part
    <3> QED
      BY <1>10, <2>1, <3>3, <3>18
  <2> QED
    BY <2>7, <2>8
<1>13. \A n \in 0 .. L : n \in U
  <2>1. \A n \in 0 .. L - 1 : n \in U => n + 1 \in U
    BY <1>12
  <2> QED
    BY <1>11, <2>1, StepByStep
<1>14. PICK out : out = all[L].selected /\ Part(X, s, out, all[L].seen, L)
  <2>1. L \in U
    BY <1>13
  <2> QED
    BY <1>10, <2>1
<1>15. Selection(out, s)
  BY <1>0, <1>14 DEF Part, Picked, Selection
<1>16. /\ out \in Seq(X) /\ Len(out) <= L
       /\ \A i, j \in 1 .. Len(out) : i # j => Keys(out[i]) \cap Keys(out[j]) = {}
  BY <1>14, Zenon DEF Part
<1>17. out = WithImages(Taken(s)).selected
  BY <1>6, <1>9, <1>14
<1> QED
  BY <1>0, <1>15, <1>16, <1>17

-----------------------------------------------------------------------------
(* What a search finds.                                                     *)

\* The least of some numbers is one of them.
LEMMA MinHolds ==
  ASSUME NEW S \in SUBSET Nat, S # {}
  PROVE  Min(S) \in S /\ \A y \in S : Min(S) <= y
<1>1. PICK x \in S : \A y \in S : ~(<<y, x>> \in OpToRel(<, Nat))
  BY WFMin, NatLessThanWellFounded
<1>2. \A y \in S : ~(y < x)
  BY <1>1, Zenon DEF OpToRel
<1>3. \E m \in S : \A y \in S : m <= y
  BY <1>2
<1>4. PICK m : m = CHOOSE z \in S : \A y \in S : z <= y
  OBVIOUS
<1>5. m \in S /\ \A y \in S : m <= y
  BY <1>3, <1>4, Zenon
<1> QED
  BY <1>4, <1>5 DEF Min

\* The greatest of some numbers is one of them.
LEMMA MaxHolds ==
  ASSUME NEW B \in Nat, NEW S \in SUBSET (0 .. B), S # {}
  PROVE  Max(S) \in S /\ \A y \in S : Max(S) >= y
<1>a. PICK T : T = {B - x : x \in S}
  OBVIOUS
<1>1. T \in SUBSET Nat /\ T # {}
  <2>1. \A x \in S : x \in Nat /\ x <= B /\ B - x \in Nat
    OBVIOUS
  <2>2. PICK x \in S : TRUE
    OBVIOUS
  <2>3. B - x \in T
    BY <1>a
  <2> QED
    BY <1>a, <2>1, <2>3
<1>2. PICK t \in T : \A y \in T : t <= y
  BY <1>1, MinHolds
<1>3. PICK m \in S : t = B - m
  BY <1>a, <1>2
<1>4. \A y \in S : B - y \in T
  BY <1>a
<1>5. \A y \in S : m >= y
  BY <1>2, <1>3, <1>4
<1>6. PICK x : x = CHOOSE z \in S : \A y \in S : z >= y
  OBVIOUS
<1>7. x \in S /\ \A y \in S : x >= y
  BY <1>5, <1>6, Zenon
<1> QED
  BY <1>6, <1>7 DEF Max

\* A hit that is a row of its document.
IsRow(h) ==
  /\ h.text[1] \in Docs /\ h.text[2] \in 1 .. Len(Records[h.text[1]])
  /\ h.data = Records[h.text[1]][h.text[2]].data
  /\ IsImage(h) => Keys(h) # {}

Found ==
  {h \in [file : Files, data : RowNames, type : {"text", "image"}, keys : Seq(ImageKeys),
          text : Docs \X Nat, score : 1 .. MaxScore] : IsRow(h)}

StoredRows ==
  {r \in [file : Files, data : RowNames, type : {"text", "image"}, keys : Seq(ImageKeys), at : Nat,
          text : Docs \X Nat] :
     /\ IsRow(r) /\ r.at = Records[r.text[1]][r.text[2]].at
     /\ r.type = Records[r.text[1]][r.text[2]].type}

\* The rows that are in, of files whose rows are of a document.
DocsHold ==
  \A f \in Files : /\ doc[f].of \in Docs \cup {NoDoc}
                   /\ doc[f].data \in Nat /\ doc[f].index \in Nat /\ doc[f].index <= doc[f].data
                   /\ doc[f].of = NoDoc => doc[f].data = 0
                   /\ doc[f].of # NoDoc => doc[f].data <= Len(Records[doc[f].of])

\* A row of a file is a stored row.
LEMMA RowIsStored ==
  ASSUME NEW f \in Files, NEW d \in Docs, NEW n \in 1 .. Len(Records[d]), NEW r,
         r = [file |-> f, data |-> Records[d][n].data, type |-> Records[d][n].type,
              keys |-> Records[d][n].keys, at |-> Records[d][n].at, text |-> <<d, n>>]
  PROVE  r \in StoredRows
<1>1. PICK rec \in Seq(Rows) : rec = Records[d]
  BY RecordsHold
<1>2. PICK row \in Rows : row = rec[n]
  <2>1. rec[n] \in Rows
    <3> HIDE DEF Rows
    <3> QED
      BY <1>1, SeqHas
  <2> QED
    BY <2>1
<1>3. row.data \in RowNames /\ row.type \in {"text", "image"} /\ row.keys \in Seq(ImageKeys) /\ row.at \in Nat
  BY <1>2 DEF Rows
<1>4. row.type = "image" => Range(row.keys) # {}
  BY <1>1, <1>2, RecordsHold
<1>5. n \in Nat /\ <<d, n>> \in Docs \X Nat
  BY <1>1
<1>6. r = [file |-> f, data |-> row.data, type |-> row.type, keys |-> row.keys, at |-> row.at, text |-> <<d, n>>]
  BY <1>1, <1>2
<1>7. r \in [file : Files, data : RowNames, type : {"text", "image"}, keys : Seq(ImageKeys), at : Nat,
             text : Docs \X Nat]
  BY <1>3, <1>5, <1>6
<1>8. /\ r.text[1] = d /\ r.text[2] = n /\ r.data = row.data /\ r.at = row.at /\ r.type = row.type
      /\ r.keys = row.keys
  BY <1>6
<1>9. IsRow(r)
  BY <1>1, <1>2, <1>4, <1>8 DEF IsRow, IsImage, Keys
<1> QED
  BY <1>1, <1>2, <1>7, <1>8, <1>9 DEF StoredRows

\* The first m rows of a file are finitely many, each one a row of its document.
LEMMA RowsHold ==
  ASSUME NEW f \in Files, DocsHold, NEW m \in 0 .. doc[f].data
  PROVE  /\ IsFiniteSet(RowsOf(f, m)) /\ RowsOf(f, m) \subseteq StoredRows
         /\ \A r \in RowsOf(f, m) : r.file = f /\ r.text[1] = doc[f].of /\ r.text[2] \in 1 .. m
         /\ \A n \in 1 .. m : \E r \in RowsOf(f, m) : r.text[2] = n
         /\ \A r, q \in RowsOf(f, m) : r.text[2] = q.text[2] => r = q
         /\ \A r, q \in RowsOf(f, m) : r.data = q.data => r = q
<1>1. PICK d : d = doc[f].of
  OBVIOUS
<1>2. PICK M \in Nat : M = doc[f].data /\ m \in 0 .. M /\ m \in Nat
  BY DEF DocsHold
<1>3. PICK row : row = [n \in 1 .. m |-> [file |-> f, data |-> Records[d][n].data, type |-> Records[d][n].type,
                                         keys |-> Records[d][n].keys, at |-> Records[d][n].at, text |-> <<d, n>>]]
  OBVIOUS
<1>4. PICK S : S = RowsOf(f, m)
  OBVIOUS
<1>5. S = {row[n] : n \in 1 .. m}
  BY <1>1, <1>3, <1>4 DEF RowsOf
<1>6. \A n \in 1 .. m : d \in Docs /\ n \in 1 .. Len(Records[d])
  <2> SUFFICES ASSUME NEW n \in 1 .. m PROVE d \in Docs /\ n \in 1 .. Len(Records[d])
    OBVIOUS
  <2>1. M >= 1
    BY <1>2
  <2>2. d # NoDoc /\ d \in Docs \cup {NoDoc}
    BY <1>1, <1>2, <2>1 DEF DocsHold
  <2>3. M <= Len(Records[d]) /\ d \in Docs
    BY <1>1, <1>2, <2>2 DEF DocsHold
  <2>4. Len(Records[d]) \in Nat
    <3>1. Records[d] \in Seq(Rows)
      BY <2>3, RecordsHold
    <3> QED
      BY <3>1
  <2> QED
    BY <1>2, <2>3, <2>4
<1>7. \A n \in 1 .. m : row[n] \in StoredRows
  BY <1>3, <1>6, RowIsStored
<1>8. \A n \in 1 .. m : /\ row[n].file = f /\ row[n].text = <<d, n>> /\ row[n].text[1] = d /\ row[n].text[2] = n
                        /\ row[n].data = Records[d][n].data
  BY <1>3
<1>9. IsFiniteSet(S)
  <2>1. IsFiniteSet(1 .. m)
    <3>1. PICK L \in Nat : L = m
      BY <1>2
    <3>2. IsFiniteSet(1 .. L)
      BY FS_Interval
    <3> QED
      BY <3>1, <3>2
  <2>2. row \in Surjection(1 .. m, S)
    BY <1>3, <1>5 DEF Surjection
  <2> QED
    BY <2>1, <2>2, FS_Surjection
<1>10. \A i, j \in 1 .. m : row[i].data = row[j].data => i = j
  <2> SUFFICES ASSUME NEW i \in 1 .. m, NEW j \in 1 .. m, row[i].data = row[j].data PROVE i = j
    OBVIOUS
  <2>1. d \in Docs /\ i \in 1 .. Len(Records[d]) /\ j \in 1 .. Len(Records[d])
    BY <1>6
  <2>2. ~(i < j) /\ ~(j < i)
    BY <1>8, <2>1, RecordsHold
  <2> QED
    BY <1>2, <2>2
<1>11. \A r \in S : \E n \in 1 .. m : r = row[n]
  BY <1>5
<1>12. \A r, q \in S : r.text[2] = q.text[2] => r = q
  BY <1>8, <1>11
<1>13. \A r, q \in S : r.data = q.data => r = q
  BY <1>8, <1>10, <1>11
<1>14. S \subseteq StoredRows /\ \A r \in S : r.file = f /\ r.text[1] = d /\ r.text[2] \in 1 .. m
  BY <1>7, <1>8, <1>11
<1>15. \A n \in 1 .. m : \E r \in S : r.text[2] = n
  BY <1>5, <1>8
<1> QED
  BY <1>1, <1>4, <1>9, <1>12, <1>13, <1>14, <1>15

\* The result has N of the rows, no more than k, with their scores.
IsResult(result, rows, k, N, from, score) ==
  /\ from \in [1 .. N -> rows] /\ score \in [1 .. N -> 1 .. MaxScore]
  /\ N <= k /\ \A i, j \in 1 .. N : from[i] = from[j] => i = j
  /\ result.found = [i \in 1 .. N |-> Hit(from[i], score[i])]
  /\ result.rest \in 0 .. MaxScore /\ \A i \in 1 .. N : result.rest <= score[i]

\* What is found: rows, each once, the best first; nothing better than them is left out.
LEMMA SearchHolds ==
  ASSUME NEW rows, IsFiniteSet(rows), NEW k \in Nat \ {0}, NEW result \in SearchData(rows, k)
  PROVE  \E N \in Nat : \E from, score : IsResult(result, rows, k, N, from, score)
<1>1. PICK C \in Nat : C = Cardinality(rows)
  BY FS_CardinalityType
<1>2. PICK N \in Nat : N = Min({k, C}) /\ N \in {k, C} /\ N <= k
  <2>1. {k, C} \in SUBSET Nat /\ {k, C} # {}
    OBVIOUS
  <2>2. Min({k, C}) \in {k, C} /\ \A y \in {k, C} : Min({k, C}) <= y
    BY <2>1, MinHolds
  <2> QED
    BY <2>2
<1>3. MaxScore \in Nat
  BY RetrievalAssumption
<1>a. PICK from \in [1 .. N -> rows], score \in [1 .. N -> 1 .. MaxScore] : \E rest :
        /\ Grouped(from)
        /\ rest \in IF \A r \in rows \ Range(from) : IsImage(r) THEN {0} ELSE 1 .. Min(Range(score))
        /\ result = [found |-> [i \in 1 .. N |-> Hit(from[i], score[i])], rest |-> rest]
  <2> DEFINE places == 1 .. Min({k, Cardinality(rows)})
  <2> DEFINE Rests(found, score) == IF \A r \in rows \ Range(found) : IsImage(r) THEN {0} ELSE 1 .. Min(Range(score))
  <2> DEFINE Results(found, score) == {[found |-> [i \in places |-> Hit(found[i], score[i])], rest |-> rest] :
                                         rest \in Rests(found, score)}
  <2> DEFINE Scores == {v \in [places -> 1 .. MaxScore] : \A i, j \in places : i < j => v[i] >= v[j]}
  <2>1. result \in UNION {UNION {Results(found, score) : score \in Scores} :
                           found \in {s \in [places -> rows] : Grouped(s)}}
    BY DEF SearchData
  <2>a. places = 1 .. N
    BY <1>1, <1>2
  <2> HIDE DEF places
  <2> HIDE DEF Results
  <2>2. PICK from \in {s \in [places -> rows] : Grouped(s)} :
          result \in UNION {Results(from, score) : score \in Scores}
    BY <2>1
  <2> HIDE DEF Scores
  <2>3. PICK score \in Scores : result \in Results(from, score)
    BY <2>2
  <2>4. PICK rest \in Rests(from, score) :
          result = [found |-> [i \in places |-> Hit(from[i], score[i])], rest |-> rest]
    BY <2>3 DEF Results
  <2>5. score \in [places -> 1 .. MaxScore]
    BY DEF Scores
  <2> QED
    BY <2>2, <2>4, <2>5, <2>a
<1>4. PICK rest :
        /\ Grouped(from)
        /\ rest \in IF \A r \in rows \ Range(from) : IsImage(r) THEN {0} ELSE 1 .. Min(Range(score))
        /\ result = [found |-> [i \in 1 .. N |-> Hit(from[i], score[i])], rest |-> rest]
  BY <1>a, Zenon
<1>5. \A i, j \in 1 .. N : from[i] = from[j] => i = j
  BY <1>4, Zenon DEF Grouped, IsInjective
<1>6. rest \in 0 .. MaxScore /\ \A i \in 1 .. N : rest <= score[i]
  <2>1. CASE rest = 0
    <3>1. \A i \in 1 .. N : score[i] \in 1 .. MaxScore
      BY <1>4
    <3> QED
      BY <1>3, <2>1, <3>1
  <2>2. CASE rest # 0
    <3>1. rest \in 1 .. Min(Range(score)) /\ \E r \in rows : TRUE
      BY <1>4, <2>2
    <3>2. C # 0
      BY <1>1, <3>1, FS_EmptySet
    <3>3. N >= 1
      BY <1>2, <3>2
    <3>4. PICK S : S = Range(score)
      OBVIOUS
    <3>a. S \in SUBSET Nat
      BY <1>4, <3>4 DEF Range
    <3>5. \A i \in 1 .. N : score[i] \in S /\ score[i] \in 1 .. MaxScore
      BY <1>4, <3>4 DEF Range
    <3>6. S # {} /\ 1 \in 1 .. N
      BY <3>3, <3>5
    <3>7. Min(S) \in Nat /\ \A y \in S : Min(S) <= y
      BY <3>6, <3>a, MinHolds
    <3>8. rest \in Nat /\ rest <= Min(S)
      BY <3>1, <3>4, <3>7
    <3>9. \A i \in 1 .. N : rest <= score[i]
      BY <3>5, <3>7, <3>8
    <3> QED
      BY <1>3, <3>5, <3>6, <3>8, <3>9
  <2> QED
    BY <2>1, <2>2
<1>7. result.rest = rest /\ result.found = [i \in 1 .. N |-> Hit(from[i], score[i])]
  BY <1>4
<1>8. IsResult(result, rows, k, N, from, score)
  BY <1>2, <1>4, <1>5, <1>6, <1>7 DEF IsResult
<1> QED
  BY <1>8

\* What a search reads are stored rows of the knowledge base.
LEMMA KbRowsHold ==
  ASSUME NEW k, DocsHold
  PROVE  /\ IsFiniteSet(KbRows(k)) /\ KbRows(k) \subseteq StoredRows
         /\ \A r \in KbRows(k) : KbOf[r.file] = k
         /\ \A r, q \in KbRows(k) : r.file = q.file /\ r.data = q.data => r = q
<1>1. \A f \in Files : doc[f].index \in 0 .. doc[f].data
  BY DEF DocsHold
<1>2. ASSUME NEW f \in Files
      PROVE  /\ IsFiniteSet(RowsOf(f, doc[f].index)) /\ RowsOf(f, doc[f].index) \subseteq StoredRows
             /\ \A r \in RowsOf(f, doc[f].index) : r.file = f
             /\ \A r, q \in RowsOf(f, doc[f].index) : r.data = q.data => r = q
  BY <1>1, RowsHold
<1>3. PICK T, part : T = {RowsOf(f, doc[f].index) : f \in FilesOf(k)}
                     /\ part = [f \in FilesOf(k) |-> RowsOf(f, doc[f].index)]
  OBVIOUS
<1>4. FilesOf(k) \in SUBSET Files /\ \A f \in FilesOf(k) : KbOf[f] = k
  BY DEF FilesOf
<1>5. part \in Surjection(FilesOf(k), T)
  BY <1>3 DEF Surjection
<1>6. IsFiniteSet(FilesOf(k))
  BY <1>4, FS_Subset, RetrievalAssumption
<1>7. IsFiniteSet(T)
  BY <1>5, <1>6, FS_Surjection
<1>8. \A A \in T : IsFiniteSet(A)
  BY <1>2, <1>3, <1>4
<1>9. KbRows(k) = UNION T
  BY <1>3 DEF KbRows
<1>10. IsFiniteSet(KbRows(k))
  BY <1>7, <1>8, <1>9, FS_UNION
<1>11. \A r \in KbRows(k) : \E f \in Files : KbOf[f] = k /\ r \in RowsOf(f, doc[f].index)
  BY <1>3, <1>4, <1>9
<1> QED
  BY <1>2, <1>10, <1>11

\* Hits of one knowledge base, each row once, no more than are asked for.
Fit(s, k) ==
  /\ s \in Seq(Found) /\ Len(s) <= TopK
  /\ \A i \in 1 .. Len(s) : KbOf[s[i].file] = k
  /\ \A i, j \in 1 .. Len(s) : s[i].file = s[j].file /\ s[i].data = s[j].data => i = j

\* A selection of what was found is of the knowledge base, each row once.
LEMMA SelectionFits ==
  ASSUME NEW k, NEW t, Fit(t, k), NEW s \in Seq(Found), Len(s) <= Len(t), Selection(s, t)
  PROVE  Fit(s, k)
<1>1. PICK at : Picked(s, t, at)
  BY DEF Selection
<1>2. PICK M \in Nat, N \in Nat : M = Len(s) /\ N = Len(t) /\ M <= N /\ N <= TopK
  BY DEF Fit
<1>3. \A i \in 1 .. M : at[i] \in 1 .. N /\ s[i] = t[at[i]]
  BY <1>1, <1>2 DEF Picked
<1>4. \A i \in 1 .. M : KbOf[s[i].file] = k
  BY <1>2, <1>3 DEF Fit
<1>5. \A i, j \in 1 .. M : s[i].file = s[j].file /\ s[i].data = s[j].data => at[i] = at[j]
  BY <1>2, <1>3 DEF Fit
<1>6. \A i, j \in 1 .. M : s[i].file = s[j].file /\ s[i].data = s[j].data => i = j
  BY <1>1, <1>2, <1>5 DEF Picked
<1>7. M <= TopK
  BY <1>2, RetrievalAssumption
<1> QED
  BY <1>2, <1>4, <1>6, <1>7 DEF Fit

\* What a search of a knowledge base returns.
LEMMA FoundHolds ==
  ASSUME NEW k, DocsHold, NEW result \in SearchData(KbRows(k), TopK)
  PROVE  /\ Fit(result.found, k) /\ result.rest \in 0 .. MaxScore
         /\ \A i \in 1 .. Len(result.found) : result.rest <= result.found[i].score
<1>1. PICK rows : rows = KbRows(k)
  OBVIOUS
<1>2. /\ IsFiniteSet(rows) /\ rows \subseteq StoredRows /\ \A r \in rows : KbOf[r.file] = k
      /\ \A r, q \in rows : r.file = q.file /\ r.data = q.data => r = q
  BY <1>1, KbRowsHold
<1>3. TopK \in Nat \ {0}
  BY RetrievalAssumption
<1>a. PICK N \in Nat : \E from, score : IsResult(result, rows, TopK, N, from, score)
  BY <1>1, <1>2, <1>3, SearchHolds
<1>b. PICK from, score : IsResult(result, rows, TopK, N, from, score)
  BY <1>a
<1>4. /\ from \in [1 .. N -> rows] /\ score \in [1 .. N -> 1 .. MaxScore]
      /\ N <= TopK /\ \A i, j \in 1 .. N : from[i] = from[j] => i = j
      /\ result.found = [i \in 1 .. N |-> Hit(from[i], score[i])]
      /\ result.rest \in 0 .. MaxScore /\ \A i \in 1 .. N : result.rest <= score[i]
  BY <1>b, Zenon DEF IsResult
<1>5. PICK s : s = [i \in 1 .. N |-> Hit(from[i], score[i])]
  OBVIOUS
<1>6. result.found = s
  BY <1>4, <1>5
<1>7. ASSUME NEW i \in 1 .. N
      PROVE  /\ s[i] \in Found /\ s[i].score = score[i] /\ KbOf[s[i].file] = k
             /\ s[i].file = from[i].file /\ s[i].data = from[i].data
  <2>1. PICK row \in StoredRows : row = from[i] /\ KbOf[row.file] = k
    BY <1>2, <1>4
  <2>2. PICK v \in 1 .. MaxScore : v = score[i]
    BY <1>4
  <2>3. s[i] = [file |-> row.file, data |-> row.data, type |-> row.type, keys |-> row.keys,
                text |-> row.text, score |-> v]
    BY <1>5, <2>1, <2>2 DEF Hit
  <2>4. /\ row.file \in Files /\ row.data \in RowNames /\ row.type \in {"text", "image"}
        /\ row.keys \in Seq(ImageKeys) /\ row.text \in Docs \X Nat /\ IsRow(row)
    BY DEF StoredRows
  <2>5. s[i] \in [file : Files, data : RowNames, type : {"text", "image"}, keys : Seq(ImageKeys),
                  text : Docs \X Nat, score : 1 .. MaxScore]
    BY <2>3, <2>4
  <2>6. /\ s[i].text = row.text /\ s[i].data = row.data /\ s[i].keys = row.keys /\ s[i].type = row.type
        /\ s[i].file = row.file /\ s[i].score = v
    BY <2>3
  <2>7. IsRow(s[i])
    BY <2>4, <2>6 DEF IsRow, IsImage, Keys
  <2> QED
    BY <2>1, <2>2, <2>5, <2>6, <2>7 DEF Found
<1>8. s \in Seq(Found) /\ Len(s) = N
  <2>1. s \in [1 .. N -> Found]
    BY <1>5, <1>7
  <2> QED
    BY <2>1, MakesSeq
<1>9. \A i, j \in 1 .. N : s[i].file = s[j].file /\ s[i].data = s[j].data => i = j
  <2>1. \A i, j \in 1 .. N : s[i].file = s[j].file /\ s[i].data = s[j].data => from[i] = from[j]
    BY <1>2, <1>4, <1>7
  <2> QED
    BY <1>4, <2>1
<1>10. Fit(s, k)
  BY <1>4, <1>7, <1>8, <1>9 DEF Fit
<1> QED
  BY <1>4, <1>6, <1>7, <1>8, <1>10

\* Among hits shown together a picture stands alone.
Alone(s) ==
  \A i, j \in 1 .. Len(s) :
    i # j /\ IsImage(s[i]) => IsImage(s[j]) /\ Keys(s[i]) \cap Keys(s[j]) = {}

\* Where one text is kept, all are.
TextsKept(kept, found) ==
  (\E i \in 1 .. Len(kept) : ~IsImage(kept[i]))
    => \A j \in 1 .. Len(found) : ~IsImage(found[j]) => \E i \in 1 .. Len(kept) : kept[i] = found[j]

\* What a hit has.
LEMMA FoundFields ==
  ASSUME NEW s \in Seq(Found)
  PROVE  /\ Len(s) \in Nat
         /\ \A i \in 1 .. Len(s) : /\ s[i] \in Found /\ s[i].file \in Files /\ s[i].score \in 1 .. MaxScore
                                   /\ s[i].score \in Nat /\ IsRow(s[i])
                                   /\ IsImage(s[i]) => Keys(s[i]) # {}
<1>1. Len(s) \in Nat /\ \A i \in 1 .. Len(s) : s[i] \in Found
  BY SeqHas
<1>2. MaxScore \in Nat
  BY RetrievalAssumption
<1>3. ASSUME NEW h \in Found
      PROVE  h.file \in Files /\ h.score \in 1 .. MaxScore /\ h.score \in Nat /\ IsRow(h) /\ (IsImage(h) => Keys(h) # {})
  BY <1>2 DEF Found, IsRow
<1> QED
  BY <1>1, <1>3

\* Sorting keeps what is said of hits shown together.
LEMMA SortedFound ==
  ASSUME NEW s \in Seq(Found)
  PROVE  /\ ByScore(s) \in Seq(Found) /\ Len(ByScore(s)) = Len(s)
         /\ Selection(ByScore(s), s) /\ Selection(s, ByScore(s)) /\ Sorted(ByScore(s))
         /\ Alone(s) => Alone(ByScore(s))
<1>1. PICK t : t = ByScore(s)
  OBVIOUS
<1>2. t \in Seq(Found) /\ Len(t) = Len(s) /\ Selection(t, s) /\ Selection(s, t) /\ Sorted(t)
  <2>1. \A i \in 1 .. Len(s) : s[i].score \in Nat
    BY FoundFields
  <2> QED
    BY <1>1, <2>1, SortedIsSelection
<1>3. PICK at : Picked(t, s, at)
  BY <1>2 DEF Selection
<1>4. PICK L \in Nat : L = Len(s)
  BY FoundFields
<1>5. \A i \in 1 .. L : at[i] \in 1 .. L /\ t[i] = s[at[i]]
  BY <1>2, <1>3, <1>4 DEF Picked
<1>6. \A i, j \in 1 .. L : at[i] = at[j] => i = j
  BY <1>2, <1>3, <1>4 DEF Picked
<1>7. ASSUME Alone(s) PROVE Alone(t)
  <2> SUFFICES ASSUME NEW i \in 1 .. L, NEW j \in 1 .. L, i # j, IsImage(t[i])
               PROVE  IsImage(t[j]) /\ Keys(t[i]) \cap Keys(t[j]) = {}
    BY <1>2, <1>4 DEF Alone
  <2>1. /\ at[i] \in 1 .. Len(s) /\ at[j] \in 1 .. Len(s) /\ at[i] # at[j]
        /\ t[i] = s[at[i]] /\ t[j] = s[at[j]]
    BY <1>4, <1>5, <1>6
  <2>2. IsImage(s[at[i]])
    BY <2>1
  <2>3. IsImage(s[at[j]]) /\ Keys(s[at[i]]) \cap Keys(s[at[j]]) = {}
    BY <1>7, <2>1, <2>2 DEF Alone
  <2> QED
    BY <2>1, <2>3
<1> QED
  BY <1>1, <1>2, <1>7

\* Without its pictures, what was found has its texts, or only pictures.
LEMMA DropImagesHolds ==
  ASSUME NEW s \in Seq(Found)
  PROVE  \E t \in Seq(Found) :
           /\ t = DropImages(s) /\ Len(t) <= Len(s) /\ Selection(t, s)
           /\ \/ /\ \A i \in 1 .. Len(t) : ~IsImage(t[i])
                 /\ \A j \in 1 .. Len(s) : ~IsImage(s[j]) => \E i \in 1 .. Len(t) : t[i] = s[j]
              \/ \A i \in 1 .. Len(t) : IsImage(t[i])
<1>a. DOMAIN s = 1 .. Len(s)
  BY SeqHas
<1>1. PICK texts \in SUBSET (1 .. Len(s)) : texts = {i \in DOMAIN s : ~IsImage(s[i])}
  BY <1>a
<1>2. CASE texts = {}
  <2>1. DropImages(s) = s
    BY <1>1, <1>2 DEF DropImages
  <2>2. \A i \in 1 .. Len(s) : IsImage(s[i])
    BY <1>1, <1>2
  <2>3. PICK at : at = [i \in 1 .. Len(s) |-> i]
    OBVIOUS
  <2>4. Picked(s, s, at)
    BY <2>3 DEF Picked
  <2>5. Len(s) <= Len(s)
    BY FoundFields
  <2> QED
    BY <2>1, <2>2, <2>4, <2>5 DEF Selection
<1>3. CASE texts # {}
  <2>1. PICK t : t = Only(s, texts)
    OBVIOUS
  <2>2. DropImages(s) = t
    BY <1>1, <1>3, <2>1 DEF DropImages
  <2>3. PICK N \in Nat : \E at \in [1 .. N -> texts] :
          /\ t = [n \in 1 .. N |-> s[at[n]]]
          /\ t \in Seq(Found) /\ Len(t) = N /\ N <= Len(s)
          /\ \A i \in texts : \E n \in 1 .. N : at[n] = i
          /\ \A m, n \in 1 .. N : m < n <=> at[m] < at[n]
    BY <2>1, OnlyHolds
  <2>4. PICK at \in [1 .. N -> texts] :
          /\ t = [n \in 1 .. N |-> s[at[n]]]
          /\ t \in Seq(Found) /\ Len(t) = N /\ N <= Len(s)
          /\ \A i \in texts : \E n \in 1 .. N : at[n] = i
          /\ \A m, n \in 1 .. N : m < n <=> at[m] < at[n]
    BY <2>3
  <2>5. \A i \in 1 .. N : at[i] \in 1 .. Len(s) /\ at[i] \in texts /\ t[i] = s[at[i]]
    BY <2>4
  <2>6. \A i, j \in 1 .. N : at[i] = at[j] => i = j
    <3> SUFFICES ASSUME NEW i \in 1 .. N, NEW j \in 1 .. N, at[i] = at[j] PROVE i = j
      OBVIOUS
    <3>1. at[i] \in Nat /\ at[j] \in Nat
      BY <2>5
    <3>2. ~(i < j) /\ ~(j < i)
      BY <2>4, <3>1
    <3> QED
      BY <3>2
  <2>7. Picked(t, s, at)
    <3>1. at \in [1 .. N -> 1 .. Len(s)]
      BY <2>4, <2>5
    <3> QED
      BY <2>4, <2>5, <2>6, <3>1 DEF Picked
  <2>8. \A i \in 1 .. N : ~IsImage(t[i])
    BY <1>1, <2>5
  <2>9. \A j \in 1 .. Len(s) : ~IsImage(s[j]) => \E i \in 1 .. N : t[i] = s[j]
    <3> SUFFICES ASSUME NEW j \in 1 .. Len(s), ~IsImage(s[j]) PROVE \E i \in 1 .. N : t[i] = s[j]
      OBVIOUS
    <3>1. j \in texts
      BY <1>1
    <3>2. PICK i \in 1 .. N : at[i] = j
      BY <2>4, <3>1
    <3> QED
      BY <2>5, <3>2
  <2> QED
    BY <2>2, <2>4, <2>7, <2>8, <2>9 DEF Selection
<1> QED
  BY <1>2, <1>3

\* What a search keeps: from what it found, pictures alone, and no better text left out.
LEMMA PostHolds ==
  ASSUME NEW k, NEW found, Fit(found, k), NEW kept, kept = Postprocess(found, TopK)
  PROVE  Fit(kept, k) /\ Selection(kept, found) /\ Sorted(kept) /\ Alone(kept) /\ TextsKept(kept, found)
<1>1. found \in Seq(Found) /\ Len(found) \in Nat /\ Len(found) <= TopK
  BY FoundFields DEF Fit
<1>2. PICK a \in Seq(Found) :
        /\ a = DropImages(found) /\ Len(a) <= Len(found) /\ Selection(a, found)
        /\ \/ /\ \A i \in 1 .. Len(a) : ~IsImage(a[i])
              /\ \A j \in 1 .. Len(found) : ~IsImage(found[j]) => \E i \in 1 .. Len(a) : a[i] = found[j]
           \/ \A i \in 1 .. Len(a) : IsImage(a[i])
  BY <1>1, DropImagesHolds
<1>3. PICK b \in Seq(Found) :
        b = ByScore(a) /\ Len(b) = Len(a) /\ Selection(b, a) /\ Selection(a, b) /\ Sorted(b)
  BY SortedFound
<1>4. PICK at : Picked(b, a, at)
  BY <1>3 DEF Selection
<1>5. PICK bt : Picked(a, b, bt)
  BY <1>3 DEF Selection
<1>6. Len(a) \in Nat /\ Len(b) \in Nat
  BY FoundFields
<1>7. \A i \in 1 .. Len(b) : at[i] \in 1 .. Len(a) /\ b[i] = a[at[i]]
  BY <1>4, <1>6 DEF Picked
<1>8. \A i \in 1 .. Len(a) : bt[i] \in 1 .. Len(b) /\ a[i] = b[bt[i]]
  BY <1>5, <1>6 DEF Picked
<1>9. PICK c : c = WithImages(Taken(b)).selected
  OBVIOUS
<1>10. /\ c \in Seq(Found) /\ Len(c) <= Len(b) /\ Selection(c, b) /\ Alone(c)
       /\ \/ \A i \in 1 .. Len(c) : IsImage(c[i])
          \/ \A j \in 1 .. Len(found) : ~IsImage(found[j]) => \E i \in 1 .. Len(c) : c[i] = found[j]
  <2>1. CASE /\ \A i \in 1 .. Len(a) : ~IsImage(a[i])
             /\ \A j \in 1 .. Len(found) : ~IsImage(found[j]) => \E i \in 1 .. Len(a) : a[i] = found[j]
    <3>1. \A i \in 1 .. Len(b) : ~IsImage(b[i])
      BY <1>7, <2>1
    <3>2. c = b
      BY <1>9, <3>1, TextsAreTaken
    <3>3. Alone(b)
      BY <3>1 DEF Alone
    <3>4. Selection(b, b)
      <4>1. PICK same : same = [i \in 1 .. Len(b) |-> i]
        OBVIOUS
      <4>2. Picked(b, b, same)
        BY <4>1 DEF Picked
      <4> QED
        BY <4>2 DEF Selection
    <3>5. \A j \in 1 .. Len(found) : ~IsImage(found[j]) => \E i \in 1 .. Len(b) : b[i] = found[j]
      BY <1>8, <2>1
    <3> QED
      BY <1>6, <3>2, <3>3, <3>4, <3>5
  <2>2. CASE \A i \in 1 .. Len(a) : IsImage(a[i])
    <3>1. \A i \in 1 .. Len(b) : IsImage(b[i]) /\ Keys(b[i]) # {}
      BY <1>7, <2>2, FoundFields
    <3>2. PICK out \in Seq(Found) :
            /\ out = WithImages(Taken(b)).selected /\ Len(out) <= Len(b) /\ Selection(out, b)
            /\ \A i, j \in 1 .. Len(out) : i # j => Keys(out[i]) \cap Keys(out[j]) = {}
      BY <3>1, PicturesAreTaken
    <3>3. PICK ct : Picked(out, b, ct)
      BY <3>2 DEF Selection
    <3>4. Len(out) \in Nat
      BY FoundFields
    <3>5. \A i \in 1 .. Len(out) : ct[i] \in 1 .. Len(b) /\ out[i] = b[ct[i]]
      BY <1>6, <3>3, <3>4 DEF Picked
    <3>6. \A i \in 1 .. Len(out) : IsImage(out[i])
      BY <3>1, <3>5
    <3>7. Alone(out)
      BY <3>2, <3>6 DEF Alone
    <3> QED
      BY <1>9, <3>2, <3>6, <3>7
  <2> QED
    BY <1>2, <2>1, <2>2
<1>11. Len(c) \in Nat
  BY <1>10, FoundFields
<1>12. PICK d \in Seq(Found) :
         /\ d = ByScore(c) /\ Len(d) = Len(c) /\ Selection(d, c) /\ Selection(c, d) /\ Sorted(d) /\ Alone(d)
  BY <1>10, SortedFound
<1>13. Len(d) <= TopK /\ TopK \in Nat /\ Len(d) \in Nat
  BY <1>1, <1>2, <1>3, <1>6, <1>10, <1>11, <1>12, RetrievalAssumption
<1>14. kept = d
  <2>1. kept = Top(d, TopK)
    BY <1>2, <1>3, <1>9, <1>12 DEF Postprocess
  <2> QED
    BY <1>13, <2>1, TopIsAll
<1>15. Selection(d, found)
  <2>1. Selection(d, b)
    BY <1>6, <1>10, <1>11, <1>12, <1>13, PickedTwice
  <2>2. Selection(d, a)
    BY <1>3, <1>6, <1>13, <2>1, PickedTwice
  <2> QED
    BY <1>1, <1>2, <1>6, <1>13, <2>2, PickedTwice
<1>16. Len(d) <= Len(found)
  BY <1>1, <1>2, <1>3, <1>6, <1>10, <1>11, <1>12
<1>17. Fit(d, k)
  BY <1>15, <1>16, SelectionFits
<1>18. TextsKept(d, found)
  <2>1. PICK ct : Picked(c, d, ct)
    BY <1>12 DEF Selection
  <2>2. PICK dt : Picked(d, c, dt)
    BY <1>12 DEF Selection
  <2>3. \A i \in 1 .. Len(c) : ct[i] \in 1 .. Len(d) /\ c[i] = d[ct[i]]
    BY <1>11, <1>13, <2>1 DEF Picked
  <2>4. \A i \in 1 .. Len(d) : dt[i] \in 1 .. Len(c) /\ d[i] = c[dt[i]]
    BY <1>11, <1>13, <2>2 DEF Picked
  <2>5. CASE \A i \in 1 .. Len(c) : IsImage(c[i])
    BY <2>4, <2>5 DEF TextsKept
  <2>6. CASE \A j \in 1 .. Len(found) : ~IsImage(found[j]) => \E i \in 1 .. Len(c) : c[i] = found[j]
    BY <2>3, <2>6 DEF TextsKept
  <2> QED
    BY <1>10, <2>5, <2>6
<1> QED
  BY <1>12, <1>14, <1>15, <1>17, <1>18

-----------------------------------------------------------------------------
(* Which search found a hit.                                                *)

\* Hit i was found by search turn[i]: of the knowledge base named there, as one of the hits
\* that search returned together, and, a text, not worse than what that search left out.
Turns(turn, h, a, m) ==
  /\ turn \in [1 .. Len(h) -> 1 .. Len(m)]
  /\ \A i \in 1 .. Len(h) : a[turn[i]] = KbOf[h[i].file]
  /\ \A i, j \in 1 .. Len(h) : i # j /\ turn[i] = turn[j] =>
       /\ ~(h[i].file = h[j].file /\ h[i].data = h[j].data)
       /\ IsImage(h[i]) => IsImage(h[j]) /\ Keys(h[i]) \cap Keys(h[j]) = {}
  /\ \A i \in 1 .. Len(h) : ~IsImage(h[i]) => h[i].score >= m[turn[i]]

FromTurns(h, a, m) == \E turn : Turns(turn, h, a, m)

\* Another search adds what it keeps.
LEMMA TurnAdds ==
  ASSUME NEW h \in Seq(Found), NEW a, NEW m \in Seq(0 .. MaxScore), FromTurns(h, a, m),
         NEW kept, Fit(kept, a[Len(m) + 1]), Alone(kept), NEW best \in 0 .. MaxScore,
         \A i \in 1 .. Len(kept) : ~IsImage(kept[i]) => kept[i].score >= best
  PROVE  FromTurns(h \o kept, a, Append(m, best))
<1>1. PICK turn : Turns(turn, h, a, m)
  BY DEF FromTurns
<1>2. PICK H \in Nat, K \in Nat, M \in Nat : H = Len(h) /\ K = Len(kept) /\ M = Len(m)
  BY FoundFields DEF Fit
<1>3. PICK all \in Seq(Found) : all = h \o kept
  <2>1. h \in Seq(Found) /\ kept \in Seq(Found)
    BY DEF Fit
  <2> HIDE DEF Found
  <2> QED
    BY <2>1, Joined
<1>4. /\ Len(all) = H + K /\ \A i \in 1 .. H : all[i] = h[i]
      /\ \A i \in 1 .. K : all[H + i] = kept[i]
  <2>1. h \in Seq(Found) /\ kept \in Seq(Found)
    BY DEF Fit
  <2> HIDE DEF Found
  <2> QED
    BY <1>2, <1>3, <2>1, Joined
<1>5. PICK more : more = Append(m, best)
  OBVIOUS
<1>6. /\ Len(more) = M + 1 /\ more[M + 1] = best /\ \A n \in 1 .. M : more[n] = m[n]
  BY <1>2, <1>5
<1>7. PICK when : when = [i \in 1 .. H + K |-> IF i <= H THEN turn[i] ELSE M + 1]
  OBVIOUS
<1>8. \A i \in 1 .. H : when[i] = turn[i] /\ when[i] \in 1 .. M /\ all[i] = h[i]
  <2>1. \A i \in 1 .. H : i \in 1 .. H + K /\ i <= H
    OBVIOUS
  <2> QED
    BY <1>1, <1>2, <1>4, <1>7, <2>1 DEF Turns
<1>9. \A i \in 1 .. H + K : i \in 1 .. H \/ (i - H \in 1 .. K /\ H + (i - H) = i)
  OBVIOUS
<1>10. \A i \in 1 .. H + K : i \notin 1 .. H => when[i] = M + 1 /\ all[i] = kept[i - H] /\ i - H \in 1 .. K
  <2> SUFFICES ASSUME NEW i \in 1 .. H + K, i \notin 1 .. H
               PROVE  when[i] = M + 1 /\ all[i] = kept[i - H] /\ i - H \in 1 .. K
    OBVIOUS
  <2>1. ~(i <= H) /\ i - H \in 1 .. K /\ H + (i - H) = i
    OBVIOUS
  <2>2. all[H + (i - H)] = kept[i - H]
    BY <1>4, <2>1
  <2> QED
    BY <1>7, <2>1, <2>2
<1>11. when \in [1 .. H + K -> 1 .. M + 1]
  <2>1. ASSUME NEW i \in 1 .. H + K PROVE when[i] \in 1 .. M + 1
    <3>1. CASE i \in 1 .. H
      <4>1. when[i] \in 1 .. M
        BY <1>8, <3>1
      <4> QED
        BY <4>1
    <3>2. CASE i \notin 1 .. H
      BY <1>10, <3>2
    <3> QED
      BY <3>1, <3>2
  <2> QED
    BY <1>7, <2>1
<1>12. \A i \in 1 .. H + K : a[when[i]] = KbOf[all[i].file]
  <2>1. \A i \in 1 .. H : a[when[i]] = KbOf[all[i].file]
    BY <1>1, <1>2, <1>8 DEF Turns
  <2>2. \A i \in 1 .. K : KbOf[kept[i].file] = a[M + 1]
    BY <1>2 DEF Fit
  <2> SUFFICES ASSUME NEW i \in 1 .. H + K PROVE a[when[i]] = KbOf[all[i].file]
    OBVIOUS
  <2>3. CASE i \in 1 .. H
    BY <2>1, <2>3
  <2>4. CASE i \notin 1 .. H
    <3>1. when[i] = M + 1 /\ all[i] = kept[i - H] /\ i - H \in 1 .. K
      BY <1>10, <2>4
    <3>2. KbOf[kept[i - H].file] = a[M + 1]
      BY <2>2, <3>1
    <3> QED
      BY <3>1, <3>2
  <2> QED
    BY <2>3, <2>4
<1>13. ASSUME NEW i \in 1 .. H + K, NEW j \in 1 .. H + K, i # j, when[i] = when[j]
       PROVE  /\ ~(all[i].file = all[j].file /\ all[i].data = all[j].data)
              /\ IsImage(all[i]) => IsImage(all[j]) /\ Keys(all[i]) \cap Keys(all[j]) = {}
  <2>1. CASE i \in 1 .. H
    <3>1. when[i] # M + 1
      BY <1>8, <2>1
    <3>2. j \in 1 .. H
      BY <1>10, <1>13, <3>1
    <3>3. turn[i] = turn[j]
      BY <1>8, <1>13, <2>1, <3>2
    <3>4. all[i] = h[i] /\ all[j] = h[j] /\ i \in 1 .. Len(h) /\ j \in 1 .. Len(h)
      BY <1>2, <1>8, <2>1, <3>2
    <3> QED
      BY <1>1, <1>13, <3>3, <3>4 DEF Turns
  <2>2. CASE i \notin 1 .. H
    <3>1. when[i] = M + 1
      BY <1>10, <2>2
    <3>2. j \notin 1 .. H
      <4>1. when[j] = M + 1
        BY <1>13, <3>1
      <4>2. j \in 1 .. H => when[j] \in 1 .. M
        BY <1>8
      <4> QED
        BY <4>1, <4>2
    <3>3. PICK x \in 1 .. K, y \in 1 .. K : x = i - H /\ y = j - H /\ x # y
      BY <1>10, <1>13, <2>2, <3>2
    <3>4. all[i] = kept[x] /\ all[j] = kept[y] /\ x \in 1 .. Len(kept) /\ y \in 1 .. Len(kept)
      BY <1>2, <1>10, <2>2, <3>2, <3>3
    <3>5. ~(kept[x].file = kept[y].file /\ kept[x].data = kept[y].data)
      BY <3>3, <3>4 DEF Fit
    <3>6. IsImage(kept[x]) => IsImage(kept[y]) /\ Keys(kept[x]) \cap Keys(kept[y]) = {}
      BY <3>3, <3>4 DEF Alone
    <3> QED
      BY <3>4, <3>5, <3>6
  <2> QED
    BY <2>1, <2>2
<1>14. \A i \in 1 .. H + K : ~IsImage(all[i]) => all[i].score >= more[when[i]]
  <2>1. ASSUME NEW i \in 1 .. H, ~IsImage(all[i]) PROVE all[i].score >= more[when[i]]
    <3>1. all[i] = h[i] /\ when[i] = turn[i] /\ more[when[i]] = m[turn[i]] /\ i \in 1 .. Len(h)
      BY <1>2, <1>6, <1>8
    <3>2. h[i].score >= m[turn[i]]
      BY <1>1, <2>1, <3>1 DEF Turns
    <3> QED
      BY <3>1, <3>2
  <2>2. ASSUME NEW i \in 1 .. H + K, i \notin 1 .. H, ~IsImage(all[i]) PROVE all[i].score >= more[when[i]]
    <3>1. all[i] = kept[i - H] /\ i - H \in 1 .. Len(kept) /\ more[when[i]] = best
      BY <1>2, <1>6, <1>10, <2>2
    <3> QED
      BY <2>2, <3>1
  <2> QED
    BY <2>1, <2>2
<1>15. Turns(when, all, a, more)
  <2>1. /\ when \in [1 .. Len(all) -> 1 .. Len(more)]
        /\ \A i \in 1 .. Len(all) : a[when[i]] = KbOf[all[i].file]
        /\ \A i \in 1 .. Len(all) : ~IsImage(all[i]) => all[i].score >= more[when[i]]
    BY <1>4, <1>6, <1>11, <1>12, <1>14
  <2>2. \A i, j \in 1 .. Len(all) : i # j /\ when[i] = when[j] =>
          /\ ~(all[i].file = all[j].file /\ all[i].data = all[j].data)
          /\ IsImage(all[i]) => IsImage(all[j]) /\ Keys(all[i]) \cap Keys(all[j]) = {}
    BY <1>4, <1>13
  <2> QED
    BY <2>1, <2>2, Zenon DEF Turns
<1> QED
  BY <1>3, <1>5, <1>15 DEF FromTurns

\* A search that fails finds nothing and leaves nothing out.
LEMMA TurnFails ==
  ASSUME NEW h \in Seq(Found), NEW a, NEW m \in Seq(0 .. MaxScore), FromTurns(h, a, m)
  PROVE  FromTurns(h, a, Append(m, 0))
<1>1. PICK turn : Turns(turn, h, a, m)
  BY DEF FromTurns
<1>2. PICK M \in Nat : M = Len(m)
  OBVIOUS
<1>3. PICK more : more = Append(m, 0)
  OBVIOUS
<1>4. Len(more) = M + 1 /\ \A n \in 1 .. M : more[n] = m[n]
  BY <1>2, <1>3
<1>5. \A i \in 1 .. Len(h) : turn[i] \in 1 .. M /\ turn[i] \in 1 .. M + 1
  BY <1>1, <1>2 DEF Turns
<1>6. turn \in [1 .. Len(h) -> 1 .. Len(more)]
  BY <1>1, <1>4, <1>5 DEF Turns
<1>7. \A i \in 1 .. Len(h) : ~IsImage(h[i]) => h[i].score >= more[turn[i]]
  BY <1>1, <1>4, <1>5 DEF Turns
<1>8. Turns(turn, h, a, more)
  BY <1>1, <1>6, <1>7, Zenon DEF Turns
<1> QED
  BY <1>3, <1>8 DEF FromTurns

\* Other orders of the hits come from the same searches.
LEMMA TurnsStay ==
  ASSUME NEW h \in Seq(Found), NEW a, NEW m, FromTurns(h, a, m),
         NEW t \in Seq(Found), Selection(t, h)
  PROVE  FromTurns(t, a, m)
<1>1. PICK turn : Turns(turn, h, a, m)
  BY DEF FromTurns
<1>2. PICK at : Picked(t, h, at)
  BY DEF Selection
<1>3. PICK when : when = [i \in 1 .. Len(t) |-> turn[at[i]]]
  OBVIOUS
<1>4. \A i \in 1 .. Len(t) : at[i] \in 1 .. Len(h) /\ t[i] = h[at[i]] /\ when[i] = turn[at[i]]
  BY <1>2, <1>3 DEF Picked
<1>5. when \in [1 .. Len(t) -> 1 .. Len(m)]
  <2>1. \A i \in 1 .. Len(h) : turn[i] \in 1 .. Len(m)
    BY <1>1 DEF Turns
  <2> QED
    BY <1>3, <1>4, <2>1
<1>6. \A i \in 1 .. Len(t) : a[when[i]] = KbOf[t[i].file]
  BY <1>1, <1>4 DEF Turns
<1>7. ASSUME NEW i \in 1 .. Len(t), NEW j \in 1 .. Len(t), i # j, when[i] = when[j]
      PROVE  /\ ~(t[i].file = t[j].file /\ t[i].data = t[j].data)
             /\ IsImage(t[i]) => IsImage(t[j]) /\ Keys(t[i]) \cap Keys(t[j]) = {}
  <2>1. at[i] # at[j]
    BY <1>2, <1>7 DEF Picked
  <2>2. PICK x \in 1 .. Len(h), y \in 1 .. Len(h) :
          x = at[i] /\ y = at[j] /\ t[i] = h[x] /\ t[j] = h[y] /\ turn[x] = turn[y] /\ x # y
    BY <1>4, <1>7, <2>1
  <2> QED
    BY <1>1, <2>2 DEF Turns
<1>8. \A i \in 1 .. Len(t) : ~IsImage(t[i]) => t[i].score >= m[when[i]]
  BY <1>1, <1>4 DEF Turns
<1>9. Turns(when, t, a, m)
  BY <1>5, <1>6, <1>7, <1>8, Zenon DEF Turns
<1> QED
  BY <1>9 DEF FromTurns

\* What a search leaves out is no better than the texts it keeps.
LEMMA MissedHolds ==
  ASSUME NEW found \in Seq(Found), NEW rest \in 0 .. MaxScore,
         \A i \in 1 .. Len(found) : rest <= found[i].score,
         NEW kept \in Seq(Found), Selection(kept, found), TextsKept(kept, found), NEW result,
         result.found = found, result.rest = rest
  PROVE  /\ BestMissed(result, kept) \in 0 .. MaxScore
         /\ \A i \in 1 .. Len(kept) : ~IsImage(kept[i]) => kept[i].score >= BestMissed(result, kept)
<1>1. PICK left : left = {i \in DOMAIN found : ~IsImage(found[i]) /\ found[i] \notin Range(kept)}
  OBVIOUS
<1>2. DOMAIN found = 1 .. Len(found) /\ DOMAIN kept = 1 .. Len(kept) /\ Len(found) \in Nat /\ Len(kept) \in Nat
  BY SeqHas
<1>3. PICK S : S = {rest} \cup {found[i].score : i \in left}
  OBVIOUS
<1>4. MaxScore \in Nat
  BY RetrievalAssumption
<1>5. S \in SUBSET (0 .. MaxScore) /\ S # {}
  <2>1. \A i \in left : found[i].score \in 0 .. MaxScore
    <3>1. \A i \in 1 .. Len(found) : found[i].score \in 1 .. MaxScore
      BY FoundFields
    <3> QED
      BY <1>1, <1>2, <3>1
  <2> QED
    BY <1>3, <2>1
<1>6. BestMissed(result, kept) = Max(S)
  BY <1>1, <1>3 DEF BestMissed
<1>7. Max(S) \in S
  BY <1>4, <1>5, MaxHolds
<1>8. ASSUME NEW i \in 1 .. Len(kept), ~IsImage(kept[i]) PROVE kept[i].score >= Max(S)
  <2>1. left = {}
    <3>1. \A j \in 1 .. Len(found) : ~IsImage(found[j]) => \E n \in 1 .. Len(kept) : kept[n] = found[j]
      BY <1>8 DEF TextsKept
    <3>2. \A n \in 1 .. Len(kept) : kept[n] \in Range(kept)
      BY <1>2 DEF Range
    <3> QED
      BY <1>1, <1>2, <3>1, <3>2
  <2>2. Max(S) = rest
    BY <1>3, <1>7, <2>1
  <2>3. PICK at : Picked(kept, found, at)
    BY DEF Selection
  <2>4. PICK j \in 1 .. Len(found) : kept[i] = found[j]
    BY <2>3 DEF Picked
  <2>5. rest <= found[j].score /\ found[j].score \in Nat
    BY FoundFields
  <2> QED
    BY <1>4, <2>2, <2>4, <2>5
<1> QED
  BY <1>5, <1>6, <1>7, <1>8

-----------------------------------------------------------------------------
(* The invariant.                                                           *)

DocsTyped == doc \in [Files -> [of : Docs \cup {NoDoc}, data : Nat, index : Nat]] /\ DocsHold

RequestTyped ==
  /\ phase \in {"idle", "search", "answered", "tested"}
  /\ asked \in Seq(Kbs) /\ Len(asked) <= MaxAsked
  /\ hits \in Seq(Found) /\ missed \in Seq(0 .. MaxScore)
  /\ Len(missed) <= Len(asked)
  /\ phase \in {"answered", "tested"} => Len(missed) = Len(asked)
  /\ phase = "idle" => asked = <<>> /\ hits = <<>> /\ missed = <<>>
  /\ Len(hits) <= TopK * Len(missed)

\* Every hit comes from one of the searches; an answer is sorted.
Retrieved ==
  /\ FromTurns(hits, asked, missed)
  /\ phase \in {"answered", "tested"} => Sorted(hits)

\* A link is opened under an answer.
LinkTyped ==
  /\ opened.citation \in 0 .. Len(hits)
  /\ phase # "answered" => opened = NotOpened

RagInv == DocsTyped /\ RequestTyped /\ Retrieved /\ LinkTyped /\ imports \in 0 .. MaxImports

\* It holds at the beginning.
LEMMA RagInvStarts == Init => RagInv
<1> SUFFICES ASSUME Init PROVE RagInv
  OBVIOUS
<1>0. MaxScore \in Nat /\ MaxAsked \in Nat /\ MaxImports \in Nat /\ TopK \in Nat
  BY RetrievalAssumption
<1>1. ASSUME NEW f \in Files
      PROVE  /\ doc[f] \in [of : Docs \cup {NoDoc}, data : Nat, index : Nat]
             /\ doc[f].index <= doc[f].data
             /\ doc[f].of = NoDoc => doc[f].data = 0
             /\ doc[f].of # NoDoc => doc[f].data <= Len(Records[doc[f].of])
  <2>1. CASE doc[f] = NoRows(NoDoc)
    BY <2>1 DEF NoRows
  <2>2. ASSUME NEW d \in Docs, doc[f] = AllRows(d)
        PROVE  /\ doc[f] \in [of : Docs \cup {NoDoc}, data : Nat, index : Nat]
               /\ doc[f].index <= doc[f].data
               /\ doc[f].of = NoDoc => doc[f].data = 0
               /\ doc[f].of # NoDoc => doc[f].data <= Len(Records[doc[f].of])
    <3>1. PICK L \in Nat : L = Len(Records[d])
      <4>1. Records[d] \in Seq(Rows)
        BY RecordsHold
      <4> QED
        BY <4>1
    <3>2. doc[f] = [of |-> d, data |-> L, index |-> L]
      BY <2>2, <3>1 DEF AllRows
    <3>3. d # NoDoc
      BY RetrievalAssumption
    <3> QED
      BY <3>1, <3>2, <3>3
  <2> QED
    BY <2>1, <2>2 DEF Init
<1>2. DocsTyped
  <2>1. DOMAIN doc = Files /\ doc = [f \in Files |-> doc[f]]
    BY DEF Init
  <2>2. doc \in [Files -> [of : Docs \cup {NoDoc}, data : Nat, index : Nat]]
    BY <1>1, <2>1
  <2>3. \A f \in Files : doc[f].of \in Docs \cup {NoDoc} /\ doc[f].data \in Nat /\ doc[f].index \in Nat
    BY <2>2
  <2> QED
    BY <1>1, <2>2, <2>3 DEF DocsTyped, DocsHold
<1>3. /\ phase = "idle" /\ asked = <<>> /\ hits = <<>> /\ missed = <<>> /\ opened = NotOpened /\ imports = 0
      /\ Len(asked) = 0 /\ Len(hits) = 0 /\ Len(missed) = 0
  BY DEF Init
<1>4. /\ asked \in Seq(Kbs) /\ hits \in Seq(Found) /\ missed \in Seq(0 .. MaxScore)
  <2>1. \A X : <<>> \in Seq(X)
    OBVIOUS
  <2> QED
    BY <1>3, <2>1
<1>5. RequestTyped
  BY <1>0, <1>3, <1>4 DEF RequestTyped
<1>6. \A i \in 1 .. Len(hits) : FALSE
  BY <1>3
<1>7. FromTurns(hits, asked, missed)
  <2>1. PICK turn : turn = [i \in 1 .. Len(hits) |-> i]
    OBVIOUS
  <2>2. turn \in [1 .. Len(hits) -> 1 .. Len(missed)]
    BY <1>6, <2>1
  <2>3. Turns(turn, hits, asked, missed)
    BY <1>6, <2>2, Zenon DEF Turns
  <2> QED
    BY <2>3 DEF FromTurns
<1>8. Retrieved
  BY <1>3, <1>7 DEF Retrieved
<1>9. LinkTyped
  BY <1>3 DEF LinkTyped, NotOpened
<1> QED
  BY <1>0, <1>2, <1>3, <1>5, <1>8, <1>9 DEF RagInv

\* The request stays as it is: hits keep their searches.
LEMMA RequestStays ==
  ASSUME RequestTyped, Retrieved, LinkTyped, UNCHANGED requestVars
  PROVE  RequestTyped' /\ Retrieved' /\ LinkTyped'
<1>1. /\ phase' = phase /\ asked' = asked /\ hits' = hits /\ missed' = missed /\ opened' = opened
  BY DEF requestVars
<1>2. RequestTyped'
  BY <1>1 DEF RequestTyped
<1>3. Retrieved'
  BY <1>1 DEF Retrieved
<1>4. LinkTyped'
  BY <1>1 DEF LinkTyped
<1> QED
  BY <1>2, <1>3, <1>4

\* One file's rows change to rows of its document.
LEMMA DocChanges ==
  ASSUME DocsTyped, NEW f \in Files, NEW e \in [of : Docs \cup {NoDoc}, data : Nat, index : Nat],
         e.index <= e.data, e.of = NoDoc => e.data = 0, e.of # NoDoc => e.data <= Len(Records[e.of]),
         doc' = [doc EXCEPT ![f] = e]
  PROVE  DocsTyped'
<1>1. doc' \in [Files -> [of : Docs \cup {NoDoc}, data : Nat, index : Nat]]
  BY DEF DocsTyped
<1>2. PICK after : after = doc'
  OBVIOUS
<1>3. \A g \in Files : after[g] = IF g = f THEN e ELSE doc[g]
  BY <1>2 DEF DocsTyped
<1>4. ASSUME NEW g \in Files
      PROVE  /\ after[g].of \in Docs \cup {NoDoc}
             /\ after[g].data \in Nat /\ after[g].index \in Nat /\ after[g].index <= after[g].data
             /\ after[g].of = NoDoc => after[g].data = 0
             /\ after[g].of # NoDoc => after[g].data <= Len(Records[after[g].of])
  <2>1. CASE g = f
    BY <1>3, <2>1
  <2>2. CASE g # f
    <3>1. after[g] = doc[g]
      BY <1>3, <2>2
    <3> QED
      BY <3>1, Zenon DEF DocsTyped, DocsHold
  <2> QED
    BY <2>1, <2>2
<1> QED
  BY <1>1, <1>2, <1>4, Zenon DEF DocsTyped, DocsHold

\* Imports and deletions keep it.
LEMMA DocSteps ==
  ASSUME RagInv, NEW f \in Files, StoreData(f) \/ StoreIndex(f) \/ \E d \in Docs \cup {NoDoc} : Clear(f, d)
  PROVE  RagInv'
<1>1. PICK e \in [of : Docs \cup {NoDoc}, data : Nat, index : Nat] : e = doc[f]
  BY DEF RagInv, DocsTyped
<1>2. /\ e.index <= e.data /\ (e.of = NoDoc => e.data = 0)
      /\ e.of # NoDoc => e.data <= Len(Records[e.of]) /\ Len(Records[e.of]) \in Nat
  <2>1. ASSUME e.of # NoDoc PROVE Len(Records[e.of]) \in Nat
    <3>1. e.of \in Docs
      BY <2>1
    <3>2. Records[e.of] \in Seq(Rows)
      BY <3>1, RecordsHold
    <3> QED
      BY <3>2
  <2> QED
    BY <1>1, <2>1 DEF RagInv, DocsTyped, DocsHold
<1>3. CASE StoreData(f)
  <2>1. /\ e.of # NoDoc /\ e.data < Len(Records[e.of]) /\ doc' = [doc EXCEPT ![f].data = @ + 1]
        /\ UNCHANGED requestVars /\ imports' = imports
    BY <1>1, <1>3 DEF StoreData
  <2>2. PICK x : x = [of |-> e.of, data |-> e.data + 1, index |-> e.index]
    OBVIOUS
  <2>3. [e EXCEPT !.data = @ + 1] = x
    BY <2>2
  <2>4. doc' = [doc EXCEPT ![f] = x]
    BY <1>1, <2>1, <2>3 DEF RagInv, DocsTyped
  <2>5. x \in [of : Docs \cup {NoDoc}, data : Nat, index : Nat]
    BY <2>2
  <2>6. x.index <= x.data /\ x.of # NoDoc /\ x.data <= Len(Records[x.of])
    BY <1>2, <2>1, <2>2
  <2>7. DocsTyped'
    BY <2>4, <2>5, <2>6, DocChanges DEF RagInv
  <2> QED
    BY <2>1, <2>7, RequestStays DEF RagInv
<1>4. CASE StoreIndex(f)
  <2>1. /\ e.of # NoDoc /\ e.index < e.data /\ doc' = [doc EXCEPT ![f].index = @ + 1]
        /\ UNCHANGED requestVars /\ imports' = imports
    BY <1>1, <1>4 DEF StoreIndex
  <2>2. PICK x : x = [of |-> e.of, data |-> e.data, index |-> e.index + 1]
    OBVIOUS
  <2>3. [e EXCEPT !.index = @ + 1] = x
    BY <2>2
  <2>4. doc' = [doc EXCEPT ![f] = x]
    BY <1>1, <2>1, <2>3 DEF RagInv, DocsTyped
  <2>5. x \in [of : Docs \cup {NoDoc}, data : Nat, index : Nat]
    BY <2>2
  <2>6. x.index <= x.data /\ x.of # NoDoc /\ x.data <= Len(Records[x.of])
    BY <1>2, <2>1, <2>2
  <2>7. DocsTyped'
    BY <2>4, <2>5, <2>6, DocChanges DEF RagInv
  <2> QED
    BY <2>1, <2>7, RequestStays DEF RagInv
<1>5. ASSUME NEW d \in Docs \cup {NoDoc}, Clear(f, d) PROVE RagInv'
  <2>1. /\ imports < MaxImports /\ imports' = imports + 1 /\ doc' = [doc EXCEPT ![f] = NoRows(d)]
        /\ UNCHANGED requestVars
    BY <1>5 DEF Clear
  <2>2. PICK x : x = NoRows(d) /\ x = [of |-> d, data |-> 0, index |-> 0]
    BY DEF NoRows
  <2>3. x \in [of : Docs \cup {NoDoc}, data : Nat, index : Nat]
    BY <2>2
  <2>4. x.index <= x.data /\ x.data = 0 /\ (x.of # NoDoc => x.data <= Len(Records[x.of]))
    <3>1. ASSUME d \in Docs PROVE Len(Records[d]) \in Nat
      <4>1. Records[d] \in Seq(Rows)
        BY <3>1, RecordsHold
      <4> QED
        BY <4>1
    <3> QED
      BY <2>2, <3>1
  <2>5. DocsTyped'
    BY <2>1, <2>2, <2>3, <2>4, DocChanges DEF RagInv
  <2>6. imports' \in 0 .. MaxImports
    BY <2>1, RetrievalAssumption DEF RagInv
  <2> QED
    BY <2>1, <2>5, <2>6, RequestStays DEF RagInv
<1> QED
  BY <1>3, <1>4, <1>5

\* A question keeps it.
LEMMA AskSteps ==
  ASSUME RagInv, NEW n \in 1 .. MaxAsked, NEW kbs \in [1 .. n -> Kbs], Ask(kbs)
  PROVE  RagInv'
<1>1. /\ phase = "idle" /\ phase' = "search" /\ asked' = kbs
      /\ doc' = doc /\ hits' = hits /\ missed' = missed /\ opened' = opened /\ imports' = imports
  BY DEF Ask
<1>2. /\ hits = <<>> /\ missed = <<>> /\ Len(hits) = 0 /\ Len(missed) = 0 /\ opened = NotOpened
  BY <1>1 DEF RagInv, RequestTyped, LinkTyped
<1>3. n \in Nat /\ n <= MaxAsked /\ kbs \in Seq(Kbs) /\ Len(kbs) = n
  <2>1. n \in Nat /\ n <= MaxAsked
    BY RetrievalAssumption
  <2> QED
    BY <2>1, MakesSeq
<1>4. DocsTyped'
  BY <1>1 DEF RagInv, DocsTyped, DocsHold
<1>5. RequestTyped'
  BY <1>1, <1>2, <1>3 DEF RagInv, RequestTyped
<1>6. FromTurns(hits, kbs, missed)
  <2>1. PICK turn : turn = [i \in 1 .. Len(hits) |-> i]
    OBVIOUS
  <2>2. \A i \in 1 .. Len(hits) : FALSE
    BY <1>2
  <2>3. turn \in [1 .. Len(hits) -> 1 .. Len(missed)]
    BY <2>1, <2>2
  <2>4. Turns(turn, hits, kbs, missed)
    BY <2>2, <2>3, Zenon DEF Turns
  <2> QED
    BY <2>4 DEF FromTurns
<1>7. Retrieved'
  BY <1>1, <1>6 DEF Retrieved
<1>8. LinkTyped'
  BY <1>1 DEF RagInv, LinkTyped
<1> QED
  BY <1>1, <1>4, <1>5, <1>7, <1>8 DEF RagInv

\* k hits of each search are k times as many.
LEMMA TurnsOfAll ==
  \A t, a, b \in Nat : /\ t * (a + 1) = t * a + t /\ t * a \in Nat
                       /\ a <= b => t * a <= t * b
<1> SUFFICES ASSUME NEW t \in Nat, NEW a \in Nat, NEW b \in Nat
             PROVE  t * (a + 1) = t * a + t /\ t * a \in Nat /\ (a <= b => t * a <= t * b)
  OBVIOUS
<1>1. t * (a + 1) = t * a + t /\ t * a \in Nat
  OBVIOUS
<1>2. ASSUME a <= b PROVE t * a <= t * b
  <2>1. PICK c \in Nat : b = a + c
    <3>1. b - a \in Nat /\ b = a + (b - a)
      BY <1>2
    <3> QED
      BY <3>1
  <2>2. t * (a + c) = t * a + t * c /\ t * c \in Nat /\ t * a \in Nat
    OBVIOUS
  <2> QED
    BY <2>1, <2>2
<1> QED
  BY <1>1, <1>2

\* A search keeps it.
LEMMA SearchSteps ==
  ASSUME RagInv, Search
  PROVE  RagInv'
<1>0. TopK \in Nat /\ MaxScore \in Nat
  BY RetrievalAssumption
<1>1. PICK M \in Nat : /\ M = Len(missed) /\ M + 1 <= Len(asked) /\ M <= Len(asked) /\ Len(asked) \in Nat
  BY DEF RagInv, RequestTyped, Search, Turn
<1>2. PICK k : k = asked[M + 1]
  OBVIOUS
<1>3. PICK result \in SearchData(KbRows(k), TopK) :
        /\ hits' = hits \o Postprocess(result.found, TopK)
        /\ missed' = Append(missed, BestMissed(result, Postprocess(result.found, TopK)))
  BY <1>1, <1>2, Zenon DEF Search, Turn
<1>4. /\ phase = "search" /\ phase' = phase /\ doc' = doc /\ asked' = asked /\ opened' = opened /\ imports' = imports
  BY DEF Search
<1>5. PICK found, rest : found = result.found /\ rest = result.rest
  OBVIOUS
<1>6. Fit(found, k) /\ rest \in 0 .. MaxScore /\ \A i \in 1 .. Len(found) : rest <= found[i].score
  BY <1>3, <1>5, FoundHolds DEF RagInv, DocsTyped
<1>7. PICK kept : kept = Postprocess(found, TopK)
  OBVIOUS
<1>8. Fit(kept, k) /\ Selection(kept, found) /\ Alone(kept) /\ TextsKept(kept, found)
  BY <1>6, <1>7, PostHolds
<1>9. PICK best : best = BestMissed(result, kept)
  OBVIOUS
<1>10. /\ best \in 0 .. MaxScore
       /\ \A i \in 1 .. Len(kept) : ~IsImage(kept[i]) => kept[i].score >= best
  BY <1>5, <1>6, <1>8, <1>9, MissedHolds DEF Fit
<1>11. hits' = hits \o kept /\ missed' = Append(missed, best)
  BY <1>3, <1>5, <1>7, <1>9
<1>12. hits \in Seq(Found) /\ missed \in Seq(0 .. MaxScore) /\ FromTurns(hits, asked, missed)
  BY DEF RagInv, RequestTyped, Retrieved
<1>13. FromTurns(hits', asked, missed')
  <2>1. Fit(kept, asked[Len(missed) + 1])
    BY <1>1, <1>2, <1>8
  <2>2. FromTurns(hits \o kept, asked, Append(missed, best))
    BY <1>8, <1>10, <1>12, <2>1, TurnAdds
  <2> QED
    BY <1>11, <2>2
<1>14. missed' \in Seq(0 .. MaxScore) /\ Len(missed') = M + 1
  BY <1>1, <1>10, <1>11, <1>12
<1>15. hits' \in Seq(Found) /\ Len(hits') = Len(hits) + Len(kept)
  <2>1. kept \in Seq(Found)
    BY <1>8 DEF Fit
  <2> HIDE DEF Found
  <2> QED
    BY <1>11, <1>12, <2>1, Joined
<1>16. Len(hits') <= TopK * (M + 1)
  <2>1. Len(hits) <= TopK * M /\ Len(kept) <= TopK
    BY <1>1, <1>8 DEF RagInv, RequestTyped, Fit
  <2>2. PICK a \in Nat, b \in Nat, c \in Nat : a = Len(hits) /\ b = Len(kept) /\ c = TopK * M
    BY <1>0, <1>8, <1>12, FoundFields, TurnsOfAll DEF Fit
  <2>3. TopK * (M + 1) = c + TopK
    BY <1>0, <2>2, TurnsOfAll
  <2>4. Len(hits') = a + b /\ a <= c /\ b <= TopK
    BY <1>15, <2>1, <2>2
  <2> QED
    BY <1>0, <2>3, <2>4
<1>17. RequestTyped'
  BY <1>1, <1>4, <1>14, <1>15, <1>16 DEF RagInv, RequestTyped
<1>18. Retrieved'
  BY <1>4, <1>13 DEF Retrieved
<1>19. LinkTyped'
  <2>1. opened = NotOpened
    BY <1>4 DEF RagInv, LinkTyped
  <2>2. Len(hits') \in Nat
    BY <1>15, FoundFields
  <2> QED
    BY <1>4, <2>1, <2>2 DEF LinkTyped, NotOpened
<1>20. DocsTyped'
  BY <1>4 DEF RagInv, DocsTyped, DocsHold
<1> QED
  BY <1>4, <1>17, <1>18, <1>19, <1>20 DEF RagInv

\* A search that fails keeps it.
LEMMA SearchFailsSteps ==
  ASSUME RagInv, SearchFails
  PROVE  RagInv'
<1>1. PICK M \in Nat : /\ M = Len(missed) /\ M + 1 <= Len(asked) /\ Len(asked) \in Nat
  BY DEF RagInv, RequestTyped, SearchFails, Turn
<1>2. /\ phase = "search" /\ missed' = Append(missed, 0) /\ phase' = phase /\ doc' = doc /\ asked' = asked
      /\ hits' = hits /\ opened' = opened /\ imports' = imports
  BY DEF SearchFails
<1>3. 0 \in 0 .. MaxScore /\ TopK \in Nat
  BY RetrievalAssumption
<1>4. hits \in Seq(Found) /\ missed \in Seq(0 .. MaxScore) /\ FromTurns(hits, asked, missed)
  BY DEF RagInv, RequestTyped, Retrieved
<1>5. missed' \in Seq(0 .. MaxScore) /\ Len(missed') = M + 1
  BY <1>1, <1>2, <1>3, <1>4
<1>6. Len(hits) <= TopK * (M + 1)
  <2>1. Len(hits) <= TopK * M
    BY <1>1 DEF RagInv, RequestTyped
  <2>2. PICK a \in Nat, c \in Nat : a = Len(hits) /\ c = TopK * M
    BY <1>3, <1>4, FoundFields, TurnsOfAll
  <2>3. TopK * (M + 1) = c + TopK
    BY <1>3, <2>2, TurnsOfAll
  <2> QED
    BY <1>3, <2>1, <2>2, <2>3
<1>7. RequestTyped'
  BY <1>1, <1>2, <1>5, <1>6 DEF RagInv, RequestTyped
<1>8. Retrieved'
  <2>1. FromTurns(hits, asked, Append(missed, 0))
    BY <1>4, TurnFails
  <2> QED
    BY <1>2, <2>1 DEF Retrieved
<1>9. LinkTyped'
  BY <1>2 DEF RagInv, LinkTyped
<1>10. DocsTyped'
  BY <1>2 DEF RagInv, DocsTyped, DocsHold
<1> QED
  BY <1>2, <1>7, <1>8, <1>9, <1>10 DEF RagInv

\* The answer keeps it.
LEMMA AnswerSteps ==
  ASSUME RagInv, Answer
  PROVE  RagInv'
<1>0. TopK \in Nat \ {0}
  BY RetrievalAssumption
<1>1. PICK M \in Nat : M = Len(missed) /\ Len(asked) = M
  BY DEF RagInv, RequestTyped, Answer, Turn
<1>2. /\ phase = "search" /\ phase' = "answered" /\ hits' = Top(ByScore(hits), TopK * Max({Len(asked), 1}))
      /\ doc' = doc /\ asked' = asked /\ missed' = missed /\ opened' = opened /\ imports' = imports
  BY DEF Answer
<1>3. hits \in Seq(Found) /\ missed \in Seq(0 .. MaxScore) /\ FromTurns(hits, asked, missed)
  BY DEF RagInv, RequestTyped, Retrieved
<1>4. PICK t \in Seq(Found) : t = ByScore(hits) /\ Len(t) = Len(hits) /\ Selection(t, hits) /\ Sorted(t)
  BY <1>3, SortedFound
<1>5. PICK most \in Nat : most = Max({M, 1}) /\ M <= most
  <2>1. PICK B \in Nat : M <= B /\ 1 <= B
    <3>1. M <= M + 1 /\ 1 <= M + 1 /\ M + 1 \in Nat
      OBVIOUS
    <3> QED
      BY <3>1
  <2>2. {M, 1} \in SUBSET (0 .. B) /\ {M, 1} # {}
    BY <2>1
  <2>3. Max({M, 1}) \in {M, 1} /\ \A y \in {M, 1} : Max({M, 1}) >= y
    BY <2>2, MaxHolds
  <2> QED
    BY <2>3
<1>6. Len(t) <= TopK * most /\ TopK * most \in Nat
  <2>1. Len(hits) <= TopK * M
    BY <1>1 DEF RagInv, RequestTyped
  <2>2. PICK a \in Nat, c \in Nat, e \in Nat : a = Len(hits) /\ c = TopK * M /\ e = TopK * most /\ c <= e
    <3>1. TopK \in Nat /\ Len(hits) \in Nat
      BY <1>0, <1>3, FoundFields
    <3>2. TopK * M \in Nat /\ TopK * most \in Nat /\ TopK * M <= TopK * most
      BY <1>5, <3>1, TurnsOfAll
    <3> QED
      BY <3>1, <3>2
  <2> QED
    BY <1>4, <2>1, <2>2
<1>7. hits' = t
  <2>1. hits' = Top(t, TopK * most)
    BY <1>1, <1>2, <1>4, <1>5
  <2> QED
    BY <1>6, <2>1, TopIsAll
<1>8. RequestTyped'
  BY <1>1, <1>2, <1>4, <1>7 DEF RagInv, RequestTyped
<1>9. Retrieved'
  <2>1. FromTurns(t, asked, missed)
    BY <1>3, <1>4, TurnsStay
  <2> QED
    BY <1>2, <1>4, <1>7, <2>1 DEF Retrieved
<1>10. LinkTyped'
  <2>1. opened = NotOpened
    BY <1>2 DEF RagInv, LinkTyped
  <2>2. Len(t) \in Nat
    BY FoundFields
  <2> QED
    BY <1>2, <1>7, <2>1, <2>2 DEF LinkTyped, NotOpened
<1>11. DocsTyped'
  BY <1>2 DEF RagInv, DocsTyped, DocsHold
<1> QED
  BY <1>2, <1>8, <1>9, <1>10, <1>11 DEF RagInv

\* A hit test keeps it.
LEMMA HitTestSteps ==
  ASSUME RagInv, NEW k \in Kbs, NEW fs \in SUBSET FilesOf(k), HitTest(k, fs)
  PROVE  RagInv'
<1>0. TopK \in Nat /\ MaxScore \in Nat /\ MaxAsked >= 1
  BY RetrievalAssumption
<1>a. PICK result \in SearchData(KbRows(k), TopK) : \E chosen, kept :
        /\ chosen = Only(result.found, Wanted(result.found, fs))
        /\ kept = Postprocess(chosen, TopK)
        /\ hits' = kept /\ missed' = <<BestMissed([result EXCEPT !.found = chosen], kept)>>
  BY Zenon DEF HitTest
<1>1. PICK chosen, kept :
        /\ chosen = Only(result.found, Wanted(result.found, fs))
        /\ kept = Postprocess(chosen, TopK)
        /\ hits' = kept /\ missed' = <<BestMissed([result EXCEPT !.found = chosen], kept)>>
  BY <1>a, Zenon
<1>2. /\ phase = "idle" /\ phase' = "tested" /\ asked' = <<k>> /\ doc' = doc /\ opened' = opened /\ imports' = imports
  BY DEF HitTest
<1>3. PICK found, rest : found = result.found /\ rest = result.rest
  OBVIOUS
<1>4. Fit(found, k) /\ rest \in 0 .. MaxScore /\ \A i \in 1 .. Len(found) : rest <= found[i].score
  BY <1>1, <1>3, FoundHolds DEF RagInv, DocsTyped
<1>5. /\ chosen \in Seq(Found) /\ Len(chosen) <= Len(found) /\ Selection(chosen, found)
      /\ \A i \in 1 .. Len(chosen) : rest <= chosen[i].score
  <2>1. found \in Seq(Found) /\ DOMAIN found = 1 .. Len(found) /\ Len(found) \in Nat
    BY <1>4, SeqHas DEF Fit
  <2>2. PICK places \in SUBSET (1 .. Len(found)) : places = Wanted(found, fs)
    BY <2>1 DEF Wanted
  <2>3. chosen = Only(found, places)
    BY <1>1, <1>3, <2>2
  <2>4. PICK N \in Nat : \E at \in [1 .. N -> places] :
          /\ chosen = [n \in 1 .. N |-> found[at[n]]]
          /\ chosen \in Seq(Found) /\ Len(chosen) = N /\ N <= Len(found)
          /\ \A i \in places : \E n \in 1 .. N : at[n] = i
          /\ \A m, n \in 1 .. N : m < n <=> at[m] < at[n]
    <3>1. \E N \in Nat : \E at \in [1 .. N -> places] :
            /\ Only(found, places) = [n \in 1 .. N |-> found[at[n]]]
            /\ Only(found, places) \in Seq(Found) /\ Len(Only(found, places)) = N /\ N <= Len(found)
            /\ \A i \in places : \E n \in 1 .. N : at[n] = i
            /\ \A m, n \in 1 .. N : m < n <=> at[m] < at[n]
      BY <2>1, OnlyHolds
    <3> QED
      BY <2>3, <3>1
  <2>5. PICK at \in [1 .. N -> places] :
          /\ chosen = [n \in 1 .. N |-> found[at[n]]]
          /\ chosen \in Seq(Found) /\ Len(chosen) = N /\ N <= Len(found)
          /\ \A m, n \in 1 .. N : m < n <=> at[m] < at[n]
    BY <2>4
  <2>6. \A i \in 1 .. N : at[i] \in 1 .. Len(found) /\ chosen[i] = found[at[i]] /\ at[i] \in Nat
    <3>1. \A i \in 1 .. N : at[i] \in places
      BY <2>5
    <3>2. \A x \in places : x \in 1 .. Len(found) /\ x \in Nat
      BY <2>1
    <3> QED
      BY <2>5, <3>1, <3>2
  <2>7. \A i, j \in 1 .. N : at[i] = at[j] => i = j
    <3> SUFFICES ASSUME NEW i \in 1 .. N, NEW j \in 1 .. N, at[i] = at[j] PROVE i = j
      OBVIOUS
    <3>1. ~(i < j) /\ ~(j < i)
      BY <2>5, <2>6
    <3> QED
      BY <3>1
  <2>8. Picked(chosen, found, at)
    <3>1. at \in [1 .. N -> 1 .. Len(found)]
      BY <2>5, <2>6
    <3> QED
      BY <2>5, <2>6, <2>7, <3>1 DEF Picked
  <2> QED
    BY <1>4, <2>5, <2>6, <2>8 DEF Selection
<1>6. Fit(chosen, k)
  BY <1>4, <1>5, SelectionFits
<1>7. Fit(kept, k) /\ Selection(kept, chosen) /\ Sorted(kept) /\ Alone(kept) /\ TextsKept(kept, chosen)
  BY <1>1, <1>6, PostHolds
<1>8. PICK other : other = [result EXCEPT !.found = chosen]
  OBVIOUS
<1>9. other.found = chosen /\ other.rest = rest
  BY <1>1, <1>3, <1>8
<1>10. PICK best : best = BestMissed(other, kept)
  OBVIOUS
<1>11. /\ best \in 0 .. MaxScore
       /\ \A i \in 1 .. Len(kept) : ~IsImage(kept[i]) => kept[i].score >= best
  BY <1>4, <1>5, <1>7, <1>9, <1>10, MissedHolds DEF Fit
<1>12. missed' = <<best>> /\ hits' = kept
  BY <1>1, <1>8, <1>10
<1>13. kept \in Seq(Found) /\ Len(kept) <= TopK /\ Len(kept) \in Nat
  BY <1>7, FoundFields DEF Fit
<1>14. FromTurns(kept, <<k>>, <<best>>)
  <2>1. PICK turn : turn = [i \in 1 .. Len(kept) |-> 1]
    OBVIOUS
  <2>2. turn \in [1 .. Len(kept) -> 1 .. 1] /\ \A i \in 1 .. Len(kept) : turn[i] = 1
    BY <2>1
  <2>3. Len(<<best>>) = 1 /\ <<best>>[1] = best /\ <<k>>[1] = k
    OBVIOUS
  <2>4. PICK a, m : a = <<k>> /\ m = <<best>> /\ a[1] = k /\ m[1] = best /\ Len(m) = 1
    BY <2>3
  <2>5. \A i \in 1 .. Len(kept) : a[turn[i]] = KbOf[kept[i].file]
    BY <1>7, <2>2, <2>4 DEF Fit
  <2>6. \A i, j \in 1 .. Len(kept) : i # j /\ turn[i] = turn[j] =>
          /\ ~(kept[i].file = kept[j].file /\ kept[i].data = kept[j].data)
          /\ IsImage(kept[i]) => IsImage(kept[j]) /\ Keys(kept[i]) \cap Keys(kept[j]) = {}
    BY <1>7 DEF Fit, Alone
  <2>7. \A i \in 1 .. Len(kept) : ~IsImage(kept[i]) => kept[i].score >= m[turn[i]]
    BY <1>11, <2>2, <2>4
  <2>8. Turns(turn, kept, a, m)
    BY <2>2, <2>4, <2>5, <2>6, <2>7, Zenon DEF Turns
  <2> QED
    BY <2>4, <2>8 DEF FromTurns
<1>15. RequestTyped'
  <2>1. asked' \in Seq(Kbs) /\ Len(asked') = 1 /\ missed' \in Seq(0 .. MaxScore) /\ Len(missed') = 1
    BY <1>2, <1>11, <1>12
  <2>2. TopK * 1 = TopK
    BY <1>0
  <2> QED
    BY <1>0, <1>2, <1>12, <1>13, <2>1, <2>2 DEF RequestTyped
<1>16. Retrieved'
  BY <1>2, <1>7, <1>12, <1>14 DEF Retrieved
<1>17. LinkTyped'
  <2>1. opened = NotOpened
    BY <1>2 DEF RagInv, LinkTyped
  <2> QED
    BY <1>2, <1>12, <1>13, <2>1 DEF LinkTyped, NotOpened
<1>18. DocsTyped'
  BY <1>2 DEF RagInv, DocsTyped, DocsHold
<1> QED
  BY <1>2, <1>15, <1>16, <1>17, <1>18 DEF RagInv

\* An opened link keeps it.
LEMMA OpenSteps ==
  ASSUME RagInv, NEW c, NEW context, Open(c, context)
  PROVE  RagInv'
<1>1. /\ phase = "answered" /\ c \in DOMAIN hits /\ opened'.citation = c
      /\ doc' = doc /\ phase' = phase /\ asked' = asked /\ hits' = hits /\ missed' = missed /\ imports' = imports
  BY DEF Open
<1>2. c \in 0 .. Len(hits)
  <2>1. hits \in Seq(Found)
    BY DEF RagInv, RequestTyped
  <2>2. DOMAIN hits = 1 .. Len(hits)
    BY <2>1, SeqHas
  <2> QED
    BY <1>1, <2>2
<1>3. LinkTyped'
  BY <1>1, <1>2 DEF LinkTyped
<1>4. RequestTyped'
  BY <1>1 DEF RagInv, RequestTyped
<1>5. Retrieved'
  BY <1>1 DEF RagInv, Retrieved
<1>6. DocsTyped'
  BY <1>1 DEF RagInv, DocsTyped, DocsHold
<1> QED
  BY <1>1, <1>3, <1>4, <1>5, <1>6 DEF RagInv

\* Every step keeps it.
LEMMA RagInvStays ==
  RagInv /\ [Next]_vars => RagInv'
<1> SUFFICES ASSUME RagInv, [Next]_vars PROVE RagInv'
  OBVIOUS
<1>1. CASE \E f \in Files : StoreData(f) \/ StoreIndex(f) \/ \E d \in Docs \cup {NoDoc} : Clear(f, d)
  BY <1>1, DocSteps
<1>2. CASE \E n \in 1 .. MaxAsked : \E kbs \in [1 .. n -> Kbs] : Ask(kbs)
  BY <1>2, AskSteps
<1>3. CASE Search \/ SearchFails \/ Answer
  BY <1>3, SearchSteps, SearchFailsSteps, AnswerSteps
<1>4. CASE \E k \in Kbs : \E fs \in SUBSET FilesOf(k) : HitTest(k, fs)
  BY <1>4, HitTestSteps
<1>5. CASE \E c \in 1 .. MaxAsked * TopK, context \in 0 .. 1 : Open(c, context)
  BY <1>5, OpenSteps
<1>6. CASE UNCHANGED vars
  <2>1. UNCHANGED requestVars /\ doc' = doc /\ imports' = imports
    BY <1>6 DEF vars, requestVars
  <2>2. DocsTyped'
    BY <2>1 DEF RagInv, DocsTyped, DocsHold
  <2> QED
    BY <2>1, <2>2, RequestStays DEF RagInv
<1> QED
  BY <1>1, <1>2, <1>3, <1>4, <1>5, <1>6 DEF Next

-----------------------------------------------------------------------------
(* The properties.                                                          *)

\* It has the types.
LEMMA RagInvIsTypeOK == RagInv => TypeOK
<1> SUFFICES ASSUME RagInv PROVE TypeOK
  OBVIOUS
<1>0. TopK \in Nat
  BY RetrievalAssumption
<1>1. \A f \in Files : /\ doc[f].of \in Docs \cup {NoDoc} /\ doc[f].index <= doc[f].data
                       /\ doc[f].data <= IF doc[f].of = NoDoc THEN 0 ELSE Len(Records[doc[f].of])
  <2> SUFFICES ASSUME NEW f \in Files
               PROVE  /\ doc[f].of \in Docs \cup {NoDoc} /\ doc[f].index <= doc[f].data
                      /\ doc[f].data <= IF doc[f].of = NoDoc THEN 0 ELSE Len(Records[doc[f].of])
    OBVIOUS
  <2>1. CASE doc[f].of = NoDoc
    BY <2>1 DEF RagInv, DocsTyped, DocsHold
  <2>2. CASE doc[f].of # NoDoc
    BY <2>2 DEF RagInv, DocsTyped, DocsHold
  <2> QED
    BY <2>1, <2>2
<1>2. \A n \in DOMAIN hits : hits[n].file \in Files /\ hits[n].score \in 1 .. MaxScore
  <2>1. hits \in Seq(Found)
    BY DEF RagInv, RequestTyped
  <2>2. DOMAIN hits = 1 .. Len(hits)
    BY <2>1, SeqHas
  <2> QED
    BY <2>1, <2>2, FoundFields
<1>3. Len(hits) <= TopK * Len(asked)
  <2>1. Len(missed) \in Nat /\ Len(asked) \in Nat /\ Len(missed) <= Len(asked) /\ Len(hits) <= TopK * Len(missed)
    BY DEF RagInv, RequestTyped
  <2>2. PICK a, b : a = Len(missed) /\ b = Len(asked)
    OBVIOUS
  <2>3. TopK * a <= TopK * b /\ TopK * a \in Nat /\ TopK * b \in Nat
    BY <1>0, <2>1, <2>2, TurnsOfAll
  <2>4. Len(hits) \in Nat
    BY FoundFields DEF RagInv, RequestTyped
  <2> QED
    BY <2>1, <2>2, <2>3, <2>4
<1>4. IF phase \in {"answered", "tested"} THEN Len(missed) = Len(asked) ELSE Len(missed) <= Len(asked)
  BY DEF RagInv, RequestTyped
<1> QED
  BY <1>1, <1>2, <1>3, <1>4 DEF TypeOK, RagInv, RequestTyped, LinkTyped

\* One search only is of a knowledge base that is named once.
LEMMA NamedOnceIsOne ==
  ASSUME NEW k, NamedOnce(k), asked \in Seq(Kbs)
  PROVE  \A m, n \in 1 .. Len(asked) : asked[m] = k /\ asked[n] = k => m = n
<1>1. PICK S : S = {n \in DOMAIN asked : asked[n] = k}
  OBVIOUS
<1>2. PICK N \in Nat : N = Len(asked) /\ DOMAIN asked = 1 .. N
  OBVIOUS
<1>3. IsFiniteSet(S)
  <2>1. IsFiniteSet(1 .. N) /\ S \in SUBSET (1 .. N)
    BY <1>1, <1>2, FS_Interval
  <2> QED
    BY <2>1, FS_Subset
<1>4. Cardinality(S) = 1
  BY <1>1 DEF NamedOnce
<1>5. PICK x : S = {x}
  BY <1>3, <1>4, FS_Singleton
<1>6. \A n \in 1 .. N : asked[n] = k => n \in S
  BY <1>1, <1>2
<1> QED
  BY <1>2, <1>5, <1>6

\* Answers are best.
LEMMA RagInvIsHitsAreBest == RagInv => HitsAreBest
<1> SUFFICES ASSUME RagInv PROVE HitsAreBest
  OBVIOUS
<1>1. PICK turn : Turns(turn, hits, asked, missed)
  BY DEF RagInv, Retrieved, FromTurns
<1>2. hits \in Seq(Found) /\ asked \in Seq(Kbs) /\ Len(missed) <= Len(asked) /\ Len(missed) \in Nat /\ Len(asked) \in Nat
  BY DEF RagInv, RequestTyped
<1>3. DOMAIN hits = 1 .. Len(hits) /\ DOMAIN asked = 1 .. Len(asked)
  BY <1>2, SeqHas
<1>4. ASSUME NEW i \in 1 .. Len(hits)
      PROVE  turn[i] \in 1 .. Len(missed) /\ turn[i] \in 1 .. Len(asked) /\ asked[turn[i]] = KbOf[hits[i].file]
  BY <1>1, <1>2 DEF Turns
<1>5. PicturesStandAlone
  <2> SUFFICES ASSUME NEW i \in DOMAIN hits, NEW j \in DOMAIN hits,
                      i # j, KbOf[hits[i].file] = KbOf[hits[j].file], NamedOnce(KbOf[hits[i].file]),
                      IsImage(hits[i])
               PROVE  IsImage(hits[j]) /\ Keys(hits[i]) \cap Keys(hits[j]) = {}
    BY DEF PicturesStandAlone
  <2>1. i \in 1 .. Len(hits) /\ j \in 1 .. Len(hits)
    BY <1>3
  <2>2. turn[i] = turn[j]
    BY <1>2, <1>4, <2>1, NamedOnceIsOne
  <2> QED
    BY <1>1, <2>1, <2>2 DEF Turns
<1>6. ASSUME phase \in {"answered", "tested"}
      PROVE  /\ \A i, j \in DOMAIN hits : i < j => hits[i].score >= hits[j].score
             /\ \A i \in DOMAIN hits, n \in DOMAIN asked :
                  asked[n] = KbOf[hits[i].file] /\ NamedOnce(asked[n]) /\ ~IsImage(hits[i])
                  => hits[i].score >= missed[n]
  <2>1. \A i, j \in DOMAIN hits : i < j => hits[i].score >= hits[j].score
    BY <1>3, <1>6 DEF RagInv, Retrieved, Sorted
  <2>2. ASSUME NEW i \in DOMAIN hits, NEW n \in DOMAIN asked,
               asked[n] = KbOf[hits[i].file], NamedOnce(asked[n]), ~IsImage(hits[i])
        PROVE  hits[i].score >= missed[n]
    <3>1. i \in 1 .. Len(hits) /\ n \in 1 .. Len(asked)
      BY <1>3
    <3>2. turn[i] = n
      BY <1>2, <1>4, <2>2, <3>1, NamedOnceIsOne
    <3> QED
      BY <1>1, <2>2, <3>1, <3>2 DEF Turns
  <2> QED
    BY <2>1, <2>2
<1>7. BestAreCited
  BY <1>6 DEF BestAreCited
<1> QED
  BY <1>5, <1>7 DEF HitsAreBest

\* A row is cited no more often than its knowledge base was named.
LEMMA RagInvIsCitedAsNamed == RagInv => CitedAsNamed
<1> SUFFICES ASSUME RagInv, NEW n \in DOMAIN hits
             PROVE  Cardinality({m \in DOMAIN hits : /\ hits[m].file = hits[n].file
                                                     /\ hits[m].data = hits[n].data})
                      <= Cardinality({m \in DOMAIN asked : asked[m] = KbOf[hits[n].file]})
  BY DEF CitedAsNamed
<1>1. PICK turn : Turns(turn, hits, asked, missed)
  BY DEF RagInv, Retrieved, FromTurns
<1>2. hits \in Seq(Found) /\ asked \in Seq(Kbs) /\ Len(missed) <= Len(asked) /\ Len(missed) \in Nat
  BY DEF RagInv, RequestTyped
<1>3. DOMAIN hits = 1 .. Len(hits) /\ DOMAIN asked = 1 .. Len(asked)
  BY <1>2, SeqHas
<1>4. PICK same, named :
        /\ same = {m \in DOMAIN hits : hits[m].file = hits[n].file /\ hits[m].data = hits[n].data}
        /\ named = {m \in DOMAIN asked : asked[m] = KbOf[hits[n].file]}
  OBVIOUS
<1>5. IsFiniteSet(named)
  <2>1. PICK L \in Nat : L = Len(asked)
    BY <1>2
  <2>2. IsFiniteSet(1 .. L) /\ named \in SUBSET (1 .. L)
    BY <1>3, <1>4, <2>1, FS_Interval
  <2> QED
    BY <2>2, FS_Subset
<1>6. PICK f : f = [m \in same |-> turn[m]]
  OBVIOUS
<1>7. ASSUME NEW m \in same PROVE f[m] \in named
  <2>1. m \in 1 .. Len(hits) /\ hits[m].file = hits[n].file
    BY <1>3, <1>4
  <2>2. turn[m] \in 1 .. Len(missed) /\ asked[turn[m]] = KbOf[hits[m].file]
    BY <1>1, <2>1 DEF Turns
  <2>3. turn[m] \in DOMAIN asked
    BY <1>2, <1>3, <2>2
  <2> QED
    BY <1>4, <1>6, <2>1, <2>2, <2>3
<1>8. ASSUME NEW i \in same, NEW j \in same, f[i] = f[j] PROVE i = j
  <2>1. i \in 1 .. Len(hits) /\ j \in 1 .. Len(hits) /\ turn[i] = turn[j]
    BY <1>3, <1>4, <1>6, <1>8
  <2>2. hits[i].file = hits[j].file /\ hits[i].data = hits[j].data
    BY <1>4
  <2> QED
    BY <1>1, <2>1, <2>2 DEF Turns
<1>9. f \in Injection(same, named)
  <2>1. f \in [same -> named]
    BY <1>6, <1>7
  <2> QED
    BY <1>8, <2>1, Fun_IsInj
<1>10. Cardinality(same) <= Cardinality(named)
  BY <1>5, <1>9, FS_Injection
<1> QED
  BY <1>4, <1>10

\* The numbers of the sources lead back.
LEMMA RagInvIsNumbersLeadBack == RagInv => NumbersLeadBack
<1> SUFFICES ASSUME RagInv PROVE NumbersLeadBack
  OBVIOUS
<1>1. hits \in Seq(Found)
  BY DEF RagInv, RequestTyped
<1>2. PICK H \in Nat : DOMAIN hits = 1 .. H
  BY <1>1, SeqHas
<1>3. ASSUME NEW fig \in Figures
      PROVE  \E n \in 1 .. H : /\ fig.ref = n /\ fig.key \in Keys(hits[n]) /\ fig = [ref |-> n, key |-> fig.key]
                               /\ \A i \in 1 .. n - 1 : fig.key \notin Keys(hits[i])
  <2>1. PICK n \in 1 .. H : fig \in {[ref |-> Index(n), key |-> key] :
                                       key \in Keys(hits[n]) \ UNION {Keys(hits[i]) : i \in 1 .. n - 1}}
    BY <1>2 DEF Figures
  <2>2. PICK key \in Keys(hits[n]) \ UNION {Keys(hits[i]) : i \in 1 .. n - 1} : fig = [ref |-> n, key |-> key]
    BY <2>1 DEF Index
  <2> QED
    BY <2>2
<1>4. \A fig \in Figures : fig.ref \in DOMAIN hits /\ fig.key \in Keys(hits[fig.ref])
  BY <1>2, <1>3
<1>5. ASSUME NEW n \in DOMAIN hits, NEW key \in Keys(hits[n])
      PROVE  Cardinality({fig \in Figures : fig.key = key}) = 1
  <2>1. PICK S : S = {m \in 1 .. H : key \in Keys(hits[m])}
    OBVIOUS
  <2>a. S \in SUBSET Nat
    BY <2>1
  <2>2. n \in S
    BY <1>2, <2>1
  <2>3. PICK first \in S : \A m \in S : first <= m
    BY <2>2, <2>a, MinHolds
  <2>4. first \in 1 .. H /\ key \in Keys(hits[first])
    BY <2>1
  <2>5. \A i \in 1 .. first - 1 : key \notin Keys(hits[i])
    BY <2>1, <2>3, <2>4
  <2>6. PICK fig : fig = [ref |-> first, key |-> key]
    OBVIOUS
  <2>7. fig \in Figures
    <3>1. key \in Keys(hits[first]) \ UNION {Keys(hits[i]) : i \in 1 .. first - 1}
      BY <2>4, <2>5
    <3>2. fig \in {[ref |-> Index(first), key |-> k] :
                     k \in Keys(hits[first]) \ UNION {Keys(hits[i]) : i \in 1 .. first - 1}}
      BY <2>6, <3>1 DEF Index
    <3> QED
      BY <1>2, <2>4, <3>2 DEF Figures
  <2>8. ASSUME NEW other \in Figures, other.key = key PROVE other = fig
    <3>1. PICK m \in 1 .. H : /\ key \in Keys(hits[m]) /\ other = [ref |-> m, key |-> key]
                              /\ \A i \in 1 .. m - 1 : key \notin Keys(hits[i])
      BY <1>3, <2>8
    <3>2. first <= m
      BY <2>1, <2>3, <3>1
    <3>3. ~(first < m)
      BY <2>4, <3>1
    <3>4. m = first
      BY <2>4, <3>2, <3>3
    <3> QED
      BY <2>6, <3>1, <3>4
  <2>9. {x \in Figures : x.key = key} = {fig}
    <3>1. fig.key = key
      BY <2>6
    <3> QED
      BY <2>7, <2>8, <3>1
  <2> QED
    BY <2>9, FS_Singleton
<1>6. \A n \in DOMAIN hits : \A f \in Files : n \in SegmentIndexes(f) <=> hits[n].file = f
  BY DEF SegmentIndexes, Index
<1> QED
  BY <1>4, <1>5, <1>6, Zenon DEF NumbersLeadBack

\* A file's rows in their order: the first m rows of its document.
LEMMA ListedHolds ==
  ASSUME NEW f \in Files, DocsHold
  PROVE  /\ Listed(f) \in Seq(StoredRows) /\ Len(Listed(f)) = doc[f].data
         /\ \A n \in 1 .. Len(Listed(f)) : Listed(f)[n].text = <<doc[f].of, n>>
<1>1. PICK m \in Nat : m = doc[f].data
  BY DEF DocsHold
<1>2. PICK S : S = RowsOf(f, m)
  OBVIOUS
<1>3. /\ IsFiniteSet(S) /\ S \subseteq StoredRows
      /\ \A r \in S : r.text[1] = doc[f].of /\ r.text[2] \in 1 .. m
      /\ \A n \in 1 .. m : \E r \in S : r.text[2] = n
      /\ \A r, q \in S : r.text[2] = q.text[2] => r = q
  <2>1. m \in 0 .. doc[f].data
    BY <1>1
  <2>2. IsFiniteSet(RowsOf(f, m)) /\ RowsOf(f, m) \subseteq StoredRows
    BY <2>1, RowsHold
  <2>3. \A r \in RowsOf(f, m) : r.text[1] = doc[f].of /\ r.text[2] \in 1 .. m
    BY <2>1, RowsHold
  <2>4. \A n \in 1 .. m : \E r \in RowsOf(f, m) : r.text[2] = n
    BY <2>1, RowsHold
  <2>5. \A r, q \in RowsOf(f, m) : r.text[2] = q.text[2] => r = q
    BY <2>1, RowsHold
  <2> QED
    BY <1>2, <2>2, <2>3, <2>4, <2>5, Zenon
<1>4. PICK before : before = {p \in S \X S : p[1].at < p[2].at}
  OBVIOUS
<1>5. \A r \in S : /\ r.at = Records[doc[f].of][r.text[2]].at /\ doc[f].of \in Docs
                   /\ r.text[2] \in 1 .. Len(Records[doc[f].of]) /\ r.at \in Nat /\ r.text[2] \in Nat
  BY <1>3 DEF StoredRows, IsRow
<1>6. ASSUME NEW r \in S, NEW q \in S PROVE <<r, q>> \in before <=> r.text[2] < q.text[2]
  <2>1. <<r, q>> \in before <=> r.at < q.at
    BY <1>4
  <2>2. PICK d \in Docs : d = doc[f].of
    BY <1>5
  <2>3. PICK i \in 1 .. Len(Records[d]), j \in 1 .. Len(Records[d]) :
          /\ i = r.text[2] /\ j = q.text[2] /\ r.at = Records[d][i].at /\ q.at = Records[d][j].at
          /\ i \in Nat /\ j \in Nat
    BY <1>5, <2>2
  <2>4. i < j => r.at < q.at
    BY <2>3, RecordsHold
  <2>5. j < i => q.at < r.at
    BY <2>3, RecordsHold
  <2>6. i = j => r.at = q.at
    BY <2>3
  <2> QED
    BY <1>5, <2>1, <2>3, <2>4, <2>5, <2>6
<1>7. IsOrder(S, before)
  <2>1. \A r \in S : <<r, r>> \notin before
    BY <1>5, <1>6
  <2>2. \A r, q \in S : r # q => <<r, q>> \in before \/ <<q, r>> \in before
    BY <1>3, <1>5, <1>6
  <2>3. \A r, q, z \in S : <<r, q>> \in before /\ <<q, z>> \in before => <<r, z>> \in before
    BY <1>5, <1>6
  <2> QED
    BY <2>1, <2>2, <2>3 DEF IsOrder
<1>8. PICK row : row = [n \in 1 .. m |-> CHOOSE r \in S : r.text[2] = n]
  OBVIOUS
<1>9. ASSUME NEW n \in 1 .. m PROVE row[n] \in S /\ row[n].text = <<doc[f].of, n>> /\ row[n].text[2] = n
  <2>1. \E r \in S : r.text[2] = n
    BY <1>3
  <2>2. row[n] = CHOOSE r \in S : r.text[2] = n
    BY <1>8
  <2>3. row[n] \in S /\ row[n].text[2] = n
    BY <2>1, <2>2, Zenon
  <2>4. row[n].text \in Docs \X Nat /\ row[n].text[1] = doc[f].of
    BY <1>3, <2>3 DEF StoredRows
  <2> QED
    BY <2>3, <2>4
<1>10. \A r \in S : \E n \in 1 .. m : r = row[n]
  BY <1>3, <1>9
<1>11. ASSUME NEW n \in 0 .. m
       PROVE  \E T : T = {row[i] : i \in 1 .. n} /\ IsFiniteSet(T) /\ Cardinality(T) = n
  <2>1. PICK N \in Nat : N = n /\ N <= m
    OBVIOUS
  <2>2. PICK T, g : T = {row[i] : i \in 1 .. N} /\ g = [i \in 1 .. N |-> row[i]]
    OBVIOUS
  <2>3. \A i \in 1 .. N : i \in 1 .. m
    BY <2>1
  <2>4. g \in Surjection(1 .. N, T)
    BY <2>2 DEF Surjection
  <2>5. \A i, j \in 1 .. N : g[i] = g[j] => i = j
    <3> SUFFICES ASSUME NEW i \in 1 .. N, NEW j \in 1 .. N, g[i] = g[j] PROVE i = j
      OBVIOUS
    <3>1. row[i] = row[j] /\ row[i].text[2] = i /\ row[j].text[2] = j
      BY <1>9, <2>2, <2>3
    <3> QED
      BY <3>1
  <2>6. g \in Injection(1 .. N, T)
    <3>1. g \in [1 .. N -> T]
      BY <2>2
    <3> QED
      BY <2>5, <3>1, Fun_IsInj
  <2>7. IsFiniteSet(1 .. N) /\ Cardinality(1 .. N) = N
    BY <2>1, FS_Interval
  <2>8. IsFiniteSet(T) /\ Cardinality(T) = N
    BY <2>4, <2>6, <2>7, FS_Surjection
  <2> QED
    BY <2>1, <2>2, <2>8
<1>12. Cardinality(S) = m
  <2>1. PICK T : T = {row[i] : i \in 1 .. m} /\ Cardinality(T) = m
    <3>1. m \in 0 .. m
      OBVIOUS
    <3> QED
      BY <1>11, <3>1
  <2>2. T = S
    BY <1>9, <1>10, <2>1
  <2> QED
    BY <2>1, <2>2
<1>13. ASSUME NEW n \in 1 .. m PROVE Cardinality(Below(S, before, row[n])) = n - 1
  <2>1. n - 1 \in 0 .. m
    OBVIOUS
  <2>2. PICK T : T = {row[i] : i \in 1 .. n - 1} /\ Cardinality(T) = n - 1
    BY <1>11, <2>1
  <2>3. \A i \in 1 .. n - 1 : i \in 1 .. m
    OBVIOUS
  <2>4. \A i \in 1 .. m : <<row[i], row[n]>> \in before <=> i < n
    BY <1>6, <1>9
  <2>5. Below(S, before, row[n]) \subseteq T
    <3> SUFFICES ASSUME NEW r \in S, <<r, row[n]>> \in before PROVE r \in T
      BY DEF Below
    <3>1. PICK i \in 1 .. m : r = row[i]
      BY <1>10
    <3>2. i < n
      BY <2>4, <3>1
    <3>3. i \in 1 .. n - 1
      BY <3>2
    <3> QED
      BY <2>2, <3>1, <3>3
  <2>6. T \subseteq Below(S, before, row[n])
    <3> SUFFICES ASSUME NEW i \in 1 .. n - 1 PROVE row[i] \in S /\ <<row[i], row[n]>> \in before
      BY <2>2 DEF Below
    <3>1. i \in 1 .. m /\ i < n
      OBVIOUS
    <3> QED
      BY <1>9, <2>4, <3>1
  <2>7. Below(S, before, row[n]) = T
    BY <2>5, <2>6
  <2> QED
    BY <2>2, <2>7
<1>14. PICK list : list = Listed(f)
  OBVIOUS
<1>15. list = Ordered(S, before)
  BY <1>1, <1>2, <1>4, <1>14 DEF Listed
<1>16. list \in [1 .. m -> S] /\ \A n \in 1 .. m : list[n] = row[n]
  <2>1. /\ Ordered(S, before) \in [1 .. Cardinality(S) -> S]
        /\ \A n \in 1 .. Cardinality(S), x \in S :
             Cardinality(Below(S, before, x)) = n - 1 => Ordered(S, before)[n] = x
    BY <1>3, <1>7, OrderedHolds
  <2> QED
    BY <1>9, <1>12, <1>13, <1>15, <2>1
<1>17. list \in Seq(StoredRows) /\ Len(list) = m
  <2>1. list \in [1 .. m -> StoredRows]
    BY <1>3, <1>16
  <2> QED
    BY <2>1, MakesSeq
<1> QED
  BY <1>1, <1>9, <1>14, <1>16, <1>17

\* What a subsequence has.
LEMMA PartOf ==
  ASSUME NEW X, NEW s \in Seq(X), NEW a \in Nat, NEW b \in Nat, 1 <= a, a <= b + 1, b <= Len(s)
  PROVE  /\ SubSeq(s, a, b) \in Seq(X) /\ Len(SubSeq(s, a, b)) = b - a + 1
         /\ \A i \in 1 .. b - a + 1 : SubSeq(s, a, b)[i] = s[(a - 1) + i]
  OBVIOUS

\* The rows a window shows, in their order.
Shown(w) == w.before \o <<w.target>> \o w.after

\* A part of some rows, in their order.
IsPart(shown, rows) ==
    \E low \in Nat : /\ low + Len(shown) <= Len(rows) /\ Len(shown) \in Nat
                     /\ \A i \in 1 .. Len(shown) : shown[i] = rows[low + i]

\* The place among the rows after one, of a place among all that are shown.
LEMMA PlaceAfter ==
  ASSUME NEW n \in Nat, NEW from \in Nat, NEW to \in Nat, NEW i \in Nat,
         from <= n, n <= to, i <= to - (from - 1), i > (n - from) + 1
  PROVE  \E j \in 1 .. to - n : ((n - from) + 1) + j = i /\ n + j = (from - 1) + i
<1>1. PICK j \in Int : j = i - ((n - from) + 1)
  OBVIOUS
<1>2. j \in 1 .. to - n /\ ((n - from) + 1) + j = i /\ n + j = (from - 1) + i
  BY <1>1
<1> QED
  BY <1>2

\* A window shows the rows around one, in order.
LEMMA WindowHolds ==
  ASSUME NEW X, NEW rows \in Seq(X), NEW n \in 1 .. Len(rows), NEW context \in Nat,
         NEW w, w = Window(rows, n, context),
         NEW shown, shown = Shown(w)
  PROVE  w.target = rows[n] /\ IsPart(shown, rows)
<1>1. PICK L \in Nat : L = Len(rows) /\ n \in 1 .. L /\ n \in Nat
  OBVIOUS
<1>2. PICK from \in Nat : from = Max({1, n - context}) /\ 1 <= from /\ from <= n
  <2>1. n - context <= n /\ 1 <= n /\ n - context \in Int
    BY <1>1
  <2>2. \E x \in {1, n - context} : \A y \in {1, n - context} : x >= y
    BY <2>1
  <2>3. PICK m : m = CHOOSE x \in {1, n - context} : \A y \in {1, n - context} : x >= y
    OBVIOUS
  <2>4. m \in {1, n - context} /\ \A y \in {1, n - context} : m >= y
    BY <2>2, <2>3, Zenon
  <2>5. m \in Nat /\ 1 <= m /\ m <= n
    BY <1>1, <2>1, <2>4
  <2>6. m = Max({1, n - context})
    BY <2>3 DEF Max
  <2> QED
    BY <2>5, <2>6
<1>3. PICK to \in Nat : to = Min({n + context, L}) /\ n <= to /\ to <= L
  <2>1. {n + context, L} \in SUBSET Nat /\ {n + context, L} # {}
    BY <1>1
  <2>2. Min({n + context, L}) \in {n + context, L} /\ \A y \in {n + context, L} : Min({n + context, L}) <= y
    BY <2>1, MinHolds
  <2> QED
    BY <1>1, <2>2
<1>4. PICK before, after, one :
        before = SubSeq(rows, from, n - 1) /\ after = SubSeq(rows, n + 1, to) /\ one = <<rows[n]>>
  OBVIOUS
<1>5. w = [target |-> rows[n], before |-> before, after |-> after]
  BY <1>1, <1>2, <1>3, <1>4 DEF Window
<1>6. /\ before \in Seq(X) /\ Len(before) = n - from
      /\ \A i \in 1 .. n - from : before[i] = rows[(from - 1) + i]
  <2>1. n - 1 \in Nat /\ 1 <= from /\ from <= (n - 1) + 1 /\ n - 1 <= Len(rows)
    BY <1>1, <1>2
  <2>2. /\ SubSeq(rows, from, n - 1) \in Seq(X) /\ Len(SubSeq(rows, from, n - 1)) = (n - 1) - from + 1
        /\ \A i \in 1 .. (n - 1) - from + 1 : SubSeq(rows, from, n - 1)[i] = rows[(from - 1) + i]
    BY <2>1, PartOf
  <2>3. (n - 1) - from + 1 = n - from
    BY <1>1, <1>2
  <2> QED
    BY <1>4, <2>2, <2>3
<1>7. /\ after \in Seq(X) /\ Len(after) = to - n
      /\ \A i \in 1 .. to - n : after[i] = rows[n + i]
  <2>1. n + 1 \in Nat /\ 1 <= n + 1 /\ n + 1 <= to + 1 /\ to <= Len(rows)
    BY <1>1, <1>3
  <2>2. /\ SubSeq(rows, n + 1, to) \in Seq(X) /\ Len(SubSeq(rows, n + 1, to)) = to - (n + 1) + 1
        /\ \A i \in 1 .. to - (n + 1) + 1 : SubSeq(rows, n + 1, to)[i] = rows[((n + 1) - 1) + i]
    BY <2>1, PartOf
  <2>3. to - (n + 1) + 1 = to - n /\ (n + 1) - 1 = n
    BY <1>1, <1>3
  <2> QED
    BY <1>4, <2>2, <2>3
<1>8. one \in Seq(X) /\ Len(one) = 1 /\ one[1] = rows[n]
  BY <1>1, <1>4
<1>9. PICK head : head = before \o one
  OBVIOUS
<1>10. /\ head \in Seq(X) /\ Len(head) = (n - from) + 1
       /\ \A i \in 1 .. n - from : head[i] = before[i]
       /\ head[(n - from) + 1] = rows[n]
  <2>1. /\ before \o one \in Seq(X) /\ Len(before \o one) = Len(before) + Len(one)
        /\ \A i \in 1 .. Len(before) : (before \o one)[i] = before[i]
        /\ \A i \in 1 .. Len(one) : (before \o one)[Len(before) + i] = one[i]
    <3>1. before \in Seq(X) /\ one \in Seq(X)
      BY <1>6, <1>8
    <3> QED
      BY <3>1, Joined
  <2>2. 1 \in 1 .. Len(one)
    BY <1>8
  <2> QED
    BY <1>6, <1>8, <1>9, <2>1, <2>2
<1>11. \A i \in 1 .. (n - from) + 1 : head[i] = rows[(from - 1) + i]
  <2> SUFFICES ASSUME NEW i \in 1 .. (n - from) + 1 PROVE head[i] = rows[(from - 1) + i]
    OBVIOUS
  <2>1. CASE i <= n - from
    BY <1>6, <1>10, <2>1
  <2>2. CASE i > n - from
    <3>1. i = (n - from) + 1 /\ (from - 1) + i = n
      BY <1>1, <1>2, <2>2
    <3> QED
      BY <1>10, <3>1
  <2> QED
    BY <1>1, <1>2, <2>1, <2>2
<1>12. shown = head \o after
  <2>1. w.target = rows[n] /\ w.before = before /\ w.after = after
    BY <1>5
  <2> QED
    BY <1>4, <1>9, <2>1, Zenon DEF Shown
<1>a. PICK list : list = shown
  OBVIOUS
<1>13. /\ Len(list) = (n - from) + 1 + (to - n)
       /\ \A i \in 1 .. (n - from) + 1 : list[i] = head[i]
       /\ \A i \in 1 .. to - n : list[((n - from) + 1) + i] = after[i]
  <2>1. head \in Seq(X) /\ after \in Seq(X)
    BY <1>7, <1>10
  <2>2. /\ Len(head \o after) = Len(head) + Len(after)
        /\ \A i \in 1 .. Len(head) : (head \o after)[i] = head[i]
        /\ \A i \in 1 .. Len(after) : (head \o after)[Len(head) + i] = after[i]
    BY <2>1, Joined
  <2> QED
    BY <1>7, <1>10, <1>12, <1>a, <2>2
<1>14. Len(list) = to - (from - 1) /\ from - 1 \in Nat
  BY <1>1, <1>2, <1>3, <1>13
<1>15. \A i \in 1 .. Len(list) : list[i] = rows[(from - 1) + i]
  <2> SUFFICES ASSUME NEW i \in 1 .. Len(list) PROVE list[i] = rows[(from - 1) + i]
    OBVIOUS
  <2>0. i \in Nat /\ i <= to - (from - 1)
    BY <1>3, <1>14
  <2>1. CASE i <= (n - from) + 1
    <3>1. i \in 1 .. (n - from) + 1
      <4>1. i >= 1 /\ i \in Int
        OBVIOUS
      <4> QED
        BY <2>1, <4>1
    <3>2. list[i] = head[i]
      BY <1>13, <3>1
    <3>3. head[i] = rows[(from - 1) + i]
      BY <1>11, <3>1
    <3> QED
      BY <3>2, <3>3
  <2>2. CASE i > (n - from) + 1
    <3>1. i \in Nat /\ n \in Nat /\ from <= n /\ n <= to
      BY <1>1, <1>2, <1>3, <2>0
    <3>2. PICK j \in 1 .. to - n : ((n - from) + 1) + j = i /\ n + j = (from - 1) + i
      BY <2>0, <2>2, <3>1, PlaceAfter
    <3>3. list[((n - from) + 1) + j] = after[j] /\ after[j] = rows[n + j]
      BY <1>7, <1>13
    <3> QED
      BY <3>2, <3>3
  <2> QED
    BY <1>1, <1>2, <2>0, <2>1, <2>2
<1>16. (from - 1) + Len(list) <= Len(rows) /\ Len(list) \in Nat
  BY <1>1, <1>2, <1>3, <1>14
<1>17. w.target = rows[n]
  BY <1>5
<1> QED
  <2>1. \E low \in Nat : /\ low + Len(list) <= Len(rows) /\ Len(list) \in Nat
                        /\ \A i \in 1 .. Len(list) : list[i] = rows[low + i]
    BY <1>14, <1>15, <1>16
  <2> QED
    BY <1>17, <1>a, <2>1, Zenon DEF IsPart

\* The rows of a list follow each other, the pictures last.
LEMMA RowsFollow ==
  ASSUME NEW f \in Files, DocsHold, NEW rows, rows = Listed(f),
         NEW j \in Nat, j >= 1, j + 1 <= Len(rows)
  PROVE  /\ rows[j + 1].text[2] = rows[j].text[2] + 1
         /\ IsImage(rows[j]) => IsImage(rows[j + 1])
<1>1. rows \in Seq(StoredRows) /\ \A n \in 1 .. Len(rows) : rows[n].text = <<doc[f].of, n>>
  BY ListedHolds
<1>2. j \in 1 .. Len(rows) /\ j + 1 \in 1 .. Len(rows) /\ j < j + 1
  BY <1>1
<1>3. PICK d, r, q : d = doc[f].of /\ r = rows[j] /\ q = rows[j + 1]
  OBVIOUS
<1>a. r \in StoredRows /\ q \in StoredRows
  <2>1. \A i \in 1 .. Len(rows) : rows[i] \in StoredRows
    <3> HIDE DEF StoredRows
    <3> QED
      BY <1>1, SeqHas
  <2> QED
    BY <1>2, <1>3, <2>1
<1>4. r.text[1] = d /\ r.text[2] = j /\ q.text[1] = d /\ q.text[2] = j + 1
  <2>1. r.text = <<d, j>> /\ q.text = <<d, j + 1>>
    BY <1>1, <1>2, <1>3
  <2> QED
    BY <2>1
<1>5. /\ d \in Docs /\ j \in 1 .. Len(Records[d]) /\ j + 1 \in 1 .. Len(Records[d])
      /\ r.type = Records[d][j].type /\ q.type = Records[d][j + 1].type
  BY <1>4, <1>a DEF StoredRows, IsRow
<1>6. Records[d][j].type = "image" => Records[d][j + 1].type = "image"
  BY <1>2, <1>5, RecordsHold
<1> QED
  BY <1>3, <1>4, <1>5, <1>6 DEF IsImage

\* Two texts differ in a coordinate.
LEMMA TextsDiffer ==
  \A a, b \in Docs \X Nat : a[1] = b[1] /\ a[2] = b[2] => a = b
  OBVIOUS

\* What is shown when a link is opened.
LEMMA OpenShows ==
  ASSUME RagInv, NEW c, NEW context \in 0 .. 1, Open(c, context)
  PROVE  LinksHold'
<1>1. hits \in Seq(Found) /\ DocsHold
  BY DEF RagInv, RequestTyped, DocsTyped
<1>2. c \in 1 .. Len(hits) /\ hits' = hits
  <2>1. DOMAIN hits = 1 .. Len(hits)
    BY <1>1, SeqHas
  <2> QED
    BY <2>1 DEF Open
<1>3. PICK h \in Found : h = hits[c]
  BY <1>1, <1>2, FoundFields
<1>4. h.file \in Files /\ IsRow(h) /\ h.text \in Docs \X Nat
  BY <1>3 DEF Found
<1>5. PICK rows \in Seq(StoredRows) : rows = Listed(h.file)
  BY <1>1, <1>4, ListedHolds
<1>6. PICK N \in Nat : N = Len(rows) /\ DOMAIN rows = 1 .. N
  BY SeqHas
<1>7. PICK places \in SUBSET (1 .. N) : places = {n \in DOMAIN rows : rows[n].data = h.data}
  BY <1>6
<1>8. opened' = [citation |-> c,
                 shown |-> IF places = {} THEN <<>> ELSE <<Window(rows, Min(places), context)>>]
  BY <1>3, <1>5, <1>7, Zenon DEF Open
<1>9. CASE places = {}
  <2>1. opened'.shown = <<>>
    BY <1>8, <1>9
  <2>2. DOMAIN opened'.shown = {}
    BY <2>1
  <2> QED
    BY <2>2 DEF LinksHold
<1>10. CASE places # {}
  <2>1. PICK n \in 1 .. N : n = Min(places) /\ rows[n].data = h.data
    <3>1. places \in SUBSET Nat
      OBVIOUS
    <3>2. Min(places) \in places
      BY <1>10, <3>1, MinHolds
    <3> QED
      BY <1>7, <3>2
  <2>2. PICK w, shown : w = Window(rows, n, context) /\ shown = Shown(w)
    OBVIOUS
  <2>3. w.target = rows[n] /\ IsPart(shown, rows)
    <3>1. PICK X : X = StoredRows
      OBVIOUS
    <3>2. context \in Nat /\ n \in 1 .. Len(rows) /\ rows \in Seq(X)
      BY <1>6, <3>1
    <3> QED
      BY <2>2, <3>2, WindowHolds
  <2>4. PICK low \in Nat : /\ low + Len(shown) <= N /\ Len(shown) \in Nat
                           /\ \A i \in 1 .. Len(shown) : shown[i] = rows[low + i]
    BY <1>6, <2>3 DEF IsPart
  <2>5. opened'.citation = c /\ opened'.shown = <<w>>
    BY <1>8, <1>10, <2>1, <2>2
  <2>6. w.target.text[1] = h.text[1] => w.target.text = h.text
    <3>1. PICK r \in StoredRows : r = w.target /\ r = rows[n] /\ r.data = h.data
      <4>1. rows[n] \in StoredRows
        BY <1>6, SeqHas
      <4> QED
        BY <2>1, <2>3, <4>1
    <3>2. /\ r.text \in Docs \X Nat /\ r.data = Records[r.text[1]][r.text[2]].data
          /\ r.text[2] \in 1 .. Len(Records[r.text[1]])
      BY DEF StoredRows, IsRow
    <3>3. h.data = Records[h.text[1]][h.text[2]].data /\ h.text[2] \in 1 .. Len(Records[h.text[1]])
      BY <1>4 DEF IsRow
    <3>4. ASSUME r.text[1] = h.text[1] PROVE r.text = h.text
      <4>1. PICK d \in Docs, i \in Nat, j \in Nat :
              d = r.text[1] /\ d = h.text[1] /\ i = r.text[2] /\ j = h.text[2]
        BY <1>4, <3>2, <3>4
      <4>2. /\ i \in 1 .. Len(Records[d]) /\ j \in 1 .. Len(Records[d])
            /\ Records[d][i].data = Records[d][j].data
        BY <3>1, <3>2, <3>3, <4>1
      <4>3. ~(i < j) /\ ~(j < i)
        BY <4>2, RecordsHold
      <4>4. i = j
        BY <4>3
      <4> QED
        BY <1>4, <3>2, <4>1, <4>4, TextsDiffer
    <3> QED
      BY <3>1, <3>4
  <2>7. ASSUME NEW i \in 1 .. Len(shown) - 1
        PROVE  /\ shown[i + 1].text[2] = shown[i].text[2] + 1
               /\ IsImage(shown[i]) => IsImage(shown[i + 1])
    <3>1. i \in 1 .. Len(shown) /\ i + 1 \in 1 .. Len(shown)
      BY <2>4
    <3>2. shown[i] = rows[low + i] /\ shown[i + 1] = rows[(low + i) + 1]
      <4>1. low + (i + 1) = (low + i) + 1
        OBVIOUS
      <4> QED
        BY <2>4, <3>1, <4>1
    <3>3. low + i \in Nat /\ low + i >= 1 /\ (low + i) + 1 <= Len(rows)
      BY <1>6, <2>4, <3>1
    <3> QED
      BY <1>1, <1>4, <1>5, <3>2, <3>3, RowsFollow
  <2>8. DOMAIN <<w>> = {1} /\ <<w>>[1] = w
    OBVIOUS
  <2>9. hits'[opened'.citation] = h
    BY <1>2, <1>3, <2>5
  <2>10. ASSUME NEW x \in DOMAIN opened'.shown
         PROVE  LET window == opened'.shown[x]
                    list == window.before \o <<window.target>> \o window.after
                IN /\ window.target.text[1] = hits'[opened'.citation].text[1]
                        => window.target.text = hits'[opened'.citation].text
                   /\ \A i \in 1 .. Len(list) - 1 :
                        /\ list[i + 1].text[2] = list[i].text[2] + 1
                        /\ IsImage(list[i]) => IsImage(list[i + 1])
    <3>1. opened'.shown[x] = w
      BY <2>5, <2>8
    <3> QED
      BY <2>2, <2>6, <2>7, <2>9, <3>1 DEF Shown
  <2> QED
    BY <2>10 DEF LinksHold
<1> QED
  BY <1>9, <1>10

\* Neighbouring rows of a window: the next piece, the pictures last.
Follows(r, s) == s.text[2] = r.text[2] + 1 /\ (IsImage(r) => IsImage(s))

\* What LinksHold says of a window, its rows and the citation it was opened by.
Linked(w, list, q) ==
    /\ w.target.text[1] = q.text[1] => w.target.text = q.text
    /\ \A i \in 1 .. Len(list) - 1 : Follows(list[i], list[i + 1])

LinksHoldOf(o, h) == \A n \in DOMAIN o.shown : Linked(o.shown[n], Shown(o.shown[n]), h[o.citation])

\* What an opened link shows stays.
LEMMA LinksStay ==
  RagInv /\ LinksHold /\ [Next]_vars => LinksHold'
<1> SUFFICES ASSUME RagInv, LinksHold, [Next]_vars PROVE LinksHold'
  OBVIOUS
<1>1. CASE \E c \in 1 .. MaxAsked * TopK, context \in 0 .. 1 : Open(c, context)
  BY <1>1, OpenShows
<1>2. CASE opened' = opened /\ (phase # "answered" \/ hits' = hits)
  <2>1. CASE phase # "answered"
    <3>1. opened'.shown = <<>>
      BY <1>2, <2>1 DEF RagInv, LinkTyped, NotOpened
    <3>2. DOMAIN opened'.shown = {}
      BY <3>1
    <3> QED
      BY <3>2 DEF LinksHold
  <2>2. CASE hits' = hits
    <3>1. LinksHoldOf(opened, hits)
      BY Zenon DEF LinksHold, LinksHoldOf, Linked, Shown, Follows
    <3>2. LinksHoldOf(opened', hits')
      BY <1>2, <2>2, <3>1
    <3>3. ASSUME NEW x \in DOMAIN opened'.shown
          PROVE  LET window == opened'.shown[x]
                     list == window.before \o <<window.target>> \o window.after
                 IN /\ window.target.text[1] = hits'[opened'.citation].text[1]
                         => window.target.text = hits'[opened'.citation].text
                    /\ \A i \in 1 .. Len(list) - 1 :
                         /\ list[i + 1].text[2] = list[i].text[2] + 1
                         /\ IsImage(list[i]) => IsImage(list[i + 1])
      <4>1. Linked(opened'.shown[x], Shown(opened'.shown[x]), hits'[opened'.citation])
        BY <3>2, Zenon DEF LinksHoldOf
      <4>2. PICK w : w = opened'.shown[x]
        OBVIOUS
      <4>3. PICK q : q = hits'[opened'.citation]
        OBVIOUS
      <4>4. PICK list : list = Shown(w)
        OBVIOUS
      <4>5. Linked(w, list, q)
        BY <4>1, <4>2, <4>3, <4>4
      <4>6. w.target.text[1] = q.text[1] => w.target.text = q.text
        BY <4>5 DEF Linked
      <4>7. ASSUME NEW i \in 1 .. Len(list) - 1
            PROVE  /\ list[i + 1].text[2] = list[i].text[2] + 1
                   /\ IsImage(list[i]) => IsImage(list[i + 1])
        <5>1. Follows(list[i], list[i + 1])
          BY <4>5, Zenon DEF Linked
        <5> QED
          BY <5>1, Zenon DEF Follows
      <4>8. opened'.shown[x] = w
        BY <4>2
      <4>9. hits'[opened'.citation] = q
        BY <4>3
      <4> QED
        BY <4>4, <4>6, <4>7, <4>8, <4>9 DEF Shown
    <3> QED
      BY <3>3 DEF LinksHold
  <2> QED
    BY <1>2, <2>1, <2>2
<1>3. CASE \E f \in Files : StoreData(f) \/ StoreIndex(f) \/ \E d \in Docs \cup {NoDoc} : Clear(f, d)
  BY <1>2, <1>3 DEF StoreData, StoreIndex, Clear, requestVars
<1>4. CASE \E n \in 1 .. MaxAsked : \E kbs \in [1 .. n -> Kbs] : Ask(kbs)
  BY <1>2, <1>4 DEF Ask
<1>5. CASE Search
  BY <1>2, <1>5 DEF Search
<1>6. CASE SearchFails
  BY <1>2, <1>6 DEF SearchFails
<1>7. CASE Answer
  BY <1>2, <1>7 DEF Answer
<1>8. CASE \E k \in Kbs : \E fs \in SUBSET FilesOf(k) : HitTest(k, fs)
  BY <1>2, <1>8 DEF HitTest
<1>9. CASE UNCHANGED vars
  BY <1>2, <1>9 DEF vars
<1> QED
  BY <1>1, <1>3, <1>4, <1>5, <1>6, <1>7, <1>8, <1>9 DEF Next

\* The invariant holds of every behaviour.
THEOREM RequestsAreAnswered == Spec => []RagInv
<1> QED
  BY RagInvStarts, RagInvStays, PTL DEF Spec

\* TypeOK: every file's rows are of its document, an answer has waited for every search, and
\* a citation has a file and a score (search_data, _retrieve_citations).
THEOREM RetrievalTypeCorrect == Spec => []TypeOK
<1> QED
  BY RequestsAreAnswered, RagInvIsTypeOK, PTL

\* HitsAreBest: pictures stand alone, and nothing better is left out
\* (postprocess_search_hits, _retrieve_citations).
THEOREM AnswersAreBest == Spec => []HitsAreBest
<1> QED
  BY RequestsAreAnswered, RagInvIsHitsAreBest, PTL

\* CitationsHold: a citation stands for what was found (_retrieve_citations,
\* build_message_sources, get_file_chunk_with_context).
THEOREM CitationsAreFound == Spec => []CitationsHold
<1>1. Init => LinksHold
  <2> SUFFICES ASSUME Init PROVE LinksHold
    OBVIOUS
  <2>1. opened.shown = <<>>
    BY DEF Init, NotOpened
  <2>2. DOMAIN opened.shown = {}
    BY <2>1
  <2> QED
    BY <2>2 DEF LinksHold
<1>2. RagInv /\ LinksHold => CitationsHold
  BY RagInvIsCitedAsNamed, RagInvIsNumbersLeadBack DEF CitationsHold
<1> QED
  BY <1>1, <1>2, RequestsAreAnswered, LinksStay, PTL DEF Spec

-----------------------------------------------------------------------------
(* The windows of TextChunker.split.                                       *)

\* What is left of the loop lies ahead of all chunks: while it runs, no chunk is the last
\* one of the text, each ends before the end and began before the window at start.
Behind ==
  running => \A c \in chunks : /\ c.start < start
                               /\ c.end = c.start + size /\ c.end < length

\* Chunks are numbered from 0 without gaps at the end.
Numbered == \A c \in chunks : c.id < index

\* All characters before the window are covered.
CoveredSoFar == \A p \in Positions \ blank :
                  p < start \/ ~running => \E c \in chunks : Has(c, p)

\* The window is placed as a neighbour of the last chunk.
Placed ==
  running => \A c \in chunks : c.id = index - 1 =>
               \/ c.end - start = overlap
               \/ \A p \in c.end .. start + overlap - 1 : p \in blank

SplitInv ==
  /\ SplitTypeOK /\ Behind /\ Numbered /\ CoveredSoFar /\ Placed
  /\ NoneContained /\ NeighboursOverlap

-----------------------------------------------------------------------------
\* The window is not empty and lies in the text; the last one is the one that ends with it.
LEMMA WindowFacts ==
  ASSUME SplitTypeOK, running
  PROVE  /\ End \in Nat /\ Stride \in Nat
         /\ start < End /\ End <= length /\ End <= start + size
         /\ 0 < Stride /\ Stride + overlap = size
         /\ End # length => End = start + size /\ start + size < length
  BY SplitAssumption DEF SplitTypeOK, End, Stride

\* One turn adds nothing, over a blank window, or the chunk of the window.
LEMMA ChunkFacts ==
  ASSUME SplitTypeOK, running
  PROVE  \/ NewChunks = {} /\ \A p \in start .. End - 1 : p \in blank
         \/ NewChunks = {[id |-> index, start |-> start, end |-> End]}
  BY DEF NewChunks

\* The constructor's parameters and a stripped text satisfy the invariant.
LEMMA SplitInitial == Split => SplitInv
  <1> SUFFICES ASSUME Split PROVE SplitInv
    OBVIOUS
  <1>1. size \in Nat \ {0} /\ overlap \in 0 .. size - 1 /\ length \in Nat
    BY SplitAssumption DEF Split
  <1>2. SplitTypeOK
    <2>1. running \in BOOLEAN /\ (running => 0 < length)
      <3>1. running = (length > 0)
        BY DEF Split
      <3>2. (length > 0) \in BOOLEAN
        OBVIOUS
      <3>3. running => length > 0
        BY <3>1, Zenon
      <3> QED
        BY <1>1, <3>1, <3>2, <3>3
    <2>2. start = 0 /\ index = 0 /\ chunks = {} /\ blank \subseteq 0 .. length - 1
      BY DEF Split
    <2>3. size \in 1 .. MaxSize /\ length \in 0 .. MaxLength
      BY DEF Split
    <2> QED
      BY <1>1, <2>1, <2>2, <2>3 DEF SplitTypeOK, Positions
  <1>3. CoveredSoFar
    <2>1. ~running => length = 0
      <3>1. CASE length > 0
        <4>1. running = TRUE
          BY <3>1 DEF Split
        <4> QED
          BY <4>1
      <3>2. CASE ~(length > 0)
        BY <1>1, <3>2
      <3> QED
        BY <3>1, <3>2
    <2>2. start = 0
      BY DEF Split
    <2>3. \A p \in Positions : ~(p < start) /\ running
      BY <1>1, <2>1, <2>2 DEF Positions
    <2> QED
      BY <2>3 DEF CoveredSoFar
  <1> QED
    BY <1>2, <1>3 DEF Split, SplitInv, Behind, Numbered, Placed, NoneContained,
                      NeighboursOverlap

\* The type invariant is kept.
LEMMA SplitTypeStep ==
  ASSUME SplitTypeOK, Loop
  PROVE  SplitTypeOK'
  <1>1. UNCHANGED <<size, overlap, length, blank, Positions>> /\ running
    BY DEF Loop, textVars, Positions
  <1>2. chunks' \subseteq [id : Nat, start : Nat, end : Nat] /\ index' \in Nat
    BY <1>1, ChunkFacts, WindowFacts DEF Loop, SplitTypeOK
  <1>3. start' \in Nat /\ running' \in BOOLEAN /\ (running' => start' < length)
    <2>1. /\ start \in Nat /\ length \in Nat /\ size \in Nat /\ overlap \in Nat
          /\ Stride \in Nat /\ Stride + overlap = size
      BY <1>1, WindowFacts, SplitAssumption DEF SplitTypeOK
    <2>2. CASE End = length
      BY <2>1, <2>2 DEF Loop
    <2>3. CASE End # length
      <3>1. start' = start + Stride /\ running' = TRUE /\ start + size < length
        BY <1>1, <2>3, WindowFacts DEF Loop
      <3> QED
        BY <2>1, <3>1
    <2> QED
      BY <2>2, <2>3
  <1> QED
    BY <1>1, <1>2, <1>3 DEF SplitTypeOK

\* A turn keeps the invariant.
LEMMA SplitStep ==
  ASSUME SplitInv, Loop
  PROVE  SplitInv'
  <1> USE DEF SplitInv
  <1>1. UNCHANGED <<size, overlap, length, blank, Positions>> /\ running
    BY DEF Loop, textVars, Positions
  <1>2. SplitTypeOK'
    BY SplitTypeStep
  <1>3. /\ size \in Nat /\ overlap \in Nat /\ length \in Nat /\ start \in Nat /\ index \in Nat
        /\ chunks \subseteq [id : Nat, start : Nat, end : Nat]
    BY SplitAssumption DEF SplitTypeOK
  <1>4. \A c \in chunks : /\ c.id \in Nat /\ c.start \in Nat /\ c.end \in Nat
                          /\ c.id < index /\ c.start < start
                          /\ c.end = c.start + size /\ c.end < length
    BY <1>1, <1>3 DEF Behind, Numbered
  <1>5. ASSUME running'
        PROVE  start' = start + Stride /\ End = start + size /\ start + size < length
    BY <1>1, <1>5, WindowFacts DEF Loop
  <1>6. ASSUME ~running' PROVE End = length
    BY <1>6 DEF Loop
  <1>7. CASE NewChunks = {} /\ \A p \in start .. End - 1 : p \in blank
    <2>1. chunks' = chunks /\ index' = index
      BY <1>7 DEF Loop
    <2>2. Behind'
      BY <1>1, <1>3, <1>4, <1>5, <2>1, WindowFacts DEF Behind
    <2>3. Numbered' /\ NoneContained' /\ NeighboursOverlap'
      BY <1>1, <2>1 DEF Numbered, NoneContained, NeighboursOverlap
    <2>4. CoveredSoFar'
      <3> SUFFICES ASSUME NEW p \in Positions \ blank, p < start' \/ ~running'
                   PROVE  \E c \in chunks : Has(c, p)
        BY <1>1, <2>1 DEF CoveredSoFar, Has
      <3>1. p \in Int /\ p < length /\ 0 <= p
        BY <1>3 DEF Positions
      <3>2. p < End
        BY <1>1, <1>3, <1>5, <1>6, <3>1, WindowFacts
      <3>3. p < start
        BY <1>1, <1>3, <1>7, <3>1, <3>2, WindowFacts
      <3> QED
        BY <3>3 DEF CoveredSoFar
    <2>5. Placed'
      <3>1. ASSUME running', NEW c \in chunks, c.id = index - 1,
                   NEW p \in Int, c.end <= p, p < start + size
            PROVE  p \in blank
        <4>1. p < End
          BY <1>5, <3>1
        <4>2. CASE start <= p
          BY <1>3, <1>7, <3>1, <4>1, <4>2, WindowFacts, <1>1
        <4>3. CASE p < start
          BY <1>3, <1>4, <1>1, <3>1, <4>3 DEF Placed
        <4> QED
          BY <1>3, <3>1, <4>2, <4>3
      <3>2. ASSUME running' PROVE start' + overlap = start + size /\ start' \in Int
        BY <1>1, <1>3, <1>5, <3>2, WindowFacts
      <3>3. ASSUME running', NEW c \in chunks PROVE
              \A p \in c.end .. start' + overlap - 1 : p \in Int /\ c.end <= p /\ p < start + size
        BY <1>3, <1>4, <3>2, <3>3
      <3> QED
        BY <1>1, <2>1, <3>1, <3>3 DEF Placed
    <2> QED
      BY <1>2, <2>2, <2>3, <2>4, <2>5
  <1>8. CASE NewChunks = {[id |-> index, start |-> start, end |-> End]}
    <2> DEFINE new == [id |-> index, start |-> start, end |-> End]
    <2>1. chunks' = chunks \cup {new} /\ index' = index + 1
      BY <1>8 DEF Loop
    <2>2. new.id = index /\ new.start = start /\ new.end = End
      OBVIOUS
    <2> HIDE DEF new
    <2>3. /\ End \in Nat /\ Stride \in Nat /\ start < End /\ End <= length
          /\ End <= start + size /\ 0 < Stride /\ Stride + overlap = size
      BY <1>1, WindowFacts
    <2>4. Behind'
      BY <1>1, <1>3, <1>4, <1>5, <2>1, <2>2, <2>3 DEF Behind
    <2>5. Numbered'
      BY <1>3, <1>4, <2>1, <2>2 DEF Numbered
    <2>6. \A c \in chunks : c.start < start /\ c.end < End
      BY <1>1, <1>3, <1>4, WindowFacts
    <2>7. NoneContained'
      <3>1. \A c \in chunks' : c.start < c.end /\ c.end <= c.start + size'
        BY <1>1, <2>1, <2>2, <2>3 DEF NoneContained
      <3>2. ASSUME NEW c \in chunks', NEW d \in chunks', c.id < d.id
            PROVE  c.start < d.start /\ c.end < d.end
        <4>1. CASE c \in chunks /\ d \in chunks
          BY <3>2, <4>1 DEF NoneContained
        <4>2. CASE c \in chunks /\ d = new
          BY <4>2, <2>2, <2>6
        <4>3. CASE c = new
          BY <1>3, <1>4, <2>1, <2>2, <3>2, <4>3
        <4> QED
          BY <2>1, <4>1, <4>2, <4>3
      <3> QED
        BY <3>1, <3>2 DEF NoneContained
    <2>8. CoveredSoFar'
      <3> SUFFICES ASSUME NEW p \in Positions \ blank, p < start' \/ ~running'
                   PROVE  \E c \in chunks' : Has(c, p)
        BY <1>1 DEF CoveredSoFar, Has
      <3>1. p \in Int /\ p < length /\ 0 <= p
        BY <1>3 DEF Positions
      <3>2. p < End
        BY <1>1, <1>3, <1>5, <1>6, <2>3, <3>1
      <3>3. CASE p < start
        BY <2>1, <3>3 DEF CoveredSoFar
      <3>4. CASE start <= p
        BY <2>1, <2>2, <3>2, <3>4 DEF Has
      <3> QED
        BY <1>3, <3>1, <3>3, <3>4
    <2>9. NeighboursOverlap'
      <3> SUFFICES ASSUME NEW c \in chunks', NEW d \in chunks', d.id = c.id + 1
                   PROVE  \/ c.end - d.start = overlap
                          \/ \A p \in c.end .. d.start + overlap - 1 : p \in blank
        BY <1>1 DEF NeighboursOverlap
      <3>1. CASE c \in chunks /\ d \in chunks
        BY <3>1 DEF NeighboursOverlap
      <3>2. CASE c \in chunks /\ d = new
        <4>1. c.id = index - 1 /\ d.start = start
          BY <1>3, <1>4, <2>2, <3>2
        <4> QED
          BY <1>1, <3>2, <4>1 DEF Placed
      <3>3. CASE c = new
        BY <1>3, <1>4, <2>1, <2>2, <3>3
      <3> QED
        BY <2>1, <3>1, <3>2, <3>3
    <2>10. Placed'
      <3> SUFFICES ASSUME running', NEW c \in chunks', c.id = index' - 1
                   PROVE  c.end - start' = overlap
        BY <1>1 DEF Placed
      <3>1. c = new
        BY <1>3, <1>4, <2>1, <2>2
      <3> QED
        BY <1>3, <1>5, <2>2, <2>3, <3>1
    <2> QED
      BY <1>2, <2>4, <2>5, <2>7, <2>8, <2>9, <2>10
  <1> QED
    BY <1>1, <1>7, <1>8, ChunkFacts

\* Stuttering keeps it.
LEMMA SplitStutter ==
  ASSUME SplitInv, UNCHANGED loopVars
  PROVE  SplitInv'
  BY DEF loopVars, textVars, SplitInv, SplitTypeOK, Behind, Numbered, CoveredSoFar, Placed,
         NoneContained, NeighboursOverlap, Positions, Has

\* The invariant of the loop.
LEMMA SplitInvariant == SplitSpec => []SplitInv
  <1>1. SplitInv /\ [Loop]_loopVars => SplitInv'
    BY SplitStep, SplitStutter
  <1> QED
    BY SplitInitial, <1>1, PTL DEF SplitSpec

-----------------------------------------------------------------------------
\* The loop's variables have their types for every size, overlap and text.
THEOREM SplitTypeCorrect == SplitSpec => []SplitTypeOK
  BY SplitInvariant, PTL DEF SplitInv

\* split drops no character that is not blank.
THEOREM SplitCovers == SplitSpec => []AllCovered
  <1>1. SplitInv => AllCovered
    BY DEF SplitInv, CoveredSoFar, AllCovered
  <1> QED
    BY SplitInvariant, <1>1, PTL

\* No chunk of split repeats what another one has already.
THEOREM SplitRepeatsNone == SplitSpec => []NoneContained
  BY SplitInvariant, PTL DEF SplitInv

\* Chunks with consecutive numbers share `overlap' characters, or only blank lies between.
THEOREM SplitOverlaps == SplitSpec => []NeighboursOverlap
  BY SplitInvariant, PTL DEF SplitInv

\* Every turn of the loop moves forward or is the last.
THEOREM SplitAdvances == SplitSpec => Advances
  <1>1. SplitInv /\ [Loop]_loopVars => [running' => start < start']_loopVars
    <2> SUFFICES ASSUME SplitInv, Loop, running' PROVE start < start'
      OBVIOUS
    <2>1. running /\ SplitTypeOK /\ start \in Nat
      BY DEF Loop, SplitInv, SplitTypeOK
    <2> QED
      BY <2>1, WindowFacts DEF Loop
  <1> QED
    BY SplitInvariant, <1>1, PTL DEF SplitSpec, Advances

\* For every text, size and overlap the chunks have all of it (TextChunker.split).
THEOREM SplitIsACover == SplitSpec => []ChunksCover
  BY SplitCovers, SplitRepeatsNone, SplitOverlaps, PTL DEF ChunksCover
=============================================================================

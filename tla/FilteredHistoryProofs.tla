------------------------- MODULE FilteredHistoryProofs -------------------------
(* Theorems about ContextFilter and the histories it is applied to, for every *)
(* value of their constants.                                                  *)
EXTENDS FilteredHistory, SequenceFacts, SequenceTheorems, FiniteSetTheorems, TLAPS

-----------------------------------------------------------------------------
(* What is kept of a sequence. *)

\* How many of the places I come up to i.
Rank(I, i) == Cardinality({j \in I : j <= i})

\* Places are finitely many, and their ranks are counted one by one.
LEMMA RankSteps ==
  ASSUME NEW n \in Nat, NEW I \in SUBSET (1..n)
  PROVE  /\ IsFiniteSet(I) /\ Cardinality(I) \in 0..n
         /\ Rank(I, 0) = 0 /\ Rank(I, n) = Cardinality(I)
         /\ \A i \in Nat : /\ Rank(I, i) \in Nat
                           /\ i + 1 \notin I => Rank(I, i + 1) = Rank(I, i)
                           /\ i + 1 \in I => Rank(I, i + 1) = Rank(I, i) + 1
<1>1. IsFiniteSet(1..n) /\ Cardinality(1..n) = n
  BY FS_Interval
<1>2. /\ IsFiniteSet(I) /\ Cardinality(I) \in Nat /\ Cardinality(I) <= n
  BY <1>1, FS_Subset, FS_CardinalityType
<1>0. \A j \in I : j \in Nat /\ 1 <= j /\ j <= n
  OBVIOUS
<1>3. {j \in I : j <= 0} = {} /\ {j \in I : j <= n} = I
  <2>1. \A j \in I : ~ (j <= 0) /\ j <= n
    BY <1>0
  <2> QED BY ONLY <2>1
<1>4. ASSUME NEW i \in Nat
      PROVE  /\ Rank(I, i) \in Nat
             /\ i + 1 \notin I => Rank(I, i + 1) = Rank(I, i)
             /\ i + 1 \in I => Rank(I, i + 1) = Rank(I, i) + 1
  <2> DEFINE A == {j \in I : j <= i}
             B == {j \in I : j <= i + 1}
  <2>1. A \subseteq I
    OBVIOUS
  <2>2. IsFiniteSet(A) /\ Cardinality(A) \in Nat
    BY <1>2, <2>1, FS_Subset, FS_CardinalityType
  <2>0. \A j \in I : j <= i + 1 <=> j <= i \/ j = i + 1
    BY <1>0
  <2>3. i + 1 \notin I => B = A
    BY <2>0
  <2>4. i + 1 \in I => B = A \union {i + 1} /\ i + 1 \notin A
    <3>1. ~ (i + 1 <= i) /\ \A j \in I : j <= i => j # i + 1
      BY <1>0
    <3> QED BY ONLY <2>0, <3>1 DEF A, B
  <2> HIDE DEF A, B
  <2>5. i + 1 \in I => Cardinality(B) = Cardinality(A) + 1
    BY <2>2, <2>4, FS_AddElement
  <2>6. Rank(I, i) = Cardinality(A) /\ Rank(I, i + 1) = Cardinality(B)
    BY DEF Rank, A, B
  <2> QED BY <2>2, <2>3, <2>5, <2>6
<1>5. Rank(I, 0) = 0 /\ Rank(I, n) = Cardinality(I)
  BY <1>3, FS_EmptySet DEF Rank
<1> QED BY <1>2, <1>4, <1>5

\* A later place has a higher rank.
LEMMA RankGrows ==
  ASSUME NEW n \in Nat, NEW I \in SUBSET (1..n), NEW i \in Nat, NEW j \in Nat
  PROVE  /\ i <= j => Rank(I, i) <= Rank(I, j)
         /\ i < j /\ j \in I => Rank(I, i) < Rank(I, j)
<1>1. \A k \in Nat : i <= k => Rank(I, i) <= Rank(I, k)
  <2> SUFFICES ASSUME NEW k \in Nat, i <= k PROVE Rank(I, i) <= Rank(I, k)
    OBVIOUS
  <2> DEFINE A == {l \in I : l <= i}
             B == {l \in I : l <= k}
  <2>1. A \subseteq B /\ B \subseteq I
    <3>1. \A l \in I : l \in Nat
      OBVIOUS
    <3>2. \A l \in I : l <= i => l <= k
      BY <3>1
    <3> QED BY <3>2
  <2>2. IsFiniteSet(B)
    BY <2>1, RankSteps, FS_Subset
  <2>3. Cardinality(A) <= Cardinality(B)
    BY <2>1, <2>2, FS_Subset
  <2> QED BY <2>3 DEF Rank
<1>2. ASSUME i < j, j \in I PROVE Rank(I, i) < Rank(I, j)
  <2>1. j - 1 \in Nat /\ i <= j - 1 /\ (j - 1) + 1 = j
    BY <1>2
  <2>2. Rank(I, j) = Rank(I, j - 1) + 1
    <3>1. \A h \in Nat : h + 1 \in I => Rank(I, h + 1) = Rank(I, h) + 1
      BY RankSteps
    <3> QED BY <1>2, <2>1, <3>1
  <2>3. Rank(I, i) <= Rank(I, j - 1)
    BY <1>1, <2>1
  <2>4. Rank(I, i) \in Nat /\ Rank(I, j - 1) \in Nat
    BY <2>1, RankSteps
  <2> QED BY <2>2, <2>3, <2>4
<1> QED BY <1>1, <1>2

\* Nth is the inverse of Rank.
LEMMA NthFacts ==
  ASSUME NEW n \in Nat, NEW I \in SUBSET (1..n)
  PROVE  /\ \A k \in 1..Cardinality(I) : Nth(I, k) \in I /\ Rank(I, Nth(I, k)) = k
         /\ \A i \in I : Rank(I, i) \in 1..Cardinality(I) /\ Nth(I, Rank(I, i)) = i
         /\ \A k, l \in 1..Cardinality(I) : k < l => Nth(I, k) < Nth(I, l)
<1>1. /\ Cardinality(I) \in 0..n /\ Rank(I, 0) = 0 /\ Rank(I, n) = Cardinality(I)
      /\ \A i \in Nat : /\ Rank(I, i) \in Nat
                        /\ i + 1 \notin I => Rank(I, i + 1) = Rank(I, i)
                        /\ i + 1 \in I => Rank(I, i + 1) = Rank(I, i) + 1
  BY RankSteps
<1>2. \A i, j \in I : Rank(I, i) = Rank(I, j) => i = j
  <2> SUFFICES ASSUME NEW i \in I, NEW j \in I, i < j PROVE Rank(I, i) # Rank(I, j)
    OBVIOUS
  <2>1. i \in Nat /\ j \in Nat
    OBVIOUS
  <2>2. Rank(I, i) < Rank(I, j)
    BY <2>1, RankGrows
  <2> QED BY <1>1, <2>1, <2>2
<1>3. ASSUME NEW k \in 1..Cardinality(I) PROVE \E i \in I : Rank(I, i) = k
  <2> DEFINE Up == {i \in 0..n : Rank(I, i) >= k}
  <2>1. Up \subseteq Nat /\ n \in Up
    BY <1>1, <1>3
  <2>2. PICK i \in Up : \A j \in Up : i <= j
    BY <2>1, LeastExists
  <2>3. i # 0
    BY <1>1, <1>3, <2>2
  <2>4. i - 1 \in Nat /\ i - 1 \notin Up /\ i - 1 \in 0..n /\ (i - 1) + 1 = i
    BY <2>2, <2>3
  <2>5. Rank(I, i - 1) \in Nat /\ Rank(I, i - 1) < k
    BY <1>1, <1>3, <2>4
  <2>6. Rank(I, i) >= k /\ Rank(I, i) \in Nat
    BY <1>1, <2>2
  <2>7. i \in I /\ Rank(I, i) = Rank(I, i - 1) + 1
    BY <1>1, <2>4, <2>5, <2>6
  <2> QED BY <1>3, <2>5, <2>6, <2>7
<1>4. ASSUME NEW k \in 1..Cardinality(I) PROVE Nth(I, k) \in I /\ Rank(I, Nth(I, k)) = k
  <2>1. Nth(I, k) = CHOOSE i \in I : Rank(I, i) = k
    BY DEF Nth, Rank
  <2> QED BY <1>3, <2>1
<1>5. ASSUME NEW i \in I PROVE Rank(I, i) \in 1..Cardinality(I)
  <2>1. i \in Nat /\ i <= n /\ 0 < i /\ 0 \in Nat
    OBVIOUS
  <2>2. Rank(I, 0) < Rank(I, i) /\ Rank(I, i) <= Rank(I, n)
    BY <2>1, RankGrows
  <2> QED BY <1>1, <2>1, <2>2
<1>6. \A i \in I : Nth(I, Rank(I, i)) = i
  BY <1>2, <1>4, <1>5
<1>7. ASSUME NEW k \in 1..Cardinality(I), NEW l \in 1..Cardinality(I), k < l
      PROVE  Nth(I, k) < Nth(I, l)
  <2> DEFINE i == Nth(I, k)
             j == Nth(I, l)
  <2>1. i \in I /\ j \in I /\ Rank(I, i) = k /\ Rank(I, j) = l
    BY <1>4
  <2> HIDE DEF i, j
  <2>2. i \in Nat /\ j \in Nat
    BY <2>1
  <2>3. j <= i => Rank(I, j) <= Rank(I, i)
    BY <2>2, RankGrows
  <2>4. i < j
    BY <1>7, <2>1, <2>2, <2>3
  <2> QED BY <2>4 DEF i, j
<1> QED BY <1>4, <1>5, <1>6, <1>7

\* Rising functions.
Rises(f, m) == \A k, l \in 1..m : k < l => f[k] < f[l]

\* Who lists the places in their order has Nth.
Lists(f, m, I, n) == /\ I \in SUBSET (1..n) /\ Cardinality(I) = m
                     /\ \A k \in 1..m : Nth(I, k) = f[k]
\* So f is Nth of the places it lists.
LEMMA Enumerates ==
  ASSUME NEW n \in Nat, NEW m \in Nat, NEW f \in [1..m -> 1..n], Rises(f, m),
         NEW I, I = {f[k] : k \in 1..m}
  PROVE  Lists(f, m, I, n)
<1>1. I \in SUBSET (1..n)
  OBVIOUS
<1>2. \A k, l \in 1..m : f[k] = f[l] => k = l
  <2> SUFFICES ASSUME NEW k \in 1..m, NEW l \in 1..m, f[k] = f[l], k # l PROVE FALSE
    OBVIOUS
  <2>1. k \in Int /\ l \in Int /\ f[k] \in Int /\ f[l] \in Int
    OBVIOUS
  <2>2. k < l \/ l < k
    BY <2>1
  <2>3. f[k] < f[l] \/ f[l] < f[k]
    BY <2>2 DEF Rises
  <2> QED BY <2>1, <2>3
<1>3. ASSUME NEW k \in 0..m PROVE Cardinality({f[l] : l \in 1..k}) = k
  <2> DEFINE T == {f[l] : l \in 1..k}
             g == [l \in 1..k |-> f[l]]
  <2>1. k \in Nat /\ 1..k \subseteq 1..m
    OBVIOUS
  <2>2. g \in [1..k -> T] /\ (\A l \in 1..k : g[l] = f[l]) /\ \A t \in T : \E l \in 1..k : g[l] = t
    OBVIOUS
  <2> HIDE DEF g, T
  <2>3. g \in Bijection(1..k, T)
    BY <1>2, <2>1, <2>2 DEF Bijection, Injection, Surjection, IsInjective
  <2>4. ExistsBijection(1..k, T)
    BY <2>3 DEF ExistsBijection
  <2>5. Cardinality(T) = k
    BY <2>1, <2>4, FS_CountingElements
  <2> QED BY <2>5 DEF T
<1>4. Cardinality(I) = m
  BY <1>3
<1>5. ASSUME NEW k \in 1..m PROVE Nth(I, k) = f[k]
  <2>1. {j \in I : j <= f[k]} = {f[l] : l \in 1..k}
    <3>1. \A l \in 1..m : f[l] <= f[k] <=> l <= k
      <4> SUFFICES ASSUME NEW l \in 1..m PROVE f[l] <= f[k] <=> l <= k
        OBVIOUS
      <4>1. /\ l \in Int /\ k \in Int /\ f[l] \in Int /\ f[k] \in Int
            /\ l < k => f[l] < f[k]
            /\ k < l => f[k] < f[l]
        BY DEF Rises
      <4> QED BY <4>1
    <3>2. 1..k = {l \in 1..m : l <= k}
      OBVIOUS
    <3> QED BY <3>1, <3>2
  <2>2. Rank(I, f[k]) = k
    <3>1. k \in 0..m
      OBVIOUS
    <3>2. Cardinality({f[l] : l \in 1..k}) = k
      BY <1>3, <3>1
    <3> QED BY <2>1, <3>2 DEF Rank
  <2>3. f[k] \in I
    OBVIOUS
  <2>4. Nth(I, Rank(I, f[k])) = f[k]
    BY <1>1, <2>3, NthFacts
  <2> QED BY <2>2, <2>4
<1> QED BY <1>1, <1>4, <1>5 DEF Lists

\* What is kept of s.
KeptFrom(t, s, n, I) ==
  /\ IsSeq(t) /\ Len(t) = Cardinality(I)
  /\ Cardinality(I) \in 0..n /\ DOMAIN t = 1..Cardinality(I)
  /\ \A k \in 1..Cardinality(I) : t[k] = s[Nth(I, k)] /\ Nth(I, k) \in I
  /\ \A i \in I : \E k \in 1..Cardinality(I) : Nth(I, k) = i
\* Keep keeps the messages or blocks at the places I, in their order.
LEMMA KeepFacts ==
  ASSUME NEW n \in Nat, NEW I \in SUBSET (1..n), NEW s
  PROVE  KeptFrom(Keep(s, I), s, n, I)
<1>1. Cardinality(I) \in 0..n /\ Cardinality(I) \in Nat
  BY RankSteps
<1>2. Keep(s, I) = [k \in 1..Cardinality(I) |-> s[Nth(I, k)]]
  BY DEF Keep
<1>3. \A k \in 1..Cardinality(I) : Nth(I, k) \in I
  BY NthFacts
<1>4. \A i \in I : \E k \in 1..Cardinality(I) : Nth(I, k) = i
  BY NthFacts, ZenonT(60)
<1> DEFINE t == Keep(s, I)
<1>5. t = [k \in 1..Cardinality(I) |-> t[k]] /\ \A k \in 1..Cardinality(I) : t[k] = s[Nth(I, k)]
  BY <1>2
<1> HIDE DEF t
<1>6. IsSeq(t) /\ Len(t) = Cardinality(I) /\ DOMAIN t = 1..Cardinality(I)
  BY <1>1, <1>5, FunctionIsSeq
<1> QED BY <1>1, <1>3, <1>4, <1>5, <1>6 DEF t, KeptFrom

\* Places next to each other stay so, and the place before the first kept is none.
LEMMA NthNext ==
  ASSUME NEW n \in Nat, NEW I \in SUBSET (1..n), NEW k \in 1..Cardinality(I)
  PROVE  /\ Nth(I, k) + 1 \in I => k + 1 \in 1..Cardinality(I) /\ Nth(I, k + 1) = Nth(I, k) + 1
         /\ Nth(I, k) - 1 \in I => k - 1 \in 1..Cardinality(I) /\ Nth(I, k - 1) = Nth(I, k) - 1
         /\ Nth(I, k) = 1 => k = 1
<1> DEFINE i == Nth(I, k)
<1>1. Cardinality(I) \in Nat /\ k \in Nat
  BY RankSteps
<1>2. i \in I /\ Rank(I, i) = k
  BY NthFacts
<1> HIDE DEF i
<1>3. i \in Nat /\ 1 <= i /\ i - 1 \in Nat /\ (i - 1) + 1 = i
  BY <1>2
<1>4. \A h \in Nat : h + 1 \in I => Rank(I, h + 1) = Rank(I, h) + 1
  BY RankSteps
<1>5. \A j \in I : Rank(I, j) \in 1..Cardinality(I) /\ Nth(I, Rank(I, j)) = j
  BY NthFacts
<1>6. Rank(I, i) = Rank(I, i - 1) + 1 /\ Rank(I, 0) = 0 /\ Rank(I, i - 1) \in Nat
  BY <1>2, <1>3, <1>4, RankSteps
<1>7. ASSUME i + 1 \in I PROVE k + 1 \in 1..Cardinality(I) /\ Nth(I, k + 1) = i + 1
  <2>1. Rank(I, i + 1) = k + 1
    BY <1>2, <1>3, <1>4, <1>7
  <2> QED BY <1>5, <1>7, <2>1
<1>8. ASSUME i - 1 \in I PROVE k - 1 \in 1..Cardinality(I) /\ Nth(I, k - 1) = i - 1
  <2>1. Rank(I, i - 1) = k - 1
    BY <1>1, <1>2, <1>6
  <2> QED BY <1>5, <1>8, <2>1
<1>9. i = 1 => k = 1
  BY <1>1, <1>2, <1>6
<1> QED BY <1>7, <1>8, <1>9 DEF i

\* The last place stays the last.
LEMMA KeepLast ==
  ASSUME NEW n \in Nat, NEW I \in SUBSET (1..n), n \in I, NEW s
  PROVE  /\ Len(Keep(s, I)) \in Nat \ {0}
         /\ Keep(s, I)[Len(Keep(s, I))] = s[n]
<1>1. Rank(I, n) = Cardinality(I)
  BY RankSteps
<1>2. Cardinality(I) \in 1..Cardinality(I) /\ Nth(I, Cardinality(I)) = n
  <2>1. Rank(I, n) \in 1..Cardinality(I) /\ Nth(I, Rank(I, n)) = n
    BY NthFacts
  <2> QED BY <1>1, <2>1
<1>3. Cardinality(I) \in 0..n
  BY RankSteps
<1> QED BY <1>2, <1>3, KeepFacts DEF KeptFrom

\* No more of one set than of another that it is mapped into.
LEMMA CountInto ==
  ASSUME NEW n \in Nat, NEW T \in SUBSET (1..n), NEW S, NEW g \in [S -> T],
         \A x, y \in S : g[x] = g[y] => x = y
  PROVE  Cardinality(S) <= Cardinality(T)
<1>1. IsFiniteSet(T)
  BY RankSteps
<1>2. g \in Injection(S, T)
  BY DEF Injection, IsInjective
<1> QED BY <1>1, <1>2, FS_Injection

\* The last r of the places P are r at most.
LEMMA LastFew ==
  ASSUME NEW n \in Nat, NEW P \in SUBSET (1..n), NEW r \in Nat
  PROVE  Cardinality({i \in P : Cardinality({j \in P : j >= i}) <= r}) <= r
<1> DEFINE Q == {i \in P : Cardinality({j \in P : j >= i}) <= r}
<1>0. Q \subseteq P /\ P \subseteq Nat
  OBVIOUS
<1>1. CASE Q = {}
  <2> HIDE DEF Q
  <2>1. Cardinality(Q) = 0
    BY <1>1, FS_EmptySet
  <2> QED BY <2>1 DEF Q
<1>2. CASE Q # {}
  <2>1. Q \subseteq Nat
    BY <1>0
  <2>2. PICK i \in Q : \A j \in Q : i <= j
    BY <1>2, <2>1, LeastExists
  <2> DEFINE L == {j \in P : j >= i}
  <2>3. L \in SUBSET (1..n) /\ Cardinality(L) <= r
    BY <2>2
  <2>4. Q \subseteq L
    <3>1. \A j \in Q : j >= i
      BY <2>1, <2>2
    <3> QED BY <3>1
  <2> HIDE DEF Q, L
  <2>5. Q \in SUBSET (1..n)
    BY <2>3, <2>4
  <2>6. Cardinality(Q) <= Cardinality(L) /\ Cardinality(Q) \in Nat /\ Cardinality(L) \in Nat
    <3>1. IsFiniteSet(L) /\ Cardinality(L) \in 0..n /\ Cardinality(Q) \in 0..n
      BY <2>3, <2>5, RankSteps
    <3>2. Cardinality(Q) <= Cardinality(L)
      BY <2>4, <3>1, FS_Subset
    <3> QED BY <3>1, <3>2
  <2> QED BY <2>3, <2>6 DEF Q
<1> QED BY <1>1, <1>2

-----------------------------------------------------------------------------
(* Parts of a sequence. *)

\* All of s but its first d.
Rest(t, s, d) == /\ IsSeq(t) /\ d \in 0..Len(s) /\ Len(t) = Len(s) - d
                 /\ \A k \in 1..Len(t) : t[k] = s[d + k]

\* Keeping all places but the first d.
LEMMA KeepTail ==
  ASSUME NEW s, IsSeq(s), NEW d \in 0..Len(s), NEW I, I = (d + 1)..Len(s)
  PROVE  Rest(Keep(s, I), s, d)
<1> DEFINE n == Len(s)
           m == n - d
           f == [k \in 1..m |-> d + k]
<1>1. n \in Nat /\ m \in Nat
  BY SeqIsFunction
<1>2. f \in [1..m -> 1..n] /\ Rises(f, m) /\ \A k \in 1..m : f[k] = d + k
  BY <1>1 DEF Rises
<1>3. I = {f[k] : k \in 1..m}
  <2>1. \A i \in I : i - d \in 1..m /\ d + (i - d) = i
    BY <1>1
  <2>2. \A k \in 1..m : d + k \in I
    BY <1>1
  <2> QED BY <1>2, <2>1, <2>2, ZenonT(60)
<1> HIDE DEF f, m
<1>4. /\ I \in SUBSET (1..n) /\ Cardinality(I) = m
      /\ \A k \in 1..m : Nth(I, k) = f[k]
  <2>1. Lists(f, m, I, n)
    BY <1>1, <1>2, <1>3, Enumerates
  <2> QED BY <2>1 DEF Lists
<1>5. /\ IsSeq(Keep(s, I)) /\ Len(Keep(s, I)) = Cardinality(I)
      /\ \A k \in 1..Cardinality(I) : Keep(s, I)[k] = s[Nth(I, k)]
  BY <1>1, <1>4, KeepFacts DEF KeptFrom
<1>6. \A k \in 1..m : Keep(s, I)[k] = s[d + k]
  BY <1>2, <1>4, <1>5
<1> QED BY <1>1, <1>4, <1>5, <1>6 DEF Rest, m

\* What DropLeading leaves begins at the first message that fails the test.
LEMMA Leading ==
  ASSUME NEW s, IsSeq(s), NEW B \in SUBSET (1..Len(s)),
         NEW I, I = {i \in 1..Len(s) : \E j \in 1..i : j \in B}
  PROVE  \E d \in 0..Len(s) : Rest(Keep(s, I), s, d) /\ (d < Len(s) => d + 1 \in B)
<1>1. Len(s) \in Nat
  BY SeqIsFunction
<1>2. \A j \in B : j \in Nat /\ 1 <= j /\ j <= Len(s)
  BY <1>1
<1>3. CASE B = {}
  <2>1. I = (Len(s) + 1)..Len(s) /\ Len(s) \in 0..Len(s)
    BY <1>1, <1>3
  <2>2. Rest(Keep(s, I), s, Len(s))
    BY <2>1, KeepTail
  <2>3. ~ (Len(s) < Len(s))
    BY <1>1
  <2> QED BY <2>1, <2>2, <2>3
<1>4. CASE B # {}
  <2>1. PICK p \in B : \A j \in B : p <= j
    BY <1>2, <1>4, LeastExists
  <2> DEFINE d == p - 1
  <2>2. d \in 0..Len(s) /\ d + 1 = p
    BY <1>1, <1>2, <2>1
  <2>3. \A i \in 1..Len(s) : (\E j \in 1..i : j \in B) <=> p <= i
    BY <1>1, <1>2, <2>1
  <2>4. (d + 1)..Len(s) = {i \in 1..Len(s) : p <= i}
    BY <1>1, <1>2, <2>1
  <2>5. I = (d + 1)..Len(s)
    BY <2>3, <2>4
  <2> QED BY <2>1, <2>2, <2>5, KeepTail
<1> QED BY <1>3, <1>4

\* A part of c in its order.
Within(b, c) ==
  /\ IsSeq(b)
  /\ \E f \in [1..Len(b) -> 1..Len(c)] : Rises(f, Len(b)) /\ \A k \in 1..Len(b) : b[k] = c[f[k]]

\* It is what IsSubsequence means.
LEMMA WithinIsSubsequence ==
  ASSUME NEW b, NEW c, IsSeq(c), Within(b, c)
  PROVE  IsSubsequence(b, c)
<1>1. PICK f \in [1..Len(b) -> 1..Len(c)] :
        Rises(f, Len(b)) /\ \A k \in 1..Len(b) : b[k] = c[f[k]]
  BY DEF Within
<1> DEFINE I == {f[k] : k \in 1..Len(b)}
<1>2. Len(b) \in Nat /\ Len(c) \in Nat /\ DOMAIN c = 1..Len(c) /\ b = [k \in 1..Len(b) |-> b[k]]
  BY SeqIsFunction DEF Within
<1>3. /\ I \in SUBSET (1..Len(c)) /\ Cardinality(I) = Len(b)
      /\ \A k \in 1..Len(b) : Nth(I, k) = f[k]
  <2>1. Lists(f, Len(b), I, Len(c))
    BY <1>1, <1>2, Enumerates
  <2> QED BY <2>1 DEF Lists
<1> HIDE DEF I
<1>4. Keep(c, I) = [k \in 1..Len(b) |-> c[Nth(I, k)]]
  BY <1>3 DEF Keep
<1>5. Keep(c, I) = b
  BY <1>1, <1>2, <1>3, <1>4
<1> QED BY <1>2, <1>3, <1>5 DEF IsSubsequence

\* A sequence is a part of itself.
LEMMA WithinSelf == ASSUME NEW c, IsSeq(c) PROVE Within(c, c)
<1> DEFINE f == [k \in 1..Len(c) |-> k]
<1>1. f \in [1..Len(c) -> 1..Len(c)] /\ Rises(f, Len(c)) /\ \A k \in 1..Len(c) : f[k] = k
  BY DEF Rises
<1> QED BY <1>1 DEF Within

\* What is kept of a part is a part.
LEMMA WithinKeep ==
  ASSUME NEW b, NEW c, Within(b, c), NEW J \in SUBSET (1..Len(b))
  PROVE  Within(Keep(b, J), c)
<1>1. PICK f \in [1..Len(b) -> 1..Len(c)] :
        Rises(f, Len(b)) /\ \A k \in 1..Len(b) : b[k] = c[f[k]]
  BY DEF Within
<1>2. Len(b) \in Nat
  BY SeqIsFunction DEF Within
<1> DEFINE m == Cardinality(J)
           t == Keep(b, J)
<1>3. /\ IsSeq(t) /\ Len(t) = m
      /\ \A k \in 1..m : t[k] = b[Nth(J, k)] /\ Nth(J, k) \in J
  <2>1. KeptFrom(t, b, Len(b), J)
    BY <1>2, KeepFacts
  <2> QED BY <2>1 DEF KeptFrom
<1>4. \A k, l \in 1..m : k < l => Nth(J, k) < Nth(J, l)
  BY <1>2, NthFacts
<1> HIDE DEF m, t
<1> DEFINE g == [k \in 1..m |-> f[Nth(J, k)]]
<1>5. g \in [1..m -> 1..Len(c)] /\ \A k \in 1..m : g[k] = f[Nth(J, k)]
  BY <1>3
<1> HIDE DEF g
<1>6. Rises(g, m)
  BY <1>1, <1>3, <1>4, <1>5, ZenonT(60) DEF Rises
<1>7. \A k \in 1..m : t[k] = c[g[k]]
  BY <1>1, <1>3, <1>5, ZenonT(60)
<1> QED BY <1>3, <1>5, <1>6, <1>7 DEF Within, t

-----------------------------------------------------------------------------
(* Messages. *)

IsMessage(m) == m = [at |-> m.at, role |-> m.role, blocks |-> m.blocks]

\* The messages of s are messages of h in their order, and their blocks are
\* blocks of those.
IsPart(m, h) == /\ IsMessage(m) /\ m.at \in 1..Len(h) /\ m.role = h[m.at].role
                /\ Within(m.blocks, h[m.at].blocks)
Part(s, h) == /\ IsSeq(s)
              /\ \A i \in 1..Len(s) : IsPart(s[i], h)
              /\ \A i, j \in 1..Len(s) : i < j => s[i].at < s[j].at

\* What is kept of the messages.
LEMMA PartKeep ==
  ASSUME NEW h, NEW s, Part(s, h), NEW I \in SUBSET (1..Len(s))
  PROVE  Part(Keep(s, I), h)
<1>1. Len(s) \in Nat
  BY SeqIsFunction DEF Part
<1> DEFINE t == Keep(s, I)
           m == Cardinality(I)
<1>2. /\ IsSeq(t) /\ Len(t) = m
      /\ \A k \in 1..m : t[k] = s[Nth(I, k)] /\ Nth(I, k) \in I
  BY <1>1, KeepFacts DEF KeptFrom
<1>3. \A k, l \in 1..m : k < l => Nth(I, k) < Nth(I, l)
  BY <1>1, NthFacts
<1> HIDE DEF t, m
<1>4. \A k \in 1..m : IsPart(t[k], h)
  BY <1>2 DEF Part
<1>5. \A k, l \in 1..m : k < l => t[k].at < t[l].at
  BY <1>2, <1>3 DEF Part
<1> QED BY <1>2, <1>4, <1>5 DEF Part, t

\* The messages without the first.
LEMMA PartTail ==
  ASSUME NEW h, NEW s, Part(s, h), NEW t, NEW d, Rest(t, s, d)
  PROVE  Part(t, h)
<1>1. Len(s) \in Nat
  BY SeqIsFunction DEF Part
<1>2. /\ IsSeq(t) /\ d \in 0..Len(s) /\ Len(t) = Len(s) - d
      /\ \A k \in 1..Len(t) : t[k] = s[d + k]
  BY DEF Rest
<1>3. \A k \in 1..Len(t) : d + k \in 1..Len(s)
  BY <1>1, <1>2
<1>4. \A k, l \in 1..Len(t) : k < l => d + k < d + l
  BY <1>1, <1>2
<1>5. \A k \in 1..Len(t) : IsPart(t[k], h)
  BY <1>2, <1>3 DEF Part
<1>6. \A k, l \in 1..Len(t) : k < l => t[k].at < t[l].at
  BY <1>2, <1>3, <1>4 DEF Part
<1> QED BY <1>2, <1>5, <1>6 DEF Part

\* The same messages with fewer blocks.
LEMMA PartFewerBlocks ==
  ASSUME NEW h, NEW s, Part(s, h), NEW u, IsSeq(u), Len(u) = Len(s),
         \A i \in 1..Len(s) : /\ IsMessage(u[i]) /\ u[i].at = s[i].at /\ u[i].role = s[i].role
                              /\ Within(u[i].blocks, h[s[i].at].blocks)
  PROVE  Part(u, h)
<1>1. \A i \in 1..Len(s) : IsPart(u[i], h)
  BY DEF Part, IsPart
<1> QED BY <1>1 DEF Part

-----------------------------------------------------------------------------
(* The histories. *)

\* Some text, and after it n tool blocks, numbered by their ids.
Tooled(m, type, a, pre, n) ==
  /\ IsSeq(m.blocks) /\ Len(m.blocks) = pre + n
  /\ \A j \in 1..pre : m.blocks[j] = Text
  /\ \A k \in 1..n : m.blocks[pre + k].type = type /\ m.blocks[pre + k].id = <<a, k>>
Asks(m, a, pre, n) == m.role = "assistant" /\ Tooled(m, "use", a, pre, n)
Answers(m, a, n) == m.role = "user" /\ Tooled(m, "result", a, 0, n)

Plain(m) == m.role \in {"user", "assistant"} /\ m.blocks = <<Text>>
Request(m) == \E a : \E pre \in {0, 1}, n \in Nat : Asks(m, a, pre, n)
Response(m) == \E a : \E n \in Nat : Answers(m, a, n)
Entry(m) == Plain(m) \/ Request(m) \/ Response(m)

HistoryOk(h) ==
  /\ IsSeq(h)
  /\ \A i \in 1..Len(h) : IsMessage(h[i]) /\ h[i].at = i /\ Entry(h[i])

\* The kinds of blocks that a message of tool calls or of results has.
BlockKinds(m, type, pre, n) ==
  /\ DOMAIN m.blocks = 1..(pre + n)
  /\ \A j \in 1..(pre + n) : j \in 1..pre \/ j \in (pre + 1)..(pre + n)
  /\ \A j \in 1..pre : m.blocks[j].type = "text"
  /\ \A j \in (pre + 1)..(pre + n) : m.blocks[j].type = type
\* A message of tool calls has text and then uses, one of results only results.
LEMMA TooledBlocks ==
  ASSUME NEW m, NEW type, NEW a, NEW pre \in {0, 1}, NEW n \in Nat, Tooled(m, type, a, pre, n)
  PROVE  BlockKinds(m, type, pre, n)
<1>1. DOMAIN m.blocks = 1..(pre + n)
  BY SeqIsFunction DEF Tooled
<1>2. ASSUME NEW j \in (pre + 1)..(pre + n) PROVE m.blocks[j].type = type
  <2>1. j - pre \in 1..n /\ pre + (j - pre) = j
    OBVIOUS
  <2> QED BY <2>1 DEF Tooled
<1>3. \A j \in 1..(pre + n) : j \in 1..pre \/ j \in (pre + 1)..(pre + n)
  OBVIOUS
<1>4. \A j \in 1..pre : m.blocks[j].type = "text"
  BY DEF Tooled, Text
<1> QED BY <1>1, <1>2, <1>3, <1>4 DEF BlockKinds

\* Who has said what: a person answers for tools and the assistant asks for them.
LEMMA EntryFacts ==
  ASSUME NEW h, HistoryOk(h), NEW i \in 1..Len(h)
  PROVE  /\ h[i].role \in {"user", "assistant"} /\ IsSeq(h[i].blocks)
         /\ h[i].role = "user" => ~ HasUses(h[i])
         /\ h[i].role = "assistant" => ~ IsResultMessage(h[i])
         /\ HasUses(h[i]) => Request(h[i])
         /\ IsResultMessage(h[i]) => Response(h[i])
<1>1. CASE Plain(h[i])
  <2>1. h[i].blocks = <<Text>> /\ DOMAIN <<Text>> = {1} /\ <<Text>>[1] = Text
    BY <1>1 DEF Plain
  <2>2. <<Text>> \in Seq({Text})
    OBVIOUS
  <2>3. Text.type = "text"
    BY DEF Text
  <2>4. ~ HasUses(h[i]) /\ ~ IsResultMessage(h[i])
    BY <2>1, <2>3 DEF HasUses, IsResultMessage, IsUse, IsResult
  <2> QED BY <1>1, <2>1, <2>2, <2>4 DEF Plain, IsSeq
<1>2. CASE Request(h[i])
  <2>1. PICK a : \E pre \in {0, 1}, n \in Nat : Asks(h[i], a, pre, n)
    BY <1>2 DEF Request
  <2>0. PICK pre \in {0, 1}, n \in Nat : Asks(h[i], a, pre, n)
    BY <2>1
  <2>2. \A j \in DOMAIN h[i].blocks : h[i].blocks[j].type \in {"text", "use"}
    <3>1. Tooled(h[i], "use", a, pre, n)
      BY <2>0 DEF Asks
    <3>2. BlockKinds(h[i], "use", pre, n)
      BY <3>1, TooledBlocks
    <3> QED BY <3>2 DEF BlockKinds
  <2>3. ~ IsResultMessage(h[i])
    BY <2>2 DEF IsResultMessage, IsResult
  <2> QED BY <1>2, <2>0, <2>3 DEF Asks, Tooled
<1>3. CASE Response(h[i])
  <2>1. PICK a : \E n \in Nat : Answers(h[i], a, n)
    BY <1>3 DEF Response
  <2>0. PICK n \in Nat : Answers(h[i], a, n)
    BY <2>1
  <2>2. \A j \in DOMAIN h[i].blocks : h[i].blocks[j].type = "result"
    <3>1. Tooled(h[i], "result", a, 0, n)
      BY <2>0 DEF Answers
    <3>2. BlockKinds(h[i], "result", 0, n)
      BY <3>1, TooledBlocks
    <3>3. 1..0 = {}
      OBVIOUS
    <3> QED BY <3>2, <3>3 DEF BlockKinds
  <2>3. ~ HasUses(h[i])
    BY <2>2 DEF HasUses, IsUse
  <2> QED BY <1>3, <2>0, <2>3 DEF Answers, Tooled
<1> QED BY <1>1, <1>2, <1>3 DEF HistoryOk, Entry

\* One message more.
LEMMA HistoryGrows ==
  ASSUME NEW h, HistoryOk(h), NEW m, IsMessage(m), m.at = Len(h) + 1, Entry(m)
  PROVE  HistoryOk(Append(h, m))
<1> DEFINE g == Append(h, m)
           n == Len(h)
<1>1. /\ IsSeq(g) /\ n \in Nat /\ Len(g) = n + 1
      /\ (\A i \in 1..n : g[i] = h[i]) /\ g[n + 1] = m
  BY AppendIsSeq DEF HistoryOk
<1> HIDE DEF g
<1>2. \A i \in 1..(n + 1) : i \in 1..n \/ i = n + 1
  BY <1>1
<1> QED BY <1>1, <1>2 DEF HistoryOk, g

\* Some messages less, the others in their order.
LEMMA HistoryShrinks ==
  ASSUME HistoryOk(history), NEW I \in SUBSET (1..Len(history))
  PROVE  HistoryOk(Renumbered(I))
<1> DEFINE kept == Keep(history, I)
           g == Renumbered(I)
           m == Cardinality(I)
<1>1. Len(history) \in Nat
  BY SeqIsFunction DEF HistoryOk
<1>2. KeptFrom(kept, history, Len(history), I)
  BY <1>1, KeepFacts
<1>3. /\ m \in Nat /\ DOMAIN kept = 1..m
      /\ \A k \in 1..m : kept[k] = history[Nth(I, k)] /\ Nth(I, k) \in 1..Len(history)
  <2>1. /\ m \in 0..Len(history) /\ DOMAIN kept = 1..m
        /\ \A k \in 1..m : kept[k] = history[Nth(I, k)] /\ Nth(I, k) \in I
    BY <1>2 DEF KeptFrom
  <2> HIDE DEF kept, m
  <2>2. m \in Nat
    BY <1>1, <2>1
  <2>3. \A k \in 1..m : Nth(I, k) \in 1..Len(history)
    BY <2>1
  <2> QED BY <2>1, <2>2, <2>3
<1>4. g = [k \in 1..m |-> [kept[k] EXCEPT !.at = k]]
  BY <1>3 DEF Renumbered
<1> HIDE DEF kept, m
<1>5. g = [k \in 1..m |-> g[k]] /\ \A k \in 1..m : g[k] = [kept[k] EXCEPT !.at = k]
  BY <1>4
<1> HIDE DEF g
<1>6. IsSeq(g) /\ Len(g) = m
  BY <1>3, <1>5, FunctionIsSeq
<1>7. ASSUME NEW k \in 1..m PROVE IsMessage(g[k]) /\ g[k].at = k /\ Entry(g[k])
  <2> DEFINE o == history[Nth(I, k)]
  <2>1. IsMessage(o) /\ Entry(o) /\ g[k] = [o EXCEPT !.at = k]
    BY <1>3, <1>5 DEF HistoryOk
  <2> HIDE DEF o
  <2>2. g[k] = [at |-> k, role |-> o.role, blocks |-> o.blocks]
    BY <2>1 DEF IsMessage
  <2>3. g[k].at = k /\ g[k].role = o.role /\ g[k].blocks = o.blocks
    BY <2>2
  <2>4. IsMessage(g[k])
    BY <2>2, <2>3 DEF IsMessage
  <2>5. Entry(g[k])
    <3>1. Plain(o) => Plain(g[k])
      BY <2>3 DEF Plain
    <3>2. Request(o) => Request(g[k])
      <4>1. \A a, pre, n : Asks(o, a, pre, n) => Asks(g[k], a, pre, n)
        BY <2>3 DEF Asks, Tooled
      <4> QED BY <4>1 DEF Request
    <3>3. Response(o) => Response(g[k])
      BY <2>3 DEF Response, Answers, Tooled
    <3> QED BY <2>1, <3>1, <3>2, <3>3 DEF Entry
  <2> QED BY <2>3, <2>4, <2>5
<1> QED BY <1>6, <1>7 DEF HistoryOk, g

\* One message rewritten as a text.
LEMMA HistoryRewritten ==
  ASSUME HistoryOk(history), NEW i \in 1..Len(history)
  PROVE  HistoryOk([history EXCEPT ![i].blocks = <<Text>>])
<1> DEFINE g == [history EXCEPT ![i].blocks = <<Text>>]
           n == Len(history)
<1>1. n \in Nat /\ DOMAIN history = 1..n
  BY SeqIsFunction DEF HistoryOk
<1>2. /\ g = [k \in 1..n |-> g[k]]
      /\ \A k \in 1..n : g[k] = IF k = i THEN [history[k] EXCEPT !.blocks = <<Text>>] ELSE history[k]
  BY <1>1
<1> HIDE DEF g
<1>3. IsSeq(g) /\ Len(g) = n
  BY <1>1, <1>2, FunctionIsSeq
<1>4. ASSUME NEW k \in 1..n PROVE IsMessage(g[k]) /\ g[k].at = k /\ Entry(g[k])
  <2>1. IsMessage(history[k]) /\ history[k].at = k /\ Entry(history[k])
    BY DEF HistoryOk
  <2>2. CASE k # i
    BY <1>2, <2>1, <2>2
  <2>3. CASE k = i
    <3>1. g[k] = [at |-> k, role |-> history[k].role, blocks |-> <<Text>>]
      BY <1>2, <2>1, <2>3 DEF IsMessage
    <3>2. g[k].at = k /\ g[k].role = history[k].role /\ g[k].blocks = <<Text>>
      BY <3>1
    <3>3. history[k].role \in {"user", "assistant"}
      BY EntryFacts
    <3>4. IsMessage(g[k])
      BY <3>1, <3>2 DEF IsMessage
    <3> QED BY <3>2, <3>3, <3>4 DEF Entry, Plain
  <2> QED BY <2>2, <2>3
<1> QED BY <1>3, <1>4 DEF HistoryOk, g

\* A batch of tool calls, numbered by their ids.
Call(u) == u = [type |-> "use", id |-> u.id, call |-> u.call]
Batch(uses, a, n) == /\ IsSeq(uses) /\ Len(uses) = n /\ DOMAIN uses = 1..n
                     /\ \A k \in 1..n : Call(uses[k]) /\ uses[k].type = "use" /\ uses[k].id = <<a, k>>
IsBatch(uses) == \E a : \E n \in Nat : Batch(uses, a, n)

Histories == /\ HistoryOk(history) /\ config \in Configs
             /\ \A uses \in open : IsBatch(uses)

\* However calls on one thread overlap, and whatever is deleted or rewritten
\* meanwhile, each message of the history is a text, a request with ids of its own
\* number, or results with the ids of one request, in order.
THEOREM HistoriesOfCalls == Spec => []Histories
<1>1. Init => Histories
  <2> SUFFICES ASSUME Init PROVE Histories
    OBVIOUS
  <2>1. history = <<>> /\ <<>> \in Seq({}) /\ Len(<<>>) = 0 /\ 1..0 = {}
    BY DEF Init
  <2>2. IsSeq(history) /\ 1..Len(history) = {}
    BY <2>1 DEF IsSeq
  <2> QED BY <2>2 DEF Init, Histories, HistoryOk
<1>2. ASSUME Histories, Next PROVE Histories'
  <2> DEFINE n == Len(history)
  <2>1. HistoryOk(history) /\ n \in Nat /\ DOMAIN history = 1..n
    BY <1>2, SeqIsFunction DEF Histories, HistoryOk
  <2>2. ASSUME NEW role, NEW blocks, Add(role, blocks), Entry(Message(role, blocks))
        PROVE  HistoryOk(history)' /\ (config \in Configs)'
    <3>1. /\ IsMessage(Message(role, blocks)) /\ Message(role, blocks).at = n + 1
      BY DEF Message, IsMessage
    <3>2. history' = Append(history, Message(role, blocks)) /\ config' = config
      BY <2>2 DEF Add
    <3>3. HistoryOk(Append(history, Message(role, blocks)))
      BY <2>1, <2>2, <3>1, HistoryGrows
    <3> QED BY <1>2, <3>2, <3>3 DEF Histories
  <2>3. \A role, blocks : Message(role, blocks).role = role /\ Message(role, blocks).blocks = blocks
    BY DEF Message
  <2>4. CASE AddUser
    <3>1. Entry(Message("user", <<Text>>))
      BY <2>3 DEF Entry, Plain
    <3> QED BY <1>2, <2>2, <2>4, <3>1 DEF AddUser, Histories
  <2>5. CASE AddReply
    <3>1. Entry(Message("assistant", <<Text>>))
      BY <2>3 DEF Entry, Plain
    <3> QED BY <1>2, <2>2, <2>5, <3>1 DEF AddReply, Histories
  <2>6. CASE AddToolUse
    <3>1. PICK calls \in Batches :
            /\ \E text \in {<<>>, <<Text>>} : Add("assistant", text \o Uses(calls))
            /\ open' = open \union {Uses(calls)}
      BY <2>6 DEF AddToolUse
    <3>2. PICK text \in {<<>>, <<Text>>} : Add("assistant", text \o Uses(calls))
      BY <3>1
    <3> DEFINE uses == Uses(calls)
               blocks == text \o uses
               pre == Len(text)
               k == Len(calls)
               a == stored + 1
               m == Message("assistant", blocks)
    <3>3. k \in Nat /\ DOMAIN calls = 1..k
      BY BatchesAssumption
    <3> HIDE DEF k
    <3>4. /\ uses = [j \in 1..k |-> uses[j]]
          /\ \A j \in 1..k : uses[j] = [type |-> "use", id |-> <<a, j>>, call |-> calls[j]]
      BY <3>3 DEF Uses
    <3> HIDE DEF uses, a
    <3>5. IsSeq(uses) /\ Len(uses) = k /\ DOMAIN uses = 1..k
      BY <3>3, <3>4, FunctionIsSeq
    <3>6. \A j \in 1..k : Call(uses[j]) /\ uses[j].type = "use" /\ uses[j].id = <<a, j>>
      BY <3>4 DEF Call
    <3>7. IsBatch(uses)
      BY <3>3, <3>5, <3>6 DEF IsBatch, Batch
    <3>8. IsSeq(text) /\ pre \in {0, 1} /\ \A j \in 1..pre : text[j] = Text
      <4>1. /\ <<>> \in Seq({Text}) /\ Len(<<>>) = 0 /\ 1..0 = {}
            /\ <<Text>> \in Seq({Text}) /\ Len(<<Text>>) = 1 /\ 1..1 = {1} /\ <<Text>>[1] = Text
        OBVIOUS
      <4>2. CASE text = <<>>
        BY <4>1, <4>2 DEF IsSeq
      <4>3. CASE text = <<Text>>
        BY <4>1, <4>3 DEF IsSeq
      <4> QED BY <4>2, <4>3
    <3>9. /\ IsSeq(blocks) /\ Len(blocks) = pre + k
          /\ \A j \in 1..pre : blocks[j] = text[j]
          /\ \A j \in 1..k : blocks[pre + j] = uses[j]
      BY <3>5, <3>8, ConcatIsSeq
    <3> HIDE DEF blocks, pre
    <3>10. m.role = "assistant" /\ m.blocks = blocks
      BY <2>3
    <3> HIDE DEF m
    <3>11. Tooled(m, "use", a, pre, k)
      BY <3>6, <3>8, <3>9, <3>10 DEF Tooled
    <3>12. Entry(m)
      BY <3>3, <3>8, <3>10, <3>11 DEF Entry, Request, Asks
    <3>13. HistoryOk(history)' /\ (config \in Configs)'
      BY <2>2, <3>2, <3>12 DEF m, blocks, uses
    <3>14. \A u \in open' : IsBatch(u)
      BY <1>2, <3>1, <3>7 DEF Histories, uses
    <3> QED BY <3>13, <3>14 DEF Histories
  <2>7. CASE AddToolResult
    <3>1. PICK uses \in open :
            /\ Add("user", [i \in DOMAIN uses |-> [uses[i] EXCEPT !.type = "result"]])
            /\ open' = open \ {uses}
      BY <2>7 DEF AddToolResult
    <3>2. IsBatch(uses)
      BY <1>2 DEF Histories
    <3>3. PICK a : \E k \in Nat : Batch(uses, a, k)
      BY <3>2 DEF IsBatch
    <3>4. PICK k \in Nat : Batch(uses, a, k)
      BY <3>3
    <3> DEFINE blocks == [i \in DOMAIN uses |-> [uses[i] EXCEPT !.type = "result"]]
               m == Message("user", blocks)
    <3>5. /\ blocks = [i \in 1..k |-> blocks[i]]
          /\ \A j \in 1..k : blocks[j] = [uses[j] EXCEPT !.type = "result"]
      BY <3>4 DEF Batch
    <3> HIDE DEF blocks
    <3>6. \A j \in 1..k : blocks[j] = [type |-> "result", id |-> <<a, j>>, call |-> uses[j].call]
      <4> TAKE j \in 1..k
      <4>1. uses[j] = [type |-> "use", id |-> uses[j].id, call |-> uses[j].call] /\ uses[j].id = <<a, j>>
        BY <3>4 DEF Batch, Call
      <4>2. blocks[j] = [uses[j] EXCEPT !.type = "result"]
        BY <3>5
      <4> QED BY ONLY <4>1, <4>2
    <3>7. IsSeq(blocks) /\ Len(blocks) = k
      BY <3>5, FunctionIsSeq
    <3>8. m.role = "user" /\ m.blocks = blocks
      BY <2>3
    <3> HIDE DEF m
    <3>9. Tooled(m, "result", a, 0, k)
      <4>1. 0 + k = k /\ 1..0 = {} /\ \A j \in 1..k : 0 + j = j
        OBVIOUS
      <4> QED BY <3>6, <3>7, <3>8, <4>1 DEF Tooled
    <3>10. Entry(m)
      BY <3>8, <3>9 DEF Entry, Response, Answers
    <3>11. HistoryOk(history)' /\ (config \in Configs)'
      BY <2>2, <3>1, <3>10 DEF m, blocks
    <3> QED BY <1>2, <3>1, <3>11 DEF Histories
  <2>8. CASE EditHistory
    <3>1. PICK i \in 1..n : DeleteMessage(i) \/ DeleteMessagesAfter(i) \/ UpdateMessage(i)
      BY <2>1, <2>8 DEF EditHistory
    <3>2. ASSUME DeleteMessage(i) PROVE HistoryOk(history')
      <4>1. DOMAIN history \ {i} \in SUBSET (1..n)
        BY <2>1
      <4> QED BY <2>1, <3>2, <4>1, HistoryShrinks DEF DeleteMessage
    <3>3. ASSUME DeleteMessagesAfter(i) PROVE HistoryOk(history')
      <4>1. 1..i \in SUBSET (1..n)
        BY <2>1
      <4> QED BY <2>1, <3>3, <4>1, HistoryShrinks DEF DeleteMessagesAfter
    <3>4. ASSUME UpdateMessage(i) PROVE HistoryOk(history')
      BY <2>1, <3>4, HistoryRewritten DEF UpdateMessage
    <3>5. HistoryOk(history')
      BY <3>1, <3>2, <3>3, <3>4
    <3> QED BY <1>2, <2>8, <3>5 DEF EditHistory, Histories
  <2> QED BY <1>2, <2>4, <2>5, <2>6, <2>7, <2>8 DEF Next
<1>3. Histories /\ UNCHANGED vars => Histories'
  BY DEF Histories, vars
<1> QED BY <1>1, <1>2, <1>3, PTL DEF Spec

-----------------------------------------------------------------------------
(* The steps of the filter. *)

\* The messages of a part say what the history's do.
LEMMA PartFacts ==
  ASSUME NEW h, HistoryOk(h), NEW s, Part(s, h), NEW i \in 1..Len(s)
  PROVE  /\ s[i].role \in {"user", "assistant"} /\ IsSeq(s[i].blocks)
         /\ s[i].role = "user" => ~ HasUses(s[i])
         /\ s[i].role = "assistant" => ~ IsResultMessage(s[i])
<1> DEFINE m == s[i]
           o == h[m.at]
<1>1. m.at \in 1..Len(h) /\ m.role = o.role /\ Within(m.blocks, o.blocks)
  BY DEF Part, IsPart
<1>2. /\ o.role \in {"user", "assistant"} /\ IsSeq(o.blocks)
      /\ o.role = "user" => ~ HasUses(o)
      /\ o.role = "assistant" => ~ IsResultMessage(o)
  BY <1>1, EntryFacts
<1> HIDE DEF m, o
<1>3. PICK f \in [1..Len(m.blocks) -> 1..Len(o.blocks)] :
        \A k \in 1..Len(m.blocks) : m.blocks[k] = o.blocks[f[k]]
  BY <1>1 DEF Within
<1>4. IsSeq(m.blocks) /\ DOMAIN m.blocks = 1..Len(m.blocks) /\ DOMAIN o.blocks = 1..Len(o.blocks)
  BY <1>1, <1>2, SeqIsFunction DEF Within
<1>5. HasUses(m) => HasUses(o)
  BY <1>3, <1>4 DEF HasUses
<1>6. IsResultMessage(m) => IsResultMessage(o)
  BY <1>3, <1>4 DEF IsResultMessage
<1> QED BY <1>1, <1>2, <1>4, <1>5, <1>6 DEF m

\* The pairs of messages that the history has right behind one another.
OwnPairs(s) == {i \in PairEnds(s) : s[i].at = s[i - 1].at + 1}

\* Without the first messages there are no more of anything.
LEMMA RestFacts ==
  ASSUME NEW h, NEW s, Part(s, h), NEW t, NEW d, Rest(t, s, d)
  PROVE  /\ Part(t, h) /\ Len(t) \in Nat /\ Len(s) \in Nat /\ Len(t) <= Len(s)
         /\ \A k \in 1..Len(t) : d + k \in 1..Len(s) /\ t[k] = s[d + k]
         /\ Cardinality(OwnPairs(t)) <= Cardinality(OwnPairs(s))
<1>1. Part(t, h)
  BY PartTail
<1>2. /\ Len(s) \in Nat /\ Len(t) \in Nat /\ d \in 0..Len(s) /\ Len(t) = Len(s) - d
      /\ DOMAIN s = 1..Len(s) /\ DOMAIN t = 1..Len(t)
      /\ \A k \in 1..Len(t) : t[k] = s[d + k]
  BY SeqIsFunction DEF Rest, Part
<1>3. \A k \in 1..Len(t) : d + k \in 1..Len(s) /\ (k > 1 => d + k > 1 /\ k - 1 \in 1..Len(t)
                                                    /\ d + (k - 1) = (d + k) - 1)
  BY <1>2
<1>5. Cardinality(OwnPairs(t)) <= Cardinality(OwnPairs(s))
  <2> DEFINE g == [k \in OwnPairs(t) |-> d + k]
  <2>1. OwnPairs(s) \in SUBSET (1..Len(s)) /\ OwnPairs(t) \subseteq 1..Len(t)
    BY <1>2 DEF OwnPairs, PairEnds
  <2>2. ASSUME NEW k \in OwnPairs(t) PROVE d + k \in OwnPairs(s)
    <3>1. /\ k \in 1..Len(t) /\ k # 1
          /\ t[k].role = "user" /\ IsResultMessage(t[k])
          /\ t[k - 1].role = "assistant" /\ HasUses(t[k - 1])
          /\ t[k].at = t[k - 1].at + 1
      BY <1>2, <2>2 DEF OwnPairs, PairEnds
    <3>2. k > 1
      BY <1>2, <3>1
    <3>3. /\ d + k \in 1..Len(s) /\ d + k # 1 /\ t[k] = s[d + k] /\ t[k - 1] = s[(d + k) - 1]
      BY <1>2, <1>3, <3>1, <3>2
    <3> QED BY <1>2, <3>1, <3>3 DEF OwnPairs, PairEnds
  <2>3. g \in [OwnPairs(t) -> OwnPairs(s)]
    BY <2>2
  <2>4. \A x, y \in OwnPairs(t) : g[x] = g[y] => x = y
    BY <1>2, <2>1
  <2> HIDE DEF g
  <2> QED BY <1>2, <2>1, <2>3, <2>4, CountInto
<1>6. Len(t) <= Len(s) /\ \A k \in 1..Len(t) : d + k \in 1..Len(s)
  BY <1>2
<1> QED BY <1>1, <1>2, <1>5, <1>6

\* A history is a part of itself.
LEMMA PartSelf == ASSUME NEW h, HistoryOk(h) PROVE Part(h, h)
<1>1. ASSUME NEW i \in 1..Len(h) PROVE IsPart(h[i], h)
  <2>1. IsMessage(h[i]) /\ h[i].at = i
    BY DEF HistoryOk
  <2>2. Within(h[i].blocks, h[i].blocks)
    BY EntryFacts, WithinSelf
  <2> QED BY <2>1, <2>2 DEF IsPart
<1>2. \A i, j \in 1..Len(h) : i < j => h[i].at < h[j].at
  BY DEF HistoryOk
<1> QED BY <1>1, <1>2 DEF Part, HistoryOk

\* Step 1: the last messages.
LEMMA Recent ==
  ASSUME NEW h, HistoryOk(h), NEW cfg, cfg.max \in Nat
  PROVE  \E d \in 0..Len(h) : /\ Rest(LastMessages(h, cfg), h, d)
                              /\ Len(LastMessages(h, cfg)) <= cfg.max
                              /\ cfg.max > 0 /\ Len(h) > 0 => Len(LastMessages(h, cfg)) > 0
<1> DEFINE n == Len(h)
           t == LastMessages(h, cfg)
<1>1. PICK S : h \in Seq(S)
  BY DEF HistoryOk, IsSeq
<1>2. n \in Nat
  BY <1>1
<1>3. CASE n > cfg.max
  <2> DEFINE d == n - cfg.max
  <2>1. d \in 0..n /\ d + 1 \in 1..(n + 1) /\ d \in Nat
    BY <1>2, <1>3
  <2>2. t = SubSeq(h, d + 1, n)
    BY <1>3 DEF LastMessages
  <2>3. t \in Seq(S) /\ Len(t) = n - d /\ \A k \in 1..(n - d) : t[k] = h[d + k]
    <3>1. n \in Int /\ d + 1 \in Int /\ n - (d + 1) + 1 = n - d /\ (d + 1 <= n \/ n - d = 0)
      BY <1>2, <2>1
    <3>2. \A i \in (d + 1)..n : h[i] \in S
      <4>1. \A i \in (d + 1)..n : i \in 1..n
        BY <1>2, <2>1
      <4> QED BY <1>1, <4>1
    <3> HIDE DEF d, t
    <3>3. /\ t \in Seq(S) /\ Len(t) = IF d + 1 <= n THEN n - (d + 1) + 1 ELSE 0
          /\ \A k \in 1..(n - (d + 1) + 1) : t[k] = h[(d + 1) + k - 1]
      BY ONLY <2>2, <3>1, <3>2, SubSeqProperties
    <3>4. \A k \in 1..(n - d) : (d + 1) + k - 1 = d + k
      BY <2>1
    <3>5. Len(t) = n - d
      BY <3>1, <3>3
    <3> QED BY <3>1, <3>3, <3>4, <3>5
  <2>4. n - d = cfg.max
    BY <1>2
  <2> HIDE DEF t, d
  <2>5. Rest(t, h, d)
    BY <2>1, <2>3 DEF Rest, IsSeq
  <2>6. Len(t) <= cfg.max /\ (cfg.max > 0 => Len(t) > 0)
    BY <2>3, <2>4
  <2> QED BY <2>1, <2>5, <2>6 DEF t
<1>4. CASE ~ (n > cfg.max)
  <2>1. t = h
    BY <1>4 DEF LastMessages
  <2>2. Rest(t, h, 0)
    BY <1>1, <1>2, <2>1 DEF Rest, IsSeq
  <2>3. 0 \in 0..n /\ Len(t) <= cfg.max /\ (n > 0 => Len(t) > 0)
    BY <1>2, <1>4, <2>1
  <2> QED BY <2>2, <2>3
<1> QED BY <1>3, <1>4

\* Step 2: tool uses of the assistant go, and what the user said stays.
Unrepeated(s, i) == {j \in DOMAIN s[i].blocks : ~ Repeated(s, i, j)}
Unique(s) == [i \in DOMAIN s |-> [s[i] EXCEPT !.blocks = Keep(s[i].blocks, Unrepeated(s, i))]]
Remaining(s) == {i \in DOMAIN s : s[i].blocks = <<>> \/ Keep(s[i].blocks, Unrepeated(s, i)) # <<>>}

\* apply_deduplicate: repeated tool uses go, and messages left without blocks.
LEMMA DeduplicatedIs == ASSUME NEW s PROVE Deduplicated(s) = Keep(Unique(s), Remaining(s))
BY DEF Deduplicated, Unique, Remaining, Unrepeated

\* A message without duplicates keeps its blocks.
LEMMA KeepAll == ASSUME NEW s, IsSeq(s) PROVE Keep(s, DOMAIN s) = s
<1>1. Len(s) \in Nat /\ DOMAIN s = (0 + 1)..Len(s) /\ 0 \in 0..Len(s) /\ s = [k \in 1..Len(s) |-> s[k]]
  BY SeqIsFunction
<1> DEFINE t == Keep(s, DOMAIN s)
<1>2. Rest(t, s, 0)
  BY <1>1, KeepTail
<1> HIDE DEF t
<1>3. t = [k \in 1..Len(t) |-> t[k]] /\ Len(t) = Len(s) /\ \A k \in 1..Len(t) : t[k] = s[k]
  <2>1. IsSeq(t) /\ Len(t) = Len(s) - 0 /\ \A k \in 1..Len(t) : t[k] = s[0 + k]
    BY <1>2 DEF Rest
  <2>2. t = [k \in 1..Len(t) |-> t[k]] /\ Len(t) \in Nat
    BY <2>1, SeqIsFunction
  <2>3. \A k \in 1..Len(t) : 0 + k = k
    BY <2>2
  <2> QED BY <1>1, <2>1, <2>2, <2>3
<1> QED BY <1>1, <1>3 DEF t

\* What it leaves is part of the history and no longer than before, and all that the
\* user said is left.
LEMMA DedupFacts ==
  ASSUME NEW h, HistoryOk(h), NEW s, Part(s, h)
  PROVE  /\ Part(Deduplicated(s), h) /\ Len(Deduplicated(s)) <= Len(s)
         /\ \A i \in 1..Len(s) : s[i].role = "user" => i \in Remaining(s) /\ Unique(s)[i] = s[i]
<1> DEFINE u == Unique(s)
           K == Remaining(s)
           t == Keep(u, K)
<1>1. IsSeq(s) /\ Len(s) \in Nat /\ DOMAIN s = 1..Len(s)
  BY SeqIsFunction DEF Part
<1>2. \A i \in 1..Len(s) :
        /\ IsMessage(u[i]) /\ u[i].at = s[i].at /\ u[i].role = s[i].role
        /\ u[i].blocks = Keep(s[i].blocks, Unrepeated(s, i))
  <2> SUFFICES ASSUME NEW i \in 1..Len(s)
               PROVE  /\ IsMessage(u[i]) /\ u[i].at = s[i].at /\ u[i].role = s[i].role
                      /\ u[i].blocks = Keep(s[i].blocks, Unrepeated(s, i))
    OBVIOUS
  <2> DEFINE b == Keep(s[i].blocks, Unrepeated(s, i))
  <2>1. u[i] = [s[i] EXCEPT !.blocks = b]
    BY <1>1 DEF Unique
  <2>2. s[i] = [at |-> s[i].at, role |-> s[i].role, blocks |-> s[i].blocks]
    BY DEF Part, IsPart, IsMessage
  <2> HIDE DEF b
  <2>3. u[i] = [at |-> s[i].at, role |-> s[i].role, blocks |-> b]
    BY <2>1, <2>2
  <2> QED BY <2>3 DEF IsMessage, b
<1>3. IsSeq(u) /\ Len(u) = Len(s)
  <2>1. u = [i \in 1..Len(s) |-> u[i]]
    BY <1>1 DEF Unique
  <2> HIDE DEF u
  <2> QED BY <1>1, <2>1, FunctionIsSeq
<1> HIDE DEF u
<1>4. Part(u, h)
  <2>1. ASSUME NEW i \in 1..Len(s) PROVE Within(u[i].blocks, h[s[i].at].blocks)
    <3>1. Within(s[i].blocks, h[s[i].at].blocks)
      BY DEF Part, IsPart
    <3>2. Unrepeated(s, i) \in SUBSET (1..Len(s[i].blocks))
      BY <3>1, SeqIsFunction DEF Unrepeated, Within
    <3>3. Within(Keep(s[i].blocks, Unrepeated(s, i)), h[s[i].at].blocks)
      BY <3>1, <3>2, WithinKeep
    <3> QED BY <1>2, <3>3
  <2> QED BY <1>2, <1>3, <2>1, PartFewerBlocks
<1>5. K \in SUBSET (1..Len(s))
  BY <1>1 DEF Remaining
<1>6. ASSUME NEW i \in 1..Len(s), s[i].role = "user" PROVE i \in K /\ u[i] = s[i]
  <2>1. IsSeq(s[i].blocks)
    BY DEF Part, IsPart, Within
  <2>2. Unrepeated(s, i) = DOMAIN s[i].blocks
    BY <1>6 DEF Unrepeated, Repeated
  <2>3. Keep(s[i].blocks, Unrepeated(s, i)) = s[i].blocks
    BY <2>1, <2>2, KeepAll
  <2>4. i \in K
    BY <1>1, <2>3 DEF Remaining
  <2>5. IsMessage(s[i])
    BY DEF Part, IsPart
  <2> QED BY <1>2, <2>3, <2>4, <2>5 DEF IsMessage
<1> HIDE DEF K
<1>7. Part(t, h)
  BY <1>3, <1>4, <1>5, PartKeep
<1>8. /\ Len(t) = Cardinality(K) /\ Cardinality(K) \in 0..Len(s)
      /\ \A k \in 1..Cardinality(K) : t[k] = u[Nth(K, k)] /\ Nth(K, k) \in K
  <2>1. KeptFrom(t, u, Len(s), K)
    BY <1>1, <1>5, KeepFacts
  <2> QED BY <2>1 DEF KeptFrom
<1> HIDE DEF t
<1>10. Deduplicated(s) = t /\ Len(t) <= Len(s)
  <2>1. Deduplicated(s) = t
    BY DeduplicatedIs DEF t, u, K
  <2>2. Len(t) <= Len(s)
    BY <1>1, <1>8
  <2> QED BY <2>1, <2>2
<1> QED BY <1>6, <1>7, <1>10 DEF u, K

\* Step 3: the places of the pairs that go.
Dropped(s, cfg) == IF cfg.retain = 0 THEN ToolMessages(s)
                   ELSE OldPairs(s, cfg) \union {i - 1 : i \in OldPairs(s, cfg)}
\* apply_retain_last keeps all messages but those.
LEMMA RetainIs == ASSUME NEW s, NEW cfg
                  PROVE  RetainLast(s, cfg) = Keep(s, DOMAIN s \ Dropped(s, cfg))
BY DEF RetainLast, Dropped

\* What follows a message that stays, and comes before another, stays.
LEMMA RetainNeighbours ==
  ASSUME NEW h, HistoryOk(h), NEW s, Part(s, h), NEW cfg, cfg.retain # 0,
         NEW K, K = DOMAIN s \ Dropped(s, cfg)
  PROVE  /\ \A i \in PairEnds(s) : /\ i \in 1..Len(s) /\ i > 1 /\ i - 1 \in 1..Len(s)
                                   /\ s[i].role = "user" /\ s[i - 1].role = "assistant"
         /\ \A i \in PairEnds(s) : i \in K <=> i \notin OldPairs(s, cfg)
         /\ \A i \in PairEnds(s) : i \in K <=> i - 1 \in K
         /\ \A i \in 1..Len(s) \ K : i \in PairEnds(s) \/ i + 1 \in PairEnds(s)
<1>1. Len(s) \in Nat /\ DOMAIN s = 1..Len(s)
  BY SeqIsFunction DEF Part
<1>2. ASSUME NEW i \in PairEnds(s)
      PROVE  /\ i \in 1..Len(s) /\ i > 1 /\ i - 1 \in 1..Len(s)
             /\ s[i].role = "user" /\ s[i - 1].role = "assistant"
  <2>1. /\ i \in 1..Len(s) /\ i # 1
        /\ s[i].role = "user" /\ s[i - 1].role = "assistant"
    BY <1>1, <1>2 DEF PairEnds
  <2>2. i > 1 /\ i - 1 \in 1..Len(s)
    BY <1>1, <2>1
  <2> QED BY <2>1, <2>2
<1>3. OldPairs(s, cfg) \subseteq PairEnds(s)
  BY DEF OldPairs
<1>4. Dropped(s, cfg) = OldPairs(s, cfg) \union {i - 1 : i \in OldPairs(s, cfg)}
  BY DEF Dropped
<1>5. ASSUME NEW i \in PairEnds(s) PROVE i \in Dropped(s, cfg) <=> i \in OldPairs(s, cfg)
  <2>1. ASSUME NEW j \in OldPairs(s, cfg), i = j - 1 PROVE FALSE
    BY <1>2, <1>3, <1>5, <2>1
  <2> QED BY <1>4, <2>1
<1>6. ASSUME NEW i \in PairEnds(s) PROVE i - 1 \in Dropped(s, cfg) <=> i \in OldPairs(s, cfg)
  <2>1. i - 1 \notin OldPairs(s, cfg)
    BY <1>2, <1>3, <1>6
  <2>2. ASSUME NEW j \in OldPairs(s, cfg), i - 1 = j - 1 PROVE i = j
    <3>1. i \in Int /\ j \in Int
      BY <1>2, <1>3, <1>6
    <3> QED BY <2>2, <3>1
  <2> QED BY <1>4, <2>1, <2>2
<1>7. ASSUME NEW i \in 1..Len(s), i \notin K PROVE i \in PairEnds(s) \/ i + 1 \in PairEnds(s)
  <2>1. i \in Dropped(s, cfg)
    BY <1>1, <1>7
  <2>2. ASSUME NEW j \in OldPairs(s, cfg), i = j - 1 PROVE i + 1 = j
    <3>1. i \in Int /\ j \in Int
      BY <1>2, <1>3
    <3> QED BY <2>2, <3>1
  <2> QED BY <1>3, <1>4, <2>1, <2>2
<1> QED BY <1>1, <1>2, <1>5, <1>6, <1>7

\* Step 3 leaves no more pairs of the history than it should.  Removing a pair may
\* bring a request and results together, but none that the history has together.
LEMMA RetainFacts ==
  ASSUME NEW h, HistoryOk(h), NEW s, Part(s, h), NEW cfg, cfg.retain \in Nat
  PROVE  /\ Part(RetainLast(s, cfg), h) /\ Len(RetainLast(s, cfg)) <= Len(s)
         /\ Cardinality(OwnPairs(RetainLast(s, cfg))) <= cfg.retain
<1> DEFINE K == DOMAIN s \ Dropped(s, cfg)
           t == Keep(s, K)
           m == Cardinality(K)
           P == PairEnds(s)
           Q == {i \in P : Cardinality({j \in P : j >= i}) <= cfg.retain}
<1>1. IsSeq(s) /\ Len(s) \in Nat /\ DOMAIN s = 1..Len(s)
  BY SeqIsFunction DEF Part
<1>2. K \in SUBSET (1..Len(s))
  BY <1>1
<1>3. RetainLast(s, cfg) = t
  BY RetainIs
<1>4. K = DOMAIN s \ Dropped(s, cfg)
  OBVIOUS
<1> HIDE DEF K
<1>5. Part(t, h)
  BY <1>2, PartKeep
<1>6. /\ Len(t) = m /\ m \in 0..Len(s) /\ DOMAIN t = 1..m
      /\ \A k \in 1..m : t[k] = s[Nth(K, k)] /\ Nth(K, k) \in K
  <2>1. /\ Len(Keep(s, K)) = Cardinality(K) /\ Cardinality(K) \in 0..Len(s)
        /\ DOMAIN Keep(s, K) = 1..Cardinality(K)
        /\ \A k \in 1..Cardinality(K) : Keep(s, K)[k] = s[Nth(K, k)] /\ Nth(K, k) \in K
    <3>1. KeptFrom(Keep(s, K), s, Len(s), K)
      BY <1>1, <1>2, KeepFacts
    <3> QED BY <3>1 DEF KeptFrom
  <2> QED BY <2>1
<1> HIDE DEF t
<1>7. ASSUME NEW k \in OwnPairs(t)
      PROVE  /\ k \in 1..m /\ k > 1 /\ k - 1 \in 1..m
             /\ t[k].role = "user" /\ IsResultMessage(t[k])
             /\ t[k - 1].role = "assistant" /\ HasUses(t[k - 1])
             /\ t[k].at = t[k - 1].at + 1
  <2>1. /\ k \in 1..m /\ k # 1
        /\ t[k].role = "user" /\ IsResultMessage(t[k])
        /\ t[k - 1].role = "assistant" /\ HasUses(t[k - 1])
        /\ t[k].at = t[k - 1].at + 1
    BY <1>6, <1>7 DEF OwnPairs, PairEnds
  <2>2. k > 1 /\ k - 1 \in 1..m
    BY <1>6, <2>1
  <2> QED BY <2>1, <2>2
<1>8. ASSUME cfg.retain = 0 PROVE Cardinality(OwnPairs(t)) <= cfg.retain
  <2>1. OwnPairs(t) = {}
    <3> SUFFICES ASSUME NEW k \in OwnPairs(t) PROVE FALSE
      OBVIOUS
    <3>1. Nth(K, k) \in K /\ IsResultMessage(s[Nth(K, k)])
      BY <1>6, <1>7
    <3>2. Nth(K, k) \in ToolMessages(s)
      BY <1>2, <1>1, <3>1 DEF ToolMessages
    <3> QED BY <1>4, <1>8, <3>1, <3>2 DEF Dropped
  <2>2. Cardinality(OwnPairs(t)) = 0
    BY <2>1, FS_EmptySet
  <2> QED BY <1>8, <2>2
<1>9. ASSUME cfg.retain # 0 PROVE Cardinality(OwnPairs(t)) <= cfg.retain
  <2>1. /\ \A i \in P : /\ i \in 1..Len(s) /\ i > 1 /\ i - 1 \in 1..Len(s)
                        /\ s[i].role = "user" /\ s[i - 1].role = "assistant"
        /\ \A i \in P : i \in K <=> i \notin OldPairs(s, cfg)
        /\ \A i \in P : i \in K <=> i - 1 \in K
        /\ \A i \in 1..Len(s) \ K : i \in P \/ i + 1 \in P
    BY <1>4, <1>9, RetainNeighbours, ZenonT(60)
  <2>2. P \in SUBSET (1..Len(s))
    BY <2>1
  <2>3. \A i \in P : i \notin OldPairs(s, cfg) => i \in Q
    <3> SUFFICES ASSUME NEW i \in P, i \notin OldPairs(s, cfg)
                 PROVE  Cardinality({j \in P : j >= i}) <= cfg.retain
      OBVIOUS
    <3> DEFINE L == {j \in P : j >= i}
    <3>1. ~ (Cardinality(L) > cfg.retain)
      BY DEF OldPairs
    <3>2. L \in SUBSET (1..Len(s))
      BY <2>2
    <3> HIDE DEF L, P
    <3>3. Cardinality(L) \in 0..Len(s)
      BY <1>1, <3>2, RankSteps
    <3>4. Cardinality(L) <= cfg.retain
      BY <1>1, <3>1, <3>3
    <3> QED BY <3>4 DEF L
  <2>4. Q \in SUBSET (1..Len(s))
    BY <2>2
  <2> HIDE DEF P, Q
  <2>5. ASSUME NEW k \in OwnPairs(t) PROVE Nth(K, k) \in Q
    <3> DEFINE i == Nth(K, k)
               j == Nth(K, k - 1)
    <3>1. /\ k \in 1..m /\ k - 1 \in 1..m /\ k - 1 < k
          /\ s[i].role = "user" /\ IsResultMessage(s[i])
          /\ s[j].role = "assistant" /\ HasUses(s[j]) /\ s[i].at = s[j].at + 1
          /\ i \in K /\ j \in K
      BY <1>6, <1>7
    <3>2. j < i /\ i \in 1..Len(s) /\ j \in 1..Len(s)
      BY <1>1, <1>2, <3>1, NthFacts
    <3> HIDE DEF i, j
    <3>4. ASSUME j + 1 < i PROVE FALSE
      <4>1. s[j].at < s[j + 1].at /\ s[j + 1].at < s[i].at
        <5>1. j < j + 1 /\ j + 1 \in 1..Len(s)
          BY <1>1, <3>2
        <5> QED BY <3>2, <3>4, <5>1 DEF Part
      <4>2. s[j].at \in Nat /\ s[j + 1].at \in Nat /\ s[i].at \in Nat
        <5>1. j + 1 \in 1..Len(s)
          BY <1>1, <3>2
        <5>2. \A k2 \in 1..Len(s) : s[k2].at \in 1..Len(h)
          BY DEF Part, IsPart
        <5>3. \A x \in 1..Len(h) : x \in Nat
          OBVIOUS
        <5> QED BY <3>2, <5>1, <5>2, <5>3
      <4> QED BY <3>1, <4>1, <4>2
    <3>7. i = j + 1 /\ i # 1 /\ i - 1 = j
      BY <1>1, <3>2, <3>4
    <3>8. i \in P
      BY <1>1, <3>1, <3>2, <3>7 DEF P, PairEnds
    <3>9. i \notin OldPairs(s, cfg)
      BY <2>1, <3>1, <3>8
    <3> QED BY <2>3, <3>8, <3>9 DEF i
  <2> DEFINE g == [k \in OwnPairs(t) |-> Nth(K, k)]
  <2>6. g \in [OwnPairs(t) -> Q]
    BY <2>5
  <2>7. \A x, y \in OwnPairs(t) : g[x] = g[y] => x = y
    <3> SUFFICES ASSUME NEW x \in OwnPairs(t), NEW y \in OwnPairs(t), Nth(K, x) = Nth(K, y)
                 PROVE  x = y
      OBVIOUS
    <3>1. x \in 1..m /\ y \in 1..m
      BY <1>7
    <3>2. Rank(K, Nth(K, x)) = x /\ Rank(K, Nth(K, y)) = y
      BY <1>1, <1>2, <3>1, NthFacts
    <3> QED BY <3>2
  <2> HIDE DEF g
  <2>8. Cardinality(OwnPairs(t)) <= Cardinality(Q) /\ Cardinality(OwnPairs(t)) \in Nat
    <3>1. Cardinality(OwnPairs(t)) <= Cardinality(Q)
      BY <1>1, <2>4, <2>6, <2>7, CountInto
    <3>2. OwnPairs(t) \in SUBSET (1..m)
      BY <1>7
    <3>3. Cardinality(OwnPairs(t)) \in 0..m
      BY <1>6, <3>2, RankSteps
    <3> QED BY <1>6, <3>1, <3>3
  <2>9. Cardinality(Q) <= cfg.retain /\ Cardinality(Q) \in Nat
    <3>1. Cardinality(Q) <= cfg.retain
      BY <1>1, <2>2, LastFew DEF Q
    <3>2. Cardinality(Q) \in 0..Len(s)
      BY <1>1, <2>4, RankSteps
    <3> QED BY <1>1, <3>1, <3>2
  <2>10. cfg.retain \in Nat
    OBVIOUS
  <2> QED BY ONLY <2>8, <2>9, <2>10
<1>10. Len(t) <= Len(s)
  BY <1>1, <1>6
<1> QED BY <1>3, <1>5, <1>8, <1>9, <1>10

\* Step 4: the last tool blocks of each message, and its other blocks.
ToolPlaces(m) == {j \in DOMAIN m.blocks : IsUse(m.blocks[j]) \/ IsResult(m.blocks[j])}
Left(m, limit) == {j \in DOMAIN m.blocks :
                     j \in ToolPlaces(m) => Cardinality({k \in ToolPlaces(m) : k >= j}) <= limit}

\* A message that was cut has those blocks.
LEMMA LimitedIs == ASSUME NEW m, NEW limit
                   PROVE  Limited(m, limit) = [m EXCEPT !.blocks = Keep(@, Left(m, limit))]
<1> DEFINE tool(j) == IsUse(m.blocks[j]) \/ IsResult(m.blocks[j])
           later(j) == {k \in DOMAIN m.blocks : k >= j /\ tool(k)}
           kept == {j \in DOMAIN m.blocks : tool(j) => Cardinality(later(j)) <= limit}
<1>1. Limited(m, limit) = [m EXCEPT !.blocks = Keep(@, kept)]
  BY DEF Limited
<1>2. \A j : later(j) = {k \in ToolPlaces(m) : k >= j}
  BY DEF ToolPlaces
<1>3. \A j \in DOMAIN m.blocks : tool(j) <=> j \in ToolPlaces(m)
  BY DEF ToolPlaces
<1> HIDE DEF tool, later
<1>4. kept = Left(m, limit)
  BY <1>2, <1>3 DEF Left
<1> QED BY <1>1, <1>4

CutFrom(l, m, c, limit) ==
  /\ IsMessage(l) /\ l.at = m.at /\ l.role = m.role
  /\ l.blocks = Keep(m.blocks, Left(m, limit))
  /\ Within(l.blocks, c)
  /\ Cardinality(ToolPlaces(l)) <= limit
  /\ HasUses(l) => HasUses(m)
  /\ IsResultMessage(l) => IsResultMessage(m)
\* Cut, it has no more than limit tool blocks, and no kind of block it had not.
LEMMA LimitedFacts ==
  ASSUME NEW m, IsMessage(m), NEW c, Within(m.blocks, c), NEW limit \in Nat
  PROVE  CutFrom(Limited(m, limit), m, c, limit)
<1> DEFINE l == Limited(m, limit)
           J == Left(m, limit)
           b == m.blocks
           P == ToolPlaces(m)
           Q == {j \in P : Cardinality({k \in P : k >= j}) <= limit}
<1>1. IsSeq(b) /\ Len(b) \in Nat /\ DOMAIN b = 1..Len(b)
  BY SeqIsFunction DEF Within
<1>2. IsMessage(l) /\ l.at = m.at /\ l.role = m.role /\ l.blocks = Keep(b, J)
  <2>1. l = [m EXCEPT !.blocks = Keep(b, J)]
    BY LimitedIs
  <2>2. m = [at |-> m.at, role |-> m.role, blocks |-> m.blocks]
    BY DEF IsMessage
  <2> DEFINE x == Keep(b, J)
  <2> HIDE DEF x, l
  <2>3. l = [at |-> m.at, role |-> m.role, blocks |-> x]
    BY <2>1, <2>2 DEF x
  <2> QED BY <2>3 DEF IsMessage, x
<1>3. J \in SUBSET (1..Len(b)) /\ P \in SUBSET (1..Len(b)) /\ Q \in SUBSET (1..Len(b))
  BY <1>1 DEF Left, ToolPlaces
<1>4. \A j \in J : j \in P => j \in Q
  BY DEF Left
<1>5. Cardinality(Q) <= limit
  BY <1>1, <1>3, LastFew
<1> HIDE DEF l, J, b, Q
<1>6. Within(l.blocks, c)
  BY <1>2, <1>3, WithinKeep DEF b
<1>7. KeptFrom(l.blocks, b, Len(b), J)
  BY <1>1, <1>2, <1>3, KeepFacts
<1>8. /\ Cardinality(J) \in 0..Len(b) /\ DOMAIN l.blocks = 1..Cardinality(J)
      /\ \A k \in 1..Cardinality(J) : l.blocks[k] = b[Nth(J, k)] /\ Nth(J, k) \in J
  BY <1>7 DEF KeptFrom
<1>9. Cardinality(ToolPlaces(l)) <= limit
  <2> DEFINE S == ToolPlaces(l)
             g == [k \in S |-> Nth(J, k)]
  <2>1. ASSUME NEW k \in S PROVE k \in 1..Cardinality(J) /\ Nth(J, k) \in Q
    <3>1. k \in 1..Cardinality(J) /\ (IsUse(l.blocks[k]) \/ IsResult(l.blocks[k]))
      BY <1>8 DEF ToolPlaces
    <3>2. Nth(J, k) \in J /\ l.blocks[k] = b[Nth(J, k)] /\ Nth(J, k) \in DOMAIN b
      BY <1>1, <1>3, <1>8, <3>1
    <3>3. Nth(J, k) \in P
      BY <3>1, <3>2 DEF ToolPlaces, b
    <3> QED BY <1>4, <3>1, <3>2, <3>3
  <2>2. g \in [S -> Q]
    BY <2>1
  <2>3. \A x, y \in S : g[x] = g[y] => x = y
    <3> SUFFICES ASSUME NEW x \in S, NEW y \in S, Nth(J, x) = Nth(J, y) PROVE x = y
      OBVIOUS
    <3>1. Rank(J, Nth(J, x)) = x /\ Rank(J, Nth(J, y)) = y
      BY <1>1, <1>3, <2>1, NthFacts
    <3> QED BY <3>1
  <2>4. S \in SUBSET (1..Cardinality(J))
    BY <2>1
  <2> HIDE DEF S, g
  <2>5. Cardinality(S) <= Cardinality(Q)
    BY <1>1, <1>3, <2>2, <2>3, CountInto
  <2>6. Cardinality(S) \in Nat /\ Cardinality(Q) \in Nat
    <3>1. Cardinality(J) \in Nat
      BY <1>1, <1>8
    <3>2. Cardinality(S) \in 0..Cardinality(J)
      BY <2>4, <3>1, RankSteps
    <3>3. Cardinality(Q) \in 0..Len(b)
      BY <1>1, <1>3, RankSteps
    <3> QED BY <1>1, <3>1, <3>2, <3>3
  <2>7. Cardinality(S) <= limit
    BY <1>5, <2>5, <2>6
  <2> QED BY <2>7 DEF S
<1>10. \A k \in DOMAIN l.blocks : \E j \in DOMAIN m.blocks : l.blocks[k] = m.blocks[j]
  BY <1>1, <1>3, <1>8 DEF b
<1>11. (HasUses(l) => HasUses(m)) /\ (IsResultMessage(l) => IsResultMessage(m))
  BY <1>10 DEF HasUses, IsResultMessage
<1> QED BY <1>2, <1>6, <1>9, <1>11 DEF l, J, b, CutFrom

\* apply_limit_per_message keeps every message, and makes no pair that was none.
LEMMA LimitFacts ==
  ASSUME NEW h, HistoryOk(h), NEW s, Part(s, h),
         NEW cfg, cfg.limit \in Nat \union {NoLimit}
  PROVE  LET t == LimitPerMessage(s, cfg)
         IN /\ Part(t, h) /\ Len(t) = Len(s)
            /\ cfg.limit # NoLimit =>
                 \A i \in 1..Len(t) : Cardinality(ToolPlaces(t[i])) <= cfg.limit
            /\ Cardinality(OwnPairs(t)) <= Cardinality(OwnPairs(s))
<1> DEFINE t == LimitPerMessage(s, cfg)
<1>1. IsSeq(s) /\ Len(s) \in Nat /\ DOMAIN s = 1..Len(s)
  BY SeqIsFunction DEF Part
<1>2. OwnPairs(s) \in SUBSET (1..Len(s))
  BY <1>1 DEF OwnPairs, PairEnds
<1>3. IsFiniteSet(OwnPairs(s)) /\ Cardinality(OwnPairs(s)) \in 0..Len(s)
  BY <1>1, <1>2, RankSteps
<1>4. CASE cfg.limit = NoLimit
  <2>1. t = s
    BY <1>4 DEF LimitPerMessage
  <2> QED BY <1>3, <1>4, <2>1
<1>5. CASE cfg.limit # NoLimit
  <2>1. t = [i \in DOMAIN s |-> IF IsToolMessage(s[i]) THEN Limited(s[i], cfg.limit) ELSE s[i]]
    BY <1>5 DEF LimitPerMessage
  <2>2. cfg.limit \in Nat
    BY <1>5
  <2>3. t = [i \in 1..Len(s) |-> t[i]]
    BY <1>1, <2>1
  <2>4. \A i \in 1..Len(s) : t[i] = IF IsToolMessage(s[i]) THEN Limited(s[i], cfg.limit) ELSE s[i]
    BY <1>1, <2>1
  <2> HIDE DEF t
  <2>5. IsSeq(t) /\ Len(t) = Len(s) /\ DOMAIN t = 1..Len(s)
    BY <1>1, <2>3, FunctionIsSeq
  <2>6. ASSUME NEW i \in 1..Len(s)
        PROVE  /\ IsMessage(t[i]) /\ t[i].at = s[i].at /\ t[i].role = s[i].role
               /\ Within(t[i].blocks, h[s[i].at].blocks)
               /\ Cardinality(ToolPlaces(t[i])) <= cfg.limit
               /\ HasUses(t[i]) => HasUses(s[i])
               /\ IsResultMessage(t[i]) => IsResultMessage(s[i])
    <3>1. IsMessage(s[i]) /\ Within(s[i].blocks, h[s[i].at].blocks)
      BY DEF Part, IsPart
    <3>2. CASE IsToolMessage(s[i])
      <4>1. t[i] = Limited(s[i], cfg.limit)
        BY <2>4, <3>2
      <4>2. CutFrom(t[i], s[i], h[s[i].at].blocks, cfg.limit)
        BY <2>2, <3>1, <4>1, LimitedFacts
      <4> QED BY <4>2 DEF CutFrom
    <3>3. CASE ~ IsToolMessage(s[i])
      <4>1. t[i] = s[i]
        BY <2>4, <3>3
      <4>2. ~ HasUses(s[i]) /\ ~ IsResultMessage(s[i])
        BY <3>3, PartFacts DEF IsToolMessage
      <4>3. ToolPlaces(s[i]) = {}
        BY <4>2 DEF ToolPlaces, HasUses, IsResultMessage
      <4>4. Cardinality(ToolPlaces(s[i])) = 0
        BY <4>3, FS_EmptySet
      <4> QED BY <2>2, <3>1, <4>1, <4>4
    <3> QED BY <3>2, <3>3
  <2>7. Part(t, h)
    BY <2>5, <2>6, PartFewerBlocks
  <2>8. OwnPairs(t) \subseteq OwnPairs(s)
    <3> SUFFICES ASSUME NEW i \in OwnPairs(t) PROVE i \in OwnPairs(s)
      OBVIOUS
    <3>1. /\ i \in 1..Len(s) /\ i # 1
          /\ t[i].role = "user" /\ IsResultMessage(t[i])
          /\ t[i - 1].role = "assistant" /\ HasUses(t[i - 1])
          /\ t[i].at = t[i - 1].at + 1
      BY <2>5 DEF OwnPairs, PairEnds
    <3>2. i - 1 \in 1..Len(s)
      BY <1>1, <3>1
    <3>3. /\ s[i].role = "user" /\ IsResultMessage(s[i])
          /\ s[i - 1].role = "assistant" /\ HasUses(s[i - 1])
          /\ s[i].at = s[i - 1].at + 1
      BY <2>6, <3>1, <3>2
    <3> QED BY <1>1, <3>1, <3>3 DEF OwnPairs, PairEnds
  <2>9. Cardinality(OwnPairs(t)) <= Cardinality(OwnPairs(s))
    BY <1>3, <2>8, FS_Subset
  <2> QED BY <2>5, <2>6, <2>7, <2>9 DEF t
<1> QED BY <1>4, <1>5

\* Steps 5 and 6: what they leave is the rest from some message on, and does not
\* begin with results.
LEMMA LedFacts ==
  ASSUME NEW s, IsSeq(s)
  PROVE  \E d \in 0..Len(s) : Rest(DropLeadingAssistants(s), s, d)
<1> DEFINE B == {j \in 1..Len(s) : ~ (s[j].role = "assistant")}
           I == {i \in 1..Len(s) : \E j \in 1..i : j \in B}
<1>1. Len(s) \in Nat /\ DOMAIN s = 1..Len(s)
  BY SeqIsFunction
<1>2. {i \in DOMAIN s : \E j \in 1..i : ~ (s[j].role = "assistant")} = I
  <2>1. \A i \in 1..Len(s) : \A j \in 1..i : j \in 1..Len(s)
    BY <1>1
  <2> QED BY <1>1, <2>1
<1>3. DropLeadingAssistants(s) = Keep(s, I)
  BY <1>2 DEF DropLeadingAssistants, DropLeading
<1>4. B \in SUBSET (1..Len(s)) /\ I = {i \in 1..Len(s) : \E j \in 1..i : j \in B}
  OBVIOUS
<1> HIDE DEF B, I
<1>5. \E d \in 0..Len(s) : Rest(Keep(s, I), s, d) /\ (d < Len(s) => d + 1 \in B)
  BY <1>4, Leading
<1> QED BY <1>3, <1>5

\* Step 6: leading results.  What is left does not begin with results.
LEMMA OrphanFacts ==
  ASSUME NEW s, IsSeq(s)
  PROVE  \E d \in 0..Len(s) :
           /\ Rest(RemoveOrphanedResults(s), s, d)
           /\ d < Len(s) => ~ (s[d + 1].role = "user" /\ IsResultMessage(s[d + 1]))
<1> DEFINE B == {j \in 1..Len(s) : ~ (s[j].role = "user" /\ IsResultMessage(s[j]))}
           I == {i \in 1..Len(s) : \E j \in 1..i : j \in B}
<1>1. Len(s) \in Nat /\ DOMAIN s = 1..Len(s)
  BY SeqIsFunction
<1>2. {i \in DOMAIN s : \E j \in 1..i : ~ (s[j].role = "user" /\ IsResultMessage(s[j]))} = I
  <2>1. \A i \in 1..Len(s) : \A j \in 1..i : j \in 1..Len(s)
    BY <1>1
  <2> QED BY <1>1, <2>1
<1>3. RemoveOrphanedResults(s) = Keep(s, I)
  BY <1>2 DEF RemoveOrphanedResults, DropLeading
<1>4. B \in SUBSET (1..Len(s)) /\ I = {i \in 1..Len(s) : \E j \in 1..i : j \in B}
  OBVIOUS
<1>5. \A j \in B : ~ (s[j].role = "user" /\ IsResultMessage(s[j]))
  OBVIOUS
<1> HIDE DEF B, I
<1>6. \E d \in 0..Len(s) : Rest(Keep(s, I), s, d) /\ (d < Len(s) => d + 1 \in B)
  BY <1>4, Leading
<1> QED BY <1>3, <1>5, <1>6

\* The stages of a filtered history.
ConfigOk(cfg) == /\ cfg.max \in Nat /\ cfg.retain \in Nat
                 /\ cfg.limit \in Nat \union {NoLimit} /\ cfg.dedup \in BOOLEAN
Deduped(h, cfg) == IF cfg.dedup THEN Deduplicated(LastMessages(h, cfg)) ELSE LastMessages(h, cfg)
Retained(h, cfg) == RetainLast(Deduped(h, cfg), cfg)
Cut(h, cfg) == LimitPerMessage(Retained(h, cfg), cfg)
Led(h, cfg) == DropLeadingAssistants(Cut(h, cfg))

\* filter_messages goes through these stages.
LEMMA FilterIs == ASSUME NEW h, NEW cfg
                  PROVE  FilterMessages(h, cfg) = RemoveOrphanedResults(Led(h, cfg))
BY DEF FilterMessages, Led, Cut, Retained, Deduped

\* The limits, of every stage.
LEMMA StageFacts ==
  ASSUME NEW h, HistoryOk(h), NEW cfg, ConfigOk(cfg)
  PROVE  /\ Part(LastMessages(h, cfg), h)
         /\ Part(Deduped(h, cfg), h)
         /\ Part(Retained(h, cfg), h)
         /\ Part(Cut(h, cfg), h) /\ Len(Cut(h, cfg)) <= cfg.max
         /\ Cardinality(OwnPairs(Cut(h, cfg))) <= cfg.retain
         /\ cfg.limit # NoLimit => \A i \in 1..Len(Cut(h, cfg)) :
              Cardinality(ToolPlaces(Cut(h, cfg)[i])) <= cfg.limit
<1> DEFINE recent == LastMessages(h, cfg)
           unique == Deduped(h, cfg)
           fewer == Retained(h, cfg)
           cut == Cut(h, cfg)
<1>0. /\ cfg.max \in Nat /\ cfg.retain \in Nat
      /\ cfg.limit \in Nat \union {NoLimit} /\ cfg.dedup \in BOOLEAN
  BY DEF ConfigOk
<1>1. Part(h, h)
  BY PartSelf
<1>2. PICK d \in 0..Len(h) : Rest(recent, h, d) /\ Len(recent) <= cfg.max
  BY <1>0, Recent
<1>3. Part(recent, h) /\ Len(recent) \in Nat
  BY <1>1, <1>2, RestFacts
<1>4. Part(unique, h) /\ Len(unique) <= Len(recent)
  <2>1. CASE cfg.dedup
    BY <1>3, <2>1, DedupFacts DEF Deduped
  <2>2. CASE ~ cfg.dedup
    BY <1>3, <2>2 DEF Deduped
  <2> QED BY <2>1, <2>2
<1>5. /\ Part(fewer, h) /\ Len(fewer) <= Len(unique)
      /\ Cardinality(OwnPairs(fewer)) <= cfg.retain
  BY <1>0, <1>4, RetainFacts DEF Retained
<1>6. /\ Part(cut, h) /\ Len(cut) = Len(fewer)
      /\ cfg.limit # NoLimit =>
           \A i \in 1..Len(cut) : Cardinality(ToolPlaces(cut[i])) <= cfg.limit
      /\ Cardinality(OwnPairs(cut)) <= Cardinality(OwnPairs(fewer))
  BY <1>0, <1>5, LimitFacts DEF Cut
<1>7. ASSUME NEW s, Part(s, h)
      PROVE  Len(s) \in Nat /\ Cardinality(OwnPairs(s)) \in Nat
  <2>1. Len(s) \in Nat /\ DOMAIN s = 1..Len(s)
    BY <1>7, SeqIsFunction DEF Part
  <2>2. OwnPairs(s) \in SUBSET (1..Len(s))
    BY <2>1 DEF OwnPairs, PairEnds
  <2>3. Cardinality(OwnPairs(s)) \in 0..Len(s)
    BY <2>1, <2>2, RankSteps
  <2> QED BY <2>1, <2>3
<1> HIDE DEF recent, unique, fewer, cut
<1>8. Len(cut) <= cfg.max /\ Cardinality(OwnPairs(cut)) <= cfg.retain
  <2>1. /\ Len(recent) \in Nat /\ Len(unique) \in Nat /\ Len(fewer) \in Nat
        /\ Cardinality(OwnPairs(cut)) \in Nat /\ Cardinality(OwnPairs(fewer)) \in Nat
    BY <1>3, <1>4, <1>5, <1>6, <1>7
  <2> QED BY <1>0, <1>2, <1>4, <1>5, <1>6, <2>1
<1> QED BY <1>3, <1>4, <1>5, <1>6, <1>8 DEF recent, unique, fewer, cut

\* The last two steps take messages off the front only.
LEMMA FrontOnly ==
  ASSUME NEW h, HistoryOk(h), NEW cfg, ConfigOk(cfg)
  PROVE  \E d, e \in Nat : /\ Rest(Led(h, cfg), Cut(h, cfg), d)
                           /\ Rest(FilterMessages(h, cfg), Led(h, cfg), e)
                           /\ Part(Led(h, cfg), h)
                           /\ e < Len(Led(h, cfg)) =>
                                ~ (/\ Led(h, cfg)[e + 1].role = "user"
                                   /\ IsResultMessage(Led(h, cfg)[e + 1]))
<1>1. Part(Cut(h, cfg), h)
  BY StageFacts
<1>2. PICK d \in 0..Len(Cut(h, cfg)) : Rest(Led(h, cfg), Cut(h, cfg), d)
  BY <1>1, LedFacts DEF Part, Led
<1>3. Part(Led(h, cfg), h)
  BY <1>1, <1>2, RestFacts
<1>4. PICK e \in 0..Len(Led(h, cfg)) :
        /\ Rest(FilterMessages(h, cfg), Led(h, cfg), e)
        /\ e < Len(Led(h, cfg)) =>
             ~ (/\ Led(h, cfg)[e + 1].role = "user" /\ IsResultMessage(Led(h, cfg)[e + 1]))
  BY <1>3, OrphanFacts, FilterIs DEF Part
<1>5. d \in Nat /\ e \in Nat
  OBVIOUS
<1> QED BY <1>2, <1>3, <1>4, <1>5

-----------------------------------------------------------------------------
(* The properties of the run. *)

\* What is sent is part of the history and within the limits.
LEMMA Limits ==
  ASSUME Histories
  PROVE  SentWithinLimits
<1> DEFINE h == history
           cfg == config
           cut == Cut(h, cfg)
           led == Led(h, cfg)
           sent == FilterMessages(h, cfg)
<1>1. HistoryOk(h) /\ ConfigOk(cfg)
  BY ConfigsAssumption DEF Histories, ConfigOk
<1>2. /\ Part(cut, h) /\ Len(cut) <= cfg.max /\ Cardinality(OwnPairs(cut)) <= cfg.retain
      /\ cfg.limit # NoLimit =>
           \A i \in 1..Len(cut) : Cardinality(ToolPlaces(cut[i])) <= cfg.limit
  BY <1>1, StageFacts
<1>3. PICK d \in Nat, e \in Nat : Rest(led, cut, d) /\ Rest(sent, led, e) /\ Part(led, h)
  BY <1>1, FrontOnly
<1> HIDE DEF h, cfg, cut, led, sent
<1>4. /\ Len(led) \in Nat /\ Len(cut) \in Nat /\ Len(led) <= Len(cut)
      /\ \A k \in 1..Len(led) : d + k \in 1..Len(cut) /\ led[k] = cut[d + k]
      /\ Cardinality(OwnPairs(led)) <= Cardinality(OwnPairs(cut))
  BY <1>2, <1>3, RestFacts
<1>5. /\ Part(sent, h) /\ Len(sent) \in Nat /\ Len(sent) <= Len(led)
      /\ \A k \in 1..Len(sent) : e + k \in 1..Len(led) /\ sent[k] = led[e + k]
      /\ Cardinality(OwnPairs(sent)) <= Cardinality(OwnPairs(led))
  BY <1>3, RestFacts
<1>6. IsSeq(sent) /\ DOMAIN sent = 1..Len(sent)
  BY <1>5, SeqIsFunction DEF Part
<1>7. ASSUME NEW s, Part(s, h) PROVE Cardinality(OwnPairs(s)) \in Nat
  <2>1. Len(s) \in Nat /\ DOMAIN s = 1..Len(s)
    BY <1>7, SeqIsFunction DEF Part
  <2>2. OwnPairs(s) \in SUBSET (1..Len(s))
    BY <2>1 DEF OwnPairs, PairEnds
  <2>3. Cardinality(OwnPairs(s)) \in 0..Len(s)
    BY <2>1, <2>2, RankSteps
  <2> QED BY <2>1, <2>3
<1>8. Len(sent) <= cfg.max /\ Cardinality(OwnPairs(sent)) <= cfg.retain
  <2>1. /\ Cardinality(OwnPairs(sent)) \in Nat /\ Cardinality(OwnPairs(led)) \in Nat
        /\ Cardinality(OwnPairs(cut)) \in Nat /\ cfg.max \in Nat /\ cfg.retain \in Nat
    BY <1>1, <1>2, <1>3, <1>5, <1>7 DEF ConfigOk
  <2> QED BY <1>2, <1>4, <1>5, <2>1
<1>9. cfg.limit # NoLimit => \A i \in 1..Len(sent) : Cardinality(ToolPlaces(sent[i])) <= cfg.limit
  BY <1>2, <1>4, <1>5
<1>10. /\ \A i, j \in 1..Len(sent) : i < j => sent[i].at < sent[j].at
       /\ \A i \in 1..Len(sent) :
            /\ sent[i].role = h[sent[i].at].role
            /\ IsSubsequence(sent[i].blocks, h[sent[i].at].blocks)
  <2>1. ASSUME NEW i \in 1..Len(sent)
        PROVE  /\ sent[i].role = h[sent[i].at].role
               /\ IsSubsequence(sent[i].blocks, h[sent[i].at].blocks)
    <3>1. /\ sent[i].at \in 1..Len(h) /\ sent[i].role = h[sent[i].at].role
          /\ Within(sent[i].blocks, h[sent[i].at].blocks)
      BY <1>5 DEF Part, IsPart
    <3>2. IsSeq(h[sent[i].at].blocks)
      BY <1>1, <3>1, EntryFacts
    <3> QED BY <3>1, <3>2, WithinIsSubsequence
  <2> QED BY <1>5, <2>1 DEF Part
<1>11. IsPartOfHistory(sent)
  BY <1>6, <1>10 DEF IsPartOfHistory, h
<1>12. Sent = sent
  BY DEF Sent, sent, h, cfg
<1> QED BY <1>6, <1>8, <1>9, <1>11, <1>12 DEF SentWithinLimits, ToolPlaces, OwnPairs, cfg

\* What filter_messages returns keeps to the limits of its configuration, for every
\* history that overlapping calls and edits can leave and every configuration.
THEOREM LimitsHold == Spec => []SentWithinLimits
<1>1. Histories => SentWithinLimits
  BY Limits
<1> QED BY <1>1, HistoriesOfCalls, PTL

\* The last message of s is m.
EndsWith(s, m) == IsSeq(s) /\ Len(s) > 0 /\ s[Len(s)] = m

\* Keeping the last place, and some before it.
LEMMA KeepEnds ==
  ASSUME NEW s, EndsWith(s, s[Len(s)]), NEW I \in SUBSET (1..Len(s)), Len(s) \in I
  PROVE  EndsWith(Keep(s, I), s[Len(s)])
<1>1. Len(s) \in Nat
  BY SeqIsFunction DEF EndsWith
<1>2. Len(Keep(s, I)) \in Nat \ {0} /\ Keep(s, I)[Len(Keep(s, I))] = s[Len(s)]
  BY <1>1, KeepLast
<1>3. KeptFrom(Keep(s, I), s, Len(s), I)
  BY <1>1, KeepFacts
<1> QED BY <1>2, <1>3 DEF EndsWith, KeptFrom

\* The message that a call was made for survives each step.
LEMMA NewestStays ==
  ASSUME NEW h, HistoryOk(h), NEW cfg, ConfigOk(cfg), cfg.max > 0, Len(h) > 0,
         NEW m, m = h[Len(h)], m.role = "user", m.blocks = <<Text>>
  PROVE  EndsWith(FilterMessages(h, cfg), m)
<1> DEFINE recent == LastMessages(h, cfg)
           unique == Deduped(h, cfg)
           fewer == Retained(h, cfg)
           cut == Cut(h, cfg)
           led == Led(h, cfg)
           sent == FilterMessages(h, cfg)
<1>1. /\ Part(recent, h) /\ Part(unique, h)
      /\ Part(fewer, h) /\ Part(cut, h)
  BY StageFacts
<1>2. ~ HasUses(m) /\ ~ IsResultMessage(m) /\ ~ IsToolMessage(m)
  <2>1. DOMAIN <<Text>> = {1} /\ <<Text>>[1].type = "text"
    BY DEF Text
  <2>2. ~ HasUses(m) /\ ~ IsResultMessage(m)
    BY <2>1 DEF HasUses, IsResultMessage, IsUse, IsResult
  <2> QED BY <2>2 DEF IsToolMessage
<1>3. \A s : IsSeq(s) => Len(s) \in Nat /\ DOMAIN s = 1..Len(s)
  BY SeqIsFunction
<1>4. EndsWith(recent, m)
  <2>1. PICK d \in 0..Len(h) : Rest(recent, h, d) /\ Len(recent) > 0
    BY Recent DEF ConfigOk
  <2>2. Len(h) \in Nat /\ Len(recent) \in Nat /\ Len(recent) = Len(h) - d
    BY <1>3, <2>1 DEF Rest, HistoryOk
  <2>3. Len(recent) \in 1..Len(recent) /\ d + Len(recent) = Len(h)
    BY <2>1, <2>2
  <2> QED BY <2>1, <2>3 DEF EndsWith, Rest
<1>5. EndsWith(unique, m)
  <2>1. CASE ~ cfg.dedup
    BY <1>4, <2>1 DEF Deduped
  <2>2. CASE cfg.dedup
    <3> DEFINE n == Len(recent)
               u == Unique(recent)
               K == Remaining(recent)
    <3>1. unique = Keep(u, K)
      BY <2>2, DeduplicatedIs DEF Deduped
    <3>2. n \in Nat /\ n \in 1..n /\ DOMAIN recent = 1..n /\ recent[n] = m
      BY <1>3, <1>4 DEF EndsWith
    <3>3. n \in K /\ u[n] = m
      BY <1>1, <3>2, DedupFacts
    <3>4. K \in SUBSET (1..n)
      BY <3>2 DEF Remaining
    <3> HIDE DEF K, u, n
    <3>5. Len(Keep(u, K)) \in Nat \ {0} /\ Keep(u, K)[Len(Keep(u, K))] = u[n]
      BY <3>2, <3>3, <3>4, KeepLast
    <3>6. KeptFrom(Keep(u, K), u, n, K)
      BY <3>2, <3>4, KeepFacts
    <3> QED BY <3>1, <3>3, <3>5, <3>6 DEF EndsWith, KeptFrom
  <2> QED BY <2>1, <2>2
<1> HIDE DEF recent, unique
<1>6. EndsWith(fewer, m)
  <2> DEFINE n == Len(unique)
             K == DOMAIN unique \ Dropped(unique, cfg)
  <2>1. fewer = Keep(unique, K)
    BY RetainIs DEF Retained, unique
  <2>2. n \in Nat /\ n \in 1..n /\ DOMAIN unique = 1..n /\ unique[n] = m /\ n + 1 \notin 1..n
    BY <1>3, <1>5 DEF EndsWith
  <2>3. n \notin ToolMessages(unique)
    BY <1>2, <2>2 DEF ToolMessages
  <2>4. PairEnds(unique) \subseteq 1..n /\ n \notin PairEnds(unique)
    BY <1>2, <2>2 DEF PairEnds
  <2>5. OldPairs(unique, cfg) \subseteq PairEnds(unique)
    BY DEF OldPairs
  <2>6. n \notin {i - 1 : i \in OldPairs(unique, cfg)}
    <3> SUFFICES ASSUME NEW i \in OldPairs(unique, cfg), n = i - 1 PROVE FALSE
      OBVIOUS
    <3>1. i \in 1..n
      BY <2>4, <2>5
    <3> QED BY <2>2, <3>1
  <2>7. n \in K
    BY <2>2, <2>3, <2>4, <2>5, <2>6 DEF Dropped
  <2>8. K \in SUBSET (1..n)
    BY <2>2
  <2> HIDE DEF K
  <2>9. EndsWith(Keep(unique, K), unique[n])
    BY <1>5, <2>2, <2>7, <2>8, KeepEnds
  <2> QED BY <2>1, <2>2, <2>9
<1> HIDE DEF fewer
<1>7. EndsWith(cut, m)
  <2>1. Len(fewer) \in Nat /\ DOMAIN fewer = 1..Len(fewer) /\ Len(fewer) \in 1..Len(fewer)
    BY <1>3, <1>6 DEF EndsWith
  <2>2. cut[Len(fewer)] = m
    BY <1>2, <1>6, <2>1 DEF Cut, LimitPerMessage, EndsWith, fewer
  <2>3. IsSeq(cut) /\ Len(cut) = Len(fewer)
    <3>1. Part(fewer, h) /\ cfg.limit \in Nat \union {NoLimit}
      BY <1>1 DEF ConfigOk
    <3> QED BY <1>1, <3>1, LimitFacts DEF Part, Cut, fewer
  <2> QED BY <1>6, <2>2, <2>3 DEF EndsWith
<1> HIDE DEF cut
<1>8. ASSUME NEW s, EndsWith(s, m), NEW I, I \subseteq 1..Len(s), Len(s) \in I
      PROVE  EndsWith(Keep(s, I), m)
  BY <1>8, KeepEnds DEF EndsWith
<1>9. EndsWith(led, m)
  <2> DEFINE I == {i \in DOMAIN cut : \E j \in 1..i : ~ (cut[j].role = "assistant")}
  <2>1. led = Keep(cut, I)
    BY DEF Led, cut, DropLeadingAssistants, DropLeading
  <2>2. Len(cut) \in Nat /\ DOMAIN cut = 1..Len(cut) /\ Len(cut) \in 1..Len(cut) /\ cut[Len(cut)] = m
    BY <1>3, <1>7 DEF EndsWith
  <2>3. I \subseteq 1..Len(cut) /\ Len(cut) \in I
    BY <2>2
  <2> HIDE DEF I
  <2> QED BY <1>7, <1>8, <2>1, <2>3
<1> HIDE DEF led
<1>10. EndsWith(sent, m)
  <2> DEFINE I == {i \in DOMAIN led :
                     \E j \in 1..i : ~ (led[j].role = "user" /\ IsResultMessage(led[j]))}
  <2>1. sent = Keep(led, I)
    BY FilterIs DEF led, RemoveOrphanedResults, DropLeading
  <2>2. Len(led) \in Nat /\ DOMAIN led = 1..Len(led) /\ Len(led) \in 1..Len(led) /\ led[Len(led)] = m
    BY <1>3, <1>9 DEF EndsWith
  <2>3. I \subseteq 1..Len(led) /\ Len(led) \in I
    BY <1>2, <2>2
  <2> HIDE DEF I
  <2> QED BY <1>8, <1>9, <2>1, <2>3
<1> QED BY <1>10

\* The message a call was made for is sent, whatever was configured to be left out.
THEOREM NewestSent == Spec => []NewestIsSent
<1>1. Histories => NewestIsSent
  <2> SUFFICES ASSUME Histories, history # <<>>, history[Len(history)].role = "user",
                      history[Len(history)].blocks = <<Text>>, config.max > 0
               PROVE  Sent # <<>> /\ Sent[Len(Sent)] = history[Len(history)]
    BY DEF NewestIsSent
  <2>1. HistoryOk(history) /\ ConfigOk(config)
    BY ConfigsAssumption DEF Histories, ConfigOk
  <2>2. Len(history) > 0
    <3>1. PICK S : history \in Seq(S)
      BY <2>1 DEF HistoryOk, IsSeq
    <3> QED BY <3>1
  <2>3. EndsWith(Sent, history[Len(history)])
    BY <2>1, <2>2, NewestStays DEF Sent
  <2> QED BY <2>3 DEF EndsWith
<1> QED BY <1>1, HistoriesOfCalls, PTL

-----------------------------------------------------------------------------
(* Requests and their results. *)

\* The messages of s are those of h, cut or not.
CutMessage(m, cfg) == IF cfg.limit # NoLimit /\ IsToolMessage(m) THEN Limited(m, cfg.limit) ELSE m
Exact(s, h) == \A k \in 1..Len(s) : s[k] = h[s[k].at]
CutExact(s, h, cfg) == \A k \in 1..Len(s) : s[k] = CutMessage(h[s[k].at], cfg)

\* A request is right before its results, and these are right behind it unless they
\* come first.
TogetherAt(s, p, k) ==
  /\ s[k].at = p - 1 => k + 1 \in 1..Len(s) /\ s[k + 1].at = p
  /\ s[k].at = p => k = 1 \/ (k - 1 \in 1..Len(s) /\ s[k - 1].at = p - 1)
TogetherBut(s, h) == \A p \in PairEnds(h) : \A k \in 1..Len(s) : TogetherAt(s, p, k)

\* A pair of the history.
LEMMA PairFacts ==
  ASSUME NEW h, HistoryOk(h), NEW p \in PairEnds(h)
  PROVE  /\ p \in 1..Len(h) /\ p - 1 \in 1..Len(h) /\ p > 1
         /\ h[p].role = "user" /\ IsResultMessage(h[p])
         /\ h[p - 1].role = "assistant" /\ HasUses(h[p - 1])
         /\ Request(h[p - 1]) /\ Response(h[p])
<1>1. Len(h) \in Nat /\ DOMAIN h = 1..Len(h)
  BY SeqIsFunction DEF HistoryOk
<1>2. /\ p \in 1..Len(h) /\ p # 1
      /\ h[p].role = "user" /\ IsResultMessage(h[p])
      /\ h[p - 1].role = "assistant" /\ HasUses(h[p - 1])
  BY <1>1 DEF PairEnds
<1>3. p - 1 \in 1..Len(h) /\ p > 1
  BY <1>1, <1>2
<1>4. Request(h[p - 1]) /\ Response(h[p])
  BY <1>2, <1>3, EntryFacts
<1> QED BY <1>2, <1>3, <1>4

\* The history's last messages.
LEMMA RecentTogether ==
  ASSUME NEW h, HistoryOk(h), NEW s, NEW d, Rest(s, h, d)
  PROVE  Exact(s, h) /\ TogetherBut(s, h)
<1>1. Part(h, h)
  BY PartSelf
<1>2. /\ Len(s) \in Nat /\ Len(h) \in Nat /\ d \in 0..Len(h) /\ Len(s) = Len(h) - d
      /\ \A k \in 1..Len(s) : d + k \in 1..Len(h) /\ s[k] = h[d + k]
  BY <1>1, RestFacts DEF Rest
<1>3. \A k \in 1..Len(s) : s[k].at = d + k
  BY <1>2 DEF HistoryOk
<1>4. Exact(s, h)
  BY <1>2, <1>3 DEF Exact
<1>5. ASSUME NEW p \in PairEnds(h), NEW k \in 1..Len(s) PROVE TogetherAt(s, p, k)
  <2>1. p \in 1..Len(h) /\ p > 1
    BY PairFacts
  <2>2. ASSUME s[k].at = p - 1 PROVE k + 1 \in 1..Len(s) /\ s[k + 1].at = p
    <3>1. d + k = p - 1
      BY <1>3, <2>2
    <3>2. k + 1 \in 1..Len(s) /\ d + (k + 1) = p
      BY <1>2, <2>1, <3>1
    <3> QED BY <1>3, <3>2
  <2>3. ASSUME s[k].at = p, k # 1 PROVE k - 1 \in 1..Len(s) /\ s[k - 1].at = p - 1
    <3>1. d + k = p
      BY <1>3, <2>3
    <3>2. k - 1 \in 1..Len(s) /\ d + (k - 1) = p - 1
      BY <1>2, <2>1, <2>3, <3>1
    <3> QED BY <1>3, <3>2
  <2> QED BY <2>2, <2>3 DEF TogetherAt
<1> QED BY <1>4, <1>5 DEF TogetherBut

\* A pair goes or stays as a whole.
LEMMA RetainTogether ==
  ASSUME NEW h, HistoryOk(h), NEW s, Part(s, h), Exact(s, h), TogetherBut(s, h), NEW cfg
  PROVE  Exact(RetainLast(s, cfg), h) /\ TogetherBut(RetainLast(s, cfg), h)
<1> DEFINE K == DOMAIN s \ Dropped(s, cfg)
           t == Keep(s, K)
<1>1. IsSeq(s) /\ Len(s) \in Nat /\ DOMAIN s = 1..Len(s)
  BY SeqIsFunction DEF Part
<1>2. K \in SUBSET (1..Len(s)) /\ K = DOMAIN s \ Dropped(s, cfg)
  BY <1>1
<1>3. RetainLast(s, cfg) = t
  BY RetainIs
<1> HIDE DEF K
<1>4. KeptFrom(t, s, Len(s), K)
  BY <1>1, <1>2, KeepFacts
<1> HIDE DEF t
<1>5. /\ Len(t) = Cardinality(K) /\ Cardinality(K) \in 0..Len(s)
      /\ \A k \in 1..Len(t) : t[k] = s[Nth(K, k)] /\ Nth(K, k) \in K
  BY <1>4 DEF KeptFrom
<1>6. Exact(t, h)
  BY <1>2, <1>5 DEF Exact
<1>7. ASSUME NEW p \in PairEnds(h), NEW k \in 1..Len(t) PROVE TogetherAt(t, p, k)
  <2> DEFINE i == Nth(K, k)
  <2>1. i \in 1..Len(s) /\ i \in K /\ t[k] = s[i] /\ k \in 1..Cardinality(K)
    BY <1>2, <1>5
  <2>2. /\ i + 1 \in K => k + 1 \in 1..Cardinality(K) /\ Nth(K, k + 1) = i + 1
        /\ i - 1 \in K => k - 1 \in 1..Cardinality(K) /\ Nth(K, k - 1) = i - 1
        /\ i = 1 => k = 1
    BY <1>1, <1>2, <2>1, NthNext
  <2> HIDE DEF i
  <2>3. /\ h[p].role = "user" /\ IsResultMessage(h[p])
        /\ h[p - 1].role = "assistant" /\ HasUses(h[p - 1])
    BY PairFacts
  <2>4. TogetherAt(s, p, i)
    BY <2>1 DEF TogetherBut
  <2>5. CASE cfg.retain = 0
    <3>1. t[k].at # p /\ t[k].at # p - 1
      <4> SUFFICES ASSUME t[k].at = p \/ t[k].at = p - 1 PROVE FALSE
        OBVIOUS
      <4>1. s[i] = h[p] \/ s[i] = h[p - 1]
        BY <2>1 DEF Exact
      <4>2. i \in ToolMessages(s)
        BY <1>1, <2>1, <2>3, <4>1 DEF ToolMessages
      <4> QED BY <1>2, <2>1, <2>5, <4>2 DEF Dropped
    <3> QED BY <3>1 DEF TogetherAt
  <2>6. CASE cfg.retain # 0
    <3>1. \A j \in PairEnds(s) : j \in K <=> j - 1 \in K
      BY <1>2, <2>6, RetainNeighbours
    <3>2. ASSUME NEW j \in 1..Len(s), j - 1 \in 1..Len(s), s[j].at = p, s[j - 1].at = p - 1
          PROVE  j \in PairEnds(s)
      <4>1. s[j] = h[p] /\ s[j - 1] = h[p - 1]
        BY <3>2 DEF Exact
      <4>2. j # 1
        BY <3>2
      <4> QED BY <1>1, <2>3, <4>1, <4>2 DEF PairEnds
    <3>3. ASSUME t[k].at = p - 1 PROVE k + 1 \in 1..Len(t) /\ t[k + 1].at = p
      <4>1. s[i].at = p - 1 /\ i + 1 \in 1..Len(s) /\ s[i + 1].at = p /\ (i + 1) - 1 = i
        BY <2>1, <2>4, <3>3 DEF TogetherAt
      <4>2. i + 1 \in PairEnds(s)
        BY <2>1, <3>2, <4>1
      <4>3. i + 1 \in K
        BY <2>1, <3>1, <4>1, <4>2
      <4> QED BY <1>5, <2>2, <4>1, <4>3
    <3>4. ASSUME t[k].at = p, k # 1 PROVE k - 1 \in 1..Len(t) /\ t[k - 1].at = p - 1
      <4>1. s[i].at = p /\ i # 1
        BY <2>1, <2>2, <3>4
      <4>2. i - 1 \in 1..Len(s) /\ s[i - 1].at = p - 1
        BY <2>4, <4>1 DEF TogetherAt
      <4>3. i \in PairEnds(s)
        BY <2>1, <3>2, <4>1, <4>2
      <4>4. i - 1 \in K
        BY <2>1, <3>1, <4>3
      <4> QED BY <1>5, <2>2, <4>2, <4>4
    <3> QED BY <3>3, <3>4 DEF TogetherAt
  <2> QED BY <2>5, <2>6
<1> QED BY <1>3, <1>6, <1>7 DEF TogetherBut

\* Cutting blocks moves no message.
LEMMA CutTogether ==
  ASSUME NEW h, HistoryOk(h), NEW s, Part(s, h), Exact(s, h), TogetherBut(s, h),
         NEW cfg, cfg.limit \in Nat \union {NoLimit}
  PROVE  CutExact(LimitPerMessage(s, cfg), h, cfg) /\ TogetherBut(LimitPerMessage(s, cfg), h)
<1> DEFINE t == LimitPerMessage(s, cfg)
<1>1. IsSeq(s) /\ Len(s) \in Nat /\ DOMAIN s = 1..Len(s)
  BY SeqIsFunction DEF Part
<1>2. Len(t) = Len(s)
  BY LimitFacts
<1>3. \A k \in 1..Len(s) : t[k] = CutMessage(s[k], cfg)
  BY <1>1 DEF LimitPerMessage, CutMessage
<1> HIDE DEF t
<1>4. ASSUME NEW k \in 1..Len(s) PROVE t[k].at = s[k].at
  <2>1. IsMessage(s[k]) /\ Within(s[k].blocks, h[s[k].at].blocks)
    BY DEF Part, IsPart
  <2>2. CASE cfg.limit # NoLimit /\ IsToolMessage(s[k])
    <3>1. t[k] = Limited(s[k], cfg.limit) /\ cfg.limit \in Nat
      BY <1>3, <2>2 DEF CutMessage
    <3>2. CutFrom(t[k], s[k], h[s[k].at].blocks, cfg.limit)
      BY <2>1, <3>1, LimitedFacts
    <3> QED BY <3>2 DEF CutFrom
  <2>3. CASE ~ (cfg.limit # NoLimit /\ IsToolMessage(s[k]))
    BY <1>3, <2>3 DEF CutMessage
  <2> QED BY <2>2, <2>3
<1>5. CutExact(t, h, cfg)
  BY <1>2, <1>3, <1>4 DEF CutExact, Exact
<1>6. ASSUME NEW p \in PairEnds(h), NEW k \in 1..Len(s) PROVE TogetherAt(t, p, k)
  <2>1. TogetherAt(s, p, k)
    BY DEF TogetherBut
  <2> QED BY <1>2, <1>4, <2>1 DEF TogetherAt
<1> QED BY <1>2, <1>5, <1>6 DEF TogetherBut, t

\* Nor does taking messages off the front part others.
LEMMA RestTogether ==
  ASSUME NEW h, NEW s, Part(s, h), NEW cfg, CutExact(s, h, cfg), TogetherBut(s, h),
         NEW t, NEW d, Rest(t, s, d)
  PROVE  CutExact(t, h, cfg) /\ TogetherBut(t, h)
<1>1. /\ Len(t) \in Nat /\ Len(s) \in Nat /\ d \in 0..Len(s) /\ Len(t) = Len(s) - d
      /\ \A k \in 1..Len(t) : d + k \in 1..Len(s) /\ t[k] = s[d + k]
  BY RestFacts DEF Rest
<1>2. CutExact(t, h, cfg)
  BY <1>1 DEF CutExact
<1>3. ASSUME NEW p \in PairEnds(h), NEW k \in 1..Len(t) PROVE TogetherAt(t, p, k)
  <2>1. TogetherAt(s, p, d + k)
    BY <1>1 DEF TogetherBut
  <2>2. ASSUME t[k].at = p - 1 PROVE k + 1 \in 1..Len(t) /\ t[k + 1].at = p
    <3>1. (d + k) + 1 \in 1..Len(s) /\ s[(d + k) + 1].at = p
      BY <1>1, <2>1, <2>2 DEF TogetherAt
    <3>2. k + 1 \in 1..Len(t) /\ d + (k + 1) = (d + k) + 1
      BY <1>1, <3>1
    <3> QED BY <1>1, <3>1, <3>2
  <2>3. ASSUME t[k].at = p, k # 1 PROVE k - 1 \in 1..Len(t) /\ t[k - 1].at = p - 1
    <3>1. d + k # 1 /\ k - 1 \in 1..Len(t) /\ d + (k - 1) = (d + k) - 1
      BY <1>1, <2>3
    <3>2. s[(d + k) - 1].at = p - 1
      BY <1>1, <2>1, <2>3, <3>1 DEF TogetherAt
    <3> QED BY <1>1, <3>1, <3>2
  <2> QED BY <2>2, <2>3 DEF TogetherAt
<1> QED BY <1>2, <1>3 DEF TogetherBut

\* Some text, and after it q blocks of a type numbered from o on.
Numbered(b, type, a, pre, q, o) ==
  /\ IsSeq(b) /\ Len(b) = pre + q
  /\ \A j \in 1..pre : b[j].type = "text"
  /\ \A k \in 1..q : b[pre + k].type = type /\ b[pre + k].id = <<a, o + k>>

\* The blocks cut off are the first ones, as many of the calls as of their results.
LEMMA CutNumbers ==
  ASSUME NEW m, IsMessage(m), NEW type \in {"use", "result"}, NEW a,
         NEW pre \in {0, 1}, NEW n \in Nat, Tooled(m, type, a, pre, n),
         NEW limit \in Nat, NEW q \in Nat, q = IF n <= limit THEN n ELSE limit
  PROVE  Numbered(Limited(m, limit).blocks, type, a, pre, q, n - q)
<1> DEFINE b == m.blocks
           o == n - q
           J == Left(m, limit)
           f == [k \in 1..(pre + q) |-> IF k <= pre THEN k ELSE k + o]
<1>1. /\ IsSeq(b) /\ Len(b) = pre + n /\ DOMAIN b = 1..(pre + n)
      /\ \A j \in 1..pre : b[j].type = "text"
      /\ \A k \in 1..n : b[pre + k].type = type /\ b[pre + k].id = <<a, k>>
  BY SeqIsFunction DEF Tooled, Text
<1>2. pre \in Nat /\ o \in Nat /\ q + o = n /\ (n > limit => q = limit) /\ (n <= limit => o = 0)
  OBVIOUS
<1>3. ToolPlaces(m) = (pre + 1)..(pre + n)
  <2>1. BlockKinds(m, type, pre, n)
    BY TooledBlocks
  <2>2. \A j \in 1..(pre + n) : j \in (pre + 1)..(pre + n) <=> ~ (j \in 1..pre)
    BY <1>2
  <2>3. \A j \in (pre + 1)..(pre + n) : j \in 1..(pre + n)
    BY <1>2
  <2> QED BY <2>1, <2>2, <2>3 DEF BlockKinds, ToolPlaces, IsUse, IsResult
<1>4. ASSUME NEW j \in (pre + 1)..(pre + n)
      PROVE  Cardinality({k \in ToolPlaces(m) : k >= j}) <= limit <=> j > pre + o
  <2>1. {k \in ToolPlaces(m) : k >= j} = j..(pre + n)
    BY <1>2, <1>3
  <2>2. j \in Int /\ pre + n \in Int /\ j <= pre + n /\ j > pre
    BY <1>2
  <2>3. Cardinality(j..(pre + n)) = (pre + n) - j + 1
    BY <2>2, FS_Interval
  <2>4. (pre + n) - j + 1 <= limit <=> j > pre + o
    BY <1>2, <2>2
  <2> QED BY <2>1, <2>3, <2>4
<1>5. J = {j \in 1..(pre + n) : j <= pre \/ j > pre + o}
  <2>1. \A j \in 1..(pre + n) : j \in (pre + 1)..(pre + n) <=> j > pre
    BY <1>2
  <2> QED BY <1>1, <1>2, <1>3, <1>4, <2>1 DEF Left
<1> HIDE DEF J
<1>6. f \in [1..(pre + q) -> 1..(pre + n)]
  BY <1>2
<1>7. Rises(f, pre + q)
  BY <1>2 DEF Rises
<1>8. J = {f[k] : k \in 1..(pre + q)}
  <2>1. \A k \in 1..(pre + q) : f[k] \in J
    BY <1>2, <1>5
  <2>2. ASSUME NEW j \in J PROVE \E k \in 1..(pre + q) : f[k] = j
    <3>0. j \in Nat /\ (j <= pre \/ j > pre)
      BY <1>2, <1>5
    <3>1. CASE j <= pre
      <4>1. j \in 1..(pre + q) /\ f[j] = j
        BY <1>2, <1>5, <3>1
      <4> QED BY <4>1
    <3>2. CASE j > pre
      <4>1. j > pre + o /\ j \in 1..(pre + n)
        BY <1>2, <1>5, <3>2
      <4>2. j - o \in 1..(pre + q) /\ ~ (j - o <= pre) /\ (j - o) + o = j
        BY <1>2, <4>1
      <4> QED BY <4>2
    <3> HIDE DEF f
    <3> QED BY <3>0, <3>1, <3>2
  <2> HIDE DEF f
  <2> QED BY <2>1, <2>2
<1>9. /\ \A k \in 1..pre : k \in 1..(pre + q) /\ f[k] = k
      /\ \A k \in 1..q : pre + k \in 1..(pre + q) /\ f[pre + k] = pre + (o + k) /\ o + k \in 1..n
  BY <1>2
<1> HIDE DEF f, o, b
<1>10. /\ J \in SUBSET (1..(pre + n)) /\ Cardinality(J) = pre + q
       /\ \A k \in 1..(pre + q) : Nth(J, k) = f[k]
  <2>1. PICK N, M \in Nat : N = pre + n /\ M = pre + q
    BY <1>2
  <2>2. PICK g \in [1..M -> 1..N] : g = f
    BY <1>6, <2>1
  <2>3. Rises(g, M) /\ J = {g[k] : k \in 1..M}
    BY <1>7, <1>8, <2>1, <2>2
  <2>4. PICK I : I = J
    OBVIOUS
  <2>5. I = {g[k] : k \in 1..M}
    BY <2>3, <2>4
  <2>6. Lists(g, M, I, N)
    BY <2>3, <2>5, Enumerates
  <2> QED BY <2>1, <2>2, <2>4, <2>6 DEF Lists
<1>11. KeptFrom(Keep(b, J), b, pre + n, J)
  <2>1. pre + n \in Nat
    BY <1>2
  <2> QED BY <1>10, <2>1, KeepFacts
<1>12. /\ IsSeq(Keep(b, J)) /\ Len(Keep(b, J)) = pre + q
       /\ \A k \in 1..(pre + q) : Keep(b, J)[k] = b[f[k]]
  BY <1>10, <1>11 DEF KeptFrom
<1>13. Limited(m, limit).blocks = Keep(b, J)
  <2>1. Within(b, b)
    BY <1>1, WithinSelf
  <2>2. CutFrom(Limited(m, limit), m, b, limit)
    BY <2>1, LimitedFacts DEF b
  <2> QED BY <2>2 DEF CutFrom, J, b
<1>14. Numbered(Keep(b, J), type, a, pre, q, o)
  <2>1. \A j \in 1..pre : Keep(b, J)[j].type = "text"
    <3> SUFFICES ASSUME NEW j \in 1..pre PROVE Keep(b, J)[j].type = "text"
      OBVIOUS
    <3>1. Keep(b, J)[j] = b[j]
      BY <1>9, <1>12
    <3> QED BY <1>1, <3>1
  <2>2. \A k \in 1..q : /\ Keep(b, J)[pre + k].type = type
                        /\ Keep(b, J)[pre + k].id = <<a, o + k>>
    <3> SUFFICES ASSUME NEW k \in 1..q
                 PROVE  /\ Keep(b, J)[pre + k].type = type
                        /\ Keep(b, J)[pre + k].id = <<a, o + k>>
      OBVIOUS
    <3>1. Keep(b, J)[pre + k] = b[pre + (o + k)] /\ o + k \in 1..n
      BY <1>9, <1>12
    <3> QED BY <1>1, <3>1
  <2> QED BY <1>12, <2>1, <2>2 DEF Numbered
<1> QED BY <1>13, <1>14 DEF o

\* The blocks have the numbers from o on.
HaveIds(bs, a, q, o) == [k \in DOMAIN bs |-> bs[k].id] = [k \in 1..q |-> <<a, o + k>>]
\* Keeping the tool blocks keeps their numbers in order.
LEMMA NumberedIds ==
  ASSUME NEW b, NEW type \in {"use", "result"}, NEW a, NEW pre \in {0, 1},
         NEW q \in Nat, NEW o \in Nat, Numbered(b, type, a, pre, q, o),
         NEW J, J = {j \in DOMAIN b : b[j].type = type}
  PROVE  HaveIds(Keep(b, J), a, q, o)
<1>1. /\ IsSeq(b) /\ Len(b) = pre + q /\ DOMAIN b = 1..(pre + q)
      /\ \A j \in 1..pre : b[j].type = "text"
      /\ \A k \in 1..q : b[pre + k].type = type /\ b[pre + k].id = <<a, o + k>>
  BY SeqIsFunction DEF Numbered
<1>2. J = (pre + 1)..Len(b)
  <2>1. ASSUME NEW j \in 1..(pre + q) PROVE b[j].type = type <=> j \in (pre + 1)..(pre + q)
    <3>1. CASE j \in 1..pre
      BY <1>1, <3>1
    <3>2. CASE ~ (j \in 1..pre)
      <4>1. j - pre \in 1..q /\ pre + (j - pre) = j /\ j \in (pre + 1)..(pre + q)
        BY <3>2
      <4> QED BY <1>1, <4>1
    <3> QED BY <3>1, <3>2
  <2>2. \A j \in (pre + 1)..(pre + q) : j \in 1..(pre + q)
    OBVIOUS
  <2> QED BY <1>1, <2>1, <2>2
<1>3. pre \in 0..Len(b)
  BY <1>1
<1> DEFINE t == Keep(b, J)
<1>4. Rest(t, b, pre)
  BY <1>1, <1>2, <1>3, KeepTail
<1> HIDE DEF t
<1>5. /\ Len(t) = q /\ DOMAIN t = 1..q
      /\ \A k \in 1..q : t[k] = b[pre + k]
  <2>1. IsSeq(t) /\ Len(t) = q
    BY <1>1, <1>4 DEF Rest
  <2> QED BY <1>4, <2>1, SeqIsFunction DEF Rest
<1>6. \A k \in 1..q : t[k].id = <<a, o + k>>
  BY <1>1, <1>5
<1> QED BY <1>5, <1>6 DEF t, HaveIds

\* What is left of a message of tool calls or results.
CutTo(l, m, type, a, pre, q, o) == Numbered(l.blocks, type, a, pre, q, o) /\ l.role = m.role
\* Of n calls, or n results, the last q are left, whichever of the two it is.
LEMMA CutBlocks ==
  ASSUME NEW cfg, ConfigOk(cfg), NEW m, IsMessage(m), IsToolMessage(m),
         NEW type \in {"use", "result"}, NEW a, NEW pre \in {0, 1}, NEW n \in Nat,
         Tooled(m, type, a, pre, n),
         NEW q \in Nat, q = IF cfg.limit = NoLimit \/ n <= cfg.limit THEN n ELSE cfg.limit
  PROVE  CutTo(CutMessage(m, cfg), m, type, a, pre, q, n - q)
<1>1. CASE cfg.limit = NoLimit
  <2>1. CutMessage(m, cfg) = m /\ q = n /\ n - q = 0
    BY <1>1 DEF CutMessage
  <2>2. Numbered(m.blocks, type, a, pre, n, 0)
    <3>1. \A k \in 1..n : 0 + k = k
      OBVIOUS
    <3>2. \A j \in 1..pre : m.blocks[j].type = "text"
      BY DEF Tooled, Text
    <3> QED BY <3>1, <3>2 DEF Tooled, Numbered
  <2> QED BY <2>1, <2>2 DEF CutTo
<1>2. CASE cfg.limit # NoLimit
  <2>1. cfg.limit \in Nat /\ CutMessage(m, cfg) = Limited(m, cfg.limit)
        /\ q = IF n <= cfg.limit THEN n ELSE cfg.limit
    BY <1>2 DEF ConfigOk, CutMessage
  <2>2. Numbered(Limited(m, cfg.limit).blocks, type, a, pre, q, n - q)
    BY <2>1, CutNumbers
  <2>3. Limited(m, cfg.limit).role = m.role
    <3>1. Within(m.blocks, m.blocks)
      BY WithinSelf DEF Tooled
    <3>2. CutFrom(Limited(m, cfg.limit), m, m.blocks, cfg.limit)
      BY <2>1, <3>1, LimitedFacts
    <3> QED BY <3>2 DEF CutFrom
  <2> QED BY <2>1, <2>2, <2>3 DEF CutTo
<1> QED BY <1>1, <1>2

\* How many blocks of a message of n are left.
Count(cfg, n) == IF cfg.limit = NoLimit \/ n <= cfg.limit THEN n ELSE cfg.limit

\* What is left of a request, or of results, and which numbers it has.
CutKeeps(c, m, cfg, type, a, pre, n, J, L) ==
  /\ c.role = m.role /\ Count(cfg, n) \in Nat
  /\ DOMAIN c.blocks = 1..(pre + Count(cfg, n))
  /\ \A k \in 1..Count(cfg, n) : c.blocks[pre + k].type = type
  /\ HaveIds(Keep(m.blocks, J), a, n, 0)
  /\ HaveIds(Keep(c.blocks, L), a, Count(cfg, n), n - Count(cfg, n))
\* Cutting keeps the last of the numbers.
LEMMA CutIds ==
  ASSUME NEW cfg, ConfigOk(cfg), NEW m, IsMessage(m), IsToolMessage(m),
         NEW type \in {"use", "result"}, NEW a, NEW pre \in {0, 1}, NEW n \in Nat,
         Tooled(m, type, a, pre, n),
         NEW J, J = {j \in DOMAIN m.blocks : m.blocks[j].type = type},
         NEW L, L = {j \in DOMAIN CutMessage(m, cfg).blocks :
                       CutMessage(m, cfg).blocks[j].type = type}
  PROVE  CutKeeps(CutMessage(m, cfg), m, cfg, type, a, pre, n, J, L)
<1>1. PICK q \in Nat : q = Count(cfg, n)
  BY DEF ConfigOk, Count
<1>2. CutTo(CutMessage(m, cfg), m, type, a, pre, q, n - q)
  BY <1>1, CutBlocks DEF Count
<1>3. Numbered(CutMessage(m, cfg).blocks, type, a, pre, q, n - q) /\ CutMessage(m, cfg).role = m.role
  BY <1>2 DEF CutTo
<1>4. n - q \in Nat
  BY <1>1 DEF ConfigOk, Count
<1>5. HaveIds(Keep(CutMessage(m, cfg).blocks, L), a, q, n - q)
  BY <1>3, <1>4, NumberedIds
<1>6. Numbered(m.blocks, type, a, pre, n, 0)
  <2>1. \A k \in 1..n : 0 + k = k
    OBVIOUS
  <2>2. \A j \in 1..pre : m.blocks[j].type = "text"
    BY DEF Tooled, Text
  <2> QED BY <2>1, <2>2 DEF Tooled, Numbered
<1>7. HaveIds(Keep(m.blocks, J), a, n, 0)
  BY <1>6, NumberedIds
<1>8. DOMAIN CutMessage(m, cfg).blocks = 1..(pre + q)
  BY <1>3, SeqIsFunction DEF Numbered
<1>9. \A k \in 1..q : CutMessage(m, cfg).blocks[pre + k].type = type
  BY <1>3 DEF Numbered
<1> QED BY <1>1, <1>3, <1>5, <1>7, <1>8, <1>9 DEF CutKeeps

\* A request and the results right behind it, of whichever call they are.
LEMMA CutPair ==
  ASSUME NEW h, HistoryOk(h), NEW cfg, ConfigOk(cfg), cfg.limit # 0, NEW p \in PairEnds(h)
  PROVE  /\ CutMessage(h[p], cfg).role = "user" /\ IsResultMessage(CutMessage(h[p], cfg))
         /\ AnsweredBy(h[p - 1], h[p]) => AnsweredBy(CutMessage(h[p - 1], cfg), CutMessage(h[p], cfg))
<1> DEFINE m == h[p - 1]
           r == h[p]
<1>1. /\ p \in 1..Len(h) /\ p - 1 \in 1..Len(h)
      /\ r.role = "user" /\ IsResultMessage(r)
      /\ m.role = "assistant" /\ HasUses(m)
      /\ Request(m) /\ Response(r)
  BY PairFacts
<1>2. IsMessage(r) /\ IsToolMessage(r) /\ IsMessage(m) /\ IsToolMessage(m)
  BY <1>1 DEF HistoryOk, IsToolMessage
<1> HIDE DEF m, r
<1>3. PICK a : \E pre \in {0, 1}, n \in Nat : Asks(m, a, pre, n)
  BY <1>1 DEF Request
<1>4. PICK pre \in {0, 1}, n \in Nat : Asks(m, a, pre, n)
  BY <1>3
<1>5. PICK b : \E l \in Nat : Answers(r, b, l)
  BY <1>1 DEF Response
<1>6. PICK l \in Nat : Answers(r, b, l)
  BY <1>5
<1> DEFINE J == {j \in DOMAIN m.blocks : m.blocks[j].type = "use"}
           K == {j \in DOMAIN r.blocks : r.blocks[j].type = "result"}
           M == {j \in DOMAIN CutMessage(m, cfg).blocks : CutMessage(m, cfg).blocks[j].type = "use"}
           R == {j \in DOMAIN CutMessage(r, cfg).blocks : CutMessage(r, cfg).blocks[j].type = "result"}
           q == Count(cfg, n)
           v == Count(cfg, l)
<1>7. /\ HaveIds(Keep(m.blocks, J), a, n, 0)
      /\ HaveIds(Keep(CutMessage(m, cfg).blocks, M), a, q, n - q)
  <2>1. CutKeeps(CutMessage(m, cfg), m, cfg, "use", a, pre, n, J, M)
    BY <1>2, <1>4, CutIds DEF Asks
  <2> QED BY <2>1 DEF CutKeeps
<1>8. /\ CutMessage(r, cfg).role = r.role /\ v \in Nat
      /\ DOMAIN CutMessage(r, cfg).blocks = 1..(0 + v)
      /\ \A k \in 1..v : CutMessage(r, cfg).blocks[0 + k].type = "result"
      /\ HaveIds(Keep(r.blocks, K), b, l, 0)
      /\ HaveIds(Keep(CutMessage(r, cfg).blocks, R), b, v, l - v)
  <2>1. CutKeeps(CutMessage(r, cfg), r, cfg, "result", b, 0, l, K, R)
    BY <1>2, <1>6, CutIds DEF Answers
  <2> QED BY <2>1 DEF CutKeeps
<1>9. Ids(m, IsUse) = [k \in 1..n |-> <<a, 0 + k>>]
  BY <1>7 DEF Ids, IsUse, HaveIds
<1>10. Ids(CutMessage(m, cfg), IsUse) = [k \in 1..q |-> <<a, (n - q) + k>>]
  BY <1>7 DEF Ids, IsUse, HaveIds
<1>11. Ids(r, IsResult) = [k \in 1..l |-> <<b, 0 + k>>]
  BY <1>8 DEF Ids, IsResult, HaveIds
<1>12. Ids(CutMessage(r, cfg), IsResult) = [k \in 1..v |-> <<b, (l - v) + k>>]
  BY <1>8 DEF Ids, IsResult, HaveIds
<1>13. l > 0
  <2>1. DOMAIN r.blocks = 1..l
    BY <1>6, SeqIsFunction DEF Answers, Tooled
  <2>2. DOMAIN r.blocks # {}
    BY <1>1 DEF IsResultMessage
  <2> QED BY <2>1, <2>2
<1>14. v > 0
  <2>1. cfg.limit = NoLimit \/ (cfg.limit \in Nat /\ cfg.limit # 0)
    BY DEF ConfigOk
  <2> QED BY <1>13, <2>1 DEF Count
<1> HIDE DEF J, K, M, R, q, v
<1>15. IsResultMessage(CutMessage(r, cfg))
  <2>1. 1 \in 1..v /\ 0 + 1 = 1 /\ 1 \in 1..(0 + v)
    BY <1>8, <1>14
  <2> QED BY <1>8, <2>1 DEF IsResultMessage, IsResult
<1>16. ASSUME AnsweredBy(m, r) PROVE AnsweredBy(CutMessage(m, cfg), CutMessage(r, cfg))
  <2> DEFINE f == [k \in 1..n |-> <<a, 0 + k>>]
             g == [k \in 1..l |-> <<b, 0 + k>>]
  <2>1. f = g
    BY <1>9, <1>11, <1>16 DEF AnsweredBy
  <2>2. DOMAIN f = 1..n /\ DOMAIN g = 1..l /\ \A k \in 1..l : g[k] = <<b, 0 + k>>
    OBVIOUS
  <2>3. \A k \in 1..n : f[k] = <<a, 0 + k>>
    OBVIOUS
  <2> HIDE DEF f, g
  <2>4. 1..n = 1..l
    BY <2>1, <2>2
  <2>5. n = l
    BY <1>13, <2>4
  <2>6. a = b
    <3>1. 1 \in 1..l /\ 1 \in 1..n
      BY <1>13, <2>5
    <3> QED BY <2>1, <2>2, <2>3, <3>1
  <2>7. q = v
    BY <2>5 DEF q, v
  <2> QED BY <1>10, <1>12, <2>5, <2>6, <2>7 DEF AnsweredBy
<1> QED BY <1>1, <1>8, <1>15, <1>16 DEF m, r

\* In what is sent a request is right before its results, and answered by them.
LEMMA PairsTogether ==
  ASSUME NEW h, HistoryOk(h), NEW cfg, ConfigOk(cfg), ~ cfg.dedup, cfg.limit # 0,
         NEW p \in PairEnds(h), NEW sent, sent = FilterMessages(h, cfg)
  PROVE  \A k \in 1..Len(sent) :
           /\ sent[k].at = p - 1 => /\ k + 1 \in 1..Len(sent) /\ sent[k + 1].at = p
                                    /\ (AnsweredBy(h[p - 1], h[p]) => AnsweredBy(sent[k], sent[k + 1]))
           /\ sent[k].at = p => k - 1 \in 1..Len(sent) /\ sent[k - 1].at = p - 1
<1> DEFINE recent == LastMessages(h, cfg)
           fewer == Retained(h, cfg)
           cut == Cut(h, cfg)
           led == Led(h, cfg)
<1>0. cfg.max \in Nat /\ cfg.limit \in Nat \union {NoLimit}
  BY DEF ConfigOk
<1>1. Part(recent, h) /\ Part(fewer, h) /\ Part(cut, h)
  BY StageFacts
<1>2. PICK c : Rest(recent, h, c)
  BY <1>0, Recent
<1>3. Exact(recent, h) /\ TogetherBut(recent, h)
  BY <1>2, RecentTogether
<1>4. fewer = RetainLast(recent, cfg)
  BY DEF Retained, Deduped
<1>5. PICK d \in Nat, e \in Nat :
        /\ Rest(led, cut, d) /\ Rest(sent, led, e) /\ Part(led, h)
        /\ e < Len(led) => ~ (led[e + 1].role = "user" /\ IsResultMessage(led[e + 1]))
  BY FrontOnly
<1> HIDE DEF recent, led
<1>6. Exact(fewer, h) /\ TogetherBut(fewer, h)
  BY <1>1, <1>3, <1>4, RetainTogether
<1>7. CutExact(cut, h, cfg) /\ TogetherBut(cut, h)
  BY <1>0, <1>1, <1>6, CutTogether DEF Cut
<1> HIDE DEF fewer, cut
<1>8. CutExact(led, h, cfg) /\ TogetherBut(led, h)
  BY <1>1, <1>5, <1>7, RestTogether
<1>9. CutExact(sent, h, cfg) /\ TogetherBut(sent, h)
  BY <1>5, <1>8, RestTogether
<1>10. /\ Len(led) \in Nat
       /\ \A k \in 1..Len(sent) : e + k \in 1..Len(led) /\ sent[k] = led[e + k]
  BY <1>5, RestFacts
<1> SUFFICES ASSUME NEW k \in 1..Len(sent)
             PROVE  /\ sent[k].at = p - 1 => /\ k + 1 \in 1..Len(sent) /\ sent[k + 1].at = p
                                             /\ (AnsweredBy(h[p - 1], h[p]) => AnsweredBy(sent[k], sent[k + 1]))
                    /\ sent[k].at = p => k - 1 \in 1..Len(sent) /\ sent[k - 1].at = p - 1
  OBVIOUS
<1>11. TogetherAt(sent, p, k)
  BY <1>9 DEF TogetherBut
<1>12. ASSUME sent[k].at = p - 1
       PROVE  /\ k + 1 \in 1..Len(sent) /\ sent[k + 1].at = p
              /\ (AnsweredBy(h[p - 1], h[p]) => AnsweredBy(sent[k], sent[k + 1]))
  <2>1. k + 1 \in 1..Len(sent) /\ sent[k + 1].at = p
    BY <1>11, <1>12 DEF TogetherAt
  <2>2. sent[k] = CutMessage(h[p - 1], cfg) /\ sent[k + 1] = CutMessage(h[p], cfg)
    BY <1>9, <1>12, <2>1 DEF CutExact
  <2> QED BY <2>1, <2>2, CutPair
<1>13. ASSUME sent[k].at = p PROVE k - 1 \in 1..Len(sent) /\ sent[k - 1].at = p - 1
  <2>1. k # 1
    <3> SUFFICES ASSUME k = 1 PROVE FALSE
      OBVIOUS
    <3>1. sent[k] = CutMessage(h[p], cfg)
      BY <1>9, <1>13 DEF CutExact
    <3>2. sent[k].role = "user" /\ IsResultMessage(sent[k])
      BY <3>1, CutPair
    <3>3. e < Len(led) /\ sent[k] = led[e + 1]
      BY <1>10
    <3> QED BY <1>5, <3>2, <3>3
  <2> QED BY <1>11, <1>13, <2>1 DEF TogetherAt
<1> QED BY <1>12, <1>13

\* Without deduplication, and unless every tool block is cut off, a request that has
\* results right behind it is sent right before them, or neither is, and still fits
\* them if it did, for every history that overlapping calls and edits can leave.
THEOREM PairsKept == Spec => []PairsStayTogether
<1>1. Histories => PairsStayTogether
  <2> DEFINE Place(n) == {i \in DOMAIN Sent : Sent[i].at = n}
  <2> SUFFICES ASSUME Histories, ~ config.dedup, config.limit # 0, NEW p \in PairEnds(history)
               PROVE  /\ Place(p) = {i + 1 : i \in Place(p - 1)}
                      /\ AnsweredBy(history[p - 1], history[p]) =>
                           \A i \in Place(p - 1) : AnsweredBy(Sent[i], Sent[i + 1])
    BY DEF PairsStayTogether
  <2>1. HistoryOk(history) /\ ConfigOk(config)
    BY ConfigsAssumption DEF Histories, ConfigOk
  <2>2. PICK sent : sent = Sent
    OBVIOUS
  <2>3. \A k \in 1..Len(sent) :
          /\ sent[k].at = p - 1 =>
               /\ k + 1 \in 1..Len(sent) /\ sent[k + 1].at = p
               /\ AnsweredBy(history[p - 1], history[p]) => AnsweredBy(sent[k], sent[k + 1])
          /\ sent[k].at = p => k - 1 \in 1..Len(sent) /\ sent[k - 1].at = p - 1
    BY <2>1, <2>2, PairsTogether DEF Sent
  <2>4. DOMAIN sent = 1..Len(sent)
    <3>1. PICK d \in Nat, e \in Nat : Rest(sent, Led(history, config), e)
      BY <2>1, <2>2, FrontOnly DEF Sent
    <3> QED BY <3>1, SeqIsFunction DEF Rest
  <2>5. \A i \in Place(p - 1) : i + 1 \in Place(p)
    BY <2>2, <2>3, <2>4
  <2>6. \A i \in Place(p) : i - 1 \in Place(p - 1) /\ i = (i - 1) + 1
    BY <2>2, <2>3, <2>4
  <2>7. AnsweredBy(history[p - 1], history[p]) =>
          \A i \in Place(p - 1) : AnsweredBy(Sent[i], Sent[i + 1])
    BY <2>2, <2>3, <2>4
  <2> HIDE DEF Place
  <2> QED BY <2>5, <2>6, <2>7
<1> QED BY <1>1, HistoriesOfCalls, PTL
=============================================================================

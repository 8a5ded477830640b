---------------------------- MODULE SequenceFacts ----------------------------
(* What the proofs about contents and about the stream need of sequences: the *)
(* results of FlattenSeq, which the library defines by recursion.             *)
EXTENDS Naturals, Sequences, SequencesExt, SequenceTheorems, WellFoundedInduction,
        FiniteSetTheorems, TLAPS

\* Any sequence.
IsSeq(s) == \E S : s \in Seq(S)

\* What is appended to a sequence leaves a sequence.
LEMMA AppendIsSeq == ASSUME NEW s, NEW e, IsSeq(s)
                     PROVE  /\ IsSeq(Append(s, e))
                            /\ Len(s) \in Nat /\ DOMAIN s = 1..Len(s)
                            /\ Len(Append(s, e)) = Len(s) + 1
                            /\ \A i \in 1..Len(s) : Append(s, e)[i] = s[i]
                            /\ Append(s, e)[Len(s) + 1] = e
<1>1. PICK S : s \in Seq(S)
  BY DEF IsSeq
<1> DEFINE T == S \union {e}
<1>2. s \in Seq(T) /\ e \in T
  <2>1. Len(s) \in Nat /\ s \in [1..Len(s) -> S]
    BY <1>1
  <2> QED BY <2>1
<1>3. Append(s, e) \in Seq(T)
  BY <1>2
<1>4. IsSeq(Append(s, e))
  BY <1>3 DEF IsSeq
<1> QED BY <1>2, <1>4

\* A function on the first places is a sequence.
LEMMA FunctionIsSeq == ASSUME NEW n \in Nat, NEW f, f = [i \in 1..n |-> f[i]]
                       PROVE  IsSeq(f) /\ Len(f) = n /\ DOMAIN f = 1..n
<1> DEFINE S == {f[i] : i \in 1..n}
<1>1. f \in [1..n -> S]
  OBVIOUS
<1>2. f \in Seq(S) /\ Len(f) = n
  BY <1>1
<1> QED BY <1>2 DEF IsSeq

\* A sequence is a function on the first places.
LEMMA SeqIsFunction == ASSUME NEW s, IsSeq(s)
                       PROVE  Len(s) \in Nat /\ DOMAIN s = 1..Len(s) /\ s = [i \in 1..Len(s) |-> s[i]]
BY DEF IsSeq

\* Two sequences joined.
LEMMA ConcatIsSeq ==
  ASSUME NEW s, NEW t, IsSeq(s), IsSeq(t)
  PROVE  /\ IsSeq(s \o t) /\ Len(s \o t) = Len(s) + Len(t)
         /\ \A i \in 1..Len(s) : (s \o t)[i] = s[i]
         /\ \A i \in 1..Len(t) : (s \o t)[Len(s) + i] = t[i]
<1>1. PICK S, T : s \in Seq(S) /\ t \in Seq(T)
  BY DEF IsSeq
<1> DEFINE U == S \union T
<1>2. s \in Seq(U) /\ t \in Seq(U)
  BY <1>1, SeqMonotonic
<1> HIDE DEF U
<1>3. s \o t \in Seq(U)
  BY <1>2
<1> QED BY <1>2, <1>3 DEF IsSeq

\* A set of natural numbers has a least element.
LEMMA LeastExists == ASSUME NEW K, K \subseteq Nat, K # {}
                     PROVE  \E k \in K : \A l \in K : k <= l
<1>1. PICK k \in K : \A l \in K : ~ (<<l, k>> \in OpToRel(<, Nat))
  BY WFMin, NatLessThanWellFounded
<1>2. \A l \in K : ~ (l < k)
  BY <1>1 DEF OpToRel
<1> QED BY <1>2

\* Induction over the places of a sequence, for the set of those where it holds.
LEMMA Climb ==
  ASSUME NEW n \in Nat, NEW K, 1 \in 1..n => 1 \in K,
         \A k \in 1..n : k # 1 /\ k - 1 \in K => k \in K
  PROVE  1..n \subseteq K
<1> DEFINE Missing == {k \in 1..n : k \notin K}
<1> SUFFICES ASSUME Missing # {} PROVE FALSE
  OBVIOUS
<1>1. Missing \subseteq Nat
  OBVIOUS
<1>2. PICK k \in Missing : \A l \in Missing : k <= l
  BY <1>1, LeastExists
<1>3. k \in 1..n /\ k \notin K
  BY <1>2
<1>4. k # 1
  BY <1>3
<1>5. k - 1 \in 1..n /\ k - 1 \notin Missing
  BY <1>2, <1>3, <1>4
<1> QED BY <1>3, <1>4, <1>5
-----------------------------------------------------------------------------
(* FlattenSeq. *)

\* The function that FlattenSeq recurses with.
Flattening(seqs) ==
  CHOOSE f : f = [i \in 1..Len(seqs) |-> IF i = 1 THEN seqs[i] ELSE f[i - 1] \o seqs[i]]

\* There is such a function: it is built up one place after the other.
LEMMA FlatteningExists ==
  ASSUME NEW S, NEW seqs \in Seq(Seq(S))
  PROVE  \A i \in 1..Len(seqs) :
           Flattening(seqs)[i] = IF i = 1 THEN seqs[i] ELSE Flattening(seqs)[i - 1] \o seqs[i]
<1> DEFINE Builds(f, k) == f = [i \in 1..k |-> IF i = 1 THEN seqs[i] ELSE f[i - 1] \o seqs[i]]
<1>1. \E f : Builds(f, 0)
  <2>1. Builds([i \in 1..0 |-> 0], 0)
    OBVIOUS
  <2> QED BY <2>1
<1>2. ASSUME NEW k \in Nat, NEW g, Builds(g, k) PROVE \E f : Builds(f, k + 1)
  <2> DEFINE f == [i \in 1..(k + 1) |->
                     IF i = k + 1 THEN (IF i = 1 THEN seqs[i] ELSE g[k] \o seqs[i]) ELSE g[i]]
  <2>1. ASSUME NEW i \in 1..(k + 1)
        PROVE  f[i] = IF i = 1 THEN seqs[i] ELSE f[i - 1] \o seqs[i]
    <3>1. CASE i = k + 1
      BY <3>1
    <3>2. CASE i \in 1..k
      <4>1. f[i] = g[i] /\ (i # 1 => f[i - 1] = g[i - 1])
        BY <3>2
      <4>2. g[i] = IF i = 1 THEN seqs[i] ELSE g[i - 1] \o seqs[i]
        BY <1>2, <3>2
      <4> QED BY <4>1, <4>2
    <3> QED BY <3>1, <3>2
  <2>2. Builds(f, k + 1)
    BY <2>1
  <2> QED BY <2>2
<1>3. \E f : Builds(f, Len(seqs))
  <2> DEFINE K == {k \in Nat : \E f : Builds(f, k)}
             n == Len(seqs)
  <2>1. n \in Nat
    OBVIOUS
  <2> HIDE DEF Builds, n
  <2>2. 0 \in K
    BY <1>1
  <2>3. \A k \in 1..n : k - 1 \in K => k \in K
    <3> SUFFICES ASSUME NEW k \in 1..n, k - 1 \in K PROVE k \in K
      OBVIOUS
    <3>1. k - 1 \in Nat /\ k \in Nat /\ (k - 1) + 1 = k
      OBVIOUS
    <3>2. PICK g : Builds(g, k - 1)
      OBVIOUS
    <3> QED BY <1>2, <3>1, <3>2
  <2>4. 1 \in 1..n => 1 \in K
    BY <2>2, <2>3
  <2> HIDE DEF K
  <2>5. 1..n \subseteq K
    BY <2>1, <2>3, <2>4, Climb
  <2>6. n \in K
    BY <2>1, <2>2, <2>5
  <2> QED BY <2>6 DEF K, n
<1>4. Builds(Flattening(seqs), Len(seqs))
  <2> HIDE DEF Builds
  <2> QED BY Zenon, <1>3 DEF Flattening, Builds
<1>5. ASSUME NEW f, Builds(f, Len(seqs)), NEW i \in 1..Len(seqs)
      PROVE  f[i] = IF i = 1 THEN seqs[i] ELSE f[i - 1] \o seqs[i]
  BY <1>5
<1> HIDE DEF Builds
<1> QED BY <1>4, <1>5

\* FlattenSeq keeps all elements, and adds none.
LEMMA FlattenElements ==
  ASSUME NEW S, NEW seqs \in Seq(Seq(S))
  PROVE  /\ FlattenSeq(seqs) \in Seq(S)
         /\ Range(FlattenSeq(seqs)) = UNION {Range(seqs[i]) : i \in DOMAIN seqs}
         /\ \A k \in 1..Len(seqs) : Flattening(seqs)[k] \in Seq(S)
         /\ FlattenSeq(seqs) = IF seqs = <<>> THEN <<>> ELSE Flattening(seqs)[Len(seqs)]
<1> DEFINE F == Flattening(seqs)
           All(k) == UNION {Range(seqs[i]) : i \in 1..k}
           Right(k) == F[k] \in Seq(S) /\ Range(F[k]) = All(k)
<1>0. /\ \A i \in 1..Len(seqs) : seqs[i] \in Seq(S)
      /\ \A i \in 1..Len(seqs) : F[i] = IF i = 1 THEN seqs[i] ELSE F[i - 1] \o seqs[i]
      /\ DOMAIN seqs = 1..Len(seqs) /\ Len(seqs) \in Nat
  <2> HIDE DEF F
  <2>1. /\ \A i \in 1..Len(seqs) : seqs[i] \in Seq(S)
        /\ DOMAIN seqs = 1..Len(seqs) /\ Len(seqs) \in Nat
    OBVIOUS
  <2>2. \A i \in 1..Len(seqs) : F[i] = IF i = 1 THEN seqs[i] ELSE F[i - 1] \o seqs[i]
    BY Zenon, FlatteningExists DEF F
  <2> QED BY <2>1, <2>2
<1> HIDE DEF F
<1>1. ASSUME 1 \in 1..Len(seqs) PROVE Right(1)
  <2>1. All(1) = Range(seqs[1])
    OBVIOUS
  <2> QED BY <1>0, <1>1, <2>1
<1>2. ASSUME NEW k \in 1..Len(seqs), k # 1, Right(k - 1) PROVE Right(k)
  <2>1. F[k] = F[k - 1] \o seqs[k] /\ seqs[k] \in Seq(S)
    BY <1>0, <1>2
  <2>2. All(k) = All(k - 1) \union Range(seqs[k])
    <3>1. 1..k = (1..(k - 1)) \union {k}
      BY <1>0
    <3> QED BY <3>1
  <2>3. F[k - 1] \in Seq(S) /\ Range(F[k - 1]) = All(k - 1)
    BY <1>2
  <2> HIDE DEF All
  <2>4. /\ F[k - 1] \o seqs[k] \in Seq(S)
        /\ Range(F[k - 1] \o seqs[k]) = Range(F[k - 1]) \union Range(seqs[k])
    BY <2>1, <2>3, ConcatProperties, RangeConcatenation
  <2> QED BY <2>1, <2>2, <2>3, <2>4
<1> HIDE DEF Right
<1>3. \A k \in 1..Len(seqs) : Right(k)
  <2> DEFINE K == {k \in 1..Len(seqs) : Right(k)}
  <2>1. /\ 1 \in 1..Len(seqs) => 1 \in K
        /\ \A k \in 1..Len(seqs) : k # 1 /\ k - 1 \in K => k \in K
    BY <1>1, <1>2
  <2> HIDE DEF K
  <2>2. 1..Len(seqs) \subseteq K
    BY <1>0, <2>1, Climb
  <2> QED BY <2>2 DEF K
<1>4. \A k \in 1..Len(seqs) : F[k] \in Seq(S)
  BY <1>3 DEF Right
<1>5. CASE seqs = <<>>
  BY <1>0, <1>4, <1>5 DEF FlattenSeq, Range, F
<1>6. CASE seqs # <<>>
  <2>1. FlattenSeq(seqs) = F[Len(seqs)]
    BY <1>6 DEF FlattenSeq, Flattening, F
  <2>2. Right(Len(seqs)) /\ Len(seqs) \in 1..Len(seqs)
    BY <1>0, <1>3, <1>6
  <2> QED BY <1>0, <1>4, <1>6, <2>1, <2>2 DEF Right, F
<1> QED BY <1>5, <1>6

Associative(S) == \A a, b, c \in Seq(S) : (a \o b) \o c = a \o (b \o c)

\* Three sequences are joined from either end.
LEMMA JoinThree == \A S : Associative(S)
BY DEF Associative

\* What is flattened in two parts is flattened as a whole.
LEMMA FlattenConcat ==
  ASSUME NEW S, NEW s \in Seq(Seq(S)), NEW t \in Seq(Seq(S))
  PROVE  s \o t \in Seq(Seq(S)) /\ FlattenSeq(s \o t) = FlattenSeq(s) \o FlattenSeq(t)
<1> DEFINE m == Len(s)
           n == Len(t)
           u == s \o t
           F == Flattening(s)
           G == Flattening(t)
           H == Flattening(u)
<1>0. Associative(S)
  BY JoinThree
<1>1. /\ u \in Seq(Seq(S)) /\ m \in Nat /\ n \in Nat /\ Len(u) = m + n
      /\ \A i \in 1..m : u[i] = s[i]
      /\ \A i \in 1..n : u[m + i] = t[i]
      /\ s = <<>> <=> m = 0
      /\ t = <<>> <=> n = 0
      /\ u = <<>> <=> m + n = 0
  OBVIOUS
<1>2. /\ \A i \in 1..m : F[i] = IF i = 1 THEN s[i] ELSE F[i - 1] \o s[i]
      /\ \A i \in 1..n : G[i] = IF i = 1 THEN t[i] ELSE G[i - 1] \o t[i]
      /\ \A i \in 1..m + n : H[i] = IF i = 1 THEN u[i] ELSE H[i - 1] \o u[i]
  <2> HIDE DEF F, G, H, u
  <2>1. \A i \in 1..m : F[i] = IF i = 1 THEN s[i] ELSE F[i - 1] \o s[i]
    BY Zenon, FlatteningExists DEF F
  <2>2. \A i \in 1..n : G[i] = IF i = 1 THEN t[i] ELSE G[i - 1] \o t[i]
    BY Zenon, FlatteningExists DEF G
  <2>3. \A i \in 1..Len(u) : H[i] = IF i = 1 THEN u[i] ELSE H[i - 1] \o u[i]
    BY Zenon, <1>1, FlatteningExists DEF H
  <2> QED BY <1>1, <2>1, <2>2, <2>3
<1>3. /\ FlattenSeq(s) \in Seq(S) /\ FlattenSeq(t) \in Seq(S)
      /\ \A k \in 1..n : G[k] \in Seq(S)
      /\ FlattenSeq(s) = IF m = 0 THEN <<>> ELSE F[m]
      /\ FlattenSeq(t) = IF n = 0 THEN <<>> ELSE G[n]
      /\ FlattenSeq(u) = IF m + n = 0 THEN <<>> ELSE H[m + n]
  <2> HIDE DEF F, G, H, u
  <2>1. /\ FlattenSeq(s) \in Seq(S)
        /\ FlattenSeq(s) = IF s = <<>> THEN <<>> ELSE F[m]
    BY FlattenElements DEF F
  <2>2. /\ FlattenSeq(t) \in Seq(S) /\ \A k \in 1..n : G[k] \in Seq(S)
        /\ FlattenSeq(t) = IF t = <<>> THEN <<>> ELSE G[n]
    BY FlattenElements DEF G
  <2>3. FlattenSeq(u) = IF u = <<>> THEN <<>> ELSE H[m + n]
    BY <1>1, FlattenElements DEF H
  <2> QED BY <1>1, <2>1, <2>2, <2>3
<1> HIDE DEF m, n, u, F, G, H
<1>4. \A k \in 1..m : H[k] = F[k]
  <2> DEFINE K == {k \in 1..m : H[k] = F[k]}
  <2>1. ASSUME 1 \in 1..m PROVE 1 \in K
    <3>1. 1 \in 1..m + n
      BY <1>1, <2>1
    <3> QED BY <1>1, <1>2, <2>1, <3>1
  <2>2. ASSUME NEW k \in 1..m, k # 1, k - 1 \in K PROVE k \in K
    <3>1. k \in 1..m + n /\ u[k] = s[k]
      BY <1>1
    <3> QED BY <1>2, <2>2, <3>1
  <2> HIDE DEF K
  <2>3. 1..m \subseteq K
    BY <1>1, <2>1, <2>2, Climb
  <2> QED BY <2>3 DEF K
<1>5. CASE n = 0
  <2>1. FlattenSeq(u) = FlattenSeq(s) /\ FlattenSeq(t) = <<>>
    BY <1>1, <1>3, <1>4, <1>5
  <2> QED BY <1>1, <1>3, <2>1, ConcatEmptySeq DEF u
<1>6. CASE n > 0
  <2> DEFINE K == {k \in 1..n : H[m + k] = FlattenSeq(s) \o G[k]}
  <2>1. ASSUME 1 \in 1..n PROVE 1 \in K
    <3>1. m + 1 \in 1..m + n /\ u[m + 1] = t[1] /\ G[1] = t[1] /\ t[1] \in Seq(S)
      BY <1>1, <1>2, <1>3, <2>1
    <3>2. H[m + 1] = IF m + 1 = 1 THEN u[m + 1] ELSE H[(m + 1) - 1] \o u[m + 1]
      BY <1>2, <3>1
    <3>3. CASE m = 0
      <4>1. H[m + 1] = t[1] /\ FlattenSeq(s) = <<>>
        BY <1>3, <3>1, <3>2, <3>3
      <4> QED BY <2>1, <3>1, <4>1, ConcatEmptySeq
    <3>4. CASE m # 0
      <4>1. H[m] = FlattenSeq(s) /\ (m + 1) - 1 = m /\ m + 1 # 1
        BY <1>1, <1>3, <1>4, <3>4
      <4> QED BY <2>1, <3>1, <3>2, <4>1
    <3> QED BY <3>3, <3>4
  <2>2. ASSUME NEW k \in 1..n, k # 1, k - 1 \in K PROVE k \in K
    <3>0. t[k] \in Seq(S) /\ u[m + k] = t[k]
      BY <1>1 DEF n
    <3>1. /\ m + k \in 1..m + n /\ m + k # 1
          /\ (m + k) - 1 = m + (k - 1) /\ k - 1 \in 1..n
      BY <1>1, <2>2
    <3>2. H[m + k] = H[m + (k - 1)] \o t[k]
      BY <1>2, <3>0, <3>1
    <3>3. H[m + (k - 1)] = FlattenSeq(s) \o G[k - 1] /\ G[k - 1] \in Seq(S)
      BY <1>3, <2>2, <3>1
    <3>4. H[m + k] = FlattenSeq(s) \o (G[k - 1] \o t[k])
      <4>1. (FlattenSeq(s) \o G[k - 1]) \o t[k] = FlattenSeq(s) \o (G[k - 1] \o t[k])
        <5>1. FlattenSeq(s) \in Seq(S)
          BY <1>3
        <5> QED BY <1>0, <3>0, <3>3, <5>1 DEF Associative
      <4> QED BY <3>2, <3>3, <4>1
    <3>5. G[k] = G[k - 1] \o t[k]
      BY <1>2, <2>2
    <3> QED BY <3>4, <3>5
  <2> HIDE DEF K
  <2>3. 1..n \subseteq K
    BY <1>1, <2>1, <2>2, Climb
  <2>4. H[m + n] = FlattenSeq(s) \o G[n]
    BY <1>1, <1>6, <2>3, SMTT(30) DEF K
  <2>5. m + n # 0
    BY <1>1, <1>6
  <2>6. FlattenSeq(u) = H[m + n] /\ FlattenSeq(t) = G[n]
    BY <1>3, <1>6, <2>5
  <2> QED BY <1>1, <2>4, <2>6 DEF u
<1> QED BY <1>1, <1>5, <1>6 DEF u

\* Sequences put in a sequence have their elements in a set.
LEMMA SeqOfSeqs == ASSUME NEW s, IsSeq(s), \A i \in DOMAIN s : IsSeq(s[i])
                   PROVE  \E S : s \in Seq(Seq(S))
<1> DEFINE S == UNION {{s[i][j] : j \in DOMAIN s[i]} : i \in DOMAIN s}
<1>1. \A i \in DOMAIN s : s[i] \in Seq(S)
  <2> SUFFICES ASSUME NEW i \in DOMAIN s PROVE s[i] \in Seq(S)
    OBVIOUS
  <2>1. s[i] = [j \in 1..Len(s[i]) |-> s[i][j]] /\ Len(s[i]) \in Nat
    BY SeqIsFunction
  <2>2. \A j \in 1..Len(s[i]) : s[i][j] \in S
    BY <2>1
  <2> HIDE DEF S
  <2>3. s[i] \in [1..Len(s[i]) -> S]
    BY <2>1, <2>2
  <2> QED BY <2>1, <2>3
<1> HIDE DEF S
<1>2. s = [i \in 1..Len(s) |-> s[i]] /\ Len(s) \in Nat
  BY SeqIsFunction
<1>3. s \in [1..Len(s) -> Seq(S)]
  BY <1>1, <1>2
<1>4. s \in Seq(Seq(S))
  BY <1>2, <1>3
<1> QED BY <1>4

\* One more sequence is flattened.
LEMMA FlattenAppend ==
  ASSUME NEW S, NEW s \in Seq(Seq(S)), NEW e \in Seq(S)
  PROVE  FlattenSeq(Append(s, e)) = FlattenSeq(s) \o e
<1>1. <<e>> \in Seq(Seq(S)) /\ Append(s, e) = s \o <<e>>
  BY AppendIsConcat
<1>2. FlattenSeq(<<e>>) = e
  <2>1. /\ \A i \in 1..Len(<<e>>) : Flattening(<<e>>)[i] =
             IF i = 1 THEN <<e>>[i] ELSE Flattening(<<e>>)[i - 1] \o <<e>>[i]
    BY Zenon, <1>1, FlatteningExists
  <2>2. FlattenSeq(<<e>>) = IF <<e>> = <<>> THEN <<>> ELSE Flattening(<<e>>)[Len(<<e>>)]
    BY Zenon, <1>1, FlattenElements
  <2> QED BY <2>1, <2>2
<1>3. FlattenSeq(s \o <<e>>) = FlattenSeq(s) \o FlattenSeq(<<e>>)
  BY <1>1, FlattenConcat
<1> QED BY <1>1, <1>2, <1>3

\* A sequence that is flattened out of its elements one by one.
LEMMA FlattenSingles ==
  ASSUME NEW S, NEW f \in Seq(S)
  PROVE  FlattenSeq([i \in 1..Len(f) |-> <<f[i]>>]) = f
<1> DEFINE n == Len(f)
           ones == [i \in 1..n |-> <<f[i]>>]
           F == Flattening(ones)
<1>1. n \in Nat /\ ones \in Seq(Seq(S)) /\ Len(ones) = n /\ (ones = <<>> <=> n = 0)
  OBVIOUS
<1>2. \A i \in 1..n : F[i] = IF i = 1 THEN ones[i] ELSE F[i - 1] \o ones[i]
  <2> HIDE DEF F, ones, n
  <2> QED BY Zenon, <1>1, FlatteningExists DEF F
<1>3. FlattenSeq(ones) = IF n = 0 THEN <<>> ELSE F[n]
  <2> HIDE DEF F, ones, n
  <2> QED BY <1>1, FlattenElements DEF F
<1>4. \A i \in 1..n : ones[i] = <<f[i]>>
  OBVIOUS
<1> HIDE DEF F, ones
<1> DEFINE K == {k \in 1..n : F[k] = SubSeq(f, 1, k)}
<1>5. ASSUME 1 \in 1..n PROVE 1 \in K
  BY <1>2, <1>4, <1>5
<1>6. ASSUME NEW k \in 1..n, k # 1, k - 1 \in K PROVE k \in K
  <2>1. F[k] = SubSeq(f, 1, k - 1) \o <<f[k]>>
    BY <1>2, <1>4, <1>6
  <2>2. 1 \in 1..n /\ k \in 1..n
    BY <1>1
  <2>3. SubSeq(f, 1, k) = SubSeq(f, 1, k - 1) \o <<f[k]>>
    BY <2>2, SubSeqRecursiveSecond
  <2> QED BY <2>1, <2>3
<1> HIDE DEF K, n
<1>7. 1..n \subseteq K
  BY <1>1, <1>5, <1>6, Climb
<1>8. CASE n = 0
  BY <1>3, <1>8 DEF ones, n
<1>9. CASE n # 0
  <2>1. F[n] = SubSeq(f, 1, n)
    BY <1>1, <1>7, <1>9 DEF K
  <2> QED BY <1>3, <1>9, <2>1, SubSeqFull DEF ones, n
<1> QED BY <1>8, <1>9

=============================================================================

----------------------------- MODULE ArrayProofs -----------------------------
(***************************************************************************)
(* What Filter and Total return, for every array.  None of it needs an     *)
(* induction theorem: that the natural numbers are well-ordered is enough, *)
(* and sums are cardinalities.                                             *)
(***************************************************************************)
EXTENDS Arrays, FiniteSetTheorems, FunctionTheorems, SequenceTheorems, WellFoundedInduction, TLAPS

\* A set of natural numbers that is not empty has a least member.
LEMMA LeastNat ==
  ASSUME NEW T, T \subseteq Nat, T # {}
  PROVE  \E n \in T : \A m \in T : n <= m
  <1> DEFINE R == OpToRel(<, Nat)
  <1>1. IsWellFoundedOn(R, Nat)
    BY NatLessThanWellFounded, Zenon
  <1>2. R = {p \in Nat \X Nat : p[1] < p[2]}
    BY Zenon DEF OpToRel
  <1>3. \A x, y \in Nat : <<x, y>> \in R <=> x < y
    BY <1>2
  <1> HIDE DEF R
  <1>4. PICK n \in T : \A m \in T : <<m, n>> \notin R
    BY <1>1, WFMin
  <1>5. \A m \in T : m \in Nat /\ n \in Nat /\ ~(m < n)
    BY <1>3, <1>4
  <1>6. \A m \in T : n <= m
    BY <1>5
  <1> QED BY <1>6

\* Ranks grow with the members, and every number up to the cardinality is one.
LEMMA RanksGrow ==
  ASSUME NEW I, I \subseteq Nat, IsFiniteSet(I)
  PROVE  /\ \A i \in Nat : Rank(I, i) \in 0..Cardinality(I)
         /\ \A i \in I : Rank(I, i) >= 1
         /\ \A i \in Nat, j \in I : i < j => Rank(I, i) < Rank(I, j)
         /\ Cardinality(I) \in Nat
  <1>1. Cardinality(I) \in Nat
    BY FS_CardinalityType
  <1>2. ASSUME NEW i \in Nat
        PROVE  IsFiniteSet({j \in I : j <= i}) /\ Rank(I, i) \in 0..Cardinality(I)
    <2>1. {j \in I : j <= i} \in SUBSET I
      OBVIOUS
    <2>2. IsFiniteSet({j \in I : j <= i}) /\ Cardinality({j \in I : j <= i}) <= Cardinality(I)
      BY <2>1, FS_Subset
    <2>3. Cardinality({j \in I : j <= i}) \in Nat
      BY <2>2, FS_CardinalityType
    <2> QED BY <1>1, <2>2, <2>3 DEF Rank
  <1>3. ASSUME NEW i \in I PROVE Rank(I, i) >= 1
    <2>1. i \in {j \in I : j <= i} /\ i \in Nat
      OBVIOUS
    <2>2. Cardinality({j \in I : j <= i}) # 0
      BY <1>2, <2>1, FS_EmptySet
    <2> QED BY <1>1, <1>2, <2>1, <2>2 DEF Rank
  <1>4. ASSUME NEW i \in Nat, NEW j \in I, i < j PROVE Rank(I, i) < Rank(I, j)
    <2> DEFINE A == {k \in I : k <= i}
               B == {k \in I : k <= j}
    <2>0. \A k \in I : k \in Nat /\ (k <= i => k <= j)
      <3>1. \A k \in I : k \in Nat
        OBVIOUS
      <3> QED BY <1>4, <3>1
    <2>1. A \in SUBSET B /\ j \in B /\ j \notin A /\ j \in Nat
      <3>1. j \in Nat /\ j <= j /\ ~(j <= i)
        BY <1>4, <2>0
      <3> QED BY <2>0, <3>1
    <2>2. IsFiniteSet(B) /\ Rank(I, i) = Cardinality(A) /\ Rank(I, j) = Cardinality(B)
      BY <1>2, <2>1 DEF Rank
    <2>3. Cardinality(A) \in Nat /\ Cardinality(B) \in Nat
      BY <1>1, <1>2, <2>1, <2>2
    <2> HIDE DEF A, B
    <2>4. Cardinality(A) <= Cardinality(B) /\ Cardinality(A) # Cardinality(B)
      BY <2>1, <2>2, FS_Subset
    <2> QED BY <2>2, <2>3, <2>4
  <1> QED BY <1>1, <1>2, <1>3, <1>4

LEMMA RanksFill ==
  ASSUME NEW I, I \subseteq Nat, IsFiniteSet(I), NEW n \in 1..Cardinality(I)
  PROVE  \E i \in I : Rank(I, i) = n
  <1>1. PICK N \in Nat : N = Cardinality(I) /\ n \in 1..N /\ \A i \in Nat : Rank(I, i) \in 0..N
    BY RanksGrow
  <1>2. \A i \in I : i \in Nat
    OBVIOUS
  <1>3. I # {}
    BY <1>1, FS_EmptySet
  \* The greatest member has the greatest rank.
  <1>4. \E m \in I : \A i \in I : i <= m
    <2> SUFFICES ASSUME \A m \in I : \E i \in I : ~(i <= m) PROVE FALSE
      OBVIOUS
    <2> DEFINE Gaps == {N - Rank(I, m) : m \in I}
    <2>1. Gaps \subseteq Nat /\ Gaps # {}
      BY <1>1, <1>2, <1>3
    <2>2. PICK g \in Gaps : \A h \in Gaps : g <= h
      <3> HIDE DEF Gaps
      <3> QED BY <2>1, LeastNat
    <2>3. PICK m \in I : g = N - Rank(I, m)
      BY <2>2
    <2>4. PICK i \in I : ~(i <= m)
      OBVIOUS
    <2>5. m < i /\ m \in Nat /\ i \in Nat
      BY <1>2, <2>4
    <2>6. Rank(I, m) < Rank(I, i)
      BY <2>5, RanksGrow
    <2>7. N - Rank(I, i) >= g
      BY <2>2
    <2> QED BY <1>1, <2>3, <2>5, <2>6, <2>7
  <1>5. PICK m \in I : \A i \in I : i <= m
    BY <1>4
  <1>6. Rank(I, m) = N
    <2>1. {i \in I : i <= m} = I
      BY <1>5
    <2> QED BY <1>1, <2>1 DEF Rank
  \* The least number of rank n or more is a member of rank n.
  <1> DEFINE Up == {i \in Nat : Rank(I, i) >= n}
  <1>7. Up \subseteq Nat /\ m \in Up
    BY <1>1, <1>2, <1>6
  <1>8. PICK i \in Up : \A j \in Up : i <= j
    <2> HIDE DEF Up
    <2> QED BY <1>7, LeastNat
  <1>9. PICK k \in Nat : k = Rank(I, i) /\ k >= n /\ i \in Nat
    BY <1>1, <1>8
  <1> DEFINE A == {j \in I : j < i}
  <1>10. PICK a \in Nat : a = Cardinality(A) /\ a < n /\ IsFiniteSet(A)
    <2>1. A \in SUBSET I
      OBVIOUS
    <2>2. IsFiniteSet(A) /\ Cardinality(A) \in Nat
      BY <2>1, FS_Subset, FS_CardinalityType
    <2>3. CASE i = 0
      <3>1. \A j \in I : ~(j < i)
        BY <1>2, <2>3
      <3>2. A = {}
        BY <3>1
      <3>3. Cardinality(A) = 0 /\ 0 < n
        BY <1>1, <3>2, FS_EmptySet
      <3> HIDE DEF A
      <3> QED BY <2>2, <3>3
    <2>4. CASE i # 0
      <3>1. i - 1 \in Nat /\ ~(i <= i - 1)
        BY <1>9, <2>4
      <3>2. i - 1 \notin Up
        BY <1>8, <3>1
      <3>3. Rank(I, i - 1) \in 0..N /\ ~(Rank(I, i - 1) >= n)
        BY <1>1, <3>1, <3>2
      <3>4. A = {j \in I : j <= i - 1}
        <4>1. \A j \in I : j < i <=> j <= i - 1
          BY <1>2, <1>9
        <4> QED BY <4>1
      <3>5. Rank(I, i - 1) = Cardinality(A)
        BY <3>4 DEF Rank
      <3> HIDE DEF A
      <3> QED BY <1>1, <2>2, <3>3, <3>5
    <2> QED BY <2>3, <2>4
  <1>11. i \in I
    <2> SUFFICES ASSUME i \notin I PROVE FALSE
      OBVIOUS
    <2>1. {j \in I : j <= i} = A
      <3>1. \A j \in I : j < i <=> j <= i
        BY <1>2, <1>9
      <3> QED BY <3>1
    <2>2. k = Cardinality(A)
      BY <1>9, <2>1 DEF Rank
    <2> HIDE DEF A
    <2> QED BY <1>1, <1>9, <1>10, <2>2
  <1>12. {j \in I : j <= i} = A \cup {i} /\ i \notin A
    <2>1. \A j \in I : j <= i <=> j < i \/ j = i
      BY <1>2, <1>9
    <2>2. ~(i < i)
      BY <1>9
    <2> QED BY <1>11, <2>1, <2>2
  <1>13. k = Cardinality(A \cup {i})
    BY <1>9, <1>12 DEF Rank
  <1> HIDE DEF A
  <1>14. k = a + 1
    BY <1>10, <1>12, <1>13, FS_AddElement
  <1>15. k = n
    BY <1>1, <1>9, <1>10, <1>14
  <1> QED BY <1>9, <1>11, <1>15

\* The members of a finite set of numbers, from the least to the greatest.
LEMMA NthIs ==
  ASSUME NEW I, I \subseteq Nat, IsFiniteSet(I)
  PROVE  /\ Cardinality(I) \in Nat
         /\ \A n \in 1..Cardinality(I) : Nth(I, n) \in I /\ Rank(I, Nth(I, n)) = n
         /\ \A i \in I : \E n \in 1..Cardinality(I) : Nth(I, n) = i
         /\ \A m, n \in 1..Cardinality(I) : m < n => Nth(I, m) < Nth(I, n)
  <1>1. PICK N \in Nat : N = Cardinality(I)
    BY RanksGrow
  <1>2. \A i \in I : i \in Nat /\ Rank(I, i) \in 1..N
    <2>1. \A i \in I : i \in Nat
      OBVIOUS
    <2>2. \A i \in I : Rank(I, i) \in 0..N /\ Rank(I, i) >= 1
      BY <1>1, <2>1, RanksGrow
    <2> QED BY <2>1, <2>2
  <1>3. \A i, j \in I : i < j => Rank(I, i) < Rank(I, j)
    BY <1>2, RanksGrow
  <1>4. \A n \in 1..N : Nth(I, n) \in I /\ Rank(I, Nth(I, n)) = n
    BY <1>1, RanksFill DEF Nth
  <1>5. ASSUME NEW i \in I PROVE \E n \in 1..N : Nth(I, n) = i
    <2>1. PICK n \in 1..N : n = Rank(I, i)
      BY <1>2
    <2>2. PICK j \in I : j = Nth(I, n) /\ Rank(I, j) = Rank(I, i)
      BY <1>4, <2>1
    <2>3. ~(j < i) /\ ~(i < j)
      BY <1>2, <1>3, <2>2
    <2>4. i = j
      BY <1>2, <2>3
    <2> QED BY <2>2, <2>4
  <1>6. ASSUME NEW m \in 1..N, NEW n \in 1..N, m < n PROVE Nth(I, m) < Nth(I, n)
    <2>1. PICK i \in I, j \in I : i = Nth(I, m) /\ j = Nth(I, n) /\ Rank(I, i) = m /\ Rank(I, j) = n
      BY <1>4
    <2>2. ~(j < i) /\ i # j
      BY <1>3, <1>6, <2>1
    <2>3. i < j
      BY <1>2, <2>2
    <2> QED BY <2>1, <2>3
  <1> QED BY <1>1, <1>4, <1>5, <1>6

\* What a filter leaves: members of the sequence at growing places, all that are picked.
LEMMA PickedIs ==
  ASSUME NEW S, NEW s \in Seq(S), NEW I, I \subseteq DOMAIN s
  PROVE  /\ Picked(s, I) \in Seq(S)
         /\ Cardinality(I) \in 0..Len(s) /\ DOMAIN Picked(s, I) = 1..Cardinality(I)
         /\ Len(Picked(s, I)) = Cardinality(I)
         /\ \A n \in 1..Cardinality(I) : Nth(I, n) \in I /\ Picked(s, I)[n] = s[Nth(I, n)]
         /\ \A m, n \in 1..Cardinality(I) : m < n => Nth(I, m) < Nth(I, n)
         /\ \A i \in I : \E n \in 1..Cardinality(I) : Nth(I, n) = i
  <1>0. PICK L \in Nat : L = Len(s) /\ DOMAIN s = 1..L
    OBVIOUS
  <1>1. I \subseteq Nat /\ IsFiniteSet(I) /\ Cardinality(I) <= L
    <2>1. IsFiniteSet(1..L) /\ Cardinality(1..L) = L
      BY FS_Interval
    <2>2. I \in SUBSET (1..L)
      BY <1>0
    <2>3. IsFiniteSet(I) /\ Cardinality(I) <= L
      BY <2>1, <2>2, FS_Subset
    <2> QED BY <2>2, <2>3
  <1>2. PICK N \in Nat : N = Cardinality(I)
    BY <1>1, NthIs
  <1>3. Picked(s, I) = [n \in 1..N |-> s[Nth(I, n)]]
    BY <1>2 DEF Picked
  <1>4. \A n \in 1..N : Nth(I, n) \in I /\ s[Nth(I, n)] \in S
    BY <1>0, <1>1, <1>2, NthIs
  <1>5. /\ Picked(s, I) \in Seq(S) /\ Len(Picked(s, I)) = N /\ DOMAIN Picked(s, I) = 1..N
        /\ \A n \in 1..N : Picked(s, I)[n] = s[Nth(I, n)]
    BY <1>3, <1>4
  <1>6. \A m, n \in 1..N : m < n => Nth(I, m) < Nth(I, n)
    BY <1>1, <1>2, NthIs
  <1>7. \A i \in I : \E n \in 1..N : Nth(I, n) = i
    BY <1>1, <1>2, NthIs
  <1>8. N \in 0..Len(s)
    BY <1>0, <1>1, <1>2
  <1> QED BY <1>2, <1>4, <1>5, <1>6, <1>7, <1>8

\* Entries that agree at the indices are picked alike.
LEMMA PickedSame ==
  ASSUME NEW S, NEW s \in Seq(S), NEW t \in Seq(S), NEW I, I \subseteq DOMAIN s,
         \A i \in I : s[i] = t[i]
  PROVE  Picked(s, I) = Picked(t, I)
  <1>1. PICK L \in Nat : DOMAIN s = 1..L
    OBVIOUS
  <1>2. I \subseteq Nat /\ IsFiniteSet(I)
    <2>1. IsFiniteSet(1..L) /\ I \in SUBSET (1..L)
      BY <1>1, FS_Interval
    <2> QED BY <2>1, FS_Subset
  <1>3. \A n \in 1..Cardinality(I) : s[Nth(I, n)] = t[Nth(I, n)]
    BY <1>2, NthIs
  <1> QED BY <1>3 DEF Picked

\* What is picked is known by an increasing enumeration of the indices.
Enumerates(f, N, I) ==
  /\ f \in [1..N -> I]
  /\ \A m, n \in 1..N : m < n => f[m] < f[n]
  /\ \A i \in I : \E n \in 1..N : f[n] = i

LEMMA PickedBy ==
  ASSUME NEW S, NEW s \in Seq(S), NEW I, I \subseteq DOMAIN s,
         NEW N \in Nat, NEW f, Enumerates(f, N, I)
  PROVE  Len(Picked(s, I)) = N /\ \A n \in 1..N : Picked(s, I)[n] = s[f[n]]
  <1>0. /\ f \in [1..N -> I]
        /\ \A m, n \in 1..N : m < n => f[m] < f[n]
        /\ \A i \in I : \E n \in 1..N : f[n] = i
    BY DEF Enumerates
  <1> USE <1>0
  <1>1. PICK L \in Nat : DOMAIN s = 1..L
    OBVIOUS
  <1>2. I \subseteq Nat /\ IsFiniteSet(I) /\ \A i \in I : i \in Nat
    <2>1. IsFiniteSet(1..L) /\ I \in SUBSET (1..L)
      BY <1>1, FS_Interval
    <2> QED BY <2>1, FS_Subset
  <1>3. \A m, n \in 1..N : f[m] = f[n] => m = n
    <2> SUFFICES ASSUME NEW m \in 1..N, NEW n \in 1..N, f[m] = f[n], m # n PROVE FALSE
      OBVIOUS
    <2>1. f[m] \in Nat /\ f[n] \in Nat /\ (m < n \/ n < m)
      BY <1>2
    <2>2. f[m] < f[n] \/ f[n] < f[m]
      BY <2>1
    <2> QED BY <2>1, <2>2
  \* The rank of the n-th is n: the indices up to it are its predecessors' images.
  <1>4. ASSUME NEW n \in 1..N
        PROVE  IsFiniteSet(1..n) /\ Rank(I, f[n]) = n
    <2> DEFINE J == {j \in I : j <= f[n]}
               g == [m \in 1..n |-> f[m]]
    <2>1. \A m \in 1..n : m \in 1..N /\ f[m] \in I /\ f[m] <= f[n]
      <3>1. ASSUME NEW m \in 1..n PROVE m \in 1..N /\ f[m] \in I /\ f[m] <= f[n]
        <4>1. m \in 1..N /\ (m < n \/ m = n)
          BY <1>4, <3>1
        <4>2. f[m] \in Nat /\ f[n] \in Nat /\ f[m] \in I
          BY <1>2, <4>1
        <4>3. f[m] < f[n] \/ f[m] = f[n]
          BY <4>1
        <4> QED BY <4>1, <4>2, <4>3
      <3> QED BY <3>1
    <2>2. g \in [1..n -> J]
      BY <2>1
    <2>3. \A a, b \in 1..n : g[a] = g[b] => a = b
      BY <1>3, <2>1
    <2>4. ASSUME NEW j \in J PROVE \E m \in 1..n : g[m] = j
      <3>1. PICK m \in 1..N : f[m] = j /\ j <= f[n] /\ j \in Nat /\ f[n] \in Nat
        BY <1>2, <2>4
      <3>2. ~(n < m)
        <4>1. n < m => f[n] < f[m]
          OBVIOUS
        <4> QED BY <3>1, <4>1
      <3>3. m \in 1..n
        BY <3>1, <3>2
      <3> QED BY <3>1, <3>3
    <2> HIDE DEF g, J
    <2>5. g \in Bijection(1..n, J)
      BY <2>2, <2>3, <2>4, Fun_IsBij
    <2>6. IsFiniteSet(1..n) /\ Cardinality(1..n) = n
      <3>1. n \in Nat /\ ~(1 > n)
        OBVIOUS
      <3> QED BY <3>1, FS_Interval
    <2>7. ExistsBijection(1..n, J)
      BY <2>5, Zenon DEF ExistsBijection
    <2>8. Cardinality(J) = n
      BY <2>6, <2>7, FS_Bijection, Zenon
    <2> QED BY <2>6, <2>8 DEF Rank, J
  <1>5. Cardinality(I) = N
    <2>1. f \in Bijection(1..N, I)
      BY <1>3, Fun_IsBij
    <2>2. ExistsBijection(1..N, I)
      BY <2>1, Zenon DEF ExistsBijection
    <2> QED BY <2>2, FS_CountingElements
  <1>6. \A n \in 1..N : Nth(I, n) = f[n]
    <2> SUFFICES ASSUME NEW n \in 1..N PROVE Nth(I, n) = f[n]
      OBVIOUS
    <2>1. PICK i \in I : i = Nth(I, n) /\ Rank(I, i) = n
      BY <1>2, <1>5, NthIs
    <2>2. PICK m \in 1..N : f[m] = i
      OBVIOUS
    <2>3. m = n
      BY <1>4, <2>1, <2>2
    <2> QED BY <2>1, <2>2, <2>3
  <1>7. Picked(s, I) = [n \in 1..N |-> s[f[n]]]
    BY <1>5, <1>6 DEF Picked
  <1>8. Len(Picked(s, I)) = N
    BY <1>5, PickedIs
  <1> QED BY <1>7, <1>8

\* An entry appended is picked last, or not at all.
LEMMA PickedAppend ==
  ASSUME NEW S, NEW s \in Seq(S), NEW e \in S, NEW I, I \subseteq DOMAIN s
  PROVE  /\ Picked(Append(s, e), I) = Picked(s, I)
         /\ Picked(Append(s, e), I \cup {Len(s) + 1}) = Append(Picked(s, I), e)
  <1>1. PICK L \in Nat : L = Len(s) /\ DOMAIN s = 1..L
    OBVIOUS
  <1> DEFINE t == Append(s, e)
             J == I \cup {L + 1}
  <1>2. t \in Seq(S) /\ DOMAIN t = 1..(L + 1) /\ t[L + 1] = e /\ \A i \in 1..L : t[i] = s[i]
    BY <1>1
  <1>3. I \subseteq 1..L
    BY <1>1
  <1>4. Picked(s, I) = Picked(t, I)
    <2>1. \A i \in I : s[i] = t[i]
      BY <1>2, <1>3
    <2> HIDE DEF t
    <2> QED BY <1>2, <2>1, PickedSame
  <1>p. PICK N \in Nat : N = Cardinality(I)
    BY PickedIs
  <1> DEFINE f == [n \in 1..N |-> Nth(I, n)]
  <1>5. /\ f \in [1..N -> I]
        /\ Picked(s, I) \in Seq(S) /\ DOMAIN Picked(s, I) = 1..N /\ Len(Picked(s, I)) = N
        /\ \A n \in 1..N : Picked(s, I)[n] = s[f[n]]
        /\ \A m, n \in 1..N : m < n => f[m] < f[n]
        /\ \A i \in I : \E n \in 1..N : f[n] = i
    BY <1>p, PickedIs
  <1> HIDE DEF f
  <1> DEFINE g == [n \in 1..(N + 1) |-> IF n = N + 1 THEN L + 1 ELSE f[n]]
  <1>6. /\ g \in [1..(N + 1) -> J] /\ g[N + 1] = L + 1
        /\ \A n \in 1..N : g[n] = f[n] /\ g[n] \in 1..L
    BY <1>3, <1>5
  <1>7. \A m, n \in 1..(N + 1) : m < n => g[m] < g[n]
    <2> SUFFICES ASSUME NEW m \in 1..(N + 1), NEW n \in 1..(N + 1), m < n PROVE g[m] < g[n]
      OBVIOUS
    <2>1. m \in 1..N /\ m # N + 1 /\ (n \in 1..N \/ n = N + 1)
      OBVIOUS
    <2> HIDE DEF g
    <2>2. CASE n \in 1..N
      BY <1>5, <1>6, <2>1, <2>2
    <2>3. CASE n = N + 1
      <3>1. g[m] \in 1..L /\ g[n] = L + 1
        BY <1>6, <2>1, <2>3
      <3> QED BY <3>1
    <2> QED BY <2>1, <2>2, <2>3
  <1>8. \A i \in J : \E n \in 1..(N + 1) : g[n] = i
    <2> SUFFICES ASSUME NEW i \in J PROVE \E n \in 1..(N + 1) : g[n] = i
      OBVIOUS
    <2>1. CASE i = L + 1
      BY <1>6, <2>1
    <2>2. CASE i \in I
      <3>1. PICK n \in 1..N : f[n] = i
        BY <1>5, <2>2
      <3>2. n \in 1..(N + 1)
        OBVIOUS
      <3> QED BY <1>6, <3>1, <3>2
    <2> QED BY <2>1, <2>2
  <1>9. J \subseteq DOMAIN t
    BY <1>2, <1>3
  <1>10. PICK M \in Nat : M = N + 1
    OBVIOUS
  <1>11. Picked(t, J) \in Seq(S) /\ Len(Picked(t, J)) = M /\ \A n \in 1..M : Picked(t, J)[n] = t[g[n]]
    <2> HIDE DEF t, J, g
    <2>1. J \subseteq DOMAIN t /\ t \in Seq(S) /\ Enumerates(g, M, J)
      BY <1>2, <1>6, <1>7, <1>8, <1>9, <1>10 DEF Enumerates
    <2>2. Len(Picked(t, J)) = M /\ \A n \in 1..M : Picked(t, J)[n] = t[g[n]]
      BY <2>1, PickedBy
    <2> QED BY <2>1, <2>2, PickedIs
  <1>12. \A n \in 1..M : t[g[n]] = IF n = M THEN e ELSE Picked(s, I)[n]
    <2> SUFFICES ASSUME NEW n \in 1..M
                 PROVE  t[g[n]] = IF n = M THEN e ELSE Picked(s, I)[n]
      OBVIOUS
    <2>1. CASE n = M
      BY <1>2, <1>6, <1>10, <2>1
    <2>2. CASE n # M
      <3>1. n \in 1..N
        BY <1>10, <2>2
      <3> HIDE DEF t, g
      <3> QED BY <1>2, <1>5, <1>6, <2>2, <3>1
    <2> QED BY <2>1, <2>2
  <1>13. /\ Append(Picked(s, I), e) \in Seq(S) /\ Len(Append(Picked(s, I), e)) = M
         /\ \A n \in 1..M : Append(Picked(s, I), e)[n] = IF n = M THEN e ELSE Picked(s, I)[n]
    <2> DEFINE p == Picked(s, I)
    <2>1. p \in Seq(S) /\ Len(p) = N
      BY <1>5
    <2> HIDE DEF p
    <2>2. Append(p, e) \in Seq(S) /\ Len(Append(p, e)) = M
          /\ \A n \in 1..M : Append(p, e)[n] = IF n = M THEN e ELSE p[n]
      BY <1>10, <2>1
    <2> QED BY <2>2 DEF p
  <1>14. Picked(t, J) = Append(Picked(s, I), e)
    <2> DEFINE p == Picked(t, J)
               q == Append(Picked(s, I), e)
    <2>1. p \in Seq(S) /\ q \in Seq(S) /\ Len(p) = Len(q) /\ \A n \in 1..Len(p) : p[n] = q[n]
      BY <1>11, <1>12, <1>13
    <2> HIDE DEF p, q
    <2> QED BY <2>1, SeqEqual DEF p, q
  <1> QED BY <1>1, <1>4, <1>14

\* The first entry gone, it is not picked, and the others are as before.
LEMMA PickedTail ==
  ASSUME NEW S, NEW s \in Seq(S), s # <<>>, NEW I, I \subseteq DOMAIN s
  PROVE  Picked(Tail(s), {i \in DOMAIN Tail(s) : i + 1 \in I}) =
           IF 1 \in I THEN Tail(Picked(s, I)) ELSE Picked(s, I)
  <1>1. PICK L \in Nat : L + 1 = Len(s) /\ DOMAIN s = 1..(L + 1)
    <2>1. Len(s) \in Nat /\ Len(s) # 0 /\ DOMAIN s = 1..Len(s)
      OBVIOUS
    <2>2. Len(s) - 1 \in Nat /\ (Len(s) - 1) + 1 = Len(s)
      BY <2>1
    <2> QED BY <2>1, <2>2
  <1> DEFINE t == Tail(s)
             J == {i \in DOMAIN t : i + 1 \in I}
  <1>2. t \in Seq(S) /\ DOMAIN t = 1..L /\ \A i \in 1..L : t[i] = s[i + 1]
    BY <1>1
  <1>3. I \subseteq 1..(L + 1) /\ J \subseteq DOMAIN t /\ \A i \in I : i # 1 => i - 1 \in J
    <2>1. \A i \in I : i \in 1..(L + 1)
      BY <1>1
    <2>2. \A i \in I : i # 1 => i - 1 \in DOMAIN t /\ (i - 1) + 1 = i
      BY <1>2, <2>1
    <2> QED BY <2>1, <2>2
  <1>p. PICK N \in Nat : N = Cardinality(I)
    BY PickedIs
  <1> DEFINE f == [n \in 1..N |-> Nth(I, n)]
  <1>4. /\ f \in [1..N -> I]
        /\ Picked(s, I) \in Seq(S) /\ DOMAIN Picked(s, I) = 1..N /\ Len(Picked(s, I)) = N
        /\ \A n \in 1..N : Picked(s, I)[n] = s[f[n]]
        /\ \A m, n \in 1..N : m < n => f[m] < f[n]
        /\ \A i \in I : \E n \in 1..N : f[n] = i
    BY <1>p, PickedIs
  <1> HIDE DEF f
  <1>5. \A n \in 1..N : f[n] \in 1..(L + 1) /\ f[n] \in Nat /\ f[n] \in I
    BY <1>3, <1>4
  <1>6. CASE 1 \notin I
    <2> DEFINE g == [n \in 1..N |-> f[n] - 1]
    <2>1. g \in [1..N -> J] /\ \A n \in 1..N : g[n] = f[n] - 1 /\ f[n] # 1
      BY <1>3, <1>5, <1>6
    <2>2. \A m, n \in 1..N : m < n => g[m] < g[n]
      <3> SUFFICES ASSUME NEW m \in 1..N, NEW n \in 1..N, m < n PROVE g[m] < g[n]
        OBVIOUS
      <3>1. f[m] < f[n] /\ f[m] \in Nat /\ f[n] \in Nat
        BY <1>4, <1>5
      <3> QED BY <3>1
    <2>3. \A i \in J : \E n \in 1..N : g[n] = i
      <3> SUFFICES ASSUME NEW i \in J PROVE \E n \in 1..N : g[n] = i
        OBVIOUS
      <3>1. i \in 1..L /\ i + 1 \in I
        BY <1>2
      <3>2. PICK n \in 1..N : f[n] = i + 1
        BY <1>4, <3>1
      <3> QED BY <3>1, <3>2
    <2>4. Picked(t, J) \in Seq(S) /\ Len(Picked(t, J)) = N /\ \A n \in 1..N : Picked(t, J)[n] = t[g[n]]
      <3> HIDE DEF t, J, g
      <3>1. J \subseteq DOMAIN t /\ t \in Seq(S) /\ Enumerates(g, N, J)
        BY <1>2, <1>3, <2>1, <2>2, <2>3 DEF Enumerates
      <3>2. Len(Picked(t, J)) = N /\ \A n \in 1..N : Picked(t, J)[n] = t[g[n]]
        BY <3>1, PickedBy
      <3> QED BY <3>1, <3>2, PickedIs
    <2>5. \A n \in 1..N : t[g[n]] = Picked(s, I)[n]
      <3> SUFFICES ASSUME NEW n \in 1..N PROVE t[g[n]] = Picked(s, I)[n]
        OBVIOUS
      <3>1. g[n] \in 1..L /\ g[n] + 1 = f[n]
        BY <1>5, <2>1
      <3> HIDE DEF t, g
      <3> QED BY <1>2, <1>4, <3>1
    <2> DEFINE p == Picked(t, J)
               q == Picked(s, I)
    <2>6. p \in Seq(S) /\ q \in Seq(S) /\ Len(p) = Len(q) /\ \A n \in 1..Len(p) : p[n] = q[n]
      BY <1>4, <2>4, <2>5
    <2> HIDE DEF p, q
    <2>7. p = q
      BY <2>6, SeqEqual
    <2> QED BY <1>6, <2>7 DEF p, q
  <1>7. CASE 1 \in I
    <2>1. PICK M \in Nat : N = M + 1 /\ f[1] = 1 /\ \A n \in 1..N : f[n] = 1 => n = 1
      <3>1. PICK n \in 1..N : f[n] = 1
        BY <1>4, <1>7
      <3>2. N - 1 \in Nat /\ 1 \in 1..N
        BY <3>1
      <3>3. n = 1
        <4>1. ~(1 < n)
          BY <1>4, <1>5, <3>1, <3>2
        <4> QED BY <4>1
      <3>4. \A m \in 1..N : f[m] = 1 => m = 1
        <4> SUFFICES ASSUME NEW m \in 1..N, f[m] = 1 PROVE m = 1
          OBVIOUS
        <4>1. ~(1 < m)
          BY <1>4, <3>1, <3>2, <3>3
        <4> QED BY <4>1
      <3>5. N = (N - 1) + 1
        OBVIOUS
      <3> QED BY <3>1, <3>2, <3>3, <3>4, <3>5
    <2> DEFINE g == [n \in 1..M |-> f[n + 1] - 1]
    <2>2. \A n \in 1..M : n + 1 \in 1..N /\ n + 1 # 1 /\ f[n + 1] \in I /\ f[n + 1] # 1
      <3> SUFFICES ASSUME NEW n \in 1..M
                   PROVE  n + 1 \in 1..N /\ n + 1 # 1 /\ f[n + 1] \in I /\ f[n + 1] # 1
        OBVIOUS
      <3>1. n + 1 \in 1..N /\ n + 1 # 1
        BY <2>1
      <3> QED BY <1>5, <2>1, <3>1
    <2>3. g \in [1..M -> J] /\ \A n \in 1..M : g[n] = f[n + 1] - 1
      BY <1>3, <2>2
    <2>4. \A m, n \in 1..M : m < n => g[m] < g[n]
      <3> SUFFICES ASSUME NEW m \in 1..M, NEW n \in 1..M, m < n PROVE g[m] < g[n]
        OBVIOUS
      <3>1. m + 1 \in 1..N /\ n + 1 \in 1..N /\ m + 1 < n + 1
        BY <2>2
      <3>2. f[m + 1] < f[n + 1] /\ f[m + 1] \in Nat /\ f[n + 1] \in Nat
        BY <1>4, <1>5, <3>1
      <3> QED BY <3>2
    <2>5. \A i \in J : \E n \in 1..M : g[n] = i
      <3> SUFFICES ASSUME NEW i \in J PROVE \E n \in 1..M : g[n] = i
        OBVIOUS
      <3>1. i \in 1..L /\ i + 1 \in I
        BY <1>2
      <3>2. PICK n \in 1..N : f[n] = i + 1
        BY <1>4, <3>1
      <3>3. n # 1
        BY <2>1, <3>1, <3>2
      <3>4. n - 1 \in 1..M /\ (n - 1) + 1 = n
        BY <2>1, <3>3
      <3>5. g[n - 1] = i
        BY <3>1, <3>2, <3>4
      <3> QED BY <3>4, <3>5
    <2>6. Picked(t, J) \in Seq(S) /\ Len(Picked(t, J)) = M /\ \A n \in 1..M : Picked(t, J)[n] = t[g[n]]
      <3> HIDE DEF t, J, g
      <3>1. J \subseteq DOMAIN t /\ t \in Seq(S) /\ Enumerates(g, M, J)
        BY <1>2, <1>3, <2>3, <2>4, <2>5 DEF Enumerates
      <3>2. Len(Picked(t, J)) = M /\ \A n \in 1..M : Picked(t, J)[n] = t[g[n]]
        BY <3>1, PickedBy
      <3> QED BY <3>1, <3>2, PickedIs
    <2>7. \A n \in 1..M : t[g[n]] = Picked(s, I)[n + 1]
      <3> SUFFICES ASSUME NEW n \in 1..M PROVE t[g[n]] = Picked(s, I)[n + 1]
        OBVIOUS
      <3>1. n + 1 \in 1..N /\ g[n] \in J
        BY <2>2, <2>3
      <3>2. g[n] \in 1..L /\ g[n] + 1 = f[n + 1]
        BY <1>2, <1>5, <2>3, <3>1
      <3>3. Picked(s, I)[n + 1] = s[f[n + 1]]
        BY <1>4, <3>1
      <3> HIDE DEF t, g
      <3> QED BY <1>2, <3>2, <3>3
    <2>8. /\ Tail(Picked(s, I)) \in Seq(S) /\ Len(Tail(Picked(s, I))) = M
          /\ \A n \in 1..M : Tail(Picked(s, I))[n] = Picked(s, I)[n + 1]
      <3> DEFINE p == Picked(s, I)
      <3>1. p \in Seq(S) /\ Len(p) = M + 1 /\ p # <<>>
        BY <1>4, <2>1
      <3> HIDE DEF p
      <3>2. Tail(p) \in Seq(S) /\ Len(Tail(p)) = M /\ \A n \in 1..M : Tail(p)[n] = p[n + 1]
        BY <3>1
      <3> QED BY <3>2 DEF p
    <2> DEFINE p == Picked(t, J)
               q == Tail(Picked(s, I))
    <2>9. p \in Seq(S) /\ q \in Seq(S) /\ Len(p) = Len(q) /\ \A n \in 1..Len(p) : p[n] = q[n]
      BY <2>6, <2>7, <2>8
    <2> HIDE DEF p, q
    <2>10. p = q
      BY <2>9, SeqEqual
    <2> QED BY <1>7, <2>10 DEF p, q
  <1> QED BY <1>6, <1>7

-------------------------------------------------------------------------------
(* Totals                                                                  *)

\* The units that Total counts.
Units(w) == UNION {{x} \X (1..w[x]) : x \in DOMAIN w}

LEMMA UnitsAre ==
  ASSUME NEW D, IsFiniteSet(D), NEW w \in [D -> Nat]
  PROVE  /\ \A x, n : <<x, n>> \in Units(w) <=> x \in D /\ n \in 1..w[x]
         /\ \A p \in Units(w) : p = <<p[1], p[2]>>
         /\ IsFiniteSet(Units(w)) /\ Total(w) = Cardinality(Units(w)) /\ Total(w) \in Nat
  <1> DEFINE Of(x) == {x} \X (1..w[x])
             f == [x \in D |-> Of(x)]
             T == {Of(x) : x \in D}
  <1>1. Units(w) = UNION T
    BY DEF Units
  <1>2. \A x, n : <<x, n>> \in Units(w) <=> x \in D /\ n \in 1..w[x]
    BY <1>1
  <1>3. \A p \in Units(w) : p = <<p[1], p[2]>>
    BY <1>1
  <1>4. \A A \in T : IsFiniteSet(A)
    <2> SUFFICES ASSUME NEW x \in D PROVE IsFiniteSet(Of(x))
      OBVIOUS
    <2>1. w[x] \in Nat /\ IsFiniteSet({x})
      BY FS_Singleton
    <2>2. IsFiniteSet(1..w[x])
      BY <2>1, FS_Interval
    <2> QED BY <2>1, <2>2, FS_Product
  <1>5. IsFiniteSet(T)
    <2>1. f \in [D -> T] /\ \A A \in T : \E x \in D : f[x] = A
      OBVIOUS
    <2>2. f \in Surjection(D, T)
      <3> HIDE DEF f, T
      <3> QED BY <2>1, Fun_IsSurj
    <2> HIDE DEF f, T
    <2> QED BY <2>2, FS_Surjection
  <1>6. IsFiniteSet(UNION T)
    <2> HIDE DEF T
    <2> QED BY <1>4, <1>5, FS_UNION
  <1>7. Total(w) = Cardinality(Units(w))
    BY DEF Total, Units
  <1> QED BY <1>1, <1>2, <1>3, <1>6, <1>7, FS_CardinalityType, Zenon

\* The total of a domain in two parts is the sum of theirs.
Splits(w, D, u, A, v, B) ==
  /\ D = A \cup B /\ A \cap B = {}
  /\ w \in [D -> Nat] /\ u \in [A -> Nat] /\ v \in [B -> Nat]
  /\ (\A x \in A : u[x] = w[x])
  /\ (\A x \in B : v[x] = w[x])

LEMMA TotalSplit ==
  ASSUME NEW D, IsFiniteSet(D), NEW w, NEW A, NEW u, NEW B, NEW v, Splits(w, D, u, A, v, B)
  PROVE  Total(u) \in Nat /\ Total(v) \in Nat /\ Total(w) \in Nat /\ Total(w) = Total(u) + Total(v)
  <1>0. /\ D = A \cup B /\ A \cap B = {} /\ w \in [D -> Nat]
    BY DEF Splits
  <1>1. IsFiniteSet(A) /\ IsFiniteSet(B)
    <2>1. A \in SUBSET D /\ B \in SUBSET D
      BY <1>0
    <2> QED BY <2>1, FS_Subset
  <1>2. u \in [A -> Nat] /\ v \in [B -> Nat] /\ (\A x \in A : u[x] = w[x]) /\ (\A x \in B : v[x] = w[x])
    BY DEF Splits
  <1>3. /\ IsFiniteSet(Units(u)) /\ Total(u) = Cardinality(Units(u)) /\ Total(u) \in Nat
        /\ IsFiniteSet(Units(v)) /\ Total(v) = Cardinality(Units(v)) /\ Total(v) \in Nat
        /\ IsFiniteSet(Units(w)) /\ Total(w) = Cardinality(Units(w)) /\ Total(w) \in Nat
    BY <1>0, <1>1, <1>2, UnitsAre
  <1>4. /\ \A x, n : <<x, n>> \in Units(w) <=> x \in D /\ n \in 1..w[x]
        /\ \A x, n : <<x, n>> \in Units(u) <=> x \in A /\ n \in 1..u[x]
        /\ \A x, n : <<x, n>> \in Units(v) <=> x \in B /\ n \in 1..v[x]
        /\ \A p \in Units(w) : p = <<p[1], p[2]>>
        /\ \A p \in Units(u) : p = <<p[1], p[2]>>
        /\ \A p \in Units(v) : p = <<p[1], p[2]>>
    BY <1>0, <1>1, <1>2, UnitsAre
  <1>5. Units(w) \subseteq Units(u) \cup Units(v)
    <2> SUFFICES ASSUME NEW p \in Units(w) PROVE p \in Units(u) \cup Units(v)
      OBVIOUS
    <2>1. p = <<p[1], p[2]>> /\ p[1] \in D /\ p[2] \in 1..w[p[1]]
      BY <1>4
    <2> QED BY <1>0, <1>2, <1>4, <2>1
  <1>6. Units(u) \cup Units(v) \subseteq Units(w)
    <2> SUFFICES ASSUME NEW p \in Units(u) \cup Units(v) PROVE p \in Units(w)
      OBVIOUS
    <2>1. p = <<p[1], p[2]>> /\ p[1] \in D /\ p[2] \in 1..w[p[1]]
      BY <1>0, <1>2, <1>4
    <2> QED BY <1>4, <2>1
  <1>7. Units(u) \cap Units(v) = {}
    <2> SUFFICES ASSUME NEW p \in Units(u), p \in Units(v) PROVE FALSE
      OBVIOUS
    <2>1. p[1] \in A /\ p[1] \in B
      BY <1>4
    <2> QED BY <1>0, <2>1
  <1>8. Units(w) = Units(u) \cup Units(v)
    BY <1>5, <1>6
  <1>9. Cardinality(Units(u) \cup Units(v)) =
          Cardinality(Units(u)) + Cardinality(Units(v)) - Cardinality(Units(u) \cap Units(v))
    BY <1>3, FS_Union
  <1>10. Cardinality(Units(w)) = Cardinality(Units(u)) + Cardinality(Units(v)) - 0
    BY <1>7, <1>8, <1>9, FS_EmptySet
  <1> QED BY <1>3, <1>10

\* Totals do not depend on what the weights are of.
Renames(f, v, E, w, D) ==
  /\ w \in [D -> Nat] /\ v \in [E -> Nat] /\ f \in [E -> D]
  /\ \A a, b \in E : f[a] = f[b] => a = b
  /\ \A d \in D : \E a \in E : f[a] = d
  /\ \A a \in E : v[a] = w[f[a]]

LEMMA TotalMapped ==
  ASSUME NEW D, IsFiniteSet(D), NEW w, NEW E, NEW v, NEW f, Renames(f, v, E, w, D)
  PROVE  IsFiniteSet(E) /\ Total(v) = Total(w)
  <1> USE DEF Renames
  <1>1. IsFiniteSet(E)
    <2>1. f \in Injection(E, D)
      BY Fun_IsInj
    <2> QED BY <2>1, FS_Injection
  <1>2. /\ IsFiniteSet(Units(w)) /\ Total(w) = Cardinality(Units(w))
        /\ IsFiniteSet(Units(v)) /\ Total(v) = Cardinality(Units(v))
        /\ \A x, n : <<x, n>> \in Units(w) <=> x \in D /\ n \in 1..w[x]
        /\ \A x, n : <<x, n>> \in Units(v) <=> x \in E /\ n \in 1..v[x]
        /\ \A p \in Units(w) : p = <<p[1], p[2]>>
        /\ \A p \in Units(v) : p = <<p[1], p[2]>>
    BY <1>1, UnitsAre
  <1> DEFINE g == [p \in Units(v) |-> <<f[p[1]], p[2]>>]
  <1>3. \A p \in Units(v) : p[1] \in E /\ p[2] \in 1..v[p[1]] /\ g[p] = <<f[p[1]], p[2]>>
    BY <1>2
  <1>4. g \in [Units(v) -> Units(w)]
    <2>1. \A p \in Units(v) : <<f[p[1]], p[2]>> \in Units(w)
      BY <1>2, <1>3
    <2> QED BY <2>1
  <1> HIDE DEF g
  <1>5. \A p, q \in Units(v) : g[p] = g[q] => p = q
    <2> SUFFICES ASSUME NEW p \in Units(v), NEW q \in Units(v), g[p] = g[q] PROVE p = q
      OBVIOUS
    <2>1. f[p[1]] = f[q[1]] /\ p[2] = q[2]
      BY <1>3
    <2>2. p[1] = q[1]
      BY <1>3, <2>1
    <2>3. p = <<p[1], p[2]>> /\ q = <<q[1], q[2]>>
      BY <1>2
    <2> QED BY <2>1, <2>2, <2>3
  <1>6. \A q \in Units(w) : \E p \in Units(v) : g[p] = q
    <2> SUFFICES ASSUME NEW q \in Units(w) PROVE \E p \in Units(v) : g[p] = q
      OBVIOUS
    <2>1. q = <<q[1], q[2]>> /\ q[1] \in D /\ q[2] \in 1..w[q[1]]
      BY <1>2
    <2>2. PICK a \in E : f[a] = q[1]
      BY <2>1
    <2>3. PICK p : p = <<a, q[2]>>
      OBVIOUS
    <2>4. p \in Units(v)
      BY <1>2, <2>1, <2>2, <2>3
    <2>5. g[p] = <<f[a], q[2]>>
      BY <1>3, <2>3, <2>4
    <2> QED BY <2>1, <2>2, <2>4, <2>5
  <1>7. g \in Bijection(Units(v), Units(w))
    BY <1>4, <1>5, <1>6, Fun_IsBij
  <1>8. ExistsBijection(Units(v), Units(w))
    BY <1>7, Zenon DEF ExistsBijection
  <1>9. Cardinality(Units(w)) = Cardinality(Units(v))
    BY <1>2, <1>8, FS_Bijection, Zenon
  <1> QED BY <1>1, <1>2, <1>9

LEMMA TotalOfFew ==
  /\ \A w : DOMAIN w = {} => Total(w) = 0
  /\ \A a, n : n \in Nat => Total([x \in {a} |-> n]) = n
  <1>1. ASSUME NEW w, DOMAIN w = {} PROVE Total(w) = 0
    <2>1. UNION {{x} \X (1..w[x]) : x \in DOMAIN w} = {}
      BY <1>1
    <2> QED BY <2>1, FS_EmptySet DEF Total
  <1>2. ASSUME NEW a, NEW n \in Nat PROVE Total([x \in {a} |-> n]) = n
    <2> DEFINE w == [x \in {a} |-> n]
    <2>1. UNION {{x} \X (1..w[x]) : x \in DOMAIN w} = {a} \X (1..n)
      OBVIOUS
    <2>2. IsFiniteSet({a}) /\ Cardinality({a}) = 1
      BY FS_Singleton
    <2>3. IsFiniteSet(1..n) /\ Cardinality(1..n) = n
      BY FS_Interval
    <2>4. Cardinality({a} \X (1..n)) = Cardinality({a}) * Cardinality(1..n)
      BY <2>2, <2>3, FS_Product
    <2>5. Total(w) = Cardinality({a} \X (1..n))
      BY <2>1 DEF Total
    <2> QED BY <2>2, <2>3, <2>4, <2>5
  <1> QED BY <1>1, <1>2
===============================================================================

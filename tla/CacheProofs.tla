------------------------------ MODULE CacheProofs ------------------------------
(***************************************************************************)
(* Proofs about the worker's caches: the image requests with the account   *)
(* of the completed images, and the recents with their chained writes; and *)
(* what the parts of the worker are when they are put together (MCWorker). *)
(***************************************************************************)
EXTENDS MCWorker, WorkerProofs, NavigationProofs

-------------------------------------------------------------------------------
(* Arrays as caches                                                        *)

\* What a filter leaves is an array of the same entries, no longer than it was,
\* and where each entry comes from.
LEMMA FilterIs ==
  ASSUME NEW S, NEW s \in Seq(S), NEW I, I \subseteq DOMAIN s
  PROVE  /\ Picked(s, I) \in Seq(S) /\ Len(Picked(s, I)) <= Len(s) /\ Len(Picked(s, I)) \in Nat
         /\ \A m \in 1..Len(Picked(s, I)) : \E i \in I : Picked(s, I)[m] = s[i]
         /\ \A m, n \in 1..Len(Picked(s, I)) : m < n =>
              \E i, j \in I : i < j /\ Picked(s, I)[m] = s[i] /\ Picked(s, I)[n] = s[j]
  <1>1. PICK N \in Nat : N = Cardinality(I) /\ N <= Len(s)
    BY PickedIs
  <1>2. /\ Picked(s, I) \in Seq(S) /\ Len(Picked(s, I)) = N
        /\ \A n \in 1..N : Nth(I, n) \in I /\ Picked(s, I)[n] = s[Nth(I, n)]
        /\ \A m, n \in 1..N : m < n => Nth(I, m) < Nth(I, n)
    BY <1>1, PickedIs
  <1> QED BY <1>1, <1>2

LEMMA CacheOperations ==
  ASSUME NEW S, NEW s \in Seq(S), NEW k
  PROVE  /\ Without(s, k) \in Seq(S) /\ Len(Without(s, k)) <= Len(s)
         /\ FreshOf(s) \in Seq(S) /\ Len(FreshOf(s)) <= Len(s)
         /\ Renewed(s, k) \in Seq(S) /\ Len(Renewed(s, k)) = Len(s)
         /\ \A n \in Nat : Latest(s, n) \in Seq(S) /\ Len(Latest(s, n)) <= n
  <1>1. PICK L \in Nat : L = Len(s) /\ DOMAIN s = 1..L
    OBVIOUS
  <1> DEFINE I == {i \in DOMAIN s : s[i].key = k}
             J == {i \in DOMAIN s : s[i].key # k}
             F == {i \in DOMAIN s : Fresh(s[i])}
  <1>2. Without(s, k) = Picked(s, J) /\ FreshOf(s) = Picked(s, F)
        /\ Renewed(s, k) = Picked(s, J) \o Picked(s, I)
    BY DEF Without, FreshOf, Renewed, Filter
  <1>3. I \subseteq DOMAIN s /\ J \subseteq DOMAIN s /\ F \subseteq DOMAIN s /\ J = (1..L) \ I
    BY <1>1
  <1> HIDE DEF I, J, F
  <1>4. /\ Picked(s, J) \in Seq(S) /\ Len(Picked(s, J)) <= L /\ Len(Picked(s, J)) = Cardinality(J)
        /\ Picked(s, F) \in Seq(S) /\ Len(Picked(s, F)) <= L
        /\ Picked(s, I) \in Seq(S) /\ Len(Picked(s, I)) = Cardinality(I)
    BY <1>1, <1>3, FilterIs, PickedIs
  <1>5. Cardinality(J) + Cardinality(I) = L
    <2>1. IsFiniteSet(1..L) /\ Cardinality(1..L) = L /\ I \in SUBSET (1..L) /\ J \in SUBSET (1..L)
      <3>1. IsFiniteSet(1..L) /\ Cardinality(1..L) = L
        BY FS_Interval
      <3>2. I \in SUBSET (1..L) /\ J \in SUBSET (1..L)
        BY <1>1, <1>3
      <3> QED BY <3>1, <3>2
    <2>2. IsFiniteSet(I) /\ IsFiniteSet(J)
      BY <2>1, FS_Subset
    <2>3. PICK a \in Nat, b \in Nat : a = Cardinality(I) /\ b = Cardinality(J)
      BY <2>2, FS_CardinalityType
    <2>4. I \cup J = 1..L /\ I \cap J = {}
      BY <1>3, <2>1
    <2>5. Cardinality(I \cup J) = Cardinality(I) + Cardinality(J) - Cardinality(I \cap J)
      BY <2>2, FS_Union
    <2>6. L = a + b - 0
      BY <2>1, <2>3, <2>4, <2>5, FS_EmptySet
    <2> QED BY <2>3, <2>6
  <1>6. /\ Picked(s, J) \o Picked(s, I) \in Seq(S)
        /\ Len(Picked(s, J) \o Picked(s, I)) = Len(Picked(s, J)) + Len(Picked(s, I))
    BY <1>4, ConcatProperties
  <1>7. ASSUME NEW n \in Nat PROVE Latest(s, n) \in Seq(S) /\ Len(Latest(s, n)) <= n
    <2> DEFINE m == IF L > n THEN L - n + 1 ELSE 1
    <2>1. Latest(s, n) = SubSeq(s, m, L)
      BY <1>1 DEF Latest
    <2>2. m \in Int /\ m >= 1 /\ L - m + 1 <= n /\ 0 <= n
      OBVIOUS
    <2>3. \A i \in m..L : s[i] \in S
      BY <1>1, <2>2
    <2> HIDE DEF m
    <2>4. SubSeq(s, m, L) \in Seq(S) /\ Len(SubSeq(s, m, L)) = IF m <= L THEN L - m + 1 ELSE 0
      BY <2>2, <2>3, SubSeqProperties
    <2> QED BY <2>1, <2>2, <2>4
  <1> QED BY <1>1, <1>2, <1>4, <1>5, <1>6, <1>7

-------------------------------------------------------------------------------
(* What images weigh                                                       *)

Images == [key: ImageKeys, bytes: Sizes]

LEMMA ImagesWeigh ==
  /\ \A e \in Images : e.bytes \in Nat
  /\ \A s \in Seq(Images) : \A i \in DOMAIN s : s[i].bytes \in Nat /\ s[i] \in Images
  <1>1. \A e \in Images : e.bytes \in Nat
    BY SizesAssumption DEF Images
  <1>2. ASSUME NEW s \in Seq(Images), NEW i \in DOMAIN s PROVE s[i] \in Images
    OBVIOUS
  <1> QED BY <1>1, <1>2

\* Picked images weigh what they weighed where they were.
LEMMA PickedWeigh ==
  ASSUME NEW s \in Seq(Images), NEW I, I \subseteq DOMAIN s
  PROVE  /\ BytesOf(s) \in Nat
         /\ BytesOf(Picked(s, I)) = Total([i \in I |-> s[i].bytes])
  <1>1. PICK L \in Nat : L = Len(s) /\ DOMAIN s = 1..L
    OBVIOUS
  <1>2. IsFiniteSet(1..L) /\ IsFiniteSet(I)
    <2>1. IsFiniteSet(1..L) /\ I \in SUBSET (1..L)
      BY <1>1, FS_Interval
    <2> QED BY <2>1, FS_Subset
  <1> DEFINE w == [i \in DOMAIN s |-> s[i].bytes]
             u == [i \in I |-> s[i].bytes]
             p == Picked(s, I)
             v == [n \in DOMAIN p |-> p[n].bytes]
  <1>3. w \in [1..L -> Nat] /\ u \in [I -> Nat]
    BY <1>1, ImagesWeigh
  <1>4. BytesOf(s) = Total(w) /\ BytesOf(p) = Total(v)
    BY DEF BytesOf
  <1>5. BytesOf(s) \in Nat
    <2> HIDE DEF w
    <2> QED BY <1>2, <1>3, <1>4, UnitsAre
  <1>6. PICK N \in Nat : N = Cardinality(I)
    BY PickedIs
  <1> DEFINE f == [n \in 1..N |-> Nth(I, n)]
  <1>7. /\ p \in Seq(Images) /\ DOMAIN p = 1..N
        /\ \A n \in 1..N : Nth(I, n) \in I /\ p[n] = s[Nth(I, n)]
        /\ \A m, n \in 1..N : m < n => Nth(I, m) < Nth(I, n)
        /\ \A i \in I : \E n \in 1..N : Nth(I, n) = i
    BY <1>6, PickedIs
  <1>8. v \in [1..N -> Nat] /\ f \in [1..N -> I] /\ \A n \in 1..N : v[n] = u[f[n]]
    BY <1>3, <1>7, ImagesWeigh
  <1>9. \A m, n \in 1..N : f[m] = f[n] => m = n
    <2> SUFFICES ASSUME NEW m \in 1..N, NEW n \in 1..N, f[m] = f[n], m # n PROVE FALSE
      OBVIOUS
    <2>1. (m < n \/ n < m) /\ Nth(I, m) \in Nat /\ Nth(I, m) = Nth(I, n)
      BY <1>1, <1>7
    <2>2. Nth(I, m) < Nth(I, n) \/ Nth(I, n) < Nth(I, m)
      BY <1>7, <2>1
    <2> QED BY <2>1, <2>2
  <1>10. \A i \in I : \E n \in 1..N : f[n] = i
    BY <1>7
  <1>11. Total(v) = Total(u)
    <2> HIDE DEF u, v, f, p
    <2>1. Renames(f, v, 1..N, u, I)
      BY <1>3, <1>8, <1>9, <1>10 DEF Renames
    <2> QED BY <1>2, <2>1, TotalMapped
  <1> QED BY <1>4, <1>5, <1>11

\* A filter and what it leaves out weigh what there was.
LEMMA FilterWeighs ==
  ASSUME NEW s \in Seq(Images), NEW I, I \subseteq DOMAIN s
  PROVE  /\ BytesOf(Picked(s, I)) \in Nat /\ BytesOf(Picked(s, DOMAIN s \ I)) \in Nat
         /\ BytesOf(s) = BytesOf(Picked(s, I)) + BytesOf(Picked(s, DOMAIN s \ I))
  <1>1. PICK L \in Nat : L = Len(s) /\ DOMAIN s = 1..L /\ IsFiniteSet(1..L)
    BY FS_Interval
  <1> DEFINE w == [i \in 1..L |-> s[i].bytes]
             J == (1..L) \ I
  <1>2. w \in [1..L -> Nat] /\ I \subseteq 1..L /\ J \subseteq 1..L
    BY <1>1, ImagesWeigh
  <1> DEFINE u == [i \in I |-> s[i].bytes]
             v == [i \in J |-> s[i].bytes]
  <1>3. Splits(w, 1..L, u, I, v, J)
    BY <1>1, <1>2, ImagesWeigh DEF Splits
  <1>4. BytesOf(s) = Total(w)
    BY <1>1 DEF BytesOf
  <1>5. BytesOf(Picked(s, I)) = Total(u) /\ BytesOf(Picked(s, J)) = Total(v)
    BY <1>1, <1>2, PickedWeigh
  <1> HIDE DEF w, u, v
  <1>6. Total(u) \in Nat /\ Total(v) \in Nat /\ Total(w) = Total(u) + Total(v)
    BY <1>1, <1>3, TotalSplit
  <1> QED BY <1>1, <1>4, <1>5, <1>6

\* Arrays joined weigh what they weigh apart.
LEMMA ConcatWeighs ==
  ASSUME NEW s \in Seq(Images), NEW t \in Seq(Images)
  PROVE  /\ BytesOf(s) \in Nat /\ BytesOf(t) \in Nat
         /\ BytesOf(s \o t) = BytesOf(s) + BytesOf(t)
  <1>1. PICK L \in Nat : L = Len(s) /\ DOMAIN s = 1..L
    OBVIOUS
  <1>2. PICK M \in Nat : M = Len(t) /\ DOMAIN t = 1..M
    OBVIOUS
  <1> DEFINE r == s \o t
             N == L + M
             A == 1..L
             B == (1..N) \ A
             w == [i \in 1..N |-> r[i].bytes]
             u == [i \in 1..L |-> s[i].bytes]
             v == [i \in 1..M |-> t[i].bytes]
             x == [i \in B |-> w[i]]
             f == [i \in 1..M |-> i + L]
  <1>3. N \in Nat /\ IsFiniteSet(1..N) /\ IsFiniteSet(1..L) /\ IsFiniteSet(1..M)
    BY FS_Interval
  <1>4. /\ r \in Seq(Images) /\ Len(r) = N /\ DOMAIN r = 1..N
        /\ (\A i \in 1..L : r[i] = s[i]) /\ (\A i \in 1..M : r[i + L] = t[i])
    <2>1. /\ r \in Seq(Images) /\ Len(r) = N
          /\ \A i \in 1..N : r[i] = IF i <= L THEN s[i] ELSE t[i - L]
      BY <1>1, <1>2, ConcatProperties
    <2>2. \A i \in 1..L : i \in 1..N /\ i <= L
      OBVIOUS
    <2>3. \A i \in 1..M : i + L \in 1..N /\ ~(i + L <= L) /\ (i + L) - L = i
      OBVIOUS
    <2> HIDE DEF r, N
    <2>4. DOMAIN r = 1..N
      BY <2>1
    <2>5. \A i \in 1..L : r[i] = s[i]
      BY <2>1, <2>2
    <2>6. ASSUME NEW i \in 1..M PROVE r[i + L] = t[i]
      <3>1. PICK j \in 1..N : j = i + L /\ ~(j <= L) /\ j - L = i
        BY <2>3
      <3>2. r[j] = t[j - L]
        BY <2>1, <3>1
      <3> QED BY <3>1, <3>2
    <2> QED BY <2>1, <2>4, <2>5, <2>6
  <1>5. /\ BytesOf(r) = Total(w) /\ BytesOf(s) = Total(u) /\ BytesOf(t) = Total(v)
    BY <1>1, <1>2, <1>4 DEF BytesOf
  <1>6. w \in [1..N -> Nat] /\ u \in [1..L -> Nat] /\ v \in [1..M -> Nat]
    BY <1>1, <1>2, <1>4, ImagesWeigh
  <1>7. A \subseteq 1..N /\ B \subseteq 1..N /\ (\A i \in B : i \in (L + 1)..N)
        /\ \A i \in 1..M : i + L \in B
    OBVIOUS
  <1>8. u \in [A -> Nat] /\ \A i \in A : u[i] = w[i]
    <2>1. \A i \in A : w[i] = s[i].bytes
      BY <1>4, <1>7
    <2> QED BY <1>6, <2>1
  <1>9. Total(x) = Total(v)
    <2>1. x \in [B -> Nat] /\ IsFiniteSet(B)
      <3>1. B \in SUBSET (1..N)
        BY <1>7
      <3> QED BY <1>3, <1>6, <3>1, FS_Subset
    <2>2. f \in [1..M -> B] /\ \A i \in 1..M : f[i] = i + L
      BY <1>7
    <2>3. \A a, b \in 1..M : f[a] = f[b] => a = b
      OBVIOUS
    <2>4. ASSUME NEW d \in B PROVE \E a \in 1..M : f[a] = d
      <3>1. d \in (L + 1)..N /\ d - L \in 1..M /\ (d - L) + L = d
        BY <1>7
      <3> QED BY <2>2, <3>1
    <2>5. \A a \in 1..M : v[a] = x[f[a]]
      <3> SUFFICES ASSUME NEW a \in 1..M PROVE v[a] = x[f[a]]
        OBVIOUS
      <3>1. f[a] = a + L /\ a + L \in B /\ a + L \in 1..N
        BY <1>7, <2>2
      <3>2. x[a + L] = r[a + L].bytes
        BY <3>1
      <3> HIDE DEF x, f, r
      <3> QED BY <1>4, <3>1, <3>2
    <2> HIDE DEF x, v, f, B
    <2>6. Renames(f, v, 1..M, x, B)
      BY <1>6, <2>1, <2>2, <2>3, <2>4, <2>5 DEF Renames
    <2> QED BY <2>1, <2>6, TotalMapped
  <1>10. Total(u) \in Nat /\ Total(x) \in Nat /\ Total(w) = Total(u) + Total(x)
    <2>1. 1..N = A \cup B /\ A \cap B = {} /\ x \in [B -> Nat] /\ \A i \in B : x[i] = w[i]
      BY <1>6, <1>7
    <2> HIDE DEF w, u, x, A, B, N
    <2>2. Splits(w, 1..N, u, A, x, B)
      BY <1>6, <1>8, <2>1 DEF Splits
    <2> QED BY <1>3, <2>2, TotalSplit
  <1> QED BY <1>5, <1>9, <1>10

LEMMA FewWeigh ==
  /\ BytesOf(<<>>) = 0
  /\ \A e \in Images : BytesOf(<<e>>) = e.bytes
  <1>1. BytesOf(<<>>) = 0
    <2>1. DOMAIN [i \in DOMAIN <<>> |-> <<>>[i].bytes] = {}
      OBVIOUS
    <2> QED BY <2>1, TotalOfFew DEF BytesOf
  <1>2. ASSUME NEW e \in Images PROVE BytesOf(<<e>>) = e.bytes
    <2>1. DOMAIN <<e>> = {1} /\ <<e>>[1] = e /\ e.bytes \in Nat
      BY ImagesWeigh
    <2>2. [i \in DOMAIN <<e>> |-> <<e>>[i].bytes] = [i \in {1} |-> e.bytes]
      BY <2>1
    <2>3. BytesOf(<<e>>) = Total([i \in {1} |-> e.bytes])
      BY <2>2 DEF BytesOf
    <2> QED BY <2>1, <2>3, TotalOfFew
  <1> QED BY <1>1, <1>2

\* What is dropped at the front and what stays.
LEMMA SplitWeighs ==
  ASSUME NEW s \in Seq(Images), NEW n \in 0..Len(s)
  PROVE  /\ SubSeq(s, 1, n) \in Seq(Images) /\ SubSeq(s, n + 1, Len(s)) \in Seq(Images)
         /\ Len(SubSeq(s, n + 1, Len(s))) = Len(s) - n
         /\ \A i \in 1..(Len(s) - n) : SubSeq(s, n + 1, Len(s))[i] = s[i + n]
         /\ BytesOf(SubSeq(s, 1, n)) \in Nat /\ BytesOf(SubSeq(s, n + 1, Len(s))) \in Nat
         /\ BytesOf(s) = BytesOf(SubSeq(s, 1, n)) + BytesOf(SubSeq(s, n + 1, Len(s)))
  <1>1. PICK L \in Nat : L = Len(s) /\ DOMAIN s = 1..L /\ n \in 0..L
    OBVIOUS
  <1> DEFINE a == SubSeq(s, 1, n)
             b == SubSeq(s, n + 1, L)
  <1>2. a \in Seq(Images) /\ Len(a) = n /\ \A i \in 1..n : a[i] = s[i]
    <2>1. 1 \in Int /\ n \in Int /\ \A i \in 1..n : s[i] \in Images
      BY <1>1, ImagesWeigh
    <2>2. /\ a \in Seq(Images) /\ Len(a) = IF 1 <= n THEN n - 1 + 1 ELSE 0
          /\ \A i \in 1..(n - 1 + 1) : a[i] = s[1 + i - 1]
      BY <2>1, SubSeqProperties
    <2>3. n - 1 + 1 = n /\ (1 <= n \/ n = 0) /\ \A i \in 1..n : 1 + i - 1 = i
      BY <1>1
    <2> HIDE DEF a
    <2> QED BY <2>2, <2>3
  <1>3. b \in Seq(Images) /\ Len(b) = L - n /\ \A i \in 1..(L - n) : b[i] = s[i + n]
    <2>1. n + 1 \in Int /\ L \in Int /\ \A i \in (n + 1)..L : s[i] \in Images
      BY <1>1, ImagesWeigh
    <2>2. /\ b \in Seq(Images) /\ Len(b) = IF n + 1 <= L THEN L - (n + 1) + 1 ELSE 0
          /\ \A i \in 1..(L - (n + 1) + 1) : b[i] = s[(n + 1) + i - 1]
      BY <2>1, SubSeqProperties
    <2>3. /\ L - (n + 1) + 1 = L - n /\ (n + 1 <= L \/ L - n = 0)
          /\ \A i \in 1..(L - n) : (n + 1) + i - 1 = i + n
      BY <1>1
    <2> HIDE DEF b
    <2> QED BY <2>2, <2>3
  <1> HIDE DEF a, b
  <1>4. s = a \o b
    <2>1. /\ a \o b \in Seq(Images) /\ Len(a \o b) = L
          /\ \A i \in 1..L : (a \o b)[i] = IF i <= n THEN a[i] ELSE b[i - n]
      <3>1. Len(a) + Len(b) = L
        BY <1>1, <1>2, <1>3
      <3>2. /\ a \o b \in Seq(Images) /\ Len(a \o b) = Len(a) + Len(b)
            /\ \A i \in 1..(Len(a) + Len(b)) : (a \o b)[i] = IF i <= Len(a) THEN a[i] ELSE b[i - Len(a)]
        <4>1. a \in Seq(Images) /\ b \in Seq(Images)
          BY <1>2, <1>3
        <4> QED BY <4>1, ConcatProperties
      <3> QED BY <1>2, <3>1, <3>2
    <2>2. \A i \in 1..L : (a \o b)[i] = s[i]
      <3> SUFFICES ASSUME NEW i \in 1..L PROVE (a \o b)[i] = s[i]
        OBVIOUS
      <3>1. CASE i <= n
        <4>1. i \in 1..n
          BY <3>1, <1>1
        <4> QED BY <1>2, <2>1, <3>1, <4>1
      <3>2. CASE ~(i <= n)
        <4>1. i - n \in 1..(L - n) /\ (i - n) + n = i
          BY <1>1, <3>2
        <4> QED BY <1>3, <2>1, <3>2, <4>1
      <3> QED BY <3>1, <3>2
    <2> QED BY <1>1, <2>1, <2>2, SeqEqual
  <1>5. BytesOf(a) \in Nat /\ BytesOf(b) \in Nat /\ BytesOf(s) = BytesOf(a) + BytesOf(b)
    BY <1>2, <1>3, <1>4, ConcatWeighs
  <1> QED BY <1>1, <1>2, <1>3, <1>5 DEF a, b

-------------------------------------------------------------------------------
(* The account of the completed images                                     *)

\* No key twice.
Distinct(cache) == \A i, j \in DOMAIN cache : cache[i].key = cache[j].key => i = j

LEMMA DistinctPicked ==
  ASSUME NEW s \in Seq(Images), NEW I, I \subseteq DOMAIN s, Distinct(s)
  PROVE  Distinct(Picked(s, I))
  <1> DEFINE p == Picked(s, I)
  <1>1. PICK L \in Nat : L = Len(s) /\ DOMAIN s = 1..L
    OBVIOUS
  <1>2. PICK N \in Nat : N = Len(p) /\ DOMAIN p = 1..N
    BY FilterIs
  <1>3. \A m, n \in 1..N : m < n => \E i, j \in I : i < j /\ p[m] = s[i] /\ p[n] = s[j]
    BY <1>2, FilterIs
  <1> HIDE DEF p
  <1>4. \A m, n \in 1..N : m < n => p[m].key # p[n].key
    <2> SUFFICES ASSUME NEW m \in 1..N, NEW n \in 1..N, m < n PROVE p[m].key # p[n].key
      OBVIOUS
    <2>1. PICK i \in I, j \in I : i < j /\ p[m] = s[i] /\ p[n] = s[j]
      BY <1>3
    <2>2. i \in 1..L /\ j \in 1..L /\ i # j
      BY <1>1, <2>1
    <2> QED BY <1>1, <2>1, <2>2 DEF Distinct
  <1>5. \A m, n \in 1..N : m = n \/ m < n \/ n < m
    OBVIOUS
  <1>6. Distinct(p)
    BY <1>2, <1>4, <1>5 DEF Distinct
  <1> QED BY <1>6 DEF p

LEMMA DistinctConcat ==
  ASSUME NEW s \in Seq(Images), NEW t \in Seq(Images), Distinct(s), Distinct(t),
         \A i \in DOMAIN s, j \in DOMAIN t : s[i].key # t[j].key
  PROVE  Distinct(s \o t)
  <1>1. PICK L \in Nat : L = Len(s) /\ DOMAIN s = 1..L
    OBVIOUS
  <1>2. PICK M \in Nat : M = Len(t) /\ DOMAIN t = 1..M
    OBVIOUS
  <1> DEFINE r == s \o t
  <1>3. r \in Seq(Images) /\ DOMAIN r = 1..(L + M)
        /\ \A i \in 1..(L + M) : r[i] = IF i <= L THEN s[i] ELSE t[i - L]
    <2>1. /\ r \in Seq(Images) /\ Len(r) = L + M
          /\ \A i \in 1..(L + M) : r[i] = IF i <= L THEN s[i] ELSE t[i - L]
      BY <1>1, <1>2, ConcatProperties
    <2> HIDE DEF r
    <2> QED BY <2>1
  <1> HIDE DEF r
  <1>4. ASSUME NEW i \in 1..(L + M), NEW j \in 1..(L + M), r[i].key = r[j].key
        PROVE  i = j
    <2>1. \A n \in 1..(L + M) : \/ n <= L /\ n \in DOMAIN s /\ r[n] = s[n]
                                \/ n - L \in DOMAIN t /\ r[n] = t[n - L]
      <3> SUFFICES ASSUME NEW n \in 1..(L + M)
                   PROVE  \/ n <= L /\ n \in DOMAIN s /\ r[n] = s[n]
                          \/ n - L \in DOMAIN t /\ r[n] = t[n - L]
        OBVIOUS
      <3>1. (n <= L /\ n \in 1..L) \/ (~(n <= L) /\ n - L \in 1..M)
        OBVIOUS
      <3> QED BY <1>1, <1>2, <1>3, <3>1
    <2>2. CASE i \in DOMAIN s /\ r[i] = s[i] /\ j \in DOMAIN s /\ r[j] = s[j]
      BY <1>4, <2>2 DEF Distinct
    <2>3. CASE i - L \in DOMAIN t /\ r[i] = t[i - L] /\ j - L \in DOMAIN t /\ r[j] = t[j - L]
      <3>1. i - L = j - L
        BY <1>4, <2>3 DEF Distinct
      <3> QED BY <3>1
    <2> QED BY <1>4, <2>1, <2>2, <2>3
  <1>5. Distinct(r)
    BY <1>3, <1>4 DEF Distinct
  <1> QED BY <1>5 DEF r

\* The parts of a cache that have a key and that have another.
With(cache, key) == Filter(cache, LAMBDA e : e.key = key)

LEMMA PartsOfCache ==
  ASSUME NEW s \in Seq(Images), Distinct(s), NEW k
  PROVE  /\ With(s, k) \in Seq(Images) /\ Without(s, k) \in Seq(Images)
         /\ Distinct(With(s, k)) /\ Distinct(Without(s, k))
         /\ (\A i \in DOMAIN With(s, k) : With(s, k)[i].key = k)
         /\ (\A i \in DOMAIN Without(s, k) : Without(s, k)[i].key # k)
         /\ BytesOf(With(s, k)) \in Nat /\ BytesOf(Without(s, k)) \in Nat
         /\ BytesOf(s) = BytesOf(With(s, k)) + BytesOf(Without(s, k))
  <1> DEFINE I == {i \in DOMAIN s : s[i].key = k}
             J == {i \in DOMAIN s : s[i].key # k}
             with == Picked(s, I)
             without == Picked(s, J)
  <1>1. With(s, k) = with /\ Without(s, k) = without
    BY DEF Filter, With, Without
  <1>2. I \subseteq DOMAIN s /\ J \subseteq DOMAIN s /\ J = DOMAIN s \ I
        /\ (\A i \in I : s[i].key = k) /\ (\A i \in J : s[i].key # k)
    OBVIOUS
  <1> HIDE DEF I, J
  <1>3. with \in Seq(Images) /\ without \in Seq(Images) /\ Distinct(with) /\ Distinct(without)
    BY <1>2, FilterIs, DistinctPicked
  <1>a. \A m \in 1..Len(with) : \E i \in I : with[m] = s[i]
    BY <1>2, FilterIs
  <1>b. \A m \in 1..Len(without) : \E i \in J : without[m] = s[i]
    BY <1>2, FilterIs
  <1>5. /\ BytesOf(with) \in Nat /\ BytesOf(without) \in Nat
        /\ BytesOf(s) = BytesOf(with) + BytesOf(without)
    BY <1>2, FilterWeighs
  <1> HIDE DEF with, without
  <1>6. (\A i \in DOMAIN with : with[i].key = k) /\ (\A i \in DOMAIN without : without[i].key # k)
    <2>1. DOMAIN with = 1..Len(with) /\ DOMAIN without = 1..Len(without)
      BY <1>3
    <2> QED BY <1>2, <1>a, <1>b, <2>1
  <1> QED BY <1>1, <1>3, <1>5, <1>6

\* What is served again has a new place and the same weight.
LEMMA RenewedKeeps ==
  ASSUME NEW s \in Seq(Images), Distinct(s), NEW k
  PROVE  /\ Renewed(s, k) \in Seq(Images) /\ Len(Renewed(s, k)) = Len(s)
         /\ Distinct(Renewed(s, k)) /\ BytesOf(Renewed(s, k)) = BytesOf(s)
  <1> DEFINE with == With(s, k)
             without == Without(s, k)
  <1>1. /\ with \in Seq(Images) /\ without \in Seq(Images)
        /\ Distinct(with) /\ Distinct(without)
        /\ (\A i \in DOMAIN with : with[i].key = k)
        /\ (\A i \in DOMAIN without : without[i].key # k)
        /\ BytesOf(with) \in Nat /\ BytesOf(without) \in Nat
        /\ BytesOf(s) = BytesOf(with) + BytesOf(without)
    BY PartsOfCache
  <1>2. Renewed(s, k) = without \o with
    BY DEF Renewed, With
  <1>3. Renewed(s, k) \in Seq(Images) /\ Len(Renewed(s, k)) = Len(s)
    BY CacheOperations
  <1> HIDE DEF with, without
  <1>4. Distinct(without \o with)
    BY <1>1, DistinctConcat
  <1>5. BytesOf(without \o with) = BytesOf(without) + BytesOf(with)
    BY <1>1, ConcatWeighs
  <1> QED BY <1>1, <1>2, <1>3, <1>4, <1>5

\* An insertion: the account follows, and evictions bring both bounds back.
LEMMA InsertionAddsUp ==
  ASSUME completed \in Seq(Images), Distinct(completed), cacheBytes = BytesOf(completed),
         NEW key \in ImageKeys, NEW bytes \in Sizes
  PROVE  LET cache == WithCompleted(key, bytes)
         IN  /\ cache.images \in Seq(Images) /\ Distinct(cache.images)
             /\ cache.account \in Nat /\ cache.account = BytesOf(cache.images)
             /\ Len(cache.images) <= MaxImages /\ cache.account <= MaxImageBytes
  <1> DEFINE with == With(completed, key)
             without == Without(completed, key)
             entry == [key |-> key, bytes |-> bytes]
             base == cacheBytes - BytesOf(with)
             grown == Append(without, entry)
             Account(n) == base + bytes - BytesOf(SubSeq(grown, 1, n))
             Fits(n) == /\ Len(grown) - n <= MaxImages /\ Account(n) <= MaxImageBytes
                        /\ \A m \in 0..(n - 1) : Len(grown) - m > MaxImages \/ Account(m) > MaxImageBytes
             dropped == CHOOSE n \in 0..Len(grown) : Fits(n)
  <1>1. WithCompleted(key, bytes) =
          [images |-> SubSeq(grown, dropped + 1, Len(grown)), account |-> Account(dropped)]
    BY Zenon DEF WithCompleted, With
  <1>2. /\ with \in Seq(Images) /\ without \in Seq(Images) /\ Distinct(without)
        /\ \A i \in DOMAIN without : without[i].key # key
        /\ BytesOf(with) \in Nat /\ BytesOf(without) \in Nat
        /\ BytesOf(completed) = BytesOf(with) + BytesOf(without)
    BY PartsOfCache
  <1>3. entry \in Images /\ entry.key = key /\ entry.bytes = bytes /\ bytes \in Nat
    BY SizesAssumption DEF Images
  <1> HIDE DEF with, without, entry
  <1>4. /\ grown = without \o <<entry>> /\ grown \in Seq(Images) /\ <<entry>> \in Seq(Images)
        /\ Distinct(grown)
    <2>1. grown = without \o <<entry>> /\ <<entry>> \in Seq(Images)
      <3>1. grown \in Seq(Images) /\ <<entry>> \in Seq(Images) /\ without \o <<entry>> \in Seq(Images)
        BY <1>2, <1>3
      <3>2. /\ Len(without) \in Nat /\ Len(grown) = Len(without) + 1 /\ Len(without \o <<entry>>) = Len(without) + 1
            /\ \A i \in 1..(Len(without) + 1) : grown[i] = (without \o <<entry>>)[i]
        <4>1. without \in Seq(Images)
          BY <1>2
        <4> HIDE DEF entry
        <4> QED BY <4>1, <1>3
      <3> HIDE DEF grown
      <3> QED BY <3>1, <3>2, SeqEqual
    <2>2. Distinct(<<entry>>) /\ \A j \in DOMAIN <<entry>> : <<entry>>[j].key = key
      BY <1>3 DEF Distinct
    <2>3. Distinct(without \o <<entry>>)
      <3>1. \A i \in DOMAIN without, j \in DOMAIN <<entry>> : without[i].key # <<entry>>[j].key
        BY <1>2, <2>2
      <3> QED BY <1>2, <2>1, <2>2, <3>1, DistinctConcat
    <2>4. grown \in Seq(Images)
      BY <1>2, <1>3
    <2> QED BY <2>1, <2>3, <2>4
  <1>5. base + bytes = BytesOf(grown) /\ BytesOf(grown) \in Nat /\ base \in Int
    <2>1. BytesOf(grown) = BytesOf(without) + BytesOf(<<entry>>) /\ BytesOf(<<entry>>) = bytes
      BY <1>2, <1>3, <1>4, ConcatWeighs, FewWeigh
    <2> HIDE DEF grown
    <2> QED BY <1>2, <1>3, <2>1
  <1> HIDE DEF grown, base
  <1>6. PICK G \in Nat : G = Len(grown) /\ DOMAIN grown = 1..G
    BY <1>4
  <1>7. \A n \in 0..G : /\ Account(n) \in Nat /\ Account(n) = BytesOf(SubSeq(grown, n + 1, G))
                        /\ SubSeq(grown, n + 1, G) \in Seq(Images)
                        /\ Len(SubSeq(grown, n + 1, G)) = G - n
                        /\ \A i \in 1..(G - n) : SubSeq(grown, n + 1, G)[i] = grown[i + n]
    <2> SUFFICES ASSUME NEW n \in 0..G
                 PROVE  /\ Account(n) \in Nat /\ Account(n) = BytesOf(SubSeq(grown, n + 1, G))
                        /\ SubSeq(grown, n + 1, G) \in Seq(Images)
                        /\ Len(SubSeq(grown, n + 1, G)) = G - n
                        /\ \A i \in 1..(G - n) : SubSeq(grown, n + 1, G)[i] = grown[i + n]
      OBVIOUS
    <2>1. /\ SubSeq(grown, n + 1, G) \in Seq(Images)
          /\ Len(SubSeq(grown, n + 1, G)) = G - n
          /\ \A i \in 1..(G - n) : SubSeq(grown, n + 1, G)[i] = grown[i + n]
          /\ BytesOf(SubSeq(grown, 1, n)) \in Nat /\ BytesOf(SubSeq(grown, n + 1, G)) \in Nat
          /\ BytesOf(grown) = BytesOf(SubSeq(grown, 1, n)) + BytesOf(SubSeq(grown, n + 1, G))
      BY <1>4, <1>6, SplitWeighs
    <2>2. Account(n) = BytesOf(grown) - BytesOf(SubSeq(grown, 1, n))
      <3>1. PICK x \in Nat : x = BytesOf(SubSeq(grown, 1, n))
        BY <2>1
      <3>2. PICK y \in Nat : y = BytesOf(grown)
        BY <1>5
      <3>3. base + bytes = y /\ base \in Int /\ bytes \in Nat
        BY <1>3, <1>5, <3>2
      <3>4. base + bytes - x = y - x
        BY <3>3
      <3> QED BY <3>1, <3>2, <3>4
    <2> HIDE DEF Account
    <2> QED BY <2>1, <2>2
  <1>8. Account(G) = 0
    <2>1. SubSeq(grown, G + 1, G) = <<>>
      <3>1. SubSeq(grown, G + 1, G) \in Seq(Images) /\ Len(SubSeq(grown, G + 1, G)) = 0
        BY <1>7
      <3> QED BY <3>1
    <2>2. Account(G) = BytesOf(SubSeq(grown, G + 1, G))
      BY <1>7
    <2> HIDE DEF Account
    <2> QED BY <2>1, <2>2, FewWeigh
  <1> HIDE DEF Account
  <1>9. \E n \in 0..G : Fits(n)
    <2> DEFINE T == {n \in 0..G : G - n <= MaxImages /\ Account(n) <= MaxImageBytes}
    <2>1. T \subseteq Nat /\ G \in T
      BY <1>8, CacheBoundsAssumption
    <2>2. PICK n \in T : \A m \in T : n <= m
      <3> HIDE DEF T
      <3> QED BY <2>1, LeastNat
    <2>3. ASSUME NEW m \in 0..(n - 1) PROVE G - m > MaxImages \/ Account(m) > MaxImageBytes
      <3>1. m \in 0..G /\ ~(n <= m)
        BY <2>2
      <3>2. m \notin T
        BY <2>2, <3>1
      <3>3. Account(m) \in Nat /\ MaxImageBytes \in Nat /\ MaxImages \in Nat
        BY <1>7, <3>1, CacheBoundsAssumption
      <3> QED BY <3>1, <3>2, <3>3
    <2> QED BY <1>6, <2>2, <2>3
  <1>10. dropped \in 0..G /\ G - dropped <= MaxImages /\ Account(dropped) <= MaxImageBytes
    <2>1. dropped \in 0..Len(grown) /\ Fits(dropped)
      <3> HIDE DEF Fits
      <3> QED BY <1>6, <1>9
    <2> QED BY <1>6, <2>1
  <1> HIDE DEF dropped
  <1>11. PICK n \in 0..G : n = dropped
    BY <1>10
  <1> DEFINE images == SubSeq(grown, n + 1, G)
  <1>12. /\ images \in Seq(Images) /\ Len(images) = G - n
         /\ \A i \in 1..(G - n) : images[i] = grown[i + n]
         /\ Account(n) \in Nat /\ Account(n) = BytesOf(images)
    BY <1>7
  <1>13. Distinct(images)
    <2> HIDE DEF images
    <2>1. DOMAIN images = 1..(G - n) /\ \A i \in 1..(G - n) : i + n \in 1..G
      BY <1>12
    <2> SUFFICES ASSUME NEW i \in 1..(G - n), NEW j \in 1..(G - n), images[i].key = images[j].key
                 PROVE  i = j
      BY <2>1 DEF Distinct
    <2>2. PICK a \in 1..G, b \in 1..G : a = i + n /\ b = j + n
      BY <2>1
    <2>3. grown[a].key = grown[b].key
      BY <1>12, <2>2
    <2>4. a = b
      BY <1>4, <1>6, <2>3 DEF Distinct
    <2> QED BY <2>2, <2>4
  <1>14. WithCompleted(key, bytes) = [images |-> images, account |-> Account(n)]
    BY <1>1, <1>6, <1>11
  <1> HIDE DEF images
  <1> QED BY <1>10, <1>11, <1>12, <1>13, <1>14

-------------------------------------------------------------------------------
(* The image requests                                                      *)

Skips == [key: ImageKeys, at: 0..LastTime]
Probes == [key: ProbeKeys, at: 0..LastTime]
Flights == [key: ImageKeys, speculative: BOOLEAN, original: BOOLEAN]
ImageCallStates ==
  {NoImageCall} \cup [pc: {"await"}, key: ImageKeys]
    \cup [pc: {"probe"}, key: ImageKeys, probe: ProbeKeys]
    \cup [pc: {"head", "probed"}, probe: ProbeKeys]

ImInv == ImTypeOK /\ CacheAddsUp /\ AwaitedIsFetched

LEMMA ImTypesAre ==
  ImTypeOK <=>
    /\ completed \in Seq(Images) /\ cacheBytes \in Nat
    /\ skips \in Seq(Skips) /\ Len(skips) <= MaxSkips
    /\ probes \in Seq(Probes) /\ Len(probes) <= MaxProbes
    /\ flights \subseteq Flights
    /\ imageCall \in [ImageCalls -> ImageCallStates]
    /\ now \in 0..LastTime
  BY DEF ImTypeOK, Images, Skips, Probes, Flights, ImageCallStates

LEMMA CacheIs ==
  CacheAddsUp <=> /\ cacheBytes = BytesOf(completed) /\ Distinct(completed)
                  /\ Len(completed) <= MaxImages /\ cacheBytes <= MaxImageBytes
  BY DEF CacheAddsUp, Distinct

\* The failures and the answers keep their types and their bounds.
LEMMA InsertionsAreBounded ==
  ASSUME ImTypeOK
  PROVE  /\ FreshOf(skips) \in Seq(Skips) /\ Len(FreshOf(skips)) <= MaxSkips
         /\ FreshOf(probes) \in Seq(Probes) /\ Len(FreshOf(probes)) <= MaxProbes
         /\ \A k \in ImageKeys : WithSkip(k) \in Seq(Skips) /\ Len(WithSkip(k)) <= MaxSkips
         /\ \A p \in ProbeKeys : WithProbe(p) \in Seq(Probes) /\ Len(WithProbe(p)) <= MaxProbes
  <1>1. /\ skips \in Seq(Skips) /\ Len(skips) <= MaxSkips
        /\ probes \in Seq(Probes) /\ Len(probes) <= MaxProbes
        /\ now \in 0..LastTime /\ MaxSkips \in Nat /\ MaxProbes \in Nat
    BY ImTypesAre, CacheBoundsAssumption
  <1>2. PICK L \in Nat, M \in Nat : L = Len(skips) /\ M = Len(probes)
    BY <1>1
  <1>3. /\ FreshOf(skips) \in Seq(Skips) /\ Len(FreshOf(skips)) <= L
        /\ FreshOf(probes) \in Seq(Probes) /\ Len(FreshOf(probes)) <= M
    BY <1>1, <1>2, CacheOperations
  <1>4. ASSUME NEW k \in ImageKeys PROVE WithSkip(k) \in Seq(Skips) /\ Len(WithSkip(k)) <= MaxSkips
    <2>1. Without(skips, k) \in Seq(Skips) /\ [key |-> k, at |-> now] \in Skips
      BY <1>1, CacheOperations DEF Skips
    <2>2. Append(Without(skips, k), [key |-> k, at |-> now]) \in Seq(Skips)
      BY <2>1, AppendProperties
    <2>3. FreshOf(Append(Without(skips, k), [key |-> k, at |-> now])) \in Seq(Skips)
      BY <2>2, CacheOperations
    <2> QED BY <1>1, <2>3, CacheOperations DEF WithSkip
  <1>5. ASSUME NEW p \in ProbeKeys PROVE WithProbe(p) \in Seq(Probes) /\ Len(WithProbe(p)) <= MaxProbes
    <2>1. Without(probes, p) \in Seq(Probes) /\ [key |-> p, at |-> now] \in Probes
      BY <1>1, CacheOperations DEF Probes
    <2>2. Append(Without(probes, p), [key |-> p, at |-> now]) \in Seq(Probes)
      BY <2>1, AppendProperties
    <2>3. FreshOf(Append(Without(probes, p), [key |-> p, at |-> now])) \in Seq(Probes)
      BY <2>2, CacheOperations
    <2> QED BY <1>1, <2>3, CacheOperations DEF WithProbe
  <1>6. Len(FreshOf(skips)) \in Nat /\ Len(FreshOf(probes)) \in Nat
    BY <1>3
  <1> QED BY <1>1, <1>2, <1>3, <1>4, <1>5, <1>6

\* A look at the policy only takes failures away or renews them.
LEMMA PolicyKeepsBounds ==
  ASSUME ImTypeOK, NEW key \in ImageKeys, NEW speculative \in BOOLEAN
  PROVE  AfterPolicy(key, speculative) \in Seq(Skips) /\ Len(AfterPolicy(key, speculative)) <= MaxSkips
  <1>1. skips \in Seq(Skips) /\ Len(skips) <= MaxSkips /\ MaxSkips \in Nat
    BY ImTypesAre, CacheBoundsAssumption
  <1>2. PICK L \in Nat : L = Len(skips)
    BY <1>1
  <1>3. /\ Renewed(skips, key) \in Seq(Skips) /\ Len(Renewed(skips, key)) = L
        /\ Without(skips, key) \in Seq(Skips) /\ Len(Without(skips, key)) <= L
    BY <1>1, <1>2, CacheOperations
  <1>4. Len(Without(skips, key)) \in Nat
    BY <1>3
  <1>5. \/ AfterPolicy(key, speculative) = skips
        \/ AfterPolicy(key, speculative) = Renewed(skips, key)
        \/ AfterPolicy(key, speculative) = Without(skips, key)
    BY DEF AfterPolicy
  <1> QED BY <1>1, <1>2, <1>3, <1>4, <1>5

\* Serving moves an image at most.
LEMMA ServingKeeps ==
  ASSUME ImTypeOK, CacheAddsUp, NEW key
  PROVE  LET cache == AfterServing(key)
         IN  /\ cache \in Seq(Images) /\ Distinct(cache)
             /\ BytesOf(cache) = BytesOf(completed) /\ Len(cache) = Len(completed)
  <1>1. completed \in Seq(Images) /\ Distinct(completed)
    BY ImTypesAre, CacheIs
  <1>2. AfterServing(key) = completed \/ \E k : AfterServing(key) = Renewed(completed, k)
    BY DEF AfterServing
  <1> QED BY <1>1, <1>2, RenewedKeeps

LEMMA FetchBytesSteps ==
  ASSUME ImInv, NEW c \in ImageCalls, NEW key \in ImageKeys,
         NEW speculative \in BOOLEAN, NEW original \in BOOLEAN,
         NEW waiting \in ImageCallStates, waiting.pc \in {"await", "probe"} /\ waiting.key = key,
         NEW answered \in ImageCallStates, answered.pc \notin {"await", "probe"},
         FetchBytes(c, key, speculative, original, waiting, answered),
         cacheBytes' = cacheBytes, now' = now,
         probes' \in Seq(Probes) /\ Len(probes') <= MaxProbes
  PROVE  ImInv'
  <1> DEFINE served == ~original /\ (EntryOf(completed, key) # {} \/ IsCompleted(key))
             skipped == Skippable(key, speculative)
  <1>1. /\ skips' = AfterPolicy(key, speculative)
        /\ completed' = IF ~skipped /\ served THEN AfterServing(key) ELSE completed
        /\ flights' = IF skipped \/ served \/ \E f \in flights : f.key = key THEN flights
                      ELSE flights \cup {[key |-> key, speculative |-> speculative, original |-> original]}
        /\ imageCall' = [imageCall EXCEPT ![c] = IF skipped \/ served THEN answered ELSE waiting]
    BY DEF FetchBytes, Looks, Goes
  <1> HIDE DEF served, skipped
  <1>2. /\ ImTypeOK /\ CacheAddsUp /\ AwaitedIsFetched
        /\ completed \in Seq(Images) /\ Distinct(completed)
        /\ cacheBytes \in Nat /\ now \in 0..LastTime
        /\ flights \subseteq Flights /\ imageCall \in [ImageCalls -> ImageCallStates]
    BY ImTypesAre, CacheIs DEF ImInv
  <1>3. completed' = completed \/ completed' = AfterServing(key)
    BY <1>1
  <1>4. /\ completed' \in Seq(Images) /\ Distinct(completed')
        /\ BytesOf(completed') = BytesOf(completed) /\ Len(completed') = Len(completed)
    BY <1>2, <1>3, ServingKeeps
  <1>5. CacheAddsUp'
    <2>1. /\ cacheBytes = BytesOf(completed) /\ Len(completed) <= MaxImages
          /\ cacheBytes <= MaxImageBytes
      BY <1>2, CacheIs
    <2>2. /\ cacheBytes' = BytesOf(completed') /\ Distinct(completed')
          /\ Len(completed') <= MaxImages /\ cacheBytes' <= MaxImageBytes
      BY <1>4, <2>1
    <2> QED BY <2>2 DEF CacheAddsUp, Distinct
  <1>6. flights' \subseteq Flights
    BY <1>1, <1>2 DEF Flights
  <1>7. imageCall' \in [ImageCalls -> ImageCallStates]
    BY <1>1, <1>2
  <1>8. skips' \in Seq(Skips) /\ Len(skips') <= MaxSkips
    BY <1>1, <1>2, PolicyKeepsBounds
  <1>9. ImTypeOK'
    BY <1>2, <1>4, <1>6, <1>7, <1>8 DEF ImTypeOK, Images, Skips, Probes, Flights, ImageCallStates
  <1>10. AwaitedIsFetched'
    <2>1. ASSUME NEW d \in ImageCalls, imageCall'[d].pc \in {"await", "probe"}
          PROVE  \E f \in flights' : f.key = imageCall'[d].key
      <3>1. flights \subseteq flights'
        BY <1>1
      <3>2. CASE d # c
        <4>1. imageCall'[d] = imageCall[d]
          BY <1>1, <1>2, <3>2
        <4> QED BY <1>2, <2>1, <3>1, <4>1 DEF AwaitedIsFetched
      <3>3. CASE d = c
        <4>1. imageCall'[c] = waiting /\ ~(skipped \/ served)
          BY <1>1, <1>2, <2>1, <3>3
        <4>2. \E f \in flights' : f.key = key
          <5>1. CASE \E f \in flights : f.key = key
            BY <3>1, <5>1
          <5>2. CASE ~\E f \in flights : f.key = key
            <6> DEFINE new == [key |-> key, speculative |-> speculative, original |-> original]
            <6>1. new \in flights' /\ new.key = key
              BY <1>1, <4>1, <5>2
            <6> QED BY <6>1
          <5> QED BY <5>1, <5>2
        <4> QED BY <3>3, <4>1, <4>2
      <3> QED BY <3>2, <3>3
    <2>2. ASSUME NEW f \in flights', NEW g \in flights', f.key = g.key
          PROVE  f = g
      <3>1. CASE flights' = flights
        BY <1>2, <2>2, <3>1 DEF AwaitedIsFetched
      <3>2. CASE flights' # flights
        <4> DEFINE new == [key |-> key, speculative |-> speculative, original |-> original]
        <4>1. (f \in flights \/ f = new) /\ (g \in flights \/ g = new) /\ \A h \in flights : h.key # key
          BY <1>1, <3>2
        <4>2. new.key = key
          OBVIOUS
        <4> HIDE DEF new
        <4> QED BY <1>2, <2>2, <4>1, <4>2 DEF AwaitedIsFetched
      <3> QED BY <3>1, <3>2
    <2> QED BY <2>1, <2>2 DEF AwaitedIsFetched
  <1> QED BY <1>5, <1>9, <1>10 DEF ImInv

\* Steps that leave the images, the fetches and who waits for them alone.
LEMMA BesideSteps ==
  ASSUME ImInv,
         UNCHANGED <<completed, cacheBytes, flights>>,
         skips' \in Seq(Skips) /\ Len(skips') <= MaxSkips,
         probes' \in Seq(Probes) /\ Len(probes') <= MaxProbes,
         imageCall' \in [ImageCalls -> ImageCallStates],
         \A c \in ImageCalls : imageCall'[c] = imageCall[c] \/ imageCall'[c].pc \notin {"await", "probe"},
         now' \in 0..LastTime
  PROVE  ImInv'
  <1>1. ImTypeOK /\ CacheAddsUp /\ AwaitedIsFetched
    BY DEF ImInv
  <1>2. ImTypeOK'
    BY <1>1 DEF ImTypeOK, Skips, Probes, ImageCallStates
  <1>3. CacheAddsUp'
    BY <1>1 DEF CacheAddsUp
  <1>4. AwaitedIsFetched'
    BY <1>1 DEF AwaitedIsFetched
  <1> QED BY <1>2, <1>3, <1>4 DEF ImInv

LEMMA FetchSteps ==
  ASSUME ImInv, NEW c \in ImageCalls, NEW r \in ImageRequest, Fetch(c, r)
  PROVE  ImInv'
  <1>1. r.key \in ImageKeys /\ r.speculative \in BOOLEAN /\ r.original \in BOOLEAN
    BY DEF ImageRequest
  <1> DEFINE waiting == [pc |-> "await", key |-> r.key]
  <1>2. /\ FetchBytes(c, r.key, r.speculative, r.original, waiting, NoImageCall)
        /\ cacheBytes' = cacheBytes /\ probes' = probes /\ now' = now
    BY DEF Fetch
  <1>3. /\ waiting \in ImageCallStates /\ waiting.pc = "await" /\ waiting.key = r.key
        /\ NoImageCall \in ImageCallStates /\ NoImageCall.pc = "none"
    BY <1>1 DEF ImageCallStates, NoImageCall
  <1>4. probes' \in Seq(Probes) /\ Len(probes') <= MaxProbes
    BY <1>2, ImTypesAre DEF ImInv
  <1> HIDE DEF waiting
  <1>5. waiting.pc \in {"await", "probe"} /\ NoImageCall.pc \notin {"await", "probe"}
    BY <1>3
  <1> QED BY <1>1, <1>2, <1>3, <1>4, <1>5, FetchBytesSteps

LEMMA ProbeSteps ==
  ASSUME ImInv, NEW c \in ImageCalls, NEW p \in ProbeKeys, Probe(c, p)
  PROVE  ImInv'
  <1>1. /\ probes \in Seq(Probes) /\ Len(probes) <= MaxProbes /\ MaxProbes \in Nat
        /\ skips \in Seq(Skips) /\ Len(skips) <= MaxSkips
        /\ imageCall \in [ImageCalls -> ImageCallStates] /\ now \in 0..LastTime
    BY ImTypesAre, CacheBoundsAssumption DEF ImInv
  <1>2. p.key \in ImageKeys
    BY DEF ProbeKeys
  <1>3. probes' = Without(probes, p) /\ cacheBytes' = cacheBytes /\ now' = now
    BY DEF Probe
  <1>4. probes' \in Seq(Probes) /\ Len(probes') <= MaxProbes
    <2>1. PICK M \in Nat : M = Len(probes)
      BY <1>1
    <2>2. Without(probes, p) \in Seq(Probes) /\ Len(Without(probes, p)) <= M
      BY <1>1, <2>1, CacheOperations
    <2>3. Len(Without(probes, p)) \in Nat
      BY <2>2
    <2> QED BY <1>1, <1>3, <2>1, <2>2, <2>3
  <1>5. CASE p.method = "head"
    <2>1. /\ imageCall' = [imageCall EXCEPT ![c] = [pc |-> "head", probe |-> p]]
          /\ UNCHANGED <<completed, skips, flights>>
      BY <1>5 DEF Probe, Goes
    <2>2. [pc |-> "head", probe |-> p] \in ImageCallStates
      BY DEF ImageCallStates
    <2> QED BY <1>1, <1>3, <1>4, <2>1, <2>2, BesideSteps
  <1>6. CASE p.method # "head"
    <2> DEFINE waiting == [pc |-> "probe", key |-> p.key, probe |-> p]
               answered == [pc |-> "probed", probe |-> p]
    <2>1. FetchBytes(c, p.key, TRUE, FALSE, waiting, answered)
      BY <1>6 DEF Probe
    <2>2. /\ waiting \in ImageCallStates /\ waiting.pc \in {"await", "probe"} /\ waiting.key = p.key
          /\ answered \in ImageCallStates /\ answered.pc \notin {"await", "probe"}
      BY <1>2 DEF ImageCallStates
    <2> HIDE DEF waiting, answered
    <2> QED BY <1>2, <1>3, <1>4, <2>1, <2>2, FetchBytesSteps
  <1> QED BY <1>5, <1>6

\* A fetch that ends releases all that wait for its key, and nobody else.
LEMMA FetchEndSteps ==
  ASSUME ImInv, NEW f \in flights, FetchEnds(f)
  PROVE  ImInv'
  <1>1. /\ ImTypeOK /\ CacheAddsUp /\ AwaitedIsFetched
        /\ completed \in Seq(Images) /\ Distinct(completed) /\ cacheBytes \in Nat
        /\ cacheBytes = BytesOf(completed)
        /\ skips \in Seq(Skips) /\ Len(skips) <= MaxSkips
        /\ probes \in Seq(Probes) /\ Len(probes) <= MaxProbes
        /\ flights \subseteq Flights /\ imageCall \in [ImageCalls -> ImageCallStates]
        /\ now \in 0..LastTime
    BY ImTypesAre, CacheIs DEF ImInv
  <1>2. f.key \in ImageKeys /\ f.original \in BOOLEAN
    BY <1>1 DEF Flights
  <1>3. /\ flights' = flights \ {f} /\ now' = now
        /\ imageCall' = [c \in ImageCalls |->
             CASE imageCall[c].pc = "await" /\ imageCall[c].key = f.key -> NoImageCall
               [] imageCall[c].pc = "probe" /\ imageCall[c].key = f.key ->
                    [pc |-> "probed", probe |-> imageCall[c].probe]
               [] OTHER -> imageCall[c]]
    BY DEF FetchEnds
  <1>4. \A c \in ImageCalls :
          /\ imageCall'[c] \in ImageCallStates
          /\ imageCall'[c].pc \in {"await", "probe"} =>
               imageCall'[c] = imageCall[c] /\ imageCall[c].key # f.key
    <2> SUFFICES ASSUME NEW c \in ImageCalls
                 PROVE  /\ imageCall'[c] \in ImageCallStates
                        /\ imageCall'[c].pc \in {"await", "probe"} =>
                             imageCall'[c] = imageCall[c] /\ imageCall[c].key # f.key
      OBVIOUS
    <2>1. imageCall[c] \in ImageCallStates
      BY <1>1
    <2>2. CASE imageCall[c].pc = "await" /\ imageCall[c].key = f.key
      <3>1. imageCall'[c] = NoImageCall
        BY <1>3, <2>2
      <3> QED BY <3>1 DEF NoImageCall, ImageCallStates
    <2>3. CASE imageCall[c].pc = "probe" /\ imageCall[c].key = f.key
      <3>1. imageCall'[c] = [pc |-> "probed", probe |-> imageCall[c].probe]
        BY <1>3, <2>3
      <3>2. imageCall[c].probe \in ProbeKeys
        BY <2>1, <2>3 DEF ImageCallStates, NoImageCall
      <3> QED BY <3>1, <3>2 DEF ImageCallStates
    <2>4. CASE /\ ~(imageCall[c].pc = "await" /\ imageCall[c].key = f.key)
               /\ ~(imageCall[c].pc = "probe" /\ imageCall[c].key = f.key)
      <3>1. imageCall'[c] = imageCall[c]
        BY <1>3, <2>4
      <3> QED BY <2>1, <2>4, <3>1
    <2> QED BY <2>2, <2>3, <2>4
  <1>5. imageCall' \in [ImageCalls -> ImageCallStates]
    BY <1>3, <1>4
  <1>6. AwaitedIsFetched'
    <2>1. ASSUME NEW c \in ImageCalls, imageCall'[c].pc \in {"await", "probe"}
          PROVE  \E g \in flights' : g.key = imageCall'[c].key
      <3>1. imageCall'[c] = imageCall[c] /\ imageCall[c].key # f.key
        BY <1>4, <2>1
      <3>2. PICK g \in flights : g.key = imageCall[c].key
        BY <1>1, <2>1, <3>1 DEF AwaitedIsFetched
      <3>3. g \in flights'
        BY <1>3, <3>1, <3>2
      <3> QED BY <3>1, <3>2, <3>3
    <2>2. \A g, h \in flights' : g.key = h.key => g = h
      BY <1>1, <1>3 DEF AwaitedIsFetched
    <2> QED BY <2>1, <2>2 DEF AwaitedIsFetched
  <1>7. /\ completed' \in Seq(Images) /\ Distinct(completed') /\ cacheBytes' \in Nat
        /\ cacheBytes' = BytesOf(completed')
        /\ Len(completed') <= MaxImages /\ cacheBytes' <= MaxImageBytes
        /\ skips' \in Seq(Skips) /\ Len(skips') <= MaxSkips
        /\ probes' \in Seq(Probes) /\ Len(probes') <= MaxProbes
    <2>1. CASE \E bytes \in {b \in Sizes : b <= BudgetOf[f.key.budget]} :
                 LET cache == WithCompleted(f.key, bytes)
                 IN /\ completed' = IF f.original THEN completed ELSE cache.images
                    /\ cacheBytes' = IF f.original THEN cacheBytes ELSE cache.account
                    /\ UNCHANGED <<skips, probes>>
      <3>1. PICK bytes \in Sizes :
              /\ completed' = IF f.original THEN completed ELSE WithCompleted(f.key, bytes).images
              /\ cacheBytes' = IF f.original THEN cacheBytes ELSE WithCompleted(f.key, bytes).account
              /\ skips' = skips /\ probes' = probes
        BY <2>1
      <3>2. LET cache == WithCompleted(f.key, bytes)
            IN  /\ cache.images \in Seq(Images) /\ Distinct(cache.images)
                /\ cache.account \in Nat /\ cache.account = BytesOf(cache.images)
                /\ Len(cache.images) <= MaxImages /\ cache.account <= MaxImageBytes
        BY <1>1, <1>2, InsertionAddsUp
      <3>3. Len(completed) <= MaxImages /\ cacheBytes <= MaxImageBytes
        BY <1>1, CacheIs
      <3> QED BY <1>1, <3>1, <3>2, <3>3
    <2>2. CASE /\ IF f.speculative THEN RememberFailure(f.key) ELSE UNCHANGED <<skips, probes>>
               /\ UNCHANGED <<completed, cacheBytes>>
      <3>1. \/ skips' = WithSkip(f.key) /\ probes' = FreshOf(probes)
            \/ skips' = skips /\ probes' = probes
        BY <2>2 DEF RememberFailure
      <3>2. /\ skips' \in Seq(Skips) /\ Len(skips') <= MaxSkips
            /\ probes' \in Seq(Probes) /\ Len(probes') <= MaxProbes
        BY <1>1, <1>2, <3>1, InsertionsAreBounded
      <3> QED BY <1>1, <2>2, <3>2, CacheIs
    <2> QED BY <2>1, <2>2 DEF FetchEnds
  <1>8. CacheAddsUp'
    BY <1>7 DEF CacheAddsUp, Distinct
  <1>9. flights' \subseteq Flights
    BY <1>1, <1>3
  <1>10. ImTypeOK'
    BY <1>1, <1>3, <1>5, <1>7, <1>9 DEF ImTypeOK, Images, Skips, Probes, Flights, ImageCallStates
  <1> QED BY <1>6, <1>8, <1>10 DEF ImInv

LEMMA ImStep ==
  ASSUME ImInv, [ImNext]_imVars
  PROVE  ImInv'
  <1>1. /\ skips \in Seq(Skips) /\ Len(skips) <= MaxSkips
        /\ probes \in Seq(Probes) /\ Len(probes) <= MaxProbes
        /\ imageCall \in [ImageCalls -> ImageCallStates] /\ now \in 0..LastTime
        /\ MaxProbes \in Nat /\ LastTime \in Nat
        /\ ImTypeOK
    BY ImTypesAre, CacheBoundsAssumption DEF ImInv
  <1>2. /\ FreshOf(skips) \in Seq(Skips) /\ Len(FreshOf(skips)) <= MaxSkips
        /\ \A k \in ImageKeys : WithSkip(k) \in Seq(Skips) /\ Len(WithSkip(k)) <= MaxSkips
        /\ \A p \in ProbeKeys : WithProbe(p) \in Seq(Probes) /\ Len(WithProbe(p)) <= MaxProbes
    BY <1>1, InsertionsAreBounded
  <1>3. NoImageCall \in ImageCallStates /\ NoImageCall.pc \notin {"await", "probe"}
    BY DEF ImageCallStates, NoImageCall
  <1>4. ASSUME NEW c \in ImageCalls, NEW r \in ImageRequest, Fetch(c, r) PROVE ImInv'
    BY <1>4, FetchSteps
  <1>5. ASSUME NEW c \in ImageCalls, NEW p \in ProbeKeys, Probe(c, p) PROVE ImInv'
    BY <1>5, ProbeSteps
  <1>6. ASSUME NEW c \in ImageCalls, ProbeEnds(c) PROVE ImInv'
    <2>1. /\ imageCall[c].pc \in {"probe", "probed"}
          /\ probes' = WithProbe(imageCall[c].probe) /\ skips' = FreshOf(skips)
          /\ imageCall' = [imageCall EXCEPT ![c] = NoImageCall]
          /\ UNCHANGED <<completed, cacheBytes, flights>> /\ now' = now
      BY <1>6 DEF ProbeEnds, Goes
    <2>2. imageCall[c].probe \in ProbeKeys
      BY <1>1, <2>1 DEF ImageCallStates, NoImageCall
    <2>3. /\ imageCall' \in [ImageCalls -> ImageCallStates]
          /\ \A d \in ImageCalls : imageCall'[d] = imageCall[d] \/ imageCall'[d].pc \notin {"await", "probe"}
      BY <1>1, <1>3, <2>1
    <2> QED BY <1>1, <1>2, <2>1, <2>2, <2>3, BesideSteps
  <1>7. ASSUME NEW c \in ImageCalls, HeadEnds(c) PROVE ImInv'
    <2>1. /\ imageCall[c].pc = "head"
          /\ probes' = WithProbe(imageCall[c].probe)
          /\ skips' \in {FreshOf(skips), WithSkip(imageCall[c].probe.key)}
          /\ imageCall' = [imageCall EXCEPT ![c] = NoImageCall]
          /\ UNCHANGED <<completed, cacheBytes, flights>> /\ now' = now
      BY <1>7 DEF HeadEnds, Goes
    <2>2. imageCall[c].probe \in ProbeKeys
      BY <1>1, <2>1 DEF ImageCallStates, NoImageCall
    <2>3. imageCall[c].probe.key \in ImageKeys
      BY <2>2 DEF ProbeKeys
    <2>4. /\ imageCall' \in [ImageCalls -> ImageCallStates]
          /\ \A d \in ImageCalls : imageCall'[d] = imageCall[d] \/ imageCall'[d].pc \notin {"await", "probe"}
      BY <1>1, <1>3, <2>1
    <2>5. skips' \in Seq(Skips) /\ Len(skips') <= MaxSkips
      BY <1>2, <2>1, <2>3
    <2> QED BY <1>1, <1>2, <2>1, <2>2, <2>4, <2>5, BesideSteps
  <1>8. ASSUME NEW p \in ProbeKeys, ProbeKnown(p) PROVE ImInv'
    <2>1. /\ probes' = Renewed(probes, p)
          /\ UNCHANGED <<completed, cacheBytes, flights>> /\ skips' = skips
          /\ imageCall' = imageCall /\ now' = now
      BY <1>8 DEF ProbeKnown
    <2>2. probes' \in Seq(Probes) /\ Len(probes') <= MaxProbes
      BY <1>1, <2>1, CacheOperations
    <2> QED BY <1>1, <2>1, <2>2, BesideSteps
  <1>9. ASSUME NEW k \in ImageKeys, CheckPolicy(k) PROVE ImInv'
    <2>1. /\ skips' = AfterPolicy(k, TRUE)
          /\ UNCHANGED <<completed, cacheBytes, flights>> /\ probes' = probes
          /\ imageCall' = imageCall /\ now' = now
      BY <1>9 DEF CheckPolicy, Looks
    <2>2. skips' \in Seq(Skips) /\ Len(skips') <= MaxSkips
      BY <1>1, <2>1, PolicyKeepsBounds
    <2> QED BY <1>1, <2>1, <2>2, BesideSteps
  <1>10. ASSUME NEW f \in flights, FetchEnds(f) PROVE ImInv'
    BY <1>10, FetchEndSteps
  <1>11. ASSUME NEW contexts, ClearProbes(contexts) PROVE ImInv'
    <2> DEFINE I == {i \in DOMAIN probes : probes[i].key.context \notin contexts}
    <2>1. /\ probes' = Picked(probes, I)
          /\ UNCHANGED <<completed, cacheBytes, flights>> /\ skips' = skips
          /\ imageCall' = imageCall /\ now' = now
      BY <1>11 DEF ClearProbes, Filter
    <2>2. I \subseteq DOMAIN probes
      OBVIOUS
    <2> HIDE DEF I
    <2>3. PICK M \in Nat : M = Len(probes)
      BY <1>1
    <2>4. probes' \in Seq(Probes) /\ Len(probes') <= M /\ Len(probes') \in Nat
      BY <1>1, <2>1, <2>2, <2>3, FilterIs
    <2>5. Len(probes') <= MaxProbes
      BY <1>1, <2>3, <2>4
    <2> QED BY <1>1, <2>1, <2>4, <2>5, BesideSteps
  <1>12. ASSUME ImTick PROVE ImInv'
    <2>1. /\ UNCHANGED <<completed, cacheBytes, flights>> /\ skips' = skips /\ probes' = probes
          /\ imageCall' = imageCall /\ now' = now + 1 /\ now < LastTime
      BY <1>12 DEF ImTick
    <2>2. now' \in 0..LastTime
      BY <1>1, <2>1
    <2> QED BY <1>1, <2>1, <2>2, BesideSteps
  <1>13. CASE UNCHANGED imVars
    <2>1. /\ UNCHANGED <<completed, cacheBytes, flights>> /\ skips' = skips /\ probes' = probes
          /\ imageCall' = imageCall /\ now' = now
      BY <1>13 DEF imVars
    <2> QED BY <1>1, <2>1, BesideSteps
  <1> QED BY <1>4, <1>5, <1>6, <1>7, <1>8, <1>9, <1>10, <1>11, <1>12, <1>13 DEF ImNext

THEOREM ImagesInv == ImSpec => []ImInv
  <1>1. ImInit => ImInv
    <2> SUFFICES ASSUME ImInit PROVE ImInv
      OBVIOUS
    <2>1. ImTypeOK
      BY CacheBoundsAssumption DEF ImInit, ImTypeOK, NoImageCall
    <2>2. CacheAddsUp
      BY CacheBoundsAssumption, FewWeigh DEF ImInit, CacheAddsUp
    <2>3. AwaitedIsFetched
      BY DEF ImInit, AwaitedIsFetched, NoImageCall
    <2> QED BY <2>1, <2>2, <2>3 DEF ImInv
  <1>2. ImInv /\ [ImNext]_imVars => ImInv'
    BY ImStep
  <1> QED BY <1>1, <1>2, PTL DEF ImSpec

\* The caches, the fetches in flight and the calls keep their types, and the bounds of
\* the failures and of the probes' answers hold.
THEOREM ImageTypes == ImSpec => []ImTypeOK
  <1>1. ImInv => ImTypeOK
    BY DEF ImInv
  <1> QED BY <1>1, ImagesInv, PTL

\* For any keys, sizes and bounds: the account that the cache of completed images
\* keeps by hand is what its images weigh, and neither bound is exceeded.
THEOREM AccountIsTrue == ImSpec => []CacheAddsUp
  <1>1. ImInv => CacheAddsUp
    BY DEF ImInv
  <1> QED BY <1>1, ImagesInv, PTL

\* Whoever awaits an image has its fetch in flight, and no key has two.
THEOREM WaitersAreFetched == ImSpec => []AwaitedIsFetched
  <1>1. ImInv => AwaitedIsFetched
    BY DEF ImInv
  <1> QED BY <1>1, ImagesInv, PTL

-------------------------------------------------------------------------------
(* The recents: the last chained write is what the worker has, and whatever *)
(* the worker has, writes or stored is in the order of its views.           *)

Held == [sequence |-> sequence, bySite |-> bySite]
HistoryCallStates ==
  {AtRest}
    \cup [pc: {"change"}, request: HistoryRequests, policy: Policies]
    \cup [pc: {"promote"}, request: HistoryRequests, candidates: Seq(Entries), remove: SUBSET Items]
    \cup [pc: {"prune"}, policy: Policies]

Same(d, e) == d.item = e.item /\ d.sequence = e.sequence

Ordered(h) ==
  /\ \A s \in Sites : \A i, j \in DOMAIN h.bySite[s] :
       i < j => /\ h.bySite[s][i].sequence > h.bySite[s][j].sequence
                /\ h.bySite[s][i].item # h.bySite[s][j].item
  /\ \A s, t \in Sites : \A i \in DOMAIN h.bySite[s], j \in DOMAIN h.bySite[t] :
       h.bySite[s][i].sequence = h.bySite[t][j].sequence => s = t
  /\ \A s \in Sites : \A i \in DOMAIN h.bySite[s] : h.bySite[s][i].sequence <= h.sequence

LastWriteIsLatest ==
  /\ hydrated /\ writes # <<>> => writes[Len(writes)] = Held
  /\ hydrated /\ writes = <<>> /\ ~missed => stored = Held
  /\ ~hydrated => /\ writes = <<>> /\ bySite = Empty /\ sequence = 0
                  /\ \A c \in HistoryCalls : historyCall[c] = AtRest

HistoriesAreOrdered ==
  Ordered(Held) /\ Ordered(stored) /\ \A i \in DOMAIN writes : Ordered(writes[i])

RhInv == RhTypeOK /\ LastWriteIsLatest /\ HistoriesAreOrdered

LEMMA RhTypesAre ==
  RhTypeOK <=> /\ Held \in Histories /\ stored \in Histories
               /\ writes \in Seq(Histories) /\ Len(writes) <= MaxWrites
               /\ hydrated \in BOOLEAN /\ missed \in BOOLEAN
               /\ settings \in Policies
               /\ historyCall \in [HistoryCalls -> HistoryCallStates]
               /\ pinned \subseteq Items /\ writeFaults \in 0..MaxWriteFaults
  BY DEF RhTypeOK, Held, HistoryCallStates

LEMMA HistoriesAre ==
  /\ \A h \in Histories : /\ h.sequence \in 0..MaxViews /\ h.sequence \in Nat
                           /\ h.bySite \in [Sites -> Seq(Entries)]
                           /\ h = [sequence |-> h.sequence, bySite |-> h.bySite]
  /\ \A n \in 0..MaxViews, r \in [Sites -> Seq(Entries)] :
       [sequence |-> n, bySite |-> r] \in Histories
  /\ \A e \in Entries : e.item \in Items /\ e.sequence \in 1..MaxViews /\ e.sequence \in Nat
  <1>1. \A n \in 0..MaxViews : n \in Nat
    BY HistoryBoundsAssumption
  <1>2. \A h \in Histories : /\ h.sequence \in 0..MaxViews
                             /\ h.bySite \in [Sites -> Seq(Entries)]
                             /\ h = [sequence |-> h.sequence, bySite |-> h.bySite]
    BY DEF Histories
  <1>3. \A n \in 0..MaxViews, r \in [Sites -> Seq(Entries)] :
          [sequence |-> n, bySite |-> r] \in Histories
    BY DEF Histories
  <1>4. \A e \in Entries : e.item \in Items /\ e.sequence \in 1..MaxViews /\ e.sequence \in Nat
    BY HistoryBoundsAssumption DEF Entries
  <1> QED BY <1>1, <1>2, <1>3, <1>4

\* An array thins another when its entries are entries of the other, in its order.
Thins(p, q) ==
  /\ \A m \in DOMAIN p : \E i \in DOMAIN q : Same(p[m], q[i])
  /\ \A m, n \in DOMAIN p : m < n =>
       \E i, j \in DOMAIN q : i < j /\ Same(p[m], q[i]) /\ Same(p[n], q[j])

LEMMA FilterThins ==
  ASSUME NEW q \in Seq(Entries), NEW I, I \subseteq DOMAIN q
  PROVE  /\ Picked(q, I) \in Seq(Entries) /\ Thins(Picked(q, I), q)
         /\ \A m \in DOMAIN Picked(q, I) : \E i \in I : Picked(q, I)[m] = q[i]
  <1>1. /\ Picked(q, I) \in Seq(Entries)
        /\ \A m \in 1..Len(Picked(q, I)) : \E i \in I : Picked(q, I)[m] = q[i]
        /\ \A m, n \in 1..Len(Picked(q, I)) : m < n =>
              \E i, j \in I : i < j /\ Picked(q, I)[m] = q[i] /\ Picked(q, I)[n] = q[j]
    BY FilterIs
  <1>2. DOMAIN Picked(q, I) = 1..Len(Picked(q, I))
    BY <1>1
  <1> DEFINE p == Picked(q, I)
  <1>3. /\ \A m \in DOMAIN p : \E i \in I : p[m] = q[i]
        /\ \A m, n \in DOMAIN p : m < n => \E i, j \in I : i < j /\ p[m] = q[i] /\ p[n] = q[j]
    BY <1>1, <1>2
  <1> HIDE DEF p
  <1>4. Thins(p, q)
    <2>1. \A m \in DOMAIN p : \E i \in DOMAIN q : Same(p[m], q[i])
      BY <1>3 DEF Same
    <2>2. ASSUME NEW m \in DOMAIN p, NEW n \in DOMAIN p, m < n
          PROVE  \E i, j \in DOMAIN q : i < j /\ Same(p[m], q[i]) /\ Same(p[n], q[j])
      <3>1. PICK i \in I, j \in I : i < j /\ p[m] = q[i] /\ p[n] = q[j]
        BY <1>3, <2>2
      <3>2. i \in DOMAIN q /\ j \in DOMAIN q /\ Same(p[m], q[i]) /\ Same(p[n], q[j])
        BY <3>1 DEF Same
      <3> QED BY <3>1, <3>2
    <2> QED BY <2>1, <2>2 DEF Thins
  <1> QED BY <1>1, <1>3, <1>4 DEF p

LEMMA FirstThins ==
  ASSUME NEW q \in Seq(Entries), NEW n \in Nat
  PROVE  First(q, n) \in Seq(Entries) /\ Thins(First(q, n), q)
  <1>1. PICK L \in Nat : L = Len(q) /\ DOMAIN q = 1..L
    OBVIOUS
  <1> DEFINE k == IF L < n THEN L ELSE n
  <1>2. k \in Nat /\ k <= L /\ First(q, n) = SubSeq(q, 1, k)
    BY <1>1 DEF First
  <1> HIDE DEF k
  <1>3. \A i \in 1..k : q[i] \in Entries /\ i \in 1..L
    BY <1>1, <1>2
  <1>4. /\ SubSeq(q, 1, k) \in Seq(Entries) /\ DOMAIN SubSeq(q, 1, k) = 1..k
        /\ \A i \in 1..k : SubSeq(q, 1, k)[i] = q[i]
    BY <1>2, <1>3, SubSeqProperties
  <1> DEFINE p == SubSeq(q, 1, k)
  <1>5. Thins(p, q)
    <2>1. DOMAIN p = 1..k /\ \A i \in 1..k : p[i] = q[i] /\ i \in DOMAIN q
      BY <1>1, <1>3, <1>4
    <2> HIDE DEF p
    <2>2. \A i \in DOMAIN p : i \in DOMAIN q /\ Same(p[i], q[i])
      BY <2>1 DEF Same
    <2> QED BY <2>2 DEF Thins
  <1> QED BY <1>2, <1>4, <1>5

LEMMA ThinnedIsOrdered ==
  ASSUME NEW g \in Histories, NEW h \in Histories, Ordered(g), h.sequence >= g.sequence,
         \A s \in Sites : Thins(h.bySite[s], g.bySite[s])
  PROVE  Ordered(h)
  <1>1. /\ \A s \in Sites : \A i \in DOMAIN g.bySite[s] : g.bySite[s][i].sequence \in Nat
        /\ \A s \in Sites : \A i \in DOMAIN h.bySite[s] : h.bySite[s][i].sequence \in Nat
        /\ g.sequence \in Nat /\ h.sequence \in Nat
    BY HistoriesAre
  <1>2. ASSUME NEW s \in Sites, NEW m \in DOMAIN h.bySite[s], NEW n \in DOMAIN h.bySite[s], m < n
        PROVE  /\ h.bySite[s][m].sequence > h.bySite[s][n].sequence
               /\ h.bySite[s][m].item # h.bySite[s][n].item
    <2>1. PICK i \in DOMAIN g.bySite[s], j \in DOMAIN g.bySite[s] :
            i < j /\ Same(h.bySite[s][m], g.bySite[s][i]) /\ Same(h.bySite[s][n], g.bySite[s][j])
      BY <1>2 DEF Thins
    <2>2. g.bySite[s][i].sequence > g.bySite[s][j].sequence /\ g.bySite[s][i].item # g.bySite[s][j].item
      BY <2>1 DEF Ordered
    <2> QED BY <2>1, <2>2 DEF Same
  <1>3. ASSUME NEW s \in Sites, NEW t \in Sites, NEW m \in DOMAIN h.bySite[s], NEW n \in DOMAIN h.bySite[t],
               h.bySite[s][m].sequence = h.bySite[t][n].sequence
        PROVE  s = t
    <2>1. PICK i \in DOMAIN g.bySite[s] : Same(h.bySite[s][m], g.bySite[s][i])
      BY DEF Thins
    <2>2. PICK j \in DOMAIN g.bySite[t] : Same(h.bySite[t][n], g.bySite[t][j])
      BY DEF Thins
    <2>3. g.bySite[s][i].sequence = g.bySite[t][j].sequence
      BY <1>3, <2>1, <2>2 DEF Same
    <2> QED BY <2>3 DEF Ordered
  <1>4. ASSUME NEW s \in Sites, NEW m \in DOMAIN h.bySite[s]
        PROVE  h.bySite[s][m].sequence <= h.sequence
    <2>1. PICK i \in DOMAIN g.bySite[s] : Same(h.bySite[s][m], g.bySite[s][i])
      BY DEF Thins
    <2>2. PICK a \in Nat, b \in Nat, d \in Nat :
            a = g.bySite[s][i].sequence /\ b = g.sequence /\ d = h.sequence
      BY <1>1
    <2>3. a <= b
      BY <2>2 DEF Ordered
    <2>4. a <= d
      BY <2>2, <2>3
    <2> QED BY <2>1, <2>2, <2>4 DEF Same
  <1> QED BY <1>2, <1>3, <1>4 DEF Ordered

LEMMA ThinsItself ==
  ASSUME NEW q PROVE Thins(q, q)
  BY DEF Thins, Same

\* The newest view goes before the entries that stay.
LEMMA AddedIsOrdered ==
  ASSUME NEW h \in Histories, Ordered(h), h.sequence < MaxViews,
         NEW site \in Sites, NEW entry \in Entries, entry.sequence = h.sequence + 1,
         NEW q \in Seq(Entries), Thins(q, h.bySite[site]),
         \A i \in DOMAIN q : q[i].item # entry.item
  PROVE  /\ <<entry>> \o q \in Seq(Entries)
         /\ [sequence |-> h.sequence + 1, bySite |-> [h.bySite EXCEPT ![site] = <<entry>> \o q]] \in Histories
         /\ Ordered([sequence |-> h.sequence + 1, bySite |-> [h.bySite EXCEPT ![site] = <<entry>> \o q]])
  <1>1. PICK N \in Nat : N = h.sequence /\ N < MaxViews
    BY HistoriesAre
  <1>2. h.bySite \in [Sites -> Seq(Entries)] /\ N + 1 \in 0..MaxViews
    BY <1>1, HistoriesAre, HistoryBoundsAssumption
  <1>3. PICK L \in Nat : L = Len(q) /\ DOMAIN q = 1..L
    OBVIOUS
  <1> DEFINE p == <<entry>> \o q
             g == [sequence |-> N + 1, bySite |-> [h.bySite EXCEPT ![site] = p]]
  <1>4. /\ p \in Seq(Entries) /\ DOMAIN p = 1..(L + 1) /\ p[1] = entry
        /\ \A i \in 1..L : p[i + 1] = q[i]
    BY <1>3
  <1> HIDE DEF p
  <1>5. /\ g \in Histories /\ g.sequence = N + 1 /\ g.bySite[site] = p
        /\ \A s \in Sites : s # site => g.bySite[s] = h.bySite[s]
    BY <1>2, <1>4, HistoriesAre
  <1> HIDE DEF g
  <1>6. /\ \A s \in Sites : \A i \in DOMAIN h.bySite[s] :
             h.bySite[s][i].sequence \in Nat /\ h.bySite[s][i].sequence <= N
        /\ \A i \in 1..L : q[i].sequence \in Nat /\ q[i].sequence <= N
    <2>1. \A s \in Sites : \A i \in DOMAIN h.bySite[s] :
             h.bySite[s][i].sequence \in Nat /\ h.bySite[s][i].sequence <= N
      BY <1>1, <1>2, HistoriesAre DEF Ordered
    <2>2. ASSUME NEW i \in 1..L PROVE q[i].sequence \in Nat /\ q[i].sequence <= N
      <3>1. PICK k \in DOMAIN h.bySite[site] : Same(q[i], h.bySite[site][k])
        BY <1>3 DEF Thins
      <3> QED BY <2>1, <3>1 DEF Same
    <2> QED BY <2>1, <2>2
  \* An entry of p is the newest, or one of q and so one of the site's.
  <1>7. ASSUME NEW i \in DOMAIN p
        PROVE  \/ i = 1 /\ p[i] = entry
               \/ \E k \in 1..L : k + 1 = i /\ p[i] = q[k]
    <2>1. i = 1 \/ (i - 1 \in 1..L /\ (i - 1) + 1 = i)
      BY <1>4
    <2> QED BY <1>4, <2>1
  <1>8. ASSUME NEW i \in DOMAIN p, NEW j \in DOMAIN p, i < j
        PROVE  p[i].sequence > p[j].sequence /\ p[i].item # p[j].item
    <2>1. PICK l \in 1..L : l + 1 = j /\ p[j] = q[l]
      <3>1. j # 1
        BY <1>4, <1>8
      <3> QED BY <1>7, <3>1
    <2>2. CASE i = 1
      <3>1. q[l].sequence \in Nat /\ q[l].sequence <= N /\ q[l].item # entry.item
        BY <1>3, <1>6
      <3>2. p[i] = entry /\ entry.sequence = N + 1
        BY <1>1, <1>4, <2>2
      <3> QED BY <2>1, <3>1, <3>2
    <2>3. CASE i # 1
      <3>1. PICK k \in 1..L : k + 1 = i /\ p[i] = q[k]
        BY <1>7, <2>3
      <3>2. k < l
        BY <1>8, <2>1, <3>1
      <3>3. PICK a \in DOMAIN h.bySite[site], b \in DOMAIN h.bySite[site] :
              a < b /\ Same(q[k], h.bySite[site][a]) /\ Same(q[l], h.bySite[site][b])
        BY <1>3, <3>2 DEF Thins
      <3>4. /\ h.bySite[site][a].sequence > h.bySite[site][b].sequence
            /\ h.bySite[site][a].item # h.bySite[site][b].item
        BY <3>3 DEF Ordered
      <3> QED BY <2>1, <3>1, <3>3, <3>4 DEF Same
    <2> QED BY <2>2, <2>3
  <1>9. ASSUME NEW i \in DOMAIN p, NEW t \in Sites, t # site, NEW j \in DOMAIN h.bySite[t]
        PROVE  p[i].sequence # h.bySite[t][j].sequence
    <2>1. CASE i = 1
      <3>1. p[i].sequence = N + 1
        BY <1>1, <1>4, <2>1
      <3> QED BY <1>6, <3>1
    <2>2. CASE i # 1
      <3>1. PICK k \in 1..L : p[i] = q[k]
        BY <1>7, <2>2
      <3>2. PICK a \in DOMAIN h.bySite[site] : Same(q[k], h.bySite[site][a])
        BY <1>3 DEF Thins
      <3>3. h.bySite[site][a].sequence # h.bySite[t][j].sequence
        BY <1>9 DEF Ordered
      <3> QED BY <3>1, <3>2, <3>3 DEF Same
    <2> QED BY <2>1, <2>2
  <1>10. \A i \in DOMAIN p : p[i].sequence \in Nat /\ p[i].sequence <= N + 1
    <2> SUFFICES ASSUME NEW i \in DOMAIN p PROVE p[i].sequence \in Nat /\ p[i].sequence <= N + 1
      OBVIOUS
    <2>1. CASE i = 1
      BY <1>1, <1>4, <2>1
    <2>2. CASE i # 1
      <3>1. PICK k \in 1..L : p[i] = q[k]
        BY <1>7, <2>2
      <3> QED BY <1>6, <3>1
    <2> QED BY <2>1, <2>2
  <1>11. Ordered(g)
    <2>1. ASSUME NEW s \in Sites, NEW i \in DOMAIN g.bySite[s], NEW j \in DOMAIN g.bySite[s], i < j
          PROVE  /\ g.bySite[s][i].sequence > g.bySite[s][j].sequence
                 /\ g.bySite[s][i].item # g.bySite[s][j].item
      <3>1. CASE s = site
        BY <1>5, <1>8, <2>1, <3>1
      <3>2. CASE s # site
        BY <1>5, <2>1, <3>2 DEF Ordered
      <3> QED BY <3>1, <3>2
    <2>2. ASSUME NEW s \in Sites, NEW t \in Sites, NEW i \in DOMAIN g.bySite[s], NEW j \in DOMAIN g.bySite[t],
                 g.bySite[s][i].sequence = g.bySite[t][j].sequence
          PROVE  s = t
      <3> SUFFICES ASSUME s # t PROVE FALSE
        OBVIOUS
      <3>1. CASE s = site
        BY <1>5, <1>9, <2>2, <3>1
      <3>2. CASE t = site
        BY <1>5, <1>9, <2>2, <3>2
      <3>3. CASE s # site /\ t # site
        BY <1>5, <2>2, <3>3 DEF Ordered
      <3> QED BY <3>1, <3>2, <3>3
    <2>3. ASSUME NEW s \in Sites, NEW i \in DOMAIN g.bySite[s]
          PROVE  g.bySite[s][i].sequence <= g.sequence
      <3>1. CASE s = site
        BY <1>5, <1>10, <3>1
      <3>2. CASE s # site
        <4>1. h.bySite[s][i].sequence \in Nat /\ h.bySite[s][i].sequence <= N
          BY <1>5, <1>6, <3>2
        <4> QED BY <1>5, <3>2, <4>1
      <3> QED BY <3>1, <3>2
    <2> QED BY <2>1, <2>2, <2>3 DEF Ordered
  <1> QED BY <1>1, <1>4, <1>5, <1>11 DEF p, g

LEMMA EntriesForIs ==
  ASSUME NEW recents \in [Sites -> Seq(Entries)], NEW page \in Pages, NEW scope \in Scopes
  PROVE  EntriesFor(recents, page, scope) \in Seq(Entries)
  <1>1. PICK site \in Seq(Entries) : site = recents[SiteOf[page]]
    BY SitesAssumption
  <1>2. CASE scope = "site"
    BY <1>1, <1>2 DEF EntriesFor
  <1>3. CASE scope = "page"
    <2> DEFINE I == {i \in DOMAIN site : site[i].page = page}
    <2>1. EntriesFor(recents, page, scope) = Picked(site, I)
      BY <1>1, <1>3 DEF EntriesFor, Filter
    <2>2. I \subseteq DOMAIN site
      OBVIOUS
    <2> HIDE DEF I
    <2> QED BY <2>1, <2>2, FilterIs
  <1>4. CASE scope = "all"
    <2> DEFINE every == UNION {ToSet(recents[s]) : s \in Sites}
               kept == UniqueEntries(every)
               views == {e.sequence : e \in kept}
    <2>1. every \subseteq Entries
      BY DEF ToSet
    <2>2. kept \subseteq Entries
      BY <2>1 DEF UniqueEntries
    <2> HIDE DEF every, kept
    <2>3. views \in SUBSET (1..MaxViews) /\ IsFiniteSet(1..MaxViews) /\ views \subseteq Nat
      <3>1. \A e \in kept : e.sequence \in 1..MaxViews /\ e.sequence \in Nat
        BY <2>2, HistoriesAre
      <3>2. IsFiniteSet(1..MaxViews)
        BY HistoryBoundsAssumption, FS_Interval
      <3> QED BY <3>1, <3>2
    <2>4. IsFiniteSet(views)
      <3> HIDE DEF views
      <3> QED BY <2>3, FS_Subset
    <2> HIDE DEF views
    <2>5. PICK count \in Nat : count = Cardinality(views)
      BY <2>4, FS_CardinalityType
    <2>6. \A n \in 1..count : Nth(views, n) \in views
      BY <2>3, <2>4, <2>5, NthIs
    <2> DEFINE s == [n \in 1..count |-> CHOOSE e \in kept : e.sequence = Nth(views, count + 1 - n)]
    <2>7. EntriesFor(recents, page, scope) = s
      BY <1>4, <2>5 DEF EntriesFor, Newest, every, kept, views
    <2>8. \A n \in 1..count : s[n] \in Entries
      <3> SUFFICES ASSUME NEW n \in 1..count PROVE s[n] \in Entries
        OBVIOUS
      <3>1. count + 1 - n \in 1..count
        OBVIOUS
      <3>2. PICK v \in views : v = Nth(views, count + 1 - n)
        BY <2>6, <3>1
      <3>3. \E e \in kept : e.sequence = v
        BY DEF views
      <3>4. (CHOOSE e \in kept : e.sequence = v) \in kept
        BY <3>3
      <3> QED BY <2>2, <3>2, <3>4
    <2>9. s \in [1..count -> Entries]
      BY <2>8
    <2> HIDE DEF s
    <2> QED BY <2>7, <2>9
  <1> QED BY <1>2, <1>3, <1>4, ScopesAssumption

LEMMA PoliciesAre ==
  ASSUME NEW policy \in Policies
  PROVE  policy.limit \in Nat \ {0} /\ RetainedLimit(policy) \in Nat
  BY PoliciesAssumption DEF RetainedLimit

\* What a handler writes is the history it leaves.
LEMMA ChangeKeeps ==
  ASSUME RhInv, hydrated, NEW h \in Histories, Ordered(h), SetHistory(h.bySite, h.sequence),
         historyCall' \in [HistoryCalls -> HistoryCallStates],
         UNCHANGED <<hydrated, stored, settings, pinned, missed, writeFaults>>
  PROVE  RhInv'
  <1>1. /\ bySite' = h.bySite /\ sequence' = h.sequence
        /\ Len(writes) < MaxWrites /\ writes' = Append(writes, h)
        /\ hydrated' = hydrated /\ stored' = stored /\ settings' = settings
        /\ pinned' = pinned /\ missed' = missed /\ writeFaults' = writeFaults
    BY HistoriesAre DEF SetHistory
  <1>2. Held' = h
    BY <1>1, HistoriesAre DEF Held
  <1>3. /\ writes \in Seq(Histories) /\ stored \in Histories /\ settings \in Policies
        /\ hydrated \in BOOLEAN /\ missed \in BOOLEAN /\ pinned \subseteq Items
        /\ writeFaults \in 0..MaxWriteFaults
    BY RhTypesAre DEF RhInv
  <1>4. PICK L \in Nat : L = Len(writes) /\ DOMAIN writes = 1..L /\ L < MaxWrites
    BY <1>1, <1>3
  <1>5. /\ writes' \in Seq(Histories) /\ Len(writes') = L + 1 /\ writes'[L + 1] = h
        /\ DOMAIN writes' = 1..(L + 1) /\ \A i \in 1..L : writes'[i] = writes[i]
    BY <1>1, <1>3, <1>4
  <1>6. RhTypeOK'
    <2>1. Len(writes') <= MaxWrites
      BY <1>4, <1>5, HistoryBoundsAssumption
    <2>2. (RhTypeOK <=> /\ Held \in Histories /\ stored \in Histories
               /\ writes \in Seq(Histories) /\ Len(writes) <= MaxWrites
               /\ hydrated \in BOOLEAN /\ missed \in BOOLEAN
               /\ settings \in Policies
               /\ historyCall \in [HistoryCalls -> HistoryCallStates]
               /\ pinned \subseteq Items /\ writeFaults \in 0..MaxWriteFaults)'
      BY RhTypesAre, PTL
    <2> QED BY <1>1, <1>2, <1>3, <1>5, <2>1, <2>2
  <1>7. LastWriteIsLatest'
    <2>1. writes' # <<>> /\ writes'[Len(writes')] = h
      BY <1>5
    <2> QED BY <1>1, <1>2, <2>1 DEF LastWriteIsLatest
  <1>8. HistoriesAreOrdered'
    <2>1. Ordered(stored)' /\ Ordered(Held)'
      <3>1. Ordered(stored)
        BY DEF RhInv, HistoriesAreOrdered
      <3> QED BY <1>1, <1>2, <3>1 DEF Ordered
    <2>2. \A i \in 1..(L + 1) : i \in 1..L \/ i = L + 1
      OBVIOUS
    <2>3. \A i \in 1..L : Ordered(writes[i])
      BY <1>4 DEF RhInv, HistoriesAreOrdered
    <2>4. \A i \in 1..(L + 1) : Ordered(writes'[i])
      BY <1>5, <2>2, <2>3
    <2>5. (\A i \in DOMAIN writes : Ordered(writes[i]))'
      BY <1>5, <2>4 DEF Ordered
    <2> QED BY <2>1, <2>5 DEF HistoriesAreOrdered
  <1> QED BY <1>6, <1>7, <1>8 DEF RhInv

\* A step beside the recents and their writes.
LEMMA BesideHistory ==
  ASSUME RhInv, UNCHANGED <<bySite, sequence, hydrated, writes, stored, missed, writeFaults>>,
         settings' \in Policies, pinned' \subseteq Items,
         historyCall' \in [HistoryCalls -> HistoryCallStates],
         hydrated \/ historyCall' = historyCall
  PROVE  RhInv'
  <1>1. /\ bySite' = bySite /\ sequence' = sequence /\ hydrated' = hydrated
        /\ writes' = writes /\ stored' = stored /\ missed' = missed /\ writeFaults' = writeFaults
    OBVIOUS
  <1>2. Held' = Held
    BY <1>1 DEF Held
  <1>3. RhTypeOK'
    BY <1>1 DEF RhInv, RhTypeOK, HistoryCallStates
  <1>4. LastWriteIsLatest'
    BY <1>1, <1>2 DEF RhInv, LastWriteIsLatest, Empty, AtRest
  <1>5. HistoriesAreOrdered'
    BY <1>1, <1>2 DEF RhInv, HistoriesAreOrdered, Ordered
  <1> QED BY <1>3, <1>4, <1>5 DEF RhInv

\* A handler at work has awaited the cache.
LEMMA WorkingIsHydrated ==
  ASSUME RhInv, NEW c \in HistoryCalls, historyCall[c] # AtRest
  PROVE  hydrated
  BY DEF RhInv, RhTypeOK, LastWriteIsLatest

LEMMA HistoryCallsAre ==
  ASSUME RhTypeOK, NEW c \in HistoryCalls
  PROVE  /\ historyCall[c] \in HistoryCallStates
         /\ historyCall[c] = AtRest => historyCall[c].pc = "idle"
         /\ historyCall[c].pc = "change" =>
              /\ historyCall[c].request \in HistoryRequests /\ historyCall[c].policy \in Policies
              /\ historyCall[c] # AtRest
         /\ historyCall[c].pc = "promote" =>
              /\ historyCall[c].request \in HistoryRequests
              /\ historyCall[c].candidates \in Seq(Entries) /\ historyCall[c].remove \subseteq Items
              /\ historyCall[c] # AtRest
         /\ historyCall[c].pc = "prune" => historyCall[c].policy \in Policies /\ historyCall[c] # AtRest
  <1>1. historyCall[c] \in HistoryCallStates
    BY RhTypesAre
  <1> QED BY <1>1 DEF HistoryCallStates, AtRest

LEMMA AddRecentSteps ==
  ASSUME RhInv, NEW c \in HistoryCalls, AddRecent(c)
  PROVE  RhInv'
  <1>1. PICK request \in HistoryRequests, policy \in Policies :
          request = historyCall[c].request /\ policy = historyCall[c].policy
    BY HistoryCallsAre DEF RhInv, AddRecent
  <1>2. request.page \in Pages /\ request.item \in Items /\ request.scope \in Scopes
    BY <1>1 DEF AddRecent, HistoryRequests
  <1>3. PICK site \in Sites : site = SiteOf[request.page]
    BY <1>2, SitesAssumption
  <1>4. Held \in Histories /\ Ordered(Held) /\ Held.sequence = sequence /\ Held.bySite = bySite
        /\ bySite \in [Sites -> Seq(Entries)] /\ sequence \in 0..MaxViews
    BY HistoriesAre, RhTypesAre DEF RhInv, HistoriesAreOrdered, Held
  <1> DEFINE entry == [item |-> request.item, page |-> request.page, sequence |-> sequence + 1, pinned |-> FALSE]
             I == {i \in DOMAIN bySite[site] : bySite[site][i].item # request.item}
             others == Picked(bySite[site], I)
             all == <<entry>> \o others
             first == First(all, RetainedLimit(policy))
             next == [bySite EXCEPT ![site] = first]
             visible == EntriesFor(next, request.page, request.scope)
             overflow == SubSeq(visible, policy.limit + 1, Len(visible))
  <1>5. /\ historyCall[c].pc = "change" /\ sequence < MaxViews
        /\ SetHistory(next, sequence + 1)
        /\ \/ overflow # <<>> /\ RhAt(c, [pc |-> "promote", request |-> request, candidates |-> overflow, remove |-> {}])
           \/ RhAt(c, AtRest)
        /\ UNCHANGED <<hydrated, stored, settings, pinned, missed, writeFaults>>
    BY <1>1, <1>3 DEF AddRecent, Filter
  <1>p. sequence < MaxViews /\ sequence + 1 \in 1..MaxViews /\ sequence + 1 \in 0..MaxViews
    <2>1. sequence < MaxViews
      BY <1>5
    <2> HIDE DEF next, overflow
    <2> QED BY <1>4, <2>1, HistoryBoundsAssumption
  <1>6. entry \in Entries /\ entry.sequence = Held.sequence + 1 /\ entry.item = request.item
    BY <1>2, <1>4, <1>p DEF Entries
  <1>7. /\ others \in Seq(Entries) /\ Thins(others, bySite[site])
        /\ \A i \in DOMAIN others : others[i].item # request.item
    <2>1. I \subseteq DOMAIN bySite[site] /\ bySite[site] \in Seq(Entries)
      BY <1>4
    <2>2. /\ others \in Seq(Entries) /\ Thins(others, bySite[site])
          /\ \A i \in DOMAIN others : \E k \in I : others[i] = bySite[site][k]
      <3> HIDE DEF I
      <3> QED BY <2>1, FilterThins
    <2>3. \A k \in I : bySite[site][k].item # request.item
      OBVIOUS
    <2> HIDE DEF I, others
    <2> QED BY <2>2, <2>3
  <1> HIDE DEF entry, others
  <1> DEFINE g == [sequence |-> sequence + 1, bySite |-> [bySite EXCEPT ![site] = all]]
             h == [sequence |-> sequence + 1, bySite |-> next]
  <1>8. all \in Seq(Entries) /\ g \in Histories /\ Ordered(g)
    <2>1. Held.sequence < MaxViews
      BY <1>4, <1>p
    <2> QED BY <1>4, <1>6, <1>7, <2>1, AddedIsOrdered
  <1>9. first \in Seq(Entries) /\ Thins(first, all)
    <2> HIDE DEF all
    <2> QED BY <1>8, PoliciesAre, FirstThins
  <1> HIDE DEF all, first
  <1>10. h \in Histories /\ h.bySite = next /\ h.sequence = sequence + 1 /\ next \in [Sites -> Seq(Entries)]
    BY <1>4, <1>p, <1>9 DEF Histories
  <1>11. Ordered(h)
    <2>1. g.sequence = h.sequence /\ h.sequence \in Nat
      BY <1>4
    <2>2. ASSUME NEW s \in Sites PROVE Thins(h.bySite[s], g.bySite[s])
      <3>1. CASE s = site
        BY <1>4, <1>9, <3>1
      <3>2. CASE s # site
        <4>1. h.bySite[s] = bySite[s] /\ g.bySite[s] = bySite[s]
          BY <1>4, <3>2
        <4> QED BY <4>1, ThinsItself
      <3> QED BY <3>1, <3>2
    <2>3. h.sequence >= g.sequence
      BY <2>1
    <2> HIDE DEF g, h
    <2> QED BY <1>8, <1>10, <2>2, <2>3, ThinnedIsOrdered
  <1>12. overflow \in Seq(Entries)
    <2>1. visible \in Seq(Entries)
      <3> HIDE DEF next
      <3> QED BY <1>2, <1>10, EntriesForIs
    <2> HIDE DEF visible
    <2>2. PICK L \in Nat, l \in Nat \ {0} : L = Len(visible) /\ DOMAIN visible = 1..L /\ l = policy.limit
      BY <2>1, PoliciesAre
    <2>3. \A i \in (l + 1)..L : visible[i] \in Entries
      BY <2>1, <2>2
    <2>4. SubSeq(visible, l + 1, L) \in Seq(Entries)
      BY <2>2, <2>3, SubSeqProperties
    <2> QED BY <2>2, <2>4
  <1> HIDE DEF overflow
  <1>13. historyCall' \in [HistoryCalls -> HistoryCallStates]
    <2>1. historyCall \in [HistoryCalls -> HistoryCallStates]
      BY RhTypesAre DEF RhInv
    <2>2. [pc |-> "promote", request |-> request, candidates |-> overflow, remove |-> {}] \in HistoryCallStates
      BY <1>12 DEF HistoryCallStates
    <2>3. AtRest \in HistoryCallStates
      BY DEF HistoryCallStates
    <2> QED BY <1>5, <2>1, <2>2, <2>3 DEF RhAt
  <1>14. hydrated
    BY <1>5, HistoryCallsAre, WorkingIsHydrated DEF RhInv
  <1> HIDE DEF next, h
  <1>15. SetHistory(h.bySite, h.sequence)
    BY <1>5, <1>10
  <1> QED BY <1>5, <1>10, <1>11, <1>13, <1>14, <1>15, ChangeKeeps

\* The recents of every site thinned.
LEMMA ThinningKeeps ==
  ASSUME RhInv, NEW c \in HistoryCalls, historyCall[c] # AtRest,
         NEW r \in [Sites -> Seq(Entries)], \A s \in Sites : Thins(r[s], bySite[s]),
         SetHistory(r, sequence), RhAt(c, AtRest),
         UNCHANGED <<hydrated, stored, settings, pinned, missed, writeFaults>>
  PROVE  RhInv'
  <1>1. Held \in Histories /\ Ordered(Held) /\ Held.sequence = sequence /\ Held.bySite = bySite
        /\ sequence \in 0..MaxViews /\ sequence \in Nat
    BY HistoriesAre, RhTypesAre DEF RhInv, HistoriesAreOrdered, Held
  <1> DEFINE h == [sequence |-> sequence, bySite |-> r]
  <1>2. h \in Histories /\ h.sequence = sequence /\ h.bySite = r
    BY <1>1, HistoriesAre
  <1> HIDE DEF h
  <1>3. Ordered(h)
    <2>1. h.sequence >= Held.sequence /\ \A s \in Sites : Thins(h.bySite[s], Held.bySite[s])
      BY <1>1, <1>2
    <2> QED BY <1>1, <1>2, <2>1, ThinnedIsOrdered
  <1>4. historyCall' \in [HistoryCalls -> HistoryCallStates]
    BY RhTypesAre DEF RhInv, RhAt, HistoryCallStates
  <1>5. hydrated
    BY WorkingIsHydrated
  <1>6. SetHistory(h.bySite, h.sequence)
    BY <1>2
  <1> QED BY <1>2, <1>3, <1>4, <1>5, <1>6, ChangeKeeps

LEMMA RestKeeps ==
  ASSUME RhInv, NEW c \in HistoryCalls, historyCall[c] # AtRest, RhAt(c, AtRest),
         UNCHANGED <<bySite, sequence, writes, hydrated, stored, settings, pinned, missed, writeFaults>>
  PROVE  RhInv'
  <1>1. historyCall' \in [HistoryCalls -> HistoryCallStates]
    BY RhTypesAre DEF RhInv, RhAt, HistoryCallStates
  <1>2. hydrated /\ settings' \in Policies /\ pinned' \subseteq Items
    BY WorkingIsHydrated, RhTypesAre DEF RhInv
  <1> QED BY <1>1, <1>2, BesideHistory

LEMMA RemovalSteps ==
  ASSUME RhInv, NEW c \in HistoryCalls, RemovePromoted(c) \/ RemoveRecent(c) \/ PruneForSettings(c)
  PROVE  RhInv'
  <1>1. bySite \in [Sites -> Seq(Entries)] /\ RhTypeOK
    BY HistoriesAre, RhTypesAre DEF RhInv, Held
  <1>2. CASE RemovePromoted(c)
    <2> DEFINE Leaves(s) == historyCall[c].request.scope = "all" \/ s = SiteOf[historyCall[c].request.page]
               I(s) == {i \in DOMAIN bySite[s] : bySite[s][i].item \notin historyCall[c].remove}
               r == [s \in Sites |-> IF Leaves(s) THEN Picked(bySite[s], I(s)) ELSE bySite[s]]
    <2>1. /\ historyCall[c].pc = "promote" /\ RhAt(c, AtRest)
          /\ SetHistory(r, sequence) \/ UNCHANGED <<bySite, sequence, writes>>
          /\ UNCHANGED <<hydrated, stored, settings, pinned, missed, writeFaults>>
      BY <1>2 DEF RemovePromoted, Filter
    <2>2. historyCall[c] # AtRest
      BY <1>1, <2>1, HistoryCallsAre
    <2>3. ASSUME NEW s \in Sites PROVE r[s] \in Seq(Entries) /\ Thins(r[s], bySite[s])
      <3>1. bySite[s] \in Seq(Entries) /\ I(s) \subseteq DOMAIN bySite[s]
        BY <1>1
      <3>2. Picked(bySite[s], I(s)) \in Seq(Entries) /\ Thins(Picked(bySite[s], I(s)), bySite[s])
        <4> HIDE DEF I
        <4> QED BY <3>1, FilterThins
      <3> HIDE DEF I, Leaves
      <3> QED BY <3>1, <3>2, ThinsItself
    <2>4. r \in [Sites -> Seq(Entries)]
      BY <2>3
    <2> HIDE DEF r
    <2> QED BY <2>1, <2>2, <2>3, <2>4, ThinningKeeps, RestKeeps
  <1>3. CASE RemoveRecent(c)
    <2> DEFINE Stays(s, e) == \/ e.item # historyCall[c].request.item
                              \/ historyCall[c].request.scope # "all" /\ s # SiteOf[historyCall[c].request.page]
                              \/ historyCall[c].request.scope = "page" /\ e.page # historyCall[c].request.page
               I(s) == {i \in DOMAIN bySite[s] : Stays(s, bySite[s][i])}
               r == [s \in Sites |-> Picked(bySite[s], I(s))]
    <2>1. /\ historyCall[c].pc = "change" /\ RhAt(c, AtRest)
          /\ SetHistory(r, sequence)
          /\ UNCHANGED <<hydrated, stored, settings, pinned, missed, writeFaults>>
      BY <1>3 DEF RemoveRecent, Filter
    <2>2. historyCall[c] # AtRest
      BY <1>1, <2>1, HistoryCallsAre
    <2>3. ASSUME NEW s \in Sites PROVE r[s] \in Seq(Entries) /\ Thins(r[s], bySite[s])
      <3>1. bySite[s] \in Seq(Entries) /\ I(s) \subseteq DOMAIN bySite[s]
        BY <1>1
      <3>2. Picked(bySite[s], I(s)) \in Seq(Entries) /\ Thins(Picked(bySite[s], I(s)), bySite[s])
        <4> HIDE DEF I
        <4> QED BY <3>1, FilterThins
      <3> HIDE DEF I
      <3> QED BY <3>2
    <2>4. r \in [Sites -> Seq(Entries)]
      BY <2>3
    <2> HIDE DEF r
    <2> QED BY <2>1, <2>2, <2>3, <2>4, ThinningKeeps
  <1>4. CASE PruneForSettings(c)
    <2> DEFINE r == [s \in Sites |-> First(bySite[s], RetainedLimit(historyCall[c].policy))]
    <2>1. /\ historyCall[c].pc = "prune" /\ RhAt(c, AtRest)
          /\ SetHistory(r, sequence)
          /\ UNCHANGED <<hydrated, stored, settings, pinned, missed, writeFaults>>
      BY <1>4 DEF PruneForSettings
    <2>2. historyCall[c] # AtRest /\ RetainedLimit(historyCall[c].policy) \in Nat
      BY <1>1, <2>1, HistoryCallsAre, PoliciesAre
    <2>3. \A s \in Sites : r[s] \in Seq(Entries) /\ Thins(r[s], bySite[s])
      BY <1>1, <2>2, FirstThins
    <2>4. r \in [Sites -> Seq(Entries)]
      BY <2>3
    <2> HIDE DEF r
    <2> QED BY <2>1, <2>2, <2>3, <2>4, ThinningKeeps
  <1> QED BY <1>2, <1>3, <1>4

\* Marking a recent changes neither its item nor its place.
LEMMA UpdateRecentSteps ==
  ASSUME RhInv, NEW c \in HistoryCalls, UpdateRecent(c)
  PROVE  RhInv'
  <1>1. bySite \in [Sites -> Seq(Entries)] /\ RhTypeOK
    BY HistoriesAre, RhTypesAre DEF RhInv, Held
  <1> DEFINE AsPinned(entries) ==
               [i \in DOMAIN entries |->
                  IF entries[i].item = historyCall[c].request.item
                  THEN [entries[i] EXCEPT !.pinned = TRUE] ELSE entries[i]]
  <1>2. /\ historyCall[c].pc = "change" /\ RhAt(c, AtRest)
        /\ \/ \E s \in Sites : SetHistory([bySite EXCEPT ![s] = AsPinned(bySite[s])], sequence)
           \/ UNCHANGED <<bySite, sequence, writes>>
        /\ UNCHANGED <<hydrated, stored, settings, pinned, missed, writeFaults>>
    BY DEF UpdateRecent
  <1>3. historyCall[c] # AtRest
    BY <1>1, <1>2, HistoryCallsAre
  <1>4. ASSUME NEW s \in Sites, SetHistory([bySite EXCEPT ![s] = AsPinned(bySite[s])], sequence)
        PROVE  RhInv'
    <2>1. PICK q \in Seq(Entries), L \in Nat : q = bySite[s] /\ L = Len(q) /\ DOMAIN q = 1..L
      BY <1>1
    <2> DEFINE p == AsPinned(q)
    <2>2. ASSUME NEW i \in 1..L PROVE p[i] \in Entries /\ Same(p[i], q[i])
      <3>1. q[i] \in Entries /\ p[i] \in {q[i], [q[i] EXCEPT !.pinned = TRUE]}
        BY <2>1
      <3> HIDE DEF p
      <3> QED BY <3>1 DEF Entries, Same
    <2>3. p \in [1..L -> Entries] /\ DOMAIN p = 1..L
      BY <2>1, <2>2
    <2> HIDE DEF p
    <2>4. p \in Seq(Entries) /\ Thins(p, q)
      BY <2>1, <2>2, <2>3 DEF Thins
    <2> DEFINE r == [bySite EXCEPT ![s] = p]
    <2>5. r \in [Sites -> Seq(Entries)] /\ \A t \in Sites : Thins(r[t], bySite[t])
      BY <1>1, <2>1, <2>4, ThinsItself
    <2>6. SetHistory(r, sequence)
      BY <1>4, <2>1 DEF p
    <2> HIDE DEF r
    <2> QED BY <1>2, <1>3, <2>5, <2>6, ThinningKeeps
  <1> QED BY <1>2, <1>3, <1>4, RestKeeps

LEMMA RhStep ==
  ASSUME RhInv, [RhNext]_rhVars
  PROVE  RhInv'
  <1>1. /\ RhTypeOK
        /\ historyCall \in [HistoryCalls -> HistoryCallStates]
        /\ writes \in Seq(Histories) /\ Len(writes) <= MaxWrites
        /\ stored \in Histories /\ Held \in Histories
        /\ hydrated \in BOOLEAN /\ missed \in BOOLEAN
        /\ settings \in Policies /\ pinned \subseteq Items /\ writeFaults \in 0..MaxWriteFaults
    BY RhTypesAre DEF RhInv
  <1>2. ASSUME NEW c \in HistoryCalls, NEW r \in HistoryRequests, History(c, r) PROVE RhInv'
    <2>1. [pc |-> "change", request |-> r, policy |-> settings] \in HistoryCallStates
      BY <1>1 DEF HistoryCallStates
    <2>2. /\ hydrated /\ historyCall' = [historyCall EXCEPT ![c] = [pc |-> "change", request |-> r, policy |-> settings]]
          /\ UNCHANGED <<bySite, sequence, hydrated, writes, stored, missed, writeFaults>>
          /\ settings' = settings /\ pinned' = pinned
      BY <1>2 DEF History, RhAt
    <2>3. historyCall' \in [HistoryCalls -> HistoryCallStates]
      BY <1>1, <2>1, <2>2
    <2> QED BY <1>1, <2>2, <2>3, BesideHistory
  <1>3. ASSUME NEW c \in HistoryCalls, NEW p \in Policies, SaveSettings(c, p) PROVE RhInv'
    <2>1. [pc |-> "prune", policy |-> p] \in HistoryCallStates
      BY DEF HistoryCallStates
    <2>2. /\ hydrated /\ historyCall' = [historyCall EXCEPT ![c] = [pc |-> "prune", policy |-> p]]
          /\ UNCHANGED <<bySite, sequence, hydrated, writes, stored, missed, writeFaults>>
          /\ settings' = p /\ pinned' = pinned
      BY <1>3 DEF SaveSettings, RhAt
    <2>3. historyCall' \in [HistoryCalls -> HistoryCallStates]
      BY <1>1, <2>1, <2>2
    <2> QED BY <1>1, <2>2, <2>3, BesideHistory
  <1>4. ASSUME NEW c \in HistoryCalls, Promote(c) PROVE RhInv'
    <2>1. historyCall[c].pc = "promote" /\ historyCall[c].candidates # <<>>
      BY <1>4 DEF Promote
    <2>2. /\ historyCall[c] \in [pc: {"promote"}, request: HistoryRequests,
                                candidates: Seq(Entries), remove: SUBSET Items]
          /\ historyCall[c].candidates \in Seq(Entries) /\ historyCall[c].remove \subseteq Items
          /\ historyCall[c] # AtRest
      BY <1>1, <2>1 DEF HistoryCallStates, AtRest
    <2>3. PICK item \in Items : item = Last(historyCall[c].candidates).item
      <3>1. Last(historyCall[c].candidates) \in Entries
        BY <2>1, <2>2 DEF Last
      <3> QED BY <3>1, HistoriesAre
    <2>4. PICK front \in Seq(Entries) : front = Front(historyCall[c].candidates)
      <3>1. Front(historyCall[c].candidates) \in Seq(Entries)
        <4> DEFINE q == historyCall[c].candidates
        <4>1. q \in Seq(Entries)
          BY <2>2
        <4> HIDE DEF q
        <4>2. PICK L \in Nat : L = Len(q) /\ DOMAIN q = 1..L
          BY <4>1
        <4>3. \A i \in 1..(L - 1) : q[i] \in Entries
          BY <4>1, <4>2
        <4>4. SubSeq(q, 1, L - 1) \in Seq(Entries)
          BY <4>2, <4>3, SubSeqProperties
        <4>5. Front(q) = SubSeq(q, 1, L - 1)
          BY <4>2 DEF Front
        <4> QED BY <4>4, <4>5 DEF q
      <3> QED BY <3>1
    <2>5. PICK remove \in SUBSET Items :
            historyCall' = [historyCall EXCEPT ![c] = [historyCall[c] EXCEPT !.candidates = front, !.remove = remove]]
      BY <1>4, <2>2, <2>3, <2>4 DEF Promote, RhAt
    <2>6. [historyCall[c] EXCEPT !.candidates = front, !.remove = remove] \in HistoryCallStates
      BY <2>2 DEF HistoryCallStates
    <2>7. historyCall' \in [HistoryCalls -> HistoryCallStates]
      BY <1>1, <2>5, <2>6
    <2>8. /\ pinned' \in {pinned, pinned \cup {item}} /\ settings' = settings
          /\ UNCHANGED <<bySite, sequence, hydrated, writes, stored, missed, writeFaults>>
      BY <1>4, <2>3 DEF Promote
    <2>9. hydrated
      BY <2>2, WorkingIsHydrated
    <2> QED BY <1>1, <2>7, <2>8, <2>9, BesideHistory
  <1>5. ASSUME NEW i \in Items, Pin(i) PROVE RhInv'
    BY <1>1, <1>5, BesideHistory DEF Pin
  <1>6. ASSUME Hydrate PROVE RhInv'
    <2>1. /\ ~hydrated /\ hydrated' = TRUE /\ writes' = writes /\ stored' = stored
          /\ settings' = settings /\ historyCall' = historyCall /\ pinned' = pinned
          /\ writes = <<>> /\ bySite = Empty /\ sequence = 0
      BY <1>6 DEF Hydrate, RhInv, LastWriteIsLatest
    <2>2. Held' \in Histories /\ Ordered(Held') /\ missed' \in BOOLEAN /\ writeFaults' \in 0..MaxWriteFaults
          /\ (~missed' => Held' = stored)
      <3>1. CASE /\ sequence' = stored.sequence
                 /\ bySite' = [s \in Sites |-> IF stored.bySite[s] = <<>> THEN bySite[s] ELSE stored.bySite[s]]
                 /\ UNCHANGED <<missed, writeFaults>>
        <4>1. \A s \in Sites : bySite[s] = <<>>
          BY <2>1 DEF Empty
        <4>2. stored.bySite \in [Sites -> Seq(Entries)]
          BY <1>1, HistoriesAre
        <4>3. bySite' = stored.bySite
          BY <3>1, <4>1, <4>2
        <4>4. Held' = stored
          BY <1>1, <3>1, <4>3, HistoriesAre DEF Held
        <4> QED BY <1>1, <3>1, <4>4 DEF RhInv, HistoriesAreOrdered
      <3>2. CASE /\ writeFaults < MaxWriteFaults /\ writeFaults' = writeFaults + 1
                 /\ missed' = TRUE
                 /\ UNCHANGED <<sequence, bySite>>
        <4>1. Held' = Held
          BY <3>2 DEF Held
        <4>2. writeFaults' \in 0..MaxWriteFaults
          BY <1>1, <3>2, HistoryBoundsAssumption
        <4> QED BY <1>1, <3>2, <4>1, <4>2 DEF RhInv, HistoriesAreOrdered
      <3> QED BY <1>6, <3>1, <3>2 DEF Hydrate
    <2>3. RhTypeOK'
      BY <1>1, <2>1, <2>2 DEF RhTypeOK, HistoryCallStates, Held
    <2>4. LastWriteIsLatest'
      BY <2>1, <2>2 DEF LastWriteIsLatest
    <2>5. HistoriesAreOrdered'
      <3>1. Ordered(stored) /\ \A i \in DOMAIN writes : Ordered(writes[i])
        BY DEF RhInv, HistoriesAreOrdered
      <3> QED BY <2>1, <2>2, <3>1 DEF HistoriesAreOrdered, Ordered
    <2> QED BY <2>3, <2>4, <2>5 DEF RhInv
  <1>7. ASSUME WriteEnds PROVE RhInv'
    <2>1. /\ writes # <<>> /\ writes' = Tail(writes)
          /\ UNCHANGED <<bySite, sequence, hydrated, settings, historyCall, pinned>>
          /\ \/ stored' = Head(writes) /\ missed' = FALSE /\ writeFaults' = writeFaults
             \/ stored' = stored /\ missed' = TRUE /\ writeFaults' = writeFaults + 1 /\ writeFaults < MaxWriteFaults
      BY <1>7 DEF WriteEnds
    <2>2. PICK L \in Nat : Len(writes) = L + 1 /\ DOMAIN writes = 1..(L + 1)
      <3>1. Len(writes) \in Nat /\ Len(writes) # 0 /\ DOMAIN writes = 1..Len(writes)
        BY <1>1, <2>1
      <3>2. Len(writes) - 1 \in Nat /\ (Len(writes) - 1) + 1 = Len(writes)
        BY <3>1
      <3> QED BY <3>1, <3>2
    <2>3. /\ writes' \in Seq(Histories) /\ Len(writes') = L /\ DOMAIN writes' = 1..L
          /\ \A i \in 1..L : writes'[i] = writes[i + 1]
      BY <1>1, <2>1, <2>2
    <2>4. Head(writes) = writes[1] /\ Head(writes) \in Histories /\ Ordered(Head(writes))
      BY <1>1, <2>1, <2>2 DEF RhInv, HistoriesAreOrdered
    <2>5. Held' = Held
      BY <2>1 DEF Held
    <2>6. stored' \in Histories /\ missed' \in BOOLEAN /\ writeFaults' \in 0..MaxWriteFaults
          /\ Len(writes') <= MaxWrites
      <3>1. Len(writes') <= MaxWrites
        BY <1>1, <2>2, <2>3, HistoryBoundsAssumption
      <3>2. writeFaults' \in 0..MaxWriteFaults
        BY <1>1, <2>1, HistoryBoundsAssumption
      <3> QED BY <1>1, <2>1, <2>4, <3>1, <3>2
    <2>7. RhTypeOK'
      BY <1>1, <2>1, <2>3, <2>5, <2>6 DEF RhTypeOK, HistoryCallStates, Held
    <2>8. hydrated /\ writes[L + 1] = Held
      BY <1>1, <2>1, <2>2 DEF RhInv, LastWriteIsLatest
    <2>9. LastWriteIsLatest'
      <3>1. CASE L = 0
        <4>1. writes' = <<>> /\ writes[L + 1] = Head(writes)
          BY <2>3, <2>4, <3>1
        <4> QED BY <2>1, <2>5, <2>8, <4>1 DEF LastWriteIsLatest
      <3>2. CASE L # 0
        <4>1. writes' # <<>> /\ writes'[Len(writes')] = writes[L + 1]
          BY <2>3, <3>2
        <4> QED BY <2>1, <2>5, <2>8, <4>1 DEF LastWriteIsLatest
      <3> QED BY <3>1, <3>2
    <2>10. HistoriesAreOrdered'
      <3>1. Ordered(stored) /\ Ordered(Held) /\ \A i \in 1..(L + 1) : Ordered(writes[i])
        BY <2>2 DEF RhInv, HistoriesAreOrdered
      <3>2. \A i \in 1..L : Ordered(writes'[i])
        BY <2>3, <3>1
      <3>3. Ordered(stored') /\ Ordered(Held')
        BY <2>1, <2>4, <2>5, <3>1
      <3>4. (\A i \in DOMAIN writes : Ordered(writes[i]))'
        BY <2>3, <3>2 DEF Ordered
      <3> QED BY <3>3, <3>4 DEF HistoriesAreOrdered, Ordered
    <2> QED BY <2>7, <2>9, <2>10 DEF RhInv
  <1>8. ASSUME RhWorkerStops PROVE RhInv'
    <2>1. /\ bySite' = Empty /\ sequence' = 0 /\ hydrated' = FALSE /\ writes' = <<>>
          /\ historyCall' = [c \in HistoryCalls |-> AtRest] /\ missed' = FALSE
          /\ UNCHANGED <<stored, settings, pinned, writeFaults>>
      BY <1>8 DEF RhWorkerStops
    <2>2. Held' = [sequence |-> 0, bySite |-> Empty] /\ Held' \in Histories
      BY <2>1, HistoryBoundsAssumption DEF Held, Histories, Empty
    <2>3. RhTypeOK'
      <3>1. writes' \in Seq(Histories) /\ Len(writes') <= MaxWrites
        BY <2>1, HistoryBoundsAssumption
      <3>2. historyCall' \in [HistoryCalls -> HistoryCallStates]
        BY <2>1 DEF HistoryCallStates
      <3> QED BY <1>1, <2>1, <2>2, <3>1, <3>2 DEF RhTypeOK, HistoryCallStates, Held
    <2>4. LastWriteIsLatest'
      BY <2>1 DEF LastWriteIsLatest, Empty, AtRest
    <2>5. Ordered(Held')
      BY <2>2 DEF Ordered, Empty
    <2>6. HistoriesAreOrdered'
      BY <2>1, <2>5 DEF RhInv, HistoriesAreOrdered, Ordered
    <2> QED BY <2>3, <2>4, <2>6 DEF RhInv
  <1>9. CASE UNCHANGED rhVars
    BY <1>1, <1>9, BesideHistory DEF rhVars
  <1> QED BY <1>2, <1>3, <1>4, <1>5, <1>6, <1>7, <1>8, <1>9,
             AddRecentSteps, RemovalSteps, UpdateRecentSteps DEF RhNext

THEOREM HistoryInv == RhSpec => []RhInv
  <1>1. RhInit => RhInv
    <2> SUFFICES ASSUME RhInit PROVE RhInv
      OBVIOUS
    <2>1. [sequence |-> 0, bySite |-> Empty] \in Histories /\ Held = [sequence |-> 0, bySite |-> Empty]
          /\ Ordered([sequence |-> 0, bySite |-> Empty])
      BY HistoryBoundsAssumption DEF RhInit, Held, Histories, Empty, Ordered
    <2>2. RhTypeOK
      <3>1. /\ writes \in Seq(Histories) /\ Len(writes) <= MaxWrites /\ hydrated = FALSE /\ missed = FALSE
            /\ writeFaults \in 0..MaxWriteFaults /\ pinned = {} /\ settings \in Policies
        BY HistoryBoundsAssumption DEF RhInit
      <3>2. historyCall \in [HistoryCalls -> HistoryCallStates]
        BY DEF RhInit, HistoryCallStates
      <3>3. stored \in Histories
        BY <2>1 DEF RhInit
      <3> QED BY <2>1, <3>1, <3>2, <3>3, RhTypesAre
    <2> QED BY <2>1, <2>2 DEF RhInit, RhInv, LastWriteIsLatest, HistoriesAreOrdered
  <1>2. RhInv /\ [RhNext]_rhVars => RhInv'
    BY RhStep
  <1> QED BY <1>1, <1>2, PTL DEF RhSpec

\* The recents, the writes and the handlers' states keep their types: whatever the
\* handlers read, in whatever order they overlap.
THEOREM HistoryTypes == RhSpec => []RhTypeOK
  <1>1. RhInv => RhTypeOK
    BY DEF RhInv
  <1> QED BY <1>1, HistoryInv, PTL

\* What the next worker would read is what this one has, once its writes are done.
THEOREM StoredWillBeLatest == RhSpec => []StoredIsLatest
  <1>1. RhInv => StoredIsLatest
    BY DEF RhInv, LastWriteIsLatest, StoredIsLatest, Held
  <1> QED BY <1>1, HistoryInv, PTL

\* For any pages, sites and settings, and over any number of workers: the recents of
\* each site are newest first, and no view is numbered twice.
THEOREM RecentsAreOrdered == RhSpec => []ViewsAreOrdered
  <1>1. RhInv => ViewsAreOrdered
    <2> SUFFICES ASSUME RhInv PROVE ViewsAreOrdered
      OBVIOUS
    <2>1. Ordered(Held) /\ Held.bySite = bySite /\ bySite \in [Sites -> Seq(Entries)]
      BY RhTypesAre, HistoriesAre DEF RhInv, HistoriesAreOrdered, Held
    <2>2. ASSUME NEW s \in Sites, NEW i \in DOMAIN bySite[s], NEW j \in DOMAIN bySite[s],
                 bySite[s][i].sequence = bySite[s][j].sequence
          PROVE  i = j
      <3>1. i \in Nat /\ j \in Nat /\ bySite[s][i].sequence \in Nat
        BY <2>1, HistoriesAre
      <3>2. ~(i < j) /\ ~(j < i)
        BY <2>1, <2>2, <3>1 DEF Ordered
      <3> QED BY <3>1, <3>2
    <2> QED BY <2>1, <2>2 DEF Ordered, ViewsAreOrdered
  <1> QED BY <1>1, HistoryInv, PTL

-------------------------------------------------------------------------------
(* The parts together                                                      *)

\* What each part does in the composition, or that it rests.
PartsMove ==
  /\ [RtNext]_rtVars /\ [KsNext]_ksVars /\ [RhNext]_rhVars
  /\ [ImNext]_imVars /\ [BnNext]_bnVars

LEMMA PartsBegin == Init => RtInit /\ KsInit /\ RhInit /\ ImInit /\ BnInit
  BY DEF Init, RestingRuntime, RestingHistory, RestingNavigation

LEMMA PartsStep == [Next]_vars => PartsMove
<1> SUFFICES ASSUME [Next]_vars PROVE PartsMove
  OBVIOUS
<1>1. CASE Next
  BY <1>1 DEF Next, PartsMove
<1>2. CASE UNCHANGED vars
  <2>1. UNCHANGED <<rtVars, ksVars, rhVars, imVars, bnVars>>
    BY <1>2 DEF vars
  <2> QED
    BY <2>1 DEF PartsMove
<1> QED
  BY <1>1, <1>2

\* Each part of the composition behaves as its own specification says, so that what
\* is proved of the parts holds of what MCWorker checks.
THEOREM WorkerParts == Spec => RtSpec /\ KsSpec /\ RhSpec /\ ImSpec /\ BnSpec
<1>1. [Next]_vars => [RtNext]_rtVars
  BY PartsStep DEF PartsMove
<1>2. [Next]_vars => [KsNext]_ksVars
  BY PartsStep DEF PartsMove
<1>3. [Next]_vars => [RhNext]_rhVars
  BY PartsStep DEF PartsMove
<1>4. [Next]_vars => [ImNext]_imVars
  BY PartsStep DEF PartsMove
<1>5. [Next]_vars => [BnNext]_bnVars
  BY PartsStep DEF PartsMove
<1> QED
  BY <1>1, <1>2, <1>3, <1>4, <1>5, PartsBegin, PTL
     DEF Spec, RtSpec, KsSpec, RhSpec, ImSpec, BnSpec

\* The composition keeps its types: those of the dispatcher, the key session, the
\* recents, the image requests and the navigation, all at once.
THEOREM WorkerTypeCorrect == Spec => []TypeOK
<1>1. RtTypeOK /\ KsTypeOK /\ RhTypeOK /\ ImTypeOK /\ BnTypeOK => TypeOK
  BY DEF TypeOK
<1> QED
  BY <1>1, WorkerParts, RuntimeTypeCorrect, KeySessionTypes, HistoryTypes, ImageTypes,
     NavigationTypes, PTL
===============================================================================

---------------------------- MODULE NavigationProofs ----------------------------
(***************************************************************************)
(* Proofs about the buffered navigation, for any trail, radius and limits: *)
(* its types, that the window holds what is of its base, and that a press  *)
(* that waits is waiting for a request that will wake it.                  *)
(*                                                                         *)
(* Both need one invariant of all that the controller keeps: a request of  *)
(* the current window is for the url at its index, only requests of the    *)
(* current window are queued, each queue holds the indices of its queued   *)
(* requests once, and no index is both queued and in flight.  The          *)
(* operations of the controller take what it keeps and return it, so that  *)
(* each has a lemma of its own, and an action is a few of them.            *)
(***************************************************************************)
EXTENDS BufferedNavigation, ArrayProofs

-------------------------------------------------------------------------------
(* The invariant                                                           *)

Manifests == {"UNKNOWN", "HEAD_PENDING", "PRESENT", "FAILED_HEAD"}
ImageStates == {"UNKNOWN", "GET_PENDING", "OK", "FAILED_GET"}
BlobsFor(urls) == [url: urls, serial: Serials]

NavEntry(url, e) ==
  /\ e \in [manifest: Manifests, image: ImageStates, url: SUBSET {url}, blob: SUBSET BlobsFor({url})]
  /\ e.blob # {} <=> e.image = "OK"

NavEntries(base, entry) ==
  /\ entry = [i \in DOMAIN entry |-> entry[i]]
  /\ DOMAIN entry \in SUBSET Int /\ IsFiniteSet(DOMAIN entry)
  /\ \A i \in DOMAIN entry : NavEntry(base + i, entry[i])

SeekRests(n) ==
  /\ n.seek \in [dir: {-1, 0, 1}, remaining: Int]
  /\ n.blocked \in SUBSET Int
  /\ n.seek.dir = 0 => n.seek = NoSeek /\ n.blocked = {}

IsOpen(n) ==
  /\ DOMAIN n = {"base", "radius", "cursor", "seek", "blocked", "entry"}
  /\ n.base \in Int /\ n.radius \in Radii /\ n.cursor \in DOMAIN n.entry
  /\ SeekRests(n) /\ NavEntries(n.base, n.entry)

NavOK(n) == n = Closed \/ IsOpen(n)

\* A request of the current window is for its url at that index, and what waits in a
\* queue is of the current window; what is tracked in flight is neither queued nor settled.
IsRequest(r) ==
  r \in [kind: Kinds, index: Int, run: Nat, twin: Nat, pc: {"queued", "policy", "probe", "fetch"}, url: Int,
         advance: BOOLEAN, follow: BOOLEAN, tracked: BOOLEAN, settled: BOOLEAN]

RequestOf(n, latest, r) ==
  /\ IsRequest(r) /\ r.run \in 1..latest
  /\ r.run = latest => n # Closed /\ r.url = n.base + r.index
  /\ r.pc = "queued" => r.run = latest /\ ~r.settled /\ ~r.tracked
  /\ r.tracked => ~r.settled

\* No index is both queued and in flight.
Apart(rs) == \A r, q \in rs : r.tracked /\ q.pc = "queued" /\ r.kind = q.kind => r.index # q.index

QueuedAt(rs, kind) == {r.index : r \in {q \in rs : q.pc = "queued" /\ q.kind = kind}}

IsQueue(s) == s \in Seq(Int) /\ \A i, j \in DOMAIN s : s[i] = s[j] => i = j

QueueOf(rs, kind, s) ==
  /\ IsQueue(s)
  /\ ToSet(s) = QueuedAt(rs, kind)

RequestsOK(n, latest, rs) == IsFiniteSet(rs) /\ (\A r \in rs : RequestOf(n, latest, r)) /\ Apart(rs)

QueuesOK(rs, q) == DOMAIN q = Kinds /\ \A k \in Kinds : QueueOf(rs, k, q[k])

DisplayOK(d) == \A x \in d : x \in [url: Int, blob: BlobsFor(Int)] /\ x.blob.url = x.url

IsKept(w) == DOMAIN w = {"nav", "run", "requests", "queues", "display", "live"}

KeptInv(w) ==
  /\ IsKept(w) /\ NavOK(w.nav) /\ w.run \in Nat /\ (w.nav # Closed => w.run >= 1)
  /\ RequestsOK(w.nav, w.run, w.requests) /\ QueuesOK(w.requests, w.queues)
  /\ DisplayOK(w.display) /\ w.live \subseteq BlobsFor(Int)

\* The window has the same base, or there is none still.
SameBase(m, n) == (m = Closed <=> n = Closed) /\ (n # Closed => m.base = n.base)

\* Every request that has left the queue is still there, as settled as it was.
RequestsLast(rs, qs) ==
  \A r \in rs : r.pc # "queued" =>
    \E q \in qs : Identity(q) = Identity(r) /\ q.pc # "queued" /\ q.settled = r.settled

\* What asking for an index leaves of the window and of the requests there were.
AskedFor(w, x) ==
  /\ KeptInv(x) /\ x.run = w.run /\ x.display = w.display
  /\ SameBase(x.nav, w.nav) /\ RequestsLast(w.requests, x.requests)

\* A request that will wake whoever waits for it, and one that has.
Waking(rs, id) == \E r \in rs : Identity(r) = id /\ r.pc # "queued" /\ ~r.settled
Woken(rs, id) == \E r \in rs : Identity(r) = id /\ r.settled

PressIs(s, n, rs) ==
  /\ \/ s.pc = "idle"
     \/ /\ DOMAIN s = {"pc", "dir", "run", "from", "attempt", "waits"}
        /\ s.pc \in {"seeking", "parked", "probed", "resolved"} /\ s.dir \in {-1, 1}
  /\ s.pc = "seeking" => n # Closed /\ \A i \in n.blocked : Bucket(n, i) = "WALL"
  /\ s.pc = "parked" => Waking(rs, s.waits)
  /\ s.pc = "probed" => s.waits.index \in Int

BnInv ==
  /\ trail \in Trails /\ shown \in Int /\ radius \in Radii
  /\ inputs \in 0..MaxInputs /\ decoded \in 0..MaxBlobs /\ run <= MaxRuns
  /\ KeptInv(Kept) /\ PressIs(step, nav, requests)

-------------------------------------------------------------------------------
(* The window and its reducer                                              *)

LEMMA LargerOf ==
  /\ \A a, b \in Int : Max({a, b}) = IF a >= b THEN a ELSE b
  /\ \A a, b \in Int : Min({a, b}) = IF a <= b THEN a ELSE b
  <1>1. ASSUME NEW a \in Int, NEW b \in Int PROVE Max({a, b}) = IF a >= b THEN a ELSE b
    BY SMT DEF Max
  <1>2. ASSUME NEW a \in Int, NEW b \in Int PROVE Min({a, b}) = IF a <= b THEN a ELSE b
    BY SMT DEF Min
  <1> QED BY <1>1, <1>2

LEMMA ProbeKIs == \A n \in Radii : ProbeK(n) \in Nat /\ ProbeK(n) >= 1
  BY NavigationAssumption, LargerOf DEF ProbeK

LEMMA EntryAtIs ==
  ASSUME NEW n, IsOpen(n), NEW i \in Int
  PROVE  NavEntry(n.base + i, EntryAt(n, i))
  <1>1. CASE i \in DOMAIN n.entry
    BY <1>1 DEF IsOpen, NavEntries, EntryAt
  <1>2. CASE i \notin DOMAIN n.entry
    BY <1>2 DEF IsOpen, NavEntries, EntryAt, NavEntry, EmptyEntry, Manifests, ImageStates
  <1> QED BY <1>1, <1>2

LEMMA OpenIsNotClosed == \A n : IsOpen(n) => n # Closed
  <1> SUFFICES ASSUME NEW n, IsOpen(n) PROVE n # Closed
    OBVIOUS
  <1>1. "base" \in DOMAIN n
    BY DEF IsOpen
  <1>2. DOMAIN Closed = {}
    BY DEF Closed
  <1> QED BY <1>1, <1>2

\* Some entries of a window are set.
NavSets(m, n, I, f) == m = [n EXCEPT !.entry = [j \in DOMAIN @ \cup I |-> IF j \in I THEN f[j] ELSE @[j]]]

\* The window is the same, but for its entries.
SameSeek(m, n) ==
  /\ m.base = n.base /\ m.cursor = n.cursor /\ m.radius = n.radius
  /\ m.seek = n.seek /\ m.blocked = n.blocked

LEMMA EntriesSet ==
  ASSUME NEW n, IsOpen(n), NEW I \in SUBSET Int, IsFiniteSet(I), NEW f,
         \A i \in I : NavEntry(n.base + i, f[i]), NEW m, NavSets(m, n, I, f)
  PROVE  /\ IsOpen(m) /\ SameSeek(m, n) /\ DOMAIN m.entry = DOMAIN n.entry \cup I
         /\ \A i \in DOMAIN m.entry : m.entry[i] = IF i \in I THEN f[i] ELSE n.entry[i]
  <1> DEFINE entry == [j \in DOMAIN n.entry \cup I |-> IF j \in I THEN f[j] ELSE n.entry[j]]
  <1>2. m = [n EXCEPT !.entry = entry]
    BY DEF NavSets
  <1>3. NavEntries(n.base, entry)
    <2>1. NavEntries(n.base, n.entry)
      BY DEF IsOpen
    <2>2. DOMAIN entry \in SUBSET Int /\ IsFiniteSet(DOMAIN entry)
      <3>1. IsFiniteSet(DOMAIN n.entry \cup I)
        BY <2>1, FS_Union DEF NavEntries
      <3> QED BY <2>1, <3>1 DEF NavEntries
    <2>3. \A i \in DOMAIN entry : NavEntry(n.base + i, entry[i])
      BY <2>1 DEF NavEntries
    <2> QED BY <2>2, <2>3 DEF NavEntries
  <1>4. DOMAIN entry = DOMAIN n.entry \cup I /\ \A i \in DOMAIN entry : entry[i] = IF i \in I THEN f[i] ELSE n.entry[i]
    OBVIOUS
  <1> HIDE DEF entry
  <1>5. DOMAIN m = DOMAIN n
    BY <1>2
  <1>6. m.entry = entry /\ m.base = n.base /\ m.cursor = n.cursor
        /\ m.radius = n.radius /\ m.seek = n.seek /\ m.blocked = n.blocked
    BY <1>2 DEF IsOpen
  <1>7. IsOpen(m)
    BY <1>3, <1>4, <1>5, <1>6 DEF IsOpen, SeekRests
  <1> QED BY <1>4, <1>6, <1>7 DEF SameSeek

LEMMA SetIndexIs ==
  ASSUME NEW n, IsOpen(n), NEW i \in Int, NEW e, NavEntry(n.base + i, e), NEW m, m = SetIndex(n, i, e)
  PROVE  IsOpen(m) /\ SameSeek(m, n)
  <1> DEFINE f == [j \in {i} |-> e]
  <1>1. NavSets(m, n, {i}, f)
    <2>1. \A S, g : [j \in S \cup {i} |-> IF j = i THEN e ELSE g[j]]
                    = [j \in S \cup {i} |-> IF j \in {i} THEN f[j] ELSE g[j]]
      OBVIOUS
    <2> QED BY <2>1 DEF SetIndex, NavSets
  <1>2. IsFiniteSet({i}) /\ {i} \in SUBSET Int /\ \A j \in {i} : NavEntry(n.base + j, f[j])
    BY FS_Singleton
  <1> HIDE DEF f
  <1> QED BY <1>1, <1>2, EntriesSet, Zenon

LEMMA SetManifestIs ==
  ASSUME NEW n, IsOpen(n), NEW i \in Int, NEW status \in Manifests,
         NEW m, m = SetManifest(n, i, status, n.base + i)
  PROVE  IsOpen(m) /\ SameSeek(m, n)
  <1>1. NavEntry(n.base + i, EntryAt(n, i))
    BY EntryAtIs
  <1> DEFINE e == IF status = "PRESENT"
                  THEN [EntryAt(n, i) EXCEPT !.manifest = status, !.url = {n.base + i}]
                  ELSE [EntryAt(n, i) EXCEPT !.manifest = status, !.image = "UNKNOWN", !.blob = {}]
  <1>2. NavEntry(n.base + i, e)
    <2>1. CASE status = "PRESENT"
      BY <1>1, <2>1 DEF NavEntry
    <2>2. CASE status # "PRESENT"
      BY <1>1, <2>2 DEF NavEntry, ImageStates
    <2> QED BY <2>1, <2>2
  <1>3. m = SetIndex(n, i, e)
    BY DEF SetManifest
  <1> HIDE DEF e
  <1> QED BY <1>2, <1>3, SetIndexIs

LEMMA SetImageIs ==
  ASSUME NEW n, IsOpen(n), NEW i \in Int, NEW status \in ImageStates, NEW blob,
         blob \in SUBSET BlobsFor({n.base + i}), blob # {} <=> status = "OK",
         NEW m, m = SetImage(n, i, status, blob)
  PROVE  IsOpen(m) /\ SameSeek(m, n)
  <1>1. NavEntry(n.base + i, [EntryAt(n, i) EXCEPT !.image = status, !.blob = blob])
    BY EntryAtIs DEF NavEntry
  <1> QED BY <1>1, SetIndexIs DEF SetImage

-------------------------------------------------------------------------------
(* A seek stops                                                            *)

\* Among the first bumps of a seek one more than there are entries, one is undecided.
LEMMA SomeWall ==
  ASSUME NEW n, IsOpen(n), n.seek # NoSeek
  PROVE  /\ Cardinality(DOMAIN n.entry) \in Nat
         /\ \E k \in 1..(Cardinality(DOMAIN n.entry) + 1) : Bucket(n, Along(n, k)) = "WALL"
  <1> DEFINE D == DOMAIN n.entry
  <1>1. PICK c \in Nat : c = Cardinality(D) /\ IsFiniteSet(D) /\ D \in SUBSET Int
    BY FS_CardinalityType DEF IsOpen, NavEntries
  <1>2. n.cursor \in Int /\ n.seek.dir \in {-1, 1}
    <2>1. n.cursor \in Int
      BY <1>1 DEF IsOpen
    <2> QED BY <2>1 DEF IsOpen, SeekRests
  <1>3. \A k \in Nat : Along(n, k) \in Int
    BY <1>2 DEF Along
  <1>4. \A j, k \in Nat : Along(n, j) = Along(n, k) => j = k
    BY <1>2 DEF Along
  <1> HIDE DEF D
  <1>5. \E k \in 1..(c + 1) : Along(n, k) \notin D
    <2> SUFFICES ASSUME \A k \in 1..(c + 1) : Along(n, k) \in D PROVE FALSE
      OBVIOUS
    <2> DEFINE f == [k \in 1..(c + 1) |-> Along(n, k)]
    <2>1. f \in [1..(c + 1) -> D]
      BY SMT
    <2>2. IsFiniteSet(1..(c + 1)) /\ Cardinality(1..(c + 1)) = c + 1
      <3>1. PICK K \in Int : K = c + 1 /\ K >= 1
        OBVIOUS
      <3>2. IsFiniteSet(1..K) /\ Cardinality(1..K) = IF 1 > K THEN 0 ELSE K - 1 + 1
        BY FS_Interval
      <3> QED BY <3>1, <3>2
    <2>3. c < c + 1
      BY <1>1
    <2>4. \A j, k \in 1..(c + 1) : f[j] = f[k] => j = k
      BY <1>4
    <2> HIDE DEF f
    <2>5. \E j, k \in 1..(c + 1) : j # k /\ f[j] = f[k]
      BY <1>1, <2>1, <2>2, <2>3, FS_PigeonHole
    <2> QED BY <2>4, <2>5
  <1>6. \A i : i \notin D => Bucket(n, i) = "WALL"
    BY DEF D, Bucket, EntryAt, EmptyEntry
  <1> QED BY <1>1, <1>5, <1>6 DEF D

LEMMA LeastIn ==
  ASSUME NEW N \in Nat, NEW T \in SUBSET (1..N), T # {}
  PROVE  \E k \in T : \A j \in 1..(k - 1) : j \notin T
  <1>1. T \subseteq Nat
    OBVIOUS
  <1>2. PICK k \in T : \A m \in T : k <= m
    BY <1>1, LeastNat
  <1> QED BY <1>2

LEMMA GreatestIn ==
  ASSUME NEW N \in Nat, NEW T \in SUBSET (1..N), T # {}
  PROVE  Max(T) \in T
  <1> DEFINE G == {N - j : j \in T}
  <1>1. G \subseteq Nat /\ G # {}
    <2>1. \A j \in T : N - j \in Nat
      OBVIOUS
    <2>2. PICK t \in T : TRUE
      OBVIOUS
    <2>3. N - t \in G
      BY <2>2
    <2> QED BY <2>1, <2>3
  <1> HIDE DEF G
  <1>2. PICK g \in G : \A m \in G : g <= m
    BY <1>1, LeastNat
  <1>3. PICK k \in T : g = N - k
    BY <1>2 DEF G
  <1>4. \A j \in T : k >= j
    <2> TAKE j \in T
    <2>1. N - k <= N - j
      BY <1>2, <1>3 DEF G
    <2> QED BY <2>1
  <1> QED BY <1>4 DEF Max

\* Wherever a seek stops: the cursor is at an entry, and what blocks is undecided.
LEMMA AdvanceSeekIs ==
  ASSUME NEW n, IsOpen(n), NEW m, m = AdvanceSeek(n)
  PROVE  /\ IsOpen(m) /\ m.base = n.base /\ m.radius = n.radius /\ m.entry = n.entry
         /\ \A i \in m.blocked : Bucket(m, i) = "WALL"
  <1>1. CASE n.seek = NoSeek
    <2>1. m = n
      BY <1>1 DEF AdvanceSeek
    <2>2. n.blocked = {}
      BY <1>1 DEF IsOpen, SeekRests, NoSeek
    <2> QED BY <2>1, <2>2
  <1>2. CASE n.seek # NoSeek
    <2> DEFINE N == Cardinality(DOMAIN n.entry) + 1
               stop == CHOOSE k \in 1..N : Stops(n, k) /\ \A j \in 1..(k - 1) : ~Stops(n, j)
               landings == Landings(n, stop)
               cursor == IF landings = {} THEN n.cursor ELSE Along(n, Max(landings))
               moved == [n EXCEPT !.cursor = cursor]
    <2>0. m = IF Bucket(n, Along(n, stop)) = "WALL"
              THEN [moved EXCEPT !.seek.remaining = @ - Cardinality(landings), !.blocked = {Along(n, stop)}]
              ELSE [moved EXCEPT !.seek = NoSeek, !.blocked = {}]
      BY <1>2 DEF AdvanceSeek
    <2>1. N \in Nat
      BY <1>2, SomeWall
    <2>2. stop \in 1..N
      <3> DEFINE T == {k \in 1..N : Stops(n, k)}
      <3>1. T # {} /\ T \in SUBSET (1..N)
        BY <1>2, SomeWall DEF Stops
      <3> HIDE DEF N
      <3>2. \E k \in T : \A j \in 1..(k - 1) : j \notin T
        <4> HIDE DEF T
        <4> QED BY <2>1, <3>1, LeastIn
      <3>3. \E k \in 1..N : Stops(n, k) /\ \A j \in 1..(k - 1) : ~Stops(n, j)
        BY <2>1, <3>2
      <3> QED BY <3>3
    <2> HIDE DEF N, stop
    <2>3. stop \in Nat /\ n.cursor \in Int /\ n.seek.dir \in {-1, 1} /\ n.seek.remaining \in Int
      <3>1. stop \in Nat
        BY <2>1, <2>2
      <3>2. n.cursor \in Int
        BY DEF IsOpen, NavEntries
      <3> QED BY <1>2, <3>1, <3>2 DEF IsOpen, SeekRests
    <2>4. Along(n, stop) \in Int
      BY <2>3 DEF Along
    <2>5. landings \in SUBSET (1..stop)
      BY DEF Landings
    <2>6. Cardinality(landings) \in Nat
      <3>1. IsFiniteSet(landings)
        BY <2>3, <2>5, FS_Interval, FS_Subset
      <3> QED BY <3>1, FS_CardinalityType
    <2>7. cursor \in DOMAIN n.entry
      <3>1. CASE landings = {}
        BY <3>1 DEF IsOpen
      <3>2. CASE landings # {}
        <4> DEFINE top == Max(landings)
        <4>1. top \in landings
          BY <2>3, <2>5, <3>2, GreatestIn
        <4>2. Bucket(n, Along(n, top)) = "LANDABLE"
          BY <4>1 DEF Landings
        <4>3. \A i : Bucket(n, i) = "LANDABLE" => i \in DOMAIN n.entry
          BY DEF Bucket, EntryAt, EmptyEntry
        <4> QED BY <3>2, <4>2, <4>3
      <3> QED BY <3>1, <3>2
    <2> HIDE DEF landings, cursor
    <2>8. /\ DOMAIN moved = DOMAIN n /\ moved.cursor = cursor /\ moved.base = n.base /\ moved.radius = n.radius
          /\ moved.entry = n.entry /\ moved.seek = n.seek
      BY DEF IsOpen
    <2> HIDE DEF moved
    <2>9. CASE Bucket(n, Along(n, stop)) = "WALL"
      <3> DEFINE seek == [n.seek EXCEPT !.remaining = @ - Cardinality(landings)]
      <3>1. m = [moved EXCEPT !.seek = seek, !.blocked = {Along(n, stop)}]
        BY <2>0, <2>8, <2>9
      <3>2. seek \in [dir : {-1, 0, 1}, remaining : Int] /\ seek.dir # 0
        BY <2>3, <2>6 DEF IsOpen, SeekRests
      <3> HIDE DEF seek
      <3>3. /\ DOMAIN m = DOMAIN n /\ m.cursor = cursor /\ m.base = n.base /\ m.radius = n.radius
            /\ m.entry = n.entry /\ m.seek = seek /\ m.blocked = {Along(n, stop)}
        BY <2>8, <3>1 DEF IsOpen
      <3>4. IsOpen(m)
        BY <2>4, <2>7, <3>2, <3>3 DEF IsOpen, SeekRests
      <3>5. Bucket(m, Along(n, stop)) = Bucket(n, Along(n, stop))
        BY <3>3 DEF Bucket, EntryAt
      <3> QED BY <2>9, <3>3, <3>4, <3>5
    <2>10. CASE Bucket(n, Along(n, stop)) # "WALL"
      <3>1. m = [moved EXCEPT !.seek = NoSeek, !.blocked = {}]
        BY <2>0, <2>10
      <3>2. /\ DOMAIN m = DOMAIN n /\ m.cursor = cursor /\ m.base = n.base /\ m.radius = n.radius
            /\ m.entry = n.entry /\ m.seek = NoSeek /\ m.blocked = {}
        BY <2>8, <3>1 DEF IsOpen
      <3>3. NoSeek \in [dir : {-1, 0, 1}, remaining : Int]
        BY DEF NoSeek
      <3> QED BY <2>7, <3>2, <3>3 DEF IsOpen, SeekRests
    <2> QED BY <2>9, <2>10
  <1> QED BY <1>1, <1>2

LEMMA SeekIs ==
  ASSUME NEW n, IsOpen(n), NEW dir \in {-1, 1}, NEW m, m = Seek(n, dir)
  PROVE  /\ IsOpen(m) /\ m.base = n.base /\ m.radius = n.radius /\ m.entry = n.entry
         /\ \A i \in m.blocked : Bucket(m, i) = "WALL"
  <1> DEFINE remaining == IF n.seek.dir = dir THEN Min({n.seek.remaining + 1, ProbeK(n.radius)}) ELSE 1
             seek == [dir |-> dir, remaining |-> remaining]
             s == [n EXCEPT !.seek = seek]
  <1>1. remaining \in Int
    <2>1. n.seek.remaining + 1 \in Int /\ ProbeK(n.radius) \in Int
      BY ProbeKIs DEF IsOpen, SeekRests
    <2> QED BY <2>1, LargerOf
  <1>2. seek \in [dir : {-1, 0, 1}, remaining : Int] /\ seek.dir # 0
    BY <1>1
  <1>3. m = AdvanceSeek(s)
    BY DEF Seek
  <1> HIDE DEF seek
  <1>4. /\ DOMAIN s = DOMAIN n /\ s.cursor = n.cursor /\ s.base = n.base /\ s.radius = n.radius
        /\ s.entry = n.entry /\ s.seek = seek /\ s.blocked = n.blocked
    BY DEF IsOpen
  <1>5. IsOpen(s)
    BY <1>2, <1>4 DEF IsOpen, SeekRests
  <1> HIDE DEF s
  <1> QED BY <1>3, <1>4, <1>5, AdvanceSeekIs

-------------------------------------------------------------------------------
(* Requests                                                                *)

LEMMA ImageIsFinite ==
  ASSUME NEW f, IsFiniteSet(DOMAIN f)
  PROVE  IsFiniteSet({f[r] : r \in DOMAIN f}) /\ Cardinality({f[r] : r \in DOMAIN f}) <= Cardinality(DOMAIN f)
  <1> DEFINE T == {f[r] : r \in DOMAIN f}
             g == [r \in DOMAIN f |-> f[r]]
  <1>1. g \in Surjection(DOMAIN f, T)
    BY DEF Surjection
  <1> HIDE DEF g
  <1> QED BY <1>1, FS_Surjection

LEMMA SameRequests ==
  ASSUME NEW n, NEW m, SameBase(m, n), NEW latest, NEW rs, RequestsOK(n, latest, rs)
  PROVE  RequestsOK(m, latest, rs)
  <1>1. ASSUME NEW r \in rs PROVE RequestOf(m, latest, r)
    <2>1. RequestOf(n, latest, r)
      BY DEF RequestsOK
    <2>2. RequestOf(m, latest, r)!1 /\ RequestOf(m, latest, r)!3
      BY <2>1 DEF RequestOf
    <2> QED BY <2>1 DEF RequestOf, SameBase
  <1> QED BY <1>1 DEF RequestsOK

LEMMA PersistTransitive ==
  ASSUME NEW rs, NEW qs, NEW ps, RequestsLast(rs, qs), RequestsLast(qs, ps)
  PROVE  RequestsLast(rs, ps)
  <1> SUFFICES ASSUME NEW r \in rs, r.pc # "queued"
               PROVE  \E p \in ps : Identity(p) = Identity(r) /\ p.pc # "queued" /\ p.settled = r.settled
    BY DEF RequestsLast
  <1>1. PICK q \in qs : Identity(q) = Identity(r) /\ q.pc # "queued" /\ q.settled = r.settled
    BY DEF RequestsLast
  <1>2. PICK p \in ps : Identity(p) = Identity(q) /\ p.pc # "queued" /\ p.settled = q.settled
    BY <1>1 DEF RequestsLast
  <1> QED BY <1>1, <1>2

LEMMA PersistReflexive == \A rs, qs : rs \subseteq qs => RequestsLast(rs, qs)
  BY DEF RequestsLast

\* How a request starts, and how its place in flight is taken.
Begun(kind, r) == [r EXCEPT !.pc = IF kind = "head" THEN "policy" ELSE "fetch", !.tracked = TRUE]
Dropped(r) == [r EXCEPT !.tracked = FALSE]

LEMMA BegunIs ==
  ASSUME NEW n, NEW latest, NEW r, RequestOf(n, latest, r), NEW kind, NEW q, q = Begun(kind, r), r.pc = "queued"
  PROVE  RequestOf(n, latest, q) /\ Identity(q) = Identity(r) /\ q.pc # "queued" /\ q.tracked /\ q.kind = r.kind
         /\ q.index = r.index /\ q.settled = r.settled
  <1>1. q = [r EXCEPT !.pc = q.pc, !.tracked = TRUE] /\ q.pc \in {"policy", "fetch"}
    BY DEF Begun, RequestOf, IsRequest
  <1>2. /\ IsRequest(q) /\ q.kind = r.kind /\ q.index = r.index /\ q.run = r.run /\ q.twin = r.twin /\ q.url = r.url
        /\ q.settled = r.settled /\ q.tracked
    BY <1>1 DEF RequestOf, IsRequest
  <1> QED BY <1>1, <1>2 DEF RequestOf, Identity

LEMMA DroppedIs ==
  ASSUME NEW n, NEW latest, NEW r, RequestOf(n, latest, r), NEW q, q = Dropped(r)
  PROVE  RequestOf(n, latest, q) /\ Identity(q) = Identity(r) /\ q.pc = r.pc /\ ~q.tracked /\ q.kind = r.kind
         /\ q.index = r.index /\ q.settled = r.settled
  <1>1. /\ IsRequest(q) /\ q.kind = r.kind /\ q.index = r.index /\ q.run = r.run /\ q.twin = r.twin /\ q.url = r.url
        /\ q.settled = r.settled /\ q.pc = r.pc /\ ~q.tracked
    BY DEF RequestOf, IsRequest, Dropped
  <1> QED BY <1>1 DEF RequestOf, Identity

LEMMA FetchingIs ==
  ASSUME NEW n, IsOpen(n), NEW I \in SUBSET Int, IsFiniteSet(I), NEW m, m = Fetching(n, I)
  PROVE  IsOpen(m) /\ SameSeek(m, n)
  <1> DEFINE f == [i \in I |-> [EntryAt(n, i) EXCEPT !.image = "GET_PENDING", !.blob = {}]]
  <1>1. NavSets(m, n, I, f)
    <2>1. \A S, g : [i \in S \cup I |-> IF i \in I THEN [EntryAt(n, i) EXCEPT !.image = "GET_PENDING", !.blob = {}] ELSE g[i]]
                    = [i \in S \cup I |-> IF i \in I THEN f[i] ELSE g[i]]
      OBVIOUS
    <2> QED BY <2>1 DEF Fetching, NavSets
  <1>2. ASSUME NEW i \in I PROVE NavEntry(n.base + i, f[i])
    <2>1. NavEntry(n.base + i, EntryAt(n, i))
      BY EntryAtIs
    <2>2. f[i] = [EntryAt(n, i) EXCEPT !.image = "GET_PENDING", !.blob = {}]
      OBVIOUS
    <2> HIDE DEF f
    <2> QED BY <2>1, <2>2 DEF NavEntry, ImageStates
  <1> HIDE DEF f
  <1> QED BY <1>1, <1>2, EntriesSet, Zenon

\* Starting requests: those of these indices leave the queue, and nothing is lost.
Started(w, kind, I, x) ==
  /\ IsKept(x) /\ x.run = w.run /\ x.queues = w.queues /\ x.display = w.display /\ x.live = w.live
  /\ NavOK(x.nav) /\ SameBase(x.nav, w.nav) /\ (kind = "head" => x.nav = w.nav)
  /\ RequestsOK(x.nav, x.run, x.requests) /\ RequestsLast(w.requests, x.requests)
  /\ \A k \in Kinds : QueuedAt(x.requests, k) = IF k = kind THEN QueuedAt(w.requests, k) \ I
                                                          ELSE QueuedAt(w.requests, k)
  /\ \A i \in QueuedAt(w.requests, kind) \cap I :
       \E r \in x.requests : r.kind = kind /\ r.index = i /\ r.tracked

LEMMA StartRequestsIs ==
  ASSUME NEW w, IsKept(w), NavOK(w.nav), RequestsOK(w.nav, w.run, w.requests),
         NEW kind \in Kinds, NEW I, NEW x, x = StartRequests(w, kind, I)
  PROVE  Started(w, kind, I, x)
  <1> DEFINE R == w.requests
             begun == {r \in Queued(w, kind) : r.index \in I}
             at == {r.index : r \in begun}
             before == {r \in Inflight(w, kind) : r.index \in at}
             started == {Begun(kind, r) : r \in begun}
             next == Alter(w, begun \cup before, started \cup Untracked(before))
             Q == next.requests
  <1>0. x = IF kind = "head" \/ at = {} THEN next ELSE [next EXCEPT !.nav = Fetching(@, at)]
    BY DEF StartRequests, Begun
  <1>1. Q = (R \ (begun \cup before)) \cup started \cup {Dropped(r) : r \in before}
    BY DEF Alter, IsKept, Untracked, Dropped
  <1>2. /\ begun \subseteq R /\ before \subseteq R /\ at \in SUBSET Int
        /\ \A r \in begun : r.pc = "queued" /\ r.kind = kind /\ r.index \in I
        /\ \A r \in R : r.pc = "queued" /\ r.kind = kind /\ r.index \in I => r \in begun
        /\ \A r \in before : r.tracked /\ r.kind = kind
        /\ \A r \in R : RequestOf(w.nav, w.run, r)
    <2>1. \A r \in R : RequestOf(w.nav, w.run, r)
      BY DEF RequestsOK
    <2>2. \A r \in begun : r.index \in Int
      BY <2>1 DEF Queued, RequestOf, IsRequest
    <2> QED BY <2>1, <2>2 DEF Queued, Inflight
  <1>3. IsFiniteSet(R) /\ IsFiniteSet(begun) /\ IsFiniteSet(before)
    <2>1. IsFiniteSet(R)
      BY DEF RequestsOK
    <2> QED BY <1>2, <2>1, FS_Subset
  <1>4. /\ IsKept(next) /\ next.run = w.run /\ next.queues = w.queues /\ next.display = w.display
        /\ next.live = w.live /\ next.nav = w.nav
    BY DEF Alter, IsKept
  <1>5. IsFiniteSet(started) /\ IsFiniteSet(at) /\ IsFiniteSet({Dropped(r) : r \in before})
    <2>1. \A S, f : IsFiniteSet(S) /\ DOMAIN f = S => IsFiniteSet({f[r] : r \in S})
      BY ImageIsFinite
    <2> HIDE DEF begun, before
    <2>2. IsFiniteSet({[r \in begun |-> Begun(kind, r)][q] : q \in begun})
      BY <1>3, <2>1
    <2>3. IsFiniteSet({[r \in begun |-> r.index][q] : q \in begun})
      BY <1>3, <2>1
    <2>4. IsFiniteSet({[r \in before |-> Dropped(r)][q] : q \in before})
      BY <1>3, <2>1
    <2>5. /\ {[r \in begun |-> Begun(kind, r)][q] : q \in begun} = started
          /\ {[r \in begun |-> r.index][q] : q \in begun} = at
          /\ {[r \in before |-> Dropped(r)][q] : q \in before} = {Dropped(r) : r \in before}
      OBVIOUS
    <2> QED BY <2>2, <2>3, <2>4, <2>5
  <1> HIDE DEF Q, next, at, begun, before
  \* Where each request comes from.
  <1>6. \A r \in begun : LET q == Begun(kind, r) IN
          RequestOf(w.nav, w.run, q) /\ Identity(q) = Identity(r) /\ q.pc # "queued" /\ q.tracked /\ q.kind = r.kind
          /\ q.index = r.index /\ q.settled = r.settled
    BY <1>2, BegunIs
  <1>7. \A r \in before : LET q == Dropped(r) IN
          RequestOf(w.nav, w.run, q) /\ Identity(q) = Identity(r) /\ q.pc = r.pc /\ ~q.tracked /\ q.kind = r.kind
          /\ q.index = r.index /\ q.settled = r.settled
    BY <1>2, DroppedIs
  <1>8. \A r \in R : r.tracked => r.pc # "queued"
    BY <1>2 DEF RequestOf
  <1>9. IsFiniteSet(Q)
    <2>1. IsFiniteSet(R \ (begun \cup before))
      BY <1>3, FS_Difference
    <2>2. IsFiniteSet((R \ (begun \cup before)) \cup started)
      BY <1>5, <2>1, FS_Union
    <2> HIDE DEF started
    <2> QED BY <1>1, <1>5, <2>2, FS_Union
  <1>10. \A q \in Q : RequestOf(w.nav, w.run, q)
    BY <1>1, <1>2, <1>6, <1>7
  <1>11. \A q \in Q : q.pc = "queued" => q \in R /\ q \notin begun
    BY <1>1, <1>2, <1>6, <1>7, <1>8
  <1>12. \A q \in Q : q.tracked => q \in R \/ \E r \in begun : q.kind = kind /\ q.index = r.index
    BY <1>1, <1>2, <1>6, <1>7
  <1>13. Apart(Q)
    <2> SUFFICES ASSUME NEW a \in Q, NEW b \in Q, a.tracked, b.pc = "queued", a.kind = b.kind
                 PROVE  a.index # b.index
      BY DEF Apart
    <2>1. b \in R /\ b \notin begun
      BY <1>11
    <2>2. CASE a \in R
      BY <2>1, <2>2 DEF RequestsOK, Apart
    <2>3. CASE \E r \in begun : a.kind = kind /\ a.index = r.index
      BY <1>2, <2>1, <2>3
    <2> QED BY <1>12, <2>2, <2>3
  <1>14. RequestsOK(w.nav, w.run, Q)
    BY <1>9, <1>10, <1>13 DEF RequestsOK
  <1>15. RequestsLast(R, Q)
    <2> SUFFICES ASSUME NEW r \in R, r.pc # "queued"
                 PROVE  \E q \in Q : Identity(q) = Identity(r) /\ q.pc # "queued" /\ q.settled = r.settled
      BY DEF RequestsLast
    <2>1. CASE r \in before
      BY <1>1, <1>7, <2>1
    <2>2. CASE r \notin before
      BY <1>1, <1>2, <2>2
    <2> QED BY <2>1, <2>2
  <1>16. \A k \in Kinds : QueuedAt(Q, k) = IF k = kind THEN QueuedAt(R, k) \ I ELSE QueuedAt(R, k)
    <2> TAKE k \in Kinds
    <2>1. \A q \in R : q.pc = "queued" /\ ~(q.kind = kind /\ q.index \in I) => q \in Q
      BY <1>1, <1>2, <1>8
    <2>2. \A q \in Q : q.pc = "queued" => q \in R /\ ~(q.kind = kind /\ q.index \in I)
      BY <1>2, <1>11
    <2> QED BY <2>1, <2>2 DEF QueuedAt
  <1>17. \A i \in QueuedAt(R, kind) \cap I : \E q \in Q : q.kind = kind /\ q.index = i /\ q.tracked
    <2> TAKE i \in QueuedAt(R, kind) \cap I
    <2>1. PICK r \in R : r.pc = "queued" /\ r.kind = kind /\ r.index = i
      BY DEF QueuedAt
    <2>2. r \in begun /\ Begun(kind, r) \in Q
      BY <1>1, <1>2, <2>1
    <2> QED BY <1>6, <2>1, <2>2
  <1>18. x.nav = IF kind = "head" \/ at = {} THEN w.nav ELSE Fetching(w.nav, at)
    BY <1>0, <1>4 DEF IsKept
  <1>19. /\ IsKept(x) /\ x.run = w.run /\ x.queues = w.queues /\ x.display = w.display /\ x.live = w.live
         /\ x.requests = Q
    BY <1>0, <1>4 DEF IsKept, Q
  <1>20. NavOK(x.nav) /\ SameBase(x.nav, w.nav)
    <2>1. CASE kind = "head" \/ at = {}
      BY <1>18, <2>1 DEF SameBase
    <2>2. CASE ~(kind = "head" \/ at = {})
      <3>1. PICK r \in begun : TRUE
        BY <2>2 DEF at
      <3>2. w.nav # Closed
        BY <1>2, <3>1 DEF RequestOf
      <3>3. IsOpen(w.nav) /\ x.nav = Fetching(w.nav, at) /\ at \in SUBSET Int
        BY <1>2, <1>18, <2>2, <3>2 DEF NavOK
      <3>4. IsOpen(x.nav) /\ SameSeek(x.nav, w.nav)
        BY <1>5, <3>3, FetchingIs
      <3> QED BY <3>2, <3>4, OpenIsNotClosed DEF NavOK, SameBase, SameSeek
    <2> QED BY <2>1, <2>2
  <1>21. RequestsOK(x.nav, x.run, x.requests)
    BY <1>14, <1>19, <1>20, SameRequests
  <1> HIDE DEF Q
  <1> QED BY <1>15, <1>16, <1>17, <1>18, <1>19, <1>20, <1>21 DEF Started

-------------------------------------------------------------------------------
(* Queues                                                                  *)

LEMMA QueueSplits ==
  ASSUME NEW s, IsQueue(s), NEW f \in 0..Len(s),
         NEW t, t = SubSeq(s, f + 1, Len(s))
  PROVE  /\ IsQueue(t)
         /\ ToSet(t) = ToSet(s) \ ToSet(SubSeq(s, 1, f))
  <1>0. s \in Seq(Int)
    BY DEF IsQueue
  <1>1. PICK L \in Nat : L = Len(s) /\ DOMAIN s = 1..L /\ f \in Nat /\ f <= L
    BY <1>0
  <1>2. t \in Seq(Int) /\ DOMAIN t = 1..(L - f) /\ \A i \in 1..(L - f) : t[i] = s[f + i]
    BY <1>0, <1>1
  <1>3. DOMAIN SubSeq(s, 1, f) = 1..f /\ \A i \in 1..f : SubSeq(s, 1, f)[i] = s[i]
    BY <1>0, <1>1
  <1>4. ASSUME NEW i \in 1..(L - f), NEW j \in 1..(L - f), t[i] = t[j] PROVE i = j
    <2>1. f + i \in 1..L /\ f + j \in 1..L
      BY <1>1
    <2>2. s[f + i] = s[f + j]
      BY <1>2, <1>4
    <2>3. f + i = f + j
      BY <1>1, <2>1, <2>2 DEF IsQueue
    <2> QED BY <1>1, <2>3
  <1>5. ASSUME NEW e PROVE e \in ToSet(t) <=> e \in ToSet(s) /\ e \notin ToSet(SubSeq(s, 1, f))
    <2>1. e \in ToSet(t) <=> \E i \in 1..(L - f) : e = s[f + i]
      BY <1>2 DEF ToSet
    <2>2. e \in ToSet(SubSeq(s, 1, f)) <=> \E i \in 1..f : e = s[i]
      BY <1>3 DEF ToSet
    <2>3. e \in ToSet(s) <=> \E i \in 1..L : e = s[i]
      BY <1>1 DEF ToSet
    <2>4. ASSUME NEW i \in 1..L, e = s[i], \A j \in 1..f : e # s[j] PROVE \E k \in 1..(L - f) : e = s[f + k]
      <3>1. i > f
        BY <1>1, <2>4
      <3>2. i - f \in 1..(L - f) /\ f + (i - f) = i
        BY <1>1, <3>1
      <3> QED BY <2>4, <3>2
    <2>5. ASSUME NEW k \in 1..(L - f) PROVE f + k \in 1..L /\ \A j \in 1..f : s[f + k] # s[j]
      <3>1. f + k \in 1..L
        BY <1>1
      <3>2. \A j \in 1..f : j \in 1..L /\ j # f + k
        BY <1>1
      <3> QED BY <1>1, <3>1, <3>2 DEF IsQueue
    <2> QED BY <2>1, <2>2, <2>3, <2>4, <2>5
  <1> QED BY <1>2, <1>4, <1>5 DEF IsQueue

LEMMA QueueWithout ==
  ASSUME NEW s, IsQueue(s), NEW e,
         NEW t, t = Filter(s, LAMBDA j : j # e)
  PROVE  /\ IsQueue(t)
         /\ ToSet(t) = ToSet(s) \ {e}
  <1> DEFINE I == {i \in DOMAIN s : s[i] # e}
  <1>0. s \in Seq(Int) /\ DOMAIN s = 1..Len(s) /\ Len(s) \in Nat
    BY DEF IsQueue
  <1>1. t = Picked(s, I) /\ I \subseteq DOMAIN s
    BY DEF Filter
  <1>2. \A i : i \in I <=> i \in DOMAIN s /\ s[i] # e
    OBVIOUS
  <1> HIDE DEF I
  <1>3. PICK N \in Nat : N = Cardinality(I)
    BY <1>0, <1>1, PickedIs
  <1>4. t \in Seq(Int) /\ DOMAIN t = 1..N
    BY <1>0, <1>1, <1>3, PickedIs
  <1>5. \A n \in 1..N : Nth(I, n) \in I /\ t[n] = s[Nth(I, n)]
    BY <1>0, <1>1, <1>3, PickedIs
  <1>6. \A m, n \in 1..N : m < n => Nth(I, m) < Nth(I, n)
    BY <1>0, <1>1, <1>3, PickedIs
  <1>7. \A i \in I : \E n \in 1..N : Nth(I, n) = i
    BY <1>0, <1>1, <1>3, PickedIs
  <1>8. ASSUME NEW m \in 1..N, NEW n \in 1..N, t[m] = t[n] PROVE m = n
    <2>1. Nth(I, m) \in DOMAIN s /\ Nth(I, n) \in DOMAIN s /\ s[Nth(I, m)] = s[Nth(I, n)]
      BY <1>1, <1>5, <1>8
    <2>2. Nth(I, m) = Nth(I, n) /\ Nth(I, m) \in Nat
      BY <1>0, <2>1 DEF IsQueue
    <2>3. ~(m < n) /\ ~(n < m)
      BY <1>6, <2>2
    <2> QED BY <2>3
  <1>9. ASSUME NEW v PROVE v \in ToSet(t) <=> v \in ToSet(s) \ {e}
    <2>1. v \in ToSet(t) <=> \E n \in 1..N : v = t[n]
      BY <1>4 DEF ToSet
    <2>2. (\E n \in 1..N : v = t[n]) <=> \E i \in I : v = s[i]
      BY <1>5, <1>7
    <2>3. (\E i \in I : v = s[i]) <=> v \in ToSet(s) /\ v # e
      BY <1>2 DEF ToSet
    <2> QED BY <2>1, <2>2, <2>3
  <1> QED BY <1>4, <1>8, <1>9 DEF IsQueue

\* What the queues hold is kept when the requests of some indices start.
LEMMA DequeueIs ==
  ASSUME NEW w, KeptInv(w), NEW kind \in Kinds, NEW I, NEW t,
         IsQueue(t), ToSet(t) = ToSet(w.queues[kind]) \ I,
         NEW x, x = StartRequests([w EXCEPT !.queues[kind] = t], kind, I)
  PROVE  /\ AskedFor(w, x) /\ (kind = "head" => x.nav = w.nav)
         /\ \A i \in QueuedAt(w.requests, kind) \cap I :
              \E r \in x.requests : r.kind = kind /\ r.index = i /\ r.tracked
         /\ \A i \in I : i \notin QueuedAt(x.requests, kind)
  <1> DEFINE y == [w EXCEPT !.queues[kind] = t]
  <1>1. /\ IsKept(y) /\ y.nav = w.nav /\ y.run = w.run /\ y.requests = w.requests /\ y.display = w.display
        /\ y.live = w.live /\ y.queues = [w.queues EXCEPT ![kind] = t]
    BY DEF KeptInv, IsKept
  <1>2. NavOK(y.nav) /\ RequestsOK(y.nav, y.run, y.requests)
    BY <1>1 DEF KeptInv
  <1>3. x = StartRequests(y, kind, I)
    OBVIOUS
  <1> HIDE DEF y
  <1>4. Started(y, kind, I, x)
    BY <1>1, <1>2, <1>3, StartRequestsIs
  <1>5. QueuesOK(x.requests, x.queues)
    <2>1. QueuesOK(w.requests, w.queues)
      BY DEF KeptInv
    <2>2. DOMAIN x.queues = Kinds /\ x.queues[kind] = t /\ \A k \in Kinds : k # kind => x.queues[k] = w.queues[k]
      BY <1>1, <1>4, <2>1 DEF QueuesOK, Started
    <2>3. QueueOf(x.requests, kind, t)
      BY <1>1, <1>4, <2>1 DEF QueueOf, QueuesOK, Started
    <2>4. ASSUME NEW k \in Kinds, k # kind PROVE QueueOf(x.requests, k, w.queues[k])
      <3>1. QueuedAt(x.requests, k) = QueuedAt(w.requests, k)
        BY <1>1, <1>4, <2>4 DEF Started
      <3>2. QueueOf(w.requests, k, w.queues[k])
        BY <2>1 DEF QueuesOK
      <3> QED BY <3>1, <3>2 DEF QueueOf
    <2> QED BY <2>2, <2>3, <2>4 DEF QueuesOK
  <1>6. KeptInv(x)
    BY <1>1, <1>4, <1>5 DEF KeptInv, Started, SameBase
  <1> QED BY <1>1, <1>4, <1>6 DEF AskedFor, Started

LEMMA DrainIs ==
  ASSUME NEW w, KeptInv(w), NEW kind \in Kinds, NEW x, x = Drain(w, kind)
  PROVE  AskedFor(w, x) /\ (kind = "head" => x.nav = w.nav)
  <1> DEFINE s == w.queues[kind]
             limit == IF kind = "head" THEN HeadLimit ELSE GetLimit
             room == limit - Cardinality(Inflight(w, kind))
             free == Max({0, Min({room, Len(s)})})
             t == SubSeq(s, free + 1, Len(s))
             I == ToSet(SubSeq(s, 1, free))
  <1>1. IsQueue(s)
    BY DEF KeptInv, QueuesOK, QueueOf
  <1>2. x = StartRequests([w EXCEPT !.queues[kind] = t], kind, I)
    <2>1. x = StartRequests([w EXCEPT !.queues[kind] = SubSeq(@, free + 1, Len(@))], kind, I)
      BY DEF Drain
    <2>2. [w EXCEPT !.queues[kind] = SubSeq(@, free + 1, Len(@))] = [w EXCEPT !.queues[kind] = t]
      OBVIOUS
    <2> QED BY <2>1, <2>2
  <1>3. room \in Int
    <2>1. IsFiniteSet(Inflight(w, kind))
      BY FS_Subset DEF KeptInv, RequestsOK, Inflight
    <2>2. Cardinality(Inflight(w, kind)) \in Nat
      BY <2>1, FS_CardinalityType
    <2> QED BY <2>2, NavigationAssumption
  <1>4. free \in 0..Len(s)
    <2> HIDE DEF room, s
    <2>1. Len(s) \in Nat
      BY <1>1 DEF IsQueue
    <2>2. PICK m \in Int : m = Min({room, Len(s)}) /\ m <= Len(s)
      BY <1>3, <2>1, LargerOf
    <2>3. free = IF 0 >= m THEN 0 ELSE m
      <3>1. \A b \in Int : Max({0, b}) = IF 0 >= b THEN 0 ELSE b
        BY LargerOf
      <3> QED BY <2>2, <3>1
    <2> QED BY <2>1, <2>2, <2>3
  <1> HIDE DEF free
  <1>5. IsQueue(t) /\ ToSet(t) = ToSet(s) \ I
    BY <1>1, <1>4, QueueSplits
  <1> HIDE DEF t, I
  <1> QED BY <1>2, <1>5, DequeueIs

\* What the user waits for is in flight at once.
LEMMA PromoteIs ==
  ASSUME NEW w, KeptInv(w), NEW kind \in Kinds, NEW i, i \in QueuedAt(w.requests, kind),
         NEW x, x = PromoteRequest(w, kind, i)
  PROVE  /\ AskedFor(w, x) /\ (kind = "head" => x.nav = w.nav)
         /\ \E r \in x.requests : r.kind = kind /\ r.index = i /\ r.tracked
  <1> DEFINE s == w.queues[kind]
             t == Filter(s, LAMBDA j : j # i)
  <1>1. IsQueue(s)
    BY DEF KeptInv, QueuesOK, QueueOf
  <1>2. x = StartRequests([w EXCEPT !.queues[kind] = t], kind, {i})
    <2>1. [w EXCEPT !.queues[kind] = Filter(@, LAMBDA j : j # i)] = [w EXCEPT !.queues[kind] = t]
      OBVIOUS
    <2> QED BY <2>1 DEF PromoteRequest
  <1>3. IsQueue(t) /\ ToSet(t) = ToSet(s) \ {i}
    BY <1>1, QueueWithout
  <1> HIDE DEF t
  <1>4. /\ AskedFor(w, x) /\ (kind = "head" => x.nav = w.nav)
        /\ \A j \in QueuedAt(w.requests, kind) \cap {i} :
             \E r \in x.requests : r.kind = kind /\ r.index = j /\ r.tracked
    BY <1>2, <1>3, DequeueIs
  <1> QED BY <1>4

\* The order of a queue: nobody is lost, nobody is there twice.
LEMMA SortedIs ==
  ASSUME NEW n, n.cursor \in Int, NEW s \in Seq(Int), NEW t, t = Sorted(n, s)
  PROVE  IsQueue(t) /\ ToSet(t) = ToSet(s)
  <1> DEFINE S == ToSet(s)
             keys == {Nearness(n, i) : i \in S}
             K == Cardinality(keys)
             at(k) == CHOOSE i \in S : Nearness(n, i) = Nth(keys, k)
  <1>1. S \in SUBSET Int /\ IsFiniteSet(S)
    <2>1. IsFiniteSet(DOMAIN s)
      <3>1. DOMAIN s = 1..Len(s) /\ Len(s) \in Int
        OBVIOUS
      <3> QED BY <3>1, FS_Interval
    <2>2. S = {s[i] : i \in DOMAIN s}
      BY DEF ToSet
    <2>3. IsFiniteSet(S)
      <3> HIDE DEF S
      <3> QED BY <2>1, <2>2, ImageIsFinite
    <2>4. S \in SUBSET Int
      BY <2>2
    <2> QED BY <2>3, <2>4
  <1> HIDE DEF S
  <1>2. ASSUME NEW i \in S, NEW j \in S PROVE Nearness(n, i) \in Nat /\ (Nearness(n, i) = Nearness(n, j) => i = j)
    <2>1. i \in Int /\ j \in Int
      BY <1>1
    <2> QED BY <2>1 DEF Nearness
  <1>3. keys \subseteq Nat /\ IsFiniteSet(keys)
    <2> DEFINE near == [i \in S |-> Nearness(n, i)]
    <2>1. keys = {near[i] : i \in DOMAIN near}
      OBVIOUS
    <2>2. IsFiniteSet(DOMAIN near)
      BY <1>1
    <2> HIDE DEF near
    <2>3. IsFiniteSet(keys)
      BY <2>1, <2>2, ImageIsFinite
    <2> QED BY <1>2, <2>3
  <1>4. t = [k \in 1..K |-> at(k)]
    BY DEF Sorted, S
  <1>5. \A i \in S : Nearness(n, i) \in keys
    OBVIOUS
  <1>6. \A e \in keys : \E i \in S : Nearness(n, i) = e
    OBVIOUS
  <1> HIDE DEF keys, K
  <1>7. /\ K \in Nat
        /\ \A k \in 1..K : Nth(keys, k) \in keys
        /\ \A i \in keys : \E k \in 1..K : Nth(keys, k) = i
        /\ \A j, k \in 1..K : j < k => Nth(keys, j) < Nth(keys, k)
    BY <1>3, NthIs DEF K
  <1>8. \A k \in 1..K : at(k) \in S /\ Nearness(n, at(k)) = Nth(keys, k)
    <2> TAKE k \in 1..K
    <2>1. \E i \in S : Nearness(n, i) = Nth(keys, k)
      BY <1>6, <1>7
    <2> QED BY <2>1
  <1> HIDE DEF at
  <1>9. t \in Seq(Int) /\ DOMAIN t = 1..K /\ \A k \in 1..K : t[k] = at(k)
    <2>1. \A k \in 1..K : at(k) \in Int
      BY <1>1, <1>8
    <2> QED BY <1>4, <1>7, <2>1
  <1>10. ASSUME NEW j \in 1..K, NEW k \in 1..K, t[j] = t[k] PROVE j = k
    <2>1. Nth(keys, j) = Nth(keys, k) /\ Nth(keys, j) \in Nat
      BY <1>3, <1>7, <1>8, <1>9, <1>10
    <2>2. ~(j < k) /\ ~(k < j)
      BY <1>7, <2>1
    <2> QED BY <1>7, <2>2
  <1>11. ASSUME NEW i \in S PROVE \E k \in 1..K : t[k] = i
    <2>1. PICK k \in 1..K : Nth(keys, k) = Nearness(n, i)
      BY <1>5, <1>7
    <2>2. at(k) = i
      BY <1>2, <1>8, <2>1
    <2> QED BY <1>9, <2>2
  <1>12. \A k \in 1..K : t[k] \in S
    BY <1>8, <1>9
  <1>13. ToSet(t) = S
    BY <1>9, <1>11, <1>12 DEF ToSet
  <1> QED BY <1>9, <1>10, <1>13 DEF IsQueue, S

\* A request is made, in the queue of its kind.
Made(w, kind, i, advance, follow, r) ==
  /\ IsRequest(r) /\ r.kind = kind /\ r.index = i /\ r.run = w.run /\ r.pc = "queued"
  /\ r.url = w.nav.base + i /\ ~r.tracked /\ ~r.settled

LEMMA MadeIs ==
  ASSUME NEW w, KeptInv(w), w.nav # Closed, NEW kind \in Kinds, NEW i \in Int,
         NEW advance \in BOOLEAN, NEW follow \in BOOLEAN,
         NEW r, r = NewRequest(w, kind, i, advance, follow)
  PROVE  Made(w, kind, i, advance, follow, r)
  <1> DEFINE url == IF kind = "get" /\ EntryAt(w.nav, i).url # {} THEN CHOOSE u \in EntryAt(w.nav, i).url : TRUE
                    ELSE w.nav.base + i
             same == {q \in w.requests : q.kind = kind /\ q.index = i /\ q.run = w.run}
             twin == CHOOSE t \in 0..Cardinality(same) : \A q \in same : q.twin # t
  <1>0. r = [kind |-> kind, index |-> i, run |-> w.run, twin |-> twin, pc |-> "queued", url |-> url,
             advance |-> advance, follow |-> follow, tracked |-> FALSE, settled |-> FALSE]
    BY DEF NewRequest
  <1>1. IsOpen(w.nav)
    BY DEF KeptInv, NavOK
  <1>2. url = w.nav.base + i /\ url \in Int
    <2>1. EntryAt(w.nav, i).url \subseteq {w.nav.base + i}
      BY <1>1, EntryAtIs DEF NavEntry
    <2>2. url = w.nav.base + i
      BY <2>1
    <2>3. w.nav.base \in Int
      BY <1>1 DEF IsOpen
    <2>4. w.nav.base + i \in Int
      BY <2>3
    <2> QED BY <2>2, <2>4
  <1>3. twin \in Nat
    <2>1. IsFiniteSet(same)
      BY FS_Subset DEF KeptInv, RequestsOK
    <2> HIDE DEF same
    <2>2. PICK c \in Nat : c = Cardinality(same)
      BY <2>1, FS_CardinalityType
    <2>3. \E t \in 0..c : \A q \in same : q.twin # t
      <3> SUFFICES ASSUME \A t \in 0..c : \E q \in same : q.twin = t PROVE FALSE
        OBVIOUS
      <3> DEFINE f == [t \in 0..c |-> CHOOSE q \in same : q.twin = t]
      <3>1. \A t \in 0..c : f[t] \in same /\ f[t].twin = t
        OBVIOUS
      <3> HIDE DEF f
      <3>2. f \in [0..c -> same]
        BY <3>1 DEF f
      <3>3. IsFiniteSet(0..c) /\ Cardinality(0..c) = c + 1
        <4>1. IsFiniteSet(0..c) /\ Cardinality(0..c) = IF 0 > c THEN 0 ELSE c - 0 + 1
          BY FS_Interval
        <4> QED BY <4>1
      <3>4. Cardinality(same) < Cardinality(0..c)
        BY <2>2, <3>3
      <3>5. \E t, u \in 0..c : t # u /\ f[t] = f[u]
        <4>1. PICK P : P = 0..c
          OBVIOUS
        <4>2. IsFiniteSet(P) /\ Cardinality(same) < Cardinality(P) /\ f \in [P -> same]
          BY <3>2, <3>3, <3>4, <4>1
        <4>3. \E t, u \in P : t # u /\ f[t] = f[u]
          BY <2>1, <4>2, FS_PigeonHole
        <4> QED BY <4>1, <4>3
      <3> QED BY <3>1, <3>5
    <2>4. twin \in 0..c
      BY <2>2, <2>3, Zenon
    <2> QED BY <2>2, <2>4
  <1>4. w.run \in Nat
    BY DEF KeptInv
  <1> HIDE DEF url, twin
  <1> QED BY <1>0, <1>2, <1>3, <1>4 DEF Made, IsRequest

LEMMA EnqueueIs ==
  ASSUME NEW w, KeptInv(w), w.nav # Closed, NEW kind \in Kinds, NEW i \in Int,
         NEW advance \in BOOLEAN, NEW follow \in BOOLEAN,
         \A r \in w.requests : r.kind = kind /\ r.index = i => ~r.tracked,
         NEW x, x = Enqueue(w, kind, i, advance, follow)
  PROVE  /\ AskedFor(w, x) /\ (kind = "head" => x.nav = w.nav)
         /\ advance => \E r \in x.requests : r.kind = kind /\ r.index = i /\ r.tracked
  <1> DEFINE made == NewRequest(w, kind, i, advance, follow)
             queues_(k) == Sorted(w.nav, IF k = kind THEN Append(w.queues[k], i) ELSE w.queues[k])
             next == [Alter(w, {}, {made}) EXCEPT !.queues = [k \in Kinds |-> queues_(k)]]
  <1>1. x = IF advance THEN PromoteRequest(next, kind, i) ELSE Drain(next, kind)
    <2>1. next = [Alter(w, {}, {made}) EXCEPT !.queues = [k \in Kinds |->
                    Sorted(w.nav, IF k = kind THEN Append(@[k], i) ELSE @[k])]]
      BY DEF Alter
    <2> HIDE DEF next
    <2> QED BY <2>1 DEF Enqueue
  <1>2. Made(w, kind, i, advance, follow, made)
    BY MadeIs
  <1> HIDE DEF made
  <1>3. /\ IsKept(next) /\ next.nav = w.nav /\ next.run = w.run /\ next.requests = w.requests \cup {made}
        /\ next.queues = [k \in Kinds |-> queues_(k)] /\ next.display = w.display /\ next.live = w.live
    BY DEF Alter, KeptInv, IsKept
  <1> HIDE DEF next
  <1>4. RequestOf(w.nav, w.run, made)
    BY <1>2 DEF KeptInv, Made, RequestOf
  <1>5. RequestsOK(w.nav, w.run, w.requests \cup {made})
    <2>1. RequestsOK(w.nav, w.run, w.requests)
      BY DEF KeptInv
    <2>2. IsFiniteSet(w.requests \cup {made})
      BY <2>1, FS_AddElement DEF RequestsOK
    <2>3. Apart(w.requests \cup {made})
      BY <1>2, <2>1 DEF RequestsOK, Apart, Made
    <2> QED BY <1>4, <2>1, <2>2, <2>3 DEF RequestsOK
  <1>6. \A k \in Kinds : QueuedAt(next.requests, k) = IF k = kind THEN QueuedAt(w.requests, k) \cup {i}
                                                               ELSE QueuedAt(w.requests, k)
    BY <1>2, <1>3 DEF QueuedAt, Made
  <1>7. QueuesOK(next.requests, next.queues)
    <2>1. ASSUME NEW k \in Kinds PROVE QueueOf(next.requests, k, queues_(k))
      <3> DEFINE s == IF k = kind THEN Append(w.queues[k], i) ELSE w.queues[k]
      <3>1. w.queues[k] \in Seq(Int) /\ ToSet(w.queues[k]) = QueuedAt(w.requests, k)
        BY DEF KeptInv, QueuesOK, QueueOf, IsQueue
      <3>2. s \in Seq(Int)
        BY <3>1
      <3>3. ToSet(Append(w.queues[k], i)) = ToSet(w.queues[k]) \cup {i}
        <4>1. PICK q \in Seq(Int), L \in Nat : q = w.queues[k] /\ L = Len(q)
          BY <3>1
        <4>2. /\ DOMAIN Append(q, i) = 1..(L + 1) /\ DOMAIN q = 1..L
              /\ \A j \in 1..(L + 1) : Append(q, i)[j] = IF j = L + 1 THEN i ELSE q[j]
          BY <4>1
        <4>3. 1..(L + 1) = (1..L) \cup {L + 1}
          BY <4>1
        <4>4. L + 1 \notin 1..L
          BY <4>1
        <4> QED BY <4>1, <4>2, <4>3, <4>4 DEF ToSet
      <3>4. ToSet(s) = QueuedAt(next.requests, k)
        BY <1>6, <3>1, <3>3
      <3>5. w.nav.cursor \in Int
        BY DEF KeptInv, NavOK, IsOpen, NavEntries
      <3> HIDE DEF s
      <3>6. IsQueue(Sorted(w.nav, s)) /\ ToSet(Sorted(w.nav, s)) = ToSet(s)
        BY <3>2, <3>5, SortedIs
      <3> QED BY <3>4, <3>6 DEF QueueOf, s
    <2> HIDE DEF queues_
    <2> QED BY <1>3, <2>1 DEF QueuesOK
  <1>8. KeptInv(next) /\ AskedFor(w, next)
    <2>1. KeptInv(next)
      BY <1>3, <1>5, <1>7 DEF KeptInv
    <2> QED BY <1>3, <2>1, PersistReflexive DEF AskedFor, SameBase
  <1>9. i \in QueuedAt(next.requests, kind)
    BY <1>6
  <1>10. CASE advance
    <2>1. /\ AskedFor(next, x) /\ (kind = "head" => x.nav = next.nav)
          /\ \E r \in x.requests : r.kind = kind /\ r.index = i /\ r.tracked
      BY <1>1, <1>8, <1>9, <1>10, PromoteIs
    <2> QED BY <1>3, <1>8, <2>1, PersistTransitive DEF AskedFor, SameBase
  <1>11. CASE ~advance
    <2>1. AskedFor(next, x) /\ (kind = "head" => x.nav = next.nav)
      BY <1>1, <1>8, <1>11, DrainIs
    <2> QED BY <1>3, <1>8, <1>11, <2>1, PersistTransitive DEF AskedFor, SameBase
  <1> QED BY <1>10, <1>11

-------------------------------------------------------------------------------
(* Asking for an index                                                     *)

LEMMA GoesOn ==
  ASSUME NEW w, NEW y, NEW x, AskedFor(w, y), AskedFor(y, x)
  PROVE  AskedFor(w, x)
  <1>1. RequestsLast(w.requests, x.requests)
    BY PersistTransitive DEF AskedFor
  <1> QED BY <1>1 DEF AskedFor, SameBase

LEMMA GoesNowhere == \A w : KeptInv(w) => AskedFor(w, w)
  BY PersistReflexive DEF AskedFor, SameBase

Join(r, advance, follow) == [r EXCEPT !.advance = @ \/ advance, !.follow = @ \/ follow]

\* A request that there is serves one more who asks.
ServesOneMore(w, rs, x) ==
  /\ AskedFor(w, x) /\ x.nav = w.nav
  /\ \A k \in Kinds : QueuedAt(x.requests, k) = QueuedAt(w.requests, k)
  /\ \A r \in rs : \E q \in x.requests : q.kind = r.kind /\ q.index = r.index /\ q.tracked = r.tracked

LEMMA JoinIs ==
  ASSUME NEW w, KeptInv(w), NEW rs, rs \subseteq w.requests, NEW advance \in BOOLEAN, NEW follow \in BOOLEAN,
         NEW x, x = Alter(w, rs, {Join(r, advance, follow) : r \in rs})
  PROVE  ServesOneMore(w, rs, x)
  <1> DEFINE J(r) == Join(r, advance, follow)
             Q == x.requests
  <1>1. /\ IsKept(x) /\ x.nav = w.nav /\ x.run = w.run /\ Q = (w.requests \ rs) \cup {J(r) : r \in rs}
        /\ x.queues = w.queues /\ x.display = w.display /\ x.live = w.live
    BY DEF Alter, KeptInv, IsKept
  <1>2. RequestsOK(w.nav, w.run, w.requests)
    BY DEF KeptInv
  <1>3. ASSUME NEW r \in rs
        PROVE  /\ RequestOf(w.nav, w.run, J(r)) /\ Identity(J(r)) = Identity(r) /\ J(r).pc = r.pc
               /\ J(r).kind = r.kind /\ J(r).index = r.index /\ J(r).tracked = r.tracked /\ J(r).settled = r.settled
    <2>1. RequestOf(w.nav, w.run, r) /\ IsRequest(r)
      BY <1>2 DEF RequestsOK, RequestOf
    <2>2. PICK q : q = J(r)
      OBVIOUS
    <2>3. /\ IsRequest(q) /\ q.kind = r.kind /\ q.index = r.index /\ q.run = r.run /\ q.twin = r.twin /\ q.url = r.url
          /\ q.settled = r.settled /\ q.pc = r.pc /\ q.tracked = r.tracked
      <3>1. q = [r EXCEPT !.advance = r.advance \/ advance, !.follow = r.follow \/ follow]
        BY <2>1, <2>2 DEF Join, IsRequest
      <3>2. (r.advance \/ advance) \in BOOLEAN /\ (r.follow \/ follow) \in BOOLEAN
        OBVIOUS
      <3> QED BY <2>1, <3>1, <3>2 DEF IsRequest
    <2> QED BY <2>1, <2>2, <2>3 DEF RequestOf, Identity
  <1> HIDE DEF Q, J
  <1>4. IsFiniteSet(Q)
    <2> DEFINE f == [r \in rs |-> J(r)]
    <2>1. IsFiniteSet(w.requests) /\ IsFiniteSet(rs)
      BY <1>2, FS_Subset DEF RequestsOK
    <2>2. {J(r) : r \in rs} = {f[r] : r \in DOMAIN f} /\ DOMAIN f = rs
      OBVIOUS
    <2> HIDE DEF f
    <2>3. IsFiniteSet({J(r) : r \in rs})
      BY <2>1, <2>2, ImageIsFinite
    <2>4. IsFiniteSet(w.requests \ rs)
      BY <2>1, FS_Difference
    <2> QED BY <1>1, <2>3, <2>4, FS_Union
  <1>5. \A q \in Q : RequestOf(w.nav, w.run, q)
    BY <1>1, <1>2, <1>3 DEF RequestsOK
  \* Each request has one that is where it is, and nobody else is there.
  <1>6. \A q \in Q : \E r \in w.requests : q.pc = r.pc /\ q.kind = r.kind /\ q.index = r.index /\ q.tracked = r.tracked
    BY <1>1, <1>3
  <1>7. \A r \in w.requests : \E q \in Q : /\ q.pc = r.pc /\ q.kind = r.kind /\ q.index = r.index
                                           /\ q.tracked = r.tracked /\ Identity(q) = Identity(r) /\ q.settled = r.settled
    BY <1>1, <1>3
  <1>8. Apart(Q)
    BY <1>2, <1>6 DEF RequestsOK, Apart
  <1>9. \A k \in Kinds : QueuedAt(Q, k) = QueuedAt(w.requests, k)
    BY <1>6, <1>7 DEF QueuedAt
  <1>10. KeptInv(x)
    <2>1. QueuesOK(Q, x.queues)
      BY <1>1, <1>9 DEF KeptInv, QueuesOK, QueueOf
    <2>2. RequestsOK(x.nav, x.run, Q)
      BY <1>1, <1>4, <1>5, <1>8 DEF RequestsOK
    <2> QED BY <1>1, <2>1, <2>2 DEF KeptInv, Q
  <1>11. RequestsLast(w.requests, Q)
    BY <1>7 DEF RequestsLast
  <1>12. AskedFor(w, x)
    BY <1>1, <1>10, <1>11 DEF AskedFor, SameBase, Q
  <1>13. \A r \in rs : \E q \in x.requests : q.kind = r.kind /\ q.index = r.index /\ q.tracked = r.tracked
    BY <1>7 DEF Q
  <1> QED BY <1>1, <1>9, <1>12, <1>13 DEF Q, ServesOneMore

\* Whoever asks for an index and will not wait behind others has a request in flight.
LEMMA DemandIs ==
  ASSUME NEW w, KeptInv(w), w.nav # Closed, NEW kind \in Kinds, NEW i \in Int,
         NEW advance \in BOOLEAN, NEW follow \in BOOLEAN, NEW x, x = Demand(w, kind, i, advance, follow)
  PROVE  /\ AskedFor(w, x) /\ (kind = "head" => x.nav = w.nav)
         /\ advance => \E r \in x.requests : r.kind = kind /\ r.index = i /\ r.tracked
  <1> DEFINE known == RequestsAt(Inflight(w, kind), i)
             waiting == RequestsAt(Queued(w, kind), i)
             With(rs) == Alter(w, rs, {Join(r, advance, follow) : r \in rs})
  <1>1. x = IF known # {} THEN With(known)
            ELSE IF waiting # {} THEN IF advance THEN PromoteRequest(With(waiting), kind, i) ELSE With(waiting)
            ELSE Enqueue(w, kind, i, advance, follow)
    BY DEF Demand, Join
  <1>2. /\ known \subseteq w.requests /\ \A r \in known : r.kind = kind /\ r.index = i /\ r.tracked
        /\ \A r \in w.requests : r.kind = kind /\ r.index = i /\ r.tracked => r \in known
    BY DEF RequestsAt, Inflight
  <1>3. waiting \subseteq w.requests /\ \A r \in waiting : r.kind = kind /\ r.index = i /\ r.pc = "queued"
    BY DEF RequestsAt, Queued
  <1> HIDE DEF known, waiting
  <1>4. CASE known # {}
    <2>1. x = With(known)
      BY <1>1, <1>4
    <2>2. ServesOneMore(w, known, x)
      BY <1>2, <2>1, JoinIs
    <2>3. PICK r \in known : r.kind = kind /\ r.index = i /\ r.tracked
      BY <1>2, <1>4
    <2> QED BY <2>2, <2>3 DEF ServesOneMore
  <1>5. CASE known = {} /\ waiting # {}
    <2>1. PICK y : y = With(waiting)
      OBVIOUS
    <2>2. /\ AskedFor(w, y) /\ y.nav = w.nav
          /\ \A k \in Kinds : QueuedAt(y.requests, k) = QueuedAt(w.requests, k)
      <3>1. ServesOneMore(w, waiting, y)
        BY <1>3, <2>1, JoinIs
      <3> QED BY <3>1 DEF ServesOneMore
    <2>3. CASE ~advance
      BY <1>1, <1>5, <2>1, <2>2, <2>3
    <2>4. CASE advance
      <3>1. x = PromoteRequest(y, kind, i)
        BY <1>1, <1>5, <2>1, <2>4
      <3>2. i \in QueuedAt(y.requests, kind)
        <4>1. i \in QueuedAt(w.requests, kind)
          BY <1>3, <1>5 DEF QueuedAt
        <4> QED BY <2>2, <4>1
      <3>3. KeptInv(y)
        BY <2>2 DEF AskedFor
      <3>4. /\ AskedFor(y, x) /\ (kind = "head" => x.nav = y.nav)
            /\ \E r \in x.requests : r.kind = kind /\ r.index = i /\ r.tracked
        BY <3>1, <3>2, <3>3, PromoteIs
      <3> QED BY <2>2, <3>4, GoesOn
    <2> QED BY <2>3, <2>4
  <1>6. CASE known = {} /\ waiting = {}
    <2>1. x = Enqueue(w, kind, i, advance, follow)
      BY <1>1, <1>6
    <2>2. \A r \in w.requests : r.kind = kind /\ r.index = i => ~r.tracked
      BY <1>2, <1>6
    <2> QED BY <2>1, <2>2, EnqueueIs
  <1> QED BY <1>4, <1>5, <1>6

\* Whatever is asked for, the window keeps its base, and a probe leaves it as it is.
LEMMA ProbeIndexIs ==
  ASSUME NEW w, KeptInv(w), w.nav # Closed, NEW i \in Int, NEW advance \in BOOLEAN, NEW follow \in BOOLEAN,
         NEW x, x = ProbeIndex(w, i, advance, follow)
  PROVE  AskedFor(w, x) /\ x.nav = w.nav
  <1>1. "head" \in Kinds
    BY DEF Kinds
  <1>2. CASE x = w
    BY <1>2, GoesNowhere
  <1>3. CASE x = Demand(w, "head", i, advance, follow)
    BY <1>1, <1>3, DemandIs
  <1> QED BY <1>2, <1>3 DEF ProbeIndex

LEMMA GetIndexIs ==
  ASSUME NEW w, KeptInv(w), w.nav # Closed, NEW i \in Int, NEW advance \in BOOLEAN,
         NEW x, x = GetIndex(w, i, advance)
  PROVE  AskedFor(w, x)
  <1>1. "get" \in Kinds
    BY DEF Kinds
  <1>2. CASE x = w
    BY <1>2, GoesNowhere
  <1>3. CASE x = Demand(w, "get", i, advance, FALSE)
    <2>1. PICK follow \in BOOLEAN : follow = FALSE
      OBVIOUS
    <2>2. x = Demand(w, "get", i, advance, follow)
      BY <1>3, <2>1
    <2> QED BY <1>1, <2>2, DemandIs
  <1> QED BY <1>2, <1>3 DEF GetIndex

LEMMA AskIs ==
  ASSUME NEW w, KeptInv(w), w.nav # Closed, NEW i \in Int, NEW fetching \in BOOLEAN,
         NEW x, x = Ask(w, i, fetching)
  PROVE  AskedFor(w, x) /\ (~fetching => x.nav = w.nav)
  <1>1. CASE fetching
    <2>1. x = ResolveIndex(w, i)
      BY <1>1 DEF Ask
    <2>2. AskedFor(w, x)
      BY <2>1, ProbeIndexIs, GetIndexIs, GoesNowhere DEF ResolveIndex
    <2> QED BY <1>1, <2>2
  <1>2. CASE ~fetching
    BY <1>2, ProbeIndexIs DEF Ask
  <1> QED BY <1>1, <1>2

\* The loop as a function: what there is after its first k indices.
Asks(f, w, s, fetching, N) ==
  /\ f = [k \in 0..N |-> f[k]] /\ f[0] = w
  /\ \A k \in 1..N : f[k] = Ask(f[k - 1], s[k], fetching)

LEMMA AsksExists ==
  ASSUME NEW w, NEW s, NEW fetching, NEW N \in Nat
  PROVE  \E f : Asks(f, w, s, fetching, N)
  <1> DEFINE T == {n \in Nat : ~\E f : Asks(f, w, s, fetching, n)}
  <1> SUFFICES ASSUME T # {} PROVE FALSE
    OBVIOUS
  <1>1. PICK n \in T : \A m \in T : n <= m
    BY LeastNat
  <1>2. n \in Nat /\ ~\E f : Asks(f, w, s, fetching, n)
    OBVIOUS
  <1>3. n # 0
    <2>1. Asks([k \in 0..0 |-> w], w, s, fetching, 0)
      BY DEF Asks
    <2> QED BY <1>2, <2>1
  <1>4. PICK f : Asks(f, w, s, fetching, n - 1)
    <2>1. n - 1 \in Nat /\ ~(n <= n - 1)
      BY <1>2, <1>3
    <2>2. n - 1 \notin T
      BY <1>1, <2>1
    <2> QED BY <2>1, <2>2
  <1> DEFINE g == [k \in 0..n |-> IF k = n THEN Ask(f[n - 1], s[n], fetching) ELSE f[k]]
  <1>5. \A k \in 0..n : g[k] = IF k = n THEN Ask(f[n - 1], s[n], fetching) ELSE f[k]
    OBVIOUS
  <1>6. g = [k \in 0..n |-> g[k]]
    OBVIOUS
  <1> HIDE DEF g
  <1>7. g[0] = w
    <2>1. f[0] = w
      BY <1>4, Zenon DEF Asks
    <2>2. 0 \in 0..n
      BY <1>2
    <2> QED BY <1>3, <1>5, <2>1, <2>2
  <1>8. ASSUME NEW k \in 1..n PROVE g[k] = Ask(g[k - 1], s[k], fetching)
    <2>1. g[k - 1] = f[k - 1]
      BY <1>2, <1>5
    <2>2. CASE k = n
      BY <1>2, <1>5, <2>1, <2>2
    <2>3. CASE k # n
      <3>1. k \in 1..(n - 1)
        BY <1>2, <2>3
      <3>2. g[k] = f[k]
        BY <1>2, <1>5, <2>3
      <3> QED BY <1>4, <2>1, <3>1, <3>2 DEF Asks
    <2> QED BY <2>2, <2>3
  <1>9. Asks(g, w, s, fetching, n)
    BY <1>6, <1>7, <1>8 DEF Asks
  <1> QED BY <1>2, <1>9

LEMMA AskEachIs ==
  ASSUME NEW w, KeptInv(w), w.nav # Closed, NEW s \in Seq(Int), NEW fetching \in BOOLEAN,
         NEW x, x = AskEach(w, s, fetching)
  PROVE  AskedFor(w, x) /\ (~fetching => x.nav = w.nav)
  <1> DEFINE L == Len(s)
             Loop(f) == f = [k \in 0..L |-> IF k = 0 THEN w ELSE Ask(f[k - 1], s[k], fetching)]
             asked == CHOOSE f : Loop(f)
  <1>1. x = asked[L]
    BY DEF AskEach
  <1>2. L \in Nat /\ \A k \in 1..L : s[k] \in Int
    OBVIOUS
  <1>3. ASSUME NEW f, Asks(f, w, s, fetching, L) PROVE Loop(f)
    <2>1. \A k \in 0..L : f[k] = IF k = 0 THEN w ELSE Ask(f[k - 1], s[k], fetching)
      <3>1. f[0] = w /\ \A k \in 1..L : f[k] = Ask(f[k - 1], s[k], fetching)
        BY <1>3, Zenon DEF Asks
      <3> HIDE DEF L
      <3>2. \A k \in 0..L : k # 0 => k \in 1..L
        BY <1>2
      <3> QED BY <3>1, <3>2
    <2>2. f = [k \in 0..L |-> f[k]]
      BY <1>3 DEF Asks
    <2> QED BY <2>1, <2>2
  <1>4. Loop(asked)
    <2>1. \E f : Loop(f)
      BY <1>2, <1>3, AsksExists
    <2> HIDE DEF Loop
    <2> QED BY <2>1
  <1> HIDE DEF asked
  <1>5. /\ asked[0] = w
        /\ \A k \in 1..L : asked[k] = Ask(asked[k - 1], s[k], fetching)
    <2>1. \A k \in 0..L : asked[k] = IF k = 0 THEN w ELSE Ask(asked[k - 1], s[k], fetching)
      BY <1>4
    <2>2. 0 \in 0..L /\ \A k \in 1..L : k \in 0..L /\ k # 0
      BY <1>2
    <2> QED BY <2>1, <2>2
  <1> HIDE DEF L, Loop
  <1> DEFINE Good(y) == AskedFor(w, y) /\ (~fetching => y.nav = w.nav)
             T == {k \in 0..L : ~Good(asked[k])}
  <1>6. T = {}
    <2> SUFFICES ASSUME T # {} PROVE FALSE
      OBVIOUS
    <2>1. T \subseteq Nat
      BY <1>2
    <2>2. PICK k \in T : \A m \in T : k <= m
      BY <2>1, LeastNat
    <2>3. k \in 0..L /\ ~Good(asked[k]) /\ k \in Nat
      BY <2>1
    <2>4. k # 0
      BY <1>5, <2>3, GoesNowhere
    <2>5. k \in 1..L /\ k - 1 \in 0..L /\ ~(k <= k - 1)
      BY <1>2, <2>3, <2>4
    <2>6. Good(asked[k - 1])
      BY <2>2, <2>5
    <2>7. asked[k] = Ask(asked[k - 1], s[k], fetching) /\ s[k] \in Int
      BY <1>2, <1>5, <2>5
    <2>8. KeptInv(asked[k - 1]) /\ asked[k - 1].nav # Closed
      BY <2>6 DEF AskedFor, SameBase
    <2>9. AskedFor(asked[k - 1], asked[k]) /\ (~fetching => asked[k].nav = asked[k - 1].nav)
      BY <2>7, <2>8, AskIs
    <2>10. Good(asked[k])
      BY <2>6, <2>9, GoesOn
    <2> QED BY <2>3, <2>10
  <1>7. L \in 0..L
    BY <1>2
  <1> QED BY <1>1, <1>6, <1>7

LEMMA NeighboursAre ==
  ASSUME NEW n, IsOpen(n)
  PROVE  Neighbours(n) \in Seq(Int) /\ n.cursor \in Window(n)
  <1>1. n.cursor \in Int /\ n.radius \in Nat
    <2>1. n.radius \in Radii /\ Radii \subseteq 0..5
      BY NavigationAssumption DEF IsOpen
    <2>2. n.cursor \in Int
      BY DEF IsOpen, NavEntries
    <2>3. n.radius \in 0..5
      BY <2>1, Zenon
    <2> QED BY <2>2, <2>3
  <1> DEFINE at(k) == n.cursor + (IF k <= n.radius THEN k - n.radius - 1 ELSE k - n.radius)
  <1>2. \A k \in 1..(2 * n.radius) : at(k) \in Int
    BY <1>1
  <1>3. 2 * n.radius \in Nat
    BY <1>1
  <1>4. Neighbours(n) = [k \in 1..(2 * n.radius) |-> at(k)]
    BY DEF Neighbours
  <1>5. n.cursor \in Window(n)
    BY <1>1 DEF Window
  <1> HIDE DEF at
  <1>6. PICK N \in Nat : N = 2 * n.radius
    BY <1>3
  <1>7. [k \in 1..N |-> at(k)] \in Seq(Int)
    BY <1>2, <1>6
  <1> QED BY <1>4, <1>5, <1>6, <1>7

\* The window evicts what is out of it and asks for its neighbours.
LEMMA SchedulePreloadsIs ==
  ASSUME NEW w, KeptInv(w), NEW x, x = SchedulePreloads(w)
  PROVE  AskedFor(w, x)
  <1>1. CASE w.nav = Closed
    <2>1. x = w
      BY <1>1 DEF SchedulePreloads
    <2> QED BY <2>1, GoesNowhere
  <1>2. CASE w.nav # Closed
    <2> DEFINE n == w.nav
               out == DOMAIN n.entry \ Window(n)
               entry == [i \in DOMAIN n.entry \ out |-> n.entry[i]]
               blobs == UNION {n.entry[i].blob : i \in out}
               kept == [w EXCEPT !.nav = [n EXCEPT !.entry = entry], !.live = @ \ blobs]
               m == kept.nav
    <2>1. x = AskEach(kept, Neighbours(m), TRUE)
      <3>1. [w EXCEPT !.nav.entry = [i \in DOMAIN @ \ out |-> @[i]], !.live = @ \ blobs] = kept
        BY DEF KeptInv, IsKept
      <3> HIDE DEF kept
      <3> QED BY <1>2, <3>1 DEF SchedulePreloads
    <2>2. IsOpen(n)
      BY <1>2 DEF KeptInv, NavOK
    <2>3. /\ IsKept(kept) /\ m = [n EXCEPT !.entry = entry] /\ kept.run = w.run /\ kept.requests = w.requests
          /\ kept.queues = w.queues /\ kept.display = w.display /\ kept.live = w.live \ blobs
      BY DEF KeptInv, IsKept
    <2> HIDE DEF kept
    <2>4. /\ DOMAIN entry = DOMAIN n.entry \ out /\ \A i \in DOMAIN entry : entry[i] = n.entry[i]
          /\ entry = [i \in DOMAIN entry |-> entry[i]]
      OBVIOUS
    <2>5. n.cursor \in DOMAIN entry
      BY <2>2, <2>4, NeighboursAre DEF IsOpen
    <2>6. NavEntries(n.base, entry)
      <3>1. NavEntries(n.base, n.entry)
        BY <2>2 DEF IsOpen
      <3>2. IsFiniteSet(DOMAIN entry)
        BY <2>4, <3>1, FS_Difference DEF NavEntries
      <3> HIDE DEF entry
      <3> QED BY <2>4, <3>1, <3>2 DEF NavEntries
    <2> HIDE DEF entry
    <2>7. /\ DOMAIN m = DOMAIN n /\ m.base = n.base /\ m.radius = n.radius /\ m.cursor = n.cursor
          /\ m.seek = n.seek /\ m.blocked = n.blocked /\ m.entry = entry
      BY <2>2, <2>3 DEF IsOpen
    <2>8. IsOpen(m)
      BY <2>2, <2>5, <2>6, <2>7 DEF IsOpen, SeekRests
    <2>9. SameBase(m, n)
      BY <1>2, <2>7, <2>8, OpenIsNotClosed DEF SameBase
    <2>10. KeptInv(kept) /\ AskedFor(w, kept)
      <3>1. RequestsOK(m, kept.run, kept.requests)
        BY <2>3, <2>9, SameRequests DEF KeptInv
      <3>2. KeptInv(kept)
        BY <1>2, <2>3, <2>8, <3>1 DEF KeptInv, NavOK
      <3> QED BY <2>3, <2>9, <3>2, PersistReflexive DEF AskedFor
    <2>11. Neighbours(m) \in Seq(Int) /\ m # Closed
      BY <2>8, NeighboursAre, OpenIsNotClosed
    <2>12. PICK fetching \in BOOLEAN : fetching = TRUE
      OBVIOUS
    <2>13. AskedFor(kept, x)
      <3>1. x = AskEach(kept, Neighbours(m), fetching)
        BY <2>1, <2>12
      <3> QED BY <2>3, <2>10, <2>11, <3>1, AskEachIs
    <2> QED BY <2>10, <2>13, GoesOn
  <1> QED BY <1>1, <1>2

-------------------------------------------------------------------------------
(* Windows, and the end of a request                                       *)

\* Every request that has left the queue is still there, and what was settled is.
Follow(rs, qs) ==
  \A r \in rs : r.pc # "queued" =>
    \E q \in qs : Identity(q) = Identity(r) /\ q.pc # "queued" /\ (r.settled => q.settled)

LEMMA FollowPersist ==
  ASSUME NEW rs, NEW qs, NEW ps, Follow(rs, qs), RequestsLast(qs, ps)
  PROVE  Follow(rs, ps)
  <1> SUFFICES ASSUME NEW r \in rs, r.pc # "queued"
               PROVE  \E p \in ps : Identity(p) = Identity(r) /\ p.pc # "queued" /\ (r.settled => p.settled)
    BY DEF Follow
  <1>1. PICK q \in qs : Identity(q) = Identity(r) /\ q.pc # "queued" /\ (r.settled => q.settled)
    BY DEF Follow
  <1>2. PICK p \in ps : Identity(p) = Identity(q) /\ p.pc # "queued" /\ p.settled = q.settled
    BY <1>1 DEF RequestsLast
  <1> QED BY <1>1, <1>2

LEMMA PersistFollows ==
  ASSUME NEW rs, NEW qs, RequestsLast(rs, qs)
  PROVE  Follow(rs, qs)
  <1> SUFFICES ASSUME NEW r \in rs, r.pc # "queued"
               PROVE  \E p \in qs : Identity(p) = Identity(r) /\ p.pc # "queued" /\ (r.settled => p.settled)
    BY DEF Follow
  <1>1. PICK q \in qs : Identity(q) = Identity(r) /\ q.pc # "queued" /\ q.settled = r.settled
    BY DEF RequestsLast
  <1> QED BY <1>1

\* Who waits for a request that has been made to go on is woken, or will be.
LEMMA FollowWakes ==
  ASSUME NEW rs, NEW qs, Follow(rs, qs), NEW id, Waking(rs, id)
  PROVE  Waking(qs, id) \/ Woken(qs, id)
  <1>1. PICK r \in rs : Identity(r) = id /\ r.pc # "queued" /\ ~r.settled
    BY DEF Waking
  <1>2. PICK q \in qs : Identity(q) = Identity(r) /\ q.pc # "queued"
    BY <1>1 DEF Follow
  <1> QED BY <1>1, <1>2 DEF Waking, Woken

LEMMA ClearQueuesIs ==
  ASSUME NEW w, KeptInv(w), NEW x, x = ClearQueues(w)
  PROVE  /\ KeptInv(x) /\ x.nav = w.nav /\ x.run = w.run /\ x.display = w.display /\ x.live = w.live
         /\ x.requests = {r \in w.requests : r.pc # "queued"} /\ RequestsLast(w.requests, x.requests)
         /\ x.queues = [k \in Kinds |-> <<>>]
  <1> DEFINE Q == {r \in w.requests : r.pc # "queued"}
  <1>1. /\ IsKept(x) /\ x.nav = w.nav /\ x.run = w.run /\ x.display = w.display /\ x.live = w.live
        /\ x.requests = Q /\ x.queues = [k \in Kinds |-> <<>>]
    BY DEF ClearQueues, KeptInv, IsKept
  <1>2. RequestsOK(w.nav, w.run, w.requests)
    BY DEF KeptInv
  <1>3. RequestsOK(w.nav, w.run, Q)
    <2>1. IsFiniteSet(Q)
      BY <1>2, FS_Subset DEF RequestsOK
    <2> QED BY <1>2, <2>1 DEF RequestsOK, Apart
  <1>4. QueuesOK(Q, x.queues)
    <2>1. \A k \in Kinds : QueuedAt(Q, k) = {}
      BY DEF QueuedAt
    <2>2. IsQueue(<<>>) /\ ToSet(<<>>) = {}
      BY DEF IsQueue, ToSet
    <2>3. \A k \in Kinds : x.queues[k] = <<>>
      BY <1>1
    <2> QED BY <1>1, <2>1, <2>2, <2>3 DEF QueuesOK, QueueOf
  <1>5. RequestsLast(w.requests, Q)
    BY DEF RequestsLast
  <1> HIDE DEF Q
  <1>6. KeptInv(x)
    BY <1>1, <1>3, <1>4 DEF KeptInv
  <1> QED BY <1>1, <1>5, <1>6 DEF Q

\* A window may be opened where no request is of its run.
RunCleared(w) == \A r \in w.requests : r.run # w.run /\ r.pc # "queued" /\ ~r.tracked

\* A request that somebody waits for is settled for it.
Cancelled(r) == IF r.tracked THEN [r EXCEPT !.tracked = FALSE, !.settled = TRUE] ELSE r

LEMMA CancelledIs ==
  ASSUME NEW n, NEW latest, NEW r, RequestOf(n, latest, r), r.pc # "queued", NEW q, q = Cancelled(r)
  PROVE  /\ IsRequest(q) /\ q.run = r.run /\ q.pc = r.pc /\ ~q.tracked /\ Identity(q) = Identity(r)
         /\ r.settled => q.settled
  <1>1. IsRequest(r)
    BY DEF RequestOf
  <1>2. CASE r.tracked
    <2>1. q = [r EXCEPT !.tracked = FALSE, !.settled = TRUE]
      BY <1>2 DEF Cancelled
    <2>2. /\ IsRequest(q) /\ q.run = r.run /\ q.pc = r.pc /\ ~q.tracked /\ q.settled
          /\ q.kind = r.kind /\ q.index = r.index /\ q.twin = r.twin
      BY <1>1, <2>1 DEF IsRequest
    <2> QED BY <2>2 DEF Identity
  <1>3. CASE ~r.tracked
    BY <1>1, <1>3 DEF Cancelled
  <1> QED BY <1>2, <1>3

LEMMA ReplaceIs ==
  ASSUME NEW w, KeptInv(w), NEW preserve \in BOOLEAN, NEW x, x = Replace(w, preserve)
  PROVE  /\ KeptInv(x) /\ x.nav = Closed /\ x.run = w.run + 1 /\ RunCleared(x)
         /\ Follow(w.requests, x.requests)
  <1> DEFINE inWindow == IF w.nav # Closed THEN BlobsOf(w.nav) ELSE {}
             gone == IF preserve THEN inWindow \ {d.blob : d \in w.display}
                                 ELSE inWindow \cup {d.blob : d \in w.display}
             shut == [w EXCEPT !.run = @ + 1, !.nav = Closed, !.live = @ \ gone,
                               !.display = IF preserve THEN @ ELSE {}]
             y == ClearQueues(shut)
             R == {r \in w.requests : r.pc # "queued"}
             Q == {Cancelled(r) : r \in R}
  <1>1. x = CancelInflight(y)
    BY DEF Replace
  <1>2. /\ IsKept(shut) /\ shut.run = w.run + 1 /\ shut.nav = Closed /\ shut.live = w.live \ gone
        /\ shut.display \subseteq w.display /\ shut.requests = w.requests /\ shut.queues = w.queues
    BY DEF KeptInv, IsKept
  <1> HIDE DEF shut
  <1>3. /\ IsKept(y) /\ y.run = w.run + 1 /\ y.nav = Closed /\ y.live = w.live \ gone
        /\ y.display \subseteq w.display /\ y.requests = R /\ y.queues = [k \in Kinds |-> <<>>]
    BY <1>2 DEF ClearQueues, IsKept
  <1> HIDE DEF y
  <1>4. /\ IsKept(x) /\ x.run = w.run + 1 /\ x.nav = Closed /\ x.live = w.live \ gone
        /\ x.display \subseteq w.display /\ x.requests = Q /\ x.queues = [k \in Kinds |-> <<>>]
    BY <1>1, <1>3 DEF CancelInflight, IsKept, Cancelled
  <1>5. RequestsOK(w.nav, w.run, w.requests)
    BY DEF KeptInv
  <1>6. \A r \in R : LET q == Cancelled(r) IN
          /\ IsRequest(q) /\ q.run = r.run /\ q.pc = r.pc /\ ~q.tracked /\ Identity(q) = Identity(r)
          /\ r.settled => q.settled
    BY <1>5, CancelledIs DEF RequestsOK
  <1>7. \A r \in R : r.run \in 1..w.run /\ r.pc # "queued"
    BY <1>5 DEF RequestsOK, RequestOf
  <1>8. IsFiniteSet(Q)
    <2> DEFINE f == [r \in R |-> Cancelled(r)]
    <2>1. IsFiniteSet(R)
      BY <1>5, FS_Subset DEF RequestsOK
    <2> HIDE DEF R
    <2>2. Q = {f[r] : r \in DOMAIN f} /\ DOMAIN f = R
      OBVIOUS
    <2> HIDE DEF f
    <2> QED BY <2>1, <2>2, ImageIsFinite
  <1> HIDE DEF R
  <1>9. \A q \in Q : IsRequest(q) /\ q.run \in 1..w.run /\ q.pc # "queued" /\ ~q.tracked
    BY <1>6, <1>7
  <1>10. Follow(w.requests, Q)
    <2> SUFFICES ASSUME NEW r \in w.requests, r.pc # "queued"
                 PROVE  \E q \in Q : Identity(q) = Identity(r) /\ q.pc # "queued" /\ (r.settled => q.settled)
      BY DEF Follow
    <2>1. r \in R /\ Cancelled(r) \in Q
      BY DEF R
    <2> QED BY <1>6, <2>1
  <1> HIDE DEF Q, gone
  <1>11. w.run \in Nat
    BY DEF KeptInv
  <1>12. \A q \in Q : RequestOf(Closed, w.run + 1, q)
    <2>1. \A k \in 1..w.run : k \in 1..(w.run + 1) /\ k # w.run + 1
      BY <1>11
    <2> QED BY <1>9, <2>1 DEF RequestOf
  <1>13. RequestsOK(x.nav, x.run, Q)
    BY <1>4, <1>8, <1>9, <1>12 DEF RequestsOK, Apart
  <1>14. QueuesOK(Q, x.queues)
    <2>1. \A k \in Kinds : QueuedAt(Q, k) = {}
      BY <1>9 DEF QueuedAt
    <2>2. IsQueue(<<>>) /\ ToSet(<<>>) = {}
      BY DEF IsQueue, ToSet
    <2>3. \A k \in Kinds : x.queues[k] = <<>>
      BY <1>4
    <2> QED BY <1>4, <2>1, <2>2, <2>3 DEF QueuesOK, QueueOf
  <1>15. KeptInv(x)
    <2>1. DisplayOK(x.display) /\ x.live \subseteq BlobsFor(Int) /\ x.run \in Nat
      BY <1>4, <1>11 DEF KeptInv, DisplayOK
    <2> QED BY <1>4, <1>13, <1>14, <2>1 DEF KeptInv, NavOK
  <1>16. RunCleared(x)
    <2>1. \A k \in 1..w.run : k # w.run + 1
      BY <1>11
    <2> QED BY <1>4, <1>9, <2>1 DEF RunCleared
  <1> QED BY <1>4, <1>10, <1>15, <1>16

\* A window is opened.
LEMMA OpenedIs ==
  ASSUME NEW y, KeptInv(y), RunCleared(y), y.run >= 1, NEW n, IsOpen(n), NEW x, x = [y EXCEPT !.nav = n]
  PROVE  KeptInv(x) /\ x.nav = n /\ x.requests = y.requests
  <1>1. /\ IsKept(x) /\ x.nav = n /\ x.run = y.run /\ x.requests = y.requests /\ x.queues = y.queues
        /\ x.display = y.display /\ x.live = y.live
    BY DEF KeptInv, IsKept
  <1>2. RequestsOK(n, y.run, y.requests)
    <2>1. RequestsOK(y.nav, y.run, y.requests)
      BY DEF KeptInv
    <2>2. \A r \in y.requests : RequestOf(n, y.run, r)
      BY <2>1 DEF RequestsOK, RequestOf, RunCleared
    <2> QED BY <2>1, <2>2 DEF RequestsOK
  <1> QED BY <1>1, <1>2 DEF KeptInv, NavOK

\* A window takes another form, of the same base.
LEMMA ReshapedIs ==
  ASSUME NEW w, KeptInv(w), w.nav # Closed, NEW n, IsOpen(n), n.base = w.nav.base,
         NEW x, x = [w EXCEPT !.nav = n]
  PROVE  AskedFor(w, x) /\ x.nav = n /\ x.requests = w.requests
  <1>1. /\ IsKept(x) /\ x.nav = n /\ x.run = w.run /\ x.requests = w.requests /\ x.queues = w.queues
        /\ x.display = w.display /\ x.live = w.live
    BY DEF KeptInv, IsKept
  <1>2. SameBase(n, w.nav)
    BY OpenIsNotClosed DEF SameBase
  <1>3. RequestsOK(n, w.run, w.requests)
    BY <1>2, SameRequests DEF KeptInv
  <1>4. KeptInv(x)
    BY <1>1, <1>3 DEF KeptInv, NavOK
  <1> QED BY <1>1, <1>2, <1>4, PersistReflexive DEF AskedFor

LEMMA EnsureIs ==
  ASSUME NEW w, KeptInv(w), NEW url \in Int, radius \in Radii, NEW x, x = Ensure(w, url)
  PROVE  KeptInv(x) /\ x.nav # Closed /\ Follow(w.requests, x.requests)
  <1> DEFINE n == w.nav
             same == {i \in DOMAIN n.entry : n.entry[i].url = {url}}
             i == CHOOSE j \in same : TRUE
             matching == {d \in w.display : d.url = url}
             blob == IF matching # {} THEN (CHOOSE d \in matching : TRUE).blob ELSE Anchor(url)
             moved == ClearQueues([w EXCEPT !.nav.cursor = i, !.nav.seek = NoSeek, !.nav.blocked = {}])
             fresh == [Replace(w, matching # {}) EXCEPT !.nav = Opened(url, blob)]
  <1>1. x = IF n # Closed /\ n.radius = radius /\ same # {}
            THEN SchedulePreloads(IF n.cursor = i THEN w ELSE moved)
            ELSE IF n # Closed /\ n.radius = radius /\ n.base = url THEN w
            ELSE SchedulePreloads(fresh)
    BY DEF Ensure
  <1>2. ASSUME NEW y, AskedFor(w, y) PROVE KeptInv(y) /\ (n # Closed => y.nav # Closed) /\ Follow(w.requests, y.requests)
    BY <1>2, PersistFollows DEF AskedFor, SameBase
  <1>3. CASE x = SchedulePreloads(w) /\ n # Closed
    <2>1. AskedFor(w, x)
      BY <1>3, SchedulePreloadsIs
    <2> QED BY <1>2, <1>3, <2>1
  <1>4. CASE x = SchedulePreloads(moved) /\ n # Closed /\ same # {}
    <2> DEFINE m == [n EXCEPT !.cursor = i, !.seek = NoSeek, !.blocked = {}]
               y == [w EXCEPT !.nav = m]
    <2>1. moved = ClearQueues(y)
      <3> HIDE DEF i
      <3>1. ASSUME NEW v, "nav" \in DOMAIN v, NEW c
            PROVE  [v EXCEPT !.nav.cursor = c, !.nav.seek = NoSeek, !.nav.blocked = {}]
                   = [v EXCEPT !.nav = [v.nav EXCEPT !.cursor = c, !.seek = NoSeek, !.blocked = {}]]
        OBVIOUS
      <3>2. "nav" \in DOMAIN w
        BY DEF KeptInv, IsKept
      <3>3. [w EXCEPT !.nav.cursor = i, !.nav.seek = NoSeek, !.nav.blocked = {}] = y
        BY <3>1, <3>2
      <3> HIDE DEF y
      <3> QED BY <3>3
    <2>2. IsOpen(n)
      BY <1>4 DEF KeptInv, NavOK
    <2>3. i \in DOMAIN n.entry
      BY <1>4
    <2> HIDE DEF i
    <2>4. /\ DOMAIN m = DOMAIN n /\ m.base = n.base /\ m.radius = n.radius /\ m.cursor = i
          /\ m.seek = NoSeek /\ m.blocked = {} /\ m.entry = n.entry
      BY <2>2 DEF IsOpen
    <2> HIDE DEF m
    <2>5. IsOpen(m)
      <3>1. NoSeek \in [dir : {-1, 0, 1}, remaining : Int]
        BY DEF NoSeek
      <3> QED BY <2>2, <2>3, <2>4, <3>1 DEF IsOpen, SeekRests
    <2>6. AskedFor(w, y) /\ y.nav = m /\ y.requests = w.requests
      BY <1>4, <2>4, <2>5, ReshapedIs
    <2> HIDE DEF y, moved
    <2>7. AskedFor(y, moved)
      <3>1. /\ KeptInv(moved) /\ moved.nav = y.nav /\ moved.run = y.run /\ moved.display = y.display
            /\ RequestsLast(y.requests, moved.requests)
        BY <2>1, <2>6, ClearQueuesIs DEF AskedFor
      <3> QED BY <3>1 DEF AskedFor, SameBase
    <2>8. AskedFor(moved, x)
      BY <1>4, <2>7, SchedulePreloadsIs DEF AskedFor
    <2>9. AskedFor(w, x)
      BY <2>6, <2>7, <2>8, GoesOn
    <2> QED BY <1>2, <1>4, <2>9
  <1>5. CASE x = w /\ n # Closed
    BY <1>2, <1>5, GoesNowhere
  <1>6. CASE x = SchedulePreloads(fresh)
    <2> DEFINE y == Replace(w, matching # {})
    <2>1. blob \in BlobsFor({url})
      <3>1. CASE matching # {}
        <4>1. PICK d \in matching : blob = d.blob
          BY <3>1
        <4>2. d.url = url /\ d.blob \in BlobsFor(Int) /\ d.blob.url = d.url
          BY <4>1 DEF KeptInv, DisplayOK
        <4> QED BY <4>1, <4>2 DEF BlobsFor
      <3>2. CASE matching = {}
        <4>1. 0 \in Serials
          BY NavigationAssumption DEF Serials
        <4> QED BY <3>2, <4>1 DEF Anchor, BlobsFor
      <3> QED BY <3>1, <3>2
    <2>2. PICK preserve \in BOOLEAN : preserve = (matching # {})
      OBVIOUS
    <2>3. KeptInv(y) /\ y.run = w.run + 1 /\ RunCleared(y) /\ Follow(w.requests, y.requests)
      BY <2>2, ReplaceIs
    <2>4. fresh = [y EXCEPT !.nav = Opened(url, blob)]
      OBVIOUS
    <2> HIDE DEF blob, y, fresh
    <2>5. IsOpen(Opened(url, blob))
      <3> DEFINE entry == [j \in {0} |-> [manifest |-> "PRESENT", image |-> "OK", url |-> {url}, blob |-> {blob}]]
                 m == Opened(url, blob)
      <3>1. NavEntries(url, entry)
        <4>1. IsFiniteSet({0}) /\ DOMAIN entry = {0}
          BY FS_Singleton
        <4>2. NavEntry(url + 0, entry[0])
          BY <2>1 DEF NavEntry, Manifests, ImageStates
        <4> QED BY <4>1, <4>2 DEF NavEntries
      <3>2. m = [base |-> url, radius |-> radius, cursor |-> 0, seek |-> NoSeek, blocked |-> {}, entry |-> entry]
        BY DEF Opened
      <3>3. 0 \in DOMAIN entry
        OBVIOUS
      <3> HIDE DEF entry, m
      <3>4. m.base = url /\ m.radius = radius /\ m.cursor = 0 /\ m.seek = NoSeek /\ m.blocked = {} /\ m.entry = entry
            /\ DOMAIN m = {"base", "radius", "cursor", "seek", "blocked", "entry"}
        BY <3>2
      <3>5. NoSeek \in [dir : {-1, 0, 1}, remaining : Int]
        BY DEF NoSeek
      <3>6. IsOpen(m)
        BY <3>1, <3>3, <3>4, <3>5 DEF IsOpen, SeekRests
      <3> QED BY <3>6 DEF m
    <2>6. y.run >= 1
      BY <2>3 DEF KeptInv
    <2>7. KeptInv(fresh) /\ fresh.nav # Closed /\ fresh.requests = y.requests
      BY <2>3, <2>4, <2>5, <2>6, OpenedIs, OpenIsNotClosed
    <2>8. AskedFor(fresh, x)
      BY <1>6, <2>7, SchedulePreloadsIs
    <2> QED BY <2>3, <2>7, <2>8, FollowPersist DEF AskedFor, SameBase
  <1> QED BY <1>1, <1>3, <1>4, <1>5, <1>6

\* A request ends: its slot is free, and everybody else goes on.
LEMMA EndRequestIs ==
  ASSUME NEW w, KeptInv(w), NEW r \in w.requests, r.pc # "queued", NEW x, x = EndRequest(w, r)
  PROVE  /\ KeptInv(x) /\ x.run = w.run /\ SameBase(x.nav, w.nav)
         /\ RequestsLast(w.requests \ {r}, x.requests)
  <1> DEFINE held == RequestsAt(Inflight(w, r.kind), r.index)
             others == held \ {r}
             y == Alter(w, held \cup {r}, Untracked(others))
             next == Drain(y, r.kind)
             Q == y.requests
  <1>1. /\ IsKept(y) /\ y.nav = w.nav /\ y.run = w.run /\ y.queues = w.queues /\ y.display = w.display
        /\ y.live = w.live /\ Q = (w.requests \ (held \cup {r})) \cup {Dropped(q) : q \in others}
    BY DEF Alter, KeptInv, IsKept, Untracked, Dropped
  <1>2. RequestsOK(w.nav, w.run, w.requests)
    BY DEF KeptInv
  <1>3. held \subseteq w.requests /\ \A q \in held : q.tracked
    BY DEF RequestsAt, Inflight
  <1>4. /\ r.kind \in Kinds /\ r.index \in Int /\ \A q \in w.requests : q.tracked => q.pc # "queued"
    BY <1>2 DEF RequestsOK, RequestOf, IsRequest
  <1>5. x = IF ~r.settled /\ r.follow /\ next.nav # Closed /\ Wanted(next.nav, r.index)
            THEN GetIndex(next, r.index, FALSE) ELSE next
    BY DEF EndRequest
  <1> HIDE DEF Q, y, held
  <1>6. \A q \in others : LET p == Dropped(q) IN
          /\ RequestOf(w.nav, w.run, p) /\ Identity(p) = Identity(q) /\ p.pc = q.pc /\ ~p.tracked
          /\ p.settled = q.settled
    BY <1>2, <1>3, DroppedIs DEF RequestsOK
  <1>7. \A q \in others : q \in w.requests /\ q.pc # "queued"
    BY <1>3, <1>4
  <1>8. IsFiniteSet(Q)
    <2> DEFINE f == [q \in others |-> Dropped(q)]
    <2>1. IsFiniteSet(w.requests) /\ IsFiniteSet(others)
      BY <1>2, <1>3, FS_Subset DEF RequestsOK
    <2>2. {Dropped(q) : q \in others} = {f[q] : q \in DOMAIN f} /\ DOMAIN f = others
      OBVIOUS
    <2> HIDE DEF f, others
    <2>3. IsFiniteSet({Dropped(q) : q \in others})
      BY <2>1, <2>2, ImageIsFinite
    <2>4. IsFiniteSet(w.requests \ (held \cup {r}))
      BY <2>1, FS_Difference
    <2> QED BY <1>1, <2>3, <2>4, FS_Union
  <1> HIDE DEF others
  <1>9. \A q \in Q : RequestOf(w.nav, w.run, q)
    BY <1>1, <1>2, <1>6 DEF RequestsOK
  <1>10. \A q \in Q : (q.tracked \/ q.pc = "queued") => q \in w.requests
    BY <1>1, <1>6, <1>7
  <1>11. \A q \in w.requests : q.pc = "queued" => q \in Q
    BY <1>1, <1>3, <1>4
  <1>12. RequestsOK(y.nav, y.run, Q)
    <2>1. Apart(Q)
      BY <1>2, <1>10 DEF RequestsOK, Apart
    <2> QED BY <1>1, <1>8, <1>9, <2>1 DEF RequestsOK
  <1>13. QueuesOK(Q, y.queues)
    <2>1. \A k \in Kinds : QueuedAt(Q, k) = QueuedAt(w.requests, k)
      BY <1>10, <1>11 DEF QueuedAt
    <2> QED BY <1>1, <2>1 DEF KeptInv, QueuesOK, QueueOf
  <1>14. KeptInv(y)
    BY <1>1, <1>12, <1>13 DEF KeptInv, Q
  <1>15. RequestsLast(w.requests \ {r}, y.requests)
    <2> SUFFICES ASSUME NEW q \in w.requests \ {r}, q.pc # "queued"
                 PROVE  \E p \in Q : Identity(p) = Identity(q) /\ p.pc # "queued" /\ p.settled = q.settled
      BY DEF RequestsLast, Q
    <2>1. CASE q \in held
      <3>1. q \in others
        BY <2>1 DEF others
      <3> QED BY <1>1, <1>6, <1>7, <3>1
    <2>2. CASE q \notin held
      BY <1>1, <2>2
    <2> QED BY <2>1, <2>2
  <1>16. AskedFor(y, next)
    BY <1>4, <1>14, DrainIs
  <1> HIDE DEF next
  <1>17. AskedFor(next, x)
    <2>1. KeptInv(next)
      BY <1>16 DEF AskedFor
    <2>2. CASE x = next
      BY <2>1, <2>2, GoesNowhere
    <2>3. CASE x = GetIndex(next, r.index, FALSE) /\ next.nav # Closed
      <3>1. PICK advance \in BOOLEAN : advance = FALSE
        OBVIOUS
      <3>2. x = GetIndex(next, r.index, advance)
        BY <2>3, <3>1
      <3> QED BY <1>4, <2>1, <2>3, <3>2, GetIndexIs
    <2> QED BY <1>5, <2>2, <2>3
  <1>18. AskedFor(y, x)
    BY <1>16, <1>17, GoesOn
  <1> QED BY <1>1, <1>15, <1>18, PersistTransitive DEF AskedFor

-------------------------------------------------------------------------------
(* Every step preserves BnInv                                              *)

LEMMA BecomesIs ==
  ASSUME NEW w, KeptInv(w), Becomes(w)
  PROVE  KeptInv(Kept)' /\ run' <= MaxRuns
  <1>1. /\ IsKept(Kept') /\ Kept'.nav = w.nav /\ Kept'.run = w.run /\ Kept'.requests = w.requests
        /\ Kept'.queues = w.queues /\ Kept'.display = w.display /\ Kept'.live = w.live
    BY DEF Becomes, Kept, IsKept
  <1>2. KeptInv(Kept')
    <2> PICK y : y = Kept'
      OBVIOUS
    <2>1. KeptInv(y)
      BY <1>1 DEF KeptInv
    <2> QED BY <2>1
  <1> QED BY <1>2 DEF Becomes

LEMMA KeptIs ==
  ASSUME KeptInv(Kept)
  PROVE  /\ NavOK(nav) /\ RequestsOK(nav, run, requests) /\ run \in Nat /\ (nav # Closed => run >= 1)
         /\ \A r \in requests : RequestOf(nav, run, r)
         /\ Kept.nav = nav /\ Kept.run = run /\ Kept.requests = requests /\ Kept.display = display /\ Kept.live = live
  <1>1. Kept.nav = nav /\ Kept.run = run /\ Kept.requests = requests /\ Kept.display = display /\ Kept.live = live
    BY DEF Kept
  <1>2. NavOK(nav) /\ RequestsOK(nav, run, requests) /\ run \in Nat /\ (nav # Closed => run >= 1)
    <2> PICK w : w = Kept
      OBVIOUS
    <2> QED BY <1>1 DEF KeptInv
  <1> QED BY <1>1, <1>2 DEF RequestsOK

\* A press that waits is woken by what it waits for, and waits for what will wake it.
LEMMA ReleasedIs ==
  ASSUME KeptInv(Kept), PressIs(step, nav, requests), Unpressed, NEW S, NEW n, NEW rs,
         step.pc = "parked" => Waking(rs, step.waits) \/ \E r \in S : Identity(r) = step.waits
  PROVE  PressIs(Released(S), n, rs)
  <1>1. CASE step.pc = "parked" /\ \E r \in S : Identity(r) = step.waits
    <2> DEFINE pc == IF step.waits.kind = "head" THEN "probed" ELSE "resolved"
               s == [step EXCEPT !.pc = pc]
    <2>1. Released(S) = s
      BY <1>1 DEF Released
    <2>2. pc \in {"probed", "resolved"}
      OBVIOUS
    <2>3. DOMAIN s = DOMAIN step /\ s.pc = pc /\ s.dir = step.dir /\ s.waits = step.waits
      BY <1>1 DEF PressIs
    <2>4. step.waits.index \in Int
      <3>1. PICK r \in requests : Identity(r) = step.waits
        BY <1>1 DEF PressIs, Waking
      <3>2. r.index \in Int
        BY <3>1, KeptIs DEF RequestOf, IsRequest
      <3>3. Identity(r).index = r.index
        BY DEF Identity
      <3> QED BY <3>1, <3>2, <3>3
    <2> HIDE DEF s, pc
    <2> QED BY <1>1, <2>1, <2>2, <2>3, <2>4 DEF PressIs
  <1>2. CASE ~(step.pc = "parked" /\ \E r \in S : Identity(r) = step.waits)
    <2>1. Released(S) = step
      BY <1>2 DEF Released
    <2>2. step.pc \in {"idle", "parked"}
      BY DEF Unpressed
    <2> QED BY <1>2, <2>1, <2>2 DEF PressIs
  <1> QED BY <1>1, <1>2

LEMMA CalledIs ==
  ASSUME KeptInv(Kept), PressIs(step, nav, requests), NEW w, KeptInv(w), Follow(requests, w.requests), Called(w)
  PROVE  KeptInv(Kept)' /\ run' <= MaxRuns /\ PressIs(step, nav, requests)'
  <1>1. KeptInv(Kept)' /\ run' <= MaxRuns
    BY BecomesIs DEF Called
  <1> DEFINE S == {r \in w.requests : r.settled}
  <1>2. step' = Released(S) /\ requests' = w.requests /\ Unpressed
    BY DEF Called, Becomes
  <1>3. step.pc = "parked" => Waking(w.requests, step.waits) \/ \E r \in S : Identity(r) = step.waits
    BY FollowWakes DEF PressIs, Woken
  <1> HIDE DEF S
  <1>4. PressIs(Released(S), nav', requests')
    BY <1>2, <1>3, ReleasedIs
  <1> QED BY <1>1, <1>2, <1>4

LEMMA EndsIs ==
  ASSUME KeptInv(Kept), PressIs(step, nav, requests), NEW w, KeptInv(w), w.requests = requests,
         NEW r \in requests, r.pc # "queued", Ends(w, r)
  PROVE  KeptInv(Kept)' /\ run' <= MaxRuns /\ PressIs(step, nav, requests)'
  <1> DEFINE x == EndRequest(w, r)
  <1>0. Becomes(x) /\ Unpressed /\ step' = IF r.settled THEN step ELSE Released({r})
    BY DEF Ends
  <1> HIDE DEF x
  <1>1. KeptInv(x) /\ RequestsLast(requests \ {r}, x.requests)
    BY EndRequestIs DEF x
  <1>2. KeptInv(Kept)' /\ run' <= MaxRuns
    BY <1>0, <1>1, BecomesIs
  <1>3. requests' = x.requests
    BY <1>0 DEF Becomes
  <1>4. step.pc = "parked" => Waking(requests', step.waits) \/ (~r.settled /\ Identity(r) = step.waits)
    <2> SUFFICES ASSUME step.pc = "parked" PROVE Waking(requests', step.waits) \/ (~r.settled /\ Identity(r) = step.waits)
      OBVIOUS
    <2>1. PICK q \in requests : Identity(q) = step.waits /\ q.pc # "queued" /\ ~q.settled
      BY DEF PressIs, Waking
    <2>2. CASE q = r
      BY <2>1, <2>2
    <2>3. CASE q # r
      <3>1. PICK p \in x.requests : Identity(p) = Identity(q) /\ p.pc # "queued" /\ p.settled = q.settled
        BY <1>1, <2>1, <2>3 DEF RequestsLast
      <3> QED BY <1>3, <2>1, <3>1 DEF Waking
    <2> QED BY <2>2, <2>3
  <1>5. PressIs(step', nav', requests')
    <2>1. CASE r.settled
      <3>1. step' = step
        BY <1>0, <2>1
      <3>2. step.pc \in {"idle", "parked"}
        BY <1>0 DEF Unpressed
      <3> QED BY <1>4, <2>1, <3>1, <3>2 DEF PressIs
    <2>2. CASE ~r.settled
      <3>1. step' = Released({r})
        BY <1>0, <2>2
      <3>2. step.pc = "parked" => Waking(requests', step.waits) \/ \E q \in {r} : Identity(q) = step.waits
        BY <1>4
      <3> QED BY <1>0, <3>1, <3>2, ReleasedIs
    <2> QED BY <2>1, <2>2
  <1> QED BY <1>2, <1>5

\* What a step does to the rest, and what it may leave as it is.
LEMMA Frame ==
  ASSUME BnInv, trail' = trail, shown' \in Int, radius' \in Radii, inputs' \in 0..MaxInputs, decoded' \in 0..MaxBlobs,
         KeptInv(Kept)', run' <= MaxRuns, PressIs(step, nav, requests)'
  PROVE  BnInv'
  BY DEF BnInv

LEMMA BnInvIs ==
  ASSUME BnInv
  PROVE  /\ KeptInv(Kept) /\ PressIs(step, nav, requests) /\ shown \in Int /\ radius \in Radii
         /\ inputs \in 0..MaxInputs /\ decoded \in 0..MaxBlobs
         /\ NavOK(nav) /\ RequestsOK(nav, run, requests) /\ run \in Nat
         /\ \A r \in requests : RequestOf(nav, run, r)
         /\ Kept.nav = nav /\ Kept.run = run /\ Kept.requests = requests /\ Kept.display = display /\ Kept.live = live
  BY KeptIs DEF BnInv

LEMMA PrimeStep ==
  ASSUME BnInv, Prime, trail' = trail
  PROVE  BnInv'
  <1> DEFINE w == IF radius = 0 THEN Replace(Kept, TRUE) ELSE Ensure(Kept, shown)
  <1>1. Called(w) /\ UNCHANGED <<shown, radius, inputs, decoded>>
    BY DEF Prime
  <1>2. KeptInv(w) /\ Follow(requests, w.requests)
    <2>1. CASE radius = 0
      <3>1. PICK preserve \in BOOLEAN : preserve = TRUE
        OBVIOUS
      <3>2. w = Replace(Kept, preserve)
        BY <2>1, <3>1
      <3> HIDE DEF w
      <3> QED BY <3>2, BnInvIs, ReplaceIs
    <2>2. CASE radius # 0
      <3>1. w = Ensure(Kept, shown)
        BY <2>2
      <3> HIDE DEF w
      <3> QED BY <3>1, BnInvIs, EnsureIs
    <2> QED BY <2>1, <2>2
  <1> HIDE DEF w
  <1> QED BY <1>1, <1>2, BnInvIs, CalledIs, Frame

LEMMA RefreshStep ==
  ASSUME BnInv, Refresh, trail' = trail
  PROVE  BnInv'
  <1>1. PICK w : w = SchedulePreloads(Kept)
    OBVIOUS
  <1>2. Called(w) /\ UNCHANGED <<shown, radius, inputs, decoded>>
    BY <1>1 DEF Refresh
  <1>3. KeptInv(w) /\ RequestsLast(requests, w.requests)
    BY <1>1, BnInvIs, SchedulePreloadsIs DEF AskedFor
  <1> QED BY <1>2, <1>3, BnInvIs, PersistFollows, CalledIs, Frame

LEMMA DisposeStep ==
  ASSUME BnInv, Dispose, trail' = trail
  PROVE  BnInv'
  <1>1. PICK preserve \in BOOLEAN : preserve = FALSE
    OBVIOUS
  <1>2. PICK w : w = Replace(Kept, preserve)
    OBVIOUS
  <1>3. Called(w) /\ UNCHANGED <<shown, radius, inputs, decoded>>
    BY <1>1, <1>2 DEF Dispose
  <1>4. KeptInv(w) /\ Follow(requests, w.requests)
    BY <1>2, BnInvIs, ReplaceIs
  <1> QED BY <1>3, <1>4, BnInvIs, CalledIs, Frame

\* What is kept and the press stay as they are.
LEMMA KeptStays ==
  ASSUME BnInv, UNCHANGED <<nav, run, requests, queues, display, live>>
  PROVE  KeptInv(Kept)' /\ run' <= MaxRuns
  BY DEF BnInv, Kept

LEMMA ChoiceStep ==
  ASSUME BnInv, (\E url \in Urls : Show(url)) \/ (\E n \in Radii : SetRadius(n)), trail' = trail
  PROVE  BnInv'
  <1> DEFINE Chosen ==
        /\ UNCHANGED <<nav, run, requests, queues, display, live, step, decoded>>
        /\ inputs < MaxInputs /\ inputs' = inputs + 1 /\ shown' \in Int /\ radius' \in Radii
  <1>1. Chosen
    <2>1. ASSUME NEW url \in Urls, Show(url) PROVE Chosen
      BY <2>1, BnInvIs, NavigationAssumption DEF Show
    <2>2. ASSUME NEW n \in Radii, SetRadius(n) PROVE Chosen
      BY <2>2, BnInvIs DEF SetRadius
    <2> QED BY <2>1, <2>2
  <1>2. KeptInv(Kept)' /\ run' <= MaxRuns
    BY <1>1, KeptStays
  <1>3. PressIs(step, nav, requests)'
    BY <1>1, BnInvIs
  <1>4. inputs' \in 0..MaxInputs /\ decoded' \in 0..MaxBlobs
    BY <1>1, BnInvIs, NavigationAssumption
  <1> QED BY <1>1, <1>2, <1>3, <1>4, Frame

-------------------------------------------------------------------------------
(* Answers                                                                 *)

LEMMA TakenIs ==
  ASSUME NEW n, IsOpen(n), NEW r, NEW m, m = Taken(n, r)
  PROVE  IsOpen(m) /\ m.base = n.base
  BY AdvanceSeekIs DEF Taken

\* The url of a request of this window.
LEMMA CurrentIs ==
  ASSUME BnInv, NEW r \in requests, Current(Kept, r)
  PROVE  /\ IsOpen(nav) /\ nav # Closed /\ r.index \in Int /\ r.url = nav.base + r.index
  <1>1. nav # Closed /\ r.run = run
    BY BnInvIs DEF Current
  <1>2. RequestOf(nav, run, r) /\ NavOK(nav)
    BY BnInvIs
  <1> QED BY <1>1, <1>2 DEF RequestOf, IsRequest, NavOK

LEMMA MarkedIs ==
  ASSUME BnInv, NEW r \in requests, Current(Kept, r), NEW status \in Manifests, NEW w, w = Marked(r, status)
  PROVE  KeptInv(w) /\ w.requests = requests
  <1>1. PICK n : n = SetManifest(nav, r.index, status, r.url)
    OBVIOUS
  <1>2. IsOpen(n) /\ n.base = nav.base
    BY <1>1, CurrentIs, SetManifestIs DEF SameSeek
  <1>3. PICK m : m = Taken(n, r)
    OBVIOUS
  <1>4. IsOpen(m) /\ m.base = nav.base
    BY <1>2, <1>3, TakenIs
  <1>5. w = [Kept EXCEPT !.nav = m]
    BY <1>1, <1>3 DEF Marked, Kept
  <1>6. AskedFor(Kept, w) /\ w.requests = Kept.requests
    BY <1>4, <1>5, BnInvIs, CurrentIs, ReshapedIs
  <1> QED BY <1>6, BnInvIs DEF AskedFor

LEMMA PolicyStep ==
  ASSUME BnInv, NEW r \in requests, PolicyAnswers(r), trail' = trail
  PROVE  BnInv'
  <1>1. r.pc = "policy" /\ r.pc # "queued" /\ UNCHANGED decoded
    BY DEF PolicyAnswers
  <1>2. ASSUME NEW w, KeptInv(w), w.requests = requests, Ends(w, r) PROVE BnInv'
    <2>1. UNCHANGED <<shown, radius, inputs>>
      BY <1>2 DEF Ends
    <2> QED BY <1>1, <1>2, <2>1, BnInvIs, EndsIs, Frame
  <1>3. CASE Ends(Kept, r)
    BY <1>2, <1>3, BnInvIs
  <1>4. ASSUME NEW status \in {"FAILED_HEAD", "PRESENT"}, Current(Kept, r), Ends(Marked(r, status), r) PROVE BnInv'
    <2>1. PICK w : w = Marked(r, status)
      OBVIOUS
    <2>2. KeptInv(w) /\ w.requests = requests
      BY <1>4, <2>1, MarkedIs DEF Manifests
    <2> QED BY <1>2, <1>4, <2>1, <2>2
  <1>5. ASSUME Current(Kept, r), Unpressed, UNCHANGED <<step, shown, radius, inputs>>,
               Becomes([Alter(Kept, {r}, {[r EXCEPT !.pc = "probe"]}) EXCEPT
                          !.nav = SetManifest(@, r.index, "HEAD_PENDING", r.url)])
        PROVE  BnInv'
    <2> DEFINE q == [r EXCEPT !.pc = "probe"]
               Q == (requests \ {r}) \cup {q}
               y == Alter(Kept, {r}, {q})
               n == SetManifest(nav, r.index, "HEAD_PENDING", r.url)
               w == [y EXCEPT !.nav = n]
    <2>1. /\ IsKept(y) /\ y.nav = nav /\ y.run = run /\ y.requests = Q /\ y.queues = queues
          /\ y.display = display /\ y.live = live
      BY DEF Alter, Kept, IsKept
    <2>2. Becomes(w)
      BY <1>5, <2>1
    <2>3. RequestOf(nav, run, r) /\ IsRequest(r)
      BY BnInvIs DEF RequestOf
    <2>4. /\ IsRequest(q) /\ q.pc = "probe" /\ q.kind = r.kind /\ q.index = r.index /\ q.run = r.run /\ q.twin = r.twin
          /\ q.url = r.url /\ q.tracked = r.tracked /\ q.settled = r.settled
      BY <2>3 DEF IsRequest
    <2> HIDE DEF q, w, y, n
    <2>5. RequestOf(nav, run, q) /\ Identity(q) = Identity(r)
      BY <2>3, <2>4 DEF RequestOf, Identity
    <2>6. RequestsOK(nav, run, requests)
      BY BnInvIs
    <2>7. RequestsOK(nav, run, Q)
      <3>1. IsFiniteSet(Q)
        <4>1. IsFiniteSet(requests) /\ IsFiniteSet({q})
          BY <2>6, FS_Singleton DEF RequestsOK
        <4> QED BY <4>1, FS_Difference, FS_Union
      <3>2. Apart(Q)
        BY <1>1, <2>4, <2>6 DEF RequestsOK, Apart
      <3> QED BY <2>5, <2>6, <3>1, <3>2 DEF RequestsOK
    <2>8. QueuesOK(Q, queues)
      <3>1. \A k \in Kinds : QueuedAt(Q, k) = QueuedAt(requests, k)
        BY <1>1, <2>4 DEF QueuedAt
      <3>2. QueuesOK(requests, queues)
        BY DEF BnInv, KeptInv, Kept
      <3> QED BY <3>1, <3>2 DEF QueuesOK, QueueOf
    <2>9. RequestsLast(requests, Q)
      BY <2>4, <2>5 DEF RequestsLast
    <2>10. KeptInv(y)
      <3>1. NavOK(nav) /\ run \in Nat /\ (nav # Closed => run >= 1) /\ DisplayOK(display) /\ live \subseteq BlobsFor(Int)
        BY DEF BnInv, KeptInv, Kept
      <3> QED BY <2>1, <2>7, <2>8, <3>1 DEF KeptInv
    <2>11. IsOpen(n) /\ n.base = nav.base /\ nav # Closed
      <3>1. "HEAD_PENDING" \in Manifests
        BY DEF Manifests
      <3> QED BY <1>5, <3>1, CurrentIs, SetManifestIs DEF SameSeek, n
    <2>12. AskedFor(y, w) /\ w.requests = Q
      <3>1. w = [y EXCEPT !.nav = n]
        BY DEF w
      <3> QED BY <2>1, <2>10, <2>11, <3>1, ReshapedIs
    <2> HIDE DEF Q
    <2>13. KeptInv(Kept)' /\ run' <= MaxRuns
      BY <2>2, <2>12, BecomesIs DEF AskedFor
    <2>14. requests' = Q
      BY <2>2, <2>12 DEF Becomes
    <2>15. step.pc = "parked" => Waking(Q, step.waits)
      <3> SUFFICES ASSUME step.pc = "parked" PROVE Waking(Q, step.waits)
        OBVIOUS
      <3>1. PICK p \in requests : Identity(p) = step.waits /\ p.pc # "queued" /\ ~p.settled
        BY BnInvIs DEF PressIs, Waking
      <3>2. PICK o \in Q : Identity(o) = Identity(p) /\ o.pc # "queued" /\ o.settled = p.settled
        BY <2>9, <3>1 DEF RequestsLast
      <3> QED BY <3>1, <3>2 DEF Waking
    <2>16. PressIs(step', nav', requests')
      <3>1. step.pc \in {"idle", "parked"} /\ step' = step
        BY <1>5 DEF Unpressed
      <3>2. PressIs(step, nav, requests)
        BY BnInvIs
      <3> QED BY <2>14, <2>15, <3>1, <3>2 DEF PressIs
    <2> QED BY <1>1, <1>5, <2>13, <2>16, BnInvIs, Frame
  <1> QED BY <1>3, <1>4, <1>5 DEF PolicyAnswers

LEMMA ProbeStep ==
  ASSUME BnInv, NEW r \in requests, ProbeAnswers(r), trail' = trail
  PROVE  BnInv'
  <1> DEFINE status == IF r.url \in trail.absent THEN "FAILED_HEAD" ELSE "PRESENT"
  <1>1. PICK w : w = IF Current(Kept, r) THEN Marked(r, status) ELSE Kept
    OBVIOUS
  <1>2. r.pc # "queued" /\ UNCHANGED decoded /\ Ends(w, r)
    BY <1>1 DEF ProbeAnswers
  <1>3. KeptInv(w) /\ w.requests = requests
    <2>1. CASE Current(Kept, r)
      <3>1. status \in Manifests /\ w = Marked(r, status)
        BY <1>1, <2>1 DEF Manifests
      <3> HIDE DEF status
      <3> QED BY <2>1, <3>1, MarkedIs
    <2>2. CASE ~Current(Kept, r)
      BY <1>1, <2>2, BnInvIs
    <2> QED BY <2>1, <2>2
  <1>4. UNCHANGED <<shown, radius, inputs>>
    BY <1>2 DEF Ends
  <1> QED BY <1>2, <1>3, <1>4, BnInvIs, EndsIs, Frame

LEMMA WithImageIs ==
  ASSUME BnInv, NEW r \in requests, Current(Kept, r), Fetched(r), NEW w, w = WithImage(r)
  PROVE  KeptInv(w) /\ w.requests = requests
  <1> DEFINE broken == r.url \in trail.broken
             n == IF broken THEN SetImage(nav, r.index, "FAILED_GET", {})
                  ELSE SetImage(nav, r.index, "OK", {Decoded(r)})
             m == Taken(n, r)
             lives == IF broken THEN live ELSE live \cup {Decoded(r)}
             y == [Kept EXCEPT !.live = lives]
  <1>0. IsOpen(nav) /\ nav # Closed /\ r.index \in Int /\ r.url = nav.base + r.index
    BY CurrentIs
  <1>1. ~broken => Decoded(r) \in BlobsFor({nav.base + r.index})
    <2> SUFFICES ASSUME ~broken PROVE Decoded(r) \in BlobsFor({nav.base + r.index})
      OBVIOUS
    <2>1. decoded < MaxBlobs /\ decoded \in 0..MaxBlobs /\ MaxBlobs \in Nat
      BY BnInvIs, NavigationAssumption DEF Fetched
    <2>2. decoded + 1 \in Serials
      BY <2>1 DEF Serials
    <2> QED BY <1>0, <2>2 DEF Decoded, BlobsFor
  <1>2. IsOpen(n) /\ n.base = nav.base
    <2>1. CASE broken
      <3>0. PICK blob, status : blob = {} /\ status = "FAILED_GET"
        OBVIOUS
      <3>1. n = SetImage(nav, r.index, status, blob) /\ status \in ImageStates
        BY <2>1, <3>0 DEF ImageStates
      <3>2. blob \in SUBSET BlobsFor({nav.base + r.index}) /\ (blob # {} <=> status = "OK")
        BY <3>0
      <3> HIDE DEF n
      <3>3. IsOpen(n) /\ SameSeek(n, nav)
        BY <1>0, <3>1, <3>2, SetImageIs
      <3> QED BY <3>3 DEF SameSeek
    <2>2. CASE ~broken
      <3>0. PICK blob, status : blob = {Decoded(r)} /\ status = "OK"
        OBVIOUS
      <3>1. n = SetImage(nav, r.index, status, blob) /\ status \in ImageStates
        BY <2>2, <3>0 DEF ImageStates
      <3>2. blob \in SUBSET BlobsFor({nav.base + r.index}) /\ (blob # {} <=> status = "OK")
        BY <1>1, <2>2, <3>0
      <3> HIDE DEF n
      <3>3. IsOpen(n) /\ SameSeek(n, nav)
        BY <1>0, <3>1, <3>2, SetImageIs
      <3> QED BY <3>3 DEF SameSeek
    <2> QED BY <2>1, <2>2
  <1> HIDE DEF n
  <1>3. IsOpen(m) /\ m.base = nav.base
    BY <1>2, TakenIs
  <1>4. w = [y EXCEPT !.nav = m]
    <2>1. w = [Kept EXCEPT !.nav = m, !.live = lives]
      BY DEF WithImage, Kept, n
    <2> HIDE DEF m, lives
    <2> QED BY <2>1 DEF Kept
  <1>5. lives \subseteq BlobsFor(Int)
    <2>1. live \subseteq BlobsFor(Int)
      BY DEF BnInv, KeptInv, Kept
    <2>2. nav.base + r.index \in Int
      BY <1>0 DEF IsOpen
    <2>3. ~broken => Decoded(r) \in BlobsFor(Int)
      BY <1>1, <2>2 DEF BlobsFor
    <2> HIDE DEF broken
    <2> QED BY <2>1, <2>3
  <1> HIDE DEF lives, m
  <1>6. /\ IsKept(y) /\ y.nav = nav /\ y.run = run /\ y.requests = requests /\ y.queues = queues
        /\ y.display = display /\ y.live = lives
    BY DEF Kept, IsKept
  <1> HIDE DEF y
  <1>7. KeptInv(y)
    <2>1. /\ NavOK(nav) /\ run \in Nat /\ (nav # Closed => run >= 1) /\ DisplayOK(display)
          /\ RequestsOK(nav, run, requests) /\ QueuesOK(requests, queues)
      BY DEF BnInv, KeptInv, Kept
    <2> QED BY <1>5, <1>6, <2>1 DEF KeptInv
  <1>8. AskedFor(y, w) /\ w.requests = y.requests
    BY <1>0, <1>3, <1>4, <1>6, <1>7, ReshapedIs
  <1> QED BY <1>6, <1>8 DEF AskedFor

LEMMA FetchStep ==
  ASSUME BnInv, NEW r \in requests, FetchAnswers(r), trail' = trail
  PROVE  BnInv'
  <1>1. PICK w : w = IF Current(Kept, r) THEN WithImage(r) ELSE Kept
    OBVIOUS
  <1>2. r.pc # "queued" /\ Fetched(r) /\ Ends(w, r)
    BY <1>1 DEF FetchAnswers, Fetched
  <1>3. KeptInv(w) /\ w.requests = requests
    <2>1. CASE Current(Kept, r)
      BY <1>1, <1>2, <2>1, WithImageIs
    <2>2. CASE ~Current(Kept, r)
      BY <1>1, <2>2, BnInvIs
    <2> QED BY <2>1, <2>2
  <1>4. UNCHANGED <<shown, radius, inputs>>
    BY <1>2 DEF Ends
  <1>5. decoded' \in 0..MaxBlobs
    BY <1>2, BnInvIs, NavigationAssumption DEF Fetched
  <1> QED BY <1>2, <1>3, <1>4, <1>5, BnInvIs, EndsIs, Frame

-------------------------------------------------------------------------------
(* A press                                                                 *)

LEMMA PressStep ==
  ASSUME BnInv, NEW dir \in {-1, 1}, Press(dir), trail' = trail
  PROVE  BnInv'
  <1>1. PICK w : w = Ensure(Kept, shown)
    OBVIOUS
  <1>2. PICK n : n = Seek(w.nav, dir)
    OBVIOUS
  <1>3. KeptInv(w) /\ w.nav # Closed
    BY <1>1, BnInvIs, EnsureIs
  <1>4. IsOpen(n) /\ n.base = w.nav.base /\ n # Closed /\ \A i \in n.blocked : Bucket(n, i) = "WALL"
    BY <1>2, <1>3, SeekIs, OpenIsNotClosed DEF KeptInv, NavOK
  <1>5. PICK x : x = [w EXCEPT !.nav = n]
    OBVIOUS
  <1>6. KeptInv(x) /\ x.nav = n
    BY <1>3, <1>4, <1>5, ReshapedIs DEF AskedFor
  <1>7. Becomes(x)
    BY <1>1, <1>2, <1>5 DEF Press
  <1>8. /\ inputs < MaxInputs /\ inputs' = inputs + 1 /\ UNCHANGED <<shown, radius, decoded>>
        /\ step' = [pc |-> "seeking", dir |-> dir, run |-> w.run, from |-> w.nav.cursor, attempt |-> 0,
                    waits |-> Nothing]
    BY <1>1 DEF Press
  <1>9. KeptInv(Kept)' /\ run' <= MaxRuns /\ nav' = n
    BY <1>6, <1>7, BecomesIs DEF Becomes
  <1>10. PressIs(step', nav', requests')
    BY <1>4, <1>8, <1>9 DEF PressIs
  <1>11. inputs' \in 0..MaxInputs
    BY <1>8, BnInvIs, NavigationAssumption
  <1> QED BY <1>8, <1>9, <1>10, <1>11, BnInvIs, Frame

\* A press is over.
LEMMA OverIs ==
  ASSUME BnInv, NEW w, KeptInv(w), Becomes(SchedulePreloads(w)), step' = Resting, shown' \in Int,
         UNCHANGED <<trail, radius, inputs, decoded>>
  PROVE  BnInv'
  <1>1. KeptInv(SchedulePreloads(w))
    BY SchedulePreloadsIs DEF AskedFor
  <1>2. KeptInv(Kept)' /\ run' <= MaxRuns
    BY <1>1, BecomesIs
  <1>3. PressIs(step', nav', requests')
    BY DEF PressIs, Resting
  <1> QED BY <1>2, <1>3, BnInvIs, Frame

LEMMA LandStep ==
  ASSUME BnInv, Land, trail' = trail
  PROVE  BnInv'
  <1> DEFINE e == nav.entry[nav.cursor]
             url == CHOOSE u \in e.url : TRUE
             blob == CHOOSE b \in e.blob : TRUE
             screen == IF blob.serial = 0 THEN {} ELSE {[url |-> url, blob |-> blob]}
  <1>1. PICK w : w = [Kept EXCEPT !.display = screen]
    OBVIOUS
  <1>2. /\ step.pc = "seeking" /\ Landed /\ step' = Resting /\ UNCHANGED <<radius, inputs, decoded>>
        /\ \/ shown' = url /\ Becomes(SchedulePreloads(w))
           \/ Becomes(SchedulePreloads(Kept)) /\ UNCHANGED shown
    BY <1>1 DEF Land
  <1>3. IsOpen(nav)
    BY <1>2, BnInvIs DEF PressIs, NavOK
  <1>4. NavEntry(nav.base + nav.cursor, e) /\ nav.base + nav.cursor \in Int
    <2>1. nav.cursor \in DOMAIN nav.entry /\ NavEntries(nav.base, nav.entry) /\ nav.base \in Int
      BY <1>3 DEF IsOpen
    <2>2. nav.cursor \in Int
      BY <2>1 DEF NavEntries
    <2>3. nav.base + nav.cursor \in Int
      BY <2>1, <2>2
    <2> QED BY <2>1, <2>3 DEF NavEntries
  <1>5. e.image = "OK" /\ e.url # {}
    BY <1>2 DEF Landed
  <1>6. url = nav.base + nav.cursor
    BY <1>4, <1>5 DEF NavEntry
  <1>7. blob \in BlobsFor({nav.base + nav.cursor})
    BY <1>4, <1>5 DEF NavEntry
  <1> HIDE DEF url, blob
  <1>8. DisplayOK(screen)
    BY <1>4, <1>6, <1>7 DEF DisplayOK, BlobsFor
  <1> HIDE DEF screen
  <1>9. KeptInv(w)
    <2>1. /\ IsKept(w) /\ w.nav = nav /\ w.run = run /\ w.requests = requests /\ w.queues = queues
          /\ w.display = screen /\ w.live = live
      BY <1>1 DEF Kept, IsKept
    <2>2. /\ NavOK(nav) /\ run \in Nat /\ (nav # Closed => run >= 1) /\ live \subseteq BlobsFor(Int)
          /\ RequestsOK(nav, run, requests) /\ QueuesOK(requests, queues)
      BY DEF BnInv, KeptInv, Kept
    <2> QED BY <1>8, <2>1, <2>2 DEF KeptInv
  <1>10. CASE shown' = url /\ Becomes(SchedulePreloads(w))
    <2>1. shown' \in Int
      BY <1>4, <1>6, <1>10
    <2> QED BY <1>2, <1>9, <1>10, <2>1, OverIs
  <1>11. CASE Becomes(SchedulePreloads(Kept)) /\ UNCHANGED shown
    BY <1>2, <1>11, BnInvIs, OverIs
  <1> QED BY <1>2, <1>10, <1>11

LEMMA GiveUpStep ==
  ASSUME BnInv, GiveUp, trail' = trail
  PROVE  BnInv'
  <1>1. step' = Resting /\ UNCHANGED <<shown, radius, inputs, decoded>>
    BY DEF GiveUp
  <1>2. CASE UNCHANGED <<nav, run, requests, queues, display, live>>
    <2>1. PressIs(step', nav', requests')
      BY <1>1 DEF PressIs, Resting
    <2> QED BY <1>1, <1>2, <2>1, BnInvIs, KeptStays, Frame
  <1>3. CASE Becomes(SchedulePreloads(Kept))
    BY <1>1, <1>3, BnInvIs, OverIs
  <1> QED BY <1>2, <1>3 DEF GiveUp

\* What a press parks on is in flight: it is not behind others in a queue.
LEMMA ParkIs ==
  ASSUME BnInv, step.pc \in {"seeking", "probed"}, NEW w, KeptInv(w), NEW kind \in Kinds, NEW i \in Int,
         \E r \in w.requests : r.kind = kind /\ r.index = i /\ r.tracked,
         Park(w, kind, i), trail' = trail
  PROVE  BnInv'
  <1> DEFINE rs == RequestsAt(Inflight(w, kind) \cup Queued(w, kind), i)
             q == CHOOSE r \in rs : TRUE
  <1>1. /\ Becomes(w) /\ UNCHANGED <<shown, radius, inputs, decoded>>
        /\ step' = [step EXCEPT !.pc = "parked", !.waits = Identity(q)]
    BY DEF Park
  <1>2. PICK t \in w.requests : t.kind = kind /\ t.index = i /\ t.tracked
    OBVIOUS
  <1>3. q \in rs
    <2>1. t \in rs
      BY <1>2 DEF RequestsAt, Inflight
    <2> QED BY <2>1
  <1>4. /\ q \in w.requests /\ q.kind = kind /\ q.index = i /\ (q.tracked \/ q.pc = "queued")
    BY <1>3 DEF RequestsAt, Inflight, Queued
  <1> HIDE DEF q
  <1>5. q.pc # "queued" /\ ~q.settled
    <2>1. RequestsOK(w.nav, w.run, w.requests)
      BY DEF KeptInv
    <2>2. q.pc # "queued"
      BY <1>2, <1>4, <2>1 DEF RequestsOK, Apart
    <2> QED BY <1>4, <2>1, <2>2 DEF RequestsOK, RequestOf
  <1>6. KeptInv(Kept)' /\ run' <= MaxRuns /\ requests' = w.requests
    BY <1>1, BecomesIs DEF Becomes
  <1>7. Waking(requests', Identity(q))
    BY <1>4, <1>5, <1>6 DEF Waking
  <1>8. PressIs(step', nav', requests')
    <2>1. /\ DOMAIN step = {"pc", "dir", "run", "from", "attempt", "waits"} /\ step.dir \in {-1, 1}
      BY BnInvIs DEF PressIs
    <2>2. DOMAIN step' = DOMAIN step /\ step'.pc = "parked" /\ step'.dir = step.dir /\ step'.waits = Identity(q)
      BY <1>1, <2>1
    <2> QED BY <1>7, <2>1, <2>2 DEF PressIs
  <1> QED BY <1>1, <1>6, <1>8, BnInvIs, Frame

LEMMA AwaitStep ==
  ASSUME BnInv, Await, trail' = trail
  PROVE  BnInv'
  <1> DEFINE i == CHOOSE j \in nav.blocked : TRUE
             ahead == [offset \in 1..ProbeK(nav.radius) |-> i + step.dir * offset]
  <1>1. PICK warmed : warmed = AskEach(Kept, ahead, FALSE)
    OBVIOUS
  <1>2. /\ step.pc = "seeking" /\ nav.blocked # {}
        /\ \/ Wanted(nav, i) /\ Park(GetIndex(warmed, i, TRUE), "get", i)
           \/ ~Wanted(nav, i) /\ Park(ProbeIndex(warmed, i, TRUE, FALSE), "head", i)
    BY <1>1 DEF Await
  <1>3. i \in nav.blocked
    BY <1>2
  <1> HIDE DEF i
  <1>4. nav # Closed /\ IsOpen(nav) /\ Bucket(nav, i) = "WALL" /\ i \in Int
    BY <1>2, <1>3, BnInvIs DEF PressIs, NavOK, IsOpen, SeekRests
  <1>5. ahead \in Seq(Int)
    <2>1. ProbeK(nav.radius) \in Nat
      BY <1>4, ProbeKIs DEF IsOpen
    <2>2. step.dir \in {-1, 1}
      BY <1>2, BnInvIs DEF PressIs
    <2>3. PICK N \in Nat : N = ProbeK(nav.radius)
      BY <2>1
    <2>4. \A offset \in 1..N : i + step.dir * offset \in Int
      BY <1>4, <2>2, <2>3
    <2>5. ahead = [offset \in 1..N |-> i + step.dir * offset]
      BY <2>3
    <2> HIDE DEF ahead
    <2> QED BY <2>4, <2>5
  <1> HIDE DEF ahead
  <1>6. PICK yes \in BOOLEAN, no \in BOOLEAN : yes = TRUE /\ no = FALSE
    OBVIOUS
  <1>7. KeptInv(warmed) /\ warmed.nav = nav /\ warmed.nav # Closed
    <2>1. warmed = AskEach(Kept, ahead, no)
      BY <1>1, <1>6
    <2>2. AskedFor(Kept, warmed) /\ (~no => warmed.nav = Kept.nav)
      BY <1>4, <1>5, <2>1, BnInvIs, AskEachIs
    <2> QED BY <1>4, <1>6, <2>2, BnInvIs DEF AskedFor
  <1>8. "get" \in Kinds /\ "head" \in Kinds
    BY DEF Kinds
  <1>9. CASE Wanted(nav, i) /\ Park(GetIndex(warmed, i, TRUE), "get", i)
    <2>1. PICK x : x = GetIndex(warmed, i, yes)
      OBVIOUS
    <2>2. x = Demand(warmed, "get", i, yes, no)
      BY <1>6, <1>7, <1>9, <2>1 DEF GetIndex, Wanted
    <2>3. KeptInv(x) /\ \E r \in x.requests : r.kind = "get" /\ r.index = i /\ r.tracked
      <3>1. AskedFor(warmed, x) /\ (yes => \E r \in x.requests : r.kind = "get" /\ r.index = i /\ r.tracked)
        BY <1>4, <1>7, <1>8, <2>2, DemandIs
      <3> QED BY <1>6, <3>1 DEF AskedFor
    <2>4. Park(x, "get", i)
      BY <1>6, <1>9, <2>1
    <2> QED BY <1>2, <1>4, <1>8, <2>3, <2>4, ParkIs
  <1>10. CASE ~Wanted(nav, i) /\ Park(ProbeIndex(warmed, i, TRUE, FALSE), "head", i)
    <2>1. PICK x : x = ProbeIndex(warmed, i, yes, no)
      OBVIOUS
    <2>2. EntryAt(nav, i).manifest \notin {"PRESENT", "FAILED_HEAD"}
      BY <1>4, <1>10 DEF Bucket, Wanted
    <2>3. x = Demand(warmed, "head", i, yes, no)
      BY <1>7, <2>1, <2>2 DEF ProbeIndex
    <2>4. KeptInv(x) /\ \E r \in x.requests : r.kind = "head" /\ r.index = i /\ r.tracked
      <3>1. AskedFor(warmed, x) /\ (yes => \E r \in x.requests : r.kind = "head" /\ r.index = i /\ r.tracked)
        BY <1>4, <1>7, <1>8, <2>3, DemandIs
      <3> QED BY <1>6, <3>1 DEF AskedFor
    <2>5. Park(x, "head", i)
      BY <1>6, <1>10, <2>1
    <2> QED BY <1>2, <1>4, <1>8, <2>4, <2>5, ParkIs
  <1> QED BY <1>2, <1>9, <1>10

LEMMA ProbedStep ==
  ASSUME BnInv, Probed, trail' = trail
  PROVE  BnInv'
  <1> DEFINE i == step.waits.index
  <1>1. step.pc = "probed" /\ i \in Int
    BY BnInvIs DEF Probed, PressIs
  <1> HIDE DEF i
  <1>2. CASE nav # Closed /\ Wanted(nav, i) /\ Park(GetIndex(Kept, i, TRUE), "get", i)
    <2>1. PICK yes \in BOOLEAN, no \in BOOLEAN : yes = TRUE /\ no = FALSE
      OBVIOUS
    <2>2. PICK x : x = GetIndex(Kept, i, yes)
      OBVIOUS
    <2>3. x = Demand(Kept, "get", i, yes, no)
      BY <1>2, <2>1, <2>2, BnInvIs DEF GetIndex, Wanted
    <2>4. "get" \in Kinds
      BY DEF Kinds
    <2>5. KeptInv(x) /\ \E r \in x.requests : r.kind = "get" /\ r.index = i /\ r.tracked
      <3>1. KeptInv(Kept) /\ Kept.nav # Closed
        BY <1>2, BnInvIs
      <3>2. AskedFor(Kept, x) /\ (yes => \E r \in x.requests : r.kind = "get" /\ r.index = i /\ r.tracked)
        BY <1>1, <2>3, <2>4, <3>1, DemandIs
      <3> QED BY <2>1, <3>2 DEF AskedFor
    <2>6. Park(x, "get", i)
      BY <1>2, <2>1, <2>2
    <2> QED BY <1>1, <2>4, <2>5, <2>6, ParkIs
  <1>3. CASE /\ step' = [step EXCEPT !.pc = "resolved"]
             /\ UNCHANGED <<nav, run, requests, queues, display, live, shown, radius, inputs, decoded>>
    <2>1. /\ DOMAIN step = {"pc", "dir", "run", "from", "attempt", "waits"} /\ step.dir \in {-1, 1}
      BY <1>1, BnInvIs DEF PressIs
    <2>2. DOMAIN step' = DOMAIN step /\ step'.pc = "resolved" /\ step'.dir = step.dir
      BY <1>3, <2>1
    <2>3. PressIs(step', nav', requests')
      BY <2>1, <2>2 DEF PressIs
    <2> QED BY <1>3, <2>3, BnInvIs, KeptStays, Frame
  <1> QED BY <1>2, <1>3 DEF Probed, i

LEMMA ResumeStep ==
  ASSUME BnInv, Resume, trail' = trail
  PROVE  BnInv'
  <1>1. UNCHANGED <<run, requests, queues, display, live, shown, radius, inputs, decoded>> /\ step.pc = "resolved"
    BY DEF Resume
  <1>2. CASE /\ Current(Kept, step) /\ nav' = AdvanceSeek(nav)
             /\ step' = [step EXCEPT !.pc = "seeking", !.attempt = @ + 1]
    <2>1. IsOpen(nav) /\ nav # Closed
      BY <1>2, BnInvIs DEF Current, NavOK
    <2>2. /\ IsOpen(nav') /\ nav'.base = nav.base /\ nav' # Closed
          /\ \A i \in nav'.blocked : Bucket(nav', i) = "WALL"
      <3>1. PICK n : n = AdvanceSeek(nav)
        OBVIOUS
      <3>2. IsOpen(n) /\ n.base = nav.base /\ n # Closed /\ \A i \in n.blocked : Bucket(n, i) = "WALL"
        BY <2>1, <3>1, AdvanceSeekIs, OpenIsNotClosed
      <3> QED BY <1>2, <3>1, <3>2
    <2>3. PICK x : x = [Kept EXCEPT !.nav = nav']
      OBVIOUS
    <2>4. KeptInv(x)
      BY <2>1, <2>2, <2>3, BnInvIs, ReshapedIs DEF AskedFor
    <2>5. Becomes(x)
      BY <1>1, <2>3 DEF Becomes, Kept, BnInv
    <2>6. KeptInv(Kept)' /\ run' <= MaxRuns
      BY <2>4, <2>5, BecomesIs
    <2>7. PressIs(step', nav', requests')
      <3>1. /\ DOMAIN step = {"pc", "dir", "run", "from", "attempt", "waits"} /\ step.dir \in {-1, 1}
        BY <1>1, BnInvIs DEF PressIs
      <3>2. DOMAIN step' = DOMAIN step /\ step'.pc = "seeking" /\ step'.dir = step.dir
        BY <1>2, <3>1
      <3> QED BY <2>2, <3>1, <3>2 DEF PressIs
    <2> QED BY <1>1, <2>6, <2>7, BnInvIs, Frame
  <1>3. CASE step' = Resting /\ UNCHANGED nav
    <2>1. PressIs(step', nav', requests')
      BY <1>3 DEF PressIs, Resting
    <2> QED BY <1>1, <1>3, <2>1, BnInvIs, KeptStays, Frame
  <1> QED BY <1>2, <1>3 DEF Resume

-------------------------------------------------------------------------------

LEMMA BnInvInit == BnInit => BnInv
  <1> SUFFICES ASSUME BnInit PROVE BnInv
    OBVIOUS
  <1>1. IsKept(Kept) /\ Kept.nav = Closed /\ Kept.run = 0 /\ Kept.requests = {} /\ Kept.display = {} /\ Kept.live = {}
        /\ Kept.queues = [k \in Kinds |-> <<>>]
    BY DEF BnInit, Kept, IsKept
  <1>2. QueuesOK({}, Kept.queues)
    <2>1. IsQueue(<<>>) /\ ToSet(<<>>) = {} /\ \A k \in Kinds : QueuedAt({}, k) = {}
      BY DEF IsQueue, ToSet, QueuedAt
    <2>2. \A k \in Kinds : QueueOf({}, k, <<>>)
      BY <2>1 DEF QueueOf
    <2> QED BY <1>1, <2>2 DEF QueuesOK
  <1>3. RequestsOK(Closed, 0, {})
    BY FS_EmptySet DEF RequestsOK, Apart
  <1>4. KeptInv(Kept)
    BY <1>1, <1>2, <1>3 DEF KeptInv, NavOK, DisplayOK
  <1>5. PressIs(step, nav, requests)
    BY DEF BnInit, PressIs, Resting
  <1>6. shown \in Int /\ 0 \in 0..MaxInputs /\ 0 \in 0..MaxBlobs /\ 0 <= MaxRuns
    BY NavigationAssumption DEF BnInit
  <1> QED BY <1>4, <1>5, <1>6 DEF BnInit, BnInv

LEMMA BnInvStep == BnInv /\ [BnNext]_bnVars => BnInv'
  <1> SUFFICES ASSUME BnInv, [BnNext]_bnVars PROVE BnInv'
    OBVIOUS
  <1>1. CASE UNCHANGED bnVars
    <2>1. UNCHANGED <<nav, run, requests, queues, display, live, step>>
      BY <1>1 DEF bnVars
    <2>2. KeptInv(Kept)' /\ run' <= MaxRuns
      BY <2>1, KeptStays
    <2>3. PressIs(step, nav, requests)'
      BY <2>1, BnInvIs
    <2> QED BY <1>1, <2>2, <2>3, BnInvIs, Frame DEF bnVars
  <1>2. CASE BnNext
    <2>1. trail' = trail
      BY <1>2 DEF BnNext
    <2>2. CASE Prime
      BY <2>1, <2>2, PrimeStep
    <2>3. CASE Refresh
      BY <2>1, <2>3, RefreshStep
    <2>4. CASE Dispose
      BY <2>1, <2>4, DisposeStep
    <2>5. CASE (\E url \in Urls : Show(url)) \/ (\E n \in Radii : SetRadius(n))
      BY <2>1, <2>5, ChoiceStep
    <2>6. ASSUME NEW r \in requests, PolicyAnswers(r) PROVE BnInv'
      BY <2>1, <2>6, PolicyStep
    <2>7. ASSUME NEW r \in requests, ProbeAnswers(r) PROVE BnInv'
      BY <2>1, <2>7, ProbeStep
    <2>8. ASSUME NEW r \in requests, FetchAnswers(r) PROVE BnInv'
      BY <2>1, <2>8, FetchStep
    <2>9. ASSUME NEW dir \in {-1, 1}, Press(dir) PROVE BnInv'
      BY <2>1, <2>9, PressStep
    <2>10. CASE Land
      BY <2>1, <2>10, LandStep
    <2>11. CASE GiveUp
      BY <2>1, <2>11, GiveUpStep
    <2>12. CASE Await
      BY <2>1, <2>12, AwaitStep
    <2>13. CASE Probed
      BY <2>1, <2>13, ProbedStep
    <2>14. CASE Resume
      BY <2>1, <2>14, ResumeStep
    <2> QED
      BY <1>2, <2>2, <2>3, <2>4, <2>5, <2>6, <2>7, <2>8, <2>9, <2>10, <2>11, <2>12, <2>13, <2>14 DEF BnNext
  <1> QED BY <1>1, <1>2

LEMMA BnInvTypes == BnInv => BnTypeOK
  <1> SUFFICES ASSUME BnInv PROVE BnTypeOK
    OBVIOUS
  <1>1. run \in 0..MaxRuns
    BY BnInvIs, NavigationAssumption DEF BnInv
  <1>2. ASSUME nav # Closed
        PROVE  /\ {nav.base, nav.cursor} \subseteq Int /\ nav.radius \in Radii
               /\ nav.cursor \in DOMAIN nav.entry /\ nav.blocked \subseteq Int
               /\ \A i \in DOMAIN nav.entry :
                    /\ nav.entry[i].manifest \in {"UNKNOWN", "HEAD_PENDING", "PRESENT", "FAILED_HEAD"}
                    /\ nav.entry[i].image \in {"UNKNOWN", "GET_PENDING", "OK", "FAILED_GET"}
                    /\ nav.entry[i].blob # {} <=> nav.entry[i].image = "OK"
    <2>1. IsOpen(nav) /\ NavEntries(nav.base, nav.entry)
      BY <1>2, BnInvIs DEF NavOK, IsOpen
    <2>2. nav.cursor \in Int
      BY <2>1 DEF IsOpen, NavEntries
    <2>3. ASSUME NEW i \in DOMAIN nav.entry PROVE NavEntry(nav.base + i, nav.entry[i])
      BY <2>1 DEF NavEntries
    <2>4. \A i \in DOMAIN nav.entry :
            /\ nav.entry[i].manifest \in {"UNKNOWN", "HEAD_PENDING", "PRESENT", "FAILED_HEAD"}
            /\ nav.entry[i].image \in {"UNKNOWN", "GET_PENDING", "OK", "FAILED_GET"}
            /\ nav.entry[i].blob # {} <=> nav.entry[i].image = "OK"
      BY <2>3 DEF NavEntry, Manifests, ImageStates
    <2> QED BY <2>1, <2>2, <2>4 DEF IsOpen, SeekRests
  <1>3. ASSUME NEW r \in requests
        PROVE  /\ Identity(r) \in Identities /\ r.pc \in {"queued", "policy", "probe", "fetch"}
               /\ {r.advance, r.follow, r.tracked, r.settled} \subseteq BOOLEAN
    <2>1. RequestOf(nav, run, r) /\ IsRequest(r)
      BY BnInvIs DEF RequestOf
    <2>2. r.run \in 1..MaxRuns
      <3>1. r.run \in 1..run /\ MaxRuns \in Nat /\ run \in Nat /\ run <= MaxRuns
        BY <1>1, <2>1, NavigationAssumption DEF RequestOf
      <3> QED BY <3>1
    <2> QED BY <2>1, <2>2 DEF IsRequest, Identity, Identities
  <1>4. \A k \in Kinds : ToSet(queues[k]) = {r.index : r \in {q \in requests : q.pc = "queued" /\ q.kind = k}}
    <2>1. QueuesOK(requests, queues)
      BY DEF BnInv, KeptInv, Kept
    <2> QED BY <2>1 DEF QueuesOK, QueueOf, QueuedAt
  <1>5. live \subseteq [url: Int, serial: Serials] /\ \A d \in display : d.blob.serial \in Serials
    <2>1. live \subseteq BlobsFor(Int) /\ DisplayOK(display)
      BY DEF BnInv, KeptInv, Kept
    <2> QED BY <2>1 DEF DisplayOK, BlobsFor
  <1>6. step.pc \in {"idle", "seeking", "parked", "probed", "resolved"}
    BY BnInvIs DEF PressIs
  <1> QED BY <1>1, <1>2, <1>3, <1>4, <1>5, <1>6 DEF BnInv, BnTypeOK

\* What the window, the requests, their queues, the display and the press are, in every
\* state (buffered-navigation-controller.ts with its reducer): the queue of each kind
\* holds exactly the indices whose request has not begun.
THEOREM NavigationTypes == BnSpec => []BnTypeOK
  <1>1. BnInit => BnInv
    BY BnInvInit
  <1>2. BnInv /\ [BnNext]_bnVars => BnInv'
    BY BnInvStep
  <1>3. BnInv => BnTypeOK
    BY BnInvTypes
  <1> QED BY <1>1, <1>2, <1>3, PTL DEF BnSpec

\* An answer to a request of an earlier window never gets into this one: at each index
\* the window holds the url and the image that are that many bumps from its base
\* (isCurrentRun after every await of startHeadProbe and startGet).
THEOREM WindowHolds == BnSpec => []WindowIsOfBase
  <1>1. BnInit => BnInv
    BY BnInvInit
  <1>2. BnInv /\ [BnNext]_bnVars => BnInv'
    BY BnInvStep
  <1>3. BnInv => WindowIsOfBase
    <2> SUFFICES ASSUME BnInv, nav # Closed, NEW i \in DOMAIN nav.entry
                 PROVE  /\ nav.entry[i].url \subseteq {nav.base + i}
                        /\ \A b \in nav.entry[i].blob : b.url = nav.base + i
      BY DEF WindowIsOfBase
    <2>1. NavEntry(nav.base + i, nav.entry[i])
      BY BnInvIs DEF NavOK, IsOpen, NavEntries
    <2> QED BY <2>1 DEF NavEntry, BlobsFor
  <1> QED BY <1>1, <1>2, <1>3, PTL DEF BnSpec

\* A press that waits is waiting for a request that is under way and not settled, which
\* wakes it when it ends (promoteQueuedHeadProbe, promoteQueuedGet, cancelInflight).
THEOREM ParkedWakes == BnSpec => []ParkedIsInFlight
  <1>1. BnInit => BnInv
    BY BnInvInit
  <1>2. BnInv /\ [BnNext]_bnVars => BnInv'
    BY BnInvStep
  <1>3. BnInv => ParkedIsInFlight
    BY BnInvIs DEF ParkedIsInFlight, PressIs, Waking
  <1> QED BY <1>1, <1>2, <1>3, PTL DEF BnSpec
=================================================================================

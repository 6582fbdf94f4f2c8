--------------------------- MODULE SecureSyncProofs ---------------------------
(***************************************************************************)
(* What Sync's comparison and merge promise, for every record, and proofs  *)
(* about SecureSync for any number of records, calls and messages: the     *)
(* types, the control phase, publication and the receipts' sequences.      *)
(***************************************************************************)
EXTENDS SecureSync, FiniteSetTheorems, TLAPS

-----------------------------------------------------------------------------
(* Revision vectors                                                        *)

\* A merged revision is a revision, and the least one no earlier than either.
LEMMA MergeIsLeastUpperBound ==
  ASSUME NEW l \in Vectors, NEW r \in Vectors
  PROVE  /\ MergeRevisions(l, r) \in Vectors
         /\ NoLater(l, MergeRevisions(l, r))
         /\ NoLater(r, MergeRevisions(l, r))
         /\ \A v \in Vectors : NoLater(l, v) /\ NoLater(r, v) => NoLater(MergeRevisions(l, r), v)
  BY DEF Vectors, NoLater, MergeRevisions

\* Merging what is already covered changes nothing.
LEMMA MergeAbsorbs ==
  ASSUME NEW l \in Vectors, NEW r \in Vectors
  PROVE  /\ MergeRevisions(MergeRevisions(l, r), r) = MergeRevisions(l, r)
         /\ MergeRevisions(l, MergeRevisions(l, r)) = MergeRevisions(l, r)
<1>1. \A p \in Products : l[p] \in Nat /\ r[p] \in Nat
  BY DEF Vectors
<1> QED
  BY <1>1 DEF MergeRevisions

\* The four relations, each as what it says of NoLater.
LEMMA RelationMeans ==
  ASSUME NEW l, NEW r
  PROVE  /\ CompareRevisions(l, r) \in {"equal", "before", "after", "concurrent"}
         /\ CompareRevisions(l, r) = "equal" <=> NoLater(l, r) /\ NoLater(r, l)
         /\ CompareRevisions(l, r) = "before" <=> NoLater(l, r) /\ ~NoLater(r, l)
         /\ CompareRevisions(l, r) = "after" <=> ~NoLater(l, r) /\ NoLater(r, l)
         /\ CompareRevisions(l, r) = "concurrent" <=> ~NoLater(l, r) /\ ~NoLater(r, l)
  BY DEF CompareRevisions

\* Comparing in the other product roles gives the converse relation, so what a
\* comparison finds does not depend on which product makes it.
THEOREM ComparisonIsConverse ==
  ASSUME NEW l, NEW r
  PROVE  /\ CompareRevisions(l, r) = "before" <=> CompareRevisions(r, l) = "after"
         /\ CompareRevisions(l, r) = "equal" <=> CompareRevisions(r, l) = "equal"
         /\ CompareRevisions(l, r) = "concurrent" <=> CompareRevisions(r, l) = "concurrent"
  BY RelationMeans

-----------------------------------------------------------------------------
(* Merged records                                                          *)

LEMMA FieldRevisionTyped ==
  ASSUME NEW record, IsSnapshot(record), NEW f \in Fields
  PROVE  FieldRevision(record, f) \in Vectors
  BY DEF IsSnapshot, FieldRevision

\* A merged record is a record, and carries a revision for every field.
LEMMA MergedTyped ==
  ASSUME NEW it, IsSnapshot(it), NEW ov, IsSnapshot(ov)
  PROVE  /\ IsSnapshot(Merged(it, ov))
         /\ \A f \in Fields :
              FieldRevision(Merged(it, ov), f)
                = MergeRevisions(FieldRevision(it, f), FieldRevision(ov, f))
<1>1. \A f \in Fields : MergeRevisions(FieldRevision(it, f), FieldRevision(ov, f)) \in Vectors
  BY FieldRevisionTyped, MergeIsLeastUpperBound
<1>2. MergeRevisions(it.revision, ov.revision) \in Vectors
  BY MergeIsLeastUpperBound DEF IsSnapshot
<1>3. Merged(it, ov).value \in [Fields -> Values]
  BY DEF Merged, IsSnapshot
<1>4. /\ Merged(it, ov).revision \in Vectors
      /\ Merged(it, ov).fieldRevisions \in [Fields -> Vectors]
  BY <1>1, <1>2 DEF Merged
<1>5. Merged(it, ov) = [value |-> Merged(it, ov).value, revision |-> Merged(it, ov).revision,
                        fieldRevisions |-> Merged(it, ov).fieldRevisions]
  BY DEF Merged
<1>6. DOMAIN Merged(it, ov).fieldRevisions = Fields
  BY DEF Merged
<1>7. IsSnapshot(Merged(it, ov))
  BY <1>3, <1>4, <1>5, <1>6 DEF IsSnapshot
<1>8. \A f \in Fields : FieldRevision(Merged(it, ov), f)
                          = MergeRevisions(FieldRevision(it, f), FieldRevision(ov, f))
  BY DEF Merged, FieldRevision
<1> QED
  BY <1>7, <1>8

\* What a merge without conflicts makes of each field.
LEMMA MergedField ==
  ASSUME NEW it, IsSnapshot(it), NEW ov, IsSnapshot(ov), NEW f \in Fields,
         f \notin Conflicts(it, ov)
  PROVE  \/ Merged(it, ov).value[f] = it.value[f] /\ it.value[f] = ov.value[f]
         \/ /\ Merged(it, ov).value[f] = it.value[f]
            /\ Relation(it, ov, f) = "after"
         \/ /\ Merged(it, ov).value[f] = ov.value[f]
            /\ Relation(it, ov, f) = "before"
<1>1. Relation(it, ov, f) \in {"equal", "before", "after", "concurrent"}
  BY RelationMeans DEF Relation
<1> QED
  BY <1>1 DEF Merged, Taken, Conflicts, Differing

\* The merged record is no earlier than either copy, in every field.
LEMMA MergedCovers ==
  ASSUME NEW it, IsSnapshot(it), NEW ov, IsSnapshot(ov), NEW f \in Fields
  PROVE  /\ NoLater(FieldRevision(it, f), FieldRevision(Merged(it, ov), f))
         /\ NoLater(FieldRevision(ov, f), FieldRevision(Merged(it, ov), f))
  BY MergedTyped, FieldRevisionTyped, MergeIsLeastUpperBound

\* Where both copies' order is decided, the merged revision is the later one's.
LEMMA MergedRevisionOfOrdered ==
  ASSUME NEW l \in Vectors, NEW r \in Vectors
  PROVE  /\ NoLater(l, r) => MergeRevisions(l, r) = r
         /\ NoLater(r, l) => MergeRevisions(l, r) = l
<1>1. \A p \in Products : l[p] \in Nat /\ r[p] \in Nat
  BY DEF Vectors
<1>2. /\ l = [p \in Products |-> l[p]]
      /\ r = [p \in Products |-> r[p]]
  BY DEF Vectors
<1>3. ASSUME NoLater(l, r) PROVE MergeRevisions(l, r) = r
  <2>1. \A p \in Products : (IF l[p] >= r[p] THEN l[p] ELSE r[p]) = r[p]
    BY <1>1, <1>3 DEF NoLater
  <2> QED
    BY <2>1, <1>2 DEF MergeRevisions
<1>4. ASSUME NoLater(r, l) PROVE MergeRevisions(l, r) = l
  <2>1. \A p \in Products : (IF l[p] >= r[p] THEN l[p] ELSE r[p]) = l[p]
    BY <1>1, <1>4 DEF NoLater
  <2> QED
    BY <2>1, <1>2 DEF MergeRevisions
<1> QED
  BY <1>3, <1>4

-----------------------------------------------------------------------------
(* Convergence                                                             *)

\* A side that adopts a merge without conflicts has nothing left to review
\* against either copy, and meeting them again leaves every value as it is: the
\* two products reach the same record whichever of them merges first, and a
\* repeated or late snapshot changes nothing (analyzeSyncRecords).
THEOREM AutomaticMergeConverges ==
  ASSUME NEW it, IsSnapshot(it), NEW ov, IsSnapshot(ov), Conflicts(it, ov) = {}
  PROVE  /\ Conflicts(Merged(it, ov), ov) = {}
         /\ Conflicts(it, Merged(it, ov)) = {}
         /\ Merged(Merged(it, ov), ov).value = Merged(it, ov).value
         /\ Merged(it, Merged(it, ov)).value = Merged(it, ov).value
<1> DEFINE m == Merged(it, ov)
<1>1. IsSnapshot(m)
  BY MergedTyped
<1>2. ASSUME NEW f \in Fields
      PROVE  /\ m.value[f] = ov.value[f] \/ Relation(m, ov, f) = "after"
             /\ m.value[f] = it.value[f] \/ Relation(it, m, f) = "before"
  <2>1. /\ FieldRevision(it, f) \in Vectors
        /\ FieldRevision(ov, f) \in Vectors
    BY FieldRevisionTyped
  <2>2. FieldRevision(m, f) = MergeRevisions(FieldRevision(it, f), FieldRevision(ov, f))
    BY MergedTyped
  <2>3. CASE m.value[f] = it.value[f] /\ it.value[f] = ov.value[f]
    BY <2>3
  <2>4. CASE m.value[f] = it.value[f] /\ Relation(it, ov, f) = "after"
    <3>1. FieldRevision(m, f) = FieldRevision(it, f)
      BY <2>1, <2>2, <2>4, RelationMeans, MergedRevisionOfOrdered DEF Relation
    <3> QED
      BY <2>4, <3>1 DEF Relation
  <2>5. CASE m.value[f] = ov.value[f] /\ Relation(it, ov, f) = "before"
    <3>1. FieldRevision(m, f) = FieldRevision(ov, f)
      BY <2>1, <2>2, <2>5, RelationMeans, MergedRevisionOfOrdered DEF Relation
    <3> QED
      BY <2>5, <3>1 DEF Relation
  <2> QED
    BY <2>3, <2>4, <2>5, MergedField
<1> HIDE DEF m
<1>3. Conflicts(m, ov) = {} /\ Conflicts(it, m) = {}
  BY <1>2 DEF Conflicts, Differing
<1>4. Taken(m, ov) = {}
  BY <1>2 DEF Taken, Differing
<1>5. \A f \in Fields : f \notin Taken(it, m) => it.value[f] = m.value[f]
  BY <1>2 DEF Taken, Differing
<1>6. m.value = [f \in Fields |-> m.value[f]]
  BY <1>1 DEF IsSnapshot
<1>7. Merged(m, ov).value = m.value
  BY <1>4, <1>6 DEF Merged
<1>8. Merged(it, m).value = m.value
  BY <1>5, <1>6 DEF Merged
<1> QED
  BY <1>3, <1>7, <1>8 DEF m

\* What a resolved record holds in each field of the conflict.
LEMMA PrimaryField ==
  ASSUME NEW it, IsSnapshot(it), NEW ov, IsSnapshot(ov),
         NEW decisions, NEW f \in Conflicts(it, ov)
  PROVE  /\ FieldRevision(Primary(Analyze(it, ov), ov, decisions), f)
              = FieldRevision(Merged(it, ov), f)
         /\ Primary(Analyze(it, ov), ov, decisions).value[f] =
              IF decisions[f] = "keep-overlook" THEN ov.value[f] ELSE it.value[f]
<1>1. f \in Fields /\ f \notin Taken(it, ov)
  BY RelationMeans DEF Conflicts, Differing, Taken
<1>2. Merged(it, ov).value[f] = it.value[f]
  BY <1>1 DEF Merged
<1>3. Merged(it, ov) = [value |-> Merged(it, ov).value, revision |-> Merged(it, ov).revision,
                        fieldRevisions |-> Merged(it, ov).fieldRevisions]
  BY DEF Merged
<1> DEFINE chosen == Choosing(decisions, Conflicts(it, ov), {"keep-overlook"})
<1>4. f \in chosen <=> decisions[f] = "keep-overlook"
  BY DEF Choosing
<1>0. /\ Analyze(it, ov).merged = Merged(it, ov)
      /\ Analyze(it, ov).conflicts = Conflicts(it, ov)
  <2>1. it # ov
    BY DEF Conflicts, Differing
  <2> QED
    BY <2>1 DEF Analyze
<1>5. Primary(Analyze(it, ov), ov, decisions) = WithValues(Merged(it, ov), chosen, ov)
  BY <1>0 DEF Primary
<1> HIDE DEF chosen
<1>6. /\ WithValues(Merged(it, ov), chosen, ov).fieldRevisions = Merged(it, ov).fieldRevisions
      /\ WithValues(Merged(it, ov), chosen, ov).revision = Merged(it, ov).revision
      /\ WithValues(Merged(it, ov), chosen, ov).value[f] =
           IF f \in chosen THEN ov.value[f] ELSE Merged(it, ov).value[f]
  BY <1>1, <1>3 DEF WithValues
<1> QED
  BY <1>2, <1>4, <1>5, <1>6 DEF FieldRevision

\* A decision about concurrent edits is not asked for again: against either of
\* the copies it was made between, the resolved field is later
\* (resolveSyncConflicts with the merged revisions of analyzeSyncRecords).
THEOREM ConcurrentDecisionIsKept ==
  ASSUME NEW it, IsSnapshot(it), NEW ov, IsSnapshot(ov),
         NEW decisions, NEW f \in Conflicts(it, ov),
         Relation(it, ov, f) = "concurrent"
  PROVE  /\ f \notin Conflicts(Primary(Analyze(it, ov), ov, decisions), ov)
         /\ f \notin Conflicts(it, Primary(Analyze(it, ov), ov, decisions))
<1> DEFINE p == Primary(Analyze(it, ov), ov, decisions)
<1>1. f \in Fields /\ it # ov
  BY DEF Conflicts, Differing
<1>3. FieldRevision(p, f) = MergeRevisions(FieldRevision(it, f), FieldRevision(ov, f))
  <2>1. FieldRevision(p, f) = FieldRevision(Merged(it, ov), f)
    BY PrimaryField
  <2> QED
    BY <1>1, <2>1, MergedTyped
<1> HIDE DEF p
<1>4. /\ FieldRevision(it, f) \in Vectors
      /\ FieldRevision(ov, f) \in Vectors
  BY <1>1, FieldRevisionTyped
<1>5. /\ ~NoLater(FieldRevision(it, f), FieldRevision(ov, f))
      /\ ~NoLater(FieldRevision(ov, f), FieldRevision(it, f))
  BY RelationMeans DEF Relation
<1>6. /\ NoLater(FieldRevision(it, f), FieldRevision(p, f))
      /\ NoLater(FieldRevision(ov, f), FieldRevision(p, f))
  BY <1>3, <1>4, MergeIsLeastUpperBound
<1>7. \A u, v, w \in Vectors : NoLater(u, v) /\ NoLater(v, w) => NoLater(u, w)
  BY DEF NoLater, Vectors
<1>8. FieldRevision(p, f) \in Vectors
  BY <1>3, <1>4, MergeIsLeastUpperBound
<1>9. /\ ~NoLater(FieldRevision(p, f), FieldRevision(ov, f))
      /\ ~NoLater(FieldRevision(p, f), FieldRevision(it, f))
  BY <1>4, <1>5, <1>6, <1>7, <1>8
<1>10. /\ Relation(p, ov, f) = "after"
       /\ Relation(it, p, f) = "before"
  BY <1>6, <1>9, RelationMeans DEF Relation
<1> QED
  BY <1>10 DEF Conflicts, p

\* A difference under equal revisions is different: whatever is decided, the
\* resolved field conflicts with the copy whose value was not kept, so it is
\* asked for again.  Every export of Image Trail starts from the same revision
\* (record-export.ts:124), so two exports can differ like this.
THEOREM EqualRevisionsAskAgain ==
  ASSUME NEW it, IsSnapshot(it), NEW ov, IsSnapshot(ov),
         NEW decisions, NEW f \in Conflicts(it, ov),
         Relation(it, ov, f) = "equal"
  PROVE  IF decisions[f] = "keep-overlook"
         THEN f \in Conflicts(it, Primary(Analyze(it, ov), ov, decisions))
         ELSE f \in Conflicts(Primary(Analyze(it, ov), ov, decisions), ov)
<1> DEFINE p == Primary(Analyze(it, ov), ov, decisions)
<1>1. f \in Fields /\ it # ov /\ it.value[f] # ov.value[f]
  BY DEF Conflicts, Differing
<1>3. /\ FieldRevision(p, f) = MergeRevisions(FieldRevision(it, f), FieldRevision(ov, f))
      /\ p.value[f] = IF decisions[f] = "keep-overlook" THEN ov.value[f] ELSE it.value[f]
  <2>1. /\ FieldRevision(p, f) = FieldRevision(Merged(it, ov), f)
        /\ p.value[f] = IF decisions[f] = "keep-overlook" THEN ov.value[f] ELSE it.value[f]
    BY PrimaryField
  <2> QED
    BY <1>1, <2>1, MergedTyped
<1> HIDE DEF p
<1>4. /\ FieldRevision(it, f) \in Vectors
      /\ FieldRevision(ov, f) \in Vectors
  BY <1>1, FieldRevisionTyped
<1>5. /\ NoLater(FieldRevision(it, f), FieldRevision(ov, f))
      /\ NoLater(FieldRevision(ov, f), FieldRevision(it, f))
  BY RelationMeans DEF Relation
<1>6. FieldRevision(p, f) = FieldRevision(it, f) /\ FieldRevision(p, f) = FieldRevision(ov, f)
  BY <1>3, <1>4, <1>5, MergedRevisionOfOrdered
<1>7. Relation(p, ov, f) = "equal" /\ Relation(it, p, f) = "equal"
  BY <1>5, <1>6, RelationMeans DEF Relation
<1> QED
  BY <1>1, <1>3, <1>7 DEF Conflicts, Differing, p


-----------------------------------------------------------------------------
(* Lemmas about the data                                                   *)

\* Sync's review keeps the type of the bookmark store.
LEMMA ReviewTyped ==
  ASSUME bookmark \in [Records -> BookmarkType], NEW selection
  PROVE  Review(selection) \in [Records -> BookmarkType]
<1>1. ASSUME NEW r \in Records
      PROVE  Sealed(bookmark[r]) \in BookmarkType
  BY DEF Sealed, BookmarkType, Originals, ReviewCategories
<1> QED
  BY <1>1 DEF Review

\* An analysis has one of the four categories.
LEMMA CategoryTyped ==
  ASSUME NEW m, NEW b
  PROVE  CategoryOf(m, b) \in Categories
BY DEF CategoryOf, Analyze, Categories

\* What every step needs to know of the calls: a call that goes on to a typed
\* state leaves them typed.
LEMMA GoTyped ==
  ASSUME call \in [Calls -> CallType], NEW c \in Calls, NEW state \in CallType, Go(c, state)
  PROVE  call' \in [Calls -> CallType]
BY DEF Go

-----------------------------------------------------------------------------
(* Types                                                                   *)

LEMMA InitTypeOK == Init => TypeOK
<1> SUFFICES ASSUME Init PROVE TypeOK
  OBVIOUS
<1> IdleCall \in CallType
  BY DEF IdleCall, CallType
<1> QED
  BY DEF Init, TypeOK, BookmarkType, Originals, ReviewCategories, Categories

LEMMA StartTyped ==
  ASSUME TypeOK, NEW c \in Calls, Start(c) PROVE TypeOK'
<1>1. Review(Records) \in [Records -> BookmarkType]
  BY ReviewTyped DEF TypeOK
<1>2. [pc |-> "queue", batch |-> Held, reviewed |-> Review(Records)] \in CallType
  BY <1>1 DEF CallType, Held
<1>3. call' \in [Calls -> CallType]
  BY <1>2, GoTyped DEF TypeOK, Start
<1> QED
  BY <1>1, <1>3 DEF TypeOK, Start, session

LEMMA QueueBatchTyped ==
  ASSUME TypeOK, NEW c \in Calls, QueueBatch(c) PROVE TypeOK'
<1>1. call[c] \in CallType /\ call[c].pc = "queue"
  BY DEF TypeOK, QueueBatch
<1>2. call[c].reviewed \in [Records -> BookmarkType]
  BY <1>1 DEF CallType
<1>3. category' \in [Records -> ReviewCategories]
  BY <1>2 DEF QueueBatch, BookmarkType
<1>4. [pc |-> "pending", resumed |-> FALSE] \in CallType
  BY DEF CallType
<1>5. call' \in [Calls -> CallType]
  BY <1>4, GoTyped DEF TypeOK, QueueBatch
<1> QED
  BY <1>3, <1>5 DEF TypeOK, QueueBatch

LEMMA PublishTyped ==
  ASSUME TypeOK, NEW c \in Calls,
         ReadPending(c) \/ Check(c) \/ Upload(c) \/ MarkDelivered(c) \/ Published(c)
  PROVE  TypeOK'
<1>1. CASE ReadPending(c)
  <2>1. call[c] \in CallType /\ call[c].pc = "pending"
    BY <1>1 DEF TypeOK, ReadPending
  <2>2. [pc |-> "check", resumed |-> call[c].resumed, todo |-> Pending] \in CallType
    BY <2>1 DEF CallType, Pending
  <2>3. call' \in [Calls -> CallType]
    BY <1>1, <2>2, GoTyped DEF TypeOK, ReadPending
  <2> QED
    BY <1>1, <2>3 DEF TypeOK, ReadPending, session
<1>2. CASE Check(c)
  <2>1. call[c] \in CallType /\ call[c].pc = "check"
    BY <1>2 DEF TypeOK, Check
  <2>2. call[c].resumed \in BOOLEAN /\ call[c].todo \in SUBSET Records
    BY <2>1 DEF CallType
  <2>3. PICK r \in call[c].todo :
          Go(c, [pc |-> "upload", resumed |-> call[c].resumed,
                 todo |-> call[c].todo \ {r}, r |-> r])
    BY <1>2 DEF Check
  <2>4. [pc |-> "upload", resumed |-> call[c].resumed,
         todo |-> call[c].todo \ {r}, r |-> r] \in CallType
    BY <2>2 DEF CallType
  <2>5. call' \in [Calls -> CallType]
    BY <2>3, <2>4, GoTyped DEF TypeOK
  <2> QED
    BY <1>2, <2>5 DEF TypeOK, Check, session
<1>3. CASE Upload(c)
  <2>1. call[c] \in CallType /\ call[c].pc = "upload"
    BY <1>3 DEF TypeOK, Upload
  <2>2. [call[c] EXCEPT !.pc = "mark"] \in CallType /\ call[c].r \in Records
    BY <2>1 DEF CallType
  <2>3. call' \in [Calls -> CallType]
    BY <1>3, <2>2, GoTyped DEF TypeOK, Upload
  <2>4. late' \in [Calls -> Nat]
    BY <1>3 DEF TypeOK, Upload
  <2> QED
    BY <1>3, <2>2, <2>3, <2>4 DEF TypeOK, Upload, session
<1>4. CASE MarkDelivered(c)
  <2>1. call[c] \in CallType /\ call[c].pc = "mark"
    BY <1>4 DEF TypeOK, MarkDelivered
  <2>2. [pc |-> "check", resumed |-> call[c].resumed, todo |-> call[c].todo] \in CallType
    BY <2>1 DEF CallType
  <2>3. call' \in [Calls -> CallType]
    BY <1>4, <2>2, GoTyped DEF TypeOK, MarkDelivered
  <2>4. row' \in [Records -> {"none", "queued", "delivered"}]
    BY <1>4 DEF TypeOK, MarkDelivered
  <2> QED
    BY <1>4, <2>3, <2>4 DEF TypeOK, MarkDelivered
<1>5. CASE Published(c)
  <2>1. (IF call[c].resumed THEN [pc |-> "scan"] ELSE IdleCall) \in CallType
    BY DEF CallType, IdleCall
  <2>2. call' \in [Calls -> CallType]
    BY <1>5, <2>1, GoTyped DEF TypeOK, Published
  <2> QED
    BY <1>5, <2>2 DEF TypeOK, Published, session
<1> QED
  BY <1>1, <1>2, <1>3, <1>4, <1>5

LEMMA ControlTyped ==
  ASSUME TypeOK,
         \/ \E c \in Calls : Resume(c) \/ Status(c)
         \/ Pause \/ Cancel
  PROVE  TypeOK'
<1>1. ASSUME NEW c \in Calls, Resume(c) PROVE TypeOK'
  <2>1. [pc |-> "pending", resumed |-> TRUE] \in CallType
    BY DEF CallType
  <2>2. call' \in [Calls -> CallType]
    BY <1>1, <2>1, GoTyped DEF TypeOK, Resume
  <2> QED
    BY <1>1, <2>2 DEF TypeOK, Resume
<1>2. ASSUME NEW c \in Calls, Status(c) PROVE TypeOK'
  <2>1. [pc |-> "scan"] \in CallType
    BY DEF CallType
  <2>2. call' \in [Calls -> CallType]
    BY <1>2, <2>1, GoTyped DEF TypeOK, Status
  <2> QED
    BY <1>2, <2>2 DEF TypeOK, Status, session
<1>3. CASE Pause
  BY <1>3 DEF TypeOK, Pause
<1>4. CASE Cancel
  BY <1>4 DEF TypeOK, Cancel
<1> QED
  BY <1>1, <1>2, <1>3, <1>4

LEMMA ScanTyped ==
  ASSUME TypeOK, NEW c \in Calls,
         ScanReview(c) \/ ListPaths(c) \/ Receive(c) \/ Refuse(c) \/ Scanned(c)
  PROVE  TypeOK'
<1>1. CASE ScanReview(c)
  <2>1. Review(Items) \in [Records -> BookmarkType]
    BY ReviewTyped DEF TypeOK
  <2>2. [pc |-> "list", local |-> Items \cap Held, reviewed |-> Review(Items)] \in CallType
    BY <2>1 DEF CallType, Items
  <2>3. call' \in [Calls -> CallType]
    BY <1>1, <2>2, GoTyped DEF TypeOK, ScanReview
  <2> QED
    BY <1>1, <2>1, <2>3 DEF TypeOK, ScanReview, session
<1>2. CASE ListPaths(c)
  <2>1. call[c] \in CallType /\ call[c].pc = "list"
    BY <1>2 DEF TypeOK, ListPaths
  <2>2. [pc |-> "read", local |-> call[c].local, reviewed |-> call[c].reviewed,
         todo |-> published] \in CallType
    BY <2>1 DEF CallType, TypeOK
  <2>3. call' \in [Calls -> CallType]
    BY <1>2, <2>2, GoTyped DEF TypeOK, ListPaths
  <2> QED
    BY <1>2, <2>3 DEF TypeOK, ListPaths, session
<1>3. CASE Receive(c)
  <2>1. call[c] \in CallType /\ call[c].pc = "read"
    BY <1>3 DEF TypeOK, Receive
  <2>2. PICK m \in call[c].todo :
          /\ inbox' = [n \in DOMAIN inbox \cup {m} |->
                        IF n = m THEN CategoryOf(m, call[c].reviewed[m.r]) ELSE inbox[n]]
          /\ Go(c, [call[c] EXCEPT !.todo = @ \ {m}])
    BY <1>3 DEF Receive
  <2>3. m \in Messages /\ [call[c] EXCEPT !.todo = @ \ {m}] \in CallType
    BY <2>1 DEF CallType
  <2>4. call' \in [Calls -> CallType]
    BY <2>2, <2>3, GoTyped DEF TypeOK
  <2>5. CategoryOf(m, call[c].reviewed[m.r]) \in Categories
    BY CategoryTyped
  <2>6. inbox' \in [DOMAIN inbox \cup {m} -> Categories]
    BY <2>2, <2>5 DEF TypeOK
  <2>7. DOMAIN inbox' \subseteq Messages /\ inbox' \in [DOMAIN inbox' -> Categories]
    BY <2>3, <2>6 DEF TypeOK
  <2> QED
    BY <1>3, <2>4, <2>7 DEF TypeOK, Receive, session
<1>4. CASE Refuse(c) \/ Scanned(c)
  <2>1. IdleCall \in CallType
    BY DEF CallType, IdleCall
  <2>2. call' \in [Calls -> CallType]
    BY <1>4, <2>1, GoTyped DEF TypeOK, Refuse, Scanned
  <2> QED
    BY <1>4, <2>2 DEF TypeOK, Refuse, Scanned, session
<1> QED
  BY <1>1, <1>2, <1>3, <1>4

LEMMA EnvironmentTyped ==
  ASSUME TypeOK,
         \/ \E c \in Calls : RequestFails(c)
         \/ WorkerStops
         \/ \E r \in Records : Capture(r) \/ Delete(r) \/ MoveReview(r)
         \/ \E m \in Messages : OverlookPublishes(m)
  PROVE  TypeOK'
<1>0. IdleCall \in CallType
  BY DEF CallType, IdleCall
<1>1. ASSUME NEW c \in Calls, RequestFails(c) PROVE TypeOK'
  <2>1. call' \in [Calls -> CallType]
    BY <1>0, <1>1, GoTyped DEF TypeOK, RequestFails
  <2> QED
    BY <1>1, <2>1 DEF TypeOK, RequestFails, session
<1>2. CASE WorkerStops
  BY <1>0, <1>2 DEF TypeOK, WorkerStops, session
<1>3. ASSUME NEW r \in Records, NEW b \in BookmarkType, Change(r, b) PROVE TypeOK'
  BY <1>3 DEF TypeOK, Change, session
<1>4. ASSUME NEW r \in Records, Capture(r) \/ Delete(r) \/ MoveReview(r) PROVE TypeOK'
  <2>1. bookmark[r] \in BookmarkType
    BY DEF TypeOK
  <2>2. /\ [bookmark[r] EXCEPT !.captured = TRUE] \in BookmarkType
        /\ [bookmark[r] EXCEPT !.held = FALSE] \in BookmarkType
        /\ [bookmark[r] EXCEPT !.custody = "available", !.category = "eligible"] \in BookmarkType
    BY <2>1 DEF BookmarkType, Originals, ReviewCategories
  <2> QED
    BY <1>3, <1>4, <2>2 DEF Capture, Delete, MoveReview
<1>5. ASSUME NEW m \in Messages, OverlookPublishes(m) PROVE TypeOK'
  BY <1>5 DEF TypeOK, OverlookPublishes, session
<1> QED
  BY <1>1, <1>2, <1>4, <1>5

\* Every variable keeps its type.
THEOREM SyncTypeCorrect == Spec => []TypeOK
<1>1. Init => TypeOK
  BY InitTypeOK
<1>2. TypeOK /\ [Next]_vars => TypeOK'
  <2> SUFFICES ASSUME TypeOK, [Next]_vars PROVE TypeOK'
    OBVIOUS
  <2>1. CASE UNCHANGED vars
    BY <2>1 DEF TypeOK, vars
  <2>2. ASSUME NEW c \in Calls, Step(c) \/ Start(c) PROVE TypeOK'
    BY <2>2, StartTyped, QueueBatchTyped, PublishTyped, ScanTyped DEF Step
  <2> QED
    BY <2>1, <2>2, ControlTyped, EnvironmentTyped DEF Next
<1> QED
  BY <1>1, <1>2, PTL DEF Spec

-----------------------------------------------------------------------------
(* The inductive invariant                                                 *)

\* Before the session is queued nothing but its start is in flight; a call that
\* is about to mark a row has uploaded it; a call that uploaded after a cancel
\* has no further upload before it.
CallFollows(c) ==
  /\ call[c].pc = "queue" => phase = "none" /\ call[c].batch # {}
  /\ phase = "none" => call[c].pc \in {"idle", "queue"}
  /\ call[c].pc = "mark" => call[c].r \in provider
  /\ late[c] <= 1
  /\ late[c] # 0 => phase = "cancelled" /\ call[c].pc # "upload"

OneStart ==
  \A c, d \in Calls : call[c].pc = "queue" /\ call[d].pc = "queue" => c = d

CallsFollow == \A c \in Calls : CallFollows(c)

SyncInvariant ==
  /\ TypeOK
  /\ OneStart
  /\ CallsFollow
  /\ PhaseMatchesRows
  /\ DeliveredIsPublished
  /\ SequencesAreDistinct

LEMMA InitInvariant == Init => SyncInvariant
<1> SUFFICES ASSUME Init PROVE SyncInvariant
  OBVIOUS
<1>1. TypeOK
  BY InitTypeOK
<1>2. OneStart /\ CallsFollow
  BY DEF Init, OneStart, CallsFollow, CallFollows, IdleCall
<1>3. PhaseMatchesRows /\ DeliveredIsPublished /\ SequencesAreDistinct
  BY DEF Init, PhaseMatchesRows, DeliveredIsPublished, SequencesAreDistinct
<1> QED
  BY <1>1, <1>2, <1>3 DEF SyncInvariant

\* A step that leaves the session, the uploads and the receipts alone and takes
\* the call c to a state that is neither a start's, an upload nor a mark.
LEMMA QuietStep ==
  ASSUME SyncInvariant, NEW c \in Calls, NEW state, Go(c, state),
         state.pc \notin {"queue", "upload", "mark"},
         phase = "none" => state.pc = "idle",
         UNCHANGED <<session, provider, inbox, late>>
  PROVE  /\ OneStart' /\ CallsFollow'
         /\ PhaseMatchesRows' /\ DeliveredIsPublished' /\ SequencesAreDistinct'
<1> USE DEF SyncInvariant, session
<1>1. call'[c] = state /\ \A d \in Calls \ {c} : call'[d] = call[d]
  BY DEF Go, TypeOK
<1>2. OneStart'
  BY <1>1 DEF OneStart
<1>3. CallsFollow'
  BY <1>1 DEF CallsFollow, CallFollows
<1>4. PhaseMatchesRows' /\ DeliveredIsPublished' /\ SequencesAreDistinct'
  BY DEF PhaseMatchesRows, DeliveredIsPublished, SequencesAreDistinct, Pending
<1> QED
  BY <1>2, <1>3, <1>4

LEMMA StartKeeps ==
  ASSUME SyncInvariant, NEW c \in Calls, Start(c)
  PROVE  SyncInvariant'
<1> USE DEF SyncInvariant, session
<1> DEFINE state == [pc |-> "queue", batch |-> Held, reviewed |-> Review(Records)]
<1>1. call'[c] = state /\ \A d \in Calls \ {c} : call'[d] = call[d]
  BY DEF Start, Go, TypeOK
<1>2. OneStart'
  BY <1>1 DEF Start, OneStart
<1>3. CallsFollow'
  <2>1. CallFollows(c)'
    BY <1>1 DEF Start, CallsFollow, CallFollows
  <2>2. ASSUME NEW d \in Calls \ {c} PROVE CallFollows(d)'
    BY <1>1, <2>2 DEF Start, CallsFollow, CallFollows
  <2> QED
    BY <2>1, <2>2 DEF CallsFollow
<1>4. PhaseMatchesRows' /\ DeliveredIsPublished' /\ SequencesAreDistinct'
  BY DEF Start, PhaseMatchesRows, DeliveredIsPublished, SequencesAreDistinct, Pending
<1> QED
  BY <1>2, <1>3, <1>4, StartTyped

\* The one transaction that makes the session: no other call is in flight yet.
LEMMA QueueBatchKeeps ==
  ASSUME SyncInvariant, NEW c \in Calls, QueueBatch(c)
  PROVE  SyncInvariant'
<1> USE DEF SyncInvariant
<1>1. /\ call'[c] = [pc |-> "pending", resumed |-> FALSE]
      /\ \A d \in Calls \ {c} : call'[d] = call[d]
  BY DEF QueueBatch, Go, TypeOK
<1>2. phase = "none" /\ call[c].batch # {} /\ \A d \in Calls : late[d] = 0
  BY DEF QueueBatch, CallsFollow, CallFollows
<1>3. \A d \in Calls \ {c} : call[d].pc = "idle"
  BY <1>2 DEF QueueBatch, CallsFollow, CallFollows, OneStart
<1>4. OneStart'
  BY <1>1, <1>3 DEF OneStart
<1>5. CallsFollow'
  BY <1>1, <1>2, <1>3 DEF QueueBatch, CallsFollow, CallFollows
<1>6. call[c].batch \subseteq Records
  <2>1. call[c] \in CallType /\ call[c].pc = "queue"
    BY DEF TypeOK, QueueBatch
  <2> QED
    BY <2>1 DEF CallType
<1>7. PhaseMatchesRows' /\ DeliveredIsPublished' /\ SequencesAreDistinct'
  BY <1>2, <1>6 DEF QueueBatch, PhaseMatchesRows, DeliveredIsPublished,
                    SequencesAreDistinct, Pending
<1> QED
  BY <1>4, <1>5, <1>7, QueueBatchTyped

LEMMA CheckKeeps ==
  ASSUME SyncInvariant, NEW c \in Calls, Check(c)
  PROVE  SyncInvariant'
<1> USE DEF SyncInvariant, session
<1>1. PICK r \in call[c].todo :
        Go(c, [pc |-> "upload", resumed |-> call[c].resumed,
               todo |-> call[c].todo \ {r}, r |-> r])
  BY DEF Check
<1>2. call'[c].pc = "upload" /\ \A d \in Calls \ {c} : call'[d] = call[d]
  BY <1>1 DEF Go, TypeOK
<1>3. OneStart'
  BY <1>2 DEF OneStart
<1>4. CallsFollow'
  <2>1. CallFollows(c)'
    BY <1>2 DEF Check, CallsFollow, CallFollows
  <2>2. ASSUME NEW d \in Calls \ {c} PROVE CallFollows(d)'
    BY <1>2, <2>2 DEF Check, CallsFollow, CallFollows
  <2> QED
    BY <2>1, <2>2 DEF CallsFollow
<1>5. PhaseMatchesRows' /\ DeliveredIsPublished' /\ SequencesAreDistinct'
  BY DEF Check, PhaseMatchesRows, DeliveredIsPublished, SequencesAreDistinct, Pending
<1> QED
  BY <1>3, <1>4, <1>5, PublishTyped

LEMMA UploadKeeps ==
  ASSUME SyncInvariant, NEW c \in Calls, Upload(c)
  PROVE  SyncInvariant'
<1> USE DEF SyncInvariant, session
<1>1. call[c] \in CallType /\ call[c].pc = "upload"
  BY DEF TypeOK, Upload
<1>2. call'[c].pc = "mark" /\ call'[c].r = call[c].r
  BY <1>1 DEF Upload, Go, TypeOK, CallType
<1>3. \A d \in Calls \ {c} : call'[d] = call[d] /\ late'[d] = late[d]
  BY DEF Upload, Go, TypeOK
<1>4. late[c] = 0 /\ late'[c] = IF phase = "cancelled" THEN 1 ELSE 0
  BY <1>1 DEF Upload, CallsFollow, CallFollows, TypeOK
<1>5. OneStart'
  BY <1>2, <1>3 DEF OneStart
<1>6. CallsFollow'
  <2>1. CallFollows(c)'
    BY <1>1, <1>2, <1>4 DEF Upload, CallsFollow, CallFollows
  <2>2. ASSUME NEW d \in Calls \ {c} PROVE CallFollows(d)'
    BY <1>3, <2>2 DEF Upload, CallsFollow, CallFollows
  <2> QED
    BY <2>1, <2>2 DEF CallsFollow
<1>7. PhaseMatchesRows' /\ DeliveredIsPublished' /\ SequencesAreDistinct'
  BY DEF Upload, PhaseMatchesRows, DeliveredIsPublished, SequencesAreDistinct, Pending
<1> QED
  BY <1>5, <1>6, <1>7, PublishTyped

\* The row of a mark leaves the pending ones, and the phase follows the others.
LEMMA MarkDeliveredKeeps ==
  ASSUME SyncInvariant, NEW c \in Calls, MarkDelivered(c)
  PROVE  SyncInvariant'
<1> USE DEF SyncInvariant
<1>1. call[c] \in CallType /\ call[c].pc = "mark"
  BY DEF TypeOK, MarkDelivered
<1>2. call[c].r \in Records /\ call[c].r \in provider /\ phase # "none"
  BY <1>1 DEF CallType, CallsFollow, CallFollows
<1>3. call'[c].pc = "check" /\ \A d \in Calls \ {c} : call'[d] = call[d]
  BY DEF MarkDelivered, Go, TypeOK
<1>4. phase' = phase \/ (phase = "transferring" /\ phase' = "reviewing")
  BY DEF MarkDelivered
<1>5. OneStart'
  BY <1>3 DEF OneStart
<1>6. CallsFollow'
  <2>1. CallFollows(c)'
    BY <1>1, <1>2, <1>3, <1>4 DEF MarkDelivered, CallsFollow, CallFollows
  <2>2. ASSUME NEW d \in Calls \ {c} PROVE CallFollows(d)'
    BY <1>2, <1>3, <1>4, <2>2 DEF MarkDelivered, CallsFollow, CallFollows
  <2> QED
    BY <2>1, <2>2 DEF CallsFollow
<1>7. Pending' = Pending \ {call[c].r}
  BY <1>2 DEF MarkDelivered, Pending, TypeOK
<1>8. PhaseMatchesRows'
  BY <1>7 DEF MarkDelivered, PhaseMatchesRows
<1>9. DeliveredIsPublished' /\ SequencesAreDistinct'
  BY <1>2 DEF MarkDelivered, DeliveredIsPublished, SequencesAreDistinct, TypeOK
<1> QED
  BY <1>5, <1>6, <1>8, <1>9, PublishTyped

LEMMA ReceiveKeeps ==
  ASSUME SyncInvariant, NEW c \in Calls, Receive(c)
  PROVE  SyncInvariant'
<1> USE DEF SyncInvariant, session
<1>1. call[c] \in CallType /\ call[c].pc = "read"
  BY DEF TypeOK, Receive
<1>2. PICK m \in call[c].todo :
        /\ ~SequenceReused(m)
        /\ DOMAIN inbox' = DOMAIN inbox \cup {m}
        /\ Go(c, [call[c] EXCEPT !.todo = @ \ {m}])
  BY DEF Receive
<1>3. call'[c].pc = "read" /\ \A d \in Calls \ {c} : call'[d] = call[d]
  BY <1>1, <1>2 DEF Go, TypeOK, CallType
<1>4. OneStart'
  BY <1>3 DEF OneStart
<1>5. CallsFollow'
  BY <1>1, <1>3 DEF Receive, CallsFollow, CallFollows
<1>6. PhaseMatchesRows' /\ DeliveredIsPublished'
  BY DEF Receive, PhaseMatchesRows, DeliveredIsPublished, Pending
<1>7. m \in Messages /\ DOMAIN inbox \subseteq Messages
  BY <1>1 DEF CallType, TypeOK
<1>8. \A n \in DOMAIN inbox : n.seq = m.seq => n = m
  BY <1>2, <1>7, SyncMessagesAssumption DEF SequenceReused
<1>9. SequencesAreDistinct'
  BY <1>2, <1>8 DEF SequencesAreDistinct
<1> QED
  BY <1>4, <1>5, <1>6, <1>9, ScanTyped

\* The steps of a call that only read, and those that end it.
LEMMA QuietStepsKeep ==
  ASSUME SyncInvariant, NEW c \in Calls,
         \/ ReadPending(c) \/ Published(c) \/ Status(c) \/ ScanReview(c)
         \/ ListPaths(c) \/ Refuse(c) \/ Scanned(c) \/ RequestFails(c)
  PROVE  SyncInvariant'
<1> USE DEF session
<1>1. TypeOK'
  BY PublishTyped, ControlTyped, ScanTyped, EnvironmentTyped DEF SyncInvariant
<1>2. phase = "none" => call[c].pc \in {"idle", "queue"}
  BY DEF SyncInvariant, CallsFollow, CallFollows
<1>3. CASE ReadPending(c)
  BY <1>1, <1>2, <1>3, QuietStep,
     [pc |-> "check", resumed |-> call[c].resumed, todo |-> Pending].pc = "check"
     DEF ReadPending, SyncInvariant
<1>4. CASE Published(c)
  <2>1. (IF call[c].resumed THEN [pc |-> "scan"] ELSE IdleCall).pc \in {"scan", "idle"}
    BY DEF IdleCall
  <2> QED
    BY <1>1, <1>2, <1>4, <2>1, QuietStep DEF Published, SyncInvariant
<1>5. CASE Status(c)
  BY <1>1, <1>5, QuietStep, [pc |-> "scan"].pc = "scan" DEF Status, SyncInvariant
<1>6. CASE ScanReview(c)
  <2> DEFINE state == [pc |-> "list", local |-> Items \cap Held, reviewed |-> Review(Items)]
  <2>1. state.pc = "list"
    OBVIOUS
  <2> QED
    BY <1>1, <1>2, <1>6, <2>1, QuietStep DEF ScanReview, SyncInvariant
<1>7. CASE ListPaths(c)
  <2> DEFINE state == [pc |-> "read", local |-> call[c].local, reviewed |-> call[c].reviewed,
                       todo |-> published]
  <2>1. state.pc = "read"
    OBVIOUS
  <2> QED
    BY <1>1, <1>2, <1>7, <2>1, QuietStep DEF ListPaths, SyncInvariant
<1>8. CASE Refuse(c) \/ Scanned(c) \/ RequestFails(c)
  <2>1. IdleCall.pc = "idle"
    BY DEF IdleCall
  <2>2. Go(c, IdleCall) /\ UNCHANGED <<session, provider, inbox, late>>
    BY <1>8 DEF Refuse, Scanned, RequestFails
  <2> QED
    BY <1>1, <2>1, <2>2, QuietStep DEF SyncInvariant
<1> QED
  BY <1>3, <1>4, <1>5, <1>6, <1>7, <1>8

\* A control changes the phase alone, and a resume follows the rows.
LEMMA ControlKeeps ==
  ASSUME SyncInvariant,
         \/ \E c \in Calls : Resume(c)
         \/ Pause \/ Cancel
  PROVE  SyncInvariant'
<1> USE DEF SyncInvariant
<1>1. TypeOK'
  BY ControlTyped
<1>2. CASE Pause \/ Cancel
  BY <1>1, <1>2 DEF Pause, Cancel, OneStart, CallsFollow, CallFollows, PhaseMatchesRows,
                    DeliveredIsPublished, SequencesAreDistinct, Pending
<1>3. ASSUME NEW c \in Calls, Resume(c) PROVE SyncInvariant'
  <2>1. call'[c].pc = "pending" /\ \A d \in Calls \ {c} : call'[d] = call[d]
    BY <1>3 DEF Resume, Go, TypeOK
  <2>2. phase \notin {"none", "cancelled"} /\ phase' \in {"transferring", "reviewing"}
    BY <1>3 DEF Resume
  <2>3. OneStart' /\ CallsFollow'
    BY <1>3, <2>1, <2>2 DEF Resume, OneStart, CallsFollow, CallFollows
  <2>4. PhaseMatchesRows' /\ DeliveredIsPublished' /\ SequencesAreDistinct'
    BY <1>3 DEF Resume, PhaseMatchesRows, DeliveredIsPublished, SequencesAreDistinct, Pending
  <2> QED
    BY <1>1, <2>3, <2>4
<1> QED
  BY <1>2, <1>3

LEMMA EnvironmentKeeps ==
  ASSUME SyncInvariant,
         \/ WorkerStops
         \/ \E r \in Records : Capture(r) \/ Delete(r) \/ MoveReview(r)
         \/ \E m \in Messages : OverlookPublishes(m)
  PROVE  SyncInvariant'
<1> USE DEF SyncInvariant, session
<1>1. TypeOK'
  BY EnvironmentTyped
<1>2. CASE WorkerStops
  BY <1>1, <1>2 DEF WorkerStops, IdleCall, OneStart, CallsFollow, CallFollows, PhaseMatchesRows,
                    DeliveredIsPublished, SequencesAreDistinct, Pending
<1>3. ASSUME UNCHANGED <<session, provider, inbox, call, late>> PROVE SyncInvariant'
  BY <1>1, <1>3 DEF OneStart, CallsFollow, CallFollows, PhaseMatchesRows,
                    DeliveredIsPublished, SequencesAreDistinct, Pending
<1>4. ASSUME NEW r \in Records, Capture(r) \/ Delete(r) \/ MoveReview(r) PROVE SyncInvariant'
  BY <1>3, <1>4 DEF Capture, Delete, MoveReview, Change
<1>5. ASSUME NEW m \in Messages, OverlookPublishes(m) PROVE SyncInvariant'
  BY <1>3, <1>5 DEF OverlookPublishes
<1> QED
  BY <1>2, <1>4, <1>5

\* The invariant is inductive.
THEOREM SyncInvariance == Spec => []SyncInvariant
<1>1. Init => SyncInvariant
  BY InitInvariant
<1>2. SyncInvariant /\ [Next]_vars => SyncInvariant'
  <2> SUFFICES ASSUME SyncInvariant, [Next]_vars PROVE SyncInvariant'
    OBVIOUS
  <2>1. CASE UNCHANGED vars
    BY <2>1 DEF SyncInvariant, vars, TypeOK, OneStart, CallsFollow, CallFollows,
                PhaseMatchesRows, DeliveredIsPublished, SequencesAreDistinct, Pending
  <2>2. ASSUME NEW c \in Calls,
               Step(c) \/ Start(c) \/ Resume(c) \/ Status(c) \/ RequestFails(c)
        PROVE  SyncInvariant'
    BY <2>2, QueueBatchKeeps, CheckKeeps, UploadKeeps, MarkDeliveredKeeps, ReceiveKeeps,
       QuietStepsKeep, StartKeeps, ControlKeeps DEF Step
  <2> QED
    BY <2>1, <2>2, ControlKeeps, EnvironmentKeeps DEF Next
<1> QED
  BY <1>1, <1>2, PTL DEF Spec

\* The phase tells whether rows are pending (markDelivered and control).
THEOREM PhaseFollowsRows == Spec => []PhaseMatchesRows
<1>1. SyncInvariant => PhaseMatchesRows
  BY DEF SyncInvariant
<1> QED
  BY <1>1, SyncInvariance, PTL

\* A row marked delivered is at the provider.
THEOREM DeliveriesAreReal == Spec => []DeliveredIsPublished
<1>1. SyncInvariant => DeliveredIsPublished
  BY DEF SyncInvariant
<1> QED
  BY <1>1, SyncInvariance, PTL

\* A cancelled session costs each publishing call at most one more upload.
THEOREM CancelIsPrompt == Spec => []CancelStopsUploads
<1>1. SyncInvariant => CancelStopsUploads
  BY DEF SyncInvariant, CallsFollow, CallFollows, CancelStopsUploads
<1> QED
  BY <1>1, SyncInvariance, PTL

\* The receipts of overlapping scans have distinct sequences.
THEOREM ReceiptsAreOrdered == Spec => []SequencesAreDistinct
<1>1. SyncInvariant => SequencesAreDistinct
  BY DEF SyncInvariant
<1> QED
  BY <1>1, SyncInvariance, PTL

\* No step in flight undoes a pause or a cancel.
THEOREM ControlsLast == Spec => ControlIsKept
<1> DEFINE Kept ==
      /\ phase = "cancelled" => phase' = "cancelled"
      /\ phase = "paused" /\ phase' \notin {"paused", "cancelled"} =>
           \E c \in Calls : call[c].pc = "idle" /\ call'[c].pc = "pending"
<1>1. SyncInvariant /\ [Next]_vars => [Kept]_vars
  <2> SUFFICES ASSUME SyncInvariant, Next PROVE Kept
    OBVIOUS
  <2>1. ASSUME UNCHANGED phase PROVE Kept
    BY <2>1
  <2>2. ASSUME NEW c \in Calls, QueueBatch(c) PROVE Kept
    BY <2>2 DEF QueueBatch, SyncInvariant, CallsFollow, CallFollows
  <2>3. ASSUME NEW c \in Calls, Resume(c) PROVE Kept
    BY <2>3 DEF Resume, Go, SyncInvariant, TypeOK
  <2>4. ASSUME NEW c \in Calls, MarkDelivered(c) PROVE Kept
    BY <2>4 DEF MarkDelivered
  <2>5. CASE Pause \/ Cancel
    BY <2>5 DEF Pause, Cancel
  <2>6. ASSUME NEW c \in Calls,
               \/ Start(c) \/ ReadPending(c) \/ Check(c) \/ Upload(c) \/ Published(c)
               \/ Status(c) \/ ScanReview(c) \/ ListPaths(c) \/ Receive(c) \/ Refuse(c)
               \/ Scanned(c) \/ RequestFails(c)
        PROVE  UNCHANGED phase
    BY <2>6 DEF Start, ReadPending, Check, Upload, Published, Status, ScanReview, ListPaths,
                Receive, Refuse, Scanned, RequestFails, session
  <2>7. ASSUME \/ WorkerStops
               \/ \E r \in Records : Capture(r) \/ Delete(r) \/ MoveReview(r)
               \/ \E m \in Messages : OverlookPublishes(m)
        PROVE  UNCHANGED phase
    BY <2>7 DEF WorkerStops, Capture, Delete, MoveReview, Change, OverlookPublishes, session
  <2> QED
    BY <2>1, <2>2, <2>3, <2>4, <2>5, <2>6, <2>7 DEF Next, Step
<1> QED
  BY <1>1, SyncInvariance, PTL DEF Spec, ControlIsKept

-----------------------------------------------------------------------------
(* The report                                                              *)

\* Receipts are of items, and so is what a scan has reviewed.
ReceiptsHaveItems ==
  /\ phase = "none" => Items = {}
  /\ \A m \in DOMAIN inbox : m.r \in Items
  /\ \A c \in Calls : call[c].pc \in {"list", "read"} => call[c].local \subseteq Items

\* A step that neither puts items nor receipts, nor begins a scan.
LEMMA ItemsStay ==
  ASSUME ReceiptsHaveItems, Items' = Items, phase' = "none" => phase = "none", inbox' = inbox,
         \A c \in Calls : \/ call'[c].pc \notin {"list", "read"}
                          \/ call[c].pc \in {"list", "read"} /\ call'[c].local = call[c].local
  PROVE  ReceiptsHaveItems'
  BY DEF ReceiptsHaveItems

LEMMA ItemsKeep ==
  ASSUME SyncInvariant, ReceiptsHaveItems, Next
  PROVE  ReceiptsHaveItems'
<1>1. TypeOK /\ CallsFollow
  BY DEF SyncInvariant
<1>2. \A c \in Calls : \A state : Go(c, state) => call'[c] = state /\ \A d \in Calls \ {c} : call'[d] = call[d]
  BY <1>1 DEF Go, TypeOK
<1>3. UNCHANGED row => Items' = Items
  BY DEF Items
<1>4. ASSUME NEW c \in Calls, QueueBatch(c) PROVE ReceiptsHaveItems'
  <2>1. phase = "none" /\ \A d \in Calls : call[d].pc \in {"idle", "queue"}
    BY <1>1, <1>4 DEF QueueBatch, CallsFollow, CallFollows
  <2>2. DOMAIN inbox = {} /\ inbox' = inbox /\ phase' = "transferring"
    BY <1>4, <2>1 DEF QueueBatch, ReceiptsHaveItems
  <2>3. \A d \in Calls : call'[d].pc \notin {"list", "read"}
    BY <1>2, <1>4, <2>1 DEF QueueBatch
  <2> QED
    BY <2>2, <2>3 DEF ReceiptsHaveItems
<1>5. ASSUME NEW c \in Calls, MarkDelivered(c) PROVE ReceiptsHaveItems'
  <2>1. call[c] \in CallType /\ call[c].pc = "mark"
    BY <1>1, <1>5 DEF MarkDelivered, TypeOK
  <2>2. call[c].r \in Records
    BY <2>1 DEF CallType
  <2>3. Items' = Items
    BY <1>1, <1>5, <2>2 DEF MarkDelivered, Items, TypeOK
  <2>4. inbox' = inbox /\ (phase' = "none" => phase = "none") /\ call'[c].pc = "check"
        /\ \A d \in Calls \ {c} : call'[d] = call[d]
    BY <1>2, <1>5 DEF MarkDelivered
  <2>5. \A d \in Calls : \/ call'[d].pc \notin {"list", "read"}
                         \/ call[d].pc \in {"list", "read"} /\ call'[d].local = call[d].local
    BY <2>4
  <2> QED
    BY <2>3, <2>4, <2>5, ItemsStay
<1>6. ASSUME NEW c \in Calls, ScanReview(c) PROVE ReceiptsHaveItems'
  <2>1. UNCHANGED <<phase, row, inbox>> /\ call'[c].local = Items \cap Held
        /\ \A d \in Calls \ {c} : call'[d] = call[d]
    BY <1>2, <1>6 DEF ScanReview, session
  <2> QED
    BY <1>3, <2>1 DEF ReceiptsHaveItems
<1>7. ASSUME NEW c \in Calls, Receive(c) PROVE ReceiptsHaveItems'
  <2>1. call[c] \in CallType /\ call[c].pc = "read" /\ UNCHANGED <<phase, row>>
    BY <1>1, <1>7 DEF Receive, TypeOK, session
  <2>2. PICK m \in call[c].todo :
          /\ m.r \in call[c].local /\ DOMAIN inbox' = DOMAIN inbox \cup {m}
          /\ Go(c, [call[c] EXCEPT !.todo = @ \ {m}])
    BY <1>7 DEF Receive
  <2>3. call'[c].local = call[c].local /\ \A d \in Calls \ {c} : call'[d] = call[d]
    BY <1>2, <2>1, <2>2 DEF CallType
  <2>4. m.r \in Items
    BY <2>1, <2>2 DEF ReceiptsHaveItems
  <2> QED
    BY <1>3, <2>1, <2>2, <2>3, <2>4 DEF ReceiptsHaveItems
<1>8. ASSUME NEW c \in Calls, ListPaths(c) PROVE ReceiptsHaveItems'
  <2>1. UNCHANGED <<phase, row, inbox>> /\ call[c].pc = "list" /\ call'[c].local = call[c].local
        /\ \A d \in Calls \ {c} : call'[d] = call[d]
    BY <1>2, <1>8 DEF ListPaths, session
  <2> QED
    BY <1>3, <2>1 DEF ReceiptsHaveItems
<1>9. ASSUME NEW c \in Calls,
             \/ Start(c) \/ ReadPending(c) \/ Check(c) \/ Upload(c) \/ Published(c)
             \/ Resume(c) \/ Status(c) \/ Refuse(c) \/ Scanned(c) \/ RequestFails(c)
      PROVE  ReceiptsHaveItems'
  <2>1. /\ UNCHANGED <<row, inbox>> /\ (phase' = "none" => phase = "none")
        /\ \E state : Go(c, state) /\ state.pc \notin {"list", "read"}
    <3>1. CASE Start(c) \/ ReadPending(c) \/ Status(c)
      BY <3>1 DEF Start, ReadPending, Status, session
    <3>2. CASE Resume(c)
      BY <3>2 DEF Resume
    <3>6. CASE Check(c)
      <4>1. PICK r \in call[c].todo :
              Go(c, [pc |-> "upload", resumed |-> call[c].resumed, todo |-> call[c].todo \ {r}, r |-> r])
        BY <3>6 DEF Check
      <4> QED
        BY <3>6, <4>1 DEF Check, session
    <3>4. CASE Refuse(c) \/ Scanned(c) \/ RequestFails(c)
      BY <3>4 DEF Refuse, Scanned, RequestFails, IdleCall, session
    <3>5. CASE Published(c)
      BY <3>5 DEF Published, IdleCall, session
    <3>3. CASE Upload(c)
      <4>1. call[c] \in CallType /\ call[c].pc = "upload"
        BY <1>1, <3>3 DEF Upload, TypeOK
      <4>2. [call[c] EXCEPT !.pc = "mark"].pc = "mark"
        BY <4>1 DEF CallType
      <4> QED
        BY <3>3, <4>2 DEF Upload, session
    <3> QED
      BY <1>9, <3>1, <3>2, <3>3, <3>4, <3>5, <3>6
  <2>2. call'[c].pc \notin {"list", "read"} /\ \A d \in Calls \ {c} : call'[d] = call[d]
    BY <1>2, <2>1
  <2> QED
    BY <1>3, <2>1, <2>2, ItemsStay
<1>10. CASE Pause \/ Cancel
  BY <1>3, <1>10, ItemsStay DEF Pause, Cancel
<1>11. CASE WorkerStops
  <2>1. UNCHANGED <<phase, row, inbox>> /\ \A c \in Calls : call'[c].pc = "idle"
    BY <1>11 DEF WorkerStops, IdleCall, session
  <2> QED
    BY <1>3, <2>1, ItemsStay
<1>12. CASE \/ \E r \in Records : Capture(r) \/ Delete(r) \/ MoveReview(r)
            \/ \E m \in Messages : OverlookPublishes(m)
  BY <1>3, <1>12, ItemsStay DEF Capture, Delete, MoveReview, Change, OverlookPublishes, session
<1> QED
  BY <1>4, <1>5, <1>6, <1>7, <1>8, <1>9, <1>10, <1>11, <1>12 DEF Next, Step

\* The members of S that g gives the class k.
Class(S, g, k) == {x \in S : g[x] = k}

LEMMA DisjointUnion ==
  ASSUME NEW A, NEW B, IsFiniteSet(A), IsFiniteSet(B), A \cap B = {}
  PROVE  IsFiniteSet(A \cup B) /\ Cardinality(A \cup B) = Cardinality(A) + Cardinality(B)
<1>1. Cardinality(A) \in Nat /\ Cardinality(B) \in Nat
  BY FS_CardinalityType
<1>2. Cardinality(A \cap B) = 0
  BY FS_EmptySet
<1>3. IsFiniteSet(A \cup B) /\ Cardinality(A \cup B) = Cardinality(A) + Cardinality(B) - Cardinality(A \cap B)
  BY FS_Union
<1> QED
  BY <1>1, <1>2, <1>3

\* A finite set is as many as its members in each of four classes.
LEMMA FourClasses ==
  ASSUME NEW S, IsFiniteSet(S), NEW g,
         \A x \in S : g[x] \in {"eligible", "metadata-only", "duplicate", "conflict"}
  PROVE  /\ \A k : Cardinality(Class(S, g, k)) \in Nat
         /\ Cardinality(Class(S, g, "eligible")) + Cardinality(Class(S, g, "metadata-only"))
              + Cardinality(Class(S, g, "duplicate")) + Cardinality(Class(S, g, "conflict")) = Cardinality(S)
<1>1. ASSUME NEW k PROVE IsFiniteSet(Class(S, g, k)) /\ Cardinality(Class(S, g, k)) \in Nat
  <2>1. Class(S, g, k) \in SUBSET S
    BY DEF Class
  <2> QED
    BY <2>1, FS_Subset, FS_CardinalityType
<1> DEFINE A == Class(S, g, "eligible")
           B == Class(S, g, "metadata-only")
           C == Class(S, g, "duplicate")
           D == Class(S, g, "conflict")
<1>2. A \cap B = {} /\ C \cap D = {} /\ (A \cup B) \cap (C \cup D) = {} /\ (A \cup B) \cup (C \cup D) = S
  BY DEF Class
<1>3. /\ IsFiniteSet(A) /\ IsFiniteSet(B) /\ IsFiniteSet(C) /\ IsFiniteSet(D)
      /\ Cardinality(A) \in Nat /\ Cardinality(B) \in Nat /\ Cardinality(C) \in Nat /\ Cardinality(D) \in Nat
  BY <1>1
<1> HIDE DEF A, B, C, D
<1>4. IsFiniteSet(A \cup B) /\ Cardinality(A \cup B) = Cardinality(A) + Cardinality(B)
  BY <1>2, <1>3, DisjointUnion
<1>5. IsFiniteSet(C \cup D) /\ Cardinality(C \cup D) = Cardinality(C) + Cardinality(D)
  BY <1>2, <1>3, DisjointUnion
<1>6. Cardinality(S) = Cardinality(A \cup B) + Cardinality(C \cup D)
  BY <1>2, <1>4, <1>5, DisjointUnion
<1>7. Cardinality(A) + Cardinality(B) + Cardinality(C) + Cardinality(D) = Cardinality(S)
  BY <1>3, <1>4, <1>5, <1>6
<1> QED
  BY <1>1, <1>7 DEF A, B, C, D

LEMMA ReportFollows ==
  ASSUME SyncInvariant, ReceiptsHaveItems
  PROVE  ReportAddsUp
<1>1. /\ category \in [Records -> ReviewCategories] /\ DOMAIN inbox \subseteq Messages
      /\ \A m \in DOMAIN inbox : inbox[m] \in Categories /\ m.r \in Items
      /\ SequencesAreDistinct
  BY DEF SyncInvariant, TypeOK, ReceiptsHaveItems
<1>2. Items \subseteq Records /\ IsFiniteSet(Items)
  <2>1. Items \in SUBSET Records
    BY DEF Items
  <2> QED
    BY <2>1, SyncRecordsAssumption, FS_Subset
<1> DEFINE of == [m \in Latest |-> m.r]
<1>3. of \in [Latest -> Items] /\ \A m, n \in Latest : of[m] = of[n] => m = n
  <2>1. \A m \in Latest : m \in DOMAIN inbox /\ m.seq \in Nat
    BY <1>1, SyncMessagesAssumption DEF Latest
  <2>2. ASSUME NEW m \in Latest, NEW n \in Latest, m.r = n.r PROVE m = n
    <3>1. m.seq <= n.seq /\ n.seq <= m.seq
      BY <2>1, <2>2 DEF Latest
    <3>2. m.seq = n.seq
      BY <2>1, <3>1
    <3> QED
      BY <1>1, <2>1, <3>2 DEF SequencesAreDistinct
  <2> QED
    BY <1>1, <2>1, <2>2
<1>4. IsFiniteSet(Latest)
  <2>1. of \in Injection(Latest, Items)
    BY <1>3 DEF Injection, IsInjective
  <2> QED
    BY <1>2, <2>1, FS_Injection
<1> DEFINE was == [m \in Latest |-> category[m.r]]
           is == [m \in Latest |-> InboundKey(m)]
           Base(k) == Class(Items, category, k)
           Was(k) == Class(Latest, was, k)
           Is(k) == Class(Latest, is, k)
<1>5. /\ \A r \in Items : category[r] \in {"eligible", "metadata-only", "duplicate", "conflict"}
      /\ \A m \in Latest : was[m] \in {"eligible", "metadata-only", "duplicate", "conflict"}
      /\ \A m \in Latest : is[m] \in {"eligible", "metadata-only", "duplicate", "conflict"}
  <2>1. \A m \in Latest : m \in DOMAIN inbox
    BY DEF Latest
  <2> QED
    BY <1>1, <1>2, <2>1 DEF ReviewCategories, InboundKey, Categories
<1>6. \A k : Count(k) = Cardinality(Base(k)) - Cardinality(Was(k)) + Cardinality(Is(k))
  <2>1. \A k : /\ Was(k) = {m \in Latest : category[m.r] = k} /\ Is(k) = {m \in Latest : InboundKey(m) = k}
               /\ Base(k) = {r \in Items : category[r] = k}
    BY DEF Class
  <2> QED
    BY <2>1 DEF Count, BaseCount
<1> HIDE DEF was, is
<1>7. /\ \A k : Cardinality(Base(k)) \in Nat
      /\ Cardinality(Base("eligible")) + Cardinality(Base("metadata-only"))
           + Cardinality(Base("duplicate")) + Cardinality(Base("conflict")) = Cardinality(Items)
  BY <1>2, <1>5, FourClasses
<1>8. /\ \A k : Cardinality(Was(k)) \in Nat
      /\ Cardinality(Was("eligible")) + Cardinality(Was("metadata-only"))
           + Cardinality(Was("duplicate")) + Cardinality(Was("conflict")) = Cardinality(Latest)
  BY <1>4, <1>5, FourClasses
<1>9. /\ \A k : Cardinality(Is(k)) \in Nat
      /\ Cardinality(Is("eligible")) + Cardinality(Is("metadata-only"))
           + Cardinality(Is("duplicate")) + Cardinality(Is("conflict")) = Cardinality(Latest)
  BY <1>4, <1>5, FourClasses
\* The receipts of a category have an item of it each.
<1>10. ASSUME NEW k PROVE Cardinality(Was(k)) <= Cardinality(Base(k))
  <2> DEFINE f == [m \in Was(k) |-> m.r]
  <2>1. f \in [Was(k) -> Base(k)] /\ \A m, n \in Was(k) : f[m] = f[n] => m = n
    BY <1>3 DEF was, Class
  <2>2. f \in Injection(Was(k), Base(k))
    BY <2>1 DEF Injection, IsInjective
  <2>3. IsFiniteSet(Base(k))
    <3>1. Base(k) \in SUBSET Items
      BY DEF Class
    <3> HIDE DEF Base
    <3> QED
      BY <1>2, <3>1, FS_Subset
  <2> HIDE DEF f, Was, Base
  <2> QED
    BY <2>2, <2>3, FS_Injection
<1> HIDE DEF Base, Was, Is
<1>11. \A k : Count(k) \in Nat
  BY <1>6, <1>7, <1>8, <1>9, <1>10
<1>12. Cardinality(Items) \in Nat /\ Cardinality(Latest) \in Nat
  BY <1>2, <1>4, FS_CardinalityType
<1>13. Count("eligible") + Count("metadata-only") + Count("duplicate") + Count("conflict") = Cardinality(Items)
  <2> DEFINE e == "eligible"
             o == "metadata-only"
             u == "duplicate"
             x == "conflict"
  <2>1. PICK b \in [{e, o, u, x} -> Nat], w \in [{e, o, u, x} -> Nat], i \in [{e, o, u, x} -> Nat] :
          \A k \in {e, o, u, x} : /\ b[k] = Cardinality(Base(k)) /\ w[k] = Cardinality(Was(k))
                                  /\ i[k] = Cardinality(Is(k))
    <3>1. /\ [k \in {e, o, u, x} |-> Cardinality(Base(k))] \in [{e, o, u, x} -> Nat]
          /\ [k \in {e, o, u, x} |-> Cardinality(Was(k))] \in [{e, o, u, x} -> Nat]
          /\ [k \in {e, o, u, x} |-> Cardinality(Is(k))] \in [{e, o, u, x} -> Nat]
      BY <1>7, <1>8, <1>9
    <3> QED
      BY <3>1
  <2> QED
    BY <1>6, <1>7, <1>8, <1>9, <1>12, <2>1
<1> QED
  BY <1>11, <1>13 DEF ReportAddsUp

\* The inbound counts add up to the items (SecureSyncInboxRepository.review).
THEOREM ReportIsComplete == Spec => []ReportAddsUp
<1>1. Init => ReceiptsHaveItems
  BY DEF Init, ReceiptsHaveItems, Items, IdleCall
<1>2. SyncInvariant /\ ReceiptsHaveItems /\ [Next]_vars => ReceiptsHaveItems'
  <2> SUFFICES ASSUME SyncInvariant, ReceiptsHaveItems, [Next]_vars PROVE ReceiptsHaveItems'
    OBVIOUS
  <2>1. CASE UNCHANGED vars
    BY <2>1 DEF vars, ReceiptsHaveItems, Items
  <2> QED
    BY <2>1, ItemsKeep
<1>3. Spec => []ReceiptsHaveItems
  BY <1>1, <1>2, SyncInvariance, PTL DEF Spec
<1> QED
  BY <1>3, SyncInvariance, ReportFollows, PTL

-----------------------------------------------------------------------------
(* Calls end                                                               *)

LEMMA Stages ==
  ASSUME NEW s
  PROVE  /\ s.pc = "queue" => Stage(s) = 6
         /\ s.pc = "pending" => Stage(s) = 5
         /\ s.pc \in {"check", "upload", "mark"} => Stage(s) = 4
         /\ s.pc = "scan" => Stage(s) = 3
         /\ s.pc = "list" => Stage(s) = 2
         /\ s.pc = "read" => Stage(s) = 1
         /\ s.pc = "idle" => Stage(s) = 0
BY DEF Stage

LEMMA Turns ==
  ASSUME NEW s
  PROVE  /\ s.pc = "upload" => Turn(s) = 2
         /\ s.pc = "mark" => Turn(s) = 1
         /\ s.pc = "check" => Turn(s) = 0
BY DEF Turn

LEMMA CallShape ==
  ASSUME NEW s \in CallType
  PROVE  /\ s.pc \in {"idle", "queue", "pending", "check", "upload", "mark", "scan", "list", "read"}
         /\ s.pc = "upload" =>
              s \in [pc : {"upload", "mark"}, resumed : BOOLEAN, todo : SUBSET Records, r : Records]
         /\ s.pc = "read" =>
              s \in [pc : {"read"}, local : SUBSET Records, reviewed : [Records -> BookmarkType],
                     todo : SUBSET Messages]
BY DEF CallType

\* A call that is over is nearer than any in flight.
LEMMA EndIsNearer ==
  ASSUME NEW s \in CallType, s.pc # "idle", NEW next, next.pc = "idle"
  PROVE  Nearer(s, next)
<1>1. Stage(next) = 0 /\ Stage(s) \in 1..6
  BY CallShape, Stages
<1> QED BY <1>1 DEF Nearer

LEMMA GoneOn ==
  ASSUME TypeOK, NEW c \in Calls, NEW s, Go(c, s)
  PROVE  call'[c] = s /\ \A d \in Calls : d # c => call'[d] = call[d]
BY DEF TypeOK, Go

\* The loop of the publication, with what comes before it.
LEMMA PublicationComesNearer ==
  ASSUME TypeOK, NEW c \in Calls,
         QueueBatch(c) \/ ReadPending(c) \/ Check(c) \/ Upload(c) \/ MarkDelivered(c)
           \/ Published(c)
  PROVE  Nearer(call[c], call'[c])
<1>0. call[c] \in CallType
  BY DEF TypeOK
<1>1. CASE QueueBatch(c) \/ ReadPending(c)
  <2>1. \/ call[c].pc = "queue" /\ call'[c].pc = "pending"
        \/ call[c].pc = "pending" /\ call'[c].pc = "check"
    BY <1>1, GoneOn DEF QueueBatch, ReadPending
  <2>2. \/ Stage(call[c]) = 6 /\ Stage(call'[c]) = 5
        \/ Stage(call[c]) = 5 /\ Stage(call'[c]) = 4
    BY <2>1, Stages
  <2> QED BY <2>2 DEF Nearer
<1>2. CASE Check(c)
  <2>1. PICK r \in call[c].todo :
          Go(c, [pc |-> "upload", resumed |-> call[c].resumed, todo |-> call[c].todo \ {r},
                 r |-> r])
    BY <1>2 DEF Check
  <2>2. call[c].pc = "check" /\ call'[c].pc = "upload" /\ call'[c].todo = call[c].todo \ {r}
    BY <1>2, <2>1, GoneOn DEF Check
  <2>3. Stage(call[c]) = 4 /\ Stage(call'[c]) = 4
    BY <2>2, Stages
  <2> QED BY <2>1, <2>2, <2>3 DEF Nearer
<1>3. CASE Upload(c)
  <2>1. call[c].pc = "upload" /\ call'[c].pc = "mark" /\ call'[c].todo = call[c].todo
    BY <1>0, <1>3, GoneOn, CallShape DEF Upload
  <2>2. Stage(call[c]) = 4 /\ Stage(call'[c]) = 4 /\ Turn(call[c]) = 2 /\ Turn(call'[c]) = 1
    BY <2>1, Stages, Turns
  <2> QED BY <2>1, <2>2 DEF Nearer
<1>4. CASE MarkDelivered(c)
  <2>1. call[c].pc = "mark" /\ call'[c].pc = "check" /\ call'[c].todo = call[c].todo
    BY <1>4, GoneOn DEF MarkDelivered
  <2>2. Stage(call[c]) = 4 /\ Stage(call'[c]) = 4 /\ Turn(call[c]) = 1 /\ Turn(call'[c]) = 0
    BY <2>1, Stages, Turns
  <2> QED BY <2>1, <2>2 DEF Nearer
<1>5. CASE Published(c)
  <2>1. call[c].pc = "check" /\ call'[c].pc \in {"scan", "idle"}
    BY <1>5, GoneOn DEF Published, IdleCall
  <2>2. Stage(call[c]) = 4 /\ Stage(call'[c]) \in {3, 0}
    BY <2>1, Stages
  <2> QED BY <2>2 DEF Nearer
<1> QED BY <1>1, <1>2, <1>3, <1>4, <1>5

\* The scan and its loop.
LEMMA ScanComesNearer ==
  ASSUME TypeOK, NEW c \in Calls, ScanReview(c) \/ ListPaths(c) \/ Receive(c)
  PROVE  Nearer(call[c], call'[c])
<1>1. CASE ScanReview(c) \/ ListPaths(c)
  <2>1. \/ call[c].pc = "scan" /\ call'[c].pc = "list"
        \/ call[c].pc = "list" /\ call'[c].pc = "read"
    BY <1>1, GoneOn DEF ScanReview, ListPaths
  <2>2. \/ Stage(call[c]) = 3 /\ Stage(call'[c]) = 2
        \/ Stage(call[c]) = 2 /\ Stage(call'[c]) = 1
    BY <2>1, Stages
  <2> QED BY <2>2 DEF Nearer
<1>2. CASE Receive(c)
  <2>1. PICK m \in call[c].todo : Go(c, [call[c] EXCEPT !.todo = @ \ {m}])
    BY <1>2 DEF Receive
  <2>2. call[c].pc = "read" /\ call[c] \in CallType
    BY <1>2 DEF Receive, TypeOK
  <2>3. call'[c].pc = "read" /\ call'[c].todo = call[c].todo \ {m}
    BY <2>1, <2>2, GoneOn, CallShape
  <2>4. Stage(call[c]) = 1 /\ Stage(call'[c]) = 1
    BY <2>2, <2>3, Stages
  <2> QED BY <2>1, <2>3, <2>4 DEF Nearer
<1> QED BY <1>1, <1>2

\* The steps that end a call.
LEMMA LastStep ==
  ASSUME TypeOK, NEW c \in Calls, Refuse(c) \/ Scanned(c) \/ RequestFails(c)
  PROVE  Nearer(call[c], call'[c])
<1>1. call[c].pc # "idle" /\ call[c] \in CallType
  BY DEF TypeOK, Refuse, Scanned, RequestFails
<1>2. call'[c].pc = "idle"
  BY GoneOn DEF Refuse, Scanned, RequestFails, IdleCall
<1> QED BY <1>1, <1>2, EndIsNearer

LEMMA StepComesNearer ==
  ASSUME TypeOK, NEW c \in Calls, Step(c) \/ RequestFails(c)
  PROVE  Nearer(call[c], call'[c])
BY PublicationComesNearer, ScanComesNearer, LastStep DEF Step

\* Neither another call nor a control moves a call in flight.
LEMMA OnlyOwnSteps ==
  ASSUME TypeOK, [Next]_vars, NEW c \in Calls, call[c].pc # "idle", call'[c] # call[c]
  PROVE  Step(c) \/ RequestFails(c) \/ WorkerStops
<1>1. ASSUME NEW d \in Calls, Step(d) \/ RequestFails(d)
      PROVE  d = c
  <2>1. \E s : Go(d, s)
    BY <1>1 DEF Step, QueueBatch, ReadPending, Check, Upload, MarkDelivered, Published,
                ScanReview, ListPaths, Receive, Refuse, Scanned, RequestFails
  <2> QED BY <2>1, GoneOn
<1>2. ASSUME NEW d \in Calls, Start(d) \/ Resume(d) \/ Status(d)
      PROVE  FALSE
  <2>1. call[d].pc = "idle" /\ \E s : Go(d, s)
    BY <1>2 DEF Start, Resume, Status
  <2> QED BY <2>1, GoneOn
<1>3. ASSUME \/ Pause \/ Cancel \/ UNCHANGED vars
             \/ \E r \in Records : Capture(r) \/ Delete(r) \/ MoveReview(r)
             \/ \E m \in Messages : OverlookPublishes(m)
      PROVE  FALSE
  BY <1>3 DEF Pause, Cancel, Capture, Delete, MoveReview, Change, OverlookPublishes, vars
<1> QED BY <1>1, <1>2, <1>3 DEF Next

\* Calls come nearer to their end with every step, for any number of records,
\* messages and calls; under the fairness of FairSpec, that is why they end.
THEOREM CallsGoForward == Spec => CallsComeNearer
<1>1. ASSUME TypeOK, [Next]_vars, NEW c \in Calls,
             Step(c) \/ (call[c].pc # "idle" /\ call'[c] # call[c])
      PROVE  Nearer(call[c], call'[c])
  <2>1. CASE Step(c) \/ RequestFails(c)
    BY <1>1, <2>1, StepComesNearer
  <2>2. CASE WorkerStops /\ call[c].pc # "idle"
    <3>1. call'[c].pc = "idle" /\ call[c] \in CallType
      BY <1>1, <2>2 DEF WorkerStops, IdleCall, TypeOK
    <3> QED BY <2>2, <3>1, EndIsNearer
  <2> QED BY <1>1, <2>1, <2>2, OnlyOwnSteps
<1>2. TypeOK /\ [Next]_vars =>
        [\A c \in Calls :
           Step(c) \/ (call[c].pc # "idle" /\ call'[c] # call[c]) => Nearer(call[c], call'[c])]_vars
  BY <1>1
<1> QED BY <1>2, SyncTypeCorrect, PTL DEF Spec, CallsComeNearer
===============================================================================

--------------------------- MODULE SyncConvergence --------------------------
(***************************************************************************)
(* Two libraries that hold a copy of one record, edit it under the         *)
(* contract's revision rules, and exchange snapshots which the transport   *)
(* may delay, reorder, repeat or never deliver.                            *)
(*                                                                         *)
(* Receiving a snapshot stores an item: the two copies as they were then,  *)
(* analysed.  It is decided and its deletion reviewed in transactions of   *)
(* their own, and a later apply hands the outcome of the stored copies to  *)
(* an applier, without reading the library again: the library may have     *)
(* been edited any number of times in between.                             *)
(*                                                                         *)
(* The comparison and the merge are the program's (SyncResolution), the    *)
(* items are sync-protocol.ts'.  The editing, the exchange and the applier *)
(* are external: the contract's increment is the rule both products edit   *)
(* by, and the applier is an interface, of which ApplierChecks says        *)
(* whether it compares the library with the analysed copy, in the          *)
(* transaction that adopts the outcome.  While revisions only advance an   *)
(* edit writes a value of its own, which names the edit that wrote it.     *)
(***************************************************************************)
EXTENDS Integers, FiniteSets

CONSTANTS
  Fields,       \* the fields of the record; "deleted" is one of them
  MaxChanges,   \* bound: edits and snapshots of the two products together
  ApplierChecks \* the applier refuses an outcome of a copy the library left

ASSUME ConvergenceFields == "deleted" \in Fields
ASSUME ConvergenceBounds == MaxChanges \in Nat
ASSUME ApplierAssumption == ApplierChecks \in BOOLEAN

\* A value is the edit that wrote it: the editor and its component of the field
\* revision then.  The base value was there before any.
Base == <<"imageTrail", 0>>
Values == {"imageTrail", "overlook"} \X Nat

R == INSTANCE SyncResolution WITH Live <- Base

VARIABLES
  library,   \* each product's copy
  seen,      \* history: per product and field, the edits its value builds on
  snapshots, \* the snapshots taken: who took it, the record, its history
  itemOf,    \* the item each product has stored of the record
  applying,  \* the item that an apply of each product has read, then its mark
  decided,   \* history: the field revisions some reviewer has decided at
  dropped    \* history: the fields of which an apply dropped an edit unseen

scVars == <<library, seen, snapshots, itemOf, applying, decided, dropped>>

Products == R!Products

-----------------------------------------------------------------------------
(* The products                                                            *)

INITIAL_REVISION == [p \in Products |-> IF p = "imageTrail" THEN 1 ELSE 0]

\* An exported record carries a revision for every field but "deleted".
Exported ==
  [value |-> [f \in Fields |-> Base],
   revision |-> INITIAL_REVISION,
   fieldRevisions |-> [f \in Fields \ {"deleted"} |-> INITIAL_REVISION]]

Nothing == [state |-> "none"]

ScInit ==
  /\ library = [p \in Products |-> Exported]
  /\ seen = [p \in Products |-> [f \in Fields |-> {Base}]]
  /\ snapshots = {}
  /\ itemOf = [p \in Products |-> Nothing]
  /\ applying = [p \in Products |-> Nothing]
  /\ decided = {}
  /\ dropped = {}

NextEdit(p, f) == <<p, R!FieldRevision(library[p], f)[p] + 1>>

\* The field's revision and the record's both advance in the editor's component.
Edited(p, f) ==
  [value |-> [library[p].value EXCEPT ![f] = NextEdit(p, f)],
   revision |-> R!IncrementRevision(library[p].revision, p),
   fieldRevisions |->
     [g \in DOMAIN library[p].fieldRevisions \cup {f} |->
        IF g = f THEN R!IncrementRevision(R!FieldRevision(library[p], f), p)
        ELSE library[p].fieldRevisions[g]]]

EditsOf(p) == library[p].revision[p] - INITIAL_REVISION[p]
Changes == EditsOf("imageTrail") + EditsOf("overlook") + Cardinality(snapshots)

Edit(p, f) ==
  /\ Changes < MaxChanges
  /\ library' = [library EXCEPT ![p] = Edited(p, f)]
  /\ seen' = [seen EXCEPT ![p][f] = @ \cup {NextEdit(p, f)}]
  /\ UNCHANGED <<snapshots, itemOf, applying, decided, dropped>>

TakeSnapshot(p) ==
  /\ Changes < MaxChanges
  /\ snapshots' = snapshots \cup {[from |-> p, record |-> library[p], seen |-> seen[p]]}
  /\ UNCHANGED <<library, seen, itemOf, applying, decided, dropped>>

-----------------------------------------------------------------------------
(* receive: the item of the two copies replaces the one stored before.     *)

ImageTrailCopy(p, i) == IF p = "imageTrail" THEN i.local ELSE i.remote.record
OverlookCopy(p, i) == IF p = "imageTrail" THEN i.remote.record ELSE i.local

AnalysisOf(p, i) == R!Analyze(ImageTrailCopy(p, i), OverlookCopy(p, i))

Marked(i, state) == [i EXCEPT !.state = state]

Store(p, i) ==
  /\ itemOf' = [itemOf EXCEPT ![p] = i]
  /\ UNCHANGED <<library, seen, snapshots, applying, decided, dropped>>

\* The copies that a caller may have read of its library: the present one, or one
\* of before, of which its snapshots stand for all.
LocalCopies(p) == {library[p]} \cup {m.record : m \in {n \in snapshots : n.from = p}}

\* A message is stored once, but another may carry the same snapshot.
ReceiveSnapshot(p, m, local) ==
  LET pair == [local |-> local, remote |-> m]
  IN /\ m.from # p
     /\ Store(p, [local |-> local, remote |-> m, decisions |-> <<>>,
                  state |-> AnalysisOf(p, pair).category])

-----------------------------------------------------------------------------
(* decide and reviewDelete                                                 *)

HasTombstone(i) == R!Tombstone(i.local) \/ R!Tombstone(i.remote.record)

\* The decisions of an item are taken together; SyncJournal has them one by one.
DecideConflicts(p) ==
  /\ itemOf[p] # Nothing
  /\ AnalysisOf(p, itemOf[p]).conflicts # {}
  /\ \E decisions \in [AnalysisOf(p, itemOf[p]).conflicts -> R!Actions] :
       Store(p, Marked([itemOf[p] EXCEPT !.decisions = decisions],
                       IF HasTombstone(itemOf[p]) THEN "delete-review" ELSE "ready"))

ReviewDeletion(p, approve) ==
  /\ itemOf[p].state = "delete-review"
  /\ Store(p, Marked(itemOf[p], IF approve THEN "ready" ELSE "skipped"))

-----------------------------------------------------------------------------
(* apply: an item is read, its outcome handed to the applier, and the item *)
(* marked with what became of it.                                          *)

InApply(p, i) ==
  /\ applying' = [applying EXCEPT ![p] = i]
  /\ UNCHANGED snapshots

\* A ready item with a tombstone has its deletion approved; a duplicate has nothing
\* to hand over.
BeginApply(p) ==
  /\ applying[p] = Nothing
  /\ \/ /\ itemOf[p].state \in {"eligible", "ready"}
        /\ HasTombstone(itemOf[p]) => itemOf[p].state = "ready"
        /\ InApply(p, itemOf[p])
     \/ /\ itemOf[p].state = "duplicate"
        /\ InApply(p, [state |-> "applied"])
  /\ UNCHANGED <<library, seen, itemOf, decided, dropped>>

\* resolveSyncConflicts; without conflicts it is the merged record.
Outcome(p, i) == R!Primary(AnalysisOf(p, i), OverlookCopy(p, i), i.decisions)

Current(p, i) == library[p] = i.local

\* The conflicts that the reviewer has decided with the library's present value
\* in sight.
ReviewedFields(p, i) ==
  {f \in AnalysisOf(p, i).conflicts : library[p].value[f] = i.local.value[f]}

\* The fields, not so reviewed, of which the outcome drops a value that the value
\* it keeps does not build on.
Lost(p, i) ==
  {f \in Fields \ ReviewedFields(p, i) :
     \/ /\ Outcome(p, i).value[f] # library[p].value[f]
        /\ library[p].value[f] \notin i.remote.seen[f]
     \/ /\ Outcome(p, i).value[f] # i.remote.record.value[f]
        /\ i.remote.record.value[f] \notin seen[p][f]}

Handed(p) == applying[p].state \in {"eligible", "ready"}

\* The applier takes the outcome for the library's copy ...
Adopt(p, i) ==
  /\ library' = [library EXCEPT ![p] = Outcome(p, i)]
  /\ seen' = [seen EXCEPT ![p] = [f \in Fields |-> @[f] \cup i.remote.seen[f]]]
  /\ decided' = decided \cup
       {<<f, AnalysisOf(p, i).merged.fieldRevisions[f]>> : f \in AnalysisOf(p, i).conflicts}
  /\ dropped' = dropped \cup Lost(p, i)

ApplyOutcome(p) ==
  /\ Handed(p)
  /\ ApplierChecks => Current(p, applying[p])
  /\ Adopt(p, applying[p])
  /\ InApply(p, [state |-> "applied"])
  /\ UNCHANGED itemOf

\* ... or throws, as one that checks does when the library has moved on.
RefuseOutcome(p) ==
  /\ Handed(p)
  /\ InApply(p, [state |-> "failed"])
  /\ UNCHANGED <<library, seen, itemOf, decided, dropped>>

\* markApplied and markFailed: the item stored by now, which may be another; that
\* they read and put it in transactions of their own is SyncJournal's.
MarkItem(p) ==
  /\ applying[p].state \in {"applied", "failed"}
  /\ itemOf' = [itemOf EXCEPT ![p] = Marked(@, applying[p].state)]
  /\ InApply(p, Nothing)
  /\ UNCHANGED <<library, seen, decided, dropped>>

\* The context ends, with the outcome adopted or not and the item unmarked.
StopApply(p) ==
  /\ applying[p] # Nothing
  /\ InApply(p, Nothing)
  /\ UNCHANGED <<library, seen, itemOf, decided, dropped>>

ScNext ==
  \E p \in Products :
    \/ \E f \in Fields : Edit(p, f)
    \/ TakeSnapshot(p)
    \/ \E m \in snapshots, local \in LocalCopies(p) : ReceiveSnapshot(p, m, local)
    \/ DecideConflicts(p)
    \/ \E approve \in BOOLEAN : ReviewDeletion(p, approve)
    \/ BeginApply(p)
    \/ ApplyOutcome(p)
    \/ RefuseOutcome(p)
    \/ MarkItem(p)
    \/ StopApply(p)

ScSpec == ScInit /\ [][ScNext]_scVars

-----------------------------------------------------------------------------
(* Properties                                                              *)

ItemStates ==
  {"eligible", "duplicate", "conflict", "delete-review", "ready", "skipped", "applied", "failed"}

\* An item of product p.  The two copies of one that can still be applied differ.
IsItem(p, i) ==
  /\ i = [local |-> i.local, remote |-> i.remote, decisions |-> i.decisions,
          state |-> i.state]
  /\ R!IsSnapshot(i.local)
  /\ i.remote \in snapshots /\ i.remote.from # p
  /\ i.state \in ItemStates
  /\ i.state \in {"eligible", "delete-review", "ready"} => AnalysisOf(p, i).category # "duplicate"

CopiesTyped ==
  /\ library = [p \in Products |-> library[p]]
  /\ \A p \in Products : R!IsSnapshot(library[p])
  /\ seen \in [Products -> [Fields -> SUBSET Values]]
  /\ \A m \in snapshots :
       /\ m.from \in Products
       /\ R!IsSnapshot(m.record)
       /\ m.seen \in [Fields -> SUBSET Values]

ItemsTyped ==
  /\ itemOf = [p \in Products |-> itemOf[p]]
  /\ applying = [p \in Products |-> applying[p]]
  /\ \A p \in Products :
       /\ itemOf[p] = Nothing \/ IsItem(p, itemOf[p])
       /\ applying[p] # Nothing => itemOf[p] # Nothing
       /\ \/ applying[p] \in {Nothing, [state |-> "applied"], [state |-> "failed"]}
          \/ IsItem(p, applying[p]) /\ applying[p].state \in {"eligible", "ready"}

\* The state is well typed: the copies and the snapshots' records, the items and
\* what an apply has read of them, the histories.
ScTypeOK ==
  /\ CopiesTyped
  /\ ItemsTyped
  /\ decided \subseteq Fields \X R!Vectors
  /\ dropped \subseteq Fields

\* No apply drops an edit that the value it keeps was made without, unless the
\* reviewer chose between just these two values: whatever the delays and the order
\* of the snapshots, the edits made since the item was analysed and the age of the
\* decisions (analyzeSyncRecords' relations, and an applier that checks).
NoSilentLoss == dropped = {}

\* Two copies whose revisions of a field are equal differ in it only where a
\* reviewer has decided, so a difference the vectors no longer order never comes
\* from the merges themselves.
Holders ==
  {library[p] : p \in Products} \cup {m.record : m \in snapshots}

DivergenceIsDecided ==
  \A f \in Fields :
    LET versions == {<<R!FieldRevision(a, f), a.value[f]>> : a \in Holders}
    IN \A v, w \in versions : v[1] = w[1] => v = w \/ <<f, v[1]>> \in decided

\* A copy's field revisions never go back, whatever is received in what order and
\* however long an item waits.
RevisionsAdvance ==
  [][\A p \in Products, f \in Fields :
       R!NoLater(R!FieldRevision(library[p], f), R!FieldRevision(library'[p], f))]_scVars
=============================================================================

--------------------------- MODULE SyncResolution ---------------------------
(***************************************************************************)
(* How Sync compares the Image Trail and the Overlook copy of one record,  *)
(* and what a reviewer's decisions make of a conflict: the revision        *)
(* vectors of the interop contract and the two pure functions              *)
(* analyzeSyncRecords and resolveSyncConflicts.                            *)
(*                                                                         *)
(* A record is its field values, its record revision and the field         *)
(* revisions it carries; a field that carries none falls back to the       *)
(* record revision.  The identity is left out: the callers compare two     *)
(* copies of one record.                                                   *)
(***************************************************************************)
EXTENDS Naturals

CONSTANTS
  Fields,  \* SYNC_FIELDS
  Values,  \* what a field may hold
  Live     \* the value of "deleted" while deletedAt is null

ASSUME FieldsAssumption == "deleted" \in Fields
ASSUME LiveAssumption == Live \in Values

-----------------------------------------------------------------------------
(* Revision vectors                                                        *)

Products == {"imageTrail", "overlook"}

Vectors == [Products -> Nat]

NoLater(left, right) == \A p \in Products : left[p] <= right[p]

CompareRevisions(left, right) ==
  LET behind == NoLater(left, right)
      ahead == NoLater(right, left)
  IN CASE behind /\ ahead -> "equal"
       [] behind /\ ~ahead -> "before"
       [] ~behind /\ ahead -> "after"
       [] ~behind /\ ~ahead -> "concurrent"

MergeRevisions(left, right) ==
  [p \in Products |-> IF left[p] >= right[p] THEN left[p] ELSE right[p]]

IncrementFirst(revision, product) == \* mutant: always Image Trail's component
  [revision EXCEPT !["imageTrail"] = @ + 1]

IncrementRevision(revision, product) ==
  [revision EXCEPT ![product] = @ + 1]

-----------------------------------------------------------------------------
(* Records                                                                 *)

IsSnapshot(record) ==
  /\ record = [value |-> record.value, revision |-> record.revision,
               fieldRevisions |-> record.fieldRevisions]
  /\ record.value \in [Fields -> Values]
  /\ record.revision \in Vectors
  /\ DOMAIN record.fieldRevisions \subseteq Fields
  /\ record.fieldRevisions \in [DOMAIN record.fieldRevisions -> Vectors]

FieldRevision(record, f) ==
  IF f \in DOMAIN record.fieldRevisions
  THEN record.fieldRevisions[f] ELSE record.revision

Tombstone(record) == record.value["deleted"] # Live

-----------------------------------------------------------------------------
(* analyzeSyncRecords                                                      *)

Relation(imageTrail, overlook, f) ==
  CompareRevisions(FieldRevision(imageTrail, f), FieldRevision(overlook, f))

Differing(imageTrail, overlook) ==
  {f \in Fields : imageTrail.value[f] # overlook.value[f]}

\* The fields that Overlook's copy wins, and those nobody wins.
Taken(imageTrail, overlook) ==
  {f \in Differing(imageTrail, overlook) :
     Relation(imageTrail, overlook, f) = "before"}

ConflictsWhenEqual(imageTrail, overlook) == \* mutant: concurrent fields are not asked
  {f \in Differing(imageTrail, overlook) :
     Relation(imageTrail, overlook, f) = "equal"}

Conflicts(imageTrail, overlook) ==
  {f \in Differing(imageTrail, overlook) :
     Relation(imageTrail, overlook, f) \in {"equal", "concurrent"}}

Merged(imageTrail, overlook) ==
  LET taken == Taken(imageTrail, overlook) IN
  [value |-> [f \in Fields |-> IF f \in taken THEN overlook.value[f] ELSE imageTrail.value[f]],
   revision |-> MergeRevisions(imageTrail.revision, overlook.revision),
   fieldRevisions |->
     [f \in Fields |-> MergeRevisions(FieldRevision(imageTrail, f),
                                      FieldRevision(overlook, f))]]

Analyze(imageTrail, overlook) ==
  IF imageTrail = overlook
  THEN [category |-> "duplicate", merged |-> imageTrail, conflicts |-> {}]
  ELSE LET merged == Merged(imageTrail, overlook)
           conflicts == Conflicts(imageTrail, overlook)
       IN [category |-> IF conflicts # {} THEN "conflict"
                        ELSE IF Tombstone(merged) THEN "delete-review" ELSE "eligible",
           merged |-> merged,
           conflicts |-> conflicts]

Categories == {"eligible", "duplicate", "conflict", "delete-review"}

-----------------------------------------------------------------------------
(* resolveSyncConflicts: it throws unless every conflict has a decision.   *)

Actions == {"keep-image-trail", "keep-overlook", "keep-both"}

Decided(conflicts, decisions) == conflicts \subseteq DOMAIN decisions

WithValues(record, fields, source) ==
  [record EXCEPT !.value =
     [f \in Fields |-> IF f \in fields THEN source.value[f] ELSE @[f]]]

Choosing(decisions, conflicts, actions) ==
  {f \in conflicts : decisions[f] \in actions}

\* merged holds Image Trail's value in every conflict field, so the primary
\* outcome only has to put Overlook's where that was chosen.
Primary(analysis, overlook, decisions) ==
  WithValues(analysis.merged,
             Choosing(decisions, analysis.conflicts, {"keep-overlook"}), overlook)

\* The second record of keep-both; resolveSyncConflicts gives null without one.
KeepsBoth(analysis, decisions) ==
  Choosing(decisions, analysis.conflicts, {"keep-both"}) # {}

Secondary(analysis, overlook, decisions) ==
  WithValues(analysis.merged,
             Choosing(decisions, analysis.conflicts, {"keep-overlook", "keep-both"}),
             overlook)
=============================================================================

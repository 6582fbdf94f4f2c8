---------------------------- MODULE MoveSourceProofs ----------------------------
(***************************************************************************)
(* The proofs about MoveSource, for every choice of its constants: its     *)
(* types, the inductive invariant, and the safety properties that follow   *)
(* from it (what a Move removes is in custody, carries the updatedAt of    *)
(* its review, and did not travel as metadata only).                       *)
(***************************************************************************)
EXTENDS MoveSource, TLAPS

-----------------------------------------------------------------------------
(* Types                                                                   *)


(***************************************************************************)
(* What the program counter of a call says about its local state.          *)
(***************************************************************************)
LEMMA PassShape ==
  ASSUME NEW s \in PassType
  PROVE  /\ s.pc \in {"idle", "review", "seal", "reread", "publish", "deliver",
                      "list", "apply", "finalize", "read", "delete", "mark"}
         /\ s.pc = "review" => s \in [pc : {"review"}, t : Transfers, left : SUBSET Records, batch : SUBSET Reviewed]
         /\ s.pc \in {"seal", "reread"} =>
              s \in [pc : {"seal", "reread"}, t : Transfers, left : SUBSET Records,
                     batch : SUBSET Reviewed, r : Records, seen : BookmarkType, original : Originals]
         /\ s.pc = "publish" => s \in [pc : {"publish"}, t : Transfers, resumed : BOOLEAN, left : SUBSET Messages]
         /\ s.pc = "deliver" => s \in [pc : {"deliver"}, t : Transfers, resumed : BOOLEAN, left : SUBSET Messages, m : Messages]
         /\ s.pc = "list" => s \in [pc : {"list"}, t : Transfers, unlocked : BOOLEAN]
         /\ s.pc = "apply" => s \in [pc : {"apply"}, t : Transfers, unlocked : BOOLEAN, left : SUBSET Answers]
         /\ s.pc = "finalize" => s \in [pc : {"finalize"}, t : Transfers, left : SUBSET Records]
         /\ s.pc = "read" => s \in [pc : {"read"}, t : Transfers, left : SUBSET Records, r : Records]
         /\ s.pc = "delete" => s \in [pc : {"delete"}, t : Transfers, left : SUBSET Records, r : Records, seen : Nat]
         /\ s.pc = "mark" => s \in [pc : {"mark"}, t : Transfers, left : SUBSET Records, r : Records, removed : BOOLEAN]
BY DEF PassType

LEMMA GoType ==
  ASSUME TypeOK, NEW p \in Passes, NEW s \in PassType, Go(p, s)
  PROVE  pass' \in [Passes -> PassType]
BY DEF TypeOK, Go

LEMMA PhaseForType ==
  ASSUME NEW items \in [Records -> ItemType]
  PROVE  PhaseFor(items) \in Phases
BY DEF PhaseFor, Phases

LEMMA BookmarkPut ==
  ASSUME NEW b \in BookmarkType, NEW held \in {"present", "deleted", "moved"}
  PROVE  [b EXCEPT !.held = held] \in BookmarkType
BY DEF BookmarkType

LEMMA ItemPut ==
  ASSUME NEW i \in ItemType, NEW state \in ItemStates, NEW fin \in BOOLEAN
  PROVE  [[i EXCEPT !.state = state] EXCEPT !.fin = fin] \in ItemType
BY DEF ItemType

LEMMA FunctionPut ==
  ASSUME NEW S, NEW T, NEW f \in [S -> T], NEW x \in S, NEW v \in T
  PROVE  [f EXCEPT ![x] = v] \in [S -> T]
OBVIOUS

-----------------------------------------------------------------------------
THEOREM TypeInit == Init => TypeOK
BY DEF Init, TypeOK, BookmarkType, ItemType, ItemStates, NoItem, Originals, Phases,
       PassType, IdlePass, SaveType, NoSave

(***************************************************************************)
(* Reviewing and queueing.                                                 *)
(***************************************************************************)
LEMMA StartType ==
  ASSUME TypeOK, NEW p \in Passes, NEW t \in Transfers, NEW selection \in SUBSET Records,
         Start(p, t, selection)
  PROVE  TypeOK'
<1>1. [pc |-> "review", t |-> t, left |-> selection, batch |-> {}] \in PassType
  BY DEF PassType
<1>2. pass' \in [Passes -> PassType]
  BY <1>1, GoType DEF Start
<1> QED BY <1>2 DEF TypeOK, Start

LEMMA ReviewReadType ==
  ASSUME TypeOK, NEW p \in Passes, ReviewRead(p)
  PROVE  TypeOK'
<1>1. pass[p] \in [pc : {"review"}, t : Transfers, left : SUBSET Records, batch : SUBSET Reviewed]
  BY PassShape DEF TypeOK, ReviewRead
<1>2. PICK r \in pass[p].left :
        \/ Go(p, [pass[p] EXCEPT !.left = @ \ {r}])
        \/ \E original \in (IF r \in StoredOriginals
                            THEN {"available", "metadata-only"} ELSE {"unavailable"}) :
             Go(p, [pc |-> IF original = bookmark[r].custody THEN "reread" ELSE "seal",
                    t |-> pass[p].t, left |-> pass[p].left \ {r},
                    batch |-> pass[p].batch, r |-> r, seen |-> bookmark[r],
                    original |-> original])
  BY DEF ReviewRead
<1>3. pass' \in [Passes -> PassType]
  <2>1. CASE Go(p, [pass[p] EXCEPT !.left = @ \ {r}])
    <3>1. [pass[p] EXCEPT !.left = @ \ {r}] \in PassType
      BY <1>1 DEF PassType
    <3> QED BY <2>1, <3>1, GoType
  <2>2. ASSUME NEW original \in Originals,
               Go(p, [pc |-> IF original = bookmark[r].custody THEN "reread" ELSE "seal",
                      t |-> pass[p].t, left |-> pass[p].left \ {r},
                      batch |-> pass[p].batch, r |-> r, seen |-> bookmark[r],
                      original |-> original])
        PROVE  pass' \in [Passes -> PassType]
    <3>1. r \in Records /\ bookmark[r] \in BookmarkType
      BY <1>1 DEF TypeOK
    <3>2. [pc |-> IF original = bookmark[r].custody THEN "reread" ELSE "seal",
           t |-> pass[p].t, left |-> pass[p].left \ {r},
           batch |-> pass[p].batch, r |-> r, seen |-> bookmark[r],
           original |-> original] \in PassType
      BY <1>1, <3>1 DEF PassType
    <3> QED BY <2>2, <3>2, GoType
  <2> QED BY <1>2, <2>1, <2>2 DEF Originals
<1> QED BY <1>3 DEF TypeOK, ReviewRead

LEMMA CanonicalType ==
  ASSUME NEW b \in BookmarkType
  PROVE  Canonical(b) \in Nat
BY DEF BookmarkType, Canonical

LEMMA ReviewSealType ==
  ASSUME TypeOK, NEW p \in Passes, ReviewSeal(p)
  PROVE  TypeOK'
<1>1. pass[p] \in [pc : {"seal", "reread"}, t : Transfers, left : SUBSET Records,
                   batch : SUBSET Reviewed, r : Records, seen : BookmarkType, original : Originals]
  BY PassShape DEF TypeOK, ReviewSeal
<1>2. pass' \in [Passes -> PassType]
  <2>1. [pass[p] EXCEPT !.pc = "reread"] \in PassType
    BY <1>1 DEF PassType
  <2> QED BY <2>1, GoType DEF ReviewSeal
<1> DEFINE put == [held |-> "present", rev |-> pass[p].seen.rev, stamp |-> clock + 1,
                   custody |-> pass[p].original, sealed |-> Canonical(pass[p].seen)]
<1>3. put \in BookmarkType
  <2>1. Canonical(pass[p].seen) \in Nat
    BY <1>1, CanonicalType
  <2> QED BY <1>1, <2>1 DEF TypeOK, BookmarkType
<1>4. bookmark' = [bookmark EXCEPT ![pass[p].r] = put] /\ clock' = clock + 1
  BY DEF ReviewSeal
<1>5. bookmark' \in [Records -> BookmarkType]
  <2> HIDE DEF put
  <2> QED BY <1>1, <1>3, <1>4 DEF TypeOK
<1> QED BY <1>2, <1>4, <1>5 DEF TypeOK, ReviewSeal

LEMMA ReviewRereadType ==
  ASSUME TypeOK, NEW p \in Passes, ReviewReread(p)
  PROVE  TypeOK'
<1>1. pass[p] \in [pc : {"seal", "reread"}, t : Transfers, left : SUBSET Records,
                   batch : SUBSET Reviewed, r : Records, seen : BookmarkType, original : Originals]
  BY PassShape DEF TypeOK, ReviewReread
<1> DEFINE r == pass[p].r
           reviewed == [r |-> r, rev |-> Canonical(pass[p].seen),
                        stamp |-> bookmark[r].stamp, original |-> pass[p].original]
           next == [pc |-> "review", t |-> pass[p].t, left |-> pass[p].left,
                    batch |-> IF bookmark[r].held = "present"
                              THEN pass[p].batch \cup {reviewed} ELSE pass[p].batch]
<1>2. reviewed \in Reviewed
  <2>1. Canonical(pass[p].seen) \in Nat
    BY <1>1, CanonicalType
  <2> QED BY <1>1, <2>1 DEF TypeOK, BookmarkType, Reviewed
<1>3. next \in PassType
  BY <1>1, <1>2 DEF PassType
<1>4. Go(p, next)
  BY DEF ReviewReread
<1>5. pass' \in [Passes -> PassType]
  BY <1>3, <1>4, GoType
<1> QED BY <1>5 DEF TypeOK, ReviewReread

LEMMA QueueBatchType ==
  ASSUME TypeOK, NEW p \in Passes, QueueBatch(p)
  PROVE  TypeOK'
<1>1. pass[p] \in [pc : {"review"}, t : Transfers, left : SUBSET Records, batch : SUBSET Reviewed]
  BY PassShape DEF TypeOK, QueueBatch
<1> DEFINE t == pass[p].t
           batch == pass[p].batch
           rows == UNION {MessagesOf(b.r, b.original) : b \in batch}
           queued == [r \in Records |->
                       IF \E b \in batch : b.r = r
                       THEN LET b == CHOOSE x \in batch : x.r = r
                            IN  [state |-> "queued", ack |-> FALSE, fin |-> FALSE,
                                 stamp |-> b.stamp, rev |-> b.rev,
                                 original |-> b.original, verification |-> "pending"]
                       ELSE NoItem]
<1>2. rows \in SUBSET Messages
  BY <1>1 DEF MessagesOf, Messages, Reviewed
<1>3. queued \in [Records -> ItemType]
  <2> SUFFICES ASSUME NEW r \in Records
               PROVE  queued[r] \in ItemType
    OBVIOUS
  <2>1. CASE \E b \in batch : b.r = r
    <3> DEFINE b == CHOOSE x \in batch : x.r = r
    <3>1. b \in Reviewed
      BY <1>1, <2>1
    <3> QED BY <2>1, <3>1 DEF Reviewed, ItemType, ItemStates
  <2>2. CASE ~\E b \in batch : b.r = r
    BY <2>2 DEF ItemType, ItemStates, NoItem, Originals
  <2> QED BY <2>1, <2>2
<1>4. [pc |-> "publish", t |-> t, resumed |-> FALSE, left |-> rows] \in PassType
  BY <1>1, <1>2 DEF PassType
<1>5. pass' \in [Passes -> PassType]
  BY <1>4, GoType DEF QueueBatch
<1>6. item' = [item EXCEPT ![t] = queued]
  BY DEF QueueBatch
<1>7. item' \in [Transfers -> [Records -> ItemType]]
  BY <1>1, <1>3, <1>6 DEF TypeOK
<1>8. phase' \in [Transfers -> Phases]
  BY <1>1 DEF TypeOK, QueueBatch, Phases
<1>9. outbox' = [outbox EXCEPT ![t] = [m \in Messages |-> IF m \in rows THEN "pending" ELSE "none"]]
  BY DEF QueueBatch
<1>10. outbox' \in [Transfers -> [Messages -> {"none", "pending", "delivered"}]]
  BY <1>1, <1>9 DEF TypeOK
<1> QED BY <1>5, <1>7, <1>8, <1>10 DEF TypeOK, QueueBatch

LEMMA IdleType ==
  ASSUME TypeOK, NEW p \in Passes, ReviewEmpty(p) \/ Reconciled(p)
  PROVE  TypeOK'
<1>1. IdlePass \in PassType
  BY DEF IdlePass, PassType
<1>2. pass' \in [Passes -> PassType]
  BY <1>1, GoType DEF ReviewEmpty, Reconciled
<1> QED BY <1>2 DEF TypeOK, ReviewEmpty, Reconciled

(***************************************************************************)
(* Publishing.                                                             *)
(***************************************************************************)
LEMMA ResumeType ==
  ASSUME TypeOK, NEW p \in Passes, NEW t \in Transfers, Resume(p, t)
  PROVE  TypeOK'
<1>1. [pc |-> "publish", t |-> t, resumed |-> TRUE, left |-> Pending(t)] \in PassType
  BY DEF PassType, Pending
<1>2. pass' \in [Passes -> PassType]
  BY <1>1, GoType DEF Resume
<1> QED BY <1>2 DEF TypeOK, Resume

LEMMA StatusType ==
  ASSUME TypeOK, NEW p \in Passes, NEW t \in Transfers, NEW unlocked \in BOOLEAN,
         Status(p, t, unlocked)
  PROVE  TypeOK'
<1>1. [pc |-> "list", t |-> t, unlocked |-> unlocked] \in PassType
  BY DEF PassType
<1>2. pass' \in [Passes -> PassType]
  BY <1>1, GoType DEF Status
<1> QED BY <1>2 DEF TypeOK, Status

LEMMA UploadType ==
  ASSUME TypeOK, NEW p \in Passes, Upload(p)
  PROVE  TypeOK'
<1>1. pass[p] \in [pc : {"publish"}, t : Transfers, resumed : BOOLEAN, left : SUBSET Messages]
  BY PassShape DEF TypeOK, Upload
<1>2. PICK m \in pass[p].left :
        /\ provider' = provider \cup {<<pass[p].t, m>>}
        /\ Go(p, [pc |-> "deliver", t |-> pass[p].t, resumed |-> pass[p].resumed,
                  left |-> pass[p].left \ {m}, m |-> m])
  BY DEF Upload
<1>3. [pc |-> "deliver", t |-> pass[p].t, resumed |-> pass[p].resumed,
       left |-> pass[p].left \ {m}, m |-> m] \in PassType
  BY <1>1 DEF PassType
<1>4. pass' \in [Passes -> PassType]
  BY <1>2, <1>3, GoType
<1>5. provider' \subseteq (Transfers \X Messages)
  BY <1>1, <1>2 DEF TypeOK
<1> QED BY <1>4, <1>5 DEF TypeOK, Upload

LEMMA MarkDeliveredType ==
  ASSUME TypeOK, NEW p \in Passes, MarkDelivered(p)
  PROVE  TypeOK'
<1>1. pass[p] \in [pc : {"deliver"}, t : Transfers, resumed : BOOLEAN, left : SUBSET Messages, m : Messages]
  BY PassShape DEF TypeOK, MarkDelivered
<1>2. [pc |-> "publish", t |-> pass[p].t, resumed |-> pass[p].resumed, left |-> pass[p].left] \in PassType
  BY <1>1 DEF PassType
<1>3. pass' \in [Passes -> PassType]
  BY <1>2, GoType DEF MarkDelivered
<1>4. outbox' \in [Transfers -> [Messages -> {"none", "pending", "delivered"}]]
  BY <1>1 DEF TypeOK, MarkDelivered
<1> QED BY <1>3, <1>4 DEF TypeOK, MarkDelivered

LEMMA PublishedType ==
  ASSUME TypeOK, NEW p \in Passes, Published(p)
  PROVE  TypeOK'
<1>1. pass[p] \in [pc : {"publish"}, t : Transfers, resumed : BOOLEAN, left : SUBSET Messages]
  BY PassShape DEF TypeOK, Published
<1>2. /\ [pc |-> "list", t |-> pass[p].t, unlocked |-> TRUE] \in PassType
      /\ IdlePass \in PassType
  BY <1>1 DEF PassType, IdlePass
<1>3. pass' \in [Passes -> PassType]
  BY <1>2, GoType DEF Published
<1> QED BY <1>3 DEF TypeOK, Published

LEMMA FaultType ==
  ASSUME TypeOK, NEW p \in Passes, TransportFails(p) \/ FinalizerFails(p)
  PROVE  TypeOK'
<1>1. CASE TransportFails(p)
  <2>1. IdlePass \in PassType
    BY DEF IdlePass, PassType
  <2>2. pass' \in [Passes -> PassType]
    BY <1>1, <2>1, GoType DEF TransportFails
  <2> QED BY <1>1, <2>2 DEF TypeOK, TransportFails
<1>2. CASE FinalizerFails(p)
  <2>1. pass[p] \in [pc : {"delete"}, t : Transfers, left : SUBSET Records, r : Records, seen : Nat]
    BY <1>2, PassShape DEF TypeOK, FinalizerFails
  <2>2. [pc |-> "mark", t |-> pass[p].t, left |-> pass[p].left, r |-> pass[p].r, removed |-> FALSE] \in PassType
    BY <2>1 DEF PassType
  <2>3. pass' \in [Passes -> PassType]
    BY <1>2, <2>2, GoType DEF FinalizerFails
  <2> QED BY <1>2, <2>3 DEF TypeOK, FinalizerFails
<1> QED BY <1>1, <1>2

(***************************************************************************)
(* Reconciling and finalizing.                                             *)
(***************************************************************************)
LEMMA ListAnswersType ==
  ASSUME TypeOK, NEW p \in Passes, ListAnswers(p)
  PROVE  TypeOK'
<1>1. pass[p] \in [pc : {"list"}, t : Transfers, unlocked : BOOLEAN]
  BY PassShape DEF TypeOK, ListAnswers
<1>2. [pc |-> "apply", t |-> pass[p].t, unlocked |-> pass[p].unlocked,
       left |-> {a \in answers : a.t = pass[p].t}] \in PassType
  BY <1>1 DEF PassType, TypeOK
<1>3. pass' \in [Passes -> PassType]
  BY <1>2, GoType DEF ListAnswers
<1> QED BY <1>3 DEF TypeOK, ListAnswers

LEMMA AnsweredType ==
  ASSUME NEW i \in ItemType, NEW a \in Answers
  PROVE  Answered(i, a) \in ItemType
BY DEF Answered, Rejected, Accepted, ExpectedVerification, ItemType, ItemStates, Originals, Answers

LEMMA ApplyType ==
  ASSUME TypeOK, NEW p \in Passes, Apply(p)
  PROVE  TypeOK'
<1>1. pass[p] \in [pc : {"apply"}, t : Transfers, unlocked : BOOLEAN, left : SUBSET Answers]
  BY PassShape DEF TypeOK, Apply
<1>2. PICK a \in pass[p].left :
        /\ \/ UNCHANGED <<item, phase, receipts>>
           \/ /\ LET items == [item[a.t] EXCEPT ![a.r] = Answered(@, a)]
                 IN  /\ item' = [item EXCEPT ![a.t] = items]
                     /\ phase' = [phase EXCEPT ![a.t] = PhaseFor(items)]
              /\ receipts' = receipts \cup {a}
        /\ Go(p, [pass[p] EXCEPT !.left = @ \ {a}])
  BY DEF Apply
<1>3. a \in Answers /\ a.t \in Transfers /\ a.r \in Records
  BY <1>1 DEF Answers
<1>4. [pass[p] EXCEPT !.left = @ \ {a}] \in PassType
  BY <1>1 DEF PassType
<1>5. pass' \in [Passes -> PassType]
  BY <1>2, <1>4, GoType
<1> DEFINE items == [item[a.t] EXCEPT ![a.r] = Answered(@, a)]
<1>6. items \in [Records -> ItemType]
  BY <1>3, AnsweredType DEF TypeOK
<1>7. PhaseFor(items) \in Phases
  BY <1>6, PhaseForType
<1>8. /\ item' \in [Transfers -> [Records -> ItemType]]
      /\ phase' \in [Transfers -> Phases]
      /\ receipts' \subseteq Answers
  BY <1>2, <1>3, <1>6, <1>7 DEF TypeOK
<1> QED BY <1>5, <1>8 DEF TypeOK, Apply

LEMMA CorruptType ==
  ASSUME TypeOK, NEW p \in Passes, Corrupt(p)
  PROVE  TypeOK'
<1>1. IdlePass \in PassType
  BY DEF IdlePass, PassType
<1>2. pass' \in [Passes -> PassType]
  BY <1>1, GoType DEF Corrupt
<1> QED BY <1>2 DEF TypeOK, Corrupt

LEMMA PendingFinalizationType ==
  ASSUME TypeOK, NEW p \in Passes, PendingFinalization(p)
  PROVE  TypeOK'
<1>1. pass[p] \in [pc : {"apply"}, t : Transfers, unlocked : BOOLEAN, left : SUBSET Answers]
  BY PassShape DEF TypeOK, PendingFinalization
<1>2. /\ [pc |-> "finalize", t |-> pass[p].t,
          left |-> {r \in Records : Finalizable(item[pass[p].t][r])}] \in PassType
      /\ IdlePass \in PassType
  BY <1>1 DEF PassType, IdlePass
<1>3. pass' \in [Passes -> PassType]
  BY <1>2, GoType DEF PendingFinalization
<1> QED BY <1>3 DEF TypeOK, PendingFinalization

LEMMA UpdateFinalizationType ==
  ASSUME TypeOK, NEW t \in Transfers, NEW r \in Records,
         NEW state \in {"finalizing", "finalized", "failed"},
         UpdateFinalization(t, r, state)
  PROVE  /\ item' \in [Transfers -> [Records -> ItemType]]
         /\ phase' \in [Transfers -> Phases]
<1> DEFINE items == [item[t] EXCEPT ![r].state = state, ![r].fin = (state = "finalized")]
           done == (state = "finalized")
           put == [[item[t][r] EXCEPT !.state = state] EXCEPT !.fin = done]
<1>1. put \in ItemType
  <2>1. item[t][r] \in ItemType
    BY DEF TypeOK
  <2>2. done \in BOOLEAN /\ state \in ItemStates
    BY DEF ItemStates
  <2> QED BY <2>1, <2>2, ItemPut
<1>2. items \in [Records -> ItemType]
  <2>1. items = [item[t] EXCEPT ![r] = put]
    BY Zenon DEF TypeOK
  <2>2. item[t] \in [Records -> ItemType]
    BY DEF TypeOK
  <2> HIDE DEF put, items
  <2> QED BY <1>1, <2>1, <2>2, FunctionPut
<1>3. PhaseFor(items) \in Phases
  BY <1>2, PhaseForType
<1> QED BY <1>2, <1>3 DEF TypeOK, UpdateFinalization

LEMMA MarkFinalizingType ==
  ASSUME TypeOK, NEW p \in Passes, MarkFinalizing(p)
  PROVE  TypeOK'
<1>1. pass[p] \in [pc : {"finalize"}, t : Transfers, left : SUBSET Records]
  BY PassShape DEF TypeOK, MarkFinalizing
<1>2. PICK r \in pass[p].left :
        /\ UpdateFinalization(pass[p].t, r, "finalizing")
        /\ Go(p, [pc |-> "read", t |-> pass[p].t, left |-> pass[p].left \ {r}, r |-> r])
  BY DEF MarkFinalizing
<1>3. [pc |-> "read", t |-> pass[p].t, left |-> pass[p].left \ {r}, r |-> r] \in PassType
  BY <1>1 DEF PassType
<1>4. pass' \in [Passes -> PassType]
  BY <1>2, <1>3, GoType
<1>5. /\ item' \in [Transfers -> [Records -> ItemType]]
      /\ phase' \in [Transfers -> Phases]
  BY <1>1, <1>2, UpdateFinalizationType
<1> QED BY <1>4, <1>5 DEF TypeOK, MarkFinalizing

LEMMA FinalizerReadType ==
  ASSUME TypeOK, NEW p \in Passes, FinalizerRead(p)
  PROVE  TypeOK'
<1>1. pass[p] \in [pc : {"read"}, t : Transfers, left : SUBSET Records, r : Records]
  BY PassShape DEF TypeOK, FinalizerRead
<1>2. bookmark[pass[p].r].stamp \in Nat
  BY <1>1 DEF TypeOK, BookmarkType
<1>3. /\ [pc |-> "delete", t |-> pass[p].t, left |-> pass[p].left, r |-> pass[p].r,
          seen |-> bookmark[pass[p].r].stamp] \in PassType
      /\ [pc |-> "mark", t |-> pass[p].t, left |-> pass[p].left, r |-> pass[p].r,
          removed |-> TRUE] \in PassType
  BY <1>1, <1>2 DEF PassType
<1>4. pass' \in [Passes -> PassType]
  BY <1>3, GoType DEF FinalizerRead
<1> QED BY <1>4 DEF TypeOK, FinalizerRead

LEMMA FinalizerDeleteType ==
  ASSUME TypeOK, NEW p \in Passes, FinalizerDelete(p)
  PROVE  TypeOK'
<1>1. pass[p] \in [pc : {"delete"}, t : Transfers, left : SUBSET Records, r : Records, seen : Nat]
  BY PassShape DEF TypeOK, FinalizerDelete
<1> DEFINE removes == Unchanged(pass[p].r, pass[p].seen, item[pass[p].t][pass[p].r].stamp)
<1>2. removes \in BOOLEAN
  BY DEF Unchanged
<1>3. [pc |-> "mark", t |-> pass[p].t, left |-> pass[p].left, r |-> pass[p].r,
       removed |-> removes] \in PassType
  BY <1>1, <1>2 DEF PassType
<1>4. pass' \in [Passes -> PassType]
  BY <1>3, GoType DEF FinalizerDelete
<1>5. [bookmark[pass[p].r] EXCEPT !.held = "moved"] \in BookmarkType
  <2>1. bookmark[pass[p].r] \in BookmarkType
    BY <1>1 DEF TypeOK
  <2> QED BY <2>1, BookmarkPut
<1>6. bookmark' = bookmark \/ bookmark' = [bookmark EXCEPT ![pass[p].r].held = "moved"]
  BY DEF FinalizerDelete
<1>7. bookmark' \in [Records -> BookmarkType]
  BY <1>1, <1>5, <1>6 DEF TypeOK
<1> QED BY <1>4, <1>7 DEF TypeOK, FinalizerDelete

LEMMA MarkOutcomeType ==
  ASSUME TypeOK, NEW p \in Passes, MarkOutcome(p)
  PROVE  TypeOK'
<1>1. pass[p] \in [pc : {"mark"}, t : Transfers, left : SUBSET Records, r : Records, removed : BOOLEAN]
  BY PassShape DEF TypeOK, MarkOutcome
<1>2. [pc |-> "finalize", t |-> pass[p].t, left |-> pass[p].left] \in PassType
  BY <1>1 DEF PassType
<1>3. pass' \in [Passes -> PassType]
  BY <1>2, GoType DEF MarkOutcome
<1>4. /\ item' \in [Transfers -> [Records -> ItemType]]
      /\ phase' \in [Transfers -> Phases]
  BY <1>1, UpdateFinalizationType DEF MarkOutcome
<1> QED BY <1>3, <1>4 DEF TypeOK, MarkOutcome

LEMMA EnvironmentType ==
  ASSUME TypeOK,
         \/ WorkerStops
         \/ \E r \in Records : SaveRead(r) \/ Delete(r)
         \/ SavePut
         \/ \E t \in Transfers, r \in Records, status \in TargetAnswers : TargetAnswer(t, r, status)
  PROVE  TypeOK'
<1>1. CASE WorkerStops
  BY <1>1 DEF TypeOK, WorkerStops, IdlePass, PassType, SaveType, NoSave
<1>2. ASSUME NEW r \in Records, SaveRead(r)
      PROVE  TypeOK'
  BY <1>2 DEF TypeOK, SaveRead, SaveType
<1>3. ASSUME NEW r \in Records, Delete(r)
      PROVE  TypeOK'
  BY <1>3 DEF TypeOK, Delete, BookmarkType
<1>4. ASSUME NEW t \in Transfers, NEW r \in Records, NEW status \in TargetAnswers,
             TargetAnswer(t, r, status)
      PROVE  TypeOK'
  BY <1>4, AnswersAssumption DEF TypeOK, TargetAnswer, Answers
<1>5. CASE SavePut
  <2>1. save \in [pc : {"put"}, r : Records, seen : BookmarkType]
    BY <1>5 DEF TypeOK, SavePut, SaveType
  <2>2. [held |-> "present", rev |-> clock + 1, stamp |-> save.seen.stamp,
         custody |-> save.seen.custody, sealed |-> save.seen.sealed] \in BookmarkType
    BY <2>1 DEF TypeOK, BookmarkType
  <2> QED BY <1>5, <2>1, <2>2 DEF TypeOK, SavePut, SaveType, NoSave
<1> QED BY <1>1, <1>2, <1>3, <1>4, <1>5

THEOREM TypeStep == TypeOK /\ [Next]_vars => TypeOK'
<1> SUFFICES ASSUME TypeOK, [Next]_vars
             PROVE  TypeOK'
  OBVIOUS
<1>1. ASSUME NEW p \in Passes, Step(p)
      PROVE  TypeOK'
  BY <1>1, ReviewReadType, ReviewSealType, ReviewRereadType, QueueBatchType, IdleType,
     UploadType, MarkDeliveredType, PublishedType, ListAnswersType, ApplyType, CorruptType,
     PendingFinalizationType, MarkFinalizingType, FinalizerReadType, FinalizerDeleteType,
     MarkOutcomeType DEF Step
<1>2. CASE UNCHANGED vars
  BY <1>2 DEF TypeOK, vars
<1> QED BY <1>1, <1>2, FaultType, StartType, ResumeType, StatusType, EnvironmentType DEF Next

(***************************************************************************)
(* Every variable keeps its type.                                          *)
(***************************************************************************)
THEOREM TypeCorrect == Spec => []TypeOK
BY TypeInit, TypeStep, PTL DEF Spec


-----------------------------------------------------------------------------
(***************************************************************************)
(* The inductive invariant.  Custody is a chain of evidence: a pass in the *)
(* finalizing loop works on acknowledged items, an item is acknowledged by *)
(* an answer that was listed, an acceptance is only published for a record *)
(* the target keeps.  The chain would break if a batch could be queued     *)
(* over a transfer that already has acknowledged items; the fresh identity *)
(* of every start excludes that, which takes three conjuncts to say.       *)
(***************************************************************************)
Reviewing == {"review", "seal", "reread"}

Removable(i) == i.ack /\ i.verification # "metadata-only"

\* What a call in flight may rely on.
PassSound(s, items, phases, answered) ==
  /\ s.pc # "idle" => (s.pc \in Reviewing <=> phases[s.t] = "none")
  /\ s.pc = "apply" => s.left \subseteq answered
  /\ s.pc \in {"finalize", "read", "delete", "mark"} =>
       \A r \in s.left : Removable(items[s.t][r])
  /\ s.pc \in {"read", "delete", "mark"} => Removable(items[s.t][s.r])

PassesSound == \A p \in Passes : PassSound(pass[p], item, phase, answers)

ReviewedAlone ==
  \A p, q \in Passes :
    pass[p].pc \in Reviewing /\ pass[q].pc # "idle" /\ pass[q].t = pass[p].t => p = q

UnstartedIsEmpty ==
  \A t \in Transfers : phase[t] = "none" =>
    /\ \A r \in Records : ~item[t][r].ack
    /\ \A m \in Messages : <<t, m>> \notin provider
    /\ \A a \in answers : a.t # t

AcceptanceIsKept ==
  \A a \in answers : a.status = "accepted" => <<a.t, a.r>> \in target

Proved(i) ==
  /\ i.verification = ExpectedVerification(i.original)
  /\ i.state \notin {"none", "queued", "rejected"}

AcknowledgedIsProved ==
  \A t \in Transfers, r \in Records :
    item[t][r].ack => <<t, r>> \in target /\ Proved(item[t][r])

MovedIsJustified ==
  \A r \in Records : bookmark[r].held = "moved" =>
    \E t \in Transfers :
      /\ item[t][r].ack
      /\ item[t][r].stamp = bookmark[r].stamp
      /\ item[t][r].original # "metadata-only"

\* The conjuncts that speak of stored data only.
DataInv == UnstartedIsEmpty /\ AcceptanceIsKept /\ AcknowledgedIsProved /\ MovedIsJustified

Inv == TypeOK /\ PassesSound /\ ReviewedAlone /\ DataInv

\* What no step takes back.
Grows ==
  /\ answers \subseteq answers'
  /\ target \subseteq target'
  /\ \A t \in Transfers, r \in Records : item[t][r].ack =>
       /\ item'[t][r].ack
       /\ item'[t][r].verification = item[t][r].verification
       /\ item'[t][r].stamp = item[t][r].stamp
       /\ item'[t][r].original = item[t][r].original

SamePhases == \A t \in Transfers : phase[t] = "none" <=> phase'[t] = "none"

-----------------------------------------------------------------------------
(* Calls in flight                                                         *)

LEMMA PassFields ==
  ASSUME NEW s \in PassType
  PROVE  /\ s.pc # "idle" => s.t \in Transfers
         /\ s.pc \in {"finalize", "read", "delete", "mark"} => s.left \subseteq Records
         /\ s.pc \in {"read", "delete", "mark"} => s.r \in Records
BY PassShape

LEMMA PassKept ==
  ASSUME NEW s \in PassType, PassSound(s, item, phase, answers), Grows,
         s.pc # "idle" => (phase[s.t] = "none" <=> phase'[s.t] = "none")
  PROVE  PassSound(s, item', phase', answers')
<1>1. s.pc # "idle" => (s.pc \in Reviewing <=> phase'[s.t] = "none")
  BY DEF PassSound
<1>2. s.pc = "apply" => s.left \subseteq answers'
  BY DEF PassSound, Grows
<1>3. ASSUME s.pc \in {"finalize", "read", "delete", "mark"}, NEW r \in s.left
      PROVE  Removable(item'[s.t][r])
  <2>1. s.t \in Transfers /\ r \in Records
    BY <1>3, PassFields
  <2>2. Removable(item[s.t][r])
    BY <1>3 DEF PassSound
  <2> QED BY <2>1, <2>2 DEF Removable, Grows
<1>4. ASSUME s.pc \in {"read", "delete", "mark"}
      PROVE  Removable(item'[s.t][s.r])
  <2>1. s.t \in Transfers /\ s.r \in Records
    BY <1>4, PassFields
  <2>2. Removable(item[s.t][s.r])
    BY <1>4 DEF PassSound
  <2> QED BY <2>1, <2>2 DEF Removable, Grows
<1> QED BY <1>1, <1>2, <1>3, <1>4 DEF PassSound

\* One call moves to s; the others rely on what they relied on before.
LEMMA PassesKept ==
  ASSUME TypeOK, PassesSound, ReviewedAlone, Grows, SamePhases,
         NEW p \in Passes, NEW s \in PassType, Go(p, s),
         PassSound(s, item', phase', answers'),
         s.pc \in Reviewing =>
           \A q \in Passes \ {p} : pass[q].pc # "idle" => pass[q].t # s.t
  PROVE  PassesSound' /\ ReviewedAlone'
<1>1. \A q \in Passes : pass'[q] = IF q = p THEN s ELSE pass[q]
  BY DEF Go, TypeOK
<1>2. \A q \in Passes : pass[q] \in PassType /\ PassSound(pass[q], item, phase, answers)
  BY DEF TypeOK, PassesSound
<1>3. ASSUME NEW q \in Passes
      PROVE  PassSound(pass'[q], item', phase', answers')
  <2>1. CASE q = p
    BY <1>1, <2>1
  <2>2. CASE q # p
    <3>1. pass[q].pc # "idle" => (phase[pass[q].t] = "none" <=> phase'[pass[q].t] = "none")
      BY <1>2, PassFields DEF SamePhases
    <3>2. PassSound(pass[q], item', phase', answers')
      BY <1>2, <3>1, PassKept
    <3> QED BY <1>1, <2>2, <3>2
  <2> QED BY <2>1, <2>2
<1>4. ASSUME NEW a \in Passes, NEW b \in Passes,
             pass'[a].pc \in Reviewing, pass'[b].pc # "idle", pass'[b].t = pass'[a].t
      PROVE  a = b
  <2>1. pass'[a].pc # "idle"
    BY <1>4 DEF Reviewing
  <2>2. pass'[b].pc \in Reviewing
    BY <1>3, <1>4, <2>1 DEF PassSound
  <2>3. CASE a = p /\ b # p
    BY <1>1, <1>4, <2>3
  <2>4. CASE a # p /\ b = p
    BY <1>1, <1>4, <2>1, <2>2, <2>4
  <2>5. CASE a # p /\ b # p
    BY <1>1, <1>4, <2>5 DEF ReviewedAlone
  <2> QED BY <2>3, <2>4, <2>5
<1> QED BY <1>3, <1>4 DEF PassesSound, ReviewedAlone

\* Steps that leave the stored data alone.
LEMMA CalmStep ==
  ASSUME DataInv, UNCHANGED <<bookmark, item, phase, provider, answers, target>>
  PROVE  DataInv' /\ Grows /\ SamePhases
BY DEF DataInv, UnstartedIsEmpty, AcceptanceIsKept, AcknowledgedIsProved, MovedIsJustified,
       Grows, SamePhases

LEMMA CalmMove ==
  ASSUME Inv, UNCHANGED <<bookmark, item, phase, provider, answers, target>>,
         NEW p \in Passes, NEW s \in PassType, Go(p, s),
         PassSound(s, item, phase, answers),
         s.pc \in Reviewing =>
           \A q \in Passes \ {p} : pass[q].pc # "idle" => pass[q].t # s.t
  PROVE  PassesSound' /\ ReviewedAlone' /\ DataInv' /\ Grows
<1>1. DataInv' /\ Grows /\ SamePhases
  BY CalmStep DEF Inv
<1>2. PassSound(s, item', phase', answers')
  OBVIOUS
<1> QED BY <1>1, <1>2, PassesKept DEF Inv

\* A call that goes on reviewing its own transfer.
LEMMA ReviewGoesOn ==
  ASSUME Inv, NEW p \in Passes, NEW s \in PassType,
         pass[p].pc \in Reviewing, s.pc \in Reviewing, s.t = pass[p].t
  PROVE  /\ PassSound(s, item, phase, answers)
         /\ \A q \in Passes \ {p} : pass[q].pc # "idle" => pass[q].t # s.t
<1>1. PassSound(pass[p], item, phase, answers)
  BY DEF Inv, PassesSound
<1>2. phase[s.t] = "none"
  BY <1>1 DEF PassSound, Reviewing
<1>3. PassSound(s, item, phase, answers)
  BY <1>2 DEF PassSound, Reviewing
<1> QED BY <1>3 DEF Inv, ReviewedAlone

LEMMA IdleSound ==
  IdlePass \in PassType /\ IdlePass.pc \notin Reviewing /\ PassSound(IdlePass, item, phase, answers)
BY DEF IdlePass, PassType, Reviewing, PassSound

LEMMA StartInv ==
  ASSUME Inv, NEW p \in Passes, NEW t \in Transfers, NEW selection \in SUBSET Records,
         Start(p, t, selection)
  PROVE  PassesSound' /\ ReviewedAlone' /\ DataInv' /\ Grows
<1> DEFINE s == [pc |-> "review", t |-> t, left |-> selection, batch |-> {}]
<1>1. s \in PassType
  BY DEF PassType
<1>2. Go(p, s) /\ UNCHANGED <<bookmark, item, phase, provider, answers, target>>
  BY DEF Start
<1>3. PassSound(s, item, phase, answers)
  BY DEF Start, PassSound, Reviewing
<1>4. \A q \in Passes \ {p} : pass[q].pc # "idle" => pass[q].t # s.t
  BY DEF Start
<1> HIDE DEF s
<1> QED BY <1>1, <1>2, <1>3, <1>4, CalmMove

LEMMA ReviewReadInv ==
  ASSUME Inv, NEW p \in Passes, ReviewRead(p)
  PROVE  PassesSound' /\ ReviewedAlone' /\ DataInv' /\ Grows
<1>1. pass[p] \in [pc : {"review"}, t : Transfers, left : SUBSET Records, batch : SUBSET Reviewed]
  BY PassShape DEF Inv, TypeOK, ReviewRead
<1>2. PICK r \in pass[p].left :
        \/ Go(p, [pass[p] EXCEPT !.left = @ \ {r}])
        \/ \E original \in (IF r \in StoredOriginals
                            THEN {"available", "metadata-only"} ELSE {"unavailable"}) :
             Go(p, [pc |-> IF original = bookmark[r].custody THEN "reread" ELSE "seal",
                    t |-> pass[p].t, left |-> pass[p].left \ {r},
                    batch |-> pass[p].batch, r |-> r, seen |-> bookmark[r],
                    original |-> original])
  BY DEF ReviewRead
<1>3. PICK s \in PassType : Go(p, s) /\ s.pc \in Reviewing /\ s.t = pass[p].t
  <2>1. CASE Go(p, [pass[p] EXCEPT !.left = @ \ {r}])
    <3>1. [pass[p] EXCEPT !.left = @ \ {r}] \in PassType
      BY <1>1 DEF PassType
    <3>2. /\ [pass[p] EXCEPT !.left = @ \ {r}].pc = "review"
          /\ [pass[p] EXCEPT !.left = @ \ {r}].t = pass[p].t
      BY <1>1
    <3> QED BY <2>1, <3>1, <3>2 DEF Reviewing
  <2>2. ASSUME NEW original \in Originals,
               Go(p, [pc |-> IF original = bookmark[r].custody THEN "reread" ELSE "seal",
                      t |-> pass[p].t, left |-> pass[p].left \ {r},
                      batch |-> pass[p].batch, r |-> r, seen |-> bookmark[r],
                      original |-> original])
        PROVE  \E s \in PassType : Go(p, s) /\ s.pc \in Reviewing /\ s.t = pass[p].t
    <3>1. r \in Records /\ bookmark[r] \in BookmarkType
      BY <1>1 DEF Inv, TypeOK
    <3>2. [pc |-> IF original = bookmark[r].custody THEN "reread" ELSE "seal",
           t |-> pass[p].t, left |-> pass[p].left \ {r},
           batch |-> pass[p].batch, r |-> r, seen |-> bookmark[r],
           original |-> original] \in PassType
      BY <1>1, <3>1 DEF PassType
    <3> QED BY <2>2, <3>2 DEF Reviewing
  <2> QED BY <1>2, <2>1, <2>2 DEF Originals
<1>4. pass[p].pc \in Reviewing
  BY <1>1 DEF Reviewing
<1>5. UNCHANGED <<bookmark, item, phase, provider, answers, target>>
  BY DEF ReviewRead
<1> QED BY <1>3, <1>4, <1>5, ReviewGoesOn, CalmMove

LEMMA ReviewRereadInv ==
  ASSUME Inv, NEW p \in Passes, ReviewReread(p)
  PROVE  PassesSound' /\ ReviewedAlone' /\ DataInv' /\ Grows
<1>1. pass[p] \in [pc : {"seal", "reread"}, t : Transfers, left : SUBSET Records,
                   batch : SUBSET Reviewed, r : Records, seen : BookmarkType, original : Originals]
  BY PassShape DEF Inv, TypeOK, ReviewReread
<1> DEFINE r == pass[p].r
           reviewed == [r |-> r, rev |-> Canonical(pass[p].seen),
                        stamp |-> bookmark[r].stamp, original |-> pass[p].original]
           next == [pc |-> "review", t |-> pass[p].t, left |-> pass[p].left,
                    batch |-> IF bookmark[r].held = "present"
                              THEN pass[p].batch \cup {reviewed} ELSE pass[p].batch]
<1>2. reviewed \in Reviewed
  <2>1. Canonical(pass[p].seen) \in Nat
    BY <1>1, CanonicalType
  <2> QED BY <1>1, <2>1 DEF Inv, TypeOK, BookmarkType, Reviewed
<1>3. next \in PassType
  BY <1>1, <1>2 DEF PassType
<1>4. Go(p, next) /\ UNCHANGED <<bookmark, item, phase, provider, answers, target>>
  BY DEF ReviewReread
<1>5. pass[p].pc \in Reviewing /\ next.pc \in Reviewing /\ next.t = pass[p].t
  BY <1>1 DEF Reviewing
<1> HIDE DEF next
<1> QED BY <1>3, <1>4, <1>5, ReviewGoesOn, CalmMove

LEMMA IdleInv ==
  ASSUME Inv, NEW p \in Passes,
         ReviewEmpty(p) \/ Reconciled(p) \/ Corrupt(p) \/ TransportFails(p)
  PROVE  PassesSound' /\ ReviewedAlone' /\ DataInv' /\ Grows
<1>1. Go(p, IdlePass) /\ UNCHANGED <<bookmark, item, phase, provider, answers, target>>
  BY DEF ReviewEmpty, Reconciled, Corrupt, TransportFails
<1> QED BY <1>1, IdleSound, CalmMove

LEMMA ResumeInv ==
  ASSUME Inv, NEW p \in Passes, NEW t \in Transfers,
         Resume(p, t) \/ \E unlocked \in BOOLEAN : Status(p, t, unlocked)
  PROVE  PassesSound' /\ ReviewedAlone' /\ DataInv' /\ Grows
<1>1. PICK s \in PassType : Go(p, s) /\ s.pc \in {"publish", "list"} /\ s.t = t
  <2>1. CASE Resume(p, t)
    <3>1. [pc |-> "publish", t |-> t, resumed |-> TRUE, left |-> Pending(t)] \in PassType
      BY DEF PassType, Pending
    <3> QED BY <2>1, <3>1 DEF Resume
  <2>2. ASSUME NEW unlocked \in BOOLEAN, Status(p, t, unlocked)
        PROVE  \E s \in PassType : Go(p, s) /\ s.pc \in {"publish", "list"} /\ s.t = t
    <3>1. [pc |-> "list", t |-> t, unlocked |-> unlocked] \in PassType
      BY DEF PassType
    <3> QED BY <2>2, <3>1 DEF Status
  <2> QED BY <2>1, <2>2
<1>2. phase[t] # "none" /\ UNCHANGED <<bookmark, item, phase, provider, answers, target>>
  BY DEF Resume, Status
<1>3. s.pc \notin Reviewing /\ PassSound(s, item, phase, answers)
  BY <1>1, <1>2 DEF PassSound, Reviewing
<1> QED BY <1>1, <1>2, <1>3, CalmMove

LEMMA PublishInv ==
  ASSUME Inv, NEW p \in Passes, Published(p) \/ MarkDelivered(p)
  PROVE  PassesSound' /\ ReviewedAlone' /\ DataInv' /\ Grows
<1>1. pass[p] \in PassType /\ pass[p].pc \in {"publish", "deliver"}
  BY DEF Inv, TypeOK, Published, MarkDelivered
<1>2. PICK s \in PassType :
        /\ Go(p, s)
        /\ s.pc = "idle" \/ (s.pc \in {"publish", "list"} /\ s.t = pass[p].t)
  <2>1. CASE Published(p)
    <3>1. pass[p] \in [pc : {"publish"}, t : Transfers, resumed : BOOLEAN, left : SUBSET Messages]
      BY <1>1, <2>1, PassShape DEF Published
    <3>2. /\ [pc |-> "list", t |-> pass[p].t, unlocked |-> TRUE] \in PassType
          /\ IdlePass \in PassType
      BY <3>1 DEF PassType, IdlePass
    <3> QED BY <2>1, <3>2 DEF Published, IdlePass
  <2>2. CASE MarkDelivered(p)
    <3>1. pass[p] \in [pc : {"deliver"}, t : Transfers, resumed : BOOLEAN, left : SUBSET Messages, m : Messages]
      BY <1>1, <2>2, PassShape DEF MarkDelivered
    <3>2. [pc |-> "publish", t |-> pass[p].t, resumed |-> pass[p].resumed, left |-> pass[p].left] \in PassType
      BY <3>1 DEF PassType
    <3> QED BY <2>2, <3>2 DEF MarkDelivered
  <2> QED BY <2>1, <2>2
<1>3. UNCHANGED <<bookmark, item, phase, provider, answers, target>>
  BY DEF Published, MarkDelivered
<1>4. PassSound(pass[p], item, phase, answers)
  BY DEF Inv, PassesSound
<1>5. s.pc \notin Reviewing /\ PassSound(s, item, phase, answers)
  BY <1>1, <1>2, <1>4 DEF PassSound, Reviewing
<1> QED BY <1>2, <1>3, <1>5, CalmMove

LEMMA UploadInv ==
  ASSUME Inv, NEW p \in Passes, Upload(p)
  PROVE  PassesSound' /\ ReviewedAlone' /\ DataInv' /\ Grows
<1>1. pass[p] \in [pc : {"publish"}, t : Transfers, resumed : BOOLEAN, left : SUBSET Messages]
  BY PassShape DEF Inv, TypeOK, Upload
<1>2. PICK m \in pass[p].left :
        /\ provider' = provider \cup {<<pass[p].t, m>>}
        /\ Go(p, [pc |-> "deliver", t |-> pass[p].t, resumed |-> pass[p].resumed,
                  left |-> pass[p].left \ {m}, m |-> m])
  BY DEF Upload
<1> DEFINE s == [pc |-> "deliver", t |-> pass[p].t, resumed |-> pass[p].resumed,
                 left |-> pass[p].left \ {m}, m |-> m]
<1>3. s \in PassType
  BY <1>1 DEF PassType
<1>4. UNCHANGED <<bookmark, item, phase, answers, target>>
  BY DEF Upload
<1>5. PassSound(pass[p], item, phase, answers)
  BY DEF Inv, PassesSound
<1>6. phase[pass[p].t] # "none"
  BY <1>1, <1>5 DEF PassSound, Reviewing
<1>7. s.pc \notin Reviewing /\ PassSound(s, item', phase', answers')
  BY <1>4, <1>6 DEF PassSound, Reviewing
<1>8. Grows /\ SamePhases
  BY <1>4 DEF Grows, SamePhases
<1>9. DataInv'
  <2>1. UnstartedIsEmpty'
    BY <1>2, <1>4, <1>6 DEF Inv, DataInv, UnstartedIsEmpty
  <2> QED BY <1>4, <2>1 DEF Inv, DataInv, AcceptanceIsKept, AcknowledgedIsProved, MovedIsJustified
<1> HIDE DEF s
<1> QED BY <1>2, <1>3, <1>7, <1>8, <1>9, PassesKept DEF Inv, s

LEMMA ListAnswersInv ==
  ASSUME Inv, NEW p \in Passes, ListAnswers(p)
  PROVE  PassesSound' /\ ReviewedAlone' /\ DataInv' /\ Grows
<1>1. pass[p] \in [pc : {"list"}, t : Transfers, unlocked : BOOLEAN]
  BY PassShape DEF Inv, TypeOK, ListAnswers
<1> DEFINE s == [pc |-> "apply", t |-> pass[p].t, unlocked |-> pass[p].unlocked,
                 left |-> {a \in answers : a.t = pass[p].t}]
<1>2. s \in PassType
  BY <1>1 DEF PassType, Inv, TypeOK
<1>3. PassSound(pass[p], item, phase, answers)
  BY DEF Inv, PassesSound
<1>4. s.pc \notin Reviewing /\ PassSound(s, item, phase, answers)
  BY <1>1, <1>3 DEF PassSound, Reviewing
<1>5. Go(p, s) /\ UNCHANGED <<bookmark, item, phase, provider, answers, target>>
  BY DEF ListAnswers
<1> HIDE DEF s
<1> QED BY <1>2, <1>4, <1>5, CalmMove

LEMMA PendingFinalizationInv ==
  ASSUME Inv, NEW p \in Passes, PendingFinalization(p)
  PROVE  PassesSound' /\ ReviewedAlone' /\ DataInv' /\ Grows
<1>1. pass[p] \in [pc : {"apply"}, t : Transfers, unlocked : BOOLEAN, left : SUBSET Answers]
  BY PassShape DEF Inv, TypeOK, PendingFinalization
<1> DEFINE s == [pc |-> "finalize", t |-> pass[p].t,
                 left |-> {r \in Records : Finalizable(item[pass[p].t][r])}]
<1>2. s \in PassType
  BY <1>1 DEF PassType
<1>3. PassSound(pass[p], item, phase, answers)
  BY DEF Inv, PassesSound
<1>4. s.pc \notin Reviewing /\ PassSound(s, item, phase, answers)
  BY <1>1, <1>3 DEF PassSound, Reviewing, Finalizable, Removable
<1>5. Go(p, s) \/ Go(p, IdlePass)
  BY DEF PendingFinalization
<1>6. UNCHANGED <<bookmark, item, phase, provider, answers, target>>
  BY DEF PendingFinalization
<1> HIDE DEF s
<1> QED BY <1>2, <1>4, <1>5, <1>6, IdleSound, CalmMove

LEMMA FinalizerReadInv ==
  ASSUME Inv, NEW p \in Passes, FinalizerRead(p) \/ FinalizerFails(p)
  PROVE  PassesSound' /\ ReviewedAlone' /\ DataInv' /\ Grows
<1>1. pass[p] \in PassType /\ pass[p].pc \in {"read", "delete"}
  BY DEF Inv, TypeOK, FinalizerRead, FinalizerFails
<1>2. pass[p].t \in Transfers /\ pass[p].left \in SUBSET Records /\ pass[p].r \in Records
  BY <1>1, PassFields
<1>3. bookmark[pass[p].r].stamp \in Nat
  BY <1>2 DEF Inv, TypeOK, BookmarkType
<1>4. PICK s \in PassType :
        /\ Go(p, s)
        /\ s.pc \in {"delete", "mark"}
        /\ s.t = pass[p].t /\ s.left = pass[p].left /\ s.r = pass[p].r
  <2>1. [pc |-> "delete", t |-> pass[p].t, left |-> pass[p].left, r |-> pass[p].r,
         seen |-> bookmark[pass[p].r].stamp] \in PassType
    BY <1>2, <1>3 DEF PassType
  <2>2. \A removed \in BOOLEAN :
          [pc |-> "mark", t |-> pass[p].t, left |-> pass[p].left, r |-> pass[p].r,
           removed |-> removed] \in PassType
    BY <1>2 DEF PassType
  <2> QED BY <2>1, <2>2 DEF FinalizerRead, FinalizerFails
<1>5. UNCHANGED <<bookmark, item, phase, provider, answers, target>>
  BY DEF FinalizerRead, FinalizerFails
<1>6. PassSound(pass[p], item, phase, answers)
  BY DEF Inv, PassesSound
<1>7. s.pc \notin Reviewing /\ PassSound(s, item, phase, answers)
  BY <1>1, <1>4, <1>6 DEF PassSound, Reviewing
<1> QED BY <1>4, <1>5, <1>7, CalmMove

-----------------------------------------------------------------------------
(* Stored data                                                             *)

\* No step but the finalizer's adds a removed bookmark or touches its updatedAt.
LEMMA MovedKept ==
  ASSUME MovedIsJustified, Grows,
         \A r \in Records : bookmark'[r].held = "moved" =>
           bookmark[r].held = "moved" /\ bookmark'[r].stamp = bookmark[r].stamp
  PROVE  MovedIsJustified'
BY DEF MovedIsJustified, Grows

LEMMA PhaseForStarted ==
  ASSUME NEW items
  PROVE  PhaseFor(items) # "none"
BY DEF PhaseFor

LEMMA ApplyInv ==
  ASSUME Inv, NEW p \in Passes, Apply(p)
  PROVE  PassesSound' /\ ReviewedAlone' /\ DataInv' /\ Grows
<1>1. pass[p] \in [pc : {"apply"}, t : Transfers, unlocked : BOOLEAN, left : SUBSET Answers]
  BY PassShape DEF Inv, TypeOK, Apply
<1>2. PICK a \in pass[p].left :
        /\ Verified(a)
        /\ \/ UNCHANGED <<item, phase, receipts>>
           \/ LET items == [item[a.t] EXCEPT ![a.r] = Answered(@, a)]
              IN  /\ item' = [item EXCEPT ![a.t] = items]
                  /\ phase' = [phase EXCEPT ![a.t] = PhaseFor(items)]
        /\ Go(p, [pass[p] EXCEPT !.left = @ \ {a}])
  BY DEF Apply
<1> DEFINE s == [pass[p] EXCEPT !.left = @ \ {a}]
<1>3. a \in Answers /\ a.t \in Transfers /\ a.r \in Records
  BY <1>1 DEF Answers
<1>4. PassSound(pass[p], item, phase, answers)
  BY DEF Inv, PassesSound
<1>5. a \in answers /\ phase[a.t] # "none"
  BY <1>1, <1>3, <1>4 DEF PassSound, Inv, DataInv, UnstartedIsEmpty
<1>6. s \in PassType /\ s.pc = "apply" /\ s.t = pass[p].t /\ s.left \subseteq pass[p].left
  BY <1>1 DEF PassType
<1>7. UNCHANGED <<bookmark, provider, answers, target>>
  BY DEF Apply
<1>8. \A t \in Transfers, r \in Records :
        item'[t][r] = item[t][r] \/ (t = a.t /\ r = a.r /\ item'[t][r] = Answered(item[t][r], a))
  BY <1>2, <1>3 DEF Inv, TypeOK
<1>9. SamePhases
  BY <1>2, <1>3, <1>5, PhaseForStarted DEF SamePhases, Inv, TypeOK
<1>10. Grows
  BY <1>7, <1>8 DEF Grows, Answered
<1>11. s.pc \notin Reviewing /\ PassSound(s, item', phase', answers')
  <2>1. phase'[s.t] # "none"
    BY <1>1, <1>4, <1>6, <1>9 DEF PassSound, Reviewing, SamePhases
  <2> QED BY <1>1, <1>4, <1>6, <1>7, <2>1 DEF PassSound, Reviewing
<1>12. UnstartedIsEmpty'
  BY <1>3, <1>5, <1>7, <1>8, <1>9 DEF Inv, DataInv, UnstartedIsEmpty, SamePhases
<1>13. AcknowledgedIsProved'
  <2> SUFFICES ASSUME NEW t \in Transfers, NEW r \in Records, item'[t][r].ack
               PROVE  <<t, r>> \in target /\ Proved(item'[t][r])
    BY <1>7 DEF AcknowledgedIsProved
  <2>1. CASE item[t][r].ack
    <3>1. item'[t][r] = item[t][r]
      BY <1>8, <2>1 DEF Answered
    <3> QED BY <2>1, <3>1 DEF Inv, DataInv, AcknowledgedIsProved
  <2>2. CASE ~item[t][r].ack
    <3>1. t = a.t /\ r = a.r /\ item'[t][r] = Answered(item[t][r], a)
      BY <1>8, <2>2
    <3>2. item[t][r] \in ItemType
      BY DEF Inv, TypeOK
    <3>3. a.status # "rejected" /\ item'[t][r] = Accepted(item[t][r])
      BY <2>2, <3>1, <3>2 DEF Answered, Rejected, ItemType
    <3>4. a.status = "accepted"
      BY <1>2, <1>3, <3>3 DEF Verified, Answers
    <3>5. <<t, r>> \in target
      BY <1>5, <3>1, <3>4 DEF Inv, DataInv, AcceptanceIsKept
    <3>6. Proved(item'[t][r])
      BY <3>2, <3>3 DEF Accepted, Proved, ItemType
    <3> QED BY <3>5, <3>6
  <2> QED BY <2>1, <2>2
<1>14. DataInv'
  BY <1>7, <1>10, <1>12, <1>13, MovedKept DEF Inv, DataInv, AcceptanceIsKept
<1> HIDE DEF s
<1>15. Go(p, s)
  BY <1>2 DEF s
<1> QED BY <1>6, <1>9, <1>10, <1>11, <1>14, <1>15, PassesKept DEF Inv

LEMMA ItemPutFields ==
  ASSUME NEW i \in ItemType, NEW state \in ItemStates, NEW fin \in BOOLEAN
  PROVE  LET j == [[i EXCEPT !.state = state] EXCEPT !.fin = fin]
         IN  /\ j.state = state /\ j.ack = i.ack /\ j.verification = i.verification
             /\ j.stamp = i.stamp /\ j.original = i.original
BY DEF ItemType

LEMMA UpdateFinalizationInv ==
  ASSUME Inv, NEW t \in Transfers, NEW r \in Records,
         NEW state \in {"finalizing", "finalized", "failed"},
         UpdateFinalization(t, r, state),
         UNCHANGED <<bookmark, provider, answers, target>>
  PROVE  Grows /\ SamePhases /\ DataInv'
<1> DEFINE items == [item[t] EXCEPT ![r].state = state, ![r].fin = (state = "finalized")]
           done == (state = "finalized")
           put == [[item[t][r] EXCEPT !.state = state] EXCEPT !.fin = done]
<1>1. items = [item[t] EXCEPT ![r] = put]
  BY Zenon DEF Inv, TypeOK
<1>2. /\ put.state = state /\ put.ack = item[t][r].ack
      /\ put.verification = item[t][r].verification
      /\ put.stamp = item[t][r].stamp /\ put.original = item[t][r].original
  <2>1. item[t][r] \in ItemType
    BY DEF Inv, TypeOK
  <2>2. done \in BOOLEAN /\ state \in ItemStates
    BY DEF ItemStates
  <2> QED BY <2>1, <2>2, ItemPutFields
<1>3. /\ item[t][r].ack
      /\ item' = [item EXCEPT ![t] = items]
      /\ phase' = [phase EXCEPT ![t] = PhaseFor(items)]
  BY DEF UpdateFinalization
<1> HIDE DEF put, items, done
<1>4. \A x \in Transfers, y \in Records :
        item'[x][y] = IF x = t /\ y = r THEN put ELSE item[x][y]
  BY <1>1, <1>3 DEF Inv, TypeOK
<1>5. phase[t] # "none"
  BY <1>3 DEF Inv, DataInv, UnstartedIsEmpty
<1>6. Grows
  BY <1>2, <1>4 DEF Grows
<1>7. SamePhases
  BY <1>3, <1>5, PhaseForStarted DEF SamePhases, Inv, TypeOK
<1>8. UnstartedIsEmpty'
  BY <1>4, <1>5, <1>7 DEF Inv, DataInv, UnstartedIsEmpty, SamePhases
<1>9. AcknowledgedIsProved'
  BY <1>2, <1>3, <1>4 DEF Inv, DataInv, AcknowledgedIsProved, Proved
<1> QED BY <1>6, <1>7, <1>8, <1>9, MovedKept DEF Inv, DataInv, AcceptanceIsKept

LEMMA FinalizingInv ==
  ASSUME Inv, NEW p \in Passes, MarkFinalizing(p) \/ MarkOutcome(p)
  PROVE  PassesSound' /\ ReviewedAlone' /\ DataInv' /\ Grows
<1>1. pass[p] \in PassType /\ pass[p].pc \in {"finalize", "mark"}
  BY DEF Inv, TypeOK, MarkFinalizing, MarkOutcome
<1>2. PassSound(pass[p], item, phase, answers)
  BY DEF Inv, PassesSound
<1>3. pass[p].t \in Transfers /\ pass[p].left \in SUBSET Records
  BY <1>1, PassFields
<1>4. PICK r \in Records, state \in {"finalizing", "finalized", "failed"}, s \in PassType :
        /\ UpdateFinalization(pass[p].t, r, state)
        /\ Go(p, s)
        /\ s.pc \in {"finalize", "read"}
        /\ s.t = pass[p].t /\ s.left \subseteq pass[p].left
        /\ s.pc = "read" => s.r \in pass[p].left
  <2>1. CASE MarkFinalizing(p)
    <3>1. PICK r \in pass[p].left :
            /\ UpdateFinalization(pass[p].t, r, "finalizing")
            /\ Go(p, [pc |-> "read", t |-> pass[p].t, left |-> pass[p].left \ {r}, r |-> r])
      BY <2>1 DEF MarkFinalizing
    <3>2. [pc |-> "read", t |-> pass[p].t, left |-> pass[p].left \ {r}, r |-> r] \in PassType
      BY <1>3, <3>1 DEF PassType
    <3> QED BY <1>3, <3>1, <3>2
  <2>2. CASE MarkOutcome(p)
    <3>1. pass[p].r \in Records
      BY <1>1, <2>2, PassFields DEF MarkOutcome
    <3>2. [pc |-> "finalize", t |-> pass[p].t, left |-> pass[p].left] \in PassType
      BY <1>3 DEF PassType
    <3> QED BY <2>2, <3>1, <3>2 DEF MarkOutcome
  <2> QED BY <2>1, <2>2
<1>5. UNCHANGED <<bookmark, provider, answers, target>>
  BY DEF MarkFinalizing, MarkOutcome
<1>6. Grows /\ SamePhases /\ DataInv'
  BY <1>3, <1>4, <1>5, UpdateFinalizationInv
<1>7. s.pc \notin Reviewing /\ PassSound(s, item', phase', answers')
  <2>1. phase'[s.t] # "none"
    BY <1>1, <1>2, <1>3, <1>4, <1>6 DEF PassSound, Reviewing, SamePhases
  <2>2. \A r1 \in pass[p].left : Removable(item[s.t][r1])
    BY <1>1, <1>2, <1>4 DEF PassSound
  <2>3. \A r1 \in pass[p].left : Removable(item'[s.t][r1])
    BY <1>3, <1>4, <1>6, <2>2 DEF Removable, Grows
  <2> QED BY <1>4, <2>1, <2>3 DEF PassSound, Reviewing
<1> QED BY <1>4, <1>6, <1>7, PassesKept DEF Inv

\* The only step that adds a removed bookmark: it has just compared it with an
\* acknowledged item whose original did not travel as metadata only.
LEMMA FinalizerDeleteInv ==
  ASSUME Inv, NEW p \in Passes, FinalizerDelete(p)
  PROVE  PassesSound' /\ ReviewedAlone' /\ DataInv' /\ Grows
<1>1. pass[p] \in [pc : {"delete"}, t : Transfers, left : SUBSET Records, r : Records, seen : Nat]
  BY PassShape DEF Inv, TypeOK, FinalizerDelete
<1> DEFINE r == pass[p].r
           t == pass[p].t
           removes == Unchanged(r, pass[p].seen, item[t][r].stamp)
           s == [pc |-> "mark", t |-> t, left |-> pass[p].left, r |-> r, removed |-> removes]
<1>2. s \in PassType
  <2>1. removes \in BOOLEAN
    BY DEF Unchanged
  <2> QED BY <1>1, <2>1 DEF PassType
<1>3. PassSound(pass[p], item, phase, answers)
  BY DEF Inv, PassesSound
<1>4. UNCHANGED <<item, phase, provider, answers, target>>
  BY DEF FinalizerDelete
<1>5. s.pc \notin Reviewing /\ PassSound(s, item', phase', answers')
  BY <1>1, <1>3, <1>4 DEF PassSound, Reviewing
<1>6. Grows /\ SamePhases
  BY <1>4 DEF Grows, SamePhases
<1>7. MovedIsJustified'
  <2>1. bookmark' = IF removes THEN [bookmark EXCEPT ![r].held = "moved"] ELSE bookmark
    BY DEF FinalizerDelete
  <2>2. CASE removes
    <3>1. item[t][r].ack /\ item[t][r].verification # "metadata-only"
      BY <1>1, <1>3 DEF PassSound, Removable
    <3>2. item[t][r].original # "metadata-only"
      BY <1>1, <3>1 DEF Inv, DataInv, AcknowledgedIsProved, Proved, ExpectedVerification
    <3>3. bookmark[r].stamp = item[t][r].stamp
      BY <2>2 DEF Unchanged
    <3>4. bookmark[r] \in BookmarkType
      BY <1>1 DEF Inv, TypeOK
    <3>5. \A q \in Records :
            /\ q # r => bookmark'[q] = bookmark[q]
            /\ bookmark'[q].stamp = bookmark[q].stamp
      BY <1>1, <2>1, <2>2, <3>4 DEF Inv, TypeOK, BookmarkType
    <3> HIDE DEF removes, r, t
    <3>6. ASSUME NEW q \in Records, bookmark'[q].held = "moved"
          PROVE  \E x \in Transfers :
                   /\ item[x][q].ack
                   /\ item[x][q].stamp = bookmark'[q].stamp
                   /\ item[x][q].original # "metadata-only"
      <4>1. CASE q = r
        BY <1>1, <3>1, <3>2, <3>3, <3>5, <4>1 DEF t, r
      <4>2. CASE q # r
        BY <3>5, <3>6, <4>2 DEF Inv, DataInv, MovedIsJustified
      <4> QED BY <4>1, <4>2
    <3> QED BY <1>4, <3>6 DEF MovedIsJustified
  <2>3. CASE ~removes
    BY <1>4, <2>1, <2>3 DEF Inv, DataInv, MovedIsJustified
  <2> QED BY <2>2, <2>3
<1>8. DataInv'
  BY <1>4, <1>7 DEF Inv, DataInv, UnstartedIsEmpty, AcceptanceIsKept, AcknowledgedIsProved
<1>9. Go(p, s)
  BY DEF FinalizerDelete
<1> HIDE DEF s
<1> QED BY <1>2, <1>5, <1>6, <1>8, <1>9, PassesKept DEF Inv

LEMMA ReviewSealInv ==
  ASSUME Inv, NEW p \in Passes, ReviewSeal(p)
  PROVE  PassesSound' /\ ReviewedAlone' /\ DataInv' /\ Grows
<1>1. pass[p] \in [pc : {"seal", "reread"}, t : Transfers, left : SUBSET Records,
                   batch : SUBSET Reviewed, r : Records, seen : BookmarkType, original : Originals]
  BY PassShape DEF Inv, TypeOK, ReviewSeal
<1> DEFINE s == [pass[p] EXCEPT !.pc = "reread"]
<1>2. s \in PassType /\ s.pc = "reread" /\ s.t = pass[p].t
  BY <1>1 DEF PassType
<1>3. Go(p, s) /\ UNCHANGED <<item, phase, provider, answers, target>>
  BY DEF ReviewSeal
<1> HIDE DEF s
<1>4. /\ PassSound(s, item', phase', answers')
      /\ \A q \in Passes \ {p} : pass[q].pc # "idle" => pass[q].t # s.t
  BY <1>1, <1>2, <1>3, ReviewGoesOn DEF Reviewing
<1>5. Grows /\ SamePhases
  BY <1>3 DEF Grows, SamePhases
<1>6. \A r \in Records : bookmark'[r].held = "moved" => bookmark'[r] = bookmark[r]
  BY <1>1 DEF ReviewSeal, Inv, TypeOK
<1>7. DataInv'
  BY <1>3, <1>5, <1>6, MovedKept
     DEF Inv, DataInv, UnstartedIsEmpty, AcceptanceIsKept, AcknowledgedIsProved
<1> QED BY <1>2, <1>3, <1>4, <1>5, <1>7, PassesKept DEF Inv

\* The batch lands in a transfer nobody else works on, so it overwrites nothing.
LEMMA QueueBatchInv ==
  ASSUME Inv, NEW p \in Passes, QueueBatch(p)
  PROVE  PassesSound' /\ ReviewedAlone' /\ DataInv' /\ Grows
<1>1. pass[p] \in [pc : {"review"}, t : Transfers, left : SUBSET Records, batch : SUBSET Reviewed]
  BY PassShape DEF Inv, TypeOK, QueueBatch
<1> DEFINE t == pass[p].t
           batch == pass[p].batch
           rows == UNION {MessagesOf(b.r, b.original) : b \in batch}
           queued == [r \in Records |->
                       IF \E b \in batch : b.r = r
                       THEN LET b == CHOOSE x \in batch : x.r = r
                            IN  [state |-> "queued", ack |-> FALSE, fin |-> FALSE,
                                 stamp |-> b.stamp, rev |-> b.rev,
                                 original |-> b.original, verification |-> "pending"]
                       ELSE NoItem]
           s == [pc |-> "publish", t |-> t, resumed |-> FALSE, left |-> rows]
<1>2. /\ item' = [item EXCEPT ![t] = queued]
      /\ phase' = [phase EXCEPT ![t] = "awaiting-acknowledgement"]
      /\ Go(p, s)
      /\ UNCHANGED <<bookmark, provider, answers, target>>
  BY DEF QueueBatch
<1>3. \A r \in Records : ~queued[r].ack
  BY DEF NoItem
<1>4. s.pc = "publish" /\ s.t = t /\ t \in Transfers
  BY <1>1
<1> HIDE DEF queued, s, t
<1>5. /\ \A x \in Transfers \ {t} : item'[x] = item[x] /\ phase'[x] = phase[x]
      /\ item'[t] = queued /\ phase'[t] = "awaiting-acknowledgement"
  BY <1>2, <1>4 DEF Inv, TypeOK
<1>6. phase[t] = "none"
  <2>1. PassSound(pass[p], item, phase, answers)
    BY DEF Inv, PassesSound
  <2> QED BY <1>1, <2>1 DEF PassSound, Reviewing, t
<1>7. \A q \in Passes \ {p} : pass[q].pc # "idle" => pass[q].t # t
  BY <1>1 DEF Inv, ReviewedAlone, Reviewing, t
<1>8. Grows
  BY <1>2, <1>5, <1>6 DEF Grows, Inv, DataInv, UnstartedIsEmpty
<1>9. \A q \in Passes : pass'[q] = IF q = p THEN s ELSE pass[q]
  BY <1>2 DEF Go, Inv, TypeOK
<1>10. ASSUME NEW q \in Passes
       PROVE  PassSound(pass'[q], item', phase', answers')
  <2>1. CASE q = p
    BY <1>4, <1>5, <1>9, <2>1 DEF PassSound, Reviewing
  <2>2. CASE q # p
    <3>1. pass[q] \in PassType /\ PassSound(pass[q], item, phase, answers)
      BY DEF Inv, TypeOK, PassesSound
    <3>2. pass[q].pc # "idle" => (phase[pass[q].t] = "none" <=> phase'[pass[q].t] = "none")
      BY <1>5, <1>7, <2>2, <3>1, PassFields
    <3>3. PassSound(pass[q], item', phase', answers')
      BY <1>8, <3>1, <3>2, PassKept
    <3> QED BY <1>9, <2>2, <3>3
  <2> QED BY <2>1, <2>2
<1>11. ReviewedAlone'
  BY <1>4, <1>7, <1>9 DEF Inv, ReviewedAlone, Reviewing
<1>12. UnstartedIsEmpty'
  BY <1>2, <1>4, <1>5 DEF Inv, DataInv, UnstartedIsEmpty
<1>13. AcknowledgedIsProved'
  BY <1>2, <1>3, <1>4, <1>5 DEF Inv, DataInv, AcknowledgedIsProved
<1>14. DataInv'
  BY <1>2, <1>8, <1>12, <1>13, MovedKept DEF Inv, DataInv, AcceptanceIsKept
<1> QED BY <1>8, <1>10, <1>11, <1>14 DEF PassesSound

-----------------------------------------------------------------------------
(* The environment                                                         *)

\* A step during which no call in flight moves.
LEMMA PassesStay ==
  ASSUME Inv, Grows, SamePhases, pass' = pass
  PROVE  PassesSound' /\ ReviewedAlone'
<1>1. ASSUME NEW q \in Passes
      PROVE  PassSound(pass[q], item', phase', answers')
  <2>1. pass[q] \in PassType /\ PassSound(pass[q], item, phase, answers)
    BY DEF Inv, TypeOK, PassesSound
  <2> QED BY <2>1, PassFields, PassKept DEF SamePhases
<1> QED BY <1>1 DEF Inv, PassesSound, ReviewedAlone

LEMMA EnvironmentInv ==
  ASSUME Inv,
         \/ WorkerStops
         \/ \E r \in Records : SaveRead(r) \/ Delete(r)
         \/ SavePut
         \/ \E t \in Transfers, r \in Records, status \in TargetAnswers : TargetAnswer(t, r, status)
  PROVE  PassesSound' /\ ReviewedAlone' /\ DataInv' /\ Grows
<1>1. CASE WorkerStops
  <2>1. UNCHANGED <<bookmark, item, phase, provider, answers, target>>
    BY <1>1 DEF WorkerStops
  <2>2. \A q \in Passes : pass'[q] = IdlePass
    BY <1>1 DEF WorkerStops
  <2>3. PassesSound' /\ ReviewedAlone'
    BY <2>2 DEF PassesSound, ReviewedAlone, PassSound, IdlePass, Reviewing
  <2> QED BY <2>1, <2>3, CalmStep DEF Inv
<1>2. ASSUME SavePut \/ \E r \in Records : SaveRead(r) \/ Delete(r)
      PROVE  PassesSound' /\ ReviewedAlone' /\ DataInv' /\ Grows
  <2>1. UNCHANGED <<item, phase, provider, answers, target, pass>>
    BY <1>2 DEF SaveRead, SavePut, Delete
  <2>2. Grows /\ SamePhases
    BY <2>1 DEF Grows, SamePhases
  <2>3. \A q \in Records : bookmark'[q].held = "moved" => bookmark'[q] = bookmark[q]
    <3>1. CASE SavePut
      <4>1. save.r \in Records
        BY <3>1 DEF SavePut, SaveType, Inv, TypeOK
      <4> QED BY <3>1, <4>1 DEF SavePut, Inv, TypeOK
    <3>2. ASSUME NEW r \in Records, SaveRead(r) \/ Delete(r)
          PROVE  \A q \in Records : bookmark'[q].held = "moved" => bookmark'[q] = bookmark[q]
      BY <3>2 DEF SaveRead, Delete, Inv, TypeOK, BookmarkType
    <3> QED BY <1>2, <3>1, <3>2
  <2>4. DataInv'
    BY <2>1, <2>2, <2>3, MovedKept
       DEF Inv, DataInv, UnstartedIsEmpty, AcceptanceIsKept, AcknowledgedIsProved
  <2> QED BY <2>1, <2>2, <2>4, PassesStay
<1>3. ASSUME NEW t \in Transfers, NEW r \in Records, NEW status \in TargetAnswers,
             TargetAnswer(t, r, status)
      PROVE  PassesSound' /\ ReviewedAlone' /\ DataInv' /\ Grows
  <2>1. /\ UNCHANGED <<bookmark, item, phase, provider, pass>>
        /\ answers' = answers \cup {[t |-> t, r |-> r, status |-> status]}
        /\ target' = IF status = "accepted" THEN target \cup {<<t, r>>} ELSE target
        /\ <<t, <<r, "record">>>> \in provider
    BY <1>3 DEF TargetAnswer
  <2>2. Grows /\ SamePhases
    BY <2>1 DEF Grows, SamePhases
  <2>3. phase[t] # "none"
    BY <2>1 DEF Inv, DataInv, UnstartedIsEmpty, Messages
  <2>4. UnstartedIsEmpty'
    BY <2>1, <2>3 DEF Inv, DataInv, UnstartedIsEmpty
  <2>5. AcceptanceIsKept'
    BY <2>1 DEF Inv, DataInv, AcceptanceIsKept
  <2>6. AcknowledgedIsProved'
    BY <2>1 DEF Inv, DataInv, AcknowledgedIsProved
  <2>7. DataInv'
    BY <2>1, <2>2, <2>4, <2>5, <2>6, MovedKept DEF Inv, DataInv
  <2> QED BY <2>1, <2>2, <2>7, PassesStay
<1> QED BY <1>1, <1>2, <1>3

-----------------------------------------------------------------------------
THEOREM InvInit == Init => Inv
<1> SUFFICES ASSUME Init
             PROVE  Inv
  OBVIOUS
<1>1. TypeOK
  BY TypeInit
<1>2. PassesSound /\ ReviewedAlone
  BY DEF Init, PassesSound, ReviewedAlone, PassSound, IdlePass, Reviewing
<1>3. DataInv
  BY DEF Init, DataInv, UnstartedIsEmpty, AcceptanceIsKept, AcknowledgedIsProved,
         MovedIsJustified, NoItem
<1> QED BY <1>1, <1>2, <1>3 DEF Inv

LEMMA StepInv ==
  ASSUME Inv, NEW p \in Passes, Step(p)
  PROVE  PassesSound' /\ ReviewedAlone' /\ DataInv' /\ Grows
BY ReviewReadInv, ReviewSealInv, ReviewRereadInv, QueueBatchInv, IdleInv, UploadInv, PublishInv,
   ListAnswersInv, ApplyInv, PendingFinalizationInv, FinalizingInv, FinalizerReadInv,
   FinalizerDeleteInv DEF Step

LEMMA NextInv ==
  ASSUME Inv, [Next]_vars
  PROVE  PassesSound' /\ ReviewedAlone' /\ DataInv' /\ Grows
<1>1. CASE UNCHANGED vars
  BY <1>1, CalmStep DEF vars, Inv, PassesSound, ReviewedAlone
<1>2. CASE Next
  BY <1>2, StepInv, IdleInv, FinalizerReadInv, StartInv, ResumeInv, EnvironmentInv DEF Next
<1> QED BY <1>1, <1>2

THEOREM InvStep == Inv /\ [Next]_vars => Inv'
BY NextInv, TypeStep DEF Inv

\* The inductive invariant holds in every reachable state.
THEOREM Invariance == Spec => []Inv
BY InvInit, InvStep, PTL DEF Spec

\* However calls overlap, fail or are lost, a bookmark is only ever removed on
\* the account of a transfer that acknowledged it and whose target keeps it.
THEOREM CustodyBeforeRemoval == Spec => []RemovedHasCustody
<1>1. Inv => RemovedHasCustody
  BY DEF Inv, DataInv, MovedIsJustified, AcknowledgedIsProved, RemovedHasCustody
<1> QED BY <1>1, Invariance, PTL

\* A removed bookmark carries the updatedAt some acknowledged transfer reviewed.
THEOREM RemovalIsOfReviewed == Spec => []RemovedIsAsReviewed
<1>1. Inv => RemovedIsAsReviewed
  BY DEF Inv, DataInv, MovedIsJustified, RemovedIsAsReviewed
<1> QED BY <1>1, Invariance, PTL

\* Metadata-only custody never suffices for a removal.
THEOREM RemovalNeedsOriginal == Spec => []MetadataOnlyIsKept
<1>1. Inv => MetadataOnlyIsKept
  BY DEF Inv, DataInv, MovedIsJustified, MetadataOnlyIsKept
<1> QED BY <1>1, Invariance, PTL

-----------------------------------------------------------------------------
(* The refinement of MoveCustody                                           *)

LEMMA CustodyInit == Init => Custody!Init
BY DEF Init, Custody!Init, Kept

LEMMA CustodyStep ==
  ASSUME Inv, [Next]_vars
  PROVE  [Custody!Next]_<<[r \in Records |-> bookmark[r].held], Kept>>
<1> DEFINE home == [r \in Records |-> bookmark[r].held]
<1>1. ASSUME bookmark' = bookmark, target' = target
      PROVE  UNCHANGED <<home, Kept>>
  BY <1>1 DEF Kept
<1>2. ASSUME NEW p \in Passes, ReviewSeal(p)
      PROVE  Custody!Next \/ UNCHANGED <<home, Kept>>
  <2>1. PICK r \in Records : r = pass[p].r
    BY <1>2, PassShape DEF Inv, TypeOK, ReviewSeal
  <2>2. target' = target /\ Kept' = Kept
    BY <1>2 DEF ReviewSeal, Kept
  <2>3. home' = [home EXCEPT ![r] = "present"]
    BY <1>2, <2>1 DEF ReviewSeal, Inv, TypeOK
  <2>4. CASE home[r] = "present"
    BY <2>1, <2>2, <2>3, <2>4
  <2>5. CASE home[r] # "present"
    <3>1. Custody!PutBack(r)
      BY <2>2, <2>3, <2>5 DEF Custody!PutBack
    <3> QED BY <3>1 DEF Custody!Next
  <2> QED BY <2>4, <2>5
<1>3. ASSUME NEW p \in Passes, FinalizerDelete(p)
      PROVE  Custody!Next \/ UNCHANGED <<home, Kept>>
  <2>1. pass[p] \in [pc : {"delete"}, t : Transfers, left : SUBSET Records, r : Records, seen : Nat]
    BY <1>3, PassShape DEF Inv, TypeOK, FinalizerDelete
  <2>0. PICK r \in Records : r = pass[p].r
    BY <2>1
  <2>2. PassSound(pass[p], item, phase, answers)
    BY DEF Inv, PassesSound
  <2>3. r \in Kept
    <3>1. item[pass[p].t][r].ack
      BY <2>0, <2>1, <2>2 DEF PassSound, Removable
    <3> QED BY <2>1, <3>1 DEF Inv, DataInv, AcknowledgedIsProved, Kept
  <2>4. target' = target /\ Kept' = Kept
    BY <1>3 DEF FinalizerDelete, Kept
  <2>5. CASE bookmark' = bookmark
    BY <2>4, <2>5
  <2>6. CASE /\ Unchanged(r, pass[p].seen, item[pass[p].t][r].stamp)
             /\ bookmark' = [bookmark EXCEPT ![r].held = "moved"]
    <3>1. home[r] = "present"
      BY <2>1, <2>6 DEF Unchanged
    <3>2. bookmark[r] \in BookmarkType
      BY <2>1 DEF Inv, TypeOK
    <3>3. home' = [home EXCEPT ![r] = "moved"]
      BY <2>1, <2>6, <3>2 DEF Inv, TypeOK, BookmarkType
    <3>4. Custody!Release(r)
      BY <2>3, <2>4, <3>1, <3>3 DEF Custody!Release
    <3> QED BY <3>4 DEF Custody!Next
  <2> QED BY <1>3, <2>0, <2>5, <2>6 DEF FinalizerDelete
<1>4. ASSUME NEW r \in Records, Delete(r)
      PROVE  Custody!Next \/ UNCHANGED <<home, Kept>>
  <2>1. target' = target /\ Kept' = Kept
    BY <1>4 DEF Delete, Kept
  <2>2. bookmark[r] \in BookmarkType
    BY DEF Inv, TypeOK
  <2>3. home[r] = "present" /\ home' = [home EXCEPT ![r] = "deleted"]
    BY <1>4, <2>2 DEF Delete, Inv, TypeOK, BookmarkType
  <2>4. Custody!Discard(r)
    BY <2>1, <2>3 DEF Custody!Discard
  <2> QED BY <2>4 DEF Custody!Next
<1>10. ASSUME SavePut
       PROVE  Custody!Next \/ UNCHANGED <<home, Kept>>
  <2>1. PICK r \in Records : r = save.r
    BY <1>10 DEF SavePut, SaveType, Inv, TypeOK
  <2>2. target' = target /\ Kept' = Kept
    BY <1>10 DEF SavePut, Kept
  <2>3. home' = [home EXCEPT ![r] = "present"]
    BY <1>10, <2>1 DEF SavePut, Inv, TypeOK
  <2>4. CASE home[r] = "present"
    BY <2>1, <2>2, <2>3, <2>4
  <2>5. CASE home[r] # "present"
    <3>1. Custody!PutBack(r)
      BY <2>2, <2>3, <2>5 DEF Custody!PutBack
    <3> QED BY <3>1 DEF Custody!Next
  <2> QED BY <2>4, <2>5
<1>5. ASSUME NEW t \in Transfers, NEW r \in Records, NEW status \in TargetAnswers,
             TargetAnswer(t, r, status)
      PROVE  Custody!Next \/ UNCHANGED <<home, Kept>>
  <2>1. home' = home
    BY <1>5 DEF TargetAnswer
  <2>2. CASE status = "accepted"
    <3>1. target' = target \cup {<<t, r>>}
      BY <1>5, <2>2 DEF TargetAnswer
    <3>2. Kept' = Kept \cup {r}
      BY <3>1 DEF Kept
    <3>3. Custody!Keep(r)
      BY <2>1, <3>2 DEF Custody!Keep
    <3> QED BY <3>3 DEF Custody!Next
  <2>3. CASE status # "accepted"
    <3>1. target' = target /\ bookmark' = bookmark
      BY <1>5, <2>3 DEF TargetAnswer
    <3> QED BY <1>1, <3>1
  <2> QED BY <2>2, <2>3
<1>6. ASSUME UNCHANGED vars
      PROVE  UNCHANGED <<home, Kept>>
  BY <1>1, <1>6 DEF vars
<1>7. ASSUME NEW p \in Passes, Step(p)
      PROVE  Custody!Next \/ UNCHANGED <<home, Kept>>
  <2>1. ReviewSeal(p) \/ FinalizerDelete(p) \/ (bookmark' = bookmark /\ target' = target)
    BY <1>7 DEF Step, ReviewRead, ReviewReread, QueueBatch, ReviewEmpty, Upload, MarkDelivered,
       Published, ListAnswers, Apply, Corrupt, PendingFinalization, MarkFinalizing,
       FinalizerRead, MarkOutcome, Reconciled
  <2> QED BY <1>1, <1>2, <1>3, <2>1
<1>8. ASSUME \/ \E p \in Passes : TransportFails(p) \/ FinalizerFails(p)
             \/ \E p \in Passes, t \in Transfers, selection \in SUBSET Records : Start(p, t, selection)
             \/ \E p \in Passes, t \in Transfers : Resume(p, t)
             \/ \E p \in Passes, t \in Transfers, unlocked \in BOOLEAN : Status(p, t, unlocked)
             \/ WorkerStops
             \/ \E r \in Records : SaveRead(r)
      PROVE  UNCHANGED <<home, Kept>>
  <2>1. bookmark' = bookmark /\ target' = target
    BY <1>8 DEF TransportFails, FinalizerFails, Start, Resume, Status, WorkerStops, SaveRead
  <2> QED BY <1>1, <2>1
<1> HIDE DEF home
<1>9. Custody!Next \/ UNCHANGED <<home, Kept>>
  <2>1. CASE UNCHANGED vars
    BY <1>6, <2>1
  <2>2. CASE Next
    <3>1. CASE \E p \in Passes : Step(p)
      BY <1>7, <3>1
    <3>2. CASE SavePut \/ \E r \in Records : Delete(r)
      BY <1>4, <1>10, <3>2
    <3>3. CASE \E t \in Transfers, r \in Records, status \in TargetAnswers : TargetAnswer(t, r, status)
      BY <1>5, <3>3
    <3> QED BY <1>8, <2>2, <3>1, <3>2, <3>3 DEF Next
  <2> QED BY <2>1, <2>2
<1> QED BY <1>9 DEF home

\* The source side implements MoveCustody, for any number of transfers, records
\* and overlapping calls.
THEOREM SourceImplementsCustody == Spec => ImplementsCustody
<1>1. Inv /\ [Next]_vars => [Custody!Next]_<<[r \in Records |-> bookmark[r].held], Kept>>
  BY CustodyStep
<1> QED BY <1>1, CustodyInit, Invariance, PTL DEF Spec, ImplementsCustody, Custody!Spec

-----------------------------------------------------------------------------
\* What an item that is acknowledged keeps through every step.
LEMMA AcceptanceKept ==
  ASSUME Inv, Inv', [Next]_vars, NEW t \in Transfers, NEW r \in Records, item[t][r].ack
  PROVE  /\ item'[t][r].ack
         /\ item'[t][r].verification = item[t][r].verification
         /\ item'[t][r].state \notin {"queued", "rejected"}
<1>1. Grows
  BY NextInv
<1>2. item'[t][r].ack
  BY <1>1 DEF Grows
<1> QED BY <1>1, <1>2 DEF Grows, Inv, DataInv, AcknowledgedIsProved, Proved

\* An acceptance is never taken back, by whichever call applies a late rejection.
THEOREM AcceptanceIsFinal == Spec => AcceptedIsFinal
<1>1. Inv /\ Inv' /\ [Next]_vars =>
        [\A t \in Transfers, r \in Records : item[t][r].ack =>
           /\ item'[t][r].ack
           /\ item'[t][r].verification = item[t][r].verification
           /\ item'[t][r].state \notin {"queued", "rejected"}]_item
  BY AcceptanceKept
<1> QED BY <1>1, Invariance, PTL DEF Spec, AcceptedIsFinal

-----------------------------------------------------------------------------
(* Journal phase and outbox rows                                           *)

\* The phase is stored with the items it is derived from: an action either
\* leaves both alone or puts both for its transfer.
LEMMA PhasePut ==
  ASSUME TypeOK, PhaseIsDerived, NEW t \in Transfers, NEW items,
         item' = [item EXCEPT ![t] = items],
         phase' = [phase EXCEPT ![t] = PhaseFor(items)]
  PROVE  PhaseIsDerived'
<1> SUFFICES ASSUME NEW u \in Transfers, phase'[u] # "none"
             PROVE  phase'[u] = PhaseFor(item'[u])
  BY DEF PhaseIsDerived
<1>1. CASE u = t
  BY <1>1 DEF TypeOK
<1>2. CASE u # t
  <2>1. item'[u] = item[u] /\ phase'[u] = phase[u]
    BY <1>2 DEF TypeOK
  <2> QED BY <2>1 DEF PhaseIsDerived
<1> QED BY <1>1, <1>2

\* A batch is queued under the phase of its items, because it is not empty.
LEMMA QueuedPhase ==
  ASSUME TypeOK, NEW p \in Passes, QueueBatch(p)
  PROVE  PhaseFor(item'[pass[p].t]) = "awaiting-acknowledgement"
<1>1. pass[p] \in [pc : {"review"}, t : Transfers, left : SUBSET Records, batch : SUBSET Reviewed]
  BY PassShape DEF TypeOK, QueueBatch
<1> DEFINE t == pass[p].t
           States == {item'[t][r].state : r \in Records} \ {"none"}
<1>2. PICK b \in pass[p].batch : TRUE
  BY DEF QueueBatch
<1>3. b.r \in Records
  BY <1>1, <1>2 DEF Reviewed
<1>4. \A r \in Records :
        /\ item'[t][r].state \in {"queued", "none"}
        /\ (\E x \in pass[p].batch : x.r = r) => item'[t][r].state = "queued"
  BY <1>1 DEF QueueBatch, TypeOK, NoItem
<1>5. States = {"queued"}
  BY <1>2, <1>3, <1>4
<1> HIDE DEF States
<1>6. PhaseFor(item'[t]) = IF States \cap {"failed", "rejected"} # {} THEN "failed"
                           ELSE IF "finalizing" \in States THEN "finalizing"
                           ELSE IF "queued" \in States THEN "awaiting-acknowledgement"
                           ELSE IF States = {"finalized"} THEN "completed"
                           ELSE "acknowledged"
  BY DEF PhaseFor, States
<1> QED BY <1>5, <1>6

LEMMA PhaseStep ==
  ASSUME TypeOK, PhaseIsDerived, [Next]_vars
  PROVE  PhaseIsDerived'
<1>1. CASE UNCHANGED <<item, phase>>
  BY <1>1 DEF PhaseIsDerived
<1>2. ASSUME NEW p \in Passes, QueueBatch(p)
      PROVE  PhaseIsDerived'
  <2> DEFINE t == pass[p].t
  <2>1. pass[p] \in [pc : {"review"}, t : Transfers, left : SUBSET Records, batch : SUBSET Reviewed]
    BY <1>2, PassShape DEF TypeOK, QueueBatch
  <2>2. PICK items : /\ item' = [item EXCEPT ![t] = items]
                     /\ phase' = [phase EXCEPT ![t] = "awaiting-acknowledgement"]
    BY <1>2 DEF QueueBatch
  <2>3. item'[t] = items
    BY <2>1, <2>2 DEF TypeOK
  <2>4. PhaseFor(items) = "awaiting-acknowledgement"
    BY <1>2, <2>3, QueuedPhase
  <2> QED BY <2>1, <2>2, <2>4, PhasePut
<1>3. ASSUME NEW p \in Passes, Apply(p)
      PROVE  PhaseIsDerived'
  <2>1. pass[p] \in [pc : {"apply"}, t : Transfers, unlocked : BOOLEAN, left : SUBSET Answers]
    BY <1>3, PassShape DEF TypeOK, Apply
  <2>2. PICK a \in pass[p].left :
          \/ UNCHANGED <<item, phase, receipts>>
          \/ LET items == [item[a.t] EXCEPT ![a.r] = Answered(@, a)]
             IN  /\ item' = [item EXCEPT ![a.t] = items]
                 /\ phase' = [phase EXCEPT ![a.t] = PhaseFor(items)]
    BY <1>3 DEF Apply
  <2>3. a.t \in Transfers
    BY <2>1, <2>2 DEF Answers
  <2> QED BY <1>1, <2>2, <2>3, PhasePut
<1>4. ASSUME NEW t \in Transfers, NEW r, NEW state, UpdateFinalization(t, r, state)
      PROVE  PhaseIsDerived'
  BY <1>4, PhasePut DEF UpdateFinalization
<1>5. ASSUME NEW p \in Passes, MarkFinalizing(p) \/ MarkOutcome(p)
      PROVE  PhaseIsDerived'
  <2>1. pass[p].t \in Transfers
    BY <1>5, PassShape DEF TypeOK, MarkFinalizing, MarkOutcome
  <2> QED BY <1>4, <1>5, <2>1 DEF MarkFinalizing, MarkOutcome
<1>6. CASE UNCHANGED vars
  BY <1>1, <1>6 DEF vars
<1>7. ASSUME NEW p \in Passes, Step(p)
      PROVE  PhaseIsDerived'
  <2>1. CASE ReviewRead(p) \/ ReviewSeal(p) \/ ReviewReread(p) \/ ReviewEmpty(p)
             \/ Upload(p) \/ MarkDelivered(p) \/ Published(p)
    BY <1>1, <2>1 DEF ReviewRead, ReviewSeal, ReviewReread, ReviewEmpty, Upload, MarkDelivered,
                      Published
  <2>2. CASE ListAnswers(p) \/ Corrupt(p) \/ PendingFinalization(p) \/ FinalizerRead(p)
             \/ FinalizerDelete(p) \/ Reconciled(p)
    BY <1>1, <2>2 DEF ListAnswers, Corrupt, PendingFinalization, FinalizerRead, FinalizerDelete,
                      Reconciled
  <2> QED BY <1>2, <1>3, <1>5, <1>7, <2>1, <2>2 DEF Step
<1>8. CASE Next /\ ~\E p \in Passes : Step(p)
  BY <1>1, <1>8 DEF Next, TransportFails, FinalizerFails, Start, Resume, Status, WorkerStops,
                    SaveRead, SavePut, Delete, TargetAnswer
<1> QED BY <1>6, <1>7, <1>8

\* The stored journal phase is the one its items imply, at every commit.
THEOREM PhaseFollowsItems == Spec => []PhaseIsDerived
<1>1. Init => PhaseIsDerived
  BY DEF Init, PhaseIsDerived
<1>2. TypeOK /\ PhaseIsDerived /\ [Next]_vars => PhaseIsDerived'
  BY PhaseStep
<1> QED BY <1>1, <1>2, TypeCorrect, PTL DEF Spec

\* A call that is about to mark a row has uploaded it.
Uploaded ==
  \A p \in Passes : pass[p].pc = "deliver" => <<pass[p].t, pass[p].m>> \in provider

LEMMA DeliveryStep ==
  ASSUME TypeOK, DeliveredIsPublished, Uploaded, [Next]_vars
  PROVE  DeliveredIsPublished' /\ Uploaded'
<1>1. provider \subseteq provider'
  BY DEF Next, vars, Step, ReviewRead, ReviewSeal, ReviewReread, QueueBatch, ReviewEmpty, Upload,
         MarkDelivered, Published, ListAnswers, Apply, Corrupt, PendingFinalization,
         MarkFinalizing, FinalizerRead, FinalizerDelete, MarkOutcome, Reconciled, TransportFails,
         FinalizerFails, Start, Resume, Status, WorkerStops, SaveRead, SavePut, Delete,
         TargetAnswer
<1>2. ASSUME NEW p \in Passes, NEW state, Go(p, state), state.pc # "deliver"
      PROVE  Uploaded'
  BY <1>1, <1>2 DEF Go, Uploaded, TypeOK
<1>3. ASSUME UNCHANGED outbox
      PROVE  DeliveredIsPublished'
  BY <1>1, <1>3 DEF DeliveredIsPublished
<1>4. ASSUME NEW p \in Passes, QueueBatch(p)
      PROVE  DeliveredIsPublished' /\ Uploaded'
  <2> DEFINE t == pass[p].t
  <2>1. Uploaded'
    BY <1>2, <1>4 DEF QueueBatch
  <2>2. t \in Transfers
    BY <1>4, PassShape DEF TypeOK, QueueBatch
  <2>3. PICK rows : outbox' = [outbox EXCEPT ![t] =
                                 [m \in Messages |-> IF m \in rows THEN "pending" ELSE "none"]]
    BY <1>4 DEF QueueBatch
  <2>4. ASSUME NEW u \in Transfers, NEW m \in Messages, outbox'[u][m] = "delivered"
        PROVE  outbox[u][m] = "delivered"
    BY <2>2, <2>3, <2>4 DEF TypeOK
  <2> QED BY <1>1, <2>1, <2>4 DEF DeliveredIsPublished
<1>5. ASSUME NEW p \in Passes, MarkDelivered(p)
      PROVE  DeliveredIsPublished' /\ Uploaded'
  <2>1. Uploaded'
    BY <1>2, <1>5 DEF MarkDelivered
  <2>2. pass[p].t \in Transfers /\ pass[p].m \in Messages
    BY <1>5, PassShape DEF TypeOK, MarkDelivered
  <2>3. ASSUME NEW u \in Transfers, NEW m \in Messages, outbox'[u][m] = "delivered"
        PROVE  outbox[u][m] = "delivered" \/ (u = pass[p].t /\ m = pass[p].m)
    BY <1>5, <2>2, <2>3 DEF MarkDelivered, TypeOK
  <2>4. <<pass[p].t, pass[p].m>> \in provider
    BY <1>5 DEF MarkDelivered, Uploaded
  <2> QED BY <1>1, <2>1, <2>3, <2>4 DEF DeliveredIsPublished
<1>6. ASSUME NEW p \in Passes, Upload(p)
      PROVE  DeliveredIsPublished' /\ Uploaded'
  <2>1. PICK m \in pass[p].left :
          /\ provider' = provider \cup {<<pass[p].t, m>>}
          /\ Go(p, [pc |-> "deliver", t |-> pass[p].t, resumed |-> pass[p].resumed,
                    left |-> pass[p].left \ {m}, m |-> m])
    BY <1>6 DEF Upload
  <2>2. Uploaded'
    BY <2>1 DEF Go, Uploaded, TypeOK
  <2> QED BY <1>3, <1>6, <2>2 DEF Upload
<1>7. ASSUME NEW p \in Passes, ReviewRead(p) \/ ReviewSeal(p) \/ ReviewReread(p) \/ ReviewEmpty(p)
      PROVE  DeliveredIsPublished' /\ Uploaded'
  <2>1. CASE ReviewRead(p)
    BY <1>2, <1>3, <2>1, PassShape DEF ReviewRead, TypeOK
  <2>2. CASE ReviewSeal(p)
    BY <1>2, <1>3, <2>2, PassShape DEF ReviewSeal, TypeOK
  <2>3. CASE ReviewReread(p) \/ ReviewEmpty(p)
    BY <1>2, <1>3, <2>3 DEF ReviewReread, ReviewEmpty, IdlePass
  <2> QED BY <1>7, <2>1, <2>2, <2>3
<1>8. ASSUME NEW p \in Passes, Published(p) \/ ListAnswers(p) \/ Corrupt(p)
                               \/ PendingFinalization(p) \/ MarkFinalizing(p)
      PROVE  DeliveredIsPublished' /\ Uploaded'
  BY <1>2, <1>3, <1>8 DEF Published, ListAnswers, Corrupt, PendingFinalization, MarkFinalizing,
                          IdlePass
<1>9. ASSUME NEW p \in Passes, Apply(p)
      PROVE  DeliveredIsPublished' /\ Uploaded'
  BY <1>2, <1>3, <1>9, PassShape DEF Apply, TypeOK
<1>10. ASSUME NEW p \in Passes, FinalizerRead(p) \/ FinalizerDelete(p) \/ FinalizerFails(p)
                                \/ MarkOutcome(p) \/ Reconciled(p) \/ TransportFails(p)
       PROVE  DeliveredIsPublished' /\ Uploaded'
  BY <1>2, <1>3, <1>10 DEF FinalizerRead, FinalizerDelete, FinalizerFails, MarkOutcome,
                           Reconciled, TransportFails, IdlePass
<1>11. ASSUME NEW p \in Passes, NEW t \in Transfers, NEW unlocked \in BOOLEAN,
              NEW selection \in SUBSET Records,
              Start(p, t, selection) \/ Resume(p, t) \/ Status(p, t, unlocked)
       PROVE  DeliveredIsPublished' /\ Uploaded'
  BY <1>2, <1>3, <1>11 DEF Start, Resume, Status
<1>12. CASE WorkerStops
  BY <1>3, <1>12 DEF WorkerStops, IdlePass, Uploaded
<1>13. ASSUME UNCHANGED <<outbox, pass>>
       PROVE  DeliveredIsPublished' /\ Uploaded'
  BY <1>1, <1>3, <1>13 DEF Uploaded
<1>14. ASSUME NEW p \in Passes, Step(p)
       PROVE  DeliveredIsPublished' /\ Uploaded'
  BY <1>4, <1>5, <1>6, <1>7, <1>8, <1>9, <1>10, <1>14 DEF Step
<1>15. CASE UNCHANGED vars
  BY <1>13, <1>15 DEF vars
<1>16. CASE Next
  <2>1. CASE \E p \in Passes : Step(p) \/ TransportFails(p) \/ FinalizerFails(p)
    BY <1>10, <1>14, <2>1
  <2>2. CASE \E p \in Passes, t \in Transfers, selection \in SUBSET Records : Start(p, t, selection)
    BY <1>11, <2>2
  <2>3. CASE \E p \in Passes, t \in Transfers : Resume(p, t)
    <3>1. {} \in SUBSET Records /\ TRUE \in BOOLEAN
      OBVIOUS
    <3> QED BY <1>11, <2>3, <3>1
  <2>4. CASE \E p \in Passes, t \in Transfers, unlocked \in BOOLEAN : Status(p, t, unlocked)
    <3>1. {} \in SUBSET Records
      OBVIOUS
    <3> QED BY <1>11, <2>4, <3>1
  <2>5. CASE \/ SavePut
             \/ \E r \in Records : SaveRead(r) \/ Delete(r)
             \/ \E t \in Transfers, r \in Records, status \in TargetAnswers : TargetAnswer(t, r, status)
    BY <1>13, <2>5 DEF SavePut, SaveRead, Delete, TargetAnswer
  <2> QED BY <1>12, <1>16, <2>1, <2>2, <2>3, <2>4, <2>5 DEF Next
<1> QED BY <1>15, <1>16

\* A row marked delivered is at the provider, so skipping it later loses nothing.
THEOREM DeliveredRowsAreReal == Spec => []DeliveredIsPublished
<1>1. Init => DeliveredIsPublished /\ Uploaded
  BY DEF Init, DeliveredIsPublished, Uploaded, IdlePass
<1>2. TypeOK /\ DeliveredIsPublished /\ Uploaded /\ [Next]_vars => DeliveredIsPublished' /\ Uploaded'
  BY DeliveryStep
<1> QED BY <1>1, <1>2, TypeCorrect, PTL DEF Spec

-----------------------------------------------------------------------------
(***************************************************************************)
(* What a completed transfer leaves behind.  The clock numbers contents    *)
(* and updatedAts, so everything stored or in flight is no newer than it,  *)
(* and what is put later differs from what an item was reviewed with: a    *)
(* seal has a later updatedAt, a save later content.                       *)
(***************************************************************************)
NoNewer(b, now) == b.rev <= now /\ b.stamp <= now /\ b.sealed <= now

PassTimely(s, now) ==
  /\ s.pc \in Reviewing => \A b \in s.batch : b.rev <= now /\ b.stamp <= now
  /\ s.pc \in {"seal", "reread"} => NoNewer(s.seen, now)

ItemTimely(i, now) == i.rev <= now /\ i.stamp <= now

Timely ==
  /\ \A r \in Records : NoNewer(bookmark[r], clock)
  /\ \A t \in Transfers, r \in Records : ItemTimely(item[t][r], clock)
  /\ \A p \in Passes : PassTimely(pass[p], clock)
  /\ save.pc = "put" => NoNewer(save.seen, clock)

Gone(b, i) == b.held = "present" => b.stamp # i.stamp \/ b.rev > i.rev

\* An item is finalized, or about to be, only when its bookmark is gone.
RemovalsHappened ==
  /\ \A t \in Transfers, r \in Records :
       item[t][r].state = "finalized" => item[t][r].ack /\ Gone(bookmark[r], item[t][r])
  /\ \A p \in Passes :
       pass[p].pc = "mark" /\ pass[p].removed =>
         Gone(bookmark[pass[p].r], item[pass[p].t][pass[p].r])

\* Which actions write the stores.
LEMMA BookmarkWriters ==
  ASSUME [Next]_vars
  PROVE  \/ UNCHANGED bookmark
         \/ SavePut
         \/ \E p \in Passes : ReviewSeal(p) \/ FinalizerDelete(p)
         \/ \E r \in Records : Delete(r)
BY DEF Next, vars, Step, ReviewRead, ReviewReread, QueueBatch, ReviewEmpty, Upload,
       MarkDelivered, Published, ListAnswers, Apply, Corrupt, PendingFinalization,
       MarkFinalizing, FinalizerRead, MarkOutcome, Reconciled, TransportFails,
       FinalizerFails, Start, Resume, Status, WorkerStops, SaveRead, TargetAnswer

LEMMA ItemWriters ==
  ASSUME [Next]_vars
  PROVE  \/ UNCHANGED item
         \/ \E p \in Passes : QueueBatch(p) \/ Apply(p) \/ MarkFinalizing(p) \/ MarkOutcome(p)
BY DEF Next, vars, Step, ReviewRead, ReviewSeal, ReviewReread, ReviewEmpty, Upload,
       MarkDelivered, Published, ListAnswers, Corrupt, PendingFinalization,
       FinalizerRead, FinalizerDelete, Reconciled, TransportFails, FinalizerFails, Start,
       Resume, Status, WorkerStops, SaveRead, SavePut, Delete, TargetAnswer

LEMMA SaveWriters ==
  ASSUME [Next]_vars
  PROVE  UNCHANGED save \/ save' = NoSave \/ \E r \in Records : SaveRead(r)
BY DEF Next, vars, Step, ReviewRead, ReviewSeal, ReviewReread, QueueBatch, ReviewEmpty, Upload,
       MarkDelivered, Published, ListAnswers, Apply, Corrupt, PendingFinalization,
       MarkFinalizing, FinalizerRead, FinalizerDelete, MarkOutcome, Reconciled, TransportFails,
       FinalizerFails, Start, Resume, Status, WorkerStops, SavePut, Delete, TargetAnswer

LEMMA ClockAdvances ==
  ASSUME [Next]_vars
  PROVE  UNCHANGED clock \/ clock' = clock + 1
BY DEF Next, vars, Step, ReviewRead, ReviewSeal, ReviewReread, QueueBatch, ReviewEmpty, Upload,
       MarkDelivered, Published, ListAnswers, Apply, Corrupt, PendingFinalization,
       MarkFinalizing, FinalizerRead, FinalizerDelete, MarkOutcome, Reconciled, TransportFails,
       FinalizerFails, Start, Resume, Status, WorkerStops, SaveRead, SavePut, Delete,
       TargetAnswer

\* How a call comes to review, or to mark an outcome.
LEMMA PassMovers ==
  ASSUME TypeOK, [Next]_vars, NEW q \in Passes
  PROVE  \/ pass'[q] = pass[q]
         \/ pass'[q].pc \notin {"review", "seal", "reread", "mark"}
         \/ pass'[q].pc = "review" /\ pass'[q].batch = {}
         \/ ReviewRead(q) \/ ReviewSeal(q) \/ ReviewReread(q)
         \/ FinalizerRead(q) \/ FinalizerDelete(q) \/ FinalizerFails(q)
<1> DEFINE Calm == \/ pass'[q] = pass[q]
                   \/ pass'[q].pc \notin {"review", "seal", "reread", "mark"}
                   \/ pass'[q].pc = "review" /\ pass'[q].batch = {}
<1>1. ASSUME NEW p \in Passes, NEW s, Go(p, s)
      PROVE  /\ q # p => Calm
             /\ s.pc \notin {"review", "seal", "reread", "mark"} => Calm
  BY <1>1 DEF Go, TypeOK
<1> HIDE DEF Calm
<1>2. ASSUME UNCHANGED pass
      PROVE  Calm
  BY <1>2 DEF Calm
<1>3. ASSUME NEW p \in Passes,
             \/ ReviewRead(p) \/ ReviewSeal(p) \/ ReviewReread(p)
             \/ FinalizerRead(p) \/ FinalizerDelete(p) \/ FinalizerFails(p),
             q # p
      PROVE  Calm
  BY <1>1, <1>3 DEF ReviewRead, ReviewSeal, ReviewReread, FinalizerRead, FinalizerDelete,
                    FinalizerFails
<1>4. ASSUME NEW p \in Passes,
             ReviewEmpty(p) \/ Published(p) \/ Corrupt(p) \/ PendingFinalization(p)
               \/ Reconciled(p) \/ TransportFails(p)
      PROVE  Calm
  BY <1>1, <1>4 DEF ReviewEmpty, Published, Corrupt, PendingFinalization, Reconciled,
                    TransportFails, IdlePass
<1>5. ASSUME NEW p \in Passes,
             QueueBatch(p) \/ Upload(p) \/ MarkDelivered(p) \/ ListAnswers(p)
               \/ MarkFinalizing(p) \/ MarkOutcome(p)
      PROVE  Calm
  <2>1. CASE QueueBatch(p)
    <3>1. PICK rows : Go(p, [pc |-> "publish", t |-> pass[p].t, resumed |-> FALSE, left |-> rows])
      BY <2>1 DEF QueueBatch
    <3> QED BY <1>1, <3>1
  <2>2. CASE Upload(p)
    <3>1. PICK m : Go(p, [pc |-> "deliver", t |-> pass[p].t, resumed |-> pass[p].resumed,
                          left |-> pass[p].left \ {m}, m |-> m])
      BY <2>2 DEF Upload
    <3> QED BY <1>1, <3>1
  <2>3. CASE MarkFinalizing(p)
    <3>1. PICK r : Go(p, [pc |-> "read", t |-> pass[p].t, left |-> pass[p].left \ {r}, r |-> r])
      BY <2>3 DEF MarkFinalizing
    <3> QED BY <1>1, <3>1
  <2>4. CASE MarkDelivered(p) \/ ListAnswers(p) \/ MarkOutcome(p)
    BY <1>1, <2>4 DEF MarkDelivered, ListAnswers, MarkOutcome
  <2> QED BY <1>5, <2>1, <2>2, <2>3, <2>4
<1>6. ASSUME NEW p \in Passes, Apply(p)
      PROVE  Calm
  BY <1>1, <1>6, PassShape DEF Apply, TypeOK
<1>7. ASSUME NEW p \in Passes, NEW t \in Transfers, NEW unlocked \in BOOLEAN,
             Resume(p, t) \/ Status(p, t, unlocked)
      PROVE  Calm
  BY <1>1, <1>7 DEF Resume, Status
<1>8. ASSUME NEW p \in Passes, NEW t \in Transfers, NEW selection \in SUBSET Records,
             Start(p, t, selection)
      PROVE  Calm
  <2>1. CASE q = p
    BY <1>8, <2>1 DEF Start, Go, TypeOK, Calm
  <2>2. CASE q # p
    BY <1>1, <1>8, <2>2 DEF Start
  <2> QED BY <2>1, <2>2
<1>9. CASE WorkerStops
  BY <1>9 DEF WorkerStops, IdlePass, Calm
<1>10. CASE UNCHANGED vars
  BY <1>2, <1>10 DEF vars
<1>11. CASE \/ SavePut
            \/ \E r \in Records : SaveRead(r) \/ Delete(r)
            \/ \E t \in Transfers, r \in Records, status \in TargetAnswers :
                 TargetAnswer(t, r, status)
  BY <1>2, <1>11 DEF SavePut, SaveRead, Delete, TargetAnswer
<1>12. CASE \E p \in Passes : Step(p) \/ TransportFails(p) \/ FinalizerFails(p)
  BY <1>3, <1>4, <1>5, <1>6, <1>12 DEF Step, Calm
<1>13. CASE \E p \in Passes, t \in Transfers, selection \in SUBSET Records : Start(p, t, selection)
  BY <1>8, <1>13 DEF Calm
<1>14. CASE \E p \in Passes, t \in Transfers : Resume(p, t)
  <2>1. TRUE \in BOOLEAN
    OBVIOUS
  <2> QED BY <1>7, <1>14, <2>1 DEF Calm
<1>15. CASE \E p \in Passes, t \in Transfers, unlocked \in BOOLEAN : Status(p, t, unlocked)
  BY <1>7, <1>15 DEF Calm
<1> QED BY <1>9, <1>10, <1>11, <1>12, <1>13, <1>14, <1>15 DEF Next, Calm

\* Items keep what they were reviewed with; one is finalized by the outcome of a
\* removal only.
LEMMA ItemsKeepReview ==
  ASSUME TypeOK, [Next]_vars, ~\E p \in Passes : QueueBatch(p),
         NEW t \in Transfers, NEW r \in Records
  PROVE  /\ item'[t][r].stamp = item[t][r].stamp
         /\ item'[t][r].rev = item[t][r].rev
         /\ item'[t][r].state = "finalized" =>
              \/ item[t][r].state = "finalized"
              \/ /\ item[t][r].ack
                 /\ \E p \in Passes : /\ pass[p].pc = "mark" /\ pass[p].removed
                                      /\ pass[p].t = t /\ pass[p].r = r
<1>1. item[t][r] \in ItemType
  BY DEF TypeOK
<1>2. CASE UNCHANGED item
  BY <1>2
<1>3. ASSUME NEW p \in Passes, Apply(p)
      PROVE  /\ item'[t][r].stamp = item[t][r].stamp
             /\ item'[t][r].rev = item[t][r].rev
             /\ item'[t][r].state = "finalized" => item[t][r].state = "finalized"
  <2>1. PICK a \in pass[p].left :
          \/ UNCHANGED item
          \/ item' = [item EXCEPT ![a.t] = [item[a.t] EXCEPT ![a.r] = Answered(@, a)]]
    BY <1>3 DEF Apply
  <2>2. item'[t][r] = item[t][r] \/ item'[t][r] = Answered(item[t][r], a)
    BY <2>1 DEF TypeOK
  <2> QED BY <1>1, <2>2 DEF Answered, Rejected, Accepted, ItemType
<1>4. ASSUME NEW u \in Transfers, NEW q \in Records, NEW state \in ItemStates,
             UpdateFinalization(u, q, state)
      PROVE  /\ item'[t][r].stamp = item[t][r].stamp
             /\ item'[t][r].rev = item[t][r].rev
             /\ item'[t][r].state = "finalized" =>
                  \/ item[t][r].state = "finalized"
                  \/ item[t][r].ack /\ u = t /\ q = r /\ state = "finalized"
  <2> DEFINE done == (state = "finalized")
             put == [[item[u][q] EXCEPT !.state = state] EXCEPT !.fin = done]
  <2>1. item[u][q].ack /\ item' = [item EXCEPT ![u] = [item[u] EXCEPT ![q].state = state, ![q].fin = done]]
    BY <1>4 DEF UpdateFinalization
  <2>2. [item[u] EXCEPT ![q].state = state, ![q].fin = done] = [item[u] EXCEPT ![q] = put]
    BY Zenon DEF TypeOK
  <2>3. put.state = state /\ put.stamp = item[u][q].stamp /\ put.rev = item[u][q].rev
    BY DEF TypeOK, ItemType
  <2> HIDE DEF put, done
  <2>4. item'[t][r] = IF t = u /\ r = q THEN put ELSE item[t][r]
    BY <2>1, <2>2 DEF TypeOK
  <2> QED BY <2>1, <2>3, <2>4
<1>5. ASSUME NEW p \in Passes, MarkFinalizing(p)
      PROVE  /\ item'[t][r].stamp = item[t][r].stamp
             /\ item'[t][r].rev = item[t][r].rev
             /\ item'[t][r].state = "finalized" => item[t][r].state = "finalized"
  <2>1. pass[p].t \in Transfers /\ pass[p].left \subseteq Records
    BY <1>5, PassFields DEF MarkFinalizing, TypeOK
  <2>2. PICK q \in pass[p].left : UpdateFinalization(pass[p].t, q, "finalizing")
    BY <1>5 DEF MarkFinalizing
  <2>3. q \in Records /\ "finalizing" \in ItemStates
    BY <2>1, <2>2 DEF ItemStates
  <2> QED BY <1>4, <2>1, <2>2, <2>3
<1>6. ASSUME NEW p \in Passes, MarkOutcome(p)
      PROVE  /\ item'[t][r].stamp = item[t][r].stamp
             /\ item'[t][r].rev = item[t][r].rev
             /\ item'[t][r].state = "finalized" =>
                  \/ item[t][r].state = "finalized"
                  \/ /\ item[t][r].ack
                     /\ pass[p].pc = "mark" /\ pass[p].removed
                     /\ pass[p].t = t /\ pass[p].r = r
  <2>1. pass[p].pc = "mark" /\ pass[p].t \in Transfers /\ pass[p].r \in Records
    BY <1>6, PassFields DEF MarkOutcome, TypeOK
  <2>2. PICK state \in ItemStates :
          /\ UpdateFinalization(pass[p].t, pass[p].r, state)
          /\ state = "finalized" => pass[p].removed
    <3>1. "finalized" \in ItemStates /\ "failed" \in ItemStates
      BY DEF ItemStates
    <3> QED BY <1>6, <3>1 DEF MarkOutcome
  <2> QED BY <1>4, <2>1, <2>2
<1> QED BY <1>2, <1>3, <1>5, <1>6, ItemWriters

\* The batch's items carry what its reviews kept.
LEMMA QueuedItems ==
  ASSUME TypeOK, NEW p \in Passes, QueueBatch(p), NEW t \in Transfers, NEW r \in Records
  PROVE  \/ t # pass[p].t /\ item'[t][r] = item[t][r]
         \/ /\ t = pass[p].t
            /\ item'[t][r].state # "finalized"
            /\ \/ item'[t][r] = NoItem
               \/ \E b \in pass[p].batch :
                    item'[t][r].rev = b.rev /\ item'[t][r].stamp = b.stamp
<1>1. CASE t # pass[p].t
  BY <1>1 DEF QueueBatch, TypeOK
<1>2. CASE t = pass[p].t
  <2> DEFINE b == CHOOSE x \in pass[p].batch : x.r = r
  <2>1. item'[t][r] = IF \E x \in pass[p].batch : x.r = r
                      THEN [state |-> "queued", ack |-> FALSE, fin |-> FALSE,
                            stamp |-> b.stamp, rev |-> b.rev,
                            original |-> b.original, verification |-> "pending"]
                      ELSE NoItem
    BY <1>2 DEF QueueBatch, TypeOK
  <2>2. CASE \E x \in pass[p].batch : x.r = r
    <3>1. b \in pass[p].batch
      BY <2>2
    <3> HIDE DEF b
    <3> QED BY <1>2, <2>1, <2>2, <3>1
  <2>3. CASE ~\E x \in pass[p].batch : x.r = r
    BY <1>2, <2>1, <2>3 DEF NoItem
  <2> QED BY <2>2, <2>3
<1> QED BY <1>1, <1>2

LEMMA PassTimelyLater ==
  ASSUME NEW s \in PassType, NEW now \in Nat, NEW later \in Nat, now <= later,
         PassTimely(s, now)
  PROVE  PassTimely(s, later)
<1>1. ASSUME s.pc \in Reviewing, NEW b \in s.batch
      PROVE  b.rev <= later /\ b.stamp <= later
  <2>1. b.rev \in Nat /\ b.stamp \in Nat
    BY <1>1, PassShape DEF Reviewing, Reviewed
  <2>2. b.rev <= now /\ b.stamp <= now
    BY <1>1 DEF PassTimely
  <2> QED BY <2>1, <2>2
<1>2. ASSUME s.pc \in {"seal", "reread"}
      PROVE  NoNewer(s.seen, later)
  <2>1. s.seen \in BookmarkType
    BY <1>2, PassShape
  <2>2. NoNewer(s.seen, now)
    BY <1>2 DEF PassTimely
  <2> QED BY <2>1, <2>2 DEF NoNewer, BookmarkType
<1> QED BY <1>1, <1>2 DEF PassTimely

LEMMA TimelyStep ==
  ASSUME TypeOK, TypeOK', Timely, [Next]_vars
  PROVE  Timely'
<1>1. clock \in Nat /\ clock' \in Nat /\ clock <= clock'
  BY ClockAdvances DEF TypeOK
<1>2. ASSUME NEW r \in Records
      PROVE  NoNewer(bookmark'[r], clock')
  <2>1. bookmark[r] \in BookmarkType /\ NoNewer(bookmark[r], clock)
    BY DEF TypeOK, Timely
  <2>2. NoNewer(bookmark[r], clock')
    BY <1>1, <2>1 DEF NoNewer, BookmarkType
  <2>3. CASE UNCHANGED bookmark
    BY <2>2, <2>3
  <2>4. CASE SavePut
    <3>1. save.pc = "put" /\ save.seen \in BookmarkType /\ NoNewer(save.seen, clock)
      BY <2>4 DEF SavePut, SaveType, TypeOK, Timely
    <3>2. \/ bookmark'[r] = bookmark[r]
          \/ bookmark'[r] = [held |-> "present", rev |-> clock + 1, stamp |-> save.seen.stamp,
                             custody |-> save.seen.custody, sealed |-> save.seen.sealed]
      BY <2>4 DEF SavePut, TypeOK
    <3>3. clock' = clock + 1
      BY <2>4 DEF SavePut
    <3> QED BY <1>1, <2>2, <3>1, <3>2, <3>3 DEF NoNewer, BookmarkType
  <2>5. ASSUME NEW p \in Passes, ReviewSeal(p)
        PROVE  NoNewer(bookmark'[r], clock')
    <3> DEFINE seen == pass[p].seen
    <3>1. seen \in BookmarkType /\ NoNewer(seen, clock)
      BY <2>5, PassShape DEF ReviewSeal, TypeOK, Timely, PassTimely
    <3>2. \/ bookmark'[r] = bookmark[r]
          \/ bookmark'[r] = [held |-> "present", rev |-> seen.rev, stamp |-> clock + 1,
                             custody |-> pass[p].original, sealed |-> Canonical(seen)]
      BY <2>5 DEF ReviewSeal, TypeOK
    <3>3. clock' = clock + 1
      BY <2>5 DEF ReviewSeal
    <3> HIDE DEF seen
    <3>4. Canonical(seen) <= clock /\ Canonical(seen) \in Nat
      BY <1>1, <3>1 DEF Canonical, NoNewer, BookmarkType
    <3> QED BY <1>1, <2>2, <3>1, <3>2, <3>3, <3>4 DEF NoNewer, BookmarkType
  <2>6. ASSUME NEW held, NEW q, bookmark' = [bookmark EXCEPT ![q].held = held]
        PROVE  NoNewer(bookmark'[r], clock')
    <3>1. bookmark'[r] = bookmark[r] \/ bookmark'[r] = [bookmark[r] EXCEPT !.held = held]
      BY <2>6 DEF TypeOK
    <3> QED BY <2>1, <2>2, <3>1 DEF NoNewer, BookmarkType
  <2> QED BY <2>3, <2>4, <2>5, <2>6, BookmarkWriters DEF FinalizerDelete, Delete
<1>3. ASSUME NEW t \in Transfers, NEW r \in Records
      PROVE  ItemTimely(item'[t][r], clock')
  <2>1. item[t][r] \in ItemType /\ ItemTimely(item[t][r], clock)
    BY DEF TypeOK, Timely
  <2>2. ItemTimely(item[t][r], clock')
    BY <1>1, <2>1 DEF ItemTimely, ItemType
  <2>3. ASSUME NEW p \in Passes, QueueBatch(p)
        PROVE  ItemTimely(item'[t][r], clock')
    <3>1. pass[p] \in [pc : {"review"}, t : Transfers, left : SUBSET Records, batch : SUBSET Reviewed]
      BY <2>3, PassShape DEF TypeOK, QueueBatch
    <3>2. \A b \in pass[p].batch : b \in Reviewed /\ b.rev <= clock /\ b.stamp <= clock
      BY <3>1 DEF Timely, PassTimely, Reviewing
    <3>3. ItemTimely(NoItem, clock')
      BY <1>1 DEF ItemTimely, NoItem
    <3>4. \/ item'[t][r] = item[t][r]
          \/ item'[t][r] = NoItem
          \/ \E b \in pass[p].batch : item'[t][r].rev = b.rev /\ item'[t][r].stamp = b.stamp
      BY <2>3, QueuedItems
    <3> QED BY <1>1, <2>2, <3>2, <3>3, <3>4 DEF ItemTimely, Reviewed
  <2>4. CASE ~\E p \in Passes : QueueBatch(p)
    <3>1. item'[t][r].stamp = item[t][r].stamp /\ item'[t][r].rev = item[t][r].rev
      BY <2>4, ItemsKeepReview
    <3> QED BY <2>2, <3>1 DEF ItemTimely
  <2> QED BY <2>3, <2>4
<1>4. ASSUME NEW q \in Passes
      PROVE  PassTimely(pass'[q], clock')
  <2>1. pass[q] \in PassType /\ PassTimely(pass[q], clock)
    BY DEF TypeOK, Timely
  <2>2. PassTimely(pass[q], clock')
    BY <1>1, <2>1, PassTimelyLater
  <2>3. CASE ReviewRead(q)
    <3>1. pass[q] \in [pc : {"review"}, t : Transfers, left : SUBSET Records, batch : SUBSET Reviewed]
      BY <2>3, PassShape DEF TypeOK, ReviewRead
    <3>2. \A b \in pass[q].batch : b.rev <= clock' /\ b.stamp <= clock'
      BY <2>2, <3>1 DEF PassTimely, Reviewing
    <3>3. /\ pass'[q].batch = pass[q].batch
          /\ pass'[q].pc = "review" \/ \E r \in Records : pass'[q].seen = bookmark[r]
      <4>1. PICK r \in pass[q].left :
              \/ Go(q, [pass[q] EXCEPT !.left = @ \ {r}])
              \/ \E original :
                   Go(q, [pc |-> IF original = bookmark[r].custody THEN "reread" ELSE "seal",
                          t |-> pass[q].t, left |-> pass[q].left \ {r},
                          batch |-> pass[q].batch, r |-> r, seen |-> bookmark[r],
                          original |-> original])
        BY <2>3 DEF ReviewRead
      <4>2. r \in Records
        BY <3>1
      <4> QED BY <3>1, <4>1, <4>2 DEF Go, TypeOK
    <3>4. \A r \in Records : NoNewer(bookmark[r], clock')
      BY <2>3, <1>1 DEF ReviewRead, Timely
    <3> QED BY <3>2, <3>3, <3>4 DEF PassTimely
  <2>4. CASE ReviewSeal(q)
    <3>1. /\ pass'[q].batch = pass[q].batch /\ pass'[q].seen = pass[q].seen
          /\ pass[q].pc = "seal"
      BY <2>4, PassShape DEF ReviewSeal, Go, TypeOK
    <3> QED BY <2>2, <3>1 DEF PassTimely, Reviewing
  <2>5. CASE ReviewReread(q)
    <3>1. pass[q] \in [pc : {"seal", "reread"}, t : Transfers, left : SUBSET Records,
                       batch : SUBSET Reviewed, r : Records, seen : BookmarkType, original : Originals]
      BY <2>5, PassShape DEF TypeOK, ReviewReread
    <3>2. /\ \A b \in pass[q].batch : b.rev <= clock' /\ b.stamp <= clock'
          /\ NoNewer(pass[q].seen, clock')
      BY <2>2, <2>5 DEF ReviewReread, PassTimely, Reviewing
    <3>3. NoNewer(bookmark[pass[q].r], clock')
      BY <2>5, <3>1 DEF ReviewReread, Timely
    <3>4. pass'[q].pc = "review" /\ pass'[q].batch \subseteq pass[q].batch \cup
            {[r |-> pass[q].r, rev |-> Canonical(pass[q].seen), stamp |-> bookmark[pass[q].r].stamp,
              original |-> pass[q].original]}
      BY <2>5 DEF ReviewReread, Go, TypeOK
    <3>5. Canonical(pass[q].seen) <= clock'
      BY <3>2 DEF Canonical, NoNewer
    <3>6. bookmark[pass[q].r].stamp <= clock'
      BY <3>3 DEF NoNewer
    <3> QED BY <3>2, <3>4, <3>5, <3>6 DEF PassTimely
  <2>6. CASE FinalizerRead(q) \/ FinalizerDelete(q) \/ FinalizerFails(q)
    BY <2>6 DEF FinalizerRead, FinalizerDelete, FinalizerFails, Go, TypeOK, PassTimely, Reviewing
  <2>7. CASE \/ pass'[q].pc \notin {"review", "seal", "reread", "mark"}
             \/ pass'[q].pc = "review" /\ pass'[q].batch = {}
    BY <2>7 DEF PassTimely, Reviewing
  <2> QED BY <2>2, <2>3, <2>4, <2>5, <2>6, <2>7, PassMovers
<1>5. save'.pc = "put" => NoNewer(save'.seen, clock')
  <2>1. CASE UNCHANGED save
    <3>1. save.pc = "put" => save.seen \in BookmarkType /\ NoNewer(save.seen, clock)
      BY DEF SaveType, TypeOK, Timely
    <3> QED BY <1>1, <2>1, <3>1 DEF NoNewer, BookmarkType
  <2>2. CASE save' = NoSave
    BY <2>2 DEF NoSave
  <2>3. ASSUME NEW r \in Records, SaveRead(r)
        PROVE  NoNewer(save'.seen, clock')
    BY <2>3 DEF SaveRead, Timely
  <2> QED BY <2>1, <2>2, <2>3, SaveWriters
<1> QED BY <1>2, <1>3, <1>4, <1>5 DEF Timely

\* Nothing brings the reviewed bookmark back: a seal puts a later updatedAt, a
\* save later content.
LEMMA GoneStays ==
  ASSUME TypeOK, [Next]_vars, NEW r \in Records, NEW i \in ItemType, ItemTimely(i, clock),
         Gone(bookmark[r], i)
  PROVE  Gone(bookmark'[r], i)
<1>1. clock \in Nat /\ i.rev \in Nat /\ i.stamp \in Nat /\ i.rev <= clock /\ i.stamp <= clock
  BY DEF TypeOK, ItemType, ItemTimely
<1>2. bookmark[r] \in BookmarkType
  BY DEF TypeOK
<1>3. CASE UNCHANGED bookmark
  BY <1>3
<1>4. CASE SavePut
  <2>1. \/ bookmark'[r] = bookmark[r]
        \/ bookmark'[r].rev = clock + 1
    BY <1>4 DEF SavePut, TypeOK
  <2> QED BY <1>1, <2>1 DEF Gone
<1>5. ASSUME NEW p \in Passes, ReviewSeal(p)
      PROVE  Gone(bookmark'[r], i)
  <2>1. \/ bookmark'[r] = bookmark[r]
        \/ bookmark'[r].stamp = clock + 1
    BY <1>5 DEF ReviewSeal, TypeOK
  <2> QED BY <1>1, <2>1 DEF Gone
<1>6. ASSUME NEW held \in {"moved", "deleted"}, NEW q, bookmark' = [bookmark EXCEPT ![q].held = held]
      PROVE  Gone(bookmark'[r], i)
  <2>1. bookmark'[r] = bookmark[r] \/ bookmark'[r].held = held
    BY <1>2, <1>6 DEF TypeOK, BookmarkType
  <2> QED BY <2>1 DEF Gone
<1> QED BY <1>3, <1>4, <1>5, <1>6, BookmarkWriters DEF FinalizerDelete, Delete

\* The finalizer comes to mark a removal when the bookmark is gone, or as it
\* removes it.
LEMMA RemovalFound ==
  ASSUME TypeOK, [Next]_vars, NEW q \in Passes, pass'[q].pc = "mark", pass'[q].removed
  PROVE  \/ pass'[q] = pass[q]
         \/ /\ pass[q].pc \in {"read", "delete"}
            /\ pass'[q].r = pass[q].r /\ pass'[q].t = pass[q].t
            /\ UNCHANGED item
            /\ bookmark'[pass[q].r].held # "present"
<1>1. CASE FinalizerRead(q)
  BY <1>1 DEF FinalizerRead, Go, TypeOK
<1>2. CASE FinalizerDelete(q)
  <2> DEFINE r == pass[q].r
             removes == Unchanged(r, pass[q].seen, item[pass[q].t][r].stamp)
  <2>1. r \in Records /\ bookmark[r] \in BookmarkType
    BY <1>2, PassFields DEF FinalizerDelete, TypeOK
  <2>2. Go(q, [pc |-> "mark", t |-> pass[q].t, left |-> pass[q].left, r |-> r, removed |-> removes])
    BY <1>2 DEF FinalizerDelete
  <2> HIDE DEF removes
  <2>3. /\ pass'[q].removed = removes
        /\ pass'[q].r = pass[q].r /\ pass'[q].t = pass[q].t
    BY <2>2 DEF Go, TypeOK
  <2>4. bookmark' = [bookmark EXCEPT ![r].held = "moved"]
    BY <1>2, <2>3 DEF FinalizerDelete, removes
  <2>5. bookmark'[r].held = "moved"
    BY <2>1, <2>4 DEF TypeOK, BookmarkType
  <2> QED BY <1>2, <2>3, <2>5 DEF FinalizerDelete
<1>3. CASE FinalizerFails(q)
  BY <1>3 DEF FinalizerFails, Go, TypeOK
<1>4. CASE ReviewRead(q) \/ ReviewSeal(q) \/ ReviewReread(q)
  <2>1. pass'[q].pc # "mark"
    <3>1. CASE ReviewRead(q)
      <4>1. pass[q] \in [pc : {"review"}, t : Transfers, left : SUBSET Records, batch : SUBSET Reviewed]
        BY <3>1, PassShape DEF TypeOK, ReviewRead
      <4>2. PICK r \in pass[q].left :
              \/ Go(q, [pass[q] EXCEPT !.left = @ \ {r}])
              \/ \E original :
                   Go(q, [pc |-> IF original = bookmark[r].custody THEN "reread" ELSE "seal",
                          t |-> pass[q].t, left |-> pass[q].left \ {r},
                          batch |-> pass[q].batch, r |-> r, seen |-> bookmark[r],
                          original |-> original])
        BY <3>1 DEF ReviewRead
      <4> QED BY <4>1, <4>2 DEF Go, TypeOK
    <3>2. CASE ReviewSeal(q)
      BY <3>2, PassShape DEF ReviewSeal, Go, TypeOK
    <3>3. CASE ReviewReread(q)
      BY <3>3 DEF ReviewReread, Go, TypeOK
    <3> QED BY <1>4, <3>1, <3>2, <3>3
  <2> QED BY <2>1
<1> QED BY <1>1, <1>2, <1>3, <1>4, PassMovers

LEMMA RemovalsStep ==
  ASSUME Inv, Timely, RemovalsHappened, [Next]_vars
  PROVE  RemovalsHappened'
<1> USE DEF Inv
<1>1. Grows
  BY NextInv
<1>2. ASSUME NEW t \in Transfers, NEW r \in Records, Gone(bookmark[r], item[t][r]),
             item'[t][r].stamp = item[t][r].stamp, item'[t][r].rev = item[t][r].rev
      PROVE  Gone(bookmark'[r], item'[t][r])
  <2>1. item[t][r] \in ItemType /\ ItemTimely(item[t][r], clock)
    BY DEF TypeOK, Timely
  <2>2. Gone(bookmark'[r], item[t][r])
    BY <1>2, <2>1, GoneStays
  <2> QED BY <1>2, <2>2 DEF Gone
<1>3. ASSUME NEW t \in Transfers, NEW r \in Records, item'[t][r].state = "finalized"
      PROVE  item'[t][r].ack /\ Gone(bookmark'[r], item'[t][r])
  <2>1. ASSUME NEW p \in Passes, QueueBatch(p)
        PROVE  item'[t][r] = item[t][r]
    BY <1>3, <2>1, QueuedItems
  <2>2. /\ item'[t][r].stamp = item[t][r].stamp
        /\ item'[t][r].rev = item[t][r].rev
        /\ \/ item[t][r].state = "finalized"
           \/ /\ item[t][r].ack
              /\ \E p \in Passes : /\ pass[p].pc = "mark" /\ pass[p].removed
                                   /\ pass[p].t = t /\ pass[p].r = r
    BY <1>3, <2>1, ItemsKeepReview
  <2>3. item[t][r].ack /\ Gone(bookmark[r], item[t][r])
    BY <2>2 DEF RemovalsHappened
  <2> QED BY <1>1, <1>2, <2>2, <2>3 DEF Grows
<1>4. ASSUME NEW q \in Passes, pass'[q].pc = "mark", pass'[q].removed
      PROVE  Gone(bookmark'[pass'[q].r], item'[pass'[q].t][pass'[q].r])
  <2>1. CASE /\ pass[q].pc \in {"read", "delete"}
             /\ pass'[q].r = pass[q].r /\ pass'[q].t = pass[q].t
             /\ UNCHANGED item
             /\ bookmark'[pass[q].r].held # "present"
    BY <2>1 DEF Gone
  <2>2. CASE pass'[q] = pass[q]
    <3> DEFINE t == pass[q].t
               r == pass[q].r
    <3>1. t \in Transfers /\ r \in Records
      BY <1>4, <2>2, PassFields DEF TypeOK
    <3>2. Gone(bookmark[r], item[t][r])
      BY <1>4, <2>2 DEF RemovalsHappened
    <3>3. ASSUME NEW p \in Passes, QueueBatch(p)
          PROVE  item'[t][r] = item[t][r]
      <4>1. t # pass[p].t
        BY <1>4, <2>2, <3>3 DEF ReviewedAlone, Reviewing, QueueBatch
      <4> QED BY <3>1, <3>3, <4>1, QueuedItems
    <3>4. item'[t][r].stamp = item[t][r].stamp /\ item'[t][r].rev = item[t][r].rev
      BY <3>1, <3>3, ItemsKeepReview
    <3>5. Gone(bookmark'[r], item'[t][r])
      BY <1>2, <3>1, <3>2, <3>4
    <3> QED BY <2>2, <3>5
  <2> QED BY <1>4, <2>1, <2>2, RemovalFound
<1> QED BY <1>3, <1>4 DEF RemovalsHappened

\* All the items of a completed transfer are finalized.
LEMMA CompletedItems ==
  ASSUME NEW items, NEW r \in Records, PhaseFor(items) = "completed", items[r].state # "none"
  PROVE  items[r].state = "finalized"
<1> DEFINE States == {items[q].state : q \in Records} \ {"none"}
<1>1. items[r].state \in States
  OBVIOUS
<1>2. States = {"finalized"}
  BY DEF PhaseFor
<1> QED BY <1>1, <1>2

\* A completed transfer has left none of the bookmarks it reviewed behind, and
\* its target keeps every one of them, whatever was saved, sealed or removed
\* between the finalizer's steps.
THEOREM CompletionIsMoved == Spec => []CompletedIsMoved
<1>1. Init => Timely /\ RemovalsHappened
  BY DEF Init, Timely, NoNewer, ItemTimely, PassTimely, RemovalsHappened, NoItem, IdlePass, NoSave,
         Reviewing
<1>2. Inv /\ TypeOK' /\ Timely /\ RemovalsHappened /\ [Next]_vars => Timely' /\ RemovalsHappened'
  BY TimelyStep, RemovalsStep DEF Inv
<1>3. Inv /\ PhaseIsDerived /\ RemovalsHappened => CompletedIsMoved
  <2> SUFFICES ASSUME Inv, PhaseIsDerived, RemovalsHappened,
                      NEW t \in Transfers, NEW r \in Records,
                      phase[t] = "completed", item[t][r].state # "none"
               PROVE  <<t, r>> \in target /\ Gone(bookmark[r], item[t][r])
    BY DEF CompletedIsMoved, Gone
  <2>1. item[t][r].state = "finalized"
    BY CompletedItems DEF PhaseIsDerived
  <2>2. item[t][r].ack /\ Gone(bookmark[r], item[t][r])
    BY <2>1 DEF RemovalsHappened
  <2> QED BY <2>2 DEF Inv, DataInv, AcknowledgedIsProved
<1> QED BY <1>1, <1>2, <1>3, Invariance, TypeCorrect, PhaseFollowsItems, PTL DEF Spec


-----------------------------------------------------------------------------
(* What is gone                                                            *)

\* A save reads a record that is there.
LEMMA SaveNotBegun ==
  ASSUME TypeOK, [Next]_vars, NEW r \in Records,
         bookmark[r].held # "present", ~(save.pc = "put" /\ save.r = r)
  PROVE  ~(save'.pc = "put" /\ save'.r = r)
<1>1. CASE UNCHANGED save
  BY <1>1
<1>2. CASE save' = NoSave
  BY <1>2 DEF NoSave
<1>3. ASSUME NEW x \in Records, SaveRead(x)
      PROVE  save'.r # r
  BY <1>3 DEF SaveRead
<1> QED BY <1>1, <1>2, <1>3, SaveWriters

\* A review is about to seal a record that it has found there.
LEMMA SealNotBegun ==
  ASSUME TypeOK, [Next]_vars, NEW r \in Records, NEW q \in Passes,
         bookmark[r].held # "present", ~(pass[q].pc = "seal" /\ pass[q].r = r)
  PROVE  ~(pass'[q].pc = "seal" /\ pass'[q].r = r)
<1>1. CASE pass'[q] = pass[q]
  BY <1>1
<1>2. CASE pass'[q].pc # "seal"
  BY <1>2
<1>3. CASE ReviewRead(q)
  <2>1. PICK x \in pass[q].left :
          \/ Go(q, [pass[q] EXCEPT !.left = @ \ {x}])
          \/ /\ bookmark[x].held = "present"
             /\ \E pc, left, b, seen, original :
                  Go(q, [pc |-> pc, t |-> pass[q].t, left |-> left, batch |-> b, r |-> x,
                         seen |-> seen, original |-> original])
    BY <1>3 DEF ReviewRead
  <2>2. pass[q].pc = "review" /\ pass[q] \in PassType
    BY <1>3 DEF ReviewRead, TypeOK
  <2>3. CASE Go(q, [pass[q] EXCEPT !.left = @ \ {x}])
    BY <2>2, <2>3, PassShape DEF Go, TypeOK
  <2>4. ASSUME bookmark[x].held = "present",
               NEW pc, NEW left, NEW b, NEW seen, NEW original,
               Go(q, [pc |-> pc, t |-> pass[q].t, left |-> left, batch |-> b, r |-> x,
                      seen |-> seen, original |-> original])
        PROVE  pass'[q].r # r
    BY <2>4 DEF Go, TypeOK
  <2> QED BY <2>1, <2>3, <2>4
<1>4. CASE ReviewSeal(q)
  <2>1. pass[q].pc = "seal" /\ pass[q] \in PassType /\ Go(q, [pass[q] EXCEPT !.pc = "reread"])
    BY <1>4 DEF ReviewSeal, TypeOK
  <2>2. pass'[q].pc = "reread"
    BY <2>1, PassShape DEF Go, TypeOK
  <2> QED BY <2>2
<1>5. CASE ReviewReread(q)
  BY <1>5 DEF ReviewReread, Go, TypeOK
<1>6. CASE FinalizerRead(q) \/ FinalizerDelete(q) \/ FinalizerFails(q)
  <2>1. pass'[q].pc \in {"delete", "mark"}
    BY <1>6 DEF FinalizerRead, FinalizerDelete, FinalizerFails, Go, TypeOK
  <2> QED BY <2>1
<1> QED BY <1>1, <1>2, <1>3, <1>4, <1>5, <1>6, PassMovers

\* No step puts a record that is gone, unless it was in hand.
LEMMA NotPutBack ==
  ASSUME TypeOK, [Next]_vars, NEW r \in Records, bookmark[r].held # "present", ~InHand(r)
  PROVE  bookmark'[r].held # "present"
<1>1. CASE SavePut
  <2>1. save.pc = "put" /\ save.r # r
    BY <1>1 DEF SavePut, InHand
  <2> QED BY <1>1, <2>1 DEF SavePut, TypeOK
<1>2. ASSUME NEW p \in Passes, ReviewSeal(p)
      PROVE  bookmark'[r].held # "present"
  <2>1. pass[p].pc = "seal" /\ pass[p].r # r
    BY <1>2 DEF ReviewSeal, InHand
  <2> QED BY <1>2, <2>1 DEF ReviewSeal, TypeOK
<1>3. ASSUME NEW p \in Passes, FinalizerDelete(p)
      PROVE  bookmark'[r].held # "present"
  BY <1>3 DEF FinalizerDelete, TypeOK, BookmarkType
<1>4. ASSUME NEW x \in Records, Delete(x)
      PROVE  bookmark'[r].held # "present"
  BY <1>4 DEF Delete, TypeOK, BookmarkType
<1> QED BY <1>1, <1>2, <1>3, <1>4, BookmarkWriters

\* A bookmark that is gone comes back only by what had read it before.
THEOREM GoneForGood == Spec => GoneStaysGone
<1>1. ASSUME TypeOK, [Next]_vars, NEW r \in Records,
             bookmark[r].held # "present", ~InHand(r)
      PROVE  bookmark'[r].held # "present" /\ ~InHand(r)'
  <2>1. \A p \in Passes : ~(pass'[p].pc = "seal" /\ pass'[p].r = r)
    BY <1>1, SealNotBegun DEF InHand
  <2>2. ~(save'.pc = "put" /\ save'.r = r)
    BY <1>1, SaveNotBegun DEF InHand
  <2> QED BY <1>1, <2>1, <2>2, NotPutBack DEF InHand
<1>2. TypeOK /\ [Next]_vars =>
        [\A r \in Records : bookmark[r].held # "present" /\ ~InHand(r) =>
           bookmark'[r].held # "present" /\ ~InHand(r)']_vars
  BY <1>1
<1> QED BY <1>2, TypeCorrect, PTL DEF Spec, GoneStaysGone

-----------------------------------------------------------------------------
(* Calls end                                                               *)

\* updateFinalization finds the acceptance that pendingFinalization saw.
THEOREM FinalizationIsAccepted == Spec => []FinalizationIsNotRefused
<1>1. Inv => FinalizationIsNotRefused
  BY DEF Inv, PassesSound, PassSound, Removable, FinalizationIsNotRefused
<1> QED BY <1>1, Invariance, PTL

LEMMA Stages ==
  ASSUME NEW s
  PROVE  /\ s.pc \in {"review", "seal", "reread"} => Stage(s) = 5
         /\ s.pc \in {"publish", "deliver"} => Stage(s) = 4
         /\ s.pc = "list" => Stage(s) = 3
         /\ s.pc = "apply" => Stage(s) = 2
         /\ s.pc \in {"finalize", "read", "delete", "mark"} => Stage(s) = 1
         /\ s.pc = "idle" => Stage(s) = 0
BY DEF Stage

LEMMA Turns ==
  ASSUME NEW s
  PROVE  /\ s.pc = "read" => Turn(s) = 3
         /\ s.pc \in {"seal", "delete"} => Turn(s) = 2
         /\ s.pc \in {"reread", "deliver", "mark"} => Turn(s) = 1
         /\ s.pc \in {"review", "publish", "finalize", "apply"} => Turn(s) = 0
BY DEF Turn

\* A call that is over is nearer than any in flight.
LEMMA EndIsNearer ==
  ASSUME NEW s \in PassType, s.pc # "idle", NEW next, next.pc = "idle"
  PROVE  Nearer(s, next)
<1>1. Stage(next) = 0 /\ Stage(s) \in 1..5
  BY PassShape, Stages
<1> QED BY <1>1 DEF Nearer

LEMMA GoneOn ==
  ASSUME TypeOK, NEW p \in Passes, NEW s, Go(p, s)
  PROVE  pass'[p] = s /\ \A q \in Passes : q # p => pass'[q] = pass[q]
BY DEF TypeOK, Go

\* The steps of the review.
LEMMA ReviewComesNearer ==
  ASSUME TypeOK, NEW p \in Passes,
         ReviewRead(p) \/ ReviewSeal(p) \/ ReviewReread(p) \/ QueueBatch(p)
  PROVE  Nearer(pass[p], pass'[p])
<1>1. CASE ReviewRead(p)
  <2>1. PICK r \in pass[p].left :
          \/ Go(p, [pass[p] EXCEPT !.left = @ \ {r}])
          \/ \E pc \in {"seal", "reread"} : \E b, seen, original :
               Go(p, [pc |-> pc, t |-> pass[p].t, left |-> pass[p].left \ {r}, batch |-> b,
                      r |-> r, seen |-> seen, original |-> original])
    BY <1>1 DEF ReviewRead
  <2>2. pass[p].pc = "review" /\ pass[p] \in PassType
    BY <1>1 DEF ReviewRead, TypeOK
  <2>3. /\ pass'[p].pc \in {"review", "seal", "reread"}
        /\ pass'[p].left = pass[p].left \ {r}
    <3>1. CASE Go(p, [pass[p] EXCEPT !.left = @ \ {r}])
      BY <2>2, <3>1, GoneOn, PassShape
    <3>2. ASSUME NEW pc \in {"seal", "reread"}, NEW b, NEW seen, NEW original,
                 Go(p, [pc |-> pc, t |-> pass[p].t, left |-> pass[p].left \ {r}, batch |-> b,
                        r |-> r, seen |-> seen, original |-> original])
          PROVE  pass'[p].pc \in {"seal", "reread"} /\ pass'[p].left = pass[p].left \ {r}
      BY <3>2, GoneOn
    <3> QED BY <2>1, <3>1, <3>2
  <2>4. Stage(pass[p]) = 5 /\ Stage(pass'[p]) = 5
    BY <2>2, <2>3, Stages
  <2> QED BY <2>1, <2>3, <2>4 DEF Nearer
<1>2. CASE ReviewSeal(p)
  <2>1. /\ pass[p].pc = "seal" /\ pass[p] \in PassType
        /\ Go(p, [pass[p] EXCEPT !.pc = "reread"])
    BY <1>2 DEF ReviewSeal, TypeOK
  <2>2. pass'[p].pc = "reread" /\ pass'[p].left = pass[p].left
    BY <2>1, GoneOn, PassShape
  <2>3. Stage(pass[p]) = 5 /\ Stage(pass'[p]) = 5 /\ Turn(pass[p]) = 2 /\ Turn(pass'[p]) = 1
    BY <2>1, <2>2, Stages, Turns
  <2> QED BY <2>2, <2>3 DEF Nearer
<1>3. CASE ReviewReread(p)
  <2>1. PICK b : Go(p, [pc |-> "review", t |-> pass[p].t, left |-> pass[p].left, batch |-> b])
    BY <1>3 DEF ReviewReread
  <2>2. pass[p].pc = "reread" /\ pass'[p].pc = "review" /\ pass'[p].left = pass[p].left
    BY <1>3, <2>1, GoneOn DEF ReviewReread
  <2>3. Stage(pass[p]) = 5 /\ Stage(pass'[p]) = 5 /\ Turn(pass[p]) = 1 /\ Turn(pass'[p]) = 0
    BY <2>2, Stages, Turns
  <2> QED BY <2>2, <2>3 DEF Nearer
<1>4. CASE QueueBatch(p)
  <2>1. PICK rows : Go(p, [pc |-> "publish", t |-> pass[p].t, resumed |-> FALSE, left |-> rows])
    BY <1>4 DEF QueueBatch
  <2>2. pass[p].pc = "review" /\ pass'[p].pc = "publish"
    BY <1>4, <2>1, GoneOn DEF QueueBatch
  <2>3. Stage(pass[p]) = 5 /\ Stage(pass'[p]) = 4
    BY <2>2, Stages
  <2> QED BY <2>3 DEF Nearer
<1> QED BY <1>1, <1>2, <1>3, <1>4

\* The steps of publication and of the answers' application.
LEMMA TransferComesNearer ==
  ASSUME TypeOK, NEW p \in Passes,
         \/ Upload(p) \/ MarkDelivered(p) \/ Published(p)
         \/ ListAnswers(p) \/ Apply(p) \/ PendingFinalization(p)
  PROVE  Nearer(pass[p], pass'[p])
<1>0. pass[p] \in PassType
  BY DEF TypeOK
<1>1. CASE Upload(p)
  <2>1. PICK m \in pass[p].left :
          Go(p, [pc |-> "deliver", t |-> pass[p].t, resumed |-> pass[p].resumed,
                 left |-> pass[p].left \ {m}, m |-> m])
    BY <1>1 DEF Upload
  <2>2. pass[p].pc = "publish" /\ pass'[p].pc = "deliver" /\ pass'[p].left = pass[p].left \ {m}
    BY <1>1, <2>1, GoneOn DEF Upload
  <2>3. Stage(pass[p]) = 4 /\ Stage(pass'[p]) = 4
    BY <2>2, Stages
  <2> QED BY <2>1, <2>2, <2>3 DEF Nearer
<1>2. CASE MarkDelivered(p)
  <2>1. /\ pass[p].pc = "deliver" /\ pass'[p].pc = "publish" /\ pass'[p].left = pass[p].left
    BY <1>2, GoneOn DEF MarkDelivered
  <2>2. Stage(pass[p]) = 4 /\ Stage(pass'[p]) = 4 /\ Turn(pass[p]) = 1 /\ Turn(pass'[p]) = 0
    BY <2>1, Stages, Turns
  <2> QED BY <2>1, <2>2 DEF Nearer
<1>3. CASE Published(p)
  <2>1. pass[p].pc = "publish" /\ pass'[p].pc \in {"list", "idle"}
    BY <1>3, GoneOn DEF Published, IdlePass
  <2>2. Stage(pass[p]) = 4 /\ Stage(pass'[p]) \in {3, 0}
    BY <2>1, Stages
  <2> QED BY <2>2 DEF Nearer
<1>4. CASE ListAnswers(p)
  <2>1. pass[p].pc = "list" /\ pass'[p].pc = "apply"
    BY <1>4, GoneOn DEF ListAnswers
  <2>2. Stage(pass[p]) = 3 /\ Stage(pass'[p]) = 2
    BY <2>1, Stages
  <2> QED BY <2>2 DEF Nearer
<1>5. CASE Apply(p)
  <2>1. PICK a \in pass[p].left : Go(p, [pass[p] EXCEPT !.left = @ \ {a}])
    BY <1>5 DEF Apply
  <2>2. /\ pass[p].pc = "apply" /\ pass'[p].pc = "apply"
        /\ pass'[p].left = pass[p].left \ {a}
    BY <1>0, <1>5, <2>1, GoneOn, PassShape DEF Apply
  <2>3. Stage(pass[p]) = 2 /\ Stage(pass'[p]) = 2
    BY <2>2, Stages
  <2> QED BY <2>1, <2>2, <2>3 DEF Nearer
<1>6. CASE PendingFinalization(p)
  <2>1. pass[p].pc = "apply" /\ pass'[p].pc \in {"finalize", "idle"}
    BY <1>6, GoneOn DEF PendingFinalization, IdlePass
  <2>2. Stage(pass[p]) = 2 /\ Stage(pass'[p]) \in {1, 0}
    BY <2>1, Stages
  <2> QED BY <2>2 DEF Nearer
<1> QED BY <1>1, <1>2, <1>3, <1>4, <1>5, <1>6

\* The steps of the finalizing loop, a failed removal among them.
LEMMA FinalizingComesNearer ==
  ASSUME TypeOK, NEW p \in Passes,
         MarkFinalizing(p) \/ FinalizerRead(p) \/ FinalizerDelete(p) \/ FinalizerFails(p)
           \/ MarkOutcome(p)
  PROVE  Nearer(pass[p], pass'[p])
<1>1. CASE MarkFinalizing(p)
  <2>1. PICK r \in pass[p].left :
          Go(p, [pc |-> "read", t |-> pass[p].t, left |-> pass[p].left \ {r}, r |-> r])
    BY <1>1 DEF MarkFinalizing
  <2>2. pass[p].pc = "finalize" /\ pass'[p].pc = "read" /\ pass'[p].left = pass[p].left \ {r}
    BY <1>1, <2>1, GoneOn DEF MarkFinalizing
  <2>3. Stage(pass[p]) = 1 /\ Stage(pass'[p]) = 1
    BY <2>2, Stages
  <2> QED BY <2>1, <2>2, <2>3 DEF Nearer
<1>2. CASE FinalizerRead(p)
  <2>1. /\ pass[p].pc = "read" /\ pass'[p].pc \in {"delete", "mark"}
        /\ pass'[p].left = pass[p].left
    BY <1>2, GoneOn DEF FinalizerRead
  <2>2. /\ Stage(pass[p]) = 1 /\ Stage(pass'[p]) = 1
        /\ Turn(pass[p]) = 3 /\ Turn(pass'[p]) \in {2, 1}
    BY <2>1, Stages, Turns
  <2> QED BY <2>1, <2>2 DEF Nearer
<1>3. CASE FinalizerDelete(p) \/ FinalizerFails(p)
  <2>1. PICK removed :
          Go(p, [pc |-> "mark", t |-> pass[p].t, left |-> pass[p].left, r |-> pass[p].r,
                 removed |-> removed])
    BY <1>3 DEF FinalizerDelete, FinalizerFails
  <2>2. pass[p].pc = "delete" /\ pass'[p].pc = "mark" /\ pass'[p].left = pass[p].left
    BY <1>3, <2>1, GoneOn DEF FinalizerDelete, FinalizerFails
  <2>3. Stage(pass[p]) = 1 /\ Stage(pass'[p]) = 1 /\ Turn(pass[p]) = 2 /\ Turn(pass'[p]) = 1
    BY <2>2, Stages, Turns
  <2> QED BY <2>2, <2>3 DEF Nearer
<1>4. CASE MarkOutcome(p)
  <2>1. pass[p].pc = "mark" /\ pass'[p].pc = "finalize" /\ pass'[p].left = pass[p].left
    BY <1>4, GoneOn DEF MarkOutcome
  <2>2. Stage(pass[p]) = 1 /\ Stage(pass'[p]) = 1 /\ Turn(pass[p]) = 1 /\ Turn(pass'[p]) = 0
    BY <2>1, Stages, Turns
  <2> QED BY <2>1, <2>2 DEF Nearer
<1> QED BY <1>1, <1>2, <1>3, <1>4

\* The steps that end a call.
LEMMA LastStep ==
  ASSUME TypeOK, NEW p \in Passes,
         ReviewEmpty(p) \/ Corrupt(p) \/ Reconciled(p) \/ TransportFails(p)
  PROVE  Nearer(pass[p], pass'[p])
<1>1. pass[p].pc # "idle" /\ pass[p] \in PassType
  BY DEF TypeOK, ReviewEmpty, Corrupt, Reconciled, TransportFails
<1>2. pass'[p].pc = "idle"
  BY GoneOn DEF ReviewEmpty, Corrupt, Reconciled, TransportFails, IdlePass
<1> QED BY <1>1, <1>2, EndIsNearer

LEMMA StepComesNearer ==
  ASSUME TypeOK, NEW p \in Passes, Step(p) \/ TransportFails(p) \/ FinalizerFails(p)
  PROVE  Nearer(pass[p], pass'[p])
BY ReviewComesNearer, TransferComesNearer, FinalizingComesNearer, LastStep DEF Step

\* A call moves another one at no time, and begins only in an idle slot.
LEMMA OnlyOwnSteps ==
  ASSUME TypeOK, [Next]_vars, NEW p \in Passes, pass[p].pc # "idle", pass'[p] # pass[p]
  PROVE  Step(p) \/ TransportFails(p) \/ FinalizerFails(p) \/ WorkerStops
<1>1. ASSUME NEW q \in Passes, Step(q) \/ TransportFails(q) \/ FinalizerFails(q)
      PROVE  q = p
  <2>1. CASE \/ ReviewRead(q) \/ ReviewSeal(q) \/ ReviewReread(q)
             \/ QueueBatch(q) \/ ReviewEmpty(q)
    <3>1. \E s : Go(q, s)
      BY <2>1 DEF ReviewRead, ReviewSeal, ReviewReread, QueueBatch, ReviewEmpty
    <3> QED BY <3>1, GoneOn
  <2>2. CASE \/ Upload(q) \/ MarkDelivered(q) \/ Published(q) \/ ListAnswers(q)
             \/ Apply(q) \/ Corrupt(q) \/ TransportFails(q)
    <3>1. \E s : Go(q, s)
      BY <2>2 DEF Upload, MarkDelivered, Published, ListAnswers, Apply, Corrupt,
                  TransportFails
    <3> QED BY <3>1, GoneOn
  <2>3. CASE \/ PendingFinalization(q) \/ MarkFinalizing(q) \/ FinalizerRead(q)
             \/ FinalizerDelete(q) \/ FinalizerFails(q) \/ MarkOutcome(q) \/ Reconciled(q)
    <3>1. \E s : Go(q, s)
      BY <2>3 DEF PendingFinalization, MarkFinalizing, FinalizerRead, FinalizerDelete,
                  FinalizerFails, MarkOutcome, Reconciled
    <3> QED BY <3>1, GoneOn
  <2> QED BY <1>1, <2>1, <2>2, <2>3 DEF Step
<1>2. ASSUME NEW q \in Passes, NEW t \in Transfers,
             \/ \E selection \in SUBSET Records : Start(q, t, selection)
             \/ Resume(q, t) \/ \E unlocked \in BOOLEAN : Status(q, t, unlocked)
      PROVE  FALSE
  <2>1. pass[q].pc = "idle" /\ \E s : Go(q, s)
    BY <1>2 DEF Start, Resume, Status
  <2> QED BY <2>1, GoneOn
<1>3. ASSUME \/ SavePut \/ UNCHANGED vars
             \/ \E r \in Records : SaveRead(r) \/ Delete(r)
             \/ \E t \in Transfers, r \in Records, status \in TargetAnswers :
                  TargetAnswer(t, r, status)
      PROVE  FALSE
  BY <1>3 DEF SavePut, SaveRead, Delete, TargetAnswer, vars
<1> QED BY <1>1, <1>2, <1>3 DEF Next

\* Calls come nearer to their end with every step, for any number of records,
\* answers and calls; under the fairness of FairSpec, that is why they end.
THEOREM CallsGoForward == Spec => CallsComeNearer
<1>1. ASSUME TypeOK, [Next]_vars, NEW p \in Passes,
             Step(p) \/ (pass[p].pc # "idle" /\ pass'[p] # pass[p])
      PROVE  Nearer(pass[p], pass'[p])
  <2>1. CASE Step(p) \/ TransportFails(p) \/ FinalizerFails(p)
    BY <1>1, <2>1, StepComesNearer
  <2>2. CASE WorkerStops /\ pass[p].pc # "idle"
    <3>1. pass'[p].pc = "idle" /\ pass[p] \in PassType
      BY <1>1, <2>2 DEF WorkerStops, IdlePass, TypeOK
    <3> QED BY <2>2, <3>1, EndIsNearer
  <2> QED BY <1>1, <2>1, <2>2, OnlyOwnSteps
<1>2. TypeOK /\ [Next]_vars =>
        [\A p \in Passes :
           Step(p) \/ (pass[p].pc # "idle" /\ pass'[p] # pass[p]) => Nearer(pass[p], pass'[p])]_vars
  BY <1>1
<1> QED BY <1>2, TypeCorrect, PTL DEF Spec, CallsComeNearer
===============================================================================

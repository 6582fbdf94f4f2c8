------------------------------ MODULE MoveSource ------------------------------
(***************************************************************************)
(* The source side of an Overlook Move, as the background worker runs it.  *)
(*                                                                         *)
(* A Move sends reviewed bookmarks to Overlook and removes each of them    *)
(* here once an acknowledgement proves that Overlook keeps it.  Everything *)
(* durable lives in IndexedDB: the bookmarks, one item per reviewed        *)
(* record, the outbox rows, the receipts and the journal phase.  A call of *)
(* the runtime (start, resume or status, from any tab) is a "pass": an     *)
(* asynchronous procedure that awaits between transactions, so passes      *)
(* interleave with each other, with the user's edits, with Overlook, and   *)
(* all of them vanish when the browser stops the service worker.  Each     *)
(* action below is one IndexedDB transaction or one provider request.      *)
(*                                                                         *)
(* Overlook is external: the model lets it publish any answer the envelope *)
(* schema admits (TargetAnswers) for a message it has received.            *)
(***************************************************************************)
EXTENDS Naturals, FiniteSets

CONSTANTS
  Transfers,        \* transfer identities; start draws a fresh one
  Records,          \* bookmarks; their numbers are the reviewed order
  StoredOriginals,  \* the records that have a captured original
  Passes,           \* runtime calls that may be in flight together
  TargetAnswers,    \* the answers Overlook may publish
  LastSave,         \* bound: the user begins no save from this time on
  MaxFaults         \* bound: worker stops, transport failures, failed finalizers

ASSUME RecordsAssumption == Records \subseteq Nat /\ StoredOriginals \subseteq Records
ASSUME AnswersAssumption == TargetAnswers \subseteq {"accepted", "rejected", "unproven"}
ASSUME BoundsAssumption == LastSave \in Nat /\ MaxFaults \in Nat

VARIABLES
  bookmark,  \* the bookmark store
  item,      \* the Move items, per transfer and record
  phase,     \* the journal phase, per transfer ("none": no journal)
  outbox,    \* the outbox rows, per transfer
  receipts,  \* the answers whose receipt is stored
  provider,  \* the objects uploaded to the transport
  answers,   \* the acknowledgement objects Overlook has published
  target,    \* the <<transfer, record>> pairs Overlook holds durably
  pass,      \* the runtime calls in flight
  save,      \* the user's save in flight
  clock,     \* numbers new contents and new updatedAts
  faults     \* how many faults have happened

vars == <<bookmark, item, phase, outbox, receipts, provider, answers, target,
          pass, save, clock, faults>>

-----------------------------------------------------------------------------
(* Data                                                                    *)

Originals == {"available", "metadata-only", "unavailable"}

\* held: present, or removed by the user, or removed by a Move's finalizer.
\* rev numbers the content, stamp is the envelope's updatedAt.  The interop
\* custody sealed into the record is a canonical record of its own: custody is
\* the original state it claims, sealed the content it was made from.
BookmarkType ==
  [held : {"present", "deleted", "moved"}, rev : Nat, stamp : Nat,
   custody : Originals \cup {"none"}, sealed : Nat]

SaveType == [pc : {"idle"}] \cup [pc : {"put"}, r : Records, seen : BookmarkType]

NoSave == [pc |-> "idle"]

ItemStates ==
  {"none", "queued", "acknowledged", "finalizing", "finalized", "rejected", "failed"}

\* ack and fin stand for acknowledgedAt and finalizedAt being set; stamp is
\* sourceUpdatedAt; rev and original describe the sealed record message.
ItemType ==
  [state : ItemStates, ack : BOOLEAN, fin : BOOLEAN, stamp : Nat, rev : Nat,
   original : Originals,
   verification : {"pending", "verified", "metadata-only", "unavailable"}]

NoItem ==
  [state |-> "none", ack |-> FALSE, fin |-> FALSE, stamp |-> 0, rev |-> 0,
   original |-> "unavailable", verification |-> "pending"]

Phases ==
  {"none", "awaiting-acknowledgement", "acknowledged", "finalizing", "failed", "completed"}

\* A record travels as its record message and, when the original was read, the
\* blob message with the ciphertext it names.
Messages == Records \X {"record", "original"}

Answers == [t : Transfers, r : Records, status : {"accepted", "rejected", "unproven"}]

\* What review keeps of one record until the batch is queued.
Reviewed == [r : Records, rev : Nat, stamp : Nat, original : Originals]

PassType ==
       [pc : {"idle"}]
  \cup [pc : {"review"}, t : Transfers, left : SUBSET Records, batch : SUBSET Reviewed]
  \cup [pc : {"seal", "reread"}, t : Transfers, left : SUBSET Records,
        batch : SUBSET Reviewed, r : Records, seen : BookmarkType, original : Originals]
  \cup [pc : {"publish"}, t : Transfers, resumed : BOOLEAN, left : SUBSET Messages]
  \cup [pc : {"deliver"}, t : Transfers, resumed : BOOLEAN, left : SUBSET Messages, m : Messages]
  \cup [pc : {"list"}, t : Transfers, unlocked : BOOLEAN]
  \cup [pc : {"apply"}, t : Transfers, unlocked : BOOLEAN, left : SUBSET Answers]
  \cup [pc : {"finalize"}, t : Transfers, left : SUBSET Records]
  \cup [pc : {"read"}, t : Transfers, left : SUBSET Records, r : Records]
  \cup [pc : {"delete"}, t : Transfers, left : SUBSET Records, r : Records, seen : Nat]
  \cup [pc : {"mark"}, t : Transfers, left : SUBSET Records, r : Records, removed : BOOLEAN]

IdlePass == [pc |-> "idle"]

\* The verification an acceptance has to report for a reviewed original.
ExpectedVerification(original) ==
  IF original = "available" THEN "verified" ELSE original

AnyOriginal(i) == i.ack /\ ~i.fin                   \* mutant: metadata-only included
FirstAttempt(i) ==                                  \* mutant: failures never retried
  i.ack /\ i.verification # "metadata-only" /\ i.state = "acknowledged"

Finalizable(i) ==
  /\ i.ack
  /\ i.verification # "metadata-only"
  /\ ~i.fin

SomeFinalized(items) == \* mutant: one finalized item completes the transfer
  LET States == {items[r].state : r \in Records} \ {"none"}
  IN  IF States \cap {"failed", "rejected"} # {} THEN "failed"
      ELSE IF "finalizing" \in States THEN "finalizing"
      ELSE IF "queued" \in States THEN "awaiting-acknowledgement"
      ELSE IF "finalized" \in States THEN "completed"
      ELSE "acknowledged"

\* The journal phase, derived from the items of one transfer.
PhaseFor(items) ==
  LET States == {items[r].state : r \in Records} \ {"none"}
  IN  IF States \cap {"failed", "rejected"} # {} THEN "failed"
      ELSE IF "finalizing" \in States THEN "finalizing"
      ELSE IF "queued" \in States THEN "awaiting-acknowledgement"
      ELSE IF States = {"finalized"} THEN "completed"
      ELSE "acknowledged"

\* The outbox rows a reviewed record puts.
MessagesOf(r, original) ==
  {<<r, "record">>} \cup (IF original = "available" THEN {<<r, "original">>} ELSE {})

Pending(t) == {m \in Messages : outbox[t][m] = "pending"}

-----------------------------------------------------------------------------
Init ==
  /\ bookmark = [r \in Records |-> [held |-> "present", rev |-> 0, stamp |-> 0,
                                    custody |-> "none", sealed |-> 0]]
  /\ item = [t \in Transfers |-> [r \in Records |-> NoItem]]
  /\ phase = [t \in Transfers |-> "none"]
  /\ outbox = [t \in Transfers |-> [m \in Messages |-> "none"]]
  /\ receipts = {}
  /\ provider = {}
  /\ answers = {}
  /\ target = {}
  /\ pass = [p \in Passes |-> IdlePass]
  /\ save = NoSave
  /\ clock = 0
  /\ faults = 0

Go(p, state) == pass' = [pass EXCEPT ![p] = state]

-----------------------------------------------------------------------------
(* Start: review the selection, queue one batch, publish it.               *)

\* The transfer identity is a fresh UUID, so no pass or journal has it.
Start(p, t, selection) ==
  /\ pass[p].pc = "idle"
  /\ phase[t] = "none"
  /\ \A q \in Passes : pass[q].pc # "idle" => pass[q].t # t
  /\ selection # {}
  /\ Go(p, [pc |-> "review", t |-> t, left |-> selection, batch |-> {}])
  /\ UNCHANGED <<bookmark, item, phase, outbox, receipts, provider, answers, target, faults, save, clock>>

\* Read the next bookmark, and its original when there is one and the session
\* key opens it.  A record that is gone counts as unsupported.
ReviewRead(p) ==
  /\ pass[p].pc = "review"
  /\ \E r \in pass[p].left :
       /\ \A s \in pass[p].left : r <= s
       /\ \/ /\ bookmark[r].held # "present"
             /\ Go(p, [pass[p] EXCEPT !.left = @ \ {r}])
          \/ /\ bookmark[r].held = "present"
             /\ \E original \in (IF r \in StoredOriginals
                                 THEN {"available", "metadata-only"} ELSE {"unavailable"}) :
                  Go(p, [pc |-> IF original = bookmark[r].custody THEN "reread" ELSE "seal",
                         t |-> pass[p].t, left |-> pass[p].left \ {r},
                         batch |-> pass[p].batch, r |-> r, seen |-> bookmark[r],
                         original |-> original])
  /\ UNCHANGED <<bookmark, item, phase, outbox, receipts, provider, answers, target, faults, save, clock>>

\* The content of the canonical record: custody that is already there is kept,
\* with the fields it was made from, and only its original state is renewed.
Canonical(b) == IF b.custody = "none" THEN b.rev ELSE b.sealed

\* Seal the interop custody into the record: a whole-record put of the payload
\* that was read, under a new updatedAt.
ReviewSeal(p) ==
  /\ pass[p].pc = "seal"
  /\ clock' = clock + 1
  /\ LET r == pass[p].r
     IN  bookmark' = [bookmark EXCEPT ![r] =
           [held |-> "present", rev |-> pass[p].seen.rev, stamp |-> clock + 1,
            custody |-> pass[p].original, sealed |-> Canonical(pass[p].seen)]]
  /\ Go(p, [pass[p] EXCEPT !.pc = "reread"])
  /\ UNCHANGED <<item, phase, outbox, receipts, provider, answers, target, faults, save>>

\* Read the record again for its updatedAt.  The message carries the canonical
\* record of the first read; sourceUpdatedAt is taken from this one.
ReviewReread(p) ==
  /\ pass[p].pc = "reread"
  /\ LET r == pass[p].r
         reviewed == [r |-> r, rev |-> Canonical(pass[p].seen), stamp |-> bookmark[r].stamp,
                      original |-> pass[p].original]
     IN  Go(p, [pc |-> "review", t |-> pass[p].t, left |-> pass[p].left,
                batch |-> IF bookmark[r].held = "present"
                          THEN pass[p].batch \cup {reviewed} ELSE pass[p].batch])
  /\ UNCHANGED <<bookmark, item, phase, outbox, receipts, provider, answers, target, faults, save, clock>>

\* One transaction puts the journal, every item and every outbox row; then
\* publication snapshots the pending rows.
QueueBatch(p) ==
  /\ pass[p].pc = "review"
  /\ pass[p].left = {}
  /\ pass[p].batch # {}
  /\ LET t == pass[p].t
         batch == pass[p].batch
         rows == UNION {MessagesOf(b.r, b.original) : b \in batch}
         queued == [r \in Records |->
                     IF \E b \in batch : b.r = r
                     THEN LET b == CHOOSE x \in batch : x.r = r
                          IN  [state |-> "queued", ack |-> FALSE, fin |-> FALSE,
                               stamp |-> b.stamp, rev |-> b.rev,
                               original |-> b.original, verification |-> "pending"]
                     ELSE NoItem]
     IN  /\ item' = [item EXCEPT ![t] = queued]
         /\ phase' = [phase EXCEPT ![t] = "awaiting-acknowledgement"]
         /\ outbox' = [outbox EXCEPT ![t] = [m \in Messages |-> IF m \in rows THEN "pending" ELSE "none"]]
         /\ Go(p, [pc |-> "publish", t |-> t, resumed |-> FALSE, left |-> rows])
  /\ UNCHANGED <<bookmark, receipts, provider, answers, target, faults, save, clock>>

\* Nothing in the selection could be exported: start throws.
ReviewEmpty(p) ==
  /\ pass[p].pc = "review"
  /\ pass[p].left = {}
  /\ pass[p].batch = {}
  /\ Go(p, IdlePass)
  /\ UNCHANGED <<bookmark, item, phase, outbox, receipts, provider, answers, target, faults, save, clock>>

-----------------------------------------------------------------------------
(* Resume and status                                                       *)

\* Resume requires an unlocked session; it republishes what is undelivered.
Resume(p, t) ==
  /\ pass[p].pc = "idle"
  /\ phase[t] # "none"
  /\ Go(p, [pc |-> "publish", t |-> t, resumed |-> TRUE, left |-> Pending(t)])
  /\ UNCHANGED <<bookmark, item, phase, outbox, receipts, provider, answers, target, faults, save, clock>>

\* Status reconciles without publishing, and finalizes only when unlocked.
Status(p, t, unlocked) ==
  /\ pass[p].pc = "idle"
  /\ phase[t] # "none"
  /\ Go(p, [pc |-> "list", t |-> t, unlocked |-> unlocked])
  /\ UNCHANGED <<bookmark, item, phase, outbox, receipts, provider, answers, target, faults, save, clock>>

\* Rows go out by sequence; the record precedes its original.
Foremost(m, left) ==
  \A n \in left : n[1] > m[1] \/ (n[1] = m[1] /\ (m[2] = "record" \/ n[2] # "record"))

Upload(p) ==
  /\ pass[p].pc = "publish"
  /\ \E m \in pass[p].left :
       /\ Foremost(m, pass[p].left)
       /\ provider' = provider \cup {<<pass[p].t, m>>}
       /\ Go(p, [pc |-> "deliver", t |-> pass[p].t, resumed |-> pass[p].resumed,
                 left |-> pass[p].left \ {m}, m |-> m])
  /\ UNCHANGED <<bookmark, item, phase, outbox, receipts, answers, target, faults, save, clock>>

\* A provider request fails and ends the call.  A row that was not delivered
\* stays pending; an answer that was not applied is listed again.
TransportFails(p) ==
  /\ \/ pass[p].pc \in {"publish", "apply"} /\ pass[p].left # {}
     \/ pass[p].pc = "list"
  /\ faults < MaxFaults
  /\ faults' = faults + 1
  /\ Go(p, IdlePass)
  /\ UNCHANGED <<bookmark, item, phase, outbox, receipts, provider, answers, target, save, clock>>

MarkDelivered(p) ==
  /\ pass[p].pc = "deliver"
  /\ outbox' = [outbox EXCEPT ![pass[p].t][pass[p].m] = IF @ = "pending" THEN "delivered" ELSE @]
  /\ Go(p, [pc |-> "publish", t |-> pass[p].t, resumed |-> pass[p].resumed, left |-> pass[p].left])
  /\ UNCHANGED <<bookmark, item, phase, receipts, provider, answers, target, faults, save, clock>>

\* A start is over once everything is published; a resume goes on to reconcile.
Published(p) ==
  /\ pass[p].pc = "publish"
  /\ pass[p].left = {}
  /\ Go(p, IF pass[p].resumed THEN [pc |-> "list", t |-> pass[p].t, unlocked |-> TRUE]
           ELSE IdlePass)
  /\ UNCHANGED <<bookmark, item, phase, outbox, receipts, provider, answers, target, faults, save, clock>>

-----------------------------------------------------------------------------
(* Reconciliation: apply what Overlook answered, then finalize.            *)

ListAnswers(p) ==
  /\ pass[p].pc = "list"
  /\ Go(p, [pc |-> "apply", t |-> pass[p].t, unlocked |-> pass[p].unlocked,
            left |-> {a \in answers : a.t = pass[p].t}])
  /\ UNCHANGED <<bookmark, item, phase, outbox, receipts, provider, answers, target, faults, save, clock>>

\* Paths sort by sequence, then by message identity.
NextAnswer(a, left) == a \in left /\ \A b \in left : a.r <= b.r

Rejected(i) == [i EXCEPT !.state = "rejected", !.verification = "pending", !.ack = FALSE]
Accepted(i) == [i EXCEPT !.state = "acknowledged", !.ack = TRUE,
                         !.verification = ExpectedVerification(i.original)]

LastAnswerWins(i, a) == \* mutant: keepAccepted dropped
  IF a.status = "rejected" THEN Rejected(i) ELSE Accepted(i)

\* The item after an answer; once accepted, it keeps its acceptance.
Answered(i, a) ==
  IF i.ack THEN i ELSE IF a.status = "rejected" THEN Rejected(i) ELSE Accepted(i)

AnyProof(a) == TRUE \* mutant: custody fields not verified

\* A rejection proves nothing and needs nothing; an acceptance has to show
\* stored metadata, a target record and the expected original verification.
Verified(a) == a.status # "unproven"

\* verify, then one transaction: receipt, item, phase.  A stored receipt makes
\* the answer a replay that changes nothing.
Apply(p) ==
  /\ pass[p].pc = "apply"
  /\ \E a \in pass[p].left :
       /\ NextAnswer(a, pass[p].left)
       /\ Verified(a)
       /\ \/ /\ a \in receipts
             /\ UNCHANGED <<item, phase, receipts>>
          \/ /\ a \notin receipts
             /\ LET items == [item[a.t] EXCEPT ![a.r] = Answered(@, a)]
                IN  /\ item' = [item EXCEPT ![a.t] = items]
                    /\ phase' = [phase EXCEPT ![a.t] = PhaseFor(items)]
             /\ receipts' = receipts \cup {a}
       /\ Go(p, [pass[p] EXCEPT !.left = @ \ {a}])
  /\ UNCHANGED <<bookmark, outbox, provider, answers, target, faults, save, clock>>

\* An acceptance that does not prove custody is corrupt: the whole call throws.
Corrupt(p) ==
  /\ pass[p].pc = "apply"
  /\ \E a \in pass[p].left :
       /\ NextAnswer(a, pass[p].left)
       /\ ~Verified(a)
  /\ Go(p, IdlePass)
  /\ UNCHANGED <<bookmark, item, phase, outbox, receipts, provider, answers, target, faults, save, clock>>

\* pendingFinalization is read once, before the loop.
PendingFinalization(p) ==
  /\ pass[p].pc = "apply"
  /\ pass[p].left = {}
  /\ LET t == pass[p].t
     IN  Go(p, IF pass[p].unlocked
               THEN [pc |-> "finalize", t |-> t, left |-> {r \in Records : Finalizable(item[t][r])}]
               ELSE IdlePass)
  /\ UNCHANGED <<bookmark, item, phase, outbox, receipts, provider, answers, target, faults, save, clock>>

StalePhase(t, r, state) == \* mutant: the phase is computed before the item is put
  /\ item[t][r].ack
  /\ item' = [item EXCEPT ![t][r].state = state, ![t][r].fin = (state = "finalized")]
  /\ phase' = [phase EXCEPT ![t] = PhaseFor(item[t])]

\* updateFinalization: one transaction over the item and the journal phase.
\* finalizedAt is overwritten, so "finalizing" and "failed" clear it.
UpdateFinalization(t, r, state) ==
  LET items == [item[t] EXCEPT ![r].state = state, ![r].fin = (state = "finalized")]
  IN  /\ item[t][r].ack
      /\ item' = [item EXCEPT ![t] = items]
      /\ phase' = [phase EXCEPT ![t] = PhaseFor(items)]

MarkFinalizing(p) ==
  /\ pass[p].pc = "finalize"
  /\ \E r \in pass[p].left :
       /\ UpdateFinalization(pass[p].t, r, "finalizing")
       /\ Go(p, [pc |-> "read", t |-> pass[p].t, left |-> pass[p].left \ {r}, r |-> r])
  /\ UNCHANGED <<bookmark, outbox, receipts, provider, answers, target, faults, save, clock>>

\* The finalizer first reads the encrypted record; one that is gone is done.
FinalizerRead(p) ==
  /\ pass[p].pc = "read"
  /\ LET r == pass[p].r
         t == pass[p].t
         left == pass[p].left
     IN  Go(p, IF bookmark[r].held = "present"
               THEN [pc |-> "delete", t |-> t, left |-> left, r |-> r, seen |-> bookmark[r].stamp]
               ELSE [pc |-> "mark", t |-> t, left |-> left, r |-> r, removed |-> TRUE])
  /\ UNCHANGED <<bookmark, item, phase, outbox, receipts, provider, answers, target, faults, save, clock>>

UnchangedSinceRead(r, seen, reviewed) == \* mutant: not compared with the review
  bookmark[r].held = "present" /\ bookmark[r].stamp = seen

\* The deletion transaction's guard: still there, unchanged since it was read,
\* and unchanged since it was reviewed.
Unchanged(r, seen, reviewed) ==
  /\ bookmark[r].held = "present"
  /\ bookmark[r].stamp = seen
  /\ bookmark[r].stamp = reviewed

FinalizerDelete(p) ==
  /\ pass[p].pc = "delete"
  /\ LET r == pass[p].r
         t == pass[p].t
         removes == Unchanged(r, pass[p].seen, item[t][r].stamp)
     IN  /\ bookmark' = IF removes THEN [bookmark EXCEPT ![r].held = "moved"] ELSE bookmark
         /\ Go(p, [pc |-> "mark", t |-> t, left |-> pass[p].left, r |-> r, removed |-> removes])
  /\ UNCHANGED <<item, phase, outbox, receipts, provider, answers, target, faults, save, clock>>

\* Opening the record or its key fails before the deletion transaction.
FinalizerFails(p) ==
  /\ pass[p].pc = "delete"
  /\ faults < MaxFaults
  /\ faults' = faults + 1
  /\ Go(p, [pc |-> "mark", t |-> pass[p].t, left |-> pass[p].left, r |-> pass[p].r, removed |-> FALSE])
  /\ UNCHANGED <<bookmark, item, phase, outbox, receipts, provider, answers, target, save, clock>>

FailureRetried(p) == \* mutant: a failed removal is tried again in the same loop
  /\ pass[p].pc = "mark"
  /\ UpdateFinalization(pass[p].t, pass[p].r, IF pass[p].removed THEN "finalized" ELSE "failed")
  /\ Go(p, [pc |-> "finalize", t |-> pass[p].t,
            left |-> pass[p].left \cup (IF pass[p].removed THEN {} ELSE {pass[p].r})])
  /\ UNCHANGED <<bookmark, outbox, receipts, provider, answers, target, faults, save, clock>>

\* markFinalized or markFinalizationFailed.
MarkOutcome(p) ==
  /\ pass[p].pc = "mark"
  /\ UpdateFinalization(pass[p].t, pass[p].r, IF pass[p].removed THEN "finalized" ELSE "failed")
  /\ Go(p, [pc |-> "finalize", t |-> pass[p].t, left |-> pass[p].left])
  /\ UNCHANGED <<bookmark, outbox, receipts, provider, answers, target, faults, save, clock>>

Reconciled(p) ==
  /\ pass[p].pc = "finalize"
  /\ pass[p].left = {}
  /\ Go(p, IdlePass)
  /\ UNCHANGED <<bookmark, item, phase, outbox, receipts, provider, answers, target, faults, save, clock>>

-----------------------------------------------------------------------------
(* The environment                                                         *)

\* The browser stops the service worker: every call in flight is lost.
WorkerStops ==
  /\ faults < MaxFaults
  /\ save.pc # "idle" \/ \E p \in Passes : pass[p].pc # "idle"
  /\ pass' = [p \in Passes |-> IdlePass]
  /\ save' = NoSave
  /\ faults' = faults + 1
  /\ UNCHANGED <<bookmark, item, phase, outbox, receipts, provider, answers, target, clock>>

SaveAnew(r) == \* mutant: what is gone is saved again under its old identity
  /\ save.pc = "idle"
  /\ clock < LastSave
  /\ save' = [pc |-> "put", r |-> r, seen |-> bookmark[r]]
  /\ UNCHANGED <<bookmark, item, phase, outbox, receipts, provider, answers, target, pass, faults, clock>>

\* The user saves a bookmark that exists: new title, label, thumbnail, capture.
\* The stored record is read first.
SaveRead(r) ==
  /\ save.pc = "idle"
  /\ bookmark[r].held = "present"
  /\ clock < LastSave
  /\ save' = [pc |-> "put", r |-> r, seen |-> bookmark[r]]
  /\ UNCHANGED <<bookmark, item, phase, outbox, receipts, provider, answers, target, pass, faults, clock>>

\* Then the new content is put, unconditionally, with the custody and under the
\* updatedAt of the record that was read.
SavePut ==
  /\ save.pc = "put"
  /\ clock' = clock + 1
  /\ bookmark' = [bookmark EXCEPT ![save.r] =
       [held |-> "present", rev |-> clock + 1, stamp |-> save.seen.stamp,
        custody |-> save.seen.custody, sealed |-> save.seen.sealed]]
  /\ save' = NoSave
  /\ UNCHANGED <<item, phase, outbox, receipts, provider, answers, target, pass, faults>>

Delete(r) ==
  /\ bookmark[r].held = "present"
  /\ bookmark' = [bookmark EXCEPT ![r].held = "deleted"]
  /\ UNCHANGED <<item, phase, outbox, receipts, provider, answers, target, pass, faults, save, clock>>

\* Overlook answers a record it has received.  It accepts only what it has made
\* durable, original bytes included; before that it may reject, or claim an
\* acceptance whose fields do not prove custody.
TargetAnswer(t, r, status) ==
  /\ <<t, <<r, "record">>>> \in provider
  /\ <<t, r>> \notin target
  /\ status = "accepted" =>
       \A m \in MessagesOf(r, item[t][r].original) : <<t, m>> \in provider
  /\ answers' = answers \cup {[t |-> t, r |-> r, status |-> status]}
  /\ target' = IF status = "accepted" THEN target \cup {<<t, r>>} ELSE target
  /\ UNCHANGED <<bookmark, item, phase, outbox, receipts, provider, pass, faults, save, clock>>

-----------------------------------------------------------------------------
\* What a call in flight does next, faults aside.
Step(p) ==
  \/ ReviewRead(p) \/ ReviewSeal(p) \/ ReviewReread(p) \/ QueueBatch(p) \/ ReviewEmpty(p)
  \/ Upload(p) \/ MarkDelivered(p) \/ Published(p)
  \/ ListAnswers(p) \/ Apply(p) \/ Corrupt(p) \/ PendingFinalization(p)
  \/ MarkFinalizing(p) \/ FinalizerRead(p) \/ FinalizerDelete(p) \/ MarkOutcome(p)
  \/ Reconciled(p)

Next ==
  \/ \E p \in Passes : Step(p) \/ TransportFails(p) \/ FinalizerFails(p)
  \/ \E p \in Passes, t \in Transfers, selection \in SUBSET Records : Start(p, t, selection)
  \/ \E p \in Passes, t \in Transfers : Resume(p, t)
  \/ \E p \in Passes, t \in Transfers, unlocked \in BOOLEAN : Status(p, t, unlocked)
  \/ WorkerStops
  \/ \E r \in Records : SaveRead(r) \/ Delete(r)
  \/ SavePut
  \/ \E t \in Transfers, r \in Records, status \in TargetAnswers : TargetAnswer(t, r, status)

Spec == Init /\ [][Next]_vars

\* Nothing stops a call in flight but a fault, and faults are bounded.  That the
\* interrupted transfer is resumed again and again is the user's part: the
\* transfer workflow offers Resume for as long as the journal is active.  It is
\* strong fairness because the slots of Passes may all be taken for a while.
FairSpec ==
  /\ Spec
  /\ \A p \in Passes : WF_vars(Step(p))
  /\ \A t \in Transfers : SF_vars(\E p \in Passes : Resume(p, t))

-----------------------------------------------------------------------------
(* Properties                                                              *)

TypeOK ==
  /\ bookmark \in [Records -> BookmarkType]
  /\ item \in [Transfers -> [Records -> ItemType]]
  /\ phase \in [Transfers -> Phases]
  /\ outbox \in [Transfers -> [Messages -> {"none", "pending", "delivered"}]]
  /\ receipts \subseteq Answers
  /\ provider \subseteq (Transfers \X Messages)
  /\ answers \subseteq Answers
  /\ target \subseteq (Transfers \X Records)
  /\ pass \in [Passes -> PassType]
  /\ save \in SaveType
  /\ clock \in Nat
  /\ faults \in Nat

\* A Move removes a bookmark only after Overlook holds it durably and the local
\* journal has recorded that: whatever stopped, failed, was rejected first or
\* ran twice in between, the sole copy is never lost.
RemovedHasCustody ==
  \A r \in Records : bookmark[r].held = "moved" =>
    \E t \in Transfers : item[t][r].ack /\ <<t, r>> \in target

\* The bookmark a Move removes is, to the updatedAt, the one some acknowledged
\* transfer reviewed.  A record that another review has sealed since, or that a
\* save has overwritten with what it read before the review, is kept, also when
\* that happens between the finalizer's read and its deletion.
RemovedIsAsReviewed ==
  \A r \in Records : bookmark[r].held = "moved" =>
    \E t \in Transfers : item[t][r].ack /\ item[t][r].stamp = bookmark[r].stamp

\* A bookmark whose original travelled as metadata only is never removed.
MetadataOnlyIsKept ==
  \A r \in Records : bookmark[r].held = "moved" =>
    \E t \in Transfers : item[t][r].ack /\ item[t][r].original # "metadata-only"

\* The source side implements the promise of MoveCustody: a record is kept once
\* some transfer's target has made it durable.
Kept == {r \in Records : \E t \in Transfers : <<t, r>> \in target}

Custody == INSTANCE MoveCustody WITH
  home <- [r \in Records |-> bookmark[r].held], kept <- Kept

ImplementsCustody == Custody!Spec

\* A save or a review has read the record and is going to put it whole.
InHand(r) ==
  \/ save.pc = "put" /\ save.r = r
  \/ \E p \in Passes : pass[p].pc = "seal" /\ pass[p].r = r

\* What is gone stays gone, deleted by the user or removed by a Move, once nothing
\* that read it before is about to put it: no review, resume or save that begins
\* later brings it back.  (One that had read it before does: nothing in the put
\* asks whether the record is still there.)
GoneStaysGone ==
  [][\A r \in Records : bookmark[r].held # "present" /\ ~InHand(r) =>
       bookmark'[r].held # "present" /\ ~InHand(r)']_vars

\* An acknowledged item stays acknowledged, with the proof it was given: no
\* rejection that is applied late, by whichever pass, takes it back.
AcceptedIsFinal ==
  [][\A t \in Transfers, r \in Records : item[t][r].ack =>
       /\ item'[t][r].ack
       /\ item'[t][r].verification = item[t][r].verification
       /\ item'[t][r].state \notin {"queued", "rejected"}]_item

\* The stored journal phase is the one its items imply, at every commit of every
\* pass, so counts and phase cannot drift apart.
PhaseIsDerived ==
  \A t \in Transfers : phase[t] # "none" => phase[t] = PhaseFor(item[t])

\* A row marked delivered is at the provider, across stops and failed uploads,
\* so that skipping it in later passes loses nothing.
DeliveredIsPublished ==
  \A t \in Transfers, m \in Messages :
    outbox[t][m] = "delivered" => <<t, m>> \in provider

\* A completed transfer has left none of the bookmarks it reviewed behind, and
\* Overlook holds every one of them.  (A bookmark that is present all the same
\* was put again: by another review under another updatedAt, or by a save with
\* content newer than what was sent.)
CompletedIsMoved ==
  \A t \in Transfers, r \in Records :
    phase[t] = "completed" /\ item[t][r].state # "none" =>
      /\ <<t, r>> \in target
      /\ bookmark[r].held = "present" =>
           bookmark[r].stamp # item[t][r].stamp \/ bookmark[r].rev > item[t][r].rev

\* What is removed is what was sent: the content of a removed bookmark is the
\* content some acknowledged transfer carried.
RemovedContentWasSent ==
  \A r \in Records : bookmark[r].held = "moved" =>
    \E t \in Transfers : item[t][r].ack /\ item[t][r].rev = bookmark[r].rev

\* updateFinalization throws, out of the whole call, for an item that is not
\* acknowledged.  It never does: what pendingFinalization returned is acknowledged
\* when its turn comes and through all of its removal, whatever another call
\* applies or fails in between.
FinalizationIsNotRefused ==
  \A p \in Passes :
    LET s == pass[p]
    IN  /\ s.pc \in {"finalize", "read", "delete", "mark"} => \A r \in s.left : item[s.t][r].ack
        /\ s.pc \in {"read", "delete", "mark"} => item[s.t][s.r].ack

\* How far a call is from its end: the stages before it, then what is left to do
\* in the loop of the stage, then the steps still to take for the one in hand.
Stage(s) ==
  CASE s.pc \in {"review", "seal", "reread"} -> 5
    [] s.pc \in {"publish", "deliver"} -> 4
    [] s.pc = "list" -> 3
    [] s.pc = "apply" -> 2
    [] s.pc \in {"finalize", "read", "delete", "mark"} -> 1
    [] s.pc = "idle" -> 0

Turn(s) ==
  CASE s.pc = "read" -> 3
    [] s.pc \in {"seal", "delete"} -> 2
    [] s.pc \in {"reread", "deliver", "mark"} -> 1
    [] OTHER -> 0

Nearer(s, next) ==
  \/ Stage(next) < Stage(s)
  \/ /\ Stage(next) = Stage(s)
     /\ next.left \subseteq s.left
     /\ next.left # s.left \/ Turn(next) < Turn(s)

\* No call goes round: every step of a call, and whatever else befalls it, takes
\* it nearer to its end, so that it ends if only it is scheduled.  The loops run
\* over what was pending, listed or finalizable when they began, and neither a
\* failed removal nor the work of another call adds to that.
CallsComeNearer ==
  [][\A p \in Passes :
       Step(p) \/ (pass[p].pc # "idle" /\ pass'[p] # pass[p]) => Nearer(pass[p], pass'[p])]_vars

\* Every call ends.
CallsEnd == \A p \in Passes : pass[p].pc # "idle" ~> pass[p].pc = "idle"

\* An acknowledged record that may be finalized is finalized in the end, unless
\* it has another updatedAt than the one reviewed; a failure or a stop in between
\* is repaired by a later resume.
AcknowledgedIsFinalized ==
  \A t \in Transfers, r \in Records :
    item[t][r].ack /\ item[t][r].original # "metadata-only" ~>
      item[t][r].fin \/ bookmark[r].stamp # item[t][r].stamp
=============================================================================

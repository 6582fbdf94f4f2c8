------------------------------ MODULE SecureSync ------------------------------
(***************************************************************************)
(* One Sync session as the background worker runs it: the reviewed records *)
(* are queued and published as snapshots, Overlook's snapshots are scanned *)
(* into an inbox, and the user pauses, resumes and cancels.                *)
(*                                                                         *)
(* A runtime call (start, resume or status, from any tab) is asynchronous: *)
(* each action below is one IndexedDB transaction or one provider request, *)
(* and calls interleave with each other, with the controls, with the       *)
(* user's changes and with a Move that reviews the same records.  The      *)
(* worker may stop at any time.  The loop of the export review is one      *)
(* action here; MoveSource takes it apart.                                 *)
(***************************************************************************)
EXTENDS SyncResolution, FiniteSets

CONSTANTS
  Records,    \* the selected bookmarks; their numbers are the reviewed order
  Calls,      \* runtime calls that may be in flight together
  Messages,   \* the messages Overlook may publish in this session
  MaxChanges, \* bound: captures, deletions and Move reviews
  MaxFaults   \* bound: worker stops and failed provider requests

Originals == {"unavailable", "metadata-only", "available"}

ASSUME SyncRecordsAssumption == Records \subseteq Nat /\ IsFiniteSet(Records)
ASSUME SyncFieldsAssumption == "original" \in Fields /\ Originals \cup {"base"} \subseteq Values
ASSUME SyncMessagesAssumption ==
  \A m \in Messages :
    /\ m.id \in Nat /\ m.seq \in Nat /\ m.r \in Records /\ m.readable \in BOOLEAN
    /\ IsSnapshot(m.record)
    /\ \A n \in Messages : n.id = m.id => n = m
ASSUME SyncBoundsAssumption == MaxChanges \in Nat /\ MaxFaults \in Nat

VARIABLES
  bookmark,  \* the bookmark store
  phase,     \* the session's control phase ("none": no session)
  row,       \* the outbox row and the item of each record
  category,  \* the item's reviewCategory
  provider,  \* the records whose message is uploaded
  published, \* the messages of Overlook at the provider
  inbox,     \* the receipts: per message the category of its analysis
  call,      \* the runtime calls in flight
  late,      \* history: each call's uploads after the session was cancelled
  changes,   \* counts captures, deletions and Move reviews
  faults     \* counts stops and failed requests

vars == <<bookmark, phase, row, category, provider, published, inbox, call, late,
          changes, faults>>

session == <<phase, row, category>>

-----------------------------------------------------------------------------
(* Data                                                                    *)

ReviewCategories == {"eligible", "metadata-only"}

\* custody is the original state the sealed interop custody claims; category is
\* the review category sealed with it.
BookmarkType ==
  [held : BOOLEAN, captured : BOOLEAN, custody : Originals \cup {"none"},
   category : ReviewCategories]

INITIAL_REVISION == [p \in Products |-> IF p = "imageTrail" THEN 1 ELSE 0]

\* The canonical record of a reviewed bookmark.  The revisions and the fields are
\* those of the first custody; only the original is renewed by later reviews.
Canonical(b) ==
  [value |-> [f \in Fields |-> CASE f = "original" -> b.custody
                                 [] f = "deleted" -> Live
                                 [] OTHER -> "base"],
   revision |-> INITIAL_REVISION,
   fieldRevisions |-> [f \in Fields \ {"deleted"} |-> INITIAL_REVISION]]

\* Sync's review reads no original bytes, so a captured original is sealed as
\* metadata-only, whatever the custody said before.
Sealed(b) ==
  [b EXCEPT !.custody = IF b.captured THEN "metadata-only" ELSE "unavailable",
            !.category = IF b.captured THEN "metadata-only" ELSE @]

Held == {r \in Records : bookmark[r].held}

\* The review's records, and what it does to the store.
Review(selection) ==
  [r \in Records |-> IF r \in selection \cap Held THEN Sealed(bookmark[r]) ELSE bookmark[r]]

Pending == {r \in Records : row[r] = "queued"}
Items == {r \in Records : row[r] # "none"}

\* Paths list by sequence, then by message.
Before(m, n) == m.seq < n.seq \/ (m.seq = n.seq /\ m.id < n.id)

CallType ==
       [pc : {"idle", "scan"}]
  \cup [pc : {"queue"}, batch : SUBSET Records, reviewed : [Records -> BookmarkType]]
  \cup [pc : {"pending"}, resumed : BOOLEAN]
  \cup [pc : {"check"}, resumed : BOOLEAN, todo : SUBSET Records]
  \cup [pc : {"upload", "mark"}, resumed : BOOLEAN, todo : SUBSET Records, r : Records]
  \cup [pc : {"list"}, local : SUBSET Records, reviewed : [Records -> BookmarkType]]
  \cup [pc : {"read"}, local : SUBSET Records, reviewed : [Records -> BookmarkType],
        todo : SUBSET Messages]

IdleCall == [pc |-> "idle"]

Init ==
  /\ bookmark \in [Records -> [held : {TRUE}, captured : BOOLEAN, custody : {"none"},
                               category : {"eligible"}]]
  /\ phase = "none"
  /\ row = [r \in Records |-> "none"]
  /\ category = [r \in Records |-> "eligible"]
  /\ provider = {}
  /\ published = {}
  /\ inbox = [m \in {} |-> "eligible"]
  /\ call = [c \in Calls |-> IdleCall]
  /\ late = [c \in Calls |-> 0]
  /\ changes = 0
  /\ faults = 0

Go(c, state) == call' = [call EXCEPT ![c] = state]

-----------------------------------------------------------------------------
(* Start: review the selection, queue one batch, publish it                *)

\* The session identity is a fresh UUID.  Without a supported record start throws.
Start(c) ==
  /\ call[c].pc = "idle"
  /\ phase = "none"
  /\ \A d \in Calls : call[d].pc # "queue"
  /\ Held # {}
  /\ bookmark' = Review(Records)
  /\ Go(c, [pc |-> "queue", batch |-> Held, reviewed |-> Review(Records)])
  /\ UNCHANGED <<session, provider, published, inbox, late, changes, faults>>

\* One transaction puts the session, every item and every outbox row.
QueueBatch(c) ==
  /\ call[c].pc = "queue"
  /\ phase' = "transferring"
  /\ row' = [r \in Records |-> IF r \in call[c].batch THEN "queued" ELSE "none"]
  /\ category' = [r \in Records |-> call[c].reviewed[r].category]
  /\ Go(c, [pc |-> "pending", resumed |-> FALSE])
  /\ UNCHANGED <<bookmark, provider, published, inbox, late, changes, faults>>

ReadPending(c) ==
  /\ call[c].pc = "pending"
  /\ Go(c, [pc |-> "check", resumed |-> call[c].resumed, todo |-> Pending])
  /\ UNCHANGED <<bookmark, session, provider, published, inbox, late, changes, faults>>

Foremost(r, todo) == \A s \in todo : r <= s

Unchecked(c) == \* mutant: the phase is not read again
  /\ call[c].pc = "check"
  /\ \E r \in call[c].todo :
       /\ Foremost(r, call[c].todo)
       /\ Go(c, [pc |-> "upload", resumed |-> call[c].resumed,
                 todo |-> call[c].todo \ {r}, r |-> r])
  /\ UNCHANGED <<bookmark, session, provider, published, inbox, late, changes, faults>>

\* The session is read again before each row.
Check(c) ==
  /\ call[c].pc = "check"
  /\ phase \notin {"paused", "cancelled"}
  /\ \E r \in call[c].todo :
       /\ Foremost(r, call[c].todo)
       /\ Go(c, [pc |-> "upload", resumed |-> call[c].resumed,
                 todo |-> call[c].todo \ {r}, r |-> r])
  /\ UNCHANGED <<bookmark, session, provider, published, inbox, late, changes, faults>>

Upload(c) ==
  /\ call[c].pc = "upload"
  /\ provider' = provider \cup {call[c].r}
  /\ late' = [late EXCEPT ![c] = IF phase = "cancelled" THEN @ + 1 ELSE @]
  /\ Go(c, [call[c] EXCEPT !.pc = "mark"])
  /\ UNCHANGED <<bookmark, session, published, inbox, changes, faults>>

AnyPhase(c) == \* mutant: the last row ends a pause and a cancel, too
  /\ call[c].pc = "mark"
  /\ row' = [row EXCEPT ![call[c].r] = IF @ = "queued" THEN "delivered" ELSE @]
  /\ phase' = IF Pending = {call[c].r} THEN "reviewing" ELSE phase
  /\ Go(c, [pc |-> "check", resumed |-> call[c].resumed, todo |-> call[c].todo])
  /\ UNCHANGED <<bookmark, category, provider, published, inbox, late, changes, faults>>

\* One transaction: the row, its item and, with the last row, the phase of a
\* session that is still transferring.
MarkDelivered(c) ==
  /\ call[c].pc = "mark"
  /\ row' = [row EXCEPT ![call[c].r] = IF @ = "queued" THEN "delivered" ELSE @]
  /\ phase' = IF Pending = {call[c].r} /\ phase = "transferring" THEN "reviewing" ELSE phase
  /\ Go(c, [pc |-> "check", resumed |-> call[c].resumed, todo |-> call[c].todo])
  /\ UNCHANGED <<bookmark, category, provider, published, inbox, late, changes, faults>>

\* A start is over when the loop ends; a resume goes on to scan.
Published(c) ==
  /\ call[c].pc = "check"
  /\ call[c].todo = {} \/ phase \in {"paused", "cancelled"}
  /\ Go(c, IF call[c].resumed THEN [pc |-> "scan"] ELSE IdleCall)
  /\ UNCHANGED <<bookmark, session, provider, published, inbox, late, changes, faults>>

-----------------------------------------------------------------------------
(* Resume, status and the controls                                         *)

Transferring(c) == \* mutant: resume does not look at the rows
  /\ call[c].pc = "idle"
  /\ phase \notin {"none", "cancelled"}
  /\ phase' = "transferring"
  /\ Go(c, [pc |-> "pending", resumed |-> TRUE])
  /\ UNCHANGED <<bookmark, row, category, provider, published, inbox, late, changes, faults>>

\* The control transaction: a cancelled session throws, any other phase follows
\* the rows.
Resume(c) ==
  /\ call[c].pc = "idle"
  /\ phase \notin {"none", "cancelled"}
  /\ phase' = IF Pending # {} THEN "transferring" ELSE "reviewing"
  /\ Go(c, [pc |-> "pending", resumed |-> TRUE])
  /\ UNCHANGED <<bookmark, row, category, provider, published, inbox, late, changes, faults>>

\* Status of an unlocked session scans whatever its phase is.
Status(c) ==
  /\ call[c].pc = "idle"
  /\ phase # "none"
  /\ Go(c, [pc |-> "scan"])
  /\ UNCHANGED <<bookmark, session, provider, published, inbox, late, changes, faults>>

Pause ==
  /\ phase \notin {"none", "cancelled"}
  /\ phase' = "paused"
  /\ UNCHANGED <<bookmark, row, category, provider, published, inbox, call, late, changes, faults>>

Cancel ==
  /\ phase # "none"
  /\ phase' = "cancelled"
  /\ UNCHANGED <<bookmark, row, category, provider, published, inbox, call, late, changes, faults>>

-----------------------------------------------------------------------------
(* The inbox scan                                                          *)

\* The items' records are reviewed again, custody sealed included.
ScanReview(c) ==
  /\ call[c].pc = "scan"
  /\ bookmark' = Review(Items)
  /\ Go(c, [pc |-> "list", local |-> Items \cap Held, reviewed |-> Review(Items)])
  /\ UNCHANGED <<session, provider, published, inbox, late, changes, faults>>

ListPaths(c) ==
  /\ call[c].pc = "list"
  /\ Go(c, [pc |-> "read", local |-> call[c].local, reviewed |-> call[c].reviewed,
            todo |-> published])
  /\ UNCHANGED <<bookmark, session, provider, published, inbox, late, changes, faults>>

FirstListed(m, todo) == \A n \in todo : m = n \/ Before(m, n)

IdentityReused(m) == \* mutant: only the message's own receipt is compared
  \E n \in DOMAIN inbox : n.id = m.id /\ n.seq # m.seq

SequenceReused(m) == \E n \in DOMAIN inbox : n.seq = m.seq /\ n.id # m.id

CategoryOf(m, b) == Analyze(Canonical(b), m.record).category

ReceiveOnce(c) == \* mutant: a stored receipt is not analysed again
  /\ call[c].pc = "read"
  /\ \E m \in call[c].todo :
       /\ FirstListed(m, call[c].todo)
       /\ m.readable
       /\ m.r \in call[c].local
       /\ ~SequenceReused(m)
       /\ inbox' = [n \in DOMAIN inbox \cup {m} |->
                      IF n \in DOMAIN inbox THEN inbox[n]
                      ELSE CategoryOf(m, call[c].reviewed[m.r])]
       /\ Go(c, [call[c] EXCEPT !.todo = @ \ {m}])
  /\ UNCHANGED <<bookmark, session, provider, published, late, changes, faults>>

\* Download the next message, open it, analyse it against the local record of
\* the review, and put its receipt; a receipt that is there is renewed.
Receive(c) ==
  /\ call[c].pc = "read"
  /\ \E m \in call[c].todo :
       /\ FirstListed(m, call[c].todo)
       /\ m.readable
       /\ m.r \in call[c].local
       /\ ~SequenceReused(m)
       /\ inbox' = [n \in DOMAIN inbox \cup {m} |->
                      IF n = m THEN CategoryOf(m, call[c].reviewed[m.r]) ELSE inbox[n]]
       /\ Go(c, [call[c] EXCEPT !.todo = @ \ {m}])
  /\ UNCHANGED <<bookmark, session, provider, published, late, changes, faults>>

\* A message that does not open, is of no reviewed record or reuses a sequence
\* ends the scan.
Refuse(c) ==
  /\ call[c].pc = "read"
  /\ \E m \in call[c].todo :
       /\ FirstListed(m, call[c].todo)
       /\ ~m.readable \/ m.r \notin call[c].local \/ SequenceReused(m)
  /\ Go(c, IdleCall)
  /\ UNCHANGED <<bookmark, session, provider, published, inbox, late, changes, faults>>

Scanned(c) ==
  /\ call[c].pc = "read"
  /\ call[c].todo = {}
  /\ Go(c, IdleCall)
  /\ UNCHANGED <<bookmark, session, provider, published, inbox, late, changes, faults>>

AllReceipts == DOMAIN inbox \* mutant: superseded receipts are counted, too

\* What a finished scan reports: the latest receipt of a record moves its item
\* from the category of the review to the one of the analysis.
Latest == {m \in DOMAIN inbox : \A n \in DOMAIN inbox : n.r = m.r => n.seq <= m.seq}

InboundKey(m) == IF inbox[m] = "delete-review" THEN "conflict" ELSE inbox[m]

BaseCount(k) == Cardinality({r \in Items : category[r] = k})

Count(k) ==
  BaseCount(k) - Cardinality({m \in Latest : category[m.r] = k})
    + Cardinality({m \in Latest : InboundKey(m) = k})

-----------------------------------------------------------------------------
(* Faults and the environment                                              *)

\* A failed provider request ends the call; what is pending stays pending.
RequestFails(c) ==
  /\ faults < MaxFaults
  /\ \/ call[c].pc \in {"upload", "list"}
     \/ call[c].pc = "read" /\ call[c].todo # {}
  /\ faults' = faults + 1
  /\ Go(c, IdleCall)
  /\ UNCHANGED <<bookmark, session, provider, published, inbox, late, changes>>

WorkerStops ==
  /\ faults < MaxFaults
  /\ \E c \in Calls : call[c].pc # "idle"
  /\ faults' = faults + 1
  /\ call' = [c \in Calls |-> IdleCall]
  /\ UNCHANGED <<bookmark, session, provider, published, inbox, late, changes>>

\* The user captures an original, or deletes a bookmark; the Move's review of an
\* unlocked session seals the captured original as available.
Change(r, b) ==
  /\ bookmark[r].held
  /\ changes < MaxChanges
  /\ changes' = changes + 1
  /\ bookmark' = [bookmark EXCEPT ![r] = b]
  /\ UNCHANGED <<session, provider, published, inbox, call, late, faults>>

Capture(r) == ~bookmark[r].captured /\ Change(r, [bookmark[r] EXCEPT !.captured = TRUE])

Delete(r) == Change(r, [bookmark[r] EXCEPT !.held = FALSE])

MoveReview(r) ==
  /\ bookmark[r].captured
  /\ bookmark[r].custody # "available"
  /\ Change(r, [bookmark[r] EXCEPT !.custody = "available", !.category = "eligible"])

\* Overlook answers a session it has seen an object of.
OverlookPublishes(m) ==
  /\ provider # {}
  /\ m \notin published
  /\ published' = published \cup {m}
  /\ UNCHANGED <<bookmark, session, provider, inbox, call, late, changes, faults>>

-----------------------------------------------------------------------------
Step(c) ==
  \/ QueueBatch(c) \/ ReadPending(c) \/ Check(c) \/ Upload(c) \/ MarkDelivered(c)
  \/ Published(c) \/ ScanReview(c) \/ ListPaths(c) \/ Receive(c) \/ Refuse(c) \/ Scanned(c)

Next ==
  \/ \E c \in Calls : Step(c) \/ Start(c) \/ Resume(c) \/ Status(c) \/ RequestFails(c)
  \/ Pause \/ Cancel \/ WorkerStops
  \/ \E r \in Records : Capture(r) \/ Delete(r) \/ MoveReview(r)
  \/ \E m \in Messages : OverlookPublishes(m)

Spec == Init /\ [][Next]_vars

\* A call in flight goes on unless a fault ends it, and faults are bounded.  The
\* workflow offers Resume and refreshes the status of an active session for as
\* long as the user keeps at it; both wait while every slot of Calls is taken,
\* hence strong fairness.
FairSpec ==
  /\ Spec
  /\ \A c \in Calls : WF_vars(Step(c))
  /\ SF_vars(\E c \in Calls : Resume(c))
  /\ SF_vars(phase # "cancelled" /\ \E c \in Calls : Status(c))

-----------------------------------------------------------------------------
(* Properties                                                              *)

TypeOK ==
  /\ bookmark \in [Records -> BookmarkType]
  /\ phase \in {"none", "transferring", "reviewing", "paused", "cancelled"}
  /\ row \in [Records -> {"none", "queued", "delivered"}]
  /\ category \in [Records -> ReviewCategories]
  /\ provider \subseteq Records
  /\ published \subseteq Messages
  /\ DOMAIN inbox \subseteq Messages
  /\ inbox \in [DOMAIN inbox -> Categories]
  /\ call \in [Calls -> CallType]
  /\ late \in [Calls -> Nat]
  /\ changes \in Nat
  /\ faults \in Nat

\* A session is transferring exactly as long as some row is not delivered, and
\* reviewing only when all are: markDelivered of overlapping calls, pauses and
\* resumes agree on it.  Otherwise the workflow would show a finished
\* publication as interrupted, or offer no Resume for an unfinished one.
PhaseMatchesRows ==
  /\ phase = "transferring" => Pending # {}
  /\ phase = "reviewing" => Pending = {}

\* A row marked delivered is at the provider: skipping it later loses nothing.
DeliveredIsPublished == \A r \in Records : row[r] = "delivered" => r \in provider

\* A call that is publishing while the session is cancelled uploads at most the
\* one row whose check had passed.
CancelStopsUploads == \A c \in Calls : late[c] <= 1

\* Only a resume takes a session out of its pause, and nothing but a new session
\* follows a cancel: what is in flight when the control is given does not undo it.
ControlIsKept ==
  [][/\ phase = "cancelled" => phase' = "cancelled"
     /\ phase = "paused" /\ phase' \notin {"paused", "cancelled"} =>
          \E c \in Calls : call[c].pc = "idle" /\ call'[c].pc = "pending"]_vars

\* How far a call is from its end: the stages before it, then what is left to do
\* in the loop of the stage, then the steps still to take for the row in hand.
Stage(s) ==
  CASE s.pc = "queue" -> 6
    [] s.pc = "pending" -> 5
    [] s.pc \in {"check", "upload", "mark"} -> 4
    [] s.pc = "scan" -> 3
    [] s.pc = "list" -> 2
    [] s.pc = "read" -> 1
    [] s.pc = "idle" -> 0

Turn(s) ==
  CASE s.pc = "upload" -> 2
    [] s.pc = "mark" -> 1
    [] OTHER -> 0

Nearer(s, next) ==
  \/ Stage(next) < Stage(s)
  \/ /\ Stage(next) = Stage(s)
     /\ next.todo \subseteq s.todo
     /\ next.todo # s.todo \/ Turn(next) < Turn(s)

\* No call goes round: every step of a call, and whatever else befalls it, takes
\* it nearer to its end, so that it ends if only it is scheduled.  A resume that
\* finds the rows another call is publishing, a scan whose messages were received
\* before and a message that Overlook adds meanwhile make no loop longer.
CallsComeNearer ==
  [][\A c \in Calls :
       Step(c) \/ (call[c].pc # "idle" /\ call'[c] # call[c]) => Nearer(call[c], call'[c])]_vars

\* The receipts of a session have a sequence each, whichever scans put them, so
\* that the latest receipt of a record is well defined.
SequencesAreDistinct ==
  \A m, n \in DOMAIN inbox : m.seq = n.seq => m = n

\* The inbound counts of the session's items add up to the items, however often
\* messages of one record or replays of one message are received.
ReportAddsUp ==
  /\ Count("eligible") + Count("metadata-only") + Count("duplicate") + Count("conflict")
       = Cardinality(Items)
  /\ \A k \in {"eligible", "metadata-only", "duplicate", "conflict"} : Count(k) >= 0

\* Publication comes to an end: the session leaves "transferring".
TransferEnds == phase = "transferring" ~> phase # "transferring"

\* The scan refuses a message, or one that is listed before it.
Obstructed(m) ==
  \E n \in published :
    /\ n = m \/ Before(n, m)
    /\ \/ ~n.readable
       \/ n.r \notin Items \cap Held
       \/ \E o \in published : o.seq = n.seq /\ o # n

\* Every message of an active session is received in the end, and the category
\* it is filed under is in the end the one of the record as it then is: a scan
\* that worked from an older review is repaired by a later one.  (A message the
\* scan has to refuse obstructs itself and all messages listed after it.)
ReviewSettles ==
  \A m \in Messages :
    <>[](m \in published /\ phase # "cancelled" /\ ~Obstructed(m) =>
           m \in DOMAIN inbox /\ inbox[m] = CategoryOf(m, bookmark[m.r]))

\* Sync does not reseal a pin: custody that a Move has sealed with an available
\* original stays as it is.
PinsAreNotResealed ==
  [][\A r \in Records :
       bookmark[r].custody = "available" => bookmark'[r].custody = "available"]_bookmark
===============================================================================

# Image Trail: models, checks and proofs

This directory is a verification development for Image Trail, a Chromium MV3
extension that bookmarks images, stores encrypted originals and exchanges
records with the companion product Overlook. The modules are translated from
`src/extension/src`; `PROJECT.json` maps every definition to the lines it models.

Paths below are relative to `src/extension/src` unless they start with `docs/`
or `tests/`.

## The system and its parts

All parts are described here, those without a module too; the section "Not
modelled" says why.

Everything durable is in IndexedDB (`data/schema.ts`: one database, most
repository calls are one transaction). The background service worker runs
message handlers as asynchronous functions that may overlap; the browser may
stop the worker at any await, and what is not in IndexedDB is lost. Content
scripts and the panel live in each tab and talk to the worker by messages, so
two tabs are two independent callers of the same handlers.

| part | state | operations | hard behaviour | what makes it correct |
| --- | --- | --- | --- | --- |
| Secure Move, source side (`data/interop/{record-export,secure-move-*,move-outbox-publisher,move-acknowledgement-reconciler,move-source-finalizer}.ts`, `background/interop-move-runtime.ts`) | bookmarks, Move items, outbox rows, receipts, journal phase | start, resume, status; inside them review, queue, publish, reconcile, finalize | overlapping calls from tabs, stops between upload and bookkeeping, edits during review and finalization, late or unproven answers | a bookmark leaves only after Overlook keeps it, as it was reviewed; acceptances stay; phase and items agree; what was acknowledged is finalized |
| Secure Sync, runtime side (`data/interop/{secure-sync-*,sync-outbox-publisher,sync-inbox-scanner}.ts`, `background/interop-sync-runtime.ts`) | session phase, items, outbox rows, inbox receipts | start, resume, status, pause, cancel; inside them review, publish, scan | a control races the publishing call; a scan uses records it read before listing | phase and rows agree; a cancel is prompt and final; receipts are ordered; the report adds up; the inbox settles |
| Sync comparison (`core/interop/{contract,sync-resolution}.ts`) | none | compare, increment and merge vectors; analyse, resolve | late, reordered, repeated snapshots over many rounds | no unseen edit is dropped without a reviewer; revisions advance; merges converge |
| Library Sync protocol and journal (`data/interop/sync-{protocol,journal-*}.ts`) | sessions, items, receipts, checkpoints, decisions | create, receive, decide, review a deletion, apply, control | reads and writes in separate transactions; stops between item and receipt | an item is offered only when reviewed; a deletion is applied only when approved |
| Library Move protocol (`data/interop/move-{protocol,journal-*}.ts`) | journal, items, receipts, responses | queue, receive, acknowledge, resume finalization | lost, repeated and reordered messages | no removal without a durable, verified copy; what is accepted or finalized stays so |
| Encrypted transport (`core/interop/transport.ts`) | chunk and manifest objects | upload, download, list | interrupted uploads, two uploads of one path, a reader during an upload | a download returns one whole upload or fails |
| Interop runtime (`background/interop-runtime*.ts`) | preferences: provider and operation, the active journal of each | select a provider, set the operation, start, resume, status, pause, cancel | preferences are read, awaited over and saved whole | a route is true of its journal; a journal is continued with its provider; an unfinished journal stays reachable |
| Live-local transport (`background/interop-live-local-*.ts`) | session, staged objects, result waiters | request, chunk, result, commit, close | results matched first-in first-out, timeouts | a result reaches the commit it is of, after what Overlook sent before it; every put is answered |
| Key session (`data/crypto/blob-key-session.ts`, `data/runtime/session-unlock.ts`) | unlocked key, idle deadline, stored recovery record | unlock, lock, restore, record activity, expire | storage and key import are awaited while a lock happens | a lock holds, for the next worker too; activity reaches the record |
| Bookmarks (`data/bookmarks-controller.ts`, `data/repositories/*`) | bookmarks, albums, blobs | save, remove, restore | whole-record puts from earlier reads | no lost update; a blob lives while something refers to it |
| Image request manager (`background/image-request-manager.ts`) | in-flight requests, three bounded caches | probe, fetch, clear | shared results, eviction, expiry | byte account and bounds hold; who waits has a fetch in flight |
| Recent-history cache (`background/recent-history-cache.ts`) | per-site recents, write chain | hydrate, add, update, remove, prune | additions before hydration, writes that fail | the stored state is the last one; views are ordered |
| pCloud backup (`background/pcloud-*.ts`, `data/import-export/chunked-cloud-backup.ts`) | parts, manifest, part catalogue | export, restore, clean up | a part fails, clean-up of a failed backup | a manifest names only parts that are there |
| Navigation and automation (`ui/panel/buffered-navigation-controller.ts`, `core/automation/*`) | buffered neighbours, pending step, timers | step, probe, load, settle | an answer for a target no longer wanted | the window is of its base; a press that waits is woken; a press starts from what is shown |
| Panel, content scripts, gallery, URL and media logic | view state | render, parse, apply | mostly presentation, DOM and pure functions | better served by the tests there are |

Calls between the parts: the interop runtime starts, resumes, reports and
controls one Move and one Sync; both review records through
`record-export.ts`, which *writes* to the bookmarks (it seals an interop custody
into each reviewed record); both publish and list through the encrypted
transport; the Move's finalizer deletes bookmarks; the controller saves them.
So Move, Sync and the user meet in the bookmark store, and that is where the
interesting races of the exchange are. Beside it, each cache and session of the
worker and the panel has the races of its own awaits.

## Modules

    MoveCustody            what a Move promises about each bookmark
       ^  implemented by
    MoveSource             the source side of a Move
       MCMoveSource        symmetry for TLC
       MoveSourceProofs    types, safety, the refinement, what a completed Move leaves,
                           what stays gone, how calls end

    SyncResolution         revision vectors, analysis, merge, decisions
       SyncConvergence     two libraries over many rounds (INSTANCE SyncResolution)
       SecureSync          one session in the worker (EXTENDS SyncResolution)
          MCSecureSync     messages and symmetry for TLC
          SecureSyncProofs (with the facts about SyncResolution)

    WholeObjects           one object for each path, written and read whole
       ^  implemented by
    Transport              chunks and manifest over a provider's objects
    SyncJournal            the library's Sync session, items and decisions
    MoveProtocol           the library's Move, both sides
       LibraryProofs       SyncConvergence, SyncJournal and MoveProtocol; MCExchange as a whole
    LiveLocal              the live session with the Overlook on this computer
       TransportProofs     Transport and LiveLocal
    InteropRuntime         the preferences above Move and Sync
    KeySession             the unlocked key and its recovery record
       WorkerProofs        InteropRuntime and KeySession
    RecentHistory          the recents of a browser session
    ImageRequests          shared fetches and bounded caches
       CacheProofs         RecentHistory and ImageRequests; MCWorker as a whole
    BufferedNavigation     previous and next over a window of neighbours
       NavigationProofs
    Arrays                 JavaScript's filter and sums, for the caches, LiveLocal and
                           BufferedNavigation
       ArrayProofs         what they return

    MCExchange             SyncConvergence, SyncJournal, MoveProtocol, Transport, LiveLocal
    MCWorker               InteropRuntime, KeySession, RecentHistory, ImageRequests,
                           BufferedNavigation

`MCExchange` and `MCWorker` hold components that share no variable. Their
variable `part` picks one of them per behaviour while the others stay at one
initial state, so that the states of the parts add up and do not multiply, and
one run asks the questions of all of them. Such components prefix what would
clash (`RtNext`, `KsNext`, `SjNext`, ...).

### MoveSource and MoveCustody

A runtime call (`InteropMoveRuntime.start`, `resume`, `status`) is a *pass* with
a program counter: `review`, `seal`, `reread`, `publish`, `deliver`, `list`,
`apply`, `finalize`, `read`, `delete`, `mark`. Every action is one IndexedDB
transaction or one provider request, which is the grain at which the code
interleaves; what a call keeps in local variables (the records still to review,
the batch, the rows or answers listed, the updatedAt the finalizer has seen) is
in the pass and is lost when the worker stops.

The state corresponds to the stores: `bookmark` (present, deleted or moved;
content number `rev`; `stamp` for the envelope's updatedAt; the sealed custody
and the content it was made from), `item`, `phase`, `outbox`, `receipts`.
`provider` and `answers` are the objects at the transport, `target` is what
Overlook keeps. The user's save is two actions because the code awaits between
its read and its put. Overlook is external: it publishes any answer the
envelope schema admits, for a record it has received, and accepts only what it
has made durable.

`MoveCustody` is the promise: a bookmark is released only when it is kept on the
other side. It says nothing of journals, transports or calls.

### SyncResolution and SyncConvergence

`SyncResolution` translates `compareInteropRevisions`,
`incrementInteropRevision`, `mergeInteropRevisions`, `analyzeSyncRecords` and
`resolveSyncConflicts` as operators; a record is its field values, its revision
and the field revisions it carries.

`SyncConvergence` lets two libraries edit and send snapshots (a set that only grows:
a snapshot may be received late, twice, or never, in any order). `ReceiveSnapshot`
stores an item, the analysed pair of copies, over the one stored before
(`itemOf`); `DecideConflicts` and `ReviewDeletion` update it;
`BeginApply` reads it and `ApplyOutcome` hands the outcome *of the stored pair* to
the applier, as `SyncProtocolService.apply` does without reading the library again;
`RefuseOutcome` is an applier that throws, and `MarkItem` marks whichever item is
stored by then. Edits, receipts and stops fall between any two of these steps, for
both products at once. A value names the edit that wrote it, so that "an apply
dropped this edit, which neither the value it keeps nor the reviewer knew of" is a
predicate.

The applier is an interface without an implementation in the repository.
`ApplierChecks` says whether it adopts an outcome only while the library still has
the copy that was analysed, in one transaction of its own. The run and the theorems
on lost edits, divergence and revisions are about one that does; what the library
does by itself, for any applier, is `OutcomeBuildsOnBoth`. See the observations for
one that does not.

### SecureSync

One session: `phase` is the control record, `row` the outbox row with its item,
`category` the item's review category, `inbox` the receipts. A call runs
`queue, pending, check, upload, mark` to publish and `scan, list, read` to scan
the inbox; `Pause` and `Cancel` are the control transactions; the phase is read
again at `check`, before each row, as in the code. `Count` is the report
`SecureSyncInboxRepository.review` makes of items and receipts. The environment
captures and deletes bookmarks, reviews them for a Move, and publishes
Overlook's messages.

### InteropRuntime

`prefs` is the stored record: the selected provider and operation, and for each
operation the route (id, provider, selection) of its active journal. `Dispatch`
reads it into the call; `SelectProvider`, `SetOperation`, `Start`, `Continue`,
`ControlSync`, `CancelMove` and `ClearRoute` save *that copy*, changed, as the
handlers do, so overlapping dispatches overwrite each other. A start saves the
route first and its journal is queued after (`QueueJournal`) or never (`Fails`,
`RtWorkerStops`). Journals are reduced to their phase; the modules above model
what happens inside them. An earlier version may have left a route without its
provider; `RecoverPreferences` takes that of a Sync from its journal.

### KeySession

`session` (locked, or key and last activity), the exported key, the two flags of
the restore and the callers that await `storageTrusted` are the worker's memory;
`record` is the recovery record in session storage, `ops` the storage operations
on their way, in order. `Call` covers every entry that restores first (status,
activity, read), `Unlock` and `Lock` the messages, `Expire` the alarm,
`StorageDone` and `StorageFails` the answers, and `KsWorkerRestarts` drops the memory.
`Proceed` is the common continuation after trust is settled; a read under way
keeps the call that asked for it (`by`), or nobody after a restart. `beforeLock` is a
history variable: the calls in flight since before the last manual lock.

### RecentHistory

`bySite` is the worker's cache, newest first, with the counter `sequence`;
`writes` are the snapshots whose writes are chained, `stored` is the session
storage. A handler waits for hydration (`Hydrate`) before its change
(`AddRecent`, `RemoveRecent`, `UpdateRecent`, `PruneForSettings`), each change
chains a whole snapshot, and `Promote` turns overflow into bookmarks one save at
a time. An item stands for its id and its url. The entries of all sites are a
set: views are numbered once, so their numbers order them (`Newest`).

### ImageRequests

A cache is a JavaScript Map: a sequence of entries, oldest insertion first.
`FetchBytes` serves from the completed images, joins the fetch in flight or
starts one; `FetchEnds` settles all who share it and evicts; `Probe`,
`ProbeEnds` and `HeadEnds` are the speculative requests, `ClearProbes` the
clearing by context. A display image and an original have one key; only an
original does without the completed images.

### BufferedNavigation

`nav` is the window (base, radius, cursor, the seek and what blocks it, an entry
for each index), `requests` the probes and fetches with what each has in its
closure and whether the in-flight maps hold it, `queues` the indices that wait for
a slot, `step` the press under way, `shown` the panel's url. A url is a position on
the trail of the included fields, so an index of the window stands for the url that
many bumps from its base. An action ends with every continuation the answer has
made ready: draining the queues, the fetch that follows a probe, waking the press.
The reducer's loop along a seek is in closed form: it stops at the first place where
`Stops` holds, and the cursor is at the last landing before it. Of the loops that
drain a queue and ask for the window's indices, the first starts as many requests as
there are slots, the second is a recursive function over the indices. `Trails` says
which urls fail their probe, do not decode or are known to the request policy.

### Transport and WholeObjects

An upload gets, puts and verifies chunk by chunk, then puts and confirms the
manifest; a download gets the manifest and then verifies each chunk. A provider
request is one step. `WholeObjects` is what Move and Sync take this for: a reader
gets an object that was there while it read, or nothing.

### SyncJournal

The library's `SyncProtocol` and `SyncJournalRepository`: every operation reads in
one transaction and puts a whole record in another, so `Receive`, `Decide`,
`ReviewDelete`, `Apply` and `Control` each carry what they read to `PutItem`,
`PutItemUpdate`, `Mark` or `PutSession`. What a message makes of an item is an
analysis in the sense of `SyncResolution`. `approved` and `unapproved` are history: the
deletions a reviewer approved, and whether one was applied that was not.

### MoveProtocol

Both sides of the library's Move. The target's call goes `replay, preview,
verify, import, refresh, seal, record` with the translator's listing of stored
pins kept in memory, which the user's deletions do not reach (`DeletePin`); the
source's `Acknowledge` and `ResumeFinalization` apply answers and finalize item by
item. `requests` and `answers` are sets that only grow: a message may be
delivered late, again or never.

### LiveLocal

One socket, in order, carries objects, acknowledgements, frames and results.
`queue`, `inFlight` and `pending` are the window and the promises of the puts,
`barrier` the waiters for results, matched first-in first-out, `incoming` the
frames collected, `durable` the repository. `HandleAck`, `HandleResult` and
`HandleFrame` are the message handler, `KeepFrame` and `StoreObject` its awaits,
during which the next message waits.

## Runs

| run | instance | what it shows |
| --- | --- | --- |
| `move_calls` | 1 record with an original, 2 calls, every answer, saves until time 2, 1 fault; about 952,000 states | `RemovedHasCustody`, `RemovedIsAsReviewed`, `AcceptedIsFinal`, `GoneStaysGone`, and `ImplementsCustody`: the source side implements `MoveCustody` |
| `move_batch` | 2 records, one with an original, 2 calls, accepted and rejected; about 463,000 states | `MetadataOnlyIsKept`, `PhaseIsDerived`, `CompletedIsMoved`, `CallsComeNearer` |
| `move_live` | 1 record, 2 calls, 1 save, 1 fault, fairness; about 155,000 states | `CallsEnd`, `AcknowledgedIsFinalized` |
| `sync_session` | 2 records, 2 calls, 3 messages of one record (two reuse a sequence, one is a deletion), 1 change; about 1,475,000 states | `CancelStopsUploads`, `ControlIsKept`, `SequencesAreDistinct`, `ReportAddsUp` |
| `sync_live` | 1 record, 2 calls, a message and an object that does not open, 1 change, 1 fault, fairness; about 151,000 states | `PhaseMatchesRows`, `TransferEnds`, `ReviewSettles` |
| `worker` | the five parts of `MCWorker`, 2 calls each; about 1,343,000 states (runtime 164,000, keys 63,000, history 865,000, images 79,000, navigation 172,000) | `TypeOK`; `RoutesAreTrue`, `WorkKeepsProvider`; `LockSurvivesRestart`, `ActivityIsRecorded`; `StoredIsLatest`, `ViewsAreOrdered`; `CacheAddsUp`, `AwaitedIsFetched`; `WindowIsOfBase`, `ParkedIsInFlight` |
| `exchange` | the five parts of `MCExchange`, 2 calls each; about 943,000 states (convergence 401,000, journal 178,000, move 307,000, transport 16,000, live 42,000) | `TypeOK`; `NoSilentLoss`, `DivergenceIsDecided`; `ReadyIsReviewed`, `DeletionsAreApproved`; `RemovalIsProven`, `AcceptanceStays`; `PublishedIsReadable`, `ImplementsWholeObjects`; `CommitGetsItsResult`, `PutsAreAnswered` |
| `move_edit_lost` | 1 record, 1 call, saves until time 2 | violated: `RemovedContentWasSent` |
| `sync_reseals` | 1 record, 1 call, 1 change | violated: `PinsAreNotResealed` |
| `runtime_orphan` | the runtime part, 1 dispatch, 2 journals | violated: `UnfinishedIsReachable` |
| `key_lock_undone` | the key part, 2 storage operations under way | violated: `ManualLockHolds` |
| `nav_rebased` | the navigation part, 1 window, 3 inputs | violated: `StepsFromShown` |

Each property of a passing run has a mutant, a plausible slip in one mapped
definition (a dropped guard, a phase computed before the put, a loop that
retries), under which the run finds it violated. The mutants stand beside what
they change and are used by nothing else.

The type invariants of `MoveSource`, `SecureSync` and `SyncConvergence` are
proved and therefore not run; nor are `DeliveredIsPublished` of either, `RevisionsAdvance`
of `SyncConvergence`, `FinalizationIsNotRefused` of `MoveSource` and `CallsComeNearer` of
`SecureSync`, each a theorem for every value of the constants.

### Bounds

Two overlapping calls are what the hazards need: each names one call that works
from a list, a read or a check that another call makes stale; a third adds no
new relation between two of them. One fault is a stop or a failed request at any
point; it leaves every intermediate state another call can find.

* Move: two records are needed for a phase over several items and for the order
  of the rows; the other runs have one, and spend the states on faults, saves and
  answers instead. `LastSave` lets a save begin before and after a review.
  `move_batch` has neither saves nor faults: that a completed Move has left nothing
  behind in spite of them (`CompletedIsMoved`) is the theorem `CompletionIsMoved`.
* Sync session: two records for a cancel between two uploads; `MaxChanges` lets
  one change fall anywhere in a session.
* `worker`: one journal, started in the run or kept from an earlier version (the
  theorems about the runtime hold for any number); one key,
  one message while a storage operation is under way (`key_lock_undone` has two),
  one storage failure; two pages of two sites, two items, and the policies that
  promote and that drop; three image keys of one url, a time to live of 0 and two
  clock values, so that an entry is fresh or expired; two windows, a radius of 0
  (closed) or 1, two urls the user may go to, and two trails that between them have every outcome of
  a request on either side. The skip budget is 2 and one probe and one fetch run at
  a time, instead of 8, 10 and 4: queues and give-ups happen within the bounds.
* `exchange`: four changes, edits and snapshots of the two products together: enough
  for a conflict and an edit while its item waits, and for a snapshot that goes on
  to the other product after an apply; the fields `title`
  and `deleted`, the one ordinary and the one with a reviewer of its own; two
  messages of one record; one Move request, with two answers and two pins, so that
  a redelivery can import again; two uploads and one download of up to two chunks
  that share some; two puts that do not fit into the window together, two
  commits, one object of two frames.

Symmetry is used over calls, and over items and selections, which no definition
tells apart; never in a run with a liveness property. Values, times and
revisions are bounded through guards, not by cutting off the search: no run has
a constraint.

`CHECK_DEADLOCK FALSE` is set where the system rests: a cancelled or settled
session, libraries that have used up their edits, a closed socket, clocks that
have stopped. A Move may always be resumed, so its runs check deadlock.

### Fairness

* `WF(Step(p))` for each call: nothing but a fault stops an asynchronous
  function, and faults are bounded. It is per call, so the scheduler may favour
  any other call for any finite time.
* `SF(\E p : Resume(p, t))`: the transfer workflow offers Resume for as long as
  the journal is active. That the user takes the offer again and again is
  assumed; no timer in the code does it. Strong, as all slots may be taken for a
  while.
* `SF(Status)` of a session that is not cancelled: the workflow refreshes the
  status of an active session.

`AcknowledgedIsFinalized` and `TransferEnds` do need the resumes: after a stop
nothing in the worker continues a transfer on its own. The other modules have no
liveness property; that nobody waits for nothing is stated there as safety
(`PutsAreAnswered`, `AwaitedIsFetched`, `ParkedIsInFlight`).

## Findings

* `move_edit_lost`: a save keeps the updatedAt of the record it replaces, which
  is the only thing the finalizer compares, so an edit made after the review is
  removed unsent. The test of this guard edits with a new timestamp.
* `sync_reseals`: a Sync's review, part of every scan, reseals an available
  custody as metadata-only under a new updatedAt; a Move that reviewed the record
  can then not finalize it. ADR 0007 says Sync does not reseal pins.
* `runtime_orphan`: `start` saves the route of a new journal over that of an
  active one, and the preferences hold the only pointer to a journal.
* `key_lock_undone`: a restore that awaits its record while the user locks opens
  the session again, and the activity it was for may store a new record.
* `nav_rebased`: a window whose first index was evicted is kept, cursor and all,
  when the panel shows its base again, so the next press starts elsewhere.

Observations that the models show and that no run states, as the documents
promise nothing exact about them or the step is outside what a run bounds:

* Move: `updateFinalization` overwrites `finalizedAt`
  (`secure-move-acknowledgement-repository.ts:151`), so a second call that works
  from a list it read earlier clears it; ADR 0006:77-78 promises a replay
  "without duplicate deletion or count drift".
* Move: a bookmark that the user deletes, or a Move removes, between a save's or a
  review's read and its put is put back (`record-export.ts:256`,
  `bookmarks-controller.ts:256`). `GoneStaysGone` says that nothing else brings
  one back.
* Sync: a message that cannot be opened, or whose record is not selected, ends the
  scan (`sync-inbox-scanner.ts:72`), and every later one: what is listed after it is
  not received while it is there. `ReviewSettles` exempts that case (`Obstructed`).
* Runtime: of two overlapping actions the later save puts back all that the earlier
  one changed, the route of a cancelled or completed journal included. A start that
  fails before its journal is stored leaves a route (`interop-runtime.ts:193-197`)
  that resume cannot follow and that the cancel of a Sync reports as unavailable
  without clearing it. `RoutesAreTrue` allows both: it speaks of journals that exist
  and lets their routes come back.
* Sync library: `apply` hands over the outcome of the copies that `receive` stored
  (`sync-protocol.ts:150-155`), and the request has neither copy in it, so an applier
  can tell that the library was edited meanwhile only by reading the item itself.
  With one that does not (`ApplierChecks = FALSE`, everything else as in `exchange`)
  six steps violate `NoSilentLoss`: an edit made between receive and apply is
  overwritten. `RevisionsAdvance` fails as soon, and `DivergenceIsDecided`
  after eight steps, when the revision of the lost edit is given to another one. ADR
  0007:71 leaves the applier open; no runtime code calls this library.
* Sync: the status of a paused session still scans and stores receipts
  (`interop-sync-runtime.ts:108`); ADR 0007:56 speaks of the library's journal
  only. Every export starts at the same revision and no
  runtime code increments it: see `EqualRevisionsAskAgain`.
* Key session: a worker may answer "locked" while its record could still be
  restored, until the restore it is in has ended.
* Sync journal: a failed item is a dead end; an eligible item whose other record
  is an older tombstone can be neither applied nor reviewed; a decision on an
  applied item makes it ready again; `reviewDelete` approves whatever version is
  stored; a replay may apply twice. `setControl` and `advanceCheckpoint` read the session in
  one transaction and put their copy in another, so one that read before a cancel opens
  the cancelled session again, where ADR 0007 says "Cancel cannot be resumed".
  No runtime code calls this library.
* Transport: two uploads of different ciphertexts to one path can leave it
  unreadable. The outbox keeps one ciphertext per row, so the program does not do
  this; `PublishedIsReadable` speaks of uploads of one ciphertext.
* Live session: two overlapping puts of one path would overwrite `pending`; two
  overlapping `open` calls break "Owns at most one authenticated live session"
  (`interop-live-local-runtime.ts:89`); the repository may get an object after a
  cancel cleared it, when a receive was in flight.
* Library Move: the target item keeps the category of its import, so after a
  retry that ended as a duplicate or a conflict, or a stop between import and
  receipt, `assertReplayIdentity` refuses every later redelivery, although ADR
  0006 says "Replaying an accepted or terminal response returns the exact durable
  acknowledgement". The cached listing lets a duplicate be acknowledged as durable
  that the user has deleted. A listing that fails to load stays a rejected promise
  until the database is closed. Overlapping receives make two pins of one record,
  and a later rejection may overwrite the target's accepted receipt. Overlapping
  finalizations can leave an item failed with `finalizedAt` set.
* Navigation: the `finally` of a stale request
  (`buffered-navigation-controller.ts:399`) deletes the in-flight entry that a
  newer window has at the same index, so the index is requested twice although
  the comment at 254-255 says that "probeIndex() dedupes queued/in-flight work"; the second image overwrites
  the first blob without revoking it, and such a request is not settled by
  `cancelInflight`. An index evicted while its fetch is under way comes back. The
  displayed blob may outlive its revocation after a url change by another path.

## Proofs

All proofs are for every value of the constants under their named assumptions
(record numbers are naturals; answers are the three statuses; Sync's fields and
values include those the code distinguishes; message identities are unique;
ciphertexts are not empty; absent values are not values; a live session has
finitely many puts, none larger than the window).

**Move.** `TypeCorrect` is proved action by action. `Invariance` proves
`Inv == TypeOK /\ PassesSound /\ ReviewedAlone /\ DataInv`. None of the safety
properties is inductive alone, because a call acts on what it read earlier:
`PassesSound` says what each program counter may rely on (a call in the
finalizing loop works on items whose removal is justified, a call that applies
answers holds published ones, a call that reviews has a transfer with no journal
yet), `ReviewedAlone` that nothing else works on a transfer under review, and
`DataInv` ties accepted answers and acknowledged items to what the target keeps,
and a removed bookmark to an acknowledged item with its updatedAt. What no step
takes back (`Grows`) carries these facts across the steps of other calls.
From it follow `CustodyBeforeRemoval`, `RemovalIsOfReviewed`,
`RemovalNeedsOriginal`, `AcceptanceIsFinal`, and `SourceImplementsCustody`: every
step is a `Keep`, `Release`, `Discard`, `PutBack` or a stutter of the promise.
`PhaseFollowsItems` needs types only: every action that puts an item puts the
phase of its transfer with it, and a batch that is queued is not empty.
`DeliveredRowsAreReal` adds that a call about to mark a row has uploaded it.
`CompletionIsMoved` needs a clock: contents and updatedAts are numbered by it, so
everything stored or in flight is no newer than it (`Timely`) and what is put later
differs from what an item was reviewed with, a seal by its updatedAt and a save by
its content. With it an item is finalized, or about to be, only when its bookmark is
gone as it was reviewed (`RemovalsHappened`).
`GoneForGood` needs no more of `Inv` than the types: of all actions only `SavePut` and
`ReviewSeal` make a bookmark present, and what they put was in hand (`InHand`) before.

**Calls end.** Liveness is out of the prover's reach, but what makes calls end is not.
`CallsGoForward`, once for Move and once for Sync, proves that every step of a call,
and whatever else changes it, takes it down in a well-founded order: the stage of the
call, then what is left of the list its loop runs over, then the steps left of the turn in
hand (`Stage`, `left`, `Turn`). The lists are finite and no step of another call adds to
them, so a call takes finitely many steps. `FinalizationIsAccepted` proves that the one
throw outside a `try` in the loop, the refusal of `updateFinalization`, never happens.
What remains for TLC is that a call in flight always has a step to take and, by
`WF(Step(p))`, takes it (`CallsEnd`).

**Comparison.** `ComparisonIsConverse`, `AutomaticMergeConverges` (a merge
without conflicts that both sides adopt leaves nothing to merge),
`ConcurrentDecisionIsKept`, and its counterpart `EqualRevisionsAskAgain`: a
decided conflict of equal revisions comes back with the next snapshot.

**Convergence.** The invariant (`IInv`) relates each copy's history to its
revision vectors: an edit is in the history of a field exactly when its number
is covered by the editor's component of the field revision. `OutcomeBuildsOnBoth`
needs none of it: whatever two copies an item has, its outcome takes every field from
one of them under a revision that is no earlier than either's, gives a value up
undecided only for a later one, and asks only about unordered ones.
`ConvergenceTypeCorrect` holds for any applier too; that an item which can be applied
has two different copies is part of it. Under `ApplierChecks` the first of the two
copies is the library's when its outcome is adopted, and from the invariant
follow `MergesLoseNothing` and `FieldRevisionsAdvance`.

`EqualRevisionsAgree`, under the same assumption, is about one field at a time, its *versions* being the pairs of
a copy's revision and value (`FieldInv`). Concurrent revisions may carry one value,
and what is merged of them is nobody's decision, so a merge must never meet a copy
that has the merged revision with another value. Three facts see to it: versions of
one edit are never concurrent (`OneLine`); a value that is back after its owner
edited over it was brought back by a snapshot of the other product that knew it later
(`CameBack`); and a version that nobody decided about is the first of its number
(`FirstOfItsNumber`). A field that carries no revision of its own advances with the
record's, and holds the value from before any edit.

**Session.** `SyncInvariance` adds two facts to the properties: at most one call
has a batch to queue (`OneStart`), and (`CallsFollow`) there is no session yet
while it has, a call at `mark` has uploaded its row, and a call that uploaded
after a cancel has no further upload before it. From it: `PhaseFollowsRows`, `DeliveriesAreReal`,
`CancelIsPrompt`, `ReceiptsAreOrdered`, `ControlsLast`. `ReportIsComplete` adds that
receipts are of items (`ReceiptsHaveItems`); its counts are then the classes of a
finite set.

**Runtime.** `RuntimeInvariance` (`RuntimeInv`): a copy of the preferences that a
dispatch holds is as true of the journals as the stored one (`CopiesSound`), a
dispatch that has an action to take has the selection it was given
(`SelectionGiven`), an id is handed to one start only (`StartsAlone`,
`UnusedIsNone`), and a dispatch at work holds the provider of its journal
(`WorkSound`). A save replaces the stored record by a copy that is sound already, which is
why overlapping saves lose routes but never mix them: `RoutesStayTrue`,
`WorkIsWithOwnProvider`.

**Transport.** `TransportInvariance`: an upload is at a chunk of its content
(`AtChunk`), and what a download has got so far is what its manifest names
(`OutputVerified`). `TransportIsWhole` is the refinement of `WholeObjects`.
`PublishedStaysReadable` needs two facts more: the chunks an upload has passed
are in place while its path has one ciphertext (`ChunksPut`), and a manifest is
of the content of some upload (`ManifestOfUpload`).

**Live session.** `LiveSession` (`LlInv`) has two halves. The puts: the queue is who
waits, each once, the account is the bytes of who is let in and has no room for the
first who waits (`Window`), and an open promise is the one its path awaits
(`PromisesAreKept`); hence `PutIsAnswered`. The commits: the results on the socket
followed by the commits asked are those that the barrier awaits, in order
(`InOrder`), and all frames of an object are at hand or still ahead of every result
that comes after it (`ObjectsAreWhole`); hence `CommitIsAnswered`. A waiter that gives
up ends the session, so that no late result finds the waiter after it.

**Key session.** `LocksSurvive` and `ActivityOutlivesWorker` speak of quiet states,
where the record is what every storage operation has left. `KsInv` speaks of all
states: of the record that will be left when all operations under way are done
(`Final`), of the one each restore will read (`WillFind`), and of all those it may
(`Candidate`). A usable record that will be left beside a locked session is about to
be replaced or restored (`LockErases`); what a restore may bring back is no later
than what is there (`CandidatesAreFloor`, `FinalIsLatest`); an open session has its
last write before it or behind it (`OpenWrites`, `OpenIsRecorded`).

**Caches.** `Filter` takes the entries of an array by the ranks of their indices and
`Total` is the cardinality of a set of units, so what they return is provable from the
well-ordering of the natural numbers and the library's facts on cardinalities.
`AccountIsTrue` and `WaitersAreFetched` are inductive with the types (`ImInv`); the
account uses that splitting an array splits its sum. `StoredWillBeLatest` follows from
`LastWriteIsLatest`: the last write in the chain, or the store when there is none and no write has failed, is
what the worker has. `RecentsAreOrdered` needs every history, the worker's, the
stored one and each write on its way, to be ordered (`HistoriesAreOrdered`), as any of
them may be the one that the next worker hydrates.

**Library.** `JournalInvariance`: every item, stored or carried by a call, is
reviewed as far as its state says, and what was approved stays approved, so a
put of an old copy cannot offer what was never reviewed
(`OfferedItemsAreReviewed`, `DeletionsWereApproved`). `MoveInvariance`: every
answer, in the journal, on its way or in a call, is of what the target verified;
every item and every call of the source is justified by such an answer; answers
and verifications only grow (`RemovalsAreProven`, `AcceptancesStay`).

**Navigation.** Neither property of `BufferedNavigation` is inductive: an answer is
safe because of what its request was made for, and a press is woken because of what
every operation leaves in the queues. `BnInv` says of all that the controller keeps
(`KeptInv`): a request of the current window is for the url at its index, only
requests of the current window are queued, each queue holds the indices of its queued
requests once (`QueueOf`), no index is both queued and in flight (`Apart`), and what
is tracked in flight is not settled; and of a press, that the request it waits for
has begun and is not settled (`Waking`). The operations take what the controller
keeps and return it, so each has a lemma of its own: asking for an index keeps the
base and every request that has begun (`AskedFor`, `RequestsLast`), and replacing a window wakes the
press or leaves the request it waits for to its end. Three facts about data carry this: a seek
stops within the window and one place beyond it, as a window is finite; `Sorted`
returns each index of a queue once; and the recursive function of `AskEach` is
followed by the first index, if any, at which the invariant would be lost. Hence
`NavigationTypes`, `WindowHolds` and `ParkedWakes`.

**Compositions.** `WorkerParts` and `ExchangeParts` prove that a behaviour of `MCWorker`
or `MCExchange` is a behaviour of each of its parts' own specifications: the step of one
part leaves the variables of the others alone, and a part that is not picked rests at an
initial state of its own. So every theorem above holds in the compositions that TLC runs;
`WorkerTypeCorrect` and `ExchangeTypeCorrect` draw that conclusion for their `TypeOK`. The
proofs rest on the parts sharing no variable; how the parts meet in the program (a runtime that starts a Move, a Move and a
Sync that review one bookmark) is inside `InteropRuntime`, `MoveSource` and `SecureSync`.

Every safety and action property of a passing run is stated by a theorem. Only
model-checked is liveness (`CallsEnd`, `AcknowledgedIsFinalized`, `TransferEnds`,
`ReviewSettles`), which needs ENABLED and fairness, beyond the prover.

## Abstractions

* Encryption, hashing, JSON and paths: a message is its record and its kind; the
  order of paths is kept, their text is not. The blob message and the
  ciphertext it names are one object, the original; a chunk and its digest are
  one value.
* Move: the protected-pin branch of the review and the blob's reference count
  are left out; the finalizer's deletion and its resource clean-up are the one
  transaction they are in the code; one save is in flight at a time; which
  records have a stored original does not change during a transfer; any journal
  may be resumed (the runtime's preferences would allow one at a time, so this
  admits more behaviours, never fewer); the commit of a live-local transport is
  no step of its own.
* Sync: the review's loop over the records is one action (MoveSource takes that
  loop apart); one session; an uploaded object of Overlook does not change; a
  captured original is not removed again; status of a locked session only reads
  and is left out.
* Comparison: `sameValue` compares values, without the order of JSON keys. The
  editing and the exchange in `SyncConvergence` are external: no code in the
  repository increments a revision outside its tests, so the contract's rule
  stands in. The applier is external as well. The copy that a caller of `receive`
  read of its library is the present one or one of its snapshots, which stand for
  all earlier copies. An item has both records; its decisions are taken together
  (`SyncJournal` has them one by one, and the stale puts of overlapping operations);
  sessions and their controls are `SyncJournal`'s; the secondary record of
  `keep-both` is left to the applier.
* Runtime: pairing import, connecting, disconnecting and the repair of a remote
  session identity are left out.
* Key session: one unlock is in flight at a time (the dialog waits for it) and
  removing the record from session storage does not fail. Continuations of a
  settled promise belong to the step before them.
* Image requests: the request policy's rules are a verdict, the fetch an outcome.
* Navigation: one press at a time (the panel drains them one by one), answers of
  a url do not change, the included fields stay, landing is applied in one turn
  and does not throw; toasts, debug data and hashes are left out.
* Library Move: the verifier hands over what it verified; a record has one content
  in every request; records are of the other product's origin; albums, the audit
  log, delivery marks, thumbnails, protected pins and deleted records are left
  out; the database opens.
* Sync journal: one session; the audit log and the checks of message identity are
  left out.
* Live session: each put has a path of its own, frames arrive uncorrupted, no abort
  signal; the heartbeat, the native client and the owner of sessions
  (`LiveLocalRuntime`) are left out. Overlook keeps an object before it
  acknowledges it and answers commits in order.

## Not modelled

* pCloud backup (`background/pcloud-*.ts`, `data/import-export/chunked-cloud-backup.ts`):
  one export at a time, parts before the manifest in the order of the code;
  a failed part leaves no manifest by construction.
* Bookmarks, albums and blobs beyond the save and delete that Move and Sync meet:
  whole-record puts whose interleaving is the one `SaveRead` and `SavePut` have,
  and reference counts kept inside one transaction.
* Automation (`core/automation/*`): timers and a queue of one, driven by the
  images of the page.
* The older neighbour preload and the candidate scan: they keep no window.
* Panel state and controllers: a reducer and generation counters without durable
  state; content scripts and gallery: the host page's DOM is the state.
* Import and export of files: formats and one pass over the records in one call.
* Provider stores and sign-in: HTTP requests; the modules see a set of objects
  and a request that fails.
* Pairing, sealing, keyrings: schemas and calls of WebCrypto; a sealed message is
  an opaque value.
* URL parsing and templates, media inspection: string and byte algorithms.

Most of the lines of the implementation are of the kinds in this list:
rendering and DOM code, message and envelope schemas, parsers, types and
formatting. They have no state that several actors change, or no state a model
checker could tell apart, and the tests there are serve them better. The
hazards in `PROJECT.json` therefore lie in the files that the modules map.

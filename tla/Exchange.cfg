\* Two overlapping calls in every part; four changes, edits and snapshots, of the
\* two products together, and an applier that checks; two uploads and a download of
\* one path; two puts, two commits and one object of Overlook in a live session.
CONSTANTS
  Parts = {"convergence", "journal", "move", "transport", "live"}
  Calls = {c1, c2}
  \* SyncConvergence
  Fields = {"title", "deleted"}
  MaxChanges = 4
  ApplierChecks = TRUE
  \* SyncJournal
  JournalCalls = {c1, c2}
  JournalItems = {"record"}
  Messages = {"first", "second"}
  ItemOf <- OneRecord
  JournalFields = {"title"}
  AnalysesOf <- TwoAnalyses
  Sides = {"imageTrail"}
  MaxCheckpoint = 1
  \* MoveProtocol
  MoveRequests = {"move"}
  RequestRecord <- OneRequest
  RequestTransfer <- OneTransfer
  RequestCategory <- Eligible
  OriginalState <- Available
  ProtocolCalls = {c1, c2}
  MaxAnswers = 2
  MaxPins = 2
  \* Transport
  Uploads = {"u1", "u2"}
  Downloads = {"d1"}
  Paths = {"path"}
  PathOf <- OnePath
  Contents <- ThreeContents
  MaxChunks = 2
  MaxTransportFaults = 1
  \* LiveLocal
  Puts = {"blob", "record"}
  PutPath <- PathOfPut
  PutBytes <- BytesOfPut
  MaxInFlight = 2
  Commits = {"commit1", "commit2"}
  Staged = {"answer"}
  Frames = 2
  MaxSends = 1
  MaxLiveFaults = 1
SPECIFICATION Spec
SYMMETRY Symmetry
INVARIANTS
  TypeOK
  NoSilentLoss
  DivergenceIsDecided
  ReadyIsReviewed
  DeletionsAreApproved
  RemovalIsProven
  PublishedIsReadable
  CommitGetsItsResult
  PutsAreAnswered
PROPERTIES
  AcceptanceStays
  ImplementsWholeObjects
CHECK_DEADLOCK FALSE

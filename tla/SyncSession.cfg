\* Two rows and items, two overlapping calls and the controls, three messages of one record of which two
\* reuse a sequence and one is a deletion, a change of the bookmarks in between.
CONSTANTS
  Records = {1, 2}
  Calls = {c1, c2}
  Messages <- InboxMessages
  MaxChanges = 1
  MaxFaults = 0
  Fields = {"title", "original", "deleted"}
  Values = {"base", "other", "unavailable", "metadata-only", "available", "live", "gone"}
  Live = "live"
SPECIFICATION Spec
SYMMETRY Symmetry
INVARIANTS
  CancelStopsUploads
  SequencesAreDistinct
  ReportAddsUp
PROPERTY
  ControlIsKept
CHECK_DEADLOCK FALSE

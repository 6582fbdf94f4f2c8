\* Liveness: one record, two calls, one message and one object that does not open,
\* one change, one fault.
CONSTANTS
  Records = {1}
  Calls = {c1, c2}
  Messages <- LiveMessages
  MaxChanges = 1
  MaxFaults = 1
  Fields = {"title", "original", "deleted"}
  Values = {"base", "other", "unavailable", "metadata-only", "available", "live", "gone"}
  Live = "live"
SPECIFICATION FairSpec
INVARIANTS
  PhaseMatchesRows
PROPERTIES
  TransferEnds
  ReviewSettles
CHECK_DEADLOCK FALSE

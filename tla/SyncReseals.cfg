CONSTANTS
  Records = {1}
  Calls = {c1}
  Messages <- CallMessages
  MaxChanges = 1
  MaxFaults = 0
  Fields = {"title", "original", "deleted"}
  Values = {"base", "other", "unavailable", "metadata-only", "available", "live", "gone"}
  Live = "live"
SPECIFICATION Spec
PROPERTIES
  PinsAreNotResealed
CHECK_DEADLOCK FALSE

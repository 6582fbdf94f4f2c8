\* An edit after the record was reviewed.
CONSTANTS
  Transfers = {t1}
  Records = {1}
  StoredOriginals = {}
  Passes = {p1}
  TargetAnswers = {"accepted"}
  LastSave = 2
  MaxFaults = 0
SPECIFICATION Spec
INVARIANTS
  RemovedContentWasSent

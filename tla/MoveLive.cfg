\* Liveness: no symmetry, no originals, one stop or failure.
CONSTANTS
  Transfers = {t1}
  Records = {1}
  StoredOriginals = {}
  Passes = {p1, p2}
  TargetAnswers = {"accepted", "rejected"}
  LastSave = 1
  MaxFaults = 1
SPECIFICATION FairSpec
PROPERTIES
  CallsEnd
  AcknowledgedIsFinalized

\* One record with an original, two calls in flight, every answer, one fault.
CONSTANTS
  Transfers = {t1}
  Records = {1}
  StoredOriginals = {1}
  Passes = {p1, p2}
  TargetAnswers = {"accepted", "rejected", "unproven"}
  LastSave = 2
  MaxFaults = 1
SPECIFICATION Spec
SYMMETRY Symmetry
INVARIANTS
  RemovedHasCustody
  RemovedIsAsReviewed
PROPERTIES
  ImplementsCustody
  AcceptedIsFinal
  GoneStaysGone

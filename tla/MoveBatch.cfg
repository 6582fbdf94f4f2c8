\* A batch of two records, one with an original.
CONSTANTS
  Transfers = {t1}
  Records = {1, 2}
  StoredOriginals = {1}
  Passes = {p1, p2}
  TargetAnswers = {"accepted", "rejected"}
  LastSave = 0
  MaxFaults = 0
SPECIFICATION Spec
SYMMETRY Symmetry
INVARIANTS
  MetadataOnlyIsKept
  PhaseIsDerived
  CompletedIsMoved
PROPERTIES
  CallsComeNearer

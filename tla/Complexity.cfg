CONSTANTS
  Sizes <- MCSizes
  RunsPerSize = 3
  Timeout = 4
SPECIFICATION Spec
INVARIANTS PowerLawFound ClassAgrees
CHECK_DEADLOCK FALSE

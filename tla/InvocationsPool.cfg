CONSTANTS
  N = 4
  MaxWorkers = 3
  Timed = {1, 3, 4}
  Forking = {1, 2}
  Unpiped = {3, 4}
  NoPipe = {4}
SPECIFICATION Spec
INVARIANTS OvertakesFew NothingLeftRunning OutputWhole
PROPERTIES OthersEnd ImplementsFutures
CHECK_DEADLOCK FALSE

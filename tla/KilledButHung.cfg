CONSTANTS
  N = 1
  MaxWorkers = 1
  Timed = {1}
  Forking = {1}
  Unpiped = {}
  NoPipe = {}
SPECIFICATION Spec
PROPERTY TimedCallsEnd
CHECK_DEADLOCK FALSE

CONSTANTS
  Kinds = {"output_compare", "file_output", "performance", "asan", "valgrind",
           "differential", "complexity", "symbol", "compile_check"}
  N = 2
  Timed = {"output_compare", "file_output", "performance", "asan", "valgrind", "symbol", "compile_check"}
  Coded = {2}
  Negated = {2}
  Forking = TRUE
SPECIFICATION Spec
INVARIANTS KilledNeverPasses NoTempLeft PassedOnFreshFile
PROPERTIES StepEnds ImplementsCaseReport
CHECK_DEADLOCK FALSE

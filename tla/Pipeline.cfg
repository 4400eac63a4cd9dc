CONSTANTS
  check = check
  build = build
  tests = tests
  again = again
  bare = bare
  c1 = c1
  c2 = c2
  NoScorer = NoScorer
  PIPELINE_START = PIPELINE_START
  Cases = {c1, c2}
  Steps = {check, build, tests, again, bare}
  Scorers <- MCScorers
  ScorerOf <- MCScorerOf
  Config <- MCConfig
  ValidInputs <- MCValidInputs
  ValidOutput <- MCValidOutput
  MaxSteps = 3
  MaxPackets = 1
  MaxCalls = 2
  Rendered = {4}
SPECIFICATION Spec
INVARIANTS TypeOK SheetSoFar ChainedDatum CappedEarned ValidatedRunFits
PROPERTIES CallEnds GradesBySheet PassNeverCosts FailureNeverPays

CONSTANTS
  Alphabet <- MCAlphabet
  MaxItems <- MCMaxItems
  Reports <- MCReports
  ReportElements <- MCReportElements
  MaxEdits = 2
  PyNames <- MCPyNames
  RequiredNames <- MCRequiredNames
  Paths <- MCPaths
  Directories <- MCDirectories
  Cases = {}
SPECIFICATION Reading
INVARIANTS ArtifactsAreTargets EagerIsLazy ReportsAreWhole FlatListsMeanFiles UsesAreCounted GradedIsCalled PaidIsClean
CHECK_DEADLOCK FALSE

CONSTANTS
  Alphabet <- MCAlphabet
  MaxItems <- MCMaxItems
  Reports <- MCReports
  ReportElements <- MCReportElements
  MaxEdits = 2
  PyNames <- MCPyNames
  RequiredNames <- MCRequiredNames
  Paths <- MCPaths
  Directories <- MCDirectories
  Cases = {}
SPECIFICATION Reading
INVARIANT LeaksFail
CHECK_DEADLOCK FALSE

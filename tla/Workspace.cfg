CONSTANTS
  Paths <- MCPaths
  Directories <- MCDirectories
  StaffTree <- MCStaffTree
  Submissions <- MCSubmissions
  Filters <- MCFilters
  Expectations <- MCExpectations
  Required <- MCRequired
  Reach <- MCReach
  Query <- MCQuery
  Builds <- MCBuilds
  TargetLists <- MCTargetLists
  MaxRuns = 2
  MaxSteps = 3
SPECIFICATION Spec
CHECK_DEADLOCK FALSE
INVARIANTS ManifestIsCurrent InjectionArrives ArtifactsAreFiles
PROPERTIES NothingLost

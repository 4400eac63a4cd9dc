CONSTANTS
  Kinds = {"gtest", "catch2", "ctest", "pytest"}
  N = 2
  TestCases <- TestCase
SPECIFICATION Spec
INVARIANTS EveryTestReported NoFileLeft
CHECK_DEADLOCK FALSE

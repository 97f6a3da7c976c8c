CONSTANTS
  plain = plain
  fuzz = fuzz
  own = own
  idle = idle
  late = late
  Unset = Unset
  Tests <- MCTests
  TestTier <- MCTestTier
  BenchTier <- MCBenchTier
  Inputs <- MCInputs
  Override <- MCOverride
  Benchmarks = 3
  Tier = 3
  Jobs = 2
  Default = 2
  JsonOut = TRUE
SPECIFICATION BenchSpec
CHECK_DEADLOCK FALSE
INVARIANTS
  BenchTypeOK
  ExitZeroMeansAllPass
  ExitOneMeansFailure
  QuietTimings
PROPERTIES
  Ends

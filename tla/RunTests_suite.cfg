\* mvt_run over suites of three tests.
SPECIFICATION Spec
CONSTANTS
  Media <- MCMedia
  InputDirs <- MCInputDirs
  InputFiles <- MCInputFiles
  Suites <- MCSuites
  CommandLines <- MCCommandLines
  Patterns <- MCPatterns
  Devices <- MCDevices
  Drivers <- MCDrivers
  EarlyCodecs = {"vc1"}
INVARIANTS
  TypeOK
  EveryTestCounted
  PassEarned
  FoundWhenPresent
  HardwareTestsCanRun

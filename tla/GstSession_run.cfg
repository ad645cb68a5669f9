\* Every failure, in either thread; options of every kind.
SPECIFICATION SessionSpec
CONSTANTS
  Caps <- MCCaps
  InitErrors = TRUE
  CallErrors = TRUE
  SilentFailures = TRUE
  ElementErrors = TRUE
  OptionLists <- MCOptionLists
  Factories <- MCFactories
  SetupErrors = TRUE
INVARIANTS
  FailureReported
  NoLateHandoff
  ErrorOwnership
  PipelineAsAsked
  PluggedAsAsked
PROPERTIES
  Terminates

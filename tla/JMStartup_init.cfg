\* Start and stop with a failure possible at every call.
SPECIFICATION Spec
CONSTANTS
  Overlaps = {TRUE, FALSE}
  FifoCapacity = 1
  Faults = TRUE
INVARIANTS
  InitSound
  TailsReady
  NoUseAfterClear
  NoDescriptorLeft
PROPERTIES
  FinalizeReturns

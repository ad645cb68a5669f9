\* Nothing fails, but two updates of the flags of a thread overlap.
SPECIFICATION Spec
CONSTANTS
  Overlaps = {TRUE}
  FifoCapacity = 2
  Faults = FALSE
INVARIANTS
  ActiveMeansCreated

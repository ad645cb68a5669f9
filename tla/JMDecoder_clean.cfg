\* A stream that JM decodes, no error; every write to the FIFO may block.
SPECIFICATION Spec
CONSTANTS
  Stream <- MCStream
  Buffers = {b1, b2, b3}
  PipeCapacity = 1
  HoldsBack = TRUE
  JmErrors = FALSE
  CallErrors = FALSE
INVARIANTS
  NothingLost
  CleanRunSucceeds
PROPERTIES
  ImplementsPictureStream
  Terminates

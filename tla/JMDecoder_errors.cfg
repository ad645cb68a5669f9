\* Errors anywhere; the FIFO is large enough for the whole stream.
SPECIFICATION Spec
CONSTANTS
  Stream <- MCStream
  Buffers = {b1, b2, b3}
  PipeCapacity = 7
  HoldsBack = FALSE
  JmErrors = TRUE
  CallErrors = TRUE
INVARIANTS
  NodesIntact
  DeliveredInOrder
  SingleOwner
  JmExclusive
PROPERTIES
  Terminates

\* JM outputs its last picture with DEC_EOS: the flush finds none left.
SPECIFICATION Spec
CONSTANTS
  Stream <- MCShortStream
  Buffers = {b1, b2}
  PipeCapacity = 2
  HoldsBack = FALSE
  JmErrors = FALSE
  CallErrors = FALSE
INVARIANTS
  NothingLost

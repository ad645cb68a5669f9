\* A second format needs fewer surfaces than the first.
SPECIFICATION Spec
CONSTANTS
  Refs = {1, 2}
  Scratch = 4
  MaxSurface = 14
  Shrinks = TRUE
  InitErrors = FALSE
INVARIANTS
  ArraysAllocated

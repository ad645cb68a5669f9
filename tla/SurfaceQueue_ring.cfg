\* The ring through one or two formats, the second needing more surfaces.
SPECIFICATION Spec
CONSTANTS
  Refs = {0, 1}
  Scratch = 4
  MaxSurface = 11
  Shrinks = FALSE
  InitErrors = TRUE
INVARIANTS
  Conservation
PROPERTIES
  LatestDestroyed
  ImplementsPool

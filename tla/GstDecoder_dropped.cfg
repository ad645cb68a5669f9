\* Only failures that on_handoff() returns to nobody.
SPECIFICATION Spec
CONSTANTS
  Caps <- MCCaps
  InitErrors = FALSE
  CallErrors = FALSE
  SilentFailures = TRUE
  ElementErrors = FALSE
INVARIANTS
  EveryPictureHandled

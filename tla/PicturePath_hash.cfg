\* Pictures of every kind, by every decoder and every implementation of the hash.
SPECIFICATION Spec
CONSTANTS
  Kernels = {"c", "swar", "ssse3"}
  Streams <- MCStreams
  Paths <- MCPaths
  CacheMin = 64
  Leftover = {0, 255}
  Faults = TRUE
INVARIANTS
  HashIsAdler32
  LanesFit
  PictureHash
  CopyFits
  RefusedForAReason

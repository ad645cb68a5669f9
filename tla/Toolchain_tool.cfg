\* A decoder, gen_ref_rawvideo and cmp_video, with every failure.
SPECIFICATION ToolSpec
CONSTANTS
  Streams <- MCStreams
  Formats <- MCFormats
  Videos <- MCVideos
  Fps = 25
  Faults = TRUE
INVARIANTS
  ReportInOrder
  HeaderOnce
  OutputsComplete
  ConfigCoversStream
  SameReport
  SameFile
  SameVideo

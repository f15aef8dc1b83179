SPECIFICATION CommandSpec
CONSTANTS
  Slba = 3
  Nlb = 6
  QDepth = 2
  NlbPerBuf = 2
  Kind = "fill"
  Sequential = FALSE
  Uniform = FALSE
  Stamp = TRUE
  Faults = {"submit"}
  DiskContents <- OldDisk
INVARIANT FillReachesDisk
CHECK_DEADLOCK FALSE

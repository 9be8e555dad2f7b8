\* Clusters of one to three CTAs with two warps and two load stages; rows of
\* kernels on four devices; rows of up to 256 columns; calls of each function.
CONSTANTS
  Warps = {w0, w1}
  Warp0 = w0
  LoadStages = 2
  Shapes <- ReduceShapes
  Kernels <- RowKernelsMC
  SmemOptin <- Optin
  Rows <- RowsMC
  Calls <- CallsMC
SPECIFICATION RowsSpec
INVARIANTS
  ReadsWholeRow
  PeersAreThere
  RowsReducedOnce
  TopKExact
  GradientsComplete
PROPERTIES
  KernelsEnd
CHECK_DEADLOCK FALSE

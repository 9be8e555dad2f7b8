\* One row of 128 columns, two lanes.
CONSTANTS
  Warps = {w0, w1}
  Warp0 = w0
  LoadStages = 2
  Shapes <- ReduceShapes
  Kernels <- RowKernelsMC
  SmemOptin <- Optin
  Rows <- RowsMC
  Calls <- CallsMC
SPECIFICATION MixedSpec
INVARIANTS
  TopKExact
CHECK_DEADLOCK FALSE

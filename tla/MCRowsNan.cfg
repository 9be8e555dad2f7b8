\* Vocabularies for which a warp or a CTA has no columns.
CONSTANTS
  Warps = {w0, w1}
  Warp0 = w0
  LoadStages = 2
  Shapes <- ReduceShapes
  Kernels <- RowKernelsMC
  SmemOptin <- Optin
  Rows <- RowsMC
  Calls <- CallsMC
SPECIFICATION GeometrySpec
INVARIANTS
  SumIsANumber
CHECK_DEADLOCK FALSE

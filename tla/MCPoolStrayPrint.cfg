\* A print of the compile goes to the pipe of the replies.
CONSTANTS
  p1 = p1
  p2 = p2
  p3 = p3
  Proc = {p1, p2, p3}
  Environments <- EnvironmentsMC
  NumWorkers = 2
  Circumstances <- OnlyPrints
SPECIFICATION Tuning
PROPERTIES
  WaitsEnd
CHECK_DEADLOCK FALSE

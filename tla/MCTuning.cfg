\* Three processes on one key, without and with faults; and two compile
\* workers: crashes, a raising config, a hanging one, the parent's death.
CONSTANTS
  p1 = p1
  p2 = p2
  p3 = p3
  Proc = {p1, p2, p3}
  Environments <- EnvironmentsMC
  NumWorkers = 2
  Circumstances <- CrashesAndOrphans
SPECIFICATION Tuning
INVARIANTS
  NoReadDuringExport
  OneCompile
  NoColdBench
PROPERTIES
  EveryCallEnds
  WaitsEnd
  NoOrphans
CHECK_DEADLOCK FALSE

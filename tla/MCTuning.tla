------------------------------ MODULE MCTuning ------------------------------
(***************************************************************************)
(* For TLC: the processes that compile for one key (JitCache), and the     *)
(* autotuner with its compile processes (PrecompilePool).  A behaviour is  *)
(* of one or of the other.                                                 *)
(***************************************************************************)
EXTENDS JitCache, PrecompilePool

CONSTANTS p1, p2, p3

\* Four configs, one of them raising, and two crashes.  What one surviving
\* worker gets just fits its pipes and its hands.
Crashes == [
  configs |-> 4, bad |-> {3}, hang |-> {}, pipeIn |-> 2, pipeOut |-> 1,
  strayPrints |-> FALSE, parentMayDie |-> FALSE, maxCrashes |-> 2]

\* The parent may die and a compile hangs.
Orphans == [
  configs |-> 3, bad |-> {1}, hang |-> {2}, pipeIn |-> 2, pipeOut |-> 2,
  strayPrints |-> FALSE, parentMayDie |-> TRUE, maxCrashes |-> 0]

\* A print of the compile goes to the pipe of the replies.
Prints == [
  configs |-> 2, bad |-> {}, hang |-> {}, pipeIn |-> 2, pipeOut |-> 4,
  strayPrints |-> TRUE, parentMayDie |-> FALSE, maxCrashes |-> 0]

CrashesAndOrphans == {Crashes, Orphans}
OnlyPrints == {Prints}

-----------------------------------------------------------------------------
\* Three processes race on a cold key and call twice; nothing fails.
Cold == [
  enabled |-> [p \in Proc |-> TRUE], stuck |-> {}, outcomes |-> {"ok"},
  exportFails |-> FALSE, timeouts |-> FALSE, maxCalls |-> 2, maxCrashes |-> 0]

\* Lock timeouts, failing compiles and exports, a crash, a process that hangs
\* in its compile and one with QUACK_CACHE_ENABLED=0.
Faulty == [
  enabled |-> [p \in Proc |-> p # p2], stuck |-> {p1},
  outcomes |-> {"ok", "RuntimeError", "Error"},
  exportFails |-> TRUE, timeouts |-> TRUE, maxCalls |-> 1, maxCrashes |-> 1]

NoCalls == [Cold EXCEPT !.maxCalls = 0]

EnvironmentsMC == {Cold, Faulty, NoCalls}

TuningInit ==
  /\ JitInit
  /\ IF jitEnv = NoCalls THEN Init ELSE PoolState("done") /\ env = Crashes

TuningNext ==
  \/ JitNext /\ UNCHANGED vars
  \/ Next /\ UNCHANGED jitVars

Tuning ==
  TuningInit /\ [][TuningNext]_<<vars, jitVars>> /\ JitFairness /\ Fairness
=============================================================================

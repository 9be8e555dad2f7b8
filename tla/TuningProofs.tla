---------------------------- MODULE TuningProofs ----------------------------
(***************************************************************************)
(* Theorems about the two parts of compiling and tuning: JitCache, for     *)
(* every set of processes and every set of environments (any mixture of    *)
(* enabled and disabled caches, hanging and failing compiles, failing      *)
(* exports, lock timeouts and crashes), and PrecompilePool, for any number *)
(* of workers and configs, pipes of any size, and any crashes, hanging or  *)
(* raising compiles, stray prints and deaths of the parent.                *)
(***************************************************************************)
EXTENDS JitCache, PrecompilePool, Integers, TLAPS

-----------------------------------------------------------------------------
(* The kernel cache.                                                        *)

\* Where a process stands with the lock held exclusively.
Writing == {"recheck", "compile", "export", "exporting"}

JitPlace == Writing \cup
  {"idle", "lookup", "exists", "trySh", "waitSh", "loadSh", "tryEx", "waitEx", "fallback", "inProcess"}

JitTypeOK ==
  /\ jitEnv \in Environments
  /\ pc \in [Proc -> JitPlace]
  /\ mem \in [Proc -> {"none", "kernel"}]
  /\ file \in {"absent", "partial", "whole"}
  /\ shared \subseteq Proc /\ excl \subseteq Proc
  /\ jitCrashes \in Nat /\ compiles \in Nat /\ garbled \in BOOLEAN

\* The lock is held where the code says it is, and by one writer or by readers.
LockInv ==
  /\ \A p \in Proc : p \in shared <=> pc[p] = "loadSh"
  /\ \A p \in Proc : p \in excl <=> pc[p] \in Writing
  /\ \A p \in excl : excl = {p} /\ shared = {}

\* When nothing fails, the file tells how far the only compile has come, and
\* nobody waits for the shared lock before there is a file.
ColdInv ==
  Quiet =>
    /\ \A p \in Proc : pc[p] \notin {"fallback", "inProcess"}
    /\ \A p \in Proc : pc[p] \in {"trySh", "waitSh", "loadSh"} => file # "absent"
    /\ \A p \in Proc : pc[p] \in {"compile", "export"} => compiles = 1 /\ file = "absent"
    /\ \A p \in Proc : pc[p] = "exporting" => compiles = 1 /\ file = "partial"
    /\ (\A p \in Proc : pc[p] \notin {"compile", "export", "exporting"}) =>
         \/ compiles = 0 /\ file = "absent"
         \/ compiles = 1 /\ file = "whole"
    /\ ~garbled

-----------------------------------------------------------------------------
(* One lemma for each fact, by action. *)

\* A quiet start has the invariant.
LEMMA JitInitInv == JitInit => JitTypeOK /\ LockInv /\ ColdInv
<1> SUFFICES ASSUME JitInit PROVE JitTypeOK /\ LockInv /\ ColdInv
  OBVIOUS
<1>1. JitTypeOK
  BY DEF JitInit, JitTypeOK, JitPlace
<1>2. LockInv
  BY DEF JitInit, LockInv, Writing
<1>3. ColdInv
  BY DEF JitInit, ColdInv
<1>4. QED
  BY <1>1, <1>2, <1>3

\* Each step keeps the types.
LEMMA JitTypeStep == JitTypeOK /\ [JitNext]_jitVars => JitTypeOK'
<1> USE DEF JitTypeOK, JitPlace, Writing, Goto, ghosts, callVars, LocksUnchanged, Unlock, Remember, Return, Raise
<1> SUFFICES ASSUME JitTypeOK, [JitNext]_jitVars PROVE JitTypeOK'
  OBVIOUS
<1>1. CASE UNCHANGED jitVars
  BY <1>1 DEF jitVars
<1>2. ASSUME NEW p \in Proc, Call(p) PROVE JitTypeOK'
  BY <1>2 DEF Call
<1>3. ASSUME NEW p \in Proc, Lookup(p) PROVE JitTypeOK'
  BY <1>3 DEF Lookup
<1>4. ASSUME NEW p \in Proc, Exists(p) PROVE JitTypeOK'
  BY <1>4 DEF Exists
<1>5. ASSUME NEW p \in Proc, AcquireShared(p) PROVE JitTypeOK'
  BY <1>5 DEF AcquireShared
<1>6. ASSUME NEW p \in Proc, AcquireExclusive(p) PROVE JitTypeOK'
  BY <1>6 DEF AcquireExclusive
<1>7. ASSUME NEW p \in Proc, LoadShared(p) PROVE JitTypeOK'
  BY <1>7 DEF LoadShared, Load
<1>8. ASSUME NEW p \in Proc, RecheckFound(p) PROVE JitTypeOK'
  BY <1>8 DEF RecheckFound, Load
<1>9. ASSUME NEW p \in Proc, RecheckMiss(p) PROVE JitTypeOK'
  BY <1>9 DEF RecheckMiss
<1>10. ASSUME NEW p \in Proc, BeginExport(p) PROVE JitTypeOK'
  BY <1>10 DEF BeginExport
<1>11. ASSUME NEW p \in Proc, EndExport(p) PROVE JitTypeOK'
  BY <1>11 DEF EndExport
<1>12. ASSUME NEW p \in Proc, StartInProcess(p) PROVE JitTypeOK'
  BY <1>12 DEF StartInProcess
<1>13. ASSUME NEW p \in Proc, Compile(p) PROVE JitTypeOK'
  BY <1>13 DEF Compile
<1>14. ASSUME NEW p \in Proc, EndInProcess(p) PROVE JitTypeOK'
  BY <1>14 DEF EndInProcess
<1>15. ASSUME NEW p \in Proc, ProcessDies(p) PROVE JitTypeOK'
  BY <1>15 DEF ProcessDies
<1>16. QED
  BY <1>1, <1>2, <1>3, <1>4, <1>5, <1>6, <1>7, <1>8, <1>9, <1>10, <1>11, <1>12, <1>13, <1>14, <1>15
     DEF JitNext, JitStep, CompileEnds

\* Only a process that has the lock for itself changes the file.
LEMMA LockStep == JitTypeOK /\ LockInv /\ [JitNext]_jitVars => LockInv'
<1> USE DEF JitTypeOK, LockInv, Writing, Goto, ghosts, callVars, LocksUnchanged, Unlock, Remember, Return, Raise
<1> SUFFICES ASSUME JitTypeOK, LockInv, [JitNext]_jitVars PROVE LockInv'
  OBVIOUS
<1>1. CASE UNCHANGED jitVars
  BY <1>1 DEF jitVars
<1>2. ASSUME NEW p \in Proc, Call(p) PROVE LockInv'
  BY <1>2 DEF Call
<1>3. ASSUME NEW p \in Proc, Lookup(p) PROVE LockInv'
  BY <1>3 DEF Lookup
<1>4. ASSUME NEW p \in Proc, Exists(p) PROVE LockInv'
  BY <1>4 DEF Exists
<1>5. ASSUME NEW p \in Proc, AcquireShared(p) PROVE LockInv'
  BY <1>5 DEF AcquireShared, SharedFree
<1>6. ASSUME NEW p \in Proc, AcquireExclusive(p) PROVE LockInv'
  BY <1>6 DEF AcquireExclusive, ExclusiveFree
<1>7. ASSUME NEW p \in Proc, LoadShared(p) PROVE LockInv'
  BY <1>7 DEF LoadShared, Load
<1>8. ASSUME NEW p \in Proc, RecheckFound(p) PROVE LockInv'
  BY <1>8 DEF RecheckFound, Load
<1>9. ASSUME NEW p \in Proc, RecheckMiss(p) PROVE LockInv'
  BY <1>9 DEF RecheckMiss
<1>10. ASSUME NEW p \in Proc, BeginExport(p) PROVE LockInv'
  BY <1>10 DEF BeginExport
<1>11. ASSUME NEW p \in Proc, EndExport(p) PROVE LockInv'
  BY <1>11 DEF EndExport
<1>12. ASSUME NEW p \in Proc, StartInProcess(p) PROVE LockInv'
  BY <1>12 DEF StartInProcess
<1>13. ASSUME NEW p \in Proc, Compile(p) PROVE LockInv'
  BY <1>13 DEF Compile
<1>14. ASSUME NEW p \in Proc, EndInProcess(p) PROVE LockInv'
  BY <1>14 DEF EndInProcess
<1>15. ASSUME NEW p \in Proc, ProcessDies(p) PROVE LockInv'
  BY <1>15 DEF ProcessDies
<1>16. QED
  BY <1>1, <1>2, <1>3, <1>4, <1>5, <1>6, <1>7, <1>8, <1>9, <1>10, <1>11, <1>12, <1>13, <1>14, <1>15
     DEF JitNext, JitStep, CompileEnds

\* A quiet environment stays one.
LEMMA QuietStays == [JitNext]_jitVars => (Quiet' <=> Quiet)
<1>1. [JitNext]_jitVars => jitEnv' = jitEnv
  BY DEF JitNext, JitStep, CompileEnds, jitVars, Call, Lookup, Exists, AcquireShared, AcquireExclusive, LoadShared, RecheckFound, RecheckMiss, BeginExport, EndExport, StartInProcess, Compile, EndInProcess, ProcessDies
<1>2. QED
  BY <1>1 DEF Quiet

\* In a quiet environment a load finds a whole file, and a miss under the
\* exclusive lock is the first.
LEMMA ColdStep == JitTypeOK /\ LockInv /\ ColdInv /\ [JitNext]_jitVars => ColdInv'
<1> SUFFICES ASSUME JitTypeOK, LockInv, ColdInv, [JitNext]_jitVars, Quiet, Quiet' PROVE ColdInv'
  BY QuietStays DEF ColdInv
<1> USE DEF JitTypeOK, LockInv, ColdInv, Writing, Goto, ghosts, callVars, LocksUnchanged, Unlock, Remember, Return, Raise
<1>1. CASE UNCHANGED jitVars
  BY <1>1 DEF jitVars
<1>2. ASSUME NEW p \in Proc, Call(p) PROVE ColdInv'
  BY <1>2 DEF Call, Quiet
<1>3. ASSUME NEW p \in Proc, Lookup(p) PROVE ColdInv'
  BY <1>3 DEF Lookup, Quiet
<1>4. ASSUME NEW p \in Proc, Exists(p) PROVE ColdInv'
  BY <1>4 DEF Exists, Quiet
<1>5. ASSUME NEW p \in Proc, AcquireShared(p) PROVE ColdInv'
  BY <1>5 DEF AcquireShared, SharedFree, Expired, Quiet
<1>6. ASSUME NEW p \in Proc, AcquireExclusive(p) PROVE ColdInv'
  BY <1>6 DEF AcquireExclusive, ExclusiveFree, Expired, Quiet
<1>7. ASSUME NEW p \in Proc, LoadShared(p) PROVE ColdInv'
  BY <1>7 DEF LoadShared, Load, Quiet
<1>8. ASSUME NEW p \in Proc, RecheckFound(p) PROVE ColdInv'
  BY <1>8 DEF RecheckFound, Load, Found, Quiet
<1>9. ASSUME NEW p \in Proc, RecheckMiss(p) PROVE ColdInv'
  BY <1>9 DEF RecheckMiss, Found, Quiet
<1>10. ASSUME NEW p \in Proc, BeginExport(p) PROVE ColdInv'
  BY <1>10 DEF BeginExport, Quiet
<1>11. ASSUME NEW p \in Proc, EndExport(p) PROVE ColdInv'
  BY <1>11 DEF EndExport, Quiet
<1>12. ASSUME NEW p \in Proc, StartInProcess(p) PROVE ColdInv'
  BY <1>12 DEF StartInProcess, Quiet
<1>13. ASSUME NEW p \in Proc, Compile(p) PROVE ColdInv'
  BY <1>13 DEF Compile, Quiet
<1>14. ASSUME NEW p \in Proc, EndInProcess(p) PROVE ColdInv'
  BY <1>14 DEF EndInProcess, Quiet
<1>15. ASSUME NEW p \in Proc, ProcessDies(p) PROVE ColdInv'
  BY <1>15 DEF ProcessDies, Quiet
<1>16. QED
  BY <1>1, <1>2, <1>3, <1>4, <1>5, <1>6, <1>7, <1>8, <1>9, <1>10, <1>11, <1>12, <1>13, <1>14, <1>15
     DEF JitNext, JitStep, CompileEnds

-----------------------------------------------------------------------------
(* The theorems. *)

\* The inductive invariant.
THEOREM JitInvariance == JitSpec => [](JitTypeOK /\ LockInv /\ ColdInv)
<1>1. JitInit => JitTypeOK /\ LockInv /\ ColdInv
  BY JitInitInv
<1>2. JitTypeOK /\ LockInv /\ ColdInv /\ [JitNext]_jitVars => (JitTypeOK /\ LockInv /\ ColdInv)'
  BY JitTypeStep, LockStep, ColdStep
<1>3. QED
  BY <1>1, <1>2, PTL DEF JitSpec

\* The lock of jit_cache keeps readers and other writers from the object file
\* while a process exports to it, in every environment: crashes, timeouts and
\* failing exports included.
THEOREM NobodyReadsAnExport == JitSpec => []NoReadDuringExport
<1>1. JitTypeOK /\ LockInv => NoReadDuringExport
  BY DEF JitTypeOK, LockInv, NoReadDuringExport, Writing
<1>2. QED
  BY <1>1, JitInvariance, PTL

\* However many processes race on a cold key, one of them compiles and all the
\* others load a whole file, as long as nothing fails.
THEOREM OneOfManyCompiles == JitSpec => []OneCompile
<1>1. JitTypeOK /\ ColdInv => OneCompile
  BY DEF JitTypeOK, ColdInv, OneCompile
<1>2. QED
  BY <1>1, JitInvariance, PTL

-----------------------------------------------------------------------------
(* The pool of compile processes: its inductive invariant.                  *)

Message == {"READY", "OK", "ERR", "part", "stray"}
MainPlace == {"spawn", "ready", "send", "readers", "wait", "check", "bench", "close", "reap", "done"}
ReaderPlace == {"off", "recv", "got", "set", "done"}
WorkerPlace == {"off", "boot", "idle", "compile", "reply", "dead"}

TypeInv ==
  /\ env \in Circumstances
  /\ main \in MainPlace /\ cur \in Nat \ {0}
  /\ main = "ready" => cur \in Workers
  /\ main = "send" => pool # <<>>
  /\ pool \in Seq(Workers)
  /\ assigned \in [Workers -> Seq(Nat)] /\ inq \in [Workers -> Seq(Nat)]
  /\ outq \in [Workers -> Seq(Message)]
  /\ reader \in [Workers -> ReaderPlace] /\ pos \in [Workers -> Nat]
  /\ got \in [Workers -> Message \cup {"none", "eof"}]
  /\ worker \in [Workers -> WorkerPlace] /\ task \in [Workers -> Nat]
  /\ reply \in [Workers -> {"none", "OK", "ERR"}]

InPool(w) == \E i \in 1 .. Len(pool) : pool[i] = w

\* Until the readers start, the main thread alone handles the pipes.
Starting == main \in {"spawn", "ready", "send", "readers"}

\* A worker gets configs once it has said READY and main has read that.
EntryInv(w) ==
  /\ InPool(w) => worker[w] \notin {"off", "boot"}
  /\ ~InPool(w) => /\ outq[w] \in {<<>>, <<"READY">>} /\ assigned[w] = <<>> /\ inq[w] = <<>>
                   /\ worker[w] \in {"off", "boot", "idle", "dead"}
                   /\ worker[w] \in {"off", "boot"} => outq[w] = <<>>
  /\ pos[w] >= 1 /\ (reader[w] = "off" => pos[w] = 1)
  /\ reader[w] \in {"recv", "got", "set"} => pos[w] \in 1 .. Len(assigned[w])

\* Where main is: workers are spawned in order, and read when all is sent.
PlaceInv(w) ==
  /\ main = "spawn" /\ w >= cur => worker[w] = "off"
  /\ main = "ready" /\ w > cur => worker[w] = "off"
  /\ Starting => reader[w] = "off"

\* The configs that worker w has begun, and the replies its reader has taken.
Begun(w) == Len(assigned[w]) - Len(inq[w])
Taken(w) == IF reader[w] \in {"got", "set"} THEN pos[w] ELSE pos[w] - 1

\* What a worker compiles is the next of what it was sent.
WorkInv(w) ==
  /\ Begun(w) >= 0
  /\ \A k \in 1 .. Len(inq[w]) : inq[w][k] = assigned[w][Begun(w) + k]
  /\ worker[w] \in {"compile", "reply"} => Begun(w) >= 1 /\ task[w] = assigned[w][Begun(w)]
  /\ worker[w] = "reply" => reply[w] \in {"OK", "ERR"} /\ (reply[w] = "OK" => task[w] \in built)

\* The reader of w may still read: its stream has not ended.
Reading(w) == reader[w] \in {"off", "recv"} \/ (reader[w] \in {"got", "set"} /\ got[w] # "eof")

\* The first k messages in the pipe are replies, no stray text and no torn one.
Whole(w, k) == \A j \in 1 .. k : outq[w][j] \in {"OK", "ERR"}

\* Replies come in the order of the configs: the k-th whole one in the pipe is
\* that of the k-th config the reader has not taken.
ReplyInv(w) ==
  InPool(w) /\ Reading(w) =>
    /\ \A k \in 1 .. Len(outq[w]) : Whole(w, k) =>
         /\ Taken(w) + k <= Len(assigned[w])
         /\ outq[w][k] = "OK" => assigned[w][Taken(w) + k] \in built
    /\ worker[w] \in {"idle", "compile", "reply"} /\ Whole(w, Len(outq[w])) =>
         Taken(w) + Len(outq[w]) = Begun(w) - (IF worker[w] = "idle" THEN 0 ELSE 1)
    /\ \A k \in 1 .. Len(outq[w]) : outq[w][k] # "READY"

\* What the reader of w is about to settle.
SettleInv(w) ==
  /\ reader[w] \in {"got", "set"} =>
       /\ got[w] \in {"OK", "ERR", "eof"}
       /\ got[w] = "OK" => assigned[w][pos[w]] \in built
  /\ reader[w] = "set" =>
       /\ got[w] = "eof" => Remaining(w) \subseteq failures
       /\ got[w] = "ERR" => assigned[w][pos[w]] \in failures

MainInv ==
  /\ events \subseteq failures \cup built
  /\ Starting => benched = {}
  /\ main = "check" /\ cur \in registered => cur \in events
  /\ main = "bench" /\ cur \in registered => cur \in built \cup warmed
  /\ NoColdBench

WorkerInv(w) == EntryInv(w) /\ WorkInv(w) /\ ReplyInv(w) /\ SettleInv(w)

PoolInv == TypeInv /\ (\A w \in Workers : PlaceInv(w) /\ WorkerInv(w)) /\ MainInv

-----------------------------------------------------------------------------
(* Pipes, and updates of one worker's variable. *)

\* What is left of a number.
LEMMA Difference ==
  ASSUME NEW x \in Nat, NEW y \in Nat, x - y >= 0
  PROVE  x - y \in 0 .. x
OBVIOUS

\* Counting one more.
LEMMA OneMore ==
  /\ \A t \in Nat, l \in Nat, b \in Nat : t + l = b - 1 => t + (l + 1) = b
  /\ \A b \in Nat, k \in Nat : b + (k + 1) = (b + 1) + k
OBVIOUS

\* An update of one worker's variable.
LEMMA Put ==
  ASSUME NEW S, NEW T, NEW f \in [S -> T], NEW w \in S, NEW e \in T, NEW g, g = [f EXCEPT ![w] = e]
  PROVE  /\ g \in [S -> T] /\ g[w] = e
         /\ \A v \in S : v # w => g[v] = f[v]
OBVIOUS

\* A message at the end of a pipe.
LEMMA PutAppend ==
  ASSUME NEW S, NEW T, NEW f \in [S -> Seq(T)], NEW w \in S, NEW e \in T,
         NEW g, g = [f EXCEPT ![w] = Append(@, e)]
  PROVE  /\ g \in [S -> Seq(T)]
         /\ Len(f[w]) \in Nat /\ Len(g[w]) = Len(f[w]) + 1
         /\ g[w][Len(f[w]) + 1] = e
         /\ \A k \in 1 .. Len(f[w]) : g[w][k] = f[w][k]
         /\ \A v \in S : v # w => g[v] = f[v]
<1>1. g[w] = Append(f[w], e) /\ f[w] \in Seq(T)
  OBVIOUS
<1>2. Append(f[w], e) \in Seq(T)
  BY <1>1
<1>3. g \in [S -> Seq(T)]
  BY <1>2
<1>4. QED
  BY <1>1, <1>3

\* A message from the front of a pipe.
LEMMA PutTail ==
  ASSUME NEW S, NEW T, NEW f \in [S -> Seq(T)], NEW w \in S, f[w] # <<>>,
         NEW g, g = [f EXCEPT ![w] = Tail(@)]
  PROVE  /\ g \in [S -> Seq(T)]
         /\ Len(f[w]) \in Nat /\ Len(f[w]) >= 1 /\ Len(g[w]) = Len(f[w]) - 1
         /\ Head(f[w]) = f[w][1] /\ f[w][1] \in T
         /\ \A k \in 1 .. Len(g[w]) : g[w][k] = f[w][k + 1]
         /\ \A v \in S : v # w => g[v] = f[v]
<1>1. g[w] = Tail(f[w]) /\ f[w] \in Seq(T)
  OBVIOUS
<1>2. Tail(f[w]) \in Seq(T) /\ Len(f[w]) >= 1 /\ Head(f[w]) = f[w][1] /\ f[w][1] \in T
  BY <1>1
<1>3. g \in [S -> Seq(T)]
  BY <1>2
<1>4. QED
  BY <1>1, <1>2, <1>3

-----------------------------------------------------------------------------
(* Types. *)

\* The pool starts with every process off and every pipe empty.
LEMMA InitInv == Init => PoolInv
<1> SUFFICES ASSUME Init PROVE PoolInv
  OBVIOUS
<1> USE DEF Init, PoolState
<1>1. TypeInv
  BY PoolAssumption DEF TypeInv, MainPlace, ReaderPlace, WorkerPlace
<1>2. ASSUME NEW w \in Workers PROVE PlaceInv(w) /\ WorkerInv(w)
  BY DEF PlaceInv, WorkerInv, EntryInv, WorkInv, ReplyInv, SettleInv, InPool, Starting, Begun, Taken
<1>3. MainInv
  BY DEF MainInv, NoColdBench
<1>4. QED
  BY <1>1, <1>2, <1>3 DEF PoolInv

\* The worker that a config is sent to is one of the pool.
LEMMA SentInPool ==
  ASSUME TypeInv, Send
  PROVE  /\ ((cur - 1) % Len(pool)) + 1 \in 1 .. Len(pool)
         /\ pool[((cur - 1) % Len(pool)) + 1] \in Workers
<1>1. pool \in Seq(Workers) /\ pool # <<>> /\ cur \in Nat /\ cur >= 1
  BY DEF TypeInv, Send
<1>2. Len(pool) \in Nat /\ Len(pool) >= 1
  BY <1>1
<1>3. (cur - 1) % Len(pool) \in 0 .. Len(pool) - 1
  BY <1>1, <1>2
<1>4. ((cur - 1) % Len(pool)) + 1 \in 1 .. Len(pool)
  BY <1>2, <1>3
<1>5. QED
  BY <1>1, <1>2, <1>4

\* Every step keeps the types.
LEMMA TypeStep ==
  TypeInv /\ (\A w \in Workers : worker[w] = "reply" => reply[w] \in {"OK", "ERR"}) /\ [Next]_vars => TypeInv'
<1> SUFFICES ASSUME TypeInv, [Next]_vars, \A w \in Workers : worker[w] = "reply" => reply[w] \in {"OK", "ERR"}
             PROVE  TypeInv'
  OBVIOUS
<1> USE DEF handle, readers, children, pipes, results, parentState
<1>0. NumWorkers \in Nat /\ Workers = 1 .. NumWorkers
  BY PoolAssumption DEF Workers
<1>1. CASE UNCHANGED vars
  BY <1>1 DEF vars, TypeInv
<1>2. ASSUME Spawn PROVE TypeInv'
  <2>1. UNCHANGED <<env, pool, assigned, inq, outq, reader, pos, got, task, reply>>
    BY <1>2 DEF Spawn
  <2>2. CASE cur <= NumWorkers
    <3>1. worker' = [worker EXCEPT ![cur] = "boot"] /\ main' = "ready" /\ cur' = cur
      BY <1>2, <2>2 DEF Spawn
    <3>2. cur \in Workers
      BY <1>0, <2>2 DEF TypeInv
    <3>3. worker' \in [Workers -> WorkerPlace]
      BY <3>1, <3>2 DEF TypeInv, WorkerPlace
    <3>4. QED
      BY <2>1, <3>1, <3>2, <3>3 DEF TypeInv, MainPlace
  <2>3. CASE ~(cur <= NumWorkers)
    <3>1. worker' = worker /\ cur' = 1 /\ main' \in {"wait", "send"} /\ (main' = "send" => pool # <<>>)
      BY <1>2, <2>3 DEF Spawn
    <3>2. QED
      BY SMTT(20), <2>1, <3>1 DEF TypeInv, MainPlace
  <2>4. QED
    BY <2>2, <2>3
<1>3. ASSUME RecvReady PROVE TypeInv'
  <2>1. UNCHANGED <<env, assigned, inq, reader, pos, got, task, reply>>
    BY <1>3 DEF RecvReady
  <2>2. main' = "spawn" /\ cur' = cur + 1 /\ cur \in Workers
    BY <1>3 DEF RecvReady, TypeInv
  <2>3. CASE outq[cur] # <<>> /\ Head(outq[cur]) = "READY"
    <3>1. pool' = Append(pool, cur) /\ outq' = [outq EXCEPT ![cur] = Tail(@)] /\ worker' = worker
      BY <1>3, <2>3 DEF RecvReady, AfterReady
    <3>2. pool' \in Seq(Workers)
      BY <2>2, <3>1 DEF TypeInv
    <3>3. outq' \in [Workers -> Seq(Message)]
      BY <2>2, <2>3, <3>1, PutTail DEF TypeInv
    <3>4. cur' \in Nat \ {0} /\ main' \in MainPlace
      BY <2>2 DEF TypeInv, MainPlace
    <3>5. QED
      BY <2>1, <2>2, <3>1, <3>2, <3>3, <3>4 DEF TypeInv
  <2>4. CASE ~(outq[cur] # <<>> /\ Head(outq[cur]) = "READY")
    <3>1. worker' = [worker EXCEPT ![cur] = "dead"] /\ pool' = pool /\ outq' = outq
      BY <1>3, <2>4 DEF RecvReady
    <3>2. worker' \in [Workers -> WorkerPlace]
      BY <2>2, <3>1 DEF TypeInv, WorkerPlace
    <3>3. QED
      BY SMTT(20), <2>1, <2>2, <3>1, <3>2 DEF TypeInv, MainPlace
  <2>5. QED
    BY <2>3, <2>4
<1>4. ASSUME Send PROVE TypeInv'
  <2> DEFINE w == pool[((cur - 1) % Len(pool)) + 1]
  <2>1. UNCHANGED <<env, pool, outq, reader, pos, got, worker, task, reply>>
    BY <1>4 DEF Send
  <2>2. w \in Workers
    BY <1>4, SentInPool
  <2>3. (main' = "send" /\ cur' = cur + 1) \/ (main' = "readers" /\ cur' = 1)
    BY <1>4 DEF Send, NextConfig
  <2>4. inq' \in [Workers -> Seq(Nat)] /\ assigned' \in [Workers -> Seq(Nat)]
    <3>1. CASE Alive(w)
      <4>1. inq' = [inq EXCEPT ![w] = Append(@, cur)] /\ assigned' = [assigned EXCEPT ![w] = Append(@, cur)]
        BY <1>4, <3>1 DEF Send
      <4>2. cur \in Nat /\ inq \in [Workers -> Seq(Nat)] /\ assigned \in [Workers -> Seq(Nat)]
        BY DEF TypeInv
      <4>3. QED
        BY <2>2, <4>1, <4>2, PutAppend
    <3>2. CASE ~Alive(w)
      <4>1. inq' = inq /\ assigned' = assigned
        BY <1>4, <3>2 DEF Send
      <4>2. QED
        BY <4>1 DEF TypeInv
    <3>3. QED
      BY <3>1, <3>2
  <2>5. QED
    <3>0. main = "send"
      BY <1>4 DEF Send
    <3>1. cur' \in Nat \ {0} /\ main' \in {"send", "readers"} /\ pool' # <<>>
      BY <2>1, <2>3, <3>0 DEF TypeInv
    <3>2. QED
      BY <2>1, <2>4, <3>1 DEF TypeInv, MainPlace
<1>5. ASSUME StartReaders PROVE TypeInv'
  BY <1>5 DEF StartReaders, TypeInv, MainPlace, ReaderPlace, WorkerPlace, Message
<1>6. ASSUME WaitFor PROVE TypeInv'
  BY <1>6 DEF WaitFor, TypeInv, MainPlace, ReaderPlace, WorkerPlace, Message
<1>7. ASSUME WarmIfFailed PROVE TypeInv'
  BY <1>7 DEF WarmIfFailed, TypeInv, MainPlace, ReaderPlace, WorkerPlace, Message
<1>8. ASSUME Bench PROVE TypeInv'
  BY SMTT(20), <1>8 DEF Bench, NextConfig, TypeInv, MainPlace, ReaderPlace, WorkerPlace, Message
<1>9. ASSUME CloseStdins PROVE TypeInv'
  BY <1>9 DEF CloseStdins, TypeInv, MainPlace, ReaderPlace, WorkerPlace, Message
<1>10. ASSUME Reap PROVE TypeInv'
  <2>1. UNCHANGED <<env, pool, assigned, inq, outq, reader, pos, got, task, reply>>
    BY <1>10 DEF Reap
  <2>2. CASE cur <= Len(pool)
    <3>1. worker' \in {[worker EXCEPT ![pool[cur]] = "dead"], worker} /\ cur' = cur + 1 /\ main' = main /\ main = "reap"
      BY <1>10, <2>2 DEF Reap, Killed
    <3>2. pool[cur] \in Workers
      BY <2>2 DEF TypeInv
    <3>3. worker' \in [Workers -> WorkerPlace]
      BY <3>1, <3>2 DEF TypeInv, WorkerPlace
    <3>4. QED
      BY <2>1, <3>1, <3>3 DEF TypeInv, MainPlace
  <2>3. CASE ~(cur <= Len(pool))
    <3>1. main' = "done" /\ cur' = cur /\ worker' = worker
      BY <1>10, <2>3 DEF Reap
    <3>2. QED
      BY <2>1, <3>1 DEF TypeInv, MainPlace
  <2>4. QED
    BY <2>2, <2>3
<1>11. ASSUME NEW w \in Workers, Recv(w) PROVE TypeInv'
  <2>1. UNCHANGED <<env, main, cur, pool, assigned, inq, pos, worker, task, reply>>
    BY <1>11 DEF Recv
  <2>2. reader' \in [Workers -> ReaderPlace]
    BY <1>11 DEF Recv, TypeInv, ReaderPlace
  <2>3. CASE WholeReply(w)
    <3>1. got' = [got EXCEPT ![w] = Head(outq[w])] /\ outq' = [outq EXCEPT ![w] = Tail(@)] /\ outq[w] # <<>>
      BY <1>11, <2>3 DEF Recv, WholeReply
    <3>2. outq' \in [Workers -> Seq(Message)] /\ Head(outq[w]) \in Message
      BY <3>1, PutTail DEF TypeInv
    <3>3. got' \in [Workers -> Message \cup {"none", "eof"}]
      BY <3>1, <3>2 DEF TypeInv
    <3>4. QED
      BY <2>1, <2>2, <3>2, <3>3 DEF TypeInv
  <2>4. CASE ~WholeReply(w)
    <3>1. got' = [got EXCEPT ![w] = "eof"] /\ outq' = outq
      BY <1>11, <2>4 DEF Recv
    <3>2. got' \in [Workers -> Message \cup {"none", "eof"}]
      BY <3>1 DEF TypeInv
    <3>3. QED
      BY <2>1, <2>2, <3>1, <3>2 DEF TypeInv
  <2>5. QED
    BY <2>3, <2>4
<1>12. ASSUME NEW w \in Workers, RecordFailure(w) PROVE TypeInv'
  BY <1>12 DEF RecordFailure, TypeInv, MainPlace, ReaderPlace, WorkerPlace, Message
<1>13. ASSUME NEW w \in Workers, SetEvents(w) PROVE TypeInv'
  <2>1. UNCHANGED <<env, main, cur, pool, assigned, inq, outq, got, worker, task, reply>>
    BY <1>13 DEF SetEvents
  <2>2. reader' \in {[reader EXCEPT ![w] = "recv"], [reader EXCEPT ![w] = "done"]}
        /\ pos' \in {pos, [pos EXCEPT ![w] = @ + 1]}
    BY <1>13 DEF SetEvents
  <2>3. reader' \in [Workers -> ReaderPlace]
    BY <2>2 DEF TypeInv, ReaderPlace
  <2>4. pos' \in [Workers -> Nat]
    <3>1. pos \in [Workers -> Nat] /\ pos[w] + 1 \in Nat
      BY SMTT(20) DEF TypeInv
    <3>2. [pos EXCEPT ![w] = @ + 1] \in [Workers -> Nat]
      BY <3>1
    <3>3. QED
      BY <2>2, <3>1, <3>2
  <2>5. QED
    BY <2>1, <2>3, <2>4 DEF TypeInv
<1>14. ASSUME NEW w \in Workers, SendReady(w) PROVE TypeInv'
  <2>1. UNCHANGED <<env, main, cur, pool, assigned, inq, reader, pos, got, task, reply>>
    BY <1>14 DEF SendReady
  <2>2. worker' = [worker EXCEPT ![w] = "idle"] /\ outq' = [outq EXCEPT ![w] = Append(@, "READY")]
    BY <1>14 DEF SendReady, Place
  <2>3. worker' \in [Workers -> WorkerPlace]
    BY <2>2 DEF TypeInv, WorkerPlace
  <2>4. outq' \in [Workers -> Seq(Message)]
    <3>1. "READY" \in Message
      BY DEF Message
    <3>2. outq \in [Workers -> Seq(Message)]
      BY DEF TypeInv
    <3>3. [outq EXCEPT ![w] = Append(@, "READY")] \in [Workers -> Seq(Message)]
      BY <3>1, <3>2, PutAppend
    <3>4. QED
      BY <2>2, <3>2, <3>3
  <2>5. QED
    BY <2>1, <2>3, <2>4 DEF TypeInv
<1>15. ASSUME NEW w \in Workers, TakeTask(w) PROVE TypeInv'
  <2>1. UNCHANGED <<env, main, cur, pool, assigned, outq, reader, pos, got, reply>>
    BY <1>15 DEF TakeTask
  <2>2. worker' \in {[worker EXCEPT ![w] = "compile"], [worker EXCEPT ![w] = "dead"]}
    BY <1>15 DEF TakeTask, Place
  <2>3. worker' \in [Workers -> WorkerPlace]
    BY <2>2 DEF TypeInv, WorkerPlace
  <2>4. CASE inq[w] # <<>>
    <3>1. task' = [task EXCEPT ![w] = Head(inq[w])] /\ inq' = [inq EXCEPT ![w] = Tail(@)]
      BY <1>15, <2>4 DEF TakeTask
    <3>2. inq' \in [Workers -> Seq(Nat)] /\ Head(inq[w]) \in Nat
      <4>1. inq \in [Workers -> Seq(Nat)]
        BY DEF TypeInv
      <4>2. QED
        BY <2>4, <3>1, <4>1, PutTail
    <3>3. task' \in [Workers -> Nat]
      BY <3>1, <3>2 DEF TypeInv
    <3>4. QED
      BY <2>1, <2>3, <3>2, <3>3 DEF TypeInv
  <2>5. CASE ~(inq[w] # <<>>)
    <3>1. task' = task /\ inq' = inq
      BY <1>15, <2>5 DEF TakeTask
    <3>2. QED
      BY <2>1, <2>3, <3>1 DEF TypeInv
  <2>6. QED
    BY <2>4, <2>5
<1>16. ASSUME NEW w \in Workers, CompileTask(w) PROVE TypeInv'
  <2>1. UNCHANGED <<env, main, cur, pool, assigned, inq, reader, pos, got, task>>
    BY <1>16 DEF CompileTask
  <2>2. worker' = [worker EXCEPT ![w] = "reply"]
        /\ reply' \in {[reply EXCEPT ![w] = "ERR"], [reply EXCEPT ![w] = "OK"]}
        /\ outq' \in {outq, [outq EXCEPT ![w] = Append(@, "stray")]}
    BY <1>16 DEF CompileTask, Place
  <2>3. worker' \in [Workers -> WorkerPlace]
    BY <2>2 DEF TypeInv, WorkerPlace
  <2>4. reply' \in [Workers -> {"none", "OK", "ERR"}]
    BY <2>2 DEF TypeInv
  <2>5. outq' \in [Workers -> Seq(Message)]
    <3>1. "stray" \in Message
      BY DEF Message
    <3>2. outq \in [Workers -> Seq(Message)]
      BY DEF TypeInv
    <3>3. [outq EXCEPT ![w] = Append(@, "stray")] \in [Workers -> Seq(Message)]
      BY <3>1, <3>2, PutAppend
    <3>4. QED
      BY <2>2, <3>2, <3>3
  <2>6. QED
    BY <2>1, <2>3, <2>4, <2>5 DEF TypeInv
<1>17. ASSUME NEW w \in Workers, SendReply(w) PROVE TypeInv'
  <2>1. UNCHANGED <<env, main, cur, pool, assigned, inq, reader, pos, got, task, reply>>
    BY <1>17 DEF SendReply
  <2>2. worker' \in {[worker EXCEPT ![w] = "idle"], [worker EXCEPT ![w] = "dead"]}
        /\ outq' \in {outq, [outq EXCEPT ![w] = Append(@, reply[w])]}
        /\ (outq' = outq \/ worker[w] = "reply")
    BY <1>17 DEF SendReply, Place
  <2>3. worker' \in [Workers -> WorkerPlace]
    <3>1. worker \in [Workers -> WorkerPlace] /\ {"idle", "dead"} \subseteq WorkerPlace
      BY DEF TypeInv, WorkerPlace
    <3>2. QED
      BY <2>2, <3>1
  <2>4. outq' \in [Workers -> Seq(Message)]
    <3>1. reply[w] \in Message
      BY <1>17 DEF SendReply, Message
    <3>2. outq \in [Workers -> Seq(Message)]
      BY DEF TypeInv
    <3>3. [outq EXCEPT ![w] = Append(@, reply[w])] \in [Workers -> Seq(Message)]
      BY <3>1, <3>2, PutAppend
    <3>4. QED
      BY <2>2, <3>2, <3>3
  <2>5. QED
    BY <2>1, <2>3, <2>4 DEF TypeInv
<1>18. ASSUME NEW w \in Workers, Crash(w) PROVE TypeInv'
  <2>1. UNCHANGED <<env, main, cur, pool, assigned, inq, reader, pos, got, task, reply>>
    BY <1>18 DEF Crash
  <2>2. worker' = [worker EXCEPT ![w] = "dead"] /\ outq' \in {outq, [outq EXCEPT ![w] = Append(@, "part")]}
    BY <1>18 DEF Crash, Place
  <2>3. worker' \in [Workers -> WorkerPlace]
    BY <2>2 DEF TypeInv, WorkerPlace
  <2>4. outq' \in [Workers -> Seq(Message)]
    <3>1. "part" \in Message
      BY DEF Message
    <3>2. outq \in [Workers -> Seq(Message)]
      BY DEF TypeInv
    <3>3. [outq EXCEPT ![w] = Append(@, "part")] \in [Workers -> Seq(Message)]
      BY <3>1, <3>2, PutAppend
    <3>4. QED
      BY <2>2, <3>2, <3>3
  <2>5. QED
    BY <2>1, <2>3, <2>4 DEF TypeInv
<1>19. ASSUME NEW w \in Workers, Watchdog(w) PROVE TypeInv'
  BY <1>19 DEF Watchdog, Place, TypeInv, MainPlace, ReaderPlace, WorkerPlace, Message
<1>20. ASSUME ParentDies PROVE TypeInv'
  BY <1>20 DEF ParentDies, TypeInv, MainPlace, ReaderPlace, WorkerPlace, Message
<1>21. QED
  BY <1>1, <1>2, <1>3, <1>4, <1>5, <1>6, <1>7, <1>8, <1>9, <1>10,
     <1>11, <1>12, <1>13, <1>14, <1>15, <1>16, <1>17, <1>18, <1>19, <1>20
     DEF Next, MainStep, ReaderStep, WorkerStep

-----------------------------------------------------------------------------
(* What a step leaves of a worker's state.  A worker that dies meanwhile    *)
(* keeps everything but its place.                                          *)

Stays(v) == worker'[v] \in {worker[v], "dead"}
Grows == built \subseteq built' /\ failures \subseteq failures'
SamePool(v) == InPool(v)' <=> InPool(v)
SameReader(v) == reader'[v] = reader[v] /\ pos'[v] = pos[v] /\ got'[v] = got[v]
SameTasks(v) == assigned'[v] = assigned[v] /\ inq'[v] = inq[v]

\* A worker that goes on has nothing new to compile or to reply.
Idles(v) == worker'[v] = worker[v] \/ worker'[v] \notin {"compile", "reply"}
Extends(v) ==
  /\ Len(assigned[v]) <= Len(assigned'[v])
  /\ \A i \in 1 .. Len(assigned[v]) : assigned'[v][i] = assigned[v][i]

\* A worker that goes on has as many replies to send as before.
Busy(v) ==
  \/ worker'[v] \notin {"idle", "compile", "reply"}
  \/ worker'[v] = worker[v]
  \/ worker[v] = "compile" /\ worker'[v] = "reply"

\* A worker that a step passes by, or kills, was entered as it was.
LEMMA EntryFrame ==
  ASSUME NEW v \in Workers, EntryInv(v), Stays(v), SamePool(v), SameReader(v), SameTasks(v), outq'[v] = outq[v]
  PROVE  EntryInv(v)'
BY DEF EntryInv, Stays, SamePool, SameReader, SameTasks

\* It compiles and replies as before.
LEMMA WorkFrame ==
  ASSUME NEW v \in Workers, WorkInv(v), Idles(v), SameTasks(v), Grows, task'[v] = task[v], reply'[v] = reply[v]
  PROVE  WorkInv(v)'
BY DEF WorkInv, Begun, Idles, SameTasks, Grows

\* The replies in a pipe stay right while the reader does not move on.
LEMMA ReplyFrame ==
  ASSUME TypeInv, NEW v \in Workers, ReplyInv(v), Busy(v), SamePool(v), Grows, outq'[v] = outq[v],
         Taken(v)' = Taken(v), Taken(v) \in Nat, Begun(v)' = Begun(v), Reading(v)' => Reading(v),
         Extends(v), Len(assigned'[v]) \in Nat
  PROVE  ReplyInv(v)'
<1>1. SUFFICES ASSUME InPool(v)', Reading(v)'
               PROVE  /\ \A k \in 1 .. Len(outq[v]) : Whole(v, k) =>
                           /\ Taken(v) + k <= Len(assigned'[v])
                           /\ outq[v][k] = "OK" => assigned'[v][Taken(v) + k] \in built'
                      /\ worker'[v] \in {"idle", "compile", "reply"} /\ Whole(v, Len(outq[v])) =>
                           Taken(v) + Len(outq[v]) = Begun(v) - (IF worker'[v] = "idle" THEN 0 ELSE 1)
                      /\ \A k \in 1 .. Len(outq[v]) : outq[v][k] # "READY"
  <2>1. ASSUME NEW k PROVE Whole(v, k)' <=> Whole(v, k)
    BY DEF Whole
  <2>2. QED
    BY <2>1 DEF ReplyInv
<1>2. /\ \A k \in 1 .. Len(outq[v]) : Whole(v, k) =>
           /\ Taken(v) + k <= Len(assigned[v])
           /\ outq[v][k] = "OK" => assigned[v][Taken(v) + k] \in built
      /\ worker[v] \in {"idle", "compile", "reply"} /\ Whole(v, Len(outq[v])) =>
           Taken(v) + Len(outq[v]) = Begun(v) - (IF worker[v] = "idle" THEN 0 ELSE 1)
      /\ \A k \in 1 .. Len(outq[v]) : outq[v][k] # "READY"
  BY <1>1 DEF ReplyInv, SamePool
<1>3. ASSUME NEW k \in 1 .. Len(outq[v]), Whole(v, k)
      PROVE  Taken(v) + k <= Len(assigned'[v]) /\ (outq[v][k] = "OK" => assigned'[v][Taken(v) + k] \in built')
  <2>1. Taken(v) + k <= Len(assigned[v]) /\ (outq[v][k] = "OK" => assigned[v][Taken(v) + k] \in built)
    BY <1>2, <1>3
  <2>2. Len(assigned[v]) \in Nat /\ Len(outq[v]) \in Nat
    <3>1. assigned[v] \in Seq(Nat) /\ outq[v] \in Seq(Message)
      BY DEF TypeInv
    <3>2. QED
      BY <3>1
  <2>3. Taken(v) + k \in 1 .. Len(assigned[v])
    BY <2>1, <2>2
  <2>4. QED
    BY <2>1, <2>2, <2>3 DEF Extends, Grows
<1>4. QED
  BY <1>2, <1>3 DEF Busy

\* Its reader settles as before, for more is built and more has failed.
LEMMA SettleFrame ==
  ASSUME NEW v \in Workers, SettleInv(v), SameReader(v), SameTasks(v), Grows
  PROVE  SettleInv(v)'
BY DEF SettleInv, Remaining, SameReader, SameTasks, Grows

\* A reader has taken no fewer than no replies.
LEMMA TakenNat ==
  ASSUME TypeInv, NEW v \in Workers, WorkerInv(v)
  PROVE  Taken(v) \in Nat
<1>1. pos[v] \in Nat /\ pos[v] >= 1
  BY DEF TypeInv, WorkerInv, EntryInv
<1>2. QED
  BY <1>1 DEF Taken

\* A step keeps what holds of a worker that it passes by or kills.
LEMMA WorkerFrame ==
  ASSUME TypeInv, NEW v \in Workers, WorkerInv(v), Stays(v), SamePool(v), SameReader(v), SameTasks(v), Grows,
         outq'[v] = outq[v], task'[v] = task[v], reply'[v] = reply[v]
  PROVE  WorkerInv(v)'
<1>1. Taken(v)' = Taken(v) /\ Begun(v)' = Begun(v) /\ (Reading(v)' => Reading(v))
  BY DEF Taken, Begun, Reading, SameReader, SameTasks
<1>2. Extends(v) /\ Len(assigned'[v]) \in Nat
  BY DEF Extends, SameTasks, TypeInv
<1>3. Taken(v) \in Nat
  BY TakenNat
<1>4. Idles(v) /\ Busy(v)
  BY DEF Idles, Busy, Stays
<1>5. QED
  BY <1>1, <1>2, <1>3, <1>4, EntryFrame, WorkFrame, ReplyFrame, SettleFrame DEF WorkerInv

-----------------------------------------------------------------------------
(* Steps that at most kill a worker. *)

\* Steps of main after it has started the readers.
LEMMA MainQuiet ==
  ASSUME PoolInv, WaitFor \/ WarmIfFailed \/ Bench \/ CloseStdins \/ Reap, NEW v \in Workers
  PROVE  WorkerInv(v)'
<1>1. Stays(v) /\ SameReader(v) /\ SameTasks(v) /\ Grows /\ outq'[v] = outq[v] /\ task'[v] = task[v]
      /\ reply'[v] = reply[v] /\ pool' = pool
  BY DEF PoolInv, TypeInv, WaitFor, WarmIfFailed, Bench, CloseStdins, Reap, Killed, handle,
     readers, children, pipes, results, parentState, Stays, SameReader, SameTasks, Grows
<1>2. SamePool(v)
  BY <1>1 DEF SamePool, InPool
<1>3. QED
  BY <1>1, <1>2, WorkerFrame DEF PoolInv

\* The parent dies, and its workers after it.
LEMMA DeathQuiet ==
  ASSUME PoolInv, ParentDies \/ UNCHANGED vars \/ (\E w \in Workers : Watchdog(w)), NEW v \in Workers
  PROVE  WorkerInv(v)'
<1>1. Stays(v) /\ SameReader(v) /\ SameTasks(v) /\ Grows /\ outq'[v] = outq[v] /\ task'[v] = task[v]
      /\ reply'[v] = reply[v] /\ pool' = pool
  BY DEF PoolInv, TypeInv, ParentDies, Watchdog, Place, vars, handle, readers, children, pipes,
     results, parentState, Stays, SameReader, SameTasks, Grows
<1>2. SamePool(v)
  BY <1>1 DEF SamePool, InPool
<1>3. QED
  BY <1>1, <1>2, WorkerFrame DEF PoolInv

-----------------------------------------------------------------------------
(* Steps of main until it starts the readers. *)

\* A worker that is spawned was off, so its pipe is empty.
LEMMA SpawnWorkers ==
  ASSUME PoolInv, Spawn, NEW v \in Workers
  PROVE  WorkerInv(v)'
<1>1. SamePool(v) /\ SameReader(v) /\ SameTasks(v) /\ Grows /\ outq'[v] = outq[v] /\ task'[v] = task[v]
      /\ reply'[v] = reply[v]
  BY DEF Spawn, handle, readers, children, pipes, results, parentState, SamePool, InPool,
     SameReader, SameTasks, Grows
<1>2. CASE worker'[v] = worker[v]
  BY <1>1, <1>2, WorkerFrame DEF PoolInv, Stays
<1>3. CASE worker'[v] # worker[v]
  <2>1. v = cur /\ worker'[v] = "boot" /\ main = "spawn"
    BY <1>3 DEF Spawn, PoolInv, TypeInv
  <2>2. worker[v] = "off"
    BY <2>1 DEF PoolInv, PlaceInv, Workers
  <2>3. ~InPool(v) /\ ~InPool(v)' /\ outq'[v] = <<>>
    BY <1>1, <2>2 DEF PoolInv, WorkerInv, EntryInv, SamePool
  <2>4. EntryInv(v)'
    BY <1>1, <2>1, <2>2, <2>3 DEF PoolInv, WorkerInv, EntryInv, SameReader, SameTasks
  <2>5. WorkInv(v)'
    <3>1. Idles(v)
      BY <2>1 DEF Idles
    <3>2. QED
      BY <1>1, <3>1, WorkFrame DEF PoolInv, WorkerInv
  <2>6. ReplyInv(v)'
    BY <2>3 DEF ReplyInv
  <2>7. SettleInv(v)'
    BY <1>1, SettleFrame DEF PoolInv, WorkerInv
  <2>8. QED
    BY <2>4, <2>5, <2>6, <2>7 DEF WorkerInv
<1>4. QED
  BY <1>2, <1>3

\* A worker is asked for READY once: it enters the pool with empty pipes.
LEMMA ReadyWorkers ==
  ASSUME PoolInv, RecvReady, NEW v \in Workers
  PROVE  WorkerInv(v)'
<1>1. SameReader(v) /\ SameTasks(v) /\ Grows /\ task'[v] = task[v] /\ reply'[v] = reply[v]
  BY DEF RecvReady, handle, readers, children, pipes, results, parentState, SameReader, SameTasks,
     Grows
<1>2. main = "ready" /\ cur \in Workers /\ reader[cur] = "off"
  BY DEF RecvReady, PoolInv, TypeInv, PlaceInv, Starting
<1>3. CASE outq[cur] # <<>> /\ Head(outq[cur]) = "READY"
  <2>1. pool' = Append(pool, cur) /\ outq' = [outq EXCEPT ![cur] = Tail(@)] /\ worker' = worker
    BY <1>3 DEF RecvReady, AfterReady
  <2>2. pool \in Seq(Workers) /\ outq \in [Workers -> Seq(Message)]
    BY DEF PoolInv, TypeInv
  <2>3. ~InPool(cur)
    <3>1. outq[cur][1] = "READY" /\ 1 \in 1 .. Len(outq[cur])
      BY <1>2, <1>3, <2>1, <2>2, PutTail
    <3>2. Reading(cur)
      BY <1>2 DEF Reading
    <3>3. QED
      BY <1>2, <3>1, <3>2 DEF PoolInv, WorkerInv, ReplyInv
  <2>4. Len(pool) \in Nat /\ Len(pool') = Len(pool) + 1 /\ pool'[Len(pool) + 1] = cur
        /\ \A i \in 1 .. Len(pool) : pool'[i] = pool[i]
    BY <1>2, <2>1, <2>2
  <2>5. CASE v # cur
    <3>1. SamePool(v)
      BY <2>4, <2>5 DEF SamePool, InPool
    <3>2. outq'[v] = outq[v] /\ Stays(v)
      BY <2>1, <2>5 DEF Stays
    <3>3. QED
      BY <1>1, <3>1, <3>2, WorkerFrame DEF PoolInv
  <2>6. CASE v = cur
    <3>1. outq[v] = <<"READY">> /\ assigned[v] = <<>> /\ inq[v] = <<>> /\ worker[v] \in {"idle", "dead"}
      BY <1>2, <1>3, <2>3, <2>6 DEF PoolInv, WorkerInv, EntryInv
    <3>2. outq'[v] = <<>>
      BY <1>2, <2>1, <2>2, <2>6, <3>1
    <3>3. InPool(v)'
      BY <2>4, <2>6 DEF InPool
    <3>4. EntryInv(v)'
      BY <1>1, <1>2, <2>1, <2>6, <3>1, <3>3 DEF PoolInv, WorkerInv, EntryInv, SameReader, SameTasks
    <3>5. WorkInv(v)'
      BY <1>1, <2>1, WorkFrame DEF PoolInv, WorkerInv, Idles
    <3>6. ReplyInv(v)'
      <4>1. assigned'[v] = <<>> /\ inq'[v] = <<>> /\ worker'[v] \in {"idle", "dead"} /\ reader'[v] = "off"
            /\ pos'[v] = 1
        BY <1>1, <1>2, <2>1, <2>6, <3>1 DEF PoolInv, WorkerInv, EntryInv, SameReader, SameTasks
      <4>2. Taken(v)' = 0 /\ Begun(v)' = 0 /\ Len(outq'[v]) = 0
        BY <3>2, <4>1 DEF Taken, Begun
      <4>3. \A k \in 1 .. Len(outq'[v]) : FALSE
        BY <4>2
      <4>4. Taken(v)' + Len(outq'[v]) = Begun(v)' - (IF worker'[v] = "idle" THEN 0 ELSE 1)
            \/ worker'[v] \notin {"idle", "compile", "reply"}
        <5>1. CASE worker'[v] = "idle"
          BY <4>2, <5>1
        <5>2. CASE worker'[v] = "dead"
          BY <5>2
        <5>3. QED
          BY <4>1, <5>1, <5>2
      <4>5. QED
        BY <4>3, <4>4 DEF ReplyInv
    <3>7. SettleInv(v)'
      BY <1>1, SettleFrame DEF PoolInv, WorkerInv
    <3>8. QED
      BY <3>4, <3>5, <3>6, <3>7 DEF WorkerInv
  <2>7. QED
    BY <2>5, <2>6
<1>4. CASE ~(outq[cur] # <<>> /\ Head(outq[cur]) = "READY")
  <2>1. worker' = [worker EXCEPT ![cur] = "dead"] /\ pool' = pool /\ outq' = outq
    BY <1>4 DEF RecvReady
  <2>2. SamePool(v) /\ Stays(v)
    BY <2>1 DEF SamePool, InPool, Stays, PoolInv, TypeInv
  <2>3. QED
    BY <1>1, <2>1, <2>2, WorkerFrame DEF PoolInv
<1>5. QED
  BY <1>3, <1>4

\* A config goes to the end of what a worker of the pool is to do.
LEMMA SendWorkers ==
  ASSUME PoolInv, Send, NEW v \in Workers
  PROVE  WorkerInv(v)'
<1> DEFINE to == pool[((cur - 1) % Len(pool)) + 1]
<1>1. SamePool(v) /\ SameReader(v) /\ Stays(v) /\ outq'[v] = outq[v] /\ task'[v] = task[v]
      /\ reply'[v] = reply[v] /\ built' = built /\ worker'[v] = worker[v]
  BY DEF Send, handle, readers, children, pipes, results, parentState, SamePool, InPool,
     SameReader, Stays
<1>2. to \in Workers /\ InPool(to) /\ cur \in Nat
  BY SentInPool DEF PoolInv, TypeInv, InPool
<1>3. Grows
  BY DEF Send, handle, readers, children, pipes, results, parentState, Grows
<1>4. assigned \in [Workers -> Seq(Nat)] /\ inq \in [Workers -> Seq(Nat)] /\ reader[v] = "off"
  BY DEF PoolInv, TypeInv, PlaceInv, Starting, Send
<1>5. CASE Alive(to) /\ v = to
  <2>1. inq' = [inq EXCEPT ![to] = Append(@, cur)] /\ assigned' = [assigned EXCEPT ![to] = Append(@, cur)]
    BY <1>5 DEF Send
  <2>2. /\ Len(inq[v]) \in Nat /\ Len(inq'[v]) = Len(inq[v]) + 1 /\ inq'[v][Len(inq[v]) + 1] = cur
        /\ \A k \in 1 .. Len(inq[v]) : inq'[v][k] = inq[v][k]
    BY <1>2, <1>4, <1>5, <2>1, PutAppend
  <2>3. /\ Len(assigned[v]) \in Nat /\ Len(assigned'[v]) = Len(assigned[v]) + 1
        /\ assigned'[v][Len(assigned[v]) + 1] = cur
        /\ \A k \in 1 .. Len(assigned[v]) : assigned'[v][k] = assigned[v][k]
    BY <1>2, <1>4, <1>5, <2>1, PutAppend
  <2>4. Begun(v)' = Begun(v) /\ Begun(v) \in 0 .. Len(assigned[v]) /\ Begun(v) + Len(inq[v]) = Len(assigned[v])
    <3>1. Begun(v) >= 0
      BY DEF PoolInv, WorkerInv, WorkInv
    <3>2. Begun(v) = Len(assigned[v]) - Len(inq[v]) /\ Begun(v)' = Len(assigned'[v]) - Len(inq'[v])
      BY DEF Begun
    <3>3. Begun(v) + Len(inq[v]) = Len(assigned[v]) /\ Begun(v)' = Begun(v)
      BY <2>2, <2>3, <3>2
    <3>4. Begun(v) \in 0 .. Len(assigned[v])
      <4>1. Len(inq[v]) \in Nat /\ Len(assigned[v]) \in Nat
        BY <2>2, <2>3
      <4>2. QED
        BY <3>1, <3>2, <4>1, Difference
    <3>5. QED
      BY <3>3, <3>4
  <2>5. EntryInv(v)'
    BY <1>1, <1>2, <1>4, <1>5 DEF PoolInv, WorkerInv, EntryInv, SamePool, SameReader
  <2>6. WorkInv(v)'
    <3>1. \A k \in 1 .. Len(inq'[v]) : inq'[v][k] = assigned'[v][Begun(v) + k]
      <4> TAKE k \in 1 .. Len(inq'[v])
      <4>1. CASE k \in 1 .. Len(inq[v])
        <5>1. inq[v][k] = assigned[v][Begun(v) + k]
          BY <4>1 DEF PoolInv, WorkerInv, WorkInv
        <5>2. Begun(v) + k \in 1 .. Len(assigned[v])
          BY <2>2, <2>3, <2>4, <4>1
        <5>3. QED
          BY <2>2, <2>3, <4>1, <5>1, <5>2
      <4>2. CASE k = Len(inq[v]) + 1
        <5>1. Begun(v) + k = Len(assigned[v]) + 1
          BY <2>2, <2>3, <2>4, <4>2
        <5>2. QED
          BY <2>2, <2>3, <4>2, <5>1
      <4>3. QED
        BY <2>2, <4>1, <4>2
    <3>2. worker[v] \in {"compile", "reply"} => assigned'[v][Begun(v)] = assigned[v][Begun(v)]
      BY SMTT(20), <2>3, <2>4 DEF PoolInv, WorkerInv, WorkInv
    <3>3. QED
      BY <1>1, <2>4, <3>1, <3>2 DEF PoolInv, WorkerInv, WorkInv
  <2>7. ReplyInv(v)'
    <3>1. Taken(v)' = Taken(v) /\ Taken(v) = 0 /\ Reading(v)
      BY <1>1, <1>4 DEF Taken, SameReader, PoolInv, WorkerInv, EntryInv, Reading
    <3>2. Extends(v) /\ Len(assigned'[v]) \in Nat
      BY <2>3 DEF Extends
    <3>3. QED
      BY <1>1, <1>3, <2>4, <3>1, <3>2, ReplyFrame DEF PoolInv, WorkerInv, Busy
  <2>8. SettleInv(v)'
    BY <1>1, <1>4 DEF SettleInv, SameReader
  <2>9. QED
    BY <2>5, <2>6, <2>7, <2>8 DEF WorkerInv
<1>6. CASE ~(Alive(to) /\ v = to)
  <2>1. SameTasks(v)
    BY <1>4, <1>6 DEF Send, SameTasks
  <2>2. QED
    BY <1>1, <1>3, <2>1, WorkerFrame DEF PoolInv
<1>7. QED
  BY <1>5, <1>6

\* A reader starts at the first config of its worker.
LEMMA StartWorkers ==
  ASSUME PoolInv, StartReaders, NEW v \in Workers
  PROVE  WorkerInv(v)'
<1>1. SamePool(v) /\ SameTasks(v) /\ Stays(v) /\ outq'[v] = outq[v] /\ task'[v] = task[v]
      /\ reply'[v] = reply[v] /\ Grows /\ pos'[v] = pos[v] /\ worker'[v] = worker[v]
  BY DEF StartReaders, handle, readers, children, pipes, results, parentState, SamePool, InPool,
     SameTasks, Stays, Grows
<1>2. reader[v] = "off" /\ pos[v] = 1
  BY DEF StartReaders, PoolInv, PlaceInv, WorkerInv, EntryInv, Starting
<1>3. reader'[v] = IF assigned[v] # <<>> THEN "recv" ELSE "off"
  BY DEF StartReaders
<1>4. EntryInv(v)'
  <2>1. assigned[v] # <<>> => 1 \in 1 .. Len(assigned[v])
    BY DEF PoolInv, TypeInv
  <2>2. QED
    BY <1>1, <1>2, <1>3, <2>1 DEF PoolInv, WorkerInv, EntryInv, SamePool, SameTasks
<1>5. WorkInv(v)'
  BY <1>1, WorkFrame DEF PoolInv, WorkerInv, Idles
<1>6. ReplyInv(v)'
  <2>1. Taken(v)' = Taken(v) /\ Reading(v)
    BY <1>1, <1>2, <1>3 DEF Taken, Reading
  <2>2. Begun(v)' = Begun(v) /\ Extends(v) /\ Len(assigned'[v]) \in Nat
    BY <1>1 DEF Begun, SameTasks, Extends, PoolInv, TypeInv
  <2>3. Taken(v) \in Nat
    BY TakenNat DEF PoolInv
  <2>4. QED
    BY <1>1, <2>1, <2>2, <2>3, ReplyFrame DEF PoolInv, WorkerInv, Busy
<1>7. SettleInv(v)'
  BY <1>3 DEF SettleInv
<1>8. QED
  BY <1>4, <1>5, <1>6, <1>7 DEF WorkerInv

-----------------------------------------------------------------------------
(* Steps of a reader. *)

\* A reader's worker is one of the pool, and its place one of the configs sent.
LEMMA ReaderPool ==
  ASSUME PoolInv, NEW w \in Workers, reader[w] \in {"recv", "got", "set"}
  PROVE  /\ InPool(w) /\ ~Starting
         /\ pos[w] \in 1 .. Len(assigned[w]) /\ Len(assigned[w]) \in Nat
<1>1. assigned[w] \in Seq(Nat) /\ pos[w] \in 1 .. Len(assigned[w])
  BY DEF PoolInv, TypeInv, WorkerInv, EntryInv
<1>2. assigned[w] # <<>>
  BY <1>1
<1>3. QED
  BY <1>1, <1>2 DEF PoolInv, PlaceInv, WorkerInv, EntryInv

\* The reply that a reader takes is that of the config it is at.
LEMMA RecvWorkers ==
  ASSUME PoolInv, NEW w \in Workers, Recv(w), NEW v \in Workers
  PROVE  WorkerInv(v)'
<1>1. SamePool(v) /\ SameTasks(v) /\ Stays(v) /\ task'[v] = task[v] /\ reply'[v] = reply[v] /\ Grows
      /\ pos'[v] = pos[v] /\ worker'[v] = worker[v] /\ built' = built
  BY DEF Recv, handle, readers, children, pipes, results, parentState, SamePool, InPool,
     SameTasks, Stays, Grows
<1>2. reader' = [reader EXCEPT ![w] = "got"] /\ reader[w] = "recv"
  BY DEF Recv
<1>3. /\ reader \in [Workers -> ReaderPlace] /\ got \in [Workers -> Message \cup {"none", "eof"}]
      /\ outq \in [Workers -> Seq(Message)] /\ pos[v] \in Nat
  BY DEF PoolInv, TypeInv
<1>4. CASE v # w
  <2>1. SameReader(v) /\ outq'[v] = outq[v]
    BY <1>1, <1>2, <1>3, <1>4 DEF Recv, SameReader
  <2>2. QED
    BY <1>1, <2>1, WorkerFrame DEF PoolInv
<1>5. CASE v = w
  <2>1. reader'[v] = "got" /\ reader[v] = "recv"
    BY <1>2, <1>3, <1>5
  <2>2. InPool(v) /\ pos[v] \in 1 .. Len(assigned[v]) /\ Len(assigned[v]) \in Nat
    BY <2>1, ReaderPool
  <2>3. EntryInv(v)'
    BY <1>1, <2>1, <2>2 DEF PoolInv, WorkerInv, EntryInv, SamePool, SameTasks
  <2>4. WorkInv(v)'
    BY <1>1, WorkFrame DEF PoolInv, WorkerInv, Idles
  <2>5. CASE ~WholeReply(v)
    <3>1. got'[v] = "eof"
      BY <1>3, <1>5, <2>5 DEF Recv
    <3>2. ReplyInv(v)' /\ SettleInv(v)'
      BY <2>1, <3>1 DEF ReplyInv, SettleInv, Reading
    <3>3. QED
      BY <2>3, <2>4, <3>2 DEF WorkerInv
  <2>6. CASE WholeReply(v)
    <3>1. outq[v] # <<>> /\ got'[v] = Head(outq[v]) /\ outq' = [outq EXCEPT ![v] = Tail(@)]
          /\ Head(outq[v]) \notin {"part", "stray"}
      BY <1>3, <1>5, <2>6 DEF Recv, WholeReply
    <3>2. /\ Len(outq[v]) \in Nat /\ Len(outq[v]) >= 1 /\ Len(outq'[v]) = Len(outq[v]) - 1
          /\ Head(outq[v]) = outq[v][1] /\ outq[v][1] \in Message
          /\ \A k \in 1 .. Len(outq'[v]) : outq'[v][k] = outq[v][k + 1]
      BY <1>3, <3>1, PutTail
    <3>3. Taken(v) = pos[v] - 1 /\ Taken(v)' = pos[v] /\ Reading(v)
      BY <1>1, <2>1 DEF Taken, Reading
    <3>4. /\ \A k \in 1 .. Len(outq[v]) : Whole(v, k) =>
               /\ Taken(v) + k <= Len(assigned[v])
               /\ outq[v][k] = "OK" => assigned[v][Taken(v) + k] \in built
          /\ worker[v] \in {"idle", "compile", "reply"} /\ Whole(v, Len(outq[v])) =>
               Taken(v) + Len(outq[v]) = Begun(v) - (IF worker[v] = "idle" THEN 0 ELSE 1)
          /\ \A k \in 1 .. Len(outq[v]) : outq[v][k] # "READY"
      BY <2>2, <3>3 DEF PoolInv, WorkerInv, ReplyInv
    <3>5. got'[v] \in {"OK", "ERR"} /\ got'[v] = outq[v][1]
      <4>1. outq[v][1] # "READY"
        BY <3>2, <3>4
      <4>2. QED
        BY <3>1, <3>2, <4>1 DEF Message
    <3>6. SettleInv(v)'
      <4>1. Whole(v, 1)
        BY <3>5 DEF Whole
      <4>2. got'[v] = "OK" => assigned[v][Taken(v) + 1] \in built
        BY <3>2, <3>4, <3>5, <4>1
      <4>3. Taken(v) + 1 = pos[v]
        BY <1>3, <3>3
      <4>4. QED
        BY <1>1, <2>1, <3>5, <4>2, <4>3 DEF SettleInv, SameTasks
    <3>7. ASSUME NEW k \in 0 .. Len(outq'[v]), Whole(v, k)'
          PROVE  Whole(v, k + 1)
      <4> SUFFICES ASSUME NEW j \in 1 .. k + 1 PROVE outq[v][j] \in {"OK", "ERR"}
        BY DEF Whole
      <4>1. CASE j = 1
        BY <3>5, <4>1
      <4>2. CASE j # 1
        <5>1. j - 1 \in 1 .. k /\ j - 1 \in 1 .. Len(outq'[v])
          BY <3>2, <4>2
        <5>2. outq'[v][j - 1] = outq[v][(j - 1) + 1]
          BY <3>2, <5>1
        <5>3. outq'[v][j - 1] \in {"OK", "ERR"}
          BY <3>7, <5>1 DEF Whole
        <5>4. QED
          BY <5>2, <5>3
      <4>3. QED
        BY <4>1, <4>2
    <3>8. ASSUME NEW k \in 1 .. Len(outq'[v]), Whole(v, k)'
          PROVE  /\ Taken(v)' + k <= Len(assigned'[v])
                 /\ outq'[v][k] = "OK" => assigned'[v][Taken(v)' + k] \in built'
      <4>1. k + 1 \in 1 .. Len(outq[v]) /\ Whole(v, k + 1) /\ outq'[v][k] = outq[v][k + 1]
        BY <3>2, <3>7, <3>8
      <4>2. Taken(v) + (k + 1) = Taken(v)' + k
        BY <1>3, <3>3
      <4>3. QED
        BY <1>1, <3>4, <4>1, <4>2 DEF SameTasks
    <3>9. ASSUME worker'[v] \in {"idle", "compile", "reply"}, NEW k, k = Len(outq'[v]), Whole(v, k)'
          PROVE  Taken(v)' + Len(outq'[v]) = Begun(v)' - (IF worker'[v] = "idle" THEN 0 ELSE 1)
      <4>1. k \in 0 .. Len(outq'[v]) /\ k + 1 = Len(outq[v])
        BY <3>2, <3>9
      <4>2. Whole(v, Len(outq[v]))
        <5>1. Whole(v, k + 1)
          BY <3>7, <3>9, <4>1
        <5>2. QED
          BY <4>1, <5>1 DEF Whole
      <4>3. Taken(v) + Len(outq[v]) = Begun(v) - (IF worker[v] = "idle" THEN 0 ELSE 1)
        BY <1>1, <3>4, <3>9, <4>2
      <4>4. Begun(v)' = Begun(v)
        BY <1>1 DEF Begun, SameTasks
      <4>5. Taken(v) + Len(outq[v]) = Taken(v)' + Len(outq'[v])
        BY <1>3, <3>2, <3>3
      <4>6. QED
        BY <1>1, <4>3, <4>4, <4>5
    <3>10. \A k \in 1 .. Len(outq'[v]) : outq'[v][k] # "READY"
      BY <3>2, <3>4
    <3>11. ReplyInv(v)'
      BY <3>8, <3>9, <3>10 DEF ReplyInv, Whole
    <3>12. QED
      BY <2>3, <2>4, <3>6, <3>11 DEF WorkerInv
  <2>7. QED
    BY <2>5, <2>6
<1>6. QED
  BY <1>4, <1>5

\* What a reader puts among the failures is what it is about to settle.
LEMMA RecordWorkers ==
  ASSUME PoolInv, NEW w \in Workers, RecordFailure(w), NEW v \in Workers
  PROVE  WorkerInv(v)'
<1>1. SamePool(v) /\ SameTasks(v) /\ Stays(v) /\ outq'[v] = outq[v] /\ task'[v] = task[v]
      /\ reply'[v] = reply[v] /\ Grows /\ pos'[v] = pos[v] /\ got'[v] = got[v] /\ worker'[v] = worker[v]
      /\ built' = built
  BY DEF RecordFailure, handle, readers, children, pipes, results, parentState, SamePool, InPool,
     SameTasks, Stays, Grows
<1>2. reader' = [reader EXCEPT ![w] = "set"] /\ reader[w] = "got" /\ reader \in [Workers -> ReaderPlace]
  BY DEF RecordFailure, PoolInv, TypeInv
<1>3. CASE v # w
  BY <1>1, <1>2, <1>3, WorkerFrame DEF PoolInv, SameReader
<1>4. CASE v = w
  <2>1. reader'[v] = "set" /\ reader[v] = "got"
    BY <1>2, <1>4
  <2>2. pos[v] \in 1 .. Len(assigned[v]) /\ Len(assigned[v]) \in Nat
    BY <2>1, ReaderPool
  <2>3. EntryInv(v)'
    BY <1>1, <2>1 DEF PoolInv, WorkerInv, EntryInv, SamePool, SameTasks
  <2>4. WorkInv(v)'
    BY <1>1, WorkFrame DEF PoolInv, WorkerInv, Idles
  <2>5. ReplyInv(v)'
    <3>1. Taken(v)' = Taken(v) /\ (Reading(v)' => Reading(v))
      BY <1>1, <2>1 DEF Taken, Reading
    <3>2. Begun(v)' = Begun(v) /\ Extends(v) /\ Len(assigned'[v]) \in Nat
      BY <1>1, <2>2 DEF Begun, SameTasks, Extends
    <3>3. Taken(v) \in Nat
      BY TakenNat DEF PoolInv
    <3>4. QED
      BY <1>1, <3>1, <3>2, <3>3, ReplyFrame DEF PoolInv, WorkerInv, Busy
  <2>6. SettleInv(v)'
    <3>1. /\ got[v] \in {"OK", "ERR", "eof"}
          /\ got[v] = "OK" => assigned[v][pos[v]] \in built
      BY <2>1 DEF PoolInv, WorkerInv, SettleInv
    <3>2. /\ got[v] = "eof" => Remaining(v) \subseteq failures'
          /\ got[v] = "ERR" => assigned[v][pos[v]] \in failures'
      BY <1>4 DEF RecordFailure
    <3>3. Remaining(v)' = Remaining(v)
      BY <1>1 DEF Remaining, SameTasks
    <3>4. QED
      BY <1>1, <3>1, <3>2, <3>3 DEF SettleInv, SameTasks
  <2>7. QED
    BY <2>3, <2>4, <2>5, <2>6 DEF WorkerInv
<1>5. QED
  BY <1>3, <1>4

\* A reader that goes on expects the reply of the next config.
LEMMA SetWorkers ==
  ASSUME PoolInv, NEW w \in Workers, SetEvents(w), NEW v \in Workers
  PROVE  WorkerInv(v)'
<1>1. SamePool(v) /\ SameTasks(v) /\ Stays(v) /\ outq'[v] = outq[v] /\ task'[v] = task[v]
      /\ reply'[v] = reply[v] /\ Grows /\ got'[v] = got[v] /\ worker'[v] = worker[v]
  BY DEF SetEvents, handle, readers, children, pipes, results, parentState, SamePool, InPool,
     SameTasks, Stays, Grows
<1>2. reader[w] = "set" /\ reader \in [Workers -> ReaderPlace] /\ pos \in [Workers -> Nat]
  BY DEF SetEvents, PoolInv, TypeInv
<1>3. \/ /\ got[w] # "eof" /\ pos[w] < Len(assigned[w])
         /\ pos' = [pos EXCEPT ![w] = @ + 1] /\ reader' = [reader EXCEPT ![w] = "recv"]
      \/ reader' = [reader EXCEPT ![w] = "done"] /\ pos' = pos
  BY DEF SetEvents
<1>4. CASE v # w
  <2>1. SameReader(v)
    BY <1>1, <1>2, <1>3, <1>4 DEF SameReader
  <2>2. QED
    BY <1>1, <2>1, WorkerFrame DEF PoolInv
<1>5. CASE v = w
  <2>1. pos[v] \in 1 .. Len(assigned[v]) /\ Len(assigned[v]) \in Nat /\ InPool(v) /\ reader[v] = "set"
    BY <1>2, <1>5, ReaderPool
  <2>2. \/ got[v] # "eof" /\ pos[v] < Len(assigned[v]) /\ pos'[v] = pos[v] + 1 /\ reader'[v] = "recv"
        \/ reader'[v] = "done" /\ pos'[v] = pos[v]
    BY <1>2, <1>3, <1>5
  <2>3. EntryInv(v)'
    <3>1. pos'[v] \in 1 .. Len(assigned[v])
      BY <2>1, <2>2
    <3>2. QED
      BY <1>1, <2>1, <2>2, <3>1 DEF PoolInv, WorkerInv, EntryInv, SamePool, SameTasks
  <2>4. WorkInv(v)'
    BY <1>1, WorkFrame DEF PoolInv, WorkerInv, Idles
  <2>5. ReplyInv(v)'
    <3>1. CASE reader'[v] = "done"
      BY <3>1 DEF ReplyInv, Reading
    <3>2. CASE reader'[v] = "recv"
      <4>1. Taken(v)' = Taken(v) /\ Reading(v)
        BY <2>1, <2>2, <3>2 DEF Taken, Reading
      <4>2. Begun(v)' = Begun(v) /\ Extends(v) /\ Len(assigned'[v]) \in Nat
        BY <1>1, <2>1 DEF Begun, SameTasks, Extends
      <4>3. Taken(v) \in Nat
        BY TakenNat DEF PoolInv
      <4>4. QED
        BY <1>1, <4>1, <4>2, <4>3, ReplyFrame DEF PoolInv, WorkerInv, Busy
    <3>3. QED
      BY <2>2, <3>1, <3>2
  <2>6. SettleInv(v)'
    BY <2>2 DEF SettleInv
  <2>7. QED
    BY <2>3, <2>4, <2>5, <2>6 DEF WorkerInv
<1>6. QED
  BY <1>4, <1>5

-----------------------------------------------------------------------------
(* Steps of a worker. *)

\* What the invariant says of the replies in a pipe.
LEMMA Replies ==
  ASSUME PoolInv, NEW v \in Workers, InPool(v), Reading(v)
  PROVE  /\ \A k \in 1 .. Len(outq[v]) : Whole(v, k) =>
              /\ Taken(v) + k <= Len(assigned[v])
              /\ outq[v][k] = "OK" => assigned[v][Taken(v) + k] \in built
         /\ worker[v] \in {"idle", "compile", "reply"} /\ Whole(v, Len(outq[v])) =>
              Taken(v) + Len(outq[v]) = Begun(v) - (IF worker[v] = "idle" THEN 0 ELSE 1)
         /\ \A k \in 1 .. Len(outq[v]) : outq[v][k] # "READY"
BY DEF PoolInv, WorkerInv, ReplyInv

\* A step that leaves the reader of v alone.
LEMMA ReaderAlone ==
  ASSUME PoolInv, NEW v \in Workers, SameReader(v), SameTasks(v)
  PROVE  /\ Taken(v)' = Taken(v) /\ Taken(v) \in Nat /\ Begun(v)' = Begun(v)
         /\ (Reading(v)' => Reading(v)) /\ Extends(v) /\ Len(assigned'[v]) \in Nat
<1>1. Taken(v)' = Taken(v) /\ Begun(v)' = Begun(v) /\ (Reading(v)' => Reading(v))
  BY DEF Taken, Begun, Reading, SameReader, SameTasks
<1>2. Extends(v) /\ Len(assigned'[v]) \in Nat
  BY DEF Extends, SameTasks, PoolInv, TypeInv
<1>3. QED
  BY <1>1, <1>2, TakenNat DEF PoolInv

\* Behind stray text or a torn reply no message counts.
LEMMA TornReply ==
  ASSUME PoolInv, NEW v \in Workers, SamePool(v), SameReader(v), SameTasks(v), Grows,
         NEW m \in {"stray", "part"}, outq' = [outq EXCEPT ![v] = Append(@, m)]
  PROVE  ReplyInv(v)'
<1> SUFFICES ASSUME InPool(v)', Reading(v)'
             PROVE  /\ \A k \in 1 .. Len(outq'[v]) : Whole(v, k)' =>
                         /\ Taken(v)' + k <= Len(assigned'[v])
                         /\ outq'[v][k] = "OK" => assigned'[v][Taken(v)' + k] \in built'
                    /\ \A k : k = Len(outq'[v]) => ~Whole(v, k)'
                    /\ \A k \in 1 .. Len(outq'[v]) : outq'[v][k] # "READY"
  BY DEF ReplyInv, Whole
<1>1. outq \in [Workers -> Seq(Message)] /\ m \in Message
  BY DEF PoolInv, TypeInv, Message
<1>2. /\ Len(outq[v]) \in Nat /\ Len(outq'[v]) = Len(outq[v]) + 1
      /\ outq'[v][Len(outq[v]) + 1] = m
      /\ \A k \in 1 .. Len(outq[v]) : outq'[v][k] = outq[v][k]
  BY <1>1, PutAppend
<1>3. InPool(v) /\ Reading(v) /\ Taken(v)' = Taken(v)
  BY ReaderAlone DEF SamePool
<1>4. ASSUME NEW k, k = Len(outq'[v])
      PROVE  ~Whole(v, k)'
  <2>1. k \in 1 .. k /\ outq'[v][k] = m
    BY <1>2, <1>4
  <2>2. QED
    BY <2>1 DEF Whole
<1>5. ASSUME NEW k \in 1 .. Len(outq'[v]), Whole(v, k)'
      PROVE  /\ Taken(v)' + k <= Len(assigned'[v])
             /\ outq'[v][k] = "OK" => assigned'[v][Taken(v)' + k] \in built'
  <2>1. k \in 1 .. Len(outq[v])
    BY <1>2, <1>4, <1>5
  <2>2. Whole(v, k)
    BY <1>2, <1>5, <2>1 DEF Whole
  <2>3. QED
    BY <1>2, <1>3, <2>1, <2>2, Replies DEF SameTasks, Grows
<1>6. ASSUME NEW k \in 1 .. Len(outq'[v])
      PROVE  outq'[v][k] # "READY"
  <2>1. k \in 1 .. Len(outq[v]) \/ k = Len(outq[v]) + 1
    BY <1>2
  <2>2. QED
    BY <1>2, <1>3, <2>1, Replies
<1>7. QED
  BY <1>4, <1>5, <1>6

\* A worker has begun some of the configs that it was sent.
LEMMA BegunNat ==
  ASSUME PoolInv, NEW v \in Workers
  PROVE  Len(assigned[v]) \in Nat /\ Begun(v) \in 0 .. Len(assigned[v])
<1>1. assigned[v] \in Seq(Nat) /\ inq[v] \in Seq(Nat)
  BY DEF PoolInv, TypeInv
<1>2. Len(assigned[v]) \in Nat /\ Len(inq[v]) \in Nat
  BY <1>1
<1>3. Begun(v) = Len(assigned[v]) - Len(inq[v]) /\ Begun(v) >= 0
  BY DEF Begun, PoolInv, WorkerInv, WorkInv
<1>4. QED
  BY <1>2, <1>3, Difference

\* Nothing was in the pipe of a worker that says READY.
LEMMA SendReadyWorkers ==
  ASSUME PoolInv, NEW w \in Workers, SendReady(w), NEW v \in Workers
  PROVE  WorkerInv(v)'
<1>1. SamePool(v) /\ SameReader(v) /\ SameTasks(v) /\ Grows /\ task'[v] = task[v] /\ reply'[v] = reply[v]
  BY DEF SendReady, handle, readers, children, pipes, results, parentState, SamePool, InPool,
     SameReader, SameTasks, Grows
<1>2. /\ outq' = [outq EXCEPT ![w] = Append(@, "READY")] /\ worker' = [worker EXCEPT ![w] = "idle"]
      /\ worker[w] = "boot"
  BY DEF SendReady, Place
<1>3. outq \in [Workers -> Seq(Message)] /\ worker \in [Workers -> WorkerPlace]
  BY DEF PoolInv, TypeInv
<1>4. CASE v # w
  <2>1. outq'[v] = outq[v] /\ Stays(v)
    BY <1>2, <1>3, <1>4 DEF Stays
  <2>2. QED
    BY <1>1, <2>1, WorkerFrame DEF PoolInv
<1>5. CASE v = w
  <2>1. ~InPool(v) /\ outq[v] = <<>> /\ assigned[v] = <<>> /\ inq[v] = <<>>
    BY <1>2, <1>5 DEF PoolInv, WorkerInv, EntryInv
  <2>2. outq'[v] = <<"READY">> /\ worker'[v] = "idle"
    BY <1>2, <1>3, <1>5, <2>1
  <2>3. EntryInv(v)'
    BY <1>1, <2>1, <2>2 DEF PoolInv, WorkerInv, EntryInv, SamePool, SameReader, SameTasks
  <2>4. WorkInv(v)'
    BY <1>1, <2>2, WorkFrame DEF PoolInv, WorkerInv, Idles
  <2>5. ReplyInv(v)'
    BY <1>1, <2>1 DEF ReplyInv, SamePool
  <2>6. SettleInv(v)'
    BY <1>1, SettleFrame DEF PoolInv, WorkerInv
  <2>7. QED
    BY <2>3, <2>4, <2>5, <2>6 DEF WorkerInv
<1>6. QED
  BY <1>4, <1>5

\* A worker takes the config after the last that it began.
LEMMA TakeWorkers ==
  ASSUME PoolInv, NEW w \in Workers, TakeTask(w), NEW v \in Workers
  PROVE  WorkerInv(v)'
<1>1. SamePool(v) /\ SameReader(v) /\ Grows /\ outq'[v] = outq[v] /\ reply'[v] = reply[v]
      /\ assigned' = assigned /\ built' = built
  BY DEF TakeTask, handle, readers, children, pipes, results, parentState, SamePool, InPool,
     SameReader, Grows
<1>2. worker \in [Workers -> WorkerPlace] /\ task \in [Workers -> Nat] /\ inq \in [Workers -> Seq(Nat)]
      /\ assigned \in [Workers -> Seq(Nat)] /\ worker[w] = "idle"
  BY DEF PoolInv, TypeInv, TakeTask
<1>3. CASE v # w \/ inq[w] = <<>>
  <2>1. SameTasks(v) /\ Stays(v) /\ task'[v] = task[v]
    BY <1>1, <1>2, <1>3 DEF TakeTask, Place, SameTasks, Stays
  <2>2. QED
    BY <1>1, <2>1, WorkerFrame DEF PoolInv
<1>4. CASE v = w /\ inq[w] # <<>>
  <2>1. worker' = [worker EXCEPT ![w] = "compile"] /\ task' = [task EXCEPT ![w] = Head(inq[w])]
        /\ inq' = [inq EXCEPT ![w] = Tail(@)]
    BY <1>4 DEF TakeTask, Place
  <2>2. worker'[v] = "compile" /\ task'[v] = Head(inq[v]) /\ worker[v] = "idle"
    BY <1>2, <1>4, <2>1
  <2>3. /\ Len(inq[v]) \in Nat /\ Len(inq[v]) >= 1 /\ Len(inq'[v]) = Len(inq[v]) - 1
        /\ Head(inq[v]) = inq[v][1]
        /\ \A k \in 1 .. Len(inq'[v]) : inq'[v][k] = inq[v][k + 1]
    BY <1>2, <1>4, <2>1, PutTail
  <2>4. Len(assigned[v]) \in Nat
    <3>1. assigned[v] \in Seq(Nat)
      BY <1>2
    <3>2. QED
      BY <3>1
  <2>5. Begun(v) \in Nat /\ Begun(v)' = Begun(v) + 1
    <3>1. Begun(v) >= 0
      BY DEF PoolInv, WorkerInv, WorkInv
    <3>2. Begun(v) = Len(assigned[v]) - Len(inq[v]) /\ Begun(v)' = Len(assigned[v]) - Len(inq'[v])
      BY <1>1 DEF Begun
    <3>3. QED
      BY <2>3, <2>4, <3>1, <3>2
  <2>6. InPool(v) /\ InPool(v)'
    BY <1>1, <1>4 DEF PoolInv, WorkerInv, EntryInv, SamePool
  <2>7. EntryInv(v)'
    BY <1>1, <2>2, <2>6 DEF PoolInv, WorkerInv, EntryInv, SameReader
  <2>8. WorkInv(v)'
    <3>1. \A k \in 1 .. Len(inq[v]) : inq[v][k] = assigned[v][Begun(v) + k]
      BY DEF PoolInv, WorkerInv, WorkInv
    <3>2. ASSUME NEW k \in 1 .. Len(inq'[v]) PROVE inq'[v][k] = assigned'[v][Begun(v)' + k]
      <4>1. k + 1 \in 1 .. Len(inq[v]) /\ Begun(v) + (k + 1) = Begun(v)' + k
        <5>1. k \in Nat /\ k + 1 \in 1 .. Len(inq[v])
          BY <2>3
        <5>2. QED
          BY <2>5, <5>1, OneMore
      <4>2. QED
        BY <1>1, <2>3, <3>1, <4>1
    <3>3. task'[v] = assigned'[v][Begun(v)']
      BY <1>1, <2>2, <2>3, <2>5, <3>1
    <3>4. Begun(v)' >= 1 /\ Begun(v)' >= 0
      BY <2>5
    <3>5. QED
      BY <2>2, <3>2, <3>3, <3>4 DEF WorkInv
  <2>9. ReplyInv(v)'
    <3> SUFFICES ASSUME Reading(v)'
                 PROVE  /\ \A k \in 1 .. Len(outq[v]) : Whole(v, k) =>
                             /\ Taken(v)' + k <= Len(assigned[v])
                             /\ outq[v][k] = "OK" => assigned[v][Taken(v)' + k] \in built
                        /\ Whole(v, Len(outq[v])) => Taken(v)' + Len(outq[v]) = Begun(v)' - 1
                        /\ \A k \in 1 .. Len(outq[v]) : outq[v][k] # "READY"
      <4>1. ASSUME NEW k PROVE Whole(v, k)' <=> Whole(v, k)
        BY <1>1 DEF Whole
      <4>2. QED
        BY <1>1, <2>2, <4>1 DEF ReplyInv
    <3>1. Taken(v)' = Taken(v) /\ Reading(v)
      BY <1>1 DEF Taken, Reading, SameReader
    <3>2. Begun(v)' - 1 = Begun(v) - (IF worker[v] = "idle" THEN 0 ELSE 1)
      BY <2>2, <2>5
    <3>3. QED
      BY <2>2, <2>6, <3>1, <3>2, Replies
  <2>10. SettleInv(v)'
    BY <1>1 DEF SettleInv, Remaining, SameReader, Grows, PoolInv, WorkerInv
  <2>11. QED
    BY <2>7, <2>8, <2>9, <2>10 DEF WorkerInv
<1>5. QED
  BY <1>3, <1>4

\* A worker that replies OK has put the kernel into the cache.
LEMMA CompileWorkers ==
  ASSUME PoolInv, NEW w \in Workers, CompileTask(w), NEW v \in Workers
  PROVE  WorkerInv(v)'
<1>1. SamePool(v) /\ SameReader(v) /\ SameTasks(v) /\ Grows /\ task'[v] = task[v]
  BY DEF CompileTask, handle, readers, children, pipes, results, parentState, SamePool, InPool,
     SameReader, SameTasks, Grows
<1>2. /\ worker \in [Workers -> WorkerPlace] /\ reply \in [Workers -> {"none", "OK", "ERR"}]
      /\ outq \in [Workers -> Seq(Message)]
      /\ worker[w] = "compile" /\ worker' = [worker EXCEPT ![w] = "reply"]
      /\ outq' = outq \/ outq' = [outq EXCEPT ![w] = Append(@, "stray")]
  BY DEF PoolInv, TypeInv, CompileTask, Place
<1>3. \/ reply' = [reply EXCEPT ![w] = "ERR"]
      \/ reply' = [reply EXCEPT ![w] = "OK"] /\ task[w] \in built'
  BY DEF CompileTask
<1>4. CASE v # w
  <2>1. outq'[v] = outq[v] /\ Stays(v) /\ reply'[v] = reply[v]
    BY <1>2, <1>3, <1>4 DEF Stays
  <2>2. QED
    BY <1>1, <2>1, WorkerFrame DEF PoolInv
<1>5. CASE v = w
  <2>1. worker[v] = "compile" /\ worker'[v] = "reply" /\ reply'[v] \in {"OK", "ERR"}
        /\ (reply'[v] = "OK" => task[v] \in built')
    BY <1>2, <1>3, <1>5
  <2>2. InPool(v) /\ InPool(v)'
    BY <1>1, <2>1 DEF PoolInv, WorkerInv, EntryInv, SamePool
  <2>3. EntryInv(v)'
    BY <1>1, <2>1, <2>2 DEF PoolInv, WorkerInv, EntryInv, SameReader, SameTasks
  <2>4. WorkInv(v)'
    BY <1>1, <2>1 DEF PoolInv, WorkerInv, WorkInv, Begun, SameTasks
  <2>5. ReplyInv(v)'
    <3>1. CASE outq' = outq
      <4>1. Busy(v)
        BY <2>1 DEF Busy
      <4>2. QED
        BY <1>1, <3>1, <4>1, ReaderAlone, ReplyFrame DEF PoolInv, WorkerInv
    <3>2. CASE outq' = [outq EXCEPT ![w] = Append(@, "stray")]
      BY <1>1, <1>5, <3>2, TornReply
    <3>3. QED
      BY <1>2, <3>1, <3>2
  <2>6. SettleInv(v)'
    BY <1>1, SettleFrame DEF PoolInv, WorkerInv
  <2>7. QED
    BY <2>3, <2>4, <2>5, <2>6 DEF WorkerInv
<1>6. QED
  BY <1>4, <1>5

\* Behind whole replies only, a reply is that of the config begun last.
LEMMA SendReplyWorkers ==
  ASSUME PoolInv, NEW w \in Workers, SendReply(w), NEW v \in Workers
  PROVE  WorkerInv(v)'
<1>1. SamePool(v) /\ SameReader(v) /\ SameTasks(v) /\ Grows /\ task'[v] = task[v] /\ reply'[v] = reply[v]
      /\ built' = built
  BY DEF SendReply, handle, readers, children, pipes, results, parentState, SamePool, InPool,
     SameReader, SameTasks, Grows
<1>2. /\ worker \in [Workers -> WorkerPlace] /\ outq \in [Workers -> Seq(Message)] /\ worker[w] = "reply"
      /\ \/ worker' = [worker EXCEPT ![w] = "idle"] /\ outq' = [outq EXCEPT ![w] = Append(@, reply[w])]
         \/ worker' = [worker EXCEPT ![w] = "dead"] /\ outq' = outq
  BY DEF PoolInv, TypeInv, SendReply, Place
<1>3. CASE v # w \/ (worker' = [worker EXCEPT ![w] = "dead"] /\ outq' = outq)
  <2>1. outq'[v] = outq[v] /\ Stays(v)
    BY <1>2, <1>3 DEF Stays
  <2>2. QED
    BY <1>1, <2>1, WorkerFrame DEF PoolInv
<1>4. CASE v = w /\ worker' = [worker EXCEPT ![w] = "idle"] /\ outq' = [outq EXCEPT ![w] = Append(@, reply[w])]
  <2>1. worker[v] = "reply" /\ worker'[v] = "idle"
    BY <1>2, <1>4
  <2>2. /\ reply[v] \in {"OK", "ERR"} /\ (reply[v] = "OK" => task[v] \in built)
        /\ Begun(v) >= 1 /\ task[v] = assigned[v][Begun(v)]
    BY <2>1 DEF PoolInv, WorkerInv, WorkInv
  <2>3. /\ Len(outq[v]) \in Nat /\ Len(outq'[v]) = Len(outq[v]) + 1
        /\ outq'[v][Len(outq[v]) + 1] = reply[v]
        /\ \A k \in 1 .. Len(outq[v]) : outq'[v][k] = outq[v][k]
    <3>1. reply[v] \in Message
      BY <2>2 DEF Message
    <3>2. QED
      BY <1>2, <1>4, <3>1, PutAppend
  <2>4. InPool(v) /\ InPool(v)'
    BY <1>1, <2>1 DEF PoolInv, WorkerInv, EntryInv, SamePool
  <2>5. EntryInv(v)'
    BY <1>1, <2>1, <2>4 DEF PoolInv, WorkerInv, EntryInv, SameReader, SameTasks
  <2>6. WorkInv(v)'
    BY <1>1, <2>1, WorkFrame DEF PoolInv, WorkerInv, Idles
  <2>7. ReplyInv(v)'
    <3> SUFFICES ASSUME Reading(v)'
                 PROVE  /\ \A k \in 1 .. Len(outq'[v]) : Whole(v, k)' =>
                             /\ Taken(v) + k <= Len(assigned[v])
                             /\ outq'[v][k] = "OK" => assigned[v][Taken(v) + k] \in built
                        /\ \A k : k = Len(outq'[v]) /\ Whole(v, k)' => Taken(v) + k = Begun(v)
                        /\ \A k \in 1 .. Len(outq'[v]) : outq'[v][k] # "READY"
      <4>1. Taken(v)' = Taken(v) /\ Begun(v)' = Begun(v) /\ Begun(v) - 0 = Begun(v)
        <5>1. Taken(v)' = Taken(v) /\ Begun(v)' = Begun(v)
          BY <1>1, ReaderAlone
        <5>2. Begun(v) - 0 = Begun(v)
          BY BegunNat
        <5>3. QED
          BY <5>1, <5>2
      <4>2. assigned'[v] = assigned[v] /\ built' = built
        BY <1>1 DEF SameTasks
      <4>3. QED
        BY <2>1, <4>1, <4>2 DEF ReplyInv, Whole
    <3>1. Reading(v) /\ Taken(v) \in Nat
      BY <1>1, ReaderAlone
    <3>2. Len(assigned[v]) \in Nat /\ Begun(v) \in 1 .. Len(assigned[v])
      BY <2>2, BegunNat
    <3>3. ASSUME NEW k \in 0 .. Len(outq[v]), NEW l \in {k, k + 1}, Whole(v, l)'
          PROVE  Whole(v, k)
      BY <2>3, <3>3 DEF Whole
    <3>4. ASSUME NEW k, k = Len(outq'[v]), Whole(v, k)'
          PROVE  Taken(v) + k = Begun(v)
      <4>1. Len(outq[v]) \in 0 .. Len(outq[v]) /\ k = Len(outq[v]) + 1
        BY <2>3, <3>4
      <4>2. Whole(v, Len(outq[v]))
        BY <3>3, <3>4, <4>1
      <4>3. Taken(v) + Len(outq[v]) = Begun(v) - 1
        BY <2>1, <2>4, <3>1, <4>2, Replies
      <4>4. Taken(v) + (Len(outq[v]) + 1) = Begun(v)
        <5>1. Begun(v) \in Nat /\ Taken(v) \in Nat /\ Len(outq[v]) \in Nat
          BY <2>3, <3>1, <3>2
        <5>2. QED
          BY <4>3, <5>1, OneMore
      <4>5. QED
        BY <4>1, <4>4
    <3>5. ASSUME NEW k \in 1 .. Len(outq'[v]), Whole(v, k)'
          PROVE  /\ Taken(v) + k <= Len(assigned[v])
                 /\ outq'[v][k] = "OK" => assigned[v][Taken(v) + k] \in built
      <4>1. CASE k \in 1 .. Len(outq[v])
        <5>1. Whole(v, k)
          BY <3>3, <3>5, <4>1
        <5>2. QED
          BY <2>3, <2>4, <3>1, <4>1, <5>1, Replies
      <4>2. CASE k = Len(outq'[v])
        <5>1. Taken(v) + k = Begun(v)
          BY <3>4, <3>5, <4>2
        <5>2. QED
          BY <2>2, <2>3, <3>2, <4>2, <5>1
      <4>3. QED
        BY <2>3, <4>1, <4>2
    <3>6. ASSUME NEW k \in 1 .. Len(outq'[v])
          PROVE  outq'[v][k] # "READY"
      <4>1. k \in 1 .. Len(outq[v]) \/ k = Len(outq[v]) + 1
        BY <2>3
      <4>2. QED
        BY <2>2, <2>3, <2>4, <3>1, <4>1, Replies
    <3>7. QED
      BY <3>4, <3>5, <3>6
  <2>8. SettleInv(v)'
    BY <1>1, SettleFrame DEF PoolInv, WorkerInv
  <2>9. QED
    BY <2>5, <2>6, <2>7, <2>8 DEF WorkerInv
<1>5. QED
  BY <1>2, <1>3, <1>4

\* A worker that dies may leave a torn reply.
LEMMA CrashWorkers ==
  ASSUME PoolInv, NEW w \in Workers, Crash(w), NEW v \in Workers
  PROVE  WorkerInv(v)'
<1>1. SamePool(v) /\ SameReader(v) /\ SameTasks(v) /\ Grows /\ task'[v] = task[v] /\ reply'[v] = reply[v]
  BY DEF Crash, handle, readers, children, pipes, results, parentState, SamePool, InPool,
     SameReader, SameTasks, Grows
<1>2. /\ worker \in [Workers -> WorkerPlace] /\ outq \in [Workers -> Seq(Message)]
      /\ worker' = [worker EXCEPT ![w] = "dead"]
      /\ outq' = outq \/ (worker[w] = "reply" /\ outq' = [outq EXCEPT ![w] = Append(@, "part")])
  BY DEF PoolInv, TypeInv, Crash, Place
<1>3. Stays(v)
  BY <1>2 DEF Stays
<1>4. CASE v # w \/ outq' = outq
  <2>1. outq'[v] = outq[v]
    BY <1>2, <1>4
  <2>2. QED
    BY <1>1, <1>3, <2>1, WorkerFrame DEF PoolInv
<1>5. CASE v = w /\ worker[w] = "reply" /\ outq' = [outq EXCEPT ![w] = Append(@, "part")]
  <2>1. worker'[v] = "dead"
    BY <1>2, <1>5
  <2>2. InPool(v) /\ InPool(v)'
    BY <1>1, <1>5 DEF PoolInv, WorkerInv, EntryInv, SamePool
  <2>3. EntryInv(v)'
    BY <1>1, <2>1, <2>2 DEF PoolInv, WorkerInv, EntryInv, SameReader, SameTasks
  <2>4. WorkInv(v)'
    BY <1>1, <2>1, WorkFrame DEF PoolInv, WorkerInv, Idles
  <2>5. ReplyInv(v)'
    BY <1>1, <1>5, TornReply
  <2>6. SettleInv(v)'
    BY <1>1, SettleFrame DEF PoolInv, WorkerInv
  <2>7. QED
    BY <2>3, <2>4, <2>5, <2>6 DEF WorkerInv
<1>6. QED
  BY <1>2, <1>4, <1>5

-----------------------------------------------------------------------------
(* The invariant. *)

\* No step breaks what holds of a worker.
LEMMA WorkersStep == PoolInv /\ [Next]_vars => \A v \in Workers : WorkerInv(v)'
<1> SUFFICES ASSUME PoolInv, [Next]_vars, NEW v \in Workers PROVE WorkerInv(v)'
  OBVIOUS
<1>1. CASE MainStep
  BY <1>1, SpawnWorkers, ReadyWorkers, SendWorkers, StartWorkers, MainQuiet DEF MainStep
<1>2. ASSUME NEW w \in Workers, ReaderStep(w) PROVE WorkerInv(v)'
  BY <1>2, RecvWorkers, RecordWorkers, SetWorkers DEF ReaderStep
<1>3. ASSUME NEW w \in Workers, WorkerStep(w) PROVE WorkerInv(v)'
  BY <1>3, SendReadyWorkers, TakeWorkers, CompileWorkers, SendReplyWorkers DEF WorkerStep
<1>4. ASSUME NEW w \in Workers, Crash(w) PROVE WorkerInv(v)'
  BY <1>4, CrashWorkers
<1>5. CASE ParentDies \/ UNCHANGED vars \/ (\E w \in Workers : Watchdog(w))
  BY <1>5, DeathQuiet
<1>6. QED
  BY <1>1, <1>2, <1>3, <1>4, <1>5 DEF Next

\* Workers are spawned in order, and no reader runs while main still sends.
LEMMA PlaceStep == PoolInv /\ [Next]_vars => \A v \in Workers : PlaceInv(v)'
<1> SUFFICES ASSUME PoolInv, [Next]_vars, NEW v \in Workers PROVE PlaceInv(v)'
  OBVIOUS
<1> USE DEF handle, readers, children, pipes, results, parentState
<1>0. /\ v \in Nat /\ cur \in Nat /\ PlaceInv(v)
      /\ worker \in [Workers -> WorkerPlace] /\ reader \in [Workers -> ReaderPlace]
  BY DEF PoolInv, TypeInv, Workers
<1>1. CASE UNCHANGED vars
  BY <1>0, <1>1 DEF vars, PlaceInv, Starting
<1>2. ASSUME Spawn PROVE PlaceInv(v)'
  BY <1>0, <1>2 DEF Spawn, PlaceInv, Starting
<1>3. ASSUME RecvReady PROVE PlaceInv(v)'
  BY <1>0, <1>3 DEF RecvReady, AfterReady, PlaceInv, Starting
<1>4. ASSUME Send PROVE PlaceInv(v)'
  BY <1>0, <1>4 DEF Send, NextConfig, Alive, PlaceInv, Starting
<1>5. ASSUME StartReaders PROVE PlaceInv(v)'
  BY <1>0, <1>5 DEF StartReaders, PlaceInv, Starting
<1>6. ASSUME WaitFor PROVE PlaceInv(v)'
  BY <1>0, <1>6 DEF WaitFor, PlaceInv, Starting
<1>7. ASSUME WarmIfFailed PROVE PlaceInv(v)'
  BY <1>0, <1>7 DEF WarmIfFailed, PlaceInv, Starting
<1>8. ASSUME Bench PROVE PlaceInv(v)'
  BY <1>0, <1>8 DEF Bench, NextConfig, PlaceInv, Starting
<1>9. ASSUME CloseStdins PROVE PlaceInv(v)'
  BY <1>0, <1>9 DEF CloseStdins, PlaceInv, Starting
<1>10. ASSUME Reap PROVE PlaceInv(v)'
  BY <1>0, <1>10 DEF Reap, Killed, Alive, PlaceInv, Starting
<1>11. ASSUME NEW w \in Workers, Recv(w) PROVE PlaceInv(v)'
  <2>1. main' = main /\ ~Starting
    BY <1>11, ReaderPool DEF Recv
  <2>2. QED
    BY <2>1 DEF PlaceInv, Starting
<1>12. ASSUME NEW w \in Workers, RecordFailure(w) PROVE PlaceInv(v)'
  <2>1. main' = main /\ ~Starting
    BY <1>12, ReaderPool DEF RecordFailure
  <2>2. QED
    BY <2>1 DEF PlaceInv, Starting
<1>13. ASSUME NEW w \in Workers, SetEvents(w) PROVE PlaceInv(v)'
  <2>1. main' = main /\ ~Starting
    BY <1>13, ReaderPool DEF SetEvents
  <2>2. QED
    BY <2>1 DEF PlaceInv, Starting
<1>14. ASSUME NEW w \in Workers, SendReady(w) PROVE PlaceInv(v)'
  <2>1. main' = main /\ cur' = cur /\ reader' = reader /\ worker[w] # "off"
        /\ (v # w => worker'[v] = worker[v])
    BY <1>0, <1>14 DEF SendReady, Place
  <2>2. QED
    BY <1>0, <2>1 DEF PlaceInv, Starting
<1>15. ASSUME NEW w \in Workers, TakeTask(w) PROVE PlaceInv(v)'
  <2>1. main' = main /\ cur' = cur /\ reader' = reader /\ worker[w] # "off"
        /\ (v # w => worker'[v] = worker[v])
    BY <1>0, <1>15 DEF TakeTask, Place
  <2>2. QED
    BY <1>0, <2>1 DEF PlaceInv, Starting
<1>16. ASSUME NEW w \in Workers, CompileTask(w) PROVE PlaceInv(v)'
  <2>1. main' = main /\ cur' = cur /\ reader' = reader /\ worker[w] # "off"
        /\ (v # w => worker'[v] = worker[v])
    BY <1>0, <1>16 DEF CompileTask, Place
  <2>2. QED
    BY <1>0, <2>1 DEF PlaceInv, Starting
<1>17. ASSUME NEW w \in Workers, SendReply(w) PROVE PlaceInv(v)'
  <2>1. main' = main /\ cur' = cur /\ reader' = reader /\ worker[w] # "off"
        /\ (v # w => worker'[v] = worker[v])
    BY <1>0, <1>17 DEF SendReply, Place
  <2>2. QED
    BY <1>0, <2>1 DEF PlaceInv, Starting
<1>18. ASSUME NEW w \in Workers, Crash(w) PROVE PlaceInv(v)'
  <2>1. main' = main /\ cur' = cur /\ reader' = reader /\ worker[w] # "off"
        /\ (v # w => worker'[v] = worker[v])
    BY <1>0, <1>18 DEF Crash, Place, Alive
  <2>2. QED
    BY <1>0, <2>1 DEF PlaceInv, Starting
<1>19. ASSUME NEW w \in Workers, Watchdog(w) PROVE PlaceInv(v)'
  <2>1. main' = main /\ cur' = cur /\ reader' = reader /\ worker[w] # "off"
        /\ (v # w => worker'[v] = worker[v])
    BY <1>0, <1>19 DEF Watchdog, Place, Alive
  <2>2. QED
    BY <1>0, <2>1 DEF PlaceInv, Starting
<1>20. ASSUME ParentDies PROVE PlaceInv(v)'
  BY <1>0, <1>20 DEF ParentDies, PlaceInv, Starting
<1>21. QED
  BY <1>1, <1>2, <1>3, <1>4, <1>5, <1>6, <1>7, <1>8, <1>9, <1>10,
     <1>11, <1>12, <1>13, <1>14, <1>15, <1>16, <1>17, <1>18, <1>19, <1>20
     DEF Next, MainStep, ReaderStep, WorkerStep

\* What is settled failed or is built; what is timed is built or was compiled.
LEMMA MainInvStep == PoolInv /\ [Next]_vars => MainInv'
<1> SUFFICES ASSUME PoolInv, [Next]_vars PROVE MainInv'
  OBVIOUS
<1> USE DEF handle, readers, children, pipes, results, parentState
<1>0. MainInv
  BY DEF PoolInv
<1>1. CASE UNCHANGED vars
  BY <1>0, <1>1 DEF vars, MainInv, NoColdBench, Starting
<1>2. ASSUME Spawn PROVE MainInv'
  BY <1>0, <1>2 DEF Spawn, MainInv, NoColdBench, Starting
<1>3. ASSUME RecvReady PROVE MainInv'
  BY <1>0, <1>3 DEF RecvReady, AfterReady, MainInv, NoColdBench, Starting
<1>4. ASSUME Send PROVE MainInv'
  BY <1>0, <1>4 DEF Send, NextConfig, Alive, MainInv, NoColdBench, Starting
<1>5. ASSUME StartReaders PROVE MainInv'
  BY <1>0, <1>5 DEF StartReaders, MainInv, NoColdBench, Starting
<1>6. ASSUME WaitFor PROVE MainInv'
  BY <1>0, <1>6 DEF WaitFor, MainInv, NoColdBench, Starting
<1>7. ASSUME WarmIfFailed PROVE MainInv'
  BY <1>0, <1>7 DEF WarmIfFailed, MainInv, NoColdBench, Starting
<1>8. ASSUME Bench PROVE MainInv'
  BY <1>0, <1>8 DEF Bench, NextConfig, MainInv, NoColdBench, Starting
<1>9. ASSUME CloseStdins PROVE MainInv'
  BY <1>0, <1>9 DEF CloseStdins, MainInv, NoColdBench, Starting
<1>10. ASSUME Reap PROVE MainInv'
  BY <1>0, <1>10 DEF Reap, Killed, Alive, MainInv, NoColdBench, Starting
<1>11. ASSUME NEW w \in Workers, Recv(w) PROVE MainInv'
  BY <1>0, <1>11 DEF Recv, WholeReply, MainInv, NoColdBench, Starting
<1>12. ASSUME NEW w \in Workers, RecordFailure(w) PROVE MainInv'
  BY <1>0, <1>12 DEF RecordFailure, MainInv, NoColdBench, Starting
<1>13. ASSUME NEW w \in Workers, SetEvents(w) PROVE MainInv'
  <2>1. \A e \in events' : e \in failures \cup built
    <3>1. reader[w] = "set" /\ SettleInv(w)
      BY <1>13 DEF SetEvents, PoolInv, WorkerInv
    <3>2. CASE got[w] = "eof"
      <4>1. events' = events \cup Remaining(w) /\ Remaining(w) \subseteq failures
        BY <1>13, <3>1, <3>2 DEF SetEvents, SettleInv
      <4>2. QED
        BY <1>0, <4>1 DEF MainInv
    <3>3. CASE got[w] # "eof"
      <4>1. events' = events \cup {assigned[w][pos[w]]} /\ assigned[w][pos[w]] \in failures \cup built
        BY <1>13, <3>1, <3>3 DEF SetEvents, SettleInv
      <4>2. QED
        BY <1>0, <4>1 DEF MainInv
    <3>4. QED
      BY <3>2, <3>3
  <2>2. /\ main' = main /\ cur' = cur /\ registered' = registered /\ failures' = failures /\ built' = built
        /\ warmed' = warmed /\ benched' = benched /\ events \subseteq events'
    BY <1>13 DEF SetEvents
  <2>3. QED
    BY <1>0, <2>1, <2>2 DEF MainInv, NoColdBench, Starting
<1>14. ASSUME NEW w \in Workers, SendReady(w) PROVE MainInv'
  BY <1>0, <1>14 DEF SendReady, Place, MainInv, NoColdBench, Starting
<1>15. ASSUME NEW w \in Workers, TakeTask(w) PROVE MainInv'
  BY <1>0, <1>15 DEF TakeTask, Place, MainInv, NoColdBench, Starting
<1>16. ASSUME NEW w \in Workers, CompileTask(w) PROVE MainInv'
  BY <1>0, <1>16 DEF CompileTask, Place, MainInv, NoColdBench, Starting
<1>17. ASSUME NEW w \in Workers, SendReply(w) PROVE MainInv'
  BY <1>0, <1>17 DEF SendReply, Place, MainInv, NoColdBench, Starting
<1>18. ASSUME NEW w \in Workers, Crash(w) PROVE MainInv'
  BY <1>0, <1>18 DEF Crash, Place, MainInv, NoColdBench, Starting
<1>19. ASSUME NEW w \in Workers, Watchdog(w) PROVE MainInv'
  BY <1>0, <1>19 DEF Watchdog, Place, MainInv, NoColdBench, Starting
<1>20. ASSUME ParentDies PROVE MainInv'
  BY <1>0, <1>20 DEF ParentDies, MainInv, NoColdBench, Starting
<1>21. QED
  BY <1>1, <1>2, <1>3, <1>4, <1>5, <1>6, <1>7, <1>8, <1>9, <1>10,
     <1>11, <1>12, <1>13, <1>14, <1>15, <1>16, <1>17, <1>18, <1>19, <1>20
     DEF Next, MainStep, ReaderStep, WorkerStep

\* The inductive invariant: the replies in the pipes come in the order of the
\* configs whose compiles they report, and what main waits for is settled.
THEOREM PoolInvariance == Spec => []PoolInv
<1>1. PoolInv /\ [Next]_vars => PoolInv'
  <2> SUFFICES ASSUME PoolInv, [Next]_vars PROVE PoolInv'
    OBVIOUS
  <2>1. \A w \in Workers : worker[w] = "reply" => reply[w] \in {"OK", "ERR"}
    BY DEF PoolInv, WorkerInv, WorkInv
  <2>2. TypeInv'
    BY <2>1, TypeStep DEF PoolInv
  <2>3. QED
    BY <2>2, WorkersStep, PlaceStep, MainInvStep DEF PoolInv
<1>2. QED
  BY <1>1, InitInv, PTL DEF Spec

\* No config that the pool was given is timed cold: its kernel is in the cache,
\* or main compiled it (Autotuner._precompile, wait_for and is_failed).
THEOREM NeverBenchedCold == Spec => []NoColdBench
<1>1. PoolInv => NoColdBench
  BY DEF PoolInv, MainInv
<1>2. QED
  BY <1>1, PoolInvariance, PTL
=============================================================================

---------------------------- MODULE PrecompilePool ----------------------------
(***************************************************************************)
(* The autotuner's pool of compile processes: Autotuner._precompile spawns *)
(* workers and sends every config round-robin, one reader thread per       *)
(* worker settles the configs as replies arrive in dispatch order, and the *)
(* benchmark loop waits for each config before it times it.  Main thread,  *)
(* readers and workers talk through bounded pipes; a worker or the parent  *)
(* may die at any point.                                                   *)
(***************************************************************************)
EXTENDS Naturals, Sequences, FiniteSets

CONSTANTS NumWorkers,     \* max_workers
          Circumstances   \* what the runs of the autotuner look like, see below

Workers == 1 .. NumWorkers

\* Of a run: configs is the number of pruned configs; the compile raises for
\* those in bad and never returns for those in hang; a worker's pipes hold
\* pipeIn and pipeOut messages; strayPrints tells whether a print of the
\* compile reaches the worker's stdout, parentMayDie whether the parent may be
\* killed; maxCrashes bounds the workers' deaths.
ASSUME PoolAssumption ==
  /\ NumWorkers \in Nat \ {0}
  /\ \A v \in Circumstances :
       /\ {v.configs, v.pipeIn, v.pipeOut} \subseteq Nat \ {0}
       /\ v.bad \subseteq 1 .. v.configs /\ v.hang \subseteq 1 .. v.configs
       /\ v.strayPrints \in BOOLEAN /\ v.parentMayDie \in BOOLEAN
       /\ v.maxCrashes \in Nat

VARIABLES
  env,        \* the circumstances of this run
  main,       \* the autotuner's main thread
  cur,        \* the worker or the config main is at
  pool,       \* the workers that said READY, in order
  assigned,   \* assigned[w]: configs sent to w, in order
  registered, \* configs that have an event
  events,     \* configs whose event is set
  failures,
  lock,       \* the reader that holds the handle's lock, or 0
  reader, pos, got,      \* of the reader of w: its place, its index in assigned[w], its message
  worker, task, reply,   \* of w: its place, its config, the message it writes
  inq, outq,             \* the pipes of w
  stdinOpen,
  built,      \* configs whose kernel is in the persistent cache
  warmed,     \* configs compiled by main
  benched,    \* configs timed
  parentUp, crashes

handle == <<pool, assigned, registered, events, failures, lock>>
readers == <<reader, pos, got>>
children == <<worker, task, reply>>
pipes == <<inq, outq, stdinOpen>>
results == <<built, warmed, benched>>

vars == <<env, main, cur, handle, readers, children, pipes, results, parentUp, crashes>>

Alive(w) == worker[w] \notin {"off", "dead"}

PoolState(place) ==
  /\ env \in Circumstances
  /\ main = place /\ cur = 1
  /\ pool = <<>> /\ assigned = [w \in Workers |-> <<>>]
  /\ registered = {} /\ events = {} /\ failures = {} /\ lock = 0
  /\ reader = [w \in Workers |-> "off"]
  /\ pos = [w \in Workers |-> 1] /\ got = [w \in Workers |-> "none"]
  /\ worker = [w \in Workers |-> "off"]
  /\ task = [w \in Workers |-> 0] /\ reply = [w \in Workers |-> "none"]
  /\ inq = [w \in Workers |-> <<>>] /\ outq = [w \in Workers |-> <<>>]
  /\ stdinOpen = [w \in Workers |-> TRUE]
  /\ built = {} /\ warmed = {} /\ benched = {}
  /\ parentUp = TRUE /\ crashes = 0

Init == PoolState("spawn")

-----------------------------------------------------------------------------
(* The main thread. *)

Spawn ==
  /\ main = "spawn"
  /\ IF cur <= NumWorkers
       THEN /\ worker' = [worker EXCEPT ![cur] = "boot"]
            /\ main' = "ready" /\ UNCHANGED cur
       ELSE /\ main' = IF pool = <<>> THEN "wait" ELSE "send"
            /\ cur' = 1 /\ UNCHANGED worker
  /\ UNCHANGED <<env, handle, readers, task, reply, pipes, results, parentUp, crashes>>

AfterReadyUnread(q) == q
\* The stream behind READY.
AfterReady(q) == Tail(q)

\* _recv_from_worker(p.stdout) = "READY", or the worker is given up.
RecvReady ==
  /\ main = "ready"
  /\ outq[cur] # <<>> \/ ~Alive(cur)
  /\ IF outq[cur] # <<>> /\ Head(outq[cur]) = "READY"
       THEN /\ pool' = Append(pool, cur)
            /\ outq' = [outq EXCEPT ![cur] = AfterReady(@)]
            /\ UNCHANGED worker
       ELSE worker' = [worker EXCEPT ![cur] = "dead"] /\ UNCHANGED <<pool, outq>>
  /\ main' = "spawn" /\ cur' = cur + 1
  /\ UNCHANGED <<env, assigned, registered, events, failures, lock, readers, task, reply,
                 inq, stdinOpen, results, parentUp, crashes>>

\* Advance main over the configs from place here to place after.
NextConfig(here, after) ==
  IF cur < env.configs THEN main' = here /\ cur' = cur + 1 ELSE main' = after /\ cur' = 1

Send ==
  /\ main = "send"
  /\ LET w == pool[((cur - 1) % Len(pool)) + 1]
     IN IF Alive(w)
          THEN /\ Len(inq[w]) < env.pipeIn
               /\ inq' = [inq EXCEPT ![w] = Append(@, cur)]
               /\ assigned' = [assigned EXCEPT ![w] = Append(@, cur)]
               /\ UNCHANGED <<events, failures>>
          ELSE /\ events' = events \cup {cur}
               /\ failures' = failures \cup {cur}
               /\ UNCHANGED <<inq, assigned>>
  /\ registered' = registered \cup {cur}
  /\ NextConfig("send", "readers")
  /\ UNCHANGED <<env, pool, lock, readers, children, outq, stdinOpen, results, parentUp, crashes>>

StartReaders ==
  /\ main = "readers"
  /\ reader' = [w \in Workers |-> IF assigned[w] # <<>> THEN "recv" ELSE "off"]
  /\ main' = "wait"
  /\ UNCHANGED <<env, cur, handle, pos, got, children, pipes, results, parentUp, crashes>>

\* wait_for(i): no-op for a config that was never registered.
WaitFor ==
  /\ main = "wait"
  /\ cur \in registered => cur \in events
  /\ main' = "check"
  /\ UNCHANGED <<env, cur, handle, readers, children, pipes, results, parentUp, crashes>>

LockFree == lock = 0

\* is_failed(i), and the compile in process of a failed config.
WarmIfFailed ==
  /\ main = "check"
  /\ LockFree
  /\ warmed' = IF cur \in failures THEN warmed \cup {cur} ELSE warmed
  /\ main' = "bench"
  /\ UNCHANGED <<env, cur, handle, readers, children, pipes, built, benched, parentUp, crashes>>

\* _bench(i), which may raise: then the finally clause runs.
Bench ==
  /\ main = "bench"
  /\ \/ benched' = benched \cup {cur} /\ NextConfig("wait", "close")
     \/ main' = "close" /\ cur' = 1 /\ UNCHANGED benched
  /\ UNCHANGED <<env, handle, readers, children, pipes, built, warmed, parentUp, crashes>>

\* shutdown: close every stdin, then wait for each worker or kill it.
CloseStdins ==
  /\ main = "close"
  /\ stdinOpen' = [w \in Workers |-> FALSE]
  /\ main' = "reap"
  /\ UNCHANGED <<env, cur, handle, readers, children, inq, outq, results, parentUp, crashes>>

Killed(w) == [worker EXCEPT ![w] = "dead"]

\* worker.wait(timeout=5.0) returns, or times out and the worker is killed.
Reap ==
  /\ main = "reap"
  /\ IF cur <= Len(pool)
       THEN /\ worker' = IF Alive(pool[cur]) THEN Killed(pool[cur]) ELSE worker
            /\ cur' = cur + 1 /\ UNCHANGED main
       ELSE main' = "done" /\ UNCHANGED <<cur, worker>>
  /\ UNCHANGED <<env, handle, readers, task, reply, pipes, results, parentUp, crashes>>

-----------------------------------------------------------------------------
(* The reader thread of worker w. *)

\* The configs that a lost reply settles: config_indices[pos:].
RemainingOne(w) == {assigned[w][pos[w]]}
Remaining(w) == {assigned[w][k] : k \in pos[w] .. Len(assigned[w])}

WholeReply(w) == outq[w] # <<>> /\ Head(outq[w]) \notin {"part", "stray"}

\* A whole reply, or None at the end of the stream.  Stray text is taken for a
\* length prefix: the read then lasts until the stream ends.
Recv(w) ==
  /\ reader[w] = "recv"
  /\ \/ /\ WholeReply(w)
        /\ got' = [got EXCEPT ![w] = Head(outq[w])]
        /\ outq' = [outq EXCEPT ![w] = Tail(@)]
     \/ /\ ~WholeReply(w) /\ ~Alive(w)
        /\ got' = [got EXCEPT ![w] = "eof"]
        /\ UNCHANGED outq
  /\ reader' = [reader EXCEPT ![w] = "got"]
  /\ UNCHANGED <<env, main, cur, handle, pos, children, inq, stdinOpen, results, parentUp, crashes>>

RecordFailure(w) ==
  /\ reader[w] = "got"
  /\ LockFree
  /\ lock' = w
  /\ failures' = failures \cup CASE got[w] = "eof" -> Remaining(w)
                                 [] got[w] = "ERR" -> {assigned[w][pos[w]]}
                                 [] OTHER -> {}
  /\ reader' = [reader EXCEPT ![w] = "set"]
  /\ UNCHANGED <<env, main, cur, pool, assigned, registered, events, pos, got, children, pipes,
                 results, parentUp, crashes>>

SetEvents(w) ==
  /\ reader[w] = "set"
  /\ lock' = 0
  /\ events' = events \cup (IF got[w] = "eof" THEN Remaining(w) ELSE {assigned[w][pos[w]]})
  /\ IF got[w] # "eof" /\ pos[w] < Len(assigned[w])
       THEN pos' = [pos EXCEPT ![w] = @ + 1] /\ reader' = [reader EXCEPT ![w] = "recv"]
       ELSE reader' = [reader EXCEPT ![w] = "done"] /\ UNCHANGED pos
  /\ UNCHANGED <<env, main, cur, pool, assigned, registered, failures, got, children, pipes,
                 results, parentUp, crashes>>

-----------------------------------------------------------------------------
(* The worker process w (_compile_worker.main). *)

parentState == <<main, cur, handle, readers, parentUp, crashes>>
Place(w, l) == worker' = [worker EXCEPT ![w] = l]

SendReady(w) ==
  /\ worker[w] = "boot"
  /\ outq' = [outq EXCEPT ![w] = Append(@, "READY")]
  /\ Place(w, "idle")
  /\ UNCHANGED <<env, parentState, task, reply, inq, stdinOpen, results>>

TakeTask(w) ==
  /\ worker[w] = "idle"
  /\ IF inq[w] # <<>>
       THEN /\ task' = [task EXCEPT ![w] = Head(inq[w])]
            /\ inq' = [inq EXCEPT ![w] = Tail(@)]
            /\ Place(w, "compile")
       ELSE /\ ~stdinOpen[w] \/ ~parentUp
            /\ Place(w, "dead") /\ UNCHANGED <<task, inq>>
  /\ UNCHANGED <<env, parentState, reply, outq, stdinOpen, results>>

CompileTask(w) ==
  /\ worker[w] = "compile"
  /\ task[w] \notin env.hang
  /\ IF task[w] \in env.bad
       THEN reply' = [reply EXCEPT ![w] = "ERR"] /\ UNCHANGED built
       ELSE reply' = [reply EXCEPT ![w] = "OK"] /\ built' = built \cup {task[w]}
  /\ \/ UNCHANGED outq
     \/ env.strayPrints /\ Len(outq[w]) < env.pipeOut /\ outq' = [outq EXCEPT ![w] = Append(@, "stray")]
  /\ Place(w, "reply")
  /\ UNCHANGED <<env, parentState, task, inq, stdinOpen, warmed, benched>>

\* The reply; with the parent gone the write fails and the worker dies.
SendReply(w) ==
  /\ worker[w] = "reply"
  /\ \/ /\ parentUp /\ Len(outq[w]) < env.pipeOut
        /\ outq' = [outq EXCEPT ![w] = Append(@, reply[w])] /\ Place(w, "idle")
     \/ ~parentUp /\ Place(w, "dead") /\ UNCHANGED outq
  /\ UNCHANGED <<env, parentState, task, reply, inq, stdinOpen, results>>

\* The worker dies, perhaps in the middle of a reply.
Crash(w) ==
  /\ Alive(w)
  /\ crashes < env.maxCrashes
  /\ crashes' = crashes + 1
  /\ Place(w, "dead")
  /\ \/ UNCHANGED outq
     \/ worker[w] = "reply" /\ Len(outq[w]) < env.pipeOut
        /\ outq' = [outq EXCEPT ![w] = Append(@, "part")]
  /\ UNCHANGED <<env, main, cur, handle, readers, task, reply, inq, stdinOpen, results, parentUp>>

OrphanedNever == FALSE
Orphaned == ~parentUp

\* The worker's watchdog sees another parent pid and kills the process.
Watchdog(w) ==
  /\ Orphaned
  /\ Alive(w)
  /\ Place(w, "dead")
  /\ UNCHANGED <<env, parentState, task, reply, pipes, results>>

ParentDies ==
  /\ env.parentMayDie /\ parentUp
  /\ main # "done"
  /\ parentUp' = FALSE
  /\ UNCHANGED <<env, main, cur, handle, readers, children, pipes, results, crashes>>

-----------------------------------------------------------------------------
MainStep == parentUp /\
  (\/ Spawn \/ RecvReady \/ Send \/ StartReaders \/ WaitFor \/ WarmIfFailed \/ Bench
   \/ CloseStdins \/ Reap)
ReaderStep(w) == parentUp /\ (Recv(w) \/ RecordFailure(w) \/ SetEvents(w))
WorkerStep(w) == SendReady(w) \/ TakeTask(w) \/ CompileTask(w) \/ SendReply(w)

Next ==
  \/ MainStep
  \/ \E w \in Workers : ReaderStep(w) \/ WorkerStep(w) \/ Crash(w) \/ Watchdog(w)
  \/ ParentDies

Spec == Init /\ [][Next]_vars

\* Every thread and process keeps running; a hanging compile is no step.
Fairness ==
  /\ WF_vars(MainStep)
  /\ \A w \in Workers : WF_vars(ReaderStep(w)) /\ WF_vars(WorkerStep(w)) /\ WF_vars(Watchdog(w))

FairSpec == Spec /\ Fairness

-----------------------------------------------------------------------------
(***************************************************************************)
(* A config of the pool is timed only when its kernel is in the cache or   *)
(* was compiled by the main thread first, whatever crashed, and however    *)
(* the replies and the configs are paired.                                 *)
(***************************************************************************)
NoColdBench == benched \cap registered \subseteq built \cup warmed

(***************************************************************************)
(* "the event set so callers don't deadlock": the autotuner comes to its   *)
(* end although workers crash, unless a compile never returns.             *)
(***************************************************************************)
WaitsEnd == <>(main = "done" \/ ~parentUp \/ env.hang # {})

(***************************************************************************)
(* When shutdown returns no worker is left, also after a benchmark that    *)
(* raised; when the parent dies, no worker outlives it for ever, one that  *)
(* hangs in a compile included; and no reader thread outlives the workers. *)
(***************************************************************************)
NoOrphans ==
  /\ [](main = "done" => \A w \in Workers : ~Alive(w))
  /\ (main = "done" \/ ~parentUp) ~>
      \A w \in Workers : ~Alive(w) /\ (parentUp => reader[w] \in {"off", "done"})
=============================================================================

------------------------------ MODULE JitCache ------------------------------
(***************************************************************************)
(* The persistent kernel cache (jit_cache in quack/cache/jit.py): several  *)
(* processes call the same decorated function with the same key.  Keys     *)
(* have separate files and locks, so one key is the general case.  A       *)
(* process has its own in-memory cache; the object file and its flock are  *)
(* shared.  The object file is written in place by export_to_c, so it is   *)
(* visible to exists() before it is complete, and stays incomplete when    *)
(* the writer dies or the export raises.                                   *)
(***************************************************************************)
EXTENDS Naturals, FiniteSets

CONSTANTS Proc,          \* processes
          Environments   \* the circumstances considered, see below

\* An environment: enabled[p] is CACHE_ENABLED of process p; the compile of a
\* process in stuck never returns, and any other ends in one of outcomes;
\* exportFails and timeouts tell whether export_to_c may raise and a waiting
\* FileLock may time out; maxCalls and maxCrashes bound the calls of a process
\* and the crashes.
ASSUME JitAssumption ==
  \A v \in Environments :
    /\ v.enabled \in [Proc -> BOOLEAN]
    /\ v.stuck \subseteq Proc
    /\ v.outcomes \subseteq {"ok", "RuntimeError", "Error"} /\ "ok" \in v.outcomes
    /\ v.exportFails \in BOOLEAN /\ v.timeouts \in BOOLEAN
    /\ v.maxCalls \in Nat /\ v.maxCrashes \in Nat

VARIABLES
  jitEnv,    \* the environment of this run
  pc,        \* pc[p]: where the call stands
  only,      \* only[p]: compile_only, sampled at the start of the call
  mem,       \* mem[p]: the in-memory cache, "none" or "kernel"
  ret,       \* ret[p]: what the last call returned: "none", "kernel", "noop", "error"
  hits, misses, calls,
  file,      \* the object file: "absent", "partial", "whole"
  shared,    \* processes that hold the lock shared
  excl,      \* the set of the process that holds the lock exclusively
  jitCrashes, \* crashes so far
  compiles,  \* compiles started so far
  garbled    \* a load has met an incomplete file

callVars == <<only, hits, misses, calls>>
ghosts == <<jitCrashes, compiles, garbled>>
jitVars == <<jitEnv, pc, mem, ret, callVars, file, shared, excl, ghosts>>

JitInit ==
  /\ jitEnv \in Environments
  /\ pc = [p \in Proc |-> "idle"]
  /\ only = [p \in Proc |-> FALSE]
  /\ mem = [p \in Proc |-> "none"]
  /\ ret = [p \in Proc |-> "none"]
  /\ hits = [p \in Proc |-> 0]
  /\ misses = [p \in Proc |-> 0]
  /\ calls = [p \in Proc |-> 0]
  /\ file = "absent"
  /\ shared = {} /\ excl = {}
  /\ jitCrashes = 0 /\ compiles = 0 /\ garbled = FALSE

Goto(p, l) == pc' = [pc EXCEPT ![p] = l]
Count(var, p) == [var EXCEPT ![p] = @ + 1]

\* return _noop_kernel if compile_only else k
Return(p) ==
  /\ ret' = [ret EXCEPT ![p] = IF only[p] THEN "noop" ELSE "kernel"]
  /\ Goto(p, "idle")

Raise(p) ==
  /\ ret' = [ret EXCEPT ![p] = "error"]
  /\ Goto(p, "idle")

\* cache[cache_key] = the kernel itself, in compile-only mode as well.
Remember(p) == mem' = [mem EXCEPT ![p] = "kernel"]

Unlock(p) == shared' = shared \ {p} /\ excl' = excl \ {p}
LocksUnchanged == UNCHANGED <<shared, excl>>

-----------------------------------------------------------------------------
Call(p) ==
  /\ pc[p] = "idle"
  /\ calls[p] < jitEnv.maxCalls
  /\ calls' = Count(calls, p)
  /\ \E b \in BOOLEAN : only' = [only EXCEPT ![p] = b]
  /\ Goto(p, "lookup")
  /\ UNCHANGED <<jitEnv, mem, ret, hits, misses, file, shared, excl, jitCrashes, compiles, garbled>>

\* 1. and 2.: the in-memory hit; a disabled cache compiles in process.
Lookup(p) ==
  /\ pc[p] = "lookup"
  /\ IF mem[p] # "none"
       THEN /\ hits' = Count(hits, p)
            /\ ret' = [ret EXCEPT ![p] = IF only[p] THEN "noop" ELSE mem[p]]
            /\ Goto(p, "idle")
       ELSE /\ Goto(p, IF jitEnv.enabled[p] THEN "exists" ELSE "fallback")
            /\ UNCHANGED <<hits, ret>>
  /\ UNCHANGED <<jitEnv, only, mem, misses, calls, file, shared, excl, ghosts>>

\* The unlocked o_path.exists().
Exists(p) ==
  /\ pc[p] = "exists"
  /\ Goto(p, IF file # "absent" THEN "trySh" ELSE "tryEx")
  /\ UNCHANGED <<jitEnv, mem, ret, callVars, file, shared, excl, ghosts>>

SharedFreeAlways(p) == TRUE
SharedFree(p) == excl \subseteq {p}
ExclusiveFree(p) == excl \cup shared \subseteq {p}

\* The deadline of FileLock.__enter__ has passed.
ExpiredNever(p) == FALSE
Expired(p) == jitEnv.timeouts

\* FileLock.__enter__: flock(LOCK_NB) is tried at least once, then polled
\* until the deadline.
AcquireShared(p) ==
  /\ pc[p] \in {"trySh", "waitSh"}
  /\ IF SharedFree(p)
       THEN shared' = shared \cup {p} /\ Goto(p, "loadSh")
       ELSE /\ UNCHANGED shared
            /\ \/ pc[p] = "trySh" /\ Goto(p, "waitSh")
               \/ Expired(p) /\ pc[p] = "waitSh" /\ Goto(p, "tryEx")
  /\ UNCHANGED <<jitEnv, mem, ret, callVars, file, excl, jitCrashes, compiles, garbled>>

AcquireExclusive(p) ==
  /\ pc[p] \in {"tryEx", "waitEx"}
  /\ IF ExclusiveFree(p)
       THEN excl' = {p} /\ Goto(p, "recheck")
       ELSE /\ UNCHANGED excl
            /\ \/ pc[p] = "tryEx" /\ Goto(p, "waitEx")
               \/ Expired(p) /\ pc[p] = "waitEx" /\ Goto(p, "fallback")
  /\ UNCHANGED <<jitEnv, mem, ret, callVars, file, shared, jitCrashes, compiles, garbled>>

\* _load_cached under a lock.  An incomplete file makes load_module raise, a
\* RuntimeError (then the call goes on at next) or something else.
Load(p, next) ==
  IF file = "whole"
    THEN /\ Remember(p) /\ hits' = Count(hits, p) /\ Return(p) /\ UNCHANGED garbled
    ELSE /\ garbled' = TRUE
         /\ UNCHANGED <<mem, hits>>
         /\ (Goto(p, next) /\ UNCHANGED ret) \/ Raise(p)

\* 3. the fast path
LoadShared(p) ==
  /\ pc[p] = "loadSh"
  /\ Load(p, "tryEx")
  /\ Unlock(p)
  /\ UNCHANGED <<jitEnv, only, misses, calls, file, jitCrashes, compiles>>

FoundNever == FALSE
Found == file # "absent"

\* 4. the slow path: recheck under the exclusive lock
RecheckFound(p) ==
  /\ pc[p] = "recheck"
  /\ Found
  /\ Load(p, "fallback")
  /\ Unlock(p)
  /\ UNCHANGED <<jitEnv, only, misses, calls, file, jitCrashes, compiles>>

RecheckMiss(p) ==
  /\ pc[p] = "recheck"
  /\ ~Found
  /\ misses' = Count(misses, p)
  /\ compiles' = compiles + 1
  /\ Goto(p, "compile")
  /\ UNCHANGED <<jitEnv, mem, ret, only, hits, calls, file, shared, excl, jitCrashes, garbled>>

\* fn(*args) under the exclusive lock; a RuntimeError of the compile is caught
\* by the handler meant for the lock.
Compile(p) ==
  /\ pc[p] = "compile"
  /\ \E o \in jitEnv.outcomes :
       \/ o = "ok" /\ Goto(p, "export") /\ LocksUnchanged /\ UNCHANGED ret
       \/ o = "RuntimeError" /\ Goto(p, "fallback") /\ Unlock(p) /\ UNCHANGED ret
       \/ o = "Error" /\ Raise(p) /\ Unlock(p)
  /\ UNCHANGED <<jitEnv, mem, callVars, file, ghosts>>

\* export_to_c opens the file and writes it in place ...
BeginExport(p) ==
  /\ pc[p] = "export"
  /\ file' = "partial"
  /\ Goto(p, "exporting")
  /\ UNCHANGED <<jitEnv, mem, ret, callVars, shared, excl, ghosts>>

\* ... and ends, or raises, before it opened the file or after.  Either way
\* the kernel is used.
EndExport(p) ==
  /\ \/ pc[p] = "exporting" /\ file' = "whole"
     \/ jitEnv.exportFails /\ pc[p] \in {"export", "exporting"} /\ UNCHANGED file
  /\ Remember(p)
  /\ Return(p)
  /\ Unlock(p)
  /\ UNCHANGED <<jitEnv, callVars, ghosts>>

\* The handler of the slow path, and the disabled cache: compile in process,
\* nothing written.
StartInProcess(p) ==
  /\ pc[p] = "fallback"
  /\ misses' = Count(misses, p)
  /\ compiles' = compiles + 1
  /\ Goto(p, "inProcess")
  /\ UNCHANGED <<jitEnv, mem, ret, only, hits, calls, file, shared, excl, jitCrashes, garbled>>

EndInProcess(p) ==
  /\ pc[p] = "inProcess"
  /\ \E o \in jitEnv.outcomes :
       IF o = "ok" THEN Remember(p) /\ Return(p) ELSE Raise(p) /\ UNCHANGED mem
  /\ UNCHANGED <<jitEnv, callVars, file, shared, excl, ghosts>>

\* The process dies: its descriptors are closed, what it wrote stays.  A new
\* process takes its place.
ProcessDies(p) ==
  /\ pc[p] # "idle"
  /\ jitCrashes < jitEnv.maxCrashes
  /\ jitCrashes' = jitCrashes + 1
  /\ Unlock(p)
  /\ Goto(p, "idle")
  /\ mem' = [mem EXCEPT ![p] = "none"]
  /\ ret' = [ret EXCEPT ![p] = "none"]
  /\ hits' = [hits EXCEPT ![p] = 0] /\ misses' = [misses EXCEPT ![p] = 0]
  /\ calls' = [calls EXCEPT ![p] = 0]
  /\ UNCHANGED <<jitEnv, only, file, compiles, garbled>>

-----------------------------------------------------------------------------
CompileEnds(p) == Compile(p) \/ EndInProcess(p)

JitStep(p) ==
  \/ Lookup(p) \/ Exists(p) \/ AcquireShared(p) \/ AcquireExclusive(p)
  \/ LoadShared(p) \/ RecheckFound(p) \/ RecheckMiss(p)
  \/ BeginExport(p) \/ EndExport(p) \/ StartInProcess(p)

JitNext == \E p \in Proc : Call(p) \/ JitStep(p) \/ CompileEnds(p) \/ ProcessDies(p)

JitSpec == JitInit /\ [][JitNext]_jitVars

\* A process in a call keeps running; a compile returns unless it is stuck.
JitFairness ==
  /\ \A p \in Proc : WF_jitVars(JitStep(p))
  /\ \A p \in Proc : WF_jitVars(p \notin jitEnv.stuck /\ CompileEnds(p))

JitFairSpec == JitSpec /\ JitFairness

-----------------------------------------------------------------------------
(***************************************************************************)
(* "the shared lock guards against reading a partial file while a          *)
(* concurrent writer holds the exclusive lock": nobody reads the file      *)
(* while another process writes it, crashes and timeouts included.            *)
(***************************************************************************)
NoReadDuringExport ==
  \A p, q \in Proc : pc[p] = "exporting" => pc[q] \notin {"loadSh", "recheck", "exporting"} \/ p = q

\* Nothing fails, and no holder of the lock outlasts a waiter.
Quiet ==
  /\ jitEnv.outcomes = {"ok"} /\ jitEnv.stuck = {} /\ \A p \in Proc : jitEnv.enabled[p]
  /\ ~jitEnv.exportFails /\ ~jitEnv.timeouts /\ jitEnv.maxCrashes = 0

(***************************************************************************)
(* "if N processes race on a cold key, only one calls cute.compile; the    *)
(* rest wait for the lock, see the .o appear, and load it": as long as     *)
(* nothing fails there is one compile and no load of an incomplete file.   *)
(***************************************************************************)
OneCompile == Quiet => compiles <= 1 /\ ~garbled

(***************************************************************************)
(* Every call returns or raises, whoever hangs in its compile or dies with *)
(* the lock.                                                               *)
(***************************************************************************)
EveryCallEnds ==
  \A p \in Proc : [](pc[p] # "idle" /\ p \notin jitEnv.stuck => <>(pc[p] = "idle"))
=============================================================================

---------------------------- MODULE ExpertArrival ----------------------------
(***************************************************************************)
(* What ExpertArrivalSemaphore promises to a consumer, without memory,     *)
(* counters or warps (quack/tilepipe_sync.py, lines 124-181): rows arrive  *)
(* at batches, in any grouping, each of them once, and a reader takes a    *)
(* batch only when all of its rows have arrived.                           *)
(***************************************************************************)
CONSTANTS Batch,    \* batches that rows arrive at
          Members,  \* Members[b]: the rows expected at batch b
          Reader    \* consumers

VARIABLES arrived,  \* arrived[b]: rows that may be read
          held      \* held[c]: {} or the batch that reader c works on

Init ==
  /\ arrived = [b \in Batch |-> {}]
  /\ held = [c \in Reader |-> {}]

\* Rows that had not arrived before become readable together.
Announce(b) ==
  \E S \in SUBSET (Members[b] \ arrived[b]) :
    /\ S # {}
    /\ arrived' = [arrived EXCEPT ![b] = @ \cup S]
    /\ UNCHANGED held

Take(c, b) ==
  /\ arrived[b] = Members[b]
  /\ held' = [held EXCEPT ![c] = {b}]
  /\ UNCHANGED arrived

Next ==
  \/ \E b \in Batch : Announce(b)
  \/ \E c \in Reader, b \in Batch : Take(c, b)

Spec == Init /\ [][Next]_<<arrived, held>>
=============================================================================

--------------------------- MODULE MCPingpongGemm ---------------------------
(* Instances of PingpongGemm for TLC. *)
EXTENDS PingpongGemm

Static(n, k) == [varlenK |-> FALSE, staticK |-> k, kTiles |-> [t \in 1 .. n |-> k]]
Varlen(ks)   == [varlenK |-> TRUE, staticK |-> 1, kTiles |-> ks]

\* None to four tiles of one to five k tiles; with varlen_k also empty ones.
FewTiles ==
  {Static(n, k) : n \in 0 .. 4, k \in {1, 2, 3, 5}} \cup
  {Varlen(ks) : ks \in UNION {[1 .. n -> {0, 1, 4}] : n \in 1 .. 3}} \cup
  {Varlen(<<2, 0, 0, 3>>)}
=============================================================================

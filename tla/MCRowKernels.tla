---------------------------- MODULE MCRowKernels ----------------------------
(***************************************************************************)
(* Kernels of RowKernels for TLC.                                          *)
(***************************************************************************)
EXTENDS RowKernels, TLC

\* The widest tensor is x, or the weight of a norm in fp32.
Kernel(kind, major, n, width) ==
  [kind |-> kind, major |-> major, m |-> 5, n |-> n, width |-> width, dout |-> width,
   widest |-> IF kind \in Norms THEN 32 ELSE width,
   residual |-> FALSE, hint |-> 0, heads |-> 0, sms |-> 2, config |-> {}]

\* Hidden sizes and vocabularies, at the steps of the ladders and between
\* them; odd ones where the code takes them.
Widths == {8, 192, 760, 3080, 4096, 8200, 16384, 16392, 32768, 65536, 100352, 128256, 131072, 151936, 262144}
Plain == {Kernel(kind, major, n, 16) : kind \in Kinds, major \in {9, 10}, n \in Widths}
Wide == {Kernel(kind, 9, n, 32) : kind \in Kinds, n \in Widths}
Small == {Kernel(kind, major, n, 16) : kind \in {"softmax", "layernorm", "cross_entropy_bwd"},
                                      major \in {8, 12}, n \in {760, 4096, 16392, 32768}}
Odd == {Kernel(kind, 9, n, 16) : kind \in Kinds, n \in {37, 1131, 50257}}

\* Autotuned configs of a row that is short for many of them.
Tuned ==
  {[Kernel("layernorm", 9, 1024, 16) EXCEPT !.config = {c}] :
     c \in KeptFwdConfigs(Kernel("layernorm", 9, 1024, 16))}
  \cup {[Kernel("rmsnorm_bwd", 10, 1024, 16) EXCEPT !.config = {c}] :
          c \in {d \in KeptBwdConfigs(Kernel("rmsnorm_bwd", 10, 1024, 16)) : d.slots = 3}}

\* Norms with a weight as narrow as x, or none; that of layernorm is fp32.
NarrowWeight ==
  {[Kernel(kind, major, n, 16) EXCEPT !.widest = 16] :
     kind \in {"rmsnorm", "rmsnorm_bwd"}, major \in {9, 10}, n \in Widths \cup {37, 1131, 50257}}

Heads == {[Kernel("rmsnorm_bwd", 9, n, 16) EXCEPT !.heads = 3, !.dout = 32] : n \in {64, 4096}}

RowKernelsMC == Plain \cup Wide \cup Small \cup Odd \cup Tuned \cup NarrowWeight \cup Heads

Optin == (8 :> 163840) @@ (9 :> 232448) @@ (10 :> 232448) @@ (12 :> 101376)
=============================================================================

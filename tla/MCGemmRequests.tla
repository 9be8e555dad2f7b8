--------------------------- MODULE MCGemmRequests ---------------------------
(* Calls of the public GEMM functions, as GemmPrecompile sees them. *)
EXTENDS GemmPrecompile

\* A tensor of nd dimensions; its last one is contiguous, or the one before.
Half(nd) == [dt |-> "bf16", nd |-> nd, row |-> TRUE]
Column(t) == [t EXCEPT !.row = FALSE]
Float(t) == [t EXCEPT !.dt = "f32"]

Caps == {8, 9, 10, 11, 12}
Basic(fn, cap, nd) ==
  [fn |-> fn, cap |-> cap, A |-> Half(nd), B |-> Column(Half(nd)), C |-> None, out |-> Half(nd),
   aliasC |-> FALSE, bias |-> None, alpha |-> "one", beta |-> "one", varlen |-> "none",
   gather |-> FALSE, perm |-> FALSE, dynamic |-> FALSE, act |-> "none", aux |-> None,
   store |-> TRUE, col |-> None, reduce |-> FALSE, rounding |-> "RN", seed |-> "one",
   concat |-> {}, heuristic |-> {}]
Both(fn) == {Basic(fn, cap, nd) : cap \in Caps, nd \in {2, 3}}

\* Flat rows of A, C and out, one B for each batch; or flat rows of A and B.
FlatM(r) == [r EXCEPT !.varlen = "m", !.A.nd = 2, !.B.nd = 3, !.out.nd = 2,
                      !.C.nd = IF Given(r.C) THEN 2 ELSE 0, !.aux.nd = IF Given(r.aux) THEN 2 ELSE 0]
FlatK(r) == [r EXCEPT !.varlen = "k", !.A = Column(Half(2)), !.B = Half(2), !.out.nd = 3,
                      !.C.nd = IF Given(r.C) THEN 3 ELSE 0]
OneBatch(requests) == {r \in requests : r.A.nd = 2}
Flats(requests) == {[FlatM(r) EXCEPT !.gather = g, !.dynamic = d] :
                      r \in OneBatch(requests), g \in BOOLEAN, d \in BOOLEAN}

Scalars == {"one", "value", "tensor"}
Bias(r) == {None} \cup {[dt |-> dt, nd |-> r.A.nd - 1, row |-> TRUE] : dt \in {"bf16", "f32"}}

\* A heuristic of the library, which swaps the operands.
Swapping(cap) == {[DefaultConfig(9) EXCEPT !.arch = cap, !.swap = TRUE]}

GemmRequests ==
  LET plain == UNION {{[r EXCEPT !.bias = b, !.alpha = a, !.dynamic = d] :
                         b \in Bias(r), a \in Scalars, d \in BOOLEAN} : r \in Both("gemm")}
      swapped == {[r EXCEPT !.heuristic = Swapping(r.cap), !.out = IF c THEN Column(@) ELSE @] :
                    r \in Both("gemm"), c \in BOOLEAN}
      seeded == {[r EXCEPT !.rounding = "RS", !.seed = s] :
                   r \in {r \in Both("gemm") : r.cap = 10}, s \in {"one", "tensor"}}
      halves == UNION {{[r EXCEPT !.bias = b, !.concat = {"B", "bias"}] : b \in Bias(r)} : r \in Both("gemm")}
      ragged == {[r EXCEPT !.bias = IF b THEN Half(2) ELSE None, !.perm = b] : r \in Both("gemm"), b \in BOOLEAN}
  IN  UNION {plain, swapped, seeded, halves, Flats(ragged)}
        \cup {[FlatK(r) EXCEPT !.gather = g, !.perm = r.bias = None] :
                r \in OneBatch(Both("gemm")), g \in BOOLEAN}

Addends ==
  {[r EXCEPT !.C = c, !.aliasC = same, !.alpha = a, !.beta = b, !.dynamic = d] :
     r \in Both("add") \cup Both("inplace"), c \in {Half(3), Column(Float(Half(3)))},
     same \in BOOLEAN, a \in Scalars, b \in Scalars, d \in BOOLEAN}
AddRequests ==
  LET fits == {[r EXCEPT !.C.nd = r.A.nd] : r \in Addends}
      calls == {[r EXCEPT !.C = IF r.fn = "inplace" THEN None ELSE IF r.aliasC THEN r.out ELSE r.C,
                          !.aliasC = @ /\ r.fn = "add"] : r \in fits}
  IN  calls \cup Flats({r \in calls : r.alpha = "one"})
        \cup {FlatK(r) : r \in OneBatch({r \in calls : r.alpha = "one"})}

\* Gated activations are not for SM80.
Acted(r, act) == [r EXCEPT !.act = act, !.aux = Half(r.A.nd)]
ActRequests ==
  LET acts == {Acted(r, act) : r \in Both("act"), act \in {"none", "relu", "gated"}}
      some == {r \in acts : r.act = "gated" => r.cap # 8}
  IN  UNION {{[r EXCEPT !.store = s, !.bias = b, !.C = IF c THEN r.out ELSE None,
                        !.concat = IF r.act = "gated" THEN {"B", "bias"} ELSE {}] :
                s \in BOOLEAN, b \in Bias(r), c \in BOOLEAN} : r \in some}
        \cup Flats({[r EXCEPT !.bias = b] : r \in some, b \in {None, Float(Half(2))}})

DActRequests ==
  LET dacts == {[Acted(r, act) EXCEPT !.C = Half(r.A.nd)] : r \in Both("dact"), act \in {"relu", "gated"}}
      scaled(r) == IF r.act = "gated"
                     THEN {[r EXCEPT !.col = s, !.reduce = g] :
                             s \in {None, Float(Half(IF r.varlen = "m" THEN 1 ELSE r.A.nd - 1))}, g \in BOOLEAN}
                     ELSE {r}
  IN  UNION {scaled(r) : r \in dacts \cup Flats(dacts)}

NormRequests ==
  LET rms == {[r EXCEPT !.bias = b, !.C = c, !.aux = a, !.dynamic = d] :
                r \in Both("rms"), b \in {None, Half(2)}, c \in {None, Half(3)},
                a \in {None, Half(3)}, d \in BOOLEAN}
      norm == {[Acted(r, act) EXCEPT !.store = s, !.col = Float(Half(r.A.nd - 1)), !.dynamic = d] :
                 r \in Both("norm_act"), act \in {"none", "gated"}, s \in BOOLEAN, d \in BOOLEAN}
  IN  norm \cup {[r EXCEPT !.bias.nd = IF Given(r.bias) THEN r.A.nd - 1 ELSE 0,
                           !.C.nd = IF Given(r.C) THEN r.A.nd ELSE 0,
                           !.aux.nd = IF Given(r.aux) THEN r.A.nd ELSE 0] : r \in rms}

SymmetricRequests(caps) ==
  {[r EXCEPT !.alpha = a, !.beta = b, !.C = IF c THEN r.out ELSE None] :
     r \in {r \in Both("symmetric") : r.cap \in caps}, a \in Scalars, b \in Scalars, c \in BOOLEAN}

\* gemm_symmetric up to SM90 only: its fake compiles it for the static
\* scheduler, with which it is not launched on SM100 and later.
WarmRequests ==
  UNION {GemmRequests, AddRequests, ActRequests, DActRequests, NormRequests, SymmetricRequests({8, 9})}
=============================================================================

------------------------------ MODULE MCLinear ------------------------------
(* Calls of the interface and networks to train, for TLC. *)
EXTENDS LinearAutograd

\* Small integers, different from place to place; s names the tensor.
Cell(s, b, i, j) == ((7 * s + 5 * i + 3 * j + 2 * i * j + s * i + 4 * b) % 7) - 3
Rand(s, l, m, n, contig) ==
  Tensor([b \in 1 .. l |-> [i \in 1 .. m |-> [j \in 1 .. n |-> Cell(s, b, i, j)]]], contig)
Vectors(s, l, n) == [b \in 1 .. l |-> [j \in 1 .. n |-> Cell(s, b, 1, j)]]
Uninit(l, m, n, contig) ==
  Tensor([b \in 1 .. l |-> [i \in 1 .. m |-> [j \in 1 .. n |-> Junk]]], contig)

Config(swap, tm, tn) == [swap |-> swap, tm |-> tm, tn |-> tn, cm |-> 1, arch |-> 9]

\* A dense call of l batches, (m, k) @ (k, n).
Dense(fn, l, m, n, k) ==
  [fn |-> fn, A |-> Rand(1, l, m, k, "row"), B |-> Rand(2, l, k, n, "col"), C |-> NoTensor,
   aliasC |-> FALSE, out |-> Uninit(l, m, n, "row"), m |-> m, n |-> n,
   bias |-> <<>>, wide |-> FALSE, scale |-> <<>>, weight |-> <<>>, rstd |-> <<>>,
   alpha |-> 1, beta |-> 1, betaTensor |-> FALSE, act |-> "none",
   cuM |-> <<>>, cuK |-> <<>>, idx |-> <<>>, concat |-> {}, store |-> TRUE, reduce |-> FALSE,
   config |-> Config(FALSE, 2, 2)]

Swaps(calls) == {[c EXCEPT !.config.swap = s, !.config.tm = IF s THEN 3 ELSE 2] : c \in calls, s \in BOOLEAN}

Addend(c, contig) == [c EXCEPT !.C = Rand(3, Len(c.out.v), c.m, c.n, contig)]
InPlace(c) == LET t == Rand(3, Len(c.out.v), c.m, c.n, c.out.contig)
              IN  [c EXCEPT !.C = t, !.out = t, !.aliasC = TRUE]
Biased(c, wide) == [c EXCEPT !.bias = Vectors(4, IF VarlenM(c) THEN Len(c.cuM) - 1 ELSE Len(c.A.v), c.n), !.wide = wide]
Concat(c, names) == [c EXCEPT !.concat = names]

Flat(c) == [c EXCEPT !.A = Rand(1, 1, 5, 2, "row"), !.B = Rand(2, 3, 2, c.n, "col"), !.m = 5,
                     !.cuM = <<0, 3, 3, 5>>, !.out = Uninit(1, 5, c.n, "row")]
FlatGather(c) == [Flat(c) EXCEPT !.A = Rand(1, 1, 4, 2, "row"), !.idx = <<4, 1, 1, 3, 2>>]
AlongK(c) == [c EXCEPT !.A = Rand(1, 1, c.m, 5, "col"), !.B = Rand(2, 1, 5, c.n, "row"),
                       !.cuK = <<0, 3, 3, 5>>, !.out = Uninit(3, c.m, c.n, "row")]
AlongKGather(c) == [AlongK(c) EXCEPT !.A = Rand(1, 1, c.m, 4, "col"), !.idx = <<4, 1, 1, 3, 2>>]

Gemms ==
  LET g == Dense("gemm", 2, 3, 3, 2) IN
  Swaps({[g EXCEPT !.alpha = 2], Biased(g, TRUE), AlongK(g)})
    \cup {Biased(Flat(g), TRUE), FlatGather(g), AlongKGather(g)}
Concats ==
  LET g == [Dense("gemm", 1, 4, 4, 2) EXCEPT !.A.contig = "col"]
      t == [g EXCEPT !.out.contig = "col", !.B.contig = "row"]
  IN  Swaps({Concat(Biased(g, w), {"A", "bias", "out"}) : w \in BOOLEAN}
            \cup {Concat(t, {"B", "out"}), Concat(InPlace([g EXCEPT !.fn = "add"]), {"B", "C", "out"}),
                  Concat(InPlace([t EXCEPT !.fn = "inplace", !.beta = 2]), {"A", "C", "out"})})
Adds ==
  LET a == [Dense("add", 1, 3, 4, 2) EXCEPT !.alpha = 2] IN
  Swaps({[Addend(a, "col") EXCEPT !.beta = 3], InPlace(a), [InPlace(a) EXCEPT !.betaTensor = TRUE],
         [InPlace(a) EXCEPT !.config.arch = 8], [InPlace(a) EXCEPT !.fn = "inplace", !.beta = 2],
         InPlace([AlongK(a) EXCEPT !.fn = "inplace"])})
    \cup {InPlace(Flat(a)), InPlace([Flat(a) EXCEPT !.fn = "inplace", !.beta = 2])}
Acts ==
  LET a == [Dense("act", 2, 3, 4, 2) EXCEPT !.act = "relu_sq"]
      g == [a EXCEPT !.act = "reglu", !.C = Rand(3, 2, 3, 4, "row")]
  IN  Swaps({Biased(Addend(a, "row"), FALSE), [a EXCEPT !.store = FALSE, !.out = NoTensor, !.act = "none"]})
        \cup {Biased(FlatGather(a), FALSE)}
        \cup {Concat(Biased(g, w), {"B", "bias"}) : w \in BOOLEAN}
        \cup {FlatGather([g EXCEPT !.C = NoTensor])}
DActs ==
  LET d == [Addend(Dense("dact", 2, 3, 3, 2), "row") EXCEPT !.act = "relu_sq"]
      g == [d EXCEPT !.act = "reglu", !.C = Rand(3, 2, 3, 6, "row"), !.out = Uninit(2, 3, 6, "row")]
      f == [FlatGather(g) EXCEPT !.C = Rand(3, 1, 5, 6, "row"), !.out = Uninit(1, 5, 6, "row")]
  IN  Swaps({d, g}) \cup {[FlatGather(d) EXCEPT !.C = Rand(3, 1, 5, 3, "row")],
                          [g EXCEPT !.scale = Vectors(4, 2, 3), !.reduce = TRUE],
                          [f EXCEPT !.scale = Vectors(4, 1, 5), !.reduce = TRUE]}
Symmetrics ==
  LET A == Rand(1, 1, 5, 2, "row")
      s == [Dense("symmetric", 1, 5, 5, 2) EXCEPT !.A = A, !.B = MT(A), !.alpha = 2]
      C == Tensor(<<[i \in 1 .. 5 |-> [j \in 1 .. 5 |-> i * j - 4]]>>, "row")
  IN  {[s EXCEPT !.config = [Config(FALSE, 2, 4) EXCEPT !.cm = 2]], [s EXCEPT !.C = C, !.beta = 3]}
Norms ==
  LET r == [Dense("rms", 2, 3, 5, 2) EXCEPT !.reduce = TRUE, !.store = FALSE]
      n == [Dense("norm_act", 2, 3, 4, 2) EXCEPT !.rstd = Vectors(4, 2, 3), !.act = "relu_sq"]
  IN  {r, [Addend(r, "row") EXCEPT !.weight = Vectors(4, 2, 5), !.store = TRUE]}
        \cup Swaps({n, Addend(n, "col")}) \cup {[n EXCEPT !.act = "reglu"]}
\* No rows, and nothing to contract.
Empties ==
  LET g(fn) == Dense(fn, 1, 2, 2, 0)
      half(c) == [c EXCEPT !.act = "reglu"]
  IN  {Biased(g("gemm"), TRUE), [Addend(g("add"), "row") EXCEPT !.beta = 2], InPlace(g("add")),
       [InPlace(g("add")) EXCEPT !.beta = 2], [InPlace(g("inplace")) EXCEPT !.beta = 3], InPlace(g("inplace")),
       [Addend(g("symmetric"), "row") EXCEPT !.beta = 2], half(g("act")), half(g("norm_act")),
       [g("rms") EXCEPT !.reduce = TRUE, !.weight = Vectors(4, 1, 2)],
       Dense("gemm", 1, 0, 2, 2), Dense("act", 1, 0, 2, 2)}

Calls == UNION {Gemms, Concats, Adds, Acts, DActs, Symmetrics, Norms, Empties}

-----------------------------------------------------------------------------
\* A small network; micro-batch k has two rows of two features.
Net(kind, act, concat, fuse, needs_x, needs_w, steps) ==
  LET hidden == IF kind \in {"linear", "tied"} \/ act = "relu_sq" THEN 2 ELSE 4
      out == IF kind \in {"linear", "tied"} THEN 2 ELSE 1
  IN [kind |-> kind, act |-> act, concat |-> concat, fuse |-> fuse, needs_x |-> needs_x, needs_w |-> needs_w,
      w |-> IF kind \in {"linear", "tied"} THEN <<Rand(5, 1, 2, 2, "row")>>
            ELSE <<Rand(5, 1, hidden, 2, "row"), Rand(6, 1, out, 2, "row")>>,
      b |-> IF kind \in {"linear", "tied"} THEN <<<<>>>> ELSE <<<<>>, <<>>>>,
      x |-> [k \in 1 .. steps |-> Rand(k, 1, 2, 2, "row").v[1]],
      dout |-> [k \in 1 .. steps |-> Rand(7 + k, 1, 2, out, "row").v[1]],
      chunk_size |-> 1, target |-> <<>>, dloss |-> 1, same_dtype |-> TRUE]
Biases(n) == [n EXCEPT !.b = [p \in DOMAIN n.w |-> Vectors(4 + p, 1, Len(n.w[p].v[1]))[1]]]

Loss(rows, chunk_size, same_dtype) ==
  [Net("linear", "none", FALSE, FALSE, TRUE, {1}, 2) EXCEPT
     !.kind = "loss", !.chunk_size = chunk_size, !.same_dtype = same_dtype, !.dloss = 2,
     !.w = <<Rand(5, 1, 3, 2, "row")>>,
     !.x = [k \in 1 .. 2 |-> Rand(k, 1, rows, 2, "row").v[1]],
     !.dout = [k \in 1 .. 2 |-> <<<<1>>>>],
     !.target = [k \in 1 .. 2 |-> [i \in 1 .. rows |-> (i + k) % 4]]]

NetsMC ==
  {Biases(Net("linear", "none", FALSE, fuse, TRUE, {1}, 3)) : fuse \in BOOLEAN}
    \cup {Net("linear", "none", FALSE, TRUE, TRUE, {}, 1), Net("linear", "none", FALSE, FALSE, FALSE, {1}, 2)}
    \cup {Biases(Net("tied", "none", FALSE, fuse, TRUE, {1}, 2)) : fuse \in BOOLEAN}
    \cup {Net(kind, "reglu", concat, fuse, TRUE, {1, 2}, 2) :
            kind \in {"mlp", "recompute"}, concat \in BOOLEAN, fuse \in BOOLEAN}
    \cup {Net(kind, "relu_sq", FALSE, TRUE, TRUE, {1, 2}, 2) : kind \in {"mlp", "recompute"}}
    \cup {Net(kind, "reglu", FALSE, FALSE, w = {}, w, 2) :
            kind \in {"mlp", "recompute"}, w \in {{2}, {1}, {}}}
    \cup {Net("recompute", "reglu", TRUE, TRUE, FALSE, {2}, 2)}
    \cup {Biases(Net("mlp", "reglu", concat, FALSE, FALSE, {}, 1)) : concat \in BOOLEAN}
    \cup {Biases(Net("mlp", "reglu", FALSE, FALSE, TRUE, {1, 2}, 2))}
    \cup {Loss(3, 2, same) : same \in BOOLEAN} \cup {Loss(3, 1, TRUE), Loss(3, 3, TRUE)}

NoNet == [kind |-> "none", x |-> <<>>, w |-> <<>>, needs_x |-> FALSE, needs_w |-> {}]

CallsInit ==
  /\ \E c \in Calls : call = c /\ todo = TilesOf(c) /\ mem = BeforeTiles(c)
  /\ TrainingInit(NoNet)
NetsInit(nets) ==
  /\ call = NoCall /\ todo = {} /\ mem = <<>>
  /\ \E n \in nets : TrainingInit(n)
NothingInit == call = NoCall /\ todo = {} /\ mem = <<>> /\ TrainingInit(NoNet)

LinearNext ==
  \/ RunTile /\ UNCHANGED training
  \/ TrainingNext
\* Nothing is left to do.
LinearEnded ==
  raised \/ /\ Idle /\ todo = {}
            /\ \A k \in DOMAIN pass : pass[k] = IF NeedsAny(net) THEN "ended" ELSE "done"
=============================================================================

---------------------------- MODULE TilePipePlans ----------------------------
(***************************************************************************)
(* Every rank builds its plans from the gathered routing (the constructor  *)
(* of TilePipe, and run_push_combine / tilepipe_gemm_combine.py for the    *)
(* way back), and the plans of different ranks are used together: a row    *)
(* goes where its source says, the receiver trusts its own cu_seqlens, the *)
(* GEMM publishes by the owner's tile offsets and the home rank waits by   *)
(* its own arithmetic.  The properties say that the separately built       *)
(* arrays agree.                                                           *)
(***************************************************************************)
EXTENDS TilePipeRouting

CONSTANTS Routings   \* the gathered routings considered

\* The ranks have the same number of tokens, each with TopK choices.
ASSUME RoutingsAssumption ==
  \A t \in Routings :
    /\ t \in [Rank -> Seq(0 .. W * EPR - 1)]
    /\ \A r \in Rank : Len(t[r]) = Len(t[0]) /\ Len(t[r]) % TopK = 0

VARIABLES topk,     \* the gathered routing, the same on every rank
          send,     \* send list of the dispatch kernel, per source rank
          push,     \* row list of the push-combine, per expert-owning rank
          pull,     \* flag index of every choice, per home rank
          planned   \* ranks that have built their plans

\* tokens * TopK, the length of a rank's routing.
NumChoices == Len(topk[0])

planVars == <<topk, send, push, pull, planned>>

\* plan_dispatch, plan_combine and build_combine_metadata of one rank.
BuildPlans(r) ==
  /\ r \notin planned
  /\ send' = [send EXCEPT ![r] = SendList(topk, r)]
  /\ push' = [push EXCEPT ![r] = PushList(topk, r)]
  /\ pull' = [pull EXCEPT ![r] = [j \in DOMAIN topk[r] |-> CombineFlag(topk, r, j)]]
  /\ planned' = planned \cup {r}
  /\ UNCHANGED topk

PlansInit ==
  /\ topk \in Routings
  /\ send = [r \in Rank |-> <<>>]
  /\ push = [r \in Rank |-> <<>>]
  /\ pull = [r \in Rank |-> <<>>]
  /\ planned = {}

PlansNext == \E r \in Rank : BuildPlans(r)

PlansSpec == PlansInit /\ [][PlansNext]_planVars

-----------------------------------------------------------------------------
AllPlanned == planned = Rank

\* The (source, position) pairs that are sent to rank d.
EntryOf(x) == send[x[1]][x[2]]
SentTo(d) == {x \in Rank \X (1 .. NumChoices) : EntryOf(x).dst = d}

\* The kernel recovers expert and destination of a finished segment from its
\* id alone (_flush_segment), and each segment is one run of the list.
SegmentIdsDecode ==
  \A r \in planned :
    /\ \A i \in DOMAIN send[r] :
         /\ send[r][i].seg \div W = send[r][i].expert
         /\ ((send[r][i].seg % W) + r) % W = send[r][i].dst
    /\ \A i, k \in DOMAIN send[r] : i < k => send[r][i].seg <= send[r][k].seg

(***************************************************************************)
(* build_send_arrays against build_recv_metadata: the rows the ranks send  *)
(* to d fill its receive buffer exactly, no two of them share a slot, and  *)
(* those of an expert fill exactly the span of its cu_seqlens; and what    *)
(* the kernel decodes from the id of a segment is the expert and the       *)
(* destination every row of the segment was listed with.                   *)
(***************************************************************************)
RecvLayoutExact ==
  /\ SegmentIdsDecode
  /\ AllPlanned => \A d \in Rank :
       /\ Cardinality({EntryOf(x).slot : x \in SentTo(d)}) = Cardinality(SentTo(d))
       /\ \A e \in Expert :
            {EntryOf(x).slot : x \in {y \in SentTo(d) : EntryOf(y).expert = e}}
              = CuSeqlens(topk, d, e) .. CuSeqlens(topk, d, e + 1) - 1

\* Row k of rank d's expert output goes back to the rank and to the staging
\* row of the very choice whose token dispatch had placed in row k.
PushReversesDispatch ==
  \A d \in Rank :
    /\ Len(push[d]) = Cardinality(SentTo(d))
    /\ \A i \in DOMAIN push[d] : \E x \in SentTo(d) :
         /\ EntryOf(x).slot = push[d][i].row
         /\ x[1] = push[d][i].home
         /\ push[d][i].slot \div TopK = EntryOf(x).token
         /\ topk[x[1]][push[d][i].slot + 1] = d * EPR + EntryOf(x).expert

\* Tile m of expert e holds row k of rank d's output.
Covers(d, e, m, k) == TileLo(topk, d, e, m) <= k /\ k < TileHi(topk, d, e, m)

\* One flag space for three builders: the counter the owner's epilogue bumps
\* for the tile that holds a row (TileOffset + m_tile), the one the push gate
\* of that row polls, and, shifted by the owner's rank_tile_base, the one the
\* home rank polls for it.  Home ranks stay inside the flag array and poll one
\* counter for each tile; the gates of the push list ascend.
FlagSpacesAgree ==
    /\ \A d \in Rank : \A i \in DOMAIN push[d] :
         LET p == push[d][i]
             e == p.seg \div W
         IN  /\ \E m \in 0 .. NumChoices * W :
                  Covers(d, e, m, p.row) /\ p.gate = TileOffset(topk, d, e) + m
             /\ pull[p.home][p.slot + 1] = RankTileBase(topk, d) + p.gate
             /\ pull[p.home][p.slot + 1] < TotalTiles(topk)
    /\ \A d \in Rank : \A i, k \in DOMAIN push[d] :
         i < k => push[d][i].gate <= push[d][k].gate /\ push[d][i].row < push[d][k].row
    /\ \A d1, d2 \in Rank : \A i \in DOMAIN push[d1], k \in DOMAIN push[d2] :
         LET p == push[d1][i]
             q == push[d2][k]
         IN  pull[p.home][p.slot + 1] = pull[q.home][q.slot + 1]
               => d1 = d2 /\ p.gate = q.gate

(***************************************************************************)
(* Combine is "the exact reverse of dispatch", and the gates it polls are  *)
(* those the owners raise: three builders, on three ranks, number rows and *)
(* flags alike; and as "the gate ... is monotone in tile index", the walk  *)
(* of the push list never waits behind a later tile than it has reached.   *)
(***************************************************************************)
CombineReversesDispatch == AllPlanned => PushReversesDispatch /\ FlagSpacesAgree
=============================================================================

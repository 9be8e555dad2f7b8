---------------------------- MODULE MCGemmSm100 ----------------------------
(***************************************************************************)
(* Kernel variants of GemmSm100 for TLC.                                   *)
(***************************************************************************)
EXTENDS GemmSm100

Variant(ctas, gather, hasC, sf, varlenK, kTiles) ==
  [ctas |-> ctas, gather |-> gather, tmaGather |-> FALSE, hasC |-> hasC,
   overlapSf |-> sf > 0, sfCols |-> sf, varlenK |-> varlenK, kTiles |-> kTiles]

\* One CTA: C and an empty k, overlapped scale factors, both gathers, and a CTA
\* without work.  Two CTAs: plain, and a gather of rows that must be relayed.
Variants ==
  {Variant(1, "none", TRUE, 0, TRUE, <<2, 0, 1>>),
   Variant(1, "none", TRUE, 3, FALSE, <<1, 2, 1, 1>>),
   Variant(1, "k", FALSE, 0, TRUE, <<2, 0, 3>>),
   [Variant(1, "m", FALSE, 0, FALSE, <<1, 1, 1>>) EXCEPT !.tmaGather = TRUE],
   Variant(1, "none", TRUE, 0, FALSE, <<>>),
   Variant(2, "none", FALSE, 1, FALSE, <<1, 1>>),
   Variant(2, "m", FALSE, 0, FALSE, <<3>>)}
=============================================================================

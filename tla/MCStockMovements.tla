--------------------------- MODULE MCStockMovements ---------------------------
(* Instances of StockMovements for TLC. *)
EXTENDS StockMovements, TLC

CONSTANTS
  Sizes,    \* quantities of restocks and removals
  Marks,    \* watermarks of removals, besides none
  Targets   \* quantities holds are adjusted to

MCRequests ==
  [kind : {"restock"}, qty : Sizes, exp : {None}, rid : {None}]
    \cup [kind : {"removal"}, qty : Sizes, exp : Marks \cup {None}, rid : {None}]
    \cup [kind : {"adjust"}, qty : Targets, exp : {None}, rid : Rids]
Symmetry == UNION {Permutations(S) : S \in {Callers, Rids, StockKeys \ AdjustKeys, AdjustKeys \ StockKeys}}

\* Two uses of the shelf: adjusts and a removal judged on its mark on a shelf that
\* stays, and the stock key alone on a shelf that a rename may withdraw.
VARIABLE use
Within ==
  \/ /\ use = "stays" /\ (known => known')
     /\ \A p \in Callers : call'[p] # Idle /\ call'[p].req.kind # "adjust" => call'[p].req.exp # None
  \/ use = "renamed" /\ \A p \in Callers : call'[p].req.kind # "adjust"
MCInit == Init /\ use \in {"stays", "renamed"}
MCNext == Next /\ UNCHANGED use /\ Within
MCSpec == MCInit /\ [][MCNext]_<<vars, use>>
=============================================================================

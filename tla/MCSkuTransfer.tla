---------------------------- MODULE MCSkuTransfer ----------------------------
(* Instances of SkuTransfer for TLC. *)
EXTENDS SkuTransfer, TLC

Symmetry == UNION {Permutations(S) : S \in {Skus, Products, Keys, Movers, Holders}}

\* Two uses of the shelves.  On time: no sku is used again that a product has left.  Late:
\* two products one after the other on a sku, one rename, and units that reach a shelf
\* already left.
VARIABLE use
CONSTANTS a, s1  \* the product that starts with a sku, and the sku
Within ==
  \/ use = "on time" /\ ~late
  \/ /\ use = "late"
     /\ Cardinality(used) <= 1 /\ supply <= 1
     /\ Cardinality({s \in Skus : known[s]}) <= 2
MCInit == Init /\ skuOf[a] = s1 /\ use \in {"on time", "late"}
MCNext == Next /\ UNCHANGED use /\ Within'
MCSpec == MCInit /\ [][MCNext]_<<vars, use>> /\ Fairness
=============================================================================

----------------------------- MODULE MCInventory -----------------------------
(* Instances of Inventory for TLC. *)
EXTENDS Inventory, TLC

CONSTANTS Demand  \* the quantity each request asks for

\* Every key may be presented with every quantity in Demand, for every sku.
MCRequests == [sku : Skus, qty : Demand, key : Keys]
Symmetry == Permutations(Callers) \cup Permutations(Keys) \cup Permutations(Ids)
              \cup Permutations(Orders)

\* Two uses of the shelves, each small enough to explore: two keys that compete for
\* one unit, and one key whose hold is adopted, adjusted and settled in every way.
VARIABLE use
InUse == {k \in Keys : \/ keyDoc[k].state # "absent"
                       \/ \E p \in Callers : call[p].key = k}
Within ==
  \/ /\ use = "keys"
     /\ \A p \in Callers : call[p].op \in {"none", "reserve", "commit", "release"}
                             /\ call[p].qty <= 1
     /\ \A s \in Skus : supply[s] <= 1 /\ \A k \in Keys : hold[s][k].qty <= 1
  \/ /\ use = "one"
     /\ Cardinality(InUse) <= 1

MCInit == Init /\ use \in {"keys", "one"}
MCNext == Next /\ UNCHANGED use /\ Within'
MCSpec == MCInit /\ [][MCNext]_<<vars, use>>
=============================================================================

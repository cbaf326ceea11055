----------------------------- MODULE MCOrderHolds -----------------------------
(* Instances of OrderHolds for TLC. *)
EXTENDS OrderHolds, TLC

CONSTANTS Uses  \* which of the uses below the run explores

Symmetry == Permutations(Callers) \cup Permutations(Ids) \cup Permutations(Orders \ Offline)

\* Each behaviour keeps to one use of the cart, small enough to explore whole.
VARIABLE use
InUse == {p \in Callers : call[p] # Idle}
Doing(op) == Cardinality({p \in Callers : call[p].op = op})
Only(ops, orders) == \A p \in InUse : call[p].op \in ops /\ call[p].o \in orders
Unmoved == \A o \in Orders : doc[o].st \notin {"processing", "shipped"}

Within ==
  \* two tabs check one cart out, are paid and expire
  \/ use = "race" /\ Only({"checkout", "settle", "expire"}, Orders \ Offline) /\ Unmoved
  \* one order is swept while the other checks out
  \/ /\ use = "swept"
     /\ Only({"checkout", "sweep", "settle"}, Orders \ Offline)
     /\ Doing("checkout") <= 1 /\ Doing("sweep") <= 1 /\ Unmoved
  \* everything that can happen to one order
  \/ /\ use = "one"
     /\ \E o \in Orders \ Offline :
          /\ Only({"checkout", "settle", "expire", "cancel", "abandon", "sweep"}, {o})
          /\ \A q \in Orders \ {o} : doc[q].st = "absent"
  \* an order paid on delivery
  \/ use = "cash" /\ Only({"checkout", "cash", "auto", "cancel", "sweep"}, Offline)

MCInit == Init /\ use \in Uses
MCNext == Next /\ UNCHANGED use /\ Within'
MCSpec == MCInit /\ [][MCNext]_<<vars, use>>
=============================================================================

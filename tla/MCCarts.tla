-------------------------------- MODULE MCCarts --------------------------------
(* Instances of Carts for TLC. *)
EXTENDS Carts, TLC

\* Bounds on the calls of a behaviour and on its crashes, and what the calls may be.
CONSTANTS Uses
VARIABLES use, calls, crashes

Use(ops, keys, callsMax, crashesMax) ==
  [ops |-> ops, keys |-> keys, calls |-> callsMax, crashes |-> crashesMax]

\* Two tabs add and are swept; two tabs change a line; a line ends in every way.
MCUses == {Use({"add", "sweep"}, 2, 4, 1), Use({"add", "update", "remove"}, 3, 4, 1),
           Use({"add", "update", "remove", "get", "sweep", "renew", "checkout"}, 2, 4, 0)}

Symmetry == Permutations(Callers) \cup Permutations(Keys)

Starting == {p \in Callers : call[p] = NoCall /\ call'[p] # NoCall}
Within ==
  /\ \A p \in Starting : call'[p].op \in use.ops
  /\ Cardinality({k \in Keys : req'[k] # NoRequest}) <= use.keys
  /\ calls' <= use.calls

MCInit == CartsInit /\ use \in Uses /\ calls = 0 /\ crashes = 0
MCNext ==
  /\ UNCHANGED use
  /\ \/ /\ \E p \in Callers : Shop(p) \/ List(p) \/ Step(p)
        /\ UNCHANGED crashes
     \/ World /\ UNCHANGED crashes
     \/ /\ crashes < use.crashes
        /\ \E p \in Callers : CallCrash(p)
        /\ crashes' = crashes + 1
  /\ calls' = calls + Cardinality(Starting)
  /\ Within
MCSpec == MCInit /\ [][MCNext]_<<cartsVars, use, calls, crashes>>
=============================================================================

---------------------------- MODULE MCSkuOwners ----------------------------
(* Instances of SkuOwners for TLC. *)
EXTENDS SkuOwners, TLC

CONSTANTS a, b, s1, s2, k1, k2

Cmd(op, p, want, key) == [op |-> op, p |-> p, want |-> want, key |-> key]

\* Product a is saved, renamed and renamed back, deleted, restored and swept; product b is
\* saved on the sku a may have left, may be leaving or may be coming back to.
MCCommands ==
  {Cmd("upsert", a, s1, k1), Cmd("edit", a, s2, k2),
   Cmd("softDelete", a, None, None), Cmd("restore", a, None, None), Cmd("sweep", a, None, None),
   Cmd("upsert", b, s1, k1)}

\* Nothing else finds anything to do on a product that is not there.
MCOpenings == {Cmd("upsert", a, s1, k1)}

Symmetry == Permutations(Calls)
=============================================================================

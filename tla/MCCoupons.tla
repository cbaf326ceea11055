------------------------------ MODULE MCCoupons ------------------------------
(* Instances of Coupons for TLC. *)
EXTENDS Coupons, TLC

CONSTANT ann

\* Every key is the same customer's.
OneBuyer == [k \in Keys |-> ann]
\* Two uses, one of them for the customer; one use, that a customer below the cap may miss;
\* one use and no cap for the customer.
SomeLimits ==
  {[max |-> 2, cap |-> 1], [max |-> 1, cap |-> 2], [max |-> 1, cap |-> None]}
Symmetry == Permutations(Keys) \cup Permutations(Callers)

\* Released keys are redeemed again where a use too many goes over the coupon's cap.
Within == coupon.cap = 2 \/ reuses = 0
MCNext == Next /\ Within'
MCSpec == Init /\ [][MCNext]_vars
=============================================================================

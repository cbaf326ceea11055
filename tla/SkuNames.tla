------------------------------ MODULE SkuNames ------------------------------
(***************************************************************************)
(* What SkuTransfer and SkuOwners call by the same names: the skus, the    *)
(* products that sell under them, and the idempotency keys of the commands *)
(* that give a product its sku.                                            *)
(***************************************************************************)

CONSTANTS
  Skus,
  Products,
  Keys,  \* idempotency keys of commands; a rename's is used once
  None

ASSUME NoneAssumption == None \notin Skus \cup Products \cup Keys
=============================================================================

--------------------------- MODULE MCInventoryLive ---------------------------
(* Instance of InventoryLive for TLC: every key presented for every sku, one unit each. *)
EXTENDS InventoryLive

MCRequests == [sku : Skus, qty : {1}, key : Keys]
=============================================================================

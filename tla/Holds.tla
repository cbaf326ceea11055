--------------------------------- MODULE Holds ---------------------------------
(***************************************************************************)
(* What the inventory promises of a reservation: the life of its units.    *)
(*                                                                         *)
(* Taken from the shelf once, the units are held; at most one order adopts *)
(* the hold; they are sold, or go back once.  An adopted hold goes back    *)
(* only while its order, or someone who asks for nobody in particular, is  *)
(* asking.  Units nobody adopted may still go back after a sale was        *)
(* recorded: a cart's release and a commit that both found them held (the  *)
(* release then throws ReservationReleaseLostError).                       *)
(*                                                                         *)
(* Inventory implements this; OrderHolds moves units by these steps.       *)
(***************************************************************************)

CONSTANTS Ids, Orders, None

VARIABLES
  unit,    \* the units of each reservation, and the order that adopted them
  asking   \* who is asking for each reservation's units to go back: the input

Unit == [st : {"none", "held", "sold", "back"}, owner : Orders \cup {None}]

Take(r) ==
  /\ unit[r].st = "none"
  /\ unit' = [unit EXCEPT ![r].st = "held"]

Adopt(r, o) ==
  /\ unit[r].st # "none"
  /\ unit[r].owner = None
  /\ unit' = [unit EXCEPT ![r].owner = o]

Sell(r) ==
  /\ unit[r].st = "held"
  /\ unit' = [unit EXCEPT ![r].st = "sold"]

GiveBack(r) ==
  /\ unit[r].st = "held" \/ (unit[r].st = "sold" /\ unit[r].owner = None)
  /\ unit[r].owner = None \/ asking[r] \cap {unit[r].owner, None} # {}
  /\ unit' = [unit EXCEPT ![r].st = "back"]

Init == unit = [r \in Ids |-> [st |-> "none", owner |-> None]]

Next ==
  \E r \in Ids :
    \/ Take(r)
    \/ \E o \in Orders : Adopt(r, o)
    \/ Sell(r)
    \/ GiveBack(r)

Spec == Init /\ [][Next]_unit
=============================================================================

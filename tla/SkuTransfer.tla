----------------------------- MODULE SkuTransfer -----------------------------
(***************************************************************************)
(* The stock carry of a sku rename:                                        *)
(* packages/store-emdash/src/sku-stock-transfer.ts, run by the settle      *)
(* half of emdash-product-commerce-store.ts and by the sweep's completer.  *)
(*                                                                         *)
(* The product document commits the new sku together with a record of the  *)
(* units still to be moved.  Any number of movers then work from that      *)
(* record: one write zeroes the source and stamps the intent on it, one    *)
(* adds the units to the target unless its ring of tokens knows them, one  *)
(* drops the stamp, one drops the record, one releases the source sku.     *)
(***************************************************************************)
EXTENDS Integers, FiniteSets, SkuNames

CONSTANTS
  Movers,     \* calls in flight: a committed write, the next write, a sweep
  Holders,    \* reservations, of one unit each
  MaxUnits    \* bound on the units that ever enter the system

ASSUME BoundAssumption == MaxUnits \in Nat

VARIABLES
  skuOf,    \* product_commerce/{p}.sku
  records,  \* product_commerce/{p}.pendingRenames, of every product
  owner,    \* sku_owners/{sku}: the product whose live claim it is
  known,    \* inventory/{sku} exists
  onHand,   \* its count
  holdOf,   \* its live holds: where each reservation holds a unit
  spent,    \* the reservations that have reached a terminal state
  stamp,    \* its transferOut
  ring,     \* its appliedTransfers (Cardinality(Keys) is below the ring's bound)
  mover,    \* what each call is doing
  \* History, read by no action of the code:
  used,     \* keys already presented
  supply,   \* units that ever entered
  sold,     \* units that left with a committed reservation
  late      \* whether a sku that a product had left was used again: restocked, or taken up

product == <<skuOf, records>>
shelf == <<known, onHand, holdOf, spent, stamp, ring>>
history == <<used, supply, sold, late>>
vars == <<product, owner, shelf, mover, history>>

\* skuTransferToken: the command key and both skus.
Token == [by : Products, key : Keys, from : Skus, to : Skus]
NoToken == [by |-> None, key |-> None, from |-> None, to |-> None]
NoStamp == [token |-> NoToken, qty |-> 0]
Mover == [at : {"idle", "stamp", "apply", "clear", "drop", "release"},
          token : Token \cup {NoToken},
          qty : Nat,
          then : {"drop", "stamp", "idle"},   \* what follows the clear
          outer : Token \cup {NoToken}]       \* the carry to go back to
Idle == [at |-> "idle", token |-> NoToken, qty |-> 0, then |-> "idle", outer |-> NoToken]

LiveHolds(s) == {h \in Holders : holdOf[h] = s}
Goto(m, at) == mover' = [mover EXCEPT ![m].at = at]
Return(m) == mover' = [mover EXCEPT ![m] = Idle]
Move(m, t) == mover' = [mover EXCEPT ![m] = [Idle EXCEPT !.at = "stamp", !.token = t,
                                                         !.then = "drop"]]

-----------------------------------------------------------------------------
(* Where movers come from *)

Record(t) == records' = records \cup {t}

\* An applying write that renames: nothing owed, the target claimed and created, and the
\* record committed with the new sku.  A hold may have landed on the source since it was
\* looked at.
Commit(m, p, key, to) ==
  LET t == [by |-> p, key |-> key, from |-> skuOf[p], to |-> to] IN
  /\ mover[m] = Idle /\ key \notin used
  /\ skuOf[p] \notin {None, to} /\ {r \in records : r.by = p} = {}
  /\ owner[to] = None /\ ~known[to]
  /\ skuOf' = [skuOf EXCEPT ![p] = to]
  /\ Record(t)
  /\ owner' = [owner EXCEPT ![to] = p]
  /\ known' = [known EXCEPT ![to] = TRUE]
  /\ used' = used \cup {key}
  /\ Move(m, t)
  /\ UNCHANGED <<onHand, holdOf, spent, stamp, ring, supply, sold, late>>

\* #settleRecorded: the next write on the product, or the sweep, takes up a record it read.
Settle(m, t) ==
  /\ mover[m] = Idle /\ t \in records
  /\ Move(m, t)
  /\ UNCHANGED <<product, owner, shelf, history>>

\* What a completion of the stamp on s works on.
Completing(m, s, then, outer) ==
  mover' = [mover EXCEPT ![m] = [at |-> "apply", token |-> stamp[s].token, qty |-> stamp[s].qty,
                                 then |-> then, outer |-> outer]]

\* completePending, on its own: finish whatever is stamped on a source.
Complete(m, s) ==
  /\ mover[m] = Idle /\ stamp[s] # NoStamp
  /\ Completing(m, s, "idle", NoToken)
  /\ UNCHANGED <<product, owner, shelf, history>>

-----------------------------------------------------------------------------
(* SkuStockTransfer.move and what its callers do after it *)

Blocked(s) == LiveHolds(s) # {}

\* Mutant of StayOwed: the source sku is released although its units have not moved.
OweAndRelease(m) == Goto(m, "release")

\* SkuHeldStockError: the record stays, and the claim on the source with it.
StayOwed(m) == Return(m)

\* Mutant of NothingToMove: an empty source is taken for a carry still owed.
EmptyStaysOwed(m) == Return(m)

NothingToMove(m) == Goto(m, "drop")

\* Mutant of Take: the source is zeroed, and the intent left to a later write.
TakeUnstamped(m, s) ==
  /\ onHand' = [onHand EXCEPT ![s] = 0]
  /\ mover' = [mover EXCEPT ![m].at = "apply", ![m].qty = onHand[s]]
  /\ UNCHANGED stamp

\* One write zeroes the source and records the intent.
Take(m, s) ==
  /\ onHand' = [onHand EXCEPT ![s] = 0]
  /\ stamp' = [stamp EXCEPT ![s] = [token |-> mover[m].token, qty |-> onHand[s]]]
  /\ mover' = [mover EXCEPT ![m].at = "apply", ![m].qty = onHand[s]]

\* #stampSource
Stamp(m) ==
  LET t == mover[m].token
      s == t.from
  IN
  /\ mover[m].at = "stamp"
  /\ \/ /\ stamp[s] # NoStamp /\ stamp[s].token = t    \* this carry, taken up again
        /\ mover' = [mover EXCEPT ![m].at = "apply", ![m].qty = stamp[s].qty]
        /\ UNCHANGED <<onHand, stamp>>
     \/ /\ stamp[s] # NoStamp /\ stamp[s].token # t    \* an earlier carry goes first
        /\ Completing(m, s, "stamp", t)
        /\ UNCHANGED <<onHand, stamp>>
     \/ /\ stamp[s] = NoStamp /\ Blocked(s)
        /\ StayOwed(m)
        /\ UNCHANGED <<onHand, stamp>>
     \/ /\ stamp[s] = NoStamp /\ ~Blocked(s) /\ onHand[s] = 0
        /\ NothingToMove(m)
        /\ UNCHANGED <<onHand, stamp>>
     \/ /\ stamp[s] = NoStamp /\ ~Blocked(s) /\ onHand[s] > 0
        /\ Take(m, s)
  /\ UNCHANGED <<product, owner, known, holdOf, spent, ring, history>>

\* Mutant of Apply: the ring is not asked whether the units have landed.
ApplyAgain(m) ==
  LET t == mover[m].token IN
  /\ mover[m].at = "apply"
  /\ onHand' = [onHand EXCEPT ![t.to] = @ + mover[m].qty]
  /\ ring' = [ring EXCEPT ![t.to] = @ \cup {t}]
  /\ known' = [known EXCEPT ![t.to] = TRUE]
  /\ Goto(m, "clear")
  /\ UNCHANGED <<product, owner, holdOf, spent, stamp, history>>

\* #applyToTarget, on a document removed in the meantime too: the units are added unless the
\* target's ring knows the token.
Apply(m) ==
  LET t == mover[m].token IN
  /\ mover[m].at = "apply"
  /\ onHand' = IF t \in ring[t.to] THEN onHand
               ELSE [onHand EXCEPT ![t.to] = @ + mover[m].qty]
  /\ ring' = [ring EXCEPT ![t.to] = @ \cup {t}]
  /\ known' = [known EXCEPT ![t.to] = TRUE]
  /\ Goto(m, "clear")
  /\ UNCHANGED <<product, owner, holdOf, spent, stamp, history>>

\* #clearSource: the stamp goes, if it is still this carry's.
Clear(m) ==
  LET t == mover[m].token
      n == mover[m].then
  IN
  /\ mover[m].at = "clear"
  /\ stamp' = IF stamp[t.from].token = t THEN [stamp EXCEPT ![t.from] = NoStamp] ELSE stamp
  /\ \/ n = "idle" /\ Return(m)
     \/ n = "drop" /\ Goto(m, "drop")
     \/ n = "stamp" /\ Move(m, mover[m].outer)
  /\ UNCHANGED <<product, owner, known, onHand, holdOf, spent, ring, history>>

\* Mutant of Drop: the sku is freed before its record goes.
DropLate(m) ==
  mover[m].at = "drop" /\ Goto(m, "release") /\ UNCHANGED <<product, owner, shelf, history>>

\* #clearProductStamp: the record goes.
Drop(m) ==
  /\ mover[m].at = "drop"
  /\ records' = records \ {mover[m].token}
  /\ Goto(m, "release")
  /\ UNCHANGED <<skuOf, owner, shelf, history>>

\* #releaseSku: the source sku is free again.
Release(m) ==
  LET t == mover[m].token IN
  /\ mover[m].at = "release"
  /\ owner' = IF owner[t.from] = t.by THEN [owner EXCEPT ![t.from] = None] ELSE owner
  /\ Return(m)
  /\ UNCHANGED <<product, shelf, history>>

\* The process dies.
Crash(m) ==
  /\ mover[m] # Idle
  /\ Return(m)
  /\ UNCHANGED <<product, owner, shelf, history>>

-----------------------------------------------------------------------------
(* The rest of the store *)

\* A product without a sku is given its first one, and adopts the stock it finds.
FirstSku(p, s) ==
  /\ skuOf[p] = None /\ owner[s] = None /\ known[s]
  /\ skuOf' = [skuOf EXCEPT ![p] = s]
  /\ owner' = [owner EXCEPT ![s] = p]
  /\ late' = TRUE
  /\ UNCHANGED <<records, shelf, mover, used, supply, sold>>

Left(s) == \A p \in Products : skuOf[p] # s

\* A restock of a sku, by the merchant or by the cancellation of an order.
Restock(s) ==
  /\ known[s] /\ supply < MaxUnits
  /\ onHand' = [onHand EXCEPT ![s] = @ + 1]
  /\ supply' = supply + 1
  /\ late' = (late \/ Left(s))
  /\ UNCHANGED <<product, owner, known, holdOf, spent, stamp, ring, mover, used, sold>>

\* Mutant of Reserve: the count is not looked at.
ReserveUnchecked(h, s) ==
  /\ holdOf[h] = None /\ h \notin spent /\ known[s]
  /\ onHand' = [onHand EXCEPT ![s] = @ - 1]
  /\ holdOf' = [holdOf EXCEPT ![h] = s]
  /\ UNCHANGED <<product, owner, known, spent, stamp, ring, mover, history>>

\* The aggregate write of a reserve.
Reserve(h, s) ==
  /\ holdOf[h] = None /\ h \notin spent /\ known[s] /\ onHand[s] > 0
  /\ onHand' = [onHand EXCEPT ![s] = @ - 1]
  /\ holdOf' = [holdOf EXCEPT ![h] = s]
  /\ UNCHANGED <<product, owner, known, spent, stamp, ring, mover, history>>

\* A reservation is released, or committed.
Resolve(h, back) ==
  LET s == holdOf[h] IN
  /\ s # None
  /\ holdOf' = [holdOf EXCEPT ![h] = None]
  /\ spent' = spent \cup {h}
  /\ onHand' = IF back THEN [onHand EXCEPT ![s] = @ + 1] ELSE onHand
  /\ sold' = IF back THEN sold ELSE sold + 1
  /\ UNCHANGED <<product, owner, known, stamp, ring, mover, used, supply, late>>

-----------------------------------------------------------------------------
\* One product has a stocked sku; the others have none yet.
Init ==
  \E p \in Products, s \in Skus :
    /\ skuOf = [q \in Products |-> IF q = p THEN s ELSE None]
    /\ owner = [x \in Skus |-> IF x = s THEN p ELSE None]
    /\ known = [x \in Skus |-> x = s]
    /\ \E n \in 0..MaxUnits : onHand = [x \in Skus |-> IF x = s THEN n ELSE 0] /\ supply = n
    /\ records = {}
    /\ holdOf = [h \in Holders |-> None]
    /\ spent = {}
    /\ stamp = [x \in Skus |-> NoStamp]
    /\ ring = [x \in Skus |-> {}]
    /\ mover = [m \in Movers |-> Idle]
    /\ used = {}
    /\ sold = 0
    /\ late = FALSE

Step(m) == Stamp(m) \/ Apply(m) \/ Clear(m) \/ Drop(m) \/ Release(m)

Next ==
  \/ \E m \in Movers : Step(m) \/ Crash(m)
  \/ \E m \in Movers, p \in Products, key \in Keys, to \in Skus : Commit(m, p, key, to)
  \/ \E m \in Movers : (\E t \in records : Settle(m, t)) \/ (\E s \in Skus : Complete(m, s))
  \/ \E p \in Products, s \in Skus : FirstSku(p, s)
  \/ \E s \in Skus : Restock(s)
  \/ \E h \in Holders : (\E s \in Skus : Reserve(h, s)) \/ Resolve(h, TRUE) \/ Resolve(h, FALSE)

Spec == Init /\ [][Next]_vars

-----------------------------------------------------------------------------
(* Properties *)

\* The documents and the calls have the shapes the code gives them.
TypeOK ==
  /\ skuOf \in [Products -> Skus \cup {None}]
  /\ records \subseteq Token
  /\ owner \in [Skus -> Products \cup {None}]
  /\ known \in [Skus -> BOOLEAN]
  /\ onHand \in [Skus -> Nat]
  /\ holdOf \in [Holders -> Skus \cup {None}] /\ spent \subseteq Holders
  /\ stamp \in [Skus -> [token : Token \cup {NoToken}, qty : Nat]]
  /\ ring \in [Skus -> SUBSET Token]
  /\ mover \in [Movers -> Mover]
  /\ used \subseteq Keys /\ supply \in Nat /\ sold \in Nat /\ late \in BOOLEAN

\* Units between the two shelves: a stamp's, until its target's ring knows the token.
InFlight(s) ==
  IF stamp[s] = NoStamp \/ stamp[s].token \in ring[stamp[s].token.to] THEN 0 ELSE stamp[s].qty

OnShelves == UNION {{s} \X (1..onHand[s]) : s \in Skus}
InTheAir == UNION {{s} \X (1..InFlight(s)) : s \in Skus}
Counted == Cardinality(OnShelves) + Cardinality(InTheAir)
             + Cardinality({h \in Holders : holdOf[h] # None}) + sold

\* The sweep finds every stamp: it looks only where a product still records the carry.
StampsAreFindable == \A s \in Skus : stamp[s] # NoStamp => stamp[s].token \in records

\* Whoever is still at work, no unit is, or will come back, under a sku nobody sells, but
\* where a carry from it is recorded.
NothingStranded ==
  \A s \in Skus : Left(s) /\ (\A t \in records : t.from # s) =>
    onHand[s] = 0 /\ LiveHolds(s) = {}

\* No rename, however many movers work on it and wherever they die, makes a unit: a carry
\* is never credited from units that were not taken, even where late units meet a mover that
\* was slow.  Nor does it lose one, as long as no sku is used again that a product has left:
\* every unit that entered is on a shelf, between two, in a hold, or sold.
CarriesLoseNothing ==
  /\ Counted <= supply
  /\ ~late => Counted = supply /\ StampsAreFindable /\ NothingStranded

\* While a product owes the units of a sku it has left, that sku is nobody else's.
OwedSkuIsKept == \A t \in records : owner[t.from] = t.by

\* Every recorded carry is settled, whatever crashes, as long as the sweep's rotation keeps
\* coming and does not die at the same step for ever, and reservations come to an end.
Fairness ==
  /\ \A m \in Movers : /\ SF_vars(Stamp(m)) /\ SF_vars(Apply(m)) /\ SF_vars(Clear(m))
                       /\ SF_vars(Drop(m)) /\ SF_vars(\E t \in records : Settle(m, t))
  /\ \A h \in Holders : WF_vars(Resolve(h, TRUE) \/ Resolve(h, FALSE))
LiveSpec == Spec /\ Fairness
CarriesSettle == []<>(records = {})

-----------------------------------------------------------------------------
(* Why an owed sku is kept: an inductive invariant *)

\* The carries somebody still means to finish: those recorded, and those a call will drop
\* and release.
Working(m) == IF mover[m].then = "drop" THEN {mover[m].token}
              ELSE IF mover[m].then = "stamp" THEN {mover[m].outer} ELSE {}
Pending == records \cup UNION {Working(m) : m \in Movers}

MoversAgree ==
  /\ \A s \in Skus : stamp[s] # NoStamp => stamp[s].token \in Token
  /\ \A m \in Movers :
       /\ mover[m].at = "idle" => mover[m].then = "idle"
       /\ mover[m].at # "idle" => mover[m].token \in Token
       /\ mover[m].then = "stamp" => mover[m].outer \in Token
       /\ mover[m].at \in {"stamp", "drop", "release"} => mover[m].then = "drop"

\* A product owns the sku it is on; one that has left a sku never comes back to it, so
\* that its carries differ in their source.
LeftForGood ==
  /\ \A p \in Products : skuOf[p] # None => owner[skuOf[p]] = p /\ known[skuOf[p]]
  /\ \A t \in Pending : t.key \in used /\ known[t.from] /\ skuOf[t.by] \notin {None, t.from}
  /\ \A t, u \in Pending : t.by = u.by /\ t.from = u.from => t = u

\* A call frees a source only once the record of its carry is gone.
DroppedFirst == \A m \in Movers : mover[m].at = "release" => mover[m].token \notin records

IInv == TypeOK /\ MoversAgree /\ LeftForGood /\ DroppedFirst /\ OwedSkuIsKept

(* Why units are not lost: a second invariant, under the first. *)

\* A stamp is on the source of its carry; who applies a carry finds it stamped or landed,
\* and who clears one finds it landed.
CarriesAgree ==
  /\ \A s \in Skus : stamp[s] # NoStamp => stamp[s].token.from = s
  /\ \A m \in Movers :
       LET t == mover[m].token IN
       /\ mover[m].at = "apply" => \/ t \in ring[t.to]
                                  \/ stamp[t.from] = [token |-> t, qty |-> mover[m].qty]
       /\ mover[m].at = "clear" => t \in ring[t.to]

\* A record is of the rename that gave the product its sku.
RecordsAreCurrent == \A t \in records : skuOf[t.by] = t.to

\* A sku that was left and emptied, and where nothing arrives any more.
Emptied(s) == known[s] /\ Left(s) /\ onHand[s] = 0 /\ LiveHolds(s) = {}

OnTime ==
  /\ \A p, q \in Products : skuOf[p] # None /\ skuOf[q] # None => p = q
  /\ StampsAreFindable /\ NothingStranded
  /\ \A s \in Skus : stamp[s] # NoStamp => Emptied(s)
  /\ \A s \in Skus : \A t \in ring[s] : Emptied(t.from)
  /\ \A m \in Movers : mover[m].at \in {"drop", "release"} =>
       Emptied(mover[m].token.from) /\ stamp[mover[m].token.from] = NoStamp

Balance ==
  /\ IsFiniteSet(OnShelves) /\ IsFiniteSet(InTheAir)
  /\ IsFiniteSet({h \in Holders : holdOf[h] # None})
  /\ Counted <= supply /\ (~late => Counted = supply)

Carried == CarriesAgree /\ RecordsAreCurrent /\ (~late => OnTime) /\ Balance
=============================================================================

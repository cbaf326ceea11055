------------------------------ MODULE OrderHolds ------------------------------
(***************************************************************************)
(* Orders and the holds they claim: checkout, settlement, expiry,          *)
(* cancellation, shipping and the hold-intent sweep, over the inventory    *)
(* that Holds describes.  store-emdash/src/emdash-order-store.ts and       *)
(* domain/src/orders/.                                                     *)
(*                                                                         *)
(* All the orders are of ONE cart: a second tab with its own checkout key  *)
(* passes the cart's fence until the first order is stamped on it, so      *)
(* every order has the cart's lines (Ids).  An order document and a        *)
(* reservation's aggregate are different documents; a flip of the order    *)
(* records the adoption, commit or release it owes (an intent) in its own  *)
(* write, and pays it after.  Whoever does that may die (Crash), and the   *)
(* sweep finishes it.  A guarded flip, #casOrder's read and write, is one  *)
(* action; a read that a later action acts on is another.                  *)
(***************************************************************************)
EXTENDS Integers, FiniteSets

CONSTANTS
  Orders,    \* the orders of the cart, one per checkout key
  Ids,       \* the reservations of its lines
  Offline,   \* the orders paid on delivery
  Callers,   \* concurrent calls in flight
  None

Ops == {"checkout", "settle", "cash", "expire", "cancel", "abandon", "auto", "sweep"}

ASSUME NoneAssumption == None \notin Orders
ASSUME OfflineAssumption == Offline \subseteq Orders

VARIABLES
  doc,       \* the order documents
  unit,      \* the units of each reservation: see Holds
  cart,      \* the order the cart was handed to, None while it is active
  payable,   \* the orders a payment intent was ever minted for
  restocked, \* the keyed restocks the inventory has done: <<order, reservation>>
  call,      \* what each caller is doing
  cut,       \* history: orders an adopting call died for before it undid or kept it
  early      \* history: orders marked paid by hand before their checkout placed them

vars == <<doc, unit, cart, payable, restocked, call, cut, early>>

-----------------------------------------------------------------------------
(* Shapes *)

Dead   == {"expired", "cancelled"}              \* RELEASES_ADOPTED_HOLDS
Bought == {"paid", "processing", "shipped"}
States == {"absent", "claimed", "pending", "awaiting"} \cup Bought \cup Dead
Intent == {"none", "open", "done"}

Doc == [st : States, adopt : Intent, commit : Intent, release : Intent,
        owed : SUBSET Ids,   \* cancellation.restockPending
        by : {"nobody", "operator", "shopper", "auto"},  \* cancellation.cancelledBy
        flag : BOOLEAN]      \* reconciliationFlag
NoDoc == [st |-> "absent", adopt |-> "none", commit |-> "none", release |-> "none",
          owed |-> {}, by |-> "nobody", flag |-> FALSE]

Steps == {"idle", "fence", "claim", "create", "adopt", "reread", "giveUp", "complete",
          "release", "undo", "stampRelease", "stamp", "recheck", "mint", "place", "pay",
          "resolve", "sell", "read", "drop", "close", "owed", "restock", "stampAdopt",
          "commit", "stampCommit", "report"}
Call == [at : Steps, op : Ops \cup {"none"}, o : Orders \cup {None},
         from : States,         \* the state the flip is pinned to
         todo : SUBSET Ids,     \* reservations still to be looked at
         open : SUBSET Ids,     \* singular commit: found open, not yet written
         lost : SUBSET Ids,     \* reservations found gone
         short : SUBSET {"adopt", "commit"}]  \* sweep: the intents that lost some
Idle == [at |-> "idle", op |-> "none", o |-> None, from |-> "absent", todo |-> {},
         open |-> {}, lost |-> {}, short |-> {}]

H == INSTANCE Holds WITH asking <- [r \in Ids |-> {call[p].o : p \in Callers}]

-----------------------------------------------------------------------------
(* Shared steps *)

At(p, at) == call[p].at = at
Going(p, op, o, at) == [Idle EXCEPT !.op = op, !.o = o, !.at = at]
Goto(p, at)     == call' = [call EXCEPT ![p].at = at]
Each(p, at)     == call' = [call EXCEPT ![p].at = at, ![p].todo = Ids, ![p].lost = {}]
Return(p)       == call' = [call EXCEPT ![p] = Idle]
Put(o, d)       == doc' = [doc EXCEPT ![o] = d]

\* #flip's state and the intent it records.
Flipped(d, to) ==
  [d EXCEPT !.st = to,
            !.commit = IF to = "paid" THEN "open" ELSE @,
            !.release = IF to \in Dead THEN "open" ELSE @]

Adopting(p, c) == call' = [call EXCEPT ![p] = [c EXCEPT !.at = "adopt", !.todo = Ids]]

Holding(o, r) == unit[r] = [st |-> "held", owner |-> o]

rest  == <<cart, payable, restocked, cut, early>>
quiet == <<doc, unit, rest>>

-----------------------------------------------------------------------------
(* Checkout: create-order-from-cart.ts *)

\* #resolveKey completes the claim of a call that died after it.
Born(d) == IF d.st = "claimed" THEN [d EXCEPT !.st = "pending", !.adopt = "open"] ELSE d

\* The replay short-circuit, getByIdempotencyKey: a pending order is finished, one that
\* has left the checkout window is answered as it is.
Checkout(p, o) ==
  /\ call[p] = Idle
  /\ \/ /\ doc[o].st = "absent"
        /\ call' = [call EXCEPT ![p] = Going(p, "checkout", o, "fence")]
        /\ UNCHANGED doc
     \/ /\ doc[o].st \in {"claimed", "pending"}
        /\ Put(o, Born(doc[o]))
        /\ Adopting(p, Going(p, "checkout", o, "adopt"))
  /\ UNCHANGED <<unit, rest>>

\* The cart-state fence: a cart already handed to an order mints no second one.
Fence(p) ==
  /\ At(p, "fence")
  /\ IF cart = None THEN Goto(p, "claim") ELSE Return(p)
  /\ UNCHANGED quiet

\* createFromCart: the key is claimed with the whole order, or resolved as a replay.
Claim(p) ==
  LET c == call[p]
      o == c.o
  IN
  /\ At(p, "claim")
  /\ IF doc[o].st = "absent"
     THEN Put(o, [doc[o] EXCEPT !.st = "claimed"]) /\ Goto(p, "create")
     ELSE Put(o, Born(doc[o])) /\ Adopting(p, c)
  /\ UNCHANGED <<unit, rest>>

\* #finishClaim: the order document, with the adoption it owes.
Create(p) ==
  LET c == call[p] IN
  /\ At(p, "create")
  /\ Put(c.o, Born(doc[c.o]))
  /\ Adopting(p, c)
  /\ UNCHANGED <<unit, rest>>

\* Mutant of Adopt: a hold another order adopted is adopted again.
AdoptAny(p) ==
  LET c == call[p] IN
  /\ At(p, "adopt")
  /\ \E r \in c.todo :
       /\ IF unit[r].st = "held"
          THEN unit' = [unit EXCEPT ![r].owner = c.o] ELSE UNCHANGED unit
       /\ call' = [call EXCEPT ![p].todo = @ \ {r}, ![p].at = IF c.todo = {r} THEN "reread" ELSE @]
  /\ UNCHANGED <<doc, rest>>

\* adoptMany, one aggregate at a time: a live unadopted hold is adopted, unless it is past
\* its deadline (which the cart may renew); this order's own is a replay, any other is lost.
Adopt(p) ==
  LET c == call[p] IN
  /\ At(p, "adopt")
  /\ \E r \in c.todo :
       LET free == unit[r] = [st |-> "held", owner |-> None] IN
       \E live \in {free, FALSE} :
         /\ IF live THEN H!Adopt(r, c.o) ELSE UNCHANGED unit
         /\ call' = [call EXCEPT
              ![p].todo = @ \ {r},
              ![p].lost = IF live \/ Holding(c.o, r) THEN @ ELSE @ \cup {r},
              ![p].at = IF c.todo = {r} THEN "reread" ELSE @]
  /\ UNCHANGED <<doc, rest>>

\* Mutant of Left: a checkout that finds its order dead gives nothing back.
LeftAsIs(p, o) == Return(p)

\* leftPending: what this call adopted for an order that is dead is given back.
Left(p, o) == IF doc[o].st \in Dead THEN Each(p, "undo") ELSE Return(p)

\* Mutant of Reread: the order is not read again after the adoption.
NoReread(p) ==
  LET c == call[p] IN
  /\ At(p, "reread")
  /\ Goto(p, IF c.op = "sweep" THEN "stampAdopt" ELSE IF c.lost = {} THEN "stamp" ELSE "giveUp")
  /\ UNCHANGED quiet

\* The order is read AFTER the adoption: a flip before it released nothing.
Reread(p) ==
  LET c == call[p]
      st == doc[c.o].st
  IN
  /\ At(p, "reread")
  /\ \/ c.op = "checkout" /\ st # "pending" /\ Left(p, c.o)
     \/ c.op = "checkout" /\ st = "pending" /\ Goto(p, IF c.lost = {} THEN "stamp" ELSE "giveUp")
     \/ c.op = "sweep" /\ st \in Dead /\ Each(p, "undo")
     \/ c.op = "sweep" /\ st = "pending" /\ Goto(p, "stampAdopt")
     \/ c.op = "sweep" /\ st \notin Dead \cup {"pending"}
                       /\ call' = [call EXCEPT ![p].at = "stampAdopt", ![p].lost = {}]
  /\ UNCHANGED quiet

\* A hold is gone: the order can never be paid, and is expired at once.
GiveUp(p) ==
  LET o == call[p].o IN
  /\ At(p, "giveUp")
  /\ IF doc[o].st = "pending"
     THEN Put(o, Flipped(doc[o], "expired")) /\ Goto(p, "complete")
     ELSE Left(p, o) /\ UNCHANGED doc
  /\ UNCHANGED <<unit, rest>>

\* The cart is stamped with its order; the first stamp stays.
Stamp(p) ==
  /\ At(p, "stamp")
  /\ cart' = IF cart = None THEN call[p].o ELSE cart
  /\ Goto(p, "recheck")
  /\ UNCHANGED <<doc, unit, payable, restocked, cut, early>>

Recheck(p) ==
  LET o == call[p].o IN
  /\ At(p, "recheck")
  /\ IF doc[o].st = "pending" THEN Goto(p, "mint") ELSE Left(p, o)
  /\ UNCHANGED quiet

\* createIntent: from here on the buyer can pay; an offline order is placed.
Mint(p) ==
  LET o == call[p].o IN
  /\ At(p, "mint")
  /\ IF o \in Offline THEN Goto(p, "place") /\ UNCHANGED payable
     ELSE Return(p) /\ payable' = payable \cup {o}
  /\ UNCHANGED <<doc, unit, cart, restocked, cut, early>>

Place(p) ==
  LET o == call[p].o IN
  /\ At(p, "place")
  /\ IF doc[o].st = "pending" THEN Put(o, Flipped(doc[o], "awaiting")) ELSE UNCHANGED doc
  /\ Return(p)
  /\ UNCHANGED <<unit, rest>>

-----------------------------------------------------------------------------
(* Settlement: settle-order.ts, and Mark paid of transition.ts *)

\* A verified payment is delivered, any number of times: a pending order is to be
\* paid, a paid one has its side effects driven again.
Settle(p, o) ==
  /\ call[p] = Idle
  /\ o \in payable
  /\ \E at \in {"pay", "resolve"} :
       /\ doc[o].st = IF at = "pay" THEN "pending" ELSE "paid"
       /\ call' = [call EXCEPT ![p] = [Going(p, "settle", o, at) EXCEPT !.from = "pending"]]
  /\ UNCHANGED quiet

\* An operator marks an offline order paid: one that was placed, or one its checkout has
\* not placed yet (offlinePaidTarget admits pending).
Cash(p, o) ==
  /\ call[p] = Idle
  /\ o \in Offline
  /\ doc[o].st \in {"awaiting", "pending"}
  /\ call' = [call EXCEPT ![p] = [Going(p, "cash", o, "pay") EXCEPT !.from = doc[o].st]]
  /\ UNCHANGED quiet

\* markPaid, pinned to the state read; a peer's payment has its side effects driven too.
Pay(p) ==
  LET c == call[p]
      d == doc[c.o]
  IN
  /\ At(p, "pay")
  /\ IF d.st = c.from THEN Put(c.o, Flipped(d, "paid")) ELSE UNCHANGED doc
  /\ IF d.st \in {c.from, "paid"} THEN Goto(p, "resolve") ELSE Return(p)
  /\ early' = IF c.op = "cash" /\ d.st = "pending" THEN early \cup {c.o} ELSE early
  /\ UNCHANGED <<unit, cart, payable, restocked, cut>>

\* commitMany resolves every id before it writes any: one already sold is benign.
\* It does not ask whose hold it is.
Resolve(p) ==
  /\ At(p, "resolve")
  /\ call' = [call EXCEPT ![p].at = "sell",
                          ![p].todo = {r \in Ids : unit[r].st = "held"},
                          ![p].lost = {r \in Ids : unit[r].st = "back"}]
  /\ UNCHANGED quiet

\* The write of a commit whose index read found the hold open.  A peer's commit in
\* between is benign while its prune is to come, and taken for a lost hold after it.
Committed(p, r, sold, lost) ==
  /\ IF unit[r].st = "held" THEN H!Sell(r) ELSE UNCHANGED unit
  /\ \/ unit[r].st # "back" /\ call' = [call EXCEPT ![p] = sold]
     \/ unit[r].st # "held" /\ call' = [call EXCEPT ![p] = lost]

Sell(p) ==
  LET c == call[p] IN
  /\ At(p, "sell")
  /\ \E r \in c.todo :
       Committed(p, r, [c EXCEPT !.todo = @ \ {r}],
                       [c EXCEPT !.todo = @ \ {r}, !.lost = @ \cup {r}])
  /\ UNCHANGED <<doc, rest>>

\* A lost hold under a paid order is never silent.
Tell(p) ==
  LET c == call[p] IN
  /\ At(p, "sell")
  /\ c.todo = {}
  /\ Put(c.o, [doc[c.o] EXCEPT !.flag = @ \/ c.lost # {}])
  /\ Return(p)
  /\ UNCHANGED <<unit, rest>>

Move(o, from, to) ==
  /\ doc[o].st = from
  /\ Put(o, Flipped(doc[o], to))
  /\ UNCHANGED <<unit, call, rest>>

-----------------------------------------------------------------------------
(* Expiry, and the release of a dead order's holds *)

\* The sweep's guarded flip of an unpaid order past its deadline (which may come at any
\* time), from whose written document it releases.
Expire(p, o) ==
  /\ call[p] = Idle
  /\ doc[o].st = "pending"
  /\ Put(o, Flipped(doc[o], "expired"))
  /\ call' = [call EXCEPT ![p] = [Going(p, "expire", o, "release") EXCEPT !.todo = Ids]]
  /\ UNCHANGED <<unit, rest>>

\* After the release, a checkout that gave up releases once more; a cancel and the
\* sweep go on to the restock.
AfterRelease(p) ==
  CASE call[p].op = "checkout"           -> Each(p, "undo")
    [] call[p].op \in {"cancel", "sweep"} -> Goto(p, "owed")
    [] OTHER                             -> Return(p)

\* completeHoldRelease reads the order: only a dead one gives its holds back.
Complete(p) ==
  LET c == call[p]
      d == doc[c.o]
  IN
  /\ At(p, "complete")
  /\ IF d.release = "open"
     THEN IF d.st \in Dead THEN Each(p, "release") ELSE Goto(p, "stampRelease")
     ELSE AfterRelease(p)
  /\ UNCHANGED quiet

\* releaseAdopted(Many): order-scoped, a no-op for any hold this order does not have.
GiveEach(p) ==
  LET c == call[p] IN
  /\ c.at \in {"release", "undo"}
  /\ \E r \in c.todo :
       /\ IF Holding(c.o, r) THEN H!GiveBack(r) ELSE UNCHANGED unit
       /\ call' = [call EXCEPT ![p].todo = @ \ {r}]
  /\ UNCHANGED <<doc, rest>>

StampRelease(p) ==
  LET c == call[p] IN
  /\ At(p, "stampRelease") \/ (At(p, "release") /\ c.todo = {})
  /\ Put(c.o, [doc[c.o] EXCEPT !.release = IF @ = "open" THEN "done" ELSE @])
  /\ AfterRelease(p)
  /\ UNCHANGED <<unit, rest>>

\* The release fails after a won flip (a contended document): the order is flagged, the
\* intent stays open, the call goes on.  Expiry tries once more itself.
Stumble(p) ==
  LET c == call[p] IN
  /\ At(p, "release")
  /\ c.op # "sweep"
  /\ Put(c.o, [doc[c.o] EXCEPT !.flag = TRUE])
  /\ IF c.op = "expire" THEN Each(p, "undo") ELSE AfterRelease(p)
  /\ UNCHANGED <<unit, rest>>

Undone(p) ==
  /\ At(p, "undo")
  /\ call[p].todo = {}
  /\ IF call[p].op = "sweep" THEN Goto(p, "stampAdopt") ELSE Return(p)
  /\ UNCHANGED quiet

-----------------------------------------------------------------------------
(* Cancellation: cancel-order.ts, cancel-unpaid-offline.ts, abandonCartOrder *)

\* cancelOrderWithRefund, by an operator.
Cancel(p, o) ==
  /\ call[p] = Idle
  /\ doc[o].st # "absent"
  /\ call' = [call EXCEPT ![p] = Going(p, "cancel", o, "read")]
  /\ UNCHANGED quiet

\* The shopper starts over: the order the cart was handed to, while it is pending.
Abandon(p, o) ==
  /\ call[p] = Idle
  /\ cart = o
  /\ doc[o].st = "pending"
  /\ call' = [call EXCEPT ![p] = Going(p, "abandon", o, "read")]
  /\ UNCHANGED quiet

\* A placed offline order nobody paid in time.
AutoCancel(p, o) ==
  /\ call[p] = Idle
  /\ doc[o].st = "awaiting"
  /\ call' = [call EXCEPT ![p] = [Going(p, "auto", o, "drop") EXCEPT !.from = "awaiting"]]
  /\ UNCHANGED quiet

\* Mutant of Decide: a paid order is cancelled with its commits open.
DecideOpen(p) ==
  LET c == call[p]
      st == doc[c.o].st
  IN
  /\ At(p, "read")
  /\ \/ /\ st \in {"pending", "awaiting"} \/ (c.op = "abandon" /\ st \in {"paid", "processing"})
        /\ call' = [call EXCEPT ![p].at = "drop", ![p].from = st]
     \/ /\ c.op = "cancel" /\ st \in {"paid", "processing"}
        /\ call' = [call EXCEPT ![p].at = "close", ![p].from = st]
     \/ c.op = "cancel" /\ st = "cancelled" /\ Goto(p, "owed")
     \/ /\ st \notin {"pending", "awaiting", "paid", "processing"}
        /\ c.op = "cancel" => st # "cancelled"
        /\ Return(p)
  /\ UNCHANGED quiet

\* The decision is made on the order as read HERE.  An unpaid one is dropped; a paid
\* one is refunded (see Settlement) and its commits are closed first.  The generic
\* cancelOrder, which an abandon calls, drops a paid one too.
Decide(p) ==
  LET c == call[p]
      st == doc[c.o].st
  IN
  /\ At(p, "read")
  /\ \/ /\ st \in {"pending", "awaiting"} \/ (c.op = "abandon" /\ st \in {"paid", "processing"})
        /\ call' = [call EXCEPT ![p].at = "drop", ![p].from = st]
     \/ /\ c.op = "cancel" /\ st \in {"paid", "processing"}
        /\ call' = [call EXCEPT ![p].at = "close", ![p].from = st, ![p].todo = Ids]
     \/ c.op = "cancel" /\ st = "cancelled" /\ Goto(p, "owed")
     \/ /\ st \notin {"pending", "awaiting", "paid", "processing"}
        /\ c.op = "cancel" => st # "cancelled"
        /\ Return(p)
  /\ UNCHANGED quiet

By(op) == CASE op = "cancel" -> "operator" [] op = "abandon" -> "shopper" [] OTHER -> "auto"

Cancelled(c, owed) ==
  Put(c.o, [Flipped(doc[c.o], "cancelled") EXCEPT !.owed = owed, !.by = By(c.op)])

\* The flip of an unpaid order, pinned to the state read; an operator's lost one is
\* decided again.  (The code gives up after CANCEL_DECISION_ATTEMPTS = 3; an order
\* moves too seldom for that bound to be met.)
Drop(p) ==
  LET c == call[p] IN
  /\ At(p, "drop")
  /\ IF doc[c.o].st = c.from THEN Cancelled(c, {}) /\ Goto(p, "complete")
     ELSE UNCHANGED doc /\ IF c.op = "cancel" THEN Goto(p, "read") ELSE Return(p)
  /\ UNCHANGED <<unit, rest>>

\* Singular commits, one reservation at a time (closeBrackets, completeHoldCommit): the
\* index read, then the write.
CloseRead(p) ==
  LET c == call[p] IN
  /\ At(p, "close")
  /\ c.open = {}
  /\ \E r \in c.todo :
       call' = [call EXCEPT
         ![p].open = IF unit[r].st = "held" THEN {r} ELSE {},
         ![p].todo = IF unit[r].st = "held" THEN @ ELSE @ \ {r},
         ![p].lost = IF unit[r].st = "back" THEN @ \cup {r} ELSE @]
  /\ UNCHANGED quiet

CloseWrite(p) ==
  LET c == call[p] IN
  /\ At(p, "close")
  /\ \E r \in c.open :
       LET next == [c EXCEPT !.open = {}, !.todo = @ \ {r}] IN
       Committed(p, r, next, [next EXCEPT !.lost = @ \cup {r}])
  /\ UNCHANGED <<doc, rest>>

\* closeAndFlip: the flip records the restock it owes, when the operator asked for one,
\* of the lines a commit was seen for.  It is tried once more from processing; an order
\* that left every cancellable state was refunded, and is flagged.
DropPaid(p) ==
  LET c == call[p]
      st == doc[c.o].st
  IN
  /\ At(p, "close") /\ c.todo = {} /\ c.op = "cancel"
  /\ \/ /\ st = c.from
        /\ \E owed \in {{}, Ids \ c.lost} : Cancelled(c, owed)
        /\ Goto(p, "complete")
     \/ /\ st = "processing" /\ c.from = "paid"
        /\ call' = [call EXCEPT ![p].from = st]
        /\ UNCHANGED doc
     \/ /\ st \in States \ {c.from, "processing"}
        /\ Put(c.o, [doc[c.o] EXCEPT !.flag = @ \/ st # "cancelled"])
        /\ Return(p)
  /\ UNCHANGED <<unit, rest>>

\* Mutant of Owed: the sweep leaves the restock to the cancel that recorded it.
OwedByCancel(p) ==
  LET c == call[p]
      d == doc[c.o]
  IN
  /\ At(p, "owed")
  /\ IF c.op = "sweep" THEN Goto(p, "report")
     ELSE IF d.st = "cancelled" /\ d.owed # {}
     THEN call' = [call EXCEPT ![p].at = "restock", ![p].todo = d.owed] ELSE Return(p)
  /\ UNCHANGED quiet

\* The restock a cancellation still owes, by whoever finds it: the cancel that recorded
\* it, a replay, or the sweep.
Owed(p) ==
  LET c == call[p]
      d == doc[c.o]
  IN
  /\ At(p, "owed")
  /\ IF d.st = "cancelled" /\ d.owed # {}
     THEN call' = [call EXCEPT ![p].at = "restock", ![p].todo = d.owed]
     ELSE IF c.op = "sweep" THEN Goto(p, "report") ELSE Return(p)
  /\ UNCHANGED quiet

\* The inventory's restock, once per <key>:restock:<line>.
Restock(p) ==
  LET c == call[p] IN
  /\ At(p, "restock")
  /\ \E r \in c.todo :
       /\ restocked' = restocked \cup {<<c.o, r>>}
       /\ call' = [call EXCEPT ![p].todo = @ \ {r}]
  /\ UNCHANGED <<doc, unit, cart, payable, cut, early>>

\* completeCancellationRestock: the marker goes once every line is back.
Restocked(p) ==
  LET c == call[p] IN
  /\ At(p, "restock")
  /\ c.todo = {}
  /\ Put(c.o, [doc[c.o] EXCEPT !.owed = {}])
  /\ IF c.op = "sweep" THEN Goto(p, "report") ELSE Return(p)
  /\ UNCHANGED <<unit, rest>>

-----------------------------------------------------------------------------
(* The sweep's hold-intent leg: completeHoldIntents of sweeps.ts *)

Pending(d) == "open" \in {d.adopt, d.commit, d.release} \/ d.owed # {}

\* An order with work outstanding is found through its indexed holdsPendingAt; its
\* adoption is completed only while it is still unpaid.
Sweep(p, o) ==
  LET c == Going(p, "sweep", o, "commit")
      d == doc[o]
  IN
  /\ call[p] = Idle
  /\ Pending(d)
  /\ \/ d.adopt = "open" /\ d.st = "pending" /\ Adopting(p, c)
     \/ d.adopt = "open" /\ d.st \in Dead
          /\ call' = [call EXCEPT ![p] = [c EXCEPT !.at = "undo", !.todo = Ids]]
     \/ d.adopt = "open" /\ d.st \notin Dead \cup {"pending"}
          /\ call' = [call EXCEPT ![p] = [c EXCEPT !.at = "stampAdopt"]]
     \/ d.adopt # "open" /\ call' = [call EXCEPT ![p] = c]
  /\ UNCHANGED quiet

StampAdopt(p) ==
  LET c == call[p] IN
  /\ At(p, "stampAdopt")
  /\ Put(c.o, [doc[c.o] EXCEPT !.adopt = IF @ = "open" THEN "done" ELSE @])
  /\ call' = [call EXCEPT ![p].at = "commit", ![p].lost = {},
                          ![p].short = IF c.lost = {} THEN {} ELSE {"adopt"}]
  /\ UNCHANGED <<unit, rest>>

\* completeHoldCommit: the holds are committed only while the order is still paid; an
\* order moved on to processing has its intent closed and its holds left adopted.
SweepCommit(p) ==
  LET d == doc[call[p].o] IN
  /\ At(p, "commit")
  /\ IF d.commit # "open" THEN Goto(p, "complete")
     ELSE IF d.st = "paid" THEN Each(p, "close") ELSE Goto(p, "stampCommit")
  /\ UNCHANGED quiet

StampCommit(p) ==
  LET c == call[p] IN
  /\ At(p, "stampCommit") \/ (At(p, "close") /\ c.todo = {} /\ c.op = "sweep")
  /\ Put(c.o, [doc[c.o] EXCEPT !.commit = IF @ = "open" THEN "done" ELSE @])
  /\ call' = [call EXCEPT ![p].at = "complete", ![p].lost = {},
                          ![p].short = IF c.lost = {} THEN @ ELSE @ \cup {"commit"}]
  /\ UNCHANGED <<unit, rest>>

\* Losses that are still the order's problem go on the order (INTENT_OWNER_STATE).
Report(p) ==
  LET c == call[p]
      d == doc[c.o]
      real == \/ "adopt" \in c.short /\ d.st = "pending"
              \/ "commit" \in c.short /\ d.st \in Bought
  IN
  /\ At(p, "report")
  /\ Put(c.o, [d EXCEPT !.flag = @ \/ real])
  /\ Return(p)
  /\ UNCHANGED <<unit, rest>>

-----------------------------------------------------------------------------
(* The cart's own release, and crashes *)

\* releaseHeld: a removed or expired line gives back a hold nobody adopted.
CartRelease(r) ==
  /\ unit[r] = [st |-> "held", owner |-> None]
  /\ H!GiveBack(r)
  /\ UNCHANGED <<doc, call, rest>>

\* The isolate dies, or the call throws.
Crash(p) ==
  LET c == call[p] IN
  /\ c # Idle
  /\ cut' = IF c.at \in {"adopt", "reread", "giveUp", "undo"} THEN cut \cup {c.o} ELSE cut
  /\ Return(p)
  /\ UNCHANGED <<doc, unit, cart, payable, restocked, early>>

-----------------------------------------------------------------------------
Init ==
  /\ doc = [o \in Orders |-> NoDoc]
  /\ unit = [r \in Ids |-> [st |-> "held", owner |-> None]]
  /\ cart = None
  /\ payable = {}
  /\ restocked = {}
  /\ call = [p \in Callers |-> Idle]
  /\ cut = {}
  /\ early = {}

Start(p, o) ==
  \/ Checkout(p, o) \/ Settle(p, o) \/ Cash(p, o) \/ Expire(p, o)
  \/ Cancel(p, o) \/ Abandon(p, o) \/ AutoCancel(p, o) \/ Sweep(p, o)

Step(p) ==
  \/ Fence(p) \/ Claim(p) \/ Create(p) \/ Adopt(p) \/ Reread(p) \/ GiveUp(p)
  \/ Stamp(p) \/ Recheck(p) \/ Mint(p) \/ Place(p)
  \/ Pay(p) \/ Resolve(p) \/ Sell(p) \/ Tell(p)
  \/ Complete(p) \/ GiveEach(p) \/ StampRelease(p) \/ Stumble(p) \/ Undone(p)
  \/ Decide(p) \/ Drop(p) \/ CloseRead(p) \/ CloseWrite(p) \/ DropPaid(p)
  \/ Owed(p) \/ Restock(p) \/ Restocked(p)
  \/ StampAdopt(p) \/ SweepCommit(p) \/ StampCommit(p) \/ Report(p)

World ==
  \/ \E o \in Orders : Move(o, "paid", "processing") \/ Move(o, "processing", "shipped")
  \/ \E r \in Ids : CartRelease(r)

Next ==
  \/ \E p \in Callers : Step(p) \/ Crash(p) \/ \E o \in Orders : Start(p, o)
  \/ World

Spec == Init /\ [][Next]_vars

-----------------------------------------------------------------------------
(* Properties *)

TypeOK ==
  /\ doc \in [Orders -> Doc]
  /\ unit \in [Ids -> H!Unit]
  /\ cart \in Orders \cup {None}
  /\ payable \in SUBSET Orders
  /\ restocked \in SUBSET (Orders \X Ids)
  /\ call \in [Callers -> Call]
  /\ cut \in SUBSET Orders
  /\ early \in SUBSET Orders

\* An order that was paid keeps every unit it sold: whatever expired, was cancelled,
\* swept or replayed meanwhile, its units are neither back on the shelf nor another's.
\* (One marked paid by hand before its adoption may have none: see the README.)
PaidKeepsUnits ==
  \A o \in Orders \ early : doc[o].st \in Bought =>
    \A r \in Ids : unit[r].owner = o /\ unit[r].st \in {"held", "sold"}

\* A dead order with nothing outstanding holds nothing back from sale, unless a call
\* that adopted for it died before it could read it again (the intent may be closed then).
DeadOrdersHoldNothing ==
  \A o \in Orders :
    /\ doc[o].st \in Dead
    /\ ~Pending(doc[o])
    /\ o \notin cut
    /\ \A p \in Callers : call[p].o # o
    => \A r \in Ids : ~Holding(o, r)

\* A cancelled order's units come back by its release or by its restock, never by both.
UnitsReturnOnce ==
  \A o \in Orders \ early, r \in Ids : <<o, r>> \in restocked =>
    doc[o].st = "cancelled" /\ unit[r] = [st |-> "sold", owner |-> o]

\* A shopper who starts over cancels only an unpaid order (abandonCartOrder's doc; the
\* generic cancel it calls does not keep it: see the README).
ShopperCancelsUnpaid == \A o \in Orders : doc[o].by = "shopper" => doc[o].commit = "none"
=============================================================================

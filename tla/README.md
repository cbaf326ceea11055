# otta.sh, specified

TLA+ models of the commerce core of otta.sh, the TLC runs that check them, and
TLAPS proofs about them. Paths are relative to `src/packages/` unless they begin
with `src/`.

1. [The system](#1-the-system): inventory of components
2. [What is modelled](#2-what-is-modelled): module by module
3. [The runs](#3-the-runs): question, bounds, fairness, premises
4. [Where code and comment disagree](#4-where-code-and-comment-disagree)
5. [The proofs](#5-the-proofs): what is proved, from what, and how
6. [Not modelled, and why](#6-not-modelled-and-why)

## 1. The system

otta.sh is a shop that runs as a plugin of a CMS, in short-lived isolates, over
a document store.

    sites/*  storefront routes  admin console  webhooks  cron sweeps  CMS hooks
        \___________|_______________|____________|___________|__________/
                         packages/plugin
                               |
                    packages/domain (use cases, ports, pricing)
                     |                          |
        packages/store-emdash            payments-stripe / payments-cod
                     |
      documents: get, getVersioned, compareAndSet, compareAndDelete, updateIf, query

**There are no transactions.** One document is written at a time, guarded by its
revision. Every promise that spans documents (a reservation and its shelf, an
order and its holds, a coupon and its uses) is kept by a protocol: claim an
idempotency key, do the work, record the answer, and let whoever comes next
(the same caller's retry, another request, a sweep) finish what a dead caller
left. A lost compare-and-set is retried up to `CAS_MAX_ATTEMPTS` (24) times
(`store-emdash/src/cas-retry.ts:69`), after which the call throws with its
earlier writes in place: for the documents that is a crash.

| Component | State it keeps | Operations | What makes it correct | Module |
|---|---|---|---|---|
| Inventory holds | shelf with embedded holds, reserve-key claims, reservation index | reserve, commit, release(Held, Adopted), adopt, adjust, seed | units leave once, return at most once; answers stand; an adopted hold is its order's | `Inventory`, proved to implement `Holds` |
| Stock movements | movement claims, ring of applied keys | restock, removeStock, adjust | one outcome per key, applied once, on the count it was judged against, the answers explaining the shelf | `StockMovements`, proved |
| SKU stock carry | transfer stamp, ring of tokens, pending-rename records | move, complete, settle | units conserved, every carry settles | `SkuTransfer`, safety proved |
| SKU owners | product documents, sku claims | upsert, edit, softDelete, restore, takeover, settle | one live product per sku; owed units are not given away | `SkuOwners`, proved |
| Coupons | counter with witness, redemptions, customer slots | redeem, release, recount | no cap overrun; counter never low, high by its seams | `Coupons`, proved |
| Orders, checkout, settlement, cancellation, expiry | order document with intents, hold brackets, key claims | create, adopt, flips, commit, release, restock, the sweep | a paid order keeps its units; a dead one's come back, once | `OrderHolds`, proved |
| Refunds, late money, the gateway | refund rows and keys, payments, the flag, the provider | refund, record, cancel, settle late, retry, resolve | within the capture; ledger and provider agree; one click, one refund | `Refunds`, proved |
| Carts | cart, lines, mutations, locators, holds | add, update, remove, expire, checkout | held units are on a line or in the sweep's sight; a line says what it holds | `Carts`, proved |
| Credentials, throttle, customers, sessions | challenges, slots, e-mail claim, accounts | issue, redeem, register, link, open | links within the cap; one customer per address | `SignIn`, proved |
| Reporting rollup | day, month and product aggregates, event claims | bump, recompute, build | an event is counted once; a clean aggregate is its days | `Rollup`, proved |
| Sweeps (`plugin/src/cron`) | cursors, tick budget | finish every protocol above | nothing outstanding is forgotten | actions of the modules |
| E-mails, entitlements, rules, pricing, settings, catalog sync, routes, console, secrets, sites | | | | not modelled, section 6 |

How they interact: checkout reserves through Inventory, redeems through Coupons
and writes an order that *adopts* the cart's holds; settlement flips the order,
records the payment and *commits* the holds; expiry and cancellation flip it and
*release* them or restock what was sold under a key, and refund what was paid;
catalog sync calls SkuOwners, whose committed renames SkuTransfer carries out;
order events feed the rollup; the sweeps re-run all of it.

What is hard: any two steps of any two calls interleave; a call may die between
any two of its writes, or stall past its lease and go on; deliveries are
repeated and late; a provider's answer may be lost; rings and retry budgets are
bounded. PROJECT.json lists forty such hazards at the lines where they bite,
with the properties that answer them.

## 2. What is modelled

Common to all modules. A *caller* is a call in flight in an isolate; `call[p].at`
is its program counter, its other fields the locals it carries from one await to
the next. One action is one read or one compare-and-set, with every local
decision that follows. A retry loop whose step reads only the document it writes
is one action (a lost round changes nothing); a loop that reads a second document
in between is split, with a field recording whose read is still current. `Crash`
returns a caller to idle and leaves the documents. History variables (marked so)
are read by no action. Every module defines a `TypeOK` (`CartsTypeOK` in Carts); a
reader finds which are proved in section 5. Carts names its actions apart from
Rollup's (`ClaimMutation`, `HealDead`, ...), for one module holds both's proofs.
`SkuNames` holds the constants that SkuTransfer and SkuOwners share.

### Holds, Inventory, InventoryLive

`Holds` is what the inventory promises the rest of the system: one unit per
reservation, free, held, held for an order, sold or given back, moved by Take,
Adopt, Sell and GiveBack, each atomic. `Inventory` is the code
(`store-emdash/src/emdash-inventory-store.ts`) and implements it
(`ImplementsHolds`, checked and proved); OrderHolds uses `Holds` in its place.

`inventory/{sku}` is `onHand`, `known`, `hold`; `reservation_keys/{key}` is
`keyDoc`; `reservation_index/{rid}` is `idx`. `reserve` is BeginReserve, ReadKey,
Look, Refuse, Claim, PreRead, WriteIndex, Load, Recheck, Write, MarkKey, Fail:
the heal path of a replayer is the same actions from ReadKey on. The settles are
BeginSettle, ReadHold, RecordAnswer, SettleTerminal, Prune, with releaseHeld's
own order (Free, Freed, and Gone, GoneKey when no hold is left); Flip is adopt,
adoptMany and stampHoldDeadline. `commitMany`, `adoptMany` and
`releaseAdoptedMany` are their per-id calls in any order, a failure in the middle
included. Callers settle only ids a reserve answered (`Given`): that is what
carts and orders store. Lapse passes a hold's deadline; Seed, MoveStock and
Adjust are the other writers of the aggregate. `InventoryLive` adds a bound on
crashes and fairness.

### StockMovements

One shelf, `claim[ledger, key]` the movement documents, `ring` the applied keys
with their age. A movement is claim, one compare-and-set on the aggregate, mark,
read back. The claim records the request first presented under the key: a
replay with another request works on the recorded one, as in the code. Whether
the aggregate remembers a key (`findAppliedMovement`) is asked by key alone, as
in the code. Holds come and go (Reserve, Adopt, Prune) beside the movements; a
rename may withdraw a pristine document (`CanWithdraw`). The `replayed` flag of
an answer is left out.

### SkuTransfer

A rename commits product document and pending record in one write (Commit). Any
number of movers then work from the record: Stamp zeroes the source and writes
the stamp, Apply credits the target unless its ring knows the token, Clear drops
the stamp, Drop the record, Release the source sku. Settle (the sweep) and
Complete (the completer before a write) start movers; reservations hold and
return units meanwhile. The history `late` turns true when a sku that a product
has left is used again: restocked (a cancelled order), or taken up by another.
The 256-entry bound of the ring is not modelled: each key is used once.

### SkuOwners

The claims and product documents; a whole carry is one step here (SkuTransfer is
its detail) that may be blocked by a hold. upsert, edit, softDelete, restore and
the sweep are command records interpreted by Read, Decide, SettleCarries,
ReadClaim, Judge, Age, Look, TakeClaim, Prepare, Beat, CommitProduct and the undo
steps; ClearStamp and Free end a carry. An upsert and an edit have an idempotency
key (`product-commerce-store.ts` requires one): CommandsAssumption. A claim's lease
is the flag `old`; it never lapses between the heartbeat and the commit (the
code's stated residual), and may lapse anywhere else. Watermarks are a choice (an
older save is refused or not). Variants are left out. Nothing serialises the calls
on one product, and nothing does here: two saves, a save and a restore, a save
delivered after the delete run in any order. The history `unruly` names the
products to which the code then does what its comments exclude (section 4), each
at the very step: a call that met another of its product (`met`) gives a claim of
the product back (MayTear); a save commits a rename of a product it read as
deleted; a lease lapses between the two reads of a taker, owner and age.

### Coupons

`coupon` (count, witness, caps), `red` (redemption by key), `slots`, and per
bumping redemption its `holder` and whether its lease `lapsed`. A caller advances
the redemption by what it finds: Slot, Right, Await, Witness, Beat, Bump,
Compensate, Finish, Answer. Claiming is get plus create-if-absent, one step.
`bump`'s read and guarded write are one step plus a retry. A release is Release,
Reread, Unslot, Delete, Dec. The recount looks twice, the settle window apart:
every release that owed a use at the first look has ended at the second
(`COUPON_RECOUNT_SETTLE_MS` is ten minutes, longer than an invocation). A lease
does not lapse between the heartbeat and the bump (the header's stated
residual, lines 1134-1141). Histories: `told`, `gone` (released keys), `raced`
(keys redeemed again after a release, or released under another call), `seams`,
and `mixed`, the redemptions claimed while the counter's witness, or a call on its
way, was of an earlier redemption of their key; `mixes` counts them.
Creating, editing and deleting coupons is left out.

### OrderHolds, OrderHoldsLive

The order documents (`doc[o]`: state, the intents adopt, commit and release,
each none, open or done, and what a cancellation still owes to restock), the cart
that several checkouts may share,
and `unit[r]` of `Holds`. Orders, Checkout, Settlement, Cancellation and expiry
are the calls: Checkout is Fence, Claim, Create, Adopt (reservation by
reservation, in any order), Reread, GiveUp with Complete and StampRelease, Stamp,
Recheck, Mint, Place; Settle and Cash are Pay, Sell, Resolve, Tell; Expire,
Cancel, Abandon and AutoCancel are a decision on a read (Decide), a flip guarded
by the document, the brackets (CloseRead, CloseWrite) and what is left to do
(GiveEach, Drop, DropPaid, Restock). The sweep reads one order's intents (Sweep)
and does what each asks. Two histories: `cut`, units adopted for an order by a
call that then died, and `early`, an offline order marked paid from pending.
The coupon's release, notices and e-mails are not in it. `OrderHoldsLive` adds a
bound on crashes and fairness.

### Refunds

One order that was paid, its payments, refund rows (`row[k]`: state, amount,
payment) and key claims; the provider's own ledger of what it issued; calls that
refund, record by hand, cancel, settle a late or second payment, retry, or
resolve a flag. Money is counted in `Total` cents. A refund is reserve (key,
row), issue at the provider, finalize or void; a resumed click takes up the row
its key claims. The provider answers, refuses, or answers nobody (the call dies
or times out, with the refund issued or not), reads of the provider can be
refused too. The dashboard refunds behind the shop's back. A person who confirms
what became of an unverified refund is right, and comes after the calls at that
key are gone: the code asks for it in the dialog and cannot enforce it.
An issued key asked for again with another amount is rejected as a mismatch. A key
of the provider never lapses here (Stripe's do, after a day).
A confirmed cancellation goes on with no gateway (Clear, Resume, ResumeFlag); a late
payment found not refunded loses its retry and raises its flag in three steps, as in
the code (Unschedule, HandSee, HandFlag).
Histories: `acked` deliveries, `handled` flags, `unheard`, the keys the provider
issued while nobody heard of it (the answer was lost, or the call died with it), and
`misread`, the rows voided on an answer that does not reject their key: already
refunded (F6), a refused *read* of the provider (F7), another amount (F12).
LedgerMatchesProvider and ClickRefundsOnce say of such a row that its money, if
issued, is known: a call that heard of it is about to write it down, its flag
stands or has reached a person, or the key is in `unheard`.

### Carts

One cart, one line of one sku, the reservations by the add key that took them.
`Add` is the key's claim, the look at the line, reserve or adjust, the line's
write, the record; Update and Remove their twins; Renew the currency. The claims
and their locators (key document, index document) are separate writes; Expire is
the sweep: its listing (candidates by deadline, narrowed to what it can see,
dead candidates healed), the expiry token it mints, the release, the line's
deletion. Checkout takes the cart and its holds. Histories: `stray`,
reservations held where the sweep will not look, and `torn`, an adjust whose call
died before its line agreed. Inventory's calls are one step; a deadline set while
a sweep runs does not lapse before it ends (the TTL is longer than an
invocation).

### SignIn

One address: `link` (the challenge documents), `slots` (the login throttle),
`claim` (the e-mail claim with its stamp), accounts, verified marks, orders,
sessions, `now`. A request issues a link (Issue, Admit, WriteLink, Withdraw);
another follows it (Follow, Consume, Unslot), finds or makes the account (Find,
Look, Claim, Reassert, Register, Release), and is welcomed (Welcome, Scan,
Attach, Open). Prune is the sweep. `slept` is a history: a registrant that
stopped for longer than `Pause` at a guarded write. The clock of all isolates is
one; `2 * Pause < Window` is the assumption the code's comments lean on (the
lease is minutes, an isolate's life seconds), and it is tight: TLC violates
AccountsAreClaimed with Window = 2, Pause = 1. A session's end is a choice. The
address book, names and the attempt throttle of resumed orders are left out; an
attempt that stalls a window after its clock read is never counted there
(`store-emdash/src/emdash-attempt-throttle.ts:67`).

### Rollup

One day, its month and its product lines, one currency; orders that live a given
life of states. Live: an event claims its key, applies its delta, marks. The
recompute pins a generation, scans, absorbs claims, commits; the product build
and the month build likewise; Stamp settles claims. All stop anywhere. The bound
is a *plan* (sweeps begun, events, sweeps abreast, mishaps). Amounts, older
document shapes, overflow and paging are left out. An action refused by a
version floor is a stutter. `orphan` marks an absorption whose sweep ended
without a commit.

## 3. The runs

Every run is exhaustive within its bounds and passes. Two callers suffice for the
races of a pair, and the proofs of section 5 lift most properties to any number.
The bounds are chosen so that every action fires and each mutant of PROJECT.json
(a plausible slip in the named definition) is caught. Where a module has several
*uses*, a run explores each of several smaller worlds: the use is chosen at first
and bounds what is begun, and never what a call under way may do.

| Run | Asks | Bounds | States |
|---|---|---|---|
| `inventory` | Reserves, settles, adoption and adjusts race, replay and die: UnitsMoveOnce, ReserveAnswersBacked, UnitsConserved, SettleAnswersStand, and every step is one of Holds (ImplementsHolds) | 1 sku, 2 keys, 2 callers, 2 orders, supply 2; uses: two keys for one unit, one key settled in every way; crashes unbounded | 161 k |
| `inventory_live` | What a crash left is finished by retries: ClaimsResolve, EndedHoldsGo | 1 key, 2 callers, 2 crashes | small |
| `stock` | Movements under keys while the shelf is seeded, withdrawn, renamed: AnswersAgree, TwiceOnlyPastTheRing, WatermarkHolds, LedgerExplainsShelf | 3 keys, ring 2, so that forgetting happens; a shelf that stays, and one renamed | 872 k |
| `sku` | Renames, movers that die, holds, late units: OwedSkuIsKept, CarriesLoseNothing, CarriesSettle | 3 skus, 2 products, 2 renames, 2 movers, 1 unit; the use without late units in full, a late one with one rename | 40 k |
| `sku_owners` | Saves, renames, deletes, restores, sweeps of two products, calls of one product overlapping: SellersHoldClaims, OwedSkuStaysClaimed, CarriesGoHome | 2 skus, 2 calls at a time, 4 in all, the first a save | 4.3 M |
| `coupons` | Redeem, replay, release, recount: NeverLow, NoOverRedeem, HighOnlyBySeams, SlotsHeldByUses, AnswersStand | 2 keys of one customer, 2 callers; 1 use and his cap 2, two of: a death, a stall, a released key redeemed again; 2 uses and his cap 1, or 1 use and none, a death and a stall | 7.2 M |
| `order_holds` | Checkouts of one cart, settlement, expiry, cancellation, the sweep: PaidKeepsUnits, DeadOrdersHoldNothing, UnitsReturnOnce | 3 orders (one offline), 2 reservations, 2 callers; uses race, swept, one, cash | 3.0 M |
| `order_live` | What is outstanding is done: WorkGetsDone, DeadHoldsGoBack | 1 order, 1 reservation, 2 callers, 1 crash | 292 k |
| `refunds` | Clicks, hands, cancellations, late and second payments: RefundsWithinCeiling, LedgerMatchesProvider, ClickRefundsOnce, LateMoneyAnswered | 2 payments, 2 cents, 4 calls, 1 mishap, 2 callers | 1.35 M |
| `carts` | Two tabs and the sweep: HeldIsFound, QtyAgrees | 3 keys, 4 calls, line of 2, 1 crash, 2 callers | 862 k |
| `sign_in` | Links, registrations, releases: LinksWithinCap, OneCustomer, AccountsAreClaimed | 3 links, 2 slots, window 3, clock to 4, 2 callers | 3.3 M |
| `rollup` | Live deltas against recomputes: CountedOnce, EventsNotLost, CleanMonthIsItsDays, CleanLinesAreSold | three plans, up to 3 events, 2 sweepers | 2.2 M |

`CHECK_DEADLOCK FALSE` appears where the system may stop: every key, call or
death of the bound spent.

**Fairness.** `inventory_live`: a call in flight takes its next step (weak
fairness); one that died is retried under its key (strong fairness on the begin
actions: the obligation of carts, which replay their mutations, of the order's
brackets and of the sweeps); crashes are finitely many. `order_live`: a call in
flight takes its next step, and the sweep visits each order again and again
(strong fairness: its cursor rotates, and a visit is disabled while nothing is
outstanding or no isolate is free). `sku`: movers' steps and the sweep's Settle
are strongly fair, and a hold eventually ends (it has a deadline, and orders
settle or expire). Nothing is assumed of shoppers or of the merchant.

**Premises worth knowing.** In `coupons` a released key may be redeemed again
(`create-order-from-cart.ts` 515-528 makes it possible): each redemption that could
then be mixed up with an earlier one of its key is counted in `mixes`, and NeverLow
and NoOverRedeem allow one use for each, no more. HighOnlyBySeams and
SlotsHeldByUses are claimed while `raced` is empty. In `sku`, CarriesLoseNothing says that no unit is lost until `late`,
and at all times that none is made. In `sku_owners` SellersHoldClaims and
OwedSkuStaysClaimed speak of the products that are not `unruly`, CarriesGoHome of
all. `refunds` has `misread`, `unheard` and Confirm (section 2),
`order_holds` has `cut` and `early`, `carts` has `stray`
and `torn`. Each of them is a way
the code does fail the plain statement, and section 4 names it. HeldIsFound
therefore does not guard what the sweep's heal drops while its add goes on
(`emdash-cart-store.ts:971`): such units are `stray` from that step.

## 4. Where code and comment disagree

Met while modelling. Each is a behaviour of the modules under the constants or
property named; none is part of a run, for a passing run's property is one the
code keeps.

**Orders and checkout** (`OrderHolds`)

- *A shopper who starts over may cancel a paid order.* abandonCartOrder judges the
  state on its own read (`plugin/src/commerce/in-process-commerce-client.ts:1668`),
  then calls a cancel (1705) that reads again and cancels whatever may be
  cancelled: a payment that settles in between is cancelled without a refund.
  The comment (1656-1658: "Only a `pending` order is cancelled; a race lost to a
  settle ... is a no-op") and the contract test 'never touches a PAID order'
  (`plugin/test/contracts/commerce-client-contract.ts:3252`) say otherwise.
  Reproduce: INVARIANT ShopperCancelsUnpaid in `MCOrderHolds.cfg`.
- Two commits of one order at once can report COMMIT_LOST although nothing is
  lost. An order moved from paid to processing before the sweep came keeps its
  holds adopted. Mark paid on an offline order still `pending` pays for units
  not yet adopted (`early`). An adopting call that dies once the intent is
  closed leaves its holds with a dead order (`cut`). The catch of
  `create-order-from-cart.ts` (515-528) releases a coupon when createFromCart
  throws after its write has landed.

**Refunds** (`Refunds`)

- *F6.* `refund-order.ts` 522-528: "when a call created the reservation, nothing
  under its key can have moved money" is false under a double click
  (CreatedMovedNothing): the row is voided although its key is issued, or is issued
  after. Under `misread` the properties keep what is left of the promise: the double
  that was issued hears of it and finds its row voided, so the money reaches its
  flag, unless the answer was lost on the way. Drop that flag (FlagRow) and TLC
  refutes LedgerMatchesProvider along this path and ClickRefundsOnce along F7's.
- *F7, `misread`.* A 4xx on the pre-flight *read* of the provider is answered as
  TERMINAL (`payments-stripe/src/index.ts` 1459-1466), and the row is voided
  (`refund-order.ts` 576-578) even when the call resumes a refund that was
  issued.
- *F8.* A cancellation sizes its refund on the payments recorded
  (`cancel-order.ts:1078`), and a settle flips first (`settle-order.ts:296`) and
  records after (444): an operator who cancels in between refunds nothing, and
  the payment is then recorded on a cancelled order without a flag, against
  `cancel-order.ts` 659-660, "refusing leaves no state in which the buyer has
  been told "cancelled" while the shop keeps the money"
  (CancelledMoneyGoesBack as INVARIANT in `MCRefunds.cfg`).
- *F9.* A key claimed by a refund that died before its row, taken up by a manual
  record, answers ok although the row lands `reserved`; a cancel key claimed for
  a larger amount stays stuck on exceeds_ceiling. *F10, F11.*
  flagReconciliation is unguarded, the last writer wins (order store 1012-1037),
  and a stale read of the flag (`settle-order.ts` 262, 329) can leave an
  acknowledged late payment with another's flag: LateMoneyAnswered counts it as
  put before the person who had that flag. *F12.* `refund-order.ts` 479-490
  says a caller whose key reserved a different refund is rejected before any
  provider call; it is not (RefundAsReserved). The provider rejects an issued key
  asked for another amount as a mismatch, and that rejection voids the row.

**Coupons** (`Coupons`)

- *Redeemed again.* A key redeemed, released and redeemed again by a call that dies
  before the counter takes the first use's witness for its own
  (`emdash-coupon-store.ts:1019`): the counter is one low and the cap is overrun.
  A slow owner's answer, or a stale second release, can land on the new redemption
  too. So "never low" and "no over-redeem" fail as the header states them; what
  holds is that each such redemption costs one use. Both slacks are reached:
  without `mixes` TLC refutes NeverLow in 14 steps and NoOverRedeem in 20.
- *F28, the customer's cap.* Two deaths suffice to leave an applied redemption
  without its slot, so that a customer may redeem more than the cap: the first
  owner dies with the right; A takes over, takes the slot again and stops; B takes over,
  finds no room, gives the slot back and dies; a release frees a use; A goes on
  and applies. After a stall the late compensation of an overtaken owner does the
  same. So nothing is claimed of the customer's cap beyond SlotsHeldByUses
  (`MaxDeaths = 2`, a cap of 1, a second key of a guest).
- A refusal for the customer's cap can coexist with a peer's count of the same
  key (counter one high, contrary to lines 69-70), and a release that read
  `claimed` can delete a redemption that became `applied` without giving its use
  back; HighOnlyBySeams counts both as seams.

**Customers** (`SignIn`)

- *F26.* create()'s comments ("of N concurrent registrations ... exactly one
  reaches a customer write", `emdash-customer-store.ts:265`; "a registrant parked
  past the window ... never writes the account", 271-273; "No invariant depends on
  the two clocks agreeing", 413) fail for a stall of a window between
  re-assertion and account write, or of half a window in each of two places:
  two accounts, between which later heals and releases move the claim. The
  properties hold while `slept` is empty; drop it, or set 2 * Pause >= Window.

**Carts** (`Carts`), all of them under `stray` or `torn`

- *F14.* Of two concurrent first adds the second overwrites the line's
  reservation; the first's hold is on no line and its record completed, so no
  sweep lists it (addLine's doc: "orphan it until the TTL sweep"). *F15.*
  healDeadCandidates drops the claim of a resumed add whose index document is
  not there yet. *F19.* A merged add resumed after its line is gone reserves
  under a claim of the wrong kind. *F20.* An expiry retires a claim whose units
  are taken after. *F23.* One add delivered twice both adjusts and reserves.
  *F24.* removeLine deletes by line id a line whose reservation was replaced.
- *F16.* A sweep that minted on an old add claim releases the line the resumed
  add has just attached. *F22.* An expiry token minted before an update goes
  through still reaps the hold (`ports/cart-store.ts`, expireHold: "can therefore
  never ... reap an active shopper's hold"). *F25.* upsertLine does not look at
  the cart's state: a line can join a checked-out cart. Two concurrent merged
  adds set the same absolute quantity, and one is lost. *F17.* A remove that dies
  between freeing and recording leaves a line offered at every tick and refused.

**Inventory and stock** (`Inventory`, `StockMovements`)

- Two callers of one reserve key may be told different answers, and a key
  recorded OUT_OF_STOCK may hold units, because the heal path answers from a
  read that its loop would have checked again
  (`emdash-inventory-store.ts` 339-349, header 23-26; FailedHoldsNothing and
  OneAnswer as INVARIANTS).
- UNKNOWN_SKU is recorded under a key though the port says the key stays free
  (`ports/inventory-store.ts:273`; store 1295-1297, 1335-1339; UnknownKeepsKey),
  and can be recorded while another call's movement under the key lands after a
  withdrawal and a new seed. The ring is asked by key alone, so one value used
  in both ledgers of a sku answers one movement for the other (store 1001).

**Renames** (`SkuTransfer`, `SkuOwners`)

- *Late units.* A slow mover of a finished carry zeroes units that have reached
  its source since, under a token the target already knows
  (`emdash-product-commerce-store.ts:1873`): they are lost (`Counted` falls below
  `supply` once `late`). A deleted product's blocked carry can land on a sku another
  product has taken.
- *Unruly products.* Two calls on one product (1931; one save delivered twice, a
  save and a restore): the one that fails frees the claim the other commits on,
  and another product may take the sku, so that two live products sell it. A late
  save after a delete (802) carries units from a sku the delete freed. A reader
  that stalls for a lease between owner and clock (2119) takes a claim committed
  meanwhile. Each is in the run, and a cause of `unruly` of its own; each is
  needed: without MayTear TLC refutes SellersHoldClaims, without the late rename
  OwedSkuStaysClaimed, without the lapsed lease SellersHoldClaims again.
- A retry after a lost product write records that its claim creates no target;
  dying then leaves an empty document no takeover withdraws.

**Reporting** (`Rollup`)

- *F13.* "nothing here ever applies a delta whose claim is absorbed" (near
  `emdash-reporting-store.ts:672`) fails after a recompute that absorbed and ended
  without a commit (AbsorbedNeverLands); the counters are right all the same.
  Two month builds under one generation after a day writer died are the `cut` of
  CleanMonthIsItsDays.

**Docs.** `docs/store-emdash/design-notes.md` 258-259 gives `CAS_MAX_ATTEMPTS` as
12; the code has 24.

## 5. The proofs

TLC checks small instances; the theorems hold for every value of the constants
that satisfies the modules' ASSUMEs: any number of keys, callers, orders,
payments, customers and caps (finite where cardinalities are counted). PROJECT.json lists
each theorem with the property it states. Every proof follows one
pattern: an inductive invariant, candidates of which TLC checked first; one lemma
per action that says all the action changes (`...Does`, `...Step`); frame lemmas
for what is untouched; one preservation lemma per action; PTL at the end.

**`Inventory_proofs`**: `Inductive`, `TypesHold`, `UnitsMoveOnceHolds`,
`ReserveAnswersBackedHolds`, `UnitsConservedHolds`, `UnitsStandHolds`,
`SettleAnswersStandHolds`, `Refinement` (`Spec => ImplementsHolds`).
UnitsMoveOnce alone is not inductive: a second decrement is prevented by what a
completer has read. IInv says that an id belongs to one key (ClaimsAgree), that
a caller past the claim works on the recorded one (CompletersAgree), that a live
hold is one decrement not yet returned (HoldsAgree), that a caller about to
write with a current revision saw no hold and nothing taken (ReadsAgree), that a
recorded or told success was taken (AnswersAgree), and that a settle has the
key's answer before it prunes, by the terminal state that won (SettlesAgree).
A second invariant, UnitsStand, says what state of `Holds` each reservation is in
and that the settle answers already given stay true of it; with it every step of
Inventory maps to a step of Holds or a stutter, action by action. The books
balance because the units off the shelf are a set of (reservation, unit) pairs
whose cardinality each action changes by what it moves: this avoids sums, and
with them induction.

**`StockMovements_proofs`**: `Invariant`, `TypeCorrect`, `Agreement`
(AnswersAgree), `LandsOnce` (TwiceOnlyPastTheRing), `OnTheMark` (WatermarkHolds),
`LedgerExplainsShelfHolds`. Claims stay under the ledger of their request; a call past the claim works on
the recorded request; a ring entry is of some claim; an unmarked movement that
landed is in the ring, or RingSize outcomes have landed since; recorded answers
are the claim's result. The ledger needs a second invariant, Books: what stands
of a movement is what the aggregate took of it (the history `took`), or that the
shelf was not there; each write then moves the count by the units that enter or
leave one set of (hold, unit) or (movement, unit) pairs. The premise is that no
movement has landed again past the ring, and for the sum that no claim is
unfinished and none consumed its key on an absent shelf.

**`Sku_proofs`**, of SkuTransfer: `Inductive`, `TypesHold`, `OwedSkuIsKeptHolds`,
`CarriesLoseNothingHolds`. A mover at its release has seen its record go
(DroppedFirst), and a product that has left a sku never comes back to it
(LeftForGood), so two pending carries of one product differ in their source.
For the units, Carried: who applies a carry finds its stamp as it was written or
its token in the target's ring (CarriesAgree), so a credit takes the units out of
the air, and until a sku is used again (OnTime) a source once zeroed has no unit,
no hold and no second stamp, whatever slow movers still come by.

Of SkuOwners: `OwnersInvariant`, `SellersHoldClaimsHolds`,
`OwedSkuStaysClaimedHolds`, `CarriesGoHomeHolds`, `OneSellerPerSkuHolds`,
`NobodySellsOwedUnitsHolds`, for any number of products, skus, commands and
calls, each able to stall, throw or die between any two steps. None of the
properties is inductive: three documents are written one at a time by calls whose
reads may be stale. OwnersInv therefore says, besides what the documents owe one
another (ProductRight), what a call may still rely on of what it read, at the
revisions it read it at: of the product (ReadsRight), of the carries it works on
and of what its undo would release (CarriesRight), and of the claim (ClaimRight:
one about to take over a claim knows that its owner has left the sku and that the
claim is old; one about to commit holds a fresh claim of its own; one about to
release knows that its product has left the sku). The steps are proved in three
groups: those that write neither document (LocalStep), those that write a claim
(ClaimStep) and those that write a product (ProductStep), each lemma saying what
the others keep; Fades and Spared say what a write of another leaves of a call.
There is no premise: calls of one product may overlap. Two of them have met
(Apart), and a call that met none relies on all it read (CarriesRight); one that
has met another works at revisions, so its writes hold even then, and only its
giving back of a claim is unguarded: at that step its product becomes unruly, and
OwnersInv says from then on of the product what does not need the claim. That
suffices for CarriesGoHome of every product.

**`OrderHolds_proofs`**: `Inductive`, `TypesHold`, `PaidKeepsUnitsHolds`,
`ReturnsHolds`, `UnitsReturnOnceHolds`, `DeadOrdersHoldNothingHolds`. An order's
adopted units are given back only by a call that has seen it dead, and dead
orders stay dead; whoever is about to let an order be paid has seen every unit of
it adopted, and until the order dies nobody else can take one (IInv). An order
dies with its release open; whoever closes it has looked at every reservation
since, and what was adopted later is on the list of the call that adopted it
(Returns); a restock is owed only for what was sold to an order that a cancel
took from its buyers.

**`Refunds_proofs`**: `Inductive`, `TypesHold`, `RefundsWithinCeilingHolds`,
`ToldHolds`, `LedgerMatchesProviderHolds`, `ClickRefundsOnceHolds`,
`LateMoneyAnsweredHolds`. A row starts to count when it is inserted, and is
inserted only if there is room for the amount its key carries, which no later
write changes (IInv; cents are counted as pairs, not summed). Told is about what
calls in flight have established and what the writes of the others leave of it:
a row only moves on; it is voided with nothing issued, or is `misread`; a key
is taken up once the ones before it are voided; and a flag is written over only
with its payment left to a person. Heard, a part of it, follows issued money: from
the answer on a call carries it to the row or, where the row is voided by then, to
a flag, and a call that dies with it leaves its key in `unheard`. So KnownOf holds
of every misread row whose key was issued, whoever voided it and when.

**`SignIn_proofs`**: `LinksWithinCapHolds` (the throttle
never holds more than Max slots, and a mailed link that can still be redeemed
holds one, which lapses when the link does), `CustomerInductive`,
`OneCustomerHolds`, `AccountsAreClaimedHolds`. As long as no registrant stops for
longer than Pause, one about to write its account still holds the claim it
stamped just before, for a claim is taken over only a Window after its stamp;
and one about to claim looked so lately that the claim of an account written
since is younger than twice Pause, and refuses it.

**`Coupons_proofs`**: `Inductive`, `TypesHold`, `AnswersStandHolds`,
`CountInvHolds`, `NeverLowHolds`, `NoOverRedeemHolds`, `HighInvHolds`,
`HighOnlyBySeamsHolds`, `SlotsHeldByUsesHolds`, with any number of deaths, stalls
and recounts. IInv says where a call may stand on what record, and that a
redemption leaves an answer only for a release. CountInv counts the uses held,
counted and not yet recorded, or owed: the counter and `mixes` cover them (Lower),
stay within its cap (Cap), and what a kept look of the recount saw covers those
that are left when it writes (KeptLook). Its heart is Fresh: a claim that no call
has brought to the counter is not the coupon's witness, unless its redemption is
`mixed`; a claim that is enters the count at once (InUse), so the step that takes
the old witness for its own changes nothing. No premise is left. HighInv weighs
the counter from above: a key weighs once it has been counted by its owner, and
each step that takes its weight away without giving the use back is a seam.
SlotInv says, for a coupon on which nothing died or stalled, which call answers
for each slot.

**`CartsRollup_proofs`**, of Rollup: `Inductive`, `TypesHold`, `CountedOnceHolds`,
`EventsNotLostHolds`, `LinesInvHolds`, `CleanLinesAreSoldHolds`,
`MonthInvHolds`, `CleanMonthIsItsDaysHolds`. IInv says that a recompute has
absorbed every claim its orders prove before it commits, that an absorbed claim
stays one, and that what is counted was proven to whoever still holds a good pin
of the day: a commit moves the epoch, which refuses the deltas planned before it,
and a delta moves the seq, which refuses the commits pinned before it. LinesInv
adds that an order as read differs from the order as it is only by a move that
came since, and such a move is in no counter that a pinned commit keeps.
MonthInv adds that while the month's gen stands no delta is on its way under a
claim not yet stamped, because a build counts such claims after it pins the gen
and a report touches the month before its delta; whoever moves the counters
otherwise owes a mark. The state of an order is found by the last entry that is
no refund, which is there in every reachable state, so no induction over its life
is needed.

Of Carts: `CartsInductive`, `CartsTypesHold`, `HeldIsFoundHolds`,
`QtyAgreesHolds`, for any number of keys and callers and any cap, whoever dies
between two writes, with no premise but what the two properties say of `stray`
and `torn`. CartsInv says what a call knows where it stands (CallOk) and what the
documents say of one another (Documents): a reservation is a line's only once its
add's claim is done, and a claim that is done makes no line again; a claim is
retired once it is no outstanding add or its expiry is minted (Retired), and units
taken for it afterwards are `stray` at that very step, as are those of a
reservation a line is written over. QtyAgrees needs what a call read before it writes the line: a
cart that moved since refuses the write, so its line is the one it read; the
hold is another document and may have moved, but then by an adjust whose call has
still to write the line (Current). So whenever line and hold differ, a call that
is about to reconcile them is there (LineAgrees), or died and left them `torn`.

**Only model-checked, and why.**

- Liveness (ClaimsResolve, EndedHoldsGo, WorkGetsDone, DeadHoldsGoBack,
  CarriesSettle): fairness and ENABLED are beyond the prover.

Every safety property of every run is stated by a theorem.

## 6. Not modelled, and why

Left out inside modelled components: section 2. Components left out, each with
its reason in PROJECT.json: rendering and sending of e-mails (I/O, at least once
under a lease), entitlements (one create-if-absent per grant), tax and shipping
rules (uniqueness claims of SkuOwners' shape), pricing (pure functions of one
call's inputs), settings and notes (single writes), catalog sync (the caller of
SkuOwners), routes, console and wiring (glue), payment secrets (cryptography),
storage access (its operations are the atomic steps of every module), sites.
The rotating cursor and the tick's budget of the sweeps appear as fairness.

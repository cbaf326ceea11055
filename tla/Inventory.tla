------------------------------ MODULE Inventory ------------------------------
(***************************************************************************)
(* Reservations over the document store: packages/store-emdash/src/        *)
(* emdash-inventory-store.ts.                                              *)
(*                                                                         *)
(* There are no transactions.  A reservation lives in three documents,     *)
(*                                                                         *)
(*   inventory/{sku}          on-hand count AND the live holds taken from  *)
(*                            it (onHand, known, hold: one document)       *)
(*   reservation_keys/{key}   the once-only claim of an idempotency key,   *)
(*                            later its recorded answer (keyDoc)           *)
(*   reservation_index/{rid}  where the hold of an id lives, and how the   *)
(*                            reservation ended (idx)                      *)
(*                                                                         *)
(* and every call is a sequence of single-document reads and               *)
(* compare-and-sets.  A caller is one such call in flight in some isolate; *)
(* Crash ends one between any two of its steps (an isolate killed, or a    *)
(* StorageContentionError after CAS_MAX_ATTEMPTS lost rounds).             *)
(*                                                                         *)
(* A retry loop whose step reads only the document it writes is one        *)
(* action: a lost round changes nothing.  The reserve loop reads the key   *)
(* document between the read and the write of the aggregate, so it is      *)
(* three actions; "fresh" holds the callers whose aggregate read still     *)
(* carries the stored revision.                                            *)
(***************************************************************************)
EXTENDS Integers, FiniteSets

CONSTANTS
  Skus, Keys, Ids, Orders,
  Callers,      \* concurrent calls in flight
  Qtys,         \* quantities callers may ask for
  Requests,     \* the reserve calls callers may make: [sku, qty, key]
  Calls,        \* the other operations callers use
  Moves,        \* sizes of stock movements on a shelf; 0 for a refused one
  MaxSupply,    \* bound on the units ever put on one shelf
  None          \* null / undefined in the documents

Settles  == {"commit", "release", "releaseHeld", "releaseAdopted"}
Flips    == {"adopt", "adoptMany", "stamp"}

ASSUME NoneAssumption == None \notin Ids \cup Orders \cup Skus \cup Keys
ASSUME QtyAssumption == Qtys \subseteq Nat \ {0}
ASSUME RequestAssumption == Requests \subseteq [sku : Skus, qty : Qtys, key : Keys]
ASSUME CallAssumption == Calls \subseteq Settles \cup Flips \cup {"adjust"}
ASSUME MoveAssumption == Moves \subseteq Nat
ASSUME SupplyAssumption == MaxSupply \in Nat

VARIABLES
  onHand,   \* the count of inventory/{sku}
  known,    \* the skus whose document exists
  hold,     \* hold[sku][key]: the hold filed under a reserve key
  keyDoc,   \* reservation_keys/{key}
  idx,      \* reservation_index/{rid}
  call,     \* what each caller is doing
  fresh,    \* callers whose aggregate read is still the stored revision
  \* History, read by no action of the code:
  supply,   \* units put on the shelf less units taken off it by the merchant
  takes,    \* how often a reservation's units were taken off the shelf
  out,      \* the units a reservation has off the shelf
  owner,    \* the order that adopted the reservation's hold
  told,     \* every answer reserve gave under a key: an id, or None (out of stock)
  done      \* every successful settle answered for a reservation

docs == <<onHand, known, hold, keyDoc, idx>>
aggregate == <<onHand, known, hold>>
history == <<supply, takes, out, owner, told, done>>
vars == <<docs, call, fresh, history>>

-----------------------------------------------------------------------------
(* Shapes of the documents *)

Terminals == {"committed", "released", "failed"}

\* A document that does not exist, a hold that is not there and a caller with nothing
\* in flight are records too, so that every field access is defined.
Hold == [rid : Ids \cup {None}, qty : Nat, state : {"none", "held", "adopted"},
         order : Orders \cup {None}, deadline : {"none", "future", "past"}]
NoHold == [rid |-> None, qty |-> 0, state |-> "none", order |-> None, deadline |-> "none"]

KeyDoc == [state : {"absent", "claimed", "terminal"}, sku : Skus \cup {None}, qty : Nat,
           rid : Ids \cup {None}, ok : BOOLEAN]
NoKey == [state |-> "absent", sku |-> None, qty |-> 0, rid |-> None, ok |-> FALSE]

Index == [sku : Skus \cup {None}, key : Keys \cup {None},
          term : Terminals \cup {"absent", "open"}]
NoIndex == [sku |-> None, key |-> None, term |-> "absent"]

ReserveSteps == {"key", "look", "refuse", "claim", "preread", "index", "load", "recheck",
                 "write", "mark", "fail"}
SettleSteps == {"live", "answer", "settle", "prune", "free", "freed", "gone", "goneKey", "flip"}

Call == [at : ReserveSteps \cup SettleSteps \cup {"idle"},
         op : Settles \cup Flips \cup {"none", "reserve"},
         sku : Skus \cup {None}, qty : Nat, key : Keys \cup {None}, rid : Ids \cup {None},
         order : Orders \cup {None},
         ok : BOOLEAN,  \* reserve: the answer this caller is heading for
         won : Terminals \cup {"absent", "open"}]  \* settle: the state that won
Idle == [at |-> "idle", op |-> "none", sku |-> None, qty |-> 0, key |-> None, rid |-> None,
         order |-> None, ok |-> FALSE, won |-> "absent"]

-----------------------------------------------------------------------------
(* Shared steps *)

Goto(p, at)       == call' = [call EXCEPT ![p].at = at]
Decide(p, at, ok) == call' = [call EXCEPT ![p].at = at, ![p].ok = ok]
Win(p, at, t)     == call' = [call EXCEPT ![p].at = at, ![p].won = t]
Follow(p, at, s, q, r) ==
  call' = [call EXCEPT ![p].at = at, ![p].sku = s, ![p].qty = q, ![p].rid = r]
Return(p)         == call' = [call EXCEPT ![p] = Idle]

\* One compare-and-set on inventory/{sku}: every other read of it goes stale.
WriteSku(s, n, k, h) ==
  /\ onHand' = [onHand EXCEPT ![s] = n]
  /\ hold' = [hold EXCEPT ![s][k] = h]
  /\ fresh' = {p \in fresh : call[p].sku # s}
  /\ UNCHANGED known

\* #markKeyTerminal: the first recorded answer wins.
Marked(k, ok, r) ==
  IF keyDoc[k].state = "terminal" THEN keyDoc
  ELSE [keyDoc EXCEPT ![k] = [state |-> "terminal", sku |-> None, qty |-> 0, rid |-> r,
                              ok |-> ok]]

\* #setTerminalState: the first terminal state wins; what won is the answer.
Winner(r, t) == IF idx[r].term \in Terminals THEN idx[r].term ELSE t
Settled(r, t) ==
  IF idx[r].term = "absent" THEN idx ELSE [idx EXCEPT ![r].term = Winner(r, t)]

\* #liveHold: the hold a located reservation still has in the aggregate.
LiveHold(r) ==
  LET h == hold[idx[r].sku][idx[r].key] IN
    IF h.rid = r THEN h ELSE NoHold

\* An id no claim has been minted with.
Unminted == {r \in Ids : \A k \in Keys : keyDoc[k].rid # r}

Tell(k, r) == told' = [told EXCEPT ![k] = @ \cup {r}]

-----------------------------------------------------------------------------
(* reserve(sku, qty, key) *)

BeginReserve(p, m) ==
  /\ call[p] = Idle
  /\ call' = [call EXCEPT ![p] = [Idle EXCEPT !.at = "key", !.op = "reserve", !.sku = m.sku,
                                                !.qty = m.qty, !.key = m.key]]
  /\ UNCHANGED <<docs, fresh, history>>

\* Mutant of ReadKey: a claimed key is taken for a reserve in flight, and left alone.
ReadKeyNoHeal(p) ==
  LET c == call[p]
      d == keyDoc[c.key]
  IN
  /\ c.at = "key"
  /\ IF d.state = "absent" THEN Goto(p, "look") ELSE Return(p)
  /\ UNCHANGED <<docs, fresh, history>>

\* A terminal key answers; a claimed one is completed with ITS sku, qty and id.
ReadKey(p) ==
  LET c == call[p]
      d == keyDoc[c.key]
  IN
  /\ c.at = "key"
  /\ \/ /\ d.state = "terminal"
        /\ Tell(c.key, IF d.ok THEN d.rid ELSE None)
        /\ Return(p)
     \/ /\ d.state = "claimed"
        /\ Follow(p, "preread", d.sku, d.qty, d.rid)
        /\ UNCHANGED told
     \/ /\ d.state = "absent"
        /\ Goto(p, "look")
        /\ UNCHANGED told
  /\ UNCHANGED <<docs, fresh, supply, takes, out, owner, done>>

\* An unknown sku is refused without consuming the key.
Look(p) ==
  LET c == call[p] IN
  /\ c.at = "look"
  /\ IF c.sku \notin known THEN Return(p)
     ELSE Goto(p, IF onHand[c.sku] < c.qty THEN "refuse" ELSE "claim")
  /\ UNCHANGED <<docs, fresh, history>>

\* Out of stock before any id is minted: only the terminal key document.
Refuse(p) ==
  LET c == call[p] IN
  /\ c.at = "refuse"
  /\ IF keyDoc[c.key].state = "absent"
     THEN /\ keyDoc' = Marked(c.key, FALSE, None)
          /\ Tell(c.key, None)
          /\ Return(p)
     ELSE Goto(p, "key") /\ UNCHANGED <<keyDoc, told>>
  /\ UNCHANGED <<aggregate, idx, fresh, supply, takes, out, owner, done>>

\* Mutant of Claim: a plain put, which overwrites a claim a peer has just made.
ClaimByPut(p) ==
  LET c == call[p] IN
  /\ c.at = "claim"
  /\ \E r \in Unminted :
       /\ keyDoc' = [keyDoc EXCEPT ![c.key] =
                       [state |-> "claimed", sku |-> c.sku, qty |-> c.qty, rid |-> r,
                        ok |-> FALSE]]
       /\ Follow(p, "index", c.sku, c.qty, r)
  /\ UNCHANGED <<aggregate, idx, fresh, history>>

Claim(p) ==
  LET c == call[p] IN
  /\ c.at = "claim"
  /\ IF keyDoc[c.key].state = "absent"
     THEN \E r \in Unminted :
            /\ keyDoc' = [keyDoc EXCEPT ![c.key] =
                            [state |-> "claimed", sku |-> c.sku, qty |-> c.qty, rid |-> r,
                             ok |-> FALSE]]
            /\ Follow(p, "index", c.sku, c.qty, r)
     ELSE Goto(p, "key") /\ UNCHANGED keyDoc
  /\ UNCHANGED <<aggregate, idx, fresh, history>>

\* The heal path looks first: a completion that cannot succeed writes no index.
PreRead(p) ==
  LET c == call[p] IN
  /\ c.at = "preread"
  /\ IF hold[c.sku][c.key].state = "none" /\ (c.sku \notin known \/ onHand[c.sku] < c.qty)
     THEN Decide(p, "mark", FALSE)
     ELSE Goto(p, "index")
  /\ UNCHANGED <<docs, fresh, history>>

\* The reverse lookup, before the hold.
WriteIndex(p) ==
  LET c == call[p] IN
  /\ c.at = "index"
  /\ idx' = IF idx[c.rid].term # "absent" THEN idx
            ELSE [idx EXCEPT ![c.rid] = [sku |-> c.sku, key |-> c.key, term |-> "open"]]
  /\ Goto(p, "load")
  /\ UNCHANGED <<aggregate, keyDoc, fresh, history>>

\* getVersioned(inventory/{sku}): ok says whether the guard onHand >= qty held.
Load(p) ==
  LET c == call[p]
      held == hold[c.sku][c.key].state # "none"
  IN
  /\ c.at = "load"
  /\ IF c.sku \notin known \/ held
     THEN /\ Decide(p, "mark", held)
          /\ UNCHANGED fresh
     ELSE /\ Decide(p, "recheck", onHand[c.sku] >= c.qty)
          /\ fresh' = fresh \cup {p}
  /\ UNCHANGED <<docs, history>>

\* Mutant of Recheck: the guard onHand >= qty is dropped.
RecheckNoGuard(p) ==
  LET c == call[p]
      d == keyDoc[c.key]
  IN
  /\ c.at = "recheck"
  /\ IF d.state = "terminal"
     THEN /\ Decide(p, "mark", d.ok)
          /\ fresh' = fresh \ {p}
     ELSE Goto(p, "write") /\ UNCHANGED fresh
  /\ UNCHANGED <<docs, history>>

\* Mutant of Recheck: the key is not read again.
RecheckNoKey(p) ==
  LET c == call[p] IN
  /\ c.at = "recheck"
  /\ IF c.ok THEN Goto(p, "write") /\ UNCHANGED fresh
     ELSE Decide(p, "mark", FALSE) /\ fresh' = fresh \ {p}
  /\ UNCHANGED <<docs, history>>

\* No hold is no proof the decrement never happened: the key is read again.
Recheck(p) ==
  LET c == call[p]
      d == keyDoc[c.key]
  IN
  /\ c.at = "recheck"
  /\ IF d.state = "terminal" \/ ~c.ok
     THEN /\ Decide(p, "mark", d.state = "terminal" /\ d.ok)
          /\ fresh' = fresh \ {p}
     ELSE Goto(p, "write") /\ UNCHANGED fresh
  /\ UNCHANGED <<docs, history>>

\* Mutant of Write: a lost compare-and-set is taken for a written one.
WriteUnchecked(p) ==
  LET c == call[p] IN
  /\ c.at = "write"
  /\ IF p \in fresh
     THEN /\ WriteSku(c.sku, onHand[c.sku] - c.qty, c.key,
                      [rid |-> c.rid, qty |-> c.qty, state |-> "held", order |-> None,
                       deadline |-> "none"])
          /\ takes' = [takes EXCEPT ![c.rid] = @ + 1]
          /\ out' = [out EXCEPT ![c.rid] = @ + c.qty]
     ELSE UNCHANGED <<aggregate, fresh, takes, out>>
  /\ Goto(p, "mark")
  /\ UNCHANGED <<keyDoc, idx, supply, owner, told, done>>

\* The decrement, the guard and the hold in one compare-and-set.
Write(p) ==
  LET c == call[p] IN
  /\ c.at = "write"
  /\ IF p \in fresh
     THEN /\ WriteSku(c.sku, onHand[c.sku] - c.qty, c.key,
                      [rid |-> c.rid, qty |-> c.qty, state |-> "held", order |-> None,
                       deadline |-> "none"])
          /\ takes' = [takes EXCEPT ![c.rid] = @ + 1]
          /\ out' = [out EXCEPT ![c.rid] = @ + c.qty]
          /\ Goto(p, "mark")
     ELSE Goto(p, "load") /\ UNCHANGED <<aggregate, fresh, takes, out>>
  /\ UNCHANGED <<keyDoc, idx, supply, owner, told, done>>

\* The answer goes on the key document; the caller returns its own result.
MarkKey(p) ==
  LET c == call[p] IN
  /\ c.at = "mark"
  /\ keyDoc' = Marked(c.key, c.ok, c.rid)
  /\ IF c.ok THEN Tell(c.key, c.rid) /\ Return(p)
     ELSE Goto(p, "fail") /\ UNCHANGED told
  /\ UNCHANGED <<aggregate, idx, fresh, supply, takes, out, owner, done>>

Fail(p) ==
  LET c == call[p] IN
  /\ c.at = "fail"
  /\ idx' = Settled(c.rid, "failed")
  /\ Tell(c.key, None)
  /\ Return(p)
  /\ UNCHANGED <<aggregate, keyDoc, fresh, supply, takes, out, owner, done>>

-----------------------------------------------------------------------------
(* commit, release, releaseHeld, releaseAdopted, adopt, stampHoldDeadline   *)

\* The ids callers can name: the ones a reserve answered.
Given == UNION {told[k] : k \in Keys} \ {None}

\* Mutant of BeginSettle: a terminal state is answered without finishing its prune.
BeginSettleNoPrune(p, op, r, o) ==
  /\ call[p] = Idle
  /\ op \in Calls \cap (Settles \cup Flips)
  /\ r \in Given
  /\ (o = None) <=> (op \notin {"releaseAdopted", "adopt", "adoptMany"})
  /\ idx[r].term = "open"
  /\ call' = [call EXCEPT ![p] =
       [Idle EXCEPT !.at = IF op \in Flips THEN "flip" ELSE "live", !.op = op, !.rid = r,
                    !.order = o, !.won = "open"]]
  /\ UNCHANGED <<docs, fresh, supply, takes, out, owner, told, done>>

\* A call begins with its index read.  A terminal state is the truth: only the prune
\* it precedes is left; adoptMany and stamp refuse, adopt does not look.
BeginSettle(p, op, r, o) ==
  /\ call[p] = Idle
  /\ op \in Calls \cap (Settles \cup Flips)
  /\ r \in Given
  /\ (o = None) <=> (op \notin {"releaseAdopted", "adopt", "adoptMany"})
  /\ \E at \in SettleSteps :
       /\ IF idx[r].term = "open" \/ op = "adopt"
          THEN at = IF op \in Flips THEN "flip" ELSE "live"
          ELSE at = "prune" /\ op \in Settles
       /\ call' = [call EXCEPT ![p] = [Idle EXCEPT !.at = at, !.op = op, !.rid = r,
                                                     !.order = o, !.won = idx[r].term]]
  /\ UNCHANGED <<docs, fresh, supply, takes, out, owner, told, done>>

\* Mutant of Eligible: a release of an adopted hold does not ask whose it is.
EligibleAnyOrder(c, h) ==
  IF c.op = "releaseHeld" THEN h.state = "held"
  ELSE IF c.op = "releaseAdopted" THEN h.state = "adopted"
  ELSE h.state # "none"

\* Which holds each settle goes on with: any, any held one, or its own order's.
Eligible(c, h) ==
  CASE c.op = "releaseHeld"    -> h.state = "held"
    [] c.op = "releaseAdopted" -> h.state = "adopted" /\ h.order = c.order
    [] OTHER                   -> h.state # "none"

ReadHold(p) ==
  LET c == call[p]
      h == LiveHold(c.rid)
  IN
  /\ c.at = "live"
  /\ \/ Eligible(c, h) /\ Goto(p, "answer")
     \/ h.state = "none" /\ c.op = "releaseHeld" /\ Goto(p, "gone")
     \/ ~Eligible(c, h) /\ ~(h.state = "none" /\ c.op = "releaseHeld") /\ Return(p)
  /\ UNCHANGED <<docs, fresh, history>>

\* A hold exists, so the reserve succeeded: recorded before the hold can go.
RecordAnswer(p) ==
  LET c == call[p] IN
  /\ c.at = "answer"
  /\ keyDoc' = Marked(idx[c.rid].key, TRUE, c.rid)
  /\ Goto(p, IF c.op = "releaseHeld" THEN "free" ELSE "settle")
  /\ UNCHANGED <<aggregate, idx, fresh, history>>

\* Mutant of SettleTerminal: the prune follows the state requested, not the one that won.
SettleByRequest(p) ==
  LET c == call[p]
      t == IF c.op = "commit" THEN "committed" ELSE "released"
  IN
  /\ c.at = "settle"
  /\ idx' = Settled(c.rid, t)
  /\ Win(p, "prune", t)
  /\ UNCHANGED <<aggregate, keyDoc, fresh, history>>

\* #settle: the terminal state, first-wins; the one that won decides the prune.
SettleTerminal(p) ==
  LET c == call[p]
      t == IF c.op = "commit" THEN "committed" ELSE "released"
  IN
  /\ c.at = "settle"
  /\ idx' = Settled(c.rid, t)
  /\ Win(p, "prune", Winner(c.rid, t))
  /\ UNCHANGED <<aggregate, keyDoc, fresh, history>>

\* Mutant of Unhold: the hold goes and its units do not come back.
UnholdLost(r, back) ==
  LET h == LiveHold(r)
      i == idx[r]
  IN
  /\ WriteSku(i.sku, onHand[i.sku], i.key, NoHold)
  /\ out' = IF back THEN [out EXCEPT ![r] = @ - h.qty] ELSE out

\* The hold goes, its units come back when the reservation was released.
Unhold(r, back) ==
  LET h == LiveHold(r)
      i == idx[r]
  IN
  /\ WriteSku(i.sku, IF back THEN onHand[i.sku] + h.qty ELSE onHand[i.sku], i.key, NoHold)
  /\ out' = IF back THEN [out EXCEPT ![r] = @ - h.qty] ELSE out

\* What a finished settle tells its caller, when it tells it success.
Answered(c, won) ==
  done' = IF \/ c.op = "commit" /\ won = "committed"
             \/ c.op \in {"release", "releaseHeld"} /\ won = "released"
          THEN [done EXCEPT ![c.rid] = @ \cup {won}] ELSE done

\* withoutPruned, by the terminal state that WON.  "failed" prunes nothing.
Prune(p) ==
  LET c == call[p] IN
  /\ c.at = "prune"
  /\ IF c.won # "failed" /\ LiveHold(c.rid).state # "none"
     THEN Unhold(c.rid, c.won = "released")
     ELSE UNCHANGED <<aggregate, fresh, out>>
  /\ Answered(c, c.won)
  /\ Return(p)
  /\ UNCHANGED <<keyDoc, idx, supply, takes, owner, told>>

\* Mutant of Free: the state of the hold is not looked at again.
FreeAny(p) ==
  LET c == call[p]
      h == LiveHold(c.rid)
  IN
  /\ c.at = "free"
  /\ IF h.state # "none" THEN Unhold(c.rid, TRUE) /\ Goto(p, "freed")
     ELSE UNCHANGED <<aggregate, fresh, out>> /\ Goto(p, "gone")
  /\ UNCHANGED <<keyDoc, idx, supply, takes, owner, told, done>>

\* releaseHeld decides INSIDE the aggregate write whether the hold is still held.
Free(p) ==
  LET c == call[p]
      h == LiveHold(c.rid)
  IN
  /\ c.at = "free"
  /\ IF h.state = "held" THEN Unhold(c.rid, TRUE)
     ELSE UNCHANGED <<aggregate, fresh, out>>
  /\ \/ h.state = "none" /\ Goto(p, "gone")
     \/ h.state = "adopted" /\ Return(p)
     \/ h.state = "held" /\ Goto(p, "freed")
  /\ UNCHANGED <<keyDoc, idx, supply, takes, owner, told, done>>

Freed(p) ==
  LET c == call[p] IN
  /\ c.at = "freed"
  /\ idx' = Settled(c.rid, "released")
  /\ Answered(c, Winner(c.rid, "released"))
  /\ Return(p)
  /\ UNCHANGED <<aggregate, keyDoc, fresh, supply, takes, out, owner, told>>

\* #releasedWithoutHold: the index, then the key, decide what a missing hold means.
Gone(p) ==
  LET c == call[p]
      t == idx[c.rid].term
  IN
  /\ c.at = "gone"
  /\ IF t # "open" THEN Return(p) /\ Answered(c, t)
     ELSE Goto(p, "goneKey") /\ UNCHANGED done
  /\ UNCHANGED <<docs, fresh, supply, takes, out, owner, told>>

GoneKey(p) ==
  LET c == call[p]
      d == keyDoc[idx[c.rid].key]
  IN
  /\ c.at = "goneKey"
  /\ IF d.state = "terminal" /\ d.ok /\ d.rid = c.rid THEN Goto(p, "freed") ELSE Return(p)
  /\ UNCHANGED <<docs, fresh, history>>

\* One compare-and-set that changes a held hold: adopt it, or stamp its deadline.
Flip(p) ==
  LET c == call[p]
      h == LiveHold(c.rid)
      i == idx[c.rid]
      adopts == c.op # "stamp"
  IN
  /\ c.at = "flip"
  /\ IF h.state = "held" /\ (adopts => h.deadline = "future")
     THEN /\ WriteSku(i.sku, onHand[i.sku], i.key,
                      [h EXCEPT !.state = IF adopts THEN "adopted" ELSE "held",
                                !.order = c.order, !.deadline = "future"])
          /\ owner' = IF adopts THEN [owner EXCEPT ![c.rid] = c.order] ELSE owner
     ELSE UNCHANGED <<aggregate, fresh, owner>>
  /\ Return(p)
  /\ UNCHANGED <<keyDoc, idx, supply, takes, out, told, done>>

-----------------------------------------------------------------------------
(* The other writers of the aggregate, one compare-and-set each, and the world *)

\* seedOnHand: create if absent.
Seed(s) ==
  /\ s \notin known
  /\ \E n \in 0..MaxSupply :
       /\ onHand' = [onHand EXCEPT ![s] = n]
       /\ supply' = [supply EXCEPT ![s] = n]
  /\ known' = known \cup {s}
  /\ fresh' = {p \in fresh : call[p].sku # s}
  /\ UNCHANGED <<hold, keyDoc, idx, call, takes, out, owner, told, done>>

\* The aggregate write of a restock (n > 0), of a guarded removal (n < 0), or of a
\* refused one, which writes only its witness (n = 0).
MoveStock(s, n) ==
  /\ s \in known
  /\ onHand[s] + n >= 0
  /\ supply[s] + n <= MaxSupply
  /\ onHand' = [onHand EXCEPT ![s] = @ + n]
  /\ supply' = [supply EXCEPT ![s] = @ + n]
  /\ fresh' = {p \in fresh : call[p].sku # s}
  /\ UNCHANGED <<known, hold, keyDoc, idx, call, takes, out, owner, told, done>>

\* The aggregate write of an adjust: a held hold moves to q units, the shelf with it.
Adjust(s, k, q) ==
  LET h == hold[s][k] IN
  /\ "adjust" \in Calls
  /\ h.state = "held"
  /\ onHand[s] >= q - h.qty
  /\ WriteSku(s, onHand[s] - (q - h.qty), k, [h EXCEPT !.qty = q])
  /\ out' = [out EXCEPT ![h.rid] = @ + (q - h.qty)]
  /\ UNCHANGED <<keyDoc, idx, call, supply, takes, owner, told, done>>

\* Time passes a hold's deadline.  Nothing is written: no read goes stale.
Lapse(s, k) ==
  /\ hold[s][k].deadline = "future"
  /\ hold' = [hold EXCEPT ![s][k].deadline = "past"]
  /\ UNCHANGED <<onHand, known, keyDoc, idx, call, fresh, history>>

\* The isolate dies, or its retry budget runs out: the call is gone, its writes stay.
Crash(p) ==
  /\ call[p] # Idle
  /\ Return(p)
  /\ fresh' = fresh \ {p}
  /\ UNCHANGED <<docs, history>>

-----------------------------------------------------------------------------
Init ==
  /\ onHand = [s \in Skus |-> 0]
  /\ known = {}
  /\ hold = [s \in Skus |-> [k \in Keys |-> NoHold]]
  /\ keyDoc = [k \in Keys |-> NoKey]
  /\ idx = [r \in Ids |-> NoIndex]
  /\ call = [p \in Callers |-> Idle]
  /\ fresh = {}
  /\ supply = [s \in Skus |-> 0]
  /\ takes = [r \in Ids |-> 0]
  /\ out = [r \in Ids |-> 0]
  /\ owner = [r \in Ids |-> None]
  /\ told = [k \in Keys |-> {}]
  /\ done = [r \in Ids |-> {}]

ReserveStep(p) ==
  \/ ReadKey(p) \/ Look(p) \/ Refuse(p) \/ Claim(p) \/ PreRead(p) \/ WriteIndex(p)
  \/ Load(p) \/ Recheck(p) \/ Write(p) \/ MarkKey(p) \/ Fail(p)

SettleStep(p) ==
  \/ ReadHold(p) \/ RecordAnswer(p) \/ SettleTerminal(p) \/ Prune(p)
  \/ Free(p) \/ Freed(p) \/ Gone(p) \/ GoneKey(p) \/ Flip(p)

Begin(p) ==
  \/ \E m \in Requests : BeginReserve(p, m)
  \/ \E op \in Calls, r \in Ids, o \in Orders \cup {None} : BeginSettle(p, op, r, o)

Other(s) ==
  \/ Seed(s)
  \/ \E n \in Moves : MoveStock(s, n) \/ MoveStock(s, -n)
  \/ \E k \in Keys : Lapse(s, k) \/ \E q \in Qtys : Adjust(s, k, q)

Step ==
  \/ \E p \in Callers : Begin(p) \/ ReserveStep(p) \/ SettleStep(p)
  \/ \E s \in Skus : Other(s)

Next == Step \/ \E p \in Callers : Crash(p)

Spec == Init /\ [][Next]_vars

-----------------------------------------------------------------------------
(* Properties *)

\* The documents, the calls and the history have the shapes the code gives them.
TypeOK ==
  /\ onHand \in [Skus -> Nat]
  /\ known \in SUBSET Skus
  /\ hold \in [Skus -> [Keys -> Hold]]
  /\ keyDoc \in [Keys -> KeyDoc]
  /\ idx \in [Ids -> Index]
  /\ call \in [Callers -> Call]
  /\ fresh \in SUBSET Callers
  /\ supply \in [Skus -> Int]
  /\ takes \in [Ids -> Nat]
  /\ out \in [Ids -> Int]
  /\ owner \in [Ids -> Orders \cup {None}]
  /\ told \in [Keys -> SUBSET (Ids \cup {None})]
  /\ done \in [Ids -> SUBSET Terminals]

\* However many callers complete one claim, and however often a settle is raced or
\* replayed, a reservation's units leave the shelf at most once and come back at
\* most once (the point of the embedded hold, the key re-read and the prune).
UnitsMoveOnce == \A r \in Ids : takes[r] <= 1 /\ out[r] >= 0

\* No oversell, as bookkeeping: what was supplied is on the shelf, or off it on the
\* account of exactly one reservation.  Off(s) has one element for each unit that is off.
Off(s) == UNION {{r} \X (1..out[r]) : r \in {i \in Ids : idx[i].sku = s}}
UnitsConserved == \A s \in Skus : onHand[s] + Cardinality(Off(s)) = supply[s]

\* Nobody is told a reservation succeeded whose units were not taken.
ReserveAnswersBacked ==
  \A k \in Keys : \A r \in told[k] \ {None} : takes[r] = 1

\* A settle that answered success stays the truth: the reservation ended that way,
\* its hold is gone, and released units are back on the shelf.
SettleAnswersStand ==
  \A r \in Ids : \A t \in done[r] :
    /\ idx[r].term = t
    /\ LiveHold(r).state = "none"
    /\ t = "released" => out[r] = 0

\* The reservations as Holds sees them.  A terminal state with the hold still in the
\* aggregate has decided where the units are; without one, the hold's absence has.
Place(r) ==
  LET t == idx[r].term IN
    IF takes[r] = 0 THEN "none"
    ELSE IF LiveHold(r).state = "none" THEN (IF out[r] = 0 THEN "back" ELSE "sold")
    ELSE IF t = "committed" THEN "sold"
    ELSE IF t = "released" THEN "back"
    ELSE "held"
Asking(r) ==
  {call[p].order : p \in {q \in Callers : /\ call[q].rid = r
                                           /\ call[q].op \in {"release", "releaseAdopted"}}}
Units == [r \in Ids |-> [st |-> Place(r), owner |-> owner[r]]]
Askers == [r \in Ids |-> Asking(r)]
H == INSTANCE Holds WITH unit <- Units, asking <- Askers

\* The calls, their crashes and their races implement the life of a reservation: one
\* adopter, one way out, and an adopted hold's units back on the shelf only while its
\* order or an unscoped release is at work on it -- no cart, no other order, no stale
\* releaseHeld that read the hold while it was still held.  A committed sale of an
\* adopted hold keeps its units.
ImplementsHolds == H!Spec

\* Every caller of one reserve key gets the same answer (the module header, lines 23-26,
\* and the design notes say so; the code does not keep it: see the README).
OneAnswer == \A k \in Keys : Cardinality(told[k]) <= 1

\* A reservation recorded as failed holds nothing (the port: "failed" is an OUT_OF_STOCK
\* rejection; the code can leave it a live hold nobody may release: see the README).
FailedHoldsNothing == \A r \in Ids : idx[r].term = "failed" => LiveHold(r).state = "none"

-----------------------------------------------------------------------------
(* The inductive invariant: what every document and every step already taken *)
(* by a caller say about one another                                         *)

\* Steps of reserve that carry the id of a claim.
Claimed(c) == c.at \in {"preread", "index", "load", "recheck", "write", "mark", "fail"}
KeyIsTerminal(k) == keyDoc[k].state = "terminal"

\* An id belongs to one key, and its index document to the claim of that key.
ClaimsAgree ==
  /\ \A k1, k2 \in Keys :
       k1 # k2 /\ keyDoc[k1].rid # None => keyDoc[k1].rid # keyDoc[k2].rid
  /\ \A k \in Keys : keyDoc[k].state = "absent" => keyDoc[k].rid = None
  /\ \A k \in Keys : keyDoc[k].state = "claimed" =>
       keyDoc[k].rid # None /\ keyDoc[k].sku # None /\ keyDoc[k].qty > 0
  /\ \A r \in Ids : idx[r].term # "absent" =>
       /\ idx[r].key # None /\ idx[r].sku # None
       /\ keyDoc[idx[r].key].rid = r
       /\ keyDoc[idx[r].key].state = "claimed" => keyDoc[idx[r].key].sku = idx[r].sku
       /\ idx[r].term \in {"committed", "released"} => KeyIsTerminal(idx[r].key)

\* A caller completing a claim agrees with it and with its index, and any two agree.
Completer(p) ==
  LET c == call[p] IN
  /\ c.at \in ReserveSteps => c.sku # None /\ c.key # None /\ c.qty > 0
  /\ Claimed(c) => /\ c.rid # None
                   /\ keyDoc[c.key].rid = c.rid
                   /\ keyDoc[c.key].state = "claimed" => keyDoc[c.key].sku = c.sku
                   /\ idx[c.rid].term # "absent" => idx[c.rid].sku = c.sku /\ idx[c.rid].key = c.key
                   /\ c.at \in {"load", "recheck", "write"} => idx[c.rid].term # "absent"
                   /\ c.at = "mark" /\ c.ok => takes[c.rid] = 1
SameClaim(p, q) ==
  Claimed(call[p]) /\ Claimed(call[q]) /\ call[p].rid = call[q].rid => call[p].sku = call[q].sku
CompletersAgree == /\ \A p \in Callers : Completer(p)
                   /\ \A p, q \in Callers : SameClaim(p, q)

\* A hold is its reservation's, in the right place; a reservation without one either
\* never took units or has a key that already tells every replayer so.
HoldsAgree ==
  /\ \A s \in Skus, k \in Keys : hold[s][k].state # "none" =>
       LET r == hold[s][k].rid IN
         /\ idx[r].term # "absent"
         /\ idx[r].sku = s
         /\ idx[r].key = k
         /\ takes[r] = 1
         /\ out[r] = hold[s][k].qty
  /\ \A s \in Skus, k \in Keys :
       IF hold[s][k].state = "none" THEN hold[s][k].rid = None
       ELSE hold[s][k].rid # None /\ hold[s][k].qty > 0
  /\ \A r \in Ids :
       /\ takes[r] \in {0, 1}
       /\ takes[r] = 0 => out[r] = 0
       /\ takes[r] = 1 => /\ idx[r].term # "absent"
                          /\ out[r] >= 0
                          /\ LiveHold(r).state = "none" => KeyIsTerminal(idx[r].key)

\* What a caller with the stored revision in hand may rely on when it writes.
Reader(p) ==
  LET c == call[p] IN
  /\ c.at \in {"recheck", "write"}
  /\ hold[c.sku][c.key].state = "none"
  /\ c.ok => onHand[c.sku] >= c.qty
  /\ c.at = "write" => takes[c.rid] = 0 /\ c.ok
ReadsAgree == \A p \in fresh : Reader(p)

\* Answers: what was recorded or told was taken.
AnswersAgree ==
  /\ \A k \in Keys : KeyIsTerminal(k) /\ keyDoc[k].ok =>
       keyDoc[k].rid # None /\ takes[keyDoc[k].rid] = 1
  /\ \A k \in Keys : \A r \in told[k] \ {None} : takes[r] = 1

\* A settle in progress: the answer is recorded before anything can be pruned.
Settler(p) ==
  LET c == call[p] IN c.at \in SettleSteps =>
    /\ c.rid # None
    /\ takes[c.rid] = 1
    /\ c.at \in {"settle", "free", "freed"} => KeyIsTerminal(idx[c.rid].key)
    /\ c.at = "prune" => c.won = idx[c.rid].term /\ c.won # "open"
SettlesAgree == \A p \in Callers : Settler(p)

IInv == /\ TypeOK
        /\ ClaimsAgree
        /\ CompletersAgree
        /\ HoldsAgree
        /\ ReadsAgree
        /\ AnswersAgree
        /\ SettlesAgree
-----------------------------------------------------------------------------
(* What the refinement needs beyond IInv: where the units of a reservation are, *)
(* and what a settle at work on it may rely on                                  *)

Ends == {"committed", "released"}
End(r)       == IF idx[r].term \in Ends THEN idx[r].term ELSE "open"
HeldState(r) == IF takes[r] = 0 THEN "none" ELSE LiveHold(r).state
HeldFor(r)   == IF takes[r] = 0 THEN None ELSE LiveHold(r).order

\* Only a commit leaves units off the shelf with no hold; an adopted hold names its
\* adopter, a held one has none; a success once answered is still the truth.
Stands(r) ==
  /\ takes[r] = 0 => End(r) = "open" /\ owner[r] = None /\ done[r] = {}
  /\ takes[r] = 1 /\ HeldState(r) = "none" /\ out[r] # 0 => End(r) = "committed"
  /\ HeldState(r) = "held" => owner[r] = None
  /\ HeldState(r) = "adopted" => owner[r] # None /\ HeldFor(r) = owner[r]
  /\ \A d \in done[r] : /\ d \in Ends /\ End(r) = d
                        /\ HeldState(r) = "none"
                        /\ d = "released" => out[r] = 0

\* A settle past its read of the hold still has what it read: its order's adoption, or
\* the hold's absence.
Relies(p) ==
  LET c == call[p] IN c.at \in SettleSteps =>
    /\ c.at = "flip" => c.op \in Flips
    /\ c.op \in {"adopt", "adoptMany", "releaseAdopted"} => c.order # None
    /\ c.at # "flip" => c.op \in Settles
    /\ c.op \in {"commit", "release", "releaseHeld"} => c.order = None
    /\ c.at \in {"answer", "settle"} /\ c.op = "releaseAdopted" => owner[c.rid] = c.order
    /\ c.at = "settle" => c.op # "releaseHeld"
    /\ c.at \in {"free", "freed", "gone", "goneKey"} => c.op = "releaseHeld"
    /\ c.at \in {"freed", "gone", "goneKey"} => HeldState(c.rid) = "none"

UnitsStand == (\A r \in Ids : Stands(r)) /\ (\A p \in Callers : Relies(p))
=============================================================================

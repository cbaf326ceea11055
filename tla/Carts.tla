--------------------------------- MODULE Carts ---------------------------------
(***************************************************************************)
(* One cart's line of one sku and the reservations made for it:            *)
(* domain/src/cart/use-cases.ts over store-emdash/src/emdash-cart-store.ts. *)
(*                                                                         *)
(* The cart is one document: the line, the ledger of mutations and the     *)
(* deadline index the sweep finds it by.  A reservation is another, under  *)
(* the key of the add that made it, and it is moved by Inventory's         *)
(* operations, each of which is one step here.  A shopper adds, updates    *)
(* and removes under keys, again and again; two tabs do so at once; the    *)
(* sweep expires what has lapsed, and a checkout takes the line's hold.    *)
(* Any of them may die between two writes.                                 *)
(***************************************************************************)
EXTENDS Naturals, FiniteSets

CONSTANTS
  Keys,     \* the shopper's idempotency keys
  MaxLine,  \* the cap on a line's quantity; an add asks for one
  Callers,  \* concurrent calls in flight
  None

ASSUME NoneAssumption == None \notin Keys
ASSUME MaxAssumption  == MaxLine \in Nat \ {0}

VARIABLES
  cart,     \* the cart document
  located,  \* keys the mutation index resolves to the cart
  hold,     \* the reservation made under each key
  adj,      \* what the movement ledger recorded of the adjust under each key
  req,      \* what the shopper asks for under each key
  call,     \* what each caller is doing
  stray,    \* history: reservations held where no sweep will look, see HeldIsFound
  torn      \* history: reservations whose adjust died before its line agreed

cartsVars == <<cart, located, hold, adj, req, call, stray, torn>>

-----------------------------------------------------------------------------
(* Shapes *)

\* A line keeps the id its first add gave it, whatever reservation it stands on.  `lapsed`:
\* its deadline has passed; `expiring`: an expiry of it is claimed and owed.
Line   == [id : Keys, rid : Keys, qty : 1..MaxLine, lapsed : BOOLEAN, expiring : BOOLEAN]
NoLine == [id |-> None, rid |-> None, qty |-> 0, lapsed |-> FALSE, expiring |-> FALSE]

\* A mutation record; `old`: claimed a TTL ago.
Kinds    == {"add", "adjust", "remove"}
Record   == [st : {"none", "open", "done", "abandoned"}, kind : Kinds \cup {"none"},
             old : BOOLEAN, expiring : BOOLEAN]
NoRecord == [st |-> "none", kind |-> "none", old |-> FALSE, expiring |-> FALSE]

\* "claimed": the key document is there, the reservation's index document is not;
\* "indexed": the index is, the units are not taken; "freed": they are back, and the index
\* does not say so yet.
HoldStates == {"none", "claimed", "indexed", "held", "adopted", "sold", "freed", "released",
               "failed"}
Hold == [st : HoldStates, qty : 0..MaxLine]

Requests == [op : {"add"}, id : {None}, q : {1}] \cup [op : {"update"}, id : Keys, q : 1..MaxLine]
              \cup [op : {"remove"}, id : Keys, q : {1}]
NoRequest == [op |-> "none", id |-> None, q |-> 0]

Operations == {"none", "add", "update", "remove", "renew", "get", "sweep", "checkout"}
Steps == {"idle", "resolve", "guard", "claim", "locate", "reserve", "abandon", "attach", "write",
          "adjust", "sync", "put", "release", "record", "delete", "narrow", "collect", "heal",
          "next", "token", "complete", "adopt", "stamp"}
Candidates == {"line", "claim"} \X Keys
Call == [op : Operations, at : Steps, k : Keys \cup {None}, id : Keys \cup {None},
         r : Keys \cup {None},       \* the reservation it works on
         q : 0..MaxLine + 1,         \* the quantity asked for
         d : 0..MaxLine,             \* the hold's quantity as read, 0 for none
         rec : {"none", "done"} \cup Kinds,  \* the record as it was resolved
         fresh : BOOLEAN,            \* the cart is as it was read
         todo : SUBSET Candidates,   \* sweep: candidates, then what it found
         dead : SUBSET Candidates,   \* sweep: candidates that can no longer expire
         settled : BOOLEAN]          \* expiry: the reservation had ended when read
NoCall == [op |-> "none", at |-> "idle", k |-> None, id |-> None, r |-> None, q |-> 0, d |-> 0,
         rec |-> "none", fresh |-> FALSE, todo |-> {}, dead |-> {}, settled |-> FALSE]

-----------------------------------------------------------------------------
(* The cart document *)

OpenAdd(m) == m.kind = "add" /\ m.st = "open"

\* computeHoldExpiresAt, as the set of the deadlines its minimum is over: the line's, and
\* those of the outstanding add claims.
Deadlines(line, mut) ==
  {<<"line", r>> : r \in {line.rid} \ {None}}
    \cup {<<"claim", k>> : k \in {k \in Keys : OpenAdd(mut[k])}}

\* A write that leaves the index as the document says, and makes every other read stale.
BecomeCall(p, c) == call' = [call EXCEPT ![p] = c]
Saved(p, c)  == call' = [q \in Callers |-> IF q = p THEN c ELSE [call[q] EXCEPT !.fresh = FALSE]]
Write(line, mut) ==
  cart' = [cart EXCEPT !.line = line, !.mut = mut, !.index = Deadlines(line, mut)]
WriteRecord(k, m) == Write(cart.line, [cart.mut EXCEPT ![k] = m])

\* #completion: neither `expiring` nor `abandoned` is carried over.
Completed(k, kind) ==
  [NoRecord EXCEPT !.st = "done",
                   !.kind = IF cart.mut[k].st = "none" THEN kind ELSE cart.mut[k].kind]

At(p, at)   == call[p].at = at
StepTo(p, at) == BecomeCall(p, [call[p] EXCEPT !.at = at])
Return(p)   == BecomeCall(p, NoCall)

others  == <<located, adj, req, stray, torn>>
quiet   == <<cart, hold, others>>
HasLine(id) == cart.line.id = id /\ id # None

Move(r, st) == hold' = [hold EXCEPT ![r].st = st]

-----------------------------------------------------------------------------
(* A mutation under its key: use-cases.ts *)

\* A request, or its retry: what is asked for under a key does not change.
Ask(p, k, m) ==
  /\ call[p] = NoCall
  /\ req[k] \in {NoRequest, m}
  /\ req' = [req EXCEPT ![k] = m]
  /\ BecomeCall(p, [NoCall EXCEPT !.op = m.op, !.at = "resolve", !.k = k, !.id = m.id, !.q = m.q])
  /\ UNCHANGED <<cart, located, hold, adj, stray, torn>>

\* resolveMutationKey: a record is found through its locator, or not at all.
Resolve(p) ==
  LET c == call[p]
      m == cart.mut[c.k]
  IN
  /\ At(p, "resolve")
  /\ IF c.k \in located /\ m.st = "done" THEN Return(p)
     ELSE BecomeCall(p, [c EXCEPT !.at = "guard",
                                  !.rec = IF c.k \in located THEN m.kind ELSE "none"])
  /\ UNCHANGED quiet

\* guardActiveCart, and what each use case makes of the line it reads.
Guard(p) ==
  LET c == call[p]
      line == cart.line
      held == hold[line.rid].st
      with == [c EXCEPT !.r = line.rid]
  IN
  /\ At(p, "guard")
  /\ \/ cart.state # "active" /\ Return(p)
     \* a line is there: an add becomes an update of it, unless it resumes its own claim
     \/ /\ cart.state = "active" /\ c.op = "add"
        /\ IF line # NoLine /\ c.rec # "add"
           THEN BecomeCall(p, [c EXCEPT !.op = "update", !.at = "resolve", !.id = line.id,
                                    !.q = line.qty + 1])
           ELSE BecomeCall(p, [c EXCEPT !.at = "claim"])
     \/ /\ cart.state = "active" /\ c.op = "update"
        /\ IF HasLine(c.id) /\ c.q <= MaxLine /\ held = "held"
           THEN BecomeCall(p, [with EXCEPT !.at = "claim"]) ELSE Return(p)
     \/ /\ cart.state = "active" /\ c.op = "remove"
        /\ IF ~HasLine(c.id) \/ held \notin {"held", "freed", "released"} THEN Return(p)
           ELSE BecomeCall(p, [with EXCEPT !.at = IF held = "released" THEN "delete" ELSE "claim"])
  /\ UNCHANGED quiet

KindOf == [add |-> "add", update |-> "adjust", remove |-> "remove"]

\* claimMutation: the key's record, created or found.
ClaimMutation(p) ==
  LET c == call[p]
      m == cart.mut[c.k]
  IN
  /\ At(p, "claim")
  /\ IF m.st = "none"
     THEN /\ WriteRecord(c.k, [NoRecord EXCEPT !.st = "open", !.kind = KindOf[c.op]])
          /\ Saved(p, [c EXCEPT !.at = "locate"])
     ELSE /\ BecomeCall(p, [c EXCEPT !.at = "locate",
                                 !.rec = IF m.st = "done" THEN "done" ELSE @])
          /\ UNCHANGED cart
  /\ UNCHANGED <<hold, others>>

\* #ensureLocator, after the record.
Locate(p) ==
  LET c == call[p] IN
  /\ At(p, "locate")
  /\ located' = located \cup {c.k}
  /\ \/ c.op = "remove" /\ StepTo(p, "release")
     \/ c.op # "remove" /\ c.rec = "done" /\ Return(p)
     \/ c.op = "add" /\ c.rec # "done" /\ StepTo(p, "reserve")
     \/ c.op = "update" /\ c.rec # "done" /\ StepTo(p, "adjust")
  /\ UNCHANGED <<cart, hold, adj, req, stray, torn>>

-----------------------------------------------------------------------------
(* addLine *)

\* Inventory's reserve, which a replay takes up where it was left: the key document, the
\* index, the units.  Units taken for a claim the sweep no longer looks at are nobody's.
Reserve(p) ==
  LET c == call[p]
      st == hold[c.k].st
      take == /\ hold' = [hold EXCEPT ![c.k] = [st |-> "held", qty |-> 1]]
              /\ stray' = IF /\ OpenAdd(cart.mut[c.k]) /\ ~cart.mut[c.k].expiring
                             /\ <<"claim", c.k>> \in cart.index
                          THEN stray ELSE stray \cup {c.k}
              /\ StepTo(p, "attach")
      step(next) == Move(c.k, next) /\ UNCHANGED <<call, stray>>
  IN
  /\ At(p, "reserve")
  /\ \/ st = "none" /\ (step("claimed") \/ step("failed"))
     \/ st = "claimed" /\ step("indexed")
     \/ st = "indexed" /\ (take \/ step("failed"))
     \/ st = "failed" /\ StepTo(p, "abandon") /\ UNCHANGED <<hold, stray>>
     \/ st \in {"held", "adopted", "sold", "freed", "released"} /\ StepTo(p, "attach")
          /\ UNCHANGED <<hold, stray>>
  /\ UNCHANGED <<cart, located, adj, req, torn>>

\* abandonClaim: out of stock, for good under this key.
Abandon(p) ==
  LET c == call[p]
      m == cart.mut[c.k]
  IN
  /\ At(p, "abandon")
  /\ IF m.st = "open" THEN WriteRecord(c.k, [m EXCEPT !.st = "abandoned"]) /\ Saved(p, NoCall)
     ELSE Return(p) /\ UNCHANGED cart
  /\ UNCHANGED <<hold, others>>

\* upsertLine reads the cart and stamps the hold, if it is still held ...
Attach(p) ==
  LET c == call[p] IN
  /\ At(p, "attach")
  /\ IF cart.mut[c.k].st \in {"done", "abandoned"} \/ hold[c.k].st # "held" THEN Return(p)
     ELSE BecomeCall(p, [c EXCEPT !.at = "write", !.fresh = TRUE])
  /\ UNCHANGED quiet

\* ... and writes the line over whatever reservation it stood on.
WriteLine(p) ==
  LET c == call[p]
      was == cart.line
  IN
  /\ At(p, "write")
  /\ IF c.fresh
     THEN /\ Write([NoLine EXCEPT !.id = IF was = NoLine THEN c.k ELSE was.id, !.rid = c.k,
                                  !.qty = 1],
                   [cart.mut EXCEPT ![c.k] = Completed(c.k, "add")])
          /\ stray' = stray \cup
                        {r \in Keys \ {c.k} : r = was.rid /\ hold[r].st = "held"}
          /\ Saved(p, NoCall)
     ELSE StepTo(p, "attach") /\ UNCHANGED <<cart, stray>>
  /\ UNCHANGED <<located, hold, adj, req, torn>>

-----------------------------------------------------------------------------
(* updateLine *)

\* Inventory's adjust: under its key once, on the hold it first named, while it is held.
Adjust(p) ==
  LET c == call[p]
      was == adj[c.k]
  IN
  /\ At(p, "adjust")
  /\ \/ /\ was.rid # None
        /\ IF was.rid = c.r /\ was.ok THEN StepTo(p, "sync") ELSE Return(p)
        /\ UNCHANGED <<hold, adj>>
     \/ was.rid = None /\ hold[c.r].st # "held" /\ Return(p) /\ UNCHANGED <<hold, adj>>
     \/ /\ was.rid = None /\ hold[c.r].st = "held"
        /\ hold' = [hold EXCEPT ![c.r].qty = c.q]
        /\ adj' = [adj EXCEPT ![c.k] = [rid |-> c.r, ok |-> TRUE]]
        /\ StepTo(p, "sync")
     \/ /\ was.rid = None /\ hold[c.r].st = "held" /\ hold[c.r].qty < c.q
        /\ adj' = [adj EXCEPT ![c.k] = [rid |-> c.r, ok |-> FALSE]]
        /\ Return(p) /\ UNCHANGED hold
  /\ UNCHANGED <<cart, located, req, stray, torn>>

\* adjustLine reads the line, then its hold's quantity; a completed key is done once they
\* agree.
Sync(p) ==
  LET c == call[p]
      line == cart.line
      d == IF hold[line.rid].st \in {"held", "adopted"} THEN hold[line.rid].qty ELSE 0
  IN
  /\ At(p, "sync")
  /\ IF ~HasLine(c.id) \/ (cart.mut[c.k].st = "done" /\ d \in {0, line.qty}) THEN Return(p)
     ELSE BecomeCall(p, [c EXCEPT !.at = "put", !.d = d, !.fresh = TRUE])
  /\ UNCHANGED quiet

\* Mutant of Put: the line says what its caller asked for, not what the hold has.
PutAsked(p) ==
  LET c == call[p]
      first == cart.mut[c.k].st # "done"
      line == [cart.line EXCEPT !.qty = c.q, !.lapsed = IF first THEN FALSE ELSE @]
  IN
  /\ At(p, "put")
  /\ IF c.fresh
     THEN /\ Write(line, [cart.mut EXCEPT ![c.k] = IF first THEN Completed(c.k, "adjust") ELSE @])
          /\ Saved(p, IF first THEN [c EXCEPT !.at = "sync", !.fresh = FALSE] ELSE NoCall)
          /\ stray' = stray \cup {k \in {c.k} : OpenAdd(cart.mut[k]) /\ hold[k].st = "held"}
     ELSE StepTo(p, "sync") /\ UNCHANGED <<cart, stray>>
  /\ UNCHANGED <<located, hold, adj, req, torn>>

\* The quantity as read, or the one asked for when there is no hold.  The write that
\* completes the key goes round once more; the one that repairs the quantity does not.
Put(p) ==
  LET c == call[p]
      first == cart.mut[c.k].st # "done"
      line == [cart.line EXCEPT !.qty = IF c.d = 0 THEN c.q ELSE c.d,
                                !.lapsed = IF first THEN FALSE ELSE @]
  IN
  /\ At(p, "put")
  /\ IF c.fresh
     THEN /\ Write(line, [cart.mut EXCEPT ![c.k] = IF first THEN Completed(c.k, "adjust") ELSE @])
          /\ Saved(p, IF first THEN [c EXCEPT !.at = "sync", !.fresh = FALSE] ELSE NoCall)
          /\ stray' = stray \cup {k \in {c.k} : OpenAdd(cart.mut[k]) /\ hold[k].st = "held"}
     ELSE StepTo(p, "sync") /\ UNCHANGED <<cart, stray>>
  /\ UNCHANGED <<located, hold, adj, req, torn>>

-----------------------------------------------------------------------------
(* releaseHeld, for a remove, for a replaced cart and for an expiry *)

\* The units go back in the write that finds them held; a remove that finds them an
\* order's is refused, an expiry does not mind.
Release(p) ==
  LET c == call[p]
      st == hold[c.r].st
      refused == IF c.op = "sweep" \/ c.op = "get" THEN StepTo(p, "complete") ELSE Return(p)
  IN
  /\ At(p, "release")
  /\ \/ st = "held" /\ Move(c.r, "freed") /\ StepTo(p, "record")
     \/ st \in {"freed", "released"} /\ StepTo(p, "record") /\ UNCHANGED hold
     \/ st \notin {"held", "freed", "released"} /\ refused /\ UNCHANGED hold
  /\ UNCHANGED <<cart, others>>

Freed(p) ==
  LET c == call[p] IN
  /\ At(p, "record")
  /\ Move(c.r, "released")
  /\ \/ c.op = "remove" /\ StepTo(p, "delete")
     \/ c.op = "renew" /\ Return(p)
     \/ c.op \in {"sweep", "get"} /\ StepTo(p, "complete")
  /\ UNCHANGED <<cart, others>>

\* removeLine: the line goes in the write that completes the key.
Delete(p) ==
  LET c == call[p] IN
  /\ At(p, "delete")
  /\ IF cart.mut[c.k].st = "done" THEN Return(p) /\ UNCHANGED <<cart, stray>>
     ELSE /\ Write(IF HasLine(c.id) THEN NoLine ELSE cart.line,
                   [cart.mut EXCEPT ![c.k] = Completed(c.k, "remove")])
          /\ Saved(p, NoCall)
          /\ stray' = stray \cup
                        {r \in Keys \ {c.r} : HasLine(c.id) /\ r = cart.line.rid /\ hold[r].st = "held"}
  /\ UNCHANGED <<located, hold, adj, req, torn>>

\* replaceStaleCurrencyCart gives a live hold back and leaves the line.
Renew(p) ==
  LET r == cart.line.rid IN
  /\ call[p] = NoCall
  /\ cart.state = "active" /\ r # None /\ ~cart.line.lapsed /\ hold[r].st = "held"
  /\ BecomeCall(p, [NoCall EXCEPT !.op = "renew", !.at = "release", !.r = r])
  /\ UNCHANGED quiet

-----------------------------------------------------------------------------
(* Expiry *)

\* An old outstanding add claim; the lapsed line.
Due(line, mut) ==
  {<<"line", r>> : r \in IF line.lapsed THEN {line.rid} ELSE {}}
    \cup {<<"claim", k>> : k \in {k \in Keys : OpenAdd(mut[k]) /\ mut[k].old}}

\* A candidate that carries an expiry token is owed its completion.
Token(x) ==
  IF x[1] = "line" THEN cart.line.rid = x[2] /\ cart.line.expiring ELSE cart.mut[x[2]].expiring

\* getCart expires the line it reads, when that has lapsed and its hold is the cart's.
Get(p) ==
  LET r == cart.line.rid IN
  /\ call[p] = NoCall
  /\ cart.line.lapsed /\ hold[r].st = "held"
  /\ BecomeCall(p, [NoCall EXCEPT !.op = "get", !.at = "next", !.todo = {<<"line", r>>}])
  /\ UNCHANGED quiet

\* The deadline index has the cart listed: a claim's is the time it was made.
Listed == \E x \in cart.index : x[1] = "claim" \/ (x[1] = "line" /\ cart.line.lapsed)

\* listExpired: the arms are applied to the document as it was read.
List(p) ==
  /\ call[p] = NoCall
  /\ Listed
  /\ BecomeCall(p, [NoCall EXCEPT !.op = "sweep",
                            !.at = IF cart.state = "active" THEN "collect" ELSE "narrow",
                            !.todo = Due(cart.line, cart.mut)])
  /\ UNCHANGED quiet

\* Mutant of Narrow: a checked-out cart owes no claim anything.
NarrowClaims(p) ==
  LET line == IF cart.line.rid # None /\ (cart.line.expiring \/ hold[cart.line.rid].st = "held")
              THEN cart.line ELSE NoLine
      mut == [k \in Keys |-> NoRecord]
  IN
  /\ At(p, "narrow")
  /\ cart' = [cart EXCEPT !.index = Deadlines(line, mut)]
  /\ Saved(p, [call[p] EXCEPT !.at = "collect", !.todo = Due(line, mut)])
  /\ UNCHANGED <<hold, others>>

\* #narrowCheckedOut: what a checked-out cart still owes; only the index is written.
Narrow(p) ==
  LET line == IF cart.line.rid # None /\ (cart.line.expiring \/ hold[cart.line.rid].st = "held")
              THEN cart.line ELSE NoLine
      mut  == [k \in Keys |-> IF OpenAdd(cart.mut[k]) /\ hold[k].st = "failed" THEN NoRecord
                              ELSE cart.mut[k]]
      index == Deadlines(line, mut)
      c == [call[p] EXCEPT !.at = "collect", !.todo = Due(line, mut)]
  IN
  /\ At(p, "narrow")
  /\ cart' = [cart EXCEPT !.index = index]
  /\ IF index = cart.index THEN BecomeCall(p, c) ELSE Saved(p, c)
  /\ UNCHANGED <<hold, others>>

\* #collectExpired: a candidate whose reservation has ended can no longer expire.  One that
\* has no index document yet is taken for ended too.
Collect(p) ==
  LET c == call[p]
      made == {x \in c.todo : hold[x[2]].st \notin {"none", "failed"}}
      live == {x \in made : Token(x) \/ hold[x[2]].st \notin {"claimed", "sold", "released"}}
      dead == made \ live
  IN
  /\ At(p, "collect")
  /\ BecomeCall(p, [c EXCEPT !.at = IF dead # {} /\ cart.state = "active" THEN "heal" ELSE "next",
                         !.todo = live, !.dead = dead])
  /\ UNCHANGED quiet

\* #healDeadCandidates: the index without them, and nothing else.
HealDead(p) ==
  LET c == call[p]
      index == Deadlines(cart.line, cart.mut) \ {x \in c.dead : ~Token(x)}
      next == [c EXCEPT !.at = "next", !.dead = {}]
  IN
  /\ At(p, "heal")
  /\ IF cart.state # "active" \/ index = cart.index THEN BecomeCall(p, next) /\ UNCHANGED cart
     ELSE cart' = [cart EXCEPT !.index = index] /\ Saved(p, next)
  /\ stray' = stray \cup {x[2] : x \in {x \in cart.index \ cart'.index : hold[x[2]].st = "held"}}
  /\ UNCHANGED <<located, hold, adj, req, torn>>

\* expireHold of the next reservation found: its index document, its key's locator.
Expire(p) ==
  LET c == call[p] IN
  /\ At(p, "next")
  /\ \/ c.todo = {} /\ Return(p)
     \/ \E x \in c.todo :
          LET st == hold[x[2]].st
              rest == [c EXCEPT !.todo = @ \ {x}] IN
          BecomeCall(p, IF st \in {"none", "claimed"} \/ x[2] \notin located THEN rest
                    ELSE [rest EXCEPT !.at = "token", !.r = x[2],
                                      !.settled = st \in {"sold", "released"}])
  /\ UNCHANGED quiet

\* #claimExpiry: the token goes on the line, or on the claim that never came to one.
Mint(p) ==
  LET c == call[p]
      line == cart.line
      m == cart.mut[c.r]
      st == hold[c.r].st
      skip == StepTo(p, "next") /\ UNCHANGED cart
      owed == StepTo(p, "release") /\ UNCHANGED cart
      mint == Saved(p, [c EXCEPT !.at = "release"])
  IN
  /\ At(p, "token")
  /\ \/ /\ line.rid = c.r
        /\ IF line.expiring THEN owed
           ELSE IF c.settled \/ ~line.lapsed \/ st # "held" THEN skip
           ELSE Write([line EXCEPT !.expiring = TRUE], cart.mut) /\ mint
     \/ /\ line.rid # c.r
        /\ IF ~OpenAdd(m) \/ ~m.old THEN skip
           ELSE IF m.expiring THEN owed
           ELSE IF c.settled \/ st = "adopted" THEN skip
           ELSE WriteRecord(c.r, [m EXCEPT !.expiring = TRUE]) /\ mint
  /\ UNCHANGED <<hold, others>>

\* #completeExpiry: the line goes, an unfinished claim is retired.
Complete(p) ==
  LET c == call[p]
      m == cart.mut[c.r]
      next == [c EXCEPT !.at = "next", !.settled = FALSE, !.r = None]
  IN
  /\ At(p, "complete")
  /\ IF cart.line.rid # c.r /\ m.st \in {"none", "done", "abandoned"}
     THEN BecomeCall(p, next) /\ UNCHANGED cart
     ELSE /\ Write(IF cart.line.rid = c.r THEN NoLine ELSE cart.line,
                   [cart.mut EXCEPT ![c.r].st = IF @ = "open" THEN "abandoned" ELSE @])
          /\ Saved(p, next)
  /\ UNCHANGED <<hold, others>>

-----------------------------------------------------------------------------
(* Checkout, and the world *)

\* create-order-from-cart: the cart's snapshot, the adoption, the stamp.
Checkout(p) ==
  /\ call[p] = NoCall
  /\ cart.state = "active" /\ cart.line # NoLine
  /\ BecomeCall(p, [NoCall EXCEPT !.op = "checkout", !.at = "adopt", !.r = cart.line.rid])
  /\ UNCHANGED quiet

\* A hold that is not held, or past its own deadline, is lost, and the order with it.
Adopt(p) ==
  LET c == call[p] IN
  /\ At(p, "adopt")
  /\ \/ hold[c.r].st = "held" /\ Move(c.r, "adopted") /\ StepTo(p, "stamp")
     \/ Return(p) /\ UNCHANGED hold
  /\ UNCHANGED <<cart, others>>

\* checkout: the first order to ask has the cart.
StampCart(p) ==
  /\ At(p, "stamp")
  /\ IF cart.state = "active"
     THEN cart' = [cart EXCEPT !.state = "checked_out"] /\ Saved(p, NoCall)
     ELSE Return(p) /\ UNCHANGED cart
  /\ UNCHANGED <<hold, others>>

\* The order that adopted a hold sells it, or gives it back.
OrderEnds(r) ==
  /\ hold[r].st = "adopted"
  /\ Move(r, "sold") \/ Move(r, "released")
  /\ UNCHANGED <<cart, call, others>>

\* Time passes for the line and for the claims.  A deadline set under a sweep does not
\* lapse before the sweep is over: a TTL is longer than an invocation.
NoSweep == \A p \in Callers : call[p].op \notin {"sweep", "get"}
Lapse ==
  /\ NoSweep
  /\ \/ /\ cart.line # NoLine /\ ~cart.line.lapsed
        /\ cart' = [cart EXCEPT !.line.lapsed = TRUE]
     \/ \E k \in Keys :
          /\ OpenAdd(cart.mut[k]) /\ ~cart.mut[k].old
          /\ cart' = [cart EXCEPT !.mut[k].old = TRUE]
  /\ UNCHANGED <<hold, call, others>>

\* An adjust that landed is reconciled with its line by its own call, or not at all.
CallCrash(p) ==
  LET c == call[p] IN
  /\ c # NoCall
  /\ Return(p)
  /\ torn' = IF c.at \in {"sync", "put"} /\ cart.line # NoLine THEN torn \cup {cart.line.rid} ELSE torn
  /\ UNCHANGED <<cart, located, hold, adj, req, stray>>

-----------------------------------------------------------------------------
CartsInit ==
  /\ cart = [state |-> "active", line |-> NoLine, mut |-> [k \in Keys |-> NoRecord], index |-> {}]
  /\ located = {} /\ stray = {} /\ torn = {}
  /\ hold = [k \in Keys |-> [st |-> "none", qty |-> 0]]
  /\ adj = [k \in Keys |-> [rid |-> None, ok |-> FALSE]]
  /\ req = [k \in Keys |-> NoRequest]
  /\ call = [p \in Callers |-> NoCall]

Shop(p) == \/ \E k \in Keys, m \in Requests : Ask(p, k, m)
           \/ Renew(p) \/ Get(p) \/ Checkout(p)
Step(p) ==
  \/ Resolve(p) \/ Guard(p) \/ ClaimMutation(p) \/ Locate(p) \/ Reserve(p) \/ Abandon(p)
  \/ Attach(p) \/ WriteLine(p) \/ Adjust(p) \/ Sync(p) \/ Put(p)
  \/ Release(p) \/ Freed(p) \/ Delete(p)
  \/ Narrow(p) \/ Collect(p) \/ HealDead(p) \/ Expire(p) \/ Mint(p) \/ Complete(p)
  \/ Adopt(p) \/ StampCart(p)
World == Lapse \/ \E r \in Keys : OrderEnds(r)
CartsNext ==
  \/ \E p \in Callers : Shop(p) \/ List(p) \/ Step(p) \/ CallCrash(p)
  \/ World
CartsSpec == CartsInit /\ [][CartsNext]_cartsVars

-----------------------------------------------------------------------------
CartsTypeOK ==
  /\ cart \in [state : {"active", "checked_out"}, line : Line \cup {NoLine},
               mut : [Keys -> Record], index : SUBSET Candidates]
  /\ located \subseteq Keys /\ stray \subseteq Keys /\ torn \subseteq Keys
  /\ hold \in [Keys -> Hold]
  /\ adj \in [Keys -> [rid : Keys \cup {None}, ok : BOOLEAN]]
  /\ req \in [Keys -> Requests \cup {NoRequest}]
  /\ call \in [Callers -> Call]

\* No units are held that the sweep will not find: they are the line's, or an outstanding
\* add claim's, and the deadline index has it, whoever died on the way.  The exceptions are
\* all of them: units taken for a claim that is no longer an outstanding add, or that a
\* sweep had dropped from the index, and a reservation that a line was written over.
HeldIsFound ==
  \A r \in Keys :
    hold[r].st = "held" =>
      \/ cart.line.rid = r /\ <<"line", r>> \in cart.index
      \/ OpenAdd(cart.mut[r]) /\ <<"claim", r>> \in cart.index
      \/ r \in stray

\* With every update finished the line says what its hold holds, in whatever order the
\* adjusts moved the units and wrote the line.
Updating == \E p \in Callers : call[p].at \in {"sync", "put"}
QtyAgrees ==
  LET r == cart.line.rid IN
  r # None /\ hold[r].st = "held" /\ ~Updating /\ r \notin torn => cart.line.qty = hold[r].qty
=============================================================================

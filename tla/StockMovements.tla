--------------------------- MODULE StockMovements ---------------------------
(***************************************************************************)
(* Restock, removal and hold adjustment on one shelf: the movement half of *)
(* packages/store-emdash/src/emdash-inventory-store.ts.                    *)
(*                                                                         *)
(* A movement is two documents: inventory_movements/{ledger:key}, which    *)
(* records the intent and later the answer, and the aggregate of the sku,  *)
(* whose bounded ring of applied keys is the only witness that the units   *)
(* moved while the answer is not recorded yet.  Every call is claim, one   *)
(* compare-and-set on the aggregate, mark, read the answer back, and any   *)
(* replayer of the key continues from what it finds.                       *)
(***************************************************************************)
EXTENDS Integers, FiniteSets

CONSTANTS
  Keys,         \* idempotency keys
  Rids,         \* reservations that may hold units of this shelf
  Callers,      \* concurrent calls in flight
  Requests,     \* the movements callers may ask for: [kind, qty, exp, rid]
  StockKeys,    \* the keys restocks and removals are presented under
  AdjustKeys,   \* the keys adjusts are presented under
  HoldQtys,     \* quantities reservations take
  RingSize,     \* APPLIED_MOVEMENT_RING_SIZE
  MaxOnHand,    \* bound on the count of the shelf
  CanWithdraw,  \* whether a sku rename may withdraw the shelf's pristine document
  None

Ledgers == {"stock", "adjust"}
Kinds == {"restock", "removal", "adjust"}
LedgerOf(kind) == IF kind = "adjust" THEN "adjust" ELSE "stock"

ASSUME NoneAssumption == None \notin Keys \cup Rids \cup Int
ASSUME RequestAssumption ==
  /\ Requests \subseteq [kind : Kinds, qty : Nat \ {0}, exp : Nat \cup {None},
                         rid : Rids \cup {None}]
  /\ \A req \in Requests : req.kind = "adjust" => req.rid \in Rids /\ req.exp = None
ASSUME KeyAssumption == StockKeys \subseteq Keys /\ AdjustKeys \subseteq Keys
ASSUME RingAssumption == RingSize \in Nat \ {0}
ASSUME BoundAssumption == CanWithdraw \in BOOLEAN /\ MaxOnHand \in Nat /\ HoldQtys \subseteq Nat \ {0}

VARIABLES
  known,    \* inventory/{sku} exists
  onHand,   \* its count
  hold,     \* its holds, by reservation
  ring,     \* its applied movements
  claim,    \* inventory_movements/{ledger:key}
  call,     \* what each caller is doing
  \* History, read by no action of the code:
  seeded,   \* what seedOnHand put on the shelf
  sold,     \* units that left with a committed reservation
  landed,   \* the movements whose outcome the aggregate has taken
  took,     \* the last outcome it took of each
  later,    \* outcomes the aggregate took after that one (RingSize: so many or more)
  relanded, \* what later was when an outcome was taken a second time
  answers,  \* every recorded outcome a caller was given, by movement
  refused   \* what a hold was when its adjust was told it is not held

aggregate == <<known, onHand, hold, ring>>
history == <<seeded, sold, landed, took, later, relanded, answers, refused>>
vars == <<aggregate, claim, call, history>>

MoveIds == Ledgers \X Keys

\* An outcome: applied, or why not.
Outcome == [ok : BOOLEAN, why : {"none", "stale", "insufficient", "unknown"}, onHand : Nat]
Ok(n) == [ok |-> TRUE, why |-> "none", onHand |-> n]
Refusal(why, n) == [ok |-> FALSE, why |-> why, onHand |-> n]
NoOutcome == Refusal("none", 0)

Request == [kind : Kinds, qty : Nat, exp : Nat \cup {None}, rid : Rids \cup {None}]
NoRequest == [kind |-> "restock", qty |-> 0, exp |-> None, rid |-> None]

Claim == [state : {"absent", "claimed", "applied"}, req : Request, result : Outcome]
NoClaim == [state |-> "absent", req |-> NoRequest, result |-> NoOutcome]

Hold == [state : {"none", "held", "adopted", "gone"}, qty : Nat, last : Keys \cup {None}]
NoHold == [state |-> "none", qty |-> 0, last |-> None]

Entry == [ledger : Ledgers, key : Keys, result : Outcome, age : 0..RingSize - 1]

Call == [at : {"idle", "claim", "look", "create", "apply", "resolve", "witness", "mark", "back"},
         key : Keys \cup {None}, req : Request, result : Outcome]
Idle == [at |-> "idle", key |-> None, req |-> NoRequest, result |-> NoOutcome]

-----------------------------------------------------------------------------
IdOf(c) == <<LedgerOf(c.req.kind), c.key>>
Goto(p, at) == call' = [call EXCEPT ![p].at = at]
Decide(p, at, o) == call' = [call EXCEPT ![p].at = at, ![p].result = o]
Return(p) == call' = [call EXCEPT ![p] = Idle]
Answer(p, o) ==
  /\ answers' = [answers EXCEPT ![IdOf(call[p])] = @ \cup {o}]
  /\ Return(p)

\* findAppliedMovement: the entry of a key, whichever ledger it belongs to.
Remembered(key) == {e \in ring : e.key = key}

\* pushAppliedMovement: an entry replaces the one of the same key, and the oldest goes.
\* An entry's age is its distance from the newest end.
Push(id, o) ==
  LET replaced == Remembered(id[2])
      Older(e) == \E x \in replaced : x.age < e.age
      aged == {[e EXCEPT !.age = IF Older(e) THEN @ ELSE @ + 1] : e \in ring \ replaced}
  IN {e \in aged : e.age < RingSize}
       \cup {[ledger |-> id[1], key |-> id[2], result |-> o, age |-> 0]}

\* The aggregate takes outcome o of caller p's movement, in one compare-and-set.
Take(p, o) ==
  LET id == IdOf(call[p]) IN
  /\ ring' = Push(id, o)
  /\ landed' = landed \cup {id}
  /\ took' = [took EXCEPT ![id] = o]
  /\ relanded' = IF id \in landed THEN relanded \cup {later[id]} ELSE relanded
  /\ later' = [m \in MoveIds |->
                 IF m = id THEN 0
                 ELSE IF m \in landed /\ later[m] < RingSize THEN later[m] + 1
                 ELSE later[m]]

\* A claim recorded with no watermark is honoured whatever the caller now sends.
Matches(rec, req) ==
  IF rec.kind = "adjust" THEN rec.rid = req.rid
  ELSE rec.kind = req.kind /\ rec.qty = req.qty /\ rec.exp \in {None, req.exp}

-----------------------------------------------------------------------------
(* #moveStock and adjust *)

Begin(p, key, req) ==
  /\ call[p] = Idle
  /\ key \in IF req.kind = "adjust" THEN AdjustKeys ELSE StockKeys
  /\ call' = [call EXCEPT ![p] = [Idle EXCEPT !.at = "claim", !.key = key, !.req = req]]
  /\ UNCHANGED <<aggregate, claim, history>>

\* An applied claim is the answer; a pending one is completed AS RECORDED; a key that
\* names another movement is rejected.
ReadClaim(p) ==
  LET c == call[p]
      d == claim[IdOf(c)]
  IN
  /\ c.at = "claim"
  /\ \/ d.state = "absent" /\ Goto(p, "look") /\ UNCHANGED answers
     \/ d.state # "absent" /\ ~Matches(d.req, c.req) /\ Return(p) /\ UNCHANGED answers
     \/ d.state = "applied" /\ Matches(d.req, c.req) /\ Answer(p, d.result)
     \/ /\ d.state = "claimed" /\ Matches(d.req, c.req)
        /\ call' = [call EXCEPT ![p].at = "apply", ![p].req = d.req]
        /\ UNCHANGED answers
  /\ UNCHANGED <<aggregate, claim, seeded, sold, landed, took, later, relanded, refused>>

\* Guards that run before the claim leave the key unconsumed.
Look(p) ==
  LET c == call[p] IN
  /\ c.at = "look"
  /\ IF IF c.req.kind = "adjust" THEN hold[c.req.rid].state = "held" ELSE known
     THEN Goto(p, "create") ELSE Return(p)
  /\ UNCHANGED <<aggregate, claim, history>>

Create(p) ==
  LET c == call[p] IN
  /\ c.at = "create"
  /\ IF claim[IdOf(c)].state = "absent"
     THEN /\ claim' = [claim EXCEPT ![IdOf(c)] = [NoClaim EXCEPT !.state = "claimed",
                                                                 !.req = c.req]]
          /\ Goto(p, "apply")
     ELSE Goto(p, "claim") /\ UNCHANGED claim
  /\ UNCHANGED <<aggregate, history>>

\* Mutant of Judge: the watermark is not looked at.
JudgeNoWatermark(req) ==
  IF req.kind = "restock" THEN Ok(onHand + req.qty)
  ELSE IF onHand < req.qty THEN Refusal("insufficient", onHand)
  ELSE Ok(onHand - req.qty)

\* Mutant of Judge: a removal larger than the count is not refused.
JudgeNoGuard(req) ==
  IF req.exp # None /\ onHand # req.exp THEN Refusal("stale", onHand)
  ELSE Ok(IF req.kind = "restock" THEN onHand + req.qty ELSE onHand - req.qty)

\* The outcome of a stock movement against the aggregate as read.
Judge(req) ==
  IF req.exp # None /\ onHand # req.exp THEN Refusal("stale", onHand)
  ELSE IF req.kind = "restock" THEN Ok(onHand + req.qty)
  ELSE IF onHand < req.qty THEN Refusal("insufficient", onHand)
  ELSE Ok(onHand - req.qty)

\* Mutant of ApplyStock: the ring is not asked whether the key has landed.
ApplyStockBlind(p) ==
  LET c == call[p]
      o == Judge(c.req)
  IN
  /\ c.at = "apply" /\ c.req.kind # "adjust" /\ known
  /\ o.onHand <= MaxOnHand
  /\ onHand' = o.onHand
  /\ Take(p, o)
  /\ Decide(p, "mark", o)
  /\ UNCHANGED <<known, hold, claim, seeded, sold, answers, refused>>

\* #applyStockClaim: one guarded write of the count and of the ring.
ApplyStock(p) ==
  LET c == call[p]
      seen == {e \in Remembered(c.key) : e.ledger = "stock"}
      o == Judge(c.req)
  IN
  /\ c.at = "apply" /\ c.req.kind # "adjust"
  /\ IF ~known \/ seen # {}
     THEN /\ Decide(p, "mark", IF known THEN (CHOOSE e \in seen : TRUE).result
                               ELSE Refusal("unknown", 0))
          /\ UNCHANGED <<onHand, ring, landed, took, later, relanded>>
     ELSE /\ o.onHand <= MaxOnHand
          /\ onHand' = o.onHand
          /\ Take(p, o)
          /\ Decide(p, "mark", o)
  /\ UNCHANGED <<known, hold, claim, seeded, sold, answers, refused>>

\* #applyAdjustClaim.  Nothing to write: the key landed before, as the ring or the hold
\* remembers, or there is no hold to move.  Both are answered in the next phase.
AdjustDone(p) ==
  LET c == call[p]
      h == hold[c.req.rid]
  IN
  /\ c.at = "apply" /\ c.req.kind = "adjust"
  /\ \/ ~known
     \/ Remembered(c.key) # {}
     \/ h.state \in {"none", "gone"}
     \/ h.last = c.key
  /\ Goto(p, "resolve")
  /\ UNCHANGED <<aggregate, claim, history>>

\* The absolute target is applied to the quantity the hold has NOW, and the difference
\* to the shelf, in one write; an increase the shelf cannot back is refused for good.
ApplyAdjust(p) ==
  LET c == call[p]
      h == hold[c.req.rid]
      delta == c.req.qty - h.qty
  IN
  /\ c.at = "apply" /\ c.req.kind = "adjust"
  /\ known /\ Remembered(c.key) = {} /\ h.last # c.key
  /\ \/ /\ h.state = "adopted"
        /\ Return(p)
        /\ UNCHANGED <<aggregate, landed, took, later, relanded>>
     \/ /\ h.state = "held" /\ onHand < delta
        /\ Take(p, Refusal("insufficient", 0))
        /\ Goto(p, "resolve")
        /\ UNCHANGED <<known, onHand, hold>>
     \/ /\ h.state = "held" /\ onHand >= delta /\ onHand - delta <= MaxOnHand
        /\ onHand' = onHand - delta
        /\ hold' = [hold EXCEPT ![c.req.rid].qty = c.req.qty, ![c.req.rid].last = c.key]
        /\ Take(p, Ok(0))
        /\ Goto(p, "resolve")
        /\ UNCHANGED known
  /\ UNCHANGED <<claim, seeded, sold, answers, refused>>

\* #resolveAdjustAnswer: the claim, or else ...
Resolve(p) ==
  LET c == call[p]
      d == claim[IdOf(c)]
  IN
  /\ c.at = "resolve"
  /\ IF d.state = "applied" THEN Answer(p, d.result) ELSE Goto(p, "witness") /\ UNCHANGED answers
  /\ UNCHANGED <<aggregate, claim, seeded, sold, landed, took, later, relanded, refused>>

\* ... the aggregate's witness; with neither, the reservation is reported as not held.
Witness(p) ==
  LET c == call[p]
      seen == {e \in Remembered(c.key) : e.ledger = "adjust"}
  IN
  /\ c.at = "witness"
  /\ IF seen # {} \/ hold[c.req.rid].last = c.key
     THEN /\ Decide(p, "mark", IF seen # {} THEN (CHOOSE e \in seen : TRUE).result ELSE Ok(0))
          /\ UNCHANGED refused
     ELSE Return(p) /\ refused' = refused \cup {hold[c.req.rid].state}
  /\ UNCHANGED <<aggregate, claim, seeded, sold, landed, took, later, relanded, answers>>

\* Mutant of Mark: the last outcome recorded wins.
MarkAnyway(p) ==
  LET c == call[p] IN
  /\ c.at = "mark"
  /\ claim' = [claim EXCEPT ![IdOf(c)].state = "applied", ![IdOf(c)].result = c.result]
  /\ Goto(p, "back")
  /\ UNCHANGED <<aggregate, history>>

\* #markMovementApplied: the first outcome recorded wins.
Mark(p) ==
  LET c == call[p]
      id == IdOf(c)
  IN
  /\ c.at = "mark"
  /\ claim' = IF claim[id].state = "applied" THEN claim
              ELSE [claim EXCEPT ![id].state = "applied", ![id].result = c.result]
  /\ Goto(p, "back")
  /\ UNCHANGED <<aggregate, history>>

\* The answer is read back: whoever recorded first owns it.
ReadBack(p) ==
  /\ call[p].at = "back"
  /\ Answer(p, claim[IdOf(call[p])].result)
  /\ UNCHANGED <<aggregate, claim, seeded, sold, landed, took, later, relanded, refused>>

-----------------------------------------------------------------------------
(* The other writers of the aggregate, one compare-and-set each *)

\* seedOnHand: create if absent.
Seed ==
  /\ ~known
  /\ known' = TRUE
  /\ \E n \in 0..MaxOnHand : onHand' = n /\ seeded' = seeded + n
  /\ UNCHANGED <<hold, ring, claim, call, sold, landed, took, later, relanded, answers, refused>>

\* withdrawPristineClaim: only a document that never held anything is deleted.
Withdraw ==
  /\ CanWithdraw /\ known /\ onHand = 0 /\ ring = {}
  /\ \A r \in Rids : hold[r].state \in {"none", "gone"}
  /\ known' = FALSE
  /\ UNCHANGED <<onHand, hold, ring, claim, call, history>>

\* The aggregate write of a reserve.
Reserve(r) ==
  /\ known /\ hold[r].state = "none"
  /\ \E q \in HoldQtys :
       /\ q <= onHand
       /\ onHand' = onHand - q
       /\ hold' = [hold EXCEPT ![r] = [state |-> "held", qty |-> q, last |-> None]]
  /\ UNCHANGED <<known, ring, claim, call, history>>

Adopt(r) ==
  /\ hold[r].state = "held"
  /\ hold' = [hold EXCEPT ![r].state = "adopted"]
  /\ UNCHANGED <<known, onHand, ring, claim, call, history>>

\* The prune of a released hold, and of a committed one.
Prune(r, back) ==
  /\ hold[r].state \in {"held", "adopted"}
  /\ back => onHand + hold[r].qty <= MaxOnHand
  /\ hold' = [hold EXCEPT ![r] = [NoHold EXCEPT !.state = "gone"]]
  /\ onHand' = IF back THEN onHand + hold[r].qty ELSE onHand
  /\ sold' = IF back THEN sold ELSE sold + hold[r].qty
  /\ UNCHANGED <<known, ring, claim, call, seeded, landed, took, later, relanded, answers, refused>>

\* The isolate dies, or its retry budget runs out.
Crash(p) ==
  /\ call[p] # Idle
  /\ Return(p)
  /\ UNCHANGED <<aggregate, claim, history>>

-----------------------------------------------------------------------------
Init ==
  /\ known = FALSE
  /\ onHand = 0
  /\ hold = [r \in Rids |-> NoHold]
  /\ ring = {}
  /\ claim = [m \in MoveIds |-> NoClaim]
  /\ call = [p \in Callers |-> Idle]
  /\ seeded = 0
  /\ sold = 0
  /\ landed = {}
  /\ took = [m \in MoveIds |-> NoOutcome]
  /\ later = [m \in MoveIds |-> 0]
  /\ relanded = {}
  /\ answers = [m \in MoveIds |-> {}]
  /\ refused = {}

Step(p) ==
  \/ ReadClaim(p) \/ Look(p) \/ Create(p) \/ ApplyStock(p) \/ AdjustDone(p) \/ ApplyAdjust(p)
  \/ Resolve(p) \/ Witness(p) \/ Mark(p) \/ ReadBack(p)

Next ==
  \/ \E p \in Callers : Step(p) \/ Crash(p)
  \/ \E p \in Callers, key \in Keys, req \in Requests : Begin(p, key, req)
  \/ Seed \/ Withdraw
  \/ \E r \in Rids : Reserve(r) \/ Adopt(r) \/ Prune(r, TRUE) \/ Prune(r, FALSE)

Spec == Init /\ [][Next]_vars

-----------------------------------------------------------------------------
(* Properties *)

\* The documents and the calls have the shapes the code gives them; the count of the
\* shelf is never negative, and the ring holds at most RingSize keys, each once.
TypeOK ==
  /\ known \in BOOLEAN
  /\ onHand \in Nat
  /\ hold \in [Rids -> Hold]
  /\ ring \subseteq Entry /\ \A e1, e2 \in ring : e1.age = e2.age \/ e1.key = e2.key => e1 = e2
  /\ claim \in [MoveIds -> Claim]
  /\ call \in [Callers -> Call]
  /\ seeded \in Nat /\ sold \in Nat
  /\ landed \subseteq MoveIds /\ took \in [MoveIds -> Outcome]
  /\ later \in [MoveIds -> 0..RingSize] /\ relanded \subseteq 0..RingSize
  /\ answers \in [MoveIds -> SUBSET Outcome]

\* Callers of one movement key are never told different outcomes, however they race,
\* crash and replay, and even when the ring has forgotten the key.
AnswersAgree == \A m \in MoveIds : Cardinality(answers[m]) <= 1

\* An outcome reaches the aggregate a second time only after so many later outcomes on
\* the same shelf that the ring has forgotten it (the residual the ring's comment states).
TwiceOnlyPastTheRing == relanded \subseteq {RingSize}

OnItsMark(req, o) ==
  o.ok /\ req.exp # None =>
    o.onHand = IF req.kind = "restock" THEN req.exp + req.qty ELSE req.exp - req.qty

\* A movement decided against a count is applied to that count and no other, whatever
\* moved while it was in flight (the removal's watermark, judged in the same write).
WatermarkHolds ==
  \A m \in MoveIds : claim[m].state = "applied" => OnItsMark(claim[m].req, claim[m].result)

\* A sku nobody seeded does not consume a movement key (the comment of #moveStock says so;
\* a rename that withdraws the document between the check and the claim breaks it).
UnknownKeepsKey == \A m \in MoveIds : claim[m].result.why # "unknown"

\* An adjust is told that its reservation is not held only when it is not.
AdjustOfHeldAnswered == "held" \notin refused

\* Units that reservations hold.
Held == UNION {{r} \X (1..hold[r].qty) : r \in Rids}

\* The units of the movements of a kind that were applied, as their records say.
Recorded(kind) ==
  UNION {{m} \X (1..claim[m].req.qty) :
           m \in {m \in MoveIds : /\ claim[m].state = "applied" /\ claim[m].result.ok
                                  /\ claim[m].req.kind = kind}}

\* Until the ring forgets, an adjust is told that its reservation is not held only when it
\* is not (of keys that no stock movement uses: a ring entry names its key alone).  And with
\* every movement recorded, the recorded answers explain the count, unless a movement landed
\* again past the ring or consumed its key on a shelf that was not there: what was seeded and
\* restocked is on the shelf, in a hold, sold or removed.  A movement that landed twice, or
\* one recorded as refused that landed, would show here.
LedgerExplainsShelf ==
  RingSize \notin relanded =>
    /\ StockKeys \cap AdjustKeys = {} /\ (\A m \in MoveIds : later[m] < RingSize) =>
         AdjustOfHeldAnswered
    /\ UnknownKeepsKey /\ (\A m \in MoveIds : claim[m].state # "claimed") =>
         onHand + Cardinality(Held) + sold + Cardinality(Recorded("removal"))
           = seeded + Cardinality(Recorded("restock"))

(* The inductive invariant: why the answers agree and the movements land once. *)

WellFormed(req) == req.kind = "adjust" => req.rid \in Rids /\ req.exp = None

\* A claim is kept under the ledger of its movement.
ClaimsKept ==
  \A m \in MoveIds : claim[m].state # "absent" =>
    /\ LedgerOf(claim[m].req.kind) = m[1]
    /\ WellFormed(claim[m].req)
    /\ OnItsMark(claim[m].req, claim[m].result)

\* Past the claim, a call works on the movement as recorded.
CallsFollowClaims ==
  \A p \in Callers :
    LET c == call[p] IN
    /\ c.at # "idle" => c.key \in Keys /\ WellFormed(c.req)
    /\ c.at \in {"mark", "back"} => OnItsMark(c.req, c.result)
    /\ c.at \in {"resolve", "witness"} => c.req.kind = "adjust"
    /\ c.at \notin {"idle", "claim", "look", "create"} =>
         claim[IdOf(c)].state # "absent" /\ claim[IdOf(c)].req = c.req
    /\ c.at = "back" => claim[IdOf(c)].state = "applied"

RingFollowsClaims ==
  \A e \in ring :
    LET m == <<e.ledger, e.key>> IN
    claim[m].state # "absent" /\ OnItsMark(claim[m].req, e.result)

\* What landed is remembered under its key until RingSize later outcomes.
RingRemembers ==
  \A m \in landed : later[m] < RingSize =>
    \E e \in Remembered(m[2]) : e.age <= later[m] /\ (m[1] = "stock" => e.ledger = "stock")

AnswersRecorded ==
  \A m \in MoveIds : answers[m] # {} =>
    claim[m].state = "applied" /\ answers[m] = {claim[m].result}

IInv == /\ TypeOK
        /\ ClaimsKept
        /\ CallsFollowClaims
        /\ RingFollowsClaims
        /\ RingRemembers
        /\ AnswersRecorded
        /\ TwiceOnlyPastTheRing

(* Why the ledger explains the shelf: a second invariant, under the first. *)

KeysOf(ledger) == IF ledger = "adjust" THEN AdjustKeys ELSE StockKeys

\* What landed was claimed, under a key of its ledger; the ring and a hold's last key know
\* only what landed.
LandedIsKnown ==
  /\ \A m \in landed : claim[m].state # "absent" /\ m[2] \in KeysOf(m[1])
  /\ \A e \in ring : <<e.ledger, e.key>> \in landed
  /\ \A r \in Rids : hold[r].last # None => <<"adjust", hold[r].last>> \in landed

\* A shelf that is not there is empty; a hold, once made, is never unmade.
HoldsStand ==
  /\ \A r \in Rids : hold[r].state \in {"held", "adopted"} => known
  /\ ~known => onHand = 0
  /\ \A r \in Rids : hold[r].state = "none" => hold[r].qty = 0
  /\ \A m \in MoveIds : claim[m].state # "absent" /\ m[1] = "adjust" =>
                          hold[claim[m].req.rid].state # "none"

\* A call works under a key of its ledger, on a hold that was made; one that looks for its
\* adjust's answer has landed, unless the hold is gone or the key was used for stock.
AdjustsLand ==
  \A p \in Callers :
    LET c == call[p] IN
    /\ c.at # "idle" => c.key \in KeysOf(LedgerOf(c.req.kind))
    /\ c.at = "create" /\ c.req.kind = "adjust" => hold[c.req.rid].state # "none"
    /\ c.at \in {"resolve", "witness"} =>
         IdOf(c) \in landed \/ hold[c.req.rid].state = "gone" \/ c.key \in StockKeys

\* No adjust of a hold has been told otherwise before the ring forgot.
ToldRight ==
  "held" \in refused =>
    \/ StockKeys \cap AdjustKeys # {} \/ RingSize \in relanded
    \/ \E m \in landed : later[m] = RingSize

\* What stands of a stock movement is what the aggregate took, or that there was no shelf.
StockTold ==
  RingSize \notin relanded =>
    /\ \A m \in MoveIds : claim[m].state = "applied" /\ m[1] = "stock" =>
         claim[m].result.why = "unknown" \/ (m \in landed /\ claim[m].result = took[m])
    /\ \A e \in ring : e.ledger = "stock" => e.result = took[<<"stock", e.key>>]
    /\ \A p \in Callers :
         LET c == call[p] IN
         c.at = "mark" /\ c.req.kind # "adjust" =>
           c.result.why = "unknown" \/ (IdOf(c) \in landed /\ c.result = took[IdOf(c)])

\* The units of the movements of a kind that the aggregate took.
Took(kind) ==
  UNION {{m} \X (1..claim[m].req.qty) :
           m \in {m \in landed : took[m].ok /\ claim[m].req.kind = kind}}

Balance ==
  RingSize \notin relanded =>
    /\ IsFiniteSet(Held) /\ IsFiniteSet(Took("removal")) /\ IsFiniteSet(Took("restock"))
    /\ onHand + Cardinality(Held) + sold + Cardinality(Took("removal"))
         = seeded + Cardinality(Took("restock"))

Books == LandedIsKnown /\ HoldsStand /\ AdjustsLand /\ ToldRight /\ StockTold /\ Balance
=============================================================================

------------------------------ MODULE SkuOwners ------------------------------
(***************************************************************************)
(* Who sells a sku: the sku_owners claims of                               *)
(* packages/store-emdash/src/emdash-product-commerce-store.ts.             *)
(*                                                                         *)
(* A write that gives a product a sku takes the sku's claim document       *)
(* first, re-asserts it, and then commits the product document; three      *)
(* documents, no transaction.  A claim is a lease: a newcomer takes over   *)
(* one that no product backs, once it is old.  The stock of the sku left   *)
(* is carried after the commit; the carry itself, whose steps are those of *)
(* SkuTransfer, is one step here.                                          *)
(***************************************************************************)
EXTENDS Naturals, FiniteSets, SkuNames

CONSTANTS
  Commands,   \* what callers may present, and again
  Openings,   \* ... and present first
  MaxBegun,   \* bound on the calls made
  Calls       \* calls in flight

ASSUME CommandsAssumption ==
  /\ Commands \subseteq [op : {"upsert", "edit", "softDelete", "restore", "sweep"},
                         p : Products, want : Skus \cup {None}, key : Keys \cup {None}]
  /\ \A cmd \in Commands : cmd.op \in {"upsert", "edit"} => cmd.key \in Keys
ASSUME OpeningsAssumption == Openings \subseteq Commands
ASSUME BegunAssumption == MaxBegun \in Nat

VARIABLES
  productDoc,  \* product_commerce/{p}
  claim,       \* sku_owners/{sku}
  inventory,   \* inventory/{sku}: absent, an empty document, or one with units
  call,        \* what each call is doing
  begun,       \* how many calls were made
  unruly       \* history: the products on which a call that met another gave a claim back, a
               \* rename landed after the delete, or a lease lapsed between two reads of a taker

ownersVars == <<productDoc, claim, inventory, call, begun, unruly>>

Carry == [key : Keys, from : Skus, to : Skus]                  \* PendingRenameDoc
Product == [life : {"absent", "live", "deleted"}, sku : Skus \cup {None},
            key : Keys \cup {None}, owed : SUBSET Carry]
NoCarry == [key |-> None, from |-> None, to |-> None]
NoProduct == [life |-> "absent", sku |-> None, key |-> None, owed |-> {}]
Claim == [by : Products \cup {None}, live : BOOLEAN, creates : BOOLEAN, old : BOOLEAN]
NoClaim == [by |-> None, live |-> FALSE, creates |-> FALSE, old |-> FALSE]
\* A claim taken, or re-asserted: its lease starts again.
Fresh(p, creates) == [by |-> p, live |-> TRUE, creates |-> creates, old |-> FALSE]

Command == [op : {"upsert", "edit", "softDelete", "restore", "sweep"},
            p : Products, want : Skus \cup {None}, key : Keys \cup {None}]
NoCommand == [op |-> "none", p |-> None, want |-> None, key |-> None]
\* current, fresh: the product, the claim is still at the revision the call read.
\* met (history): the call met another that takes a sku of its product.
Call == [cmd : Command \cup {NoCommand},
         at : {"idle", "read", "settle", "drop", "free", "claim", "judge", "age", "withdraw",
               "look", "take", "prepare", "beat", "commit", "own", "bury", "unclaim", "undo"},
         doc : Product, current : BOOLEAN, form : BOOLEAN,
         todo : SUBSET Carry, carry : Carry \cup {NoCarry}, blocked : BOOLEAN, done : BOOLEAN,
         saw : Claim, fresh : BOOLEAN, ours : BOOLEAN, occupied : BOOLEAN,
         creates : BOOLEAN, hold : BOOLEAN,
         claimed : BOOLEAN, made : BOOLEAN, met : BOOLEAN]
NoCall == [cmd |-> NoCommand, at |-> "idle", doc |-> NoProduct, current |-> FALSE, form |-> FALSE,
           todo |-> {}, carry |-> NoCarry, blocked |-> FALSE, done |-> FALSE,
           saw |-> NoClaim, fresh |-> FALSE, ours |-> FALSE, occupied |-> FALSE,
           creates |-> FALSE, hold |-> FALSE, claimed |-> FALSE, made |-> FALSE,
           met |-> FALSE]

P(c) == call[c].cmd.p
Want(c) == call[c].cmd.want
Op(c) == call[c].cmd.op
\* The sku whose claim the call is about.
On(c) == IF Op(c) \in {"softDelete", "restore"} THEN call[c].doc.sku ELSE Want(c)
\* The sku a write moves off, as far as the claim and the stock are concerned.
From(c) == IF Op(c) = "restore" THEN None ELSE call[c].doc.sku
Renames(c) == From(c) # None /\ Want(c) \notin {None, From(c)}
Owns(p, s) == claim[s].live /\ claim[s].by = p

StepTo(c, at) == call' = [call EXCEPT ![c].at = at]
Leave(c) == call' = [call EXCEPT ![c] = NoCall]
\* Another attempt of the same call, or its end: what an attempt read is forgotten.
Again(c, at) ==
  call' = [call EXCEPT ![c] = [NoCall EXCEPT !.at = at, !.cmd = call[c].cmd, !.form = call[c].form,
                                             !.claimed = call[c].claimed, !.made = call[c].made,
                                             !.met = call[c].met]]
\* The end of a call that committed nothing: what it took goes back.
GiveUp(c) == IF Op(c) \in {"upsert", "edit"} THEN Again(c, "undo") ELSE Leave(c)

\* A write of product p leaves every other call's read of it behind; one that moves
\* updatedAt (m) leaves the open forms behind as well.
AfterProductWrite(p, m) ==
  [d \in Calls |-> IF P(d) = p
                   THEN [call[d] EXCEPT !.current = FALSE, !.form = @ /\ ~m]
                   ELSE call[d]]
\* The same for the claim on s.
AfterClaimWrite(s) ==
  [d \in Calls |-> IF On(d) = s THEN [call[d] EXCEPT !.fresh = FALSE] ELSE call[d]]

-----------------------------------------------------------------------------
(* Reading the product *)

Overlaps(d, p) ==
  /\ call[d] # NoCall /\ P(d) = p
  /\ Op(d) \in {"upsert", "edit", "restore", "sweep"}

\* A caller presents a command, on an edit with the form it loaded.
Begin(c, cmd) ==
  /\ call[c] = NoCall /\ begun < MaxBegun
  /\ begun = 0 => cmd \in Openings
  /\ begun' = begun + 1
  /\ LET met == IF cmd.op = "softDelete" THEN {} ELSE {d \in Calls : Overlaps(d, cmd.p)} IN
     call' = [d \in Calls |->
       IF d = c THEN [NoCall EXCEPT !.cmd = cmd, !.at = "read", !.form = cmd.op = "edit",
                                    !.met = met # {}]
       ELSE IF d \in met THEN [call[d] EXCEPT !.met = TRUE] ELSE call[d]]
  /\ UNCHANGED <<productDoc, claim, inventory, unruly>>

\* Nothing for this command to do: a replay, an older delivery, an edit of a product that
\* is gone, a form that is stale.
Answered(c) ==
  LET doc == productDoc[P(c)] IN
  CASE Op(c) = "upsert" -> doc.life # "absent" /\ doc.key = call[c].cmd.key
    [] Op(c) = "edit" -> doc.life # "live" \/ doc.key = call[c].cmd.key \/ ~call[c].form
    [] Op(c) = "softDelete" -> doc.life # "live"
    [] Op(c) = "restore" -> doc.life # "deleted"
    [] OTHER -> FALSE
\* A content watermark older than the stored one; watermarks are not modelled.
Older(c) == Op(c) \in {"upsert", "restore"} /\ productDoc[P(c)].life # "absent"

\* The head of an attempt.
Read(c) ==
  LET doc == productDoc[P(c)] IN
  /\ call[c].at = "read"
  /\ \/ (Answered(c) \/ Older(c)) /\ GiveUp(c)
     \/ /\ ~Answered(c)
        /\ call' = [call EXCEPT ![c] =
             [@ EXCEPT !.doc = [doc EXCEPT !.key = None], !.current = TRUE, !.todo = doc.owed,
                       !.at = CASE Op(c) = "softDelete" -> "own"
                                [] Op(c) = "restore" -> IF doc.sku = None THEN "commit" ELSE "claim"
                                [] OTHER -> "settle"]]
  /\ UNCHANGED <<productDoc, claim, inventory, begun, unruly>>

-----------------------------------------------------------------------------
(* Carries: those found recorded, before the write, and the write's own after it *)

\* Mutant of RefuseWhileOwed: a new rename starts while an old one is owed.
RefuseNever(c) == FALSE

RefuseWhileOwed(c) == call[c].blocked /\ Want(c) \notin {None, call[c].doc.sku}

\* What an attempt does once the carries it found have been looked at.
Decide(c) ==
  \/ RefuseWhileOwed(c) /\ GiveUp(c)
  \/ ~RefuseWhileOwed(c) /\ StepTo(c, IF Want(c) = None THEN "commit" ELSE "claim")

\* Carts and orders come and go: where there are units, a live hold may be found on them.
MayBeHeld(s) == inventory[s] = "units"

\* #settleRecorded, #settleWrite: each carry in turn moves its units, unless a live hold is
\* on the source.
SettleCarries(c) ==
  /\ call[c].at = "settle"
  /\ \/ \E r \in call[c].todo :
          \/ /\ MayBeHeld(r.from)
             /\ call' = [call EXCEPT ![c].todo = @ \ {r}, ![c].blocked = TRUE]
             /\ UNCHANGED inventory
          \/ /\ inventory' = IF inventory[r.from] = "units"
                             THEN [inventory EXCEPT ![r.from] = "empty", ![r.to] = "units"]
                             ELSE inventory
             /\ call' = [call EXCEPT ![c].carry = r, ![c].todo = @ \ {r}, ![c].at = "drop"]
     \/ /\ call[c].todo = {}
        /\ UNCHANGED inventory
        /\ \/ (call[c].done \/ Op(c) = "sweep") /\ Leave(c)
           \/ ~call[c].done /\ Op(c) # "sweep" /\ Decide(c)
  /\ UNCHANGED <<productDoc, claim, begun, unruly>>

\* #clearProductStamp: the record goes; the write leaves updatedAt alone.
ClearStamp(c) ==
  LET p == P(c)
      known == call[c].carry \in productDoc[p].owed
  IN
  /\ call[c].at = "drop"
  /\ productDoc' = [productDoc EXCEPT ![p].owed = @ \ {call[c].carry}]
  /\ call' = [(IF known THEN AfterProductWrite(p, FALSE) ELSE call) EXCEPT ![c].at = "free"]
  /\ UNCHANGED <<claim, inventory, begun, unruly>>

\* #releaseSku: p's claim on s is released, whoever of p took it; a released claim is as
\* good as none.
ReleaseSku(p, s) == claim' = IF Owns(p, s) THEN [claim EXCEPT ![s] = NoClaim] ELSE claim
\* A call that met another may so release what that one took.
MayTear(c, s) == unruly' = IF call[c].met /\ Owns(P(c), s) THEN unruly \cup {P(c)} ELSE unruly

\* The source is empty at last, and its sku free.
Free(c) ==
  LET s == call[c].carry.from IN
  /\ call[c].at = "free"
  /\ ReleaseSku(P(c), s)
  /\ call' = [(IF Owns(P(c), s) THEN AfterClaimWrite(s) ELSE call) EXCEPT
                ![c].carry = NoCarry, ![c].at = "settle"]
  /\ MayTear(c, s)
  /\ UNCHANGED <<productDoc, inventory, begun>>

-----------------------------------------------------------------------------
(* #claimSku *)

\* The claim document is read: free, this product's already, or somebody else's.
ReadClaim(c) ==
  LET s == On(c)
      others == claim[s].live /\ claim[s].by # P(c)
  IN
  /\ call[c].at = "claim"
  /\ call' = [call EXCEPT ![c] =
       [@ EXCEPT !.saw = claim[s], !.fresh = TRUE, !.ours = Owns(P(c), s),
                 !.at = IF others THEN "judge" ELSE "look"]]
  /\ UNCHANGED <<productDoc, claim, inventory, begun, unruly>>

Backed(o, s) == productDoc[o].life = "live" /\ productDoc[o].sku = s
Owes(o, s) == \E r \in productDoc[o].owed : r.from = s

\* A refusal of the sku: a restore goes on without it, any other call ends.
Refuse(c) == IF Op(c) = "restore" THEN StepTo(c, "commit") ELSE GiveUp(c)

\* Mutant of Judge: a claim kept for a carry still owed is taken for an abandoned one.
JudgeByRow(c) ==
  /\ call[c].at = "judge"
  /\ IF Backed(call[c].saw.by, On(c)) THEN Refuse(c) ELSE StepTo(c, "age")
  /\ UNCHANGED <<productDoc, claim, inventory, begun, unruly>>

\* #claimStatus: the owner sells the sku, or owes a carry away from it ...
Judge(c) ==
  LET o == call[c].saw.by
      s == On(c)
  IN
  /\ call[c].at = "judge"
  /\ IF Backed(o, s) \/ Owes(o, s) THEN Refuse(c) ELSE StepTo(c, "age")
  /\ UNCHANGED <<productDoc, claim, inventory, begun, unruly>>

\* ... or took the claim a lease ago.  Of a claim renewed since, either may be found.
Age(c) ==
  LET aged == IF call[c].fresh THEN {claim[On(c)].old} ELSE BOOLEAN IN
  /\ call[c].at = "age"
  /\ \E old \in aged :
       IF ~old THEN Refuse(c)
       ELSE StepTo(c, IF call[c].saw.creates THEN "withdraw" ELSE "look")
  /\ UNCHANGED <<productDoc, claim, inventory, begun, unruly>>

\* withdrawPristineClaim: a document that has held nothing goes; an empty one that has been
\* used stays, and so does any that storage fails to delete.
Withdraw(s) ==
  \/ inventory[s] = "empty" /\ inventory' = [inventory EXCEPT ![s] = "absent"]
  \/ UNCHANGED inventory

\* What the dead claimant created goes with its claim.
WithdrawResidue(c) ==
  /\ call[c].at = "withdraw"
  /\ Withdraw(On(c))
  /\ StepTo(c, "look")
  /\ UNCHANGED <<productDoc, claim, begun, unruly>>

\* #occupiedNow, asked by a rename alone.
Look(c) ==
  LET there == Renames(c) /\ inventory[On(c)] # "absent" IN
  /\ call[c].at = "look"
  /\ call' = [call EXCEPT ![c] =
       [@ EXCEPT !.saw = NoClaim, !.occupied = there /\ ~call[c].ours,
                 !.creates = Renames(c) /\ ~there,
                 !.at = IF call[c].ours THEN "prepare" ELSE "take"]]
  /\ UNCHANGED <<productDoc, claim, inventory, begun, unruly>>

\* The claim is created, or taken over, at the revision that was read.
TakeClaim(c) ==
  LET s == On(c) IN
  /\ call[c].at = "take"
  /\ \/ /\ call[c].fresh
        /\ claim' = [claim EXCEPT ![s] = Fresh(P(c), call[c].creates)]
        /\ call' = [AfterClaimWrite(s) EXCEPT ![c].fresh = TRUE, ![c].claimed = TRUE,
                                              ![c].at = "prepare"]
     \/ ~call[c].fresh /\ StepTo(c, "claim") /\ UNCHANGED claim
  /\ UNCHANGED <<productDoc, inventory, begun, unruly>>

-----------------------------------------------------------------------------
(* #prepareSku after the claim, #heartbeatClaim and the commit *)

\* SkuStockTransfer.prepare: refused while the source has live holds or when the target had
\* stock before the claim; otherwise the target's document is there afterwards.
Prepare(c) ==
  /\ call[c].at = "prepare"
  /\ \/ ~Renames(c) /\ StepTo(c, "beat") /\ UNCHANGED inventory
     \/ /\ Renames(c)
        /\ MayBeHeld(From(c)) \/ call[c].occupied
        /\ GiveUp(c) /\ UNCHANGED inventory
     \/ /\ Renames(c) /\ ~call[c].occupied
        /\ \/ /\ inventory[Want(c)] = "absent"
              /\ inventory' = [inventory EXCEPT ![Want(c)] = "empty"]
              /\ call' = [call EXCEPT ![c].made = TRUE, ![c].at = "beat"]
           \/ /\ inventory[Want(c)] # "absent" /\ call[c].ours
              /\ StepTo(c, "beat") /\ UNCHANGED inventory
           \/ /\ inventory[Want(c)] # "absent" /\ ~call[c].ours    \* contended
              /\ Again(c, "read") \/ GiveUp(c)
              /\ UNCHANGED inventory
  /\ UNCHANGED <<productDoc, claim, begun, unruly>>

\* Not ours any more: nothing of the claim is ours to give back.
Lost(c) == IF Op(c) = "restore" THEN Again(c, "read") ELSE Leave(c)

\* #heartbeatClaim: the claim is written again at the revision this call knows.
Beat(c) ==
  LET s == On(c) IN
  /\ call[c].at = "beat"
  /\ \/ /\ call[c].fresh
        /\ claim' = [claim EXCEPT ![s] = Fresh(P(c), call[c].creates)]
        /\ call' = [AfterClaimWrite(s) EXCEPT ![c].fresh = TRUE, ![c].hold = TRUE,
                                              ![c].at = "commit"]
     \/ ~call[c].fresh /\ Owns(P(c), s) /\ Again(c, "read") /\ UNCHANGED claim
     \/ ~call[c].fresh /\ ~Owns(P(c), s) /\ Lost(c) /\ UNCHANGED claim
  /\ UNCHANGED <<productDoc, inventory, begun, unruly>>

\* What the write records to be carried after it.
NewCarry(c) ==
  IF Renames(c) THEN {[key |-> call[c].cmd.key, from |-> From(c), to |-> Want(c)]} ELSE {}

\* The product document as the call leaves it.
Written(c) ==
  LET doc == call[c].doc IN
  [life |-> IF Op(c) = "restore" \/ doc.life = "absent" THEN "live" ELSE doc.life,
   sku  |-> IF call[c].hold THEN On(c) ELSE IF Op(c) = "restore" THEN None ELSE doc.sku,
   key  |-> call[c].cmd.key,
   owed |-> IF Op(c) = "restore" THEN doc.owed ELSE doc.owed \cup NewCarry(c)]

\* The commit, at the revision the attempt read.  An upsert that leaves the owned fields as
\* they were leaves updatedAt too.
CommitProduct(c) ==
  LET p == P(c) IN
  /\ call[c].at = "commit"
  /\ \/ /\ call[c].current
        /\ productDoc' = [productDoc EXCEPT ![p] = Written(c)]
        /\ \E moved \in IF Op(c) = "upsert" /\ Written(c).sku = productDoc[p].sku
                        THEN BOOLEAN ELSE {TRUE} :
             call' = [AfterProductWrite(p, moved) EXCEPT ![c] =
                        IF Op(c) = "restore" \/ ~Renames(c) THEN NoCall
                        ELSE [NoCall EXCEPT !.cmd = call[c].cmd, !.todo = NewCarry(c),
                                            !.done = TRUE, !.at = "settle", !.met = call[c].met]]
        /\ unruly' = IF call[c].doc.life = "deleted" /\ NewCarry(c) # {} THEN unruly \cup {p}
                     ELSE unruly
     \/ ~call[c].current /\ Again(c, "read") /\ UNCHANGED <<productDoc, unruly>>
  /\ UNCHANGED <<claim, inventory, begun>>

-----------------------------------------------------------------------------
(* softDelete *)

\* #readOwnClaim
ReadOwn(c) ==
  /\ call[c].at = "own"
  /\ call' = [call EXCEPT ![c].hold = On(c) # None /\ Owns(P(c), On(c)), ![c].fresh = TRUE,
                          ![c].at = "bury"]
  /\ UNCHANGED <<productDoc, claim, inventory, begun, unruly>>

\* The tombstone.
Bury(c) ==
  LET p == P(c) IN
  /\ call[c].at = "bury"
  /\ \/ /\ call[c].current
        /\ productDoc' = [productDoc EXCEPT ![p].life = "deleted", ![p].key = call[c].cmd.key]
        /\ call' = [AfterProductWrite(p, TRUE) EXCEPT ![c] =
                      IF call[c].hold THEN [@ EXCEPT !.at = "unclaim"] ELSE NoCall]
     \/ ~call[c].current /\ Again(c, "read") /\ UNCHANGED productDoc
  /\ UNCHANGED <<claim, inventory, begun, unruly>>

\* Mutant of Unclaim: the claim is released by its owner, not by its revision.
UnclaimByOwner(c) ==
  /\ call[c].at = "unclaim"
  /\ ReleaseSku(P(c), On(c))
  /\ call' = [AfterClaimWrite(On(c)) EXCEPT ![c] = NoCall]
  /\ UNCHANGED <<productDoc, inventory, begun, unruly>>

\* #releaseClaimAt: released at exactly the revision read before the tombstone.
Unclaim(c) ==
  /\ call[c].at = "unclaim"
  /\ \/ /\ call[c].fresh
        /\ claim' = [claim EXCEPT ![On(c)] = NoClaim]
        /\ call' = [AfterClaimWrite(On(c)) EXCEPT ![c] = NoCall]
     \/ ~call[c].fresh /\ Leave(c) /\ UNCHANGED claim
  /\ UNCHANGED <<productDoc, inventory, begun, unruly>>

-----------------------------------------------------------------------------
(* The ends a call may come to *)

\* #undoClaims: the document the call created, then the claim it took.
Undo(c) ==
  /\ call[c].at = "undo"
  /\ \/ /\ call[c].made
        /\ Withdraw(Want(c))
        /\ call' = [call EXCEPT ![c].made = FALSE]
        /\ UNCHANGED <<claim, unruly>>
     \/ /\ ~call[c].made /\ call[c].claimed
        /\ ReleaseSku(P(c), Want(c)) /\ MayTear(c, Want(c))
        /\ call' = [(IF Owns(P(c), Want(c)) THEN AfterClaimWrite(Want(c)) ELSE call)
                      EXCEPT ![c] = NoCall]
        /\ UNCHANGED inventory
     \/ ~call[c].made /\ ~call[c].claimed /\ Leave(c) /\ UNCHANGED <<claim, inventory, unruly>>
  /\ UNCHANGED <<productDoc, begun>>

\* Storage fails, or the attempts are used up, before the commit: the call undoes and ends.
Throw(c) ==
  /\ call[c].at \notin {"idle", "undo"} /\ ~call[c].done
  /\ GiveUp(c)
  /\ UNCHANGED <<productDoc, claim, inventory, begun, unruly>>

\* The process dies.
CallCrash(c) ==
  /\ call[c] # NoCall
  /\ Leave(c)
  /\ UNCHANGED <<productDoc, claim, inventory, begun, unruly>>

-----------------------------------------------------------------------------
(* The rest of the store *)

\* A lease passes: never between a call's heartbeat and its commit, which are adjacent.  One
\* that passes between two reads of a taker leaves it with a judgement a lease old.
Expire(s) ==
  /\ claim[s].live /\ ~claim[s].old
  /\ ~\E c \in Calls : On(c) = s /\ call[c].at = "commit" /\ call[c].hold
  /\ unruly' = IF \E c \in Calls : On(c) = s /\ call[c].at = "age" /\ call[c].fresh
               THEN unruly \cup {claim[s].by} ELSE unruly
  /\ claim' = [claim EXCEPT ![s].old = TRUE]
  /\ UNCHANGED <<productDoc, inventory, call, begun>>

\* activate, deactivate: the publish gate, under a key of its own.
Gate(p) ==
  /\ productDoc[p].life = "live"
  /\ productDoc' = [productDoc EXCEPT ![p].key = None]
  /\ call' = AfterProductWrite(p, TRUE)
  /\ UNCHANGED <<claim, inventory, begun, unruly>>

\* seedOnHand after a save, and restocks: under a sku somebody sells.
Stock(s) ==
  /\ \E p \in Products : Backed(p, s)
  /\ \/ inventory[s] = "absent" /\ inventory' = [inventory EXCEPT ![s] = "empty"]
     \/ inventory[s] # "units" /\ inventory' = [inventory EXCEPT ![s] = "units"]
  /\ UNCHANGED <<productDoc, claim, call, begun, unruly>>

-----------------------------------------------------------------------------
OwnersInit ==
  /\ productDoc = [p \in Products |-> NoProduct]
  /\ claim = [s \in Skus |-> NoClaim]
  /\ inventory = [s \in Skus |-> "absent"]
  /\ call = [c \in Calls |-> NoCall]
  /\ begun = 0
  /\ unruly = {}

CallStep(c) ==
  \/ Read(c) \/ SettleCarries(c) \/ ClearStamp(c) \/ Free(c)
  \/ ReadClaim(c) \/ Judge(c) \/ Age(c) \/ WithdrawResidue(c) \/ Look(c) \/ TakeClaim(c)
  \/ Prepare(c) \/ Beat(c) \/ CommitProduct(c)
  \/ ReadOwn(c) \/ Bury(c) \/ Unclaim(c)
  \/ Undo(c)

OwnersNext ==
  \/ \E c \in Calls : CallStep(c) \/ Throw(c) \/ CallCrash(c) \/ \E cmd \in Commands : Begin(c, cmd)
  \/ \E s \in Skus : Expire(s) \/ Stock(s)
  \/ \E p \in Products : Gate(p)

OwnersSpec == OwnersInit /\ [][OwnersNext]_ownersVars

-----------------------------------------------------------------------------
(* Properties *)

\* The documents and the calls have the shapes the code gives them.
OwnersTypeOK ==
  /\ productDoc \in [Products -> Product]
  /\ claim \in [Skus -> Claim]
  /\ inventory \in [Skus -> {"absent", "empty", "units"}]
  /\ call \in [Calls -> Call]
  /\ begun \in 0..MaxBegun
  /\ unruly \subseteq Products

\* Live-sku uniqueness: no two live products sell under one sku, however slow, dead or
\* overtaken the calls that gave it to them (two documents, no transaction), unless one of
\* them is unruly.
OneSellerPerSku ==
  \A p, q \in Products \ unruly :
    p # q /\ productDoc[p].life = "live" /\ productDoc[q].life = "live"
    => productDoc[p].sku = None \/ productDoc[p].sku # productDoc[q].sku

\* What keeps it so: a live product stands on a live claim of its own.
SellersHoldClaims ==
  \A p \in Products \ unruly :
    productDoc[p].life = "live" /\ productDoc[p].sku # None => Owns(p, productDoc[p].sku)

\* A sku whose units are still to be carried away is nobody else's, at any age of its claim.
OwedSkuStaysClaimed ==
  \A p \in Products \ unruly : \A r \in productDoc[p].owed : Owns(p, r.from)

\* Nobody sells a sku while another product is still to carry its units away: the carry would
\* take the seller's.
NobodySellsOwedUnits ==
  \A p, q \in Products \ unruly : p # q => \A r \in productDoc[p].owed : ~Backed(q, r.from)

\* The units a live product is owed are on their way to the sku it sells under, renames, deletes
\* and restores in between, and whatever calls overlap.
CarriesGoHome ==
  \A p \in Products : productDoc[p].life = "live" /\ productDoc[p].sku # None =>
    \A r \in productDoc[p].owed : r.to = productDoc[p].sku

-----------------------------------------------------------------------------
(* The inductive invariant: what the documents owe one another, and what a call may rely *)
(* on of what it read.  odd: the unruly products, of which it says less                   *)

Claiming == {"claim", "judge", "age", "withdraw", "look", "take", "prepare", "beat"}
Saves(x)  == x.cmd.op \in {"upsert", "edit"}
Writes(x) == x.cmd.op \in {"upsert", "edit", "restore", "sweep"}
About(x)  == IF x.cmd.op \in {"softDelete", "restore"} THEN x.doc.sku ELSE x.cmd.want

\* Where a call may be, by what it was asked.
OnItsWay(x) ==
  /\ x.at = "idle" => x = NoCall
  /\ x.at # "idle" => x.cmd \in Command
  /\ x.at \in {"own", "bury", "unclaim"} => x.cmd.op = "softDelete"
  /\ x.at \in {"settle", "drop", "free"} => x.cmd.op \in {"upsert", "edit", "sweep"}
  /\ x.at \in Claiming \cup {"commit"} => x.cmd.op \in {"upsert", "edit", "restore"}
  /\ x.at \in Claiming \/ x.hold => About(x) # None
  /\ x.at = "undo" => Saves(x)
  /\ Saves(x) => x.cmd.key \in Keys
  /\ Saves(x) /\ x.at = "commit" /\ x.cmd.want # None => x.hold
  /\ x.hold => x.at \in {"commit", "bury", "unclaim"}
  /\ x.done => x.at \in {"settle", "drop", "free"} /\ Saves(x)
  /\ x.at \in {"judge", "age", "withdraw", "take"} => ~x.ours
  /\ x.at = "unclaim" => x.hold
  /\ x.at \in {"drop", "free"} => x.carry \in Carry
  /\ Saves(x) /\ x.claimed => x.cmd.want # None

\* What a call has read of its product, d being the document.
ReadsRight(x, d) ==
  /\ x.current => x.doc = [d EXCEPT !.key = None]
  /\ x.cmd.op = "restore" /\ x.at # "read" => x.doc.life = "deleted"
  /\ x.at = "settle" /\ x.current /\ ~x.blocked => x.doc.owed \subseteq x.todo
  /\ x.at \in {"settle", "drop"} /\ x.current => x.todo \subseteq x.doc.owed
  /\ x.at = "drop" /\ x.current => x.carry \in x.doc.owed
  /\ x.at = "free" => ~x.current
  /\ Saves(x) /\ x.at \in Claiming \cup {"commit"} /\ x.current
       => x.cmd.want \in {None, x.doc.sku} \/ x.doc.owed = {}

\* Which of its product's carries a call that met no other works on, and what an undo of it
\* would release.
CarriesRight(x, d, odd) ==
  ~x.met /\ x.cmd.p \notin odd =>
    /\ Writes(x) => x.todo \subseteq d.owed
    /\ x.at = "drop" => x.carry \in d.owed \ x.todo
    /\ x.at = "free" => d.owed = {} /\ d.sku # x.carry.from
    /\ Saves(x) /\ x.claimed =>
         /\ d.life = "live" => d.sku # x.cmd.want
         /\ \A r \in d.owed : r.from # x.cmd.want

\* Neither sold by the product nor to be carried away from by it.
LeftBy(docs, o, s) ==
  /\ docs[o].life = "live" => docs[o].sku # s
  /\ \A r \in docs[o].owed : r.from # s

\* What a call may rely on of the claim k it has read.
ClaimRight(x, docs, k, odd) ==
  LET mine == k.live /\ k.by = x.cmd.p
      left(o) == o \in odd \/ LeftBy(docs, o, About(x))
  IN
  /\ x.fresh =>
       /\ x.at \in {"judge", "age"} => k.live /\ k.by = x.saw.by /\ k.by # x.cmd.p
       /\ x.at = "age" /\ k.old => left(k.by)
       /\ (x.at \in {"withdraw", "take"} \/ (x.at = "look" /\ ~x.ours)) /\ k.live
            => k.by # x.cmd.p /\ k.old /\ left(k.by)
       /\ x.at \in {"prepare", "beat"} \/ (x.at = "look" /\ x.ours) => mine
       /\ x.at \in {"bury", "unclaim"} /\ x.hold => mine
       /\ x.at = "unclaim" => left(x.cmd.p)
  /\ x.at = "commit" /\ x.hold /\ x.current /\ x.cmd.p \notin odd => mine /\ ~k.old

CallRight(x, docs, claims, odd) ==
  /\ OnItsWay(x)
  /\ x.at # "idle" => /\ ReadsRight(x, docs[x.cmd.p])
                      /\ CarriesRight(x, docs[x.cmd.p], odd)
                      /\ About(x) # None => ClaimRight(x, docs, claims[About(x)], odd)

\* A product owes one carry at most, away from a sku that stays its own to the one it sells
\* under; d is the document of p.
ProductRight(p, d, claims, odd) ==
  LET mine(s) == p \in odd \/ (claims[s].live /\ claims[s].by = p) IN
  /\ d.life = "absent" => d.sku = None /\ d.owed = {}
  /\ \A q, r \in d.owed : q = r
  /\ \A r \in d.owed : r.from # r.to /\ mine(r.from) /\ d.sku \in {None, r.to}
  /\ d.life = "live" /\ d.sku # None => mine(d.sku)

\* Two calls that write a product have met, deletes aside; and no delete is about to release
\* the claim that another call of the product is about to commit on.
Apart(x, y) ==
  /\ Writes(x) /\ Writes(y) /\ x.cmd.p = y.cmd.p => x.met /\ y.met
  /\ x.at = "unclaim" /\ x.fresh /\ y.at = "commit" /\ y.hold /\ y.current /\ x.cmd.p = y.cmd.p
       => About(x) # About(y)

OwnersInv ==
  /\ OwnersTypeOK
  /\ \A p \in Products : ProductRight(p, productDoc[p], claim, unruly)
  /\ \A s \in Skus : claim[s].live => claim[s].by \in Products
  /\ \A c \in Calls : CallRight(call[c], productDoc, claim, unruly)
  /\ \A c, d \in Calls : c # d => Apart(call[c], call[d])
=============================================================================

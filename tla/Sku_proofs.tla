------------------------------ MODULE Sku_proofs ------------------------------
(***************************************************************************)
(* Proofs about SkuTransfer and SkuOwners, for every value of their        *)
(* constants.                                                              *)
(*                                                                         *)
(* SkuTransfer: IInv is an inductive invariant, hence the types, and that  *)
(* a sku whose units are still owed is never given away.  Under it,        *)
(* Carried: no unit is made, or lost while no sku is used again that a     *)
(* product has left.                                                       *)
(*                                                                         *)
(* SkuOwners: OwnersInv is an inductive invariant, hence what the product  *)
(* and claim documents owe one another, the unruly products excepted.      *)
(***************************************************************************)
EXTENDS SkuTransfer, SkuOwners, FiniteSetTheorems, TLAPS

-----------------------------------------------------------------------------
(* SkuTransfer: what the helpers of the specification change *)

Steps == {"idle", "stamp", "apply", "clear", "drop", "release"}

LEMMA IdleType == Idle \in Mover /\ Idle.at = "idle" /\ Idle.then = "idle"
BY DEF Idle, Mover, NoToken

LEMMA NoneApart == None \notin Skus /\ None \notin Products /\ None \notin Keys
BY NoneAssumption

\* What a call may change of its own record, said field by field.
Becomes(m, at, t, then, outer) ==
  /\ mover' \in [Movers -> Mover]
  /\ \A x \in Movers : x # m => mover'[x] = mover[x]
  /\ mover'[m].at = at /\ mover'[m].token = t
  /\ mover'[m].then = then /\ mover'[m].outer = outer

LEMMA GotoStep ==
  ASSUME mover \in [Movers -> Mover], NEW m \in Movers, NEW at \in Steps, Goto(m, at)
  PROVE Becomes(m, at, mover[m].token, mover[m].then, mover[m].outer)
BY DEF Goto, Becomes, Steps, Mover

LEMMA ReturnStep ==
  ASSUME mover \in [Movers -> Mover], NEW m \in Movers, Return(m)
  PROVE /\ Becomes(m, "idle", NoToken, "idle", NoToken)
        /\ mover'[m] = Idle
<1>1. mover' = [mover EXCEPT ![m] = Idle]  BY DEF Return
<1>2. mover' \in [Movers -> Mover]  BY <1>1, IdleType
<1>3. mover'[m] = Idle  BY <1>1
<1>4. \A x \in Movers : x # m => mover'[x] = mover[x]  BY <1>1
<1> QED BY <1>2, <1>3, <1>4 DEF Becomes, Idle

LEMMA MoveStep ==
  ASSUME mover \in [Movers -> Mover], NEW m \in Movers, NEW t \in Token, Move(m, t)
  PROVE Becomes(m, "stamp", t, "drop", NoToken)
BY DEF Move, Becomes, Mover, Idle, NoToken

LEMMA CompletingStep ==
  ASSUME mover \in [Movers -> Mover], NEW m \in Movers, NEW s \in Skus,
         stamp \in [Skus -> [token : Token \cup {NoToken}, qty : Nat]],
         NEW then \in {"stamp", "idle"}, NEW outer \in Token \cup {NoToken},
         Completing(m, s, then, outer)
  PROVE Becomes(m, "apply", stamp[s].token, then, outer)
BY DEF Completing, Becomes, Mover

\* The carries a call works for, by its program counter.
LEMMA WorkingIs ==
  ASSUME NEW m, NEW t
  PROVE t \in Working(m) <=> (\/ (mover[m].then = "drop" /\ t = mover[m].token)
                             \/ (mover[m].then = "stamp" /\ t = mover[m].outer))
BY DEF Working

LEMMA PendingIs ==
  ASSUME NEW t
  PROVE t \in Pending <=> (t \in records \/ \E m \in Movers : t \in Working(m))
BY DEF Pending

LEMMA PendingTypes ==
  ASSUME TypeOK, MoversAgree
  PROVE \A t \in Pending : t \in Token
<1> SUFFICES ASSUME NEW t \in Pending PROVE t \in Token  OBVIOUS
<1>1. CASE t \in records  BY <1>1 DEF TypeOK
<1>2. CASE \E m \in Movers : t \in Working(m)
  <2> PICK m \in Movers : t \in Working(m)  BY <1>2
  <2>1. \/ mover[m].then = "drop" /\ t = mover[m].token
        \/ mover[m].then = "stamp" /\ t = mover[m].outer
    BY WorkingIs
  <2> QED BY <2>1 DEF MoversAgree
<1> QED BY <1>1, <1>2, PendingIs

\* A step that records nothing and takes up no carry of its own leaves fewer pending.
LEMMA PendingShrinks ==
  ASSUME NEW m \in Movers, records' \subseteq records,
         \A x \in Movers : x # m => mover'[x] = mover[x],
         \A t : t \in Working(m)' => t \in Pending
  PROVE \A t : t \in Pending' => t \in Pending
<1> SUFFICES ASSUME NEW t \in Pending' PROVE t \in Pending  OBVIOUS
<1>1. t \in records' \/ \E x \in Movers : t \in Working(x)'  BY DEF Pending
<1>2. CASE t \in records'  BY <1>2 DEF Pending
<1>3. ASSUME NEW x \in Movers, t \in Working(x)' PROVE t \in Pending
  <2>1. CASE x = m  BY <1>3, <2>1
  <2>2. CASE x # m
    <3>1. Working(x)' = Working(x)  BY <2>2 DEF Working
    <3> QED BY <1>3, <3>1 DEF Pending
  <2> QED BY <2>1, <2>2
<1> QED BY <1>1, <1>2, <1>3

LEMMA WorkingNow ==
  ASSUME NEW m \in Movers, NEW at, NEW t, NEW then, NEW outer, Becomes(m, at, t, then, outer)
  PROVE \A u : u \in Working(m)' <=> (\/ (then = "drop" /\ u = t)
                                     \/ (then = "stamp" /\ u = outer))
BY DEF Working, Becomes

\* A step that leaves the products, the claims and the keys alone, and takes up nothing
\* that was not pending, keeps what is said of them.
LEMMA LeftStays ==
  ASSUME TypeOK, MoversAgree, LeftForGood, OwedSkuIsKept,
         UNCHANGED <<skuOf, owner, used>>,
         \A s \in Skus : known[s] => known'[s],
         records' \subseteq records,
         \A t : t \in Pending' => t \in Pending
  PROVE LeftForGood' /\ OwedSkuIsKept'
<1>1. \A p \in Products : skuOf'[p] # None => owner'[skuOf'[p]] = p /\ known'[skuOf'[p]]
  <2> SUFFICES ASSUME NEW p \in Products, skuOf[p] # None
               PROVE owner[skuOf[p]] = p /\ known'[skuOf[p]]
    OBVIOUS
  <2>1. skuOf[p] \in Skus  BY DEF TypeOK
  <2> QED BY <2>1 DEF LeftForGood
<1>2. \A t \in Pending' : t.key \in used' /\ known'[t.from] /\ skuOf'[t.by] \notin {None, t.from}
  <2> SUFFICES ASSUME NEW t \in Pending'
               PROVE t.key \in used /\ known'[t.from] /\ skuOf[t.by] \notin {None, t.from}
    OBVIOUS
  <2>1. t \in Pending  OBVIOUS
  <2>2. t.from \in Skus  BY <2>1, PendingTypes DEF Token
  <2> QED BY <2>1, <2>2 DEF LeftForGood
<1>3. \A t, u \in Pending' : t.by = u.by /\ t.from = u.from => t = u
  BY DEF LeftForGood
<1> QED BY <1>1, <1>2, <1>3 DEF LeftForGood, OwedSkuIsKept

\* What there is to check of a call that has taken a step.
LEMMA MoverAgrees ==
  ASSUME MoversAgree, DroppedFirst,
         NEW m \in Movers, NEW at, NEW t, NEW then, NEW outer, Becomes(m, at, t, then, outer),
         records' \subseteq records,
         \A s \in Skus : stamp'[s] # NoStamp => stamp'[s].token \in Token,
         at = "idle" => then = "idle",
         at # "idle" => t \in Token,
         then = "stamp" => outer \in Token,
         at \in {"stamp", "drop", "release"} => then = "drop",
         at = "release" => t \notin records'
  PROVE MoversAgree' /\ DroppedFirst'
<1>1. ASSUME NEW x \in Movers
      PROVE /\ mover'[x].at = "idle" => mover'[x].then = "idle"
            /\ mover'[x].at # "idle" => mover'[x].token \in Token
            /\ mover'[x].then = "stamp" => mover'[x].outer \in Token
            /\ mover'[x].at \in {"stamp", "drop", "release"} => mover'[x].then = "drop"
            /\ mover'[x].at = "release" => mover'[x].token \notin records'
  <2>1. CASE x = m  BY <2>1 DEF Becomes
  <2>2. CASE x # m  BY <2>2 DEF Becomes, MoversAgree, DroppedFirst
  <2> QED BY <2>1, <2>2
<1> QED BY <1>1 DEF MoversAgree, DroppedFirst

\* A step of one call that only drops records, if anything, of the products and claims.
LEMMA QuietStep ==
  ASSUME IInv, TypeOK', UNCHANGED <<skuOf, owner, used>>,
         \A s \in Skus : known[s] => known'[s],
         records' \subseteq records,
         \A s \in Skus : stamp'[s] # NoStamp => stamp'[s].token \in Token,
         NEW m \in Movers, NEW at, NEW t, NEW then, NEW outer, Becomes(m, at, t, then, outer),
         at = "idle" => then = "idle",
         at # "idle" => t \in Token,
         then = "stamp" => outer \in Pending,
         then = "drop" => t \in Pending,
         at \in {"stamp", "drop", "release"} => then = "drop",
         at = "release" => t \notin records'
  PROVE IInv'
<1>1. \A u : u \in Working(m)' => u \in Pending  BY WorkingNow
<1>2. \A x \in Movers : x # m => mover'[x] = mover[x]  BY DEF Becomes
<1>3. \A u : u \in Pending' => u \in Pending  BY <1>1, <1>2, PendingShrinks
<1>4. LeftForGood' /\ OwedSkuIsKept'  BY <1>3, LeftStays DEF IInv
<1>5. then = "stamp" => outer \in Token  BY PendingTypes DEF IInv
<1>6. MoversAgree' /\ DroppedFirst'  BY <1>5, MoverAgrees DEF IInv
<1> QED BY <1>4, <1>6 DEF IInv

-----------------------------------------------------------------------------
(* The steps of a call *)

LEMMA TokenPending ==
  ASSUME NEW m \in Movers, mover[m].then = "drop"
  PROVE mover[m].token \in Pending
BY DEF Pending, Working

LEMMA OuterPending ==
  ASSUME NEW m \in Movers, mover[m].then = "stamp"
  PROVE mover[m].outer \in Pending
BY DEF Pending, Working

LEMMA StampedTokens ==
  ASSUME MoversAgree, UNCHANGED stamp
  PROVE \A s \in Skus : stamp'[s] # NoStamp => stamp'[s].token \in Token
BY DEF MoversAgree

LEMMA SettleKeeps ==
  ASSUME IInv, NEW m \in Movers, NEW t \in records, Settle(m, t)
  PROVE IInv'
<1>1. t \in Token /\ t \in Pending  BY DEF IInv, TypeOK, Pending
<1>2. Becomes(m, "stamp", t, "drop", NoToken)
  BY <1>1, MoveStep DEF IInv, TypeOK, Settle
<1>3. UNCHANGED <<skuOf, records, owner, known, onHand, holdOf, spent, stamp, ring, used, supply,
                  sold, late>>
  BY DEF Settle, product, shelf, history
<1>4. TypeOK'  BY <1>2, <1>3 DEF IInv, TypeOK, Becomes
<1>5. \A s \in Skus : stamp'[s] # NoStamp => stamp'[s].token \in Token
  BY <1>3, StampedTokens DEF IInv
<1> QED BY <1>1, <1>2, <1>3, <1>4, <1>5, QuietStep

LEMMA CompleteKeeps ==
  ASSUME IInv, NEW m \in Movers, NEW s \in Skus, Complete(m, s)
  PROVE IInv'
<1>1. Becomes(m, "apply", stamp[s].token, "idle", NoToken)
  BY CompletingStep DEF IInv, TypeOK, Complete
<1>2. UNCHANGED <<skuOf, records, owner, known, onHand, holdOf, spent, stamp, ring, used, supply,
                  sold, late>>
  BY DEF Complete, product, shelf, history
<1>3. TypeOK'  BY <1>1, <1>2 DEF IInv, TypeOK, Becomes
<1>4. stamp[s].token \in Token  BY DEF Complete, IInv, MoversAgree
<1>5. \A x \in Skus : stamp'[x] # NoStamp => stamp'[x].token \in Token
  BY <1>2, StampedTokens DEF IInv
<1> QED BY <1>1, <1>2, <1>3, <1>4, <1>5, QuietStep

\* A step of #stampSource that writes nothing.
LEMMA StampQuietly ==
  ASSUME IInv, NEW m \in Movers,
         UNCHANGED <<skuOf, records, owner, known, onHand, holdOf, spent, stamp, ring, used,
                     supply, sold, late>>,
         NEW at, NEW t, NEW then, NEW outer, Becomes(m, at, t, then, outer),
         at = "idle" => then = "idle",
         at # "idle" => t \in Token,
         then = "stamp" => outer \in Pending,
         then = "drop" => t \in Pending,
         at \in {"stamp", "drop"} => then = "drop",
         at # "release"
  PROVE IInv'
<1>1. TypeOK'  BY DEF IInv, TypeOK, Becomes
<1>2. \A x \in Skus : stamp'[x] # NoStamp => stamp'[x].token \in Token
  BY StampedTokens DEF IInv
<1> QED BY <1>1, <1>2, QuietStep

LEMMA StampKeeps ==
  ASSUME IInv, NEW m \in Movers, Stamp(m)
  PROVE IInv'
<1> DEFINE t == mover[m].token
           s == t.from
<1>1. /\ mover[m].at = "stamp" /\ mover[m].then = "drop"
      /\ t \in Token /\ s \in Skus
      /\ t \in Pending
  BY TokenPending DEF Stamp, IInv, MoversAgree, Token
<1>2. UNCHANGED <<skuOf, records, owner, known, holdOf, spent, ring, used, supply, sold, late>>
  BY DEF Stamp, product, history
<1>3. mover \in [Movers -> Mover] /\ mover[m] \in Mover  BY DEF IInv, TypeOK
<1>4. stamp \in [Skus -> [token : Token \cup {NoToken}, qty : Nat]] /\ onHand \in [Skus -> Nat]
  BY DEF IInv, TypeOK
<1>5. CASE stamp[s] # NoStamp /\ stamp[s].token = t
  <2>1. /\ mover' = [mover EXCEPT ![m].at = "apply", ![m].qty = stamp[s].qty]
        /\ UNCHANGED <<onHand, stamp>>
    BY <1>5 DEF Stamp
  <2>2. Becomes(m, "apply", t, "drop", mover[m].outer)
    BY <1>1, <1>3, <1>4, <2>1 DEF Becomes, Mover
  <2> HIDE DEF t, s
  <2> QED BY <1>1, <1>2, <2>1, <2>2, StampQuietly
<1>6. CASE stamp[s] # NoStamp /\ stamp[s].token # t
  <2>1. Completing(m, s, "stamp", t) /\ UNCHANGED <<onHand, stamp>>
    BY <1>6 DEF Stamp
  <2>2. Becomes(m, "apply", stamp[s].token, "stamp", t)
    BY <1>1, <1>3, <1>4, <2>1, CompletingStep
  <2>3. stamp[s].token \in Token  BY <1>1, <1>6 DEF IInv, MoversAgree
  <2> HIDE DEF t, s
  <2> QED BY <1>1, <1>2, <2>1, <2>2, <2>3, StampQuietly
<1>7. CASE stamp[s] = NoStamp /\ Blocked(s)
  <2>1. Return(m) /\ UNCHANGED <<onHand, stamp>>
    BY <1>7 DEF Stamp, StayOwed
  <2>2. Becomes(m, "idle", NoToken, "idle", NoToken)  BY <1>3, <2>1, ReturnStep
  <2> QED BY <1>2, <2>1, <2>2, StampQuietly
<1>8. CASE stamp[s] = NoStamp /\ ~Blocked(s) /\ onHand[s] = 0
  <2>1. Goto(m, "drop") /\ UNCHANGED <<onHand, stamp>>
    BY <1>8 DEF Stamp, NothingToMove
  <2>2. Becomes(m, "drop", t, "drop", mover[m].outer)
    BY <1>1, <1>3, <2>1, GotoStep DEF Steps
  <2> HIDE DEF t, s
  <2> QED BY <1>1, <1>2, <2>1, <2>2, StampQuietly
<1>9. CASE stamp[s] = NoStamp /\ ~Blocked(s) /\ onHand[s] > 0
  <2>1. /\ onHand' = [onHand EXCEPT ![s] = 0]
        /\ stamp' = [stamp EXCEPT ![s] = [token |-> t, qty |-> onHand[s]]]
        /\ mover' = [mover EXCEPT ![m].at = "apply", ![m].qty = onHand[s]]
    BY <1>9 DEF Stamp, Take
  <2>2. Becomes(m, "apply", t, "drop", mover[m].outer)
    BY <1>1, <1>3, <1>4, <2>1 DEF Becomes, Mover
  <2>3. \A x \in Skus : stamp'[x] # NoStamp => stamp'[x].token \in Token
    BY <1>1, <1>4, <2>1 DEF IInv, MoversAgree
  <2>4. /\ onHand' \in [Skus -> Nat]
        /\ stamp' \in [Skus -> [token : Token \cup {NoToken}, qty : Nat]]
    BY <1>1, <1>4, <2>1
  <2>5. TypeOK'  BY <1>2, <2>2, <2>4 DEF IInv, TypeOK, Becomes
  <2> HIDE DEF t, s
  <2> QED BY <1>1, <1>2, <2>2, <2>3, <2>5, QuietStep
<1>10. stamp[s] = NoStamp => onHand[s] = 0 \/ onHand[s] > 0  BY <1>1, <1>4
<1> QED BY <1>5, <1>6, <1>7, <1>8, <1>9, <1>10

LEMMA ApplyKeeps ==
  ASSUME IInv, NEW m \in Movers, Apply(m)
  PROVE IInv'
<1> DEFINE t == mover[m].token
<1>1. mover[m].at = "apply" /\ t \in Token /\ t.to \in Skus
  BY DEF Apply, IInv, MoversAgree, Token
<1>2. UNCHANGED <<skuOf, records, owner, holdOf, spent, stamp, used, supply, sold, late>>
  BY DEF Apply, product, history
<1>3. mover \in [Movers -> Mover] /\ mover[m] \in Mover /\ mover[m].qty \in Nat
  BY DEF IInv, TypeOK, Mover
<1>4. /\ onHand' \in [Skus -> Nat]
      /\ ring' \in [Skus -> SUBSET Token]
      /\ known' \in [Skus -> BOOLEAN]
  BY <1>1, <1>3 DEF Apply, IInv, TypeOK
<1>5. Becomes(m, "clear", t, mover[m].then, mover[m].outer)
  BY <1>3, GotoStep DEF Apply, Steps
<1>6. TypeOK'  BY <1>2, <1>4, <1>5 DEF IInv, TypeOK, Becomes
<1>7. \A s \in Skus : known[s] => known'[s]  BY <1>1 DEF Apply, IInv, TypeOK
<1>8. \A x \in Skus : stamp'[x] # NoStamp => stamp'[x].token \in Token
  BY <1>2, StampedTokens DEF IInv
<1>9. /\ mover[m].then = "drop" => t \in Pending
      /\ mover[m].then = "stamp" => mover[m].outer \in Pending
  BY TokenPending, OuterPending
<1> HIDE DEF t
<1> QED BY <1>1, <1>2, <1>5, <1>6, <1>7, <1>8, <1>9, QuietStep

LEMMA ClearKeeps ==
  ASSUME IInv, NEW m \in Movers, Clear(m)
  PROVE IInv'
<1> DEFINE t == mover[m].token
<1>1. mover[m].at = "clear" /\ t \in Token /\ t.from \in Skus
  BY DEF Clear, IInv, MoversAgree, Token
<1>2. UNCHANGED <<skuOf, records, owner, known, onHand, holdOf, spent, ring, used, supply, sold,
                  late>>
  BY DEF Clear, product, history
<1>3. mover \in [Movers -> Mover]  BY DEF IInv, TypeOK
<1>4. stamp' \in [Skus -> [token : Token \cup {NoToken}, qty : Nat]]
  BY <1>1 DEF Clear, IInv, TypeOK, NoStamp
<1>5. \A x \in Skus : stamp'[x] # NoStamp => stamp'[x].token \in Token
  BY <1>1 DEF Clear, IInv, TypeOK, MoversAgree
<1>6. ASSUME mover' \in [Movers -> Mover] PROVE TypeOK'
  BY <1>2, <1>4, <1>6 DEF IInv, TypeOK
<1>7. CASE mover[m].then = "idle" /\ Return(m)
  <2>1. Becomes(m, "idle", NoToken, "idle", NoToken)  BY <1>3, <1>7, ReturnStep
  <2>2. TypeOK'  BY <1>6, <2>1 DEF Becomes
  <2> QED BY <1>2, <1>5, <2>1, <2>2, QuietStep
<1>8. CASE mover[m].then = "drop" /\ Goto(m, "drop")
  <2>1. Becomes(m, "drop", t, "drop", mover[m].outer)
    BY <1>3, <1>8, GotoStep DEF Steps
  <2>2. TypeOK'  BY <1>6, <2>1 DEF Becomes
  <2>3. t \in Pending  BY <1>8, TokenPending
  <2> HIDE DEF t
  <2> QED BY <1>1, <1>2, <1>5, <2>1, <2>2, <2>3, QuietStep
<1>9. CASE mover[m].then = "stamp" /\ Move(m, mover[m].outer)
  <2> DEFINE o == mover[m].outer
  <2>1. o \in Token /\ o \in Pending  BY <1>9, OuterPending DEF IInv, MoversAgree
  <2>2. Becomes(m, "stamp", o, "drop", NoToken)  BY <1>3, <1>9, <2>1, MoveStep
  <2>3. TypeOK'  BY <1>6, <2>2 DEF Becomes
  <2> HIDE DEF o
  <2> QED BY <1>2, <1>5, <2>1, <2>2, <2>3, QuietStep
<1> QED BY <1>7, <1>8, <1>9 DEF Clear

\* The record goes before the sku can.
LEMMA DropKeeps ==
  ASSUME IInv, NEW m \in Movers, Drop(m)
  PROVE IInv'
<1> DEFINE t == mover[m].token
<1>1. mover[m].at = "drop" /\ mover[m].then = "drop" /\ t \in Token /\ t \in Pending
  BY TokenPending DEF Drop, IInv, MoversAgree
<1>2. /\ UNCHANGED <<skuOf, owner, known, onHand, holdOf, spent, stamp, ring, used, supply, sold,
                     late>>
      /\ records' = records \ {t}
  BY DEF Drop, shelf, history
<1>3. Becomes(m, "release", t, "drop", mover[m].outer)
  BY <1>1, GotoStep DEF Drop, Steps, IInv, TypeOK
<1>4. TypeOK'  BY <1>2, <1>3 DEF IInv, TypeOK, Becomes
<1>5. \A x \in Skus : stamp'[x] # NoStamp => stamp'[x].token \in Token
  BY <1>2, StampedTokens DEF IInv
<1>6. records' \subseteq records /\ t \notin records'  BY <1>2
<1> HIDE DEF t
<1> QED BY <1>1, <1>2, <1>3, <1>4, <1>5, <1>6, QuietStep

\* The one step that frees a sku: its carry is no longer recorded, and no other carry of
\* that product has that source.
LEMMA ReleaseKeeps ==
  ASSUME IInv, NEW m \in Movers, Release(m)
  PROVE IInv'
<1> DEFINE t == mover[m].token
<1>1. mover[m].at = "release" /\ mover[m].then = "drop" /\ t \in Token /\ t \in Pending
  BY TokenPending DEF Release, IInv, MoversAgree
<1>2. t.by \in Products /\ t.from \in Skus  BY <1>1 DEF Token
<1>3. UNCHANGED <<skuOf, records, known, onHand, holdOf, spent, stamp, ring, used, supply, sold,
                  late>>
  BY DEF Release, product, shelf, history
<1>4. Becomes(m, "idle", NoToken, "idle", NoToken)
  BY ReturnStep DEF Release, IInv, TypeOK
<1>5. \A s \in Skus : owner'[s] = IF s = t.from /\ owner[s] = t.by THEN None ELSE owner[s]
  BY <1>2 DEF Release, IInv, TypeOK
<1>6. owner' \in [Skus -> Products \cup {None}]  BY <1>2 DEF Release, IInv, TypeOK
<1>7. TypeOK'  BY <1>3, <1>4, <1>6 DEF IInv, TypeOK, Becomes
<1>8. \A u : u \in Working(m)' => u \in Pending  BY <1>4, WorkingNow
<1>9. \A u : u \in Pending' => u \in Pending
  BY <1>3, <1>4, <1>8, PendingShrinks DEF Becomes
<1>10. \A x \in Skus : stamp'[x] # NoStamp => stamp'[x].token \in Token
  BY <1>3, StampedTokens DEF IInv
<1>11. MoversAgree' /\ DroppedFirst'
  BY <1>3, <1>4, <1>10, MoverAgrees DEF IInv
<1>12. OwedSkuIsKept'
  <2> SUFFICES ASSUME NEW r \in records PROVE owner'[r.from] = r.by
    BY <1>3 DEF OwedSkuIsKept
  <2>1. r \in Token /\ r \in Pending /\ owner[r.from] = r.by
    BY DEF IInv, TypeOK, Pending, OwedSkuIsKept
  <2>2. r # t  BY <1>1 DEF IInv, DroppedFirst
  <2>3. ~(r.from = t.from /\ r.by = t.by)  BY <1>1, <2>1, <2>2 DEF IInv, LeftForGood
  <2> HIDE DEF t
  <2> QED BY <1>5, <2>1, <2>3 DEF Token
<1>13. LeftForGood'
  <2>1. ASSUME NEW p \in Products, skuOf[p] # None
        PROVE owner'[skuOf[p]] = p /\ known[skuOf[p]]
    <3>1. skuOf[p] \in Skus  BY <2>1 DEF IInv, TypeOK
    <3>2. owner[skuOf[p]] = p /\ known[skuOf[p]]  BY <2>1 DEF IInv, LeftForGood
    <3>3. skuOf[t.by] # t.from  BY <1>1 DEF IInv, LeftForGood
    <3> HIDE DEF t
    <3> QED BY <1>5, <3>1, <3>2, <3>3
  <2>2. \A u \in Pending' : u.key \in used /\ known[u.from] /\ skuOf[u.by] \notin {None, u.from}
    BY <1>9 DEF IInv, LeftForGood
  <2>3. \A u, v \in Pending' : u.by = v.by /\ u.from = v.from => u = v
    BY <1>9 DEF IInv, LeftForGood
  <2> QED BY <1>3, <2>1, <2>2, <2>3 DEF LeftForGood
<1> QED BY <1>7, <1>11, <1>12, <1>13 DEF IInv

LEMMA CrashKeeps ==
  ASSUME IInv, NEW m \in Movers, Crash(m)
  PROVE IInv'
<1>1. UNCHANGED <<skuOf, records, owner, known, onHand, holdOf, spent, stamp, ring, used, supply,
                  sold, late>>
  BY DEF Crash, product, shelf, history
<1>2. Becomes(m, "idle", NoToken, "idle", NoToken)
  BY ReturnStep DEF Crash, IInv, TypeOK
<1> QED BY <1>1, <1>2, StampQuietly

-----------------------------------------------------------------------------
(* The rest of the store *)

\* A step that touches counts and holds alone.
LEMMA ShelfStep ==
  ASSUME IInv, UNCHANGED <<skuOf, records, owner, known, stamp, ring, mover, used>>,
         onHand' \in [Skus -> Nat],
         holdOf' \in [Holders -> Skus \cup {None}], spent' \subseteq Holders,
         supply' \in Nat, sold' \in Nat, late' \in BOOLEAN
  PROVE IInv'
<1>1. TypeOK'  BY DEF IInv, TypeOK
<1>2. MoversAgree' /\ DroppedFirst'  BY DEF IInv, MoversAgree, DroppedFirst
<1>3. \A m \in Movers : Working(m)' = Working(m)  BY DEF Working
<1>4. Pending' = Pending  BY <1>3 DEF Pending
<1>5. LeftForGood' /\ OwedSkuIsKept'  BY <1>4, LeftStays DEF IInv
<1> QED BY <1>1, <1>2, <1>5 DEF IInv

LEMMA RestockKeeps ==
  ASSUME IInv, NEW s \in Skus, Restock(s)
  PROVE IInv'
<1>1. onHand' \in [Skus -> Nat] /\ supply' \in Nat  BY DEF Restock, IInv, TypeOK
<1>2. UNCHANGED <<skuOf, records, owner, known, holdOf, spent, stamp, ring, mover, used, sold>>
  BY DEF Restock, product
<1>3. late' \in BOOLEAN  BY DEF Restock, IInv, TypeOK
<1> QED BY <1>1, <1>2, <1>3, ShelfStep DEF IInv, TypeOK

LEMMA ReserveKeeps ==
  ASSUME IInv, NEW h \in Holders, NEW s \in Skus, Reserve(h, s)
  PROVE IInv'
<1>1. onHand' \in [Skus -> Nat]  BY DEF Reserve, IInv, TypeOK
<1>2. holdOf' \in [Holders -> Skus \cup {None}]  BY DEF Reserve, IInv, TypeOK
<1>3. UNCHANGED <<skuOf, records, owner, known, spent, stamp, ring, mover, used, supply, sold,
                  late>>
  BY DEF Reserve, product, history
<1> QED BY <1>1, <1>2, <1>3, ShelfStep DEF IInv, TypeOK

LEMMA ResolveKeeps ==
  ASSUME IInv, NEW h \in Holders, NEW back \in BOOLEAN, Resolve(h, back)
  PROVE IInv'
<1>1. holdOf[h] \in Skus  BY DEF Resolve, IInv, TypeOK
<1>2. onHand' \in [Skus -> Nat] /\ sold' \in Nat  BY <1>1 DEF Resolve, IInv, TypeOK
<1>3. holdOf' \in [Holders -> Skus \cup {None}] /\ spent' \subseteq Holders
  BY DEF Resolve, IInv, TypeOK
<1>4. UNCHANGED <<skuOf, records, owner, known, stamp, ring, mover, used, supply, late>>
  BY DEF Resolve, product
<1> QED BY <1>2, <1>3, <1>4, ShelfStep DEF IInv, TypeOK

LEMMA FirstSkuKeeps ==
  ASSUME IInv, NEW p \in Products, NEW s \in Skus, FirstSku(p, s)
  PROVE IInv'
<1>1. /\ UNCHANGED <<records, known, onHand, holdOf, spent, stamp, ring, mover, used, supply, sold>>
      /\ late' \in BOOLEAN
  BY DEF FirstSku, shelf
<1>2. /\ skuOf[p] = None /\ owner[s] = None /\ known[s]
      /\ skuOf' = [skuOf EXCEPT ![p] = s] /\ owner' = [owner EXCEPT ![s] = p]
  BY DEF FirstSku
<1>3. /\ skuOf \in [Products -> Skus \cup {None}]
      /\ owner \in [Skus -> Products \cup {None}]
      /\ records \subseteq Token
  BY DEF IInv, TypeOK
<1>4. TypeOK'  BY <1>1, <1>2, <1>3 DEF IInv, TypeOK
<1>5. MoversAgree' /\ DroppedFirst'  BY <1>1 DEF IInv, MoversAgree, DroppedFirst
<1>6. \A m \in Movers : Working(m)' = Working(m)  BY <1>1 DEF Working
<1>7. Pending' = Pending  BY <1>1, <1>6 DEF Pending
<1>8. \A t \in Pending : t \in Token /\ t.by \in Products /\ t.by # p
  BY <1>2, PendingTypes DEF IInv, LeftForGood, Token
<1>9. \A q \in Products : skuOf'[q] # None => owner'[skuOf'[q]] = q /\ known'[skuOf'[q]]
  <2> SUFFICES ASSUME NEW q \in Products, skuOf'[q] # None
               PROVE owner'[skuOf'[q]] = q /\ known'[skuOf'[q]]
    OBVIOUS
  <2>1. CASE q = p  BY <1>1, <1>2, <1>3, <2>1
  <2>2. CASE q # p
    <3>1. skuOf'[q] = skuOf[q] /\ skuOf[q] \in Skus  BY <1>2, <1>3, <2>2
    <3>2. owner[skuOf[q]] = q /\ known[skuOf[q]]  BY <3>1 DEF IInv, LeftForGood
    <3>3. skuOf[q] # s  BY <1>2, <3>2, NoneApart
    <3> QED BY <1>1, <1>2, <1>3, <3>1, <3>2, <3>3
  <2> QED BY <2>1, <2>2
<1>10. \A t \in Pending' : t.key \in used' /\ known'[t.from] /\ skuOf'[t.by] \notin {None, t.from}
  BY <1>1, <1>2, <1>3, <1>7, <1>8 DEF IInv, LeftForGood
<1>11. LeftForGood'  BY <1>7, <1>9, <1>10 DEF IInv, LeftForGood
<1>12. OwedSkuIsKept'
  <2> SUFFICES ASSUME NEW r \in records PROVE owner'[r.from] = r.by
    BY <1>1 DEF OwedSkuIsKept
  <2>1. r.from \in Skus /\ r.by \in Products  BY <1>3 DEF Token
  <2>2. owner[r.from] = r.by  BY DEF IInv, OwedSkuIsKept
  <2>3. r.from # s  BY <1>2, <2>1, <2>2, NoneApart
  <2> QED BY <1>2, <1>3, <2>1, <2>2, <2>3
<1> QED BY <1>4, <1>5, <1>11, <1>12 DEF IInv

\* A rename: the product leaves a sku it owns, for one no document was known under.
LEMMA CommitKeeps ==
  ASSUME IInv, NEW m \in Movers, NEW p \in Products, NEW key \in Keys, NEW to \in Skus,
         Commit(m, p, key, to)
  PROVE IInv'
<1> DEFINE t == [by |-> p, key |-> key, from |-> skuOf[p], to |-> to]
<1>1. /\ mover[m] = Idle /\ key \notin used
      /\ skuOf[p] # None /\ skuOf[p] # to
      /\ owner[to] = None /\ ~known[to]
      /\ skuOf' = [skuOf EXCEPT ![p] = to]
      /\ records' = records \cup {t}
      /\ owner' = [owner EXCEPT ![to] = p]
      /\ known' = [known EXCEPT ![to] = TRUE]
      /\ used' = used \cup {key}
      /\ Move(m, t)
      /\ UNCHANGED <<onHand, holdOf, spent, stamp, ring, supply, sold, late>>
  BY DEF Commit, Record
<1>2. /\ skuOf \in [Products -> Skus \cup {None}] /\ skuOf[p] \in Skus
      /\ owner \in [Skus -> Products \cup {None}]
      /\ known \in [Skus -> BOOLEAN]
      /\ records \subseteq Token
      /\ mover \in [Movers -> Mover]
      /\ used \subseteq Keys
  BY <1>1 DEF IInv, TypeOK
<1>3. t \in Token /\ t.by = p /\ t.key = key /\ t.from = skuOf[p] /\ t.to = to
  BY <1>2 DEF Token
<1>4. Becomes(m, "stamp", t, "drop", NoToken)  BY <1>1, <1>2, <1>3, MoveStep
<1> HIDE DEF t
<1>5. TypeOK'
  <2>1. /\ skuOf' \in [Products -> Skus \cup {None}]
        /\ owner' \in [Skus -> Products \cup {None}]
        /\ known' \in [Skus -> BOOLEAN]
        /\ records' \subseteq Token
        /\ used' \subseteq Keys
    BY <1>1, <1>2, <1>3
  <2> QED BY <1>1, <1>4, <2>1 DEF IInv, TypeOK, Becomes
<1>6. \A u : u \in Pending' => u = t \/ u \in Pending
  <2> SUFFICES ASSUME NEW u \in Pending' PROVE u = t \/ u \in Pending  OBVIOUS
  <2>1. u \in records' \/ \E x \in Movers : u \in Working(x)'  BY DEF Pending
  <2>2. CASE u \in records'  BY <1>1, <2>2 DEF Pending
  <2>3. ASSUME NEW x \in Movers, u \in Working(x)' PROVE u = t \/ u \in Pending
    <3>1. CASE x = m  BY <1>4, <2>3, <3>1, WorkingNow
    <3>2. CASE x # m
      <4>1. Working(x)' = Working(x)  BY <1>4, <3>2 DEF Working, Becomes
      <4> QED BY <2>3, <4>1 DEF Pending
    <3> QED BY <3>1, <3>2
  <2> QED BY <2>1, <2>2, <2>3
<1>7. \A u \in Pending : u \in Token /\ u.from \in Skus /\ u.by \in Products /\ u.key \in used
                         /\ known[u.from] /\ skuOf[u.by] \notin {None, u.from}
  BY PendingTypes DEF IInv, LeftForGood, Token
<1>8. MoversAgree' /\ DroppedFirst'
  <2>1. ASSUME NEW x \in Movers
        PROVE /\ mover'[x].at = "idle" => mover'[x].then = "idle"
              /\ mover'[x].at # "idle" => mover'[x].token \in Token
              /\ mover'[x].then = "stamp" => mover'[x].outer \in Token
              /\ mover'[x].at \in {"stamp", "drop", "release"} => mover'[x].then = "drop"
              /\ mover'[x].at = "release" => mover'[x].token \notin records'
    <3>1. CASE x = m  BY <1>3, <1>4, <3>1 DEF Becomes
    <3>2. CASE x # m
      <4>1. mover'[x] = mover[x]  BY <1>4, <3>2 DEF Becomes
      <4>2. ASSUME mover[x].at = "release" PROVE mover[x].token \notin records'
        <5>1. mover[x].then = "drop" /\ mover[x].token \notin records
          BY <4>2 DEF IInv, MoversAgree, DroppedFirst
        <5>2. mover[x].token.key \in used  BY <1>7, <5>1, TokenPending
        <5>3. mover[x].token # t  BY <1>1, <1>3, <5>2
        <5> QED BY <1>1, <5>1, <5>3
      <4> QED BY <4>1, <4>2 DEF IInv, MoversAgree
    <3> QED BY <3>1, <3>2
  <2>2. \A x \in Skus : stamp'[x] # NoStamp => stamp'[x].token \in Token
    BY <1>1, StampedTokens DEF IInv
  <2> QED BY <2>1, <2>2 DEF MoversAgree, DroppedFirst
<1>9. \A q \in Products : skuOf'[q] # None => owner'[skuOf'[q]] = q /\ known'[skuOf'[q]]
  <2> SUFFICES ASSUME NEW q \in Products, skuOf'[q] # None
               PROVE owner'[skuOf'[q]] = q /\ known'[skuOf'[q]]
    OBVIOUS
  <2>1. CASE q = p  BY <1>1, <1>2, <2>1
  <2>2. CASE q # p
    <3>1. skuOf'[q] = skuOf[q] /\ skuOf[q] \in Skus  BY <1>1, <1>2, <2>2
    <3>2. owner[skuOf[q]] = q /\ known[skuOf[q]]  BY <3>1, NoneApart DEF IInv, LeftForGood
    <3>3. skuOf[q] # to  BY <1>1, <3>2
    <3> QED BY <1>1, <1>2, <3>1, <3>2, <3>3
  <2> QED BY <2>1, <2>2
<1>10. \A u \in Pending' : u.key \in used' /\ known'[u.from] /\ skuOf'[u.by] \notin {None, u.from}
  <2> SUFFICES ASSUME NEW u \in Pending'
               PROVE u.key \in used' /\ known'[u.from] /\ skuOf'[u.by] \notin {None, u.from}
    OBVIOUS
  <2>1. CASE u = t
    <3>1. known[skuOf[p]]  BY <1>1 DEF IInv, LeftForGood
    <3> QED BY <1>1, <1>2, <1>3, <2>1, <3>1, NoneApart
  <2>2. CASE u \in Pending
    <3>1. u.from # to  BY <1>1, <1>7, <2>2
    <3>2. to # None  BY NoneApart
    <3> QED BY <1>1, <1>2, <1>7, <2>2, <3>1, <3>2
  <2> QED BY <1>6, <2>1, <2>2
<1>11. \A u, v \in Pending' : u.by = v.by /\ u.from = v.from => u = v
  <2> SUFFICES ASSUME NEW u \in Pending', NEW v \in Pending', u.by = v.by, u.from = v.from
               PROVE u = v
    OBVIOUS
  <2>1. ASSUME NEW w \in Pending PROVE w.by # p \/ w.from # skuOf[p]  BY <1>7
  <2>2. CASE u \in Pending /\ v \in Pending  BY <2>2 DEF IInv, LeftForGood
  <2>3. CASE u = t \/ v = t  BY <1>3, <1>6, <2>1, <2>3
  <2> QED BY <1>6, <2>2, <2>3
<1>12. LeftForGood'  BY <1>9, <1>10, <1>11 DEF LeftForGood
<1>13. OwedSkuIsKept'
  <2> SUFFICES ASSUME NEW r \in records' PROVE owner'[r.from] = r.by
    BY DEF OwedSkuIsKept
  <2>1. CASE r = t
    <3>1. owner[skuOf[p]] = p  BY <1>1 DEF IInv, LeftForGood
    <3> QED BY <1>1, <1>2, <1>3, <2>1, <3>1
  <2>2. CASE r \in records
    <3>1. r.from \in Skus /\ r.by \in Products  BY <1>2, <2>2 DEF Token
    <3>2. owner[r.from] = r.by  BY <2>2 DEF IInv, OwedSkuIsKept
    <3>3. r.from # to  BY <1>1, <3>1, <3>2, NoneApart
    <3> QED BY <1>1, <1>2, <3>1, <3>2, <3>3
  <2> QED BY <1>1, <2>1, <2>2
<1> QED BY <1>5, <1>8, <1>12, <1>13 DEF IInv

-----------------------------------------------------------------------------
(* Its theorems *)

LEMMA InitHolds == Init => IInv
<1> SUFFICES ASSUME Init PROVE IInv  OBVIOUS
<1>1. PICK p \in Products, s \in Skus :
        /\ skuOf = [q \in Products |-> IF q = p THEN s ELSE None]
        /\ owner = [x \in Skus |-> IF x = s THEN p ELSE None]
        /\ known = [x \in Skus |-> x = s]
        /\ \E n \in 0..MaxUnits : onHand = [x \in Skus |-> IF x = s THEN n ELSE 0] /\ supply = n
        /\ records = {}
        /\ holdOf = [h \in Holders |-> None]
        /\ spent = {}
        /\ stamp = [x \in Skus |-> NoStamp]
        /\ ring = [x \in Skus |-> {}]
        /\ mover = [m \in Movers |-> Idle]
        /\ used = {}
        /\ sold = 0 /\ late = FALSE
  BY DEF Init
<1>2. onHand \in [Skus -> Nat] /\ supply \in Nat  BY <1>1, BoundAssumption
<1>3. stamp \in [Skus -> [token : Token \cup {NoToken}, qty : Nat]]  BY <1>1 DEF NoStamp
<1>4. mover \in [Movers -> Mover]  BY <1>1, IdleType
<1>5. TypeOK  BY <1>1, <1>2, <1>3, <1>4 DEF TypeOK
<1>6. \A m \in Movers : mover[m].at = "idle" /\ mover[m].then = "idle"  BY <1>1, IdleType
<1>7. MoversAgree /\ DroppedFirst  BY <1>1, <1>6 DEF MoversAgree, DroppedFirst
<1>8. \A m \in Movers : Working(m) = {}  BY <1>6 DEF Working
<1>9. Pending = {}  BY <1>1, <1>8 DEF Pending
<1>10. LeftForGood /\ OwedSkuIsKept  BY <1>1, <1>9 DEF LeftForGood, OwedSkuIsKept
<1> QED BY <1>5, <1>7, <1>10 DEF IInv

LEMMA NextKeeps == IInv /\ [Next]_vars => IInv'
<1> SUFFICES ASSUME IInv, [Next]_vars PROVE IInv'  OBVIOUS
<1>1. ASSUME NEW m \in Movers, Step(m) \/ Crash(m) PROVE IInv'
  BY <1>1, StampKeeps, ApplyKeeps, ClearKeeps, DropKeeps, ReleaseKeeps, CrashKeeps DEF Step
<1>2. ASSUME NEW m \in Movers, NEW p \in Products, NEW key \in Keys, NEW to \in Skus,
             Commit(m, p, key, to)
      PROVE IInv'
  BY <1>2, CommitKeeps
<1>3. ASSUME NEW m \in Movers, (\E t \in records : Settle(m, t)) \/ (\E s \in Skus : Complete(m, s))
      PROVE IInv'
  BY <1>3, SettleKeeps, CompleteKeeps
<1>4. ASSUME NEW p \in Products, NEW s \in Skus, FirstSku(p, s) PROVE IInv'
  BY <1>4, FirstSkuKeeps
<1>5. ASSUME NEW s \in Skus, Restock(s) PROVE IInv'  BY <1>5, RestockKeeps
<1>6. ASSUME NEW h \in Holders,
             (\E s \in Skus : Reserve(h, s)) \/ Resolve(h, TRUE) \/ Resolve(h, FALSE)
      PROVE IInv'
  BY <1>6, ReserveKeeps, ResolveKeeps
<1>7. CASE UNCHANGED vars
  <2>1. UNCHANGED <<skuOf, records, owner, known, onHand, holdOf, spent, stamp, ring, mover, used,
                    supply, sold, late>>
    BY <1>7 DEF vars, product, shelf, history
  <2> QED BY <2>1, ShelfStep DEF IInv, TypeOK
<1> QED BY <1>1, <1>2, <1>3, <1>4, <1>5, <1>6, <1>7 DEF Next

\* IInv holds of every behaviour: however many movers work on a carry, die, and work on it
\* again.
THEOREM Inductive == Spec => []IInv
BY InitHolds, NextKeeps, PTL DEF Spec

\* The documents and the calls have the shapes the code gives them; no shelf is oversold.
THEOREM TypesHold == Spec => []TypeOK
<1>1. IInv => TypeOK  BY DEF IInv
<1> QED BY <1>1, Inductive, PTL

\* While a product owes the units of a sku it has left (pendingRenames), #releaseSku has not
\* freed that sku and nobody else owns it.
THEOREM OwedSkuIsKeptHolds == Spec => []OwedSkuIsKept
<1>1. IInv => OwedSkuIsKept  BY DEF IInv
<1> QED BY <1>1, Inductive, PTL

-----------------------------------------------------------------------------
(* Counting units: sets of pairs, so that no sum over a set is needed. *)

Units(S, q) == UNION {{x} \X (1..q[x]) : x \in S}

LEMMA UnitsAre ==
  ASSUME NEW S, NEW q
  PROVE \A u : u \in Units(S, q) <=> \E x \in S : \E j \in 1..q[x] : u = <<x, j>>
BY DEF Units

LEMMA Numbers ==
  ASSUME NEW x, NEW n \in Nat
  PROVE IsFiniteSet({x} \X (1..n)) /\ Cardinality({x} \X (1..n)) = n
<1>1. PICK X : X = {x}
  OBVIOUS
<1>2. IsFiniteSet(X) /\ Cardinality(X) = 1
  BY <1>1, FS_Singleton
<1>3. IsFiniteSet(1..n) /\ Cardinality(1..n) = n
  <2>1. 1 \in Int /\ n \in Int
    OBVIOUS
  <2>2. IsFiniteSet(1..n) /\ Cardinality(1..n) = IF 1 > n THEN 0 ELSE n - 1 + 1
    BY <2>1, FS_Interval
  <2> QED BY <2>2
<1>4. IsFiniteSet(X \X (1..n)) /\ Cardinality(X \X (1..n)) = Cardinality(X) * Cardinality(1..n)
  BY <1>2, <1>3, FS_Product
<1>5. Cardinality(X \X (1..n)) = n
  BY <1>2, <1>3, <1>4
<1> QED BY <1>1, <1>4, <1>5

\* The units of one x change in number, and no others.
LEMMA Refilled ==
  ASSUME NEW S, NEW q \in [S -> Nat], NEW k \in [S -> Nat], NEW r \in S,
         \A x \in S : x # r => k[x] = q[x], IsFiniteSet(Units(S, q))
  PROVE /\ IsFiniteSet(Units(S, k))
        /\ Cardinality(Units(S, k)) = Cardinality(Units(S, q)) - q[r] + k[r]
<1>1. PICK U, A, B : U = Units(S, q) /\ A = {r} \X (1..q[r]) /\ B = {r} \X (1..k[r])
  OBVIOUS
<1>2. q[r] \in Nat /\ k[r] \in Nat
  OBVIOUS
<1>3. /\ IsFiniteSet(A) /\ Cardinality(A) = q[r]
      /\ IsFiniteSet(B) /\ Cardinality(B) = k[r]
  BY <1>1, <1>2, Numbers
<1>4. /\ \A u : u \in A <=> \E j \in 1..q[r] : u = <<r, j>>
      /\ \A u : u \in B <=> \E j \in 1..k[r] : u = <<r, j>>
  BY <1>1
<1>5. U \cap A = A
  BY <1>1, <1>4, UnitsAre
<1>6. (U \ A) \cap B = {}
  <2>1. ASSUME NEW u, u \in U, u \notin A, u \in B PROVE FALSE
    <3>1. PICK x \in S : \E j \in 1..q[x] : u = <<x, j>>
      BY <1>1, <2>1, UnitsAre
    <3>2. x = r
      BY <1>4, <2>1, <3>1
    <3> QED BY <1>4, <2>1, <3>1, <3>2
  <2> QED BY <2>1
<1>7. Units(S, k) = (U \ A) \cup B
  <2>1. ASSUME NEW u PROVE u \in Units(S, k) <=> (u \in U /\ u \notin A) \/ u \in B
    <3>1. CASE \E j : u = <<r, j>>
      <4>1. PICK j : u = <<r, j>>
        BY <3>1
      <4>2. u \in Units(S, k) <=> j \in 1..k[r]
        BY <4>1, UnitsAre
      <4>3. (u \in U <=> j \in 1..q[r]) /\ (u \in A <=> j \in 1..q[r]) /\ (u \in B <=> j \in 1..k[r])
        BY <1>1, <1>4, <4>1, UnitsAre
      <4> QED BY <4>2, <4>3
    <3>2. CASE ~\E j : u = <<r, j>>
      <4>1. u \notin A /\ u \notin B
        BY <1>4, <3>2
      <4>2. u \in Units(S, k) <=> u \in U
        BY <1>1, <3>2, UnitsAre
      <4> QED BY <4>1, <4>2
    <3> QED BY <3>1, <3>2
  <2> QED BY <2>1
<1>8. IsFiniteSet(U \ A) /\ Cardinality(U \ A) = Cardinality(U) - Cardinality(A)
  <2>1. IsFiniteSet(U)
    BY <1>1
  <2>2. IsFiniteSet(U \ A) /\ Cardinality(U \ A) = Cardinality(U) - Cardinality(U \cap A)
    BY <2>1, FS_Difference
  <2> QED BY <1>5, <2>2
<1>9. /\ IsFiniteSet((U \ A) \cup B)
      /\ Cardinality((U \ A) \cup B)
           = Cardinality(U \ A) + Cardinality(B) - Cardinality((U \ A) \cap B)
  BY <1>3, <1>8, FS_Union
<1>10. Cardinality((U \ A) \cap B) = 0
  BY <1>6, FS_EmptySet
<1>11. Cardinality(U) \in Nat
  BY <1>1, FS_CardinalityType
<1>12. Cardinality((U \ A) \cup B) = Cardinality(U) - q[r] + k[r]
  BY <1>2, <1>3, <1>8, <1>9, <1>10, <1>11
<1> QED BY <1>1, <1>7, <1>9, <1>12

\* One x alone has units.
LEMMA OneFilled ==
  ASSUME NEW S, NEW q \in [S -> Nat], NEW r \in S, \A x \in S : x # r => q[x] = 0
  PROVE IsFiniteSet(Units(S, q)) /\ Cardinality(Units(S, q)) = q[r]
<1>1. PICK z : z = [x \in S |-> 0]
  OBVIOUS
<1>2. Units(S, z) = {}
  BY <1>1, UnitsAre
<1>3. IsFiniteSet(Units(S, z)) /\ Cardinality(Units(S, z)) = 0
  BY <1>2, FS_EmptySet
<1>4. z \in [S -> Nat] /\ z[r] = 0 /\ \A x \in S : x # r => q[x] = z[x]
  BY <1>1
<1>5. IsFiniteSet(Units(S, q)) /\ Cardinality(Units(S, q)) = Cardinality(Units(S, z)) - z[r] + q[r]
  BY <1>3, <1>4, Refilled
<1> QED BY <1>3, <1>4, <1>5

\* The units in the air from s, when its stamp is st and the rings are rg.
FlightOf(st, rg) == IF st = NoStamp \/ st.token \in rg[st.token.to] THEN 0 ELSE st.qty
Air == [s \in Skus |-> FlightOf(stamp[s], ring)]
HeldBy == {h \in Holders : holdOf[h] # None}

LEMMA ShelvesAre ==
  /\ OnShelves = Units(Skus, onHand) /\ OnShelves' = Units(Skus, onHand')
  /\ InTheAir = Units(Skus, Air) /\ InTheAir' = Units(Skus, Air')
<1>1. OnShelves = Units(Skus, onHand) /\ OnShelves' = Units(Skus, onHand')
  BY DEF OnShelves, Units
<1>2. InTheAir = Units(Skus, Air)
  <2>1. \A s \in Skus : InFlight(s) = Air[s]
    BY DEF InFlight, Air, FlightOf
  <2> QED BY <2>1 DEF InTheAir, Units
<1>3. InTheAir' = Units(Skus, Air')
  <2>1. \A s \in Skus : InFlight(s)' = Air'[s]
    BY DEF InFlight, Air, FlightOf
  <2> QED BY <2>1 DEF InTheAir, Units
<1> QED BY <1>1, <1>2, <1>3

LEMMA AirType ==
  ASSUME TypeOK
  PROVE Air \in [Skus -> Nat]
<1>1. stamp \in [Skus -> [token : Token \cup {NoToken}, qty : Nat]]
  BY DEF TypeOK
<1>2. \A s \in Skus : FlightOf(stamp[s], ring) \in Nat
  BY <1>1 DEF FlightOf
<1> QED BY <1>2 DEF Air

LEMMA AirTypeNext ==
  ASSUME TypeOK'
  PROVE Air' \in [Skus -> Nat]
<1>1. stamp' \in [Skus -> [token : Token \cup {NoToken}, qty : Nat]]
  BY DEF TypeOK
<1>2. \A s \in Skus : FlightOf(stamp'[s], ring') \in Nat
  BY <1>1 DEF FlightOf
<1> QED BY <1>2 DEF Air

\* What a step shows of the units on the shelves and of those in the air.
LEMMA ShelfStays == UNCHANGED onHand => OnShelves' = OnShelves
BY DEF OnShelves

LEMMA AirStays ==
  ASSUME \A s \in Skus : FlightOf(stamp'[s], ring') = FlightOf(stamp[s], ring)
  PROVE InTheAir' = InTheAir
<1>1. Air' = Air
  BY DEF Air
<1> QED BY <1>1, ShelvesAre

LEMMA ShelfMoves ==
  ASSUME TypeOK, TypeOK', IsFiniteSet(OnShelves), NEW s \in Skus,
         \A x \in Skus : x # s => onHand'[x] = onHand[x]
  PROVE /\ IsFiniteSet(OnShelves')
        /\ Cardinality(OnShelves') = Cardinality(OnShelves) - onHand[s] + onHand'[s]
<1>1. onHand \in [Skus -> Nat] /\ onHand' \in [Skus -> Nat]
  BY DEF TypeOK
<1> QED BY <1>1, ShelvesAre, Refilled

LEMMA AirMoves ==
  ASSUME TypeOK, TypeOK', IsFiniteSet(InTheAir), NEW s \in Skus,
         \A x \in Skus : x # s => FlightOf(stamp'[x], ring') = FlightOf(stamp[x], ring)
  PROVE /\ IsFiniteSet(InTheAir')
        /\ Cardinality(InTheAir') = Cardinality(InTheAir) - FlightOf(stamp[s], ring)
                                                          + FlightOf(stamp'[s], ring')
<1>1. Air \in [Skus -> Nat] /\ Air' \in [Skus -> Nat]
  BY AirType, AirTypeNext
<1>2. \A x \in Skus : x # s => Air'[x] = Air[x]
  BY DEF Air
<1>3. Air[s] = FlightOf(stamp[s], ring) /\ Air'[s] = FlightOf(stamp'[s], ring')
  BY DEF Air
<1>4. /\ IsFiniteSet(Units(Skus, Air'))
      /\ Cardinality(Units(Skus, Air')) = Cardinality(Units(Skus, Air)) - Air[s] + Air'[s]
  BY <1>1, <1>2, ShelvesAre, Refilled
<1> QED BY <1>3, <1>4, ShelvesAre

LEMMA CountsAre ==
  ASSUME IsFiniteSet(OnShelves), IsFiniteSet(InTheAir), IsFiniteSet(HeldBy)
  PROVE /\ Cardinality(OnShelves) \in Nat /\ Cardinality(InTheAir) \in Nat
        /\ Cardinality(HeldBy) \in Nat
BY FS_CardinalityType

\* The books after a step that moves d units in, and may drop some when it is late.
LEMMA Balanced ==
  ASSUME Balance, TypeOK, TypeOK', late => late',
         IsFiniteSet(OnShelves'), IsFiniteSet(InTheAir'), IsFiniteSet(HeldBy'),
         NEW d \in Nat, supply' = supply + d,
         Counted' <= Counted + d, ~late' => Counted' = Counted + d
  PROVE Balance'
<1>1. supply \in Nat /\ sold \in Nat /\ sold' \in Nat
  BY DEF TypeOK
<1>2. Counted \in Nat /\ Counted' \in Nat
  <2>1. IsFiniteSet(OnShelves) /\ IsFiniteSet(InTheAir) /\ IsFiniteSet(HeldBy)
    BY DEF Balance, HeldBy
  <2>2. /\ Cardinality(OnShelves) \in Nat /\ Cardinality(InTheAir) \in Nat
        /\ Cardinality(HeldBy) \in Nat
    BY <2>1, CountsAre
  <2>3. /\ Cardinality(OnShelves') \in Nat /\ Cardinality(InTheAir') \in Nat
        /\ Cardinality(HeldBy') \in Nat
    BY FS_CardinalityType
  <2> QED BY <1>1, <2>2, <2>3 DEF Counted, HeldBy
<1>3. Counted' <= supply'
  BY <1>1, <1>2 DEF Balance
<1>4. ~late' => Counted' = supply'
  BY <1>1, <1>2 DEF Balance
<1> QED BY <1>3, <1>4 DEF Balance, HeldBy

LEMMA BalanceStays ==
  ASSUME Balance, TypeOK, UNCHANGED <<onHand, holdOf, supply, sold>>, late => late',
         TypeOK', \A s \in Skus : FlightOf(stamp'[s], ring') = FlightOf(stamp[s], ring)
  PROVE Balance'
<1>1. OnShelves' = OnShelves /\ InTheAir' = InTheAir /\ HeldBy' = HeldBy
  BY ShelfStays, AirStays DEF HeldBy
<1>2. Counted' = Counted
  BY <1>1 DEF Counted, HeldBy
<1> QED BY <1>1, <1>2 DEF Balance, HeldBy

-----------------------------------------------------------------------------
(* The steps of a call that write no shelf *)

\* Emptied and OnTime, of documents named one by one.
Dry(s, K, S, O, H) ==
  K[s] /\ (\A p \in Products : S[p] # s) /\ O[s] = 0 /\ \A h \in Holders : H[h] # s
Timely(K, S, O, H, R, st, rg, M) ==
  /\ \A p, q \in Products : S[p] # None /\ S[q] # None => p = q
  /\ \A s \in Skus : st[s] # NoStamp => st[s].token \in R
  /\ \A s \in Skus : (\A p \in Products : S[p] # s) /\ (\A t \in R : t.from # s) =>
       O[s] = 0 /\ \A h \in Holders : H[h] # s
  /\ \A s \in Skus : st[s] # NoStamp => Dry(s, K, S, O, H)
  /\ \A s \in Skus : \A t \in rg[s] : Dry(t.from, K, S, O, H)
  /\ \A m \in Movers : M[m].at \in {"drop", "release"} =>
       Dry(M[m].token.from, K, S, O, H) /\ st[M[m].token.from] = NoStamp

LEMMA OnTimeIs ==
  /\ OnTime <=> Timely(known, skuOf, onHand, holdOf, records, stamp, ring, mover)
  /\ OnTime' <=> Timely(known', skuOf', onHand', holdOf', records', stamp', ring', mover')
BY DEF OnTime, Timely, StampsAreFindable, NothingStranded, Emptied, Dry, Left, LiveHolds

\* What CarriesAgree says of one call c, and OnTime of it, when the stamps are st.
Agrees(c, st, rg) ==
  /\ c.at = "apply" => \/ c.token \in rg[c.token.to]
                       \/ st[c.token.from] = [token |-> c.token, qty |-> c.qty]
  /\ c.at = "clear" => c.token \in rg[c.token.to]
Finished(c) == c.at \in {"drop", "release"} =>
                 /\ Dry(c.token.from, known, skuOf, onHand, holdOf)
                 /\ stamp[c.token.from] = NoStamp

LEMMA AgreesAll ==
  CarriesAgree <=> /\ \A s \in Skus : stamp[s] # NoStamp => stamp[s].token.from = s
                   /\ \A m \in Movers : Agrees(mover[m], stamp, ring)
BY DEF CarriesAgree, Agrees

LEMMA AgreesAllNext ==
  CarriesAgree' <=> /\ \A s \in Skus : stamp'[s] # NoStamp => stamp'[s].token.from = s
                    /\ \A m \in Movers : Agrees(mover'[m], stamp', ring')
BY DEF CarriesAgree, Agrees

\* Whatever carries a product still owes or works on, it is on another sku, the only one.
LEMMA SourcesAreLeft ==
  ASSUME IInv, OnTime, NEW t \in Pending
  PROVE /\ t.from \in Skus /\ known[t.from] /\ Left(t.from)
        /\ \A u \in Pending : u.from = t.from => u = t
<1>1. t \in Token /\ \A u \in Pending : u \in Token
  BY PendingTypes DEF IInv
<1>2. t.by \in Products /\ t.from \in Skus /\ skuOf[t.by] # None /\ skuOf[t.by] # t.from
      /\ known[t.from]
  BY <1>1 DEF IInv, LeftForGood, Token
<1>3. ASSUME NEW p \in Products, skuOf[p] = t.from PROVE FALSE
  <2>1. skuOf[p] # None
    BY <1>2, <1>3, NoneApart
  <2>2. p = t.by
    BY <1>2, <2>1 DEF OnTime
  <2> QED BY <1>2, <1>3, <2>2
<1>4. ASSUME NEW u \in Pending, u.from = t.from PROVE u = t
  <2>1. u.by \in Products /\ skuOf[u.by] # None
    BY <1>1 DEF IInv, LeftForGood, Token
  <2>2. u.by = t.by
    BY <1>2, <2>1 DEF OnTime
  <2> QED BY <1>4, <2>2 DEF IInv, LeftForGood
<1> QED BY <1>2, <1>3, <1>4 DEF Left

LEMMA QuietCarries ==
  ASSUME IInv, IInv', Carried,
         UNCHANGED <<skuOf, records, known, onHand, holdOf, stamp, ring, supply, sold, late>>,
         NEW m \in Movers, \A x \in Movers : x # m => mover'[x] = mover[x],
         Agrees(mover'[m], stamp, ring),
         ~late => Finished(mover'[m])
  PROVE Carried'
<1>1. Balance'
  <2>1. \A s \in Skus : FlightOf(stamp'[s], ring') = FlightOf(stamp[s], ring)
    OBVIOUS
  <2> QED BY <2>1, BalanceStays DEF Carried, IInv
<1>2. CarriesAgree'
  BY AgreesAll, AgreesAllNext DEF Carried
<1>3. RecordsAreCurrent'
  BY DEF Carried, RecordsAreCurrent
<1>4. ASSUME ~late PROVE OnTime'
  <2>1. Timely(known, skuOf, onHand, holdOf, records, stamp, ring, mover)
    BY <1>4, OnTimeIs DEF Carried
  <2>2. ASSUME NEW x \in Movers, mover'[x].at \in {"drop", "release"}
        PROVE /\ Dry(mover'[x].token.from, known, skuOf, onHand, holdOf)
              /\ stamp[mover'[x].token.from] = NoStamp
    <3>1. CASE x = m
      BY <1>4, <2>2, <3>1 DEF Finished
    <3>2. CASE x # m
      BY <2>1, <2>2, <3>2 DEF Timely
    <3> QED BY <3>1, <3>2
  <2>3. Timely(known, skuOf, onHand, holdOf, records, stamp, ring, mover')
    BY <2>1, <2>2 DEF Timely
  <2> QED BY <2>3, OnTimeIs
<1> QED BY <1>1, <1>2, <1>3, <1>4 DEF Carried

LEMMA IdleAgrees == Agrees(Idle, stamp, ring) /\ Finished(Idle)
BY DEF Idle, Agrees, Finished

LEMMA CallCarries ==
  ASSUME IInv, IInv', Carried, NEW m \in Movers,
         Crash(m) \/ Release(m) \/ (\E t \in records : Settle(m, t))
                  \/ (\E s \in Skus : Complete(m, s))
  PROVE Carried'
<1>0. mover \in [Movers -> Mover]
  BY DEF IInv, TypeOK
<1>1. CASE Crash(m) \/ Release(m)
  <2>1. UNCHANGED <<skuOf, records, known, onHand, holdOf, stamp, ring, supply, sold, late>>
    BY <1>1 DEF Crash, Release, product, shelf, history
  <2>2. mover'[m] = Idle /\ \A x \in Movers : x # m => mover'[x] = mover[x]
    BY <1>0, <1>1, ReturnStep DEF Crash, Release, Becomes
  <2> QED BY <2>1, <2>2, IdleAgrees, QuietCarries
<1>2. ASSUME NEW t \in records, Settle(m, t) PROVE Carried'
  <2>1. UNCHANGED <<skuOf, records, known, onHand, holdOf, stamp, ring, supply, sold, late>>
    BY <1>2 DEF Settle, product, shelf, history
  <2>2. t \in Token
    BY DEF IInv, TypeOK
  <2>3. mover'[m].at = "stamp" /\ \A x \in Movers : x # m => mover'[x] = mover[x]
    BY <1>0, <1>2, <2>2, MoveStep DEF Settle, Becomes
  <2>4. Agrees(mover'[m], stamp, ring) /\ Finished(mover'[m])
    BY <2>3 DEF Agrees, Finished
  <2> QED BY <2>1, <2>3, <2>4, QuietCarries
<1>3. ASSUME NEW s \in Skus, Complete(m, s) PROVE Carried'
  <2>1. UNCHANGED <<skuOf, records, known, onHand, holdOf, stamp, ring, supply, sold, late>>
    BY <1>3 DEF Complete, product, shelf, history
  <2>2. mover' = [mover EXCEPT ![m] = [at |-> "apply", token |-> stamp[s].token,
                                       qty |-> stamp[s].qty, then |-> "idle", outer |-> NoToken]]
    BY <1>3 DEF Complete, Completing
  <2>3. /\ mover'[m].at = "apply" /\ mover'[m].token = stamp[s].token
        /\ mover'[m].qty = stamp[s].qty
        /\ \A x \in Movers : x # m => mover'[x] = mover[x]
    BY <1>0, <2>2
  <2>4. stamp[s].token.from = s /\ stamp[s] = [token |-> stamp[s].token, qty |-> stamp[s].qty]
    BY <1>3 DEF Complete, Carried, CarriesAgree, IInv, TypeOK
  <2>5. Agrees(mover'[m], stamp, ring) /\ Finished(mover'[m])
    BY <2>3, <2>4 DEF Agrees, Finished
  <2> QED BY <2>1, <2>3, <2>5, QuietCarries
<1> QED BY <1>1, <1>2, <1>3

-----------------------------------------------------------------------------
(* SkuStockTransfer.move: the steps that write a shelf *)

LEMMA TokenApart ==
  NoToken \notin Token /\ \A t \in Token : \A n : [token |-> t, qty |-> n] # NoStamp
<1>1. NoToken \notin Token
  <2>1. NoToken.by = None
    BY DEF NoToken
  <2>2. \A t \in Token : t.by \in Products
    BY DEF Token
  <2> QED BY <2>1, <2>2, NoneApart
<1>2. NoStamp.token = NoToken
  BY DEF NoStamp
<1> QED BY <1>1, <1>2

\* A call that is about to take up a carry finds its sku left; if units or holds are left
\* there, the carry is recorded.
LEMMA TakenIsRecorded ==
  ASSUME IInv, OnTime, NEW t \in Pending,
         onHand[t.from] # 0 \/ (\E h \in Holders : holdOf[h] = t.from)
  PROVE t \in records
<1>1. t.from \in Skus /\ Left(t.from) /\ \A u \in Pending : u.from = t.from => u = t
  BY SourcesAreLeft
<1>2. PICK u \in records : u.from = t.from
  BY <1>1 DEF OnTime, NothingStranded, LiveHolds
<1>3. u \in Pending
  BY DEF Pending
<1> QED BY <1>1, <1>2, <1>3

LEMMA TakeCarries ==
  ASSUME IInv, IInv', Carried, NEW m \in Movers,
         mover[m].at = "stamp", mover[m].token.from \in Skus,
         stamp[mover[m].token.from] = NoStamp,
         ~Blocked(mover[m].token.from), onHand[mover[m].token.from] > 0,
         Take(m, mover[m].token.from),
         UNCHANGED <<skuOf, records, known, holdOf, ring, supply, sold, late>>
  PROVE Carried'
<1>1. PICK t, s, n : t = mover[m].token /\ s = t.from /\ n = onHand[s]
  OBVIOUS
<1>2. /\ t \in Token /\ s \in Skus /\ n \in Nat /\ n > 0 /\ stamp[s] = NoStamp
      /\ t \in Pending /\ \A h \in Holders : holdOf[h] # s
  <2>1. mover[m].then = "drop" /\ t \in Token
    BY <1>1 DEF IInv, MoversAgree
  <2> QED BY <1>1, <2>1, TokenPending DEF IInv, TypeOK, Blocked, LiveHolds
<1>3. /\ onHand \in [Skus -> Nat] /\ mover \in [Movers -> Mover]
      /\ stamp \in [Skus -> [token : Token \cup {NoToken}, qty : Nat]]
  BY DEF IInv, TypeOK
<1>4. /\ onHand' = [onHand EXCEPT ![s] = 0]
      /\ stamp' = [stamp EXCEPT ![s] = [token |-> t, qty |-> n]]
      /\ mover' = [mover EXCEPT ![m].at = "apply", ![m].qty = n]
  BY <1>1 DEF Take
<1>5. /\ onHand'[s] = 0 /\ \A x \in Skus : x # s => onHand'[x] = onHand[x]
      /\ stamp'[s] = [token |-> t, qty |-> n] /\ \A x \in Skus : x # s => stamp'[x] = stamp[x]
      /\ stamp'[s].token = t /\ stamp'[s].qty = n /\ stamp'[s] # NoStamp
      /\ mover'[m].at = "apply" /\ mover'[m].token = t /\ mover'[m].qty = n
      /\ \A x \in Movers : x # m => mover'[x] = mover[x]
  BY <1>1, <1>2, <1>3, <1>4, TokenApart DEF Mover
<1>6. CarriesAgree'
  <2>1. ASSUME NEW x \in Movers PROVE Agrees(mover'[x], stamp', ring')
    <3>1. CASE x = m
      BY <1>1, <1>5, <3>1 DEF Agrees
    <3>2. CASE x # m
      <4>1. Agrees(mover[x], stamp, ring) /\ mover'[x] = mover[x]
        BY <1>5, <3>2, AgreesAll DEF Carried
      <4>2. ASSUME mover[x].at = "apply",
                   stamp[mover[x].token.from] = [token |-> mover[x].token, qty |-> mover[x].qty]
            PROVE stamp'[mover[x].token.from] = [token |-> mover[x].token, qty |-> mover[x].qty]
        <5>1. mover[x].token \in Token
          BY <4>2 DEF IInv, MoversAgree
        <5>2. stamp[mover[x].token.from] # NoStamp /\ mover[x].token.from \in Skus
          BY <4>2, <5>1, TokenApart DEF Token
        <5> QED BY <1>2, <1>5, <4>2, <5>2
      <4> QED BY <4>1, <4>2 DEF Agrees
    <3> QED BY <3>1, <3>2
  <2>2. \A x \in Skus : stamp'[x] # NoStamp => stamp'[x].token.from = x
    BY <1>1, <1>5 DEF Carried, CarriesAgree
  <2> QED BY <2>1, <2>2, AgreesAllNext
<1>7. RecordsAreCurrent'
  BY DEF Carried, RecordsAreCurrent
<1>8. ASSUME ~late PROVE OnTime'
  <2>1. /\ OnTime /\ Timely(known, skuOf, onHand, holdOf, records, stamp, ring, mover)
    BY <1>8, OnTimeIs DEF Carried
  <2>2. Left(s) /\ known[s] /\ t \in records
    BY <1>1, <1>2, <2>1, SourcesAreLeft, TakenIsRecorded
  <2>3. Dry(s, known, skuOf, onHand', holdOf)
    BY <1>2, <1>5, <2>2 DEF Dry, Left
  <2>4. ASSUME NEW x, Dry(x, known, skuOf, onHand, holdOf), x \in Skus
        PROVE Dry(x, known, skuOf, onHand', holdOf)
    BY <1>5, <2>4 DEF Dry
  <2>5. \A x \in Skus : stamp'[x] # NoStamp => stamp'[x].token \in records
    BY <1>5, <2>1, <2>2 DEF Timely
  <2>6. \A x \in Skus : (\A p \in Products : skuOf[p] # x) /\ (\A u \in records : u.from # x) =>
          onHand'[x] = 0 /\ \A h \in Holders : holdOf[h] # x
    BY <1>5, <2>1 DEF Timely
  <2>7. \A x \in Skus : stamp'[x] # NoStamp => Dry(x, known, skuOf, onHand', holdOf)
    BY <1>5, <2>1, <2>3, <2>4 DEF Timely
  <2>8. \A x \in Skus : \A u \in ring[x] : Dry(u.from, known, skuOf, onHand', holdOf)
    <3>1. \A x \in Skus : \A u \in ring[x] : u.from \in Skus
      BY DEF IInv, TypeOK, Token
    <3> QED BY <2>1, <2>4, <3>1 DEF Timely
  <2>9. ASSUME NEW x \in Movers, mover'[x].at \in {"drop", "release"}
        PROVE /\ Dry(mover'[x].token.from, known, skuOf, onHand', holdOf)
              /\ stamp'[mover'[x].token.from] = NoStamp
    <3>1. x # m /\ mover'[x] = mover[x]
      BY <1>5, <2>9
    <3>2. mover[x].token.from \in Skus
      BY <2>9, <3>1 DEF IInv, MoversAgree, Token
    <3>3. /\ Dry(mover[x].token.from, known, skuOf, onHand, holdOf)
          /\ stamp[mover[x].token.from] = NoStamp
      BY <2>1, <2>9, <3>1 DEF Timely
    <3>4. mover[x].token.from # s
      BY <1>2, <1>1, <3>3 DEF Dry
    <3> QED BY <1>5, <2>4, <3>1, <3>2, <3>3, <3>4
  <2>10. \A p, q \in Products : skuOf[p] # None /\ skuOf[q] # None => p = q
    BY <2>1 DEF Timely
  <2>11. Timely(known, skuOf, onHand', holdOf, records, stamp', ring, mover')
    BY <2>5, <2>6, <2>7, <2>8, <2>9, <2>10 DEF Timely
  <2> QED BY <2>11, OnTimeIs
<1>9. Balance'
  <2>1. IsFiniteSet(OnShelves) /\ IsFiniteSet(InTheAir) /\ IsFiniteSet(HeldBy) /\ HeldBy' = HeldBy
    BY DEF Carried, Balance, HeldBy
  <2>2. IsFiniteSet(OnShelves') /\ Cardinality(OnShelves') = Cardinality(OnShelves) - n + 0
    BY <1>1, <1>2, <1>5, <2>1, ShelfMoves DEF IInv
  <2>3. FlightOf(stamp[s], ring) = 0 /\ FlightOf(stamp'[s], ring') \in {0, n}
    BY <1>2, <1>5 DEF FlightOf
  <2>4. \A x \in Skus : x # s => FlightOf(stamp'[x], ring') = FlightOf(stamp[x], ring)
    BY <1>5
  <2>5. PICK f : f = FlightOf(stamp'[s], ring')
    OBVIOUS
  <2>6. IsFiniteSet(InTheAir') /\ Cardinality(InTheAir') = Cardinality(InTheAir) - 0 + f
    BY <1>2, <2>1, <2>3, <2>4, <2>5, AirMoves DEF IInv
  <2>7. ~late => f = n
    <3>1. ASSUME ~late, t \in ring[t.to] PROVE FALSE
      <4>1. t.to \in Skus
        BY <1>2 DEF Token
      <4>2. Dry(t.from, known, skuOf, onHand, holdOf)
        BY <3>1, <4>1, OnTimeIs DEF Carried, Timely
      <4> QED BY <1>1, <1>2, <4>2 DEF Dry
    <3> QED BY <1>5, <2>5, <3>1 DEF FlightOf
  <2>8. /\ Cardinality(OnShelves) \in Nat /\ Cardinality(InTheAir) \in Nat
        /\ Cardinality(HeldBy) \in Nat /\ sold \in Nat /\ supply \in Nat
    BY <2>1, CountsAre DEF IInv, TypeOK
  <2>9. PICK S, A, H \in Nat : /\ S = Cardinality(OnShelves) /\ A = Cardinality(InTheAir)
                               /\ H = Cardinality(HeldBy)
    BY <2>8
  <2>10. Counted = S + A + H + sold /\ Counted' = (S - n + 0) + (A - 0 + f) + H + sold
    BY <2>1, <2>2, <2>6, <2>9 DEF Counted, HeldBy
  <2>11. Counted' <= Counted + 0 /\ (~late => Counted' = Counted + 0)
    <3>1. f \in {0, n}
      BY <2>3, <2>5
    <3> QED BY <1>2, <2>7, <2>8, <2>9, <2>10, <3>1
  <2>12. supply' = supply + 0
    BY <2>8
  <2> QED BY <2>1, <2>2, <2>6, <2>11, <2>12, Balanced DEF Carried, IInv
<1> QED BY <1>6, <1>7, <1>8, <1>9 DEF Carried

LEMMA StampCarries ==
  ASSUME IInv, IInv', Carried, NEW m \in Movers, Stamp(m)
  PROVE Carried'
<1>1. PICK t, s : t = mover[m].token /\ s = t.from
  OBVIOUS
<1>2. /\ mover[m].at = "stamp" /\ mover[m].then = "drop" /\ t \in Token /\ s \in Skus
      /\ t \in Pending
  <2>1. mover[m].at = "stamp" /\ mover[m].then = "drop" /\ t \in Token
    BY <1>1 DEF Stamp, IInv, MoversAgree
  <2> QED BY <1>1, <2>1, TokenPending DEF Token
<1>3. UNCHANGED <<skuOf, records, known, holdOf, ring, supply, sold, late>>
  BY DEF Stamp, product, history
<1>4. /\ mover \in [Movers -> Mover] /\ onHand \in [Skus -> Nat]
      /\ stamp \in [Skus -> [token : Token \cup {NoToken}, qty : Nat]]
  BY DEF IInv, TypeOK
<1>5. CASE stamp[s] # NoStamp /\ stamp[s].token = t
  <2>1. /\ mover' = [mover EXCEPT ![m].at = "apply", ![m].qty = stamp[s].qty]
        /\ UNCHANGED <<onHand, stamp>>
    BY <1>1, <1>5 DEF Stamp
  <2>2. /\ mover'[m].at = "apply" /\ mover'[m].token = t /\ mover'[m].qty = stamp[s].qty
        /\ \A x \in Movers : x # m => mover'[x] = mover[x]
    BY <1>1, <1>4, <2>1 DEF Mover
  <2>3. stamp[s] = [token |-> t, qty |-> stamp[s].qty]
    BY <1>2, <1>4, <1>5
  <2>4. Agrees(mover'[m], stamp, ring) /\ Finished(mover'[m])
    BY <1>1, <2>2, <2>3 DEF Agrees, Finished
  <2> QED BY <1>3, <2>1, <2>2, <2>4, QuietCarries
<1>6. CASE stamp[s] # NoStamp /\ stamp[s].token # t
  <2>1. Completing(m, s, "stamp", t) /\ UNCHANGED <<onHand, stamp>>
    BY <1>1, <1>6 DEF Stamp
  <2>2. mover' = [mover EXCEPT ![m] = [at |-> "apply", token |-> stamp[s].token,
                                       qty |-> stamp[s].qty, then |-> "stamp", outer |-> t]]
    BY <2>1 DEF Completing
  <2>3. /\ mover'[m].at = "apply" /\ mover'[m].token = stamp[s].token
        /\ mover'[m].qty = stamp[s].qty
        /\ \A x \in Movers : x # m => mover'[x] = mover[x]
    BY <1>4, <2>2
  <2>4. stamp[s].token.from = s /\ stamp[s] = [token |-> stamp[s].token, qty |-> stamp[s].qty]
    BY <1>2, <1>4, <1>6 DEF Carried, CarriesAgree
  <2>5. Agrees(mover'[m], stamp, ring) /\ Finished(mover'[m])
    BY <2>3, <2>4 DEF Agrees, Finished
  <2> QED BY <1>3, <2>1, <2>3, <2>5, QuietCarries
<1>7. CASE stamp[s] = NoStamp /\ Blocked(s)
  <2>1. Return(m) /\ UNCHANGED <<onHand, stamp>>
    BY <1>1, <1>7 DEF Stamp, StayOwed
  <2>2. mover'[m] = Idle /\ \A x \in Movers : x # m => mover'[x] = mover[x]
    BY <1>4, <2>1, ReturnStep DEF Becomes
  <2> QED BY <1>3, <2>1, <2>2, IdleAgrees, QuietCarries
<1>8. CASE stamp[s] = NoStamp /\ ~Blocked(s) /\ onHand[s] = 0
  <2>1. Goto(m, "drop") /\ UNCHANGED <<onHand, stamp>>
    BY <1>1, <1>8 DEF Stamp, NothingToMove
  <2>2. /\ mover'[m].at = "drop" /\ mover'[m].token = t
        /\ \A x \in Movers : x # m => mover'[x] = mover[x]
    BY <1>1, <1>4, <2>1, GotoStep DEF Steps, Becomes
  <2>3. Agrees(mover'[m], stamp, ring)
    BY <2>2 DEF Agrees
  <2>4. ASSUME ~late PROVE Finished(mover'[m])
    <3>1. known[s] /\ Left(s)
      BY <1>1, <1>2, <2>4, SourcesAreLeft DEF Carried
    <3>2. Dry(s, known, skuOf, onHand, holdOf)
      BY <1>8, <3>1 DEF Dry, Left, Blocked, LiveHolds
    <3> QED BY <1>1, <1>8, <2>2, <3>2 DEF Finished
  <2> QED BY <1>3, <2>1, <2>2, <2>3, <2>4, QuietCarries
<1>9. CASE stamp[s] = NoStamp /\ ~Blocked(s) /\ onHand[s] > 0
  <2>1. Take(m, s)
    BY <1>1, <1>9 DEF Stamp
  <2> QED BY <1>1, <1>2, <1>3, <1>9, <2>1, TakeCarries
<1>10. stamp[s] = NoStamp => onHand[s] = 0 \/ onHand[s] > 0
  BY <1>2, <1>4
<1> QED BY <1>5, <1>6, <1>7, <1>8, <1>9, <1>10

LEMMA ApplyCarries ==
  ASSUME IInv, IInv', Carried, NEW m \in Movers, Apply(m)
  PROVE Carried'
<1>1. PICK t, n : t = mover[m].token /\ n = mover[m].qty
  OBVIOUS
<1>2. /\ mover[m].at = "apply" /\ t \in Token /\ t.to \in Skus /\ t.from \in Skus /\ n \in Nat
  <2>1. mover[m].at = "apply" /\ t \in Token
    BY <1>1 DEF Apply, IInv, MoversAgree
  <2>2. mover[m] \in Mover
    BY DEF IInv, TypeOK
  <2> QED BY <1>1, <2>1, <2>2 DEF Token, Mover
<1>3. /\ onHand \in [Skus -> Nat] /\ ring \in [Skus -> SUBSET Token]
      /\ known \in [Skus -> BOOLEAN] /\ mover \in [Movers -> Mover]
      /\ stamp \in [Skus -> [token : Token \cup {NoToken}, qty : Nat]]
  BY DEF IInv, TypeOK
<1>4. /\ UNCHANGED <<skuOf, records, holdOf, stamp, supply, sold, late>>
      /\ t \in ring[t.to] => onHand' = onHand
      /\ t \notin ring[t.to] => onHand' = [onHand EXCEPT ![t.to] = @ + n]
      /\ ring' = [ring EXCEPT ![t.to] = @ \cup {t}]
      /\ known' = [known EXCEPT ![t.to] = TRUE]
      /\ Goto(m, "clear")
  BY <1>1 DEF Apply, product, history
<1>5. /\ mover'[m].at = "clear" /\ mover'[m].token = t
      /\ \A x \in Movers : x # m => mover'[x] = mover[x]
  BY <1>1, <1>3, <1>4, GotoStep DEF Steps, Becomes
<1>6. /\ \A x \in Skus : \A u : u \in ring'[x] <=> (u \in ring[x] \/ (x = t.to /\ u = t))
      /\ \A x \in Skus : known[x] => known'[x]
  BY <1>2, <1>3, <1>4
<1>7. t \in ring[t.to] \/ (t \notin ring[t.to] /\ stamp[t.from] = [token |-> t, qty |-> n])
  BY <1>1, <1>2 DEF Carried, CarriesAgree
<1>8. CarriesAgree'
  <2>1. ASSUME NEW x \in Movers PROVE Agrees(mover'[x], stamp', ring')
    <3>1. CASE x = m
      BY <1>2, <1>5, <1>6, <3>1 DEF Agrees
    <3>2. CASE x # m
      <4>1. Agrees(mover[x], stamp, ring) /\ mover'[x] = mover[x]
        BY <1>5, <3>2, AgreesAll DEF Carried
      <4>2. mover[x].at # "idle" => mover[x].token.to \in Skus
        BY DEF IInv, MoversAgree, Token
      <4> QED BY <1>4, <1>6, <4>1, <4>2 DEF Agrees
    <3> QED BY <3>1, <3>2
  <2> QED BY <1>4, <2>1, AgreesAllNext DEF Carried, CarriesAgree
<1>9. RecordsAreCurrent'
  BY <1>4 DEF Carried, RecordsAreCurrent
<1>10. ASSUME ~late PROVE OnTime'
  <2>1. OnTime /\ Timely(known, skuOf, onHand, holdOf, records, stamp, ring, mover)
    BY <1>10, OnTimeIs DEF Carried
  <2>2. ASSUME t \notin ring[t.to]
        PROVE /\ Dry(t.from, known, skuOf, onHand, holdOf)
              /\ \E p \in Products : skuOf[p] = t.to
    <3>1. stamp[t.from].token = t /\ stamp[t.from] # NoStamp
      BY <1>2, <1>7, <2>2, TokenApart
    <3>2. t \in records
      BY <1>2, <2>1, <3>1 DEF Timely
    <3>3. skuOf[t.by] = t.to /\ t.by \in Products
      BY <1>2, <3>2 DEF Carried, RecordsAreCurrent, Token
    <3> QED BY <1>2, <2>1, <3>1, <3>3 DEF Timely
  <2>3. \A x \in Skus : (\A p \in Products : skuOf[p] # x) => onHand'[x] = onHand[x]
    BY <1>2, <1>3, <1>4, <2>2
  <2>4. ASSUME NEW x \in Skus, Dry(x, known, skuOf, onHand, holdOf)
        PROVE Dry(x, known', skuOf, onHand', holdOf)
    BY <1>6, <2>3, <2>4 DEF Dry
  <2>5. Dry(t.from, known, skuOf, onHand, holdOf)
    <3>1. CASE t \in ring[t.to]
      BY <1>2, <2>1, <3>1 DEF Timely
    <3> QED BY <2>2, <3>1
  <2>6. \A x \in Skus : (\A p \in Products : skuOf[p] # x) /\ (\A u \in records : u.from # x) =>
          onHand'[x] = 0 /\ \A h \in Holders : holdOf[h] # x
    BY <2>1, <2>3 DEF Timely
  <2>7. \A x \in Skus : stamp[x] # NoStamp => Dry(x, known', skuOf, onHand', holdOf)
    BY <2>1, <2>4 DEF Timely
  <2>8. \A x \in Skus : \A u \in ring'[x] : Dry(u.from, known', skuOf, onHand', holdOf)
    <3>1. \A x \in Skus : \A u \in ring[x] : u.from \in Skus
      BY <1>3 DEF Token
    <3>2. \A x \in Skus : \A u \in ring[x] : Dry(u.from, known', skuOf, onHand', holdOf)
      BY <2>1, <2>4, <3>1 DEF Timely
    <3>3. Dry(t.from, known', skuOf, onHand', holdOf)
      BY <1>2, <2>4, <2>5
    <3> QED BY <1>6, <3>2, <3>3
  <2>9. ASSUME NEW x \in Movers, mover'[x].at \in {"drop", "release"}
        PROVE /\ Dry(mover'[x].token.from, known', skuOf, onHand', holdOf)
              /\ stamp[mover'[x].token.from] = NoStamp
    <3>1. x # m /\ mover'[x] = mover[x]
      BY <1>5, <2>9
    <3>2. mover[x].token.from \in Skus
      BY <2>9, <3>1 DEF IInv, MoversAgree, Token
    <3>3. /\ Dry(mover[x].token.from, known, skuOf, onHand, holdOf)
          /\ stamp[mover[x].token.from] = NoStamp
      BY <2>1, <2>9, <3>1 DEF Timely
    <3> QED BY <2>4, <3>1, <3>2, <3>3
  <2>10. /\ \A p, q \in Products : skuOf[p] # None /\ skuOf[q] # None => p = q
         /\ \A x \in Skus : stamp[x] # NoStamp => stamp[x].token \in records
    BY <2>1 DEF Timely
  <2>11. Timely(known', skuOf, onHand', holdOf, records, stamp, ring', mover')
    BY <2>6, <2>7, <2>8, <2>9, <2>10 DEF Timely
  <2> QED BY <1>4, <2>11, OnTimeIs
<1>11. CASE t \in ring[t.to]
  <2>1. ring' = ring /\ onHand' = onHand
    <3>1. \A x \in Skus : ring'[x] = ring[x]
      BY <1>6, <1>11
    <3>2. ring' \in [Skus -> SUBSET Token]
      BY DEF IInv, TypeOK
    <3> QED BY <1>3, <1>4, <1>11, <3>1, <3>2
  <2>2. \A x \in Skus : FlightOf(stamp'[x], ring') = FlightOf(stamp[x], ring)
    BY <1>4, <2>1
  <2>3. Balance'
    BY <1>4, <2>1, <2>2, BalanceStays DEF Carried, IInv
  <2> QED BY <1>8, <1>9, <1>10, <1>4, <2>3 DEF Carried
<1>12. CASE t \notin ring[t.to]
  <2>1. IsFiniteSet(OnShelves) /\ IsFiniteSet(InTheAir) /\ IsFiniteSet(HeldBy) /\ HeldBy' = HeldBy
    BY <1>4 DEF Carried, Balance, HeldBy
  <2>2. PICK o : o = onHand[t.to] /\ o \in Nat
    BY <1>2, <1>3
  <2>3. onHand'[t.to] = o + n /\ \A x \in Skus : x # t.to => onHand'[x] = onHand[x]
    BY <1>2, <1>3, <1>4, <1>12, <2>2
  <2>4. IsFiniteSet(OnShelves') /\ Cardinality(OnShelves') = Cardinality(OnShelves) - o + (o + n)
    BY <1>2, <2>1, <2>2, <2>3, ShelfMoves DEF IInv
  <2>5. FlightOf(stamp[t.from], ring) = n /\ FlightOf(stamp'[t.from], ring') = 0
    <3>1. stamp[t.from].token = t /\ stamp[t.from].qty = n /\ stamp[t.from] # NoStamp
      BY <1>2, <1>7, <1>12, TokenApart
    <3>2. t \in ring'[t.to]
      BY <1>2, <1>6
    <3> QED BY <1>4, <1>12, <3>1, <3>2 DEF FlightOf
  <2>6. ASSUME NEW x \in Skus, x # t.from
        PROVE FlightOf(stamp'[x], ring') = FlightOf(stamp[x], ring)
    <3>1. stamp'[x] = stamp[x]
      BY <1>4
    <3>2. CASE stamp[x] = NoStamp
      BY <3>1, <3>2 DEF FlightOf
    <3>3. CASE stamp[x] # NoStamp
      <4>1. stamp[x].token.from = x /\ stamp[x].token \in Token
        BY <3>3 DEF Carried, CarriesAgree, IInv, MoversAgree
      <4>2. stamp[x].token # t /\ stamp[x].token.to \in Skus
        BY <2>6, <4>1 DEF Token
      <4> QED BY <1>6, <3>1, <4>2 DEF FlightOf
    <3> QED BY <3>2, <3>3
  <2>7. IsFiniteSet(InTheAir') /\ Cardinality(InTheAir') = Cardinality(InTheAir) - n + 0
    BY <1>2, <2>1, <2>5, <2>6, AirMoves DEF IInv
  <2>8. /\ Cardinality(OnShelves) \in Nat /\ Cardinality(InTheAir) \in Nat
        /\ Cardinality(HeldBy) \in Nat /\ sold \in Nat /\ supply \in Nat
    BY <2>1, CountsAre DEF IInv, TypeOK
  <2>9. PICK S, A, H \in Nat : /\ S = Cardinality(OnShelves) /\ A = Cardinality(InTheAir)
                               /\ H = Cardinality(HeldBy)
    BY <2>8
  <2>10. Counted = S + A + H + sold /\ Counted' = (S - o + (o + n)) + (A - n + 0) + H + sold
    BY <1>4, <2>1, <2>4, <2>7, <2>9 DEF Counted, HeldBy
  <2>11. Counted' <= Counted + 0 /\ Counted' = Counted + 0
    BY <1>2, <2>2, <2>8, <2>9, <2>10
  <2>12. supply' = supply + 0 /\ (late => late')
    BY <1>4, <2>8
  <2>13. Balance'
    BY <2>1, <2>4, <2>7, <2>11, <2>12, Balanced DEF Carried, IInv
  <2> QED BY <1>8, <1>9, <1>10, <1>4, <2>13 DEF Carried
<1> QED BY <1>11, <1>12

LEMMA ClearCarries ==
  ASSUME IInv, IInv', Carried, NEW m \in Movers, Clear(m)
  PROVE Carried'
<1>1. PICK t : t = mover[m].token
  OBVIOUS
<1>2. /\ mover[m].at = "clear" /\ t \in Token /\ t.from \in Skus /\ t.to \in Skus
      /\ t \in ring[t.to]
  <2>1. mover[m].at = "clear" /\ t \in Token
    BY <1>1 DEF Clear, IInv, MoversAgree
  <2> QED BY <1>1, <2>1 DEF Token, Carried, CarriesAgree
<1>3. /\ mover \in [Movers -> Mover]
      /\ stamp \in [Skus -> [token : Token \cup {NoToken}, qty : Nat]]
  BY DEF IInv, TypeOK
<1>4. /\ UNCHANGED <<skuOf, records, known, onHand, holdOf, ring, supply, sold, late>>
      /\ stamp' = IF stamp[t.from].token = t THEN [stamp EXCEPT ![t.from] = NoStamp] ELSE stamp
  BY <1>1 DEF Clear, product, history
<1>5. /\ \A x \in Skus : stamp'[x] = stamp[x] \/ (stamp'[x] = NoStamp /\ stamp[x].token = t)
      /\ stamp[t.from].token = t => stamp'[t.from] = NoStamp
  BY <1>2, <1>3, <1>4
<1>6. /\ \A x \in Movers : x # m => mover'[x] = mover[x]
      /\ \/ mover'[m] = Idle
         \/ mover'[m].at = "drop" /\ mover'[m].token = t /\ mover[m].then = "drop"
         \/ mover'[m].at = "stamp"
  <2>1. CASE mover[m].then = "idle"
    <3>1. Return(m)
      BY <2>1 DEF Clear
    <3> QED BY <1>3, <3>1, ReturnStep DEF Becomes
  <2>2. CASE mover[m].then = "drop"
    <3>1. Goto(m, "drop")
      BY <2>2 DEF Clear
    <3> QED BY <1>1, <1>3, <2>2, <3>1, GotoStep DEF Becomes, Steps
  <2>3. CASE mover[m].then = "stamp"
    <3>1. Move(m, mover[m].outer) /\ mover[m].outer \in Token
      BY <2>3 DEF Clear, IInv, MoversAgree
    <3> QED BY <1>3, <3>1, MoveStep DEF Becomes
  <2> QED BY <2>1, <2>2, <2>3 DEF Clear
<1>7. CarriesAgree'
  <2>1. ASSUME NEW x \in Movers PROVE Agrees(mover'[x], stamp', ring')
    <3>1. CASE x = m
      BY <1>6, <3>1 DEF Agrees, Idle
    <3>2. CASE x # m
      <4>1. Agrees(mover[x], stamp, ring) /\ mover'[x] = mover[x]
        BY <1>6, <3>2, AgreesAll DEF Carried
      <4>2. ASSUME mover[x].at = "apply", mover[x].token \notin ring[mover[x].token.to]
            PROVE stamp'[mover[x].token.from] = stamp[mover[x].token.from]
        <5>1. mover[x].token \in Token /\ mover[x].token.from \in Skus
          BY <4>2 DEF IInv, MoversAgree, Token
        <5>2. stamp[mover[x].token.from].token = mover[x].token
          BY <4>1, <4>2 DEF Agrees
        <5>3. mover[x].token # t
          BY <1>2, <4>2
        <5> QED BY <1>5, <5>1, <5>2, <5>3
      <4> QED BY <1>4, <4>1, <4>2 DEF Agrees
    <3> QED BY <3>1, <3>2
  <2>2. \A x \in Skus : stamp'[x] # NoStamp => stamp'[x].token.from = x
    BY <1>5 DEF Carried, CarriesAgree
  <2> QED BY <2>1, <2>2, AgreesAllNext
<1>8. RecordsAreCurrent'
  BY <1>4 DEF Carried, RecordsAreCurrent
<1>9. ASSUME ~late PROVE OnTime'
  <2>1. OnTime /\ Timely(known, skuOf, onHand, holdOf, records, stamp, ring, mover)
    BY <1>9, OnTimeIs DEF Carried
  <2>2. \A x \in Skus : stamp'[x] # NoStamp => stamp'[x] = stamp[x]
    BY <1>5
  <2>3. ASSUME NEW x \in Movers, mover'[x].at \in {"drop", "release"}
        PROVE /\ Dry(mover'[x].token.from, known, skuOf, onHand, holdOf)
              /\ stamp'[mover'[x].token.from] = NoStamp
    <3>1. CASE x = m
      <4>1. mover'[m].token = t /\ mover[m].then = "drop"
        BY <1>6, <2>3, <3>1 DEF Idle
      <4>2. t \in Pending
        BY <1>1, <4>1, TokenPending
      <4>3. Dry(t.from, known, skuOf, onHand, holdOf)
        BY <1>2, <2>1 DEF Timely
      <4>4. ASSUME stamp[t.from] # NoStamp PROVE stamp[t.from].token = t
        <5>1. stamp[t.from].token \in Pending /\ stamp[t.from].token.from = t.from
          BY <1>2, <2>1, <4>4 DEF Timely, Pending, Carried, CarriesAgree
        <5> QED BY <2>1, <4>2, <5>1, SourcesAreLeft
      <4> QED BY <1>2, <1>5, <3>1, <4>1, <4>3, <4>4
    <3>2. CASE x # m
      <4>1. mover'[x] = mover[x] /\ mover[x].token.from \in Skus
        BY <1>6, <2>3, <3>2 DEF IInv, MoversAgree, Token
      <4> QED BY <1>5, <2>1, <2>3, <4>1 DEF Timely
    <3> QED BY <3>1, <3>2
  <2>4. Timely(known, skuOf, onHand, holdOf, records, stamp', ring, mover')
    BY <2>1, <2>2, <2>3 DEF Timely
  <2> QED BY <1>4, <2>4, OnTimeIs
<1>10. Balance'
  <2>1. ASSUME NEW x \in Skus PROVE FlightOf(stamp'[x], ring') = FlightOf(stamp[x], ring)
    BY <1>2, <1>4, <1>5 DEF FlightOf
  <2> QED BY <1>4, <2>1, BalanceStays DEF Carried, IInv
<1> QED BY <1>4, <1>7, <1>8, <1>9, <1>10 DEF Carried

LEMMA DropCarries ==
  ASSUME IInv, IInv', Carried, NEW m \in Movers, Drop(m)
  PROVE Carried'
<1>1. PICK t : t = mover[m].token
  OBVIOUS
<1>2. mover[m].at = "drop" /\ t \in Token /\ mover[m].then = "drop"
  BY <1>1 DEF Drop, IInv, MoversAgree
<1>3. mover \in [Movers -> Mover]
  BY DEF IInv, TypeOK
<1>4. /\ UNCHANGED <<skuOf, known, onHand, holdOf, stamp, ring, supply, sold, late>>
      /\ records' = records \ {t} /\ Goto(m, "release")
  BY <1>1 DEF Drop, shelf, history
<1>5. /\ mover'[m].at = "release" /\ mover'[m].token = t
      /\ \A x \in Movers : x # m => mover'[x] = mover[x]
  BY <1>1, <1>3, <1>4, GotoStep DEF Steps, Becomes
<1>6. CarriesAgree'
  <2>1. ASSUME NEW x \in Movers PROVE Agrees(mover'[x], stamp, ring)
    <3>1. CASE x = m
      BY <1>5, <3>1 DEF Agrees
    <3>2. CASE x # m
      BY <1>5, <3>2, AgreesAll DEF Carried
    <3> QED BY <3>1, <3>2
  <2> QED BY <1>4, <2>1, AgreesAllNext DEF Carried, CarriesAgree
<1>7. RecordsAreCurrent'
  BY <1>4 DEF Carried, RecordsAreCurrent
<1>8. ASSUME ~late PROVE OnTime'
  <2>1. OnTime /\ Timely(known, skuOf, onHand, holdOf, records, stamp, ring, mover)
    BY <1>8, OnTimeIs DEF Carried
  <2>2. Dry(t.from, known, skuOf, onHand, holdOf) /\ stamp[t.from] = NoStamp
    BY <1>1, <1>2, <2>1 DEF Timely
  <2>3. ASSUME NEW x \in Movers, mover'[x].at \in {"drop", "release"}
        PROVE /\ Dry(mover'[x].token.from, known, skuOf, onHand, holdOf)
              /\ stamp[mover'[x].token.from] = NoStamp
    <3>1. CASE x = m
      BY <1>5, <2>2, <3>1
    <3>2. CASE x # m
      BY <1>5, <2>1, <2>3, <3>2 DEF Timely
    <3> QED BY <3>1, <3>2
  <2>4. ASSUME NEW x \in Skus, stamp[x] # NoStamp PROVE stamp[x].token \in records'
    <3>1. stamp[x].token \in records /\ stamp[x].token.from = x
      BY <2>1, <2>4 DEF Timely, Carried, CarriesAgree
    <3>2. stamp[x].token # t
      BY <2>2, <2>4, <3>1
    <3> QED BY <1>4, <3>1, <3>2
  <2>5. ASSUME NEW x \in Skus, \A p \in Products : skuOf[p] # x, \A u \in records' : u.from # x
        PROVE onHand[x] = 0 /\ \A h \in Holders : holdOf[h] # x
    <3>1. CASE x = t.from
      BY <2>2, <3>1 DEF Dry
    <3>2. CASE x # t.from
      <4>1. \A u \in records : u.from # x
        BY <1>4, <2>5, <3>2
      <4> QED BY <2>1, <2>5, <4>1 DEF Timely
    <3> QED BY <3>1, <3>2
  <2>6. Timely(known, skuOf, onHand, holdOf, records', stamp, ring, mover')
    BY <2>1, <2>3, <2>4, <2>5 DEF Timely
  <2> QED BY <1>4, <2>6, OnTimeIs
<1>9. Balance'
  <2>1. \A x \in Skus : FlightOf(stamp'[x], ring') = FlightOf(stamp[x], ring)
    BY <1>4
  <2> QED BY <1>4, <2>1, BalanceStays DEF Carried, IInv
<1> QED BY <1>4, <1>6, <1>7, <1>8, <1>9 DEF Carried

-----------------------------------------------------------------------------
(* The rest of the store, and the units *)

\* A step of counts and holds: a sku that is left and empty stays so, unless it is late.
LEMMA ShelfCarries ==
  ASSUME IInv, IInv', Carried, UNCHANGED <<skuOf, records, known, stamp, ring, mover>>,
         late => late',
         ~late' => \A x \in Skus :
           /\ \A p \in Products : skuOf[p] # x
           /\ onHand[x] = 0 /\ \A h \in Holders : holdOf[h] # x
           => onHand'[x] = 0 /\ \A h \in Holders : holdOf'[h] # x,
         Balance'
  PROVE Carried'
<1>1. CarriesAgree'
  BY AgreesAll, AgreesAllNext DEF Carried
<1>2. RecordsAreCurrent'
  BY DEF Carried, RecordsAreCurrent
<1>3. ASSUME ~late' PROVE OnTime'
  <2>1. OnTime /\ Timely(known, skuOf, onHand, holdOf, records, stamp, ring, mover)
    BY <1>3, OnTimeIs DEF Carried
  <2>2. ASSUME NEW x \in Skus, Dry(x, known, skuOf, onHand, holdOf)
        PROVE Dry(x, known, skuOf, onHand', holdOf')
    BY <1>3, <2>2 DEF Dry
  <2>3. \A x \in Skus : (\A p \in Products : skuOf[p] # x) /\ (\A u \in records : u.from # x) =>
          onHand'[x] = 0 /\ \A h \in Holders : holdOf'[h] # x
    BY <1>3, <2>1 DEF Timely
  <2>4. \A x \in Skus : stamp[x] # NoStamp => Dry(x, known, skuOf, onHand', holdOf')
    BY <2>1, <2>2 DEF Timely
  <2>5. \A x \in Skus : \A u \in ring[x] : Dry(u.from, known, skuOf, onHand', holdOf')
    <3>1. \A x \in Skus : \A u \in ring[x] : u.from \in Skus
      BY DEF IInv, TypeOK, Token
    <3> QED BY <2>1, <2>2, <3>1 DEF Timely
  <2>6. ASSUME NEW x \in Movers, mover[x].at \in {"drop", "release"}
        PROVE /\ Dry(mover[x].token.from, known, skuOf, onHand', holdOf')
              /\ stamp[mover[x].token.from] = NoStamp
    <3>1. mover[x].token.from \in Skus
      BY <2>6 DEF IInv, MoversAgree, Token
    <3> QED BY <2>1, <2>2, <2>6, <3>1 DEF Timely
  <2>7. Timely(known, skuOf, onHand', holdOf', records, stamp, ring, mover)
    BY <2>1, <2>3, <2>4, <2>5, <2>6 DEF Timely
  <2> QED BY <2>7, OnTimeIs
<1> QED BY <1>1, <1>2, <1>3 DEF Carried

LEMMA RestockCarries ==
  ASSUME IInv, IInv', Carried, NEW s \in Skus, Restock(s)
  PROVE Carried'
<1>1. /\ UNCHANGED <<skuOf, records, known, holdOf, stamp, ring, mover, sold>>
      /\ onHand' = [onHand EXCEPT ![s] = @ + 1]
      /\ supply' = supply + 1 /\ late' = (late \/ Left(s))
  BY DEF Restock, product
<1>2. PICK o : o = onHand[s] /\ o \in Nat
  BY DEF IInv, TypeOK
<1>3. onHand \in [Skus -> Nat] /\ supply \in Nat /\ sold \in Nat
  BY DEF IInv, TypeOK
<1>4. onHand'[s] = o + 1 /\ \A x \in Skus : x # s => onHand'[x] = onHand[x]
  BY <1>1, <1>2, <1>3
<1>5. Balance'
  <2>1. /\ IsFiniteSet(OnShelves) /\ IsFiniteSet(InTheAir) /\ IsFiniteSet(HeldBy)
        /\ HeldBy' = HeldBy /\ InTheAir' = InTheAir
    BY <1>1, AirStays DEF Carried, Balance, HeldBy
  <2>2. IsFiniteSet(OnShelves') /\ Cardinality(OnShelves') = Cardinality(OnShelves) - o + (o + 1)
    BY <1>2, <1>4, <2>1, ShelfMoves DEF IInv
  <2>3. PICK S, A, H \in Nat : /\ S = Cardinality(OnShelves) /\ A = Cardinality(InTheAir)
                               /\ H = Cardinality(HeldBy)
    BY <2>1, CountsAre
  <2>4. Counted = S + A + H + sold /\ Counted' = (S - o + (o + 1)) + A + H + sold
    BY <1>1, <2>1, <2>2, <2>3 DEF Counted, HeldBy
  <2>5. Counted' <= Counted + 1 /\ Counted' = Counted + 1
    BY <1>2, <1>3, <2>3, <2>4
  <2> QED BY <1>1, <2>1, <2>2, <2>5, Balanced DEF Carried, IInv
<1>6. ~late' => \A x \in Skus : (\A p \in Products : skuOf[p] # x) => onHand'[x] = onHand[x]
  BY <1>1, <1>4 DEF Left
<1> QED BY <1>1, <1>5, <1>6, ShelfCarries

\* One hold more, or one less.
LEMMA HeldMoves ==
  ASSUME TypeOK, IsFiniteSet(HeldBy), NEW h \in Holders, NEW s,
         holdOf' = [holdOf EXCEPT ![h] = s]
  PROVE /\ IsFiniteSet(HeldBy')
        /\ holdOf[h] = None /\ s # None => Cardinality(HeldBy') = Cardinality(HeldBy) + 1
        /\ holdOf[h] # None /\ s = None => Cardinality(HeldBy') = Cardinality(HeldBy) - 1
<1>1. \A x \in Holders : holdOf'[x] = IF x = h THEN s ELSE holdOf[x]
  BY DEF TypeOK
<1>2. HeldBy' = IF s # None THEN HeldBy \cup {h} ELSE HeldBy \ {h}
  <2>1. \A x : x \in HeldBy' <=> x \in Holders /\ holdOf'[x] # None
    BY DEF HeldBy
  <2>2. \A x : x \in HeldBy <=> x \in Holders /\ holdOf[x] # None
    BY DEF HeldBy
  <2>3. CASE s # None
    BY <1>1, <2>1, <2>2, <2>3
  <2>4. CASE s = None
    BY <1>1, <2>1, <2>2, <2>4
  <2> QED BY <2>3, <2>4
<1>3. h \in HeldBy <=> holdOf[h] # None
  BY DEF HeldBy
<1>4. PICK B : B = HeldBy
  OBVIOUS
<1>5. /\ IsFiniteSet(B \cup {h}) /\ (h \notin B => Cardinality(B \cup {h}) = Cardinality(B) + 1)
  BY <1>4, FS_AddElement
<1>6. /\ IsFiniteSet(B \ {h}) /\ (h \in B => Cardinality(B \ {h}) = Cardinality(B) - 1)
  BY <1>4, FS_RemoveElement
<1> QED BY <1>2, <1>3, <1>4, <1>5, <1>6

LEMMA ReserveCarries ==
  ASSUME IInv, IInv', Carried, NEW h \in Holders, NEW s \in Skus, Reserve(h, s)
  PROVE Carried'
<1>1. /\ UNCHANGED <<skuOf, records, known, stamp, ring, mover, supply, sold, late>>
      /\ holdOf[h] = None /\ onHand[s] > 0
      /\ onHand' = [onHand EXCEPT ![s] = @ - 1] /\ holdOf' = [holdOf EXCEPT ![h] = s]
  BY DEF Reserve, product, history
<1>2. PICK o : o = onHand[s] /\ o \in Nat
  BY DEF IInv, TypeOK
<1>3. /\ onHand \in [Skus -> Nat] /\ supply \in Nat /\ sold \in Nat /\ s # None
      /\ holdOf \in [Holders -> Skus \cup {None}]
  BY NoneApart DEF IInv, TypeOK
<1>4. onHand'[s] = o - 1 /\ \A x \in Skus : x # s => onHand'[x] = onHand[x]
  BY <1>1, <1>2, <1>3
<1>5. Balance'
  <2>1. /\ IsFiniteSet(OnShelves) /\ IsFiniteSet(InTheAir) /\ IsFiniteSet(HeldBy)
        /\ InTheAir' = InTheAir
    BY <1>1, AirStays DEF Carried, Balance, HeldBy
  <2>2. IsFiniteSet(OnShelves') /\ Cardinality(OnShelves') = Cardinality(OnShelves) - o + (o - 1)
    BY <1>2, <1>4, <2>1, ShelfMoves DEF IInv
  <2>3. IsFiniteSet(HeldBy') /\ Cardinality(HeldBy') = Cardinality(HeldBy) + 1
    BY <1>1, <1>3, <2>1, HeldMoves DEF IInv
  <2>4. PICK S, A, H \in Nat : /\ S = Cardinality(OnShelves) /\ A = Cardinality(InTheAir)
                               /\ H = Cardinality(HeldBy)
    BY <2>1, CountsAre
  <2>5. Counted = S + A + H + sold /\ Counted' = (S - o + (o - 1)) + A + (H + 1) + sold
    BY <1>1, <2>1, <2>2, <2>3, <2>4 DEF Counted, HeldBy
  <2>6. Counted' <= Counted + 0 /\ Counted' = Counted + 0 /\ supply' = supply + 0
    BY <1>1, <1>2, <1>3, <2>4, <2>5
  <2> QED BY <1>1, <2>1, <2>2, <2>3, <2>6, Balanced DEF Carried, IInv
<1>6. \A x \in Skus : onHand[x] = 0 => x # s /\ onHand'[x] = 0
  BY <1>1, <1>2, <1>4
<1>7. \A x \in Skus : x # s => \A g \in Holders : holdOf'[g] = x => holdOf[g] = x
  BY <1>1, <1>3
<1> QED BY <1>1, <1>5, <1>6, <1>7, ShelfCarries

LEMMA ResolveCarries ==
  ASSUME IInv, IInv', Carried, NEW h \in Holders, NEW back \in BOOLEAN, Resolve(h, back)
  PROVE Carried'
<1>1. PICK s : s = holdOf[h]
  OBVIOUS
<1>2. /\ UNCHANGED <<skuOf, records, known, stamp, ring, mover, supply, late>>
      /\ s # None /\ holdOf' = [holdOf EXCEPT ![h] = None]
      /\ back => onHand' = [onHand EXCEPT ![s] = @ + 1] /\ sold' = sold
      /\ ~back => onHand' = onHand /\ sold' = sold + 1
  BY <1>1 DEF Resolve, product
<1>3. /\ onHand \in [Skus -> Nat] /\ supply \in Nat /\ sold \in Nat /\ s \in Skus
      /\ holdOf \in [Holders -> Skus \cup {None}]
  BY <1>1, <1>2 DEF IInv, TypeOK
<1>4. PICK o : o = onHand[s] /\ o \in Nat
  BY <1>3
<1>5. PICK d \in Nat : d = IF back THEN 1 ELSE 0
  OBVIOUS
<1>6. /\ onHand'[s] = o + d /\ \A x \in Skus : x # s => onHand'[x] = onHand[x]
      /\ sold' = sold + (1 - d)
  BY <1>2, <1>3, <1>4, <1>5
<1>7. Balance'
  <2>1. /\ IsFiniteSet(OnShelves) /\ IsFiniteSet(InTheAir) /\ IsFiniteSet(HeldBy)
        /\ InTheAir' = InTheAir
    BY <1>2, AirStays DEF Carried, Balance, HeldBy
  <2>2. IsFiniteSet(OnShelves') /\ Cardinality(OnShelves') = Cardinality(OnShelves) - o + (o + d)
    BY <1>3, <1>4, <1>6, <2>1, ShelfMoves DEF IInv
  <2>3. IsFiniteSet(HeldBy') /\ Cardinality(HeldBy') = Cardinality(HeldBy) - 1
    BY <1>1, <1>2, <2>1, HeldMoves DEF IInv
  <2>4. PICK S, A, H \in Nat : /\ S = Cardinality(OnShelves) /\ A = Cardinality(InTheAir)
                               /\ H = Cardinality(HeldBy)
    BY <2>1, CountsAre
  <2>5. /\ Counted = S + A + H + sold
        /\ Counted' = (S - o + (o + d)) + A + (H - 1) + (sold + (1 - d))
    BY <1>6, <2>1, <2>2, <2>3, <2>4 DEF Counted, HeldBy
  <2>6. Counted' <= Counted + 0 /\ Counted' = Counted + 0 /\ supply' = supply + 0
    BY <1>2, <1>3, <1>4, <1>5, <2>4, <2>5
  <2> QED BY <1>2, <2>1, <2>2, <2>3, <2>6, Balanced DEF Carried, IInv
<1>8. \A x \in Skus : (\A g \in Holders : holdOf[g] # x) => onHand'[x] = onHand[x]
  BY <1>1, <1>6
<1>9. \A x \in Skus : \A g \in Holders : holdOf'[g] = x => holdOf[g] = x
  BY <1>2, <1>3, NoneApart
<1> QED BY <1>2, <1>7, <1>8, <1>9, ShelfCarries

\* A sku that another product left is taken up: from here on it is late.
LEMMA FirstSkuCarries ==
  ASSUME IInv, IInv', Carried, NEW p \in Products, NEW s \in Skus, FirstSku(p, s)
  PROVE Carried'
<1>1. /\ UNCHANGED <<records, known, onHand, holdOf, stamp, ring, mover, supply, sold>>
      /\ late' /\ skuOf[p] = None /\ skuOf' = [skuOf EXCEPT ![p] = s]
  BY DEF FirstSku, shelf
<1>2. CarriesAgree'
  BY <1>1, AgreesAll, AgreesAllNext DEF Carried
<1>3. RecordsAreCurrent'
  <2>1. \A t \in records : t.by \in Products /\ t.by # p
    BY <1>1 DEF IInv, TypeOK, Token, LeftForGood, Pending
  <2> QED BY <1>1, <2>1 DEF IInv, TypeOK, Carried, RecordsAreCurrent
<1>4. Balance'
  <2>1. \A x \in Skus : FlightOf(stamp'[x], ring') = FlightOf(stamp[x], ring)
    BY <1>1
  <2> QED BY <1>1, <2>1, BalanceStays DEF Carried, IInv
<1> QED BY <1>1, <1>2, <1>3, <1>4 DEF Carried

LEMMA CommitCarries ==
  ASSUME IInv, IInv', Carried, NEW m \in Movers, NEW p \in Products, NEW key \in Keys,
         NEW to \in Skus, Commit(m, p, key, to)
  PROVE Carried'
<1>1. PICK t, from : t = [by |-> p, key |-> key, from |-> from, to |-> to] /\ from = skuOf[p]
  OBVIOUS
<1>2. /\ from # None /\ from # to /\ ~known[to] /\ {r \in records : r.by = p} = {}
      /\ skuOf' = [skuOf EXCEPT ![p] = to] /\ records' = records \cup {t}
      /\ known' = [known EXCEPT ![to] = TRUE] /\ Move(m, t)
      /\ UNCHANGED <<onHand, holdOf, stamp, ring, supply, sold, late>>
  BY <1>1 DEF Commit, Record
<1>3. /\ skuOf \in [Products -> Skus \cup {None}] /\ known \in [Skus -> BOOLEAN]
      /\ mover \in [Movers -> Mover] /\ records \subseteq Token
      /\ ring \in [Skus -> SUBSET Token]
  BY DEF IInv, TypeOK
<1>4. /\ from \in Skus /\ t \in Token /\ t.by = p /\ t.from = from /\ t.to = to
  BY <1>1, <1>2, <1>3 DEF Token
<1>5. mover'[m].at = "stamp" /\ \A x \in Movers : x # m => mover'[x] = mover[x]
  BY <1>2, <1>3, <1>4, MoveStep DEF Becomes
<1>6. CarriesAgree'
  <2>1. ASSUME NEW x \in Movers PROVE Agrees(mover'[x], stamp, ring)
    <3>1. CASE x = m
      BY <1>5, <3>1 DEF Agrees
    <3>2. CASE x # m
      BY <1>5, <3>2, AgreesAll DEF Carried
    <3> QED BY <3>1, <3>2
  <2> QED BY <1>2, <2>1, AgreesAllNext DEF Carried, CarriesAgree
<1>7. RecordsAreCurrent'
  <2>1. ASSUME NEW r \in records PROVE r.by # p /\ skuOf'[r.by] = r.to
    <3>1. r.by # p /\ r.by \in Products
      BY <1>2, <1>3 DEF Token
    <3> QED BY <1>2, <1>3, <3>1 DEF Carried, RecordsAreCurrent
  <2>2. skuOf'[t.by] = t.to
    BY <1>2, <1>3, <1>4
  <2> QED BY <1>2, <2>1, <2>2 DEF RecordsAreCurrent
<1>8. ASSUME ~late PROVE OnTime'
  <2>1. OnTime /\ Timely(known, skuOf, onHand, holdOf, records, stamp, ring, mover)
    BY <1>8, OnTimeIs DEF Carried
  <2>2. \A q \in Products : q # p => skuOf[q] = None /\ skuOf'[q] = None
    BY <1>1, <1>2, <1>3, <2>1 DEF Timely
  <2>3. skuOf'[p] = to /\ to # None
    BY <1>2, <1>3, NoneApart
  <2>4. \A q, r \in Products : skuOf'[q] # None /\ skuOf'[r] # None => q = r
    BY <2>2
  <2>5. ASSUME NEW x \in Skus, Dry(x, known, skuOf, onHand, holdOf)
        PROVE Dry(x, known', skuOf', onHand, holdOf)
    <3>1. known'[x] /\ x # to
      BY <1>2, <1>3, <2>5 DEF Dry
    <3>2. \A q \in Products : skuOf'[q] # x
      BY <2>2, <2>3, <3>1, NoneApart
    <3> QED BY <2>5, <3>1, <3>2 DEF Dry
  <2>6. ASSUME NEW x \in Skus, \A q \in Products : skuOf'[q] # x, \A u \in records' : u.from # x
        PROVE onHand[x] = 0 /\ \A h \in Holders : holdOf[h] # x
    <3>1. x # from /\ \A u \in records : u.from # x
      BY <1>2, <1>4, <2>6
    <3>2. \A q \in Products : skuOf[q] # x
      BY <1>1, <2>2, <3>1, NoneApart
    <3> QED BY <2>1, <3>1, <3>2 DEF Timely
  <2>7. \A x \in Skus : stamp[x] # NoStamp =>
          stamp[x].token \in records' /\ Dry(x, known', skuOf', onHand, holdOf)
    BY <1>2, <2>1, <2>5 DEF Timely
  <2>8. \A x \in Skus : \A u \in ring[x] : Dry(u.from, known', skuOf', onHand, holdOf)
    <3>1. \A x \in Skus : \A u \in ring[x] : u.from \in Skus
      BY <1>3 DEF Token
    <3> QED BY <2>1, <2>5, <3>1 DEF Timely
  <2>9. ASSUME NEW x \in Movers, mover'[x].at \in {"drop", "release"}
        PROVE /\ Dry(mover'[x].token.from, known', skuOf', onHand, holdOf)
              /\ stamp[mover'[x].token.from] = NoStamp
    <3>1. x # m /\ mover'[x] = mover[x]
      BY <1>5, <2>9
    <3>2. mover[x].token.from \in Skus
      BY <2>9, <3>1 DEF IInv, MoversAgree, Token
    <3> QED BY <2>1, <2>5, <2>9, <3>1, <3>2 DEF Timely
  <2>10. Timely(known', skuOf', onHand, holdOf, records', stamp, ring, mover')
    BY <2>4, <2>6, <2>7, <2>8, <2>9 DEF Timely
  <2> QED BY <1>2, <2>10, OnTimeIs
<1>9. Balance'
  <2>1. \A x \in Skus : FlightOf(stamp'[x], ring') = FlightOf(stamp[x], ring)
    BY <1>2
  <2> QED BY <1>2, <2>1, BalanceStays DEF Carried, IInv
<1> QED BY <1>2, <1>6, <1>7, <1>8, <1>9 DEF Carried

LEMMA InitCarries == Init => Carried
<1> SUFFICES ASSUME Init PROVE Carried  OBVIOUS
<1>1. TypeOK
  BY InitHolds DEF IInv
<1>2. PICK p \in Products, s \in Skus :
        /\ skuOf = [q \in Products |-> IF q = p THEN s ELSE None]
        /\ \E n \in 0..MaxUnits : onHand = [x \in Skus |-> IF x = s THEN n ELSE 0] /\ supply = n
        /\ records = {}
        /\ holdOf = [h \in Holders |-> None]
        /\ stamp = [x \in Skus |-> NoStamp]
        /\ ring = [x \in Skus |-> {}]
        /\ mover = [m \in Movers |-> Idle]
        /\ sold = 0
  BY DEF Init
<1>3. PICK n \in 0..MaxUnits : onHand = [x \in Skus |-> IF x = s THEN n ELSE 0] /\ supply = n
  BY <1>2
<1>4. n \in Nat
  BY <1>3, BoundAssumption
<1>5. \A m \in Movers : mover[m].at = "idle"
  BY <1>2, IdleType
<1>6. CarriesAgree /\ RecordsAreCurrent
  BY <1>2, <1>5 DEF CarriesAgree, RecordsAreCurrent
<1>7. OnTime
  <2>1. \A q \in Products : q # p => skuOf[q] = None
    BY <1>2
  <2>2. \A x \in Skus : (\A q \in Products : skuOf[q] # x) => onHand[x] = 0
    BY <1>2, <1>3
  <2>3. \A h \in Holders : holdOf[h] = None
    BY <1>2
  <2>4. Timely(known, skuOf, onHand, holdOf, records, stamp, ring, mover)
    BY <1>2, <1>5, <2>1, <2>2, <2>3, NoneApart DEF Timely
  <2> QED BY <2>4, OnTimeIs
<1>8. Balance
  <2>1. onHand \in [Skus -> Nat] /\ onHand[s] = n /\ \A x \in Skus : x # s => onHand[x] = 0
    BY <1>1, <1>3 DEF TypeOK
  <2>2. IsFiniteSet(OnShelves) /\ Cardinality(OnShelves) = n
    BY <2>1, OneFilled, ShelvesAre
  <2>3. Air \in [Skus -> Nat] /\ Air[s] = 0 /\ \A x \in Skus : Air[x] = 0
    BY <1>2 DEF Air, FlightOf
  <2>4. IsFiniteSet(InTheAir) /\ Cardinality(InTheAir) = 0
    BY <2>3, OneFilled, ShelvesAre
  <2>5. HeldBy = {}
    BY <1>2 DEF HeldBy
  <2>6. IsFiniteSet(HeldBy) /\ Cardinality(HeldBy) = 0
    BY <2>5, FS_EmptySet
  <2>7. Counted = n + 0 + 0 + 0
    BY <1>2, <2>2, <2>4, <2>6 DEF Counted, HeldBy
  <2>8. Counted = n
    BY <1>4, <2>7
  <2> QED BY <1>3, <1>4, <2>2, <2>4, <2>6, <2>8 DEF Balance, HeldBy
<1> QED BY <1>6, <1>7, <1>8 DEF Carried

LEMMA NextCarries == IInv /\ IInv' /\ Carried /\ [Next]_vars => Carried'
<1> SUFFICES ASSUME IInv, IInv', Carried, [Next]_vars PROVE Carried'  OBVIOUS
<1>1. ASSUME NEW m \in Movers, Step(m) \/ Crash(m) PROVE Carried'
  BY <1>1, StampCarries, ApplyCarries, ClearCarries, DropCarries, CallCarries DEF Step
<1>2. ASSUME NEW m \in Movers, NEW p \in Products, NEW key \in Keys, NEW to \in Skus,
             Commit(m, p, key, to)
      PROVE Carried'
  BY <1>2, CommitCarries
<1>3. ASSUME NEW m \in Movers, (\E t \in records : Settle(m, t)) \/ (\E s \in Skus : Complete(m, s))
      PROVE Carried'
  BY <1>3, CallCarries
<1>4. ASSUME NEW p \in Products, NEW s \in Skus, FirstSku(p, s) PROVE Carried'
  BY <1>4, FirstSkuCarries
<1>5. ASSUME NEW s \in Skus, Restock(s) PROVE Carried'
  BY <1>5, RestockCarries
<1>6. ASSUME NEW h \in Holders,
             (\E s \in Skus : Reserve(h, s)) \/ Resolve(h, TRUE) \/ Resolve(h, FALSE)
      PROVE Carried'
  BY <1>6, ReserveCarries, ResolveCarries
<1>7. CASE UNCHANGED vars
  <2>1. UNCHANGED <<skuOf, records, known, onHand, holdOf, stamp, ring, mover, supply, sold, late>>
    BY <1>7 DEF vars, product, shelf, history
  <2>2. \A x \in Skus : FlightOf(stamp'[x], ring') = FlightOf(stamp[x], ring)
    BY <2>1
  <2>3. Balance'
    BY <2>1, <2>2, BalanceStays DEF Carried, IInv
  <2> QED BY <2>1, <2>3, ShelfCarries
<1> QED BY <1>1, <1>2, <1>3, <1>4, <1>5, <1>6, <1>7 DEF Next

\* Wherever the units of a rename are, the stamp and the ring say so: Carried holds of every
\* behaviour.
THEOREM CarriedHolds == Spec => []Carried
<1>1. Init => Carried
  BY InitCarries
<1>2. IInv /\ IInv' /\ Carried /\ [Next]_vars => Carried'
  BY NextCarries
<1> QED BY <1>1, <1>2, Inductive, PTL DEF Spec

\* SkuStockTransfer.move, completePending and the sweep: no rename makes a unit, and none is
\* lost, out of the sweep's sight or stranded while no sku that was left is used again.
THEOREM CarriesLoseNothingHolds == Spec => []CarriesLoseNothing
<1>1. Carried => CarriesLoseNothing
  BY DEF Carried, Balance, OnTime, CarriesLoseNothing
<1> QED BY <1>1, CarriedHolds, PTL

-----------------------------------------------------------------------------
(* SkuOwners: shapes *)

CallSteps == {"idle", "read", "settle", "drop", "free", "claim", "judge", "age", "withdraw",
              "look", "take", "prepare", "beat", "commit", "own", "bury", "unclaim", "undo"}

LEMMA NoCallFields ==
  /\ NoProduct \in Product /\ NoClaim \in Claim
  /\ NoProduct.life = "absent" /\ NoProduct.sku = None /\ NoProduct.owed = {}
  /\ ~NoClaim.live
BY DEF NoProduct, Product, NoClaim, Claim

LEMMA NoCallType == NoCall \in Call
BY NoCallFields DEF NoCall, Call, NoCommand, NoCarry

LEMMA NoCallIs ==
  /\ NoCall.at = "idle" /\ ~NoCall.current /\ ~NoCall.fresh /\ ~NoCall.hold /\ ~NoCall.done
  /\ ~NoCall.claimed /\ ~NoCall.met
  /\ NoCall.cmd.op = "none" /\ NoCall.cmd.p = None /\ NoCall.cmd.want = None
BY DEF NoCall, NoCommand

LEMMA CallFields ==
  ASSUME NEW x \in Call
  PROVE /\ x.cmd \in Command \cup {NoCommand} /\ x.at \in CallSteps /\ x.doc \in Product
        /\ x.todo \in SUBSET Carry /\ x.carry \in Carry \cup {NoCarry} /\ x.saw \in Claim
        /\ x.current \in BOOLEAN /\ x.fresh \in BOOLEAN /\ x.hold \in BOOLEAN
        /\ x.done \in BOOLEAN
        /\ x.ours \in BOOLEAN /\ x.claimed \in BOOLEAN /\ x.made \in BOOLEAN
        /\ x.form \in BOOLEAN /\ x.blocked \in BOOLEAN /\ x.occupied \in BOOLEAN
        /\ x.creates \in BOOLEAN /\ x.met \in BOOLEAN
BY DEF Call, CallSteps

LEMMA CommandFields ==
  ASSUME NEW m \in Command
  PROVE /\ m.op \in {"upsert", "edit", "softDelete", "restore", "sweep"} /\ m.p \in Products
        /\ m.want \in Skus \cup {None} /\ m.key \in Keys \cup {None}
BY DEF Command

LEMMA ProductFields ==
  ASSUME NEW d \in Product
  PROVE /\ d.life \in {"absent", "live", "deleted"} /\ d.sku \in Skus \cup {None}
        /\ d.key \in Keys \cup {None} /\ d.owed \in SUBSET Carry
        /\ [d EXCEPT !.key = None] \in Product
        /\ [d EXCEPT !.key = None].life = d.life /\ [d EXCEPT !.key = None].sku = d.sku
        /\ [d EXCEPT !.key = None].owed = d.owed
BY DEF Product

LEMMA ClaimFields ==
  ASSUME NEW k \in Claim
  PROVE k.by \in Products \cup {None} /\ k.live \in BOOLEAN /\ k.old \in BOOLEAN
        /\ k.creates \in BOOLEAN
BY DEF Claim

LEMMA CarryFields ==
  ASSUME NEW r \in Carry PROVE r.from \in Skus /\ r.to \in Skus /\ r.key \in Keys
BY DEF Carry

LEMMA FreshClaim ==
  ASSUME NEW p \in Products, NEW b \in BOOLEAN
  PROVE Fresh(p, b) \in Claim /\ Fresh(p, b).live /\ Fresh(p, b).by = p /\ ~Fresh(p, b).old
BY DEF Fresh, Claim

\* The invariant, with the documents named.
LEMMA OwnersInvNow ==
  OwnersInv <=>
         /\ OwnersTypeOK
         /\ \A p \in Products : ProductRight(p, productDoc[p], claim, unruly)
         /\ \A s \in Skus : claim[s].live => claim[s].by \in Products
         /\ \A c \in Calls : CallRight(call[c], productDoc, claim, unruly)
         /\ \A c, d \in Calls : c # d => Apart(call[c], call[d])
BY DEF OwnersInv

LEMMA OwnersInvNext ==
  OwnersInv' <=>
         /\ OwnersTypeOK'
         /\ \A p \in Products : ProductRight(p, productDoc'[p], claim', unruly')
         /\ \A s \in Skus : claim'[s].live => claim'[s].by \in Products
         /\ \A c \in Calls : CallRight(call'[c], productDoc', claim', unruly')
         /\ \A c, d \in Calls : c # d => Apart(call'[c], call'[d])
BY DEF OwnersInv, ProductRight, CallRight, Apart, OnItsWay, ReadsRight, CarriesRight, ClaimRight,
       LeftBy, About, Saves, Writes

\* What a step of another makes of a call: the reads it may still rely on are fewer.
Fades(x, y) ==
  /\ y.cmd = x.cmd /\ y.at = x.at /\ y.doc = x.doc /\ y.todo = x.todo /\ y.carry = x.carry
  /\ y.blocked = x.blocked /\ y.done = x.done /\ y.saw = x.saw /\ y.ours = x.ours
  /\ y.hold = x.hold /\ y.claimed = x.claimed
  /\ x.met => y.met
  /\ y.current => x.current
  /\ y.fresh => x.fresh
  /\ x = NoCall => y = x

\* The claim of a call's sku is as it was, or has only aged.
Ages(x, k, l, odd) ==
  /\ l.live = k.live /\ l.by = k.by
  /\ l.old = k.old \/ (l.old /\ (x.at = "age" => k.by \in odd))

\* What has to hold of another's write for a call to keep what it relies on; odd: the unruly
\* products after it.
Spared(x, y, docs, later, claims, next, odd) ==
  x.at # "idle" =>
    /\ y.current => later[x.cmd.p] = docs[x.cmd.p]
    /\ Writes(x) /\ ~y.met /\ x.cmd.p \notin odd =>
         /\ later[x.cmd.p].owed = docs[x.cmd.p].owed
         /\ later[x.cmd.p].sku = docs[x.cmd.p].sku
         /\ later[x.cmd.p].life = "live" => docs[x.cmd.p].life = "live"
    /\ y.fresh /\ About(x) # None =>
         /\ Ages(x, claims[About(x)], next[About(x)], odd)
         /\ claims[About(x)].live /\ claims[About(x)].old /\ claims[About(x)].by \notin odd
              /\ LeftBy(docs, claims[About(x)].by, About(x))
              => LeftBy(later, claims[About(x)].by, About(x))
         /\ x.at = "unclaim" /\ x.cmd.p \notin odd /\ LeftBy(docs, x.cmd.p, About(x))
              => LeftBy(later, x.cmd.p, About(x))
    /\ x.at = "commit" /\ x.hold /\ y.current /\ x.cmd.p \notin odd =>
         next[About(x)].live /\ next[About(x)].by = x.cmd.p /\ ~next[About(x)].old

LEMMA StillRight ==
  ASSUME NEW x \in Call, NEW y \in Call, Fades(x, y),
         NEW docs, NEW later, NEW claims, NEW next, NEW odd, NEW odder, odd \subseteq odder,
         CallRight(x, docs, claims, odd), Spared(x, y, docs, later, claims, next, odder)
  PROVE CallRight(y, later, next, odder)
<1>1. OnItsWay(y)
  BY DEF Fades, CallRight, OnItsWay, Saves, About
<1>2. SUFFICES ASSUME y.at # "idle"
               PROVE /\ ReadsRight(y, later[y.cmd.p]) /\ CarriesRight(y, later[y.cmd.p], odder)
                     /\ About(y) # None => ClaimRight(y, later, next[About(y)], odder)
  BY <1>1 DEF CallRight
<1>3. ReadsRight(y, later[y.cmd.p])
  BY <1>2 DEF Spared, Fades, CallRight, ReadsRight, Saves
<1>4. CarriesRight(y, later[y.cmd.p], odder)
  BY <1>2 DEF Spared, Fades, CallRight, CarriesRight, OnItsWay, Saves, Writes
<1>5. ASSUME About(y) # None PROVE ClaimRight(y, later, next[About(y)], odder)
  <2>1. About(y) = About(x) /\ ClaimRight(x, docs, claims[About(x)], odd) /\ x.at # "idle"
        /\ y.cmd = x.cmd /\ y.at = x.at /\ y.saw = x.saw /\ y.ours = x.ours /\ y.hold = x.hold
        /\ (y.fresh => x.fresh) /\ (y.current => x.current)
    BY <1>2, <1>5 DEF Fades, About, CallRight
  <2>2. CASE ~y.fresh
    BY <1>5, <2>1, <2>2 DEF Spared, ClaimRight
  <2>3. CASE y.fresh
    BY <1>5, <2>1, <2>3 DEF Spared, ClaimRight, Ages
  <2> QED BY <2>2, <2>3
<1> QED BY <1>3, <1>4, <1>5

LEMMA FadesApart ==
  ASSUME NEW x, NEW y, NEW x2, NEW y2, Fades(x, x2), Fades(y, y2), Apart(x, y)
  PROVE Apart(x2, y2)
BY DEF Fades, Apart, Writes, About

LEMMA SameFades == ASSUME NEW x PROVE Fades(x, x)
BY DEF Fades

\* Where no document is written, nothing is lost.
LEMMA SameSpared ==
  ASSUME NEW x \in Call, NEW y, Fades(x, y), NEW docs, NEW claims, NEW odd, NEW odder,
         odd \subseteq odder, CallRight(x, docs, claims, odd)
  PROVE Spared(x, y, docs, docs, claims, claims, odder)
<1> SUFFICES ASSUME x.at # "idle" PROVE Spared(x, y, docs, docs, claims, claims, odder)
  BY DEF Spared
<1>1. x.hold => About(x) # None
  BY DEF CallRight, OnItsWay
<1>2. x.at = "commit" /\ x.hold /\ x.current /\ x.cmd.p \notin odd =>
        claims[About(x)].live /\ claims[About(x)].by = x.cmd.p /\ ~claims[About(x)].old
  BY <1>1 DEF CallRight, ClaimRight
<1> QED BY <1>2 DEF Spared, Ages, Fades

\* A step of one call, c, or of none: the others keep what they rely on.
LEMMA OneMoves ==
  ASSUME OwnersInv, OwnersTypeOK', NEW c, unruly \subseteq unruly',
         \A p \in Products : ProductRight(p, productDoc'[p], claim', unruly'),
         \A s \in Skus : claim'[s].live => claim'[s].by \in Products,
         \A d \in Calls \ {c} :
           /\ Fades(call[d], call'[d])
           /\ Spared(call[d], call'[d], productDoc, productDoc', claim, claim', unruly'),
         c \in Calls => /\ CallRight(call'[c], productDoc', claim', unruly')
                        /\ \A d \in Calls \ {c} :
                             Apart(call'[c], call'[d]) /\ Apart(call'[d], call'[c])
  PROVE OwnersInv'
<1>1. call \in [Calls -> Call] /\ call' \in [Calls -> Call]
  BY OwnersInvNow DEF OwnersTypeOK
<1>2. ASSUME NEW d \in Calls PROVE CallRight(call'[d], productDoc', claim', unruly')
  <2>1. CASE d # c
    <3>1. call[d] \in Call /\ call'[d] \in Call /\ CallRight(call[d], productDoc, claim, unruly)
      BY <1>1, OwnersInvNow
    <3> QED BY <2>1, <3>1, StillRight
  <2>2. CASE d = c
    BY <2>2
  <2> QED BY <2>1, <2>2
<1>3. ASSUME NEW d \in Calls, NEW e \in Calls, d # e PROVE Apart(call'[d], call'[e])
  <2>1. CASE d # c /\ e # c
    <3>1. Apart(call[d], call[e])
      BY <1>3, OwnersInvNow
    <3> QED BY <2>1, <3>1, FadesApart
  <2>2. CASE d = c \/ e = c
    BY <1>3, <2>2
  <2> QED BY <2>1, <2>2
<1> QED BY <1>2, <1>3, OwnersInvNext

\* A step of no call.
LEMMA NoneMoves ==
  ASSUME OwnersInv, OwnersTypeOK', unruly \subseteq unruly',
         \A p \in Products : ProductRight(p, productDoc'[p], claim', unruly'),
         \A s \in Skus : claim'[s].live => claim'[s].by \in Products,
         \A d \in Calls :
           /\ Fades(call[d], call'[d])
           /\ Spared(call[d], call'[d], productDoc, productDoc', claim, claim', unruly')
  PROVE OwnersInv'
<1>1. call \in [Calls -> Call] /\ call' \in [Calls -> Call]
  BY OwnersInvNow DEF OwnersTypeOK
<1>2. ASSUME NEW d \in Calls PROVE CallRight(call'[d], productDoc', claim', unruly')
  <2>1. call[d] \in Call /\ call'[d] \in Call /\ CallRight(call[d], productDoc, claim, unruly)
    BY <1>1, OwnersInvNow
  <2> QED BY <2>1, StillRight
<1>3. ASSUME NEW d \in Calls, NEW e \in Calls, d # e PROVE Apart(call'[d], call'[e])
  <2>1. Apart(call[d], call[e])
    BY <1>3, OwnersInvNow
  <2> QED BY <2>1, FadesApart
<1> QED BY <1>2, <1>3, OwnersInvNext

\* The calls but c are left alone.
Others(c) == \A d \in Calls \ {c} : call'[d] = call[d]

\* c goes on with what it met, and nothing more.
Follows(n, x) == Writes(n) => Writes(x) /\ n.cmd.p = x.cmd.p /\ (x.met => n.met)

\* What follows for c when it does not come to write: it takes part in no race.
Quiet(n, x) ==
  /\ Follows(n, x)
  /\ ~(n.at = "unclaim" /\ n.fresh)
  /\ ~(n.at = "commit" /\ n.hold /\ n.current)

LEMMA QuietApart ==
  ASSUME NEW x, NEW n, NEW y, NEW z, Apart(x, y), Apart(y, x), Quiet(n, x), Fades(y, z)
  PROVE Apart(n, z) /\ Apart(z, n)
BY DEF Apart, Quiet, Follows, Fades, Writes, About

\* A step of c that writes neither product nor claim.
LEMMA LocalStep ==
  ASSUME OwnersInv, NEW c \in Calls, NEW n \in Call, call' = [call EXCEPT ![c] = n],
         UNCHANGED <<productDoc, claim, unruly>>,
         inventory' \in [Skus -> {"absent", "empty", "units"}], begun' \in 0..MaxBegun,
         CallRight(n, productDoc, claim, unruly), Quiet(n, call[c])
  PROVE OwnersInv'
<1>1. OwnersTypeOK'
  BY OwnersInvNow DEF OwnersTypeOK
<1>2. call'[c] = n /\ Others(c)
  BY OwnersInvNow DEF OwnersTypeOK, Others
<1>3. \A d \in Calls \ {c} :
        /\ Fades(call[d], call'[d])
        /\ Spared(call[d], call'[d], productDoc, productDoc', claim, claim', unruly')
  <2> SUFFICES ASSUME NEW d \in Calls \ {c}
               PROVE /\ Fades(call[d], call[d])
                     /\ Spared(call[d], call[d], productDoc, productDoc, claim, claim, unruly)
    BY <1>2 DEF Others
  <2>1. CallRight(call[d], productDoc, claim, unruly) /\ call[d] \in Call
    BY OwnersInvNow DEF OwnersTypeOK
  <2> QED BY <2>1, SameFades, SameSpared
<1>4. \A d \in Calls \ {c} : Apart(call'[c], call'[d]) /\ Apart(call'[d], call'[c])
  BY <1>2, <1>3, QuietApart, OwnersInvNow
<1> QED BY <1>1, <1>2, <1>3, <1>4, OneMoves, OwnersInvNow

LEMMA FadedCall ==
  ASSUME NEW x \in Call, x = NoCall => x.cmd.p = None
  PROVE /\ [x EXCEPT !.fresh = FALSE] \in Call /\ ~[x EXCEPT !.fresh = FALSE].fresh
        /\ x # NoCall => Fades(x, [x EXCEPT !.fresh = FALSE])
        /\ [x EXCEPT !.fresh = FALSE].current = x.current
        /\ [x EXCEPT !.fresh = FALSE].met = x.met
BY DEF Call, Fades

LEMMA NoCallAbout == About(NoCall) = None
BY NoCallIs DEF About

LEMMA AboutSku ==
  ASSUME NEW x \in Call, OnItsWay(x)
  PROVE /\ About(x) # None => About(x) \in Skus
        /\ x.at # "idle" => x.cmd \in Command /\ x.cmd.p \in Products
<1>1. CASE x.at = "idle"
  BY <1>1, NoCallAbout DEF OnItsWay
<1>2. CASE x.at # "idle"
  <2>1. x.cmd \in Command
    BY <1>2 DEF OnItsWay
  <2>2. x.doc.sku \in Skus \cup {None}
    BY CallFields, ProductFields
  <2> QED BY <2>1, <2>2, CommandFields DEF About
<1> QED BY <1>1, <1>2

\* A call other than c that is about to commit a tidy product on the claim of s.
Commits(c, d, s) ==
  /\ d \in Calls \ {c} /\ call[d].at = "commit" /\ call[d].hold /\ call[d].current
  /\ call[d].cmd.p \notin unruly' /\ About(call[d]) = s

\* A write of the claim on s, by a step of c.
LEMMA ClaimStep ==
  ASSUME OwnersInv, NEW c \in Calls, NEW s \in Skus, NEW k \in Claim,
         claim' = [claim EXCEPT ![s] = k], productDoc' = productDoc,
         inventory' \in [Skus -> {"absent", "empty", "units"}], begun' = begun,
         call' \in [Calls -> Call], unruly \subseteq unruly', unruly' \subseteq Products,
         \A d \in Calls \ {c} : call'[d] = IF About(call[d]) = s
                                           THEN [call[d] EXCEPT !.fresh = FALSE] ELSE call[d],
         k.live => k.by \in Products,
         \A p \in Products \ unruly' : (k.live /\ k.by = p) \/ LeftBy(productDoc, p, s),
         \A d \in Calls : Commits(c, d, s) => k.live /\ k.by = call[d].cmd.p /\ ~k.old,
         CallRight(call'[c], productDoc, claim', unruly'),
         Follows(call'[c], call[c]),
         call'[c].at # "unclaim",
         call'[c].at = "commit" => About(call'[c]) = s
  PROVE OwnersInv'
<1>1. OwnersTypeOK'
  BY OwnersInvNow DEF OwnersTypeOK
<1>2. /\ claim \in [Skus -> Claim] /\ claim' \in [Skus -> Claim] /\ claim'[s] = k
      /\ \A t \in Skus : t # s => claim'[t] = claim[t]
  BY OwnersInvNow DEF OwnersTypeOK
<1>3. ASSUME NEW d \in Calls \ {c}
      PROVE /\ Fades(call[d], call'[d])
            /\ Spared(call[d], call'[d], productDoc, productDoc', claim, claim', unruly')
            /\ About(call[d]) = s => ~call'[d].fresh
  <2>1. call[d] \in Call /\ CallRight(call[d], productDoc, claim, unruly)
    BY OwnersInvNow DEF OwnersTypeOK
  <2>2. CASE About(call[d]) # s
    <3>1. call'[d] = call[d] /\ Fades(call[d], call[d])
      BY <2>2, SameFades
    <3>2. Spared(call[d], call[d], productDoc, productDoc, claim, claim, unruly')
      BY <2>1, <3>1, SameSpared
    <3>3. About(call[d]) # None => About(call[d]) \in Skus
      BY <2>1, AboutSku DEF CallRight
    <3>4. About(call[d]) # None => claim'[About(call[d])] = claim[About(call[d])]
      BY <1>2, <2>2, <3>3
    <3>5. call[d].hold => About(call[d]) # None
      BY <2>1 DEF CallRight, OnItsWay
    <3> QED BY <2>2, <3>1, <3>2, <3>4, <3>5 DEF Spared
  <2>3. CASE About(call[d]) = s
    <3>1. call[d] # NoCall /\ call'[d] = [call[d] EXCEPT !.fresh = FALSE]
      BY <2>3, NoCallAbout, NoneApart
    <3>2. /\ Fades(call[d], call'[d]) /\ ~call'[d].fresh
          /\ call'[d].current = call[d].current /\ call'[d].met = call[d].met
      BY <2>1, <3>1, FadedCall
    <3>3. call[d].at = "commit" /\ call[d].hold /\ call[d].current /\ call[d].cmd.p \notin unruly'
            => k.live /\ k.by = call[d].cmd.p /\ ~k.old
      BY <2>3 DEF Commits
    <3>4. call[d].at # "idle" => call[d].cmd.p \in Products
      BY <2>1, AboutSku DEF CallRight
    <3> QED BY <1>2, <2>3, <3>2, <3>3, <3>4 DEF Spared
  <2> QED BY <2>2, <2>3
<1>4. ASSUME NEW p \in Products PROVE ProductRight(p, productDoc'[p], claim', unruly')
  <2>1. ProductRight(p, productDoc[p], claim, unruly) /\ productDoc[p] \in Product
    BY OwnersInvNow DEF OwnersTypeOK
  <2>2. p \in unruly' \/ (k.live /\ k.by = p) \/ LeftBy(productDoc, p, s)
    OBVIOUS
  <2>3. ASSUME NEW t \in Skus, p \in unruly \/ (claim[t].live /\ claim[t].by = p),
               t # s \/ ~LeftBy(productDoc, p, s)
        PROVE p \in unruly' \/ (claim'[t].live /\ claim'[t].by = p)
    BY <1>2, <2>2, <2>3
  <2>4. \A r \in productDoc[p].owed : r.from \in Skus /\ (r.from = s => ~LeftBy(productDoc, p, s))
    BY <2>1, ProductFields, CarryFields DEF LeftBy
  <2>5. productDoc[p].life = "live" /\ productDoc[p].sku # None =>
             productDoc[p].sku \in Skus /\ (productDoc[p].sku = s => ~LeftBy(productDoc, p, s))
    BY <2>1, ProductFields DEF LeftBy
  <2> QED BY <2>1, <2>3, <2>4, <2>5 DEF ProductRight
<1>5. \A t \in Skus : claim'[t].live => claim'[t].by \in Products
  BY <1>2, OwnersInvNow
<1>6. ASSUME NEW d \in Calls \ {c} PROVE Apart(call'[c], call'[d]) /\ Apart(call'[d], call'[c])
  <2>1. Fades(call[d], call'[d]) /\ (About(call[d]) = s => ~call'[d].fresh)
    BY <1>3
  <2>2. About(call'[d]) = About(call[d]) /\ Writes(call'[d]) = Writes(call[d])
        /\ call'[d].cmd.p = call[d].cmd.p
    BY <2>1 DEF Fades, About, Writes
  <2>3. Apart(call[c], call[d]) /\ Apart(call[d], call[c])
    BY OwnersInvNow
  <2>4. call[d].met => call'[d].met
    BY <2>1 DEF Fades
  <2> QED BY <2>1, <2>2, <2>3, <2>4 DEF Apart, Follows
<1> QED BY <1>1, <1>3, <1>4, <1>5, <1>6, OneMoves

\* A write of product p leaves another call what it relies on.
LEMMA ProductSpared ==
  ASSUME OwnersInv, NEW p \in Products, NEW w \in Product, NEW d \in Calls,
         productDoc' = [productDoc EXCEPT ![p] = w], claim' = claim, unruly \subseteq unruly',
         Fades(call[d], call'[d]), call'[d].fresh = call[d].fresh,
         call[d].cmd.p = p => ~call'[d].current,
         \/ Writes(call[d]) /\ call[d].cmd.p = p => call'[d].met
         \/ /\ w.owed = productDoc[p].owed /\ w.sku = productDoc[p].sku
            /\ w.life = "live" => productDoc[p].life = "live",
         p \notin unruly' =>
           \A s \in Skus : \/ LeftBy(productDoc, p, s) => LeftBy(productDoc', p, s)
                           \/ /\ claim[s].by = p /\ ~claim[s].old
                              /\ call[d].at = "unclaim" /\ call[d].fresh /\ call[d].cmd.p = p
                                   => About(call[d]) # s
  PROVE Spared(call[d], call'[d], productDoc, productDoc', claim, claim', unruly')
<1>1. /\ productDoc'[p] = w /\ \A q \in Products : q # p => productDoc'[q] = productDoc[q]
      /\ claim \in [Skus -> Claim]
  BY OwnersInvNow DEF OwnersTypeOK
<1>2. /\ call[d] \in Call /\ CallRight(call[d], productDoc, claim, unruly)
      /\ Spared(call[d], call'[d], productDoc, productDoc, claim, claim, unruly')
  BY OwnersInvNow, SameSpared DEF OwnersTypeOK
<1> SUFFICES ASSUME call[d].at # "idle"
             PROVE Spared(call[d], call'[d], productDoc, productDoc', claim, claim', unruly')
  BY DEF Spared
<1>3. call[d].cmd \in Command /\ call[d].cmd.p \in Products /\ call[d].doc \in Product
  BY <1>2, CommandFields, CallFields DEF CallRight, OnItsWay
<1>4. About(call[d]) # None => About(call[d]) \in Skus
  BY <1>3, CommandFields, ProductFields DEF About
<1>5. Fades(call[d], call'[d]) /\ call'[d].fresh = call[d].fresh
      /\ (call'[d].current => call[d].current)
  BY DEF Fades
<1>6. call'[d].current => productDoc'[call[d].cmd.p] = productDoc[call[d].cmd.p]
  BY <1>1, <1>3
<1>7. Writes(call[d]) /\ ~call'[d].met =>
        /\ productDoc'[call[d].cmd.p].owed = productDoc[call[d].cmd.p].owed
        /\ productDoc'[call[d].cmd.p].sku = productDoc[call[d].cmd.p].sku
        /\ productDoc'[call[d].cmd.p].life = "live" => productDoc[call[d].cmd.p].life = "live"
  BY <1>1, <1>3
<1>8. ASSUME NEW q \in Products, NEW s \in Skus, q # p
      PROVE LeftBy(productDoc, q, s) => LeftBy(productDoc', q, s)
  BY <1>1, <1>8 DEF LeftBy
<1>9. ASSUME call'[d].fresh, About(call[d]) # None
      PROVE /\ claim[About(call[d])].live /\ claim[About(call[d])].old
                 /\ claim[About(call[d])].by \notin unruly'
                 /\ LeftBy(productDoc, claim[About(call[d])].by, About(call[d]))
                 => LeftBy(productDoc', claim[About(call[d])].by, About(call[d]))
            /\ call[d].at = "unclaim" /\ call[d].cmd.p \notin unruly'
                 /\ LeftBy(productDoc, call[d].cmd.p, About(call[d]))
                 => LeftBy(productDoc', call[d].cmd.p, About(call[d]))
  <2>1. claim[About(call[d])].live => claim[About(call[d])].by \in Products
    BY <1>4, <1>9, OwnersInvNow
  <2> QED BY <1>3, <1>4, <1>5, <1>8, <1>9, <2>1
<1>10. call[d].at = "commit" /\ call[d].hold /\ call'[d].current /\ call[d].cmd.p \notin unruly' =>
         /\ claim'[About(call[d])].live /\ claim'[About(call[d])].by = call[d].cmd.p
         /\ ~claim'[About(call[d])].old
  BY <1>2 DEF Spared
<1>11. About(call[d]) # None =>
         Ages(call[d], claim[About(call[d])], claim'[About(call[d])], unruly')
  BY DEF Ages
<1> QED BY <1>6, <1>7, <1>9, <1>10, <1>11 DEF Spared

\* A write of product p does not come back to the sku s, or to one that p holds afresh and no
\* delete is about to release.
StaysLeft(c, p, s) ==
  \/ LeftBy(productDoc, p, s) => LeftBy(productDoc', p, s)
  \/ /\ claim[s].by = p /\ ~claim[s].old
     /\ \A d \in Calls \ {c} :
          call[d].at = "unclaim" /\ call[d].fresh /\ call[d].cmd.p = p => About(call[d]) # s

\* A write of product p, by a step of c.
ProductMove(c, p, w) ==
  /\ productDoc' = [productDoc EXCEPT ![p] = w]
  /\ claim' = claim /\ inventory' = inventory /\ begun' = begun /\ call' \in [Calls -> Call]
  /\ unruly \subseteq unruly' /\ unruly' \subseteq Products
  /\ \A d \in Calls \ {c} : /\ Fades(call[d], call'[d]) /\ call'[d].fresh = call[d].fresh
                            /\ call[d].cmd.p = p => ~call'[d].current
  /\ ProductRight(p, w, claim, unruly')
  /\ \/ \A d \in Calls \ {c} : Writes(call[d]) /\ call[d].cmd.p = p => call[d].met
     \/ /\ w.owed = productDoc[p].owed /\ w.sku = productDoc[p].sku
        /\ w.life = "live" => productDoc[p].life = "live"
  /\ p \notin unruly' => \A s \in Skus : StaysLeft(c, p, s)
  /\ CallRight(call'[c], productDoc', claim, unruly')
  /\ \A d \in Calls \ {c} : Apart(call'[c], call'[d]) /\ Apart(call'[d], call'[c])

LEMMA ProductStep ==
  ASSUME OwnersInv, NEW c \in Calls, NEW p \in Products, NEW w \in Product, ProductMove(c, p, w)
  PROVE OwnersInv'
<1> USE DEF ProductMove
<1>1. OwnersTypeOK'
  BY OwnersInvNow DEF OwnersTypeOK
<1>2. /\ productDoc'[p] = w /\ \A q \in Products : q # p => productDoc'[q] = productDoc[q]
      /\ claim \in [Skus -> Claim]
  BY OwnersInvNow DEF OwnersTypeOK
<1>3. ASSUME NEW d \in Calls \ {c}
      PROVE Spared(call[d], call'[d], productDoc, productDoc', claim, claim', unruly')
  <2>1. /\ Fades(call[d], call'[d]) /\ call'[d].fresh = call[d].fresh
        /\ call[d].cmd.p = p => ~call'[d].current
    OBVIOUS
  <2>2. \/ Writes(call[d]) /\ call[d].cmd.p = p => call'[d].met
        \/ /\ w.owed = productDoc[p].owed /\ w.sku = productDoc[p].sku
           /\ w.life = "live" => productDoc[p].life = "live"
    BY <2>1 DEF Fades
  <2>3. p \notin unruly' =>
          \A s \in Skus : \/ LeftBy(productDoc, p, s) => LeftBy(productDoc', p, s)
                          \/ /\ claim[s].by = p /\ ~claim[s].old
                             /\ call[d].at = "unclaim" /\ call[d].fresh /\ call[d].cmd.p = p
                                  => About(call[d]) # s
    BY DEF StaysLeft
  <2> QED BY <2>1, <2>2, <2>3, ProductSpared
<1>4. \A q \in Products : ProductRight(q, productDoc'[q], claim', unruly')
  <2> SUFFICES ASSUME NEW q \in Products PROVE ProductRight(q, productDoc'[q], claim', unruly')
    OBVIOUS
  <2>1. ProductRight(q, productDoc[q], claim, unruly)
    BY OwnersInvNow
  <2>2. ProductRight(q, productDoc[q], claim, unruly')
    BY <2>1 DEF ProductRight
  <2> QED BY <1>2, <2>2
<1>5. \A t \in Skus : claim'[t].live => claim'[t].by \in Products
  BY OwnersInvNow
<1> QED BY <1>1, <1>3, <1>4, <1>5, OneMoves

-----------------------------------------------------------------------------
(* The ends of an attempt *)

LEMMA NoCallRight == 
  ASSUME NEW docs, NEW claims, NEW odd PROVE CallRight(NoCall, docs, claims, odd)
BY NoCallIs, NoCallAbout DEF CallRight, OnItsWay, Saves, Claiming

LEMMA NoCallQuiet == ASSUME NEW x PROVE Quiet(NoCall, x)
BY NoCallIs DEF Quiet, Follows, Writes

\* A call about to read its product, or to undo: of its earlier reads nothing is left.
Anew(x, a) == [NoCall EXCEPT !.at = a, !.cmd = x.cmd, !.form = x.form,
                             !.claimed = x.claimed, !.made = x.made, !.met = x.met]

LEMMA AnewFields ==
  ASSUME NEW x \in Call, NEW a \in CallSteps
  PROVE /\ Anew(x, a) \in Call
        /\ Anew(x, a).at = a /\ Anew(x, a).cmd = x.cmd /\ Anew(x, a).claimed = x.claimed
        /\ ~Anew(x, a).current /\ ~Anew(x, a).fresh /\ ~Anew(x, a).hold /\ ~Anew(x, a).done
        /\ Anew(x, a).todo = {} /\ Anew(x, a).doc = NoProduct /\ Anew(x, a).carry = NoCarry
        /\ ~Anew(x, a).ours /\ Anew(x, a).met = x.met
<1>1. Anew(x, a) \in Call
  <2>1. x.cmd \in Command \cup {NoCommand} /\ x.form \in BOOLEAN /\ x.claimed \in BOOLEAN
        /\ x.made \in BOOLEAN /\ x.met \in BOOLEAN
    BY CallFields
  <2> QED BY <2>1, NoCallType, ZenonT(60) DEF Anew, Call, CallSteps
<1>2. /\ Anew(x, a).at = a /\ Anew(x, a).cmd = x.cmd /\ Anew(x, a).claimed = x.claimed
      /\ ~Anew(x, a).current /\ ~Anew(x, a).fresh /\ ~Anew(x, a).hold /\ ~Anew(x, a).done
      /\ Anew(x, a).todo = {} /\ Anew(x, a).doc = NoProduct /\ Anew(x, a).carry = NoCarry
      /\ ~Anew(x, a).ours /\ Anew(x, a).met = x.met
  BY DEF Anew, NoCall
<1> QED BY <1>1, <1>2

LEMMA AnewRight ==
  ASSUME NEW x \in Call, NEW docs, NEW claims, NEW odd, CallRight(x, docs, claims, odd),
         x.at # "idle", NEW a \in {"read", "undo"}, a = "undo" => Saves(x)
  PROVE Anew(x, a) \in Call /\ CallRight(Anew(x, a), docs, claims, odd) /\ Quiet(Anew(x, a), x)
<1> DEFINE n == Anew(x, a)
<1>1. a \in CallSteps
  BY DEF CallSteps
<1>2. /\ n \in Call /\ n.at = a /\ n.cmd = x.cmd /\ n.claimed = x.claimed
      /\ ~n.current /\ ~n.fresh /\ ~n.hold /\ ~n.done /\ n.todo = {} /\ n.doc = NoProduct
      /\ n.met = x.met
  BY <1>1, AnewFields
<1> HIDE DEF n
<1>3. Saves(n) = Saves(x) /\ Writes(n) = Writes(x)
  BY <1>2 DEF Saves, Writes
<1>4. /\ x.cmd \in Command /\ (Saves(x) => x.cmd.key \in Keys)
      /\ Saves(x) /\ x.claimed => x.cmd.want # None
  BY DEF CallRight, OnItsWay
<1>5. OnItsWay(n)
  BY <1>2, <1>3, <1>4 DEF OnItsWay, Claiming
<1>6. ReadsRight(n, docs[n.cmd.p])
  <2>1. a = "undo" => n.cmd.op # "restore"
    BY <1>2 DEF Saves
  <2> QED BY <1>2, <2>1 DEF ReadsRight, Claiming
<1>7. CarriesRight(n, docs[n.cmd.p], odd)
  BY <1>2, <1>3 DEF CarriesRight, CallRight
<1>8. ClaimRight(n, docs, claims[About(n)], odd)
  BY <1>2 DEF ClaimRight
<1>9. Quiet(n, x)
  BY <1>2, <1>3 DEF Quiet, Follows
<1> QED BY <1>2, <1>5, <1>6, <1>7, <1>8, <1>9 DEF CallRight, n

\* What the invariant says of one call.
LEMMA ThisCall ==
  ASSUME OwnersInv, NEW c \in Calls
  PROVE /\ call[c] \in Call /\ CallRight(call[c], productDoc, claim, unruly) /\ OnItsWay(call[c])
        /\ call[c].at # "idle" =>
             /\ call[c].cmd \in Command /\ P(c) \in Products
             /\ ReadsRight(call[c], productDoc[P(c)])
             /\ CarriesRight(call[c], productDoc[P(c)], unruly)
             /\ productDoc[P(c)] \in Product
             /\ ProductRight(P(c), productDoc[P(c)], claim, unruly)
             /\ On(c) = About(call[c])
             /\ On(c) # None =>
                  On(c) \in Skus /\ ClaimRight(call[c], productDoc, claim[On(c)], unruly)
<1>1. call[c] \in Call /\ CallRight(call[c], productDoc, claim, unruly) /\ OnItsWay(call[c])
  BY OwnersInvNow DEF OwnersTypeOK, CallRight
<1>2. On(c) = About(call[c]) /\ P(c) = call[c].cmd.p
  BY DEF On, Op, Want, About, P
<1>3. ASSUME call[c].at # "idle"
      PROVE /\ call[c].cmd \in Command /\ P(c) \in Products
            /\ ReadsRight(call[c], productDoc[P(c)])
            /\ CarriesRight(call[c], productDoc[P(c)], unruly)
            /\ On(c) # None =>
                 On(c) \in Skus /\ ClaimRight(call[c], productDoc, claim[On(c)], unruly)
  BY <1>1, <1>2, <1>3, AboutSku DEF CallRight
<1>4. call[c].at # "idle" =>
        productDoc[P(c)] \in Product /\ ProductRight(P(c), productDoc[P(c)], claim, unruly)
  BY <1>3, OwnersInvNow DEF OwnersTypeOK
<1> QED BY <1>1, <1>2, <1>3, <1>4

LEMMA LeaveStep ==
  ASSUME OwnersInv, NEW c \in Calls, Leave(c), UNCHANGED <<productDoc, claim, begun, unruly>>,
         inventory' \in [Skus -> {"absent", "empty", "units"}]
  PROVE OwnersInv'
<1>1. call' = [call EXCEPT ![c] = NoCall] /\ begun' \in 0..MaxBegun
  BY OwnersInvNow DEF Leave, OwnersTypeOK
<1> QED BY <1>1, NoCallType, NoCallRight, NoCallQuiet, LocalStep

LEMMA AgainStep ==
  ASSUME OwnersInv, NEW c \in Calls, NEW a \in {"read", "undo"}, Again(c, a), call[c].at # "idle",
         a = "undo" => Saves(call[c]), UNCHANGED <<productDoc, claim, begun, unruly>>,
         inventory' \in [Skus -> {"absent", "empty", "units"}]
  PROVE OwnersInv'
<1> DEFINE x == call[c]
           n == Anew(x, a)
<1>1. call' = [call EXCEPT ![c] = n] /\ begun' \in 0..MaxBegun
  BY OwnersInvNow DEF Again, Anew, OwnersTypeOK
<1>2. n \in Call /\ CallRight(n, productDoc, claim, unruly) /\ Quiet(n, call[c])
  BY ThisCall, AnewRight
<1> HIDE DEF x, n
<1> QED BY <1>1, <1>2, LocalStep

LEMMA GiveUpStep ==
  ASSUME OwnersInv, NEW c \in Calls, GiveUp(c), call[c].at # "idle",
         UNCHANGED <<productDoc, claim, begun, unruly>>,
         inventory' \in [Skus -> {"absent", "empty", "units"}]
  PROVE OwnersInv'
<1>1. CASE Op(c) \in {"upsert", "edit"}
  BY <1>1, AgainStep DEF GiveUp, Op, Saves
<1>2. CASE Op(c) \notin {"upsert", "edit"}
  BY <1>2, LeaveStep DEF GiveUp
<1> QED BY <1>1, <1>2

LEMMA OwnersInitRight == OwnersInit => OwnersInv
<1> SUFFICES ASSUME OwnersInit PROVE OwnersInv
  OBVIOUS
<1>1. /\ \A p \in Products : productDoc[p] = NoProduct
      /\ \A s \in Skus : claim[s] = NoClaim
      /\ \A c \in Calls : call[c] = NoCall
  BY DEF OwnersInit
<1>2. OwnersTypeOK
  BY NoCallFields, NoCallType, BegunAssumption DEF OwnersInit, OwnersTypeOK
<1>3. \A p \in Products : ProductRight(p, productDoc[p], claim, unruly)
  BY <1>1, NoCallFields DEF ProductRight
<1>4. \A s \in Skus : claim[s].live => claim[s].by \in Products
  BY <1>1, NoCallFields
<1>5. \A c \in Calls : CallRight(call[c], productDoc, claim, unruly)
  BY <1>1, NoCallRight
<1>6. \A c, d \in Calls : Apart(call[c], call[d])
  BY <1>1, NoCallIs DEF Apart, Writes
<1> QED BY <1>2, <1>3, <1>4, <1>5, <1>6, OwnersInvNow

\* A call that meets another.
LEMMA MeetsCall ==
  ASSUME NEW x \in Call
  PROVE /\ [x EXCEPT !.met = TRUE] \in Call /\ [x EXCEPT !.met = TRUE].met
        /\ x # NoCall => Fades(x, [x EXCEPT !.met = TRUE])
<1>1. [x EXCEPT !.met = TRUE] \in Call
  BY ZenonT(60) DEF Call
<1>2. /\ [x EXCEPT !.met = TRUE].met
      /\ x # NoCall => Fades(x, [x EXCEPT !.met = TRUE])
  BY DEF Call, Fades
<1> QED BY <1>1, <1>2

LEMMA BeginStep ==
  ASSUME OwnersInv, NEW c \in Calls, NEW cmd \in Commands, Begin(c, cmd)
  PROVE OwnersInv'
<1> DEFINE met == IF cmd.op = "softDelete" THEN {} ELSE {d \in Calls : Overlaps(d, cmd.p)}
           n == [NoCall EXCEPT !.cmd = cmd, !.at = "read", !.form = cmd.op = "edit",
                               !.met = met # {}]
<1>1. cmd \in Command /\ (cmd.op \in {"upsert", "edit"} => cmd.key \in Keys)
  BY CommandsAssumption DEF Command
<1>2. /\ call' = [d \in Calls |-> IF d = c THEN n ELSE IF d \in met
                                     THEN [call[d] EXCEPT !.met = TRUE] ELSE call[d]]
      /\ UNCHANGED <<productDoc, claim, inventory, unruly>>
      /\ begun' = begun + 1 /\ begun < MaxBegun /\ call[c] = NoCall
  BY DEF Begin
<1>3. \A d \in met : d \in Calls /\ call[d] # NoCall /\ d # c /\ cmd.op # "softDelete"
  BY <1>2 DEF Overlaps
<1> DEFINE b == met # {}
<1>4. b \in BOOLEAN /\ n = [NoCall EXCEPT !.cmd = cmd, !.at = "read", !.form = cmd.op = "edit",
                                        !.met = b]
  OBVIOUS
<1>5. \A d \in Calls : Writes(call[d]) /\ call[d].cmd.p = cmd.p /\ cmd.op # "softDelete"
                          => b /\ d \in met
  BY NoCallIs DEF Overlaps, P, Op, Writes
<1> HIDE DEF met, b, n
<1>6. n \in Call
  BY <1>1, <1>4, NoCallType, ZenonT(60) DEF Call
<1>7. /\ n.cmd = cmd /\ n.at = "read" /\ ~n.current /\ ~n.fresh /\ ~n.hold /\ ~n.done
      /\ ~n.claimed /\ n.todo = {} /\ n.met = b
  BY <1>4 DEF NoCall
<1>8. /\ call \in [Calls -> Call] /\ call'[c] = n
      /\ \A d \in Calls \ {c} :
           call'[d] = IF d \in met THEN [call[d] EXCEPT !.met = TRUE] ELSE call[d]
  <2>1. call \in [Calls -> Call]
    BY OwnersInvNow DEF OwnersTypeOK
  <2>2. call'[c] = n
    BY <1>2
  <2>3. ASSUME NEW d \in Calls \ {c}
        PROVE call'[d] = IF d \in met THEN [call[d] EXCEPT !.met = TRUE] ELSE call[d]
    <3>1. CASE d \in met
      BY <1>2, <3>1
    <3>2. CASE d \notin met
      BY <1>2, <3>2
    <3> QED BY <3>1, <3>2
  <2> QED BY <2>1, <2>2, <2>3
<1>9. ASSUME NEW d \in Calls \ {c}
      PROVE /\ call'[d] \in Call /\ Fades(call[d], call'[d]) /\ (d \in met => call'[d].met)
            /\ Spared(call[d], call'[d], productDoc, productDoc', claim, claim', unruly')
  <2>1. call[d] \in Call /\ CallRight(call[d], productDoc, claim, unruly)
    BY OwnersInvNow DEF OwnersTypeOK
  <2>2. call'[d] \in Call /\ Fades(call[d], call'[d]) /\ (d \in met => call'[d].met)
    <3>1. CASE d \in met
      BY <1>3, <1>8, <2>1, <3>1, MeetsCall
    <3>2. CASE d \notin met
      BY <1>8, <2>1, <3>2, SameFades
    <3> QED BY <3>1, <3>2
  <2> QED BY <1>2, <2>1, <2>2, SameSpared
<1>10. call' \in [Calls -> Call]
  <2>1. \A d \in Calls : call'[d] \in Call
    BY <1>6, <1>8, <1>9
  <2> QED BY <1>2, <2>1
<1>11. OwnersTypeOK'
  BY <1>2, <1>10, OwnersInvNow, BegunAssumption DEF OwnersTypeOK
<1>12. CallRight(n, productDoc, claim, unruly)
  <2>1. OnItsWay(n)
    BY <1>1, <1>7 DEF OnItsWay, Claiming, Saves
  <2>2. ReadsRight(n, productDoc[n.cmd.p])
    BY <1>7 DEF ReadsRight, Claiming
  <2>3. CarriesRight(n, productDoc[n.cmd.p], unruly)
    BY <1>7 DEF CarriesRight
  <2>4. ClaimRight(n, productDoc, claim[About(n)], unruly)
    BY <1>7 DEF ClaimRight
  <2> QED BY <2>1, <2>2, <2>3, <2>4 DEF CallRight
<1>13. ASSUME NEW d \in Calls \ {c} PROVE Apart(n, call'[d]) /\ Apart(call'[d], n)
  <2>1. call'[d].cmd = call[d].cmd /\ (d \in met => call'[d].met)
    BY <1>9 DEF Fades
  <2>2. Writes(n) /\ Writes(call'[d]) /\ call'[d].cmd.p = cmd.p => n.met /\ call'[d].met
    BY <1>5, <1>7, <2>1 DEF Writes
  <2> QED BY <1>7, <2>2 DEF Apart
<1>14. \A p \in Products : ProductRight(p, productDoc'[p], claim', unruly')
  BY <1>2, OwnersInvNow
<1>15. \A s \in Skus : claim'[s].live => claim'[s].by \in Products
  BY <1>2, OwnersInvNow
<1>16. /\ CallRight(call'[c], productDoc', claim', unruly')
       /\ \A d \in Calls \ {c} : Apart(call'[c], call'[d]) /\ Apart(call'[d], call'[c])
  BY <1>2, <1>8, <1>12, <1>13
<1> QED BY <1>2, <1>9, <1>11, <1>14, <1>15, <1>16, OneMoves

LEMMA ThrowStep == ASSUME OwnersInv, NEW c \in Calls, Throw(c) PROVE OwnersInv'
<1>1. /\ GiveUp(c) /\ call[c].at # "idle" /\ UNCHANGED <<productDoc, claim, begun, unruly>>
      /\ inventory' \in [Skus -> {"absent", "empty", "units"}]
  BY OwnersInvNow DEF Throw, OwnersTypeOK
<1> QED BY <1>1, GiveUpStep

LEMMA CallCrashStep == ASSUME OwnersInv, NEW c \in Calls, CallCrash(c) PROVE OwnersInv'
<1>1. /\ Leave(c) /\ UNCHANGED <<productDoc, claim, begun, unruly>>
      /\ inventory' \in [Skus -> {"absent", "empty", "units"}]
  BY OwnersInvNow DEF CallCrash, OwnersTypeOK
<1> QED BY <1>1, LeaveStep

LEMMA StockStep == ASSUME OwnersInv, NEW s \in Skus, Stock(s) PROVE OwnersInv'
<1>1. UNCHANGED <<productDoc, claim, call, begun, unruly>>
  BY DEF Stock
<1>2. OwnersTypeOK'
  BY <1>1, OwnersInvNow DEF OwnersTypeOK, Stock
<1> QED BY <1>1, <1>2, OwnersInvNow, OwnersInvNext

LEMMA ExpireStep == ASSUME OwnersInv, NEW s \in Skus, Expire(s) PROVE OwnersInv'
<1>1. /\ UNCHANGED <<productDoc, inventory, call, begun>>
      /\ claim' = [claim EXCEPT ![s].old = TRUE]
      /\ ~\E c \in Calls : On(c) = s /\ call[c].at = "commit" /\ call[c].hold
      /\ unruly \subseteq unruly' /\ unruly' \subseteq unruly \cup {claim[s].by}
      /\ (\E c \in Calls : On(c) = s /\ call[c].at = "age" /\ call[c].fresh)
           => claim[s].by \in unruly'
      /\ claim[s].live
  BY DEF Expire
<1>2. claim \in [Skus -> Claim]
  BY OwnersInvNow DEF OwnersTypeOK
<1>3. /\ claim'[s].live = claim[s].live /\ claim'[s].by = claim[s].by /\ claim'[s].old
      /\ \A t \in Skus : t # s => claim'[t] = claim[t]
  BY <1>1, <1>2 DEF Claim
<1>4. OwnersTypeOK'
  <2>1. [claim[s] EXCEPT !.old = TRUE] \in Claim
    BY <1>2 DEF Claim
  <2>2. claim' \in [Skus -> Claim]
    BY <1>1, <1>2, <2>1
  <2>3. unruly' \subseteq Products
    BY <1>1, OwnersInvNow DEF OwnersTypeOK
  <2> QED BY <1>1, <2>2, <2>3, OwnersInvNow DEF OwnersTypeOK
<1>5. \A t \in Skus : claim'[t].live = claim[t].live /\ claim'[t].by = claim[t].by
  BY <1>3
<1>6. ASSUME NEW p \in Products PROVE ProductRight(p, productDoc'[p], claim', unruly')
  <2>1. ProductRight(p, productDoc[p], claim, unruly) /\ productDoc[p] \in Product
    BY OwnersInvNow DEF OwnersTypeOK
  <2>2. \A r \in productDoc[p].owed : r.from \in Skus
    BY <2>1, ProductFields, CarryFields
  <2>3. productDoc[p].sku # None => productDoc[p].sku \in Skus
    BY <2>1, ProductFields
  <2> QED BY <1>1, <1>5, <2>1, <2>2, <2>3 DEF ProductRight
<1>7. \A t \in Skus : claim'[t].live => claim'[t].by \in Products
  BY <1>5, OwnersInvNow
<1>8. ASSUME NEW d \in Calls
      PROVE /\ Fades(call[d], call'[d])
            /\ Spared(call[d], call'[d], productDoc, productDoc', claim, claim', unruly')
  <2>1. /\ call[d] \in Call /\ CallRight(call[d], productDoc, claim, unruly)
        /\ Fades(call[d], call[d])
        /\ Spared(call[d], call[d], productDoc, productDoc, claim, claim, unruly')
    BY <1>1, OwnersInvNow, SameSpared, SameFades DEF OwnersTypeOK
  <2>2. ASSUME call[d].at # "idle", call[d].fresh, About(call[d]) # None
        PROVE Ages(call[d], claim[About(call[d])], claim'[About(call[d])], unruly')
    <3>1. About(call[d]) \in Skus /\ On(d) = About(call[d])
      BY <2>2, ThisCall
    <3> QED BY <1>1, <1>3, <2>2, <3>1 DEF Ages
  <2>3. ASSUME call[d].at = "commit", call[d].hold
        PROVE claim'[About(call[d])] = claim[About(call[d])]
    <3>1. About(call[d]) \in Skus /\ On(d) = About(call[d])
      BY <2>3, ThisCall DEF OnItsWay
    <3> QED BY <1>1, <1>3, <2>3, <3>1
  <2> QED BY <1>1, <2>1, <2>2, <2>3 DEF Spared
<1> QED BY <1>1, <1>4, <1>6, <1>7, <1>8, NoneMoves

-----------------------------------------------------------------------------
(* The head of an attempt, and the carries *)

LEMMA ReadStep == ASSUME OwnersInv, NEW c \in Calls, Read(c) PROVE OwnersInv'
<1> DEFINE x == call[c]
           p == P(c)
           d == productDoc[p]
<1>1. /\ x.at = "read" /\ UNCHANGED <<productDoc, claim, inventory, begun, unruly>>
  BY DEF Read
<1>2. /\ x \in Call /\ CallRight(x, productDoc, claim, unruly) /\ OnItsWay(x) /\ x.cmd \in Command
      /\ p \in Products /\ ReadsRight(x, d) /\ CarriesRight(x, d, unruly) /\ d \in Product
      /\ ProductRight(p, d, claim, unruly)
  BY <1>1, ThisCall
<1>3. inventory' \in [Skus -> {"absent", "empty", "units"}] /\ begun' \in 0..MaxBegun
  BY <1>1, OwnersInvNow DEF OwnersTypeOK
<1>4. CASE GiveUp(c)
  BY <1>1, <1>3, <1>4, GiveUpStep
<1>5. ASSUME ~Answered(c), ~GiveUp(c) PROVE OwnersInv'
  <2> DEFINE to == CASE Op(c) = "softDelete" -> "own"
                     [] Op(c) = "restore" -> IF d.sku = None THEN "commit" ELSE "claim"
                     [] OTHER -> "settle"
             n == [x EXCEPT !.doc = [d EXCEPT !.key = None], !.current = TRUE, !.todo = d.owed,
                            !.at = to]
  <2>1. call' = [call EXCEPT ![c] = n]
    BY <1>5 DEF Read
  <2>2. /\ to \in CallSteps
        /\ Op(c) = "softDelete" => to = "own"
        /\ Op(c) = "restore" => (d.sku = None /\ to = "commit") \/ (d.sku # None /\ to = "claim")
        /\ Op(c) \notin {"softDelete", "restore"} => to = "settle"
    BY DEF CallSteps
  <2> HIDE DEF to
  <2>3. /\ [d EXCEPT !.key = None] \in Product /\ d.owed \in SUBSET Carry
        /\ [d EXCEPT !.key = None].life = d.life /\ [d EXCEPT !.key = None].sku = d.sku
        /\ [d EXCEPT !.key = None].owed = d.owed
    BY <1>2, ProductFields
  <2>4. n \in Call
    BY <1>2, <2>2, <2>3, ZenonT(60) DEF Call, CallSteps
  <2>5. /\ n.doc = [d EXCEPT !.key = None] /\ n.current /\ n.todo = d.owed /\ n.at = to
        /\ n.cmd = x.cmd /\ n.hold = x.hold /\ n.done = x.done /\ n.claimed = x.claimed
        /\ n.met = x.met
        /\ n.fresh = x.fresh /\ n.ours = x.ours
    BY <1>2 DEF Call
  <2> HIDE DEF n
  <2>6. ~x.hold /\ ~x.done
    BY <1>1, <1>2 DEF OnItsWay
  <2>7. Op(c) = x.cmd.op /\ Want(c) = x.cmd.want /\ p = x.cmd.p
    BY DEF Op, Want, P
  <2>8. /\ Op(c) = "restore" => d.life = "deleted"
        /\ Op(c) = "edit" => d.life = "live"
    BY <1>5 DEF Answered
  <2>9. x.cmd.op \in {"upsert", "edit", "softDelete", "restore", "sweep"}
    BY <1>2, CommandFields
  <2> HIDE DEF x, p, d
  <2>10. Saves(n) = Saves(x) /\ Writes(n) = Writes(x) /\ (Saves(x) => to = "settle")
    BY <2>2, <2>5, <2>7 DEF Saves, Writes
  <2>11. OnItsWay(n)
    <3>1. to \in Claiming => About(n) # None
      BY <2>2, <2>3, <2>5, <2>7, <2>9 DEF About, Claiming
    <3>2. to \in {"own", "commit", "claim", "settle"}
      BY <2>2, <2>7, <2>9
    <3>3. x.cmd.op = "softDelete" <=> to = "own"
      BY <2>2, <2>7, <2>9
    <3>4. to \in {"commit", "claim"} <=> x.cmd.op = "restore"
      BY <2>2, <2>7, <2>9
    <3> QED BY <1>2, <2>5, <2>6, <2>9, <2>10, <3>1, <3>2, <3>3, <3>4 DEF OnItsWay, Claiming, Saves
  <2>12. ReadsRight(n, d)
    <3>1. Saves(n) => n.at = "settle"
      BY <2>5, <2>10
    <3>2. n.at \notin {"drop", "free"}
      BY <2>2, <2>5, <2>7, <2>9
    <3> QED BY <2>3, <2>5, <2>7, <2>8, <3>1, <3>2 DEF ReadsRight, Claiming
  <2>13. CarriesRight(n, d, unruly)
    <3>1. n.at \notin {"drop", "free"}
      BY <2>2, <2>5, <2>7, <2>9
    <3> QED BY <1>2, <2>5, <2>10, <3>1 DEF CarriesRight
  <2>14. ClaimRight(n, productDoc, claim[About(n)], unruly)
    <3>1. n.at \in {"own", "commit", "claim", "settle"}
      BY <2>2, <2>5, <2>7, <2>9
    <3> QED BY <2>5, <2>6, <3>1 DEF ClaimRight
  <2>15. CallRight(n, productDoc, claim, unruly)
    BY <2>5, <2>7, <2>11, <2>12, <2>13, <2>14 DEF CallRight, d
  <2>16. Quiet(n, x)
    <3>1. n.at # "unclaim"
      BY <2>2, <2>5, <2>7, <2>9
    <3> QED BY <2>5, <2>6, <2>10, <3>1 DEF Quiet, Follows
  <2> QED BY <1>1, <1>3, <2>1, <2>4, <2>15, <2>16, LocalStep DEF x
<1> QED BY <1>4, <1>5 DEF Read

LEMMA SettleCarriesStep == ASSUME OwnersInv, NEW c \in Calls, SettleCarries(c) PROVE OwnersInv'
<1> DEFINE x == call[c]
           d == productDoc[P(c)]
<1>1. x.at = "settle" /\ UNCHANGED <<productDoc, claim, begun, unruly>>
  BY DEF SettleCarries
<1>2. /\ x \in Call /\ CallRight(x, productDoc, claim, unruly) /\ OnItsWay(x) /\ x.cmd \in Command
      /\ ReadsRight(x, d) /\ CarriesRight(x, d, unruly)
  BY <1>1, ThisCall
<1>3. begun' \in 0..MaxBegun /\ inventory \in [Skus -> {"absent", "empty", "units"}]
  BY <1>1, OwnersInvNow DEF OwnersTypeOK
<1>4. /\ Op(c) = x.cmd.op /\ Want(c) = x.cmd.want /\ P(c) = x.cmd.p
      /\ call \in [Calls -> Call]
  BY OwnersInvNow DEF Op, Want, P, OwnersTypeOK
<1>5. /\ x.cmd.op \in {"upsert", "edit", "sweep"} /\ ~x.hold /\ Writes(x)
      /\ x.todo \in SUBSET Carry
  BY <1>1, <1>2, CallFields DEF OnItsWay, Writes
<1>6. ASSUME NEW r \in x.todo, UNCHANGED inventory,
             call' = [call EXCEPT ![c].todo = @ \ {r}, ![c].blocked = TRUE]
      PROVE OwnersInv'
  <2> DEFINE n == [x EXCEPT !.todo = x.todo \ {r}, !.blocked = TRUE]
  <2>1. call' = [call EXCEPT ![c] = n]
    BY <1>4, <1>6
  <2>2. n \in Call
    BY <1>2, <1>5, ZenonT(60) DEF Call
  <2>3. /\ n.todo = x.todo \ {r} /\ n.blocked /\ n.at = x.at /\ n.cmd = x.cmd /\ n.doc = x.doc
        /\ n.current = x.current /\ n.hold = x.hold /\ n.done = x.done /\ n.claimed = x.claimed
        /\ n.met = x.met
        /\ n.fresh = x.fresh /\ n.ours = x.ours /\ n.carry = x.carry
    BY <1>2 DEF Call
  <2> HIDE DEF n
  <2>4. Saves(n) = Saves(x) /\ Writes(n) = Writes(x) /\ About(n) = About(x)
    BY <2>3 DEF Saves, Writes, About
  <2> HIDE DEF x, d
  <2>5. OnItsWay(n)
    BY <1>1, <1>2, <1>5, <2>3, <2>4 DEF OnItsWay, Claiming
  <2>6. ReadsRight(n, d)
    BY <1>1, <1>2, <2>3, <2>4 DEF ReadsRight, Claiming
  <2>7. CarriesRight(n, d, unruly)
    BY <1>1, <1>2, <2>3, <2>4 DEF CarriesRight
  <2>8. ClaimRight(n, productDoc, claim[About(n)], unruly)
    BY <1>1, <1>5, <2>3 DEF ClaimRight
  <2>9. CallRight(n, productDoc, claim, unruly)
    BY <1>4, <2>3, <2>5, <2>6, <2>7, <2>8 DEF CallRight, d
  <2>10. Quiet(n, x)
    BY <1>1, <2>3, <2>4 DEF Quiet, Follows
  <2> QED BY <1>1, <1>3, <1>6, <2>1, <2>2, <2>9, <2>10, LocalStep DEF x
<1>7. ASSUME NEW r \in x.todo,
             inventory' = IF inventory[r.from] = "units"
                          THEN [inventory EXCEPT ![r.from] = "empty", ![r.to] = "units"]
                          ELSE inventory,
             call' = [call EXCEPT ![c].carry = r, ![c].todo = @ \ {r}, ![c].at = "drop"]
      PROVE OwnersInv'
  <2> DEFINE n == [x EXCEPT !.carry = r, !.todo = x.todo \ {r}, !.at = "drop"]
  <2>1. call' = [call EXCEPT ![c] = n]
    BY <1>4, <1>7
  <2>2. n \in Call
    BY <1>2, <1>5, ZenonT(60) DEF Call
  <2>3. /\ n.todo = x.todo \ {r} /\ n.carry = r /\ n.at = "drop" /\ n.cmd = x.cmd
        /\ n.doc = x.doc /\ n.current = x.current /\ n.hold = x.hold /\ n.done = x.done
        /\ n.claimed = x.claimed /\ n.met = x.met /\ n.fresh = x.fresh /\ n.ours = x.ours
    BY <1>2 DEF Call
  <2> HIDE DEF n
  <2>4. Saves(n) = Saves(x) /\ Writes(n) = Writes(x) /\ About(n) = About(x)
    BY <2>3 DEF Saves, Writes, About
  <2>5. inventory' \in [Skus -> {"absent", "empty", "units"}]
    BY <1>3, <1>7
  <2> HIDE DEF x, d
  <2>6. OnItsWay(n)
    <3>1. r \in Carry
      BY <1>5
    <3> QED BY <1>1, <1>2, <1>5, <2>3, <2>4, <3>1 DEF OnItsWay, Claiming
  <2>7. ReadsRight(n, d)
    BY <1>1, <1>2, <2>3, <2>4 DEF ReadsRight, Claiming
  <2>8. CarriesRight(n, d, unruly)
    BY <1>1, <1>2, <1>5, <2>3, <2>4 DEF CarriesRight
  <2>9. ClaimRight(n, productDoc, claim[About(n)], unruly)
    BY <1>5, <2>3 DEF ClaimRight
  <2>10. CallRight(n, productDoc, claim, unruly)
    BY <1>4, <2>3, <2>6, <2>7, <2>8, <2>9 DEF CallRight, d
  <2>11. Quiet(n, x)
    BY <2>3, <2>4 DEF Quiet, Follows
  <2> QED BY <1>1, <1>3, <2>1, <2>2, <2>5, <2>10, <2>11, LocalStep DEF x
<1>8. ASSUME x.todo = {}, UNCHANGED inventory, ~x.done, Op(c) # "sweep", ~RefuseWhileOwed(c),
             NEW a, a = IF Want(c) = None THEN "commit" ELSE "claim", StepTo(c, a)
      PROVE OwnersInv'
  <2> DEFINE n == [x EXCEPT !.at = a]
  <2>1. call' = [call EXCEPT ![c] = n] /\ a \in CallSteps
    BY <1>4, <1>8 DEF StepTo, CallSteps
  <2>2. n \in Call
    BY <1>2, <2>1, ZenonT(60) DEF Call, CallSteps
  <2>3. /\ n.at = a /\ n.cmd = x.cmd /\ n.todo = x.todo /\ n.blocked = x.blocked
        /\ n.doc = x.doc /\ n.current = x.current /\ n.hold = x.hold /\ n.done = x.done
        /\ n.claimed = x.claimed /\ n.met = x.met /\ n.fresh = x.fresh /\ n.ours = x.ours
    BY <1>2 DEF Call
  <2>4. x.blocked => x.cmd.want \in {None, x.doc.sku}
    BY <1>4, <1>8 DEF RefuseWhileOwed
  <2> HIDE DEF n
  <2>5. Saves(n) /\ Saves(x) /\ Writes(n) = Writes(x) /\ About(n) = x.cmd.want
    BY <1>4, <1>5, <1>8, <2>3 DEF Saves, Writes, About
  <2> HIDE DEF x, d
  <2>6. OnItsWay(n)
    BY <1>2, <1>4, <1>5, <1>8, <2>3, <2>5 DEF OnItsWay, Claiming
  <2>7. ReadsRight(n, d)
    <3>1. x.current => x.cmd.want \in {None, x.doc.sku} \/ x.doc.owed = {}
      BY <1>1, <1>2, <1>8, <2>4 DEF ReadsRight
    <3> QED BY <1>2, <1>5, <1>8, <2>3, <3>1 DEF ReadsRight, Claiming
  <2>8. CarriesRight(n, d, unruly)
    BY <1>2, <1>8, <2>3, <2>5 DEF CarriesRight
  <2>9. ClaimRight(n, productDoc, claim[About(n)], unruly)
    BY <1>5, <1>8, <2>3 DEF ClaimRight
  <2>10. CallRight(n, productDoc, claim, unruly)
    BY <1>4, <2>3, <2>6, <2>7, <2>8, <2>9 DEF CallRight, d
  <2>11. Quiet(n, x)
    BY <1>5, <1>8, <2>3, <2>5 DEF Quiet, Follows
  <2> QED BY <1>1, <1>3, <1>8, <2>1, <2>2, <2>10, <2>11, LocalStep DEF x
<1>9. ASSUME UNCHANGED inventory, Leave(c) PROVE OwnersInv'
  BY <1>1, <1>3, <1>9, LeaveStep
<1>10. ASSUME UNCHANGED inventory, GiveUp(c) PROVE OwnersInv'
  BY <1>1, <1>3, <1>10, GiveUpStep
<1>11. \/ \E r \in x.todo :
            \/ /\ call' = [call EXCEPT ![c].todo = @ \ {r}, ![c].blocked = TRUE]
               /\ UNCHANGED inventory
            \/ /\ inventory' = IF inventory[r.from] = "units"
                               THEN [inventory EXCEPT ![r.from] = "empty", ![r.to] = "units"]
                               ELSE inventory
               /\ call' = [call EXCEPT ![c].carry = r, ![c].todo = @ \ {r}, ![c].at = "drop"]
       \/ UNCHANGED inventory /\ Leave(c)
       \/ UNCHANGED inventory /\ GiveUp(c)
       \/ /\ x.todo = {} /\ UNCHANGED inventory /\ ~x.done /\ Op(c) # "sweep" /\ ~RefuseWhileOwed(c)
          /\ StepTo(c, IF Want(c) = None THEN "commit" ELSE "claim")
  BY DEF SettleCarries, Decide
<1> QED BY <1>6, <1>7, <1>8, <1>9, <1>10, <1>11

-----------------------------------------------------------------------------
(* #claimSku *)

\* A step of #claimSku, or from it to the commit: what was read of the product stands.
LEMMA ClaimingMove ==
  ASSUME NEW x \in Call, NEW n \in Call, NEW docs, NEW claims, NEW next, NEW odd,
         CallRight(x, docs, claims, odd), x.at \in Claiming, n.at \in Claiming \cup {"commit"},
         n.cmd = x.cmd, n.doc = x.doc, n.current = x.current, n.todo = x.todo, n.done = x.done,
         n.met = x.met, n.hold => n.at = "commit",
         Saves(n) /\ n.at = "commit" => n.hold,
         n.claimed => x.claimed \/ x.cmd.p \in odd \/ LeftBy(docs, x.cmd.p, About(x)),
         n.at \in {"judge", "age", "withdraw", "take"} => ~n.ours,
         n.at # "commit" \/ n.hold => ClaimRight(n, docs, next[About(n)], odd)
  PROVE /\ CallRight(n, docs, next, odd)
        /\ Writes(n) = Writes(x)
        /\ ~n.hold => Quiet(n, x)
<1>1. /\ OnItsWay(x) /\ ReadsRight(x, docs[x.cmd.p]) /\ CarriesRight(x, docs[x.cmd.p], odd)
      /\ About(x) # None /\ x.cmd.op \in {"upsert", "edit", "restore"} /\ x.cmd \in Command
  BY DEF CallRight, OnItsWay, Claiming
<1>2. Saves(n) = Saves(x) /\ Writes(n) = Writes(x) /\ About(n) = About(x)
  BY DEF Saves, Writes, About
<1>3. n.at \notin {"idle", "read", "own", "bury", "unclaim", "settle", "drop", "free", "undo"}
      /\ x.at \notin {"idle", "read", "own", "bury", "unclaim", "settle", "drop", "free", "undo"}
      /\ x.at # "commit"
  BY DEF Claiming
<1>4. ~x.done /\ ~n.done
  BY <1>1, <1>3 DEF OnItsWay
<1>5. OnItsWay(n)
  <2>1. Saves(x) => x.cmd.want # None
    BY <1>1 DEF Saves, About
  <2> QED BY <1>1, <1>2, <1>3, <1>4, <2>1 DEF OnItsWay
<1>6. ReadsRight(n, docs[n.cmd.p])
  BY <1>1, <1>2, <1>3, <1>4 DEF ReadsRight
<1>7. CarriesRight(n, docs[n.cmd.p], odd)
  <2>1. Saves(x) => About(x) = x.cmd.want
    BY DEF Saves, About
  <2> QED BY <1>1, <1>2, <1>3, <2>1 DEF CarriesRight, LeftBy
<1>8. ClaimRight(n, docs, next[About(n)], odd)
  BY <1>3 DEF ClaimRight
<1>9. ~n.hold => Quiet(n, x)
  BY <1>2, <1>3 DEF Quiet, Follows
<1> QED BY <1>2, <1>5, <1>6, <1>7, <1>8, <1>9 DEF CallRight

\* A call within #claimSku.
LEMMA ClaimingCall ==
  ASSUME OwnersInv, NEW c \in Calls, call[c].at \in Claiming
  PROVE /\ call[c] \in Call /\ CallRight(call[c], productDoc, claim, unruly) /\ OnItsWay(call[c])
        /\ call[c].at # "idle" /\ ~call[c].hold /\ ~call[c].done
        /\ call[c].cmd \in Command /\ P(c) \in Products
        /\ ReadsRight(call[c], productDoc[P(c)])
        /\ CarriesRight(call[c], productDoc[P(c)], unruly)
        /\ productDoc[P(c)] \in Product
        /\ On(c) = About(call[c]) /\ On(c) # None /\ On(c) \in Skus
        /\ ClaimRight(call[c], productDoc, claim[On(c)], unruly) /\ claim[On(c)] \in Claim
        /\ P(c) = call[c].cmd.p /\ Op(c) = call[c].cmd.op /\ Want(c) = call[c].cmd.want
        /\ Op(c) \in {"upsert", "edit", "restore"}
<1>1. call[c].at # "idle"
  BY DEF Claiming
<1>2. /\ call[c] \in Call /\ CallRight(call[c], productDoc, claim, unruly) /\ OnItsWay(call[c])
      /\ call[c].cmd \in Command /\ P(c) \in Products
      /\ ReadsRight(call[c], productDoc[P(c)]) /\ CarriesRight(call[c], productDoc[P(c)], unruly)
      /\ productDoc[P(c)] \in Product
      /\ On(c) = About(call[c])
      /\ On(c) # None =>
           On(c) \in Skus /\ ClaimRight(call[c], productDoc, claim[On(c)], unruly)
  BY <1>1, ThisCall
<1>3. /\ ~call[c].hold /\ ~call[c].done /\ On(c) # None
      /\ call[c].cmd.op \in {"upsert", "edit", "restore"}
  BY <1>2 DEF OnItsWay, Claiming
<1>4. claim[On(c)] \in Claim
  BY <1>2, <1>3, OwnersInvNow DEF OwnersTypeOK
<1> QED BY <1>1, <1>2, <1>3, <1>4 DEF P, Op, Want

LEMMA ClaimingStepTo ==
  ASSUME OwnersInv, NEW c \in Calls, NEW a, StepTo(c, a), call[c].at \in Claiming,
         a \in Claiming \cup {"commit"}, a = "commit" => ~Saves(call[c]),
         a \in {"judge", "age", "withdraw", "take"} => ~call[c].ours,
         a # "commit" => ClaimRight([call[c] EXCEPT !.at = a], productDoc, claim[On(c)], unruly),
         UNCHANGED <<productDoc, claim, begun, unruly>>,
         inventory' \in [Skus -> {"absent", "empty", "units"}]
  PROVE OwnersInv'
<1> DEFINE x == call[c]
           n == [x EXCEPT !.at = a]
<1>1. /\ x \in Call /\ CallRight(x, productDoc, claim, unruly) /\ ~x.hold /\ On(c) = About(x)
  BY ClaimingCall
<1>2. call' = [call EXCEPT ![c] = n] /\ begun' \in 0..MaxBegun
  BY OwnersInvNow DEF StepTo, OwnersTypeOK
<1>3. a \in CallSteps
  BY DEF Claiming, CallSteps
<1>4. n \in Call
  BY <1>1, <1>3, ZenonT(60) DEF Call, CallSteps
<1>5. /\ n.at = a /\ n.cmd = x.cmd /\ n.doc = x.doc /\ n.current = x.current /\ n.todo = x.todo
      /\ n.done = x.done /\ n.hold = x.hold /\ n.claimed = x.claimed /\ n.met = x.met
      /\ n.ours = x.ours
  BY <1>1 DEF Call
<1>6. a # "commit" => ClaimRight(n, productDoc, claim[About(x)], unruly)
  BY <1>1
<1> HIDE DEF n
<1>7. About(n) = About(x) /\ Saves(n) = Saves(x)
  BY <1>5 DEF About, Saves
<1>8. CallRight(n, productDoc, claim, unruly) /\ Quiet(n, x)
  <2>1. /\ n.hold => n.at = "commit"
        /\ Saves(n) /\ n.at = "commit" => n.hold
        /\ n.at # "commit" \/ n.hold => ClaimRight(n, productDoc, claim[About(n)], unruly)
    BY <1>1, <1>5, <1>6, <1>7
  <2> QED BY <1>1, <1>4, <1>5, <2>1, ClaimingMove
<1> QED BY <1>2, <1>4, <1>8, LocalStep

LEMMA RefuseStep ==
  ASSUME OwnersInv, NEW c \in Calls, Refuse(c), call[c].at \in Claiming,
         UNCHANGED <<productDoc, claim, begun, unruly>>,
         inventory' \in [Skus -> {"absent", "empty", "units"}]
  PROVE OwnersInv'
<1>1. CASE Op(c) = "restore"
  BY <1>1, ClaimingStepTo DEF Refuse, Op, Saves, Claiming
<1>2. CASE Op(c) # "restore"
  BY <1>2, GiveUpStep DEF Refuse, Claiming
<1> QED BY <1>1, <1>2

LEMMA ReadClaimStep == ASSUME OwnersInv, NEW c \in Calls, ReadClaim(c) PROVE OwnersInv'
<1> DEFINE x == call[c]
           s == On(c)
           others == claim[s].live /\ claim[s].by # P(c)
           a == IF others THEN "judge" ELSE "look"
           o == Owns(P(c), s)
           n == [x EXCEPT !.saw = claim[s], !.fresh = TRUE, !.ours = o, !.at = a]
<1>1. /\ x.at = "claim" /\ x.at \in Claiming
      /\ UNCHANGED <<productDoc, claim, inventory, begun, unruly>>
  BY DEF ReadClaim, Claiming
<1>2. /\ x \in Call /\ CallRight(x, productDoc, claim, unruly) /\ ~x.hold /\ s = About(x)
      /\ claim[s] \in Claim /\ P(c) = x.cmd.p
  BY <1>1, ClaimingCall
<1>3. call' = [call EXCEPT ![c] = n]
  BY DEF ReadClaim
<1>4. begun' \in 0..MaxBegun /\ inventory' \in [Skus -> {"absent", "empty", "units"}]
  BY <1>1, OwnersInvNow DEF OwnersTypeOK
<1>5. /\ a \in CallSteps /\ a \in {"judge", "look"} /\ o \in BOOLEAN
      /\ a = "judge" => claim[s].live /\ claim[s].by # x.cmd.p /\ ~o
      /\ a = "look" => (claim[s].live => claim[s].by = x.cmd.p)
      /\ o <=> claim[s].live /\ claim[s].by = x.cmd.p
  BY <1>2, ClaimFields DEF Owns, CallSteps
<1> HIDE DEF a, o
<1>6. n \in Call
  BY <1>2, <1>5, ZenonT(60) DEF Call, CallSteps
<1>7. /\ n.at = a /\ n.cmd = x.cmd /\ n.doc = x.doc /\ n.current = x.current /\ n.todo = x.todo
      /\ n.done = x.done /\ n.hold = x.hold /\ n.claimed = x.claimed /\ n.met = x.met
      /\ n.ours = o
      /\ n.saw = claim[s]
  BY <1>2 DEF Call
<1> HIDE DEF n
<1>8. About(n) = About(x)
  BY <1>7 DEF About
<1>9. ClaimRight(n, productDoc, claim[About(n)], unruly)
  BY <1>2, <1>5, <1>7, <1>8 DEF ClaimRight
<1>10. CallRight(n, productDoc, claim, unruly) /\ Quiet(n, x)
  <2>1. n.at \in Claiming /\ n.at # "commit"
        /\ (n.at \in {"judge", "age", "withdraw", "take"} => ~n.ours)
    BY <1>5, <1>7 DEF Claiming
  <2> QED BY <1>1, <1>2, <1>6, <1>7, <1>9, <2>1, ClaimingMove
<1> QED BY <1>1, <1>3, <1>4, <1>6, <1>10, LocalStep

LEMMA JudgeStep == ASSUME OwnersInv, NEW c \in Calls, Judge(c) PROVE OwnersInv'
<1> DEFINE x == call[c]
           s == On(c)
           o == x.saw.by
           n == [x EXCEPT !.at = "age"]
<1>1. /\ x.at = "judge" /\ x.at \in Claiming
      /\ UNCHANGED <<productDoc, claim, inventory, begun, unruly>>
  BY DEF Judge, Claiming
<1>2. inventory' \in [Skus -> {"absent", "empty", "units"}]
  BY <1>1, OwnersInvNow DEF OwnersTypeOK
<1>3. CASE Backed(o, s) \/ Owes(o, s)
  BY <1>1, <1>2, <1>3, RefuseStep DEF Judge
<1>4. CASE ~(Backed(o, s) \/ Owes(o, s))
  <2>1. StepTo(c, "age")
    BY <1>4 DEF Judge
  <2>2. /\ x \in Call /\ OnItsWay(x) /\ s = About(x)
        /\ ClaimRight(x, productDoc, claim[s], unruly)
    BY <1>1, ClaimingCall
  <2>3. LeftBy(productDoc, o, s)
    BY <1>4 DEF LeftBy, Backed, Owes
  <2>4. n.at = "age" /\ n.fresh = x.fresh /\ n.saw = x.saw /\ n.cmd = x.cmd /\ n.doc = x.doc
    BY <2>2 DEF Call
  <2> HIDE DEF n
  <2>5. About(n) = s
    BY <2>2, <2>4 DEF About
  <2>6. ~x.ours
    BY <1>1, <2>2 DEF OnItsWay
  <2>7. ClaimRight(n, productDoc, claim[s], unruly)
    BY <1>1, <2>2, <2>3, <2>4, <2>5 DEF ClaimRight
  <2>8. ClaimRight([call[c] EXCEPT !.at = "age"], productDoc, claim[On(c)], unruly)
    BY <2>7 DEF n
  <2> QED BY <1>1, <1>2, <2>1, <2>6, <2>8, ClaimingStepTo DEF Claiming
<1> QED BY <1>3, <1>4

LEMMA AgeStep == ASSUME OwnersInv, NEW c \in Calls, Age(c) PROVE OwnersInv'
<1> DEFINE x == call[c]
           s == On(c)
           a == IF x.saw.creates THEN "withdraw" ELSE "look"
           n == [x EXCEPT !.at = a]
<1>1. /\ x.at = "age" /\ x.at \in Claiming
      /\ UNCHANGED <<productDoc, claim, inventory, begun, unruly>>
  BY DEF Age, Claiming
<1>2. inventory' \in [Skus -> {"absent", "empty", "units"}]
  BY <1>1, OwnersInvNow DEF OwnersTypeOK
<1>3. CASE Refuse(c)
  BY <1>1, <1>2, <1>3, RefuseStep
<1>4. CASE ~Refuse(c)
  <2>1. StepTo(c, a) /\ (x.fresh => claim[s].old)
    BY <1>4 DEF Age
  <2>2. /\ x \in Call /\ OnItsWay(x) /\ s = About(x)
        /\ ClaimRight(x, productDoc, claim[s], unruly)
    BY <1>1, ClaimingCall
  <2>3. a \in {"withdraw", "look"}
    OBVIOUS
  <2> HIDE DEF a
  <2>4. n.at = a /\ n.fresh = x.fresh /\ n.cmd = x.cmd /\ n.doc = x.doc /\ n.ours = x.ours
    BY <2>2 DEF Call
  <2> HIDE DEF n
  <2>5. About(n) = s
    BY <2>2, <2>4 DEF About
  <2>6. ~x.ours
    BY <1>1, <2>2 DEF OnItsWay
  <2>7. ClaimRight(n, productDoc, claim[s], unruly)
    BY <1>1, <2>1, <2>2, <2>3, <2>4, <2>5, <2>6 DEF ClaimRight
  <2>8. ClaimRight([call[c] EXCEPT !.at = a], productDoc, claim[On(c)], unruly)
    BY <2>7 DEF n
  <2> QED BY <1>1, <1>2, <2>1, <2>3, <2>6, <2>8, ClaimingStepTo DEF Claiming
<1> QED BY <1>3, <1>4

LEMMA WithdrawType ==
  ASSUME OwnersInv, NEW s, Withdraw(s) PROVE inventory' \in [Skus -> {"absent", "empty", "units"}]
BY OwnersInvNow DEF Withdraw, OwnersTypeOK

LEMMA WithdrawResidueStep == ASSUME OwnersInv, NEW c \in Calls, WithdrawResidue(c) PROVE OwnersInv'
<1> DEFINE x == call[c]
           s == On(c)
           n == [x EXCEPT !.at = "look"]
<1>1. x.at = "withdraw" /\ x.at \in Claiming /\ UNCHANGED <<productDoc, claim, begun, unruly>>
      /\ StepTo(c, "look")
  BY DEF WithdrawResidue, Claiming
<1>2. inventory' \in [Skus -> {"absent", "empty", "units"}]
  BY WithdrawType DEF WithdrawResidue
<1>3. /\ x \in Call /\ OnItsWay(x) /\ s = About(x) /\ ClaimRight(x, productDoc, claim[s], unruly)
  BY <1>1, ClaimingCall
<1>4. /\ n.at = "look" /\ n.fresh = x.fresh /\ n.cmd = x.cmd /\ n.doc = x.doc
      /\ n.ours = x.ours
  BY <1>3 DEF Call
<1> HIDE DEF n
<1>5. About(n) = s
  BY <1>3, <1>4 DEF About
<1>6. ~x.ours
  BY <1>1, <1>3 DEF OnItsWay
<1>7. ClaimRight(n, productDoc, claim[s], unruly)
  BY <1>1, <1>3, <1>4, <1>5, <1>6 DEF ClaimRight
<1>8. ClaimRight([call[c] EXCEPT !.at = "look"], productDoc, claim[On(c)], unruly)
  BY <1>7 DEF n
<1> QED BY <1>1, <1>2, <1>8, ClaimingStepTo DEF Claiming

LEMMA LookStep == ASSUME OwnersInv, NEW c \in Calls, Look(c) PROVE OwnersInv'
<1> DEFINE x == call[c]
           s == On(c)
           there == Renames(c) /\ inventory[s] # "absent"
           b == there /\ ~x.ours
           m == Renames(c) /\ ~there
           a == IF x.ours THEN "prepare" ELSE "take"
           n == [x EXCEPT !.saw = NoClaim, !.occupied = b, !.creates = m, !.at = a]
<1>1. /\ x.at = "look" /\ x.at \in Claiming
      /\ UNCHANGED <<productDoc, claim, inventory, begun, unruly>>
      /\ call' = [call EXCEPT ![c] = n]
  BY DEF Look, Claiming
<1>2. /\ x \in Call /\ CallRight(x, productDoc, claim, unruly) /\ ~x.hold /\ s = About(x)
      /\ ClaimRight(x, productDoc, claim[s], unruly)
  BY <1>1, ClaimingCall
<1>3. begun' \in 0..MaxBegun /\ inventory' \in [Skus -> {"absent", "empty", "units"}]
  BY <1>1, OwnersInvNow DEF OwnersTypeOK
<1>4. b \in BOOLEAN /\ m \in BOOLEAN
  BY <1>2, CallFields DEF Renames
<1>5. a \in CallSteps /\ a \in {"prepare", "take"} /\ (a = "prepare" <=> x.ours)
  BY DEF CallSteps
<1> HIDE DEF a, b, m
<1>6. n \in Call
  BY <1>2, <1>4, <1>5, NoCallFields, ZenonT(60) DEF Call, CallSteps
<1>7. /\ n.at = a /\ n.cmd = x.cmd /\ n.doc = x.doc /\ n.current = x.current /\ n.todo = x.todo
      /\ n.done = x.done /\ n.hold = x.hold /\ n.claimed = x.claimed /\ n.met = x.met
      /\ n.ours = x.ours
      /\ n.fresh = x.fresh
  BY <1>2 DEF Call
<1> HIDE DEF n
<1>8. About(n) = About(x)
  BY <1>7 DEF About
<1>9. ClaimRight(n, productDoc, claim[About(n)], unruly)
  BY <1>1, <1>2, <1>5, <1>7, <1>8 DEF ClaimRight
<1>10. CallRight(n, productDoc, claim, unruly) /\ Quiet(n, x)
  <2>1. n.at \in Claiming /\ n.at # "commit"
        /\ (n.at \in {"judge", "age", "withdraw", "take"} => ~n.ours)
    BY <1>5, <1>7 DEF Claiming
  <2> QED BY <1>1, <1>2, <1>6, <1>7, <1>9, <2>1, ClaimingMove
<1> QED BY <1>1, <1>3, <1>6, <1>10, LocalStep

LEMMA PrepareStep == ASSUME OwnersInv, NEW c \in Calls, Prepare(c) PROVE OwnersInv'
<1> DEFINE x == call[c]
           s == On(c)
<1>1. x.at = "prepare" /\ x.at \in Claiming /\ UNCHANGED <<productDoc, claim, begun, unruly>>
  BY DEF Prepare, Claiming
<1>2. /\ x \in Call /\ CallRight(x, productDoc, claim, unruly) /\ ~x.hold /\ s = About(x)
      /\ ClaimRight(x, productDoc, claim[s], unruly)
  BY <1>1, ClaimingCall
<1>3. begun' \in 0..MaxBegun /\ inventory \in [Skus -> {"absent", "empty", "units"}]
      /\ call \in [Calls -> Call]
  BY <1>1, OwnersInvNow DEF OwnersTypeOK
<1>4. ASSUME StepTo(c, "beat"), UNCHANGED inventory PROVE OwnersInv'
  <2> DEFINE n == [x EXCEPT !.at = "beat"]
  <2>1. /\ n.at = "beat" /\ n.fresh = x.fresh /\ n.cmd = x.cmd /\ n.doc = x.doc
    BY <1>2 DEF Call
  <2> HIDE DEF n
  <2>2. About(n) = s
    BY <1>2, <2>1 DEF About
  <2>3. ClaimRight(n, productDoc, claim[s], unruly)
    BY <1>1, <1>2, <2>1, <2>2 DEF ClaimRight
  <2>4. ClaimRight([call[c] EXCEPT !.at = "beat"], productDoc, claim[On(c)], unruly)
    BY <2>3 DEF n
  <2> QED BY <1>1, <1>3, <1>4, <2>4, ClaimingStepTo DEF Claiming
<1>5. ASSUME inventory[Want(c)] = "absent", inventory' = [inventory EXCEPT ![Want(c)] = "empty"],
             call' = [call EXCEPT ![c].made = TRUE, ![c].at = "beat"]
      PROVE OwnersInv'
  <2> DEFINE n == [x EXCEPT !.made = TRUE, !.at = "beat"]
  <2>1. call' = [call EXCEPT ![c] = n] /\ inventory' \in [Skus -> {"absent", "empty", "units"}]
    BY <1>3, <1>5
  <2>2. n \in Call
    BY <1>2, ZenonT(60) DEF Call
  <2>3. /\ n.at = "beat" /\ n.cmd = x.cmd /\ n.doc = x.doc /\ n.current = x.current
        /\ n.todo = x.todo /\ n.done = x.done /\ n.hold = x.hold /\ n.claimed = x.claimed
        /\ n.met = x.met
        /\ n.ours = x.ours /\ n.fresh = x.fresh
    BY <1>2 DEF Call
  <2> HIDE DEF n
  <2>4. About(n) = About(x)
    BY <2>3 DEF About
  <2>5. ClaimRight(n, productDoc, claim[About(n)], unruly)
    BY <1>1, <1>2, <2>3, <2>4 DEF ClaimRight
  <2>6. CallRight(n, productDoc, claim, unruly) /\ Quiet(n, x)
    <3>1. n.at \in Claiming /\ n.at # "commit"
          /\ (n.at \in {"judge", "age", "withdraw", "take"} => ~n.ours)
      BY <2>3 DEF Claiming
    <3> QED BY <1>1, <1>2, <2>2, <2>3, <2>5, <3>1, ClaimingMove
  <2> QED BY <1>1, <1>3, <2>1, <2>2, <2>6, LocalStep
<1>6. ASSUME GiveUp(c), UNCHANGED inventory PROVE OwnersInv'
  BY <1>1, <1>3, <1>6, GiveUpStep
<1>7. ASSUME Again(c, "read"), UNCHANGED inventory PROVE OwnersInv'
  BY <1>1, <1>3, <1>7, AgainStep
<1> QED BY <1>4, <1>5, <1>6, <1>7 DEF Prepare

-----------------------------------------------------------------------------
(* Writes of a claim *)

LEMMA NotOwner ==
  ASSUME OwnersInv, NEW p \in Products \ unruly, NEW s \in Skus,
         ~(claim[s].live /\ claim[s].by = p)
  PROVE LeftBy(productDoc, p, s)
<1>1. ProductRight(p, productDoc[p], claim, unruly)
  BY OwnersInvNow
<1> QED BY <1>1, NoneApart DEF ProductRight, LeftBy

\* A call about to commit on the claim of s.
LEMMA Committing ==
  ASSUME OwnersInv, unruly \subseteq unruly', NEW c, NEW d \in Calls, NEW s \in Skus,
         Commits(c, d, s)
  PROVE Writes(call[d]) /\ claim[s].live /\ claim[s].by = call[d].cmd.p /\ ~claim[s].old
<1>1. /\ OnItsWay(call[d]) /\ On(d) = s /\ call[d].cmd.p \notin unruly
      /\ call[d].at = "commit" /\ call[d].hold /\ call[d].current
      /\ ClaimRight(call[d], productDoc, claim[s], unruly)
  BY ThisCall, NoneApart DEF Commits
<1> QED BY <1>1 DEF OnItsWay, ClaimRight, Writes

LEMMA AfterClaim ==
  ASSUME OwnersInv, NEW s \in Skus
  PROVE /\ AfterClaimWrite(s) \in [Calls -> Call]
        /\ \A d \in Calls : AfterClaimWrite(s)[d] =
             IF About(call[d]) = s THEN [call[d] EXCEPT !.fresh = FALSE] ELSE call[d]
<1>1. \A d \in Calls : On(d) = About(call[d])
  BY DEF On, Op, Want, About
<1>2. \A d \in Calls : call[d] \in Call /\ [call[d] EXCEPT !.fresh = FALSE] \in Call
  <2> SUFFICES ASSUME NEW d \in Calls
               PROVE call[d] \in Call /\ [call[d] EXCEPT !.fresh = FALSE] \in Call
    OBVIOUS
  <2>1. call[d] \in Call
    BY OwnersInvNow DEF OwnersTypeOK
  <2> QED BY <2>1, NoCallIs, FadedCall
<1> QED BY <1>1, <1>2 DEF AfterClaimWrite

LEMMA TakeClaimStep == ASSUME OwnersInv, NEW c \in Calls, TakeClaim(c) PROVE OwnersInv'
<1> DEFINE x == call[c]
           s == On(c)
           p == P(c)
           k == Fresh(p, x.creates)
<1>1. /\ x.at = "take" /\ x.at \in Claiming
      /\ productDoc' = productDoc /\ inventory' = inventory /\ begun' = begun
      /\ unruly' = unruly
  BY DEF TakeClaim, Claiming
<1>2. /\ x \in Call /\ CallRight(x, productDoc, claim, unruly) /\ OnItsWay(x) /\ ~x.hold
      /\ s = About(x)
      /\ s \in Skus /\ p \in Products /\ ClaimRight(x, productDoc, claim[s], unruly)
      /\ p = x.cmd.p
      /\ claim \in [Skus -> Claim] /\ call \in [Calls -> Call]
  BY <1>1, ClaimingCall, OwnersInvNow DEF OwnersTypeOK
<1>3. begun' \in 0..MaxBegun /\ inventory' \in [Skus -> {"absent", "empty", "units"}]
      /\ unruly' \subseteq Products
  BY <1>1, OwnersInvNow DEF OwnersTypeOK
<1>4. ASSUME ~x.fresh, StepTo(c, "claim"), UNCHANGED claim PROVE OwnersInv'
  <2> DEFINE n == [x EXCEPT !.at = "claim"]
  <2>1. n.at = "claim"
    BY <1>2 DEF Call
  <2>2. ClaimRight(n, productDoc, claim[On(c)], unruly)
    BY <1>2, <1>4, <2>1 DEF ClaimRight, Call
  <2> QED BY <1>1, <1>3, <1>4, <2>2, ClaimingStepTo DEF Claiming
<1>5. ASSUME x.fresh, claim' = [claim EXCEPT ![s] = k],
             call' = [AfterClaimWrite(s) EXCEPT ![c].fresh = TRUE, ![c].claimed = TRUE,
                                                ![c].at = "prepare"]
      PROVE OwnersInv'
  <2> DEFINE y == AfterClaimWrite(s)
             n == [[x EXCEPT !.fresh = FALSE] EXCEPT !.fresh = TRUE, !.claimed = TRUE,
                                                     !.at = "prepare"]
  <2>1. /\ y \in [Calls -> Call] /\ y[c] = [x EXCEPT !.fresh = FALSE]
        /\ \A d \in Calls : y[d] = IF About(call[d]) = s
                                   THEN [call[d] EXCEPT !.fresh = FALSE] ELSE call[d]
    BY <1>2, AfterClaim
  <2> HIDE DEF y
  <2>2. call' = [y EXCEPT ![c] = n]
    BY <1>5, <2>1 DEF y
  <2>3. n \in Call
    <3>1. [x EXCEPT !.fresh = FALSE] \in Call
      BY <2>1
    <3> DEFINE z == [x EXCEPT !.fresh = FALSE]
    <3> HIDE DEF z
    <3>2. z \in Call
      BY <3>1 DEF z
    <3>3. [z EXCEPT !.fresh = TRUE, !.claimed = TRUE, !.at = "prepare"] \in Call
      BY <3>2, ZenonT(60) DEF Call
    <3> QED BY <3>3 DEF z
  <2>4. /\ n.at = "prepare" /\ n.cmd = x.cmd /\ n.doc = x.doc /\ n.current = x.current
        /\ n.todo = x.todo /\ n.done = x.done /\ n.hold = x.hold /\ n.ours = x.ours /\ n.fresh
        /\ n.met = x.met
    BY <1>2 DEF Call
  <2> HIDE DEF n
  <2>5. /\ call' \in [Calls -> Call] /\ call'[c] = n
        /\ \A d \in Calls \ {c} : call'[d] = IF About(call[d]) = s
                                             THEN [call[d] EXCEPT !.fresh = FALSE] ELSE call[d]
    BY <2>1, <2>2, <2>3
  <2>6. k \in Claim /\ k.live /\ k.by = p /\ ~k.old
    BY <1>2, CallFields, FreshClaim
  <2>7. claim[s].live => /\ claim[s].by # p /\ claim[s].old
                         /\ claim[s].by \in unruly \/ LeftBy(productDoc, claim[s].by, s)
    BY <1>1, <1>2, <1>5 DEF ClaimRight
  <2> HIDE DEF k, p, s, x
  <2>8. \A q \in Products \ unruly : LeftBy(productDoc, q, s)
    BY <1>2, <2>7, NotOwner
  <2>9. ASSUME NEW d \in Calls, Commits(c, d, s) PROVE FALSE
    <3>1. unruly \subseteq unruly' /\ s \in Skus
      BY <1>1, <1>2
    <3>2. claim[s].live /\ ~claim[s].old
      BY <2>9, <3>1, Committing
    <3> QED BY <2>7, <3>2
  <2>10. claim'[s] = k /\ About(n) = s
    BY <1>2, <1>5, <2>4 DEF About
  <2>11. ClaimRight(n, productDoc, claim'[About(n)], unruly)
    BY <1>2, <2>4, <2>6, <2>10 DEF ClaimRight
  <2>12. CallRight(n, productDoc, claim', unruly) /\ Writes(n) = Writes(x)
    <3>1. /\ n.at \in Claiming /\ n.at # "commit"
          /\ n.at \notin {"judge", "age", "withdraw", "take"}
      BY <2>4 DEF Claiming
    <3>2. x.cmd.p \in unruly \/ LeftBy(productDoc, x.cmd.p, About(x))
      BY <1>2, <2>8
    <3> QED BY <1>1, <1>2, <2>3, <2>4, <2>11, <3>1, <3>2, ClaimingMove
  <2>13. /\ CallRight(call'[c], productDoc, claim', unruly')
         /\ Follows(call'[c], call[c])
         /\ call'[c].at # "unclaim" /\ call'[c].at # "commit"
    BY <1>1, <2>4, <2>5, <2>12 DEF x, Follows
  <2>14. k.live => k.by \in Products
    BY <1>2, <2>6
  <2> QED BY <1>1, <1>2, <1>3, <1>5, <2>5, <2>6, <2>8, <2>9, <2>13, <2>14, ClaimStep
<1> QED BY <1>4, <1>5 DEF TakeClaim

LEMMA BeatStep == ASSUME OwnersInv, NEW c \in Calls, Beat(c) PROVE OwnersInv'
<1> DEFINE x == call[c]
           s == On(c)
           p == P(c)
           k == Fresh(p, x.creates)
<1>1. /\ x.at = "beat" /\ x.at \in Claiming
      /\ productDoc' = productDoc /\ inventory' = inventory /\ begun' = begun
      /\ unruly' = unruly
  BY DEF Beat, Claiming
<1>2. /\ x \in Call /\ CallRight(x, productDoc, claim, unruly) /\ OnItsWay(x) /\ ~x.hold
      /\ s = About(x)
      /\ s \in Skus /\ p \in Products /\ ClaimRight(x, productDoc, claim[s], unruly)
      /\ p = x.cmd.p
      /\ Op(c) = x.cmd.op /\ Op(c) \in {"upsert", "edit", "restore"}
      /\ claim \in [Skus -> Claim] /\ call \in [Calls -> Call]
  BY <1>1, ClaimingCall, OwnersInvNow DEF OwnersTypeOK
<1>3. begun' \in 0..MaxBegun /\ inventory' \in [Skus -> {"absent", "empty", "units"}]
      /\ unruly' \subseteq Products
  BY <1>1, OwnersInvNow DEF OwnersTypeOK
<1>4. ASSUME Again(c, "read"), UNCHANGED claim PROVE OwnersInv'
  BY <1>1, <1>3, <1>4, AgainStep
<1>5. ASSUME Leave(c), UNCHANGED claim PROVE OwnersInv'
  BY <1>1, <1>3, <1>5, LeaveStep
<1>6. ASSUME x.fresh, claim' = [claim EXCEPT ![s] = k],
             call' = [AfterClaimWrite(s) EXCEPT ![c].fresh = TRUE, ![c].hold = TRUE,
                                                ![c].at = "commit"]
      PROVE OwnersInv'
  <2> DEFINE y == AfterClaimWrite(s)
             n == [[x EXCEPT !.fresh = FALSE] EXCEPT !.fresh = TRUE, !.hold = TRUE,
                                                     !.at = "commit"]
  <2>1. /\ y \in [Calls -> Call] /\ y[c] = [x EXCEPT !.fresh = FALSE]
        /\ \A d \in Calls : y[d] = IF About(call[d]) = s
                                   THEN [call[d] EXCEPT !.fresh = FALSE] ELSE call[d]
    BY <1>2, AfterClaim
  <2> HIDE DEF y
  <2>2. call' = [y EXCEPT ![c] = n]
    BY <1>6, <2>1 DEF y
  <2>3. n \in Call
    <3>1. [x EXCEPT !.fresh = FALSE] \in Call
      BY <2>1
    <3> DEFINE z == [x EXCEPT !.fresh = FALSE]
    <3> HIDE DEF z
    <3>2. z \in Call
      BY <3>1 DEF z
    <3>3. [z EXCEPT !.fresh = TRUE, !.hold = TRUE, !.at = "commit"] \in Call
      BY <3>2, ZenonT(60) DEF Call
    <3> QED BY <3>3 DEF z
  <2>4. /\ n.at = "commit" /\ n.cmd = x.cmd /\ n.doc = x.doc /\ n.current = x.current
        /\ n.todo = x.todo /\ n.done = x.done /\ n.hold /\ n.ours = x.ours /\ n.fresh
        /\ n.claimed = x.claimed /\ n.met = x.met
    BY <1>2 DEF Call
  <2> HIDE DEF n
  <2>5. /\ call' \in [Calls -> Call] /\ call'[c] = n
        /\ \A d \in Calls \ {c} : call'[d] = IF About(call[d]) = s
                                             THEN [call[d] EXCEPT !.fresh = FALSE] ELSE call[d]
    BY <2>1, <2>2, <2>3
  <2>6. k \in Claim /\ k.live /\ k.by = p /\ ~k.old
    BY <1>2, CallFields, FreshClaim
  <2>7. claim[s].live /\ claim[s].by = p
    BY <1>1, <1>2, <1>6 DEF ClaimRight
  <2>8. Writes(x)
    BY <1>2 DEF Writes
  <2> HIDE DEF k, p, s
  <2>9. \A q \in Products \ unruly : q = p \/ LeftBy(productDoc, q, s)
    BY <1>2, <2>7, NotOwner
  <2>10. ASSUME NEW d \in Calls, Commits(c, d, s) PROVE k.live /\ k.by = call[d].cmd.p /\ ~k.old
    BY <1>1, <1>2, <2>6, <2>7, <2>10, Committing
  <2> HIDE DEF x
  <2>11. claim'[s] = k /\ About(n) = s
    BY <1>2, <1>6, <2>4 DEF About
  <2>12. ClaimRight(n, productDoc, claim'[About(n)], unruly)
    BY <1>2, <2>4, <2>6, <2>11 DEF ClaimRight
  <2>13. CallRight(n, productDoc, claim', unruly) /\ Writes(n) = Writes(x)
    BY <1>1, <1>2, <2>3, <2>4, <2>12, ClaimingMove
  <2>14. /\ CallRight(call'[c], productDoc, claim', unruly')
         /\ Follows(call'[c], call[c])
         /\ call'[c].at # "unclaim"
         /\ call'[c].at = "commit" => About(call'[c]) = s
    BY <1>1, <2>4, <2>5, <2>11, <2>13 DEF x, Follows
  <2>15. k.live => k.by \in Products
    BY <1>2, <2>6
  <2>16. \A q \in Products \ unruly' : (k.live /\ k.by = q) \/ LeftBy(productDoc, q, s)
    BY <1>1, <2>6, <2>9
  <2>17. \A d \in Calls : Commits(c, d, s) => k.live /\ k.by = call[d].cmd.p /\ ~k.old
    BY <2>10
  <2> QED BY <1>1, <1>2, <1>3, <1>6, <2>5, <2>6, <2>14, <2>15, <2>16, <2>17, ClaimStep
<1> QED BY <1>4, <1>5, <1>6 DEF Beat, Lost

LEMMA ReadOwnStep == ASSUME OwnersInv, NEW c \in Calls, ReadOwn(c) PROVE OwnersInv'
<1> DEFINE x == call[c]
           s == On(c)
           h == s # None /\ Owns(P(c), s)
           n == [x EXCEPT !.hold = h, !.fresh = TRUE, !.at = "bury"]
<1>1. x.at = "own" /\ UNCHANGED <<productDoc, claim, inventory, begun, unruly>>
  BY DEF ReadOwn
<1>2. /\ x \in Call /\ CallRight(x, productDoc, claim, unruly) /\ OnItsWay(x) /\ x.cmd \in Command
      /\ ReadsRight(x, productDoc[P(c)]) /\ CarriesRight(x, productDoc[P(c)], unruly)
      /\ s = About(x)
      /\ P(c) = x.cmd.p
  BY <1>1, ThisCall DEF P
<1>3. begun' \in 0..MaxBegun /\ inventory' \in [Skus -> {"absent", "empty", "units"}]
      /\ call \in [Calls -> Call]
  BY <1>1, OwnersInvNow DEF OwnersTypeOK
<1>4. s # None => s \in Skus /\ claim[s] \in Claim
  BY <1>1, ThisCall, OwnersInvNow DEF OwnersTypeOK
<1>5. h \in BOOLEAN /\ (h => s # None /\ claim[s].live /\ claim[s].by = x.cmd.p)
  BY <1>2, <1>4, ClaimFields DEF Owns
<1>6. call' = [call EXCEPT ![c] = n]
  BY <1>3 DEF ReadOwn
<1> HIDE DEF h
<1>7. n \in Call
  BY <1>2, <1>5, ZenonT(60) DEF Call
<1>8. /\ n.at = "bury" /\ n.hold = h /\ n.fresh /\ n.cmd = x.cmd /\ n.doc = x.doc
      /\ n.current = x.current /\ n.todo = x.todo /\ n.done = x.done /\ n.claimed = x.claimed
      /\ n.met = x.met
      /\ n.ours = x.ours
  BY <1>2 DEF Call
<1> HIDE DEF n
<1>9. x.cmd.op = "softDelete" /\ ~x.done
  BY <1>1, <1>2 DEF OnItsWay
<1>10. About(n) = s /\ ~Saves(n) /\ ~Writes(n)
  BY <1>2, <1>8, <1>9 DEF About, Saves, Writes
<1> HIDE DEF x, s
<1>11. OnItsWay(n)
  BY <1>2, <1>5, <1>8, <1>9, <1>10 DEF OnItsWay, Claiming
<1>12. ReadsRight(n, productDoc[n.cmd.p])
  BY <1>2, <1>8, <1>9, <1>10 DEF ReadsRight
<1>13. CarriesRight(n, productDoc[n.cmd.p], unruly)
  BY <1>8, <1>10 DEF CarriesRight
<1>14. ClaimRight(n, productDoc, claim[About(n)], unruly)
  BY <1>5, <1>8, <1>10 DEF ClaimRight
<1>15. CallRight(n, productDoc, claim, unruly)
  BY <1>11, <1>12, <1>13, <1>14 DEF CallRight
<1>16. Quiet(n, x)
  BY <1>8, <1>10 DEF Quiet, Follows
<1> QED BY <1>1, <1>3, <1>6, <1>7, <1>15, <1>16, LocalStep DEF x

\* A step of c that gives back its product's claim on s, which the product has left unless it
\* is unruly then.
LEMMA GiveBack ==
  ASSUME OwnersInv, NEW c \in Calls, NEW s \in Skus, claim' = [claim EXCEPT ![s] = NoClaim],
         productDoc' = productDoc, inventory' \in [Skus -> {"absent", "empty", "units"}],
         begun' = begun, unruly \subseteq unruly', unruly' \subseteq Products,
         claim[s].live, claim[s].by = call[c].cmd.p,
         call[c].cmd.p \notin unruly' =>
           /\ LeftBy(productDoc, call[c].cmd.p, s)
           /\ \/ Writes(call[c]) /\ ~call[c].met
              \/ call[c].at = "unclaim" /\ call[c].fresh /\ About(call[c]) = s,
         call' \in [Calls -> Call],
         \A d \in Calls \ {c} : call'[d] = AfterClaimWrite(s)[d],
         CallRight(call'[c], productDoc, claim', unruly'),
         Follows(call'[c], call[c]),
         call'[c].at # "unclaim", call'[c].at # "commit"
  PROVE OwnersInv'
<1>1. NoClaim \in Claim /\ ~NoClaim.live
  BY NoCallFields
<1>2. \A d \in Calls \ {c} : call'[d] = IF About(call[d]) = s
                                        THEN [call[d] EXCEPT !.fresh = FALSE] ELSE call[d]
  BY AfterClaim
<1>3. ASSUME NEW q \in Products \ unruly' PROVE LeftBy(productDoc, q, s)
  BY NotOwner
<1>4. ASSUME NEW d \in Calls, Commits(c, d, s) PROVE FALSE
  <2>1. Writes(call[d]) /\ call[d].cmd.p = call[c].cmd.p
    BY <1>4, Committing
  <2>2. Apart(call[c], call[d]) /\ call[c].cmd.p \notin unruly'
    BY <1>4, <2>1, OwnersInvNow DEF Commits
  <2> QED BY <1>4, <2>1, <2>2 DEF Apart, Commits
<1>5. /\ \A q \in Products \ unruly' : (NoClaim.live /\ NoClaim.by = q) \/ LeftBy(productDoc, q, s)
      /\ \A d \in Calls : Commits(c, d, s) =>
             NoClaim.live /\ NoClaim.by = call[d].cmd.p /\ ~NoClaim.old
      /\ NoClaim.live => NoClaim.by \in Products
  BY <1>1, <1>3, <1>4
<1> QED BY <1>1, <1>2, <1>5, ClaimStep

LEMMA FreeStep == ASSUME OwnersInv, NEW c \in Calls, Free(c) PROVE OwnersInv'
<1> DEFINE x == call[c]
           s == x.carry.from
           d == productDoc[P(c)]
           y == IF Owns(P(c), s) /\ About(x) = s THEN [x EXCEPT !.fresh = FALSE] ELSE x
           n == [y EXCEPT !.carry = NoCarry, !.at = "settle"]
<1>1. x.at = "free" /\ productDoc' = productDoc /\ inventory' = inventory /\ begun' = begun
      /\ ReleaseSku(P(c), s) /\ MayTear(c, s)
      /\ call' = [(IF Owns(P(c), s) THEN AfterClaimWrite(s) ELSE call) EXCEPT
                    ![c].carry = NoCarry, ![c].at = "settle"]
  BY DEF Free
<1>2. /\ x \in Call /\ CallRight(x, productDoc, claim, unruly) /\ OnItsWay(x) /\ x.cmd \in Command
      /\ ReadsRight(x, d) /\ CarriesRight(x, d, unruly) /\ P(c) = x.cmd.p
  BY <1>1, ThisCall DEF P
<1>3. begun' \in 0..MaxBegun /\ inventory' \in [Skus -> {"absent", "empty", "units"}]
      /\ call \in [Calls -> Call] /\ P(c) \in Products
      /\ unruly \subseteq unruly' /\ unruly' \subseteq Products
  BY <1>1, ThisCall, OwnersInvNow DEF OwnersTypeOK, MayTear
<1>4. /\ x.carry \in Carry /\ s \in Skus /\ ~x.current
      /\ ~x.hold /\ x.cmd.op \in {"upsert", "edit", "sweep"}
      /\ ~x.met /\ P(c) \notin unruly => d.owed = {} /\ d.sku # s
  <2>1. x.carry \in Carry /\ ~x.hold /\ x.cmd.op \in {"upsert", "edit", "sweep"}
    BY <1>1, <1>2 DEF OnItsWay
  <2>2. ~x.current /\ (~x.met /\ P(c) \notin unruly => d.owed = {} /\ d.sku # s)
    BY <1>1, <1>2 DEF CarriesRight, ReadsRight
  <2> QED BY <2>1, <2>2, CarryFields
<1>5. /\ y \in Call /\ y.at = x.at /\ y.cmd = x.cmd /\ y.doc = x.doc /\ y.current = x.current
      /\ y.todo = x.todo /\ y.done = x.done /\ y.claimed = x.claimed /\ y.ours = x.ours
      /\ y.hold = x.hold /\ y.blocked = x.blocked /\ y.met = x.met
  <2>1. x # NoCall
    BY <1>1, NoCallIs
  <2>2. [x EXCEPT !.fresh = FALSE] \in Call /\ Fades(x, [x EXCEPT !.fresh = FALSE])
        /\ [x EXCEPT !.fresh = FALSE].current = x.current
        /\ [x EXCEPT !.fresh = FALSE].met = x.met
    BY <1>2, <2>1, FadedCall
  <2> QED BY <1>2, <2>2 DEF Fades
<1> HIDE DEF y
<1>6. n \in Call
  BY <1>5, ZenonT(60) DEF Call
<1>7. /\ n.at = "settle" /\ n.cmd = x.cmd /\ n.doc = x.doc /\ n.current = x.current
      /\ n.todo = x.todo /\ n.done = x.done /\ n.claimed = x.claimed /\ n.met = x.met
      /\ n.ours = x.ours
      /\ n.hold = x.hold /\ n.blocked = x.blocked
  BY <1>5 DEF Call
<1> HIDE DEF n
<1>8. Saves(n) = Saves(x) /\ Writes(n) = Writes(x) /\ About(n) = About(x)
  BY <1>7 DEF Saves, Writes, About
<1>9. \A k : CallRight(n, productDoc, k, unruly')
  <2>1. OnItsWay(n)
    BY <1>1, <1>2, <1>4, <1>7, <1>8 DEF OnItsWay, Claiming
  <2>2. ReadsRight(n, d)
    BY <1>1, <1>2, <1>4, <1>7, <1>8 DEF ReadsRight, Claiming
  <2>3. CarriesRight(n, d, unruly')
    BY <1>2, <1>3, <1>7, <1>8 DEF CarriesRight
  <2>4. \A k : ClaimRight(n, productDoc, k, unruly')
    BY <1>4, <1>7 DEF ClaimRight
  <2> QED BY <1>2, <1>7, <2>1, <2>2, <2>3, <2>4 DEF CallRight
<1>10. CASE ~Owns(P(c), s)
  <2>1. call' = [call EXCEPT ![c] = n]
    BY <1>1, <1>3, <1>10 DEF n, y
  <2>2. claim' = claim /\ unruly' = unruly
    BY <1>1, <1>10 DEF ReleaseSku, MayTear
  <2>3. Quiet(n, x)
    BY <1>7, <1>8 DEF Quiet, Follows
  <2> QED BY <1>1, <1>3, <1>6, <1>9, <2>1, <2>2, <2>3, LocalStep
<1>11. CASE Owns(P(c), s)
  <2> DEFINE z == AfterClaimWrite(s)
  <2>1. z \in [Calls -> Call] /\ z[c] = y
    BY <1>4, <1>11, AfterClaim DEF y
  <2> HIDE DEF z
  <2>2. call' = [z EXCEPT ![c] = n]
    BY <1>1, <1>11, <2>1 DEF z, n
  <2>3. /\ call' \in [Calls -> Call] /\ call'[c] = n
        /\ \A e \in Calls \ {c} : call'[e] = AfterClaimWrite(s)[e]
    BY <1>6, <2>1, <2>2 DEF z
  <2>4. claim' = [claim EXCEPT ![s] = NoClaim] /\ claim[s].live /\ claim[s].by = x.cmd.p
    BY <1>1, <1>2, <1>11 DEF ReleaseSku, Owns
  <2>5. x.cmd.p \notin unruly' => ~x.met /\ LeftBy(productDoc, x.cmd.p, s)
    BY <1>1, <1>2, <1>3, <1>4, <1>11 DEF LeftBy, MayTear
  <2>6. Writes(x)
    BY <1>4 DEF Writes
  <2>7. /\ CallRight(call'[c], productDoc, claim', unruly')
        /\ Follows(call'[c], call[c])
        /\ call'[c].at # "unclaim" /\ call'[c].at # "commit"
    BY <1>7, <1>8, <1>9, <2>3 DEF Follows
  <2>8. x.cmd.p \notin unruly' =>
          /\ LeftBy(productDoc, x.cmd.p, s)
          /\ \/ Writes(x) /\ ~x.met
             \/ x.at = "unclaim" /\ x.fresh /\ About(x) = s
    BY <2>5, <2>6
  <2> HIDE DEF s
  <2> QED BY <1>1, <1>3, <1>4, <2>3, <2>4, <2>7, <2>8, GiveBack
<1> QED BY <1>10, <1>11

LEMMA UnclaimStep == ASSUME OwnersInv, NEW c \in Calls, Unclaim(c) PROVE OwnersInv'
<1> DEFINE x == call[c]
           s == On(c)
<1>1. x.at = "unclaim" /\ productDoc' = productDoc /\ inventory' = inventory /\ begun' = begun
      /\ unruly' = unruly
  BY DEF Unclaim
<1>2. inventory' \in [Skus -> {"absent", "empty", "units"}] /\ call \in [Calls -> Call]
      /\ unruly' \subseteq Products
  BY <1>1, OwnersInvNow DEF OwnersTypeOK
<1>3. ASSUME Leave(c), UNCHANGED claim PROVE OwnersInv'
  BY <1>1, <1>2, <1>3, LeaveStep
<1>4. ASSUME x.fresh, claim' = [claim EXCEPT ![s] = NoClaim],
             call' = [AfterClaimWrite(s) EXCEPT ![c] = NoCall]
      PROVE OwnersInv'
  <2>1. /\ OnItsWay(x) /\ s = About(x) /\ P(c) = x.cmd.p
        /\ s # None => s \in Skus /\ ClaimRight(x, productDoc, claim[s], unruly)
    BY <1>1, ThisCall DEF P
  <2>2. s \in Skus /\ x.hold /\ ClaimRight(x, productDoc, claim[s], unruly)
    BY <1>1, <2>1 DEF OnItsWay
  <2>3. /\ claim[s].live /\ claim[s].by = x.cmd.p
        /\ x.cmd.p \notin unruly => LeftBy(productDoc, x.cmd.p, s)
    BY <1>1, <1>4, <2>1, <2>2 DEF ClaimRight
  <2>4. /\ call' \in [Calls -> Call] /\ call'[c] = NoCall
        /\ \A d \in Calls \ {c} : call'[d] = AfterClaimWrite(s)[d]
    BY <1>4, <2>2, NoCallType, AfterClaim
  <2>5. /\ CallRight(call'[c], productDoc, claim', unruly') /\ Follows(call'[c], call[c])
        /\ call'[c].at # "unclaim" /\ call'[c].at # "commit"
    BY <2>4, NoCallRight, NoCallIs DEF Writes, Follows
  <2>6. x.cmd.p \notin unruly' =>
          /\ LeftBy(productDoc, x.cmd.p, s)
          /\ \/ Writes(x) /\ ~x.met
             \/ x.at = "unclaim" /\ x.fresh /\ About(x) = s
    BY <1>1, <1>4, <2>1, <2>3
  <2> HIDE DEF s
  <2> QED BY <1>1, <1>2, <1>4, <2>2, <2>3, <2>4, <2>5, <2>6, GiveBack
<1> QED BY <1>3, <1>4 DEF Unclaim

LEMMA UndoStep == ASSUME OwnersInv, NEW c \in Calls, Undo(c) PROVE OwnersInv'
<1> DEFINE x == call[c]
           s == Want(c)
           d == productDoc[P(c)]
<1>1. x.at = "undo" /\ productDoc' = productDoc /\ begun' = begun
  BY DEF Undo
<1>2. /\ x \in Call /\ CallRight(x, productDoc, claim, unruly) /\ OnItsWay(x) /\ x.cmd \in Command
      /\ ReadsRight(x, d) /\ CarriesRight(x, d, unruly) /\ P(c) = x.cmd.p /\ s = x.cmd.want
      /\ Op(c) = x.cmd.op
  BY <1>1, ThisCall DEF P, Want, Op
<1>3. begun' \in 0..MaxBegun /\ call \in [Calls -> Call]
      /\ inventory \in [Skus -> {"absent", "empty", "units"}]
  BY <1>1, OwnersInvNow DEF OwnersTypeOK
<1>4. Saves(x) /\ Writes(x)
  BY <1>1, <1>2 DEF OnItsWay, Saves, Writes
<1>5. ASSUME Withdraw(s), call' = [call EXCEPT ![c].made = FALSE], UNCHANGED <<claim, unruly>>
      PROVE OwnersInv'
  <2> DEFINE n == [x EXCEPT !.made = FALSE]
  <2>1. call' = [call EXCEPT ![c] = n] /\ inventory' \in [Skus -> {"absent", "empty", "units"}]
    BY <1>3, <1>5, WithdrawType
  <2>2. n \in Call
    BY <1>2, ZenonT(60) DEF Call
  <2>3. /\ n.at = x.at /\ n.cmd = x.cmd /\ n.doc = x.doc /\ n.current = x.current
        /\ n.todo = x.todo /\ n.done = x.done /\ n.claimed = x.claimed /\ n.met = x.met
        /\ n.ours = x.ours
        /\ n.hold = x.hold /\ n.fresh = x.fresh
    BY <1>2 DEF Call
  <2> HIDE DEF n
  <2>4. Saves(n) = Saves(x) /\ Writes(n) = Writes(x) /\ About(n) = About(x)
    BY <2>3 DEF Saves, Writes, About
  <2> HIDE DEF x, d
  <2>5. OnItsWay(n)
    BY <1>1, <1>2, <2>3, <2>4 DEF OnItsWay, Claiming
  <2>6. ReadsRight(n, d)
    BY <1>1, <1>2, <2>3, <2>4 DEF ReadsRight, Claiming
  <2>7. CarriesRight(n, d, unruly)
    BY <1>1, <1>2, <2>3, <2>4 DEF CarriesRight
  <2>8. ClaimRight(n, productDoc, claim[About(n)], unruly)
    BY <1>1, <2>3 DEF ClaimRight
  <2>9. CallRight(n, productDoc, claim, unruly)
    BY <1>2, <2>3, <2>5, <2>6, <2>7, <2>8 DEF CallRight, d
  <2>10. Quiet(n, x)
    BY <1>1, <2>3, <2>4 DEF Quiet, Follows
  <2> QED BY <1>1, <1>3, <1>5, <2>1, <2>2, <2>9, <2>10, LocalStep DEF x
<1>6. ASSUME UNCHANGED <<claim, inventory, unruly>>, call' = [call EXCEPT ![c] = NoCall]
      PROVE OwnersInv'
  BY <1>1, <1>3, <1>6, LeaveStep DEF Leave
<1>7. ASSUME x.claimed, Owns(P(c), s), claim' = [claim EXCEPT ![s] = NoClaim], UNCHANGED inventory,
             call' = [AfterClaimWrite(s) EXCEPT ![c] = NoCall], MayTear(c, s)
      PROVE OwnersInv'
  <2>1. P(c) \in unruly' \/ (~x.met /\ LeftBy(productDoc, x.cmd.p, s))
    BY <1>2, <1>4, <1>7 DEF CarriesRight, LeftBy, MayTear
  <2>2. s \in Skus /\ P(c) \in Products
    BY <1>1, <1>2, <1>4, <1>7, CommandFields, ThisCall DEF OnItsWay
  <2>7. unruly \subseteq unruly' /\ unruly' \subseteq Products
    BY <1>7, <2>2, OwnersInvNow DEF OwnersTypeOK, MayTear
  <2>3. claim[s].live /\ claim[s].by = x.cmd.p
    BY <1>2, <1>7 DEF Owns
  <2>4. /\ call' \in [Calls -> Call] /\ call'[c] = NoCall
        /\ \A e \in Calls \ {c} : call'[e] = AfterClaimWrite(s)[e]
    BY <1>7, <2>2, NoCallType, AfterClaim
  <2>5. /\ CallRight(call'[c], productDoc, claim', unruly') /\ Follows(call'[c], call[c])
        /\ call'[c].at # "unclaim" /\ call'[c].at # "commit"
    BY <2>4, NoCallRight, NoCallIs DEF Writes, Follows
  <2>8. x.cmd.p \notin unruly' =>
          /\ LeftBy(productDoc, x.cmd.p, s)
          /\ \/ Writes(x) /\ ~x.met
             \/ x.at = "unclaim" /\ x.fresh /\ About(x) = s
    BY <1>2, <1>4, <2>1
  <2> HIDE DEF s
  <2> QED BY <1>1, <1>3, <1>7, <2>2, <2>3, <2>4, <2>5, <2>7, <2>8, GiveBack
<1>8. \/ UNCHANGED <<claim, unruly>> /\ Withdraw(s) /\ call' = [call EXCEPT ![c].made = FALSE]
      \/ UNCHANGED <<claim, inventory, unruly>> /\ call' = [call EXCEPT ![c] = NoCall]
      \/ /\ x.claimed /\ Owns(P(c), s) /\ claim' = [claim EXCEPT ![s] = NoClaim]
         /\ UNCHANGED inventory /\ call' = [AfterClaimWrite(s) EXCEPT ![c] = NoCall]
         /\ MayTear(c, s)
  <2>1. ~Owns(P(c), s) => (MayTear(c, s) => unruly' = unruly)
    BY DEF MayTear
  <2> QED BY <2>1 DEF Undo, Leave, ReleaseSku
<1> QED BY <1>5, <1>6, <1>7, <1>8

-----------------------------------------------------------------------------
(* Writes of a product *)

LEMMA AfterProduct ==
  ASSUME OwnersInv, NEW p \in Products, NEW m \in BOOLEAN
  PROVE /\ AfterProductWrite(p, m) \in [Calls -> Call]
        /\ \A d \in Calls :
             /\ Fades(call[d], AfterProductWrite(p, m)[d])
             /\ AfterProductWrite(p, m)[d].fresh = call[d].fresh
             /\ call[d].cmd.p = p => ~AfterProductWrite(p, m)[d].current
<1> DEFINE y(d) == IF P(d) = p THEN [call[d] EXCEPT !.current = FALSE, !.form = @ /\ ~m]
                   ELSE call[d]
<1>1. ASSUME NEW x \in Call, NEW b \in BOOLEAN
      PROVE /\ [x EXCEPT !.current = FALSE, !.form = b] \in Call
            /\ ~[x EXCEPT !.current = FALSE, !.form = b].current
            /\ [x EXCEPT !.current = FALSE, !.form = b].fresh = x.fresh
            /\ x # NoCall => Fades(x, [x EXCEPT !.current = FALSE, !.form = b])
  <2>1. [x EXCEPT !.current = FALSE, !.form = b] \in Call
    BY ZenonT(60) DEF Call
  <2>2. /\ ~[x EXCEPT !.current = FALSE, !.form = b].current
        /\ [x EXCEPT !.current = FALSE, !.form = b].fresh = x.fresh
        /\ x # NoCall => Fades(x, [x EXCEPT !.current = FALSE, !.form = b])
    BY DEF Call, Fades
  <2> QED BY <2>1, <2>2
<1>2. ASSUME NEW d \in Calls
      PROVE /\ y(d) \in Call /\ Fades(call[d], y(d)) /\ y(d).fresh = call[d].fresh
            /\ call[d].cmd.p = p => ~y(d).current
  <2> DEFINE b == call[d].form /\ ~m
  <2>1. call[d] \in Call /\ P(d) = call[d].cmd.p
    BY OwnersInvNow DEF OwnersTypeOK, P
  <2>2. b \in BOOLEAN
    BY <2>1, CallFields
  <2>3. CASE P(d) = p
    <3>1. call[d] # NoCall
      BY <2>1, <2>3, NoCallIs, NoneApart
    <3>2. y(d) = [call[d] EXCEPT !.current = FALSE, !.form = b]
      BY <2>1, <2>3 DEF Call
    <3> HIDE DEF b, y
    <3> QED BY <1>1, <2>1, <2>2, <3>1, <3>2
  <2>4. CASE P(d) # p
    <3>1. y(d) = call[d]
      BY <2>4
    <3> HIDE DEF y
    <3> QED BY <2>1, <2>4, <3>1, SameFades
  <2> QED BY <2>3, <2>4
<1>3. AfterProductWrite(p, m) = [d \in Calls |-> y(d)]
  BY DEF AfterProductWrite
<1> HIDE DEF y
<1> QED BY <1>2, <1>3

LEMMA GateStep == ASSUME OwnersInv, NEW p \in Products, Gate(p) PROVE OwnersInv'
<1> DEFINE d == productDoc[p]
           w == [d EXCEPT !.key = None]
<1>1. /\ claim' = claim /\ inventory' = inventory /\ begun' = begun
      /\ unruly' = unruly /\ call' = AfterProductWrite(p, TRUE)
  BY DEF Gate
<1>2. productDoc \in [Products -> Product] /\ ProductRight(p, d, claim, unruly)
  BY OwnersInvNow DEF OwnersTypeOK
<1>3. /\ w \in Product /\ w.life = d.life /\ w.sku = d.sku /\ w.owed = d.owed
  BY <1>2, ProductFields
<1>4. productDoc' = [productDoc EXCEPT ![p] = w]
  BY <1>2 DEF Gate
<1> HIDE DEF w
<1>5. /\ call' \in [Calls -> Call]
      /\ \A e \in Calls : /\ Fades(call[e], call'[e]) /\ call'[e].fresh = call[e].fresh
                          /\ call[e].cmd.p = p => ~call'[e].current
  BY <1>1, AfterProduct
<1>6. OwnersTypeOK'
  BY <1>1, <1>3, <1>4, <1>5, OwnersInvNow DEF OwnersTypeOK
<1>7. productDoc'[p] = w /\ \A q \in Products : q # p => productDoc'[q] = productDoc[q]
  BY <1>2, <1>4
<1>8. \A s \in Skus : LeftBy(productDoc, p, s) => LeftBy(productDoc', p, s)
  BY <1>3, <1>7 DEF LeftBy
<1>9. \A q \in Products : ProductRight(q, productDoc'[q], claim', unruly')
  <2>1. ProductRight(p, w, claim, unruly)
    BY <1>2, <1>3 DEF ProductRight
  <2> QED BY <1>1, <1>7, <2>1, OwnersInvNow
<1>10. \A s \in Skus : claim'[s].live => claim'[s].by \in Products
  BY <1>1, OwnersInvNow
<1>11. \A e \in Calls : Spared(call[e], call'[e], productDoc, productDoc', claim, claim', unruly')
  BY <1>1, <1>3, <1>4, <1>5, <1>8, ProductSpared
<1> QED BY <1>1, <1>5, <1>6, <1>9, <1>10, <1>11, NoneMoves

LEMMA ClearStampStep == ASSUME OwnersInv, NEW c \in Calls, ClearStamp(c) PROVE OwnersInv'
<1> DEFINE x == call[c]
           p == P(c)
           d == productDoc[p]
           w == [d EXCEPT !.owed = @ \ {x.carry}]
           y == AfterProductWrite(p, FALSE)
           isOwed == x.carry \in d.owed
           z == IF isOwed THEN y[c] ELSE x
           n == [z EXCEPT !.at = "free"]
<1>1. /\ x.at = "drop" /\ claim' = claim /\ inventory' = inventory /\ begun' = begun
      /\ unruly' = unruly
      /\ productDoc' = [productDoc EXCEPT ![p].owed = @ \ {x.carry}]
      /\ call' = [(IF isOwed THEN y ELSE call) EXCEPT ![c].at = "free"]
  BY DEF ClearStamp
<1>2. /\ x \in Call /\ CallRight(x, productDoc, claim, unruly) /\ OnItsWay(x) /\ x.cmd \in Command
      /\ p \in Products /\ ReadsRight(x, d) /\ CarriesRight(x, d, unruly) /\ p = x.cmd.p
      /\ d \in Product /\ ProductRight(p, d, claim, unruly)
      /\ productDoc \in [Products -> Product]
      /\ call \in [Calls -> Call] /\ unruly \subseteq Products
  BY <1>1, ThisCall, OwnersInvNow DEF P, OwnersTypeOK
<1>3. /\ x.cmd.op \in {"upsert", "edit", "sweep"} /\ ~x.hold /\ Writes(x) /\ x.carry \in Carry
      /\ ~x.met /\ p \notin unruly => isOwed /\ x.carry \notin x.todo /\ x.todo \subseteq d.owed
      /\ x.current => isOwed
  <2>1. x.doc = [d EXCEPT !.key = None] => x.doc.owed = d.owed
    BY <1>2, ProductFields
  <2> QED BY <1>1, <1>2, <2>1 DEF OnItsWay, CarriesRight, ReadsRight, Writes
<1>4. /\ y \in [Calls -> Call]
      /\ \A e \in Calls : /\ Fades(call[e], y[e]) /\ y[e].fresh = call[e].fresh
                          /\ call[e].cmd.p = p => ~y[e].current
  BY <1>2, AfterProduct
<1>5. /\ z \in Call /\ z.cmd = x.cmd /\ z.doc = x.doc /\ z.todo = x.todo
      /\ z.carry = x.carry /\ z.done = x.done /\ z.ours = x.ours /\ z.hold = x.hold
      /\ z.claimed = x.claimed /\ (x.met => z.met) /\ ~z.current
  <2>1. CASE isOwed
    <3>1. z = y[c]
      BY <2>1
    <3> HIDE DEF y, z
    <3> QED BY <1>2, <1>4, <3>1 DEF Fades
  <2>2. CASE ~isOwed
    BY <1>2, <1>3, <2>2
  <2> QED BY <2>1, <2>2
<1>6. /\ isOwed => call' = [y EXCEPT ![c] = n]
      /\ ~isOwed => call' = [call EXCEPT ![c] = n]
  BY <1>1, <1>2, <1>4
<1> HIDE DEF y, z
<1>7. n \in Call
  BY <1>5, ZenonT(60) DEF Call
<1>8. /\ n.at = "free" /\ n.cmd = x.cmd /\ n.doc = x.doc /\ n.todo = x.todo
      /\ n.carry = x.carry /\ n.done = x.done /\ n.ours = x.ours /\ n.hold = x.hold
      /\ n.claimed = x.claimed /\ (x.met => n.met) /\ ~n.current
  BY <1>5 DEF Call
<1>9. /\ w \in Product /\ w.owed = d.owed \ {x.carry} /\ w.sku = d.sku /\ w.life = d.life
      /\ productDoc' = [productDoc EXCEPT ![p] = w]
  BY <1>1, <1>2 DEF Product
<1> HIDE DEF n, w
<1>10. productDoc'[p] = w
  BY <1>2, <1>9
<1>11. isOwed => d.owed = {x.carry} /\ w.owed = {} /\ w.sku # x.carry.from
  <2>1. isOwed => /\ \A q, r \in d.owed : q = r
                 /\ x.carry.from # x.carry.to /\ d.sku \in {None, x.carry.to}
    BY <1>2 DEF ProductRight
  <2>2. x.carry.from \in Skus
    BY <1>3, CarryFields
  <2> QED BY <1>9, <2>1, <2>2, NoneApart
<1>12. Saves(n) = Saves(x) /\ Writes(n) = Writes(x) /\ About(n) = About(x)
  BY <1>8 DEF Saves, Writes, About
<1> HIDE DEF x, p, d, isOwed
<1>13. CallRight(n, productDoc', claim, unruly')
  <2>1. OnItsWay(n)
    BY <1>1, <1>2, <1>3, <1>8, <1>12 DEF OnItsWay, Claiming
  <2>2. ReadsRight(n, w)
    BY <1>3, <1>8, <1>12 DEF ReadsRight, Claiming
  <2>3. CarriesRight(n, w, unruly)
    <3> SUFFICES ASSUME ~n.met, p \notin unruly PROVE CarriesRight(n, w, unruly)
      BY <1>2, <1>8 DEF CarriesRight
    <3>1. isOwed /\ n.todo = {} /\ w.owed = {} /\ w.sku # n.carry.from
      BY <1>3, <1>8, <1>11
    <3>2. Saves(x) /\ x.claimed /\ w.life = "live" => w.sku # x.cmd.want
      BY <1>2, <1>8, <1>9 DEF CarriesRight
    <3> QED BY <1>8, <1>12, <3>1, <3>2 DEF CarriesRight
  <2>4. \A k : ClaimRight(n, productDoc', k, unruly')
    BY <1>3, <1>8 DEF ClaimRight
  <2> QED BY <1>1, <1>2, <1>8, <1>10, <2>1, <2>2, <2>3, <2>4 DEF CallRight
<1>14. Quiet(n, x)
  BY <1>8, <1>12 DEF Quiet, Follows
<1>15. CASE isOwed
  <2>1. /\ call' \in [Calls -> Call] /\ call'[c] = n
        /\ \A e \in Calls \ {c} : call'[e] = y[e]
    BY <1>4, <1>6, <1>7, <1>15
  <2>2. ASSUME NEW e \in Calls \ {c}
        PROVE /\ Apart(call'[c], call'[e]) /\ Apart(call'[e], call'[c])
              /\ Writes(call[e]) /\ call[e].cmd.p = p => call[e].met
              /\ Fades(call[e], call'[e]) /\ call'[e].fresh = call[e].fresh
              /\ call[e].cmd.p = p => ~call'[e].current
    <3>1. Apart(x, call[e]) /\ Apart(call[e], x)
      BY OwnersInvNow DEF x
    <3>2. /\ Fades(call[e], call'[e]) /\ call'[e].fresh = call[e].fresh
          /\ call[e].cmd.p = p => ~call'[e].current
      BY <1>4, <2>1
    <3>3. Writes(call[e]) /\ call[e].cmd.p = p => call[e].met
      BY <1>2, <1>3, <3>1 DEF Apart
    <3> QED BY <1>14, <2>1, <3>1, <3>2, <3>3, QuietApart
  <2>3. ProductRight(p, w, claim, unruly')
    BY <1>1, <1>2, <1>9 DEF ProductRight
  <2>4. \A s \in Skus : StaysLeft(c, p, s)
    <3>1. \A s \in Skus : LeftBy(productDoc, p, s) => LeftBy(productDoc', p, s)
      BY <1>9, <1>10 DEF LeftBy, d
    <3> QED BY <3>1 DEF StaysLeft
  <2>5. CallRight(call'[c], productDoc', claim, unruly')
    BY <1>13, <2>1
  <2>6. unruly \subseteq unruly' /\ unruly' \subseteq Products
    BY <1>1, <1>2
  <2>7. ProductMove(c, p, w)
    BY <1>1, <1>9, <2>1, <2>2, <2>3, <2>4, <2>5, <2>6 DEF ProductMove
  <2> QED BY <1>2, <1>9, <2>7, ProductStep
<1>16. CASE ~isOwed
  <2>1. call' = [call EXCEPT ![c] = n]
    BY <1>6, <1>16
  <2>2. productDoc' = productDoc
    <3>1. w.owed = d.owed /\ w \in Product /\ w.life = d.life /\ w.sku = d.sku
      BY <1>9, <1>16 DEF isOwed
    <3>2. w = d
      BY <1>2, <1>16 DEF w, isOwed, Product
    <3> QED BY <1>2, <1>9, <3>2 DEF d
  <2>3. begun' \in 0..MaxBegun /\ inventory' \in [Skus -> {"absent", "empty", "units"}]
    BY <1>1, OwnersInvNow DEF OwnersTypeOK
  <2>4. CallRight(n, productDoc, claim, unruly)
    BY <1>1, <1>13, <2>2
  <2> QED BY <1>1, <1>7, <1>14, <2>1, <2>2, <2>3, <2>4, LocalStep DEF x
<1> QED BY <1>15, <1>16

LEMMA BuryStep == ASSUME OwnersInv, NEW c \in Calls, Bury(c) PROVE OwnersInv'
<1> DEFINE x == call[c]
           p == P(c)
           d == productDoc[p]
           w == [d EXCEPT !.life = "deleted", !.key = x.cmd.key]
           y == AfterProductWrite(p, TRUE)
           n == IF x.hold THEN [y[c] EXCEPT !.at = "unclaim"] ELSE NoCall
<1>1. /\ x.at = "bury" /\ claim' = claim /\ inventory' = inventory /\ begun' = begun
      /\ unruly' = unruly
  BY DEF Bury
<1>2. /\ x \in Call /\ CallRight(x, productDoc, claim, unruly) /\ OnItsWay(x) /\ x.cmd \in Command
      /\ p \in Products /\ ReadsRight(x, d) /\ p = x.cmd.p
      /\ d \in Product /\ ProductRight(p, d, claim, unruly)
      /\ productDoc \in [Products -> Product]
      /\ On(c) = About(x) /\ unruly \subseteq unruly' /\ unruly' \subseteq Products
      /\ About(x) # None => About(x) \in Skus /\ ClaimRight(x, productDoc, claim[About(x)], unruly)
  BY <1>1, ThisCall, OwnersInvNow DEF P, OwnersTypeOK
<1>3. begun' \in 0..MaxBegun /\ inventory' \in [Skus -> {"absent", "empty", "units"}]
  BY <1>1, OwnersInvNow DEF OwnersTypeOK
<1>4. x.cmd.op = "softDelete" /\ ~x.done /\ ~Writes(x) /\ ~Saves(x) /\ About(x) = x.doc.sku
  BY <1>1, <1>2 DEF OnItsWay, Writes, Saves, About
<1>5. ASSUME Again(c, "read"), UNCHANGED productDoc PROVE OwnersInv'
  BY <1>1, <1>3, <1>5, AgainStep
<1>6. ASSUME x.current,
             productDoc' = [productDoc EXCEPT ![p].life = "deleted", ![p].key = x.cmd.key],
             call' = [y EXCEPT ![c] = IF x.hold THEN [@ EXCEPT !.at = "unclaim"] ELSE NoCall]
      PROVE OwnersInv'
  <2>1. x.cmd.key \in Keys \cup {None}
    BY <1>2, CommandFields
  <2>2. /\ w \in Product /\ w.owed = d.owed /\ w.sku = d.sku /\ w.life = "deleted"
        /\ productDoc' = [productDoc EXCEPT ![p] = w]
    BY <1>2, <1>6, <2>1 DEF Product
  <2>3. /\ y \in [Calls -> Call]
        /\ \A e \in Calls : /\ Fades(call[e], y[e]) /\ y[e].fresh = call[e].fresh
                            /\ call[e].cmd.p = p => ~y[e].current
    BY <1>2, AfterProduct
  <2>4. call' = [y EXCEPT ![c] = n]
    BY <1>6, <2>3
  <2> HIDE DEF y, w
  <2>5. n \in Call
    <3>1. y[c] \in Call
      BY <2>3
    <3>2. [y[c] EXCEPT !.at = "unclaim"] \in Call
      BY <3>1, ZenonT(60) DEF Call
    <3> QED BY <3>2, NoCallType
  <2>6. x.hold => /\ n.at = "unclaim" /\ n.cmd = x.cmd /\ n.doc = x.doc /\ n.todo = x.todo
                  /\ n.carry = x.carry /\ n.done = x.done /\ n.ours = x.ours /\ n.hold
                  /\ n.claimed = x.claimed /\ ~n.current /\ n.fresh = x.fresh
    BY <1>2, <2>3 DEF Call, Fades
  <2>7. ~x.hold => n = NoCall
    OBVIOUS
  <2> HIDE DEF n
  <2>8. /\ call' \in [Calls -> Call] /\ call'[c] = n
        /\ \A e \in Calls \ {c} : call'[e] = y[e]
    BY <2>3, <2>4, <2>5
  <2>9. productDoc'[p] = w
    BY <1>2, <2>2
  <2>10. d.sku = x.doc.sku
    BY <1>2, <1>6, ProductFields DEF ReadsRight
  <2> HIDE DEF x, p, d
  <2>11. CallRight(n, productDoc', claim, unruly') /\ ~Writes(n)
    <3>1. CASE ~x.hold
      BY <2>7, <3>1, NoCallRight, NoCallIs DEF Writes
    <3>2. CASE x.hold
      <4>1. ~Saves(n) /\ ~Writes(n) /\ About(n) = About(x) /\ About(x) # None
        BY <1>2, <1>4, <2>6, <3>2 DEF Saves, Writes, About, OnItsWay
      <4>2. OnItsWay(n)
        BY <1>2, <1>4, <2>6, <3>2, <4>1 DEF OnItsWay, Claiming
      <4>3. ReadsRight(n, w)
        BY <1>4, <2>6, <3>2, <4>1 DEF ReadsRight
      <4>4. CarriesRight(n, w, unruly)
        BY <2>6, <3>2, <4>1 DEF CarriesRight
      <4>5. LeftBy(productDoc', p, About(x))
        BY <1>2, <1>4, <2>2, <2>9, <2>10, <4>1 DEF LeftBy, ProductRight
      <4>6. ClaimRight(n, productDoc', claim[About(n)], unruly')
        BY <1>1, <1>2, <2>6, <3>2, <4>1, <4>5 DEF ClaimRight
      <4> QED BY <1>1, <1>2, <2>6, <2>9, <3>2, <4>1, <4>2, <4>3, <4>4, <4>6 DEF CallRight
    <3> QED BY <3>1, <3>2
  <2>12. ASSUME NEW e \in Calls \ {c}
         PROVE /\ Apart(call'[c], call'[e]) /\ Apart(call'[e], call'[c])
               /\ Fades(call[e], call'[e]) /\ call'[e].fresh = call[e].fresh
               /\ call[e].cmd.p = p => ~call'[e].current
    <3>1. /\ Fades(call[e], call'[e]) /\ call'[e].fresh = call[e].fresh
          /\ call[e].cmd.p = p => ~call'[e].current
      BY <2>3, <2>8
    <3>2. call'[e].cmd = call[e].cmd
      BY <3>1 DEF Fades
    <3>3. n.at # "commit" /\ (n.at = "unclaim" => n.cmd.p = p)
      BY <1>2, <2>6, <2>7, NoCallIs
    <3>4. Apart(n, call'[e]) /\ Apart(call'[e], n)
      BY <2>11, <3>1, <3>2, <3>3 DEF Apart
    <3> QED BY <2>8, <3>1, <3>4
  <2>13. ProductRight(p, w, claim, unruly')
    BY <1>1, <1>2, <2>2 DEF ProductRight
  <2>14. \A s \in Skus : StaysLeft(c, p, s)
    <3>1. \A s \in Skus : LeftBy(productDoc, p, s) => LeftBy(productDoc', p, s)
      BY <2>2, <2>9 DEF LeftBy, d
    <3> QED BY <3>1 DEF StaysLeft
  <2>15. CallRight(call'[c], productDoc', claim, unruly')
    BY <2>8, <2>11
  <2>16. /\ w.owed = productDoc[p].owed /\ w.sku = productDoc[p].sku
         /\ w.life = "live" => productDoc[p].life = "live"
    BY <2>2 DEF d
  <2>17. \/ \A e \in Calls \ {c} : Writes(call[e]) /\ call[e].cmd.p = p => call[e].met
         \/ /\ w.owed = productDoc[p].owed /\ w.sku = productDoc[p].sku
            /\ w.life = "live" => productDoc[p].life = "live"
    BY <2>16
  <2>18. /\ p \in Products /\ unruly \subseteq unruly' /\ unruly' \subseteq Products
         /\ claim' = claim /\ inventory' = inventory /\ begun' = begun
    BY <1>1, <1>2
  <2>19. w \in Product /\ productDoc' = [productDoc EXCEPT ![p] = w] /\ call' \in [Calls -> Call]
    BY <2>2, <2>8
  <2>20. ProductMove(c, p, w)
    BY <2>12, <2>13, <2>14, <2>15, <2>17, <2>18, <2>19 DEF ProductMove
  <2> QED BY <2>18, <2>19, <2>20, ProductStep
<1> QED BY <1>5, <1>6 DEF Bury

\* What the commit of c makes of its product.
LEMMA CommitWrites ==
  ASSUME OwnersInv, NEW c \in Calls, call[c].at = "commit", call[c].current,
         unruly \subseteq unruly',
         call[c].doc.life = "deleted" /\ NewCarry(c) # {} => P(c) \in unruly'
  PROVE /\ Written(c) \in Product /\ ProductRight(P(c), Written(c), claim, unruly')
        /\ Op(c) # "restore" =>
             NewCarry(c) \in SUBSET Carry /\ NewCarry(c) \subseteq Written(c).owed
        /\ P(c) \notin unruly' => \A s \in Skus :
             \/ LeftBy(productDoc, P(c), s) => /\ Written(c).life = "live" => Written(c).sku # s
                                               /\ \A r \in Written(c).owed : r.from # s
             \/ call[c].hold /\ s = About(call[c])
<1> DEFINE x == call[c]
           p == P(c)
           d == productDoc[p]
           w == Written(c)
<1>1. /\ x \in Call /\ OnItsWay(x) /\ x.cmd \in Command /\ p \in Products /\ p = x.cmd.p
      /\ ReadsRight(x, d) /\ d \in Product /\ ProductRight(p, d, claim, unruly)
      /\ On(c) = About(x)
      /\ About(x) # None => About(x) \in Skus /\ ClaimRight(x, productDoc, claim[About(x)], unruly)
  BY ThisCall DEF P
<1>2. /\ Op(c) = x.cmd.op /\ Want(c) = x.cmd.want /\ x.cmd.op \in {"upsert", "edit", "restore"}
      /\ Saves(x) <=> x.cmd.op # "restore"
      /\ From(c) = IF x.cmd.op = "restore" THEN None ELSE d.sku
      /\ x.doc.life = d.life /\ x.doc.sku = d.sku /\ x.doc.owed = d.owed
  <2>1. x.doc.life = d.life /\ x.doc.sku = d.sku /\ x.doc.owed = d.owed
    BY <1>1, ProductFields DEF ReadsRight
  <2>2. x.cmd.op \in {"upsert", "edit", "restore"}
    BY <1>1 DEF OnItsWay
  <2> QED BY <2>1, <2>2 DEF Op, Want, From, Saves
<1>3. /\ x.hold => /\ About(x) \in Skus
                   /\ p \in unruly' \/ (claim[About(x)].live /\ claim[About(x)].by = p)
      /\ Saves(x) /\ x.cmd.want # None => x.hold
      /\ Saves(x) => x.cmd.want \in {None, d.sku} \/ d.owed = {}
      /\ ~Saves(x) => d.life = "deleted"
      /\ About(x) = IF x.cmd.op = "restore" THEN d.sku ELSE x.cmd.want
  <2>1. x.hold => About(x) # None
    BY <1>1 DEF OnItsWay
  <2>2. x.hold => /\ About(x) \in Skus
                  /\ p \in unruly' \/ (claim[About(x)].live /\ claim[About(x)].by = p)
    BY <1>1, <2>1 DEF ClaimRight
  <2>3. ~x.done
    BY <1>1 DEF OnItsWay
  <2>4. /\ Saves(x) /\ x.cmd.want # None => x.hold
        /\ Saves(x) => x.cmd.want \in {None, d.sku} \/ d.owed = {}
    BY <1>1, <1>2, <2>3 DEF OnItsWay, ReadsRight, Claiming
  <2>5. ~Saves(x) => d.life = "deleted"
    BY <1>1, <1>2 DEF ReadsRight
  <2>6. About(x) = IF x.cmd.op = "restore" THEN d.sku ELSE x.cmd.want
    BY <1>2 DEF About
  <2> QED BY <2>2, <2>4, <2>5, <2>6
<1>4. /\ w = [life |-> IF x.cmd.op = "restore" \/ d.life = "absent" THEN "live" ELSE d.life,
              sku  |-> IF x.hold THEN About(x) ELSE IF x.cmd.op = "restore" THEN None ELSE d.sku,
              key  |-> x.cmd.key,
              owed |-> IF x.cmd.op = "restore" THEN d.owed ELSE d.owed \cup NewCarry(c)]
  BY <1>1, <1>2 DEF Written
<1>5. /\ w.life = IF x.cmd.op = "restore" \/ d.life = "absent" THEN "live" ELSE d.life
      /\ w.sku = IF x.hold THEN About(x) ELSE IF x.cmd.op = "restore" THEN None ELSE d.sku
      /\ w.owed = IF x.cmd.op = "restore" THEN d.owed ELSE d.owed \cup NewCarry(c)
  BY <1>4
<1>6. /\ d.life \in {"absent", "live", "deleted"} /\ d.sku \in Skus \cup {None}
      /\ d.owed \in SUBSET Carry /\ x.cmd.key \in Keys \cup {None}
      /\ x.cmd.want \in Skus \cup {None}
      /\ Saves(x) => x.cmd.key \in Keys
  BY <1>1, ProductFields, CommandFields DEF OnItsWay
<1>7. /\ d.life = "absent" => d.sku = None /\ d.owed = {}
      /\ \A q, r \in d.owed : q = r
      /\ \A r \in d.owed : /\ r.from # r.to /\ d.sku \in {None, r.to}
                           /\ p \in unruly' \/ (claim[r.from].live /\ claim[r.from].by = p)
      /\ d.life = "live" /\ d.sku # None =>
           p \in unruly' \/ (claim[d.sku].live /\ claim[d.sku].by = p)
  BY <1>1 DEF ProductRight
<1>8. Renames(c) <=> Saves(x) /\ d.sku # None /\ x.cmd.want \notin {None, d.sku}
  BY <1>2 DEF Renames
<1> DEFINE r0 == [key |-> x.cmd.key, from |-> d.sku, to |-> x.cmd.want]
<1>9. NewCarry(c) = IF Renames(c) THEN {r0} ELSE {}
  BY <1>2, <1>8 DEF NewCarry
<1>10. Renames(c) => r0 \in Carry /\ r0.from = d.sku /\ r0.to = x.cmd.want
  BY <1>6, <1>8 DEF Carry
<1>11. w \in Product
  <2>1. w.life \in {"absent", "live", "deleted"} /\ w.sku \in Skus \cup {None}
    BY <1>3, <1>5, <1>6
  <2>2. w.owed \in SUBSET Carry
    BY <1>5, <1>6, <1>9, <1>10
  <2> QED BY <1>4, <1>6, <2>1, <2>2 DEF Product
<1>12. Op(c) # "restore" => NewCarry(c) \in SUBSET Carry /\ NewCarry(c) \subseteq w.owed
  BY <1>2, <1>5, <1>9, <1>10
<1> HIDE DEF x, p, d, w, r0
<1>13. CASE x.cmd.op = "restore"
  <2>1. /\ w.life = "live" /\ w.owed = d.owed /\ About(x) = d.sku
        /\ w.sku = IF x.hold THEN d.sku ELSE None
        /\ x.hold => p \in unruly' \/ (claim[d.sku].live /\ claim[d.sku].by = p)
    BY <1>3, <1>5, <1>13
  <2>2. ProductRight(p, w, claim, unruly')
    BY <1>7, <2>1 DEF ProductRight
  <2>3. \A s \in Skus : \/ LeftBy(productDoc, p, s) => /\ w.life = "live" => w.sku # s
                                                       /\ \A r \in w.owed : r.from # s
                        \/ x.hold /\ s = About(x)
    BY <2>1, NoneApart DEF LeftBy, d
  <2> QED BY <1>11, <1>12, <2>2, <2>3 DEF x, p, w
<1>14. CASE x.cmd.op # "restore" /\ ~Renames(c)
  <2>1. /\ Saves(x) /\ w.owed = d.owed /\ About(x) = x.cmd.want
        /\ w.life = IF d.life = "absent" THEN "live" ELSE d.life
        /\ w.sku = IF x.hold THEN x.cmd.want ELSE d.sku
        /\ d.sku = None \/ x.cmd.want \in {None, d.sku}
        /\ x.hold => x.cmd.want \in Skus
    BY <1>2, <1>3, <1>5, <1>8, <1>9, <1>14
  <2>2. ProductRight(p, w, claim, unruly')
    <3>1. CASE x.hold
      <4>1. /\ w.sku = x.cmd.want /\ x.cmd.want # None
            /\ p \in unruly' \/ (claim[w.sku].live /\ claim[w.sku].by = p)
        BY <1>3, <2>1, <3>1, NoneApart
      <4>2. d.sku = x.cmd.want \/ d.owed = {}
        BY <1>3, <2>1, <4>1
      <4> QED BY <1>7, <2>1, <4>1, <4>2 DEF ProductRight
    <3>2. CASE ~x.hold
      BY <1>7, <2>1, <3>2 DEF ProductRight
    <3> QED BY <3>1, <3>2
  <2>3. \A s \in Skus : \/ LeftBy(productDoc, p, s) => /\ w.life = "live" => w.sku # s
                                                       /\ \A r \in w.owed : r.from # s
                        \/ x.hold /\ s = About(x)
    BY <1>7, <2>1, NoneApart DEF LeftBy, d
  <2> QED BY <1>11, <1>12, <2>2, <2>3 DEF x, p, w
<1>15. CASE Renames(c)
  <2>1. /\ Saves(x) /\ d.sku # None /\ x.cmd.want \notin {None, d.sku} /\ x.hold
        /\ d.owed = {} /\ About(x) = x.cmd.want
        /\ d.life = "deleted" => p \in unruly'
    BY <1>2, <1>3, <1>8, <1>9, <1>15 DEF x, p
  <2>2. p \in unruly' \/ (d.life = "live" /\ claim[d.sku].live /\ claim[d.sku].by = p)
    BY <1>6, <1>7, <2>1
  <2>3. /\ w.owed = {r0} /\ w.life # "absent" /\ w.sku = x.cmd.want
        /\ p \in unruly' \/ (claim[w.sku].live /\ claim[w.sku].by = p)
        /\ r0.from = d.sku /\ r0.to = x.cmd.want
    BY <1>2, <1>3, <1>5, <1>9, <1>10, <1>15, <2>1, <2>2
  <2>4. ProductRight(p, w, claim, unruly')
    BY <2>1, <2>2, <2>3 DEF ProductRight
  <2>5. p \notin unruly' => \A s \in Skus :
          \/ LeftBy(productDoc, p, s) => /\ w.life = "live" => w.sku # s
                                         /\ \A r \in w.owed : r.from # s
          \/ x.hold /\ s = About(x)
    BY <2>1, <2>2, <2>3 DEF LeftBy, d
  <2> QED BY <1>11, <1>12, <2>4, <2>5 DEF x, p, w
<1> QED BY <1>13, <1>14, <1>15

LEMMA CommitProductStep == ASSUME OwnersInv, NEW c \in Calls, CommitProduct(c) PROVE OwnersInv'
<1> DEFINE x == call[c]
           p == P(c)
           w == Written(c)
           m == [NoCall EXCEPT !.cmd = x.cmd, !.todo = NewCarry(c), !.done = TRUE, !.at = "settle",
                               !.met = x.met]
           n == IF Op(c) = "restore" \/ ~Renames(c) THEN NoCall ELSE m
<1>1. x.at = "commit" /\ claim' = claim /\ inventory' = inventory /\ begun' = begun
  BY DEF CommitProduct
<1>2. /\ x \in Call /\ OnItsWay(x) /\ x.cmd \in Command /\ p \in Products /\ p = x.cmd.p
      /\ About(x) # None => About(x) \in Skus /\ ClaimRight(x, productDoc, claim[About(x)], unruly)
      /\ productDoc \in [Products -> Product] /\ Op(c) = x.cmd.op
  BY <1>1, ThisCall, OwnersInvNow DEF P, Op, OwnersTypeOK
<1>3. begun' \in 0..MaxBegun /\ inventory' \in [Skus -> {"absent", "empty", "units"}]
  BY <1>1, OwnersInvNow DEF OwnersTypeOK
<1>4. ASSUME Again(c, "read"), UNCHANGED <<productDoc, unruly>> PROVE OwnersInv'
  BY <1>1, <1>3, <1>4, AgainStep
<1>5. ASSUME x.current, productDoc' = [productDoc EXCEPT ![p] = w],
             NEW moved \in BOOLEAN, call' = [AfterProductWrite(p, moved) EXCEPT ![c] = n],
             unruly \subseteq unruly', unruly' \subseteq unruly \cup {p},
             x.doc.life = "deleted" /\ NewCarry(c) # {} => p \in unruly'
      PROVE OwnersInv'
  <2>1. /\ w \in Product /\ ProductRight(p, w, claim, unruly')
        /\ Op(c) # "restore" => NewCarry(c) \in SUBSET Carry /\ NewCarry(c) \subseteq w.owed
        /\ p \notin unruly' => \A s \in Skus :
             \/ LeftBy(productDoc, p, s) => /\ w.life = "live" => w.sku # s
                                            /\ \A r \in w.owed : r.from # s
             \/ x.hold /\ s = About(x)
    BY <1>1, <1>5, CommitWrites
  <2> DEFINE y == AfterProductWrite(p, moved)
  <2>2. /\ y \in [Calls -> Call]
        /\ \A e \in Calls : /\ Fades(call[e], y[e]) /\ y[e].fresh = call[e].fresh
                            /\ call[e].cmd.p = p => ~y[e].current
    BY <1>2, AfterProduct
  <2>3. /\ x.cmd.op \in {"upsert", "edit", "restore"} /\ Writes(x)
        /\ Saves(x) => x.cmd.key \in Keys
    BY <1>1, <1>2 DEF OnItsWay, Writes
  <2>4. Op(c) # "restore" => m \in Call
    <3> DEFINE t == NewCarry(c)
    <3>1. Op(c) # "restore" => t \in SUBSET Carry
      BY <2>1
    <3> HIDE DEF t
    <3>3. x.met \in BOOLEAN
      BY <1>2, CallFields
    <3>2. Op(c) # "restore" =>
            [NoCall EXCEPT !.cmd = x.cmd, !.todo = t, !.done = TRUE, !.at = "settle",
                           !.met = x.met] \in Call
      BY <1>2, <3>1, <3>3, NoCallType, ZenonT(60) DEF Call
    <3> QED BY <3>2 DEF t
  <2>5. /\ m.at = "settle" /\ m.cmd = x.cmd /\ m.todo = NewCarry(c) /\ m.done /\ ~m.current
        /\ ~m.fresh /\ ~m.hold /\ ~m.claimed /\ m.met = x.met
    BY DEF NoCall
  <2> HIDE DEF m, w, y
  <2>6. n \in Call
    BY <2>4, NoCallType
  <2>7. /\ call' \in [Calls -> Call] /\ call'[c] = n
        /\ \A e \in Calls \ {c} : call'[e] = y[e]
    BY <1>5, <2>2, <2>6 DEF y
  <2>8. productDoc'[p] = w
    BY <1>2, <1>5
  <2>9. CallRight(n, productDoc', claim, unruly') /\ Quiet(n, x)
    <3>1. CASE n = NoCall
      BY <3>1, NoCallRight, NoCallQuiet
    <3>2. CASE n = m /\ Op(c) # "restore"
      <4>1. Saves(m) = Saves(x) /\ Writes(m) = Writes(x) /\ Saves(x)
        BY <1>2, <2>3, <2>5, <3>2 DEF Saves, Writes
      <4>2. OnItsWay(m)
        BY <1>2, <2>3, <2>5, <3>2, <4>1 DEF OnItsWay, Claiming
      <4>3. ReadsRight(m, w)
        BY <1>2, <2>3, <2>5, <3>2 DEF ReadsRight
      <4>4. CarriesRight(m, w, unruly')
        BY <2>1, <2>5, <3>2 DEF CarriesRight
      <4>5. \A k : ClaimRight(m, productDoc', k, unruly')
        BY <2>5 DEF ClaimRight
      <4>6. Quiet(m, x)
        BY <2>5, <4>1 DEF Quiet, Follows
      <4> QED BY <1>2, <2>5, <2>8, <3>2, <4>2, <4>3, <4>4, <4>5, <4>6 DEF CallRight
    <3> QED BY <3>1, <3>2
  <2> HIDE DEF n
  <2>10. ASSUME NEW e \in Calls \ {c}
         PROVE /\ Apart(call'[c], call'[e]) /\ Apart(call'[e], call'[c])
               /\ Writes(call[e]) /\ call[e].cmd.p = p => call[e].met
               /\ Fades(call[e], call'[e]) /\ call'[e].fresh = call[e].fresh
               /\ call[e].cmd.p = p => ~call'[e].current
    <3>1. Apart(x, call[e]) /\ Apart(call[e], x)
      BY OwnersInvNow
    <3>2. /\ Fades(call[e], call'[e]) /\ call'[e].fresh = call[e].fresh
          /\ call[e].cmd.p = p => ~call'[e].current
      BY <2>2, <2>7
    <3>3. Writes(call[e]) /\ call[e].cmd.p = p => call[e].met
      BY <1>2, <2>3, <3>1 DEF Apart
    <3> QED BY <2>7, <2>9, <3>1, <3>2, <3>3, QuietApart
  <2>11. ASSUME p \notin unruly', NEW s \in Skus PROVE StaysLeft(c, p, s)
    <3>1. CASE x.hold /\ s = About(x)
      <4>1. About(x) # None
        BY <3>1, NoneApart
      <4>2. claim[s].by = p /\ ~claim[s].old
        BY <1>1, <1>2, <1>5, <2>11, <3>1, <4>1 DEF ClaimRight
      <4>3. \A e \in Calls \ {c} : Apart(call[e], x)
        BY OwnersInvNow
      <4> QED BY <1>1, <1>2, <1>5, <3>1, <4>2, <4>3 DEF StaysLeft, Apart
    <3>2. CASE ~(x.hold /\ s = About(x))
      <4>1. LeftBy(productDoc, p, s) => LeftBy(productDoc', p, s)
        BY <2>1, <2>8, <2>11, <3>2 DEF LeftBy
      <4> QED BY <4>1 DEF StaysLeft
    <3> QED BY <3>1, <3>2
  <2>12. CallRight(call'[c], productDoc', claim, unruly')
    BY <2>7, <2>9
  <2>13. unruly' \subseteq Products
    BY <1>2, <1>5, OwnersInvNow DEF OwnersTypeOK
  <2> HIDE DEF x, p
  <2>14. ProductMove(c, p, w)
    BY <1>1, <1>5, <2>1, <2>7, <2>10, <2>11, <2>12, <2>13 DEF ProductMove
  <2> QED BY <1>2, <2>1, <2>14, ProductStep
<1>6. \/ Again(c, "read") /\ UNCHANGED <<productDoc, unruly>>
      \/ /\ x.current /\ productDoc' = [productDoc EXCEPT ![p] = w]
         /\ unruly' = IF x.doc.life = "deleted" /\ NewCarry(c) # {} THEN unruly \cup {p} ELSE unruly
         /\ \E moved \in BOOLEAN : call' = [AfterProductWrite(p, moved) EXCEPT ![c] = n]
  <2> SUFFICES ASSUME ~(Again(c, "read") /\ UNCHANGED <<productDoc, unruly>>)
               PROVE /\ x.current /\ productDoc' = [productDoc EXCEPT ![p] = w]
                     /\ unruly' = IF x.doc.life = "deleted" /\ NewCarry(c) # {}
                                  THEN unruly \cup {p} ELSE unruly
                     /\ \E moved \in BOOLEAN : call' = [AfterProductWrite(p, moved) EXCEPT ![c] = n]
    OBVIOUS
  <2> DEFINE S == IF Op(c) = "upsert" /\ Written(c).sku = productDoc[p].sku THEN BOOLEAN ELSE {TRUE}
  <2>1. /\ x.current /\ productDoc' = [productDoc EXCEPT ![p] = w]
        /\ unruly' = IF x.doc.life = "deleted" /\ NewCarry(c) # {} THEN unruly \cup {p} ELSE unruly
        /\ \E moved \in S : call' = [AfterProductWrite(p, moved) EXCEPT ![c] = n]
    BY DEF CommitProduct
  <2>2. S \subseteq BOOLEAN
    OBVIOUS
  <2> HIDE DEF S, n
  <2> QED BY <2>1, <2>2
<1> QED BY <1>4, <1>5, <1>6

-----------------------------------------------------------------------------
(* The invariant *)

LEMMA OwnersStepRight == ASSUME OwnersInv, [OwnersNext]_ownersVars PROVE OwnersInv'
<1>1. CASE UNCHANGED ownersVars
  BY <1>1, OwnersInvNow, OwnersInvNext DEF ownersVars, OwnersTypeOK
<1>2. ASSUME NEW c \in Calls, CallStep(c) PROVE OwnersInv'
  BY <1>2, ReadStep, SettleCarriesStep, ClearStampStep, FreeStep, ReadClaimStep, JudgeStep, AgeStep,
     WithdrawResidueStep, LookStep, TakeClaimStep, PrepareStep, BeatStep, CommitProductStep,
     ReadOwnStep, BuryStep, UnclaimStep, UndoStep DEF CallStep
<1>3. ASSUME NEW c \in Calls, Throw(c) PROVE OwnersInv'
  BY <1>3, ThrowStep
<1>4. ASSUME NEW c \in Calls, CallCrash(c) PROVE OwnersInv'
  BY <1>4, CallCrashStep
<1>5. ASSUME NEW c \in Calls, NEW cmd \in Commands, Begin(c, cmd) PROVE OwnersInv'
  BY <1>5, BeginStep
<1>6. ASSUME NEW s \in Skus, Expire(s) \/ Stock(s) PROVE OwnersInv'
  BY <1>6, ExpireStep, StockStep
<1>7. ASSUME NEW p \in Products, Gate(p) PROVE OwnersInv'
  BY <1>7, GateStep
<1> QED BY <1>1, <1>2, <1>3, <1>4, <1>5, <1>6, <1>7 DEF OwnersNext

\* Whatever the calls, the meetings, the crashes and the leases, the documents of the products
\* that are not unruly owe one another what they should, and every call may rely on what it has
\* read; of an unruly product, one a call that met another has given a claim of back, one renamed
\* after its delete, or one whose lease lapsed under its judge, only what no claim bears.
THEOREM OwnersInvariant == OwnersSpec => []OwnersInv
<1>1. OwnersInit => OwnersInv
  BY OwnersInitRight
<1>2. OwnersInv /\ [OwnersNext]_ownersVars => OwnersInv'
  BY OwnersStepRight
<1> QED BY <1>1, <1>2, PTL DEF OwnersSpec

\* What the invariant says of the documents alone.
LEMMA OwnersInvariantGives ==
  OwnersInv => /\ OwnersTypeOK /\ SellersHoldClaims /\ OwedSkuStaysClaimed /\ CarriesGoHome
               /\ OneSellerPerSku /\ NobodySellsOwedUnits
<1> SUFFICES ASSUME OwnersInv
             PROVE /\ OwnersTypeOK /\ SellersHoldClaims /\ OwedSkuStaysClaimed /\ CarriesGoHome
                   /\ OneSellerPerSku /\ NobodySellsOwedUnits
  OBVIOUS
<1>1. OwnersTypeOK /\ \A p \in Products : ProductRight(p, productDoc[p], claim, unruly)
  BY OwnersInvNow
<1>2. SellersHoldClaims
  BY <1>1 DEF SellersHoldClaims, ProductRight, Owns
<1>3. OwedSkuStaysClaimed
  BY <1>1 DEF OwedSkuStaysClaimed, ProductRight, Owns
<1>4. CarriesGoHome
  BY <1>1 DEF CarriesGoHome, ProductRight
<1>5. OneSellerPerSku
  BY <1>2 DEF SellersHoldClaims, OneSellerPerSku, Owns
<1>6. NobodySellsOwedUnits
  <2> SUFFICES ASSUME NEW p \in Products \ unruly, NEW q \in Products \ unruly, p # q,
                      NEW r \in productDoc[p].owed, Backed(q, r.from)
               PROVE FALSE
    BY DEF NobodySellsOwedUnits
  <2>1. productDoc[p] \in Product
    BY <1>1 DEF OwnersTypeOK
  <2>2. r \in Carry
    BY <2>1, ProductFields
  <2>3. r.from # None
    BY <2>2, CarryFields, NoneApart
  <2>4. claim[r.from].by = p
    BY <1>3 DEF OwedSkuStaysClaimed, Owns
  <2>5. claim[r.from].by = q
    BY <1>2, <2>3 DEF SellersHoldClaims, Backed, Owns
  <2> QED BY <2>4, <2>5
<1> QED BY <1>1, <1>2, <1>3, <1>4, <1>5, <1>6

\* Live-sku ownership: a live product stands on a live claim of its own, unless it is unruly.
THEOREM SellersHoldClaimsHolds == OwnersSpec => []SellersHoldClaims
<1>1. OwnersSpec => []OwnersInv
  BY OwnersInvariant
<1>2. OwnersInv => SellersHoldClaims
  BY OwnersInvariantGives
<1> QED BY <1>1, <1>2, PTL

\* A sku whose units a product that is not unruly is still to carry away is nobody else's, at any
\* age of its claim.
THEOREM OwedSkuStaysClaimedHolds == OwnersSpec => []OwedSkuStaysClaimed
<1>1. OwnersSpec => []OwnersInv
  BY OwnersInvariant
<1>2. OwnersInv => OwedSkuStaysClaimed
  BY OwnersInvariantGives
<1> QED BY <1>1, <1>2, PTL

\* The units a live product is owed are on their way to the sku it sells under, unruly or not.
THEOREM CarriesGoHomeHolds == OwnersSpec => []CarriesGoHome
<1>1. OwnersSpec => []OwnersInv
  BY OwnersInvariant
<1>2. OwnersInv => CarriesGoHome
  BY OwnersInvariantGives
<1> QED BY <1>1, <1>2, PTL

\* No two live products sell under one sku, unless one of them is unruly.
THEOREM OneSellerPerSkuHolds == OwnersSpec => []OneSellerPerSku
<1>1. OwnersSpec => []OwnersInv
  BY OwnersInvariant
<1>2. OwnersInv => OneSellerPerSku
  BY OwnersInvariantGives
<1> QED BY <1>1, <1>2, PTL

\* Nobody sells a sku while another product is still to carry its units away, unless one of the
\* two is unruly.
THEOREM NobodySellsOwedUnitsHolds == OwnersSpec => []NobodySellsOwedUnits
<1>1. OwnersSpec => []OwnersInv
  BY OwnersInvariant
<1>2. OwnersInv => NobodySellsOwedUnits
  BY OwnersInvariantGives
<1> QED BY <1>1, <1>2, PTL

\* The documents and the calls keep the shapes the code gives them.
THEOREM OwnersTypes == OwnersSpec => []OwnersTypeOK
<1>1. OwnersSpec => []OwnersInv
  BY OwnersInvariant
<1>2. OwnersInv => OwnersTypeOK
  BY OwnersInvariantGives
<1> QED BY <1>1, <1>2, PTL
===============================================================================

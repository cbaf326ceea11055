-------------------------- MODULE Inventory_proofs --------------------------
(***************************************************************************)
(* Proofs about Inventory, for every value of its constants: IInv is an    *)
(* inductive invariant, hence the documents keep their types, a            *)
(* reservation's units move at most once each way, and no reserve is told  *)
(* a success whose units were not taken.  With UnitsStand beside it, every *)
(* step is a step of Holds: Inventory implements Holds, and an answered    *)
(* settle stays the truth.  And the books balance: the shelf and the units *)
(* off it for the reservations are together what was supplied.             *)
(***************************************************************************)
EXTENDS Inventory, TLAPS, FiniteSetTheorems

-----------------------------------------------------------------------------
(* What the helpers of the specification change *)

Steps == ReserveSteps \cup SettleSteps \cup {"idle"}
Others(p) == \A q \in Callers : q # p => call'[q] = call[q]
SameArgs(p) == /\ call'[p].op = call[p].op
               /\ call'[p].sku = call[p].sku
               /\ call'[p].qty = call[p].qty
               /\ call'[p].key = call[p].key
               /\ call'[p].rid = call[p].rid
               /\ call'[p].order = call[p].order

LEMMA GotoStep ==
  ASSUME call \in [Callers -> Call], NEW p \in Callers, NEW a \in Steps, Goto(p, a)
  PROVE /\ call' \in [Callers -> Call]
        /\ Others(p)
        /\ SameArgs(p)
        /\ call'[p].at = a
        /\ call'[p].ok = call[p].ok
        /\ call'[p].won = call[p].won
BY DEF Goto, Others, SameArgs, Steps, Call

LEMMA ReturnStep ==
  ASSUME call \in [Callers -> Call], NEW p \in Callers, Return(p)
  PROVE /\ call' \in [Callers -> Call]
        /\ Others(p)
        /\ call'[p].at = "idle"
BY DEF Return, Others, Idle, Call

LEMMA DecideStep ==
  ASSUME call \in [Callers -> Call], NEW p \in Callers, NEW a \in Steps, NEW b \in BOOLEAN,
         Decide(p, a, b)
  PROVE /\ call' \in [Callers -> Call]
        /\ Others(p)
        /\ SameArgs(p)
        /\ call'[p].at = a
        /\ call'[p].ok = b
<1> DEFINE m == [call EXCEPT ![p].at = a]
<1>1. /\ m \in [Callers -> Call]
      /\ \A q \in Callers : q # p => m[q] = call[q]
      /\ m[p].at = a /\ m[p].op = call[p].op /\ m[p].sku = call[p].sku /\ m[p].qty = call[p].qty
      /\ m[p].key = call[p].key /\ m[p].rid = call[p].rid /\ m[p].order = call[p].order
  BY DEF Steps, Call
<1>2. call' = [m EXCEPT ![p].ok = b]
  BY DEF Decide
<1> HIDE DEF m
<1> QED BY <1>1, <1>2 DEF Others, SameArgs, Call

LEMMA WinStep ==
  ASSUME call \in [Callers -> Call], NEW p \in Callers, NEW a \in Steps,
         NEW t \in Terminals, Win(p, a, t)
  PROVE /\ call' \in [Callers -> Call]
        /\ Others(p)
        /\ SameArgs(p)
        /\ call'[p].at = a
        /\ call'[p].won = t
<1> DEFINE m == [call EXCEPT ![p].at = a]
<1>1. /\ m \in [Callers -> Call]
      /\ \A q \in Callers : q # p => m[q] = call[q]
      /\ m[p].at = a /\ m[p].op = call[p].op /\ m[p].sku = call[p].sku /\ m[p].qty = call[p].qty
      /\ m[p].key = call[p].key /\ m[p].rid = call[p].rid /\ m[p].order = call[p].order
  BY DEF Steps, Call
<1>2. call' = [m EXCEPT ![p].won = t]
  BY DEF Win
<1> HIDE DEF m
<1> QED BY <1>1, <1>2 DEF Others, SameArgs, Call

LEMMA FollowStep ==
  ASSUME call \in [Callers -> Call], NEW p \in Callers, NEW a \in Steps,
         NEW s \in Skus, NEW n \in Nat, NEW r \in Ids, Follow(p, a, s, n, r)
  PROVE /\ call' \in [Callers -> Call]
        /\ Others(p)
        /\ call'[p].at = a
        /\ call'[p].sku = s
        /\ call'[p].qty = n
        /\ call'[p].rid = r
        /\ call'[p].key = call[p].key
<1> DEFINE m1 == [call EXCEPT ![p].at = a]
           m2 == [m1 EXCEPT ![p].sku = s]
           m3 == [m2 EXCEPT ![p].qty = n]
<1>1. m1 \in [Callers -> Call] /\ (\A q \in Callers : q # p => m1[q] = call[q])
      /\ m1[p].at = a /\ m1[p].key = call[p].key
  BY DEF Steps, Call
<1> HIDE DEF m1
<1>2. m2 \in [Callers -> Call] /\ (\A q \in Callers : q # p => m2[q] = call[q])
      /\ m2[p].at = a /\ m2[p].key = call[p].key /\ m2[p].sku = s
  BY <1>1 DEF Call
<1> HIDE DEF m2
<1>3. m3 \in [Callers -> Call] /\ (\A q \in Callers : q # p => m3[q] = call[q])
      /\ m3[p].at = a /\ m3[p].key = call[p].key /\ m3[p].sku = s /\ m3[p].qty = n
  BY <1>2 DEF Call
<1>4. call' = [m3 EXCEPT ![p].rid = r]
  BY DEF Follow, m1, m2, m3
<1> HIDE DEF m3
<1> QED BY <1>3, <1>4 DEF Others, Call

LEMMA WriteSkuStep ==
  ASSUME TypeOK, NEW s \in Skus, NEW k \in Keys, NEW n \in Nat, NEW h \in Hold, WriteSku(s, n, k, h)
  PROVE /\ onHand' \in [Skus -> Nat]
        /\ \A t \in Skus : onHand'[t] = IF t = s THEN n ELSE onHand[t]
        /\ hold' \in [Skus -> [Keys -> Hold]]
        /\ \A t \in Skus, j \in Keys :
             hold'[t][j] = IF t = s /\ j = k THEN h ELSE hold[t][j]
        /\ fresh' \subseteq fresh
        /\ \A p \in fresh' : call[p].sku # s
        /\ known' = known
BY DEF TypeOK, WriteSku

LEMMA MarkedStep ==
  ASSUME TypeOK, NEW k \in Keys, NEW b \in BOOLEAN, NEW r \in Ids \cup {None},
         keyDoc' = Marked(k, b, r)
  PROVE /\ keyDoc' \in [Keys -> KeyDoc]
        /\ \A j \in Keys : j # k => keyDoc'[j] = keyDoc[j]
        /\ keyDoc[k].state = "terminal" => keyDoc'[k] = keyDoc[k]
        /\ keyDoc[k].state # "terminal" => keyDoc'[k].rid = r /\ keyDoc'[k].ok = b
        /\ keyDoc'[k].state = "terminal"
BY DEF TypeOK, Marked, KeyDoc

LEMMA SettledStep ==
  ASSUME TypeOK, NEW r \in Ids, NEW t \in Terminals, idx' = Settled(r, t)
  PROVE /\ idx' \in [Ids -> Index]
        /\ \A i \in Ids : i # r => idx'[i] = idx[i]
        /\ idx'[r].sku = idx[r].sku
        /\ idx'[r].key = idx[r].key
        /\ idx'[r].term = IF idx[r].term = "absent" THEN "absent" ELSE Winner(r, t)
        /\ Winner(r, t) \in Terminals
<1>1. Winner(r, t) \in Terminals
  BY DEF Winner
<1>2. CASE idx[r].term = "absent"
  <2>1. idx' = idx
    BY <1>2 DEF Settled
  <2>2. idx' \in [Ids -> Index]
    BY <2>1 DEF TypeOK
  <2>3. idx'[r].term = "absent"
    BY <1>2, <2>1
  <2> QED BY <1>1, <1>2, <2>1, <2>2, <2>3
<1>3. CASE idx[r].term # "absent"
  <2> DEFINE w == Winner(r, t)
  <2>1. idx' = [idx EXCEPT ![r].term = w]
    BY <1>3 DEF Settled
  <2>2. w \in Terminals /\ idx \in [Ids -> Index]
    BY <1>1 DEF TypeOK
  <2> HIDE DEF w
  <2>3. /\ idx' \in [Ids -> Index]
        /\ \A i \in Ids : i # r => idx'[i] = idx[i]
        /\ idx'[r].sku = idx[r].sku /\ idx'[r].key = idx[r].key /\ idx'[r].term = w
    BY <2>1, <2>2 DEF Index
  <2> QED BY <1>1, <1>3, <2>3 DEF w
<1> QED BY <1>2, <1>3

-----------------------------------------------------------------------------
(* Steps that change no document of the invariant *)

\* A step of p that changes only its call, its reads and what callers were told.
LEMMA CallerStep ==
  ASSUME IInv, NEW p \in Callers,
         UNCHANGED <<onHand, known, hold, keyDoc, idx, supply, takes, out, owner>>,
         done' \in [Ids -> SUBSET Terminals],
         told' \in [Keys -> SUBSET (Ids \cup {None})],
         AnswersAgree',
         call' \in [Callers -> Call], Others(p),
         fresh' \subseteq fresh \cup {p},
         Completer(p)', \A q \in Callers : SameClaim(p, q)', Settler(p)',
         p \in fresh' => Reader(p)'
  PROVE IInv'
<1>0. \A q \in Callers : q # p => call'[q] = call[q]
  BY DEF Others
<1>1. ClaimsAgree'
  BY DEF IInv, ClaimsAgree, KeyIsTerminal
<1>2. HoldsAgree'
  BY DEF IInv, HoldsAgree, KeyIsTerminal, LiveHold
<1>3. TypeOK'
  BY DEF IInv, TypeOK
<1>4. CompletersAgree'
  <2>1. ASSUME NEW q \in Callers PROVE Completer(q)'
    <3>1. CASE q = p BY <3>1
    <3>2. CASE q # p BY <1>0, <3>2 DEF IInv, CompletersAgree, Completer, Claimed
    <3> QED BY <3>1, <3>2
  <2>2. ASSUME NEW q1 \in Callers, NEW q2 \in Callers PROVE SameClaim(q1, q2)'
    <3>1. CASE q1 = p BY <3>1
    <3>2. CASE q2 = p BY <3>2 DEF SameClaim
    <3>3. CASE q1 # p /\ q2 # p BY <1>0, <3>3 DEF IInv, CompletersAgree, SameClaim, Claimed
    <3> QED BY <3>1, <3>2, <3>3
  <2> QED BY <2>1, <2>2 DEF CompletersAgree
<1>5. ReadsAgree'
  <2>1. ASSUME NEW q \in fresh', q # p PROVE Reader(q)'
    <3>1. q \in fresh /\ call'[q] = call[q]
      BY <1>0, <2>1 DEF IInv, TypeOK
    <3> QED BY <3>1 DEF IInv, ReadsAgree, Reader
  <2> QED BY <2>1 DEF ReadsAgree
<1>6. SettlesAgree'
  <2>1. ASSUME NEW q \in Callers, q # p PROVE Settler(q)'
    BY <1>0, <2>1 DEF IInv, SettlesAgree, Settler, KeyIsTerminal
  <2> QED BY <2>1 DEF SettlesAgree
<1> QED BY <1>1, <1>2, <1>3, <1>4, <1>5, <1>6 DEF IInv

\* A caller that is idle, or in a step no other part of IInv speaks of.
Quiet(p) == \/ call[p].at = "idle"
            \/ /\ call[p].at \in {"key", "look", "refuse", "claim"}
               /\ call[p].sku # None
               /\ call[p].key # None
               /\ call[p].qty > 0

\* A step that changes p's call to a quiet one and none of the invariant's documents.
LEMMA QuietStep ==
  ASSUME IInv, NEW p \in Callers,
         UNCHANGED <<onHand, known, hold, keyDoc, idx, supply, takes, out, owner>>,
         done' \in [Ids -> SUBSET Terminals],
         told' \in [Keys -> SUBSET (Ids \cup {None})],
         AnswersAgree',
         call' \in [Callers -> Call], Others(p), p \notin fresh', fresh' \subseteq fresh,
         Quiet(p)'
  PROVE IInv'
<1>3. Completer(p)'
  BY DEF Quiet, Completer, Claimed, ReserveSteps
<1>4. \A q \in Callers : SameClaim(p, q)'
  BY DEF Quiet, SameClaim, Claimed
<1>5. Settler(p)'
  BY DEF Quiet, Settler, SettleSteps
<1>2. fresh' \subseteq fresh \cup {p}
  OBVIOUS
<1> QED BY <1>2, <1>3, <1>4, <1>5, CallerStep

LEMMA ToldKept == ASSUME IInv, UNCHANGED <<keyDoc, takes, told>> PROVE AnswersAgree'
BY DEF IInv, AnswersAgree, KeyIsTerminal

LEMMA BeginReserveStep ==
  ASSUME IInv, NEW p \in Callers, NEW m \in Requests, BeginReserve(p, m) PROVE IInv'
<1> USE NoneAssumption, QtyAssumption, RequestAssumption
<1>1. UNCHANGED <<onHand, known, hold, keyDoc, idx, fresh, supply, takes, out, owner, told,
                  done>>
  BY DEF BeginReserve, docs, history
<1>2. m.sku \in Skus /\ m.qty \in Nat /\ m.qty > 0 /\ m.key \in Keys
  <2>1. m \in [sku : Skus, qty : Qtys, key : Keys]
    OBVIOUS
  <2>2. m.qty \in Nat \ {0}
    BY <2>1
  <2> QED BY <2>1, <2>2
<1>3. call' \in [Callers -> Call] /\ Others(p) /\ Quiet(p)'
  BY <1>2 DEF Quiet, BeginReserve, IInv, TypeOK, Call, Idle, Others, ReserveSteps
<1>4. p \notin fresh
  BY DEF BeginReserve, IInv, ReadsAgree, Reader, Idle
<1>5. /\ done' \in [Ids -> SUBSET Terminals]
      /\ told' \in [Keys -> SUBSET (Ids \cup {None})]
      /\ AnswersAgree'
  BY <1>1, ToldKept DEF IInv, TypeOK
<1>6. fresh' \subseteq fresh /\ p \notin fresh'
  BY <1>1, <1>4
<1> QED BY <1>1, <1>3, <1>5, <1>6, QuietStep

LEMMA CrashStep == ASSUME IInv, NEW p \in Callers, Crash(p) PROVE IInv'
<1>1. UNCHANGED <<onHand, known, hold, keyDoc, idx, supply, takes, out, owner, told, done>>
  BY DEF Crash, docs, history
<1>2. call' \in [Callers -> Call] /\ Others(p) /\ Quiet(p)'
  BY ReturnStep DEF Crash, IInv, TypeOK, Quiet
<1>5. /\ done' \in [Ids -> SUBSET Terminals]
      /\ told' \in [Keys -> SUBSET (Ids \cup {None})]
      /\ AnswersAgree'
  BY <1>1, ToldKept DEF IInv, TypeOK
<1>6. fresh' \subseteq fresh /\ p \notin fresh'
  BY DEF Crash
<1> QED BY <1>1, <1>2, <1>5, <1>6, QuietStep

LEMMA LookStep == ASSUME IInv, NEW p \in Callers, Look(p) PROVE IInv'
<1>1. UNCHANGED <<onHand, known, hold, keyDoc, idx, fresh, supply, takes, out, owner, told,
                  done>>
  BY DEF Look, docs, history
<1>2. call[p].sku # None /\ call[p].key # None /\ call[p].qty > 0
  BY DEF Look, IInv, CompletersAgree, Completer, ReserveSteps
<1>3. /\ call' \in [Callers -> Call]
      /\ Others(p)
      /\ \/ call'[p].at = "idle"
         \/ call'[p].at \in {"refuse", "claim"} /\ SameArgs(p)
  <2>1. Return(p) \/ Goto(p, "refuse") \/ Goto(p, "claim")
    BY DEF Look
  <2>2. CASE Return(p) BY <2>2, ReturnStep DEF IInv, TypeOK
  <2>3. CASE Goto(p, "refuse") BY <2>3, GotoStep DEF IInv, TypeOK, Steps, ReserveSteps
  <2>4. CASE Goto(p, "claim") BY <2>4, GotoStep DEF IInv, TypeOK, Steps, ReserveSteps
  <2> QED BY <2>1, <2>2, <2>3, <2>4
<1>4. p \notin fresh
  BY DEF Look, IInv, ReadsAgree, Reader
<1>5. /\ done' \in [Ids -> SUBSET Terminals]
      /\ told' \in [Keys -> SUBSET (Ids \cup {None})]
      /\ AnswersAgree'
  BY <1>1, ToldKept DEF IInv, TypeOK
<1>6. Quiet(p)'
  BY <1>2, <1>3 DEF SameArgs, Quiet
<1>7. fresh' \subseteq fresh /\ p \notin fresh'
  BY <1>1, <1>4
<1> QED BY <1>1, <1>3, <1>5, <1>6, <1>7, QuietStep

LEMMA StutterStep == ASSUME IInv, UNCHANGED vars PROVE IInv'
<1> USE DEF vars, docs, history
<1>1. TypeOK'
  BY DEF IInv, TypeOK
<1>2. ClaimsAgree'
  BY DEF IInv, ClaimsAgree, KeyIsTerminal
<1>3. CompletersAgree'
  BY DEF IInv, CompletersAgree, Completer, SameClaim, Claimed
<1>4. HoldsAgree'
  BY DEF IInv, HoldsAgree, KeyIsTerminal, LiveHold
<1>5. ReadsAgree'
  BY DEF IInv, ReadsAgree, Reader
<1>6. AnswersAgree'
  BY DEF IInv, AnswersAgree, KeyIsTerminal
<1>7. SettlesAgree'
  BY DEF IInv, SettlesAgree, Settler, KeyIsTerminal
<1> QED BY <1>1, <1>2, <1>3, <1>4, <1>5, <1>6, <1>7 DEF IInv

-----------------------------------------------------------------------------
(* Steps of reserve that only read *)

\* The types of what a reserve reads.
LEMMA ReserveTypes ==
  ASSUME IInv, NEW p \in Callers, call[p].at \in ReserveSteps
  PROVE /\ call[p].sku \in Skus
        /\ call[p].key \in Keys
        /\ call[p].qty \in Nat /\ call[p].qty > 0
        /\ keyDoc[call[p].key] \in KeyDoc
        /\ Claimed(call[p]) => call[p].rid \in Ids
<1>1. Completer(p) /\ call[p] \in Call
  BY DEF IInv, CompletersAgree, TypeOK
<1>2. call[p].sku \in Skus /\ call[p].key \in Keys /\ call[p].qty \in Nat
      /\ call[p].qty > 0 /\ (Claimed(call[p]) => call[p].rid \in Ids)
  BY <1>1 DEF Completer, Call
<1> QED BY <1>2 DEF IInv, TypeOK

LEMMA ReadKeyStep == ASSUME IInv, NEW p \in Callers, ReadKey(p) PROVE IInv'
<1> DEFINE k == call[p].key
           d == keyDoc[k]
<1>1. UNCHANGED <<onHand, known, hold, keyDoc, idx, fresh, supply, takes, out, owner, done>>
  BY DEF ReadKey, docs
<1>2. call[p].at = "key" /\ call[p].at \in ReserveSteps
  BY DEF ReadKey, ReserveSteps
<1>3. p \notin fresh
  BY <1>2 DEF IInv, ReadsAgree, Reader
<1>4. k \in Keys /\ d \in KeyDoc /\ call[p].sku \in Skus /\ call[p].qty > 0
  BY <1>2, ReserveTypes
<1>5. /\ call \in [Callers -> Call] /\ told \in [Keys -> SUBSET (Ids \cup {None})]
     
      /\ done' \in [Ids -> SUBSET Terminals]
  BY <1>1 DEF IInv, TypeOK
<1>6. fresh' \subseteq fresh /\ p \notin fresh'
  BY <1>1, <1>3
<1>7. CASE d.state = "terminal" /\ Tell(k, IF d.ok THEN d.rid ELSE None) /\ Return(p)
  <2>1. call' \in [Callers -> Call] /\ Others(p) /\ Quiet(p)'
    BY <1>5, <1>7, ReturnStep DEF Quiet
  <2>2. d.ok => d.rid # None /\ takes[d.rid] = 1
    BY <1>4, <1>7 DEF IInv, AnswersAgree, KeyIsTerminal
  <2>3. told' = [told EXCEPT ![k] = @ \cup {IF d.ok THEN d.rid ELSE None}]
    BY <1>7 DEF Tell
  <2>4. told' \in [Keys -> SUBSET (Ids \cup {None})]
    BY <1>4, <1>5, <2>3 DEF KeyDoc
  <2>5. \A j \in Keys : \A r \in told'[j] \ {None} : takes[r] = 1
    BY <1>4, <1>5, <2>2, <2>3 DEF IInv, AnswersAgree
  <2>6. AnswersAgree'
    BY <1>1, <2>5 DEF IInv, AnswersAgree, KeyIsTerminal
  <2> QED BY <1>1, <1>5, <1>6, <2>1, <2>4, <2>6, QuietStep
<1>8. CASE d.state = "claimed" /\ Follow(p, "preread", d.sku, d.qty, d.rid) /\ UNCHANGED told
  <2>1. d.rid \in Ids /\ d.sku \in Skus /\ d.qty \in Nat /\ d.rid # None /\ d.sku # None /\ d.qty > 0
    BY <1>4, <1>8 DEF IInv, ClaimsAgree, KeyDoc
  <2>2. "preread" \in Steps
    BY DEF Steps, ReserveSteps
  <2>3. /\ call' \in [Callers -> Call] /\ Others(p) /\ call'[p].at = "preread"
        /\ call'[p].sku = d.sku /\ call'[p].rid = d.rid /\ call'[p].key = k /\ call'[p].qty = d.qty
    BY <1>5, <1>8, <2>1, <2>2, FollowStep
  <2>4. AnswersAgree' /\ told' \in [Keys -> SUBSET (Ids \cup {None})]
    BY <1>1, <1>5, <1>8, ToldKept
  <2>5. idx[d.rid].term # "absent" => idx[d.rid].sku = d.sku /\ idx[d.rid].key = k
    <3> SUFFICES ASSUME idx[d.rid].term # "absent"
                 PROVE idx[d.rid].sku = d.sku /\ idx[d.rid].key = k
      OBVIOUS
    <3>1. idx[d.rid].key \in Keys /\ keyDoc[idx[d.rid].key].rid = d.rid
      BY <2>1 DEF IInv, ClaimsAgree, TypeOK, Index
    <3>2. idx[d.rid].key = k
      BY <1>4, <2>1, <3>1 DEF IInv, ClaimsAgree
    <3> QED BY <1>8, <2>1, <3>2 DEF IInv, ClaimsAgree
  <2>6. Completer(p)'
    BY <1>1, <1>4, <2>1, <2>3, <2>5, NoneAssumption DEF Completer, Claimed, ReserveSteps
  <2>7. \A q \in Callers : SameClaim(p, q)'
    <3> SUFFICES ASSUME NEW q \in Callers, q # p, Claimed(call[q]), call[q].rid = d.rid
                 PROVE call[q].sku = d.sku
      BY <2>3 DEF SameClaim, Others
    <3>1. Completer(q) /\ call[q].at \in ReserveSteps
      BY DEF IInv, CompletersAgree, Claimed, ReserveSteps
    <3>2. call[q].key \in Keys /\ keyDoc[call[q].key].rid = d.rid
      BY <3>1, ReserveTypes DEF Completer
    <3>3. call[q].key = k
      BY <1>4, <2>1, <3>2 DEF IInv, ClaimsAgree
    <3> QED BY <1>8, <3>1, <3>3 DEF Completer
  <2>8. Settler(p)'
    BY <2>3 DEF Settler, SettleSteps
  <2>9. fresh' \subseteq fresh \cup {p}
    BY <1>6
  <2> QED BY <1>1, <1>5, <1>6, <2>3, <2>4, <2>6, <2>7, <2>8, <2>9, CallerStep
<1>9. CASE d.state = "absent" /\ Goto(p, "look") /\ UNCHANGED told
  <2>1. call' \in [Callers -> Call] /\ Others(p) /\ SameArgs(p) /\ call'[p].at = "look"
    BY <1>5, <1>9, GotoStep DEF Steps, ReserveSteps
  <2>2. AnswersAgree' /\ told' \in [Keys -> SUBSET (Ids \cup {None})]
    BY <1>1, <1>5, <1>9, ToldKept
  <2>3. Quiet(p)'
    BY <1>4, <2>1, NoneAssumption DEF Quiet, SameArgs
  <2> QED BY <1>1, <1>5, <1>6, <2>1, <2>2, <2>3, QuietStep
<1> QED BY <1>7, <1>8, <1>9 DEF ReadKey

\* A completer of a claim that moves on to another step of it, reading no answer.
LEMMA ClaimedStep ==
  ASSUME IInv, NEW p \in Callers, Claimed(call[p]),
         UNCHANGED <<docs, history>>,
         call' \in [Callers -> Call], Others(p), SameArgs(p),
         Claimed(call'[p]),
         call'[p].at \in {"load", "recheck", "write"} => idx[call[p].rid].term # "absent",
         call'[p].at = "mark" /\ call'[p].ok => takes[call[p].rid] = 1,
         fresh' \subseteq fresh \cup {p},
         p \in fresh' => Reader(p)'
  PROVE IInv'
<1>1. /\ UNCHANGED <<onHand, known, hold, keyDoc, idx, supply, takes, out, owner, done, told>>
  BY DEF docs, history
<1>2. Completer(p) /\ call[p].at \in ReserveSteps
  BY DEF IInv, CompletersAgree, Claimed, ReserveSteps
<1>3. Completer(p)'
  BY <1>1, <1>2 DEF Completer, SameArgs
<1>4. \A q \in Callers : SameClaim(p, q)'
  BY DEF IInv, CompletersAgree, SameClaim, SameArgs, Others
<1>5. Settler(p)'
  BY DEF Settler, Claimed, SettleSteps
<1>6. /\ done' \in [Ids -> SUBSET Terminals]
      /\ told' \in [Keys -> SUBSET (Ids \cup {None})]
      /\ AnswersAgree'
  BY <1>1, ToldKept DEF IInv, TypeOK
<1> QED BY <1>1, <1>3, <1>4, <1>5, <1>6, CallerStep

LEMMA PreReadStep == ASSUME IInv, NEW p \in Callers, PreRead(p) PROVE IInv'
<1>1. p \notin fresh' /\ fresh' \subseteq fresh \cup {p}
  BY DEF PreRead, IInv, ReadsAgree, Reader
<1>2. Claimed(call[p]) /\ UNCHANGED <<docs, history>> /\ call \in [Callers -> Call]
  BY DEF PreRead, Claimed, IInv, TypeOK
<1>3. /\ call' \in [Callers -> Call] /\ Others(p) /\ SameArgs(p)
      /\ \/ call'[p].at = "mark" /\ ~call'[p].ok
         \/ call'[p].at = "index"
  <2>1. Decide(p, "mark", FALSE) \/ Goto(p, "index")
    BY DEF PreRead
  <2>2. CASE Decide(p, "mark", FALSE) BY <1>2, <2>2, DecideStep DEF Steps, ReserveSteps
  <2>3. CASE Goto(p, "index") BY <1>2, <2>3, GotoStep DEF Steps, ReserveSteps
  <2> QED BY <2>1, <2>2, <2>3
<1>4. Claimed(call'[p])
  BY <1>3 DEF Claimed
<1> QED BY <1>1, <1>2, <1>3, <1>4, ClaimedStep

LEMMA LoadStep == ASSUME IInv, NEW p \in Callers, Load(p) PROVE IInv'
<1> DEFINE c == call[p]
           held == hold[c.sku][c.key].state # "none"
           enough == onHand[c.sku] >= c.qty
<1>1. c.at = "load" /\ Claimed(c) /\ c.at \in ReserveSteps
  BY DEF Load, Claimed, ReserveSteps
<1>2. c.sku \in Skus /\ c.key \in Keys /\ c.qty \in Nat /\ c.rid \in Ids
  BY <1>1, ReserveTypes
<1>3. UNCHANGED <<docs, history>> /\ call \in [Callers -> Call]
  BY DEF Load, IInv, TypeOK
<1>4. Completer(p) /\ idx[c.rid].term # "absent" /\ p \notin fresh
  BY <1>1 DEF IInv, CompletersAgree, Completer, Claimed, ReadsAgree, Reader
<1>5. CASE Decide(p, "mark", held) /\ UNCHANGED fresh
  <2>1. /\ call' \in [Callers -> Call] /\ Others(p) /\ SameArgs(p)
        /\ call'[p].at = "mark" /\ call'[p].ok = held
    BY <1>3, <1>5, DecideStep DEF Steps, ReserveSteps
  <2>2. held => takes[c.rid] = 1
    <3> SUFFICES ASSUME held PROVE takes[c.rid] = 1
      OBVIOUS
    <3>1. LET r == hold[c.sku][c.key].rid IN
            r \in Ids /\ takes[r] = 1 /\ idx[r].key = c.key /\ idx[r].term # "absent"
      BY <1>2 DEF IInv, HoldsAgree, TypeOK, Hold
    <3>2. hold[c.sku][c.key].rid = c.rid
      BY <1>1, <1>2, <1>4, <3>1 DEF IInv, ClaimsAgree, Completer
    <3> QED BY <3>1, <3>2
  <2>3. Claimed(call'[p]) /\ fresh' \subseteq fresh \cup {p} /\ p \notin fresh'
    BY <1>4, <1>5, <2>1 DEF Claimed
  <2> QED BY <1>1, <1>3, <2>1, <2>2, <2>3, ClaimedStep
<1>6. CASE ~held /\ Decide(p, "recheck", enough) /\ fresh' = fresh \cup {p}
  <2>1. enough \in BOOLEAN
    BY <1>2 DEF IInv, TypeOK
  <2>2. /\ call' \in [Callers -> Call] /\ Others(p) /\ SameArgs(p)
        /\ call'[p].at = "recheck" /\ call'[p].ok = enough
    BY ZenonT(60), <1>3, <1>6, <2>1, DecideStep DEF Steps, ReserveSteps
  <2>3. Reader(p)'
    BY <1>3, <1>6, <2>2 DEF Reader, SameArgs, docs
  <2>4. Claimed(call'[p]) /\ fresh' \subseteq fresh \cup {p}
    BY <1>6, <2>2 DEF Claimed
  <2> QED BY <1>1, <1>3, <1>4, <2>2, <2>3, <2>4, ClaimedStep
<1> QED BY <1>5, <1>6 DEF Load

LEMMA RecheckStep == ASSUME IInv, NEW p \in Callers, Recheck(p) PROVE IInv'
<1> DEFINE c == call[p]
           d == keyDoc[c.key]
           answer == d.state = "terminal" /\ d.ok
<1>1. c.at = "recheck" /\ Claimed(c) /\ c.at \in ReserveSteps
  BY DEF Recheck, Claimed, ReserveSteps
<1>2. c.sku \in Skus /\ c.key \in Keys /\ c.rid \in Ids /\ d \in KeyDoc
  BY <1>1, ReserveTypes
<1>3. UNCHANGED <<docs, history>> /\ call \in [Callers -> Call]
  BY DEF Recheck, IInv, TypeOK
<1>4. /\ Completer(p) /\ d.rid = c.rid /\ idx[c.rid].term # "absent"
      /\ idx[c.rid].sku = c.sku /\ idx[c.rid].key = c.key
  BY <1>1 DEF IInv, CompletersAgree, Completer, Claimed
<1>5. CASE Decide(p, "mark", answer) /\ fresh' = fresh \ {p}
  <2>1. answer \in BOOLEAN
    BY <1>2 DEF KeyDoc
  <2>2. /\ call' \in [Callers -> Call] /\ Others(p) /\ SameArgs(p)
        /\ call'[p].at = "mark" /\ call'[p].ok = answer
    BY <1>3, <1>5, <2>1, DecideStep DEF Steps, ReserveSteps
  <2>3. answer => takes[c.rid] = 1
    BY <1>2, <1>4 DEF IInv, AnswersAgree, KeyIsTerminal
  <2>4. Claimed(call'[p]) /\ fresh' \subseteq fresh \cup {p} /\ p \notin fresh'
    BY <1>5, <2>2 DEF Claimed
  <2> QED BY <1>1, <1>3, <2>2, <2>3, <2>4, ClaimedStep
<1>6. CASE d.state # "terminal" /\ c.ok /\ Goto(p, "write") /\ UNCHANGED fresh
  <2>1. /\ call' \in [Callers -> Call] /\ Others(p) /\ SameArgs(p)
        /\ call'[p].at = "write" /\ call'[p].ok = c.ok
    BY <1>3, <1>6, GotoStep DEF Steps, ReserveSteps
  <2>2. p \in fresh => Reader(p)'
    <3> SUFFICES ASSUME p \in fresh PROVE Reader(p)'
      OBVIOUS
    <3>1. hold[c.sku][c.key].state = "none" /\ (c.ok => onHand[c.sku] >= c.qty)
      BY DEF IInv, ReadsAgree, Reader
    <3>2. LiveHold(c.rid).state = "none"
      BY <1>4, <3>1 DEF LiveHold, NoHold
    <3>3. takes[c.rid] = 0
      BY <1>2, <1>4, <1>6, <3>2 DEF IInv, HoldsAgree, KeyIsTerminal
    <3> QED BY <1>3, <1>6, <2>1, <3>1, <3>3 DEF Reader, SameArgs, docs, history
  <2>3. Claimed(call'[p]) /\ fresh' \subseteq fresh \cup {p} /\ (p \in fresh' => Reader(p)')
    BY <1>6, <2>1, <2>2 DEF Claimed
  <2> QED BY <1>1, <1>3, <1>4, <2>1, <2>3, ClaimedStep
<1> QED BY <1>2, <1>5, <1>6 DEF Recheck, KeyDoc

-----------------------------------------------------------------------------
(* Steps of a settle that only read *)

\* A settle that moves to a step whose facts hold already, or ends.
LEMMA SettlerStep ==
  ASSUME IInv, NEW p \in Callers, call[p].at \in SettleSteps \cup {"idle"},
         UNCHANGED <<docs, fresh, supply, takes, out, owner, told>>,
         done' \in [Ids -> SUBSET Terminals],
         call' \in [Callers -> Call], Others(p),
         call'[p].at \in SettleSteps \cup {"idle"}, Settler(p)'
  PROVE IInv'
<1>1. UNCHANGED <<onHand, known, hold, keyDoc, idx, supply, takes, out, owner>>
  BY DEF docs
<1>2. Completer(p)' /\ (\A q \in Callers : SameClaim(p, q)')
  BY DEF Completer, SameClaim, Claimed, SettleSteps, ReserveSteps
<1>3. AnswersAgree' /\ told' \in [Keys -> SUBSET (Ids \cup {None})]
  BY <1>1, ToldKept DEF IInv, TypeOK
<1>4. fresh' \subseteq fresh \cup {p} /\ p \notin fresh'
  BY DEF IInv, ReadsAgree, Reader, SettleSteps
<1> QED BY <1>1, <1>2, <1>3, <1>4, CallerStep

\* What the steps of a settle know of the reservation they name.
LEMMA SettleTypes ==
  ASSUME IInv, NEW p \in Callers, call[p].at \in SettleSteps
  PROVE /\ call[p].rid \in Ids
        /\ takes[call[p].rid] = 1
        /\ idx[call[p].rid].term # "absent"
        /\ idx[call[p].rid].key \in Keys
        /\ idx[call[p].rid].sku \in Skus
        /\ idx[call[p].rid] \in Index
        /\ hold[idx[call[p].rid].sku][idx[call[p].rid].key] \in Hold
        /\ LiveHold(call[p].rid) \in Hold
        /\ keyDoc[idx[call[p].rid].key].rid = call[p].rid
<1> DEFINE r == call[p].rid
<1>1. Settler(p) /\ call[p] \in Call
  BY DEF IInv, SettlesAgree, TypeOK
<1>2. r \in Ids /\ takes[r] = 1
  BY <1>1 DEF Settler, Call
<1>3. idx[r].term # "absent" /\ idx[r] \in Index
  BY <1>2 DEF IInv, HoldsAgree, TypeOK
<1>4. idx[r].key \in Keys /\ idx[r].sku \in Skus /\ keyDoc[idx[r].key].rid = r
  BY <1>2, <1>3 DEF IInv, ClaimsAgree, Index
<1>5. hold[idx[r].sku][idx[r].key] \in Hold
  BY <1>4 DEF IInv, TypeOK
<1>6. NoHold \in Hold
  BY NoneAssumption DEF NoHold, Hold
<1> QED BY <1>2, <1>3, <1>4, <1>5, <1>6 DEF LiveHold

\* The conditions of a settle's later steps, spelled out for the step it goes to.
LEMMA SettlerGoes ==
  ASSUME IInv, NEW p \in Callers, call[p].at \in SettleSteps, UNCHANGED <<docs, takes>>,
         NEW a \in SettleSteps, Goto(p, a), a # "prune",
         a \in {"settle", "free", "freed"} => KeyIsTerminal(idx[call[p].rid].key)
  PROVE /\ call' \in [Callers -> Call] /\ Others(p)
        /\ call'[p].at \in SettleSteps \cup {"idle"}
        /\ Settler(p)'
<1>1. call' \in [Callers -> Call] /\ Others(p) /\ SameArgs(p) /\ call'[p].at = a
  BY GotoStep DEF IInv, TypeOK, Steps
<1>2. Settler(p)
  BY DEF IInv, SettlesAgree
<1> QED BY <1>1, <1>2 DEF Settler, SameArgs, KeyIsTerminal, docs

LEMMA SettlerReturns ==
  ASSUME IInv, NEW p \in Callers, Return(p)
  PROVE /\ call' \in [Callers -> Call] /\ Others(p)
        /\ call'[p].at \in SettleSteps \cup {"idle"}
        /\ Settler(p)'
BY ReturnStep DEF IInv, TypeOK, Settler, SettleSteps

LEMMA ReadHoldStep == ASSUME IInv, NEW p \in Callers, ReadHold(p) PROVE IInv'
<1>1. /\ call[p].at \in SettleSteps
      /\ UNCHANGED <<docs, fresh, history>>
      /\ Goto(p, "answer") \/ Goto(p, "gone") \/ Return(p)
  BY DEF ReadHold, SettleSteps
<1>2. UNCHANGED <<docs, fresh, supply, takes, out, owner, told>>
  BY <1>1 DEF history
<1>3. /\ call' \in [Callers -> Call] /\ Others(p)
      /\ call'[p].at \in SettleSteps \cup {"idle"}
      /\ Settler(p)'
  <2>1. CASE Goto(p, "answer") BY <1>1, <1>2, <2>1, SettlerGoes DEF SettleSteps
  <2>2. CASE Goto(p, "gone") BY <1>1, <1>2, <2>2, SettlerGoes DEF SettleSteps
  <2>3. CASE Return(p) BY <2>3, SettlerReturns
  <2> QED BY <1>1, <2>1, <2>2, <2>3
<1>4. done' \in [Ids -> SUBSET Terminals]
  BY <1>1 DEF history, IInv, TypeOK
<1> QED BY <1>1, <1>2, <1>3, <1>4, SettlerStep

LEMMA AnsweredType ==
  ASSUME IInv, NEW c, NEW t, Answered(c, t)
  PROVE done' \in [Ids -> SUBSET Terminals]
<1>1. done \in [Ids -> SUBSET Terminals]
  BY DEF IInv, TypeOK
<1>2. CASE t \in Terminals
  BY <1>1, <1>2 DEF Answered
<1>3. CASE t \notin Terminals
  BY <1>1, <1>3 DEF Answered, Terminals
<1> QED BY <1>2, <1>3

LEMMA GoneStep == ASSUME IInv, NEW p \in Callers, Gone(p) PROVE IInv'
<1> DEFINE t == idx[call[p].rid].term
<1>1. /\ call[p].at \in SettleSteps
      /\ UNCHANGED <<docs, fresh, supply, takes, out, owner, told>>
      /\ (Return(p) /\ Answered(call[p], t)) \/ (Goto(p, "goneKey") /\ UNCHANGED done)
  BY DEF Gone, SettleSteps
<1>2. /\ call' \in [Callers -> Call] /\ Others(p)
      /\ call'[p].at \in SettleSteps \cup {"idle"}
      /\ Settler(p)'
  <2>1. CASE Goto(p, "goneKey") BY <1>1, <2>1, SettlerGoes DEF SettleSteps
  <2>2. CASE Return(p) BY <2>2, SettlerReturns
  <2> QED BY <1>1, <2>1, <2>2
<1>3. done' \in [Ids -> SUBSET Terminals]
  BY <1>1, AnsweredType DEF IInv, TypeOK
<1>5. UNCHANGED <<docs, fresh, supply, takes, out, owner, told>>
  BY <1>1
<1> QED BY <1>1, <1>2, <1>3, <1>5, SettlerStep

LEMMA GoneKeyStep == ASSUME IInv, NEW p \in Callers, GoneKey(p) PROVE IInv'
<1>1. /\ call[p].at \in SettleSteps
      /\ UNCHANGED <<docs, fresh, history>>
      /\ (Goto(p, "freed") /\ KeyIsTerminal(idx[call[p].rid].key)) \/ Return(p)
  BY DEF GoneKey, SettleSteps, KeyIsTerminal
<1>2. UNCHANGED <<docs, fresh, supply, takes, out, owner, told>>
  BY <1>1 DEF history
<1>3. /\ call' \in [Callers -> Call] /\ Others(p)
      /\ call'[p].at \in SettleSteps \cup {"idle"}
      /\ Settler(p)'
  <2>1. CASE Goto(p, "freed") /\ KeyIsTerminal(idx[call[p].rid].key)
    BY <1>1, <1>2, <2>1, SettlerGoes DEF SettleSteps
  <2>2. CASE Return(p) BY <2>2, SettlerReturns
  <2> QED BY <1>1, <2>1, <2>2
<1>4. done' \in [Ids -> SUBSET Terminals]
  BY <1>1 DEF history, IInv, TypeOK
<1> QED BY <1>1, <1>2, <1>3, <1>4, SettlerStep

LEMMA BeginSettleStep ==
  ASSUME IInv, NEW p \in Callers, NEW op \in Calls, NEW r \in Ids, NEW o \in Orders \cup {None},
         BeginSettle(p, op, r, o)
  PROVE IInv'
<1>1. /\ call[p].at \in SettleSteps \cup {"idle"}
      /\ UNCHANGED <<docs, fresh, supply, takes, out, owner, told, done>>
      /\ op \in Settles \cup Flips
      /\ r \in Given
  BY DEF BeginSettle, Idle
<1>2. PICK at \in SettleSteps :
        /\ IF idx[r].term = "open" \/ op = "adopt"
           THEN at = IF op \in Flips THEN "flip" ELSE "live"
           ELSE at = "prune" /\ op \in Settles
        /\ call' = [call EXCEPT ![p] = [Idle EXCEPT !.at = at, !.op = op, !.rid = r,
                                                      !.order = o, !.won = idx[r].term]]
  BY DEF BeginSettle
<1>3. takes[r] = 1 /\ r # None
  BY <1>1, NoneAssumption DEF Given, IInv, AnswersAgree
<1>4. idx[r].term \in Terminals \cup {"absent", "open"} /\ call \in [Callers -> Call]
  BY DEF IInv, TypeOK, Index
<1>5. /\ call' \in [Callers -> Call] /\ Others(p)
      /\ call'[p].at = at /\ call'[p].rid = r /\ call'[p].won = idx[r].term
  BY <1>1, <1>2, <1>4 DEF Call, Idle, Others
<1>6. Settler(p)'
  <2>1. at \in {"flip", "live", "prune"} /\ (at = "prune" => idx[r].term # "open")
    BY <1>2
  <2> QED BY <1>1, <1>3, <1>5, <2>1 DEF Settler, docs
<1>8. done' \in [Ids -> SUBSET Terminals] /\ call'[p].at \in SettleSteps \cup {"idle"}
  BY <1>1, <1>5 DEF IInv, TypeOK
<1>9. UNCHANGED <<docs, fresh, supply, takes, out, owner, told>>
  BY <1>1
<1> QED BY <1>1, <1>5, <1>6, <1>8, <1>9, SettlerStep

-----------------------------------------------------------------------------
(* Steps that write the key document *)

\* The types of the histories no document step of the invariant depends on.
HistoryOK == /\ done' \in [Ids -> SUBSET Terminals]
             /\ told' \in [Keys -> SUBSET (Ids \cup {None})]
             /\ \A k \in Keys : \A r \in told'[k] \ {None} : takes'[r] = 1

\* What p's new step knows.
Placed(p) == /\ call' \in [Callers -> Call]
             /\ Others(p)
             /\ Completer(p)'
             /\ \A q \in Callers : SameClaim(p, q)'
             /\ Settler(p)'

LEMMA HistoryKept ==
  ASSUME IInv, UNCHANGED <<takes, done, told>> PROVE HistoryOK
BY DEF IInv, AnswersAgree, TypeOK, HistoryOK

\* Two callers agree on a claim when neither changes its call, or p is placed.
LEMMA SameClaims ==
  ASSUME IInv, NEW p \in Callers, Placed(p), NEW q1 \in Callers, NEW q2 \in Callers
  PROVE SameClaim(q1, q2)'
<1>1. CASE q1 = p BY <1>1 DEF Placed
<1>2. CASE q2 = p BY <1>2 DEF Placed, SameClaim
<1>3. CASE q1 # p /\ q2 # p
  BY <1>3 DEF Placed, Others, IInv, CompletersAgree, SameClaim, Claimed
<1> QED BY <1>1, <1>2, <1>3

LEMMA KeyStep ==
  ASSUME IInv, NEW p \in Callers, NEW k \in Keys,
         UNCHANGED <<onHand, known, hold, idx, fresh, supply, takes, out, owner>>,
         p \notin fresh, HistoryOK, Placed(p),
         keyDoc' \in [Keys -> KeyDoc],
         \A j \in Keys : j # k => keyDoc'[j] = keyDoc[j],
         keyDoc'[k].state = "terminal",
         keyDoc'[k].rid = keyDoc[k].rid,
         keyDoc'[k].ok => keyDoc'[k].rid # None /\ takes[keyDoc'[k].rid] = 1
  PROVE IInv'
<1>1. TypeOK'
  BY DEF IInv, TypeOK, HistoryOK, Placed
<1>2. \A j \in Keys : KeyIsTerminal(j) => KeyIsTerminal(j)'
  BY DEF KeyIsTerminal
<1>3. \A j \in Keys : keyDoc'[j].rid = keyDoc[j].rid
  OBVIOUS
<1>4. ClaimsAgree'
  <2>1. \A k1, k2 \in Keys :
          k1 # k2 /\ keyDoc'[k1].rid # None => keyDoc'[k1].rid # keyDoc'[k2].rid
    BY <1>3 DEF IInv, ClaimsAgree
  <2>2. /\ \A j \in Keys : keyDoc'[j].state = "absent" => keyDoc'[j].rid = None
        /\ \A j \in Keys : keyDoc'[j].state = "claimed" =>
                             keyDoc'[j].rid # None /\ keyDoc'[j].sku # None /\ keyDoc'[j].qty > 0
    BY DEF IInv, ClaimsAgree
  <2>3. ASSUME NEW r \in Ids, idx[r].term # "absent"
        PROVE /\ idx[r].key # None /\ idx[r].sku # None
              /\ keyDoc'[idx[r].key].rid = r
              /\ keyDoc'[idx[r].key].state = "claimed" => keyDoc'[idx[r].key].sku = idx[r].sku
              /\ idx[r].term \in {"committed", "released"} => KeyIsTerminal(idx[r].key)'
    <3>1. idx[r].key \in Keys
      BY <2>3 DEF IInv, ClaimsAgree, TypeOK, Index
    <3>2. idx'[r].key = idx[r].key
      OBVIOUS
    <3> QED BY <1>2, <1>3, <2>3, <3>1, <3>2 DEF IInv, ClaimsAgree, KeyIsTerminal
  <2> QED BY <2>1, <2>2, <2>3 DEF ClaimsAgree, KeyIsTerminal
<1>5. CompletersAgree'
  <2>1. ASSUME NEW q \in Callers, q # p PROVE Completer(q)'
    <3>1. Completer(q) /\ call'[q] = call[q] /\ call[q] \in Call
      BY <2>1 DEF IInv, CompletersAgree, Placed, Others, TypeOK
    <3>2. Claimed(call[q]) => call[q].key \in Keys
      BY <3>1 DEF Completer, Claimed, ReserveSteps, Call
    <3> QED BY <1>3, <3>1, <3>2 DEF Completer, Claimed
  <2> QED BY <2>1, SameClaims DEF CompletersAgree, Placed
<1>6. HoldsAgree'
  <2>1. ASSUME NEW r \in Ids, takes[r] = 1 PROVE idx[r].key \in Keys
    BY <2>1 DEF IInv, HoldsAgree, ClaimsAgree, TypeOK, Index
  <2> QED BY <1>2, <2>1 DEF IInv, HoldsAgree, LiveHold, KeyIsTerminal
<1>7. ReadsAgree'
  BY DEF IInv, ReadsAgree, Reader, Placed, Others, TypeOK
<1>8. AnswersAgree'
  BY DEF IInv, AnswersAgree, KeyIsTerminal, HistoryOK
<1>9. SettlesAgree'
  <2>1. ASSUME NEW q \in Callers, q # p PROVE Settler(q)'
    <3>1. Settler(q) /\ call'[q] = call[q] /\ call[q] \in Call
      BY <2>1 DEF IInv, SettlesAgree, Placed, Others, TypeOK
    <3>2. call[q].at \in SettleSteps => idx[call[q].rid].key \in Keys
      BY SettleTypes
    <3> QED BY <1>2, <3>1, <3>2 DEF Settler, KeyIsTerminal
  <2> QED BY <2>1 DEF SettlesAgree, Placed
<1> QED BY <1>1, <1>4, <1>5, <1>6, <1>7, <1>8, <1>9 DEF IInv

LEMMA QuietPlaced ==
  ASSUME IInv, NEW p \in Callers, call' \in [Callers -> Call], Others(p), Quiet(p)'
  PROVE Placed(p)
<1>1. Completer(p)'
  BY DEF Quiet, Completer, Claimed, ReserveSteps
<1>2. \A q \in Callers : SameClaim(p, q)'
  BY DEF Quiet, SameClaim, Claimed
<1>3. Settler(p)'
  BY DEF Quiet, Settler, SettleSteps
<1> QED BY <1>1, <1>2, <1>3 DEF Placed

\* Only callers about to write hold the stored revision.
LEMMA FreshAt == ASSUME IInv, NEW p \in fresh PROVE call[p].at \in {"recheck", "write"}
BY DEF IInv, ReadsAgree, Reader

LEMMA RefuseStep == ASSUME IInv, NEW p \in Callers, Refuse(p) PROVE IInv'
<1> DEFINE k == call[p].key
<1>1. call[p].at = "refuse" /\ call[p].at \in ReserveSteps /\ p \notin fresh
  BY FreshAt DEF Refuse, ReserveSteps
<1>2. k \in Keys /\ call[p].sku \in Skus /\ call[p].qty > 0 /\ call \in [Callers -> Call]
  BY <1>1, ReserveTypes DEF IInv, TypeOK
<1>3. UNCHANGED <<onHand, known, hold, idx, fresh, supply, takes, out, owner, done>>
  BY DEF Refuse, aggregate
<1>4. CASE keyDoc[k].state = "absent" /\ keyDoc' = Marked(k, FALSE, None) /\ Tell(k, None) /\ Return(p)
  <2>1. Placed(p)
    BY <1>2, <1>4, ReturnStep, QuietPlaced DEF Quiet
  <2>2. HistoryOK
    <3>1. told' = [told EXCEPT ![k] = @ \cup {None}]
      BY <1>4 DEF Tell
    <3>2. told \in [Keys -> SUBSET (Ids \cup {None})]
          /\ \A j \in Keys : \A r \in told[j] \ {None} : takes[r] = 1
      BY DEF IInv, TypeOK, AnswersAgree
    <3>3. told' \in [Keys -> SUBSET (Ids \cup {None})]
          /\ \A j \in Keys : \A r \in told'[j] \ {None} : takes[r] = 1
      BY <1>2, <3>1, <3>2
    <3> QED BY <1>3, <3>3 DEF HistoryOK, IInv, TypeOK
  <2>3. /\ keyDoc' \in [Keys -> KeyDoc]
        /\ \A j \in Keys : j # k => keyDoc'[j] = keyDoc[j]
        /\ keyDoc'[k].state = "terminal" /\ keyDoc'[k].rid = None /\ ~keyDoc'[k].ok
    BY ZenonT(60), <1>2, <1>4, MarkedStep DEF IInv
  <2>4. keyDoc[k].rid = None
    BY <1>2, <1>4 DEF IInv, ClaimsAgree
  <2> QED BY <1>1, <1>2, <1>3, <2>1, <2>2, <2>3, <2>4, KeyStep
<1>5. CASE Goto(p, "key") /\ UNCHANGED <<keyDoc, told>>
  <2>1. call' \in [Callers -> Call] /\ Others(p) /\ SameArgs(p) /\ call'[p].at = "key"
    BY <1>2, <1>5, GotoStep DEF Steps, ReserveSteps
  <2>2. Quiet(p)'
    BY <1>2, <2>1, NoneAssumption DEF Quiet, SameArgs
  <2>3. AnswersAgree'
        /\ done' \in [Ids -> SUBSET Terminals] /\ told' \in [Keys -> SUBSET (Ids \cup {None})]
    BY <1>3, <1>5, ToldKept DEF IInv, TypeOK
  <2>4. p \notin fresh' /\ fresh' \subseteq fresh
    BY <1>1, <1>3
  <2> QED BY <1>3, <1>5, <2>1, <2>2, <2>3, <2>4, QuietStep
<1> QED BY <1>4, <1>5 DEF Refuse

LEMMA ClaimStep == ASSUME IInv, NEW p \in Callers, Claim(p) PROVE IInv'
<1> DEFINE k == call[p].key
           s == call[p].sku
           n == call[p].qty
<1>1. call[p].at = "claim" /\ call[p].at \in ReserveSteps /\ p \notin fresh
  BY FreshAt DEF Claim, ReserveSteps
<1>2. k \in Keys /\ s \in Skus /\ n \in Nat /\ n > 0 /\ call \in [Callers -> Call]
      /\ keyDoc \in [Keys -> KeyDoc]
  BY <1>1, ReserveTypes DEF IInv, TypeOK
<1>3. UNCHANGED <<onHand, known, hold, idx, fresh, supply, takes, out, owner, told, done>>
  BY DEF Claim, aggregate, history
<1>4. ASSUME keyDoc[k].state = "absent", NEW r \in Unminted,
             keyDoc' = [keyDoc EXCEPT ![k] =
                          [state |-> "claimed", sku |-> s, qty |-> n, rid |-> r, ok |-> FALSE]],
             Follow(p, "index", s, n, r)
      PROVE IInv'
  <2>1. r \in Ids /\ r # None /\ s # None /\ \A j \in Keys : keyDoc[j].rid # r
    BY <1>2, NoneAssumption DEF Unminted
  <2>2. /\ keyDoc' \in [Keys -> KeyDoc]
        /\ \A j \in Keys : j # k => keyDoc'[j] = keyDoc[j]
        /\ keyDoc'[k].state = "claimed" /\ keyDoc'[k].sku = s /\ keyDoc'[k].rid = r
        /\ keyDoc'[k].qty = n /\ ~keyDoc'[k].ok
    BY <1>2, <1>4, <2>1 DEF KeyDoc
  <2>3. /\ call' \in [Callers -> Call] /\ Others(p) /\ call'[p].at = "index"
        /\ call'[p].sku = s /\ call'[p].rid = r /\ call'[p].key = k /\ call'[p].qty = n
    BY <1>2, <1>4, <2>1, FollowStep DEF Steps, ReserveSteps
  <2>4. keyDoc[k].rid = None
    BY <1>2, <1>4 DEF IInv, ClaimsAgree
  <2>5. ASSUME NEW i \in Ids, idx[i].term # "absent"
        PROVE i # r /\ idx[i].key \in Keys /\ idx[i].key # k /\ keyDoc[idx[i].key].rid = i
    <3>1. idx[i].key \in Keys /\ keyDoc[idx[i].key].rid = i
      BY <2>5 DEF IInv, ClaimsAgree, TypeOK, Index
    <3> QED BY <2>1, <2>4, <3>1, NoneAssumption
  <2>6. ASSUME NEW q \in Callers, Claimed(call[q])
        PROVE call[q].key \in Keys /\ call[q].key # k /\ call[q].rid # r
    <3>1. call[q].at \in ReserveSteps /\ Completer(q)
      BY <2>6 DEF IInv, CompletersAgree, Claimed, ReserveSteps
    <3>2. call[q].key \in Keys /\ keyDoc[call[q].key].rid = call[q].rid /\ call[q].rid # None
      BY <2>6, <3>1, ReserveTypes DEF Completer
    <3> QED BY <2>1, <2>4, <3>2
  <2>7. TypeOK'
    BY <1>3, <2>2, <2>3 DEF IInv, TypeOK
  <2>8. ClaimsAgree'
    <3>1. \A k1, k2 \in Keys :
            k1 # k2 /\ keyDoc'[k1].rid # None => keyDoc'[k1].rid # keyDoc'[k2].rid
      BY <2>1, <2>2 DEF IInv, ClaimsAgree
    <3>2. /\ \A j \in Keys : keyDoc'[j].state = "absent" => keyDoc'[j].rid = None
          /\ \A j \in Keys : keyDoc'[j].state = "claimed" =>
                               keyDoc'[j].rid # None /\ keyDoc'[j].sku # None /\ keyDoc'[j].qty > 0
      BY <1>2, <2>1, <2>2 DEF IInv, ClaimsAgree
    <3>3. ASSUME NEW i \in Ids, idx[i].term # "absent"
          PROVE keyDoc'[idx[i].key] = keyDoc[idx[i].key]
      BY <2>2, <2>5, <3>3
    <3> QED BY <1>3, <3>1, <3>2, <3>3 DEF IInv, ClaimsAgree, KeyIsTerminal
  <2>9. Placed(p)
    <3>1. idx[r].term = "absent"
      BY <2>1, <2>5
    <3>2. Completer(p)'
      BY <1>2, <1>3, <2>1, <2>2, <2>3, <3>1, NoneAssumption DEF Completer, Claimed
    <3>3. \A q \in Callers : SameClaim(p, q)'
      BY <2>3, <2>6 DEF SameClaim, Others
    <3>4. Settler(p)'
      BY <2>3 DEF Settler, SettleSteps
    <3> QED BY <2>3, <3>2, <3>3, <3>4 DEF Placed
  <2>10. CompletersAgree'
    <3>1. ASSUME NEW q \in Callers, q # p PROVE Completer(q)'
      <4>1. Completer(q) /\ call'[q] = call[q]
        BY <2>3, <3>1 DEF IInv, CompletersAgree, Others
      <4> QED BY <1>3, <2>2, <2>6, <4>1 DEF Completer
    <3> QED BY <2>9, <3>1, SameClaims DEF CompletersAgree, Placed
  <2>11. HoldsAgree'
    <3>1. ASSUME NEW i \in Ids, takes[i] = 1 PROVE keyDoc'[idx[i].key] = keyDoc[idx[i].key]
      BY <2>2, <2>5, <3>1 DEF IInv, HoldsAgree
    <3> QED BY <1>3, <3>1 DEF IInv, HoldsAgree, LiveHold, KeyIsTerminal
  <2>12. ReadsAgree'
    BY <1>1, <1>3, <2>3 DEF IInv, ReadsAgree, Reader, Others, TypeOK
  <2>13. AnswersAgree'
    BY <1>3, <2>2 DEF IInv, AnswersAgree, KeyIsTerminal
  <2>14. SettlesAgree'
    <3>1. ASSUME NEW q \in Callers, q # p PROVE Settler(q)'
      <4>1. Settler(q) /\ call'[q] = call[q]
        BY <2>3, <3>1 DEF IInv, SettlesAgree, Others
      <4>2. call[q].at \in SettleSteps => keyDoc'[idx[call[q].rid].key] = keyDoc[idx[call[q].rid].key]
        BY <2>2, <2>5, SettleTypes
      <4> QED BY <1>3, <4>1, <4>2 DEF Settler, KeyIsTerminal
    <3> QED BY <2>9, <3>1 DEF SettlesAgree, Placed
  <2> QED BY <2>7, <2>8, <2>10, <2>11, <2>12, <2>13, <2>14 DEF IInv
<1>5. CASE Goto(p, "key") /\ UNCHANGED keyDoc
  <2>1. call' \in [Callers -> Call] /\ Others(p) /\ SameArgs(p) /\ call'[p].at = "key"
    BY <1>2, <1>5, GotoStep DEF Steps, ReserveSteps
  <2>2. Quiet(p)'
    BY <1>2, <2>1, NoneAssumption DEF Quiet, SameArgs
  <2>3. AnswersAgree'
        /\ done' \in [Ids -> SUBSET Terminals] /\ told' \in [Keys -> SUBSET (Ids \cup {None})]
    BY <1>3, <1>5, ToldKept DEF IInv, TypeOK
  <2>4. p \notin fresh' /\ fresh' \subseteq fresh
    BY <1>1, <1>3
  <2> QED BY <1>3, <1>5, <2>1, <2>2, <2>3, <2>4, QuietStep
<1> QED BY <1>4, <1>5 DEF Claim

LEMMA MarkKeyStep == ASSUME IInv, NEW p \in Callers, MarkKey(p) PROVE IInv'
<1> DEFINE c == call[p]
           k == c.key
           r == c.rid
<1>1. c.at = "mark" /\ c.at \in ReserveSteps /\ Claimed(c) /\ p \notin fresh
  BY FreshAt DEF MarkKey, ReserveSteps, Claimed
<1>2. k \in Keys /\ r \in Ids /\ r # None /\ call \in [Callers -> Call] /\ c.ok \in BOOLEAN
  BY <1>1, ReserveTypes, NoneAssumption DEF IInv, TypeOK, Call
<1>3. Completer(p) /\ keyDoc[k].rid = r /\ (c.ok => takes[r] = 1)
  BY <1>1 DEF IInv, CompletersAgree, Completer
<1>4. UNCHANGED <<onHand, known, hold, idx, fresh, supply, takes, out, owner, done>>
  BY DEF MarkKey, aggregate
<1>5. /\ keyDoc' \in [Keys -> KeyDoc]
      /\ \A j \in Keys : j # k => keyDoc'[j] = keyDoc[j]
      /\ keyDoc'[k].state = "terminal" /\ keyDoc'[k].rid = r
      /\ keyDoc'[k].ok => takes[r] = 1
  <2>1. keyDoc' = Marked(k, c.ok, r)
    BY DEF MarkKey
  <2>2. keyDoc[k].state = "terminal" /\ keyDoc[k].ok => takes[r] = 1
    BY <1>2, <1>3 DEF IInv, AnswersAgree, KeyIsTerminal
  <2> QED BY <1>2, <1>3, <2>1, <2>2, MarkedStep DEF IInv
<1>6. Placed(p)
  <2>1. CASE Return(p)
    BY <1>2, <2>1, ReturnStep, QuietPlaced DEF Quiet
  <2>2. CASE Goto(p, "fail")
    <3>1. call' \in [Callers -> Call] /\ Others(p) /\ SameArgs(p) /\ call'[p].at = "fail"
      BY <1>2, <2>2, GotoStep DEF Steps, ReserveSteps
    <3>2. Completer(p)'
      BY <1>1, <1>3, <1>4, <1>5, <3>1 DEF Completer, SameArgs, Claimed
    <3>3. \A q \in Callers : SameClaim(p, q)'
      BY <1>1, <3>1 DEF IInv, CompletersAgree, SameClaim, SameArgs, Others
    <3>4. Settler(p)'
      BY <3>1 DEF Settler, SettleSteps
    <3> QED BY <3>1, <3>2, <3>3, <3>4 DEF Placed
  <2> QED BY <2>1, <2>2 DEF MarkKey
<1>7. HistoryOK
  <2>1. (c.ok /\ told' = [told EXCEPT ![k] = @ \cup {r}]) \/ UNCHANGED told
    BY DEF MarkKey, Tell
  <2>2. told \in [Keys -> SUBSET (Ids \cup {None})]
        /\ \A j \in Keys : \A i \in told[j] \ {None} : takes[i] = 1
    BY DEF IInv, TypeOK, AnswersAgree
  <2>3. told' \in [Keys -> SUBSET (Ids \cup {None})]
        /\ \A j \in Keys : \A i \in told'[j] \ {None} : takes[i] = 1
    BY <1>2, <1>3, <2>1, <2>2
  <2> QED BY <1>4, <2>3 DEF HistoryOK, IInv, TypeOK
<1> QED BY <1>1, <1>2, <1>3, <1>4, <1>5, <1>6, <1>7, KeyStep

LEMMA RecordAnswerStep == ASSUME IInv, NEW p \in Callers, RecordAnswer(p) PROVE IInv'
<1> DEFINE c == call[p]
           r == c.rid
           k == idx[r].key
<1>1. c.at = "answer" /\ c.at \in SettleSteps /\ p \notin fresh
  BY FreshAt DEF RecordAnswer, SettleSteps
<1>2. r \in Ids /\ r # None /\ takes[r] = 1 /\ k \in Keys /\ keyDoc[k].rid = r
      /\ call \in [Callers -> Call]
  BY <1>1, SettleTypes, NoneAssumption DEF IInv, TypeOK
<1>3. UNCHANGED <<onHand, known, hold, idx, fresh, supply, takes, out, owner, told, done>>
  BY DEF RecordAnswer, aggregate, history
<1>4. /\ keyDoc' \in [Keys -> KeyDoc]
      /\ \A j \in Keys : j # k => keyDoc'[j] = keyDoc[j]
      /\ keyDoc'[k].state = "terminal" /\ keyDoc'[k].rid = r
  <2>1. keyDoc' = Marked(k, TRUE, r)
    BY DEF RecordAnswer
  <2> QED BY <1>2, <2>1, MarkedStep DEF IInv
<1>5. Placed(p)
  <2>1. /\ call' \in [Callers -> Call] /\ Others(p) /\ SameArgs(p)
        /\ call'[p].at \in {"free", "settle"}
    <3>1. CASE Goto(p, "free")
      BY <1>2, <3>1, GotoStep DEF Steps, SettleSteps
    <3>2. CASE Goto(p, "settle")
      BY <1>2, <3>2, GotoStep DEF Steps, SettleSteps
    <3> QED BY <3>1, <3>2 DEF RecordAnswer
  <2>2. Completer(p)' /\ \A q \in Callers : SameClaim(p, q)'
    BY <2>1 DEF Completer, SameClaim, Claimed, ReserveSteps
  <2>3. Settler(p)'
    BY <1>2, <1>3, <1>4, <2>1 DEF Settler, SameArgs, KeyIsTerminal
  <2> QED BY <2>1, <2>2, <2>3 DEF Placed
<1>6. HistoryOK
  BY <1>3, HistoryKept
<1> QED BY <1>1, <1>2, <1>3, <1>4, <1>5, <1>6, KeyStep

-----------------------------------------------------------------------------
(* Steps that write the index document *)

LEMMA IndexStep ==
  ASSUME IInv, NEW p \in Callers, NEW r \in Ids,
         UNCHANGED <<onHand, known, hold, keyDoc, fresh, supply, takes, out, owner>>,
         p \notin fresh, HistoryOK, Placed(p),
         idx' \in [Ids -> Index],
         \A i \in Ids : i # r => idx'[i] = idx[i],
         idx'[r].term # "absent",
         idx[r].term # "absent" => idx'[r].sku = idx[r].sku /\ idx'[r].key = idx[r].key,
         idx[r].term \in Terminals => idx'[r].term = idx[r].term,
         idx'[r].key # None, idx'[r].sku # None,
         keyDoc[idx'[r].key].rid = r,
         keyDoc[idx'[r].key].state = "claimed" => keyDoc[idx'[r].key].sku = idx'[r].sku,
         idx'[r].term \in {"committed", "released"} => KeyIsTerminal(idx'[r].key),
         \A q \in Callers : Claimed(call[q]) /\ call[q].rid = r => call[q].sku = idx'[r].sku
  PROVE IInv'
<1>1. TypeOK'
  BY DEF IInv, TypeOK, HistoryOK, Placed
<1>2. ClaimsAgree'
  BY DEF IInv, ClaimsAgree, KeyIsTerminal
<1>3. CompletersAgree'
  <2>1. ASSUME NEW q \in Callers, q # p PROVE Completer(q)'
    <3>1. Completer(q) /\ call'[q] = call[q]
      BY <2>1 DEF IInv, CompletersAgree, Placed, Others
    <3>2. CASE Claimed(call[q]) /\ call[q].rid = r
      <4>1. call[q].key \in Keys /\ keyDoc[call[q].key].rid = r /\ call[q].at \in ReserveSteps
        BY <3>1, <3>2, ReserveTypes DEF Completer, Claimed, ReserveSteps
      <4>2. idx'[r].key \in Keys
        BY DEF Index
      <4>3. idx'[r].key = call[q].key
        BY <4>1, <4>2, NoneAssumption DEF IInv, ClaimsAgree
      <4> QED BY <3>1, <3>2, <4>3 DEF Completer, Claimed
    <3>3. CASE Claimed(call[q]) /\ call[q].rid # r
      <4>1. call[q].rid \in Ids
        BY <3>3, ReserveTypes DEF Claimed, ReserveSteps
      <4>2. idx'[call[q].rid] = idx[call[q].rid]
        BY <3>3, <4>1
      <4> QED BY <3>1, <3>3, <4>2 DEF Completer, Claimed
    <3>4. CASE ~Claimed(call[q])
      BY <3>1, <3>4 DEF Completer, Claimed
    <3> QED BY <3>2, <3>3, <3>4
  <2> QED BY <2>1, SameClaims DEF CompletersAgree, Placed
<1>4. HoldsAgree'
  <2>1. ASSUME NEW s \in Skus, NEW k \in Keys, hold[s][k].state # "none"
        PROVE LET i == hold[s][k].rid IN
                /\ idx'[i].term # "absent" /\ idx'[i].sku = s /\ idx'[i].key = k
                /\ takes[i] = 1 /\ out[i] = hold[s][k].qty
    <3>1. hold[s][k].rid \in Ids
      BY <2>1 DEF IInv, HoldsAgree, TypeOK, Hold
    <3> QED BY <2>1, <3>1 DEF IInv, HoldsAgree
  <2>2. ASSUME NEW i \in Ids
        PROVE /\ takes[i] \in {0, 1}
              /\ takes[i] = 0 => out[i] = 0
              /\ takes[i] = 1 => /\ idx'[i].term # "absent"
                                 /\ out[i] >= 0
                                 /\ LiveHold(i)'.state = "none" => KeyIsTerminal(idx'[i].key)
    <3>1. CASE takes[i] = 1
      <4>1. idx[i].term # "absent" /\ idx'[i].term # "absent"
        BY <3>1 DEF IInv, HoldsAgree
      <4>2. idx'[i].sku = idx[i].sku /\ idx'[i].key = idx[i].key
        BY <4>1
      <4>3. LiveHold(i)' = LiveHold(i)
        BY <4>2 DEF LiveHold
      <4> QED BY <3>1, <4>1, <4>2, <4>3 DEF IInv, HoldsAgree
    <3> QED BY <3>1 DEF IInv, HoldsAgree
  <2> QED BY <2>1, <2>2 DEF IInv, HoldsAgree, KeyIsTerminal
<1>5. ReadsAgree'
  BY DEF IInv, ReadsAgree, Reader, Placed, Others, TypeOK
<1>6. AnswersAgree'
  BY DEF IInv, AnswersAgree, KeyIsTerminal, HistoryOK
<1>7. SettlesAgree'
  <2>1. ASSUME NEW q \in Callers, q # p PROVE Settler(q)'
    <3>1. Settler(q) /\ call'[q] = call[q]
      BY <2>1 DEF IInv, SettlesAgree, Placed, Others
    <3>2. CASE call[q].at \in SettleSteps
      <4>1. call[q].rid \in Ids /\ idx[call[q].rid].term # "absent" /\ idx[call[q].rid] \in Index
        BY <3>2, SettleTypes
      <4>2. idx'[call[q].rid].key = idx[call[q].rid].key
        BY <4>1
      <4>3. idx[call[q].rid].term \in Terminals => idx'[call[q].rid].term = idx[call[q].rid].term
        BY <4>1
      <4>4. idx[call[q].rid].term # "open" => idx[call[q].rid].term \in Terminals
        BY <4>1 DEF Index
      <4> QED BY <3>1, <4>2, <4>3, <4>4 DEF Settler, KeyIsTerminal
    <3> QED BY <3>1, <3>2 DEF Settler
  <2> QED BY <2>1 DEF SettlesAgree, Placed
<1> QED BY <1>1, <1>2, <1>3, <1>4, <1>5, <1>6, <1>7 DEF IInv

LEMMA WriteIndexStep == ASSUME IInv, NEW p \in Callers, WriteIndex(p) PROVE IInv'
<1> DEFINE c == call[p]
           r == c.rid
<1>1. c.at = "index" /\ c.at \in ReserveSteps /\ Claimed(c) /\ p \notin fresh
  BY FreshAt DEF WriteIndex, ReserveSteps, Claimed
<1>2. c.key \in Keys /\ c.sku \in Skus /\ r \in Ids /\ call \in [Callers -> Call]
      /\ idx \in [Ids -> Index]
  BY <1>1, ReserveTypes DEF IInv, TypeOK
<1>3. /\ Completer(p) /\ keyDoc[c.key].rid = r
      /\ keyDoc[c.key].state = "claimed" => keyDoc[c.key].sku = c.sku
      /\ idx[r].term # "absent" => idx[r].sku = c.sku /\ idx[r].key = c.key
  BY <1>1 DEF IInv, CompletersAgree, Completer
<1>4. UNCHANGED <<onHand, known, hold, keyDoc, fresh, supply, takes, out, owner, told, done>>
  BY DEF WriteIndex, aggregate, history
<1>5. /\ idx' \in [Ids -> Index]
      /\ \A i \in Ids : i # r => idx'[i] = idx[i]
      /\ idx'[r].sku = c.sku /\ idx'[r].key = c.key
      /\ idx'[r].term = IF idx[r].term = "absent" THEN "open" ELSE idx[r].term
  <2>1. CASE idx[r].term # "absent"
    BY <1>2, <1>3, <2>1 DEF WriteIndex
  <2>2. CASE idx[r].term = "absent"
    <3>1. idx' = [idx EXCEPT ![r] = [sku |-> c.sku, key |-> c.key, term |-> "open"]]
      BY <2>2 DEF WriteIndex
    <3> QED BY <1>2, <2>2, <3>1 DEF Index
  <2> QED BY <2>1, <2>2
<1>6. call' \in [Callers -> Call] /\ Others(p) /\ SameArgs(p) /\ call'[p].at = "load"
  BY <1>2, GotoStep DEF WriteIndex, Steps, ReserveSteps
<1>7. Placed(p)
  <2>1. Completer(p)'
    BY <1>1, <1>3, <1>4, <1>5, <1>6 DEF Completer, SameArgs, Claimed
  <2>2. \A q \in Callers : SameClaim(p, q)'
    BY <1>1, <1>6 DEF IInv, CompletersAgree, SameClaim, SameArgs, Others
  <2>3. Settler(p)'
    BY <1>6 DEF Settler, SettleSteps
  <2> QED BY <1>6, <2>1, <2>2, <2>3 DEF Placed
<1>8. HistoryOK
  BY <1>4, HistoryKept
<1>9. \A q \in Callers : Claimed(call[q]) /\ call[q].rid = r => call[q].sku = idx'[r].sku
  BY <1>1, <1>5 DEF IInv, CompletersAgree, SameClaim
<1>10. idx[r].term \in {"committed", "released"} => KeyIsTerminal(c.key)
  BY <1>2, <1>3 DEF IInv, ClaimsAgree
<1>11. idx'[r].key # None /\ idx'[r].sku # None
  BY <1>2, <1>5, NoneAssumption
<1>12. /\ idx'[r].term # "absent"
       /\ idx[r].term # "absent" => idx'[r].sku = idx[r].sku /\ idx'[r].key = idx[r].key
       /\ idx[r].term \in Terminals => idx'[r].term = idx[r].term
       /\ keyDoc[idx'[r].key].rid = r
       /\ keyDoc[idx'[r].key].state = "claimed" => keyDoc[idx'[r].key].sku = idx'[r].sku
       /\ idx'[r].term \in {"committed", "released"} => KeyIsTerminal(idx'[r].key)
  BY <1>3, <1>5, <1>10 DEF Terminals
<1> QED BY <1>1, <1>2, <1>4, <1>5, <1>7, <1>8, <1>9, <1>11, <1>12, IndexStep

\* #setTerminalState by a caller whose new step is in place.
LEMMA TerminalStep ==
  ASSUME IInv, NEW p \in Callers, NEW r \in Ids, NEW t \in Terminals,
         UNCHANGED <<onHand, known, hold, keyDoc, fresh, supply, takes, out, owner>>,
         p \notin fresh, HistoryOK, Placed(p),
         idx' = Settled(r, t), idx[r].term # "absent",
         t = "failed" \/ KeyIsTerminal(idx[r].key)
  PROVE IInv'
<1>1. /\ idx' \in [Ids -> Index]
      /\ \A i \in Ids : i # r => idx'[i] = idx[i]
      /\ idx'[r].sku = idx[r].sku /\ idx'[r].key = idx[r].key
      /\ idx'[r].term = Winner(r, t)
      /\ Winner(r, t) \in Terminals
  BY SettledStep DEF IInv
<1>2. /\ idx[r].key # None /\ idx[r].sku # None /\ keyDoc[idx[r].key].rid = r
      /\ keyDoc[idx[r].key].state = "claimed" => keyDoc[idx[r].key].sku = idx[r].sku
      /\ idx[r].term \in {"committed", "released"} => KeyIsTerminal(idx[r].key)
  BY DEF IInv, ClaimsAgree
<1>3. Winner(r, t) = IF idx[r].term \in Terminals THEN idx[r].term ELSE t
  BY DEF Winner
<1>4. idx'[r].term \in {"committed", "released"} => KeyIsTerminal(idx'[r].key)
  BY <1>1, <1>2, <1>3
<1>5. \A q \in Callers : Claimed(call[q]) /\ call[q].rid = r => call[q].sku = idx'[r].sku
  BY <1>1 DEF IInv, CompletersAgree, Completer
<1>6. /\ idx'[r].term # "absent"
      /\ idx[r].term \in Terminals => idx'[r].term = idx[r].term
  BY <1>1, <1>3 DEF Terminals
<1> QED BY <1>1, <1>2, <1>4, <1>5, <1>6, IndexStep

LEMMA FailStep == ASSUME IInv, NEW p \in Callers, Fail(p) PROVE IInv'
<1> DEFINE r == call[p].rid
           k == call[p].key
<1>1. call[p].at = "fail" /\ call[p].at \in ReserveSteps /\ p \notin fresh
  BY FreshAt DEF Fail, ReserveSteps
<1>2. r \in Ids /\ k \in Keys /\ call \in [Callers -> Call]
  BY <1>1, ReserveTypes DEF IInv, TypeOK, Claimed
<1>3. UNCHANGED <<onHand, known, hold, keyDoc, fresh, supply, takes, out, owner, done>>
  BY DEF Fail, aggregate
<1>4. call' \in [Callers -> Call] /\ Others(p) /\ Quiet(p)'
  BY <1>2, ReturnStep DEF Fail, Quiet
<1>5. HistoryOK
  <2>1. told' = [told EXCEPT ![k] = @ \cup {None}]
    BY DEF Fail, Tell
  <2>2. told \in [Keys -> SUBSET (Ids \cup {None})]
        /\ \A j \in Keys : \A i \in told[j] \ {None} : takes[i] = 1
    BY DEF IInv, TypeOK, AnswersAgree
  <2>3. told' \in [Keys -> SUBSET (Ids \cup {None})]
        /\ \A j \in Keys : \A i \in told'[j] \ {None} : takes[i] = 1
    BY <1>2, <2>1, <2>2
  <2> QED BY <1>3, <2>3 DEF HistoryOK, IInv, TypeOK
<1>6. idx' = Settled(r, "failed")
  BY DEF Fail
<1>7. CASE idx[r].term # "absent"
  BY <1>1, <1>2, <1>3, <1>4, <1>5, <1>6, <1>7, QuietPlaced, TerminalStep DEF Terminals
<1>8. CASE idx[r].term = "absent"
  <2>1. UNCHANGED idx
    BY <1>6, <1>8 DEF Settled
  <2>2. AnswersAgree'
    BY <1>3, <1>5 DEF IInv, AnswersAgree, KeyIsTerminal, HistoryOK
  <2>3. p \notin fresh' /\ fresh' \subseteq fresh
    BY <1>1, <1>3
  <2> QED BY <1>3, <1>4, <1>5, <2>1, <2>2, <2>3, QuietStep DEF HistoryOK
<1> QED BY <1>7, <1>8

LEMMA SettleTerminalStep == ASSUME IInv, NEW p \in Callers, SettleTerminal(p) PROVE IInv'
<1> DEFINE r == call[p].rid
           t == IF call[p].op = "commit" THEN "committed" ELSE "released"
<1>1. call[p].at = "settle" /\ call[p].at \in SettleSteps /\ p \notin fresh
  BY FreshAt DEF SettleTerminal, SettleSteps
<1>2. r \in Ids /\ idx[r].term # "absent" /\ KeyIsTerminal(idx[r].key)
      /\ call \in [Callers -> Call] /\ takes[r] = 1 /\ r # None
  BY <1>1, SettleTypes, NoneAssumption DEF IInv, TypeOK, SettlesAgree, Settler
<1>3. UNCHANGED <<onHand, known, hold, keyDoc, fresh, supply, takes, out, owner, told, done>>
  BY DEF SettleTerminal, aggregate, history
<1>4. idx' = Settled(r, t) /\ t \in Terminals /\ Win(p, "prune", Winner(r, t))
  BY DEF SettleTerminal, Terminals
<1>5. idx'[r].term = Winner(r, t) /\ Winner(r, t) \in Terminals
  BY <1>2, <1>4, SettledStep DEF IInv
<1>6. /\ call' \in [Callers -> Call] /\ Others(p) /\ SameArgs(p)
      /\ call'[p].at = "prune" /\ call'[p].won = Winner(r, t)
  BY <1>2, <1>4, <1>5, WinStep DEF Steps, SettleSteps
<1>7. Placed(p)
  <2>1. Completer(p)' /\ \A q \in Callers : SameClaim(p, q)'
    BY <1>6 DEF Completer, SameClaim, Claimed, ReserveSteps
  <2>2. Settler(p)'
    BY <1>2, <1>3, <1>5, <1>6 DEF Settler, SameArgs, Terminals
  <2> QED BY <1>6, <2>1, <2>2 DEF Placed
<1>8. HistoryOK
  BY <1>3, HistoryKept
<1> QED BY <1>1, <1>2, <1>3, <1>4, <1>7, <1>8, TerminalStep

LEMMA FreedStep == ASSUME IInv, NEW p \in Callers, Freed(p) PROVE IInv'
<1> DEFINE r == call[p].rid
<1>1. call[p].at = "freed" /\ call[p].at \in SettleSteps /\ p \notin fresh
  BY FreshAt DEF Freed, SettleSteps
<1>2. r \in Ids /\ idx[r].term # "absent" /\ KeyIsTerminal(idx[r].key)
      /\ call \in [Callers -> Call]
  BY <1>1, SettleTypes DEF IInv, TypeOK, SettlesAgree, Settler
<1>3. UNCHANGED <<onHand, known, hold, keyDoc, fresh, supply, takes, out, owner, told>>
  BY DEF Freed, aggregate
<1>4. Placed(p)
  BY <1>2, ReturnStep, QuietPlaced DEF Freed, Quiet
<1>5. HistoryOK
  <2>1. done' \in [Ids -> SUBSET Terminals]
    BY AnsweredType DEF Freed
  <2> QED BY <1>3, <2>1 DEF HistoryOK, IInv, TypeOK, AnswersAgree
<1>6. idx' = Settled(r, "released") /\ "released" \in Terminals
  BY DEF Freed, Terminals
<1> QED BY <1>1, <1>2, <1>3, <1>4, <1>5, <1>6, TerminalStep

-----------------------------------------------------------------------------
(* Steps that write the aggregate *)

\* The other callers know what they knew: no claim changed and nothing was given back.
LEMMA CallersKept ==
  ASSUME IInv, UNCHANGED <<keyDoc, idx>>,
         \A i \in Ids : takes[i] = 1 => takes'[i] = 1,
         UNCHANGED call \/ \E p \in Callers : Placed(p)
  PROVE CompletersAgree' /\ SettlesAgree'
<1>1. ASSUME NEW q \in Callers, call'[q] = call[q] PROVE Completer(q)' /\ Settler(q)'
  <2>1. Completer(q) /\ Settler(q) /\ call[q] \in Call
    BY DEF IInv, CompletersAgree, SettlesAgree, TypeOK
  <2>2. Claimed(call[q]) \/ call[q].at \in SettleSteps => call[q].rid \in Ids
    BY <2>1 DEF Completer, Settler, Call
  <2> QED BY <1>1, <2>1, <2>2 DEF Completer, Settler, Claimed, KeyIsTerminal
<1>2. CASE UNCHANGED call
  BY <1>1, <1>2 DEF CompletersAgree, SettlesAgree, SameClaim, IInv
<1>3. ASSUME NEW p \in Callers, Placed(p) PROVE CompletersAgree' /\ SettlesAgree'
  BY <1>1, <1>3, SameClaims DEF CompletersAgree, SettlesAgree, Placed, Others
<1> QED BY <1>2, <1>3

\* A write to one aggregate leaves the reads of the others good.
LEMMA StaleReads ==
  ASSUME IInv, NEW s \in Skus, fresh' \subseteq fresh,
         \A q \in fresh' : call[q].sku # s /\ call'[q] = call[q]
                           /\ takes'[call[q].rid] = takes[call[q].rid],
         \A t \in Skus : t # s => onHand'[t] = onHand[t] /\ hold'[t] = hold[t]
  PROVE ReadsAgree'
<1> SUFFICES ASSUME NEW q \in fresh' PROVE Reader(q)'
  BY DEF ReadsAgree
<1>1. Reader(q) /\ q \in Callers /\ call'[q] = call[q]
      /\ takes'[call[q].rid] = takes[call[q].rid]
  BY DEF IInv, ReadsAgree, TypeOK
<1>2. call[q].sku \in Skus /\ call[q].sku # s
  BY <1>1, ReserveTypes DEF Reader, ReserveSteps
<1> QED BY <1>1, <1>2 DEF Reader

\* The cell of reservation r in its aggregate is rewritten.
LEMMA CellStep ==
  ASSUME IInv, NEW s \in Skus, NEW k \in Keys, NEW r \in Ids,
         UNCHANGED <<keyDoc, idx>>,
         TypeOK', CompletersAgree', SettlesAgree', ReadsAgree', HistoryOK,
         \A t \in Skus, j \in Keys : t # s \/ j # k => hold'[t][j] = hold[t][j],
         \A i \in Ids : i # r => takes'[i] = takes[i] /\ out'[i] = out[i],
         idx[r].term # "absent", idx[r].sku = s, idx[r].key = k,
         takes'[r] = 1, out'[r] >= 0,
         hold'[s][k].state = "none" => hold'[s][k].rid = None /\ KeyIsTerminal(k),
         hold'[s][k].state # "none" => /\ hold'[s][k].rid = r
                                       /\ hold'[s][k].qty > 0
                                       /\ out'[r] = hold'[s][k].qty
  PROVE IInv'
<1>1. ClaimsAgree'
  BY DEF IInv, ClaimsAgree, KeyIsTerminal
<1>2. keyDoc[k].rid = r /\ r # None
  BY NoneAssumption DEF IInv, ClaimsAgree
<1>3. AnswersAgree'
  <2>1. ASSUME NEW j \in Keys, KeyIsTerminal(j), keyDoc[j].ok
        PROVE keyDoc[j].rid # None /\ takes'[keyDoc[j].rid] = 1
    <3>1. keyDoc[j].rid # None /\ takes[keyDoc[j].rid] = 1 /\ keyDoc[j] \in KeyDoc
      BY <2>1 DEF IInv, AnswersAgree, TypeOK
    <3>2. keyDoc[j].rid \in Ids
      BY <3>1 DEF KeyDoc
    <3> QED BY <3>1, <3>2
  <2> QED BY <2>1 DEF AnswersAgree, KeyIsTerminal, HistoryOK
<1>4. HoldsAgree'
  <2>1. ASSUME NEW t \in Skus, NEW j \in Keys, hold'[t][j].state # "none"
        PROVE LET i == hold'[t][j].rid IN
                /\ idx[i].term # "absent" /\ idx[i].sku = t /\ idx[i].key = j
                /\ takes'[i] = 1 /\ out'[i] = hold'[t][j].qty
    <3>1. CASE t = s /\ j = k
      BY <2>1, <3>1
    <3>2. CASE t # s \/ j # k
      <4>1. hold'[t][j] = hold[t][j]
        BY <3>2
      <4>2. hold[t][j].rid \in Ids
        BY <2>1, <4>1 DEF IInv, HoldsAgree, TypeOK, Hold
      <4>3. idx[hold[t][j].rid].sku = t /\ idx[hold[t][j].rid].key = j
        BY <2>1, <4>1 DEF IInv, HoldsAgree
      <4>4. hold[t][j].rid # r
        BY <3>2, <4>3
      <4> QED BY <2>1, <4>1, <4>2, <4>4 DEF IInv, HoldsAgree
    <3> QED BY <3>1, <3>2
  <2>2. ASSUME NEW t \in Skus, NEW j \in Keys
        PROVE IF hold'[t][j].state = "none" THEN hold'[t][j].rid = None
              ELSE hold'[t][j].rid # None /\ hold'[t][j].qty > 0
    <3>1. CASE t = s /\ j = k
      BY <1>2, <3>1
    <3>2. CASE t # s \/ j # k
      BY <3>2 DEF IInv, HoldsAgree
    <3> QED BY <3>1, <3>2
  <2>3. ASSUME NEW i \in Ids
        PROVE /\ takes'[i] \in {0, 1}
              /\ takes'[i] = 0 => out'[i] = 0
              /\ takes'[i] = 1 => /\ idx[i].term # "absent"
                                  /\ out'[i] >= 0
                                  /\ LiveHold(i)'.state = "none" => KeyIsTerminal(idx[i].key)
    <3>1. CASE i = r
      BY <3>1 DEF LiveHold
    <3>2. CASE i # r
      <4>1. takes'[i] = takes[i] /\ out'[i] = out[i]
        BY <3>2
      <4>2. CASE takes[i] = 1
        <5>1. idx[i].term # "absent" /\ idx[i].key \in Keys /\ idx[i].sku \in Skus
              /\ keyDoc[idx[i].key].rid = i
          BY <4>2 DEF IInv, HoldsAgree, ClaimsAgree, TypeOK, Index
        <5>2. idx[i].key # k
          BY <1>2, <3>2, <5>1
        <5>3. LiveHold(i)' = LiveHold(i)
          BY <5>1, <5>2 DEF LiveHold
        <5> QED BY <4>1, <4>2, <5>3 DEF IInv, HoldsAgree
      <4> QED BY <4>1, <4>2 DEF IInv, HoldsAgree
    <3> QED BY <3>1, <3>2
  <2> QED BY <2>1, <2>2, <2>3 DEF HoldsAgree, KeyIsTerminal
<1> QED BY <1>1, <1>3, <1>4 DEF IInv

LEMMA WriteStep == ASSUME IInv, NEW p \in Callers, Write(p) PROVE IInv'
<1> DEFINE c == call[p]
           s == c.sku
           k == c.key
           r == c.rid
           h == [rid |-> r, qty |-> c.qty, state |-> "held", order |-> None, deadline |-> "none"]
<1>1. c.at = "write" /\ c.at \in ReserveSteps /\ Claimed(c)
  BY DEF Write, ReserveSteps, Claimed
<1>2. s \in Skus /\ k \in Keys /\ r \in Ids /\ c.qty \in Nat /\ c.qty > 0
  BY <1>1, ReserveTypes
<1>3. Completer(p) /\ idx[r].term # "absent" /\ idx[r].sku = s /\ idx[r].key = k
  BY <1>1 DEF IInv, CompletersAgree, Completer
<1>4. call \in [Callers -> Call] /\ takes \in [Ids -> Nat] /\ out \in [Ids -> Int]
  BY DEF IInv, TypeOK
<1>5. CASE p \notin fresh
  <2>1. UNCHANGED <<docs, history>> /\ fresh' = fresh /\ Goto(p, "load")
    BY <1>5 DEF Write, docs, history, aggregate
  <2>2. call' \in [Callers -> Call] /\ Others(p) /\ SameArgs(p) /\ call'[p].at = "load"
    BY <1>4, <2>1, GotoStep DEF Steps, ReserveSteps
  <2>3. Claimed(call'[p]) /\ fresh' \subseteq fresh \cup {p} /\ p \notin fresh'
    BY <1>5, <2>1, <2>2 DEF Claimed
  <2> QED BY <1>1, <1>3, <2>1, <2>2, <2>3, ClaimedStep
<1>6. CASE p \in fresh
  <2>1. /\ WriteSku(s, onHand[s] - c.qty, k, h)
        /\ takes' = [takes EXCEPT ![r] = @ + 1]
        /\ out' = [out EXCEPT ![r] = @ + c.qty]
        /\ Goto(p, "mark")
        /\ UNCHANGED <<keyDoc, idx, supply, owner, told, done>>
    BY <1>6 DEF Write
  <2>2. onHand[s] >= c.qty /\ takes[r] = 0
    BY <1>1, <1>6 DEF IInv, ReadsAgree, Reader
  <2>3. out[r] = 0
    BY <1>2, <2>2 DEF IInv, HoldsAgree
  <2>4. takes' \in [Ids -> Nat] /\ takes'[r] = 1 /\ out' \in [Ids -> Int] /\ out'[r] = c.qty
        /\ \A i \in Ids : i # r => takes'[i] = takes[i] /\ out'[i] = out[i]
    BY <1>2, <1>4, <2>1, <2>2, <2>3
  <2>5. h \in Hold
    BY <1>2, NoneAssumption DEF Hold
  <2>6. onHand[s] - c.qty \in Nat
    BY <1>2, <2>2 DEF IInv, TypeOK
  <2>7. /\ onHand' \in [Skus -> Nat] /\ hold' \in [Skus -> [Keys -> Hold]]
        /\ \A t \in Skus : t # s => onHand'[t] = onHand[t] /\ hold'[t] = hold[t]
        /\ \A t \in Skus, j \in Keys : hold'[t][j] = IF t = s /\ j = k THEN h ELSE hold[t][j]
        /\ fresh' \subseteq fresh /\ (\A q \in fresh' : call[q].sku # s) /\ known' = known
    <3>1. \A t \in Skus : t # s => hold'[t] = hold[t]
      BY <2>1 DEF WriteSku, IInv, TypeOK
    <3> HIDE DEF h
    <3> QED BY <1>2, <2>1, <2>5, <2>6, <3>1, WriteSkuStep DEF IInv
  <2>8. call' \in [Callers -> Call] /\ Others(p) /\ SameArgs(p) /\ call'[p].at = "mark"
    BY <1>4, <2>1, GotoStep DEF Steps, ReserveSteps
  <2>9. Placed(p)
    <3>1. Completer(p)'
      BY <1>1, <1>3, <2>1, <2>4, <2>8 DEF Completer, SameArgs, Claimed
    <3>2. \A q \in Callers : SameClaim(p, q)'
      BY <1>1, <2>8 DEF IInv, CompletersAgree, SameClaim, SameArgs, Others
    <3>3. Settler(p)'
      BY <2>8 DEF Settler, SettleSteps
    <3> QED BY <2>8, <3>1, <3>2, <3>3 DEF Placed
  <2>10. \A i \in Ids : takes[i] = 1 => takes'[i] = 1
    BY <2>4
  <2>11. HistoryOK
    BY <2>1, <2>10 DEF IInv, TypeOK, AnswersAgree, HistoryOK
  <2>12. TypeOK'
    BY <2>1, <2>4, <2>7, <2>8 DEF IInv, TypeOK
  <2>13. ReadsAgree'
    <3>1. ASSUME NEW q \in fresh'
          PROVE call'[q] = call[q] /\ takes'[call[q].rid] = takes[call[q].rid]
      <4>1. q \in Callers /\ q \in fresh /\ call[q].sku # s /\ q # p
        BY <2>7 DEF IInv, TypeOK
      <4>2. Claimed(call[q]) /\ call[q].at \in ReserveSteps
        BY <4>1, FreshAt DEF Claimed, ReserveSteps
      <4>3. call[q].rid \in Ids /\ call[q].rid # r
        BY <1>1, <4>1, <4>2, ReserveTypes DEF IInv, CompletersAgree, SameClaim
      <4> QED BY <2>4, <2>8, <4>1, <4>3 DEF Others
    <3> QED BY <1>2, <2>7, <3>1, StaleReads
  <2>14. CompletersAgree' /\ SettlesAgree'
    BY <2>1, <2>9, <2>10, CallersKept
  <2>15. hold'[s][k].state = "held" /\ hold'[s][k].rid = r /\ hold'[s][k].qty = out'[r]
    BY <1>2, <2>4, <2>7
  <2>16. out'[r] > 0
    BY <1>2, <2>4
  <2>17. \A t \in Skus, j \in Keys : t # s \/ j # k => hold'[t][j] = hold[t][j]
    BY <2>7
  <2>18. UNCHANGED <<keyDoc, idx>>
    BY <2>1
  <2> HIDE DEF s, k, r
  <2> QED BY <1>2, <1>3, <2>4, <2>11, <2>12, <2>13, <2>14, <2>15, <2>16, <2>17, <2>18,
             CellStep
<1> QED BY <1>5, <1>6

\* A reader's claim is not one whose hold sits in another place.
LEMMA StaleReadsSameTakes ==
  ASSUME IInv, NEW s \in Skus, NEW n \in Nat, NEW k \in Keys, NEW h \in Hold,
         WriteSku(s, n, k, h), UNCHANGED takes,
         \A q \in fresh : call'[q] = call[q]
  PROVE ReadsAgree'
<1>1. \A t \in Skus : t # s => onHand'[t] = onHand[t] /\ hold'[t] = hold[t]
  BY DEF WriteSku, IInv, TypeOK
<1>2. fresh' \subseteq fresh /\ \A q \in fresh' : call[q].sku # s
  BY WriteSkuStep DEF IInv
<1> QED BY <1>1, <1>2, StaleReads

\* A hold that is there is the cell its index document points at.
LEMMA LiveCell ==
  ASSUME IInv, NEW r \in Ids, idx[r].term # "absent", LiveHold(r).state # "none"
  PROVE /\ idx[r].sku \in Skus
        /\ idx[r].key \in Keys
        /\ LiveHold(r) = hold[idx[r].sku][idx[r].key]
        /\ LiveHold(r) \in Hold
        /\ LiveHold(r).rid = r
        /\ LiveHold(r).qty > 0
        /\ takes[r] = 1
        /\ out[r] = LiveHold(r).qty
<1>1. idx[r].sku \in Skus /\ idx[r].key \in Keys
  BY DEF IInv, ClaimsAgree, TypeOK, Index
<1>2. LiveHold(r) = hold[idx[r].sku][idx[r].key] /\ LiveHold(r).rid = r
  BY DEF LiveHold, NoHold
<1>3. LiveHold(r) \in Hold
  BY <1>1, <1>2 DEF IInv, TypeOK
<1> QED BY <1>1, <1>2, <1>3 DEF IInv, HoldsAgree

LEMMA UnholdStep ==
  ASSUME IInv, NEW p \in Callers, NEW r \in Ids, NEW back \in BOOLEAN,
         p \notin fresh, idx[r].term # "absent", LiveHold(r).state # "none",
         KeyIsTerminal(idx[r].key), Unhold(r, back),
         UNCHANGED <<keyDoc, idx, supply, takes, owner>>, HistoryOK, Placed(p)
  PROVE IInv'
<1> DEFINE s == idx[r].sku
           k == idx[r].key
           h == LiveHold(r)
           n == IF back THEN onHand[s] + h.qty ELSE onHand[s]
<1>1. /\ s \in Skus /\ k \in Keys /\ h = hold[s][k] /\ h \in Hold /\ h.rid = r /\ h.qty > 0
      /\ takes[r] = 1 /\ out[r] = h.qty /\ h.qty \in Nat
  <2>1. LiveHold(r) \in Hold => LiveHold(r).qty \in Nat
    BY DEF Hold
  <2> QED BY <2>1, LiveCell
<1>2. WriteSku(s, n, k, NoHold) /\ out' = IF back THEN [out EXCEPT ![r] = @ - h.qty] ELSE out
  BY DEF Unhold
<1>3. n \in Nat /\ NoHold \in Hold
  BY <1>1, NoneAssumption DEF IInv, TypeOK, NoHold, Hold
<1>4. out \in [Ids -> Int] /\ owner' \in [Ids -> Orders \cup {None}] /\ supply' \in [Skus -> Int]
  BY DEF IInv, TypeOK
<1>5. out' \in [Ids -> Int] /\ out'[r] >= 0 /\ \A i \in Ids : i # r => out'[i] = out[i]
  <2> HIDE DEF h
  <2>1. out[r] \in Int /\ out[r] - h.qty = 0
    BY <1>1, <1>4
  <2>2. CASE back
    <3>1. out' = [out EXCEPT ![r] = @ - h.qty]
      BY <1>2, <2>2
    <3> QED BY <1>1, <1>4, <2>1, <3>1
  <2>3. CASE ~back
    <3>1. out' = out
      BY <1>2, <2>3
    <3> QED BY <1>1, <1>4, <3>1
  <2> QED BY <2>2, <2>3
<1>6. /\ onHand' \in [Skus -> Nat] /\ hold' \in [Skus -> [Keys -> Hold]]
      /\ \A t \in Skus, j \in Keys : hold'[t][j] = IF t = s /\ j = k THEN NoHold ELSE hold[t][j]
      /\ fresh' \subseteq fresh /\ known' = known
  <2> HIDE DEF n
  <2> QED BY <1>1, <1>2, <1>3, WriteSkuStep DEF IInv
<1>7. TypeOK'
  BY <1>4, <1>5, <1>6 DEF IInv, TypeOK, HistoryOK, Placed
<1>8. ReadsAgree'
  <2>1. \A q \in fresh : call'[q] = call[q]
    BY DEF Placed, Others, IInv, TypeOK
  <2> HIDE DEF n
  <2> QED BY <1>1, <1>2, <1>3, <2>1, StaleReadsSameTakes
<1>9. CompletersAgree' /\ SettlesAgree'
  BY CallersKept
<1>10. hold'[s][k].state = "none" /\ hold'[s][k].rid = None
  BY <1>1, <1>6 DEF NoHold
<1>11. takes'[r] = 1 /\ \A i \in Ids : takes'[i] = takes[i]
  BY <1>1
<1>12. idx[r].sku = s /\ idx[r].key = k /\ KeyIsTerminal(k)
  OBVIOUS
<1>13. \A t \in Skus, j \in Keys : t # s \/ j # k => hold'[t][j] = hold[t][j]
  BY <1>6
<1>14. s \in Skus /\ k \in Keys
  BY <1>1
<1> HIDE DEF s, k
<1> QED BY <1>5, <1>7, <1>8, <1>9, <1>10, <1>11, <1>12, <1>13, <1>14, CellStep

LEMMA PruneStep == ASSUME IInv, NEW p \in Callers, Prune(p) PROVE IInv'
<1> DEFINE c == call[p]
           r == c.rid
<1>1. c.at = "prune" /\ c.at \in SettleSteps /\ p \notin fresh
  BY FreshAt DEF Prune, SettleSteps
<1>2. r \in Ids /\ idx[r].term # "absent" /\ idx[r] \in Index
      /\ c.won = idx[r].term /\ c.won # "open" /\ call \in [Callers -> Call]
  BY <1>1, SettleTypes DEF IInv, SettlesAgree, Settler, TypeOK
<1>3. /\ UNCHANGED <<keyDoc, idx, supply, takes, owner, told>>
      /\ Return(p) /\ Answered(c, c.won)
  BY DEF Prune
<1>4. Placed(p)
  BY <1>2, <1>3, ReturnStep, QuietPlaced DEF Quiet
<1>5. HistoryOK
  <2>1. done' \in [Ids -> SUBSET Terminals]
    BY <1>3, AnsweredType
  <2> QED BY <1>3, <2>1 DEF HistoryOK, IInv, TypeOK, AnswersAgree
<1>6. CASE c.won # "failed" /\ LiveHold(r).state # "none" /\ Unhold(r, c.won = "released")
  <2>1. KeyIsTerminal(idx[r].key)
    <3>1. idx[r].term \in {"committed", "released"}
      BY <1>2, <1>6 DEF Index, Terminals
    <3> QED BY <1>2, <3>1 DEF IInv, ClaimsAgree
  <2>2. (c.won = "released") \in BOOLEAN
    OBVIOUS
  <2> QED BY <1>1, <1>2, <1>3, <1>4, <1>5, <1>6, <2>1, <2>2, UnholdStep
<1>7. CASE UNCHANGED <<aggregate, fresh, out>>
  <2>1. UNCHANGED <<docs, fresh, supply, takes, out, owner, told>>
    BY <1>3, <1>7 DEF docs, aggregate
  <2>2. call'[p].at \in SettleSteps \cup {"idle"}
    BY <1>2, <1>3, ReturnStep
  <2> QED BY <1>1, <1>4, <1>5, <2>1, <2>2, SettlerStep DEF HistoryOK, Placed
<1> QED BY <1>6, <1>7 DEF Prune

LEMMA FreeStep == ASSUME IInv, NEW p \in Callers, Free(p) PROVE IInv'
<1> DEFINE c == call[p]
           r == c.rid
<1>1. c.at = "free" /\ c.at \in SettleSteps /\ p \notin fresh
  BY FreshAt DEF Free, SettleSteps
<1>2. r \in Ids /\ r # None /\ idx[r].term # "absent" /\ KeyIsTerminal(idx[r].key)
      /\ takes[r] = 1 /\ call \in [Callers -> Call]
  BY <1>1, SettleTypes, NoneAssumption DEF IInv, SettlesAgree, Settler, TypeOK
<1>3. UNCHANGED <<keyDoc, idx, supply, takes, owner, told, done>>
  BY DEF Free
<1>4. HistoryOK
  BY <1>3, HistoryKept
<1>5. Placed(p) /\ call'[p].at \in SettleSteps \cup {"idle"}
  <2>1. /\ call' \in [Callers -> Call] /\ Others(p)
        /\ \/ call'[p].at = "idle"
           \/ call'[p].at \in {"gone", "freed"} /\ SameArgs(p)
    <3>1. CASE Goto(p, "gone") BY <1>2, <3>1, GotoStep DEF Steps, SettleSteps
    <3>2. CASE Goto(p, "freed") BY <1>2, <3>2, GotoStep DEF Steps, SettleSteps
    <3>3. CASE Return(p) BY <1>2, <3>3, ReturnStep
    <3> QED BY <3>1, <3>2, <3>3 DEF Free
  <2>2. Completer(p)' /\ \A q \in Callers : SameClaim(p, q)'
    BY <2>1 DEF Completer, SameClaim, Claimed, ReserveSteps
  <2>3. Settler(p)'
    <3>1. CASE call'[p].at = "idle" BY <3>1 DEF Settler, SettleSteps
    <3>2. CASE call'[p].at \in {"gone", "freed"} /\ SameArgs(p)
      BY <1>2, <1>3, <3>2 DEF Settler, SameArgs, KeyIsTerminal
    <3> QED BY <2>1, <3>1, <3>2
  <2> QED BY <2>1, <2>2, <2>3 DEF Placed, SettleSteps
<1>6. CASE LiveHold(r).state = "held" /\ Unhold(r, TRUE)
  BY <1>1, <1>2, <1>3, <1>4, <1>5, <1>6, UnholdStep
<1>7. CASE UNCHANGED <<aggregate, fresh, out>>
  <2>1. UNCHANGED <<docs, fresh, supply, takes, out, owner, told>>
    BY <1>3, <1>7 DEF docs, aggregate
  <2> QED BY <1>1, <1>4, <1>5, <2>1, SettlerStep DEF HistoryOK, Placed
<1> QED BY <1>6, <1>7 DEF Free

\* A live hold of r is rewritten by h, which differs in state, order, deadline or quantity.
LEMMA Rehold ==
  ASSUME IInv, NEW r \in Ids, idx[r].term # "absent", LiveHold(r).state # "none",
         NEW n \in Nat, NEW h \in Hold, WriteSku(idx[r].sku, n, idx[r].key, h),
         h.rid = r, h.state # "none", h.qty > 0, out'[r] = h.qty,
         \A i \in Ids : i # r => out'[i] = out[i],
         out' \in [Ids -> Int], owner' \in [Ids -> Orders \cup {None}],
         UNCHANGED <<keyDoc, idx, supply, takes>>, HistoryOK,
         \A q \in fresh : call'[q] = call[q],
         UNCHANGED call \/ \E p \in Callers : Placed(p)
  PROVE IInv'
<1> DEFINE s == idx[r].sku
           k == idx[r].key
<1>1. s \in Skus /\ k \in Keys /\ takes[r] = 1
  BY LiveCell
<1>2. h.qty \in Nat /\ TypeOK
  BY DEF Hold, IInv
<1>8. idx[r].sku = s /\ idx[r].key = k /\ WriteSku(s, n, k, h)
  OBVIOUS
<1> HIDE DEF s, k
<1>3. /\ onHand' \in [Skus -> Nat] /\ hold' \in [Skus -> [Keys -> Hold]]
      /\ \A t \in Skus, j \in Keys : hold'[t][j] = IF t = s /\ j = k THEN h ELSE hold[t][j]
      /\ fresh' \subseteq fresh /\ known' = known
  BY <1>1, <1>2, <1>8, WriteSkuStep
<1>4. TypeOK'
  BY <1>3 DEF IInv, TypeOK, HistoryOK, Placed
<1>5. ReadsAgree'
  BY <1>1, <1>8, StaleReadsSameTakes
<1>6. CompletersAgree' /\ SettlesAgree'
  BY CallersKept
<1>7. hold'[s][k] = h
  BY <1>1, <1>3
<1> QED BY <1>1, <1>2, <1>3, <1>4, <1>5, <1>6, <1>7, <1>8, CellStep

LEMMA FlipStep == ASSUME IInv, NEW p \in Callers, Flip(p) PROVE IInv'
<1> DEFINE c == call[p]
           r == c.rid
           h == LiveHold(r)
           adopts == c.op # "stamp"
           g == [h EXCEPT !.state = IF adopts THEN "adopted" ELSE "held",
                          !.order = c.order, !.deadline = "future"]
<1>1. c.at = "flip" /\ c.at \in SettleSteps /\ p \notin fresh
  BY FreshAt DEF Flip, SettleSteps
<1>2. r \in Ids /\ r # None /\ idx[r].term # "absent" /\ takes[r] = 1
      /\ call \in [Callers -> Call] /\ h \in Hold /\ c.order \in Orders \cup {None}
  BY <1>1, SettleTypes, NoneAssumption DEF IInv, SettlesAgree, Settler, TypeOK, Call
<1>3. UNCHANGED <<keyDoc, idx, supply, takes, out, told, done>> /\ Return(p)
  BY DEF Flip
<1>4. Placed(p)
  BY <1>2, <1>3, ReturnStep, QuietPlaced DEF Quiet
<1>5. HistoryOK
  BY <1>3, HistoryKept
<1>6. CASE /\ h.state = "held"
           /\ WriteSku(idx[r].sku, onHand[idx[r].sku], idx[r].key, g)
           /\ owner' = IF adopts THEN [owner EXCEPT ![r] = c.order] ELSE owner
  <2>1. h.rid = r /\ h.qty > 0 /\ out[r] = h.qty /\ idx[r].sku \in Skus
    BY <1>2, <1>6, LiveCell
  <2>2. g \in Hold /\ g.rid = r /\ g.state # "none" /\ g.qty = h.qty
    BY <1>2, <2>1 DEF Hold
  <2>3. onHand[idx[r].sku] \in Nat /\ owner' \in [Ids -> Orders \cup {None}]
        /\ out' \in [Ids -> Int]
    BY <1>2, <1>3, <1>6, <2>1 DEF IInv, TypeOK
  <2>4. \A q \in fresh : call'[q] = call[q]
    BY <1>1, <1>4 DEF Placed, Others, IInv, TypeOK
  <2>5. h.state # "none" /\ out'[r] = g.qty /\ g.qty > 0 /\ (\A i \in Ids : i # r => out'[i] = out[i])
    BY <1>3, <1>6, <2>1, <2>2
  <2> HIDE DEF g
  <2> QED BY <1>2, <1>3, <1>4, <1>5, <1>6, <2>2, <2>3, <2>4, <2>5, Rehold
<1>7. CASE UNCHANGED <<aggregate, fresh, owner>>
  <2>1. UNCHANGED <<docs, fresh, supply, takes, out, owner, told>>
    BY <1>3, <1>7 DEF docs, aggregate
  <2>2. call'[p].at \in SettleSteps \cup {"idle"}
    BY <1>2, <1>3, ReturnStep
  <2> QED BY <1>1, <1>4, <1>5, <2>1, <2>2, SettlerStep DEF HistoryOK, Placed
<1> QED BY <1>6, <1>7 DEF Flip

LEMMA AdjustStep ==
  ASSUME IInv, NEW s \in Skus, NEW k \in Keys, NEW q \in Qtys, Adjust(s, k, q) PROVE IInv'
<1> DEFINE h == hold[s][k]
           r == h.rid
           g == [h EXCEPT !.qty = q]
           n == onHand[s] - (q - h.qty)
<1>1. q \in Nat /\ q > 0
  BY QtyAssumption
<1>2. /\ h.state = "held" /\ onHand[s] >= q - h.qty /\ WriteSku(s, n, k, g)
      /\ out' = [out EXCEPT ![r] = @ + (q - h.qty)]
      /\ UNCHANGED <<keyDoc, idx, call, supply, takes, owner, told, done>>
  BY DEF Adjust
<1>3. h \in Hold /\ h.qty \in Nat /\ r \in Ids
  BY <1>2 DEF IInv, TypeOK, HoldsAgree, Hold
<1>4. idx[r].term # "absent" /\ idx[r].sku = s /\ idx[r].key = k /\ out[r] = h.qty
  BY <1>2 DEF IInv, HoldsAgree
<1>5. LiveHold(r).state # "none"
  BY <1>2, <1>4 DEF LiveHold
<1>6. g \in Hold /\ g.rid = r /\ g.state # "none" /\ g.qty = q
  BY <1>1, <1>2, <1>3 DEF Hold
<1>7. n \in Nat
  BY <1>1, <1>2, <1>3 DEF IInv, TypeOK
<1>8. out' \in [Ids -> Int] /\ out'[r] = q /\ \A i \in Ids : i # r => out'[i] = out[i]
  <2>1. out \in [Ids -> Int]
    BY DEF IInv, TypeOK
  <2> QED BY <1>1, <1>2, <1>3, <1>4, <2>1
<1>9. HistoryOK /\ owner' \in [Ids -> Orders \cup {None}]
  BY <1>2, HistoryKept DEF IInv, TypeOK
<1>10. \A p \in fresh : call'[p] = call[p]
  BY <1>2
<1> HIDE DEF g, n, h
<1> QED BY <1>1, <1>2, <1>3, <1>4, <1>5, <1>6, <1>7, <1>8, <1>9, <1>10, Rehold

\* The count of one shelf changes and every read of it goes stale.
LEMMA ShelfStep ==
  ASSUME IInv, NEW s \in Skus, UNCHANGED <<hold, keyDoc, idx, call, takes, out, owner>>,
         onHand' \in [Skus -> Nat], \A t \in Skus : t # s => onHand'[t] = onHand[t],
         known' \in SUBSET Skus, supply' \in [Skus -> Int],
         fresh' = {p \in fresh : call[p].sku # s}, HistoryOK
  PROVE IInv'
<1>1. TypeOK'
  BY DEF IInv, TypeOK, HistoryOK
<1>2. ClaimsAgree' /\ HoldsAgree' /\ AnswersAgree'
  BY DEF IInv, ClaimsAgree, HoldsAgree, AnswersAgree, KeyIsTerminal, LiveHold, HistoryOK
<1>3. CompletersAgree' /\ SettlesAgree'
  BY CallersKept
<1>4. ReadsAgree'
  BY StaleReads
<1> QED BY <1>1, <1>2, <1>3, <1>4 DEF IInv

LEMMA SeedStep == ASSUME IInv, NEW s \in Skus, Seed(s) PROVE IInv'
<1>1. PICK n \in 0..MaxSupply :
        onHand' = [onHand EXCEPT ![s] = n] /\ supply' = [supply EXCEPT ![s] = n]
  BY DEF Seed
<1>2. n \in Nat
  BY SupplyAssumption
<1>3. onHand' \in [Skus -> Nat] /\ supply' \in [Skus -> Int]
      /\ \A t \in Skus : t # s => onHand'[t] = onHand[t]
  BY <1>1, <1>2 DEF IInv, TypeOK
<1>4. HistoryOK
  BY HistoryKept DEF Seed
<1>5. /\ UNCHANGED <<hold, keyDoc, idx, call, takes, out, owner>>
      /\ fresh' = {p \in fresh : call[p].sku # s}
  BY DEF Seed
<1>6. known' \in SUBSET Skus
  BY DEF Seed, IInv, TypeOK
<1> QED BY <1>3, <1>4, <1>5, <1>6, ShelfStep

LEMMA MoveStockStep ==
  ASSUME IInv, NEW s \in Skus, NEW n \in Int, MoveStock(s, n) PROVE IInv'
<1>1. onHand \in [Skus -> Nat] /\ supply \in [Skus -> Int] /\ known \in SUBSET Skus
  BY DEF IInv, TypeOK
<1>2. onHand' \in [Skus -> Nat] /\ supply' \in [Skus -> Int]
      /\ \A t \in Skus : t # s => onHand'[t] = onHand[t]
  BY <1>1 DEF MoveStock
<1>3. HistoryOK
  BY HistoryKept DEF MoveStock
<1> QED BY <1>1, <1>2, <1>3, ShelfStep DEF MoveStock

LEMMA LapseStep == ASSUME IInv, NEW s \in Skus, NEW k \in Keys, Lapse(s, k) PROVE IInv'
<1>1. UNCHANGED <<onHand, known, keyDoc, idx, call, fresh, supply, takes, out, owner, told,
                  done>>
  BY DEF Lapse, history
<1>2. hold \in [Skus -> [Keys -> Hold]]
  BY DEF IInv, TypeOK
<1>3. /\ hold' \in [Skus -> [Keys -> Hold]]
      /\ \A t \in Skus, j \in Keys : /\ hold'[t][j].state = hold[t][j].state
                                     /\ hold'[t][j].rid = hold[t][j].rid
                                     /\ hold'[t][j].qty = hold[t][j].qty
  <2> DEFINE g == [hold[s][k] EXCEPT !.deadline = "past"]
  <2>1. hold' = [hold EXCEPT ![s] = [hold[s] EXCEPT ![k] = g]]
    BY <1>2 DEF Lapse
  <2>2. g \in Hold /\ g.state = hold[s][k].state /\ g.rid = hold[s][k].rid /\ g.qty = hold[s][k].qty
    <3>1. hold[s][k] \in Hold
      BY <1>2
    <3> QED BY <3>1 DEF Hold
  <2> HIDE DEF g
  <2> QED BY <1>2, <2>1, <2>2
<1>4. TypeOK'
  BY <1>1, <1>3 DEF IInv, TypeOK
<1>5. ClaimsAgree' /\ AnswersAgree'
  BY <1>1 DEF IInv, ClaimsAgree, AnswersAgree, KeyIsTerminal
<1>6. CompletersAgree' /\ SettlesAgree'
  BY <1>1, CallersKept
<1>7. ReadsAgree'
  <2> SUFFICES ASSUME NEW q \in fresh PROVE Reader(q)'
    BY <1>1 DEF ReadsAgree
  <2>1. Reader(q) /\ q \in Callers
    BY DEF IInv, ReadsAgree, TypeOK
  <2>2. call[q].sku \in Skus /\ call[q].key \in Keys
    BY <2>1, ReserveTypes DEF Reader, ReserveSteps
  <2> QED BY <1>1, <1>3, <2>1, <2>2 DEF Reader
<1>8. HoldsAgree'
  <2>1. ASSUME NEW r \in Ids, takes[r] = 1
        PROVE LiveHold(r)'.state = LiveHold(r).state
    <3>1. idx[r].sku \in Skus /\ idx[r].key \in Keys
      BY <2>1 DEF IInv, HoldsAgree, ClaimsAgree, TypeOK, Index
    <3> QED BY <1>1, <1>3, <3>1 DEF LiveHold
  <2>2. ASSUME NEW t \in Skus, NEW j \in Keys, hold'[t][j].state # "none"
        PROVE LET r == hold'[t][j].rid IN
                /\ idx[r].term # "absent" /\ idx[r].sku = t /\ idx[r].key = j
                /\ takes[r] = 1 /\ out[r] = hold'[t][j].qty
    BY <1>3, <2>2 DEF IInv, HoldsAgree
  <2>3. ASSUME NEW t \in Skus, NEW j \in Keys
        PROVE IF hold'[t][j].state = "none" THEN hold'[t][j].rid = None
              ELSE hold'[t][j].rid # None /\ hold'[t][j].qty > 0
    BY <1>3 DEF IInv, HoldsAgree
  <2>4. ASSUME NEW r \in Ids
        PROVE /\ takes[r] \in {0, 1}
              /\ takes[r] = 0 => out[r] = 0
              /\ takes[r] = 1 => /\ idx[r].term # "absent"
                                 /\ out[r] >= 0
                                 /\ LiveHold(r)'.state = "none" => KeyIsTerminal(idx[r].key)
    BY <2>1 DEF IInv, HoldsAgree
  <2> QED BY <1>1, <2>2, <2>3, <2>4 DEF HoldsAgree, KeyIsTerminal
<1> QED BY <1>4, <1>5, <1>6, <1>7, <1>8 DEF IInv

-----------------------------------------------------------------------------
(* The invariant is inductive *)

LEMMA InitIInv == ASSUME Init PROVE IInv
<1> USE NoneAssumption DEF Init, NoHold, NoKey, NoIndex, Idle
<1>1. TypeOK
  BY DEF TypeOK, Hold, KeyDoc, Index, Call
<1>2. ClaimsAgree
  BY DEF ClaimsAgree
<1>3. CompletersAgree
  BY DEF CompletersAgree, Completer, SameClaim, Claimed, ReserveSteps
<1>4. HoldsAgree
  BY DEF HoldsAgree
<1>5. ReadsAgree
  BY DEF ReadsAgree
<1>6. AnswersAgree
  BY DEF AnswersAgree, KeyIsTerminal
<1>7. SettlesAgree
  BY DEF SettlesAgree, Settler, SettleSteps
<1> QED BY <1>1, <1>2, <1>3, <1>4, <1>5, <1>6, <1>7 DEF IInv

LEMMA NextIInv == ASSUME IInv, [Next]_vars PROVE IInv'
<1>1. ASSUME NEW p \in Callers, Begin(p) PROVE IInv'
  <2>1. ASSUME NEW m \in Requests, BeginReserve(p, m) PROVE IInv'
    BY <2>1, BeginReserveStep
  <2>2. ASSUME NEW op \in Calls, NEW r \in Ids, NEW o \in Orders \cup {None},
               BeginSettle(p, op, r, o)
        PROVE IInv'
    BY <2>2, BeginSettleStep
  <2> QED BY <1>1, <2>1, <2>2 DEF Begin
<1>2. ASSUME NEW p \in Callers, ReserveStep(p) PROVE IInv'
  BY <1>2, ReadKeyStep, LookStep, RefuseStep, ClaimStep, PreReadStep, WriteIndexStep, LoadStep,
     RecheckStep, WriteStep, MarkKeyStep, FailStep DEF ReserveStep
<1>3. ASSUME NEW p \in Callers, SettleStep(p) PROVE IInv'
  BY <1>3, ReadHoldStep, RecordAnswerStep, SettleTerminalStep, PruneStep, FreeStep, FreedStep,
     GoneStep, GoneKeyStep, FlipStep DEF SettleStep
<1>4. ASSUME NEW s \in Skus, Other(s) PROVE IInv'
  <2>1. ASSUME NEW n \in Moves, MoveStock(s, n) \/ MoveStock(s, -n) PROVE IInv'
    <3>1. n \in Int /\ -n \in Int
      BY MoveAssumption
    <3> QED BY <2>1, <3>1, MoveStockStep
  <2>2. ASSUME NEW k \in Keys, Lapse(s, k) PROVE IInv'
    BY <2>2, LapseStep
  <2>3. ASSUME NEW k \in Keys, NEW q \in Qtys, Adjust(s, k, q) PROVE IInv'
    BY <2>3, AdjustStep
  <2> QED BY <1>4, <2>1, <2>2, <2>3, SeedStep DEF Other
<1>5. ASSUME NEW p \in Callers, Crash(p) PROVE IInv'
  BY <1>5, CrashStep
<1>6. CASE UNCHANGED vars
  BY <1>6, StutterStep
<1> QED BY <1>1, <1>2, <1>3, <1>4, <1>5, <1>6 DEF Next, Step

\* In every behaviour of any number of callers, keys, skus and orders, documents,
\* steps in flight and history agree as IInv says.
THEOREM Inductive == Spec => []IInv
<1>1. Init => IInv
  BY InitIInv
<1>2. IInv /\ [Next]_vars => IInv'
  BY NextIInv
<1> QED BY <1>1, <1>2, PTL DEF Spec

\* Every document keeps the shape the code gives it; in particular onHand, the count of
\* inventory/{sku}, is never negative: the store never oversells a shelf.
THEOREM TypesHold == Spec => []TypeOK
<1>1. IInv => TypeOK
  BY DEF IInv
<1> QED BY <1>1, Inductive, PTL

\* However many callers complete one claim and however its settles are raced, crashed or
\* replayed, a reservation's units leave the shelf at most once and come back at most once.
THEOREM UnitsMoveOnceHolds == Spec => []UnitsMoveOnce
<1>1. IInv => UnitsMoveOnce
  BY DEF IInv, HoldsAgree, UnitsMoveOnce
<1> QED BY <1>1, Inductive, PTL

\* No reserve tells a caller it succeeded unless the units were taken.
THEOREM ReserveAnswersBackedHolds == Spec => []ReserveAnswersBacked
<1>1. IInv => ReserveAnswersBacked
  BY DEF IInv, AnswersAgree, ReserveAnswersBacked
<1> QED BY <1>1, Inductive, PTL
-----------------------------------------------------------------------------
(* The units of the reservations: Inventory implements Holds *)

\* Nothing that says where r's units are changes.
Keeps(r) == /\ takes'[r] = takes[r] /\ out'[r] = out[r] /\ owner'[r] = owner[r]
            /\ done'[r] = done[r] /\ End(r)' = End(r)
            /\ HeldState(r)' = HeldState(r) /\ HeldFor(r)' = HeldFor(r)

\* What no step undoes: units once taken, an adopter, the absence of a hold.
Lasts(r) == /\ takes[r] = 1 => takes'[r] = 1
            /\ owner[r] # None => owner'[r] = owner[r]
            /\ takes[r] = 1 /\ HeldState(r) = "none" => HeldState(r)' = "none"

Implements == UnitsStand' /\ [H!Next]_Units

\* Place is a function of what Keeps and Stands speak of.
LEMMA PlaceIs ==
  ASSUME NEW r \in Ids
  PROVE Place(r) = IF takes[r] = 0 THEN "none"
                   ELSE IF HeldState(r) = "none" THEN (IF out[r] = 0 THEN "back" ELSE "sold")
                   ELSE IF End(r) = "committed" THEN "sold"
                   ELSE IF End(r) = "released" THEN "back" ELSE "held"
<1>1. CASE takes[r] = 0 BY <1>1 DEF Place
<1>2. CASE takes[r] # 0
  <2>1. HeldState(r) = LiveHold(r).state
    BY <1>2 DEF HeldState
  <2>2. End(r) = "committed" <=> idx[r].term = "committed"
    BY DEF End, Ends
  <2>3. End(r) = "released" <=> idx[r].term = "released"
    BY DEF End, Ends
  <2> QED BY <1>2, <2>1, <2>2, <2>3 DEF Place
<1> QED BY <1>1, <1>2

LEMMA KeptStands ==
  ASSUME NEW r \in Ids, Stands(r), Keeps(r)
  PROVE Stands(r)' /\ Lasts(r) /\ Place(r)' = Place(r)
<1>1. Place(r)' = IF takes'[r] = 0 THEN "none"
                  ELSE IF HeldState(r)' = "none" THEN (IF out'[r] = 0 THEN "back" ELSE "sold")
                  ELSE IF End(r)' = "committed" THEN "sold"
                  ELSE IF End(r)' = "released" THEN "back" ELSE "held"
  <2>1. CASE takes'[r] = 0 BY <2>1 DEF Place
  <2>2. CASE takes'[r] # 0
    <3>1. HeldState(r)' = LiveHold(r)'.state
      BY <2>2 DEF HeldState
    <3>2. /\ End(r)' = "committed" <=> idx'[r].term = "committed"
          /\ End(r)' = "released" <=> idx'[r].term = "released"
      BY DEF End, Ends
    <3> QED BY <2>2, <3>1, <3>2 DEF Place
  <2> QED BY <2>1, <2>2
<1>2. Place(r)' = Place(r)
  BY <1>1, PlaceIs DEF Keeps
<1>3. Stands(r)' /\ Lasts(r)
  BY DEF Stands, Keeps, Lasts
<1> QED BY <1>2, <1>3

\* What a call relies on lasts while the call stays where it is.
LEMMA ReliesLasts ==
  ASSUME IInv, NEW p \in Callers, Relies(p), call'[p] = call[p], \A r \in Ids : Lasts(r)
  PROVE Relies(p)'
<1>1. CASE call[p].at \notin SettleSteps BY <1>1 DEF Relies
<1>2. CASE call[p].at \in SettleSteps
  <2>1. call[p].rid \in Ids /\ takes[call[p].rid] = 1
    BY <1>2, SettleTypes
  <2>2. Lasts(call[p].rid)
    BY <2>1
  <2> QED BY <1>2, <2>1, <2>2 DEF Relies, Lasts
<1> QED BY <1>1, <1>2

\* One reservation's units move by a step of Holds, the others' stay.
LEMMA OneMoves ==
  ASSUME IInv, UnitsStand, NEW r \in Ids,
         \A i \in Ids : i # r => Keeps(i),
         Stands(r)', Lasts(r),
         \A p \in Callers : call'[p] = call[p] \/ Relies(p)',
         \/ Place(r)' = Place(r) /\ owner'[r] = owner[r]
         \/ /\ Place(r) = "none" /\ Place(r)' = "held" /\ owner'[r] = owner[r]
         \/ /\ Place(r) # "none" /\ Place(r)' = Place(r)
            /\ owner[r] = None /\ owner'[r] \in Orders
         \/ /\ Place(r) = "held" /\ Place(r)' = "sold" /\ owner'[r] = owner[r]
         \/ /\ Place(r) = "held" \/ (Place(r) = "sold" /\ owner[r] = None)
            /\ owner[r] = None \/ Asking(r) \cap {owner[r], None} # {}
            /\ Place(r)' = "back" /\ owner'[r] = owner[r]
  PROVE Implements
<1>1. \A i \in Ids : Stands(i)' /\ Lasts(i)
  BY KeptStands DEF UnitsStand
<1>2. \A p \in Callers : Relies(p)'
  BY <1>1, ReliesLasts DEF UnitsStand
<1>3. \A i \in Ids : i # r => Place(i)' = Place(i) /\ owner'[i] = owner[i]
  BY KeptStands DEF UnitsStand, Keeps
<1>4. /\ Units = [i \in Ids |-> [st |-> Place(i), owner |-> owner[i]]]
      /\ Units' = [i \in Ids |-> [st |-> Place(i)', owner |-> owner'[i]]]
      /\ Askers[r] = Asking(r)
  BY DEF Units, Askers
<1>5. /\ Units[r].st = Place(r) /\ Units[r].owner = owner[r]
      /\ Units[r] = [st |-> Place(r), owner |-> owner[r]]
      /\ \A i \in Ids : i # r => Units'[i] = Units[i]
      /\ Units'[r] = [st |-> Place(r)', owner |-> owner'[r]]
  BY <1>3, <1>4
<1>6. CASE Place(r)' = Place(r) /\ owner'[r] = owner[r]
  <2>1. Units' = Units
    BY <1>3, <1>4, <1>6
  <2> QED BY <1>1, <1>2, <2>1 DEF Implements, UnitsStand
<1>7. ASSUME owner'[r] = owner[r]
      PROVE Units' = [Units EXCEPT ![r].st = Place(r)']
  BY <1>4, <1>5, <1>7
<1>8. CASE Place(r) = "none" /\ Place(r)' = "held" /\ owner'[r] = owner[r]
  <2>1. H!Take(r)
    BY <1>5, <1>7, <1>8 DEF H!Take
  <2> QED BY <1>1, <1>2, <2>1 DEF Implements, UnitsStand, H!Next
<1>9. CASE /\ Place(r) # "none" /\ Place(r)' = Place(r)
           /\ owner[r] = None /\ owner'[r] \in Orders
  <2>1. Units' = [Units EXCEPT ![r].owner = owner'[r]]
    BY <1>4, <1>5, <1>9
  <2>2. H!Adopt(r, owner'[r])
    BY <1>5, <1>9, <2>1 DEF H!Adopt
  <2> QED BY <1>1, <1>2, <1>9, <2>2 DEF Implements, UnitsStand, H!Next
<1>10. CASE Place(r) = "held" /\ Place(r)' = "sold" /\ owner'[r] = owner[r]
  <2>1. H!Sell(r)
    BY <1>5, <1>7, <1>10 DEF H!Sell
  <2> QED BY <1>1, <1>2, <2>1 DEF Implements, UnitsStand, H!Next
<1>11. CASE /\ Place(r) = "held" \/ (Place(r) = "sold" /\ owner[r] = None)
            /\ owner[r] = None \/ Asking(r) \cap {owner[r], None} # {}
            /\ Place(r)' = "back" /\ owner'[r] = owner[r]
  <2>1. H!GiveBack(r)
    BY <1>4, <1>5, <1>7, <1>11 DEF H!GiveBack
  <2> QED BY <1>1, <1>2, <2>1 DEF Implements, UnitsStand, H!Next
<1> QED BY <1>6, <1>8, <1>9, <1>10, <1>11

\* No reservation's units move.
LEMMA NoneMoves ==
  ASSUME IInv, UnitsStand, \A i \in Ids : Keeps(i),
         \A p \in Callers : call'[p] = call[p] \/ Relies(p)'
  PROVE Implements
<1>1. \A i \in Ids : Stands(i)' /\ Lasts(i) /\ Place(i)' = Place(i) /\ owner'[i] = owner[i]
  BY KeptStands DEF UnitsStand, Keeps
<1>2. \A p \in Callers : Relies(p)'
  BY <1>1, ReliesLasts DEF UnitsStand
<1>3. Units' = Units
  BY <1>1 DEF Units
<1> QED BY <1>1, <1>2, <1>3 DEF Implements, UnitsStand

\* A step that leaves every hold, every index and the histories of the units alone.
LEMMA AllKept == ASSUME UNCHANGED <<hold, idx, takes, out, owner, done>>
                 PROVE \A i \in Ids : Keeps(i)
BY DEF Keeps, End, HeldState, HeldFor, LiveHold

LEMMA EndSettled ==
  ASSUME IInv, NEW r \in Ids, NEW t \in Terminals, idx' = Settled(r, t), UNCHANGED <<hold, takes>>
  PROVE /\ \A i \in Ids : HeldState(i)' = HeldState(i) /\ HeldFor(i)' = HeldFor(i)
        /\ \A i \in Ids : i # r => End(i)' = End(i)
        /\ idx[r].term \in Terminals \/ t = "failed" => End(r)' = End(r)
        /\ idx[r].term = "open" => End(r)' = IF t = "failed" THEN "open" ELSE t
<1>1. /\ \A i \in Ids : i # r => idx'[i] = idx[i]
      /\ idx'[r].sku = idx[r].sku /\ idx'[r].key = idx[r].key
      /\ idx'[r].term = IF idx[r].term = "absent" THEN "absent" ELSE Winner(r, t)
  BY SettledStep DEF IInv
<1>2. \A i \in Ids : idx'[i].sku = idx[i].sku /\ idx'[i].key = idx[i].key
  BY <1>1
<1>3. \A i \in Ids : HeldState(i)' = HeldState(i) /\ HeldFor(i)' = HeldFor(i)
  BY <1>2 DEF HeldState, HeldFor, LiveHold
<1>4. \A i \in Ids : i # r => End(i)' = End(i)
  BY <1>1 DEF End
<1>5. idx[r].term \in Terminals \/ t = "failed" => End(r)' = End(r)
  BY <1>1 DEF End, Ends, Winner, Terminals
<1>6. idx[r].term = "open" => End(r)' = IF t = "failed" THEN "open" ELSE t
  BY <1>1 DEF End, Ends, Winner, Terminals
<1> QED BY <1>3, <1>4, <1>5, <1>6

\* A step of a reserve ends outside the steps of a settle.
LEMMA ReserveStays ==
  ASSUME IInv, NEW p \in Callers, ReserveStep(p)
  PROVE \A q \in Callers : call'[q] = call[q] \/ Relies(q)'
<1>1. call \in [Callers -> Call]
  BY DEF IInv, TypeOK
<1>2. \/ Return(p)
      \/ \E a \in ReserveSteps : Goto(p, a)
      \/ \E a \in ReserveSteps : \E b : Decide(p, a, b)
      \/ \E a \in ReserveSteps : \E s, n, r : Follow(p, a, s, n, r)
  BY DEF ReserveStep, ReadKey, Look, Refuse, Claim, PreRead, WriteIndex, Load, Recheck, Write,
         MarkKey, Fail, ReserveSteps
<1>3. Others(p) /\ call'[p].at \in ReserveSteps \cup {"idle"}
  <2>1. CASE Return(p)
    BY <1>1, <2>1, ReturnStep
  <2>2. ASSUME NEW a \in ReserveSteps, Goto(p, a)
        PROVE Others(p) /\ call'[p].at \in ReserveSteps \cup {"idle"}
    BY <1>1, <2>2 DEF Others, Goto
  <2>3. ASSUME NEW a \in ReserveSteps, NEW b, Decide(p, a, b)
        PROVE Others(p) /\ call'[p].at \in ReserveSteps \cup {"idle"}
    <3> DEFINE m == [call EXCEPT ![p].at = a]
    <3>1. m \in [Callers -> Call] /\ m[p].at = a /\ \A q \in Callers : q # p => m[q] = call[q]
      BY <1>1 DEF Call
    <3>2. call' = [m EXCEPT ![p].ok = b]
      BY <2>3 DEF Decide
    <3> HIDE DEF m
    <3> QED BY <3>1, <3>2 DEF Others, Call
  <2>4. ASSUME NEW a \in ReserveSteps, NEW s, NEW n, NEW r, Follow(p, a, s, n, r)
        PROVE Others(p) /\ call'[p].at \in ReserveSteps \cup {"idle"}
    <3>1. call' = [call EXCEPT ![p] = [call[p] EXCEPT !.at = a, !.sku = s, !.qty = n, !.rid = r]]
      BY <1>1, <2>4 DEF Follow
    <3>2. [call[p] EXCEPT !.at = a, !.sku = s, !.qty = n, !.rid = r].at = a
      BY <1>1 DEF Call
    <3> QED BY <1>1, <3>1, <3>2 DEF Others
  <2> QED BY <1>2, <2>1, <2>2, <2>3, <2>4
<1>4. Relies(p)'
  BY <1>3 DEF Relies, ReserveSteps, SettleSteps
<1> QED BY <1>3, <1>4 DEF Others

LEMMA SameHolds ==
  ASSUME IInv, NEW p \in Callers,
         ReadKey(p) \/ Look(p) \/ Refuse(p) \/ Claim(p) \/ PreRead(p) \/ Load(p) \/ Recheck(p)
         \/ MarkKey(p)
  PROVE UNCHANGED <<hold, idx, takes, out, owner, done>>
BY DEF ReadKey, Look, Refuse, Claim, PreRead, Load, Recheck, MarkKey, docs, history, aggregate

LEMMA WriteIndexKeeps ==
  ASSUME IInv, NEW p \in Callers, WriteIndex(p) PROVE \A i \in Ids : Keeps(i)
<1>1. PICK r \in Ids : r = call[p].rid
  <2>1. Claimed(call[p]) /\ call[p].at \in ReserveSteps
    BY DEF WriteIndex, Claimed, ReserveSteps
  <2> QED BY <2>1, ReserveTypes
<1>2. UNCHANGED <<hold, takes, out, owner, done>>
  BY DEF WriteIndex, aggregate, history
<1>3. CASE idx[r].term # "absent"
  <2>1. UNCHANGED idx
    BY <1>1, <1>3 DEF WriteIndex
  <2> QED BY <1>2, <2>1, AllKept
<1>4. CASE idx[r].term = "absent"
  <2>1. takes[r] = 0
    BY <1>1, <1>4 DEF IInv, HoldsAgree
  <2>2. idx'[r].term = "open" /\ \A i \in Ids : i # r => idx'[i] = idx[i]
    BY <1>1, <1>4 DEF WriteIndex, IInv, TypeOK
  <2>3. Keeps(r)
    BY <1>2, <1>4, <2>1, <2>2 DEF Keeps, End, Ends, HeldState, HeldFor
  <2>4. ASSUME NEW i \in Ids, i # r PROVE Keeps(i)
    BY <1>2, <2>2, <2>4 DEF Keeps, End, HeldState, HeldFor, LiveHold
  <2> QED BY <2>3, <2>4
<1> QED BY <1>3, <1>4

LEMMA FailKeeps == ASSUME IInv, NEW p \in Callers, Fail(p) PROVE \A i \in Ids : Keeps(i)
<1> DEFINE r == call[p].rid
<1>1. r \in Ids
  <2>1. Claimed(call[p]) /\ call[p].at \in ReserveSteps
    BY DEF Fail, Claimed, ReserveSteps
  <2> QED BY <2>1, ReserveTypes
<1>2. UNCHANGED <<hold, takes, out, owner, done>> /\ idx' = Settled(r, "failed")
      /\ "failed" \in Terminals
  BY DEF Fail, aggregate, Terminals
<1> QED BY <1>1, <1>2, EndSettled DEF Keeps

\* A cell of the aggregate is rewritten: only the reservation it is filed for sees it.
LEMMA CellKeeps ==
  ASSUME IInv, NEW s \in Skus, NEW k \in Keys, NEW n \in Nat, NEW h \in Hold, NEW r \in Ids,
         WriteSku(s, n, k, h), keyDoc[k].rid = r, UNCHANGED idx,
         \A i \in Ids : i # r => /\ takes'[i] = takes[i] /\ out'[i] = out[i]
                                 /\ owner'[i] = owner[i] /\ done'[i] = done[i]
  PROVE /\ \A i \in Ids : i # r => Keeps(i)
        /\ idx[r].term # "absent" /\ idx[r].sku = s /\ idx[r].key = k
             => LiveHold(r)' = IF h.rid = r THEN h ELSE NoHold
<1>1. \A t \in Skus, j \in Keys : hold'[t][j] = IF t = s /\ j = k THEN h ELSE hold[t][j]
  BY WriteSkuStep DEF IInv
<1>2. ASSUME NEW i \in Ids, i # r PROVE Keeps(i)
  <2>1. CASE takes[i] = 0
    BY <1>2, <2>1 DEF Keeps, End, HeldState, HeldFor
  <2>2. CASE takes[i] # 0
    <3>1. idx[i].term # "absent"
      BY <2>2 DEF IInv, HoldsAgree
    <3>2. keyDoc[idx[i].key].rid = i /\ idx[i].key \in Keys /\ idx[i].sku \in Skus
      BY <3>1 DEF IInv, ClaimsAgree, TypeOK, Index
    <3>3. hold'[idx[i].sku][idx[i].key] = hold[idx[i].sku][idx[i].key]
      BY <1>1, <1>2, <3>2
    <3>4. LiveHold(i)' = LiveHold(i)
      BY <3>3 DEF LiveHold
    <3> QED BY <1>2, <3>4 DEF Keeps, End, HeldState, HeldFor
  <2> QED BY <2>1, <2>2
<1>3. idx[r].sku = s /\ idx[r].key = k => LiveHold(r)' = IF h.rid = r THEN h ELSE NoHold
  BY <1>1 DEF LiveHold
<1> QED BY <1>2, <1>3

LEMMA WriteMoves ==
  ASSUME IInv, UnitsStand, NEW p \in Callers, Write(p) PROVE Implements
<1>0. PICK r \in Ids : r = call[p].rid
  <2>1. Claimed(call[p]) /\ call[p].at \in ReserveSteps
    BY DEF Write, Claimed, ReserveSteps
  <2> QED BY <2>1, ReserveTypes
<1> DEFINE c == call[p]
           h == [rid |-> r, qty |-> c.qty, state |-> "held", order |-> None, deadline |-> "none"]
           n == onHand[c.sku] - c.qty
<1>1. c.at = "write" /\ Claimed(c) /\ c.at \in ReserveSteps
  BY DEF Write, Claimed, ReserveSteps
<1>2. c.sku \in Skus /\ c.key \in Keys /\ c.qty \in Nat /\ c.qty > 0 /\ r \in Ids
  BY <1>0, <1>1, ReserveTypes
<1>3. \A q \in Callers : call'[q] = call[q] \/ Relies(q)'
  BY ReserveStays DEF ReserveStep
<1>4. CASE p \notin fresh
  <2>1. UNCHANGED <<hold, idx, takes, out, owner, done>>
    BY <1>4 DEF Write, aggregate
  <2> QED BY <1>3, <2>1, AllKept, NoneMoves
<1>5. CASE p \in fresh
  <2>1. takes[r] = 0 /\ c.ok /\ onHand[c.sku] >= c.qty
    BY <1>0, <1>1, <1>5 DEF IInv, ReadsAgree, Reader
  <2>2. /\ keyDoc[c.key].rid = r /\ idx[r].term # "absent" /\ idx[r].sku = c.sku
        /\ idx[r].key = c.key
    BY <1>0, <1>1 DEF IInv, CompletersAgree, Completer
  <2>3. /\ WriteSku(c.sku, n, c.key, h)
        /\ takes' = [takes EXCEPT ![r] = @ + 1]
        /\ out' = [out EXCEPT ![r] = @ + c.qty]
        /\ UNCHANGED <<keyDoc, idx, owner, done>>
    BY <1>0, <1>5 DEF Write
  <2>4. h \in Hold /\ n \in Nat
    BY <1>2, <2>1, NoneAssumption DEF Hold, IInv, TypeOK
  <2>5. takes'[r] = 1 /\ \A i \in Ids : i # r => takes'[i] = takes[i] /\ out'[i] = out[i]
    BY <1>2, <2>1, <2>3 DEF IInv, TypeOK
  <2>6. h.rid = r /\ h.state = "held" /\ h.order = None
    OBVIOUS
  <2> HIDE DEF h, n
  <2>7. (\A i \in Ids : i # r => Keeps(i)) /\ LiveHold(r)' = h
    BY <1>2, <2>2, <2>3, <2>4, <2>5, <2>6, CellKeeps
  <2>8. Stands(r) /\ End(r) = "open" /\ owner[r] = None /\ done[r] = {}
    BY <1>2, <2>1 DEF UnitsStand, Stands
  <2>9. HeldState(r)' = "held" /\ End(r)' = "open" /\ owner'[r] = None /\ done'[r] = {}
    BY <2>3, <2>5, <2>6, <2>7, <2>8 DEF HeldState, End
  <2>10. Stands(r)' /\ Lasts(r)
    BY <2>1, <2>5, <2>8, <2>9 DEF Stands, Lasts
  <2>11. Place(r) = "none" /\ Place(r)' = "held"
    <3>1. LiveHold(r)'.state = "held" /\ idx'[r].term \notin {"committed", "released"}
      BY <2>6, <2>7, <2>9 DEF End, Ends
    <3> QED BY <2>1, <2>5, <3>1 DEF Place
  <2> QED BY <1>2, <1>3, <2>7, <2>8, <2>9, <2>10, <2>11, OneMoves
<1> QED BY <1>4, <1>5

LEMMA ReserveMoves ==
  ASSUME IInv, UnitsStand, NEW p \in Callers, ReserveStep(p) PROVE Implements
<1>1. \A q \in Callers : call'[q] = call[q] \/ Relies(q)'
  BY ReserveStays
<1>2. CASE WriteIndex(p)
  BY <1>1, <1>2, WriteIndexKeeps, NoneMoves
<1>3. CASE Fail(p)
  BY <1>1, <1>3, FailKeeps, NoneMoves
<1>4. CASE Write(p)
  BY <1>4, WriteMoves
<1>5. CASE ReadKey(p) \/ Look(p) \/ Refuse(p) \/ Claim(p) \/ PreRead(p) \/ Load(p) \/ Recheck(p)
           \/ MarkKey(p)
  BY <1>1, <1>5, SameHolds, AllKept, NoneMoves
<1> QED BY <1>2, <1>3, <1>4, <1>5 DEF ReserveStep

\* What a settle's call relies on after it moves on, or ends.
LEMMA CallMoves ==
  ASSUME IInv, NEW p \in Callers, call[p].at \in SettleSteps, Relies(p)
  PROVE /\ Return(p) => Others(p) /\ Relies(p)'
        /\ \A a \in SettleSteps \ {"flip"} :
             Goto(p, a) => /\ Others(p) /\ SameArgs(p) /\ call'[p].at = a
                           /\ (/\ a \in {"answer", "settle"} /\ call[p].op = "releaseAdopted"
                                  => owner'[call[p].rid] = call[p].order
                               /\ a = "settle" => call[p].op # "releaseHeld"
                               /\ a \in {"free", "freed", "gone", "goneKey"}
                                  => call[p].op = "releaseHeld"
                               /\ call[p].at # "flip"
                               /\ \A r \in Ids : a \in {"freed", "gone", "goneKey"}
                                    /\ r = call[p].rid => HeldState(r)' = "none")
                              => Relies(p)'
<1>1. call \in [Callers -> Call] /\ call[p].rid \in Ids
  BY SettleTypes DEF IInv, TypeOK
<1>2. Return(p) => Others(p) /\ Relies(p)'
  BY <1>1, ReturnStep DEF Relies, SettleSteps
<1>3. ASSUME NEW a \in SettleSteps \ {"flip"}, Goto(p, a)
      PROVE /\ Others(p) /\ SameArgs(p) /\ call'[p].at = a
            /\ (/\ a \in {"answer", "settle"} /\ call[p].op = "releaseAdopted"
                   => owner'[call[p].rid] = call[p].order
                /\ a = "settle" => call[p].op # "releaseHeld"
                /\ a \in {"free", "freed", "gone", "goneKey"} => call[p].op = "releaseHeld"
                /\ call[p].at # "flip"
                /\ \A r \in Ids : a \in {"freed", "gone", "goneKey"} /\ r = call[p].rid
                     => HeldState(r)' = "none")
               => Relies(p)'
  <2>1. Others(p) /\ SameArgs(p) /\ call'[p].at = a
    BY <1>1, <1>3, GotoStep DEF Steps
  <2>2. PICK r \in Ids : r = call[p].rid
    BY <1>1
  <2>3. call'[p].rid = r /\ call'[p].op = call[p].op /\ call'[p].order = call[p].order
    BY <2>1, <2>2 DEF SameArgs
  <2> QED BY <1>3, <2>1, <2>2, <2>3 DEF Relies
<1> QED BY <1>2, <1>3

LEMMA ReadHoldMoves ==
  ASSUME IInv, UnitsStand, NEW p \in Callers, ReadHold(p) PROVE Implements
<1>1. call[p].at = "live" /\ call[p].at \in SettleSteps
  BY DEF ReadHold, SettleSteps
<1>2. Relies(p) /\ takes[call[p].rid] = 1 /\ call[p].rid \in Ids
  BY <1>1, SettleTypes DEF UnitsStand
<1>3. UNCHANGED <<hold, idx, takes, out, owner, done>>
  BY DEF ReadHold, docs, history
<1>4. PICK r \in Ids : r = call[p].rid
  BY <1>2
<1>5. HeldState(r) = LiveHold(r).state /\ HeldFor(r) = LiveHold(r).order
      /\ HeldState(r)' = HeldState(r)
  <2>1. HeldState(r) = LiveHold(r).state /\ HeldFor(r) = LiveHold(r).order
    BY <1>2, <1>4 DEF HeldState, HeldFor
  <2>2. LiveHold(r)' = LiveHold(r)
    BY <1>3 DEF LiveHold
  <2> QED BY <1>3, <2>1, <2>2 DEF HeldState
<1>6. CASE Return(p)
  BY <1>1, <1>2, <1>3, <1>6, CallMoves, AllKept, NoneMoves DEF Others
<1>7. CASE Eligible(call[p], LiveHold(r)) /\ Goto(p, "answer")
  <2>1. call[p].op = "releaseAdopted" => owner'[r] = call[p].order
    BY <1>3, <1>4, <1>5, <1>7 DEF Eligible, UnitsStand, Stands
  <2>2. Others(p) /\ Relies(p)'
    BY <1>1, <1>2, <1>4, <1>7, <2>1, CallMoves DEF SettleSteps
  <2> QED BY <1>3, <2>2, AllKept, NoneMoves DEF Others
<1>8. CASE LiveHold(r).state = "none" /\ call[p].op = "releaseHeld" /\ Goto(p, "gone")
  <2>1. Others(p) /\ Relies(p)'
    BY <1>1, <1>2, <1>4, <1>5, <1>8, CallMoves DEF SettleSteps
  <2> QED BY <1>3, <2>1, AllKept, NoneMoves DEF Others
<1> QED BY <1>4, <1>6, <1>7, <1>8 DEF ReadHold

LEMMA RecordAnswerMoves ==
  ASSUME IInv, UnitsStand, NEW p \in Callers, RecordAnswer(p) PROVE Implements
<1>1. call[p].at = "answer" /\ call[p].at \in SettleSteps
  BY DEF RecordAnswer, SettleSteps
<1>2. Relies(p) /\ call[p].rid \in Ids
  BY <1>1, SettleTypes DEF UnitsStand
<1>3. UNCHANGED <<hold, idx, takes, out, owner, done>>
  BY DEF RecordAnswer, aggregate, history
<1>4. \/ call[p].op = "releaseHeld" /\ Goto(p, "free")
      \/ call[p].op # "releaseHeld" /\ Goto(p, "settle")
  BY DEF RecordAnswer
<1>5. call[p].op = "releaseAdopted" => owner'[call[p].rid] = call[p].order
  BY <1>1, <1>2, <1>3 DEF Relies
<1>6. Others(p) /\ Relies(p)'
  BY <1>1, <1>2, <1>4, <1>5, CallMoves DEF SettleSteps
<1> QED BY <1>3, <1>6, AllKept, NoneMoves DEF Others

LEMMA GoneKeyMoves ==
  ASSUME IInv, UnitsStand, NEW p \in Callers, GoneKey(p) PROVE Implements
<1>1. call[p].at = "goneKey" /\ call[p].at \in SettleSteps
  BY DEF GoneKey, SettleSteps
<1>2. Relies(p) /\ call[p].rid \in Ids
  BY <1>1, SettleTypes DEF UnitsStand
<1>3. UNCHANGED <<hold, idx, takes, out, owner, done>>
  BY DEF GoneKey, docs, history
<1>4. Goto(p, "freed") \/ Return(p)
  BY DEF GoneKey
<1>5. \A r \in Ids : r = call[p].rid => HeldState(r)' = "none"
  BY <1>1, <1>2, <1>3 DEF Relies, HeldState, LiveHold
<1>6. Others(p) /\ Relies(p)'
  BY <1>1, <1>2, <1>4, <1>5, CallMoves DEF SettleSteps, Relies
<1> QED BY <1>3, <1>6, AllKept, NoneMoves DEF Others

\* An answer of success is recorded for a reservation that ended that way, whose hold is
\* gone and, released, whose units are back.
LEMMA AnswerStands ==
  ASSUME IInv, NEW p \in Callers, NEW r \in Ids, r = call[p].rid, NEW t, Answered(call[p], t)
  PROVE /\ \A i \in Ids : i # r => done'[i] = done[i]
        /\ done'[r] = done[r] \/ (done'[r] = done[r] \cup {t} /\ t \in Ends)
        /\ call[p].op # "commit" /\ t # "released" => done'[r] = done[r]
BY DEF Answered, Ends, IInv, TypeOK

LEMMA GoneMoves == ASSUME IInv, UnitsStand, NEW p \in Callers, Gone(p) PROVE Implements
<1>1. call[p].at = "gone" /\ call[p].at \in SettleSteps
  BY DEF Gone, SettleSteps
<1>2. Relies(p) /\ call[p].rid \in Ids /\ takes[call[p].rid] = 1
  BY <1>1, SettleTypes DEF UnitsStand
<1>3. UNCHANGED <<hold, idx, takes, out, owner>>
  BY DEF Gone, docs
<1>4. PICK r \in Ids : r = call[p].rid
  BY <1>2
<1>5. HeldState(r) = "none" /\ HeldState(r)' = "none" /\ HeldFor(r)' = HeldFor(r)
      /\ End(r)' = End(r)
  BY <1>1, <1>2, <1>3, <1>4 DEF Relies, HeldState, HeldFor, LiveHold, End
<1>6. Others(p) /\ Relies(p)'
  <2>1. Goto(p, "goneKey") \/ Return(p)
    BY DEF Gone
  <2> QED BY <1>1, <1>2, <1>4, <1>5, <2>1, CallMoves DEF SettleSteps, Relies
<1>7. CASE UNCHANGED done
  BY <1>3, <1>6, <1>7, AllKept, NoneMoves DEF Others
<1>8. CASE Answered(call[p], idx[r].term)
  <2>0. PICK t : t = idx[r].term
    OBVIOUS
  <2>6. Answered(call[p], t)
    BY <1>8, <2>0
  <2>1. /\ \A i \in Ids : i # r => done'[i] = done[i]
        /\ done'[r] = done[r] \/ (done'[r] = done[r] \cup {t} /\ t \in Ends)
    BY <1>4, <2>6, AnswerStands
  <2>2. \A i \in Ids : i # r => Keeps(i)
    BY <1>3, <2>1 DEF Keeps, End, HeldState, HeldFor, LiveHold
  <2>3. Stands(r) /\ End(r) = (IF idx[r].term \in Ends THEN idx[r].term ELSE "open")
    BY DEF UnitsStand, End
  <2>4. Stands(r)' /\ Lasts(r)
    BY <1>2, <1>3, <1>4, <1>5, <2>0, <2>1, <2>3 DEF Stands, Lasts, Ends
  <2>5. Place(r)' = Place(r) /\ owner'[r] = owner[r]
    BY <1>3 DEF Place, LiveHold
  <2> QED BY <1>6, <2>2, <2>4, <2>5, OneMoves DEF Others
<1> QED BY <1>4, <1>7, <1>8 DEF Gone

LEMMA SettleTerminalMoves ==
  ASSUME IInv, UnitsStand, NEW p \in Callers, SettleTerminal(p) PROVE Implements
<1>1. call[p].at = "settle" /\ call[p].at \in SettleSteps
  BY DEF SettleTerminal, SettleSteps
<1>2. PICK r \in Ids : r = call[p].rid /\ takes[r] = 1 /\ idx[r].term # "absent"
                       /\ idx[r] \in Index
  BY <1>1, SettleTypes
<1>3. PICK t \in Terminals :
        /\ t = IF call[p].op = "commit" THEN "committed" ELSE "released"
        /\ idx' = Settled(r, t)
        /\ Win(p, "prune", Winner(r, t))
        /\ UNCHANGED <<hold, takes, out, owner, done>>
  BY <1>2 DEF SettleTerminal, Terminals, aggregate, history
<1>4. Relies(p) /\ Stands(r)
  BY DEF UnitsStand
<1>5. Others(p) /\ Relies(p)'
  <2>1. Winner(r, t) \in Terminals /\ call \in [Callers -> Call]
    BY DEF Winner, IInv, TypeOK
  <2>2. Others(p) /\ SameArgs(p) /\ call'[p].at = "prune"
    BY <1>3, <2>1, WinStep DEF Steps, SettleSteps
  <2> QED BY <1>1, <1>4, <2>2 DEF Relies, SameArgs
<1>6. /\ \A i \in Ids : HeldState(i)' = HeldState(i) /\ HeldFor(i)' = HeldFor(i)
      /\ \A i \in Ids : i # r => End(i)' = End(i)
      /\ idx[r].term \in Terminals \/ t = "failed" => End(r)' = End(r)
      /\ idx[r].term = "open" => End(r)' = IF t = "failed" THEN "open" ELSE t
  BY <1>3, EndSettled
<1>7. \A i \in Ids : i # r => Keeps(i)
  BY <1>3, <1>6 DEF Keeps
<1>8. CASE idx[r].term \in Terminals
  <2>1. Keeps(r)
    BY <1>3, <1>6, <1>8 DEF Keeps
  <2> QED BY <1>5, <1>7, <2>1, NoneMoves DEF Others
<1>9. CASE idx[r].term = "open"
  <2>1. End(r) = "open" /\ End(r)' = t /\ t \in {"committed", "released"}
    BY <1>3, <1>6, <1>9 DEF End, Ends
  <2>2. done[r] = {}
    BY <1>4, <2>1 DEF Stands, Ends
  <2>3. HeldState(r) = "none" => out[r] = 0
    BY <1>2, <1>4, <2>1 DEF Stands
  <2>4. Stands(r)' /\ Lasts(r)
    BY <1>2, <1>3, <1>4, <1>6, <2>1, <2>2, <2>3 DEF Stands, Lasts
  <2>5. HeldState(r) = LiveHold(r).state /\ LiveHold(r)' .state = LiveHold(r).state
    BY <1>2, <1>3, <1>6 DEF HeldState
  <2>6. /\ Place(r) = IF LiveHold(r).state = "none" THEN "back" ELSE "held"
        /\ Place(r)' = IF LiveHold(r).state = "none" THEN "back"
                       ELSE IF t = "committed" THEN "sold" ELSE "back"
    <3>1. Place(r) = IF LiveHold(r).state = "none" THEN "back" ELSE "held"
      BY <1>2, <1>9, <2>3, <2>5 DEF Place
    <3>2. idx'[r].term = t /\ takes'[r] = 1 /\ out'[r] = out[r]
      BY <1>2, <1>3, <2>1 DEF End, Ends
    <3>3. Place(r)' = IF LiveHold(r).state = "none" THEN "back"
                      ELSE IF t = "committed" THEN "sold" ELSE "back"
      BY <2>1, <2>3, <2>5, <3>2 DEF Place
    <3> QED BY <3>1, <3>3
  <2>7. t = "released" => owner[r] = None \/ Asking(r) \cap {owner[r], None} # {}
    <3> SUFFICES ASSUME t = "released"
                 PROVE Asking(r) \cap {owner[r], None} # {}
      OBVIOUS
    <3>1. call[p].op \in {"release", "releaseAdopted"}
      BY <1>1, <1>3, <1>4 DEF Relies, Settles
    <3>2. call[p].order \in Asking(r)
      BY <1>2, <3>1 DEF Asking
    <3>3. call[p].order \in {owner[r], None}
      BY <1>1, <1>2, <1>4, <3>1 DEF Relies
    <3> QED BY <3>2, <3>3
  <2>8. owner'[r] = owner[r]
    BY <1>3
  <2> QED BY <1>5, <1>7, <2>1, <2>4, <2>6, <2>7, <2>8, OneMoves DEF Others
<1> QED BY <1>2, <1>8, <1>9 DEF Index

\* The hold of r goes; nothing else of r changes but the units it gives back.
LEMMA UnholdView ==
  ASSUME IInv, NEW r \in Ids, NEW back \in BOOLEAN, takes[r] = 1, LiveHold(r).state # "none",
         Unhold(r, back), UNCHANGED <<keyDoc, idx, takes, owner>>,
         \A i \in Ids : i # r => done'[i] = done[i]
  PROVE /\ \A i \in Ids : i # r => Keeps(i)
        /\ HeldState(r) = LiveHold(r).state /\ HeldState(r)' = "none"
        /\ End(r)' = End(r)
        /\ out[r] # 0
        /\ out'[r] = IF back THEN 0 ELSE out[r]
<1> DEFINE h == LiveHold(r)
<1>1. idx[r].term # "absent"
  BY DEF IInv, HoldsAgree
<1>2. /\ idx[r].sku \in Skus /\ idx[r].key \in Keys /\ h \in Hold /\ h.rid = r /\ h.qty > 0
      /\ out[r] = h.qty /\ h.qty \in Nat
  <2>1. h \in Hold => h.qty \in Nat
    BY DEF Hold
  <2> QED BY <1>1, <2>1, LiveCell
<1>3. PICK s \in Skus, k \in Keys : s = idx[r].sku /\ k = idx[r].key
  BY <1>2
<1>4. PICK n \in Nat : WriteSku(s, n, k, NoHold)
  <2>1. onHand[s] \in Nat
    BY DEF IInv, TypeOK
  <2>2. onHand[s] + h.qty \in Nat
    BY <1>2, <2>1
  <2>3. \/ WriteSku(s, onHand[s], k, NoHold)
        \/ WriteSku(s, onHand[s] + h.qty, k, NoHold)
    BY <1>3 DEF Unhold
  <2> QED BY <2>1, <2>2, <2>3
<1>5. out' = IF back THEN [out EXCEPT ![r] = @ - h.qty] ELSE out
  BY DEF Unhold
<1>6. /\ out'[r] = IF back THEN 0 ELSE out[r]
      /\ \A i \in Ids : i # r => out'[i] = out[i]
  <2>1. out \in [Ids -> Int]
    BY DEF IInv, TypeOK
  <2> QED BY <1>2, <1>5, <2>1
<1>7. keyDoc[k].rid = r
  BY <1>1, <1>3 DEF IInv, ClaimsAgree
<1>8. NoHold \in Hold /\ NoHold.rid = None /\ NoHold.state = "none" /\ r # None
  BY NoneAssumption DEF NoHold, Hold
<1>9. (\A i \in Ids : i # r => Keeps(i)) /\ LiveHold(r)' = NoHold
  BY <1>1, <1>3, <1>4, <1>6, <1>7, <1>8, CellKeeps
<1>10. HeldState(r)' = "none" /\ HeldState(r) = h.state /\ End(r)' = End(r)
  BY <1>8, <1>9 DEF HeldState, End
<1> QED BY <1>2, <1>6, <1>9, <1>10

LEMMA PruneMoves == ASSUME IInv, UnitsStand, NEW p \in Callers, Prune(p) PROVE Implements
<1>1. call[p].at = "prune" /\ call[p].at \in SettleSteps
  BY DEF Prune, SettleSteps
<1>2. PICK r \in Ids : r = call[p].rid /\ takes[r] = 1 /\ idx[r].term # "absent"
                       /\ idx[r] \in Index
  BY <1>1, SettleTypes
<1>3. PICK t : t = call[p].won
  OBVIOUS
<1>4. t = idx[r].term /\ t \in Terminals
  BY <1>1, <1>2, <1>3 DEF IInv, SettlesAgree, Settler, Index
<1>5. Answered(call[p], t) /\ Return(p) /\ UNCHANGED <<keyDoc, idx, takes, owner>>
  BY <1>3 DEF Prune
<1>6. Relies(p) /\ Stands(r)
  BY DEF UnitsStand
<1>7. Others(p) /\ Relies(p)'
  BY <1>1, <1>5, <1>6, CallMoves
<1>8. /\ \A i \in Ids : i # r => done'[i] = done[i]
      /\ done'[r] = done[r] \/ (done'[r] = done[r] \cup {t} /\ t \in Ends)
  BY <1>2, <1>5, AnswerStands
<1>9. t \in Ends => End(r) = t
  BY <1>4 DEF End
<1>10. CASE t # "failed" /\ LiveHold(r).state # "none"
  <2>1. Unhold(r, t = "released") /\ (t = "released") \in BOOLEAN
    BY <1>2, <1>3, <1>10 DEF Prune
  <2>2. t \in Ends
    BY <1>4, <1>10 DEF Terminals, Ends
  <2>3. /\ \A i \in Ids : i # r => Keeps(i)
        /\ HeldState(r) = LiveHold(r).state /\ HeldState(r)' = "none"
        /\ End(r)' = End(r)
        /\ out[r] # 0
        /\ out'[r] = IF t = "released" THEN 0 ELSE out[r]
    BY <1>2, <1>5, <1>8, <1>10, <2>1, UnholdView
  <2>4. done[r] = {} /\ takes'[r] = 1 /\ owner'[r] = owner[r]
    BY <1>2, <1>5, <1>6, <1>10, <2>3 DEF Stands
  <2>5. Stands(r)'
    BY <1>8, <1>9, <2>2, <2>3, <2>4 DEF Stands, Ends
  <2>6. Lasts(r)
    BY <2>3, <2>4 DEF Lasts
  <2>7. Place(r)' = Place(r)
    <3>1. Place(r) = IF t = "committed" THEN "sold" ELSE "back"
      BY <1>2, <1>4, <1>10, <2>2 DEF Place, Ends
    <3>2. LiveHold(r)'.state = "none"
      BY <2>3, <2>4 DEF HeldState
    <3>3. Place(r)' = IF t = "committed" THEN "sold" ELSE "back"
      BY <2>2, <2>3, <2>4, <3>2 DEF Place, Ends
    <3> QED BY <3>1, <3>3
  <2> QED BY <1>7, <2>3, <2>4, <2>5, <2>6, <2>7, OneMoves DEF Others
<1>11. CASE ~(t # "failed" /\ LiveHold(r).state # "none")
  <2>1. UNCHANGED <<hold, out>>
    BY <1>2, <1>3, <1>11 DEF Prune, aggregate
  <2>2. \A i \in Ids : i # r => Keeps(i)
    BY <1>5, <1>8, <2>1 DEF Keeps, End, HeldState, HeldFor, LiveHold
  <2>3. /\ HeldState(r) = LiveHold(r).state /\ HeldState(r)' = HeldState(r)
        /\ HeldFor(r)' = HeldFor(r) /\ End(r)' = End(r)
    <3>1. LiveHold(r)' = LiveHold(r)
      BY <1>5, <2>1 DEF LiveHold
    <3>2. /\ HeldState(r) = LiveHold(r).state /\ HeldState(r)' = HeldState(r)
          /\ HeldFor(r)' = HeldFor(r)
      BY <1>2, <1>5, <3>1 DEF HeldState, HeldFor
    <3>3. End(r)' = End(r)
      BY <1>5, <2>1 DEF End
    <3> QED BY <3>2, <3>3
  <2>4. t \in Ends => HeldState(r) = "none"
    BY <1>11, <2>3 DEF Ends
  <2>5. Stands(r)' /\ Lasts(r)
    BY <1>2, <1>5, <1>6, <1>8, <1>9, <2>1, <2>3, <2>4 DEF Stands, Lasts, Ends
  <2>6. Place(r)' = Place(r) /\ owner'[r] = owner[r]
    BY <1>5, <2>1 DEF Place, LiveHold
  <2> QED BY <1>7, <2>2, <2>5, <2>6, OneMoves DEF Others
<1> QED BY <1>10, <1>11

LEMMA FreeMoves == ASSUME IInv, UnitsStand, NEW p \in Callers, Free(p) PROVE Implements
<1>1. call[p].at = "free" /\ call[p].at \in SettleSteps
  BY DEF Free, SettleSteps
<1>2. PICK r \in Ids : r = call[p].rid /\ takes[r] = 1
  BY <1>1, SettleTypes
<1>3. UNCHANGED <<keyDoc, idx, takes, owner, done>>
  BY DEF Free
<1>4. Relies(p) /\ Stands(r) /\ HeldState(r) = LiveHold(r).state
  BY <1>2 DEF UnitsStand, HeldState
<1>5. CASE LiveHold(r).state = "held" /\ Unhold(r, TRUE) /\ Goto(p, "freed")
  <2>1. /\ \A i \in Ids : i # r => Keeps(i)
        /\ HeldState(r)' = "none" /\ End(r)' = End(r) /\ out[r] # 0 /\ out'[r] = 0
    BY <1>2, <1>3, <1>5, UnholdView
  <2>2. done'[r] = {} /\ owner[r] = None /\ takes'[r] = 1 /\ owner'[r] = owner[r]
    BY <1>2, <1>3, <1>4, <1>5 DEF Stands
  <2>3. Stands(r)' /\ Lasts(r)
    BY <2>1, <2>2 DEF Stands, Lasts
  <2>4. Place(r)' = "back" /\ Place(r) \in {"held", "sold", "back"}
    <3>1. LiveHold(r)'.state = "none"
      BY <2>1, <2>2 DEF HeldState
    <3> QED BY <1>2, <1>5, <2>1, <2>2, <3>1 DEF Place
  <2>5. Others(p) /\ Relies(p)'
    BY <1>1, <1>2, <1>4, <1>5, <2>1, CallMoves DEF SettleSteps, Relies
  <2> QED BY <2>1, <2>2, <2>3, <2>4, <2>5, OneMoves DEF Others
<1>6. CASE LiveHold(r).state # "held" /\ UNCHANGED <<hold, out>>
  <2>1. HeldState(r)' = HeldState(r)
    BY <1>3, <1>6 DEF HeldState, LiveHold
  <2>2. (LiveHold(r).state = "none" /\ Goto(p, "gone")) \/ Return(p)
    BY <1>2, <1>6 DEF Free
  <2>3. Others(p) /\ Relies(p)'
    BY <1>1, <1>2, <1>4, <2>1, <2>2, CallMoves DEF SettleSteps, Relies
  <2> QED BY <1>3, <1>6, <2>3, AllKept, NoneMoves DEF Others
<1> QED BY <1>2, <1>5, <1>6 DEF Free, aggregate

LEMMA FreedMoves == ASSUME IInv, UnitsStand, NEW p \in Callers, Freed(p) PROVE Implements
<1>1. call[p].at = "freed" /\ call[p].at \in SettleSteps
  BY DEF Freed, SettleSteps
<1>2. PICK r \in Ids : r = call[p].rid /\ takes[r] = 1 /\ idx[r].term # "absent"
                       /\ idx[r] \in Index
  BY <1>1, SettleTypes
<1>3. PICK t : t = Winner(r, "released")
  OBVIOUS
<1>4. /\ idx' = Settled(r, "released") /\ Return(p) /\ Answered(call[p], t)
      /\ UNCHANGED <<hold, takes, out, owner>>
  BY <1>2, <1>3 DEF Freed, aggregate
<1>5. Relies(p) /\ Stands(r) /\ HeldState(r) = "none"
  BY <1>1, <1>2 DEF UnitsStand, Relies
<1>6. Others(p) /\ Relies(p)'
  BY <1>1, <1>4, <1>5, CallMoves
<1>7. "released" \in Terminals
  BY DEF Terminals
<1>8. /\ \A i \in Ids : HeldState(i)' = HeldState(i) /\ HeldFor(i)' = HeldFor(i)
      /\ \A i \in Ids : i # r => End(i)' = End(i)
      /\ idx[r].term \in Terminals => End(r)' = End(r)
      /\ idx[r].term = "open" => End(r)' = "released"
  BY <1>4, <1>7, EndSettled
<1>9. /\ \A i \in Ids : i # r => done'[i] = done[i]
      /\ done'[r] = done[r] \/ (done'[r] = done[r] \cup {t} /\ t \in Ends)
  BY <1>2, <1>4, AnswerStands
<1>10. \A i \in Ids : i # r => Keeps(i)
  BY <1>4, <1>8, <1>9 DEF Keeps
<1>11. /\ idx[r].term \in Terminals => t = idx[r].term /\ (t \in Ends => End(r)' = t)
       /\ idx[r].term = "open" => t = "released" /\ End(r) = "open" /\ done[r] = {}
  <2>1. idx[r].term \in Terminals => t = idx[r].term /\ (t \in Ends => End(r) = t)
    BY <1>3 DEF Winner, End
  <2>2. idx[r].term = "open" => t = "released" /\ End(r) = "open"
    BY <1>3 DEF Winner, End, Ends, Terminals
  <2>3. End(r) = "open" => done[r] = {}
    BY <1>5 DEF Stands, Ends
  <2> QED BY <1>8, <2>1, <2>2, <2>3
<1>12. takes'[r] = 1 /\ owner'[r] = owner[r] /\ out'[r] = out[r] /\ HeldState(r)' = "none"
       /\ idx[r].term \in Terminals \cup {"open"}
  BY <1>2, <1>4, <1>5, <1>8 DEF Index
<1>13. Stands(r)' /\ Lasts(r)
  <2>1. Lasts(r)
    BY <1>12 DEF Lasts
  <2>2. out[r] # 0 => End(r) = "committed"
    BY <1>2, <1>5 DEF Stands
  <2>3. \A d \in done[r] : d \in Ends /\ End(r) = d
    BY <1>5 DEF Stands
  <2>4. out'[r] # 0 => End(r)' = "committed"
    BY <1>8, <1>11, <1>12, <2>2
  <2>5. ASSUME NEW d \in done'[r] PROVE d \in Ends /\ End(r)' = d
    <3>1. CASE idx[r].term \in Terminals
      BY <1>8, <1>9, <1>11, <2>3, <2>5, <3>1
    <3>2. CASE idx[r].term = "open"
      BY <1>8, <1>9, <1>11, <2>5, <3>2 DEF Ends
    <3> QED BY <1>12, <3>1, <3>2
  <2>6. Stands(r)'
    BY <1>12, <2>4, <2>5 DEF Stands
  <2> QED BY <2>1, <2>6
<1>14. Place(r)' = Place(r)
  <2>1. LiveHold(r).state = "none" /\ LiveHold(r)'.state = "none"
    BY <1>2, <1>5, <1>12 DEF HeldState
  <2> QED BY <1>2, <1>12, <2>1 DEF Place
<1> QED BY <1>6, <1>10, <1>12, <1>13, <1>14, OneMoves DEF Others

\* A live hold is rewritten without changing its state, or is adopted.
LEMMA ReholdView ==
  ASSUME IInv, NEW r \in Ids, takes[r] = 1, LiveHold(r).state # "none",
         NEW n \in Nat, NEW h \in Hold, WriteSku(idx[r].sku, n, idx[r].key, h), h.rid = r,
         UNCHANGED <<keyDoc, idx, takes, done>>,
         \A i \in Ids : i # r => out'[i] = out[i] /\ owner'[i] = owner[i]
  PROVE /\ \A i \in Ids : i # r => Keeps(i)
        /\ LiveHold(r)' = h
        /\ HeldState(r) = LiveHold(r).state /\ HeldFor(r) = LiveHold(r).order
        /\ HeldState(r)' = h.state /\ HeldFor(r)' = h.order
        /\ End(r)' = End(r)
<1>1. idx[r].term # "absent"
  BY DEF IInv, HoldsAgree
<1>2. PICK s \in Skus, k \in Keys : s = idx[r].sku /\ k = idx[r].key
  BY <1>1, LiveCell
<1>3. keyDoc[k].rid = r
  BY <1>1, <1>2 DEF IInv, ClaimsAgree
<1>4. (\A i \in Ids : i # r => Keeps(i)) /\ LiveHold(r)' = h
  BY <1>1, <1>2, <1>3, CellKeeps
<1> QED BY <1>4 DEF HeldState, HeldFor, End

LEMMA FlipMoves == ASSUME IInv, UnitsStand, NEW p \in Callers, Flip(p) PROVE Implements
<1>1. call[p].at = "flip" /\ call[p].at \in SettleSteps
  BY DEF Flip, SettleSteps
<1>2. PICK r \in Ids : r = call[p].rid /\ takes[r] = 1 /\ idx[r].term # "absent"
                       /\ LiveHold(r) \in Hold
  BY <1>1, SettleTypes
<1>3. UNCHANGED <<keyDoc, idx, takes, out, done>> /\ Return(p)
  BY DEF Flip
<1>4. Relies(p) /\ Stands(r) /\ call[p].order \in Orders \cup {None}
  BY DEF UnitsStand, IInv, TypeOK, Call
<1>5. Others(p) /\ Relies(p)'
  BY <1>1, <1>3, <1>4, CallMoves
<1>6. CASE UNCHANGED <<hold, owner>>
  BY <1>3, <1>5, <1>6, AllKept, NoneMoves DEF Others
<1>7. CASE ~UNCHANGED <<hold, owner>>
  <2>1. PICK o \in Orders \cup {None}, st \in {"adopted", "held"}, h \in Hold :
          /\ o = call[p].order
          /\ st = IF call[p].op # "stamp" THEN "adopted" ELSE "held"
          /\ h = [LiveHold(r) EXCEPT !.state = st, !.order = o, !.deadline = "future"]
    <3>1. \A o \in Orders \cup {None}, st \in {"adopted", "held"} :
            [LiveHold(r) EXCEPT !.state = st, !.order = o, !.deadline = "future"] \in Hold
      BY <1>2 DEF Hold
    <3> QED BY <1>4, <3>1
  <2>2. /\ LiveHold(r).state = "held"
        /\ WriteSku(idx[r].sku, onHand[idx[r].sku], idx[r].key, h)
        /\ owner' = IF st = "adopted" THEN [owner EXCEPT ![r] = o] ELSE owner
    BY <1>2, <1>7, <2>1 DEF Flip, aggregate
  <2>3. h.rid = r /\ h.state = st /\ h.order = o
    BY <1>2, <2>1, <2>2, LiveCell DEF Hold
  <2>4. onHand[idx[r].sku] \in Nat
    BY <1>2, <2>2, LiveCell DEF IInv, TypeOK
  <2>5. \A i \in Ids : i # r => out'[i] = out[i] /\ owner'[i] = owner[i]
    BY <1>3, <2>2 DEF IInv, TypeOK
  <2>6. /\ \A i \in Ids : i # r => Keeps(i)
        /\ LiveHold(r)' = h /\ HeldState(r) = LiveHold(r).state
        /\ HeldState(r)' = h.state /\ HeldFor(r)' = h.order
        /\ End(r)' = End(r)
    BY <1>2, <1>3, <2>2, <2>3, <2>4, <2>5, ReholdView
  <2>7. owner[r] = None /\ done[r] = {} /\ takes'[r] = 1 /\ out'[r] = out[r]
    BY <1>2, <1>3, <1>4, <2>2, <2>6 DEF Stands
  <2>8. Place(r)' = Place(r) /\ Place(r) # "none"
    BY <1>2, <1>3, <2>1, <2>2, <2>3, <2>6, <2>7 DEF Place
  <2>9. CASE st = "held"
    <3>1. owner'[r] = owner[r]
      BY <2>2, <2>9
    <3>2. Stands(r)' /\ Lasts(r)
      BY <1>3, <2>2, <2>3, <2>6, <2>7, <2>9, <3>1 DEF Stands, Lasts
    <3> QED BY <1>5, <2>6, <2>8, <3>1, <3>2, OneMoves DEF Others
  <2>10. CASE st = "adopted"
    <3>1. o \in Orders /\ o # None
      BY <1>1, <1>4, <2>1, <2>10, NoneAssumption DEF Relies, Flips
    <3>2. owner'[r] = o
      BY <2>2, <2>10 DEF IInv, TypeOK
    <3>3. Stands(r)' /\ Lasts(r)
      BY <1>3, <2>2, <2>3, <2>6, <2>7, <2>10, <3>1, <3>2 DEF Stands, Lasts
    <3> QED BY <1>5, <2>6, <2>7, <2>8, <3>1, <3>2, <3>3, OneMoves DEF Others
  <2> QED BY <2>9, <2>10
<1> QED BY <1>6, <1>7

LEMMA AdjustMoves ==
  ASSUME IInv, UnitsStand, NEW s \in Skus, NEW k \in Keys, NEW q \in Qtys, Adjust(s, k, q)
  PROVE Implements
<1> DEFINE h == hold[s][k]
<1>1. q \in Nat /\ q > 0
  BY QtyAssumption
<1>2. /\ h.state = "held" /\ onHand[s] >= q - h.qty
      /\ WriteSku(s, onHand[s] - (q - h.qty), k, [h EXCEPT !.qty = q])
      /\ out' = [out EXCEPT ![h.rid] = @ + (q - h.qty)]
      /\ UNCHANGED <<keyDoc, idx, call, takes, owner, done>>
  BY DEF Adjust
<1>3. h \in Hold /\ h.qty \in Nat /\ h.qty > 0
  BY <1>2 DEF IInv, TypeOK, HoldsAgree, Hold
<1>4. PICK r \in Ids : r = h.rid /\ idx[r].sku = s /\ idx[r].key = k /\ takes[r] = 1
                       /\ out[r] = h.qty
  BY <1>2, <1>3 DEF IInv, HoldsAgree, Hold
<1>5. LiveHold(r) = h
  BY <1>4 DEF LiveHold
<1>6. PICK g \in Hold : g = [h EXCEPT !.qty = q]
  BY <1>1, <1>3 DEF Hold
<1>7. g.rid = r /\ g.state = "held" /\ g.order = h.order
  BY <1>2, <1>3, <1>4, <1>6 DEF Hold
<1>8. onHand[s] - (q - h.qty) \in Nat
  BY <1>1, <1>2, <1>3 DEF IInv, TypeOK
<1>9. out'[r] = q /\ \A i \in Ids : i # r => out'[i] = out[i]
  <2>1. out \in [Ids -> Int]
    BY DEF IInv, TypeOK
  <2> QED BY <1>1, <1>2, <1>3, <1>4, <2>1
<1>10. PICK n \in Nat : n = onHand[s] - (q - h.qty)
  BY <1>8
<1>11. WriteSku(idx[r].sku, n, idx[r].key, g) /\ LiveHold(r).state = "held"
  BY <1>2, <1>4, <1>5, <1>6, <1>10
<1>12. UNCHANGED <<keyDoc, idx, takes, done, owner, call>>
  BY <1>2
<1> HIDE DEF h
<1>13. /\ \A i \in Ids : i # r => Keeps(i)
       /\ LiveHold(r)' = g /\ HeldState(r) = LiveHold(r).state /\ HeldFor(r) = LiveHold(r).order
       /\ HeldState(r)' = g.state /\ HeldFor(r)' = g.order
       /\ End(r)' = End(r)
  BY <1>4, <1>7, <1>9, <1>11, <1>12, ReholdView
<1>14. Stands(r) /\ out'[r] # 0
  BY <1>1, <1>9 DEF UnitsStand
<1>15. Stands(r)' /\ Lasts(r)
  BY <1>4, <1>7, <1>11, <1>12, <1>13, <1>14 DEF Stands, Lasts
<1>16. Place(r)' = Place(r) /\ owner'[r] = owner[r]
  BY <1>4, <1>7, <1>11, <1>12, <1>13 DEF Place
<1>17. \A p \in Callers : call'[p] = call[p]
  BY <1>12
<1> QED BY <1>13, <1>15, <1>16, <1>17, OneMoves

LEMMA LapseMoves ==
  ASSUME IInv, UnitsStand, NEW s \in Skus, NEW k \in Keys, Lapse(s, k) PROVE Implements
<1>1. UNCHANGED <<idx, call, takes, out, owner, done>>
      /\ hold' = [hold EXCEPT ![s][k].deadline = "past"]
  BY DEF Lapse, history
<1>2. \A t \in Skus, j \in Keys : /\ hold'[t][j].rid = hold[t][j].rid
                                  /\ hold'[t][j].state = hold[t][j].state
                                  /\ hold'[t][j].order = hold[t][j].order
  BY <1>1 DEF IInv, TypeOK, Hold
<1>3. ASSUME NEW i \in Ids PROVE Keeps(i)
  <2>1. CASE takes[i] = 0
    BY <1>1, <2>1 DEF Keeps, End, HeldState, HeldFor
  <2>2. CASE takes[i] # 0
    <3>1. idx[i].key \in Keys /\ idx[i].sku \in Skus
      BY <2>2 DEF IInv, HoldsAgree, ClaimsAgree, TypeOK, Index
    <3>2. LiveHold(i)'.state = LiveHold(i).state /\ LiveHold(i)'.order = LiveHold(i).order
      BY <1>1, <1>2, <3>1 DEF LiveHold
    <3> QED BY <1>1, <3>2 DEF Keeps, End, HeldState, HeldFor
  <2> QED BY <2>1, <2>2
<1> QED BY <1>1, <1>3, NoneMoves

LEMMA BeginMoves ==
  ASSUME IInv, UnitsStand, NEW p \in Callers, Begin(p) PROVE Implements
<1>1. call \in [Callers -> Call]
  BY DEF IInv, TypeOK
<1>2. CASE \E m \in Requests : BeginReserve(p, m)
  <2>1. UNCHANGED <<hold, idx, takes, out, owner, done>>
    BY <1>2 DEF BeginReserve, docs, history
  <2>2. Others(p) /\ call'[p].at = "key"
    BY <1>1, <1>2 DEF BeginReserve, Others, Idle
  <2>3. Relies(p)'
    BY <2>2 DEF Relies, SettleSteps
  <2> QED BY <2>1, <2>2, <2>3, AllKept, NoneMoves DEF Others
<1>3. ASSUME NEW op \in Calls, NEW r \in Ids, NEW o \in Orders \cup {None},
             BeginSettle(p, op, r, o)
      PROVE Implements
  <2>1. UNCHANGED <<hold, idx, takes, out, owner, done>>
    BY <1>3 DEF BeginSettle, docs
  <2>2. /\ op \in Settles \cup Flips
        /\ (o = None) <=> (op \notin {"releaseAdopted", "adopt", "adoptMany"})
    BY <1>3 DEF BeginSettle
  <2>3. /\ Others(p)
        /\ call'[p].op = op /\ call'[p].order = o
        /\ \/ call'[p].at = "flip" /\ op \in Flips
           \/ call'[p].at = "live" /\ op \in Settles
           \/ call'[p].at = "prune" /\ op \in Settles
    BY <1>1, <1>3 DEF BeginSettle, Others, Idle, Flips, Settles
  <2>4. Relies(p)'
    BY <2>2, <2>3 DEF Relies, Settles, Flips
  <2> QED BY <2>1, <2>3, <2>4, AllKept, NoneMoves DEF Others
<1> QED BY <1>2, <1>3 DEF Begin

LEMMA CrashMoves ==
  ASSUME IInv, UnitsStand, NEW p \in Callers, Crash(p) PROVE Implements
<1>1. UNCHANGED <<hold, idx, takes, out, owner, done>>
  BY DEF Crash, docs, history
<1>2. Others(p) /\ Relies(p)'
  BY ReturnStep DEF Crash, IInv, TypeOK, Relies, SettleSteps
<1> QED BY <1>1, <1>2, AllKept, NoneMoves DEF Others

LEMMA OtherMoves ==
  ASSUME IInv, UnitsStand, NEW s \in Skus, Other(s) PROVE Implements
<1>1. CASE Seed(s) \/ \E n \in Moves : MoveStock(s, n) \/ MoveStock(s, -n)
  <2>1. UNCHANGED <<hold, idx, takes, out, owner, done, call>>
    BY <1>1 DEF Seed, MoveStock
  <2> QED BY <2>1, AllKept, NoneMoves
<1> QED BY <1>1, LapseMoves, AdjustMoves DEF Other

LEMMA StepMoves == ASSUME IInv, UnitsStand, [Next]_vars PROVE Implements
<1>1. ASSUME NEW p \in Callers, SettleStep(p) PROVE Implements
  BY <1>1, ReadHoldMoves, RecordAnswerMoves, SettleTerminalMoves, PruneMoves, FreeMoves,
     FreedMoves, GoneMoves, GoneKeyMoves, FlipMoves DEF SettleStep
<1>2. CASE UNCHANGED vars
  <2>1. UNCHANGED <<hold, idx, takes, out, owner, done, call>>
    BY <1>2 DEF vars, docs, history
  <2> QED BY <2>1, AllKept, NoneMoves
<1> QED BY <1>1, <1>2, BeginMoves, ReserveMoves, OtherMoves, CrashMoves DEF Next, Step

LEMMA InitStands == ASSUME Init PROVE UnitsStand /\ H!Init
<1>1. \A r \in Ids : Stands(r)
  BY DEF Init, Stands, End, Ends, HeldState, HeldFor, NoIndex
<1>2. \A p \in Callers : Relies(p)
  BY DEF Init, Relies, Idle, SettleSteps
<1>3. H!Init
  BY DEF Init, H!Init, Units, Place
<1> QED BY <1>1, <1>2, <1>3 DEF UnitsStand

\* Where the units of every reservation are, and what every settle at work relies on,
\* agree in every reachable state.
THEOREM UnitsStandHolds == Spec => []UnitsStand
<1>1. Init => UnitsStand
  BY InitStands
<1>2. IInv /\ UnitsStand /\ [Next]_vars => UnitsStand'
  BY StepMoves DEF Implements
<1> QED BY <1>1, <1>2, Inductive, PTL DEF Spec

\* A settle that answered its caller "committed" or "released" stays the truth.
THEOREM SettleAnswersStandHolds == Spec => []SettleAnswersStand
<1>1. IInv /\ UnitsStand => SettleAnswersStand
  <2> SUFFICES ASSUME IInv, UnitsStand, NEW r \in Ids, NEW t \in done[r]
               PROVE /\ idx[r].term = t
                     /\ LiveHold(r).state = "none"
                     /\ t = "released" => out[r] = 0
    BY DEF SettleAnswersStand
  <2>1. Stands(r) /\ t \in Ends /\ End(r) = t /\ HeldState(r) = "none"
        /\ (t = "released" => out[r] = 0)
    BY DEF UnitsStand, Stands
  <2>2. takes[r] # 0
    BY <2>1 DEF Stands
  <2> QED BY <2>1, <2>2 DEF End, Ends, HeldState
<1> QED BY <1>1, Inductive, UnitsStandHolds, PTL

\* The store implements the life of a reservation Holds describes: every step of every
\* call, crash and race is a step of Holds, or moves no reservation's units.
THEOREM Refinement == Spec => ImplementsHolds
<1>1. Init => H!Init
  BY InitStands
<1>2. IInv /\ UnitsStand /\ [Next]_vars => [H!Next]_Units
  BY StepMoves DEF Implements
<1> QED BY <1>1, <1>2, Inductive, UnitsStandHolds, PTL DEF Spec, ImplementsHolds, H!Spec

-----------------------------------------------------------------------------
(* The books: what was supplied is on the shelf or off it for one reservation *)

Books == /\ UnitsConserved
         /\ \A s \in Skus : IsFiniteSet(Off(s)) /\ (s \notin known => supply[s] = 0)

\* In a set of units, those of r, numbered by N, are replaced by others, numbered by M.
UnitsOf(r, N) == {r} \X N
With(C, r, N) == C \cup UnitsOf(r, N)
Without(C, r, N) == C \cap UnitsOf(r, N) = {}

LEMMA Numbered ==
  ASSUME NEW r, NEW C, IsFiniteSet(C), NEW N, IsFiniteSet(N), Without(C, r, N)
  PROVE /\ IsFiniteSet(With(C, r, N))
        /\ Cardinality(With(C, r, N)) = Cardinality(C) + Cardinality(N)
<1>1. PICK R : R = {r}
  OBVIOUS
<1>2. IsFiniteSet(R) /\ Cardinality(R) = 1
  BY <1>1, FS_Singleton
<1>3. IsFiniteSet(R \X N) /\ Cardinality(R \X N) = Cardinality(R) * Cardinality(N)
  BY <1>2, FS_Product
<1>4. Cardinality(N) \in Nat /\ Cardinality(C) \in Nat
  BY FS_CardinalityType
<1>5. PICK Y : Y = R \X N /\ Y = UnitsOf(r, N)
  BY <1>1 DEF UnitsOf
<1>6. IsFiniteSet(Y) /\ Cardinality(Y) = Cardinality(N) /\ C \cap Y = {}
  BY <1>2, <1>3, <1>4, <1>5 DEF Without
<1>7. IsFiniteSet(C \cup Y)
      /\ Cardinality(C \cup Y) = Cardinality(C) + Cardinality(Y) - Cardinality(C \cap Y)
  BY <1>6, FS_Union
<1>8. Cardinality(C \cap Y) = 0
  BY <1>6, FS_EmptySet
<1>9. With(C, r, N) = C \cup Y
  BY <1>5 DEF With
<1> QED BY <1>4, <1>6, <1>7, <1>8, <1>9

LEMMA Numbers == ASSUME NEW n \in Nat PROVE IsFiniteSet(1..n) /\ Cardinality(1..n) = n
<1>1. IsFiniteSet(1..n) /\ Cardinality(1..n) = IF 1 > n THEN 0 ELSE n - 1 + 1
  BY FS_Interval
<1> QED BY <1>1

LEMMA OffIs ==
  ASSUME NEW s
  PROVE \A u : u \in Off(s) <=> \E i \in Ids : \E j \in 1..out[i] : idx[i].sku = s /\ u = <<i, j>>
BY DEF Off

LEMMA OffIsNext ==
  ASSUME NEW s
  PROVE \A u : u \in Off(s)' <=>
          \E i \in Ids : \E j \in 1..out'[i] : idx'[i].sku = s /\ u = <<i, j>>
BY DEF Off

\* Nothing is taken or given back: the shelves and the supply move together, if at all.
LEMMA BooksSame ==
  ASSUME IInv, Books,
         \A i \in Ids : out'[i] = out[i] /\ (idx'[i].sku = idx[i].sku \/ out[i] = 0),
         \A s \in Skus : \/ onHand'[s] = onHand[s] /\ supply'[s] = supply[s]
                         \/ \E n \in Int : /\ onHand'[s] = onHand[s] + n
                                           /\ supply'[s] = supply[s] + n
                                           /\ s \in known'
         , known \subseteq known'
  PROVE Books'
<1> SUFFICES ASSUME NEW s \in Skus
             PROVE /\ onHand'[s] + Cardinality(Off(s)') = supply'[s]
                   /\ IsFiniteSet(Off(s)') /\ (s \notin known' => supply'[s] = 0)
  BY DEF Books, UnitsConserved
<1>1. Off(s)' = Off(s)
  <2>1. ASSUME NEW i \in Ids, NEW j
        PROVE j \in 1..out'[i] /\ idx'[i].sku = s <=> j \in 1..out[i] /\ idx[i].sku = s
    <3>1. out[i] = 0 => 1..out[i] = {}
      OBVIOUS
    <3> QED BY <3>1
  <2>2. \A u : u \in Off(s)' <=> u \in Off(s)
    BY <2>1, OffIs, OffIsNext
  <2> QED BY <2>2 DEF Off
<1>2. onHand[s] + Cardinality(Off(s)) = supply[s] /\ IsFiniteSet(Off(s))
      /\ (s \notin known => supply[s] = 0)
  BY DEF Books, UnitsConserved
<1>3. onHand[s] \in Int /\ supply[s] \in Int /\ Cardinality(Off(s)) \in Nat
  BY <1>2, FS_CardinalityType DEF IInv, TypeOK
<1> QED BY <1>1, <1>2, <1>3

\* The units of one reservation move between its shelf and its account.
LEMMA BooksMove ==
  ASSUME IInv, Books, NEW s \in Skus, NEW r \in Ids, idx[r].sku = s,
         UNCHANGED <<idx, supply, known>>,
         \A t \in Skus : t # s => onHand'[t] = onHand[t],
         \A i \in Ids : i # r => out'[i] = out[i],
         out'[r] \in Nat, onHand'[s] \in Int, onHand'[s] + out'[r] = onHand[s] + out[r]
  PROVE Books'
<1>1. out[r] \in Nat
  BY DEF IInv, TypeOK, HoldsAgree
<1>2. \A t \in Skus : onHand[t] + Cardinality(Off(t)) = supply[t] /\ IsFiniteSet(Off(t))
        /\ (t \notin known => supply[t] = 0)
  BY DEF Books, UnitsConserved
<1>3. ASSUME NEW t \in Skus, t # s PROVE Off(t)' = Off(t)
  <2>1. \A i \in Ids : idx[i].sku = t => i # r /\ out'[i] = out[i]
    BY <1>3
  <2>2. \A u : u \in Off(t)' <=> u \in Off(t)
    BY <2>1, OffIs, OffIsNext
  <2> QED BY <2>2 DEF Off
<1>4. Off(s)' = (Off(s) \ ({r} \X (1..out[r]))) \cup ({r} \X (1..out'[r]))
  <2>1. ASSUME NEW u
        PROVE u \in Off(s)' <=> \/ u \in Off(s) /\ u \notin {r} \X (1..out[r])
                                \/ u \in {r} \X (1..out'[r])
    <3>1. u \in {r} \X (1..out[r]) <=> \E j \in 1..out[r] : u = <<r, j>>
      OBVIOUS
    <3>2. u \in {r} \X (1..out'[r]) <=> \E j \in 1..out'[r] : u = <<r, j>>
      OBVIOUS
    <3>3. ASSUME u \in Off(s)', u \notin {r} \X (1..out'[r])
          PROVE u \in Off(s) /\ u \notin {r} \X (1..out[r])
      <4>1. PICK i \in Ids : \E j \in 1..out'[i] : idx'[i].sku = s /\ u = <<i, j>>
        BY <3>3, OffIsNext
      <4>2. i # r
        BY <3>2, <3>3, <4>1
      <4> QED BY <3>1, <4>1, <4>2, OffIs
    <3>4. ASSUME u \in Off(s), u \notin {r} \X (1..out[r]) PROVE u \in Off(s)'
      <4>1. PICK i \in Ids : \E j \in 1..out[i] : idx[i].sku = s /\ u = <<i, j>>
        BY <3>4, OffIs
      <4>2. i # r
        BY <3>1, <3>4, <4>1
      <4> QED BY <4>1, <4>2, OffIsNext
    <3>5. ASSUME u \in {r} \X (1..out'[r]) PROVE u \in Off(s)'
      BY <3>2, <3>5, OffIsNext
    <3> QED BY <3>3, <3>4, <3>5
  <2> QED BY <2>1
<1>5. {r} \X (1..out[r]) \subseteq Off(s)
  <2>1. \A u \in {r} \X (1..out[r]) : \E j \in 1..out[r] : u = <<r, j>>
    OBVIOUS
  <2> QED BY <2>1, OffIs
<1>6. \A i, j : <<i, j>> \in Off(s) /\ i = r => j \in 1..out[r]
  BY OffIs
<1>7. IsFiniteSet(Off(s)') /\ Cardinality(Off(s)') = Cardinality(Off(s)) - out[r] + out'[r]
  <2>1. PICK N, M : N = 1..out[r] /\ M = 1..out'[r]
    OBVIOUS
  <2>2. /\ IsFiniteSet(N) /\ Cardinality(N) = out[r]
        /\ IsFiniteSet(M) /\ Cardinality(M) = out'[r]
    BY <1>1, <2>1, Numbers
  <2>3. PICK C : C = Off(s) \ UnitsOf(r, N)
    OBVIOUS
  <2>4. \A u \in C : u \in Off(s) /\ u \notin UnitsOf(r, N)
    BY <2>3
  <2>5. \A i, j : <<i, j>> \in C => i # r
    BY <1>6, <2>1, <2>4 DEF UnitsOf
  <2>6. Without(C, r, N) /\ Without(C, r, M)
    BY <2>5 DEF UnitsOf, Without
  <2>7. Off(s) = With(C, r, N) /\ Off(s)' = With(C, r, M)
    BY <1>4, <1>5, <2>1, <2>3 DEF UnitsOf, With
  <2>8. IsFiniteSet(C)
    BY <1>2, <2>4, FS_Subset
  <2>10. IsFiniteSet(N) /\ IsFiniteSet(M)
    BY <2>2
  <2>13. Cardinality(With(C, r, N)) = Cardinality(C) + Cardinality(N)
    BY <2>6, <2>8, <2>10, Numbered
  <2>14. IsFiniteSet(With(C, r, M)) /\ Cardinality(With(C, r, M)) = Cardinality(C) + Cardinality(M)
    BY <2>6, <2>8, <2>10, Numbered
  <2>15. Cardinality(C) \in Nat
    BY <2>8, FS_CardinalityType
  <2> QED BY <1>1, <2>2, <2>7, <2>13, <2>14, <2>15
<1>8. onHand[s] \in Int /\ supply[s] \in Int /\ Cardinality(Off(s)) \in Nat
  BY <1>2, FS_CardinalityType DEF IInv, TypeOK
<1>9. onHand'[s] + Cardinality(Off(s)') = supply[s]
  BY <1>1, <1>2, <1>7, <1>8
<1> QED BY <1>2, <1>3, <1>7, <1>9 DEF Books, UnitsConserved

LEMMA BooksUnhold ==
  ASSUME IInv, Books, NEW r \in Ids, NEW back \in BOOLEAN, takes[r] = 1,
         LiveHold(r).state # "none", Unhold(r, back), UNCHANGED <<idx, supply>>
  PROVE Books'
<1> DEFINE h == LiveHold(r)
<1>1. idx[r].term # "absent"
  BY DEF IInv, HoldsAgree
<1>2. /\ idx[r].key \in Keys /\ out[r] = h.qty /\ h.qty \in Nat
  <2>1. h \in Hold => h.qty \in Nat
    BY DEF Hold
  <2> QED BY <1>1, <2>1, LiveCell
<1>3. PICK s \in Skus : s = idx[r].sku
  BY <1>1, LiveCell
<1>4. onHand \in [Skus -> Nat] /\ out \in [Ids -> Int]
  BY DEF IInv, TypeOK
<1>5. /\ onHand' = [onHand EXCEPT ![s] = IF back THEN onHand[s] + h.qty ELSE onHand[s]]
      /\ out' = IF back THEN [out EXCEPT ![r] = @ - h.qty] ELSE out
      /\ UNCHANGED known
  BY <1>3 DEF Unhold, WriteSku
<1>6. /\ out'[r] \in Nat /\ onHand'[s] \in Int /\ onHand'[s] + out'[r] = onHand[s] + out[r]
  <2>1. CASE back
    BY <1>2, <1>3, <1>4, <1>5, <2>1
  <2>2. CASE ~back
    BY <1>2, <1>3, <1>4, <1>5, <2>2
  <2> QED BY <2>1, <2>2
<1>7. /\ \A t \in Skus : t # s => onHand'[t] = onHand[t]
      /\ \A i \in Ids : i # r => out'[i] = out[i]
  BY <1>4, <1>5
<1> QED BY <1>3, <1>5, <1>6, <1>7, BooksMove

LEMMA NextBooks == ASSUME IInv, Books, [Next]_vars PROVE Books'
<1>0. onHand \in [Skus -> Nat] /\ out \in [Ids -> Int] /\ supply \in [Skus -> Int]
      /\ takes \in [Ids -> Nat]
  BY DEF IInv, TypeOK
<1>1. ASSUME UNCHANGED <<onHand, known, out, idx, supply>> PROVE Books'
  BY <1>1, BooksSame
<1>2. ASSUME NEW p \in Callers, Begin(p) \/ Crash(p) PROVE Books'
  BY <1>1, <1>2 DEF Begin, BeginReserve, BeginSettle, Crash, docs, history
<1>3. ASSUME NEW p \in Callers, NEW r \in Ids, NEW t \in Terminals,
             idx' = Settled(r, t), UNCHANGED <<onHand, known, out, supply>>
      PROVE Books'
  <2>1. \A i \in Ids : idx'[i].sku = idx[i].sku
    BY <1>3, SettledStep DEF IInv
  <2> QED BY <1>3, <2>1, BooksSame
<1>4. ASSUME NEW p \in Callers, ReserveStep(p) PROVE Books'
  <2>1. CASE ReadKey(p) \/ Look(p) \/ Refuse(p) \/ Claim(p) \/ PreRead(p) \/ Load(p)
             \/ Recheck(p) \/ MarkKey(p)
    BY <1>1, <2>1 DEF ReadKey, Look, Refuse, Claim, PreRead, Load, Recheck, MarkKey, docs,
                      history, aggregate
  <2>2. CASE WriteIndex(p)
    <3>1. PICK r \in Ids : r = call[p].rid
      <4>1. Claimed(call[p]) /\ call[p].at \in ReserveSteps
        BY <2>2 DEF WriteIndex, Claimed, ReserveSteps
      <4> QED BY <4>1, ReserveTypes
    <3>2. UNCHANGED <<onHand, known, out, supply>>
      BY <2>2 DEF WriteIndex, aggregate, history
    <3>3. \A i \in Ids : idx'[i] = idx[i] \/ (i = r /\ idx[i].term = "absent")
      BY <2>2, <3>1 DEF WriteIndex, IInv, TypeOK
    <3>4. \A i \in Ids : idx[i].term = "absent" => out[i] = 0
      BY DEF IInv, HoldsAgree
    <3> QED BY <3>2, <3>3, <3>4, BooksSame
  <2>3. CASE Fail(p)
    <3>1. call[p].rid \in Ids
      <4>1. Claimed(call[p]) /\ call[p].at \in ReserveSteps
        BY <2>3 DEF Fail, Claimed, ReserveSteps
      <4> QED BY <4>1, ReserveTypes
    <3> QED BY <1>3, <2>3, <3>1 DEF Fail, aggregate, Terminals
  <2>4. CASE Write(p)
    <3> DEFINE c == call[p]
    <3>1. c.at = "write" /\ Claimed(c) /\ c.at \in ReserveSteps
      BY <2>4 DEF Write, Claimed, ReserveSteps
    <3>2. PICK r \in Ids, s \in Skus, n \in Nat : r = c.rid /\ s = c.sku /\ n = c.qty
      BY <3>1, ReserveTypes
    <3>3. CASE p \notin fresh
      BY <1>1, <2>4, <3>3 DEF Write, aggregate
    <3>4. CASE p \in fresh
      <4>1. takes[r] = 0 /\ idx[r].sku = s
        BY <3>1, <3>2, <3>4 DEF IInv, ReadsAgree, Reader, CompletersAgree, Completer
      <4>2. out[r] = 0
        BY <4>1 DEF IInv, HoldsAgree
      <4>3. /\ onHand' = [onHand EXCEPT ![s] = onHand[s] - n]
            /\ out' = [out EXCEPT ![r] = @ + n]
            /\ UNCHANGED <<idx, supply, known>>
        BY <2>4, <3>2, <3>4 DEF Write, WriteSku
      <4>4. out'[r] \in Nat /\ onHand'[s] \in Int /\ onHand'[s] + out'[r] = onHand[s] + out[r]
        BY <1>0, <4>2, <4>3
      <4>5. /\ \A t \in Skus : t # s => onHand'[t] = onHand[t]
            /\ \A i \in Ids : i # r => out'[i] = out[i]
        BY <1>0, <4>3
      <4> QED BY <4>1, <4>3, <4>4, <4>5, BooksMove
    <3> QED BY <3>3, <3>4
  <2> QED BY <1>4, <2>1, <2>2, <2>3, <2>4 DEF ReserveStep
<1>5. ASSUME NEW p \in Callers, SettleStep(p) PROVE Books'
  <2>1. call[p].at \in SettleSteps
    BY <1>5 DEF SettleStep, ReadHold, RecordAnswer, SettleTerminal, Prune, Free, Freed, Gone,
                GoneKey, Flip, SettleSteps
  <2>2. PICK r \in Ids : r = call[p].rid /\ takes[r] = 1
    BY <2>1, SettleTypes
  <2>3. CASE ReadHold(p) \/ RecordAnswer(p) \/ Gone(p) \/ GoneKey(p)
    BY <1>1, <2>3 DEF ReadHold, RecordAnswer, Gone, GoneKey, docs, history, aggregate
  <2>4. CASE SettleTerminal(p) \/ Freed(p)
    BY <1>3, <2>2, <2>4 DEF SettleTerminal, Freed, aggregate, history, Terminals
  <2>5. CASE Prune(p) \/ Free(p)
    <3>1. UNCHANGED <<idx, supply>>
      BY <2>5 DEF Prune, Free
    <3>2. \/ UNCHANGED <<onHand, known, out>>
          \/ \E back \in BOOLEAN : LiveHold(r).state # "none" /\ Unhold(r, back)
      <4>1. (call[p].won = "released") \in BOOLEAN /\ TRUE \in BOOLEAN
        OBVIOUS
      <4> QED BY <2>2, <2>5, <4>1 DEF Prune, Free, aggregate
    <3> QED BY <1>1, <2>2, <3>1, <3>2, BooksUnhold
  <2>6. CASE Flip(p)
    <3>1. UNCHANGED <<known, out, idx, supply>>
      BY <2>6 DEF Flip, WriteSku, aggregate
    <3>2. \A t \in Skus : onHand'[t] = onHand[t]
      BY <1>0, <2>6 DEF Flip, WriteSku, aggregate
    <3> QED BY <3>1, <3>2, BooksSame
  <2> QED BY <1>5, <2>3, <2>4, <2>5, <2>6 DEF SettleStep
<1>6. ASSUME NEW s \in Skus, Other(s) PROVE Books'
  <2>1. CASE Seed(s)
    <3>1. PICK n \in 0..MaxSupply : /\ onHand' = [onHand EXCEPT ![s] = n]
                                    /\ supply' = [supply EXCEPT ![s] = n]
      BY <2>1 DEF Seed
    <3>2. s \notin known /\ known' = known \cup {s} /\ UNCHANGED <<out, idx>>
      BY <2>1 DEF Seed
    <3>3. onHand[s] = 0 /\ supply[s] = 0 /\ n \in Int
      <4>1. onHand[s] + Cardinality(Off(s)) = supply[s] /\ IsFiniteSet(Off(s)) /\ supply[s] = 0
        BY <3>2 DEF Books, UnitsConserved
      <4>2. Cardinality(Off(s)) \in Nat
        BY <4>1, FS_CardinalityType
      <4> QED BY <1>0, <4>1, <4>2, SupplyAssumption
    <3>4. /\ onHand'[s] = onHand[s] + n /\ supply'[s] = supply[s] + n
          /\ \A t \in Skus : t # s => onHand'[t] = onHand[t] /\ supply'[t] = supply[t]
      BY <1>0, <3>1, <3>3
    <3> QED BY <3>2, <3>3, <3>4, BooksSame
  <2>2. ASSUME NEW n \in Int, MoveStock(s, n) PROVE Books'
    <3>1. /\ onHand' = [onHand EXCEPT ![s] = @ + n] /\ supply' = [supply EXCEPT ![s] = @ + n]
          /\ s \in known /\ UNCHANGED <<known, out, idx>>
      BY <2>2 DEF MoveStock
    <3>2. /\ onHand'[s] = onHand[s] + n /\ supply'[s] = supply[s] + n
          /\ \A t \in Skus : t # s => onHand'[t] = onHand[t] /\ supply'[t] = supply[t]
      BY <1>0, <3>1
    <3> QED BY <3>1, <3>2, BooksSame
  <2>3. ASSUME NEW k \in Keys, Lapse(s, k) PROVE Books'
    BY <1>1, <2>3 DEF Lapse, history
  <2>4. ASSUME NEW k \in Keys, NEW q \in Qtys, Adjust(s, k, q) PROVE Books'
    <3> DEFINE h == hold[s][k]
    <3>1. q \in Nat
      BY QtyAssumption
    <3>2. /\ h.state = "held" /\ UNCHANGED <<known, idx, supply>>
          /\ onHand' = [onHand EXCEPT ![s] = onHand[s] - (q - h.qty)]
          /\ out' = [out EXCEPT ![h.rid] = @ + (q - h.qty)]
      BY <2>4 DEF Adjust, WriteSku
    <3>3. PICK r \in Ids : r = h.rid /\ idx[r].sku = s /\ out[r] = h.qty
      BY <3>2 DEF IInv, HoldsAgree, TypeOK, Hold
    <3>4. h.qty \in Nat
      BY DEF IInv, TypeOK, Hold
    <3>5. out'[r] \in Nat /\ onHand'[s] \in Int /\ onHand'[s] + out'[r] = onHand[s] + out[r]
      BY <1>0, <3>1, <3>2, <3>3, <3>4
    <3>6. /\ \A t \in Skus : t # s => onHand'[t] = onHand[t]
          /\ \A i \in Ids : i # r => out'[i] = out[i]
      BY <1>0, <3>2, <3>3
    <3> HIDE DEF h
    <3> QED BY <3>2, <3>3, <3>5, <3>6, BooksMove
  <2>5. \A n \in Moves : n \in Int /\ -n \in Int
    BY MoveAssumption
  <2> QED BY <1>6, <2>1, <2>2, <2>3, <2>4, <2>5 DEF Other
<1>7. CASE UNCHANGED vars
  BY <1>1, <1>7 DEF vars, docs, history
<1> QED BY <1>2, <1>4, <1>5, <1>6, <1>7 DEF Next, Step

LEMMA InitBooks == ASSUME Init PROVE Books
<1> SUFFICES ASSUME NEW s \in Skus
             PROVE onHand[s] + Cardinality(Off(s)) = supply[s] /\ IsFiniteSet(Off(s))
                   /\ supply[s] = 0
  BY DEF Books, UnitsConserved
<1>1. \A i \in Ids : 1..out[i] = {}
  BY DEF Init
<1>2. Off(s) = {}
  BY <1>1, OffIs
<1> QED BY <1>2, FS_EmptySet DEF Init

\* Nothing is oversold and nothing is lost: at every moment each unit supplied to a shelf
\* is on it, or off it on the account of exactly one reservation.
THEOREM UnitsConservedHolds == Spec => []UnitsConserved
<1>1. Init => Books
  BY InitBooks
<1>2. IInv /\ Books /\ [Next]_vars => Books'
  BY NextBooks
<1>3. Books => UnitsConserved
  BY DEF Books
<1> QED BY <1>1, <1>2, <1>3, Inductive, PTL DEF Spec
=============================================================================

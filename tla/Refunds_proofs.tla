----------------------------- MODULE Refunds_proofs -----------------------------
(***************************************************************************)
(* Proofs about Refunds: refunds never come to more than was captured, the *)
(* ledger and the provider agree, a click refunds once, and a late payment *)
(* is never forgotten.                                                     *)
(*                                                                         *)
(* The first argument, IInv: a row starts to count when it is inserted,    *)
(* and it is inserted only if there is room for the amount its key         *)
(* carries, which no later write changes; payments are only ever added.    *)
(* Nothing is asked of the callers but that they know which row they work  *)
(* on.                                                                     *)
(*                                                                         *)
(* The second, Told, is about what calls in flight have established, and   *)
(* what the writes of the others leave of it (Onward): a row only moves on,*)
(* and it is voided with nothing issued unless on a mere read; a key is    *)
(* taken up once the ones before it are voided; a flag is written over     *)
(* only with its payment left to a person.                                 *)
(***************************************************************************)
EXTENDS Refunds, FiniteSetTheorems, TLAPS

Active == {"reserved", "unverified", "recorded"}

-----------------------------------------------------------------------------
(* Sums *)

\* The cents of the rows of a ledger.
Amounts(r, K) == {c \in K \X (1..Total) : c[2] <= r[c[1]].amount}
Rows(r, S)    == {k \in Keys : r[k].st \in S}

LEMMA AmountsFinite ==
  ASSUME NEW r, NEW K \in SUBSET Keys
  PROVE  /\ IsFiniteSet(Amounts(r, K))
         /\ Cardinality(Amounts(r, K)) \in Nat
<1>1. IsFiniteSet(K)
  BY FiniteKeys, FS_Subset
<1>2. IsFiniteSet(1..Total)
  BY FS_Interval, TotalAssumption
<1>3. IsFiniteSet(K \X (1..Total))
  BY <1>1, <1>2, FS_Product
<1>4. Amounts(r, K) \in SUBSET (K \X (1..Total))
  BY DEF Amounts
<1> QED BY <1>3, <1>4, FS_Subset, FS_CardinalityType

\* Fewer rows, or rows of smaller amounts, come to less.
LEMMA AmountsMonotone ==
  ASSUME NEW r, NEW s, NEW K \in SUBSET Keys, NEW L \in SUBSET Keys,
         K \subseteq L, \A k \in K : r[k].amount = s[k].amount
  PROVE  Cardinality(Amounts(r, K)) <= Cardinality(Amounts(s, L))
<1>1. Amounts(r, K) \in SUBSET Amounts(s, L)
  BY DEF Amounts
<1> QED BY <1>1, AmountsFinite, FS_Subset

\* A row more comes to its amount more, at most.
LEMMA AmountsOneMore ==
  ASSUME NEW r, NEW s, NEW K \in SUBSET Keys, NEW x \in Keys, s[x].amount \in Nat,
         \A k \in K : r[k].amount = s[k].amount
  PROVE  Cardinality(Amounts(s, K \cup {x})) <= Cardinality(Amounts(r, K)) + s[x].amount
<1> DEFINE n == s[x].amount
           A == Amounts(r, K)
           B == {x} \X (1..n)
<1>0. n \in Nat
  OBVIOUS
<1>1. IsFiniteSet({x}) /\ Cardinality({x}) = 1
  BY FS_Singleton
<1>2. IsFiniteSet(1..n) /\ Cardinality(1..n) = n
  <2> HIDE DEF n
  <2>1. IsFiniteSet(1..n) /\ Cardinality(1..n) = IF 1 > n THEN 0 ELSE n - 1 + 1
    BY <1>0, FS_Interval
  <2> QED BY <1>0, <2>1
<1>3. IsFiniteSet(B) /\ Cardinality(B) = n
  <2> HIDE DEF n
  <2>1. IsFiniteSet(B) /\ Cardinality(B) = Cardinality({x}) * Cardinality(1..n)
    BY <1>1, <1>2, FS_Product
  <2> QED BY <1>0, <1>1, <1>2, <2>1
<1>4. IsFiniteSet(A) /\ Cardinality(A) \in Nat
  BY AmountsFinite
<1>5. Amounts(s, K \cup {x}) \in SUBSET (A \cup B)
  BY TotalAssumption DEF Amounts
<1> HIDE DEF n, A, B
<1>6. IsFiniteSet(A \cup B)
      /\ Cardinality(A \cup B) = Cardinality(A) + Cardinality(B) - Cardinality(A \cap B)
  BY <1>3, <1>4, FS_Union
<1>7. Cardinality(A \cap B) \in Nat
  BY <1>4, FS_Intersection, FS_CardinalityType
<1>8. Cardinality(Amounts(s, K \cup {x})) <= Cardinality(A \cup B)
  BY <1>5, <1>6, FS_Subset
<1>9. Cardinality(Amounts(s, K \cup {x})) \in Nat
  BY AmountsFinite
<1>11. Cardinality(Amounts(s, K \cup {x})) <= Cardinality(A) + n
  BY <1>3, <1>4, <1>6, <1>7, <1>8, <1>9, <1>0
<1> QED BY <1>11 DEF n, A

LEMMA CapturedMonotone ==
  ASSUME NEW C \in SUBSET Payments, NEW D \in SUBSET Payments, C \subseteq D
  PROVE  LET Tot(X) == Cardinality({c \in X \X (1..Total) : c[2] <= Paid[c[1]]}) IN
         Tot(C) \in Nat /\ Tot(D) \in Nat /\ Tot(C) <= Tot(D)
<1> DEFINE Set(X) == {c \in X \X (1..Total) : c[2] <= Paid[c[1]]}
<1>1. IsFiniteSet(D)
  BY FiniteKeys, FS_Subset
<1>2. IsFiniteSet(1..Total)
  BY FS_Interval, TotalAssumption
<1>3. IsFiniteSet(D \X (1..Total))
  BY <1>1, <1>2, FS_Product
<1>4. Set(D) \in SUBSET (D \X (1..Total)) /\ Set(C) \in SUBSET Set(D)
  OBVIOUS
<1>5. IsFiniteSet(Set(D)) /\ IsFiniteSet(Set(C)) /\ Cardinality(Set(C)) <= Cardinality(Set(D))
  BY <1>3, <1>4, FS_Subset
<1> QED BY <1>5, FS_CardinalityType

-----------------------------------------------------------------------------
(* The invariant *)

\* The points at which a call works on a row, and those at which it works on a payment.
Keyed  == {"read", "claim", "insert", "prior", "pre", "post", "mark", "void", "finalize",
           "flagCheck", "flagProvider", "flagLost", "again", "after", "schedule", "giveUp",
           "giveUpNext", "unschedule", "clear", "handLate", "resolve", "sum"}
Paying == {"prior", "pre", "post", "flip", "lost", "second", "double", "record", "lateRecord",
           "late", "lateFlag", "ineligible", "again", "after", "giveUp", "giveUpNext", "tell",
           "finish", "resolve", "handLate", "handSee", "handFlag"}

\* What a call in flight knows.
CallKnows(c) ==
  /\ c.at \in Keyed => c.k \in Keys
  /\ c.at \in Paying => c.m \in Payments
  /\ c.at # "idle" /\ c.op \in {"settle", "retry"} => c.m \in Payments
  /\ c.at \in {"claim", "insert"} /\ ~c.manual => c.m \in Payments

Typed ==
  /\ st \in States
  /\ captured \in SUBSET Payments
  /\ first \in Payments \cup {None}
  /\ winner \in Payments \cup {None}
  /\ row \in [Keys -> Row]
  /\ flag \in Flags
  /\ retry \in SUBSET Keys
  /\ issued \in SUBSET (Keys \X Payments \X Nat)
  /\ outside \in [Payments -> Nat]
  /\ acked \in SUBSET Payments
  /\ handled \in SUBSET (Payments \cup Keys)
  /\ misread \in SUBSET Keys
  /\ unheard \in SUBSET Keys

IInv == TypeOK /\ RefundsWithinCeiling /\ \A p \in Callers : CallKnows(call[p])

LEMMA SumsAreNaturals ==
  ASSUME TypeOK
  PROVE  /\ ActiveTotal \in Nat /\ Finalized \in Nat /\ CapturedTotal \in Nat
         /\ Ceiling \in Nat /\ Ceiling <= Total /\ Finalized <= ActiveTotal
<1>1. ActiveTotal = Cardinality(Amounts(row, Rows(row, Active)))
      /\ Finalized = Cardinality(Amounts(row, Rows(row, {"recorded"})))
  BY DEF ActiveTotal, Finalized, Cents, InState, Amounts, Rows, Active
<1>2. ActiveTotal \in Nat /\ Finalized \in Nat
  BY <1>1, AmountsFinite DEF Rows
<1>3. CapturedTotal \in Nat
  BY CapturedMonotone DEF TypeOK, CapturedTotal
<1>4. Finalized <= ActiveTotal
  BY <1>1, AmountsMonotone DEF Rows, Active
<1> QED BY <1>2, <1>3, <1>4, TotalAssumption DEF Ceiling

\* A write of the ledger that counts no row that did not count, under payments that are
\* only added to.
LEMMA CountsNoMore ==
  ASSUME TypeOK, RefundsWithinCeiling, captured' \in SUBSET Payments,
         captured \subseteq captured',
         \A k \in Keys : row'[k].st \in Active =>
                           row[k].st \in Active /\ row'[k].amount = row[k].amount
  PROVE  RefundsWithinCeiling'
<1>1. /\ ActiveTotal = Cardinality(Amounts(row, Rows(row, Active)))
      /\ ActiveTotal' = Cardinality(Amounts(row', Rows(row', Active)))
  BY DEF ActiveTotal, Cents, InState, Amounts, Rows, Active
<1>2. Rows(row', Active) \subseteq Rows(row, Active) /\ Rows(row, Active) \in SUBSET Keys
      /\ Rows(row', Active) \in SUBSET Keys
      /\ \A k \in Rows(row', Active) : row'[k].amount = row[k].amount
  BY DEF Rows
<1>3. ActiveTotal' <= ActiveTotal
  BY <1>1, <1>2, AmountsMonotone
<1>4. ActiveTotal' \in Nat /\ ActiveTotal \in Nat
  BY <1>1, <1>2, AmountsFinite
<1>5. CapturedTotal \in Nat /\ CapturedTotal' \in Nat /\ CapturedTotal <= CapturedTotal'
  BY CapturedMonotone DEF TypeOK, CapturedTotal
<1>6. Ceiling \in Nat /\ Ceiling' \in Nat /\ Ceiling <= Ceiling'
  BY <1>5, TotalAssumption DEF Ceiling
<1> QED BY <1>3, <1>4, <1>6 DEF RefundsWithinCeiling

\* A row that is inserted where there is room.
LEMMA CountsOneMore ==
  ASSUME TypeOK, NEW k \in Keys, NEW to \in Active, captured' = captured,
         row' = [row EXCEPT ![k].st = to], Room(row[k].amount)
  PROVE  RefundsWithinCeiling'
<1>1. /\ ActiveTotal = Cardinality(Amounts(row, Rows(row, Active)))
      /\ ActiveTotal' = Cardinality(Amounts(row', Rows(row', Active)))
  BY DEF ActiveTotal, Cents, InState, Amounts, Rows, Active
<1>2. /\ \A x \in Keys : row'[x].amount = row[x].amount
      /\ Rows(row', Active) = Rows(row, Active) \cup {k}
      /\ Rows(row, Active) \in SUBSET Keys
      /\ row'[k].amount \in Nat
  BY DEF TypeOK, Row, Rows, Active
<1>3. ActiveTotal' <= ActiveTotal + row'[k].amount
  BY <1>1, <1>2, AmountsOneMore
<1>4. ActiveTotal \in Nat /\ Ceiling \in Nat
  BY SumsAreNaturals
<1>5. ActiveTotal' \in Nat
  BY <1>1, AmountsFinite DEF Rows
<1>6. Ceiling' = Ceiling
  BY DEF Ceiling, CapturedTotal
<1> QED BY <1>2, <1>3, <1>4, <1>5, <1>6 DEF RefundsWithinCeiling, Room

-----------------------------------------------------------------------------
(* Steps *)

LEMMA Frame ==
  ASSUME IInv, NEW p \in Callers, NEW c \in Call, Become(p, c), CallKnows(c), Typed',
         RefundsWithinCeiling'
  PROVE  IInv'
<1>1. call' \in [Callers -> Call] /\ call'[p] = c
      /\ \A q \in Callers \ {p} : call'[q] = call[q]
  BY DEF IInv, TypeOK, Become
<1>2. TypeOK'
  BY <1>1 DEF TypeOK, Typed
<1>3. \A q \in Callers : CallKnows(call[q])'
  BY <1>1 DEF IInv, CallKnows
<1> QED BY <1>2, <1>3 DEF IInv

LEMMA IsTyped == ASSUME IInv PROVE Typed
BY DEF IInv, TypeOK, Typed

\* A step that writes neither the ledger nor the payments.
LEMMA QuietStep ==
  ASSUME IInv, NEW p \in Callers, NEW c \in Call, Become(p, c), CallKnows(c), Typed',
         row' = row, captured' = captured
  PROVE  IInv'
<1>1. RefundsWithinCeiling'
  BY CountsNoMore DEF IInv, TypeOK
<1> QED BY <1>1, Frame

LEMMA Called ==
  ASSUME IInv, NEW p \in Callers
  PROVE  /\ call \in [Callers -> Call]
         /\ call[p] \in Call
         /\ CallKnows(call[p])
BY DEF IInv, TypeOK

LEMMA IdleTyped == Idle \in Call /\ CallKnows(Idle)
BY DEF Idle, Call, Ops, Steps, Flags, NoFlag, Answers, CallKnows, Keyed, Paying

LEMMA Return1 ==
  ASSUME IInv, NEW p \in Callers, Return(p), Typed', row' = row, captured' = captured
  PROVE  IInv'
BY IdleTyped, QuietStep DEF Return

\* What a call must know to go on to a point.
Ready(c, at) ==
  /\ at \in Keyed => c.k \in Keys
  /\ at \in Paying => c.m \in Payments
  /\ c.op \in {"settle", "retry"} => c.m \in Payments
  /\ at \in {"claim", "insert"} /\ ~c.manual => c.m \in Payments

LEMMA Goto1 ==
  ASSUME IInv, NEW p \in Callers, NEW at \in Steps \ {"idle"}, Ready(call[p], at), Goto(p, at),
         Typed', RefundsWithinCeiling'
  PROVE  IInv'
<1> DEFINE c == [call[p] EXCEPT !.at = at]
<1>1. c \in Call /\ CallKnows(c)
  BY Called DEF Call, CallKnows, Ready
<1>2. Become(p, c)
  BY Called DEF Goto, Become
<1> HIDE DEF c
<1> QED BY <1>1, <1>2, Frame

LEMMA Answer1 ==
  ASSUME IInv, NEW p \in Callers, NEW got \in Answers, call[p].k \in Keys, call[p].at # "idle",
         Answer(p, got), Typed', RefundsWithinCeiling'
  PROVE  IInv'
<1>0. call[p] \in Call /\ CallKnows(call[p]) /\ call[p].k \in Keys
  BY Called
<1>1. ASSUME NEW at \in {"finish", "again", "resolve", "after"},
             call[p].op \in {"settle", "retry"},
             Become(p, [call[p] EXCEPT !.got = got, !.at = at])
      PROVE  IInv'
  <2> DEFINE c == [call[p] EXCEPT !.got = got, !.at = at]
  <2>1. c \in Call /\ c.at = at /\ c.m = call[p].m /\ c.k = call[p].k
    BY <1>0 DEF Call, Steps
  <2>2. c.m \in Payments
    BY <1>0, <1>1, <2>1 DEF CallKnows
  <2> HIDE DEF c
  <2>3. CallKnows(c)
    BY <1>0, <2>1, <2>2 DEF CallKnows
  <2> QED BY <1>1, <2>1, <2>3, Frame DEF c
<1>2. CASE call[p].op = "cancel" /\ got = "ok"
  <2> DEFINE c == [call[p] EXCEPT !.at = "close", !.money = TRUE]
  <2>1. c \in Call /\ c.at = "close" /\ c.op = "cancel"
    BY <1>0, <1>2 DEF Call, Steps
  <2>2. Become(p, c)
    BY <1>2 DEF Answer, Answered
  <2> HIDE DEF c
  <2>3. CallKnows(c)
    BY <2>1 DEF CallKnows, Keyed, Paying
  <2> QED BY <2>1, <2>2, <2>3, Frame
<1>3. CASE call[p].op \notin {"settle", "retry"} /\ ~(call[p].op = "cancel" /\ got = "ok")
  <2>1. Become(p, Idle)
    BY <1>3 DEF Answer, Answered
  <2> QED BY <2>1, IdleTyped, Frame
<1>4. CASE call[p].op = "settle"
  <2>1. Become(p, [call[p] EXCEPT !.got = got, !.at = IF got = "ok" THEN "finish" ELSE "again"])
    BY <1>4 DEF Answer, Answered
  <2> QED BY <1>1, <1>4, <2>1
<1>5. CASE call[p].op = "retry"
  <2>1. Become(p, [call[p] EXCEPT !.got = got, !.at = IF got = "ok" THEN "resolve" ELSE "after"])
    BY <1>5 DEF Answer, Answered
  <2> QED BY <1>1, <1>5, <2>1
<1> QED BY <1>2, <1>3, <1>4, <1>5

LEMMA Said1 == ASSUME NEW s PROVE Said(s) \in Answers
BY DEF Said, Answers

LEMMA OrderTyped ==
  ASSUME IInv, UNCHANGED <<order, world, past>>
  PROVE  Typed' /\ row' = row /\ captured' = captured /\ RefundsWithinCeiling'
<1>1. Typed' /\ row' = row /\ captured' = captured
  BY IsTyped DEF Typed, order, world, past
<1> QED BY <1>1, CountsNoMore DEF IInv, TypeOK

\* A step that changes no more than its call.
LEMMA CallStep ==
  ASSUME IInv, NEW p \in Callers, NEW c \in Call, Become(p, c), CallKnows(c),
         UNCHANGED <<order, world, past>>
  PROVE  IInv'
BY OrderTyped, Frame

LEMMA RaiseTyped ==
  ASSUME IInv, NEW f \in Flags, Raise(f)
  PROVE  flag' \in Flags /\ handled' \in SUBSET (Payments \cup Keys)
BY IsTyped DEF Typed, Raise, Open

\* A row that moves between states that count, or stops counting.
LEMMA PutRow1 ==
  ASSUME IInv, NEW k \in Keys, NEW to \in RowStates, row[k].st \in Active \/ to \notin Active,
         PutRow(k, to), captured' = captured
  PROVE  row' \in [Keys -> Row] /\ RefundsWithinCeiling'
<1>1. row \in [Keys -> Row]
  BY DEF IInv, TypeOK
<1>2. row' = [row EXCEPT ![k].st = to]
  BY DEF PutRow
<1>3. row' \in [Keys -> Row]
  BY <1>1, <1>2 DEF Row
<1>4. \A x \in Keys : row'[x].st \in Active =>
                        row[x].st \in Active /\ row'[x].amount = row[x].amount
  BY <1>1, <1>2 DEF Row
<1> QED BY <1>3, <1>4, CountsNoMore DEF IInv, TypeOK

-----------------------------------------------------------------------------
(* refundOrder *)

LEMMA ReadStep == ASSUME IInv, NEW p \in Callers, Read(p) PROVE IInv'
<1> DEFINE m == IF call[p].op \in {"settle", "retry"} THEN call[p].m ELSE first
<1>0. /\ call[p] \in Call /\ call[p].at = "read" /\ call[p].k \in Keys
      /\ UNCHANGED <<order, world, past>>
      /\ m \in Payments \cup {None} /\ flag \in Flags
      /\ call[p].op = "settle" => call[p].m \in Payments
      /\ call[p].op = "retry" => call[p].m \in Payments
      /\ captured \in SUBSET Payments
  BY Called, IsTyped DEF Read, At, CallKnows, Keyed, Typed, Call
<1>1. CASE \E got \in Answers : Answer(p, got)
  BY <1>0, <1>1, Answer1, OrderTyped
<1>2. CASE Become(p, [call[p] EXCEPT !.at = "mark", !.got = "held"])
  <2> DEFINE c == [call[p] EXCEPT !.at = "mark", !.got = "held"]
  <2>1. c \in Call /\ CallKnows(c)
    <3>1. c \in Call
      BY <1>0, ZenonT(60) DEF Call, Steps, Answers
    <3> QED BY <1>0, <3>1 DEF Call, CallKnows, Keyed, Paying, Steps, Answers
  <2> HIDE DEF c
  <2> QED BY <1>0, <1>2, <2>1, CallStep DEF c
<1>3. ASSUME NEW at \in {"prior", "claim"}, at = "prior" \/ ~call[p].manual => m \in captured,
             Become(p, [call[p] EXCEPT !.at = at, !.m = m, !.seen = flag])
      PROVE  IInv'
  <2> DEFINE c == [call[p] EXCEPT !.at = at, !.m = m, !.seen = flag]
  <2>1. c \in Call /\ c.at = at /\ c.m = m /\ c.k \in Keys /\ c.op = call[p].op
        /\ c.manual = call[p].manual
    BY ZenonT(60), <1>0 DEF Call, Steps
  <2> HIDE DEF c
  <2>2. CallKnows(c)
    BY <1>0, <1>3, <2>1 DEF CallKnows, Keyed, Paying
  <2> QED BY <1>0, <1>3, <2>1, <2>2, CallStep DEF c
<1> QED BY <1>1, <1>2, <1>3, Said1 DEF Read, Answers

LEMMA ClaimStep == ASSUME IInv, NEW p \in Callers, Claim(p) PROVE IInv'
<1> DEFINE c == call[p]
           new == [NoRow EXCEPT !.st = "claimed", !.amount = c.amount, !.manual = c.manual]
<1>0. /\ c \in Call /\ c.at = "claim" /\ c.k \in Keys /\ row \in [Keys -> Row]
      /\ ~c.manual => c.m \in Payments
      /\ c.op \in {"settle", "retry"} => c.m \in Payments
      /\ UNCHANGED <<st, captured, first, winner, flag, retry, world, past>>
  BY Called, IsTyped DEF Claim, At, CallKnows, Keyed, Typed
<1>1. new \in Row /\ new.st = "claimed"
  BY <1>0 DEF Call, Row, RowStates, NoRow
<1> HIDE DEF new
<1>2. row' = IF row[c.k].st = "none" THEN [row EXCEPT ![c.k] = new] ELSE row
  BY DEF Claim, new
<1>3. row' \in [Keys -> Row]
  BY <1>0, <1>1, <1>2
<1>4. \A k \in Keys : row'[k].st \in Active =>
                        row[k].st \in Active /\ row'[k].amount = row[k].amount
  BY <1>0, <1>1, <1>2 DEF Active
<1>5. RefundsWithinCeiling'
  BY <1>0, <1>4, CountsNoMore DEF IInv, TypeOK
<1>6. Typed'
  BY <1>0, <1>3, IsTyped DEF Typed, world, past
<1>7. Ready(c, "insert") /\ Goto(p, "insert")
  BY <1>0 DEF Ready, Keyed, Paying, Claim
<1> QED BY <1>5, <1>6, <1>7, Goto1 DEF Steps

LEMMA InsertStep == ASSUME IInv, NEW p \in Callers, Insert(p) PROVE IInv'
<1> DEFINE c == call[p]
           r == row[c.k]
<1>0. /\ c \in Call /\ c.at = "insert" /\ c.k \in Keys /\ row \in [Keys -> Row] /\ r \in Row
      /\ ~c.manual => c.m \in Payments
      /\ c.op \in {"settle", "retry"} => c.m \in Payments
      /\ UNCHANGED <<captured, first, winner, flag, retry, world, past>>
  BY Called, IsTyped DEF Insert, At, CallKnows, Keyed, Typed
<1>1. CASE /\ r.st = "claimed" /\ Room(r.amount)
           /\ PutRow(c.k, IF r.manual THEN "recorded" ELSE "reserved")
           /\ st' = IF r.manual THEN Closed(c.k) ELSE st
           /\ IF c.manual THEN Answer(p, "ok")
              ELSE Become(p, [c EXCEPT !.at = "prior", !.created = TRUE])
  <2>1. PICK to \in {"recorded", "reserved"} : row' = [row EXCEPT ![c.k].st = to]
    BY <1>1 DEF PutRow
  <2>2. row' \in [Keys -> Row]
    BY <1>0, <2>1 DEF Row, RowStates
  <2>3. RefundsWithinCeiling'
    BY <1>0, <1>1, <2>1, CountsOneMore DEF IInv, Active
  <2>4. st' \in States
    BY <1>1, IsTyped DEF Closed, Typed, States
  <2>5. Typed'
    BY <1>0, <2>2, <2>4, IsTyped DEF Typed, world, past
  <2>6. CASE c.manual
    BY <1>0, <1>1, <2>3, <2>5, <2>6, Answer1 DEF Answers
  <2>7. CASE ~c.manual
    <3> DEFINE d == [c EXCEPT !.at = "prior", !.created = TRUE]
    <3>1. d \in Call /\ d.at = "prior" /\ d.k = c.k /\ d.m = c.m
      BY <1>0 DEF Call, Steps
    <3>2. Become(p, d)
      BY <1>1, <2>7
    <3> HIDE DEF d
    <3>3. CallKnows(d)
      BY <1>0, <2>7, <3>1 DEF CallKnows
    <3> QED BY <2>3, <2>5, <3>1, <3>2, <3>3, Frame
  <2> QED BY <2>6, <2>7
<1>2. CASE UNCHANGED <<row, st>> /\ \E got \in Answers : Answer(p, got)
  <2>1. UNCHANGED <<order, world, past>>
    BY <1>0, <1>2 DEF order
  <2> QED BY <1>0, <1>2, <2>1, Answer1, OrderTyped
<1>3. CASE UNCHANGED <<row, st>> /\ ~c.manual /\ Goto(p, "prior")
  <2>1. UNCHANGED <<order, world, past>>
    BY <1>0, <1>3 DEF order
  <2>2. Ready(c, "prior")
    BY <1>0, <1>3 DEF Ready
  <2> QED BY <1>3, <2>1, <2>2, Goto1, OrderTyped DEF Steps
<1> QED BY <1>1, <1>2, <1>3, Said1 DEF Insert, Answers

LEMMA PriorStep == ASSUME IInv, NEW p \in Callers, Prior(p) PROVE IInv'
<1> DEFINE c == [call[p] EXCEPT !.prior = Finalized, !.at = "pre"]
<1>1. Finalized \in Nat
  BY SumsAreNaturals DEF IInv
<1>2. call[p] \in Call /\ call[p].k \in Keys /\ call[p].m \in Payments
  BY Called DEF Prior, At, CallKnows, Keyed, Paying
<1>3. c \in Call /\ c.k \in Keys /\ c.m \in Payments /\ c.at = "pre"
  BY <1>1, <1>2 DEF Call, Steps
<1>4. Become(p, c) /\ UNCHANGED <<order, world, past>>
  BY DEF Prior
<1> HIDE DEF c
<1>5. CallKnows(c)
  BY <1>3 DEF CallKnows
<1> QED BY <1>3, <1>4, <1>5, CallStep

LEMMA PreStep == ASSUME IInv, NEW p \in Callers, Pre(p) PROVE IInv'
<1>0. /\ call[p] \in Call /\ call[p].at = "pre" /\ call[p].k \in Keys /\ call[p].m \in Payments
      /\ UNCHANGED <<order, world, past>>
  BY Called DEF Pre, At, CallKnows, Keyed, Paying
<1>1. CASE \E got \in Answers : Answer(p, got)
  BY <1>0, <1>1, Answer1, OrderTyped
<1>2. CASE Goto(p, "post")
  <2>1. Ready(call[p], "post")
    BY <1>0 DEF Ready
  <2> QED BY <1>0, <1>2, <2>1, Goto1, OrderTyped DEF Steps
<1>3. ASSUME NEW got \in {"denied", "already"}, NEW at \in {"void", "mark"},
             Become(p, [call[p] EXCEPT !.at = at, !.got = got])
      PROVE  IInv'
  <2> DEFINE c == [call[p] EXCEPT !.at = at, !.got = got]
  <2>1. c \in Call /\ c.k \in Keys /\ c.m \in Payments /\ c.at = at
    BY <1>0 DEF Call, Steps, Answers
  <2> HIDE DEF c
  <2>2. CallKnows(c)
    BY <2>1 DEF CallKnows
  <2> QED BY <1>0, <1>3, <2>1, <2>2, CallStep DEF c
<1>4. CASE Become(p, [call[p] EXCEPT !.at = "void", !.got = "denied"])
  BY <1>3, <1>4
<1>5. CASE Become(p, [call[p] EXCEPT !.got = "already",
                                     !.at = IF call[p].created THEN "void" ELSE "mark"])
  <2> DEFINE at == IF call[p].created THEN "void" ELSE "mark"
  <2>1. at \in {"void", "mark"}
    OBVIOUS
  <2>2. [call[p] EXCEPT !.got = "already", !.at = at]
          = [call[p] EXCEPT !.at = at, !.got = "already"]
    BY <1>0 DEF Call
  <2> HIDE DEF at
  <2> QED BY <1>3, <1>5, <2>1, <2>2 DEF at
<1> QED BY <1>1, <1>2, <1>4, <1>5 DEF Pre, Answers

\* A step to a point that needs no more than the row and the payment the call works on.
LEMMA OnStep ==
  ASSUME IInv, NEW p \in Callers, NEW got \in Answers,
         NEW at \in {"void", "mark", "finalize"},
         call[p].k \in Keys, call[p].op \in {"settle", "retry"} => call[p].m \in Payments,
         Become(p, [call[p] EXCEPT !.at = at, !.got = got]), Typed', row' = row,
         captured' = captured
  PROVE  IInv'
<1> DEFINE c == [call[p] EXCEPT !.at = at, !.got = got]
<1>1. c \in Call /\ c.at = at /\ c.k = call[p].k /\ c.m = call[p].m /\ c.op = call[p].op
  <2>1. at \in Steps
    BY DEF Steps
  <2> QED BY <2>1, Called DEF Call
<1> HIDE DEF c
<1>2. CallKnows(c)
  BY <1>1 DEF CallKnows, Keyed, Paying
<1> QED BY <1>1, <1>2, QuietStep DEF c

LEMMA PostStep == ASSUME IInv, NEW p \in Callers, Post(p) PROVE IInv'
<1> DEFINE c == call[p]
<1>0. /\ c \in Call /\ c.at = "post" /\ c.k \in Keys /\ c.m \in Payments /\ c.amount \in Nat
      /\ c.got \in Answers
      /\ UNCHANGED <<order, outside, acked, handled, misread>>
  BY Called DEF Post, At, CallKnows, Keyed, Paying, Call
<1>1. issued' \in SUBSET (Keys \X Payments \X Nat)
  BY <1>0, IsTyped DEF Post, Typed
<1>2. Typed' /\ row' = row /\ captured' = captured
  <2>1. unheard' \in SUBSET Keys
    BY <1>0, IsTyped DEF Post, Typed
  <2> QED BY <1>0, <1>1, <2>1, IsTyped DEF Typed, order
<1>3. RefundsWithinCeiling'
  BY <1>2, CountsNoMore DEF IInv, TypeOK
<1>4. CASE Become(p, [c EXCEPT !.at = "finalize"])
  <2>1. Ready(c, "finalize") /\ Goto(p, "finalize")
    BY <1>0, <1>4 DEF Ready, Paying, Become, Goto
  <2> QED BY <1>2, <1>3, <2>1, Goto1 DEF Steps
<1>5. ASSUME NEW got \in Answers, Become(p, [c EXCEPT !.at = "void", !.got = got])
      PROVE  IInv'
  BY <1>0, <1>2, <1>5, OnStep
<1>6. CASE Become(p, [c EXCEPT !.at = "mark", !.got = "unverified"])
  BY <1>0, <1>2, <1>6, OnStep DEF Answers
<1>7. CASE Answer(p, "retryable")
  BY <1>0, <1>2, <1>3, <1>7, Answer1 DEF Answers
<1> QED BY <1>4, <1>5, <1>6, <1>7 DEF Post, Answers

LEMMA VoidStep == ASSUME IInv, NEW p \in Callers, Void(p) PROVE IInv'
<1> DEFINE c == call[p]
<1>0. /\ c \in Call /\ c.at = "void" /\ c.k \in Keys
      /\ c.op \in {"settle", "retry"} => c.m \in Payments
      /\ UNCHANGED <<st, captured, first, winner, flag, retry, world, acked, handled, unheard>>
  BY Called DEF Void, At, CallKnows, Keyed
<1>1. row' \in [Keys -> Row] /\ RefundsWithinCeiling'
  <2>1. CASE PutRow(c.k, "voided") /\ row[c.k].st = "reserved"
    BY <1>0, <2>1, PutRow1 DEF Active, RowStates
  <2>2. CASE row' = row
    BY <1>0, <2>2, CountsNoMore DEF IInv, TypeOK
  <2> QED BY <2>1, <2>2 DEF Void
<1>2. misread' \in SUBSET Keys
  BY <1>0, IsTyped DEF Void, Typed
<1>3. Typed'
  BY <1>0, <1>1, <1>2, IsTyped DEF Typed, world
<1>4. CASE Goto(p, "flagProvider")
  BY <1>0, <1>1, <1>3, <1>4, Goto1 DEF Ready, Keyed, Paying, Steps
<1>5. CASE Answer(p, "terminal")
  BY <1>0, <1>1, <1>3, <1>5, Answer1 DEF Answers
<1> QED BY <1>4, <1>5 DEF Void

LEMMA MarkStep == ASSUME IInv, NEW p \in Callers, Mark(p) PROVE IInv'
<1> DEFINE c == call[p]
<1>0. /\ c \in Call /\ c.at = "mark" /\ c.k \in Keys
      /\ c.op \in {"settle", "retry"} => c.m \in Payments
      /\ UNCHANGED <<st, captured, first, winner, flag, retry, world, past>>
  BY Called DEF Mark, At, CallKnows, Keyed
<1>1. row' \in [Keys -> Row] /\ RefundsWithinCeiling'
  <2>1. CASE PutRow(c.k, "unverified") /\ row[c.k].st = "reserved"
    BY <1>0, <2>1, PutRow1 DEF Active, RowStates
  <2>2. CASE row' = row
    BY <1>0, <2>2, CountsNoMore DEF IInv, TypeOK
  <2> QED BY <2>1, <2>2 DEF Mark
<1>2. Typed'
  BY <1>0, <1>1, IsTyped DEF Typed, world, past
<1>3. CASE Goto(p, "flagCheck")
  BY <1>0, <1>1, <1>2, <1>3, Goto1 DEF Ready, Keyed, Paying, Steps
<1>4. CASE \E got \in Answers : Answer(p, got)
  BY <1>0, <1>1, <1>2, <1>4, Answer1
<1> QED BY <1>3, <1>4, Said1 DEF Mark, Answers

LEMMA FlagProviderStep == ASSUME IInv, NEW p \in Callers, FlagProvider(p) PROVE IInv'
<1>0. /\ call[p].at = "flagProvider" /\ call[p].k \in Keys
      /\ UNCHANGED <<st, captured, first, winner, row, retry, world, past>>
      /\ flag' \in {flag, <<"provider">>}
      /\ Answer(p, "already")
  BY Called DEF FlagProvider, At, CallKnows, Keyed
<1>1. Typed'
  BY <1>0, IsTyped DEF Typed, world, past, Flags
<1>2. RefundsWithinCeiling'
  BY <1>0, CountsNoMore DEF IInv, TypeOK
<1> QED BY <1>0, <1>1, <1>2, Answer1 DEF Answers

LEMMA FlagRowStep == ASSUME IInv, NEW p \in Callers, FlagRow(p) PROVE IInv'
<1>0. /\ call[p].at \in {"flagCheck", "flagLost"} /\ call[p].k \in Keys
      /\ UNCHANGED <<st, captured, first, winner, row, retry, world, acked, misread, unheard>>
  BY Called DEF FlagRow, CallKnows, Keyed
<1>1. flag' \in Flags /\ handled' \in SUBSET (Payments \cup Keys)
  <2>1. PICK kind \in {"check", "lost"} : Raise(<<kind, call[p].k>>)
    BY DEF FlagRow
  <2>2. <<kind, call[p].k>> \in Flags
    BY <1>0 DEF Flags
  <2> QED BY <2>1, <2>2, RaiseTyped
<1>2. Typed'
  BY <1>0, <1>1, IsTyped DEF Typed, world
<1>3. RefundsWithinCeiling'
  BY <1>0, CountsNoMore DEF IInv, TypeOK
<1>4. \E got \in Answers : Answer(p, got)
  BY DEF FlagRow, Answers
<1> QED BY <1>0, <1>2, <1>3, <1>4, Answer1

LEMMA FinalizeStep == ASSUME IInv, NEW p \in Callers, Finalize(p) PROVE IInv'
<1> DEFINE c == call[p]
<1>0. /\ c \in Call /\ c.at = "finalize" /\ c.k \in Keys
      /\ c.op \in {"settle", "retry"} => c.m \in Payments
      /\ UNCHANGED <<captured, first, winner, flag, retry, world, past>>
  BY Called DEF Finalize, At, CallKnows, Keyed
<1>1. CASE /\ row[c.k].st \in {"reserved", "unverified"}
           /\ PutRow(c.k, "recorded") /\ st' = Closed(c.k) /\ Answer(p, "ok")
  <2>1. row' \in [Keys -> Row] /\ RefundsWithinCeiling'
    BY <1>0, <1>1, PutRow1 DEF Active, RowStates
  <2>2. Typed'
    BY <1>0, <1>1, <2>1, IsTyped DEF Typed, world, past, Closed, States
  <2> QED BY <1>0, <1>1, <2>1, <2>2, Answer1 DEF Answers
<1>2. CASE UNCHANGED <<row, st>> /\ Answer(p, "ok")
  <2>1. UNCHANGED <<order, world, past>>
    BY <1>0, <1>2 DEF order
  <2> QED BY <1>0, <1>2, <2>1, OrderTyped, Answer1 DEF Answers
<1>3. CASE UNCHANGED <<row, st>> /\ Goto(p, "flagLost")
  <2>1. UNCHANGED <<order, world, past>>
    BY <1>0, <1>3 DEF order
  <2> QED BY <1>0, <1>3, <2>1, OrderTyped, Goto1 DEF Ready, Keyed, Paying, Steps
<1> QED BY <1>1, <1>2, <1>3 DEF Finalize

-----------------------------------------------------------------------------
(* Calls that start *)

LEMMA ClickStep ==
  ASSUME IInv, NEW p \in Callers, NEW a \in 1..Total, Click(p, a)
  PROVE  IInv'
<1>1. Finalized \in 0..Total
  BY SumsAreNaturals, TotalAssumption DEF IInv, RefundsWithinCeiling
<1>2. Spent(a) \in 0..Tries
  <2> DEFINE S == {n \in 0..Tries : row[ClickKey(a, Finalized, n)].st = "voided"}
  <2>1. IsFiniteSet(0..Tries) /\ S \in SUBSET (0..Tries)
    BY FS_Interval, TotalAssumption
  <2>2. Cardinality(S) \in Nat
    BY <2>1, FS_Subset, FS_CardinalityType
  <2> QED BY <2>2, TotalAssumption DEF Spent, Click
<1> DEFINE k == ClickKey(a, Finalized, Spent(a))
<1>3. k \in Keys
  BY <1>1, <1>2 DEF Keys, ClickKeys
<1> HIDE DEF k
<1>4. PICK manual \in BOOLEAN :
        Become(p, [Idle EXCEPT !.op = "click", !.at = "read", !.amount = a, !.k = k,
                               !.manual = manual])
  BY DEF Click, k
<1> DEFINE c == [Idle EXCEPT !.op = "click", !.at = "read", !.amount = a, !.k = k,
                             !.manual = manual]
<1>5. c \in Call /\ c.at = "read" /\ c.k \in Keys /\ c.op = "click"
  <2>1. Idle \in Call /\ a \in Nat
    BY IdleTyped, TotalAssumption
  <2> QED BY <1>3, <2>1 DEF Call, Ops, Steps
<1>6. Become(p, c) /\ UNCHANGED <<order, world, past>>
  BY <1>4 DEF Click
<1> HIDE DEF c
<1>7. CallKnows(c)
  BY <1>5 DEF CallKnows, Paying
<1> QED BY <1>5, <1>6, <1>7, CallStep

LEMMA ArmTyped == Arm \in {"flip", "second", "lateRecord", "ineligible"}
BY DEF Arm

LEMMA DeliverStep ==
  ASSUME IInv, NEW p \in Callers, NEW m \in Payments, Deliver(p, m)
  PROVE  IInv'
<1>1. PICK manual \in BOOLEAN :
        Become(p, [Idle EXCEPT !.op = "settle", !.at = Arm, !.m = m, !.seen = flag,
                               !.manual = manual])
  BY DEF Deliver
<1> DEFINE c == [Idle EXCEPT !.op = "settle", !.at = Arm, !.m = m, !.seen = flag,
                             !.manual = manual]
<1>2. flag \in Flags
  BY IsTyped DEF Typed
<1>3. c \in Call /\ c.m \in Payments /\ c.at = Arm /\ c.op = "settle"
  BY ZenonT(60), <1>2, ArmTyped, IdleTyped DEF Call, Ops, Steps, Idle
<1>4. Become(p, c) /\ UNCHANGED <<order, world, past>>
  BY <1>1 DEF Deliver
<1> HIDE DEF c
<1>5. CallKnows(c)
  BY <1>3, ArmTyped DEF CallKnows, Keyed
<1> QED BY <1>3, <1>4, <1>5, CallStep

LEMMA RetryStep ==
  ASSUME IInv, NEW p \in Callers, NEW m \in Payments, Retry(p, m)
  PROVE  IInv'
<1> DEFINE k == LateKey(m)
           c == [Idle EXCEPT !.op = "retry", !.k = k, !.m = m, !.amount = row[k].amount,
                             !.seen = flag, !.prior = Finalized]
<1>1. k \in Keys
  BY DEF Keys, LateKeys
<1>2. Finalized \in Nat /\ flag \in Flags /\ row[k] \in Row
  BY <1>1, SumsAreNaturals, IsTyped DEF IInv, Typed
<1>3. c \in Call /\ c.k = k /\ c.m = m /\ c.op = "retry"
  BY <1>1, <1>2, IdleTyped DEF Call, Ops, Row, Idle
<1>4. UNCHANGED <<order, world, past>>
  BY DEF Retry
<1>5. \/ Become(p, [c EXCEPT !.at = "resolve"])
      \/ Become(p, [c EXCEPT !.at = "unschedule"])
      \/ \E at \in {"pre", "giveUp", "after"} :
           Become(p, [c EXCEPT !.at = at, !.got = "retryable"])
  BY DEF Retry
<1> HIDE DEF c, k
<1>6. ASSUME NEW d \in Call, Become(p, d), d.k = k, d.m = m, d.at \notin {"claim", "insert"}
      PROVE  IInv'
  BY <1>1, <1>4, <1>6, CallStep DEF CallKnows
<1>7. CASE Become(p, [c EXCEPT !.at = "resolve"])
  <2>1. [c EXCEPT !.at = "resolve"] \in Call
    BY <1>3 DEF Call, Steps
  <2> QED BY <1>3, <1>6, <1>7, <2>1 DEF Call
<1>8. CASE Become(p, [c EXCEPT !.at = "unschedule"])
  <2>1. [c EXCEPT !.at = "unschedule"] \in Call
    BY <1>3 DEF Call, Steps
  <2> QED BY <1>3, <1>6, <1>8, <2>1 DEF Call
<1>9. ASSUME NEW at \in {"pre", "giveUp", "after"},
             Become(p, [c EXCEPT !.at = at, !.got = "retryable"])
      PROVE  IInv'
  <2>1. [c EXCEPT !.at = at, !.got = "retryable"] \in Call
    BY <1>3, ZenonT(60) DEF Call, Steps, Answers
  <2> QED BY <1>3, <1>6, <1>9, <2>1 DEF Call
<1> QED BY <1>5, <1>7, <1>8, <1>9

-----------------------------------------------------------------------------
(* settleOrder and the late payments *)

\* What a settle call knows at each of its points.
LEMMA Paid1 ==
  ASSUME IInv, NEW p \in Callers, call[p].at \in Paying
  PROVE  call[p] \in Call /\ call[p].m \in Payments /\ call[p].at # "idle"
BY Called DEF CallKnows, Paying

\* Answered for good.
LEMMA Settled1 ==
  ASSUME IInv, NEW p \in Callers, call[p].at # "idle", Settled(p), row' = row,
         captured' \in SUBSET Payments, captured \subseteq captured',
         first' \in Payments \cup {None}, flag' \in Flags, retry' \in SUBSET Keys,
         handled' \in SUBSET (Payments \cup Keys), UNCHANGED <<st, winner, world>>
  PROVE  IInv'
<1>1. acked' \in SUBSET Payments
  BY Called, IsTyped DEF Settled, CallKnows, Typed
<1>2. Typed'
  BY <1>1, IsTyped DEF Typed, Settled, world
<1>3. RefundsWithinCeiling'
  BY CountsNoMore DEF IInv, TypeOK
<1> QED BY <1>2, <1>3, IdleTyped, Frame DEF Settled, Return

LEMMA FlipStep == ASSUME IInv, NEW p \in Callers, Flip(p) PROVE IInv'
<1>0. /\ call[p].at = "flip" /\ call[p].m \in Payments
      /\ UNCHANGED <<captured, first, row, flag, retry, world, past>>
  BY Paid1 DEF Flip, At, Paying
<1>1. st' \in States /\ winner' \in Payments \cup {None}
  BY <1>0, IsTyped DEF Flip, Typed, States
<1>2. Typed'
  BY <1>0, <1>1, IsTyped DEF Typed, world, past
<1>3. RefundsWithinCeiling'
  BY <1>0, CountsNoMore DEF IInv, TypeOK
<1>4. \E at \in {"record", "lost"} : Goto(p, at)
  BY DEF Flip
<1> QED BY <1>0, <1>2, <1>3, <1>4, Goto1 DEF Ready, Keyed, Paying, Steps

LEMMA LostStep == ASSUME IInv, NEW p \in Callers, Lost(p) PROVE IInv'
<1> DEFINE c == [call[p] EXCEPT !.at = Arm, !.seen = flag]
<1>0. /\ call[p] \in Call /\ call[p].at = "lost" /\ call[p].m \in Payments /\ flag \in Flags
      /\ Become(p, c) /\ UNCHANGED <<order, world, past>>
  BY Paid1, IsTyped DEF Lost, At, Paying, Typed
<1>1. c \in Call /\ c.m \in Payments /\ c.at = Arm
  BY <1>0, ArmTyped DEF Call, Steps
<1> HIDE DEF c
<1>2. CallKnows(c)
  BY <1>1, ArmTyped DEF CallKnows, Keyed
<1> QED BY <1>0, <1>1, <1>2, CallStep

LEMMA SecondStep == ASSUME IInv, NEW p \in Callers, Second(p) PROVE IInv'
<1>0. call[p].at = "second" /\ call[p].m \in Payments /\ UNCHANGED <<order, world>>
  BY Paid1 DEF Second, At, Paying
<1>1. CASE Settled(p) /\ UNCHANGED handled
  BY <1>0, <1>1, Settled1, IsTyped DEF Typed, order
<1>2. CASE UNCHANGED past /\ \E at \in {"record", "double"} : Goto(p, at)
  <2>1. UNCHANGED <<order, world, past>>
    BY <1>0, <1>2
  <2> QED BY <1>0, <1>2, <2>1, OrderTyped, Goto1 DEF Ready, Keyed, Paying, Steps
<1> QED BY <1>1, <1>2 DEF Second

LEMMA DoubleStep == ASSUME IInv, NEW p \in Callers, Double(p) PROVE IInv'
<1>0. /\ call[p].at = "double" /\ call[p].m \in Payments
      /\ UNCHANGED <<st, captured, first, winner, row, retry, world>>
      /\ flag' \in {flag, <<"double">>}
  BY Paid1 DEF Double, At, Paying
<1>1. flag' \in Flags
  BY <1>0, IsTyped DEF Typed, Flags
<1>2. CASE Settled(p) /\ UNCHANGED handled
  BY <1>0, <1>1, <1>2, Settled1, IsTyped DEF Typed
<1>3. CASE UNCHANGED past /\ Goto(p, "record")
  <2>1. Typed'
    BY <1>0, <1>1, <1>3, IsTyped DEF Typed, world, past
  <2>2. RefundsWithinCeiling'
    BY <1>0, CountsNoMore DEF IInv, TypeOK
  <2> QED BY <1>0, <1>3, <2>1, <2>2, Goto1 DEF Ready, Keyed, Paying, Steps
<1> QED BY <1>2, <1>3 DEF Double

LEMMA RecordStep == ASSUME IInv, NEW p \in Callers, Record(p) PROVE IInv'
<1>0. /\ call[p].at = "record" /\ call[p].m \in Payments /\ Settled(p)
      /\ UNCHANGED <<st, winner, row, flag, retry, world, handled>>
  BY Paid1 DEF Record, At, Paying
<1>1. /\ captured' \in SUBSET Payments /\ captured \subseteq captured'
      /\ first' \in Payments \cup {None}
  BY <1>0, IsTyped DEF Record, Recorded, Typed
<1> QED BY <1>0, <1>1, Settled1, IsTyped DEF Typed

LEMMA LateRecordStep == ASSUME IInv, NEW p \in Callers, LateRecord(p) PROVE IInv'
<1>0. /\ call[p].at = "lateRecord" /\ call[p].m \in Payments /\ Goto(p, "late")
      /\ UNCHANGED <<st, winner, row, flag, retry, world, past>>
  BY Paid1 DEF LateRecord, At, Paying
<1>1. /\ captured' \in SUBSET Payments /\ captured \subseteq captured'
      /\ first' \in Payments \cup {None}
  BY <1>0, IsTyped DEF LateRecord, Recorded, Typed
<1>2. Typed'
  BY <1>0, <1>1, IsTyped DEF Typed, world, past
<1>3. RefundsWithinCeiling'
  BY <1>0, <1>1, CountsNoMore DEF IInv, TypeOK
<1> QED BY <1>0, <1>2, <1>3, Goto1 DEF Ready, Keyed, Paying, Steps

LEMMA LateStep == ASSUME IInv, NEW p \in Callers, Late(p) PROVE IInv'
<1>0. call[p].at = "late" /\ call[p].m \in Payments /\ UNCHANGED <<order, world, past>>
  BY Paid1 DEF Late, At, Paying
<1>1. \E at \in {"ineligible", "finish", "lateFlag"} : Goto(p, at)
  BY DEF Late
<1> QED BY <1>0, <1>1, OrderTyped, Goto1 DEF Ready, Keyed, Paying, Steps

LEMMA IneligibleStep == ASSUME IInv, NEW p \in Callers, Ineligible(p) PROVE IInv'
<1>0. /\ call[p].at = "ineligible" /\ call[p].m \in Payments /\ Settled(p)
      /\ UNCHANGED <<st, captured, first, winner, row, retry, world>>
      /\ flag' \in {flag, <<"settle">>}
      /\ handled' \subseteq handled \cup {call[p].m}
  BY Paid1 DEF Ineligible, At, Paying
<1>1. flag' \in Flags
  BY <1>0, IsTyped DEF Typed, Flags
<1> QED BY <1>0, <1>1, Settled1, IsTyped DEF Typed

LEMMA LateFlagStep == ASSUME IInv, NEW p \in Callers, LateFlag(p) PROVE IInv'
<1> DEFINE m == call[p].m
           c == [call[p] EXCEPT !.at = "read", !.k = LateKey(m), !.amount = Paid[m]]
<1>0. /\ call[p] \in Call /\ m \in Payments /\ Raise(<<"late", m>>) /\ Become(p, c)
      /\ UNCHANGED <<st, captured, first, winner, row, retry, world, acked, misread, unheard>>
  BY Paid1 DEF LateFlag, At, Paying
<1>1. LateKey(m) \in Keys /\ Paid[m] \in Nat /\ <<"late", m>> \in Flags
  BY <1>0, PaidAssumption DEF Keys, LateKeys, Flags
<1>2. c \in Call /\ c.k \in Keys /\ c.m \in Payments /\ c.at = "read"
  BY <1>0, <1>1 DEF Call, Steps
<1> HIDE DEF c
<1>3. CallKnows(c)
  BY <1>2 DEF CallKnows
<1>4. Typed'
  BY <1>0, <1>1, RaiseTyped, IsTyped DEF Typed, world
<1> QED BY <1>0, <1>2, <1>3, <1>4, QuietStep

LEMMA AgainStep == ASSUME IInv, NEW p \in Callers, Again(p) PROVE IInv'
<1>0. /\ call[p].at = "again" /\ call[p].m \in Payments /\ call[p].k \in Keys
      /\ UNCHANGED <<order, world, past>>
  BY Paid1, Called DEF Again, At, Paying, CallKnows, Keyed
<1>1. \E at \in {"finish", "after"} : Goto(p, at)
  BY DEF Again
<1> QED BY <1>0, <1>1, OrderTyped, Goto1 DEF Ready, Steps

LEMMA AfterStep == ASSUME IInv, NEW p \in Callers, After(p) PROVE IInv'
<1>0. /\ call[p].at = "after" /\ call[p].m \in Payments /\ call[p].k \in Keys
      /\ UNCHANGED <<st, captured, first, winner, row, retry, world, acked, misread, unheard>>
  BY Paid1, Called DEF After, At, Paying, CallKnows, Keyed
<1>1. <<"late", call[p].m>> \in Flags
  BY <1>0 DEF Flags
<1>2. flag' \in Flags /\ handled' \in SUBSET (Payments \cup Keys)
  BY <1>1, RaiseTyped, IsTyped DEF After, Typed
<1>3. Typed'
  BY <1>0, <1>2, IsTyped DEF Typed, world
<1>4. RefundsWithinCeiling'
  BY <1>0, CountsNoMore DEF IInv, TypeOK
<1>5. \E at \in {"schedule", "giveUp", "unschedule"} : Goto(p, at)
  BY DEF After
<1> QED BY <1>0, <1>3, <1>4, <1>5, Goto1 DEF Ready, Steps

LEMMA ScheduleStep == ASSUME IInv, NEW p \in Callers, Schedule(p) PROVE IInv'
<1>0. /\ call[p].k \in Keys /\ retry' = retry \cup {call[p].k} /\ Return(p)
      /\ UNCHANGED <<st, captured, first, winner, row, flag, world, past>>
  BY Called DEF Schedule, At, CallKnows, Keyed
<1>1. Typed'
  BY <1>0, IsTyped DEF Typed, world, past
<1> QED BY <1>0, <1>1, Return1

LEMMA GiveUpStep == ASSUME IInv, NEW p \in Callers, GiveUp(p) PROVE IInv'
<1>0. /\ call[p].at = "giveUp" /\ call[p].m \in Payments /\ call[p].k \in Keys
      /\ UNCHANGED <<st, captured, first, winner, flag, retry, world, past>>
      /\ Goto(p, "giveUpNext")
  BY Paid1, Called DEF GiveUp, At, Paying, CallKnows, Keyed
<1>1. row' \in [Keys -> Row] /\ RefundsWithinCeiling'
  <2>1. CASE PutRow(call[p].k, "unverified") /\ row[call[p].k].st = "reserved"
    BY <1>0, <2>1, PutRow1 DEF Active, RowStates
  <2>2. CASE row' = row
    BY <1>0, <2>2, CountsNoMore DEF IInv, TypeOK
  <2> QED BY <2>1, <2>2 DEF GiveUp
<1>2. Typed'
  BY <1>0, <1>1, IsTyped DEF Typed, world, past
<1> QED BY <1>0, <1>1, <1>2, Goto1 DEF Ready, Steps

LEMMA UnscheduleStep == ASSUME IInv, NEW p \in Callers, Unschedule(p) PROVE IInv'
<1>0. /\ call[p].at \in {"unschedule", "giveUpNext", "handLate"}
      /\ call[p].at # "unschedule" => call[p].m \in Payments
      /\ UNCHANGED <<st, captured, first, winner, row, flag, world>>
      /\ retry' \in SUBSET Keys
  BY Called, IsTyped DEF Unschedule, CallKnows, Paying, Typed
<1>1. CASE Settled(p) /\ UNCHANGED handled
  BY <1>0, <1>1, Settled1, IsTyped DEF Typed
<1>2. CASE /\ call[p].at # "unschedule" /\ UNCHANGED past
           /\ Goto(p, IF call[p].at = "handLate" THEN "handSee" ELSE "tell")
  <2>1. Typed'
    BY <1>0, <1>2, IsTyped DEF Typed, world, past
  <2>2. RefundsWithinCeiling'
    BY <1>0, CountsNoMore DEF IInv, TypeOK
  <2> QED BY <1>0, <1>2, <2>1, <2>2, Goto1 DEF Ready, Keyed, Steps
<1> QED BY <1>0, <1>1, <1>2 DEF Unschedule

LEMMA TellStep == ASSUME IInv, NEW p \in Callers, Tell(p) PROVE IInv'
<1>0. /\ call[p].at = "tell" /\ call[p].m \in Payments /\ Raise(<<"late", call[p].m>>)
      /\ Settled(p) /\ UNCHANGED <<st, captured, first, winner, row, retry, world>>
  BY Paid1 DEF Tell, At, Paying
<1>1. <<"late", call[p].m>> \in Flags
  BY <1>0 DEF Flags
<1> QED BY <1>0, <1>1, RaiseTyped, Settled1, IsTyped DEF Typed

LEMMA FinishStep == ASSUME IInv, NEW p \in Callers, Finish(p) PROVE IInv'
<1> DEFINE m == call[p].m
           c == [call[p] EXCEPT !.at = "resolve", !.seen = flag, !.k = LateKey(m)]
<1>0. /\ call[p] \in Call /\ m \in Payments /\ flag \in Flags
      /\ Become(p, c) /\ UNCHANGED <<order, world, past>>
  BY Paid1, IsTyped DEF Finish, At, Paying, Typed
<1>1. LateKey(m) \in Keys
  BY <1>0 DEF Keys, LateKeys
<1>2. c \in Call /\ c.k \in Keys /\ c.m \in Payments /\ c.at = "resolve"
  BY <1>0, <1>1 DEF Call, Steps
<1> HIDE DEF c
<1>3. CallKnows(c)
  BY <1>2 DEF CallKnows
<1> QED BY <1>0, <1>2, <1>3, CallStep

LEMMA ResolveStep == ASSUME IInv, NEW p \in Callers, Resolve(p) PROVE IInv'
<1>0. /\ call[p].at = "resolve" /\ call[p].m \in Payments /\ call[p].k \in Keys
      /\ UNCHANGED <<st, captured, first, winner, row, retry, world, past>>
      /\ flag' \in {flag, NoFlag} /\ Goto(p, "unschedule")
  BY Paid1, Called DEF Resolve, At, Paying, CallKnows, Keyed
<1>1. Typed'
  BY <1>0, IsTyped DEF Typed, world, past, Flags, NoFlag
<1>2. RefundsWithinCeiling'
  BY <1>0, CountsNoMore DEF IInv, TypeOK
<1> QED BY <1>0, <1>1, <1>2, Goto1 DEF Ready, Steps

-----------------------------------------------------------------------------
(* Cancelling *)

\* A call of a cancellation, which no payment delivered.
LEMMA CancelCall ==
  ASSUME IInv, NEW p \in Callers, NEW c \in Call, Become(p, c),
         c.at \in {"key", "sum", "close", "read"},
         c.at \in {"sum", "read"} => c.k \in Keys,
         c.op \in {"settle", "retry"} => c.m \in Payments, UNCHANGED <<order, world, past>>
  PROVE  IInv'
<1>1. CallKnows(c)
  BY DEF CallKnows, Keyed, Paying
<1> QED BY <1>1, CallStep

LEMMA CancelStep == ASSUME IInv, NEW p \in Callers, Cancel(p) PROVE IInv'
<1>0. UNCHANGED <<captured, first, winner, row, flag, retry, world, past>>
  BY DEF Cancel
<1>1. CASE st' = "dropped" /\ UNCHANGED call
  <2>1. Typed'
    BY <1>0, <1>1, IsTyped DEF Typed, world, past, States
  <2>2. TypeOK'
    BY <1>1, <2>1 DEF IInv, TypeOK, Typed
  <2>3. RefundsWithinCeiling'
    BY <1>0, CountsNoMore DEF IInv, TypeOK
  <2> QED BY <1>1, <2>2, <2>3 DEF IInv, CallKnows
<1>2. ASSUME NEW manual \in BOOLEAN, UNCHANGED st,
             Become(p, [Idle EXCEPT !.op = "cancel", !.at = "key", !.manual = manual])
      PROVE  IInv'
  <2> DEFINE c == [Idle EXCEPT !.op = "cancel", !.at = "key", !.manual = manual]
  <2>1. c \in Call /\ c.at = "key" /\ c.op = "cancel"
    BY IdleTyped DEF Call, Ops, Steps
  <2>2. UNCHANGED <<order, world, past>>
    BY <1>0, <1>2 DEF order
  <2> HIDE DEF c
  <2> QED BY <1>2, <2>1, <2>2, CancelCall DEF c
<1> QED BY <1>1, <1>2 DEF Cancel

LEMMA KeyStep == ASSUME IInv, NEW p \in Callers, Key(p) PROVE IInv'
<1> DEFINE c == call[p]
           mine(n) == [c EXCEPT !.k = CancelKey(n), !.amount = row[CancelKey(n)].amount]
<1>0. /\ c \in Call /\ c.at = "key" /\ UNCHANGED <<order, world, past>>
      /\ c.op \in {"settle", "retry"} => c.m \in Payments
  BY Called DEF Key, At, CallKnows
<1>1. CASE Return(p)
  BY <1>0, <1>1, OrderTyped, Return1
<1>2. ASSUME NEW n \in 1..Tries + 1, NEW at \in {"sum", "read"},
             Become(p, [mine(n) EXCEPT !.at = at])
      PROVE  IInv'
  <2>1. CancelKey(n) \in Keys
    BY DEF Keys, CancelKeys
  <2>2. row[CancelKey(n)].amount \in Nat
    BY <2>1, IsTyped DEF Typed, Row
  <2> DEFINE d == [mine(n) EXCEPT !.at = at]
  <2>3. d \in Call /\ d.k \in Keys /\ d.at = at /\ d.op = c.op /\ d.m = c.m
    BY <1>0, <2>1, <2>2 DEF Call, Steps
  <2> HIDE DEF d
  <2> QED BY <1>0, <1>2, <2>3, CancelCall DEF d
<1>3. ASSUME NEW n \in 1..Tries + 1, Become(p, [mine(n) EXCEPT !.at = "close", !.money = TRUE])
      PROVE  IInv'
  <2>1. CancelKey(n) \in Keys
    BY DEF Keys, CancelKeys
  <2>2. row[CancelKey(n)].amount \in Nat
    BY <2>1, IsTyped DEF Typed, Row
  <2> DEFINE d == [mine(n) EXCEPT !.at = "close", !.money = TRUE]
  <2>3. d \in Call /\ d.at = "close" /\ d.op = c.op /\ d.m = c.m
    BY <1>0, <2>1, <2>2 DEF Call, Steps
  <2> HIDE DEF d
  <2> QED BY <1>0, <1>3, <2>3, CancelCall DEF d
<1> QED BY <1>1, <1>2, <1>3 DEF Key

LEMMA SumStep == ASSUME IInv, NEW p \in Callers, Sum(p) PROVE IInv'
<1> DEFINE c == call[p]
           left == Ceiling - ActiveTotal
<1>0. /\ c \in Call /\ c.at = "sum" /\ c.k \in Keys /\ UNCHANGED <<order, world, past>>
      /\ c.op \in {"settle", "retry"} => c.m \in Payments
  BY Called DEF Sum, At, CallKnows, Keyed
<1>1. CASE Return(p)
  BY <1>0, <1>1, OrderTyped, Return1
<1>2. ASSUME NEW b \in BOOLEAN, Become(p, [c EXCEPT !.at = "close", !.money = b])
      PROVE  IInv'
  <2> DEFINE d == [c EXCEPT !.at = "close", !.money = b]
  <2>1. d \in Call /\ d.at = "close" /\ d.op = c.op /\ d.m = c.m
    BY <1>0 DEF Call, Steps
  <2> HIDE DEF d
  <2> QED BY <1>0, <1>2, <2>1, CancelCall DEF d
<1>3. CASE ~(left <= 0) /\ Become(p, [c EXCEPT !.at = "read", !.amount = left])
  <2>1. left \in Nat
    BY <1>3, SumsAreNaturals DEF IInv
  <2> DEFINE d == [c EXCEPT !.at = "read", !.amount = left]
  <2> HIDE DEF left
  <2>2. d \in Call /\ d.at = "read" /\ d.k \in Keys /\ d.op = c.op /\ d.m = c.m
    BY <1>0, <2>1 DEF Call, Steps
  <2> HIDE DEF d
  <2> QED BY <1>0, <1>3, <2>2, CancelCall DEF d
<1> QED BY <1>1, <1>2, <1>3 DEF Sum

LEMMA CloseStep == ASSUME IInv, NEW p \in Callers, Close(p) PROVE IInv'
<1>0. Return(p) /\ UNCHANGED <<captured, first, winner, row, retry, world, acked, misread, unheard>>
  BY DEF Close
<1>1. st' \in States
  BY IsTyped DEF Close, Typed, States
<1>2. flag' \in Flags /\ handled' \in SUBSET (Payments \cup Keys)
  <2>1. <<"cancel">> \in Flags
    BY DEF Flags
  <2> QED BY <2>1, RaiseTyped, IsTyped DEF Close, Typed
<1>3. Typed'
  BY <1>0, <1>1, <1>2, IsTyped DEF Typed, world
<1> QED BY <1>0, <1>3, Return1

-----------------------------------------------------------------------------
(* A person, and the world *)

\* A call that picks up where a person left off.
LEMMA HandCall ==
  ASSUME NEW k \in Keys, NEW f \in Flags, NEW got \in {"ok", "terminal"}
  PROVE  LET c == [Idle EXCEPT !.op = "hand", !.at = "clear", !.k = k, !.seen = f, !.got = got]
         IN  c \in Call /\ CallKnows(c)
<1> DEFINE c == [Idle EXCEPT !.op = "hand", !.at = "clear", !.k = k, !.seen = f, !.got = got]
<1>1. Idle \in Call
  BY IdleTyped
<1>2. c.k \in Keys /\ c.at = "clear" /\ c.op = "hand"
  BY DEF Idle
<1>3. got \in Answers /\ "hand" \in Ops /\ "clear" \in Steps
  BY DEF Answers, Ops, Steps
<1>4. c \in Call
  BY <1>1, <1>3 DEF Call
<1> HIDE DEF c
<1>5. CallKnows(c)
  BY <1>2 DEF CallKnows, Paying
<1> QED BY <1>4, <1>5 DEF c

LEMMA ConfirmStep ==
  ASSUME IInv, NEW p \in Callers, NEW k \in Keys, Confirm(p, k) PROVE IInv'
<1> DEFINE found == Issued(k)
           to  == IF found THEN "recorded" ELSE "voided"
           got == IF found THEN "ok" ELSE "terminal"
           c   == [Idle EXCEPT !.op = "hand", !.at = "clear", !.k = k, !.seen = flag, !.got = got]
<1>0. /\ row[k].st = "unverified" /\ row' = [row EXCEPT ![k].st = to, ![k].by = "operator"]
      /\ st' = IF found THEN Closed(k) ELSE st
      /\ Become(p, c) /\ row \in [Keys -> Row] /\ flag \in Flags /\ st \in States
      /\ UNCHANGED <<captured, first, winner, flag, retry, world, past>>
  BY IsTyped DEF Confirm, Typed
<1>1. to \in {"recorded", "voided"} /\ got \in {"ok", "terminal"}
  OBVIOUS
<1>2. c \in Call /\ CallKnows(c)
  BY <1>0, <1>1, HandCall
<1> HIDE DEF found, to, got, c
<1>3. row' \in [Keys -> Row]
  BY <1>0, <1>1 DEF Row, RowStates
<1>4. \A x \in Keys : row'[x].st \in Active =>
                        row[x].st \in Active /\ row'[x].amount = row[x].amount
  BY <1>0, <1>1 DEF Row, Active
<1>5. RefundsWithinCeiling'
  BY <1>0, <1>4, CountsNoMore DEF IInv, TypeOK
<1>6. st' \in States
  BY <1>0 DEF Closed, States
<1>7. Typed'
  BY <1>0, <1>3, <1>6, IsTyped DEF Typed, world, past
<1> QED BY <1>0, <1>2, <1>5, <1>7, Frame

LEMMA ClearStep == ASSUME IInv, NEW p \in Callers, Clear(p) PROVE IInv'
<1> DEFINE c == call[p]
<1>0. /\ c \in Call /\ c.k \in Keys /\ flag' \in {flag, NoFlag}
      /\ c.op \in {"settle", "retry"} => c.m \in Payments
      /\ UNCHANGED <<st, captured, first, winner, row, retry, world, past>>
  BY Called DEF Clear, At, CallKnows, Keyed
<1>1. Typed'
  BY <1>0, IsTyped DEF Typed, world, past, Flags, NoFlag
<1>2. ASSUME NEW m \in Payments, NEW at \in {"finish", "handLate"},
             Become(p, [c EXCEPT !.m = m, !.at = at])
      PROVE  IInv'
  <2> DEFINE d == [c EXCEPT !.m = m, !.at = at]
  <2>1. d \in Call /\ d.k \in Keys /\ d.m \in Payments /\ d.at = at
    BY <1>0 DEF Call, Steps
  <2> HIDE DEF d
  <2>2. CallKnows(d)
    BY <2>1 DEF CallKnows
  <2> QED BY <1>0, <1>1, <1>2, <2>1, <2>2, QuietStep DEF d
<1>3. CASE Goto(p, "resume")
  <2>1. Ready(c, "resume")
    BY <1>0 DEF Ready, Keyed, Paying
  <2>2. RefundsWithinCeiling'
    BY <1>0, CountsNoMore DEF IInv, TypeOK
  <2> QED BY <1>1, <1>3, <2>1, <2>2, Goto1 DEF Steps
<1>4. CASE Return(p)
  BY <1>0, <1>1, <1>4, Return1
<1> QED BY <1>2, <1>3, <1>4 DEF Clear

LEMMA ResumeStep == ASSUME IInv, NEW p \in Callers, Resume(p) PROVE IInv'
<1>0. /\ call[p].op \in {"settle", "retry"} => call[p].m \in Payments
      /\ UNCHANGED <<order, world, past>>
  BY Called DEF Resume, At, CallKnows
<1>1. CASE Become(p, [Idle EXCEPT !.op = "cancel", !.at = "key", !.manual = TRUE])
  <2> DEFINE d == [Idle EXCEPT !.op = "cancel", !.at = "key", !.manual = TRUE]
  <2>1. d \in Call /\ d.at = "key" /\ d.op = "cancel"
    BY IdleTyped DEF Call, Ops, Steps
  <2> HIDE DEF d
  <2> QED BY <1>0, <1>1, <2>1, CancelCall DEF d
<1>2. CASE Return(p)
  BY <1>0, <1>2, OrderTyped, Return1
<1>3. CASE Goto(p, "resumeFlag")
  BY <1>0, <1>3, OrderTyped, Goto1 DEF Ready, Keyed, Paying, Steps
<1> QED BY <1>1, <1>2, <1>3 DEF Resume

\* A flag that is raised last.
LEMMA RaiseLast ==
  ASSUME IInv, NEW p \in Callers, NEW f \in Flags, Raise(f), Return(p),
         UNCHANGED <<st, captured, first, winner, row, retry, world, acked, misread, unheard>>
  PROVE  IInv'
<1>1. Typed'
  BY RaiseTyped, IsTyped DEF Typed, world
<1> QED BY <1>1, Return1

LEMMA ResumeFlagStep == ASSUME IInv, NEW p \in Callers, ResumeFlag(p) PROVE IInv'
<1>1. <<"cancel">> \in Flags
  BY DEF Flags
<1> QED BY <1>1, RaiseLast DEF ResumeFlag

LEMMA HandSeeStep == ASSUME IInv, NEW p \in Callers, HandSee(p) PROVE IInv'
<1>0. call[p].m \in Payments /\ UNCHANGED <<order, world, past>>
  BY Paid1 DEF HandSee, At, Paying
<1>1. CASE Return(p)
  BY <1>0, <1>1, OrderTyped, Return1
<1>2. CASE Goto(p, "handFlag")
  BY <1>0, <1>2, OrderTyped, Goto1 DEF Ready, Keyed, Steps
<1> QED BY <1>1, <1>2 DEF HandSee

LEMMA HandFlagStep == ASSUME IInv, NEW p \in Callers, HandFlag(p) PROVE IInv'
<1>0. call[p].m \in Payments
  BY Paid1 DEF HandFlag, At, Paying
<1>1. <<"late", call[p].m>> \in Flags
  BY <1>0 DEF Flags
<1> QED BY <1>1, RaiseLast DEF HandFlag

LEMMA CrashStep == ASSUME IInv, NEW p \in Callers, Crash(p) PROVE IInv'
<1>0. Return(p) /\ UNCHANGED <<order, world, acked, handled, misread>>
  BY DEF Crash
<1>1. unheard' \in SUBSET Keys
  BY Called, IsTyped DEF Crash, CallKnows, Keyed, Typed
<1>2. Typed' /\ row' = row /\ captured' = captured
  BY <1>0, <1>1, IsTyped DEF Typed, order, world
<1> QED BY <1>0, <1>2, Return1

\* A step of nobody's.
LEMMA WorldStep ==
  ASSUME IInv, Typed', row' = row, captured' = captured, call' = call
  PROVE  IInv'
<1>1. TypeOK'
  BY DEF IInv, TypeOK, Typed
<1>2. RefundsWithinCeiling'
  BY CountsNoMore DEF IInv, TypeOK
<1> QED BY <1>1, <1>2 DEF IInv, CallKnows

LEMMA LookedStep == ASSUME IInv, Looked PROVE IInv'
<1>1. Typed'
  BY IsTyped DEF Looked, Typed, world, Flags, NoFlag, Open
<1> QED BY <1>1, WorldStep DEF Looked

LEMMA WorldSteps == ASSUME IInv, World PROVE IInv'
<1>1. CASE Expire \/ Ship
  <2>1. Typed'
    BY <1>1, IsTyped DEF Expire, Ship, Typed, world, past, States
  <2> QED BY <1>1, <2>1, WorldStep DEF Expire, Ship
<1>2. ASSUME NEW m \in Payments, NEW a \in 1..Paid[m], Dashboard(m, a)
      PROVE  IInv'
  <2>1. outside' \in [Payments -> Nat]
    BY <1>2, IsTyped, PaidAssumption DEF Dashboard, Typed
  <2>2. Typed'
    BY <1>2, <2>1, IsTyped DEF Dashboard, Typed, order, past
  <2> QED BY <1>2, <2>2, WorldStep DEF Dashboard, order
<1> QED BY <1>1, <1>2 DEF World

-----------------------------------------------------------------------------
(* The theorems *)

LEMMA InitInv == Init => IInv
<1> SUFFICES ASSUME Init PROVE IInv
  OBVIOUS
<1>1. NoRow \in Row /\ NoRow.st = "none"
  BY DEF NoRow, Row, RowStates
<1>2. row = [k \in Keys |-> NoRow]
  BY DEF Init
<1> HIDE DEF Keys
<1>3. row \in [Keys -> Row] /\ \A k \in Keys : row[k].st = "none"
  BY <1>1, <1>2
<1>4. TypeOK
  <2>1. call \in [Callers -> Call]
    BY IdleTyped DEF Init
  <2> QED BY <1>3, <2>1 DEF Init, TypeOK, States, Flags, NoFlag
<1>5. RefundsWithinCeiling
  <2>1. InState({"reserved", "unverified", "recorded"}) = {}
    BY <1>3 DEF InState
  <2>2. Cents({}) = {}
    BY DEF Cents
  <2>3. ActiveTotal = 0
    BY <2>1, <2>2, FS_EmptySet DEF ActiveTotal
  <2> QED BY <1>4, <2>3, SumsAreNaturals DEF RefundsWithinCeiling
<1>6. \A p \in Callers : CallKnows(call[p])
  BY IdleTyped DEF Init
<1> QED BY <1>4, <1>5, <1>6 DEF IInv

LEMMA NextInv == IInv /\ [Next]_vars => IInv'
<1> SUFFICES ASSUME IInv, [Next]_vars PROVE IInv'
  OBVIOUS
<1>1. CASE UNCHANGED vars
  BY <1>1, IsTyped, WorldStep DEF vars, order, world, past, Typed
<1>2. ASSUME NEW p \in Callers, Start(p)
      PROVE  IInv'
  BY <1>2, ClickStep, DeliverStep, RetryStep, ConfirmStep, CancelStep DEF Start
<1>3. ASSUME NEW p \in Callers, Step(p)
      PROVE  IInv'
  <2>1. CASE \/ Read(p) \/ Claim(p) \/ Insert(p) \/ Prior(p) \/ Pre(p) \/ Post(p) \/ Void(p)
             \/ Mark(p) \/ FlagProvider(p) \/ FlagRow(p) \/ Finalize(p)
    BY <2>1, ReadStep, ClaimStep, InsertStep, PriorStep, PreStep, PostStep, VoidStep, MarkStep,
       FlagProviderStep, FlagRowStep, FinalizeStep
  <2>2. CASE \/ Flip(p) \/ Lost(p) \/ Second(p) \/ Double(p) \/ Record(p)
             \/ LateRecord(p) \/ Late(p) \/ Ineligible(p) \/ LateFlag(p) \/ Again(p) \/ After(p)
    BY <2>2, FlipStep, LostStep, SecondStep, DoubleStep, RecordStep, LateRecordStep, LateStep,
       IneligibleStep, LateFlagStep, AgainStep, AfterStep
  <2>3. CASE \/ Schedule(p) \/ GiveUp(p) \/ Unschedule(p) \/ Tell(p) \/ Finish(p) \/ Resolve(p)
             \/ Key(p) \/ Sum(p) \/ Close(p) \/ Clear(p)
             \/ Resume(p) \/ ResumeFlag(p) \/ HandSee(p) \/ HandFlag(p)
    BY <2>3, ScheduleStep, GiveUpStep, UnscheduleStep, TellStep, FinishStep, ResolveStep,
       KeyStep, SumStep, CloseStep, ClearStep,
       ResumeStep, ResumeFlagStep, HandSeeStep, HandFlagStep
  <2> QED BY <1>3, <2>1, <2>2, <2>3 DEF Step
<1> QED BY <1>1, <1>2, <1>3, CrashStep, LookedStep, WorldSteps DEF Next

\* The ledger's bound, with the types it needs, is inductive.
THEOREM Inductive == Spec => []IInv
BY InitInv, NextInv, PTL DEF Spec

\* Every document, row, flag and call keeps its shape.
THEOREM TypesHold == Spec => []TypeOK
<1>1. IInv => TypeOK
  BY DEF IInv
<1> QED BY <1>1, Inductive, PTL

\* Refunds reserved, in doubt and made never come to more than was captured, for any
\* number of payments, amounts, keys and concurrent callers, whatever dies where.
THEOREM RefundsWithinCeilingHolds == Spec => []RefundsWithinCeiling
<1>1. IInv => RefundsWithinCeiling
  BY DEF IInv
<1> QED BY <1>1, Inductive, PTL

-----------------------------------------------------------------------------
(* The ledger and the provider *)

Early    == {"pending"} \cup Unpaid
Rowless  == {"none", "claimed"}

\* The points of refundOrder before the provider has answered, and those past the insert.
Asking   == {"claim", "insert", "prior", "pre", "post"}
Inserted == {"prior", "pre", "post", "void", "mark", "finalize", "flagCheck", "flagLost",
             "flagProvider"}

\* The points of a delivery whose flag was raised, and of one whose refund was made.
Warned   == Asking \cup Inserted \cup
              {"read", "again", "after", "schedule", "giveUp", "giveUpNext", "tell",
               "finish", "resolve", "unschedule"}
Refunding == Asking \cup Inserted \cup {"read", "again", "after"}

\* A refund's earlier keys.
Earlier(k) == {j \in ClickKeys : k \in ClickKeys /\ j[2] = k[2] /\ j[3] = k[3] /\ j[4] < k[4]}

\* A late payment is refunded, in front of a person, or was.
Covered(m) ==
  \/ row[LateKey(m)].st = "recorded"
  \/ m \in handled
  \/ flag \in {<<"late", m>>, <<"settle">>}

\* Issued money keeps its row, unless the row was voided on a read; the provider gives one
\* key one answer; nothing is recorded that was not issued; nobody asks for nothing.
Matched(k) ==
  /\ row[k].st # "none" => row[k].amount > 0
  /\ Issued(k) => row[k].st \in Active \/ k \in misread
  /\ Issued(k) => ~Rejected(k)
  /\ row[k].st = "recorded" => row[k].manual \/ Issued(k)
  /\ k \in misread => row[k].st = "voided"

\* A key is used once the ones before it were voided.
Used(k)    == row[k].st # "none" \/ \E p \in Callers : call[p].k = k
InOrder(k) == Used(k) => \A j \in Earlier(k) : row[j].st = "voided"

\* What a call has established of its row.
OfRow(c) ==
  /\ c.at \in {"read"} \cup Asking => c.amount > 0
  /\ c.at = "insert" => row[c.k].st # "none"
  /\ c.at \in Inserted => row[c.k].st \notin Rowless
  /\ c.at \in Asking /\ row[c.k].st = "voided" => c.k \in misread \/ Rejected(c.k)
  /\ c.at = "void" /\ c.got = "terminal" => Rejected(c.k)
  /\ c.at \in {"finalize", "flagLost"} => Issued(c.k)
  /\ c.at \in {"finish", "resolve"} => row[LateKey(c.m)].st = "recorded"
  /\ c.at = "clear" /\ c.got = "ok" => row[c.k].st = "recorded"
  /\ c.at = "again" => c.op = "settle"
  /\ c.at \in {"key", "sum"} => c.op = "cancel"
  /\ c.at \in {"clear", "handLate"} => c.op = "hand"

\* What a delivery has established of its order and its payment.
OfPayment(c) ==
  /\ c.op = "retry" => c.k = LateKey(c.m) /\ ~c.manual
  /\ c.at \in {"record", "second", "double"} => st \notin Early
  /\ c.op = "settle" /\ c.at # "flip" => st # "pending"
  /\ c.op = "settle" /\ c.at \in {"late", "lateFlag"} \cup Warned => c.m \in captured
  /\ c.op = "settle" /\ c.at = "lateFlag" => ~c.manual
  /\ c.op = "settle" /\ c.at = "ineligible" /\ st \in Unpaid => c.m \in captured
  /\ c.op = "settle" /\ c.at \in Warned => Covered(c.m)
  /\ c.op = "settle" /\ c.at \in Refunding => c.k = LateKey(c.m) /\ ~c.manual

\* What was answered for good.
Acked(m) == st # "pending" /\ (st \in Unpaid => m \in captured /\ Covered(m))

Told ==
  /\ \A k \in Keys : Matched(k) /\ InOrder(k)
  /\ \A p \in Callers : OfRow(call[p]) /\ OfPayment(call[p])
  /\ \A m \in acked : Acked(m)

Mid == IInv /\ IInv' /\ Told

\* What a step leaves of a row.
RowOn(k) ==
  /\ row'[k].st # "none" => Used(k)
  /\ row[k].st # "none" => row'[k].st # "none"
  /\ row[k].st \notin Rowless => row'[k].st \notin Rowless
  /\ row[k].st = "recorded" => row'[k].st = "recorded"
  /\ row[k].st = "voided" => row'[k].st = "voided"
  /\ row'[k].st = "voided" => \/ row[k].st = "voided" \/ k \in misread' \/ Rejected(k)'
                              \/ \A q \in Callers : call[q].k # k

\* What it leaves of the order, the payments and what was said.
Onward ==
  /\ \A k \in Keys : RowOn(k)
  /\ captured \subseteq captured' /\ handled \subseteq handled' /\ misread \subseteq misread'
  /\ issued \subseteq issued'
  /\ st' = "pending" => st = "pending"
  /\ st' \in Early => st \in Early
  /\ \A m \in captured : Covered(m) => Covered(m)'

LEMMA LateKeys1 == ASSUME NEW m \in Payments PROVE LateKey(m) \in Keys
BY DEF Keys, LateKeys

LEMMA AnswersStay ==
  ASSUME issued \subseteq issued', NEW k
  PROVE  (Issued(k) => Issued(k)') /\ (Rejected(k) => Rejected(k)')
BY DEF Issued, Rejected

LEMMA OfRowStays ==
  ASSUME Onward, NEW q \in Callers, NEW c \in Call, c = call[q], CallKnows(c), OfRow(c)
  PROVE  OfRow(c)'
<1>1. c.at \in Asking \cup Inserted \cup {"clear", "resolve"} => c.k \in Keys
  BY DEF CallKnows, Asking, Inserted, Keyed
<1>2. c.at \in {"finish", "resolve"} => LateKey(c.m) \in Keys
  BY LateKeys1 DEF CallKnows, Paying
<1>3. issued \subseteq issued' /\ misread \subseteq misread' /\ \A k \in Keys : RowOn(k)
  BY DEF Onward
<1>4. (Issued(c.k) => Issued(c.k)') /\ (Rejected(c.k) => Rejected(c.k)')
  BY <1>3, AnswersStay
<1>5. c.at \in Asking /\ row'[c.k].st = "voided" => c.k \in misread' \/ Rejected(c.k)'
  BY <1>1, <1>3, <1>4 DEF RowOn, OfRow
<1>6. /\ c.at = "insert" => row'[c.k].st # "none"
      /\ c.at \in Inserted => row'[c.k].st \notin Rowless
      /\ c.at = "clear" /\ c.got = "ok" => row'[c.k].st = "recorded"
  BY <1>1, <1>3 DEF RowOn, OfRow, Asking
<1>7. c.at \in {"finish", "resolve"} => row'[LateKey(c.m)].st = "recorded"
  BY <1>2, <1>3 DEF RowOn, OfRow
<1> QED BY <1>4, <1>5, <1>6, <1>7 DEF OfRow

LEMMA OfPaymentStays ==
  ASSUME Onward, NEW c \in Call, OfPayment(c)
  PROVE  OfPayment(c)'
<1>1. captured \subseteq captured' /\ (st' = "pending" => st = "pending")
      /\ (st' \in Early => st \in Early) /\ \A m \in captured : Covered(m) => Covered(m)'
  BY DEF Onward
<1>2. c.op = "settle" /\ c.at = "ineligible" /\ st' \in Unpaid => c.m \in captured'
  BY <1>1 DEF OfPayment, Early
<1> QED BY <1>1, <1>2 DEF OfPayment

\* The callers P that moved know what they must, and the keys they took up are next in order.
LEMMA ToldLasts ==
  ASSUME Mid, NEW P \in SUBSET Callers, \A q \in Callers \ P : call'[q] = call[q], Onward,
         \A k \in Keys : Matched(k)', \A p \in P : OfRow(call[p])' /\ OfPayment(call[p])',
         \A p \in P : \/ call'[p].k \in {None, call[p].k}
                      \/ \A j \in Earlier(call'[p].k) : row[j].st = "voided",
         \A m \in acked' : m \in acked \/ Acked(m)'
  PROVE  Told'
<1>1. ASSUME NEW k \in Keys PROVE InOrder(k)'
  <2> SUFFICES ASSUME Used(k)', NEW j \in Earlier(k) PROVE row'[j].st = "voided"
    BY DEF InOrder, Earlier
  <2>1. j \in Keys /\ k # None
    BY <1>1, NoneAssumption DEF Earlier, Keys
  <2>2. Used(k) \/ \E p \in P : call'[p].k = k
    BY <1>1 DEF Used, Onward, RowOn
  <2>3. row[j].st = "voided"
    <3>1. CASE Used(k)
      BY <1>1, <3>1 DEF Mid, Told, InOrder
    <3>2. CASE ~Used(k)
      <4>1. PICK p \in P : call'[p].k = k
        BY <2>2, <3>2
      <4>2. call[p].k # k
        BY <3>2 DEF Used
      <4> QED BY <2>1, <4>1, <4>2
    <3> QED BY <3>1, <3>2
  <2> QED BY <2>1, <2>3 DEF Onward, RowOn
<1>2. ASSUME NEW q \in Callers \ P PROVE OfRow(call[q])' /\ OfPayment(call[q])'
  <2>1. call[q] \in Call /\ CallKnows(call[q]) /\ OfRow(call[q]) /\ OfPayment(call[q])
    BY Called DEF Mid, Told
  <2>2. PICK d \in Call : d = call[q]
    BY <2>1
  <2>3. CallKnows(d) /\ OfRow(d) /\ OfPayment(d)
    BY <2>1, <2>2
  <2>4. OfRow(d)' /\ OfPayment(d)'
    BY <2>2, <2>3, OfRowStays, OfPaymentStays
  <2> QED BY <2>2, <2>4 DEF OfRow, OfPayment
<1>3. ASSUME NEW m \in acked' PROVE Acked(m)'
  <2>1. CASE m \in acked
    BY <2>1 DEF Mid, Told, Acked, Onward, Early
  <2> QED BY <1>3, <2>1
<1> QED BY <1>1, <1>2, <1>3 DEF Told

\* A caller p goes on to c.
LEMMA ToldFrame ==
  ASSUME Mid, NEW p \in Callers, NEW c \in Call, call' = [call EXCEPT ![p] = c], Onward,
         \A k \in Keys : Matched(k)', OfRow(c)', OfPayment(c)',
         c.k \in {None, call[p].k} \/ \A j \in Earlier(c.k) : row[j].st = "voided",
         \A m \in acked' : m \in acked \/ Acked(m)'
  PROVE  Told'
<1>1. call'[p] = c /\ \A q \in Callers \ {p} : call'[q] = call[q]
  BY Called DEF Mid
<1>2. OfRow(call[p])' /\ OfPayment(call[p])'
  BY <1>1 DEF OfRow, OfPayment
<1> DEFINE P == {p}
<1>3. /\ P \in SUBSET Callers /\ \A q \in Callers \ P : call'[q] = call[q]
      /\ \A q \in P : OfRow(call[q])' /\ OfPayment(call[q])'
      /\ \A q \in P : \/ call'[q].k \in {None, call[q].k}
                     \/ \A j \in Earlier(call'[q].k) : row[j].st = "voided"
  BY <1>1, <1>2
<1> HIDE DEF P
<1> QED BY <1>3, ToldLasts

-----------------------------------------------------------------------------
(* Steps that leave the ledger and the provider alone *)

LEMMA FlagStays ==
  ASSUME row' = row, flag' = flag, handled \subseteq handled', NEW m
  PROVE  Covered(m) => Covered(m)'
BY DEF Covered

\* Whoever writes over a flag leaves what it stood for to a person.
LEMMA RaiseKeeps ==
  ASSUME row' = row, NEW f, Raise(f), f # NoFlag
  PROVE  handled \subseteq handled' /\ \A m \in captured : Covered(m) => Covered(m)'
<1>1. CASE flag \in {NoFlag, f}
  <2>1. handled' = handled /\ (flag' = flag \/ flag = <<"none">>)
    BY <1>1 DEF Raise, NoFlag
  <2> QED BY <2>1 DEF Covered
<1>2. CASE flag \notin {NoFlag, f}
  <2>1. handled' = handled \cup Open /\ captured \subseteq Open
    BY <1>2 DEF Raise, Open
  <2> QED BY <2>1 DEF Covered
<1> QED BY <1>1, <1>2

\* A flag that no payment stands behind is written over.
LEMMA FreeFlag ==
  ASSUME row' = row, handled \subseteq handled',
         flag \in {NoFlag, <<"provider">>} \/ \E k : flag = <<"check", k>>
  PROVE  \A m \in captured : Covered(m) => Covered(m)'
BY DEF Covered, NoFlag

LEMMA BesideOn ==
  ASSUME Mid, row' = row, issued' = issued, misread' = misread, captured \subseteq captured',
         handled \subseteq handled', st' = "pending" => st = "pending",
         st' \in Early => st \in Early, \A m \in captured : Covered(m) => Covered(m)'
  PROVE  Onward /\ \A k \in Keys : Matched(k)'
<1>1. \A k \in Keys : RowOn(k)
  BY DEF RowOn, Used
<1>2. ASSUME NEW k \in Keys PROVE Matched(k)'
  <2>1. Matched(k) /\ (Issued(k)' <=> Issued(k)) /\ (Rejected(k)' <=> Rejected(k))
    BY DEF Mid, Told, Issued, Rejected
  <2> QED BY <2>1 DEF Matched
<1> QED BY <1>1, <1>2 DEF Onward

LEMMA RowSame ==
  ASSUME row' = row, issued' = issued, misread' = misread, NEW c, OfRow(c)
  PROVE  OfRow(c)'
<1>1. (Issued(c.k)' <=> Issued(c.k)) /\ (Rejected(c.k)' <=> Rejected(c.k))
  BY DEF Issued, Rejected
<1> QED BY <1>1 DEF OfRow

\* Nothing moves but the call.
LEMMA QuietlyOn ==
  ASSUME Mid, UNCHANGED <<order, world, past>>
  PROVE  Onward /\ (\A k \in Keys : Matched(k)') /\ acked' = acked
         /\ row' = row /\ issued' = issued /\ misread' = misread
<1>1. row' = row /\ issued' = issued /\ misread' = misread /\ captured' = captured /\ st' = st
      /\ handled' = handled /\ flag' = flag /\ acked' = acked
  BY DEF order, world, past
<1> QED BY <1>1, FlagStays, BesideOn

LEMMA Quietly ==
  ASSUME Mid, NEW p \in Callers, NEW c \in Call, Become(p, c), UNCHANGED <<order, world, past>>,
         OfRow(c), OfPayment(c),
         c.k \in {None, call[p].k} \/ \A j \in Earlier(c.k) : row[j].st = "voided"
  PROVE  Told'
<1>1. Onward /\ (\A k \in Keys : Matched(k)') /\ acked' = acked
      /\ row' = row /\ issued' = issued /\ misread' = misread
  BY QuietlyOn
<1>2. OfRow(c)' /\ OfPayment(c)'
  BY <1>1, RowSame, OfPaymentStays
<1> QED BY <1>1, <1>2, ToldFrame DEF Become

LEMMA IdleTold == OfRow(Idle) /\ OfPayment(Idle) /\ Idle.k = None
BY DEF Idle, OfRow, OfPayment, Asking, Inserted, Warned, Refunding

\* A caller of refundOrder, or of a late payment, goes on with its payment.
LEMMA PaymentOn ==
  ASSUME Onward, NEW b \in Call, NEW c \in Call, OfPayment(b), b.at \in Warned, c.at \in Warned,
         c.at \in Refunding => b.at \in Refunding,
         c.op = b.op, c.k = b.k, c.m = b.m, c.manual = b.manual
  PROVE  OfPayment(c)'
<1>1. OfPayment(b)'
  BY OfPaymentStays
<1>2. b.at \notin {"flip", "late", "lateFlag", "ineligible", "record", "second", "double"}
      /\ c.at \notin {"flip", "late", "lateFlag", "ineligible", "record", "second", "double"}
  BY DEF Warned, Asking, Inserted
<1> QED BY <1>1, <1>2 DEF OfPayment

\* refundOrder answers.
LEMMA AnswerOn ==
  ASSUME Mid, NEW p \in Callers, NEW got \in Answers, Answer(p, got), Onward,
         \A k \in Keys : Matched(k)', acked' = acked,
         call[p].at \in {"read", "insert"} \cup Inserted,
         got = "ok" => call[p].manual \/ row'[call[p].k].st = "recorded"
  PROVE  Told'
<1>1. PICK b \in Call : b = call[p]
  BY Called DEF Mid
<1>2. OfPayment(b) /\ b.at \in Refunding /\ b.at \in Warned
  BY <1>1 DEF Mid, Told, Refunding, Warned, Asking
<1>3. ASSUME NEW at \in {"finish", "again", "resolve", "after"}, b.op \in {"settle", "retry"},
             at \in {"finish", "resolve"} => got = "ok", at = "again" => b.op = "settle",
             call' = [call EXCEPT ![p] = [b EXCEPT !.got = got, !.at = at]]
      PROVE  Told'
  <2> DEFINE c == [b EXCEPT !.got = got, !.at = at]
  <2>1. c \in Call /\ c.at = at /\ c.op = b.op /\ c.k = b.k /\ c.m = b.m /\ c.manual = b.manual
    BY DEF Call, Steps
  <2> HIDE DEF c
  <2>2. OfPayment(c)'
    BY <1>2, <2>1, PaymentOn DEF Warned, Refunding
  <2>3. b.k = LateKey(b.m) /\ ~b.manual
    BY <1>2, <1>3 DEF OfPayment
  <2>4. OfRow(c)'
    BY <1>1, <1>3, <2>1, <2>3 DEF OfRow, Asking, Inserted
  <2>5. call' = [call EXCEPT ![p] = c]
    BY <1>3 DEF c
  <2> QED BY <1>1, <2>1, <2>2, <2>4, <2>5, ToldFrame
<1>4. CASE b.op = "cancel" /\ got = "ok"
  <2> DEFINE c == [b EXCEPT !.at = "close", !.money = TRUE]
  <2>1. c \in Call /\ c.at = "close" /\ c.op = "cancel" /\ c.k = b.k
    BY <1>4 DEF Call, Steps
  <2>2. call' = [call EXCEPT ![p] = c]
    BY <1>1, <1>4 DEF Answer, Answered, Become
  <2> HIDE DEF c
  <2>3. OfRow(c)' /\ OfPayment(c)'
    BY <2>1 DEF OfRow, OfPayment, Asking, Inserted
  <2> QED BY <1>1, <2>1, <2>2, <2>3, ToldFrame
<1>5. CASE b.op \notin {"settle", "retry"} /\ ~(b.op = "cancel" /\ got = "ok")
  <2>1. call' = [call EXCEPT ![p] = Idle]
    BY <1>1, <1>5 DEF Answer, Answered, Become
  <2>2. OfRow(Idle)' /\ OfPayment(Idle)'
    BY DEF Idle, OfRow, OfPayment, Asking, Inserted, Warned, Refunding
  <2> QED BY <2>1, <2>2, IdleTyped, IdleTold, ToldFrame
<1>6. CASE b.op = "settle"
  <2>1. call' = [call EXCEPT ![p] = [b EXCEPT !.got = got,
                                              !.at = IF got = "ok" THEN "finish" ELSE "again"]]
    BY <1>1, <1>6 DEF Answer, Answered, Become
  <2> QED BY <1>3, <1>6, <2>1
<1>7. CASE b.op = "retry"
  <2>1. call' = [call EXCEPT ![p] = [b EXCEPT !.got = got,
                                              !.at = IF got = "ok" THEN "resolve" ELSE "after"]]
    BY <1>1, <1>7 DEF Answer, Answered, Become
  <2> QED BY <1>3, <1>7, <2>1
<1> QED BY <1>4, <1>5, <1>6, <1>7

LEMMA ReturnOn ==
  ASSUME Mid, NEW p \in Callers, Return(p), Onward, \A k \in Keys : Matched(k)',
         \A m \in acked' : m \in acked \/ Acked(m)'
  PROVE  Told'
<1>1. OfRow(Idle)' /\ OfPayment(Idle)'
  BY DEF Idle, OfRow, OfPayment, Asking, Inserted, Warned, Refunding
<1> QED BY <1>1, IdleTyped, IdleTold, ToldFrame DEF Return, Become

\* A call within refundOrder goes on to a point of it.
LEMMA WithinOn ==
  ASSUME Mid, NEW p \in Callers, NEW c \in Call, Become(p, c), Onward,
         \A k \in Keys : Matched(k)', acked' = acked, OfRow(c)', call[p].at \in Warned,
         c.at \in Warned, c.at \in Refunding => call[p].at \in Refunding,
         c.op = call[p].op, c.k = call[p].k, c.m = call[p].m, c.manual = call[p].manual
  PROVE  Told'
<1>1. PICK b \in Call : b = call[p]
  BY Called DEF Mid
<1>2. OfPayment(b)
  BY <1>1 DEF Mid, Told
<1>3. OfPayment(c)'
  BY <1>1, <1>2, PaymentOn
<1> QED BY <1>1, <1>3, ToldFrame DEF Become

\* One row is written.
LEMMA RowPutOn ==
  ASSUME Mid, NEW k \in Keys, \A j \in Keys \ {k} : row'[j] = row[j], RowOn(k), Matched(k)',
         captured' = captured, handled \subseteq handled', misread \subseteq misread',
         misread' \subseteq misread \cup {k}, issued' = issued, flag' = flag, st' = "pending" => st = "pending",
         st' \in Early => st \in Early
  PROVE  Onward /\ \A j \in Keys : Matched(j)'
<1>1. ASSUME NEW j \in Keys \ {k} PROVE RowOn(j) /\ Matched(j)'
  <2>1. Matched(j) /\ (Issued(j)' <=> Issued(j)) /\ (Rejected(j)' <=> Rejected(j))
    BY DEF Mid, Told, Issued, Rejected
  <2> QED BY <1>1, <2>1 DEF Matched, RowOn, Used
<1>2. \A j \in Keys : row[j].st = "recorded" => row'[j].st = "recorded"
  BY <1>1 DEF RowOn
<1>3. \A m \in captured : Covered(m) => Covered(m)'
  <2>1. captured \in SUBSET Payments
    BY DEF Mid, IInv, TypeOK
  <2>2. ASSUME NEW m \in captured
        PROVE  row[LateKey(m)].st = "recorded" => row'[LateKey(m)].st = "recorded"
    BY <1>2, <2>1, LateKeys1
  <2> QED BY <2>2 DEF Covered
<1> QED BY <1>1, <1>3 DEF Onward

LEMMA AnswersSame ==
  ASSUME issued' = issued, NEW k
  PROVE  (Issued(k)' <=> Issued(k)) /\ (Rejected(k)' <=> Rejected(k))
BY DEF Issued, Rejected

LEMMA ReadOn == ASSUME Mid, NEW p \in Callers, Read(p) PROVE Told'
<1> DEFINE m == IF call[p].op \in {"settle", "retry"} THEN call[p].m ELSE first
<1>0. PICK b \in Call : b = call[p]
  BY Called DEF Mid
<1>1. /\ b.at = "read" /\ b.k \in Keys /\ OfRow(b) /\ UNCHANGED <<order, world, past>>
      /\ OfPayment(b) /\ m \in Payments \cup {None} /\ flag \in Flags
      /\ call' \in [Callers -> Call]
  <2>1. m \in Payments \cup {None} /\ flag \in Flags /\ call' \in [Callers -> Call]
    BY Called, IsTyped DEF Mid, Typed, Call, IInv, TypeOK
  <2> QED BY <1>0, <2>1, Called DEF Mid, Told, Read, At, CallKnows, Keyed
<1>2. ASSUME NEW got \in Answers, Answer(p, got), got = "ok" => row[b.k].st = "recorded"
      PROVE  Told'
  BY <1>0, <1>1, <1>2, AnswerOn, QuietlyOn
<1>3. CASE /\ b.k \in Keys /\ row[b.k].st = "reserved"
           /\ Become(p, [call[p] EXCEPT !.at = "mark", !.got = "held"])
  <2> DEFINE c == [b EXCEPT !.at = "mark", !.got = "held"]
  <2>1. c \in Call /\ c.at = "mark" /\ c.k = b.k /\ c.m = b.m /\ c.op = b.op
        /\ c.manual = b.manual /\ c.amount = b.amount
    BY ZenonT(60) DEF Call, Steps, Answers
  <2>2. Become(p, c)
    BY <1>0, <1>3
  <2> HIDE DEF c
  <2>3. OfRow(c)
    BY <1>3, <2>1 DEF OfRow, Asking, Inserted, Rowless
  <2>4. OfPayment(c)
    BY <1>1, <2>1 DEF OfPayment, Warned, Refunding, Inserted, Asking
  <2> QED BY <1>0, <1>1, <2>1, <2>2, <2>3, <2>4, Quietly
<1>4. ASSUME NEW at \in {"prior", "claim"},
             at = "prior" => row[b.k].st = "reserved",
             at = "claim" => row[b.k].st \in {"none", "claimed"},
             Become(p, [call[p] EXCEPT !.at = at, !.m = m, !.seen = flag])
      PROVE  Told'
  <2> DEFINE c == [b EXCEPT !.at = at, !.m = m, !.seen = flag]
  <2>1. c \in Call /\ c.at = at /\ c.k = b.k /\ c.m = m /\ c.op = b.op
        /\ c.manual = b.manual /\ c.amount = b.amount
    <3>1. c \in Call
      BY <1>1, ZenonT(60) DEF Call, Steps
    <3> QED BY <1>1, <3>1 DEF Call
  <2>2. Become(p, c) /\ (b.op \in {"settle", "retry"} => m = b.m)
    BY <1>0, <1>4
  <2> HIDE DEF c, m
  <2>3. OfRow(c)
    BY <1>1, <1>4, <2>1 DEF OfRow, Asking, Inserted, Rowless
  <2>4. OfPayment(c)
    BY <1>1, <2>1, <2>2 DEF OfPayment, Warned, Refunding, Inserted, Asking
  <2> QED BY <1>0, <1>1, <2>1, <2>2, <2>3, <2>4, Quietly
<1>5. \A s : Said(s) = "ok" => s = "recorded"
  BY DEF Said
<1> QED BY <1>0, <1>1, <1>2, <1>3, <1>4, <1>5, Said1 DEF Read, Answers

LEMMA ClaimOn == ASSUME Mid, NEW p \in Callers, Claim(p) PROVE Told'
<1>0. PICK b \in Call : b = call[p]
  BY Called DEF Mid
<1> DEFINE c == [b EXCEPT !.at = "insert"]
<1>1. /\ b.at = "claim" /\ b.k \in Keys /\ OfRow(b)
      /\ UNCHANGED <<st, captured, first, winner, flag, retry, world, past>>
      /\ row \in [Keys -> Row]
  BY <1>0, Called, IsTyped DEF Mid, Told, Claim, At, CallKnows, Keyed, Typed
<1>2. \/ row' = row /\ row[b.k].st # "none"
      \/ /\ row[b.k].st = "none" /\ row'[b.k].st = "claimed" /\ row'[b.k].amount = b.amount
         /\ \A j \in Keys \ {b.k} : row'[j] = row[j]
  <2> DEFINE new == [NoRow EXCEPT !.st = "claimed", !.amount = b.amount, !.manual = b.manual]
  <2>1. new.st = "claimed" /\ new.amount = b.amount
    BY DEF NoRow
  <2> HIDE DEF new
  <2>2. row' = IF row[b.k].st = "none" THEN [row EXCEPT ![b.k] = new] ELSE row
    BY <1>0 DEF Claim, new
  <2> QED BY <1>1, <2>1, <2>2
<1>3. /\ row'[b.k].st # "none"
      /\ row'[b.k].st = "voided" => row[b.k].st = "voided"
      /\ \A j \in Keys \ {b.k} : row'[j] = row[j]
  BY <1>1, <1>2
<1>4. issued' = issued /\ misread' = misread /\ handled' = handled
  BY <1>1 DEF world, past
<1>5. RowOn(b.k) /\ Matched(b.k)'
  <2>1. Matched(b.k)
    BY <1>1 DEF Mid, Told
  <2>2. Used(b.k)
    BY <1>0 DEF Used
  <2>3. b.amount > 0
    BY <1>1 DEF OfRow, Asking
  <2> QED BY <1>1, <1>2, <1>4, <2>1, <2>2, <2>3, AnswersSame
          DEF RowOn, Matched, Active, Rowless
<1>6. Onward /\ \A j \in Keys : Matched(j)'
  BY <1>1, <1>3, <1>4, <1>5, RowPutOn
<1>7. c \in Call /\ c.at = "insert" /\ c.k = b.k /\ c.m = b.m /\ c.op = b.op /\ c.manual = b.manual 
      /\ c.amount = b.amount
  BY DEF Call, Steps
<1>8. Become(p, c)
  BY <1>0 DEF Claim, Goto, Become
<1> HIDE DEF c
<1>9. OfRow(c)'
  BY <1>1, <1>3, <1>4, <1>7, AnswersSame DEF OfRow, Asking, Inserted
<1>10. acked' = acked
  BY <1>1 DEF past
<1> QED BY <1>0, <1>1, <1>6, <1>7, <1>8, <1>9, <1>10, WithinOn DEF Warned, Refunding, Asking

LEMMA InsertOn == ASSUME Mid, NEW p \in Callers, Insert(p) PROVE Told'
<1>0. PICK b \in Call : b = call[p]
  BY Called DEF Mid
<1> DEFINE r == row[b.k]
<1>1. /\ b.at = "insert" /\ b.k \in Keys /\ OfRow(b) /\ row \in [Keys -> Row]
      /\ UNCHANGED <<captured, first, winner, flag, retry, world, past>>
  BY <1>0, Called, IsTyped DEF Mid, Told, Insert, At, CallKnows, Keyed, Typed
<1>2. issued' = issued /\ misread' = misread /\ handled' = handled /\ acked' = acked
  BY <1>1 DEF world, past
<1>3. CASE /\ r.st = "claimed"
           /\ PutRow(b.k, IF r.manual THEN "recorded" ELSE "reserved")
           /\ st' = IF r.manual THEN Closed(b.k) ELSE st
           /\ IF b.manual THEN Answer(p, "ok")
              ELSE Become(p, [b EXCEPT !.at = "prior", !.created = TRUE])
  <2>1. /\ row'[b.k].st = IF r.manual THEN "recorded" ELSE "reserved"
        /\ row'[b.k].manual = r.manual /\ row'[b.k].amount = r.amount
        /\ \A j \in Keys \ {b.k} : row'[j] = row[j]
    BY <1>1, <1>3 DEF PutRow, Row
  <2>2. (st' = "pending" => st = "pending") /\ (st' \in Early => st \in Early)
    BY <1>3 DEF Closed, Early, Unpaid
  <2>3. RowOn(b.k) /\ Matched(b.k)'
    <3>1. Matched(b.k) /\ Used(b.k)
      BY <1>0, <1>1 DEF Mid, Told, Used
    <3> QED BY <1>1, <1>2, <1>3, <2>1, <3>1, AnswersSame DEF RowOn, Matched, Active, Rowless
  <2>4. Onward /\ \A j \in Keys : Matched(j)'
    BY <1>1, <1>2, <2>1, <2>2, <2>3, RowPutOn
  <2>5. CASE b.manual
    BY <1>0, <1>1, <1>2, <1>3, <2>4, <2>5, AnswerOn DEF Answers
  <2>6. CASE ~b.manual
    <3> DEFINE c == [b EXCEPT !.at = "prior", !.created = TRUE]
    <3>1. c \in Call /\ c.at = "prior" /\ c.k = b.k /\ c.m = b.m /\ c.op = b.op
          /\ c.manual = b.manual /\ c.amount = b.amount
      BY DEF Call, Steps
    <3>2. Become(p, c)
      BY <1>3, <2>6
    <3> HIDE DEF c
    <3>3. OfRow(c)'
      BY <1>1, <2>1, <3>1 DEF OfRow, Asking, Inserted, Rowless
    <3> QED BY <1>0, <1>1, <1>2, <2>4, <3>1, <3>2, <3>3, WithinOn DEF Warned, Refunding, Asking
  <2> QED BY <2>5, <2>6
<1>4. ASSUME NEW got \in Answers, UNCHANGED <<row, st>>, Answer(p, got),
             got = "ok" => b.manual \/ r.st = "recorded"
      PROVE  Told'
  <2>1. UNCHANGED <<order, world, past>>
    BY <1>1, <1>4 DEF order
  <2> QED BY <1>0, <1>1, <1>4, <2>1, QuietlyOn, AnswerOn
<1>5. CASE UNCHANGED <<row, st>> /\ r.st # "claimed" /\ Goto(p, "prior")
  <2>1. UNCHANGED <<order, world, past>>
    BY <1>1, <1>5 DEF order
  <2> DEFINE c == [b EXCEPT !.at = "prior"]
  <2>2. c \in Call /\ c.at = "prior" /\ c.k = b.k /\ c.m = b.m /\ c.op = b.op
        /\ c.manual = b.manual /\ c.amount = b.amount
    BY DEF Call, Steps
  <2>3. Become(p, c)
    BY <1>0, <1>5 DEF Goto, Become
  <2> HIDE DEF c
  <2>4. OfRow(c)
    BY <1>1, <1>5, <2>2 DEF OfRow, Asking, Inserted, Rowless
  <2>5. OfRow(c)'
    BY <2>1, <2>4, QuietlyOn, RowSame
  <2> QED BY <1>0, <1>1, <2>1, <2>2, <2>3, <2>5, QuietlyOn, WithinOn DEF Warned, Refunding, Asking
<1>6. \A s : Said(s) = "ok" => s = "recorded"
  BY DEF Said
<1>7. \/ /\ r.st = "claimed"
         /\ PutRow(b.k, IF r.manual THEN "recorded" ELSE "reserved")
         /\ st' = IF r.manual THEN Closed(b.k) ELSE st
         /\ IF b.manual THEN Answer(p, "ok")
            ELSE Become(p, [b EXCEPT !.at = "prior", !.created = TRUE])
      \/ UNCHANGED <<row, st>> /\ (Answer(p, "refused") \/ (b.manual /\ Answer(p, Said(r.st))))
      \/ UNCHANGED <<row, st>> /\ r.st # "claimed" /\ Goto(p, "prior")
  BY <1>0 DEF Insert
<1> QED BY <1>3, <1>4, <1>5, <1>6, <1>7, Said1 DEF Answers

LEMMA PriorOn == ASSUME Mid, NEW p \in Callers, Prior(p) PROVE Told'
<1>0. PICK b \in Call : b = call[p]
  BY Called DEF Mid
<1>1. b.at = "prior" /\ OfRow(b) /\ UNCHANGED <<order, world, past>>
  BY <1>0 DEF Mid, Told, Prior, At
<1>2. PICK n \in Nat : n = Finalized
  BY SumsAreNaturals DEF Mid, IInv
<1> DEFINE c == [b EXCEPT !.prior = n, !.at = "pre"]
<1>3. c \in Call /\ c.at = "pre" /\ c.k = b.k /\ c.m = b.m /\ c.op = b.op
      /\ c.manual = b.manual /\ c.amount = b.amount
  BY DEF Call, Steps
<1>4. Become(p, c)
  BY <1>0, <1>2 DEF Prior
<1> HIDE DEF c
<1>5. OfRow(c)
  BY <1>1, <1>3 DEF OfRow, Asking, Inserted
<1>6. OfRow(c)'
  BY <1>1, <1>5, QuietlyOn, RowSame
<1> QED BY <1>0, <1>1, <1>3, <1>4, <1>6, QuietlyOn, WithinOn DEF Warned, Refunding, Asking

LEMMA PreOn == ASSUME Mid, NEW p \in Callers, Pre(p) PROVE Told'
<1>0. PICK b \in Call : b = call[p]
  BY Called DEF Mid
<1>1. b.at = "pre" /\ OfRow(b) /\ UNCHANGED <<order, world, past>>
  BY <1>0 DEF Mid, Told, Pre, At
<1>2. CASE \E got \in {"retryable", "notStarted"} : Answer(p, got)
  BY <1>0, <1>1, <1>2, QuietlyOn, AnswerOn DEF Answers, Inserted
<1>3. ASSUME NEW got \in Answers \ {"terminal"}, NEW at \in {"void", "mark", "post"},
             Become(p, [b EXCEPT !.got = got, !.at = at])
      PROVE  Told'
  <2> DEFINE c == [b EXCEPT !.got = got, !.at = at]
  <2>1. c \in Call /\ c.at = at /\ c.got = got /\ c.k = b.k /\ c.m = b.m /\ c.op = b.op
        /\ c.manual = b.manual /\ c.amount = b.amount
    BY DEF Call, Steps
  <2> HIDE DEF c
  <2>2. OfRow(c)
    BY <1>1, <1>3, <2>1 DEF OfRow, Asking, Inserted
  <2>3. OfRow(c)'
    BY <1>1, <2>2, QuietlyOn, RowSame
  <2> QED BY <1>0, <1>1, <1>3, <2>1, <2>3, QuietlyOn, WithinOn
          DEF c, Warned, Refunding, Asking, Inserted
<1>4. CASE Become(p, [b EXCEPT !.at = "void", !.got = "denied"])
  <2>1. [b EXCEPT !.at = "void", !.got = "denied"] = [b EXCEPT !.got = "denied", !.at = "void"]
    BY DEF Call
  <2> QED BY <1>3, <1>4, <2>1 DEF Answers
<1>5. CASE Become(p, [b EXCEPT !.got = "already", !.at = IF b.created THEN "void" ELSE "mark"])
  BY <1>3, <1>5 DEF Answers
<1>6. CASE Goto(p, "post")
  <2> DEFINE c == [b EXCEPT !.at = "post"]
  <2>1. c \in Call /\ c.at = "post" /\ c.k = b.k /\ c.m = b.m /\ c.op = b.op
        /\ c.manual = b.manual /\ c.amount = b.amount
    BY DEF Call, Steps
  <2>2. Become(p, c)
    BY <1>0, <1>6 DEF Goto, Become
  <2> HIDE DEF c
  <2>3. OfRow(c)
    BY <1>1, <2>1 DEF OfRow, Asking, Inserted
  <2>4. OfRow(c)'
    BY <1>1, <2>3, QuietlyOn, RowSame
  <2> QED BY <1>0, <1>1, <2>1, <2>2, <2>4, QuietlyOn, WithinOn DEF Warned, Refunding, Asking
<1> QED BY <1>0, <1>2, <1>4, <1>5, <1>6 DEF Pre

LEMMA PostOn == ASSUME Mid, NEW p \in Callers, Post(p) PROVE Told'
<1>0. PICK b \in Call : b = call[p]
  BY Called DEF Mid
<1>1. /\ b.at = "post" /\ b.k \in Keys /\ OfRow(b) /\ b.amount > 0
      /\ UNCHANGED <<order, outside, acked, handled, misread>> /\ row \in [Keys -> Row]
  BY <1>0, Called, IsTyped
  DEF Mid, Told, Post, At, CallKnows, Keyed, Typed, OfRow, Asking
<1>2. /\ row' = row /\ captured' = captured /\ handled' = handled /\ misread' = misread
      /\ flag' = flag /\ st' = st /\ acked' = acked
  BY <1>1 DEF order
<1>3. row[b.k].st \in Active \/ b.k \in misread \/ Rejected(b.k)
  <2>1. row[b.k].st \in RowStates
    BY <1>1 DEF Row
  <2> QED BY <1>1, <2>1 DEF OfRow, Asking, Inserted, Rowless, RowStates, Active
<1>4. /\ issued \subseteq issued' /\ \A i \in issued' \ issued : i[1] = b.k
      /\ Issued(b.k)' => ~Rejected(b.k)'
      /\ Issued(b.k)' => row[b.k].st \in Active \/ b.k \in misread
      /\ Issued(b.k) => Issued(b.k)'
  <2>0. Matched(b.k)
    BY <1>1 DEF Mid, Told
  <2>1. CASE issued' = issued
    BY <2>0, <2>1 DEF Issued, Rejected, Matched
  <2>2. CASE ~Rejected(b.k) /\ issued' = issued \cup {<<b.k, b.m, b.amount>>}
    <3>1. ~Rejected(b.k)'
      BY <1>1, <2>2 DEF Rejected
    <3> QED BY <1>3, <2>2, <3>1 DEF Issued
  <2>3. CASE ~Issued(b.k) /\ issued' = issued \cup {<<b.k, b.m, 0>>}
    <3>1. ~Issued(b.k)'
      BY <2>3 DEF Issued
    <3> QED BY <2>3, <3>1
  <2> QED BY <1>0, <2>1, <2>2, <2>3 DEF Post
<1>5. Onward
  <2>1. \A k \in Keys : RowOn(k)
    BY <1>2 DEF RowOn, Used
  <2>2. \A m \in captured : Covered(m) => Covered(m)'
    BY <1>2, FlagStays
  <2> QED BY <1>2, <1>4, <2>1, <2>2 DEF Onward
<1>6. ASSUME NEW k \in Keys PROVE Matched(k)'
  <2>1. Matched(k)
    BY DEF Mid, Told
  <2>2. CASE k = b.k
    BY <1>2, <1>4, <2>1, <2>2 DEF Matched
  <2>3. CASE k # b.k
    <3>1. (Issued(k)' <=> Issued(k)) /\ (Rejected(k)' <=> Rejected(k))
      BY <1>4, <2>3 DEF Issued, Rejected
    <3> QED BY <1>2, <2>1, <3>1 DEF Matched
  <2> QED BY <2>2, <2>3
<1>7. ASSUME NEW at \in {"finalize", "void", "mark"}, NEW got \in Answers,
             Become(p, [b EXCEPT !.at = at, !.got = got]),
             at = "finalize" => Issued(b.k)',
             at = "void" /\ got = "terminal" => Rejected(b.k)'
      PROVE  Told'
  <2> DEFINE c == [b EXCEPT !.at = at, !.got = got]
  <2>1. c \in Call /\ c.at = at /\ c.got = got /\ c.k = b.k /\ c.m = b.m /\ c.op = b.op
        /\ c.manual = b.manual
    BY DEF Call, Steps
  <2>2. Become(p, c)
    BY <1>7
  <2> HIDE DEF c
  <2>3. OfRow(c)'
    BY <1>1, <1>2, <1>7, <2>1 DEF OfRow, Asking, Inserted
  <2> QED BY <1>0, <1>1, <1>2, <1>5, <1>6, <2>1, <2>2, <2>3, WithinOn
          DEF Warned, Refunding, Asking, Inserted
<1>8. CASE Answer(p, "retryable")
  BY <1>0, <1>1, <1>2, <1>5, <1>6, <1>8, AnswerOn DEF Answers, Inserted
<1>9. CASE Become(p, [b EXCEPT !.at = "mark", !.got = "unverified"])
  BY <1>7, <1>9 DEF Answers
<1>10. CASE /\ Become(p, [b EXCEPT !.at = "finalize"])
            /\ Issued(b.k) \/ issued' = issued \cup {<<b.k, b.m, b.amount>>}
  <2>1. Issued(b.k)'
    <3> DEFINE i == <<b.k, b.m, b.amount>>
    <3>1. i[1] = b.k /\ i[3] = b.amount
      OBVIOUS
    <3>2. CASE i \in issued'
      BY <1>1, <3>1, <3>2 DEF Issued
    <3> QED BY <1>4, <1>10, <3>2
  <2>2. [b EXCEPT !.at = "finalize"] = [b EXCEPT !.at = "finalize", !.got = b.got]
        /\ b.got \in Answers
    BY DEF Call
  <2> QED BY <1>7, <1>10, <2>1, <2>2
<1>11. CASE /\ Become(p, [b EXCEPT !.at = "void", !.got = "terminal"])
            /\ issued' = IF Rejected(b.k) THEN issued ELSE issued \cup {<<b.k, b.m, 0>>}
  <2>1. Rejected(b.k)'
    <3> DEFINE i == <<b.k, b.m, 0>>
    <3>1. i[1] = b.k /\ i[3] = 0
      OBVIOUS
    <3>2. CASE i \in issued'
      BY <3>1, <3>2 DEF Rejected
    <3>3. CASE Rejected(b.k) /\ issued' = issued
      BY <3>3 DEF Rejected
    <3> QED BY <1>11, <3>2, <3>3
  <2> QED BY <1>7, <1>11, <2>1 DEF Answers
<1>12. CASE Become(p, [b EXCEPT !.at = "void", !.got = "mismatch"])
  BY <1>7, <1>12 DEF Answers
<1> QED BY <1>0, <1>8, <1>9, <1>10, <1>11, <1>12 DEF Post

LEMMA VoidOn == ASSUME Mid, NEW p \in Callers, Void(p) PROVE Told'
<1>0. PICK b \in Call : b = call[p]
  BY Called DEF Mid
<1> DEFINE voids == row[b.k].st = "reserved"
<1>1. /\ b.at = "void" /\ b.k \in Keys /\ OfRow(b) /\ row \in [Keys -> Row]
      /\ UNCHANGED <<st, captured, first, winner, flag, retry, world, acked, handled, unheard>>
  BY <1>0, Called, IsTyped DEF Mid, Told, Void, At, CallKnows, Keyed, Typed
<1>2. /\ \A j \in Keys \ {b.k} : row'[j] = row[j]
      /\ IF voids THEN row'[b.k].st = "voided" /\ row'[b.k].amount = row[b.k].amount
                  ELSE row' = row
      /\ misread' = IF voids /\ b.got # "terminal" THEN misread \cup {b.k} ELSE misread
  BY <1>0, <1>1 DEF Void, PutRow, Row
<1>3. issued' = issued /\ misread \subseteq misread' /\ misread' \subseteq misread \cup {b.k}
      /\ (b.got = "terminal" => Rejected(b.k))
  BY <1>1, <1>2 DEF world, OfRow
<1>4. RowOn(b.k) /\ Matched(b.k)'
  <2>1. Matched(b.k) /\ Used(b.k)
    BY <1>0, <1>1 DEF Mid, Told, Used
  <2> QED BY <1>1, <1>2, <1>3, <2>1, AnswersSame DEF RowOn, Matched, Active, Rowless
<1>5. Onward /\ \A j \in Keys : Matched(j)'
  BY <1>1, <1>2, <1>3, <1>4, RowPutOn
<1>6. CASE Answer(p, "terminal")
  BY <1>0, <1>1, <1>5, <1>6, AnswerOn DEF Answers, Inserted
<1>7. CASE Goto(p, "flagProvider")
  <2> DEFINE c == [b EXCEPT !.at = "flagProvider"]
  <2>1. c \in Call /\ c.at = "flagProvider" /\ c.k = b.k /\ c.m = b.m /\ c.op = b.op
        /\ c.manual = b.manual
    BY DEF Call, Steps
  <2>2. Become(p, c)
    BY <1>0, <1>7 DEF Goto, Become
  <2> HIDE DEF c
  <2>3. OfRow(c)'
    BY <1>1, <1>2, <2>1 DEF OfRow, Asking, Inserted, Rowless
  <2> QED BY <1>0, <1>1, <1>5, <2>1, <2>2, <2>3, WithinOn DEF Warned, Refunding, Inserted
<1> QED BY <1>6, <1>7 DEF Void

LEMMA MarkOn == ASSUME Mid, NEW p \in Callers, Mark(p) PROVE Told'
<1>0. PICK b \in Call : b = call[p]
  BY Called DEF Mid
<1>1. /\ b.at = "mark" /\ b.k \in Keys /\ OfRow(b) /\ row \in [Keys -> Row]
      /\ UNCHANGED <<st, captured, first, winner, flag, retry, world, past>>
  BY <1>0, Called, IsTyped DEF Mid, Told, Mark, At, CallKnows, Keyed, Typed
<1>2. issued' = issued /\ misread' = misread /\ handled' = handled /\ acked' = acked
  BY <1>1 DEF world, past
<1>3. /\ \A j \in Keys \ {b.k} : row'[j] = row[j]
      /\ \/ /\ row[b.k].st = "reserved" /\ row'[b.k].st = "unverified"
            /\ row'[b.k].amount = row[b.k].amount
         \/ row' = row
  BY <1>0, <1>1 DEF Mark, PutRow, Row
<1>4. RowOn(b.k) /\ Matched(b.k)'
  <2>1. Matched(b.k) /\ Used(b.k)
    BY <1>0, <1>1 DEF Mid, Told, Used
  <2> QED BY <1>1, <1>2, <1>3, <2>1, AnswersSame DEF RowOn, Matched, Active, Rowless
<1>5. Onward /\ \A j \in Keys : Matched(j)'
  BY <1>1, <1>2, <1>3, <1>4, RowPutOn
<1>6. ASSUME NEW got \in Answers, Answer(p, got), got = "ok" => row'[b.k].st = "recorded"
      PROVE  Told'
  BY <1>0, <1>1, <1>2, <1>5, <1>6, AnswerOn DEF Inserted
<1>7. CASE Goto(p, "flagCheck")
  <2> DEFINE c == [b EXCEPT !.at = "flagCheck"]
  <2>1. c \in Call /\ c.at = "flagCheck" /\ c.k = b.k /\ c.m = b.m /\ c.op = b.op
        /\ c.manual = b.manual
    BY DEF Call, Steps
  <2>2. Become(p, c)
    BY <1>0, <1>7 DEF Goto, Become
  <2> HIDE DEF c
  <2>3. OfRow(c)'
    BY <1>1, <1>3, <2>1 DEF OfRow, Asking, Inserted, Rowless
  <2> QED BY <1>0, <1>1, <1>2, <1>5, <2>1, <2>2, <2>3, WithinOn DEF Warned, Refunding, Inserted
<1>8. \A s : Said(s) = "ok" => s = "recorded"
  BY DEF Said
<1>9. \/ Answer(p, "unverified") \/ Goto(p, "flagCheck")
      \/ row' = row /\ Answer(p, Said(row[b.k].st))
  BY <1>0 DEF Mark
<1> QED BY <1>6, <1>7, <1>8, <1>9, Said1 DEF Answers

LEMMA FlagProviderOn == ASSUME Mid, NEW p \in Callers, FlagProvider(p) PROVE Told'
<1>1. /\ call[p].at = "flagProvider" /\ Answer(p, "already")
      /\ UNCHANGED <<st, captured, first, winner, row, retry, world, past>>
      /\ flag' = flag \/ flag \in {NoFlag, <<"provider">>}
  BY DEF FlagProvider, At
<1>2. issued' = issued /\ misread' = misread /\ handled' = handled /\ acked' = acked
  BY <1>1 DEF world, past
<1>3. \A m \in captured : Covered(m) => Covered(m)'
  BY <1>1, <1>2, FlagStays, FreeFlag
<1>4. Onward /\ \A k \in Keys : Matched(k)'
  BY <1>1, <1>2, <1>3, BesideOn
<1> QED BY <1>1, <1>2, <1>4, AnswerOn DEF Answers, Inserted

LEMMA FlagRowOn == ASSUME Mid, NEW p \in Callers, FlagRow(p) PROVE Told'
<1>1. /\ call[p].at \in {"flagCheck", "flagLost"}
      /\ UNCHANGED <<st, captured, first, winner, row, retry, world, acked, misread, unheard>>
      /\ \E got \in Answers \ {"ok"} : Answer(p, got)
  BY DEF FlagRow, Answers
<1>2. issued' = issued /\ misread' = misread /\ acked' = acked
  BY <1>1 DEF world
<1>3. handled \subseteq handled' /\ \A m \in captured : Covered(m) => Covered(m)'
  <2>1. PICK kind \in {"check", "lost"} : Raise(<<kind, call[p].k>>)
    BY DEF FlagRow
  <2> QED BY <1>1, <2>1, RaiseKeeps DEF NoFlag
<1>4. Onward /\ \A k \in Keys : Matched(k)'
  BY <1>1, <1>2, <1>3, BesideOn
<1> QED BY <1>1, <1>2, <1>4, AnswerOn DEF Inserted

LEMMA FinalizeOn == ASSUME Mid, NEW p \in Callers, Finalize(p) PROVE Told'
<1>0. PICK b \in Call : b = call[p]
  BY Called DEF Mid
<1>1. /\ b.at = "finalize" /\ b.k \in Keys /\ OfRow(b) /\ row \in [Keys -> Row]
      /\ UNCHANGED <<captured, first, winner, flag, retry, world, past>>
  BY <1>0, Called, IsTyped DEF Mid, Told, Finalize, At, CallKnows, Keyed, Typed
<1>2. issued' = issued /\ misread' = misread /\ handled' = handled /\ acked' = acked
      /\ Issued(b.k)
  BY <1>1 DEF world, past, OfRow
<1>3. CASE /\ row[b.k].st \in {"reserved", "unverified"}
           /\ PutRow(b.k, "recorded") /\ st' = Closed(b.k) /\ Answer(p, "ok")
  <2>1. /\ \A j \in Keys \ {b.k} : row'[j] = row[j]
        /\ row'[b.k].st = "recorded" /\ row'[b.k].amount = row[b.k].amount
    BY <1>1, <1>3 DEF PutRow, Row
  <2>2. (st' = "pending" => st = "pending") /\ (st' \in Early => st \in Early)
    BY <1>3 DEF Closed, Early, Unpaid
  <2>3. RowOn(b.k) /\ Matched(b.k)'
    <3>1. Matched(b.k) /\ Used(b.k)
      BY <1>0, <1>1 DEF Mid, Told, Used
    <3> QED BY <1>1, <1>2, <1>3, <2>1, <3>1, AnswersSame DEF RowOn, Matched, Active, Rowless
  <2>4. Onward /\ \A j \in Keys : Matched(j)'
    BY <1>1, <1>2, <2>1, <2>2, <2>3, RowPutOn
  <2> QED BY <1>0, <1>1, <1>2, <1>3, <2>1, <2>4, AnswerOn DEF Answers, Inserted
<1>4. CASE UNCHANGED <<row, st>> /\ row[b.k].st = "recorded" /\ Answer(p, "ok")
  <2>1. UNCHANGED <<order, world, past>>
    BY <1>1, <1>4 DEF order
  <2> QED BY <1>0, <1>1, <1>4, <2>1, QuietlyOn, AnswerOn DEF Answers, Inserted
<1>5. CASE UNCHANGED <<row, st>> /\ Goto(p, "flagLost")
  <2>1. UNCHANGED <<order, world, past>>
    BY <1>1, <1>5 DEF order
  <2> DEFINE c == [b EXCEPT !.at = "flagLost"]
  <2>2. c \in Call /\ c.at = "flagLost" /\ c.k = b.k /\ c.m = b.m /\ c.op = b.op
        /\ c.manual = b.manual
    BY DEF Call, Steps
  <2>3. Become(p, c)
    BY <1>0, <1>5 DEF Goto, Become
  <2> HIDE DEF c
  <2>4. OfRow(c)
    BY <1>1, <1>2, <2>2 DEF OfRow, Asking, Inserted
  <2>5. OfRow(c)'
    BY <2>1, <2>4, QuietlyOn, RowSame
  <2> QED BY <1>0, <1>1, <2>1, <2>2, <2>3, <2>5, QuietlyOn, WithinOn
          DEF Warned, Refunding, Inserted
<1> QED BY <1>0, <1>3, <1>4, <1>5 DEF Finalize

-----------------------------------------------------------------------------
(* Calls that start *)

LEMMA NotClick == ASSUME NEW k, k[1] # "click" PROVE Earlier(k) = {}
BY DEF Earlier, ClickKeys, ClickKey

LEMMA OtherKeys ==
  /\ \A m : LateKey(m)[1] = "late"
  /\ \A n : CancelKey(n)[1] = "cancel"
BY DEF LateKey, CancelKey

\* The keys of a refund are voided in their order, so their number is the next one.
LEMMA SpentInOrder ==
  ASSUME IInv, Told, NEW a \in 1..Total, NEW s \in 0..Total, NEW n \in 0..Tries,
         n < Cardinality({x \in 0..Tries : row[ClickKey(a, s, x)].st = "voided"})
  PROVE  row[ClickKey(a, s, n)].st = "voided"
<1> DEFINE V == {x \in 0..Tries : row[ClickKey(a, s, x)].st = "voided"}
<1>1. SUFFICES ASSUME row[ClickKey(a, s, n)].st # "voided" PROVE FALSE
  OBVIOUS
<1>2. ASSUME NEW x \in V PROVE x \in 0..(n - 1)
  <2>1. x \in Nat /\ n \in Nat /\ x # n
    BY <1>1, <1>2, TotalAssumption
  <2>2. CASE n < x
    <3> DEFINE k == ClickKey(a, s, x)
               j == ClickKey(a, s, n)
    <3>1. k \in ClickKeys /\ j \in ClickKeys /\ k \in Keys
      BY <1>2 DEF ClickKeys, Keys
    <3>2. k[2] = a /\ k[3] = s /\ k[4] = x /\ j[2] = a /\ j[3] = s /\ j[4] = n
      BY DEF ClickKey
    <3>3. j \in Earlier(k)
      BY <2>2, <3>1, <3>2 DEF Earlier
    <3>4. Used(k)
      BY <1>2 DEF Used
    <3>5. row[j].st = "voided"
      BY <3>1, <3>3, <3>4 DEF Told, InOrder
    <3> QED BY <1>1, <3>5
  <2> QED BY <2>1, <2>2
<1>3. IsFiniteSet(0..(n - 1)) /\ Cardinality(0..(n - 1)) <= n
  <2>1. n \in Nat /\ 0 \in Int /\ n - 1 \in Int
    BY TotalAssumption
  <2>2. IsFiniteSet(0..(n - 1))
        /\ Cardinality(0..(n - 1)) = IF 0 > n - 1 THEN 0 ELSE n - 1 - 0 + 1
    BY <2>1, FS_Interval
  <2> QED BY <2>1, <2>2
<1>4. V \in SUBSET (0..(n - 1))
  BY <1>2
<1>5. Cardinality(V) <= Cardinality(0..(n - 1)) /\ Cardinality(V) \in Nat
      /\ Cardinality(0..(n - 1)) \in Nat
  BY <1>3, <1>4, FS_Subset, FS_CardinalityType
<1> HIDE DEF V
<1>6. n < Cardinality(V)
  BY DEF V
<1> QED BY <1>3, <1>5, <1>6, TotalAssumption

LEMMA ClickOn == ASSUME Mid, NEW p \in Callers, NEW a \in 1..Total, Click(p, a) PROVE Told'
<1>1. PICK s \in 0..Total : s = Finalized
  BY SumsAreNaturals, TotalAssumption DEF Mid, IInv, RefundsWithinCeiling
<1>0. Spent(a) \in 0..Tries
  <2> DEFINE V == {x \in 0..Tries : row[ClickKey(a, Finalized, x)].st = "voided"}
  <2>1. IsFiniteSet(0..Tries) /\ V \in SUBSET (0..Tries)
    BY FS_Interval, TotalAssumption
  <2>2. Cardinality(V) \in Nat
    BY <2>1, FS_Subset, FS_CardinalityType
  <2> QED BY <2>2, TotalAssumption DEF Spent, Click
<1>2. PICK n \in 0..Tries : n = Spent(a)
  BY <1>0
<1>3. n = Cardinality({x \in 0..Tries : row[ClickKey(a, s, x)].st = "voided"})
  BY <1>1, <1>2 DEF Spent
<1> DEFINE k == ClickKey(a, s, n)
<1>4. k \in Keys
  BY DEF Keys, ClickKeys
<1>5. ASSUME NEW j \in Earlier(k) PROVE row[j].st = "voided"
  <2>1. PICK b \in 1..Total, t \in 0..Total, x \in 0..Tries : j = ClickKey(b, t, x)
    BY <1>5 DEF Earlier, ClickKeys
  <2>2. b = a /\ t = s /\ x < n
    BY <1>5, <2>1 DEF Earlier, ClickKey
  <2>3. row[ClickKey(a, s, x)].st = "voided"
    BY <1>3, <2>2, SpentInOrder DEF Mid
  <2> QED BY <2>1, <2>2, <2>3
<1> HIDE DEF k
<1>6. PICK manual \in BOOLEAN :
        Become(p, [Idle EXCEPT !.op = "click", !.at = "read", !.amount = a, !.k = k,
                               !.manual = manual])
  BY <1>1, <1>2 DEF Click, k
<1> DEFINE c == [Idle EXCEPT !.op = "click", !.at = "read", !.amount = a, !.k = k,
                             !.manual = manual]
<1>7. c \in Call /\ c.at = "read" /\ c.k = k /\ c.op = "click" /\ c.amount = a
  <2>1. Idle \in Call /\ a \in Nat
    BY IdleTyped, TotalAssumption
  <2> QED BY <1>4, <2>1 DEF Call, Ops, Steps
<1>8. Become(p, c) /\ UNCHANGED <<order, world, past>>
  BY <1>6 DEF Click
<1> HIDE DEF c
<1>9. OfRow(c) /\ OfPayment(c)
  BY <1>7, TotalAssumption DEF OfRow, OfPayment, Asking, Inserted
<1> QED BY <1>5, <1>7, <1>8, <1>9, Quietly

LEMMA DeliverOn == ASSUME Mid, NEW p \in Callers, NEW m \in Payments, Deliver(p, m) PROVE Told'
<1>1. PICK manual \in BOOLEAN, at \in Steps, f \in Flags :
        /\ Become(p, [Idle EXCEPT !.op = "settle", !.at = at, !.m = m, !.seen = f,
                                  !.manual = manual])
        /\ at = Arm
  <2>1. flag \in Flags /\ Arm \in Steps
    BY IsTyped, ArmTyped DEF Mid, Typed, Steps
  <2> QED BY <2>1 DEF Deliver
<1> DEFINE c == [Idle EXCEPT !.op = "settle", !.at = at, !.m = m, !.seen = f, !.manual = manual]
<1>2. c \in Call /\ c.at = at /\ c.op = "settle" /\ c.k = None
  BY IdleTyped DEF Call, Ops, Idle
<1>3. Become(p, c) /\ UNCHANGED <<order, world, past>>
  BY <1>1 DEF Deliver
<1> HIDE DEF c
<1>4. OfRow(c) /\ OfPayment(c)
  BY <1>1, <1>2 DEF Arm, OfRow, OfPayment, Asking, Inserted, Warned, Refunding, Early, Unpaid
<1> QED BY <1>2, <1>3, <1>4, Quietly

LEMMA RetryOn == ASSUME Mid, NEW p \in Callers, NEW m \in Payments, Retry(p, m) PROVE Told'
<1> DEFINE k == LateKey(m)
<1>1. k \in Keys /\ Earlier(k) = {}
  BY LateKeys1, NotClick, OtherKeys
<1>2. PICK n \in Nat, a \in Nat, f \in Flags : n = Finalized /\ a = row[k].amount /\ f = flag
  BY <1>1, SumsAreNaturals, IsTyped DEF Mid, IInv, Typed, Row
<1> DEFINE d == [Idle EXCEPT !.op = "retry", !.k = k, !.m = m, !.amount = a, !.seen = f,
                             !.prior = n]
<1>3. d \in Call /\ d.op = "retry" /\ d.k = k /\ d.m = m /\ ~d.manual /\ d.amount = a
  <2>1. Idle \in Call
    BY IdleTyped
  <2> QED BY <1>1, <2>1 DEF Call, Ops, Idle
<1>4. /\ UNCHANGED <<order, world, past>>
      /\ \/ row[k].st = "recorded" /\ Become(p, [d EXCEPT !.at = "resolve"])
         \/ Become(p, [d EXCEPT !.at = "unschedule"])
         \/ row[k].st = "reserved"
              /\ \E at \in {"pre", "giveUp", "after"} :
                   Become(p, [d EXCEPT !.at = at, !.got = "retryable"])
  BY <1>2 DEF Retry
<1> HIDE DEF d
<1>5. ASSUME NEW c \in Call, Become(p, c), c.op = "retry", c.k = k, c.m = m, ~c.manual,
             c.amount = a, c.at \in {"resolve", "unschedule", "pre", "giveUp", "after"},
             c.at = "resolve" => row[k].st = "recorded", c.at = "pre" => row[k].st = "reserved"
      PROVE  Told'
  <2>1. Matched(k)
    BY <1>1 DEF Mid, Told
  <2>2. OfRow(c)
    BY <1>2, <1>5, <2>1 DEF OfRow, Matched, Asking, Inserted, Rowless
  <2>3. OfPayment(c)
    BY <1>5 DEF OfPayment
  <2> QED BY <1>1, <1>4, <1>5, <2>2, <2>3, Quietly
<1> HIDE DEF k
<1>6. CASE row[k].st = "recorded" /\ Become(p, [d EXCEPT !.at = "resolve"])
  <2>1. [d EXCEPT !.at = "resolve"] \in Call
    BY <1>3 DEF Call, Steps
  <2> QED BY <1>3, <1>5, <1>6, <2>1 DEF Call
<1>7. CASE Become(p, [d EXCEPT !.at = "unschedule"])
  <2>1. [d EXCEPT !.at = "unschedule"] \in Call
    BY <1>3 DEF Call, Steps
  <2> QED BY <1>3, <1>5, <1>7, <2>1 DEF Call
<1>8. ASSUME NEW at \in {"pre", "giveUp", "after"}, row[k].st = "reserved",
             Become(p, [d EXCEPT !.at = at, !.got = "retryable"])
      PROVE  Told'
  <2>1. [d EXCEPT !.at = at, !.got = "retryable"] \in Call
    BY <1>3, ZenonT(60) DEF Call, Steps, Answers
  <2> QED BY <1>3, <1>5, <1>8, <2>1 DEF Call
<1> QED BY <1>4, <1>6, <1>7, <1>8

LEMMA ConfirmOn == ASSUME Mid, NEW p \in Callers, NEW k \in Keys, Confirm(p, k) PROVE Told'
<1>1. PICK to \in {"recorded", "voided"}, got \in {"ok", "terminal"}, f \in Flags :
        /\ (to = "recorded") <=> Issued(k)
        /\ (got = "ok") <=> Issued(k)
        /\ f = flag
        /\ row' = [row EXCEPT ![k].st = to, ![k].by = "operator"]
        /\ Become(p, [Idle EXCEPT !.op = "hand", !.at = "clear", !.k = k, !.seen = flag,
                                  !.got = got])
  <2>1. flag \in Flags
    BY IsTyped DEF Mid, Typed
  <2>2. CASE Issued(k)
    BY <2>1, <2>2 DEF Confirm
  <2>3. CASE ~Issued(k)
    BY <2>1, <2>3 DEF Confirm
  <2> QED BY <2>2, <2>3
<1>2. /\ row[k].st = "unverified" /\ \A q \in Callers : call[q].k # k
      /\ UNCHANGED <<captured, first, winner, flag, retry, world, past>>
      /\ row \in [Keys -> Row] /\ st' \in {st, Closed(k)}
  BY IsTyped DEF Mid, Typed, Confirm
<1>3. /\ \A j \in Keys \ {k} : row'[j] = row[j]
      /\ row'[k].st = to /\ row'[k].amount = row[k].amount
  BY <1>1, <1>2 DEF Row
<1>4. issued' = issued /\ misread' = misread /\ handled' = handled /\ acked' = acked
  BY <1>2 DEF world, past
<1>5. (st' = "pending" => st = "pending") /\ (st' \in Early => st \in Early)
  BY <1>2 DEF Closed, Early, Unpaid
<1>6. RowOn(k) /\ Matched(k)'
  <2>1. Matched(k)
    BY DEF Mid, Told
  <2>2. Used(k)
    BY <1>2 DEF Used
  <2> QED BY <1>1, <1>2, <1>3, <1>4, <2>1, <2>2, AnswersSame DEF RowOn, Matched, Active, Rowless
<1>7. Onward /\ \A j \in Keys : Matched(j)'
  BY <1>2, <1>3, <1>4, <1>5, <1>6, RowPutOn
<1> DEFINE c == [Idle EXCEPT !.op = "hand", !.at = "clear", !.k = k, !.seen = f, !.got = got]
<1>8. c \in Call
  BY HandCall
<1>9. c.op = "hand" /\ c.at = "clear" /\ c.k = k /\ c.got = got
  BY DEF Idle
<1>10. Become(p, c)
  BY <1>1
<1> HIDE DEF c
<1>11. OfRow(c)' /\ OfPayment(c)'
  BY <1>1, <1>3, <1>9 DEF OfRow, OfPayment, Asking, Inserted
<1>12. \A j \in Earlier(c.k) : row[j].st = "voided"
  BY <1>2, <1>9 DEF Mid, Told, InOrder, Used
<1> QED BY <1>4, <1>7, <1>8, <1>10, <1>11, <1>12, ToldFrame DEF Become

\* A step of nobody's.
LEMMA ToldOutside ==
  ASSUME Mid, call' = call, Onward, \A k \in Keys : Matched(k)', acked' = acked
  PROVE  Told'
<1> DEFINE P == {}
<1>1. P \in SUBSET Callers /\ \A q \in Callers \ P : call'[q] = call[q]
  OBVIOUS
<1>2. \A q \in P : FALSE
  OBVIOUS
<1> HIDE DEF P
<1> QED BY <1>1, <1>2, ToldLasts

LEMMA CancelOn == ASSUME Mid, NEW p \in Callers, Cancel(p) PROVE Told'
<1>0. UNCHANGED <<captured, first, winner, row, flag, retry, world, past>>
  BY DEF Cancel
<1>1. row' = row /\ issued' = issued /\ misread' = misread /\ handled' = handled /\ flag' = flag
      /\ acked' = acked /\ captured' = captured
  BY <1>0 DEF world, past
<1>2. CASE st = "pending" /\ st' = "dropped" /\ UNCHANGED call
  <2>1. Onward /\ \A k \in Keys : Matched(k)'
    BY <1>1, <1>2, FlagStays, BesideOn DEF Early
  <2> QED BY <1>1, <1>2, <2>1, ToldOutside
<1>3. ASSUME NEW manual \in BOOLEAN, UNCHANGED st,
             Become(p, [Idle EXCEPT !.op = "cancel", !.at = "key", !.manual = manual])
      PROVE  Told'
  <2> DEFINE c == [Idle EXCEPT !.op = "cancel", !.at = "key", !.manual = manual]
  <2>1. c \in Call /\ c.at = "key" /\ c.op = "cancel" /\ c.k = None
    BY IdleTyped DEF Call, Ops, Steps, Idle
  <2>2. UNCHANGED <<order, world, past>>
    BY <1>0, <1>3 DEF order
  <2>3. Become(p, c)
    BY <1>3
  <2> HIDE DEF c
  <2>4. OfRow(c) /\ OfPayment(c)
    BY <2>1 DEF OfRow, OfPayment, Asking, Inserted
  <2> QED BY <2>1, <2>2, <2>3, <2>4, Quietly
<1> QED BY <1>2, <1>3 DEF Cancel

-----------------------------------------------------------------------------
(* settleOrder and the late payments *)

\* What a settle call's step leaves alone.
Aside == row' = row /\ issued' = issued /\ misread' = misread

\* A settle call goes on, and what it knows is told anew.
LEMMA GoOn ==
  ASSUME Mid, NEW p \in Callers, NEW b \in Call, b = call[p], NEW at \in Steps, Goto(p, at),
         Onward, \A k \in Keys : Matched(k)', acked' = acked,
         OfRow([b EXCEPT !.at = at])', OfPayment([b EXCEPT !.at = at])'
  PROVE  Told'
<1> DEFINE c == [b EXCEPT !.at = at]
<1>1. c \in Call /\ c.k = b.k
  BY DEF Call
<1>2. call' = [call EXCEPT ![p] = c]
  BY DEF Goto
<1>3. OfRow(c)' /\ OfPayment(c)'
  OBVIOUS
<1> HIDE DEF c
<1> QED BY <1>1, <1>2, <1>3, ToldFrame

LEMMA FlipOn == ASSUME Mid, NEW p \in Callers, Flip(p) PROVE Told'
<1>0. PICK b \in Call : b = call[p]
  BY Called DEF Mid
<1>1. /\ b.at = "flip" /\ OfPayment(b)
      /\ UNCHANGED <<captured, first, row, flag, retry, world, past>>
  BY <1>0 DEF Mid, Told, Flip, At
<1>2. issued' = issued /\ misread' = misread /\ handled' = handled /\ acked' = acked
  BY <1>1 DEF world, past
<1>3. PICK at \in {"record", "lost"} :
        /\ Goto(p, at) /\ st' # "pending" /\ (st' \in Early => st \in Early)
        /\ at = "record" => st' = "paid"
  BY <1>1 DEF Flip, Early, Unpaid
<1>4. Onward /\ \A k \in Keys : Matched(k)'
  BY <1>1, <1>2, <1>3, FlagStays, BesideOn
<1> DEFINE c == [b EXCEPT !.at = at]
<1>5. c.at = at /\ c.op = b.op /\ c.k = b.k /\ c.m = b.m /\ c.manual = b.manual
  BY DEF Call
<1> HIDE DEF c
<1>6. OfRow(c)' /\ OfPayment(c)'
  BY <1>1, <1>3, <1>5
  DEF OfRow, OfPayment, Asking, Inserted, Warned, Refunding, Early, Unpaid
<1> QED BY <1>0, <1>2, <1>3, <1>4, <1>6, GoOn DEF c, Steps

LEMMA LostOn == ASSUME Mid, NEW p \in Callers, Lost(p) PROVE Told'
<1>0. PICK b \in Call : b = call[p]
  BY Called DEF Mid
<1>1. b.at = "lost" /\ OfPayment(b) /\ UNCHANGED <<order, world, past>>
  BY <1>0 DEF Mid, Told, Lost, At
<1>2. PICK at \in Steps, f \in Flags : at = Arm /\ f = flag
  BY IsTyped, ArmTyped DEF Mid, Typed, Steps
<1> DEFINE c == [b EXCEPT !.at = at, !.seen = f]
<1>3. c \in Call /\ c.at = at /\ c.op = b.op /\ c.k = b.k /\ c.m = b.m /\ c.manual = b.manual
  BY DEF Call
<1>4. Become(p, c)
  BY <1>0, <1>2 DEF Lost
<1> HIDE DEF c
<1>5. OfRow(c) /\ OfPayment(c)
  BY <1>1, <1>2, <1>3
  DEF Arm, OfRow, OfPayment, Asking, Inserted, Warned, Refunding, Early, Unpaid
<1> QED BY <1>0, <1>1, <1>3, <1>4, <1>5, Quietly

\* The delivery of a payment is answered for good.
LEMMA SettledOn ==
  ASSUME Mid, NEW p \in Callers, Settled(p), Onward, \A k \in Keys : Matched(k)',
         NEW m, m = call[p].m, call[p].op = "settle" => Acked(m)'
  PROVE  Told'
<1>1. \A x \in acked' : x \in acked \/ Acked(x)'
  <2>1. CASE call[p].op = "settle"
    <3>1. acked' = acked \cup {m}
      BY <2>1 DEF Settled
    <3> QED BY <2>1, <3>1
  <2>2. CASE call[p].op # "settle"
    BY <2>2 DEF Settled
  <2> QED BY <2>1, <2>2
<1> QED BY <1>1, ReturnOn DEF Settled

LEMMA SecondOn == ASSUME Mid, NEW p \in Callers, Second(p) PROVE Told'
<1>0. PICK b \in Call : b = call[p]
  BY Called DEF Mid
<1>1. b.at = "second" /\ OfPayment(b) /\ UNCHANGED <<order, world>>
  BY <1>0 DEF Mid, Told, Second, At
<1>2. CASE Settled(p) /\ UNCHANGED handled
  <2>1. Aside /\ captured' = captured /\ st' = st /\ flag' = flag /\ handled' = handled
    BY <1>1, <1>2 DEF order, world, Aside, Settled
  <2>2. Onward /\ \A k \in Keys : Matched(k)'
    BY <2>1, FlagStays, BesideOn DEF Aside
  <2>3. Acked(b.m)'
    BY <1>1, <2>1 DEF OfPayment, Acked, Early
  <2> QED BY <1>0, <1>2, <2>2, <2>3, SettledOn
<1>3. ASSUME NEW at \in {"record", "double"}, Goto(p, at), UNCHANGED past
      PROVE  Told'
  <2>1. UNCHANGED <<order, world, past>> /\ st' = st
    BY <1>1, <1>3 DEF order
  <2> DEFINE c == [b EXCEPT !.at = at]
  <2>2. c.at = at /\ c.op = b.op /\ c.k = b.k /\ c.m = b.m /\ c.manual = b.manual
    BY DEF Call
  <2> HIDE DEF c
  <2>3. OfRow(c)' /\ OfPayment(c)'
    BY <1>1, <1>3, <2>1, <2>2
    DEF OfRow, OfPayment, Asking, Inserted, Warned, Refunding, Early
  <2> QED BY <1>0, <1>3, <2>1, <2>3, QuietlyOn, GoOn DEF c, Steps
<1> QED BY <1>2, <1>3 DEF Second

LEMMA DoubleOn == ASSUME Mid, NEW p \in Callers, Double(p) PROVE Told'
<1>0. PICK b \in Call : b = call[p]
  BY Called DEF Mid
<1>1. /\ b.at = "double" /\ OfPayment(b)
      /\ UNCHANGED <<st, captured, first, winner, row, retry, world>>
      /\ flag' = flag \/ flag = NoFlag
  BY <1>0 DEF Mid, Told, Double, At
<1>2. handled' = handled /\ misread' = misread /\ issued' = issued
  BY <1>1 DEF Double, past, Settled, world
<1>3. Onward /\ \A k \in Keys : Matched(k)'
  <2>1. \A m \in captured : Covered(m) => Covered(m)'
    BY <1>1, <1>2, FlagStays, FreeFlag
  <2> QED BY <1>1, <1>2, <2>1, BesideOn
<1>4. CASE Settled(p)
  <2>1. Acked(b.m)'
    BY <1>1 DEF OfPayment, Acked, Early
  <2> QED BY <1>0, <1>3, <1>4, <2>1, SettledOn
<1>5. CASE Goto(p, "record") /\ UNCHANGED past
  <2> DEFINE c == [b EXCEPT !.at = "record"]
  <2>1. c.at = "record" /\ c.op = b.op /\ c.k = b.k /\ c.m = b.m /\ c.manual = b.manual
    BY DEF Call
  <2> HIDE DEF c
  <2>2. OfRow(c)' /\ OfPayment(c)'
    BY <1>1, <2>1 DEF OfRow, OfPayment, Asking, Inserted, Warned, Refunding, Early
  <2>3. acked' = acked
    BY <1>5 DEF past
  <2> QED BY <1>0, <1>3, <1>5, <2>2, <2>3, GoOn DEF c, Steps
<1> QED BY <1>4, <1>5 DEF Double

LEMMA RecordOn == ASSUME Mid, NEW p \in Callers, Record(p) PROVE Told'
<1>0. PICK b \in Call : b = call[p]
  BY Called DEF Mid
<1>1. /\ b.at = "record" /\ OfPayment(b) /\ Settled(p) /\ captured \subseteq captured'
      /\ UNCHANGED <<st, winner, row, flag, retry, world, handled>>
  BY <1>0 DEF Mid, Told, Record, At, Recorded
<1>2. Aside
  BY <1>1 DEF Aside, world, Settled
<1>3. Onward /\ \A k \in Keys : Matched(k)'
  BY <1>1, <1>2, FlagStays, BesideOn DEF Aside
<1>4. Acked(b.m)'
  BY <1>1 DEF OfPayment, Acked, Early
<1> QED BY <1>0, <1>1, <1>3, <1>4, SettledOn

LEMMA LateRecordOn == ASSUME Mid, NEW p \in Callers, LateRecord(p) PROVE Told'
<1>0. PICK b \in Call : b = call[p]
  BY Called DEF Mid
<1>1. /\ b.at = "lateRecord" /\ OfPayment(b) /\ Goto(p, "late") /\ captured' = captured \cup {b.m}
      /\ UNCHANGED <<st, winner, row, flag, retry, world, past>>
  BY <1>0 DEF Mid, Told, LateRecord, At, Recorded
<1>2. Aside /\ handled' = handled /\ acked' = acked
  BY <1>1 DEF Aside, world, past
<1>3. Onward /\ \A k \in Keys : Matched(k)'
  BY <1>1, <1>2, FlagStays, BesideOn DEF Aside
<1> DEFINE c == [b EXCEPT !.at = "late"]
<1>4. c.at = "late" /\ c.op = b.op /\ c.k = b.k /\ c.m = b.m /\ c.manual = b.manual
  BY DEF Call
<1> HIDE DEF c
<1>5. OfRow(c)' /\ OfPayment(c)'
  BY <1>1, <1>4 DEF OfRow, OfPayment, Asking, Inserted, Warned, Refunding
<1> QED BY <1>0, <1>1, <1>2, <1>3, <1>5, GoOn DEF c, Steps

LEMMA LateOn == ASSUME Mid, NEW p \in Callers, Late(p) PROVE Told'
<1>0. PICK b \in Call : b = call[p]
  BY Called DEF Mid
<1>1. b.at = "late" /\ OfPayment(b) /\ UNCHANGED <<order, world, past>>
  BY <1>0 DEF Mid, Told, Late, At
<1>2. PICK at \in {"ineligible", "finish", "lateFlag"} :
        /\ Goto(p, at)
        /\ at = "finish" => row[LateKey(b.m)].st = "recorded"
        /\ at = "lateFlag" => ~b.manual
  BY <1>0 DEF Late
<1> DEFINE c == [b EXCEPT !.at = at]
<1>3. c \in Call /\ c.at = at /\ c.op = b.op /\ c.k = b.k /\ c.m = b.m /\ c.manual = b.manual
  BY DEF Call, Steps
<1>4. Become(p, c)
  BY <1>0, <1>2 DEF Goto, Become
<1> HIDE DEF c
<1>5. OfRow(c) /\ OfPayment(c)
  BY <1>1, <1>2, <1>3 DEF OfRow, OfPayment, Asking, Inserted, Warned, Refunding, Covered
<1> QED BY <1>0, <1>1, <1>3, <1>4, <1>5, Quietly

LEMMA IneligibleOn == ASSUME Mid, NEW p \in Callers, Ineligible(p) PROVE Told'
<1>0. PICK b \in Call : b = call[p]
  BY Called DEF Mid
<1>1. /\ b.at = "ineligible" /\ OfPayment(b) /\ Settled(p)
      /\ UNCHANGED <<st, captured, first, winner, row, retry, world>>
      /\ flag' = flag \/ flag = NoFlag
      /\ handled \subseteq handled' /\ (flag' = <<"settle">> \/ b.m \in handled')
  BY <1>0 DEF Mid, Told, Ineligible, At
<1>2. Aside
  BY <1>1 DEF Aside, world, Settled
<1>3. Onward /\ \A k \in Keys : Matched(k)'
  <2>1. \A m \in captured : Covered(m) => Covered(m)'
    BY <1>1, <1>2, FlagStays, FreeFlag
  <2> QED BY <1>1, <1>2, <2>1, BesideOn DEF Aside
<1>4. b.op = "settle" => Acked(b.m)'
  BY <1>1 DEF OfPayment, Acked, Covered
<1> QED BY <1>0, <1>1, <1>3, <1>4, SettledOn

LEMMA LateFlagOn == ASSUME Mid, NEW p \in Callers, LateFlag(p) PROVE Told'
<1>0. PICK b \in Call : b = call[p]
  BY Called DEF Mid
<1> DEFINE c == [b EXCEPT !.at = "read", !.k = LateKey(b.m), !.amount = Paid[b.m]]
<1>1. /\ b.at = "lateFlag" /\ OfPayment(b) /\ Raise(<<"late", b.m>>) /\ Become(p, c)
      /\ UNCHANGED <<st, captured, first, winner, row, retry, world, acked, misread, unheard>>
      /\ b.m \in Payments
  BY <1>0, Paid1 DEF Mid, Told, LateFlag, At, Paying
<1>2. Aside
  BY <1>1 DEF Aside, world
<1>3. <<"late", b.m>> # NoFlag /\ flag' = <<"late", b.m>>
  BY <1>1 DEF NoFlag, Raise
<1>4. Onward /\ \A k \in Keys : Matched(k)'
  BY <1>1, <1>2, <1>3, RaiseKeeps, BesideOn DEF Aside
<1>5. LateKey(b.m) \in Keys /\ Paid[b.m] \in Nat \ {0} /\ Earlier(LateKey(b.m)) = {}
  BY <1>1, LateKeys1, PaidAssumption, NotClick, OtherKeys
<1>6. c \in Call /\ c.at = "read" /\ c.k = LateKey(b.m) /\ c.amount = Paid[b.m] /\ c.op = b.op
      /\ c.m = b.m /\ c.manual = b.manual
  BY <1>5 DEF Call, Steps
<1> HIDE DEF c
<1>7. OfRow(c)'
  BY <1>5, <1>6 DEF OfRow, Asking, Inserted
<1>8. OfPayment(c)'
  BY <1>1, <1>3, <1>6 DEF OfPayment, Asking, Inserted, Warned, Refunding, Covered
<1> QED BY <1>1, <1>4, <1>5, <1>6, <1>7, <1>8, ToldFrame DEF Become

\* A call that stays within what its flag was raised for.
LEMMA StayOn ==
  ASSUME Mid, NEW p \in Callers, NEW b \in Call, b = call[p], b.at \in Warned,
         NEW at \in Warned \cap Steps, Goto(p, at), Onward, \A k \in Keys : Matched(k)',
         acked' = acked, at \notin Asking \cup Inserted \cup {"read", "again", "resolve"},
         at \in {"after"} => b.at \in Refunding,
         at = "finish" => row'[LateKey(b.m)].st = "recorded"
  PROVE  Told'
<1> DEFINE c == [b EXCEPT !.at = at]
<1>1. c \in Call /\ c.at = at /\ c.op = b.op /\ c.k = b.k /\ c.m = b.m /\ c.manual = b.manual
  BY DEF Call
<1>2. OfPayment(b)
  BY DEF Mid, Told
<1>3. OfPayment(c)'
  BY <1>1, <1>2, PaymentOn DEF Refunding, Asking, Inserted
<1> HIDE DEF c
<1>4. OfRow(c)'
  BY <1>1 DEF OfRow, Warned
<1> QED BY <1>3, <1>4, GoOn DEF c

LEMMA AgainOn == ASSUME Mid, NEW p \in Callers, Again(p) PROVE Told'
<1>0. PICK b \in Call : b = call[p]
  BY Called DEF Mid
<1>1. b.at = "again" /\ OfPayment(b) /\ OfRow(b) /\ UNCHANGED <<order, world, past>>
  BY <1>0 DEF Mid, Told, Again, At
<1>2. b.k = LateKey(b.m)
  BY <1>1 DEF OfPayment, OfRow, Refunding
<1>3. PICK at \in {"finish", "after"} :
        Goto(p, at) /\ (at = "finish" => row'[LateKey(b.m)].st = "recorded")
  BY <1>0, <1>1, <1>2 DEF Again, order
<1> QED BY <1>0, <1>1, <1>3, QuietlyOn, StayOn
        DEF Warned, Refunding, Steps, Asking, Inserted

LEMMA AfterOn == ASSUME Mid, NEW p \in Callers, After(p) PROVE Told'
<1>0. PICK b \in Call : b = call[p]
  BY Called DEF Mid
<1>1. /\ b.at = "after"
      /\ UNCHANGED <<st, captured, first, winner, row, retry, world, acked, misread, unheard>>
  BY <1>0 DEF After, At
<1>2. PICK at \in {"schedule", "giveUp", "unschedule"} :
        /\ Goto(p, at)
        /\ UNCHANGED <<flag, handled>> \/ Raise(<<"late", b.m>>)
  BY <1>0 DEF After
<1>3. Aside
  BY <1>1 DEF Aside, world
<1>4. handled \subseteq handled' /\ \A m \in captured : Covered(m) => Covered(m)'
  <2>1. <<"late", b.m>> # NoFlag
    BY DEF NoFlag
  <2> QED BY <1>1, <1>2, <2>1, FlagStays, RaiseKeeps
<1>5. Onward /\ \A k \in Keys : Matched(k)'
  BY <1>1, <1>3, <1>4, BesideOn DEF Aside
<1> QED BY <1>0, <1>1, <1>2, <1>5, StayOn DEF Warned, Steps, Asking, Inserted

LEMMA ScheduleOn == ASSUME Mid, NEW p \in Callers, Schedule(p) PROVE Told'
<1>1. Return(p) /\ UNCHANGED <<st, captured, first, winner, row, flag, world, past>>
  BY DEF Schedule
<1>2. Aside /\ handled' = handled /\ acked' = acked
  BY <1>1 DEF Aside, world, past
<1>3. Onward /\ \A k \in Keys : Matched(k)'
  BY <1>1, <1>2, FlagStays, BesideOn DEF Aside
<1> QED BY <1>1, <1>2, <1>3, ReturnOn

LEMMA GiveUpOn == ASSUME Mid, NEW p \in Callers, GiveUp(p) PROVE Told'
<1>0. PICK b \in Call : b = call[p]
  BY Called DEF Mid
<1>1. /\ b.at = "giveUp" /\ b.k \in Keys /\ row \in [Keys -> Row] /\ Goto(p, "giveUpNext")
      /\ UNCHANGED <<st, captured, first, winner, flag, retry, world, past>>
  BY <1>0, Called, IsTyped DEF Mid, GiveUp, At, CallKnows, Keyed, Typed
<1>2. issued' = issued /\ misread' = misread /\ handled' = handled /\ acked' = acked
  BY <1>1 DEF world, past
<1>3. /\ \A j \in Keys \ {b.k} : row'[j] = row[j]
      /\ \/ /\ row[b.k].st = "reserved" /\ row'[b.k].st = "unverified"
            /\ row'[b.k].amount = row[b.k].amount
         \/ row' = row
  BY <1>0, <1>1 DEF GiveUp, PutRow, Row
<1>4. RowOn(b.k) /\ Matched(b.k)'
  <2>1. Matched(b.k) /\ Used(b.k)
    BY <1>0, <1>1 DEF Mid, Told, Used
  <2> QED BY <1>1, <1>2, <1>3, <2>1, AnswersSame DEF RowOn, Matched, Active, Rowless
<1>5. Onward /\ \A j \in Keys : Matched(j)'
  BY <1>1, <1>2, <1>3, <1>4, RowPutOn
<1> QED BY <1>0, <1>1, <1>2, <1>5, StayOn DEF Warned, Steps, Asking, Inserted

LEMMA UnscheduleOn == ASSUME Mid, NEW p \in Callers, Unschedule(p) PROVE Told'
<1>0. PICK b \in Call : b = call[p]
  BY Called DEF Mid
<1>1. /\ b.at \in {"unschedule", "giveUpNext", "handLate"} /\ OfPayment(b)
      /\ b.at = "unschedule" => Settled(p)
      /\ UNCHANGED <<st, captured, first, winner, row, flag, world>>
      /\ handled' = handled /\ misread' = misread
  BY <1>0 DEF Mid, Told, Unschedule, past, Settled
<1>2. Aside
  BY <1>1 DEF Aside, world
<1>3. Onward /\ \A k \in Keys : Matched(k)'
  BY <1>1, <1>2, FlagStays, BesideOn DEF Aside
<1>4. CASE b.at = "unschedule"
  <2>1. b.op = "settle" => st # "pending" /\ b.m \in captured /\ Covered(b.m)
    BY <1>1, <1>4 DEF OfPayment, Warned
  <2>2. b.op = "settle" => Acked(b.m)'
    BY <1>1, <1>3, <2>1 DEF Acked, Onward
  <2> QED BY <1>0, <1>1, <1>3, <1>4, <2>2, SettledOn
<1>5. CASE b.at = "giveUpNext"
  <2>1. acked' = acked /\ Goto(p, "tell")
    BY <1>0, <1>5 DEF Unschedule, past
  <2> QED BY <1>0, <1>3, <1>5, <2>1, StayOn DEF Warned, Steps, Asking, Inserted
<1>6. CASE b.at = "handLate"
  <2>1. acked' = acked /\ Goto(p, "handSee")
    BY <1>0, <1>6 DEF Unschedule, past
  <2> DEFINE c == [b EXCEPT !.at = "handSee"]
  <2>2. c.at = "handSee" /\ c.op = b.op /\ c.k = b.k /\ c.m = b.m /\ c.manual = b.manual
    BY DEF Call
  <2>3. OfPayment(b)'
    BY <1>1, <1>3, OfPaymentStays
  <2> HIDE DEF c
  <2>4. OfRow(c)' /\ OfPayment(c)'
    BY <1>6, <2>2, <2>3 DEF OfRow, OfPayment, Asking, Inserted, Warned, Refunding
  <2> QED BY <1>0, <1>3, <2>1, <2>4, GoOn DEF c, Steps
<1> QED BY <1>1, <1>4, <1>5, <1>6

LEMMA TellOn == ASSUME Mid, NEW p \in Callers, Tell(p) PROVE Told'
<1>0. PICK b \in Call : b = call[p]
  BY Called DEF Mid
<1>1. /\ b.at = "tell" /\ OfPayment(b) /\ Raise(<<"late", b.m>>) /\ Settled(p)
      /\ UNCHANGED <<st, captured, first, winner, row, retry, world>>
  BY <1>0 DEF Mid, Told, Tell, At
<1>2. Aside
  BY <1>1 DEF Aside, world, Settled
<1>3. Onward /\ \A k \in Keys : Matched(k)'
  <2>1. <<"late", b.m>> # NoFlag
    BY DEF NoFlag
  <2> QED BY <1>1, <1>2, <2>1, RaiseKeeps, BesideOn DEF Aside
<1>4. b.op = "settle" => Acked(b.m)'
  BY <1>1 DEF OfPayment, Warned, Acked, Covered, Raise
<1> QED BY <1>0, <1>1, <1>3, <1>4, SettledOn

LEMMA FinishOn == ASSUME Mid, NEW p \in Callers, Finish(p) PROVE Told'
<1>0. PICK b \in Call : b = call[p]
  BY Called DEF Mid
<1>1. /\ b.at = "finish" /\ OfPayment(b) /\ OfRow(b) /\ UNCHANGED <<order, world, past>>
      /\ b.m \in Payments
  BY <1>0, Paid1 DEF Mid, Told, Finish, At, Paying
<1>2. PICK f \in Flags : f = flag
  BY IsTyped DEF Mid, Typed
<1> DEFINE c == [b EXCEPT !.at = "resolve", !.seen = f, !.k = LateKey(b.m)]
<1>3. LateKey(b.m) \in Keys /\ Earlier(LateKey(b.m)) = {}
  BY <1>1, LateKeys1, NotClick, OtherKeys
<1>4. c \in Call /\ c.at = "resolve" /\ c.op = b.op /\ c.k = LateKey(b.m) /\ c.m = b.m
      /\ c.manual = b.manual
  BY <1>3 DEF Call, Steps
<1>5. Become(p, c)
  BY <1>0, <1>2 DEF Finish
<1> HIDE DEF c
<1>6. OfRow(c) /\ OfPayment(c)
  BY <1>1, <1>4 DEF OfRow, OfPayment, Asking, Inserted, Warned, Refunding
<1> QED BY <1>1, <1>3, <1>4, <1>5, <1>6, Quietly

LEMMA ResolveOn == ASSUME Mid, NEW p \in Callers, Resolve(p) PROVE Told'
<1>0. PICK b \in Call : b = call[p]
  BY Called DEF Mid
<1>1. /\ b.at = "resolve" /\ OfRow(b) /\ Goto(p, "unschedule")
      /\ UNCHANGED <<st, captured, first, winner, row, retry, world, past>>
      /\ flag' = flag \/ flag = <<"late", b.m>>
  BY <1>0 DEF Mid, Told, Resolve, At
<1>2. Aside /\ handled' = handled /\ acked' = acked
  BY <1>1 DEF Aside, world, past
<1>3. \A m \in captured : Covered(m) => Covered(m)'
  <2>1. row[LateKey(b.m)].st = "recorded"
    BY <1>1 DEF OfRow
  <2> QED BY <1>1, <1>2, <2>1 DEF Covered
<1>4. Onward /\ \A k \in Keys : Matched(k)'
  BY <1>1, <1>2, <1>3, BesideOn DEF Aside
<1> QED BY <1>0, <1>1, <1>2, <1>4, StayOn DEF Warned, Steps, Asking, Inserted

-----------------------------------------------------------------------------
(* Cancelling *)

LEMMA KeyOn == ASSUME Mid, NEW p \in Callers, Key(p) PROVE Told'
<1>0. PICK b \in Call : b = call[p]
  BY Called DEF Mid
<1>1. b.at = "key" /\ b.op = "cancel" /\ UNCHANGED <<order, world, past>>
  BY <1>0 DEF Mid, Told, Key, At, OfRow
<1>2. CASE Return(p)
  BY <1>1, <1>2, QuietlyOn, ReturnOn
<1>3. ASSUME NEW n \in 1..Tries + 1, NEW c \in Call, Become(p, c), c.op = "cancel",
             c.k = CancelKey(n), c.amount = row[CancelKey(n)].amount,
             c.at \in {"sum", "close", "read"},
             c.at = "read" => row[CancelKey(n)].st # "none"
      PROVE  Told'
  <2>1. CancelKey(n) \in Keys /\ Earlier(CancelKey(n)) = {}
    BY NotClick, OtherKeys DEF Keys, CancelKeys
  <2>2. Matched(CancelKey(n))
    BY <2>1 DEF Mid, Told
  <2>3. OfRow(c) /\ OfPayment(c)
    BY <1>3, <2>2 DEF Matched, OfRow, OfPayment, Asking, Inserted
  <2> QED BY <1>1, <1>3, <2>1, <2>3, Quietly
<1>4. ASSUME NEW n \in 1..Tries + 1
      PROVE  CancelKey(n) \in Keys /\ row[CancelKey(n)].amount \in Nat
  <2>1. CancelKey(n) \in Keys
    BY DEF Keys, CancelKeys
  <2> QED BY <2>1, IsTyped DEF Mid, Typed, Row
<1>5. ASSUME NEW n \in 1..Tries + 1, NEW at \in {"sum", "read"}, NEW a \in Nat,
             a = row[CancelKey(n)].amount, at = "read" => row[CancelKey(n)].st # "none",
             Become(p, [b EXCEPT !.k = CancelKey(n), !.amount = a, !.at = at])
      PROVE  Told'
  <2> DEFINE d == [b EXCEPT !.k = CancelKey(n), !.amount = a, !.at = at]
  <2>1. d \in Call /\ d.k = CancelKey(n) /\ d.at = at /\ d.op = b.op /\ d.amount = a
    BY <1>4 DEF Call, Steps
  <2> HIDE DEF d
  <2> QED BY <1>1, <1>3, <1>5, <2>1 DEF d
<1>6. ASSUME NEW n \in 1..Tries + 1, NEW a \in Nat, a = row[CancelKey(n)].amount,
             Become(p, [b EXCEPT !.k = CancelKey(n), !.amount = a, !.at = "close", !.money = TRUE])
      PROVE  Told'
  <2> DEFINE d == [b EXCEPT !.k = CancelKey(n), !.amount = a, !.at = "close", !.money = TRUE]
  <2>1. d \in Call /\ d.k = CancelKey(n) /\ d.at = "close" /\ d.op = b.op /\ d.amount = a
    BY <1>4 DEF Call, Steps
  <2> HIDE DEF d
  <2> QED BY <1>1, <1>3, <1>6, <2>1 DEF d
<1>7. ASSUME NEW n \in 1..Tries + 1, NEW at \in {"sum", "read"},
             at = "read" => row[CancelKey(n)].st # "none",
             Become(p, [[b EXCEPT !.k = CancelKey(n), !.amount = row[CancelKey(n)].amount]
                          EXCEPT !.at = at])
      PROVE  Told'
  <2>1. PICK a \in Nat : a = row[CancelKey(n)].amount
    BY <1>4
  <2>2. [[b EXCEPT !.k = CancelKey(n), !.amount = a] EXCEPT !.at = at]
          = [b EXCEPT !.k = CancelKey(n), !.amount = a, !.at = at]
    BY DEF Call
  <2> QED BY <1>5, <1>7, <2>1, <2>2
<1>8. ASSUME NEW n \in 1..Tries + 1,
             Become(p, [[b EXCEPT !.k = CancelKey(n), !.amount = row[CancelKey(n)].amount]
                          EXCEPT !.at = "close", !.money = TRUE])
      PROVE  Told'
  <2>1. PICK a \in Nat : a = row[CancelKey(n)].amount
    BY <1>4
  <2>2. [[b EXCEPT !.k = CancelKey(n), !.amount = a] EXCEPT !.at = "close", !.money = TRUE]
          = [b EXCEPT !.k = CancelKey(n), !.amount = a, !.at = "close", !.money = TRUE]
    BY DEF Call
  <2> QED BY <1>6, <1>8, <2>1, <2>2
<1> QED BY <1>0, <1>2, <1>7, <1>8 DEF Key

LEMMA SumOn == ASSUME Mid, NEW p \in Callers, Sum(p) PROVE Told'
<1>0. PICK b \in Call : b = call[p]
  BY Called DEF Mid
<1>1. b.at = "sum" /\ b.op = "cancel" /\ UNCHANGED <<order, world, past>>
  BY <1>0 DEF Mid, Told, Sum, At, OfRow
<1>2. PICK left \in Int : left = Ceiling - ActiveTotal
  BY SumsAreNaturals DEF Mid, IInv
<1>3. CASE Return(p)
  BY <1>1, <1>3, QuietlyOn, ReturnOn
<1>4. ASSUME NEW c \in Call, Become(p, c), c.op = "cancel", c.k = b.k, c.at \in {"close", "read"},
             c.at = "read" => c.amount > 0
      PROVE  Told'
  <2>1. OfRow(c) /\ OfPayment(c)
    BY <1>4 DEF OfRow, OfPayment, Asking, Inserted
  <2> QED BY <1>0, <1>1, <1>4, <2>1, Quietly
<1>5. ASSUME NEW money \in BOOLEAN, Become(p, [b EXCEPT !.at = "close", !.money = money])
      PROVE  Told'
  <2> DEFINE c == [b EXCEPT !.at = "close", !.money = money]
  <2>1. c \in Call /\ c.at = "close" /\ c.op = b.op /\ c.k = b.k
    BY DEF Call, Steps
  <2> HIDE DEF c
  <2> QED BY <1>1, <1>4, <1>5, <2>1 DEF c
<1>6. CASE ~(left <= 0) /\ Become(p, [b EXCEPT !.at = "read", !.amount = left])
  <2>1. left \in Nat /\ left > 0
    BY <1>6
  <2> DEFINE c == [b EXCEPT !.at = "read", !.amount = left]
  <2>2. c \in Call /\ c.at = "read" /\ c.op = b.op /\ c.k = b.k /\ c.amount = left
    BY <2>1 DEF Call, Steps
  <2> HIDE DEF c
  <2> QED BY <1>1, <1>4, <1>6, <2>1, <2>2 DEF c
<1> QED BY <1>0, <1>2, <1>3, <1>5, <1>6 DEF Sum

LEMMA CloseOn == ASSUME Mid, NEW p \in Callers, Close(p) PROVE Told'
<1>1. Return(p) /\ UNCHANGED <<captured, first, winner, row, retry, world, acked, misread, unheard>>
      /\ (st' = "pending" => st = "pending") /\ (st' \in Early => st \in Early)
  BY DEF Close, Early, Unpaid
<1>2. Aside
  BY <1>1 DEF Aside, world
<1>3. handled \subseteq handled' /\ \A m \in captured : Covered(m) => Covered(m)'
  <2>1. <<"cancel">> # NoFlag
    BY DEF NoFlag
  <2> QED BY <1>1, <2>1, FlagStays, RaiseKeeps DEF Close
<1>4. Onward /\ \A k \in Keys : Matched(k)'
  BY <1>1, <1>2, <1>3, BesideOn DEF Aside
<1> QED BY <1>1, <1>4, ReturnOn

-----------------------------------------------------------------------------
(* A person, and the world *)

LEMMA ClearOn == ASSUME Mid, NEW p \in Callers, Clear(p) PROVE Told'
<1>0. PICK b \in Call : b = call[p]
  BY Called DEF Mid
<1>1. /\ b.at = "clear" /\ b.op = "hand" /\ OfRow(b)
      /\ UNCHANGED <<st, captured, first, winner, row, retry, world, past>>
      /\ flag' = flag \/ \E k : flag = <<"check", k>>
  BY <1>0 DEF Mid, Told, Clear, At, OfRow
<1>2. Aside /\ handled' = handled /\ acked' = acked
  BY <1>1 DEF Aside, world, past
<1>3. Onward /\ \A k \in Keys : Matched(k)'
  <2>1. \A m \in captured : Covered(m) => Covered(m)'
    BY <1>1, <1>2, FlagStays, FreeFlag
  <2> QED BY <1>1, <1>2, <2>1, BesideOn DEF Aside
<1>4. ASSUME NEW m \in Payments, NEW at \in {"finish", "handLate"}, LateKey(m) = b.k,
             at = "finish" => b.got = "ok", Become(p, [b EXCEPT !.m = m, !.at = at])
      PROVE  Told'
  <2> DEFINE c == [b EXCEPT !.m = m, !.at = at]
  <2>1. c \in Call /\ c.at = at /\ c.op = b.op /\ c.k = b.k /\ c.m = m
    BY DEF Call, Steps
  <2> HIDE DEF c
  <2>2. OfRow(c)' /\ OfPayment(c)'
    BY <1>1, <1>4, <2>1 DEF OfRow, OfPayment, Asking, Inserted
  <2> QED BY <1>0, <1>2, <1>3, <1>4, <2>1, <2>2, ToldFrame DEF c, Become
<1>5. CASE Goto(p, "resume")
  <2> DEFINE c == [b EXCEPT !.at = "resume"]
  <2>1. c.at = "resume" /\ c.op = "hand" /\ c.k = b.k /\ c.m = b.m
    BY <1>1 DEF Call
  <2> HIDE DEF c
  <2>2. OfRow(c)' /\ OfPayment(c)'
    BY <2>1 DEF OfRow, OfPayment, Asking, Inserted
  <2> QED BY <1>0, <1>2, <1>3, <1>5, <2>2, GoOn DEF c, Steps
<1>6. CASE Return(p)
  BY <1>2, <1>3, <1>6, ReturnOn
<1> QED BY <1>0, <1>4, <1>5, <1>6 DEF Clear

\* A call that has a person's answer goes on to a point where nothing need be known.
LEMMA HandOn ==
  ASSUME Mid, NEW p \in Callers, call[p].at \in {"resume", "handSee"},
         NEW at \in {"resumeFlag", "handFlag"}, Goto(p, at), UNCHANGED <<order, world, past>>
  PROVE  Told'
<1>0. PICK b \in Call : b = call[p]
  BY Called DEF Mid
<1>1. OfPayment(b) /\ b.at \in {"resume", "handSee"}
  BY <1>0 DEF Mid, Told
<1> DEFINE c == [b EXCEPT !.at = at]
<1>2. c \in Call /\ c.at = at /\ c.op = b.op /\ c.k = b.k /\ c.m = b.m /\ c.manual = b.manual
  BY DEF Call, Steps
<1>3. Become(p, c)
  BY <1>0 DEF Goto, Become
<1> HIDE DEF c
<1>4. OfRow(c) /\ OfPayment(c)
  BY <1>1, <1>2 DEF OfRow, OfPayment, Asking, Inserted, Warned, Refunding
<1> QED BY <1>0, <1>2, <1>3, <1>4, Quietly

LEMMA ResumeOn == ASSUME Mid, NEW p \in Callers, Resume(p) PROVE Told'
<1>1. call[p].at = "resume" /\ UNCHANGED <<order, world, past>>
  BY DEF Resume, At
<1>2. CASE Become(p, [Idle EXCEPT !.op = "cancel", !.at = "key", !.manual = TRUE])
  <2> DEFINE c == [Idle EXCEPT !.op = "cancel", !.at = "key", !.manual = TRUE]
  <2>1. c \in Call /\ c.at = "key" /\ c.op = "cancel" /\ c.k = None
    BY ZenonT(60), IdleTyped DEF Call, Ops, Steps, Idle
  <2> HIDE DEF c
  <2>2. OfRow(c) /\ OfPayment(c)
    BY <2>1 DEF OfRow, OfPayment, Asking, Inserted
  <2> QED BY <1>1, <1>2, <2>1, <2>2, Quietly DEF c
<1>3. CASE Return(p)
  BY <1>1, <1>3, QuietlyOn, ReturnOn
<1>4. CASE Goto(p, "resumeFlag")
  BY <1>1, <1>4, HandOn
<1> QED BY <1>2, <1>3, <1>4 DEF Resume

LEMMA HandSeeOn == ASSUME Mid, NEW p \in Callers, HandSee(p) PROVE Told'
<1>1. call[p].at = "handSee" /\ UNCHANGED <<order, world, past>>
  BY DEF HandSee, At
<1>2. CASE Return(p)
  BY <1>1, <1>2, QuietlyOn, ReturnOn
<1>3. CASE Goto(p, "handFlag")
  BY <1>1, <1>3, HandOn
<1> QED BY <1>2, <1>3 DEF HandSee

\* A flag that is raised last.
LEMMA RaiseLastOn ==
  ASSUME Mid, NEW p \in Callers, NEW f, f # NoFlag, Raise(f), Return(p),
         UNCHANGED <<st, captured, first, winner, row, retry, world, acked, misread, unheard>>
  PROVE  Told'
<1>1. Aside
  BY DEF Aside, world
<1>2. Onward /\ \A k \in Keys : Matched(k)'
  BY <1>1, RaiseKeeps, BesideOn DEF Aside
<1> QED BY <1>2, ReturnOn

LEMMA ResumeFlagOn == ASSUME Mid, NEW p \in Callers, ResumeFlag(p) PROVE Told'
<1>1. <<"cancel">> # NoFlag
  BY DEF NoFlag
<1> QED BY <1>1, RaiseLastOn DEF ResumeFlag

LEMMA HandFlagOn == ASSUME Mid, NEW p \in Callers, HandFlag(p) PROVE Told'
<1>1. <<"late", call[p].m>> # NoFlag
  BY DEF NoFlag
<1> QED BY <1>1, RaiseLastOn DEF HandFlag

LEMMA CrashOn == ASSUME Mid, NEW p \in Callers, Crash(p) PROVE Told'
<1>1. Return(p) /\ UNCHANGED <<order, world, acked, handled, misread>>
  BY DEF Crash
<1>2. Aside /\ captured' = captured /\ flag' = flag /\ st' = st /\ acked' = acked
      /\ handled' = handled
  BY <1>1 DEF Aside, order, world
<1>3. Onward /\ \A k \in Keys : Matched(k)'
  BY <1>2, FlagStays, BesideOn DEF Aside
<1> QED BY <1>1, <1>2, <1>3, ReturnOn

LEMMA LookedOn == ASSUME Mid, Looked PROVE Told'
<1>1. Aside /\ handled' = handled \cup Open
  BY DEF Looked, Aside, world
<1>2. handled \subseteq handled' /\ \A m \in captured : Covered(m) => Covered(m)'
  BY <1>1 DEF Covered, Open
<1>3. Onward /\ \A k \in Keys : Matched(k)'
  BY <1>1, <1>2, BesideOn DEF Aside, Looked
<1> QED BY <1>3, ToldOutside DEF Looked

LEMMA WorldOn == ASSUME Mid, World PROVE Told'
<1>1. /\ Aside /\ captured' = captured /\ flag' = flag /\ handled' = handled /\ acked' = acked
      /\ call' = call /\ (st' = "pending" => st = "pending") /\ (st' \in Early => st \in Early)
  BY DEF World, Expire, Ship, Dashboard, Aside, world, past, order, Early, Unpaid
<1>2. Onward /\ \A k \in Keys : Matched(k)'
  BY <1>1, FlagStays, BesideOn DEF Aside
<1> QED BY <1>1, <1>2, ToldOutside

-----------------------------------------------------------------------------
(* The theorems *)

LEMMA InitTold == Init => Told
<1> SUFFICES ASSUME Init PROVE Told
  OBVIOUS
<1>1. row = [k \in Keys |-> NoRow] /\ issued = {} /\ call = [p \in Callers |-> Idle] /\ acked = {}
      /\ misread = {}
  BY DEF Init
<1>2. NoRow.st = "none"
  BY DEF NoRow
<1> HIDE DEF Keys
<1>3. ASSUME NEW k \in Keys PROVE Matched(k) /\ InOrder(k)
  <2>1. row[k].st = "none" /\ ~Issued(k)
    BY <1>1, <1>2 DEF Issued
  <2>2. ~Used(k)
    BY <1>1, <2>1, NoneAssumption, IdleTold DEF Used
  <2> QED BY <1>1, <2>1, <2>2 DEF Matched, InOrder
<1>4. \A p \in Callers : OfRow(call[p]) /\ OfPayment(call[p])
  BY <1>1, IdleTold
<1> QED BY <1>1, <1>3, <1>4 DEF Told

LEMMA NextTold == IInv /\ IInv' /\ Told /\ [Next]_vars => Told'
<1> SUFFICES ASSUME Mid, [Next]_vars PROVE Told'
  BY DEF Mid
<1>1. CASE UNCHANGED vars
  <2>1. UNCHANGED <<order, world, past>> /\ call' = call
    BY <1>1 DEF vars
  <2> QED BY <2>1, QuietlyOn, ToldOutside
<1>2. ASSUME NEW p \in Callers, Start(p) PROVE Told'
  BY <1>2, ClickOn, DeliverOn, RetryOn, ConfirmOn, CancelOn DEF Start
<1>3. ASSUME NEW p \in Callers, Step(p) PROVE Told'
  <2>1. CASE \/ Read(p) \/ Claim(p) \/ Insert(p) \/ Prior(p) \/ Pre(p) \/ Post(p) \/ Void(p)
             \/ Mark(p) \/ FlagProvider(p) \/ FlagRow(p) \/ Finalize(p)
    BY <2>1, ReadOn, ClaimOn, InsertOn, PriorOn, PreOn, PostOn, VoidOn, MarkOn,
       FlagProviderOn, FlagRowOn, FinalizeOn
  <2>2. CASE \/ Flip(p) \/ Lost(p) \/ Second(p) \/ Double(p) \/ Record(p)
             \/ LateRecord(p) \/ Late(p) \/ Ineligible(p) \/ LateFlag(p) \/ Again(p) \/ After(p)
    BY <2>2, FlipOn, LostOn, SecondOn, DoubleOn, RecordOn, LateRecordOn, LateOn, IneligibleOn,
       LateFlagOn, AgainOn, AfterOn
  <2>3. CASE \/ Schedule(p) \/ GiveUp(p) \/ Unschedule(p) \/ Tell(p) \/ Finish(p) \/ Resolve(p)
             \/ Key(p) \/ Sum(p) \/ Close(p) \/ Clear(p)
             \/ Resume(p) \/ ResumeFlag(p) \/ HandSee(p) \/ HandFlag(p)
    BY <2>3, ScheduleOn, GiveUpOn, UnscheduleOn, TellOn, FinishOn, ResolveOn, KeyOn, SumOn,
       CloseOn, ClearOn, ResumeOn, ResumeFlagOn, HandSeeOn, HandFlagOn
  <2> QED BY <1>3, <2>1, <2>2, <2>3 DEF Step
<1> QED BY <1>1, <1>2, <1>3, CrashOn, LookedOn, WorldOn DEF Next

\* What the calls know of their row and their payment, with the order the keys are used in,
\* is inductive under the first invariant.
THEOREM ToldHolds == Spec => []Told
BY InitTold, NextTold, Inductive, PTL DEF Spec

-----------------------------------------------------------------------------
(* Issued money is known of *)

\* Money that was issued, and is not on the ledger as refunded, is known to the call that
\* heard of it or to a person, but for an answer that was lost.
Heard == \A k \in Keys : Issued(k) => row[k].st = "recorded" \/ KnownOf(k)

Hearing == {"finalize", "flagLost"}

\* Nobody moves but p.
Alone(p) == \A q \in Callers : q # p => call'[q] = call[q]

\* What a step leaves of a flag about issued money.
LostKept ==
  /\ handled \subseteq handled'
  /\ \A k \in Keys : Issued(k) /\ flag = <<"lost", k>> => flag' = flag \/ k \in handled'

RowsKept == \A k \in Keys : row[k].st = "recorded" => row'[k].st = "recorded"

LEMMA Moves ==
  ASSUME IInv, NEW p \in Callers
  PROVE  /\ \A c : Become(p, c) => Alone(p)
         /\ \A at : Goto(p, at) => Alone(p)
         /\ \A got : Answer(p, got) => Alone(p)
         /\ Return(p) => Alone(p)
         /\ Settled(p) => Alone(p)
<1>1. ASSUME NEW c, Become(p, c) PROVE Alone(p)
  BY <1>1, Called DEF Become, Alone
<1>2. ASSUME NEW at, Goto(p, at) PROVE Alone(p)
  BY <1>2, Called DEF Goto, Alone
<1>3. \A got : Answer(p, got) => Alone(p)
  BY <1>1 DEF Answer
<1>4. Return(p) => Alone(p)
  BY <1>1 DEF Return
<1>5. Settled(p) => Alone(p)
  BY <1>4 DEF Settled
<1> QED BY <1>1, <1>2, <1>3, <1>4, <1>5

LEMMA KnownStays ==
  ASSUME NEW p \in Callers, NEW k \in Keys, Issued(k), KnownOf(k), Alone(p),
         call[p].at \in Hearing /\ call[p].k = k => KnownOf(k)',
         LostKept, unheard \subseteq unheard'
  PROVE  KnownOf(k)'
<1>1. ASSUME NEW q \in Callers, call[q].k = k, call[q].at \in Hearing
      PROVE  KnownOf(k)'
  <2>1. CASE q = p
    BY <1>1, <2>1
  <2>2. CASE q # p
    <3>1. call'[q] = call[q]
      BY <2>2 DEF Alone
    <3> QED BY <1>1, <3>1 DEF KnownOf, Hearing
  <2> QED BY <2>1, <2>2
<1> QED BY <1>1 DEF KnownOf, Hearing, LostKept

\* A step of p's that issues nothing: a call that was still to tell of its refund leaves it
\* recorded, or known of.
LEMMA HeardStays ==
  ASSUME Heard, NEW p \in Callers, Alone(p), issued' = issued, unheard \subseteq unheard',
         RowsKept, LostKept,
         \A k \in Keys : call[p].at \in Hearing /\ call[p].k = k /\ Issued(k)
                           => row'[k].st = "recorded" \/ KnownOf(k)'
  PROVE  Heard'
<1> SUFFICES ASSUME NEW k \in Keys, Issued(k)' PROVE row'[k].st = "recorded" \/ KnownOf(k)'
  BY DEF Heard
<1>1. Issued(k)
  BY AnswersSame
<1>2. row[k].st = "recorded" \/ KnownOf(k)
  BY <1>1 DEF Heard
<1> QED BY <1>1, <1>2, KnownStays DEF RowsKept

\* A step of p's that writes nothing, but its call.
LEMMA HeardQuietly ==
  ASSUME Heard, NEW p \in Callers, Alone(p), call[p].at \notin Hearing,
         UNCHANGED <<order, world, past>>
  PROVE  Heard'
<1>1. issued' = issued /\ row' = row /\ flag' = flag /\ handled' = handled /\ unheard' = unheard
  BY DEF order, world, past
<1> QED BY <1>1, HeardStays DEF RowsKept, LostKept

LEMMA RaiseTells ==
  ASSUME NEW f, Raise(f)
  PROVE  LostKept
<1>1. CASE flag \in {NoFlag, f}
  BY <1>1 DEF Raise, NoFlag, LostKept
<1>2. CASE flag \notin {NoFlag, f}
  BY <1>2 DEF Raise, Open, LostKept
<1> QED BY <1>1, <1>2

\* A flag that stands for no issued money is written over.
LEMMA OtherFlag ==
  ASSUME handled \subseteq handled',
         \/ flag' = flag \/ flag \in {NoFlag, <<"provider">>}
         \/ \E x : flag \in {<<"late", x>>, <<"check", x>>}
  PROVE  LostKept
BY DEF LostKept, NoFlag

LEMMA StartHears == ASSUME IInv, Heard, NEW p \in Callers, Start(p) PROVE Heard'
<1>1. ASSUME call[p] = Idle PROVE call[p].at \notin Hearing
  BY <1>1 DEF Idle, Hearing
<1>2. ASSUME NEW a \in 1..Total, Click(p, a) PROVE Heard'
  <2>1. call[p] = Idle /\ UNCHANGED <<order, world, past>> /\ Alone(p)
    BY <1>2, Moves DEF Click
  <2> QED BY <1>1, <2>1, HeardQuietly
<1>3. ASSUME NEW m \in Payments, Deliver(p, m) PROVE Heard'
  <2>1. call[p] = Idle /\ UNCHANGED <<order, world, past>> /\ Alone(p)
    BY <1>3, Moves DEF Deliver
  <2> QED BY <1>1, <2>1, HeardQuietly
<1>4. ASSUME NEW m \in Payments, Retry(p, m) PROVE Heard'
  <2>1. call[p] = Idle /\ UNCHANGED <<order, world, past>> /\ Alone(p)
    BY <1>4, Moves DEF Retry
  <2> QED BY <1>1, <2>1, HeardQuietly
<1>5. CASE Cancel(p)
  <2>1. /\ call[p] = Idle /\ row' = row /\ flag' = flag
        /\ UNCHANGED <<world, past>>
    BY <1>5 DEF Cancel
  <2>2. Alone(p)
    BY <1>5, Moves DEF Cancel, Alone
  <2>3. issued' = issued /\ unheard' = unheard /\ handled' = handled
    BY <2>1 DEF world, past
  <2> QED BY <1>1, <2>1, <2>2, <2>3, OtherFlag, HeardStays DEF RowsKept
<1>6. ASSUME NEW k \in Keys, Confirm(p, k) PROVE Heard'
  <2>1. /\ call[p] = Idle /\ row[k].st = "unverified" /\ flag' = flag
        /\ UNCHANGED <<world, past>> /\ Alone(p)
    BY <1>6, Moves DEF Confirm
  <2>2. \A j \in Keys \ {k} : row'[j] = row[j]
    BY <1>6, IsTyped DEF Confirm, Typed
  <2>3. issued' = issued /\ unheard' = unheard /\ handled' = handled
    BY <2>1 DEF world, past
  <2> QED BY <1>1, <2>1, <2>2, <2>3, OtherFlag, HeardStays DEF RowsKept
<1> QED BY <1>2, <1>3, <1>4, <1>5, <1>6 DEF Start

\* The refund is issued: its caller hears of it, or does not.
LEMMA PostHears == ASSUME IInv, Heard, NEW p \in Callers, Post(p) PROVE Heard'
<1>0. PICK b \in Call : b = call[p]
  BY Called
<1>1. /\ b.at = "post" /\ b.at \notin Hearing /\ row' = row /\ flag' = flag
      /\ handled' = handled /\ unheard \subseteq unheard' /\ Alone(p)
  <2>1. Alone(p)
    BY Moves DEF Post
  <2> QED BY <1>0, <2>1 DEF Post, At, Hearing, order
<1>2. LostKept
  BY <1>1, OtherFlag
<1> SUFFICES ASSUME NEW k \in Keys, Issued(k)' PROVE row'[k].st = "recorded" \/ KnownOf(k)'
  BY DEF Heard
<1>3. CASE Issued(k)
  BY <1>0, <1>1, <1>2, <1>3, KnownStays DEF Heard
<1>4. CASE ~Issued(k)
  <2>1. k = b.k /\ issued' # issued /\ ~Issued(b.k)
    BY <1>0, <1>4 DEF Post, Issued
  <2>2. issued' # issued \cup {<<b.k, b.m, 0>>}
    BY <1>4, <2>1 DEF Issued
  <2>3. \/ Become(p, [b EXCEPT !.at = "finalize"])
        \/ unheard' = unheard \cup {b.k}
    BY <1>0, <2>1, <2>2 DEF Post
  <2>4. CASE Become(p, [b EXCEPT !.at = "finalize"])
    <3> DEFINE c == [b EXCEPT !.at = "finalize"]
    <3>1. c.k = b.k /\ c.at = "finalize"
      BY DEF Call
    <3>2. call'[p] = c
      BY <2>4, Called DEF Become
    <3> HIDE DEF c
    <3> QED BY <2>1, <3>1, <3>2 DEF KnownOf
  <2> QED BY <2>1, <2>3, <2>4 DEF KnownOf
<1> QED BY <1>3, <1>4

LEMMA FinalizeHears == ASSUME IInv, Heard, NEW p \in Callers, Finalize(p) PROVE Heard'
<1>0. PICK b \in Call : b = call[p]
  BY Called
<1>1. /\ b.at = "finalize" /\ b.k \in Keys /\ row \in [Keys -> Row]
      /\ flag' = flag /\ UNCHANGED <<world, past>> /\ Alone(p)
  BY <1>0, Called, Moves, IsTyped DEF Finalize, At, CallKnows, Keyed, Typed
<1>2. issued' = issued /\ unheard' = unheard /\ handled' = handled
  BY <1>1 DEF world, past
<1>3. /\ RowsKept
      /\ row'[b.k].st = "recorded" \/ Goto(p, "flagLost")
  <2>1. CASE PutRow(b.k, "recorded")
    BY <1>1, <2>1 DEF PutRow, RowsKept
  <2>2. CASE row' = row /\ (row[b.k].st = "recorded" \/ Goto(p, "flagLost"))
    BY <2>2 DEF RowsKept
  <2>3. \/ PutRow(b.k, "recorded")
        \/ row' = row /\ (row[b.k].st = "recorded" \/ Goto(p, "flagLost"))
    BY <1>0 DEF Finalize
  <2> QED BY <2>1, <2>2, <2>3
<1>4. CASE Goto(p, "flagLost")
  <2>1. call'[p].k = b.k /\ call'[p].at = "flagLost"
    BY <1>0, <1>4, Called DEF Goto, Call
  <2>2. KnownOf(b.k)'
    BY <2>1 DEF KnownOf
  <2> QED BY <1>0, <1>1, <1>2, <1>3, <2>2, OtherFlag, HeardStays
<1> QED BY <1>0, <1>1, <1>2, <1>3, <1>4, OtherFlag, HeardStays

LEMMA FlagRowHears == ASSUME IInv, Heard, NEW p \in Callers, FlagRow(p) PROVE Heard'
<1>0. PICK b : b = call[p]
  OBVIOUS
<1>1. /\ row' = row /\ unheard' = unheard /\ issued' = issued /\ Alone(p)
      /\ b.at \in {"flagCheck", "flagLost"}
  BY <1>0, Moves DEF FlagRow, world
<1>2. LostKept
  BY RaiseTells DEF FlagRow
<1>3. b.at = "flagLost" => flag' = <<"lost", b.k>>
  BY <1>0 DEF FlagRow, Raise
<1>4. b.at \in Hearing => KnownOf(b.k)'
  BY <1>1, <1>3 DEF Hearing, KnownOf
<1> QED BY <1>0, <1>1, <1>2, <1>4, HeardStays DEF RowsKept

LEMMA CrashHears == ASSUME IInv, Heard, NEW p \in Callers, Crash(p) PROVE Heard'
<1>0. PICK b : b = call[p]
  OBVIOUS
<1>1. /\ row' = row /\ flag' = flag /\ issued' = issued /\ handled' = handled /\ Alone(p)
      /\ unheard \subseteq unheard'
  BY Moves DEF Crash, order, world
<1>2. b.at \in Hearing => KnownOf(b.k)'
  BY <1>0 DEF Crash, Hearing, KnownOf
<1> QED BY <1>0, <1>1, <1>2, OtherFlag, HeardStays DEF RowsKept

\* The other steps of refundOrder.
LEMMA RefundHears ==
  ASSUME IInv, Heard, NEW p \in Callers,
         \/ Read(p) \/ Claim(p) \/ Insert(p) \/ Prior(p) \/ Pre(p) \/ Void(p) \/ Mark(p)
         \/ FlagProvider(p)
  PROVE  Heard'
<1>1. CASE Read(p) \/ Prior(p) \/ Pre(p)
  <2>1. call[p].at \notin Hearing /\ UNCHANGED <<order, world, past>>
    BY <1>1 DEF Read, Prior, Pre, At, Hearing
  <2>2. Alone(p)
    BY <1>1, Moves DEF Read, Prior, Pre
  <2> QED BY <2>1, <2>2, HeardQuietly
<1>2. ASSUME call[p].at \notin Hearing, Alone(p), flag' = flag, RowsKept,
             UNCHANGED <<world, handled, unheard>>
      PROVE  Heard'
  <2>1. issued' = issued
    BY <1>2 DEF world
  <2> QED BY <1>2, <2>1, OtherFlag, HeardStays
<1>3. call[p] \in Call /\ (call[p].at \in Keyed => call[p].k \in Keys) /\ row \in [Keys -> Row]
  BY Called, IsTyped DEF CallKnows, Typed
<1>4. CASE Claim(p)
  <2>1. /\ call[p].at \notin Hearing /\ Alone(p) /\ flag' = flag
        /\ UNCHANGED <<world, handled, unheard>>
    BY <1>4, Moves DEF Claim, At, Hearing, past
  <2>2. RowsKept
    <3> DEFINE new == [NoRow EXCEPT !.st = "claimed", !.amount = call[p].amount,
                                    !.manual = call[p].manual]
    <3>1. row' = IF row[call[p].k].st = "none" THEN [row EXCEPT ![call[p].k] = new] ELSE row
      BY <1>4 DEF Claim
    <3> HIDE DEF new
    <3> QED BY <1>3, <3>1 DEF RowsKept
  <2> QED BY <1>2, <2>1, <2>2
<1>5. ASSUME NEW to, NEW k \in Keys, row[k].st # "recorded", PutRow(k, to) PROVE RowsKept
  BY <1>3, <1>5 DEF PutRow, RowsKept
<1>6. CASE Insert(p)
  <2>1. /\ call[p].at \notin Hearing /\ call[p].at \in Keyed /\ Alone(p) /\ flag' = flag
        /\ UNCHANGED <<world, handled, unheard>>
    BY <1>6, Moves DEF Insert, At, Hearing, past, Keyed
  <2>2. row' = row \/ (row[call[p].k].st = "claimed" /\ \E to : PutRow(call[p].k, to))
    BY <1>6 DEF Insert
  <2>3. RowsKept
    BY <1>3, <1>5, <2>1, <2>2 DEF RowsKept
  <2> QED BY <1>2, <2>1, <2>3
<1>7. CASE Void(p)
  <2>1. /\ call[p].at \notin Hearing /\ call[p].at \in Keyed /\ Alone(p) /\ flag' = flag
        /\ UNCHANGED <<world, handled, unheard>>
    BY <1>7, Moves DEF Void, At, Hearing, Keyed
  <2>2. row' = row \/ (row[call[p].k].st = "reserved" /\ \E to : PutRow(call[p].k, to))
    BY <1>7 DEF Void
  <2>3. RowsKept
    BY <1>3, <1>5, <2>1, <2>2 DEF RowsKept
  <2> QED BY <1>2, <2>1, <2>3
<1>8. CASE Mark(p)
  <2>1. /\ call[p].at \notin Hearing /\ call[p].at \in Keyed /\ Alone(p) /\ flag' = flag
        /\ UNCHANGED <<world, handled, unheard>>
    BY <1>8, Moves DEF Mark, At, Hearing, past, Keyed
  <2>2. row' = row \/ (row[call[p].k].st = "reserved" /\ \E to : PutRow(call[p].k, to))
    BY <1>8 DEF Mark
  <2>3. RowsKept
    BY <1>3, <1>5, <2>1, <2>2 DEF RowsKept
  <2> QED BY <1>2, <2>1, <2>3
<1>9. CASE FlagProvider(p)
  <2>1. /\ call[p].at \notin Hearing /\ Alone(p) /\ row' = row
        /\ flag' = flag \/ flag \in {NoFlag, <<"provider">>}
        /\ UNCHANGED <<world, handled, unheard>>
    BY <1>9, Moves DEF FlagProvider, At, Hearing, past
  <2>2. issued' = issued
    BY <2>1 DEF world
  <2> QED BY <2>1, <2>2, OtherFlag, HeardStays DEF RowsKept
<1> QED BY <1>1, <1>4, <1>6, <1>7, <1>8, <1>9

\* A delivery, a cancellation and a person's call: what they say to the ledger is at most that
\* a retry was given up.
LEMMA OtherHears ==
  ASSUME IInv, Heard, NEW p \in Callers,
         \/ Flip(p) \/ Lost(p) \/ Second(p) \/ Double(p) \/ Record(p)
         \/ LateRecord(p) \/ Late(p) \/ Ineligible(p) \/ LateFlag(p) \/ Again(p) \/ After(p)
         \/ Schedule(p) \/ GiveUp(p) \/ Unschedule(p) \/ Tell(p) \/ Finish(p) \/ Resolve(p)
         \/ Key(p) \/ Sum(p) \/ Close(p) \/ Clear(p)
         \/ Resume(p) \/ ResumeFlag(p) \/ HandSee(p) \/ HandFlag(p)
  PROVE  Heard'
<1>1. ASSUME call[p].at \notin Hearing, Alone(p), LostKept, RowsKept,
             UNCHANGED <<world, unheard>>
      PROVE  Heard'
  <2>1. issued' = issued
    BY <1>1 DEF world
  <2> QED BY <1>1, <2>1, HeardStays
<1>2. row' = row => RowsKept
  BY DEF RowsKept
<1>3. flag' = flag /\ handled' = handled => LostKept
  BY OtherFlag
<1>4. CASE Lost(p) \/ Late(p) \/ Again(p) \/ Finish(p) \/ Key(p) \/ Sum(p) \/ Resume(p) \/ HandSee(p)
  <2>1. call[p].at \notin Hearing /\ UNCHANGED <<order, world, past>>
    BY <1>4 DEF Lost, Late, Again, Finish, Key, Sum, Resume, HandSee, At, Hearing
  <2>2. CASE Lost(p) \/ Late(p) \/ Again(p) \/ Finish(p)
    BY <2>1, <2>2, Moves, HeardQuietly DEF Lost, Late, Again, Finish
  <2>3. CASE Key(p) \/ Sum(p) \/ Resume(p) \/ HandSee(p)
    <3>1. Alone(p)
      BY <2>3, Moves DEF Key, Sum, Resume, HandSee
    <3> QED BY <2>1, <3>1, HeardQuietly
  <2> QED BY <1>4, <2>2, <2>3
<1>5. CASE Flip(p) \/ Second(p) \/ Record(p) \/ LateRecord(p) \/ Schedule(p) \/ Unschedule(p)
  <2>1. call[p].at \notin Hearing
    BY <1>5 DEF Flip, Second, Record, LateRecord, Schedule, Unschedule, At, Hearing
  <2>2. row' = row /\ flag' = flag /\ handled' = handled /\ UNCHANGED <<world, unheard>>
    BY <1>5 DEF Flip, Second, Record, LateRecord, Schedule, Unschedule, Settled, past, order
  <2>3. Alone(p)
    BY <1>5, Moves DEF Flip, Second, Record, LateRecord, Schedule, Unschedule
  <2> QED BY <1>1, <1>2, <1>3, <2>1, <2>2, <2>3
<1>6. CASE LateFlag(p) \/ Tell(p) \/ ResumeFlag(p) \/ HandFlag(p) \/ Close(p) \/ After(p)
  <2>1. call[p].at \notin Hearing
    BY <1>6 DEF LateFlag, Tell, ResumeFlag, HandFlag, Close, After, At, Hearing
  <2>2. row' = row /\ UNCHANGED <<world, unheard>>
    BY <1>6 DEF LateFlag, Tell, ResumeFlag, HandFlag, Close, After, Settled
  <2>3. Alone(p)
    BY <1>6, Moves DEF LateFlag, Tell, ResumeFlag, HandFlag, Close, After
  <2>4. (\E f : Raise(f)) \/ UNCHANGED <<flag, handled>>
    BY <1>6 DEF LateFlag, Tell, ResumeFlag, HandFlag, Close, After
  <2> QED BY <1>1, <1>2, <1>3, <2>1, <2>2, <2>3, <2>4, RaiseTells
<1>7. CASE Double(p) \/ Ineligible(p) \/ Resolve(p) \/ Clear(p)
  <2>1. call[p].at \notin Hearing
    BY <1>7 DEF Double, Ineligible, Resolve, Clear, At, Hearing
  <2>2. row' = row /\ UNCHANGED <<world, unheard>> /\ handled \subseteq handled'
    BY <1>7 DEF Double, Ineligible, Resolve, Clear, Settled, past
  <2>3. Alone(p)
    BY <1>7, Moves DEF Double, Ineligible, Resolve, Clear
  <2>4. \/ flag' = flag \/ flag = NoFlag
        \/ \E x : flag \in {<<"late", x>>, <<"check", x>>}
    BY <1>7 DEF Double, Ineligible, Resolve, Clear
  <2> QED BY <1>1, <1>2, <2>1, <2>2, <2>3, <2>4, OtherFlag
<1>8. CASE GiveUp(p)
  <2>1. /\ call[p].at \notin Hearing /\ call[p].k \in Keys /\ Alone(p) /\ flag' = flag
        /\ UNCHANGED <<world, handled, unheard>> /\ row \in [Keys -> Row]
    BY <1>8, Called, Moves, IsTyped DEF GiveUp, At, Hearing, past, CallKnows, Keyed, Typed
  <2>2. RowsKept
    BY <1>8, <2>1 DEF GiveUp, PutRow, RowsKept
  <2> QED BY <1>1, <1>3, <2>1, <2>2
<1> QED BY <1>4, <1>5, <1>6, <1>7, <1>8

\* A step of nobody's.
LEMMA NobodyHears ==
  ASSUME Heard, call' = call, row' = row, issued' = issued, unheard' = unheard, LostKept
  PROVE  Heard'
<1> SUFFICES ASSUME NEW k \in Keys, Issued(k)' PROVE row'[k].st = "recorded" \/ KnownOf(k)'
  BY DEF Heard
<1>1. Issued(k)
  BY AnswersSame
<1> QED BY <1>1 DEF Heard, KnownOf, LostKept

LEMMA NextHears == IInv /\ Heard /\ [Next]_vars => Heard'
<1> SUFFICES ASSUME IInv, Heard, [Next]_vars PROVE Heard'
  OBVIOUS
<1>1. CASE UNCHANGED vars
  BY <1>1, OtherFlag, NobodyHears DEF vars, order, world, past
<1>2. ASSUME NEW p \in Callers, Step(p) PROVE Heard'
  BY <1>2, PostHears, FinalizeHears, FlagRowHears, RefundHears, OtherHears DEF Step
<1>3. CASE Looked
  <2>1. LostKept /\ row' = row /\ call' = call /\ issued' = issued /\ unheard' = unheard
    BY <1>3 DEF Looked, LostKept, Open, world
  <2> QED BY <2>1, NobodyHears
<1>4. CASE World
  <2>1. /\ flag' = flag /\ handled' = handled /\ row' = row /\ call' = call
        /\ issued' = issued /\ unheard' = unheard
    BY <1>4 DEF World, Expire, Ship, Dashboard, order, world, past
  <2> QED BY <2>1, OtherFlag, NobodyHears
<1> QED BY <1>1, <1>2, <1>3, <1>4, StartHears, CrashHears DEF Next

LEMMA HeardHolds == Spec => []Heard
<1>1. Init => Heard
  BY DEF Init, Heard, Issued
<1> QED BY <1>1, NextHears, Inductive, PTL DEF Spec

\* Whatever the ledger records was refunded; whatever was refunded keeps its row, for any
\* callers, deaths and lost answers, or the row was voided though the provider had not
\* rejected its key, and the refund is known to a call or a person unless its answer was lost.
THEOREM LedgerMatchesProviderHolds == Spec => []LedgerMatchesProvider
<1>1. Told /\ Heard => LedgerMatchesProvider
  BY DEF Told, Matched, Heard, LedgerMatchesProvider, Active
<1> QED BY <1>1, ToldHolds, HeardHolds, PTL

\* One refund an operator asks for is made once, by whichever of its attempts: an attempt is
\* begun when the ones before it are voided, and none of those was issued, unless it was
\* voided without the provider's rejection, and then its refund is known of.
THEOREM ClickRefundsOnceHolds == Spec => []ClickRefundsOnce
<1>1. Told /\ Heard => ClickRefundsOnce
  <2> SUFFICES ASSUME Told, Heard, NEW a \in 1..Total, NEW s \in 0..Total, NEW n1 \in 0..Tries,
                      NEW n2 \in 0..Tries, n1 < n2, Issued(ClickKey(a, s, n1)),
                      Issued(ClickKey(a, s, n2))
               PROVE  ClickKey(a, s, n1) \in misread /\ KnownOf(ClickKey(a, s, n1))
    BY DEF ClickRefundsOnce
  <2> DEFINE j == ClickKey(a, s, n1)
             k == ClickKey(a, s, n2)
  <2>1. j \in Keys /\ k \in Keys
    BY DEF Keys, ClickKeys
  <2>2. j \in Earlier(k)
    BY DEF Earlier, ClickKeys, ClickKey
  <2>3. Matched(j) /\ Matched(k) /\ InOrder(k)
    BY <2>1 DEF Told
  <2>4. Issued(j) /\ Issued(k)
    OBVIOUS
  <2> HIDE DEF j, k
  <2>5. row[j].st = "voided"
    BY <2>2, <2>3, <2>4 DEF Matched, InOrder, Used, Active
  <2>6. j \in misread /\ KnownOf(j)
    BY <2>1, <2>3, <2>4, <2>5 DEF Matched, Active, Heard
  <2> QED BY <2>6 DEF j
<1> QED BY <1>1, ToldHolds, HeardHolds, PTL

\* A late payment whose delivery was answered for good is refunded, flagged or was looked
\* at, whatever other flags were raised over its own and whoever died on the way.
THEOREM LateMoneyAnsweredHolds == Spec => []LateMoneyAnswered
<1>1. Told => LateMoneyAnswered
  BY DEF Told, Acked, Covered, LateMoneyAnswered
<1> QED BY <1>1, ToldHolds, PTL
================================================================================

------------------------ MODULE StockMovements_proofs ------------------------
(***************************************************************************)
(* Proofs about StockMovements, for every value of its constants: IInv is  *)
(* an inductive invariant, hence the types, the agreement of the answers   *)
(* given for a key, the watermark of a removal, and that a movement lands  *)
(* again only when RingSize later ones have pushed its key out.  Under it, *)
(* Books: the recorded answers explain every unit of the shelf.            *)
(***************************************************************************)
EXTENDS StockMovements, FiniteSetTheorems, TLAPS

-----------------------------------------------------------------------------
(* What the helpers of the specification change *)

Steps == {"idle", "claim", "look", "create", "apply", "resolve", "witness", "mark", "back"}
Past == Steps \ {"idle", "claim", "look", "create"}
Others(p) == \A q \in Callers : q # p => call'[q] = call[q]

\* What CallsFollowClaims says of one call c, when the claims are d.
Follows(c, d) ==
  /\ c.at # "idle" => c.key \in Keys /\ WellFormed(c.req)
  /\ c.at \in {"mark", "back"} => OnItsMark(c.req, c.result)
  /\ c.at \in {"resolve", "witness"} => c.req.kind = "adjust"
  /\ c.at \in Past => d[IdOf(c)].state # "absent" /\ d[IdOf(c)].req = c.req
  /\ c.at = "back" => d[IdOf(c)].state = "applied"

LEMMA FollowsAll ==
  ASSUME TypeOK
  PROVE CallsFollowClaims <=> \A p \in Callers : Follows(call[p], claim)
<1>1. \A p \in Callers : call[p].at \in Steps
  BY DEF TypeOK, Call, Steps
<1> QED BY <1>1 DEF CallsFollowClaims, Follows, Past

LEMMA IdOfMoves ==
  ASSUME NEW c, c.req \in Request, c.key \in Keys
  PROVE IdOf(c) \in MoveIds /\ IdOf(c)[1] = LedgerOf(c.req.kind) /\ IdOf(c)[2] = c.key
BY DEF IdOf, MoveIds, Ledgers, LedgerOf, Request, Kinds

LEMMA GotoStep ==
  ASSUME call \in [Callers -> Call], NEW p \in Callers, NEW a \in Steps, Goto(p, a)
  PROVE /\ call' \in [Callers -> Call]
        /\ Others(p)
        /\ call'[p].at = a
        /\ call'[p].key = call[p].key
        /\ call'[p].req = call[p].req
        /\ call'[p].result = call[p].result
BY DEF Goto, Others, Steps, Call

LEMMA NoRequestType == NoRequest \in Request /\ WellFormed(NoRequest)
BY DEF NoRequest, Request, Kinds, WellFormed

LEMMA OutcomeTypes ==
  /\ NoOutcome \in Outcome /\ ~NoOutcome.ok
  /\ \A n \in Nat : Ok(n) \in Outcome /\ Ok(n).ok /\ Ok(n).onHand = n
  /\ \A n \in Nat, w \in {"stale", "insufficient", "unknown"} :
       Refusal(w, n) \in Outcome /\ ~Refusal(w, n).ok
BY DEF NoOutcome, Ok, Refusal, Outcome

LEMMA IdleType == Idle \in Call /\ Idle.at = "idle"
BY NoRequestType, OutcomeTypes DEF Idle, Call

LEMMA ReturnStep ==
  ASSUME call \in [Callers -> Call], NEW p \in Callers, Return(p)
  PROVE /\ call' \in [Callers -> Call]
        /\ Others(p)
        /\ call'[p].at = "idle"
<1> QED BY IdleType DEF Return, Others

LEMMA DecideStep ==
  ASSUME call \in [Callers -> Call], NEW p \in Callers, NEW a \in Steps, NEW o \in Outcome,
         Decide(p, a, o)
  PROVE /\ call' \in [Callers -> Call]
        /\ Others(p)
        /\ call'[p].at = a
        /\ call'[p].key = call[p].key
        /\ call'[p].req = call[p].req
        /\ call'[p].result = o
<1> DEFINE m == [call EXCEPT ![p].at = a]
<1>1. /\ m \in [Callers -> Call]
      /\ \A q \in Callers : q # p => m[q] = call[q]
      /\ m[p].at = a /\ m[p].key = call[p].key /\ m[p].req = call[p].req
  BY DEF Steps, Call
<1>2. call' = [m EXCEPT ![p].result = o]
  BY DEF Decide
<1> HIDE DEF m
<1> QED BY <1>1, <1>2 DEF Others, Call

\* The ring after a push: one entry of the pushed key, and the others at most one older.
LEMMA PushRing ==
  ASSUME NEW R, ring = R, R \subseteq Entry,
         \A e1, e2 \in R : e1.age = e2.age \/ e1.key = e2.key => e1 = e2,
         NEW id \in MoveIds, NEW o \in Outcome
  PROVE /\ Push(id, o) \subseteq Entry
        /\ \A e1, e2 \in Push(id, o) : e1.age = e2.age \/ e1.key = e2.key => e1 = e2
        /\ \E x \in Push(id, o) : /\ x.ledger = id[1] /\ x.key = id[2]
                                  /\ x.result = o /\ x.age = 0
        /\ \A x \in Push(id, o) :
             \/ x.ledger = id[1] /\ x.key = id[2] /\ x.result = o
             \/ \E e \in R : /\ e.ledger = x.ledger /\ e.key = x.key
                             /\ e.result = x.result /\ e.key # id[2]
        /\ \A e \in R : e.key # id[2] /\ e.age + 1 < RingSize =>
             \E x \in Push(id, o) : /\ x.ledger = e.ledger /\ x.key = e.key
                                    /\ x.age <= e.age + 1
<1> DEFINE replaced == {e \in R : e.key = id[2]}
           Older(e) == \E x \in replaced : x.age < e.age
           Aged(e) == [e EXCEPT !.age = IF Older(e) THEN @ ELSE @ + 1]
           new == [ledger |-> id[1], key |-> id[2], result |-> o, age |-> 0]
           kept == R \ replaced
<1>1. Push(id, o) = {x \in {Aged(e) : e \in kept} : x.age < RingSize} \cup {new}
  BY DEF Push, Remembered
<1>2. new \in Entry /\ new.age = 0 /\ new.key = id[2] /\ new.ledger = id[1] /\ new.result = o
  BY RingAssumption DEF Entry, MoveIds
<1>3. ASSUME NEW e \in R
      PROVE /\ e.age \in Nat /\ e.age < RingSize /\ e.key \in Keys
            /\ e.ledger \in Ledgers /\ e.result \in Outcome
  BY RingAssumption DEF Entry
<1>4. ASSUME NEW e \in kept
      PROVE /\ Aged(e).age = IF Older(e) THEN e.age ELSE e.age + 1
            /\ Aged(e).key = e.key /\ Aged(e).ledger = e.ledger /\ Aged(e).result = e.result
            /\ Aged(e) = [ledger |-> e.ledger, key |-> e.key, result |-> e.result,
                          age |-> IF Older(e) THEN e.age ELSE e.age + 1]
  <2>1. e \in Entry
    OBVIOUS
  <2> HIDE DEF Older
  <2> QED BY <2>1 DEF Entry
<1>5. ASSUME NEW e \in kept
      PROVE /\ Aged(e).age \in Nat /\ Aged(e).age >= 1 /\ Aged(e).age <= e.age + 1
            /\ e.age <= Aged(e).age
  <2>1. Older(e) => e.age >= 1
    BY <1>3
  <2> HIDE DEF Older, Aged
  <2> QED BY <1>3, <1>4, <2>1
<1>6. ASSUME NEW e1 \in kept, NEW e2 \in kept, Aged(e1).age = Aged(e2).age
      PROVE e1 = e2
  <2>1. ASSUME NEW a \in kept, NEW b \in kept, a.age < b.age
        PROVE Aged(a).age < Aged(b).age
    <3>1. CASE Older(a)
      <4>1. Older(b)
        BY <1>3, <2>1, <3>1
      <4> HIDE DEF Older, Aged
      <4> QED BY <1>4, <2>1, <3>1, <4>1
    <3>2. CASE ~Older(a) /\ ~Older(b)
      <4> HIDE DEF Older, Aged
      <4> QED BY <1>3, <1>4, <2>1, <3>2
    <3>3. CASE ~Older(a) /\ Older(b)
      <4>1. PICK x \in replaced : x.age < b.age
        BY <3>3
      <4>2. ~(x.age < a.age) /\ x.age # a.age
        BY <3>3
      <4>3. a.age + 1 < b.age
        BY <1>3, <4>1, <4>2
      <4> HIDE DEF Older, Aged
      <4> QED BY <1>4, <3>3, <4>3
    <3> QED BY <3>1, <3>2, <3>3
  <2>2. e1.age = e2.age
    <3> HIDE DEF Aged, Older
    <3>1. e1.age \in Nat /\ e2.age \in Nat
      BY <1>3
    <3>2. Aged(e1).age \in Nat
      BY <1>5
    <3> QED BY <2>1, <1>6, <3>1, <3>2
  <2> QED BY <2>2
<1> HIDE DEF Aged, Older
<1>7. ASSUME NEW x \in Push(id, o), x # new
      PROVE \E e \in kept : x = Aged(e) /\ Aged(e).age < RingSize
  BY <1>1, <1>7
<1>8. Push(id, o) \subseteq Entry
  <2>1. ASSUME NEW e \in kept, Aged(e).age < RingSize
        PROVE Aged(e) \in Entry
    <3>1. Aged(e).age \in 0..RingSize - 1
      BY <1>5, <2>1, RingAssumption
    <3> QED BY <1>3, <1>4, <3>1 DEF Entry
  <2> QED BY <1>2, <1>7, <2>1
<1>9. \A e1, e2 \in Push(id, o) : e1.age = e2.age \/ e1.key = e2.key => e1 = e2
  <2> SUFFICES ASSUME NEW x1 \in Push(id, o), NEW x2 \in Push(id, o),
                      x1.age = x2.age \/ x1.key = x2.key
               PROVE x1 = x2
    OBVIOUS
  <2>1. CASE x1 = new /\ x2 # new
    <3>1. PICK e \in kept : x2 = Aged(e)
      BY <1>7, <2>1
    <3>2. x2.age >= 1 /\ x2.age \in Nat /\ x2.key # id[2]
      BY <1>4, <1>5, <3>1
    <3> QED BY <1>2, <2>1, <3>2
  <2>2. CASE x1 # new /\ x2 = new
    <3>1. PICK e \in kept : x1 = Aged(e)
      BY <1>7, <2>2
    <3>2. x1.age >= 1 /\ x1.age \in Nat /\ x1.key # id[2]
      BY <1>4, <1>5, <3>1
    <3> QED BY <1>2, <2>2, <3>2
  <2>3. CASE x1 # new /\ x2 # new
    <3>1. PICK e1 \in kept : x1 = Aged(e1)
      BY <1>7, <2>3
    <3>2. PICK e2 \in kept : x2 = Aged(e2)
      BY <1>7, <2>3
    <3>3. e1.key = x1.key /\ e2.key = x2.key
      BY <1>4, <3>1, <3>2
    <3>4. e1 = e2
      BY <1>6, <3>1, <3>2, <3>3
    <3> QED BY <3>1, <3>2, <3>4
  <2> QED BY <2>1, <2>2, <2>3
<1>10. \E x \in Push(id, o) : x.ledger = id[1] /\ x.key = id[2] /\ x.result = o /\ x.age = 0
  BY <1>1, <1>2
<1>11. \A x \in Push(id, o) :
         \/ x.ledger = id[1] /\ x.key = id[2] /\ x.result = o
         \/ \E e \in R : /\ e.ledger = x.ledger /\ e.key = x.key
                         /\ e.result = x.result /\ e.key # id[2]
  BY <1>2, <1>4, <1>7
<1>12. \A e \in R : e.key # id[2] /\ e.age + 1 < RingSize =>
         \E x \in Push(id, o) : /\ x.ledger = e.ledger /\ x.key = e.key /\ x.age <= e.age + 1
  <2> SUFFICES ASSUME NEW e \in R, e.key # id[2], e.age + 1 < RingSize
               PROVE \E x \in Push(id, o) : /\ x.ledger = e.ledger /\ x.key = e.key
                                            /\ x.age <= e.age + 1
    OBVIOUS
  <2>1. e \in kept /\ Aged(e).age \in Nat /\ Aged(e).age <= e.age + 1
    BY <1>5
  <2>2. Aged(e).age < RingSize
    BY <1>3, <2>1, RingAssumption
  <2>3. Aged(e) \in Push(id, o)
    BY <1>1, <2>1, <2>2
  <2> QED BY <1>4, <2>1, <2>3
<1> QED BY <1>8, <1>9, <1>10, <1>11, <1>12

LEMMA TakeStep ==
  ASSUME IInv, NEW p \in Callers, NEW o \in Outcome, call[p].at = "apply",
         OnItsMark(call[p].req, o), Take(p, o),
         \A e \in Remembered(call[p].key) :
           e.ledger = "adjust" /\ LedgerOf(call[p].req.kind) = "stock",
         UNCHANGED claim
  PROVE /\ ring' \subseteq Entry
        /\ \A e1, e2 \in ring' : e1.age = e2.age \/ e1.key = e2.key => e1 = e2
        /\ landed' \subseteq MoveIds /\ took' \in [MoveIds -> Outcome]
        /\ later' \in [MoveIds -> 0..RingSize]
        /\ TwiceOnlyPastTheRing'
        /\ RingFollowsClaims'
        /\ RingRemembers'
<1> DEFINE c == call[p]
           id == IdOf(c)
<1>0. /\ ring \subseteq Entry
      /\ \A e1, e2 \in ring : e1.age = e2.age \/ e1.key = e2.key => e1 = e2
      /\ landed \subseteq MoveIds /\ later \in [MoveIds -> 0..RingSize]
      /\ took \in [MoveIds -> Outcome]
      /\ claim \in [MoveIds -> Claim] /\ c \in Call /\ c.at = "apply"
      /\ TwiceOnlyPastTheRing /\ RingFollowsClaims /\ RingRemembers
  BY DEF IInv, TypeOK
<1>1. Follows(c, claim)
  BY FollowsAll DEF IInv
<1>2. id \in MoveIds /\ id[1] = LedgerOf(c.req.kind) /\ id[2] = c.key
  BY <1>0, <1>1, IdOfMoves DEF Follows, Call
<1>3. claim[id].state # "absent" /\ claim[id].req = c.req
  BY <1>0, <1>1 DEF Follows, Past, Steps
<1>4. /\ ring' = Push(id, o)
      /\ landed' = landed \cup {id} /\ took' = [took EXCEPT ![id] = o]
      /\ relanded' = IF id \in landed THEN relanded \cup {later[id]} ELSE relanded
      /\ later' = [m \in MoveIds |->
                     IF m = id THEN 0
                     ELSE IF m \in landed /\ later[m] < RingSize THEN later[m] + 1
                     ELSE later[m]]
  BY DEF Take
<1>5. \A e \in Remembered(id[2]) : e.ledger = "adjust" /\ id[1] = "stock"
  BY <1>2
<1> HIDE DEF id, c
<1>6. /\ Push(id, o) \subseteq Entry
      /\ \A e1, e2 \in Push(id, o) : e1.age = e2.age \/ e1.key = e2.key => e1 = e2
      /\ \E x \in Push(id, o) : /\ x.ledger = id[1] /\ x.key = id[2]
                                /\ x.result = o /\ x.age = 0
      /\ \A x \in Push(id, o) :
           \/ x.ledger = id[1] /\ x.key = id[2] /\ x.result = o
           \/ \E e \in ring : /\ e.ledger = x.ledger /\ e.key = x.key
                              /\ e.result = x.result /\ e.key # id[2]
      /\ \A e \in ring : e.key # id[2] /\ e.age + 1 < RingSize =>
           \E x \in Push(id, o) : x.ledger = e.ledger /\ x.key = e.key /\ x.age <= e.age + 1
  BY <1>0, <1>2, PushRing
<1>7. landed' \subseteq MoveIds /\ took' \in [MoveIds -> Outcome]
  BY <1>0, <1>2, <1>4
<1>8. later' \in [MoveIds -> 0..RingSize]
  BY <1>0, <1>4, RingAssumption
<1>9. TwiceOnlyPastTheRing'
  <2>1. ASSUME id \in landed, later[id] # RingSize PROVE FALSE
    <3>1. later[id] < RingSize
      BY <1>0, <1>2, <2>1, RingAssumption
    <3>2. PICK e \in Remembered(id[2]) : id[1] = "stock" => e.ledger = "stock"
      BY <1>0, <2>1, <3>1 DEF RingRemembers
    <3> QED BY <1>5, <3>2
  <2> QED BY <1>0, <1>4, <2>1 DEF TwiceOnlyPastTheRing
<1>10. RingFollowsClaims'
  <2> SUFFICES ASSUME NEW x \in ring'
               PROVE /\ claim[<<x.ledger, x.key>>].state # "absent"
                     /\ OnItsMark(claim[<<x.ledger, x.key>>].req, x.result)
    BY DEF RingFollowsClaims
  <2>1. CASE x.ledger = id[1] /\ x.key = id[2] /\ x.result = o
    <3>1. <<x.ledger, x.key>> = id
      BY <1>2, <2>1 DEF MoveIds
    <3>2. OnItsMark(claim[id].req, o)
      BY <1>3 DEF c
    <3> QED BY <1>3, <2>1, <3>1, <3>2
  <2>2. CASE \E e \in ring : e.ledger = x.ledger /\ e.key = x.key /\ e.result = x.result
    BY <1>0, <2>2 DEF RingFollowsClaims
  <2> QED BY <1>4, <1>6, <2>1, <2>2
<1>11. RingRemembers'
  <2> SUFFICES ASSUME NEW m \in landed', later'[m] < RingSize
               PROVE \E x \in ring' : /\ x.key = m[2] /\ x.age <= later'[m]
                                      /\ (m[1] = "stock" => x.ledger = "stock")
    BY DEF RingRemembers, Remembered
  <2>0. m \in MoveIds
    BY <1>7
  <2>1. CASE m = id
    <3>1. later'[m] = 0
      BY <1>4, <2>0, <2>1
    <3>2. PICK x \in Push(id, o) : x.ledger = id[1] /\ x.key = id[2] /\ x.age = 0
      BY <1>6
    <3>3. x \in ring' /\ x.age <= later'[m]
      BY <1>4, <3>1, <3>2
    <3>4. x.key = m[2] /\ (m[1] = "stock" => x.ledger = "stock")
      BY <2>1, <3>2
    <3> QED BY <3>3, <3>4
  <2>2. CASE m # id
    <3>1. m \in landed /\ later[m] \in 0..RingSize
      BY <1>0, <1>4, <2>0, <2>2
    <3>2. later[m] < RingSize /\ later'[m] = later[m] + 1
      BY <1>4, <2>0, <2>2, <3>1, RingAssumption
    <3>3. PICK e \in Remembered(m[2]) : /\ e.age <= later[m]
                                        /\ (m[1] = "stock" => e.ledger = "stock")
      BY <1>0, <3>1, <3>2 DEF RingRemembers
    <3>4. e \in ring /\ e.key = m[2] /\ e.age \in Nat
      BY <1>0, <3>3, RingAssumption DEF Remembered, Entry
    <3>5. CASE m[2] = id[2]
      <4>1. PICK x \in Push(id, o) : x.ledger = id[1] /\ x.key = id[2] /\ x.age = 0
        BY <1>6
      <4>2. e.ledger = "adjust" /\ id[1] = "stock"
        BY <1>5, <3>3, <3>5
      <4>3. x \in ring' /\ x.key = m[2] /\ x.age <= later'[m]
        BY <1>4, <3>1, <3>2, <3>5, <4>1
      <4>4. m[1] = "stock" => x.ledger = "stock"
        BY <4>1, <4>2
      <4> QED BY <4>3, <4>4
    <3>6. CASE m[2] # id[2]
      <4>1. e.age + 1 < RingSize /\ e.age + 1 <= later'[m]
        BY <2>2, <3>1, <3>2, <3>3, <3>4, RingAssumption
      <4>2. PICK x \in Push(id, o) : x.ledger = e.ledger /\ x.key = e.key /\ x.age <= e.age + 1
        BY <1>6, <3>4, <3>6, <4>1
      <4>3. x.age \in Nat
        BY <1>6, RingAssumption DEF Entry
      <4>4. x.age <= later'[m]
        BY <3>1, <3>2, <3>4, <4>1, <4>2, <4>3
      <4>5. x \in ring' /\ x.key = m[2] /\ (m[1] = "stock" => x.ledger = "stock")
        BY <1>4, <3>3, <3>4, <4>2
      <4> QED BY <4>4, <4>5
    <3> QED BY <3>5, <3>6
  <2> QED BY <2>1, <2>2
<1> QED BY <1>4, <1>6, <1>7, <1>8, <1>9, <1>10, <1>11

-----------------------------------------------------------------------------
(* What a step of one call preserves *)

\* Claims are never dropped or changed once applied, and a step writes them rightly.
Extend == /\ claim' \in [MoveIds -> Claim]
          /\ \A m \in MoveIds : claim[m].state # "absent" =>
               claim'[m].state # "absent" /\ claim'[m].req = claim[m].req
          /\ \A m \in MoveIds : claim[m].state = "applied" => claim'[m] = claim[m]
          /\ ClaimsKept'

LEMMA CallsFollow ==
  ASSUME IInv, NEW p \in Callers, Others(p), call' \in [Callers -> Call], Extend,
         Follows(call'[p], claim')
  PROVE CallsFollowClaims'
<1>1. \A q \in Callers : Follows(call'[q], claim')
  <2> SUFFICES ASSUME NEW q \in Callers, q # p PROVE Follows(call'[q], claim')
    OBVIOUS
  <2>1. call'[q] = call[q] /\ call[q] \in Call /\ Follows(call[q], claim)
    BY FollowsAll DEF Others, IInv, TypeOK
  <2>2. call[q].at # "idle" => IdOf(call[q]) \in MoveIds
    BY <2>1, IdOfMoves DEF Follows, Call
  <2> QED BY <2>1, <2>2 DEF Follows, Extend, Past
<1>2. \A q \in Callers : call'[q].at \in Steps
  BY DEF Call, Steps
<1> QED BY <1>1, <1>2 DEF CallsFollowClaims, Follows, Past

LEMMA RingFollows ==
  ASSUME IInv, Extend, UNCHANGED <<ring, landed, took, later, relanded>>
  PROVE RingFollowsClaims' /\ RingRemembers' /\ TwiceOnlyPastTheRing'
<1>1. \A e \in ring : <<e.ledger, e.key>> \in MoveIds
  BY DEF IInv, TypeOK, Entry, MoveIds
<1>2. RingFollowsClaims'
  BY <1>1 DEF IInv, RingFollowsClaims, Extend
<1>3. RingRemembers'
  BY DEF IInv, RingRemembers, Remembered
<1> QED BY <1>2, <1>3 DEF IInv, TwiceOnlyPastTheRing

LEMMA AnswersFollow ==
  ASSUME IInv, Extend, answers' = answers
  PROVE AnswersRecorded'
BY DEF IInv, AnswersRecorded, Extend

LEMMA AnswerStep ==
  ASSUME IInv, NEW p \in Callers, IdOf(call[p]) \in MoveIds,
         claim[IdOf(call[p])].state = "applied",
         Answer(p, claim[IdOf(call[p])].result), UNCHANGED claim
  PROVE /\ answers' \in [MoveIds -> SUBSET Outcome]
        /\ AnswersRecorded'
        /\ Return(p)
<1> DEFINE id == IdOf(call[p])
           o == claim[id].result
<1>1. id \in MoveIds /\ claim[id].state = "applied" /\ o \in Outcome
  BY DEF IInv, TypeOK, Claim
<1>2. answers' = [answers EXCEPT ![id] = @ \cup {o}] /\ Return(p)
  BY DEF Answer
<1>3. answers \in [MoveIds -> SUBSET Outcome]
  BY DEF IInv, TypeOK
<1>4. AnswersRecorded
  BY DEF IInv
<1> HIDE DEF id
<1>5. \A m \in MoveIds : answers'[m] = IF m = id THEN answers[m] \cup {o} ELSE answers[m]
  BY <1>2, <1>3
<1>6. answers' \in [MoveIds -> SUBSET Outcome]
  BY <1>1, <1>2, <1>3
<1>7. answers'[id] = {o}
  BY <1>1, <1>4, <1>5 DEF AnswersRecorded
<1>8. AnswersRecorded'
  BY <1>1, <1>4, <1>5, <1>7 DEF AnswersRecorded
<1> QED BY <1>2, <1>6, <1>8

LEMMA Kept ==
  ASSUME IInv, UNCHANGED claim
  PROVE Extend
BY DEF IInv, TypeOK, Extend, ClaimsKept

\* A step that moves nothing but its own call.
LEMMA QuietStep ==
  ASSUME IInv, NEW p \in Callers, Others(p), call' \in [Callers -> Call],
         Follows(call'[p], claim),
         UNCHANGED <<aggregate, claim, seeded, sold, landed, took, later, relanded, answers>>
  PROVE IInv'
<1>1. Extend
  BY Kept
<1>2. TypeOK'
  BY DEF IInv, TypeOK, aggregate
<1>3. CallsFollowClaims'
  BY <1>1, CallsFollow
<1>4. RingFollowsClaims' /\ RingRemembers' /\ TwiceOnlyPastTheRing'
  BY <1>1, RingFollows DEF aggregate
<1>5. AnswersRecorded'
  BY <1>1, AnswersFollow
<1>6. ClaimsKept'
  BY <1>1 DEF Extend
<1> QED BY <1>2, <1>3, <1>4, <1>5, <1>6 DEF IInv

\* A call that stops where it is.
LEMMA IdleFollows ==
  ASSUME NEW c, NEW d, c.at = "idle"
  PROVE Follows(c, d)
BY DEF Follows, Past

\* What is known of a call under way.
LEMMA CallFacts ==
  ASSUME IInv, NEW p \in Callers, call[p].at # "idle"
  PROVE /\ call \in [Callers -> Call]
        /\ call[p].key \in Keys /\ call[p].req \in Request /\ call[p].result \in Outcome
        /\ WellFormed(call[p].req)
        /\ call[p].at \in {"mark", "back"} => OnItsMark(call[p].req, call[p].result)
        /\ IdOf(call[p]) \in MoveIds
        /\ IdOf(call[p])[1] = LedgerOf(call[p].req.kind)
        /\ IdOf(call[p])[2] = call[p].key
        /\ call[p].at \in {"resolve", "witness"} => call[p].req.kind = "adjust"
        /\ call[p].at \in Past => /\ claim[IdOf(call[p])].state # "absent"
                                 /\ claim[IdOf(call[p])].req = call[p].req
        /\ call[p].at = "back" => claim[IdOf(call[p])].state = "applied"
        /\ claim[IdOf(call[p])] \in Claim
<1>1. call \in [Callers -> Call] /\ claim \in [MoveIds -> Claim]
  BY DEF IInv, TypeOK
<1>2. Follows(call[p], claim)
  BY FollowsAll DEF IInv
<1>3. call[p].key \in Keys /\ call[p].req \in Request /\ call[p].result \in Outcome
  BY <1>1, <1>2 DEF Follows, Call
<1>4. /\ IdOf(call[p]) \in MoveIds /\ IdOf(call[p])[1] = LedgerOf(call[p].req.kind)
      /\ IdOf(call[p])[2] = call[p].key
  BY <1>3, IdOfMoves
<1> QED BY <1>1, <1>2, <1>3, <1>4 DEF Follows

\* A call whose phase alone changes goes on following its claim.
LEMMA GoesOn ==
  ASSUME IInv, NEW p \in Callers, NEW a \in Steps, Goto(p, a), call[p].at # "idle",
         a \notin {"mark", "back"}, a \in {"resolve", "witness"} => call[p].req.kind = "adjust",
         a \in Past => call[p].at \in Past
  PROVE Others(p) /\ call' \in [Callers -> Call] /\ Follows(call'[p], claim)
<1>1. call \in [Callers -> Call]
  BY DEF IInv, TypeOK
<1>2. Others(p) /\ call' \in [Callers -> Call] /\ call'[p].at = a
      /\ call'[p].key = call[p].key /\ call'[p].req = call[p].req
      /\ call'[p].result = call[p].result
  BY <1>1, GotoStep
<1>3. IdOf(call'[p]) = IdOf(call[p])
  BY <1>2 DEF IdOf
<1> QED BY <1>2, <1>3, CallFacts DEF Follows

\* A call that decides its outcome goes on to record it.
LEMMA Decided ==
  ASSUME IInv, NEW p \in Callers, call[p].at \in {"apply", "witness"}, NEW o \in Outcome,
         OnItsMark(call[p].req, o), Decide(p, "mark", o)
  PROVE Others(p) /\ call' \in [Callers -> Call] /\ Follows(call'[p], claim)
<1>1. call \in [Callers -> Call]
  BY DEF IInv, TypeOK
<1>2. Others(p) /\ call' \in [Callers -> Call] /\ call'[p].at = "mark"
      /\ call'[p].key = call[p].key /\ call'[p].req = call[p].req /\ call'[p].result = o
  BY <1>1, DecideStep DEF Steps
<1>3. IdOf(call'[p]) = IdOf(call[p])
  BY <1>2 DEF IdOf
<1>4. call[p].at \in Past /\ call[p].at # "idle"
  BY DEF Past, Steps
<1> QED BY <1>2, <1>3, <1>4, CallFacts DEF Follows

-----------------------------------------------------------------------------
(* Every action preserves the invariant *)

\* A call that returns, having moved nothing.
LEMMA ReturnQuiet ==
  ASSUME IInv, NEW p \in Callers, Return(p),
         UNCHANGED <<aggregate, claim, seeded, sold, landed, took, later, relanded, answers>>
  PROVE IInv'
<1>1. call \in [Callers -> Call]
  BY DEF IInv, TypeOK
<1>2. Others(p) /\ call' \in [Callers -> Call] /\ call'[p].at = "idle"
  BY <1>1, ReturnStep
<1> QED BY <1>2, IdleFollows, QuietStep

\* A call that is given the recorded outcome.
LEMMA AnswerQuiet ==
  ASSUME IInv, NEW p \in Callers, call[p].at # "idle", claim[IdOf(call[p])].state = "applied",
         Answer(p, claim[IdOf(call[p])].result),
         UNCHANGED <<aggregate, claim, seeded, sold, landed, took, later, relanded>>
  PROVE IInv'
<1>1. Extend
  BY Kept
<1>2. IdOf(call[p]) \in MoveIds /\ call \in [Callers -> Call]
  BY CallFacts
<1>3. answers' \in [MoveIds -> SUBSET Outcome] /\ AnswersRecorded' /\ Return(p)
  BY <1>2, AnswerStep
<1>4. Others(p) /\ call' \in [Callers -> Call] /\ call'[p].at = "idle"
  BY <1>2, <1>3, ReturnStep
<1>5. TypeOK'
  BY <1>3, <1>4 DEF IInv, TypeOK, aggregate
<1>6. CallsFollowClaims'
  BY <1>1, <1>4, IdleFollows, CallsFollow
<1>7. RingFollowsClaims' /\ RingRemembers' /\ TwiceOnlyPastTheRing'
  BY <1>1, RingFollows DEF aggregate
<1>8. ClaimsKept'
  BY <1>1 DEF Extend
<1> QED BY <1>3, <1>5, <1>6, <1>7, <1>8 DEF IInv

LEMMA BeginStep ==
  ASSUME IInv, NEW p \in Callers, NEW key \in Keys, NEW req \in Requests, Begin(p, key, req)
  PROVE /\ Others(p) /\ call' \in [Callers -> Call]
        /\ call'[p].at = "claim" /\ call'[p].key = key /\ call'[p].req = req
        /\ call'[p].result = NoOutcome /\ req \in Request /\ WellFormed(req)
<1>1. req \in Request /\ WellFormed(req)
  BY RequestAssumption DEF Request, WellFormed
<1> DEFINE c == [Idle EXCEPT !.at = "claim", !.key = key, !.req = req]
<1>2. c = [at |-> "claim", key |-> key, req |-> req, result |-> NoOutcome]
  <2> DEFINE c1 == [Idle EXCEPT !.at = "claim"]
             c2 == [c1 EXCEPT !.key = key]
  <2>1. c1 = [at |-> "claim", key |-> None, req |-> NoRequest, result |-> NoOutcome]
    BY DEF Idle
  <2>2. c2 = [at |-> "claim", key |-> key, req |-> NoRequest, result |-> NoOutcome]
    <3> HIDE DEF c1
    <3> QED BY <2>1
  <2>3. c = [c2 EXCEPT !.req = req]
    BY DEF c1, c2, c
  <2> HIDE DEF c2, c
  <2> QED BY <2>2, <2>3
<1> HIDE DEF c
<1>3. c \in Call /\ c.at = "claim" /\ c.key = key /\ c.req = req /\ c.result = NoOutcome
  BY <1>1, <1>2, OutcomeTypes DEF Call
<1>4. call' = [call EXCEPT ![p] = c] /\ call \in [Callers -> Call]
  BY DEF Begin, IInv, TypeOK, c
<1>5. Others(p) /\ call' \in [Callers -> Call] /\ call'[p] = c
  BY <1>3, <1>4 DEF Others
<1> QED BY <1>1, <1>3, <1>5

LEMMA BeginInv ==
  ASSUME IInv, NEW p \in Callers, NEW key \in Keys, NEW req \in Requests, Begin(p, key, req)
  PROVE IInv'
<1>1. /\ Others(p) /\ call' \in [Callers -> Call]
      /\ call'[p].at = "claim" /\ call'[p].key = key /\ WellFormed(call'[p].req)
  BY BeginStep
<1>2. Follows(call'[p], claim)
  BY <1>1 DEF Follows, Past
<1> QED BY <1>1, <1>2, QuietStep DEF Begin, history

\* A call that finds its movement claimed goes on with it as recorded.
Resume(p) == call' = [call EXCEPT ![p].at = "apply", ![p].req = claim[IdOf(call[p])].req]

LEMMA ResumeStep ==
  ASSUME IInv, NEW p \in Callers, call[p].at = "claim", claim[IdOf(call[p])].state = "claimed",
         Resume(p)
  PROVE /\ call' \in [Callers -> Call] /\ Others(p)
        /\ call'[p].at = "apply" /\ call'[p].key = call[p].key /\ call[p].key \in Keys
        /\ call'[p].req = claim[IdOf(call[p])].req /\ WellFormed(call'[p].req)
        /\ LedgerOf(call'[p].req.kind) = LedgerOf(call[p].req.kind)
        /\ IdOf(call'[p]) = IdOf(call[p])
<1> DEFINE id == IdOf(call[p])
<1> DEFINE m == [call EXCEPT ![p].at = "apply"]
           r == claim[id].req
<1>1. /\ id \in MoveIds /\ id[2] = call[p].key /\ call \in [Callers -> Call]
      /\ r \in Request /\ call[p].key \in Keys
  BY CallFacts DEF Claim
<1>2. LedgerOf(r.kind) = id[1] /\ WellFormed(r)
  BY <1>1 DEF IInv, ClaimsKept
<1> HIDE DEF id, r
<1>3. /\ m \in [Callers -> Call] /\ m[p].at = "apply" /\ m[p].key = call[p].key
      /\ \A q \in Callers : q # p => m[q] = call[q]
  BY <1>1 DEF Call
<1>4. call' = [m EXCEPT ![p].req = r]
  BY DEF Resume, r, id
<1> HIDE DEF m
<1>5. /\ call' \in [Callers -> Call] /\ Others(p)
      /\ call'[p].at = "apply" /\ call'[p].key = call[p].key /\ call'[p].req = r
  BY <1>1, <1>3, <1>4 DEF Call, Others
<1>6. id = <<id[1], id[2]>>
  BY <1>1 DEF MoveIds
<1>7. IdOf(call'[p]) = id
  BY <1>1, <1>2, <1>5, <1>6 DEF IdOf
<1>8. id[1] = LedgerOf(call[p].req.kind)
  BY CallFacts DEF id
<1> QED BY <1>1, <1>2, <1>5, <1>7, <1>8 DEF r, id

LEMMA ReadClaimInv ==
  ASSUME IInv, NEW p \in Callers, ReadClaim(p)
  PROVE IInv'
<1> DEFINE id == IdOf(call[p])
<1>0. call[p].at = "claim" /\ call[p].at # "idle"
  BY DEF ReadClaim
<1>1. UNCHANGED <<aggregate, claim, seeded, sold, landed, took, later, relanded>>
  BY DEF ReadClaim
<1>2. CASE Goto(p, "look") /\ UNCHANGED answers
  <2>1. Others(p) /\ call' \in [Callers -> Call] /\ Follows(call'[p], claim)
    BY <1>0, <1>2, GoesOn DEF Steps, Past
  <2> QED BY <1>1, <1>2, <2>1, QuietStep
<1>3. CASE Return(p) /\ UNCHANGED answers
  BY <1>1, <1>3, ReturnQuiet
<1>4. CASE claim[id].state = "applied" /\ Answer(p, claim[id].result)
  BY <1>0, <1>1, <1>4, AnswerQuiet
<1>5. CASE /\ claim[id].state = "claimed"
           /\ call' = [call EXCEPT ![p].at = "apply", ![p].req = claim[id].req]
           /\ UNCHANGED answers
  <2>1. /\ call' \in [Callers -> Call] /\ Others(p)
        /\ call'[p].at = "apply" /\ call'[p].key \in Keys
        /\ call'[p].req = claim[id].req /\ WellFormed(call'[p].req)
        /\ IdOf(call'[p]) = id
    BY <1>0, <1>5, ResumeStep DEF Resume
  <2>2. Follows(call'[p], claim)
    BY <1>5, <2>1 DEF Follows
  <2> QED BY <1>1, <1>5, <2>1, <2>2, QuietStep
<1> QED BY <1>2, <1>3, <1>4, <1>5 DEF ReadClaim

LEMMA LookInv ==
  ASSUME IInv, NEW p \in Callers, Look(p)
  PROVE IInv'
<1>1. CASE Goto(p, "create")
  <2>1. Others(p) /\ call' \in [Callers -> Call] /\ Follows(call'[p], claim)
    BY <1>1, GoesOn DEF Look, Steps, Past
  <2> QED BY <2>1, QuietStep DEF Look, history
<1>2. CASE Return(p)
  BY <1>2, ReturnQuiet DEF Look, history
<1> QED BY <1>1, <1>2 DEF Look

LEMMA CrashInv ==
  ASSUME IInv, NEW p \in Callers, Crash(p)
  PROVE IInv'
BY ReturnQuiet DEF Crash, history

\* The claim is created by the call that finds none.
LEMMA CreateStep ==
  ASSUME IInv, NEW p \in Callers, Create(p), claim[IdOf(call[p])].state = "absent"
  PROVE /\ claim' \in [MoveIds -> Claim] /\ IdOf(call[p]) \in MoveIds
        /\ claim'[IdOf(call[p])].state = "claimed" /\ claim'[IdOf(call[p])].req = call[p].req
        /\ ~claim'[IdOf(call[p])].result.ok
        /\ \A m \in MoveIds : m # IdOf(call[p]) => claim'[m] = claim[m]
        /\ Others(p) /\ call' \in [Callers -> Call] /\ call'[p].at = "apply"
        /\ call'[p].key = call[p].key /\ call'[p].req = call[p].req
        /\ IdOf(call'[p]) = IdOf(call[p])
<1> DEFINE c == call[p]
           id == IdOf(c)
           d == [NoClaim EXCEPT !.state = "claimed", !.req = c.req]
<1>1. c.at = "create" /\ c.at # "idle"
  BY DEF Create
<1>2. id \in MoveIds /\ c.req \in Request /\ c.key \in Keys
  BY <1>1, CallFacts
<1>3. claim' = [claim EXCEPT ![id] = d] /\ Goto(p, "apply")
  BY DEF Create
<1>4. d = [state |-> "claimed", req |-> c.req, result |-> NoOutcome]
  <2> DEFINE d1 == [NoClaim EXCEPT !.state = "claimed"]
  <2>1. d1 = [state |-> "claimed", req |-> NoRequest, result |-> NoOutcome]
    BY DEF NoClaim
  <2>2. d = [d1 EXCEPT !.req = c.req]
    BY DEF d1, d
  <2> HIDE DEF d1, d
  <2> QED BY <2>1, <2>2
<1>5. call \in [Callers -> Call] /\ claim \in [MoveIds -> Claim]
  BY DEF IInv, TypeOK
<1> HIDE DEF id, d
<1>6. d \in Claim /\ d.state = "claimed" /\ d.req = c.req /\ ~d.result.ok
  BY <1>2, <1>4, OutcomeTypes DEF Claim
<1>7. claim' \in [MoveIds -> Claim] /\ claim'[id] = d
      /\ \A m \in MoveIds : m # id => claim'[m] = claim[m]
  BY <1>2, <1>3, <1>5, <1>6
<1>8. /\ Others(p) /\ call' \in [Callers -> Call] /\ call'[p].at = "apply"
      /\ call'[p].key = c.key /\ call'[p].req = c.req
  BY <1>3, <1>5, GotoStep DEF Steps
<1>9. IdOf(call'[p]) = id
  BY <1>8 DEF IdOf, id
<1> QED BY <1>2, <1>6, <1>7, <1>8, <1>9 DEF id

LEMMA CreateInv ==
  ASSUME IInv, NEW p \in Callers, Create(p)
  PROVE IInv'
<1> DEFINE c == call[p]
           id == IdOf(c)
<1>1. c.at = "create" /\ c.at # "idle" /\ UNCHANGED <<aggregate, history>>
  BY DEF Create
<1>2. id[1] = LedgerOf(c.req.kind) /\ WellFormed(c.req) /\ c.key \in Keys
  BY <1>1, CallFacts
<1>3. CASE claim[id].state # "absent"
  <2>1. Goto(p, "claim") /\ UNCHANGED claim
    BY <1>3 DEF Create
  <2>2. Others(p) /\ call' \in [Callers -> Call] /\ Follows(call'[p], claim)
    BY <1>1, <2>1, GoesOn DEF Steps, Past
  <2> QED BY <1>1, <2>1, <2>2, QuietStep DEF history
<1>4. CASE claim[id].state = "absent"
  <2>1. /\ claim' \in [MoveIds -> Claim] /\ id \in MoveIds
        /\ claim'[id].state = "claimed" /\ claim'[id].req = c.req /\ ~claim'[id].result.ok
        /\ \A m \in MoveIds : m # id => claim'[m] = claim[m]
        /\ Others(p) /\ call' \in [Callers -> Call] /\ call'[p].at = "apply"
        /\ call'[p].key = c.key /\ call'[p].req = c.req /\ IdOf(call'[p]) = id
    BY <1>4, CreateStep
  <2> HIDE DEF id
  <2>2. ClaimsKept
    BY DEF IInv
  <2>3. ClaimsKept'
    BY <1>2, <2>1, <2>2 DEF ClaimsKept, OnItsMark
  <2>4. Extend
    BY <1>4, <2>1, <2>3 DEF Extend
  <2>5. Follows(call'[p], claim')
    BY <1>2, <2>1 DEF Follows
  <2>6. CallsFollowClaims'
    BY <2>1, <2>4, <2>5, CallsFollow
  <2>7. RingFollowsClaims' /\ RingRemembers' /\ TwiceOnlyPastTheRing'
    BY <1>1, <2>4, RingFollows DEF aggregate, history
  <2>8. AnswersRecorded'
    BY <1>1, <2>4, AnswersFollow DEF history
  <2>9. TypeOK'
    BY <1>1, <2>1 DEF IInv, TypeOK, aggregate, history
  <2> QED BY <2>3, <2>6, <2>7, <2>8, <2>9 DEF IInv
<1> QED BY <1>3, <1>4

LEMMA AdjustDoneInv ==
  ASSUME IInv, NEW p \in Callers, AdjustDone(p)
  PROVE IInv'
<1>1. Others(p) /\ call' \in [Callers -> Call] /\ Follows(call'[p], claim)
  BY GoesOn DEF AdjustDone, Steps, Past
<1> QED BY <1>1, QuietStep DEF AdjustDone, history

LEMMA ResolveInv ==
  ASSUME IInv, NEW p \in Callers, Resolve(p)
  PROVE IInv'
<1>1. CASE claim[IdOf(call[p])].state = "applied"
  <2>1. Answer(p, claim[IdOf(call[p])].result) /\ call[p].at # "idle"
        /\ UNCHANGED <<aggregate, claim, seeded, sold, landed, took, later, relanded>>
    BY <1>1 DEF Resolve
  <2> QED BY <1>1, <2>1, AnswerQuiet
<1>2. CASE claim[IdOf(call[p])].state # "applied"
  <2>1. /\ Goto(p, "witness") /\ call[p].at = "resolve"
        /\ UNCHANGED <<aggregate, claim, seeded, sold, landed, took, later, relanded, answers>>
    BY <1>2 DEF Resolve
  <2>2. call[p].req.kind = "adjust"
    BY <2>1, CallFacts
  <2>3. Others(p) /\ call' \in [Callers -> Call] /\ Follows(call'[p], claim)
    BY <2>1, <2>2, GoesOn DEF Steps, Past
  <2> QED BY <2>1, <2>3, QuietStep
<1> QED BY <1>1, <1>2

LEMMA ReadBackInv ==
  ASSUME IInv, NEW p \in Callers, ReadBack(p)
  PROVE IInv'
<1>1. call[p].at = "back" /\ call[p].at # "idle"
  BY DEF ReadBack
<1>2. claim[IdOf(call[p])].state = "applied"
  BY <1>1, CallFacts
<1> QED BY <1>1, <1>2, AnswerQuiet DEF ReadBack

\* An outcome the ring remembers is one of the caller's movement.
LEMMA SeenFacts ==
  ASSUME IInv, NEW p \in Callers, call[p].at \in {"apply", "witness"},
         NEW e \in Remembered(call[p].key), e.ledger = LedgerOf(call[p].req.kind)
  PROVE e.result \in Outcome /\ OnItsMark(call[p].req, e.result)
<1>1. e \in ring /\ e.key = call[p].key /\ e \in Entry
  BY DEF Remembered, IInv, TypeOK
<1>2. <<e.ledger, e.key>> = IdOf(call[p])
  BY <1>1 DEF IdOf
<1>3. OnItsMark(claim[IdOf(call[p])].req, e.result)
  BY <1>1, <1>2 DEF IInv, RingFollowsClaims
<1>4. call[p].at \in Past /\ call[p].at # "idle"
  BY DEF Past, Steps
<1>5. claim[IdOf(call[p])].req = call[p].req
  BY <1>4, CallFacts
<1> QED BY <1>1, <1>3, <1>5 DEF Entry

LEMMA WitnessInv ==
  ASSUME IInv, NEW p \in Callers, Witness(p)
  PROVE IInv'
<1> DEFINE c == call[p]
           seen == {e \in Remembered(c.key) : e.ledger = "adjust"}
           o == IF seen # {} THEN (CHOOSE e \in seen : TRUE).result ELSE Ok(0)
<1>1. c.at = "witness"
      /\ UNCHANGED <<aggregate, claim, seeded, sold, landed, took, later, relanded, answers>>
  BY DEF Witness
<1>2. c.req.kind = "adjust" /\ WellFormed(c.req)
  BY <1>1, CallFacts
<1>3. o \in Outcome
  <2>1. CASE seen = {}
    BY <2>1, OutcomeTypes
  <2>2. CASE seen # {}
    <3>1. (CHOOSE e \in seen : TRUE) \in seen
      BY <2>2
    <3>2. \A e \in seen : e.result \in Outcome
      BY <1>1, <1>2, SeenFacts DEF LedgerOf
    <3> QED BY <2>2, <3>1, <3>2
  <2> QED BY <2>1, <2>2
<1>4. OnItsMark(c.req, o)
  BY <1>2 DEF OnItsMark, WellFormed
<1>5. CASE Decide(p, "mark", o)
  <2>1. Others(p) /\ call' \in [Callers -> Call] /\ Follows(call'[p], claim)
    <3> HIDE DEF o
    <3> QED BY <1>1, <1>3, <1>4, <1>5, Decided
  <2> QED BY <1>1, <2>1, QuietStep
<1>6. CASE Return(p)
  BY <1>1, <1>6, ReturnQuiet
<1> QED BY <1>5, <1>6 DEF Witness

\* The first outcome recorded stays.
LEMMA MarkStep ==
  ASSUME IInv, NEW p \in Callers, Mark(p)
  PROVE /\ claim' \in [MoveIds -> Claim] /\ IdOf(call[p]) \in MoveIds
        /\ claim'[IdOf(call[p])].state = "applied" /\ claim'[IdOf(call[p])].req = call[p].req
        /\ claim[IdOf(call[p])].req = call[p].req
        /\ claim[IdOf(call[p])].state = "applied" => claim' = claim
        /\ claim[IdOf(call[p])].state # "applied" =>
             claim'[IdOf(call[p])].result = call[p].result
        /\ \A m \in MoveIds : m # IdOf(call[p]) => claim'[m] = claim[m]
        /\ Others(p) /\ call' \in [Callers -> Call] /\ call'[p].at = "back"
        /\ call'[p].key = call[p].key /\ call'[p].req = call[p].req
        /\ call'[p].result = call[p].result /\ IdOf(call'[p]) = IdOf(call[p])
<1> DEFINE c == call[p]
           id == IdOf(c)
<1>1. c.at = "mark" /\ c.at # "idle" /\ Goto(p, "back")
  BY DEF Mark
<1>2. /\ id \in MoveIds /\ c.result \in Outcome
      /\ claim[id].req = c.req /\ claim[id] \in Claim
  BY <1>1, CallFacts DEF Past, Steps
<1>3. call \in [Callers -> Call] /\ claim \in [MoveIds -> Claim]
  BY DEF IInv, TypeOK
<1>4. claim' = IF claim[id].state = "applied" THEN claim
               ELSE [claim EXCEPT ![id].state = "applied", ![id].result = c.result]
  BY DEF Mark
<1>5. /\ Others(p) /\ call' \in [Callers -> Call] /\ call'[p].at = "back"
      /\ call'[p].key = c.key /\ call'[p].req = c.req /\ call'[p].result = c.result
  BY <1>1, <1>3, GotoStep DEF Steps
<1>6. IdOf(call'[p]) = id
  BY <1>5 DEF IdOf
<1> HIDE DEF id
<1>7. /\ claim' \in [MoveIds -> Claim] /\ claim'[id].state = "applied"
      /\ claim'[id].req = c.req
      /\ claim[id].state = "applied" => claim' = claim
      /\ claim[id].state # "applied" => claim'[id].result = c.result
      /\ \A m \in MoveIds : m # id => claim'[m] = claim[m]
  <2>1. CASE claim[id].state = "applied"
    BY <1>2, <1>3, <1>4, <2>1
  <2>2. CASE claim[id].state # "applied"
    <3> DEFINE m1 == [claim EXCEPT ![id].state = "applied"]
    <3>1. /\ m1 \in [MoveIds -> Claim] /\ m1[id].state = "applied" /\ m1[id].req = c.req
          /\ \A m \in MoveIds : m # id => m1[m] = claim[m]
      BY <1>2, <1>3 DEF Claim
    <3>2. claim' = [m1 EXCEPT ![id].result = c.result]
      BY <1>4, <2>2
    <3> HIDE DEF m1
    <3> QED BY <1>2, <2>2, <3>1, <3>2 DEF Claim
  <2> QED BY <2>1, <2>2
<1> QED BY <1>2, <1>5, <1>6, <1>7 DEF id

LEMMA MarkInv ==
  ASSUME IInv, NEW p \in Callers, Mark(p)
  PROVE IInv'
<1> DEFINE c == call[p]
           id == IdOf(c)
<1>1. c.at = "mark" /\ c.at # "idle" /\ UNCHANGED <<aggregate, history>>
  BY DEF Mark
<1>2. /\ OnItsMark(c.req, c.result) /\ claim[id].state # "absent"
      /\ c.key \in Keys /\ WellFormed(c.req)
  BY <1>1, CallFacts DEF Past, Steps
<1>3. claim \in [MoveIds -> Claim] /\ ClaimsKept
  BY DEF IInv, TypeOK
<1>4. /\ claim' \in [MoveIds -> Claim] /\ id \in MoveIds
      /\ claim'[id].state = "applied" /\ claim'[id].req = c.req /\ claim[id].req = c.req
      /\ claim[id].state = "applied" => claim' = claim
      /\ claim[id].state # "applied" => claim'[id].result = c.result
      /\ \A m \in MoveIds : m # id => claim'[m] = claim[m]
      /\ Others(p) /\ call' \in [Callers -> Call] /\ call'[p].at = "back"
      /\ call'[p].key = c.key /\ call'[p].req = c.req /\ call'[p].result = c.result
      /\ IdOf(call'[p]) = id
  BY MarkStep
<1> HIDE DEF id
<1>5. ClaimsKept'
  <2>1. LedgerOf(c.req.kind) = id[1]
    BY <1>2, <1>3, <1>4 DEF ClaimsKept
  <2>2. OnItsMark(c.req, claim'[id].result)
    BY <1>2, <1>3, <1>4 DEF ClaimsKept
  <2> QED BY <1>2, <1>3, <1>4, <2>1, <2>2 DEF ClaimsKept
<1>6. Extend
  BY <1>2, <1>4, <1>5 DEF Extend
<1>7. Follows(call'[p], claim')
  BY <1>2, <1>4 DEF Follows
<1>8. CallsFollowClaims'
  BY <1>4, <1>6, <1>7, CallsFollow
<1>9. RingFollowsClaims' /\ RingRemembers' /\ TwiceOnlyPastTheRing'
  BY <1>1, <1>6, RingFollows DEF aggregate, history
<1>10. AnswersRecorded'
  BY <1>1, <1>6, AnswersFollow DEF history
<1>11. TypeOK'
  BY <1>1, <1>4 DEF IInv, TypeOK, aggregate, history
<1> QED BY <1>5, <1>8, <1>9, <1>10, <1>11 DEF IInv

\* What Judge decides of a movement without a hold.
LEMMA JudgeOutcome ==
  ASSUME onHand \in Nat, NEW req \in Request, req.kind # "adjust"
  PROVE Judge(req) \in Outcome /\ Judge(req).onHand \in Nat /\ OnItsMark(req, Judge(req))
<1>1. CASE req.exp # None /\ onHand # req.exp
  <2>1. Judge(req) = Refusal("stale", onHand)
    BY <1>1 DEF Judge
  <2> QED BY <2>1, OutcomeTypes DEF OnItsMark, Outcome
<1>2. CASE ~(req.exp # None /\ onHand # req.exp) /\ req.kind = "restock"
  <2>1. Judge(req) = Ok(onHand + req.qty) /\ onHand + req.qty \in Nat
    BY <1>2 DEF Judge, Request
  <2> HIDE DEF Judge
  <2> QED BY <1>2, <2>1, OutcomeTypes DEF OnItsMark
<1>3. CASE /\ ~(req.exp # None /\ onHand # req.exp) /\ req.kind # "restock"
           /\ onHand < req.qty
  <2>1. Judge(req) = Refusal("insufficient", onHand)
    BY <1>3 DEF Judge
  <2> QED BY <2>1, OutcomeTypes DEF OnItsMark, Outcome
<1>4. CASE /\ ~(req.exp # None /\ onHand # req.exp) /\ req.kind # "restock"
           /\ ~(onHand < req.qty)
  <2>1. Judge(req) = Ok(onHand - req.qty) /\ onHand - req.qty \in Nat
    BY <1>4 DEF Judge, Request
  <2> QED BY <1>4, <2>1, OutcomeTypes DEF OnItsMark
<1> QED BY <1>1, <1>2, <1>3, <1>4

LEMMA ApplyStockInv ==
  ASSUME IInv, NEW p \in Callers, ApplyStock(p)
  PROVE IInv'
<1> DEFINE c == call[p]
           seen == {e \in Remembered(c.key) : e.ledger = "stock"}
           o == Judge(c.req)
           s == IF known THEN (CHOOSE e \in seen : TRUE).result ELSE Refusal("unknown", 0)
<1>1. c.at = "apply" /\ c.req.kind # "adjust"
      /\ UNCHANGED <<known, hold, claim, seeded, sold, answers, refused>>
  BY DEF ApplyStock
<1>2. c.req \in Request /\ LedgerOf(c.req.kind) = "stock"
  BY <1>1, CallFacts DEF LedgerOf
<1>3. CASE (~known \/ seen # {}) /\ Decide(p, "mark", s)
           /\ UNCHANGED <<onHand, ring, landed, took, later, relanded>>
  <2>1. s \in Outcome /\ OnItsMark(c.req, s)
    <3>1. CASE ~known
      BY <3>1, OutcomeTypes DEF OnItsMark
    <3>2. CASE known
      <4>1. (CHOOSE e \in seen : TRUE) \in seen
        BY <1>3, <3>2
      <4>2. \A e \in seen : e.result \in Outcome /\ OnItsMark(c.req, e.result)
        BY <1>1, <1>2, SeenFacts
      <4> QED BY <3>2, <4>1, <4>2
    <3> QED BY <3>1, <3>2
  <2>2. Others(p) /\ call' \in [Callers -> Call] /\ Follows(call'[p], claim)
    <3> HIDE DEF s
    <3> QED BY <1>1, <1>3, <2>1, Decided
  <2> QED BY <1>1, <1>3, <2>2, QuietStep DEF aggregate
<1>4. CASE seen = {} /\ onHand' = o.onHand /\ Take(p, o) /\ Decide(p, "mark", o)
  <2>1. o \in Outcome /\ o.onHand \in Nat /\ OnItsMark(c.req, o)
    BY <1>1, <1>2, JudgeOutcome DEF IInv, TypeOK
  <2>2. \A e \in Remembered(c.key) :
          e.ledger = "adjust" /\ LedgerOf(c.req.kind) = "stock"
    BY <1>2, <1>4 DEF Remembered, IInv, TypeOK, Entry, Ledgers
  <2> HIDE DEF o
  <2>3. /\ ring' \subseteq Entry
        /\ \A e1, e2 \in ring' : e1.age = e2.age \/ e1.key = e2.key => e1 = e2
        /\ landed' \subseteq MoveIds /\ took' \in [MoveIds -> Outcome]
        /\ later' \in [MoveIds -> 0..RingSize]
        /\ TwiceOnlyPastTheRing' /\ RingFollowsClaims' /\ RingRemembers'
    BY <1>1, <1>4, <2>1, <2>2, TakeStep
  <2>4. Others(p) /\ call' \in [Callers -> Call] /\ Follows(call'[p], claim)
    BY <1>1, <1>4, <2>1, Decided
  <2>5. Extend
    BY <1>1, Kept
  <2>6. CallsFollowClaims'
    BY <1>1, <2>4, <2>5, CallsFollow
  <2>7. AnswersRecorded'
    BY <1>1, <2>5, AnswersFollow
  <2>8. onHand' \in Nat /\ relanded' \subseteq 0..RingSize
    BY <1>4, <2>1, <2>3, RingAssumption DEF TwiceOnlyPastTheRing
  <2>9. TypeOK'
    BY <1>1, <2>3, <2>4, <2>8 DEF IInv, TypeOK
  <2> QED BY <2>3, <2>5, <2>6, <2>7, <2>9 DEF IInv, Extend
<1> QED BY <1>3, <1>4 DEF ApplyStock

LEMMA ApplyAdjustInv ==
  ASSUME IInv, NEW p \in Callers, ApplyAdjust(p)
  PROVE IInv'
<1> DEFINE c == call[p]
           h == hold[c.req.rid]
<1>1. /\ c.at = "apply" /\ c.at # "idle" /\ c.req.kind = "adjust"
      /\ known /\ Remembered(c.key) = {}
      /\ UNCHANGED <<claim, seeded, sold, answers, refused>>
  BY DEF ApplyAdjust
<1>2. c.req \in Request /\ WellFormed(c.req) /\ c.req.rid \in Rids /\ c.key \in Keys
  BY <1>1, CallFacts DEF WellFormed
<1>3. /\ onHand \in Nat /\ hold \in [Rids -> Hold] /\ h \in Hold
      /\ c.req.qty \in Nat /\ h.qty \in Nat
  BY <1>2 DEF IInv, TypeOK, Hold, Request
<1>4. CASE Return(p) /\ UNCHANGED <<aggregate, landed, took, later, relanded>>
  BY <1>1, <1>4, ReturnQuiet
<1>5. ASSUME NEW o \in Outcome, Take(p, o), Goto(p, "resolve"),
             onHand' \in Nat, hold' \in [Rids -> Hold], UNCHANGED known
      PROVE IInv'
  <2>1. OnItsMark(c.req, o)
    BY <1>1, <1>2 DEF OnItsMark, WellFormed
  <2>2. /\ ring' \subseteq Entry
        /\ \A e1, e2 \in ring' : e1.age = e2.age \/ e1.key = e2.key => e1 = e2
        /\ landed' \subseteq MoveIds /\ took' \in [MoveIds -> Outcome]
        /\ later' \in [MoveIds -> 0..RingSize]
        /\ TwiceOnlyPastTheRing' /\ RingFollowsClaims' /\ RingRemembers'
    BY <1>1, <1>5, <2>1, TakeStep
  <2>3. Others(p) /\ call' \in [Callers -> Call] /\ Follows(call'[p], claim)
    BY <1>1, <1>5, GoesOn DEF Steps, Past
  <2>4. Extend
    BY <1>1, Kept
  <2>5. CallsFollowClaims'
    BY <1>1, <2>3, <2>4, CallsFollow
  <2>6. AnswersRecorded'
    BY <1>1, <2>4, AnswersFollow
  <2>7. relanded' \subseteq 0..RingSize
    BY <2>2, RingAssumption DEF TwiceOnlyPastTheRing
  <2>8. TypeOK'
    BY <1>1, <1>5, <2>2, <2>3, <2>7 DEF IInv, TypeOK
  <2> QED BY <2>2, <2>4, <2>5, <2>6, <2>8 DEF IInv, Extend
<1>6. CASE /\ Take(p, Refusal("insufficient", 0)) /\ Goto(p, "resolve")
           /\ UNCHANGED <<known, onHand, hold>>
  <2>1. Refusal("insufficient", 0) \in Outcome
    BY OutcomeTypes
  <2> QED BY <1>3, <1>5, <1>6, <2>1
<1>7. CASE /\ onHand >= c.req.qty - h.qty
           /\ onHand' = onHand - (c.req.qty - h.qty)
           /\ hold' = [hold EXCEPT ![c.req.rid].qty = c.req.qty, ![c.req.rid].last = c.key]
           /\ Take(p, Ok(0)) /\ Goto(p, "resolve") /\ UNCHANGED known
  <2>1. Ok(0) \in Outcome
    BY OutcomeTypes
  <2>2. onHand' \in Nat
    BY <1>3, <1>7
  <2>3. hold' \in [Rids -> Hold]
    <3> DEFINE r == c.req.rid
               m == [hold EXCEPT ![r].qty = c.req.qty]
    <3>1. m \in [Rids -> Hold]
      BY <1>2, <1>3 DEF Hold
    <3>2. hold' = [m EXCEPT ![r].last = c.key]
      BY <1>7
    <3> HIDE DEF m
    <3> QED BY <1>2, <3>1, <3>2 DEF Hold
  <2> QED BY <1>5, <1>7, <2>1, <2>2, <2>3
<1> QED BY <1>4, <1>6, <1>7 DEF ApplyAdjust

\* A write of the aggregate by another operation leaves the movements alone.
LEMMA OtherWriter ==
  ASSUME IInv, UNCHANGED <<ring, claim, call, landed, took, later, relanded, answers>>,
         known' \in BOOLEAN, onHand' \in Nat, hold' \in [Rids -> Hold],
         seeded' \in Nat, sold' \in Nat
  PROVE IInv'
<1>1. Extend
  BY Kept
<1>2. TypeOK'
  BY DEF IInv, TypeOK
<1>3. RingFollowsClaims' /\ RingRemembers' /\ TwiceOnlyPastTheRing'
  BY <1>1, RingFollows
<1>4. AnswersRecorded'
  BY <1>1, AnswersFollow
<1>5. CallsFollowClaims'
  BY DEF IInv, CallsFollowClaims
<1> QED BY <1>1, <1>2, <1>3, <1>4, <1>5 DEF IInv, Extend

LEMMA OthersInv ==
  ASSUME IInv, \/ Seed \/ Withdraw
               \/ \E r \in Rids : Reserve(r) \/ Adopt(r) \/ Prune(r, TRUE) \/ Prune(r, FALSE)
  PROVE IInv'
<1>0. /\ known \in BOOLEAN /\ onHand \in Nat /\ hold \in [Rids -> Hold]
      /\ seeded \in Nat /\ sold \in Nat
  BY DEF IInv, TypeOK
<1>1. CASE Seed
  <2>1. onHand' \in Nat /\ seeded' \in Nat
    BY <1>0, <1>1, BoundAssumption DEF Seed
  <2> QED BY <1>0, <1>1, <2>1, OtherWriter DEF Seed
<1>2. CASE Withdraw
  BY <1>0, <1>2, OtherWriter DEF Withdraw, history
<1>3. ASSUME NEW r \in Rids, Reserve(r) PROVE IInv'
  <2>1. PICK q \in HoldQtys :
          /\ q <= onHand /\ onHand' = onHand - q
          /\ hold' = [hold EXCEPT ![r] = [state |-> "held", qty |-> q, last |-> None]]
    BY <1>3 DEF Reserve
  <2>2. q \in Nat /\ onHand' \in Nat
    BY <1>0, <2>1, BoundAssumption
  <2>3. hold' \in [Rids -> Hold]
    BY <1>0, <2>1, <2>2 DEF Hold
  <2> QED BY <1>0, <1>3, <2>2, <2>3, OtherWriter DEF Reserve, history
<1>4. ASSUME NEW r \in Rids, Adopt(r) PROVE IInv'
  <2>1. hold' \in [Rids -> Hold]
    BY <1>0, <1>4 DEF Adopt, Hold
  <2> QED BY <1>0, <1>4, <2>1, OtherWriter DEF Adopt, history
<1>5. ASSUME NEW r \in Rids, NEW b \in BOOLEAN, Prune(r, b) PROVE IInv'
  <2>1. NoHold = [state |-> "none", qty |-> 0, last |-> None]
    BY DEF NoHold
  <2>2. [NoHold EXCEPT !.state = "gone"] \in Hold
    BY <2>1 DEF Hold
  <2>3. hold' \in [Rids -> Hold]
    BY <1>0, <1>5, <2>2 DEF Prune
  <2>4. hold[r].qty \in Nat
    BY <1>0 DEF Hold
  <2>5. onHand' \in Nat /\ sold' \in Nat
    BY <1>0, <1>5, <2>4 DEF Prune
  <2> QED BY <1>0, <1>5, <2>3, <2>5, OtherWriter DEF Prune
<1> QED BY <1>1, <1>2, <1>3, <1>4, <1>5

LEMMA InitInv == Init => IInv
<1> SUFFICES ASSUME Init PROVE IInv
  OBVIOUS
<1>1. NoHold \in Hold /\ NoClaim \in Claim /\ NoClaim.state = "absent"
  BY NoRequestType, OutcomeTypes DEF NoHold, Hold, NoClaim, Claim
<1>2. TypeOK
  <2>1. /\ known \in BOOLEAN /\ onHand \in Nat /\ seeded \in Nat /\ sold \in Nat
        /\ ring \subseteq Entry /\ \A e1, e2 \in ring : e1.age = e2.age \/ e1.key = e2.key => e1 = e2
        /\ landed \subseteq MoveIds /\ relanded \subseteq 0..RingSize
    BY DEF Init
  <2>2. hold \in [Rids -> Hold] /\ claim \in [MoveIds -> Claim] /\ call \in [Callers -> Call]
    BY <1>1, IdleType DEF Init
  <2>3. later \in [MoveIds -> 0..RingSize] /\ took \in [MoveIds -> Outcome]
    <3>1. 0 \in 0..RingSize
      BY RingAssumption
    <3> QED BY <3>1, OutcomeTypes DEF Init
  <2>4. answers \in [MoveIds -> SUBSET Outcome]
    BY DEF Init
  <2> QED BY <2>1, <2>2, <2>3, <2>4 DEF TypeOK
<1>3. ClaimsKept /\ AnswersRecorded
  BY <1>1 DEF Init, ClaimsKept, AnswersRecorded
<1>4. \A p \in Callers : Follows(call[p], claim)
  BY IdleType, IdleFollows DEF Init
<1>5. CallsFollowClaims
  BY <1>2, <1>4, FollowsAll
<1>6. RingFollowsClaims /\ RingRemembers /\ TwiceOnlyPastTheRing
  BY DEF Init, RingFollowsClaims, RingRemembers, TwiceOnlyPastTheRing
<1> QED BY <1>2, <1>3, <1>5, <1>6 DEF IInv

LEMMA NextInv == IInv /\ [Next]_vars => IInv'
<1> SUFFICES ASSUME IInv, [Next]_vars PROVE IInv'
  OBVIOUS
<1>1. ASSUME NEW p \in Callers, Step(p) PROVE IInv'
  BY <1>1, ReadClaimInv, LookInv, CreateInv, ApplyStockInv, AdjustDoneInv, ApplyAdjustInv,
     ResolveInv, WitnessInv, MarkInv, ReadBackInv DEF Step
<1>2. ASSUME NEW p \in Callers, Crash(p) PROVE IInv'
  BY <1>2, CrashInv
<1>3. ASSUME NEW p \in Callers, NEW key \in Keys, NEW req \in Requests, Begin(p, key, req)
      PROVE IInv'
  BY <1>3, BeginInv
<1>4. CASE UNCHANGED vars
  <2>1. UNCHANGED <<aggregate, claim, call, history>>
    BY <1>4 DEF vars
  <2>2. /\ known \in BOOLEAN /\ onHand \in Nat /\ hold \in [Rids -> Hold]
        /\ seeded \in Nat /\ sold \in Nat
    BY DEF IInv, TypeOK
  <2> QED BY <2>1, <2>2, OtherWriter DEF aggregate, history
<1> QED BY <1>1, <1>2, <1>3, <1>4, OthersInv DEF Next

-----------------------------------------------------------------------------
(* The theorems *)

THEOREM Invariant == Spec => []IInv
<1>1. Init => IInv
  BY InitInv
<1>2. IInv /\ [Next]_vars => IInv'
  BY NextInv
<1> QED BY <1>1, <1>2, PTL DEF Spec

\* The documents and the calls keep their types: in particular the count of the shelf
\* never goes below zero and the ring never outgrows APPLIED_MOVEMENT_RING_SIZE.
THEOREM TypeCorrect == Spec => []TypeOK
<1>1. IInv => TypeOK
  BY DEF IInv
<1> QED BY <1>1, Invariant, PTL

\* #resolveAdjustAnswer and #markMovementApplied: whoever asks under a movement key, and
\* however often, is told one outcome, the first one recorded.
THEOREM Agreement == Spec => []AnswersAgree
<1>1. IInv => AnswersAgree
  <2> SUFFICES ASSUME IInv, NEW m \in MoveIds PROVE Cardinality(answers[m]) <= 1
    BY DEF AnswersAgree
  <2>1. CASE answers[m] = {}
    BY <2>1, FS_EmptySet
  <2>2. CASE answers[m] # {}
    <3>1. answers[m] = {claim[m].result}
      BY <2>2 DEF IInv, AnswersRecorded
    <3>2. Cardinality({claim[m].result}) = 1
      BY FS_Singleton
    <3> QED BY <3>1, <3>2
  <2> QED BY <2>1, <2>2
<1> QED BY <1>1, Invariant, PTL

\* #applyStockClaim and #applyAdjustClaim: for a ring of any size, a movement lands a second
\* time only when RingSize later outcomes have pushed its key out.
THEOREM LandsOnce == Spec => []TwiceOnlyPastTheRing
<1>1. IInv => TwiceOnlyPastTheRing
  BY DEF IInv
<1> QED BY <1>1, Invariant, PTL

\* #applyStockClaim: a movement with a watermark landed on that very count, or not at all.
THEOREM OnTheMark == Spec => []WatermarkHolds
<1>1. IInv => WatermarkHolds
  BY DEF IInv, ClaimsKept, WatermarkHolds
<1> QED BY <1>1, Invariant, PTL

-----------------------------------------------------------------------------
(* Sets of numbered units *)

\* Of each x in S, the units 1 to q[x].
Units(S, q) == UNION {{x} \X (1..q[x]) : x \in S}

LEMMA UnitsAre ==
  ASSUME NEW S, NEW q
  PROVE \A u : u \in Units(S, q) <=> \E x \in S : \E j \in 1..q[x] : u = <<x, j>>
BY DEF Units

LEMMA Numbers ==
  ASSUME NEW x, NEW n \in Nat
  PROVE IsFiniteSet({x} \X (1..n)) /\ Cardinality({x} \X (1..n)) = n
<1>1. PICK X : X = {x}
  OBVIOUS
<1>2. IsFiniteSet(X) /\ Cardinality(X) = 1
  BY <1>1, FS_Singleton
<1>3. IsFiniteSet(1..n) /\ Cardinality(1..n) = n
  <2>1. 1 \in Int /\ n \in Int
    OBVIOUS
  <2>2. IsFiniteSet(1..n) /\ Cardinality(1..n) = IF 1 > n THEN 0 ELSE n - 1 + 1
    BY <2>1, FS_Interval
  <2> QED BY <2>2
<1>4. IsFiniteSet(X \X (1..n)) /\ Cardinality(X \X (1..n)) = Cardinality(X) * Cardinality(1..n)
  BY <1>2, <1>3, FS_Product
<1>5. Cardinality(X \X (1..n)) = n
  BY <1>2, <1>3, <1>4
<1> QED BY <1>1, <1>4, <1>5

\* The units of one x change in number, and no others.
LEMMA Refilled ==
  ASSUME NEW S, NEW q \in [S -> Nat], NEW k \in [S -> Nat], NEW r \in S,
         \A x \in S : x # r => k[x] = q[x], IsFiniteSet(Units(S, q))
  PROVE /\ IsFiniteSet(Units(S, k))
        /\ Cardinality(Units(S, k)) = Cardinality(Units(S, q)) - q[r] + k[r]
<1>1. PICK U, A, B : U = Units(S, q) /\ A = {r} \X (1..q[r]) /\ B = {r} \X (1..k[r])
  OBVIOUS
<1>2. q[r] \in Nat /\ k[r] \in Nat
  OBVIOUS
<1>3. /\ IsFiniteSet(A) /\ Cardinality(A) = q[r]
      /\ IsFiniteSet(B) /\ Cardinality(B) = k[r]
  BY <1>1, <1>2, Numbers
<1>4. /\ \A u : u \in A <=> \E j \in 1..q[r] : u = <<r, j>>
      /\ \A u : u \in B <=> \E j \in 1..k[r] : u = <<r, j>>
  BY <1>1
<1>5. U \cap A = A
  BY <1>1, <1>4, UnitsAre
<1>6. (U \ A) \cap B = {}
  <2>1. ASSUME NEW u, u \in U, u \notin A, u \in B PROVE FALSE
    <3>1. PICK x \in S : \E j \in 1..q[x] : u = <<x, j>>
      BY <1>1, <2>1, UnitsAre
    <3>2. x = r
      BY <1>4, <2>1, <3>1
    <3> QED BY <1>4, <2>1, <3>1, <3>2
  <2> QED BY <2>1
<1>7. Units(S, k) = (U \ A) \cup B
  <2>1. ASSUME NEW u PROVE u \in Units(S, k) <=> (u \in U /\ u \notin A) \/ u \in B
    <3>1. CASE \E j : u = <<r, j>>
      <4>1. PICK j : u = <<r, j>>
        BY <3>1
      <4>2. u \in Units(S, k) <=> j \in 1..k[r]
        BY <4>1, UnitsAre
      <4>3. (u \in U <=> j \in 1..q[r]) /\ (u \in A <=> j \in 1..q[r]) /\ (u \in B <=> j \in 1..k[r])
        BY <1>1, <1>4, <4>1, UnitsAre
      <4> QED BY <4>2, <4>3
    <3>2. CASE ~\E j : u = <<r, j>>
      <4>1. u \notin A /\ u \notin B
        BY <1>4, <3>2
      <4>2. u \in Units(S, k) <=> u \in U
        BY <1>1, <3>2, UnitsAre
      <4> QED BY <4>1, <4>2
    <3> QED BY <3>1, <3>2
  <2> QED BY <2>1
<1>8. IsFiniteSet(U \ A) /\ Cardinality(U \ A) = Cardinality(U) - Cardinality(A)
  <2>1. IsFiniteSet(U)
    BY <1>1
  <2>2. IsFiniteSet(U \ A) /\ Cardinality(U \ A) = Cardinality(U) - Cardinality(U \cap A)
    BY <2>1, FS_Difference
  <2> QED BY <1>5, <2>2
<1>9. /\ IsFiniteSet((U \ A) \cup B)
      /\ Cardinality((U \ A) \cup B)
           = Cardinality(U \ A) + Cardinality(B) - Cardinality((U \ A) \cap B)
  BY <1>3, <1>8, FS_Union
<1>10. Cardinality((U \ A) \cap B) = 0
  BY <1>6, FS_EmptySet
<1>11. Cardinality(U) \in Nat
  BY <1>1, FS_CardinalityType
<1>12. Cardinality((U \ A) \cup B) = Cardinality(U) - q[r] + k[r]
  BY <1>2, <1>3, <1>8, <1>9, <1>10, <1>11
<1> QED BY <1>1, <1>7, <1>9, <1>12

LEMMA NoUnits ==
  ASSUME NEW S, NEW q, \A x \in S : q[x] = 0
  PROVE Units(S, q) = {} /\ IsFiniteSet(Units(S, q)) /\ Cardinality(Units(S, q)) = 0
<1>1. Units(S, q) = {}
  BY UnitsAre
<1> QED BY <1>1, FS_EmptySet

HeldQty == [r \in Rids |-> hold[r].qty]

\* The units of the movements L of a kind, of outcomes T and claims C, and how many of each.
TookOf(L, T, C, kind) ==
  UNION {{m} \X (1..C[m].req.qty) : m \in {m \in L : T[m].ok /\ C[m].req.kind = kind}}
QtyOf(L, T, C, kind) ==
  [m \in MoveIds |-> IF m \in L /\ T[m].ok /\ C[m].req.kind = kind THEN C[m].req.qty ELSE 0]
TookQty(kind) == QtyOf(landed, took, claim, kind)

LEMMA HeldIs == Held = Units(Rids, HeldQty) /\ Held' = Units(Rids, HeldQty')
BY DEF Held, HeldQty, Units

LEMMA TookUnits ==
  ASSUME NEW L, L \subseteq MoveIds, NEW T, NEW C, NEW kind
  PROVE TookOf(L, T, C, kind) = Units(MoveIds, QtyOf(L, T, C, kind))
<1>1. PICK q : q = QtyOf(L, T, C, kind)
  OBVIOUS
<1>2. ASSUME NEW u PROVE u \in TookOf(L, T, C, kind) <=> u \in Units(MoveIds, q)
  <2>1. u \in TookOf(L, T, C, kind) <=>
          \E m \in L : /\ T[m].ok /\ C[m].req.kind = kind
                       /\ \E j \in 1..C[m].req.qty : u = <<m, j>>
    BY DEF TookOf
  <2>2. u \in Units(MoveIds, q) <=> \E m \in MoveIds : \E j \in 1..q[m] : u = <<m, j>>
    BY UnitsAre
  <2>3. ASSUME NEW m \in MoveIds, NEW j
        PROVE j \in 1..q[m] <=>
                m \in L /\ T[m].ok /\ C[m].req.kind = kind /\ j \in 1..C[m].req.qty
    BY <1>1 DEF QtyOf
  <2> QED BY <2>1, <2>2, <2>3
<1> QED BY <1>1, <1>2

LEMMA TookIs ==
  ASSUME landed \subseteq MoveIds, landed' \subseteq MoveIds, NEW kind
  PROVE /\ Took(kind) = Units(MoveIds, TookQty(kind))
        /\ Took(kind)' = Units(MoveIds, TookQty(kind)')
<1>1. /\ Took(kind) = TookOf(landed, took, claim, kind)
      /\ Took(kind)' = TookOf(landed', took', claim', kind)
  BY DEF Took, TookOf
<1>2. /\ TookQty(kind) = QtyOf(landed, took, claim, kind)
      /\ TookQty(kind)' = QtyOf(landed', took', claim', kind)
  BY DEF TookQty, QtyOf
<1>3. TookOf(landed, took, claim, kind) = Units(MoveIds, QtyOf(landed, took, claim, kind))
  BY TookUnits
<1>4. TookOf(landed', took', claim', kind) = Units(MoveIds, QtyOf(landed', took', claim', kind))
  BY TookUnits
<1> QED BY <1>1, <1>2, <1>3, <1>4

-----------------------------------------------------------------------------
(* Books: what a step of one call must show *)

\* What AdjustsLand says of one call c, when the holds are H and L has landed; what
\* StockTold says of it, when the outcomes taken are T.
Lands(c, H, L) ==
  /\ c.at # "idle" => c.key \in KeysOf(LedgerOf(c.req.kind))
  /\ c.at = "create" /\ c.req.kind = "adjust" => H[c.req.rid].state # "none"
  /\ c.at \in {"resolve", "witness"} =>
       IdOf(c) \in L \/ H[c.req.rid].state = "gone" \/ c.key \in StockKeys
Tells(c, L, T) ==
  c.at = "mark" /\ c.req.kind # "adjust" =>
    c.result.why = "unknown" \/ (IdOf(c) \in L /\ c.result = T[IdOf(c)])
\* What it says of the claims C.
ClaimsTell(C, L, T) ==
  \A m \in MoveIds : C[m].state = "applied" /\ m[1] = "stock" =>
    C[m].result.why = "unknown" \/ (m \in L /\ C[m].result = T[m])

LEMMA LandsAll == AdjustsLand <=> \A p \in Callers : Lands(call[p], hold, landed)
BY DEF AdjustsLand, Lands

LEMMA LandsAllNext == AdjustsLand' <=> \A p \in Callers : Lands(call'[p], hold', landed')
BY DEF AdjustsLand, Lands, IdOf

LEMMA ToldAll ==
  StockTold <=>
    (RingSize \notin relanded =>
       /\ ClaimsTell(claim, landed, took)
       /\ \A e \in ring : e.ledger = "stock" => e.result = took[<<"stock", e.key>>]
       /\ \A p \in Callers : Tells(call[p], landed, took))
BY DEF StockTold, ClaimsTell, Tells

LEMMA ToldAllNext ==
  StockTold' <=>
    (RingSize \notin relanded' =>
       /\ ClaimsTell(claim', landed', took')
       /\ \A e \in ring' : e.ledger = "stock" => e.result = took'[<<"stock", e.key>>]
       /\ \A p \in Callers : Tells(call'[p], landed', took'))
BY DEF StockTold, ClaimsTell, Tells, IdOf

\* Claims grow under a landed movement without changing what the aggregate took.
LEMMA TookStays ==
  ASSUME landed \subseteq MoveIds, UNCHANGED <<landed, took>>, NEW kind,
         \A m \in landed : claim'[m].req = claim[m].req
  PROVE Took(kind)' = Took(kind)
<1>1. TookQty(kind)' = TookQty(kind)
  BY DEF TookQty, QtyOf
<1> QED BY <1>1, TookIs

LEMMA CallBooks ==
  ASSUME IInv, Books, NEW p \in Callers, Others(p),
         UNCHANGED <<aggregate, seeded, sold, landed, took, later, relanded>>,
         \A m \in MoveIds : claim[m].state # "absent" =>
           claim'[m].state # "absent" /\ claim'[m].req = claim[m].req,
         \A m \in MoveIds : claim'[m].state # "absent" /\ m[1] = "adjust" =>
           hold[claim'[m].req.rid].state # "none",
         RingSize \notin relanded => ClaimsTell(claim', landed, took),
         Lands(call'[p], hold, landed),
         RingSize \notin relanded => Tells(call'[p], landed, took),
         ToldRight'
  PROVE Books'
<1>1. UNCHANGED <<known, onHand, hold, ring>> /\ landed \subseteq MoveIds
  BY DEF aggregate, IInv, TypeOK
<1>2. LandedIsKnown'
  <2>1. \A m \in landed : claim[m].state # "absent" /\ m[2] \in KeysOf(m[1])
    BY DEF Books, LandedIsKnown
  <2>2. \A m \in landed : claim'[m].state # "absent" /\ m[2] \in KeysOf(m[1])
    BY <1>1, <2>1
  <2> QED BY <1>1, <2>2 DEF Books, LandedIsKnown, KeysOf
<1>3. HoldsStand'
  BY <1>1 DEF Books, HoldsStand
<1>4. AdjustsLand'
  <2>1. \A q \in Callers : Lands(call[q], hold, landed)
    BY LandsAll DEF Books
  <2>2. \A q \in Callers : Lands(call'[q], hold', landed')
    BY <1>1, <2>1 DEF Others
  <2> QED BY <2>2, LandsAllNext
<1>5. StockTold'
  <2> SUFFICES ASSUME RingSize \notin relanded'
               PROVE /\ ClaimsTell(claim', landed', took')
                     /\ \A e \in ring' : e.ledger = "stock" => e.result = took'[<<"stock", e.key>>]
                     /\ \A q \in Callers : Tells(call'[q], landed', took')
    BY ToldAllNext
  <2>1. /\ \A e \in ring : e.ledger = "stock" => e.result = took[<<"stock", e.key>>]
        /\ \A q \in Callers : Tells(call[q], landed, took)
    BY ToldAll DEF Books
  <2>2. \A q \in Callers : Tells(call'[q], landed', took')
    BY <2>1 DEF Others
  <2> QED BY <1>1, <2>1, <2>2
<1>6. Balance'
  <2>1. \A m \in landed : claim'[m].req = claim[m].req
    BY <1>1 DEF Books, LandedIsKnown
  <2>2. Took("removal")' = Took("removal") /\ Took("restock")' = Took("restock")
    BY <1>1, <2>1, TookStays
  <2>3. Held' = Held
    BY <1>1 DEF Held
  <2> QED BY <1>1, <2>2, <2>3 DEF Books, Balance
<1> QED BY <1>2, <1>3, <1>4, <1>5, <1>6 DEF Books

LEMMA QuietBooks ==
  ASSUME IInv, Books, NEW p \in Callers, Others(p),
         UNCHANGED <<aggregate, claim, seeded, sold, landed, took, later, relanded>>,
         Lands(call'[p], hold, landed),
         RingSize \notin relanded => Tells(call'[p], landed, took),
         ToldRight'
  PROVE Books'
<1>1. \A m \in MoveIds : claim'[m].state # "absent" /\ m[1] = "adjust" =>
        hold[claim'[m].req.rid].state # "none"
  BY DEF Books, HoldsStand
<1>2. RingSize \notin relanded => ClaimsTell(claim', landed, took)
  BY ToldAll DEF Books
<1> QED BY <1>1, <1>2, CallBooks

\* A refusal no adjust of a hold was given leaves ToldRight as it was.
LEMMA ToldStays ==
  ASSUME Books, UNCHANGED <<landed, later, relanded, refused>>
  PROVE ToldRight'
BY DEF Books, ToldRight

LEMMA IdleBooks ==
  ASSUME NEW c, c.at = "idle", NEW H, NEW L, NEW T
  PROVE Lands(c, H, L) /\ Tells(c, L, T)
BY DEF Lands, Tells

LEMMA ReturnBooks ==
  ASSUME IInv, Books, NEW p \in Callers, Return(p),
         UNCHANGED <<aggregate, claim, seeded, sold, landed, took, later, relanded>>,
         ToldRight'
  PROVE Books'
<1>1. Others(p) /\ call'[p].at = "idle"
  BY ReturnStep DEF IInv, TypeOK
<1> QED BY <1>1, IdleBooks, QuietBooks

\* A call that goes on by its phase alone.
LEMMA GotoBooks ==
  ASSUME IInv, Books, NEW p \in Callers, NEW a \in Steps, Goto(p, a), call[p].at # "idle",
         a # "mark",
         a = "create" /\ call[p].req.kind = "adjust" => hold[call[p].req.rid].state # "none",
         a \in {"resolve", "witness"} =>
           \/ IdOf(call[p]) \in landed \/ hold[call[p].req.rid].state = "gone"
           \/ call[p].key \in StockKeys
  PROVE /\ Others(p) /\ Lands(call'[p], hold, landed)
        /\ \A L, T : Tells(call'[p], L, T)
<1>1. call \in [Callers -> Call]
  BY DEF IInv, TypeOK
<1>2. /\ Others(p) /\ call'[p].at = a /\ call'[p].key = call[p].key
      /\ call'[p].req = call[p].req
  BY <1>1, GotoStep
<1>3. IdOf(call'[p]) = IdOf(call[p])
  BY <1>2 DEF IdOf
<1>4. Lands(call[p], hold, landed)
  BY LandsAll DEF Books
<1>5. Lands(call'[p], hold, landed)
  BY <1>2, <1>3, <1>4 DEF Lands
<1>6. \A L, T : Tells(call'[p], L, T)
  BY <1>2 DEF Tells
<1> QED BY <1>2, <1>5, <1>6

-----------------------------------------------------------------------------
(* Books: the steps of a call that leave the aggregate alone *)

LEMMA BeginBooks ==
  ASSUME IInv, Books, NEW p \in Callers, NEW key \in Keys, NEW req \in Requests,
         Begin(p, key, req)
  PROVE Books'
<1>1. /\ Others(p) /\ call'[p].at = "claim" /\ call'[p].key = key /\ call'[p].req = req
  BY BeginStep
<1>2. key \in KeysOf(LedgerOf(req.kind))
  BY DEF Begin, KeysOf, LedgerOf
<1>3. Lands(call'[p], hold, landed) /\ Tells(call'[p], landed, took)
  BY <1>1, <1>2 DEF Lands, Tells
<1>4. ToldRight'
  BY ToldStays DEF Begin, history
<1> QED BY <1>1, <1>3, <1>4, QuietBooks DEF Begin, history

LEMMA ReadClaimBooks ==
  ASSUME IInv, Books, NEW p \in Callers, ReadClaim(p)
  PROVE Books'
<1>1. /\ call[p].at = "claim" /\ call[p].at # "idle"
      /\ UNCHANGED <<aggregate, claim, seeded, sold, landed, took, later, relanded, refused>>
  BY DEF ReadClaim
<1>2. ToldRight'
  BY <1>1, ToldStays
<1>3. CASE Goto(p, "look")
  <2>1. /\ Others(p) /\ Lands(call'[p], hold, landed) /\ Tells(call'[p], landed, took)
    BY <1>1, <1>3, GotoBooks DEF Steps
  <2> QED BY <1>1, <1>2, <2>1, QuietBooks
<1>4. CASE Return(p)
  BY <1>1, <1>2, <1>4, ReturnBooks
<1>5. CASE claim[IdOf(call[p])].state = "claimed" /\ Resume(p)
  <2>1. /\ Others(p) /\ call'[p].at = "apply" /\ call'[p].key = call[p].key
        /\ LedgerOf(call'[p].req.kind) = LedgerOf(call[p].req.kind)
    BY <1>1, <1>5, ResumeStep
  <2>2. Lands(call[p], hold, landed)
    BY LandsAll DEF Books
  <2>3. Lands(call'[p], hold, landed) /\ Tells(call'[p], landed, took)
    BY <1>1, <2>1, <2>2 DEF Lands, Tells
  <2> QED BY <1>1, <1>2, <2>1, <2>3, QuietBooks
<1> QED BY <1>3, <1>4, <1>5 DEF ReadClaim, Answer, Resume

LEMMA LookBooks ==
  ASSUME IInv, Books, NEW p \in Callers, Look(p)
  PROVE Books'
<1>1. /\ call[p].at = "look" /\ call[p].at # "idle" /\ UNCHANGED <<aggregate, claim, history>>
  BY DEF Look
<1>2. ToldRight'
  BY <1>1, ToldStays DEF history
<1>3. CASE Goto(p, "create") /\ (call[p].req.kind = "adjust" => hold[call[p].req.rid].state = "held")
  <2>1. /\ Others(p) /\ Lands(call'[p], hold, landed) /\ Tells(call'[p], landed, took)
    BY <1>1, <1>3, GotoBooks DEF Steps
  <2> QED BY <1>1, <1>2, <2>1, QuietBooks DEF history
<1>4. CASE Return(p)
  BY <1>1, <1>2, <1>4, ReturnBooks DEF history
<1> QED BY <1>3, <1>4 DEF Look

LEMMA CreateBooks ==
  ASSUME IInv, Books, NEW p \in Callers, Create(p)
  PROVE Books'
<1> DEFINE c == call[p]
           id == IdOf(c)
<1>1. c.at = "create" /\ c.at # "idle" /\ UNCHANGED <<aggregate, history>>
  BY DEF Create
<1>2. ToldRight'
  BY <1>1, ToldStays DEF history
<1>3. CASE claim[id].state # "absent"
  <2>1. Goto(p, "claim") /\ UNCHANGED claim
    BY <1>3 DEF Create
  <2>2. /\ Others(p) /\ Lands(call'[p], hold, landed) /\ Tells(call'[p], landed, took)
    BY <1>1, <2>1, GotoBooks DEF Steps
  <2> QED BY <1>1, <1>2, <2>1, <2>2, QuietBooks DEF history
<1>4. CASE claim[id].state = "absent"
  <2>1. /\ id \in MoveIds
        /\ claim'[id].state = "claimed" /\ claim'[id].req = c.req
        /\ \A m \in MoveIds : m # id => claim'[m] = claim[m]
        /\ Others(p) /\ call'[p].at = "apply"
        /\ call'[p].key = c.key /\ call'[p].req = c.req
    BY <1>4, CreateStep
  <2>2. /\ id[1] = LedgerOf(c.req.kind) /\ c.req \in Request
    BY <1>1, CallFacts
  <2>3. Lands(c, hold, landed)
    BY LandsAll DEF Books
  <2> HIDE DEF id
  <2>4. Lands(call'[p], hold, landed) /\ Tells(call'[p], landed, took)
    BY <1>1, <2>1, <2>3 DEF Lands, Tells
  <2>5. id[1] = "adjust" => c.req.kind = "adjust"
    BY <2>2 DEF LedgerOf
  <2>6. \A m \in MoveIds : claim'[m].state # "absent" /\ m[1] = "adjust" =>
          hold[claim'[m].req.rid].state # "none"
    BY <1>1, <2>1, <2>3, <2>5 DEF Books, HoldsStand, Lands
  <2>7. RingSize \notin relanded => ClaimsTell(claim', landed, took)
    <3>1. RingSize \notin relanded => ClaimsTell(claim, landed, took)
      BY ToldAll DEF Books
    <3> QED BY <2>1, <3>1 DEF ClaimsTell
  <2> QED BY <1>1, <1>2, <1>4, <2>1, <2>4, <2>6, <2>7, CallBooks DEF history
<1> QED BY <1>3, <1>4

\* What the ring or the hold knows of an adjust has landed, if no stock movement used its key.
LEMMA AdjustKnown ==
  ASSUME IInv, Books, NEW p \in Callers, call[p].at # "idle", call[p].req.kind = "adjust"
  PROVE /\ IdOf(call[p]) = <<"adjust", call[p].key>> /\ call[p].key # None
        /\ hold[call[p].req.rid].last = call[p].key => IdOf(call[p]) \in landed
        /\ \A e \in Remembered(call[p].key) :
             \/ e.ledger = "adjust" /\ IdOf(call[p]) \in landed
             \/ e.ledger = "stock" /\ call[p].key \in StockKeys
        /\ call[p].key \in AdjustKeys
<1> DEFINE c == call[p]
<1>1. c.key \in Keys /\ c.req.rid \in Rids
  BY CallFacts DEF WellFormed
<1>2. IdOf(c) = <<"adjust", c.key>>
  BY DEF IdOf, LedgerOf
<1>3. c.key # None
  BY <1>1, NoneAssumption
<1>4. hold[c.req.rid].last = c.key => IdOf(c) \in landed
  BY <1>1, <1>2, <1>3 DEF Books, LandedIsKnown
<1>5. ASSUME NEW e \in Remembered(c.key)
      PROVE \/ e.ledger = "adjust" /\ IdOf(c) \in landed
            \/ e.ledger = "stock" /\ c.key \in StockKeys
  <2>1. e \in ring /\ e.key = c.key
    BY DEF Remembered
  <2>2. <<e.ledger, e.key>> \in landed /\ e.ledger \in {"stock", "adjust"}
    BY <2>1 DEF Books, LandedIsKnown, IInv, TypeOK, Entry, Ledgers
  <2>3. CASE e.ledger = "adjust"
    BY <1>2, <2>1, <2>2, <2>3
  <2>4. CASE e.ledger = "stock"
    <3>1. <<"stock", c.key>> \in landed
      BY <2>1, <2>2, <2>4
    <3>2. c.key \in KeysOf("stock")
      <4>1. PICK m : m = <<"stock", c.key>>
        OBVIOUS
      <4>2. m \in landed /\ m[1] = "stock" /\ m[2] = c.key
        BY <3>1, <4>1
      <4> QED BY <4>2 DEF Books, LandedIsKnown
    <3> QED BY <2>4, <3>2 DEF KeysOf
  <2> QED BY <2>2, <2>3, <2>4
<1>6. c.key \in AdjustKeys
  <2>1. Lands(c, hold, landed)
    BY LandsAll DEF Books
  <2> QED BY <2>1 DEF Lands, KeysOf, LedgerOf
<1> QED BY <1>2, <1>3, <1>4, <1>5, <1>6

LEMMA AdjustDoneBooks ==
  ASSUME IInv, Books, NEW p \in Callers, AdjustDone(p)
  PROVE Books'
<1> DEFINE c == call[p]
           h == hold[c.req.rid]
<1>1. /\ c.at = "apply" /\ c.at # "idle" /\ c.req.kind = "adjust" /\ Goto(p, "resolve")
      /\ UNCHANGED <<aggregate, claim, history>>
  BY DEF AdjustDone
<1>2. ToldRight'
  BY <1>1, ToldStays DEF history
<1>3. c.req.rid \in Rids /\ claim[IdOf(c)].state # "absent" /\ claim[IdOf(c)].req = c.req
      /\ IdOf(c) \in MoveIds /\ IdOf(c)[1] = "adjust"
  BY <1>1, CallFacts DEF WellFormed, Past, Steps, LedgerOf
<1>4. h.state # "none" /\ h.state \in {"none", "held", "adopted", "gone"}
  BY <1>3 DEF Books, HoldsStand, IInv, TypeOK, Hold
<1>5. IdOf(c) \in landed \/ h.state = "gone" \/ c.key \in StockKeys
  <2>1. CASE ~known
    BY <1>3, <1>4, <2>1 DEF Books, HoldsStand
  <2>2. CASE Remembered(c.key) # {}
    BY <1>1, <2>2, AdjustKnown
  <2>3. CASE h.state \in {"none", "gone"}
    BY <1>4, <2>3
  <2>4. CASE h.last = c.key
    BY <1>1, <2>4, AdjustKnown
  <2> QED BY <2>1, <2>2, <2>3, <2>4 DEF AdjustDone
<1>6. /\ Others(p) /\ Lands(call'[p], hold, landed) /\ Tells(call'[p], landed, took)
  BY <1>1, <1>5, GotoBooks DEF Steps
<1> QED BY <1>1, <1>2, <1>6, QuietBooks DEF history

LEMMA ResolveBooks ==
  ASSUME IInv, Books, NEW p \in Callers, Resolve(p)
  PROVE Books'
<1>1. /\ call[p].at = "resolve" /\ call[p].at # "idle"
      /\ UNCHANGED <<aggregate, claim, seeded, sold, landed, took, later, relanded, refused>>
  BY DEF Resolve
<1>2. ToldRight'
  BY <1>1, ToldStays
<1>3. CASE Goto(p, "witness")
  <2>1. Lands(call[p], hold, landed)
    BY LandsAll DEF Books
  <2>2. /\ Others(p) /\ Lands(call'[p], hold, landed) /\ Tells(call'[p], landed, took)
    BY <1>1, <1>3, <2>1, GotoBooks DEF Steps, Lands
  <2> QED BY <1>1, <1>2, <2>2, QuietBooks
<1>4. CASE Return(p)
  BY <1>1, <1>2, <1>4, ReturnBooks
<1> QED BY <1>3, <1>4 DEF Resolve, Answer

LEMMA WitnessBooks ==
  ASSUME IInv, Books, NEW p \in Callers, Witness(p)
  PROVE Books'
<1> DEFINE c == call[p]
           id == IdOf(c)
           seen == {e \in Remembered(c.key) : e.ledger = "adjust"}
<1>1. /\ c.at = "witness" /\ c.at # "idle"
      /\ UNCHANGED <<aggregate, claim, seeded, sold, landed, took, later, relanded, answers>>
  BY DEF Witness
<1>2. c.req.kind = "adjust" /\ c.req \in Request /\ id \in MoveIds /\ call \in [Callers -> Call]
  BY <1>1, CallFacts
<1>3. ASSUME NEW o, Decide(p, "mark", o), UNCHANGED refused PROVE Books'
  <2>1. Lands(c, hold, landed)
    BY LandsAll DEF Books
  <2>2. /\ Others(p) /\ call'[p].at = "mark" /\ call'[p].key = c.key /\ call'[p].req = c.req
    BY <1>2, <1>3 DEF Decide, Others, Call
  <2>3. Lands(call'[p], hold, landed) /\ Tells(call'[p], landed, took)
    BY <1>1, <1>2, <2>1, <2>2 DEF Lands, Tells
  <2>4. ToldRight'
    BY <1>1, <1>3, ToldStays
  <2> QED BY <1>1, <2>2, <2>3, <2>4, QuietBooks
<1>4. CASE /\ seen = {} /\ hold[c.req.rid].last # c.key
           /\ Return(p) /\ refused' = refused \cup {hold[c.req.rid].state}
  <2>1. ASSUME hold[c.req.rid].state = "held"
        PROVE \/ StockKeys \cap AdjustKeys # {} \/ \E m \in landed : later[m] = RingSize
    <3>1. Lands(c, hold, landed)
      BY LandsAll DEF Books
    <3>2. id \in landed \/ c.key \in StockKeys
      BY <1>1, <2>1, <3>1 DEF Lands
    <3>3. c.key \in AdjustKeys /\ id = <<"adjust", c.key>>
      BY <1>1, <1>2, AdjustKnown
    <3>4. CASE c.key \in StockKeys
      BY <3>3, <3>4
    <3>5. CASE id \in landed /\ later[id] < RingSize
      <4>1. PICK e \in Remembered(id[2]) : TRUE
        BY <3>5 DEF IInv, RingRemembers
      <4>2. e \in Remembered(c.key)
        BY <3>3, <4>1
      <4>3. c.key \in StockKeys
        BY <1>1, <1>2, <1>4, <4>2, AdjustKnown
      <4> QED BY <3>3, <4>3
    <3>6. CASE id \in landed /\ ~(later[id] < RingSize)
      <4>1. later[id] \in 0..RingSize
        BY <1>2 DEF IInv, TypeOK
      <4>2. later[id] = RingSize
        BY <3>6, <4>1, RingAssumption
      <4> QED BY <3>6, <4>2
    <3> QED BY <3>2, <3>4, <3>5, <3>6
  <2>2. ToldRight'
    BY <1>1, <1>4, <2>1 DEF Books, ToldRight
  <2> QED BY <1>1, <1>4, <2>2, ReturnBooks
<1> QED BY <1>3, <1>4 DEF Witness

LEMMA MarkBooks ==
  ASSUME IInv, Books, NEW p \in Callers, Mark(p)
  PROVE Books'
<1> DEFINE c == call[p]
           id == IdOf(c)
<1>1. c.at = "mark" /\ c.at # "idle" /\ UNCHANGED <<aggregate, history>>
  BY DEF Mark
<1>2. /\ claim[id].state # "absent" /\ id[1] = LedgerOf(c.req.kind)
  BY <1>1, CallFacts DEF Past, Steps
<1>3. /\ id \in MoveIds
      /\ claim'[id].state = "applied" /\ claim'[id].req = c.req /\ claim[id].req = c.req
      /\ claim[id].state = "applied" => claim' = claim
      /\ claim[id].state # "applied" => claim'[id].result = c.result
      /\ \A m \in MoveIds : m # id => claim'[m] = claim[m]
      /\ Others(p) /\ call'[p].at = "back"
      /\ call'[p].key = c.key /\ call'[p].req = c.req
  BY MarkStep
<1>4. ToldRight'
  BY <1>1, ToldStays DEF history
<1>5. Lands(c, hold, landed) /\ (RingSize \notin relanded => Tells(c, landed, took))
  BY LandsAll, ToldAll DEF Books
<1>6. Lands(call'[p], hold, landed) /\ Tells(call'[p], landed, took)
  BY <1>1, <1>3, <1>5 DEF Lands, Tells
<1> HIDE DEF id
<1>7. \A m \in MoveIds : claim[m].state # "absent" =>
        claim'[m].state # "absent" /\ claim'[m].req = claim[m].req
  BY <1>3
<1>8. \A m \in MoveIds : claim'[m].state # "absent" /\ m[1] = "adjust" =>
        hold[claim'[m].req.rid].state # "none"
  BY <1>2, <1>3 DEF Books, HoldsStand
<1>9. RingSize \notin relanded => ClaimsTell(claim', landed, took)
  <2> SUFFICES ASSUME RingSize \notin relanded PROVE ClaimsTell(claim', landed, took)
    OBVIOUS
  <2>1. ClaimsTell(claim, landed, took)
    BY ToldAll DEF Books
  <2>2. id[1] = "stock" => c.req.kind # "adjust"
    BY <1>2 DEF LedgerOf
  <2>3. id[1] = "stock" => c.result.why = "unknown" \/ (id \in landed /\ c.result = took[id])
    BY <1>1, <1>5, <2>2 DEF Tells, id
  <2> QED BY <1>3, <2>1, <2>3 DEF ClaimsTell
<1> QED BY <1>1, <1>3, <1>4, <1>6, <1>7, <1>8, <1>9, CallBooks DEF history

LEMMA ReadBackBooks ==
  ASSUME IInv, Books, NEW p \in Callers, ReadBack(p)
  PROVE Books'
<1>1. ToldRight'
  BY ToldStays DEF ReadBack
<1> QED BY <1>1, ReturnBooks DEF ReadBack, Answer

LEMMA CrashBooks ==
  ASSUME IInv, Books, NEW p \in Callers, Crash(p)
  PROVE Books'
<1>1. ToldRight'
  BY ToldStays DEF Crash, history
<1> QED BY <1>1, ReturnBooks DEF Crash, history

-----------------------------------------------------------------------------
(* Books: the aggregate takes an outcome *)

\* What one movement adds to the units taken of a kind.
Counts(req, o, kind) == IF o.ok /\ req.kind = kind THEN req.qty ELSE 0

\* Until a movement is taken past the ring, one that is taken was not taken before.
LEMMA TakenFirst ==
  ASSUME IInv, IInv', NEW p \in Callers, NEW o, Take(p, o), RingSize \notin relanded'
  PROVE RingSize \notin relanded /\ IdOf(call[p]) \notin landed
<1>1. relanded' \subseteq {RingSize}
  BY DEF IInv, TwiceOnlyPastTheRing
<1>2. relanded' = IF IdOf(call[p]) \in landed THEN relanded \cup {later[IdOf(call[p])]} ELSE relanded
  BY DEF Take
<1> QED BY <1>1, <1>2

LEMMA TookGrows ==
  ASSUME IInv, IInv', Books, NEW p \in Callers, call[p].at = "apply", NEW o \in Outcome, Take(p, o),
         UNCHANGED claim, RingSize \notin relanded', NEW kind, IsFiniteSet(Took(kind))
  PROVE /\ IsFiniteSet(Took(kind)')
        /\ Cardinality(Took(kind)') = Cardinality(Took(kind)) + Counts(call[p].req, o, kind)
<1> DEFINE id == IdOf(call[p])
<1>1. /\ id \in MoveIds /\ claim[id].req = call[p].req
  BY CallFacts DEF Past, Steps
<1>2. id \notin landed
  BY TakenFirst
<1>3. landed' = landed \cup {id} /\ took' = [took EXCEPT ![id] = o]
  BY DEF Take
<1>4. /\ landed \subseteq MoveIds /\ landed' \subseteq MoveIds
      /\ took \in [MoveIds -> Outcome] /\ claim \in [MoveIds -> Claim]
  BY DEF IInv, TypeOK
<1>5. PICK q, k : q = TookQty(kind) /\ k = TookQty(kind)'
  OBVIOUS
<1> HIDE DEF id
<1>6. ASSUME NEW m \in MoveIds PROVE claim[m].req.qty \in Nat
  BY <1>4 DEF Claim, Request
<1>7. q \in [MoveIds -> Nat] /\ k \in [MoveIds -> Nat]
  BY <1>5, <1>6 DEF TookQty, QtyOf
<1>8. \A m \in MoveIds : m # id => k[m] = q[m]
  BY <1>1, <1>3, <1>4, <1>5 DEF TookQty, QtyOf
<1>9. q[id] = 0
  BY <1>1, <1>2, <1>5 DEF TookQty, QtyOf
<1>10. k[id] = Counts(call[p].req, o, kind)
  <2>1. id \in landed' /\ took'[id] = o /\ claim'[id].req = call[p].req
    BY <1>1, <1>3, <1>4
  <2>2. k[id] = IF id \in landed' /\ took'[id].ok /\ claim'[id].req.kind = kind
                THEN claim'[id].req.qty ELSE 0
    BY <1>1, <1>5 DEF TookQty, QtyOf
  <2> QED BY <2>1, <2>2 DEF Counts
<1>11. Took(kind) = Units(MoveIds, q) /\ Took(kind)' = Units(MoveIds, k)
  BY <1>4, <1>5, TookIs
<1>12. /\ IsFiniteSet(Units(MoveIds, k))
       /\ Cardinality(Units(MoveIds, k)) = Cardinality(Units(MoveIds, q)) - q[id] + k[id]
  BY <1>1, <1>7, <1>8, <1>11, Refilled
<1>13. Cardinality(Took(kind)) \in Nat /\ k[id] \in Nat
  BY <1>1, <1>7, FS_CardinalityType
<1> QED BY <1>9, <1>10, <1>11, <1>12, <1>13

\* The units of one hold change.
LEMMA HeldMoves ==
  ASSUME hold \in [Rids -> Hold], hold' \in [Rids -> Hold], NEW r \in Rids,
         \A x \in Rids : x # r => hold'[x] = hold[x], IsFiniteSet(Held)
  PROVE /\ IsFiniteSet(Held') /\ Cardinality(Held) \in Nat
        /\ Cardinality(Held') = Cardinality(Held) - hold[r].qty + hold'[r].qty
<1>1. PICK q, k : q = HeldQty /\ k = HeldQty'
  OBVIOUS
<1>2. q \in [Rids -> Nat] /\ k \in [Rids -> Nat] /\ \A x \in Rids : x # r => k[x] = q[x]
  BY <1>1 DEF HeldQty, Hold
<1>3. q[r] = hold[r].qty /\ k[r] = hold'[r].qty
  BY <1>1 DEF HeldQty
<1>4. Held = Units(Rids, q) /\ Held' = Units(Rids, k)
  BY <1>1, HeldIs
<1>5. /\ IsFiniteSet(Units(Rids, k))
      /\ Cardinality(Units(Rids, k)) = Cardinality(Units(Rids, q)) - q[r] + k[r]
  BY <1>2, <1>4, Refilled
<1> QED BY <1>3, <1>4, <1>5, FS_CardinalityType

LEMMA TakeBooks ==
  ASSUME IInv, IInv', Books, NEW p \in Callers, call[p].at = "apply",
         NEW o \in Outcome, Take(p, o), known, UNCHANGED <<known, claim, refused, seeded, sold>>,
         \A r \in Rids : /\ hold'[r].state = hold[r].state
                         /\ hold[r].state = "none" => hold'[r].qty = hold[r].qty
                         /\ \/ hold'[r].last = hold[r].last
                            \/ call[p].req.kind = "adjust" /\ hold'[r].last = call[p].key,
         Others(p), call'[p].at \in {"mark", "resolve"},
         call'[p].key = call[p].key, call'[p].req = call[p].req,
         call'[p].at = "mark" => call'[p].result = o,
         RingSize \notin relanded' /\ IsFiniteSet(Held) =>
           /\ IsFiniteSet(Held')
           /\ onHand' + Cardinality(Held') + Counts(call[p].req, o, "removal")
                = onHand + Cardinality(Held) + Counts(call[p].req, o, "restock")
  PROVE Books'
<1> DEFINE c == call[p]
           id == IdOf(c)
<1>1. /\ id \in MoveIds /\ id = <<LedgerOf(c.req.kind), c.key>> /\ c.key \in Keys
      /\ claim[id].state # "absent" /\ claim[id].req = c.req
  BY CallFacts DEF Past, Steps, IdOf
<1>2. /\ ring' = Push(id, o)
      /\ landed' = landed \cup {id}
      /\ took' = [took EXCEPT ![id] = o]
      /\ relanded' = IF id \in landed THEN relanded \cup {later[id]} ELSE relanded
      /\ later' = [m \in MoveIds |->
                     IF m = id THEN 0
                     ELSE IF m \in landed /\ later[m] < RingSize THEN later[m] + 1
                     ELSE later[m]]
  BY DEF Take
<1>3. /\ landed \subseteq MoveIds /\ took \in [MoveIds -> Outcome]
      /\ later \in [MoveIds -> 0..RingSize] /\ ring \subseteq Entry
      /\ \A e1, e2 \in ring : e1.age = e2.age \/ e1.key = e2.key => e1 = e2
  BY DEF IInv, TypeOK
<1>4. IdOf(call'[p]) = id
  BY DEF IdOf
<1>5. Lands(c, hold, landed)
  BY LandsAll DEF Books
<1> HIDE DEF id
<1>6. \A x \in ring' : \/ x.ledger = id[1] /\ x.key = id[2] /\ x.result = o
                       \/ \E e \in ring : /\ e.ledger = x.ledger /\ e.key = x.key
                                          /\ e.result = x.result /\ e.key # id[2]
  BY <1>1, <1>2, <1>3, PushRing
<1>7. <<id[1], id[2]>> = id /\ id[2] = c.key /\ id[1] = LedgerOf(c.req.kind)
  BY <1>1
<1>8. LandedIsKnown'
  <2>1. \A m \in landed' : claim'[m].state # "absent" /\ m[2] \in KeysOf(m[1])
    <3>1. id[2] \in KeysOf(id[1])
      BY <1>5, <1>7 DEF Lands
    <3> QED BY <1>1, <1>2, <3>1 DEF Books, LandedIsKnown
  <2>2. \A e \in ring' : <<e.ledger, e.key>> \in landed'
    <3> SUFFICES ASSUME NEW x \in ring' PROVE <<x.ledger, x.key>> \in landed'
      OBVIOUS
    <3>1. CASE x.ledger = id[1] /\ x.key = id[2]
      BY <1>2, <1>7, <3>1
    <3>2. CASE \E e \in ring : e.ledger = x.ledger /\ e.key = x.key
      BY <1>2, <3>2 DEF Books, LandedIsKnown
    <3> QED BY <1>6, <3>1, <3>2
  <2>3. ASSUME NEW r \in Rids, hold'[r].last # None PROVE <<"adjust", hold'[r].last>> \in landed'
    <3>1. CASE hold'[r].last = hold[r].last
      BY <1>2, <2>3, <3>1 DEF Books, LandedIsKnown
    <3>2. CASE c.req.kind = "adjust" /\ hold'[r].last = c.key
      BY <1>1, <1>2, <3>2 DEF LedgerOf
    <3> QED BY <3>1, <3>2
  <2> QED BY <2>1, <2>2, <2>3 DEF LandedIsKnown, KeysOf
<1>9. HoldsStand'
  <2>1. WellFormed(c.req) /\ \A m \in MoveIds : claim[m].state # "absent" /\ m[1] = "adjust" =>
          claim[m].req.rid \in Rids
    <3>1. \A m \in MoveIds : claim[m].state # "absent" => WellFormed(claim[m].req)
            /\ LedgerOf(claim[m].req.kind) = m[1]
      BY DEF IInv, ClaimsKept
    <3> QED BY <1>1, <3>1 DEF WellFormed, LedgerOf
  <2> QED BY <2>1 DEF Books, HoldsStand
<1>10. AdjustsLand'
  <2>1. \A q \in Callers : Lands(call[q], hold, landed)
    BY LandsAll DEF Books
  <2>2. ASSUME NEW q \in Callers PROVE Lands(call'[q], hold', landed')
    <3>1. CASE q = p
      <4>1. c.key \in KeysOf(LedgerOf(c.req.kind))
        BY <1>5 DEF Lands
      <4> QED BY <1>2, <1>4, <3>1, <4>1 DEF Lands
    <3>2. CASE q # p
      <4>1. call'[q] = call[q]
        BY <3>2 DEF Others
      <4>2. call[q].at \in {"create", "resolve", "witness"} /\ call[q].req.kind = "adjust" =>
              call[q].req.rid \in Rids
        BY CallFacts DEF WellFormed
      <4>3. call[q].at \in {"resolve", "witness"} => call[q].req.kind = "adjust"
        BY CallFacts
      <4>4. Lands(call[q], hold, landed)
        BY <2>1
      <4> QED BY <1>2, <4>1, <4>2, <4>3, <4>4 DEF Lands
    <3> QED BY <3>1, <3>2
  <2> QED BY <2>2, LandsAllNext
<1>11. ToldRight'
  <2> SUFFICES ASSUME "held" \in refused, StockKeys \cap AdjustKeys = {}, RingSize \notin relanded'
               PROVE \E m \in landed' : later'[m] = RingSize
    BY DEF ToldRight
  <2>1. RingSize \notin relanded
    BY <1>2
  <2>2. PICK m \in landed : later[m] = RingSize
    BY <2>1 DEF Books, ToldRight
  <2>3. m # id
    BY <1>2, <2>2
  <2>4. later'[m] = RingSize
    BY <1>2, <1>3, <2>2, <2>3, RingAssumption
  <2> QED BY <1>2, <2>4
<1>12. StockTold'
  <2> SUFFICES ASSUME RingSize \notin relanded'
               PROVE /\ ClaimsTell(claim', landed', took')
                     /\ \A e \in ring' : e.ledger = "stock" => e.result = took'[<<"stock", e.key>>]
                     /\ \A q \in Callers : Tells(call'[q], landed', took')
    BY ToldAllNext
  <2>1. RingSize \notin relanded /\ id \notin landed
    BY TakenFirst DEF id
  <2>2. /\ ClaimsTell(claim, landed, took)
        /\ \A e \in ring : e.ledger = "stock" => e.result = took[<<"stock", e.key>>]
        /\ \A q \in Callers : Tells(call[q], landed, took)
    BY <2>1, ToldAll DEF Books
  <2>3. took'[id] = o /\ \A m \in MoveIds : m # id => took'[m] = took[m]
    BY <1>1, <1>2, <1>3
  <2>4. ClaimsTell(claim', landed', took')
    BY <1>2, <2>1, <2>2, <2>3 DEF ClaimsTell
  <2>5. ASSUME NEW x \in ring', x.ledger = "stock" PROVE x.result = took'[<<"stock", x.key>>]
    <3>1. CASE x.ledger = id[1] /\ x.key = id[2] /\ x.result = o
      BY <1>7, <2>3, <2>5, <3>1
    <3>2. CASE \E e \in ring : /\ e.ledger = x.ledger /\ e.key = x.key
                               /\ e.result = x.result /\ e.key # id[2]
      <4>1. PICK e \in ring : e.ledger = x.ledger /\ e.key = x.key /\ e.result = x.result
                              /\ e.key # id[2]
        BY <3>2
      <4>2. PICK m : m = <<"stock", x.key>>
        OBVIOUS
      <4>3. <<e.ledger, e.key>> \in landed
        BY <4>1 DEF Books, LandedIsKnown
      <4>4. m \in MoveIds /\ m[2] = x.key
        BY <1>3, <2>5, <4>1, <4>2, <4>3
      <4>5. m # id
        BY <4>1, <4>4
      <4>6. x.result = took[m]
        BY <2>2, <2>5, <4>1, <4>2
      <4> QED BY <2>3, <4>2, <4>4, <4>5, <4>6
    <3> QED BY <1>6, <3>1, <3>2
  <2>6. ASSUME NEW q \in Callers PROVE Tells(call'[q], landed', took')
    <3>1. CASE q = p
      BY <1>2, <1>4, <2>3, <3>1 DEF Tells
    <3>2. CASE q # p
      <4>1. call'[q] = call[q] /\ Tells(call[q], landed, took)
        BY <2>2, <3>2 DEF Others
      <4>2. ASSUME IdOf(call[q]) \in landed PROVE took'[IdOf(call[q])] = took[IdOf(call[q])]
        BY <1>3, <2>1, <2>3, <4>2
      <4> QED BY <1>2, <4>1, <4>2 DEF Tells
    <3> QED BY <3>1, <3>2
  <2> QED BY <2>4, <2>5, <2>6
<1>13. Balance'
  <2> SUFFICES ASSUME RingSize \notin relanded'
               PROVE /\ IsFiniteSet(Held')
                     /\ IsFiniteSet(Took("removal")') /\ IsFiniteSet(Took("restock")')
                     /\ onHand' + Cardinality(Held') + sold' + Cardinality(Took("removal")')
                          = seeded' + Cardinality(Took("restock")')
    BY DEF Balance
  <2>1. RingSize \notin relanded
    BY TakenFirst
  <2>2. /\ IsFiniteSet(Held) /\ IsFiniteSet(Took("removal")) /\ IsFiniteSet(Took("restock"))
        /\ onHand + Cardinality(Held) + sold + Cardinality(Took("removal"))
             = seeded + Cardinality(Took("restock"))
    BY <2>1 DEF Books, Balance
  <2>3. /\ IsFiniteSet(Took("removal")') /\ IsFiniteSet(Took("restock")')
        /\ Cardinality(Took("removal")') = Cardinality(Took("removal")) + Counts(c.req, o, "removal")
        /\ Cardinality(Took("restock")') = Cardinality(Took("restock")) + Counts(c.req, o, "restock")
    BY <2>2, TookGrows
  <2>4. /\ IsFiniteSet(Held')
        /\ onHand' + Cardinality(Held') + Counts(c.req, o, "removal")
             = onHand + Cardinality(Held) + Counts(c.req, o, "restock")
    BY <2>2
  <2>5. /\ Cardinality(Held) \in Nat /\ Cardinality(Took("removal")) \in Nat
        /\ Cardinality(Took("restock")) \in Nat /\ Cardinality(Held') \in Nat
    BY <2>2, <2>4, FS_CardinalityType
  <2>6. Counts(c.req, o, "removal") \in Nat /\ Counts(c.req, o, "restock") \in Nat
    BY CallFacts DEF Counts, Request
  <2>7. onHand \in Nat /\ onHand' \in Nat /\ sold \in Nat /\ seeded \in Nat
    BY DEF IInv, TypeOK
  <2> QED BY <2>2, <2>3, <2>4, <2>5, <2>6, <2>7
<1> QED BY <1>8, <1>9, <1>10, <1>11, <1>12, <1>13 DEF Books

LEMMA ApplyStockBooks ==
  ASSUME IInv, IInv', Books, NEW p \in Callers, ApplyStock(p)
  PROVE Books'
<1> DEFINE c == call[p]
           seen == {e \in Remembered(c.key) : e.ledger = "stock"}
           o == Judge(c.req)
           s == IF known THEN (CHOOSE e \in seen : TRUE).result ELSE Refusal("unknown", 0)
<1>1. c.at = "apply" /\ c.at # "idle" /\ c.req.kind # "adjust"
      /\ UNCHANGED <<known, hold, claim, seeded, sold, answers, refused>>
  BY DEF ApplyStock
<1>2. /\ c.req \in Request /\ LedgerOf(c.req.kind) = "stock" /\ call \in [Callers -> Call]
      /\ IdOf(c) = <<"stock", c.key>> /\ c.key \in Keys
  BY <1>1, CallFacts DEF LedgerOf, IdOf
<1>3. CASE (~known \/ seen # {}) /\ Decide(p, "mark", s)
           /\ UNCHANGED <<onHand, ring, landed, took, later, relanded>>
  <2>1. s \in Outcome
    <3>1. CASE ~known
      BY <3>1, OutcomeTypes
    <3>2. CASE known
      <4>1. (CHOOSE e \in seen : TRUE) \in seen
        BY <1>3, <3>2
      <4>2. \A e \in seen : e.result \in Outcome
        BY <1>1, <1>2, SeenFacts
      <4> QED BY <3>2, <4>1, <4>2
    <3> QED BY <3>1, <3>2
  <2>2. RingSize \notin relanded =>
          s.why = "unknown" \/ (IdOf(c) \in landed /\ s = took[IdOf(c)])
    <3>1. CASE ~known
      BY <3>1 DEF Refusal
    <3>2. ASSUME known, RingSize \notin relanded PROVE IdOf(c) \in landed /\ s = took[IdOf(c)]
      <4>1. PICK e \in seen : s = e.result
        BY <1>3, <3>2
      <4>2. e \in ring /\ e.key = c.key /\ e.ledger = "stock"
        BY <4>1 DEF Remembered
      <4>3. <<e.ledger, e.key>> \in landed
        BY <4>2 DEF Books, LandedIsKnown
      <4>4. e.result = took[<<"stock", e.key>>]
        BY <3>2, <4>2 DEF Books, StockTold
      <4> HIDE DEF s
      <4> QED BY <1>2, <4>1, <4>2, <4>3, <4>4
    <3> QED BY <3>1, <3>2
  <2> HIDE DEF s
  <2>3. /\ Others(p) /\ call'[p].at = "mark" /\ call'[p].key = c.key /\ call'[p].req = c.req
        /\ call'[p].result = s
    BY <1>2, <1>3, <2>1, DecideStep DEF Steps
  <2>4. Lands(c, hold, landed)
    BY LandsAll DEF Books
  <2>5. Lands(call'[p], hold, landed)
    BY <1>1, <2>3, <2>4 DEF Lands
  <2>6. IdOf(call'[p]) = IdOf(c)
    BY <2>3 DEF IdOf
  <2>7. RingSize \notin relanded => Tells(call'[p], landed, took)
    BY <2>2, <2>3, <2>6 DEF Tells
  <2>8. ToldRight'
    BY <1>1, <1>3, ToldStays
  <2> QED BY <1>1, <1>3, <2>3, <2>5, <2>7, <2>8, QuietBooks DEF aggregate
<1>4. CASE known /\ onHand' = o.onHand /\ Take(p, o) /\ Decide(p, "mark", o)
  <2>1. onHand \in Nat /\ c.req.qty \in Nat /\ c.req.kind \in {"restock", "removal"}
    BY <1>1, <1>2 DEF IInv, TypeOK, Request, Kinds
  <2>2. o \in Outcome
    BY <1>1, <1>2, <2>1, JudgeOutcome
  <2>3. onHand' + Counts(c.req, o, "removal") = onHand + Counts(c.req, o, "restock")
    <3>1. CASE c.req.exp # None /\ onHand # c.req.exp
      <4>1. o = Refusal("stale", onHand)
        BY <3>1 DEF Judge
      <4> HIDE DEF o
      <4>2. ~o.ok /\ o.onHand = onHand
        BY <4>1 DEF Refusal
      <4> QED BY <1>4, <2>1, <4>2 DEF Counts
    <3>2. CASE ~(c.req.exp # None /\ onHand # c.req.exp) /\ c.req.kind = "restock"
      <4>1. o = Ok(onHand + c.req.qty)
        BY <3>2 DEF Judge
      <4> HIDE DEF o
      <4>2. o.ok /\ o.onHand = onHand + c.req.qty
        BY <4>1 DEF Ok
      <4> QED BY <1>4, <2>1, <3>2, <4>2 DEF Counts
    <3>3. CASE /\ ~(c.req.exp # None /\ onHand # c.req.exp) /\ c.req.kind # "restock"
               /\ onHand < c.req.qty
      <4>1. o = Refusal("insufficient", onHand)
        BY <3>3 DEF Judge
      <4> HIDE DEF o
      <4>2. ~o.ok /\ o.onHand = onHand
        BY <4>1 DEF Refusal
      <4> QED BY <1>4, <2>1, <4>2 DEF Counts
    <3>4. CASE /\ ~(c.req.exp # None /\ onHand # c.req.exp) /\ c.req.kind # "restock"
               /\ ~(onHand < c.req.qty)
      <4>1. o = Ok(onHand - c.req.qty)
        BY <3>4 DEF Judge
      <4> HIDE DEF o
      <4>2. o.ok /\ o.onHand = onHand - c.req.qty
        BY <4>1 DEF Ok
      <4> QED BY <1>4, <2>1, <3>4, <4>2 DEF Counts
    <3> QED BY <3>1, <3>2, <3>3, <3>4
  <2> HIDE DEF o
  <2>4. Others(p) /\ call'[p].at = "mark" /\ call'[p].key = c.key /\ call'[p].req = c.req
        /\ call'[p].result = o
    BY <1>2, <1>4, <2>2, DecideStep DEF Steps
  <2>5. Held' = Held
    BY <1>1 DEF Held
  <2>6. onHand' \in Nat /\ Counts(c.req, o, "removal") \in Nat /\ Counts(c.req, o, "restock") \in Nat
    BY <2>1 DEF Counts, IInv, TypeOK
  <2>7. IsFiniteSet(Held) =>
          /\ IsFiniteSet(Held')
          /\ onHand' + Cardinality(Held') + Counts(c.req, o, "removal")
               = onHand + Cardinality(Held) + Counts(c.req, o, "restock")
    <3> SUFFICES ASSUME IsFiniteSet(Held)
                 PROVE onHand' + Cardinality(Held) + Counts(c.req, o, "removal")
                         = onHand + Cardinality(Held) + Counts(c.req, o, "restock")
      BY <2>5
    <3>1. Cardinality(Held) \in Nat
      BY FS_CardinalityType
    <3> QED BY <2>1, <2>3, <2>6, <3>1
  <2> QED BY <1>1, <1>4, <2>2, <2>4, <2>7, TakeBooks
<1> QED BY <1>3, <1>4 DEF ApplyStock

LEMMA ApplyAdjustBooks ==
  ASSUME IInv, IInv', Books, NEW p \in Callers, ApplyAdjust(p)
  PROVE Books'
<1> DEFINE c == call[p]
           h == hold[c.req.rid]
<1>1. /\ c.at = "apply" /\ c.at # "idle" /\ c.req.kind = "adjust" /\ known
      /\ UNCHANGED <<claim, seeded, sold, answers, refused>>
  BY DEF ApplyAdjust
<1>2. c.req \in Request /\ c.req.rid \in Rids /\ c.key \in Keys /\ call \in [Callers -> Call]
  BY <1>1, CallFacts DEF WellFormed
<1>3. /\ onHand \in Nat /\ onHand' \in Nat /\ hold \in [Rids -> Hold] /\ hold' \in [Rids -> Hold]
      /\ c.req.qty \in Nat /\ h.qty \in Nat
  BY <1>2 DEF IInv, TypeOK, Hold, Request
<1>4. CASE Return(p) /\ UNCHANGED <<aggregate, landed, took, later, relanded>>
  <2>1. ToldRight'
    BY <1>1, <1>4, ToldStays
  <2> QED BY <1>1, <1>4, <2>1, ReturnBooks
<1>5. ASSUME NEW o, Counts(c.req, o, "removal") # 0 \/ Counts(c.req, o, "restock") # 0 PROVE FALSE
  BY <1>1, <1>5 DEF Counts
<1>6. CASE /\ Take(p, Refusal("insufficient", 0)) /\ Goto(p, "resolve")
           /\ UNCHANGED <<known, onHand, hold>>
  <2>1. Refusal("insufficient", 0) \in Outcome
    BY OutcomeTypes
  <2>2. PICK o \in Outcome : o = Refusal("insufficient", 0) /\ Take(p, o)
    BY <1>6, <2>1
  <2>3. Others(p) /\ call'[p].at = "resolve" /\ call'[p].key = c.key /\ call'[p].req = c.req
    BY <1>2, <1>6, GotoStep DEF Steps
  <2>4. Held' = Held
    BY <1>6 DEF Held
  <2>5. IsFiniteSet(Held) =>
          /\ IsFiniteSet(Held')
          /\ onHand' + Cardinality(Held') + Counts(c.req, o, "removal")
               = onHand + Cardinality(Held) + Counts(c.req, o, "restock")
    BY <1>5, <1>6, <2>4
  <2> QED BY <1>1, <1>6, <2>2, <2>3, <2>5, TakeBooks
<1>7. CASE /\ h.state = "held" /\ onHand' = onHand - (c.req.qty - h.qty)
           /\ hold' = [hold EXCEPT ![c.req.rid].qty = c.req.qty, ![c.req.rid].last = c.key]
           /\ Take(p, Ok(0)) /\ Goto(p, "resolve") /\ UNCHANGED known
  <2>1. Ok(0) \in Outcome
    BY OutcomeTypes
  <2>2. PICK o \in Outcome : o = Ok(0) /\ Take(p, o)
    BY <1>7, <2>1
  <2>3. Others(p) /\ call'[p].at = "resolve" /\ call'[p].key = c.key /\ call'[p].req = c.req
    BY <1>2, <1>7, GotoStep DEF Steps
  <2>4. /\ \A r \in Rids : r # c.req.rid => hold'[r] = hold[r]
        /\ hold'[c.req.rid].qty = c.req.qty /\ hold'[c.req.rid].last = c.key
        /\ hold'[c.req.rid].state = h.state
    <3> DEFINE r == c.req.rid
               m == [hold EXCEPT ![r].qty = c.req.qty]
    <3>1. /\ m \in [Rids -> Hold] /\ m[r].qty = c.req.qty /\ m[r].state = h.state
          /\ \A x \in Rids : x # r => m[x] = hold[x]
      BY <1>2, <1>3 DEF Hold
    <3>2. hold' = [m EXCEPT ![r].last = c.key]
      BY <1>7
    <3> HIDE DEF m
    <3> QED BY <1>2, <3>1, <3>2 DEF Hold
  <2>5. \A r \in Rids : /\ hold'[r].state = hold[r].state
                        /\ hold[r].state = "none" => hold'[r].qty = hold[r].qty
                        /\ hold'[r].last = hold[r].last \/ hold'[r].last = c.key
    BY <1>7, <2>4
  <2>6. IsFiniteSet(Held) =>
          /\ IsFiniteSet(Held')
          /\ onHand' + Cardinality(Held') + Counts(c.req, o, "removal")
               = onHand + Cardinality(Held) + Counts(c.req, o, "restock")
    <3> SUFFICES ASSUME IsFiniteSet(Held)
                 PROVE /\ IsFiniteSet(Held')
                       /\ onHand' + Cardinality(Held') + Counts(c.req, o, "removal")
                            = onHand + Cardinality(Held) + Counts(c.req, o, "restock")
      OBVIOUS
    <3>1. /\ IsFiniteSet(Held') /\ Cardinality(Held) \in Nat
          /\ Cardinality(Held') = Cardinality(Held) - h.qty + c.req.qty
      BY <1>2, <1>3, <2>4, HeldMoves
    <3>2. Counts(c.req, o, "removal") = 0 /\ Counts(c.req, o, "restock") = 0
      BY <1>5
    <3>3. onHand' = onHand - (c.req.qty - h.qty)
      BY <1>7
    <3> QED BY <1>3, <3>1, <3>2, <3>3
  <2> QED BY <1>1, <1>7, <2>2, <2>3, <2>5, <2>6, TakeBooks
<1> QED BY <1>4, <1>6, <1>7 DEF ApplyAdjust

-----------------------------------------------------------------------------
(* Books: the other writers of the aggregate *)

LEMMA OtherBooks ==
  ASSUME IInv, IInv', Books,
         UNCHANGED <<ring, claim, call, landed, took, later, relanded, refused>>,
         \A r \in Rids : /\ hold'[r].last \in {None, hold[r].last}
                         /\ hold'[r].state \in {"held", "adopted"} => known'
                         /\ hold'[r].state = "none" => hold'[r].qty = 0
                         /\ hold[r].state # "none" => hold'[r].state # "none"
                         /\ hold[r].state = "gone" => hold'[r].state = "gone",
         ~known' => onHand' = 0,
         IsFiniteSet(Held) =>
           /\ IsFiniteSet(Held')
           /\ onHand' + Cardinality(Held') + sold' + seeded
                = onHand + Cardinality(Held) + sold + seeded'
  PROVE Books'
<1>1. LandedIsKnown'
  BY DEF Books, LandedIsKnown, KeysOf
<1>2. HoldsStand'
  <2>1. \A m \in MoveIds : claim[m].state # "absent" /\ m[1] = "adjust" => claim[m].req.rid \in Rids
    BY DEF IInv, ClaimsKept, WellFormed, LedgerOf
  <2> QED BY <2>1 DEF Books, HoldsStand
<1>3. AdjustsLand'
  <2>1. \A q \in Callers : Lands(call[q], hold, landed)
    BY LandsAll DEF Books
  <2>2. ASSUME NEW q \in Callers PROVE Lands(call[q], hold', landed)
    <3>1. call[q].at \in {"create", "resolve", "witness"} /\ call[q].req.kind = "adjust" =>
            call[q].req.rid \in Rids
      BY CallFacts DEF WellFormed
    <3>2. call[q].at \in {"resolve", "witness"} => call[q].req.kind = "adjust"
      BY CallFacts
    <3> QED BY <2>1, <3>1, <3>2 DEF Lands
  <2> QED BY <2>2, LandsAllNext
<1>4. ToldRight'
  BY DEF Books, ToldRight
<1>5. StockTold'
  BY ToldAll, ToldAllNext DEF Books
<1>6. Balance'
  <2> SUFFICES ASSUME RingSize \notin relanded
               PROVE /\ IsFiniteSet(Held')
                     /\ IsFiniteSet(Took("removal")') /\ IsFiniteSet(Took("restock")')
                     /\ onHand' + Cardinality(Held') + sold' + Cardinality(Took("removal")')
                          = seeded' + Cardinality(Took("restock")')
    BY DEF Balance
  <2>1. /\ IsFiniteSet(Held) /\ IsFiniteSet(Took("removal")) /\ IsFiniteSet(Took("restock"))
        /\ onHand + Cardinality(Held) + sold + Cardinality(Took("removal"))
             = seeded + Cardinality(Took("restock"))
    BY DEF Books, Balance
  <2>2. Took("removal")' = Took("removal") /\ Took("restock")' = Took("restock")
    BY DEF Took
  <2>3. /\ IsFiniteSet(Held')
        /\ onHand' + Cardinality(Held') + sold' + seeded
             = onHand + Cardinality(Held) + sold + seeded'
    BY <2>1
  <2>4. /\ Cardinality(Held) \in Nat /\ Cardinality(Took("removal")) \in Nat
        /\ Cardinality(Took("restock")) \in Nat /\ Cardinality(Held') \in Nat
    BY <2>1, <2>3, FS_CardinalityType
  <2>5. /\ onHand \in Nat /\ onHand' \in Nat /\ sold \in Nat /\ seeded \in Nat
        /\ sold' \in Nat /\ seeded' \in Nat
    BY DEF IInv, TypeOK
  <2> QED BY <2>1, <2>2, <2>3, <2>4, <2>5
<1> QED BY <1>1, <1>2, <1>3, <1>4, <1>5, <1>6 DEF Books

LEMMA OthersBooks ==
  ASSUME IInv, IInv', Books,
         \/ Seed \/ Withdraw
         \/ \E r \in Rids : Reserve(r) \/ Adopt(r) \/ Prune(r, TRUE) \/ Prune(r, FALSE)
  PROVE Books'
<1>0. /\ onHand \in Nat /\ onHand' \in Nat /\ sold \in Nat /\ seeded \in Nat
      /\ sold' \in Nat /\ seeded' \in Nat
      /\ hold \in [Rids -> Hold] /\ hold' \in [Rids -> Hold]
  BY DEF IInv, TypeOK
<1>1. HoldsStand
  BY DEF Books
<1>2. CASE Seed
  <2>1. UNCHANGED <<hold, ring, claim, call, sold, landed, took, later, relanded, answers, refused>>
        /\ known' /\ onHand = 0 /\ seeded' = seeded + onHand'
    BY <1>0, <1>1, <1>2 DEF Seed, HoldsStand
  <2>2. Held' = Held
    BY <2>1 DEF Held
  <2>3. ASSUME IsFiniteSet(Held)
        PROVE  onHand' + Cardinality(Held) + sold' + seeded
                 = onHand + Cardinality(Held) + sold + seeded'
    <3>1. Cardinality(Held) \in Nat
      BY <2>3, FS_CardinalityType
    <3>2. sold' = sold /\ onHand = 0 /\ seeded' = seeded + onHand'
      BY <2>1
    <3> QED BY <1>0, <3>1, <3>2
  <2> QED BY <1>1, <2>1, <2>2, <2>3, OtherBooks DEF HoldsStand
<1>3. CASE Withdraw
  <2>1. UNCHANGED <<onHand, hold, ring, claim, call, history>> /\ onHand = 0
        /\ \A r \in Rids : hold[r].state \in {"none", "gone"}
    BY <1>3 DEF Withdraw
  <2>2. Held' = Held
    BY <2>1 DEF Held
  <2> QED BY <1>1, <2>1, <2>2, OtherBooks DEF HoldsStand, history
<1>4. ASSUME NEW r \in Rids, Reserve(r) PROVE Books'
  <2>1. PICK q \in HoldQtys :
          /\ q <= onHand /\ onHand' = onHand - q
          /\ hold' = [hold EXCEPT ![r] = [state |-> "held", qty |-> q, last |-> None]]
    BY <1>4 DEF Reserve
  <2>2. /\ known /\ hold[r].state = "none" /\ q \in Nat
        /\ UNCHANGED <<known, ring, claim, call, history>>
    BY <1>4, <2>1, BoundAssumption DEF Reserve
  <2>3. /\ hold'[r].state = "held" /\ hold'[r].qty = q /\ hold'[r].last = None /\ hold[r].qty = 0
        /\ \A x \in Rids : x # r => hold'[x] = hold[x]
    BY <1>0, <1>1, <2>1, <2>2 DEF HoldsStand
  <2>4. IsFiniteSet(Held) =>
          /\ IsFiniteSet(Held')
          /\ onHand' + Cardinality(Held') + sold' + seeded
               = onHand + Cardinality(Held) + sold + seeded'
    <3> SUFFICES ASSUME IsFiniteSet(Held)
                 PROVE /\ IsFiniteSet(Held')
                       /\ onHand' + Cardinality(Held') + sold' + seeded
                            = onHand + Cardinality(Held) + sold + seeded'
      OBVIOUS
    <3>1. /\ IsFiniteSet(Held') /\ Cardinality(Held) \in Nat
          /\ Cardinality(Held') = Cardinality(Held) - 0 + q
      BY <1>0, <2>3, HeldMoves
    <3> QED BY <1>0, <2>1, <2>2, <3>1 DEF history
  <2> QED BY <1>1, <2>2, <2>3, <2>4, OtherBooks DEF HoldsStand, history
<1>5. ASSUME NEW r \in Rids, Adopt(r) PROVE Books'
  <2>1. /\ hold[r].state = "held" /\ hold' = [hold EXCEPT ![r].state = "adopted"]
        /\ UNCHANGED <<known, onHand, ring, claim, call, history>>
    BY <1>5 DEF Adopt
  <2>2. /\ hold'[r].state = "adopted" /\ hold'[r].qty = hold[r].qty /\ hold'[r].last = hold[r].last
        /\ \A x \in Rids : x # r => hold'[x] = hold[x]
    BY <1>0, <2>1 DEF Hold
  <2>3. Held' = Held
    <3>1. \A x \in Rids : hold'[x].qty = hold[x].qty
      BY <2>2
    <3> QED BY <3>1 DEF Held
  <2> QED BY <1>1, <2>1, <2>2, <2>3, OtherBooks DEF HoldsStand, history
<1>6. ASSUME NEW r \in Rids, NEW b \in BOOLEAN, Prune(r, b) PROVE Books'
  <2>1. /\ hold[r].state \in {"held", "adopted"}
        /\ hold' = [hold EXCEPT ![r] = [NoHold EXCEPT !.state = "gone"]]
        /\ onHand' = IF b THEN onHand + hold[r].qty ELSE onHand
        /\ sold' = IF b THEN sold ELSE sold + hold[r].qty
        /\ UNCHANGED <<known, ring, claim, call, seeded, landed, took, later, relanded, answers,
                       refused>>
    BY <1>6 DEF Prune
  <2>2. PICK g : g = [NoHold EXCEPT !.state = "gone"]
    OBVIOUS
  <2>3. g.state = "gone" /\ g.qty = 0 /\ g.last = None
    BY <2>2 DEF NoHold
  <2>4. /\ hold'[r].state = "gone" /\ hold'[r].qty = 0 /\ hold'[r].last = None
        /\ \A x \in Rids : x # r => hold'[x] = hold[x]
    BY <1>0, <2>1, <2>2, <2>3
  <2>5. known /\ hold[r].qty \in Nat
    BY <1>0, <1>1, <2>1 DEF HoldsStand, Hold
  <2>6. IsFiniteSet(Held) =>
          /\ IsFiniteSet(Held')
          /\ onHand' + Cardinality(Held') + sold' + seeded
               = onHand + Cardinality(Held) + sold + seeded'
    <3> SUFFICES ASSUME IsFiniteSet(Held)
                 PROVE /\ IsFiniteSet(Held')
                       /\ onHand' + Cardinality(Held') + sold' + seeded
                            = onHand + Cardinality(Held) + sold + seeded'
      OBVIOUS
    <3>1. /\ IsFiniteSet(Held') /\ Cardinality(Held) \in Nat
          /\ Cardinality(Held') = Cardinality(Held) - hold[r].qty + 0
      BY <1>0, <2>4, HeldMoves
    <3> QED BY <1>0, <2>1, <2>5, <3>1
  <2> QED BY <1>1, <2>1, <2>4, <2>5, <2>6, OtherBooks DEF HoldsStand
<1> QED BY <1>2, <1>3, <1>4, <1>5, <1>6

LEMMA InitBooks == Init => Books
<1> SUFFICES ASSUME Init PROVE Books
  OBVIOUS
<1>1. /\ known = FALSE /\ onHand = 0 /\ ring = {} /\ landed = {} /\ relanded = {} /\ refused = {}
      /\ seeded = 0 /\ sold = 0
      /\ \A r \in Rids : hold[r].state = "none" /\ hold[r].qty = 0 /\ hold[r].last = None
      /\ \A m \in MoveIds : claim[m].state = "absent"
      /\ \A p \in Callers : call[p].at = "idle"
  BY DEF Init, NoHold, NoClaim, Idle
<1>2. LandedIsKnown /\ HoldsStand /\ ToldRight
  BY <1>1 DEF LandedIsKnown, HoldsStand, ToldRight
<1>3. AdjustsLand
  BY <1>1, IdleBooks, LandsAll
<1>4. StockTold
  <2>1. ClaimsTell(claim, landed, took)
    BY <1>1 DEF ClaimsTell
  <2> QED BY <1>1, <2>1, IdleBooks, ToldAll
<1>5. Balance
  <2>1. \A r \in Rids : HeldQty[r] = 0
    BY <1>1 DEF HeldQty
  <2>2. IsFiniteSet(Held) /\ Cardinality(Held) = 0
    BY <2>1, HeldIs, NoUnits
  <2>3. \A kind : Took(kind) = {}
    BY <1>1 DEF Took
  <2>4. \A kind : IsFiniteSet(Took(kind)) /\ Cardinality(Took(kind)) = 0
    BY <2>3, FS_EmptySet
  <2> QED BY <1>1, <2>2, <2>4 DEF Balance
<1> QED BY <1>2, <1>3, <1>4, <1>5 DEF Books

LEMMA NextBooks == IInv /\ IInv' /\ Books /\ [Next]_vars => Books'
<1> SUFFICES ASSUME IInv, IInv', Books, [Next]_vars PROVE Books'
  OBVIOUS
<1>1. ASSUME NEW p \in Callers, Step(p) PROVE Books'
  BY <1>1, ReadClaimBooks, LookBooks, CreateBooks, ApplyStockBooks, AdjustDoneBooks,
     ApplyAdjustBooks, ResolveBooks, WitnessBooks, MarkBooks, ReadBackBooks DEF Step
<1>2. ASSUME NEW p \in Callers, Crash(p) PROVE Books'
  BY <1>2, CrashBooks
<1>3. ASSUME NEW p \in Callers, NEW key \in Keys, NEW req \in Requests, Begin(p, key, req)
      PROVE Books'
  BY <1>3, BeginBooks
<1>4. CASE UNCHANGED vars
  <2>1. UNCHANGED <<known, onHand, hold, ring, claim, call, seeded, sold, landed, took, later,
                    relanded, refused>>
    BY <1>4 DEF vars, aggregate, history
  <2>2. Held' = Held
    BY <2>1 DEF Held
  <2> QED BY <2>1, <2>2, OtherBooks DEF Books, HoldsStand
<1> QED BY <1>1, <1>2, <1>3, <1>4, OthersBooks DEF Next

THEOREM BooksHold == Spec => []Books
<1>1. Init => Books
  BY InitBooks
<1>2. IInv /\ IInv' /\ Books /\ [Next]_vars => Books'
  BY NextBooks
<1> QED BY <1>1, <1>2, Invariant, PTL DEF Spec

\* With every movement recorded, the records and the aggregate tell of the same movements.
LEMMA RecordsAreTaken ==
  ASSUME IInv, Books, RingSize \notin relanded, UnknownKeepsKey,
         \A m \in MoveIds : claim[m].state # "claimed", NEW kind \in {"restock", "removal"}
  PROVE Recorded(kind) = Took(kind)
<1>1. landed \subseteq MoveIds /\ claim \in [MoveIds -> Claim]
  BY DEF IInv, TypeOK
<1>2. ASSUME NEW m \in MoveIds, claim[m].req.kind = kind
      PROVE /\ claim[m].state = "applied" /\ claim[m].result.ok <=> m \in landed /\ took[m].ok
  <2>1. claim[m].state \in {"absent", "applied"}
    BY <1>1 DEF Claim
  <2>2. m \in landed => claim[m].state = "applied"
    BY <2>1 DEF Books, LandedIsKnown
  <2>3. claim[m].state = "applied" => m[1] = "stock"
    <3>1. claim[m].state = "applied" => LedgerOf(claim[m].req.kind) = m[1]
      BY DEF IInv, ClaimsKept
    <3> QED BY <1>2, <3>1 DEF LedgerOf
  <2>4. claim[m].state = "applied" => m \in landed /\ claim[m].result = took[m]
    BY <2>3 DEF Books, StockTold, UnknownKeepsKey
  <2> QED BY <2>2, <2>4
<1>3. ASSUME NEW u PROVE u \in Recorded(kind) <=> u \in Took(kind)
  <2>1. u \in Recorded(kind) <=>
          \E m \in MoveIds : /\ claim[m].state = "applied" /\ claim[m].result.ok
                             /\ claim[m].req.kind = kind
                             /\ \E j \in 1..claim[m].req.qty : u = <<m, j>>
    BY DEF Recorded
  <2>2. u \in Took(kind) <=>
          \E m \in landed : /\ took[m].ok /\ claim[m].req.kind = kind
                            /\ \E j \in 1..claim[m].req.qty : u = <<m, j>>
    BY DEF Took
  <2> QED BY <1>1, <1>2, <2>1, <2>2
<1> QED BY <1>3

\* #moveStock and adjust: however calls race, die and are repeated, until the ring forgets a
\* movement that is then taken again, the recorded answers explain every unit of the shelf,
\* and no adjust of a live hold is told that there is none.
THEOREM LedgerExplainsShelfHolds == Spec => []LedgerExplainsShelf
<1>1. IInv /\ Books => LedgerExplainsShelf
  <2> SUFFICES ASSUME IInv, Books, RingSize \notin relanded
               PROVE /\ StockKeys \cap AdjustKeys = {} /\ (\A m \in MoveIds : later[m] < RingSize) =>
                          AdjustOfHeldAnswered
                     /\ UnknownKeepsKey /\ (\A m \in MoveIds : claim[m].state # "claimed") =>
                          onHand + Cardinality(Held) + sold + Cardinality(Recorded("removal"))
                            = seeded + Cardinality(Recorded("restock"))
    BY DEF LedgerExplainsShelf
  <2>1. ASSUME StockKeys \cap AdjustKeys = {}, \A m \in MoveIds : later[m] < RingSize,
               "held" \in refused
        PROVE FALSE
    <3>1. PICK m \in landed : later[m] = RingSize
      BY <2>1 DEF Books, ToldRight
    <3>2. m \in MoveIds
      BY DEF IInv, TypeOK
    <3> QED BY <2>1, <3>1, <3>2, RingAssumption
  <2>2. ASSUME UnknownKeepsKey, \A m \in MoveIds : claim[m].state # "claimed"
        PROVE onHand + Cardinality(Held) + sold + Cardinality(Recorded("removal"))
                = seeded + Cardinality(Recorded("restock"))
    <3>1. Recorded("removal") = Took("removal") /\ Recorded("restock") = Took("restock")
      BY <2>2, RecordsAreTaken
    <3> QED BY <3>1 DEF Books, Balance
  <2> QED BY <2>1, <2>2 DEF AdjustOfHeldAnswered
<1> QED BY <1>1, Invariant, BooksHold, PTL

=============================================================================

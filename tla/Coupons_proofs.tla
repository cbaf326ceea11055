----------------------------- MODULE Coupons_proofs -----------------------------
(***************************************************************************)
(* Proofs about Coupons: answers stand, the counter is never low, no cap   *)
(* is overrun, the counter is high only by its seams, and slots are given  *)
(* back.                                                                   *)
(*                                                                         *)
(* IInv says where a call under way may stand, and that a redemption       *)
(* leaves an answer only for a release; AnswersStand is a part of it.      *)
(*                                                                         *)
(* CountInv counts the uses that are held, counted and unrecorded, or owed: *)
(* the counter covers them all (Lower), and what a kept look of the        *)
(* recount saw covers those that are left when it writes (KeptLook), both  *)
(* but for one use of each redemption that may be mixed up.  A claim that   *)
(* no call has brought to the counter is not the coupon's witness, unless   *)
(* its key is redeemed again and it may be mixed up (Fresh); Mixing bounds  *)
(* how many those are.                                                     *)
(*                                                                         *)
(* HighInv weighs the counter from above: a key weighs once it is counted  *)
(* by its owner, and each step that takes a weight away without its +1     *)
(* back is a seam.  SlotInv says who answers for each slot.                *)
(***************************************************************************)
EXTENDS Coupons, FiniteSetTheorems, TLAPS

-----------------------------------------------------------------------------
(* What the steps of a call do to it *)

Steps == {"idle", "slot", "right", "await", "witness", "beat", "bump", "compensate", "finish",
          "answer", "free", "reread", "unslot", "delete", "dec"}
Busy(c) == call[c].at # "idle"
Others(c) == \A d \in Callers : d # c => call'[d] = call[d]

\* Caller c's call goes on at step a, with these flags.
Moved(c, a, s, b, t) ==
  /\ call' \in [Callers -> Call]
  /\ Others(c)
  /\ call'[c].op = call[c].op /\ call'[c].key = call[c].key
  /\ call'[c].at = a /\ call'[c].saw = s /\ call'[c].bumped = b /\ call'[c].takeOver = t

\* Caller c takes up a call under key k.
Began(c, o, k, a, s) ==
  /\ call' \in [Callers -> Call]
  /\ Others(c)
  /\ call'[c].op = o /\ call'[c].key = k /\ call'[c].at = a /\ call'[c].saw = s
  /\ ~call'[c].bumped /\ ~call'[c].takeOver

\* Caller c's call is over.
Ended(c) == call' \in [Callers -> Call] /\ Others(c) /\ call'[c] = Idle

LEMMA IdleFields ==
  /\ Idle \in Call /\ Idle.op = "none" /\ Idle.key = None /\ Idle.at = "idle" /\ Idle.saw = "none"
  /\ ~Idle.bumped /\ ~Idle.takeOver
BY DEF Idle, Call, States, Answers

LEMMA CallFields ==
  ASSUME call \in [Callers -> Call], NEW c \in Callers
  PROVE /\ call[c] \in Call /\ call[c].at \in Steps /\ call[c].saw \in States
        /\ call[c].bumped \in BOOLEAN /\ call[c].takeOver \in BOOLEAN
        /\ call[c].key \in Keys \cup {None} /\ call[c].op \in {"none", "redeem", "release"}
BY DEF Call, Steps

LEMMA GotoStep ==
  ASSUME call \in [Callers -> Call], NEW c \in Callers, NEW a \in Steps, Goto(c, a)
  PROVE Moved(c, a, call[c].saw, call[c].bumped, call[c].takeOver)
BY DEF Goto, Moved, Others, Call, Steps

LEMMA ReturnStep ==
  ASSUME call \in [Callers -> Call], NEW c \in Callers, Return(c)
  PROVE Ended(c)
BY IdleFields DEF Return, Ended, Others

LEMMA SawStep ==
  ASSUME call \in [Callers -> Call], NEW c \in Callers, NEW a \in Steps, NEW s \in States,
         call' = [call EXCEPT ![c].at = a, ![c].saw = s]
  PROVE Moved(c, a, s, call[c].bumped, call[c].takeOver)
<1> DEFINE r == [call[c] EXCEPT !.at = a, !.saw = s]
<1>1. r \in Call /\ r.op = call[c].op /\ r.key = call[c].key
  BY DEF Call, Steps
<1>2. r.at = a /\ r.saw = s
  BY DEF Call, Steps
<1>3. r.bumped = call[c].bumped /\ r.takeOver = call[c].takeOver
  BY DEF Call, Steps
<1>4. call' = [call EXCEPT ![c] = r]
  OBVIOUS
<1> HIDE DEF r
<1> QED BY <1>1, <1>2, <1>3, <1>4 DEF Moved, Others

LEMMA CountedStep ==
  ASSUME call \in [Callers -> Call], NEW c \in Callers, NEW a \in Steps, NEW s \in States,
         call' = [call EXCEPT ![c].at = a, ![c].saw = s, ![c].bumped = TRUE]
  PROVE Moved(c, a, s, TRUE, call[c].takeOver)
<1> DEFINE r == [call[c] EXCEPT !.at = a, !.saw = s, !.bumped = TRUE]
<1>1. r \in Call /\ r.op = call[c].op /\ r.key = call[c].key
  BY DEF Call, Steps
<1>2. r.at = a /\ r.saw = s
  BY DEF Call, Steps
<1>3. r.bumped = TRUE /\ r.takeOver = call[c].takeOver
  BY DEF Call, Steps
<1>4. call' = [call EXCEPT ![c] = r]
  OBVIOUS
<1> HIDE DEF r
<1>5. call' \in [Callers -> Call] /\ Others(c) /\ call'[c] = r
  BY <1>1, <1>4 DEF Others
<1> QED BY <1>1, <1>2, <1>3, <1>5, Zenon DEF Moved

LEMMA ClearedStep ==
  ASSUME call \in [Callers -> Call], NEW c \in Callers, NEW a \in Steps,
         call' = [call EXCEPT ![c].at = a, ![c].bumped = FALSE]
  PROVE Moved(c, a, call[c].saw, FALSE, call[c].takeOver)
<1> DEFINE r == [call[c] EXCEPT !.at = a, !.bumped = FALSE]
<1>1. r \in Call /\ r.op = call[c].op /\ r.key = call[c].key
  BY DEF Call, Steps
<1>2. r.at = a /\ r.saw = call[c].saw
  BY DEF Call, Steps
<1>3. r.bumped = FALSE /\ r.takeOver = call[c].takeOver
  BY DEF Call, Steps
<1>4. call' = [call EXCEPT ![c] = r]
  OBVIOUS
<1> HIDE DEF r
<1> QED BY <1>1, <1>2, <1>3, <1>4 DEF Moved, Others

LEMMA TakeOverStep ==
  ASSUME call \in [Callers -> Call], NEW c \in Callers, NEW a \in Steps,
         call' = [call EXCEPT ![c].at = a, ![c].takeOver = TRUE]
  PROVE Moved(c, a, call[c].saw, call[c].bumped, TRUE)
<1> DEFINE r == [call[c] EXCEPT !.at = a, !.takeOver = TRUE]
<1>1. r \in Call /\ r.op = call[c].op /\ r.key = call[c].key
  BY DEF Call, Steps
<1>2. r.at = a /\ r.saw = call[c].saw
  BY DEF Call, Steps
<1>3. r.bumped = call[c].bumped /\ r.takeOver = TRUE
  BY DEF Call, Steps
<1>4. call' = [call EXCEPT ![c] = r]
  OBVIOUS
<1> HIDE DEF r
<1> QED BY <1>1, <1>2, <1>3, <1>4 DEF Moved, Others

LEMMA BeginStep ==
  ASSUME call \in [Callers -> Call], NEW c \in Callers, NEW o \in {"redeem", "release"},
         NEW k \in Keys, NEW s \in States, NEW a \in Steps,
         call' = [call EXCEPT ![c] = [Idle EXCEPT !.op = o, !.key = k, !.saw = s, !.at = a]]
  PROVE Began(c, o, k, a, s)
BY DEF Idle, Began, Others, Call, Steps

-----------------------------------------------------------------------------
(* What each step changes *)

Standing == {k \in Keys : red[k] # "none"}
Active == {c \in Callers : Busy(c)}
Finite == IsFiniteSet(Standing) /\ IsFiniteSet(Active)

\* The step keeps these fields of the coupon.
Counts(n, k) ==
  /\ coupon'.uses = n /\ coupon'.witness = k
  /\ coupon'.max = coupon.max /\ coupon'.cap = coupon.cap

\* The recount has looked at nothing that still stands.
Unlooked ==
  /\ ~recount'.held /\ ~recount'.kept
  /\ recount'.at = recount.at /\ recount'.owed = recount.owed

\* Caller c has come to the answer a.
Answered(c, a) ==
  \/ /\ call[c].op = "release"
     /\ Moved(c, "reread", call[c].saw, FALSE, call[c].takeOver) /\ told' = told
  \/ /\ call[c].op = "redeem" /\ a = "exhausted" /\ Capped(Key(c))
     /\ Moved(c, "free", call[c].saw, FALSE, call[c].takeOver) /\ told' = told
  \/ /\ call[c].op = "redeem" /\ ~(a = "exhausted" /\ Capped(Key(c)))
     /\ Ended(c) /\ Hear(Key(c), a)

LEMMA TellDoes ==
  ASSUME call \in [Callers -> Call], NEW c \in Callers, NEW a, Tell(c, a)
  PROVE Answered(c, a)
<1>1. CASE call[c].op = "release" /\ told' = told
           /\ call' = [call EXCEPT ![c].at = "reread", ![c].bumped = FALSE]
  BY <1>1, ClearedStep DEF Answered, Steps
<1>2. CASE call[c].op = "redeem" /\ a = "exhausted" /\ Capped(Key(c)) /\ told' = told
           /\ call' = [call EXCEPT ![c].at = "free", ![c].bumped = FALSE]
  BY <1>2, ClearedStep DEF Answered, Steps
<1>3. CASE call[c].op = "redeem" /\ ~(a = "exhausted" /\ Capped(Key(c)))
           /\ Hear(Key(c), a) /\ Return(c)
  BY <1>3, ReturnStep DEF Answered
<1> QED BY <1>1, <1>2, <1>3 DEF Tell

LEMMA RedeemDoes ==
  ASSUME TypeOK, NEW c \in Callers, NEW k \in Keys, Redeem(c, k)
  PROVE /\ call[c] = Idle
        /\ \/ red[k] = "none" /\ red' = [red EXCEPT ![k] = "claimed"]
              /\ Began(c, "redeem", k, "slot", "claimed")
           \/ red[k] = "claimed" /\ red' = red /\ Began(c, "redeem", k, "slot", "claimed")
           \/ red[k] \notin {"none", "claimed"} /\ red' = red
              /\ Began(c, "redeem", k, "await", red[k])
        /\ raced' = raced \cup ({k} \cap gone)
        /\ \/ red[k] = "none" /\ Stale(k) /\ mixed' = mixed \cup {k} /\ mixes' = mixes + 1
           \/ ~(red[k] = "none" /\ Stale(k)) /\ UNCHANGED <<mixed, mixes>>
        /\ reuses' \in {reuses, reuses + 1}
        /\ UNCHANGED <<coupon, holder, lapsed, slots, recount, told, gone, seams, deaths, stalls>>
<1> DEFINE s == IF red[k] = "none" THEN "claimed" ELSE red[k]
           a == IF s = "claimed" THEN "slot" ELSE "await"
<1>1. s \in States /\ a \in Steps
  BY DEF TypeOK, States, Steps
<1>2. call' = [call EXCEPT ![c] = [Idle EXCEPT !.op = "redeem", !.key = k, !.saw = s, !.at = a]]
  BY DEF Redeem
<1>3. Began(c, "redeem", k, a, s)
  BY <1>1, <1>2, BeginStep DEF TypeOK
<1>4. red' = [red EXCEPT ![k] = s]
  BY DEF Redeem
<1>5. red[k] # "none" => red' = red
  BY <1>4 DEF TypeOK
<1> QED BY <1>3, <1>4, <1>5 DEF Redeem

LEMMA SlotDoes ==
  ASSUME TypeOK, NEW c \in Callers, Slot(c)
  PROVE /\ call[c].at = "slot"
        /\ \/ /\ Moved(c, "right", call[c].saw, call[c].bumped, call[c].takeOver)
              /\ \/ ~Capped(Key(c)) /\ slots' = slots
                 \/ Capped(Key(c)) /\ TakeSlot(Key(c))
           \/ /\ Moved(c, "finish", "capped", call[c].bumped, call[c].takeOver)
              /\ Capped(Key(c)) /\ Key(c) \notin slots[Buyer[Key(c)]] /\ slots' = slots
        /\ UNCHANGED <<coupon, red, holder, lapsed, recount, told, gone, raced, mixed, mixes, reuses, seams, deaths,
                       stalls>>
<1>1. CASE call' = [call EXCEPT ![c].at = "finish", ![c].saw = "capped"]
           /\ Capped(Key(c)) /\ Key(c) \notin slots[Buyer[Key(c)]] /\ slots' = slots
  <2>1. Moved(c, "finish", "capped", call[c].bumped, call[c].takeOver)
    BY <1>1, SawStep DEF TypeOK, Steps, States, Answers
  <2> QED BY <1>1, <2>1 DEF Slot, redemption, history
<1>2. CASE /\ Goto(c, "right")
           /\ \/ ~Capped(Key(c)) /\ slots' = slots
              \/ Capped(Key(c)) /\ TakeSlot(Key(c))
  <2>1. Moved(c, "right", call[c].saw, call[c].bumped, call[c].takeOver)
    BY <1>2, GotoStep DEF TypeOK, Steps
  <2> QED BY <1>2, <2>1 DEF Slot, redemption, history
<1> QED BY <1>1, <1>2 DEF Slot

LEMMA RightDoes ==
  ASSUME TypeOK, NEW c \in Callers, Right(c)
  PROVE /\ call[c].at = "right"
        /\ \/ /\ red[Key(c)] = "claimed" \/ (call[c].takeOver /\ Key(c) \in lapsed)
              /\ red' = [red EXCEPT ![Key(c)] = "bumping"]
              /\ lapsed' = lapsed \ {Key(c)}
              /\ holder' = [holder EXCEPT ![Key(c)] = c]
              /\ seams' = seams + Cardinality(Overtaken(Key(c)))
              /\ \/ call[c].takeOver
                    /\ Moved(c, "witness", call[c].saw, call[c].bumped, call[c].takeOver)
                 \/ ~call[c].takeOver
                    /\ Moved(c, "beat", call[c].saw, call[c].bumped, call[c].takeOver)
           \/ /\ red[Key(c)] # "claimed"
              /\ UNCHANGED <<red, holder, lapsed, seams>>
              /\ \/ call[c].takeOver
                    /\ Moved(c, "answer", call[c].saw, call[c].bumped, call[c].takeOver)
                 \/ ~call[c].takeOver
                    /\ Moved(c, "await", call[c].saw, call[c].bumped, call[c].takeOver)
        /\ UNCHANGED <<coupon, slots, recount, told, gone, raced, mixed, mixes, reuses, deaths, stalls>>
<1>1. call[c].at = "right" /\ UNCHANGED <<coupon, slots, recount, told, gone, raced, mixed, mixes, reuses, deaths,
                                          stalls>>
  BY DEF Right
<1>2. /\ Goto(c, "witness") => Moved(c, "witness", call[c].saw, call[c].bumped, call[c].takeOver)
      /\ Goto(c, "beat") => Moved(c, "beat", call[c].saw, call[c].bumped, call[c].takeOver)
      /\ Goto(c, "answer") => Moved(c, "answer", call[c].saw, call[c].bumped, call[c].takeOver)
      /\ Goto(c, "await") => Moved(c, "await", call[c].saw, call[c].bumped, call[c].takeOver)
  BY GotoStep DEF TypeOK, Steps
<1>3. CASE call[c].takeOver
  BY <1>1, <1>2, <1>3 DEF Right, LeaseLapsed, redemption
<1>4. CASE ~call[c].takeOver
  BY <1>1, <1>2, <1>4 DEF Right, LeaseLapsed, redemption
<1> QED BY <1>3, <1>4

LEMMA AwaitDoes ==
  ASSUME TypeOK, NEW c \in Callers, Await(c)
  PROVE /\ call[c].at = "await"
        /\ \/ Terminal(red[Key(c)]) /\ Answered(c, red[Key(c)])
           \/ /\ red[Key(c)] = "claimed" \/ Key(c) \in lapsed
              /\ Moved(c, "slot", call[c].saw, call[c].bumped, TRUE) /\ told' = told
        /\ UNCHANGED <<coupon, red, holder, lapsed, slots, recount, gone, raced, mixed, mixes, reuses, seams, deaths,
                       stalls>>
<1>1. call' = [call EXCEPT ![c].at = "slot", ![c].takeOver = TRUE]
      => Moved(c, "slot", call[c].saw, call[c].bumped, TRUE)
  BY TakeOverStep DEF TypeOK, Steps
<1>2. Tell(c, red[Key(c)]) => Answered(c, red[Key(c)])
  BY TellDoes DEF TypeOK
<1> QED BY <1>1, <1>2 DEF Await, LeaseLapsed, docs, redemption

LEMMA WitnessDoes ==
  ASSUME TypeOK, NEW c \in Callers, Witness(c)
  PROVE /\ call[c].at = "witness"
        /\ \/ coupon.witness = Key(c)
              /\ Moved(c, "finish", "applied", call[c].bumped, call[c].takeOver)
           \/ coupon.witness # Key(c)
              /\ Moved(c, "beat", call[c].saw, call[c].bumped, call[c].takeOver)
        /\ UNCHANGED <<coupon, red, holder, lapsed, slots, recount, told, gone, raced, mixed, mixes, reuses, seams,
                       deaths, stalls>>
<1>1. Goto(c, "beat") => Moved(c, "beat", call[c].saw, call[c].bumped, call[c].takeOver)
  BY GotoStep DEF TypeOK, Steps
<1>2. call' = [call EXCEPT ![c].at = "finish", ![c].saw = "applied"]
      => Moved(c, "finish", "applied", call[c].bumped, call[c].takeOver)
  BY SawStep DEF TypeOK, Steps, States, Answers
<1> QED BY <1>1, <1>2 DEF Witness, docs, redemption, history

LEMMA BeatDoes ==
  ASSUME TypeOK, NEW c \in Callers, Beat(c)
  PROVE /\ call[c].at = "beat"
        /\ \/ Mine(c) /\ lapsed' = lapsed \ {Key(c)}
              /\ Moved(c, "bump", call[c].saw, call[c].bumped, call[c].takeOver)
           \/ ~Mine(c) /\ lapsed' = lapsed
              /\ Moved(c, "answer", call[c].saw, call[c].bumped, call[c].takeOver)
        /\ UNCHANGED <<coupon, red, holder, slots, recount, told, gone, raced, mixed, mixes, reuses, seams, deaths,
                       stalls>>
<1>1. /\ Goto(c, "bump") => Moved(c, "bump", call[c].saw, call[c].bumped, call[c].takeOver)
      /\ Goto(c, "answer") => Moved(c, "answer", call[c].saw, call[c].bumped, call[c].takeOver)
  BY GotoStep DEF TypeOK, Steps
<1> QED BY <1>1 DEF Beat, history

LEMMA BumpDoes ==
  ASSUME TypeOK, NEW c \in Callers, Bump(c)
  PROVE /\ call[c].at = "bump"
        /\ \/ /\ Room /\ Counts(coupon.uses + 1, Key(c)) /\ Unlooked
              /\ coupon' = [coupon EXCEPT !.uses = @ + 1, !.witness = Key(c)]
              /\ recount' = [recount EXCEPT !.held = FALSE, !.kept = FALSE]
              /\ Moved(c, "finish", "applied", TRUE, call[c].takeOver)
           \/ /\ ~Room /\ UNCHANGED <<coupon, recount>>
              /\ \/ Moved(c, "compensate", "exhausted", call[c].bumped, call[c].takeOver)
                 \/ Moved(c, "beat", call[c].saw, call[c].bumped, call[c].takeOver)
        /\ UNCHANGED <<red, holder, lapsed, slots, told, gone, raced, mixed, mixes, reuses, seams, deaths, stalls>>
<1>1. CASE Room /\ coupon' = [coupon EXCEPT !.uses = @ + 1, !.witness = Key(c)] /\ CouponWritten
           /\ call' = [call EXCEPT ![c].at = "finish", ![c].saw = "applied", ![c].bumped = TRUE]
  <2>1. Moved(c, "finish", "applied", TRUE, call[c].takeOver)
    BY <1>1, CountedStep DEF TypeOK, Steps, States, Answers
  <2>2. Counts(coupon.uses + 1, Key(c))
    BY <1>1 DEF TypeOK, Counts
  <2>3. Unlooked
    BY <1>1 DEF TypeOK, Unlooked, CouponWritten, Recount
  <2> QED BY <1>1, <2>1, <2>2, <2>3 DEF Bump, docs, redemption, history, CouponWritten
<1>2. CASE ~Room /\ UNCHANGED <<coupon, recount>>
           /\ call' = [call EXCEPT ![c].at = "compensate", ![c].saw = "exhausted"]
  <2>1. Moved(c, "compensate", "exhausted", call[c].bumped, call[c].takeOver)
    BY <1>2, SawStep DEF TypeOK, Steps, States, Answers
  <2> QED BY <1>2, <2>1 DEF Bump, docs, redemption, history
<1>3. CASE ~Room /\ UNCHANGED <<coupon, recount>> /\ Goto(c, "beat")
  <2>1. Moved(c, "beat", call[c].saw, call[c].bumped, call[c].takeOver)
    BY <1>3, GotoStep DEF TypeOK, Steps
  <2> QED BY <1>3, <2>1 DEF Bump, docs, redemption, history
<1> QED BY <1>1, <1>2, <1>3 DEF Bump

LEMMA CompensateDoes ==
  ASSUME TypeOK, NEW c \in Callers, Compensate(c)
  PROVE /\ call[c].at = "compensate"
        /\ ReleaseSlot(Key(c))
        /\ Moved(c, "finish", call[c].saw, call[c].bumped, call[c].takeOver)
        /\ UNCHANGED <<coupon, red, holder, lapsed, recount, told, gone, raced, mixed, mixes, reuses, seams, deaths,
                       stalls>>
<1>1. Goto(c, "finish") => Moved(c, "finish", call[c].saw, call[c].bumped, call[c].takeOver)
  BY GotoStep DEF TypeOK, Steps
<1> QED BY <1>1 DEF Compensate, redemption, history

LEMMA FinishDoes ==
  ASSUME TypeOK, NEW c \in Callers, Finish(c)
  PROVE /\ call[c].at = "finish"
        /\ \/ red[Key(c)] \in {"claimed", "bumping"} /\ Record(Key(c), call[c].saw)
              /\ Answered(c, call[c].saw)
           \/ Terminal(red[Key(c)]) /\ Answered(c, red[Key(c)]) /\ UNCHANGED <<red, holder, lapsed>>
           \/ red[Key(c)] = "none" /\ Answered(c, call[c].saw) /\ UNCHANGED <<red, holder, lapsed>>
        /\ seams' = IF call[c].bumped /\ red[Key(c)] \in {"exhausted", "capped"} THEN seams + 1 ELSE seams
        /\ UNCHANGED <<coupon, slots, recount, gone, raced, mixed, mixes, reuses, deaths, stalls>>
<1>1. /\ Tell(c, red[Key(c)]) => Answered(c, red[Key(c)])
      /\ Tell(c, call[c].saw) => Answered(c, call[c].saw)
  BY TellDoes DEF TypeOK
<1> QED BY <1>1 DEF Finish, redemption

LEMMA AnswerDoes ==
  ASSUME TypeOK, NEW c \in Callers, Answer(c)
  PROVE /\ call[c].at = "answer"
        /\ Terminal(red[Key(c)]) /\ Answered(c, red[Key(c)])
        /\ UNCHANGED <<coupon, red, holder, lapsed, slots, recount, gone, raced, mixed, mixes, reuses, seams, deaths,
                       stalls>>
<1>1. Tell(c, red[Key(c)]) => Answered(c, red[Key(c)])
  BY TellDoes DEF TypeOK
<1> QED BY <1>1 DEF Answer, docs, redemption

LEMMA FreeDoes ==
  ASSUME TypeOK, NEW c \in Callers, Free(c)
  PROVE /\ call[c].at = "free"
        /\ ReleaseSlot(Key(c)) /\ Hear(Key(c), "exhausted") /\ Ended(c)
        /\ UNCHANGED <<coupon, red, holder, lapsed, recount, gone, raced, mixed, mixes, reuses, seams, deaths, stalls>>
BY ReturnStep DEF TypeOK, Free, redemption

LEMMA ContendDoes ==
  ASSUME TypeOK, NEW c \in Callers, Contend(c)
  PROVE /\ call[c].at \in {"await", "answer"} /\ ~Terminal(red[Key(c)])
        /\ \/ call[c].op = "redeem" /\ Ended(c)
           \/ call[c].op = "release"
              /\ Moved(c, "reread", call[c].saw, call[c].bumped, call[c].takeOver)
        /\ UNCHANGED <<coupon, red, holder, lapsed, slots, recount, told, gone, raced, mixed, mixes, reuses, seams,
                       deaths, stalls>>
<1>1. Goto(c, "reread") => Moved(c, "reread", call[c].saw, call[c].bumped, call[c].takeOver)
  BY GotoStep DEF TypeOK, Steps
<1>2. Return(c) => Ended(c)
  BY ReturnStep DEF TypeOK
<1> QED BY <1>1, <1>2 DEF Contend, docs, redemption, history

LEMMA ReleaseDoes ==
  ASSUME TypeOK, NEW c \in Callers, NEW k \in Keys, Release(c, k)
  PROVE /\ call[c] = Idle
        /\ red[k] \in {"claimed", "bumping", "applied"}
        /\ \/ red[k] = "bumping" /\ Began(c, "release", k, "await", red[k])
           \/ red[k] # "bumping" /\ Began(c, "release", k, "unslot", red[k])
        /\ gone' = gone \cup {k} /\ told' = [told EXCEPT ![k] = {}]
        /\ raced' = IF \E d \in Callers : Key(d) = k THEN raced \cup {k} ELSE raced
        /\ UNCHANGED <<coupon, red, holder, lapsed, slots, recount, mixed, mixes, reuses, seams,
                       deaths, stalls>>
<1> DEFINE s == red[k]
           a == IF s = "bumping" THEN "await" ELSE "unslot"
<1>1. s \in States /\ a \in Steps
  BY DEF TypeOK, Steps
<1>2. call' = [call EXCEPT ![c] = [Idle EXCEPT !.op = "release", !.key = k, !.saw = s, !.at = a]]
  BY DEF Release
<1>3. Began(c, "release", k, a, s)
  BY <1>1, <1>2, BeginStep DEF TypeOK
<1> QED BY <1>3 DEF Release, docs, redemption

LEMMA RereadDoes ==
  ASSUME TypeOK, NEW c \in Callers, Busy(c) => Key(c) \in Keys, Reread(c)
  PROVE /\ call[c].at = "reread"
        /\ \/ red[Key(c)] = "none" /\ Ended(c)
           \/ /\ red[Key(c)] = "bumping" /\ coupon.witness = Key(c)
              /\ Moved(c, "unslot", "applied", call[c].bumped, call[c].takeOver)
           \/ /\ red[Key(c)] # "none" /\ ~(red[Key(c)] = "bumping" /\ coupon.witness = Key(c))
              /\ Moved(c, "unslot", red[Key(c)], call[c].bumped, call[c].takeOver)
        /\ UNCHANGED <<coupon, red, holder, lapsed, slots, recount, told, gone, raced, mixed, mixes, reuses, seams,
                       deaths, stalls>>
<1> DEFINE k == Key(c)
           s == IF red[k] = "bumping" /\ coupon.witness = k THEN "applied" ELSE red[k]
<1>1. k \in Keys
  BY DEF Reread, Busy
<1>2. s \in States
  BY <1>1 DEF TypeOK, States, Answers
<1>3. Return(c) => Ended(c)
  BY ReturnStep DEF TypeOK
<1>4. call' = [call EXCEPT ![c].at = "unslot", ![c].saw = s]
      => Moved(c, "unslot", s, call[c].bumped, call[c].takeOver)
  BY <1>2, SawStep DEF TypeOK, Steps
<1> QED BY <1>3, <1>4 DEF Reread, docs, redemption, history

LEMMA UnslotDoes ==
  ASSUME TypeOK, NEW c \in Callers, Unslot(c)
  PROVE /\ call[c].at = "unslot"
        /\ ReleaseSlot(Key(c))
        /\ Moved(c, "delete", call[c].saw, call[c].bumped, call[c].takeOver)
        /\ UNCHANGED <<coupon, red, holder, lapsed, recount, told, gone, raced, mixed, mixes, reuses, seams, deaths,
                       stalls>>
<1>1. Goto(c, "delete") => Moved(c, "delete", call[c].saw, call[c].bumped, call[c].takeOver)
  BY GotoStep DEF TypeOK, Steps
<1> QED BY <1>1 DEF Unslot, redemption, history

\* Caller c's debt to the recount is settled, or it never had one.
LooksBut(S) ==
  /\ recount'.held = recount.held /\ recount'.kept = recount.kept
  /\ recount'.at = recount.at /\ recount'.owed = S
  /\ recount'.uses = recount.uses /\ recount'.seen = recount.seen
  /\ recount'.seenUses = recount.seenUses /\ recount'.seenLive = recount.seenLive

LEMMA OwedStep ==
  ASSUME recount \in Recount, NEW S \in SUBSET Callers, recount' = [recount EXCEPT !.owed = S]
  PROVE LooksBut(S) /\ recount' \in Recount
<1>1. recount' \in Recount /\ recount'.at = recount.at /\ recount'.owed = S
      /\ recount'.uses = recount.uses
      /\ recount'.seenUses = recount.seenUses /\ recount'.seenLive = recount.seenLive
  BY DEF Recount
<1>2. recount'.held = recount.held /\ recount'.kept = recount.kept /\ recount'.seen = recount.seen
  BY DEF Recount
<1> QED BY <1>1, <1>2 DEF LooksBut

LEMMA DeleteDoes ==
  ASSUME TypeOK, NEW c \in Callers, Delete(c)
  PROVE /\ call[c].at = "delete"
        /\ \/ /\ red[Key(c)] # "none" /\ Record(Key(c), "none") /\ LooksBut(recount.owed)
              /\ \/ call[c].saw = "applied"
                    /\ Moved(c, "dec", call[c].saw, call[c].bumped, call[c].takeOver)
                 \/ call[c].saw # "applied" /\ Ended(c)
           \/ red[Key(c)] = "none" /\ Ended(c) /\ UNCHANGED <<red, holder, lapsed>>
              /\ LooksBut(recount.owed \ {c})
        /\ recount' \in Recount
        /\ UNCHANGED <<coupon, slots, told, gone, raced, mixes, reuses, seams, deaths, stalls>>
        /\ mixed' = mixed \ {Key(c)}
<1>1. Goto(c, "dec") => Moved(c, "dec", call[c].saw, call[c].bumped, call[c].takeOver)
  BY GotoStep DEF TypeOK, Steps
<1>2. Return(c) => Ended(c)
  BY ReturnStep DEF TypeOK
<1> DEFINE S == IF red[Key(c)] = "none" THEN recount.owed \ {c} ELSE recount.owed
<1>3. S \in SUBSET Callers
  BY DEF TypeOK, Recount
<1>4. recount' = [recount EXCEPT !.owed = S]
  BY DEF Delete
<1>5. LooksBut(S) /\ recount' \in Recount
  BY <1>3, <1>4, OwedStep DEF TypeOK
<1>6. red[Key(c)] = "none" => S = recount.owed \ {c}
  OBVIOUS
<1>7. red[Key(c)] # "none" => S = recount.owed
  OBVIOUS
<1> HIDE DEF S
<1> QED BY <1>1, <1>2, <1>5, <1>6, <1>7 DEF Delete, redemption, history

LEMMA DecDoes ==
  ASSUME TypeOK, NEW c \in Callers, Dec(c)
  PROVE /\ call[c].at = "dec"
        /\ coupon' = [coupon EXCEPT !.uses = IF @ > 0 THEN @ - 1 ELSE 0]
        /\ Counts(IF coupon.uses > 0 THEN coupon.uses - 1 ELSE 0, coupon.witness)
        /\ coupon.uses > 0 => ~recount'.held /\ ~recount'.kept
        /\ recount'.held => recount.held
        /\ recount'.kept => recount.kept
        /\ recount'.at = recount.at /\ recount'.owed = recount.owed \ {c}
        /\ recount'.seenLive = recount.seenLive /\ recount'.uses = recount.uses
        /\ recount' \in Recount
        /\ Ended(c)
        /\ UNCHANGED <<red, holder, lapsed, slots, told, gone, raced, mixed, mixes, reuses, seams, deaths, stalls>>
<1> DEFINE h == recount.held /\ coupon.uses = 0
           q == recount.kept /\ coupon.uses = 0
           r == [recount EXCEPT !.held = h, !.kept = q, !.owed = recount.owed \ {c}]
<1>1. recount' = r
  BY DEF Dec
<1>2. h \in BOOLEAN /\ q \in BOOLEAN /\ recount.owed \ {c} \in SUBSET Callers
  BY DEF TypeOK, Recount
<1>3. (coupon.uses > 0 => ~h /\ ~q) /\ (h => recount.held) /\ (q => recount.kept)
  BY DEF TypeOK
<1> HIDE DEF h, q
<1>4. /\ r \in Recount /\ r.at = recount.at /\ r.owed = recount.owed \ {c}
      /\ r.seenLive = recount.seenLive /\ r.uses = recount.uses
  BY <1>2 DEF TypeOK, Recount
<1>5. (r.held <=> h) /\ (r.kept <=> q)
  BY <1>2 DEF TypeOK, Recount
<1> HIDE DEF r
<1>6. Counts(IF coupon.uses > 0 THEN coupon.uses - 1 ELSE 0, coupon.witness)
  BY DEF Dec, TypeOK, Counts
<1>7. Ended(c)
  BY ReturnStep DEF TypeOK, Dec
<1>8. /\ call[c].at = "dec" /\ coupon' = [coupon EXCEPT !.uses = IF @ > 0 THEN @ - 1 ELSE 0]
      /\ UNCHANGED <<red, holder, lapsed, slots, told, gone, raced, mixed, mixes, reuses, seams, deaths, stalls>>
  BY DEF Dec, docs, redemption, history
<1> QED BY <1>1, <1>3, <1>4, <1>5, <1>6, <1>7, <1>8

LEMMA CrashDoes ==
  ASSUME TypeOK, NEW c \in Callers, Crash(c)
  PROVE /\ call[c] # Idle
        /\ deaths' = deaths + 1
        /\ seams' = IF OwesRecord(c) THEN seams + 1 ELSE seams
        /\ holder' = [k \in Keys |-> IF holder[k] = c THEN None ELSE holder[k]]
        /\ LooksBut(recount.owed \ {c}) /\ recount' \in Recount
        /\ Ended(c)
        /\ UNCHANGED <<coupon, red, lapsed, slots, told, gone, raced, mixed, mixes, reuses, stalls>>
<1>1. LooksBut(recount.owed \ {c}) /\ recount' \in Recount
  <2> DEFINE S == recount.owed \ {c}
  <2>1. S \in SUBSET Callers
    BY DEF TypeOK, Recount
  <2>2. recount' = [recount EXCEPT !.owed = S]
    BY DEF Crash
  <2> QED BY <2>1, <2>2, OwedStep DEF TypeOK
<1>2. Ended(c)
  BY ReturnStep DEF TypeOK, Crash
<1> QED BY <1>1, <1>2 DEF Crash

-----------------------------------------------------------------------------
(* The inductive invariant: shapes, and what a call knows of its key *)

ShapeOf(c) ==
  /\ ~Busy(c) => call[c] = Idle
  /\ Busy(c) => Key(c) \in Keys /\ call[c].op # "none"
  /\ call[c].op = "redeem" => call[c].at \notin {"reread", "unslot", "delete", "dec"}
  /\ call[c].op = "release" => call[c].at # "free" /\ Key(c) \in gone
  /\ call[c].bumped => call[c].at = "finish" /\ call[c].saw = "applied"
  /\ call[c].at = "finish" => call[c].saw \in Answers
  /\ call[c].at = "compensate" => call[c].saw = "exhausted"
  /\ call[c].at = "dec" => call[c].saw = "applied"
  /\ Busy(c) /\ red[Key(c)] = "none" => Key(c) \in gone
  /\ call[c].at = "free" => red[Key(c)] = "exhausted" \/ Key(c) \in gone
CallShape == \A c \in Callers : ShapeOf(c)

IInv == TypeOK /\ Finite /\ CallShape /\ AnswersStand

CallAct(c) == Step(c) \/ Crash(c) \/ \E k \in Keys : Redeem(c, k) \/ Release(c, k)
RecountAct == LookAtCoupon \/ LookForBumping \/ LookAtApplied \/ Correct

\* A recount changes nothing but its own look and the counter.
LEMMA RecountDoes ==
  ASSUME TypeOK, Finite, RecountAct
  PROVE /\ UNCHANGED <<red, holder, lapsed, slots, call, told, gone, raced, mixed, mixes, reuses, seams, deaths, stalls>>
        /\ recount' \in Recount
        /\ coupon' = coupon \/ coupon' = [coupon EXCEPT !.uses = recount.seenLive]
<1>1. Cardinality(Applied) \in Nat
  <2>1. Applied \in SUBSET Standing
    BY DEF Applied, Standing
  <2> QED BY <2>1, FS_Subset, FS_CardinalityType DEF Finite
<1>2. Owing \in SUBSET Callers
  BY DEF Owing
<1>3. NoRecount \in Recount
  BY DEF NoRecount, Recount
<1>4. coupon.uses \in Nat /\ recount \in Recount
  BY DEF TypeOK
<1>5. CASE LookAtCoupon
  BY <1>4, <1>5 DEF LookAtCoupon, docs, redemption, history, Recount
<1>6. CASE LookForBumping
  BY <1>3, <1>4, <1>6 DEF LookForBumping, docs, redemption, history, Recount
<1>7. CASE LookAtApplied
  <2>1. UNCHANGED <<coupon, red, holder, lapsed, slots, call, told, gone, raced, mixed, mixes, reuses, seams, deaths,
                    stalls>>
    BY <1>7 DEF LookAtApplied, docs, redemption, history
  <2>2. PICK live \in Nat : live = Cardinality(Applied)
    BY <1>1
  <2>3. PICK owing \in SUBSET Callers : owing = Owing
    BY <1>2
  <2>4. \/ recount' = NoRecount
        \/ recount' = [NoRecount EXCEPT !.seen = TRUE, !.seenUses = recount.uses, !.seenLive = live,
                                        !.kept = recount.held, !.owed = owing]
        \/ recount' = [recount EXCEPT !.at = "write"]
    BY <1>7, <2>2, <2>3 DEF LookAtApplied
  <2>5. recount.uses \in Nat /\ recount.held \in BOOLEAN
    BY <1>4 DEF Recount
  <2>6. CASE recount' = [NoRecount EXCEPT !.seen = TRUE, !.seenUses = recount.uses, !.seenLive = live,
                                        !.kept = recount.held, !.owed = owing]
    BY <2>1, <2>5, <2>6 DEF NoRecount, Recount
  <2>7. CASE recount' = [recount EXCEPT !.at = "write"]
    BY <1>4, <2>1, <2>7 DEF Recount
  <2> QED BY <1>3, <2>1, <2>4, <2>6, <2>7
<1>8. CASE Correct
  BY <1>3, <1>8 DEF Correct, docs, redemption, history
<1> QED BY <1>5, <1>6, <1>7, <1>8 DEF RecountAct

LEMMA LapseDoes ==
  ASSUME TypeOK, NEW k \in Keys, Lapse(k)
  PROVE /\ red[k] = "bumping" /\ k \notin lapsed
        /\ ~\E c \in Callers : Key(c) = k /\ call[c].at = "bump" /\ Mine(c)
        /\ stalls' = IF holder[k] = None THEN stalls ELSE stalls + 1
        /\ lapsed' = lapsed \cup {k}
        /\ UNCHANGED <<coupon, red, holder, slots, call, recount, told, gone, raced, mixed, mixes, reuses, seams, deaths>>
BY DEF Lapse

\* The calls under way, and the keys redeemed, grow by one at a time.
LEMMA FiniteStep ==
  ASSUME Finite, NEW c, NEW k, Active' \subseteq Active \cup {c},
         Standing' \subseteq Standing \cup {k}
  PROVE Finite'
<1>1. IsFiniteSet(Active \cup {c}) /\ IsFiniteSet(Standing \cup {k})
  BY FS_AddElement DEF Finite
<1> QED BY <1>1, FS_Subset DEF Finite

LEMMA ActiveStep ==
  ASSUME call \in [Callers -> Call], NEW c \in Callers, Others(c)
  PROVE Active' \subseteq Active \cup {c}
BY DEF Active, Others, Busy

\* What a caller hears of a key that was released, nobody is told.
LEMMA HearTypes ==
  ASSUME TypeOK, NEW c \in Callers, NEW a \in Answers, Key(c) \in Keys, Answered(c, a)
  PROVE told' \in [Keys -> SUBSET Answers]
<1>1. told' = told \/ Hear(Key(c), a)
  BY DEF Answered
<1>2. CASE Hear(Key(c), a)
  BY <1>2 DEF TypeOK, Hear
<1> QED BY <1>1, <1>2 DEF TypeOK

LEMMA AnsweredMoves ==
  ASSUME NEW c \in Callers, NEW a, Answered(c, a)
  PROVE call' \in [Callers -> Call] /\ Others(c)
BY DEF Answered, Moved, Ended

LEMMA RecordTypes ==
  ASSUME TypeOK, NEW k \in Keys, NEW s \in States \ {"bumping"}, Record(k, s)
  PROVE /\ red' \in [Keys -> States]
        /\ red'[k] = s /\ \A x \in Keys : x # k => red'[x] = red[x]
        /\ holder' \in [Keys -> Callers \cup {None}]
        /\ holder'[k] = None /\ \A x \in Keys : x # k => holder'[x] = holder[x]
        /\ \A x \in Keys : holder'[x] # None => red'[x] = "bumping"
        /\ lapsed' = lapsed \ {k} /\ lapsed' \subseteq {x \in Keys : red'[x] = "bumping"}
BY DEF TypeOK, Record

LEMMA CallTypes ==
  ASSUME TypeOK, Finite, CallShape, NEW c \in Callers, CallAct(c)
  PROVE TypeOK'
<1>1. CASE \E k \in Keys : Redeem(c, k)
  <2> PICK k \in Keys : Redeem(c, k)
    BY <1>1
  <2> QED BY RedeemDoes DEF TypeOK, Began, States, Answers
<1>2. CASE \E k \in Keys : Release(c, k)
  <2> PICK k \in Keys : Release(c, k)
    BY <1>2
  <2> QED BY ReleaseDoes DEF TypeOK, Began
<1>3. CASE Crash(c)
  <2>1. seams' \in Nat /\ deaths' \in Nat
    <3>1. seams \in Nat /\ deaths \in Nat
      BY DEF TypeOK
    <3>2. (seams' = seams \/ seams' = seams + 1) /\ deaths' = deaths + 1
      BY <1>3, CrashDoes
    <3> QED BY <3>1, <3>2
  <2>2. call' \in [Callers -> Call]
    BY <1>3, CrashDoes DEF Ended
  <2>3. {gone', raced', mixed'} \subseteq SUBSET Keys /\ mixes' \in Nat /\ reuses' \in Nat
        /\ stalls' \in Nat /\ told' \in [Keys -> SUBSET Answers]
    BY <1>3, CrashDoes DEF TypeOK
  <2>4. /\ coupon' \in [uses : Nat, witness : Keys \cup {None},
                         max : Nat \cup {None}, cap : Nat \cup {None}]
        /\ red' \in [Keys -> States] /\ holder' \in [Keys -> Callers \cup {None}]
        /\ (\A k \in Keys : holder'[k] # None => red'[k] = "bumping")
        /\ lapsed' \subseteq {k \in Keys : red'[k] = "bumping"}
        /\ slots' \in [Customers -> SUBSET Keys]
    <3>1. UNCHANGED <<coupon, red, lapsed, slots>>
      BY <1>3, CrashDoes
    <3>2. holder' = [k \in Keys |-> IF holder[k] = c THEN None ELSE holder[k]]
      BY <1>3, CrashDoes
    <3>3. \A k \in Keys : holder'[k] # None => holder[k] # None
      BY <3>2
    <3>4. holder' \in [Keys -> Callers \cup {None}]
      BY <3>2 DEF TypeOK
    <3> QED BY <3>1, <3>3, <3>4 DEF TypeOK
  <2>5. recount' \in Recount
    BY <1>3, CrashDoes
  <2> QED BY <2>1, <2>2, <2>3, <2>4, <2>5 DEF TypeOK
<1>4. CASE Step(c)
  <2> DEFINE k == Key(c)
  <2>1. k \in Keys
    BY <1>4 DEF Step, Slot, Right, Await, Witness, Beat, Bump, Compensate, Finish, Answer, Free,
                Contend, Reread, Unslot, Delete, Dec, CallShape, ShapeOf, Busy
  <2>2. CASE Slot(c)
    <3>1. slots' \in [Customers -> SUBSET Keys]
      BY <2>1, <2>2, SlotDoes DEF TypeOK, TakeSlot
    <3>2. call' \in [Callers -> Call]
      BY <2>2, SlotDoes DEF Moved
    <3> QED BY <2>2, <3>1, <3>2, SlotDoes DEF TypeOK
  <2>3. CASE Right(c)
    <3>1. call' \in [Callers -> Call]
      BY <2>3, RightDoes DEF Moved
    <3>2. seams' \in Nat
      <4>1. Overtaken(k) \in SUBSET Active
        BY DEF Overtaken, Active, CallShape, ShapeOf, Busy, Idle, TypeOK, Call
      <4>2. Cardinality(Overtaken(k)) \in Nat
        BY <4>1, FS_Subset, FS_CardinalityType DEF Finite
      <4> QED BY <2>3, <4>2, RightDoes DEF TypeOK
    <3>3. /\ red' \in [Keys -> States] /\ holder' \in [Keys -> Callers \cup {None}]
          /\ \A x \in Keys : holder'[x] # None => red'[x] = "bumping"
          /\ lapsed' \subseteq {x \in Keys : red'[x] = "bumping"}
      BY <2>1, <2>3, RightDoes DEF TypeOK, States
    <3> QED BY <2>3, <3>1, <3>2, <3>3, RightDoes DEF TypeOK
  <2>4. CASE Await(c)
    <3>1. /\ call' \in [Callers -> Call]
          /\ told' \in [Keys -> SUBSET Answers]
      BY <2>1, <2>4, AwaitDoes, AnsweredMoves, HearTypes DEF Moved, TypeOK, Terminal
    <3>2. UNCHANGED <<coupon, red, holder, lapsed, slots, recount, gone, raced, mixed, mixes, reuses,
                      seams, deaths, stalls>>
      BY <2>4, AwaitDoes
    <3> QED BY <3>1, <3>2 DEF TypeOK
  <2>5. CASE Witness(c)
    BY <2>5, WitnessDoes DEF TypeOK, Moved
  <2>6. CASE Beat(c)
    BY <2>6, BeatDoes DEF TypeOK, Moved
  <2>7. CASE Bump(c)
    <3>1. call' \in [Callers -> Call]
      BY <2>7, BumpDoes DEF Moved
    <3>2. coupon' \in [uses : Nat, witness : Keys \cup {None}, max : Nat \cup {None}, cap : Nat \cup {None}]
      <4>1. coupon \in [uses : Nat, witness : Keys \cup {None}, max : Nat \cup {None}, cap : Nat \cup {None}]
        BY DEF TypeOK
      <4>2. coupon' = coupon \/ coupon' = [coupon EXCEPT !.uses = coupon.uses + 1, !.witness = k]
        BY <2>7, BumpDoes
      <4>3. PICK n \in Nat : n = coupon.uses + 1
        BY <4>1
      <4>4. CASE coupon' = [coupon EXCEPT !.uses = n, !.witness = k]
        <5> HIDE DEF k
        <5> QED BY <2>1, <4>1, <4>4
      <4> QED BY <4>1, <4>2, <4>3, <4>4
    <3>3. recount' \in Recount
      BY <2>7, BumpDoes DEF TypeOK, Recount
    <3>4. UNCHANGED <<red, holder, lapsed, slots, told, gone, raced, mixed, mixes, reuses, seams,
                      deaths, stalls>>
      BY <2>7, BumpDoes
    <3> QED BY <3>1, <3>2, <3>3, <3>4 DEF TypeOK
  <2>8. CASE Compensate(c)
    <3>1. slots' \in [Customers -> SUBSET Keys]
      BY <2>8, CompensateDoes DEF TypeOK, ReleaseSlot
    <3> QED BY <2>8, <3>1, CompensateDoes DEF TypeOK, Moved
  <2>9. CASE Finish(c)
    <3>1. call[c].saw \in Answers
      BY <2>9 DEF Finish, CallShape, ShapeOf
    <3>2. /\ call' \in [Callers -> Call]
          /\ told' \in [Keys -> SUBSET Answers]
      BY <2>1, <2>9, <3>1, FinishDoes, AnsweredMoves, HearTypes DEF Terminal
    <3>3. seams' \in Nat
      BY <2>9, FinishDoes DEF TypeOK
    <3>4. call[c].saw \in States \ {"bumping"}
      BY <3>1 DEF States, Answers
    <3>5. /\ red' \in [Keys -> States] /\ holder' \in [Keys -> Callers \cup {None}]
          /\ \A x \in Keys : holder'[x] # None => red'[x] = "bumping"
          /\ lapsed' \subseteq {x \in Keys : red'[x] = "bumping"}
      <4>1. CASE Record(k, call[c].saw)
        BY <2>1, <3>4, <4>1, RecordTypes
      <4>2. CASE UNCHANGED <<red, holder, lapsed>>
        BY <4>2 DEF TypeOK
      <4> QED BY <2>9, <4>1, <4>2, FinishDoes
    <3> QED BY <2>9, <3>2, <3>3, <3>5, FinishDoes DEF TypeOK
  <2>10. CASE Answer(c)
    <3>1. /\ call' \in [Callers -> Call]
          /\ told' \in [Keys -> SUBSET Answers]
      BY <2>1, <2>10, AnswerDoes, AnsweredMoves, HearTypes DEF Terminal
    <3> QED BY <2>10, <3>1, AnswerDoes DEF TypeOK
  <2>11. CASE Free(c)
    <3>1. slots' \in [Customers -> SUBSET Keys]
      BY <2>11, FreeDoes DEF TypeOK, ReleaseSlot
    <3>2. told' \in [Keys -> SUBSET Answers]
      BY <2>11, FreeDoes DEF TypeOK, Hear, Answers
    <3> QED BY <2>11, <3>1, <3>2, FreeDoes DEF TypeOK, Ended
  <2>12. CASE Contend(c)
    BY <2>12, ContendDoes DEF TypeOK, Moved, Ended
  <2>13. CASE Reread(c)
    BY <2>1, <2>13, RereadDoes DEF TypeOK, Moved, Ended
  <2>14. CASE Unslot(c)
    <3>1. slots' \in [Customers -> SUBSET Keys]
      BY <2>14, UnslotDoes DEF TypeOK, ReleaseSlot
    <3> QED BY <2>14, <3>1, UnslotDoes DEF TypeOK, Moved
  <2>15. CASE Delete(c)
    <3>1. call' \in [Callers -> Call]
      BY <2>15, DeleteDoes DEF Moved, Ended
    <3>2. /\ red' \in [Keys -> States] /\ holder' \in [Keys -> Callers \cup {None}]
          /\ \A x \in Keys : holder'[x] # None => red'[x] = "bumping"
          /\ lapsed' \subseteq {x \in Keys : red'[x] = "bumping"}
      <4>1. CASE Record(k, "none")
        BY <2>1, <4>1, RecordTypes DEF States
      <4>2. CASE UNCHANGED <<red, holder, lapsed>>
        BY <4>2 DEF TypeOK
      <4> QED BY <2>15, <4>1, <4>2, DeleteDoes
    <3>3. /\ recount' \in Recount /\ mixed' = mixed \ {k}
          /\ UNCHANGED <<coupon, slots, told, gone, raced, mixes, reuses, seams, deaths, stalls>>
      BY <2>15, DeleteDoes
    <3> QED BY <3>1, <3>2, <3>3 DEF TypeOK
  <2>16. CASE Dec(c)
    <3>1. coupon' \in [uses : Nat, witness : Keys \cup {None}, max : Nat \cup {None}, cap : Nat \cup {None}]
      BY <2>16, DecDoes DEF TypeOK
    <3> QED BY <2>16, <3>1, DecDoes DEF TypeOK, Ended
  <2> QED BY <1>4, <2>2, <2>3, <2>4, <2>5, <2>6, <2>7, <2>8, <2>9, <2>10, <2>11, <2>12, <2>13,
             <2>14, <2>15, <2>16 DEF Step
<1> QED BY <1>1, <1>2, <1>3, <1>4 DEF CallAct

\* The redemptions are where a call may leave them: one is deleted only for a release, and a
\* refusal stands until then.
Lasting ==
  /\ gone \subseteq gone'
  /\ \A k \in Keys : /\ red'[k] = "none" => red[k] = "none" \/ k \in gone
                     /\ red[k] = "exhausted" => red'[k] = "exhausted" \/ k \in gone

LEMMA ShapeLasts ==
  ASSUME CallShape, Lasting, NEW c \in Callers, Others(c), ShapeOf(c)'
  PROVE CallShape'
<1> SUFFICES ASSUME NEW d \in Callers, d # c PROVE ShapeOf(d)'
  BY DEF CallShape
<1>1. ShapeOf(d) /\ call'[d] = call[d]
  BY DEF CallShape, Others
<1> QED BY <1>1 DEF ShapeOf, Lasting, Busy, Key

LEMMA AnsweredShape ==
  ASSUME TypeOK, CallShape, Lasting, NEW c \in Callers, NEW a, Answered(c, a),
         Busy(c), ~(call[c].op = "release" /\ call[c].at = "free"),
         red'[Key(c)] = a \/ Key(c) \in gone,
         red'[Key(c)] = "none" => red[Key(c)] = "none" \/ Key(c) \in gone
  PROVE ShapeOf(c)'
<1>1. ShapeOf(c)
  BY DEF CallShape
<1>2. CASE Ended(c)
  BY <1>2, IdleFields DEF Ended, ShapeOf, Busy
<1>3. CASE Moved(c, "reread", call[c].saw, FALSE, call[c].takeOver) /\ call[c].op = "release"
  BY <1>1, <1>3 DEF Moved, ShapeOf, Busy, Lasting, Key
<1>4. CASE Moved(c, "free", call[c].saw, FALSE, call[c].takeOver) /\ call[c].op = "redeem"
           /\ a = "exhausted"
  BY <1>1, <1>4 DEF Moved, ShapeOf, Busy, Lasting, Key
<1> QED BY <1>2, <1>3, <1>4 DEF Answered

LEMMA RecordLasts ==
  ASSUME TypeOK, NEW k \in Keys, NEW s \in Answers, red[k] \in {"claimed", "bumping"}, Record(k, s),
         UNCHANGED gone
  PROVE Lasting
BY DEF TypeOK, Record, Lasting, Answers

LEMMA CallKeepsShape ==
  ASSUME TypeOK, CallShape, NEW c \in Callers, CallAct(c)
  PROVE /\ Lasting /\ Others(c) /\ CallShape'
        /\ \E k : Standing' \subseteq Standing \cup {k}
<1> SUFFICES /\ Lasting /\ Others(c) /\ ShapeOf(c)'
             /\ \E k : Standing' \subseteq Standing \cup {k}
  BY ShapeLasts
<1>0. ShapeOf(c)
  BY DEF CallShape
<1>1. ASSUME Lasting, Others(c), ShapeOf(c)', UNCHANGED red
      PROVE /\ Lasting /\ Others(c) /\ ShapeOf(c)'
            /\ \E k : Standing' \subseteq Standing \cup {k}
  BY <1>1 DEF Standing
<1>2. ASSUME UNCHANGED <<red, gone>>
      PROVE Lasting
  BY <1>2 DEF Lasting
<1>3. ASSUME NEW k \in Keys, Redeem(c, k)
      PROVE /\ Lasting /\ Others(c) /\ ShapeOf(c)'
            /\ \E x : Standing' \subseteq Standing \cup {x}
  <2>1. Lasting
    BY <1>3, RedeemDoes DEF Lasting, TypeOK
  <2>2. Others(c)
    BY <1>3, RedeemDoes DEF Began
  <2>3. ShapeOf(c)'
    BY <1>3, RedeemDoes DEF Began, ShapeOf, Busy, Key, TypeOK
  <2>4. Standing' \subseteq Standing \cup {k}
    BY <1>3, RedeemDoes DEF Standing, TypeOK
  <2> QED BY <2>1, <2>2, <2>3, <2>4
<1>4. ASSUME NEW k \in Keys, Release(c, k)
      PROVE /\ Lasting /\ Others(c) /\ ShapeOf(c)'
            /\ \E x : Standing' \subseteq Standing \cup {x}
  <2>1. Lasting
    BY <1>4, ReleaseDoes DEF Lasting
  <2>2. Others(c)
    BY <1>4, ReleaseDoes DEF Began
  <2>3. ShapeOf(c)'
    BY <1>4, ReleaseDoes DEF Began, ShapeOf, Busy, Key
  <2> QED BY <1>1, <1>4, <2>1, <2>2, <2>3, ReleaseDoes
<1>5. CASE Crash(c)
  <2>1. Others(c) /\ ShapeOf(c)'
    BY <1>5, CrashDoes, IdleFields DEF Ended, ShapeOf, Busy
  <2> QED BY <1>1, <1>2, <1>5, <2>1, CrashDoes
<1>6. CASE Step(c)
  <2> DEFINE k == Key(c)
  <2>1. k \in Keys /\ Busy(c)
    BY <1>0, <1>6 DEF Step, Slot, Right, Await, Witness, Beat, Bump, Compensate, Finish, Answer,
       Free,
                Contend, Reread, Unslot, Delete, Dec, ShapeOf, Busy
  <2>2. CASE Slot(c)
    <3>1. Others(c) /\ ShapeOf(c)'
      BY <1>0, <2>2, SlotDoes DEF Moved, ShapeOf, Busy, Key, Answers
    <3> QED BY <1>1, <1>2, <2>2, <3>1, SlotDoes
  <2>3. CASE Right(c)
    <3>1. Lasting
      BY <2>1, <2>3, RightDoes DEF Lasting, TypeOK
    <3>2. Others(c) /\ ShapeOf(c)'
      BY <1>0, <2>1, <2>3, <3>1, RightDoes DEF Moved, ShapeOf, Busy, Key, Lasting
    <3>3. Standing' \subseteq Standing \cup {k}
      BY <2>1, <2>3, RightDoes DEF Standing, TypeOK
    <3> QED BY <3>1, <3>2, <3>3
  <2>4. CASE Await(c)
    <3>1. Lasting
      BY <1>2, <2>4, AwaitDoes
    <3>2. CASE Answered(c, red[k])
      <4>1. Others(c) /\ ShapeOf(c)'
        BY <2>1, <2>4, <3>1, <3>2, AwaitDoes, AnsweredShape, AnsweredMoves
      <4> QED BY <1>1, <2>4, <3>1, <4>1, AwaitDoes
    <3>3. CASE Moved(c, "slot", call[c].saw, call[c].bumped, TRUE)
      <4>1. Others(c) /\ ShapeOf(c)'
        <5>1. Others(c) /\ call'[c].op = call[c].op /\ call'[c].key = call[c].key
              /\ call'[c].at = "slot" /\ call'[c].saw = call[c].saw
          BY <3>3 DEF Moved
        <5>2. call[c].at = "await" /\ UNCHANGED <<red, gone>>
          BY <2>4, AwaitDoes
        <5>3. ~call'[c].bumped
          BY <1>0, <3>3, <5>2 DEF Moved, ShapeOf
        <5> QED BY <1>0, <5>1, <5>2, <5>3 DEF ShapeOf, Busy, Key
      <4> QED BY <1>1, <2>4, <3>1, <4>1, AwaitDoes
    <3> QED BY <2>4, <3>2, <3>3, AwaitDoes
  <2>5. CASE Witness(c)
    <3>1. Others(c) /\ ShapeOf(c)'
      BY <1>0, <2>5, WitnessDoes DEF Moved, ShapeOf, Busy, Key, Answers
    <3> QED BY <1>1, <1>2, <2>5, <3>1, WitnessDoes
  <2>6. CASE Beat(c)
    <3>1. Others(c) /\ ShapeOf(c)'
      BY <1>0, <2>6, BeatDoes DEF Moved, ShapeOf, Busy, Key
    <3> QED BY <1>1, <1>2, <2>6, <3>1, BeatDoes
  <2>7. CASE Bump(c)
    <3>1. Others(c) /\ ShapeOf(c)'
      <4>0. call[c].at = "bump" /\ UNCHANGED <<red, gone>>
        BY <2>7, BumpDoes
      <4>1. CASE Moved(c, "finish", "applied", TRUE, call[c].takeOver)
        <5>1. Others(c) /\ call'[c].op = call[c].op /\ call'[c].key = call[c].key
              /\ call'[c].at = "finish" /\ call'[c].saw = "applied"
          BY <4>1 DEF Moved
        <5> QED BY <1>0, <4>0, <5>1 DEF ShapeOf, Busy, Key, Answers
      <4>2. CASE Moved(c, "compensate", "exhausted", call[c].bumped, call[c].takeOver)
        BY <1>0, <4>0, <4>2 DEF Moved, ShapeOf, Busy, Key
      <4>3. CASE Moved(c, "beat", call[c].saw, call[c].bumped, call[c].takeOver)
        BY <1>0, <4>0, <4>3 DEF Moved, ShapeOf, Busy, Key
      <4> QED BY <2>7, <4>1, <4>2, <4>3, BumpDoes
    <3> QED BY <1>1, <1>2, <2>7, <3>1, BumpDoes
  <2>8. CASE Compensate(c)
    <3>1. Others(c) /\ ShapeOf(c)'
      BY <1>0, <2>8, CompensateDoes DEF Moved, ShapeOf, Busy, Key, Answers
    <3> QED BY <1>1, <1>2, <2>8, <3>1, CompensateDoes
  <2>9. CASE Finish(c)
    <3>1. call[c].saw \in Answers
      BY <1>0, <2>9 DEF Finish, ShapeOf
    <3>2. CASE red[k] \in {"claimed", "bumping"} /\ Record(k, call[c].saw) /\ Answered(c, call[c].saw)
      <4>1. Lasting
        BY <2>1, <2>9, <3>1, <3>2, FinishDoes, RecordLasts
      <4>2. red'[k] = call[c].saw
        BY <2>1, <3>2 DEF Record, TypeOK
      <4>3. Others(c) /\ ShapeOf(c)'
        BY <2>1, <2>9, <3>1, <3>2, <4>1, <4>2, FinishDoes, AnsweredShape, AnsweredMoves DEF Answers
      <4>4. Standing' \subseteq Standing \cup {k}
        BY <2>1, <3>2 DEF Standing, Record, TypeOK
      <4> QED BY <4>1, <4>3, <4>4
    <3>3. CASE Terminal(red[k]) /\ Answered(c, red[k]) /\ UNCHANGED <<red, holder, lapsed>>
      <4>1. Lasting
        BY <1>2, <2>9, <3>3, FinishDoes
      <4>2. Others(c) /\ ShapeOf(c)'
        BY <2>1, <2>9, <3>3, <4>1, FinishDoes, AnsweredShape, AnsweredMoves
      <4> QED BY <1>1, <3>3, <4>1, <4>2
    <3>4. CASE red[k] = "none" /\ Answered(c, call[c].saw) /\ UNCHANGED <<red, holder, lapsed>>
      <4>1. Lasting
        BY <1>2, <2>9, <3>4, FinishDoes
      <4>2. k \in gone
        BY <1>0, <2>1, <3>4 DEF ShapeOf
      <4>3. Others(c) /\ ShapeOf(c)'
        BY <2>1, <2>9, <3>4, <4>1, <4>2, FinishDoes, AnsweredShape, AnsweredMoves
      <4> QED BY <1>1, <3>4, <4>1, <4>3
    <3> QED BY <2>9, <3>2, <3>3, <3>4, FinishDoes
  <2>10. CASE Answer(c)
    <3>1. Lasting
      BY <1>2, <2>10, AnswerDoes
    <3>2. Others(c) /\ ShapeOf(c)'
      BY <2>1, <2>10, <3>1, AnswerDoes, AnsweredShape, AnsweredMoves
    <3> QED BY <1>1, <2>10, <3>1, <3>2, AnswerDoes
  <2>11. CASE Free(c)
    <3>1. Others(c) /\ ShapeOf(c)'
      BY <2>11, FreeDoes, IdleFields DEF Ended, ShapeOf, Busy
    <3> QED BY <1>1, <1>2, <2>11, <3>1, FreeDoes
  <2>12. CASE Contend(c)
    <3>1. Others(c) /\ ShapeOf(c)'
      BY <1>0, <2>12, ContendDoes, IdleFields DEF Moved, Ended, ShapeOf, Busy, Key
    <3> QED BY <1>1, <1>2, <2>12, <3>1, ContendDoes
  <2>13. CASE Reread(c)
    <3>1. Others(c) /\ ShapeOf(c)'
      BY <1>0, <2>1, <2>13, RereadDoes, IdleFields DEF Moved, Ended, ShapeOf, Busy, Key
    <3> QED BY <1>1, <1>2, <2>1, <2>13, <3>1, RereadDoes
  <2>14. CASE Unslot(c)
    <3>1. Others(c) /\ ShapeOf(c)'
      BY <1>0, <2>14, UnslotDoes DEF Moved, ShapeOf, Busy, Key
    <3> QED BY <1>1, <1>2, <2>14, <3>1, UnslotDoes
  <2>15. CASE Delete(c)
    <3>1. k \in gone
      BY <1>0, <2>1, <2>15, DeleteDoes, CallFields DEF ShapeOf, TypeOK
    <3>2. /\ call[c].at = "delete" /\ UNCHANGED gone
          /\ Record(k, "none") \/ UNCHANGED red
          /\ \/ Ended(c)
             \/ call[c].saw = "applied" /\ Moved(c, "dec", call[c].saw, call[c].bumped, call[c].takeOver)
      BY <2>15, DeleteDoes
    <3>3. Lasting
      BY <2>1, <3>1, <3>2 DEF Lasting, Record, TypeOK
    <3>5. Others(c) /\ ShapeOf(c)'
      <4>1. CASE Ended(c)
        BY <4>1, IdleFields DEF Ended, ShapeOf, Busy
      <4>2. CASE call[c].saw = "applied" /\ Moved(c, "dec", call[c].saw, call[c].bumped, call[c].takeOver)
        BY <1>0, <3>1, <3>2, <4>2 DEF Moved, ShapeOf, Busy, Key
      <4> QED BY <3>2, <4>1, <4>2
    <3>4. Standing' \subseteq Standing \cup {k}
      BY <2>1, <2>15, DeleteDoes DEF Standing, Record, TypeOK
    <3> QED BY <3>3, <3>4, <3>5
  <2>16. CASE Dec(c)
    <3>1. Others(c) /\ ShapeOf(c)'
      BY <2>16, DecDoes, IdleFields DEF Ended, ShapeOf, Busy
    <3> QED BY <1>1, <1>2, <2>16, <3>1, DecDoes
  <2> QED BY <1>6, <2>2, <2>3, <2>4, <2>5, <2>6, <2>7, <2>8, <2>9, <2>10, <2>11, <2>12, <2>13,
             <2>14, <2>15, <2>16 DEF Step
<1> QED BY <1>3, <1>4, <1>5, <1>6 DEF CallAct

\* An answer is heard as it is recorded, and what is recorded changes for a release only.
LEMMA ToldLasts ==
  ASSUME TypeOK, AnswersStand, Lasting, NEW k \in Keys, NEW a \in Answers,
         told' = told \/ (Hear(k, a) /\ (red'[k] = a \/ k \in gone)),
         \A x \in Keys : red'[x] = red[x] \/ red[x] \notin Answers \/ x \in gone
  PROVE AnswersStand'
<1> SUFFICES ASSUME NEW x \in Keys, x \notin gone', NEW b \in told'[x]
             PROVE red'[x] = b
  BY DEF AnswersStand
<1>1. x \notin gone
  BY DEF Lasting
<1>2. CASE b \in told[x]
  BY <1>1, <1>2 DEF AnswersStand, TypeOK
<1>3. CASE b \notin told[x]
  BY <1>1, <1>3 DEF Hear, TypeOK
<1> QED BY <1>2, <1>3

LEMMA CallKeepsAnswers ==
  ASSUME TypeOK, CallShape, AnswersStand, NEW c \in Callers, CallAct(c)
  PROVE AnswersStand'
<1>1. Lasting
  BY CallKeepsShape
<1>2. ASSUME UNCHANGED <<red, told>> PROVE AnswersStand'
  BY <1>1, <1>2 DEF AnswersStand, Lasting
<1>3. ASSUME NEW k \in Keys, Redeem(c, k) PROVE AnswersStand'
  <2>1. told' = told /\ (red' = red \/ (red[k] = "none" /\ red' = [red EXCEPT ![k] = "claimed"]))
    BY <1>3, RedeemDoes
  <2>2. \A x \in Keys : red'[x] = red[x] \/ red[x] \notin Answers
    BY <2>1 DEF TypeOK, Answers
  <2>3. "capped" \in Answers
    BY DEF Answers
  <2> QED BY <1>1, <2>1, <2>2, <2>3, ToldLasts
<1>4. ASSUME NEW k \in Keys, Release(c, k) PROVE AnswersStand'
  BY <1>4, ReleaseDoes DEF AnswersStand, TypeOK
<1>5. CASE Crash(c)
  BY <1>2, <1>5, CrashDoes
<1>6. CASE Step(c)
  <2> DEFINE k == Key(c)
  <2>0. ShapeOf(c)
    BY DEF CallShape
  <2>1. k \in Keys
    BY <1>6, <2>0 DEF Step, Slot, Right, Await, Witness, Beat, Bump, Compensate, Finish, Answer,
       Free,
                Contend, Reread, Unslot, Delete, Dec, ShapeOf, Busy
  <2>2. ASSUME NEW a \in Answers, Answered(c, a), red'[k] = a \/ k \in gone,
               \A x \in Keys : red'[x] = red[x] \/ red[x] \notin Answers \/ x \in gone
        PROVE AnswersStand'
    <3>1. told' = told \/ Hear(k, a)
      BY <2>2 DEF Answered
    <3> QED BY <1>1, <2>1, <2>2, <3>1, ToldLasts
  <2>3. CASE Right(c)
    <3>1. "capped" \in Answers
      BY DEF Answers
    <3>2. /\ told' = told
          /\ \A x \in Keys : red'[x] = red[x] \/ red[x] \notin Answers
      BY <2>1, <2>3, RightDoes DEF TypeOK, Answers
    <3> QED BY <1>1, <2>1, <3>1, <3>2, ToldLasts
  <2>4. CASE Await(c)
    <3>1. red' = red /\ (told' = told \/ (Terminal(red[k]) /\ Answered(c, red[k])))
      BY <2>4, AwaitDoes
    <3>2. CASE told' = told
      BY <1>2, <3>1, <3>2
    <3>3. CASE Terminal(red[k]) /\ Answered(c, red[k])
      BY <2>2, <3>1, <3>3 DEF Terminal
    <3> QED BY <3>1, <3>2, <3>3
  <2>5. CASE Answer(c)
    BY <2>2, <2>5, AnswerDoes DEF Terminal
  <2>6. CASE Finish(c)
    <3>1. call[c].saw \in Answers
      BY <2>0, <2>6 DEF Finish, ShapeOf
    <3>2. CASE red[k] \in {"claimed", "bumping"} /\ Record(k, call[c].saw) /\ Answered(c, call[c].saw)
      <4>1. red'[k] = call[c].saw /\ \A x \in Keys : red'[x] = red[x] \/ red[x] \notin Answers
        BY <2>1, <3>2 DEF Record, TypeOK, Answers
      <4> QED BY <2>2, <3>1, <3>2, <4>1
    <3>3. CASE Terminal(red[k]) /\ Answered(c, red[k]) /\ UNCHANGED <<red, holder, lapsed>>
      BY <2>2, <3>3 DEF Terminal
    <3>4. CASE red[k] = "none" /\ Answered(c, call[c].saw) /\ UNCHANGED <<red, holder, lapsed>>
      <4>1. k \in gone
        BY <2>0, <2>1, <2>6, <3>4, FinishDoes DEF ShapeOf, Busy
      <4> QED BY <2>2, <3>1, <3>4, <4>1
    <3> QED BY <2>6, <3>2, <3>3, <3>4, FinishDoes
  <2>7. CASE Free(c)
    <3>1. Hear(k, "exhausted") /\ red' = red /\ call[c].at = "free"
      BY <2>7, FreeDoes
    <3>2. red[k] = "exhausted" \/ k \in gone
      BY <2>0, <3>1 DEF ShapeOf
    <3>3. "exhausted" \in Answers
      BY DEF Answers
    <3> QED BY <1>1, <2>1, <3>1, <3>2, <3>3, ToldLasts
  <2>8. CASE Delete(c)
    <3>0. call[c].at = "delete" /\ call[c].op \in {"none", "redeem", "release"}
      BY <2>8, DeleteDoes, CallFields DEF TypeOK
    <3>1. k \in gone
      BY <2>0, <3>0 DEF ShapeOf, Busy
    <3>2. told' = told /\ (red' = red \/ Record(k, "none"))
      BY <2>8, DeleteDoes
    <3>3. \A x \in Keys : red'[x] = red[x] \/ x \in gone
      BY <3>1, <3>2 DEF Record, TypeOK
    <3>4. "capped" \in Answers
      BY DEF Answers
    <3> QED BY <1>1, <2>1, <3>2, <3>3, <3>4, ToldLasts
  <2> QED BY <1>2, <1>6, <2>3, <2>4, <2>5, <2>6, <2>7, <2>8, SlotDoes, WitnessDoes, BeatDoes,
             BumpDoes,
             CompensateDoes, ContendDoes, RereadDoes, UnslotDoes, DecDoes, <2>1 DEF Step
<1> QED BY <1>3, <1>4, <1>5, <1>6 DEF CallAct

LEMMA NextActs ==
  ASSUME Next
  PROVE (\E c \in Callers : CallAct(c)) \/ RecountAct \/ \E k \in Keys : Lapse(k)
BY DEF Next, CallAct, RecountAct

\* IInv holds at first and after every step.
THEOREM Inductive == Spec => []IInv
<1>1. Init => IInv
  <2> SUFFICES ASSUME Init PROVE IInv
    OBVIOUS
  <2>1. TypeOK
    <3>1. call \in [Callers -> Call] /\ recount \in Recount
      BY IdleFields DEF Init, NoRecount, Recount
    <3>2. coupon \in [uses : Nat, witness : Keys \cup {None}, max : Nat \cup {None}, cap : Nat \cup {None}]
      BY LimitAssumption DEF Init
    <3> QED BY <3>1, <3>2 DEF Init, TypeOK, States
  <2>2. \A c \in Callers : call[c] = Idle
    BY DEF Init
  <2>3. CallShape
    BY <2>2, IdleFields DEF CallShape, ShapeOf, Busy
  <2>4. Standing = {} /\ Active = {}
    BY <2>2, IdleFields DEF Init, Standing, Active, Busy
  <2>5. Finite
    BY <2>4, FS_EmptySet DEF Finite
  <2>6. AnswersStand
    BY DEF Init, AnswersStand
  <2> QED BY <2>1, <2>3, <2>5, <2>6 DEF IInv
<1>2. IInv /\ [Next]_vars => IInv'
  <2> SUFFICES ASSUME IInv, [Next]_vars PROVE IInv'
    OBVIOUS
  <2>0. TypeOK /\ Finite /\ CallShape /\ AnswersStand
    BY DEF IInv
  <2>1. ASSUME NEW c \in Callers, CallAct(c) PROVE IInv'
    <3>1. TypeOK'
      BY <2>0, <2>1, CallTypes
    <3>2. CallShape' /\ Others(c)
      BY <2>0, <2>1, CallKeepsShape
    <3>3. PICK k : Standing' \subseteq Standing \cup {k}
      BY <2>0, <2>1, CallKeepsShape
    <3>4. Active' \subseteq Active \cup {c}
      BY <2>0, <3>2, ActiveStep DEF TypeOK
    <3>5. Finite'
      BY <2>0, <3>3, <3>4, FiniteStep
    <3>6. AnswersStand'
      BY <2>0, <2>1, CallKeepsAnswers
    <3> QED BY <3>1, <3>2, <3>5, <3>6 DEF IInv
  <2>2. CASE RecountAct
    <3>1. /\ UNCHANGED <<red, holder, lapsed, slots, call, told, gone, raced, mixed, mixes, reuses, seams, deaths,
                         stalls>>
          /\ recount' \in Recount
          /\ coupon' = coupon \/ coupon' = [coupon EXCEPT !.uses = recount.seenLive]
      BY <2>0, <2>2, RecountDoes
    <3>2. coupon' \in [uses : Nat, witness : Keys \cup {None}, max : Nat \cup {None}, cap : Nat \cup {None}]
      BY <2>0, <3>1 DEF TypeOK, Recount
    <3>3. TypeOK'
      BY <2>0, <3>1, <3>2 DEF TypeOK
    <3>4. CallShape' /\ Finite' /\ AnswersStand'
      BY <2>0, <3>1 DEF CallShape, ShapeOf, Busy, Key, Finite, Standing, Active, AnswersStand
    <3> QED BY <3>3, <3>4 DEF IInv
  <2>3. ASSUME NEW k \in Keys, Lapse(k) PROVE IInv'
    <3>1. TypeOK'
      BY <2>0, <2>3, LapseDoes DEF TypeOK
    <3>2. CallShape' /\ Finite' /\ AnswersStand'
      BY <2>0, <2>3, LapseDoes DEF CallShape, ShapeOf, Busy, Key, Finite, Standing, Active,
         AnswersStand
    <3> QED BY <3>1, <3>2 DEF IInv
  <2>4. CASE UNCHANGED vars
    <3>1. TypeOK'
      BY <2>0, <2>4 DEF TypeOK, vars, docs, redemption, history
    <3>2. CallShape' /\ Finite' /\ AnswersStand'
      BY <2>0, <2>4 DEF vars, docs, redemption, history, CallShape, ShapeOf, Busy, Key, Finite,
         Standing,
                        Active, AnswersStand
    <3> QED BY <3>1, <3>2 DEF IInv
  <2> QED BY <2>1, <2>2, <2>3, <2>4, NextActs
<1> QED BY <1>1, <1>2, PTL DEF Spec

\* Every document, call and recount keeps its shape, for every number of keys and callers.
THEOREM TypesHold == Spec => []TypeOK
BY Inductive, PTL DEF IInv

\* A redemption that reached an answer keeps it until a release takes it up, however its
\* callers die, stall or replay.
THEOREM AnswersStandHolds == Spec => []AnswersStand
BY Inductive, PTL DEF IInv

-----------------------------------------------------------------------------
(* The counter is low by at most one for each redemption that may be mixed up *)

\* A call that has not come to the counter.
Unbegun(c) ==
  \/ call[c].at \in {"slot", "right"}
  \/ call[c].at \in {"unslot", "delete"} /\ call[c].saw = "claimed"
  \/ call[c].at = "finish" /\ call[c].saw = "capped"

\* A key that was never redeemed was never counted; nor was one that is only claimed, unless it
\* may be mixed up.
Fresh(k) ==
  /\ red[k] = "none" /\ k \notin gone => coupon.witness # k /\ \A c \in Callers : Key(c) # k
  /\ red[k] = "claimed" /\ k \notin mixed =>
       coupon.witness # k /\ \A c \in Callers : Key(c) = k => Unbegun(c)
AllFresh == \A k \in Keys : Fresh(k)

\* The redemptions that may be mixed up are of keys redeemed again, and no more than were counted.
Mixing ==
  /\ IsFiniteSet(mixed) /\ Cardinality(mixed) <= mixes
  /\ mixed \subseteq raced /\ (raced = {} => mixes = 0)
Unmixed == mixed = {} /\ mixes = 0

\* The counter is moved by the one owner of a key whose lease stands.
BumpIsMine ==
  /\ \A c \in Callers : call[c].at = "bump" /\ red[Key(c)] = "bumping" =>
       Mine(c) /\ Key(c) \notin lapsed
  /\ \A c, d \in Callers : call[c].at = "bump" /\ call[d].at = "bump" /\ Key(c) = Key(d) => c = d

LEMMA FreshStep ==
  ASSUME TypeOK, CallShape, AllFresh, NEW c \in Callers, NEW k \in Keys, Others(c),
         gone \subseteq gone',
         call'[c].key \in {k, None}, call[c].key \in {k, None},
         \A x \in Keys : x # k => red'[x] = red[x],
         coupon'.witness \in {coupon.witness, k}, mixed \ {k} = mixed' \ {k},
         red'[k] = "none" => k \in gone',
         red'[k] = "claimed" /\ k \notin mixed' =>
           /\ coupon'.witness # k
           /\ \A d \in Callers \ {c} : Key(d) = k => Unbegun(d)
           /\ call'[c].key = k => Unbegun(c)'
  PROVE AllFresh'
<1> SUFFICES ASSUME NEW x \in Keys PROVE Fresh(x)'
  BY DEF AllFresh
<1>1. Fresh(x)
  BY DEF AllFresh
<1>2. None # x
  BY NoneAssumption
<1>3. CASE x # k
  <2>1. /\ red'[x] = red[x] /\ (coupon.witness # x => coupon'.witness # x) /\ call'[c].key # x
        /\ x \in mixed' <=> x \in mixed
    BY <1>2, <1>3
  <2>2. \A d \in Callers : call'[d].key = x => d # c /\ call'[d] = call[d]
    BY <2>1 DEF Others
  <2> QED BY <1>1, <2>1, <2>2 DEF Fresh, Unbegun, Key
<1>4. CASE x = k
  <2>1. \A d \in Callers \ {c} : call'[d] = call[d]
    BY DEF Others
  <2> QED BY <1>4, <2>1 DEF Fresh, Unbegun, Key
<1> QED BY <1>3, <1>4

\* A step on a key that stays claimed: the call has still not come to the counter.
LEMMA FreshOn ==
  ASSUME TypeOK, CallShape, AllFresh, NEW c \in Callers, NEW k \in Keys, Key(c) = k, Busy(c),
         Others(c),
         gone \subseteq gone', call'[c].key \in {k, None},
         \A x \in Keys : x # k => red'[x] = red[x],
         red'[k] = "none" => red[k] = "none" \/ k \in gone,
         coupon'.witness \in {coupon.witness, k}, mixed \ {k} = mixed' \ {k},
         red'[k] = "claimed" /\ k \notin mixed' =>
           /\ red[k] = "claimed" /\ k \notin mixed /\ coupon'.witness = coupon.witness
           /\ call'[c].key = k => Unbegun(c)'
  PROVE AllFresh'
<1>1. ShapeOf(c) /\ Fresh(k)
  BY DEF CallShape, AllFresh
<1>2. red'[k] = "none" => k \in gone'
  BY <1>1 DEF ShapeOf
<1>3. call[c].key \in {k, None}
  BY DEF Key
<1> QED BY <1>1, <1>2, <1>3, FreshStep DEF Fresh

LEMMA BumpLasts ==
  ASSUME TypeOK, BumpIsMine, NEW c \in Callers, Others(c), CallShape,
         call'[c].at # "bump",
         \A x \in Keys : red'[x] = "bumping" =>
           \/ red[x] = "bumping" /\ holder'[x] = holder[x] /\ (x \in lapsed' => x \in lapsed)
           \/ \A d \in Callers \ {c} : Key(d) = x => call[d].at # "bump"
  PROVE BumpIsMine'
<1>1. ASSUME NEW d \in Callers, call'[d].at = "bump"
      PROVE d # c /\ call'[d] = call[d] /\ call[d].at = "bump" /\ Key(d) \in Keys
  BY <1>1 DEF Others, CallShape, ShapeOf, Busy
<1>2. ASSUME NEW d \in Callers, call'[d].at = "bump", red'[call'[d].key] = "bumping"
      PROVE holder'[call'[d].key] = d /\ call'[d].key \notin lapsed'
  <2>1. d \in Callers \ {c} /\ call'[d] = call[d] /\ call[d].at = "bump" /\ Key(d) \in Keys
    BY <1>1, <1>2
  <2>2. red[Key(d)] = "bumping" /\ holder'[Key(d)] = holder[Key(d)] /\ (Key(d) \in lapsed' => Key(d) \in lapsed)
    BY <1>2, <2>1 DEF Key
  <2> QED BY <2>1, <2>2 DEF BumpIsMine, Mine, Key
<1> QED BY <1>1, <1>2 DEF BumpIsMine, Mine, Key

LEMMA RacedGrows ==
  ASSUME TypeOK, NEW c \in Callers, CallShape, CallAct(c), raced' = {}
  PROVE /\ raced = {}
        /\ \A k \in Keys : Redeem(c, k) => k \notin gone
        /\ \A k \in Keys : Release(c, k) => \A d \in Callers : Key(d) # k
<1>1. ASSUME NEW k \in Keys, Redeem(c, k) PROVE k \notin gone /\ raced = {}
  BY <1>1, RedeemDoes
<1>2. ASSUME NEW k \in Keys, Release(c, k) PROVE raced = {} /\ \A d \in Callers : Key(d) # k
  BY <1>2, ReleaseDoes
<1>3. CASE Step(c) \/ Crash(c)
  <2>1. Busy(c) => Key(c) \in Keys
    BY DEF CallShape, ShapeOf
  <2>2. raced' = raced
    BY <1>3, <2>1, SlotDoes, RightDoes, AwaitDoes, WitnessDoes, BeatDoes, BumpDoes, CompensateDoes,
       FinishDoes, AnswerDoes, FreeDoes, ContendDoes, RereadDoes, UnslotDoes, DeleteDoes, DecDoes,
       CrashDoes DEF Step
  <2> QED BY <1>1, <1>2, <2>2
<1> QED BY <1>1, <1>2, <1>3 DEF CallAct

LEMMA CallKeepsMixing ==
  ASSUME TypeOK, CallShape, AllFresh, Mixing, NEW c \in Callers, CallAct(c)
  PROVE Mixing'
<1>0. mixes \in Nat /\ Cardinality(mixed) \in Nat
  BY FS_CardinalityType DEF TypeOK, Mixing
<1>1. ASSUME NEW k \in Keys, Redeem(c, k) PROVE Mixing'
  <2>1. raced' = raced \cup ({k} \cap gone)
    BY <1>1, RedeemDoes
  <2>2. CASE UNCHANGED <<mixed, mixes>>
    BY <2>1, <2>2 DEF Mixing
  <2>3. CASE red[k] = "none" /\ Stale(k) /\ mixed' = mixed \cup {k} /\ mixes' = mixes + 1
    <3>1. k \in gone
      BY <2>3 DEF AllFresh, Fresh, Stale
    <3>2. IsFiniteSet(mixed') /\ Cardinality(mixed') <= Cardinality(mixed) + 1
      <4>1. /\ IsFiniteSet(mixed \cup {k})
            /\ Cardinality(mixed \cup {k}) =
                 IF k \in mixed THEN Cardinality(mixed) ELSE Cardinality(mixed) + 1
        BY FS_AddElement DEF Mixing
      <4> QED BY <1>0, <2>3, <4>1
    <3>3. IsFiniteSet(mixed') /\ Cardinality(mixed') \in Nat /\ Cardinality(mixed') <= mixes'
      BY <1>0, <2>3, <3>2, FS_CardinalityType DEF Mixing
    <3> QED BY <2>1, <2>3, <3>1, <3>3 DEF Mixing
  <2> QED BY <1>1, <2>2, <2>3, RedeemDoes
<1>2. ASSUME mixed' \subseteq mixed, mixes' = mixes, raced \subseteq raced' PROVE Mixing'
  <2>1. IsFiniteSet(mixed') /\ Cardinality(mixed') <= Cardinality(mixed)
        /\ Cardinality(mixed') \in Nat
    BY <1>2, FS_Subset, FS_CardinalityType DEF Mixing
  <2> QED BY <1>0, <1>2, <2>1 DEF Mixing
<1>3. ASSUME NEW k \in Keys, Release(c, k) PROVE Mixing'
  BY <1>2, <1>3, ReleaseDoes
<1>4. CASE Step(c) \/ Crash(c)
  <2>1. Busy(c) => Key(c) \in Keys
    BY DEF CallShape, ShapeOf
  <2>2. mixed' \subseteq mixed /\ mixes' = mixes /\ raced' = raced
    BY <1>4, <2>1, SlotDoes, RightDoes, AwaitDoes, WitnessDoes, BeatDoes, BumpDoes, CompensateDoes,
       FinishDoes, AnswerDoes, FreeDoes, ContendDoes, RereadDoes, UnslotDoes, DeleteDoes, DecDoes,
       CrashDoes DEF Step
  <2> QED BY <1>2, <2>2
<1> QED BY <1>1, <1>3, <1>4 DEF CallAct

LEMMA AnsweredAt ==
  ASSUME NEW c \in Callers, NEW a, Answered(c, a)
  PROVE /\ Others(c) /\ call'[c].key \in {Key(c), None} /\ ~call'[c].bumped
        /\ call'[c].at \in {"reread", "free", "idle"}
        /\ call'[c].at = "free" => call[c].op = "redeem"
        /\ call'[c].at = "reread" => call[c].op = "release"
BY IdleFields DEF Answered, Moved, Ended, Key

LEMMA EndedAt ==
  ASSUME NEW c \in Callers, Ended(c)
  PROVE Others(c) /\ call'[c].key = None /\ call'[c].at = "idle" /\ ~call'[c].bumped
BY IdleFields DEF Ended

LEMMA StepKey ==
  ASSUME TypeOK, CallShape, NEW c \in Callers, Step(c)
  PROVE Key(c) \in Keys /\ Busy(c) /\ ShapeOf(c)
<1>1. ShapeOf(c)
  BY DEF CallShape
<1>2. Busy(c)
  BY DEF Step, Slot, Right, Await, Witness, Beat, Bump, Compensate, Finish, Answer, Free,
         Contend, Reread, Unslot, Delete, Dec, Busy
<1> QED BY <1>1, <1>2 DEF ShapeOf

LEMMA RecordOn ==
  ASSUME TypeOK, NEW k \in Keys, NEW s \in States, Record(k, s)
  PROVE /\ red'[k] = s /\ \A x \in Keys : x # k => red'[x] = red[x]
        /\ holder'[k] = None /\ \A x \in Keys : x # k => holder'[x] = holder[x]
        /\ lapsed' = lapsed \ {k}
BY DEF TypeOK, Record

LEMMA CallKeepsFresh ==
  ASSUME TypeOK, CallShape, AllFresh, NEW c \in Callers, CallAct(c)
  PROVE AllFresh'
<1>0. \A x \in Keys : Fresh(x)
  BY DEF AllFresh
<1>1. ASSUME NEW k \in Keys, Redeem(c, k) PROVE AllFresh'
  <2>1. mixed \ {k} = mixed' \ {k}
    BY <1>1, RedeemDoes
  <2>2. call[c].key = None /\ call'[c].key = k /\ Others(c) /\ gone' = gone /\ coupon' = coupon
    BY <1>1, RedeemDoes, IdleFields DEF Began
  <2>3. \A x \in Keys : x # k => red'[x] = red[x]
    BY <1>1, RedeemDoes DEF TypeOK
  <2>4. red'[k] # "none"
    BY <1>1, RedeemDoes DEF TypeOK
  <2>5. ASSUME red'[k] = "claimed"
        PROVE red[k] \in {"none", "claimed"} /\ call'[c].at = "slot"
    BY <1>1, <2>5, RedeemDoes DEF TypeOK, Began
  <2>6. ASSUME red'[k] = "claimed", k \notin mixed'
        PROVE /\ coupon'.witness # k
              /\ \A d \in Callers \ {c} : Key(d) = k => Unbegun(d)
              /\ Unbegun(c)'
    <3>1. CASE red[k] = "none"
      <4>1. ~Stale(k)
        BY <1>1, <2>6, <3>1, RedeemDoes
      <4> QED BY <2>2, <2>5, <2>6, <4>1 DEF Stale, Unbegun
    <3>2. CASE red[k] = "claimed"
      <4>1. k \notin mixed
        BY <1>1, <2>6, <3>2, RedeemDoes
      <4> QED BY <1>0, <2>2, <2>5, <2>6, <3>2, <4>1 DEF Fresh, Unbegun
    <3> QED BY <2>5, <2>6, <3>1, <3>2
  <2> QED BY <2>1, <2>2, <2>3, <2>4, <2>6, FreshStep
<1>2. ASSUME NEW k \in Keys, Release(c, k) PROVE AllFresh'
  <2>1. /\ call[c].key = None /\ call'[c].key = k /\ Others(c) /\ gone \subseteq gone'
        /\ coupon' = coupon
        /\ red' = red /\ red[k] # "none" /\ mixed' = mixed
    BY <1>2, ReleaseDoes, IdleFields DEF Began
  <2>2. red[k] = "claimed" => Unbegun(c)'
    BY <1>2, ReleaseDoes DEF Began, Unbegun
  <2>3. red'[k] = "claimed" /\ k \notin mixed' =>
          /\ coupon'.witness # k
          /\ \A d \in Callers \ {c} : Key(d) = k => Unbegun(d)
          /\ Unbegun(c)'
    BY <1>0, <2>1, <2>2 DEF Fresh
  <2> QED BY <2>1, <2>3, FreshStep
<1>3. ASSUME Ended(c), UNCHANGED <<red, mixed, gone>>, coupon'.witness = coupon.witness
      PROVE AllFresh'
  <2>1. \A d \in Callers : call'[d].key # None => d # c /\ call'[d] = call[d]
    BY <1>3, EndedAt DEF Others
  <2>2. \A x \in Keys : x # None
    BY NoneAssumption
  <2> QED BY <1>0, <1>3, <2>1, <2>2 DEF AllFresh, Fresh, Unbegun, Key
<1>4. CASE Crash(c)
  BY <1>3, <1>4, CrashDoes
<1>5. CASE Step(c)
  <2> DEFINE k == Key(c)
  <2>0. k \in Keys /\ Busy(c) /\ ShapeOf(c)
    BY <1>5, StepKey
  <2>1. red[k] = "claimed" /\ k \notin mixed => Unbegun(c)
    BY <1>0, <2>0 DEF Fresh
  <2>2. ASSUME Others(c), call'[c].key \in {k, None}, UNCHANGED <<red, gone, mixed>>,
               \/ coupon'.witness = coupon.witness
               \/ coupon'.witness = k /\ ~(red[k] = "claimed" /\ k \notin mixed),
               red[k] = "claimed" /\ k \notin mixed => Unbegun(c)' \/ call'[c].key = None
        PROVE AllFresh'
    <3>1. None # k
      BY <2>0, NoneAssumption
    <3> QED BY <2>0, <2>2, <3>1, FreshOn
  <2>3. CASE Slot(c)
    <3>1. Others(c) /\ call'[c].key = k /\ UNCHANGED <<red, gone, mixed, coupon>> /\ Unbegun(c)'
      BY <2>3, SlotDoes DEF Moved, Key, Unbegun
    <3> QED BY <2>2, <3>1
  <2>4. CASE Right(c)
    <3>1. Others(c) /\ call'[c].key = k /\ UNCHANGED <<gone, mixed, coupon>>
      BY <2>4, RightDoes DEF Moved, Key
    <3>2. red'[k] # "claimed" /\ (red'[k] = "none" => red[k] = "none")
          /\ \A x \in Keys : x # k => red'[x] = red[x]
      BY <2>0, <2>4, RightDoes DEF TypeOK
    <3> QED BY <2>0, <3>1, <3>2, FreshOn
  <2>5. CASE Await(c)
    <3>1. call[c].at = "await" /\ UNCHANGED <<red, gone, mixed, coupon>>
      BY <2>5, AwaitDoes
    <3>2. ~(red[k] = "claimed" /\ k \notin mixed)
      BY <2>1, <3>1 DEF Unbegun
    <3>3. Others(c) /\ call'[c].key \in {k, None}
      BY <2>5, AwaitDoes, AnsweredAt DEF Moved, Key
    <3> QED BY <2>2, <3>1, <3>2, <3>3
  <2>6. CASE Witness(c)
    <3>1. call[c].at = "witness" /\ UNCHANGED <<red, gone, mixed, coupon>> /\ Others(c) /\ call'[c].key = k
      BY <2>6, WitnessDoes DEF Moved, Key
    <3> QED BY <2>1, <2>2, <3>1 DEF Unbegun
  <2>7. CASE Beat(c)
    <3>1. call[c].at = "beat" /\ UNCHANGED <<red, gone, mixed, coupon>> /\ Others(c) /\ call'[c].key = k
      BY <2>7, BeatDoes DEF Moved, Key
    <3> QED BY <2>1, <2>2, <3>1 DEF Unbegun
  <2>8. CASE Bump(c)
    <3>1. call[c].at = "bump" /\ UNCHANGED <<red, gone, mixed>> /\ Others(c) /\ call'[c].key = k
      BY <2>8, BumpDoes DEF Moved, Key
    <3>2. coupon'.witness \in {coupon.witness, k}
      BY <2>8, BumpDoes DEF Counts, Key
    <3> QED BY <2>1, <2>2, <3>1, <3>2 DEF Unbegun
  <2>9. CASE Compensate(c)
    <3>1. /\ call[c].at = "compensate" /\ UNCHANGED <<red, gone, mixed, coupon>> /\ Others(c)
          /\ call'[c].key = k
      BY <2>9, CompensateDoes DEF Moved, Key
    <3> QED BY <2>1, <2>2, <3>1 DEF Unbegun
  <2>10. CASE Finish(c)
    <3>1. Others(c) /\ call'[c].key \in {k, None} /\ UNCHANGED <<gone, mixed, coupon>>
      BY <2>10, FinishDoes, AnsweredAt
    <3>2. call[c].saw \in Answers
      BY <2>0, <2>10, FinishDoes DEF ShapeOf
    <3>3. CASE red[k] \in {"claimed", "bumping"} /\ Record(k, call[c].saw)
      <4>1. red'[k] = call[c].saw /\ \A x \in Keys : x # k => red'[x] = red[x]
        BY <2>0, <3>2, <3>3, RecordOn DEF States
      <4>2. red'[k] \notin {"claimed", "none"}
        BY <3>2, <4>1 DEF Answers
      <4> QED BY <2>0, <3>1, <4>1, <4>2, FreshOn
    <3>4. CASE red[k] \notin {"claimed", "bumping"} /\ red' = red
      BY <2>2, <3>1, <3>4
    <3> QED BY <2>10, <3>3, <3>4, FinishDoes DEF Terminal, Answers
  <2>11. CASE Answer(c)
    <3>1. call[c].at = "answer" /\ UNCHANGED <<red, gone, mixed, coupon>>
      BY <2>11, AnswerDoes
    <3>2. Others(c) /\ call'[c].key \in {k, None}
      BY <2>11, AnswerDoes, AnsweredAt
    <3> QED BY <2>1, <2>2, <3>1, <3>2 DEF Unbegun
  <2>12. CASE Free(c)
    BY <1>3, <2>12, FreeDoes
  <2>13. CASE Contend(c)
    <3>1. call[c].at \in {"await", "answer"} /\ UNCHANGED <<red, gone, mixed, coupon>>
      BY <2>13, ContendDoes
    <3>2. Others(c) /\ call'[c].key \in {k, None}
      BY <2>13, ContendDoes, EndedAt DEF Moved, Key
    <3> QED BY <2>1, <2>2, <3>1, <3>2 DEF Unbegun
  <2>14. CASE Reread(c)
    <3>1. call[c].at = "reread" /\ UNCHANGED <<red, gone, mixed, coupon>>
      BY <2>0, <2>14, RereadDoes
    <3>2. Others(c) /\ call'[c].key \in {k, None}
      BY <2>0, <2>14, RereadDoes, EndedAt DEF Moved, Key
    <3> QED BY <2>1, <2>2, <3>1, <3>2 DEF Unbegun
  <2>15. CASE Unslot(c)
    <3>1. /\ call[c].at = "unslot" /\ UNCHANGED <<red, gone, mixed, coupon>> /\ Others(c)
          /\ call'[c].key = k
          /\ call'[c].at = "delete" /\ call'[c].saw = call[c].saw
      BY <2>15, UnslotDoes DEF Moved, Key
    <3> QED BY <2>1, <2>2, <3>1 DEF Unbegun
  <2>16. CASE Delete(c)
    <3>1. /\ Others(c) /\ call'[c].key \in {k, None} /\ UNCHANGED <<gone, coupon>>
          /\ mixed' = mixed \ {k}
          /\ call[c].at = "delete"
      BY <2>16, DeleteDoes, EndedAt DEF Moved, Key
    <3>2. k \in gone
      BY <2>0, <3>1, CallFields DEF ShapeOf, TypeOK
    <3>3. CASE Record(k, "none")
      <4>1. red'[k] = "none" /\ \A x \in Keys : x # k => red'[x] = red[x]
        BY <2>0, <3>3, RecordOn DEF States
      <4> QED BY <2>0, <3>1, <3>2, <4>1, FreshOn
    <3>4. CASE red[k] = "none" /\ red' = red
      BY <2>0, <3>1, <3>2, <3>4, FreshOn
    <3> QED BY <2>16, <3>3, <3>4, DeleteDoes
  <2>17. CASE Dec(c)
    BY <1>3, <2>17, DecDoes DEF Counts
  <2> QED BY <1>5, <2>3, <2>4, <2>5, <2>6, <2>7, <2>8, <2>9, <2>10, <2>11, <2>12, <2>13,
             <2>14, <2>15, <2>16, <2>17 DEF Step
<1> QED BY <1>1, <1>2, <1>4, <1>5 DEF CallAct

LEMMA CallKeepsBump ==
  ASSUME TypeOK, CallShape, AllFresh, BumpIsMine, mixed = {}, NEW c \in Callers, CallAct(c)
  PROVE BumpIsMine'
<1>1. ASSUME NEW k \in Keys, Redeem(c, k) PROVE BumpIsMine'
  <2>1. /\ Others(c) /\ call'[c].at # "bump" /\ holder' = holder /\ lapsed' = lapsed
        /\ red' = red \/ red' = [red EXCEPT ![k] = "claimed"]
    BY <1>1, RedeemDoes DEF Began
  <2>2. \A x \in Keys : red'[x] = "bumping" => red[x] = "bumping"
    BY <2>1 DEF TypeOK
  <2> QED BY <2>1, <2>2, BumpLasts
<1>2. ASSUME NEW k \in Keys, Release(c, k) PROVE BumpIsMine'
  <2>1. Others(c) /\ call'[c].at # "bump" /\ UNCHANGED <<red, holder, lapsed>>
    BY <1>2, ReleaseDoes DEF Began
  <2> QED BY <2>1, BumpLasts
<1>3. CASE Crash(c)
  <2>1. Others(c) /\ call'[c].at # "bump" /\ UNCHANGED <<red, lapsed>>
        /\ \A x \in Keys : holder'[x] = holder[x] \/ holder[x] = c
    BY <1>3, CrashDoes, EndedAt DEF TypeOK
  <2>2. ASSUME NEW x \in Keys, holder[x] = c, red[x] = "bumping", NEW d \in Callers \ {c},
               Key(d) = x
        PROVE call[d].at # "bump"
    BY <2>2 DEF BumpIsMine, Mine
  <2> QED BY <2>1, <2>2, BumpLasts
<1>4. CASE Step(c)
  <2> DEFINE k == Key(c)
  <2>0. k \in Keys /\ Busy(c) /\ ShapeOf(c) /\ Fresh(k)
    BY <1>4, StepKey DEF AllFresh
  <2>1. ASSUME Others(c), call'[c].at # "bump", UNCHANGED <<red, holder, lapsed>>
        PROVE BumpIsMine'
    BY <2>1, BumpLasts
  <2>2. ASSUME Others(c), call'[c].at # "bump", NEW s \in States \ {"bumping"}, Record(k, s)
        PROVE BumpIsMine'
    <3>1. /\ red'[k] = s /\ \A x \in Keys : x # k => red'[x] = red[x]
          /\ \A x \in Keys : x # k => holder'[x] = holder[x]
          /\ lapsed' = lapsed \ {k}
      BY <2>0, <2>2, RecordOn
    <3>2. \A x \in Keys : red'[x] = "bumping" => x # k
      BY <2>2, <3>1
    <3> QED BY <2>2, <3>1, <3>2, BumpLasts
  <2>3. CASE Slot(c)
    BY <2>1, <2>3, SlotDoes DEF Moved
  <2>4. CASE Right(c)
    <3>1. Others(c) /\ call'[c].at # "bump"
      BY <2>4, RightDoes DEF Moved
    <3>2. CASE /\ red[k] = "claimed" \/ k \in lapsed
               /\ red' = [red EXCEPT ![k] = "bumping"]
               /\ lapsed' = lapsed \ {k}
               /\ holder' = [holder EXCEPT ![k] = c]
      <4>1. \A d \in Callers : Key(d) = k => call[d].at # "bump"
        BY <2>0, <3>2 DEF Fresh, Unbegun, BumpIsMine, TypeOK
      <4>2. \A x \in Keys : x # k => red'[x] = red[x] /\ holder'[x] = holder[x]
        BY <3>2 DEF TypeOK
      <4> QED BY <3>1, <3>2, <4>1, <4>2, BumpLasts
    <3>3. CASE UNCHANGED <<red, holder, lapsed>>
      BY <2>1, <3>1, <3>3
    <3> QED BY <2>4, <3>2, <3>3, RightDoes
  <2>5. CASE Await(c)
    <3>1. Others(c) /\ call'[c].at # "bump" /\ UNCHANGED <<red, holder, lapsed>>
      BY <2>5, AwaitDoes, AnsweredAt DEF Moved
    <3> QED BY <2>1, <3>1
  <2>6. CASE Witness(c)
    BY <2>1, <2>6, WitnessDoes DEF Moved
  <2>7. CASE Beat(c)
    <3>1. CASE Mine(c) /\ lapsed' = lapsed \ {k} /\ Moved(c, "bump", call[c].saw, call[c].bumped, call[c].takeOver)
      <4>1. holder[k] = c /\ red[k] = "bumping" /\ UNCHANGED <<red, holder>>
        BY <2>0, <2>7, <3>1, BeatDoes, NoneAssumption DEF Mine, TypeOK
      <4>2. \A d \in Callers : Key(d) = k => call[d].at # "bump"
        BY <2>0, <2>7, <4>1, BeatDoes DEF BumpIsMine, Mine
      <4>3. call'[c].key = k /\ \A d \in Callers \ {c} : call'[d] = call[d]
        BY <3>1 DEF Moved, Others, Key
      <4>4. ASSUME NEW d \in Callers, call'[d].at = "bump", red'[call'[d].key] = "bumping"
            PROVE holder'[call'[d].key] = d /\ call'[d].key \notin lapsed'
        <5>1. CASE d = c
          BY <3>1, <4>1, <4>3, <5>1
        <5>2. CASE d # c
          BY <3>1, <4>1, <4>3, <4>4, <5>2 DEF BumpIsMine, Mine, Key
        <5> QED BY <5>1, <5>2
      <4>5. ASSUME NEW d \in Callers, NEW e \in Callers, call'[d].at = "bump", call'[e].at = "bump",
                   call'[d].key = call'[e].key
            PROVE d = e
        BY <4>2, <4>3, <4>5 DEF BumpIsMine, Key
      <4> QED BY <4>4, <4>5 DEF BumpIsMine, Mine, Key
    <3>2. CASE lapsed' = lapsed /\ Moved(c, "answer", call[c].saw, call[c].bumped, call[c].takeOver)
      BY <2>1, <2>7, <3>2, BeatDoes DEF Moved
    <3> QED BY <2>7, <3>1, <3>2, BeatDoes
  <2>8. CASE Bump(c)
    <3>1. Others(c) /\ call'[c].at # "bump" /\ UNCHANGED <<red, holder, lapsed>>
      BY <2>8, BumpDoes DEF Moved
    <3> QED BY <2>1, <3>1
  <2>9. CASE Compensate(c)
    BY <2>1, <2>9, CompensateDoes DEF Moved
  <2>10. CASE Finish(c)
    <3>1. Others(c) /\ call'[c].at # "bump"
      BY <2>10, FinishDoes, AnsweredAt
    <3>2. call[c].saw \in States \ {"bumping"}
      BY <2>0, <2>10, FinishDoes DEF ShapeOf, States, Answers
    <3>3. Record(k, call[c].saw) \/ UNCHANGED <<red, holder, lapsed>>
      BY <2>10, FinishDoes
    <3> QED BY <2>1, <2>2, <3>1, <3>2, <3>3
  <2>11. CASE Answer(c)
    <3>1. Others(c) /\ call'[c].at # "bump" /\ UNCHANGED <<red, holder, lapsed>>
      BY <2>11, AnswerDoes, AnsweredAt
    <3> QED BY <2>1, <3>1
  <2>12. CASE Free(c)
    BY <2>1, <2>12, FreeDoes, EndedAt
  <2>13. CASE Contend(c)
    BY <2>1, <2>13, ContendDoes, EndedAt DEF Moved
  <2>14. CASE Reread(c)
    BY <2>0, <2>1, <2>14, RereadDoes, EndedAt DEF Moved
  <2>15. CASE Unslot(c)
    BY <2>1, <2>15, UnslotDoes DEF Moved
  <2>16. CASE Delete(c)
    <3>1. Others(c) /\ call'[c].at # "bump"
      BY <2>16, DeleteDoes, EndedAt DEF Moved
    <3>2. Record(k, "none") \/ UNCHANGED <<red, holder, lapsed>>
      BY <2>16, DeleteDoes
    <3>3. "none" \in States \ {"bumping"}
      BY DEF States
    <3> QED BY <2>1, <2>2, <3>1, <3>2, <3>3
  <2>17. CASE Dec(c)
    BY <2>1, <2>17, DecDoes, EndedAt
  <2> QED BY <1>4, <2>3, <2>4, <2>5, <2>6, <2>7, <2>8, <2>9, <2>10, <2>11, <2>12, <2>13,
             <2>14, <2>15, <2>16, <2>17 DEF Step
<1> QED BY <1>1, <1>2, <1>3, <1>4 DEF CallAct

\* A use of k was counted and is not recorded yet.
Counted(k) ==
  \/ coupon.witness = k
  \/ \E c \in Callers : Key(c) = k /\ call[c].at = "finish" /\ call[c].saw = "applied"
Pending(k) == red[k] = "bumping" /\ k \notin mixed /\ Counted(k)
Settled == \A k \in Keys : ~Pending(k)
\* The call gives k's use back once it has deleted the redemption.
Returns(c) == call[c].at \in {"unslot", "delete"} /\ call[c].saw = "applied"
\* A redemption that may be mixed up is taken to hold a use for as long as it is there.
InUse(k) ==
  \/ k \in mixed
  \/ red[k] = "applied"
  \/ Pending(k)
  \/ red[k] # "none" /\ \E c \in Callers : Key(c) = k /\ Returns(c)
Used == {k \in Keys : InUse(k)}
Owed == {c \in Callers : call[c].at = "dec"}

Kept == mixed \cup Applied

Lower == Cardinality(Used) + Cardinality(Owed) <= coupon.uses + mixes
Cap == coupon.max # None => Cardinality(Used) <= coupon.max + mixes

\* A release that gives a use back has found its redemption recorded, deleted or mixed up.
Sure(c) == red[Key(c)] \in {"applied", "none"} \/ Key(c) \in mixed
Surely == \A c \in Callers : Returns(c) /\ c \notin recount.owed => Sure(c)
\* What a kept look says while nothing has written the coupon: each use that was counted is
\* recorded or owed, and those are no more than it saw.
KeptLook ==
  /\ Settled
  /\ Surely
  /\ Cardinality(Kept) + Cardinality(Owed \ recount.owed) <= recount.seenLive + mixes
Looks ==
  /\ recount.held /\ recount.at \in {"applied", "write"} => Settled
  /\ recount.at # "idle" => recount.owed = {}
  /\ recount.at = "write" /\ recount.held => recount.kept
  /\ recount.kept => KeptLook

Counter == Lower /\ Cap /\ Looks

LEMMA Sizes ==
  ASSUME Finite, TypeOK, Mixing
  PROVE /\ IsFiniteSet(Used) /\ IsFiniteSet(Owed) /\ IsFiniteSet(Applied) /\ IsFiniteSet(Kept)
        /\ Cardinality(Used) \in Nat /\ Cardinality(Owed) \in Nat /\ Cardinality(Applied) \in Nat
        /\ Cardinality(Kept) \in Nat
        /\ Applied \subseteq Used /\ Cardinality(Applied) <= Cardinality(Used)
        /\ Cardinality(Kept) <= Cardinality(Applied) + mixes
        /\ coupon.uses \in Nat /\ recount.seenLive \in Nat /\ mixes \in Nat
<1>1. Used \in SUBSET (Standing \cup mixed)
  BY DEF Used, Standing, InUse, Pending
<1>2. Owed \in SUBSET Active
  BY DEF Owed, Active, Busy
<1>3. Applied \in SUBSET Used
  BY DEF Applied, Used, InUse
<1>4. IsFiniteSet(Used) /\ IsFiniteSet(Owed)
  BY <1>1, <1>2, FS_Subset, FS_Union DEF Finite, Mixing
<1>5. IsFiniteSet(Applied) /\ Cardinality(Applied) <= Cardinality(Used)
  BY <1>3, <1>4, FS_Subset
<1>6. coupon.uses \in Nat /\ recount.seenLive \in Nat /\ mixes \in Nat
  BY DEF TypeOK, Recount
<1>7. IsFiniteSet(Kept) /\ Cardinality(Kept) <= Cardinality(Applied) + mixes
  <2>1. IsFiniteSet(mixed) /\ Cardinality(mixed) \in Nat /\ Cardinality(mixed) <= mixes
    BY FS_CardinalityType DEF Mixing
  <2>2. IsFiniteSet(mixed \cap Applied) /\ Cardinality(mixed \cap Applied) \in Nat
    BY <2>1, FS_Subset, FS_CardinalityType
  <2>3. /\ IsFiniteSet(Kept)
        /\ Cardinality(Kept) = Cardinality(mixed) + Cardinality(Applied)
                                 - Cardinality(mixed \cap Applied)
    BY <1>5, <2>1, FS_Union DEF Kept
  <2>4. Cardinality(Applied) \in Nat
    BY <1>5, FS_CardinalityType
  <2> QED BY <1>6, <2>1, <2>2, <2>3, <2>4
<1> QED BY <1>3, <1>4, <1>5, <1>6, <1>7, FS_CardinalityType

LEMMA SizeMonotone ==
  ASSUME NEW S, IsFiniteSet(S), NEW T, T \subseteq S
  PROVE IsFiniteSet(T) /\ Cardinality(T) <= Cardinality(S) /\ Cardinality(T) \in Nat /\ Cardinality(S) \in Nat
BY FS_Subset, FS_CardinalityType

LEMMA OneMore ==
  ASSUME NEW S, IsFiniteSet(S), NEW T, NEW k, T \subseteq S \cup {k}
  PROVE IsFiniteSet(T) /\ Cardinality(T) <= Cardinality(S) + 1
<1>1. Cardinality(S) \in Nat
  BY FS_CardinalityType
<1>2. /\ IsFiniteSet(S \cup {k})
      /\ Cardinality(S \cup {k}) = IF k \in S THEN Cardinality(S) ELSE Cardinality(S) + 1
  BY FS_AddElement
<1>3. IsFiniteSet(T) /\ Cardinality(T) <= Cardinality(S \cup {k}) /\ Cardinality(T) \in Nat
  BY <1>2, FS_Subset, FS_CardinalityType
<1> QED BY <1>1, <1>2, <1>3

\* The other keys are in use as they were.
LEMMA OtherKeys ==
  ASSUME TypeOK, NEW c \in Callers, NEW k \in Keys, Others(c), call[c].key \in {k, None},
         call'[c].key \in {k, None}, coupon'.witness \in {coupon.witness, k},
         mixed \ {k} = mixed' \ {k},
         NEW x \in Keys, x # k, red'[x] = red[x]
  PROVE (Pending(x)' => Pending(x)) /\ (InUse(x)' => InUse(x))
<1>1. None # x
  BY NoneAssumption
<1>2. \A d \in Callers : call'[d].key = x => d # c /\ call'[d] = call[d]
  BY <1>1 DEF Others
<1>3. (coupon'.witness = x => coupon.witness = x) /\ (x \in mixed' <=> x \in mixed)
  OBVIOUS
<1>4. Pending(x)' => Pending(x)
  BY <1>2, <1>3 DEF Pending, Counted, Key
<1>5. \A d \in Callers : call'[d].key = x /\ call'[d].at \in {"unslot", "delete"} /\ call'[d].saw = "applied"
        => Key(d) = x /\ Returns(d)
  BY <1>2 DEF Returns, Key
<1> QED BY <1>3, <1>4, <1>5 DEF InUse, Returns, Key

\* A step that leaves the redemptions of the releases that were sure as they were.
LEMMA SureOn ==
  ASSUME Surely, recount'.owed = recount.owed,
         \A d \in Callers : Returns(d)' =>
           Returns(d) /\ call'[d].key = Key(d)
             /\ (red[Key(d)] \in {"applied", "none"} => red'[Key(d)] \in {"applied", "none"})
             /\ (Key(d) \in mixed => Key(d) \in mixed' \/ red'[Key(d)] = "none")
  PROVE Surely'
BY DEF Surely, Sure, Key

\* A step that leaves the coupon alone, and takes up no new use.
LEMMA CalmStep ==
  ASSUME TypeOK, Finite, Mixing, TypeOK', Finite', Counter, NEW k \in Keys, coupon' = coupon,
         mixes' = mixes, mixed' \subseteq mixed,
         NEW S, LooksBut(S), S \subseteq recount.owed,
         \A x \in Keys : x # k => (Pending(x)' => Pending(x)) /\ (InUse(x)' => InUse(x)),
         Pending(k)' => Pending(k),
         InUse(k)' => InUse(k),
         \A x \in Keys : x # k => red'[x] = red[x],
         red'[k] = "applied" => red[k] = "applied" \/ Pending(k) \/ k \in mixed,
         Owed' \subseteq Owed, Owed' \ S \subseteq Owed \ recount.owed,
         Settled /\ Surely => Surely'
  PROVE Counter'
<1>1. Used' \subseteq Used
  BY DEF Used
<1>2. /\ IsFiniteSet(Used) /\ IsFiniteSet(Owed) /\ IsFiniteSet(Kept)
      /\ coupon.uses \in Nat /\ recount.seenLive \in Nat /\ mixes \in Nat
  BY Sizes
<1>3. /\ Cardinality(Used') <= Cardinality(Used) /\ Cardinality(Used') \in Nat
      /\ Cardinality(Used) \in Nat
  BY <1>1, <1>2, SizeMonotone
<1>4. /\ Cardinality(Owed') <= Cardinality(Owed) /\ Cardinality(Owed') \in Nat
      /\ Cardinality(Owed) \in Nat
  BY <1>2, SizeMonotone
<1>5. Lower'
  BY <1>2, <1>3, <1>4 DEF Counter, Lower
<1>6. Cap'
  <2>1. coupon.max # None => coupon.max \in Nat
    BY NoneAssumption DEF TypeOK
  <2> QED BY <1>2, <1>3, <2>1 DEF Counter, Cap
<1>7. Settled => Settled'
  BY DEF Settled
<1>8. recount'.owed = S /\ recount'.seenLive = recount.seenLive
  BY DEF LooksBut
<1>9. KeptLook => KeptLook'
  <2> SUFFICES ASSUME KeptLook PROVE KeptLook'
    OBVIOUS
  <2>1. Kept' \subseteq Kept
    BY DEF KeptLook, Settled, Applied, Kept
  <2>2. Cardinality(Kept') <= Cardinality(Kept) /\ Cardinality(Kept') \in Nat
        /\ Cardinality(Kept) \in Nat
    BY <1>2, <2>1, SizeMonotone
  <2>3. IsFiniteSet(Owed \ recount.owed)
    BY <1>2, SizeMonotone
  <2>4. Cardinality(Owed' \ S) <= Cardinality(Owed \ recount.owed) /\ Cardinality(Owed' \ S) \in Nat
        /\ Cardinality(Owed \ recount.owed) \in Nat
    BY <2>3, SizeMonotone
  <2>5. Cardinality(Kept') + Cardinality(Owed' \ S) <= recount.seenLive + mixes
    BY <1>2, <2>2, <2>4 DEF KeptLook
  <2>6. Cardinality(Kept') + Cardinality(Owed' \ recount'.owed) <= recount'.seenLive + mixes'
    BY <1>8, <2>5
  <2> QED BY <1>7, <2>6 DEF KeptLook
<1>10. Looks'
  BY <1>7, <1>8, <1>9 DEF Counter, Looks, LooksBut
<1> QED BY <1>5, <1>6, <1>10 DEF Counter

\* The same of a step that leaves the redemptions alone too.
LEMMA CalmSame ==
  ASSUME TypeOK, Finite, Mixing, TypeOK', Finite', CallShape', Counter, NEW c \in Callers,
         NEW k \in Keys,
         Others(c),
         call[c].key \in {k, None}, call'[c].key \in {k, None},
         UNCHANGED <<coupon, red, mixed, mixes>>,
         NEW S, LooksBut(S), S = recount.owed \/ (S = recount.owed \ {c} /\ call'[c].at = "idle"),
         call'[c].at # "dec",
         call'[c].at = "finish" /\ call'[c].saw = "applied" => coupon.witness = k \/ Pending(k) \/ red[k] # "bumping",
         Returns(c)' => (Returns(c) /\ Key(c) = k) \/ red[k] = "applied" \/ Pending(k) \/ k \in mixed
  PROVE Counter'
<1>1. \A x \in Keys : x # k => (Pending(x)' => Pending(x)) /\ (InUse(x)' => InUse(x))
  BY OtherKeys
<1>2. \A d \in Callers : d # c => call'[d] = call[d]
  BY DEF Others
<1>3. Pending(k)' => Pending(k)
  BY <1>2 DEF Pending, Counted, Key
<1>4. InUse(k)' => InUse(k)
  BY <1>2, <1>3 DEF InUse, Returns, Key
<1>5. Owed' \subseteq Owed /\ Owed' \ S \subseteq Owed \ recount.owed
  BY <1>2 DEF Owed
<1>6. Returns(c)' => call'[c].key = k
  BY NoneAssumption DEF Returns, CallShape, ShapeOf, Busy, Key
<1>7. ASSUME Settled, Surely PROVE Surely'
  <2> SUFFICES ASSUME NEW d \in Callers, Returns(d)', d \notin S
               PROVE red'[call'[d].key] \in {"applied", "none"} \/ call'[d].key \in mixed'
    BY DEF Surely, Sure, Key, LooksBut
  <2>1. CASE d # c
    <3>1. Returns(d) /\ call'[d].key = Key(d) /\ d \notin recount.owed
      BY <1>2, <2>1 DEF Returns, Key
    <3> QED BY <1>7, <3>1 DEF Surely, Sure
  <2>2. CASE d = c
    <3>1. call'[c].key = k /\ call'[c].at # "idle"
      BY <1>6, <2>2 DEF Returns
    <3>2. c \notin recount.owed
      BY <2>2, <3>1
    <3>3. CASE Returns(c) /\ Key(c) = k
      BY <1>7, <2>2, <3>1, <3>2, <3>3 DEF Surely, Sure
    <3>4. CASE red[k] = "applied" \/ k \in mixed
      BY <2>2, <3>1, <3>4
    <3>5. CASE Pending(k)
      BY <1>7, <3>5 DEF Settled
    <3> QED BY <2>2, <3>3, <3>4, <3>5
  <2> QED BY <2>1, <2>2
<1>8. S \subseteq recount.owed
  OBVIOUS
<1> QED BY <1>1, <1>3, <1>4, <1>5, <1>7, <1>8, CalmStep

\* A redemption that may be mixed up is allowed for from its claim on.
LEMMA MixKeepsCounter ==
  ASSUME TypeOK, Finite, Mixing, TypeOK', Finite', Mixing', CallShape, CallShape', Counter,
         NEW c \in Callers, NEW k \in Keys,
         Others(c), call[c].key = None, call'[c].key = k, call'[c].at = "slot",
         UNCHANGED <<coupon, recount>>, red[k] = "none", red' = [red EXCEPT ![k] = "claimed"],
         mixed' = mixed \cup {k}, mixes' = mixes + 1
  PROVE Counter'
<1>1. \A d \in Callers : d # c => call'[d] = call[d]
  BY DEF Others
<1>2. red'[k] = "claimed" /\ \A x \in Keys : x # k => red'[x] = red[x]
  BY DEF TypeOK
<1>3. \A x \in Keys : x # k => (Pending(x)' => Pending(x)) /\ (InUse(x)' => InUse(x))
  BY <1>2, OtherKeys
<1>4. Used' \subseteq Used \cup {k}
  BY <1>3 DEF Used
<1>5. Owed' \subseteq Owed /\ Owed' \ recount'.owed \subseteq Owed \ recount.owed
  BY <1>1 DEF Owed
<1>6. /\ IsFiniteSet(Used) /\ IsFiniteSet(Owed) /\ IsFiniteSet(Kept)
      /\ Cardinality(Used) \in Nat /\ Cardinality(Kept) \in Nat
      /\ coupon.uses \in Nat /\ recount.seenLive \in Nat /\ mixes \in Nat
  BY Sizes
<1>7. Cardinality(Used') <= Cardinality(Used) + 1 /\ Cardinality(Used') \in Nat
  BY <1>4, <1>6, OneMore, FS_CardinalityType
<1>8. /\ Cardinality(Owed') <= Cardinality(Owed) /\ Cardinality(Owed') \in Nat
      /\ Cardinality(Owed) \in Nat
  BY <1>5, <1>6, SizeMonotone
<1>9. Lower'
  BY <1>6, <1>7, <1>8 DEF Counter, Lower
<1>10. Cap'
  <2>1. coupon.max # None => coupon.max \in Nat
    BY NoneAssumption DEF TypeOK
  <2> QED BY <1>6, <1>7, <2>1 DEF Counter, Cap
<1>11. Settled => Settled'
  BY <1>3 DEF Settled, Pending
<1>12. KeptLook => KeptLook'
  <2> SUFFICES ASSUME KeptLook PROVE KeptLook'
    OBVIOUS
  <2>1. Kept' \subseteq Kept \cup {k}
    BY <1>2 DEF Kept, Applied
  <2>2. Cardinality(Kept') <= Cardinality(Kept) + 1 /\ Cardinality(Kept') \in Nat
    BY <1>6, <2>1, OneMore, FS_CardinalityType
  <2>3. IsFiniteSet(Owed \ recount.owed)
    BY <1>6, SizeMonotone
  <2>4. /\ Cardinality(Owed' \ recount'.owed) <= Cardinality(Owed \ recount.owed)
        /\ Cardinality(Owed' \ recount'.owed) \in Nat /\ Cardinality(Owed \ recount.owed) \in Nat
    BY <1>5, <2>3, SizeMonotone
  <2>5. Cardinality(Kept') + Cardinality(Owed' \ recount'.owed) <= recount'.seenLive + mixes'
    BY <1>6, <2>2, <2>4 DEF KeptLook
  <2>6. Surely'
    <3> SUFFICES ASSUME NEW d \in Callers, Returns(d)', d \notin recount'.owed
                 PROVE red'[call'[d].key] \in {"applied", "none"} \/ call'[d].key \in mixed'
      BY DEF Surely, Sure, Key
    <3>1. d # c /\ Returns(d) /\ call'[d].key = Key(d) /\ Key(d) \in Keys
      BY <1>1 DEF Returns, Key, CallShape, ShapeOf, Busy
    <3>2. Sure(d)
      BY <3>1 DEF KeptLook, Surely
    <3> QED BY <1>2, <3>1, <3>2 DEF Sure
  <2> QED BY <1>11, <2>5, <2>6 DEF KeptLook
<1>13. Looks'
  BY <1>11, <1>12 DEF Counter, Looks
<1> QED BY <1>9, <1>10, <1>13 DEF Counter

\* A release that deletes a redemption it read as applied owes the use from then on.
LEMMA DeleteKeepsCounter ==
  ASSUME TypeOK, Finite, Mixing, TypeOK', Finite', CallShape, CallShape', Counter,
         NEW c \in Callers, NEW k \in Keys,
         Key(c) = k, Returns(c), red[k] # "none", Record(k, "none"), LooksBut(recount.owed),
         coupon' = coupon, mixed' = mixed \ {k}, mixes' = mixes,
         Moved(c, "dec", call[c].saw, call[c].bumped, call[c].takeOver)
  PROVE Counter'
<1>1. \A d \in Callers : d # c => call'[d] = call[d]
  BY DEF Moved, Others
<1>2. call'[c].at = "dec" /\ call'[c].key = k /\ call[c].key = k /\ Others(c)
  BY DEF Moved, Key
<1>3. red'[k] = "none" /\ \A x \in Keys : x # k => red'[x] = red[x]
  BY RecordOn DEF States
<1>4. \A x \in Keys : x # k => (Pending(x)' => Pending(x)) /\ (InUse(x)' => InUse(x))
  BY <1>2, <1>3, OtherKeys
<1>5. ~InUse(k)' /\ InUse(k) /\ ~Pending(k)'
  BY <1>3 DEF InUse, Pending
<1>6. Used' \subseteq Used \ {k} /\ k \in Used
  BY <1>4, <1>5 DEF Used
<1>7. Owed' = Owed \cup {c} /\ c \notin Owed
  BY <1>1, <1>2 DEF Owed, Returns
<1>8. /\ IsFiniteSet(Used) /\ IsFiniteSet(Owed) /\ IsFiniteSet(Kept) /\ coupon.uses \in Nat
      /\ recount.seenLive \in Nat /\ Cardinality(Used) \in Nat /\ Cardinality(Owed) \in Nat
      /\ Cardinality(Kept) \in Nat /\ mixes \in Nat
  BY Sizes
<1>9. IsFiniteSet(Used \ {k}) /\ Cardinality(Used \ {k}) = Cardinality(Used) - 1
  BY <1>6, <1>8, FS_RemoveElement
<1>10. Cardinality(Used') <= Cardinality(Used) - 1 /\ Cardinality(Used') \in Nat
  BY <1>6, <1>9, SizeMonotone
<1>11. Cardinality(Owed') = Cardinality(Owed) + 1
  BY <1>7, <1>8, FS_AddElement
<1>12. Lower'
  BY <1>8, <1>10, <1>11 DEF Lower, Counter
<1>13. Cap'
  <2>1. coupon.max # None => coupon.max \in Nat
    BY NoneAssumption DEF TypeOK
  <2> QED BY <1>8, <1>10, <2>1 DEF Cap, Counter
<1>14. Settled => Settled'
  BY <1>4, <1>5 DEF Settled
<1>15. ASSUME KeptLook PROVE KeptLook'
  <2>1. Surely'
    <3> SUFFICES ASSUME NEW d \in Callers, Returns(d)', d \notin recount'.owed
                 PROVE red'[call'[d].key] \in {"applied", "none"} \/ call'[d].key \in mixed'
      BY DEF Surely, Sure, Key
    <3>0. d \notin recount.owed
      BY DEF LooksBut
    <3>1. d # c
      BY <1>2 DEF Returns
    <3>2. Returns(d) /\ call'[d].key = Key(d) /\ Key(d) \in Keys
      BY <1>1, <3>1 DEF Returns, Key, CallShape, ShapeOf, Busy
    <3>3. Sure(d)
      BY <1>15, <3>0, <3>2 DEF KeptLook, Surely
    <3> QED BY <1>3, <3>2, <3>3 DEF Sure
  <2>2. CASE c \in recount.owed
    <3>1. Kept' \subseteq Kept
      BY <1>3 DEF Kept, Applied
    <3>2. Owed' \ recount.owed \subseteq Owed \ recount.owed
      BY <1>7, <2>2
    <3>3. Cardinality(Kept') <= Cardinality(Kept) /\ Cardinality(Kept') \in Nat
      BY <1>8, <3>1, SizeMonotone
    <3>4. IsFiniteSet(Owed \ recount.owed)
      BY <1>8, SizeMonotone
    <3>5. Cardinality(Owed' \ recount.owed) <= Cardinality(Owed \ recount.owed)
          /\ Cardinality(Owed' \ recount.owed) \in Nat /\ Cardinality(Owed \ recount.owed) \in Nat
      BY <3>2, <3>4, SizeMonotone
    <3>6. Cardinality(Kept') + Cardinality(Owed' \ recount.owed) <= recount.seenLive + mixes
      BY <1>8, <1>15, <3>3, <3>5 DEF KeptLook
    <3> QED BY <1>14, <1>15, <2>1, <3>6 DEF KeptLook, LooksBut
  <2>3. CASE c \notin recount.owed
    <3>1. k \in Kept
      BY <1>15, <2>3 DEF KeptLook, Surely, Sure, Kept, Applied
    <3>2. Kept' \subseteq Kept \ {k}
      BY <1>3 DEF Kept, Applied
    <3>3. Cardinality(Kept') <= Cardinality(Kept) - 1 /\ Cardinality(Kept') \in Nat
      <4>1. IsFiniteSet(Kept \ {k}) /\ Cardinality(Kept \ {k}) = Cardinality(Kept) - 1
        BY <1>8, <3>1, FS_RemoveElement
      <4> QED BY <3>2, <4>1, SizeMonotone
    <3>4. Owed' \ recount.owed = (Owed \ recount.owed) \cup {c} /\ c \notin Owed \ recount.owed
      BY <1>7, <2>3
    <3>5. IsFiniteSet(Owed \ recount.owed) /\ Cardinality(Owed \ recount.owed) \in Nat
      BY <1>8, SizeMonotone
    <3>6. Cardinality(Owed' \ recount.owed) = Cardinality(Owed \ recount.owed) + 1
      BY <3>4, <3>5, FS_AddElement
    <3>7. Cardinality(Kept') + Cardinality(Owed' \ recount.owed) <= recount.seenLive + mixes
      BY <1>8, <1>15, <3>3, <3>5, <3>6 DEF KeptLook
    <3> QED BY <1>14, <1>15, <2>1, <3>7 DEF KeptLook, LooksBut
  <2> QED BY <2>2, <2>3
<1>16. Looks'
  BY <1>14, <1>15 DEF Looks, LooksBut, Counter
<1> QED BY <1>12, <1>13, <1>16 DEF Counter

LEMMA BumpKeepsCounter ==
  ASSUME TypeOK, Finite, Mixing, TypeOK', Finite', CallShape, CallShape', Counter,
         NEW c \in Callers,
         NEW k \in Keys,
         Key(c) = k, call[c].at = "bump", Room, Counts(coupon.uses + 1, k), Unlooked,
         UNCHANGED <<red, mixed, mixes>>,
         Moved(c, "finish", "applied", TRUE, call[c].takeOver)
  PROVE Counter'
<1>1. \A d \in Callers : d # c => call'[d] = call[d]
  BY DEF Moved, Others
<1>2. call'[c].at = "finish" /\ call'[c].key = k /\ call[c].key = k /\ Others(c)
  BY DEF Moved, Key
<1>3. \A x \in Keys : x # k => (InUse(x)' => InUse(x))
  BY <1>2, OtherKeys DEF Counts
<1>4. Used' \subseteq Used \cup {k}
  BY <1>3 DEF Used
<1>5. Owed' \subseteq Owed
  BY <1>1, <1>2 DEF Owed
<1>6. /\ IsFiniteSet(Used) /\ IsFiniteSet(Owed) /\ coupon.uses \in Nat
      /\ Cardinality(Used) \in Nat /\ Cardinality(Owed) \in Nat /\ mixes \in Nat
  BY Sizes
<1>8. IsFiniteSet(Used') /\ Cardinality(Used') <= Cardinality(Used) + 1 /\ Cardinality(Used') \in Nat
  BY <1>4, <1>6, OneMore, FS_CardinalityType
<1>9. Cardinality(Owed') <= Cardinality(Owed) /\ Cardinality(Owed') \in Nat
  BY <1>5, <1>6, SizeMonotone
<1>10. Lower'
  BY <1>6, <1>8, <1>9 DEF Lower, Counter, Counts
<1>11. Cap'
  <2>1. coupon.max # None => coupon.max \in Nat
    BY NoneAssumption DEF TypeOK
  <2> QED BY <1>6, <1>8, <2>1 DEF Counter, Lower, Cap, Room, Counts
<1>12. Looks'
  BY DEF Looks, Unlooked, Counter
<1> QED BY <1>10, <1>11, <1>12 DEF Counter

LEMMA DecKeepsCounter ==
  ASSUME TypeOK, Finite, Mixing, TypeOK', Finite', Counter, CallShape, NEW c \in Callers, Dec(c)
  PROVE Counter'
<1>1. c \in Owed /\ Key(c) \in Keys
  BY DecDoes DEF Owed, CallShape, ShapeOf, Busy
<1>2. /\ IsFiniteSet(Used) /\ IsFiniteSet(Owed) /\ coupon.uses \in Nat
      /\ Cardinality(Used) \in Nat /\ Cardinality(Owed) \in Nat /\ mixes \in Nat
      /\ Cardinality(Kept) \in Nat /\ recount.seenLive \in Nat
  BY Sizes
<1>3. /\ coupon'.uses = (IF coupon.uses > 0 THEN coupon.uses - 1 ELSE 0)
      /\ coupon'.witness = coupon.witness /\ coupon'.max = coupon.max
      /\ coupon.uses > 0 => ~recount'.kept
      /\ (recount'.held => recount.held) /\ (recount'.kept => recount.kept)
      /\ recount'.at = recount.at /\ recount'.seenLive = recount.seenLive
      /\ recount'.owed = recount.owed \ {c}
      /\ UNCHANGED <<red, mixed, mixes>> /\ Ended(c)
  BY DecDoes DEF Counts
<1>4. Owed' \subseteq Owed \ {c}
  BY <1>3, EndedAt DEF Owed, Others
<1>5. \A d \in Callers : call'[d].key # None => d # c /\ call'[d] = call[d]
  BY <1>3, EndedAt DEF Others
<1>6. \A x \in Keys : (InUse(x)' => InUse(x)) /\ (Pending(x)' => Pending(x))
  <2>1. \A x \in Keys : x # None
    BY NoneAssumption
  <2> QED BY <1>3, <1>5, <2>1 DEF InUse, Pending, Counted, Returns, Key
<1>7. Used' \subseteq Used
  BY <1>6 DEF Used
<1>8. Cardinality(Used') <= Cardinality(Used) /\ Cardinality(Used') \in Nat
  BY <1>2, <1>7, SizeMonotone
<1>9. IsFiniteSet(Owed \ {c}) /\ Cardinality(Owed \ {c}) = Cardinality(Owed) - 1
  BY <1>1, <1>2, FS_RemoveElement
<1>10. Cardinality(Owed') <= Cardinality(Owed) - 1 /\ Cardinality(Owed') \in Nat
  BY <1>4, <1>9, SizeMonotone
<1>11. Lower'
  <2>1. Cardinality(Used) + Cardinality(Owed) <= coupon.uses + mixes
    BY DEF Counter, Lower
  <2>2. coupon.uses - 1 <= coupon'.uses /\ coupon'.uses \in Nat
    BY <1>2, <1>3
  <2>3. Cardinality(Used') + Cardinality(Owed') <= coupon'.uses + mixes
    BY <1>2, <1>8, <1>10, <2>1, <2>2
  <2> QED BY <1>3, <2>3 DEF Lower
<1>12. Cap'
  <2>1. coupon.max # None => coupon.max \in Nat
    BY NoneAssumption DEF TypeOK
  <2> QED BY <1>2, <1>3, <1>8, <2>1 DEF Counter, Cap
<1>13. Settled => Settled'
  BY <1>6 DEF Settled
<1>14. KeptLook => KeptLook'
  <2> SUFFICES ASSUME KeptLook PROVE KeptLook'
    OBVIOUS
  <2>1. Kept' = Kept
    BY <1>3 DEF Kept, Applied
  <2>2. Owed' \ recount'.owed \subseteq Owed \ recount.owed
    BY <1>3, <1>4
  <2>3. IsFiniteSet(Owed \ recount.owed)
    BY <1>2, SizeMonotone
  <2>4. /\ Cardinality(Owed' \ recount'.owed) <= Cardinality(Owed \ recount.owed)
        /\ Cardinality(Owed' \ recount'.owed) \in Nat /\ Cardinality(Owed \ recount.owed) \in Nat
    BY <2>2, <2>3, SizeMonotone
  <2>5. Cardinality(Kept') + Cardinality(Owed' \ recount'.owed) <= recount'.seenLive + mixes'
    BY <1>2, <1>3, <2>1, <2>4 DEF KeptLook
  <2>6. Surely'
    <3> SUFFICES ASSUME NEW d \in Callers, Returns(d)', d \notin recount'.owed
                 PROVE red'[call'[d].key] \in {"applied", "none"} \/ call'[d].key \in mixed'
      BY DEF Surely, Sure, Key
    <3>1. d # c
      BY <1>3, EndedAt DEF Returns
    <3>2. Returns(d) /\ call'[d].key = Key(d) /\ d \notin recount.owed
      BY <1>3, <3>1, EndedAt DEF Returns, Key, Others
    <3> QED BY <1>3, <3>2 DEF KeptLook, Surely, Sure
  <2> QED BY <1>13, <2>5, <2>6 DEF KeptLook
<1>15. Looks'
  <2>1. Looks
    BY DEF Counter
  <2>2. CASE coupon.uses > 0
    <3>1. ~recount'.held /\ ~recount'.kept
      BY <2>2, DecDoes
    <3> QED BY <1>3, <2>1, <3>1 DEF Looks
  <2>3. CASE ~(coupon.uses > 0)
    <3>1. recount'.kept = recount.kept /\ recount'.held = recount.held
      BY <2>3, <1>2 DEF Dec, TypeOK, Recount
    <3> QED BY <1>3, <1>13, <1>14, <2>1, <3>1 DEF Looks
  <2> QED BY <2>2, <2>3
<1> QED BY <1>11, <1>12, <1>15 DEF Counter

LEMMA RecountKeepsCounter ==
  ASSUME TypeOK, Finite, Mixing, TypeOK', Finite', CallShape, Counter, RecountAct
  PROVE Counter'
<1>0. /\ UNCHANGED <<red, call, mixed, mixes>>
      /\ \A c \in Callers : ShapeOf(c)
  BY RecountDoes DEF CallShape
<1>1. /\ UNCHANGED <<Owed, Applied, Kept>>
      /\ (coupon'.witness = coupon.witness => UNCHANGED <<Used, Settled>>)
      /\ (recount'.owed = recount.owed => (Surely' <=> Surely))
  BY <1>0 DEF Used, InUse, Pending, Counted, Returns, Key, Owed, Applied, Kept, Settled, Surely, Sure
<1>2. /\ IsFiniteSet(Used) /\ IsFiniteSet(Owed) /\ IsFiniteSet(Applied)
      /\ Cardinality(Used) \in Nat /\ Cardinality(Owed) \in Nat /\ Cardinality(Applied) \in Nat
      /\ Cardinality(Applied) <= Cardinality(Used) /\ Cardinality(Kept) \in Nat
      /\ Cardinality(Kept) <= Cardinality(Applied) + mixes
      /\ coupon.uses \in Nat /\ recount.seenLive \in Nat /\ mixes \in Nat
  BY Sizes
<1>3. ASSUME coupon' = coupon, Looks' PROVE Counter'
  BY <1>0, <1>1, <1>3 DEF Counter, Lower, Cap
<1>4. ASSUME coupon' = coupon, recount'.kept = recount.kept, recount'.owed = recount.owed,
             recount'.seenLive = recount.seenLive, KeptLook
      PROVE KeptLook'
  BY <1>0, <1>1, <1>4 DEF KeptLook
<1>5. NoRecount.at = "idle" /\ ~NoRecount.kept /\ ~NoRecount.held /\ NoRecount.owed = {}
  BY DEF NoRecount
<1>6. recount' = NoRecount => Looks'
  BY <1>5 DEF Looks
<1>7. CASE LookAtCoupon
  <2>1. /\ recount'.at = "bumping" /\ recount'.kept = recount.kept /\ recount'.owed = recount.owed
        /\ recount'.seenLive = recount.seenLive /\ recount.owed = {} /\ coupon' = coupon
    BY <1>7 DEF LookAtCoupon, TypeOK, Recount
  <2>2. Looks'
    BY <1>4, <2>1 DEF Looks, Counter
  <2> QED BY <1>3, <2>1, <2>2
<1>8. CASE LookForBumping
  <2>1. coupon' = coupon /\ recount.at = "bumping"
    BY <1>8 DEF LookForBumping
  <2>2. CASE \E k \in Keys : red[k] = "bumping"
    BY <1>3, <1>6, <1>8, <2>1, <2>2 DEF LookForBumping
  <2>3. CASE ~\E k \in Keys : red[k] = "bumping"
    <3>1. /\ recount'.at = "applied" /\ recount'.kept = recount.kept /\ recount'.owed = recount.owed
          /\ recount'.seenLive = recount.seenLive
      BY <1>8, <2>3 DEF LookForBumping, TypeOK, Recount
    <3>2. Settled'
      BY <1>0, <2>3 DEF Settled, Pending
    <3>3. Looks'
      BY <1>4, <2>1, <3>1, <3>2 DEF Looks, Counter
    <3> QED BY <1>3, <2>1, <3>3
  <2> QED BY <2>2, <2>3
<1>9. CASE LookAtApplied
  <2>1. coupon' = coupon /\ recount.at = "applied"
    BY <1>9 DEF LookAtApplied
  <2>2. CASE recount' = NoRecount
    BY <1>3, <1>6, <2>1, <2>2
  <2>3. CASE recount' = [NoRecount EXCEPT !.seen = TRUE, !.seenUses = recount.uses,
                           !.seenLive = Cardinality(Applied), !.kept = recount.held, !.owed = Owing]
    <3>1. recount'.at = "idle" /\ recount'.seenLive = Cardinality(Applied) /\ recount'.owed = Owing
      BY <2>3 DEF NoRecount
    <3>2. recount'.kept = recount.held
      BY <2>3 DEF NoRecount
    <3>3. ASSUME recount'.kept PROVE KeptLook'
      <4>1. Settled'
        BY <1>0, <1>1, <2>1, <3>2, <3>3 DEF Looks, Counter, Settled, Pending, Counted, Key
      <4>2. Surely'
        BY <1>0, <3>1 DEF Surely, Returns, Owing
      <4>3. Owed' \ recount'.owed = {}
        BY <1>0, <3>1 DEF Owed, Owing, ShapeOf
      <4>4. Cardinality(Kept') + Cardinality(Owed' \ recount'.owed) <= recount'.seenLive + mixes'
        <5>1. Cardinality(Owed' \ recount'.owed) = 0
          BY <4>3, FS_EmptySet
        <5> QED BY <1>0, <1>1, <1>2, <3>1, <5>1
      <4> QED BY <4>1, <4>2, <4>4 DEF KeptLook
    <3>4. Looks'
      BY <3>1, <3>3 DEF Looks
    <3> QED BY <1>3, <2>1, <3>4
  <2>4. CASE SameDrift(Cardinality(Applied)) /\ recount' = [recount EXCEPT !.at = "write"]
    <3>1. /\ recount'.at = "write" /\ recount'.kept = recount.kept /\ recount'.owed = recount.owed
          /\ recount'.seenLive = recount.seenLive /\ recount'.held = recount.held
      BY <2>4 DEF TypeOK, Recount
    <3>2. recount.kept
      BY <2>4 DEF SameDrift
    <3>3. Looks'
      BY <1>1, <1>4, <2>1, <3>1, <3>2 DEF Looks, Counter
    <3> QED BY <1>3, <2>1, <3>3
  <2> QED BY <1>9, <2>2, <2>3, <2>4 DEF LookAtApplied
<1>10. CASE Correct
  <2>1. recount' = NoRecount /\ recount.at = "write"
    BY <1>10 DEF Correct
  <2>2. CASE recount.held
    <3>1. KeptLook /\ recount.owed = {}
      BY <2>1, <2>2 DEF Counter, Looks
    <3>2. /\ coupon'.uses = recount.seenLive /\ coupon'.max = coupon.max
          /\ coupon'.witness = coupon.witness
      BY <1>10, <2>2 DEF Correct, TypeOK
    <3>3. Used \subseteq Kept /\ Kept \subseteq Used
      <4>1. mixed \subseteq Keys
        BY DEF TypeOK
      <4>2. Kept \subseteq Used
        BY <4>1 DEF Kept, Used, InUse, Applied
      <4>3. ASSUME NEW k \in Keys, InUse(k) PROVE k \in Kept
        BY <3>1, <4>3 DEF KeptLook, Settled, Surely, Sure, InUse, Applied, Kept
      <4> QED BY <4>2, <4>3 DEF Used
    <3>4. Owed \ recount.owed = Owed
      BY <3>1
    <3>5. Lower'
      <4>1. Used = Kept
        BY <3>3
      <4> QED BY <1>0, <1>1, <3>1, <3>2, <3>4, <4>1 DEF KeptLook, Lower
    <3>6. Cap'
      BY <1>0, <1>1, <3>2 DEF Cap, Counter
    <3> QED BY <1>6, <2>1, <3>5, <3>6 DEF Counter
  <2>3. CASE ~recount.held
    BY <1>3, <1>6, <1>10, <2>1, <2>3 DEF Correct
  <2> QED BY <2>2, <2>3
<1> QED BY <1>7, <1>8, <1>9, <1>10 DEF RecountAct

LEMMA CallKeepsCounter ==
  ASSUME TypeOK, Finite, Mixing, TypeOK', Finite', Mixing', CallShape, CallShape', AllFresh,
         Counter, NEW c \in Callers, CallAct(c)
  PROVE Counter'
<1>0. \A x \in Keys : Fresh(x)
  BY DEF AllFresh
<1>u. recount' = recount => LooksBut(recount.owed)
  BY DEF LooksBut
<1>1. ASSUME NEW k \in Keys, Redeem(c, k) PROVE Counter'
  <2>1. /\ call[c].key = None /\ call'[c].key = k /\ Others(c) /\ coupon' = coupon
        /\ recount' = recount
        /\ call'[c].at \in {"slot", "await"}
    BY <1>1, RedeemDoes, IdleFields DEF Began
  <2>2. CASE red' = red /\ red[k] # "none"
    <3>1. UNCHANGED <<mixed, mixes>>
      BY <1>1, <2>2, RedeemDoes
    <3> QED BY <1>u, <2>1, <2>2, <3>1, CalmSame DEF Returns
  <2>4. CASE /\ red[k] = "none" /\ red' = [red EXCEPT ![k] = "claimed"] /\ Stale(k)
             /\ call'[c].at = "slot"
    <3>1. mixed' = mixed \cup {k} /\ mixes' = mixes + 1
      BY <1>1, <2>4, RedeemDoes
    <3> QED BY <2>1, <2>4, <3>1, MixKeepsCounter
  <2>3. CASE red[k] = "none" /\ red' = [red EXCEPT ![k] = "claimed"] /\ ~Stale(k)
    <3>1. /\ coupon.witness # k /\ (\A d \in Callers : Key(d) # k)
          /\ UNCHANGED <<mixed, mixes>>
      BY <1>1, <2>3, RedeemDoes DEF Stale
    <3>2. red'[k] = "claimed" /\ \A x \in Keys : x # k => red'[x] = red[x]
      BY <2>3 DEF TypeOK
    <3>3. \A d \in Callers : d # c => call'[d] = call[d]
      BY <2>1 DEF Others
    <3>4. ~Pending(k)' /\ (InUse(k)' => InUse(k))
      BY <2>1, <3>1, <3>2, <3>3 DEF Pending, InUse, Returns, Key
    <3>5. \A x \in Keys : x # k => (Pending(x)' => Pending(x)) /\ (InUse(x)' => InUse(x))
      BY <2>1, <3>1, <3>2, OtherKeys
    <3>6. Owed' \subseteq Owed /\ Owed' \ recount.owed \subseteq Owed \ recount.owed
      BY <2>1, <3>3 DEF Owed
    <3>7. ASSUME Surely PROVE Surely'
      <4>1. ASSUME NEW d \in Callers, Returns(d)'
            PROVE d # c /\ Returns(d) /\ call'[d].key = Key(d) /\ Key(d) \in Keys /\ Key(d) # k
        BY <2>1, <3>1, <3>3, <4>1 DEF Returns, Key, CallShape, ShapeOf, Busy
      <4>2. \A d \in Callers : Returns(d)' =>
              red'[Key(d)] = red[Key(d)] /\ (Key(d) \in mixed => Key(d) \in mixed')
        BY <3>1, <3>2, <4>1
      <4> QED BY <2>1, <3>7, <4>1, <4>2, SureOn
    <3> QED BY <1>u, <2>1, <3>1, <3>2, <3>4, <3>5, <3>6, <3>7, CalmStep
  <2> QED BY <1>1, <2>1, <2>2, <2>3, <2>4, RedeemDoes DEF Began
<1>2. ASSUME NEW k \in Keys, Release(c, k) PROVE Counter'
  <2>1. /\ call[c].key = None /\ call'[c].key = k /\ Others(c) /\ coupon' = coupon
        /\ recount' = recount
        /\ call'[c].at \in {"await", "unslot"} /\ call'[c].saw = red[k] /\ red' = red
        /\ UNCHANGED <<mixed, mixes>>
    BY <1>2, ReleaseDoes, IdleFields DEF Began
  <2> QED BY <1>u, <2>1, CalmSame DEF Returns
<1>3. CASE Crash(c)
  <2>1. PICK k \in Keys : k = Key(c)
    BY <1>3, CrashDoes DEF CallShape, ShapeOf, Busy
  <2>2. /\ Others(c) /\ call'[c].key = None /\ call'[c].at = "idle" /\ coupon' = coupon
        /\ UNCHANGED <<red, mixed, mixes>>
        /\ LooksBut(recount.owed \ {c})
    BY <1>3, CrashDoes, EndedAt
  <2>3. call[c].key \in {k, None}
    BY <2>1 DEF Key
  <2> QED BY <2>2, <2>3, CalmSame DEF Returns
<1>4. CASE Step(c)
  <2>0. PICK k \in Keys : k = Key(c)
    BY <1>4, StepKey
  <2>1. Busy(c) /\ ShapeOf(c) /\ Fresh(k) /\ call[c].key \in {k, None}
    BY <1>0, <1>4, <2>0, StepKey DEF Key
  <2>2. ASSUME Others(c), call'[c].key \in {k, None}, UNCHANGED <<coupon, red, recount, mixed, mixes>>,
               call'[c].at \notin {"dec", "finish", "unslot", "delete"}
        PROVE Counter'
    BY <1>u, <2>1, <2>2, CalmSame DEF Returns
  <2>3. CASE Slot(c)
    <3>1. /\ Others(c) /\ call'[c].key = k /\ UNCHANGED <<coupon, red, recount, mixed, mixes>>
          /\ call'[c].at = "right" \/ (call'[c].at = "finish" /\ call'[c].saw = "capped")
      BY <2>0, <2>3, SlotDoes DEF Moved, Key
    <3> QED BY <1>u, <2>1, <3>1, CalmSame DEF Returns
  <2>4. CASE Right(c)
    <3>1. /\ Others(c) /\ call'[c].key = k /\ UNCHANGED <<coupon, recount, mixed, mixes>>
          /\ call'[c].at \in {"witness", "beat", "answer", "await"}
      BY <2>0, <2>4, RightDoes DEF Moved, Key
    <3>2. CASE red' = red
      BY <2>2, <3>1, <3>2
    <3>5. CASE red[k] = "claimed" /\ red' = [red EXCEPT ![k] = "bumping"] /\ k \in mixed
      <4>1. red'[k] = "bumping" /\ \A x \in Keys : x # k => red'[x] = red[x]
        BY <3>5 DEF TypeOK
      <4>2. \A d \in Callers : d # c => call'[d] = call[d]
        BY <3>1 DEF Others
      <4>3. ~Pending(k)' /\ InUse(k)
        BY <3>1, <3>5 DEF Pending, InUse
      <4>5. \A x \in Keys : x # k => (Pending(x)' => Pending(x)) /\ (InUse(x)' => InUse(x))
        BY <2>1, <3>1, <4>1, OtherKeys
      <4>6. Owed' \subseteq Owed /\ Owed' \ recount.owed \subseteq Owed \ recount.owed
        BY <3>1, <4>2 DEF Owed
      <4>7. ASSUME Surely PROVE Surely'
        <5> SUFFICES ASSUME NEW d \in Callers, Returns(d)', d \notin recount'.owed
                     PROVE red'[call'[d].key] \in {"applied", "none"} \/ call'[d].key \in mixed'
          BY DEF Surely, Sure, Key
        <5>1. d # c
          BY <3>1 DEF Returns
        <5>2. Returns(d) /\ call'[d].key = Key(d) /\ Key(d) \in Keys
          BY <4>2, <5>1 DEF Returns, Key, CallShape, ShapeOf, Busy
        <5>3. Sure(d)
          BY <3>1, <4>7, <5>2 DEF Surely
        <5> QED BY <3>1, <3>5, <4>1, <5>2, <5>3 DEF Sure
      <4> QED BY <1>u, <3>1, <4>1, <4>3, <4>5, <4>6, <4>7, CalmStep
    <3>3. CASE red[k] = "claimed" /\ red' = [red EXCEPT ![k] = "bumping"] /\ k \notin mixed
      <4>1. red'[k] = "bumping" /\ \A x \in Keys : x # k => red'[x] = red[x]
        BY <3>3 DEF TypeOK
      <4>2. \A d \in Callers : d # c => call'[d] = call[d]
        BY <3>1 DEF Others
      <4>3. coupon.witness # k /\ \A d \in Callers : Key(d) = k => Unbegun(d)
        BY <2>1, <3>3 DEF Fresh
      <4>4. ~Pending(k)' /\ ~InUse(k)'
        <5>1. k \notin mixed'
          BY <3>1, <3>3
        <5> QED BY <3>1, <4>1, <4>2, <4>3, <5>1 DEF Pending, Counted, InUse, Returns, Unbegun, Key
      <4>5. \A x \in Keys : x # k => (Pending(x)' => Pending(x)) /\ (InUse(x)' => InUse(x))
        BY <2>1, <3>1, <4>1, OtherKeys
      <4>6. Owed' \subseteq Owed /\ Owed' \ recount.owed \subseteq Owed \ recount.owed
        BY <3>1, <4>2 DEF Owed
      <4>7. ASSUME Surely PROVE Surely'
        <5>1. ASSUME NEW d \in Callers, Returns(d)'
              PROVE d # c /\ Returns(d) /\ call'[d].key = Key(d) /\ Key(d) \in Keys /\ Key(d) # k
          <6>1. d # c
            BY <3>1, <5>1 DEF Returns
          <6>2. Returns(d) /\ call'[d].key = Key(d) /\ Key(d) \in Keys
            BY <4>2, <5>1, <6>1 DEF Returns, Key, CallShape, ShapeOf, Busy
          <6> QED BY <4>3, <6>1, <6>2 DEF Unbegun, Returns
        <5>2. \A d \in Callers : Returns(d)' =>
                red'[Key(d)] = red[Key(d)] /\ (Key(d) \in mixed => Key(d) \in mixed')
          BY <3>1, <4>1, <5>1
        <5> QED BY <3>1, <4>7, <5>1, <5>2, SureOn
      <4> QED BY <1>u, <3>1, <4>1, <4>4, <4>5, <4>6, <4>7, CalmStep
    <3>4. CASE k \in lapsed /\ red' = [red EXCEPT ![k] = "bumping"]
      <4>1. red' = red
        BY <3>4 DEF TypeOK
      <4> QED BY <2>2, <3>1, <4>1
    <3> QED BY <2>0, <2>4, <3>2, <3>3, <3>4, <3>5, RightDoes
  <2>5. CASE Await(c)
    <3>1. /\ Others(c) /\ call'[c].key \in {k, None} /\ UNCHANGED <<coupon, red, recount, mixed, mixes>>
          /\ call'[c].at \in {"reread", "free", "idle", "slot"}
      BY <2>0, <2>5, AwaitDoes, AnsweredAt DEF Moved, Key
    <3> QED BY <2>2, <3>1
  <2>6. CASE Witness(c)
    <3>1. /\ Others(c) /\ call'[c].key = k /\ UNCHANGED <<coupon, red, recount, mixed, mixes>>
          /\ call'[c].at = "beat" \/ (call'[c].at = "finish" /\ coupon.witness = k)
      BY <2>0, <2>6, WitnessDoes DEF Moved, Key
    <3> QED BY <1>u, <2>1, <3>1, CalmSame DEF Returns
  <2>7. CASE Beat(c)
    <3>1. /\ Others(c) /\ call'[c].key = k /\ UNCHANGED <<coupon, red, recount, mixed, mixes>>
          /\ call'[c].at \in {"bump", "answer"}
      BY <2>0, <2>7, BeatDoes DEF Moved, Key
    <3> QED BY <2>2, <3>1
  <2>8. CASE Bump(c)
    <3>1. call[c].at = "bump" /\ UNCHANGED <<red, mixed, mixes>>
      BY <2>8, BumpDoes
    <3>2. CASE /\ Room /\ Counts(coupon.uses + 1, Key(c)) /\ Unlooked
               /\ Moved(c, "finish", "applied", TRUE, call[c].takeOver)
      BY <2>0, <3>1, <3>2, BumpKeepsCounter
    <3>3. CASE UNCHANGED <<coupon, recount>>
               /\ (\/ Moved(c, "compensate", "exhausted", call[c].bumped, call[c].takeOver)
                   \/ Moved(c, "beat", call[c].saw, call[c].bumped, call[c].takeOver))
      BY <2>0, <2>2, <3>1, <3>3 DEF Moved, Key
    <3> QED BY <2>8, <3>2, <3>3, BumpDoes
  <2>9. CASE Compensate(c)
    <3>1. /\ Others(c) /\ call'[c].key = k /\ UNCHANGED <<coupon, red, recount, mixed, mixes>>
          /\ call'[c].at = "finish" /\ call'[c].saw = "exhausted"
      BY <2>0, <2>1, <2>9, CompensateDoes DEF Moved, Key, ShapeOf
    <3> QED BY <1>u, <2>1, <3>1, CalmSame DEF Returns
  <2>10. CASE Finish(c)
    <3>1. /\ Others(c) /\ call'[c].key \in {k, None} /\ UNCHANGED <<coupon, recount, mixed, mixes>>
          /\ call'[c].at \in {"reread", "free", "idle"} /\ call[c].at = "finish"
      BY <2>0, <2>10, FinishDoes, AnsweredAt
    <3>2. CASE red' = red
      BY <2>2, <3>1, <3>2
    <3>3. CASE red[k] \in {"claimed", "bumping"} /\ Record(k, call[c].saw)
      <4>0. call[c].saw \in Answers /\ call[c].saw \in States
        BY <2>1, <3>1 DEF ShapeOf, States
      <4>1. red'[k] = call[c].saw /\ \A x \in Keys : x # k => red'[x] = red[x]
        BY <3>3, <4>0, RecordOn
      <4>2. \A d \in Callers : d # c => call'[d] = call[d]
        BY <3>1 DEF Others
      <4>3. call[c].saw = "applied" => Pending(k) \/ k \in mixed
        BY <2>0, <2>1, <3>1, <3>3 DEF Pending, Counted, Fresh, Unbegun
      <4>4. ~Pending(k)'
        BY <4>0, <4>1 DEF Pending, Answers
      <4>5. InUse(k)' => InUse(k)
        BY <3>1, <3>3, <4>1, <4>2, <4>3, <4>4 DEF InUse, Returns, Key
      <4>6. \A x \in Keys : x # k => (Pending(x)' => Pending(x)) /\ (InUse(x)' => InUse(x))
        BY <2>1, <3>1, <4>1, OtherKeys
      <4>7. Owed' \subseteq Owed /\ Owed' \ recount.owed \subseteq Owed \ recount.owed
        BY <3>1, <4>2 DEF Owed
      <4>8. ASSUME Surely PROVE Surely'
        <5>1. ASSUME NEW d \in Callers, Returns(d)'
              PROVE d # c /\ Returns(d) /\ call'[d].key = Key(d) /\ Key(d) \in Keys
          <6>1. d # c
            BY <3>1, <5>1 DEF Returns
          <6> QED BY <4>2, <5>1, <6>1 DEF Returns, Key, CallShape, ShapeOf, Busy
        <5>2. \A d \in Callers : Returns(d)' =>
                /\ red[Key(d)] \in {"applied", "none"} => red'[Key(d)] \in {"applied", "none"}
                /\ Key(d) \in mixed => Key(d) \in mixed'
          BY <3>1, <3>3, <4>1, <5>1
        <5> QED BY <3>1, <4>8, <5>1, <5>2, SureOn
      <4> QED BY <1>u, <3>1, <4>1, <4>3, <4>4, <4>5, <4>6, <4>7, <4>8, CalmStep
    <3> QED BY <2>0, <2>10, <3>2, <3>3, FinishDoes
  <2>11. CASE Answer(c)
    <3>1. /\ Others(c) /\ call'[c].key \in {k, None} /\ UNCHANGED <<coupon, red, recount, mixed, mixes>>
          /\ call'[c].at \in {"reread", "free", "idle"}
      BY <2>0, <2>11, AnswerDoes, AnsweredAt
    <3> QED BY <2>2, <3>1
  <2>12. CASE Free(c)
    BY <2>2, <2>12, FreeDoes, EndedAt
  <2>13. CASE Contend(c)
    <3>1. /\ Others(c) /\ call'[c].key \in {k, None} /\ UNCHANGED <<coupon, red, recount, mixed, mixes>>
          /\ call'[c].at \in {"reread", "idle"}
      BY <2>0, <2>13, ContendDoes, EndedAt DEF Moved, Key
    <3> QED BY <2>2, <3>1
  <2>14. CASE Reread(c)
    <3>1. /\ Others(c) /\ call'[c].key \in {k, None} /\ UNCHANGED <<coupon, red, recount, mixed, mixes>>
          /\ \/ call'[c].at = "idle"
             \/ call'[c].at = "unslot" /\ red[k] = "bumping" /\ coupon.witness = k
             \/ call'[c].at = "unslot" /\ call'[c].saw = red[k]
      BY <2>0, <2>14, RereadDoes, EndedAt DEF Moved, Key
    <3>2. Returns(c)' => red[k] = "applied" \/ Pending(k) \/ k \in mixed
      BY <3>1 DEF Returns, Pending, Counted
    <3>3. call'[c].at \notin {"dec", "finish"}
      BY <3>1
    <3> QED BY <1>u, <2>1, <3>1, <3>2, <3>3, CalmSame
  <2>15. CASE Unslot(c)
    <3>1. /\ Others(c) /\ call'[c].key = k /\ UNCHANGED <<coupon, red, recount, mixed, mixes>>
          /\ call[c].at = "unslot"
          /\ call'[c].at = "delete" /\ call'[c].saw = call[c].saw
      BY <2>0, <2>15, UnslotDoes DEF Moved, Key
    <3>2. Returns(c)' => Returns(c)
      BY <3>1 DEF Returns
    <3> QED BY <1>u, <2>0, <2>1, <3>1, <3>2, CalmSame
  <2>16. CASE Delete(c)
    <3>0. call[c].at = "delete" /\ coupon' = coupon /\ mixed' = mixed \ {k} /\ mixes' = mixes
      BY <2>0, <2>16, DeleteDoes
    <3>1. CASE /\ red[k] # "none" /\ Record(k, "none") /\ LooksBut(recount.owed) /\ call[c].saw = "applied"
               /\ Moved(c, "dec", call[c].saw, call[c].bumped, call[c].takeOver)
      BY <2>0, <3>0, <3>1, DeleteKeepsCounter DEF Returns
    <3>2. CASE red[k] # "none" /\ Record(k, "none") /\ LooksBut(recount.owed) /\ Ended(c)
      <4>1. Others(c) /\ call'[c].key = None /\ call'[c].at = "idle"
        BY <3>2, EndedAt
      <4>2. red'[k] = "none" /\ \A x \in Keys : x # k => red'[x] = red[x]
        BY <3>2, RecordOn DEF States
      <4>3. \A d \in Callers : d # c => call'[d] = call[d]
        BY <4>1 DEF Others
      <4>4. ~Pending(k)' /\ ~InUse(k)'
        BY <3>0, <4>2 DEF Pending, InUse
      <4>5. \A x \in Keys : x # k => (Pending(x)' => Pending(x)) /\ (InUse(x)' => InUse(x))
        BY <2>1, <3>0, <4>1, <4>2, OtherKeys
      <4>6. Owed' \subseteq Owed /\ Owed' \ recount.owed \subseteq Owed \ recount.owed
        BY <4>1, <4>3 DEF Owed
      <4>7. ASSUME Surely PROVE Surely'
        <5>1. ASSUME NEW d \in Callers, Returns(d)'
              PROVE d # c /\ Returns(d) /\ call'[d].key = Key(d) /\ Key(d) \in Keys
          <6>1. d # c
            BY <4>1, <5>1 DEF Returns
          <6> QED BY <4>3, <5>1, <6>1 DEF Returns, Key, CallShape, ShapeOf, Busy
        <5>2. \A d \in Callers : Returns(d)' =>
                /\ red[Key(d)] \in {"applied", "none"} => red'[Key(d)] \in {"applied", "none"}
                /\ Key(d) \in mixed => Key(d) \in mixed' \/ red'[Key(d)] = "none"
          BY <3>0, <4>2, <5>1
        <5>3. recount'.owed = recount.owed
          BY <3>2 DEF LooksBut
        <5> QED BY <4>7, <5>1, <5>2, <5>3, SureOn
      <4> QED BY <3>0, <3>2, <4>2, <4>4, <4>5, <4>6, <4>7, CalmStep
    <3>3. CASE red[k] = "none" /\ red' = red /\ Ended(c) /\ LooksBut(recount.owed \ {c})
      <4>1. Others(c) /\ call'[c].key = None /\ call'[c].at = "idle"
        BY <3>3, EndedAt
      <4>2. \A d \in Callers : d # c => call'[d] = call[d]
        BY <4>1 DEF Others
      <4>3. ~Pending(k)' /\ ~InUse(k)'
        BY <3>0, <3>3 DEF Pending, InUse
      <4>4. \A x \in Keys : x # k => (Pending(x)' => Pending(x)) /\ (InUse(x)' => InUse(x))
        BY <2>1, <3>0, <3>3, <4>1, OtherKeys
      <4>5. /\ Owed' \subseteq Owed
            /\ Owed' \ (recount.owed \ {c}) \subseteq Owed \ recount.owed
        BY <4>1, <4>2 DEF Owed
      <4>6. ASSUME Surely PROVE Surely'
        <5> SUFFICES ASSUME NEW d \in Callers, Returns(d)', d \notin recount'.owed
                     PROVE red'[call'[d].key] \in {"applied", "none"} \/ call'[d].key \in mixed'
          BY DEF Surely, Sure, Key
        <5>1. d # c
          BY <4>1 DEF Returns
        <5>2. Returns(d) /\ call'[d].key = Key(d) /\ d \notin recount.owed
          BY <3>3, <4>2, <5>1 DEF Returns, Key, LooksBut
        <5>3. Sure(d)
          BY <4>6, <5>2 DEF Surely
        <5> QED BY <3>0, <3>3, <5>2, <5>3 DEF Sure
      <4> QED BY <3>0, <3>3, <4>3, <4>4, <4>5, <4>6, CalmStep
    <3> QED BY <2>0, <2>16, <3>1, <3>2, <3>3, DeleteDoes
  <2>17. CASE Dec(c)
    BY <2>17, DecKeepsCounter
  <2> QED BY <1>4, <2>3, <2>4, <2>5, <2>6, <2>7, <2>8, <2>9, <2>10, <2>11, <2>12, <2>13,
             <2>14, <2>15, <2>16, <2>17 DEF Step
<1> QED BY <1>1, <1>2, <1>3, <1>4 DEF CallAct

\* The counter counts every use that is held, owed or not recorded yet, and a look that is kept
\* misses none, but for the redemptions that may be mixed up.
CountInv == AllFresh /\ Mixing /\ Counter /\ (raced = {} => BumpIsMine)

\* CountInv holds at first and after every step.
THEOREM CountInvHolds == Spec => []CountInv
<1>1. Init => CountInv
  <2> SUFFICES ASSUME Init PROVE AllFresh /\ Mixing /\ Counter /\ BumpIsMine
    BY DEF CountInv
  <2>1. \A c \in Callers : call[c] = Idle
    BY DEF Init
  <2>2. AllFresh
    BY <2>1, IdleFields, NoneAssumption DEF Init, AllFresh, Fresh, Key
  <2>3. BumpIsMine
    BY <2>1, IdleFields DEF BumpIsMine
  <2>4. Used = {} /\ Owed = {}
    BY <2>1, IdleFields DEF Init, Used, InUse, Pending, Owed
  <2>5. coupon.uses = 0 /\ mixes = 0 /\ (coupon.max # None => coupon.max \in Nat)
    BY LimitAssumption DEF Init
  <2>9. Mixing
    BY FS_EmptySet DEF Init, Mixing
  <2>6. Lower
    BY <2>4, <2>5, FS_EmptySet DEF Lower
  <2>7. Cap
    BY <2>4, <2>5, FS_EmptySet DEF Cap
  <2>8. Looks
    BY DEF Init, NoRecount, Looks
  <2> QED BY <2>2, <2>3, <2>6, <2>7, <2>8, <2>9 DEF Counter
<1>2. IInv /\ IInv' /\ CountInv /\ [Next]_vars => CountInv'
  <2> SUFFICES ASSUME IInv, IInv', CountInv, [Next]_vars
               PROVE /\ (AllFresh /\ Mixing /\ Counter)'
                     /\ raced' = {} => BumpIsMine'
    BY DEF CountInv
  <2>0. TypeOK /\ Finite /\ CallShape /\ TypeOK' /\ Finite' /\ CallShape'
    BY DEF IInv
  <2>c. AllFresh /\ Mixing /\ Counter /\ (raced = {} => BumpIsMine)
    BY DEF CountInv
  <2>1. ASSUME NEW c \in Callers, CallAct(c)
        PROVE (AllFresh /\ Mixing /\ Counter)' /\ (raced' = {} => BumpIsMine')
    <3>1. AllFresh' /\ Mixing'
      BY <2>0, <2>1, <2>c, CallKeepsFresh, CallKeepsMixing
    <3>2. Counter'
      BY <2>0, <2>1, <2>c, <3>1, CallKeepsCounter
    <3>3. ASSUME raced' = {} PROVE BumpIsMine'
      <4>1. raced = {} /\ mixed = {}
        BY <2>0, <2>1, <2>c, <3>3, RacedGrows DEF Mixing
      <4> QED BY <2>0, <2>1, <2>c, <4>1, CallKeepsBump
    <3> QED BY <3>1, <3>2, <3>3
  <2>2. CASE RecountAct
    <3>1. /\ UNCHANGED <<red, holder, lapsed, call, gone, raced, mixed, mixes>>
          /\ coupon'.witness = coupon.witness
      BY <2>0, <2>2, RecountDoes DEF TypeOK
    <3>2. AllFresh' /\ Mixing' /\ (BumpIsMine' <=> BumpIsMine)
      BY <2>c, <3>1 DEF AllFresh, Fresh, Mixing, Unbegun, BumpIsMine, Mine, Key
    <3> QED BY <2>0, <2>2, <2>c, <3>1, <3>2, RecountKeepsCounter
  <2>3. ASSUME NEW k \in Keys, Lapse(k)
        PROVE (AllFresh /\ Mixing /\ Counter)' /\ (raced' = {} => BumpIsMine')
    <3>1. UNCHANGED <<coupon, red, call, recount, gone, raced, mixed, mixes>>
      BY <2>0, <2>3, LapseDoes
    <3>2. UNCHANGED <<Applied, Kept, Used, Owed, Settled, Surely>>
      BY <3>1 DEF Applied, Kept, Used, InUse, Pending, Counted, Returns, Owed, Settled, Surely,
         Sure, Key
    <3>3. KeptLook' <=> KeptLook
      BY <3>1, <3>2 DEF KeptLook
    <3>4. AllFresh' /\ Mixing'
      BY <2>c, <3>1 DEF AllFresh, Fresh, Mixing, Unbegun, Key
    <3>5. (Lower /\ Cap)'
      BY <2>c, <3>1, <3>2 DEF Counter, Lower, Cap
    <3>6. Looks'
      BY <2>c, <3>1, <3>2, <3>3 DEF Counter, Looks
    <3>7. ASSUME BumpIsMine PROVE BumpIsMine'
      BY <2>0, <2>3, <3>7, LapseDoes DEF BumpIsMine, Mine, Key
    <3> QED BY <2>c, <3>1, <3>4, <3>5, <3>6, <3>7 DEF Counter
  <2>4. CASE UNCHANGED vars
    <3>1. UNCHANGED <<coupon, red, holder, lapsed, call, recount, gone, raced, mixed, mixes>>
      BY <2>4 DEF vars, docs, redemption, history
    <3>2. UNCHANGED <<Applied, Kept, Used, Owed, Settled, Surely>>
      BY <3>1 DEF Applied, Kept, Used, InUse, Pending, Counted, Returns, Owed, Settled, Surely,
         Sure, Key
    <3>3. KeptLook' <=> KeptLook
      BY <3>1, <3>2 DEF KeptLook
    <3>4. AllFresh' /\ Mixing' /\ (BumpIsMine' <=> BumpIsMine)
      BY <2>c, <3>1 DEF AllFresh, Fresh, Mixing, Unbegun, BumpIsMine, Mine, Key
    <3>5. (Lower /\ Cap)' /\ Looks'
      BY <2>c, <3>1, <3>2, <3>3 DEF Counter, Lower, Cap, Looks
    <3> QED BY <2>c, <3>1, <3>4, <3>5 DEF Counter
  <2> QED BY <2>1, <2>2, <2>3, <2>4, NextActs
<1> QED BY <1>1, <1>2, Inductive, PTL DEF Spec

LEMMA NeverLowIn ==
  ASSUME IInv, CountInv PROVE NeverLow /\ NoOverRedeem
<1>1. Lower /\ Cap
  BY DEF CountInv, Counter
<1>2. /\ Cardinality(Applied) <= Cardinality(Used) /\ Cardinality(Used) \in Nat /\ mixes \in Nat
      /\ Cardinality(Applied) \in Nat /\ Cardinality(Owed) \in Nat /\ coupon.uses \in Nat
  BY Sizes DEF IInv, CountInv
<1>3. coupon.max # None => coupon.max \in Nat
  BY NoneAssumption DEF IInv, TypeOK
<1>4. NeverLow
  BY <1>1, <1>2 DEF Lower, NeverLow, Owed
<1>5. NoOverRedeem
  BY <1>1, <1>2, <1>3 DEF Cap, NoOverRedeem
<1> QED BY <1>4, <1>5

\* The counter never runs below the uses held and the uses still to be given back by more than
\* the redemptions that could be mixed up with an earlier one of their key, whatever callers die
\* or stall, whatever is released and redeemed again, and whenever it is recounted.
THEOREM NeverLowHolds == Spec => []NeverLow
BY Inductive, CountInvHolds, NeverLowIn, PTL

\* A capped coupon is held by more redemptions than its cap only by those that could be mixed up
\* with an earlier one of their key.
THEOREM NoOverRedeemHolds == Spec => []NoOverRedeem
BY Inductive, CountInvHolds, NeverLowIn, PTL

-----------------------------------------------------------------------------
(* How high the counter may run: a key under release has one call *)

\* What a call that is under way knows when nobody raced a release.
OwnAlone(c) ==
  /\ call[c].op = "redeem" => Key(c) \notin gone
  /\ call[c].at \in {"unslot", "delete"} /\ red[Key(c)] = "applied" => call[c].saw = "applied"
  /\ red[Key(c)] = "none" => call[c].at = "dec"
\* A key that is being released has no other call.
Alone ==
  \A c \in Callers : Busy(c) =>
    OwnAlone(c) /\ (Key(c) \in gone => \A d \in Callers : Key(d) = Key(c) => d = c)

LEMMA AloneFrame ==
  ASSUME TypeOK, TypeOK', CallShape, CallShape', Alone, NEW c \in Callers, NEW k \in Keys,
         Others(c),
         call[c].key \in {k, None}, call'[c].key \in {k, None},
         \A x \in Keys : x # k => red'[x] = red[x] /\ (x \in gone' => x \in gone),
         k \in gone' => \A d \in Callers \ {c} : Key(d) # k,
         red'[k] = "none" => k \in gone',
         call'[c].key = k => OwnAlone(c)'
  PROVE Alone'
<1> SUFFICES ASSUME NEW d \in Callers, Busy(d)'
             PROVE /\ OwnAlone(d)'
                   /\ call'[d].key \in gone' => \A e \in Callers : call'[e].key = call'[d].key => e = d
  BY DEF Alone, Key
<1>1. call'[d].key \in Keys /\ ShapeOf(d)'
  BY DEF CallShape, ShapeOf, Busy, Key
<1>2. None \notin Keys
  BY NoneAssumption
<1>3. \A e \in Callers : e # c => call'[e] = call[e]
  BY DEF Others
<1>4. CASE d = c
  BY <1>1, <1>2, <1>3, <1>4 DEF Key
<1>5. CASE d # c /\ call'[d].key = k
  <2>1. k \notin gone' /\ red'[k] # "none"
    BY <1>3, <1>5 DEF Key
  <2>2. call'[d].op # "release"
    BY <1>1, <1>5, <2>1 DEF ShapeOf, Key
  <2>3. call'[d].op = "redeem"
    <3>1. call'[d].op \in {"none", "redeem", "release"}
      BY DEF TypeOK, Call
    <3> QED BY <1>1, <2>2, <3>1 DEF ShapeOf
  <2>4. call'[d].at \notin {"unslot", "delete"}
    BY <1>1, <2>3 DEF ShapeOf
  <2> QED BY <1>5, <2>1, <2>4 DEF OwnAlone, Key
<1>6. CASE d # c /\ call'[d].key # k
  <2>1. call'[d] = call[d] /\ Busy(d) /\ Key(d) \in Keys /\ Key(d) # k
    BY <1>1, <1>3, <1>6 DEF Busy, Key
  <2>2. OwnAlone(d) /\ (Key(d) \in gone => \A e \in Callers : Key(e) = Key(d) => e = d)
    BY <2>1 DEF Alone
  <2>3. red'[Key(d)] = red[Key(d)] /\ (Key(d) \in gone' => Key(d) \in gone)
    BY <2>1
  <2>4. OwnAlone(d)'
    BY <2>1, <2>2, <2>3 DEF OwnAlone, Key
  <2>5. \A e \in Callers : call'[e].key = Key(d) => Key(e) = Key(d)
    BY <1>2, <1>3, <2>1 DEF Key
  <2> QED BY <2>1, <2>2, <2>3, <2>4, <2>5 DEF Key
<1> QED BY <1>4, <1>5, <1>6

\* What a step of a call under way leaves of its key.
LEMMA StepOn ==
  ASSUME TypeOK, CallShape, NEW c \in Callers, Step(c), NEW k \in Keys, k = Key(c)
  PROVE /\ Others(c) /\ gone' = gone
        /\ call'[c].key \in {k, None}
        /\ call'[c].key = k => call'[c].op = call[c].op
        /\ \A x \in Keys : x # k => red'[x] = red[x]
        /\ red'[k] = "none" => red[k] = "none" \/ (call[c].at = "delete" /\ call'[c].at \in {"idle", "dec"})
        /\ call'[c].at = "delete" => call[c].at = "unslot" /\ call'[c].saw = call[c].saw /\ red' = red
        /\ call'[c].at = "unslot" => red' = red /\ (red[k] = "applied" => call'[c].saw = "applied")
<1>0. Busy(c) /\ ShapeOf(c)
  BY StepKey
<1>1. CASE Slot(c)
  BY <1>1, SlotDoes DEF Moved, Key
<1>2. CASE Right(c)
  BY <1>2, RightDoes DEF Moved, Key, TypeOK
<1>3. CASE Await(c)
  <2>1. CASE Answered(c, red[Key(c)])
    <3>1. call'[c].key = k => call'[c].op = call[c].op
      BY <2>1, NoneAssumption, IdleFields DEF Answered, Moved, Ended
    <3> QED BY <1>3, <2>1, <3>1, AwaitDoes, AnsweredAt
  <2>2. CASE Moved(c, "slot", call[c].saw, call[c].bumped, TRUE)
    <3>1. Others(c) /\ call'[c].key = k /\ call'[c].op = call[c].op /\ call'[c].at = "slot"
      BY <2>2, Zenon DEF Moved, Key
    <3> QED BY <1>3, <3>1, AwaitDoes
  <2> QED BY <1>3, <2>1, <2>2, AwaitDoes
<1>4. CASE Witness(c)
  BY <1>4, WitnessDoes DEF Moved, Key
<1>5. CASE Beat(c)
  BY <1>5, BeatDoes DEF Moved, Key
<1>6. CASE Bump(c)
  BY <1>6, BumpDoes DEF Moved, Key
<1>7. CASE Compensate(c)
  BY <1>7, CompensateDoes DEF Moved, Key
<1>8. CASE Finish(c)
  <2>1. call[c].saw \in Answers
    BY <1>0, <1>8, FinishDoes DEF ShapeOf, Finish
  <2>2. PICK a : Answered(c, a)
    BY <1>8, FinishDoes
  <2>3. Others(c) /\ call'[c].key \in {k, None} /\ call'[c].at \in {"reread", "free", "idle"}
    BY <2>2, AnsweredAt
  <2>4. call'[c].key = k => call'[c].op = call[c].op
    BY <2>2, NoneAssumption, IdleFields DEF Answered, Moved, Ended
  <2>5. (\A x \in Keys : x # k => red'[x] = red[x]) /\ (red'[k] = "none" => red[k] = "none")
    BY <1>8, <2>1, FinishDoes, RecordOn DEF Answers, States
  <2> QED BY <1>8, <2>3, <2>4, <2>5, FinishDoes
<1>9. CASE Answer(c)
  BY <1>9, AnswerDoes, AnsweredAt, NoneAssumption, IdleFields DEF Answered, Moved, Ended
<1>10. CASE Free(c)
  BY <1>10, FreeDoes, EndedAt, NoneAssumption
<1>11. CASE Contend(c)
  BY <1>11, ContendDoes, EndedAt, NoneAssumption DEF Moved, Key
<1>12. CASE Reread(c)
  BY <1>0, <1>12, RereadDoes, EndedAt, NoneAssumption DEF Moved, Key, ShapeOf
<1>13. CASE Unslot(c)
  BY <1>13, UnslotDoes DEF Moved, Key
<1>14. CASE Delete(c)
  <2>1. /\ call[c].at = "delete" /\ gone' = gone /\ Others(c) /\ call'[c].key \in {k, None}
        /\ call'[c].at \in {"idle", "dec"} /\ (call'[c].key = k => call'[c].op = call[c].op)
    BY <1>14, DeleteDoes, EndedAt, NoneAssumption DEF Moved, Key
  <2>2. \A x \in Keys : x # k => red'[x] = red[x]
    BY <1>14, DeleteDoes, RecordOn DEF States
  <2> QED BY <2>1, <2>2
<1>15. CASE Dec(c)
  BY <1>15, DecDoes, EndedAt, NoneAssumption
<1> QED BY <1>1, <1>2, <1>3, <1>4, <1>5, <1>6, <1>7, <1>8, <1>9, <1>10, <1>11, <1>12, <1>13, <1>14,
           <1>15
        DEF Step

LEMMA CallKeepsAlone ==
  ASSUME TypeOK, TypeOK', CallShape, CallShape', Alone, NEW c \in Callers, CallAct(c), raced' = {}
  PROVE Alone'
<1>1. ASSUME NEW k \in Keys, Redeem(c, k) PROVE Alone'
  <2>1. k \notin gone
    BY <1>1, RacedGrows
  <2>2. /\ call[c].key = None /\ call'[c].key = k /\ Others(c) /\ gone' = gone
        /\ call'[c].at \in {"slot", "await"}
    BY <1>1, RedeemDoes, IdleFields DEF Began
  <2>3. (\A x \in Keys : x # k => red'[x] = red[x]) /\ red'[k] # "none"
    BY <1>1, RedeemDoes DEF TypeOK
  <2>4. OwnAlone(c)'
    BY <2>1, <2>2, <2>3 DEF OwnAlone, Key
  <2> QED BY <2>1, <2>2, <2>3, <2>4, AloneFrame
<1>2. ASSUME NEW k \in Keys, Release(c, k) PROVE Alone'
  <2>1. \A d \in Callers : Key(d) # k
    BY <1>2, RacedGrows
  <2>2. /\ call[c].key = None /\ call'[c].key = k /\ Others(c) /\ gone' = gone \cup {k}
        /\ red' = red
        /\ red[k] # "none" /\ call'[c].saw = red[k] /\ call'[c].op = "release"
    BY <1>2, ReleaseDoes, IdleFields DEF Began
  <2>3. OwnAlone(c)'
    BY <2>2 DEF OwnAlone, Key
  <2> QED BY <2>1, <2>2, <2>3, AloneFrame
<1>3. CASE Crash(c)
  <2>1. PICK k \in Keys : k = Key(c)
    BY <1>3, CrashDoes DEF CallShape, ShapeOf, Busy
  <2>2. Busy(c)
    BY <1>3, CrashDoes DEF CallShape, ShapeOf
  <2>3. Others(c) /\ call'[c].key = None /\ gone' = gone /\ red' = red
    BY <1>3, CrashDoes, EndedAt
  <2>4. k \in gone => \A d \in Callers \ {c} : Key(d) # k
    BY <2>1, <2>2 DEF Alone
  <2>5. red[k] = "none" => k \in gone
    BY <2>1, <2>2 DEF CallShape, ShapeOf
  <2> QED BY <2>1, <2>3, <2>4, <2>5, AloneFrame, NoneAssumption DEF Key
<1>4. CASE Step(c)
  <2>1. PICK k \in Keys : k = Key(c)
    BY <1>4, StepKey
  <2>2. Busy(c) /\ ShapeOf(c) /\ OwnAlone(c)
    BY <1>4, StepKey DEF Alone
  <2>3. k \in gone => \A d \in Callers \ {c} : Key(d) # k
    BY <2>1, <2>2 DEF Alone
  <2>4. red'[k] = "none" => k \in gone
    <3>1. call[c].at = "delete" => call[c].op = "release"
      BY <2>2 DEF ShapeOf, TypeOK, Call
    <3> QED BY <1>4, <2>1, <2>2, <3>1, StepOn DEF ShapeOf
  <2>5. call'[c].key = k => OwnAlone(c)'
    <3> SUFFICES ASSUME call'[c].key = k PROVE OwnAlone(c)'
      OBVIOUS
    <3>1. call'[c].op = call[c].op /\ gone' = gone
      BY <1>4, <2>1, StepOn
    <3>2. call'[c].at \in {"unslot", "delete"} /\ red'[k] = "applied" => call'[c].saw = "applied"
      BY <1>4, <2>1, <2>2, StepOn DEF OwnAlone
    <3>3. call'[c].at # "idle"
      <4>1. Busy(c)'
        BY NoneAssumption, IdleFields DEF CallShape, ShapeOf, Key
      <4> QED BY <4>1 DEF Busy
    <3>4. red'[k] = "none" /\ red[k] # "none" => call'[c].at = "dec"
      BY <1>4, <2>1, <3>3, StepOn
    <3>5. red[k] = "none" => call[c].at = "dec"
      BY <2>1, <2>2 DEF OwnAlone
    <3>6. call[c].at # "dec"
      <4> SUFFICES ASSUME call[c].at = "dec" PROVE FALSE
        OBVIOUS
      <4>1. Dec(c)
        BY <1>4 DEF Step, Slot, Right, Await, Witness, Beat, Bump, Compensate, Finish, Answer, Free,
               Contend, Reread, Unslot, Delete
      <4> QED BY <3>3, <4>1, DecDoes, EndedAt
    <3> QED BY <2>1, <2>2, <3>1, <3>2, <3>4, <3>5, <3>6 DEF OwnAlone, Key
  <2>6. gone' = gone /\ Others(c) /\ call'[c].key \in {k, None} /\ \A x \in Keys : x # k => red'[x] = red[x]
    BY <1>4, <2>1, StepOn
  <2>7. call[c].key \in {k, None}
    BY <2>1 DEF Key
  <2> QED BY <2>3, <2>4, <2>5, <2>6, <2>7, AloneFrame
<1> QED BY <1>1, <1>2, <1>3, <1>4 DEF CallAct

\* The counter owes k a use: it is recorded, or its owner is about to record it, or the owner
\* finds it refused; and nobody is at the counter for it.
Weighs(k) ==
  /\ \/ red[k] = "applied"
     \/ \E c \in Callers : /\ Key(c) = k /\ call[c].bumped
                           /\ holder[k] = c \/ red[k] \in {"exhausted", "capped"}
  /\ \A c \in Callers : Key(c) = k => call[c].at # "bump"
Held == {k \in Keys : Weighs(k)}
Weight == Cardinality(Held) + Cardinality(Owed) + seams
Upper ==
  /\ coupon.uses <= Weight
  /\ recount.at = "write" /\ recount.held => recount.seenLive <= Weight

LEMMA SizeButOne ==
  ASSUME NEW T, IsFiniteSet(T), NEW x, NEW S, S \subseteq T \cup {x}
  PROVE IsFiniteSet(S) /\ Cardinality(S) <= Cardinality(T) + 1 /\ Cardinality(S) \in Nat
        /\ Cardinality(T) \in Nat
<1>1. /\ IsFiniteSet(T \cup {x}) /\ Cardinality(T \cup {x}) <= Cardinality(T) + 1
      /\ Cardinality(T) \in Nat
  BY FS_AddElement, FS_CardinalityType
<1>2. IsFiniteSet(S) /\ Cardinality(S) <= Cardinality(T \cup {x}) /\ Cardinality(S) \in Nat
      /\ Cardinality(T \cup {x}) \in Nat
  BY <1>1, FS_Subset, FS_CardinalityType
<1> QED BY <1>1, <1>2

LEMMA WeightSizes ==
  ASSUME TypeOK, Finite
  PROVE /\ Held \subseteq Standing
        /\ IsFiniteSet(Held) /\ IsFiniteSet(Owed) /\ Cardinality(Held) \in Nat
        /\ Cardinality(Owed) \in Nat
        /\ seams \in Nat /\ coupon.uses \in Nat /\ recount.seenLive \in Nat
<1>1. \A k \in Keys : Weighs(k) => red[k] # "none"
  BY NoneAssumption DEF TypeOK, Weighs
<1>2. Held \subseteq Standing
  BY <1>1 DEF Held, Standing
<1>3. IsFiniteSet(Held) /\ Cardinality(Held) \in Nat
  BY <1>2, SizeMonotone DEF Finite
<1>4. IsFiniteSet(Owed) /\ Cardinality(Owed) \in Nat
  <2>1. Owed \subseteq Active
    BY DEF Owed, Active, Busy
  <2> QED BY <2>1, SizeMonotone DEF Finite
<1>5. seams \in Nat /\ coupon.uses \in Nat /\ recount.seenLive \in Nat
  BY DEF TypeOK, Recount
<1> QED BY <1>2, <1>3, <1>4, <1>5

LEMMA WeightStep ==
  ASSUME TypeOK, Finite, TypeOK', Finite', NEW k, NEW c,
         \/ Held \subseteq Held' /\ Owed \subseteq Owed' /\ seams <= seams'
         \/ Held \subseteq Held' \cup {k} /\ Owed \subseteq Owed' /\ seams + 1 <= seams'
         \/ Held \subseteq Held' \cup {k} /\ c \notin Owed /\ Owed \cup {c} \subseteq Owed' /\ seams <= seams'
         \/ Held \subseteq Held' /\ Owed \subseteq Owed' \cup {c} /\ seams + 1 <= seams'
  PROVE Weight <= Weight' /\ Weight \in Nat /\ Weight' \in Nat
<1>1. /\ IsFiniteSet(Held) /\ IsFiniteSet(Owed) /\ Cardinality(Held) \in Nat
      /\ Cardinality(Owed) \in Nat
      /\ seams \in Nat
  BY WeightSizes
<1>2. Held' \subseteq Standing'
  <2>1. \A x \in Keys : Weighs(x)' => red'[x] # "none"
    BY NoneAssumption DEF TypeOK, Weighs
  <2> QED BY <2>1 DEF Held, Standing
<1>3. IsFiniteSet(Held') /\ Cardinality(Held') \in Nat
  BY <1>2, SizeMonotone DEF Finite
<1>4. Owed' \subseteq Active'
  BY DEF Owed, Active, Busy
<1>5. IsFiniteSet(Owed') /\ Cardinality(Owed') \in Nat
  BY <1>4, SizeMonotone DEF Finite
<1>6. seams' \in Nat
  BY DEF TypeOK
<1>7. Weight \in Nat /\ Weight' \in Nat
  BY <1>1, <1>3, <1>5, <1>6 DEF Weight
<1>8. CASE Held \subseteq Held' /\ Owed \subseteq Owed' /\ seams <= seams'
  <2>1. Cardinality(Held) <= Cardinality(Held') /\ Cardinality(Owed) <= Cardinality(Owed')
    BY <1>3, <1>5, <1>8, SizeMonotone
  <2> QED BY <1>1, <1>3, <1>5, <1>6, <1>7, <1>8, <2>1 DEF Weight
<1>9. CASE Held \subseteq Held' \cup {k} /\ Owed \subseteq Owed' /\ seams + 1 <= seams'
  <2>1. Cardinality(Held) <= Cardinality(Held') + 1 /\ Cardinality(Owed) <= Cardinality(Owed')
    BY <1>3, <1>5, <1>9, SizeMonotone, SizeButOne
  <2> QED BY <1>1, <1>3, <1>5, <1>6, <1>7, <1>9, <2>1 DEF Weight
<1>10. CASE Held \subseteq Held' \cup {k} /\ c \notin Owed /\ Owed \cup {c} \subseteq Owed' /\ seams <= seams'
  <2>1. Cardinality(Held) <= Cardinality(Held') + 1
    BY <1>3, <1>10, SizeButOne
  <2>2. Cardinality(Owed \cup {c}) = Cardinality(Owed) + 1
    BY <1>1, <1>10, FS_AddElement
  <2>3. Cardinality(Owed \cup {c}) <= Cardinality(Owed')
    BY <1>5, <1>10, SizeMonotone
  <2> QED BY <1>1, <1>3, <1>5, <1>6, <1>7, <1>10, <2>1, <2>2, <2>3 DEF Weight
<1>11. CASE Held \subseteq Held' /\ Owed \subseteq Owed' \cup {c} /\ seams + 1 <= seams'
  <2>1. Cardinality(Held) <= Cardinality(Held') /\ Cardinality(Owed) <= Cardinality(Owed') + 1
    BY <1>3, <1>5, <1>11, SizeMonotone, SizeButOne
  <2> QED BY <1>1, <1>3, <1>5, <1>6, <1>7, <1>11, <2>1 DEF Weight
<1> QED BY <1>7, <1>8, <1>9, <1>10, <1>11

\* A step of one call disturbs the weight of its own key alone.
LEMMA OtherWeights ==
  ASSUME TypeOK, NEW c \in Callers, NEW k \in Keys, Others(c), call[c].key \in {k, None},
         call'[c].key \in {k, None},
         \A x \in Keys : x # k => red'[x] = red[x] /\ (holder'[x] = holder[x] \/ holder[x] = c)
  PROVE /\ Held \subseteq Held' \cup {k}
        /\ (Weighs(k) => Weighs(k)') => Held \subseteq Held'
<1>1. ASSUME NEW x \in Keys, x # k, Weighs(x) PROVE Weighs(x)'
  <2>1. None # x
    BY NoneAssumption
  <2>2. \A d \in Callers : Key(d) = x => d # c /\ call'[d] = call[d]
    BY <1>1, <2>1 DEF Others, Key
  <2>3. \A d \in Callers : call'[d].key = x => d # c /\ call'[d] = call[d]
    BY <1>1, <2>1 DEF Others
  <2>4. red'[x] = red[x] /\ \A d \in Callers : d # c /\ holder[x] = d => holder'[x] = d
    BY <1>1
  <2>5. \A d \in Callers : call'[d].key = x => call'[d].at # "bump"
    BY <1>1, <2>3 DEF Weighs, Key
  <2>6. \/ red'[x] = "applied"
        \/ \E d \in Callers : /\ call'[d].key = x /\ call'[d].bumped
                              /\ holder'[x] = d \/ red'[x] \in {"exhausted", "capped"}
    BY <1>1, <2>2, <2>4 DEF Weighs, Key
  <2> QED BY <2>5, <2>6 DEF Weighs, Key
<1> QED BY <1>1 DEF Held

\* A call that has not moved the counter, and is not about to.
LEMMA CalmWeight ==
  ASSUME TypeOK, NEW c \in Callers, NEW k \in Keys, Others(c), call[c].key \in {k, None},
         call'[c].key \in {k, None},
         \A x \in Keys : holder'[x] = holder[x] \/ holder[x] = c,
         \A x \in Keys : x # k => red'[x] = red[x],
         red'[k] = red[k] \/ red[k] = "none",
         ~call[c].bumped, call'[c].at # "bump"
  PROVE Held \subseteq Held'
<1>1. \A d \in Callers : d # c => call'[d] = call[d]
  BY DEF Others
<1>2. ASSUME Weighs(k) PROVE Weighs(k)'
  <2>1. red'[k] = red[k]
    BY <1>2, NoneAssumption DEF Weighs, TypeOK
  <2>2. \A d \in Callers : call'[d].key = k => call'[d].at # "bump"
    BY <1>1, <1>2 DEF Weighs, Key
  <2>3. \/ red'[k] = "applied"
        \/ \E d \in Callers : /\ call'[d].key = k /\ call'[d].bumped
                              /\ holder'[k] = d \/ red'[k] \in {"exhausted", "capped"}
    BY <1>1, <1>2, <2>1 DEF Weighs, Key
  <2> QED BY <2>2, <2>3 DEF Weighs, Key
<1> QED BY <1>2, OtherWeights

\* The step leaves the counter and the recount's verdict.
LEMMA UpperStep ==
  ASSUME TypeOK, TypeOK', Upper, coupon' = coupon, Weight <= Weight', Weight \in Nat,
         Weight' \in Nat,
         recount'.at = recount.at /\ (recount'.held => recount.held) /\ recount'.seenLive = recount.seenLive
  PROVE Upper'
<1>1. coupon.uses \in Nat /\ recount.seenLive \in Nat
  BY DEF TypeOK, Recount
<1> QED BY <1>1 DEF Upper

LEMMA CalmUpper ==
  ASSUME TypeOK, Finite, TypeOK', Finite', Upper, NEW c \in Callers, NEW k \in Keys, Others(c),
         call[c].key \in {k, None}, call'[c].key \in {k, None},
         \A x \in Keys : holder'[x] = holder[x] \/ holder[x] = c,
         \A x \in Keys : x # k => red'[x] = red[x],
         red'[k] = red[k] \/ red[k] = "none",
         ~call[c].bumped, call'[c].at # "bump", call[c].at # "dec", seams' = seams,
         coupon' = coupon,
         recount'.at = recount.at /\ (recount'.held => recount.held) /\ recount'.seenLive = recount.seenLive
  PROVE Upper'
<1>1. Held \subseteq Held'
  BY CalmWeight
<1>2. Owed \subseteq Owed'
  BY DEF Owed, Others
<1>3. seams <= seams'
  BY DEF TypeOK
<1> QED BY <1>1, <1>2, <1>3, WeightStep, UpperStep

\* Taking the right over from an owner that had moved the counter is a seam.
LEMMA RightKeepsUpper ==
  ASSUME TypeOK, Finite, TypeOK', Finite', CallShape, Upper, NEW c \in Callers, NEW k \in Keys,
         k = Key(c), Right(c)
  PROVE Upper'
<1>1. /\ call[c].at = "right" /\ Others(c) /\ call'[c].key = k /\ call'[c].at # "bump"
      /\ ~call[c].bumped
      /\ coupon' = coupon /\ recount' = recount
  BY RightDoes DEF Moved, Key, CallShape, ShapeOf
<1>2. Owed \subseteq Owed'
  BY <1>1 DEF Owed, Others
<1>3. CASE UNCHANGED <<red, holder, lapsed, seams>>
  BY <1>1, <1>3, CalmUpper DEF Key
<1>4. CASE /\ red[k] = "claimed" \/ (call[c].takeOver /\ k \in lapsed)
           /\ red' = [red EXCEPT ![k] = "bumping"]
           /\ holder' = [holder EXCEPT ![k] = c]
           /\ seams' = seams + Cardinality(Overtaken(k))
  <2>1. /\ \A x \in Keys : x # k => red'[x] = red[x] /\ holder'[x] = holder[x]
        /\ red[k] \in {"claimed", "bumping"}
    BY <1>4 DEF TypeOK
  <2>2. Held \subseteq Held' \cup {k}
    BY <1>1, <2>1, OtherWeights DEF Key
  <2>3. Overtaken(k) \subseteq Active
    BY DEF Overtaken, Active, CallShape, ShapeOf, Busy, Idle
  <2>4. IsFiniteSet(Overtaken(k)) /\ Cardinality(Overtaken(k)) \in Nat
    BY <2>3, SizeMonotone DEF Finite
  <2>5. CASE Weighs(k)
    <3>1. Overtaken(k) # {}
      BY <2>1, <2>5 DEF Weighs, Overtaken
    <3>2. Cardinality(Overtaken(k)) # 0
      BY <2>4, <3>1, FS_EmptySet
    <3>3. seams + 1 <= seams'
      BY <1>4, <2>4, <3>2 DEF TypeOK
    <3> QED BY <1>1, <1>2, <2>2, <3>3, WeightStep, UpperStep
  <2>6. CASE ~Weighs(k)
    <3>1. Held \subseteq Held'
      BY <1>1, <2>1, <2>6, OtherWeights DEF Key
    <3>2. seams <= seams'
      BY <1>4, <2>4 DEF TypeOK
    <3> QED BY <1>1, <1>2, <3>1, <3>2, WeightStep, UpperStep
  <2> QED BY <2>5, <2>6
<1> QED BY <1>3, <1>4, RightDoes

\* An owner passes its heartbeat only while its key is counted nowhere.
LEMMA BeatKeepsUpper ==
  ASSUME TypeOK, Finite, TypeOK', Finite', CallShape, Upper, NEW c \in Callers, NEW k \in Keys,
         k = Key(c), Beat(c)
  PROVE Upper'
<1>1. /\ call[c].at = "beat" /\ Others(c) /\ call'[c].key = k /\ ~call[c].bumped
      /\ UNCHANGED <<coupon, recount, red, holder, seams>>
  BY BeatDoes DEF Moved, Key, CallShape, ShapeOf
<1>2. CASE call'[c].at = "answer"
  BY <1>1, <1>2, CalmUpper DEF Key
<1>3. CASE Mine(c)
  <2>1. holder[k] = c /\ red[k] = "bumping"
    BY <1>3, NoneAssumption DEF Mine, TypeOK
  <2>2. ~Weighs(k)
    BY <1>1, <2>1 DEF Weighs
  <2>3. Held \subseteq Held'
    BY <1>1, <2>2, OtherWeights DEF Key
  <2>4. Owed \subseteq Owed' /\ seams <= seams'
    BY <1>1 DEF Owed, Others, TypeOK
  <2> QED BY <1>1, <2>3, <2>4, WeightStep, UpperStep
<1> QED BY <1>2, <1>3, BeatDoes DEF Moved

LEMMA BumpKeepsUpper ==
  ASSUME TypeOK, Finite, TypeOK', Finite', CallShape, AllFresh, Unmixed, BumpIsMine,
         Alone, Upper, NEW c \in Callers, NEW k \in Keys, k = Key(c), Bump(c)
  PROVE Upper'
<1>1. /\ call[c].at = "bump" /\ Others(c) /\ call'[c].key = k /\ ~call[c].bumped
      /\ call'[c].at # "bump"
      /\ UNCHANGED <<red, holder, seams>>
  BY BumpDoes DEF Moved, Key, CallShape, ShapeOf
<1>2. CASE UNCHANGED <<coupon, recount>>
  BY <1>1, <1>2, CalmUpper DEF Key
<1>3. CASE coupon'.uses = coupon.uses + 1 /\ ~recount'.held /\ call'[c].bumped
  <2>1. ~Weighs(k)
    BY <1>1 DEF Weighs
  <2>2. Held \subseteq Held'
    BY <1>1, <2>1, OtherWeights DEF Key
  <2>3. \A d \in Callers : d # c => call'[d] = call[d]
    BY <1>1 DEF Others
  <2>4. red[k] = "bumping" => holder[k] = c
    BY <1>1 DEF BumpIsMine, Mine, Key
  <2>5. red[k] # "none"
    BY <1>1 DEF Alone, OwnAlone, Busy
  <2>6. red[k] # "claimed"
    BY <1>1 DEF AllFresh, Fresh, Unbegun, Unmixed
  <2>7. red[k] \in {"bumping", "applied", "exhausted", "capped"}
    BY <2>5, <2>6 DEF TypeOK, States, Answers
  <2>8. \A d \in Callers : call'[d].key = k => call'[d].at # "bump"
    BY <1>1, <2>3 DEF BumpIsMine, Key
  <2>9. Weighs(k)'
    BY <1>1, <1>3, <2>4, <2>7, <2>8 DEF Weighs, Key
  <2>10. k \in Held' /\ k \notin Held
    BY <2>1, <2>9 DEF Held
  <2>11. Owed \subseteq Owed'
    BY <1>1 DEF Owed, Others
  <2>12. /\ IsFiniteSet(Held) /\ IsFiniteSet(Owed) /\ Cardinality(Held) \in Nat
         /\ Cardinality(Owed) \in Nat
         /\ seams \in Nat /\ coupon.uses \in Nat
    BY WeightSizes
  <2>13. IsFiniteSet(Held')
    <3>1. \A x \in Keys : Weighs(x)' => red'[x] # "none"
      BY NoneAssumption DEF TypeOK, Weighs
    <3>2. Held' \subseteq Standing'
      BY <3>1 DEF Held, Standing
    <3> QED BY <3>2, SizeMonotone DEF Finite
  <2>14. IsFiniteSet(Owed')
    <3>1. Owed' \subseteq Active'
      BY DEF Owed, Active, Busy
    <3> QED BY <3>1, SizeMonotone DEF Finite
  <2>15. Cardinality(Held \cup {k}) = Cardinality(Held) + 1
    BY <2>10, <2>12, FS_AddElement
  <2>16. Held \cup {k} \subseteq Held'
    BY <2>2, <2>10
  <2>17. Cardinality(Held) + 1 <= Cardinality(Held') /\ Cardinality(Held') \in Nat
    BY <2>13, <2>15, <2>16, SizeMonotone
  <2>18. Cardinality(Owed) <= Cardinality(Owed') /\ Cardinality(Owed') \in Nat
    BY <2>11, <2>14, SizeMonotone
  <2>19. coupon'.uses <= Weight'
    BY <1>1, <1>3, <2>12, <2>17, <2>18 DEF Upper, Weight
  <2> QED BY <1>3, <2>19 DEF Upper
<1> QED BY <1>2, <1>3, BumpDoes DEF Counts, Unlooked, Moved

\* The record of a use keeps it counted; a refusal found in its place is a seam.
LEMMA FinishKeepsUpper ==
  ASSUME TypeOK, Finite, TypeOK', Finite', CallShape, Alone, Upper, NEW c \in Callers,
         NEW k \in Keys,
         k = Key(c), Finish(c)
  PROVE Upper'
<1>0. ShapeOf(c)
  BY DEF CallShape
<1>1. call[c].at = "finish" /\ UNCHANGED <<coupon, recount>> /\ call[c].saw \in Answers
  BY <1>0, FinishDoes DEF ShapeOf
<1>2. PICK a : Answered(c, a)
  BY FinishDoes
<1>3. Others(c) /\ call'[c].key \in {k, None} /\ call'[c].at # "bump" /\ ~call'[c].bumped
  BY <1>2, AnsweredAt
<1>4. \A d \in Callers : d # c => call'[d] = call[d]
  BY <1>3 DEF Others
<1>5. Owed \subseteq Owed'
  BY <1>1, <1>4 DEF Owed
<1>6. red[k] # "none"
  BY <1>1 DEF Alone, OwnAlone, Busy
<1>7. seams \in Nat /\ seams' = IF call[c].bumped /\ red[k] \in {"exhausted", "capped"} THEN seams + 1 ELSE seams
  BY FinishDoes DEF TypeOK
<1>8. Weighs(k) => \A d \in Callers : call'[d].key = k => call'[d].at # "bump"
  BY <1>3, <1>4 DEF Weighs, Key
<1>9. CASE red[k] \in {"claimed", "bumping"} /\ Record(k, call[c].saw)
  <2>1. red'[k] = call[c].saw /\ \A x \in Keys : x # k => red'[x] = red[x] /\ holder'[x] = holder[x]
    BY <1>1, <1>9, RecordOn DEF States
  <2>2. ASSUME Weighs(k) PROVE Weighs(k)'
    <3>1. PICK d \in Callers : Key(d) = k /\ call[d].bumped
      BY <1>9, <2>2 DEF Weighs
    <3>2. CASE d = c
      <4>1. call[c].saw = "applied"
        BY <1>0, <3>1, <3>2 DEF ShapeOf
      <4> QED BY <1>8, <2>1, <2>2, <4>1 DEF Weighs, Key
    <3>3. CASE d # c
      <4>1. call'[d] = call[d]
        BY <1>4, <3>3
      <4>2. red'[k] \in {"applied", "exhausted", "capped"}
        BY <1>1, <2>1 DEF Answers
      <4>3. \/ red'[k] = "applied"
            \/ call'[d].key = k /\ call'[d].bumped /\ red'[k] \in {"exhausted", "capped"}
        BY <3>1, <4>1, <4>2 DEF Key
      <4> QED BY <1>8, <2>2, <4>3 DEF Weighs, Key
    <3> QED BY <3>2, <3>3
  <2>3. Held \subseteq Held'
    BY <1>3, <2>1, <2>2, OtherWeights DEF Key
  <2>4. seams <= seams'
    BY <1>7
  <2> QED BY <1>1, <1>5, <2>3, <2>4, WeightStep, UpperStep
<1>10. CASE Terminal(red[k]) /\ UNCHANGED <<red, holder, lapsed>>
  <2>1. holder[k] = None
    BY <1>10 DEF Terminal, Answers, TypeOK
  <2>2. Held \subseteq Held' \cup {k}
    BY <1>3, <1>10, OtherWeights DEF Key
  <2>3. CASE call[c].bumped /\ red[k] \in {"exhausted", "capped"}
    <3>1. seams + 1 <= seams'
      BY <1>7, <2>3
    <3> QED BY <1>1, <1>5, <2>2, <3>1, WeightStep, UpperStep
  <2>4. CASE ~(call[c].bumped /\ red[k] \in {"exhausted", "capped"})
    <3>1. ASSUME Weighs(k) PROVE Weighs(k)'
      <4>1. red[k] = "applied" \/ \E d \in Callers \ {c} : Key(d) = k /\ call[d].bumped /\ red[k] \in {"exhausted", "capped"}
        BY <2>1, <2>4, <3>1, NoneAssumption DEF Weighs
      <4> QED BY <1>4, <1>8, <1>10, <3>1, <4>1 DEF Weighs, Key
    <3>2. Held \subseteq Held'
      BY <1>3, <1>10, <3>1, OtherWeights DEF Key
    <3>3. seams <= seams'
      BY <1>7
    <3> QED BY <1>1, <1>5, <3>2, <3>3, WeightStep, UpperStep
  <2> QED BY <2>3, <2>4
<1> QED BY <1>6, <1>9, <1>10, FinishDoes

\* The delete hands the use it takes away over to the decrement.
LEMMA DeleteKeepsUpper ==
  ASSUME TypeOK, Finite, TypeOK', Finite', CallShape, Alone, Upper, NEW c \in Callers,
         NEW k \in Keys,
         k = Key(c), Delete(c)
  PROVE Upper'
<1>0. ShapeOf(c) /\ call[c].at = "delete" /\ ~call[c].bumped
  BY DeleteDoes DEF CallShape, ShapeOf
<1>1. /\ UNCHANGED <<coupon, seams>> /\ Others(c) /\ call'[c].key \in {k, None}
      /\ call'[c].at \in {"idle", "dec"}
      /\ recount'.at = recount.at /\ recount'.held = recount.held
      /\ recount'.seenLive = recount.seenLive
  BY DeleteDoes, EndedAt DEF Moved, Key, LooksBut
<1>2. red[k] # "none"
  BY <1>0 DEF Alone, OwnAlone, Busy
<1>3. red'[k] = "none" /\ (\A x \in Keys : x # k => red'[x] = red[x] /\ holder'[x] = holder[x])
      /\ (call[c].saw = "applied" => call'[c].at = "dec")
  BY <1>2, DeleteDoes, RecordOn DEF States, Moved
<1>4. \A d \in Callers : Key(d) = k => d = c
  <2>1. call[c].op = "release"
    BY <1>0 DEF ShapeOf, TypeOK, Call, Busy
  <2> QED BY <1>0, <2>1 DEF ShapeOf, Alone, Busy
<1>5. Weighs(k) => call[c].saw = "applied"
  BY <1>0, <1>4 DEF Weighs, Alone, OwnAlone, Busy
<1>6. Held \subseteq Held' \cup {k}
  BY <1>1, <1>3, OtherWeights DEF Key
<1>7. seams <= seams'
  BY <1>1 DEF TypeOK
<1>8. CASE Weighs(k)
  <2>1. c \notin Owed /\ Owed \cup {c} \subseteq Owed'
    BY <1>0, <1>1, <1>3, <1>5, <1>8 DEF Owed, Others
  <2> QED BY <1>1, <1>6, <1>7, <2>1, WeightStep, UpperStep
<1>9. CASE ~Weighs(k)
  <2>1. Held \subseteq Held'
    BY <1>1, <1>3, <1>9, OtherWeights DEF Key
  <2>2. Owed \subseteq Owed'
    BY <1>0, <1>1 DEF Owed, Others
  <2> QED BY <1>1, <1>7, <2>1, <2>2, WeightStep, UpperStep
<1> QED BY <1>8, <1>9

LEMMA DecKeepsUpper ==
  ASSUME TypeOK, Finite, TypeOK', Finite', CallShape, Mixing, Unmixed, Counter, Upper,
         NEW c \in Callers, NEW k \in Keys, k = Key(c), Dec(c)
  PROVE Upper'
<1>1. /\ call[c].at = "dec" /\ ~call[c].bumped /\ Others(c) /\ call'[c].key = None
      /\ call'[c].at = "idle"
      /\ UNCHANGED <<red, holder, seams>>
  BY DecDoes, EndedAt DEF CallShape, ShapeOf
<1>2. /\ IsFiniteSet(Owed) /\ IsFiniteSet(Held) /\ Cardinality(Held) \in Nat
      /\ Cardinality(Owed) \in Nat
      /\ seams \in Nat /\ coupon.uses \in Nat /\ Cardinality(Used) \in Nat
  BY WeightSizes, Sizes
<1>3. c \in Owed /\ Owed' = Owed \ {c}
  BY <1>1 DEF Owed, Others
<1>4. Cardinality(Owed') = Cardinality(Owed) - 1 /\ Cardinality(Owed) # 0
  BY <1>2, <1>3, FS_RemoveElement, FS_EmptySet
<1>5. coupon.uses > 0
  BY <1>2, <1>4 DEF Counter, Lower, Unmixed
<1>6. coupon'.uses = coupon.uses - 1 /\ ~recount'.held
  BY <1>5, DecDoes DEF Counts
<1>7. Held \subseteq Held'
  BY <1>1, CalmWeight DEF Key
<1>8. IsFiniteSet(Held')
  <2>1. \A x \in Keys : Weighs(x)' => red'[x] # "none"
    BY NoneAssumption DEF TypeOK, Weighs
  <2>2. Held' \subseteq Standing'
    BY <2>1 DEF Held, Standing
  <2> QED BY <2>2, SizeMonotone DEF Finite
<1>9. Cardinality(Held) <= Cardinality(Held') /\ Cardinality(Held') \in Nat
  BY <1>7, <1>8, SizeMonotone
<1>10. coupon'.uses <= Weight'
  BY <1>1, <1>2, <1>4, <1>6, <1>9 DEF Upper, Weight
<1> QED BY <1>6, <1>10 DEF Upper

\* A call that dies owing a record or a decrement is a seam.
LEMMA CrashKeepsUpper ==
  ASSUME TypeOK, Finite, TypeOK', Finite', CallShape, Upper, NEW c \in Callers, NEW k \in Keys,
         k = Key(c), Crash(c)
  PROVE Upper'
<1>0. ShapeOf(c)
  BY DEF CallShape
<1>1. /\ Others(c) /\ call'[c].key = None /\ call'[c].at = "idle" /\ UNCHANGED <<coupon, red>>
      /\ \A x \in Keys : holder'[x] = holder[x] \/ holder[x] = c
      /\ recount'.at = recount.at /\ recount'.held = recount.held
      /\ recount'.seenLive = recount.seenLive
  BY CrashDoes, EndedAt DEF LooksBut
<1>2. seams \in Nat /\ seams' = IF OwesRecord(c) THEN seams + 1 ELSE seams
  BY CrashDoes DEF TypeOK
<1>3. CASE ~OwesRecord(c)
  BY <1>1, <1>2, <1>3, CalmUpper DEF OwesRecord, Key
<1>4. CASE call[c].bumped
  <2>1. Held \subseteq Held' \cup {k}
    BY <1>1, OtherWeights DEF Key
  <2>2. Owed \subseteq Owed'
    BY <1>0, <1>1, <1>4 DEF Owed, Others, ShapeOf
  <2>3. seams + 1 <= seams'
    BY <1>2, <1>4 DEF OwesRecord
  <2> QED BY <1>1, <2>1, <2>2, <2>3, WeightStep, UpperStep
<1>5. CASE ~call[c].bumped /\ call[c].at = "dec"
  <2>1. Held \subseteq Held'
    BY <1>1, <1>5, CalmWeight DEF Key
  <2>2. Owed \subseteq Owed' \cup {c}
    BY <1>1 DEF Owed, Others
  <2>3. seams + 1 <= seams'
    BY <1>2, <1>5 DEF OwesRecord
  <2> QED BY <1>1, <2>1, <2>2, <2>3, WeightStep, UpperStep
<1> QED BY <1>3, <1>4, <1>5 DEF OwesRecord

LEMMA CallKeepsUpper ==
  ASSUME TypeOK, Finite, CallShape, TypeOK', Finite', AllFresh, Mixing, Unmixed, BumpIsMine,
         Counter, Alone, Upper, NEW c \in Callers, CallAct(c)
  PROVE Upper'
<1>0. ShapeOf(c)
  BY DEF CallShape
<1>1. ASSUME NEW k \in Keys, Redeem(c, k) PROVE Upper'
  <2>1. /\ call[c].key = None /\ call'[c].key = k /\ Others(c) /\ call'[c].at \in {"slot", "await"}
        /\ ~call[c].bumped /\ call[c].at = "idle"
    BY <1>1, RedeemDoes, IdleFields DEF Began
  <2>2. (\A x \in Keys : x # k => red'[x] = red[x]) /\ (red'[k] = red[k] \/ red[k] = "none")
    BY <1>1, RedeemDoes DEF TypeOK
  <2> QED BY <1>1, <2>1, <2>2, RedeemDoes, CalmUpper
<1>2. ASSUME NEW k \in Keys, Release(c, k) PROVE Upper'
  <2>1. /\ call[c].key = None /\ call'[c].key = k /\ Others(c)
        /\ call'[c].at \in {"unslot", "await"}
        /\ ~call[c].bumped /\ call[c].at = "idle"
    BY <1>2, ReleaseDoes, IdleFields DEF Began
  <2> QED BY <1>2, <2>1, ReleaseDoes, CalmUpper
<1>3. CASE Crash(c)
  <2>1. PICK k \in Keys : k = Key(c)
    BY <1>3, CrashDoes DEF CallShape, ShapeOf, Busy
  <2> QED BY <1>3, <2>1, CrashKeepsUpper
<1>4. CASE Step(c)
  <2>1. PICK k \in Keys : k = Key(c)
    BY <1>4, StepKey
  <2>2. ASSUME Others(c), call'[c].key \in {k, None},
               UNCHANGED <<coupon, red, holder, recount, seams>>,
               call[c].at \notin {"finish", "dec"}, call'[c].at # "bump"
        PROVE Upper'
    BY <1>0, <2>1, <2>2, CalmUpper DEF ShapeOf, Key
  <2>3. CASE Slot(c)
    BY <2>1, <2>2, <2>3, SlotDoes DEF Moved, Key
  <2>4. CASE Right(c)
    BY <2>1, <2>4, RightKeepsUpper
  <2>5. CASE Await(c)
    BY <2>1, <2>2, <2>5, AwaitDoes, AnsweredAt DEF Moved, Key
  <2>6. CASE Witness(c)
    BY <2>1, <2>2, <2>6, WitnessDoes DEF Moved, Key
  <2>7. CASE Beat(c)
    BY <2>1, <2>7, BeatKeepsUpper
  <2>8. CASE Bump(c)
    BY <2>1, <2>8, BumpKeepsUpper
  <2>9. CASE Compensate(c)
    BY <2>1, <2>2, <2>9, CompensateDoes DEF Moved, Key
  <2>10. CASE Finish(c)
    BY <2>1, <2>10, FinishKeepsUpper
  <2>11. CASE Answer(c)
    BY <2>1, <2>2, <2>11, AnswerDoes, AnsweredAt
  <2>12. CASE Free(c)
    BY <2>2, <2>12, FreeDoes, EndedAt
  <2>13. CASE Contend(c)
    BY <2>1, <2>2, <2>13, ContendDoes, EndedAt DEF Moved, Key
  <2>14. CASE Reread(c)
    BY <1>0, <2>1, <2>2, <2>14, RereadDoes, EndedAt DEF Moved, Key, ShapeOf
  <2>15. CASE Unslot(c)
    BY <2>1, <2>2, <2>15, UnslotDoes DEF Moved, Key
  <2>16. CASE Delete(c)
    BY <2>1, <2>16, DeleteKeepsUpper
  <2>17. CASE Dec(c)
    BY <2>1, <2>17, DecKeepsUpper
  <2> QED BY <1>4, <2>3, <2>4, <2>5, <2>6, <2>7, <2>8, <2>9, <2>10, <2>11, <2>12, <2>13, <2>14,
             <2>15,
             <2>16, <2>17 DEF Step
<1> QED BY <1>1, <1>2, <1>3, <1>4 DEF CallAct

LEMMA WeightUnmoved ==
  ASSUME UNCHANGED <<red, holder, call, seams>> PROVE Weight' = Weight
<1>1. Held' = Held
  BY DEF Held, Weighs, Key
<1>2. Owed' = Owed
  BY DEF Owed
<1> QED BY <1>1, <1>2 DEF Weight

\* A recount writes what it counted, which is no more than the counter, or the weight, was.
LEMMA RecountKeepsUpper ==
  ASSUME TypeOK, Finite, TypeOK', Mixing, Unmixed, Counter, Upper, RecountAct
  PROVE Upper'
<1>1. Weight' = Weight
  BY RecountDoes, WeightUnmoved
<1>2. /\ Cardinality(Held) \in Nat /\ Cardinality(Owed) \in Nat /\ seams \in Nat
      /\ coupon.uses \in Nat
      /\ recount.seenLive \in Nat /\ Cardinality(Applied) \in Nat
      /\ Cardinality(Used) \in Nat /\ Cardinality(Applied) <= Cardinality(Used)
  BY WeightSizes, Sizes
<1>3. Cardinality(Applied) <= coupon.uses
  BY <1>2 DEF Counter, Lower, Unmixed
<1>4. Weight \in Nat
  BY <1>2 DEF Weight
<1>5. CASE LookAtCoupon
  <2>1. coupon' = coupon /\ recount'.at = "bumping"
    BY <1>5 DEF LookAtCoupon, TypeOK, Recount
  <2> QED BY <1>1, <2>1 DEF Upper
<1>6. CASE LookForBumping
  <2>1. coupon' = coupon /\ recount'.at \in {"idle", "applied"}
    BY <1>6 DEF LookForBumping, TypeOK, Recount, NoRecount
  <2> QED BY <1>1, <2>1 DEF Upper
<1>7. CASE LookAtApplied
  <2>1. coupon' = coupon
    BY <1>7 DEF LookAtApplied
  <2>2. \/ recount'.at = "idle"
        \/ SameDrift(Cardinality(Applied)) /\ recount' = [recount EXCEPT !.at = "write"]
    <3>1. PICK live \in Nat : live = Cardinality(Applied)
      BY <1>2
    <3>2. PICK owing \in SUBSET Callers : owing = Owing
      BY DEF Owing
    <3>3. \/ recount' = NoRecount
          \/ recount' = [NoRecount EXCEPT !.seen = TRUE, !.seenUses = recount.uses, !.seenLive = live,
                                          !.kept = recount.held, !.owed = owing]
          \/ SameDrift(live) /\ recount' = [recount EXCEPT !.at = "write"]
      BY <1>7, <3>1, <3>2 DEF LookAtApplied
    <3>4. recount.uses \in Nat /\ recount.held \in BOOLEAN
      BY DEF TypeOK, Recount
    <3>5. NoRecount.at = "idle"
      BY DEF NoRecount
    <3>6. CASE recount' = [NoRecount EXCEPT !.seen = TRUE, !.seenUses = recount.uses, !.seenLive = live,
                                            !.kept = recount.held, !.owed = owing]
      BY <3>4, <3>6 DEF NoRecount, Recount
    <3> QED BY <3>1, <3>3, <3>5, <3>6
  <2>3. CASE recount'.at = "idle"
    BY <1>1, <2>1, <2>3 DEF Upper
  <2>4. CASE SameDrift(Cardinality(Applied)) /\ recount' = [recount EXCEPT !.at = "write"]
    <3>1. recount'.seenLive = Cardinality(Applied)
      BY <2>4 DEF SameDrift, TypeOK, Recount
    <3> QED BY <1>1, <1>2, <1>3, <1>4, <2>1, <3>1 DEF Upper
  <2> QED BY <2>2, <2>3, <2>4
<1>8. CASE Correct
  <2>1. recount'.at = "idle" /\ recount.at = "write"
    BY <1>8 DEF Correct, NoRecount
  <2>2. coupon'.uses = IF recount.held THEN recount.seenLive ELSE coupon.uses
    BY <1>8 DEF Correct, TypeOK
  <2> QED BY <1>1, <2>1, <2>2 DEF Upper
<1> QED BY <1>5, <1>6, <1>7, <1>8 DEF RecountAct

\* What holds as long as nobody takes up a key that is being released.
HighInv == raced = {} => Alone /\ Upper

\* HighInv holds at first and after every step.
THEOREM HighInvHolds == Spec => []HighInv
<1>1. Init => HighInv
  <2> SUFFICES ASSUME Init PROVE Alone /\ Upper
    BY DEF HighInv
  <2>1. \A c \in Callers : call[c] = Idle
    BY DEF Init
  <2>2. Alone
    BY <2>1, IdleFields DEF Alone, Busy
  <2>3. Held = {} /\ Owed = {}
    BY <2>1, IdleFields DEF Init, Held, Weighs, Owed
  <2>4. Weight = 0
    BY <2>3, FS_EmptySet DEF Init, Weight
  <2>5. coupon.uses = 0 /\ recount.at = "idle"
    BY DEF Init, NoRecount
  <2> QED BY <2>2, <2>4, <2>5 DEF Upper
<1>2. IInv /\ IInv' /\ CountInv /\ HighInv /\ [Next]_vars => HighInv'
  <2> SUFFICES ASSUME IInv, IInv', CountInv, HighInv, [Next]_vars, raced' = {}
               PROVE (Alone /\ Upper)'
    BY DEF HighInv
  <2>0. TypeOK /\ Finite /\ CallShape /\ TypeOK' /\ Finite' /\ CallShape'
    BY DEF IInv
  <2>1. ASSUME NEW c \in Callers, CallAct(c) PROVE (Alone /\ Upper)'
    <3>1. raced = {}
      BY <2>0, <2>1, RacedGrows
    <3>2. Alone /\ Upper /\ AllFresh /\ BumpIsMine /\ Counter /\ Mixing /\ Unmixed
      BY <3>1 DEF HighInv, CountInv, Mixing, Unmixed
    <3> QED BY <2>0, <2>1, <3>2, CallKeepsAlone, CallKeepsUpper
  <2>2. CASE RecountAct
    <3>1. UNCHANGED <<red, call, gone, raced>>
      BY <2>0, <2>2, RecountDoes
    <3>2. Alone /\ Upper /\ Counter /\ Mixing /\ Unmixed
      BY <3>1 DEF HighInv, CountInv, Mixing, Unmixed
    <3>3. Alone'
      BY <3>1, <3>2 DEF Alone, OwnAlone, Busy, Key
    <3> QED BY <2>0, <2>2, <3>2, <3>3, RecountKeepsUpper
  <2>3. ASSUME UNCHANGED <<coupon, red, holder, call, recount, gone, raced, seams>>
        PROVE (Alone /\ Upper)'
    <3>1. Alone /\ Upper
      BY <2>3 DEF HighInv
    <3>2. Alone'
      BY <2>3, <3>1 DEF Alone, OwnAlone, Busy, Key
    <3>3. Weight' = Weight
      BY <2>3, WeightUnmoved
    <3> QED BY <2>3, <3>1, <3>2, <3>3 DEF Upper
  <2>4. ASSUME NEW k \in Keys, Lapse(k) PROVE (Alone /\ Upper)'
    BY <2>0, <2>3, <2>4, LapseDoes
  <2>5. CASE UNCHANGED vars
    BY <2>3, <2>5 DEF vars, docs, redemption, history
  <2> QED BY <2>1, <2>2, <2>4, <2>5, NextActs
<1> QED BY <1>1, <1>2, Inductive, CountInvHolds, PTL DEF Spec

\* The counter is high by at most one for each call that died, was overtaken, or found its key
\* refused, between the counter and its record, while nobody redeems a key under release.
THEOREM HighOnlyBySeamsHolds == Spec => []HighOnlyBySeams
<1>1. IInv /\ HighInv => HighOnlyBySeams
  <2> SUFFICES ASSUME IInv, HighInv, raced = {}
               PROVE coupon.uses <= Cardinality(Applied \cup InSeam)
                       + Cardinality({c \in Callers : call[c].at = "dec"}) + seams
    BY DEF HighOnlyBySeams
  <2>1. TypeOK /\ Finite /\ CallShape /\ Alone /\ Upper
    BY DEF IInv, HighInv
  <2>2. Held \subseteq Applied \cup InSeam
    BY DEF Held, Weighs, Applied, InSeam
  <2>3. Applied \cup InSeam \subseteq Standing
    <3>1. ASSUME NEW c \in Callers, call[c].bumped, Key(c) \in Keys PROVE red[Key(c)] # "none"
      BY <2>1, <3>1 DEF Alone, OwnAlone, Busy, CallShape, ShapeOf
    <3> QED BY <3>1 DEF InSeam, Applied, Standing
  <2>4. IsFiniteSet(Applied \cup InSeam)
    BY <2>1, <2>3, SizeMonotone DEF Finite
  <2>5. /\ Cardinality(Held) <= Cardinality(Applied \cup InSeam)
        /\ Cardinality(Applied \cup InSeam) \in Nat
    BY <2>2, <2>4, SizeMonotone
  <2>6. /\ Cardinality(Held) \in Nat /\ Cardinality(Owed) \in Nat /\ seams \in Nat
        /\ coupon.uses \in Nat
    BY <2>1, WeightSizes
  <2>7. coupon.uses <= Cardinality(Applied \cup InSeam) + Cardinality(Owed) + seams
    BY <2>1, <2>5, <2>6 DEF Upper, Weight
  <2> QED BY <2>7 DEF Owed
<1> QED BY <1>1, Inductive, HighInvHolds, PTL

-----------------------------------------------------------------------------
(* The slots of a customer, when nothing died, stalled or raced a release *)

Quiet == deaths = 0 /\ stalls = 0 /\ raced = {}
Slotted(k) == Capped(k) => k \in slots[Buyer[k]]
Unslotted(k) == Capped(k) => k \notin slots[Buyer[k]]
On(c, k, steps) == Key(c) = k /\ call[c].at \in steps

\* What a call knows of its redemption k and its slot.
SlotOf(c, k) ==
  /\ ~call[c].takeOver /\ call[c].at # "witness"
  /\ call[c].op = "release" => call[c].at \in {"unslot", "delete", "dec"}
  /\ call[c].at \in {"unslot", "delete"} => red[k] = "applied" /\ call[c].saw = "applied"
  /\ call[c].at \in {"delete", "dec"} => Unslotted(k)
  /\ call[c].at = "await" => red[k] # "claimed"
  /\ call[c].at = "right" /\ red[k] = "claimed" => Slotted(k)
  /\ call[c].at \in {"beat", "bump", "compensate"} => red[k] \in {"bumping", "capped"}
  /\ call[c].at = "finish" /\ call[c].saw = "applied" => red[k] \in {"bumping", "capped"}
  /\ call[c].at \in {"beat", "bump", "compensate"} /\ red[k] = "bumping" => holder[k] = c
  /\ call[c].at = "finish" /\ red[k] = "bumping" => holder[k] = c \/ call[c].saw = "capped"
  /\ \/ call[c].at \in {"beat", "bump"}
     \/ call[c].at = "finish" /\ call[c].saw = "applied"
     => (red[k] = "bumping" => Slotted(k))
SlotCall(c) == SlotOf(c, Key(c))

\* Who answers for a redemption in each state, and for its slot.
SlotKey(k) ==
  /\ red[k] = "none" => Unslotted(k)
  /\ red[k] = "claimed" => \E c \in Callers : On(c, k, {"slot", "right", "finish"})
  /\ red[k] = "bumping" =>
       holder[k] \in Callers /\ On(holder[k], k, {"beat", "bump", "compensate", "finish"})
  /\ red[k] = "applied" => Slotted(k) \/ \E c \in Callers : On(c, k, {"delete"})
  /\ red[k] = "exhausted" =>
       Unslotted(k) \/ \E c \in Callers : On(c, k, {"right", "await", "answer", "free"})

SlotFacts ==
  /\ lapsed = {}
  /\ \A c \in Callers : Busy(c) => SlotCall(c)
  /\ \A k \in Keys : SlotKey(k)
SlotInv == Quiet => SlotFacts

\* The cap of a customer stands, and so does the slot of every key but k.
SlotsBut(k) ==
  /\ \A x \in Keys : Capped(x)' <=> Capped(x)
  /\ \A x \in Keys : x # k => (Slotted(x)' <=> Slotted(x)) /\ (Unslotted(x)' <=> Unslotted(x))

LEMMA SlotsStep ==
  ASSUME TypeOK, TypeOK', coupon'.cap = coupon.cap, NEW k \in Keys
  PROVE /\ slots' = slots => SlotsBut(k) /\ (Slotted(k)' <=> Slotted(k)) /\ (Unslotted(k)' <=> Unslotted(k))
        /\ Capped(k) /\ TakeSlot(k) => SlotsBut(k) /\ Slotted(k)'
        /\ ReleaseSlot(k) => SlotsBut(k) /\ Unslotted(k)'
<1>1. \A x \in Keys : (Capped(x)' <=> Capped(x)) /\ (Capped(x) => Buyer[x] \in Customers)
  BY BuyerAssumption DEF Capped
<1>2. slots' = slots => SlotsBut(k) /\ (Slotted(k)' <=> Slotted(k)) /\ (Unslotted(k)' <=> Unslotted(k))
  BY <1>1 DEF SlotsBut, Slotted, Unslotted
<1>3. ASSUME Capped(k), TakeSlot(k) PROVE SlotsBut(k) /\ Slotted(k)'
  <2>1. slots' = [slots EXCEPT ![Buyer[k]] = slots[Buyer[k]] \cup {k}] /\ Buyer[k] \in Customers
    BY <1>1, <1>3 DEF TakeSlot
  <2>2. \A x \in Keys, u \in Customers : x # k => (x \in slots'[u] <=> x \in slots[u])
    BY <2>1 DEF TypeOK
  <2>3. k \in slots'[Buyer[k]]
    BY <2>1 DEF TypeOK
  <2> QED BY <1>1, <2>2, <2>3 DEF SlotsBut, Slotted, Unslotted
<1>4. ASSUME ReleaseSlot(k) PROVE SlotsBut(k) /\ Unslotted(k)'
  <2>1. CASE ~Capped(k)
    BY <1>1, <1>2, <1>4, <2>1 DEF ReleaseSlot, Unslotted
  <2>2. CASE Capped(k)
    <3>1. slots' = [slots EXCEPT ![Buyer[k]] = slots[Buyer[k]] \ {k}] /\ Buyer[k] \in Customers
      BY <1>1, <1>4, <2>2 DEF ReleaseSlot
    <3>2. \A x \in Keys, u \in Customers : x # k => (x \in slots'[u] <=> x \in slots[u])
      BY <3>1 DEF TypeOK
    <3>3. k \notin slots'[Buyer[k]]
      BY <3>1 DEF TypeOK
    <3> QED BY <1>1, <3>2, <3>3 DEF SlotsBut, Slotted, Unslotted
  <2> QED BY <2>1, <2>2
<1> QED BY <1>2, <1>3, <1>4

\* A step on key k, whose calls and redemption know what they did.
LEMMA SlotFrame ==
  ASSUME TypeOK, TypeOK', CallShape', SlotFacts, NEW c \in Callers, NEW k \in Keys, Others(c),
         call[c].key \in {k, None}, call'[c].key \in {k, None},
         \A x \in Keys : x # k => red'[x] = red[x] /\ holder'[x] = holder[x],
         SlotsBut(k), lapsed' = {},
         call'[c].key = k => SlotOf(c, k)',
         \A d \in Callers \ {c} : call[d].key = k /\ Busy(d) => SlotOf(d, k)',
         SlotKey(k)'
  PROVE SlotFacts'
<1>0. \A x \in Keys : x # None
  BY NoneAssumption
<1>1. \A d \in Callers : d # c => call'[d] = call[d]
  BY DEF Others
<1>2. ASSUME NEW d \in Callers, Busy(d)' PROVE SlotCall(d)'
  <2>1. call'[d].key \in Keys
    BY <1>2 DEF CallShape, ShapeOf, Busy, Key
  <2>2. CASE d = c
    BY <1>0, <2>1, <2>2 DEF SlotCall, Key
  <2>3. CASE d # c /\ call[d].key = k
    BY <1>1, <1>2, <2>3 DEF SlotCall, Key, Busy
  <2>4. CASE d # c /\ call[d].key # k
    <3>1. PICK x \in Keys : x = call'[d].key
      BY <2>1
    <3>2. call'[d] = call[d] /\ x = Key(d) /\ x # k /\ SlotOf(d, x)
      BY <1>1, <1>2, <2>4, <3>1 DEF SlotFacts, SlotCall, Key, Busy
    <3>3. red'[x] = red[x] /\ holder'[x] = holder[x] /\ (Slotted(x)' <=> Slotted(x)) /\ (Unslotted(x)' <=> Unslotted(x))
      BY <3>2 DEF SlotsBut
    <3>4. SlotOf(d, x)'
      BY <3>2, <3>3 DEF SlotOf
    <3> QED BY <3>1, <3>4 DEF SlotCall, Key
  <2> QED BY <2>2, <2>3, <2>4
<1>3. ASSUME NEW x \in Keys, x # k PROVE SlotKey(x)'
  <2>1. red'[x] = red[x] /\ holder'[x] = holder[x] /\ (Slotted(x)' <=> Slotted(x)) /\ (Unslotted(x)' <=> Unslotted(x))
    BY <1>3 DEF SlotsBut
  <2>2. \A d \in Callers : Key(d) = x => d # c
    BY <1>0, <1>3 DEF Key
  <2>3. \A d \in Callers, S \in SUBSET Steps : On(d, x, S) => On(d, x, S)'
    BY <1>1, <2>2 DEF On, Key
  <2>4. SlotKey(x)
    BY DEF SlotFacts
  <2>5. /\ {"slot", "right", "finish"} \in SUBSET Steps
        /\ {"beat", "bump", "compensate", "finish"} \in SUBSET Steps
        /\ {"delete"} \in SUBSET Steps /\ {"right", "await", "answer", "free"} \in SUBSET Steps
    BY DEF Steps
  <2>6. red'[x] = "claimed" => \E d \in Callers : On(d, x, {"slot", "right", "finish"})'
    BY <2>1, <2>3, <2>4, <2>5 DEF SlotKey
  <2>7. red'[x] = "bumping" =>
          holder'[x] \in Callers /\ On(holder[x], x, {"beat", "bump", "compensate", "finish"})'
    BY <2>1, <2>3, <2>4, <2>5 DEF SlotKey
  <2>8. red'[x] = "applied" => Slotted(x)' \/ \E d \in Callers : On(d, x, {"delete"})'
    BY <2>1, <2>3, <2>4, <2>5 DEF SlotKey
  <2>9. red'[x] = "exhausted" =>
          Unslotted(x)' \/ \E d \in Callers : On(d, x, {"right", "await", "answer", "free"})'
    BY <2>1, <2>3, <2>4, <2>5 DEF SlotKey
  <2>10. red'[x] = "none" => Unslotted(x)'
    BY <2>1, <2>4 DEF SlotKey
  <2> QED BY <2>6, <2>7, <2>8, <2>9, <2>10 DEF SlotKey
<1> QED BY <1>2, <1>3 DEF SlotFacts

LEMMA QuietStep ==
  ASSUME TypeOK, TypeOK', CallShape, [Next]_vars, Quiet', SlotInv, HighInv, CountInv
  PROVE /\ Quiet /\ SlotFacts /\ Alone /\ AllFresh /\ Unmixed
        /\ \A c \in Callers : ~Crash(c)
        /\ \A k \in Keys : ~Lapse(k)
<1>1. deaths \in Nat /\ stalls \in Nat /\ seams \in Nat
  BY DEF TypeOK
<1>2. ASSUME NEW c \in Callers, Crash(c) PROVE FALSE
  <2>1. deaths' = deaths + 1
    BY <1>2, CrashDoes
  <2> QED BY <1>1, <2>1 DEF Quiet
<1>3. Quiet
  <2>1. ASSUME NEW c \in Callers, CallAct(c) PROVE Quiet
    <3>1. raced = {}
      BY <2>1, RacedGrows DEF Quiet
    <3>2. CASE Step(c)
      <4>1. Busy(c) => Key(c) \in Keys
        BY DEF CallShape, ShapeOf
      <4>2. UNCHANGED <<deaths, stalls>>
        BY <3>2, <4>1, SlotDoes, RightDoes, AwaitDoes, WitnessDoes, BeatDoes, BumpDoes,
           CompensateDoes,
           FinishDoes, AnswerDoes, FreeDoes, ContendDoes, RereadDoes, UnslotDoes, DeleteDoes,
           DecDoes DEF Step
      <4> QED BY <3>1, <4>2 DEF Quiet
    <3>3. ASSUME NEW k \in Keys, Redeem(c, k) \/ Release(c, k) PROVE Quiet
      BY <3>1, <3>3, RedeemDoes, ReleaseDoes DEF Quiet
    <3> QED BY <1>2, <2>1, <3>2, <3>3 DEF CallAct
  <2>2. CASE RecountAct
    <3>1. UNCHANGED <<raced, deaths, stalls>>
      BY <2>2 DEF RecountAct, LookAtCoupon, LookForBumping, LookAtApplied, Correct, history
    <3> QED BY <3>1 DEF Quiet
  <2>3. ASSUME NEW k \in Keys, Lapse(k) PROVE Quiet
    BY <1>1, <2>3, LapseDoes DEF Quiet
  <2>4. CASE UNCHANGED vars
    BY <2>4 DEF vars, history, Quiet
  <2> QED BY <2>1, <2>2, <2>3, <2>4, NextActs
<1>4. SlotFacts /\ Alone /\ AllFresh /\ Unmixed
  BY <1>3 DEF SlotInv, HighInv, CountInv, Mixing, Unmixed, Quiet
<1>5. ASSUME NEW k \in Keys, Lapse(k) PROVE FALSE
  <2>1. red[k] = "bumping" /\ stalls' = IF holder[k] = None THEN stalls ELSE stalls + 1
    BY <1>5, LapseDoes
  <2>2. holder[k] # None
    BY <1>4, <2>1, NoneAssumption DEF SlotFacts, SlotKey
  <2> QED BY <1>1, <2>1, <2>2 DEF Quiet
<1> QED BY <1>2, <1>3, <1>4, <1>5

\* A step that writes neither the redemption nor a slot, of a call that stays answerable.
LEMMA SlotCalm ==
  ASSUME TypeOK, TypeOK', CallShape', SlotFacts, NEW c \in Callers, NEW k \in Keys, Others(c),
         call[c].key \in {k, None}, call'[c].key \in {k, None},
         UNCHANGED <<red, holder, slots>>, lapsed' = {}, coupon'.cap = coupon.cap,
         call'[c].key = k => SlotOf(c, k)',
         red[k] = "claimed" /\ On(c, k, {"slot", "right", "finish"}) => On(c, k, {"slot", "right", "finish"})',
         red[k] = "bumping" /\ holder[k] = c => On(c, k, {"beat", "bump", "compensate", "finish"})',
         red[k] = "applied" => ~On(c, k, {"delete"}),
         red[k] = "exhausted" /\ On(c, k, {"right", "await", "answer", "free"}) =>
           ~Capped(k) \/ On(c, k, {"right", "await", "answer", "free"})'
  PROVE SlotFacts'
<1>1. SlotsBut(k) /\ (Slotted(k)' <=> Slotted(k)) /\ (Unslotted(k)' <=> Unslotted(k))
  BY SlotsStep
<1>2. \A d \in Callers : d # c => call'[d] = call[d]
  BY DEF Others
<1>3. ASSUME NEW d \in Callers \ {c}, call[d].key = k, Busy(d) PROVE SlotOf(d, k)'
  <2>1. SlotOf(d, k) /\ call'[d] = call[d]
    BY <1>2, <1>3 DEF SlotFacts, SlotCall, Key
  <2> QED BY <1>1, <2>1 DEF SlotOf
<1>4. SlotKey(k)'
  <2>1. SlotKey(k)
    BY DEF SlotFacts
  <2>2. \A d \in Callers, S \in SUBSET Steps : d # c /\ On(d, k, S) => On(d, k, S)'
    BY <1>2 DEF On, Key
  <2>3. /\ {"slot", "right", "finish"} \in SUBSET Steps
        /\ {"beat", "bump", "compensate", "finish"} \in SUBSET Steps
        /\ {"delete"} \in SUBSET Steps /\ {"right", "await", "answer", "free"} \in SUBSET Steps
    BY DEF Steps
  <2>4. red'[k] = "claimed" => \E d \in Callers : On(d, k, {"slot", "right", "finish"})'
    BY <2>1, <2>2, <2>3 DEF SlotKey
  <2>5. red'[k] = "bumping" =>
          holder'[k] \in Callers /\ On(holder[k], k, {"beat", "bump", "compensate", "finish"})'
    BY <2>1, <2>2, <2>3 DEF SlotKey
  <2>6. red'[k] = "applied" => Slotted(k)' \/ \E d \in Callers : On(d, k, {"delete"})'
    BY <1>1, <2>1, <2>2, <2>3 DEF SlotKey
  <2>7. red'[k] = "exhausted" =>
          Unslotted(k)' \/ \E d \in Callers : On(d, k, {"right", "await", "answer", "free"})'
    <3>1. ~Capped(k) => Unslotted(k)'
      BY <1>1 DEF SlotsBut, Unslotted
    <3> QED BY <1>1, <2>1, <2>2, <2>3, <3>1 DEF SlotKey
  <2>8. red'[k] = "none" => Unslotted(k)'
    BY <1>1, <2>1 DEF SlotKey
  <2> QED BY <2>4, <2>5, <2>6, <2>7, <2>8 DEF SlotKey
<1> QED BY <1>1, <1>3, <1>4, SlotFrame

LEMMA RedeemKeepsSlots ==
  ASSUME TypeOK, TypeOK', CallShape', SlotFacts, Alone, AllFresh, NEW c \in Callers, NEW k \in Keys,
         Redeem(c, k),
         k \notin gone
  PROVE SlotFacts'
<1>1. /\ call[c].key = None /\ call'[c].key = k /\ Others(c) /\ call[c].at = "idle"
      /\ UNCHANGED <<coupon, holder, lapsed, slots>> /\ call'[c].op = "redeem" /\ ~call'[c].takeOver
  BY RedeemDoes, IdleFields DEF Began
<1>2. lapsed' = {}
  BY <1>1 DEF SlotFacts
<1>3. CASE red[k] = "none" /\ red' = [red EXCEPT ![k] = "claimed"] /\ call'[c].at = "slot"
  <2>1. red'[k] = "claimed" /\ \A x \in Keys : x # k => red'[x] = red[x]
    BY <1>3 DEF TypeOK
  <2>2. \A d \in Callers : call[d].key # k
    BY <1>3 DEF AllFresh, Fresh, Key
  <2>3. SlotOf(c, k)'
    BY <1>1, <1>3 DEF SlotOf
  <2>4. SlotKey(k)'
    BY <1>1, <1>3, <2>1 DEF SlotKey, On, Key
  <2>5. SlotsBut(k)
    BY <1>1, SlotsStep
  <2> QED BY <1>1, <1>2, <2>1, <2>2, <2>3, <2>4, <2>5, SlotFrame
<1>4. CASE red' = red /\ (call'[c].at = "slot" \/ (call'[c].at = "await" /\ red[k] # "claimed"))
  <2>1. SlotOf(c, k)'
    BY <1>1, <1>4 DEF SlotOf
  <2>2. \A S : ~On(c, k, S)
    BY <1>1, NoneAssumption DEF On, Key
  <2>3. red[k] = "bumping" => holder[k] # c
    BY <2>2 DEF SlotFacts, SlotKey
  <2> QED BY <1>1, <1>2, <1>4, <2>1, <2>2, <2>3, SlotCalm
<1> QED BY <1>3, <1>4, RedeemDoes DEF Began

LEMMA ReleaseKeepsSlots ==
  ASSUME TypeOK, TypeOK', CallShape', SlotFacts, NEW c \in Callers, NEW k \in Keys, Release(c, k),
         \A d \in Callers : Key(d) # k
  PROVE SlotFacts'
<1>1. /\ call[c].key = None /\ call'[c].key = k /\ Others(c) /\ call[c].at = "idle"
      /\ UNCHANGED <<coupon, red, holder, lapsed, slots>> /\ call'[c].op = "release"
      /\ ~call'[c].takeOver
      /\ red[k] \in {"claimed", "bumping", "applied"}
  BY ReleaseDoes, IdleFields DEF Began
<1>2. lapsed' = {}
  BY <1>1 DEF SlotFacts
<1>3. red[k] = "applied"
  BY <1>1 DEF SlotFacts, SlotKey, On
<1>4. call'[c].at = "unslot" /\ call'[c].saw = "applied"
  BY <1>3, ReleaseDoes DEF Began
<1>5. SlotOf(c, k)'
  BY <1>1, <1>3, <1>4 DEF SlotOf
<1>6. \A S : ~On(c, k, S)
  BY DEF On
<1> QED BY <1>1, <1>2, <1>3, <1>5, <1>6, SlotCalm

LEMMA SlotKeepsSlots ==
  ASSUME TypeOK, TypeOK', CallShape, CallShape', SlotFacts, Alone, NEW c \in Callers,
         NEW k \in Keys, k = Key(c), Slot(c)
  PROVE SlotFacts'
<1>1. /\ call[c].at = "slot" /\ Busy(c) /\ Others(c) /\ call'[c].key = k /\ call[c].key = k
      /\ UNCHANGED <<coupon, red, holder, lapsed>>
      /\ call'[c].op = call[c].op /\ call'[c].takeOver = call[c].takeOver
  BY SlotDoes, Zenon DEF Moved, Key, Busy
<1>2. /\ SlotOf(c, k) /\ lapsed' = {} /\ red[k] # "none" /\ call[c].op # "release"
      /\ ~call'[c].takeOver
  BY <1>1 DEF SlotFacts, SlotCall, Alone, OwnAlone, SlotOf, Key
<1>3. CASE call'[c].at = "finish" /\ call'[c].saw = "capped" /\ slots' = slots
  <2>1. SlotOf(c, k)'
    BY <1>1, <1>2, <1>3 DEF SlotOf
  <2>2. ~(red[k] = "bumping" /\ holder[k] = c)
    BY <1>1 DEF SlotFacts, SlotKey, On
  <2> QED BY <1>1, <1>2, <1>3, <2>1, <2>2, SlotCalm DEF On, Key
<1>4. CASE call'[c].at = "right" 
           /\ ((~Capped(k) /\ slots' = slots) \/ (Capped(k) /\ TakeSlot(k)))
  <2>1. SlotsBut(k) /\ Slotted(k)'
    <3>1. CASE Capped(k) /\ TakeSlot(k)
      BY <1>1, <3>1, SlotsStep
    <3>2. CASE ~Capped(k) /\ slots' = slots
      BY <1>1, <3>2, SlotsStep DEF Slotted
    <3> QED BY <1>4, <3>1, <3>2
  <2>2. SlotOf(c, k)'
    BY <1>1, <1>2, <1>4, <2>1 DEF SlotOf
  <2>3. \A d \in Callers : d # c => call'[d] = call[d]
    BY <1>1 DEF Others
  <2>4. ASSUME NEW d \in Callers \ {c}, call[d].key = k, Busy(d) PROVE SlotOf(d, k)'
    <3>1. SlotOf(d, k) /\ call'[d] = call[d]
      BY <2>3, <2>4 DEF SlotFacts, SlotCall, Key
    <3>2. call[d].at \notin {"delete", "dec"}
      <4>1. k \notin gone
        BY <1>1, <2>4 DEF Alone, Key
      <4>2. call[d].op \in {"redeem", "release"}
        BY <2>4 DEF TypeOK, Call, CallShape, ShapeOf
      <4> QED BY <2>4, <4>1, <4>2 DEF CallShape, ShapeOf, Key
    <3> QED BY <1>1, <2>1, <3>1, <3>2 DEF SlotOf
  <2>5. SlotKey(k)'
    <3>1. SlotKey(k)
      BY DEF SlotFacts
    <3>2. red[k] = "bumping" => holder[k] # c
      BY <1>1, <3>1 DEF SlotKey, On
    <3>3. red'[k] = "bumping" => holder'[k] \in Callers /\ On(holder[k], k, {"beat", "bump", "compensate", "finish"})'
      BY <1>1, <2>3, <3>1, <3>2 DEF SlotKey, On, Key
    <3>4. On(c, k, {"slot", "right", "finish"})' /\ On(c, k, {"right", "await", "answer", "free"})'
      BY <1>1, <1>4 DEF On, Key
    <3> QED BY <1>1, <1>2, <2>1, <3>3, <3>4 DEF SlotKey
  <2> QED BY <1>1, <1>2, <2>1, <2>2, <2>4, <2>5, SlotFrame
<1> QED BY <1>1, <1>3, <1>4, SlotDoes DEF Moved

LEMMA RightKeepsSlots ==
  ASSUME TypeOK, TypeOK', CallShape', SlotFacts, AllFresh, Unmixed, NEW c \in Callers,
         NEW k \in Keys, k = Key(c), Right(c)
  PROVE SlotFacts'
<1>1. /\ call[c].at = "right" /\ Busy(c) /\ Others(c) /\ call'[c].key = k /\ call[c].key = k
      /\ UNCHANGED <<coupon, slots>>
      /\ call'[c].op = call[c].op /\ call'[c].takeOver = call[c].takeOver
  BY RightDoes, Zenon DEF Moved, Key, Busy
<1>2. SlotOf(c, k) /\ lapsed = {} /\ call[c].op # "release" /\ ~call[c].takeOver
  BY <1>1 DEF SlotFacts, SlotCall, SlotOf, Key
<1>3. CASE red[k] # "claimed" /\ UNCHANGED <<red, holder, lapsed>> /\ call'[c].at = "await"
  <2>1. SlotOf(c, k)'
    BY <1>1, <1>2, <1>3 DEF SlotOf
  <2>2. ~(red[k] = "bumping" /\ holder[k] = c)
    BY <1>1 DEF SlotFacts, SlotKey, On
  <2> QED BY <1>1, <1>2, <1>3, <2>1, <2>2, SlotCalm DEF On, Key
<1>4. CASE /\ red[k] = "claimed" /\ call'[c].at = "beat" /\ lapsed' = lapsed \ {k}
           /\ red' = [red EXCEPT ![k] = "bumping"] /\ holder' = [holder EXCEPT ![k] = c]
  <2>1. red'[k] = "bumping" /\ holder'[k] = c /\ \A x \in Keys : x # k => red'[x] = red[x] /\ holder'[x] = holder[x]
    BY <1>4 DEF TypeOK
  <2>2. SlotsBut(k) /\ Slotted(k)' /\ lapsed' = {}
    BY <1>1, <1>2, <1>4, SlotsStep DEF SlotOf
  <2>3. SlotOf(c, k)'
    BY <1>1, <1>2, <1>4, <2>1, <2>2 DEF SlotOf
  <2>4. SlotKey(k)'
    BY <1>1, <1>4, <2>1 DEF SlotKey, On, Key
  <2>5. ASSUME NEW d \in Callers \ {c}, call[d].key = k, Busy(d) PROVE SlotOf(d, k)'
    <3>1. SlotOf(d, k) /\ call'[d] = call[d]
      BY <1>1, <2>5 DEF SlotFacts, SlotCall, Key, Others
    <3>2. Unbegun(d)
      BY <1>4, <2>5 DEF AllFresh, Fresh, Unmixed, Key
    <3>3. call[d].at \in {"slot", "right"} \/ (call[d].at = "finish" /\ call[d].saw = "capped")
      BY <1>4, <3>1, <3>2 DEF Unbegun, SlotOf
    <3> QED BY <2>1, <3>1, <3>3 DEF SlotOf
  <2> QED BY <1>1, <2>1, <2>2, <2>3, <2>4, <2>5, SlotFrame
<1> QED BY <1>2, <1>3, <1>4, RightDoes DEF Moved

\* An answer that is recorded sends its caller away, or to give back a slot.
LEMMA ToldKeepsSlots ==
  ASSUME TypeOK, TypeOK', CallShape', SlotFacts, NEW c \in Callers, NEW k \in Keys, k = Key(c),
         Busy(c),
         NEW a, Answered(c, a), call[c].at \in {"await", "answer", "finish"}, red[k] = a,
         Terminal(a),
         UNCHANGED <<coupon, red, holder, lapsed, slots>>
  PROVE SlotFacts'
<1>1. SlotOf(c, k) /\ lapsed' = {} /\ call[c].op # "release"
  BY DEF SlotFacts, SlotCall, SlotOf
<1>2. Others(c) /\ call'[c].key \in {k, None} /\ call[c].key \in {k, None}
  BY AnsweredAt DEF Key
<1>3. red[k] \notin {"bumping", "claimed"} /\ ~On(c, k, {"delete"})
  BY DEF Terminal, Answers, On
<1>4. CASE Ended(c) /\ ~(a = "exhausted" /\ Capped(k))
  <2>1. call'[c].key # k
    BY <1>4, EndedAt, NoneAssumption
  <2> QED BY <1>1, <1>2, <1>3, <1>4, <2>1, SlotCalm
<1>5. CASE Moved(c, "free", call[c].saw, FALSE, call[c].takeOver)
  <2>1. /\ call'[c].at = "free" /\ call'[c].op = call[c].op /\ call'[c].key = k
        /\ call'[c].takeOver = call[c].takeOver
    BY <1>5, Zenon DEF Moved, Key
  <2>2. SlotOf(c, k)'
    BY <1>1, <2>1 DEF SlotOf
  <2>3. On(c, k, {"right", "await", "answer", "free"})'
    BY <2>1 DEF On, Key
  <2> QED BY <1>1, <1>2, <1>3, <2>2, <2>3, SlotCalm
<1> QED BY <1>1, <1>4, <1>5 DEF Answered

LEMMA AwaitKeepsSlots ==
  ASSUME TypeOK, TypeOK', CallShape', SlotFacts, NEW c \in Callers, NEW k \in Keys, k = Key(c),
         Await(c)
  PROVE SlotFacts'
<1>1. Busy(c) /\ call[c].at = "await" /\ UNCHANGED <<coupon, red, holder, lapsed, slots>>
  BY AwaitDoes DEF Busy
<1>2. lapsed = {} /\ red[k] # "claimed"
  BY <1>1 DEF SlotFacts, SlotCall, SlotOf
<1>3. Terminal(red[k]) /\ Answered(c, red[k])
  BY <1>2, AwaitDoes
<1> QED BY <1>1, <1>3, ToldKeepsSlots

LEMMA BeatKeepsSlots ==
  ASSUME TypeOK, TypeOK', CallShape', SlotFacts, NEW c \in Callers, NEW k \in Keys, k = Key(c),
         Beat(c)
  PROVE SlotFacts'
<1>1. /\ call[c].at = "beat" /\ Busy(c) /\ Others(c) /\ call'[c].key = k /\ call[c].key = k
      /\ UNCHANGED <<coupon, red, holder, slots>>
      /\ call'[c].op = call[c].op /\ call'[c].takeOver = call[c].takeOver
  BY BeatDoes, Zenon DEF Moved, Key, Busy
<1>2. SlotOf(c, k) /\ lapsed = {}
  BY <1>1 DEF SlotFacts, SlotCall, Key
<1>3. lapsed' = {} /\ (Slotted(k)' <=> Slotted(k))
  BY <1>1, <1>2, BeatDoes, SlotsStep
<1>4. call'[c].at = "bump" \/ (call'[c].at = "answer" /\ holder[k] # c)
  BY BeatDoes DEF Moved, Mine
<1>5. SlotOf(c, k)'
  BY <1>1, <1>2, <1>3, <1>4 DEF SlotOf
<1> QED BY <1>1, <1>3, <1>4, <1>5, SlotCalm DEF On, Key

LEMMA BumpKeepsSlots ==
  ASSUME TypeOK, TypeOK', CallShape', SlotFacts, NEW c \in Callers, NEW k \in Keys, k = Key(c),
         Bump(c)
  PROVE SlotFacts'
<1>1. /\ call[c].at = "bump" /\ Busy(c) /\ Others(c) /\ call'[c].key = k /\ call[c].key = k
      /\ UNCHANGED <<red, holder, lapsed, slots>>
      /\ call'[c].op = call[c].op /\ call'[c].takeOver = call[c].takeOver
  BY BumpDoes, Zenon DEF Moved, Key, Busy
<1>2. SlotOf(c, k) /\ lapsed = {} /\ coupon'.cap = coupon.cap
  BY <1>1, BumpDoes DEF SlotFacts, SlotCall, Key, Counts
<1>3. lapsed' = {} /\ (Slotted(k)' <=> Slotted(k))
  BY <1>1, <1>2, SlotsStep
<1>4. call'[c].at \in {"compensate", "beat"} \/ (call'[c].at = "finish" /\ call'[c].saw = "applied")
  BY BumpDoes DEF Moved
<1>5. SlotOf(c, k)'
  BY <1>1, <1>2, <1>3, <1>4 DEF SlotOf
<1> QED BY <1>1, <1>2, <1>3, <1>4, <1>5, SlotCalm DEF On, Key

\* The owner of a bumping redemption is its only call between the right and the record.
LEMMA OneOwner ==
  ASSUME SlotFacts, NEW c \in Callers, NEW d \in Callers, NEW k \in Keys, Key(c) = k, Key(d) = k,
         Busy(c), Busy(d), red[k] = "bumping",
         call[d].at \in {"beat", "bump", "compensate"} \/ (call[d].at = "finish" /\ call[d].saw # "capped"),
         call[c].at \in {"beat", "bump", "compensate"} \/ (call[c].at = "finish" /\ call[c].saw # "capped")
  PROVE c = d
<1>1. SlotOf(c, k) /\ SlotOf(d, k)
  BY DEF SlotFacts, SlotCall
<1>2. holder[k] = c /\ holder[k] = d
  BY <1>1 DEF SlotOf
<1> QED BY <1>2

LEMMA CompensateKeepsSlots ==
  ASSUME TypeOK, TypeOK', CallShape, CallShape', SlotFacts, NEW c \in Callers, NEW k \in Keys,
         k = Key(c), Compensate(c)
  PROVE SlotFacts'
<1>1. /\ call[c].at = "compensate" /\ Busy(c) /\ Others(c) /\ call'[c].key = k /\ call[c].key = k
      /\ UNCHANGED <<coupon, red, holder, lapsed>> /\ ReleaseSlot(k)
      /\ call'[c].op = call[c].op /\ call'[c].takeOver = call[c].takeOver
      /\ call'[c].at = "finish" /\ call'[c].saw = call[c].saw
  BY CompensateDoes, Zenon DEF Moved, Key, Busy
<1>2. SlotOf(c, k) /\ lapsed' = {} /\ call[c].saw = "exhausted" /\ red[k] \in {"bumping", "capped"}
  BY <1>1 DEF SlotFacts, SlotCall, Key, CallShape, ShapeOf, SlotOf
<1>3. SlotsBut(k) /\ Unslotted(k)'
  BY <1>1, SlotsStep
<1>4. SlotOf(c, k)'
  BY <1>1, <1>2, <1>3 DEF SlotOf
<1>5. ASSUME NEW d \in Callers \ {c}, call[d].key = k, Busy(d) PROVE SlotOf(d, k)'
  <2>1. SlotOf(d, k) /\ call'[d] = call[d]
    BY <1>1, <1>5 DEF SlotFacts, SlotCall, Key, Others
  <2>2. red[k] = "bumping" =>
          ~(call[d].at \in {"beat", "bump"} \/ (call[d].at = "finish" /\ call[d].saw = "applied"))
    BY <1>1, <1>5, OneOwner DEF Key
  <2> QED BY <1>1, <1>2, <1>3, <2>1, <2>2 DEF SlotOf
<1>6. SlotKey(k)'
  <2>1. red[k] = "bumping" => holder[k] \in Callers /\ On(holder[k], k, {"beat", "bump", "compensate", "finish"})
    BY DEF SlotFacts, SlotKey
  <2>2. red'[k] = "bumping" => holder'[k] \in Callers /\ On(holder[k], k, {"beat", "bump", "compensate", "finish"})'
    BY <1>1, <2>1 DEF On, Key, Others
  <2> QED BY <1>1, <1>2, <2>2 DEF SlotKey
<1> QED BY <1>1, <1>2, <1>3, <1>4, <1>5, <1>6, SlotFrame

LEMMA FinishKeepsSlots ==
  ASSUME TypeOK, TypeOK', CallShape, CallShape', SlotFacts, Alone, NEW c \in Callers,
         NEW k \in Keys, k = Key(c), Finish(c)
  PROVE SlotFacts'
<1>1. /\ call[c].at = "finish" /\ Busy(c) /\ call[c].key = k /\ UNCHANGED <<coupon, slots>>
      /\ call[c].saw \in Answers
  BY FinishDoes DEF Key, Busy, CallShape, ShapeOf
<1>2. SlotOf(c, k) /\ lapsed = {} /\ red[k] # "none" /\ call[c].op # "release"
  BY <1>1 DEF SlotFacts, SlotCall, Key, Alone, OwnAlone, SlotOf
<1>3. CASE Terminal(red[k]) /\ Answered(c, red[k]) /\ UNCHANGED <<red, holder, lapsed>>
  BY <1>1, <1>3, ToldKeepsSlots
<1>4. CASE red[k] \in {"claimed", "bumping"} /\ Record(k, call[c].saw) /\ Answered(c, call[c].saw)
  <2>1. /\ red'[k] = call[c].saw /\ lapsed' = {}
        /\ \A x \in Keys : x # k => red'[x] = red[x] /\ holder'[x] = holder[x]
    BY <1>1, <1>2, <1>4, RecordOn DEF States
  <2>2. SlotsBut(k) /\ (Slotted(k)' <=> Slotted(k))
    BY <1>1, SlotsStep
  <2>3. Others(c) /\ call'[c].key \in {k, None}
    BY <1>1, <1>4, AnsweredAt
  <2>4. call'[c].key = k => /\ call'[c].at = "free" /\ call'[c].op = call[c].op
                            /\ call'[c].takeOver = call[c].takeOver
    <3>1. CASE Ended(c)
      BY <3>1, EndedAt, NoneAssumption
    <3>2. CASE Moved(c, "free", call[c].saw, FALSE, call[c].takeOver)
      BY <3>2, Zenon DEF Moved
    <3> QED BY <1>2, <1>4, <3>1, <3>2 DEF Answered
  <2>5. call'[c].key = k => SlotOf(c, k)'
    BY <1>2, <2>4 DEF SlotOf
  <2>6. ASSUME NEW d \in Callers \ {c}, call[d].key = k, Busy(d) PROVE SlotOf(d, k)'
    <3>1. SlotOf(d, k) /\ call'[d] = call[d]
      BY <2>3, <2>6 DEF SlotFacts, SlotCall, Key, Others
    <3>2. call[d].at \in {"beat", "bump", "compensate"} \/ (call[d].at = "finish" /\ call[d].saw = "applied")
          => red[k] = "bumping"
      BY <1>4, <3>1 DEF SlotOf
    <3>3. call[d].at \in {"beat", "bump", "compensate"} \/ (call[d].at = "finish" /\ call[d].saw = "applied")
          => call[c].saw = "capped"
      BY <1>1, <2>6, <3>2, OneOwner DEF Key
    <3>4. red'[k] \in {"applied", "exhausted", "capped"} /\ red[k] # "applied"
      BY <1>1, <1>4, <2>1 DEF Answers
    <3>5. call[d].at \notin {"unslot", "delete"}
      BY <3>1, <3>4 DEF SlotOf
    <3>6. call[d].at \notin {"dec"}
      <4>1. k \notin gone
        BY <1>1, <2>6 DEF Alone, Key
      <4>2. call[d].op \in {"redeem", "release"}
        BY <2>6 DEF TypeOK, Call, CallShape, ShapeOf
      <4> QED BY <2>6, <4>1, <4>2 DEF CallShape, ShapeOf, Key
    <3> QED BY <2>1, <3>1, <3>3, <3>4, <3>5, <3>6 DEF SlotOf
  <2>7. SlotKey(k)'
    <3>1. CASE call[c].saw = "applied"
      <4>1. red[k] = "bumping" /\ Slotted(k)
        BY <1>1, <1>2, <1>4, <3>1 DEF SlotOf
      <4> QED BY <2>1, <2>2, <3>1, <4>1 DEF SlotKey
    <3>2. CASE call[c].saw = "exhausted"
      <4>1. CASE Capped(k)
        <5>1. Moved(c, "free", call[c].saw, FALSE, call[c].takeOver)
          BY <1>2, <1>4, <3>2, <4>1 DEF Answered
        <5>2. On(c, k, {"right", "await", "answer", "free"})'
          BY <1>1, <5>1 DEF On, Key, Moved
        <5> QED BY <2>1, <3>2, <5>2 DEF SlotKey
      <4>2. CASE ~Capped(k)
        <5>1. Unslotted(k)'
          BY <2>2, <4>2 DEF SlotsBut, Unslotted
        <5> QED BY <2>1, <3>2, <5>1 DEF SlotKey
      <4> QED BY <4>1, <4>2
    <3>3. CASE call[c].saw = "capped"
      BY <2>1, <3>3 DEF SlotKey
    <3> QED BY <1>1, <3>1, <3>2, <3>3 DEF Answers
  <2>8. call[c].key \in {k, None}
    BY <1>1
  <2> QED BY <2>1, <2>2, <2>3, <2>5, <2>6, <2>7, <2>8, SlotFrame
<1> QED BY <1>2, <1>3, <1>4, FinishDoes

LEMMA FreeKeepsSlots ==
  ASSUME TypeOK, TypeOK', CallShape, CallShape', SlotFacts, Alone, NEW c \in Callers,
         NEW k \in Keys, k = Key(c), Free(c)
  PROVE SlotFacts'
<1>1. /\ call[c].at = "free" /\ Busy(c) /\ Others(c) /\ call'[c].key = None /\ call[c].key = k
      /\ UNCHANGED <<coupon, red, holder, lapsed>> /\ ReleaseSlot(k)
  BY FreeDoes, EndedAt DEF Key, Busy
<1>2. red[k] = "exhausted"
  <2>1. call[c].op = "redeem"
    BY <1>1 DEF CallShape, ShapeOf, TypeOK, Call
  <2> QED BY <1>1, <2>1 DEF CallShape, ShapeOf, Alone, OwnAlone, Key
<1>3. SlotsBut(k) /\ Unslotted(k)' /\ lapsed' = {}
  BY <1>1, SlotsStep DEF SlotFacts
<1>4. ASSUME NEW d \in Callers \ {c}, call[d].key = k, Busy(d) PROVE SlotOf(d, k)'
  <2>1. SlotOf(d, k) /\ call'[d] = call[d]
    BY <1>1, <1>4 DEF SlotFacts, SlotCall, Key, Others
  <2> QED BY <1>1, <1>2, <1>3, <2>1 DEF SlotOf
<1>5. SlotKey(k)'
  BY <1>1, <1>2, <1>3 DEF SlotKey
<1> QED BY <1>1, <1>3, <1>4, <1>5, SlotFrame, NoneAssumption

LEMMA UnslotKeepsSlots ==
  ASSUME TypeOK, TypeOK', CallShape, CallShape', SlotFacts, Alone, NEW c \in Callers,
         NEW k \in Keys, k = Key(c), Unslot(c)
  PROVE SlotFacts'
<1>1. /\ call[c].at = "unslot" /\ Busy(c) /\ Others(c) /\ call'[c].key = k /\ call[c].key = k
      /\ UNCHANGED <<coupon, red, holder, lapsed>> /\ ReleaseSlot(k)
      /\ call'[c].op = call[c].op /\ call'[c].takeOver = call[c].takeOver
      /\ call'[c].at = "delete" /\ call'[c].saw = call[c].saw
  BY UnslotDoes, Zenon DEF Moved, Key, Busy
<1>2. SlotOf(c, k) /\ lapsed' = {} /\ red[k] = "applied"
  BY <1>1 DEF SlotFacts, SlotCall, Key, SlotOf
<1>3. SlotsBut(k) /\ Unslotted(k)'
  BY <1>1, SlotsStep
<1>4. SlotOf(c, k)'
  BY <1>1, <1>2, <1>3 DEF SlotOf
<1>5. \A d \in Callers \ {c} : call[d].key # k
  <2>1. call[c].op = "release"
    BY <1>1 DEF CallShape, ShapeOf, TypeOK, Call
  <2> QED BY <1>1, <2>1 DEF CallShape, ShapeOf, Alone, Key
<1>6. SlotKey(k)'
  BY <1>1, <1>2 DEF SlotKey, On, Key
<1> QED BY <1>1, <1>2, <1>3, <1>4, <1>5, <1>6, SlotFrame

LEMMA DeleteKeepsSlots ==
  ASSUME TypeOK, TypeOK', CallShape, CallShape', SlotFacts, Alone, NEW c \in Callers,
         NEW k \in Keys, k = Key(c), Delete(c)
  PROVE SlotFacts'
<1>1. call[c].at = "delete" /\ Busy(c) /\ call[c].key = k /\ UNCHANGED <<coupon, slots>>
  BY DeleteDoes DEF Key, Busy
<1>2. SlotOf(c, k) /\ lapsed = {} /\ red[k] = "applied" /\ call[c].saw = "applied" /\ Unslotted(k)
  BY <1>1 DEF SlotFacts, SlotCall, Key, SlotOf
<1>3. Record(k, "none") /\ Moved(c, "dec", call[c].saw, call[c].bumped, call[c].takeOver)
  BY <1>2, DeleteDoes
<1>4. Others(c) /\ call'[c].key = k /\ call'[c].at = "dec" /\ call'[c].op = call[c].op
      /\ call'[c].takeOver = call[c].takeOver
  BY <1>1, <1>3, Zenon DEF Moved
<1>5. /\ red'[k] = "none" /\ lapsed' = {}
      /\ \A x \in Keys : x # k => red'[x] = red[x] /\ holder'[x] = holder[x]
  BY <1>2, <1>3, RecordOn DEF States
<1>6. SlotsBut(k) /\ Unslotted(k)'
  BY <1>1, <1>2, SlotsStep
<1>7. SlotOf(c, k)'
  BY <1>2, <1>4, <1>6 DEF SlotOf
<1>8. \A d \in Callers \ {c} : call[d].key # k
  <2>1. call[c].op = "release"
    BY <1>1 DEF CallShape, ShapeOf, TypeOK, Call
  <2> QED BY <1>1, <2>1 DEF CallShape, ShapeOf, Alone, Key
<1>9. SlotKey(k)'
  BY <1>5, <1>6 DEF SlotKey
<1> QED BY <1>1, <1>4, <1>5, <1>6, <1>7, <1>8, <1>9, SlotFrame

LEMMA CallKeepsSlots ==
  ASSUME TypeOK, TypeOK', CallShape, CallShape', SlotFacts, Alone, AllFresh, Unmixed,
         NEW c \in Callers, CallAct(c), ~Crash(c), raced' = {}
  PROVE SlotFacts'
<1>1. ASSUME NEW k \in Keys, Redeem(c, k) PROVE SlotFacts'
  BY <1>1, RacedGrows, RedeemKeepsSlots
<1>2. ASSUME NEW k \in Keys, Release(c, k) PROVE SlotFacts'
  BY <1>2, RacedGrows, ReleaseKeepsSlots
<1>3. CASE Step(c)
  <2>1. PICK k \in Keys : k = Key(c)
    BY <1>3, StepKey
  <2>2. Busy(c) /\ ShapeOf(c) /\ SlotOf(c, k) /\ lapsed = {}
    BY <1>3, <2>1, StepKey DEF SlotFacts, SlotCall
  <2>3. CASE Slot(c)
    BY <2>1, <2>3, SlotKeepsSlots
  <2>4. CASE Right(c)
    BY <2>1, <2>4, RightKeepsSlots
  <2>5. CASE Await(c)
    BY <2>1, <2>5, AwaitKeepsSlots
  <2>6. CASE Witness(c)
    BY <2>2, <2>6, WitnessDoes DEF SlotOf
  <2>7. CASE Beat(c)
    BY <2>1, <2>7, BeatKeepsSlots
  <2>8. CASE Bump(c)
    BY <2>1, <2>8, BumpKeepsSlots
  <2>9. CASE Compensate(c)
    BY <2>1, <2>9, CompensateKeepsSlots
  <2>10. CASE Finish(c)
    BY <2>1, <2>10, FinishKeepsSlots
  <2>11. CASE Answer(c)
    BY <2>1, <2>2, <2>11, AnswerDoes, ToldKeepsSlots
  <2>12. CASE Free(c)
    BY <2>1, <2>12, FreeKeepsSlots
  <2>13. CASE Contend(c)
    <3>1. Ended(c) /\ ~Terminal(red[k]) /\ call[c].at \in {"await", "answer"}
          /\ UNCHANGED <<coupon, red, holder, lapsed, slots>>
      BY <2>1, <2>2, <2>13, ContendDoes DEF SlotOf
    <3>2. Others(c) /\ call'[c].key = None
      BY <3>1, EndedAt
    <3>3. red[k] # "exhausted" /\ ~(red[k] = "bumping" /\ holder[k] = c) /\ ~On(c, k, {"delete"})
          /\ ~On(c, k, {"slot", "right", "finish"})
      BY <3>1 DEF Terminal, Answers, SlotFacts, SlotKey, On
    <3> QED BY <2>1, <2>2, <3>1, <3>2, <3>3, SlotCalm, NoneAssumption DEF Key
  <2>14. CASE Reread(c)
    <3>1. call[c].at = "reread" /\ call[c].op \in {"redeem", "release"}
      BY <2>1, <2>2, <2>14, RereadDoes DEF ShapeOf, TypeOK, Call
    <3> QED BY <2>2, <3>1 DEF SlotOf, ShapeOf
  <2>15. CASE Unslot(c)
    BY <2>1, <2>15, UnslotKeepsSlots
  <2>16. CASE Delete(c)
    BY <2>1, <2>16, DeleteKeepsSlots
  <2>17. CASE Dec(c)
    <3>1. Others(c) /\ call'[c].key = None /\ call[c].at = "dec" /\ UNCHANGED <<red, holder, lapsed,
                                                                                slots>>
          /\ coupon'.cap = coupon.cap
      BY <2>17, DecDoes, EndedAt DEF Counts
    <3>2. ~(red[k] = "bumping" /\ holder[k] = c) /\ ~On(c, k, {"delete"})
          /\ ~On(c, k, {"slot", "right", "finish"})
          /\ ~On(c, k, {"right", "await", "answer", "free"})
      BY <3>1 DEF SlotFacts, SlotKey, On
    <3> QED BY <2>1, <2>2, <3>1, <3>2, SlotCalm, NoneAssumption DEF Key
  <2> QED BY <1>3, <2>3, <2>4, <2>5, <2>6, <2>7, <2>8, <2>9, <2>10, <2>11, <2>12, <2>13, <2>14,
             <2>15,
             <2>16, <2>17 DEF Step
<1> QED BY <1>1, <1>2, <1>3 DEF CallAct

\* SlotInv holds at first and after every step.
THEOREM SlotInvHolds == Spec => []SlotInv
<1>1. Init => SlotInv
  <2> SUFFICES ASSUME Init PROVE SlotFacts
    BY DEF SlotInv
  <2>1. \A c \in Callers : ~Busy(c)
    BY IdleFields DEF Init, Busy
  <2>2. \A k \in Keys : Unslotted(k) /\ red[k] = "none"
    BY BuyerAssumption DEF Init, Unslotted, Capped
  <2> QED BY <2>1, <2>2 DEF Init, SlotFacts, SlotKey
<1>2. IInv /\ IInv' /\ CountInv /\ HighInv /\ SlotInv /\ [Next]_vars => SlotInv'
  <2> SUFFICES ASSUME IInv, IInv', CountInv, HighInv, SlotInv, [Next]_vars, Quiet' PROVE SlotFacts'
    BY DEF SlotInv
  <2>0. TypeOK /\ Finite /\ CallShape /\ TypeOK' /\ CallShape'
    BY DEF IInv
  <2>1. /\ SlotFacts /\ Alone /\ AllFresh /\ Unmixed
        /\ \A c \in Callers : ~Crash(c)
        /\ \A k \in Keys : ~Lapse(k)
    BY <2>0, QuietStep
  <2>2. ASSUME NEW c \in Callers, CallAct(c) PROVE SlotFacts'
    BY <2>0, <2>1, <2>2, CallKeepsSlots DEF Quiet
  <2>3. ASSUME UNCHANGED <<red, holder, lapsed, slots, call>>, coupon'.cap = coupon.cap
        PROVE SlotFacts'
    <3>1. \A k : (Slotted(k)' <=> Slotted(k)) /\ (Unslotted(k)' <=> Unslotted(k))
      BY <2>3 DEF Slotted, Unslotted, Capped
    <3>2. \A c \in Callers : (SlotCall(c)' <=> SlotCall(c)) /\ (Busy(c)' <=> Busy(c))
      BY <2>3, <3>1 DEF SlotCall, SlotOf, Key, Busy
    <3>3. \A k \in Keys : SlotKey(k)' <=> SlotKey(k)
      BY <2>3, <3>1 DEF SlotKey, On, Key
    <3> QED BY <2>1, <2>3, <3>2, <3>3 DEF SlotFacts
  <2>4. CASE RecountAct
    <3>1. coupon'.cap = coupon.cap
      BY <2>0, <2>4, RecountDoes DEF TypeOK
    <3> QED BY <2>0, <2>3, <2>4, <3>1, RecountDoes
  <2>5. CASE UNCHANGED vars
    BY <2>3, <2>5 DEF vars, docs, redemption
  <2> QED BY <2>1, <2>2, <2>4, <2>5, NextActs
<1> QED BY <1>1, <1>2, Inductive, CountInvHolds, HighInvHolds, PTL DEF Spec

\* When all is quiet and nothing died or stalled, a customer's slots are those of the
\* redemptions that hold a use.
THEOREM SlotsHeldByUsesHolds == Spec => []SlotsHeldByUses
<1>1. IInv /\ SlotInv => SlotsHeldByUses
  <2> SUFFICES ASSUME SlotInv, \A c \in Callers : call[c] = Idle, Quiet, NEW k \in Keys, Capped(k)
               PROVE /\ red[k] \in {"claimed", "bumping", "applied"} => k \in slots[Buyer[k]]
                     /\ red[k] \in {"none", "exhausted"} => k \notin slots[Buyer[k]]
    BY DEF SlotsHeldByUses, Quiet
  <2>1. SlotKey(k)
    BY DEF SlotInv, SlotFacts
  <2>2. \A c \in Callers : call[c].at = "idle"
    BY IdleFields
  <2>3. red[k] \notin {"claimed", "bumping"}
    BY <2>1, <2>2 DEF SlotKey, On
  <2>4. red[k] = "applied" => Slotted(k)
    BY <2>1, <2>2 DEF SlotKey, On
  <2>5. red[k] \in {"none", "exhausted"} => Unslotted(k)
    BY <2>1, <2>2 DEF SlotKey, On
  <2> QED BY <2>3, <2>4, <2>5 DEF Slotted, Unslotted
<1> QED BY <1>1, Inductive, SlotInvHolds, PTL

=============================================================================

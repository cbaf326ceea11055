------------------------------- MODULE Coupons -------------------------------
(***************************************************************************)
(* The redemptions of one coupon:                                          *)
(* packages/store-emdash/src/emdash-coupon-store.ts.                       *)
(*                                                                         *)
(* A redemption is claimed under an idempotency key, takes a slot of its   *)
(* customer, wins the right to move the counter, moves it, and records its *)
(* answer: four documents and no transaction.  Callers of one key share    *)
(* its redemption; a release undoes it; a sweep recounts the counter.      *)
(***************************************************************************)
EXTENDS Naturals, FiniteSets

CONSTANTS
  Keys,      \* idempotency keys of checkouts
  Customers,
  Buyer,     \* the customer of each key, None for a guest
  Limits,    \* the caps a coupon may have: on its uses, on those of one customer, None for none
  Callers,
  MaxDeaths, \* bound on the calls that die
  MaxStalls, \* bound on the calls that outlive their lease
  MaxReuses, \* bound on the calls that redeem a released key
  MaxMishaps, \* ... and on all three together
  None

ASSUME NoneAssumption == None \notin Keys \cup Customers \cup Callers \cup Nat
ASSUME BuyerAssumption == Buyer \in [Keys -> Customers \cup {None}]
ASSUME LimitAssumption == Limits \subseteq [max : Nat \cup {None}, cap : Nat \cup {None}]
ASSUME BoundAssumption == {MaxDeaths, MaxStalls, MaxReuses, MaxMishaps} \subseteq Nat

VARIABLES
  coupon,   \* coupons/{id}: its count, the last key counted, its caps
  red,      \* coupon_redemptions/{id}:{key}, by its state
  holder,   \* the call that last wrote a bumping redemption, None when it is dead
  lapsed,   \* the bumping redemptions whose lease has lapsed
  slots,    \* coupon_customer_caps/{id}:{customer}
  call,     \* what each caller is doing
  recount,  \* the recount leg: its look, and the look it kept
  told,     \* history: the answers given under each key until its release
  gone,     \* history: the keys a release was started for
  raced,    \* history: ... while another call was on them, or that were redeemed again
  mixed,    \* history: the redemptions that may be mixed up with an earlier one of their key
  mixes,    \* history: ... how many there have been
  reuses,   \* history: calls that redeem a released key
  seams,    \* history: calls that died, were overtaken or were outrun by a refusal, owing
            \* the record of a use
  deaths,   \* history: calls that died
  stalls    \* history: calls whose lease lapsed while they lived

redemption == <<red, holder, lapsed>>
docs == <<redemption, slots>>
history == <<told, gone, raced, mixed, mixes, reuses, seams, deaths, stalls>>
vars == <<coupon, docs, call, recount, history>>

Answers == {"applied", "exhausted", "capped"}
States == {"none", "claimed", "bumping"} \cup Answers
Terminal(s) == s \in Answers
Call == [op : {"none", "redeem", "release"}, key : Keys \cup {None},
         at : {"idle", "slot", "right", "await", "witness", "beat", "bump", "compensate", "finish",
               "answer", "free", "reread", "unslot", "delete", "dec"},
         takeOver : BOOLEAN, bumped : BOOLEAN, saw : States]
Idle == [op |-> "none", key |-> None, at |-> "idle",
         takeOver |-> FALSE, bumped |-> FALSE, saw |-> "none"]
\* held, kept: the coupon is unwritten since this look, since the look that was kept.
Recount == [at : {"idle", "bumping", "applied", "write"}, uses : Nat, held : BOOLEAN,
            seen : BOOLEAN, seenUses : Nat, seenLive : Nat, kept : BOOLEAN, owed : SUBSET Callers]
NoRecount == [at |-> "idle", uses |-> 0, held |-> FALSE,
              seen |-> FALSE, seenUses |-> 0, seenLive |-> 0, kept |-> FALSE, owed |-> {}]

Key(c) == call[c].key
Mishaps == deaths + stalls + reuses
\* capInForce: a guest has no cap.
Capped(k) == coupon.cap # None /\ Buyer[k] # None
\* Mutant of Full: a customer at the cap still finds a slot.
FullLate(u) == Cardinality(slots[u]) > coupon.cap
Full(u) == Cardinality(slots[u]) >= coupon.cap
\* Mutant of Room: the last use is granted twice.
RoomLate == coupon.max # None => coupon.uses <= coupon.max
Room == coupon.max # None => coupon.uses < coupon.max
Applied == {k \in Keys : red[k] = "applied"}

Goto(c, at) == call' = [call EXCEPT ![c].at = at]
Return(c) == call' = [call EXCEPT ![c] = Idle]
\* The redemption is at the revision this call last wrote.
Mine(c) == holder[Key(c)] = c
\* Mutant of Record: the lease outlives the step.
RecordLeased(k, s) ==
  /\ red' = [red EXCEPT ![k] = s]
  /\ holder' = [holder EXCEPT ![k] = None]
  /\ UNCHANGED lapsed
\* A write that leaves k's redemption in nobody's hands.
Record(k, s) ==
  /\ red' = [red EXCEPT ![k] = s]
  /\ holder' = [holder EXCEPT ![k] = None]
  /\ lapsed' = lapsed \ {k}
CouponWritten == recount' = [recount EXCEPT !.held = FALSE, !.kept = FALSE]
TakeSlot(k) == slots' = [slots EXCEPT ![Buyer[k]] = @ \cup {k}]
ReleaseSlot(k) == slots' = IF Capped(k) THEN [slots EXCEPT ![Buyer[k]] = @ \ {k}] ELSE slots
\* A call that owes the record of a use, or the return of one, dies or is overtaken.
OwesRecord(c) == call[c].bumped \/ call[c].at = "dec"

-----------------------------------------------------------------------------
(* redeem *)

Hear(k, a) == told' = IF k \in gone THEN told ELSE [told EXCEPT ![k] = @ \cup {a}]

\* Mutant of Tell: the slot a late caller took is not given back.
TellOnly(c, a) ==
  /\ IF call[c].op = "redeem" THEN Hear(Key(c), a) ELSE UNCHANGED told
  /\ IF call[c].op = "redeem" THEN Return(c) ELSE Goto(c, "reread")

\* The answer a call has come to: a release reads the redemption again, an exhausted
\* redeemer first gives back the slot it may have taken late.
Tell(c, a) ==
  \/ /\ call[c].op = "release"
     /\ call' = [call EXCEPT ![c].at = "reread", ![c].bumped = FALSE]
     /\ UNCHANGED told
  \/ /\ call[c].op = "redeem" /\ a = "exhausted" /\ Capped(Key(c))
     /\ call' = [call EXCEPT ![c].at = "free", ![c].bumped = FALSE]
     /\ UNCHANGED told
  \/ /\ call[c].op = "redeem" /\ ~(a = "exhausted" /\ Capped(Key(c)))
     /\ Hear(Key(c), a)
     /\ Return(c)

\* The counter's witness, or a call that is on its way, is of an earlier redemption of k.
Stale(k) == coupon.witness = k \/ \E c \in Callers : Key(c) = k

\* The key is claimed, or its claim read.
Redeem(c, k) ==
  /\ call[c] = Idle
  /\ LET s == IF red[k] = "none" THEN "claimed" ELSE red[k] IN
     /\ red' = [red EXCEPT ![k] = s]
     /\ call' = [call EXCEPT ![c] =
          [Idle EXCEPT !.op = "redeem", !.key = k, !.saw = s,
                       !.at = IF s = "claimed" THEN "slot" ELSE "await"]]
  /\ k \in gone => reuses < MaxReuses /\ Mishaps < MaxMishaps
  /\ raced' = raced \cup ({k} \cap gone)
  /\ reuses' = IF k \in gone THEN reuses + 1 ELSE reuses
  /\ LET mix == red[k] = "none" /\ Stale(k) IN
     /\ mixed' = IF mix THEN mixed \cup {k} ELSE mixed
     /\ mixes' = IF mix THEN mixes + 1 ELSE mixes
  /\ UNCHANGED <<coupon, holder, lapsed, slots, recount, told, gone, seams, deaths, stalls>>

\* #claimCustomerSlot
Slot(c) ==
  LET k == Key(c)
      u == Buyer[k]
  IN
  /\ call[c].at = "slot"
  /\ \/ ~Capped(k) /\ Goto(c, "right") /\ UNCHANGED slots
     \/ /\ Capped(k)
        /\ k \in slots[u] \/ ~Full(u)
        /\ TakeSlot(k) /\ Goto(c, "right")
     \/ /\ Capped(k)
        /\ k \notin slots[u] /\ Full(u)
        /\ call' = [call EXCEPT ![c].at = "finish", ![c].saw = "capped"]
        /\ UNCHANGED slots
  /\ UNCHANGED <<coupon, redemption, recount, history>>

LeaseLapsed(k) == red[k] = "claimed" \/ k \in lapsed
Overtaken(k) == {d \in Callers : Key(d) = k /\ call[d].bumped}

\* #takeBumpRight: from a claim, or from an owner whose lease has lapsed.
Right(c) ==
  LET k == Key(c)
      free == IF call[c].takeOver THEN LeaseLapsed(k) ELSE red[k] = "claimed"
  IN
  /\ call[c].at = "right"
  /\ \/ /\ free
        /\ red' = [red EXCEPT ![k] = "bumping"]
        /\ lapsed' = lapsed \ {k}
        /\ holder' = [holder EXCEPT ![k] = c]
        /\ Goto(c, IF call[c].takeOver THEN "witness" ELSE "beat")
        /\ seams' = seams + Cardinality(Overtaken(k))
     \/ /\ ~free
        /\ Goto(c, IF call[c].takeOver THEN "answer" ELSE "await")
        /\ UNCHANGED <<redemption, seams>>
  /\ UNCHANGED <<coupon, slots, recount, told, gone, raced, mixed, mixes, reuses, deaths, stalls>>

\* #awaitOrTakeOver: the recorded answer, or a step nobody holds any more.
Await(c) ==
  LET k == Key(c) IN
  /\ call[c].at = "await"
  /\ \/ Terminal(red[k]) /\ Tell(c, red[k])
     \/ /\ LeaseLapsed(k)
        /\ call' = [call EXCEPT ![c].at = "slot", ![c].takeOver = TRUE]
        /\ UNCHANGED told
  /\ UNCHANGED <<coupon, docs, recount, gone, raced, mixed, mixes, reuses, seams, deaths, stalls>>

\* #takeOverBump: a use counted last under this very key is not counted again.
Witness(c) ==
  /\ call[c].at = "witness"
  /\ \/ /\ coupon.witness = Key(c)
        /\ call' = [call EXCEPT ![c].at = "finish", ![c].saw = "applied"]
     \/ coupon.witness # Key(c) /\ Goto(c, "beat")
  /\ UNCHANGED <<coupon, docs, recount, history>>

\* Mutant of Beat: the counter is moved whether or not the step is still this call's.
BeatBlind(c) ==
  /\ call[c].at = "beat"
  /\ lapsed' = lapsed \ {Key(c)}
  /\ Goto(c, "bump")
  /\ UNCHANGED <<coupon, red, holder, slots, recount, history>>

\* #heartbeat: the fence before the counter, which renews the lease.
Beat(c) ==
  /\ call[c].at = "beat"
  /\ \/ Mine(c) /\ lapsed' = lapsed \ {Key(c)} /\ Goto(c, "bump")
     \/ ~Mine(c) /\ Goto(c, "answer") /\ UNCHANGED lapsed
  /\ UNCHANGED <<coupon, red, holder, slots, recount, history>>

\* #bumpGlobal after its heartbeat: the guarded +1.  A guard that fails after a read that
\* found room sends the call back to its heartbeat.
Bump(c) ==
  LET k == Key(c) IN
  /\ call[c].at = "bump"
  /\ \/ /\ Room
        /\ coupon' = [coupon EXCEPT !.uses = @ + 1, !.witness = k]
        /\ CouponWritten
        /\ call' = [call EXCEPT ![c].at = "finish", ![c].saw = "applied", ![c].bumped = TRUE]
     \/ /\ ~Room
        /\ call' = [call EXCEPT ![c].at = "compensate", ![c].saw = "exhausted"]
        /\ UNCHANGED <<coupon, recount>>
     \/ ~Room /\ Goto(c, "beat") /\ UNCHANGED <<coupon, recount>>
  /\ UNCHANGED <<docs, history>>

\* #runBump's compensation of a refused bump.
Compensate(c) ==
  /\ call[c].at = "compensate"
  /\ ReleaseSlot(Key(c))
  /\ Goto(c, "finish")
  /\ UNCHANGED <<coupon, redemption, recount, history>>

\* Mutant of Finish: a call answers what it came to, whatever is recorded.
FinishOwn(c) ==
  LET k == Key(c) IN
  /\ call[c].at = "finish"
  /\ IF red[k] \in {"claimed", "bumping"} THEN Record(k, call[c].saw) ELSE UNCHANGED redemption
  /\ Tell(c, call[c].saw)
  /\ seams' = IF call[c].bumped /\ red[k] \in {"exhausted", "capped"} THEN seams + 1 ELSE seams
  /\ UNCHANGED <<coupon, slots, recount, gone, raced, mixed, mixes, reuses, deaths, stalls>>

\* #finish: the first answer recorded is everybody's.
Finish(c) ==
  LET k == Key(c)
      a == call[c].saw
  IN
  /\ call[c].at = "finish"
  /\ \/ /\ red[k] \in {"claimed", "bumping"}
        /\ Record(k, a)
        /\ Tell(c, a)
     \/ Terminal(red[k]) /\ Tell(c, red[k]) /\ UNCHANGED redemption
     \/ red[k] = "none" /\ Tell(c, a) /\ UNCHANGED redemption
  /\ seams' = IF call[c].bumped /\ red[k] \in {"exhausted", "capped"} THEN seams + 1 ELSE seams
  /\ UNCHANGED <<coupon, slots, recount, gone, raced, mixed, mixes, reuses, deaths, stalls>>

\* #answerOrContend
Answer(c) ==
  /\ call[c].at = "answer"
  /\ Terminal(red[Key(c)])
  /\ Tell(c, red[Key(c)])
  /\ UNCHANGED <<coupon, docs, recount, gone, raced, mixed, mixes, reuses, seams, deaths, stalls>>

\* redeem's own compensation of an exhausted answer, whoever recorded it.
Free(c) ==
  /\ call[c].at = "free"
  /\ ReleaseSlot(Key(c))
  /\ Hear(Key(c), "exhausted")
  /\ Return(c)
  /\ UNCHANGED <<coupon, redemption, recount, gone, raced, mixed, mixes, reuses, seams, deaths, stalls>>

\* StorageContentionError while waiting: a redeemer is told to try again, a release reads
\* the redemption again.
Contend(c) ==
  /\ call[c].at \in {"await", "answer"}
  /\ ~Terminal(red[Key(c)])
  /\ \/ call[c].op = "redeem" /\ Return(c)
     \/ call[c].op = "release" /\ Goto(c, "reread")
  /\ UNCHANGED <<coupon, docs, recount, history>>

-----------------------------------------------------------------------------
(* release, releaseByOrder *)

\* The redemption is found holding a use; one that is being counted is settled first.
Release(c, k) ==
  /\ call[c] = Idle
  /\ red[k] \in {"claimed", "bumping", "applied"}
  /\ call' = [call EXCEPT ![c] =
       [Idle EXCEPT !.op = "release", !.key = k, !.saw = red[k],
                    !.at = IF red[k] = "bumping" THEN "await" ELSE "unslot"]]
  /\ gone' = gone \cup {k} /\ told' = [told EXCEPT ![k] = {}]
  /\ raced' = IF \E d \in Callers : Key(d) = k THEN raced \cup {k} ELSE raced
  /\ UNCHANGED <<coupon, docs, recount, mixed, mixes, reuses, seams, deaths, stalls>>

\* #settleForRelease after the wait: the witness decides for one that is bumping still.
Reread(c) ==
  LET k == Key(c)
      s == IF red[k] = "bumping" /\ coupon.witness = k THEN "applied" ELSE red[k]
  IN
  /\ call[c].at = "reread"
  /\ \/ red[k] = "none" /\ Return(c)
     \/ red[k] # "none" /\ call' = [call EXCEPT ![c].at = "unslot", ![c].saw = s]
  /\ UNCHANGED <<coupon, docs, recount, history>>

Unslot(c) ==
  /\ call[c].at = "unslot"
  /\ ReleaseSlot(Key(c))
  /\ Goto(c, "delete")
  /\ UNCHANGED <<coupon, redemption, recount, history>>

\* The delete, at whatever revision it finds, is the once-only claim of the decrement.
Delete(c) ==
  LET k == Key(c) IN
  /\ call[c].at = "delete"
  /\ \/ /\ red[k] # "none"
        /\ Record(k, "none")
        /\ IF call[c].saw = "applied" THEN Goto(c, "dec") ELSE Return(c)
     \/ red[k] = "none" /\ Return(c) /\ UNCHANGED redemption
  /\ recount' = [recount EXCEPT !.owed = IF red[k] = "none" THEN @ \ {c} ELSE @]
  /\ mixed' = mixed \ {k}
  /\ UNCHANGED <<coupon, slots, told, gone, raced, mixes, reuses, seams, deaths, stalls>>

\* #decrementGlobal
Dec(c) ==
  /\ call[c].at = "dec"
  /\ coupon' = [coupon EXCEPT !.uses = IF @ > 0 THEN @ - 1 ELSE 0]
  /\ recount' = [recount EXCEPT !.held = @ /\ coupon.uses = 0, !.kept = @ /\ coupon.uses = 0,
                                !.owed = @ \ {c}]
  /\ Return(c)
  /\ UNCHANGED <<docs, history>>

-----------------------------------------------------------------------------
(* recountUses: two looks, and a write if nothing moved between them *)

\* The releases that hold a use to give back.
Owing == {c \in Callers : call[c].at \in {"unslot", "delete", "dec"} /\ call[c].saw = "applied"}

\* The coupon is read.  A second look waits out the settle window, in which a release that
\* had still to give its use back at the first has done so.
LookAtCoupon ==
  /\ recount.at = "idle"
  /\ recount.owed = {}
  /\ recount' = [recount EXCEPT !.at = "bumping", !.uses = coupon.uses, !.held = TRUE]
  /\ UNCHANGED <<coupon, docs, call, history>>

\* A redemption that is bumping cannot be judged.
LookForBumping ==
  /\ recount.at = "bumping"
  /\ recount' = IF \E k \in Keys : red[k] = "bumping" THEN NoRecount
                ELSE [recount EXCEPT !.at = "applied"]
  /\ UNCHANGED <<coupon, docs, call, history>>

SameDrift(live) ==
  recount.seen /\ recount.kept /\ recount.seenUses = recount.uses /\ recount.seenLive = live

\* Mutant of LookAtApplied: one look is enough.
LookOnce ==
  LET live == Cardinality(Applied) IN
  /\ recount.at = "applied"
  /\ recount' = IF live = recount.uses THEN NoRecount
                ELSE [recount EXCEPT !.at = "write", !.seenLive = live]
  /\ UNCHANGED <<coupon, docs, call, history>>

\* The applied redemptions are counted, and the drift judged.
LookAtApplied ==
  LET live == Cardinality(Applied) IN
  /\ recount.at = "applied"
  /\ \/ live = recount.uses /\ recount' = NoRecount
     \/ /\ live # recount.uses /\ ~SameDrift(live)
        /\ recount' = [NoRecount EXCEPT !.seen = TRUE, !.seenUses = recount.uses, !.seenLive = live,
                                        !.kept = recount.held,
                                        !.owed = Owing]
     \/ /\ live # recount.uses /\ SameDrift(live)
        /\ recount' = [recount EXCEPT !.at = "write"]
  /\ UNCHANGED <<coupon, docs, call, history>>

\* The correction, at the revision this look read.
Correct ==
  /\ recount.at = "write"
  /\ coupon' = IF recount.held THEN [coupon EXCEPT !.uses = recount.seenLive] ELSE coupon
  /\ recount' = NoRecount
  /\ UNCHANGED <<docs, call, history>>

-----------------------------------------------------------------------------
(* The environment *)

\* A lease lapses over an owner that is slow or dead; never between its heartbeat and its
\* bump, which are adjacent.
Lapse(k) ==
  /\ red[k] = "bumping" /\ k \notin lapsed
  /\ ~\E c \in Callers : Key(c) = k /\ call[c].at = "bump" /\ Mine(c)
  /\ stalls' = IF holder[k] = None THEN stalls ELSE stalls + 1
  /\ holder[k] # None => stalls < MaxStalls /\ Mishaps < MaxMishaps
  /\ lapsed' = lapsed \cup {k}
  /\ UNCHANGED <<coupon, red, holder, slots, call, recount, told, gone, raced, mixed, mixes, reuses, seams, deaths>>

\* The process dies, or storage fails the call where nothing catches it.
Crash(c) ==
  /\ call[c] # Idle
  /\ deaths < MaxDeaths /\ Mishaps < MaxMishaps /\ deaths' = deaths + 1
  /\ seams' = IF OwesRecord(c) THEN seams + 1 ELSE seams
  /\ holder' = [k \in Keys |-> IF holder[k] = c THEN None ELSE holder[k]]
  /\ recount' = [recount EXCEPT !.owed = @ \ {c}]
  /\ Return(c)
  /\ UNCHANGED <<coupon, red, lapsed, slots, told, gone, raced, mixed, mixes, reuses, stalls>>

Init ==
  /\ \E l \in Limits : coupon = [uses |-> 0, witness |-> None, max |-> l.max, cap |-> l.cap]
  /\ red = [k \in Keys |-> "none"]
  /\ holder = [k \in Keys |-> None]
  /\ lapsed = {}
  /\ slots = [u \in Customers |-> {}]
  /\ call = [c \in Callers |-> Idle]
  /\ recount = NoRecount
  /\ told = [k \in Keys |-> {}]
  /\ gone = {} /\ raced = {} /\ mixed = {}
  /\ mixes = 0 /\ reuses = 0 /\ seams = 0 /\ deaths = 0 /\ stalls = 0

Step(c) ==
  \/ Slot(c) \/ Right(c) \/ Await(c) \/ Witness(c) \/ Beat(c) \/ Bump(c) \/ Compensate(c)
  \/ Finish(c) \/ Answer(c) \/ Free(c) \/ Contend(c)
  \/ Reread(c) \/ Unslot(c) \/ Delete(c) \/ Dec(c)

Next ==
  \/ \E c \in Callers : Step(c) \/ Crash(c) \/ \E k \in Keys : Redeem(c, k) \/ Release(c, k)
  \/ LookAtCoupon \/ LookForBumping \/ LookAtApplied \/ Correct
  \/ \E k \in Keys : Lapse(k)

Spec == Init /\ [][Next]_vars

-----------------------------------------------------------------------------
(* Properties *)

\* The documents have the shapes the code gives them; only a redemption that is bumping
\* has an owner, or a lease to lapse.
TypeOK ==
  /\ coupon \in [uses : Nat, witness : Keys \cup {None},
                 max : Nat \cup {None}, cap : Nat \cup {None}]
  /\ red \in [Keys -> States]
  /\ holder \in [Keys -> Callers \cup {None}]
  /\ \A k \in Keys : holder[k] # None => red[k] = "bumping"
  /\ lapsed \subseteq {k \in Keys : red[k] = "bumping"}
  /\ slots \in [Customers -> SUBSET Keys]
  /\ call \in [Callers -> Call]
  /\ recount \in Recount
  /\ told \in [Keys -> SUBSET Answers]
  /\ {gone, raced, mixed} \subseteq SUBSET Keys
  /\ {mixes, reuses, seams, deaths, stalls} \subseteq Nat

\* The counter is never low: every redemption that holds a use, and every use a release has
\* still to give back, is counted (the header's "never low"), the recount notwithstanding,
\* but for one use of each redemption that could be mixed up with an earlier one of its key.
NeverLow ==
  Cardinality(Applied) + Cardinality({c \in Callers : call[c].at = "dec"}) <= coupon.uses + mixes

\* No-over-redeem: a capped coupon is held by more redemptions than its cap only by those
\* that could be mixed up with an earlier one of their key.
NoOverRedeem == coupon.max # None => Cardinality(Applied) <= coupon.max + mixes

InSeam == {k \in Keys : \E c \in Callers : Key(c) = k /\ call[c].bumped}

\* The counter is high by at most one for each call that died, was overtaken, or found its
\* key refused, between the counter and its record: an owner that is merely slow adds
\* nothing late.
HighOnlyBySeams ==
  raced = {} =>
    coupon.uses <= Cardinality(Applied \cup InSeam)
                     + Cardinality({c \in Callers : call[c].at = "dec"}) + seams

\* When all is quiet and nothing died or stalled, a customer's slots are those of the redemptions that
\* hold a use: a coupon that was exhausted leaves none taken, whoever ran the refusal.  (A
\* caller refused for the cap may have a peer that took the slot.)
SlotsHeldByUses ==
  (\A c \in Callers : call[c] = Idle) /\ deaths = 0 /\ stalls = 0 /\ raced = {} =>
    \A k \in Keys : Capped(k) =>
      /\ red[k] \in {"claimed", "bumping", "applied"} => k \in slots[Buyer[k]]
      /\ red[k] \in {"none", "exhausted"} => k \notin slots[Buyer[k]]

\* Until it is released, every caller of a key is told what its redemption records.
AnswersStand == \A k \in Keys \ gone : \A a \in told[k] : red[k] = a
=============================================================================
